------------------------------ MODULE PycLexer ------------------------------
(***************************************************************************)
(* The lexer of the self-hosted compiler (compiler/lexer.py).  A step is   *)
(* one turn of the loop of _pyc_lex, or one character of the text of an    *)
(* f-string, whose loop emits tokens on the way.  A token is a kind and    *)
(* its text; lines, columns and offsets are left out.  Source text is      *)
(* ASCII.                                                                  *)
(***************************************************************************)
EXTENDS Integers, Sequences, SequencesExt

CONSTANTS Programs,    \* names of the texts to lex
          SourceText   \* the text of each

(* The empty text, and in the place of a character the end of the input.   *)
Nothing == ""
CharAt(s, j) == SubSeq(s, j, j)

(* A text has a length, and a character at every place up to there.        *)
ASSUME TextAssumption ==
    \A p \in Programs :
        LET s == SourceText[p]
        IN  Len(s) \in Nat /\ \A j \in 1..Len(s) : CharAt(s, j) # Nothing

VARIABLES program,  \* the one that is lexed
          source,   \* _lex_src
          i,        \* _lex_i, from 1
          tokens,   \* tk_a, tk_s
          paren,    \* open brackets
          atbol,    \* at the beginning of a line
          needNl,   \* the line has a token, so its end is one too
          indents,  \* widths of the open blocks
          mode,     \* stmt_n: 0 "code", 1 "text" of an f-string, 2 "braces" in one
          quote,    \* sc_n: how the f-string ends, and the brackets outside it
          piece,    \* text of the f-string since the last token
          bad       \* SyntaxError

vars == <<program, source, i, tokens, paren, atbol, needNl, indents, mode, quote, piece, bad>>

Chars(s) == {CharAt(s, j) : j \in 1..Len(s)}
Digits == {"0", "1", "2", "3", "4", "5", "6", "7", "8", "9"}
Letters == {"a", "b", "c", "d", "e", "f", "g", "h", "i", "j", "k", "l", "m",
            "n", "o", "p", "q", "r", "s", "t", "u", "v", "w", "x", "y", "z",
            "A", "B", "C", "D", "E", "F", "G", "H", "I", "J", "K", "L", "M",
            "N", "O", "P", "Q", "R", "S", "T", "U", "V", "W", "X", "Y", "Z"}
IdStart == Letters \cup {"_"}
IdCont == IdStart \cup Digits
Quotes == {"'", "\""}
Blanks == {" ", "\t"}
OP3 == {"**=", "...", "//=", "<<=", ">>="}
OP2 == {"!=", "%=", "&=", "**", "*=", "+=", "-=", "->", "//", "/=", ":=", "<<", "<=", "==",
        ">=", ">>", "@=", "^=", "|="}

(* The character at j; the text from j up to k; the first position from j  *)
(* on where the characters cs end.                                         *)
At(j) == IF j <= Len(source) THEN CharAt(source, j) ELSE Nothing
Text(j, k) == SubSeq(source, j, k - 1)
RunEnd(j, cs) == CHOOSE k \in j..(Len(source) + 1) :
                    At(k) \notin cs /\ \A m \in j..(k - 1) : At(m) \in cs

Token(kind, text) == [kind |-> kind, text |-> text]
Plain(kind) == Token(kind, Nothing)
(* Mutant: an `if` where the loop is, so that one block is closed.         *)
DedentsOne(levels) == IF levels > 0 THEN <<Plain("DEDENT")>> ELSE <<>>
Dedents(levels) == [k \in 1..levels |-> Plain("DEDENT")]
Ended == bad \/ (tokens # <<>> /\ Last(tokens) = Plain("ENDMARKER"))

Init ==
    /\ program \in Programs /\ source = SourceText[program]
    /\ i = 1 /\ tokens = <<>> /\ paren = 0 /\ atbol = TRUE /\ needNl = FALSE
    /\ indents = <<0>> /\ mode = "code" /\ quote = [mark |-> Nothing, len |-> 0, depth |-> 0]
    /\ piece = Nothing /\ bad = FALSE

(* Mutant: an error is found, and the loop goes on where it was.           *)
SyntaxErrorQuiet == UNCHANGED vars

SyntaxError ==
    /\ bad' = TRUE
    /\ UNCHANGED <<program, source, i, tokens, paren, atbol, needNl, indents, mode, quote, piece>>

(* The text of an f-string with the next character.                        *)
Longer == piece \o At(i)

(* The tokens ts, and on at j.                                             *)
Emit(ts, j) ==
    /\ tokens' = tokens \o ts /\ i' = j
    /\ UNCHANGED <<program, source, indents, bad>>
Skip(j) == Emit(<<>>, j)

EndOfInput ==
    /\ ~Ended /\ i > Len(source)
    /\ IF mode # "code" \/ paren > 0 THEN SyntaxError
       ELSE /\ tokens' = tokens \o (IF needNl THEN <<Plain("NEWLINE")>> ELSE <<>>)
                         \o Dedents(Len(indents) - 1) \o <<Plain("ENDMARKER")>>
            /\ needNl' = FALSE /\ indents' = <<0>>
            /\ UNCHANGED <<program, source, i, paren, atbol, mode, quote, piece, bad>>

-----------------------------------------------------------------------------
(* The text of an f-string.                                                *)
InText == ~Ended /\ i <= Len(source) /\ mode = "text"
Tripled(j) == At(j + 1) = At(j) /\ At(j + 2) = At(j)
Closes == At(i) = quote.mark /\ (quote.len = 1 \/ Tripled(i))
Middle == IF piece = Nothing THEN <<>> ELSE <<Token("FMIDDLE", piece)>>
Doubled == At(i) \in {"{", "}"} /\ At(i + 1) = At(i)

CloseText ==
    /\ InText /\ Closes
    /\ Emit(Middle \o <<Token("FEND", Text(i, i + quote.len))>>, i + quote.len)
    /\ mode' = "code" /\ needNl' = TRUE /\ piece' = Nothing
    /\ UNCHANGED <<paren, atbol, quote>>

DoubledBrace ==
    /\ InText /\ Doubled
    /\ Emit(<<Token("FMIDDLE", Longer)>>, i + 2) /\ piece' = Nothing
    /\ UNCHANGED <<paren, atbol, needNl, mode, quote>>

OpenBraces ==
    /\ InText /\ At(i) = "{" /\ ~Doubled
    /\ Emit(Middle \o <<Token("OP", "{")>>, i + 1)
    /\ paren' = paren + 1 /\ mode' = "braces" /\ needNl' = TRUE /\ piece' = Nothing
    /\ UNCHANGED <<atbol, quote>>

BadText ==
    /\ InText /\ SyntaxError
    /\ \/ At(i) = "}" /\ ~Doubled
       \/ At(i) = "\n" /\ quote.len = 1

TextChar ==
    /\ InText /\ ~Closes /\ At(i) \notin {"{", "}"} /\ (At(i) = "\n" => quote.len = 3)
    /\ Skip(i + 1) /\ piece' = Longer
    /\ UNCHANGED <<paren, atbol, needNl, mode, quote>>

-----------------------------------------------------------------------------
(* The beginning of a line: blank lines and lines inside brackets leave    *)
(* the indentation alone.                                                  *)
Indented == RunEnd(i, Blanks)
Width ==
    LET width[k \in i..Indented] ==
            IF k = i THEN 0
            ELSE IF At(k - 1) = " " THEN width[k - 1] + 1
            ELSE (width[k - 1] \div 8 + 1) * 8
    IN  width[Indented]
BlankLine == At(Indented) \in {Nothing, "\n", "#"}
(* Blocks are closed from the innermost on, up to one that is not deeper.  *)
OpenBlocks == Max({k \in DOMAIN indents : k = 1 \/ indents[k] <= Width})

LineStart ==
    /\ ~Ended /\ i <= Len(source) /\ mode # "text" /\ atbol
    /\ LET level == IF BlankLine \/ paren > 0 THEN indents
                    ELSE IF Width > Last(indents) THEN Append(indents, Width)
                    ELSE SubSeq(indents, 1, OpenBlocks)
       IN  IF Last(level) # Width /\ ~BlankLine /\ paren = 0 THEN SyntaxError
           ELSE /\ tokens' = tokens
                       \o (IF Len(level) > Len(indents) THEN <<Token("INDENT", Nothing)>> ELSE <<>>)
                       \o Dedents(Len(indents) - Len(level))
                /\ i' = Indented /\ atbol' = FALSE /\ indents' = level
                /\ UNCHANGED <<program, source, paren, needNl, mode, quote, piece, bad>>

-----------------------------------------------------------------------------
(* The rest of a line, one token or blank at a time.                       *)
InLine(c) == ~Ended /\ i <= Len(source) /\ mode # "text" /\ ~atbol /\ At(i) \in c

Blank ==
    /\ InLine(Blanks) /\ Skip(i + 1)
    /\ UNCHANGED <<paren, atbol, needNl, mode, quote, piece>>

Comment ==
    /\ InLine({"#"})
    /\ Skip(CHOOSE k \in i..(Len(source) + 1) :
                At(k) \in {"\n", Nothing} /\ \A m \in i..(k - 1) : At(m) # "\n")
    /\ UNCHANGED <<paren, atbol, needNl, mode, quote, piece>>

Newline ==
    /\ InLine({"\n"})
    /\ Emit(IF paren = 0 /\ needNl THEN <<Plain("NEWLINE")>> ELSE <<>>, i + 1)
    /\ atbol' = TRUE /\ needNl' = (needNl /\ paren > 0)
    /\ UNCHANGED <<paren, mode, quote, piece>>

Continuation ==
    /\ InLine({"\\"})
    /\ IF At(i + 1) # "\n" THEN SyntaxError
       ELSE Skip(i + 2) /\ atbol' = FALSE /\ UNCHANGED <<paren, needNl, mode, quote, piece>>

(* _pyc_lex_read_string: the end of the string whose quotes open at j, or  *)
(* 0 if nothing ends it.                                                   *)
QuoteLen(j) == IF Tripled(j) THEN 3 ELSE 1
StringEnd(j) ==
    LET len == QuoteLen(j)
        end[k \in (j + len)..(Len(source) + 2)] ==
            IF k > Len(source) THEN 0
            ELSE IF At(k) = "\\" THEN IF At(k + 1) = Nothing THEN 0 ELSE end[k + 2]
            ELSE IF len = 1 /\ At(k) = "\n" THEN 0
            ELSE IF At(k) = At(j) /\ (len = 1 \/ Tripled(k)) THEN k + len
            ELSE end[k + 1]
    IN  end[j + len]

(* One token up to end, if it is in order.                                 *)
Literal(kind, ok, end) ==
    IF ~ok THEN SyntaxError
    ELSE /\ Emit(<<Token(kind, Text(i, end))>>, end) /\ needNl' = TRUE
         /\ UNCHANGED <<paren, atbol, mode, quote, piece>>

String == InLine(Quotes) /\ Literal("STRING", StringEnd(i) # 0, StringEnd(i))

(* _pyc_lex_read_number: where a number ends, and whether its digits and   *)
(* underscores are in order.                                               *)
Hex == Digits \cup {"a", "b", "c", "d", "e", "f", "A", "B", "C", "D", "E", "F"}
PrefixDigits(c) ==
    CASE c \in {"x", "X"} -> Hex
      [] c \in {"o", "O"} -> {"0", "1", "2", "3", "4", "5", "6", "7"}
      [] c \in {"b", "B"} -> {"0", "1"}
      [] OTHER -> {}
Grouped(j) == RunEnd(j, Digits \cup {"_"})
(* Mutant: an underscore may be followed by another.                       *)
GroupsOkRuns(j) == \A m \in j..(Grouped(j) - 1) : At(m) = "_" => At(m + 1) \in Digits \cup {"_"}
GroupsOk(j) == \A m \in j..(Grouped(j) - 1) : At(m) = "_" => At(m + 1) \in Digits
FractionEnd(j) == IF At(j) = "." THEN Grouped(j + 1) ELSE j
ExponentAt(j) ==
    IF At(j) \notin {"e", "E"} THEN 0 ELSE IF At(j + 1) \in {"+", "-"} THEN j + 2 ELSE j + 1
Imaginary(j) == IF At(j) \in {"j", "J"} THEN j + 1 ELSE j

PrefixedNumber ==
    LET digits == PrefixDigits(At(i + 1))
        end == RunEnd(i + 2, digits \cup {"_"})
    IN  Literal("NUMBER",
                At(end - 1) # "_" /\ \E m \in (i + 2)..(end - 1) : At(m) \in digits, end)

DecimalNumber ==
    LET whole == IF At(i) = "." THEN i ELSE Grouped(i)
        real == IF At(i) = "." THEN RunEnd(i + 1, Digits) ELSE FractionEnd(whole)
        power == ExponentAt(real)
        powered == power # 0 /\ At(power) \in Digits
        end == Imaginary(IF powered THEN Grouped(power) ELSE real)
        ok == /\ At(i) # "." => GroupsOk(i) /\ (At(whole) = "." => GroupsOk(whole + 1))
              /\ powered => GroupsOk(power)
              /\ power = real + 2 => powered
    IN  Literal("NUMBER", ok, end)

Number ==
    /\ InLine(Digits) \/ (InLine({"."}) /\ At(i + 1) \in Digits)
    /\ IF At(i) = "0" /\ PrefixDigits(At(i + 1)) # {} THEN PrefixedNumber ELSE DecimalNumber

(* _pyc_lex_read_name: a name, a string with a prefix, or the opening of   *)
(* an f-string.                                                            *)
NameEnd == RunEnd(i, IdCont)
PrefixHas(cs) == \E k \in i..(NameEnd - 1) : At(k) \in Chars(cs)
OpensString ==
    At(NameEnd) \in Quotes /\ \A k \in i..(NameEnd - 1) : At(k) \in Chars("rRbBuUfFtT")
StringPrefix == NameEnd - i = 1 \/ (NameEnd - i = 2 /\ PrefixHas("rR") /\ PrefixHas("bB"))

Name ==
    /\ InLine(IdStart) /\ ~OpensString
    /\ Literal("NAME", TRUE, NameEnd)

PrefixedString ==
    /\ InLine(IdStart) /\ OpensString /\ ~PrefixHas("fFtT")
    /\ LET end == StringEnd(NameEnd) IN Literal("STRING", StringPrefix /\ end # 0, end)

FString ==
    /\ InLine(IdStart) /\ OpensString /\ PrefixHas("fFtT")
    /\ LET end == NameEnd + QuoteLen(NameEnd)
       IN  IF PrefixHas("tTbBuU") \/ mode = "braces" THEN SyntaxError
           ELSE /\ Emit(<<Token("FSTART", Text(i, end))>>, end)
                /\ mode' = "text" /\ needNl' = TRUE
                /\ quote' = [mark |-> At(NameEnd), len |-> QuoteLen(NameEnd), depth |-> paren % 256]
                /\ UNCHANGED <<paren, atbol, piece>>

(* An operator, the longest there is; any other character is one too.      *)
OpLen ==
    IF i + 2 <= Len(source) /\ Text(i, i + 3) \in OP3 THEN 3
    ELSE IF i + 1 <= Len(source) /\ Text(i, i + 2) \in OP2 THEN 2 ELSE 1
OpText == Text(i, i + OpLen)
Depth ==
    IF OpText \in {"(", "[", "{"} THEN paren + 1
    ELSE IF OpText \in {")", "]", "}"} /\ paren > 0 THEN paren - 1 ELSE paren

Operator ==
    /\ ~Ended /\ i <= Len(source) /\ mode # "text" /\ ~atbol
    /\ At(i) \notin Blanks \cup {"#", "\n", "\\"} \cup Quotes \cup Digits \cup IdStart
    /\ ~(At(i) = "." /\ At(i + 1) \in Digits)
    /\ Emit(<<Token("OP", OpText)>>, i + OpLen)
    /\ paren' = Depth /\ needNl' = TRUE
    /\ mode' = IF mode = "braces" /\ OpText = "}" /\ Depth = quote.depth THEN "text" ELSE mode
    /\ UNCHANGED <<atbol, quote, piece>>

-----------------------------------------------------------------------------
Next ==
    \/ EndOfInput
    \/ CloseText \/ DoubledBrace \/ OpenBraces \/ BadText \/ TextChar
    \/ LineStart \/ Blank \/ Comment \/ Newline \/ Continuation
    \/ String \/ Number \/ Name \/ PrefixedString \/ FString \/ Operator

Spec == Init /\ [][Next]_vars
FairSpec == Spec /\ WF_vars(Next)

-----------------------------------------------------------------------------
(* Properties.                                                             *)

(* How many of the first n tokens are of a kind, and how many brackets of  *)
(* a kind are open behind them.                                            *)
Count(n, kind) == Cardinality({k \in 1..n : tokens[k].kind = kind})
Blocks(n) == Count(n, "INDENT") - Count(n, "DEDENT")
FStrings(n) == Count(n, "FSTART") - Count(n, "FEND")

(* The parser takes the tokens for nested blocks and strings and counts    *)
(* nothing itself: it reads a block up to a DEDENT (parser.py:1696) and an *)
(* f-string up to its end (parser.py:654).  Whatever the text: a DEDENT    *)
(* closes a block that was opened before; text of an f-string stands in    *)
(* one; and a text that is accepted ends with everything closed, behind    *)
(* its last line and with the one ENDMARKER.  The widths of open blocks    *)
(* increase, from 0.                                                       *)
WellNested ==
    /\ indents[1] = 0 /\ \A k \in 2..Len(indents) : indents[k - 1] < indents[k]
    /\ \A n \in 1..Len(tokens) :
          /\ Blocks(n) >= 0 /\ FStrings(n) \in {0, 1}
          /\ tokens[n].kind = "FMIDDLE" => FStrings(n) = 1
          /\ tokens[n].kind = "ENDMARKER" => n = Len(tokens)
    /\ Ended /\ ~bad =>
          Blocks(Len(tokens)) = 0 /\ FStrings(Len(tokens)) = 0 /\ paren = 0 /\ ~needNl
=============================================================================
