----------------------------- MODULE MCPycFront -----------------------------
(***************************************************************************)
(* Texts for the lexer and the parser: expressions in every place of an    *)
(* expression, statements in several layouts, literals in several          *)
(* spellings, texts that are no program, and all short strings over the    *)
(* characters of numbers.                                                  *)
(***************************************************************************)
EXTENDS PycLexer, PyTrees

CONSTANT Parsed    \* what PycParser makes of a sequence of tokens

Parser == INSTANCE PycParser
Python == INSTANCE PySourceText

-----------------------------------------------------------------------------
(* Expressions.                                                            *)
A == NameOf("a")
B == NameOf("b")
C == NameOf("c")
IfExp(t, x, y) == [k |-> "IfExp", t |-> t, a |-> x, b |-> y]
Lambda(params, body) ==
    [Function(0, "<lambda>", params, <<body>>) EXCEPT !.k = "Lambda"]
FText(v, conv) ==
    [k |-> "JoinedStr", vs |-> <<Str("s "), [k |-> "FormattedValue", v |-> v, conv |-> conv]>>]
Shown(v) == [k |-> "JoinedStr", vs |-> <<[k |-> "FormattedValue", v |-> v, conv |-> ""], Str(";")>>]
Elements(kind, es) == [k |-> kind, es |-> es]
Pair(key, v) == [unpack |-> FALSE, key |-> key, v |-> v]
Rest(v) == [unpack |-> TRUE, v |-> v]
Dict(es) == Elements("Dict", es)
X == Target("x")

Inners == [
    name |-> A, number |-> Num(1), string |-> Str("s"),
    true |-> [k |-> "Constant", v |-> <<"bool", TRUE>>],
    or |-> Or(A, B), and |-> And(A, B), not |-> Un("Not", A),
    less |-> Cmp(A, <<"Lt">>, <<B>>), chain |-> Cmp(A, <<"IsNot", "NotIn", "GtE">>, <<B, C, A>>),
    bar |-> Bin(A, "BitOr", B), caret |-> Bin(A, "BitXor", B), shift |-> Bin(A, "LShift", B),
    minus |-> Bin(A, "Sub", B), times |-> Bin(A, "Mult", B), negative |-> Un("USub", A),
    power |-> Bin(A, "Pow", B), conditional |-> IfExp(A, B, C),
    lambda |-> Lambda(<<>>, Bin(A, "Add", B)),
    lambda2 |-> [Lambda(<<"p", "q">>, A) EXCEPT !.vararg = <<"r">>, !.kwonly = <<"s">>, !.kwarg = <<"u">>],
    call |-> CallKw(A, <<B, Star(C)>>, <<Kw("p", B), Kw("**", C)>>), empty |-> Call("a", <<>>),
    attribute |-> Attr(A, "b"), index |-> Item(A, B), slice |-> Item(A, SliceFrom(<<B>>, <<C>>)),
    all |-> Item(A, SliceFrom(<<>>, <<>>)),
    unit |-> Elements("Tuple", <<>>), one |-> Elements("Tuple", <<A>>), pair |-> Both(A, B),
    list |-> List(<<A, Star(B), C>>), nil |-> List(<<>>), set |-> Elements("Set", <<A, B>>),
    dict |-> Dict(<<Pair(A, B), Rest(C), Pair(B, C)>>), none |-> Dict(<<>>),
    listcomp |-> Comp("ListComp", 0, "x", A, <<B>>, <<C>>),
    setcomp |-> Comp("SetComp", 0, "x", A, <<>>, <<C>>),
    dictcomp |-> Comp("DictComp", 0, "x", A, <<>>, <<B, C>>),
    text |-> FText(Bin(A, "Add", B), "r")]

(* The places of an expression where another may stand.                    *)
Outers == {"or 1", "or 2", "and 1", "and 2", "not", "less 1", "less 2", "bar 1", "bar 2", "shift 1",
    "minus 1", "minus 2", "times 1", "times 2", "negative", "power 1", "power 2"}
Places == Outers \cup
    {"if 1", "if 2", "if 3", "lambda", "function", "argument 1", "argument 2", "star", "keyword",
     "keywords", "attribute", "subscript", "index", "lower", "upper", "pair 1", "pair 2", "list",
     "in list", "set", "key", "value", "unpack", "element", "iterable", "filter", "text"}
Put(place, e) ==
    CASE place = "or 1" -> Or(e, B) [] place = "or 2" -> Or(A, e)
      [] place = "and 1" -> And(e, B) [] place = "and 2" -> And(A, e)
      [] place = "not" -> Un("Not", e)
      [] place = "less 1" -> Cmp(e, <<"LtE", "Eq">>, <<B, C>>)
      [] place = "less 2" -> Cmp(A, <<"Gt", "In">>, <<e, C>>)
      [] place = "bar 1" -> Bin(e, "BitOr", B) [] place = "bar 2" -> Bin(A, "BitOr", e)
      [] place = "shift 1" -> Bin(e, "RShift", B)
      [] place = "minus 1" -> Bin(e, "Sub", B) [] place = "minus 2" -> Bin(A, "Sub", e)
      [] place = "times 1" -> Bin(e, "FloorDiv", B) [] place = "times 2" -> Bin(A, "Mod", e)
      [] place = "negative" -> Un("USub", e)
      [] place = "power 1" -> Bin(e, "Pow", B) [] place = "power 2" -> Bin(A, "Pow", e)
      [] place = "if 1" -> IfExp(e, B, C) [] place = "if 2" -> IfExp(A, e, C)
      [] place = "if 3" -> IfExp(A, B, e)
      [] place = "lambda" -> Lambda(<<"p">>, e)
      [] place = "function" -> CallKw(e, <<A>>, <<>>)
      [] place = "argument 1" -> Call("a", <<e, B>>) [] place = "argument 2" -> Call("a", <<B, e>>)
      [] place = "star" -> Call("a", <<Star(e)>>)
      [] place = "keyword" -> CallKw(A, <<>>, <<Kw("p", e), Kw("q", B)>>)
      [] place = "keywords" -> CallKw(A, <<B>>, <<Kw("**", e)>>)
      [] place = "attribute" -> Attr(e, "p") [] place = "subscript" -> Item(e, A)
      [] place = "index" -> Item(A, e)
      [] place = "lower" -> Item(A, SliceFrom(<<e>>, <<>>))
      [] place = "upper" -> Item(A, SliceFrom(<<>>, <<e>>))
      [] place = "pair 1" -> Both(e, A) [] place = "pair 2" -> Both(A, e)
      [] place = "list" -> List(<<e>>) [] place = "in list" -> List(<<Star(e), e>>)
      [] place = "set" -> Elements("Set", <<e, A>>)
      [] place = "key" -> Dict(<<Pair(e, A)>>) [] place = "value" -> Dict(<<Pair(A, e)>>)
      [] place = "unpack" -> Dict(<<Rest(e)>>)
      [] place = "element" -> Comp("ListComp", 0, "x", A, <<>>, <<e>>)
      [] place = "iterable" -> Comp("SetComp", 0, "x", e, <<>>, <<B>>)
      [] place = "filter" -> Comp("ListComp", 0, "x", A, <<e>>, <<B>>)
      [] place = "text" -> Shown(e)

ExprOf(p) ==
    LET e == Put(p.place, Inners[p.inner])
    IN  IF p.around = "" THEN e ELSE Put(p.around, e)

(* A conditional expression in a clause of a comprehension is rejected,    *)
(* and so is an f-string in another one.                                   *)
Taken(p) ==
    LET parts == {p.around, p.place, p.inner}
        clause == {"iterable", "filter"}
        if == {"if 1", "if 2", "if 3", "conditional"}
    IN  /\ ~(p.around \in clause /\ {p.place, p.inner} \cap if # {})
        /\ ~(p.place \in clause /\ p.inner \in if)
        /\ ~(p.around = "text" /\ {p.place, p.inner} \cap {"text"} # {})
        /\ ~(p.place = "text" /\ p.inner = "text")

ExprPrograms ==
    {p \in [around : {""}, place : Places, inner : DOMAIN Inners]
           \cup [around : Outers, place : {"or 2", "not", "less 1", "minus 2", "power 1", "if 3", "lambda", "text"},
                 inner : {"and", "chain", "minus", "negative", "lambda", "text"}]
           \cup [around : Places \ Outers, place : {"pair 1", "if 2", "less 2", "text", "filter"},
                 inner : {"or", "conditional", "one", "dict"}] : Taken(p)}

-----------------------------------------------------------------------------
(* Statements.                                                             *)
Pass == [k |-> "Pass"]
Suites == [
    pass |-> <<Pass>>,
    return |-> <<Let("x", A), [k |-> "Return", v |-> <<>>]>>,
    two |-> <<Store(Both(Item(A, B), Attr(A, "b")), Both(Call("a", <<A, B>>), C)),
              [k |-> "Assert", t |-> A, msg |-> <<B>>]>>,
    nested |-> <<If(A, <<[k |-> "Break"]>>, <<>>), Aug("x", "FloorDiv", Both(A, B)),
                 [k |-> "Continue"]>>]

Compounds(s, t) == [
    if |-> If(Cmp(A, <<"Eq">>, <<B>>), s, <<>>),
    else |-> If(A, s, t),
    elif |-> If(A, s, <<If(Call("b", <<C, C>>), t, s)>>),
    while |-> While(Un("Not", A), s, t),
    for |-> For("x", Both(A, B), s, <<>>),
    for2 |-> [For("x", A, s, t) EXCEPT !.target = Both(X, Star(Target("y")))],
    except |-> Try(s, <<Except(<<A>>, "x", t), Except(<<Both(A, B)>>, "", s), Except(<<>>, "", s)>>, t, s),
    finally |-> Try(s, <<>>, <<>>, t),
    def |-> [Function(0, "f", <<"p">>, s) EXCEPT !.kwonly = <<"q">>, !.defaults = << <<"none">> >>],
    decorated |-> [Function(0, "f", <<>>, t) EXCEPT !.decs = <<A, Call("b", <<C, A>>)>>]]

Simples == [
    chain |-> [k |-> "Assign", targets |-> <<X, Both(Target("y"), Star(Target("z")))>>, v |-> Both(A, B)],
    lists |-> Store(List(<<X, Elements("Tuple", <<Target("y")>>)>>), Lambda(<<>>, A)),
    del |-> Del(<<[X EXCEPT !.ctx = "Del"], Item(A, B), Attr(A, "b")>>),
    defaults |-> Let("x", [Lambda(<<"p", "q">>, A) EXCEPT
        !.vararg = <<"r">>, !.kwonly = <<"s", "t">>, !.kwarg = <<"u">>,
        !.defaults = << <<"int", 0 - 1>> >>, !.kwdefaults = << <<"s", <<"str", "z">>>> >>]),
    global |-> [k |-> "Global", names |-> <<"a", "b">>],
    raise |-> RaiseOf("a"), reraise |-> [k |-> "Raise", v |-> <<>>],
    assert |-> [k |-> "Assert", t |-> IfExp(A, B, C), msg |-> <<>>],
    expr |-> Do(Both(A, Star(B))), lambda |-> Do(Lambda(<<>>, A)),
    shift |-> Aug("x", "RShift", A), power |-> Aug("x", "Pow", A)]

StmtPrograms ==
    [compound : DOMAIN Compounds(<<>>, <<>>), first : DOMAIN Suites, second : {"pass", "nested"},
     layout : DOMAIN Python!Layouts, within : {"module"}]
    \cup [compound : DOMAIN Compounds(<<>>, <<>>), first : {"return", "nested"}, second : {"return"},
          layout : DOMAIN Python!Layouts, within : {"def"}]
    \cup [simple : DOMAIN Simples, layout : DOMAIN Python!Layouts]
StmtOf(p) ==
    IF "simple" \in DOMAIN p
    THEN Module(<<Pass, Simples[p.simple], Simples[p.simple], Pass>>)
    ELSE LET s == Compounds(Suites[p.first], Suites[p.second])[p.compound]
         IN  Module(IF p.within = "module" THEN <<s, Ask("c")>>
                    ELSE <<Ask("c"), Function(0, "f", <<>>, <<While(A, <<Ask("b"), s>>, <<>>), s>>)>>)

-----------------------------------------------------------------------------
(* Texts and their trees.                                                  *)
Is(text, e) == [spelled |-> text, tree |-> Module(<<Do(e)>>)]
Real(s) == [k |-> "Constant", v |-> <<"float", s>>]
FString2(pieces) == [k |-> "JoinedStr", vs |-> pieces]
Value(e) == [k |-> "FormattedValue", v |-> e, conv |-> ""]
Spellings == {
    Is("0x_fF + 0o1_7 + 0B101", Bin(Bin(Num(255), "Add", Num(15)), "Add", Num(5))),
    Is("1_000", Num(1000)), Is("-1.5e-3", Un("USub", Real("1.5e-3"))), Is(".5", Real(".5")),
    Is("2.J", [k |-> "Constant", v |-> <<"imag", "2.">>]),
    Is("'a\\n\\x41\\\n\\'' \"b'\" u'c'", Str("a\nA'b'c")),
    Is("r'\\d' '\\\\'", Str("\\d\\")), Is("'''a\n'b''c'''", Str("a\n'b''c")), Is("''", Str("")),
    Is("rf'\\n{a}'", FString2(<<Str("\\n"), Value(A)>>)),
    Is("f'''\n{a}'\\t'''", FString2(<<Str("\n"), Value(A), Str("'\t")>>)),
    Is("f'{{{ {a: b}[c] }'", FString2(<<Str("{"), Value(Item(Dict(<<Pair(A, B)>>), C))>>)),
    Is("f'{a}}}'", FString2(<<Value(A), Str("}")>>)), Is("f''", FString2(<<>>)),
    Is("f'{a . b}' . c", Attr(FString2(<<Value(Attr(A, "b"))>>), "c")),
    Is("(a\n# )\n)\n\n  # c\n", A),
    Is("a(b, c,)[a].b(*c,)", CallKw(Attr(Item(Call("a", <<B, C>>), A), "b"), <<Star(C)>>, <<>>)),
    Is("[a,], {b,}, {a: b,}, (c,),", Elements("Tuple", <<List(<<A>>), Elements("Set", <<B>>),
        Dict(<<Pair(A, B)>>), Elements("Tuple", <<C>>)>>)),
    Is("not a in b", Un("Not", Cmp(A, <<"In">>, <<B>>)))}

(* What is no program.                                                     *)
Broken == {"a +", "\n\n\ta\n", "a b", "(a", "a)", "[a)", "(a]", "{a", "f(a", "a[", "a[]", "a.", "a.1", "(a b)", "a = ",
    "= a", "1 = a", "a() = b", "a + b = c", "a += b += c", "a, b += ", "f(a=1, b)", "f(a=1, a=2)",
    "f(**a, b)", "{a: b, c}", "{a, b: c}", "{a:}", "{**a, b}", "[a for]", "[a for b]", "[a for 1 in b]",
    "[a, b for x in c]", "'a", "\"a\n\"", "'''a", "'a\\", "'\\xg1'", "b'a'", "rr'a'", "f'{a'", "f'{a}",
    "f'}'", "f'a\nb'", "f'{}'", "f'{a!q}'", "f'{a b}'", "tf'a'", "f'{f''}'", "a ? b", "a \\ b", "a\\",
    "if a", "if a:", "if a:\nb", "if a:\n b\n  c", "if a:\n  b\n c", "  a", "a\n  b", "else: a", "elif a: b",
    "if a: b\nelse", "try: a", "try: a\nelse: b", "except: a", "for a b: c", "for 1 in a: b", "for *a in b: c",
    "while: a", "def f: a", "def f(a: pass", "def f(a, a b): c", "def f(a=1, b): c", "def f(*a, *b): c",
    "def 1(): a", "def if(): a", "def f(a=b): c", "@a\nb", "return return", "global 1", "global a,",
    "del a()", "del *a", "import a", "class a: b", "a if b", "a else b", "not", "lambda", "a is not",
    "a not b", "pass a", "break b", "assert", "raise a from b", "1_", "1__0", "0x", "0b2", "1e+", "1a", "012",
    "a <> b", "a := b", "yield a", "None = a", "f(a for b in c", "x = (", ")"}

-----------------------------------------------------------------------------
(* Strings of number characters, and what Python says of them.             *)
NumberChars == {"0", "1", "_", ".", "e", "x", "j", "-"}
NumberTexts ==
    LET longer(S) == {s \o c : s \in S, c \in NumberChars}
        three == longer(longer(NumberChars))
    IN  NumberChars \cup longer(NumberChars) \cup three \cup longer(three)

Char(s, j) == IF j \in 1..Len(s) THEN SubSeq(s, j, j) ELSE ""
From(s, j) == SubSeq(s, j, Len(s))
DigitPart(s, digits) ==
    /\ s # "" /\ Chars(s) \subseteq digits \cup {"_"}
    /\ \A j \in 1..Len(s) : Char(s, j) = "_" =>
          j > 1 /\ j < Len(s) /\ Char(s, j + 1) # "_"
IsInteger(s) ==
    \/ DigitPart(s, Digits) /\ (Char(s, 1) = "0" => Chars(s) \subseteq {"0", "_"})
    \/ /\ Len(s) > 2 /\ SubSeq(s, 1, 2) = "0x"
       /\ \/ DigitPart(From(s, 3), Hex)
          \/ Char(s, 3) = "_" /\ DigitPart(From(s, 4), Hex)
IsPointFloat(s) ==
    \E j \in 1..Len(s) :
        /\ Char(s, j) = "." /\ s # "."
        /\ j = 1 \/ DigitPart(SubSeq(s, 1, j - 1), Digits)
        /\ j = Len(s) \/ DigitPart(From(s, j + 1), Digits)
IsFloat(s) ==
    \/ IsPointFloat(s)
    \/ \E j \in 2..Len(s) :
          LET power == IF Char(s, j + 1) = "-" THEN j + 2 ELSE j + 1
          IN  /\ Char(s, j) = "e" /\ DigitPart(From(s, power), Digits)
              /\ IsPointFloat(SubSeq(s, 1, j - 1)) \/ DigitPart(SubSeq(s, 1, j - 1), Digits)
IsNumber(s) ==
    \/ IsInteger(s) \/ IsFloat(s)
    \/ LET body == SubSeq(s, 1, Len(s) - 1)
       IN  From(s, Len(s)) = "j" /\ (IsFloat(body) \/ DigitPart(body, Digits))
IntegerOf(s) ==
    LET base == IF Char(s, 2) = "x" THEN 16 ELSE 10
        value[j \in 0..Len(s)] ==
            IF j = 0 THEN 0
            ELSE CASE Char(s, j) = "1" -> value[j - 1] * base + 1
                   [] Char(s, j) = "0" -> value[j - 1] * base
                   [] Char(s, j) = "e" -> value[j - 1] * base + 14
                   [] OTHER -> value[j - 1]
    IN  value[Len(s)]

(* Where the compiler is known to part from Python: a zero in front of     *)
(* more digits, and underscores behind a point or twice behind 0x.         *)
PartsOnNumber(s) ==
    \/ Char(s, 1) = "0" /\ Char(s, 2) \in {"0", "1", "_"}
    \/ Char(s, 1) = "." /\ "_" \in Chars(s)
    \/ s = "0x__"

-----------------------------------------------------------------------------
AllTrees == ExprPrograms \cup StmtPrograms
MCPrograms == AllTrees \cup Spellings \cup {[broken |-> s] : s \in Broken}
                       \cup {[number |-> s] : s \in NumberTexts}

TreeOf(p) ==
    IF "inner" \in DOMAIN p THEN Module(<<Let("x", ExprOf(p))>>)
    ELSE IF "spelled" \in DOMAIN p THEN p.tree ELSE StmtOf(p)

MCSourceText ==
    LET text == [p \in MCPrograms |->
                    CASE "inner" \in DOMAIN p ->
                            Python!Source(TreeOf(p), Python!Layouts[
                                IF p.inner \in {"call", "list", "dict", "empty"} THEN "airy" ELSE "plain"])
                      [] "spelled" \in DOMAIN p -> p.spelled
                      [] "broken" \in DOMAIN p -> p.broken
                      [] "number" \in DOMAIN p -> p.number
                      [] OTHER -> Python!Source(TreeOf(p), Python!Layouts[p.layout])]
    IN  text
MCParsed ==
    LET parsed == [ts \in Seq([kind : STRING, text : STRING]) |->
                      LET p == Parser!Parse(ts)
                      IN  IF p.bad THEN <<"SyntaxError">> ELSE <<"tree", p.node>>]
    IN  parsed

Result == IF bad THEN <<"SyntaxError">> ELSE Parsed[tokens]

-----------------------------------------------------------------------------
(* Lexer and parser give back the tree that a text was written for, in     *)
(* every layout, and reject what is no program: one pair of stacks shared  *)
(* by all nested calls of _pyc_parse_expr (parser.py:607) neither mixes an *)
(* inner expression with an outer one nor a bracket with another's.        *)
RoundTrip ==
    Ended /\ "number" \notin DOMAIN program =>
        Result = (IF "broken" \in DOMAIN program THEN <<"SyntaxError">> ELSE <<"tree", TreeOf(program)>>)

(* A text of number characters is taken for one number, with its value,    *)
(* just where Python takes it for one (lexer.py:205, parser.py:224).       *)
NumbersAsPython ==
    Ended /\ "number" \in DOMAIN program =>
        LET s == program.number
            taken == /\ Result # <<"SyntaxError">>
                     /\ tokens = <<Token("NUMBER", s), Plain("NEWLINE"), Plain("ENDMARKER")>>
        IN  \/ PartsOnNumber(s)
            \/ /\ taken = IsNumber(s)
               /\ taken /\ IsInteger(s) => Result[2] = Module(<<Do(Num(IntegerOf(s)))>>)

(* The loop of _pyc_lex ends on every text, well formed or not.            *)
LexerEnds == <>Ended
=============================================================================
