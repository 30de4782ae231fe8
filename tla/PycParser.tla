----------------------------- MODULE PycParser -----------------------------
(***************************************************************************)
(* The parser of the self-hosted compiler (compiler/parser.py): a shunting *)
(* yard over the tokens of PycLexer for expressions, recursive descent for *)
(* statements.  All calls of _pyc_parse_expr share one operand and one     *)
(* operator stack.  A node is a record; positions are left out, and the id *)
(* of a scope is 0.  A float or imaginary number stands for itself by its  *)
(* digits.  State of a parse:                                              *)
(*   toks, i       the tokens and the index of the next one, from 1        *)
(*   opnds, ops    opnd, and ops with ops_obj                              *)
(*   mode          _lex_col: 0 normal, 1 interior of an f-string, 2 no     *)
(*                 tuple, 3 comprehension iterable or filter               *)
(*   want, joins   an operand is due; the last operand is a string that a  *)
(*                 string right behind it joins (str_lit)                  *)
(*   stop          the loop of _pyc_parse_expr was left                    *)
(*   node          what the last operation returned                        *)
(*   bad           an error was raised                                     *)
(***************************************************************************)
EXTENDS Integers, Sequences, SequencesExt

Keywords == {"False", "None", "True", "and", "as", "assert", "async", "await", "break", "class",
    "continue", "def", "del", "elif", "else", "except", "finally", "for", "from", "global", "if",
    "import", "in", "is", "lambda", "nonlocal", "not", "or", "pass", "raise", "return", "try",
    "while", "with", "yield"}

BinOps == [x \in {"+", "-", "*", "/", "//", "%", "**", "<<", ">>", "|", "^", "&"} |->
    CASE x = "+" -> "Add" [] x = "-" -> "Sub" [] x = "*" -> "Mult" [] x = "/" -> "Div"
      [] x = "//" -> "FloorDiv" [] x = "%" -> "Mod" [] x = "**" -> "Pow" [] x = "<<" -> "LShift"
      [] x = ">>" -> "RShift" [] x = "|" -> "BitOr" [] x = "^" -> "BitXor" [] x = "&" -> "BitAnd"]
UnOps == [x \in {"+", "-", "~"} |->
    CASE x = "+" -> "UAdd" [] x = "-" -> "USub" [] x = "~" -> "Invert"]
CmpOps == [x \in {"==", "!=", "<", ">", "<=", ">="} |->
    CASE x = "==" -> "Eq" [] x = "!=" -> "NotEq" [] x = "<" -> "Lt" [] x = ">" -> "Gt"
      [] x = "<=" -> "LtE" [] x = ">=" -> "GtE"]
Prec == [x \in DOMAIN BinOps \cup {"or", "and", "not", "cmp", "u"} |->
    CASE x = "or" -> 1 [] x = "and" -> 2 [] x = "not" -> 3 [] x = "cmp" -> 4 [] x = "|" -> 5
      [] x = "^" -> 6 [] x = "&" -> 7 [] x \in {"<<", ">>"} -> 8 [] x \in {"+", "-"} -> 9
      [] x \in {"*", "/", "//", "%"} -> 10 [] x = "u" -> 11 [] x = "**" -> 12]

-----------------------------------------------------------------------------
(* Tokens.                                                                 *)
Fail(p) == [p EXCEPT !.bad = TRUE]
Kind(p) == IF p.i > Len(p.toks) THEN "ENDMARKER" ELSE p.toks[p.i].kind
Txt(p) == IF p.i > Len(p.toks) THEN "" ELSE p.toks[p.i].text
Advance(p) == [p EXCEPT !.i = IF @ > Len(p.toks) THEN @ ELSE @ + 1]
IsOp(p, x) == Kind(p) = "OP" /\ Txt(p) = x
IsName(p, x) == Kind(p) = "NAME" /\ Txt(p) = x
ExpectOp(p, x) == IF IsOp(p, x) THEN Advance(p) ELSE Fail(p)
ExpectName(p, x) == IF IsName(p, x) THEN Advance(p) ELSE Fail(p)
IsIdentifier(p) == Kind(p) = "NAME" /\ Txt(p) \notin Keywords

RECURSIVE SkipNewlines(_)
SkipNewlines(p) == IF Kind(p) = "NEWLINE" THEN SkipNewlines(Advance(p)) ELSE p

-----------------------------------------------------------------------------
(* Literals.                                                               *)
Ch(s, j) == IF j \in 1..Len(s) THEN SubSeq(s, j, j) ELSE ""
From(s, j) == SubSeq(s, j, Len(s))
IndexIn(s, c) == CHOOSE j \in 0..Len(s) : IF \E k \in 1..Len(s) : Ch(s, k) = c
                                          THEN j > 0 /\ Ch(s, j) = c ELSE j = 0
Digit(c, base) ==
    LET d == IndexIn("0123456789abcdef", c) - 1
        e == IndexIn("0123456789ABCDEF", c) - 1
        v == IF d >= 0 THEN d ELSE e
    IN  IF c # "" /\ v < base THEN v ELSE 0 - 1
Accepts(v) == [ok |-> TRUE, v |-> v]
Rejects == [ok |-> FALSE, v |-> <<"none">>]

(* _pyc_parse_int_base.                                                    *)
IntegerOf(s, base) ==
    LET value[j \in 0..Len(s)] ==
            IF j = 0 THEN 0
            ELSE IF Ch(s, j) = "_" THEN value[j - 1] ELSE value[j - 1] * base + Digit(Ch(s, j), base)
    IN  IF \A j \in 1..Len(s) : Ch(s, j) # "_" => Digit(Ch(s, j), base) >= 0
        THEN IF \E j \in 1..Len(s) : Ch(s, j) # "_" THEN Accepts(<<"int", value[Len(s)]>>) ELSE Rejects
        ELSE Rejects

(* float(text): an underscore only between digits.                         *)
FloatOf(s) ==
    IF \A j \in 1..Len(s) :
          Ch(s, j) = "_" => Digit(Ch(s, j - 1), 10) >= 0 /\ Digit(Ch(s, j + 1), 10) >= 0
    THEN Accepts(<<"float", s>>) ELSE Rejects

RealOf(s) ==
    LET mark == Ch(s, 2)
        floats == \E j \in 1..Len(s) : Ch(s, j) \in {".", "e", "E"}
        imaginary == \E j \in 1..Len(s) : Ch(s, j) \in {"j", "J"}
    IN  IF imaginary \/ s = "" THEN Rejects
        ELSE CASE Ch(s, 1) = "0" /\ mark \in {"x", "X"} -> IntegerOf(From(s, 3), 16)
               [] Ch(s, 1) = "0" /\ mark \in {"o", "O"} -> IntegerOf(From(s, 3), 8)
               [] Ch(s, 1) = "0" /\ mark \in {"b", "B"} -> IntegerOf(From(s, 3), 2)
               [] Ch(s, 1) = "0" /\ Digit(mark, 10) >= 0 -> Rejects
               [] OTHER -> IF floats THEN FloatOf(s) ELSE IntegerOf(s, 10)

ParseNumber(s) ==
    LET body == SubSeq(s, 1, Len(s) - 1)
        prefixed == Ch(s, 1) = "0" /\ Ch(body, 2) \in {"x", "X", "o", "O", "b", "B"}
        real == RealOf(body)
    IN  IF Ch(s, Len(s)) \notin {"j", "J"} THEN RealOf(s)
        ELSE IF prefixed \/ ~real.ok THEN Rejects ELSE Accepts(<<"imag", body>>)

(* _pyc_decode_escapes.  A character that a string cannot hold here (the   *)
(* bell, the backquote, ...) is written by its code.                       *)
ASCII == " !\"#$%&'()*+,-./0123456789:;<=>?@ABCDEFGHIJKLMNOPQRSTUVWXYZ[\\]^_"
    \o "?abcdefghijklmnopqrstuvwxyz{|}~"
CharOf(code) ==
    CASE code = 9 -> "\t" [] code = 10 -> "\n" [] code = 12 -> "\f" [] code = 13 -> "\r"
      [] code \in (32..126) \ {96} -> Ch(ASCII, code - 31)
      [] OTHER -> "<" \o ToString(code) \o ">"
Escapes == [c \in {"n", "t", "r", "\\", "'", "\"", "a", "b", "f", "v", "\n"} |->
    CASE c = "n" -> "\n" [] c = "t" -> "\t" [] c = "r" -> "\r" [] c = "f" -> "\f"
      [] c = "a" -> CharOf(7) [] c = "b" -> CharOf(8) [] c = "v" -> CharOf(11)
      [] c = "\n" -> "" [] OTHER -> c]

RECURSIVE DecodeEscapes(_, _)
DecodeEscapes(s, j) ==
    LET c == Ch(s, j)
        d == Ch(s, j + 1)
        hi == Digit(Ch(s, j + 2), 16)
        lo == Digit(Ch(s, j + 3), 16)
        then(text, k) ==
            LET rest == DecodeEscapes(s, k)
            IN  IF rest.ok THEN Accepts(text \o rest.v) ELSE Rejects
    IN  IF j > Len(s) THEN Accepts("")
        ELSE IF c # "\\" THEN then(c, j + 1)
        ELSE CASE d \in DOMAIN Escapes -> then(Escapes[d], j + 2)
               [] d = "x" /\ hi >= 0 /\ lo >= 0 -> then(CharOf(16 * hi + lo), j + 4)
               [] OTHER -> Rejects

(* _pyc_parse_string.                                                      *)
ParseString(s) ==
    LET open == CHOOSE j \in 1..Len(s) : /\ Ch(s, j) \in {"'", "\""}
                                         /\ \A k \in 1..(j - 1) : Ch(s, k) \notin {"'", "\""}
        prefix == {Ch(s, k) : k \in 1..(open - 1)}
        q == IF Ch(s, open + 1) = Ch(s, open) /\ Ch(s, open + 2) = Ch(s, open) THEN 3 ELSE 1
        body == SubSeq(s, open + q, Len(s) - q)
    IN  IF prefix \cap {"b", "B"} # {} \/ Len(s) - q < open + q - 1 THEN Rejects
        ELSE IF prefix \cap {"r", "R"} # {} THEN Accepts(body) ELSE DecodeEscapes(body, 1)

(* The text of an f-string: an unknown escape stands for itself.           *)
RECURSIVE DecodeText(_, _)
DecodeText(s, j) ==
    LET d == Ch(s, j + 1)
    IN  IF j > Len(s) THEN ""
        ELSE IF Ch(s, j) # "\\" \/ d = "" THEN Ch(s, j) \o DecodeText(s, j + 1)
        ELSE (IF d \in {"n", "t", "r", "\\", "'", "\""} THEN Escapes[d] ELSE "\\" \o d)
             \o DecodeText(s, j + 2)

-----------------------------------------------------------------------------
(* Nodes.                                                                  *)
NameNode(x, ctx) == [k |-> "Name", name |-> x, ctx |-> ctx]
Constant(v) == [k |-> "Constant", v |-> v]
Sequence(kind, es) == [k |-> kind, es |-> es]
Starred(v) == [k |-> "Starred", stars |-> 1, v |-> v]
UnpackMark == [k |-> "Starred", stars |-> 2, v |-> <<>>]
Missing == [k |-> "Missing"]

(* _pyc_set_store.                                                         *)
RECURSIVE Settable(_, _), SetStore(_, _)
Settable(n, ctx) ==
    \/ n.k \in {"Name", "Attribute", "Subscript"}
    \/ n.k \in {"Tuple", "List"} /\ \A j \in DOMAIN n.es : Settable(n.es[j], ctx)
    \/ n.k = "Starred" /\ n.stars = 1 /\ ctx = "Store" /\ Settable(n.v, ctx)
SetStore(n, ctx) ==
    CASE n.k = "Name" -> [n EXCEPT !.ctx = ctx]
      [] n.k \in {"Tuple", "List"} -> [n EXCEPT !.es = [j \in DOMAIN @ |-> SetStore(@[j], ctx)]]
      [] n.k = "Starred" -> [n EXCEPT !.v = SetStore(@, ctx)]
      [] OTHER -> n
Check(p, ok) == IF ok THEN p ELSE Fail(p)

-----------------------------------------------------------------------------
(* The two stacks.  Pending(tag) is what waits for operands; its fields    *)
(* are those of the packed ops entry that the tag uses.                    *)
Pending(tag) == [tag |-> tag, op |-> "", n |-> 0, names |-> <<>>, at |-> 0, node |-> <<>>]
Brackets == {"paren", "call", "subscript", "list", "tuple", "brace"}

Push(p, node) == [p EXCEPT !.opnds = Append(@, node)]
Open(p, o) == [p EXCEPT !.ops = Append(@, o)]
Top(p) == IF p.ops = <<>> THEN Pending("none") ELSE Last(p.ops)
SetTop(p, o) == IF p.ops = <<>> THEN Fail(p) ELSE [p EXCEPT !.ops = Append(Front(@), o)]
PopTop(p) == IF p.ops = <<>> THEN Fail(p) ELSE [p EXCEPT !.ops = Front(@)]

(* The last n operands, and p with one node in their place.                *)
Kids(p, n) ==
    LET m == Len(p.opnds) - n IN [j \in 1..n |-> IF m + j >= 1 THEN p.opnds[m + j] ELSE Missing]
Replace(p, n, node) ==
    IF n > Len(p.opnds) THEN Fail(p)
    ELSE [p EXCEPT !.opnds = Append(SubSeq(@, 1, Len(@) - n), node)]
Pop(p) == IF p.opnds = <<>> THEN Fail(p) ELSE [p EXCEPT !.opnds = Front(@)]
TopKid(p) == Kids(p, 1)[1]

Due(p) == [p EXCEPT !.want = TRUE]
Got(p) == [p EXCEPT !.want = FALSE]
Stop(p) == [p EXCEPT !.stop = TRUE]

ReduceOne(p) ==
    LET o == Top(p)
        q == PopTop(p)
        n == CASE o.tag = "bin" -> 2 [] o.tag = "cmp" -> Len(o.names) + 1
               [] o.tag = "bool" -> o.n + 1 [] o.tag = "if" -> 3 [] OTHER -> 1
        kids == Kids(q, n)
        node == CASE o.tag = "bin" -> [k |-> "BinOp", l |-> kids[1], op |-> o.op, r |-> kids[2]]
                  [] o.tag = "un" -> [k |-> "UnaryOp", op |-> o.op, v |-> kids[1]]
                  [] o.tag = "cmp" -> [k |-> "Compare", l |-> kids[1], ops |-> o.names,
                                       rs |-> Tail(kids)]
                  [] o.tag = "bool" -> [k |-> "BoolOp", op |-> o.op, vs |-> kids]
                  [] o.tag = "if" -> [k |-> "IfExp", t |-> kids[2], a |-> kids[1], b |-> kids[3]]
                  [] OTHER -> Starred(kids[1])
    IN  IF o.tag \in Brackets \cup {"none"} \/ (o.tag = "if" /\ o.n # 1) THEN Fail(p)
        ELSE Replace(q, n, node)

(* _pyc_reduce_while; it looks below the operators of its own expression.  *)
TopPrec(p) ==
    LET o == Top(p)
    IN  CASE o.tag \in {"bin", "un"} -> o.n
          [] o.tag = "cmp" -> Prec["cmp"]
          [] o.tag = "bool" -> IF o.op = "And" THEN Prec["and"] ELSE Prec["or"]
          [] OTHER -> 0 - 1
RECURSIVE ReduceWhile(_, _, _)
ReduceWhile(p, prec, left) ==
    LET top == TopPrec(p)
    IN  IF p.bad \/ top < 0 \/ top < prec \/ (top = prec /\ ~left) THEN p
        ELSE ReduceWhile(ReduceOne(p), prec, left)

(* Reduce down to one of the tags, not below sp.                           *)
RECURSIVE ReduceTo(_, _, _)
ReduceTo(p, sp, tags) ==
    IF p.bad \/ Len(p.ops) <= sp \/ Top(p).tag \in tags THEN p
    ELSE ReduceTo(ReduceOne(p), sp, tags)

-----------------------------------------------------------------------------
(* Closing brackets.                                                       *)
Closed(p, kind, n) == Got(Advance(Replace(PopTop(p), n, Sequence(kind, Kids(p, n)))))
Given(p) == Top(p).n + (IF p.want THEN 0 ELSE 1)

(* _pyc_close_call.                                                        *)
CloseCall(p) ==
    LET o == Top(p)
        n == Given(p)
        nkw == Len(o.names)
        kids == Kids(p, n)
        call == [k |-> "Call", f |-> o.node, args |-> SubSeq(kids, 1, n - nkw),
                 kws |-> [j \in 1..nkw |-> [name |-> o.names[j], v |-> kids[n - nkw + j]]]]
    IN  IF o.tag # "call" \/ (nkw > 0 /\ o.at + nkw # n) THEN Fail(p)
        ELSE Got(Advance(Replace(PopTop(p), n, call)))

CloseParen(p0, sp) ==
    LET p == ReduceTo(p0, sp, Brackets)
        tag == Top(p).tag
    IN  IF Len(p.ops) <= sp THEN Stop(p)
        ELSE CASE tag = "paren" -> IF p.want THEN Closed(p, "Tuple", 0) ELSE Got(Advance(PopTop(p)))
               [] tag = "tuple" -> Closed(p, "Tuple", Given(p))
               [] tag = "call" -> CloseCall(p)
               [] OTHER -> Fail(p)

CloseSubscript(p) ==
    LET o == Top(p)
        index == IF o.op = "slice"
                 THEN [k |-> "Slice", lo |-> o.node, hi |-> IF p.want THEN <<>> ELSE Kids(p, 1)]
                 ELSE TopKid(p)
        n == IF p.want THEN 1 ELSE 2
        node == [k |-> "Subscript", v |-> Kids(p, n)[1], i |-> index]
    IN  IF p.want /\ o.op # "slice" THEN Fail(p)
        ELSE Got(Advance(Replace(PopTop(p), n, node)))

CloseSquare(p0, sp) ==
    LET p == ReduceTo(p0, sp, Brackets)
        tag == Top(p).tag
    IN  IF Len(p.ops) <= sp THEN Stop(p)
        ELSE CASE tag = "list" -> Closed(p, "List", Given(p))
               [] tag = "subscript" -> CloseSubscript(p)
               [] OTHER -> Fail(p)

(* A display in braces: what it is follows from what came last in it.      *)
Entries(kids) ==
    [j \in 1..(Len(kids) \div 2) |->
        IF kids[2 * j - 1] = UnpackMark THEN [unpack |-> TRUE, v |-> kids[2 * j]]
        ELSE [unpack |-> FALSE, key |-> kids[2 * j - 1], v |-> kids[2 * j]]]
CloseDict(p, pairs) ==
    Got(Advance(Replace(PopTop(p), 2 * pairs, Sequence("Dict", Entries(Kids(p, 2 * pairs))))))
CloseBrace(p0, sp) ==
    LET p == ReduceTo(p0, sp, Brackets)
        o == Top(p)
    IN  IF Len(p.ops) <= sp THEN Stop(p)
        ELSE IF o.tag # "brace" THEN Fail(p)
        ELSE CASE o.op = "" /\ Given(p) = 0 -> CloseDict(p, 0)
               [] o.op = "value" -> IF p.want THEN Fail(p) ELSE CloseDict(p, o.n + 1)
               [] o.op = "pairs" -> IF p.want THEN CloseDict(p, o.n) ELSE Fail(p)
               [] OTHER -> Closed(p, "Set", Given(p))

-----------------------------------------------------------------------------
(* Separators.  They look at the top of the stack even when it belongs to  *)
(* an expression further out.                                              *)
NextOperand(p, o) == Due(Advance(SetTop(p, o)))

CallComma(p) ==
    LET q == NextOperand(p, [Top(p) EXCEPT !.n = @ + 1])
    IN  IF IsOp(q, ")") THEN CloseCall(q) ELSE q

Comma(p0, sp) ==
    LET p == ReduceTo(p0, sp, Brackets)
        o == Top(p)
    IN  IF p.want THEN Fail(p)
        ELSE CASE o.tag = "call" -> CallComma(p)
               [] o.tag = "paren" -> NextOperand(p, [o EXCEPT !.tag = "tuple", !.n = 1])
               [] o.tag \in {"list", "tuple"} -> NextOperand(p, [o EXCEPT !.n = @ + 1])
               [] o.tag = "brace" ->
                     NextOperand(p, [o EXCEPT !.n = @ + 1,
                                              !.op = CASE @ = "value" -> "pairs" [] @ = "" -> "set" [] OTHER -> @])
               [] OTHER -> IF p.mode \in {2, 3} THEN Stop(p)
                           ELSE Due(Advance(Open(p, [Pending("tuple") EXCEPT !.n = 1])))

Colon(p0, sp) ==
    LET p == ReduceTo(p0, sp, Brackets)
        o == Top(p)
    IN  CASE o.tag = "subscript" ->
                IF o.op = "slice" THEN Fail(p)
                ELSE NextOperand(IF p.want THEN p ELSE Pop(p),
                                 [o EXCEPT !.op = "slice",
                                           !.node = IF p.want THEN <<>> ELSE Kids(p, 1)])
          [] o.tag = "brace" ->
                IF p.want \/ o.op = "set" THEN Fail(p) ELSE NextOperand(p, [o EXCEPT !.op = "value"])
          [] OTHER -> Stop(p)

(* A keyword argument: the names come one after the other, and last.       *)
AddKeyword(p, name) ==
    LET o == Top(p)
    IN  IF o.names # <<>> /\ o.at + Len(o.names) # o.n THEN Fail(p)
        ELSE NextOperand(p, [o EXCEPT !.names = Append(@, name),
                                      !.at = IF o.names = <<>> THEN o.n ELSE @])
Equals(p) ==
    LET x == TopKid(p)
    IN  IF Top(p).tag # "call" THEN Stop(p)
        ELSE IF p.want \/ x.k # "Name" THEN Fail(p)
        ELSE IF x.ctx # "Load" \/ \E j \in DOMAIN Top(p).names : Top(p).names[j] = x.name THEN Fail(p)
        ELSE AddKeyword(Pop(p), x.name)

-----------------------------------------------------------------------------
(* Operators between operands.                                             *)
Boolean(p0, op, word) ==
    LET p == ReduceWhile(p0, Prec[word], FALSE)
        o == Top(p)
    IN  IF o.tag = "bool" /\ o.op = op THEN NextOperand(p, [o EXCEPT !.n = @ + 1])
        ELSE Due(Advance(Open(p, [Pending("bool") EXCEPT !.op = op, !.n = 1])))

IsComparison(p) ==
    \/ Kind(p) = "OP" /\ Txt(p) \in DOMAIN CmpOps
    \/ Kind(p) = "NAME" /\ Txt(p) \in {"is", "in", "not"}
Comparison(p0) ==
    LET p == ReduceWhile(p0, Prec["cmp"], FALSE)
        q == Advance(p)
        op == CASE Kind(p) = "OP" -> CmpOps[Txt(p)]
                [] Txt(p) = "is" -> IF IsName(q, "not") THEN "IsNot" ELSE "Is"
                [] Txt(p) = "not" -> "NotIn"
                [] OTHER -> "In"
        r == IF op \in {"IsNot", "NotIn"} THEN Advance(q) ELSE q
        o == Top(p)
    IN  IF Txt(p) = "not" /\ ~IsName(q, "in") THEN Fail(p)
        ELSE IF o.tag = "cmp" THEN Due(SetTop(r, [o EXCEPT !.names = Append(@, op)]))
        ELSE Due(Open(r, [Pending("cmp") EXCEPT !.names = <<op>>]))

(* Mutant: no operator associates to the right.                            *)
BinaryLeft(p, x) ==
    Due(Advance(Open(ReduceWhile(p, Prec[x], TRUE),
                     [Pending("bin") EXCEPT !.op = BinOps[x], !.n = Prec[x]])))
Binary(p, x) ==
    Due(Advance(Open(ReduceWhile(p, Prec[x], x # "**"),
                     [Pending("bin") EXCEPT !.op = BinOps[x], !.n = Prec[x]])))

IfWord(p, sp) ==
    IF p.mode = 3 THEN Stop(p)
    ELSE Due(Advance(Open(ReduceTo(p, sp, Brackets \cup {"if"}), Pending("if"))))
ElseWord(p0, sp) ==
    LET p == ReduceTo(p0, sp, Brackets \cup {"if"})
    IN  IF Top(p).tag # "if" THEN Stop(p)
        ELSE IF Top(p).n = 1 THEN Fail(p) ELSE NextOperand(p, [Top(p) EXCEPT !.n = 1])

-----------------------------------------------------------------------------
(* _pyc_parse_expr and what calls it.                                      *)
RECURSIVE Expr(_), Params(_, _)

(* The clauses of a comprehension; the brackets are already open.          *)
ForWord(p0, sp) ==
    LET p == ReduceTo(p0, sp, Brackets)
        o == Top(p)
        pairs == o.op = "value"
        elements == Kids(p, IF pairs THEN 2 ELSE 1)
        t == Advance(IF pairs THEN Pop(Pop(p)) ELSE Pop(p))
        iter == Expr([ExpectName(Advance(t), "in") EXCEPT !.mode = 3])
        cond == IF IsName(iter, "if") THEN Expr(Advance(iter)) ELSE iter
        q == [cond EXCEPT !.mode = p.mode]
        kind == CASE o.tag = "list" -> "ListComp" [] pairs -> "DictComp" [] OTHER -> "SetComp"
        node == [k |-> kind, id |-> 0, target |-> NameNode(Txt(t), "Store"), iter |-> iter.node,
                 cond |-> IF IsName(iter, "if") THEN <<cond.node>> ELSE <<>>, elts |-> elements]
        closer == IF o.tag = "list" THEN "]" ELSE "}"
        possible == o.tag \in {"list", "brace"} /\ ~p.want /\ o.n = 0 /\ o.op # "pairs"
    IN  IF Len(p.ops) <= sp THEN Stop(p)
        ELSE IF ~possible \/ ~IsIdentifier(t) THEN Fail(p)
        ELSE IF iter.bad \/ cond.bad \/ IsName(q, "for") \/ IsName(q, "if") THEN Fail(q)
        ELSE Got(ExpectOp(Push(PopTop(q), node), closer))

Lambda(p) ==
    LET q == Params(Advance(p), ":")
        body == Expr(ExpectOp(q, ":"))
        node == [k |-> "Lambda", id |-> 0, name |-> "<lambda>", decs |-> <<>>,
                 body |-> <<body.node>>] @@ q.node
    IN  IF q.bad \/ body.bad THEN Fail(p) ELSE Got(Push(body, node))

(* The parts of an f-string up to its end.                                 *)
RECURSIVE Parts(_, _, _)
Parts(p, raw, vs) ==
    LET v == Expr([Advance(p) EXCEPT !.mode = 1])
        w == [v EXCEPT !.mode = p.mode]
        named == IsOp(w, "!")
        c == Advance(w)
        conv == IF named THEN Txt(c) ELSE ""
        e == ExpectOp(IF named THEN Advance(c) ELSE w, "}")
        ok == named => Kind(c) = "NAME" /\ Txt(c) \in {"s", "r", "a"}
    IN  CASE Kind(p) = "FEND" -> [Advance(p) EXCEPT !.node = vs]
          [] Kind(p) = "FMIDDLE" ->
                Parts(Advance(p), raw, Append(vs,
                    Constant(<<"str", IF raw THEN Txt(p) ELSE DecodeText(Txt(p), 1)>>)))
          [] IsOp(p, "{") ->
                IF v.bad \/ ~ok \/ e.bad THEN Fail(p)
                ELSE Parts(e, raw, Append(vs,
                        [k |-> "FormattedValue", v |-> v.node, conv |-> conv]))
          [] OTHER -> Fail(p)

JoinedStr(p) ==
    LET raw == \E j \in 1..Len(Txt(p)) : Ch(Txt(p), j) \in {"r", "R"}
        q == Parts(Advance(p), raw, <<>>)
    IN  IF q.bad THEN q ELSE Got(Push(q, [k |-> "JoinedStr", vs |-> q.node]))

Unpack(p) ==
    LET o == Top(p)
    IN  CASE o.tag = "call" -> AddKeyword(p, "**")
          [] o.tag = "brace" /\ o.op \notin {"value", "set"} ->
                NextOperand(Push(p, UnpackMark), [o EXCEPT !.op = "value"])
          [] OTHER -> Fail(p)

WordConstants == [x \in {"True", "False", "None"} |->
    IF x = "None" THEN <<"none">> ELSE <<"bool", x = "True">>]
Prefixed(p, o) == Due(Advance(Open(p, o)))

(* An operand is due: a literal, a name, or something that opens one.      *)
Operand(p) ==
    LET x == Txt(p)
        literal(v) == IF v.ok THEN Got(Advance(Push(p, Constant(v.v)))) ELSE Fail(p)
    IN  CASE Kind(p) = "NUMBER" -> literal(ParseNumber(x))
          [] Kind(p) = "STRING" ->
                LET s == ParseString(x)
                IN  [literal([s EXCEPT !.v = <<"str", @>>]) EXCEPT !.joins = TRUE]
          [] Kind(p) = "FSTART" -> JoinedStr(p)
          [] Kind(p) = "NAME" ->
                CASE x \in DOMAIN WordConstants -> literal(Accepts(WordConstants[x]))
                  [] x = "not" -> Prefixed(p, [Pending("un") EXCEPT !.op = "Not", !.n = Prec["not"]])
                  [] x = "lambda" -> Lambda(p)
                  [] OTHER -> IF x \in Keywords THEN Fail(p)
                              ELSE Got(Advance(Push(p, NameNode(x, "Load"))))
          [] IsOp(p, "*") -> Prefixed(p, Pending("star"))
          [] IsOp(p, "**") -> Unpack(p)
          [] IsOp(p, "(") -> Prefixed(p, Pending("paren"))
          [] IsOp(p, "[") -> Prefixed(p, Pending("list"))
          [] IsOp(p, "{") -> Prefixed(p, Pending("brace"))
          [] Kind(p) = "OP" /\ x \in DOMAIN UnOps ->
                Prefixed(p, [Pending("un") EXCEPT !.op = UnOps[x], !.n = Prec["u"]])
          [] OTHER -> Fail(p)

OpenCall(p) ==
    LET q == NextOperand(Open(Pop(p), Pending("call")), [Pending("call") EXCEPT !.node = TopKid(p)])
    IN  IF IsOp(q, ")") THEN CloseCall(q) ELSE q
GetAttribute(p) ==
    LET q == Advance(p)
    IN  IF Kind(q) # "NAME" THEN Fail(p)
        ELSE Got(Advance(Replace(q, 1, [k |-> "Attribute", v |-> TopKid(p), name |-> Txt(q)])))
JoinString(p) ==
    LET s == ParseString(Txt(p))
        top == TopKid(p)
    IN  IF ~p.joins \/ ~s.ok THEN Fail(p)
        ELSE Advance(Replace(p, 1, [top EXCEPT !.v = <<"str", @[2] \o s.v>>]))

(* What goes on behind an operand, or closes where one was due.            *)
Operation(p, sp) ==
    LET x == Txt(p)
    IN  CASE IsOp(p, "(") -> OpenCall(p)
          [] IsOp(p, "[") -> Prefixed(p, Pending("subscript"))
          [] IsOp(p, ".") -> GetAttribute(p)
          [] IsOp(p, ")") -> CloseParen(p, sp)
          [] IsOp(p, "]") -> CloseSquare(p, sp)
          [] IsOp(p, "}") -> CloseBrace(p, sp)
          [] IsOp(p, ",") -> Comma(p, sp)
          [] IsOp(p, ":") -> Colon(p, sp)
          [] IsOp(p, "=") -> Equals(p)
          [] IsName(p, "and") -> Boolean(p, "And", x)
          [] IsName(p, "or") -> Boolean(p, "Or", x)
          [] IsComparison(p) -> Comparison(p)
          [] Kind(p) = "OP" /\ x \in DOMAIN BinOps -> Binary(p, x)
          [] IsName(p, "if") -> IfWord(p, sp)
          [] IsName(p, "else") -> ElseWord(p, sp)
          [] IsName(p, "for") -> ForWord(p, sp)
          [] OTHER -> Stop(p)

OneToken(p, sp) ==
    LET q == [p EXCEPT !.joins = FALSE]
        closers == Kind(p) = "OP" /\ Txt(p) \in {")", "]", "}", ",", ":", "="}
    IN  CASE Kind(p) \in {"ENDMARKER", "NEWLINE", "DEDENT"} -> Stop(p)
          [] Kind(p) = "INDENT" -> Fail(p)
          [] Kind(p) = "STRING" /\ ~p.want -> JoinString(p)
          [] OTHER -> IF p.want /\ ~closers THEN Operand(q) ELSE Operation(q, sp)

RECURSIVE Tokens(_, _), Unwind(_, _)
Tokens(p, sp) == IF p.bad \/ p.stop THEN p ELSE Tokens(OneToken(p, sp), sp)
Unwind(p, sp) ==
    IF p.bad \/ Len(p.ops) <= sp THEN p
    ELSE IF Top(p).tag = "tuple"
    THEN Unwind(Got(Replace(PopTop(p), Given(p), Sequence("Tuple", Kids(p, Given(p))))), sp)
    ELSE Unwind(ReduceOne(p), sp)

Expr(p) ==
    LET sp == Len(p.ops)
        q == Tokens([p EXCEPT !.want = TRUE, !.joins = FALSE, !.stop = FALSE], sp)
        r == Unwind(q, sp)
    IN  IF p.bad \/ q.bad \/ (q.want /\ Top(q).tag \notin {"tuple", "list"}) THEN Fail(p)
        ELSE IF r.bad \/ Len(r.opnds) # Len(p.opnds) + 1 THEN Fail(p)
        ELSE [Pop(r) EXCEPT !.node = TopKid(r), !.stop = FALSE]


-----------------------------------------------------------------------------
(* Parameters.                                                             *)

(* _pyc_const_of: the value of a literal default.                          *)
ConstOf(n) ==
    LET kid == n.v
        v == kid.v
        negated == IF v[1] = "int" THEN <<"int", 0 - v[2]>> ELSE <<v[1], "-" \o v[2]>>
    IN  IF n.k = "Constant" THEN Accepts(n.v)
        ELSE IF n.k # "UnaryOp" THEN Rejects
        ELSE IF kid.k # "Constant" THEN Rejects
        ELSE CASE n.op = "UAdd" -> Accepts(v)
               [] n.op = "USub" /\ v[1] \in {"int", "float", "imag"} -> Accepts(negated)
               [] n.op = "Invert" /\ v[1] = "int" -> Accepts(<<"int", 0 - v[2] - 1>>)
               [] OTHER -> Rejects

NoParams == [params |-> <<>>, kwonly |-> <<>>, vararg |-> <<>>, kwarg |-> <<>>,
             defaults |-> <<>>, kwdefaults |-> <<>>]

(* One parameter more; default is a sequence of at most one value, and     *)
(* starred says that a star was seen.                                      *)
AddParam(a, starred, mark, name, default) ==
    CASE mark = "*" -> [a EXCEPT !.vararg = <<name>>]
      [] mark = "**" -> [a EXCEPT !.kwarg = <<name>>]
      [] OTHER ->
            IF starred THEN [a EXCEPT !.kwonly = Append(@, name),
                                      !.kwdefaults = @ \o [j \in DOMAIN default |-> <<name, default[j]>>]]
            ELSE [a EXCEPT !.params = Append(@, name), !.defaults = @ \o default]
Admissible(a, starred, mark, default) ==
    CASE mark = "*" -> ~starred
      [] mark = "**" -> a.kwarg = <<>>
      [] OTHER -> a.kwarg = <<>> /\ (~starred /\ a.defaults # <<>> => default # <<>>)

RECURSIVE MoreParams(_, _, _, _)
MoreParams(p, closer, a, starred) ==
    LET mark == IF IsOp(p, "*") \/ IsOp(p, "**") THEN Txt(p) ELSE ""
        q == IF mark = "" THEN p ELSE Advance(p)
        name == Advance(q)
        literal == Expr([Advance(name) EXCEPT !.mode = 2])
        value == ConstOf(literal.node)
        given == IsOp(name, "=")
        r == IF given THEN [literal EXCEPT !.mode = p.mode] ELSE name
        default == IF given THEN <<value.v>> ELSE <<>>
        b == AddParam(a, starred, mark, Txt(q), default)
        done == [r EXCEPT !.node = b]
    IN  IF mark = "*" /\ IsOp(q, ",")
        THEN IF starred THEN Fail(p) ELSE MoreParams(Advance(q), closer, a, TRUE)
        ELSE IF ~IsIdentifier(q) \/ (IsOp(name, ":") /\ closer # ":") THEN Fail(p)
        ELSE IF given /\ (mark # "" \/ literal.bad) THEN Fail(p)
        ELSE IF given /\ ~value.ok THEN Fail(p)
        ELSE IF ~Admissible(a, starred, mark, default) THEN Fail(p)
        ELSE IF ~IsOp(r, ",") THEN done
        ELSE IF IsOp(Advance(r), closer) THEN Advance(done)
        ELSE MoreParams(Advance(r), closer, b, starred \/ mark = "*")
Params(p, closer) ==
    IF IsOp(p, closer) THEN [p EXCEPT !.node = NoParams]
    ELSE MoreParams(p, closer, NoParams, FALSE)

-----------------------------------------------------------------------------
(* Statements.  Each returns p behind the statement, which is p.node; a    *)
(* suite returns a sequence of them.                                       *)
RECURSIVE Stmt(_), Statements(_, _)

Node(p, node) == IF p.bad THEN p ELSE [p EXCEPT !.node = node]
Compound == {"FunctionDef", "If", "While", "For", "Try"}

(* The statements up to the end of a block or, as the program itself, of   *)
(* the text; block tells which.                                            *)
Statements(p0, block) ==
    LET p == SkipNewlines(p0)
        s == Stmt(p)
        rest == IF s.node.k \in Compound THEN s
                ELSE CASE IsOp(s, ";") \/ Kind(s) = "NEWLINE" -> Advance(s)
                       [] Kind(s) = (IF block THEN "DEDENT" ELSE "ENDMARKER") -> s
                       [] OTHER -> Fail(s)
        more == Statements(rest, block)
    IN  CASE Kind(p) = "DEDENT" -> IF block THEN Node(Advance(p), <<>>) ELSE Fail(p)
          [] Kind(p) = "ENDMARKER" -> IF block THEN Fail(p) ELSE Node(p, <<>>)
          [] Kind(p) = "INDENT" /\ ~block -> Fail(p)
          [] OTHER -> IF s.bad THEN s ELSE IF rest.bad THEN rest ELSE Node(more, <<s.node>> \o more.node)

Suite(p) ==
    LET line == Advance(p)
        block == Statements(Advance(line), TRUE)
        one == Stmt(p)
    IN  IF p.bad THEN p
        ELSE IF Kind(p) # "NEWLINE" THEN Node(one, <<one.node>>)
        ELSE IF Kind(line) # "INDENT" \/ block.bad THEN Fail(p)
        ELSE IF block.node = <<>> THEN Fail(p) ELSE block
SuiteOf(p) == Suite(ExpectOp(p, ":"))

(* The suite behind a word, if it comes next.                              *)
Clause(p0, word) ==
    LET p == SkipNewlines(p0)
    IN  IF p.bad \/ ~IsName(p, word) THEN Node(p, <<>>) ELSE SuiteOf(Advance(p))

(* An expression, if the statement goes on.                                *)
Optional(p) ==
    LET e == Expr(p)
    IN  IF Kind(p) \in {"NEWLINE", "ENDMARKER", "DEDENT"} THEN Node(p, <<>>)
        ELSE Node(e, <<e.node>>)
Return(p) == LET e == Optional(Advance(p)) IN Node(e, [k |-> "Return", v |-> e.node])
Raise(p) ==
    LET e == Optional(Advance(p))
    IN  IF e.bad \/ IsName(e, "from") THEN Fail(p) ELSE Node(e, [k |-> "Raise", v |-> e.node])

RECURSIVE Names(_, _)
Names(p, names) ==
    LET q == Advance(p)
    IN  IF ~IsIdentifier(p) THEN Fail(p)
        ELSE IF IsOp(q, ",") THEN Names(Advance(q), Append(names, Txt(p)))
        ELSE Node(q, [k |-> "Global", names |-> Append(names, Txt(p))])

Del(p) ==
    LET e == Expr(Advance(p))
        t == SetStore(e.node, "Del")
    IN  IF e.bad THEN e
        ELSE IF ~Settable(e.node, "Del") THEN Fail(e)
        ELSE Node(e, [k |-> "Delete", targets |-> IF t.k = "Tuple" THEN t.es ELSE <<t>>])

FunctionDef(p, decs) ==
    LET name == Advance(p)
        a == Params(ExpectOp(Advance(name), "("), ")")
        body == SuiteOf(ExpectOp(a, ")"))
        node == [k |-> "FunctionDef", id |-> 0, name |-> Txt(name), decs |-> decs,
                 body |-> body.node]
    IN  IF ~IsIdentifier(name) \/ ~IsOp(Advance(name), "(") THEN Fail(p)
        ELSE IF a.bad \/ body.bad THEN Fail(p)
        ELSE Node(body, node @@ a.node)

RECURSIVE Decorated(_, _)
Decorated(p, decs) ==
    LET e == Expr(Advance(p))
    IN  IF IsName(p, "def") THEN FunctionDef(p, decs)
        ELSE IF ~IsOp(p, "@") \/ e.bad THEN Fail(p)
        ELSE Decorated(SkipNewlines(e), Append(decs, e.node))

RECURSIVE If(_)
If(p) ==
    LET t == Expr(Advance(p))
        body == SuiteOf(t)
        next == SkipNewlines(body)
        elif == If(next)
        orelse == IF IsName(next, "elif") THEN Node(elif, <<elif.node>>) ELSE Clause(body, "else")
    IN  IF t.bad \/ body.bad \/ orelse.bad THEN Fail(p)
        ELSE Node(orelse, [k |-> "If", t |-> t.node, body |-> body.node, orelse |-> orelse.node])

While(p) ==
    LET t == Expr(Advance(p))
        body == SuiteOf(t)
        orelse == Clause(body, "else")
    IN  IF t.bad \/ body.bad \/ orelse.bad THEN Fail(p)
        ELSE Node(orelse, [k |-> "While", t |-> t.node, body |-> body.node,
                           orelse |-> orelse.node])

(* The targets of a for statement: names, starred names.                   *)
RECURSIVE ForTargets(_, _)
ForTargets(p, ts) ==
    LET starred == IsOp(p, "*")
        q == IF starred THEN Advance(p) ELSE p
        name == NameNode(Txt(q), "Store")
        all == Append(ts, IF starred THEN Starred(name) ELSE name)
        r == Advance(q)
        comma == IsOp(r, ",")
        last == comma /\ IsName(Advance(r), "in")
    IN  IF ~IsIdentifier(q) THEN Fail(p)
        ELSE IF comma /\ ~last THEN ForTargets(Advance(r), all)
        ELSE IF Len(all) > 1 THEN Node(IF last THEN Advance(r) ELSE r, Sequence("Tuple", all))
        ELSE IF starred THEN Fail(p)
        ELSE Node(IF last THEN Advance(r) ELSE r, all[1])

For(p) ==
    LET t == ForTargets(Advance(p), <<>>)
        iter == Expr(ExpectName(t, "in"))
        body == SuiteOf(iter)
        orelse == Clause(body, "else")
    IN  IF t.bad \/ iter.bad \/ body.bad \/ orelse.bad THEN Fail(p)
        ELSE Node(orelse, [k |-> "For", target |-> t.node, iter |-> iter.node,
                           body |-> body.node, orelse |-> orelse.node])

RECURSIVE Handlers(_, _)
Handlers(p0, hs) ==
    LET p == SkipNewlines(p0)
        q == Advance(p)
        typ == Expr(q)
        named == IsName(typ, "as")
        name == Advance(typ)
        bare == IsOp(q, ":")
        body == SuiteOf(IF bare THEN q ELSE IF named THEN Advance(name) ELSE typ)
        h == [k |-> "ExceptHandler", typ |-> IF bare THEN <<>> ELSE <<typ.node>>,
              name |-> IF ~bare /\ named THEN Txt(name) ELSE "", body |-> body.node]
    IN  IF p.bad \/ ~IsName(p, "except") THEN Node(p, hs)
        ELSE IF ~bare /\ (typ.bad \/ (named /\ ~IsIdentifier(name))) THEN Fail(p)
        ELSE IF body.bad THEN body
        ELSE Handlers(body, Append(hs, h))

Try(p) ==
    LET body == SuiteOf(Advance(p))
        hs == Handlers(body, <<>>)
        orelse == Clause(hs, "else")
        final == Clause(orelse, "finally")
    IN  IF body.bad \/ hs.bad \/ orelse.bad \/ final.bad THEN Fail(p)
        ELSE IF hs.node = <<>> /\ final.node = <<>> THEN Fail(p)
        ELSE Node(final, [k |-> "Try", body |-> body.node, handlers |-> hs.node,
                          orelse |-> orelse.node, final |-> final.node])

AssertThat(p) ==
    LET test == Expr([Advance(p) EXCEPT !.mode = 2])
        t == [test EXCEPT !.mode = p.mode]
        said == Expr(Advance(t))
        msg == IF IsOp(t, ",") THEN Node(said, <<said.node>>) ELSE Node(t, <<>>)
    IN  IF t.bad \/ msg.bad THEN Fail(p)
        ELSE Node(msg, [k |-> "Assert", t |-> t.node, msg |-> msg.node])

(* What begins with an expression: its value, one or more targets, or the  *)
(* target of an operation.                                                 *)
RECURSIVE Assign(_, _)
Assign(p, targets) ==
    LET t == p.node
        e == Expr(Advance(p))
    IN  IF p.bad \/ ~IsOp(p, "=") THEN Node(p, [k |-> "Assign", targets |-> targets, v |-> p.node])
        ELSE IF ~Settable(t, "Store") THEN Fail(p)
        ELSE Assign(e, Append(targets, SetStore(t, "Store")))
AugAssign(p) ==
    LET e == Expr(Advance(p))
    IN  IF ~Settable(p.node, "Store") THEN Fail(p)
        ELSE Node(e, [k |-> "AugAssign", target |-> SetStore(p.node, "Store"),
                      op |-> BinOps[SubSeq(Txt(p), 1, Len(Txt(p)) - 1)], v |-> e.node])
Simple(p) ==
    LET e == Expr(p)
        x == Txt(e)
    IN  IF e.bad THEN e
        ELSE IF IsOp(e, "=") THEN Assign(e, <<>>)
        ELSE IF /\ Kind(e) = "OP" /\ Len(x) >= 2 /\ Ch(x, Len(x)) = "="
                /\ SubSeq(x, 1, Len(x) - 1) \in DOMAIN BinOps
             THEN AugAssign(e)
        ELSE Node(e, [k |-> "Expr", v |-> e.node])

Stmt(p) ==
    LET word(x) == Node(Advance(p), [k |-> x])
        names == {"match", "case"} \cup (Keywords \ (DOMAIN WordConstants \cup {"not"}))
    IN  IF p.bad THEN p
        ELSE
        CASE IsName(p, "return") -> Return(p)
          [] IsName(p, "def") -> FunctionDef(p, <<>>)
          [] IsOp(p, "@") -> Decorated(p, <<>>)
          [] IsName(p, "global") -> Names(Advance(p), <<>>)
          [] IsName(p, "pass") -> word("Pass")
          [] IsName(p, "break") -> word("Break")
          [] IsName(p, "continue") -> word("Continue")
          [] IsName(p, "del") -> Del(p)
          [] IsName(p, "if") -> If(p)
          [] IsName(p, "while") -> While(p)
          [] IsName(p, "for") -> For(p)
          [] IsName(p, "raise") -> Raise(p)
          [] IsName(p, "try") -> Try(p)
          [] IsName(p, "assert") -> AssertThat(p)
          [] OTHER -> IF Kind(p) = "NAME" /\ Txt(p) \in names THEN Fail(p) ELSE Simple(p)

(* _pyc_parse in mode "exec".                                              *)
Parse(tokens) ==
    LET start == [toks |-> tokens, i |-> 1, opnds |-> <<>>, ops |-> <<>>, mode |-> 0,
                  want |-> FALSE, joins |-> FALSE, stop |-> FALSE, node |-> <<>>, bad |-> FALSE]
        all == Statements(start, FALSE)
    IN  Node(all, [k |-> "Module", body |-> all.node])
=============================================================================
