---------------------------- MODULE PySourceText ----------------------------
(***************************************************************************)
(* The reference for PycLexer and PycParser: the text of a syntax tree by  *)
(* the grammar of Python, in a layout of choice.  It depends on nothing in *)
(* the compiler.  Parentheses are those that the precedences of Python ask *)
(* for, and a few more where the compiler is known to want them (Level).   *)
(***************************************************************************)
EXTENDS Integers, Sequences, SequencesExt

(* A layout: the indentation of a block, what stands in front of a line of *)
(* a block, what follows an opening bracket or a comma, and what separates *)
(* an assignment's sides; whether a short suite follows its colon, and     *)
(* what ends a simple statement in a block.                                *)
Layouts == [
    plain    |-> [indent |-> "  ", before |-> "", inside |-> "", comma |-> " ", equals |-> " = ",
                  short |-> FALSE, semicolon |-> FALSE, end |-> "\n"],
    airy     |-> [indent |-> "\t", before |-> "\n  # c: (\n \t\n", inside |-> "\n", comma |-> " # c\n ",
                  equals |-> " \\\n = \\\n\t", short |-> FALSE, semicolon |-> FALSE, end |-> "  # c\n\n"],
    short    |-> [indent |-> " ", before |-> "", inside |-> "", comma |-> "", equals |-> "=",
                  short |-> TRUE, semicolon |-> FALSE, end |-> "\n"],
    joined   |-> [indent |-> "    ", before |-> "", inside |-> " ", comma |-> "  ", equals |-> " = ",
                  short |-> FALSE, semicolon |-> TRUE, end |-> "\n"]]

Joined(ts, between) ==
    LET text[j \in 0..Len(ts)] ==
            IF j = 0 THEN "" ELSE IF j = 1 THEN ts[1] ELSE text[j - 1] \o between \o ts[j]
    IN  text[Len(ts)]
Each(xs, Do(_)) == [j \in DOMAIN xs |-> Do(xs[j])]
Indented(text, layout, depth) ==
    Joined([j \in 1..depth |-> layout.indent], "") \o text

-----------------------------------------------------------------------------
(* Expressions.  A level is how tightly the place binds: 15 an atom with   *)
(* its trailers, 14 a power, 13 a sign, 4 a comparison, 1 a disjunction, 0 *)
(* an expression, -1 one with no comma behind, -2 with no brackets needed. *)
Operators == [x \in {"Add", "Sub", "Mult", "Div", "FloorDiv", "Mod", "LShift", "RShift", "BitOr",
                     "BitXor", "BitAnd", "Pow", "UAdd", "USub", "Invert", "Not", "And", "Or"} |->
    CASE x = "Add" -> <<"+", 10>> [] x = "Sub" -> <<"-", 10>> [] x = "Mult" -> <<"*", 11>>
      [] x = "Div" -> <<"/", 11>> [] x = "FloorDiv" -> <<"//", 11>> [] x = "Mod" -> <<"%", 11>>
      [] x = "LShift" -> <<"<<", 9>> [] x = "RShift" -> <<">>", 9>> [] x = "BitOr" -> <<"|", 6>>
      [] x = "BitXor" -> <<"^", 7>> [] x = "BitAnd" -> <<"&", 8>> [] x = "Pow" -> <<"**", 14>>
      [] x = "UAdd" -> <<"+", 13>> [] x = "USub" -> <<"-", 13>> [] x = "Invert" -> <<"~", 13>>
      [] x = "Not" -> <<"not ", 3>> [] x = "And" -> <<" and ", 2>> [] x = "Or" -> <<" or ", 1>>]
Comparisons == [x \in {"Eq", "NotEq", "Lt", "Gt", "LtE", "GtE", "Is", "IsNot", "In", "NotIn"} |->
    CASE x = "Eq" -> " == " [] x = "NotEq" -> "!=" [] x = "Lt" -> "<" [] x = "Gt" -> ">"
      [] x = "LtE" -> "<=" [] x = "GtE" -> " >= " [] x = "Is" -> " is " [] x = "IsNot" -> " is not "
      [] x = "In" -> " in " [] x = "NotIn" -> " not  in "]

(* How tightly a node binds.  A lambda is put in parentheses wherever more *)
(* of the expression follows, and a tuple in every expression.             *)
Level(n) ==
    CASE n.k = "Tuple" -> IF n.es = <<>> THEN 15 ELSE 0 - 2
      [] n.k = "Lambda" -> 0 - 1
      [] n.k = "IfExp" -> 0
      [] n.k \in {"BoolOp", "UnaryOp", "BinOp"} -> Operators[n.op][2]
      [] n.k = "Compare" -> 4
      [] OTHER -> 15

Spelled(v) ==
    CASE v[1] = "int" -> ToString(v[2])
      [] v[1] = "str" -> "'" \o v[2] \o "'"
      [] v[1] = "bool" -> IF v[2] THEN "True" ELSE "False"
      [] v[1] = "none" -> "None"
      [] OTHER -> v[2]

Params(n) ==
    LET Plain(j) == n.params[j] \o
            (LET d == j - (Len(n.params) - Len(n.defaults))
             IN  IF d > 0 THEN "=" \o Spelled(n.defaults[d]) ELSE "")
        Given(x) == \E d \in DOMAIN n.kwdefaults : n.kwdefaults[d][1] = x
        Keyword(x) == IF Given(x)
                      THEN x \o "=" \o Spelled((CHOOSE d \in ToSet(n.kwdefaults) : d[1] = x)[2]) ELSE x
        star == IF n.vararg # <<>> THEN <<"*" \o n.vararg[1]>>
                ELSE IF n.kwonly # <<>> THEN <<"*">> ELSE <<>>
    IN  Joined([j \in DOMAIN n.params |-> Plain(j)] \o star \o Each(n.kwonly, Keyword)
               \o (IF n.kwarg = <<>> THEN <<>> ELSE <<"**" \o n.kwarg[1]>>), ", ")

(* The text of n at a level.  In an operand of an operator (pending) the   *)
(* interior of an f-string is an atom.                                     *)
RECURSIVE Text(_, _, _, _)
Text(n, level, pending, layout) ==
    LET wrapped == Level(n) < level
        inner == pending /\ ~wrapped
        Operand(m, lev) == Text(m, lev, TRUE, layout)
        Under(m, lev) == Text(m, lev, inner, layout)
        Inside(m) == Text(m, 0, FALSE, layout)
        AllOf(ms) == Joined([j \in DOMAIN ms |->
                        Text(ms[j], IF j = Len(ms) THEN 0 - 1 ELSE 0, FALSE, layout)],
                        "," \o layout.comma)
        Bracketed(open, body, close) == open \o layout.inside \o body \o close
        Entry(e) == IF e.unpack THEN "**" \o Text(e.v, 5, FALSE, layout)
                    ELSE Inside(e.key) \o ":" \o Inside(e.v)
        Argument(kw) == (IF kw.name = "**" THEN "**" ELSE kw.name \o "=") \o Inside(kw.v)
        Clauses == " for " \o n.target.name \o " in " \o Text(n.iter, 1, FALSE, layout)
                   \o (IF n.cond = <<>> THEN "" ELSE " if " \o Text(n.cond[1], 1, FALSE, layout))
        Piece(v) ==
            IF v.k = "Constant" THEN v.v[2]
            ELSE LET e == Text(v.v, IF pending THEN 15 ELSE 0, pending, Layouts.plain)
                 IN  "{" \o (IF Head(e) = "{" THEN " " ELSE "") \o e \o
                     (IF v.conv = "" THEN "" ELSE "!" \o v.conv) \o "}"
        op == Operators[n.op][1]
        prec == Operators[n.op][2]
        text ==
            CASE n.k = "Name" -> n.name
              [] n.k = "Constant" -> Spelled(n.v)
              [] n.k = "BinOp" ->
                    IF n.op = "Pow" THEN Operand(n.l, 15) \o op \o Operand(n.r, 13)
                    ELSE Operand(n.l, prec) \o op \o Operand(n.r, prec + 1)
              [] n.k = "UnaryOp" -> op \o Operand(n.v, prec)
              [] n.k = "BoolOp" -> Joined([j \in DOMAIN n.vs |-> Operand(n.vs[j], prec + 1)], op)
              [] n.k = "Compare" ->
                    Operand(n.l, 5) \o Joined([j \in DOMAIN n.rs |->
                        Comparisons[n.ops[j]] \o Operand(n.rs[j], 5)], "")
              [] n.k = "IfExp" ->
                    Under(n.a, 1) \o " if " \o Under(n.t, 1) \o " else " \o Under(n.b, 0)
              [] n.k = "Lambda" ->
                    "lambda " \o Params(n) \o ": " \o Text(n.body[1], 0 - 1, inner, layout)
              [] n.k = "Call" ->
                    Under(n.f, 15) \o
                    (IF n.kws = <<>> THEN Bracketed("(", AllOf(n.args), ")")
                     ELSE Bracketed("(", Joined(Each(n.args, Inside) \o Each(n.kws, Argument),
                                                "," \o layout.comma), ")"))
              [] n.k = "Attribute" -> Under(n.v, 15) \o (IF n.v.k = "Constant" THEN " ." ELSE ".") \o n.name
              [] n.k = "Subscript" -> Under(n.v, 15) \o Bracketed("[", Inside(n.i), "]")
              [] n.k = "Slice" ->
                    Joined(Each(n.lo, Inside), "") \o ":" \o Joined(Each(n.hi, Inside), "")
              [] n.k = "Starred" -> "*" \o Under(n.v, 5)
              [] n.k = "Tuple" ->
                    IF n.es = <<>> THEN "()"
                    ELSE Joined(Each(n.es, Inside), "," \o (IF wrapped THEN layout.comma ELSE " "))
                         \o (IF Len(n.es) = 1 THEN "," ELSE "")
              [] n.k = "List" -> Bracketed("[", AllOf(n.es), "]")
              [] n.k = "Set" -> Bracketed("{", Joined(Each(n.es, Inside), "," \o layout.comma), "}")
              [] n.k = "Dict" -> Bracketed("{", Joined(Each(n.es, Entry), "," \o layout.comma), "}")
              [] n.k = "ListComp" -> Bracketed("[", Inside(n.elts[1]) \o Clauses, "]")
              [] n.k = "SetComp" -> Bracketed("{", Inside(n.elts[1]) \o Clauses, "}")
              [] n.k = "DictComp" ->
                    Bracketed("{", Inside(n.elts[1]) \o ": " \o Inside(n.elts[2]) \o Clauses, "}")
              [] n.k = "JoinedStr" -> "f\"" \o Joined(Each(n.vs, Piece), "") \o "\""
    IN  IF wrapped /\ n.k # "Slice" THEN Bracketed("(", text, ")") ELSE text

-----------------------------------------------------------------------------
(* Statements.                                                             *)
Compound == {"FunctionDef", "If", "While", "For", "Try"}

(* One line, without its end.                                              *)
Line(s, layout) ==
    LET E(n) == Text(n, 0 - 2, FALSE, layout)
        Some(word, vs) == IF vs = <<>> THEN word ELSE word \o " " \o E(vs[1])
    IN  CASE s.k = "Expr" -> Text(s.v, IF s.v.k = "Lambda" THEN 0 ELSE 0 - 2, FALSE, layout)
          [] s.k = "Assign" -> Joined(Each(s.targets, E) \o <<E(s.v)>>, layout.equals)
          [] s.k = "AugAssign" -> E(s.target) \o " " \o Operators[s.op][1] \o "= " \o E(s.v)
          [] s.k = "Return" -> Some("return", s.v)
          [] s.k = "Raise" -> Some("raise", s.v)
          [] s.k = "Delete" -> "del " \o Joined(Each(s.targets, E), ",")
          [] s.k = "Global" -> "global " \o Joined(s.names, ", ")
          [] s.k = "Assert" -> "assert " \o Text(s.t, 0, FALSE, layout) \o
                (IF s.msg = <<>> THEN "" ELSE ", " \o Text(s.msg[1], 0, FALSE, layout))
          [] s.k = "Pass" -> "pass"
          [] s.k = "Break" -> "break"
          [] s.k = "Continue" -> "continue"

RECURSIVE Statements(_, _, _), Lines(_, _, _)

(* The suite behind a header.                                              *)
Block(body, layout, depth) ==
    IF layout.short /\ Len(body) = 1 /\ body[1].k \notin Compound
    THEN ": " \o Line(body[1], layout) \o "\n"
    ELSE ":" \o layout.end \o Statements(body, layout, depth + 1)

Clause(word, body, layout, depth) ==
    IF body = <<>> THEN "" ELSE Indented(word, layout, depth) \o Block(body, layout, depth)

(* A statement; a simple one without the end of its line.                  *)
Lines(s, layout, depth) ==
    LET At(word) == Indented(word, layout, depth)
        E(n) == Text(n, 0 - 2, FALSE, layout)
        B(body) == Block(body, layout, depth)
        C(word, body) == Clause(word, body, layout, depth)
        Handler(h) ==
            At("except") \o (IF h.typ = <<>> THEN "" ELSE " " \o Text(h.typ[1], 0, FALSE, layout))
            \o (IF h.name = "" THEN "" ELSE " as " \o h.name) \o B(h.body)
        Decorator(d) == At("@") \o Text(d, 0, FALSE, layout) \o "\n"
        elif == Len(s.orelse) = 1 /\ s.orelse[1].k = "If"
    IN  CASE s.k = "If" ->
                At("if ") \o E(s.t) \o B(s.body) \o
                (IF elif THEN At("el") \o SubSeq(Lines(s.orelse[1], layout, depth),
                                                 Len(At("")) + 1, Len(Lines(s.orelse[1], layout, depth)))
                 ELSE C("else", s.orelse))
          [] s.k = "While" -> At("while ") \o E(s.t) \o B(s.body) \o C("else", s.orelse)
          [] s.k = "For" ->
                At("for ") \o E(s.target) \o " in " \o E(s.iter) \o B(s.body) \o C("else", s.orelse)
          [] s.k = "Try" ->
                At("try") \o B(s.body) \o Joined(Each(s.handlers, Handler), "")
                \o C("else", s.orelse) \o C("finally", s.final)
          [] s.k = "FunctionDef" ->
                Joined(Each(s.decs, Decorator), "") \o
                At("def ") \o s.name \o "(" \o Params(s) \o ")" \o B(s.body)
          [] OTHER -> At(Line(s, layout))

(* A semicolon joins two simple statements, but the compiler takes none    *)
(* behind a return or a raise without a value.                             *)
Statements(body, layout, depth) ==
    LET Simple(j) == j \in DOMAIN body /\ body[j].k \notin Compound
        Joins(j) == /\ layout.semicolon /\ Simple(j - 1) /\ Simple(j)
                    /\ ~(body[j - 1].k \in {"Return", "Raise"} /\ body[j - 1].v = <<>>)
    IN  Joined([j \in DOMAIN body |->
            (IF Joins(j) THEN " ; " \o Line(body[j], layout)
             ELSE layout.before \o Lines(body[j], layout, depth))
            \o (IF Simple(j) /\ ~Joins(j + 1) THEN layout.end ELSE "")], "")

Source(module, layout) == Statements(module.body, layout, 0)
=============================================================================
