--------------------------- MODULE MCImgPipeline ----------------------------
(***************************************************************************)
(* Programs as the host compiler hands them over: a small code generator   *)
(* in the manner of CPython 3.14 and the statements it is used on.         *)
(***************************************************************************)
EXTENDS ImgLayout

-----------------------------------------------------------------------------
(* Lines of assembly, and their assembly into a code object.  A constant   *)
(* of `Late` is one that the optimizer makes: it comes after all others.   *)
C(v) == [k |-> "const", v |-> v]
Late(v) == [k |-> "late", v |-> v]
Op(op, arg) == [k |-> "op", op |-> op, arg |-> arg]
N(op, name) == [k |-> "name", op |-> op, v |-> name]
Jump(op, to) == [k |-> "jump", op |-> op, v |-> to]
Label(l) == [k |-> "label", v |-> l]

Collect(lines, kind) ==
    LET found == SelectSeq(lines, LAMBDA l : l.k = kind)
    IN  [i \in DOMAIN found |-> found[i].v]
Once(values) ==
    LET first == SelectSeq([i \in DOMAIN values |-> i], LAMBDA i : \A j \in 1..(i - 1) : values[j] # values[i])
    IN  [k \in DOMAIN first |-> values[first[k]]]

JumpUnits(op, pos, to) ==
    LET distance(k) == LET from == pos + k + 1 + CacheUnits(op)
                       IN  IF to < from THEN from - to ELSE to - from
        k == CHOOSE n \in 0..2 : /\ ExtCount(distance(n)) <= n
                                 /\ \A m \in 0..(n - 1) : ExtCount(distance(m)) > m
    IN  Ext(distance(k), k) \o <<Unit(op, distance(k) % RADIX)>> \o CacheOf(op)

(* Jumps are as wide as their distance asks for, which depends on the      *)
(* width of jumps: laid out again until it stays the same.                 *)
Assembled(lines, consts, names) ==
    LET lineOf == [l \in {lines[i].v : i \in {j \in DOMAIN lines : lines[j].k = "label"}} |->
                        CHOOSE i \in DOMAIN lines : lines[i].k = "label" /\ lines[i].v = l]
        units(i, at) ==
            LET l == lines[i]
            IN  CASE l.k \in {"const", "late"} -> Encode("LOAD_CONST", PlaceOf(consts, l.v) - 1)
                  [] l.k = "name" -> Encode(l.op, PlaceOf(names, l.v) - 1)
                  [] l.k = "op" -> Encode(l.op, l.arg)
                  [] l.k = "jump" -> JumpUnits(l.op, at[i], at[lineOf[l.v]])
                  [] l.k = "label" -> <<>>
        layout(at) ==
            LET size == [i \in DOMAIN lines |-> Len(units(i, at))]
                sum[r \in (1..Len(lines)) \X (0..Len(lines))] ==
                    LET mid == (r[1] + r[2]) \div 2
                    IN  IF r[1] > r[2] THEN 0 ELSE IF r[1] = r[2] THEN size[r[1]]
                        ELSE sum[<<r[1], mid>>] + sum[<<mid + 1, r[2]>>]
            IN  [i \in DOMAIN lines |-> sum[<<1, i - 1>>]]
        final == layout(layout(layout([i \in DOMAIN lines |-> i])))
    IN  [code |-> FlattenSeq([i \in DOMAIN lines |-> units(i, final)]),
         labels |-> [l \in DOMAIN lineOf |-> final[lineOf[l]]]]

Protect(from, to, target, depth, lasti) ==
    [start |-> from, end |-> to, target |-> target, depth |-> depth, lasti |-> lasti]

CodeObject(name, lines, exc, depth) ==
    LET consts == Once(Collect(lines, "const") \o Collect(lines, "late"))
        names == Once(Collect(lines, "name"))
        made == Assembled(lines, consts, names)
        at(l) == made.labels[l]
    IN  [name |-> name, ver |-> 0, code |-> made.code, consts |-> consts, names |-> names, stack |-> depth,
         exc |-> [e \in DOMAIN exc |-> [exc[e] EXCEPT !.start = at(@), !.end = at(@), !.target = at(@)]]]

-----------------------------------------------------------------------------
(* Statements: their lines, how deep the stack gets, the functions and     *)
(* classes they define, and whether the language has them.                 *)
NoObjects == [n \in {} |-> 0]
Stmt(lines, depth) ==
    [lines |-> lines, depth |-> depth, objects |-> NoObjects, nodes |-> NoObjects, legal |-> TRUE]
Illegal(stmt) == [stmt EXCEPT !.legal = FALSE]

Name(n) == N("LOAD_NAME", n)
Store(n) == <<N("STORE_NAME", n)>>
Str(s) == <<"str", s>>
Value(v) == IF v[1] = "int" /\ v[2] < RADIX THEN Op("LOAD_SMALL_INT", v[2]) ELSE C(v)
Subscript == Op("BINARY_OP", NB_SUBSCR)
Ends == <<C(None), Op("RETURN_VALUE", 0)>>
Body(name, lines, depth) == CodeObject(name, <<Op("RESUME", 0)>> \o lines, <<>>, depth)
Simple(name) == Body(name, <<Value(Num(7)), Op("RETURN_VALUE", 0)>>, 1)

Let(v) == Stmt(<<Value(v)>> \o Store("x"), 1)
Slice(lo, hi, step) == Stmt(<<Name("s"), C(<<"slice", lo, hi, step>>), Subscript>> \o Store("x"), 2)
Key(v) == Stmt(<<Name("s"), C(v), Subscript>> \o Store("x"), 2)
SetSlice == Illegal(Stmt(<<Name("x"), Name("s"), C(<<"slice", Num(1), Num(2), None>>), Op("STORE_SUBSCR", 0)>>, 3))
CallF == Stmt(<<Name("f"), Op("PUSH_NULL", 0), Name("x"), Op("CALL", 1), Op("POP_TOP", 0)>>, 3)
CallMany == Stmt(<<Name("f"), Op("PUSH_NULL", 0), Name("x"), Op("PUSH_NULL", 0), Op("CALL_FUNCTION_EX", 0),
                   Op("POP_TOP", 0)>>, 4)

Extended(n) == <<Name(n), Op("LIST_EXTEND", 1)>>
ToTuple == <<Op("CALL_INTRINSIC_1", LIST_TO_TUPLE)>> \o Store("x")
OneStar == Stmt(<<Op("BUILD_LIST", 0)>> \o Extended("s") \o ToTuple, 2)
TwoStars == Stmt(<<Op("BUILD_LIST", 0)>> \o Extended("s") \o Extended("x") \o ToTuple, 2)
ItemAndStar == Stmt(<<Name("x"), Op("BUILD_LIST", 1)>> \o Extended("s") \o ToTuple, 2)
PrintAll == Illegal(Stmt(<<Name("x"), Op("CALL_INTRINSIC_1", 2), Op("POP_TOP", 0)>>, 1))

(* def name(a=..., *, k=...) -> note                                       *)
Def(name, defaults, kw, note) ==
    LET flag(on, f) == IF on THEN <<Op("SET_FUNCTION_ATTRIBUTE", f)>> ELSE <<>>
        pairs == FlattenSeq([i \in DOMAIN kw |-> <<C(Str(kw[i][1])), Value(kw[i][2])>>])
        annotations == name \o "'"
        lines ==
            (IF defaults = <<>> THEN <<>> ELSE <<Late(<<"tuple", defaults>>)>>)
            \o (IF kw = <<>> THEN <<>> ELSE pairs \o <<Op("BUILD_MAP", Len(kw))>>)
            \o (IF note THEN <<C(<<"code", annotations>>), Op("MAKE_FUNCTION", 0)>> ELSE <<>>)
            \o <<C(<<"code", name>>), Op("MAKE_FUNCTION", 0)>>
            \o flag(note, ANNOTATE) \o flag(kw # <<>>, KWDEFAULTS) \o flag(defaults # <<>>, DEFAULTS)
    IN  [Stmt(lines \o Store(name), 2 + 2 * Len(kw) + (IF defaults = <<>> THEN 0 ELSE 1)) EXCEPT
            !.objects = (name :> Simple(name)) @@ (IF note THEN annotations :> Simple(annotations) ELSE NoObjects)]
DefOuter(name, inner) ==
    [Stmt(<<C(<<"code", name>>), Op("MAKE_FUNCTION", 0)>> \o Store(name), 1) EXCEPT
        !.objects = (name :> Body(name, inner.lines \o Ends, inner.depth)) @@ inner.objects,
        !.legal = inner.legal /\ inner.nodes = NoObjects]
DefComputed ==      \* def g(a=x)
    Illegal([Stmt(<<Name("x"), Op("BUILD_TUPLE", 1), C(<<"code", "g">>), Op("MAKE_FUNCTION", 0),
                    Op("SET_FUNCTION_ATTRIBUTE", DEFAULTS)>> \o Store("g"), 2) EXCEPT
                !.objects = "g" :> Simple("g")])

(* class name: attributes                                                  *)
Attr(a, v) == [name |-> a, val |-> v]
ClassLines(name, body, bases) ==
    <<Op("LOAD_BUILD_CLASS", 0), Op("PUSH_NULL", 0), C(<<"body", body, name>>), Op("MAKE_FUNCTION", 0), C(Str(name))>>
    \o [i \in DOMAIN bases |-> Name(bases[i])] \o <<Op("CALL", 2 + Len(bases))>>
ClassWith(name, body, flaw) ==
    LET used == Range(Attributes(body))
        methods == {v \in used : v[1] = "function"} \cup {v[2] : v \in {w \in used : w[1] = "static"}}
    IN  [Stmt(ClassLines(name, body, <<>>) \o Store(name), 4) EXCEPT
            !.objects = [n \in {v[2] : v \in methods} |-> Simple(n)],
            !.nodes = name :> [body |-> body, flaw |-> flaw],
            !.legal = flaw = "" /\ \A v \in used : AllowedAttribute(v)]
Class(name, body) == ClassWith(name, body, "")
Derived ==
    Illegal([Stmt(ClassLines("D", <<>>, <<"s">>) \o Store("D"), 5) EXCEPT
                !.nodes = "D" :> [body |-> <<>>, flaw |-> "bases"]])
Decorated ==
    Illegal([Stmt(<<Name("f"), Op("PUSH_NULL", 0)>> \o ClassLines("E", <<>>, <<>>)
                  \o <<Op("CALL", 1)>> \o Store("E"), 6) EXCEPT
                !.nodes = "E" :> [body |-> <<>>, flaw |-> "decorator"]])

(* if x: stmt                                                              *)
If(stmt, l) ==
    [stmt EXCEPT !.nodes = NoObjects, !.legal = @ /\ stmt.nodes = NoObjects,
        !.lines = <<Name("x"), Op("TO_BOOL", 0), Jump("POP_JUMP_IF_FALSE", l), Op("NOT_TAKEN", 0)>>
                  \o @ \o <<Label(l)>>]
While(stmt, l) ==
    [If(stmt, l) EXCEPT !.lines = <<Label(l \o "t")>> \o SubSeq(@, 1, Len(@) - 1)
                                   \o <<Jump("JUMP_BACKWARD", l \o "t"), Label(l)>>]
For(stmt, l) ==
    [stmt EXCEPT !.nodes = NoObjects, !.legal = @ /\ stmt.nodes = NoObjects, !.depth = @ + 1,
        !.lines = <<Name("s"), Op("GET_ITER", 0), Label(l \o "t"), Jump("FOR_ITER", l)>> \o Store("x")
                  \o @ \o <<Jump("JUMP_BACKWARD", l \o "t"), Label(l), Op("END_FOR", 0), Op("POP_ITER", 0)>>]
(* if x: n constants, so that what follows has constants behind them       *)
Filler(n) == If(Stmt(FlattenSeq([i \in 1..n |-> <<C(Str(ToString(i)))>> \o Store("x")]), 1), "filler")

-----------------------------------------------------------------------------
(* Bodies of functions with protected ranges.                              *)
CallOf(f) == <<Name(f), Op("PUSH_NULL", 0), Op("CALL", 0)>>
CallAll(f) == <<Name(f), Op("PUSH_NULL", 0), Name("x"), Op("PUSH_NULL", 0), Op("CALL_FUNCTION_EX", 0)>>
Cleanup == <<Op("COPY", 3), Op("POP_EXCEPT", 0), Op("RERAISE", 1)>>

(* try: return value  finally: h()                                         *)
Finally(name, before, value) ==
    CodeObject(name, <<Op("RESUME", 0)>> \o before \o <<Op("NOP", 0), Label("1")>> \o value \o <<Label("2")>>
        \o CallOf("h") \o <<Op("POP_TOP", 0), Op("RETURN_VALUE", 0), Label("3"), Op("PUSH_EXC_INFO", 0)>>
        \o CallOf("h") \o <<Op("POP_TOP", 0), Op("RERAISE", 0), Label("4")>> \o Cleanup,
        <<Protect("1", "2", "3", 0, FALSE), Protect("3", "4", "4", 1, TRUE)>>, 4)

(* try: lines  except f: x = h()                                           *)
Except(name, before, lines, back) ==
    LET leave == IF back THEN <<Jump("JUMP_BACKWARD_NO_INTERRUPT", "2")>> ELSE Ends
    IN  CodeObject(name, <<Op("RESUME", 0)>> \o before \o <<Op("NOP", 0), Label("1")>> \o lines \o Store("x")
            \o <<Label("2")>> \o Ends
            \o <<Label("3"), Op("PUSH_EXC_INFO", 0), Name("f"), Op("CHECK_EXC_MATCH", 0),
                 Jump("POP_JUMP_IF_FALSE", "5"), Op("NOT_TAKEN", 0), Op("POP_TOP", 0)>>
            \o CallOf("h") \o Store("x") \o <<Label("4"), Op("POP_EXCEPT", 0)>> \o leave
            \o <<Label("5"), Op("RERAISE", 0), Label("6")>> \o Cleanup,
            <<Protect("1", "2", "3", 0, FALSE), Protect("3", "4", "6", 1, TRUE), Protect("5", "6", "6", 1, TRUE)>>, 4)

Sliced(lo, hi) == <<Name("s"), C(<<"slice", lo, hi, None>>), Subscript>>
Functions ==
    LET befores == {<<>>, Slice(Num(2), None, None).lines, For(CallF, "l").lines, While(Let(Str("u")), "w").lines,
                    Filler(RADIX \div 2).lines}
        protected == {CallOf("f"), Sliced(Num(1), Num(90)), <<Value(Num(3))>>, Sliced(None, None) \o <<Op("COPY", 1), Op("POP_TOP", 0)>>}
    IN  {Finally("g", b, v) : b \in befores, v \in protected}
            \cup {Except("g", b, v, back) : b \in befores, v \in protected, back \in BOOLEAN}
Legal(co) == \A i \in DOMAIN co.code : co.code[i].op # "JUMP_BACKWARD_NO_INTERRUPT"

-----------------------------------------------------------------------------
(* Programs.                                                               *)
Fn(name, d, k) == Function(name, d, k)
Statements == {
    Let(Num(5)), Let(Num(200)), CallF, CallMany, OneStar, TwoStars, ItemAndStar, PrintAll, SetSlice,
    Slice(Num(1), Num(3), None), Slice(Num(90), Num(2), None), Slice(None, Num(91), Num(1)), Slice(None, None, None),
    Illegal(Slice(Num(1), None, Num(2))), Key(Num(2)), Key(Str("k")),
    Def("g", <<>>, <<>>, FALSE), Def("g", <<Num(1), Str("d")>>, <<>>, FALSE),
    Def("h", <<Num(1)>>, <<<<"k", Num(40)>>>>, FALSE), Def("h", <<>>, <<<<"k", Str("d")>>, <<"l", None>>>>, TRUE),
    Def("h", <<Str("d")>>, <<<<"k", None>>>>, TRUE), Def("g", <<>>, <<>>, TRUE), DefComputed,
    DefOuter("o", Def("h", <<Num(2)>>, <<>>, FALSE)), DefOuter("o", Class("A", <<>>)), DefOuter("o", Slice(Num(1), Num(2), None)),
    DefOuter("o", OneStar),
    Class("A", <<>>), Class("A", <<Attr("n", Num(1)), Attr("n", Str("d"))>>),
    Class("A", <<Attr("m", Fn("A.m", <<Num(1)>>, <<>>)), Attr("n", None)>>),
    Class("B", <<Attr("m", Fn("B.m", <<>>, <<<<Str("k"), Num(1)>>>>)), Attr("z", <<"static", Fn("B.z", <<Str("d")>>, <<>>)>>)>>),
    Class("B", <<Attr("m", Fn("B.m", <<>>, <<>>)), Attr("m", Num(1))>>),
    Class("A", <<Attr("n", <<"list", <<>>>>)>>), ClassWith("A", <<>>, "unsupported statement"), Derived, Decorated,
    If(Slice(Num(1), None, None), "a"), If(Class("A", <<>>), "a"), While(Slice(Num(90), None, None), "b"), For(CallF, "c")}

Joined(a, b) ==
    [lines |-> a.lines \o b.lines, depth |-> IF a.depth < b.depth THEN b.depth ELSE a.depth,
     objects |-> a.objects @@ b.objects, nodes |-> b.nodes @@ a.nodes, legal |-> a.legal /\ b.legal]
Module(stmt, stars) ==
    [tree |-> ("m" :> Body("m", stmt.lines \o Ends, stmt.depth)) @@ stmt.objects, root |-> "m", nodes |-> stmt.nodes,
     stars |-> stars, rom |-> FALSE, entry |-> "m", legal |-> stmt.legal]

HasStars(stmt) == \E i \in DOMAIN stmt.lines : stmt.lines[i].k = "op" /\ stmt.lines[i].op = "BUILD_LIST"
Distinct(a, b) ==
    /\ DOMAIN a.objects \cap DOMAIN b.objects = {} /\ DOMAIN a.nodes \cap DOMAIN b.nodes = {}
    /\ Range(Collect(a.lines, "label")) \cap Range(Collect(b.lines, "label")) = {}
Fillers == {RADIX - 4, RADIX - 2, RADIX}

Modules ==
    {Module(s, HasStars(s)) : s \in Statements} \cup {Module(s, FALSE) : s \in {OneStar, TwoStars}}
    \cup {Module(Joined(a, b), HasStars(a) \/ HasStars(b)) :
            <<a, b>> \in {<<a, b>> \in Statements \X Statements : Distinct(a, b)}}
    \cup {Module(Joined(Filler(n), s), HasStars(s)) : n \in Fillers, s \in Statements}
    \cup {Module(Joined(Joined(a, Filler(n)), b), FALSE) : n \in {RADIX - 4, RADIX - 1},
            a \in {Slice(Num(90), Num(2), None), Def("g", <<>>, <<>>, FALSE), Class("A", <<>>)},
            b \in {Slice(Num(90), Num(92), None), Key(Str("k")), Class("B", <<>>), Let(Num(200))}}
    \cup {Module(Illegal(Joined(Class("A", <<>>), Class("A", <<Attr("n", None)>>))), FALSE)}

OfFunction(co, rom) ==
    LET m == Body("m", <<C(<<"code", co.name>>), Op("MAKE_FUNCTION", 0)>> \o Store("g") \o Ends, 1)
    IN  [tree |-> IF rom THEN "g" :> co ELSE ("g" :> co) @@ ("m" :> m), root |-> IF rom THEN "g" ELSE "m",
         nodes |-> NoObjects, stars |-> FALSE, rom |-> rom, entry |-> "g", legal |-> Legal(co)]

-----------------------------------------------------------------------------
MCSupported ==
    {"RESUME", "NOP", "NOT_TAKEN", "LOAD_CONST", "LOAD_SMALL_INT", "LOAD_NAME", "LOAD_FAST", "STORE_NAME", "STORE_FAST",
     "PUSH_NULL", "POP_TOP", "COPY", "TO_BOOL", "BINARY_OP", "BINARY_SLICE", "STORE_SUBSCR", "CALL", "CALL_FUNCTION_EX",
     "CALL_INTRINSIC_1", "BUILD_LIST", "BUILD_MAP", "BUILD_TUPLE", "LIST_EXTEND", "MAKE_FUNCTION", "GET_ITER", "FOR_ITER",
     "END_FOR", "POP_ITER", "JUMP_FORWARD", "JUMP_BACKWARD", "POP_JUMP_IF_FALSE", "RETURN_VALUE", "PUSH_EXC_INFO",
     "CHECK_EXC_MATCH", "POP_EXCEPT", "RERAISE"}

(* A run of a method of a folded class: it is rewritten only when it is    *)
(* laid out.                                                               *)
OfMethod(stmt) ==
    LET class == Class("A", <<Attr("m", Fn("A.m", <<Num(1)>>, <<>>))>>)
        co == Body("A.m", stmt.lines \o Ends, stmt.depth)
    IN  [Module([class EXCEPT !.objects = "A.m" :> co], FALSE) EXCEPT !.entry = "A.m"]
InMethods == {OfMethod(s) : s \in {Slice(Num(90), Num(2), None), For(Slice(None, Num(91), Num(1)), "c"), OneStar, CallF}}

-----------------------------------------------------------------------------
(* What is known to go wrong is left out here.                             *)

(* A subscript whose wide constant index ends in the digit of a slice is   *)
(* taken for that slice.                                                   *)
TakenForSlice(co) ==
    \E p \in 0..(Len(co.code) - 1) : SliceEnd(co.code, co.consts, p) > 0 /\ p > 0 /\ At(co.code, p - 1).op = "EXTENDED_ARG"
        /\ co.consts[InstructionAt(co.code, p - 1).arg + 1][1] # "slice"
(* Operands of SET_FUNCTION_ATTRIBUTE are read without their prefixes.     *)
WideDefaults(co) ==
    Len(co.consts) > RADIX /\ \E p \in DOMAIN co.code : co.code[p].op = "SET_FUNCTION_ATTRIBUTE"
(* The idiom of a class is looked for without prefixes.                    *)
WideClass(co) ==
    Len(co.consts) > RADIX /\ \E p \in DOMAIN co.code : co.code[p].op = "LOAD_BUILD_CLASS"
Sound(p) ==
    \A n \in DOMAIN p.tree : ~TakenForSlice(p.tree[n]) /\ ~WideDefaults(p.tree[n]) /\ ~WideClass(p.tree[n])

Sources == {p \in Modules \cup InMethods \cup {OfFunction(co, rom) : co \in Functions, rom \in BOOLEAN} : Sound(p)}
MCPrograms == LET prepared == {Prepared(p) : p \in Sources} IN prepared

-----------------------------------------------------------------------------
(* The bodies of ROM built-ins in which no slice is folded are laid out as *)
(* StripKeepsEffects (ImgLayoutProofs) asks for.                           *)
Unfolded == {co \in Functions : FoldSlicesOne(co).co = co /\ Prepared(OfFunction(co, TRUE)).bad = ""}
ASSUME LayoutAssumption ==
    /\ \E co \in Unfolded : Strip(co).code # co.code
    /\ \A co \in Unfolded : StrippedFrom(Prepared(OfFunction(co, TRUE)), co)
=============================================================================
