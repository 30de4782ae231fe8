----------------------------- MODULE MCPycExec ------------------------------
(***************************************************************************)
(* Programs for PycExec.  A try statement is put together from a protected *)
(* body, a handler, an else and a finally clause, and placed in a context; *)
(* the singles go through the rest of the language.                        *)
(***************************************************************************)
EXTENDS PycExec, PyTrees

Compiler == INSTANCE PycCodegen
Source == INSTANCE PySource

-----------------------------------------------------------------------------
(* The try statements.                                                     *)

(* A statement that may be run or not, and one that is.                    *)
Leaf(s) ==
    CASE s \in {"a", "b", "c"} -> Ask(s)
      [] s \in {"E", "F"} -> RaiseOf(s)
      [] s = "raise" -> [k |-> "Raise", v |-> <<>>]
      [] s = "break" -> [k |-> "Break"]
      [] s = "continue" -> [k |-> "Continue"]
      [] s = "return" -> ReturnOf(Call("a", <<>>))
Maybe(s) == If(Call("a", <<>>), <<Leaf(s)>>, <<>>)

Handler(h, body) ==
    CASE h = "none" -> <<>>
      [] h = "E" -> <<Except(<<NameOf("E")>>, "", body)>>
      [] h = "E as x" -> <<Except(<<NameOf("E")>>, "x", body)>>
      [] h = "any" -> <<Except(<<Both(NameOf("G"), NameOf("F"))>>, "", <<Ask("d")>>),
                        Except(<<>>, "", body)>>

TryOf(p) ==
    Try(<<Maybe(p.body), Ask("b")>>,
        Handler(p.handler, IF p.inHandler = "none" THEN <<Ask("c")>> ELSE <<Leaf(p.inHandler)>>),
        IF p.orelse = "none" THEN <<>> ELSE <<Leaf(p.orelse)>>,
        IF p.final = "none" THEN <<>> ELSE <<Leaf(p.final)>>)

InContext(context, s) ==
    CASE context = "module" -> <<s, Ask("d")>>
      [] context = "for" -> <<For("i", Both(Num(1), Num(2)), <<s, Ask("c")>>, <<Ask("d")>>),
                              Do(Call("p", <<NameOf("i")>>))>>
      [] context = "while" -> <<While(Call("q", <<>>), <<s, Ask("c")>>, <<Ask("d")>>), Ask("p")>>
      [] context = "function" ->
            <<Function(1, "f", <<>>,
                 <<For("i", Both(Num(1), Num(2)), <<s, Ask("c")>>, <<>>), ReturnOf(Num(7))>>),
              Do(Call("p", <<Call("f", <<>>)>>))>>
      [] context = "try" ->
            <<Function(1, "f", <<>>,
                 <<For("j", Both(Num(1), Num(2)), <<Let("k", NameOf("j"))>>, <<>>),
                   Try(<<s, Ask("c")>>, <<Except(<<NameOf("F")>>, "e", <<Do(Call("p", <<NameOf("e")>>))>>)>>,
                       <<>>, <<Ask("d")>>)>>),
              Do(Call("p", <<Call("f", <<>>)>>))>>
      [] context = "handler" ->
            <<Try(<<RaiseOf("G")>>, <<Except(<<NameOf("G")>>, "e", <<s, Ask("c"), Leaf("raise")>>)>>,
                  <<>>, <<>>)>>

(* What Python accepts here.                                               *)
JumpLeaves == {"break", "continue"}
Leaves == JumpLeaves \cup {"return"}
Parts(p) == {p.body, p.inHandler, p.orelse, p.final}
Accepted(p) ==
    /\ p.handler # "none" \/ p.final # "none"
    /\ p.handler = "none" => p.inHandler = "none" /\ p.orelse = "none"
    /\ p.context \notin {"for", "while", "function"} => Parts(p) \cap JumpLeaves = {}
    /\ p.context \notin {"function", "try"} => "return" \notin Parts(p)

(* Where the compiler is known to part from Python: a finally clause is    *)
(* not run when the handler or the else clause is left early.              *)
SkipsFinally(p) ==
    /\ p.final # "none" \/ p.context = "try"
    /\ p.inHandler \in Leaves \/ p.orelse \in Leaves \cup {"E"}

TryPrograms ==
    [context : {"module", "for", "while", "function", "try", "handler"},
     body : {"c", "E", "F", "break", "return"},
     handler : {"none", "E", "E as x", "any"},
     inHandler : {"none", "raise", "break", "return"},
     orelse : {"none", "continue", "E"},
     final : {"none", "a", "E"}]

-----------------------------------------------------------------------------
(* The rest of the language, one program for each of its parts.            *)
Use(xs) == Do(Call("p", xs))
One == Num(1)
Two == Num(2)
Three == Num(3)
OneTwo == List(<<One, Two>>)

Singles == [
    arithmetic |-> <<Let("a", Call("b", <<>>)),
        Aug("a", "Add", Num(2)),
        Use(<<Bin(NameOf("a"), "Sub", Bin(Num(300), "Mult", Two)), Un("USub", NameOf("a")),
              Un("Not", NameOf("a")), Un("Invert", NameOf("a")), Un("USub", Num(5))>>),
        Use(<<And(NameOf("a"), Call("c", <<>>)), Or(Call("c", <<>>), NameOf("a")),
              Cmp(NameOf("a"), <<"Lt">>, <<Two>>),
              Cmp(NameOf("a"), <<"Is">>, <<NameOf("a")>>), Cmp(One, <<"NotIn">>, <<OneTwo>>)>>)>>,

    compare |-> <<Use(<<Cmp(Call("a", <<>>), <<"LtE", "Gt">>, <<Call("b", <<>>), Call("c", <<>>)>>)>>),
        If(Or(Call("a", <<>>), And(Call("b", <<>>), Call("c", <<>>))), <<Ask("d")>>, <<Ask("q")>>),
        Use(<<[k |-> "IfExp", t |-> Cmp(Call("a", <<>>), <<"IsNot">>, <<Call("b", <<>>)>>),
               a |-> One, b |-> Two]>>)>>,

    containers |-> <<Store(Both(Target("t"), List(<<Target("u"), Star(Target("v"))>>)),
                         List(<<One, [k |-> "Tuple", es |-> <<Two, Three, Num(4)>>]>>)),
        Use(<<NameOf("t"), NameOf("u"), List(<<Star(NameOf("v")), NameOf("t")>>),
              [k |-> "Set", es |-> <<One, One>>],
              [k |-> "Set", es |-> <<Star(NameOf("v")), One>>],
              [k |-> "Tuple", es |-> <<Star(NameOf("v")), One>>]>>),
        Let("m", [k |-> "Dict", es |-> <<[unpack |-> FALSE, key |-> One, v |-> Two]>>]),
        Use(<<[k |-> "Dict", es |-> <<[unpack |-> TRUE, v |-> NameOf("m")],
                                      [unpack |-> FALSE, key |-> One, v |-> Call("b", <<>>)]>>],
              Item(NameOf("m"), One)>>)>>,

    subscripts |-> <<Let("a", List(<<One, Two, Three>>)),
        Use(<<Item(NameOf("a"), Num(0 - 1)), Item(NameOf("a"), Call("b", <<>>)),
              Item(NameOf("a"), SliceFrom(<<One>>, <<>>)),
              Item(NameOf("a"), SliceFrom(<<Call("b", <<>>)>>, <<Num(0 - 1)>>)),
              Item(List(<<Call("b", <<>>), Two>>), SliceFrom(<<Num(0)>>, <<One>>))>>),
        Do(Item(NameOf("a"), Num(7)))>>,

    stores |-> <<Store([Item(NameOf("x"), Call("a", <<>>)) EXCEPT !.k = "Subscript"], One),
        Store(Attr(NameOf("x"), "y"), Two),
        Del(<<Item(NameOf("x"), One), Attr(NameOf("x"), "y")>>),
        Do(CallKw(Attr(Attr(NameOf("x"), "y"), "z"), <<Three>>, <<>>))>>,

    text |-> <<Use(<<[k |-> "JoinedStr", vs |->
                        <<[k |-> "FormattedValue", v |-> Call("a", <<>>), conv |-> ""], Str("s"),
                          [k |-> "FormattedValue", v |-> Call("b", <<>>), conv |-> "r"]>>]>>)>>,

    comprehensions |-> <<Use(<<Comp("ListComp", 1, "i", OneTwo,
                                    <<Cmp(NameOf("i"), <<"NotEq">>, <<Call("a", <<>>)>>)>>,
                                    <<Bin(NameOf("i"), "Add", One)>>),
                              Comp("SetComp", 2, "i", OneTwo, <<>>, <<Call("b", <<>>)>>),
                              Comp("DictComp", 3, "i", OneTwo, <<>>, <<NameOf("i"), Call("b", <<>>)>>)>>)>>,

    calls |-> <<
        [Function(1, "f", <<"x", "y">>, <<Use(<<NameOf("x"), NameOf("y"), NameOf("r"), NameOf("z"), NameOf("w")>>),
                                          ReturnOf(NameOf("y"))>>)
            EXCEPT !.kwonly = <<"z">>, !.vararg = <<"r">>, !.kwarg = <<"w">>,
                   !.defaults = << <<"int", 3>> >>, !.kwdefaults = << <<"z", <<"int", 4>>>> >>],
        Use(<<Call("f", <<One>>),
              CallKw(NameOf("f"), <<One, Two, Num(5)>>, <<Kw("z", Num(7)), Kw("v", Call("b", <<>>))>>)>>),
        Do(CallKw(NameOf("f"), <<Star(OneTwo)>>,
                  <<Kw("**", [k |-> "Dict", es |->
                        <<[unpack |-> FALSE, key |-> Str("z"), v |-> One]>>])>>)),
        Do(CallKw(NameOf("f"), <<>>, <<Kw("x", One), Kw("q", Call("b", <<>>))>>)),
        Do(Call("f", <<>>))>>,

    repeated |-> <<Do(CallKw(NameOf("q"), <<Star(OneTwo)>>,
        <<Kw("z", One), Kw("**", [k |-> "Dict", es |->
                        <<[unpack |-> FALSE, key |-> Str("z"), v |-> Call("a", <<>>)]>>])>>))>>,

    closures |-> <<Function(1, "f", <<"x">>,
          <<Let("n", Num(0)),
            Function(2, "g", <<>>, <<ReturnOf(Bin(NameOf("x"), "Add", NameOf("n")))>>),
            Let("n", Call("b", <<>>)),
            ReturnOf(NameOf("g"))>>),
        Let("h", Call("f", <<Two>>)), Use(<<Call("h", <<>>)>>),
        Let("h", [Function(3, "", <<"t">>, <<NameOf("t")>>) EXCEPT !.k = "Lambda"]),
        Function(4, "dec", <<"fn">>, <<Ask("c"), ReturnOf(NameOf("fn"))>>),
        [Function(5, "g", <<>>, <<ReturnOf(One)>>)
            EXCEPT !.decs = <<NameOf("dec"), NameOf("h"), NameOf("dec")>>]>>,

    globals |-> <<Let("n", One),
        Function(1, "f", <<>>, <<[k |-> "Global", names |-> <<"n">>], Aug("n", "Add", One),
                                 If(Call("a", <<>>), <<Let("m", One)>>, <<>>),
                                 ReturnOf(Bin(NameOf("n"), "Add", NameOf("m")))>>),
        Use(<<Call("f", <<>>), NameOf("n")>>), Do(NameOf("m"))>>,

    locals |-> <<Function(1, "f", <<"x">>,
          <<If(Call("a", <<>>), <<Let("y", One)>>, <<Let("z", Two)>>),
            Store(Both(Target("x"), Target("w")), Both(NameOf("x"), Call("b", <<>>))),
            Let("u", NameOf("x")), Use(<<NameOf("u"), NameOf("x")>>),
            Del(<<Target("w")>>),
            Use(<<NameOf("x"), NameOf("y")>>)>>),
        Do(Call("f", <<One>>))>>,

    loops |-> <<For("i", OneTwo, <<
            For("j", OneTwo, <<If(Cmp(NameOf("j"), <<"Eq">>, <<Call("a", <<>>)>>), <<Leaf("continue")>>,
                                  <<If(Cmp(Call("b", <<>>), <<"Eq">>, <<NameOf("j")>>),
                                       <<Leaf("break")>>, <<>>)>>)>>, <<Ask("c")>>)>>, <<>>),
        If(Cmp(NameOf("i"), <<"Is">>, <<[k |-> "Constant", v |-> <<"none">>]>>), <<Ask("p")>>, <<Ask("q")>>)>>,

    checks |-> <<[k |-> "Assert", t |-> Call("a", <<>>), msg |-> <<>>],
        [k |-> "Assert", t |-> Call("b", <<>>), msg |-> <<Call("c", <<>>)>>],
        Store(List(<<Target("u"), Star(Target("v")), Target("w")>>), List(<<One>>))>>]

(* A name of the program, and its tree.                                    *)
TreeOf(p) ==
    Module(IF p \in TryPrograms THEN InContext(p.context, TryOf(p)) ELSE Singles[p.single])

TryKnown == {p \in TryPrograms : Accepted(p)}
SinglePrograms == {[single |-> s] : s \in DOMAIN Singles}

ExecPrograms == {p \in TryKnown : ~SkipsFinally(p)} \cup SinglePrograms
GapPrograms ==
    {p \in TryKnown : p.final = "a" /\ p.orelse # "E"
                      /\ (p.inHandler \in Leaves \/ p.orelse \in Leaves)}

MCExternals == {"a", "b", "c", "d", "p", "q", "x"}
MCExcClasses == {"E", "F", "G", "Exception", "NameError", "TypeError", "AssertionError",
                 "UnboundLocalError", "RuntimeError", "ValueError", "IndexError", "KeyError"}
MCAnswers == {<<"int", 0>>, <<"int", 1>>}

AllPrograms == TryKnown \cup SinglePrograms
PycCompiled ==
    LET compiled == [p \in AllPrograms |-> Compiler!Compile(TreeOf(p))]
    IN  compiled
AnyAnswer == MCAnswers \cup {None} \cup {<<"ext", name>> : name \in {"x", "y", "z"}}
PythonRun ==
    LET run == [p \in AllPrograms |->
                   [answers \in Seq(AnyAnswer) |-> Source!Run(TreeOf(p), answers)]]
    IN  run
=============================================================================
