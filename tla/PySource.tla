------------------------------ MODULE PySource ------------------------------
(***************************************************************************)
(* What a program means: a reference semantics of the subset of Python the *)
(* compiler accepts, over the trees of PycSymtab, with nothing of the      *)
(* compiler in it.  Given the answers of a run it tells which events the   *)
(* program makes with them, and how it then ends.                          *)
(*                                                                         *)
(* A state s of the evaluation:                                            *)
(*   left  the answers not yet given;   events  the events made so far     *)
(*   glob  the globals dict;   envs  the function scopes entered so far    *)
(*   exn   the exceptions being handled, innermost last                    *)
(*   born  exceptions made so far                                          *)
(*   k, v  how the last piece of program completed: ok, break, continue,   *)
(*         return, raise, or cut (no answer is left) or differ (the next   *)
(*         is no answer to this event); and the value that goes with it    *)
(***************************************************************************)
EXTENDS PyValues

CONSTANTS Externals, ExcClasses, Answers

Done(s, k, v) == [s EXCEPT !.k = k, !.v = v]
Value(s, v) == Done(s, "ok", v)
RaiseNew(s, class) ==
    [s EXCEPT !.k = "raise", !.v = <<"exc", class, s.born>>, !.born = @ + 1]

(* A call is answered by any member of Answers, reading an attribute of an *)
(* external thing gives another, and nothing comes of a store.             *)
AnswersTo(event) ==
    CASE event[1] = "call" -> Answers
      [] event[1] = "getattr" -> {<<"ext", event[3]>>}
      [] OTHER -> {None}

Ask(s, event) ==
    IF s.left = <<>> THEN Done(s, "cut", None)
    ELSE IF Head(s.left) \notin AnswersTo(event) THEN Done(s, "differ", None)
    ELSE [s EXCEPT !.k = "ok", !.v = Head(s.left), !.left = Tail(@), !.events = Append(@, event)]

-----------------------------------------------------------------------------
(* Names.  A function binds its parameters and every name a statement of   *)
(* its own body assigns, unless it declares it global.                     *)

RECURSIVE TargetNames(_)
TargetNames(t) ==
    CASE t.k = "Name" -> {t.name}
      [] t.k \in {"List", "Tuple"} -> UNION {TargetNames(t.es[i]) : i \in DOMAIN t.es}
      [] t.k = "Starred" -> TargetNames(t.v)
      [] OTHER -> {}

Blocks(n) ==
    CASE n.k \in {"If", "While", "For"} -> n.body \o n.orelse
      [] n.k = "Try" -> n.body \o n.handlers \o n.orelse \o n.final
      [] n.k = "ExceptHandler" -> n.body
      [] OTHER -> <<>>

Targets(n) ==
    CASE n.k \in {"Assign", "Delete"} -> ToSet([i \in DOMAIN n.targets |-> TargetNames(n.targets[i])])
      [] n.k \in {"AugAssign", "For"} -> {TargetNames(n.target)}
      [] n.k = "ExceptHandler" -> {{n.name} \ {""}}
      [] n.k = "FunctionDef" -> {{n.name}}
      [] OTHER -> {}

RECURSIVE Assigned(_), Declared(_)
Assigned(ns) == UNION {UNION Targets(ns[i]) \cup Assigned(Blocks(ns[i])) : i \in DOMAIN ns}
Declared(ns) ==
    UNION {(IF ns[i].k = "Global" THEN ToSet(ns[i].names) ELSE {}) \cup Declared(Blocks(ns[i]))
           : i \in DOMAIN ns}

Params(n) == n.params \o n.kwonly \o n.vararg \o n.kwarg

(* Environment 0 is the module's.                                          *)
FunctionEnv(n, parent, vals) ==
    LET declared == IF n.k = "Lambda" THEN {} ELSE Declared(n.body)
        assigned == IF n.k = "Lambda" THEN {} ELSE Assigned(n.body)
    IN  [parent |-> parent, globs |-> declared, vals |-> vals,
         locs |-> (ToSet(Params(n)) \cup assigned) \ declared]

RECURSIVE Home(_, _, _)
Home(s, e, name) ==
    IF e = 0 \/ name \in s.envs[e].globs THEN 0
    ELSE IF name \in s.envs[e].locs THEN e
    ELSE Home(s, s.envs[e].parent, name)

With(f, x, v) == [y \in DOMAIN f \cup {x} |-> IF y = x THEN v ELSE f[y]]
Without(f, x) == [y \in DOMAIN f \ {x} |-> f[y]]

Get(s, e, name) ==
    LET home == Home(s, e, name)
    IN  CASE home # 0 -> IF name \in DOMAIN s.envs[home].vals
                         THEN Value(s, s.envs[home].vals[name])
                         ELSE RaiseNew(s, "UnboundLocalError")
          [] home = 0 /\ name \in DOMAIN s.glob -> Value(s, s.glob[name])
          [] home = 0 /\ name \notin DOMAIN s.glob ->
                IF name \in Externals THEN Value(s, <<"ext", name>>)
                ELSE IF name \in ExcClasses THEN Value(s, <<"class", name>>)
                ELSE RaiseNew(s, "NameError")

Set(s, e, name, v) ==
    LET home == Home(s, e, name)
    IN  IF home = 0 THEN [s EXCEPT !.glob = With(@, name, v)]
        ELSE [s EXCEPT !.envs[home].vals = With(@, name, v)]

Unset(s, e, name) ==
    LET home == Home(s, e, name)
    IN  IF home = 0 THEN [s EXCEPT !.glob = Without(@, name)]
        ELSE [s EXCEPT !.envs[home].vals = Without(@, name)]

-----------------------------------------------------------------------------
(* Expressions, left to right.                                             *)

RECURSIVE Eval(_, _, _), Exec(_, _, _)

(* The values of a sequence of expressions, in s.v.                        *)
EvalAll(s, ns, e) ==
    LET One(acc, n) ==
          LET r == Eval(acc, n, e)
          IN  IF r.k = "ok" THEN [r EXCEPT !.v = Append(acc.vs, r.v), !.vs = Append(acc.vs, r.v)]
              ELSE r
        all == Thread(One, [s EXCEPT !.vs = <<>>], ns)
    IN  IF all.k = "ok" THEN [all EXCEPT !.v = all.vs, !.vs = s.vs] ELSE all

ExecAll(s, ns, e) == Thread(LAMBDA acc, n : Exec(acc, n, e), s, ns)

(* Go on only after a normal completion.                                   *)
Arith(s, op, l, r) ==
    CASE op = "Add" -> Value(s, IntV(Number(l) + Number(r)))
      [] op = "Sub" -> Value(s, IntV(Number(l) - Number(r)))
      [] op = "Mult" -> Value(s, IntV(Number(l) * Number(r)))

Relates(op, l, r) ==
    CASE op = "Lt" -> Number(l) < Number(r) [] op = "LtE" -> Number(l) <= Number(r)
      [] op = "Gt" -> Number(l) > Number(r) [] op = "GtE" -> Number(l) >= Number(r)
      [] op = "Eq" -> Number(l) = Number(r) [] op = "NotEq" -> Number(l) # Number(r)
      [] op = "Is" -> l = r [] op = "IsNot" -> l # r
      [] op = "In" -> Contains(Items(r), l) [] op = "NotIn" -> ~Contains(Items(r), l)

RECURSIVE EvalBool(_, _, _, _), EvalCompare(_, _, _, _, _)
EvalBool(s, n, e, i) ==
    LET r == Eval(s, n.vs[i], e)
    IN  IF r.k # "ok" \/ i = Len(n.vs) \/ Truth(r.v) = (n.op = "Or") THEN r
        ELSE EvalBool(r, n, e, i + 1)

EvalCompare(s, n, e, i, left) ==
    LET r == Eval(s, n.rs[i], e)
        holds == Relates(n.ops[i], left, r.v)
    IN  IF r.k # "ok" THEN r
        ELSE IF i = Len(n.ops) \/ ~holds THEN Value(r, BoolV(holds))
        ELSE EvalCompare(r, n, e, i + 1, r.v)

(* seq[i]: i counts from the end when it is negative.                      *)
Item(s, v, i) ==
    IF v[1] = "dict"
    THEN IF HasKey(v[2], i) THEN Value(s, v[2][KeyAt(v[2], i)][2]) ELSE RaiseNew(s, "KeyError")
    ELSE IF InRange(v, Number(i)) THEN Value(s, Element(v, Number(i)))
    ELSE RaiseNew(s, "IndexError")

EvalBound(s, b, e) == IF b = <<>> THEN Value(s, None) ELSE Eval(s, b[1], e)

EvalSubscript(s, n, e) ==
    LET v == Eval(s, n.v, e)
        lo == EvalBound(v, n.i.lo, e)
        hi == EvalBound(lo, n.i.hi, e)
        i == Eval(v, n.i, e)
    IN  IF v.k # "ok" THEN v
        ELSE IF n.i.k = "Slice"
        THEN CASE lo.k # "ok" -> lo
               [] lo.k = "ok" /\ hi.k # "ok" -> hi
               [] OTHER -> Value(hi, SliceOf(v.v, lo.v, hi.v))
        ELSE IF i.k # "ok" THEN i ELSE Item(i, v.v, i.v)

(* A starred element contributes all it iterates over.                     *)
Elements(s, es, e) ==
    LET One(acc, x) ==
          LET r == Eval(acc, IF x.k = "Starred" THEN x.v ELSE x, e)
              more == IF x.k = "Starred" THEN Items(r.v) ELSE <<r.v>>
          IN  IF r.k = "ok" THEN [r EXCEPT !.vs = acc.vs \o more] ELSE r
        all == Thread(One, [s EXCEPT !.vs = <<>>], es)
    IN  IF all.k = "ok" THEN [all EXCEPT !.v = all.vs, !.vs = s.vs] ELSE all

Container(kind, xs) ==
    CASE kind \in {"List", "ListComp"} -> <<"list", xs>> [] kind = "Tuple" -> <<"tuple", xs>>
      [] kind \in {"Set", "SetComp"} -> <<"set", Thread(SetAdd, <<>>, xs)>>

MergeMap(m, pairs) == Thread(LAMBDA acc, p : MapPut(acc, p[1], p[2]), m, pairs)

EvalDict(s, n, e) ==
    LET One(acc, x) ==
          LET key == IF x.unpack THEN acc ELSE Eval(acc, x.key, e)
              r == Eval(key, x.v, e)
          IN  IF r.k # "ok" THEN r
              ELSE IF x.unpack THEN [r EXCEPT !.vs = MergeMap(acc.vs, r.v[2])]
              ELSE [r EXCEPT !.vs = MapPut(acc.vs, key.v, r.v)]
        all == Thread(One, [s EXCEPT !.vs = <<>>], n.es)
    IN  IF all.k = "ok" THEN [all EXCEPT !.v = <<"dict", all.vs>>, !.vs = s.vs] ELSE all

(* The keyword arguments as <<name, value>> pairs; a repeated one raises.  *)
EvalKws(s, kws, e) ==
    LET One(acc, x) ==
          LET r == Eval(acc, x.v, e)
              more == IF x.name = "**"
                      THEN [i \in DOMAIN r.v[2] |-> <<r.v[2][i][1][2], r.v[2][i][2]>>]
                      ELSE << <<x.name, r.v>> >>
          IN  IF r.k # "ok" THEN r
              ELSE IF \E i \in DOMAIN more : HasKey(acc.vs, more[i][1])
              THEN RaiseNew(r, "TypeError")
              ELSE [r EXCEPT !.vs = acc.vs \o more]
        all == Thread(One, [s EXCEPT !.vs = <<>>], kws)
    IN  IF all.k = "ok" THEN [all EXCEPT !.v = all.vs, !.vs = s.vs] ELSE all

-----------------------------------------------------------------------------
(* Calls.                                                                  *)

(* The parameters a call binds, as a function from their names; Unbound    *)
(* for one nothing gives a value.                                          *)
Binding(n, args, kws) ==
    LET posn == Len(n.params)
        named == n.params \o n.kwonly
        defaulted == Len(n.defaults)
        FromDefault(i) ==
            CASE i <= posn /\ i > posn - defaulted -> n.defaults[i - (posn - defaulted)]
              [] i > posn /\ HasKey(n.kwdefaults, named[i]) ->
                    n.kwdefaults[KeyAt(n.kwdefaults, named[i])][2]
              [] OTHER -> Unbound
        Of(name) ==
            LET i == CHOOSE j \in DOMAIN named : named[j] = name
            IN  IF i <= posn /\ i <= Len(args) THEN args[i]
                ELSE IF HasKey(kws, name) THEN kws[KeyAt(kws, name)][2]
                ELSE FromDefault(i)
        rest == SelectSeq(kws, LAMBDA p : ~Contains(named, p[1]))
    IN  [name \in ToSet(Params(n)) |->
            CASE Contains(named, name) -> Of(name)
              [] Contains(n.vararg, name) -> <<"tuple", SubSeq(args, posn + 1, Len(args))>>
              [] Contains(n.kwarg, name) ->
                    <<"dict", [i \in DOMAIN rest |-> << <<"str", rest[i][1]>>, rest[i][2] >>]>>]

Fits(n, args, kws) ==
    LET posn == Len(n.params)
    IN  /\ n.vararg = <<>> => Len(args) <= posn
        /\ n.kwarg = <<>> => \A i \in DOMAIN kws : Contains(n.params \o n.kwonly, kws[i][1])
        /\ \A i \in 1..posn, j \in DOMAIN kws : i <= Len(args) => n.params[i] # kws[j][1]
        /\ Unbound \notin {Binding(n, args, kws)[p] : p \in ToSet(n.params \o n.kwonly)}

Enter(s, env) == [s EXCEPT !.envs = Append(@, env)]

CallFunction(s, n, parent, args, kws) ==
    LET entered == Enter(s, FunctionEnv(n, parent, Binding(n, args, kws)))
        e == Len(entered.envs)
        done == IF n.k = "Lambda" THEN Eval(entered, n.body[1], e)
                ELSE ExecAll(entered, n.body, e)
    IN  IF ~Fits(n, args, kws) THEN RaiseNew(s, "TypeError")
        ELSE CASE done.k = "return" -> Value(done, done.v)
               [] done.k = "ok" /\ n.k = "FunctionDef" -> Value(done, None)
               [] OTHER -> done

Apply(s, f, args, kws) ==
    CASE f[1] = "ext" -> Ask(s, <<"call", f[2], args, kws>>)
      [] f[1] = "class" -> [Value(s, <<"exc", f[2], s.born>>) EXCEPT !.born = @ + 1]
      [] f[1] = "fn" -> CallFunction(s, f[2], f[3], args, kws)

EvalCall(s, n, e) ==
    LET f == Eval(s, n.f, e)
        args == Elements(f, n.args, e)
        kws == EvalKws(args, n.kws, e)
    IN  IF f.k # "ok" THEN f ELSE IF args.k # "ok" THEN args ELSE IF kws.k # "ok" THEN kws
        ELSE Apply(kws, f.v, args.v, kws.v)

-----------------------------------------------------------------------------
(* Assignment.                                                             *)

StarAt(es) == CHOOSE i \in DOMAIN es : es[i].k = "Starred"

RECURSIVE Assign(_, _, _, _)
AssignAll(s, ts, vs, e) ==
    Thread(LAMBDA acc, i : Assign(acc, ts[i], vs[i], e), s, [i \in DOMAIN ts |-> i])

Spread(es, items) ==
    IF \E i \in DOMAIN es : es[i].k = "Starred"
    THEN LET before == StarAt(es) - 1
             after == Len(es) - StarAt(es)
             n == Len(items)
         IN  SubSeq(items, 1, before)
             \o << <<"list", SubSeq(items, before + 1, n - after)>> >>
             \o SubSeq(items, n - after + 1, n)
    ELSE items

Enough(es, items) ==
    IF \E i \in DOMAIN es : es[i].k = "Starred" THEN Len(items) >= Len(es) - 1
    ELSE Len(items) = Len(es)

Assign(s, t, v, e) ==
    LET obj == Eval(s, t.v, e)
        idx == Eval(obj, t.i, e)
    IN  IF s.k # "ok" THEN s
        ELSE CASE t.k = "Name" -> Set(s, e, t.name, v)
               [] t.k = "Starred" -> Assign(s, t.v, v, e)
               [] t.k \in {"List", "Tuple"} ->
                     IF Enough(t.es, Items(v)) THEN AssignAll(s, t.es, Spread(t.es, Items(v)), e)
                     ELSE RaiseNew(s, "ValueError")
               [] t.k = "Attribute" ->
                     IF obj.k # "ok" THEN obj ELSE Ask(obj, <<"setattr", obj.v, t.name, v>>)
               [] t.k = "Subscript" ->
                     IF obj.k # "ok" THEN obj ELSE IF idx.k # "ok" THEN idx
                     ELSE Ask(idx, <<"setitem", obj.v, idx.v, v>>)

DeleteTarget(s, t, e) ==
    LET obj == Eval(s, t.v, e)
        idx == Eval(obj, t.i, e)
    IN  IF s.k # "ok" THEN s
        ELSE CASE t.k = "Name" -> IF Get(s, e, t.name).k = "ok" THEN Unset(s, e, t.name)
                                  ELSE Get(s, e, t.name)
               [] t.k = "Attribute" ->
                     IF obj.k # "ok" THEN obj ELSE Ask(obj, <<"delattr", obj.v, t.name>>)
               [] t.k = "Subscript" ->
                     IF obj.k # "ok" THEN obj ELSE IF idx.k # "ok" THEN idx
                     ELSE Ask(idx, <<"delitem", obj.v, idx.v>>)

-----------------------------------------------------------------------------
(* Comprehensions: a scope of their own, the iterable evaluated outside.   *)

RECURSIVE Collect(_, _, _, _)
Collect(s, n, e, items) ==
    LET bound == Assign(s, n.target, items[1], e)
        keep == EvalAll(bound, n.cond, e)
        elts == EvalAll(keep, n.elts, e)
        \* one value, or a key and a value
        add == IF n.k = "DictComp" THEN MapPut(s.vs, elts.v[1], elts.v[2])
               ELSE Append(s.vs, elts.v[1])
    IN  IF items = <<>> THEN s
        ELSE IF keep.k # "ok" THEN keep
        ELSE IF n.cond # <<>> /\ ~Truth(keep.v[1]) THEN Collect(keep, n, e, Tail(items))
        ELSE IF elts.k # "ok" THEN elts
        ELSE Collect([elts EXCEPT !.vs = add], n, e, Tail(items))

EvalComp(s, n, e) ==
    LET iter == Eval(s, n.iter, e)
        entered == Enter(iter, [parent |-> e, globs |-> {}, locs |-> TargetNames(n.target),
                                vals |-> <<>>])
        all == Collect([entered EXCEPT !.vs = <<>>], n, Len(entered.envs), Items(iter.v))
    IN  IF iter.k # "ok" THEN iter
        ELSE IF all.k # "ok" THEN all
        ELSE [Value(all, IF n.k = "DictComp" THEN <<"dict", all.vs>> ELSE Container(n.k, all.vs))
                EXCEPT !.vs = s.vs]

-----------------------------------------------------------------------------
EvalUnary(s, n, e) ==
    LET r == Eval(s, n.v, e)
    IN  IF r.k # "ok" THEN r
        ELSE Value(r, CASE n.op = "Not" -> BoolV(~Truth(r.v))
                        [] n.op = "USub" -> IntV(0 - Number(r.v))
                        [] n.op = "UAdd" -> IntV(Number(r.v))
                        [] n.op = "Invert" -> IntV(0 - Number(r.v) - 1))

EvalFormat(s, n, e) ==
    LET r == Eval(s, n.v, e)
        arg == CASE n.conv = "s" -> 1 [] n.conv = "r" -> 2 [] n.conv = "a" -> 3 [] OTHER -> 0
    IN  IF r.k # "ok" THEN r
        ELSE Value(r, <<"text", IF arg = 0 THEN r.v ELSE <<"converted", arg, r.v>>>>)

EvalJoined(s, n, e) ==
    LET r == EvalAll(s, n.vs, e)
    IN  IF r.k # "ok" THEN r
        ELSE Value(r, CASE r.v = <<>> -> <<"str", "">> [] Len(r.v) = 1 -> r.v[1]
                        [] OTHER -> <<"joined", r.v>>)

EvalIf(s, n, e) ==
    LET t == Eval(s, n.t, e)
    IN  IF t.k # "ok" THEN t ELSE IF Truth(t.v) THEN Eval(t, n.a, e) ELSE Eval(t, n.b, e)

EvalBin(s, n, e) ==
    LET l == Eval(s, n.l, e)
        r == Eval(l, n.r, e)
    IN  IF l.k # "ok" THEN l ELSE IF r.k # "ok" THEN r ELSE Arith(r, n.op, l.v, r.v)

EvalDisplay(s, n, e) ==
    LET r == Elements(s, n.es, e) IN IF r.k # "ok" THEN r ELSE Value(r, Container(n.k, r.v))

EvalAttribute(s, n, e) ==
    LET r == Eval(s, n.v, e) IN IF r.k # "ok" THEN r ELSE Ask(r, <<"getattr", r.v, n.name>>)

Eval(s, n, e) ==
    IF s.k # "ok" THEN s
    ELSE CASE n.k = "Constant" -> Value(s, n.v)
           [] n.k = "Name" -> Get(s, e, n.name)
           [] n.k = "BinOp" -> EvalBin(s, n, e)
           [] n.k = "UnaryOp" -> EvalUnary(s, n, e)
           [] n.k = "BoolOp" -> EvalBool(s, n, e, 1)
           [] n.k = "Compare" -> LET l == Eval(s, n.l, e)
                                 IN  IF l.k # "ok" THEN l ELSE EvalCompare(l, n, e, 1, l.v)
           [] n.k = "IfExp" -> EvalIf(s, n, e)
           [] n.k = "Call" -> EvalCall(s, n, e)
           [] n.k = "Attribute" -> EvalAttribute(s, n, e)
           [] n.k = "Subscript" -> EvalSubscript(s, n, e)
           [] n.k \in {"List", "Tuple", "Set"} -> EvalDisplay(s, n, e)
           [] n.k = "Dict" -> EvalDict(s, n, e)
           [] n.k \in {"ListComp", "SetComp", "DictComp"} -> EvalComp(s, n, e)
           [] n.k = "Lambda" -> Value(s, <<"fn", n, e>>)
           [] n.k = "JoinedStr" -> EvalJoined(s, n, e)
           [] n.k = "FormattedValue" -> EvalFormat(s, n, e)

-----------------------------------------------------------------------------
(* Statements.                                                             *)

Normal(s) == [s EXCEPT !.k = "ok", !.v = None]

RECURSIVE Loop(_, _, _), ForEach(_, _, _, _)
AfterBody(b) == IF b.k \in {"ok", "continue"} THEN Normal(b) ELSE b

Loop(s, n, e) ==
    LET t == Eval(s, n.t, e)
        b == AfterBody(ExecAll(t, n.body, e))
    IN  IF t.k # "ok" THEN t
        ELSE IF ~Truth(t.v) THEN ExecAll(t, n.orelse, e)
        ELSE CASE b.k = "ok" -> Loop(b, n, e)
               [] b.k = "break" -> Normal(b)
               [] OTHER -> b

ForEach(s, n, e, items) ==
    LET b == AfterBody(ExecAll(Assign(s, n.target, items[1], e), n.body, e))
    IN  IF items = <<>> THEN ExecAll(s, n.orelse, e)
        ELSE CASE b.k = "ok" -> ForEach(b, n, e, Tail(items))
               [] b.k = "break" -> Normal(b)
               [] OTHER -> b

(* The handlers in order; the first whose class matches runs, with the     *)
(* exception handled and its name bound until the handler is left.  At     *)
(* module level the name is None afterwards, in a function it is unbound.  *)
Handle(s, h, exc, e) ==
    LET bound == [Normal(s) EXCEPT !.exn = Append(@, exc)]
        named == IF h.name = "" THEN bound ELSE Set(bound, e, h.name, exc)
        body == [ExecAll(named, h.body, e) EXCEPT !.exn = s.exn]
    IN  IF h.name = "" THEN body
        ELSE IF Home(s, e, h.name) = 0 THEN Set(body, e, h.name, None)
        ELSE Unset(body, e, h.name)

RECURSIVE Handlers(_, _, _, _)
Handlers(s, hs, exc, e) ==
    IF hs = <<>> THEN Done(s, "raise", exc)
    ELSE IF hs[1].typ = <<>> THEN Handle(s, hs[1], exc, e)
    ELSE LET typ == Eval(Normal(s), hs[1].typ[1], e)
         IN  IF typ.k # "ok" THEN typ
             ELSE IF Matches(exc, typ.v) THEN Handle(typ, hs[1], exc, e)
             ELSE Handlers(typ, Tail(hs), exc, e)

(* While a handler's class is looked up the exception is already handled.  *)
ExecTry(s, n, e) ==
    LET tried == ExecAll(s, n.body, e)
        handled == CASE tried.k = "raise" -> Handlers(tried, n.handlers, tried.v, e)
                     [] tried.k = "ok" -> ExecAll(tried, n.orelse, e)
                     [] OTHER -> tried
        entered == IF handled.k = "raise"
                   THEN [Normal(handled) EXCEPT !.exn = Append(@, handled.v)]
                   ELSE Normal(handled)
        final == [ExecAll(entered, n.final, e) EXCEPT !.exn = handled.exn]
    IN  IF n.final = <<>> \/ handled.k \in {"cut", "differ"} THEN handled
        ELSE IF final.k = "ok" THEN Done(final, handled.k, handled.v)
        ELSE final

ExecRaise(s, n, e) ==
    LET r == Eval(s, n.v[1], e)
    IN  IF n.v = <<>>
        THEN IF s.exn = <<>> THEN RaiseNew(s, "RuntimeError") ELSE Done(s, "raise", Last(s.exn))
        ELSE IF r.k # "ok" THEN r
        ELSE IF r.v[1] = "class" THEN RaiseNew(r, r.v[2])
        ELSE Done(r, "raise", r.v)

ExecAssert(s, n, e) ==
    LET t == Eval(s, n.t, e)
        msg == EvalAll(t, n.msg, e)
    IN  IF t.k # "ok" \/ Truth(t.v) THEN t
        ELSE IF msg.k # "ok" THEN msg ELSE RaiseNew(msg, "AssertionError")

ExecAug(s, n, e) ==
    LET l == Eval(s, n.target, e)
        r == Eval(l, n.v, e)
    IN  IF l.k # "ok" THEN l ELSE IF r.k # "ok" THEN r
        ELSE LET res == Arith(r, n.op, l.v, r.v) IN Assign(res, n.target, res.v, e)

(* Decorators are evaluated first and applied last to first.               *)
ExecDef(s, n, e) ==
    LET decs == EvalAll(s, n.decs, e)
        Dec(acc, i) == IF acc.k # "ok" THEN acc
                       ELSE Apply(acc, decs.v[Len(n.decs) + 1 - i], <<acc.v>>, <<>>)
        made == Thread(Dec, Value(decs, <<"fn", n, e>>), [i \in DOMAIN n.decs |-> i])
    IN  IF decs.k # "ok" THEN decs ELSE IF made.k # "ok" THEN made
        ELSE Set(made, e, n.name, made.v)

ExecBlock(s, n, e) ==
    CASE n.k = "If" -> LET t == Eval(s, n.t, e)
                       IN  IF t.k # "ok" THEN t
                           ELSE ExecAll(t, IF Truth(t.v) THEN n.body ELSE n.orelse, e)
      [] n.k = "While" -> Loop(s, n, e)
      [] n.k = "For" -> LET r == Eval(s, n.iter, e)
                        IN  IF r.k # "ok" THEN r ELSE ForEach(r, n, e, Items(r.v))
      [] n.k = "Try" -> ExecTry(s, n, e)
      [] n.k = "FunctionDef" -> ExecDef(s, n, e)

Exec(s, n, e) ==
    IF s.k # "ok" THEN s
    ELSE CASE n.k = "Expr" -> Eval(s, n.v, e)
           [] n.k = "Assign" ->
                 LET r == Eval(s, n.v, e)
                 IN  Thread(LAMBDA acc, t : Assign(acc, t, r.v, e), r, n.targets)
           [] n.k = "AugAssign" -> ExecAug(s, n, e)
           [] n.k = "Delete" -> Thread(LAMBDA acc, t : DeleteTarget(acc, t, e), s, n.targets)
           [] n.k = "Return" ->
                 LET r == IF n.v = <<>> THEN Value(s, None) ELSE Eval(s, n.v[1], e)
                 IN  IF r.k = "ok" THEN Done(r, "return", r.v) ELSE r
           [] n.k = "Break" -> Done(s, "break", None)
           [] n.k = "Continue" -> Done(s, "continue", None)
           [] n.k = "Raise" -> ExecRaise(s, n, e)
           [] n.k = "Assert" -> ExecAssert(s, n, e)
           [] n.k \in {"Pass", "Global"} -> s
           [] OTHER -> ExecBlock(s, n, e)

-----------------------------------------------------------------------------
(* A whole program with the answers it gets: how it ends, the events it    *)
(* made, and whether all the answers were used.                            *)
Run(tree, answers) ==
    LET s == [left |-> answers, events |-> <<>>, glob |-> <<>>, envs |-> <<>>, exn |-> <<>>,
              born |-> 0, k |-> "ok", v |-> None, vs |-> <<>>]
        done == ExecAll(s, tree.body, 0)
    IN  [how |-> CASE done.k = "ok" -> <<"returned", None>>
                   [] done.k = "raise" -> <<"raised", done.v[2]>>
                   [] OTHER -> <<done.k>>,
         events |-> done.events,
         complete |-> done.left = <<>>]
=============================================================================
