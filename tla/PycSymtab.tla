----------------------------- MODULE PycSymtab -----------------------------
(***************************************************************************)
(* The symbol table of the self-hosted compiler                            *)
(* (src/pycore_firmware/compiler/symtab.py): a walk over the tree that     *)
(* collects the locals, the uses and the `global' declarations of every    *)
(* function scope, then a resolution of the names a scope uses and does    *)
(* not bind.                                                               *)
(*                                                                         *)
(* A tree is a record whose field k is the ND kind.  An optional child is  *)
(* a sequence of length 0 or 1.  A node that opens a scope has a field id, *)
(* different for every such node of a tree; it stands for the node number  *)
(* by which the program finds the scope again.  The work stack of the code *)
(* pops in the order of a depth-first walk, which is written here as       *)
(* recursion.                                                              *)
(***************************************************************************)
EXTENDS Integers, Sequences, FiniteSets, SequencesExt, PycThread

FunctionKinds == {"FunctionDef", "Lambda"}
CompKinds == {"ListComp", "SetComp", "DictComp"}

(* A scope: kind 0 is the module or expression, 1 a function or a          *)
(* comprehension; nfree counts the free names appended to names.           *)
NewScope(kind, parent, node) ==
    [kind |-> kind, parent |-> parent, node |-> node, names |-> <<>>,
     nfree |-> 0, argc |-> 0, kwonly |-> 0, flags |-> 0,
     defaults |-> <<>>, kwdefaults |-> <<>>,
     gdecl |-> <<>>, uses |-> <<>>, free |-> <<>>]

NamesHas(xs, name) == \E i \in DOMAIN xs : xs[i] = name
NamesAdd(xs, name) == IF NamesHas(xs, name) THEN xs ELSE Append(xs, name)

(* The parameters in slot order: positional, keyword-only, *args, **kwargs.*)
ParamNames(n) == n.params \o n.kwonly \o n.vararg \o n.kwarg

-----------------------------------------------------------------------------
(* The children of a node in the order the walk reaches them.              *)

HandlerChildren(h) ==
    (IF h.name = "" THEN <<>>
     ELSE <<[k |-> "Name", name |-> h.name, ctx |-> "Store"]>>)
    \o h.typ \o h.body

OneChild(n) ==
    CASE n.k \in {"Expression", "Expr", "Attribute", "Starred",
                  "FormattedValue", "UnaryOp"} -> <<n.v>>
      [] n.k \in {"Return", "Raise"} -> n.v

ExpressionChildren(n) ==
    CASE n.k = "BinOp" -> <<n.l, n.r>>
      [] n.k \in {"BoolOp", "JoinedStr"} -> n.vs
      [] n.k = "Compare" -> <<n.l>> \o n.rs
      [] n.k = "Call" -> <<n.f>> \o n.args \o [i \in DOMAIN n.kws |-> n.kws[i].v]
      [] n.k = "Subscript" -> <<n.v, n.i>>
      [] n.k = "Slice" -> n.lo \o n.hi
      [] n.k = "IfExp" -> <<n.t, n.a, n.b>>
      [] n.k \in {"List", "Tuple", "Set"} -> n.es
      [] n.k = "Dict" ->
            FlattenSeq([i \in DOMAIN n.es |->
                IF n.es[i].unpack THEN <<n.es[i].v>> ELSE <<n.es[i].key, n.es[i].v>>])

StatementChildren(n) ==
    CASE n.k = "Module" -> n.body
      [] n.k = "Assign" -> n.targets \o <<n.v>>
      [] n.k \in {"If", "While"} -> <<n.t>> \o n.body \o n.orelse
      [] n.k = "For" -> <<n.target, n.iter>> \o n.body \o n.orelse
      [] n.k = "AugAssign" -> <<n.target, n.v>>
      [] n.k = "Delete" -> n.targets
      [] n.k = "Assert" -> <<n.t>> \o n.msg
      [] n.k = "Try" -> n.body \o n.handlers \o n.orelse \o n.final
      [] n.k = "ExceptHandler" -> HandlerChildren(n)

PushChildren(n) ==
    IF n.k \in {"Constant", "Pass", "Break", "Continue"} THEN <<>>
    ELSE IF n.k \in {"Expression", "Expr", "Attribute", "Starred",
                     "FormattedValue", "UnaryOp", "Return", "Raise"}
         THEN OneChild(n)
    ELSE IF n.k \in {"BinOp", "BoolOp", "JoinedStr", "Compare", "Call", "Subscript",
                     "Slice", "IfExp", "List", "Tuple", "Set", "Dict"}
         THEN ExpressionChildren(n)
    ELSE StatementChildren(n)

-----------------------------------------------------------------------------
(* The walk.  st.scopes is the table (the code numbers it from 0; scope i  *)
(* of the code is scopes[i + 1]), st.cur the open scope, st.err the first  *)
(* SyntaxError.                                                            *)

RECURSIVE Walk(_, _)
WalkAll(st, ns) == Thread(LAMBDA acc, n : Walk(acc, n), st, ns)

Fail(st, what) == IF st.err = "" THEN [st EXCEPT !.err = what] ELSE st

AddLocal(st, name) ==
    IF st.scopes[st.cur].kind = 1
    THEN [st EXCEPT !.scopes[st.cur].names = NamesAdd(@, name)]
    ELSE st

WalkName(st, n) ==
    IF n.ctx \in {"Store", "Del"}
    THEN IF NamesHas(st.scopes[st.cur].gdecl, n.name) THEN st ELSE AddLocal(st, n.name)
    ELSE [st EXCEPT !.scopes[st.cur].uses = NamesAdd(@, n.name)]

WalkGlobal(st, n) ==
    LET Declare(acc, name) ==
          LET c == acc.scopes[acc.cur]
              checked == IF NamesHas(c.names, name) \/ NamesHas(c.uses, name)
                         THEN Fail(acc, "declared global after use") ELSE acc
          IN  [checked EXCEPT !.scopes[acc.cur].gdecl = NamesAdd(@, name)]
    IN  Thread(Declare, st, n.names)

(* Open a scope, walk its nodes, close it again.                           *)
InScope(st, scope, nodes) ==
    LET sid == Len(st.scopes) + 1
        inner == WalkAll([st EXCEPT !.scopes = Append(@, scope), !.cur = sid], nodes)
        closed == IF Len(inner.scopes[sid].names) > 240
                  THEN Fail(inner, "too many locals") ELSE inner
    IN  [closed EXCEPT !.cur = st.cur]

WalkFunction(st, n) ==
    LET named == IF n.k = "FunctionDef" THEN AddLocal(st, n.name) ELSE st
        decorated == WalkAll(named, n.decs)
        scope == [NewScope(1, st.cur, n.id) EXCEPT
                     !.argc = Len(n.params), !.kwonly = Len(n.kwonly),
                     !.flags = Len(n.vararg) + 2 * Len(n.kwarg),
                     !.defaults = n.defaults, !.kwdefaults = n.kwdefaults,
                     !.names = Thread(NamesAdd, <<>>, ParamNames(n))]
    IN  InScope(decorated, scope, n.body)

WalkComp(st, n) ==
    LET scope == [NewScope(1, st.cur, n.id) EXCEPT !.argc = 1, !.names = <<".0">>]
        inner == InScope(st, scope, <<n.target>> \o n.cond \o n.elts)
    IN  Walk(inner, n.iter)

Walk(st, n) ==
    IF n.k \in CompKinds THEN WalkComp(st, n)
    ELSE IF n.k \in FunctionKinds THEN WalkFunction(st, n)
    ELSE IF n.k = "Name" THEN WalkName(st, n)
    ELSE IF n.k = "Global" THEN WalkGlobal(st, n)
    ELSE WalkAll(st, PushChildren(n))

-----------------------------------------------------------------------------
(* Resolution: a name used and neither bound nor declared global is free   *)
(* when an enclosing function binds it, and every function in between that *)
(* does not bind it or declare it global passes it on.                     *)

RECURSIVE Ancestors(_, _)
Ancestors(scopes, s) ==
    IF scopes[s].parent = 0 THEN <<>>
    ELSE <<scopes[s].parent>> \o Ancestors(scopes, scopes[s].parent)

Owns(scope, name) ==
    scope.kind = 1 /\ NamesHas(scope.names, name) /\ ~NamesHas(scope.gdecl, name)

PassesOn(scope, name) ==
    scope.kind = 1 /\ ~NamesHas(scope.names, name) /\ ~NamesHas(scope.gdecl, name)

ResolveUse(scopes, s, name) ==
    LET up == Ancestors(scopes, s)
        definers == {j \in DOMAIN up : Owns(scopes[up[j]], name)}
    IN  IF \/ NamesHas(scopes[s].names, name)
           \/ NamesHas(scopes[s].gdecl, name)
           \/ definers = {}
        THEN scopes
        ELSE LET d == CHOOSE j \in definers : \A i \in definers : j <= i
                 between == {up[i] : i \in 1..(d - 1)}
             IN  [i \in DOMAIN scopes |->
                    IF i = s \/ (i \in between /\ PassesOn(scopes[i], name))
                    THEN [scopes[i] EXCEPT !.free = NamesAdd(@, name)]
                    ELSE scopes[i]]

ResolveScope(scopes, s) ==
    IF scopes[s].kind # 1 THEN scopes
    ELSE Thread(LAMBDA acc, name : ResolveUse(acc, s, name), scopes, scopes[s].uses)

AppendFree(scope) ==
    IF scope.kind # 1 THEN scope
    ELSE [scope EXCEPT !.names = Thread(NamesAdd, @, scope.free),
                       !.nfree = Len(scope.free)]

Symtab(root) ==
    LET start == [scopes |-> <<NewScope(0, 0, 0)>>, cur |-> 1, err |-> ""]
        walked == Walk(start, root)
        resolved == Thread(LAMBDA acc, s : ResolveScope(acc, s),
                             walked.scopes, [i \in 1..Len(walked.scopes) |-> i])
        final == [i \in DOMAIN resolved |-> AppendFree(resolved[i])]
        tooMany == \E i \in DOMAIN final : Len(final[i].names) > 240
    IN  [scopes |-> final,
         err |-> IF walked.err = "" /\ tooMany THEN "too many locals" ELSE walked.err]
=============================================================================
