---------------------------- MODULE PycCodegen -----------------------------
(***************************************************************************)
(* The code generator of the self-hosted compiler                          *)
(* (src/pycore_firmware/compiler/codegen.py): a recursive visit of the     *)
(* tree that appends instructions.  The globals the visit works on are the *)
(* fields of one record g, threaded through the visit:                     *)
(*                                                                         *)
(*   ins     the instructions, [op, arg, lab] (opnd / ops / ops_obj);      *)
(*           positions are 0-based as in the code: Here(g) is opnd_n       *)
(*   labs    label positions (tk_a; label 0 is no label)                   *)
(*   consts, names   co_consts and co_names (stmts, tk_s)                  *)
(*   rows    exception-table rows (appended to kids)                       *)
(*   fin, finN   the finally stack: an array that is only ever overwritten *)
(*           at finN, and its height (_fin_ks/_fin_nf/_fin_loop, _fin_n)   *)
(*   holes   inlined finally bodies and left handlers (_hole_lo, _hole_hi) *)
(*   base    value-stack entries the enclosing constructs hold (_stk_base) *)
(*   loops, depth   break / continue labels by loop depth (tk_b), the      *)
(*           current depth (_lex_line)                                     *)
(*   scope, store   current scope, load / store / delete (_lex_i, _lex_col)*)
(*   scopes  the table PycSymtab built; err  the first SyntaxError         *)
(*                                                                         *)
(* A nested function is assembled in the middle of the visit, so this      *)
(* module extends PycAssemble.                                             *)
(***************************************************************************)
EXTENDS PycSymtab, PycAssemble, Bitwise

NoneConst == [k |-> "Constant", v |-> <<"none">>]
StoreName(name) == [k |-> "Name", name |-> name, ctx |-> "Store"]

Here(g) == Len(g.ins)
SyntaxErr(g, what) == IF g.err = "" THEN [g EXCEPT !.err = what] ELSE g

Emit(g, op, arg) ==
    [g EXCEPT !.ins = Append(@, [op |-> op, arg |-> arg, lab |-> 0])]
Emits(g, pairs) == Thread(LAMBDA acc, p : Emit(acc, p[1], p[2]), g, pairs)

NewLab(g) == [g EXCEPT !.labs = Append(@, 0)]
LastLab(g) == Len(g.labs)
Jump(g, op, lab) ==
    [g EXCEPT !.ins = Append(@, [op |-> op, arg |-> 0, lab |-> lab])]
JumpNew(g, op) == LET h == NewLab(g) IN Jump(h, op, LastLab(h))
Place(g, lab) == [g EXCEPT !.labs[lab] = Here(g)]

SetStore(g, s) == [g EXCEPT !.store = s]
AddBaseNeverLowered(g, n) == IF n < 0 THEN g ELSE [g EXCEPT !.base = @ + n]
AddBase(g, n) == [g EXCEPT !.base = @ + n]

-----------------------------------------------------------------------------
(* Pools.                                                                  *)

IndexOf(xs, x) == CHOOSE i \in DOMAIN xs : xs[i] = x /\ \A j \in 1..(i - 1) : xs[j] # x

(* Identity pooling of a constant, abstracted to equality of tagged values.*)
ConstPush(g, val) ==
    IF \E i \in DOMAIN g.consts : g.consts[i] = val
    THEN Emit(g, "LOAD_CONST", IndexOf(g.consts, val) - 1)
    ELSE Emit([g EXCEPT !.consts = Append(@, val)], "LOAD_CONST", Len(g.consts))

(* The global-name pool: the record with the name in it, and its index.    *)
WithName(g, name) ==
    IF NamesHas(g.names, name) THEN g ELSE [g EXCEPT !.names = Append(@, name)]
GlobalIndex(g, name) == IndexOf(g.names, name) - 1
EmitNamed(g, op, name, scale, low) ==
    LET h == WithName(g, name) IN Emit(h, op, scale * GlobalIndex(h, name) + low)

-----------------------------------------------------------------------------
(* Index normalisation: a negative int index has len(obj) added, so that   *)
(* the machine never sees one.                                             *)

AddLen(g) ==
    Emits(EmitNamed(Emit(g, "COPY", 2), "LOAD_GLOBAL", "len", 2, 1),
          << <<"SWAP", 2>>, <<"SWAP", 3>>, <<"CALL", 1>>, <<"BINARY_OP", 0>> >>)

NormalizeIndex(g) ==
    LET labelled == NewLab(g)
        skip == LastLab(labelled)
        kind == Emits(EmitNamed(Emit(labelled, "COPY", 1),
                                "LOAD_GLOBAL", "_bi_code_kind", 2, 1),
                      << <<"SWAP", 2>>, <<"SWAP", 3>>, <<"CALL", 1>>,
                         <<"LOAD_SMALL_INT", 1>>, <<"COMPARE_OP", 72>> >>)
        sign == Emits(Jump(kind, "POP_JUMP_IF_FALSE", skip),
                      << <<"COPY", 1>>, <<"LOAD_SMALL_INT", 0>>, <<"COMPARE_OP", 2>> >>)
    IN  Place(AddLen(Jump(sign, "POP_JUMP_IF_FALSE", skip)), skip)

IntConst(n) == n.k = "Constant" /\ n.v[1] = "int"

MaybeNormalizeIndex(g, idx) ==
    IF IntConst(idx) THEN (IF idx.v[2] < 0 THEN AddLen(g) ELSE g)
    ELSE IF idx.k = "Constant" THEN g
    ELSE NormalizeIndex(g)

BoundNeedsSubject(n) == IF IntConst(n) THEN n.v[2] < 0 ELSE n.k # "Constant"

ClampSlice(i, n) ==
    LET up == IF i < 0 THEN i + n ELSE i
    IN  IF up < 0 THEN 0 ELSE IF up > n THEN n ELSE up

-----------------------------------------------------------------------------
(* Exception-table rows.  A hole of the key is a stretch of the protected  *)
(* range that the range's own handler must not cover.                      *)

ExcEntry(g, start, end, target, depth, lasti) ==
    IF start >= end THEN g
    ELSE [g EXCEPT !.rows = Append(@, [start |-> start, end |-> end, target |-> target,
                                       depth |-> depth, lasti |-> lasti])]

HoleAdd(g, lo, hi, key) ==
    [g EXCEPT !.holes = Append(@, [lo |-> lo, hi |-> hi, key |-> key])]

(* The maximal runs of [start, end) outside the holes of the key, in order.*)
ExcProtect(g, start, end, key, target, depth, lasti) ==
    LET InHole(p) == \E i \in DOMAIN g.holes :
                        g.holes[i].key = key /\ g.holes[i].lo <= p /\ p < g.holes[i].hi
        open == {p \in start..(end - 1) : ~InHole(p)}
        first == SetToSortSeq({p \in open : p - 1 \notin open}, <)
        last == SetToSortSeq({p \in open : p + 1 \notin open}, <)
    IN  Thread(LAMBDA acc, i : ExcEntry(acc, first[i], last[i] + 1, target, depth, lasti),
                 g, [i \in DOMAIN first |-> i])

-----------------------------------------------------------------------------
(* The finally stack.  Keys of holes: a finally entry's index i, and       *)
(* -2 - i for a handler entry, as in the code.                             *)

FinPush(g, entry) ==
    [g EXCEPT !.fin = IF Len(@) <= g.finN THEN Append(@, entry)
                      ELSE [@ EXCEPT ![g.finN + 1] = entry],
              !.finN = @ + 1]
FinPop(g) == [g EXCEPT !.finN = @ - 1]

FinallyEntry(g, body) ==
    [handler |-> FALSE, body |-> body, name |-> "", sb |-> 0, loop |-> g.depth]
HandlerEntry(g, name, sb) ==
    [handler |-> TRUE, body |-> <<>>, name |-> name, sb |-> sb, loop |-> g.depth]
HandlerKey(i) == 0 - 2 - i

RECURSIVE V(_, _)
VAll(g, ns) == Thread(LAMBDA acc, n : V(acc, n), g, ns)
VNone(g) == V(g, NoneConst)

(* `except E as name' unbinds the name: name = None, then del name when it *)
(* is a plain local.                                                       *)
ClearHandlerName(g, name) ==
    IF name = "" THEN g
    ELSE LET cleared == V(SetStore(VNone(g), 1), StoreName(name))
             sc == g.scopes[g.scope]
             deleted == IF sc.kind = 1 /\ NamesHas(sc.names, name)
                        THEN V(SetStore(cleared, 2), StoreName(name)) ELSE cleared
         IN  SetStore(deleted, g.store)

KeepSwap(g, keep) == IF keep = 1 THEN Emit(g, "SWAP", 2) ELSE g

RECURSIVE DropDown(_, _, _, _)
DropDown(g, cur, floor, keep) ==
    IF cur <= floor THEN g
    ELSE DropDown(Emit(KeepSwap(g, keep), "POP_TOP", 0), cur - 1, floor, keep)

(* Leave one entry of the finally stack early, with the return value on    *)
(* top when keep = 1.  The result carries the new depth.                   *)
FinEmitOne(g, i, cur, keep) ==
    LET e == g.fin[i + 1]
        left == Emit(KeepSwap(DropDown(g, cur, e.sb + 1, keep), keep), "POP_EXCEPT", 0)
        named == ClearHandlerName(HoleAdd(left, Here(left), Here(left), HandlerKey(i)), e.name)
        lo == Here(g)
        inlined == [VAll([g EXCEPT !.base = cur + keep], e.body) EXCEPT !.base = g.base]
        hi == Here(inlined)
    IN  IF e.handler
        THEN [g |-> named, cur |-> e.sb]
        ELSE [g |-> IF lo < hi THEN HoleAdd(inlined, lo, hi, i) ELSE inlined, cur |-> cur]

(* An entry is left when it was made inside the loop that is left.         *)
IsLeftOuter(entry, minLoop) == entry.loop > minLoop
IsLeft(entry, minLoop) == entry.loop >= minLoop

(* The code drops the entry's own index while its body is visited (_fin_n  *)
(* = i) and puts the height back after it.                                 *)
RECURSIVE FinEmitDown(_, _, _, _, _)
FinEmitDown(g, i, cur, minLoop, keep) ==
    IF i = 0 \/ ~IsLeft(g.fin[i], minLoop) THEN g
    ELSE LET one == FinEmitOne([g EXCEPT !.finN = i - 1], i - 1, cur, keep)
         IN  FinEmitDown([one.g EXCEPT !.finN = g.finN], i - 1, one.cur, minLoop, keep)

FinEmitFrom(g, minLoop, keep) ==
    LET first == Len(g.holes)
        done == FinEmitDown(g, g.finN, g.base, minLoop, keep)
    IN  [done EXCEPT !.holes =
            [j \in DOMAIN @ |-> IF j > first /\ @[j].key < 0 - 1
                                THEN [@[j] EXCEPT !.hi = Here(done)] ELSE @[j]]]
-----------------------------------------------------------------------------
(* Nested code: a fresh record for the child over the same scope table,    *)
(* assembled before the parent goes on.                                    *)

Fresh(scopes, sid) ==
    [ins |-> <<>>, labs |-> <<>>, consts |-> <<>>, names |-> <<>>, rows |-> <<>>,
     fin |-> <<>>, finN |-> 0, holes |-> <<>>, base |-> 0, loops |-> <<>>, depth |-> 0,
     scope |-> sid, store |-> 0, scopes |-> scopes, err |-> ""]

ScopeOfNode(g, n) == CHOOSE s \in DOMAIN g.scopes : g.scopes[s].node = n.id

(* Slot of a name: the name is one of the scope's nlocalsplus, its index.  *)
IsLocal(g, name) ==
    LET sc == g.scopes[g.scope] IN sc.kind = 1 /\ NamesHas(sc.names, name)
Slot(g, name) == IndexOf(g.scopes[g.scope].names, name) - 1

FreeNames(sc) ==
    {sc.names[i] : i \in (Len(sc.names) - sc.nfree + 1)..Len(sc.names)}

(* A local is a cell when a function nested in its scope has it free.      *)
IsCell(scopes, sid, name) ==
    \E d \in DOMAIN scopes \ {sid} :
        /\ scopes[d].kind = 1
        /\ NamesHas(Ancestors(scopes, d), sid)
        /\ name \in FreeNames(scopes[d])

(* COPY_FREE_VARS, one MAKE_CELL for each cell among the fast locals.      *)
Prologue(g) ==
    LET sc == g.scopes[g.scope]
        copied == IF sc.nfree > 0 THEN Emit(g, "COPY_FREE_VARS", sc.nfree) ELSE g
        cells == SelectSeq([i \in 1..(Len(sc.names) - sc.nfree) |-> i],
                           LAMBDA i : IsCell(g.scopes, g.scope, sc.names[i]))
    IN  Emit(Thread(LAMBDA acc, i : Emit(acc, "MAKE_CELL", i - 1), copied, cells),
             "RESUME", 0)

(* The closure tuple of a child, from the parent's own slots.              *)
LoadFree(g, child) ==
    LET free == SubSeq(child.names, Len(child.names) - child.nfree + 1, Len(child.names))
        Load(acc, name) ==
            IF NamesHas(acc.scopes[acc.scope].names, name)
            THEN Emit(acc, "LOAD_FAST", Slot(acc, name))
            ELSE SyntaxErr(acc, "freevar missing in enclosing scope")
    IN  IF child.nfree = 0 THEN g
        ELSE Emit(Thread(Load, g, free), "BUILD_TUPLE", child.nfree)

PushChild(g, code) ==
    Emit([g EXCEPT !.consts = Append(@, <<"code", code>>)], "LOAD_CONST", Len(g.consts))

MakeFunction(g, child) ==
    IF child.nfree > 0
    THEN Emits(g, << <<"MAKE_FUNCTION", 0>>, <<"SET_FUNCTION_ATTRIBUTE", 8>> >>)
    ELSE Emit(g, "MAKE_FUNCTION", 0)

FunctionBody(g, n) ==
    IF n.k = "Lambda" THEN Emit(VAll(g, n.body), "RETURN_VALUE", 0)
    ELSE Emit(VNone(VAll(g, n.body)), "RETURN_VALUE", 0)

VFunction(g, n) ==
    LET sid == ScopeOfNode(g, n)
        sc == g.scopes[sid]
        body == FunctionBody(Prologue(Fresh(g.scopes, sid)), n)
        child == Assemble(body)
        failed == IF child.err # "" THEN SyntaxErr(g, child.err) ELSE g
        decorated == VAll(failed, n.decs)
        made == MakeFunction(PushChild(LoadFree(decorated, sc), child), sc)
        called == Thread(LAMBDA acc, d : Emit(acc, "CALL", 0), made, n.decs)
    IN  IF n.k = "Lambda" THEN called
        ELSE SetStore(V(SetStore(called, 1), StoreName(n.name)), 0)

-----------------------------------------------------------------------------
(* A comprehension is a function of its iterator.                          *)

CompDisplay(n) ==
    CASE n.k = "ListComp" -> "BUILD_LIST" [] n.k = "SetComp" -> "BUILD_SET"
      [] n.k = "DictComp" -> "BUILD_MAP"
CompAdd(n) ==
    CASE n.k = "ListComp" -> "LIST_APPEND" [] n.k = "SetComp" -> "SET_ADD"
      [] n.k = "DictComp" -> "MAP_ADD"

CompBody(g, n) ==
    LET entered == NewLab(NewLab(Emits(Prologue(g),
                                       << <<CompDisplay(n), 0>>, <<"LOAD_FAST", 0>> >>)))
        endfor == LastLab(entered) - 1
        cont == LastLab(entered)
        looped == Jump(Place(entered, cont), "FOR_ITER", endfor)
        bound == SetStore(V(SetStore(looped, 1), n.target), 0)
        filtered ==
            IF n.cond = <<>> THEN bound
            ELSE LET lab == NewLab(bound)
                 IN  Jump(Emit(VAll(lab, n.cond), "TO_BOOL", 0),
                          "POP_JUMP_IF_FALSE", LastLab(lab))
        added == Emit(VAll(filtered, n.elts), CompAdd(n), 2)
        skipped == IF n.cond = <<>> THEN added ELSE Place(added, LastLab(bound) + 1)
        back == Jump(skipped, "JUMP_BACKWARD", cont)
    IN  Emits(Place(back, endfor),
              << <<"END_FOR", 0>>, <<"POP_ITER", 0>>, <<"RETURN_VALUE", 0>> >>)

VComp(g, n) ==
    LET iterated == Emit(V(SetStore(g, 0), n.iter), "GET_ITER", 0)
        sid == ScopeOfNode(g, n)
        sc == g.scopes[sid]
        child == Assemble(CompBody(Fresh(g.scopes, sid), n))
        failed == IF child.err # "" THEN SyntaxErr(iterated, child.err) ELSE iterated
    IN  Emits(MakeFunction(PushChild(LoadFree(failed, sc), child), sc),
              << <<"SWAP", 2>>, <<"PUSH_NULL", 0>>, <<"SWAP", 2>>, <<"CALL", 1>> >>)

-----------------------------------------------------------------------------
(* Names and constants.                                                    *)

VConstant(g, n) ==
    IF n.v[1] = "int" /\ n.v[2] \in 0..255 THEN Emit(g, "LOAD_SMALL_INT", n.v[2])
    ELSE ConstPush(g, n.v)

(* Closed-over means the slot is a free slot or a cell.                    *)
VLocalName(g, name) ==
    LET sc == g.scopes[g.scope]
        i == Slot(g, name)
        deref == i >= Len(sc.names) - sc.nfree \/ IsCell(g.scopes, g.scope, name)
    IN  CASE deref /\ g.store = 0 -> Emit(g, "LOAD_DEREF", i)
          [] deref /\ g.store = 1 -> Emit(g, "STORE_DEREF", i)
          [] deref /\ g.store = 2 -> SyntaxErr(g, "cannot delete closed-over name")
          [] ~deref /\ g.store = 0 -> Emit(g, "LOAD_FAST", i)
          [] ~deref /\ g.store = 1 -> Emit(g, "STORE_FAST", i)
          [] ~deref /\ g.store = 2 -> Emit(g, "DELETE_FAST", i)

VGlobalName(g, name) ==
    LET fn == g.scopes[g.scope].kind = 1
    IN  CASE g.store = 2 ->
                SyntaxErr(WithName(g, name), "del of a global name is not supported")
          [] g.store = 1 -> EmitNamed(g, IF fn THEN "STORE_GLOBAL" ELSE "STORE_NAME", name, 1, 0)
          [] g.store = 0 -> IF fn THEN EmitNamed(g, "LOAD_GLOBAL", name, 2, 0)
                            ELSE EmitNamed(g, "LOAD_NAME", name, 1, 0)

VName(g, n) == IF IsLocal(g, n.name) THEN VLocalName(g, n.name) ELSE VGlobalName(g, n.name)

-----------------------------------------------------------------------------
(* Operators.                                                              *)

BinArg(op) ==
    CASE op = "Add" -> 0 [] op = "BitAnd" -> 1 [] op = "FloorDiv" -> 2 [] op = "LShift" -> 3
      [] op = "Mult" -> 5 [] op = "Mod" -> 6 [] op = "BitOr" -> 7 [] op = "Pow" -> 8
      [] op = "RShift" -> 9 [] op = "Sub" -> 10 [] op = "Div" -> 11 [] op = "BitXor" -> 12
      [] OTHER -> 0 - 1

VBinOp(g, n) ==
    LET operands == V(V(g, n.l), n.r)
    IN  IF BinArg(n.op) < 0 THEN SyntaxErr(operands, "unsupported binary op")
        ELSE Emit(operands, "BINARY_OP", BinArg(n.op))

VUnaryOp(g, n) ==
    LET h == V(g, n.v)
    IN  CASE n.op = "UAdd" -> h
          [] n.op = "Not" -> Emits(h, << <<"TO_BOOL", 0>>, <<"UNARY_NOT", 0>> >>)
          [] n.op = "USub" -> Emit(h, "UNARY_NEGATIVE", 0)
          [] n.op = "Invert" -> Emit(h, "UNARY_INVERT", 0)
          [] OTHER -> SyntaxErr(h, "unsupported unary op")

VBoolOp(g, n) ==
    LET jump == IF n.op = "Or" THEN "POP_JUMP_IF_TRUE" ELSE "POP_JUMP_IF_FALSE"
        lab == LastLab(g) + 1
        Operand(acc, i) ==
            LET h == V(acc, n.vs[i])
            IN  IF i = Len(n.vs) THEN h
                ELSE Emit(Jump(Emits(h, << <<"COPY", 1>>, <<"TO_BOOL", 0>> >>), jump, lab),
                          "POP_TOP", 0)
    IN  Place(Thread(Operand, NewLab(g), [i \in DOMAIN n.vs |-> i]), lab)

EmitCompareOp(g, op) ==
    CASE op = "Lt" -> Emit(g, "COMPARE_OP", 2) [] op = "LtE" -> Emit(g, "COMPARE_OP", 42)
      [] op = "Eq" -> Emit(g, "COMPARE_OP", 72) [] op = "NotEq" -> Emit(g, "COMPARE_OP", 103)
      [] op = "Gt" -> Emit(g, "COMPARE_OP", 132) [] op = "GtE" -> Emit(g, "COMPARE_OP", 172)
      [] op = "Is" -> Emit(g, "IS_OP", 0) [] op = "IsNot" -> Emit(g, "IS_OP", 1)
      [] op = "In" -> Emit(g, "CONTAINS_OP", 0) [] op = "NotIn" -> Emit(g, "CONTAINS_OP", 1)
      [] OTHER -> SyntaxErr(g, "unsupported compare op")

VCompare(g, n) ==
    LET chained == Len(n.ops) > 1
        first == V(g, n.l)
        labelled == IF chained THEN NewLab(first) ELSE first
        lab == LastLab(labelled)
        Link(acc, i) ==
            LET rhs == V(acc, n.rs[i])
            IN  IF i = Len(n.ops) THEN EmitCompareOp(rhs, n.ops[i])
                ELSE Emit(Jump(Emits(EmitCompareOp(
                                        Emits(rhs, << <<"SWAP", 2>>, <<"COPY", 2>> >>),
                                        n.ops[i]),
                                     << <<"COPY", 1>>, <<"TO_BOOL", 0>> >>),
                               "POP_JUMP_IF_FALSE", lab),
                          "POP_TOP", 0)
        links == Thread(Link, labelled, [i \in DOMAIN n.ops |-> i])
        out == JumpNew(links, "JUMP_FORWARD")
    IN  IF ~chained THEN links
        ELSE Place(Emits(Place(out, lab), << <<"SWAP", 2>>, <<"POP_TOP", 0>> >>), LastLab(out))

VIfExp(g, n) ==
    LET test == JumpNew(Emit(V(g, n.t), "TO_BOOL", 0), "POP_JUMP_IF_FALSE")
        body == JumpNew(V(test, n.a), "JUMP_FORWARD")
    IN  Place(V(Place(body, LastLab(test)), n.b), LastLab(body))
-----------------------------------------------------------------------------
(* Calls and displays.                                                     *)

HasStarred(ns) == \E i \in DOMAIN ns : ns[i].k = "Starred"
VLoads(g, ns) == Thread(LAMBDA acc, n : V(SetStore(acc, 0), n), g, ns)
Indices(lo, hi) == [i \in 1..(hi - lo + 1) |-> lo + i - 1]

StarSeq(g, ns, build, extend, append) ==
    LET starred == {i \in DOMAIN ns : ns[i].k = "Starred"}
        lead == (CHOOSE i \in starred : \A j \in starred : i <= j) - 1
        built == Emit(VLoads(g, SubSeq(ns, 1, lead)), build, lead)
        Add(acc, i) ==
            LET h == SetStore(acc, 0)
            IN  IF ns[i].k # "Starred" THEN Emit(V(h, ns[i]), append, 1)
                ELSE IF ns[i].stars # 1 THEN SyntaxErr(h, "invalid starred expression")
                ELSE Emit(V(h, ns[i].v), extend, 1)
    IN  Thread(Add, built, Indices(lead + 1, Len(ns)))

(* Entries [unpack, key, v]: a run of plain entries is one BUILD_MAP, each *)
(* unpacked mapping is merged into what is there so far.                   *)
KwMap(g, entries, merge) ==
    LET Flush(acc) ==
            IF acc.seen = 0 THEN acc
            ELSE LET b == Emit(acc.g, "BUILD_MAP", acc.seen)
                 IN  [g |-> IF acc.have THEN Emit(b, merge, 1) ELSE b,
                      seen |-> 0, have |-> TRUE]
        Started(acc) == IF acc.have THEN acc.g ELSE Emit(acc.g, "BUILD_MAP", 0)
        Add(acc, e) ==
            IF e.unpack
            THEN LET f == Flush(acc)
                 IN  [g |-> Emit(V(SetStore(Started(f), 0), e.v), merge, 1),
                      seen |-> 0, have |-> TRUE]
            ELSE [acc EXCEPT !.g = V(SetStore(V(SetStore(@, 0), e.key), 0), e.v),
                             !.seen = @ + 1]
    IN  Flush(Thread(Add, [g |-> g, seen |-> 0, have |-> FALSE], entries)).g

Keyword(kw) ==
    [unpack |-> kw.name = "**", v |-> kw.v, key |-> [k |-> "Constant", v |-> <<"str", kw.name>>]]

(* What is called, and the self slot: NULL, or the receiver a method load  *)
(* leaves there.                                                           *)
VCallee(g, n, ex) ==
    IF n.f.k # "Attribute" THEN Emit(V(g, n.f), "PUSH_NULL", 0)
    ELSE IF ex THEN Emit(EmitNamed(V(g, n.f.v), "LOAD_ATTR", n.f.name, 2, 0), "PUSH_NULL", 0)
    ELSE EmitNamed(V(g, n.f.v), "LOAD_ATTR", n.f.name, 2, 1)

CallExArgs(g, args) ==
    IF Len(args) = 1 /\ args[1].k = "Starred"
    THEN IF args[1].stars # 1 THEN SyntaxErr(g, "invalid starred expression")
         ELSE V(SetStore(g, 0), args[1].v)
    ELSE IF HasStarred(args)
    THEN Emit(StarSeq(g, args, "BUILD_LIST", "LIST_EXTEND", "LIST_APPEND"),
              "CALL_INTRINSIC_1", 6)
    ELSE IF args = <<>> THEN ConstPush(g, <<"tuple", <<>>>>)
    ELSE Emit(VLoads(g, args), "BUILD_TUPLE", Len(args))

VCall(g, n) ==
    LET ex == HasStarred(n.args) \/ \E i \in DOMAIN n.kws : n.kws[i].name = "**"
        callee == VCallee(g, n, ex)
        exArgs == CallExArgs(callee, n.args)
        exKws == IF n.kws = <<>> THEN Emit(exArgs, "PUSH_NULL", 0)
                 ELSE KwMap(exArgs, [i \in DOMAIN n.kws |-> Keyword(n.kws[i])], "DICT_MERGE")
        plain == VAll(VAll(callee, n.args), [i \in DOMAIN n.kws |-> n.kws[i].v])
        kwnames == <<"tuple", [i \in DOMAIN n.kws |-> <<"str", n.kws[i].name>>]>>
        count == Len(n.args) + Len(n.kws)
    IN  IF ex THEN Emit(exKws, "CALL_FUNCTION_EX", 0)
        ELSE IF n.kws = <<>> THEN Emit(plain, "CALL", count)
        ELSE Emit(ConstPush(plain, kwnames), "CALL_KW", count)

VAttribute(g, n) ==
    CASE g.store = 0 -> EmitNamed(V(WithName(g, n.name), n.v), "LOAD_ATTR", n.name, 2, 0)
      [] g.store = 1 -> EmitNamed(SetStore(V(SetStore(WithName(g, n.name), 0), n.v), 1),
                                  "STORE_ATTR", n.name, 1, 0)
      [] g.store = 2 -> EmitNamed(SetStore(V(SetStore(WithName(g, n.name), 0), n.v), 2),
                                  "DELETE_ATTR", n.name, 1, 0)

(* A slice of a display keeps the selected elements; its bounds must be    *)
(* integer constants.                                                      *)
DisplaySlice(g, subj, slc) ==
    LET n == Len(subj.es)
        Bound(b, default) == IF b = <<>> THEN default ELSE ClampSlice(b[1].v[2], n)
        bad == \E b \in {slc.lo, slc.hi} : b # <<>> /\ ~IntConst(b[1])
        lo == Bound(slc.lo, 0)
        hi == Bound(slc.hi, n)
        Element(acc, i) ==
            LET h == V(SetStore(acc, 0), subj.es[i])
            IN  IF lo < hi /\ i - 1 >= lo /\ i - 1 < hi THEN h ELSE Emit(h, "POP_TOP", 0)
        count == IF lo < hi THEN hi - lo ELSE 0
    IN  IF bad THEN SyntaxErr(g, "slice of a list or tuple display is not supported")
        ELSE Emit(Thread(Element, g, Indices(1, n)),
                  IF subj.k = "List" THEN "BUILD_LIST" ELSE "BUILD_TUPLE", count)

SliceLow(g, lo) == IF lo = <<>> THEN VNone(g) ELSE MaybeNormalizeIndex(V(g, lo[1]), lo[1])

SliceHigh(g, hi) ==
    IF hi = <<>> THEN VNone(g)
    ELSE LET h == V(g, hi[1])
         IN  IF ~BoundNeedsSubject(hi[1]) THEN h
             ELSE Emits(MaybeNormalizeIndex(
                            Emits(h, << <<"COPY", 3>>, <<"SWAP", 2>> >>), hi[1]),
                        << <<"SWAP", 2>>, <<"POP_TOP", 0>> >>)

VSlice(g, n) ==
    IF g.store # 0 THEN SyntaxErr(g, "slice assignment is not supported")
    ELSE IF n.v.k \in {"List", "Tuple"} THEN DisplaySlice(g, n.v, n.i)
    ELSE Emit(SliceHigh(SliceLow(V(g, n.v), n.i.lo), n.i.hi), "BINARY_SLICE", 0)

VSubscript(g, n) ==
    LET operands == MaybeNormalizeIndex(V(V(SetStore(g, 0), n.v), n.i), n.i)
    IN  CASE n.i.k = "Slice" -> VSlice(g, n)
          [] n.i.k # "Slice" /\ g.store = 0 -> Emit(operands, "BINARY_OP", 26)
          [] n.i.k # "Slice" /\ g.store = 1 -> Emit(SetStore(operands, 1), "STORE_SUBSCR", 0)
          [] n.i.k # "Slice" /\ g.store = 2 -> Emit(SetStore(operands, 2), "DELETE_SUBSCR", 0)

StarredTargets(g, es) ==
    LET stars == {i \in DOMAIN es : es[i].k = "Starred"}
        star == (CHOOSE i \in stars : \A j \in stars : i >= j) - 1
        after == Len(es) - star - 1
        bound == Thread(LAMBDA acc, n : V(SetStore(acc, 1), n),
                          Emit(g, "UNPACK_EX", star + 256 * after), es)
    IN  IF Cardinality(stars) > 1
        THEN SyntaxErr(g, "multiple starred expressions in assignment")
        ELSE IF star > 255 \/ after > 255
        THEN SyntaxErr(g, "too many expressions in star-unpacking assignment")
        ELSE SetStore(bound, 1)

StarredDisplay(g, n) ==
    IF n.k = "Set" THEN StarSeq(g, n.es, "BUILD_SET", "SET_UPDATE", "SET_ADD")
    ELSE LET list == StarSeq(g, n.es, "BUILD_LIST", "LIST_EXTEND", "LIST_APPEND")
         IN  IF n.k = "Tuple" THEN Emit(list, "CALL_INTRINSIC_1", 6) ELSE list

VDisplay(g, n) ==
    LET build == CASE n.k = "List" -> "BUILD_LIST" [] n.k = "Tuple" -> "BUILD_TUPLE"
                   [] n.k = "Set" -> "BUILD_SET"
        unpacked == Thread(LAMBDA acc, t : V(SetStore(acc, 1), t),
                             Emit(g, "UNPACK_SEQUENCE", Len(n.es)), n.es)
    IN  IF g.store = 1
        THEN IF HasStarred(n.es) THEN StarredTargets(g, n.es) ELSE SetStore(unpacked, 1)
        ELSE IF HasStarred(n.es) THEN StarredDisplay(g, n)
        ELSE Emit(VLoads(g, n.es), build, Len(n.es))

VDict(g, n) ==
    IF \E i \in DOMAIN n.es : n.es[i].unpack THEN KwMap(g, n.es, "DICT_UPDATE")
    ELSE Emit(Thread(LAMBDA acc, e : V(V(acc, e.key), e.v), g, n.es),
              "BUILD_MAP", Len(n.es))

VStarred(g, n) ==
    IF g.store = 1 THEN V(g, n.v)
    ELSE SyntaxErr(g, "can't use starred expression here")

VJoinedStr(g, n) ==
    CASE n.vs = <<>> -> ConstPush(g, <<"str", "">>)
      [] Len(n.vs) = 1 -> V(g, n.vs[1])
      [] OTHER -> Emit(VAll(g, n.vs), "BUILD_STRING", Len(n.vs))

VFormattedValue(g, n) ==
    LET h == V(g, n.v)
        converted == CASE n.conv = "s" -> Emit(h, "CONVERT_VALUE", 1)
                       [] n.conv = "r" -> Emit(h, "CONVERT_VALUE", 2)
                       [] n.conv = "a" -> Emit(h, "CONVERT_VALUE", 3)
                       [] OTHER -> h
    IN  Emit(converted, "FORMAT_SIMPLE", 0)
-----------------------------------------------------------------------------
(* Simple statements.                                                      *)

VAssign(g, n) ==
    LET value == V(SetStore(g, 0), n.v)
        Target(acc, i) ==
            LET h == IF i < Len(n.targets) THEN Emit(acc, "COPY", 1) ELSE acc
            IN  SetStore(V(SetStore(h, 1), n.targets[i]), 0)
    IN  Thread(Target, value, Indices(1, Len(n.targets)))

AugArg(op) == IF BinArg(op) < 0 THEN 0 - 1 ELSE BinArg(op) + 13

VAugAssign(g, n) ==
    LET operands == V(V(SetStore(g, 0), n.target), n.v)
    IN  IF n.target.k # "Name" THEN SyntaxErr(g, "unsupported augmented assignment target")
        ELSE IF AugArg(n.op) < 0 THEN SyntaxErr(operands, "unsupported augmented op")
        ELSE SetStore(V(SetStore(Emit(operands, "BINARY_OP", AugArg(n.op)), 1), n.target), 0)

VDelete(g, n) ==
    SetStore(Thread(LAMBDA acc, t : V(SetStore(acc, 2), t), g, n.targets), 0)

(* The finally stack is unwound above the value, then RETURN_VALUE.        *)
VReturn(g, n) ==
    LET value == IF n.v = <<>> THEN ConstPush(g, <<"none">>) ELSE V(g, n.v[1])
    IN  Emit(FinEmitFrom(value, 0, 1), "RETURN_VALUE", 0)

VBreak(g, n) ==
    IF g.depth < 1 THEN SyntaxErr(g, "'break' outside loop")
    ELSE LET h == FinEmitFrom(g, g.depth, 0) IN Jump(h, "JUMP_FORWARD", h.loops[h.depth][1])

VContinue(g, n) ==
    IF g.depth < 1 THEN SyntaxErr(g, "'continue' not properly in loop")
    ELSE LET h == FinEmitFrom(g, g.depth, 0) IN Jump(h, "JUMP_BACKWARD", h.loops[h.depth][2])

VRaise(g, n) ==
    IF n.v = <<>> THEN Emit(g, "RAISE_VARARGS", 0) ELSE Emit(V(g, n.v[1]), "RAISE_VARARGS", 1)

VAssert(g, n) ==
    LET test == JumpNew(Emit(V(g, n.t), "TO_BOOL", 0), "POP_JUMP_IF_TRUE")
        class == V(SetStore(test, 0), [k |-> "Name", name |-> "AssertionError", ctx |-> "Load"])
        value == IF n.msg = <<>> THEN class
                 ELSE Emit(V(Emit(class, "PUSH_NULL", 0), n.msg[1]), "CALL", 1)
    IN  Place(Emit(value, "RAISE_VARARGS", 1), LastLab(test))

-----------------------------------------------------------------------------
(* If and the loops.                                                       *)

VIf(g, n) ==
    LET test == JumpNew(Emit(V(g, n.t), "TO_BOOL", 0), "POP_JUMP_IF_FALSE")
        body == VAll(test, n.body)
        out == JumpNew(body, "JUMP_FORWARD")
    IN  IF n.orelse = <<>> THEN Place(body, LastLab(test))
        ELSE Place(VAll(Place(out, LastLab(test)), n.orelse), LastLab(out))

OpenLoop(g, br, cont) ==
    [g EXCEPT !.depth = @ + 1,
              !.loops = IF Len(@) <= g.depth THEN Append(@, <<br, cont>>)
                        ELSE [@ EXCEPT ![g.depth + 1] = <<br, cont>>]]
CloseLoop(g) == [g EXCEPT !.depth = @ - 1]

VWhile(g, n) ==
    LET br == LastLab(g) + 1
        cont == br + 1
        two == NewLab(NewLab(g))
        labelled == IF n.orelse = <<>> THEN two ELSE NewLab(two)
        else == IF n.orelse = <<>> THEN br ELSE cont + 1
        head == Place(OpenLoop(labelled, br, cont), cont)
        test == Jump(Emit(V(head, n.t), "TO_BOOL", 0), "POP_JUMP_IF_FALSE", else)
        body == Jump(VAll(test, n.body), "JUMP_BACKWARD", cont)
        closed == CloseLoop(Place(body, else))
    IN  IF n.orelse = <<>> THEN closed ELSE Place(VAll(closed, n.orelse), br)

(* The iterator stays on the value stack until POP_ITER, which is where a  *)
(* break lands.                                                            *)
VFor(g, n) ==
    LET endfor == LastLab(g) + 1
        popiter == endfor + 1
        cont == endfor + 2
        opened == OpenLoop(NewLab(NewLab(NewLab(g))), popiter, cont)
        head == Place(Emit(V(opened, n.iter), "GET_ITER", 0), cont)
        next == SetStore(AddBase(Jump(head, "FOR_ITER", endfor), 1), 1)
        body == VAll(SetStore(V(next, n.target), 0), n.body)
        ended == Emit(Place(Jump(body, "JUMP_BACKWARD", cont), endfor), "END_FOR", 0)
        orelse == VAll(CloseLoop(ended), n.orelse)
    IN  Emit(Place(AddBase(orelse, 0 - 1), popiter), "POP_ITER", 0)

-----------------------------------------------------------------------------
(* Try.  base is the value-stack depth around the statement; a handler     *)
(* runs one entry above it (the saved exception).                          *)

Cleanup(g) == Emits(g, << <<"COPY", 3>>, <<"POP_EXCEPT", 0>>, <<"RERAISE", 1>> >>)

WithBase(g, base) == [g EXCEPT !.base = base]

(* A finally body on the exception path: entered with [prev, exc].         *)
FinallyOnRaise(g, base, final) ==
    LET pushed == FinPush(WithBase(g, base + 2), HandlerEntry(g, "", base))
    IN  Emit(WithBase(FinPop(VAll(pushed, final)), base), "RERAISE", 0)

HandlerHead(g, h) ==
    IF h.typ = <<>> THEN SetStore(g, 0)
    ELSE JumpNew(Emit(V(SetStore(g, 0), h.typ[1]), "CHECK_EXC_MATCH", 0), "POP_JUMP_IF_FALSE")

HandlerBind(g, h) ==
    IF h.name = "" THEN Emit(g, "POP_TOP", 0)
    ELSE SetStore(V(SetStore(g, 1), StoreName(h.name)), 0)

(* With a name: a raise in the handler body unbinds it on the way out.     *)
HandlerNameCleanup(g, h, start, end, base, hkey) ==
    IF h.name = "" THEN g
    ELSE ExcProtect(Emit(ClearHandlerName(g, h.name), "RERAISE", 1),
                    start, end, hkey, Here(g), base + 1, 1)

VHandler(g, h, base, hkey, finallyLab) ==
    LET head == HandlerHead(g, h)
        bound == HandlerBind(head, h)
        start == Here(bound)
        entered == FinPush(WithBase(bound, base + 1), HandlerEntry(bound, h.name, base))
        body == WithBase(FinPop(VAll(entered, h.body)), base)
        end == Here(body)
        left == Jump(ClearHandlerName(Emit(body, "POP_EXCEPT", 0), h.name),
                     "JUMP_FORWARD", finallyLab)
        cleaned == HandlerNameCleanup(left, h, start, end, base, hkey)
    IN  IF h.typ = <<>> THEN cleaned ELSE Place(cleaned, LastLab(head))

VHandlers(g, n, base, hkey, finallyLab) ==
    LET entered == Emit(g, "PUSH_EXC_INFO", 0)
    IN  IF n.handlers = <<>> THEN FinallyOnRaise(entered, base, n.final)
        ELSE Emit(Thread(LAMBDA acc, h : VHandler(acc, h, base, hkey, finallyLab),
                           entered, n.handlers),
                  "RERAISE", 0)

VTry(g, n) ==
    LET hasFinally == n.final # <<>>
        finI == IF hasFinally THEN g.finN ELSE 0 - 1
        pushed == IF hasFinally THEN FinPush(g, FinallyEntry(g, n.final)) ELSE g
        labelled == NewLab(NewLab(pushed))
        orelseLab == LastLab(labelled) - 1
        finallyLab == LastLab(labelled)
        tried == VAll(labelled, n.body)
        out == Jump(tried, "JUMP_FORWARD", orelseLab)
        popped == IF hasFinally THEN FinPop(out) ELSE out
        base == popped.base
        hkey == HandlerKey(popped.finN)
        handled == VHandlers(popped, n, base, hkey, finallyLab)
        cleaned == Cleanup(handled)
        both == n.handlers # <<>> /\ hasFinally
        onRaise == IF both THEN FinallyOnRaise(Emit(cleaned, "PUSH_EXC_INFO", 0), base, n.final)
                   ELSE cleaned
        onRaiseClean == IF both THEN Cleanup(onRaise) ELSE onRaise
        orelse == VAll(Place(onRaiseClean, orelseLab), n.orelse)
        final == VAll(Place(orelse, finallyLab), n.final)
        body == ExcProtect(final, Here(labelled), Here(tried), finI, Here(popped), base, 0)
        handlers == ExcProtect(body, Here(popped), Here(handled), hkey, Here(handled), base + 1, 1)
    IN  IF ~both THEN handlers
        ELSE ExcProtect(ExcEntry(handlers, Here(handled), Here(cleaned), Here(cleaned), base, 0),
                        Here(cleaned), Here(onRaise), hkey, Here(onRaise), base + 1, 1)

-----------------------------------------------------------------------------
VModule(g, n) == Emit(ConstPush(SetStore(VAll(g, n.body), 0), <<"none">>), "RETURN_VALUE", 0)

(* A SyntaxError ends the compilation.                                     *)
V(g, n) ==
    IF g.err # "" THEN g
    ELSE
    CASE n.k = "Module" -> VModule(g, n)
      [] n.k = "Expression" -> Emit(V(g, n.v), "RETURN_VALUE", 0)
      [] n.k = "Expr" -> Emit(V(g, n.v), "POP_TOP", 0)
      [] n.k = "Assign" -> VAssign(g, n)
      [] n.k = "AugAssign" -> VAugAssign(g, n)
      [] n.k = "Delete" -> VDelete(g, n)
      [] n.k = "Return" -> VReturn(g, n)
      [] n.k \in {"Global", "Pass"} -> g
      [] n.k = "Break" -> VBreak(g, n)
      [] n.k = "Continue" -> VContinue(g, n)
      [] n.k = "Raise" -> VRaise(g, n)
      [] n.k = "Assert" -> VAssert(g, n)
      [] n.k = "If" -> VIf(g, n)
      [] n.k = "While" -> VWhile(g, n)
      [] n.k = "For" -> VFor(g, n)
      [] n.k = "Try" -> VTry(g, n)
      [] n.k \in FunctionKinds -> VFunction(g, n)
      [] n.k \in CompKinds -> VComp(g, n)
      [] n.k = "Constant" -> VConstant(g, n)
      [] n.k = "Name" -> VName(g, n)
      [] n.k = "BinOp" -> VBinOp(g, n)
      [] n.k = "UnaryOp" -> VUnaryOp(g, n)
      [] n.k = "BoolOp" -> VBoolOp(g, n)
      [] n.k = "Compare" -> VCompare(g, n)
      [] n.k = "IfExp" -> VIfExp(g, n)
      [] n.k = "Call" -> VCall(g, n)
      [] n.k = "Attribute" -> VAttribute(g, n)
      [] n.k = "Subscript" -> VSubscript(g, n)
      [] n.k \in {"List", "Tuple", "Set"} -> VDisplay(g, n)
      [] n.k = "Dict" -> VDict(g, n)
      [] n.k = "Starred" -> VStarred(g, n)
      [] n.k = "JoinedStr" -> VJoinedStr(g, n)
      [] n.k = "FormattedValue" -> VFormattedValue(g, n)
      [] OTHER -> SyntaxErr(g, "unsupported node in codegen")

-----------------------------------------------------------------------------
(* Constant folding, bottom-up: int + - * & | ^, unary + - ~, str +.       *)

Signed(x) == IF x >= 32768 THEN x - 65536 ELSE x
Bits(x) == x % 65536

FoldedInt(op, l, r) ==
    CASE op = "Add" -> <<l + r>> [] op = "Sub" -> <<l - r>> [] op = "Mult" -> <<l * r>>
      [] op = "BitAnd" -> <<Signed(Bits(l) & Bits(r))>>
      [] op = "BitOr" -> <<Signed(Bits(l) | Bits(r))>>
      [] op = "BitXor" -> <<Signed(Bits(l) ^^ Bits(r))>>
      [] OTHER -> <<>>

FoldBinOp(n) ==
    LET both(tag) == n.l.k = "Constant" /\ n.r.k = "Constant"
                        /\ n.l.v[1] = tag /\ n.r.v[1] = tag
        res == FoldedInt(n.op, n.l.v[2], n.r.v[2])
    IN  CASE both("int") -> IF res = <<>> THEN n ELSE [k |-> "Constant", v |-> <<"int", res[1]>>]
          [] both("str") /\ n.op = "Add" ->
                [k |-> "Constant", v |-> <<"str", n.l.v[2] \o n.r.v[2]>>]
          [] OTHER -> n

FoldUnaryOp(n) ==
    CASE n.v.k # "Constant" -> n
      [] n.v.k = "Constant" /\ n.op = "UAdd" -> n.v
      [] IntConst(n.v) /\ n.op = "USub" -> [k |-> "Constant", v |-> <<"int", 0 - n.v.v[2]>>]
      [] IntConst(n.v) /\ n.op = "Invert" ->
            [k |-> "Constant", v |-> <<"int", 0 - n.v.v[2] - 1>>]
      [] OTHER -> n

(* The code sweeps the node arrays until nothing changes; children first   *)
(* gives the same tree.                                                    *)
RECURSIVE Fold(_)
FoldAll(ns) == [i \in DOMAIN ns |-> Fold(ns[i])]
FoldEntries(es) ==
    [i \in DOMAIN es |->
        [f \in DOMAIN es[i] |-> IF f = "v" \/ (f = "key" /\ ~es[i].unpack)
                                THEN Fold(es[i][f]) ELSE es[i][f]]]

NodeFields == {"v", "l", "r", "t", "a", "b", "f", "i", "target", "iter"}
SeqFields == {"body", "orelse", "final", "handlers", "targets", "args", "es", "vs", "rs",
              "lo", "hi", "typ", "cond", "elts", "decs", "msg"}

FoldChildren(n) ==
    [f \in DOMAIN n |->
        IF n.k = "Dict" /\ f = "es" THEN FoldEntries(n.es)
        ELSE IF f = "kws" THEN [i \in DOMAIN n.kws |-> [n.kws[i] EXCEPT !.v = Fold(@)]]
        ELSE IF f \in SeqFields \/ (f = "v" /\ n.k \in {"Return", "Raise"}) THEN FoldAll(n[f])
        ELSE IF f \in NodeFields THEN Fold(n[f])
        ELSE n[f]]

Fold(n) ==
    IF n.k \in {"Constant", "Global"} THEN n
    ELSE LET m == FoldChildren(n)
         IN  IF n.k = "BinOp" THEN FoldBinOp(m) ELSE IF n.k = "UnaryOp" THEN FoldUnaryOp(m) ELSE m

-----------------------------------------------------------------------------
(* _pyc_codegen_main after the parse: symbols, folding, visit, assembly.   *)
Compile(tree) ==
    LET table == Symtab(tree)
        g == V(Emit(Fresh(table.scopes, 1), "RESUME", 0), Fold(tree))
    IN  Assemble(IF table.err # "" THEN [g EXCEPT !.err = table.err] ELSE g)
=============================================================================
