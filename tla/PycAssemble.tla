---------------------------- MODULE PycAssemble ----------------------------
(***************************************************************************)
(* The last stage of the compiler (_pyc_peephole and _pyc_assemble in      *)
(* src/pycore_firmware/compiler/codegen.py): fusing of instruction pairs,  *)
(* jump arguments, the stack size, and the exception table, which is       *)
(* packed into six-bit chunks; and the reader of that table                *)
(* (src/pycore/tools/exception_table.py).  The input is the record g of    *)
(* PycCodegen, the result a code object.                                   *)
(***************************************************************************)
EXTENDS Integers, Sequences, FiniteSets, SequencesExt, PycThread

Positions(n) == 0..(n - 1)
Ins(g, i) == g.ins[i + 1]

-----------------------------------------------------------------------------
(* Peephole.                                                               *)

(* Positions a pair must not be fused across: labels and row boundaries.   *)
Marks(g) ==
    {g.labs[l] : l \in DOMAIN g.labs}
    \cup UNION {{g.rows[r].start, g.rows[r].end, g.rows[r].target} : r \in DOMAIN g.rows}

ParamCount(sc) ==
    IF sc.kind = 1 THEN sc.argc + sc.kwonly + (sc.flags % 2) + (sc.flags \div 2) ELSE 0

(* Slots bound for the whole body: cells and free slots, and parameters    *)
(* no DELETE_FAST touches.                                                 *)
CellSlots(g) ==
    LET sc == g.scopes[g.scope]
        made == {g.ins[i].arg : i \in {j \in DOMAIN g.ins : g.ins[j].op = "MAKE_CELL"}}
        copied == {g.ins[i].arg : i \in {j \in DOMAIN g.ins : g.ins[j].op = "COPY_FREE_VARS"}}
    IN  made \cup UNION {(Len(sc.names) - c)..(Len(sc.names) - 1) : c \in copied}

AlwaysBound(g) ==
    LET deleted == {g.ins[i].arg : i \in {j \in DOMAIN g.ins : g.ins[j].op = "DELETE_FAST"}}
    IN  CellSlots(g) \cup (Positions(ParamCount(g.scopes[g.scope])) \ deleted)

(* The fused form of a pair, "" when it has none.                          *)
FusedOp(a, b, bound) ==
    IF a.arg >= 16 \/ b.arg >= 16 THEN ""
    ELSE CASE a.op = "LOAD_FAST" /\ b.op = "LOAD_FAST" /\ {a.arg, b.arg} \subseteq bound ->
                "LOAD_FAST_LOAD_FAST"
           [] a.op = "STORE_FAST" /\ b.op = "LOAD_FAST" /\ (b.arg \in bound \/ b.arg = a.arg) ->
                "STORE_FAST_LOAD_FAST"
           [] a.op = "STORE_FAST" /\ b.op = "STORE_FAST" -> "STORE_FAST_STORE_FAST"
           [] OTHER -> ""

CanFuse(g, marks, i, bound) ==
    /\ i + 1 < Len(g.ins)
    /\ Ins(g, i).lab = 0 /\ Ins(g, i + 1).lab = 0
    /\ i + 1 \notin marks
    /\ FusedOp(Ins(g, i), Ins(g, i + 1), bound) # ""

(* LOAD_CONST None; IS_OP; [TO_BOOL;] POP_JUMP_IF_x: the position of the   *)
(* jump, or -1.                                                            *)
NoneJumpAt(g, marks, i) ==
    LET n == Len(g.ins)
        k2 == IF Ins(g, i + 2).op = "TO_BOOL" /\ i + 2 \notin marks /\ i + 3 < n
              THEN i + 3 ELSE i + 2
    IN  IF /\ i + 2 < n
           /\ Ins(g, i).op = "LOAD_CONST" /\ Ins(g, i).lab = 0
           /\ g.consts[Ins(g, i).arg + 1] = <<"none">>
           /\ Ins(g, i + 1).op = "IS_OP" /\ i + 1 \notin marks /\ Ins(g, i + 1).lab = 0
           /\ k2 \notin marks
           /\ Ins(g, k2).op \in {"POP_JUMP_IF_FALSE", "POP_JUMP_IF_TRUE"}
        THEN k2 ELSE 0 - 1

NoneJump(g, i, k2) ==
    LET onTrue == Ins(g, k2).op = "POP_JUMP_IF_TRUE"
        jumpNone == IF Ins(g, i + 1).arg = 1 THEN ~onTrue ELSE onTrue
    IN  [op |-> IF jumpNone THEN "POP_JUMP_IF_NONE" ELSE "POP_JUMP_IF_NOT_NONE",
         arg |-> 0, lab |-> Ins(g, k2).lab]

StoredIn(a, b) == {x.arg : x \in {y \in {a, b} : y.op = "STORE_FAST"}}

(* What is known to be bound before an instruction: at a label or a row    *)
(* boundary control may come from anywhere.                                *)
BoundKept(i, marks, always, bound) == bound
BoundAt(i, marks, always, bound) == IF i \in marks \/ i = 0 THEN always ELSE bound

(* w: out the new instructions, pos the new position of each old one, next *)
(* the first position not yet taken.                                       *)
Scan(g, marks, always) ==
    LET Step(w, i) ==
          LET bound == BoundAt(i, marks, always, w.bound)
              a == Ins(g, i)
              b == Ins(g, i + 1)
              k2 == NoneJumpAt(g, marks, i)
              At(x, width, known) ==
                  [out |-> Append(w.out, x), next |-> i + width, bound |-> known,
                   pos |-> w.pos \o [m \in 1..width |-> Len(w.out)]]
          IN  CASE i < w.next -> w
                [] i >= w.next /\ CanFuse(g, marks, i, bound) ->
                      At([op |-> FusedOp(a, b, bound), arg |-> 16 * a.arg + b.arg, lab |-> 0],
                         2, bound \cup StoredIn(a, b))
                [] i >= w.next /\ k2 >= 0 -> At(NoneJump(g, i, k2), k2 - i + 1, bound)
                [] OTHER -> At(a, 1, CASE a.op = "STORE_FAST" -> bound \cup {a.arg}
                                       [] a.op = "DELETE_FAST" -> bound \ ({a.arg} \ CellSlots(g))
                                       [] OTHER -> bound)
        done == Thread(Step, [out |-> <<>>, pos |-> <<>>, next |-> 0, bound |-> always],
                       [i \in 1..Len(g.ins) |-> i - 1])
    IN  [done EXCEPT !.pos = Append(@, Len(done.out))]

Peephole(g) ==
    LET w == Scan(g, Marks(g), AlwaysBound(g))
        At(p) == w.pos[p + 1]
    IN  IF Len(g.ins) < 2 THEN g
        ELSE [g EXCEPT !.ins = w.out,
                       !.labs = [l \in DOMAIN @ |-> At(@[l])],
                       !.rows = [r \in DOMAIN @ |->
                                   [@[r] EXCEPT !.start = At(@), !.end = At(@), !.target = At(@)]]]

-----------------------------------------------------------------------------
(* Jump arguments.  The machine adds n_cache to every taken branch.        *)

CondJumps == {"POP_JUMP_IF_FALSE", "POP_JUMP_IF_TRUE",
              "POP_JUMP_IF_NONE", "POP_JUMP_IF_NOT_NONE"}

NCacheAlways(op) == 1
NCache(op) == IF op = "JUMP_FORWARD" THEN 0 ELSE 1

Resolve(g, i) ==
    LET a == Ins(g, i)
        target == g.labs[a.lab]
        nc == NCache(a.op)
        delta == IF target >= i THEN target - i - 1 - nc ELSE i + 1 + nc - target
    IN  IF a.lab = 0 THEN [op |-> a.op, arg |-> a.arg]
        ELSE IF delta >= 0 THEN [op |-> a.op, arg |-> delta]
        \* a branch over an empty suite: only the pop of the condition is left
        ELSE IF delta = 0 - 1 /\ a.op \in CondJumps THEN [op |-> "POP_TOP", arg |-> 0]
        ELSE [op |-> "negative jump", arg |-> 0]

-----------------------------------------------------------------------------
(* The stack size: one pass over the instructions in order.                *)

Pushes1 == {"LOAD_SMALL_INT", "LOAD_CONST", "LOAD_NAME", "LOAD_FAST", "LOAD_DEREF",
            "PUSH_NULL", "COPY", "FOR_ITER", "PUSH_EXC_INFO"}
Pops1 == {"STORE_NAME", "STORE_GLOBAL", "STORE_FAST", "STORE_DEREF", "POP_TOP",
          "BINARY_OP", "COMPARE_OP", "IS_OP", "CONTAINS_OP", "RETURN_VALUE", "END_FOR",
          "POP_ITER", "DELETE_ATTR", "LIST_EXTEND", "SET_UPDATE", "DICT_UPDATE",
          "DICT_MERGE", "SET_FUNCTION_ATTRIBUTE", "LIST_APPEND", "SET_ADD", "POP_EXCEPT"}
         \cup CondJumps
Pops2 == {"STORE_ATTR", "DELETE_SUBSCR", "STORE_FAST_STORE_FAST", "BINARY_SLICE", "MAP_ADD"}

StackEffect(a) ==
    CASE a.op = "LOAD_GLOBAL" -> 1 + (a.arg % 2)
      [] a.op \in Pushes1 -> 1
      [] a.op = "LOAD_ATTR" -> a.arg % 2
      [] a.op \in Pops1 -> 0 - 1
      [] a.op = "LOAD_FAST_LOAD_FAST" -> 2
      [] a.op \in {"CALL_FUNCTION_EX", "STORE_SUBSCR"} -> 0 - 3
      [] a.op = "UNPACK_EX" -> (a.arg % 256) + (a.arg \div 256)
      [] a.op \in Pops2 -> 0 - 2
      [] a.op = "CALL" -> 0 - (a.arg + 1)
      [] a.op = "CALL_KW" -> 0 - (a.arg + 2)
      [] a.op \in {"BUILD_LIST", "BUILD_TUPLE", "BUILD_SET", "BUILD_STRING"} -> 1 - a.arg
      [] a.op = "BUILD_MAP" -> 1 - 2 * a.arg
      [] a.op = "UNPACK_SEQUENCE" -> a.arg - 1
      [] a.op = "RAISE_VARARGS" -> IF a.arg = 1 THEN 0 - 1 ELSE 0
      [] OTHER -> 0

AtLeast(x, floor) == IF x < floor THEN floor ELSE x

RECURSIVE DeepestFrom(_, _, _, _)
DeepestFrom(ins, i, depth, max) ==
    IF depth > max THEN DeepestFrom(ins, i, depth, depth)
    ELSE IF i > Len(ins) THEN max
    ELSE DeepestFrom(ins, i + 1, AtLeast(depth + StackEffect(ins[i]), 0), max)

StackSize(ins) == DeepestFrom(ins, 1, 0, 0)

-----------------------------------------------------------------------------
(* The exception table: four varints a row, most significant chunk first,  *)
(* bit 6 set on all but the last chunk, bit 7 on the first byte of a row.  *)

RECURSIVE Chunks(_)
Chunks(val) == IF val < 64 THEN <<val>> ELSE Append(Chunks(val \div 64), val % 64)

Varint(val) ==
    LET c == Chunks(val) IN [i \in DOMAIN c |-> IF i < Len(c) THEN c[i] + 64 ELSE c[i]]

RowBytes(r) ==
    LET first == Varint(r.start)
    IN  <<first[1] + 128>> \o Tail(first) \o Varint(r.end - r.start)
        \o Varint(r.target) \o Varint(2 * r.depth + r.lasti)

ExcTableBytes(rows) == FlattenSeq([i \in DOMAIN rows |-> RowBytes(rows[i])])

(* The reader: a value and the position after it.                          *)
RECURSIVE ParseVarint(_, _, _)
ParseVarint(bytes, at, high) ==
    LET value == 64 * high + (bytes[at] % 64)
    IN  IF (bytes[at] \div 64) % 2 = 1 THEN ParseVarint(bytes, at + 1, value)
        ELSE [value |-> value, at |-> at + 1]

RECURSIVE ParseTable(_, _)
ParseTable(bytes, at) ==
    IF at > Len(bytes) THEN <<>>
    ELSE LET start == ParseVarint(bytes, at, 0)
             length == ParseVarint(bytes, start.at, 0)
             target == ParseVarint(bytes, length.at, 0)
             packed == ParseVarint(bytes, target.at, 0)
         IN  <<[start |-> start.value, end |-> start.value + length.value,
                target |-> target.value, depth |-> packed.value \div 2,
                lasti |-> packed.value % 2]>> \o ParseTable(bytes, packed.at)

-----------------------------------------------------------------------------
RF_WINDOW_CAP == 240

Assemble(g0) ==
    LET g == Peephole(g0)
        sc == g.scopes[g.scope]
        ins == [i \in DOMAIN g.ins |-> Resolve(g, i - 1)]
        size == StackSize(ins)
        err == IF g.err # "" THEN g.err
               ELSE IF \E i \in DOMAIN ins : ins[i].op = "negative jump"
               THEN "internal: negative jump offset"
               ELSE IF Len(sc.names) + size > RF_WINDOW_CAP THEN "frame window too large"
               ELSE ""
    IN  [ins |-> ins, consts |-> g.consts, names |-> g.names, varnames |-> sc.names,
         nlocals |-> Len(sc.names), nfree |-> sc.nfree, stacksize |-> AtLeast(size, 1),
         argcount |-> sc.argc, kwonly |-> sc.kwonly, flags |-> sc.flags,
         defaults |-> sc.defaults, kwdefaults |-> sc.kwdefaults,
         exctable |-> ExcTableBytes(g.rows), err |-> err]
=============================================================================
