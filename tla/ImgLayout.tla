---------------------------- MODULE ImgLayout -------------------------------
(***************************************************************************)
(* When two layouts of a code object do the same: the instructions stand   *)
(* in both in the same order, go on at corresponding places and find       *)
(* corresponding handlers; and which code objects Strip can lay out so.    *)
(***************************************************************************)
EXTENDS ImgPipeline
-----------------------------------------------------------------------------
(* What the machine knows *)

Straight == {"NOP", "CACHE", "RESUME", "NOT_TAKEN", "TO_BOOL", "LOAD_CONST", "LOAD_SMALL_INT",
             "LOAD_NAME", "LOAD_FAST", "PUSH_NULL", "COPY", "POP_TOP", "POP_ITER", "MAKE_FUNCTION",
             "BUILD_MAP", "BUILD_LIST", "LIST_EXTEND", "PUSH_EXC_INFO", "POP_EXCEPT", "CHECK_EXC_MATCH"}
CallOps == {"CALL", "CALL_FUNCTION_EX"}
EffectOps == CallOps \cup {"STORE_NAME", "STORE_FAST", "BINARY_OP", "BINARY_SLICE", "CALL_INTRINSIC_1",
              "GET_ITER", "FOR_ITER", "POP_JUMP_IF_FALSE", "RETURN_VALUE"}
Known == Straight \cup EffectOps \cup {"JUMP_FORWARD", "JUMP_BACKWARD", "RERAISE"}

\* Nothing goes on behind these.
Final == {"RETURN_VALUE", "RERAISE", "JUMP_FORWARD", "JUMP_BACKWARD"}

-----------------------------------------------------------------------------
(* Two layouts of the same instructions *)

\* A unit of an object, and what the first j prefixes at u make of an argument.
UnitOf(obj, u) == obj.code[obj.at + u + 1]
Lead(obj, u, j) ==
    IF j = 0 THEN 0
    ELSE IF j = 1 THEN UnitOf(obj, u).arg ELSE UnitOf(obj, u).arg * RADIX + UnitOf(obj, u + 1).arg

\* At u stands an instruction.
Stands(obj, u, ext, op, arg) ==
    /\ \A j \in 0..(ext - 1) : UnitOf(obj, u + j).op = "EXTENDED_ARG"
    /\ \A j \in 0..ext : UnitOf(obj, u + j).arg \in Nat
    /\ UnitOf(obj, u + ext).op = op
    /\ Lead(obj, u, ext) * RADIX + UnitOf(obj, u + ext).arg = arg

Covers(entry, u) == entry.start <= u /\ u < entry.end
Target(op, from, arg) == IF op \in Backward THEN from - arg ELSE from + arg

\* Instruction k of all: where it stands on the host (h) and on the hart (t),
\* where it begins there (ns) and the argument it has there (na).
SameUnits(h, t, all, ns, na, k) ==
    LET i == all[k]
    IN  /\ i.op # "EXTENDED_ARG" /\ i.ext \in 0..2 /\ i.start \in Nat /\ ns[k] \in Nat
        /\ i.end = i.start + i.ext + 1 + CacheUnits(i.op)
        /\ Stands(h, i.start, i.ext, i.op, i.arg)
        /\ \A u \in (i.start + i.ext + 1)..(i.end - 1) : UnitOf(h, u).op = "CACHE"
        /\ i.op \in Known => Stands(t, ns[k], i.ext, i.op, na[k])
        /\ i.op \notin Jumps => na[k] = i.arg
        /\ \/ ns[k + 1] = ns[k] + i.ext + 1
           \/ /\ CacheUnits(i.op) > 0 /\ ns[k + 1] = ns[k] + i.ext + 2
              /\ UnitOf(t, ns[k] + i.ext + 1).op = "NOP"

\* It goes on at corresponding places.
SameFlow(h, t, all, ns, na, k) ==
    LET i == all[k]
        goes(b) ==
            /\ all[b].start = Target(i.op, i.end, i.arg)
            /\ ns[b] = Target(i.op, ns[k] + i.ext + 1 + CacheUnits(i.op), na[k])
            /\ IF i.op # "FOR_ITER" THEN all[b].op \in Known
               ELSE /\ b < Len(all) /\ all[b].ext = 0 /\ CacheUnits(all[b].op) = 0
                    /\ all[b + 1].op \in Known
    IN  /\ k < Len(all) => all[k + 1].start = i.end
        /\ i.op \in Known \ Final => k < Len(all) /\ all[k + 1].op \in Known
        /\ i.op \in Jumps \cap Known => \E b \in 1..Len(all) : goes(b)

\* An exception there finds the same handler, whose instruction is the same.
SameHandler(h, t, all, ns, e) ==
    /\ t.exc[e].depth = h.exc[e].depth /\ t.exc[e].lasti = h.exc[e].lasti
    /\ \E c \in 1..Len(all) :
          h.exc[e].target = all[c].start /\ t.exc[e].target = ns[c] /\ all[c].op \in Known
    /\ \A k \in 1..Len(all) :
          LET u == all[k].start + all[k].ext
              v == ns[k] + all[k].ext
          IN  /\ Covers(h.exc[e], u) <=> Covers(t.exc[e], v)
              /\ all[k].op \in CallOps => (Covers(h.exc[e], u) <=> Covers(t.exc[e], v + 1))

SameLayout(h, t, all, ns, na) ==
    /\ Len(all) \in Nat /\ Len(all) > 0
    /\ all[1].start = 0 /\ ns[1] = 0 /\ all[1].op \in Known
    /\ \A k \in 1..Len(all) : SameUnits(h, t, all, ns, na, k) /\ SameFlow(h, t, all, ns, na, k)
    /\ DOMAIN t.exc = DOMAIN h.exc /\ DOMAIN h.exc \subseteq Nat
    /\ \A e \in DOMAIN h.exc : SameHandler(h, t, all, ns, e)
    /\ t.names = h.names /\ t.consts = h.consts
    /\ h.illegal \cap (Known \cup {"EXTENDED_ARG"}) = {}
    /\ t.illegal \cap (Known \cup {"EXTENDED_ARG"}) = {}
-----------------------------------------------------------------------------
(* Corresponding machines *)

IsMachine(m) == m = [pc |-> m.pc, ext |-> m.ext, stack |-> m.stack, deepest |-> m.deepest, out |-> m.out]

\* Both are in instruction k, behind j of its prefixes ...
At2(h, t, all, ns, m, c, k, j) ==
    /\ m.pc = all[k].start + j /\ m.ext = Lead(h, all[k].start, j)
    /\ c.pc = ns[k] + j /\ c.ext = Lead(t, ns[k], j)
Inside(h, t, all, ns, m, c, k) ==
    all[k].op \in Known /\ \E j \in 0..all[k].ext : At2(h, t, all, ns, m, c, k, j)
\* ... or the host is in its CACHE units, and the hart at the unit that stands
\* for them or behind it.
Behind(all, ns, m, c, k) ==
    /\ k < Len(all) /\ all[k + 1].op \in Known
    /\ m.pc \in (all[k].start + all[k].ext + 1)..(all[k].end - 1) /\ m.ext = 0 /\ c.ext = 0
    /\ c.pc = IF m.pc = all[k].start + all[k].ext + 1 THEN ns[k] + all[k].ext + 1 ELSE ns[k + 1]

Alike(h, t, all, ns, m, c) ==
    /\ IsMachine(m) /\ IsMachine(c) /\ m.stack = c.stack /\ m.out = c.out
    /\ \/ m.out # <<>>
       \/ \E k \in 1..Len(all) : Inside(h, t, all, ns, m, c, k) \/ Behind(all, ns, m, c, k)
-----------------------------------------------------------------------------
(* Code that can be laid out *)

\* From unit p on: n prefixes, an opcode and its CACHE units.
Complete(code, p, n) ==
    LET op == At(code, p + n).op
    IN  /\ op # "EXTENDED_ARG" /\ \A j \in 0..(n - 1) : At(code, p + j).op = "EXTENDED_ARG"
        /\ p + n + 1 + CacheUnits(op) <= Len(code)
        /\ \A u \in (p + n + 1)..(p + n + CacheUnits(op)) : At(code, u).op = "CACHE"
WellFormed(code) ==
    /\ code \in Seq([op : STRING, arg : 0..(RADIX - 1)])
    /\ Len(code) > 0 /\ Len(code) < RADIX * RADIX * RADIX
    /\ \A p \in 0..(Len(code) - 1) : \E n \in 0..2 : Complete(code, p, n)

\* Control stays in the code and in what the machine knows, a loop ends at an
\* END_FOR, and the exception table speaks of instructions.  No protected
\* range begins right behind a call, and none ends behind CALL_FUNCTION_EX:
\* there the hart looks an exception of the callee up in another range than
\* the host, and Strip does not prevent it.
\* Jump k goes to instruction b.
JumpsTo(all, k, b) ==
    /\ all[b].start = Target(all[k].op, all[k].end, all[k].arg)
    /\ IF all[k].op # "FOR_ITER" THEN all[b].op \in Known
       ELSE /\ b < Len(all) /\ all[b].ext = 0 /\ CacheUnits(all[b].op) = 0
            /\ all[b + 1].op \in Known
Protects(co, all, x) ==
    /\ \E a \in 1..Len(all) : all[a].start = x.start
    /\ x.end = Len(co.code) \/ \E b \in 1..Len(all) : all[b].start = x.end
    /\ \E c \in 1..Len(all) : all[c].start = x.target /\ all[c].op \in Known
    /\ \A k \in 1..Len(all) :
          /\ all[k].op \in CallOps => x.start # all[k].end
          /\ all[k].op = "CALL_FUNCTION_EX" => x.end # all[k].end
Lays(co) ==
    LET all == Instructions(co.code)
    IN  /\ WellFormed(co.code) /\ all[1].op \in Known
        /\ \A k \in 1..Len(all) :
              /\ all[k].op \in Known \ Final => k < Len(all) /\ all[k + 1].op \in Known
              /\ all[k].op \in Jumps \cap Known => \E b \in 1..Len(all) : JumpsTo(all, k, b)
        /\ DOMAIN co.exc \subseteq Nat
        /\ \A e \in DOMAIN co.exc :
              /\ co.exc[e] \in [start : Nat, end : Nat, target : Nat, depth : Nat, lasti : BOOLEAN]
              /\ Protects(co, all, co.exc[e])

\* The object has this code at its units.
HoldsCode(obj, code) == \A u \in 0..(Len(code) - 1) : UnitOf(obj, u) = At(code, u)

\* Strip can lay it out.
Strips(co) == Strip(co).bad = ""

\* The host runs co, and the hart what Strip makes of it, wherever that lies.
StrippedFrom(p, co) ==
    /\ Lays(co) /\ Strips(co)
    /\ p.host.code = co.code /\ p.host.at = 0 /\ p.host.exc = co.exc /\ p.host.illegal = {}
    /\ HoldsCode(p.hart, Strip(co).code) /\ p.hart.exc = Strip(co).exc
    /\ p.hart.illegal = {"SET_FUNCTION_ATTRIBUTE", "LOAD_BUILD_CLASS", "JUMP_BACKWARD_NO_INTERRUPT"}
    /\ p.hart.names = p.host.names /\ p.hart.consts = p.host.consts
=============================================================================
