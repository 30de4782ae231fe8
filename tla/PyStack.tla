------------------------------ MODULE PyStack ------------------------------
(***************************************************************************)
(* The reference evaluation stack of a Python program: one unbounded array *)
(* of values that only grows and shrinks at its top.  A frame owns the     *)
(* slots from its base upwards: first its locals, then its operands.  This *)
(* is what the bytecode compiler assumes of the machine, and what the ring *)
(* of 256 registers, its spill area and its 8-bit pointers (RfWindow) have *)
(* to look like to every instruction.  Slots are numbered from 0.          *)
(***************************************************************************)
EXTENDS Integers

\* A code object, as far as its frame is concerned.  nlocals and stacksize
\* are the co_metadata fields the CALL state machine reads; peak is the
\* operand depth its bytecode really reaches; params of the locals are
\* parameters and the last dflt of them have defaults; handlers are the
\* depth and lasti fields of its exception table.
CodeObjects == [name : STRING, nlocals : Nat, stacksize : Nat, peak : Nat,
                params : Nat, dflt : Nat,
                handlers : SUBSET [depth : Nat, lasti : {0, 1}]]

\* One frame's size, as declared and as used.
Need(c) == c.nlocals + c.stacksize
Used(c) == c.nlocals + c.peak

Write(stk, k, v) == [stk EXCEPT ![k] = v]

Push(stk, top, v) == [k \in 0..top |-> IF k = top THEN v ELSE stk[k]]

Cut(stk, n) == [k \in 0..(n - 1) |-> stk[k]]

\* The stack after a call: the p arguments on top become the first locals,
\* parameters not passed take their default, the other locals are unbound.
Enter(stk, newBase, p, c, default, unbound) ==
    [k \in 0..(newBase + c.nlocals - 1) |->
        IF k < newBase + p THEN stk[k]
        ELSE IF k < newBase + c.params THEN default
        ELSE unbound]
=============================================================================
