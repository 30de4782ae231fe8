---------------------------- MODULE SharedMemory ----------------------------
(***************************************************************************)
(* What the trap handoff promises its two masters: one memory, used by     *)
(* PYCORE and EXCORE in turns.  A read returns the last value written,     *)
(* whoever wrote it, and only the owner of the memory uses it              *)
(* (pycore_excore_system.sv, "Memory ownership").  Caches, the flush, the  *)
(* invalidation and the mailbox are not visible at this level.             *)
(***************************************************************************)
CONSTANTS Addrs, Vals

VARIABLES
    owner,   \* mem_owner_r
    mem,     \* the memory both masters believe in
    last     \* the last completed access: by whom, what, where, which value

Masters  == {"PYCORE", "EXCORE"}
Accesses == [by : Masters, we : BOOLEAN, a : Addrs, v : Vals]
NoAccess == [by |-> "NONE", we |-> FALSE,
             a |-> CHOOSE a \in Addrs : TRUE, v |-> CHOOSE v \in Vals : TRUE]

Init ==
    /\ owner = "PYCORE"
    /\ mem \in [Addrs -> Vals]
    /\ last = NoAccess

Read(a) ==
    /\ last' = [by |-> owner, we |-> FALSE, a |-> a, v |-> mem[a]]
    /\ UNCHANGED <<owner, mem>>

Write(a, v) ==
    /\ mem' = [mem EXCEPT ![a] = v]
    /\ last' = [by |-> owner, we |-> TRUE, a |-> a, v |-> v]
    /\ UNCHANGED owner

\* The trap request and the trap result.
Call   == owner = "PYCORE" /\ owner' = "EXCORE" /\ UNCHANGED <<mem, last>>
Return == owner = "EXCORE" /\ owner' = "PYCORE" /\ UNCHANGED <<mem, last>>

Next ==
    \/ \E a \in Addrs : Read(a)
    \/ \E a \in Addrs, v \in Vals : Write(a, v)
    \/ Call
    \/ Return

Spec == Init /\ [][Next]_<<owner, mem, last>>
=============================================================================
