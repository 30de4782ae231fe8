---------------------------- MODULE TrapHandoff ----------------------------
(***************************************************************************)
(* The handoff of memory between pycore and the excore hart around a       *)
(* recoverable trap: S_TRAP_MARSHAL / S_TRAP_WAIT of pycore_core.sv, the   *)
(* owner gate of pycore_excore_system.sv, the flush / invalidate sequencer *)
(* of pycore_mem_hier.sv, trap_mailbox.sv, the slot port of                *)
(* excore_mmio.sv and the polling loop of the firmware (list_grow.s).      *)
(*                                                                         *)
(* Everything is clocked, so a step is one clock edge and the step of the  *)
(* system is the conjunction of one step of each part, each computed from  *)
(* the unprimed registers.  Latencies (a miss, a write-back, a fill in     *)
(* flight, the crossbar) are steps that may be put off.  The L1 data cache *)
(* is a partial map of lines over what lies below it (L2 and RAM, l2); sets*)
(* and ways are left out, so any line may be the victim.                   *)
(***************************************************************************)
EXTENDS Integers, FiniteSets

CONSTANTS
    Addrs, Vals,
    Zero,        \* the value of a zero line, written past the L1D
    CACHE_EN,    \* FALSE: the caches are combinational pass-throughs
    GC_EN,       \* FALSE: NEED_HEAP is fatal
    MAX_PUSH,    \* largest RES_PUSH_COUNT
    NEED_DELAY,  \* extra mailbox cycles of a NEED_HEAP result (4)
    HART_GAP,    \* fewest cycles between two MMIO accesses of the hart
    MAX_TRAPS,   \* bound: traps raised in a run
    MAX_SLOT_OPS \* bound: slot port accesses while serving one trap

ASSUME HandoffAssumption ==
    /\ Zero \in Vals
    /\ CACHE_EN \in BOOLEAN /\ GC_EN \in BOOLEAN
    /\ MAX_PUSH \in Nat /\ NEED_DELAY \in Nat \ {0}
    /\ HART_GAP \in Nat \ {0}
    /\ MAX_TRAPS \in Nat /\ MAX_SLOT_OPS \in Nat

VARIABLES
    \* pycore
    st,          \* state_r, and which half of an access is under way
    gc,          \* the collector runs
    op,          \* the request on the dmem port
    raised,      \* number of traps raised: the identity of the last one
    seen, res,   \* trap_res_seen_r and the latched result
    pushes,      \* trap_wait_push_idx_r
    \* trap_mailbox.sv
    mb, delay, mbTrap, mbRes,
    \* the owner gate
    owner, flushReq, flushIssued, flushOk, invReq, invIssued, invOk,
    \* the sequencer
    seq, flushPend, invPend, flushDone, invDone, flushAll, invAll,
    \* the L1D and what is below it
    l1d, line, fills, ack, l1FlushDone, l1InvDone, l2,
    \* excore: firmware, hart, slot port
    pc, gap, exTrap, slotOps, resGo, exRes, spOp, sp, served,
    last         \* history: the last completed access, see SharedMemory

core == <<st, gc, op, raised, seen, res, pushes>>
mail == <<mb, delay, mbTrap, mbRes>>
gate == <<owner, flushReq, flushIssued, flushOk, invReq, invIssued, invOk>>
sqr  == <<seq, flushPend, invPend, flushDone, invDone, flushAll, invAll>>
l1   == <<l1d, line, fills, ack, l1FlushDone, l1InvDone>>
fw   == <<pc, gap, exTrap, slotOps, resGo, exRes, spOp, served>>
vars == <<core, mail, gate, sqr, l1, l2, fw, sp, last>>

-----------------------------------------------------------------------------
ResCodes == {"COMPLETED", "RETRY", "NEED_HEAP", "FATAL"}
Results  == [code : ResCodes, push : 0..MAX_PUSH, trap : 0..MAX_TRAPS]
NoRes    == [code |-> "FATAL", push |-> 0, trap |-> 0]
Ops      == [kind : {"read", "write"}, a : Addrs, v : Vals]
NoOp     == [kind |-> "none", a |-> CHOOSE a \in Addrs : TRUE, v |-> Zero]

Absent     == [s |-> "absent", v |-> Zero]
Clean(v)   == [s |-> "clean", v |-> v]
Dirty(v)   == [s |-> "dirty", v |-> v]
LineStates == {Absent} \cup [s : {"clean", "dirty"}, v : Vals]
NoFill     == [s |-> "none", v |-> Zero]
Asked      == [s |-> "asked", v |-> Zero]
Answered(v) == [s |-> "answered", v |-> v]
FillStates == {NoFill, Asked} \cup [s : {"answered"}, v : Vals]

Present(a) == line[a].s # "absent"
Filling    == \E a \in Addrs : fills[a].s # "none"          \* nb_busy
Draining   == {a \in Addrs : Present(a)}

\* What a read by pycore returns.
View == [a \in Addrs |-> IF line[a].s = "absent" THEN l2[a] ELSE line[a].v]

\* The one memory the two masters should see.
Shared == INSTANCE SharedMemory WITH mem <- View

\* The combinational wires between the parts.
trapReqValid == st = "MARSHAL"
trapReqReady == mb = "IDLE" /\ flushOk
trapResValid == mb = "RES_VALID" /\ invOk
trapResReady == st = "WAIT" /\ seen /\ pushes >= res.push
dmemReq      == op # NoOp /\ owner = "PYCORE"
quiesce      == seq # "IDLE"
l1dIdle      == l1d = "IDLE" /\ ~Filling

-----------------------------------------------------------------------------
Init ==
    /\ st = "RUN" /\ gc = FALSE /\ op = NoOp /\ raised = 0
    /\ seen = FALSE /\ res = NoRes /\ pushes = 0
    /\ mb = "IDLE" /\ delay = 0 /\ mbTrap = 0 /\ mbRes = NoRes
    /\ owner = "PYCORE"
    /\ flushReq = FALSE /\ flushIssued = FALSE /\ flushOk = FALSE
    /\ invReq = FALSE /\ invIssued = FALSE /\ invOk = FALSE
    /\ seq = "IDLE" /\ flushPend = FALSE /\ invPend = FALSE
    /\ flushDone = FALSE /\ invDone = FALSE
    /\ flushAll = FALSE /\ invAll = FALSE
    /\ l1d = "IDLE"
    /\ line = [a \in Addrs |-> Absent]
    /\ fills = [a \in Addrs |-> NoFill]
    /\ ack = FALSE /\ l1FlushDone = FALSE /\ l1InvDone = FALSE
    /\ l2 \in [Addrs -> Vals]
    /\ pc = "POLL" /\ gap = 0 /\ exTrap = 0 /\ slotOps = 0
    /\ resGo = FALSE /\ exRes = NoRes
    /\ spOp = NoOp /\ sp = "idle" /\ served = 0
    /\ last = Shared!NoAccess

-----------------------------------------------------------------------------
\* pycore.  Between two instructions it may do anything a program or the
\* collector does: wait, access memory, start or end a collection, trap.

CoreRun ==
    /\ st = "RUN"
    /\ UNCHANGED core

CoreAccess ==
    /\ st = "RUN"
    /\ op' \in Ops
    /\ st' = "MEM"
    /\ UNCHANGED <<gc, raised, seen, res, pushes>>

\* The request stays up until its acknowledge.
CoreAccessEnds ==
    /\ st = "MEM"
    /\ st' = IF ack THEN "RUN" ELSE "MEM"
    /\ op' = IF ack THEN NoOp ELSE op
    /\ UNCHANGED <<gc, raised, seen, res, pushes>>

\* S_GC_ENTER; the marking loop's prefetches are still in flight when the
\* collection ends.
CoreCollects ==
    /\ st = "RUN" /\ GC_EN
    /\ gc' = ~gc
    /\ UNCHANGED <<st, op, raised, seen, res, pushes>>

CoreTraps ==
    /\ st = "RUN" /\ ~gc
    /\ raised < MAX_TRAPS
    /\ raised' = raised + 1
    /\ st' = "MARSHAL"
    /\ UNCHANGED <<gc, op, seen, res, pushes>>

CoreMarshals ==
    /\ st = "MARSHAL"
    /\ st' = IF trapReqReady THEN "WAIT" ELSE "MARSHAL"
    /\ seen' = IF trapReqReady THEN FALSE ELSE seen
    /\ pushes' = IF trapReqReady THEN 0 ELSE pushes
    /\ UNCHANGED <<gc, op, raised, res>>

CoreWaits ==
    /\ st = "WAIT" /\ ~trapResValid /\ ~seen
    /\ UNCHANGED core

CoreLatches ==
    /\ st = "WAIT" /\ trapResValid /\ ~seen
    /\ res' = mbRes
    /\ seen' = TRUE
    /\ pushes' = 0
    /\ UNCHANGED <<st, gc, op, raised>>

CorePushes ==
    /\ st = "WAIT" /\ seen /\ ~trapResReady
    /\ pushes' = pushes + 1
    /\ UNCHANGED <<st, gc, op, raised, seen, res>>

\* FATAL halts, and so does NEED_HEAP without a collector; COMPLETED goes on
\* and RETRY dispatches the instruction again.
CoreResumes ==
    /\ trapResReady
    /\ seen' = FALSE
    /\ \/ /\ res.code \in {"COMPLETED", "RETRY"}
          /\ st' = "RUN" /\ UNCHANGED gc
       \/ /\ res.code = "NEED_HEAP" /\ GC_EN
          /\ st' = "RUN" /\ gc' = TRUE
       \/ /\ \/ res.code = "FATAL"
             \/ res.code = "NEED_HEAP" /\ ~GC_EN
          /\ st' = "HALT" /\ UNCHANGED gc
    /\ UNCHANGED <<op, raised, res, pushes>>

CoreHalted ==
    /\ st = "HALT"
    /\ UNCHANGED core

CoreClk ==
    \/ CoreRun \/ CoreAccess \/ CoreAccessEnds \/ CoreCollects \/ CoreTraps
    \/ CoreMarshals \/ CoreWaits \/ CoreLatches \/ CorePushes \/ CoreResumes
    \/ CoreHalted

-----------------------------------------------------------------------------
\* trap_mailbox.sv.  A NEED_HEAP result is held back NEED_DELAY cycles.

MbIdle ==
    /\ mb = "IDLE"
    /\ IF trapReqValid /\ flushOk
       THEN mb' = "WAIT_RES" /\ mbTrap' = raised
       ELSE UNCHANGED <<mb, mbTrap>>
    /\ UNCHANGED <<delay, mbRes>>

MbWaitRes ==
    /\ mb = "WAIT_RES"
    /\ IF resGo
       THEN /\ mbRes' = exRes
            /\ IF exRes.code = "NEED_HEAP"
               THEN mb' = "NEED_DELAY" /\ delay' = NEED_DELAY
               ELSE mb' = "RES_VALID" /\ UNCHANGED delay
       ELSE UNCHANGED <<mb, delay, mbRes>>
    /\ UNCHANGED mbTrap

\* Mutant: one cycle too many.
MbNeedDelayLate ==
    /\ mb = "NEED_DELAY"
    /\ delay' = delay - 1
    /\ mb' = IF delay = 0 THEN "RES_VALID" ELSE "NEED_DELAY"
    /\ UNCHANGED <<mbTrap, mbRes>>

MbNeedDelay ==
    /\ mb = "NEED_DELAY"
    /\ delay' = delay - 1
    /\ mb' = IF delay = 1 THEN "RES_VALID" ELSE "NEED_DELAY"
    /\ UNCHANGED <<mbTrap, mbRes>>

MbResValid ==
    /\ mb = "RES_VALID"
    /\ mb' = IF trapResReady THEN "IDLE" ELSE "RES_VALID"
    /\ UNCHANGED <<delay, mbTrap, mbRes>>

MbClk == MbIdle \/ MbWaitRes \/ MbNeedDelay \/ MbResValid

-----------------------------------------------------------------------------
\* The owner gate: the mailbox's request side is hidden until the L1D is
\* flushed, its result side until the L1D is invalidated.

GiveToExcore == owner = "PYCORE" /\ trapReqValid /\ trapReqReady
GiveToPycore == owner = "EXCORE" /\ trapResValid /\ trapResReady

IssueFlush == owner = "PYCORE" /\ trapReqValid /\ ~flushOk /\ ~flushIssued
IssueInv   == owner = "EXCORE" /\ mb = "RES_VALID" /\ ~invOk /\ ~invIssued

\* What lets the request through, closes the flush, lets the result through.
Gate(flushed, flushOver, invalidated) ==
    /\ owner' = IF GiveToExcore THEN "EXCORE"
                ELSE IF GiveToPycore THEN "PYCORE" ELSE owner
    /\ flushReq' = IssueFlush
    /\ flushIssued' = IF flushOver THEN FALSE ELSE flushIssued \/ IssueFlush
    /\ flushOk' = IF flushed THEN TRUE ELSE flushOk /\ ~GiveToExcore
    /\ invReq' = IssueInv
    /\ invIssued' = IF invDone THEN FALSE ELSE invIssued \/ IssueInv
    /\ invOk' = IF invalidated THEN TRUE ELSE invOk /\ ~GiveToPycore

\* Mutants: the request, or the result, goes through as soon as the flush,
\* or the invalidation, is asked for; the flush is never closed.
GateClkEarlyTrap   == Gate(IssueFlush, flushDone, invDone)
GateClkEarlyResult == Gate(flushDone, flushDone, IssueInv)
GateClkStuck       == Gate(flushDone, FALSE, invDone)

GateClk == Gate(flushDone, flushDone, invDone)

-----------------------------------------------------------------------------
\* The flush / invalidate sequencer.  flushAll and invAll are held until the
\* L1D has left idle; quiesce keeps requests out from the idle check on.

SeqIdle ==
    /\ seq = "IDLE"
    /\ seq' = CASE flushPend \/ flushReq -> "FLUSH_IDLE"
                [] ~(flushPend \/ flushReq) /\ (invPend \/ invReq) -> "INV_IDLE"
                [] OTHER -> "IDLE"
    /\ flushAll' = FALSE /\ invAll' = FALSE
    /\ flushDone' = FALSE /\ invDone' = FALSE
    /\ flushPend' = (flushPend \/ flushReq)
    /\ invPend' = (invPend \/ invReq)

\* The three states of a flush, and of an invalidation.
SeqFlush ==
    /\ seq \in {"FLUSH_IDLE", "FLUSH_ACK", "FLUSH_WAIT"}
    /\ LET finished == seq # "FLUSH_IDLE" /\ l1FlushDone
           idleNow  == seq # "FLUSH_WAIT" /\ l1dIdle /\ ~finished
       IN  /\ seq' = CASE finished -> "IDLE"
                       [] idleNow -> "FLUSH_ACK"
                       [] seq = "FLUSH_ACK" /\ ~finished /\ ~l1dIdle -> "FLUSH_WAIT"
                       [] OTHER -> seq
           /\ flushAll' = idleNow
           /\ flushDone' = finished
           /\ flushPend' = (~finished /\ (flushPend \/ flushReq))
    /\ invPend' = (invPend \/ invReq)
    /\ invAll' = FALSE /\ invDone' = FALSE

SeqInv ==
    /\ seq \in {"INV_IDLE", "INV_ACK", "INV_WAIT"}
    /\ LET finished == seq # "INV_IDLE" /\ l1InvDone
           idleNow  == seq # "INV_WAIT" /\ l1dIdle /\ ~finished
       IN  /\ seq' = CASE finished -> "IDLE"
                       [] idleNow -> "INV_ACK"
                       [] seq = "INV_ACK" /\ ~finished /\ ~l1dIdle -> "INV_WAIT"
                       [] OTHER -> seq
           /\ invAll' = idleNow
           /\ invDone' = finished
           /\ invPend' = (~finished /\ (invPend \/ invReq))
    /\ flushPend' = (flushPend \/ flushReq)
    /\ flushAll' = FALSE /\ flushDone' = FALSE

SeqClk == SeqIdle \/ SeqFlush \/ SeqInv

-----------------------------------------------------------------------------
\* The L1D.  A step either stays inside it (L1dLocal) or completes a request
\* or uses L2 (L1dAccess); the crossbar carries one request at a time.

Hit == Present(op.a) /\ ~(op.kind = "write" /\ op.v = Zero)

\* leg_take.  A miss waits until no fill is in flight; the request is still
\* up in its acknowledge cycle and is not taken again.
CanTake ==
    /\ CACHE_EN /\ l1d = "IDLE" /\ ~invAll /\ ~flushAll /\ ~quiesce
    /\ dmemReq /\ ~ack
    /\ Hit \/ ~Filling

NoPulse == l1FlushDone' = FALSE /\ l1InvDone' = FALSE
Reads(by, o, value) ==
    last' = [by |-> by, we |-> FALSE, a |-> o.a, v |-> value]
Writes(by, o) ==
    last' = [by |-> by, we |-> TRUE, a |-> o.a, v |-> o.v]

\* Writing back the victim, if there is one and it is dirty.
BelowAfter(victims) ==
    [a \in Addrs |-> IF a \in victims /\ line[a].s = "dirty"
                     THEN line[a].v ELSE l2[a]]
Victims(a) == {{}} \cup {{b} : b \in Draining \ {a}}

L1dIdles ==
    /\ CACHE_EN /\ l1d = "IDLE" /\ ~invAll /\ ~flushAll /\ ~CanTake
    /\ ack' = FALSE /\ NoPulse
    /\ UNCHANGED <<l1d, line, fills>>

L1dEntersInv ==
    /\ CACHE_EN /\ l1d = "IDLE" /\ invAll
    /\ l1d' = "INV"
    /\ ack' = FALSE /\ NoPulse
    /\ UNCHANGED <<line, fills>>

L1dEntersFlush ==
    /\ CACHE_EN /\ l1d = "IDLE" /\ flushAll /\ ~invAll
    /\ l1d' = "FLUSH"
    /\ ack' = FALSE /\ NoPulse
    /\ UNCHANGED <<line, fills>>

L1dHit ==
    /\ CanTake /\ Hit
    /\ IF op.kind = "read"
       THEN Reads("PYCORE", op, line[op.a].v) /\ UNCHANGED line
       ELSE Writes("PYCORE", op) /\ line' = [line EXCEPT ![op.a] = Dirty(op.v)]
    /\ ack' = TRUE /\ NoPulse
    /\ UNCHANGED <<l1d, fills, l2>>

L1dStartsMiss ==
    /\ CanTake /\ ~Hit
    /\ l1d' = "MISS"
    /\ ack' = FALSE /\ NoPulse
    /\ UNCHANGED <<line, fills>>

L1dWaits ==
    /\ l1d \in {"MISS", "FLUSH"}
    /\ ack' = FALSE /\ NoPulse
    /\ UNCHANGED <<l1d, line, fills>>

\* A miss fills the line and merges the write; a zero line goes past the L1D.
L1dFills ==
    /\ l1d = "MISS" /\ ~(op.kind = "write" /\ op.v = Zero)
    /\ \E victims \in Victims(op.a) :
          /\ l2' = BelowAfter(victims)
          /\ line' = [a \in Addrs |->
                IF a = op.a
                THEN IF op.kind = "read" THEN Clean(l2[a]) ELSE Dirty(op.v)
                ELSE IF a \in victims THEN Absent ELSE line[a]]
    /\ IF op.kind = "read" THEN Reads("PYCORE", op, l2[op.a])
       ELSE Writes("PYCORE", op)
    /\ l1d' = "IDLE" /\ ack' = TRUE /\ NoPulse
    /\ UNCHANGED fills

\* Mutant: the zero line leaves an old copy behind.
L1dWritesZeroLineKeep ==
    /\ l1d = "MISS" /\ op.kind = "write" /\ op.v = Zero
    /\ l2' = [l2 EXCEPT ![op.a] = Zero]
    /\ Writes("PYCORE", op)
    /\ l1d' = "IDLE" /\ ack' = TRUE /\ NoPulse
    /\ UNCHANGED <<fills, line>>

L1dWritesZeroLine ==
    /\ l1d = "MISS" /\ op.kind = "write" /\ op.v = Zero
    /\ l2' = [l2 EXCEPT ![op.a] = Zero]
    /\ line' = [line EXCEPT ![op.a] = Absent]
    /\ Writes("PYCORE", op)
    /\ l1d' = "IDLE" /\ ack' = TRUE /\ NoPulse
    /\ UNCHANGED fills

\* The flush walk writes a dirty line back and drops every line.
L1dFlushesLine ==
    /\ l1d = "FLUSH"
    /\ \E a \in Draining :
          /\ l2' = BelowAfter({a})
          /\ line' = [line EXCEPT ![a] = Absent]
    /\ ack' = FALSE /\ NoPulse
    /\ UNCHANGED <<l1d, fills, last>>

L1dEndsFlush ==
    /\ l1d = "FLUSH" /\ Draining = {}
    /\ l1d' = "IDLE" /\ l1FlushDone' = TRUE
    /\ ack' = FALSE /\ l1InvDone' = FALSE
    /\ UNCHANGED <<line, fills>>

\* ST_INV clears every valid and dirty bit in one cycle.
L1dInvalidates ==
    /\ l1d = "INV"
    /\ line' = [a \in Addrs |-> Absent]
    /\ l1d' = "IDLE" /\ l1InvDone' = TRUE
    /\ ack' = FALSE /\ l1FlushDone' = FALSE
    /\ UNCHANGED <<fills>>

\* The non-blocking port: the collector asks, L2 answers, the line installs.
FillAsk ==
    /\ CACHE_EN /\ l1d = "IDLE" /\ ~invAll /\ ~flushAll /\ ~quiesce
    /\ gc /\ op = NoOp /\ owner = "PYCORE"
    /\ \E a \in Addrs :
          /\ ~Present(a) /\ fills[a] = NoFill
          /\ fills' = [fills EXCEPT ![a] = Asked]
    /\ ack' = FALSE /\ NoPulse
    /\ UNCHANGED <<l1d, line>>

FillAnswer ==
    /\ l1d = "IDLE" /\ ~CanTake
    /\ \E a \in Addrs :
          /\ fills[a] = Asked
          /\ fills' = [fills EXCEPT ![a] = Answered(l2[a])]
    /\ ack' = FALSE /\ NoPulse
    /\ UNCHANGED <<l1d, line, l2, last>>

\* Mutant: the slot is not freed.
FillInstallStuck ==
    /\ l1d = "IDLE" /\ ~CanTake
    /\ \E a \in Addrs :
          /\ fills[a].s = "answered"
          /\ line' = [line EXCEPT ![a] = Clean(fills[a].v)]
    /\ ack' = FALSE /\ NoPulse
    /\ UNCHANGED <<l1d, fills, l2, last>>

FillInstall ==
    /\ l1d = "IDLE" /\ ~CanTake
    /\ \E a \in Addrs : \E victims \in Victims(a) :
          /\ fills[a].s = "answered"
          /\ l2' = BelowAfter(victims)
          /\ line' = [b \in Addrs |-> IF b = a THEN Clean(fills[a].v)
                                      ELSE IF b \in victims THEN Absent
                                      ELSE line[b]]
          /\ fills' = [fills EXCEPT ![a] = NoFill]
    /\ ack' = FALSE /\ NoPulse
    /\ UNCHANGED <<l1d, last>>

\* With the caches off the request goes through, and a flush or an
\* invalidation is acknowledged at once.
PassIdles ==
    /\ ~CACHE_EN
    /\ ack' = FALSE
    /\ l1FlushDone' = flushAll /\ l1InvDone' = invAll
    /\ UNCHANGED <<l1d, line, fills>>

PassAccess ==
    /\ ~CACHE_EN /\ dmemReq /\ ~ack
    /\ IF op.kind = "read"
       THEN Reads("PYCORE", op, l2[op.a]) /\ UNCHANGED l2
       ELSE Writes("PYCORE", op) /\ l2' = [l2 EXCEPT ![op.a] = op.v]
    /\ ack' = TRUE
    /\ l1FlushDone' = flushAll /\ l1InvDone' = invAll
    /\ UNCHANGED <<l1d, line, fills>>

L1dLocal ==
    \/ L1dIdles \/ L1dEntersInv \/ L1dEntersFlush \/ L1dStartsMiss \/ L1dWaits
    \/ L1dEndsFlush \/ L1dInvalidates \/ FillAsk \/ PassIdles

L1dAccess ==
    \/ L1dHit \/ L1dFills \/ L1dWritesZeroLine \/ L1dFlushesLine
    \/ FillAnswer \/ FillInstall \/ PassAccess

-----------------------------------------------------------------------------
\* excore.  The hart reads or writes one MMIO register at a time, at least
\* HART_GAP cycles apart (five stages an instruction).

FwBetween ==
    /\ gap > 0
    /\ gap' = gap - 1 /\ resGo' = FALSE
    /\ UNCHANGED <<pc, exTrap, slotOps, exRes, spOp, served>>

\* Mutant: the mailbox is read whatever MB_STATUS says.
FwPollEager ==
    /\ pc = "POLL" /\ gap = 0
    /\ pc' = "SERVE" /\ exTrap' = mbTrap /\ served' = served
    /\ slotOps' = 0
    /\ gap' = HART_GAP /\ resGo' = FALSE
    /\ UNCHANGED <<exRes, spOp>>

\* wait_trap looks at MB_STATUS bit 0 only, then reads the mailbox.
FwPoll ==
    /\ pc = "POLL" /\ gap = 0
    /\ IF mb = "WAIT_RES"
       THEN pc' = "SERVE" /\ exTrap' = mbTrap /\ served' = served + 1
       ELSE UNCHANGED <<pc, exTrap, served>>
    /\ slotOps' = 0
    /\ gap' = HART_GAP /\ resGo' = FALSE
    /\ UNCHANGED <<exRes, spOp>>

\* SP_CTRL, then SP_STATUS until the access is over.
FwSlot ==
    /\ pc = "SERVE" /\ gap = 0 /\ slotOps < MAX_SLOT_OPS
    /\ spOp' \in Ops
    /\ pc' = "SPBUSY" /\ slotOps' = slotOps + 1
    /\ gap' = HART_GAP /\ resGo' = FALSE
    /\ UNCHANGED <<exTrap, exRes, served>>

\* Mutant: the result does not wait for the slot port.
FwSlotPollHasty ==
    /\ pc = "SPBUSY" /\ gap = 0
    /\ pc' = "SERVE"
    /\ gap' = HART_GAP /\ resGo' = FALSE
    /\ UNCHANGED <<exTrap, slotOps, exRes, spOp, served>>

FwSlotPoll ==
    /\ pc = "SPBUSY" /\ gap = 0
    /\ pc' = IF sp = "idle" THEN "SERVE" ELSE "SPBUSY"
    /\ gap' = HART_GAP /\ resGo' = FALSE
    /\ UNCHANGED <<exTrap, slotOps, exRes, spOp, served>>

\* Mutant: MB_STATUS is read in the cycle after RES_GO.
FwRepliesFast ==
    /\ pc = "SERVE" /\ gap = 0
    /\ exRes' \in {r \in Results : r.trap = exTrap /\ r.push = 0}
    /\ resGo' = TRUE
    /\ pc' = "POLL" /\ gap' = 0
    /\ UNCHANGED <<exTrap, slotOps, spOp, served>>

\* RES_*, then RES_GO, then straight back to wait_trap.
FwReplies ==
    /\ pc = "SERVE" /\ gap = 0
    /\ exRes' \in {r \in Results : /\ r.trap = exTrap
                                   /\ r.code # "COMPLETED" => r.push = 0}
    /\ resGo' = TRUE
    /\ pc' = "POLL" /\ gap' = HART_GAP
    /\ UNCHANGED <<exTrap, slotOps, spOp, served>>

FwClk == FwBetween \/ FwPoll \/ FwSlot \/ FwSlotPoll \/ FwReplies

\* The slot port: requested, granted by the crossbar, acknowledged.
SpStrobe == pc' = "SPBUSY" /\ pc # "SPBUSY"

SpIdles ==
    /\ sp = "idle"
    /\ sp' = IF SpStrobe THEN "req" ELSE "idle"

SpGranted ==
    /\ sp = "req" /\ owner = "EXCORE"
    /\ sp' = "accepted"

SpWaits ==
    /\ sp # "idle"
    /\ UNCHANGED sp

SpAccess ==
    /\ sp = "accepted"
    /\ sp' = "idle"
    /\ IF spOp.kind = "read"
       THEN Reads("EXCORE", spOp, l2[spOp.a]) /\ UNCHANGED l2
       ELSE /\ Writes("EXCORE", spOp)
            /\ l2' = [l2 EXCEPT ![spOp.a] = spOp.v]

SpLocal == SpIdles \/ SpGranted \/ SpWaits

-----------------------------------------------------------------------------
MemClk ==
    \/ L1dLocal /\ SpLocal /\ UNCHANGED <<l2, last>>
    \/ L1dAccess /\ SpLocal
    \/ L1dLocal /\ SpAccess

Next == CoreClk /\ MbClk /\ GateClk /\ SeqClk /\ FwClk /\ MemClk

\* The clock runs, and every latency is finite.  No part ever blocks the
\* clock of another, so each is fair on its own registers.
Fairness ==
    /\ WF_core(CoreAccessEnds \/ CoreMarshals \/ CoreLatches \/ CorePushes
               \/ CoreResumes)
    /\ WF_mail(MbClk)
    /\ WF_gate(GateClk)
    /\ WF_sqr(SeqClk)
    /\ WF_fw(FwClk)
    /\ WF_l1(L1dHit \/ L1dStartsMiss \/ L1dFills \/ L1dWritesZeroLine)
    /\ WF_l1(L1dEntersFlush \/ L1dFlushesLine \/ L1dEndsFlush)
    /\ WF_l1(L1dEntersInv \/ L1dInvalidates)
    /\ WF_l1(FillAnswer)
    /\ WF_l1(FillInstall)
    /\ WF_l1(PassIdles) /\ WF_l1(PassAccess)
    /\ WF_sp(SpGranted \/ SpAccess)

Spec     == Init /\ [][Next]_vars
FairSpec == Spec /\ Fairness

-----------------------------------------------------------------------------
TypeOK ==
    /\ st \in {"RUN", "MEM", "MARSHAL", "WAIT", "HALT"} /\ gc \in BOOLEAN
    /\ op \in Ops \cup {NoOp} /\ raised \in 0..MAX_TRAPS
    /\ seen \in BOOLEAN /\ res \in Results /\ pushes \in 0..MAX_PUSH
    /\ mb \in {"IDLE", "WAIT_RES", "NEED_DELAY", "RES_VALID"}
    /\ delay \in 0..NEED_DELAY /\ mbTrap \in 0..MAX_TRAPS /\ mbRes \in Results
    /\ owner \in {"PYCORE", "EXCORE"}
    /\ <<flushReq, flushIssued, flushOk, invReq, invIssued, invOk,
         flushPend, invPend, flushDone, invDone, flushAll, invAll,
         ack, l1FlushDone, l1InvDone, resGo>> \in [1..16 -> BOOLEAN]
    /\ seq \in {"IDLE", "FLUSH_IDLE", "FLUSH_ACK", "FLUSH_WAIT",
                "INV_IDLE", "INV_ACK", "INV_WAIT"}
    /\ l1d \in {"IDLE", "MISS", "FLUSH", "INV"}
    /\ line \in [Addrs -> LineStates] /\ fills \in [Addrs -> FillStates]
    /\ l2 \in [Addrs -> Vals]
    /\ pc \in {"POLL", "SERVE", "SPBUSY"} /\ gap \in 0..HART_GAP
    /\ exTrap \in 0..MAX_TRAPS /\ slotOps \in 0..MAX_SLOT_OPS
    /\ exRes \in Results /\ spOp \in Ops \cup {NoOp}
    /\ sp \in {"idle", "req", "accepted"} /\ served \in 0..MAX_TRAPS
    /\ last \in Shared!Accesses \cup {Shared!NoAccess}

\* The $fatal backstops of pycore_excore_system.sv: neither core has a
\* request up while the other one owns memory.
OneMaster ==
    /\ op # NoOp => owner = "PYCORE"
    /\ sp # "idle" => owner = "EXCORE"

\* The $error backstop of pycore_cache.sv: no request is up while the L1D
\* flushes or invalidates, when it would be dropped without an acknowledge.
NoRequestDropped ==
    op # NoOp => ~flushAll /\ ~invAll /\ l1d \notin {"FLUSH", "INV"}

\* While excore owns memory the L1D holds nothing and no fill is in flight:
\* whatever excore reads below is pycore's latest, and no copy goes stale.
DrainedForExcore ==
    owner = "EXCORE" => Draining = {} /\ ~Filling

\* The result pycore applies answers the trap it raised last, although
\* result, mailbox and firmware registers all outlive a trap.
ResultForThisTrap ==
    st = "WAIT" /\ seen => res.trap = raised

\* The firmware serves every trap exactly once: polling MB_STATUS right
\* after RES_GO never sees the trap it has just answered.
ServedOnce ==
    /\ served <= raised
    /\ st \notin {"MARSHAL", "WAIT"} => served = raised
    /\ seen => served = raised

\* Refinement: the caches, the flush and the invalidation cannot be told
\* from one memory that two masters use in turns.
OneMemory == Shared!Spec

\* Every trap is answered: pycore runs on or halts.
TrapAnswered == st = "MARSHAL" ~> st \notin {"MARSHAL", "WAIT"}

\* Every access is acknowledged.
AccessAcknowledged == st = "MEM" ~> st # "MEM"
=============================================================================
