------------------------- MODULE TrapHandoffProofs -------------------------
(***************************************************************************)
(* Proofs about TrapHandoff, for any number of addresses, values, traps    *)
(* and pushes, and any latencies: only the owner uses the memory, the L1D  *)
(* is empty while excore owns it, and the caches, the flush and the        *)
(* mailbox implement the one memory of module SharedMemory.                *)
(***************************************************************************)
EXTENDS TrapHandoff, TLAPS

Drained == Draining = {} /\ ~Filling

\* pycore: its request is up in MEM only, and the collector does not run
\* while a trap is under way.
CoreInv ==
    /\ st \in {"RUN", "MEM", "MARSHAL", "WAIT", "HALT"}
    /\ st = "MEM" => op \in Ops
    /\ st # "MEM" => op = NoOp /\ ~ack
    /\ gc => st \in {"RUN", "MEM"}
    /\ seen => st = "WAIT"

\* The four parties of the handshakes.
PartyInv ==
    /\ st = "WAIT" => owner = "EXCORE"
    /\ st # "WAIT" => owner = "PYCORE"
    /\ mb \in {"IDLE", "WAIT_RES", "NEED_DELAY", "RES_VALID"}
    /\ mb = "IDLE" <=> st # "WAIT"
    /\ seen => mb = "RES_VALID" /\ invOk
    /\ pc \in {"POLL", "SERVE", "SPBUSY"}
    /\ pc # "POLL" => mb = "WAIT_RES"
    /\ pc = "SPBUSY" => spOp \in Ops
    /\ sp \in {"idle", "req", "accepted"}
    /\ sp # "idle" => pc = "SPBUSY"
    /\ gap \in Nat
    /\ resGo => pc = "POLL" /\ gap > 0 /\ mb = "WAIT_RES"

\* The stages of a flush, register by register.  Without caches (the last
\* two) the acknowledge comes while flushAll is still up.
NoFlush ==
    ~flushReq /\ ~flushIssued /\ ~flushPend /\ ~flushAll /\ ~flushDone /\ ~flushOk
    /\ ~l1FlushDone
FlushIssued ==
    seq = "IDLE" /\ l1d = "IDLE" /\ flushReq /\ flushIssued /\ ~flushPend
    /\ ~flushAll /\ ~flushDone /\ ~flushOk /\ ~l1FlushDone
FlushWalks ==
    /\ ~flushReq /\ flushIssued /\ flushPend /\ ~flushDone /\ ~flushOk
    /\ \/ seq = "FLUSH_IDLE" /\ ~flushAll /\ l1d = "IDLE" /\ ~l1FlushDone
       \/ seq = "FLUSH_ACK" /\ flushAll /\ l1d = "IDLE" /\ ~Filling
          /\ (CACHE_EN => ~l1FlushDone)
       \/ seq = "FLUSH_ACK" /\ flushAll /\ l1d = "FLUSH" /\ ~Filling
          /\ ~l1FlushDone /\ CACHE_EN
       \/ seq = "FLUSH_WAIT" /\ ~flushAll /\ l1d = "FLUSH" /\ ~Filling
          /\ ~l1FlushDone /\ CACHE_EN
       \/ seq = "FLUSH_WAIT" /\ ~flushAll /\ l1d = "IDLE" /\ l1FlushDone
          /\ Drained
FlushEnds ==
    /\ seq = "IDLE" /\ l1d = "IDLE" /\ ~flushReq /\ ~flushPend /\ ~flushAll
    /\ Drained
    /\ \/ flushIssued /\ flushDone /\ ~flushOk /\ (CACHE_EN => ~l1FlushDone)
       \/ ~flushIssued /\ ~flushDone /\ flushOk /\ ~l1FlushDone

FlushInv ==
    /\ st # "MARSHAL" => NoFlush
    /\ st \in {"RUN", "MEM", "HALT"} => seq = "IDLE" /\ l1d \in {"IDLE", "MISS"}
    /\ st = "MARSHAL" => \/ NoFlush /\ seq = "IDLE" /\ l1d = "IDLE"
                         \/ FlushIssued \/ FlushWalks \/ FlushEnds

\* The stages of an invalidation.
NoInv ==
    ~invReq /\ ~invIssued /\ ~invPend /\ ~invAll /\ ~invDone /\ ~invOk /\ ~l1InvDone
InvIssued ==
    seq = "IDLE" /\ l1d = "IDLE" /\ invReq /\ invIssued /\ ~invPend
    /\ ~invAll /\ ~invDone /\ ~invOk /\ ~l1InvDone
InvWalks ==
    /\ ~invReq /\ invIssued /\ invPend /\ ~invDone /\ ~invOk
    /\ \/ seq = "INV_IDLE" /\ ~invAll /\ l1d = "IDLE" /\ ~l1InvDone
       \/ seq = "INV_ACK" /\ invAll /\ l1d = "IDLE" /\ (CACHE_EN => ~l1InvDone)
       \/ seq = "INV_ACK" /\ invAll /\ l1d = "INV" /\ ~l1InvDone /\ CACHE_EN
       \/ seq = "INV_WAIT" /\ ~invAll /\ l1d = "IDLE" /\ l1InvDone
InvEnds ==
    /\ seq = "IDLE" /\ l1d = "IDLE" /\ ~invReq /\ ~invPend /\ ~invAll
    /\ \/ invIssued /\ invDone /\ ~invOk /\ (CACHE_EN => ~l1InvDone)
       \/ ~invIssued /\ ~invDone /\ invOk /\ ~l1InvDone

InvalInv ==
    /\ mb # "RES_VALID" => NoInv
    /\ st = "WAIT" /\ mb # "RES_VALID" => seq = "IDLE" /\ l1d = "IDLE"
    /\ mb = "RES_VALID" => \/ NoInv /\ seq = "IDLE" /\ l1d = "IDLE"
                           \/ InvIssued \/ InvWalks \/ InvEnds

\* The L1D and what is below it.
DataInv ==
    /\ line \in [Addrs -> LineStates]
    /\ fills \in [Addrs -> FillStates]
    /\ l2 \in [Addrs -> Vals]
    /\ st = "WAIT" \/ ~CACHE_EN => Drained
    /\ ~CACHE_EN => l1d = "IDLE"
    /\ \A a \in Addrs : fills[a].s # "none" => line[a].s = "absent"
    /\ \A a \in Addrs : fills[a].s = "answered" => fills[a].v = l2[a]
    /\ \A a \in Addrs : line[a].s = "clean" => line[a].v = l2[a]
    /\ l1d = "MISS" => st = "MEM" /\ ~ack /\ ~Filling /\ ~Hit

HandoffInv ==
    CoreInv /\ PartyInv /\ FlushInv /\ InvalInv /\ DataInv
-----------------------------------------------------------------------------
LEMMA HandoffInit == Init => HandoffInv
<1> SUFFICES ASSUME Init PROVE HandoffInv
  OBVIOUS
<1> USE HandoffAssumption DEF Init
<1>1. CoreInv /\ PartyInv
  BY DEF CoreInv, PartyInv
<1>2. FlushInv /\ InvalInv
  BY DEF FlushInv, InvalInv, NoFlush, NoInv
<1>3. line \in [Addrs -> LineStates] /\ fills \in [Addrs -> FillStates]
      /\ l2 \in [Addrs -> Vals]
  BY DEF LineStates, FillStates
<1>4. Drained
  BY DEF Drained, Draining, Present, Filling, Absent, NoFill
<1>5. \A a \in Addrs : line[a].s = "absent" /\ fills[a].s = "none"
  BY DEF Absent, NoFill
<1>7. DataInv
  BY <1>3, <1>4, <1>5 DEF DataInv
<1>6. QED
  BY <1>1, <1>2, <1>7 DEF HandoffInv

-----------------------------------------------------------------------------
LEMMA CoreStep ==
    ASSUME CoreInv, CoreClk, ack' => st = "MEM" /\ ~ack
    PROVE  CoreInv'
<1> USE DEF CoreInv
<1>1. CASE CoreRun \/ CoreWaits \/ CoreHalted
  BY <1>1 DEF CoreRun, CoreWaits, CoreHalted, core
<1>2. CASE CoreAccess
  BY <1>2 DEF CoreAccess
<1>3. CASE CoreAccessEnds
  BY <1>3 DEF CoreAccessEnds
<1>4. CASE CoreCollects \/ CoreTraps
  BY <1>4 DEF CoreCollects, CoreTraps
<1>5. CASE CoreMarshals
  BY <1>5 DEF CoreMarshals
<1>6. CASE CoreLatches \/ CorePushes
  BY <1>6 DEF CoreLatches, CorePushes
<1>7. CASE CoreResumes
  BY <1>7 DEF CoreResumes, trapResReady
<1>8. QED
  BY <1>1, <1>2, <1>3, <1>4, <1>5, <1>6, <1>7 DEF CoreClk

\* What a step of the L1D can do, for the registers of the other parts.
LEMMA AckStep ==
    ASSUME CoreInv, DataInv, L1dLocal \/ L1dAccess
    PROVE  ack' => st = "MEM" /\ ~ack
<1>1. CASE L1dHit \/ L1dFills \/ L1dWritesZeroLine \/ PassAccess
  <2>1. CASE L1dHit \/ PassAccess
    BY <2>1 DEF CoreInv, L1dHit, PassAccess, CanTake, dmemReq
  <2>2. CASE L1dFills
    <3>1. l1d = "MISS"
      BY <2>2 DEF L1dFills
    <3>2. QED BY <3>1 DEF DataInv
  <2>3. CASE L1dWritesZeroLine
    <3>1. l1d = "MISS"
      BY <2>3 DEF L1dWritesZeroLine
    <3>2. QED BY <3>1 DEF DataInv
  <2> QED BY <1>1, <2>1, <2>2, <2>3
<1>2. CASE L1dFlushesLine \/ FillAnswer \/ FillInstall
  BY <1>2 DEF L1dFlushesLine, FillAnswer, FillInstall
<1>3. CASE L1dLocal
  BY <1>3 DEF L1dLocal, L1dIdles, L1dEntersInv, L1dEntersFlush, L1dStartsMiss,
     L1dWaits, L1dEndsFlush, L1dInvalidates, FillAsk, PassIdles
<1>4. QED
  BY <1>1, <1>2, <1>3 DEF L1dAccess

LEMMA CoreMoves ==
    ASSUME CoreInv, CoreClk
    PROVE  /\ st' = "WAIT" <=> \/ st = "WAIT" /\ ~trapResReady
                               \/ st = "MARSHAL" /\ trapReqReady
           /\ st' = "MARSHAL" => st = "RUN" \/ st = "MARSHAL"
           /\ st = "MARSHAL" => st' \in {"MARSHAL", "WAIT"}
           /\ seen' => st = "WAIT" /\ ~trapResReady /\ (seen \/ trapResValid)
<1> USE DEF CoreInv
<1>1. CASE CoreRun \/ CoreWaits \/ CoreHalted
  BY <1>1 DEF CoreRun, CoreWaits, CoreHalted, core, trapResReady
<1>2. CASE CoreAccess \/ CoreAccessEnds \/ CoreCollects \/ CoreTraps
  BY <1>2 DEF CoreAccess, CoreAccessEnds, CoreCollects, CoreTraps
<1>5. CASE CoreMarshals
  BY <1>5 DEF CoreMarshals
<1>6. CASE CoreLatches \/ CorePushes
  BY <1>6 DEF CoreLatches, CorePushes, trapResReady
<1>7. CASE CoreResumes
  BY <1>7 DEF CoreResumes, trapResReady
<1>8. QED
  BY <1>1, <1>2, <1>5, <1>6, <1>7 DEF CoreClk

LEMMA PartyStep ==
    ASSUME HandoffInv, CoreClk, MbClk, GateClk, FwClk, SpLocal \/ SpAccess
    PROVE  PartyInv'
<1> USE HandoffAssumption DEF HandoffInv, PartyInv
<1>2. /\ st' = "WAIT" <=> \/ st = "WAIT" /\ ~trapResReady
                          \/ st = "MARSHAL" /\ trapReqReady
      /\ seen' => st = "WAIT" /\ ~trapResReady /\ (seen \/ trapResValid)
  BY CoreMoves
<1>3. /\ st' = "WAIT" => owner' = "EXCORE"
      /\ st' # "WAIT" => owner' = "PYCORE"
  BY <1>2 DEF GateClk, Gate, GiveToExcore, GiveToPycore, trapReqValid,
     trapResReady, trapResValid
<1>4. /\ mb' \in {"IDLE", "WAIT_RES", "NEED_DELAY", "RES_VALID"}
      /\ mb' = "IDLE" <=> st' # "WAIT"
  BY <1>2 DEF MbClk, MbIdle, MbWaitRes, MbNeedDelay, MbResValid,
     trapReqValid, trapReqReady, trapResReady
<1>5. seen' => mb' = "RES_VALID" /\ invOk'
  BY <1>2 DEF MbClk, MbIdle, MbWaitRes, MbNeedDelay, MbResValid,
     trapResValid, GateClk, Gate, GiveToPycore
<1>6. /\ pc' \in {"POLL", "SERVE", "SPBUSY"}
      /\ gap' \in Nat
      /\ pc' = "SPBUSY" => spOp' \in Ops
  BY DEF FwClk, FwBetween, FwPoll, FwSlot, FwSlotPoll, FwReplies
<1>7. pc' # "POLL" => mb' = "WAIT_RES"
  <2>1. pc' # "POLL" => mb = "WAIT_RES" /\ ~resGo
    BY DEF FwClk, FwBetween, FwPoll, FwSlot, FwSlotPoll, FwReplies
  <2>2. QED
    BY <2>1 DEF MbClk, MbIdle, MbWaitRes, MbNeedDelay, MbResValid
<1>8. /\ sp' \in {"idle", "req", "accepted"}
      /\ sp' # "idle" => pc' = "SPBUSY"
  BY DEF FwClk, FwBetween, FwPoll, FwSlot, FwSlotPoll, FwReplies, SpLocal,
     SpIdles, SpStrobe, SpGranted, SpWaits, SpAccess
<1>9. resGo' => pc' = "POLL" /\ gap' > 0 /\ mb' = "WAIT_RES"
  <2>1. resGo' => pc' = "POLL" /\ gap' > 0 /\ mb = "WAIT_RES" /\ ~resGo
    BY DEF FwClk, FwBetween, FwPoll, FwSlot, FwSlotPoll, FwReplies
  <2>2. QED
    BY <2>1 DEF MbClk, MbIdle, MbWaitRes, MbNeedDelay, MbResValid
<1>10. QED
  BY <1>3, <1>4, <1>5, <1>6, <1>7, <1>8, <1>9

-----------------------------------------------------------------------------
\* The lines while no request is up and the collector does not run: nothing
\* is asked for, so what is drained stays drained.
LEMMA QuietLines ==
    ASSUME op = NoOp, ~gc, l1d # "MISS", L1dLocal \/ L1dAccess
    PROVE  /\ ~Filling => ~Filling'
           /\ Drained => Drained'
           /\ l1FlushDone' => (Draining = {} /\ Draining' = {}) \/ ~CACHE_EN
<1> USE DEF Filling, Drained, Draining, Present
<1>1. CASE L1dIdles \/ L1dEntersInv \/ L1dEntersFlush \/ L1dWaits \/ L1dEndsFlush
           \/ PassIdles
  <2>1. line' = line /\ fills' = fills
    BY <1>1 DEF L1dIdles, L1dEntersInv, L1dEntersFlush, L1dWaits, L1dEndsFlush,
       PassIdles
  <2>2. l1FlushDone' => Draining = {} \/ ~CACHE_EN
    BY <1>1 DEF L1dIdles, L1dEntersInv, L1dEntersFlush, L1dWaits, L1dEndsFlush,
       PassIdles, NoPulse
  <2>3. QED
    BY <2>1, <2>2
<1>2. CASE L1dInvalidates
  BY <1>2 DEF L1dInvalidates, Absent
<1>3. CASE L1dHit \/ L1dStartsMiss \/ FillAsk \/ PassAccess
  BY <1>3 DEF L1dHit, L1dStartsMiss, FillAsk, PassAccess, CanTake, dmemReq
<1>4. CASE L1dFills \/ L1dWritesZeroLine
  BY <1>4 DEF L1dFills, L1dWritesZeroLine
<1>5. CASE L1dFlushesLine
  <2>1. Draining # {} /\ fills' = fills /\ ~l1FlushDone'
    BY <1>5 DEF L1dFlushesLine, NoPulse
  <2>2. QED
    BY <2>1
<1>6. CASE FillAnswer \/ FillInstall
  <2>1. Filling /\ ~l1FlushDone'
    BY <1>6 DEF FillAnswer, FillInstall, NoPulse, Asked
  <2>2. QED
    BY <2>1
<1>7. QED
  BY <1>1, <1>2, <1>3, <1>4, <1>5, <1>6 DEF L1dLocal, L1dAccess

\* Its control under the same conditions.
LEMMA QuietControl ==
    ASSUME op = NoOp, ~gc, l1d \in {"IDLE", "FLUSH", "INV"},
           ~CACHE_EN => l1d = "IDLE" /\ ~Filling, L1dLocal \/ L1dAccess
    PROVE  /\ l1d = "IDLE" /\ ~invAll /\ ~flushAll => l1d' = "IDLE"
           /\ CACHE_EN /\ l1d = "IDLE" /\ invAll /\ ~Filling => l1d' = "INV"
           /\ CACHE_EN /\ l1d = "IDLE" /\ flushAll /\ ~invAll /\ ~Filling
                => l1d' = "FLUSH"
           /\ l1d = "INV" => l1d' = "IDLE" /\ l1InvDone'
           /\ l1d = "FLUSH" => \/ l1d' = "FLUSH" /\ ~l1FlushDone'
                               \/ l1d' = "IDLE" /\ l1FlushDone'
           /\ CACHE_EN /\ l1FlushDone' => l1d = "FLUSH"
           /\ CACHE_EN /\ l1InvDone' => l1d = "INV"
           /\ ~CACHE_EN => /\ l1d' = "IDLE"
                           /\ l1FlushDone' <=> flushAll
                           /\ l1InvDone' <=> invAll
<1> USE HandoffAssumption DEF NoPulse
<1>1. CASE L1dIdles \/ L1dWaits \/ L1dEndsFlush
  BY <1>1 DEF L1dIdles, L1dWaits, L1dEndsFlush
<1>2. CASE L1dEntersInv \/ L1dEntersFlush \/ L1dInvalidates
  BY <1>2 DEF L1dEntersInv, L1dEntersFlush, L1dInvalidates
<1>3. CASE PassIdles
  BY <1>3 DEF PassIdles
<1>4. CASE L1dHit \/ L1dStartsMiss \/ FillAsk \/ PassAccess
  BY <1>4 DEF L1dHit, L1dStartsMiss, FillAsk, PassAccess, CanTake, dmemReq
<1>5. CASE L1dFills \/ L1dWritesZeroLine
  BY <1>5 DEF L1dFills, L1dWritesZeroLine
<1>6. CASE L1dFlushesLine
  BY <1>6 DEF L1dFlushesLine
<1>7. CASE FillAnswer \/ FillInstall
  <2>1. Filling /\ l1d = "IDLE" /\ l1d' = "IDLE"
    BY <1>7 DEF FillAnswer, FillInstall, Asked, Filling
  <2>2. ~l1FlushDone' /\ ~l1InvDone'
    BY <1>7 DEF FillAnswer, FillInstall
  <2>3. QED
    BY <2>1, <2>2
<1>8. QED
  BY <1>1, <1>2, <1>3, <1>4, <1>5, <1>6, <1>7 DEF L1dLocal, L1dAccess

\* Its control while pycore runs: neither flush nor invalidation.
LEMMA RunControl ==
    ASSUME l1d \in {"IDLE", "MISS"}, ~invAll, ~flushAll, L1dLocal \/ L1dAccess
    PROVE  /\ l1d' \in {"IDLE", "MISS"}
           /\ ~l1FlushDone' /\ ~l1InvDone'
           /\ op = NoOp /\ l1d = "IDLE" => l1d' = "IDLE"
<1> USE DEF NoPulse
<1>1. CASE L1dIdles \/ L1dWaits \/ L1dEndsFlush \/ L1dEntersInv \/ L1dEntersFlush
           \/ L1dInvalidates \/ PassIdles
  BY <1>1 DEF L1dIdles, L1dWaits, L1dEndsFlush, L1dEntersInv, L1dEntersFlush,
     L1dInvalidates, PassIdles
<1>2. CASE L1dHit \/ L1dStartsMiss \/ FillAsk \/ PassAccess
  BY <1>2 DEF L1dHit, L1dStartsMiss, FillAsk, PassAccess, CanTake, dmemReq
<1>3. CASE L1dFills \/ L1dWritesZeroLine \/ L1dFlushesLine
  BY <1>3 DEF L1dFills, L1dWritesZeroLine, L1dFlushesLine
<1>4. CASE FillAnswer \/ FillInstall
  BY <1>4 DEF FillAnswer, FillInstall
<1>5. QED
  BY <1>1, <1>2, <1>3, <1>4 DEF L1dLocal, L1dAccess

-----------------------------------------------------------------------------
\* A flush goes through its stages in order and ends drained.
LEMMA FlushStep ==
    ASSUME HandoffInv, CoreClk, GateClk, SeqClk, L1dLocal \/ L1dAccess
    PROVE  FlushInv'
<1> USE DEF HandoffInv
<1>1. CASE st = "MARSHAL"
  <2>1. op = NoOp /\ ~gc /\ NoInv /\ l1d \in {"IDLE", "FLUSH", "INV"} /\ l1d # "INV"
        /\ (~CACHE_EN => l1d = "IDLE" /\ ~Filling) /\ l1d # "MISS"
    BY <1>1 DEF CoreInv, FlushInv, FlushIssued, FlushWalks, FlushEnds, InvalInv,
       PartyInv, DataInv, Drained
  <2>2. st' \in {"MARSHAL", "WAIT"} /\ (st' = "WAIT" <=> trapReqReady)
    BY <1>1, CoreMoves
  <2>3. mb = "IDLE" /\ owner = "PYCORE" /\ trapReqValid
    BY <1>1 DEF PartyInv, trapReqValid
  <2>4. CASE NoFlush /\ seq = "IDLE" /\ l1d = "IDLE"
    <3>1. FlushIssued'
      BY <2>1, <2>3, <2>4, QuietControl DEF NoFlush, NoInv, FlushIssued, GateClk,
         Gate, IssueFlush, GiveToExcore, trapReqReady, SeqClk, SeqIdle, SeqFlush, SeqInv
    <3>2. QED
      BY <3>1, <2>2, <2>4 DEF FlushInv, NoFlush, trapReqReady
  <2>5. CASE FlushIssued
    <3>1. FlushWalks'
      BY <2>1, <2>3, <2>5, QuietControl DEF NoInv, FlushIssued, FlushWalks, GateClk,
         Gate, IssueFlush, GiveToExcore, trapReqReady, SeqClk, SeqIdle, SeqFlush, SeqInv
    <3>2. QED
      BY <3>1, <2>2, <2>5 DEF FlushInv, FlushIssued, trapReqReady
  <2>6. CASE FlushWalks
    <3>1. ~flushReq' /\ flushIssued' /\ ~flushOk'
      BY <2>3, <2>6 DEF FlushWalks, GateClk, Gate, IssueFlush
    <3>2. (~Filling => ~Filling') /\ (Drained => Drained')
          /\ (l1FlushDone' => Draining' = {} \/ ~CACHE_EN)
      BY <2>1, QuietLines
    <3>3. CACHE_EN \/ Drained
      BY DEF DataInv
    <3>4. FlushWalks' \/ FlushEnds'
      BY <2>1, <2>6, <3>1, <3>2, <3>3, QuietControl DEF NoInv, FlushWalks, FlushEnds,
         SeqClk, SeqIdle, SeqFlush, SeqInv, l1dIdle, Drained
    <3>5. QED
      BY <3>4, <2>2, <2>6 DEF FlushInv, FlushWalks, trapReqReady
  <2>7. CASE FlushEnds
    <3>1. Drained'
      BY <2>1, <2>7, QuietLines DEF FlushEnds
    <3>2. l1d' = "IDLE" /\ seq' = "IDLE" /\ ~l1FlushDone' /\ ~flushAll' /\ ~flushPend'
          /\ ~flushDone'
      BY <2>1, <2>7, QuietControl DEF NoInv, FlushEnds, SeqClk, SeqIdle, SeqFlush, SeqInv
    <3>3. CASE flushDone
      <4>1. FlushEnds'
        BY <2>3, <2>7, <3>1, <3>2, <3>3 DEF FlushEnds, GateClk, Gate, IssueFlush
      <4>2. QED
        BY <4>1, <2>2, <2>7, <3>3 DEF FlushInv, FlushEnds, trapReqReady
    <3>4. CASE ~flushDone
      <4>1. st' = "WAIT"
        BY <2>2, <2>3, <2>7, <3>4 DEF FlushEnds, trapReqReady
      <4>2. NoFlush'
        BY <2>3, <2>7, <3>2, <3>4 DEF NoFlush, FlushEnds, GateClk, Gate, IssueFlush,
           GiveToExcore, trapReqReady
      <4>3. QED
        BY <4>1, <4>2 DEF FlushInv
    <3>5. QED
      BY <3>3, <3>4
  <2>8. QED
    BY <1>1, <2>4, <2>5, <2>6, <2>7 DEF FlushInv
<1>2. CASE st = "WAIT"
  <2>1. NoFlush /\ op = NoOp /\ ~gc /\ ~Filling /\ l1d \in {"IDLE", "FLUSH", "INV"}
        /\ l1d # "FLUSH" /\ seq \notin {"FLUSH_IDLE", "FLUSH_ACK", "FLUSH_WAIT"}
        /\ (~CACHE_EN => l1d = "IDLE")
    BY <1>2 DEF CoreInv, FlushInv, InvalInv, InvIssued, InvWalks, InvEnds, PartyInv,
       DataInv, Drained
  <2>2. NoFlush'
    BY <1>2, <2>1, QuietControl DEF NoFlush, GateClk, Gate, IssueFlush, GiveToExcore,
       trapReqValid, SeqClk, SeqIdle, SeqFlush, SeqInv
  <2>3. st' # "WAIT" => seq' = "IDLE" /\ l1d' = "IDLE"
    <3>1. SUFFICES ASSUME st' # "WAIT" PROVE seq' = "IDLE" /\ l1d' = "IDLE"
      OBVIOUS
    <3>2. trapResReady /\ invOk /\ mb = "RES_VALID"
      BY <1>2, <3>1, CoreMoves DEF PartyInv, trapResReady
    <3>3. InvEnds
      BY <3>2 DEF InvalInv, NoInv, InvIssued, InvWalks
    <3>4. QED
      BY <2>1, <3>3, QuietControl DEF NoFlush, InvEnds, SeqClk, SeqIdle, SeqFlush, SeqInv
  <2>4. st' # "MARSHAL"
    BY <1>2, CoreMoves
  <2>5. QED
    BY <2>2, <2>3, <2>4 DEF FlushInv
<1>3. CASE st \in {"RUN", "MEM", "HALT"}
  <2>1. NoFlush /\ NoInv /\ seq = "IDLE" /\ l1d \in {"IDLE", "MISS"}
    BY <1>3 DEF FlushInv, InvalInv, PartyInv
  <2>2. NoFlush'
    BY <1>3, <2>1, RunControl DEF NoFlush, NoInv, GateClk, Gate, IssueFlush,
       trapReqValid, SeqClk, SeqIdle, SeqFlush, SeqInv
  <2>3. seq' = "IDLE"
    BY <2>1 DEF NoFlush, NoInv, SeqClk, SeqIdle, SeqFlush, SeqInv
  <2>4. l1d' \in {"IDLE", "MISS"}
    BY <2>1, RunControl DEF NoFlush, NoInv
  <2>5. st' = "MARSHAL" => l1d' = "IDLE"
    <3>1. st' = "MARSHAL" => st = "RUN"
      BY <1>3, CoreMoves
    <3>2. st = "RUN" => op = NoOp /\ l1d = "IDLE"
      BY <2>1 DEF CoreInv, DataInv
    <3>3. QED
      BY <2>1, <3>1, <3>2, RunControl DEF NoFlush, NoInv
  <2>6. QED
    BY <2>2, <2>3, <2>4, <2>5 DEF FlushInv
<1>4. QED
  BY <1>1, <1>2, <1>3 DEF CoreInv

\* So does an invalidation; the result is held back until it ends.
LEMMA InvalStep ==
    ASSUME HandoffInv, CoreClk, MbClk, GateClk, SeqClk, L1dLocal \/ L1dAccess
    PROVE  InvalInv'
<1> USE DEF HandoffInv
<1>1. CASE mb = "RES_VALID"
  <2>1. st = "WAIT" /\ owner = "EXCORE" /\ NoFlush /\ op = NoOp /\ ~gc
    BY <1>1 DEF PartyInv, CoreInv, FlushInv
  <2>2. l1d \in {"IDLE", "FLUSH", "INV"} /\ l1d # "FLUSH" /\ ~Filling
        /\ (~CACHE_EN => l1d = "IDLE" /\ ~Filling)
    BY <1>1, <2>1 DEF InvalInv, InvIssued, InvWalks, InvEnds, DataInv, Drained
  <2>3. mb' = IF trapResReady THEN "IDLE" ELSE "RES_VALID"
    BY <1>1 DEF MbClk, MbIdle, MbWaitRes, MbNeedDelay, MbResValid
  <2>4. trapResReady => invOk
    BY DEF trapResReady, PartyInv
  <2>5. CASE NoInv /\ seq = "IDLE" /\ l1d = "IDLE"
    <3>1. InvIssued'
      BY <1>1, <2>1, <2>2, <2>5, QuietControl DEF NoInv, NoFlush, InvIssued, GateClk,
         Gate, IssueInv, GiveToPycore, trapResValid, SeqClk, SeqIdle, SeqFlush, SeqInv
    <3>2. QED
      BY <3>1, <2>3, <2>4, <2>5 DEF InvalInv, NoInv
  <2>6. CASE InvIssued
    <3>1. InvWalks'
      BY <1>1, <2>1, <2>2, <2>6, QuietControl DEF NoFlush, InvIssued, InvWalks, GateClk,
         Gate, IssueInv, GiveToPycore, trapResValid, SeqClk, SeqIdle, SeqFlush, SeqInv
    <3>2. QED
      BY <3>1, <2>3, <2>4, <2>6 DEF InvalInv, InvIssued
  <2>7. CASE InvWalks
    <3>1. ~invReq' /\ invIssued' /\ ~invOk'
      BY <2>1, <2>7 DEF InvWalks, GateClk, Gate, IssueInv
    <3>2. InvWalks' \/ InvEnds'
      BY <2>1, <2>2, <2>7, <3>1, QuietControl DEF NoFlush, InvWalks, InvEnds,
         SeqClk, SeqIdle, SeqFlush, SeqInv, l1dIdle
    <3>3. QED
      BY <3>2, <2>3, <2>4, <2>7 DEF InvalInv, InvWalks
  <2>8. CASE InvEnds
    <3>1. l1d' = "IDLE" /\ seq' = "IDLE" /\ ~l1InvDone' /\ ~invAll' /\ ~invPend'
          /\ ~invDone'
      BY <2>1, <2>2, <2>8, QuietControl DEF NoFlush, InvEnds, SeqClk, SeqIdle,
         SeqFlush, SeqInv
    <3>2. CASE trapResReady
      <4>1. invOk /\ ~invDone
        BY <2>4, <2>8, <3>2 DEF InvEnds
      <4>2. NoInv'
        BY <1>1, <2>1, <2>8, <3>1, <3>2, <4>1 DEF NoInv, InvEnds, GateClk, Gate,
           IssueInv, GiveToPycore, trapResValid
      <4>3. st' # "WAIT" /\ mb' = "IDLE"
        BY <2>3, <3>2, CoreMoves DEF trapResReady, trapReqReady
      <4>4. QED
        BY <4>2, <4>3 DEF InvalInv
    <3>3. CASE ~trapResReady
      <4>1. InvEnds'
        BY <1>1, <2>1, <2>8, <3>1, <3>3 DEF InvEnds, GateClk, Gate,
           IssueInv, GiveToPycore
      <4>2. QED
        BY <4>1, <2>3, <3>3 DEF InvalInv
    <3>4. QED
      BY <3>2, <3>3
  <2>9. QED
    BY <1>1, <2>5, <2>6, <2>7, <2>8 DEF InvalInv
<1>2. CASE mb \in {"WAIT_RES", "NEED_DELAY"}
  <2>1. st = "WAIT" /\ NoFlush /\ NoInv /\ op = NoOp /\ ~gc /\ seq = "IDLE"
        /\ l1d = "IDLE" /\ ~Filling /\ ~seen
    BY <1>2 DEF PartyInv, CoreInv, FlushInv, InvalInv, DataInv, Drained
  <2>2. l1d' = "IDLE" /\ ~l1InvDone'
    BY <2>1, QuietControl DEF NoFlush, NoInv
  <2>3. seq' = "IDLE" /\ NoInv'
    BY <1>2, <2>1, <2>2 DEF NoFlush, NoInv, GateClk, Gate, IssueInv, GiveToPycore,
       SeqClk, SeqIdle, SeqFlush, SeqInv
  <2>4. QED
    BY <2>2, <2>3 DEF InvalInv
<1>3. CASE mb = "IDLE"
  <2>1. st # "WAIT" /\ owner = "PYCORE" /\ NoInv
    BY <1>3 DEF PartyInv, InvalInv
  <2>2. mb' \in {"IDLE", "WAIT_RES"}
    BY <1>3 DEF MbClk, MbIdle, MbWaitRes, MbNeedDelay, MbResValid
  <2>3. seq \notin {"INV_IDLE", "INV_ACK", "INV_WAIT"} /\ l1d # "INV" /\ ~invAll
    BY <2>1 DEF CoreInv, FlushInv, FlushIssued, FlushWalks, FlushEnds, NoInv
  <2>4. ~l1InvDone'
    <3>1. CASE st = "MARSHAL"
      BY <2>3, <3>1, QuietControl DEF CoreInv, FlushInv, FlushIssued, FlushWalks,
         FlushEnds, DataInv, Drained
    <3>2. CASE st # "MARSHAL"
      BY <2>1, <2>3, <3>2, RunControl DEF CoreInv, FlushInv, NoFlush
    <3>3. QED
      BY <3>1, <3>2
  <2>5. NoInv'
    BY <1>3, <2>1, <2>3, <2>4 DEF NoInv, GateClk, Gate, IssueInv, GiveToPycore,
       SeqClk, SeqIdle, SeqFlush, SeqInv
  <2>6. st' = "WAIT" => seq' = "IDLE" /\ l1d' = "IDLE"
    <3>1. SUFFICES ASSUME st' = "WAIT" PROVE seq' = "IDLE" /\ l1d' = "IDLE"
      OBVIOUS
    <3>2. st = "MARSHAL" /\ flushOk
      BY <2>1, <3>1, CoreMoves DEF trapReqReady
    <3>3. FlushEnds /\ op = NoOp /\ ~gc
      BY <3>2 DEF FlushInv, NoFlush, FlushIssued, FlushWalks, CoreInv
    <3>4. ~CACHE_EN => ~Filling
      BY DEF DataInv, Drained
    <3>5. QED
      BY <2>1, <3>3, <3>4, QuietControl DEF NoInv, FlushEnds, SeqClk, SeqIdle,
         SeqFlush, SeqInv
  <2>7. QED
    BY <2>2, <2>5, <2>6 DEF InvalInv
<1>4. QED
  BY <1>1, <1>2, <1>3 DEF PartyInv

-----------------------------------------------------------------------------
\* Writing victims back: only their own words below change.
LEMMA WriteBack ==
    ASSUME DataInv, NEW victims \in SUBSET Addrs
    PROVE  /\ BelowAfter(victims) \in [Addrs -> Vals]
           /\ \A a \in Addrs \ victims : BelowAfter(victims)[a] = l2[a]
           /\ \A a \in victims : line[a].s # "absent"
                                   => BelowAfter(victims)[a] = line[a].v
           /\ \A a \in Addrs : line[a].s # "dirty" => BelowAfter(victims)[a] = l2[a]
<1>1. \A a \in Addrs : line[a].s \in {"absent", "clean", "dirty"} /\ line[a].v \in Vals
  BY HandoffAssumption DEF DataInv, LineStates, Absent
<1>2. QED
  BY <1>1 DEF DataInv, BelowAfter

\* The lines, the fills and L2: their types and how they agree.
CacheInv ==
    /\ line \in [Addrs -> LineStates]
    /\ fills \in [Addrs -> FillStates]
    /\ l2 \in [Addrs -> Vals]
    /\ \A a \in Addrs : fills[a].s # "none" => line[a].s = "absent"
    /\ \A a \in Addrs : fills[a].s = "answered" => fills[a].v = l2[a]
    /\ \A a \in Addrs : line[a].s = "clean" => line[a].v = l2[a]

LEMMA StateTypes ==
    /\ Absent \in LineStates /\ Absent.s = "absent"
    /\ \A v \in Vals : Clean(v) \in LineStates /\ Clean(v).s = "clean" /\ Clean(v).v = v
    /\ \A v \in Vals : Dirty(v) \in LineStates /\ Dirty(v).s = "dirty" /\ Dirty(v).v = v
    /\ NoFill \in FillStates /\ NoFill.s = "none"
    /\ Asked \in FillStates /\ Asked.s = "asked"
    /\ \A v \in Vals : Answered(v) \in FillStates /\ Answered(v).s = "answered"
                                                /\ Answered(v).v = v
BY HandoffAssumption DEF LineStates, FillStates, Absent, Clean, Dirty, NoFill, Asked,
   Answered

LEMMA OpTypes == \A o \in Ops : o.a \in Addrs /\ o.v \in Vals
BY DEF Ops

LEMMA CacheStep ==
    ASSUME HandoffInv, MemClk
    PROVE  CacheInv'
<1> USE DEF HandoffInv
<1>0. CacheInv
  BY DEF DataInv, CacheInv
<1>1. op # NoOp => op \in Ops
  BY DEF CoreInv
<1>2. CASE L1dLocal /\ SpLocal /\ UNCHANGED <<l2, last>>
  <2>1. CASE line' = line /\ fills' = fills
    BY <1>0, <1>2, <2>1 DEF CacheInv
  <2>2. CASE L1dInvalidates
    <3>1. line' = [a \in Addrs |-> Absent] /\ fills' = fills /\ l2' = l2
      BY <1>2, <2>2 DEF L1dInvalidates
    <3>2. QED
      BY <1>0, <3>1, StateTypes DEF CacheInv
  <2>3. CASE FillAsk
    <3>1. PICK a \in Addrs : /\ ~Present(a)
                             /\ fills' = [fills EXCEPT ![a] = Asked]
                             /\ line' = line /\ l2' = l2
      BY <1>2, <2>3 DEF FillAsk
    <3>2. QED
      BY <1>0, <3>1, StateTypes DEF CacheInv, Present
  <2>4. QED
    BY <1>2, <2>1, <2>2, <2>3 DEF L1dLocal, L1dIdles, L1dEntersInv, L1dEntersFlush,
       L1dStartsMiss, L1dWaits, L1dEndsFlush, PassIdles
<1>3. CASE L1dHit
  <2>1. op \in Ops /\ Present(op.a)
    BY <1>1, <1>3 DEF L1dHit, CanTake, dmemReq, Hit
  <2>2. /\ line' = line \/ line' = [line EXCEPT ![op.a] = Dirty(op.v)]
        /\ fills' = fills /\ l2' = l2
    BY <1>3 DEF L1dHit
  <2>3. QED
    BY <1>0, <2>1, <2>2, StateTypes, OpTypes DEF CacheInv, Present
<1>4. CASE L1dFills
  <2>1. op \in Ops /\ ~Filling /\ fills' = fills
    BY <1>1, <1>4 DEF L1dFills, DataInv, CoreInv
  <2>2. PICK victims \in Victims(op.a) :
          /\ l2' = BelowAfter(victims)
          /\ line' = [a \in Addrs |->
                IF a = op.a
                THEN IF op.kind = "read" THEN Clean(l2[a]) ELSE Dirty(op.v)
                ELSE IF a \in victims THEN Absent ELSE line[a]]
    BY <1>4 DEF L1dFills
  <2>3. victims \in SUBSET Addrs /\ op.a \notin victims
    BY DEF Victims, Draining
  <2>4. \A a \in Addrs : fills[a].s = "none"
    BY <2>1 DEF Filling
  <2>5. QED
    BY <1>0, <2>1, <2>2, <2>3, <2>4, StateTypes, OpTypes, WriteBack DEF CacheInv
<1>5. CASE L1dWritesZeroLine
  <2>1. op \in Ops /\ ~Filling /\ fills' = fills
        /\ l2' = [l2 EXCEPT ![op.a] = Zero] /\ line' = [line EXCEPT ![op.a] = Absent]
    BY <1>1, <1>5 DEF L1dWritesZeroLine, DataInv, CoreInv
  <2>2. \A a \in Addrs : fills[a].s = "none"
    BY <2>1 DEF Filling
  <2>3. QED
    BY <1>0, <2>1, <2>2, StateTypes, OpTypes, HandoffAssumption DEF CacheInv
<1>6. CASE L1dFlushesLine
  <2>1. PICK a \in Addrs : /\ l2' = BelowAfter({a})
                           /\ line' = [line EXCEPT ![a] = Absent]
                           /\ fills' = fills /\ line[a].s # "absent"
    BY <1>6 DEF L1dFlushesLine, Draining, Present
  <2>2. \A b \in Addrs : b # a => l2'[b] = l2[b]
    BY <2>1, WriteBack
  <2>3. fills[a].s = "none" /\ l2' \in [Addrs -> Vals]
    BY <1>0, <2>1, WriteBack DEF CacheInv
  <2>4. line' \in [Addrs -> LineStates] /\ line'[a].s = "absent"
        /\ \A b \in Addrs : b # a => line'[b] = line[b]
    BY <1>0, <2>1, StateTypes DEF CacheInv
  <2>5. QED
    BY <1>0, <2>1, <2>2, <2>3, <2>4 DEF CacheInv
<1>7. CASE FillAnswer /\ SpLocal
  <2>1. PICK a \in Addrs : /\ fills[a] = Asked
                           /\ fills' = [fills EXCEPT ![a] = Answered(l2[a])]
                           /\ line' = line /\ l2' = l2
    BY <1>7 DEF FillAnswer
  <2>2. QED
    BY <1>0, <1>7, <2>1, StateTypes DEF CacheInv
<1>8. CASE FillInstall
  <2>0. PICK a \in Addrs : \E victims \in Victims(a) :
          /\ fills[a].s = "answered"
          /\ l2' = BelowAfter(victims)
          /\ line' = [b \in Addrs |-> IF b = a THEN Clean(fills[a].v)
                                      ELSE IF b \in victims THEN Absent
                                      ELSE line[b]]
          /\ fills' = [fills EXCEPT ![a] = NoFill]
    BY <1>8 DEF FillInstall
  <2>1. PICK victims \in Victims(a) :
          /\ fills[a].s = "answered"
          /\ l2' = BelowAfter(victims)
          /\ line' = [b \in Addrs |-> IF b = a THEN Clean(fills[a].v)
                                      ELSE IF b \in victims THEN Absent
                                      ELSE line[b]]
          /\ fills' = [fills EXCEPT ![a] = NoFill]
    BY <2>0
  <2>2. victims \in SUBSET Addrs /\ a \notin victims
        /\ \A b \in victims : line[b].s # "absent"
    BY DEF Victims, Draining, Present
  <2>3. QED
    BY <1>0, <2>1, <2>2, StateTypes, WriteBack DEF CacheInv
<1>9. CASE PassAccess
  <2>1. op \in Ops /\ Drained /\ line' = line /\ fills' = fills
        /\ (l2' = l2 \/ l2' = [l2 EXCEPT ![op.a] = op.v])
    BY <1>1, <1>9 DEF PassAccess, dmemReq, DataInv
  <2>2. \A a \in Addrs : line[a].s = "absent" /\ fills[a].s = "none"
    BY <2>1 DEF Drained, Draining, Present, Filling
  <2>3. QED
    BY <1>0, <2>1, <2>2, OpTypes DEF CacheInv
<1>10. CASE L1dLocal /\ SpAccess
  <2>1. st = "WAIT" /\ Drained /\ op = NoOp /\ ~gc /\ spOp \in Ops
        /\ l1d # "MISS"
    BY <1>10 DEF SpAccess, PartyInv, CoreInv, DataInv
  <2>2. Drained'
    BY <1>10, <2>1, QuietLines
  <2>3. line' \in [Addrs -> LineStates] /\ fills' \in [Addrs -> FillStates]
    BY <1>0, <1>10, <2>1, StateTypes DEF CacheInv, L1dLocal, L1dIdles, L1dEntersInv,
       L1dEntersFlush, L1dStartsMiss, L1dWaits, L1dEndsFlush, L1dInvalidates, FillAsk,
       PassIdles
  <2>4. l2' \in [Addrs -> Vals]
    BY <1>0, <1>10, <2>1, OpTypes DEF CacheInv, SpAccess
  <2>5. \A a \in Addrs : line'[a].s = "absent" /\ fills'[a].s = "none"
    BY <2>2 DEF Drained, Draining, Present, Filling
  <2>6. QED
    BY <2>3, <2>4, <2>5 DEF CacheInv
<1>11. QED
  BY <1>2, <1>3, <1>4, <1>5, <1>6, <1>7, <1>8, <1>9, <1>10 DEF MemClk, L1dAccess

\* Every step of the L1D is a step of its lines or of its fills.
LEMMA MemMoves == MemClk => (L1dLocal \/ L1dAccess) /\ (SpLocal \/ SpAccess)
BY DEF MemClk

LEMMA DataStep ==
    ASSUME HandoffInv, CoreClk, MemClk
    PROVE  DataInv'
<1> USE DEF HandoffInv
<1>0. L1dLocal \/ L1dAccess
  BY MemMoves
<1>1. CacheInv'
  BY CacheStep
<1>2. st' = "WAIT" => Drained'
  <2>1. SUFFICES ASSUME st' = "WAIT" PROVE Drained'
    OBVIOUS
  <2>2. CASE st = "WAIT"
    BY <1>0, <2>2, QuietLines DEF CoreInv, DataInv
  <2>3. CASE st = "MARSHAL" /\ flushOk
    <3>1. FlushEnds
      BY <2>3 DEF FlushInv, NoFlush, FlushIssued, FlushWalks
    <3>2. QED
      BY <1>0, <2>3, <3>1, QuietLines DEF FlushEnds, CoreInv
  <2>4. QED
    BY <2>1, <2>2, <2>3, CoreMoves DEF trapReqReady
<1>3. ~CACHE_EN => Drained' /\ l1d' = "IDLE"
  <2>1. SUFFICES ASSUME ~CACHE_EN PROVE Drained' /\ l1d' = "IDLE"
    OBVIOUS
  <2>2. Drained /\ l1d = "IDLE"
    BY <2>1 DEF DataInv
  <2>3. PassIdles \/ PassAccess \/ FillAnswer \/ FillInstall
    BY <1>0, <2>1, <2>2 DEF L1dLocal, L1dAccess, L1dIdles, L1dEntersInv, L1dEntersFlush,
       L1dStartsMiss, L1dWaits, L1dEndsFlush, L1dInvalidates, FillAsk, L1dHit, CanTake,
       L1dFills, L1dWritesZeroLine, L1dFlushesLine
  <2>4. ~FillAnswer /\ ~FillInstall
    BY <2>2 DEF Drained, Filling, FillAnswer, FillInstall, Asked
  <2>5. line' = line /\ fills' = fills /\ l1d' = l1d
    BY <2>3, <2>4 DEF PassIdles, PassAccess
  <2>6. QED
    BY <2>2, <2>5 DEF Drained, Draining, Filling, Present
<1>4. l1d' = "MISS" => st' = "MEM" /\ ~ack' /\ ~Filling' /\ ~Hit'
  <2>1. SUFFICES ASSUME l1d' = "MISS" PROVE st' = "MEM" /\ ~ack' /\ ~Filling' /\ ~Hit'
    OBVIOUS
  <2>2. L1dStartsMiss \/ (L1dWaits /\ l1d = "MISS")
    <3>1. ~L1dHit /\ ~L1dFills /\ ~L1dWritesZeroLine
      BY <2>1 DEF L1dHit, CanTake, L1dFills, L1dWritesZeroLine
    <3>2. ~L1dFlushesLine /\ ~FillAnswer /\ ~FillInstall
      BY <2>1 DEF L1dFlushesLine, FillAnswer, FillInstall
    <3>3. ~PassIdles /\ ~PassAccess
      BY <2>1 DEF PassIdles, PassAccess, DataInv
    <3>4. ~L1dIdles /\ ~L1dEntersInv /\ ~L1dEntersFlush /\ ~L1dEndsFlush
          /\ ~L1dInvalidates /\ ~FillAsk
      BY <2>1 DEF L1dIdles, L1dEntersInv, L1dEntersFlush, L1dEndsFlush,
         L1dInvalidates, FillAsk
    <3>5. L1dWaits => l1d = "MISS"
      BY <2>1 DEF L1dWaits
    <3>6. QED
      BY <1>0, <3>1, <3>2, <3>3, <3>4, <3>5 DEF L1dLocal, L1dAccess
  <2>3. st = "MEM" /\ ~ack /\ ~Filling /\ ~Hit
    BY <2>2 DEF L1dStartsMiss, CanTake, dmemReq, CoreInv, DataInv
  <2>4. line' = line /\ fills' = fills /\ ~ack'
    BY <2>2 DEF L1dStartsMiss, L1dWaits
  <2>5. st' = "MEM" /\ op' = op
    BY <2>3 DEF CoreClk, CoreRun, CoreAccess, CoreAccessEnds, CoreCollects, CoreTraps,
       CoreMarshals, CoreWaits, CoreLatches, CorePushes, CoreResumes, CoreHalted,
       trapResReady
  <2>6. QED
    BY <2>3, <2>4, <2>5 DEF Filling, Hit, Present
<1>5. QED
  BY <1>1, <1>2, <1>3, <1>4 DEF DataInv, CacheInv

-----------------------------------------------------------------------------
LEMMA HandoffNext == HandoffInv /\ [Next]_vars => HandoffInv'
<1> SUFFICES ASSUME HandoffInv, [Next]_vars PROVE HandoffInv'
  OBVIOUS
<1>1. CASE Next
  <2>1. CoreClk /\ MbClk /\ GateClk /\ SeqClk /\ FwClk /\ MemClk
        /\ (L1dLocal \/ L1dAccess) /\ (SpLocal \/ SpAccess)
    BY <1>1, MemMoves DEF Next
  <2>2. CoreInv'
    BY <2>1, AckStep, CoreStep DEF HandoffInv
  <2>3. PartyInv'
    BY <2>1, PartyStep
  <2>4. FlushInv' /\ InvalInv'
    BY <2>1, FlushStep, InvalStep
  <2>5. DataInv'
    BY <2>1, DataStep
  <2>6. QED
    BY <2>2, <2>3, <2>4, <2>5 DEF HandoffInv
<1>2. CASE UNCHANGED vars
  <2> USE <1>2 DEF vars, core, mail, gate, sqr, l1, fw
  <2>1. CoreInv' /\ PartyInv'
    BY DEF HandoffInv, CoreInv, PartyInv
  <2>2. FlushInv'
    BY DEF HandoffInv, FlushInv, NoFlush, FlushIssued, FlushWalks, FlushEnds,
       Drained, Draining, Filling, Present
  <2>3. InvalInv'
    BY DEF HandoffInv, InvalInv, NoInv, InvIssued, InvWalks, InvEnds
  <2>4. DataInv'
    BY DEF HandoffInv, DataInv, Drained, Draining, Filling, Present, Hit
  <2>5. QED
    BY <2>1, <2>2, <2>3, <2>4 DEF HandoffInv
<1>3. QED
  BY <1>1, <1>2

\* The inductive invariant of the handoff: where a trap stands, register by
\* register, in pycore, the mailbox, the owner gate, the sequencer and the L1D.
THEOREM HandoffInvariant == Spec => []HandoffInv
BY HandoffInit, HandoffNext, PTL DEF Spec

\* The $fatal backstops of the owner gate never fire, whatever the latencies.
THEOREM OneMasterHolds == Spec => []OneMaster
<1>1. HandoffInv => OneMaster
  BY DEF HandoffInv, CoreInv, PartyInv, OneMaster
<1>2. QED
  BY <1>1, HandoffInvariant, PTL

\* The $error backstop of the L1D never fires: the flush and the
\* invalidation never meet a request.
THEOREM NoRequestDroppedHolds == Spec => []NoRequestDropped
<1>1. HandoffInv => NoRequestDropped
  BY DEF HandoffInv, CoreInv, PartyInv, FlushInv, NoFlush, InvalInv, NoInv,
     NoRequestDropped
<1>2. QED
  BY <1>1, HandoffInvariant, PTL

\* The L1D holds no line and no fill is in flight while excore owns memory.
THEOREM DrainedForExcoreHolds == Spec => []DrainedForExcore
<1>1. HandoffInv => DrainedForExcore
  BY DEF HandoffInv, PartyInv, DataInv, Drained, DrainedForExcore
<1>2. QED
  BY <1>1, HandoffInvariant, PTL

-----------------------------------------------------------------------------
\* The refinement.  What a read by pycore returns, address by address.
LEMMA ViewIs ==
    /\ View = [a \in Addrs |-> View[a]]
    /\ View' = [a \in Addrs |-> View'[a]]
    /\ \A a \in Addrs : View[a] = IF line[a].s = "absent" THEN l2[a] ELSE line[a].v
    /\ \A a \in Addrs : View'[a] = IF line'[a].s = "absent" THEN l2'[a] ELSE line'[a].v
BY DEF View

LEMMA ViewType == DataInv => View \in [Addrs -> Vals]
BY HandoffAssumption DEF DataInv, View, LineStates, Absent

LEMMA ViewSame ==
    ASSUME \A a \in Addrs : View'[a] = View[a]
    PROVE  View' = View
BY ViewIs

\* Moving lines and fills about changes nothing a reader can see.
LEMMA Invisible ==
    ASSUME HandoffInv,
           \/ L1dLocal /\ l2' = l2
           \/ L1dFlushesLine \/ FillAnswer \/ FillInstall
    PROVE  View' = View
<1> USE DEF HandoffInv
<1>0. SUFFICES \A a \in Addrs : View'[a] = View[a]
  BY ViewSame
<1>1. CASE line' = line /\ l2' = l2
  BY <1>1, ViewIs
<1>2. CASE L1dInvalidates /\ l2' = l2
  <2>1. l1d = "INV" /\ line' = [a \in Addrs |-> Absent]
    BY <1>2 DEF L1dInvalidates
  <2>2. st = "WAIT"
    BY <2>1 DEF CoreInv, FlushInv, FlushIssued, FlushWalks, FlushEnds
  <2>3. \A a \in Addrs : line[a].s = "absent"
    BY <2>2 DEF DataInv, Drained, Draining, Present
  <2>4. QED
    BY <1>2, <2>1, <2>3, ViewIs, StateTypes
<1>3. CASE L1dFlushesLine
  <2>1. PICK a \in Addrs : /\ l2' = BelowAfter({a})
                           /\ line' = [line EXCEPT ![a] = Absent]
                           /\ line[a].s # "absent"
    BY <1>3 DEF L1dFlushesLine, Draining, Present
  <2>2. l2'[a] = line[a].v /\ \A b \in Addrs : b # a => l2'[b] = l2[b]
    BY <2>1, WriteBack
  <2>3. line'[a].s = "absent" /\ \A b \in Addrs : b # a => line'[b] = line[b]
    BY <2>1, StateTypes DEF DataInv
  <2>4. QED
    BY <2>1, <2>2, <2>3, ViewIs
<1>4. CASE FillInstall
  <2>1. PICK a \in Addrs : \E victims \in Victims(a) :
          /\ fills[a].s = "answered"
          /\ l2' = BelowAfter(victims)
          /\ line' = [b \in Addrs |-> IF b = a THEN Clean(fills[a].v)
                                      ELSE IF b \in victims THEN Absent
                                      ELSE line[b]]
    BY <1>4 DEF FillInstall
  <2>2. PICK victims \in Victims(a) :
          /\ fills[a].s = "answered"
          /\ l2' = BelowAfter(victims)
          /\ line' = [b \in Addrs |-> IF b = a THEN Clean(fills[a].v)
                                      ELSE IF b \in victims THEN Absent
                                      ELSE line[b]]
    BY <2>1
  <2>3. victims \in SUBSET Addrs /\ a \notin victims
        /\ \A b \in victims : line[b].s # "absent"
    BY DEF Victims, Draining, Present
  <2>4. line[a].s = "absent" /\ fills[a].v = l2[a] /\ fills[a].v \in Vals
    BY <2>2 DEF DataInv
  <2>5. View'[a] = View[a]
    BY <2>2, <2>4, ViewIs, StateTypes
  <2>6. \A b \in victims : View'[b] = View[b]
    BY <2>2, <2>3, WriteBack, ViewIs, StateTypes
  <2>7. \A b \in Addrs : b # a /\ b \notin victims => View'[b] = View[b]
    BY <2>2, <2>3, WriteBack, ViewIs
  <2>8. QED
    BY <2>5, <2>6, <2>7
<1>5. QED
  BY <1>1, <1>2, <1>3, <1>4 DEF L1dLocal, L1dIdles, L1dEntersInv, L1dEntersFlush,
     L1dStartsMiss, L1dWaits, L1dEndsFlush, FillAsk, PassIdles, FillAnswer

\* A completed access, as the shared memory sees it.
Seen(by, o) ==
    \/ o.kind = "read" /\ View' = View
       /\ last' = [by |-> by, we |-> FALSE, a |-> o.a, v |-> View[o.a]]
    \/ View' = [View EXCEPT ![o.a] = o.v]
       /\ last' = [by |-> by, we |-> TRUE, a |-> o.a, v |-> o.v]

LEMMA ViewWritten ==
    ASSUME NEW o \in Ops, View'[o.a] = o.v,
           \A a \in Addrs : a # o.a => View'[a] = View[a]
    PROVE  View' = [View EXCEPT ![o.a] = o.v]
<1>1. View' = [a \in Addrs |-> IF a = o.a THEN o.v ELSE View[a]]
  BY ViewIs
<1>2. QED
  BY <1>1, ViewIs

LEMMA CoreSeen ==
    ASSUME HandoffInv, L1dHit \/ L1dFills \/ L1dWritesZeroLine \/ PassAccess
    PROVE  op \in Ops /\ owner = "PYCORE" /\ st = "MEM" /\ Seen("PYCORE", op)
<1> USE DEF HandoffInv
<1>1. st = "MEM" /\ op \in Ops /\ owner = "PYCORE"
  <2>1. CASE L1dHit \/ PassAccess
    BY <2>1 DEF L1dHit, PassAccess, CanTake, dmemReq, CoreInv
  <2>2. CASE L1dFills \/ L1dWritesZeroLine
    <3>1. l1d = "MISS"
      BY <2>2 DEF L1dFills, L1dWritesZeroLine
    <3>2. QED
      BY <3>1 DEF DataInv, CoreInv, PartyInv
  <2>3. QED
    BY <2>1, <2>2 DEF CoreInv, PartyInv
<1>2. op.a \in Addrs /\ op.v \in Vals /\ op.kind \in {"read", "write"}
  BY <1>1 DEF Ops
<1>3. CASE L1dHit
  <2>1. line[op.a].s # "absent" /\ l2' = l2
    BY <1>3 DEF L1dHit, Hit, Present
  <2>2. CASE op.kind = "read"
    <3>1. line' = line /\ last' = [by |-> "PYCORE", we |-> FALSE, a |-> op.a,
                                   v |-> line[op.a].v]
      BY <1>3, <2>2 DEF L1dHit, Reads
    <3>2. View' = View
      BY <2>1, <3>1, ViewIs, ViewSame
    <3>3. QED
      BY <1>1, <1>2, <2>1, <2>2, <3>1, <3>2, ViewIs DEF Seen
  <2>3. CASE op.kind # "read"
    <3>1. line' = [line EXCEPT ![op.a] = Dirty(op.v)]
          /\ last' = [by |-> "PYCORE", we |-> TRUE, a |-> op.a, v |-> op.v]
      BY <1>3, <2>3 DEF L1dHit, Writes
    <3>2. line'[op.a] = Dirty(op.v) /\ \A a \in Addrs : a # op.a => line'[a] = line[a]
      BY <1>2, <3>1 DEF DataInv
    <3>3. View' = [View EXCEPT ![op.a] = op.v]
      BY <1>1, <1>2, <2>1, <3>2, ViewIs, ViewWritten, StateTypes
    <3>4. QED
      BY <1>1, <3>1, <3>3 DEF Seen
  <2>4. QED
    BY <2>2, <2>3
<1>4. CASE L1dFills
  <2>0. line[op.a].s = "absent"
    BY <1>4 DEF L1dFills, DataInv, Hit, Present
  <2>1. PICK victims \in Victims(op.a) :
          /\ l2' = BelowAfter(victims)
          /\ line' = [a \in Addrs |->
                IF a = op.a
                THEN IF op.kind = "read" THEN Clean(l2[a]) ELSE Dirty(op.v)
                ELSE IF a \in victims THEN Absent ELSE line[a]]
    BY <1>4 DEF L1dFills
  <2>2. victims \in SUBSET Addrs /\ op.a \notin victims
        /\ \A b \in victims : line[b].s # "absent"
    BY DEF Victims, Draining, Present
  <2>3. \A b \in Addrs : b # op.a => View'[b] = View[b]
    <3>1. \A b \in victims : View'[b] = View[b]
      BY <2>1, <2>2, WriteBack, ViewIs, StateTypes
    <3>2. \A b \in Addrs : b # op.a /\ b \notin victims => View'[b] = View[b]
      BY <2>1, <2>2, WriteBack, ViewIs
    <3>3. QED
      BY <3>1, <3>2
  <2>4. CASE op.kind = "read"
    <3>1. View'[op.a] = View[op.a] /\ View[op.a] = l2[op.a]
      BY <1>2, <2>0, <2>1, <2>4, ViewIs, StateTypes DEF DataInv
    <3>2. View' = View
      BY <2>3, <3>1, ViewSame
    <3>3. QED
      BY <1>1, <1>4, <2>4, <3>1, <3>2 DEF L1dFills, Reads, Seen
  <2>5. CASE op.kind # "read"
    <3>1. View'[op.a] = op.v
      BY <1>2, <2>1, <2>5, ViewIs, StateTypes
    <3>2. View' = [View EXCEPT ![op.a] = op.v]
      BY <1>1, <2>3, <3>1, ViewWritten
    <3>3. QED
      BY <1>1, <1>4, <2>5, <3>2 DEF L1dFills, Writes, Seen
  <2>6. QED
    BY <2>4, <2>5
<1>5. CASE L1dWritesZeroLine
  <2>1. /\ l2' = [l2 EXCEPT ![op.a] = Zero] /\ line' = [line EXCEPT ![op.a] = Absent]
        /\ op.v = Zero
        /\ last' = [by |-> "PYCORE", we |-> TRUE, a |-> op.a, v |-> op.v]
    BY <1>5 DEF L1dWritesZeroLine, Writes
  <2>2. /\ line'[op.a].s = "absent" /\ l2'[op.a] = Zero
        /\ \A a \in Addrs : a # op.a => line'[a] = line[a] /\ l2'[a] = l2[a]
    BY <1>2, <2>1, StateTypes DEF DataInv
  <2>3. View' = [View EXCEPT ![op.a] = op.v]
    BY <1>1, <1>2, <2>1, <2>2, ViewIs, ViewWritten
  <2>4. QED
    BY <1>1, <2>1, <2>3 DEF Seen
<1>6. CASE PassAccess
  <2>1. line' = line /\ \A a \in Addrs : line[a].s = "absent"
    BY <1>6 DEF PassAccess, DataInv, Drained, Draining, Present
  <2>2. CASE op.kind = "read"
    <3>1. l2' = l2 /\ last' = [by |-> "PYCORE", we |-> FALSE, a |-> op.a, v |-> l2[op.a]]
      BY <1>6, <2>2 DEF PassAccess, Reads
    <3>2. View' = View /\ View[op.a] = l2[op.a]
      BY <1>2, <2>1, <3>1, ViewIs, ViewSame
    <3>3. QED
      BY <1>1, <2>2, <3>1, <3>2 DEF Seen
  <2>3. CASE op.kind # "read"
    <3>1. l2' = [l2 EXCEPT ![op.a] = op.v]
          /\ last' = [by |-> "PYCORE", we |-> TRUE, a |-> op.a, v |-> op.v]
      BY <1>6, <2>3 DEF PassAccess, Writes
    <3>2. l2'[op.a] = op.v /\ \A a \in Addrs : a # op.a => l2'[a] = l2[a]
      BY <1>2, <3>1 DEF DataInv
    <3>3. View' = [View EXCEPT ![op.a] = op.v]
      BY <1>1, <1>2, <2>1, <3>2, ViewIs, ViewWritten
    <3>4. QED
      BY <1>1, <3>1, <3>3 DEF Seen
  <2>4. QED
    BY <2>2, <2>3
<1>7. QED
  BY <1>1, <1>3, <1>4, <1>5, <1>6

LEMMA HartSeen ==
    ASSUME HandoffInv, L1dLocal, SpAccess
    PROVE  spOp \in Ops /\ owner = "EXCORE" /\ mb = "WAIT_RES" /\ Seen("EXCORE", spOp)
<1> USE DEF HandoffInv
<1>1. /\ spOp \in Ops /\ owner = "EXCORE" /\ mb = "WAIT_RES" /\ st = "WAIT"
      /\ op = NoOp /\ ~gc /\ l1d # "MISS" /\ Drained
  BY DEF SpAccess, PartyInv, CoreInv, DataInv
<1>2. Drained'
  BY <1>1, QuietLines
<1>3. /\ \A a \in Addrs : View[a] = l2[a]
      /\ \A a \in Addrs : View'[a] = l2'[a]
  BY <1>1, <1>2, ViewIs DEF Drained, Draining, Present
<1>4. spOp.a \in Addrs /\ spOp.v \in Vals
  BY <1>1 DEF Ops
<1>5. CASE spOp.kind = "read"
  <2>1. l2' = l2 /\ last' = [by |-> "EXCORE", we |-> FALSE, a |-> spOp.a,
                             v |-> l2[spOp.a]]
    BY <1>5 DEF SpAccess, Reads
  <2>2. View' = View /\ View[spOp.a] = l2[spOp.a]
    BY <1>3, <1>4, <2>1, ViewSame
  <2>3. QED
    BY <1>1, <1>5, <2>1, <2>2 DEF Seen
<1>6. CASE spOp.kind # "read"
  <2>1. l2' = [l2 EXCEPT ![spOp.a] = spOp.v]
        /\ last' = [by |-> "EXCORE", we |-> TRUE, a |-> spOp.a, v |-> spOp.v]
    BY <1>6 DEF SpAccess, Writes
  <2>2. l2'[spOp.a] = spOp.v /\ \A a \in Addrs : a # spOp.a => l2'[a] = l2[a]
    BY <1>4, <2>1 DEF DataInv
  <2>3. View' = [View EXCEPT ![spOp.a] = spOp.v]
    BY <1>1, <1>3, <1>4, <2>2, ViewWritten
  <2>4. QED
    BY <1>1, <2>1, <2>3 DEF Seen
<1>7. QED
  BY <1>5, <1>6

LEMMA SeenStep ==
    ASSUME NEW o \in Ops, Seen(owner, o), owner' = owner
    PROVE  Shared!Next
<1>1. o.a \in Addrs /\ o.v \in Vals
  BY DEF Ops
<1>2. Shared!Read(o.a) \/ Shared!Write(o.a, o.v)
  BY DEF Seen, Shared!Read, Shared!Write
<1>3. QED
  BY <1>1, <1>2 DEF Shared!Next

\* Who owns the memory changes only between two accesses.
LEMMA OwnerStep ==
    ASSUME HandoffInv, GateClk
    PROVE  \/ owner' = owner
           \/ owner = "PYCORE" /\ owner' = "EXCORE" /\ op = NoOp /\ sp = "idle"
           \/ owner = "EXCORE" /\ owner' = "PYCORE" /\ op = NoOp /\ sp = "idle"
BY DEF HandoffInv, CoreInv, PartyInv, GateClk, Gate, GiveToExcore, GiveToPycore,
   trapReqValid, trapResValid, trapResReady

\* Every step is a step of the shared memory, or none at all.
LEMMA SharedStep == HandoffInv /\ [Next]_vars => [Shared!Next]_<<owner, View, last>>
<1> SUFFICES ASSUME HandoffInv, [Next]_vars
             PROVE  [Shared!Next]_<<owner, View, last>>
  OBVIOUS
<1>1. CASE UNCHANGED vars
  <2>1. View' = View /\ owner' = owner /\ last' = last
    BY <1>1, ViewIs DEF vars, l1, gate
  <2>2. QED
    BY <2>1
<1>2. CASE Next
  <2>1. GateClk /\ MemClk
    BY <1>2 DEF Next
  <2>2. CASE L1dHit \/ L1dFills \/ L1dWritesZeroLine \/ PassAccess
    <3>1. op \in Ops /\ op # NoOp /\ owner = "PYCORE" /\ Seen("PYCORE", op)
      BY <2>2, CoreSeen DEF Ops, NoOp
    <3>2. owner' = owner
      BY <2>1, <3>1, OwnerStep
    <3>3. QED
      BY <3>1, <3>2, SeenStep
  <2>3. CASE L1dLocal /\ SpAccess
    <3>1. spOp \in Ops /\ owner = "EXCORE" /\ Seen("EXCORE", spOp)
      BY <2>3, HartSeen
    <3>2. sp # "idle"
      BY <2>3 DEF SpAccess
    <3>3. owner' = owner
      BY <2>1, <3>2, OwnerStep
    <3>4. QED
      BY <3>1, <3>3, SeenStep
  <2>4. CASE \/ L1dLocal /\ UNCHANGED <<l2, last>>
             \/ L1dFlushesLine \/ FillAnswer \/ FillInstall
    <3>1. View' = View /\ last' = last
      BY <2>4, Invisible DEF L1dFlushesLine, FillAnswer, FillInstall
    <3>2. CASE owner' = owner
      BY <3>1, <3>2
    <3>3. CASE owner' # owner
      <4>1. Shared!Call \/ Shared!Return
        BY <2>1, <3>1, <3>3, OwnerStep DEF Shared!Call, Shared!Return
      <4>2. QED
        BY <4>1 DEF Shared!Next
    <3>4. QED
      BY <3>2, <3>3
  <2>5. QED
    BY <2>1, <2>2, <2>3, <2>4 DEF MemClk, L1dAccess
<1>3. QED
  BY <1>1, <1>2

LEMMA SharedInit == Init => Shared!Init
<1> SUFFICES ASSUME Init PROVE Shared!Init
  OBVIOUS
<1>1. View \in [Addrs -> Vals]
  BY HandoffInit, ViewType DEF HandoffInv
<1>2. QED
  BY <1>1 DEF Init, Shared!Init

\* pycore with its data cache and its non-blocking fills, the flush, the
\* invalidation, the mailbox and the hart together implement one memory that
\* two masters use in turns.
THEOREM ImplementsOneMemory == Spec => OneMemory
BY SharedInit, SharedStep, HandoffInvariant, PTL DEF Spec, OneMemory, Shared!Spec

-----------------------------------------------------------------------------
\* Which trap each register is about, from the core to the mailbox, to the
\* firmware, back to the mailbox and to the core; served lags by one from the
\* raise until the poll that sees it.
Unserved == st = "MARSHAL" \/ (mb = "WAIT_RES" /\ pc = "POLL" /\ ~resGo)

ServeInv ==
    /\ raised \in Nat
    /\ served = IF Unserved THEN raised - 1 ELSE raised
    /\ mb # "IDLE" => mbTrap = raised
    /\ pc # "POLL" => exTrap = raised
    /\ resGo => exRes.trap = raised
    /\ mb \in {"NEED_DELAY", "RES_VALID"} => mbRes.trap = raised
    /\ seen => res.trap = raised

LEMMA RaisedMoves ==
    ASSUME CoreInv, CoreClk
    PROVE  \/ st = "RUN" /\ st' = "MARSHAL" /\ raised' = raised + 1
           \/ (st' = "MARSHAL" <=> st = "MARSHAL" /\ ~trapReqReady) /\ raised' = raised
<1> USE DEF CoreInv
<1>1. CASE CoreTraps
  BY <1>1 DEF CoreTraps
<1>2. CASE CoreRun \/ CoreWaits \/ CoreHalted \/ CoreAccess \/ CoreAccessEnds
           \/ CoreCollects
  BY <1>2 DEF CoreRun, CoreWaits, CoreHalted, CoreAccess, CoreAccessEnds, CoreCollects,
     core
<1>3. CASE CoreMarshals
  BY <1>3 DEF CoreMarshals
<1>4. CASE CoreLatches \/ CorePushes \/ CoreResumes
  BY <1>4 DEF CoreLatches, CorePushes, CoreResumes, trapResReady
<1>5. QED
  BY <1>1, <1>2, <1>3, <1>4 DEF CoreClk

LEMMA ServeStep ==
    ASSUME HandoffInv, ServeInv, CoreClk, MbClk, FwClk
    PROVE  ServeInv'
<1> USE DEF HandoffInv, CoreInv, PartyInv, ServeInv
<1>1. CASE mb = "IDLE"
  <2>1. st # "WAIT" /\ pc = "POLL" /\ ~resGo /\ ~seen
    BY <1>1
  <2>2. pc' = "POLL" /\ ~resGo' /\ served' = served /\ ~seen'
    BY <1>1, <2>1, CoreMoves DEF FwClk, FwBetween, FwPoll, FwSlot, FwSlotPoll, FwReplies
  <2>3. /\ mb' = IF trapReqValid /\ flushOk THEN "WAIT_RES" ELSE "IDLE"
        /\ mb' # "IDLE" => mbTrap' = raised
    BY <1>1 DEF MbClk, MbIdle, MbWaitRes, MbNeedDelay, MbResValid
  <2>4. QED
    BY <1>1, <2>1, <2>2, <2>3, RaisedMoves DEF Unserved, trapReqValid, trapReqReady
<1>2. CASE mb = "WAIT_RES"
  <2>1. st = "WAIT" /\ ~seen /\ ~seen' /\ raised' = raised /\ st' # "MARSHAL"
    BY <1>2, CoreMoves, RaisedMoves DEF trapResValid
  <2>2. /\ mbTrap' = mbTrap
        /\ mb' \in {"WAIT_RES", "NEED_DELAY", "RES_VALID"}
        /\ resGo => mb' # "WAIT_RES" /\ mbRes' = exRes
        /\ ~resGo => mb' = "WAIT_RES"
    BY <1>2 DEF MbClk, MbIdle, MbWaitRes, MbNeedDelay, MbResValid
  <2>3. CASE FwBetween
    BY <2>1, <2>2, <2>3, <1>2 DEF FwBetween, Unserved
  <2>4. CASE FwPoll
    BY <2>1, <2>2, <2>4, <1>2 DEF FwPoll, Unserved
  <2>5. CASE FwSlot \/ FwSlotPoll
    BY <2>1, <2>2, <2>5, <1>2 DEF FwSlot, FwSlotPoll, Unserved
  <2>6. CASE FwReplies
    <3>1. pc = "SERVE" /\ pc' = "POLL" /\ resGo' /\ exRes'.trap = exTrap
          /\ served' = served /\ exTrap' = exTrap
      BY <2>6 DEF FwReplies
    <3>2. QED
      BY <1>2, <2>1, <2>2, <3>1 DEF Unserved
  <2>7. QED
    BY <2>3, <2>4, <2>5, <2>6 DEF FwClk
<1>3. CASE mb \in {"NEED_DELAY", "RES_VALID"}
  <2>1. st = "WAIT" /\ pc = "POLL" /\ ~resGo /\ raised' = raised /\ st' # "MARSHAL"
    BY <1>3, RaisedMoves
  <2>2. pc' = "POLL" /\ ~resGo' /\ served' = served
    BY <1>3, <2>1 DEF FwClk, FwBetween, FwPoll, FwSlot, FwSlotPoll, FwReplies
  <2>3. /\ mbTrap' = mbTrap /\ mbRes' = mbRes
        /\ mb' \in {"IDLE", "NEED_DELAY", "RES_VALID"}
    BY <1>3 DEF MbClk, MbIdle, MbWaitRes, MbNeedDelay, MbResValid
  <2>4. seen' => res'.trap = raised
    <3>1. CASE CoreLatches
      BY <1>3, <3>1 DEF CoreLatches, trapResValid
    <3>2. CASE CorePushes
      BY <3>2 DEF CorePushes
    <3>3. CASE CoreResumes
      BY <3>3 DEF CoreResumes
    <3>4. CASE CoreWaits
      BY <3>4 DEF CoreWaits, core
    <3>5. QED
      BY <2>1, <3>1, <3>2, <3>3, <3>4 DEF CoreClk, CoreRun, CoreHalted, CoreAccess,
         CoreAccessEnds, CoreCollects, CoreTraps, CoreMarshals
  <2>5. QED
    BY <1>3, <2>1, <2>2, <2>3, <2>4 DEF Unserved
<1>4. QED
  BY <1>1, <1>2, <1>3

THEOREM ServeInvariant == Spec => []ServeInv
<1>1. Init => ServeInv
  BY DEF Init, ServeInv, Unserved
<1>2. HandoffInv /\ ServeInv /\ [Next]_vars => ServeInv'
  <2>1. SUFFICES ASSUME HandoffInv, ServeInv, [Next]_vars PROVE ServeInv'
    OBVIOUS
  <2>2. CASE Next
    BY <2>1, <2>2, ServeStep DEF Next
  <2>3. CASE UNCHANGED vars
    BY <2>1, <2>3 DEF ServeInv, Unserved, vars, core, mail, fw
  <2>4. QED
    BY <2>1, <2>2, <2>3
<1>3. QED
  BY <1>1, <1>2, HandoffInvariant, PTL DEF Spec

\* The firmware answers each trap once, whatever the speed of the hart, as
\* long as a poll comes at least one cycle after the store to RES_GO.
THEOREM ServedOnceHolds == Spec => []ServedOnce
<1>1. HandoffInv /\ ServeInv => ServedOnce
  BY DEF HandoffInv, CoreInv, PartyInv, ServeInv, Unserved, ServedOnce
<1>2. QED
  BY <1>1, HandoffInvariant, ServeInvariant, PTL

\* The result that pycore applies is the answer to its last trap.
THEOREM ResultForThisTrapHolds == Spec => []ResultForThisTrap
<1>1. ServeInv => ResultForThisTrap
  BY DEF ServeInv, ResultForThisTrap
<1>2. QED
  BY <1>1, ServeInvariant, PTL

-----------------------------------------------------------------------------
\* Types, one part of the system at a time; the rest of TypeOK follows from
\* the invariants above.
CoreTypes == raised \in 0..MAX_TRAPS /\ res \in Results /\ pushes \in 0..MAX_PUSH
FlagTypes == gc \in BOOLEAN /\ seen \in BOOLEAN /\ resGo \in BOOLEAN
MailTypes == /\ delay \in 0..NEED_DELAY /\ (mb = "NEED_DELAY" => delay > 0)
             /\ mbTrap \in 0..MAX_TRAPS /\ mbRes \in Results
GateTypes == /\ flushReq \in BOOLEAN /\ flushIssued \in BOOLEAN /\ flushOk \in BOOLEAN
             /\ invReq \in BOOLEAN /\ invIssued \in BOOLEAN /\ invOk \in BOOLEAN
SeqTypes == /\ flushPend \in BOOLEAN /\ invPend \in BOOLEAN /\ flushDone \in BOOLEAN
            /\ invDone \in BOOLEAN /\ flushAll \in BOOLEAN /\ invAll \in BOOLEAN
            /\ seq \in {"IDLE", "FLUSH_IDLE", "FLUSH_ACK", "FLUSH_WAIT",
                        "INV_IDLE", "INV_ACK", "INV_WAIT"}
L1dTypes == /\ ack \in BOOLEAN /\ l1FlushDone \in BOOLEAN /\ l1InvDone \in BOOLEAN
            /\ l1d \in {"IDLE", "MISS", "FLUSH", "INV"}
FwTypes == /\ gap \in 0..HART_GAP /\ exTrap \in 0..MAX_TRAPS
           /\ slotOps \in 0..MAX_SLOT_OPS /\ exRes \in Results
           /\ spOp \in Ops \cup {NoOp}
           /\ served \in 0..MAX_TRAPS

LEMMA CoreTypesStep ==
    ASSUME CoreTypes, MailTypes, CoreClk PROVE CoreTypes'
<1> USE HandoffAssumption DEF CoreTypes, MailTypes
<1>1. CASE CoreRun \/ CoreWaits \/ CoreHalted
  BY <1>1 DEF CoreRun, CoreWaits, CoreHalted, core
<1>2. CASE CoreAccess \/ CoreAccessEnds \/ CoreCollects \/ CoreResumes
  <2>1. raised' = raised /\ res' = res /\ pushes' = pushes
    BY <1>2 DEF CoreAccess, CoreAccessEnds, CoreCollects, CoreResumes
  <2>2. QED
    BY <2>1
<1>3. CASE CoreTraps
  <2>1. raised' = raised + 1 /\ raised < MAX_TRAPS /\ res' = res /\ pushes' = pushes
    BY <1>3 DEF CoreTraps
  <2>2. QED
    BY <2>1
<1>4. CASE CoreMarshals \/ CoreLatches
  <2>1. raised' = raised /\ res' \in Results /\ (pushes' = pushes \/ pushes' = 0)
    BY <1>4 DEF CoreMarshals, CoreLatches
  <2>2. QED
    BY <2>1
<1>5. CASE CorePushes
  <2>1. res.push \in 0..MAX_PUSH /\ ~(pushes >= res.push) /\ pushes' = pushes + 1
    BY <1>5 DEF CorePushes, trapResReady, Results
  <2>2. pushes' \in 0..MAX_PUSH
    BY <2>1
  <2>3. QED
    BY <1>5, <2>2 DEF CorePushes
<1>6. QED
  BY <1>1, <1>2, <1>3, <1>4, <1>5 DEF CoreClk

LEMMA FlagTypesStep ==
    ASSUME FlagTypes, CoreClk, FwClk PROVE FlagTypes'
<1>1. gc' \in BOOLEAN /\ seen' \in BOOLEAN
  <2>1. CASE CoreRun \/ CoreWaits \/ CoreHalted
    BY <2>1 DEF FlagTypes, CoreRun, CoreWaits, CoreHalted, core
  <2>2. CASE CoreAccess \/ CoreAccessEnds \/ CoreCollects \/ CoreTraps
    BY <2>2 DEF FlagTypes, CoreAccess, CoreAccessEnds, CoreCollects, CoreTraps
  <2>3. CASE CoreMarshals
    BY <2>3 DEF FlagTypes, CoreMarshals
  <2>4. CASE CoreLatches \/ CorePushes
    BY <2>4 DEF FlagTypes, CoreLatches, CorePushes
  <2>5. CASE CoreResumes
    BY <2>5 DEF FlagTypes, CoreResumes
  <2>6. QED
    BY <2>1, <2>2, <2>3, <2>4, <2>5 DEF CoreClk
<1>2. resGo' \in BOOLEAN
  BY DEF FwClk, FwBetween, FwPoll, FwSlot, FwSlotPoll, FwReplies
<1>3. QED
  BY <1>1, <1>2 DEF FlagTypes

LEMMA MailTypesStep ==
    ASSUME CoreTypes, MailTypes, FwTypes, MbClk PROVE MailTypes'
<1> USE HandoffAssumption DEF CoreTypes, MailTypes, FwTypes
<1>1. CASE MbIdle
  BY <1>1 DEF MbIdle
<1>2. CASE MbWaitRes
  BY <1>2 DEF MbWaitRes
<1>3. CASE MbNeedDelay
  BY <1>3 DEF MbNeedDelay
<1>4. CASE MbResValid
  BY <1>4 DEF MbResValid
<1>5. QED
  BY <1>1, <1>2, <1>3, <1>4 DEF MbClk

LEMMA GateTypesStep ==
    ASSUME GateTypes, SeqTypes, GateClk PROVE GateTypes'
<1> USE DEF GateTypes, SeqTypes, GateClk, Gate
<1>1. flushReq' \in BOOLEAN /\ invReq' \in BOOLEAN
  BY DEF IssueFlush, IssueInv
<1>2. flushIssued' \in BOOLEAN /\ invIssued' \in BOOLEAN
  BY DEF IssueFlush, IssueInv
<1>3. flushOk' \in BOOLEAN /\ invOk' \in BOOLEAN
  BY DEF GiveToExcore, GiveToPycore
<1>4. QED
  BY <1>1, <1>2, <1>3

LEMMA SeqTypesStep ==
    ASSUME SeqTypes, GateTypes, L1dTypes, SeqClk PROVE SeqTypes'
<1> USE DEF SeqTypes, GateTypes, L1dTypes
<1>1. CASE SeqIdle
  BY <1>1 DEF SeqIdle
<1>2. CASE SeqFlush
  BY <1>2 DEF SeqFlush, l1dIdle, Filling
<1>3. CASE SeqInv
  BY <1>3 DEF SeqInv, l1dIdle, Filling
<1>4. QED
  BY <1>1, <1>2, <1>3 DEF SeqClk

LEMMA L1dTypesStep ==
    ASSUME SeqTypes, L1dTypes, L1dLocal \/ L1dAccess PROVE L1dTypes'
<1> USE DEF SeqTypes, L1dTypes, NoPulse
<1>1. CASE L1dIdles \/ L1dEntersInv \/ L1dEntersFlush \/ L1dWaits \/ L1dEndsFlush
           \/ L1dInvalidates
  BY <1>1 DEF L1dIdles, L1dEntersInv, L1dEntersFlush, L1dWaits, L1dEndsFlush,
     L1dInvalidates
<1>2. CASE L1dStartsMiss \/ FillAsk \/ L1dHit \/ L1dFills \/ L1dWritesZeroLine
  BY <1>2 DEF L1dStartsMiss, FillAsk, L1dHit, L1dFills, L1dWritesZeroLine
<1>3. CASE L1dFlushesLine \/ FillAnswer \/ FillInstall
  BY <1>3 DEF L1dFlushesLine, FillAnswer, FillInstall
<1>4. CASE PassIdles \/ PassAccess
  BY <1>4 DEF PassIdles, PassAccess
<1>5. QED
  BY <1>1, <1>2, <1>3, <1>4 DEF L1dLocal, L1dAccess

LEMMA FwTypesStep ==
    ASSUME PartyInv, ServeInv, CoreTypes, MailTypes, FwTypes, FwClk
    PROVE  FwTypes'
<1>1. gap' \in 0..HART_GAP
  <2>1. \/ gap > 0 /\ gap' = gap - 1
        \/ gap' = HART_GAP
    BY DEF FwClk, FwBetween, FwPoll, FwSlot, FwSlotPoll, FwReplies
  <2>2. QED
    BY <2>1, HandoffAssumption DEF FwTypes
<1>2. slotOps' \in 0..MAX_SLOT_OPS
  <2>1. \/ slotOps' = slotOps
        \/ slotOps' = 0
        \/ slotOps < MAX_SLOT_OPS /\ slotOps' = slotOps + 1
    BY DEF FwClk, FwBetween, FwPoll, FwSlot, FwSlotPoll, FwReplies
  <2>2. QED
    BY <2>1, HandoffAssumption DEF FwTypes
<1>3. exTrap' \in 0..MAX_TRAPS
  <2>1. exTrap' = exTrap \/ exTrap' = mbTrap
    BY DEF FwClk, FwBetween, FwPoll, FwSlot, FwSlotPoll, FwReplies
  <2>2. QED
    BY <2>1 DEF FwTypes, MailTypes
<1>4. exRes' \in Results /\ spOp' \in Ops \cup {NoOp}
  BY DEF FwTypes, FwClk, FwBetween, FwPoll, FwSlot, FwSlotPoll, FwReplies
<1>5. served' \in 0..MAX_TRAPS
  <2>1. \/ served' = served
        \/ pc = "POLL" /\ gap = 0 /\ mb = "WAIT_RES" /\ served' = served + 1
    BY DEF FwClk, FwBetween, FwPoll, FwSlot, FwSlotPoll, FwReplies
  <2>2. CASE served' = served
    BY <2>2 DEF FwTypes
  <2>3. CASE pc = "POLL" /\ gap = 0 /\ mb = "WAIT_RES" /\ served' = served + 1
    <3>1. Unserved
      BY <2>3 DEF Unserved, PartyInv
    <3>2. served = raised - 1
      BY <3>1 DEF ServeInv
    <3>3. QED
      BY <2>3, <3>2 DEF CoreTypes
  <2>4. QED
    BY <2>1, <2>2, <2>3
<1>6. QED
  BY <1>1, <1>2, <1>3, <1>4, <1>5 DEF FwTypes

LEMMA LastStep ==
    ASSUME HandoffInv, MemClk, last \in Shared!Accesses \cup {Shared!NoAccess}
    PROVE  last' \in Shared!Accesses \cup {Shared!NoAccess}
<1>1. View \in [Addrs -> Vals]
  BY ViewType DEF HandoffInv
<1>2. ASSUME NEW by \in {"PYCORE", "EXCORE"}, NEW o \in Ops, Seen(by, o)
      PROVE  last' \in Shared!Accesses
  <2>1. o.a \in Addrs /\ o.v \in Vals /\ View[o.a] \in Vals
    BY <1>1, OpTypes
  <2>2. \/ last' = [by |-> by, we |-> FALSE, a |-> o.a, v |-> View[o.a]]
        \/ last' = [by |-> by, we |-> TRUE, a |-> o.a, v |-> o.v]
    BY <1>2 DEF Seen
  <2>3. ASSUME NEW we \in BOOLEAN, NEW v \in Vals
        PROVE  [by |-> by, we |-> we, a |-> o.a, v |-> v] \in Shared!Accesses
    BY <2>1 DEF Shared!Accesses, Shared!Masters
  <2>4. QED
    BY <2>1, <2>2, <2>3
<1>3. CASE L1dHit \/ L1dFills \/ L1dWritesZeroLine \/ PassAccess
  BY <1>2, <1>3, CoreSeen
<1>4. CASE L1dLocal /\ SpAccess
  BY <1>2, <1>4, HartSeen
<1>5. CASE last' = last
  BY <1>5
<1>6. QED
  BY <1>3, <1>4, <1>5 DEF MemClk, L1dAccess, L1dFlushesLine, FillAnswer, FillInstall

TypeInv ==
    /\ CoreTypes /\ FlagTypes /\ MailTypes /\ GateTypes /\ SeqTypes /\ L1dTypes
    /\ FwTypes /\ last \in Shared!Accesses \cup {Shared!NoAccess}

LEMMA TypeInit == Init => TypeInv
<1> SUFFICES ASSUME Init PROVE TypeInv
  OBVIOUS
<1> USE HandoffAssumption DEF Init
<1>1. NoRes \in Results
  BY DEF NoRes, Results, ResCodes
<1>2. CoreTypes
  BY <1>1 DEF CoreTypes
<1>4. MailTypes
  BY <1>1 DEF MailTypes
<1>5. FwTypes
  BY <1>1 DEF FwTypes
<1>3. GateTypes /\ SeqTypes /\ L1dTypes /\ FlagTypes
  BY DEF GateTypes, SeqTypes, L1dTypes, FlagTypes
<1>6. QED
  BY <1>2, <1>3, <1>4, <1>5 DEF TypeInv

\* Every register keeps its type; the bounds of the counters are those of the
\* code: the push index, the mailbox delay, the slot port's access count.
THEOREM TypeCorrect == Spec => []TypeOK
<1>1. HandoffInv /\ ServeInv /\ TypeInv /\ [Next]_vars => TypeInv'
  <2>1. SUFFICES ASSUME HandoffInv, ServeInv, TypeInv, [Next]_vars PROVE TypeInv'
    OBVIOUS
  <2>2. CASE Next
    <3>1. /\ CoreClk /\ MbClk /\ GateClk /\ SeqClk /\ FwClk /\ MemClk
          /\ L1dLocal \/ L1dAccess
      BY <2>2, MemMoves DEF Next
    <3>2. CoreTypes'
      BY <2>1, <3>1, CoreTypesStep DEF TypeInv
    <3>3. MailTypes'
      BY <2>1, <3>1, MailTypesStep DEF TypeInv
    <3>4. GateTypes' /\ SeqTypes'
      BY <2>1, <3>1, GateTypesStep, SeqTypesStep DEF TypeInv
    <3>5. L1dTypes'
      BY <2>1, <3>1, L1dTypesStep DEF TypeInv
    <3>6. FwTypes'
      BY <2>1, <3>1, FwTypesStep DEF TypeInv, HandoffInv
    <3>7. last' \in Shared!Accesses \cup {Shared!NoAccess}
      BY <2>1, <3>1, LastStep DEF TypeInv
    <3>8. FlagTypes'
      BY <2>1, <3>1, FlagTypesStep DEF TypeInv
    <3>9. QED
      BY <3>2, <3>3, <3>4, <3>5, <3>6, <3>7, <3>8 DEF TypeInv
  <2>3. CASE UNCHANGED vars
    BY <2>1, <2>3 DEF TypeInv, CoreTypes, FlagTypes, MailTypes, GateTypes, SeqTypes, L1dTypes,
       FwTypes, vars, core, mail, gate, sqr, l1, fw
  <2>4. QED
    BY <2>1, <2>2, <2>3
<1>2. HandoffInv /\ TypeInv => TypeOK
  <2>1. SUFFICES ASSUME HandoffInv, TypeInv PROVE TypeOK
    OBVIOUS
  <2>2. /\ st \in {"RUN", "MEM", "MARSHAL", "WAIT", "HALT"}
        /\ op \in Ops \cup {NoOp}
        /\ mb \in {"IDLE", "WAIT_RES", "NEED_DELAY", "RES_VALID"}
        /\ owner \in {"PYCORE", "EXCORE"}
        /\ pc \in {"POLL", "SERVE", "SPBUSY"} /\ sp \in {"idle", "req", "accepted"}
    BY <2>1 DEF HandoffInv, CoreInv, PartyInv
  <2>3. /\ line \in [Addrs -> LineStates] /\ fills \in [Addrs -> FillStates]
        /\ l2 \in [Addrs -> Vals]
    BY <2>1 DEF HandoffInv, DataInv
  <2>4. <<flushReq, flushIssued, flushOk, invReq, invIssued, invOk,
          flushPend, invPend, flushDone, invDone, flushAll, invAll,
          ack, l1FlushDone, l1InvDone, resGo>> \in [1..16 -> BOOLEAN]
    BY <2>1 DEF TypeInv, GateTypes, SeqTypes, L1dTypes, FlagTypes
  <2>5. QED
    BY <2>1, <2>2, <2>3, <2>4 DEF TypeOK, TypeInv, CoreTypes, FlagTypes, MailTypes, SeqTypes,
       L1dTypes, FwTypes
<1>3. QED
  BY <1>1, <1>2, TypeInit, HandoffInvariant, ServeInvariant, PTL DEF Spec
=============================================================================
