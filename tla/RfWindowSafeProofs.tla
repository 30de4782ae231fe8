------------------------- MODULE RfWindowSafeProofs -------------------------
(***************************************************************************)
(* The promises of the register window, for every ring, every spill area   *)
(* and every program within the limits of RfWindowSafe.                    *)
(*                                                                         *)
(* The invariant unwraps the pointers: sp is the position of the watermark *)
(* wm in the reference stack, because every entry below it and no other    *)
(* has been evicted.  Each state then says where sp may lie between the    *)
(* base and the top of the running frame, and that spill area and ring     *)
(* agree with the reference stack on their sides of sp.                    *)
(***************************************************************************)
EXTENDS RfWindowSafe, TLAPS
-----------------------------------------------------------------------------
(* Rings: theorems about RfWindow, for every ring depth, hysteresis, window *)
(* cap and set of code objects.                                             *)

LEMMA RingRange == \A k \in Int : Ring(k) \in Index
BY RingAssumption DEF Ring, Index

LEMMA IndexRange == Index \subseteq Nat /\ 0 \in Index
BY RingAssumption DEF Index

LEMMA CodeRange ==
    ASSUME NEW c \in CodeSet
    PROVE  /\ c.nlocals \in Nat /\ c.stacksize \in Nat /\ c.peak \in Nat
           /\ c.params \in Nat /\ c.dflt \in Nat
           /\ Need(c) \in Nat
           /\ c.dflt <= c.params
           /\ \A e \in c.handlers : e.depth \in Nat /\ e.lasti \in {0, 1}
<1>1. c \in CodeObjects
  BY CodeAssumption DEF CodeSet
<1>2. QED
  BY <1>1, CodeAssumption DEF CodeObjects, Need, CodeSet
-----------------------------------------------------------------------------
(* Ring arithmetic *)

LEMMA RingSize == RF_DEPTH \in Nat /\ RF_DEPTH > 1
BY RingAssumption

LEMMA MultBound ==
    ASSUME NEW q \in Int, q >= 1
    PROVE  RF_DEPTH * q >= RF_DEPTH
BY RingSize

\* How often position k has gone round the ring.
Laps(k) == k \div RF_DEPTH

LEMMA Quotient ==
    ASSUME NEW k \in Int
    PROVE  Laps(k) \in Int /\ k = RF_DEPTH * Laps(k) + Ring(k) /\ Ring(k) \in 0..(RF_DEPTH - 1)
BY RingSize DEF Ring, Laps

LEMMA QuotientUnique ==
    ASSUME NEW p \in Int, NEW q \in Int,
           NEW r \in 0..(RF_DEPTH - 1), NEW s \in 0..(RF_DEPTH - 1),
           RF_DEPTH * p + r = RF_DEPTH * q + s
    PROVE  p = q /\ r = s
<1>1. RF_DEPTH * (p - q) = s - r /\ RF_DEPTH * (q - p) = r - s
  BY RingSize
<1>2. ~(p - q >= 1) /\ ~(q - p >= 1)
  BY <1>1, MultBound, RingSize
<1>3. p = q
  BY <1>2
<1>4. QED
  BY <1>3, <1>1, RingSize

\* Positions less than a ring apart are different entries.
LEMMA RingInjective ==
    ASSUME NEW a \in Int, NEW b \in Int, b <= a, a < b + RF_DEPTH, Ring(a) = Ring(b)
    PROVE  a = b
<1>1. Laps(a) \in Int /\ a = RF_DEPTH * Laps(a) + Ring(a)
  BY Quotient
<1>2. Laps(b) \in Int /\ b = RF_DEPTH * Laps(b) + Ring(b) /\ Ring(b) \in Int
  BY Quotient
<1>3. /\ a - b = RF_DEPTH * (Laps(a) - Laps(b))
      /\ b - a = RF_DEPTH * (Laps(b) - Laps(a))
  BY <1>1, <1>2, RingSize
<1>4. ~(Laps(a) - Laps(b) >= 1) /\ ~(Laps(b) - Laps(a) >= 1)
  BY <1>1, <1>2, <1>3, MultBound, RingSize
<1>5. QED
  BY <1>1, <1>2, <1>4

LEMMA RingSmall ==
    ASSUME NEW k \in 0..(RF_DEPTH - 1)
    PROVE  Ring(k) = k
<1>1. k \in Int /\ k = RF_DEPTH * 0 + k
  BY RingSize
<1>2. Laps(k) \in Int /\ k = RF_DEPTH * Laps(k) + Ring(k) /\ Ring(k) \in 0..(RF_DEPTH - 1)
  BY <1>1, Quotient
<1>3. RF_DEPTH * Laps(k) + Ring(k) = RF_DEPTH * 0 + k
  BY <1>1, <1>2
<1>4. QED
  BY <1>2, <1>3, QuotientUnique

\* It does not matter where in a sum the wrap is.
LEMMA RingCongruent ==
    ASSUME NEW a \in Int, NEW b \in Int, NEW n \in Int, a = RF_DEPTH * n + b
    PROVE  Ring(a) = Ring(b)
<1>1. Laps(a) \in Int /\ a = RF_DEPTH * Laps(a) + Ring(a) /\ Ring(a) \in 0..(RF_DEPTH - 1)
  BY Quotient
<1>2. Laps(b) \in Int /\ b = RF_DEPTH * Laps(b) + Ring(b) /\ Ring(b) \in 0..(RF_DEPTH - 1)
  BY Quotient
<1>3. RF_DEPTH * n + RF_DEPTH * Laps(b) = RF_DEPTH * (n + Laps(b))
  BY <1>2, RingSize
<1>4. RF_DEPTH * (n + Laps(b)) \in Int /\ RF_DEPTH * n \in Int /\ RF_DEPTH * Laps(b) \in Int
  BY <1>2, RingSize
<1>5. RF_DEPTH * Laps(a) + Ring(a) = RF_DEPTH * (n + Laps(b)) + Ring(b)
  BY <1>1, <1>2, <1>3, <1>4
<1>6. n + Laps(b) \in Int
  BY <1>2
<1>7. QED
  BY <1>1, <1>2, <1>5, <1>6, QuotientUnique

LEMMA RingPlus ==
    ASSUME NEW a \in Int, NEW b \in Int
    PROVE  Ring(Ring(a) + b) = Ring(a + b)
<1>1. Laps(a) \in Int /\ a = RF_DEPTH * Laps(a) + Ring(a) /\ Ring(a) \in Int
  BY Quotient
<1>2. a + b = RF_DEPTH * Laps(a) + (Ring(a) + b)
  BY <1>1, RingSize
<1>3. a + b \in Int /\ Ring(a) + b \in Int
  BY <1>1
<1>4. QED
  BY <1>1, <1>2, <1>3, RingCongruent

LEMMA RingMinus ==
    ASSUME NEW a \in Int, NEW b \in Int
    PROVE  Ring(Ring(a) - Ring(b)) = Ring(a - b)
<1>1. Laps(b) \in Int /\ b = RF_DEPTH * Laps(b) + Ring(b) /\ Ring(b) \in Int
  BY Quotient
<1>2. a - Ring(b) = RF_DEPTH * Laps(b) + (a - b)
  BY <1>1, RingSize
<1>3. a - Ring(b) \in Int /\ a - b \in Int
  BY <1>1
<1>4. Ring(a - Ring(b)) = Ring(a - b)
  BY <1>1, <1>2, <1>3, RingCongruent
<1>5. -Ring(b) \in Int /\ Ring(a) + (-Ring(b)) = Ring(a) - Ring(b) /\ a + (-Ring(b)) = a - Ring(b)
  BY <1>1, Quotient
<1>6. QED
  BY <1>4, <1>5, RingPlus

\* The distance of two registers, without a wrap.
LEMMA RingDistance ==
    ASSUME NEW i \in Index, NEW j \in Index
    PROVE  Ring(i - j) = IF i >= j THEN i - j ELSE i - j + RF_DEPTH
<1> i \in 0..(RF_DEPTH - 1) /\ j \in 0..(RF_DEPTH - 1)
  BY DEF Index
<1>2. CASE i >= j
  <2>1. i - j \in 0..(RF_DEPTH - 1)
    BY <1>2, RingSize
  <2>2. QED
    BY <1>2, <2>1, RingSmall
<1>3. CASE ~(i >= j)
  <2>1. i - j + RF_DEPTH \in 0..(RF_DEPTH - 1) /\ i - j \in Int
    BY <1>3, RingSize
  <2>2. i - j = RF_DEPTH * (-1) + (i - j + RF_DEPTH)
    BY <2>1, RingSize
  <2>3. Ring(i - j) = Ring(i - j + RF_DEPTH)
    BY <2>1, <2>2, RingCongruent
  <2>4. QED
    BY <1>3, <2>1, <2>3, RingSmall
<1>4. QED
  BY <1>2, <1>3

\* TypeOK is not inductive as it stands: S_RETURN reads the top descriptor.
TypeInv == TypeOK /\ (st = "S_RETURN" => frames # <<>>)

LEMMA TypeInit == Init => TypeInv
<1> SUFFICES ASSUME Init PROVE TypeInv
  OBVIOUS
<1>1. Boot.nlocals \in Index /\ Boot \in CodeSet
  BY RingAssumption, CodeAssumption DEF CodeObjects, Used, Index, CodeSet
<1>2. frames \in Seq(Descriptors) /\ Len(frames) = 0
  BY DEF Init
<1>3. call \in Calls
  BY <1>1, IndexRange DEF Init, NoCall, Calls
<1>4. rf \in [Index -> Values] /\ rs1 \in Values
  BY DEF Init, Values, Index
<1>5. spill \in [0..(SPILL_MAX - 1) -> Values]
  BY DEF Init, Values
<1>6. tos \in Index /\ wm \in Index /\ lb \in Index /\ code \in CodeSet
  BY <1>1, IndexRange DEF Init
<1>7. st = "S_FETCH" /\ st \in States /\ exc \in BOOLEAN /\ trap \in Traps
  BY DEF Init, States, Traps
<1>8. sp \in Int /\ sp <= SPILL_MAX /\ left \in 0..RF_DEPTH
  BY RingAssumption DEF Init
<1>9. QED
  BY <1>2, <1>3, <1>4, <1>5, <1>6, <1>7, <1>8, RingAssumption DEF TypeInv, TypeOK

\* The occupancy logic stays in the counters' range.
LEMMA CountRange ==
    ASSUME TypeOK
    PROVE  /\ Resident \in Index
           /\ SpillCount \in Index
           /\ \A i \in Index : FillCount(i) \in Index
<1>1. Resident \in Index
  BY RingRange, IndexRange DEF TypeOK, Resident
<1>2. Need(call.code) \in Nat
  BY CodeRange DEF TypeOK, Calls
<1>3. SpillCount \in Index
  BY <1>1, <1>2, RingAssumption DEF SpillCount, Index
<1>4. \A i \in Index : FillCount(i) \in Index
  BY RingRange, IndexRange DEF TypeOK, FillCount
<1>5. QED
  BY <1>1, <1>3, <1>4

LEMMA TypeNext == TypeInv /\ [Next]_vars => TypeInv'
<1> SUFFICES ASSUME TypeInv, [Next]_vars PROVE TypeInv'
  OBVIOUS
<1> USE DEF TypeInv, TypeOK
<1> USE RingAssumption
<1>0. Default \in Values /\ Exc \in Values /\ Lasti \in Values
      /\ Uninit \in Values /\ Consts \subseteq Values
  BY DEF Values
<1>1. CASE LoadConst
  <2>1. rf' \in [Index -> Values]
    BY <1>1, <1>0 DEF LoadConst
  <2>2. tos' \in Index
    BY <1>1, RingRange, IndexRange DEF LoadConst
  <2>3. QED
    BY <1>1, <2>1, <2>2 DEF LoadConst
<1>2. CASE LoadFast
  <2>1. PICK i \in 0..(code.nlocals - 1) : 
             /\ rs1' = rf[Ring(lb + i)]
             /\ rf' = [rf EXCEPT ![tos] = rf[Ring(lb + i)]]
    BY <1>2 DEF LoadFast
  <2>2. Ring(lb + i) \in Index
    BY CodeRange, RingRange, IndexRange
  <2>3. rs1' \in Values /\ rf' \in [Index -> Values]
    BY <2>1, <2>2
  <2>4. tos' \in Index
    BY <1>2, RingRange, IndexRange DEF LoadFast
  <2>5. QED
    BY <1>2, <2>3, <2>4 DEF LoadFast
<1>3. CASE StoreFast
  <2>1. Ring(tos - 1) \in Index
    BY RingRange, IndexRange
  <2>2. rs1' \in Values
    BY <1>3, <2>1 DEF StoreFast
  <2>3. rf' \in [Index -> Values]
    BY <1>3, <2>1 DEF StoreFast
  <2>4. tos' \in Index /\ st' \in States /\ trap' \in Traps /\ st' # "S_RETURN"
    BY <1>3, <2>1 DEF StoreFast, Halt, States, Traps
  <2>5. QED
    BY <1>3, <2>2, <2>3, <2>4 DEF StoreFast
<1>4. CASE PopTop
  <2>1. tos' \in Index /\ st' \in States /\ trap' \in Traps /\ st' # "S_RETURN"
    BY <1>4, RingRange, IndexRange DEF PopTop, Halt, States, Traps
  <2>2. QED
    BY <1>4, <2>1 DEF PopTop
<1>5. CASE Call
  <2>1. PICK c \in Codes, argc \in 0..(Depth - 2) :
          /\ argc \in (c.params - c.dflt)..c.params
          /\ IF Need(c) > RF_WINDOW_CAP
             THEN Halt("call_filter") /\ UNCHANGED <<rf, call>>
             ELSE LET newLocals == Ring(tos - argc) IN
                  /\ st' = "S_CALL"
                  /\ rf' = [i \in DOMAIN rf |->
                               IF i \in Span(newLocals + argc, c.params - argc)
                               THEN Default ELSE rf[i]]
                  /\ call' = [code |-> c, argc |-> argc, newLocals |-> newLocals,
                              tosBase |-> Ring(tos - argc - 2)]
                  /\ UNCHANGED trap
    BY <1>5 DEF Call
  <2>2. c \in CodeSet /\ argc \in Nat
    BY CodeRange DEF CodeSet
  <2>3. Ring(tos - argc) \in Index /\ Ring(tos - argc - 2) \in Index
    BY <2>2, RingRange, IndexRange
  <2>4. rf' \in [Index -> Values]
    BY <2>1, <1>0
  <2>5. call' \in Calls
    BY <2>1, <2>2, <2>3 DEF Calls
  <2>6. st' \in States /\ trap' \in Traps /\ st' # "S_RETURN"
    BY <2>1 DEF Halt, States, Traps
  <2>7. QED
    BY <1>5, <2>4, <2>5, <2>6 DEF Call
<1>6. CASE StartSpill
  <2>1. SpillCount \in 0..RF_DEPTH
    <3>1. SpillCount \in Index
      BY CountRange
    <3>2. QED
      BY <3>1 DEF Index
  <2>2. left' \in 0..RF_DEPTH /\ st' \in States /\ st' # "S_RETURN"
    BY <1>6, <2>1 DEF StartSpill, States
  <2>3. QED
    BY <1>6, <2>2 DEF StartSpill, regs, py
<1>7. CASE SpillEntry
  <2>1. Ring(wm + 1) \in Index
    BY RingRange, IndexRange
  <2>2. CASE sp >= SPILL_MAX
    BY <1>7, <2>2 DEF SpillEntry, SpillFull, Halt, States, Traps, py
  <2>3. CASE ~(sp >= SPILL_MAX)
    <3>1. spill' \in [0..(SPILL_MAX - 1) -> Values] /\ wm' \in Index
      BY <1>7, <2>1, <2>3 DEF SpillEntry, SpillFull
    <3>2. sp' \in Int /\ sp' <= SPILL_MAX /\ left' \in 0..RF_DEPTH
      BY <1>7, <2>3 DEF SpillEntry, SpillFull
    <3>3. QED
      BY <1>7, <2>3, <3>1, <3>2 DEF SpillEntry, SpillFull, py
  <2>4. QED
    BY <2>2, <2>3
<1>8. CASE SpillDone
  BY <1>8 DEF SpillDone, regs, py, States
<1>9. CASE PushFrame
  <2>1. CASE Len(frames) >= MAX_CALL_DEPTH
    BY <1>9, <2>1 DEF PushFrame, Halt, regs, py, States, Traps
  <2>2. CASE ~(Len(frames) >= MAX_CALL_DEPTH)
    <3>1. frames' \in Seq(Descriptors) /\ Len(frames') <= MAX_CALL_DEPTH
      <4>1. [tosBase |-> call.tosBase, lb |-> lb, code |-> code] \in Descriptors
        BY DEF Calls, Descriptors
      <4>2. frames' = Append(frames, [tosBase |-> call.tosBase, lb |-> lb,
                                      code |-> code])
        BY <1>9, <2>2 DEF PushFrame
      <4>3. QED
        BY <2>2, <4>1, <4>2
    <3>2. lb' \in Index /\ code' \in CodeSet /\ tos' \in Index
      <4>1. call.newLocals \in Index /\ call.code \in CodeSet
        BY DEF Calls
      <4>2. call.newLocals + call.code.nlocals \in Int
        <5>1. call.newLocals \in Int
          <6>1. Index \subseteq Int
            BY DEF Index
          <6>2. QED
            BY <4>1, <6>1
        <5>2. call.code.nlocals \in Nat
          BY <4>1, CodeRange
        <5>3. QED
          BY <5>1, <5>2
      <4>3. Ring(call.newLocals + call.code.nlocals) \in Index
        BY <4>2, RingRange
      <4>4. QED
        BY <1>9, <2>2, <4>1, <4>3 DEF PushFrame
    <3>3. rf' \in [Index -> Values]
      BY <1>9, <2>2, <1>0 DEF PushFrame
    <3>4. st' = "S_FETCH" /\ st' \in States /\ trap' = trap /\ wm' = wm
      BY <1>9, <2>2 DEF PushFrame, States
    <3>5. QED
      BY <1>9, <3>1, <3>2, <3>3, <3>4 DEF PushFrame
  <2>3. QED
    BY <2>1, <2>2
<1>10. CASE ReturnValue
  <2>0. Ring(tos - 1) \in Index
    BY RingRange, IndexRange
  <2>1. rs1' \in Values
    BY <1>10, <2>0 DEF ReturnValue
  <2>2. QED
    BY <1>10, <2>1 DEF ReturnValue, regs, States
<1>11. CASE PopFrame
  <2>1. Len(frames) \in 1..Len(frames) /\ frames[Len(frames)] \in Descriptors
    BY <1>11 DEF PopFrame
  <2>2. /\ frames[Len(frames)].tosBase \in Index
        /\ frames[Len(frames)].lb \in Index
        /\ frames[Len(frames)].code \in CodeSet
    BY <2>1 DEF Descriptors
  <2>3. frames' \in Seq(Descriptors) /\ Len(frames') <= MAX_CALL_DEPTH
    BY <1>11, <2>1 DEF PopFrame
  <2>4. lb' \in Index /\ code' \in CodeSet /\ call' \in Calls
    BY <1>11, <2>2 DEF PopFrame, Calls
  <2>5. left' \in 0..RF_DEPTH
    <3>1. FillCount(frames[Len(frames)].lb) \in Index
      BY <2>2, CountRange
    <3>2. left' = FillCount(frames[Len(frames)].lb)
      BY <1>11 DEF PopFrame
    <3>3. QED
      BY <3>1, <3>2 DEF Index
  <2>6. st' \in States /\ st' # "S_RETURN"
    BY <1>11 DEF PopFrame, States
  <2>7. QED
    BY <1>11, <2>3, <2>4, <2>5, <2>6 DEF PopFrame
<1>12. CASE FillEntry
  <2>1. Ring(wm - 1) \in Index
    BY RingRange, IndexRange
  <2>2. rf' \in [Index -> Values]
    BY <1>12, <1>0, <2>1 DEF FillEntry
  <2>3. sp' \in Int /\ sp' <= SPILL_MAX /\ left' \in 0..RF_DEPTH
    BY <1>12 DEF FillEntry
  <2>4. QED
    BY <1>12, <2>1, <2>2, <2>3 DEF FillEntry, py
<1>13. CASE FillDone
  BY <1>13 DEF FillDone, regs, py, States
<1>14. CASE WriteBack
  <2>1. CASE exc
    BY <1>14, <2>1 DEF WriteBack, States
  <2>2. CASE ~exc
    <3>1. call.tosBase \in Index
      BY DEF Calls
    <3>2. rf' \in [Index -> Values]
      BY <1>14, <2>2, <3>1 DEF WriteBack
    <3>4. Ring(call.tosBase + 1) \in Index
      <4>1. \A i \in Index : Ring(i + 1) \in Index
        BY RingRange, IndexRange
      <4>2. QED
        BY <3>1, <4>1
    <3>5. tos' \in Index
      BY <1>14, <2>2, <3>4 DEF WriteBack
    <3>3. QED
      BY <1>14, <2>2, <3>2, <3>5 DEF WriteBack, States
  <2>3. QED
    BY <2>1, <2>2
<1>15. CASE Raise
  BY <1>15, RingRange, IndexRange DEF Raise, States
<1>16. CASE HandlerHit
  <2>1. PICK e \in code.handlers :
          LET slot == Ring(lb + code.nlocals + e.depth) IN
          /\ IF e.lasti = 1
             THEN rf' = [rf EXCEPT ![slot] = Lasti, ![Ring(slot + 1)] = Exc]
             ELSE rf' = [rf EXCEPT ![slot] = Exc]
          /\ tos' = Ring(slot + e.lasti + 1)
    BY <1>16 DEF HandlerHit
  <2>2. Ring(lb + code.nlocals + e.depth) \in Index
    BY CodeRange, RingRange, IndexRange
  <2>3. rf' \in [Index -> Values]
    BY <1>0, <2>1, <2>2
  <2>4. tos' \in Index
    <3>1. e.lasti \in {0, 1}
      BY CodeRange
    <3>2. Ring(Ring(lb + code.nlocals + e.depth) + e.lasti + 1) \in Index
      BY <2>2, <3>1, RingRange, IndexRange
    <3>3. QED
      BY <2>1, <3>2
  <2>5. QED
    BY <1>16, <2>3, <2>4 DEF HandlerHit, States
<1>17. CASE HandlerMiss
  BY <1>17 DEF HandlerMiss, Halt, regs, py, States, Traps
<1>18. CASE UNCHANGED vars
  BY <1>18 DEF vars, regs
<1>19. QED
  BY <1>1, <1>2, <1>3, <1>4, <1>5, <1>6, <1>7, <1>8, <1>9, <1>10, <1>11,
     <1>12, <1>13, <1>14, <1>15, <1>16, <1>17, <1>18
     DEF Next, Instruction, MachineStep

\* The registers of the window never leave their widths, the spill pointer
\* never passes the end of its area and the call depth never passes the
\* frame stack, whatever the program does (RfWindow!TypeOK).
THEOREM TypeCorrect == Spec => []TypeOK
<1>1. Spec => []TypeInv
  BY TypeInit, TypeNext, PTL DEF Spec
<1>2. TypeInv => TypeOK
  BY DEF TypeInv
<1>3. QED
  BY <1>1, <1>2, PTL
-----------------------------------------------------------------------------
(* What a spill leaves *)

Occupied(t, w) == IF t = w THEN 0 ELSE Ring(t - w)

\* One entry evicted is one entry fewer.
LEMMA OccupiedEvict ==
    ASSUME NEW t \in Index, NEW w \in Index, t # w
    PROVE  Occupied(t, Ring(w + 1)) = Occupied(t, w) - 1
<1> t \in 0..(RF_DEPTH - 1) /\ w \in 0..(RF_DEPTH - 1)
  BY DEF Index
<1>1. Ring(w + 1) \in Index /\ (Ring(w + 1) = IF w = RF_DEPTH - 1 THEN 0 ELSE w + 1)
  <2>1. CASE w = RF_DEPTH - 1
    <3>1. w + 1 \in Int /\ 0 \in 0..(RF_DEPTH - 1) /\ w + 1 = RF_DEPTH * 1 + 0
      BY <2>1, RingSize
    <3>2. Ring(w + 1) = Ring(0)
      BY <3>1, RingCongruent
    <3>3. QED
      BY <2>1, <3>1, <3>2, RingSmall, IndexRange
  <2>2. CASE w # RF_DEPTH - 1
    <3>1. w + 1 \in 0..(RF_DEPTH - 1)
      BY <2>2, RingSize
    <3>2. QED
      BY <2>2, <3>1, RingSmall DEF Index
  <2>3. QED
    BY <2>1, <2>2
<1>2. Ring(t - w) = IF t >= w THEN t - w ELSE t - w + RF_DEPTH
  BY RingDistance
<1> DEFINE v == Ring(w + 1)
<1>3. v \in Index /\ (v = IF w = RF_DEPTH - 1 THEN 0 ELSE w + 1)
  BY <1>1
<1> HIDE DEF v
<1>4. Ring(t - v) = IF t >= v THEN t - v ELSE t - v + RF_DEPTH
  BY <1>3, RingDistance
<1>5. Occupied(t, v) = Occupied(t, w) - 1
  BY <1>2, <1>3, <1>4, RingSize DEF Occupied, Index
<1>6. QED
  BY <1>5 DEF v

Leaves(occupied, n, need) ==
    /\ n <= occupied
    /\ \/ n = occupied
       \/ occupied - n + need <= RF_DEPTH - RF_SPILL_HYST

LEMMA LeavesKept ==
    ASSUME NEW o \in Nat, NEW n \in Nat, NEW need \in Nat, n # 0,
           Leaves(o, n, need)
    PROVE  Leaves(o - 1, n - 1, need)
BY RingAssumption DEF Leaves

HysteresisInv ==
    /\ TypeInv
    /\ st = "S_RF_SPILL" => Leaves(Occupied(tos, wm), left, Need(call.code))

LEMMA HysteresisNext == HysteresisInv /\ [Next]_vars => HysteresisInv'
<1> SUFFICES ASSUME HysteresisInv, [Next]_vars PROVE HysteresisInv'
  OBVIOUS
<1>1. TypeInv /\ TypeInv' /\ TypeOK
  BY TypeNext DEF HysteresisInv, TypeInv
<1>2. Need(call.code) \in Nat
  BY <1>1, CodeRange DEF TypeOK, Calls
<1>3. CASE StartSpill
  <2>1. left' = SpillCount /\ UNCHANGED <<tos, wm, call>>
    BY <1>3 DEF StartSpill, regs
  <2>2. Resident \in Nat /\ Resident = Occupied(tos, wm)
    BY <1>1, CountRange, IndexRange DEF Resident, Occupied
  <2>3. Leaves(Resident, SpillCount, Need(call.code))
    <3> DEFINE o == Resident
               need == Need(call.code)
    <3>1. /\ o \in Nat /\ need \in Nat
          /\ SpillCount = LET over == o + need - RF_DEPTH
                          IN  IF over <= 0 THEN 0
                              ELSE IF over + RF_SPILL_HYST > o THEN o
                              ELSE over + RF_SPILL_HYST
      BY <2>2, <1>2 DEF SpillCount
    <3>2. SpillCount # 0
      BY <1>3 DEF StartSpill
    <3> HIDE DEF o, need
    <3>3. Leaves(o, SpillCount, need)
      BY <3>1, <3>2, RingAssumption DEF Leaves
    <3>4. QED
      BY <3>3 DEF o, need
  <2>4. QED
    BY <1>1, <2>1, <2>2, <2>3 DEF HysteresisInv
<1>4. CASE SpillEntry
  <2>1. CASE SpillFull
    BY <1>1, <1>4, <2>1 DEF SpillEntry, HysteresisInv, Halt
  <2>2. CASE ~SpillFull
    <3>1. /\ st = "S_RF_SPILL" /\ left # 0
          /\ wm' = Ring(wm + 1) /\ left' = left - 1 /\ tos' = tos /\ call' = call
      BY <1>4, <2>2 DEF SpillEntry
    <3>2. tos \in Index /\ wm \in Index /\ left \in Nat
      BY <1>1 DEF TypeOK
    <3>3. Leaves(Occupied(tos, wm), left, Need(call.code))
      BY <3>1 DEF HysteresisInv
    <3>4. Occupied(tos, wm) \in Nat
      BY <1>1, CountRange, IndexRange DEF Resident, Occupied
    <3>5. tos # wm
      BY <3>1, <3>2, <3>3 DEF Leaves, Occupied
    <3>6. Leaves(Occupied(tos, wm) - 1, left - 1, Need(call.code))
      BY <1>2, <3>1, <3>2, <3>3, <3>4, LeavesKept
    <3>7. Leaves(Occupied(tos', wm'), left', Need(call'.code))
      BY <3>1, <3>2, <3>5, <3>6, OccupiedEvict
    <3>8. QED
      BY <1>1, <3>7 DEF HysteresisInv
  <2>3. QED
    BY <2>1, <2>2
<1>5. CASE UNCHANGED vars
  BY <1>1, <1>5 DEF vars, regs, HysteresisInv
<1>6. CASE Next /\ ~StartSpill /\ ~SpillEntry
  <2>1. st' # "S_RF_SPILL"
    BY <1>6 DEF Next, Instruction, MachineStep, LoadConst, LoadFast, StoreFast, PopTop,
            Call, ReturnValue, Raise, SpillDone, PushFrame, PopFrame, FillEntry,
            FillDone, WriteBack, HandlerHit, HandlerMiss, Halt
  <2>2. QED
    BY <1>1, <2>1 DEF HysteresisInv
<1>7. QED
  BY <1>3, <1>4, <1>5, <1>6

\* The call after a spill at the same depth does not spill, whatever the sizes
\* of ring, hysteresis and frames (RfWindow!SpillLeavesHysteresis): a spill that
\* stops does so with the hysteresis free, or with nothing left to evict.
THEOREM HysteresisHolds == Spec => SpillLeavesHysteresis
<1>1. Init => HysteresisInv
  BY TypeInit DEF Init, HysteresisInv
<1>2. HysteresisInv /\ [Next]_vars =>
        [SpillDone => \/ Resident' + Need(call.code) <= RF_DEPTH - RF_SPILL_HYST
                      \/ Resident' = 0]_vars
  <2> SUFFICES ASSUME HysteresisInv, SpillDone
               PROVE  \/ Resident' + Need(call.code) <= RF_DEPTH - RF_SPILL_HYST
                      \/ Resident' = 0
    OBVIOUS
  <2>1. st = "S_RF_SPILL" /\ left = 0 /\ tos' = tos /\ wm' = wm
    BY DEF SpillDone, regs
  <2>2. Leaves(Occupied(tos, wm), 0, Need(call.code))
    BY <2>1 DEF HysteresisInv
  <2>3. Occupied(tos, wm) \in Nat
    BY CountRange, IndexRange DEF Resident, Occupied, HysteresisInv, TypeInv
  <2>4. Resident' = Occupied(tos, wm)
    BY <2>1 DEF Resident, Occupied
  <2> DEFINE o == Occupied(tos, wm)
             need == Need(call.code)
  <2>5. o + need <= RF_DEPTH - RF_SPILL_HYST \/ o = 0
    <3>1. o \in Nat /\ need \in Nat /\ Leaves(o, 0, need)
      BY <2>2, <2>3, CodeRange DEF TypeOK, Calls, HysteresisInv, TypeInv
    <3> HIDE DEF o, need
    <3>2. QED
      BY <3>1, RingAssumption DEF Leaves
  <2>6. QED
    BY <2>4, <2>5
<1>3. QED
  BY <1>1, <1>2, HysteresisNext, PTL DEF Spec, SpillLeavesHysteresis
-----------------------------------------------------------------------------
(* The promises within the limits. *)

Safe == Callable \cup {Boot}

\* A frame of code c at base b may use its whole declared depth, and a callee's
\* defaults above it, before the ring that starts at position w is full.
Room(b, c, w) ==
    /\ b + Used(c) < w + RF_DEPTH
    /\ \A d \in Callable : b + Used(c) + d.dflt <= w + RF_DEPTH

\* Descriptor f and reference frame p of the caller of the frame of c at b.
Link(f, p, b, c, w) ==
    /\ f.lb = Ring(p.base) /\ f.tosBase = Ring(p.tosBase)
    /\ f.code \in Safe /\ c \in Callable
    /\ p.base + f.code.nlocals <= p.tosBase
    /\ b = p.tosBase + 2
    /\ b + MinArgc(c) <= p.base + Used(f.code)
    /\ Room(p.base, f.code, w)

\* The frames below the frame of code c at base b.
Chain(fr, pf, b, c, w) ==
    /\ Len(pf) = Len(fr)
    /\ \A i \in 1..Len(fr) :
          Link(fr[i], pf[i], IF i = Len(fr) THEN b ELSE pf[i + 1].base,
                             IF i = Len(fr) THEN c ELSE fr[i + 1].code, w)
    /\ \A i \in 1..Len(fr) : pf[i].base <= b
    /\ \A i, j \in 1..Len(fr) : i <= j => pf[i].base <= pf[j].base

\* Spill area and ring hold the reference stack below t, on their sides of w.
Agree(area, ring, s, t, w) ==
    \A k \in 0..(t - 1) : IF k < w THEN area[k] = s[k] ELSE ring[Ring(k)] = s[k]

RefFrames == [tosBase : Int, base : Nat]

\* The parts that hold in every state but S_HALT.
Frame ==
    /\ wm = Ring(sp)
    /\ code \in Safe
    /\ top \in Nat /\ base \in Nat /\ raiseTop \in Int
    /\ DOMAIN stk = 0..(top - 1)
    /\ pyframes \in Seq(RefFrames)
    /\ lb = Ring(base)
    /\ base + code.nlocals <= top /\ top <= base + Used(code)
    /\ Room(base, code, sp)
    /\ Chain(frames, pyframes, base, code, sp)

\* A call is under way: its defaults are in the ring, its arguments stay there.
Calling ==
    /\ call.code \in Callable
    /\ call.argc \in MinArgc(call.code)..call.code.params
    /\ call.argc <= Depth - 2
    /\ call.newLocals = Ring(top - call.argc)
    /\ call.tosBase = Ring(top - call.argc - 2)
    /\ \A k \in top..(top - call.argc + call.code.params - 1) : rf[Ring(k)] = Default
    /\ top - call.argc + call.code.params <= sp + RF_DEPTH
    /\ sp <= top - call.argc
    /\ Agree(spill, rf, stk, top, sp)

Spilling == sp + left <= top - call.code.params

\* An exception unwinds: tos stays that of the raise.  Once the frame starts
\* more than a ring below it, no frame of the chain has a handler that the
\* program reaches (UNWIND_SPAN), and only the spill pointer matters.
Unwinding ==
    \/ st = "S_RAISE"
    \/ exc /\ st \in {"S_RETURN", "S_RF_FILL", "S_RETURN_WB"}

Sound == Unwinding => raiseTop - base <= RF_DEPTH

Unwound ==
    /\ tos = Ring(raiseTop)
    /\ top <= raiseTop
    /\ base <= sp \/ raiseTop - sp < RF_DEPTH

\* The frame is in the ring as a whole.
Settled == Sound => sp <= base /\ Agree(spill, rf, stk, top, sp)

\* What is left to fill is what is missing.
Filling ==
    /\ sp - left >= base
    /\ Sound => sp - left = base /\ Agree(spill, rf, stk, top, sp)

Returned ==
    /\ call.tosBase = Ring(top)
    /\ top < base + Used(code)

WindowInv ==
    /\ TypeInv
    /\ sp >= 0
    /\ rs1 = acc
    /\ trap # "stack"
    /\ st # "S_HALT" => Frame
    /\ st \in {"S_FETCH", "S_CALL", "S_RF_SPILL"} => tos = Ring(top)
    /\ st = "S_RETURN" => frames # <<>> /\ (~exc => tos = Ring(top) /\ Depth > 0)
    /\ st \in {"S_FETCH", "S_RETURN", "S_RETURN_WB", "S_RAISE"} => Settled
    /\ st \in {"S_CALL", "S_RF_SPILL"} => Calling
    /\ st = "S_RF_SPILL" => Spilling
    /\ st = "S_RF_FILL" => Filling
    /\ st \in {"S_RF_FILL", "S_RETURN_WB"} => Returned
    /\ Unwinding => Unwound
-----------------------------------------------------------------------------
(* The limits *)

LEMMA SafeRange ==
    ASSUME NEW c \in Safe
    PROVE  /\ c \in CodeSet
           /\ c.nlocals \in Nat /\ c.stacksize \in Nat /\ c.peak \in Nat
           /\ c.params \in Nat /\ c.dflt \in Nat
           /\ c.dflt <= c.params /\ c.params <= c.nlocals
           /\ Used(c) \in Nat /\ Need(c) \in Nat /\ MinArgc(c) \in Nat
<1>1. c \in CodeSet
  BY DEF Safe, Callable, CodeSet
<1>2. c.params <= c.nlocals
  BY <1>1, CodeAssumption DEF CodeSet
<1>3. QED
  BY <1>1, <1>2, CodeRange DEF Used, MinArgc

LEMMA CallableSafe == Callable \subseteq Safe
BY DEF Safe

\* A frame by itself leaves an entry of the ring free, and room for defaults.
LEMMA Fits ==
    ASSUME NEW c \in Safe
    PROVE  /\ Used(c) < RF_DEPTH
           /\ \A d \in Callable : Used(c) + d.dflt <= RF_DEPTH
<1>1. CASE c \in Callable
  <2>1. Slack(c) >= 1 /\ \A d \in Callable : Slack(c) >= d.dflt
    BY <1>1, WindowBudget DEF LeavesOneFree, LeavesDefaultsFree
  <2>2. Need(c) + c.params + RF_SPILL_HYST <= RF_DEPTH
    BY <1>1, WindowBudget DEF KeepsArguments
  <2>3. Used(c) + Slack(c) <= RF_DEPTH /\ Slack(c) \in Int /\ Used(c) \in Int
    BY <2>2, SafeRange, RingAssumption DEF Used, Need, Slack, MinArgc
  <2>4. \A d \in Callable : d.dflt \in Nat
    BY SafeRange, CallableSafe
  <2>5. QED
    BY <2>1, <2>3, <2>4, RingSize
<1>2. CASE c = Boot
  <2>1. Used(Boot) < RF_DEPTH
    BY CodeAssumption
  <2>2. \A d \in Callable : Used(Boot) + d.dflt <= RF_DEPTH
    BY WindowBudget DEF LeavesDefaultsFree
  <2>3. QED
    BY <1>2, <2>1, <2>2
<1>3. QED
  BY <1>1, <1>2 DEF Safe

LEMMA RoomAbove ==
    ASSUME NEW c \in Safe, NEW b \in Int, NEW w \in Int, b <= w
    PROVE  Room(b, c, w)
<1>1. Used(c) \in Int /\ \A d \in Callable : d.dflt \in Int
  BY SafeRange, CallableSafe
<1>2. QED
  BY <1>1, Fits, RingSize DEF Room

LEMMA RoomGrows ==
    ASSUME NEW c \in Safe, NEW b \in Int, NEW w \in Int, NEW v \in Int, w <= v,
           Room(b, c, w)
    PROVE  Room(b, c, v)
<1>1. Used(c) \in Int /\ \A d \in Callable : d.dflt \in Int
  BY SafeRange, CallableSafe
<1>2. QED
  BY <1>1, RingSize DEF Room

\* The frame a call enters when no spill is needed any more.
LEMMA RoomCalled ==
    ASSUME NEW c \in Callable, NEW t \in Int, NEW w \in Int, NEW n \in Int,
           n >= MinArgc(c), t - w + Need(c) <= RF_DEPTH
    PROVE  Room(t - n, c, w)
<1>1. c \in Safe /\ \A d \in Callable : d.dflt \in Int
  BY SafeRange, CallableSafe
<1>2. Slack(c) >= 1 /\ \A d \in Callable : Slack(c) >= d.dflt
  BY WindowBudget DEF LeavesOneFree, LeavesDefaultsFree
<1>3. Slack(c) \in Int /\ Used(c) \in Int
  BY <1>1, SafeRange DEF Slack
<1>4. t - n + Used(c) + Slack(c) <= w + RF_DEPTH
  BY <1>1, SafeRange, RingSize DEF Slack, Used, Need
<1>5. QED
  BY <1>1, <1>2, <1>3, <1>4, RingSize DEF Room
-----------------------------------------------------------------------------
(* The chain of frames *)

LEMMA LinkCode ==
    ASSUME NEW f, NEW p, NEW b, NEW c, NEW w, Link(f, p, b, c, w)
    PROVE  f.code \in Safe /\ c \in Callable
BY DEF Link

LEMMA LinkGrows ==
    ASSUME NEW f, NEW p \in RefFrames, NEW b, NEW c, NEW w \in Int, NEW v \in Int,
           w <= v \/ p.base <= v,
           Link(f, p, b, c, w)
    PROVE  Link(f, p, b, c, v)
<1>1. p.base \in Int /\ f.code \in Safe /\ Room(p.base, f.code, w)
  BY DEF RefFrames, Link
<1>2. Room(p.base, f.code, v)
  BY <1>1, RoomGrows, RoomAbove
<1>3. QED
  BY <1>2 DEF Link

LEMMA ChainGrows ==
    ASSUME NEW fr, NEW pf \in Seq(RefFrames), NEW b \in Int, NEW c,
           NEW w \in Int, NEW v \in Int, w <= v \/ b <= v,
           Len(pf) = Len(fr),
           Chain(fr, pf, b, c, w)
    PROVE  Chain(fr, pf, b, c, v)
<1> SUFFICES ASSUME NEW i \in 1..Len(fr)
             PROVE  Link(fr[i], pf[i], IF i = Len(fr) THEN b ELSE pf[i + 1].base,
                                       IF i = Len(fr) THEN c ELSE fr[i + 1].code, v)
  BY DEF Chain
<1>1. pf[i] \in RefFrames /\ pf[i].base <= b /\ pf[i].base \in Int
  <2>1. pf[i] \in RefFrames
    OBVIOUS
  <2>2. pf[i].base \in Int
    BY <2>1 DEF RefFrames
  <2>3. pf[i].base <= b
    BY DEF Chain
  <2>4. QED
    BY <2>1, <2>2, <2>3
<1>2. Link(fr[i], pf[i], IF i = Len(fr) THEN b ELSE pf[i + 1].base,
                         IF i = Len(fr) THEN c ELSE fr[i + 1].code, w)
  BY DEF Chain
<1>3. w <= v \/ pf[i].base <= v
  BY <1>1
<1>4. QED
  BY <1>1, <1>2, <1>3, LinkGrows

LEMMA ChainPush ==
    ASSUME NEW fr \in Seq(Descriptors), NEW pf \in Seq(RefFrames),
           NEW f \in Descriptors, NEW p \in RefFrames,
           NEW b \in Int, NEW c, NEW w \in Int,
           Chain(fr, pf, p.base, f.code, w),
           Link(f, p, b, c, w), p.base <= b
    PROVE  Chain(Append(fr, f), Append(pf, p), b, c, w)
<1> DEFINE gr == Append(fr, f)
           pg == Append(pf, p)
           n == Len(fr)
<1>1. n \in Nat /\ Len(pf) = n
  BY DEF Chain
<1>2. /\ Len(gr) = n + 1 /\ Len(pg) = n + 1
      /\ \A i \in 1..n : gr[i] = fr[i] /\ pg[i] = pf[i]
      /\ gr[n + 1] = f /\ pg[n + 1] = p
  BY <1>1
<1>3. \A i \in 1..n : pf[i].base \in Int /\ pf[i].base <= p.base
  <2>1. \A i \in 1..n : pf[i] \in RefFrames
    BY <1>1
  <2>2. \A i \in 1..n : pf[i].base \in Int
    BY <2>1 DEF RefFrames
  <2>3. \A i \in 1..n : pf[i].base <= p.base
    BY DEF Chain
  <2>4. QED
    BY <2>2, <2>3
<1>4. p.base \in Int
  BY DEF RefFrames
<1>5. ASSUME NEW i \in 1..(n + 1)
      PROVE  Link(gr[i], pg[i], IF i = n + 1 THEN b ELSE pg[i + 1].base,
                                IF i = n + 1 THEN c ELSE gr[i + 1].code, w)
  <2>1. CASE i = n + 1
    BY <1>2, <2>1
  <2>2. CASE i \in 1..n
    <3>1. Link(fr[i], pf[i], IF i = n THEN p.base ELSE pf[i + 1].base,
                             IF i = n THEN f.code ELSE fr[i + 1].code, w)
      BY <2>2 DEF Chain
    <3>2. CASE i = n
      BY <1>1, <1>2, <2>2, <3>1, <3>2
    <3>3. CASE i # n
      <4>1. i + 1 \in 1..n /\ i # n + 1
        BY <1>1, <2>2, <3>3
      <4>2. QED
        BY <1>2, <2>2, <3>1, <3>3, <4>1
    <3>4. QED
      BY <3>2, <3>3
  <2>3. QED
    BY <1>1, <2>1, <2>2
<1>6. \A i \in 1..(n + 1) : pg[i].base \in Int /\ pg[i].base <= b
  <2>1. \A i \in 1..n : pg[i].base \in Int /\ pg[i].base <= b
    BY <1>2, <1>3, <1>4
  <2>2. pg[n + 1].base \in Int /\ pg[n + 1].base <= b
    BY <1>2, <1>4
  <2>3. QED
    BY <1>1, <2>1, <2>2
<1>7. \A i, j \in 1..(n + 1) : i <= j => pg[i].base <= pg[j].base
  <2>1. \A i, j \in 1..n : i <= j => pg[i].base <= pg[j].base
    BY <1>1, <1>2 DEF Chain
  <2>2. \A i \in 1..n : pg[i].base <= pg[n + 1].base
    BY <1>2, <1>3
  <2>3. pg[n + 1].base <= pg[n + 1].base
    BY <1>2, <1>4
  <2>4. QED
    BY <1>1, <2>1, <2>2, <2>3
<1>8. QED
  BY <1>2, <1>5, <1>6, <1>7 DEF Chain

LEMMA ChainPop ==
    ASSUME NEW fr \in Seq(Descriptors), NEW pf \in Seq(RefFrames),
           NEW b \in Int, NEW c, NEW w \in Int,
           Chain(fr, pf, b, c, w), fr # <<>>
    PROVE  LET n == Len(fr) IN
           /\ n \in Nat \ {0} /\ fr[n] \in Descriptors /\ pf[n] \in RefFrames
           /\ Link(fr[n], pf[n], b, c, w)
           /\ SubSeq(pf, 1, n - 1) \in Seq(RefFrames)
           /\ Chain(SubSeq(fr, 1, n - 1), SubSeq(pf, 1, n - 1), pf[n].base, fr[n].code, w)
<1> DEFINE n == Len(fr)
           gr == SubSeq(fr, 1, n - 1)
           pg == SubSeq(pf, 1, n - 1)
<1>1. n \in Nat \ {0} /\ Len(pf) = n
  BY DEF Chain
<1>2. fr[n] \in Descriptors /\ pf[n] \in RefFrames /\ n \in 1..n
  BY <1>1
<1>3. Link(fr[n], pf[n], b, c, w)
  BY <1>2 DEF Chain
<1>4. /\ Len(gr) = n - 1 /\ Len(pg) = n - 1 /\ pg \in Seq(RefFrames)
      /\ \A i \in 1..(n - 1) : gr[i] = fr[i] /\ pg[i] = pf[i]
  BY <1>1
<1>5. ASSUME NEW i \in 1..(n - 1)
      PROVE  Link(gr[i], pg[i], IF i = n - 1 THEN pf[n].base ELSE pg[i + 1].base,
                                IF i = n - 1 THEN fr[n].code ELSE gr[i + 1].code, w)
  <2>1. i \in 1..n /\ i # n
    BY <1>1
  <2>2. Link(fr[i], pf[i], pf[i + 1].base, fr[i + 1].code, w)
    BY <2>1 DEF Chain
  <2>3. CASE i = n - 1
    <3>1. i + 1 = n
      BY <1>1, <2>3
    <3>2. QED
      BY <1>4, <2>2, <2>3, <3>1
  <2>4. CASE i # n - 1
    <3>1. i + 1 \in 1..(n - 1)
      BY <1>1, <2>4
    <3>2. QED
      BY <1>4, <2>2, <2>4, <3>1
  <2>5. QED
    BY <2>3, <2>4
<1>6. \A i \in 1..(n - 1) : pg[i].base <= pf[n].base
  <2>1. \A i \in 1..(n - 1) : i \in 1..n /\ i <= n
    BY <1>1
  <2>2. QED
    BY <1>2, <1>4, <2>1 DEF Chain
<1>7. \A i, j \in 1..(n - 1) : i <= j => pg[i].base <= pg[j].base
  <2>1. \A i \in 1..(n - 1) : i \in 1..n
    BY <1>1
  <2>2. QED
    BY <1>4, <2>1 DEF Chain
<1>8. Chain(gr, pg, pf[n].base, fr[n].code, w)
  BY <1>4, <1>5, <1>6, <1>7 DEF Chain
<1>9. QED
  BY <1>1, <1>2, <1>3, <1>4, <1>8
-----------------------------------------------------------------------------
(* What is where *)

LEMMA RingDiffers ==
    ASSUME NEW a \in Int, NEW b \in Int, a # b, a < b + RF_DEPTH, b < a + RF_DEPTH
    PROVE  Ring(a) # Ring(b)
<1>1. a <= b \/ b <= a
  OBVIOUS
<1>2. QED
  BY <1>1, RingInjective

\* The ring is written at n: an entry of position n, at the top or below it.
LEMMA AgreeWrite ==
    ASSUME NEW area, NEW ring, DOMAIN ring = Index,
           NEW s, NEW r, NEW t \in Int, NEW u \in Int, NEW w \in Int, NEW n \in Int, NEW v,
           Agree(area, ring, s, t, w),
           w <= n, n < w + RF_DEPTH, u <= w + RF_DEPTH,
           \A k \in 0..(u - 1) : IF k = n THEN r[k] = v ELSE k < t /\ r[k] = s[k]
    PROVE  Agree(area, [ring EXCEPT ![Ring(n)] = v], r, u, w)
<1> DEFINE g == [ring EXCEPT ![Ring(n)] = v]
<1> SUFFICES ASSUME NEW k \in 0..(u - 1)
             PROVE  IF k < w THEN area[k] = r[k] ELSE g[Ring(k)] = r[k]
  BY DEF Agree
<1>1. k \in Int /\ Ring(k) \in Index /\ Ring(n) \in Index
  BY RingRange
<1>2. CASE k = n
  <2>1. g[Ring(k)] = v
    BY <1>1, <1>2
  <2>2. ~(k < w) /\ r[k] = v
    BY <1>2
  <2>3. QED
    BY <2>1, <2>2
<1>3. CASE k # n
  <2>1. k \in 0..(t - 1) /\ r[k] = s[k]
    BY <1>3
  <2>2. IF k < w THEN area[k] = s[k] ELSE ring[Ring(k)] = s[k]
    BY <2>1 DEF Agree
  <2>3. CASE k < w
    BY <2>1, <2>2, <2>3
  <2>4. CASE ~(k < w)
    <3>1. Ring(k) # Ring(n)
      BY <1>1, <1>3, <2>4, RingSize, RingDiffers
    <3>2. g[Ring(k)] = ring[Ring(k)]
      BY <1>1, <3>1
    <3>3. QED
      BY <2>1, <2>2, <2>4, <3>2
  <2>5. QED
    BY <2>3, <2>4
<1>4. QED
  BY <1>2, <1>3

LEMMA AgreeCut ==
    ASSUME NEW area, NEW ring, NEW s, NEW r, NEW t \in Int, NEW u \in Int, NEW w,
           Agree(area, ring, s, t, w), u <= t,
           \A k \in 0..(u - 1) : r[k] = s[k]
    PROVE  Agree(area, ring, r, u, w)
<1>1. \A k \in 0..(u - 1) : k \in 0..(t - 1)
  OBVIOUS
<1>2. QED
  BY <1>1 DEF Agree

\* The entry at the watermark moves to the spill area.
LEMMA AgreeSpill ==
    ASSUME NEW area, NEW ring, NEW s, NEW t \in Int, NEW w \in Int,
           0 <= w, w < SPILL_MAX, DOMAIN area = 0..(SPILL_MAX - 1),
           Agree(area, ring, s, t, w)
    PROVE  Agree([area EXCEPT ![w] = ring[Ring(w)]], ring, s, t, w + 1)
<1> DEFINE a == [area EXCEPT ![w] = ring[Ring(w)]]
<1> SUFFICES ASSUME NEW k \in 0..(t - 1)
             PROVE  IF k < w + 1 THEN a[k] = s[k] ELSE ring[Ring(k)] = s[k]
  BY DEF Agree
<1>1. IF k < w THEN area[k] = s[k] ELSE ring[Ring(k)] = s[k]
  BY DEF Agree
<1>2. CASE k < w
  <2>1. k \in DOMAIN area /\ k # w
    BY <1>2, RingAssumption
  <2>2. a[k] = area[k]
    BY <2>1
  <2>3. QED
    BY <1>1, <1>2, <2>2
<1>3. CASE k = w
  <2>1. a[k] = ring[Ring(w)]
    BY <1>3, RingAssumption
  <2>2. QED
    BY <1>1, <1>3, <2>1
<1>4. CASE k > w
  BY <1>1, <1>4
<1>5. QED
  BY <1>2, <1>3, <1>4

\* The newest entry of the spill area moves to just below the watermark.
LEMMA AgreeFill ==
    ASSUME NEW area, NEW ring, DOMAIN ring = Index,
           NEW s, NEW t \in Int, NEW w \in Int,
           t <= w - 1 + RF_DEPTH,
           Agree(area, ring, s, t, w)
    PROVE  Agree(area, [ring EXCEPT ![Ring(w - 1)] = area[w - 1]], s, t, w - 1)
<1> DEFINE g == [ring EXCEPT ![Ring(w - 1)] = area[w - 1]]
<1> SUFFICES ASSUME NEW k \in 0..(t - 1)
             PROVE  IF k < w - 1 THEN area[k] = s[k] ELSE g[Ring(k)] = s[k]
  BY DEF Agree
<1>1. IF k < w THEN area[k] = s[k] ELSE ring[Ring(k)] = s[k]
  BY DEF Agree
<1>2. k \in Int /\ Ring(k) \in Index /\ Ring(w - 1) \in Index
  BY RingRange
<1>3. CASE k < w - 1
  BY <1>1, <1>3
<1>4. CASE k = w - 1
  <2>1. g[Ring(k)] = area[k]
    BY <1>2, <1>4
  <2>2. QED
    BY <1>1, <1>4, <2>1
<1>5. CASE k > w - 1
  <2>1. Ring(k) # Ring(w - 1)
    BY <1>2, <1>5, RingSize, RingDiffers
  <2>2. g[Ring(k)] = ring[Ring(k)]
    BY <1>2, <2>1
  <2>3. QED
    BY <1>1, <1>5, <2>2
<1>6. QED
  BY <1>3, <1>4, <1>5

\* The positions a binder writes.
LEMMA SpanIn ==
    ASSUME NEW a \in Int, NEW b \in Int, NEW n \in Int, NEW k \in Int,
           a + b <= k, k < a + b + n
    PROVE  Ring(k) \in Span(Ring(a) + b, n)
<1>1. k - (a + b) \in 0..(n - 1) /\ b + (k - (a + b)) \in Int /\ a + (b + (k - (a + b))) = k
  OBVIOUS
<1>2. Ring(a) \in Int
  BY RingRange DEF Index
<1>3. Ring(a) + (b + (k - (a + b))) = (Ring(a) + b) + (k - (a + b))
  BY <1>2
<1>4. Ring((Ring(a) + b) + (k - (a + b))) = Ring(k)
  BY <1>1, <1>3, RingPlus
<1>5. QED
  BY <1>1, <1>4 DEF Span

LEMMA SpanOut ==
    ASSUME NEW a \in Int, NEW b \in Int, NEW n \in Int, NEW k \in Int,
           \/ k < a + b /\ a + b + n <= k + RF_DEPTH
           \/ k >= a + b + n /\ k < a + b + RF_DEPTH
    PROVE  Ring(k) \notin Span(Ring(a) + b, n)
<1> SUFFICES ASSUME NEW j \in 0..(n - 1), Ring(k) = Ring(Ring(a) + b + j)
             PROVE  FALSE
  BY DEF Span
<1>1. Ring(a) \in Int /\ b + j \in Int /\ a + b + j \in Int
  BY RingRange DEF Index
<1>2. Ring(a) + b + j = Ring(a) + (b + j) /\ a + (b + j) = a + b + j
  BY <1>1
<1>3. Ring(k) = Ring(a + b + j)
  BY <1>1, <1>2, RingPlus
<1>4. k # a + b + j /\ k < a + b + j + RF_DEPTH /\ a + b + j < k + RF_DEPTH
  BY RingSize
<1>5. QED
  BY <1>1, <1>3, <1>4, RingDiffers
-----------------------------------------------------------------------------
(* The occupancy logic *)

LEMMA OccupiedIs ==
    ASSUME NEW t \in Int, NEW w \in Int, w <= t, t < w + RF_DEPTH
    PROVE  Occupied(Ring(t), Ring(w)) = t - w
<1>1. CASE t = w
  BY <1>1 DEF Occupied
<1>2. CASE t # w
  <2>1. Ring(t) # Ring(w)
    BY <1>2, RingDiffers, RingSize
  <2>2. Ring(Ring(t) - Ring(w)) = Ring(t - w)
    BY RingMinus
  <2>3. t - w \in 0..(RF_DEPTH - 1)
    BY RingSize
  <2>4. QED
    BY <2>1, <2>2, <2>3, RingSmall DEF Occupied
<1>3. QED
  BY <1>1, <1>2

LEMMA RingBelow ==
    ASSUME NEW k \in Nat
    PROVE  Ring(k) \in 0..k
<1>1. Laps(k) \in Int /\ k = RF_DEPTH * Laps(k) + Ring(k) /\ Ring(k) \in 0..(RF_DEPTH - 1)
  BY Quotient
<1>2. ~(-Laps(k) >= 1)
  <2>1. -Laps(k) \in Int
    BY <1>1
  <2>2. SUFFICES ASSUME -Laps(k) >= 1 PROVE FALSE
    OBVIOUS
  <2>3. RF_DEPTH * (-Laps(k)) >= RF_DEPTH
    BY <2>1, <2>2, MultBound
  <2>4. RF_DEPTH * (-Laps(k)) = -(RF_DEPTH * Laps(k)) /\ RF_DEPTH * Laps(k) \in Int
    BY <1>1, RingSize
  <2>5. QED
    BY <1>1, <2>3, <2>4, RingSize
<1>3. RF_DEPTH * Laps(k) >= 0
  BY <1>1, <1>2, RingSize
<1>4. RF_DEPTH * Laps(k) \in Int
  BY <1>1, RingSize
<1>5. QED
  BY <1>1, <1>3, <1>4

\* The residency test compares distances from the watermark.
LEMMA IdxResidentIs ==
    ASSUME NEW i \in Index, tos \in Index, wm \in Index
    PROVE  IdxResident(i) <=> tos # wm /\ Ring(i - wm) < Ring(tos - wm)
<1> DEFINE a == tos
           b == wm
<1>1. a \in Index /\ b \in Index
  OBVIOUS
<1>2. Ring(i - b) = IF i >= b THEN i - b ELSE i - b + RF_DEPTH
  BY RingDistance
<1>3. Ring(a - b) = IF a >= b THEN a - b ELSE a - b + RF_DEPTH
  BY RingDistance
<1>4. IdxResident(i) <=> a # b /\ IF a > b THEN b <= i /\ i < a ELSE b <= i \/ i < a
  BY DEF IdxResident
<1> HIDE DEF a, b
<1>5. IdxResident(i) <=> a # b /\ Ring(i - b) < Ring(a - b)
  BY <1>1, <1>2, <1>3, <1>4, RingSize DEF Index
<1>6. QED
  BY <1>5 DEF a, b

\* A frame whose base is in the ring needs no fill.
LEMMA FillNothing ==
    ASSUME NEW b \in Int, NEW t \in Int, NEW w \in Int,
           tos = Ring(t), wm = Ring(w), w <= b, b < t, t < w + RF_DEPTH
    PROVE  FillCount(Ring(b)) = 0
<1>1. CASE b = w
  BY <1>1 DEF FillCount
<1>2. CASE b # w
  <2>1. tos \in Index /\ wm \in Index /\ Ring(b) \in Index
    BY RingRange
  <2>2. tos # wm
    BY RingDiffers, RingSize
  <2>3. Ring(Ring(b) - wm) = Ring(b - w) /\ Ring(tos - wm) = Ring(t - w)
    BY RingMinus
  <2>4. b - w \in 0..(RF_DEPTH - 1) /\ t - w \in 0..(RF_DEPTH - 1)
    BY RingSize
  <2>5. Ring(Ring(b) - wm) < Ring(tos - wm)
    BY <2>3, <2>4, RingSmall
  <2>6. IdxResident(Ring(b))
    BY <2>1, <2>2, <2>5, IdxResidentIs
  <2>7. QED
    BY <2>6 DEF FillCount
<1>3. QED
  BY <1>1, <1>2

\* One whose base has been evicted needs what has been evicted of it.
LEMMA FillMissing ==
    ASSUME NEW b \in Int, NEW t \in Int, NEW w \in Int,
           tos = Ring(t), wm = Ring(w), b < w, w < b + RF_DEPTH,
           w <= t, t <= b + RF_DEPTH
    PROVE  FillCount(Ring(b)) = w - b
<1>1. tos \in Index /\ wm \in Index /\ Ring(b) \in Index
  BY RingRange
<1>2. Ring(b) # wm
  BY RingDiffers, RingSize
<1>3. Ring(Ring(b) - wm) = Ring(b - w) /\ Ring(tos - wm) = Ring(t - w)
      /\ Ring(wm - Ring(b)) = Ring(w - b)
  BY RingMinus
<1>4. /\ b - w + RF_DEPTH \in 0..(RF_DEPTH - 1) /\ t - w \in 0..(RF_DEPTH - 1)
      /\ w - b \in 0..(RF_DEPTH - 1) /\ b - w \in Int
  BY RingSize
<1>5. Ring(b - w) = b - w + RF_DEPTH
  <2>1. b - w = RF_DEPTH * (-1) + (b - w + RF_DEPTH)
    BY RingSize
  <2>2. Ring(b - w) = Ring(b - w + RF_DEPTH)
    BY <1>4, <2>1, RingCongruent
  <2>3. QED
    BY <1>4, <2>2, RingSmall
<1>6. Ring(t - w) = t - w /\ Ring(w - b) = w - b
  BY <1>4, RingSmall
<1>7. ~IdxResident(Ring(b))
  BY <1>1, <1>3, <1>4, <1>5, <1>6, RingSize, IdxResidentIs
<1>8. QED
  BY <1>2, <1>3, <1>6, <1>7 DEF FillCount

\* No fill goes below the base, wherever the top is.
LEMMA FillBounded ==
    ASSUME NEW b \in Int, NEW w \in Int, wm = Ring(w), b <= w
    PROVE  FillCount(Ring(b)) \in 0..(w - b)
<1>1. Ring(wm - Ring(b)) = Ring(w - b)
  BY RingMinus
<1>2. w - b \in Nat
  OBVIOUS
<1>3. Ring(w - b) \in 0..(w - b)
  BY <1>2, RingBelow
<1>4. QED
  BY <1>1, <1>2, <1>3 DEF FillCount

LEMMA RingSub ==
    ASSUME NEW a \in Int, NEW n \in Int
    PROVE  Ring(Ring(a) - n) = Ring(a - n)
<1>1. Ring(a) \in Int
  BY RingRange DEF Index
<1>2. Ring(a) - n = Ring(a) + (-n) /\ a - n = a + (-n) /\ -n \in Int
  BY <1>1
<1>3. QED
  BY <1>2, RingPlus
-----------------------------------------------------------------------------
(* Instructions that stay in S_FETCH *)

\* The numbers of a frame.
Sizes ==
    /\ top \in Nat /\ base \in Nat /\ sp \in Nat /\ RF_DEPTH \in Nat
    /\ code.nlocals \in Nat /\ code.peak \in Nat
    /\ Used(code) = code.nlocals + code.peak
    /\ base + code.nlocals <= top /\ top <= base + Used(code)
    /\ base + Used(code) < sp + RF_DEPTH

Arrays == DOMAIN rf = Index /\ DOMAIN spill = 0..(SPILL_MAX - 1)

LEMMA FrameRange ==
    ASSUME WindowInv, st # "S_HALT"
    PROVE  Frame /\ TypeOK /\ Sizes /\ Arrays
<1>1. Frame /\ TypeOK /\ sp >= 0
  BY DEF WindowInv, TypeInv
<1>2. code.nlocals \in Nat /\ code.peak \in Nat
  BY <1>1, SafeRange DEF Frame
<1>3. sp \in Nat /\ DOMAIN rf = Index /\ DOMAIN spill = 0..(SPILL_MAX - 1)
  BY <1>1 DEF TypeOK
<1>4. QED
  BY <1>1, <1>2, <1>3, RingSize DEF Frame, Room, Used, Sizes, Arrays

LEMMA FetchFacts ==
    ASSUME WindowInv, st = "S_FETCH"
    PROVE  /\ Frame /\ Sizes /\ Arrays
           /\ tos = Ring(top) /\ lb = Ring(base) /\ wm = Ring(sp)
           /\ sp <= base
           /\ Agree(spill, rf, stk, top, sp)
           /\ DOMAIN stk = 0..(top - 1)
           /\ rs1 = acc /\ trap # "stack" /\ raiseTop \in Int
BY FrameRange DEF WindowInv, Settled, Sound, Unwinding, Frame

LEMMA FrameKept ==
    ASSUME Frame, UNCHANGED <<wm, code, base, lb, frames, pyframes, sp>>,
           raiseTop' \in Int, top' \in Nat, DOMAIN stk' = 0..(top' - 1),
           base + code.nlocals <= top', top' <= base + Used(code)
    PROVE  Frame'
BY DEF Frame

LEMMA FetchInv ==
    ASSUME TypeInv', Frame', st' = "S_FETCH", tos' = Ring(top'),
           sp' >= 0, sp' <= base', Agree(spill', rf', stk', top', sp'),
           rs1' = acc', trap' # "stack"
    PROVE  WindowInv'
BY DEF WindowInv, Settled, Unwinding

LEMMA HaltInv ==
    ASSUME TypeInv', st' = "S_HALT", sp' >= 0, rs1' = acc', trap' # "stack"
    PROVE  WindowInv'
BY DEF WindowInv, Unwinding

\* What a position of the frame holds in the ring.
LEMMA AgreeRead ==
    ASSUME NEW area, NEW ring, NEW s, NEW t \in Int, NEW w \in Int, NEW k \in Int,
           Agree(area, ring, s, t, w), 0 <= k, w <= k, k < t
    PROVE  ring[Ring(k)] = s[k]
BY DEF Agree

\* A step of the running frame that writes entry n of it, with top u afterwards.
LEMMA WriteStep ==
    ASSUME Frame, Sizes, Arrays, sp <= base, Agree(spill, rf, stk, top, sp),
           NEW n \in Int, NEW u \in Int, NEW v,
           base <= n, n < base + Used(code),
           base + code.nlocals <= u, u <= base + Used(code),
           \A k \in 0..(u - 1) : IF k = n THEN stk'[k] = v ELSE k < top /\ stk'[k] = stk[k],
           DOMAIN stk' = 0..(u - 1), top' = u,
           rf' = [rf EXCEPT ![Ring(n)] = v],
           UNCHANGED <<wm, code, base, lb, frames, pyframes, sp, spill>>,
           raiseTop' \in Int
    PROVE  Frame' /\ Agree(spill', rf', stk', top', sp')
<1>1. /\ top \in Int /\ sp \in Int /\ sp <= n /\ n < sp + RF_DEPTH /\ u <= sp + RF_DEPTH
      /\ u \in Nat
  BY DEF Sizes
<1>2. DOMAIN rf = Index
  BY DEF Arrays
<1>3. Agree(spill, [rf EXCEPT ![Ring(n)] = v], stk', u, sp)
  BY <1>1, <1>2, AgreeWrite
<1>4. Frame'
  BY <1>1, FrameKept
<1>5. QED
  BY <1>3, <1>4

LEMMA LoadConstStep == WindowInv /\ LoadConst => WindowInv'
<1> SUFFICES ASSUME WindowInv, LoadConst PROVE WindowInv'
  OBVIOUS
<1>1. TypeInv'
  BY TypeNext DEF WindowInv, Next, Instruction
<1>2. /\ st = "S_FETCH" /\ st' = "S_FETCH" /\ top' = top + 1 /\ tos' = Ring(tos + 1)
      /\ top - base - code.nlocals < code.peak
      /\ UNCHANGED <<wm, lb, code, spill, sp, frames, rs1, trap, base, acc, pyframes, raiseTop>>
  BY DEF LoadConst, Depth
<1>3. PICK v : rf' = [rf EXCEPT ![tos] = v] /\ stk' = Push(stk, top, v)
  BY DEF LoadConst
<1>4. /\ Frame /\ Sizes /\ Arrays /\ tos = Ring(top) /\ sp <= base
      /\ Agree(spill, rf, stk, top, sp) /\ raiseTop \in Int
  BY <1>2, FetchFacts
<1>5. /\ base <= top /\ top < base + Used(code) /\ top + 1 <= base + Used(code)
      /\ base + code.nlocals <= top + 1 /\ top + 1 \in Int /\ top \in Int
  BY <1>2, <1>4 DEF Sizes
<1>6. /\ DOMAIN stk' = 0..((top + 1) - 1)
      /\ \A k \in 0..((top + 1) - 1) : IF k = top THEN stk'[k] = v ELSE k < top /\ stk'[k] = stk[k]
  BY <1>3, <1>5 DEF Push
<1>7. rf' = [rf EXCEPT ![Ring(top)] = v]
  BY <1>3, <1>4
<1>8. Frame' /\ Agree(spill', rf', stk', top', sp')
  BY <1>2, <1>4, <1>5, <1>6, <1>7, WriteStep
<1>9. tos' = Ring(top')
  BY <1>2, <1>4, <1>5, RingPlus
<1>10. sp' >= 0 /\ sp' <= base' /\ rs1' = acc' /\ trap' # "stack"
  BY <1>2, <1>4, FetchFacts DEF Sizes
<1>11. QED
  BY <1>1, <1>2, <1>8, <1>9, <1>10, FetchInv

LEMMA LoadFastStep == WindowInv /\ LoadFast => WindowInv'
<1> SUFFICES ASSUME WindowInv, LoadFast PROVE WindowInv'
  OBVIOUS
<1>1. TypeInv'
  BY TypeNext DEF WindowInv, Next, Instruction
<1>2. /\ st = "S_FETCH" /\ st' = "S_FETCH" /\ top' = top + 1 /\ tos' = Ring(tos + 1)
      /\ top - base - code.nlocals < code.peak
      /\ UNCHANGED <<wm, lb, code, spill, sp, frames, trap, base, pyframes, raiseTop>>
  BY DEF LoadFast, Depth
<1>3. PICK i \in 0..(code.nlocals - 1) :
         /\ rs1' = rf[Ring(lb + i)]
         /\ rf' = [rf EXCEPT ![tos] = rf[Ring(lb + i)]]
         /\ acc' = stk[base + i]
         /\ stk' = Push(stk, top, stk[base + i])
  BY DEF LoadFast
<1>4. /\ Frame /\ Sizes /\ Arrays /\ tos = Ring(top) /\ sp <= base /\ lb = Ring(base)
      /\ Agree(spill, rf, stk, top, sp) /\ raiseTop \in Int
  BY <1>2, FetchFacts
<1>5. /\ base <= top /\ top < base + Used(code) /\ top + 1 <= base + Used(code)
      /\ base + code.nlocals <= top + 1 /\ top + 1 \in Int /\ top \in Int
      /\ base + i \in Int /\ 0 <= base + i /\ sp <= base + i /\ base + i < top
      /\ base \in Int /\ sp \in Int /\ i \in Int
  BY <1>2, <1>4 DEF Sizes
<1> DEFINE v == rf[Ring(lb + i)]
<1>6. v = stk[base + i]
  <2>1. Ring(lb + i) = Ring(base + i)
    BY <1>4, <1>5, RingPlus
  <2>2. rf[Ring(base + i)] = stk[base + i]
    <3> DEFINE n == base + i
    <3>1. n \in Int /\ 0 <= n /\ sp <= n /\ n < top
      BY <1>5
    <3> HIDE DEF n
    <3>2. rf[Ring(n)] = stk[n]
      BY <1>4, <1>5, <3>1, AgreeRead
    <3>3. QED
      BY <3>2 DEF n
  <2>3. QED
    BY <2>1, <2>2
<1>7. /\ rf' = [rf EXCEPT ![Ring(top)] = v] /\ stk' = Push(stk, top, v) /\ rs1' = acc'
  BY <1>3, <1>4, <1>6
<1> HIDE DEF v
<1>8. /\ DOMAIN stk' = 0..((top + 1) - 1)
      /\ \A k \in 0..((top + 1) - 1) : IF k = top THEN stk'[k] = v ELSE k < top /\ stk'[k] = stk[k]
  BY <1>5, <1>7 DEF Push
<1>9. Frame' /\ Agree(spill', rf', stk', top', sp')
  BY <1>2, <1>4, <1>5, <1>7, <1>8, WriteStep
<1>10. tos' = Ring(top')
  BY <1>2, <1>4, <1>5, RingPlus
<1>11. sp' >= 0 /\ sp' <= base' /\ trap' # "stack"
  BY <1>2, <1>4, FetchFacts DEF Sizes
<1>12. QED
  BY <1>1, <1>2, <1>7, <1>9, <1>10, <1>11, FetchInv

\* The occupancy check lets every pop of an operand pass.
LEMMA ResidentIs ==
    ASSUME Sizes, tos = Ring(top), wm = Ring(sp), sp <= top
    PROVE  Resident = top - sp
<1>1. top \in Int /\ sp \in Int /\ top < sp + RF_DEPTH
  BY DEF Sizes
<1>2. Occupied(Ring(top), Ring(sp)) = top - sp
  BY <1>1, OccupiedIs
<1>3. QED
  BY <1>2 DEF Resident, Occupied

LEMMA PopFacts ==
    ASSUME WindowInv, st = "S_FETCH", Depth > 0
    PROVE  /\ ~(Resident < 1)
           /\ base + code.nlocals <= top - 1 /\ base <= top - 1
           /\ top - 1 \in Nat /\ top - 1 <= base + Used(code)
           /\ Ring(tos - 1) = Ring(top - 1)
           /\ rf[Ring(tos - 1)] = stk[top - 1]
<1>1. /\ Frame /\ Sizes /\ Arrays /\ tos = Ring(top) /\ sp <= base /\ wm = Ring(sp)
      /\ Agree(spill, rf, stk, top, sp)
  BY FetchFacts
<1>2. /\ base + code.nlocals <= top - 1 /\ top - 1 \in Nat /\ top - 1 <= base + Used(code)
      /\ top \in Int /\ sp <= top - 1 /\ top - 1 < top /\ 0 <= top - 1 /\ sp <= top
      /\ sp \in Int /\ ~(top - sp < 1) /\ base <= top - 1
  BY <1>1 DEF Sizes, Depth
<1>3. Resident = top - sp
  BY <1>1, <1>2, ResidentIs
<1>4. Ring(tos - 1) = Ring(top - 1)
  BY <1>1, <1>2, RingSub
<1>5. rf[Ring(top - 1)] = stk[top - 1]
  <2> DEFINE n == top - 1
  <2>1. n \in Int /\ 0 <= n /\ sp <= n /\ n < top
    BY <1>2
  <2> HIDE DEF n
  <2>2. rf[Ring(n)] = stk[n]
    BY <1>1, <1>2, <2>1, AgreeRead
  <2>3. QED
    BY <2>2 DEF n
<1>6. QED
  BY <1>2, <1>3, <1>4, <1>5

\* A step that only drops the top of the stack.
LEMMA DropStep ==
    ASSUME Frame, Sizes, sp <= base, Agree(spill, rf, stk, top, sp),
           NEW u \in Nat, base + code.nlocals <= u, u <= top,
           stk' = Cut(stk, u), top' = u,
           UNCHANGED <<wm, code, base, lb, frames, pyframes, sp, spill, rf>>,
           raiseTop' \in Int
    PROVE  Frame' /\ Agree(spill', rf', stk', top', sp')
<1>1. top \in Int /\ u \in Int /\ u <= base + Used(code)
  BY DEF Sizes
<1>2. DOMAIN stk' = 0..(u - 1) /\ \A k \in 0..(u - 1) : stk'[k] = stk[k]
  BY DEF Cut
<1>3. Agree(spill, rf, stk', u, sp)
  BY <1>1, <1>2, AgreeCut
<1>4. Frame'
  BY <1>1, <1>2, FrameKept
<1>5. QED
  BY <1>3, <1>4

LEMMA StoreFastStep == WindowInv /\ StoreFast => WindowInv'
<1> SUFFICES ASSUME WindowInv, StoreFast PROVE WindowInv'
  OBVIOUS
<1>1. TypeInv'
  BY TypeNext DEF WindowInv, Next, Instruction
<1>2. /\ st = "S_FETCH" /\ Depth > 0 /\ rs1' = rf[Ring(tos - 1)] /\ acc' = stk[top - 1]
      /\ UNCHANGED <<wm, lb, code, spill, sp, frames, base, pyframes, raiseTop>>
  BY DEF StoreFast
<1>3. /\ ~(Resident < 1)
      /\ base + code.nlocals <= top - 1 /\ base <= top - 1
      /\ top - 1 \in Nat /\ top - 1 <= base + Used(code)
      /\ Ring(tos - 1) = Ring(top - 1)
      /\ rf[Ring(tos - 1)] = stk[top - 1]
  BY <1>2, PopFacts
<1>4. ~(Resident < 1)
  BY <1>3
<1>5. PICK i \in 0..(code.nlocals - 1) :
         /\ rf' = [rf EXCEPT ![Ring(lb + i)] = rf[Ring(tos - 1)]]
         /\ stk' = Cut(Write(stk, base + i, stk[top - 1]), top - 1)
  BY <1>4 DEF StoreFast
<1>6. tos' = Ring(tos - 1) /\ top' = top - 1 /\ st' = st /\ trap' = trap
  BY <1>4 DEF StoreFast
<1>7. /\ Frame /\ Sizes /\ Arrays /\ tos = Ring(top) /\ sp <= base /\ lb = Ring(base)
      /\ Agree(spill, rf, stk, top, sp) /\ raiseTop \in Int /\ DOMAIN stk = 0..(top - 1)
  BY <1>2, FetchFacts
<1> DEFINE n == base + i
           u == top - 1
           v == stk[top - 1]
<1>8. /\ n \in Int /\ u \in Int /\ base <= n /\ n < base + Used(code) /\ base \in Int
      /\ base + code.nlocals <= u /\ u <= base + Used(code) /\ i \in Int /\ u < top
      /\ top \in Int
  BY <1>3, <1>7 DEF Sizes
<1>9. Ring(lb + i) = Ring(n)
  BY <1>7, <1>8, RingPlus
<1>10. rf' = [rf EXCEPT ![Ring(n)] = v]
  BY <1>3, <1>5, <1>9
<1>11. stk' = [k \in 0..(u - 1) |-> [stk EXCEPT ![n] = v][k]]
  BY <1>5 DEF Cut, Write
<1> HIDE DEF n, u, v
<1>12. /\ DOMAIN stk' = 0..(u - 1)
       /\ \A k \in 0..(u - 1) : IF k = n THEN stk'[k] = v ELSE k < top /\ stk'[k] = stk[k]
  BY <1>7, <1>8, <1>11
<1>13. top' = u
  BY <1>6 DEF u
<1>14. Frame' /\ Agree(spill', rf', stk', top', sp')
  BY <1>2, <1>7, <1>8, <1>10, <1>12, <1>13, WriteStep
<1>15. tos' = Ring(top')
  BY <1>3, <1>6
<1>16. sp' >= 0 /\ sp' <= base' /\ trap' # "stack" /\ rs1' = acc'
  BY <1>2, <1>3, <1>6, <1>7, FetchFacts DEF Sizes
<1>17. QED
  BY <1>1, <1>2, <1>6, <1>14, <1>15, <1>16, FetchInv

LEMMA PopTopStep == WindowInv /\ PopTop => WindowInv'
<1> SUFFICES ASSUME WindowInv, PopTop PROVE WindowInv'
  OBVIOUS
<1>1. TypeInv'
  BY TypeNext DEF WindowInv, Next, Instruction
<1>2. /\ st = "S_FETCH" /\ Depth > 0
      /\ UNCHANGED <<rf, wm, lb, code, spill, sp, frames, base, pyframes, raiseTop, rs1, acc>>
  BY DEF PopTop
<1>3. /\ ~(Resident < 1)
      /\ base + code.nlocals <= top - 1
      /\ top - 1 \in Nat
      /\ Ring(tos - 1) = Ring(top - 1)
  BY <1>2, PopFacts
<1>4. ~(Resident < 1)
  BY <1>3
<1>5. /\ tos' = Ring(tos - 1) /\ top' = top - 1 /\ st' = st /\ trap' = trap
      /\ stk' = Cut(stk, top - 1)
  BY <1>4 DEF PopTop
<1>6. /\ Frame /\ Sizes /\ sp <= base
      /\ Agree(spill, rf, stk, top, sp) /\ raiseTop \in Int /\ rs1 = acc /\ trap # "stack"
  BY <1>2, FetchFacts
<1>7. top - 1 <= top
  BY <1>6 DEF Sizes
<1>8. Frame' /\ Agree(spill', rf', stk', top', sp')
  BY <1>2, <1>3, <1>5, <1>6, <1>7, DropStep
<1>9. tos' = Ring(top') /\ sp' >= 0 /\ sp' <= base' /\ rs1' = acc' /\ trap' # "stack"
  BY <1>2, <1>3, <1>5, <1>6 DEF Sizes
<1>10. QED
  BY <1>1, <1>2, <1>5, <1>8, <1>9, FetchInv
-----------------------------------------------------------------------------
(* CALL *)

LEMMA CallInv ==
    ASSUME TypeInv', Frame', st' \in {"S_CALL", "S_RF_SPILL"}, tos' = Ring(top'),
           sp' >= 0, Calling', st' = "S_RF_SPILL" => Spilling',
           rs1' = acc', trap' # "stack"
    PROVE  WindowInv'
BY DEF WindowInv, Unwinding

LEMMA CallFacts ==
    ASSUME WindowInv, st \in {"S_CALL", "S_RF_SPILL"}
    PROVE  /\ Frame /\ Sizes /\ Arrays /\ Calling
           /\ tos = Ring(top) /\ lb = Ring(base) /\ wm = Ring(sp)
           /\ rs1 = acc /\ trap # "stack" /\ raiseTop \in Int
BY FrameRange DEF WindowInv, Frame

\* The binder writes n entries above the top of the stack.
Bound(ring, first, n, v) == [i \in Index |-> IF i \in Span(first, n) THEN v ELSE ring[i]]

LEMMA AgreeBind ==
    ASSUME NEW area, NEW ring, NEW v, NEW s, NEW t \in Int, NEW w \in Int,
           NEW a \in Int, NEW b \in Int, NEW n \in Int,
           t <= a + b, a + b + n <= w + RF_DEPTH,
           Agree(area, ring, s, t, w)
    PROVE  Agree(area, Bound(ring, Ring(a) + b, n, v), s, t, w)
<1> DEFINE g == Bound(ring, Ring(a) + b, n, v)
<1> SUFFICES ASSUME NEW k \in 0..(t - 1)
             PROVE  IF k < w THEN area[k] = s[k] ELSE g[Ring(k)] = s[k]
  BY DEF Agree
<1>1. IF k < w THEN area[k] = s[k] ELSE ring[Ring(k)] = s[k]
  BY DEF Agree
<1>2. CASE k < w
  BY <1>1, <1>2
<1>3. CASE ~(k < w)
  <2>1. k \in Int /\ k < a + b /\ a + b + n <= k + RF_DEPTH
    BY <1>3, RingSize
  <2>2. Ring(k) \notin Span(Ring(a) + b, n)
    BY <2>1, SpanOut
  <2>3. Ring(k) \in Index
    BY <2>1, RingRange
  <2>4. g[Ring(k)] = ring[Ring(k)]
    BY <2>2, <2>3 DEF Bound
  <2>5. QED
    BY <1>1, <1>3, <2>4
<1>4. QED
  BY <1>2, <1>3

LEMMA CallStep == WindowInv /\ Call => WindowInv'
<1> SUFFICES ASSUME WindowInv, Call PROVE WindowInv'
  OBVIOUS
<1>1. TypeInv'
  BY TypeNext DEF WindowInv, Next, Instruction
<1>2. /\ st = "S_FETCH"
      /\ UNCHANGED <<tos, wm, lb, code, spill, sp, left, frames, rs1, exc,
                     stk, top, base, acc, pyframes, raiseTop>>
  BY DEF Call, py
<1>3. /\ Frame /\ Sizes /\ Arrays /\ tos = Ring(top) /\ sp <= base /\ lb = Ring(base)
      /\ Agree(spill, rf, stk, top, sp) /\ raiseTop \in Int /\ rs1 = acc /\ trap # "stack"
  BY <1>2, FetchFacts
<1>4. PICK c \in Codes, argc \in 0..(Depth - 2) :
          /\ argc \in (c.params - c.dflt)..c.params
          /\ IF Need(c) > RF_WINDOW_CAP
             THEN Halt("call_filter") /\ UNCHANGED <<rf, call>>
             ELSE LET newLocals == Ring(tos - argc) IN
                  /\ st' = "S_CALL"
                  /\ rf' = [i \in DOMAIN rf |->
                               IF i \in Span(newLocals + argc, c.params - argc)
                               THEN Default ELSE rf[i]]
                  /\ call' = [code |-> c, argc |-> argc, newLocals |-> newLocals,
                              tosBase |-> Ring(tos - argc - 2)]
                  /\ UNCHANGED trap
  BY DEF Call
<1>5. CASE Need(c) > RF_WINDOW_CAP
  <2>1. st' = "S_HALT" /\ trap' = "call_filter"
    BY <1>4, <1>5 DEF Halt
  <2>2. sp' >= 0 /\ rs1' = acc' /\ trap' # "stack"
    BY <1>2, <1>3, <2>1 DEF Sizes
  <2>3. QED
    BY <1>1, <2>1, <2>2, HaltInv
<1>6. CASE ~(Need(c) > RF_WINDOW_CAP)
  <2>1. c \in Callable
    <3>1. c \in CodeSet
      BY DEF CodeSet
    <3>2. Need(c) \in Nat
      BY <3>1, CodeRange
    <3>3. QED
      BY <1>6, <3>2, RingAssumption DEF Callable
  <2>2. /\ st' = "S_CALL" /\ trap' = trap
        /\ rf' = [i \in Index |-> IF i \in Span(Ring(tos - argc) + argc, c.params - argc)
                                  THEN Default ELSE rf[i]]
        /\ call' = [code |-> c, argc |-> argc, newLocals |-> Ring(tos - argc),
                    tosBase |-> Ring(tos - argc - 2)]
    BY <1>3, <1>4, <1>6 DEF Arrays
  <2>3. /\ c.params \in Nat /\ c.dflt \in Nat /\ MinArgc(c) = c.params - c.dflt
        /\ argc \in Int /\ argc \in MinArgc(c)..c.params
        /\ argc >= 0 /\ argc <= Depth - 2
    <3>1. c.params \in Nat /\ c.dflt \in Nat /\ MinArgc(c) = c.params - c.dflt
      BY <2>1, SafeRange, CallableSafe DEF MinArgc
    <3>2. Depth \in Int
      BY <1>3 DEF Sizes, Depth
    <3>3. QED
      BY <1>4, <3>1, <3>2
  <2>4. /\ top \in Int /\ sp \in Int /\ top - argc \in Int /\ c.params - argc \in Int
        /\ (top - argc) + argc = top /\ sp <= top - argc
    BY <1>3, <2>3 DEF Sizes, Depth
  <2>5. top - argc + c.params <= sp + RF_DEPTH
    <3>1. base + Used(code) + c.dflt <= sp + RF_DEPTH
      BY <1>3, <2>1 DEF Frame, Room
    <3>2. QED
      BY <1>3, <2>3, <3>1 DEF Sizes
  <2>6. Ring(tos - argc) = Ring(top - argc) /\ Ring(tos - argc - 2) = Ring(top - argc - 2)
    <3>1. argc + 2 \in Int /\ tos \in Int
      BY <1>3, <2>3, <2>4, RingRange DEF Index
    <3>2. Ring(tos - argc) = Ring(top - argc)
      BY <1>3, <2>3, <2>4, RingSub
    <3>3. Ring(tos - (argc + 2)) = Ring(top - (argc + 2))
      BY <1>3, <2>4, <3>1, RingSub
    <3>4. tos - (argc + 2) = tos - argc - 2 /\ top - (argc + 2) = top - argc - 2
      BY <2>3, <2>4, <3>1
    <3>5. QED
      BY <3>2, <3>3, <3>4
  <2>7. Agree(spill, rf', stk, top, sp)
    <3> DEFINE a == top - argc
               n == c.params - argc
    <3>1. a \in Int /\ n \in Int /\ top <= a + argc /\ a + argc + n <= sp + RF_DEPTH
      BY <2>3, <2>4, <2>5
    <3>2. rf' = Bound(rf, Ring(a) + argc, n, Default)
      BY <2>2, <2>6 DEF Bound
    <3> HIDE DEF a, n
    <3>3. Agree(spill, Bound(rf, Ring(a) + argc, n, Default), stk, top, sp)
      BY <1>3, <2>3, <2>4, <3>1, AgreeBind
    <3>4. QED
      BY <3>2, <3>3
  <2>8. ASSUME NEW k \in top..(top - argc + c.params - 1)
        PROVE  rf'[Ring(k)] = Default
    <3>1. k \in Int /\ (top - argc) + argc <= k /\ k < (top - argc) + argc + (c.params - argc)
      BY <2>3, <2>4
    <3>2. Ring(k) \in Span(Ring(top - argc) + argc, c.params - argc)
      BY <2>3, <2>4, <3>1, SpanIn
    <3>3. Ring(k) \in Index
      BY <3>1, RingRange
    <3>4. QED
      BY <2>2, <2>6, <3>2, <3>3
  <2>9. Calling'
    <3>1. call'.code = c /\ call'.argc = argc /\ call'.newLocals = Ring(top - argc)
          /\ call'.tosBase = Ring(top - argc - 2)
      BY <2>2, <2>6
    <3>2. Depth' = Depth
      BY <1>2 DEF Depth
    <3>3. QED
      BY <1>2, <2>1, <2>3, <2>4, <2>5, <2>7, <2>8, <3>1, <3>2 DEF Calling
  <2>10. Frame'
    BY <1>2, <1>3 DEF Frame
  <2>11. st' \in {"S_CALL", "S_RF_SPILL"} /\ st' # "S_RF_SPILL" /\ tos' = Ring(top')
         /\ sp' >= 0 /\ rs1' = acc' /\ trap' # "stack"
    BY <1>2, <1>3, <2>2 DEF Sizes
  <2>12. QED
    BY <1>1, <2>9, <2>10, <2>11, CallInv
<1>7. QED
  BY <1>5, <1>6

\* A call or spill step that leaves the registers of the call alone.
LEMMA CallingKept ==
    ASSUME Calling, UNCHANGED <<call, top, base, code, rf, stk>>,
           sp' \in Int, sp \in Int, RF_DEPTH \in Int, top \in Int,
           call.argc \in Int, call.code.params \in Int,
           sp <= sp', sp' <= top - call.argc, Agree(spill', rf, stk, top, sp')
    PROVE  Calling'
<1>1. Depth' = Depth
  BY DEF Depth
<1>2. top' - call'.argc + call'.code.params <= sp' + RF_DEPTH
  BY DEF Calling
<1>3. QED
  BY <1>1, <1>2 DEF Calling

LEMMA CallRange ==
    ASSUME Calling, TypeOK
    PROVE  /\ call.code \in Safe /\ call.code.params \in Nat /\ call.code.nlocals \in Nat
           /\ call.code.params <= call.code.nlocals
           /\ Need(call.code) \in Nat
           /\ call.argc \in Nat /\ call.argc <= call.code.params
           /\ MinArgc(call.code) \in Nat /\ MinArgc(call.code) <= call.argc
<1>1. call.code \in Safe
  BY CallableSafe DEF Calling
<1>2. QED
  BY <1>1, SafeRange DEF Calling

LEMMA StartSpillStep == WindowInv /\ StartSpill => WindowInv'
<1> SUFFICES ASSUME WindowInv, StartSpill PROVE WindowInv'
  OBVIOUS
<1>1. TypeInv'
  BY TypeNext DEF WindowInv, Next, MachineStep
<1>2. /\ st = "S_CALL" /\ st' = "S_RF_SPILL" /\ left' = SpillCount /\ SpillCount # 0
      /\ UNCHANGED <<rf, tos, wm, lb, code, spill, sp, frames, call, rs1, exc, trap,
                     stk, top, base, acc, pyframes, raiseTop>>
  BY DEF StartSpill, regs, py
<1>3. /\ Frame /\ Sizes /\ Calling /\ tos = Ring(top) /\ wm = Ring(sp)
      /\ rs1 = acc /\ trap # "stack" /\ TypeOK
  BY <1>2, CallFacts DEF WindowInv, TypeInv
<1>4. Frame' /\ Calling'
  BY <1>2, <1>3 DEF Frame, Calling, Depth
<1>5. Spilling'
  <2>1. /\ call.code.params \in Nat /\ Need(call.code) \in Nat
        /\ Need(call.code) + call.code.params + RF_SPILL_HYST <= RF_DEPTH
    BY <1>3, CallRange, WindowBudget DEF Calling, KeepsArguments
  <2>2. Resident = top - sp
    <3>1. sp <= top
      BY <1>3, CallRange DEF Calling, Sizes
    <3>2. QED
      BY <1>3, <3>1, ResidentIs
  <2> DEFINE need == Need(call.code)
             o == Resident
             n == SpillCount
  <2>3. /\ n = LET over == o + need - RF_DEPTH
               IN  IF over <= 0 THEN 0
                   ELSE IF over + RF_SPILL_HYST > o THEN o
                   ELSE over + RF_SPILL_HYST
        /\ n # 0 /\ need \in Nat /\ o = top - sp /\ top \in Int /\ sp \in Int
        /\ need + call.code.params + RF_SPILL_HYST <= RF_DEPTH
    BY <1>2, <1>3, <2>1, <2>2 DEF SpillCount, Sizes
  <2> HIDE DEF need, o, n
  <2>4. sp + n <= top - call.code.params
    BY <2>1, <2>3, RingAssumption
  <2>5. QED
    BY <1>2, <2>4 DEF Spilling, n
<1>6. QED
  BY <1>1, <1>2, <1>3, <1>4, <1>5, CallInv DEF Sizes

LEMMA SpillEntryStep == WindowInv /\ SpillEntry => WindowInv'
<1> SUFFICES ASSUME WindowInv, SpillEntry PROVE WindowInv'
  OBVIOUS
<1>1. TypeInv'
  BY TypeNext DEF WindowInv, Next, MachineStep
<1>2. /\ st = "S_RF_SPILL" /\ left # 0
      /\ UNCHANGED <<rf, tos, lb, code, frames, call, rs1, exc,
                     stk, top, base, acc, pyframes, raiseTop>>
  BY DEF SpillEntry, py
<1>3. /\ Frame /\ Sizes /\ Arrays /\ Calling /\ tos = Ring(top) /\ wm = Ring(sp)
      /\ rs1 = acc /\ trap # "stack" /\ TypeOK /\ Spilling
  BY <1>2, CallFacts DEF WindowInv, TypeInv
<1>4. CASE SpillFull
  <2>1. st' = "S_HALT" /\ trap' = "mem" /\ sp' = sp
    BY <1>2, <1>4 DEF SpillEntry, Halt
  <2>2. QED
    BY <1>1, <1>2, <1>3, <2>1, HaltInv DEF Sizes
<1>5. CASE ~SpillFull
  <2>1. /\ spill' = [spill EXCEPT ![sp] = rf[wm]] /\ sp' = sp + 1
        /\ wm' = Ring(wm + 1) /\ left' = left - 1 /\ st' = st /\ trap' = trap
    BY <1>2, <1>5 DEF SpillEntry
  <2>2. /\ sp \in Int /\ top \in Int /\ base \in Int /\ RF_DEPTH \in Int /\ left \in Nat /\ 0 <= sp
        /\ sp + 1 \in Int
        /\ sp < SPILL_MAX
    BY <1>3, <1>5, RingAssumption DEF Sizes, TypeOK, SpillFull
  <2>3. /\ call.argc \in Int /\ call.code.params \in Int /\ call.argc <= call.code.params
    BY <1>3, CallRange
  <2>4. sp + 1 <= top - call.argc /\ sp' + left' <= top - call.code.params
    BY <1>2, <1>3, <2>1, <2>2, <2>3 DEF Spilling
  <2>5. Agree(spill', rf, stk, top, sp')
    <3>1. Agree(spill, rf, stk, top, sp) /\ DOMAIN spill = 0..(SPILL_MAX - 1)
      BY <1>3 DEF Calling, Arrays
    <3>2. Agree([spill EXCEPT ![sp] = rf[Ring(sp)]], rf, stk, top, sp + 1)
      BY <2>2, <3>1, AgreeSpill
    <3>3. QED
      BY <1>3, <2>1, <3>2
  <2>6. Calling'
    BY <1>2, <1>3, <2>1, <2>2, <2>3, <2>4, <2>5, CallingKept
  <2>7. Spilling'
    BY <1>2, <2>4 DEF Spilling
  <2>8. Frame'
    <3>1. wm' = Ring(sp')
      BY <1>3, <2>1, <2>2, RingPlus
    <3>2. Room(base, code, sp + 1)
      BY <1>3, <2>2, RoomGrows DEF Frame
    <3>3. Chain(frames, pyframes, base, code, sp + 1)
      <4>1. Len(pyframes) = Len(frames) /\ sp <= sp + 1
        BY <1>3, <2>2 DEF Frame, Chain
      <4>2. QED
        BY <1>3, <2>2, <4>1, ChainGrows DEF Frame
    <3>4. QED
      BY <1>2, <1>3, <2>1, <3>1, <3>2, <3>3 DEF Frame
  <2>9. QED
    BY <1>1, <1>2, <1>3, <2>1, <2>2, <2>6, <2>7, <2>8, CallInv
<1>6. QED
  BY <1>4, <1>5

LEMMA SpillDoneStep == WindowInv /\ SpillDone => WindowInv'
<1> SUFFICES ASSUME WindowInv, SpillDone PROVE WindowInv'
  OBVIOUS
<1>1. TypeInv'
  BY TypeNext DEF WindowInv, Next, MachineStep
<1>2. /\ st = "S_RF_SPILL" /\ st' = "S_CALL"
      /\ UNCHANGED <<rf, tos, wm, lb, code, spill, sp, frames, call, rs1, exc, trap,
                     stk, top, base, acc, pyframes, raiseTop>>
  BY DEF SpillDone, regs, py
<1>3. /\ Frame /\ Sizes /\ Calling /\ tos = Ring(top) /\ rs1 = acc /\ trap # "stack"
  BY <1>2, CallFacts
<1>4. Frame' /\ Calling'
  BY <1>2, <1>3 DEF Frame, Calling, Depth
<1>5. QED
  BY <1>1, <1>2, <1>3, <1>4, CallInv DEF Sizes

\* The frame entered: arguments, defaults, unbound locals.
LEMMA AgreeEnter ==
    ASSUME NEW area, NEW ring, NEW s, NEW t \in Int, NEW w \in Int, NEW a \in Int,
           NEW n \in Int, NEW c \in Safe, NEW d, NEW u,
           a + n = t, 0 <= n, n <= c.params, w <= a, a + c.nlocals <= w + RF_DEPTH,
           Agree(area, ring, s, t, w),
           \A k \in t..(a + c.params - 1) : ring[Ring(k)] = d
    PROVE  Agree(area, Bound(ring, Ring(a) + c.params, c.nlocals - c.params, u),
                 Enter(s, a, n, c, d, u), a + c.nlocals, w)
<1> DEFINE m == c.nlocals - c.params
           g == Bound(ring, Ring(a) + c.params, m, u)
           r == Enter(s, a, n, c, d, u)
<1>1. c.params \in Int /\ c.nlocals \in Int /\ c.params <= c.nlocals /\ m \in Int
      /\ a + c.params + m = a + c.nlocals
  BY SafeRange
<1> SUFFICES ASSUME NEW k \in 0..(a + c.nlocals - 1)
             PROVE  IF k < w THEN area[k] = r[k] ELSE g[Ring(k)] = r[k]
  BY <1>1 DEF Agree
<1>2. k \in Int /\ Ring(k) \in Index
  BY RingRange
<1>3. r[k] = IF k < a + n THEN s[k] ELSE IF k < a + c.params THEN d ELSE u
  BY <1>1 DEF Enter
<1>4. g[Ring(k)] = IF Ring(k) \in Span(Ring(a) + c.params, m) THEN u ELSE ring[Ring(k)]
  BY <1>2 DEF Bound
<1> HIDE DEF m, g, r
<1>5. CASE k < w
  <2>1. k \in 0..(t - 1) /\ k < a + n
    BY <1>2, <1>5
  <2>2. area[k] = s[k]
    BY <1>5, <2>1 DEF Agree
  <2>3. QED
    BY <1>3, <1>5, <2>1, <2>2
<1>6. CASE ~(k < w) /\ k < a + c.params
  <2>1. k < a + c.params /\ a + c.params + m <= k + RF_DEPTH
    BY <1>1, <1>2, <1>6, RingSize
  <2>2. Ring(k) \notin Span(Ring(a) + c.params, m)
    BY <1>1, <1>2, <2>1, SpanOut
  <2>3. g[Ring(k)] = ring[Ring(k)]
    BY <1>4, <2>2
  <2>4. CASE k < a + n
    <3>1. k \in 0..(t - 1)
      BY <1>2, <2>4
    <3>2. ring[Ring(k)] = s[k]
      BY <1>6, <3>1 DEF Agree
    <3>3. QED
      BY <1>3, <1>6, <2>3, <2>4, <3>2
  <2>5. CASE ~(k < a + n)
    <3>1. k \in t..(a + c.params - 1)
      BY <1>1, <1>2, <1>6, <2>5
    <3>2. ring[Ring(k)] = d
      BY <3>1
    <3>3. QED
      BY <1>3, <1>6, <2>3, <2>5, <3>2
  <2>6. QED
    BY <2>4, <2>5
<1>7. CASE ~(k < w) /\ ~(k < a + c.params)
  <2>1. a + c.params <= k /\ k < a + c.params + m /\ ~(k < a + n)
    BY <1>1, <1>2, <1>7
  <2>2. Ring(k) \in Span(Ring(a) + c.params, m)
    BY <1>1, <1>2, <2>1, SpanIn
  <2>3. QED
    BY <1>3, <1>4, <1>7, <2>1, <2>2
<1>8. QED
  BY <1>5, <1>6, <1>7

LEMMA PushFrameStep == WindowInv /\ PushFrame => WindowInv'
<1> SUFFICES ASSUME WindowInv, PushFrame PROVE WindowInv'
  OBVIOUS
<1>1. TypeInv'
  BY TypeNext DEF WindowInv, Next, MachineStep
<1>2. /\ st = "S_CALL" /\ SpillCount = 0
      /\ UNCHANGED <<spill, sp, rs1>>
  BY DEF PushFrame
<1>3. /\ Frame /\ Sizes /\ Arrays /\ Calling /\ tos = Ring(top) /\ wm = Ring(sp)
      /\ lb = Ring(base) /\ rs1 = acc /\ trap # "stack" /\ TypeOK /\ raiseTop \in Int
  BY <1>2, CallFacts DEF WindowInv, TypeInv
<1>4. CASE Len(frames) >= MAX_CALL_DEPTH
  <2>1. st' = "S_HALT" /\ trap' = "call_filter" /\ acc' = acc
    BY <1>4 DEF PushFrame, Halt, py
  <2>2. QED
    BY <1>1, <1>2, <1>3, <2>1, HaltInv DEF Sizes
<1>5. CASE ~(Len(frames) >= MAX_CALL_DEPTH)
  <2> DEFINE c == call.code
             n == call.argc
             a == top - call.argc
             f == [tosBase |-> call.tosBase, lb |-> lb, code |-> code]
             p == [tosBase |-> a - 2, base |-> base]
  <2>1. /\ st' = "S_FETCH" /\ frames' = Append(frames, f)
        /\ lb' = call.newLocals /\ tos' = Ring(call.newLocals + c.nlocals) /\ code' = c
        /\ rf' = Bound(rf, call.newLocals + c.params, c.nlocals - c.params, Uninit)
        /\ stk' = Enter(stk, a, n, c, Default, Uninit)
        /\ top' = a + c.nlocals /\ base' = a
        /\ pyframes' = Append(pyframes, p)
        /\ UNCHANGED <<wm, trap, acc, raiseTop>>
    BY <1>3, <1>5 DEF PushFrame, Bound, Arrays
  <2>2. /\ c \in Safe /\ c \in Callable /\ c.params \in Nat /\ c.nlocals \in Nat
        /\ c.params <= c.nlocals /\ Need(c) \in Nat /\ n \in Nat /\ n <= c.params
        /\ MinArgc(c) \in Nat /\ MinArgc(c) <= n /\ Need(c) < RF_DEPTH
    BY <1>3, CallRange, RingAssumption DEF Calling, Callable
  <2>3. /\ a \in Int /\ top \in Int /\ sp \in Int /\ base \in Nat /\ a + n = top
        /\ sp <= a /\ sp <= top /\ 0 <= sp
        /\ n <= top - base - code.nlocals - 2
        /\ base + code.nlocals <= a - 2 /\ code.nlocals \in Nat
        /\ top <= base + Used(code) /\ Used(code) \in Int
    BY <1>3, <2>2 DEF Sizes, Calling, Depth
  <2>4. /\ call.newLocals = Ring(a) /\ call.tosBase = Ring(a - 2)
        /\ \A k \in top..(a + c.params - 1) : rf[Ring(k)] = Default
        /\ Agree(spill, rf, stk, top, sp)
    BY <1>3 DEF Calling
  <2>5. Room(a, c, sp)
    <3>1. top - sp + Need(c) <= RF_DEPTH
      <4> DEFINE need == Need(c)
                 o == Resident
      <4>1. /\ 0 = LET over == o + need - RF_DEPTH
                   IN  IF over <= 0 THEN 0
                       ELSE IF over + RF_SPILL_HYST > o THEN o
                       ELSE over + RF_SPILL_HYST
            /\ o = top - sp
        BY <1>2, <1>3, <2>3, ResidentIs DEF SpillCount
      <4>2. need \in Nat /\ need < RF_DEPTH
        BY <2>2
      <4> HIDE DEF need, o, c, a, n
      <4>3. top - sp + need <= RF_DEPTH
        BY <2>3, <4>1, <4>2, RingAssumption
      <4>4. QED
        BY <4>3 DEF need
    <3>2. n >= MinArgc(c) /\ n \in Int
      BY <2>2
    <3>3. Room(top - n, c, sp)
      BY <2>2, <2>3, <3>1, <3>2, RoomCalled
    <3>4. QED
      BY <3>3
  <2>6. Used(c) \in Nat /\ Used(c) = c.nlocals + c.peak /\ c.peak \in Nat
        /\ a + Used(c) < sp + RF_DEPTH
    BY <2>2, <2>5, SafeRange DEF Room, Used
  <2>7. a + c.nlocals <= sp + RF_DEPTH
    BY <2>2, <2>3, <2>6, RingSize
  <2>8. Agree(spill, rf', stk', top', sp)
    <3> HIDE DEF a, c, n
    <3>0. /\ top \in Int /\ sp \in Int /\ a \in Int /\ n \in Int /\ c \in Safe
          /\ a + n = top /\ 0 <= n /\ n <= c.params /\ sp <= a
          /\ a + c.nlocals <= sp + RF_DEPTH
          /\ Agree(spill, rf, stk, top, sp)
          /\ \A k \in top..(a + c.params - 1) : rf[Ring(k)] = Default
      BY <2>2, <2>3, <2>4, <2>7
    <3>1. Agree(spill, Bound(rf, Ring(a) + c.params, c.nlocals - c.params, Uninit),
                Enter(stk, a, n, c, Default, Uninit), a + c.nlocals, sp)
      BY ONLY <3>0, AgreeEnter
    <3>2. QED
      BY <2>1, <2>4, <3>1
  <2>9. /\ f \in Descriptors /\ p \in RefFrames
        /\ f.tosBase = call.tosBase /\ f.lb = lb /\ f.code = code
        /\ p.tosBase = a - 2 /\ p.base = base
    BY <1>3, <2>3 DEF TypeOK, Calls, Descriptors, RefFrames
  <2>10. Link(f, p, a, c, sp)
    <3> HIDE DEF f, p, a, c, n
    <3>1. a + MinArgc(c) <= base + Used(code)
      BY <2>2, <2>3
    <3>2. a = a - 2 + 2
      BY <2>3
    <3>3. Room(base, code, sp) /\ code \in Safe
      BY <1>3 DEF Frame
    <3>4. QED
      BY <1>3, <2>2, <2>3, <2>4, <2>9, <3>1, <3>2, <3>3 DEF Link
  <2>11. Chain(frames', pyframes', a, c, sp)
    <3> HIDE DEF f, p, a, c, n
    <3>1. /\ frames \in Seq(Descriptors) /\ pyframes \in Seq(RefFrames)
          /\ Chain(frames, pyframes, p.base, f.code, sp)
      BY <1>3, <2>9 DEF Frame, TypeOK
    <3>2. p.base <= a
      BY <2>3, <2>9
    <3>3. Chain(Append(frames, f), Append(pyframes, p), a, c, sp)
      BY <2>3, <2>9, <2>10, <3>1, <3>2, ChainPush
    <3>4. QED
      BY <2>1, <3>3
  <2>12. pyframes' \in Seq(RefFrames)
    BY <1>3, <2>1, <2>9 DEF Frame
  <2>13. DOMAIN stk' = 0..(top' - 1)
    <3> DEFINE u == a + c.nlocals
    <3>1. DOMAIN Enter(stk, a, n, c, Default, Uninit) = 0..(u - 1)
      <4>1. a \in Int /\ c.nlocals \in Int
        BY <2>2, <2>3
      <4> HIDE DEF a, c, n
      <4>2. QED
        BY <4>1 DEF Enter
    <3> HIDE DEF u
    <3>2. stk' = Enter(stk, a, n, c, Default, Uninit) /\ top' = u
      BY <2>1 DEF u
    <3> HIDE DEF a, c, n
    <3>3. QED
      BY ONLY <3>1, <3>2
  <2>14. /\ top' \in Nat /\ base' \in Nat /\ raiseTop' \in Int
         /\ base' + code'.nlocals <= top' /\ top' <= base' + Used(code')
    <3>1. top' = a + c.nlocals /\ base' = a /\ code' = c /\ raiseTop' = raiseTop
      BY <2>1
    <3> HIDE DEF a, c, n
    <3>2. /\ a + c.nlocals \in Nat /\ a \in Nat
          /\ a + c.nlocals <= a + Used(c)
      BY <2>2, <2>3, <2>6
    <3>3. a + c.nlocals <= a + c.nlocals
      BY <3>2
    <3>4. QED
      BY <1>3, <3>1, <3>2, <3>3
  <2>15. tos' = Ring(top')
    <3>1. tos' = Ring(Ring(a) + c.nlocals) /\ top' = a + c.nlocals
      BY <2>1, <2>4
    <3> HIDE DEF a, c, n
    <3>0. a \in Int /\ c.nlocals \in Int
      BY <2>2, <2>3
    <3>2. Ring(Ring(a) + c.nlocals) = Ring(a + c.nlocals)
      BY ONLY <3>0, RingPlus
    <3>3. QED
      BY <3>1, <3>2
  <2>16. Frame'
    <3>1. wm' = Ring(sp') /\ lb' = Ring(base') /\ code' \in Safe
      BY <1>2, <1>3, <2>1, <2>2, <2>4
    <3>2. Room(base', code', sp') /\ Chain(frames', pyframes', base', code', sp')
      BY <1>2, <2>1, <2>5, <2>11
    <3>3. QED
      BY <2>12, <2>13, <2>14, <3>1, <3>2 DEF Frame
  <2>17. sp' >= 0 /\ sp' <= base' /\ rs1' = acc' /\ trap' # "stack"
    BY <1>2, <1>3, <2>1, <2>3
  <2>18. Agree(spill', rf', stk', top', sp')
    BY <1>2, <2>8
  <2>19. QED
    BY <1>1, <2>1, <2>15, <2>16, <2>17, <2>18, FetchInv
<1>6. QED
  BY <1>4, <1>5
-----------------------------------------------------------------------------
(* RETURN *)

LEMMA ReturnValueStep == WindowInv /\ ReturnValue => WindowInv'
<1> SUFFICES ASSUME WindowInv, ReturnValue PROVE WindowInv'
  OBVIOUS
<1>1. TypeInv'
  BY TypeNext DEF WindowInv, Next, Instruction
<1>2. /\ st = "S_FETCH" /\ frames # <<>> /\ Depth > 0
      /\ rs1' = rf[Ring(tos - 1)] /\ acc' = stk[top - 1] /\ exc' = FALSE /\ st' = "S_RETURN"
      /\ UNCHANGED <<rf, tos, wm, lb, code, spill, sp, frames, trap, stk, top, base,
                     pyframes, raiseTop>>
  BY DEF ReturnValue, regs
<1>3. /\ Frame /\ Sizes /\ tos = Ring(top) /\ sp <= base
      /\ Agree(spill, rf, stk, top, sp) /\ trap # "stack"
  BY <1>2, FetchFacts
<1>4. rs1' = acc'
  BY <1>2, PopFacts
<1>5. Frame' /\ Settled' /\ ~Unwinding' /\ Depth' = Depth /\ sp' >= 0
  BY <1>2, <1>3 DEF Frame, Settled, Unwinding, Depth, Sizes
<1>6. QED
  BY <1>1, <1>2, <1>3, <1>4, <1>5 DEF WindowInv

\* The frame below the running one.
Below(f, p) ==
    /\ f \in Descriptors /\ p \in RefFrames
    /\ f.lb = Ring(p.base) /\ f.tosBase = Ring(p.tosBase)
    /\ f.code \in Safe
    /\ p.base \in Nat /\ p.tosBase \in Nat
    /\ p.base + f.code.nlocals <= p.tosBase
    /\ p.tosBase < p.base + Used(f.code) /\ p.tosBase <= p.base + Used(f.code)
    /\ p.base < base /\ p.tosBase <= top
    /\ base < p.base + RF_DEPTH /\ top <= p.base + RF_DEPTH
    /\ Room(p.base, f.code, sp)

LEMMA BelowFacts ==
    ASSUME WindowInv, st # "S_HALT", frames # <<>>
    PROVE  LET n == Len(frames) IN
           /\ Below(frames[n], pyframes[n])
           /\ SubSeq(pyframes, 1, n - 1) \in Seq(RefFrames)
           /\ Chain(SubSeq(frames, 1, n - 1), SubSeq(pyframes, 1, n - 1),
                    pyframes[n].base, frames[n].code, sp)
<1> DEFINE n == Len(frames)
           f == frames[n]
           p == pyframes[n]
<1>1. Frame /\ Sizes /\ frames \in Seq(Descriptors)
  BY FrameRange DEF TypeOK
<1>2. /\ Chain(frames, pyframes, base, code, sp) /\ pyframes \in Seq(RefFrames)
      /\ base \in Int /\ sp \in Int
  BY <1>1 DEF Frame, Sizes
<1>3. /\ f \in Descriptors /\ p \in RefFrames
      /\ Link(f, p, base, code, sp)
      /\ SubSeq(pyframes, 1, n - 1) \in Seq(RefFrames)
      /\ Chain(SubSeq(frames, 1, n - 1), SubSeq(pyframes, 1, n - 1), p.base, f.code, sp)
  BY <1>1, <1>2, ChainPop
<1> HIDE DEF f, p
<1>4. p.base \in Nat /\ p.tosBase \in Int
  BY <1>3 DEF RefFrames
<1>5. /\ f.lb = Ring(p.base) /\ f.tosBase = Ring(p.tosBase)
      /\ f.code \in Safe /\ code \in Callable
      /\ p.base + f.code.nlocals <= p.tosBase
      /\ base = p.tosBase + 2
      /\ base + MinArgc(code) <= p.base + Used(f.code)
      /\ Room(p.base, f.code, sp)
  BY <1>3 DEF Link
<1>6. /\ f.code.nlocals \in Nat /\ Used(f.code) \in Nat /\ MinArgc(code) \in Nat
      /\ Used(code) \in Nat
      /\ Used(f.code) < RF_DEPTH
      /\ Used(f.code) - MinArgc(code) + Used(code) <= RF_DEPTH
  <2>1. Used(f.code) - MinArgc(code) + Used(code) <= RF_DEPTH
    BY <1>5, WindowBudget DEF PairFits, Safe
  <2>2. QED
    BY <1>5, <2>1, SafeRange, CallableSafe, Fits
<1>7. /\ p.tosBase \in Nat /\ p.tosBase < p.base + Used(f.code)
      /\ p.tosBase <= p.base + Used(f.code)
      /\ p.base < base /\ p.tosBase <= top
      /\ base < p.base + RF_DEPTH /\ top <= p.base + RF_DEPTH
  <2> DEFINE b == p.base
             t == p.tosBase
             x == Used(f.code)
             y == Used(code)
             m == MinArgc(code)
  <2>1. /\ base \in Nat /\ top \in Nat /\ RF_DEPTH \in Nat
        /\ base <= top /\ top <= base + y
    BY <1>1 DEF Sizes
  <2>2. /\ b \in Nat /\ t \in Int /\ x \in Nat /\ y \in Nat /\ m \in Nat
        /\ b <= t /\ base = t + 2 /\ base + m <= b + x
        /\ x < RF_DEPTH /\ x - m + y <= RF_DEPTH
    BY <1>4, <1>5, <1>6
  <2> HIDE DEF b, t, x, y, m
  <2>3. /\ t \in Nat /\ t < b + x /\ t <= b + x /\ b < base /\ t <= top
        /\ base < b + RF_DEPTH /\ top <= b + RF_DEPTH
    BY ONLY <2>1, <2>2
  <2>4. QED
    BY <2>3 DEF b, t, x
<1>8. Below(f, p)
  BY <1>3, <1>4, <1>5, <1>7 DEF Below
<1>9. QED
  BY <1>3, <1>8 DEF f, p

\* What a return decides to fill for the frame at b.
LEMMA ReturnFills ==
    ASSUME WindowInv, st = "S_RETURN", NEW f, NEW p, Below(f, p)
    PROVE  /\ sp <= p.base => FillCount(f.lb) = 0
           /\ p.base <= sp => FillCount(f.lb) \in 0..(sp - p.base)
           /\ p.base < sp /\ (exc => raiseTop - p.base <= RF_DEPTH) =>
                FillCount(f.lb) = sp - p.base
           /\ exc => Unwound
           /\ (exc => raiseTop - p.base <= RF_DEPTH) =>
                sp <= base /\ Agree(spill, rf, stk, top, sp)
<1>1. /\ Frame /\ Sizes /\ wm = Ring(sp) /\ raiseTop \in Int
      /\ (~exc => tos = Ring(top)) /\ Settled /\ (exc => Unwound)
  BY FrameRange DEF WindowInv, Frame, Unwinding
<1>2. /\ f.lb = Ring(p.base) /\ p.base \in Int /\ p.base < base
      /\ base < p.base + RF_DEPTH /\ top <= p.base + RF_DEPTH
  BY DEF Below
<1>3. /\ base \in Int /\ top \in Int /\ sp \in Int /\ RF_DEPTH \in Int /\ base <= top
      /\ top < sp + RF_DEPTH
  BY <1>1 DEF Sizes
<1>4. (exc => raiseTop - p.base <= RF_DEPTH) => sp <= base /\ Agree(spill, rf, stk, top, sp)
  <2>1. (exc => raiseTop - p.base <= RF_DEPTH) => Sound
    BY <1>1, <1>2, <1>3 DEF Sound, Unwinding
  <2>2. QED
    BY <1>1, <2>1 DEF Settled
<1>5. PICK t \in Int : /\ tos = Ring(t) /\ top <= t
                       /\ ~exc => t = top
                       /\ exc => t = raiseTop /\ (base <= sp \/ t - sp < RF_DEPTH)
  <2>1. CASE exc
    BY <1>1, <2>1 DEF Unwound
  <2>2. CASE ~exc
    BY <1>1, <1>3, <2>2
  <2>3. QED
    BY <2>1, <2>2
<1>6. ASSUME sp <= p.base PROVE FillCount(Ring(p.base)) = 0
  <2>1. p.base < t /\ t < sp + RF_DEPTH
    BY <1>2, <1>3, <1>5, <1>6
  <2>2. QED
    BY <1>1, <1>2, <1>3, <1>5, <1>6, <2>1, FillNothing
<1>7. ASSUME p.base <= sp PROVE FillCount(Ring(p.base)) \in 0..(sp - p.base)
  BY <1>1, <1>2, <1>3, <1>7, FillBounded
<1>8. ASSUME p.base < sp, exc => raiseTop - p.base <= RF_DEPTH
      PROVE  FillCount(Ring(p.base)) = sp - p.base
  <2>1. sp <= base
    BY <1>4, <1>8
  <2>2. sp < p.base + RF_DEPTH /\ sp <= t /\ t <= p.base + RF_DEPTH
    BY <1>2, <1>3, <1>5, <1>8, <2>1
  <2>3. QED
    BY <1>1, <1>2, <1>3, <1>5, <1>8, <2>2, FillMissing
<1>9. QED
  BY <1>1, <1>2, <1>4, <1>6, <1>7, <1>8

LEMMA PopFrameStep == WindowInv /\ PopFrame => WindowInv'
<1> SUFFICES ASSUME WindowInv, PopFrame PROVE WindowInv'
  OBVIOUS
<1>1. TypeInv'
  BY TypeNext DEF WindowInv, Next, MachineStep
<1> DEFINE n == Len(frames)
           f == frames[n]
           p == pyframes[n]
<1>2. /\ st = "S_RETURN"
      /\ frames' = SubSeq(frames, 1, n - 1) /\ lb' = f.lb /\ code' = f.code
      /\ call' = [call EXCEPT !.tosBase = f.tosBase]
      /\ left' = FillCount(f.lb)
      /\ st' = (IF FillCount(f.lb) # 0 THEN "S_RF_FILL" ELSE "S_RETURN_WB")
      /\ pyframes' = SubSeq(pyframes, 1, n - 1)
      /\ base' = p.base /\ top' = p.tosBase /\ stk' = Cut(stk, p.tosBase)
      /\ UNCHANGED <<rf, tos, wm, spill, sp, rs1, exc, trap, acc, raiseTop>>
  BY DEF PopFrame
<1>3. /\ Frame /\ Sizes /\ TypeOK /\ frames # <<>> /\ rs1 = acc /\ trap # "stack"
  BY <1>2, FrameRange DEF WindowInv
<1>4. /\ Below(f, p) /\ pyframes' \in Seq(RefFrames)
      /\ Chain(frames', pyframes', p.base, f.code, sp)
  BY <1>2, <1>3, BelowFacts
<1> DEFINE fill == FillCount(f.lb)
           near == exc => raiseTop - p.base <= RF_DEPTH
<1>5. /\ sp <= p.base => fill = 0
      /\ p.base <= sp => fill \in 0..(sp - p.base)
      /\ p.base < sp /\ near => fill = sp - p.base
      /\ exc => Unwound
      /\ near => sp <= base /\ Agree(spill, rf, stk, top, sp)
  BY <1>2, <1>4, ReturnFills
<1> HIDE DEF f, p, n, fill, near
<1>6. /\ st' = (IF fill # 0 THEN "S_RF_FILL" ELSE "S_RETURN_WB") /\ left' = fill
      /\ lb' = f.lb /\ code' = f.code /\ base' = p.base /\ top' = p.tosBase
      /\ stk' = Cut(stk, p.tosBase)
  BY <1>2 DEF fill
<1>7. call'.tosBase = f.tosBase
  BY <1>2, <1>3 DEF TypeOK, Calls
<1>8. /\ p.base \in Nat /\ p.tosBase \in Nat /\ sp \in Nat /\ RF_DEPTH \in Nat
      /\ base \in Nat /\ top \in Nat
      /\ p.base < base /\ p.tosBase <= top
      /\ f.lb = Ring(p.base) /\ f.tosBase = Ring(p.tosBase)
      /\ p.tosBase < p.base + Used(f.code)
  BY <1>3, <1>4 DEF Below, Sizes
<1>9. Frame'
  <2>1. DOMAIN stk' = 0..(top' - 1)
    BY <1>6 DEF Cut
  <2>2. raiseTop' \in Int /\ wm' = Ring(sp')
    BY <1>2, <1>3 DEF Frame
  <2>3. Room(base', code', sp') /\ Chain(frames', pyframes', base', code', sp')
    BY <1>2, <1>4, <1>6 DEF Below
  <2>4. QED
    BY <1>4, <1>6, <1>8, <2>1, <2>2, <2>3 DEF Below, Frame
<1>10. Returned'
  BY <1>6, <1>7, <1>8 DEF Returned
<1>11. near => Agree(spill', rf', stk', top', sp')
  <2>1. \A k \in 0..(p.tosBase - 1) : stk'[k] = stk[k]
    BY <1>6 DEF Cut
  <2>2. near => Agree(spill, rf, stk', p.tosBase, sp)
    BY <1>5, <1>8, <2>1, AgreeCut
  <2>3. QED
    BY <1>2, <1>6, <2>2
<1>12. Unwinding' <=> exc
  BY <1>2, <1>6 DEF Unwinding
<1>13. Sound' <=> near
  BY <1>2, <1>6, <1>12 DEF Sound, near
<1>14. exc => Unwound'
  <2> SUFFICES ASSUME exc PROVE Unwound'
    OBVIOUS
  <2>1. tos = Ring(raiseTop) /\ top <= raiseTop /\ (base <= sp \/ raiseTop - sp < RF_DEPTH)
    BY <1>5 DEF Unwound
  <2>2. raiseTop \in Int
    BY <1>3 DEF Frame
  <2>3. p.tosBase <= raiseTop /\ (p.base <= sp \/ raiseTop - sp < RF_DEPTH)
    BY <1>8, <2>1, <2>2
  <2>4. QED
    BY <1>2, <1>6, <2>1, <2>3 DEF Unwound
<1>15. CASE fill # 0
  <2>1. p.base < sp
    BY <1>5, <1>8, <1>15
  <2>2. fill \in 0..(sp - p.base) /\ (near => fill = sp - p.base)
    BY <1>5, <1>8, <2>1
  <2>3. sp - fill >= p.base /\ (near => sp - fill = p.base)
    BY <1>8, <2>2
  <2>4. Filling'
    BY <1>2, <1>6, <1>11, <1>13, <2>3 DEF Filling
  <2>5. st' = "S_RF_FILL"
    BY <1>6, <1>15
  <2>6. QED
    BY <1>1, <1>2, <1>3, <1>9, <1>10, <1>12, <1>14, <2>4, <2>5 DEF WindowInv, Sizes
<1>16. CASE fill = 0
  <2>1. st' = "S_RETURN_WB"
    BY <1>6, <1>16
  <2>2. near => sp <= p.base
    BY <1>5, <1>8, <1>16
  <2>3. Settled'
    BY <1>2, <1>6, <1>11, <1>13, <2>2 DEF Settled
  <2>4. QED
    BY <1>1, <1>2, <1>3, <1>9, <1>10, <1>12, <1>14, <2>1, <2>3 DEF WindowInv, Sizes
<1>17. QED
  BY <1>15, <1>16

LEMMA FillFacts ==
    ASSUME WindowInv, st = "S_RF_FILL"
    PROVE  /\ Frame /\ Sizes /\ Arrays /\ TypeOK /\ Filling /\ Returned
           /\ wm = Ring(sp) /\ rs1 = acc /\ trap # "stack"
           /\ (Unwinding <=> exc) /\ (exc => Unwound)
BY FrameRange DEF WindowInv, Frame, Unwinding

LEMMA FillEntryStep == WindowInv /\ FillEntry => WindowInv'
<1> SUFFICES ASSUME WindowInv, FillEntry PROVE WindowInv'
  OBVIOUS
<1>1. TypeInv'
  BY TypeNext DEF WindowInv, Next, MachineStep
<1>2. /\ st = "S_RF_FILL" /\ left # 0 /\ st' = st
      /\ rf' = [rf EXCEPT ![Ring(wm - 1)] = IF sp > 0 THEN spill[sp - 1] ELSE Uninit]
      /\ wm' = Ring(wm - 1) /\ sp' = sp - 1 /\ left' = left - 1
      /\ UNCHANGED <<tos, lb, code, spill, frames, call, rs1, exc, trap,
                     stk, top, base, acc, pyframes, raiseTop>>
  BY DEF FillEntry, py
<1>3. /\ Frame /\ Sizes /\ Arrays /\ TypeOK /\ Filling /\ Returned
      /\ wm = Ring(sp) /\ rs1 = acc /\ trap # "stack"
      /\ (Unwinding <=> exc) /\ (exc => Unwound)
  BY <1>2, FillFacts
<1>4. /\ left \in Nat /\ sp \in Nat /\ base \in Nat /\ top \in Nat /\ RF_DEPTH \in Nat
      /\ sp - 1 \in Nat /\ sp > 0 /\ base <= sp - 1
      /\ (sp - 1) - (left - 1) = sp - left
  BY <1>2, <1>3 DEF Sizes, TypeOK, Filling
<1>5. Ring(wm - 1) = Ring(sp - 1)
  BY <1>3, <1>4, RingSub
<1>6. top <= (sp - 1) + RF_DEPTH /\ top <= sp - 1 + RF_DEPTH
  <2>1. code \in Safe /\ top <= base + Used(code) /\ Used(code) \in Int
    BY <1>3, SafeRange DEF Frame
  <2>2. Used(code) < RF_DEPTH
    BY <2>1, Fits
  <2>3. QED
    BY <1>4, <2>1, <2>2
<1>7. Agree(spill, rf, stk, top, sp) => Agree(spill', rf', stk', top', sp')
  <2>1. DOMAIN rf = Index /\ top \in Int /\ sp \in Int
    BY <1>3, <1>4 DEF Arrays
  <2>2. ASSUME Agree(spill, rf, stk, top, sp)
        PROVE  Agree(spill, [rf EXCEPT ![Ring(sp - 1)] = spill[sp - 1]], stk, top, sp - 1)
    BY <1>6, <2>1, <2>2, AgreeFill
  <2>3. rf' = [rf EXCEPT ![Ring(sp - 1)] = spill[sp - 1]]
    BY <1>2, <1>4, <1>5
  <2>4. QED
    BY <1>2, <2>2, <2>3
<1>8. Frame'
  <2>1. wm' = Ring(sp')
    BY <1>2, <1>5
  <2>2. Room(base, code, sp - 1)
    BY <1>3, <1>4, RoomAbove DEF Frame
  <2>3. Chain(frames, pyframes, base, code, sp - 1)
    <3>1. Len(pyframes) = Len(frames) /\ base \in Int /\ sp \in Int /\ sp - 1 \in Int
      BY <1>3, <1>4 DEF Frame, Chain
    <3>2. QED
      BY <1>3, <1>4, <3>1, ChainGrows DEF Frame
  <2>4. QED
    BY <1>2, <1>3, <2>1, <2>2, <2>3 DEF Frame
<1>9. /\ (Unwinding' <=> Unwinding) /\ (Sound' <=> Sound) /\ Returned'
  BY <1>2, <1>3 DEF Unwinding, Sound, Returned
<1>10. Filling'
  <2>1. sp' - left' = sp - left /\ base' = base
    BY <1>2, <1>4
  <2>2. QED
    BY <1>3, <1>7, <1>9, <2>1 DEF Filling
<1>11. exc => Unwound'
  BY <1>2, <1>3, <1>4 DEF Unwound
<1>12. QED
  BY <1>1, <1>2, <1>3, <1>4, <1>8, <1>9, <1>10, <1>11 DEF WindowInv

LEMMA FillDoneStep == WindowInv /\ FillDone => WindowInv'
<1> SUFFICES ASSUME WindowInv, FillDone PROVE WindowInv'
  OBVIOUS
<1>1. TypeInv'
  BY TypeNext DEF WindowInv, Next, MachineStep
<1>2. /\ st = "S_RF_FILL" /\ left = 0 /\ st' = "S_RETURN_WB"
      /\ UNCHANGED <<rf, tos, wm, lb, code, spill, sp, frames, call, rs1, exc, trap,
                     stk, top, base, acc, pyframes, raiseTop>>
  BY DEF FillDone, regs, py
<1>3. /\ Frame /\ Sizes /\ Filling /\ Returned
      /\ rs1 = acc /\ trap # "stack" /\ (Unwinding <=> exc) /\ (exc => Unwound)
  BY <1>2, FillFacts
<1>4. Frame' /\ Returned' /\ (Unwinding' <=> exc) /\ (exc => Unwound')
  BY <1>2, <1>3 DEF Frame, Returned, Unwinding, Unwound
<1>5. Settled'
  <2>1. Sound' <=> Sound
    BY <1>2, <1>3 DEF Sound, Unwinding
  <2>2. sp - left = sp
    BY <1>2, <1>3 DEF Sizes
  <2>3. Sound => sp <= base /\ Agree(spill, rf, stk, top, sp)
    BY <1>3, <2>2 DEF Filling, Sizes
  <2>4. QED
    BY <1>2, <2>1, <2>3 DEF Settled
<1>6. QED
  BY <1>1, <1>2, <1>3, <1>4, <1>5 DEF WindowInv, Sizes

LEMMA WriteBackStep == WindowInv /\ WriteBack => WindowInv'
<1> SUFFICES ASSUME WindowInv, WriteBack PROVE WindowInv'
  OBVIOUS
<1>1. TypeInv'
  BY TypeNext DEF WindowInv, Next, MachineStep
<1>2. /\ st = "S_RETURN_WB"
      /\ UNCHANGED <<wm, lb, code, spill, sp, left, frames, call, rs1, exc, trap,
                     base, acc, pyframes, raiseTop>>
  BY DEF WriteBack
<1>3. /\ Frame /\ Sizes /\ Arrays /\ Returned /\ Settled /\ rs1 = acc /\ trap # "stack"
      /\ (Unwinding <=> exc) /\ (exc => Unwound) /\ raiseTop \in Int
  BY <1>2, FrameRange DEF WindowInv, Unwinding, Frame
<1>4. CASE exc
  <2>1. st' = "S_RAISE" /\ UNCHANGED <<rf, tos, stk, top>>
    BY <1>4 DEF WriteBack
  <2>2. Frame' /\ Unwinding' /\ Unwound' /\ (Sound' <=> Sound)
    BY <1>2, <1>3, <1>4, <2>1 DEF Frame, Unwinding, Unwound, Sound
  <2>3. Settled'
    BY <1>2, <1>3, <2>1, <2>2 DEF Settled
  <2>4. QED
    BY <1>1, <1>2, <1>3, <2>1, <2>2, <2>3 DEF WindowInv, Sizes
<1>5. CASE ~exc
  <2>1. /\ st' = "S_FETCH" /\ rf' = [rf EXCEPT ![call.tosBase] = rs1]
        /\ tos' = Ring(call.tosBase + 1) /\ stk' = Push(stk, top, acc) /\ top' = top + 1
    BY <1>5 DEF WriteBack
  <2>2. sp <= base /\ Agree(spill, rf, stk, top, sp)
    BY <1>3, <1>5 DEF Settled, Sound
  <2>3. /\ top \in Int /\ top + 1 \in Int /\ base <= top /\ top < base + Used(code)
        /\ base + code.nlocals <= top + 1 /\ top + 1 <= base + Used(code)
        /\ call.tosBase = Ring(top)
    BY <1>3 DEF Sizes, Returned
  <2>4. rf' = [rf EXCEPT ![Ring(top)] = acc]
    BY <1>3, <2>1, <2>3
  <2>5. /\ DOMAIN stk' = 0..((top + 1) - 1)
        /\ \A k \in 0..((top + 1) - 1) :
              IF k = top THEN stk'[k] = acc ELSE k < top /\ stk'[k] = stk[k]
    BY <2>1, <2>3 DEF Push
  <2>6. Frame' /\ Agree(spill', rf', stk', top', sp')
    BY <1>2, <1>3, <2>1, <2>2, <2>3, <2>4, <2>5, WriteStep
  <2>7. tos' = Ring(top')
    BY <2>1, <2>3, RingPlus
  <2>8. sp' >= 0 /\ sp' <= base' /\ rs1' = acc' /\ trap' # "stack"
    BY <1>2, <1>3, <2>2 DEF Sizes
  <2>9. QED
    BY <1>1, <2>1, <2>6, <2>7, <2>8, FetchInv
<1>6. QED
  BY <1>4, <1>5
-----------------------------------------------------------------------------
(* RAISE *)

LEMMA RaiseStep == WindowInv /\ Raise => WindowInv'
<1> SUFFICES ASSUME WindowInv, Raise PROVE WindowInv'
  OBVIOUS
<1>1. TypeInv'
  BY TypeNext DEF WindowInv, Next, Instruction
<1>2. /\ st = "S_FETCH" /\ Depth > 0 /\ st' = "S_RAISE"
      /\ tos' = Ring(tos - 1) /\ stk' = Cut(stk, top - 1)
      /\ top' = top - 1 /\ raiseTop' = top - 1
      /\ UNCHANGED <<rf, wm, lb, code, spill, sp, frames, rs1, trap, base, acc, pyframes>>
  BY DEF Raise
<1>3. /\ Frame /\ Sizes /\ sp <= base /\ Agree(spill, rf, stk, top, sp)
      /\ rs1 = acc /\ trap # "stack"
  BY <1>2, FetchFacts
<1>4. /\ base + code.nlocals <= top - 1 /\ top - 1 \in Nat
      /\ Ring(tos - 1) = Ring(top - 1)
  BY <1>2, PopFacts
<1>5. top - 1 <= top /\ raiseTop' \in Int
  BY <1>2, <1>3, <1>4 DEF Sizes
<1>6. Frame' /\ Agree(spill', rf', stk', top', sp')
  BY <1>2, <1>3, <1>4, <1>5, DropStep
<1>7. Settled'
  BY <1>2, <1>3, <1>6 DEF Settled
<1>8. Unwound'
  <2>1. top - 1 <= top - 1 /\ (top - 1) - sp < RF_DEPTH
    BY <1>3 DEF Sizes
  <2>2. QED
    BY <1>2, <1>4, <2>1 DEF Unwound
<1>9. QED
  BY <1>1, <1>2, <1>3, <1>6, <1>7, <1>8 DEF WindowInv, Sizes

LEMMA HandlerMissStep == WindowInv /\ HandlerMiss => WindowInv'
<1> SUFFICES ASSUME WindowInv, HandlerMiss PROVE WindowInv'
  OBVIOUS
<1>1. TypeInv'
  BY TypeNext DEF WindowInv, Next, MachineStep
<1>2. /\ st = "S_RAISE"
      /\ UNCHANGED <<rf, tos, wm, lb, code, spill, sp, frames, rs1,
                     stk, top, base, acc, pyframes, raiseTop>>
  BY DEF HandlerMiss, regs, py
<1>3. /\ Frame /\ Sizes /\ Settled /\ Unwound /\ rs1 = acc /\ trap # "stack" /\ Unwinding
  BY <1>2, FrameRange DEF WindowInv, Unwinding
<1>4. CASE frames # <<>>
  <2>1. st' = "S_RETURN" /\ exc' = TRUE /\ trap' = trap
    BY <1>4 DEF HandlerMiss
  <2>2. Frame' /\ Unwinding' /\ Unwound' /\ (Sound' <=> Sound)
    BY <1>2, <1>3, <2>1 DEF Frame, Unwinding, Unwound, Sound
  <2>3. Settled'
    BY <1>2, <1>3, <2>2 DEF Settled
  <2>4. QED
    BY <1>1, <1>2, <1>3, <1>4, <2>1, <2>2, <2>3 DEF WindowInv, Sizes
<1>5. CASE ~(frames # <<>>)
  <2>1. st' = "S_HALT" /\ trap' = "raise"
    BY <1>5 DEF HandlerMiss, Halt
  <2>2. QED
    BY <1>1, <1>2, <1>3, <2>1, HaltInv DEF Sizes
<1>6. QED
  BY <1>4, <1>5

\* A handler's frame is in the ring, because it starts at most UNWIND_SPAN
\* entries below the raise.
LEMMA HandlerFacts ==
    ASSUME WindowInv, st = "S_RAISE", raiseTop - base <= UNWIND_SPAN
    PROVE  /\ Frame /\ Sizes /\ Arrays
           /\ sp <= base /\ Agree(spill, rf, stk, top, sp)
           /\ rs1 = acc /\ trap # "stack"
<1>1. Frame /\ Sizes /\ Arrays /\ Settled /\ rs1 = acc /\ trap # "stack" /\ raiseTop \in Int
  BY FrameRange DEF WindowInv, Frame
<1>2. raiseTop - base <= RF_DEPTH
  <2>1. UNWIND_SPAN \in Nat /\ UNWIND_SPAN <= RF_DEPTH
    BY CodeAssumption, WindowBudget DEF UnwindFits
  <2>2. base \in Int /\ RF_DEPTH \in Int
    BY <1>1 DEF Sizes
  <2>3. QED
    BY <1>1, <2>1, <2>2
<1>3. QED
  BY <1>1, <1>2 DEF Settled, Sound

LEMMA HandlerHitStep == WindowInv /\ HandlerHit => WindowInv'
<1> SUFFICES ASSUME WindowInv, HandlerHit PROVE WindowInv'
  OBVIOUS
<1>1. TypeInv'
  BY TypeNext DEF WindowInv, Next, MachineStep
<1>2. /\ st = "S_RAISE" /\ raiseTop - base <= UNWIND_SPAN
      /\ st' = "S_FETCH" /\ raiseTop' = 0
      /\ UNCHANGED <<wm, lb, code, spill, sp, frames, rs1, trap, base, acc, pyframes>>
  BY DEF HandlerHit
<1>3. /\ Frame /\ Sizes /\ Arrays
      /\ sp <= base /\ Agree(spill, rf, stk, top, sp)
      /\ rs1 = acc /\ trap # "stack"
  BY <1>2, HandlerFacts
<1>4. PICK e \in code.handlers :
         LET slot == Ring(lb + code.nlocals + e.depth)
             n    == base + code.nlocals + e.depth
         IN
         /\ e.depth <= Depth
         /\ IF e.lasti = 1
            THEN /\ rf' = [rf EXCEPT ![slot] = Lasti, ![Ring(slot + 1)] = Exc]
                 /\ stk' = Push(Push(Cut(stk, n), n, Lasti), n + 1, Exc)
            ELSE /\ rf' = [rf EXCEPT ![slot] = Exc]
                 /\ stk' = Push(Cut(stk, n), n, Exc)
         /\ tos' = Ring(slot + e.lasti + 1)
         /\ top' = n + e.lasti + 1
  BY DEF HandlerHit
<1>5. e.depth \in Nat /\ e.lasti \in {0, 1} /\ e.depth + e.lasti < code.peak
  <2>1. code \in CodeSet
    BY <1>3, SafeRange DEF Frame
  <2>2. QED
    BY <2>1, CodeRange, CodeAssumption DEF CodeSet
<1> DEFINE n == base + code.nlocals + e.depth
           slot == Ring(lb + code.nlocals + e.depth)
<1>6. slot = Ring(n)
  <2>1. lb = Ring(base) /\ base \in Int /\ code.nlocals \in Int /\ e.depth \in Int
    BY <1>3, <1>5 DEF Frame, Sizes
  <2>2. Ring(base) \in Int
    BY <2>1, RingRange DEF Index
  <2>3. /\ code.nlocals + e.depth \in Int
        /\ lb + code.nlocals + e.depth = Ring(base) + (code.nlocals + e.depth)
        /\ n = base + (code.nlocals + e.depth)
    BY <2>1, <2>2
  <2>4. QED
    BY <2>1, <2>3, RingPlus
<1>7. /\ n \in Nat /\ n <= top /\ base <= n /\ base + code.nlocals <= n
      /\ n + e.lasti < base + Used(code)
      /\ n + e.lasti + 1 <= base + Used(code)
      /\ n + e.lasti < sp + RF_DEPTH
  BY <1>3, <1>4, <1>5 DEF Sizes, Depth
<1>8. /\ IF e.lasti = 1
         THEN /\ rf' = [rf EXCEPT ![slot] = Lasti, ![Ring(slot + 1)] = Exc]
              /\ stk' = Push(Push(Cut(stk, n), n, Lasti), n + 1, Exc)
         ELSE /\ rf' = [rf EXCEPT ![slot] = Exc]
              /\ stk' = Push(Cut(stk, n), n, Exc)
      /\ tos' = Ring(slot + e.lasti + 1)
      /\ top' = n + e.lasti + 1
  BY <1>4
<1> HIDE DEF n, slot
<1>9. /\ Ring(slot + 1) = Ring(n + 1)
      /\ tos' = Ring(top')
  <2>1. n \in Int /\ e.lasti \in Int /\ e.lasti + 1 \in Int /\ slot \in Int
    BY <1>5, <1>6, <1>7, RingRange DEF Index
  <2>2. Ring(slot + 1) = Ring(n + 1)
    BY <1>6, <2>1, RingPlus
  <2>3. slot + e.lasti + 1 = slot + (e.lasti + 1) /\ n + e.lasti + 1 = n + (e.lasti + 1)
    BY <2>1
  <2>4. Ring(slot + (e.lasti + 1)) = Ring(n + (e.lasti + 1))
    BY <1>6, <2>1, RingPlus
  <2>5. QED
    BY <1>8, <2>2, <2>3, <2>4
<1>10. /\ top \in Int /\ sp \in Int /\ DOMAIN rf = Index /\ RF_DEPTH \in Int
       /\ sp <= n /\ n < sp + RF_DEPTH /\ n + 1 <= sp + RF_DEPTH /\ n \in Int
       /\ base \in Int /\ Used(code) \in Int
       /\ n + 1 \in Int
  BY <1>3, <1>5, <1>7 DEF Sizes, Arrays
<1>11. DOMAIN stk' = 0..(top' - 1) /\ Agree(spill, rf', stk', top', sp)
  <2>1. CASE e.lasti = 1
    <3> DEFINE ring == [rf EXCEPT ![Ring(n)] = Lasti]
               mid == Push(Cut(stk, n), n, Lasti)
               m == n + 1
    <3>1. /\ rf' = [ring EXCEPT ![Ring(m)] = Exc] /\ stk' = Push(mid, m, Exc)
          /\ DOMAIN ring = Index /\ top' = m + 1
      BY <1>6, <1>7, <1>8, <1>9, <1>10, <2>1
    <3>2. \A k \in 0..(m - 1) : IF k = n THEN mid[k] = Lasti ELSE k < top /\ mid[k] = stk[k]
      BY <1>7, <1>10 DEF Push, Cut
    <3>3. Agree(spill, ring, mid, m, sp)
      <4>1. m \in Int /\ m <= sp + RF_DEPTH
        BY <1>10
      <4> HIDE DEF m, mid
      <4>2. QED
        BY <1>3, <1>10, <3>2, <4>1, AgreeWrite
    <3>4. m \in Int /\ sp <= m /\ m < sp + RF_DEPTH /\ m + 1 <= sp + RF_DEPTH /\ m + 1 \in Int
      BY <1>5, <1>7, <1>10, <2>1
    <3> HIDE DEF ring, mid, m
    <3>5. /\ DOMAIN stk' = 0..m
          /\ \A k \in 0..m : IF k = m THEN stk'[k] = Exc ELSE k < m /\ stk'[k] = mid[k]
      BY <3>1, <3>4 DEF Push
    <3>6. (m + 1) - 1 = m
      BY <3>4
    <3>7. Agree(spill, [ring EXCEPT ![Ring(m)] = Exc], stk', m + 1, sp)
      BY <1>10, <3>1, <3>3, <3>4, <3>5, <3>6, AgreeWrite
    <3>8. QED
      BY <3>1, <3>5, <3>6, <3>7
  <2>2. CASE e.lasti = 0
    <3>1. rf' = [rf EXCEPT ![Ring(n)] = Exc] /\ stk' = Push(Cut(stk, n), n, Exc) /\ top' = n + 1
      BY <1>6, <1>7, <1>8, <2>2
    <3>2. /\ DOMAIN stk' = 0..n
          /\ \A k \in 0..n : IF k = n THEN stk'[k] = Exc ELSE k < top /\ stk'[k] = stk[k]
      BY <1>7, <1>10, <3>1 DEF Push, Cut
    <3>3. (n + 1) - 1 = n
      BY <1>10
    <3>4. Agree(spill, [rf EXCEPT ![Ring(n)] = Exc], stk', n + 1, sp)
      BY <1>3, <1>10, <3>2, <3>3, AgreeWrite
    <3>5. QED
      BY <3>1, <3>2, <3>3, <3>4
  <2>3. QED
    BY <1>5, <2>1, <2>2
<1>12. /\ top' \in Nat /\ base + code.nlocals <= top' /\ top' <= base + Used(code)
       /\ raiseTop' \in Int
  <2>1. code.nlocals \in Nat
    BY <1>3 DEF Sizes
  <2>2. QED
    BY <1>2, <1>5, <1>7, <1>8, <1>10, <2>1
<1>13. Frame'
  BY <1>2, <1>3, <1>11, <1>12, FrameKept
<1>14. Agree(spill', rf', stk', top', sp') /\ rs1' = acc' /\ trap' # "stack"
       /\ sp' >= 0 /\ sp' <= base'
  BY <1>2, <1>3, <1>11 DEF Sizes
<1>15. QED
  BY <1>1, <1>2, <1>9, <1>13, <1>14, FetchInv
-----------------------------------------------------------------------------
(* The promises *)

LEMMA WindowInit == Init => WindowInv
<1> SUFFICES ASSUME Init PROVE WindowInv
  OBVIOUS
<1>1. TypeInv
  BY TypeInit
<1>2. /\ st = "S_FETCH" /\ tos = Boot.nlocals /\ wm = 0 /\ lb = 0 /\ code = Boot /\ sp = 0
      /\ rf = [i \in 0..(RF_DEPTH - 1) |-> Uninit]
      /\ frames = <<>> /\ rs1 = Uninit /\ trap = "none"
      /\ stk = [k \in 0..(Boot.nlocals - 1) |-> Uninit]
      /\ top = Boot.nlocals /\ base = 0 /\ acc = Uninit
      /\ pyframes = <<>> /\ raiseTop = 0
  BY DEF Init
<1>3. Boot \in Safe
  BY DEF Safe
<1>4. /\ Boot.nlocals \in Nat /\ Boot.peak \in Nat /\ Used(Boot) < RF_DEPTH
      /\ Used(Boot) = Boot.nlocals + Boot.peak /\ RF_DEPTH \in Nat /\ RF_DEPTH > 1
  BY <1>3, SafeRange, Fits, RingSize DEF Used
<1>5. 0 \in 0..(RF_DEPTH - 1) /\ Boot.nlocals \in 0..(RF_DEPTH - 1)
  BY <1>4
<1>6. Ring(0) = 0 /\ Ring(Boot.nlocals) = Boot.nlocals
  BY <1>5, RingSmall
<1>7. Room(0, Boot, 0)
  BY <1>3, RoomAbove
<1>8. Chain(<<>>, <<>>, 0, Boot, 0)
  BY DEF Chain
<1>9. Frame
  <2>1. <<>> \in Seq(RefFrames)
    OBVIOUS
  <2>2. DOMAIN stk = 0..(top - 1)
    BY <1>2
  <2>3. base + code.nlocals <= top /\ top <= base + Used(code)
    BY <1>2, <1>4
  <2>4. QED
    BY <1>2, <1>3, <1>4, <1>6, <1>7, <1>8, <2>1, <2>2, <2>3 DEF Frame
<1>10. Agree(spill, rf, stk, top, sp)
  <2> SUFFICES ASSUME NEW k \in 0..(top - 1)
               PROVE  IF k < sp THEN spill[k] = stk[k] ELSE rf[Ring(k)] = stk[k]
    BY DEF Agree
  <2>1. k \in 0..(Boot.nlocals - 1) /\ k \in Int /\ ~(k < sp)
    BY <1>2, <1>4
  <2>2. Ring(k) \in 0..(RF_DEPTH - 1)
    BY <2>1, RingRange DEF Index
  <2>3. QED
    BY <1>2, <2>1, <2>2
<1>11. tos = Ring(top) /\ sp >= 0 /\ sp <= base /\ rs1 = acc /\ trap # "stack"
  BY <1>2, <1>6
<1>12. QED
  BY <1>1, <1>2, <1>9, <1>10, <1>11 DEF WindowInv, Settled, Unwinding

LEMMA WindowNext == WindowInv /\ [Next]_vars => WindowInv'
<1> SUFFICES ASSUME WindowInv, [Next]_vars PROVE WindowInv'
  OBVIOUS
<1>1. CASE Instruction
  BY <1>1, LoadConstStep, LoadFastStep, StoreFastStep, PopTopStep, CallStep,
     ReturnValueStep, RaiseStep DEF Instruction
<1>2. CASE MachineStep
  BY <1>2, StartSpillStep, SpillEntryStep, SpillDoneStep, PushFrameStep, PopFrameStep,
     FillEntryStep, FillDoneStep, WriteBackStep, HandlerHitStep, HandlerMissStep
     DEF MachineStep
<1>3. CASE UNCHANGED vars
  <2>1. TypeInv'
    BY TypeNext DEF WindowInv
  <2>2. UNCHANGED <<st, rf, tos, wm, lb, code, spill, sp, left, frames, call, rs1, exc,
                    trap, stk, top, base, acc, pyframes, raiseTop>>
    BY <1>3 DEF vars, regs, py
  <2>3. /\ Frame' <=> Frame
        /\ Settled' <=> Settled
        /\ Unwinding' <=> Unwinding
        /\ Unwound' <=> Unwound
        /\ Calling' <=> Calling
        /\ Spilling' <=> Spilling
        /\ Filling' <=> Filling
        /\ Returned' <=> Returned
        /\ Depth' = Depth
    BY <2>2 DEF Frame, Settled, Sound, Unwinding, Unwound, Calling, Spilling, Filling,
                Returned, Depth
  <2>4. QED
    BY <2>1, <2>2, <2>3 DEF WindowInv
<1>4. QED
  BY <1>1, <1>2, <1>3 DEF Next

LEMMA WindowAlways == Spec => []WindowInv
BY WindowInit, WindowNext, PTL DEF Spec

\* Between two instructions every local and operand of the running frame is in
\* the ring, where tos_r and cur_locals_base_r say, with the value the program
\* left there, whatever spills, fills, calls, returns and unwinds came before
\* (RfWindow!WindowFaithful): for every program whose frames keep within the
\* five limits of WindowBudget.
THEOREM WindowFaithfulHolds == Spec => []WindowFaithful
<1>1. WindowInv => WindowFaithful
  <2> SUFFICES ASSUME WindowInv, st = "S_FETCH"
               PROVE  /\ tos = Ring(top) /\ lb = Ring(base)
                      /\ \A k \in base..(top - 1) : rf[Ring(k)] = stk[k]
    BY DEF WindowFaithful
  <2>1. /\ tos = Ring(top) /\ lb = Ring(base) /\ sp <= base
        /\ Agree(spill, rf, stk, top, sp)
        /\ top \in Int /\ base \in Nat /\ sp \in Nat
    BY FetchFacts DEF Sizes
  <2>2. ASSUME NEW k \in base..(top - 1) PROVE rf[Ring(k)] = stk[k]
    <3>1. k \in Int /\ 0 <= k /\ sp <= k /\ k < top /\ sp \in Int
      BY <2>1
    <3>2. QED
      BY <2>1, <3>1, AgreeRead
  <2>3. QED
    BY <2>1, <2>2
<1>2. QED
  BY <1>1, WindowAlways, PTL

\* The operand an instruction latches from the ring, and the return value that
\* crosses the pop of a frame, is the one the program computed
\* (RfWindow!OperandFaithful).
THEOREM OperandFaithfulHolds == Spec => []OperandFaithful
<1>1. WindowInv => OperandFaithful
  BY DEF WindowInv, OperandFaithful
<1>2. QED
  BY <1>1, WindowAlways, PTL

\* Between two instructions the ring has a free entry, so that equal pointers
\* always mean that nothing is resident (RfWindow!RingNeverFull, the comparison
\* at the head of the occupancy logic).
THEOREM RingNeverFullHolds == Spec => []RingNeverFull
<1>1. WindowInv => RingNeverFull
  <2> SUFFICES ASSUME WindowInv, st = "S_FETCH" PROVE top - sp < RF_DEPTH
    BY DEF RingNeverFull
  <2>1. Sizes /\ code \in Safe
    BY FetchFacts DEF Frame
  <2>2. Used(code) \in Int
    BY <2>1, SafeRange
  <2>3. QED
    BY <2>1, <2>2 DEF Sizes
<1>2. QED
  BY <1>1, WindowAlways, PTL

\* A fill never pops an entry that was not spilled, not even the fills of an
\* unwind that starts more than a ring above the frames it passes, where the
\* contents of the ring are already lost (RfWindow!SpillNeverUnderflows;
\* S_RF_FILL has no check of its own).
THEOREM SpillNeverUnderflowsHolds == Spec => []SpillNeverUnderflows
<1>1. WindowInv => SpillNeverUnderflows
  BY DEF WindowInv, SpillNeverUnderflows
<1>2. QED
  BY <1>1, WindowAlways, PTL

\* The occupancy check of S_WB lets every pop through of a program that pops
\* only what it pushed (RfWindow!NoFalseStackTrap).
THEOREM NoFalseStackTrapHolds == Spec => []NoFalseStackTrap
<1>1. WindowInv => NoFalseStackTrap
  BY DEF WindowInv, NoFalseStackTrap
<1>2. QED
  BY <1>1, WindowAlways, PTL
=============================================================================
