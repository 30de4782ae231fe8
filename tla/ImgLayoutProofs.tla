--------------------------- MODULE ImgLayoutProofs --------------------------
(***************************************************************************)
(* The layout without CACHE units (Strip) keeps what code does, for every  *)
(* well-formed code object: the hart on the stripped code simulates the    *)
(* host on the code as it was compiled, an instruction at a time.          *)
(***************************************************************************)
EXTENDS ImgLayout, SequenceTheorems, NatLemmas
(* One step of the machine *)

\* An instruction that has no effect and does not jump goes on behind its unit
\* with a stack that depends on the stack and the argument only.
LEMMA SameStep ==
    ASSUME NEW h, NEW t, NEW m, NEW c, h.consts = t.consts, h.names = t.names, m.stack = c.stack,
           NEW op \in Straight \cup {"CALL"}, NEW arg, UnitAt(h, m).op = op, UnitAt(t, c).op = op,
           ArgAt(h, m) = arg, ArgAt(t, c) = arg, op \notin h.illegal, op \notin t.illegal
    PROVE  \E s : QuietStep(h, m) = With(m, s) /\ QuietStep(t, c) = With(c, s)
<1>1. /\ \A n : Peek(m, n) = Peek(c, n) /\ Drop(m, n) = Drop(c, n) /\ Tops(m, n) = Tops(c, n)
      /\ \A v : Push(m, v) = With(m, Append(m.stack, v)) /\ Push(c, v) = With(c, Append(m.stack, v))
  BY DEF Peek, Drop, Tops, Push
<1>2. CASE op = "NOP"
  BY <1>1, <1>2 DEF QuietStep
<1>3. CASE op = "CACHE"
  BY <1>1, <1>3 DEF QuietStep
<1>4. CASE op = "RESUME"
  BY <1>1, <1>4 DEF QuietStep
<1>5. CASE op = "NOT_TAKEN"
  BY <1>1, <1>5 DEF QuietStep
<1>6. CASE op = "TO_BOOL"
  BY <1>1, <1>6 DEF QuietStep
<1>7. CASE op = "LOAD_CONST"
  BY <1>1, <1>7 DEF QuietStep
<1>8. CASE op = "LOAD_SMALL_INT"
  BY <1>1, <1>8 DEF QuietStep
<1>9. CASE op = "LOAD_NAME"
  BY <1>1, <1>9 DEF QuietStep
<1>10. CASE op = "LOAD_FAST"
  BY <1>1, <1>10 DEF QuietStep
<1>11. CASE op = "PUSH_NULL"
  BY <1>1, <1>11 DEF QuietStep
<1>12. CASE op = "COPY"
  BY <1>1, <1>12 DEF QuietStep
<1>13. CASE op = "POP_TOP"
  BY <1>1, <1>13 DEF QuietStep
<1>14. CASE op = "POP_ITER"
  BY <1>1, <1>14 DEF QuietStep
<1>15. CASE op = "MAKE_FUNCTION"
  BY <1>1, <1>15 DEF QuietStep
<1>16. CASE op = "BUILD_MAP"
  BY <1>1, <1>16 DEF QuietStep
<1>17. CASE op = "BUILD_LIST"
  BY <1>1, <1>17 DEF QuietStep
<1>18. CASE op = "LIST_EXTEND"
  <2> DEFINE s(v) == Append(Drop(v, 2), <<"list", Append(Peek(v, 2)[2], Peek(v, 1))>>)
  <2>1. QuietStep(h, m) = With(m, s(m))
    BY <1>18 DEF QuietStep
  <2>2. QuietStep(t, c) = With(c, s(c))
    BY <1>18 DEF QuietStep
  <2>3. s(m) = s(c)
    BY <1>1
  <2>4. QED
    BY <2>1, <2>2, <2>3
<1>19. CASE op = "PUSH_EXC_INFO"
  BY <1>1, <1>19 DEF QuietStep
<1>20. CASE op = "POP_EXCEPT"
  BY <1>1, <1>20 DEF QuietStep
<1>21. CASE op = "CHECK_EXC_MATCH"
  BY <1>1, <1>21 DEF QuietStep
<1>22. CASE op = "CALL"
  BY <1>1, <1>22 DEF QuietStep
<1>23. QED
  BY <1>2, <1>3, <1>4, <1>5, <1>6, <1>7, <1>8, <1>9, <1>10, <1>11, <1>12, <1>13, <1>14, <1>15, <1>16, <1>17, <1>18, <1>19, <1>20, <1>21, <1>22 DEF Straight
LEMMA WithIs ==
    ASSUME NEW m, IsMachine(m), NEW s
    PROVE  /\ IsMachine(With(m, s))
           /\ With(m, s).pc = m.pc + 1 /\ With(m, s).ext = 0
           /\ With(m, s).stack = s /\ With(m, s).out = m.out
<1> DEFINE d == IF Len(s) > m.deepest THEN Len(s) ELSE m.deepest
<1>1. With(m, s) = [m EXCEPT !.pc = m.pc + 1, !.ext = 0, !.stack = s, !.deepest = d]
  BY DEF With
<1> HIDE DEF d
<1>2. With(m, s) = [pc |-> m.pc + 1, ext |-> 0, stack |-> s, deepest |-> d, out |-> m.out]
  BY <1>1 DEF IsMachine
<1>3. QED
  BY <1>2 DEF IsMachine

LEMMA WentIs ==
    ASSUME NEW m, IsMachine(m), NEW s, NEW p
    PROVE  /\ IsMachine(GoTo(m, s, p))
           /\ GoTo(m, s, p).pc = p /\ GoTo(m, s, p).ext = 0
           /\ GoTo(m, s, p).stack = s /\ GoTo(m, s, p).out = m.out
<1> DEFINE w == With(m, s)
<1>1. IsMachine(w) /\ w.ext = 0 /\ w.stack = s /\ w.out = m.out
  BY WithIs
<1> HIDE DEF w
<1>2. [w EXCEPT !.pc = p] = [pc |-> p, ext |-> w.ext, stack |-> w.stack, deepest |-> w.deepest, out |-> w.out]
  BY <1>1 DEF IsMachine
<1>3. IsMachine([w EXCEPT !.pc = p])
  BY <1>2 DEF IsMachine
<1>4. /\ [w EXCEPT !.pc = p].pc = p /\ [w EXCEPT !.pc = p].ext = 0
      /\ [w EXCEPT !.pc = p].stack = s /\ [w EXCEPT !.pc = p].out = m.out
  BY <1>1, <1>2
<1>5. QED
  BY <1>3, <1>4 DEF w, GoTo

LEMMA EndedIs ==
    ASSUME NEW m, IsMachine(m), NEW x
    PROVE  /\ IsMachine(Stopped(m, x))
           /\ Stopped(m, x).out = x /\ Stopped(m, x).stack = m.stack
  BY DEF IsMachine, Stopped

LEMMA HoldsIs ==
    ASSUME NEW m, IsMachine(m), NEW s
    PROVE  /\ IsMachine(Holding(m, s))
           /\ Holding(m, s).pc = m.pc /\ Holding(m, s).ext = m.ext
           /\ Holding(m, s).stack = s /\ Holding(m, s).out = m.out
  BY DEF IsMachine, Holding

\* At the beginning of an instruction of either layout.
LEMMA AlikeAt ==
    ASSUME NEW h, NEW t, NEW all, NEW ns, NEW na, SameLayout(h, t, all, ns, na),
           NEW m, NEW c, IsMachine(m), IsMachine(c), m.stack = c.stack, m.out = c.out,
           NEW b \in 1..Len(all), all[b].op \in Known,
           m.pc = all[b].start, c.pc = ns[b], m.ext = 0, c.ext = 0
    PROVE  Alike(h, t, all, ns, m, c)
<1>1. all[b].ext \in 0..2 /\ all[b].start \in Nat /\ ns[b] \in Nat
  BY DEF SameLayout, SameUnits
<1>2. 0 \in 0..all[b].ext /\ m.pc = all[b].start + 0 /\ c.pc = ns[b] + 0
  BY <1>1
<1>3. m.ext = Lead(h, all[b].start, 0) /\ c.ext = Lead(t, ns[b], 0)
  BY DEF Lead
<1>4. Inside(h, t, all, ns, m, c, b)
  BY ONLY <1>2, <1>3, all[b].op \in Known DEF Inside, At2
<1>5. QED
  BY <1>4 DEF Alike

\* An exception that is looked up at corresponding units ends both runs or
\* brings both to the same handler with the same stack.
LEMMA SameRaise ==
    ASSUME NEW h, NEW t, NEW all, NEW ns, NEW na, SameLayout(h, t, all, ns, na),
           NEW m, NEW c, IsMachine(m), IsMachine(c), m.stack = c.stack, m.out = c.out,
           NEW x, NEW u, NEW v, \A e \in DOMAIN h.exc : Covers(h.exc[e], u) <=> Covers(t.exc[e], v)
    PROVE  Alike(h, t, all, ns, Raise(h, m, x, u), Raise(t, c, x, v))
<1> DEFINE covering == {e \in DOMAIN h.exc : Covers(h.exc[e], u)}
           first == CHOOSE e \in covering : \A f \in covering : e <= f
           hand(obj) == SubSeq(m.stack, 1, obj.exc[first].depth)
                        \o (IF obj.exc[first].lasti THEN <<<<"lasti">>>> ELSE <<>>) \o <<x>>
<1>1. covering = {e \in DOMAIN h.exc : h.exc[e].start <= u /\ u < h.exc[e].end}
  BY DEF Covers
<1>2. covering = {e \in DOMAIN t.exc : t.exc[e].start <= v /\ v < t.exc[e].end}
  BY DEF Covers, SameLayout
<1> HIDE DEF covering
<1>3. Raise(h, m, x, u) = IF covering = {} THEN Stopped(m, <<"raised", x>>)
                          ELSE GoTo(m, hand(h), h.exc[first].target)
  BY <1>1 DEF Raise
<1>4. Raise(t, c, x, v) = IF covering = {} THEN Stopped(c, <<"raised", x>>)
                          ELSE GoTo(c, hand(t), t.exc[first].target)
  BY <1>2 DEF Raise
<1>5. CASE covering = {}
  <2> DEFINE r == <<"raised", x>>
  <2>1. r # <<>>
    OBVIOUS
  <2>2. Raise(h, m, x, u) = Stopped(m, r) /\ Raise(t, c, x, v) = Stopped(c, r)
    BY <1>3, <1>4, <1>5
  <2> HIDE DEF r
  <2>3. IsMachine(Stopped(m, r)) /\ Stopped(m, r).out = r /\ Stopped(m, r).stack = m.stack
    BY EndedIs
  <2>4. IsMachine(Stopped(c, r)) /\ Stopped(c, r).out = r /\ Stopped(c, r).stack = c.stack
    BY EndedIs
  <2>5. QED
    BY <2>1, <2>2, <2>3, <2>4 DEF Alike
<1>6. CASE covering # {}
  <2>1. covering \subseteq Nat /\ covering \subseteq DOMAIN h.exc
    BY DEF covering, SameLayout
  <2>2. first \in covering
    BY <1>6, <2>1, LeastNumber
  <2>3. SameHandler(h, t, all, ns, first)
    BY <2>1, <2>2 DEF SameLayout
  <2> HIDE DEF first
  <2>4. hand(h) = hand(t)
    BY <2>3 DEF SameHandler
  <2>5. PICK b \in 1..Len(all) :
            h.exc[first].target = all[b].start /\ t.exc[first].target = ns[b] /\ all[b].op \in Known
    BY <2>3 DEF SameHandler
  <2> HIDE DEF hand
  <2> DEFINE mm == GoTo(m, hand(h), h.exc[first].target)
             cc == GoTo(c, hand(t), t.exc[first].target)
  <2>6. /\ IsMachine(mm) /\ mm.pc = h.exc[first].target /\ mm.ext = 0
        /\ mm.stack = hand(h) /\ mm.out = m.out
    BY WentIs
  <2>7. /\ IsMachine(cc) /\ cc.pc = t.exc[first].target /\ cc.ext = 0
        /\ cc.stack = hand(t) /\ cc.out = c.out
    BY WentIs
  <2>8. Raise(h, m, x, u) = mm /\ Raise(t, c, x, v) = cc
    BY <1>3, <1>4, <1>6
  <2> HIDE DEF mm, cc
  <2>9. Alike(h, t, all, ns, mm, cc)
    BY <2>4, <2>5, <2>6, <2>7, AlikeAt
  <2>10. QED
    BY <2>8, <2>9
<1>7. QED
  BY <1>5, <1>6
LEMMA CacheUnitsIs == \A op : CacheUnits(op) \in 0..5
  BY DEF CacheUnits

\* Behind an instruction that does not jump.
LEMMA AlikeBehind ==
    ASSUME NEW h, NEW t, NEW all, NEW ns, NEW na, SameLayout(h, t, all, ns, na),
           NEW m, NEW c, IsMachine(m), IsMachine(c), m.stack = c.stack, m.out = c.out, m.ext = 0, c.ext = 0,
           NEW k \in 1..Len(all), all[k].op \in Known \ Final,
           m.pc = all[k].start + all[k].ext + 1, c.pc = ns[k] + all[k].ext + 1
    PROVE  Alike(h, t, all, ns, m, c)
<1>1. SameUnits(h, t, all, ns, na, k) /\ SameFlow(h, t, all, ns, na, k) /\ Len(all) \in Nat
  BY DEF SameLayout
<1>2. CacheUnits(all[k].op) \in 0..5
  BY CacheUnitsIs
<1>3. /\ all[k].end = m.pc + CacheUnits(all[k].op) /\ m.pc \in Nat /\ ns[k] \in Nat
      /\ k < Len(all) /\ all[k + 1].op \in Known /\ all[k + 1].start = all[k].end
      /\ ns[k + 1] = c.pc \/ CacheUnits(all[k].op) > 0
  BY <1>1, <1>2 DEF SameUnits, SameFlow
<1>4. CASE CacheUnits(all[k].op) = 0
  <2>1. k + 1 \in 1..Len(all) /\ m.pc = all[k + 1].start /\ c.pc = ns[k + 1]
    BY <1>1, <1>2, <1>3, <1>4
  <2>2. QED
    BY <1>3, <2>1, AlikeAt
<1>5. CASE CacheUnits(all[k].op) > 0
  <2>1. m.pc \in (all[k].start + all[k].ext + 1)..(all[k].end - 1)
    BY <1>2, <1>3, <1>5
  <2>2. Behind(all, ns, m, c, k)
    BY <1>3, <2>1 DEF Behind
  <2>3. QED
    BY <2>2 DEF Alike
<1>6. QED
  BY <1>2, <1>4, <1>5

\* What the two machines stand at when they are in instruction k.
Here(h, t, all, ns, na, m, c, k, j) ==
    /\ SameLayout(h, t, all, ns, na) /\ k \in 1..Len(all) /\ all[k].op \in Known
    /\ j \in 0..all[k].ext /\ At2(h, t, all, ns, m, c, k, j)
LEMMA AlikeInside ==
    ASSUME NEW h, NEW t, NEW all, NEW ns, NEW na, NEW m, NEW c, NEW k, NEW j,
           Here(h, t, all, ns, na, m, c, k, j)
    PROVE  /\ j < all[k].ext => /\ UnitAt(h, m).op = "EXTENDED_ARG" /\ UnitAt(t, c).op = "EXTENDED_ARG"
                                /\ ArgAt(h, m) = Lead(h, all[k].start, j + 1)
                                /\ ArgAt(t, c) = Lead(t, ns[k], j + 1)
           /\ j = all[k].ext => /\ UnitAt(h, m).op = all[k].op /\ UnitAt(t, c).op = all[k].op
                                /\ ArgAt(h, m) = all[k].arg /\ ArgAt(t, c) = na[k]
<1>0. /\ SameLayout(h, t, all, ns, na) /\ k \in 1..Len(all) /\ all[k].op \in Known
      /\ j \in 0..all[k].ext /\ At2(h, t, all, ns, m, c, k, j)
  BY DEF Here
<1>1. SameUnits(h, t, all, ns, na, k)
  BY <1>0 DEF SameLayout
<1>2. /\ all[k].ext \in 0..2 /\ all[k].start \in Nat /\ ns[k] \in Nat /\ j \in 0..2
      /\ Stands(h, all[k].start, all[k].ext, all[k].op, all[k].arg)
      /\ Stands(t, ns[k], all[k].ext, all[k].op, na[k])
  BY <1>0, <1>1 DEF SameUnits
<1> DEFINE ah == Lead(h, all[k].start, j) * RADIX + UnitOf(h, all[k].start + j).arg
           at == Lead(t, ns[k], j) * RADIX + UnitOf(t, ns[k] + j).arg
<1>3. UnitAt(h, m) = UnitOf(h, all[k].start + j) /\ ArgAt(h, m) = ah
  BY <1>0 DEF At2, UnitAt, UnitOf, ArgAt
<1>4. UnitAt(t, c) = UnitOf(t, ns[k] + j) /\ ArgAt(t, c) = at
  BY <1>0 DEF At2, UnitAt, UnitOf, ArgAt
<1>5. CASE j < all[k].ext
  <2>1. j = 0 \/ j = 1
    BY <1>2, <1>5
  <2>2. UnitOf(h, all[k].start + j).op = "EXTENDED_ARG" /\ UnitOf(t, ns[k] + j).op = "EXTENDED_ARG"
    BY <1>2, <1>5 DEF Stands
  <2>3. UnitOf(h, all[k].start + j).arg \in Nat /\ UnitOf(t, ns[k] + j).arg \in Nat
    BY <1>2, <1>5 DEF Stands
  <2>4. ah = Lead(h, all[k].start, j + 1)
    BY <1>2, <2>1, <2>3, RadixAssumption DEF Lead
  <2>5. at = Lead(t, ns[k], j + 1)
    BY <1>2, <2>1, <2>3, RadixAssumption DEF Lead
  <2> HIDE DEF ah, at
  <2>6. UnitAt(h, m).op = "EXTENDED_ARG" /\ UnitAt(t, c).op = "EXTENDED_ARG"
    BY ONLY <1>3, <1>4, <2>2
  <2>7. ArgAt(h, m) = Lead(h, all[k].start, j + 1) /\ ArgAt(t, c) = Lead(t, ns[k], j + 1)
    BY ONLY <1>3, <1>4, <2>4, <2>5
  <2>8. j # all[k].ext
    BY ONLY <1>2, <1>5
  <2>9. QED
    BY ONLY <2>6, <2>7, <2>8
<1>6. CASE j = all[k].ext
  <2>1. /\ UnitOf(h, all[k].start + j).op = all[k].op /\ UnitOf(t, ns[k] + j).op = all[k].op
        /\ ah = all[k].arg /\ at = na[k]
    BY <1>2, <1>6 DEF Stands
  <2> HIDE DEF ah, at
  <2>6. UnitAt(h, m).op = all[k].op /\ UnitAt(t, c).op = all[k].op
    BY ONLY <1>3, <1>4, <2>1
  <2>7. ArgAt(h, m) = all[k].arg /\ ArgAt(t, c) = na[k]
    BY ONLY <1>3, <1>4, <2>1
  <2>8. ~ (j < all[k].ext)
    BY ONLY <1>2, <1>6
  <2>9. QED
    BY ONLY <2>6, <2>7, <2>8
<1>7. QED
  BY <1>2, <1>5, <1>6
LEMMA PrefixedIs ==
    ASSUME NEW m, IsMachine(m), NEW a
    PROVE  /\ IsMachine(Prefixed(m, a))
           /\ Prefixed(m, a).pc = m.pc + 1 /\ Prefixed(m, a).ext = a
           /\ Prefixed(m, a).stack = m.stack /\ Prefixed(m, a).out = m.out
<1>1. Prefixed(m, a) = [pc |-> m.pc + 1, ext |-> a, stack |-> m.stack, deepest |-> m.deepest, out |-> m.out]
  <2>1. m = [pc |-> m.pc, ext |-> m.ext, stack |-> m.stack, deepest |-> m.deepest, out |-> m.out]
    BY DEF IsMachine
  <2>2. Prefixed(m, a) = [m EXCEPT !.pc = m.pc + 1, !.ext = a]
    BY DEF Prefixed
  <2> DEFINE p == m.pc + 1
  <2> HIDE DEF p
  <2>3. QED
    BY <2>1, <2>2 DEF p
<1>2. QED
  BY <1>1 DEF IsMachine

\* What instructions of each kind do, and which of them are quiet.
LEMMA QuietStepIs ==
    ASSUME NEW h, NEW m, UnitAt(h, m).op \notin h.illegal
    PROVE  /\ UnitAt(h, m).op = "EXTENDED_ARG" => QuietStep(h, m) = Prefixed(m, ArgAt(h, m))
           /\ UnitAt(h, m).op \in {"NOP", "CACHE"} => QuietStep(h, m) = With(m, m.stack)
           /\ UnitAt(h, m).op \in {"JUMP_FORWARD", "JUMP_BACKWARD"} =>
                  QuietStep(h, m) = GoTo(m, m.stack, JumpTo(h, m))
           /\ UnitAt(h, m).op = "RERAISE" =>
                  QuietStep(h, m) = Raise(h, Holding(m, Drop(m, 1)), Peek(m, 1), m.pc)
<1>1. UnitAt(h, m).op = "EXTENDED_ARG" => QuietStep(h, m) = Prefixed(m, ArgAt(h, m))
  BY DEF QuietStep
<1>2. UnitAt(h, m).op \in {"NOP", "CACHE"} => QuietStep(h, m) = With(m, m.stack)
  BY DEF QuietStep
<1>3. UnitAt(h, m).op \in {"JUMP_FORWARD", "JUMP_BACKWARD"} => QuietStep(h, m) = GoTo(m, m.stack, JumpTo(h, m))
  BY DEF QuietStep
<1>4. UnitAt(h, m).op = "RERAISE" => QuietStep(h, m) = Raise(h, Holding(m, Drop(m, 1)), Peek(m, 1), m.pc)
  BY DEF QuietStep
<1>5. QED
  BY <1>1, <1>2, <1>3, <1>4

LEMMA QuietIs ==
    ASSUME NEW h, NEW m
    PROVE  /\ UnitAt(h, m).op \notin EffectOps => Quiet(h, m)
           /\ UnitAt(h, m).op \in EffectOps \ {"CALL"} => ~Quiet(h, m)
           /\ UnitAt(h, m).op = "CALL" => (Quiet(h, m) <=> Peek(m, ArgAt(h, m) + 2) = <<"build_class">>)
  BY DEF Quiet, EffectOps, CallOps

\* An instruction that moves both to the places a jump goes to.
LEMMA SameJump ==
    ASSUME NEW h, NEW t, NEW all, NEW ns, NEW na, SameLayout(h, t, all, ns, na),
           NEW m, NEW c, NEW k \in 1..Len(all), all[k].op \in Jumps \cap Known,
           At2(h, t, all, ns, m, c, k, all[k].ext)
    PROVE  \E b \in 1..Len(all) :
              /\ JumpTo(h, m) = all[b].start /\ JumpTo(t, c) = ns[b]
              /\ all[k].op # "FOR_ITER" => all[b].op \in Known
              /\ all[k].op = "FOR_ITER" => /\ b + 1 \in 1..Len(all) /\ all[b + 1].op \in Known
                                           /\ all[b + 1].start = all[b].start + 1
                                           /\ ns[b + 1] = ns[b] + 1
<1>1. SameUnits(h, t, all, ns, na, k) /\ SameFlow(h, t, all, ns, na, k) /\ Len(all) \in Nat
  BY DEF SameLayout
<1>2. CacheUnits(all[k].op) \in 0..5
  BY CacheUnitsIs
<1>9. all[k].ext \in 0..all[k].ext /\ all[k].ext \in 0..2
  BY <1>1 DEF SameUnits
<1>12. Here(h, t, all, ns, na, m, c, k, all[k].ext)
  BY <1>9 DEF Here
<1>10. /\ UnitAt(h, m).op = all[k].op /\ UnitAt(t, c).op = all[k].op
       /\ ArgAt(h, m) = all[k].arg /\ ArgAt(t, c) = na[k]
  BY ONLY <1>12, AlikeInside
<1>11. m.pc = all[k].start + all[k].ext /\ c.pc = ns[k] + all[k].ext
  BY DEF At2
<1>3. PICK b \in 1..Len(all) :
          /\ all[b].start = Target(all[k].op, all[k].end, all[k].arg)
          /\ ns[b] = Target(all[k].op, ns[k] + all[k].ext + 1 + CacheUnits(all[k].op), na[k])
          /\ IF all[k].op # "FOR_ITER" THEN all[b].op \in Known
             ELSE /\ b < Len(all) /\ all[b].ext = 0 /\ CacheUnits(all[b].op) = 0
                  /\ all[b + 1].op \in Known
  BY <1>1 DEF SameFlow
<1>4. all[k].end = m.pc + 1 + CacheUnits(all[k].op)
  BY <1>1, <1>2, <1>11 DEF SameUnits
<1>5. JumpTo(h, m) = Target(all[k].op, all[k].end, all[k].arg)
  BY <1>4, <1>10 DEF JumpTo, Target
<1>6. JumpTo(t, c) = Target(all[k].op, ns[k] + all[k].ext + 1 + CacheUnits(all[k].op), na[k])
  BY <1>10, <1>11 DEF JumpTo, Target
<1>7. ASSUME all[k].op = "FOR_ITER"
      PROVE  /\ b + 1 \in 1..Len(all) /\ all[b + 1].op \in Known
             /\ all[b + 1].start = all[b].start + 1 /\ ns[b + 1] = ns[b] + 1
  <2>1. SameUnits(h, t, all, ns, na, b) /\ SameFlow(h, t, all, ns, na, b)
    BY DEF SameLayout
  <2>2. b < Len(all) /\ all[b].ext = 0 /\ CacheUnits(all[b].op) = 0 /\ all[b + 1].op \in Known
    BY <1>3, <1>7
  <2>3. all[b + 1].start = all[b].end /\ all[b].end = all[b].start + 1 /\ ns[b + 1] = ns[b] + 1
    BY <2>1, <2>2 DEF SameUnits, SameFlow
  <2>4. QED
    BY <1>1, <2>2, <2>3
<1>8. QED
  BY <1>3, <1>5, <1>6, <1>7
\* A quiet step of the host is a step of the hart, or the host passes a CACHE
\* unit that the hart has not got.
LEMMA SameQuietStep ==
    ASSUME NEW h, NEW t, NEW all, NEW ns, NEW na, SameLayout(h, t, all, ns, na),
           NEW m, NEW c, Alike(h, t, all, ns, m, c), ~Ended(m), Quiet(h, m)
    PROVE  \/ Alike(h, t, all, ns, QuietStep(h, m), c)
           \/ Quiet(t, c) /\ ~Ended(c) /\ Alike(h, t, all, ns, QuietStep(h, m), QuietStep(t, c))
<1>1. IsMachine(m) /\ IsMachine(c) /\ m.stack = c.stack /\ m.out = c.out /\ m.out = <<>> /\ ~Ended(c)
  BY DEF Alike, Ended
<1>2. PICK k \in 1..Len(all) : Inside(h, t, all, ns, m, c, k) \/ Behind(all, ns, m, c, k)
  BY DEF Alike, Ended
<1>3. SameUnits(h, t, all, ns, na, k) /\ SameFlow(h, t, all, ns, na, k) /\ Len(all) \in Nat
  BY DEF SameLayout
<1>4. \A op \in Known \cup {"EXTENDED_ARG"} : op \notin h.illegal /\ op \notin t.illegal
  BY DEF SameLayout
<1>5. \A n : Peek(m, n) = Peek(c, n) /\ Drop(m, n) = Drop(c, n)
  BY <1>1 DEF Peek, Drop
<1>6. ASSUME NEW j \in 0..all[k].ext, all[k].op \in Known,
             At2(h, t, all, ns, m, c, k, j), j < all[k].ext
      PROVE  Quiet(t, c) /\ Alike(h, t, all, ns, QuietStep(h, m), QuietStep(t, c))
  <2>11. m.pc = all[k].start + j /\ c.pc = ns[k] + j
    BY <1>6 DEF At2
  <2>12. Here(h, t, all, ns, na, m, c, k, j)
    BY <1>6 DEF Here
  <2>1. /\ UnitAt(h, m).op = "EXTENDED_ARG" /\ UnitAt(t, c).op = "EXTENDED_ARG"
        /\ ArgAt(h, m) = Lead(h, all[k].start, j + 1) /\ ArgAt(t, c) = Lead(t, ns[k], j + 1)
    BY ONLY <1>6, <2>12, AlikeInside
  <2>2. Quiet(t, c)
    BY <2>1, QuietIs DEF EffectOps, CallOps
  <2>3. QuietStep(h, m) = Prefixed(m, ArgAt(h, m)) /\ QuietStep(t, c) = Prefixed(c, ArgAt(t, c))
    BY <1>4, <2>1, QuietStepIs
  <2> DEFINE mm == Prefixed(m, ArgAt(h, m))
             cc == Prefixed(c, ArgAt(t, c))
  <2>4. IsMachine(mm) /\ mm.pc = m.pc + 1 /\ mm.ext = ArgAt(h, m) /\ mm.stack = m.stack /\ mm.out = m.out
    BY <1>1, PrefixedIs
  <2>5. IsMachine(cc) /\ cc.pc = c.pc + 1 /\ cc.ext = ArgAt(t, c) /\ cc.stack = c.stack /\ cc.out = c.out
    BY <1>1, PrefixedIs
  <2> HIDE DEF mm, cc
  <2>6. all[k].ext \in 0..2 /\ all[k].start \in Nat /\ ns[k] \in Nat
    BY <1>3 DEF SameUnits
  <2>7. j + 1 \in 0..all[k].ext /\ mm.pc = all[k].start + (j + 1) /\ cc.pc = ns[k] + (j + 1)
    BY <2>11, <1>6, <2>4, <2>5, <2>6
  <2>8. Inside(h, t, all, ns, mm, cc, k)
    BY <1>6, <2>1, <2>4, <2>5, <2>7 DEF Inside, At2
  <2>9. Alike(h, t, all, ns, mm, cc)
    BY <1>1, <2>4, <2>5, <2>8 DEF Alike
  <2>10. QED
    BY <2>2, <2>3, <2>9 DEF mm, cc
<1>7. ASSUME all[k].op \in Known,
             At2(h, t, all, ns, m, c, k, all[k].ext)
      PROVE  Quiet(t, c) /\ Alike(h, t, all, ns, QuietStep(h, m), QuietStep(t, c))
  <2>1. all[k].ext \in 0..2 /\ all[k].start \in Nat /\ ns[k] \in Nat /\ all[k].op # "EXTENDED_ARG"
    BY <1>3 DEF SameUnits
  <2>2. all[k].ext \in 0..all[k].ext
    BY <2>1
  <2>12. Here(h, t, all, ns, na, m, c, k, all[k].ext)
    BY <1>7, <2>2 DEF Here
  <2>3. /\ UnitAt(h, m).op = all[k].op /\ UnitAt(t, c).op = all[k].op
        /\ ArgAt(h, m) = all[k].arg /\ ArgAt(t, c) = na[k]
    BY ONLY <2>12, AlikeInside
  <2>11. m.pc = all[k].start + all[k].ext /\ c.pc = ns[k] + all[k].ext
    BY <1>7 DEF At2
  <2>4. all[k].op \notin EffectOps \/ all[k].op = "CALL"
    BY <2>3, QuietIs
  <2>5. all[k].op \notin Jumps => ArgAt(h, m) = ArgAt(t, c)
    BY <1>3, <2>3 DEF SameUnits
  <2>6. Quiet(t, c)
    <3>1. CASE all[k].op = "CALL"
      <4>1. "CALL" \notin Jumps
        BY DEF Jumps, Backward
      <4>2. QED
        BY <1>5, <2>3, <2>5, <3>1, <4>1, QuietIs
    <3>2. CASE all[k].op \notin EffectOps
      BY <2>3, <3>2, QuietIs
    <3>3. QED
      BY <2>4, <3>1, <3>2
  <2>7. CASE all[k].op \in Straight \cup {"CALL"}
    <3>1. all[k].op \notin Jumps /\ all[k].op \in Known \ Final
      BY <2>7 DEF Straight, Known, Final, Jumps, Backward, EffectOps, CallOps
    <3>2. h.consts = t.consts /\ h.names = t.names
      BY DEF SameLayout
    <3>3. PICK s : QuietStep(h, m) = With(m, s) /\ QuietStep(t, c) = With(c, s)
      <4> DEFINE op == all[k].op
                 arg == ArgAt(h, m)
      <4>1. /\ op \in Straight \cup {"CALL"} /\ UnitAt(h, m).op = op /\ UnitAt(t, c).op = op
            /\ ArgAt(h, m) = arg /\ ArgAt(t, c) = arg /\ op \notin h.illegal /\ op \notin t.illegal
        BY <1>4, <1>7, <2>3, <2>5, <2>7, <3>1
      <4> HIDE DEF op, arg
      <4>2. QED
        BY <1>1, <3>2, <4>1, SameStep
    <3> DEFINE mm == With(m, s)
               cc == With(c, s)
    <3>4. IsMachine(mm) /\ mm.pc = m.pc + 1 /\ mm.ext = 0 /\ mm.stack = s /\ mm.out = m.out
      BY <1>1, WithIs
    <3>5. IsMachine(cc) /\ cc.pc = c.pc + 1 /\ cc.ext = 0 /\ cc.stack = s /\ cc.out = c.out
      BY <1>1, WithIs
    <3> HIDE DEF mm, cc
    <3>6. mm.pc = all[k].start + all[k].ext + 1 /\ cc.pc = ns[k] + all[k].ext + 1
      BY <2>11, <3>4, <3>5
    <3>7. Alike(h, t, all, ns, mm, cc)
      BY <1>1, <3>1, <3>4, <3>5, <3>6, AlikeBehind
    <3>8. QED
      BY <2>6, <3>3, <3>7 DEF mm, cc
  <2>8. CASE all[k].op \in {"JUMP_FORWARD", "JUMP_BACKWARD"}
    <3>1. all[k].op \in Jumps \cap Known /\ all[k].op # "FOR_ITER"
      BY <1>7, <2>8 DEF Jumps, Backward
    <3>2. PICK b \in 1..Len(all) :
              JumpTo(h, m) = all[b].start /\ JumpTo(t, c) = ns[b] /\ all[b].op \in Known
      BY <1>7, <2>3, <3>1, SameJump
    <3>3. QuietStep(h, m) = GoTo(m, m.stack, JumpTo(h, m)) /\ QuietStep(t, c) = GoTo(c, c.stack, JumpTo(t, c))
      BY <1>4, <1>7, <2>3, <2>8, QuietStepIs
    <3> DEFINE mm == GoTo(m, m.stack, JumpTo(h, m))
               cc == GoTo(c, c.stack, JumpTo(t, c))
    <3>4. IsMachine(mm) /\ mm.pc = JumpTo(h, m) /\ mm.ext = 0 /\ mm.stack = m.stack /\ mm.out = m.out
      BY <1>1, WentIs
    <3>5. IsMachine(cc) /\ cc.pc = JumpTo(t, c) /\ cc.ext = 0 /\ cc.stack = c.stack /\ cc.out = c.out
      <4>1. IsMachine(c)
        BY <1>1
      <4>2. QED
        BY ONLY <4>1, WentIs
    <3> HIDE DEF mm, cc
    <3>6. Alike(h, t, all, ns, mm, cc)
      BY <1>1, <3>2, <3>4, <3>5, AlikeAt
    <3>7. QED
      BY <2>6, <3>3, <3>6 DEF mm, cc
  <2>9. CASE all[k].op = "RERAISE"
    <3>1. QuietStep(h, m) = Raise(h, Holding(m, Drop(m, 1)), Peek(m, 1), m.pc)
      BY <1>4, <1>7, <2>3, <2>9, QuietStepIs
    <3>2. QuietStep(t, c) = Raise(t, Holding(c, Drop(c, 1)), Peek(c, 1), c.pc)
      BY <1>4, <1>7, <2>3, <2>9, QuietStepIs
    <3> DEFINE mm == Holding(m, Drop(m, 1))
               cc == Holding(c, Drop(c, 1))
               x == Peek(m, 1)
    <3>3. IsMachine(mm) /\ mm.stack = Drop(m, 1) /\ mm.out = m.out
      BY <1>1, HoldsIs
    <3>4. IsMachine(cc) /\ cc.stack = Drop(c, 1) /\ cc.out = c.out
      BY <1>1, HoldsIs
    <3>5. QuietStep(h, m) = Raise(h, mm, x, m.pc) /\ QuietStep(t, c) = Raise(t, cc, x, c.pc)
      BY <1>5, <3>1, <3>2
    <3>6. \A e \in DOMAIN h.exc : Covers(h.exc[e], m.pc) <=> Covers(t.exc[e], c.pc)
      BY <2>11 DEF SameLayout, SameHandler
    <3> HIDE DEF mm, cc, x
    <3>7. Alike(h, t, all, ns, Raise(h, mm, x, m.pc), Raise(t, cc, x, c.pc))
      BY <1>1, <1>5, <3>3, <3>4, <3>6, SameRaise
    <3>8. QED
      BY <2>6, <3>5, <3>7
  <2>10. QED
    BY <1>7, <2>4, <2>7, <2>8, <2>9 DEF Known
<1>8. ASSUME Behind(all, ns, m, c, k)
      PROVE  \/ Alike(h, t, all, ns, QuietStep(h, m), c)
             \/ Quiet(t, c) /\ Alike(h, t, all, ns, QuietStep(h, m), QuietStep(t, c))
  <2> DEFINE first == all[k].start + all[k].ext + 1
  <2>1. /\ first \in Nat /\ ns[k] \in Nat /\ all[k].ext \in 0..2
        /\ all[k].end = first + CacheUnits(all[k].op) /\ CacheUnits(all[k].op) \in 0..5
    BY <1>3, CacheUnitsIs DEF SameUnits
  <2>2. /\ k < Len(all) /\ all[k + 1].op \in Known /\ m.ext = 0 /\ c.ext = 0
        /\ m.pc \in first..(all[k].end - 1)
        /\ c.pc = IF m.pc = first THEN ns[k] + all[k].ext + 1 ELSE ns[k + 1]
    BY <1>8 DEF Behind
  <2>3. UnitAt(h, m).op = "CACHE"
    BY <1>3, <2>2 DEF SameUnits, UnitAt, UnitOf
  <2>4. "CACHE" \in Known /\ "NOP" \in Known
    BY DEF Known, Straight
  <2>5. QuietStep(h, m) = With(m, m.stack)
    BY <1>4, <2>3, <2>4, QuietStepIs
  <2> DEFINE mm == With(m, m.stack)
  <2>6. IsMachine(mm) /\ mm.pc = m.pc + 1 /\ mm.ext = 0 /\ mm.stack = m.stack /\ mm.out = m.out
    BY <1>1, WithIs
  <2> HIDE DEF mm
  <2>7. ASSUME NEW d, IsMachine(d), d.pc = ns[k + 1], d.ext = 0, d.stack = c.stack, d.out = c.out
        PROVE  Alike(h, t, all, ns, mm, d)
    <3>1. CASE m.pc + 1 = all[k].end
      <4>1. k + 1 \in 1..Len(all) /\ mm.pc = all[k + 1].start
        BY <1>3, <2>2, <2>6, <3>1 DEF SameFlow
      <4>2. QED
        BY <1>1, <2>2, <2>6, <2>7, <4>1, AlikeAt
    <3>2. CASE m.pc + 1 # all[k].end
      <4> DEFINE end == all[k].end
                 units == CacheUnits(all[k].op)
                 here == m.pc
                 there == mm.pc
      <4>1. /\ first \in Nat /\ units \in 0..5 /\ end = first + units
            /\ here \in first..(end - 1) /\ there = here + 1 /\ here + 1 # end
        BY <2>1, <2>2, <2>6, <3>2
      <4> HIDE DEF first, end, units, here, there
      <4>2. there \in first..(end - 1) /\ there # first
        BY ONLY <4>1
      <4>3. Behind(all, ns, mm, d, k)
        BY <2>2, <2>6, <2>7, <4>2 DEF Behind, first, end, there
      <4>4. QED
        BY <1>1, <2>6, <2>7, <4>3 DEF Alike
    <3>3. QED
      BY <3>1, <3>2
  <2>8. CASE c.pc = ns[k + 1]
    BY <1>1, <2>2, <2>5, <2>7, <2>8 DEF mm
  <2>9. CASE c.pc # ns[k + 1]
    <3>1. c.pc = ns[k] + all[k].ext + 1 /\ ns[k + 1] = c.pc + 1
          /\ UnitOf(t, ns[k] + all[k].ext + 1).op = "NOP"
      BY <1>3, <2>1, <2>2, <2>9 DEF SameUnits
    <3>2. UnitAt(t, c).op = "NOP"
      BY <3>1 DEF UnitAt, UnitOf
    <3>3. Quiet(t, c)
      BY <3>2, QuietIs DEF EffectOps, CallOps
    <3>4. QuietStep(t, c) = With(c, c.stack)
      BY <1>4, <2>4, <3>2, QuietStepIs
    <3> DEFINE cc == With(c, c.stack)
    <3>5. IsMachine(cc) /\ cc.pc = c.pc + 1 /\ cc.ext = 0 /\ cc.stack = c.stack /\ cc.out = c.out
      BY <1>1, WithIs
    <3> HIDE DEF cc
    <3>6. Alike(h, t, all, ns, mm, cc)
      BY <2>7, <3>1, <3>5
    <3>7. QED
      BY <2>5, <3>3, <3>4, <3>6 DEF mm, cc
  <2>10. QED
    BY <2>8, <2>9
<1>9. CASE Inside(h, t, all, ns, m, c, k)
  <2>1. PICK j \in 0..all[k].ext :
            At2(h, t, all, ns, m, c, k, j)
    BY <1>9 DEF Inside
  <2>2. all[k].op \in Known /\ all[k].ext \in 0..2
    BY <1>3, <1>9 DEF Inside, SameUnits
  <2>3. CASE j < all[k].ext
    BY <1>1, <1>6, <2>1, <2>2, <2>3
  <2>4. CASE j = all[k].ext
    BY <1>1, <1>7, <2>1, <2>2, <2>4
  <2>5. QED
    BY <2>2, <2>3, <2>4
<1>10. QED
  BY <1>1, <1>2, <1>8, <1>9
(* Effects *)

LEMMA SameEffect ==
    ASSUME NEW h, NEW t, NEW m, NEW c, h.names = t.names, m.stack = c.stack, ~Ended(m), ~Ended(c),
           NEW op \in EffectOps, UnitAt(h, m).op = op, UnitAt(t, c).op = op,
           op \notin Jumps => ArgAt(h, m) = ArgAt(t, c)
    PROVE  /\ Effect(h, m) = Effect(t, c)
           /\ Operands(op, ArgAt(h, m)) = Operands(op, ArgAt(t, c))
           /\ op = "RETURN_VALUE" => Effect(h, m) # <<>>
<1>1. \A n : Peek(m, n) = Peek(c, n) /\ Tops(m, n) = Tops(c, n)
  BY DEF Peek, Tops
<1>2. op \in {"FOR_ITER", "POP_JUMP_IF_FALSE"} \/ ArgAt(h, m) = ArgAt(t, c)
  BY DEF Jumps, Backward, EffectOps, CallOps
<1>3. Operands(op, ArgAt(h, m)) = Operands(op, ArgAt(t, c))
  BY <1>2 DEF Operands
<1>4. op = "RETURN_VALUE" => Effect(h, m) # <<>>
  <2>1. op = "RETURN_VALUE" => Effect(h, m) = <<"return", Peek(m, 1)>>
    BY DEF Effect
  <2>2. \A x : <<"return", x>> # <<>>
    OBVIOUS
  <2>3. QED
    BY <2>1, <2>2

<1>5. CASE op = "STORE_NAME"
  BY <1>1, <1>2, <1>5 DEF Effect
<1>6. CASE op = "STORE_FAST"
  BY <1>1, <1>2, <1>6 DEF Effect
<1>7. CASE op = "BINARY_OP"
  BY <1>1, <1>2, <1>7 DEF Effect
<1>8. CASE op = "BINARY_SLICE"
  BY <1>1, <1>2, <1>8 DEF Effect
<1>9. CASE op = "CALL"
  BY <1>1, <1>2, <1>9 DEF Effect
<1>10. CASE op = "CALL_FUNCTION_EX"
  BY <1>1, <1>2, <1>10 DEF Effect
<1>11. CASE op = "CALL_INTRINSIC_1"
  BY <1>1, <1>2, <1>11 DEF Effect
<1>12. CASE op = "GET_ITER"
  BY <1>1, <1>2, <1>12 DEF Effect
<1>13. CASE op = "FOR_ITER"
  <2>1. Effect(h, m) = <<"next", Peek(m, 1)>>
    BY <1>13 DEF Effect
  <2>2. Effect(t, c) = <<"next", Peek(c, 1)>>
    BY <1>13 DEF Effect
  <2>3. QED
    BY <1>1, <1>3, <1>4, <2>1, <2>2
<1>14. CASE op = "POP_JUMP_IF_FALSE"
  <2>1. Effect(h, m) = <<"test", Peek(m, 1)>>
    BY <1>14 DEF Effect
  <2>2. Effect(t, c) = <<"test", Peek(c, 1)>>
    BY <1>14 DEF Effect
  <2>3. QED
    BY <1>1, <1>3, <1>4, <2>1, <2>2
<1>15. CASE op = "RETURN_VALUE"
  BY <1>1, <1>2, <1>15 DEF Effect
<1>16. QED
  BY <1>3, <1>4, <1>5, <1>6, <1>7, <1>8, <1>9, <1>10, <1>11, <1>12, <1>13, <1>14, <1>15 DEF EffectOps, CallOps
LEMMA SameSettled ==
    ASSUME NEW h, NEW t, NEW all, NEW ns, NEW na, SameLayout(h, t, all, ns, na),
           NEW m, NEW c, Alike(h, t, all, ns, m, c), Settled(h, m)
    PROVE  /\ Settled(t, c) /\ Effect(h, m) = Effect(t, c) /\ (Ended(m) <=> Ended(c))
           /\ ~Ended(m) =>
                \E k \in 1..Len(all) :
                   /\ Here(h, t, all, ns, na, m, c, k, all[k].ext) /\ all[k].op \in EffectOps
                   /\ UnitAt(h, m).op = all[k].op /\ UnitAt(t, c).op = all[k].op
                   /\ all[k].op \notin Jumps => ArgAt(h, m) = ArgAt(t, c)
<1>1. IsMachine(m) /\ IsMachine(c) /\ m.stack = c.stack /\ m.out = c.out /\ (Ended(m) <=> Ended(c))
  BY DEF Alike, Ended
<1>2. CASE Ended(m)
  BY <1>1, <1>2 DEF Settled, Effect
<1>3. CASE ~Ended(m)
  <2>1. ~Quiet(h, m)
    BY <1>3 DEF Settled
  <2>2. UnitAt(h, m).op \in EffectOps
    BY <2>1, QuietIs
  <2>3. PICK k \in 1..Len(all) : Inside(h, t, all, ns, m, c, k) \/ Behind(all, ns, m, c, k)
    BY <1>3 DEF Alike, Ended
  <2>4. SameUnits(h, t, all, ns, na, k)
    BY DEF SameLayout
  <2>5. "CACHE" \notin EffectOps /\ "EXTENDED_ARG" \notin EffectOps
    BY DEF EffectOps, CallOps
  <2>6. ~Behind(all, ns, m, c, k)
    <3>1. SUFFICES ASSUME Behind(all, ns, m, c, k) PROVE UnitAt(h, m).op = "CACHE"
      BY <2>2, <2>5
    <3>2. m.pc \in (all[k].start + all[k].ext + 1)..(all[k].end - 1)
      BY <3>1 DEF Behind
    <3>3. QED
      BY <2>4, <3>2 DEF SameUnits, UnitAt, UnitOf
  <2>7. PICK j \in 0..all[k].ext : At2(h, t, all, ns, m, c, k, j)
    BY <2>3, <2>6 DEF Inside
  <2>8. all[k].ext \in 0..2 /\ (all[k].op \notin Jumps => na[k] = all[k].arg)
    BY <2>4 DEF SameUnits
  <2>9. Here(h, t, all, ns, na, m, c, k, j)
    BY <2>3, <2>6, <2>7 DEF Here, Inside
  <2>10. j = all[k].ext
    <3>1. ~(j < all[k].ext)
      BY <2>2, <2>5, <2>9, AlikeInside
    <3>2. QED
      BY <2>8, <3>1
  <2>11. /\ UnitAt(h, m).op = all[k].op /\ UnitAt(t, c).op = all[k].op
         /\ ArgAt(h, m) = all[k].arg /\ ArgAt(t, c) = na[k]
    BY <2>9, <2>10, AlikeInside
  <2>12. all[k].op \notin Jumps => ArgAt(h, m) = ArgAt(t, c)
    BY <2>8, <2>11
  <2>13. Settled(t, c)
    <3>1. CASE all[k].op = "CALL"
      <4>1. Peek(m, ArgAt(h, m) + 2) = Peek(c, ArgAt(t, c) + 2)
        BY <1>1, <2>12, <3>1 DEF Peek, Jumps, Backward
      <4>2. QED
        BY <2>1, <2>11, <3>1, <4>1, QuietIs DEF Settled
    <3>2. CASE all[k].op # "CALL"
      BY <2>2, <2>11, <3>2, QuietIs DEF Settled
    <3>3. QED
      BY <3>1, <3>2
  <2>14. Effect(h, m) = Effect(t, c)
    <3> DEFINE op == all[k].op
    <3>1. h.names = t.names /\ ~Ended(c) /\ op \in EffectOps /\ UnitAt(h, m).op = op /\ UnitAt(t, c).op = op
      BY <1>1, <1>3, <2>2, <2>11 DEF SameLayout
    <3>2. op \notin Jumps => ArgAt(h, m) = ArgAt(t, c)
      BY <2>12
    <3> HIDE DEF op
    <3>3. QED
      BY <1>1, <1>3, <3>1, <3>2, SameEffect
  <2>15. QED
    BY <1>1, <1>3, <2>2, <2>9, <2>10, <2>11, <2>12, <2>13, <2>14
<1>4. QED
  BY <1>2, <1>3

Remaining(obj, m) == Drop(m, Operands(UnitAt(obj, m).op, ArgAt(obj, m)))
Raised(effect) == <<"exception", effect>>
RaisedAt(obj, m, b) == m.pc + (IF UnitAt(obj, m).op \in CallOps THEN b ELSE 0)

\* What becomes of an effect.
LEMMA PerformIs ==
    ASSUME NEW h, NEW m, NEW b, NEW o, UnitAt(h, m).op \in EffectOps, o \in Outcomes(h, m)
    PROVE  \/ /\ o = "raise"
              /\ Perform(h, m, o, b) = Raise(h, Holding(m, Remaining(h, m)), Raised(Effect(h, m)),
                                             RaisedAt(h, m, b))
           \/ /\ o = "false" /\ UnitAt(h, m).op = "POP_JUMP_IF_FALSE"
              /\ Perform(h, m, o, b) = GoTo(m, Remaining(h, m), JumpTo(h, m))
           \/ /\ o = "end" /\ UnitAt(h, m).op = "FOR_ITER"
              /\ Perform(h, m, o, b) = GoTo(m, Remaining(h, m), JumpTo(h, m) + 1)
           \/ /\ o = "done" /\ UnitAt(h, m).op = "RETURN_VALUE"
              /\ Perform(h, m, o, b) = Stopped(m, Effect(h, m))
           \/ /\ o \in {"done", "true"} /\ UnitAt(h, m).op \in {"STORE_NAME", "STORE_FAST", "POP_JUMP_IF_FALSE"}
              /\ Perform(h, m, o, b) = With(m, Remaining(h, m))
           \/ /\ o = "done" /\ UnitAt(h, m).op \notin {"STORE_NAME", "STORE_FAST", "POP_JUMP_IF_FALSE", "RETURN_VALUE"}
              /\ Perform(h, m, o, b) = With(m, Append(Remaining(h, m), <<"result", Effect(h, m)>>))
<1> DEFINE op == UnitAt(h, m).op
<1>1. /\ op = "POP_JUMP_IF_FALSE" => o \in {"true", "false"}
      /\ op = "FOR_ITER" => o \in {"done", "end"}
      /\ op \in {"STORE_NAME", "STORE_FAST", "RETURN_VALUE"} => o = "done"
      /\ op \notin {"POP_JUMP_IF_FALSE", "FOR_ITER", "STORE_NAME", "STORE_FAST", "RETURN_VALUE"} =>
            o \in {"done", "raise"}
  BY DEF Outcomes
<1>2. CASE o = "raise"
  <2>1. Perform(h, m, o, b) = Raise(h, Holding(m, Remaining(h, m)), Raised(Effect(h, m)),
                                    m.pc + (IF op \in {"CALL", "CALL_FUNCTION_EX"} THEN b ELSE 0))
    BY <1>2 DEF Perform, Remaining, Raised
  <2>3. Perform(h, m, o, b) = Raise(h, Holding(m, Remaining(h, m)), Raised(Effect(h, m)),
                                    m.pc + (IF op \in CallOps THEN b ELSE 0))
    BY <2>1, Zenon DEF CallOps
  <2>4. Perform(h, m, o, b) = Raise(h, Holding(m, Remaining(h, m)), Raised(Effect(h, m)),
                                    RaisedAt(h, m, b))
    BY <2>3, Zenon DEF RaisedAt
  <2>2. QED
    BY <1>2, <2>4
<1>3. CASE o = "false"
  <2>1. op = "POP_JUMP_IF_FALSE"
    BY <1>1, <1>3
  <2>2. Perform(h, m, o, b) = GoTo(m, Remaining(h, m), JumpTo(h, m))
    BY <1>3 DEF Perform, Remaining
  <2>3. QED
    BY <1>3, <2>1, <2>2
<1>4. CASE o = "end"
  BY <1>1, <1>4 DEF Perform, Remaining
<1>5. CASE o \in {"done", "true"} /\ op = "RETURN_VALUE"
  BY <1>1, <1>5 DEF Perform
<1>6. CASE o \in {"done", "true"} /\ op \in {"STORE_NAME", "STORE_FAST", "POP_JUMP_IF_FALSE"}
  BY <1>6 DEF Perform, Remaining
<1>7. CASE o \in {"done", "true"} /\ op \notin {"STORE_NAME", "STORE_FAST", "POP_JUMP_IF_FALSE", "RETURN_VALUE"}
  BY <1>1, <1>7 DEF Perform, Remaining
<1>8. QED
  BY <1>1, <1>2, <1>3, <1>4, <1>5, <1>6, <1>7

LEMMA RaiseIs ==
    ASSUME NEW h, NEW m, NEW b, UnitAt(h, m).op \in EffectOps, "raise" \in Outcomes(h, m)
    PROVE  Perform(h, m, "raise", b) =
                Raise(h, Holding(m, Remaining(h, m)), Raised(Effect(h, m)), RaisedAt(h, m, b))
<1> DEFINE o == "raise"
<1>1. o \in Outcomes(h, m) /\ o # "false" /\ o # "end" /\ o \notin {"done", "true"}
  OBVIOUS
<1> HIDE DEF o
<1>2. Perform(h, m, o, b) = Raise(h, Holding(m, Remaining(h, m)), Raised(Effect(h, m)), RaisedAt(h, m, b))
  BY <1>1, PerformIs
<1>3. QED
  BY <1>2 DEF o
\* The effect turns out the same way for both: they stay alike.
LEMMA SamePerform ==
    ASSUME NEW h, NEW t, NEW all, NEW ns, NEW na, SameLayout(h, t, all, ns, na),
           NEW m, NEW c, Alike(h, t, all, ns, m, c), ~Ended(m), Settled(h, m),
           NEW o, o \in Outcomes(h, m), o \in Outcomes(t, c)
    PROVE  Alike(h, t, all, ns, Perform(h, m, o, 0), Perform(t, c, o, 1))
<1>1. IsMachine(m) /\ IsMachine(c) /\ m.stack = c.stack /\ m.out = c.out /\ ~Ended(c)
  BY DEF Alike, Ended
<1>2. PICK k \in 1..Len(all) :
          /\ Here(h, t, all, ns, na, m, c, k, all[k].ext) /\ all[k].op \in EffectOps
          /\ UnitAt(h, m).op = all[k].op /\ UnitAt(t, c).op = all[k].op
          /\ all[k].op \notin Jumps => ArgAt(h, m) = ArgAt(t, c)
  BY SameSettled
<1> DEFINE op == all[k].op
           effect == Effect(h, m)
           rest == Remaining(h, m)
<1>3. op \in EffectOps /\ UnitAt(h, m).op = op /\ UnitAt(t, c).op = op /\ op \in Known
  BY <1>2 DEF Known
<1>4. /\ Effect(t, c) = effect /\ Operands(op, ArgAt(h, m)) = Operands(op, ArgAt(t, c))
      /\ op = "RETURN_VALUE" => effect # <<>>
  <2>1. op \notin Jumps => ArgAt(h, m) = ArgAt(t, c)
    BY <1>2
  <2>2. h.names = t.names
    BY DEF SameLayout
  <2> HIDE DEF op
  <2>3. QED
    BY <1>1, <1>3, <2>1, <2>2, SameEffect
<1>5. Remaining(t, c) = rest
  BY <1>1, <1>3, <1>4 DEF Remaining, Drop
<1>6. m.pc = all[k].start + all[k].ext /\ c.pc = ns[k] + all[k].ext
  BY <1>2 DEF Here, At2
<1>7. all[k].start \in Nat /\ ns[k] \in Nat /\ all[k].ext \in 0..2
  BY DEF SameLayout, SameUnits
<1> HIDE DEF op, effect, rest
<1>8. CASE o = "raise"
  <2> DEFINE u == RaisedAt(h, m, 0)
             v == RaisedAt(t, c, 1)
             mm == Holding(m, rest)
             cc == Holding(c, rest)
             x == Raised(effect)
  <2>1. Perform(h, m, o, 0) = Raise(h, mm, x, u)
    BY <1>3, <1>8, RaiseIs DEF rest, effect
  <2>2. Perform(t, c, o, 1) = Raise(t, cc, x, v)
    BY <1>3, <1>4, <1>5, <1>8, RaiseIs
  <2>3. IsMachine(mm) /\ mm.stack = rest /\ mm.out = m.out
    BY <1>1, HoldsIs
  <2>4. IsMachine(cc) /\ cc.stack = rest /\ cc.out = c.out
    BY <1>1, HoldsIs
  <2>5. u = all[k].start + all[k].ext /\ v = IF op \in CallOps THEN ns[k] + all[k].ext + 1 ELSE ns[k] + all[k].ext
    BY <1>3, <1>6, <1>7 DEF RaisedAt
  <2> HIDE DEF mm, cc, x, u, v
  <2>6. \A e \in DOMAIN h.exc : Covers(h.exc[e], u) <=> Covers(t.exc[e], v)
    BY <2>5 DEF SameLayout, SameHandler, op
  <2>7. Alike(h, t, all, ns, Raise(h, mm, x, u), Raise(t, cc, x, v))
    BY <1>1, <2>3, <2>4, <2>6, SameRaise
  <2>8. QED
    BY <2>1, <2>2, <2>7
<1>9. CASE o \in {"false", "end"}
  <2>1. op \in {"POP_JUMP_IF_FALSE", "FOR_ITER"} /\ (op = "FOR_ITER" <=> o = "end")
    BY <1>3, <1>9, PerformIs
  <2>2. op \in Jumps \cap Known
    BY <1>3, <2>1 DEF Jumps
  <2>3. PICK b \in 1..Len(all) :
              /\ JumpTo(h, m) = all[b].start /\ JumpTo(t, c) = ns[b]
              /\ op # "FOR_ITER" => all[b].op \in Known
              /\ op = "FOR_ITER" => /\ b + 1 \in 1..Len(all) /\ all[b + 1].op \in Known
                                    /\ all[b + 1].start = all[b].start + 1
                                    /\ ns[b + 1] = ns[b] + 1
    <3>1. At2(h, t, all, ns, m, c, k, all[k].ext)
      BY <1>2 DEF Here
    <3>2. QED
      BY <2>2, <3>1, SameJump DEF op
  <2> DEFINE d == IF op = "FOR_ITER" THEN b + 1 ELSE b
             p == IF op = "FOR_ITER" THEN JumpTo(h, m) + 1 ELSE JumpTo(h, m)
             q == IF op = "FOR_ITER" THEN JumpTo(t, c) + 1 ELSE JumpTo(t, c)
             mm == GoTo(m, rest, p)
             cc == GoTo(c, rest, q)
  <2>4. d \in 1..Len(all) /\ all[d].op \in Known /\ p = all[d].start /\ q = ns[d]
    BY <2>3
  <2>5. Perform(h, m, o, 0) = mm
    BY <1>3, <1>9, <2>1, PerformIs DEF rest
  <2>6. Perform(t, c, o, 1) = cc
    BY <1>3, <1>5, <1>9, <2>1, PerformIs
  <2> HIDE DEF d, p, q
  <2>7. IsMachine(mm) /\ mm.pc = p /\ mm.ext = 0 /\ mm.stack = rest /\ mm.out = m.out
    BY <1>1, WentIs
  <2>8. IsMachine(c)
    BY <1>1
  <2>9. IsMachine(cc) /\ cc.pc = q /\ cc.ext = 0 /\ cc.stack = rest /\ cc.out = c.out
    BY ONLY <2>8, WentIs
  <2> HIDE DEF mm, cc
  <2>10. Alike(h, t, all, ns, mm, cc)
    BY <1>1, <2>4, <2>7, <2>9, AlikeAt
  <2>11. QED
    BY <2>5, <2>6, <2>10
<1>10. CASE o \in {"done", "true"} /\ op = "RETURN_VALUE"
  <2>1. Perform(h, m, o, 0) = Stopped(m, effect)
    BY <1>3, <1>10, PerformIs DEF effect
  <2>2. Perform(t, c, o, 1) = Stopped(c, effect)
    BY <1>3, <1>4, <1>10, PerformIs
  <2>3. IsMachine(Stopped(m, effect)) /\ Stopped(m, effect).out = effect /\ Stopped(m, effect).stack = m.stack
    BY <1>1, EndedIs
  <2>4. IsMachine(c)
    BY <1>1
  <2>5. IsMachine(Stopped(c, effect)) /\ Stopped(c, effect).out = effect /\ Stopped(c, effect).stack = c.stack
    BY ONLY <2>4, EndedIs
  <2>6. QED
    BY <1>1, <1>4, <1>10, <2>1, <2>2, <2>3, <2>5 DEF Alike
<1>11. CASE o \in {"done", "true"} /\ op # "RETURN_VALUE"
  <2> DEFINE s == IF op \in {"STORE_NAME", "STORE_FAST", "POP_JUMP_IF_FALSE"} THEN rest
                  ELSE Append(rest, <<"result", effect>>)
             mm == With(m, s)
             cc == With(c, s)
  <2>1. Perform(h, m, o, 0) = mm
    BY <1>3, <1>11, PerformIs DEF rest, effect
  <2>2. Perform(t, c, o, 1) = cc
    BY <1>3, <1>4, <1>5, <1>11, PerformIs
  <2> HIDE DEF s
  <2>3. IsMachine(mm) /\ mm.pc = m.pc + 1 /\ mm.ext = 0 /\ mm.stack = s /\ mm.out = m.out
    BY <1>1, WithIs
  <2>4. IsMachine(c)
    BY <1>1
  <2>5. IsMachine(cc) /\ cc.pc = c.pc + 1 /\ cc.ext = 0 /\ cc.stack = s /\ cc.out = c.out
    BY ONLY <2>4, WithIs
  <2> HIDE DEF mm, cc
  <2>6. op \in Known \ Final
    BY <1>3, <1>11 DEF Final, EffectOps, CallOps, Known
  <2>7. mm.pc = all[k].start + all[k].ext + 1 /\ cc.pc = ns[k] + all[k].ext + 1
    BY <1>6, <2>3, <2>5
  <2>8. Alike(h, t, all, ns, mm, cc)
    BY <1>1, <2>3, <2>5, <2>6, <2>7, AlikeBehind DEF op
  <2>9. QED
    BY <2>1, <2>2, <2>8
<1>12. QED
  BY <1>3, <1>8, <1>9, <1>10, <1>11, PerformIs
(* Runs from effect to effect *)

Onward(obj, m) == IF Settled(obj, m) THEN m ELSE QuietStep(obj, m)

\* Settle is the last of eighty machines, each the next of the one before.
LEMMA SettleIs ==
    ASSUME NEW obj, NEW from
    PROVE  \E r : /\ r[0] = from /\ \A k \in 1..80 : r[k] = Onward(obj, r[k - 1])
                  /\ Settle(obj, from) = r[80]
<1> DEFINE Body(g) == [k \in 0..80 |-> IF k = 0 THEN from ELSE Onward(obj, g[k - 1])]
           f == CHOOSE g : g = Body(g)
           Begun(g, n) == g[0] = from /\ \A k \in 1..n : g[k] = Onward(obj, g[k - 1])
           S == {n \in 0..80 : \E g : Begun(g, n)}
<1>1. Settle(obj, from) = f[80]
  BY DEF Settle, Onward, Settled
<1>2. 80 \in S
  <2>1. 0 \in S
    <3> DEFINE l == [k \in {0} |-> from]
    <3>1. Begun(l, 0)
      OBVIOUS
    <3> HIDE DEF l
    <3>2. QED
      BY <3>1
  <2>2. ASSUME NEW n \in 0..79, n \in S PROVE n + 1 \in S
    <3>1. PICK g : Begun(g, n)
      BY <2>2
    <3> DEFINE l == [k \in 0..(n + 1) |-> IF k = n + 1 THEN Onward(obj, g[n]) ELSE g[k]]
    <3>2. l[0] = from
      BY <3>1
    <3>3. ASSUME NEW k \in 1..(n + 1) PROVE l[k] = Onward(obj, l[k - 1])
      <4>1. k - 1 \in 0..(n + 1) /\ k - 1 # n + 1 /\ l[k - 1] = g[k - 1] /\ k \in 0..(n + 1)
        OBVIOUS
      <4>2. CASE k = n + 1
        <5>1. l[k] = Onward(obj, g[n]) /\ k - 1 = n
          BY <4>1, <4>2
        <5>2. QED
          BY <4>1, <5>1
      <4>3. CASE k # n + 1
        <5>1. l[k] = g[k] /\ k \in 1..n
          BY <4>1, <4>3
        <5>2. QED
          BY <3>1, <4>1, <5>1
      <4>4. QED
        BY <4>2, <4>3
    <3> HIDE DEF l
    <3>4. Begun(l, n + 1)
      BY <3>2, <3>3
    <3>5. QED
      BY <3>4
  <2> HIDE DEF S
  <2>3. 0..80 \subseteq S
    <3>1. \A d \in 0..80 - 1 : d \in S => d + 1 \in S
      BY <2>2
    <3>2. QED
      BY ONLY <2>1, <3>1, CountUp
  <2>4. QED
    BY <2>3
<1>3. PICK g : Begun(g, 80)
  BY <1>2
<1> DEFINE l == [k \in 0..80 |-> g[k]]
<1>4. l = Body(l)
  <2>1. \A k \in 0..80 : l[k] = IF k = 0 THEN from ELSE Onward(obj, l[k - 1])
    <3>1. SUFFICES ASSUME NEW k \in 0..80 PROVE l[k] = IF k = 0 THEN from ELSE Onward(obj, l[k - 1])
      OBVIOUS
    <3>2. CASE k = 0
      BY <1>3, <3>2
    <3>3. CASE k # 0
      <4>1. k \in 1..80 /\ k - 1 \in 0..80
        BY <3>3
      <4>2. l[k - 1] = g[k - 1] /\ l[k] = g[k] /\ g[k] = Onward(obj, g[k - 1])
        BY <1>3, <4>1
      <4>3. QED
        BY <3>3, <4>2
    <3>4. QED
      BY <3>2, <3>3
  <2>2. l = [k \in 0..80 |-> l[k]]
    OBVIOUS
  <2> HIDE DEF l
  <2>3. QED
    BY <2>1, <2>2
<1>5. f = Body(f)
  <2> HIDE DEF Body, l
  <2>1. QED
    BY <1>4
<1>6. f[0] = from /\ \A k \in 1..80 : f[k] = Onward(obj, f[k - 1])
  <2> HIDE DEF f
  <2>1. \A k \in 0..80 : f[k] = IF k = 0 THEN from ELSE Onward(obj, f[k - 1])
    BY <1>5
  <2>2. QED
    BY <2>1
<1> HIDE DEF f
<1>7. QED
  BY <1>1, <1>6

\* Alike machines are alike at their next effects.
LEMMA SameSettle ==
    ASSUME NEW h, NEW t, NEW all, NEW ns, NEW na, SameLayout(h, t, all, ns, na),
           NEW m, NEW c, Alike(h, t, all, ns, m, c), Settled(h, Settle(h, m))
    PROVE  Alike(h, t, all, ns, Settle(h, m), Settle(t, c))
<1>1. PICK r : r[0] = m /\ (\A k \in 1..80 : r[k] = Onward(h, r[k - 1])) /\ Settle(h, m) = r[80]
  BY SettleIs
<1>2. PICK q : q[0] = c /\ (\A k \in 1..80 : q[k] = Onward(t, q[k - 1])) /\ Settle(t, c) = q[80]
  BY SettleIs
<1>3. \A k \in 0..79 : r[k + 1] = Onward(h, r[k]) /\ q[k + 1] = Onward(t, q[k])
  <2>1. ASSUME NEW k \in 0..79 PROVE r[k + 1] = Onward(h, r[k]) /\ q[k + 1] = Onward(t, q[k])
    <3>1. k + 1 \in 1..80 /\ (k + 1) - 1 = k
      OBVIOUS
    <3>2. QED
      BY <1>1, <1>2, <3>1
  <2>2. QED
    BY <2>1
<1> DEFINE S == {n \in 0..80 : \E j \in 0..n : Alike(h, t, all, ns, r[n], q[j])}
<1>4. 0..80 \subseteq S
  <2>1. 0 \in S
    BY <1>1, <1>2
  <2>2. ASSUME NEW n \in 0..79, n \in S PROVE n + 1 \in S
    <3>1. PICK j \in 0..n : Alike(h, t, all, ns, r[n], q[j])
      BY <2>2
    <3>2. r[n + 1] = Onward(h, r[n]) /\ q[j + 1] = Onward(t, q[j])
      BY <1>3
    <3>3. CASE Settled(h, r[n])
      BY <3>1, <3>2, <3>3 DEF Onward
    <3>4. CASE ~Settled(h, r[n])
      <4>1. ~Ended(r[n]) /\ Quiet(h, r[n]) /\ r[n + 1] = QuietStep(h, r[n])
        BY <3>2, <3>4 DEF Onward, Settled
      <4>2. \/ Alike(h, t, all, ns, r[n + 1], q[j])
            \/ Quiet(t, q[j]) /\ ~Ended(q[j]) /\ Alike(h, t, all, ns, r[n + 1], QuietStep(t, q[j]))
        BY <3>1, <4>1, SameQuietStep
      <4>3. Quiet(t, q[j]) /\ ~Ended(q[j]) => q[j + 1] = QuietStep(t, q[j])
        BY <3>2 DEF Onward, Settled
      <4>4. j \in 0..(n + 1) /\ j + 1 \in 0..(n + 1)
        OBVIOUS
      <4>5. \E i \in 0..(n + 1) : Alike(h, t, all, ns, r[n + 1], q[i])
        BY <4>2, <4>3, <4>4
      <4>6. QED
        BY <4>5
    <3>5. QED
      BY <3>3, <3>4
  <2> HIDE DEF S
  <2>3. \A d \in 0..80 - 1 : d \in S => d + 1 \in S
    BY <2>2
  <2>4. QED
    BY ONLY <2>1, <2>3, CountUp
<1>5. PICK j \in 0..80 : Alike(h, t, all, ns, r[80], q[j])
  <2>1. 80 \in S
    <3> HIDE DEF S
    <3>1. QED
      BY <1>4
  <2>2. QED
    BY <2>1
<1>6. Settled(t, q[j])
  <2> DEFINE a == r[80]
             b == q[j]
  <2>1. Alike(h, t, all, ns, a, b) /\ Settled(h, a)
    BY <1>1, <1>5
  <2> HIDE DEF a, b
  <2>2. Settled(t, b)
    BY <2>1, SameSettled
  <2>3. QED
    BY <2>2 DEF b
<1> DEFINE T == {i \in 0..80 : i < j \/ q[i] = q[j]}
<1>7. 0..80 \subseteq T
  <2>1. 0 \in T
    OBVIOUS
  <2>2. ASSUME NEW i \in 0..79, i \in T PROVE i + 1 \in T
    <3>1. CASE i + 1 <= j
      BY <3>1
    <3>2. CASE i + 1 > j
      <4>1. q[i] = q[j] /\ q[i + 1] = Onward(t, q[i])
        BY <1>3, <2>2, <3>2
      <4>2. QED
        BY <1>6, <4>1 DEF Onward
    <3>3. QED
      BY <3>1, <3>2
  <2> HIDE DEF T
  <2>3. \A d \in 0..80 - 1 : d \in T => d + 1 \in T
    BY <2>2
  <2>4. QED
    BY ONLY <2>1, <2>3, CountUp
<1>8. q[80] = q[j]
  BY <1>7
<1>9. QED
  BY <1>1, <1>2, <1>5, <1>8
-----------------------------------------------------------------------------
(* The instructions of well-formed code *)

IsInstruction(code, i) ==
    /\ i.start \in 0..(Len(code) - 1) /\ i.ext \in 0..2 /\ Complete(code, i.start, i.ext)
    /\ i.op = At(code, i.start + i.ext).op /\ i.arg = Folded(code, i.start, i.ext)
    /\ i.end = i.start + i.ext + 1 + CacheUnits(i.op) /\ i.end \in (i.start + 1)..Len(code)

LEMMA InstructionAtIs ==
    ASSUME NEW code, WellFormed(code), NEW p \in 0..(Len(code) - 1)
    PROVE  IsInstruction(code, InstructionAt(code, p)) /\ InstructionAt(code, p).start = p
<1>1. Len(code) \in Nat
  BY DEF WellFormed
<1>2. PICK n \in 0..2 : Complete(code, p, n)
  BY DEF WellFormed
<1>3. PrefixCount(code, p) = n
  <2> DEFINE P(k) == /\ At(code, p + k).op # "EXTENDED_ARG"
                     /\ \A j \in 0..(k - 1) : At(code, p + j).op = "EXTENDED_ARG"
  <2>1. P(n)
    BY <1>2 DEF Complete
  <2>2. ASSUME NEW k \in 0..3, P(k) PROVE k = n
    <3>1. CASE k < n
      <4>1. k \in 0..(n - 1)
        BY <3>1
      <4>2. QED
        BY <2>1, <2>2, <4>1
    <3>2. CASE k > n
      <4>1. n \in 0..(k - 1)
        BY <3>2
      <4>2. QED
        BY <2>1, <2>2, <4>1
    <3>3. QED
      BY <3>1, <3>2
  <2>3. PrefixCount(code, p) = CHOOSE k \in 0..3 : P(k)
    BY DEF PrefixCount
  <2> HIDE DEF P
  <2>4. QED
    BY <2>1, <2>2, <2>3
<1> DEFINE op == At(code, p + n).op
           i == InstructionAt(code, p)
<1>4. i = [start |-> p, ext |-> n, op |-> op, arg |-> Folded(code, p, n), end |-> p + n + 1 + CacheUnits(op)]
  BY <1>3 DEF InstructionAt
<1> HIDE DEF i
<1>5. CacheUnits(op) \in 0..5
  BY CacheUnitsIs
<1>6. p + n + 1 + CacheUnits(op) \in (p + 1)..Len(code)
  <2>1. p + n + 1 + CacheUnits(op) <= Len(code)
    BY <1>2 DEF Complete
  <2> HIDE DEF op
  <2>2. QED
    BY <1>1, <1>5, <2>1
<1>7. i.start = p /\ i.ext = n /\ i.op = op /\ i.arg = Folded(code, p, n) /\ i.end = p + n + 1 + CacheUnits(op)
  BY <1>4
<1> HIDE DEF op
<1>8. IsInstruction(code, i)
  <2>1. i.op = At(code, i.start + i.ext).op
    BY <1>7 DEF op
  <2>2. QED
    BY <1>2, <1>6, <1>7, <2>1 DEF IsInstruction
<1>9. QED
  BY <1>7, <1>8 DEF i

\* Instructions splits well-formed code into instructions, from end to end.
AreInstructions(code, all, p) ==
    /\ Len(all) \in Nat /\ DOMAIN all = 1..Len(all)
    /\ p = Len(code) => Len(all) = 0
    /\ p < Len(code) => Len(all) > 0 /\ all[1].start = p /\ all[Len(all)].end = Len(code)
    /\ \A k \in 1..Len(all) : IsInstruction(code, all[k])
    /\ \A k \in 1..(Len(all) - 1) : all[k + 1].start = all[k].end

LEMMA InstructionsAre ==
    ASSUME NEW code, WellFormed(code)
    PROVE  AreInstructions(code, Instructions(code), 0) /\ Len(Instructions(code)) > 0
<1> DEFINE N == Len(code)
           At1(p) == InstructionAt(code, p)
           I == {i \in {At1(p) : p \in 0..(N - 1)} : TRUE}
           Body(g, p) == IF p = N THEN <<>> ELSE <<At1(p)>> \o g[At1(p).end]
           from == CHOOSE g : g = [p \in 0..N |-> Body(g, p)]
<1>1. Instructions(code) = from[0]
  BY DEF Instructions
<1>2. N = Len(code) /\ N \in Nat /\ N > 0
  BY DEF WellFormed
<1>3. ASSUME NEW p \in 0..N, p # N
      PROVE  IsInstruction(code, At1(p)) /\ At1(p).start = p /\ At1(p).end \in (p + 1)..N /\ At1(p) \in I
  <2>1. p \in 0..(N - 1)
    BY <1>2, <1>3
  <2>2. QED
    BY <2>1, InstructionAtIs DEF IsInstruction
<1> HIDE DEF At1, N
<1>4. ASSUME NEW g, NEW h, NEW p \in 0..N, \A q \in 0..N : q > p => g[q] = h[q]
      PROVE  Body(g, p) = Body(h, p)
  <2>1. CASE p = N
    BY <2>1
  <2>2. CASE p # N
    <3>1. At1(p).end \in 0..N /\ At1(p).end > p
      BY <1>2, <1>3, <2>2
    <3>2. g[At1(p).end] = h[At1(p).end]
      BY <1>4, <3>1
    <3>3. QED
      BY <2>2, <3>2
  <2>3. QED
    BY <2>1, <2>2
<1> DEFINE Fine(s, p) == s \in Seq(I) /\ AreInstructions(code, s, p)
<1>5. ASSUME NEW g, NEW p \in 0..N, \A q \in 0..N : q > p => Fine(g[q], q)
      PROVE  Fine(Body(g, p), p)
  <2>1. CASE p = N
    <3>1. Body(g, p) = <<>> /\ Len(<<>>) = 0 /\ DOMAIN <<>> = {} /\ <<>> \in Seq(I)
      BY <2>1
    <3>2. AreInstructions(code, <<>>, p)
      BY <1>2, <2>1 DEF AreInstructions
    <3>3. QED
      BY <3>1, <3>2
  <2>2. CASE p # N
    <3> DEFINE i == At1(p)
               s == g[i.end]
               r == <<i>> \o s
    <3>1. IsInstruction(code, i) /\ i.start = p /\ i.end \in (p + 1)..N /\ i \in I
      BY <1>3, <2>2
    <3> DEFINE q == i.end
    <3> HIDE DEF i, Fine
    <3>a. q \in 0..N /\ q > p
      <4> HIDE DEF q
      <4>1. q \in (p + 1)..N
        BY <3>1 DEF q
      <4>2. QED
        BY <1>2, <4>1
    <3>2. Fine(s, i.end)
      <4> HIDE DEF q
      <4>1. Fine(g[q], q)
        BY <1>5, <3>a
      <4>2. QED
        BY <4>1 DEF q
    <3> USE DEF Fine
    <3>3. Body(g, p) = r
      BY <2>2 DEF i
    <3> HIDE DEF s, I
    <3>4. <<i>> \in Seq(I) /\ Len(<<i>>) = 1 /\ <<i>>[1] = i
      BY <3>1
    <3>5. /\ r \in Seq(I) /\ Len(r) = 1 + Len(s) /\ r[1] = i
          /\ Len(s) \in Nat /\ DOMAIN r = 1..(1 + Len(s))
          /\ \A k \in 1..Len(s) : r[k + 1] = s[k]
      <4>1. s \in Seq(I) /\ Len(s) \in Nat
        BY <3>2
      <4>2. /\ r \in Seq(I) /\ Len(r) = Len(<<i>>) + Len(s)
            /\ \A k \in 1..Len(<<i>>) + Len(s) : r[k] = IF k <= Len(<<i>>) THEN <<i>>[k] ELSE s[k - Len(<<i>>)]
        BY <3>4, <4>1, ConcatProperties
      <4> HIDE DEF r
      <4>3. Len(r) = 1 + Len(s) /\ DOMAIN r = 1..Len(r)
        BY <3>4, <4>2, LenProperties
      <4>4. r[1] = i
        BY <3>4, <4>1, <4>2
      <4>5. \A k \in 1..Len(s) : r[k + 1] = s[k]
        <5>1. ASSUME NEW k \in 1..Len(s) PROVE r[k + 1] = s[k]
          <6>1. k + 1 \in 1..1 + Len(s) /\ ~(k + 1 <= 1) /\ (k + 1) - 1 = k
            BY <4>1
          <6>2. QED
            BY <3>4, <4>2, <6>1
        <5>2. QED
          BY <5>1
      <4>6. QED
        BY <4>1, <4>2, <4>3, <4>4, <4>5
    <3> HIDE DEF r
    <3>6. AreInstructions(code, s, i.end)
      BY <3>2
    <3>7. \A k \in 1..Len(r) : IsInstruction(code, r[k])
      <4>1. ASSUME NEW k \in 1..Len(r) PROVE IsInstruction(code, r[k])
        <5>1. CASE k = 1
          BY <3>1, <3>5, <5>1
        <5>2. CASE k # 1
          <6>1. k - 1 \in 1..Len(s) /\ (k - 1) + 1 = k
            BY <3>5, <5>2
          <6>2. IsInstruction(code, s[k - 1]) /\ r[k] = s[k - 1]
            BY <3>5, <3>6, <6>1 DEF AreInstructions
          <6>3. QED
            BY <6>2
        <5>3. QED
          BY <5>1, <5>2
      <4>2. QED
        BY <4>1
    <3>8. \A k \in 1..(Len(r) - 1) : r[k + 1].start = r[k].end
      <4>1. ASSUME NEW k \in 1..(Len(r) - 1) PROVE r[k + 1].start = r[k].end
        <5>1. k \in 1..Len(s) /\ r[k + 1] = s[k]
          BY <3>5
        <5>2. CASE k = 1
          <6>1. i.end < N
            BY <1>2, <3>1, <3>5, <3>6, <5>1 DEF AreInstructions
          <6>2. s[1].start = i.end
            BY <1>2, <3>6, <6>1 DEF AreInstructions
          <6>3. QED
            BY <3>5, <5>1, <5>2, <6>2
        <5>3. CASE k # 1
          <6>1. k - 1 \in 1..(Len(s) - 1) /\ (k - 1) + 1 = k /\ k - 1 \in 1..Len(s)
            BY <3>5, <5>1, <5>3
          <6>2. s[k].start = s[k - 1].end /\ r[k] = s[k - 1]
            BY <3>5, <3>6, <6>1 DEF AreInstructions
          <6>3. QED
            BY <5>1, <6>2
        <5>4. QED
          BY <5>2, <5>3
      <4>2. QED
        BY <4>1
    <3>9. r[Len(r)].end = N
      <4>1. CASE Len(s) = 0
        <5>1. i.end = N
          BY <1>2, <3>1, <3>6, <4>1 DEF AreInstructions
        <5>2. Len(r) = 1
          BY <3>5, <4>1
        <5>3. QED
          BY <3>5, <5>1, <5>2
      <4>2. CASE Len(s) # 0
        <5>1. Len(s) \in 1..Len(s) /\ Len(r) = Len(s) + 1
          BY <3>5, <4>2
        <5>2. i.end < N /\ r[Len(s) + 1] = s[Len(s)]
          BY <1>2, <3>1, <3>5, <3>6, <4>2, <5>1 DEF AreInstructions
        <5>3. QED
          BY <1>2, <3>6, <5>1, <5>2 DEF AreInstructions
      <4>3. QED
        BY <4>1, <4>2
    <3>10. Len(r) \in Nat /\ Len(r) > 0 /\ DOMAIN r = 1..Len(r) /\ r[1].start = p
      BY <3>1, <3>5
    <3>11. p < N
      BY <1>2, <2>2
    <3>12. AreInstructions(code, r, p)
      BY <1>2, <3>7, <3>8, <3>9, <3>10, <3>11 DEF AreInstructions
    <3>13. QED
      BY <3>3, <3>5, <3>12
  <2>3. QED
    BY <2>1, <2>2
<1> HIDE DEF Body, Fine, I
<1>6. \E g : g = [p \in 0..N |-> Body(g, p)]
  <2> DEFINE S == {d \in 0..N : \E g : \A p \in (N - d)..N : g[p] = Body(g, p)}
  <2>1. 0 \in S
    <3> DEFINE g == [p \in {N} |-> Body(0, N)]
    <3>1. Body(g, N) = Body(0, N)
      BY <1>2, <1>4
    <3>2. \A p \in (N - 0)..N : g[p] = Body(g, p)
      BY <1>2, <3>1
    <3>3. QED
      BY <1>2, <3>2
  <2>2. ASSUME NEW d \in 0..N - 1, d \in S PROVE d + 1 \in S
    <3>1. PICK g : \A p \in (N - d)..N : g[p] = Body(g, p)
      BY <2>2
    <3> DEFINE n == N - (d + 1)
               h == [p \in n..N |-> IF p = n THEN Body(g, n) ELSE g[p]]
    <3>2. n \in 0..N /\ d + 1 \in 0..N /\ n \in Int /\ N - d = n + 1 /\ N - (d + 1) = n
      BY <1>2
    <3> HIDE DEF n
    <3>3. ASSUME NEW p \in n..N PROVE h[p] = Body(h, p)
      <4>1. p \in 0..N /\ \A q \in 0..N : q > p => g[q] = h[q]
        BY <1>2, <3>2
      <4>2. Body(g, p) = Body(h, p)
        BY <1>4, <4>1
      <4>3. p # n => p \in (N - d)..N
        BY <1>2, <3>2
      <4>4. QED
        BY <3>1, <4>2, <4>3
    <3>4. \E f : \A p \in n..N : f[p] = Body(f, p)
      BY <3>3
    <3>5. QED
      BY <3>2, <3>4
  <2> HIDE DEF S
  <2>3. 0..N \subseteq S
    BY ONLY <1>2, <2>1, <2>2, CountUp
  <2>4. N \in S
    BY <1>2, <2>3
  <2>5. PICK g : \A p \in (N - N)..N : g[p] = Body(g, p)
    BY <2>4 DEF S
  <2> DEFINE f == [p \in 0..N |-> g[p]]
  <2>6. \A p \in 0..N : f[p] = Body(f, p)
    <3>1. ASSUME NEW p \in 0..N PROVE f[p] = Body(f, p)
      <4>1. \A q \in 0..N : q > p => g[q] = f[q]
        OBVIOUS
      <4>2. Body(g, p) = Body(f, p)
        BY <1>4, <4>1
      <4>3. g[p] = Body(g, p)
        BY <1>2, <2>5
      <4>4. QED
        BY <4>2, <4>3
    <3>2. QED
      BY <3>1
  <2>7. f = [p \in 0..N |-> f[p]]
    OBVIOUS
  <2> HIDE DEF f
  <2>8. f = [p \in 0..N |-> Body(f, p)]
    BY <2>6, <2>7
  <2>9. QED
    BY <2>8
<1>7. \A p \in 0..N : from[p] = Body(from, p)
  <2>1. from = [p \in 0..N |-> Body(from, p)]
    BY <1>6
  <2> HIDE DEF from
  <2>2. QED
    BY <2>1
<1> HIDE DEF from
<1>8. Fine(from[0], 0)
  <2> DEFINE S == {d \in 0..N : \A p \in (N - d)..N : Fine(from[p], p)}
  <2>1. 0 \in S
    <3>1. Fine(Body(from, N), N)
      BY <1>2, <1>5
    <3>2. from[N] = Body(from, N)
      BY <1>2, <1>7
    <3>3. QED
      BY <1>2, <3>1, <3>2
  <2>2. ASSUME NEW d \in 0..N - 1, d \in S PROVE d + 1 \in S
    <3> DEFINE n == N - (d + 1)
    <3>1. n \in 0..N /\ d + 1 \in 0..N /\ N - d = n + 1 /\ N - (d + 1) = n
      BY <1>2
    <3> HIDE DEF n
    <3>2. Fine(Body(from, n), n)
      BY <1>2, <1>5, <2>2, <3>1
    <3>3. from[n] = Body(from, n)
      BY <1>7, <3>1
    <3>4. ASSUME NEW p \in n..N PROVE Fine(from[p], p)
      <4>1. p # n => p \in (N - d)..N
        BY <1>2, <3>1
      <4>2. QED
        BY <2>2, <3>2, <3>3, <4>1
    <3>5. QED
      BY <3>1, <3>4
  <2> HIDE DEF S
  <2>3. 0..N \subseteq S
    BY ONLY <1>2, <2>1, <2>2, CountUp
  <2>4. N \in S
    BY <1>2, <2>3
  <2>5. 0 \in (N - N)..N
    BY <1>2
  <2>6. QED
    BY <2>4, <2>5 DEF S
<1>9. QED
  BY <1>1, <1>2, <1>8 DEF Fine, AreInstructions
-----------------------------------------------------------------------------
(* Where the instructions of a layout begin *)

\* s leads from the first of n instructions to the end of the last.
Climbs(s, n) ==
    /\ \A k \in 1..(n + 1) : s[k] \in Nat
    /\ \A j \in 1..n, k \in 1..(n + 1) : j < k => s[j + 1] <= s[k]
    /\ \A k \in 1..n : s[k] < s[k + 1]

LEMMA ClimbsUp ==
    ASSUME NEW s, NEW n \in Nat, \A k \in 1..(n + 1) : s[k] \in Nat, \A k \in 1..n : s[k] < s[k + 1]
    PROVE  Climbs(s, n)
<1> DEFINE S == {d \in 0..n : \A j \in 1..n : j < d + 1 => s[j + 1] <= s[d + 1]}
<1>1. 0 \in S
  OBVIOUS
<1>2. ASSUME NEW d \in 0..n - 1, d \in S PROVE d + 1 \in S
  <2>1. d + 1 \in 0..n /\ d + 1 \in 1..n /\ (d + 1) + 1 \in 1..(n + 1) /\ d + 1 \in 1..(n + 1)
    OBVIOUS
  <2>2. s[d + 1] < s[(d + 1) + 1] /\ s[d + 1] \in Nat /\ s[(d + 1) + 1] \in Nat
    BY <2>1
  <2>3. ASSUME NEW j \in 1..n, j < (d + 1) + 1 PROVE s[j + 1] <= s[(d + 1) + 1]
    <3>1. CASE j = d + 1
      BY <2>2, <3>1
    <3>2. CASE j # d + 1
      <4>1. j < d + 1 /\ j + 1 \in 1..(n + 1)
        BY <2>3, <3>2
      <4>2. s[j + 1] <= s[d + 1] /\ s[j + 1] \in Nat
        BY <1>2, <4>1
      <4>3. QED
        BY <2>2, <4>2
    <3>3. QED
      BY <3>1, <3>2
  <2>4. QED
    BY <2>1, <2>3
<1> HIDE DEF S
<1>3. \A d \in 0..n - 1 : d \in S => d + 1 \in S
  BY <1>2
<1>4. 0..n \subseteq S
  BY ONLY <1>1, <1>3, CountUp
<1>5. ASSUME NEW j \in 1..n, NEW k \in 1..(n + 1), j < k PROVE s[j + 1] <= s[k]
  <2>1. k - 1 \in S /\ (k - 1) + 1 = k
    BY <1>4
  <2>2. QED
    BY <1>5, <2>1 DEF S
<1>6. QED
  BY <1>5 DEF Climbs

\* On the host: s[k] is where all[k] starts, and s[Len(all) + 1] the end.
HostStarts(code, all) == [k \in 1..(Len(all) + 1) |-> IF k <= Len(all) THEN all[k].start ELSE Len(code)]

LEMMA HostStartsClimb ==
    ASSUME NEW code, WellFormed(code), NEW all, AreInstructions(code, all, 0), Len(all) > 0
    PROVE  /\ Climbs(HostStarts(code, all), Len(all))
           /\ HostStarts(code, all)[1] = 0 /\ HostStarts(code, all)[Len(all) + 1] = Len(code)
           /\ \A k \in 1..Len(all) : /\ HostStarts(code, all)[k] = all[k].start
                                     /\ HostStarts(code, all)[k + 1] = all[k].end
<1> DEFINE n == Len(all)
           s == HostStarts(code, all)
<1>1. n \in Nat /\ n > 0 /\ Len(code) \in Nat /\ Len(code) > 0
  BY DEF AreInstructions, WellFormed
<1>2. /\ \A k \in 1..n : s[k] = all[k].start
      /\ s[n + 1] = Len(code)
  BY <1>1 DEF HostStarts
<1>3. \A k \in 1..n : all[k].start \in Nat /\ all[k].end \in Nat /\ all[k].start < all[k].end
  <2>1. ASSUME NEW k \in 1..n PROVE all[k].start \in Nat /\ all[k].end \in Nat /\ all[k].start < all[k].end
    <3>1. all[k].start \in 0..(Len(code) - 1) /\ all[k].end \in (all[k].start + 1)..Len(code)
      BY DEF AreInstructions, IsInstruction
    <3>2. QED
      BY <1>1, <3>1
  <2>2. QED
    BY <2>1
<1>4. /\ all[1].start = 0 /\ all[n].end = Len(code)
      /\ \A k \in 1..(n - 1) : all[k + 1].start = all[k].end
  BY <1>1 DEF AreInstructions
<1> HIDE DEF n, s
<1>5. \A k \in 1..n : s[k + 1] = all[k].end
  <2>1. ASSUME NEW k \in 1..n PROVE s[k + 1] = all[k].end
    <3>1. CASE k = n
      BY <1>2, <1>4, <3>1
    <3>2. CASE k # n
      <4>1. k \in 1..(n - 1) /\ k + 1 \in 1..n
        BY <1>1, <3>2
      <4>2. QED
        BY <1>2, <1>4, <4>1
    <3>3. QED
      BY <3>1, <3>2
  <2>2. QED
    BY <2>1
<1>6. \A k \in 1..(n + 1) : s[k] \in Nat
  <2>1. ASSUME NEW k \in 1..(n + 1) PROVE s[k] \in Nat
    <3>1. k = n + 1 \/ k \in 1..n
      BY <1>1
    <3>2. QED
      BY <1>1, <1>2, <1>3, <3>1
  <2>2. QED
    BY <2>1
<1>7. \A k \in 1..n : s[k] < s[k + 1]
  BY <1>2, <1>3, <1>5
<1>8. Climbs(s, n)
  BY <1>1, <1>6, <1>7, ClimbsUp
<1>9. s[1] = 0
  BY <1>1, <1>2, <1>4
<1>10. QED
  BY <1>2, <1>5, <1>8, <1>9 DEF n, s

\* On the hart.
LEMMA NewStartsAre ==
    ASSUME NEW all, Len(all) \in Nat, NEW ends, \A k \in 1..Len(all) : StrippedSize(all[k], ends) \in Nat \ {0}
    PROVE  /\ NewStarts(all, ends)[1] = 0
           /\ \A k \in 1..Len(all) :
                NewStarts(all, ends)[k + 1] = NewStarts(all, ends)[k] + StrippedSize(all[k], ends)
           /\ Climbs(NewStarts(all, ends), Len(all))
<1> DEFINE n == Len(all)
           size(k) == StrippedSize(all[k], ends)
           Body(g) == [k \in 1..(n + 1) |-> IF k = 1 THEN 0 ELSE g[k - 1] + size(k - 1)]
           f == CHOOSE g : g = Body(g)
           Begun(g, d) == g[1] = 0 /\ \A k \in 1..d : g[k + 1] = g[k] + size(k)
           S == {d \in 0..n : \E g : Begun(g, d)}
<1>1. NewStarts(all, ends) = f
  BY DEF NewStarts
<1>2. n \in Nat /\ \A k \in 1..n : size(k) \in Nat \ {0}
  OBVIOUS
<1> HIDE DEF n, size
<1>3. n \in S
  <2>1. 0 \in S
    <3> DEFINE l == [k \in {1} |-> 0]
    <3>1. Begun(l, 0)
      OBVIOUS
    <3> HIDE DEF l
    <3>2. QED
      BY <1>2, <3>1
  <2>2. ASSUME NEW d \in 0..n - 1, d \in S PROVE d + 1 \in S
    <3>1. PICK g : Begun(g, d)
      BY <2>2
    <3> DEFINE l == [k \in 1..(d + 2) |-> IF k = d + 2 THEN g[d + 1] + size(d + 1) ELSE g[k]]
    <3>2. l[1] = 0
      BY <3>1
    <3>3. ASSUME NEW k \in 1..(d + 1) PROVE l[k + 1] = l[k] + size(k)
      <4>1. k \in 1..(d + 2) /\ k # d + 2 /\ k + 1 \in 1..(d + 2) /\ l[k] = g[k]
        OBVIOUS
      <4>2. CASE k = d + 1
        <5>1. l[k + 1] = g[d + 1] + size(d + 1)
          BY <4>1, <4>2
        <5>2. QED
          BY <4>1, <4>2, <5>1
      <4>3. CASE k # d + 1
        <5>1. l[k + 1] = g[k + 1] /\ k \in 1..d
          BY <4>1, <4>3
        <5>2. QED
          BY <3>1, <4>1, <5>1
      <4>4. QED
        BY <4>2, <4>3
    <3> HIDE DEF l
    <3>4. Begun(l, d + 1)
      BY <3>2, <3>3
    <3>5. d + 1 \in 0..n
      BY <1>2
    <3>6. QED
      BY <3>4, <3>5
  <2> HIDE DEF S
  <2>3. \A d \in 0..n - 1 : d \in S => d + 1 \in S
    BY <2>2
  <2>4. 0..n \subseteq S
    BY ONLY <1>2, <2>1, <2>3, CountUp
  <2>5. QED
    BY <1>2, <2>4
<1>4. PICK g : Begun(g, n)
  BY <1>3
<1> DEFINE l == [k \in 1..(n + 1) |-> g[k]]
<1>5. l = Body(l)
  <2>1. \A k \in 1..(n + 1) : l[k] = IF k = 1 THEN 0 ELSE l[k - 1] + size(k - 1)
    <3>1. SUFFICES ASSUME NEW k \in 1..(n + 1) PROVE l[k] = IF k = 1 THEN 0 ELSE l[k - 1] + size(k - 1)
      OBVIOUS
    <3>2. CASE k = 1
      BY <1>4, <3>2
    <3>3. CASE k # 1
      <4>1. k - 1 \in 1..n /\ k - 1 \in 1..(n + 1) /\ (k - 1) + 1 = k
        BY <1>2, <3>3
      <4>2. l[k - 1] = g[k - 1] /\ l[k] = g[k] /\ g[k] = g[k - 1] + size(k - 1)
        BY <1>4, <4>1
      <4>3. QED
        BY <3>3, <4>2
    <3>4. QED
      BY <3>2, <3>3
  <2>2. l = [k \in 1..(n + 1) |-> l[k]]
    OBVIOUS
  <2> HIDE DEF l
  <2>3. QED
    BY <2>1, <2>2
<1>6. f = Body(f)
  <2> HIDE DEF Body, l
  <2>1. QED
    BY <1>5
<1>7. f[1] = 0 /\ \A k \in 1..n : f[k + 1] = f[k] + size(k)
  <2> HIDE DEF f
  <2>1. \A k \in 1..(n + 1) : f[k] = IF k = 1 THEN 0 ELSE f[k - 1] + size(k - 1)
    BY <1>6
  <2>2. ASSUME NEW k \in 1..n PROVE f[k + 1] = f[k] + size(k)
    <3>1. k + 1 \in 1..(n + 1) /\ k + 1 # 1 /\ (k + 1) - 1 = k
      BY <1>2
    <3>2. QED
      BY <2>1, <3>1
  <2>3. f[1] = 0
    BY <1>2, <2>1
  <2>4. QED
    BY <2>2, <2>3
<1> HIDE DEF f, S
<1>8. \A k \in 1..(n + 1) : f[k] \in Nat
  <2> DEFINE T == {d \in 0..n : f[d + 1] \in Nat}
  <2>1. 0 \in T
    BY <1>2, <1>7
  <2>2. ASSUME NEW d \in 0..n - 1, d \in T PROVE d + 1 \in T
    <3>1. d + 1 \in 1..n /\ d + 1 \in 0..n
      BY <1>2
    <3>2. f[(d + 1) + 1] = f[d + 1] + size(d + 1) /\ size(d + 1) \in Nat
      BY <1>2, <1>7, <3>1
    <3>3. QED
      BY <2>2, <3>1, <3>2
  <2> HIDE DEF T
  <2>3. \A d \in 0..n - 1 : d \in T => d + 1 \in T
    BY <2>2
  <2>4. 0..n \subseteq T
    BY ONLY <1>2, <2>1, <2>3, CountUp
  <2>5. ASSUME NEW k \in 1..(n + 1) PROVE f[k] \in Nat
    <3>1. k - 1 \in 0..n /\ (k - 1) + 1 = k
      BY <1>2
    <3>2. k - 1 \in T
      BY <2>4, <3>1
    <3>3. QED
      BY <3>1, <3>2 DEF T
  <2>6. QED
    BY <2>5
<1>9. \A k \in 1..n : f[k] < f[k + 1]
  <2>1. ASSUME NEW k \in 1..n PROVE f[k] < f[k + 1]
    <3>1. k \in 1..(n + 1) /\ f[k + 1] = f[k] + size(k) /\ size(k) \in Nat \ {0}
      BY <1>2, <1>7
    <3>2. QED
      BY <1>8, <3>1
  <2>2. QED
    BY <2>1
<1>10. Climbs(f, n)
  BY <1>2, <1>8, <1>9, ClimbsUp
<1>11. QED
  BY <1>1, <1>7, <1>10 DEF n, size
-----------------------------------------------------------------------------
(* Prefixes *)

\* An argument below RADIX^3 has three digits.
LEMMA Digits ==
    ASSUME NEW x \in Nat, x < RADIX * RADIX * RADIX
    PROVE  /\ x % RADIX \in 0..(RADIX - 1) /\ (x \div RADIX) % RADIX \in 0..(RADIX - 1)
           /\ x \div RADIX \in Nat /\ x = (x \div RADIX) * RADIX + (x % RADIX)
           /\ x \div (RADIX * RADIX) \in 0..(RADIX - 1)
           /\ x \div RADIX = (x \div (RADIX * RADIX)) * RADIX + ((x \div RADIX) % RADIX)
           /\ x < RADIX => x \div RADIX = 0
           /\ x < RADIX * RADIX => x \div (RADIX * RADIX) = 0
<1> DEFINE R == RADIX
           q == x \div R
           a == x % R
           p == q \div R
           b == q % R
<1>1. R \in Nat \ {0}
  BY RadixAssumption
<1> HIDE DEF R
<1>2. q \in Int /\ a \in 0..(R - 1) /\ x = R * q + a
  BY <1>1
<1> HIDE DEF q, a
<1>3. p \in Int /\ b \in 0..(R - 1) /\ q = R * p + b
  BY <1>1, <1>2
<1> HIDE DEF p, b
<1>4. q \in Nat
  <2>1. CASE q < 0
    <3>1. R * q <= R * (-1)
      BY <1>1, <1>2, <2>1
    <3>2. QED
      BY <1>1, <1>2, <3>1
  <2>2. QED
    BY <1>2, <2>1
<1>5. p \in Nat
  <2>1. CASE p < 0
    <3>1. R * p <= R * (-1)
      BY <1>1, <1>3, <2>1
    <3>2. QED
      BY <1>1, <1>3, <1>4, <3>1
  <2>2. QED
    BY <1>3, <2>1
<1>6. x < R => q = 0
  <2>1. CASE q >= 1
    <3>1. R * q >= R
      BY <1>1, <1>4, <2>1
    <3>2. QED
      BY <1>1, <1>2, <3>1
  <2>2. QED
    BY <1>4, <2>1
<1> DEFINE c == R * b + a
           RR == R * R
<1>7. RR \in Nat \ {0} /\ c \in 0..(RR - 1) /\ x = RR * p + c
  <2>1. RR \in Nat \ {0}
    BY <1>1
  <2>2. c \in Nat
    BY <1>1, <1>2, <1>3
  <2>3. R * b <= R * (R - 1)
    BY <1>1, <1>3
  <2>4. R * (R - 1) = RR - R
    BY <1>1
  <2>5. c < RR
    BY <1>1, <1>2, <1>3, <2>1, <2>3, <2>4
  <2>6. R * q = RR * p + R * b
    BY <1>1, <1>3, <1>4, <1>5
  <2>7. QED
    BY <1>1, <1>2, <1>3, <1>5, <2>1, <2>2, <2>5, <2>6
<1> HIDE DEF c, RR
<1>8. x \div RR = p
  BY <1>5, <1>7
<1>9. x < RR => p = 0
  <2>1. CASE p >= 1
    <3>1. RR * p >= RR
      BY <1>5, <1>7, <2>1
    <3>2. QED
      BY <1>5, <1>7, <3>1
  <2>2. QED
    BY <1>5, <2>1
<1>10. p < R
  <2>1. CASE p >= R
    <3>1. RR * p >= RR * R
      BY <1>1, <1>5, <1>7, <2>1
    <3>2. RR * R = RADIX * RADIX * RADIX
      BY <1>1 DEF RR, R
    <3>3. QED
      BY <1>1, <1>5, <1>7, <3>1, <3>2
  <2>2. QED
    BY <1>1, <1>5, <2>1
<1>12. R * q = q * R /\ R * p = p * R
  BY <1>1, <1>4, <1>5
<1>13. p \in 0..(R - 1)
  BY <1>1, <1>5, <1>10
<1>14. x % R = a /\ x \div R = q /\ (x \div R) % R = b /\ x \div (R * R) = p
  BY <1>8 DEF a, q, b, RR
<1>15. (x < R => q = 0) /\ (x < R * R => p = 0)
  BY <1>6, <1>9 DEF RR
<1>16. x = q * R + a /\ q = p * R + b
  BY <1>2, <1>3, <1>12
<1> HIDE DEF R
<1>17. /\ x % R \in 0..(R - 1) /\ (x \div R) % R \in 0..(R - 1)
       /\ x \div R \in Nat /\ x = (x \div R) * R + (x % R)
       /\ x \div (R * R) \in 0..(R - 1)
       /\ x \div R = (x \div (R * R)) * R + ((x \div R) % R)
       /\ x < R => x \div R = 0
       /\ x < R * R => x \div (R * R) = 0
  <2>1. x % R \in 0..(R - 1)
    BY ONLY <1>2, <1>14
  <2>2. (x \div R) % R \in 0..(R - 1)
    BY ONLY <1>3, <1>14
  <2>3. x \div R \in Nat
    BY ONLY <1>4, <1>14
  <2>4. x = (x \div R) * R + (x % R)
    BY ONLY <1>16, Zenon DEF q, a
  <2>5. x \div (R * R) \in 0..(R - 1)
    BY ONLY <1>13, <1>14
  <2>6. x \div R = (x \div (R * R)) * R + ((x \div R) % R)
    <3>1. x \div R = p * R + ((x \div R) % R)
      BY ONLY <1>16, Zenon DEF q, b
    <3>2. p = x \div (R * R)
      BY ONLY <1>14
    <3> HIDE DEF p
    <3>3. QED
      BY ONLY <3>1, <3>2, Zenon
  <2>7. (x < R => x \div R = 0) /\ (x < R * R => x \div (R * R) = 0)
    BY ONLY <1>14, <1>15
  <2>8. QED
    BY ONLY <2>1, <2>2, <2>3, <2>4, <2>5, <2>6, <2>7
<1>18. QED
  BY ONLY <1>17 DEF R

LEMMA ConcatAt ==
    ASSUME NEW S, NEW s \in Seq(S), NEW t \in Seq(S)
    PROVE  /\ s \o t \in Seq(S) /\ Len(s \o t) = Len(s) + Len(t) /\ Len(s \o t) \in Nat
           /\ DOMAIN (s \o t) = 1..Len(s \o t)
           /\ \A j \in 1..Len(s) : (s \o t)[j] = s[j]
           /\ \A j \in 1..Len(t) : (s \o t)[Len(s) + j] = t[j]
<1> DEFINE c == s \o t
<1>1. /\ c \in Seq(S) /\ Len(c) = Len(s) + Len(t)
      /\ \A j \in 1..Len(s) + Len(t) : c[j] = IF j <= Len(s) THEN s[j] ELSE t[j - Len(s)]
  BY ConcatProperties
<1> HIDE DEF c
<1>2. Len(s) \in Nat /\ Len(t) \in Nat /\ DOMAIN c = 1..Len(c)
  BY <1>1, LenProperties
<1>3. \A j \in 1..Len(t) : Len(s) + j \in 1..Len(s) + Len(t) /\ ~(Len(s) + j <= Len(s)) /\ (Len(s) + j) - Len(s) = j
  BY <1>2
<1>4. \A j \in 1..Len(s) : j \in 1..Len(s) + Len(t) /\ j <= Len(s)
  BY <1>2
<1>5. QED
  BY <1>1, <1>2, <1>3, <1>4 DEF c

\* What is left of an instruction: as many prefixes as it had, the opcode, and
\* the unit that ends a protected range behind a call.
AreUnits(u, i, x, ends) ==
    /\ StrippedSize(i, ends) = i.ext + 1 + (IF PadAfter(i, ends) THEN 1 ELSE 0)
    /\ Len(u) = StrippedSize(i, ends) /\ u = [j \in 1..Len(u) |-> u[j]]
    /\ \A j \in 1..i.ext : u[j].op = "EXTENDED_ARG"
    /\ u[i.ext + 1].op = i.op /\ u[i.ext + 1].arg = x % RADIX
    /\ PadAfter(i, ends) => u[i.ext + 2].op = "NOP"
    /\ i.ext = 1 => u[1].arg = (x \div RADIX) % RADIX
    /\ i.ext = 2 => /\ u[1].arg = (x \div (RADIX * RADIX)) % RADIX
                    /\ u[2].arg = (x \div RADIX) % RADIX

LEMMA StrippedUnitsAre ==
    ASSUME NEW i, i.ext \in 0..2, NEW x, NEW ends
    PROVE  AreUnits(StrippedUnits(i, x, ends), i, x, ends)
<1> DEFINE E == "EXTENDED_ARG"
           hi == Unit(E, (x \div (RADIX * RADIX)) % RADIX)
           lo == Unit(E, (x \div RADIX) % RADIX)
           o == Unit(i.op, x % RADIX)
           pad == IF PadAfter(i, ends) THEN <<Nop>> ELSE <<>>
           u == StrippedUnits(i, x, ends)
<1>1. StrippedSize(i, ends) = i.ext + 1 + (IF PadAfter(i, ends) THEN 1 ELSE 0)
  BY DEF StrippedSize
<1>2. Nop.op = "NOP"
  BY DEF Nop, Unit
<1>3. u = ((IF i.ext > 1 THEN <<hi>> ELSE <<>>) \o (IF i.ext > 0 THEN <<lo>> ELSE <<>>)) \o <<o>> \o pad
  BY DEF StrippedUnits, Ext
<1>4. /\ hi.op = E /\ hi.arg = (x \div (RADIX * RADIX)) % RADIX
      /\ lo.op = E /\ lo.arg = (x \div RADIX) % RADIX
      /\ o.op = i.op /\ o.arg = x % RADIX
  BY DEF Unit
<1> HIDE DEF hi, lo, o, u, E
<1> DEFINE S == {hi, lo, o, Nop}
           A == IF i.ext > 1 THEN <<hi>> ELSE <<>>
           B == IF i.ext > 0 THEN <<lo>> ELSE <<>>
           AB == A \o B
           O == <<o>>
           ABo == AB \o O
<1>5. /\ A \in Seq(S) /\ Len(A) = (IF i.ext > 1 THEN 1 ELSE 0) /\ (i.ext > 1 => A[1] = hi)
      /\ B \in Seq(S) /\ Len(B) = (IF i.ext > 0 THEN 1 ELSE 0) /\ (i.ext > 0 => B[1] = lo)
  <2>1. <<>> \in Seq(S) /\ <<hi>> \in Seq(S) /\ <<lo>> \in Seq(S)
    OBVIOUS
  <2>2. CASE i.ext > 1
    BY <2>1, <2>2
  <2>3. CASE i.ext = 1
    BY <2>1, <2>3
  <2>4. CASE i.ext = 0
    BY <2>1, <2>4
  <2>5. QED
    BY <2>2, <2>3, <2>4
<1>c. O \in Seq(S) /\ Len(O) = 1 /\ O[1] = o
  <2>1. O \in Seq(S)
    OBVIOUS
  <2>2. Len(O) = 1 /\ O[1] = o
    OBVIOUS
  <2>3. QED
    BY <2>1, <2>2
<1>a. pad \in Seq(S) /\ Len(pad) = (IF PadAfter(i, ends) THEN 1 ELSE 0)
  <2>1. CASE PadAfter(i, ends)
    BY <2>1
  <2>2. CASE ~PadAfter(i, ends)
    BY <2>2
  <2>3. QED
    BY <2>1, <2>2
<1>b. PadAfter(i, ends) => pad[1] = Nop
  <2>1. ASSUME PadAfter(i, ends) PROVE pad[1] = Nop
    BY <2>1
  <2>2. QED
    BY <2>1
<1>6. u = ABo \o pad
  BY <1>3
<1> HIDE DEF A, B, O, S, pad
<1>7. /\ AB \in Seq(S) /\ Len(AB) = i.ext /\ (i.ext = 1 => AB[1] = lo)
      /\ (i.ext = 2 => AB[1] = hi /\ AB[2] = lo)
  <2>1. /\ AB \in Seq(S) /\ Len(AB) = Len(A) + Len(B)
        /\ \A j \in 1..Len(A) : AB[j] = A[j]
        /\ \A j \in 1..Len(B) : AB[Len(A) + j] = B[j]
    <3>1. A \in Seq(S) /\ B \in Seq(S)
      BY <1>5
    <3>2. QED
      BY ONLY <3>1, ConcatAt
  <2> HIDE DEF AB
  <2>2. CASE i.ext = 0
    BY <1>5, <2>1, <2>2
  <2>3. CASE i.ext = 1
    <3>1. Len(A) = 0 /\ 1 \in 1..Len(B) /\ 0 + 1 = 1 /\ B[1] = lo /\ Len(B) = 1
      BY <1>5, <2>3
    <3>2. AB[1] = lo
      BY <2>1, <3>1
    <3>3. QED
      BY <2>1, <2>3, <3>1, <3>2
  <2>4. CASE i.ext = 2
    <3>1. Len(A) = 1 /\ 1 \in 1..Len(A) /\ 1 \in 1..Len(B) /\ 1 + 1 = 2 /\ B[1] = lo /\ A[1] = hi /\ Len(B) = 1
      BY <1>5, <2>4
    <3>2. AB[1] = hi /\ AB[2] = lo
      BY <2>1, <3>1
    <3>3. QED
      BY <2>1, <2>4, <3>1, <3>2
  <2>5. QED
    BY <2>2, <2>3, <2>4
<1> HIDE DEF AB
<1>8. /\ ABo \in Seq(S) /\ Len(ABo) = i.ext + 1 /\ ABo[i.ext + 1] = o
      /\ \A j \in 1..i.ext : ABo[j] = AB[j]
  <2>1. /\ ABo \in Seq(S) /\ Len(ABo) = Len(AB) + Len(O)
        /\ \A j \in 1..Len(AB) : ABo[j] = AB[j]
        /\ \A j \in 1..Len(O) : ABo[Len(AB) + j] = O[j]
    <3>1. AB \in Seq(S) /\ O \in Seq(S)
      BY <1>7, <1>c
    <3>2. QED
      BY ONLY <3>1, ConcatAt
  <2> HIDE DEF ABo
  <2>2. QED
    BY <1>c, <1>7, <2>1
<1> HIDE DEF ABo
<1>9. /\ u \in Seq(S) /\ Len(u) = i.ext + 1 + Len(pad) /\ DOMAIN u = 1..Len(u)
      /\ \A j \in 1..(i.ext + 1) : u[j] = ABo[j]
      /\ \A j \in 1..Len(pad) : u[i.ext + 1 + j] = pad[j]
  <2>1. /\ ABo \o pad \in Seq(S) /\ Len(ABo \o pad) = Len(ABo) + Len(pad)
        /\ DOMAIN (ABo \o pad) = 1..Len(ABo \o pad)
        /\ \A j \in 1..Len(ABo) : (ABo \o pad)[j] = ABo[j]
        /\ \A j \in 1..Len(pad) : (ABo \o pad)[Len(ABo) + j] = pad[j]
    <3>1. ABo \in Seq(S) /\ pad \in Seq(S)
      BY <1>8, <1>a
    <3>2. QED
      BY ONLY <3>1, ConcatAt
  <2>2. QED
    BY <1>6, <1>8, <2>1
<1>d. u = [j \in 1..Len(u) |-> u[j]]
  <2>1. u \in [1..Len(u) -> S]
    BY <1>9, LenProperties
  <2> HIDE DEF S
  <2>2. QED
    BY <2>1
<1>10. Len(u) = StrippedSize(i, ends)
  BY <1>1, <1>9, <1>a
<1>11. u[i.ext + 1] = o
  BY <1>8, <1>9
<1>12. \A j \in 1..i.ext : u[j] = AB[j]
  BY <1>8, <1>9
<1>13. PadAfter(i, ends) => u[i.ext + 2] = Nop
  <2>1. ASSUME PadAfter(i, ends) PROVE u[i.ext + 2] = Nop
    <3>1. 1 \in 1..Len(pad) /\ i.ext + 1 + 1 = i.ext + 2 /\ pad[1] = Nop
      BY <1>a, <1>b, <2>1
    <3>2. QED
      BY <1>9, <3>1
  <2>2. QED
    BY <2>1
<1>14. i.ext = 1 => u[1] = lo
  BY <1>7, <1>12
<1>15. i.ext = 2 => u[1] = hi /\ u[2] = lo
  BY <1>7, <1>12
<1>16. \A j \in 1..i.ext : u[j].op = E
  <2>1. CASE i.ext = 0
    BY <2>1
  <2>2. CASE i.ext = 1
    BY <1>4, <1>14, <2>2
  <2>3. CASE i.ext = 2
    BY <1>4, <1>15, <2>3
  <2>4. QED
    BY <2>1, <2>2, <2>3
<1>17. QED
  BY <1>1, <1>2, <1>4, <1>d, <1>10, <1>11, <1>13, <1>14, <1>15, <1>16 DEF AreUnits, u, E
\* Wherever these units lie, they stand for the instruction.
LEMMA LaidOut ==
    ASSUME NEW t, NEW v \in Nat, NEW i, i.ext \in 0..2, NEW x \in Nat, x < RADIX * RADIX * RADIX,
           ExtCount(x) <= i.ext, NEW ends,
           \A j \in 1..StrippedSize(i, ends) : UnitOf(t, v + (j - 1)) = StrippedUnits(i, x, ends)[j]
    PROVE  /\ Stands(t, v, i.ext, i.op, x)
           /\ PadAfter(i, ends) => UnitOf(t, v + i.ext + 1).op = "NOP"
<1> DEFINE u == StrippedUnits(i, x, ends)
           size == StrippedSize(i, ends)
<1>0. AreUnits(u, i, x, ends)
  BY StrippedUnitsAre
<1>2. \A j \in 1..size : UnitOf(t, v + (j - 1)) = u[j]
  OBVIOUS
<1> HIDE DEF u
<1>1. /\ size = i.ext + 1 + (IF PadAfter(i, ends) THEN 1 ELSE 0)
      /\ \A j \in 1..i.ext : u[j].op = "EXTENDED_ARG"
      /\ u[i.ext + 1].op = i.op /\ u[i.ext + 1].arg = x % RADIX
      /\ PadAfter(i, ends) => u[i.ext + 2].op = "NOP"
      /\ i.ext = 1 => u[1].arg = (x \div RADIX) % RADIX
      /\ i.ext = 2 => /\ u[1].arg = (x \div (RADIX * RADIX)) % RADIX
                      /\ u[2].arg = (x \div RADIX) % RADIX
  BY ONLY <1>0 DEF AreUnits
<1> HIDE DEF size
<1>3. size \in Nat /\ size >= i.ext + 1 /\ (PadAfter(i, ends) => size = i.ext + 2)
  <2> DEFINE pad == IF PadAfter(i, ends) THEN 1 ELSE 0
  <2>1. pad \in 0..1
    OBVIOUS
  <2>2. PadAfter(i, ends) => pad = 1
    OBVIOUS
  <2>3. size = i.ext + 1 + pad
    BY <1>1
  <2> HIDE DEF pad
  <2>4. size \in Nat /\ size >= i.ext + 1 /\ (pad = 1 => size = i.ext + 2)
    BY <2>1, <2>3
  <2>5. QED
    BY <2>2, <2>4
<1>4. \A j \in 0..i.ext : UnitOf(t, v + j) = u[j + 1]
  <2>1. ASSUME NEW j \in 0..i.ext PROVE UnitOf(t, v + j) = u[j + 1]
    <3>1. j + 1 \in 1..size /\ (j + 1) - 1 = j
      BY <1>3
    <3>2. QED
      BY <1>2, <3>1
  <2>2. QED
    BY <2>1
<1>5. PadAfter(i, ends) => UnitOf(t, v + i.ext + 1).op = "NOP"
  <2>1. ASSUME PadAfter(i, ends) PROVE UnitOf(t, v + i.ext + 1).op = "NOP"
    <3>1. i.ext + 2 \in 1..size /\ v + ((i.ext + 2) - 1) = v + i.ext + 1
      BY <1>3, <2>1
    <3>2. QED
      BY <1>1, <1>2, <2>1, <3>1
  <2>2. QED
    BY <2>1
<1> DEFINE R == RADIX
           a == x % R
           q == x \div R
           b == q % R
           p == x \div (R * R)
<1>6. /\ a \in 0..(R - 1) /\ b \in 0..(R - 1) /\ q \in Nat /\ x = q * R + a
      /\ p \in 0..(R - 1) /\ q = p * R + b
      /\ x < R => q = 0
      /\ x < R * R => p = 0
  BY Digits
<1>7. R \in Nat \ {0}
  BY RadixAssumption
<1>8. (i.ext = 0 => x < R) /\ (i.ext < 2 => x < R * R)
  <2>1. ExtCount(x) = (IF x < R THEN 0 ELSE IF x < R * R THEN 1 ELSE 2)
    BY DEF ExtCount
  <2> DEFINE rr == R * R
             e == ExtCount(x)
  <2> HIDE DEF R
  <2>2. R \in Nat /\ rr \in Nat /\ R <= rr
    BY <1>7
  <2> HIDE DEF rr
  <2>3. e = (IF x < R THEN 0 ELSE IF x < rr THEN 1 ELSE 2) /\ e <= i.ext
    BY <2>1 DEF rr
  <2> HIDE DEF e
  <2>4. (i.ext = 0 => x < R) /\ (i.ext < 2 => x < rr)
    BY <2>2, <2>3
  <2>5. QED
    BY <2>4 DEF rr
<1>9. u[i.ext + 1].arg = a /\ (i.ext = 1 => u[1].arg = b) /\ (i.ext = 2 => u[1].arg = p % R /\ u[2].arg = b)
  BY <1>1
<1>10. p % R = p
  <2> HIDE DEF p, R
  <2>1. QED
    BY <1>6, <1>7
<1> HIDE DEF a, b, q, p
<1>11. \A j \in 0..(i.ext - 1) : UnitOf(t, v + j).op = "EXTENDED_ARG"
  BY <1>1, <1>4
<1>12. UnitOf(t, v + i.ext).op = i.op /\ UnitOf(t, v + i.ext).arg = a
  BY <1>1, <1>4, <1>9
<1>13. (\A j \in 0..i.ext : UnitOf(t, v + j).arg \in Nat) /\ Lead(t, v, i.ext) * R + UnitOf(t, v + i.ext).arg = x
  <2>1. CASE i.ext = 0
    <3>1. Lead(t, v, i.ext) = 0 /\ q = 0
      BY <1>6, <1>8, <2>1 DEF Lead
    <3> HIDE DEF R
    <3>2. x = a
      BY <1>6, <1>7, <3>1
    <3>3. \A j \in 0..i.ext : UnitOf(t, v + j).arg \in Nat
      BY <1>6, <1>12, <2>1
    <3>4. QED
      BY <1>6, <1>7, <1>12, <3>1, <3>2, <3>3
  <2>2. CASE i.ext = 1
    <3>1. UnitOf(t, v).arg = b
      <4>1. 0 \in 0..i.ext /\ v + 0 = v /\ 0 + 1 = 1
        BY <2>2
      <4>2. QED
        BY <1>4, <1>9, <2>2, <4>1
    <3>2. Lead(t, v, i.ext) = b
      BY <2>2, <3>1 DEF Lead
    <3> HIDE DEF R
    <3>3. q = b
      BY <1>6, <1>7, <1>8, <2>2
    <3>4. \A j \in 0..i.ext : j = 0 \/ j = 1
      BY <2>2
    <3>5. UnitOf(t, v + 0).arg = b /\ UnitOf(t, v + 1).arg = a
      BY <1>12, <2>2, <3>1
    <3>6. \A j \in 0..i.ext : UnitOf(t, v + j).arg \in Nat
      BY <1>6, <3>4, <3>5
    <3>7. QED
      BY <1>6, <1>12, <3>2, <3>3, <3>6
  <2>3. CASE i.ext = 2
    <3>1. UnitOf(t, v).arg = p /\ UnitOf(t, v + 1).arg = b
      <4>1. 0 \in 0..i.ext /\ v + 0 = v /\ 0 + 1 = 1 /\ 1 \in 0..i.ext /\ 1 + 1 = 2
        BY <2>3
      <4>2. QED
        BY <1>4, <1>9, <1>10, <2>3, <4>1
    <3>2. Lead(t, v, i.ext) = q
      BY <1>6, <2>3, <3>1 DEF Lead
    <3> HIDE DEF R
    <3>3. \A j \in 0..i.ext : j = 0 \/ j = 1 \/ j = 2
      BY <2>3
    <3>4. UnitOf(t, v + 0).arg = p /\ UnitOf(t, v + 1).arg = b /\ UnitOf(t, v + 2).arg = a
      BY <1>12, <2>3, <3>1
    <3>5. \A j \in 0..i.ext : UnitOf(t, v + j).arg \in Nat
      BY <1>6, <3>3, <3>4
    <3>6. QED
      BY <1>6, <1>12, <3>2, <3>5
  <2>4. QED
    BY <2>1, <2>2, <2>3
<1>14. QED
  BY <1>5, <1>11, <1>12, <1>13 DEF Stands

\* s is n sequences, and b where each begins.
Strung(S, n, s, b) ==
    /\ n \in Nat \ {0} /\ Len(s) = n /\ \A k \in 1..n : s[k] \in Seq(S)
    /\ Climbs(b, n) /\ b[1] = 0 /\ \A k \in 1..n : b[k + 1] = b[k] + Len(s[k])

\* One behind the other.
LEMMA Flattened ==
    ASSUME NEW S, NEW n, NEW s, NEW b, Strung(S, n, s, b)
    PROVE  /\ FlattenSeq(s) \in Seq(S) /\ Len(FlattenSeq(s)) = b[n + 1]
           /\ \A k \in 1..n : \A j \in 1..Len(s[k]) : FlattenSeq(s)[b[k] + j] = s[k][j]
<1> DEFINE Body(g) == [i \in 1..n |-> IF i = 1 THEN s[i] ELSE g[i - 1] \o s[i]]
           f == CHOOSE g : g = Body(g)
           Begun(g, d) == g[1] = s[1] /\ \A k \in 1..d : g[k + 1] = g[k] \o s[k + 1]
           D == {d \in 0..n - 1 : \E g : Begun(g, d)}
<1>0. /\ n \in Nat \ {0} /\ Len(s) = n /\ \A k \in 1..n : s[k] \in Seq(S)
      /\ Climbs(b, n) /\ b[1] = 0 /\ \A k \in 1..n : b[k + 1] = b[k] + Len(s[k])
  BY DEF Strung
<1> USE <1>0
<1>1. FlattenSeq(s) = f[n]
  BY DEF FlattenSeq
<1>2. n - 1 \in D
  <2>1. 0 \in D
    <3> DEFINE l == [k \in {1} |-> s[1]]
    <3>1. Begun(l, 0)
      OBVIOUS
    <3> HIDE DEF l
    <3>2. 0 \in 0..n - 1
      OBVIOUS
    <3>3. QED
      BY <3>1, <3>2
  <2>2. ASSUME NEW d \in 0..(n - 1) - 1, d \in D PROVE d + 1 \in D
    <3>1. PICK g : Begun(g, d)
      BY <2>2
    <3> DEFINE w == g[d + 1] \o s[d + 2]
               l == [k \in 1..(d + 2) |-> IF k = d + 2 THEN w ELSE g[k]]
    <3> HIDE DEF w
    <3>2. l[1] = s[1]
      BY <3>1
    <3>3. ASSUME NEW k \in 1..(d + 1) PROVE l[k + 1] = l[k] \o s[k + 1]
      <4>1. k \in 1..(d + 2) /\ k # d + 2 /\ k + 1 \in 1..(d + 2) /\ l[k] = g[k]
        OBVIOUS
      <4>2. CASE k = d + 1
        <5>1. l[k + 1] = w /\ k + 1 = d + 2
          BY <4>1, <4>2
        <5>2. w = g[k] \o s[k + 1]
          BY <4>2, <5>1 DEF w
        <5>3. QED
          BY <4>1, <5>1, <5>2
      <4>3. CASE k # d + 1
        <5>1. l[k + 1] = g[k + 1] /\ k \in 1..d
          BY <4>1, <4>3
        <5>2. QED
          BY <3>1, <4>1, <5>1
      <4>4. QED
        BY <4>2, <4>3
    <3> HIDE DEF l
    <3>4. Begun(l, d + 1)
      BY <3>2, <3>3
    <3>5. d + 1 \in 0..n - 1
      OBVIOUS
    <3>6. QED
      BY <3>4, <3>5
  <2> HIDE DEF D
  <2>3. n - 1 \in Nat /\ \A d \in 0..(n - 1) - 1 : d \in D => d + 1 \in D
    BY <2>2
  <2>4. 0..n - 1 \subseteq D
    BY ONLY <2>1, <2>3, CountUp
  <2>5. QED
    BY <2>3, <2>4
<1>3. PICK g : Begun(g, n - 1)
  BY <1>2
<1> DEFINE l == [k \in 1..n |-> g[k]]
<1>4. l = Body(l)
  <2>1. \A k \in 1..n : l[k] = IF k = 1 THEN s[k] ELSE l[k - 1] \o s[k]
    <3>1. SUFFICES ASSUME NEW k \in 1..n PROVE l[k] = IF k = 1 THEN s[k] ELSE l[k - 1] \o s[k]
      OBVIOUS
    <3>2. CASE k = 1
      BY <1>3, <3>2
    <3>3. CASE k # 1
      <4>1. k - 1 \in 1..n - 1 /\ k - 1 \in 1..n /\ (k - 1) + 1 = k
        BY <3>3
      <4>2. l[k - 1] = g[k - 1] /\ l[k] = g[k] /\ g[k] = g[k - 1] \o s[k]
        BY <1>3, <4>1
      <4>3. QED
        BY <3>3, <4>2
    <3>4. QED
      BY <3>2, <3>3
  <2>2. l = [k \in 1..n |-> l[k]]
    OBVIOUS
  <2> HIDE DEF l
  <2>3. QED
    BY <2>1, <2>2
<1>5. f = Body(f)
  <2> HIDE DEF Body, l
  <2>1. QED
    BY <1>4
<1>6. f[1] = s[1] /\ \A k \in 2..n : f[k] = f[k - 1] \o s[k]
  <2> HIDE DEF f
  <2>1. \A k \in 1..n : f[k] = IF k = 1 THEN s[k] ELSE f[k - 1] \o s[k]
    BY <1>5
  <2>2. f[1] = s[1]
    BY <2>1
  <2>3. ASSUME NEW k \in 2..n PROVE f[k] = f[k - 1] \o s[k]
    <3>1. k \in 1..n /\ k # 1
      OBVIOUS
    <3>2. QED
      BY <2>1, <3>1
  <2>4. QED
    BY <2>2, <2>3
<1> HIDE DEF f
<1> DEFINE Fine(d) == /\ f[d] \in Seq(S) /\ Len(f[d]) = b[d + 1]
                      /\ \A k \in 1..d : \A j \in 1..Len(s[k]) : f[d][b[k] + j] = s[k][j]
           T == {d \in 0..n - 1 : Fine(d + 1)}
<1>7. \A k \in 1..n : Len(s[k]) \in Nat
  BY LenProperties
<1>8. 0 \in T
  <2>1. f[1] \in Seq(S) /\ Len(f[1]) = b[2]
    BY <1>6, <1>7
  <2>2. \A j \in 1..Len(s[1]) : b[1] + j = j
    BY <1>7
  <2>3. QED
    BY <1>6, <2>1, <2>2
<1>9. ASSUME NEW d \in 0..(n - 1) - 1, d \in T PROVE d + 1 \in T
  <2> DEFINE e == d + 1
             g0 == f[e]
             s0 == s[e + 1]
  <2>1. e \in 1..n /\ e + 1 \in 1..n /\ e + 1 \in 2..n /\ (e + 1) - 1 = e /\ e \in 0..n - 1
    OBVIOUS
  <2>2. g0 \in Seq(S) /\ s0 \in Seq(S) /\ Len(g0) = b[e + 1] /\ f[e + 1] = g0 \o s0
    BY <1>6, <1>9, <2>1
  <2>3. \A k \in 1..e : \A j \in 1..Len(s[k]) : g0[b[k] + j] = s[k][j]
    BY <1>9
  <2> HIDE DEF g0, s0, Fine, T
  <2>4. /\ g0 \o s0 \in Seq(S) /\ Len(g0 \o s0) = Len(g0) + Len(s0)
        /\ \A j \in 1..Len(g0) : (g0 \o s0)[j] = g0[j]
        /\ \A j \in 1..Len(s0) : (g0 \o s0)[Len(g0) + j] = s0[j]
    <3>1. g0 \in Seq(S) /\ s0 \in Seq(S)
      BY <2>2
    <3>2. QED
      BY ONLY <3>1, ConcatAt
  <2>5. b[(e + 1) + 1] = b[e + 1] + Len(s0)
    BY <2>1 DEF s0
  <2> HIDE DEF e
  <2>6. f[e + 1] \in Seq(S) /\ Len(f[e + 1]) = b[(e + 1) + 1]
    BY <2>2, <2>4, <2>5
  <2>7. ASSUME NEW k \in 1..(e + 1), NEW j \in 1..Len(s[k]) PROVE f[e + 1][b[k] + j] = s[k][j]
    <3>1. CASE k = e + 1
      <4>1. j \in 1..Len(s0) /\ s[k] = s0 /\ b[k] = Len(g0)
        BY <2>2, <3>1 DEF s0
      <4>2. QED
        BY <2>2, <2>4, <4>1
    <3>2. CASE k # e + 1
      <4>1. k \in 1..e /\ k \in 1..n /\ e \in Nat
        BY <2>1, <3>2
      <4>2. b[k] + j \in 1..Len(g0)
        <5>1. b[k + 1] <= b[e + 1] /\ b[k + 1] = b[k] + Len(s[k]) /\ b[k] \in Nat /\ b[e + 1] \in Nat /\ Len(s[k]) \in Nat
          <6>1. k \in 1..n /\ k \in 1..(n + 1) /\ e + 1 \in 1..(n + 1) /\ k < e + 1
            BY <2>1, <4>1
          <6>2. QED
            BY <1>7, <6>1 DEF Climbs
        <5>2. Len(g0) = b[e + 1] /\ j \in 1..Len(s[k])
          BY <2>2
        <5>3. QED
          BY ONLY <5>1, <5>2
      <4>3. QED
        BY <2>2, <2>3, <2>4, <4>1, <4>2
    <3>3. QED
      BY <3>1, <3>2
  <2>8. Fine(e + 1)
    BY <2>6, <2>7 DEF Fine
  <2>9. QED
    BY <2>1, <2>8 DEF T, e
<1> HIDE DEF T
<1>10. n - 1 \in Nat /\ \A d \in 0..(n - 1) - 1 : d \in T => d + 1 \in T
  BY <1>9
<1>11. 0..n - 1 \subseteq T
  BY ONLY <1>8, <1>10, CountUp
<1>12. Fine(n)
  <2>1. n - 1 \in T /\ (n - 1) + 1 = n
    BY <1>10, <1>11
  <2> HIDE DEF Fine
  <2>2. QED
    BY <2>1 DEF T
<1>13. QED
  BY <1>1, <1>12-----------------------------------------------------------------------------
(* Ranges of instructions *)

LEMMA StartsOrder ==
    ASSUME NEW n \in Nat, NEW s, Climbs(s, n), NEW a \in 1..(n + 1), NEW b \in 1..(n + 1)
    PROVE  s[a] \in Nat /\ s[b] \in Nat /\ (s[a] <= s[b] <=> a <= b)
<1>1. s[a] \in Nat /\ s[b] \in Nat
  BY DEF Climbs
<1>2. CASE a < b
  <2>1. a \in 1..n /\ a + 1 \in 1..(n + 1)
    BY <1>2
  <2>2. s[a] < s[a + 1] /\ s[a + 1] <= s[b] /\ s[a + 1] \in Nat
    BY <1>2, <2>1 DEF Climbs
  <2>3. QED
    BY <1>1, <1>2, <2>2
<1>3. CASE a = b
  BY <1>1, <1>3
<1>4. CASE b < a
  <2>1. b \in 1..n /\ b + 1 \in 1..(n + 1)
    BY <1>4
  <2>2. s[b] < s[b + 1] /\ s[b + 1] <= s[a] /\ s[b + 1] \in Nat
    BY <1>4, <2>1 DEF Climbs
  <2>3. QED
    BY <1>1, <1>4, <2>2
<1>5. QED
  BY <1>2, <1>3, <1>4

\* A unit of instruction k is behind the start of the k-th and before the next.
LEMMA InTheRange ==
    ASSUME NEW n \in Nat, NEW s, Climbs(s, n), NEW k \in 1..n, NEW u \in Int, s[k] <= u, u < s[k + 1],
           NEW a \in 1..(n + 1)
    PROVE  (s[a] <= u <=> a <= k) /\ (u < s[a] <=> k < a)
<1>1. k \in 1..(n + 1) /\ k + 1 \in 1..(n + 1)
  OBVIOUS
<1>2. s[a] \in Nat /\ s[k] \in Nat /\ (s[a] <= s[k] <=> a <= k)
  BY <1>1, StartsOrder
<1>3. s[k + 1] \in Nat /\ (s[k + 1] <= s[a] <=> k + 1 <= a)
  BY <1>1, StartsOrder
<1>4. a <= k \/ k + 1 <= a
  OBVIOUS
<1>5. QED
  BY <1>2, <1>3, <1>4

\* What an entry covers, by the numbers of the instructions: the unit where an
\* instruction has its effect, and on the hart the unit behind it.
LEMMA SameCovers ==
    ASSUME NEW n \in Nat, NEW hs, Climbs(hs, n), NEW ns, Climbs(ns, n), NEW k \in 1..n, NEW ext \in Nat,
           hs[k] + ext < hs[k + 1], ns[k] + ext < ns[k + 1],
           NEW a \in 1..(n + 1), NEW z \in 1..(n + 1),
           NEW x, x.start = hs[a], x.end = hs[z], NEW y, y.start = ns[a], y.end = ns[z]
    PROVE  /\ Covers(x, hs[k] + ext) <=> Covers(y, ns[k] + ext)
           /\ a # k + 1 /\ (z = k + 1 => ns[k + 1] # ns[k] + ext + 1)
                => (Covers(x, hs[k] + ext) <=> Covers(y, ns[k] + ext + 1))
<1> DEFINE u == hs[k] + ext
           v == ns[k] + ext
<1>1. k \in 1..(n + 1) /\ k + 1 \in 1..(n + 1)
  OBVIOUS
<1>2. hs[k] \in Nat /\ ns[k] \in Nat /\ ns[k + 1] \in Nat
  BY <1>1 DEF Climbs
<1>3. u \in Int /\ v \in Int /\ v + 1 \in Int /\ hs[k] <= u /\ ns[k] <= v /\ ns[k] <= v + 1
  BY <1>2
<1>4. u < hs[k + 1] /\ v < ns[k + 1]
  OBVIOUS
<1> HIDE DEF u, v
<1>5. (hs[a] <= u <=> a <= k) /\ (u < hs[z] <=> k < z)
  BY <1>3, <1>4, InTheRange
<1>6. (ns[a] <= v <=> a <= k) /\ (v < ns[z] <=> k < z)
  BY <1>3, <1>4, InTheRange
<1>7. Covers(x, u) <=> (a <= k /\ k < z)
  BY <1>5 DEF Covers
<1>8. Covers(y, v) <=> (a <= k /\ k < z)
  BY <1>6 DEF Covers
<1>9. ASSUME a # k + 1, z = k + 1 => ns[k + 1] # v + 1
      PROVE  Covers(y, v + 1) <=> (a <= k /\ k < z)
  <2>1. CASE v + 1 < ns[k + 1]
    <3>1. (ns[a] <= v + 1 <=> a <= k) /\ (v + 1 < ns[z] <=> k < z)
      BY <1>3, <2>1, InTheRange
    <3>2. QED
      BY <3>1 DEF Covers
  <2>2. CASE v + 1 = ns[k + 1]
    <3>1. (ns[a] <= ns[k + 1] <=> a <= k + 1) /\ (ns[z] <= ns[k + 1] <=> z <= k + 1) /\ ns[z] \in Nat
      BY <1>1, StartsOrder
    <3>2. (ns[a] <= v + 1 <=> a <= k) /\ (v + 1 < ns[z] <=> k < z)
      BY <1>2, <1>9, <2>2, <3>1
    <3>3. QED
      BY <3>2 DEF Covers
  <2>3. QED
    BY <1>2, <1>3, <1>4, <2>1, <2>2
<1>10. QED
  BY <1>7, <1>8, <1>9 DEF u, v


\* An instruction of the code stands where the code says.
LEMMA UnitsStand ==
    ASSUME NEW code, WellFormed(code), NEW h, HoldsCode(h, code), NEW i, IsInstruction(code, i)
    PROVE  /\ i.op # "EXTENDED_ARG" /\ i.ext \in 0..2 /\ i.start \in Nat /\ i.end \in Nat
           /\ i.end = i.start + i.ext + 1 + CacheUnits(i.op)
           /\ Stands(h, i.start, i.ext, i.op, i.arg)
           /\ \A u \in (i.start + i.ext + 1)..(i.end - 1) : UnitOf(h, u).op = "CACHE"
           /\ i.arg \in Nat /\ i.arg < RADIX * RADIX * RADIX
<1> DEFINE s == i.start
           n == i.ext
<1>1. /\ s \in 0..(Len(code) - 1) /\ n \in 0..2 /\ Complete(code, s, n)
      /\ i.op = At(code, s + n).op /\ i.arg = Folded(code, s, n)
      /\ i.end = s + n + 1 + CacheUnits(i.op) /\ i.end \in (s + 1)..Len(code)
  BY DEF IsInstruction
<1>2. CacheUnits(i.op) \in 0..5
  BY CacheUnitsIs
<1>3. Len(code) \in Nat
  BY DEF WellFormed
<1> HIDE DEF s, n
<1>4. s \in Nat /\ i.end \in Nat /\ s + n + 1 <= Len(code)
  BY <1>1, <1>2, <1>3
<1>5. \A u \in 0..(Len(code) - 1) : UnitOf(h, u) = At(code, u)
  BY DEF HoldsCode
<1>6. \A j \in 0..n : s + j \in 0..(Len(code) - 1) /\ s + j + 1 \in 1..Len(code)
  BY <1>1, <1>3, <1>4
<1>7. \A j \in 0..n : At(code, s + j).arg \in 0..(RADIX - 1)
  <2>1. ASSUME NEW j \in 0..n PROVE At(code, s + j).arg \in 0..(RADIX - 1)
    <3>1. code[s + j + 1] \in [op : STRING, arg : 0..(RADIX - 1)]
      BY <1>6, ElementOfSeq DEF WellFormed
    <3>2. QED
      BY <3>1 DEF At
  <2>2. QED
    BY <2>1
<1> DEFINE d(j) == At(code, s + j).arg
<1>8. \A j \in 0..n : UnitOf(h, s + j).arg = d(j)
  BY <1>5, <1>6
<1>9. i.op # "EXTENDED_ARG" /\ \A j \in 0..(n - 1) : UnitOf(h, s + j).op = "EXTENDED_ARG"
  <2>1. \A j \in 0..(n - 1) : j \in 0..n
    BY <1>1
  <2>2. QED
    BY <1>1, <1>5, <1>6, <2>1 DEF Complete
<1>10. \A u \in (s + n + 1)..(i.end - 1) : UnitOf(h, u).op = "CACHE"
  <2>1. ASSUME NEW u \in (s + n + 1)..(i.end - 1) PROVE UnitOf(h, u).op = "CACHE"
    <3>1. u \in 0..(Len(code) - 1) /\ u \in (s + n + 1)..(s + n + CacheUnits(i.op))
      <4> DEFINE c == CacheUnits(i.op)
                 e == i.end
      <4>1. c \in Nat /\ e = s + n + 1 + c /\ n \in Nat /\ u \in (s + n + 1)..(e - 1) /\ e <= Len(code)
        BY <1>1, <1>2, <1>3, <1>4
      <4> HIDE DEF c, e
      <4>2. u \in 0..(Len(code) - 1) /\ u \in (s + n + 1)..(s + n + c)
        BY <1>3, <1>4, <4>1
      <4>3. QED
        BY <4>2 DEF c
    <3>2. QED
      BY <1>1, <1>5, <3>1 DEF Complete
  <2>2. QED
    BY <2>1
<1>11. UnitOf(h, s + n).op = i.op
  <2>1. n \in 0..n
    BY <1>1
  <2>2. QED
    BY <1>1, <1>5, <1>6, <2>1
<1>12. /\ i.arg = (IF n = 0 THEN d(0) ELSE IF n = 1 THEN d(0) * RADIX + d(1)
                   ELSE (d(0) * RADIX + d(1)) * RADIX + d(2))
  BY <1>1 DEF Folded
<1>13. Lead(h, s, n) = IF n = 0 THEN 0 ELSE IF n = 1 THEN d(0) ELSE d(0) * RADIX + d(1)
  <2>1. CASE n = 0
    BY <2>1 DEF Lead
  <2>2. CASE n = 1
    <3>1. s + 0 = s /\ 0 \in 0..n
      BY <1>4, <2>2
    <3>2. UnitOf(h, s).arg = d(0)
      BY <1>8, <3>1
    <3>3. QED
      BY <2>2, <3>2 DEF Lead
  <2>3. CASE n = 2
    <3>1. s + 0 = s /\ 0 \in 0..n /\ 1 \in 0..n
      BY <1>4, <2>3
    <3>2. UnitOf(h, s).arg = d(0) /\ UnitOf(h, s + 1).arg = d(1)
      BY <1>8, <3>1
    <3>3. QED
      BY <2>3, <3>2 DEF Lead
  <2>4. QED
    BY <1>1, <2>1, <2>2, <2>3
<1>14. UnitOf(h, s + n).arg = d(n)
  BY <1>1, <1>8
<1>15. \A j \in 0..n : d(j) \in 0..(RADIX - 1)
  BY <1>7
<1> HIDE DEF d
<1>16. RADIX \in Nat \ {0}
  BY RadixAssumption
<1> DEFINE R == RADIX
<1>17. i.arg = Lead(h, s, n) * R + d(n) /\ i.arg \in Nat /\ i.arg < R * R * R
  <2> HIDE DEF R
  <2>0. R \in Nat \ {0}
    BY <1>16 DEF R
  <2>a. R <= R * R /\ R * R \in Nat /\ R * R <= R * R * R /\ R * R * R \in Nat
    <3>1. R * R \in Nat /\ R <= R * R
      BY <2>0
    <3> DEFINE rr == R * R
    <3> HIDE DEF rr
    <3>2. rr \in Nat /\ rr * R \in Nat /\ rr <= rr * R
      BY <2>0, <3>1 DEF rr
    <3>3. QED
      BY <3>1, <3>2 DEF rr
  <2>1. CASE n = 0
    <3>1. i.arg = d(0) /\ Lead(h, s, n) = 0 /\ d(0) \in 0..(R - 1)
      BY <1>12, <1>13, <1>15, <2>1 DEF R
    <3>2. QED
      BY <2>0, <2>1, <2>a, <3>1
  <2>2. CASE n = 1
    <3>1. i.arg = d(0) * R + d(1) /\ Lead(h, s, n) = d(0) /\ d(0) \in 0..(R - 1) /\ d(1) \in 0..(R - 1)
      BY <1>12, <1>13, <1>15, <2>2 DEF R
    <3>2. d(0) * R <= (R - 1) * R /\ (R - 1) * R = R * R - R /\ d(0) * R \in Nat
      BY <2>0, <3>1
    <3>3. QED
      BY <2>0, <2>2, <2>a, <3>1, <3>2
  <2>3. CASE n = 2
    <3> DEFINE l == d(0) * R + d(1)
               rr == R * R
    <3>1. i.arg = l * R + d(2) /\ Lead(h, s, n) = l
      BY <1>12, <1>13, <2>3 DEF R
    <3>2. d(0) \in 0..(R - 1) /\ d(1) \in 0..(R - 1) /\ d(2) \in 0..(R - 1)
      BY <1>15, <2>3 DEF R
    <3>3. d(0) * R <= (R - 1) * R /\ (R - 1) * R = rr - R /\ d(0) * R \in Nat
      BY <2>0, <3>2
    <3>4. l \in 0..(rr - 1)
      BY <2>0, <2>a, <3>2, <3>3
    <3>5. rr \in Nat
      BY <2>a
    <3> HIDE DEF l, rr
    <3>6. l * R <= (rr - 1) * R /\ (rr - 1) * R = rr * R - R /\ l * R \in Nat
      BY <2>0, <3>4, <3>5
    <3>7. rr * R \in Nat
      BY <2>0, <3>5
    <3>8. l * R + d(2) \in Nat /\ l * R + d(2) < rr * R
      BY <2>0, <3>2, <3>6, <3>7
    <3>9. QED
      BY <2>3, <3>1, <3>8 DEF rr
  <2>4. QED
    BY <1>1, <2>1, <2>2, <2>3
<1>18. \A j \in 0..n : UnitOf(h, s + j).arg \in Nat
  BY <1>8, <1>15, <1>16
<1>19. Stands(h, s, n, i.op, i.arg)
  BY <1>9, <1>11, <1>14, <1>17, <1>18 DEF Stands
<1>20. QED
  BY <1>1, <1>4, <1>9, <1>10, <1>17, <1>19 DEF s, n
-----------------------------------------------------------------------------
(* What makes a layout the same *)

\* t has the instructions of co, from ns on, with the arguments na.
Relays(co, h, t, all, ns, na) ==
    /\ Climbs(ns, Len(all)) /\ ns[1] = 0
    /\ \A k \in 1..Len(all) : SameUnits(h, t, all, ns, na, k)
    /\ \A k \in 1..Len(all), b \in 1..Len(all) :
          /\ all[k].op \in Jumps \cap Known
          /\ all[b].start = Target(all[k].op, all[k].end, all[k].arg)
          => ns[b] = Target(all[k].op, ns[k] + all[k].ext + 1 + CacheUnits(all[k].op), na[k])
    /\ DOMAIN t.exc = DOMAIN co.exc
    /\ \A e \in DOMAIN co.exc :
          /\ t.exc[e].depth = co.exc[e].depth /\ t.exc[e].lasti = co.exc[e].lasti
          /\ \A a \in 1..(Len(all) + 1) :
                /\ HostStarts(co.code, all)[a] = co.exc[e].start => t.exc[e].start = ns[a]
                /\ HostStarts(co.code, all)[a] = co.exc[e].end => t.exc[e].end = ns[a]
                /\ HostStarts(co.code, all)[a] = co.exc[e].target => t.exc[e].target = ns[a]
          /\ \A k \in 1..Len(all) :
                all[k].op = "CALL" /\ all[k].end = co.exc[e].end => ns[k + 1] # ns[k] + all[k].ext + 1

LEMMA RelaysSame ==
    ASSUME NEW co, Lays(co), NEW h, h.code = co.code, h.at = 0, h.exc = co.exc, h.illegal = {},
           NEW t, t.names = h.names, t.consts = h.consts,
           t.illegal = {"SET_FUNCTION_ATTRIBUTE", "LOAD_BUILD_CLASS", "JUMP_BACKWARD_NO_INTERRUPT"},
           NEW all, all = Instructions(co.code), NEW ns, NEW na, Relays(co, h, t, all, ns, na)
    PROVE  SameLayout(h, t, all, ns, na)
<1> DEFINE n == Len(all)
           code == co.code
           hs == HostStarts(code, all)
<1>1. WellFormed(code) /\ all[1].op \in Known /\ DOMAIN co.exc \subseteq Nat
  BY DEF Lays
<1>2. AreInstructions(code, all, 0) /\ n > 0
  BY <1>1, InstructionsAre
<1>3. /\ Climbs(hs, n) /\ hs[1] = 0 /\ hs[n + 1] = Len(code)
      /\ \A k \in 1..n : hs[k] = all[k].start /\ hs[k + 1] = all[k].end
  BY <1>1, <1>2, HostStartsClimb
<1>4. n \in Nat
  BY <1>2 DEF AreInstructions
<1>5. Climbs(ns, n) /\ ns[1] = 0 /\ \A k \in 1..n : SameUnits(h, t, all, ns, na, k)
  BY DEF Relays
<1> HIDE DEF n, hs
<1>6. ASSUME NEW k \in 1..n PROVE SameFlow(h, t, all, ns, na, k)
  <2>1. k < n => all[k + 1].start = all[k].end
    BY <1>3, <1>4, <1>6
  <2>2. all[k].op \in Known \ Final => k < n /\ all[k + 1].op \in Known
    BY DEF Lays, n
  <2>3. ASSUME all[k].op \in Jumps \cap Known
        PROVE  \E b \in 1..n : /\ JumpsTo(all, k, b)
                               /\ ns[b] = Target(all[k].op, ns[k] + all[k].ext + 1 + CacheUnits(all[k].op), na[k])
    <3>1. PICK b \in 1..n : JumpsTo(all, k, b)
      BY <2>3 DEF Lays, n
    <3>2. all[b].start = Target(all[k].op, all[k].end, all[k].arg)
      BY <3>1 DEF JumpsTo
    <3>3. ns[b] = Target(all[k].op, ns[k] + all[k].ext + 1 + CacheUnits(all[k].op), na[k])
      BY <2>3, <3>2 DEF Relays, n
    <3>4. QED
      BY <3>1, <3>3
  <2>4. QED
    BY <2>1, <2>2, <2>3 DEF SameFlow, JumpsTo, n
<1>7. ASSUME NEW e \in DOMAIN co.exc PROVE SameHandler(h, t, all, ns, e)
  <2> DEFINE x == co.exc[e]
             y == t.exc[e]
  <2>1. Protects(co, all, x)
    BY DEF Lays
  <2>2. /\ y.depth = x.depth /\ y.lasti = x.lasti
        /\ \A a \in 1..(n + 1) : /\ hs[a] = x.start => y.start = ns[a]
                                 /\ hs[a] = x.end => y.end = ns[a]
                                 /\ hs[a] = x.target => y.target = ns[a]
        /\ \A k \in 1..n : all[k].op = "CALL" /\ all[k].end = x.end => ns[k + 1] # ns[k] + all[k].ext + 1
    BY DEF Relays, n, hs
  <2>3. h.exc[e] = x /\ t.exc[e] = y
    OBVIOUS
  <2> HIDE DEF x, y
  <2>4. PICK a \in 1..n : all[a].start = x.start
    BY <2>1 DEF Protects, n
  <2>5. PICK z \in 1..(n + 1) : hs[z] = x.end
    <3>1. CASE x.end = Len(code)
      BY <1>3, <1>4, <3>1
    <3>2. CASE \E b \in 1..n : all[b].start = x.end
      BY <1>3, <1>4, <3>2
    <3>3. QED
      BY <2>1, <3>1, <3>2 DEF Protects, n
  <2>6. PICK c \in 1..n : all[c].start = x.target /\ all[c].op \in Known
    BY <2>1 DEF Protects, n
  <2>7. a \in 1..(n + 1) /\ c \in 1..(n + 1)
    BY <1>4
  <2>8. x.start = hs[a] /\ x.end = hs[z] /\ y.start = ns[a] /\ y.end = ns[z] /\ y.target = ns[c]
    BY <1>3, <2>2, <2>4, <2>5, <2>6, <2>7
  <2>9. ASSUME NEW k \in 1..n
        PROVE  /\ Covers(x, all[k].start + all[k].ext) <=> Covers(y, ns[k] + all[k].ext)
               /\ all[k].op \in CallOps
                    => (Covers(x, all[k].start + all[k].ext) <=> Covers(y, ns[k] + all[k].ext + 1))
    <3> DEFINE ext == all[k].ext
    <3>1. /\ ext \in 0..2 /\ all[k].end = all[k].start + ext + 1 + CacheUnits(all[k].op)
          /\ all[k].start \in Nat /\ ns[k] \in Nat
          /\ ns[k + 1] = ns[k] + ext + 1 \/ ns[k + 1] = ns[k] + ext + 2
      BY <1>5 DEF SameUnits
    <3>2. CacheUnits(all[k].op) \in 0..5
      BY CacheUnitsIs
    <3>3. hs[k] = all[k].start /\ hs[k + 1] = all[k].end
      BY <1>3
    <3>4. ext \in Nat /\ hs[k] + ext < hs[k + 1] /\ ns[k] + ext < ns[k + 1]
      <4> HIDE DEF ext
      <4>1. QED
        BY <3>1, <3>2, <3>3
    <3> HIDE DEF ext
    <3>5. /\ Covers(x, hs[k] + ext) <=> Covers(y, ns[k] + ext)
          /\ a # k + 1 /\ (z = k + 1 => ns[k + 1] # ns[k] + ext + 1)
               => (Covers(x, hs[k] + ext) <=> Covers(y, ns[k] + ext + 1))
      BY <1>3, <1>4, <1>5, <2>7, <2>8, <3>4, SameCovers
    <3>6. ASSUME all[k].op \in CallOps
          PROVE  a # k + 1 /\ (z = k + 1 => ns[k + 1] # ns[k] + ext + 1)
      <4>1. x.start # all[k].end /\ (all[k].op = "CALL_FUNCTION_EX" => x.end # all[k].end)
        BY <2>1, <3>6 DEF Protects, n
      <4>2. a # k + 1
        BY <2>8, <3>3, <4>1
      <4>3. ASSUME z = k + 1 PROVE ns[k + 1] # ns[k] + ext + 1
        <5>1. x.end = all[k].end
          BY <2>8, <3>3, <4>3
        <5>2. all[k].op = "CALL"
          BY <3>6, <4>1, <5>1 DEF CallOps
        <5>3. QED
          BY <2>2, <5>1, <5>2 DEF ext
      <4>4. QED
        BY <4>2, <4>3
    <3>7. QED
      BY <3>3, <3>5, <3>6 DEF ext
  <2>10. \E b \in 1..n : x.target = all[b].start /\ y.target = ns[b] /\ all[b].op \in Known
    BY <2>6, <2>8
  <2>11. QED
    BY <2>2, <2>3, <2>9, <2>10 DEF SameHandler, n
<1>8. all[1].start = 0
  BY <1>3, <1>4, <1>2
<1>9. DOMAIN t.exc = DOMAIN h.exc /\ DOMAIN h.exc \subseteq Nat
  BY <1>1 DEF Relays
<1>10. t.illegal \cap (Known \cup {"EXTENDED_ARG"}) = {} /\ h.illegal \cap (Known \cup {"EXTENDED_ARG"}) = {}
  BY DEF Known, Straight, EffectOps, CallOps
<1>11. QED
  BY <1>1, <1>2, <1>4, <1>5, <1>6, <1>7, <1>8, <1>9, <1>10 DEF SameLayout, n
-----------------------------------------------------------------------------
(* Strip relays *)

\* Code without CACHE units is laid out as it is.
LEMMA UntouchedRelays ==
    ASSUME NEW co, Lays(co), NEW all, all = Instructions(co.code),
           \A k \in 1..Len(all) : CacheUnits(all[k].op) = 0,
           NEW h, HoldsCode(h, co.code), NEW t, HoldsCode(t, co.code), t.exc = co.exc
    PROVE  Relays(co, h, t, all, HostStarts(co.code, all), [k \in 1..Len(all) |-> all[k].arg])
<1> DEFINE n == Len(all)
           code == co.code
           ns == HostStarts(code, all)
           na == [k \in 1..n |-> all[k].arg]
<1>1. WellFormed(code)
  BY DEF Lays
<1>2. AreInstructions(code, all, 0) /\ n > 0
  BY <1>1, InstructionsAre
<1>3. /\ Climbs(ns, n) /\ ns[1] = 0
      /\ \A k \in 1..n : ns[k] = all[k].start /\ ns[k + 1] = all[k].end
  BY <1>1, <1>2, HostStartsClimb
<1>4. \A k \in 1..n : CacheUnits(all[k].op) = 0 /\ IsInstruction(code, all[k]) /\ na[k] = all[k].arg
  BY <1>2 DEF AreInstructions
<1>5. \A k \in 1..n :
        LET i == all[k]
        IN  /\ i.op # "EXTENDED_ARG" /\ i.ext \in 0..2 /\ i.start \in Nat /\ i.end \in Nat
            /\ i.end = i.start + i.ext + 1 + CacheUnits(i.op)
            /\ Stands(h, i.start, i.ext, i.op, i.arg) /\ Stands(t, i.start, i.ext, i.op, i.arg)
            /\ \A u \in (i.start + i.ext + 1)..(i.end - 1) : UnitOf(h, u).op = "CACHE"
  BY <1>1, <1>4, UnitsStand
<1> HIDE DEF n, ns, na
<1>6. ASSUME NEW k \in 1..n PROVE SameUnits(h, t, all, ns, na, k)
  <2> DEFINE i == all[k]
  <2>1. /\ i.op # "EXTENDED_ARG" /\ i.ext \in 0..2 /\ i.start \in Nat /\ i.end \in Nat
        /\ i.end = i.start + i.ext + 1 + CacheUnits(i.op)
        /\ Stands(h, i.start, i.ext, i.op, i.arg) /\ Stands(t, i.start, i.ext, i.op, i.arg)
        /\ \A u \in (i.start + i.ext + 1)..(i.end - 1) : UnitOf(h, u).op = "CACHE"
    BY <1>5
  <2>2. ns[k] = i.start /\ ns[k + 1] = i.end /\ na[k] = i.arg /\ CacheUnits(i.op) = 0
    BY <1>3, <1>4
  <2>3. ns[k + 1] = ns[k] + i.ext + 1
    BY <2>1, <2>2
  <2>4. QED
    BY <2>1, <2>2, <2>3 DEF SameUnits
<1>7. ASSUME NEW k \in 1..n, NEW b \in 1..n, all[b].start = Target(all[k].op, all[k].end, all[k].arg)
      PROVE  ns[b] = Target(all[k].op, ns[k] + all[k].ext + 1 + CacheUnits(all[k].op), na[k])
  <2>1. ns[b] = all[b].start /\ ns[k] = all[k].start /\ na[k] = all[k].arg
    BY <1>3, <1>4
  <2>2. all[k].end = ns[k] + all[k].ext + 1 + CacheUnits(all[k].op)
    BY <1>5, <2>1
  <2>3. QED
    BY <1>7, <2>1, <2>2
<1>8. ASSUME NEW k \in 1..n, all[k].op = "CALL" PROVE FALSE
  BY <1>4, <1>8 DEF CacheUnits
<1>9. QED
  BY <1>3, <1>6, <1>7, <1>8 DEF Relays, n, ns, na

\* What Strip makes of the code and of the exception table.
Fits(co, all, ns) == \A k \in DOMAIN all : LET x == NewArg(Len(co.code), all, ns, k)
                                          IN  ~(x < 0) /\ ~(ExtCount(x) > all[k].ext)
StrippedCode(co, all, ns, ends) ==
    FlattenSeq([k \in DOMAIN all |-> StrippedUnits(all[k], NewArg(Len(co.code), all, ns, k), ends)])
MovedEntries(co, all, ns) == [e \in DOMAIN co.exc |-> Moved(Len(co.code), all, ns, co.exc[e])]

LEMMA StripIs ==
    ASSUME NEW co, Strips(co), NEW all, all = Instructions(co.code),
           NEW ends, ends = {co.exc[e].end : e \in DOMAIN co.exc},
           NEW ns, ns = NewStarts(all, ends)
    PROVE  \/ /\ \A k \in DOMAIN all : CacheUnits(all[k].op) = 0
              /\ Strip(co).code = co.code /\ Strip(co).exc = co.exc
           \/ /\ Fits(co, all, ns)
              /\ Strip(co).code = StrippedCode(co, all, ns, ends)
              /\ Strip(co).exc = MovedEntries(co, all, ns)
<1> DEFINE none == ""
           why == "jump argument"
           x(k) == NewArg(Len(co.code), all, ns, k)
           flat == FlattenSeq([k \in DOMAIN all |-> StrippedUnits(all[k], x(k), ends)])
           moved == [e \in DOMAIN co.exc |-> Moved(Len(co.code), all, ns, co.exc[e])]
           P == \A k \in DOMAIN all : CacheUnits(all[k].op) = 0
           Q == \E k \in DOMAIN all : x(k) < 0 \/ ExtCount(x(k)) > all[k].ext
           s == Strip(co)
<1>1. s = IF P THEN [code |-> co.code, exc |-> co.exc, bad |-> none]
          ELSE IF Q THEN [code |-> co.code, exc |-> co.exc, bad |-> why]
          ELSE [code |-> flat, exc |-> moved, bad |-> none]
  BY Zenon DEF Strip
<1>2. s.bad = none /\ none # why
  BY Zenon DEF Strips
<1> HIDE DEF none, why, flat, moved, s
<1>3. CASE P
  <2>1. s.code = co.code /\ s.exc = co.exc
    BY <1>1, <1>3
  <2>2. QED
    BY <1>3, <2>1 DEF s
<1>4. CASE ~P
  <2>1. ~Q
    <3>1. SUFFICES ASSUME Q PROVE FALSE
      OBVIOUS
    <3>2. s.bad = why
      BY <1>1, <1>4, <3>1
    <3>3. QED
      BY <1>2, <3>2
  <2>2. s.code = flat /\ s.exc = moved
    BY <1>1, <1>4, <2>1
  <2>3. \A k \in DOMAIN all : ~(x(k) < 0) /\ ~(ExtCount(x(k)) > all[k].ext)
    BY <2>1
  <2>4. QED
    BY <2>2, <2>3 DEF s, flat, moved, Fits, StrippedCode, MovedEntries
<1>5. QED
  BY <1>3, <1>4
\* Where Strip finds the instruction that was there.
LEMMA IndexIs ==
    ASSUME NEW code, WellFormed(code), NEW all, AreInstructions(code, all, 0), Len(all) > 0,
           NEW ns, NEW a \in 1..(Len(all) + 1)
    PROVE  NewIndex(Len(code), all, ns, HostStarts(code, all)[a]) = ns[a]
<1> DEFINE n == Len(all)
           hs == HostStarts(code, all)
           size == Len(code)
<1>1. n \in Nat
  BY DEF AreInstructions
<1>2. Climbs(hs, n) /\ hs[n + 1] = size /\ \A k \in 1..n : hs[k] = all[k].start
  BY HostStartsClimb
<1> HIDE DEF n, hs, size
<1>3. a \in 1..(n + 1)
  BY DEF n
<1>4. NewIndex(size, all, ns, hs[a]) = ns[a]
  <2>1. CASE a = n + 1
    BY <1>2, <2>1 DEF NewIndex, n
  <2>2. CASE a # n + 1
    <3>1. a \in 1..n /\ n + 1 \in 1..(n + 1)
      BY <1>1, <1>3, <2>2
    <3>2. (hs[n + 1] <= hs[a] <=> n + 1 <= a) /\ hs[a] \in Nat /\ hs[n + 1] \in Nat
      BY <1>1, <1>2, <1>3, <3>1, StartsOrder
    <3>3. hs[a] # size
      BY <1>1, <1>2, <3>1, <3>2
    <3> DEFINE P(k) == all[k].start = hs[a]
               c == CHOOSE k \in 1..n : P(k)
    <3>4. NewIndex(size, all, ns, hs[a]) = ns[c]
      BY <3>3 DEF NewIndex, n
    <3>5. P(a)
      BY <1>2, <3>1
    <3>6. ASSUME NEW k \in 1..n, P(k) PROVE k = a
      <4>1. k \in 1..(n + 1) /\ hs[k] = hs[a]
        BY <1>1, <1>2, <3>6
      <4>2. (hs[k] <= hs[a] <=> k <= a) /\ (hs[a] <= hs[k] <=> a <= k) /\ hs[k] \in Nat
        BY <1>1, <1>2, <1>3, <4>1, StartsOrder
      <4>3. QED
        BY <3>1, <4>1, <4>2
    <3> HIDE DEF P
    <3>7. c = a
      BY <3>1, <3>5, <3>6
    <3>8. QED
      BY <3>4, <3>7
  <2>3. QED
    BY <2>1, <2>2
<1>5. QED
  BY <1>4 DEF hs, size

\* What Strip leaves of an instruction is no longer than it was.
LEMMA NewStartsBelow ==
    ASSUME NEW code, WellFormed(code), NEW all, AreInstructions(code, all, 0), Len(all) > 0, NEW ends
    PROVE  /\ \A k \in 1..Len(all) : StrippedSize(all[k], ends) \in Nat \ {0}
           /\ \A k \in 1..(Len(all) + 1) : NewStarts(all, ends)[k] <= HostStarts(code, all)[k]
<1> DEFINE n == Len(all)
           hs == HostStarts(code, all)
           ns == NewStarts(all, ends)
<1>1. n \in Nat
  BY DEF AreInstructions
<1>2. Climbs(hs, n) /\ hs[1] = 0 /\ \A k \in 1..n : hs[k] = all[k].start /\ hs[k + 1] = all[k].end
  BY HostStartsClimb
<1>3. ASSUME NEW k \in 1..n
      PROVE  StrippedSize(all[k], ends) \in Nat \ {0} /\ hs[k] + StrippedSize(all[k], ends) <= hs[k + 1]
  <2> DEFINE i == all[k]
             c == CacheUnits(i.op)
             pad == IF PadAfter(i, ends) THEN 1 ELSE 0
  <2>1. i.ext \in 0..2 /\ i.end = i.start + i.ext + 1 + c
    BY DEF AreInstructions, IsInstruction
  <2>2. c \in 0..5
    BY CacheUnitsIs
  <2>3. PadAfter(i, ends) => c = 3
    BY DEF PadAfter, CacheUnits
  <2>4. pad \in 0..1 /\ pad <= c
    <3>1. CASE PadAfter(i, ends)
      BY <2>3, <3>1
    <3>2. CASE ~PadAfter(i, ends)
      BY <2>2, <3>2
    <3>3. QED
      BY <3>1, <3>2
  <2>5. StrippedSize(i, ends) = i.ext + 1 + pad
    BY DEF StrippedSize
  <2>6. hs[k] = i.start /\ hs[k + 1] = i.end /\ hs[k] \in Nat
    <3>1. k \in 1..(n + 1)
      BY <1>1
    <3>2. QED
      BY <1>2, <3>1 DEF Climbs
  <2> DEFINE size == StrippedSize(i, ends)
             from == hs[k]
             to == hs[k + 1]
             ext == i.ext
  <2>7. /\ ext \in 0..2 /\ c \in 0..5 /\ pad \in 0..1 /\ pad <= c /\ size = ext + 1 + pad
        /\ from \in Nat /\ to = from + ext + 1 + c
    BY <2>1, <2>2, <2>4, <2>5, <2>6
  <2> HIDE DEF i, c, pad, hs, size, from, to, ext
  <2>8. size \in Nat \ {0} /\ from + size <= to
    BY ONLY <2>7
  <2>9. QED
    BY <2>8 DEF i, size, from, to
<1>4. /\ ns[1] = 0 /\ \A k \in 1..n : ns[k + 1] = ns[k] + StrippedSize(all[k], ends)
      /\ Climbs(ns, n)
  BY <1>1, <1>3, NewStartsAre
<1> HIDE DEF n, hs, ns
<1> DEFINE S == {d \in 0..n : ns[d + 1] <= hs[d + 1]}
<1>5. 0 \in S
  BY <1>1, <1>2, <1>4
<1>6. ASSUME NEW d \in 0..n - 1, d \in S PROVE d + 1 \in S
  <2> DEFINE k == d + 1
  <2>1. k \in 1..n /\ k \in 0..n /\ k \in 1..(n + 1) /\ k + 1 \in 1..(n + 1)
    BY <1>1
  <2>2. ns[k] <= hs[k]
    BY <1>6
  <2> HIDE DEF k
  <2>3. /\ ns[k] \in Nat /\ hs[k] \in Nat /\ hs[k + 1] \in Nat
        /\ ns[k + 1] = ns[k] + StrippedSize(all[k], ends)
        /\ StrippedSize(all[k], ends) \in Nat /\ hs[k] + StrippedSize(all[k], ends) <= hs[k + 1]
    BY <1>2, <1>3, <1>4, <2>1 DEF Climbs
  <2>4. ns[k + 1] <= hs[k + 1]
    BY <2>2, <2>3
  <2>5. QED
    BY <2>1, <2>4 DEF k
<1> HIDE DEF S
<1>7. \A d \in 0..n - 1 : d \in S => d + 1 \in S
  BY <1>6
<1>8. 0..n \subseteq S
  BY ONLY <1>1, <1>5, <1>7, CountUp
<1>9. ASSUME NEW k \in 1..(n + 1) PROVE ns[k] <= hs[k]
  <2>1. k - 1 \in S /\ (k - 1) + 1 = k
    BY <1>1, <1>8
  <2>2. QED
    BY <2>1 DEF S
<1>10. QED
  BY <1>3, <1>9 DEF n, ns, hs

\* The argument an instruction has in the new layout: that of a jump is the
\* way between the new places.
LEMMA NewArgIs ==
    ASSUME NEW code, WellFormed(code), NEW all, AreInstructions(code, all, 0), Len(all) > 0, NEW ends,
           NEW k \in 1..Len(all)
    PROVE  LET i == all[k]
               ns == NewStarts(all, ends)
               x == NewArg(Len(code), all, ns, k)
               from == ns[k] + i.ext + 1 + CacheUnits(i.op)
           IN  /\ i.op \notin Jumps => x = i.arg
               /\ \A b \in 1..Len(all) :
                    i.op \in Jumps /\ all[b].start = Target(i.op, i.end, i.arg) =>
                        /\ ns[b] = Target(i.op, from, x) /\ x \in Int
                        /\ x < RADIX * RADIX * RADIX
<1> DEFINE n == Len(all)
           hs == HostStarts(code, all)
           ns == NewStarts(all, ends)
           i == all[k]
           x == NewArg(Len(code), all, ns, k)
           from == ns[k] + i.ext + 1 + CacheUnits(i.op)
           RRR == RADIX * RADIX * RADIX
<1>1. n \in Nat
  BY DEF AreInstructions
<1>2. /\ Climbs(hs, n) /\ hs[n + 1] = Len(code)
      /\ \A j \in 1..n : hs[j] = all[j].start /\ hs[j + 1] = all[j].end
  BY HostStartsClimb
<1>3. /\ \A j \in 1..n : StrippedSize(all[j], ends) \in Nat \ {0}
      /\ \A j \in 1..(n + 1) : ns[j] <= hs[j]
  BY NewStartsBelow
<1>4. Climbs(ns, n)
  BY <1>1, <1>3, NewStartsAre
<1>5. i.ext \in 0..2 /\ i.end = i.start + i.ext + 1 + CacheUnits(i.op) /\ CacheUnits(i.op) \in 0..5
  BY CacheUnitsIs DEF AreInstructions, IsInstruction
<1>6. Len(code) \in Nat /\ Len(code) < RRR
  BY DEF WellFormed
<1>7. Backward \subseteq Jumps
  BY DEF Jumps
<1>8. x = IF i.op \in Backward THEN from - NewIndex(Len(code), all, ns, i.end - i.arg)
          ELSE IF i.op \in Jumps THEN NewIndex(Len(code), all, ns, i.end + i.arg) - from
          ELSE i.arg
  BY DEF NewArg
<1>9. RRR \in Nat
  BY RadixAssumption
<1>10. i.op \notin Jumps => x = i.arg
  BY <1>7, <1>8
<1> DEFINE size == Len(code)
<1>11. ASSUME NEW b \in 1..n, i.op \in Jumps, all[b].start = Target(i.op, i.end, i.arg)
       PROVE  ns[b] = Target(i.op, from, x) /\ x \in Int /\ x < RRR
  <2>1. NewIndex(Len(code), all, ns, all[b].start) = ns[b]
    <3>1. b \in 1..(Len(all) + 1) /\ hs[b] = all[b].start
      BY <1>1, <1>2
    <3>2. NewIndex(Len(code), all, ns, hs[b]) = ns[b]
      BY <3>1, IndexIs
    <3>3. QED
      BY <3>1, <3>2
  <2>2. b \in 1..(n + 1) /\ k \in 1..(n + 1) /\ k + 1 \in 1..(n + 1) /\ n + 1 \in 1..(n + 1) /\ b <= n + 1 /\ k + 1 <= n + 1
    BY <1>1
  <2>3. ns[b] \in Nat /\ ns[k] \in Nat
    BY <1>4, <2>2 DEF Climbs
  <2>4. hs[k] = i.start /\ hs[k] \in Nat /\ hs[k + 1] = i.end /\ ns[k] <= hs[k] /\ ns[b] <= hs[b] /\ hs[b] \in Nat
    BY <1>2, <1>3, <2>2 DEF Climbs
  <2>5. hs[k + 1] <= hs[n + 1] /\ hs[b] <= hs[n + 1]
    BY <1>1, <1>2, <2>2, StartsOrder
  <2> DEFINE c == CacheUnits(i.op)
  <2> HIDE DEF n, hs, ns, x, i, c, RRR, size
  <2>6. c \in 0..5 /\ i.end = i.start + i.ext + 1 + c /\ from = ns[k] + i.ext + 1 + c /\ i.ext \in 0..2
    BY <1>5 DEF c
  <2> HIDE DEF from
  <2>7. from \in Nat /\ from <= i.end
    <3> DEFINE nk == ns[k]
               hk == hs[k]
               e == i.ext
               z == i.end
    <3>1. nk \in Nat /\ hk \in Nat /\ nk <= hk /\ e \in Nat /\ c \in Nat
      BY <2>3, <2>4, <2>6
    <3>2. from = nk + e + 1 + c /\ z = hk + e + 1 + c
      BY <2>4, <2>6
    <3> HIDE DEF nk, hk, e, z
    <3>3. from \in Nat /\ from <= z
      BY <3>1, <3>2
    <3>4. QED
      BY <3>3 DEF z
  <2>8. size \in Nat /\ size < RRR /\ hs[n + 1] = size
    BY <1>2, <1>6 DEF size
  <2>9. i.end <= size /\ ns[b] <= size
    BY <2>3, <2>4, <2>5, <2>8
  <2>10. i.end \in Int
    BY <2>4, <2>6
  <2>11. CASE i.op \in Backward
    <3>1. all[b].start = i.end - i.arg
      BY <1>11, <2>11 DEF Target
    <3>2. x = from - ns[b]
      BY <1>8, <2>1, <2>11, <3>1
    <3>3. x \in Int /\ x < RRR /\ from - x = ns[b]
      BY <1>9, <2>3, <2>7, <2>8, <2>9, <2>10, <3>2
    <3>4. QED
      BY <2>11, <3>3 DEF Target
  <2>12. CASE i.op \notin Backward
    <3>1. all[b].start = i.end + i.arg
      BY <1>11, <2>12 DEF Target
    <3>2. x = ns[b] - from
      BY <1>8, <1>11, <2>1, <2>12, <3>1
    <3>3. x \in Int /\ x < RRR /\ from + x = ns[b]
      BY <1>9, <2>3, <2>7, <2>8, <2>9, <3>2
    <3>4. QED
      BY <2>12, <3>3 DEF Target
  <2>13. QED
    BY <2>11, <2>12
<1>12. QED
  BY <1>10, <1>11
LEMMA StrippedRelays ==
    ASSUME NEW co, Lays(co), NEW all, all = Instructions(co.code),
           NEW ends, ends = {co.exc[e].end : e \in DOMAIN co.exc},
           NEW ns, ns = NewStarts(all, ends),
           Fits(co, all, ns), NEW flat, flat = StrippedCode(co, all, ns, ends),
           NEW h, HoldsCode(h, co.code), NEW t, HoldsCode(t, flat),
           t.exc = MovedEntries(co, all, ns)
    PROVE  \E a : Relays(co, h, t, all, ns, a)
<1> DEFINE n == Len(all)
           code == co.code
           hs == HostStarts(code, all)
           x(k) == NewArg(Len(code), all, ns, k)
           na == [k \in 1..n |-> x(k)]
           u(k) == StrippedUnits(all[k], x(k), ends)
           size(k) == StrippedSize(all[k], ends)
           RRR == RADIX * RADIX * RADIX
<1>1. WellFormed(code)
  BY DEF Lays
<1>2. AreInstructions(code, all, 0) /\ n > 0
  BY <1>1, InstructionsAre
<1>3. n \in Nat \ {0} /\ DOMAIN all = 1..n /\ \A k \in 1..n : IsInstruction(code, all[k])
  BY <1>2 DEF AreInstructions
<1>4. \A k \in 1..n : size(k) \in Nat \ {0}
  BY <1>1, <1>2, NewStartsBelow
<1>5. ns[1] = 0 /\ (\A k \in 1..n : ns[k + 1] = ns[k] + size(k)) /\ Climbs(ns, n)
  <2> DEFINE new == NewStarts(all, ends)
  <2>1. new[1] = 0 /\ (\A k \in 1..n : new[k + 1] = new[k] + size(k)) /\ Climbs(new, n)
    <3>1. Len(all) \in Nat /\ \A k \in 1..Len(all) : StrippedSize(all[k], ends) \in Nat \ {0}
      BY <1>3, <1>4
    <3>2. QED
      BY ONLY <3>1, NewStartsAre
  <2>2. ns = new
    OBVIOUS
  <2> HIDE DEF new, n, size
  <2>3. QED
    BY ONLY <2>1, <2>2
<1>6. \A k \in 1..n :
        LET i == all[k]
        IN  /\ i.op # "EXTENDED_ARG" /\ i.ext \in 0..2 /\ i.start \in Nat
            /\ i.end = i.start + i.ext + 1 + CacheUnits(i.op)
            /\ Stands(h, i.start, i.ext, i.op, i.arg)
            /\ \A v \in (i.start + i.ext + 1)..(i.end - 1) : UnitOf(h, v).op = "CACHE"
            /\ i.arg \in Nat /\ i.arg < RRR
  BY <1>1, <1>3, UnitsStand
<1>7. \A k \in 1..n : Len(u(k)) = size(k) /\ u(k) = [j \in 1..Len(u(k)) |-> u(k)[j]]
                      /\ size(k) = all[k].ext + 1 + (IF PadAfter(all[k], ends) THEN 1 ELSE 0)
  <2>1. ASSUME NEW k \in 1..n
        PROVE  /\ Len(u(k)) = size(k) /\ u(k) = [j \in 1..Len(u(k)) |-> u(k)[j]]
               /\ size(k) = all[k].ext + 1 + (IF PadAfter(all[k], ends) THEN 1 ELSE 0)
    <3> DEFINE i == all[k]
               y == x(k)
               w == u(k)
    <3>1. i.ext \in 0..2
      BY <1>6
    <3> HIDE DEF i, y
    <3>2. AreUnits(StrippedUnits(i, y, ends), i, y, ends)
      BY ONLY <3>1, StrippedUnitsAre
    <3>3. AreUnits(w, i, y, ends)
      BY <3>2 DEF i, y
    <3> HIDE DEF w
    <3>4. /\ Len(w) = StrippedSize(i, ends) /\ w = [j \in 1..Len(w) |-> w[j]]
          /\ StrippedSize(i, ends) = i.ext + 1 + (IF PadAfter(i, ends) THEN 1 ELSE 0)
      BY ONLY <3>3 DEF AreUnits
    <3>5. QED
      BY <3>4 DEF i, w
  <2>2. QED
    BY <2>1
<1>8. \A k \in 1..n : ~(x(k) < 0) /\ ~(ExtCount(x(k)) > all[k].ext)
  BY <1>3 DEF Fits
<1>9. ASSUME NEW k \in 1..n, NEW b \in 1..n, all[k].op \in Jumps,
             all[b].start = Target(all[k].op, all[k].end, all[k].arg)
      PROVE  /\ ns[b] = Target(all[k].op, ns[k] + all[k].ext + 1 + CacheUnits(all[k].op), x(k))
             /\ x(k) \in Int /\ x(k) < RRR
  BY <1>1, <1>2, <1>9, NewArgIs
<1>10. \A k \in 1..n : all[k].op \notin Jumps => x(k) = all[k].arg
  BY <1>1, <1>2, NewArgIs
<1>11. ASSUME NEW k \in 1..n, all[k].op \in Known \/ all[k].op \notin Jumps
       PROVE  x(k) \in Nat /\ x(k) < RRR /\ ExtCount(x(k)) <= all[k].ext
  <2>1. ExtCount(x(k)) \in 0..2
    BY DEF ExtCount
  <2>2. ExtCount(x(k)) <= all[k].ext
    <3> DEFINE c == ExtCount(x(k))
    <3>1. c \in 0..2 /\ ~(c > all[k].ext) /\ all[k].ext \in 0..2
      BY <1>6, <1>8, <2>1
    <3> HIDE DEF c
    <3>2. c <= all[k].ext
      BY <3>1
    <3>3. QED
      BY <3>2 DEF c
  <2>3. CASE all[k].op \notin Jumps
    <3>1. x(k) = all[k].arg /\ all[k].arg \in Nat /\ all[k].arg < RRR
      BY <1>6, <1>10, <2>3
    <3>2. QED
      BY <2>2, <3>1
  <2>4. CASE all[k].op \in Jumps
    <3>1. PICK b \in 1..n : JumpsTo(all, k, b)
      BY <1>11, <2>4 DEF Lays
    <3>2. x(k) \in Int /\ x(k) < RRR
      BY <1>9, <2>4, <3>1 DEF JumpsTo
    <3>3. ~(x(k) < 0)
      BY <1>8
    <3> HIDE DEF x, RRR
    <3>4. x(k) \in Nat
      BY <3>2, <3>3
    <3>5. QED
      BY <2>2, <3>2, <3>4
  <2>5. QED
    BY <2>3, <2>4
<1> DEFINE S == UNION {{u(k)[j] : j \in 1..Len(u(k))} : k \in 1..n}
           us == [k \in 1..n |-> u(k)]
<1>12. \A k \in 1..n : u(k) \in Seq(S)
  <2>1. ASSUME NEW k \in 1..n PROVE u(k) \in Seq(S)
    <3> DEFINE w == u(k)
               l == Len(w)
    <3>1. l \in Nat /\ w = [j \in 1..l |-> w[j]]
      BY <1>4, <1>7
    <3>2. \A j \in 1..l : w[j] \in S
      <4> DEFINE Z(q) == {u(q)[j] : j \in 1..Len(u(q))}
      <4>1. \A j \in 1..l : w[j] \in Z(k)
        OBVIOUS
      <4>2. S = UNION {Z(q) : q \in 1..n}
        OBVIOUS
      <4> HIDE DEF Z, S, w, l
      <4>3. QED
        BY <4>1, <4>2
    <3> HIDE DEF w, l, S
    <3>3. w \in [1..l -> S]
      BY <3>1, <3>2
    <3>4. w \in Seq(S)
      BY <3>1, <3>3
    <3>5. QED
      BY <3>4 DEF w
  <2>2. QED
    BY <2>1
<1>13. flat = FlattenSeq(us)
  BY <1>3 DEF StrippedCode
<1> HIDE DEF S
<1>14. Len(us) = n /\ \A k \in 1..n : us[k] = u(k)
  <2> HIDE DEF u, n
  <2>1. QED
    BY <1>3
<1>15. /\ Len(flat) = ns[n + 1]
       /\ \A k \in 1..n : \A j \in 1..size(k) : flat[ns[k] + j] = u(k)[j]
  <2> HIDE DEF us, u, n, size
  <2>1. \A k \in 1..n : us[k] \in Seq(S)
    BY <1>12, <1>14
  <2>2. \A k \in 1..n : Len(us[k]) = size(k) /\ us[k] = u(k)
    BY <1>7, <1>14
  <2>3. \A k \in 1..n : ns[k + 1] = ns[k] + Len(us[k])
    BY <1>5, <2>2
  <2>4. n \in Nat \ {0} /\ Len(us) = n /\ ns[1] = 0 /\ Climbs(ns, n)
    BY <1>3, <1>5, <1>14
  <2>5. /\ Len(FlattenSeq(us)) = ns[n + 1]
        /\ \A k \in 1..n : \A j \in 1..Len(us[k]) : FlattenSeq(us)[ns[k] + j] = us[k][j]
    <3>1. Strung(S, n, us, ns)
      BY ONLY <2>1, <2>3, <2>4 DEF Strung
    <3>2. QED
      BY ONLY <3>1, Flattened
  <2>6. flat = FlattenSeq(us)
    BY <1>13
  <2>7. Len(flat) = ns[n + 1]
    BY ONLY <2>5, <2>6
  <2>8. ASSUME NEW k \in 1..n, NEW j \in 1..size(k) PROVE flat[ns[k] + j] = u(k)[j]
    <3>1. j \in 1..Len(us[k]) /\ us[k] = u(k)
      BY <2>2
    <3>2. FlattenSeq(us)[ns[k] + j] = us[k][j]
      BY ONLY <2>5, <3>1, k \in 1..n
    <3>3. QED
      BY ONLY <2>6, <3>1, <3>2
  <2>9. QED
    BY <2>7, <2>8
<1>16. ASSUME NEW k \in 1..n, NEW j \in 1..size(k) PROVE UnitOf(t, ns[k] + (j - 1)) = u(k)[j]
  <2> DEFINE v == ns[k] + (j - 1)
  <2>1. ns[k + 1] <= ns[n + 1] /\ ns[k + 1] = ns[k] + size(k) /\ ns[k] \in Nat /\ ns[n + 1] \in Nat /\ size(k) \in Nat
    <3>1. k \in 1..(n + 1) /\ k + 1 \in 1..(n + 1) /\ n + 1 \in 1..(n + 1) /\ k + 1 <= n + 1
      BY <1>3
    <3> HIDE DEF n, size
    <3>2. QED
      BY <1>3, <1>4, <1>5, <3>1, StartsOrder DEF Climbs
  <2>2. v \in 0..(Len(flat) - 1) /\ v + 1 = ns[k] + j
    <3> DEFINE a == ns[k]
               z == ns[n + 1]
               d == size(k)
    <3>1. a \in Nat /\ z \in Nat /\ d \in Nat /\ a + d <= z /\ j \in 1..d /\ Len(flat) = z
      BY <1>15, <2>1
    <3> HIDE DEF a, z, d
    <3>2. a + (j - 1) \in 0..(z - 1) /\ (a + (j - 1)) + 1 = a + j
      BY <3>1
    <3>3. QED
      BY <3>1, <3>2 DEF a
  <2>3. UnitOf(t, v) = flat[v + 1]
    BY <2>2 DEF HoldsCode, At
  <2> HIDE DEF v, u, size, n
  <2>4. flat[ns[k] + j] = u(k)[j]
    BY <1>15, <1>16
  <2>5. UnitOf(t, v) = u(k)[j]
    BY <2>2, <2>3, <2>4
  <2>6. QED
    BY <2>5 DEF v
<1>17. ASSUME NEW k \in 1..n, all[k].op \in Known \/ all[k].op \notin Jumps
       PROVE  /\ Stands(t, ns[k], all[k].ext, all[k].op, x(k))
              /\ PadAfter(all[k], ends) => UnitOf(t, ns[k] + all[k].ext + 1).op = "NOP"
  <2>1. \A j \in 1..StrippedSize(all[k], ends) : UnitOf(t, ns[k] + (j - 1)) = StrippedUnits(all[k], x(k), ends)[j]
    BY <1>16
  <2>2. x(k) \in Nat /\ x(k) < RADIX * RADIX * RADIX /\ ExtCount(x(k)) <= all[k].ext
    BY <1>11, <1>17
  <2>3. all[k].ext \in 0..2 /\ ns[k] \in Nat
    <3>1. k \in 1..(n + 1)
      BY <1>3
    <3>2. QED
      BY <1>5, <1>6, <3>1 DEF Climbs
  <2> DEFINE i == all[k]
             y == x(k)
             v == ns[k]
  <2> HIDE DEF i, y, v
  <2>4. /\ i.ext \in 0..2 /\ v \in Nat /\ y \in Nat /\ y < RADIX * RADIX * RADIX /\ ExtCount(y) <= i.ext
        /\ \A j \in 1..StrippedSize(i, ends) : UnitOf(t, v + (j - 1)) = StrippedUnits(i, y, ends)[j]
    BY ONLY <2>1, <2>2, <2>3 DEF i, y, v
  <2>5. Stands(t, v, i.ext, i.op, y) /\ (PadAfter(i, ends) => UnitOf(t, v + i.ext + 1).op = "NOP")
    BY ONLY <2>4, LaidOut
  <2>6. QED
    BY ONLY <2>5 DEF i, y, v
<1>18. ASSUME NEW k \in 1..n, PadAfter(all[k], ends)
       PROVE  CacheUnits(all[k].op) > 0 /\ all[k].op \notin Jumps
  BY <1>18 DEF PadAfter, CacheUnits, Jumps, Backward
<1>19. ASSUME NEW k \in 1..n PROVE SameUnits(h, t, all, ns, na, k)
  <2> DEFINE i == all[k]
  <2>1. na[k] = x(k)
    OBVIOUS
  <2>2. i.op \in Known => Stands(t, ns[k], i.ext, i.op, x(k))
    BY <1>17
  <2>3. \/ ns[k + 1] = ns[k] + i.ext + 1
        \/ /\ CacheUnits(i.op) > 0 /\ ns[k + 1] = ns[k] + i.ext + 2
           /\ UnitOf(t, ns[k] + i.ext + 1).op = "NOP"
    <3>1. ns[k + 1] = ns[k] + size(k) /\ ns[k] \in Nat /\ i.ext \in 0..2
      <4>1. k \in 1..(n + 1)
        BY <1>3
      <4>2. QED
        BY <1>5, <1>6, <4>1 DEF Climbs
    <3>2. CASE PadAfter(i, ends)
      <4>1. size(k) = i.ext + 1 + 1
        BY <1>7, <3>2
      <4>2. CacheUnits(i.op) > 0 /\ UnitOf(t, ns[k] + i.ext + 1).op = "NOP"
        BY <1>17, <1>18, <3>2
      <4> HIDE DEF i, size
      <4>3. ns[k + 1] = ns[k] + i.ext + 2
        BY <3>1, <4>1
      <4>4. QED
        BY <4>2, <4>3
    <3>3. CASE ~PadAfter(i, ends)
      <4>1. size(k) = i.ext + 1 + 0
        BY <1>7, <3>3
      <4> HIDE DEF i, size
      <4>2. ns[k + 1] = ns[k] + i.ext + 1
        BY <3>1, <4>1
      <4>3. QED
        BY <4>2
    <3>4. QED
      BY <3>2, <3>3
  <2>4. ns[k] \in Nat
    <3>1. k \in 1..(n + 1)
      BY <1>3
    <3>2. QED
      BY <1>5, <3>1 DEF Climbs
  <2> HIDE DEF x, na
  <2>5. QED
    BY <1>6, <1>10, <2>1, <2>2, <2>3, <2>4 DEF SameUnits
<1>20. ASSUME NEW e \in DOMAIN co.exc
       PROVE  /\ t.exc[e].depth = co.exc[e].depth /\ t.exc[e].lasti = co.exc[e].lasti
              /\ \A a \in 1..(n + 1) :
                    /\ hs[a] = co.exc[e].start => t.exc[e].start = ns[a]
                    /\ hs[a] = co.exc[e].end => t.exc[e].end = ns[a]
                    /\ hs[a] = co.exc[e].target => t.exc[e].target = ns[a]
              /\ \A k \in 1..n : all[k].op = "CALL" /\ all[k].end = co.exc[e].end
                                    => ns[k + 1] # ns[k] + all[k].ext + 1
  <2> DEFINE w == co.exc[e]
             y == t.exc[e]
             index(old) == NewIndex(Len(code), all, ns, old)
  <2>1. w \in [start : Nat, end : Nat, target : Nat, depth : Nat, lasti : BOOLEAN]
    BY DEF Lays
  <2>2. y = Moved(Len(code), all, ns, w)
    BY DEF MovedEntries
  <2>3. y = [w EXCEPT !.start = index(w.start), !.end = index(w.end), !.target = index(w.target)]
    BY <2>2 DEF Moved
  <2>4. ASSUME NEW a \in 1..(n + 1) PROVE index(hs[a]) = ns[a]
    BY <1>1, <1>2, IndexIs
  <2>5. ASSUME NEW k \in 1..n, all[k].op = "CALL", all[k].end = w.end PROVE ns[k + 1] # ns[k] + all[k].ext + 1
    <3>1. w.end \in ends
      OBVIOUS
    <3>2. PadAfter(all[k], ends)
      BY <2>5, <3>1 DEF PadAfter
    <3>3. size(k) = all[k].ext + 1 + 1
      BY <1>7, <3>2
    <3>4. ns[k + 1] = ns[k] + size(k) /\ ns[k] \in Nat /\ all[k].ext \in 0..2
      <4>1. k \in 1..(n + 1)
        BY <1>3
      <4>2. QED
        BY <1>5, <1>6, <4>1 DEF Climbs
    <3> HIDE DEF size
    <3>5. QED
      BY <3>3, <3>4
  <2> HIDE DEF index, w, y, hs, n
  <2>6. /\ y.depth = w.depth /\ y.lasti = w.lasti /\ y.start = index(w.start)
        /\ y.end = index(w.end) /\ y.target = index(w.target)
    BY <2>1, <2>3
  <2>7. QED
    BY <2>4, <2>5, <2>6 DEF w, y
<1>21. DOMAIN t.exc = DOMAIN co.exc
  BY DEF MovedEntries
<1>22. ASSUME NEW k \in 1..n, NEW b \in 1..n, all[k].op \in Jumps \cap Known,
              all[b].start = Target(all[k].op, all[k].end, all[k].arg)
       PROVE  ns[b] = Target(all[k].op, ns[k] + all[k].ext + 1 + CacheUnits(all[k].op), na[k])
  BY <1>9, <1>22
<1> HIDE DEF x, na, hs
<1>23. Relays(co, h, t, all, ns, na)
  BY <1>5, <1>19, <1>20, <1>21, <1>22 DEF Relays, hs
<1>24. QED
  BY <1>23
-----------------------------------------------------------------------------
(* Strip lays the same instructions out *)

LEMMA HostHolds ==
    ASSUME NEW obj, NEW code, Len(code) \in Nat, obj.code = code, obj.at = 0
    PROVE  HoldsCode(obj, code)
<1>1. SUFFICES ASSUME NEW u \in 0..(Len(code) - 1)
               PROVE  UnitOf(obj, u) = At(code, u)
  BY DEF HoldsCode
<1>2. obj.at + u + 1 = u + 1
  OBVIOUS
<1>3. UnitOf(obj, u) = code[obj.at + u + 1] /\ At(code, u) = code[u + 1]
  BY Zenon DEF UnitOf, At
<1>4. QED
  BY <1>2, <1>3

\* Whichever way Strip went, the units and entries of the hart relay the host's.
LEMMA StripRelays ==
    ASSUME NEW co, Lays(co), Strips(co), NEW all, all = Instructions(co.code),
           NEW ends, ends = {co.exc[e].end : e \in DOMAIN co.exc},
           NEW ns, ns = NewStarts(all, ends),
           NEW h, HoldsCode(h, co.code),
           NEW t, HoldsCode(t, Strip(co).code), t.exc = Strip(co).exc
    PROVE  \E s, a : Relays(co, h, t, all, s, a)
<1> DEFINE flat == StrippedCode(co, all, ns, ends)
           moved == MovedEntries(co, all, ns)
           within == Fits(co, all, ns)
           plain == \A k \in DOMAIN all : CacheUnits(all[k].op) = 0
<1>1. \/ plain /\ Strip(co).code = co.code /\ Strip(co).exc = co.exc
      \/ within /\ Strip(co).code = flat /\ Strip(co).exc = moved
  BY StripIs
<1>2. DOMAIN all = 1..Len(all)
  <2>1. WellFormed(co.code)
    BY DEF Lays
  <2>2. AreInstructions(co.code, all, 0)
    BY <2>1, InstructionsAre
  <2>3. QED
    BY <2>2 DEF AreInstructions
<1>3. ASSUME plain, HoldsCode(t, co.code), t.exc = co.exc PROVE \E s, a : Relays(co, h, t, all, s, a)
  <2>1. \A k \in 1..Len(all) : CacheUnits(all[k].op) = 0
    BY <1>2, <1>3
  <2>2. Relays(co, h, t, all, HostStarts(co.code, all), [k \in 1..Len(all) |-> all[k].arg])
    BY <1>3, <2>1, UntouchedRelays
  <2>3. QED
    BY <2>2
<1>4. ASSUME within, HoldsCode(t, flat), t.exc = moved PROVE \E s, a : Relays(co, h, t, all, s, a)
  <2>1. \E a : Relays(co, h, t, all, ns, a)
    BY <1>4, StrippedRelays
  <2>2. QED
    BY <2>1
<1> HIDE DEF flat, moved, within, plain
<1>5. (HoldsCode(t, co.code) /\ t.exc = co.exc /\ plain) \/ (HoldsCode(t, flat) /\ t.exc = moved /\ within)
  BY <1>1
<1>6. QED
  BY <1>3, <1>4, <1>5

LEMMA StrippedSame ==
    ASSUME NEW p, NEW co, StrippedFrom(p, co)
    PROVE  \E all, ns, na : SameLayout(p.host, p.hart, all, ns, na)
<1> DEFINE h == p.host
           t == p.hart
           code == Strip(co).code
<1>1. /\ Lays(co) /\ Strips(co)
      /\ h.code = co.code /\ h.at = 0 /\ h.exc = co.exc /\ h.illegal = {}
      /\ HoldsCode(t, code) /\ t.exc = Strip(co).exc
      /\ t.illegal = {"SET_FUNCTION_ATTRIBUTE", "LOAD_BUILD_CLASS", "JUMP_BACKWARD_NO_INTERRUPT"}
      /\ t.names = h.names /\ t.consts = h.consts
  BY DEF StrippedFrom
<1> DEFINE all == Instructions(co.code)
<1> HIDE DEF h, t
<1>2. HoldsCode(h, co.code)
  <2>1. Len(co.code) \in Nat
    BY <1>1 DEF Lays, WellFormed
  <2>2. QED
    BY <1>1, <2>1, HostHolds
<1>3. PICK s, a : Relays(co, h, t, all, s, a)
  BY <1>1, <1>2, StripRelays
<1>4. SameLayout(h, t, all, s, a)
  BY <1>1, <1>3, RelaysSame
<1>5. QED
  BY <1>4 DEF h, t
-----------------------------------------------------------------------------
(* The runs of the programs *)

Accepted(p) == p.bad = ""

\* The host has come to an effect or to its end.
HostSettles == stage = "run" => Settled(prog.host, host)

\* In a run the two machines correspond, by one numbering of the instructions.
Simulates(p, m, c) ==
    \E all, ns, na : SameLayout(p.host, p.hart, all, ns, na) /\ Alike(p.host, p.hart, all, ns, m, c)
Corresponds ==
    /\ prog \in Programs /\ stage \in {"source", "rejected", "run"}
    /\ stage = "source" => host = Start /\ hart = Start
    /\ stage = "run" => Simulates(prog, host, hart)

LEMMA SimulatesStart ==
    ASSUME NEW p, NEW co, StrippedFrom(p, co)
    PROVE  Simulates(p, Start, Start)
<1>1. PICK all, ns, na : SameLayout(p.host, p.hart, all, ns, na)
  BY StrippedSame
<1>2. 1 \in 1..Len(all) /\ all[1].start = 0 /\ ns[1] = 0 /\ all[1].op \in Known
  BY <1>1 DEF SameLayout
<1>3. IsMachine(Start) /\ Start.pc = 0 /\ Start.ext = 0
  BY DEF Start, IsMachine
<1>4. Alike(p.host, p.hart, all, ns, Start, Start)
  BY <1>1, <1>2, <1>3, AlikeAt
<1>5. QED
  BY <1>1, <1>4 DEF Simulates

LEMMA SimulatesSettle ==
    ASSUME NEW p, NEW m, NEW c, Simulates(p, m, c), Settled(p.host, Settle(p.host, m))
    PROVE  Simulates(p, Settle(p.host, m), Settle(p.hart, c))
<1>1. PICK all, ns, na : SameLayout(p.host, p.hart, all, ns, na) /\ Alike(p.host, p.hart, all, ns, m, c)
  BY DEF Simulates
<1>2. Alike(p.host, p.hart, all, ns, Settle(p.host, m), Settle(p.hart, c))
  BY <1>1, SameSettle
<1>3. QED
  BY <1>1, <1>2 DEF Simulates

LEMMA SimulatesPerform ==
    ASSUME NEW p, NEW m, NEW c, Simulates(p, m, c), ~Ended(m), Settled(p.host, m),
           NEW o, o \in Outcomes(p.host, m), o \in Outcomes(p.hart, c)
    PROVE  Simulates(p, Perform(p.host, m, o, 0), Perform(p.hart, c, o, 1))
<1>1. PICK all, ns, na : SameLayout(p.host, p.hart, all, ns, na) /\ Alike(p.host, p.hart, all, ns, m, c)
  BY DEF Simulates
<1>2. Alike(p.host, p.hart, all, ns, Perform(p.host, m, o, 0), Perform(p.hart, c, o, 1))
  BY <1>1, SamePerform
<1>3. QED
  BY <1>1, <1>2 DEF Simulates

LEMMA SimulatesSame ==
    ASSUME NEW p, NEW m, NEW c, Simulates(p, m, c), Settled(p.host, m)
    PROVE  Settled(p.hart, c) /\ Effect(p.host, m) = Effect(p.hart, c)
<1>1. PICK all, ns, na : SameLayout(p.host, p.hart, all, ns, na) /\ Alike(p.host, p.hart, all, ns, m, c)
  BY DEF Simulates
<1>2. QED
  BY <1>1, SameSettled

LEMMA Built ==
    ASSUME \A p \in Programs : Accepted(p) => \E co : StrippedFrom(p, co),
           Corresponds, BuildImageOf, HostSettles'
    PROVE  Corresponds'
<1>1. prog' = prog /\ prog \in Programs /\ host = Start /\ hart = Start
  BY DEF Corresponds, BuildImageOf
<1>2. \/ /\ Accepted(prog) /\ stage' = "run"
         /\ host' = Settle(prog.host, Start) /\ hart' = Settle(prog.hart, Start)
      \/ stage' = "rejected"
  BY Zenon DEF BuildImageOf, Accepted
<1>3. CASE /\ Accepted(prog) /\ stage' = "run"
           /\ host' = Settle(prog.host, Start) /\ hart' = Settle(prog.hart, Start)
  <2>1. PICK co : StrippedFrom(prog, co)
    BY <1>1, <1>3
  <2>2. Simulates(prog, Start, Start)
    BY <2>1, SimulatesStart
  <2>3. Settled(prog.host, Settle(prog.host, Start))
    BY <1>1, <1>3 DEF HostSettles
  <2>4. Simulates(prog, host', hart')
    BY <1>3, <2>2, <2>3, SimulatesSettle
  <2>5. QED
    BY <1>1, <1>3, <2>4 DEF Corresponds
<1>4. CASE stage' = "rejected"
  BY <1>1, <1>4 DEF Corresponds
<1>5. QED
  BY <1>2, <1>3, <1>4

LEMMA Ran ==
    ASSUME Corresponds, HostSettles, Run, HostSettles'
    PROVE  Corresponds'
<1>1. /\ prog' = prog /\ prog \in Programs /\ stage = "run" /\ stage' = "run"
      /\ ~Ended(host) /\ Simulates(prog, host, hart) /\ Settled(prog.host, host)
  BY DEF Corresponds, Run, HostSettles
<1>2. PICK o \in Outcomes(prog.host, host) \cap Outcomes(prog.hart, hart) :
        /\ host' = Settle(prog.host, Perform(prog.host, host, o, 0))
        /\ hart' = Settle(prog.hart, Perform(prog.hart, hart, o, 1))
  BY DEF Run
<1> DEFINE m == Perform(prog.host, host, o, 0)
           c == Perform(prog.hart, hart, o, 1)
<1>3. Simulates(prog, m, c)
  BY <1>1, SimulatesPerform
<1> HIDE DEF m, c
<1>4. host' = Settle(prog.host, m) /\ hart' = Settle(prog.hart, c)
  BY <1>2 DEF m, c
<1>5. Settled(prog.host, Settle(prog.host, m))
  BY <1>1, <1>4 DEF HostSettles
<1>6. Simulates(prog, host', hart')
  BY <1>3, <1>4, <1>5, SimulatesSettle
<1>7. QED
  BY <1>1, <1>6 DEF Corresponds

(* Strip keeps what code does: if the image of every accepted program is   *)
(* what Strip makes of a code object that can be laid out (_strip_caches   *)
(* and the exception-table remapping of image_from_source.py), the hart is *)
(* always about to have the effect the host is about to have, at whatever  *)
(* base the code lies, for every choice of outcomes and every length of    *)
(* run in which the host itself comes to its next effect.                  *)
THEOREM StripKeepsEffects ==
    ASSUME \A p \in Programs : Accepted(p) => \E co : StrippedFrom(p, co)
    PROVE  Spec /\ []HostSettles => []SameEffects
<1>1. Init => Corresponds
  BY DEF Init, Corresponds
<1>2. Corresponds /\ HostSettles /\ HostSettles' /\ [Next]_vars => Corresponds'
  <2>1. ASSUME Corresponds, HostSettles, HostSettles', [Next]_vars PROVE Corresponds'
    <3>1. CASE BuildImageOf
      BY <2>1, <3>1, Built
    <3>2. CASE Run
      BY <2>1, <3>2, Ran
    <3>3. CASE UNCHANGED vars
      BY <2>1, <3>3 DEF Corresponds, vars
    <3>4. QED
      BY <2>1, <3>1, <3>2, <3>3 DEF Next
  <2>2. QED
    BY <2>1
<1>3. Corresponds /\ HostSettles => SameEffects
  <2>1. ASSUME Corresponds, HostSettles, stage = "run"
        PROVE  /\ Settled(prog.host, host) /\ Settled(prog.hart, hart)
               /\ Effect(prog.host, host) = Effect(prog.hart, hart)
    <3>1. Simulates(prog, host, hart) /\ Settled(prog.host, host)
      BY <2>1 DEF Corresponds, HostSettles
    <3>2. QED
      BY <3>1, SimulatesSame
  <2>2. QED
    BY <2>1 DEF SameEffects
<1>4. QED
  BY <1>1, <1>2, <1>3, PTL DEF Spec
=============================================================================
