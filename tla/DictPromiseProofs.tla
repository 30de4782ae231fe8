------------------------- MODULE DictPromiseProofs -------------------------
(***************************************************************************)
(* A dict keeps its order buffer within bounds, for every set of keys,     *)
(* table sizes and programs: whatever a key hashes to, and however the two *)
(* machines compare it.  And DictTable implements PyDict for every set of  *)
(* keys that PromiseAssumption admits: a live entry stays within reach,    *)
(* from the hash of its key to its slot no slot is empty.                  *)
(***************************************************************************)
EXTENDS DictPromise, NatLemmas, SequenceTheorems
-----------------------------------------------------------------------------
(* Tables and the order buffer *)

Slot == {Empty, Tombstone} \cup [st : {"live"}, key : Keys, val : AllVals]

IsTable(t) == /\ SizeOf(t) \in Nat /\ SizeOf(t) >= 1
              /\ DOMAIN t = 0 .. SizeOf(t) - 1
              /\ t \in [0 .. SizeOf(t) - 1 -> Slot]

IsDict(d) ==
    /\ d = [table |-> d.table, order |-> d.order, used |-> d.used, version |-> d.version]
    /\ IsTable(d.table) /\ d.order \in Seq(Keys) /\ d.used \in Nat /\ d.version \in Nat

LiveSlots(t) == Cardinality(At(t, "live"))
-----------------------------------------------------------------------------
(* Slots and tables *)

LEMMA SlotIs ==
    ASSUME NEW s \in Slot
    PROVE  /\ s.st \in {"empty", "tomb", "live"}
           /\ s.st = "empty" => s = Empty
           /\ s.st = "tomb" => s = Tombstone
           /\ s.st = "live" => /\ s = Live(s.key, s.val)
                               /\ s.key \in Keys /\ s.val \in AllVals
BY DEF Slot, Empty, Tombstone, Live

LEMMA SlotsAre ==
    /\ Empty \in Slot /\ Tombstone \in Slot
    /\ \A k \in Keys, v \in AllVals : Live(k, v) \in Slot
    /\ Empty.st = "empty" /\ Tombstone.st = "tomb"
    /\ \A k, v : Live(k, v).st = "live" /\ Live(k, v).key = k /\ Live(k, v).val = v
BY DEF Slot, Empty, Tombstone, Live

LEMMA TableOf ==
    ASSUME NEW n \in Nat, n >= 1, NEW t \in [0 .. n - 1 -> Slot]
    PROVE  IsTable(t) /\ SizeOf(t) = n
<1>1. DOMAIN t = 0 .. n - 1
  OBVIOUS
<1>2. Cardinality(0 .. n - 1) = n
  <2>1. n - 1 \in Int /\ 0 \in Int
    OBVIOUS
  <2>2. Cardinality(0 .. n - 1) = IF 0 > n - 1 THEN 0 ELSE (n - 1) - 0 + 1
    BY <2>1, FS_Interval
  <2>3. QED
    BY <2>2
<1>3. SizeOf(t) = n
  BY <1>1, <1>2 DEF SizeOf
<1>4. QED
  BY <1>1, <1>3 DEF IsTable

LEMMA EmptyTableIs ==
    ASSUME NEW n \in Nat, n >= 1
    PROVE  /\ IsTable(EmptyTable(n)) /\ SizeOf(EmptyTable(n)) = n
           /\ \A i \in 0 .. n - 1 : EmptyTable(n)[i] = Empty
<1>1. EmptyTable(n) \in [0 .. n - 1 -> Slot]
  BY SlotsAre DEF EmptyTable
<1>2. QED
  BY <1>1, TableOf DEF EmptyTable

\* u is t with another slot at i.
Changed(t, u, i, s) == u = [t EXCEPT ![i] = s]

LEMMA TableChanged ==
    ASSUME NEW t, IsTable(t), NEW i, NEW s \in Slot, NEW u, Changed(t, u, i, s)
    PROVE  /\ IsTable(u) /\ SizeOf(u) = SizeOf(t)
           /\ \A j \in 0 .. SizeOf(t) - 1 : u[j] = IF j = i THEN s ELSE t[j]
<1> DEFINE n == SizeOf(t)
<1>1. n \in Nat /\ n >= 1 /\ t \in [0 .. n - 1 -> Slot] /\ u = [t EXCEPT ![i] = s]
  BY DEF IsTable, Changed
<1> HIDE DEF n
<1>2. u \in [0 .. n - 1 -> Slot]
  BY <1>1
<1>3. \A j \in 0 .. n - 1 : u[j] = IF j = i THEN s ELSE t[j]
  BY <1>1
<1>4. IsTable(u) /\ SizeOf(u) = n
  BY <1>1, <1>2, TableOf
<1>5. QED
  BY <1>3, <1>4 DEF n

LEMMA LiveIsNat ==
    ASSUME NEW t, IsTable(t)
    PROVE  LiveSlots(t) \in Nat
<1> DEFINE n == SizeOf(t)
<1>1. n \in Nat /\ DOMAIN t = 0 .. n - 1
  BY DEF IsTable
<1> HIDE DEF n
<1>2. At(t, "live") \subseteq 0 .. n - 1 /\ IsFiniteSet(0 .. n - 1)
  BY <1>1, FS_Interval DEF At
<1>3. QED
  BY <1>2, FS_Subset, FS_CardinalityType DEF LiveSlots

\* One more live slot, at most.
LEMMA LiveCount ==
    ASSUME NEW t, IsTable(t), NEW i, NEW s \in Slot, NEW u, Changed(t, u, i, s)
    PROVE  /\ LiveSlots(t) \in Nat /\ LiveSlots(u) \in Nat
           /\ LiveSlots(u) <= LiveSlots(t) + 1
           /\ (i \in 0 .. SizeOf(t) - 1 => t[i].st = "live") => LiveSlots(u) <= LiveSlots(t)
<1> DEFINE A == At(t, "live")
           B == At(u, "live")
           n == SizeOf(t)
<1>1. /\ DOMAIN u = 0 .. n - 1 /\ DOMAIN t = 0 .. n - 1 /\ n \in Nat
      /\ \A j \in 0 .. n - 1 : u[j] = IF j = i THEN s ELSE t[j]
  BY TableChanged DEF IsTable
<1>2. A = {j \in 0 .. n - 1 : t[j].st = "live"} /\ B = {j \in 0 .. n - 1 : u[j].st = "live"}
  BY <1>1 DEF At
<1> HIDE DEF n
<1>3. B \subseteq A \cup {i}
  BY <1>1, <1>2
<1>4. (i \in 0 .. n - 1 => t[i].st = "live") => B \subseteq A
  BY <1>1, <1>2
<1> HIDE DEF A, B
<1>5. IsFiniteSet(0 .. n - 1)
  BY <1>1, FS_Interval
<1>6. IsFiniteSet(A) /\ IsFiniteSet(A \cup {i}) /\ IsFiniteSet(B)
  <2>1. IsFiniteSet(A)
    BY <1>2, <1>5, FS_Subset
  <2>2. IsFiniteSet(A \cup {i})
    BY <2>1, FS_AddElement
  <2>3. QED
    BY <1>3, <2>1, <2>2, FS_Subset
<1>7. /\ Cardinality(A) \in Nat /\ Cardinality(B) \in Nat
      /\ Cardinality(A \cup {i}) = Cardinality(A) \/ Cardinality(A \cup {i}) = Cardinality(A) + 1
  BY <1>6, FS_CardinalityType, FS_AddElement
<1>8. Cardinality(B) <= Cardinality(A \cup {i})
  BY <1>3, <1>6, FS_Subset
<1>9. B \subseteq A => Cardinality(B) <= Cardinality(A)
  BY <1>6, FS_Subset
<1>10. /\ Cardinality(B) <= Cardinality(A) + 1
       /\ (i \in 0 .. n - 1 => t[i].st = "live") => Cardinality(B) <= Cardinality(A)
  BY <1>4, <1>7, <1>8, <1>9
<1>11. LiveSlots(t) = Cardinality(A) /\ LiveSlots(u) = Cardinality(B)
  BY DEF LiveSlots, A, B
<1>12. QED
  BY <1>7, <1>10, <1>11 DEF n
-----------------------------------------------------------------------------
(* Sizes *)

LEMMA NeedsNoGrow ==
    ASSUME NEW used \in Nat, NEW size \in Nat, ~NeedsGrow(used, size)
    PROVE  used + 1 < size
BY DEF NeedsGrow

LEMMA GrownSizeIs ==
    ASSUME NEW used \in Nat, NEW size \in Nat, Larger(used, size) # {}
    PROVE  LET n == GrownSize(used, size) IN n \in Nat /\ n >= 8 /\ used + 1 < n
<1> DEFINE n == GrownSize(used, size)
<1>1. Larger(used, size) \subseteq Nat
  BY DictAssumption DEF Larger
<1>2. n \in Larger(used, size)
  BY <1>1, MinIs DEF GrownSize
<1> HIDE DEF n
<1>3. n \in Nat /\ n >= 4 * used /\ n >= 8
  BY <1>1, <1>2 DEF Larger
<1>4. QED
  BY <1>3 DEF n

LEMMA BuiltSizeIs ==
    ASSUME NEW p \in Literals \cup Sources
    PROVE  LET n == BuiltSize(Len(p)) IN
           /\ p \in Seq(Keys \X AllVals) /\ Len(p) \in Nat
           /\ n \in Nat /\ n >= 4 /\ Len(p) < n
<1> DEFINE l == Len(p)
           n == BuiltSize(l)
           S == {s \in Sizes : s >= 4 /\ s >= 2 * l}
<1>1. p \in Seq(Keys \X AllVals) /\ l \in Nat /\ S \subseteq Nat /\ S # {}
  <2>1. p \in Seq(Keys \X AllVals)
    BY DictAssumption
  <2>2. S \subseteq Nat /\ S # {}
    BY DictAssumption
  <2>3. QED
    BY <2>1, <2>2
<1>2. n \in S
  BY <1>1, MinIs DEF BuiltSize
<1>3. n \in Nat /\ n >= 4 /\ n >= 2 * l
  BY <1>1, <1>2
<1> HIDE DEF n, l
<1>4. l < n
  BY <1>1, <1>3
<1>5. QED
  BY <1>1, <1>3, <1>4 DEF n, l
-----------------------------------------------------------------------------
(* Recursion over slots and pairs *)

\* A step repeated from a base.
LEMMA RepeatExists ==
    ASSUME NEW X, NEW b \in X, NEW n \in Nat, NEW G \in [1 .. n -> [X -> X]]
    PROVE  \E f \in [0 .. n -> X] : f[0] = b /\ \A i \in 1 .. n : f[i] = G[i][f[i - 1]]
<1> DEFINE S == {m \in 0 .. n : \E f \in [0 .. m -> X] :
                        f[0] = b /\ \A i \in 1 .. m : f[i] = G[i][f[i - 1]]}
<1>1. 0 \in S
  <2> DEFINE f == [i \in 0 .. 0 |-> b]
  <2>1. f \in [0 .. 0 -> X] /\ f[0] = b /\ 1 .. 0 = {} /\ 0 \in 0 .. n
    OBVIOUS
  <2> HIDE DEF f
  <2>2. QED
    BY <2>1
<1>2. ASSUME NEW m \in 0 .. n - 1, m \in S PROVE m + 1 \in S
  <2>1. PICK f \in [0 .. m -> X] : f[0] = b /\ \A i \in 1 .. m : f[i] = G[i][f[i - 1]]
    BY <1>2
  <2> DEFINE x == G[m + 1][f[m]]
             g == [i \in 0 .. m + 1 |-> IF i = m + 1 THEN x ELSE f[i]]
  <2>2. x \in X
    <3>1. f[m] \in X /\ m + 1 \in 1 .. n
      BY <1>2
    <3>2. QED
      BY <3>1
  <2> HIDE DEF x
  <2>3. g \in [0 .. m + 1 -> X] /\ g[0] = b /\ g[m + 1] = x
    BY <2>1, <2>2
  <2>4. ASSUME NEW i \in 1 .. m + 1 PROVE g[i] = G[i][g[i - 1]]
    <3>1. CASE i = m + 1
      <4>1. g[i - 1] = f[m] /\ g[i] = x
        BY <3>1
      <4>2. QED
        BY <3>1, <4>1 DEF x
    <3>2. CASE i \in 1 .. m
      <4>1. i # m + 1 /\ i - 1 # m + 1 /\ i - 1 \in 0 .. m + 1 /\ i \in 0 .. m + 1
        BY <3>2
      <4>2. g[i] = f[i] /\ g[i - 1] = f[i - 1]
        BY <4>1
      <4>3. QED
        BY <2>1, <3>2, <4>2
    <3>3. QED
      BY <3>1, <3>2
  <2>5. m + 1 \in 0 .. n
    OBVIOUS
  <2> HIDE DEF g
  <2>6. QED
    BY <2>3, <2>4, <2>5
<1>3. n \in S
  <2>1. 0 .. n \subseteq S
    BY <1>1, <1>2, CountUp
  <2>2. QED
    BY <2>1
<1>4. QED
  BY <1>3

LEMMA PutIs ==
    ASSUME NEW t, IsTable(t), NEW s \in Slot
    PROVE  IsTable(Put(t, s)) /\ SizeOf(Put(t, s)) = SizeOf(t)
<1> DEFINE i == Free(t, FwHash(s.key), LastStep(t, FwHash(s.key), {}))
<1>1. Changed(t, Put(t, s), i, s)
  BY DEF Put, Changed
<1>2. QED
  BY <1>1, TableChanged

LEMMA RehashedIs ==
    ASSUME NEW t, IsTable(t), NEW n \in Nat, n >= 1
    PROVE  LET f == Rehashed(t, n) IN
           /\ f[0] = EmptyTable(n)
           /\ \A i \in 1 .. SizeOf(t) :
                 f[i] = IF t[i - 1].st # "live" THEN f[i - 1] ELSE Put(f[i - 1], t[i - 1])
           /\ \A i \in 0 .. SizeOf(t) : IsTable(f[i]) /\ SizeOf(f[i]) = n
<1> DEFINE X == [0 .. n - 1 -> Slot]
           m == SizeOf(t)
           next(i, x) == IF t[i - 1].st # "live" THEN x ELSE Put(x, t[i - 1])
           G == [i \in 1 .. m |-> [x \in X |-> next(i, x)]]
           Eq(f) == f = [i \in 0 .. m |->
                            IF i = 0 THEN EmptyTable(n)
                            ELSE IF t[i - 1].st # "live" THEN f[i - 1]
                            ELSE Put(f[i - 1], t[i - 1])]
           e == Rehashed(t, n)
<1>1. e = CHOOSE f : Eq(f)
  BY DEF Rehashed
<1>2. m \in Nat /\ \A i \in 1 .. m : t[i - 1] \in Slot
  BY DEF IsTable
<1> HIDE DEF e, m
<1>3. \A x \in X : IsTable(x) /\ SizeOf(x) = n
  BY TableOf
<1>4. \A x : IsTable(x) /\ SizeOf(x) = n => x \in X
  BY DEF IsTable
<1>5. EmptyTable(n) \in X
  BY <1>4, EmptyTableIs
<1>6. \A i \in 1 .. m, x \in X : next(i, x) \in X
  BY <1>2, <1>3, <1>4, PutIs
<1> HIDE DEF X, next
<1>7. G \in [1 .. m -> [X -> X]]
  BY <1>6
<1>8. PICK f \in [0 .. m -> X] : f[0] = EmptyTable(n) /\ \A i \in 1 .. m : f[i] = G[i][f[i - 1]]
  <2> DEFINE b == EmptyTable(n)
  <2>1. m \in Nat /\ b \in X
    BY <1>2, <1>5
  <2> HIDE DEF G, b
  <2>2. \E f \in [0 .. m -> X] : f[0] = b /\ \A i \in 1 .. m : f[i] = G[i][f[i - 1]]
    BY ONLY <1>7, <2>1, RepeatExists, SMTT(30)
  <2>3. QED
    BY <2>2 DEF b
<1>9. ASSUME NEW i \in 1 .. m PROVE f[i] = next(i, f[i - 1])
  <2>1. i - 1 \in 0 .. m /\ f[i - 1] \in X
    BY <1>2
  <2>2. G[i][f[i - 1]] = next(i, f[i - 1])
    BY <2>1
  <2>3. QED
    BY <1>8, <2>2
<1>10. Eq(f)
  <2>1. ASSUME NEW i \in 0 .. m
        PROVE  f[i] = IF i = 0 THEN EmptyTable(n) ELSE next(i, f[i - 1])
    <3>1. i = 0 \/ i \in 1 .. m
      BY <1>2
    <3>2. CASE i = 0
      BY <1>8, <3>2
    <3>3. CASE i \in 1 .. m
      BY <1>2, <1>9, <3>3
    <3>4. QED
      BY <3>1, <3>2, <3>3
  <2>2. f = [i \in 0 .. m |-> f[i]]
    OBVIOUS
  <2>3. QED
    BY <2>1, <2>2 DEF next
<1>11. Eq(e)
  BY <1>1, <1>10
<1>12. /\ e[0] = EmptyTable(n)
       /\ \A i \in 1 .. m : e[i] = next(i, e[i - 1])
  <2>1. \A i \in 0 .. m : e[i] = IF i = 0 THEN EmptyTable(n) ELSE next(i, e[i - 1])
    BY <1>11 DEF next
  <2>2. QED
    BY <1>2, <2>1
<1>13. \A i \in 0 .. m : e[i] \in X
  <2> DEFINE S == {i \in 0 .. m : e[i] \in X}
  <2>1. 0 \in S
    BY <1>2, <1>5, <1>12
  <2>2. ASSUME NEW i \in 0 .. m - 1, i \in S PROVE i + 1 \in S
    <3>1. i + 1 \in 1 .. m /\ i + 1 \in 0 .. m /\ (i + 1) - 1 = i
      BY <1>2
    <3>2. e[i + 1] = next(i + 1, e[i])
      BY <1>12, <3>1
    <3>3. QED
      BY <1>6, <2>2, <3>1, <3>2
  <2>3. 0 .. m \subseteq S
    BY <1>2, <2>1, <2>2, CountUp
  <2>4. QED
    BY <2>3
<1>14. QED
  BY <1>3, <1>12, <1>13 DEF e, m, next
-----------------------------------------------------------------------------
(* Entries put into a dict *)

Dicts(n) == [table : [0 .. n - 1 -> Slot], order : Seq(Keys), used : Nat, version : Nat]

LEMMA DictsAre ==
    ASSUME NEW n \in Nat, n >= 1, NEW d
    PROVE  d \in Dicts(n) <=> IsDict(d) /\ SizeOf(d.table) = n
<1>1. ASSUME d \in Dicts(n) PROVE IsDict(d) /\ SizeOf(d.table) = n
  <2>1. /\ d = [table |-> d.table, order |-> d.order, used |-> d.used, version |-> d.version]
        /\ d.table \in [0 .. n - 1 -> Slot] /\ d.order \in Seq(Keys)
        /\ d.used \in Nat /\ d.version \in Nat
    BY <1>1 DEF Dicts
  <2>2. QED
    BY <2>1, TableOf DEF IsDict
<1>2. ASSUME IsDict(d), SizeOf(d.table) = n PROVE d \in Dicts(n)
  BY <1>2 DEF IsDict, IsTable, Dicts
<1>3. QED
  BY <1>1, <1>2

LEMMA InsertedIs ==
    ASSUME NEW d, IsDict(d), NEW i, NEW k \in Keys, NEW v \in AllVals
    PROVE  LET e == Inserted(d, i, k, v) IN
           /\ IsDict(e) /\ SizeOf(e.table) = SizeOf(d.table)
           /\ Changed(d.table, e.table, i, Live(k, v))
           /\ e.order = Append(d.order, k) /\ Len(e.order) = Len(d.order) + 1
           /\ e.used = d.used + 1 /\ e.version = d.version + 1
<1> DEFINE e == Inserted(d, i, k, v)
<1>1. /\ e.table = [d.table EXCEPT ![i] = Live(k, v)]
      /\ e.order = Append(d.order, k)
      /\ e.used = d.used + 1 /\ e.version = d.version + 1
      /\ e = [table |-> e.table, order |-> e.order, used |-> e.used, version |-> e.version]
  BY DEF Inserted
<1> HIDE DEF e
<1>2. d.order \in Seq(Keys) /\ d.used \in Nat /\ d.version \in Nat /\ IsTable(d.table)
  BY DEF IsDict
<1>3. IsTable(e.table) /\ SizeOf(e.table) = SizeOf(d.table)
  <2>1. Changed(d.table, e.table, i, Live(k, v))
    BY <1>1 DEF Changed
  <2>2. Live(k, v) \in Slot
    BY SlotsAre
  <2>3. IsTable(d.table)
    BY <1>2
  <2>4. IsTable(e.table)
    BY ONLY <2>1, <2>2, <2>3, TableChanged
  <2>5. SizeOf(e.table) = SizeOf(d.table)
    BY ONLY <2>1, <2>2, <2>3, TableChanged
  <2>6. QED
    BY <2>4, <2>5
<1>4. e.order \in Seq(Keys) /\ Len(e.order) = Len(d.order) + 1
  BY <1>1, <1>2
<1>5. QED
  BY <1>1, <1>2, <1>3, <1>4 DEF IsDict, Changed, e

LEMMA EntryChanged ==
    ASSUME NEW t, IsTable(t), NEW i, i \in 0 .. SizeOf(t) - 1 => t[i].st = "live",
           NEW v \in AllVals, NEW u, u = [t EXCEPT ![i].val = v]
    PROVE  \E s \in Slot : /\ Changed(t, u, i, s)
                           /\ i \in 0 .. SizeOf(t) - 1 => s = Live(t[i].key, v)
<1>1. DOMAIN t = 0 .. SizeOf(t) - 1 /\ t \in [0 .. SizeOf(t) - 1 -> Slot]
  BY DEF IsTable
<1>2. CASE i \in DOMAIN t
  <2>1. t[i] \in Slot /\ t[i].st = "live"
    BY <1>1, <1>2
  <2>2. [t[i] EXCEPT !.val = v] = Live(t[i].key, v) /\ t[i].key \in Keys
    BY <2>1, SlotIs DEF Live
  <2>3. u = [t EXCEPT ![i] = Live(t[i].key, v)]
    BY <2>2
  <2>4. Live(t[i].key, v) \in Slot
    BY <2>2, SlotsAre
  <2>5. QED
    BY <2>3, <2>4 DEF Changed
<1>3. CASE i \notin DOMAIN t
  <2>1. u = t /\ t = [t EXCEPT ![i] = Empty]
    BY <1>1, <1>3
  <2>2. QED
    BY <1>1, <1>3, <2>1, SlotsAre DEF Changed
<1>4. QED
  BY <1>2, <1>3

\* An overwritten entry, or a new one.
Entered(d, e) ==
    /\ IsDict(e) /\ SizeOf(e.table) = SizeOf(d.table)
    /\ \/ /\ e.order = d.order /\ e.used = d.used /\ e.version = d.version
          /\ LiveSlots(e.table) <= LiveSlots(d.table)
       \/ /\ Len(e.order) = Len(d.order) + 1 /\ e.used = d.used + 1
          /\ LiveSlots(e.table) <= LiveSlots(d.table) + 1

LEMMA FoundLive ==
    ASSUME NEW t, NEW h, NEW last, Found(t, h, last) >= 0
    PROVE  t[Found(t, h, last)].st = "live"
<1>1. Found(t, h, last) # -1
  OBVIOUS
<1>2. QED
  BY <1>1 DEF Found

LEMMA SameLenOrder ==
    ASSUME NEW d, IsDict(d), NEW t, IsTable(t), SizeOf(t) = SizeOf(d.table),
           LiveSlots(t) <= LiveSlots(d.table)
    PROVE  LET e == [d EXCEPT !.table = t] IN Entered(d, e) /\ e.table = t
<1> DEFINE e == [d EXCEPT !.table = t]
<1>1. e = [table |-> t, order |-> d.order, used |-> d.used, version |-> d.version]
  BY DEF IsDict
<1> HIDE DEF e
<1>2. e.table = t /\ e.order = d.order /\ e.used = d.used /\ e.version = d.version
  BY <1>1
<1>3. IsDict(e)
  BY <1>1, <1>2 DEF IsDict
<1>4. QED
  BY <1>2, <1>3 DEF Entered, e

LEMMA InsertedEntered ==
    ASSUME NEW d, IsDict(d), NEW i, NEW k \in Keys, NEW v \in AllVals
    PROVE  Entered(d, Inserted(d, i, k, v))
<1> DEFINE e == Inserted(d, i, k, v)
<1>1. /\ IsDict(e) /\ SizeOf(e.table) = SizeOf(d.table)
      /\ Changed(d.table, e.table, i, Live(k, v))
      /\ Len(e.order) = Len(d.order) + 1 /\ e.used = d.used + 1
  BY InsertedIs
<1> HIDE DEF e
<1>2. LiveSlots(e.table) <= LiveSlots(d.table) + 1
  BY <1>1, SlotsAre, LiveCount DEF IsDict
<1>3. QED
  BY <1>1, <1>2 DEF Entered, e

LEMMA HartInsertIs ==
    ASSUME NEW d, IsDict(d), NEW p \in Keys \X AllVals
    PROVE  Entered(d, HartInsert(d, p))
<1> DEFINE at == Lookup(d.table, p[1])
           k == p[1]
           v == p[2]
           t == [d.table EXCEPT ![at] = Live(k, v)]
<1>1. k \in Keys /\ v \in AllVals
  OBVIOUS
<1> HIDE DEF k, v
<1>2. CASE at >= 0
  <2>1. d.table[at].st = "live"
    BY <1>2, FoundLive DEF Lookup
  <2>2. IsTable(t) /\ SizeOf(t) = SizeOf(d.table) /\ LiveSlots(t) <= LiveSlots(d.table)
    <3> HIDE DEF at
    <3>1. Changed(d.table, t, at, Live(k, v)) /\ Live(k, v) \in Slot /\ IsTable(d.table)
      BY <1>1, SlotsAre DEF Changed, IsDict
    <3> HIDE DEF t
    <3>2. IsTable(t)
      BY <3>1, TableChanged
    <3>3. SizeOf(t) = SizeOf(d.table)
      BY <3>1, TableChanged
    <3>4. LiveSlots(t) <= LiveSlots(d.table)
      BY <2>1, <3>1, LiveCount
    <3>5. QED
      BY <3>2, <3>3, <3>4
  <2>3. HartInsert(d, p) = [d EXCEPT !.table = t]
    <3>1. HartInsert(d, p) = [d EXCEPT !.table[at] = Live(k, v)]
      BY <1>2 DEF HartInsert, k, v
    <3> HIDE DEF at
    <3>2. QED
      BY <3>1 DEF IsDict
  <2> HIDE DEF t
  <2>4. QED
    BY <2>2, <2>3, SameLenOrder
<1>3. CASE ~(at >= 0)
  <2>1. HartInsert(d, p) = Inserted(d, Place(d.table, k), k, v)
    BY <1>3 DEF HartInsert, k, v
  <2>2. QED
    BY <1>1, <2>1, InsertedEntered
<1>4. QED
  BY <1>2, <1>3

LEMMA FwInsertIs ==
    ASSUME NEW d, IsDict(d), NEW k \in Keys, NEW v \in AllVals
    PROVE  Entered(d, FwInsert(d, k, v))
<1> DEFINE last == FwLast(d.table, k)
           at == Found(d.table, FwHash(k), last)
           t == [d.table EXCEPT ![at].val = v]
<1>1. CASE at >= 0
  <2>1. d.table[at].st = "live"
    BY <1>1, FoundLive
  <2>2. FwInsert(d, k, v) = [d EXCEPT !.table[at].val = v]
    BY <1>1 DEF FwInsert
  <2> HIDE DEF at
  <2>3. IsTable(t) /\ SizeOf(t) = SizeOf(d.table) /\ LiveSlots(t) <= LiveSlots(d.table)
    <3>1. IsTable(d.table) /\ t = [d.table EXCEPT ![at].val = v]
      BY DEF IsDict
    <3> HIDE DEF t
    <3>2. PICK s \in Slot : Changed(d.table, t, at, s)
      BY <2>1, <3>1, EntryChanged
    <3>3. IsTable(t)
      BY <3>1, <3>2, TableChanged
    <3>4. SizeOf(t) = SizeOf(d.table)
      BY <3>1, <3>2, TableChanged
    <3>5. LiveSlots(t) <= LiveSlots(d.table)
      BY <2>1, <3>1, <3>2, LiveCount
    <3>6. QED
      BY <3>3, <3>4, <3>5
  <2>4. FwInsert(d, k, v) = [d EXCEPT !.table = t]
    BY <2>2 DEF IsDict
  <2> HIDE DEF t
  <2>5. QED
    BY <2>3, <2>4, SameLenOrder
<1>2. CASE ~(at >= 0)
  <2>1. FwInsert(d, k, v) = Inserted(d, Free(d.table, FwHash(k), last), k, v)
    BY <1>2 DEF FwInsert
  <2>2. QED
    BY <2>1, InsertedEntered
<1>3. QED
  BY <1>1, <1>2

LEMMA EnteredTwice ==
    ASSUME NEW d, NEW e, IsDict(d), Entered(d, e), d.used = Len(d.order)
    PROVE  /\ IsDict(e) /\ SizeOf(e.table) = SizeOf(d.table) /\ e.used = Len(e.order)
           /\ d.used <= e.used /\ e.used <= d.used + 1
           /\ LiveSlots(d.table) <= d.used => LiveSlots(e.table) <= e.used
<1>1. LiveSlots(d.table) \in Nat /\ LiveSlots(e.table) \in Nat
  BY LiveIsNat DEF IsDict, Entered
<1>2. Len(d.order) \in Nat /\ Len(e.order) \in Nat /\ d.used \in Nat /\ e.used \in Nat
  BY DEF IsDict, Entered
<1>3. QED
  BY <1>1, <1>2 DEF Entered

\* What BUILD_MAP makes of the first i pairs.
LEMMA BuiltIs ==
    ASSUME NEW p \in Literals \cup Sources
    PROVE  LET f == Built(p)
               n == BuiltSize(Len(p))
           IN /\ f[0] = [table |-> EmptyTable(n), order |-> <<>>, used |-> 0, version |-> 0]
              /\ \A i \in 1 .. Len(p) : f[i] = HartInsert(f[i - 1], p[i])
              /\ \A i \in 0 .. Len(p) : IsDict(f[i]) /\ SizeOf(f[i].table) = n
<1> DEFINE n == BuiltSize(Len(p))
           m == Len(p)
           X == Dicts(n)
           b == [table |-> EmptyTable(n), order |-> <<>>, used |-> 0, version |-> 0]
           next(i, x) == HartInsert(x, p[i])
           G == [i \in 1 .. m |-> [x \in X |-> next(i, x)]]
           Eq(f) == f = [i \in 0 .. m |-> IF i = 0 THEN b ELSE next(i, f[i - 1])]
           e == Built(p)
<1>1. e = CHOOSE f : Eq(f)
  BY DEF Built
<1>2. m \in Nat /\ \A i \in 1 .. m : p[i] \in Keys \X AllVals
  BY BuiltSizeIs
<1>3. n \in Nat /\ n >= 1
  BY BuiltSizeIs
<1> HIDE DEF e, m, n
<1>4. \A x \in X : IsDict(x) /\ SizeOf(x.table) = n
  BY <1>3, DictsAre
<1>5. \A x : IsDict(x) /\ SizeOf(x.table) = n => x \in X
  BY <1>3, DictsAre
<1>6. b \in X
  <2>1. IsDict(b) /\ SizeOf(b.table) = n
    BY <1>3, EmptyTableIs DEF IsDict
  <2>2. QED
    BY <1>5, <2>1
<1>7. ASSUME NEW i \in 1 .. m, NEW x \in X PROVE next(i, x) \in X
  <2>1. Entered(x, next(i, x))
    BY <1>2, <1>4, HartInsertIs
  <2>2. QED
    BY <1>4, <1>5, <2>1 DEF Entered
<1> HIDE DEF X, next, b
<1>8. G \in [1 .. m -> [X -> X]]
  BY <1>7
<1>9. PICK f \in [0 .. m -> X] : f[0] = b /\ \A i \in 1 .. m : f[i] = G[i][f[i - 1]]
  <2> HIDE DEF G
  <2>1. QED
    BY ONLY <1>2, <1>6, <1>8, RepeatExists, SMTT(30)
<1>10. ASSUME NEW i \in 1 .. m PROVE f[i] = next(i, f[i - 1])
  <2>1. i - 1 \in 0 .. m /\ f[i - 1] \in X
    BY <1>2
  <2>2. G[i][f[i - 1]] = next(i, f[i - 1])
    BY <2>1
  <2>3. QED
    BY <1>9, <2>2
<1>11. Eq(f)
  <2>1. ASSUME NEW i \in 0 .. m PROVE f[i] = IF i = 0 THEN b ELSE next(i, f[i - 1])
    <3>1. i = 0 \/ i \in 1 .. m
      BY <1>2
    <3>2. CASE i = 0
      BY <1>9, <3>2
    <3>3. CASE i \in 1 .. m
      BY <1>2, <1>10, <3>3
    <3>4. QED
      BY <3>1, <3>2, <3>3
  <2>2. f = [i \in 0 .. m |-> f[i]]
    OBVIOUS
  <2>3. QED
    BY <2>1, <2>2
<1>12. Eq(e)
  BY <1>1, <1>11
<1>13. /\ e[0] = b
       /\ \A i \in 1 .. m : e[i] = next(i, e[i - 1])
  <2>1. \A i \in 0 .. m : e[i] = IF i = 0 THEN b ELSE next(i, e[i - 1])
    BY <1>12
  <2>2. QED
    BY <1>2, <2>1
<1>14. \A i \in 0 .. m : e[i] \in X
  <2> DEFINE S == {i \in 0 .. m : e[i] \in X}
  <2>1. 0 \in S
    BY <1>2, <1>6, <1>13
  <2>2. ASSUME NEW i \in 0 .. m - 1, i \in S PROVE i + 1 \in S
    <3>1. i + 1 \in 1 .. m /\ i + 1 \in 0 .. m /\ (i + 1) - 1 = i
      BY <1>2
    <3>2. e[i + 1] = next(i + 1, e[i])
      BY <1>13, <3>1
    <3>3. QED
      BY <1>7, <2>2, <3>1, <3>2
  <2>3. 0 .. m \subseteq S
    BY <1>2, <2>1, <2>2, CountUp
  <2>4. QED
    BY <2>3
<1>15. QED
  BY <1>4, <1>13, <1>14 DEF e, m, n, b, next

\* A literal's dict has no more keys than the literal has pairs.
LEMMA BuildMapIs ==
    ASSUME NEW p \in Literals \cup Sources
    PROVE  LET d == BuildMap(p) IN
           /\ IsDict(d) /\ d.used = Len(d.order) /\ d.used < SizeOf(d.table)
           /\ LiveSlots(d.table) <= d.used
<1> DEFINE f == Built(p)
           m == Len(p)
           n == BuiltSize(Len(p))
           Good(d, i) == d.used = Len(d.order) /\ d.used <= i /\ LiveSlots(d.table) <= d.used
           S == {i \in 0 .. m : Good(f[i], i)}
<1>1. m \in Nat /\ m < n /\ n \in Nat /\ n >= 1 /\ \A i \in 1 .. m : p[i] \in Keys \X AllVals
  BY BuiltSizeIs
<1>2. /\ f[0] = [table |-> EmptyTable(n), order |-> <<>>, used |-> 0, version |-> 0]
      /\ \A i \in 1 .. m : f[i] = HartInsert(f[i - 1], p[i])
      /\ \A i \in 0 .. m : IsDict(f[i]) /\ SizeOf(f[i].table) = n
  BY BuiltIs
<1> HIDE DEF f, m, n
<1>3. 0 \in S
  <2>1. LiveSlots(EmptyTable(n)) = 0
    <3>1. At(EmptyTable(n), "live") = {}
      BY <1>1, EmptyTableIs DEF At, EmptyTable, Empty
    <3>2. QED
      BY <3>1, FS_EmptySet DEF LiveSlots
  <2>2. QED
    BY <1>1, <1>2, <2>1
<1>4. ASSUME NEW i \in 0 .. m - 1, i \in S PROVE i + 1 \in S
  <2>1. /\ i + 1 \in 1 .. m /\ i + 1 \in 0 .. m /\ (i + 1) - 1 = i
        /\ i \in Nat /\ i \in 0 .. m
    BY <1>1
  <2>2. f[i + 1] = HartInsert(f[i], p[i + 1]) /\ IsDict(f[i]) /\ IsDict(f[i + 1])
    BY <1>2, <2>1
  <2>3. Entered(f[i], f[i + 1])
    BY <1>1, <2>1, <2>2, HartInsertIs
  <2>4. Good(f[i], i)
    BY <1>4
  <2>5. /\ f[i + 1].used = Len(f[i + 1].order)
        /\ f[i + 1].used <= f[i].used + 1
        /\ LiveSlots(f[i + 1].table) <= f[i + 1].used
    BY <2>2, <2>3, <2>4, EnteredTwice
  <2>6. f[i].used \in Nat /\ f[i + 1].used \in Nat
    BY <2>2 DEF IsDict
  <2>7. Good(f[i + 1], i + 1)
    BY <2>1, <2>4, <2>5, <2>6
  <2>8. QED
    BY <2>1, <2>7
<1>5. m \in S /\ m \in 0 .. m
  <2>1. 0 .. m \subseteq S
    BY <1>1, <1>3, <1>4, CountUp
  <2>2. QED
    BY <1>1, <2>1
<1>6. IsDict(f[m]) /\ SizeOf(f[m].table) = n /\ Good(f[m], m)
  BY <1>2, <1>5
<1>7. f[m].used \in Nat
  BY <1>6 DEF IsDict
<1>8. BuildMap(p) = f[m]
  BY DEF BuildMap, f, m
<1>9. QED
  BY <1>1, <1>6, <1>7, <1>8

\* What DICT_UPDATE makes of d with the first i slots of the source.
LEMMA MergingIs ==
    ASSUME NEW d, IsDict(d), IsTable(source.table)
    PROVE  LET f == Merging(d)
               t == source.table
           IN /\ f[0] = d
              /\ \A i \in 1 .. SizeOf(t) :
                    f[i] = IF t[i - 1].st # "live" THEN f[i - 1]
                           ELSE FwInsert(f[i - 1], t[i - 1].key, t[i - 1].val)
              /\ \A i \in 0 .. SizeOf(t) : IsDict(f[i]) /\ SizeOf(f[i].table) = SizeOf(d.table)
<1> DEFINE t == source.table
           n == SizeOf(d.table)
           m == SizeOf(t)
           X == Dicts(n)
           next(i, x) == IF t[i - 1].st # "live" THEN x
                         ELSE FwInsert(x, t[i - 1].key, t[i - 1].val)
           G == [i \in 1 .. m |-> [x \in X |-> next(i, x)]]
           Eq(f) == f = [i \in 0 .. m |->
                            IF i = 0 THEN d
                            ELSE IF t[i - 1].st # "live" THEN f[i - 1]
                            ELSE FwInsert(f[i - 1], t[i - 1].key, t[i - 1].val)]
           e == Merging(d)
<1>1. e = CHOOSE f : Eq(f)
  BY DEF Merging
<1>2. m \in Nat /\ \A i \in 1 .. m : t[i - 1] \in Slot
  BY DEF IsTable
<1>3. n \in Nat /\ n >= 1
  BY DEF IsDict, IsTable
<1> HIDE DEF e, m, n, t
<1>4. \A x \in X : IsDict(x) /\ SizeOf(x.table) = n
  BY <1>3, DictsAre
<1>5. \A x : IsDict(x) /\ SizeOf(x.table) = n => x \in X
  BY <1>3, DictsAre
<1>6. d \in X
  BY <1>5 DEF n
<1>7. ASSUME NEW i \in 1 .. m, NEW x \in X PROVE next(i, x) \in X
  <2>1. CASE t[i - 1].st # "live"
    BY <2>1
  <2>2. CASE t[i - 1].st = "live"
    <3>1. t[i - 1].key \in Keys /\ t[i - 1].val \in AllVals
      BY <1>2, <2>2, SlotIs
    <3>2. Entered(x, next(i, x))
      BY <1>4, <2>2, <3>1, FwInsertIs
    <3>3. QED
      BY <1>4, <1>5, <3>2 DEF Entered
  <2>3. QED
    BY <2>1, <2>2
<1> HIDE DEF X, next
<1>8. G \in [1 .. m -> [X -> X]]
  BY <1>7
<1>9. PICK f \in [0 .. m -> X] : f[0] = d /\ \A i \in 1 .. m : f[i] = G[i][f[i - 1]]
  <2> HIDE DEF G
  <2>1. QED
    BY ONLY <1>2, <1>6, <1>8, RepeatExists, SMTT(30)
<1>10. ASSUME NEW i \in 1 .. m PROVE f[i] = next(i, f[i - 1])
  <2>1. i - 1 \in 0 .. m /\ f[i - 1] \in X
    BY <1>2
  <2>2. G[i][f[i - 1]] = next(i, f[i - 1])
    BY <2>1
  <2>3. QED
    BY <1>9, <2>2
<1>11. Eq(f)
  <2>1. ASSUME NEW i \in 0 .. m PROVE f[i] = IF i = 0 THEN d ELSE next(i, f[i - 1])
    <3>1. i = 0 \/ i \in 1 .. m
      BY <1>2
    <3>2. CASE i = 0
      BY <1>9, <3>2
    <3>3. CASE i \in 1 .. m
      BY <1>2, <1>10, <3>3
    <3>4. QED
      BY <3>1, <3>2, <3>3
  <2>2. f = [i \in 0 .. m |-> f[i]]
    OBVIOUS
  <2>3. QED
    BY <2>1, <2>2 DEF next
<1>12. Eq(e)
  BY <1>1, <1>11
<1>13. /\ e[0] = d
       /\ \A i \in 1 .. m : e[i] = next(i, e[i - 1])
  <2>1. \A i \in 0 .. m : e[i] = IF i = 0 THEN d ELSE next(i, e[i - 1])
    BY <1>12 DEF next
  <2>2. QED
    BY <1>2, <2>1
<1>14. \A i \in 0 .. m : e[i] \in X
  <2> DEFINE S == {i \in 0 .. m : e[i] \in X}
  <2>1. 0 \in S
    BY <1>2, <1>6, <1>13
  <2>2. ASSUME NEW i \in 0 .. m - 1, i \in S PROVE i + 1 \in S
    <3>1. i + 1 \in 1 .. m /\ i + 1 \in 0 .. m /\ (i + 1) - 1 = i
      BY <1>2
    <3>2. e[i + 1] = next(i + 1, e[i])
      BY <1>13, <3>1
    <3>3. QED
      BY <1>7, <2>2, <3>1, <3>2
  <2>3. 0 .. m \subseteq S
    BY <1>2, <2>1, <2>2, CountUp
  <2>4. QED
    BY <2>3
<1>15. QED
  BY <1>4, <1>13, <1>14 DEF e, m, n, t, next

\* The live slots below i.
LiveBelow(t, i) == {j \in 0 .. i - 1 : t[j].st = "live"}

LEMMA LiveBelowIs ==
    ASSUME NEW t, NEW i \in Nat
    PROVE  /\ Cardinality(LiveBelow(t, i)) \in Nat /\ Cardinality(LiveBelow(t, 0)) = 0
           /\ Cardinality(LiveBelow(t, i + 1)) = Cardinality(LiveBelow(t, i))
                                                 + IF t[i].st = "live" THEN 1 ELSE 0
<1> DEFINE A == LiveBelow(t, i)
           B == LiveBelow(t, i + 1)
<1>1. LiveBelow(t, 0) = {}
  BY DEF LiveBelow
<1>2. i \notin A /\ B = IF t[i].st = "live" THEN A \cup {i} ELSE A
  <2>1. 0 .. (i + 1) - 1 = (0 .. i - 1) \cup {i}
    OBVIOUS
  <2>2. QED
    BY <2>1 DEF LiveBelow
<1>3. A \subseteq 0 .. i - 1 /\ IsFiniteSet(0 .. i - 1)
  BY FS_Interval DEF LiveBelow
<1> HIDE DEF A, B
<1>4. IsFiniteSet(A) /\ Cardinality(A) \in Nat
  BY <1>3, FS_Subset, FS_CardinalityType
<1>5. Cardinality(A \cup {i}) = Cardinality(A) + 1
  BY <1>2, <1>4, FS_AddElement
<1>6. Cardinality(B) = Cardinality(A) + IF t[i].st = "live" THEN 1 ELSE 0
  BY <1>2, <1>4, <1>5
<1>7. QED
  BY <1>1, <1>4, <1>6, FS_EmptySet DEF A, B

LEMMA MergedIs ==
    ASSUME NEW d, IsDict(d), d.used = Len(d.order), IsTable(source.table)
    PROVE  LET e == Merged(d) IN
           /\ IsDict(e) /\ SizeOf(e.table) = SizeOf(d.table) /\ e.used = Len(e.order)
           /\ e.used <= d.used + LiveSlots(source.table)
<1> DEFINE t == source.table
           f == Merging(d)
           m == SizeOf(t)
           n == SizeOf(d.table)
           Good(x, i) == x.used = Len(x.order) /\ x.used <= d.used + Cardinality(LiveBelow(t, i))
           S == {i \in 0 .. m : Good(f[i], i)}
<1>1. m \in Nat /\ n \in Nat /\ (\A i \in 0 .. m - 1 : t[i] \in Slot) /\ d.used \in Nat
  BY DEF IsDict, IsTable
<1>2. /\ f[0] = d
      /\ \A i \in 1 .. m :
            f[i] = IF t[i - 1].st # "live" THEN f[i - 1]
                   ELSE FwInsert(f[i - 1], t[i - 1].key, t[i - 1].val)
      /\ \A i \in 0 .. m : IsDict(f[i]) /\ SizeOf(f[i].table) = n
  BY MergingIs
<1>3. LiveBelow(t, m) = At(t, "live")
  BY DEF LiveBelow, At, IsTable
<1> HIDE DEF f, m, n, t
<1>4. 0 \in S
  <2>1. f[0] = d /\ 0 \in 0 .. m /\ Cardinality(LiveBelow(t, 0)) = 0
    BY <1>1, <1>2, LiveBelowIs
  <2>2. Good(f[0], 0)
    BY <1>1, <2>1
  <2>3. QED
    BY <2>1, <2>2
<1>5. ASSUME NEW i \in 0 .. m - 1, i \in S PROVE i + 1 \in S
  <2>1. /\ i + 1 \in 1 .. m /\ i + 1 \in 0 .. m /\ (i + 1) - 1 = i
        /\ i \in Nat /\ i \in 0 .. m
    BY <1>1
  <2>2. IsDict(f[i]) /\ IsDict(f[i + 1])
    BY <1>2, <2>1
  <2>3. f[i + 1] = IF t[i].st # "live" THEN f[i] ELSE FwInsert(f[i], t[i].key, t[i].val)
    BY <1>2, <2>1
  <2>4. Good(f[i], i)
    BY <1>5
  <2>5. /\ Cardinality(LiveBelow(t, i)) \in Nat
        /\ Cardinality(LiveBelow(t, i + 1)) = Cardinality(LiveBelow(t, i))
                                              + IF t[i].st = "live" THEN 1 ELSE 0
    BY <2>1, LiveBelowIs
  <2>6. CASE t[i].st # "live"
    <3>1. f[i + 1] = f[i] /\ Cardinality(LiveBelow(t, i + 1)) = Cardinality(LiveBelow(t, i))
      BY <2>3, <2>5, <2>6
    <3>2. Good(f[i + 1], i + 1)
      BY <2>4, <3>1
    <3>3. QED
      BY <2>1, <3>2
  <2>7. CASE t[i].st = "live"
    <3>1. t[i].key \in Keys /\ t[i].val \in AllVals
      BY <1>1, <2>7, SlotIs
    <3>2. Entered(f[i], f[i + 1])
      BY <2>2, <2>3, <2>7, <3>1, FwInsertIs
    <3>3. f[i + 1].used = Len(f[i + 1].order) /\ f[i + 1].used <= f[i].used + 1
      BY <2>2, <2>4, <3>2, EnteredTwice
    <3>4. f[i].used \in Nat /\ f[i + 1].used \in Nat
      BY <2>2 DEF IsDict
    <3>5. Cardinality(LiveBelow(t, i + 1)) = Cardinality(LiveBelow(t, i)) + 1
      BY <2>5, <2>7
    <3>6. f[i + 1].used <= d.used + Cardinality(LiveBelow(t, i + 1))
      <4> DEFINE a == Cardinality(LiveBelow(t, i))
                 b == Cardinality(LiveBelow(t, i + 1))
      <4>1. a \in Nat /\ b = a + 1 /\ f[i].used <= d.used + a /\ d.used \in Nat
        BY <1>1, <2>4, <2>5, <3>5
      <4> HIDE DEF a, b
      <4>2. f[i + 1].used <= d.used + b
        BY ONLY <3>3, <3>4, <4>1
      <4>3. QED
        BY <4>2 DEF b
    <3>7. QED
      BY <2>1, <3>3, <3>6
  <2>8. QED
    BY <2>6, <2>7
<1>6. m \in S /\ m \in 0 .. m
  <2>1. 0 .. m \subseteq S
    BY <1>1, <1>4, <1>5, CountUp
  <2>2. QED
    BY <1>1, <2>1
<1>7. IsDict(f[m]) /\ SizeOf(f[m].table) = n /\ Good(f[m], m)
  BY <1>2, <1>6
<1>8. Merged(d) = f[m]
  BY DEF Merged, f, m, t
<1>9. QED
  BY <1>3, <1>7, <1>8 DEF LiveSlots, n, t
-----------------------------------------------------------------------------
(* The order buffer *)

OrderInv ==
    /\ IsDict(dict) /\ dict.used = Len(dict.order) /\ dict.used < SizeOf(dict.table)
    /\ IsDict(source) /\ LiveSlots(source.table) <= source.used
    /\ grow # NoGrow => grow[1] \in Keys /\ grow[2] \in AllVals

\* The part about the dict, after a step.
DictInv == IsDict(dict) /\ dict.used = Len(dict.order) /\ dict.used < SizeOf(dict.table)

LEMMA RehashIs ==
    ASSUME NEW t, IsTable(t), NEW n \in Nat, n >= 1
    PROVE  IsTable(Rehash(t, n)) /\ SizeOf(Rehash(t, n)) = n
<1>1. SizeOf(t) \in 0 .. SizeOf(t)
  BY DEF IsTable
<1>2. QED
  BY <1>1, RehashedIs DEF Rehash

LEMMA Retabled ==
    ASSUME NEW d, IsDict(d), NEW t, IsTable(t)
    PROVE  LET e == [d EXCEPT !.table = t] IN
           /\ IsDict(e) /\ e.table = t /\ e.order = d.order /\ e.used = d.used
           /\ e.version = d.version
<1> DEFINE e == [d EXCEPT !.table = t]
<1>1. e = [table |-> t, order |-> d.order, used |-> d.used, version |-> d.version]
  BY DEF IsDict
<1> HIDE DEF e
<1>2. e.table = t /\ e.order = d.order /\ e.used = d.used /\ e.version = d.version
  BY <1>1
<1>3. IsDict(e)
  BY <1>1, <1>2 DEF IsDict
<1>4. QED
  BY <1>2, <1>3 DEF e

\* A slot overwritten or made a tombstone.
LEMMA SlotWritten ==
    ASSUME NEW d, IsDict(d), NEW i, NEW s \in Slot, NEW t, Changed(d.table, t, i, s)
    PROVE  IsTable(t) /\ SizeOf(t) = SizeOf(d.table)
<1>1. IsTable(d.table)
  BY DEF IsDict
<1>2. QED
  BY <1>1, TableChanged

LEMMA OrderInit ==
    ASSUME Init
    PROVE  OrderInv
<1>1. PICK p \in Literals : dict = BuildMap(p)
  BY DEF Init
<1>2. PICK q \in Sources : source = BuildMap(q)
  BY DEF Init
<1>3. /\ IsDict(dict) /\ dict.used = Len(dict.order) /\ dict.used < SizeOf(dict.table)
  BY <1>1, BuildMapIs
<1>4. IsDict(source) /\ LiveSlots(source.table) <= source.used
  BY <1>2, BuildMapIs
<1>5. QED
  BY <1>3, <1>4 DEF Init, OrderInv

LEMMA OverwriteFits ==
    ASSUME OrderInv, NEW k \in Keys, NEW v \in AllVals, StoreOverwrite(k, v)
    PROVE  DictInv'
<1> DEFINE at == Lookup(dict.table, k)
           t == [dict.table EXCEPT ![at] = Live(k, v)]
<1>1. IsTable(t) /\ SizeOf(t) = SizeOf(dict.table)
  <2>1. Changed(dict.table, t, at, Live(k, v)) /\ Live(k, v) \in Slot /\ IsDict(dict)
    BY SlotsAre DEF OrderInv, Changed
  <2> HIDE DEF t, at
  <2>2. QED
    BY <2>1, SlotWritten
<1>2. dict' = [dict EXCEPT !.table = t]
  BY DEF StoreOverwrite, OrderInv, IsDict
<1> HIDE DEF t
<1>3. IsDict(dict') /\ dict'.table = t /\ dict'.order = dict.order /\ dict'.used = dict.used
  BY <1>1, <1>2, Retabled DEF OrderInv
<1>4. QED
  BY <1>1, <1>3 DEF DictInv, OrderInv

LEMMA NewFits ==
    ASSUME OrderInv, NEW k \in Keys, NEW v \in AllVals, StoreNew(k, v)
    PROVE  DictInv' /\ (grow' # NoGrow => grow'[1] \in Keys /\ grow'[2] \in AllVals)
<1>1. grow' # NoGrow => grow'[1] \in Keys /\ grow'[2] \in AllVals
  BY DEF StoreNew, Running
<1>2. CASE dict' = dict
  BY <1>1, <1>2 DEF OrderInv, DictInv
<1>3. CASE /\ ~NeedsGrow(dict.used, SizeOf(dict.table))
           /\ dict' = Inserted(dict, Place(dict.table, k), k, v)
  <2>1. /\ IsDict(dict') /\ SizeOf(dict'.table) = SizeOf(dict.table)
        /\ Len(dict'.order) = Len(dict.order) + 1 /\ dict'.used = dict.used + 1
    BY <1>3, InsertedIs DEF OrderInv
  <2>2. dict.used \in Nat /\ SizeOf(dict.table) \in Nat
    BY DEF OrderInv, IsDict, IsTable
  <2>3. dict.used + 1 < SizeOf(dict.table)
    BY <1>3, <2>2, NeedsNoGrow
  <2>4. QED
    BY <1>1, <2>1, <2>2, <2>3 DEF OrderInv, DictInv
<1>4. QED
  BY <1>2, <1>3 DEF StoreNew

LEMMA GrowFits ==
    ASSUME OrderInv, DictGrow
    PROVE  DictInv'
<1> DEFINE k == grow[1]
           v == grow[2]
           n == GrownSize(dict.used, SizeOf(dict.table))
           t == Rehash(dict.table, n)
           d == [dict EXCEPT !.table = t]
           e == FwInsert(d, k, v)
<1>1. k \in Keys /\ v \in AllVals /\ Larger(dict.used, SizeOf(dict.table)) # {}
  BY DEF DictGrow, OrderInv
<1>2. dict.used \in Nat /\ SizeOf(dict.table) \in Nat /\ IsTable(dict.table) /\ IsDict(dict)
  BY DEF OrderInv, IsDict, IsTable
<1>3. n \in Nat /\ n >= 1 /\ dict.used + 1 < n
  <2>1. n \in Nat /\ n >= 8 /\ dict.used + 1 < n
    BY <1>1, <1>2, GrownSizeIs
  <2> HIDE DEF n
  <2>2. QED
    BY <2>1
<1>4. dict' = IF k.tag = "NONE" THEN [e EXCEPT !.table = t] ELSE e
  BY DEF DictGrow
<1> HIDE DEF n, k, v
<1>5. IsTable(t) /\ SizeOf(t) = n
  BY <1>2, <1>3, RehashIs
<1> HIDE DEF t
<1>6. IsDict(d) /\ d.table = t /\ d.used = dict.used /\ d.order = dict.order
  BY <1>2, <1>5, Retabled
<1> HIDE DEF d
<1>7. Entered(d, e)
  BY <1>1, <1>6, FwInsertIs
<1>8. IsDict(e) /\ SizeOf(e.table) = n /\ e.used = Len(e.order) /\ e.used <= dict.used + 1
  BY <1>5, <1>6, <1>7, EnteredTwice DEF OrderInv
<1> HIDE DEF e
<1>9. e.used < n
  BY <1>2, <1>3, <1>8 DEF IsDict
<1>10. CASE k.tag = "NONE"
  <2>1. IsDict(dict') /\ dict'.table = t /\ dict'.used = e.used /\ dict'.order = e.order
    BY <1>4, <1>5, <1>8, <1>10, Retabled
  <2>2. QED
    BY <1>5, <1>8, <1>9, <2>1 DEF DictInv
<1>11. CASE k.tag # "NONE"
  BY <1>4, <1>8, <1>9, <1>11 DEF DictInv
<1>12. QED
  BY <1>10, <1>11

LEMMA ConcatIs ==
    ASSUME NEW X, NEW s \in Seq(X), NEW t \in Seq(X)
    PROVE  s \o t \in Seq(X) /\ Len(s \o t) = Len(s) + Len(t)
OBVIOUS

\* What is left of a sequence has one place less.
LEMMA RemoveAtIs ==
    ASSUME NEW X, NEW s \in Seq(X), NEW i \in DOMAIN s
    PROVE  RemoveAt(s, i) \in Seq(X) /\ Len(RemoveAt(s, i)) = Len(s) - 1 /\ Len(s) >= 1
<1> DEFINE a == SubSeq(s, 1, i - 1)
           b == SubSeq(s, i + 1, Len(s))
<1>1. Len(s) \in Nat /\ i \in Nat /\ 1 <= i /\ i <= Len(s)
  OBVIOUS
<1>2. a \in Seq(X) /\ Len(a) = i - 1
  BY <1>1
<1>3. b \in Seq(X) /\ Len(b) = Len(s) - i
  BY <1>1
<1> HIDE DEF a, b
<1>4. RemoveAt(s, i) = a \o b
  BY DEF RemoveAt, a, b
<1>5. a \o b \in Seq(X) /\ Len(a \o b) = Len(a) + Len(b)
  BY <1>2, <1>3, ConcatIs
<1>6. QED
  BY <1>1, <1>2, <1>3, <1>4, <1>5

LEMMA DeleteFits ==
    ASSUME OrderInv, NEW k \in Keys, Delete(k)
    PROVE  DictInv'
<1> DEFINE at == Lookup(dict.table, k)
           t == [dict.table EXCEPT ![at] = Tombstone]
           places == {i \in DOMAIN dict.order : SameKey(k, dict.order[i])}
           i == Min(places)
<1>1. IsTable(t) /\ SizeOf(t) = SizeOf(dict.table)
  <2>1. Changed(dict.table, t, at, Tombstone) /\ Tombstone \in Slot /\ IsDict(dict)
    BY SlotsAre DEF OrderInv, Changed
  <2> HIDE DEF t, at
  <2>2. QED
    BY <2>1, SlotWritten
<1>2. CASE places = {}
  <2>1. dict' = [dict EXCEPT !.table = t]
    BY <1>2 DEF Delete
  <2> HIDE DEF t
  <2>2. IsDict(dict') /\ dict'.table = t /\ dict'.used = dict.used /\ dict'.order = dict.order
    BY <1>1, <2>1, Retabled DEF OrderInv
  <2>3. QED
    BY <1>1, <2>2 DEF OrderInv, DictInv
<1>3. CASE places # {}
  <2>1. dict' = [table |-> t, order |-> RemoveAt(dict.order, i),
                 used |-> dict.used - 1, version |-> dict.version + 1]
    BY <1>3 DEF Delete
  <2>2. dict.order \in Seq(Keys) /\ dict.used \in Nat /\ dict.version \in Nat
    BY DEF OrderInv, IsDict
  <2>3. i \in DOMAIN dict.order
    <3>1. places \subseteq Nat
      BY <2>2
    <3>2. i \in places
      BY <1>3, <3>1, MinIs
    <3>3. QED
      BY <3>2
  <2> HIDE DEF t, i
  <2>4. /\ RemoveAt(dict.order, i) \in Seq(Keys)
        /\ Len(RemoveAt(dict.order, i)) = Len(dict.order) - 1 /\ Len(dict.order) >= 1
    BY <2>2, <2>3, RemoveAtIs
  <2>5. /\ dict'.table = t /\ dict'.order = RemoveAt(dict.order, i)
        /\ dict'.used = dict.used - 1 /\ dict'.version = dict.version + 1
        /\ dict' = [table |-> dict'.table, order |-> dict'.order,
                    used |-> dict'.used, version |-> dict'.version]
    BY <2>1
  <2>6. dict.used = Len(dict.order) /\ dict.used < SizeOf(dict.table) /\ SizeOf(t) \in Nat
    BY <1>1 DEF OrderInv, IsTable
  <2>7. dict'.used \in Nat /\ dict'.version \in Nat /\ dict'.used = Len(dict'.order)
    BY <2>2, <2>4, <2>5, <2>6
  <2>8. IsDict(dict')
    BY <1>1, <2>4, <2>5, <2>7 DEF IsDict
  <2>9. dict'.used < SizeOf(dict'.table)
    BY <1>1, <2>2, <2>5, <2>6
  <2>10. QED
    BY <2>7, <2>8, <2>9 DEF DictInv
<1>4. QED
  BY <1>2, <1>3

LEMMA UpdateFits ==
    ASSUME OrderInv, Update
    PROVE  DictInv'
<1> DEFINE need == dict.used + source.used
           size == SizeOf(dict.table)
           n == GrownSize(need, size)
           t == Rehash(dict.table, n)
           d == IF NeedsGrow(need, size) THEN [dict EXCEPT !.table = t] ELSE dict
<1>1. dict' = Merged(d) /\ (NeedsGrow(need, size) => Larger(need, size) # {})
  BY DEF Update
<1>2. /\ dict.used \in Nat /\ source.used \in Nat /\ size \in Nat
      /\ IsTable(dict.table) /\ IsTable(source.table) /\ IsDict(dict)
  BY DEF OrderInv, IsDict, IsTable
<1>3. need \in Nat
  BY <1>2
<1> HIDE DEF need, size
<1>4. IsDict(d) /\ d.used = dict.used /\ d.order = dict.order /\ need < SizeOf(d.table)
  <2>1. CASE NeedsGrow(need, size)
    <3>1. n \in Nat /\ n >= 8 /\ need + 1 < n
      BY <1>1, <1>2, <1>3, <2>1, GrownSizeIs
    <3> HIDE DEF n
    <3>2. n >= 1 /\ need < n
      BY <1>3, <3>1
    <3>3. IsTable(t) /\ SizeOf(t) = n
      BY <1>2, <3>1, <3>2, RehashIs
    <3> HIDE DEF t
    <3>4. d = [dict EXCEPT !.table = t]
      BY <2>1
    <3> HIDE DEF d
    <3>5. IsDict(d) /\ d.table = t /\ d.used = dict.used /\ d.order = dict.order
      BY <1>2, <3>3, <3>4, Retabled
    <3>6. QED
      BY <3>2, <3>3, <3>5
  <2>2. CASE ~NeedsGrow(need, size)
    <3>1. need + 1 < size
      BY <1>2, <1>3, <2>2, NeedsNoGrow
    <3>2. need < size
      BY <1>2, <1>3, <3>1
    <3>3. d = dict
      BY <2>2
    <3>4. QED
      BY <1>2, <3>2, <3>3 DEF size
  <2>3. QED
    BY <2>1, <2>2
<1> HIDE DEF d
<1>5. /\ IsDict(dict') /\ SizeOf(dict'.table) = SizeOf(d.table)
      /\ dict'.used = Len(dict'.order) /\ dict'.used <= dict.used + LiveSlots(source.table)
  BY <1>1, <1>2, <1>4, MergedIs DEF OrderInv
<1>6. dict'.used < SizeOf(dict'.table)
  <2> DEFINE l == LiveSlots(source.table)
             s == SizeOf(d.table)
             u == dict'.used
  <2>1. l \in Nat /\ s \in Nat /\ u \in Nat /\ need = dict.used + source.used
    BY <1>2, <1>4, <1>5, LiveIsNat DEF IsDict, IsTable, need
  <2>2. u <= dict.used + l /\ l <= source.used /\ need < s
    BY <1>4, <1>5 DEF OrderInv
  <2> HIDE DEF l, s, u
  <2>3. u < s
    BY <1>2, <2>1, <2>2
  <2>4. QED
    BY <1>5, <2>3 DEF s, u
<1>7. QED
  BY <1>5, <1>6 DEF DictInv

LEMMA OrderStep ==
    ASSUME OrderInv, Next
    PROVE  OrderInv'
<1>1. Vals \subseteq AllVals
  BY DEF AllVals
<1>2. source' = source /\ DictInv' /\ (grow' # NoGrow => grow'[1] \in Keys /\ grow'[2] \in AllVals)
  <2>1. CASE \E k \in Keys, v \in Vals : StoreOverwrite(k, v)
    BY <1>1, <2>1, OverwriteFits DEF StoreOverwrite, OrderInv
  <2>2. CASE \E k \in Keys, v \in Vals : StoreNew(k, v)
    BY <1>1, <2>2, NewFits DEF StoreNew
  <2>3. CASE DictGrow
    BY <2>3, GrowFits DEF DictGrow
  <2>4. CASE \E k \in Keys : Delete(k)
    BY <2>4, DeleteFits DEF Delete, OrderInv
  <2>5. CASE Update
    BY <2>5, UpdateFits DEF Update, OrderInv
  <2>6. CASE GetIter \/ ForIter
    BY <2>6 DEF GetIter, ForIter, OrderInv, DictInv
  <2>7. QED
    BY <2>1, <2>2, <2>3, <2>4, <2>5, <2>6 DEF Next, Step
<1>3. QED
  BY <1>2 DEF OrderInv, DictInv

\* For all keys, however they hash, and for all programs: the header counts the
\* keys of the order buffer, and when a key is appended the buffer has a place
\* for it, which neither machine looks at (CP_DICT_ORDER_VAL of
\* pycore_cont_dict.svh, dict_insert_from_scratch of list_grow.s).
THEOREM OrderFitsHolds == Spec => []OrderFits
<1>1. Init => OrderInv
  BY OrderInit
<1>2. OrderInv /\ [Next]_vars => OrderInv'
  <2>1. CASE Next
    BY <2>1, OrderStep
  <2>2. CASE UNCHANGED vars
    BY <2>2 DEF vars, OrderInv
  <2>3. QED
    BY <2>1, <2>2
<1>3. OrderInv => OrderFits
  BY DEF OrderInv, OrderFits
<1>4. QED
  BY <1>1, <1>2, <1>3, PTL DEF Spec
-----------------------------------------------------------------------------
(* Keys *)

\* On these keys the two machines hash alike, and equality is equality of names.
LEMMA KeysAlike ==
    ASSUME NEW a \in Keys, NEW b \in Keys
    PROVE  /\ SameKey(a, b) <=> NameOf(a) = NameOf(b)
           /\ NameOf(a) = NameOf(b) => Hash(a) = Hash(b)
<1>1. /\ a.tag # "number" /\ b.tag # "number"
      /\ a.tag \in {"INT", "BOOL"} => a.shape # "frac"
      /\ b.tag \in {"INT", "BOOL"} => b.shape # "frac"
      /\ a.tag = "FLOAT" => a.shape \in {"whole", "frac"}
      /\ b.tag = "FLOAT" => b.shape \in {"whole", "frac"}
  BY PromiseAssumption
<1>2. a.tag = b.tag /\ a.n = b.n /\ (Numeric(a) => a.shape = b.shape) => a = b
  BY PromiseAssumption
<1>3. CASE Numeric(a) /\ a.shape # "frac" /\ Numeric(b) /\ b.shape # "frac"
  <2>1. Whole(a) /\ Whole(b)
    BY <1>1, <1>3 DEF Numeric, Whole
  <2>2. QED
    BY <1>3, <2>1 DEF SameKey, NameOf, Hash
<1>4. CASE Numeric(a) /\ a.shape # "frac" /\ ~(Numeric(b) /\ b.shape # "frac")
  <2>1. NameOf(a) # NameOf(b)
    BY <1>1, <1>4 DEF NameOf
  <2>2. ~SameKey(a, b)
    BY <1>1, <1>4 DEF SameKey, Numeric, Whole
  <2>3. QED
    BY <2>1, <2>2
<1>5. CASE ~(Numeric(a) /\ a.shape # "frac") /\ Numeric(b) /\ b.shape # "frac"
  <2>1. NameOf(a) # NameOf(b)
    BY <1>1, <1>5 DEF NameOf
  <2>2. ~SameKey(a, b)
    BY <1>1, <1>5 DEF SameKey, Numeric, Whole
  <2>3. QED
    BY <2>1, <2>2
<1>6. CASE ~(Numeric(a) /\ a.shape # "frac") /\ ~(Numeric(b) /\ b.shape # "frac")
  <2>1. NameOf(a) = <<a.tag, a.n>> /\ NameOf(b) = <<b.tag, b.n>>
    BY <1>6 DEF NameOf
  <2>2. NameOf(a) = NameOf(b) <=> a.tag = b.tag /\ a.n = b.n
    BY <2>1
  <2>3. a.tag = b.tag /\ a.n = b.n => a = b
    BY <1>2, <1>6 DEF Numeric
  <2>4. SameKey(a, b) <=> a.tag = b.tag /\ a.n = b.n
    BY <1>1, <1>6, <2>3 DEF SameKey, Numeric, Whole
  <2>5. QED
    BY <2>2, <2>3, <2>4
<1>7. QED
  BY <1>3, <1>4, <1>5, <1>6

LEMMA HashIs ==
    ASSUME NEW k \in Keys
    PROVE  Hash(k) \in Int /\ FwHash(k) = Hash(k)
<1>1. /\ k.bits \in Int /\ (k.tag \in {"INT", "BOOL"} => k.shape # "frac")
      /\ k.tag = "FLOAT" => k.shape \in {"whole", "frac"}
      /\ Numeric(k) /\ k.shape # "frac" => k.n \in Int
  BY PromiseAssumption
<1>2. QED
  BY <1>1 DEF Hash, FwHash, Numeric, Whole, IntHash

\* What the firmware finds equal is equal; and what is equal it finds, unless it
\* looks for a whole float other than 0.0.
Sought(k) == k.tag = "FLOAT" /\ k.shape = "whole" => k.n = 0

LEMMA FwAlike ==
    ASSUME NEW a \in Keys, NEW b \in Keys
    PROVE  /\ FwSameKey(a, b) => SameKey(a, b)
           /\ Sought(a) => (FwSameKey(a, b) <=> SameKey(a, b))
<1>1. /\ a.tag \in {"INT", "BOOL"} => a.shape # "frac"
      /\ b.tag \in {"INT", "BOOL"} => b.shape # "frac"
      /\ a.tag = "FLOAT" => a.shape \in {"whole", "frac"}
      /\ b.tag = "FLOAT" => b.shape \in {"whole", "frac"}
  BY PromiseAssumption
<1>2. QED
  BY <1>1 DEF Sought, FwSameKey, SameKey, Numeric, Whole
-----------------------------------------------------------------------------
(* Probes *)

LEMMA ModIs ==
    ASSUME NEW n \in Nat, n >= 1, NEW k \in Int
    PROVE  (k % n) \in 0 .. n - 1 /\ (k \div n) \in Int /\ k = n * (k \div n) + (k % n)
OBVIOUS

LEMMA ModUnique ==
    ASSUME NEW n \in Nat, n >= 1, NEW p \in Int, NEW q \in Int,
           NEW r \in 0 .. n - 1, NEW s \in 0 .. n - 1, n * p + r = n * q + s
    PROVE  r = s
<1>1. n * (p - q) = s - r /\ n * (q - p) = r - s
  OBVIOUS
<1>2. ASSUME NEW d \in Int, d >= 1 PROVE n * d >= n
  BY <1>2
<1>3. ~(p - q >= 1) /\ ~(q - p >= 1)
  BY <1>1, <1>2
<1>4. p = q
  BY <1>3
<1>5. QED
  BY <1>4

\* From every hash a probe comes to every slot.
LEMMA ProbeComes ==
    ASSUME NEW t, IsTable(t), NEW h \in Int, NEW i \in 0 .. SizeOf(t) - 1
    PROVE  \E s \in 0 .. SizeOf(t) - 1 : ProbeSlot(t, h, s) = i
<1> DEFINE n == SizeOf(t)
<1>1. n \in Nat /\ n >= 1
  BY DEF IsTable
<1> HIDE DEF n
<1> DEFINE s == (i - h) % n
           q == (i - h) \div n
           r == (h + s) % n
           p == (h + s) \div n
<1>2. i \in 0 .. n - 1
  BY DEF n
<1>3. i - h \in Int
  BY <1>1, <1>2
<1>4. s \in 0 .. n - 1 /\ q \in Int /\ i - h = n * q + s
  BY <1>1, <1>3, ModIs
<1> HIDE DEF s, q
<1>5. h + s \in Int
  BY <1>1, <1>4
<1>6. r \in 0 .. n - 1 /\ p \in Int /\ h + s = n * p + r
  BY <1>1, <1>5, ModIs
<1> HIDE DEF r, p
<1>7. n * 0 + i = n * (q + p) + r
  <2>1. n * (q + p) = n * q + n * p /\ n * q \in Int /\ n * p \in Int /\ n * 0 = 0
    BY <1>1, <1>4, <1>6
  <2> DEFINE a == n * q
             b == n * p
  <2>2. i - h = a + s /\ h + s = b + r /\ a \in Int /\ b \in Int
    BY <1>4, <1>6, <2>1
  <2> HIDE DEF a, b
  <2>3. i = a + s + h /\ s + h = b + r
    BY <1>1, <1>2, <1>4, <1>6, <2>2
  <2>4. i = (a + b) + r
    BY <1>1, <1>2, <1>4, <1>6, <2>2, <2>3
  <2>5. n * (q + p) = a + b /\ n * 0 = 0
    BY <2>1 DEF a, b
  <2>6. QED
    BY <1>2, <2>4, <2>5
<1>8. i = r
  <2>1. 0 \in Int /\ q + p \in Int
    BY <1>4, <1>6
  <2>2. QED
    BY <1>1, <1>2, <1>6, <1>7, <2>1, ModUnique
<1>9. ProbeSlot(t, h, s) = i
  BY <1>8 DEF ProbeSlot, n, r
<1>10. QED
  BY <1>4, <1>9 DEF n

LEMMA ProbeIn ==
    ASSUME NEW t, IsTable(t), NEW h \in Int, NEW s \in Nat
    PROVE  ProbeSlot(t, h, s) \in 0 .. SizeOf(t) - 1 /\ ProbeSlot(t, h, s) \in DOMAIN t
<1>1. SizeOf(t) \in Nat /\ SizeOf(t) >= 1 /\ h + s \in Int
  BY DEF IsTable
<1>2. QED
  BY <1>1, ModIs DEF ProbeSlot, IsTable

LEMMA FirstStepIs ==
    ASSUME NEW t, IsTable(t), NEW h, NEW slots
    PROVE  LET s == FirstStep(t, h, slots) IN
           /\ s \in 0 .. SizeOf(t) /\ s \in Nat
           /\ s < SizeOf(t) => ProbeSlot(t, h, s) \in slots
           /\ \A e \in 0 .. s - 1 : ProbeSlot(t, h, e) \notin slots
<1> DEFINE n == SizeOf(t)
           T == {s \in 0 .. n : s < n => ProbeSlot(t, h, s) \in slots}
<1>1. n \in Nat
  BY DEF IsTable
<1>2. T \subseteq Nat /\ n \in T
  BY <1>1
<1>3. PICK s \in T : \A e \in T : s <= e
  BY <1>2, LeastNumber
<1>4. ASSUME NEW e \in 0 .. s - 1 PROVE ProbeSlot(t, h, e) \notin slots
  <2>1. e \in 0 .. n /\ ~(s <= e)
    BY <1>1, <1>3
  <2>2. e \notin T
    BY <1>3, <2>1
  <2>3. QED
    BY <2>1, <2>2
<1>5. \E s_1 \in 0 .. SizeOf(t) :
        /\ s_1 < SizeOf(t) => ProbeSlot(t, h, s_1) \in slots
        /\ \A e \in 0 .. s_1 - 1 : ProbeSlot(t, h, e) \notin slots
  BY <1>3, <1>4
<1>6. QED
  BY <1>1, <1>5 DEF FirstStep
-----------------------------------------------------------------------------
(* Sound tables *)

\* No key twice.
Apart(t) ==
    \A i, j \in At(t, "live") : NameOf(t[i].key) = NameOf(t[j].key) => i = j

\* A probe from h gets to step s.
Open(t, h, s) == \A e \in 0 .. s - 1 : t[ProbeSlot(t, h, e)].st # "empty"

Reached(t, i, h) == \E s \in 0 .. SizeOf(t) - 1 : ProbeSlot(t, h, s) = i /\ Open(t, h, s)

Reach(t) == \A i \in At(t, "live") : Reached(t, i, Hash(t[i].key))

Sound(t) == IsTable(t) /\ Apart(t) /\ Reach(t)

\* The slots with a key of this name.
Holding(t, name) == {i \in At(t, "live") : NameOf(t[i].key) = name}

LEMMA LiveIs ==
    ASSUME NEW t, IsTable(t)
    PROVE  /\ \A st, i : i \in At(t, st) <=> i \in 0 .. SizeOf(t) - 1 /\ t[i].st = st
           /\ \A i \in At(t, "live") : /\ t[i].key \in Keys /\ t[i].val \in AllVals
                                       /\ NameOf(t[i].key) \in Names
           /\ \A i \in 0 .. SizeOf(t) - 1 : t[i].st \in {"empty", "tomb", "live"}
<1>1. DOMAIN t = 0 .. SizeOf(t) - 1 /\ \A i \in 0 .. SizeOf(t) - 1 : t[i] \in Slot
  BY DEF IsTable
<1>2. \A st, i : i \in At(t, st) <=> i \in 0 .. SizeOf(t) - 1 /\ t[i].st = st
  BY <1>1 DEF At
<1>3. \A i \in 0 .. SizeOf(t) - 1 : t[i].st \in {"empty", "tomb", "live"}
  BY <1>1, SlotIs
<1>4. ASSUME NEW i \in At(t, "live")
      PROVE  t[i].key \in Keys /\ t[i].val \in AllVals /\ NameOf(t[i].key) \in Names
  <2>1. t[i] \in Slot /\ t[i].st = "live"
    BY <1>1, <1>2
  <2>2. t[i].key \in Keys /\ t[i].val \in AllVals
    BY <2>1, SlotIs
  <2>3. QED
    BY <2>2 DEF Names
<1>5. QED
  BY <1>2, <1>3, <1>4

LEMMA LiveFinite ==
    ASSUME NEW t, IsTable(t)
    PROVE  IsFiniteSet(At(t, "live"))
<1> DEFINE n == SizeOf(t)
<1>1. n \in Nat
  BY DEF IsTable
<1>2. At(t, "live") \subseteq 0 .. n - 1
  BY LiveIs
<1> HIDE DEF n
<1>3. IsFiniteSet(0 .. n - 1)
  BY <1>1, FS_Interval
<1>4. QED
  BY <1>2, <1>3, FS_Subset

\* A table that is not all live.
LEMMA RoomIs ==
    ASSUME NEW t, IsTable(t), LiveSlots(t) < SizeOf(t)
    PROVE  \E i \in 0 .. SizeOf(t) - 1 : t[i].st # "live"
<1> SUFFICES ASSUME \A i \in 0 .. SizeOf(t) - 1 : t[i].st = "live" PROVE FALSE
  OBVIOUS
<1>1. At(t, "live") = DOMAIN t
  BY LiveIs DEF IsTable
<1>2. LiveSlots(t) = SizeOf(t)
  BY <1>1 DEF LiveSlots, SizeOf
<1>3. SizeOf(t) \in Nat
  BY DEF IsTable
<1>4. QED
  BY <1>2, <1>3

LEMMA FoundOne ==
    ASSUME NEW t, IsTable(t), NEW h \in Int, NEW i \in At(t, "live"), Reached(t, i, h)
    PROVE  Found(t, h, LastStep(t, h, {i})) = i
<1> DEFINE s == LastStep(t, h, {i})
           n == SizeOf(t)
           slots == At(t, "empty") \cup {i}
<1>1. /\ s \in 0 .. n /\ (s < n => ProbeSlot(t, h, s) \in slots)
      /\ \A e \in 0 .. s - 1 : ProbeSlot(t, h, e) \notin slots
  <2>1. s = FirstStep(t, h, slots)
    BY DEF LastStep
  <2> HIDE DEF s, slots
  <2>2. QED
    BY <2>1, FirstStepIs
<1>2. n \in Nat
  BY DEF IsTable
<1>3. PICK r \in 0 .. n - 1 : ProbeSlot(t, h, r) = i /\ Open(t, h, r)
  BY DEF Reached
<1>4. t[i].st = "live"
  BY LiveIs
<1> HIDE DEF s, n
<1>5. s <= r
  <2> SUFFICES ASSUME ~(s <= r) PROVE FALSE
    OBVIOUS
  <2>1. r \in 0 .. s - 1
    BY <1>1, <1>2, <1>3
  <2>2. QED
    BY <1>1, <1>3, <2>1
<1>6. s < n /\ ProbeSlot(t, h, s) \in slots
  BY <1>1, <1>2, <1>3, <1>5
<1>7. ProbeSlot(t, h, s) = i
  <2>1. CASE s = r
    BY <1>3, <2>1
  <2>2. CASE s # r
    <3>1. s \in 0 .. r - 1
      BY <1>1, <1>2, <1>3, <1>5, <2>2
    <3>2. t[ProbeSlot(t, h, s)].st # "empty"
      BY <1>3, <3>1 DEF Open
    <3>3. QED
      BY <1>6, <3>2, LiveIs
  <2>3. QED
    BY <2>1, <2>2
<1>8. QED
  BY <1>4, <1>6, <1>7 DEF Found, s, n

LEMMA FoundNone ==
    ASSUME NEW t, IsTable(t), NEW h \in Int
    PROVE  Found(t, h, LastStep(t, h, {})) = -1
<1> DEFINE s == LastStep(t, h, {})
<1>1. s < SizeOf(t) => ProbeSlot(t, h, s) \in At(t, "empty")
  <2>1. s = FirstStep(t, h, At(t, "empty"))
    <3>1. At(t, "empty") \cup {} = At(t, "empty")
      OBVIOUS
    <3>2. QED
      BY <3>1 DEF LastStep
  <2> HIDE DEF s
  <2>2. QED
    BY <2>1, FirstStepIs
<1>2. s < SizeOf(t) => t[ProbeSlot(t, h, s)].st = "empty"
  BY <1>1, LiveIs
<1> HIDE DEF s
<1>3. QED
  BY <1>2 DEF Found, s

\* The slot for a new key is not live, and the probe for the key comes to it.
LEMMA FreeIs ==
    ASSUME NEW t, IsTable(t), NEW h \in Int, LiveSlots(t) < SizeOf(t)
    PROVE  LET j == Free(t, h, LastStep(t, h, {})) IN
           j \in 0 .. SizeOf(t) - 1 /\ t[j].st # "live" /\ Reached(t, j, h)
<1> DEFINE s == LastStep(t, h, {})
           f == FirstTomb(t, h)
           n == SizeOf(t)
           r == IF f < s THEN f ELSE s
<1>1. /\ s \in 0 .. n /\ (s < n => ProbeSlot(t, h, s) \in At(t, "empty"))
      /\ \A e \in 0 .. s - 1 : ProbeSlot(t, h, e) \notin At(t, "empty")
  <2>1. s = FirstStep(t, h, At(t, "empty"))
    <3>1. At(t, "empty") \cup {} = At(t, "empty")
      OBVIOUS
    <3>2. QED
      BY <3>1 DEF LastStep
  <2> HIDE DEF s
  <2>2. QED
    BY <2>1, FirstStepIs
<1>2. /\ f \in 0 .. n /\ (f < n => ProbeSlot(t, h, f) \in At(t, "tomb"))
      /\ \A e \in 0 .. f - 1 : ProbeSlot(t, h, e) \notin At(t, "tomb")
  <2>1. f = FirstStep(t, h, At(t, "tomb"))
    BY DEF FirstTomb
  <2> HIDE DEF f
  <2>2. QED
    BY <2>1, FirstStepIs
<1>3. n \in Nat /\ n >= 1
  BY DEF IsTable
<1>4. Free(t, h, s) = ProbeSlot(t, h, r)
  BY DEF Free
<1> HIDE DEF s, f, n
<1>5. r \in 0 .. n - 1
  <2> SUFFICES ASSUME r \notin 0 .. n - 1 PROVE FALSE
    OBVIOUS
  <2>1. s = n /\ f = n
    BY <1>1, <1>2, <1>3
  <2>2. PICK j \in 0 .. n - 1 : t[j].st # "live"
    BY RoomIs DEF n
  <2>3. PICK e \in 0 .. n - 1 : ProbeSlot(t, h, e) = j
    BY <2>2, ProbeComes DEF n
  <2>4. t[j].st = "empty" \/ t[j].st = "tomb"
    BY <2>2, LiveIs DEF n
  <2>5. j \in At(t, "empty") \/ j \in At(t, "tomb")
    BY <2>4, LiveIs DEF n
  <2>6. QED
    BY <1>1, <1>2, <2>1, <2>3, <2>5
<1>6. ProbeSlot(t, h, r) \in 0 .. n - 1 /\ t[ProbeSlot(t, h, r)].st # "live"
  <2>1. ProbeSlot(t, h, r) \in At(t, "tomb") \/ ProbeSlot(t, h, r) \in At(t, "empty")
    BY <1>1, <1>2, <1>3, <1>5
  <2>2. QED
    BY <2>1, LiveIs DEF n
<1>7. Open(t, h, r)
  <2> SUFFICES ASSUME NEW e \in 0 .. r - 1 PROVE t[ProbeSlot(t, h, e)].st # "empty"
    BY DEF Open
  <2>1. e \in 0 .. s - 1 /\ e \in Nat
    BY <1>1, <1>2, <1>3, <1>5
  <2>2. ProbeSlot(t, h, e) \notin At(t, "empty") /\ ProbeSlot(t, h, e) \in 0 .. n - 1
    BY <1>1, <2>1, ProbeIn DEF n
  <2>3. QED
    BY <2>2, LiveIs DEF n
<1>8. QED
  BY <1>4, <1>5, <1>6, <1>7 DEF Reached, s, n
-----------------------------------------------------------------------------
(* The mapping a table stands for *)

Maps(t, m) ==
    /\ m \in [Names -> AllVals \cup {Absent}]
    /\ \A i \in At(t, "live") : m[NameOf(t[i].key)] = t[i].val
    /\ \A name \in Names : m[name] # Absent => Holding(t, name) # {}

With(m, name, v) == [m EXCEPT ![name] = v]

LEMMA WithIs ==
    ASSUME NEW m \in [Names -> AllVals \cup {Absent}], NEW name \in Names,
           NEW v \in AllVals \cup {Absent}
    PROVE  /\ With(m, name, v) \in [Names -> AllVals \cup {Absent}]
           /\ \A n \in Names : With(m, name, v)[n] = IF n = name THEN v ELSE m[n]
BY DEF With

LEMMA HoldingIs ==
    ASSUME NEW t, NEW m, IsTable(t), Maps(t, m), NEW name \in Names
    PROVE  (Holding(t, name) # {}) <=> (m[name] # Absent)
<1>1. ASSUME NEW i \in Holding(t, name) PROVE m[name] # Absent
  <2>1. i \in At(t, "live") /\ NameOf(t[i].key) = name
    BY DEF Holding
  <2>2. m[name] = t[i].val /\ t[i].val \in AllVals
    BY <2>1, LiveIs DEF Maps
  <2>3. QED
    BY <2>2, PromiseAssumption
<1>2. QED
  BY <1>1 DEF Maps

LEMMA ReachedKept ==
    ASSUME NEW t, IsTable(t), NEW i, NEW s \in Slot, s.st # "empty", NEW u, Changed(t, u, i, s),
           NEW j, NEW h \in Int, Reached(t, j, h)
    PROVE  Reached(u, j, h)
<1>1. /\ SizeOf(u) = SizeOf(t)
      /\ \A e \in 0 .. SizeOf(t) - 1 : u[e] = IF e = i THEN s ELSE t[e]
  BY ONLY IsTable(t), s \in Slot, Changed(t, u, i, s), TableChanged
<1>2. PICK r \in 0 .. SizeOf(t) - 1 : ProbeSlot(t, h, r) = j /\ Open(t, h, r)
  BY DEF Reached
<1>3. \A e : ProbeSlot(u, h, e) = ProbeSlot(t, h, e)
  BY <1>1 DEF ProbeSlot
<1>4. Open(u, h, r)
  <2> SUFFICES ASSUME NEW e \in 0 .. r - 1 PROVE u[ProbeSlot(t, h, e)].st # "empty"
    BY <1>3 DEF Open
  <2>1. t[ProbeSlot(t, h, e)].st # "empty"
    BY <1>2 DEF Open
  <2>2. e \in Nat
    BY <1>2 DEF IsTable
  <2>3. ProbeSlot(t, h, e) \in 0 .. SizeOf(t) - 1
    BY <2>2, ProbeIn
  <2>4. QED
    BY <1>1, <2>1, <2>3
<1>5. QED
  BY <1>1, <1>2, <1>3, <1>4 DEF Reached

\* A key may be put into slot i: its own, or a free one that its probe reaches.
Takes(t, i, k) ==
    \/ i \in Holding(t, NameOf(k))
    \/ /\ Holding(t, NameOf(k)) = {} /\ i \in 0 .. SizeOf(t) - 1 /\ t[i].st # "live"
       /\ Reached(t, i, Hash(k))

LEMMA SlotTaken ==
    ASSUME NEW t, Sound(t), NEW k \in Keys, NEW v \in AllVals, NEW i, Takes(t, i, k),
           NEW u, Changed(t, u, i, Live(k, v)), NEW m, Maps(t, m)
    PROVE  Sound(u) /\ Maps(u, With(m, NameOf(k), v))
<1> DEFINE s == Live(k, v)
           n == SizeOf(t)
           name == NameOf(k)
           w == With(m, name, v)
<1>1. s \in Slot /\ s.st = "live" /\ s.key = k /\ s.val = v
  BY SlotsAre
<1>2. IsTable(t) /\ IsTable(u) /\ SizeOf(u) = n
      /\ \A j \in 0 .. n - 1 : u[j] = IF j = i THEN s ELSE t[j]
  BY <1>1, TableChanged DEF Sound
<1>3. i \in 0 .. n - 1 /\ Reached(t, i, Hash(k))
  <2>1. CASE i \in Holding(t, name)
    <3>1. i \in At(t, "live") /\ NameOf(t[i].key) = name
      BY <2>1 DEF Holding
    <3>2. i \in 0 .. n - 1 /\ t[i].key \in Keys
      BY <1>2, <3>1, LiveIs
    <3>3. Hash(t[i].key) = Hash(k)
      BY <3>1, <3>2, KeysAlike
    <3>4. QED
      BY <3>1, <3>2, <3>3 DEF Sound, Reach
  <2>2. CASE i \notin Holding(t, name)
    BY <2>2 DEF Takes
  <2>3. QED
    BY <2>1, <2>2
<1>4. \A j : j \in At(u, "live") <=> j = i \/ j \in At(t, "live")
  <2>1. \A j : j \in At(u, "live") <=> j \in 0 .. n - 1 /\ u[j].st = "live"
    BY <1>2, LiveIs
  <2>2. \A j : j \in At(t, "live") <=> j \in 0 .. n - 1 /\ t[j].st = "live"
    BY <1>2, LiveIs
  <2>3. QED
    BY <1>1, <1>2, <1>3, <2>1, <2>2
<1>5. u[i] = s /\ \A j \in At(t, "live") : j # i => u[j] = t[j] /\ j \in 0 .. n - 1
  BY <1>2, <1>3, LiveIs
<1>6. ASSUME NEW j \in At(t, "live"), j # i PROVE NameOf(t[j].key) # name
  <2> SUFFICES ASSUME NameOf(t[j].key) = name PROVE FALSE
    OBVIOUS
  <2>1. j \in Holding(t, name)
    BY DEF Holding
  <2>2. i \in At(t, "live") /\ NameOf(t[i].key) = name
    BY <2>1 DEF Takes, Holding
  <2>3. QED
    BY <1>6, <2>2 DEF Sound, Apart
<1>7. Apart(u)
  <2> SUFFICES ASSUME NEW a \in At(u, "live"), NEW b \in At(u, "live"), a # b,
                      NameOf(u[a].key) = NameOf(u[b].key)
               PROVE  FALSE
    BY DEF Apart
  <2>1. CASE a = i
    <3>1. b \in At(t, "live") /\ b # i
      BY <1>4, <2>1
    <3>2. NameOf(t[b].key) = name
      BY <1>1, <1>5, <2>1, <3>1
    <3>3. QED
      BY <1>6, <3>1, <3>2
  <2>2. CASE b = i
    <3>1. a \in At(t, "live") /\ a # i
      BY <1>4, <2>2
    <3>2. NameOf(t[a].key) = name
      BY <1>1, <1>5, <2>2, <3>1
    <3>3. QED
      BY <1>6, <3>1, <3>2
  <2>3. CASE a # i /\ b # i
    <3>1. a \in At(t, "live") /\ b \in At(t, "live") /\ u[a] = t[a] /\ u[b] = t[b]
      BY <1>4, <1>5, <2>3
    <3>2. QED
      BY <3>1 DEF Sound, Apart
  <2>4. QED
    BY <2>1, <2>2, <2>3
<1>8. Reach(u)
  <2> SUFFICES ASSUME NEW j \in At(u, "live") PROVE Reached(u, j, Hash(u[j].key))
    BY DEF Reach
  <2>1. CASE j = i
    <3>1. Hash(k) \in Int /\ s.st # "empty" /\ u[j].key = k
      BY <1>1, <1>5, <2>1, HashIs
    <3>2. QED
      BY <1>1, <1>2, <1>3, <2>1, <3>1, ReachedKept
  <2>2. CASE j # i
    <3>1. j \in At(t, "live") /\ u[j] = t[j]
      BY <1>4, <1>5, <2>2
    <3>2. t[j].key \in Keys /\ Reached(t, j, Hash(t[j].key))
      BY <1>2, <3>1, LiveIs DEF Sound, Reach
    <3>3. Hash(t[j].key) \in Int /\ s.st # "empty"
      BY <1>1, <3>2, HashIs
    <3>4. QED
      BY <1>1, <1>2, <3>1, <3>2, <3>3, ReachedKept
  <2>3. QED
    BY <2>1, <2>2
<1>9. name \in Names
  BY DEF Names
<1>10. w \in [Names -> AllVals \cup {Absent}] /\ \A x \in Names : w[x] = IF x = name THEN v ELSE m[x]
  BY <1>9, WithIs DEF Maps
<1> HIDE DEF s, name, w
<1>11. ASSUME NEW j \in At(u, "live") PROVE w[NameOf(u[j].key)] = u[j].val
  <2>1. CASE j = i
    BY <1>1, <1>5, <1>9, <1>10, <2>1 DEF name
  <2>2. CASE j # i
    <3>1. j \in At(t, "live") /\ u[j] = t[j]
      BY <1>4, <1>5, <2>2
    <3>2. NameOf(t[j].key) # name /\ NameOf(t[j].key) \in Names
      BY <1>2, <1>6, <2>2, <3>1, LiveIs
    <3>3. m[NameOf(t[j].key)] = t[j].val
      BY <3>1 DEF Maps
    <3>4. QED
      BY <1>10, <3>1, <3>2, <3>3
  <2>3. QED
    BY <2>1, <2>2
<1>12. ASSUME NEW x \in Names, w[x] # Absent PROVE Holding(u, x) # {}
  <2>1. CASE x = name
    <3>1. i \in Holding(u, x)
      BY <1>1, <1>4, <1>5, <2>1 DEF Holding, name
    <3>2. QED
      BY <3>1
  <2>2. CASE x # name
    <3>1. m[x] # Absent
      BY <1>10, <1>12, <2>2
    <3>2. PICK j : j \in At(t, "live") /\ NameOf(t[j].key) = x
      BY <3>1 DEF Maps, Holding
    <3>3. j # i
      <4>1. i \in At(t, "live") => NameOf(t[i].key) = name
        BY <1>2, LiveIs DEF Takes, Holding, name
      <4>2. QED
        BY <2>2, <3>2, <4>1
    <3>4. j \in At(u, "live") /\ u[j] = t[j]
      BY <1>4, <1>5, <3>2, <3>3
    <3>5. j \in Holding(u, x)
      BY <3>2, <3>4 DEF Holding
    <3>6. QED
      BY <3>5
  <2>3. QED
    BY <2>1, <2>2
<1>13. QED
  BY <1>2, <1>7, <1>8, <1>10, <1>11, <1>12 DEF Sound, Maps, w, name

LEMMA SlotCleared ==
    ASSUME NEW t, Sound(t), NEW i \in At(t, "live"), NEW u, Changed(t, u, i, Tombstone),
           NEW m, Maps(t, m)
    PROVE  /\ Sound(u) /\ Maps(u, With(m, NameOf(t[i].key), Absent))
           /\ LiveSlots(u) = LiveSlots(t) - 1
<1> DEFINE n == SizeOf(t)
           name == NameOf(t[i].key)
           w == With(m, name, Absent)
<1>1. Tombstone \in Slot /\ Tombstone.st = "tomb"
  BY SlotsAre
<1>2. IsTable(t) /\ IsTable(u) /\ SizeOf(u) = n
      /\ \A j \in 0 .. n - 1 : u[j] = IF j = i THEN Tombstone ELSE t[j]
  BY <1>1, TableChanged DEF Sound
<1>3. i \in 0 .. n - 1 /\ name \in Names
  BY <1>2, LiveIs
<1>4. \A j : j \in At(u, "live") <=> j # i /\ j \in At(t, "live")
  <2>1. \A j : j \in At(u, "live") <=> j \in 0 .. n - 1 /\ u[j].st = "live"
    BY <1>2, LiveIs
  <2>2. \A j : j \in At(t, "live") <=> j \in 0 .. n - 1 /\ t[j].st = "live"
    BY <1>2, LiveIs
  <2>3. QED
    BY <1>1, <1>2, <1>3, <2>1, <2>2
<1>5. \A j \in At(u, "live") : u[j] = t[j]
  BY <1>2, <1>4, LiveIs
<1>6. Apart(u)
  BY <1>4, <1>5 DEF Sound, Apart
<1>7. Reach(u)
  <2> SUFFICES ASSUME NEW j \in At(u, "live") PROVE Reached(u, j, Hash(u[j].key))
    BY DEF Reach
  <2>1. j \in At(t, "live") /\ u[j] = t[j]
    BY <1>4, <1>5
  <2>2. t[j].key \in Keys /\ Reached(t, j, Hash(t[j].key))
    BY <1>2, <2>1, LiveIs DEF Sound, Reach
  <2>3. Hash(t[j].key) \in Int /\ Tombstone.st # "empty"
    BY <1>1, <2>2, HashIs
  <2>4. QED
    BY <1>1, <1>2, <2>1, <2>2, <2>3, ReachedKept
<1>8. w \in [Names -> AllVals \cup {Absent}]
      /\ \A x \in Names : w[x] = IF x = name THEN Absent ELSE m[x]
  BY <1>3, WithIs DEF Maps
<1> HIDE DEF n, name, w
<1>9. ASSUME NEW j \in At(t, "live"), j # i PROVE NameOf(t[j].key) # name
  BY <1>9 DEF Sound, Apart, name
<1>10. ASSUME NEW j \in At(u, "live") PROVE w[NameOf(u[j].key)] = u[j].val
  <2>1. j \in At(t, "live") /\ j # i /\ u[j] = t[j]
    BY <1>4, <1>5
  <2>2. NameOf(t[j].key) # name /\ NameOf(t[j].key) \in Names
    BY <1>2, <1>9, <2>1, LiveIs
  <2>3. m[NameOf(t[j].key)] = t[j].val
    BY <2>1 DEF Maps
  <2>4. QED
    BY <1>8, <2>1, <2>2, <2>3
<1>11. ASSUME NEW x \in Names, w[x] # Absent PROVE Holding(u, x) # {}
  <2>1. x # name /\ m[x] # Absent
    BY <1>8, <1>11
  <2>2. PICK j : j \in At(t, "live") /\ NameOf(t[j].key) = x
    BY <2>1 DEF Maps, Holding
  <2>3. j \in At(u, "live") /\ u[j] = t[j]
    BY <1>4, <1>5, <2>1, <2>2 DEF name
  <2>4. j \in Holding(u, x)
    BY <2>2, <2>3 DEF Holding
  <2>5. QED
    BY <2>4
<1>12. LiveSlots(u) = LiveSlots(t) - 1
  <2>1. At(u, "live") = At(t, "live") \ {i}
    BY <1>4
  <2>2. IsFiniteSet(At(t, "live"))
    BY <1>2, LiveFinite
  <2>3. QED
    BY <2>1, <2>2, FS_RemoveElement DEF LiveSlots
<1>13. QED
  BY <1>2, <1>6, <1>7, <1>8, <1>10, <1>11, <1>12 DEF Sound, Maps, name, w

LEMMA EmptySound ==
    ASSUME NEW n \in Nat, n >= 1
    PROVE  /\ Sound(EmptyTable(n)) /\ LiveSlots(EmptyTable(n)) = 0
           /\ Maps(EmptyTable(n), [name \in Names |-> Absent])
<1>1. IsTable(EmptyTable(n))
  BY EmptyTableIs
<1>2. At(EmptyTable(n), "live") = {}
  BY EmptyTableIs DEF At, EmptyTable, Empty
<1>3. LiveSlots(EmptyTable(n)) = 0
  BY <1>2, FS_EmptySet DEF LiveSlots
<1>4. Sound(EmptyTable(n))
  BY <1>1, <1>2 DEF Sound, Apart, Reach
<1>5. Maps(EmptyTable(n), [name \in Names |-> Absent])
  BY <1>2 DEF Maps
<1>6. QED
  BY <1>3, <1>4, <1>5

\* A new key put where its probe finds room.
LEMMA FreeTaken ==
    ASSUME NEW t, Sound(t), LiveSlots(t) < SizeOf(t), NEW k \in Keys, NEW v \in AllVals,
           NEW m, Maps(t, m), m[NameOf(k)] = Absent,
           NEW u, Changed(t, u, Free(t, Hash(k), LastStep(t, Hash(k), {})), Live(k, v))
    PROVE  Sound(u) /\ Maps(u, With(m, NameOf(k), v)) /\ LiveSlots(u) <= LiveSlots(t) + 1
<1> DEFINE h == Hash(k)
           j == Free(t, h, LastStep(t, h, {}))
<1>1. IsTable(t) /\ h \in Int /\ NameOf(k) \in Names
  BY HashIs DEF Sound, Names
<1>2. Holding(t, NameOf(k)) = {}
  BY <1>1, HoldingIs
<1>3. j \in 0 .. SizeOf(t) - 1 /\ t[j].st # "live" /\ Reached(t, j, h)
  <2> HIDE DEF h
  <2>1. QED
    BY <1>1, FreeIs
<1>4. Changed(t, u, j, Live(k, v)) /\ Live(k, v) \in Slot
  BY SlotsAre
<1> HIDE DEF j
<1>5. Takes(t, j, k)
  BY <1>2, <1>3 DEF Takes
<1>6. Sound(u) /\ Maps(u, With(m, NameOf(k), v))
  BY <1>4, <1>5, SlotTaken
<1>7. LiveSlots(u) <= LiveSlots(t) + 1
  BY <1>1, <1>4, LiveCount
<1>8. QED
  BY <1>6, <1>7

\* What the slots below i say of m.
Below(t, i, m) ==
    [name \in Names |-> IF \E j \in LiveBelow(t, i) : NameOf(t[j].key) = name
                        THEN m[name] ELSE Absent]

LEMMA LiveBelowFew ==
    ASSUME NEW t, IsTable(t), NEW i \in 0 .. SizeOf(t)
    PROVE  Cardinality(LiveBelow(t, i)) <= LiveSlots(t)
<1>1. SizeOf(t) \in Nat
  BY DEF IsTable
<1>2. LiveBelow(t, i) \subseteq At(t, "live") /\ At(t, "live") \subseteq 0 .. SizeOf(t) - 1
  BY <1>1, LiveIs DEF LiveBelow
<1>3. IsFiniteSet(At(t, "live"))
  BY LiveFinite
<1>4. QED
  BY <1>2, <1>3, FS_Subset DEF LiveSlots

LEMMA RehashSound ==
    ASSUME NEW t, Sound(t), NEW m, Maps(t, m), NEW n \in Nat, LiveSlots(t) < n
    PROVE  LET u == Rehash(t, n) IN
           Sound(u) /\ Maps(u, m) /\ SizeOf(u) = n /\ LiveSlots(u) <= LiveSlots(t)
<1> DEFINE f == Rehashed(t, n)
           z == SizeOf(t)
           c(i) == Cardinality(LiveBelow(t, i))
           Done(i) == Sound(f[i]) /\ Maps(f[i], Below(t, i, m)) /\ LiveSlots(f[i]) <= c(i)
           S == {i \in 0 .. z : Done(i)}
<1>1. z \in Nat /\ IsTable(t) /\ LiveSlots(t) \in Nat /\ n >= 1
  BY LiveIsNat DEF Sound, IsTable
<1>2. /\ f[0] = EmptyTable(n)
      /\ \A i \in 1 .. z : f[i] = IF t[i - 1].st # "live" THEN f[i - 1] ELSE Put(f[i - 1], t[i - 1])
      /\ \A i \in 0 .. z : IsTable(f[i]) /\ SizeOf(f[i]) = n
  BY <1>1, RehashedIs
<1>3. \A i : i \in At(t, "live") <=> i \in 0 .. z - 1 /\ t[i].st = "live"
  BY <1>1, LiveIs
<1> HIDE DEF f, z
<1>4. 0 \in S
  <2>1. LiveBelow(t, 0) = {} /\ c(0) = 0 /\ 0 \in 0 .. z
    BY <1>1, FS_EmptySet DEF LiveBelow
  <2>2. Below(t, 0, m) = [name \in Names |-> Absent]
    BY <2>1 DEF Below
  <2>3. Done(0)
    BY <1>1, <1>2, <2>1, <2>2, EmptySound
  <2>4. QED
    BY <2>1, <2>3
<1>5. ASSUME NEW i \in 0 .. z - 1, i \in S PROVE i + 1 \in S
  <2>1. i + 1 \in 1 .. z /\ i + 1 \in 0 .. z /\ (i + 1) - 1 = i /\ i \in Nat /\ i \in 0 .. z
    BY <1>1
  <2>2. Done(i)
    BY <1>5
  <2>3. /\ f[i + 1] = IF t[i].st # "live" THEN f[i] ELSE Put(f[i], t[i])
        /\ IsTable(f[i]) /\ SizeOf(f[i]) = n /\ SizeOf(f[i + 1]) = n
    BY <1>2, <2>1
  <2>4. c(i) \in Nat /\ c(i + 1) = c(i) + IF t[i].st = "live" THEN 1 ELSE 0
    BY <2>1, LiveBelowIs
  <2>5. LiveBelow(t, i + 1) = IF t[i].st = "live" THEN LiveBelow(t, i) \cup {i} ELSE LiveBelow(t, i)
    <3>1. 0 .. (i + 1) - 1 = (0 .. i - 1) \cup {i}
      BY <2>1
    <3>2. QED
      BY <3>1 DEF LiveBelow
  <2> HIDE DEF c
  <2>6. CASE t[i].st # "live"
    <3>1. f[i + 1] = f[i] /\ c(i + 1) = c(i) /\ Below(t, i + 1, m) = Below(t, i, m)
      BY <2>3, <2>4, <2>5, <2>6 DEF Below
    <3>2. Done(i + 1)
      BY <2>2, <3>1
    <3>3. QED
      BY <2>1, <3>2
  <2>7. CASE t[i].st = "live"
    <3> DEFINE k == t[i].key
               v == t[i].val
               b == Below(t, i, m)
    <3>1. i \in At(t, "live") /\ t[i] \in Slot
      BY <1>1, <1>3, <2>7 DEF IsTable, z
    <3>2. k \in Keys /\ v \in AllVals /\ NameOf(k) \in Names /\ t[i] = Live(k, v)
      BY <1>1, <2>7, <3>1, LiveIs, SlotIs
    <3>3. b[NameOf(k)] = Absent
      <4>1. ASSUME NEW j \in LiveBelow(t, i), NameOf(t[j].key) = NameOf(k) PROVE FALSE
        <5>1. j \in At(t, "live") /\ j # i
          BY <1>1, <1>3, <2>1 DEF LiveBelow
        <5>2. QED
          BY <3>1, <4>1, <5>1 DEF Sound, Apart
      <4>2. QED
        BY <3>2, <4>1 DEF Below
    <3>4. Changed(f[i], f[i + 1], Free(f[i], Hash(k), LastStep(f[i], Hash(k), {})), Live(k, v))
      <4>1. FwHash(k) = Hash(k)
        BY <3>2, HashIs
      <4>2. f[i + 1] = Put(f[i], t[i])
        BY <2>3, <2>7
      <4>3. QED
        BY <3>2, <4>1, <4>2 DEF Put, Changed
    <3>5. LiveSlots(f[i]) < SizeOf(f[i])
      <4>1. c(i) <= LiveSlots(t)
        BY <1>1, <2>1, LiveBelowFew DEF c, z
      <4>2. LiveSlots(f[i]) \in Nat
        BY <2>3, LiveIsNat
      <4>3. QED
        BY <1>1, <2>2, <2>3, <2>4, <4>1, <4>2
    <3>6. Sound(f[i + 1]) /\ Maps(f[i + 1], With(b, NameOf(k), v))
          /\ LiveSlots(f[i + 1]) <= LiveSlots(f[i]) + 1
      <4> HIDE DEF k, v, b
      <4>1. Sound(f[i]) /\ Maps(f[i], b)
        BY <2>2 DEF b
      <4>2. QED
        BY <3>2, <3>3, <3>4, <3>5, <4>1, FreeTaken
    <3>7. With(b, NameOf(k), v) = Below(t, i + 1, m)
      <4>1. m[NameOf(k)] = v
        BY <3>1 DEF Maps
      <4>2. \A name \in Names : (\E j \in LiveBelow(t, i + 1) : NameOf(t[j].key) = name)
               <=> (name = NameOf(k) \/ \E j \in LiveBelow(t, i) : NameOf(t[j].key) = name)
        BY <2>5, <2>7
      <4>3. QED
        BY <3>2, <4>1, <4>2 DEF With, Below
    <3>8. LiveSlots(f[i + 1]) <= c(i + 1)
      <4>1. LiveSlots(f[i]) \in Nat /\ LiveSlots(f[i + 1]) \in Nat
        BY <1>2, <2>1, LiveIsNat
      <4>2. c(i + 1) = c(i) + 1 /\ LiveSlots(f[i]) <= c(i)
        BY <2>2, <2>4, <2>7
      <4>3. QED
        BY <2>4, <3>6, <4>1, <4>2
    <3>9. Done(i + 1)
      BY <3>6, <3>7, <3>8
    <3>10. QED
      BY <2>1, <3>9
  <2>8. QED
    BY <2>6, <2>7
<1>6. z \in S /\ z \in 0 .. z
  <2>1. 0 .. z \subseteq S
    BY <1>1, <1>4, <1>5, CountUp
  <2>2. QED
    BY <1>1, <2>1
<1>7. Done(z) /\ SizeOf(f[z]) = n
  BY <1>2, <1>6
<1>8. LiveBelow(t, z) = At(t, "live")
  BY <1>3 DEF LiveBelow
<1>9. Below(t, z, m) = m
  <2>1. ASSUME NEW name \in Names
        PROVE  m[name] # Absent => \E j \in LiveBelow(t, z) : NameOf(t[j].key) = name
    BY <1>8 DEF Maps, Holding
  <2>2. m \in [Names -> AllVals \cup {Absent}]
    BY DEF Maps
  <2>3. Below(t, z, m) = [name \in Names |-> m[name]]
    BY <2>1 DEF Below
  <2>4. QED
    BY <2>2, <2>3
<1>10. Rehash(t, n) = f[z]
  BY DEF Rehash, f, z
<1>11. QED
  BY <1>7, <1>8, <1>9, <1>10 DEF LiveSlots
-----------------------------------------------------------------------------
(* Look-ups *)

LEMMA LookupIs ==
    ASSUME NEW t, Sound(t), NEW k \in Keys
    PROVE  LET E == Holding(t, NameOf(k))
               found == Found(t, Hash(k), LastStep(t, Hash(k), E))
           IN (\A i \in E : found = i /\ E = {i}) /\ (E = {} => found = -1)
<1> DEFINE E == Holding(t, NameOf(k))
           h == Hash(k)
<1>1. IsTable(t) /\ h \in Int
  BY HashIs DEF Sound
<1>2. ASSUME NEW i \in E PROVE Found(t, h, LastStep(t, h, E)) = i /\ E = {i}
  <2>1. i \in At(t, "live") /\ NameOf(t[i].key) = NameOf(k)
    BY DEF Holding
  <2>2. E = {i}
    BY <2>1 DEF Sound, Apart, Holding
  <2>3. t[i].key \in Keys
    BY <1>1, <2>1, LiveIs
  <2>4. Hash(t[i].key) = h
    BY <2>1, <2>3, KeysAlike
  <2>5. Reached(t, i, h)
    BY <2>1, <2>4 DEF Sound, Reach
  <2> HIDE DEF h, E
  <2>6. Found(t, h, LastStep(t, h, {i})) = i
    BY <1>1, <2>1, <2>5, FoundOne
  <2>7. QED
    BY <2>2, <2>6
<1>3. ASSUME E = {} PROVE Found(t, h, LastStep(t, h, E)) = -1
  <2> HIDE DEF h, E
  <2>1. Found(t, h, LastStep(t, h, {})) = -1
    BY <1>1, FoundNone
  <2>2. QED
    BY <1>3, <2>1
<1>4. QED
  BY <1>2, <1>3

LEMMA HartEqual ==
    ASSUME NEW t, IsTable(t), NEW k \in Keys
    PROVE  HartLast(t, k) = LastStep(t, Hash(k), Holding(t, NameOf(k)))
<1>1. \A i \in At(t, "live") : SameKey(k, t[i].key) <=> NameOf(t[i].key) = NameOf(k)
  BY LiveIs, KeysAlike
<1>2. {i \in At(t, "live") : SameKey(k, t[i].key)} = Holding(t, NameOf(k))
  BY <1>1 DEF Holding
<1>3. QED
  BY <1>2 DEF HartLast

LEMMA FwEqual ==
    ASSUME NEW t, IsTable(t), NEW k \in Keys, Sought(k) \/ Holding(t, NameOf(k)) = {}
    PROVE  FwLast(t, k) = LastStep(t, Hash(k), Holding(t, NameOf(k)))
<1> DEFINE E == {i \in At(t, "live") : FwSameKey(k, t[i].key)}
<1>1. \A i \in At(t, "live") : /\ SameKey(k, t[i].key) <=> NameOf(t[i].key) = NameOf(k)
                               /\ FwSameKey(k, t[i].key) => SameKey(k, t[i].key)
                               /\ Sought(k) => (FwSameKey(k, t[i].key) <=> SameKey(k, t[i].key))
  BY LiveIs, KeysAlike, FwAlike
<1>2. E \subseteq Holding(t, NameOf(k)) /\ (Sought(k) => E = Holding(t, NameOf(k)))
  BY <1>1 DEF Holding
<1>3. E = Holding(t, NameOf(k))
  BY <1>2
<1>4. FwHash(k) = Hash(k)
  BY HashIs
<1>5. QED
  BY <1>3, <1>4 DEF FwLast

\* A look-up answers the mapping, whichever form of the key it has.
LEMMA AnswerIs ==
    ASSUME NEW d, Sound(d.table), NEW m, Maps(d.table, m), NEW k \in Keys
    PROVE  Answer(d, k) = m[NameOf(k)]
<1> DEFINE t == d.table
           E == Holding(t, NameOf(k))
<1>1. IsTable(t) /\ NameOf(k) \in Names
  BY DEF Sound, Names
<1>2. Lookup(t, k) = Found(t, Hash(k), LastStep(t, Hash(k), E))
  BY <1>1, HartEqual DEF Lookup
<1>3. CASE E = {}
  <2>1. Lookup(t, k) = -1
    BY <1>2, <1>3, LookupIs
  <2>2. Answer(d, k) = Absent
    BY <2>1 DEF Answer
  <2>3. QED
    BY <1>1, <1>3, <2>2, HoldingIs
<1>4. CASE E # {}
  <2>1. PICK i \in E : TRUE
    BY <1>4
  <2>2. Lookup(t, k) = i
    BY <1>2, LookupIs
  <2>3. i \in At(t, "live") /\ NameOf(t[i].key) = NameOf(k)
    BY DEF Holding
  <2>4. i >= 0
    <3>1. i \in 0 .. SizeOf(t) - 1 /\ SizeOf(t) \in Nat
      BY <1>1, <2>3, LiveIs DEF IsTable
    <3>2. QED
      BY <3>1
  <2>5. Answer(d, k) = t[i].val
    BY <2>2, <2>4 DEF Answer
  <2>6. QED
    BY <2>3, <2>5 DEF Maps
<1>5. QED
  BY <1>3, <1>4

LEMMA AnswersAre ==
    ASSUME NEW d, Sound(d.table), NEW m, Maps(d.table, m)
    PROVE  Single(AnswersTo(d)) = m
<1> DEFINE a == AnswersTo(d)
<1>1. ASSUME NEW name \in Names PROVE a[name] = {m[name]}
  <2>1. \A k \in FormsOf[name] : k \in Keys /\ NameOf(k) = name
    BY DEF FormsOf
  <2>2. \E k \in Keys : NameOf(k) = name
    BY DEF Names
  <2>3. \E k \in FormsOf[name] : TRUE
    BY <2>2 DEF FormsOf
  <2>4. \A k \in FormsOf[name] : Answer(d, k) = m[name]
    BY <2>1, AnswerIs
  <2>5. a[name] = {Answer(d, k) : k \in FormsOf[name]}
    BY DEF AnswersTo
  <2>6. QED
    BY <2>3, <2>4, <2>5
<1> HIDE DEF a
<1>2. ASSUME NEW name \in Names
      PROVE  (IF Cardinality(a[name]) = 1 THEN CHOOSE x \in a[name] : TRUE ELSE a[name]) = m[name]
  <2>1. Cardinality(a[name]) = 1
    BY <1>1, FS_Singleton
  <2>2. QED
    BY <1>1, <2>1
<1>3. Single(a) = [name \in Names |-> m[name]]
  BY <1>2 DEF Single
<1>4. m = [name \in Names |-> m[name]]
  BY DEF Maps
<1>5. QED
  BY <1>3, <1>4 DEF a
-----------------------------------------------------------------------------
(* Dicts and their order *)

\* The order has each key of the mapping once.
Ordered(o, m) ==
    /\ \A a, b \in DOMAIN o : NameOf(o[a]) = NameOf(o[b]) => a = b
    /\ \A name \in Names : m[name] # Absent <=> \E a \in DOMAIN o : NameOf(o[a]) = name

IsMap(d, m) ==
    /\ IsDict(d) /\ Sound(d.table) /\ Maps(d.table, m) /\ Ordered(d.order, m)
    /\ LiveSlots(d.table) <= d.used /\ d.used = Len(d.order)

\* e is d after d[k] = v.
Stored(d, e, k, v, m) ==
    /\ IsMap(e, With(m, NameOf(k), v)) /\ SizeOf(e.table) = SizeOf(d.table)
    /\ m[NameOf(k)] # Absent => /\ e.order = d.order /\ e.used = d.used
                                /\ e.version = d.version
    /\ m[NameOf(k)] = Absent => /\ e.order = Append(d.order, k) /\ e.used = d.used + 1
                                /\ e.version = d.version + 1

LEMMA AppendIs ==
    ASSUME NEW X, NEW o \in Seq(X), NEW x \in X
    PROVE  /\ Append(o, x) \in Seq(X) /\ Len(Append(o, x)) = Len(o) + 1 /\ Len(o) \in Nat
           /\ DOMAIN Append(o, x) = (DOMAIN o) \cup {Len(o) + 1}
           /\ Len(o) + 1 \notin DOMAIN o
           /\ \A i \in DOMAIN o : Append(o, x)[i] = o[i]
           /\ Append(o, x)[Len(o) + 1] = x
OBVIOUS

LEMMA OrderAppended ==
    ASSUME NEW o \in Seq(Keys), NEW k \in Keys, NEW v \in AllVals,
           NEW m \in [Names -> AllVals \cup {Absent}], Ordered(o, m), m[NameOf(k)] = Absent
    PROVE  Ordered(Append(o, k), With(m, NameOf(k), v))
<1> DEFINE p == Append(o, k)
           l == Len(o) + 1
           name == NameOf(k)
           w == With(m, name, v)
<1>1. /\ DOMAIN p = (DOMAIN o) \cup {l} /\ l \notin DOMAIN o /\ p[l] = k
      /\ \A i \in DOMAIN o : p[i] = o[i]
  BY AppendIs
<1>2. name \in Names /\ v # Absent /\ v \in AllVals \cup {Absent}
  BY PromiseAssumption DEF Names
<1>3. \A x \in Names : w[x] = IF x = name THEN v ELSE m[x]
  BY <1>2, WithIs
<1>4. \A i \in DOMAIN o : NameOf(o[i]) # name
  BY <1>2 DEF Ordered
<1> HIDE DEF p, l, w
<1>5. \A i \in DOMAIN p : NameOf(p[i]) = name <=> i = l
  BY <1>1, <1>4 DEF name
<1>6. ASSUME NEW a \in DOMAIN p, NEW b \in DOMAIN p, NameOf(p[a]) = NameOf(p[b]) PROVE a = b
  <2>1. CASE a = l
    BY <1>1, <1>5, <1>6, <2>1
  <2>2. CASE b = l
    BY <1>1, <1>5, <1>6, <2>2
  <2>3. CASE a # l /\ b # l
    <3>1. a \in DOMAIN o /\ b \in DOMAIN o /\ p[a] = o[a] /\ p[b] = o[b]
      BY <1>1, <2>3
    <3>2. QED
      BY <1>6, <3>1 DEF Ordered
  <2>4. QED
    BY <2>1, <2>2, <2>3
<1>7. ASSUME NEW x \in Names PROVE w[x] # Absent <=> \E a \in DOMAIN p : NameOf(p[a]) = x
  <2>1. CASE x = name
    BY <1>1, <1>2, <1>3, <2>1 DEF name
  <2>2. CASE x # name
    <3>1. w[x] = m[x]
      BY <1>3, <2>2
    <3>2. (\E a \in DOMAIN p : NameOf(p[a]) = x) <=> (\E a \in DOMAIN o : NameOf(o[a]) = x)
      BY <1>1, <2>2 DEF name
    <3>3. QED
      BY <3>1, <3>2 DEF Ordered
  <2>3. QED
    BY <2>1, <2>2
<1>8. QED
  BY <1>6, <1>7 DEF Ordered, p, w, name

LEMMA OrderKept ==
    ASSUME NEW o, NEW k \in Keys, NEW v \in AllVals,
           NEW m \in [Names -> AllVals \cup {Absent}], Ordered(o, m), m[NameOf(k)] # Absent
    PROVE  Ordered(o, With(m, NameOf(k), v))
<1> DEFINE name == NameOf(k)
           w == With(m, name, v)
<1>1. name \in Names /\ v # Absent /\ v \in AllVals \cup {Absent}
  BY PromiseAssumption DEF Names
<1>2. \A x \in Names : w[x] = IF x = name THEN v ELSE m[x]
  BY <1>1, WithIs
<1> HIDE DEF w
<1>3. \A x \in Names : w[x] # Absent <=> m[x] # Absent
  BY <1>1, <1>2
<1>4. QED
  BY <1>3 DEF Ordered, w

LEMMA InsertedStored ==
    ASSUME NEW d, NEW m, IsMap(d, m), d.used < SizeOf(d.table), NEW k \in Keys,
           NEW v \in AllVals, m[NameOf(k)] = Absent
    PROVE  LET i == Free(d.table, Hash(k), LastStep(d.table, Hash(k), {}))
           IN Stored(d, Inserted(d, i, k, v), k, v, m)
<1> DEFINE i == Free(d.table, Hash(k), LastStep(d.table, Hash(k), {}))
           e == Inserted(d, i, k, v)
           w == With(m, NameOf(k), v)
<1>1. /\ IsDict(d) /\ Sound(d.table) /\ Maps(d.table, m) /\ Ordered(d.order, m)
      /\ LiveSlots(d.table) <= d.used /\ d.used = Len(d.order)
  BY DEF IsMap
<1>2. /\ IsDict(e) /\ SizeOf(e.table) = SizeOf(d.table)
      /\ Changed(d.table, e.table, i, Live(k, v))
      /\ e.order = Append(d.order, k) /\ Len(e.order) = Len(d.order) + 1
      /\ e.used = d.used + 1 /\ e.version = d.version + 1
  BY <1>1, InsertedIs
<1>3. LiveSlots(d.table) \in Nat /\ LiveSlots(e.table) \in Nat
  BY <1>1, <1>2, LiveIsNat DEF IsDict
<1>4. d.used \in Nat /\ SizeOf(d.table) \in Nat /\ d.order \in Seq(Keys)
  BY <1>1 DEF IsDict, IsTable
<1>5. LiveSlots(d.table) < SizeOf(d.table)
  BY <1>1, <1>3, <1>4
<1> HIDE DEF e
<1>6. Sound(e.table) /\ Maps(e.table, w) /\ LiveSlots(e.table) <= LiveSlots(d.table) + 1
  BY <1>1, <1>2, <1>5, FreeTaken
<1>7. m \in [Names -> AllVals \cup {Absent}]
  BY <1>1 DEF Maps
<1>8. Ordered(e.order, w)
  BY <1>1, <1>2, <1>4, <1>7, OrderAppended
<1>9. LiveSlots(e.table) <= e.used /\ e.used = Len(e.order)
  BY <1>1, <1>2, <1>3, <1>4, <1>6
<1> HIDE DEF w, i
<1>10. QED
  BY <1>2, <1>6, <1>8, <1>9 DEF Stored, IsMap, e, w, i

LEMMA OverwrittenStored ==
    ASSUME NEW d, NEW m, IsMap(d, m), NEW k \in Keys, NEW v \in AllVals,
           NEW i \in Holding(d.table, NameOf(k)), NEW j \in Keys, NameOf(j) = NameOf(k),
           NEW t, Changed(d.table, t, i, Live(j, v))
    PROVE  Stored(d, [d EXCEPT !.table = t], k, v, m)
<1> DEFINE e == [d EXCEPT !.table = t]
           w == With(m, NameOf(k), v)
<1>1. /\ IsDict(d) /\ Sound(d.table) /\ Maps(d.table, m) /\ Ordered(d.order, m)
      /\ LiveSlots(d.table) <= d.used /\ d.used = Len(d.order) /\ IsTable(d.table)
  BY DEF IsMap, Sound
<1>2. i \in At(d.table, "live") /\ NameOf(d.table[i].key) = NameOf(k)
  BY DEF Holding
<1>3. NameOf(k) \in Names /\ Live(j, v) \in Slot
  BY SlotsAre DEF Names
<1>4. m[NameOf(k)] # Absent
  BY <1>1, <1>3, HoldingIs
<1>5. IsTable(t) /\ SizeOf(t) = SizeOf(d.table)
  <2>1. IsTable(d.table) /\ Live(j, v) \in Slot /\ Changed(d.table, t, i, Live(j, v))
    BY <1>1, <1>3
  <2>2. QED
    BY ONLY <2>1, TableChanged
<1>6. LiveSlots(t) <= LiveSlots(d.table) /\ LiveSlots(t) \in Nat /\ LiveSlots(d.table) \in Nat
  <2>1. d.table[i].st = "live"
    BY <1>1, <1>2, LiveIs
  <2>2. QED
    BY <1>1, <1>3, <2>1, LiveCount
<1>7. Sound(t) /\ Maps(t, w)
  <2>1. Takes(d.table, i, j)
    BY DEF Takes
  <2>2. QED
    BY <1>1, <2>1, SlotTaken
<1>8. /\ IsDict(e) /\ e.table = t /\ e.order = d.order /\ e.used = d.used
      /\ e.version = d.version
  BY <1>1, <1>5, Retabled
<1>9. Ordered(e.order, w)
  <2>1. m \in [Names -> AllVals \cup {Absent}]
    BY <1>1 DEF Maps
  <2>2. QED
    BY <1>1, <1>4, <1>8, <2>1, OrderKept
<1>10. LiveSlots(e.table) <= e.used /\ e.used = Len(e.order)
  BY <1>1, <1>6, <1>8 DEF IsDict
<1> HIDE DEF e, w
<1>11. QED
  BY <1>4, <1>5, <1>7, <1>8, <1>9, <1>10 DEF Stored, IsMap, e, w

LEMMA HartInsertStored ==
    ASSUME NEW d, NEW m, IsMap(d, m), d.used < SizeOf(d.table), NEW k \in Keys, NEW v \in AllVals
    PROVE  /\ Stored(d, HartInsert(d, <<k, v>>), k, v, m)
           /\ Lookup(d.table, k) >= 0 <=> m[NameOf(k)] # Absent
<1> DEFINE t == d.table
           at == Lookup(t, k)
           E == Holding(t, NameOf(k))
           u == [t EXCEPT ![at] = Live(k, v)]
<1>1. IsDict(d) /\ Sound(t) /\ IsTable(t) /\ Maps(t, m) /\ NameOf(k) \in Names
  BY DEF IsMap, Sound, Names
<1>2. HartLast(t, k) = LastStep(t, Hash(k), E)
  BY <1>1, HartEqual
<1>3. E # {} <=> m[NameOf(k)] # Absent
  BY <1>1, HoldingIs
<1>4. CASE E = {}
  <2>1. at = -1
    BY <1>1, <1>2, <1>4, LookupIs DEF Lookup
  <2>2. HartInsert(d, <<k, v>>) = Inserted(d, Place(t, k), k, v)
    BY <2>1 DEF HartInsert
  <2>3. Place(t, k) = Free(t, Hash(k), LastStep(t, Hash(k), {}))
    BY <1>2, <1>4 DEF Place
  <2>4. Stored(d, HartInsert(d, <<k, v>>), k, v, m)
    BY <1>3, <1>4, <2>2, <2>3, InsertedStored
  <2>5. QED
    BY <1>3, <1>4, <2>1, <2>4
<1>5. CASE E # {}
  <2>1. at \in E
    BY <1>1, <1>2, <1>5, LookupIs DEF Lookup
  <2>2. at >= 0
    <3>1. at \in 0 .. SizeOf(t) - 1 /\ SizeOf(t) \in Nat
      BY <1>1, <2>1, LiveIs DEF IsTable, Holding
    <3>2. QED
      BY <3>1
  <2>3. HartInsert(d, <<k, v>>) = [d EXCEPT !.table = u]
    <3>1. HartInsert(d, <<k, v>>) = [d EXCEPT !.table[at] = Live(k, v)]
      BY <2>2 DEF HartInsert
    <3> HIDE DEF at
    <3>2. QED
      BY <1>1, <3>1 DEF IsDict
  <2>4. Changed(t, u, at, Live(k, v))
    BY DEF Changed
  <2> HIDE DEF u, at
  <2>5. Stored(d, [d EXCEPT !.table = u], k, v, m)
    BY <2>1, <2>4, OverwrittenStored
  <2>6. QED
    BY <1>3, <1>5, <2>2, <2>3, <2>5 DEF at
<1>6. QED
  BY <1>4, <1>5

LEMMA FwInsertStored ==
    ASSUME NEW d, NEW m, IsMap(d, m), d.used < SizeOf(d.table), NEW k \in Keys, NEW v \in AllVals,
           Sought(k) \/ m[NameOf(k)] = Absent
    PROVE  Stored(d, FwInsert(d, k, v), k, v, m)
<1> DEFINE t == d.table
           last == FwLast(t, k)
           at == Found(t, FwHash(k), last)
           E == Holding(t, NameOf(k))
           u == [t EXCEPT ![at].val = v]
<1>1. IsDict(d) /\ Sound(t) /\ IsTable(t) /\ Maps(t, m) /\ NameOf(k) \in Names
  BY DEF IsMap, Sound, Names
<1>2. E # {} <=> m[NameOf(k)] # Absent
  BY <1>1, HoldingIs
<1>3. last = LastStep(t, Hash(k), E) /\ FwHash(k) = Hash(k)
  BY <1>1, <1>2, FwEqual, HashIs
<1>4. CASE E = {}
  <2>1. at = -1
    BY <1>1, <1>3, <1>4, LookupIs
  <2>2. FwInsert(d, k, v) = Inserted(d, Free(t, FwHash(k), last), k, v)
    BY <2>1 DEF FwInsert
  <2>3. Free(t, FwHash(k), last) = Free(t, Hash(k), LastStep(t, Hash(k), {}))
    BY <1>3, <1>4
  <2>4. QED
    BY <1>2, <1>4, <2>2, <2>3, InsertedStored
<1>5. CASE E # {}
  <2>1. at \in E
    BY <1>1, <1>3, <1>5, LookupIs
  <2>2. at \in At(t, "live") /\ NameOf(t[at].key) = NameOf(k)
    BY <2>1 DEF Holding
  <2>3. at \in 0 .. SizeOf(t) - 1 /\ SizeOf(t) \in Nat /\ t[at].st = "live" /\ t[at].key \in Keys
    BY <1>1, <2>2, LiveIs DEF IsTable
  <2>4. at >= 0
    BY <2>3
  <2>5. FwInsert(d, k, v) = [d EXCEPT !.table[at].val = v]
    BY <2>4 DEF FwInsert
  <2> HIDE DEF at, E
  <2>6. FwInsert(d, k, v) = [d EXCEPT !.table = u]
    BY <1>1, <2>5 DEF IsDict
  <2>7. Changed(t, u, at, Live(t[at].key, v))
    <3>1. PICK s \in Slot : Changed(t, u, at, s) /\ (at \in 0 .. SizeOf(t) - 1 => s = Live(t[at].key, v))
      BY <1>1, <2>3, EntryChanged
    <3>2. QED
      BY <2>3, <3>1
  <2> HIDE DEF u
  <2>8. Stored(d, [d EXCEPT !.table = u], k, v, m)
    BY <2>1, <2>2, <2>3, <2>7, OverwrittenStored DEF E
  <2>9. QED
    BY <2>6, <2>8
<1>6. QED
  BY <1>4, <1>5

\* Another table with the same content.
LEMMA RetabledMap ==
    ASSUME NEW d, NEW m, IsMap(d, m), NEW t, Sound(t), Maps(t, m), LiveSlots(t) <= LiveSlots(d.table)
    PROVE  LET e == [d EXCEPT !.table = t] IN
           /\ IsMap(e, m) /\ e.table = t /\ e.order = d.order /\ e.used = d.used
           /\ e.version = d.version
<1> DEFINE e == [d EXCEPT !.table = t]
<1>1. /\ IsDict(d) /\ Ordered(d.order, m) /\ LiveSlots(d.table) <= d.used
      /\ d.used = Len(d.order)
  BY DEF IsMap
<1>2. IsDict(e) /\ e.table = t /\ e.order = d.order /\ e.used = d.used /\ e.version = d.version
  BY <1>1, Retabled DEF Sound
<1>3. LiveSlots(t) \in Nat /\ LiveSlots(d.table) \in Nat /\ d.used \in Nat
  BY <1>1, LiveIsNat DEF Sound, IsDict
<1> HIDE DEF e
<1>4. LiveSlots(e.table) <= e.used
  BY <1>1, <1>2, <1>3
<1>5. QED
  BY <1>1, <1>2, <1>4 DEF IsMap, e
-----------------------------------------------------------------------------
(* Building and merging *)

\* Every key is one the firmware finds.
Searchable(t) == \A i \in At(t, "live") : Sought(t[i].key)

LEMMA SearchableKept ==
    ASSUME NEW t, IsTable(t), Searchable(t), NEW i, NEW k \in Keys, NEW v \in AllVals, Sought(k),
           NEW u, Changed(t, u, i, Live(k, v))
    PROVE  Searchable(u)
<1>1. IsTable(t) /\ Live(k, v) \in Slot /\ Changed(t, u, i, Live(k, v)) /\ Live(k, v).key = k
  BY SlotsAre
<1>2. IsTable(u) /\ SizeOf(u) = SizeOf(t)
      /\ \A j \in 0 .. SizeOf(t) - 1 : u[j] = IF j = i THEN Live(k, v) ELSE t[j]
  BY ONLY <1>1, TableChanged
<1>3. ASSUME NEW j \in At(u, "live") PROVE Sought(u[j].key)
  <2>1. j \in 0 .. SizeOf(t) - 1 /\ u[j].st = "live"
    BY <1>2, <1>3, LiveIs
  <2>2. CASE j = i
    BY <1>1, <1>2, <2>1, <2>2
  <2>3. CASE j # i
    <3>1. u[j] = t[j]
      BY <1>2, <2>1, <2>3
    <3>2. j \in At(t, "live")
      BY <2>1, <3>1, LiveIs
    <3>3. QED
      BY <3>1, <3>2 DEF Searchable
  <2>4. QED
    BY <2>2, <2>3
<1>4. QED
  BY <1>3 DEF Searchable

LEMMA HartInsertSearchable ==
    ASSUME NEW d, IsDict(d), Searchable(d.table), NEW k \in Keys, NEW v \in AllVals, Sought(k)
    PROVE  Searchable(HartInsert(d, <<k, v>>).table)
<1> DEFINE at == Lookup(d.table, k)
           i == IF at >= 0 THEN at ELSE Place(d.table, k)
           e == HartInsert(d, <<k, v>>)
<1>1. Changed(d.table, e.table, i, Live(k, v))
  <2>1. CASE at >= 0
    <3>1. e = [d EXCEPT !.table[at] = Live(k, v)] /\ i = at
      BY <2>1 DEF HartInsert
    <3> HIDE DEF e, at, i
    <3>2. QED
      BY <3>1 DEF IsDict, Changed
  <2>2. CASE ~(at >= 0)
    <3>1. e = Inserted(d, Place(d.table, k), k, v) /\ i = Place(d.table, k)
      BY <2>2 DEF HartInsert
    <3> HIDE DEF e, at, i
    <3>2. QED
      BY <3>1 DEF Inserted, Changed
  <2>3. QED
    BY <2>1, <2>2
<1> HIDE DEF e, i
<1>2. IsTable(d.table)
  BY DEF IsDict
<1>3. Searchable(e.table)
  BY <1>1, <1>2, SearchableKept
<1>4. QED
  BY <1>3 DEF e

\* A literal builds a mapping.
LEMMA BuildMapMap ==
    ASSUME NEW p \in Literals \cup Sources
    PROVE  LET d == BuildMap(p) IN
           /\ \E m : IsMap(d, m)
           /\ d.used < SizeOf(d.table)
           /\ p \in Sources => Searchable(d.table)
<1> DEFINE f == Built(p)
           l == Len(p)
           n == BuiltSize(Len(p))
           b == [table |-> EmptyTable(n), order |-> <<>>, used |-> 0, version |-> 0]
           Done(i) == /\ \E m : IsMap(f[i], m)
                      /\ f[i].used <= i
                      /\ p \in Sources => Searchable(f[i].table)
           S == {i \in 0 .. l : Done(i)}
<1>1. l \in Nat /\ l < n /\ n \in Nat /\ n >= 1 /\ p \in Seq(Keys \X AllVals)
  BY BuiltSizeIs
<1>2. ASSUME NEW i \in 1 .. l
      PROVE  /\ p[i] = <<p[i][1], p[i][2]>> /\ p[i][1] \in Keys /\ p[i][2] \in AllVals
             /\ p \in Sources => Sought(p[i][1])
  <2>1. p[i] \in Keys \X AllVals /\ i \in DOMAIN p
    BY <1>1
  <2>2. p[i] = <<p[i][1], p[i][2]>> /\ p[i][1] \in Keys /\ p[i][2] \in AllVals
    BY <2>1
  <2>3. p \in Sources => Sought(p[i][1])
    BY <2>1, PromiseAssumption DEF Sought
  <2>4. QED
    BY <2>2, <2>3
<1>3. /\ f[0] = b
      /\ \A i \in 1 .. l : f[i] = HartInsert(f[i - 1], p[i])
      /\ \A i \in 0 .. l : IsDict(f[i]) /\ SizeOf(f[i].table) = n
  BY BuiltIs
<1> HIDE DEF f, l, n
<1>4. 0 \in S
  <2>1. Sound(EmptyTable(n)) /\ LiveSlots(EmptyTable(n)) = 0
        /\ Maps(EmptyTable(n), [name \in Names |-> Absent])
    BY <1>1, EmptySound
  <2>2. IsDict(f[0]) /\ 0 \in 0 .. l
    BY <1>1, <1>3
  <2>3. Ordered(<<>>, [name \in Names |-> Absent])
    BY DEF Ordered
  <2>4. f[0].table = EmptyTable(n) /\ f[0].order = <<>> /\ f[0].used = 0 /\ Len(<<>>) = 0
    BY <1>3
  <2>5. IsMap(f[0], [name \in Names |-> Absent])
    BY <2>1, <2>2, <2>3, <2>4 DEF IsMap
  <2>6. Searchable(f[0].table)
    BY <1>1, <2>4, EmptyTableIs DEF Searchable, At, EmptyTable, Empty
  <2>7. Done(0)
    BY <2>4, <2>5, <2>6
  <2>8. QED
    BY <2>2, <2>7
<1>5. ASSUME NEW i \in 0 .. l - 1, i \in S PROVE i + 1 \in S
  <2>1. i + 1 \in 1 .. l /\ i + 1 \in 0 .. l /\ (i + 1) - 1 = i /\ i \in Nat /\ i \in 0 .. l
    BY <1>1
  <2> DEFINE k == p[i + 1][1]
             v == p[i + 1][2]
  <2>2. k \in Keys /\ v \in AllVals /\ p[i + 1] = <<k, v>> /\ (p \in Sources => Sought(k))
    BY <1>2, <2>1
  <2> HIDE DEF k, v
  <2>3. f[i + 1] = HartInsert(f[i], <<k, v>>) /\ IsDict(f[i]) /\ SizeOf(f[i].table) = n
    BY <1>3, <2>1, <2>2
  <2>4. Done(i)
    BY <1>5
  <2>5. PICK m : IsMap(f[i], m)
    BY <2>4
  <2>6. f[i].used \in Nat
    BY <2>3 DEF IsDict
  <2>7. f[i].used < SizeOf(f[i].table)
    BY <1>1, <2>1, <2>3, <2>4, <2>6
  <2>8. Stored(f[i], f[i + 1], k, v, m)
    BY <2>2, <2>3, <2>5, <2>7, HartInsertStored
  <2>9. IsMap(f[i + 1], With(m, NameOf(k), v)) /\ f[i + 1].used <= f[i].used + 1
    BY <2>6, <2>8 DEF Stored
  <2>10. p \in Sources => Searchable(f[i + 1].table)
    BY <2>2, <2>3, <2>4, HartInsertSearchable
  <2>11. f[i + 1].used \in Nat
    BY <1>3, <2>1 DEF IsDict
  <2>12. f[i + 1].used <= i + 1
    BY <2>1, <2>4, <2>6, <2>9, <2>11
  <2>13. Done(i + 1)
    BY <2>9, <2>10, <2>12
  <2>14. QED
    BY <2>1, <2>13
<1>6. l \in S /\ l \in 0 .. l
  <2>1. 0 .. l \subseteq S
    BY <1>1, <1>4, <1>5, CountUp
  <2> HIDE DEF S
  <2>2. QED
    BY <1>1, <2>1
<1>7. Done(l) /\ IsDict(f[l]) /\ SizeOf(f[l].table) = n
  BY <1>3, <1>6
<1>8. BuildMap(p) = f[l]
  BY DEF BuildMap, f, l
<1>9. f[l].used < SizeOf(f[l].table)
  BY <1>1, <1>7 DEF IsDict
<1>10. QED
  BY <1>7, <1>8, <1>9

\* m with what w has put over it.
Over(m, w) == [name \in Names |-> IF w[name] # Absent THEN w[name] ELSE m[name]]

LEMMA AppendConcat ==
    ASSUME NEW a \in Seq(Keys), NEW b \in Seq(Keys), NEW x \in Keys
    PROVE  Append(a \o b, x) = a \o Append(b, x)
OBVIOUS

\* e has d's keys first, and a version for each one more.
Tails(d, e) ==
    \E tail \in Seq(Keys) : e.order = d.order \o tail /\ e.version = d.version + Len(tail)

LEMMA TailGrows ==
    ASSUME NEW d, IsDict(d), NEW e, NEW g, NEW k \in Keys, Tails(d, e),
           g.order = Append(e.order, k), g.version = e.version + 1
    PROVE  Tails(d, g)
<1>1. PICK tail \in Seq(Keys) : e.order = d.order \o tail /\ e.version = d.version + Len(tail)
  BY DEF Tails
<1>2. d.order \in Seq(Keys) /\ d.version \in Nat
  BY DEF IsDict
<1>3. Append(d.order \o tail, k) = d.order \o Append(tail, k)
  BY ONLY k \in Keys, <1>2, tail \in Seq(Keys), AppendConcat
<1>4. Append(tail, k) \in Seq(Keys) /\ Len(Append(tail, k)) = Len(tail) + 1 /\ Len(tail) \in Nat
  BY AppendIs
<1>5. g.version = d.version + Len(Append(tail, k))
  <2> DEFINE x == Len(tail)
             y == Len(Append(tail, k))
  <2>1. x \in Nat /\ y = x + 1 /\ e.version = d.version + x
    BY <1>1, <1>4
  <2>2. d.version \in Nat /\ g.version = e.version + 1
    BY <1>2
  <2> HIDE DEF x, y
  <2>3. g.version = d.version + y
    BY ONLY <2>1, <2>2
  <2>4. QED
    BY <2>3 DEF y
<1>6. g.order = d.order \o Append(tail, k)
  BY <1>1, <1>3
<1>7. QED
  BY <1>4, <1>5, <1>6 DEF Tails

\* d.update(source), as long as both together leave a place.
LEMMA MergedMap ==
    ASSUME NEW d, NEW m, IsMap(d, m), NEW w, IsMap(source, w), Searchable(source.table),
           d.used + LiveSlots(source.table) < SizeOf(d.table)
    PROVE  LET e == Merged(d) IN
           /\ IsMap(e, Over(m, w)) /\ e.used < SizeOf(e.table)
           /\ Tails(d, e)
<1> DEFINE t == source.table
           f == Merging(d)
           z == SizeOf(t)
           n == SizeOf(d.table)
           c(i) == Cardinality(LiveBelow(t, i))
           W(i) == Over(m, Below(t, i, w))
           Done(i) == IsMap(f[i], W(i)) /\ f[i].used <= d.used + c(i) /\ Tails(d, f[i])
           S == {i \in 0 .. z : Done(i)}
<1>1. /\ z \in Nat /\ n \in Nat /\ IsTable(t) /\ LiveSlots(t) \in Nat
      /\ d.used \in Nat /\ d.version \in Nat /\ d.order \in Seq(Keys) /\ IsDict(d)
      /\ Sound(t) /\ Maps(t, w)
  BY LiveIsNat DEF IsMap, IsDict, IsTable
<1>2. m \in [Names -> AllVals \cup {Absent}] /\ w \in [Names -> AllVals \cup {Absent}]
  BY DEF IsMap, Maps
<1>3. /\ f[0] = d
      /\ \A i \in 1 .. z : f[i] = IF t[i - 1].st # "live" THEN f[i - 1]
                                  ELSE FwInsert(f[i - 1], t[i - 1].key, t[i - 1].val)
      /\ \A i \in 0 .. z : IsDict(f[i]) /\ SizeOf(f[i].table) = n
  BY <1>1, MergingIs
<1>4. \A i : i \in At(t, "live") <=> i \in 0 .. z - 1 /\ t[i].st = "live"
  BY <1>1, LiveIs
<1>5. d.used + LiveSlots(t) < n
  OBVIOUS
<1> HIDE DEF f, z, n
<1>6. 0 \in S
  <2>1. LiveBelow(t, 0) = {} /\ c(0) = 0 /\ 0 \in 0 .. z
    BY <1>1, FS_EmptySet DEF LiveBelow
  <2>2. W(0) = m
    <3>1. Below(t, 0, w) = [name \in Names |-> Absent]
      BY <2>1 DEF Below
    <3>2. W(0) = [name \in Names |-> m[name]]
      BY <3>1 DEF Over
    <3>3. QED
      BY <1>2, <3>2
  <2>3. Tails(d, f[0])
    <3>1. d.order = d.order \o <<>> /\ <<>> \in Seq(Keys) /\ Len(<<>>) = 0
      BY <1>1
    <3>2. d.version = d.version + 0
      BY <1>1
    <3>3. QED
      BY <1>3, <3>1, <3>2 DEF Tails
  <2>4. f[0].used <= d.used + c(0)
    BY <1>1, <1>3, <2>1
  <2> HIDE DEF c, W
  <2>5. Done(0)
    BY <1>3, <2>2, <2>3, <2>4
  <2>6. QED
    BY <2>1, <2>5
<1>7. ASSUME NEW i \in 0 .. z - 1, i \in S PROVE i + 1 \in S
  <2>1. i + 1 \in 1 .. z /\ i + 1 \in 0 .. z /\ (i + 1) - 1 = i /\ i \in Nat /\ i \in 0 .. z
    BY <1>1
  <2>2. Done(i)
    BY <1>7
  <2>3. /\ f[i + 1] = IF t[i].st # "live" THEN f[i] ELSE FwInsert(f[i], t[i].key, t[i].val)
        /\ IsDict(f[i]) /\ SizeOf(f[i].table) = n /\ IsDict(f[i + 1])
    BY <1>3, <2>1
  <2>4. c(i) \in Nat /\ c(i + 1) = c(i) + IF t[i].st = "live" THEN 1 ELSE 0
    BY <2>1, LiveBelowIs
  <2>5. LiveBelow(t, i + 1) = IF t[i].st = "live" THEN LiveBelow(t, i) \cup {i} ELSE LiveBelow(t, i)
    <3>1. 0 .. (i + 1) - 1 = (0 .. i - 1) \cup {i}
      BY <2>1
    <3>2. QED
      BY <3>1 DEF LiveBelow
  <2> HIDE DEF c
  <2>6. CASE t[i].st # "live"
    <3>1. f[i + 1] = f[i] /\ c(i + 1) = c(i) /\ W(i + 1) = W(i)
      BY <2>3, <2>4, <2>5, <2>6 DEF Below
    <3> HIDE DEF W
    <3>2. Done(i + 1)
      BY <2>2, <3>1
    <3>3. QED
      BY <2>1, <3>2
  <2>7. CASE t[i].st = "live"
    <3> DEFINE k == t[i].key
               v == t[i].val
    <3>1. i \in At(t, "live")
      BY <1>4, <2>7
    <3>2. k \in Keys /\ v \in AllVals /\ NameOf(k) \in Names /\ Sought(k)
      BY <1>1, <3>1, LiveIs DEF Searchable
    <3>3. IsMap(f[i], W(i)) /\ f[i].used <= d.used + c(i) /\ Tails(d, f[i])
      BY <2>2
    <3>4. f[i].used < SizeOf(f[i].table)
      <4>1. c(i) <= LiveSlots(t)
        BY <1>1, <2>1, LiveBelowFew DEF c, z
      <4>2. c(i + 1) <= LiveSlots(t)
        BY <1>1, <2>1, LiveBelowFew DEF c, z
      <4>3. f[i].used \in Nat
        BY <2>3 DEF IsDict
      <4> HIDE DEF W
      <4>4. QED
        BY <1>1, <1>5, <2>3, <2>4, <3>3, <4>1, <4>3
    <3>5. f[i + 1] = FwInsert(f[i], k, v)
      BY <2>3, <2>7
    <3>6. Stored(f[i], f[i + 1], k, v, W(i))
      <4> HIDE DEF W, k, v
      <4>1. QED
        BY <3>2, <3>3, <3>4, <3>5, FwInsertStored
    <3>7. With(W(i), NameOf(k), v) = W(i + 1)
      <4>1. w[NameOf(k)] = v /\ v # Absent
        BY <1>1, <3>1, <3>2, PromiseAssumption DEF Maps
      <4>2. \A name \in Names : (\E j \in LiveBelow(t, i + 1) : NameOf(t[j].key) = name)
               <=> (name = NameOf(k) \/ \E j \in LiveBelow(t, i) : NameOf(t[j].key) = name)
        BY <2>5, <2>7
      <4>3. QED
        BY <3>2, <4>1, <4>2 DEF With, Below, Over
    <3>8. Tails(d, f[i + 1])
      <4> HIDE DEF W
      <4>1. CASE W(i)[NameOf(k)] # Absent
        <5>1. f[i + 1].order = f[i].order /\ f[i + 1].version = f[i].version
          BY <3>6, <4>1 DEF Stored
        <5>2. QED
          BY <3>3, <5>1 DEF Tails
      <4>2. CASE W(i)[NameOf(k)] = Absent
        <5>1. f[i + 1].order = Append(f[i].order, k) /\ f[i + 1].version = f[i].version + 1
          BY <3>6, <4>2 DEF Stored
        <5>2. QED
          BY <1>1, <3>2, <3>3, <5>1, TailGrows
      <4>3. QED
        BY <4>1, <4>2
    <3>9. f[i + 1].used <= d.used + c(i + 1)
      <4>1. f[i].used \in Nat /\ f[i + 1].used \in Nat
        BY <2>3 DEF IsDict
      <4> HIDE DEF W
      <4>2. f[i + 1].used <= f[i].used + 1
        BY <3>6, <4>1 DEF Stored
      <4>3. c(i + 1) = c(i) + 1
        BY <2>4, <2>7
      <4>4. f[i].used <= d.used + c(i) /\ d.used \in Nat /\ c(i) \in Nat
        BY <1>1, <2>4, <3>3
      <4> DEFINE a == f[i].used
                 b == f[i + 1].used
      <4> HIDE DEF a, b
      <4>5. a <= d.used + c(i) /\ b <= a + 1 /\ a \in Nat /\ b \in Nat
        BY <4>1, <4>2, <4>4 DEF a, b
      <4>6. b <= d.used + c(i + 1)
        BY <4>3, <4>4, <4>5
      <4>7. QED
        BY <4>6 DEF b
    <3>10. IsMap(f[i + 1], W(i + 1))
      <4> HIDE DEF W
      <4>1. QED
        BY <3>6, <3>7 DEF Stored
    <3> HIDE DEF W
    <3>11. Done(i + 1)
      BY <3>8, <3>9, <3>10
    <3>12. QED
      BY <2>1, <3>11
  <2>8. QED
    BY <2>6, <2>7
<1>8. z \in S /\ z \in 0 .. z
  <2>1. 0 .. z \subseteq S
    BY <1>1, <1>6, <1>7, CountUp
  <2> HIDE DEF S
  <2>2. QED
    BY <1>1, <2>1
<1>9. Done(z) /\ SizeOf(f[z].table) = n /\ IsDict(f[z])
  <2>1. Done(z)
    BY <1>8
  <2> HIDE DEF Done
  <2>2. QED
    BY <1>3, <1>8, <2>1
<1>10. LiveBelow(t, z) = At(t, "live") /\ c(z) = LiveSlots(t)
  BY <1>4 DEF LiveBelow, LiveSlots
<1>11. W(z) = Over(m, w)
  <2>1. ASSUME NEW name \in Names
        PROVE  w[name] # Absent => \E j \in LiveBelow(t, z) : NameOf(t[j].key) = name
    BY <1>1, <1>10 DEF Maps, Holding
  <2>2. Below(t, z, w) = [name \in Names |-> w[name]]
    BY <2>1 DEF Below
  <2>3. QED
    BY <1>2, <2>2 DEF Over
<1>12. f[z].used < n
  <2>1. f[z].used \in Nat /\ f[z].used <= d.used + c(z)
    BY <1>9 DEF IsDict
  <2> HIDE DEF c
  <2>2. QED
    BY <1>1, <1>5, <1>10, <2>1
<1>13. Merged(d) = f[z]
  BY DEF Merged, f, z
<1> HIDE DEF W
<1>14. QED
  BY <1>9, <1>11, <1>12, <1>13
-----------------------------------------------------------------------------
(* Deleting *)

LEMMA RemovedIs ==
    ASSUME NEW X, NEW s \in Seq(X), NEW i \in DOMAIN s
    PROVE  /\ RemoveAt(s, i) \in Seq(X) /\ Len(RemoveAt(s, i)) = Len(s) - 1
           /\ Len(s) \in Nat /\ DOMAIN s = 1 .. Len(s) /\ i \in 1 .. Len(s)
           /\ DOMAIN RemoveAt(s, i) = 1 .. Len(s) - 1
           /\ \A j \in 1 .. Len(s) - 1 : RemoveAt(s, i)[j] = IF j < i THEN s[j] ELSE s[j + 1]
<1>1. RemoveAt(s, i) \in Seq(X) /\ Len(RemoveAt(s, i)) = Len(s) - 1
  BY RemoveAtIs
<1>2. Len(s) \in Nat /\ DOMAIN s = 1 .. Len(s) /\ i \in 1 .. Len(s)
  OBVIOUS
<1>3. DOMAIN RemoveAt(s, i) = 1 .. Len(s) - 1
  BY <1>1
<1>4. ASSUME NEW j \in 1 .. Len(s) - 1
      PROVE  RemoveAt(s, i)[j] = IF j < i THEN s[j] ELSE s[j + 1]
  <2> DEFINE a == SubSeq(s, 1, i - 1)
             b == SubSeq(s, i + 1, Len(s))
  <2>1. /\ a \in Seq(X) /\ Len(a) = i - 1
        /\ \A k \in 1 .. i - 1 : a[k] = s[k]
    BY <1>2
  <2>2. /\ b \in Seq(X) /\ Len(b) = Len(s) - i
        /\ \A k \in 1 .. Len(s) - i : b[k] = s[i + k]
    BY <1>2
  <2>3. RemoveAt(s, i) = a \o b
    BY DEF RemoveAt
  <2> HIDE DEF a, b
  <2>4. CASE j < i
    <3>1. j \in 1 .. Len(a)
      BY <1>2, <2>1, <2>4
    <3>2. (a \o b)[j] = a[j]
      BY <2>1, <2>2, <3>1
    <3>3. QED
      BY <2>1, <2>3, <2>4, <3>1, <3>2
  <2>5. CASE ~(j < i)
    <3>1. /\ j - Len(a) \in 1 .. Len(b) /\ j \in Len(a) + 1 .. Len(a) + Len(b)
          /\ i + (j - Len(a)) = j + 1
      BY <1>2, <2>1, <2>2, <2>5
    <3>2. (a \o b)[j] = b[j - Len(a)]
      <4>1. Len(a) \in Nat /\ Len(b) \in Nat /\ j \in Int /\ ~(j <= Len(a))
        BY <1>2, <2>1, <2>2, <2>5
      <4>2. j \in 1 .. Len(a) + Len(b)
        BY <3>1, <4>1
      <4>3. QED
        BY <4>1, <4>2
    <3>3. b[j - Len(a)] = s[i + (j - Len(a))]
      BY <2>2, <3>1
    <3>4. QED
      BY <2>3, <2>5, <3>1, <3>2, <3>3
  <2>6. QED
    BY <2>4, <2>5
<1>5. QED
  BY <1>1, <1>2, <1>3, <1>4

LEMMA OrderRemoved ==
    ASSUME NEW o \in Seq(Keys), NEW m \in [Names -> AllVals \cup {Absent}], Ordered(o, m),
           NEW i \in DOMAIN o
    PROVE  Ordered(RemoveAt(o, i), With(m, NameOf(o[i]), Absent))
<1> DEFINE p == RemoveAt(o, i)
           l == Len(o)
           name == NameOf(o[i])
           w == With(m, name, Absent)
           to(j) == IF j < i THEN j ELSE j + 1
<1>1. /\ l \in Nat /\ DOMAIN o = 1 .. l /\ i \in 1 .. l /\ DOMAIN p = 1 .. l - 1
      /\ \A j \in 1 .. l - 1 : p[j] = IF j < i THEN o[j] ELSE o[j + 1]
  BY RemovedIs
<1>2. name \in Names
  <2>1. o[i] \in Keys
    OBVIOUS
  <2>2. QED
    BY <2>1 DEF Names
<1>3. \A x \in Names : w[x] = IF x = name THEN Absent ELSE m[x]
  BY <1>2, WithIs
<1> HIDE DEF p, l, w
<1>4. \A j \in DOMAIN p : to(j) \in DOMAIN o /\ to(j) # i /\ p[j] = o[to(j)]
  BY <1>1
<1>5. ASSUME NEW x \in DOMAIN o, x # i PROVE \E j \in DOMAIN p : to(j) = x
  <2>1. CASE x < i
    <3>1. x \in 1 .. l - 1 /\ to(x) = x
      BY <1>1, <2>1
    <3>2. QED
      BY <1>1, <3>1
  <2>2. CASE ~(x < i)
    <3>1. x - 1 \in 1 .. l - 1 /\ to(x - 1) = x
      BY <1>1, <1>5, <2>2
    <3>2. QED
      BY <1>1, <3>1
  <2>3. QED
    BY <2>1, <2>2
<1>6. ASSUME NEW a \in DOMAIN p, NEW b \in DOMAIN p, to(a) = to(b) PROVE a = b
  BY <1>1, <1>6
<1> HIDE DEF to
<1>7. ASSUME NEW a \in DOMAIN p, NEW b \in DOMAIN p, NameOf(p[a]) = NameOf(p[b]) PROVE a = b
  <2>1. NameOf(o[to(a)]) = NameOf(o[to(b)]) /\ to(a) \in DOMAIN o /\ to(b) \in DOMAIN o
    BY <1>4, <1>7
  <2>2. to(a) = to(b)
    BY <2>1 DEF Ordered
  <2>3. QED
    BY <1>6, <2>2
<1>8. ASSUME NEW x \in Names PROVE w[x] # Absent <=> \E a \in DOMAIN p : NameOf(p[a]) = x
  <2>1. CASE x = name
    <3>1. ASSUME NEW a \in DOMAIN p, NameOf(p[a]) = name PROVE FALSE
      <4>1. NameOf(o[to(a)]) = NameOf(o[i]) /\ to(a) \in DOMAIN o /\ to(a) # i
        BY <1>4, <3>1 DEF name
      <4>2. QED
        BY <4>1 DEF Ordered
    <3>2. QED
      BY <1>3, <2>1, <3>1
  <2>2. CASE x # name
    <3>1. w[x] = m[x]
      BY <1>3, <2>2
    <3>2. (\E a \in DOMAIN p : NameOf(p[a]) = x) => (\E a \in DOMAIN o : NameOf(o[a]) = x)
      BY <1>4
    <3>3. ASSUME NEW a \in DOMAIN o, NameOf(o[a]) = x PROVE \E b \in DOMAIN p : NameOf(p[b]) = x
      <4>1. a # i
        BY <2>2, <3>3 DEF name
      <4>2. PICK b \in DOMAIN p : to(b) = a
        BY <1>5, <4>1
      <4>3. QED
        BY <1>4, <3>3, <4>2
    <3>4. QED
      BY <3>1, <3>2, <3>3 DEF Ordered
  <2>3. QED
    BY <2>1, <2>2
<1>9. QED
  BY <1>7, <1>8 DEF Ordered, p, w, name

LEMMA DeletedMap ==
    ASSUME NEW d, NEW m, IsMap(d, m), NEW i \in At(d.table, "live"), NEW a \in DOMAIN d.order,
           NameOf(d.order[a]) = NameOf(d.table[i].key),
           NEW e, e = [table |-> [d.table EXCEPT ![i] = Tombstone], order |-> RemoveAt(d.order, a),
                       used |-> d.used - 1, version |-> d.version + 1]
    PROVE  /\ IsMap(e, With(m, NameOf(d.table[i].key), Absent))
           /\ SizeOf(e.table) = SizeOf(d.table)
           /\ e.used = d.used - 1 /\ e.version = d.version + 1 /\ e.order = RemoveAt(d.order, a)
<1> DEFINE t == d.table
           u == e.table
           w == With(m, NameOf(t[i].key), Absent)
<1>1. /\ IsDict(d) /\ Sound(t) /\ IsTable(t) /\ Maps(t, m) /\ Ordered(d.order, m)
      /\ LiveSlots(t) <= d.used /\ d.used = Len(d.order)
  BY DEF IsMap, Sound
<1>2. d.used \in Nat /\ d.version \in Nat /\ d.order \in Seq(Keys)
  BY <1>1 DEF IsDict
<1>3. /\ e = [table |-> e.table, order |-> e.order, used |-> e.used, version |-> e.version]
      /\ Changed(t, u, i, Tombstone) /\ e.order = RemoveAt(d.order, a)
      /\ e.used = d.used - 1 /\ e.version = d.version + 1
  BY DEF Changed
<1> HIDE DEF u
<1>4. Sound(u) /\ Maps(u, w) /\ LiveSlots(u) = LiveSlots(t) - 1
  BY <1>1, <1>3, SlotCleared
<1>5. SizeOf(u) = SizeOf(t)
  <2>1. DOMAIN u = DOMAIN t
    BY <1>3 DEF Changed
  <2>2. QED
    BY <2>1 DEF SizeOf
<1>6. /\ RemoveAt(d.order, a) \in Seq(Keys) /\ Len(RemoveAt(d.order, a)) = Len(d.order) - 1
      /\ Len(d.order) >= 1
  BY <1>2, RemoveAtIs
<1>7. e.used \in Nat /\ e.version \in Nat /\ e.used = Len(e.order)
  BY <1>1, <1>2, <1>3, <1>6
<1>8. IsDict(e)
  BY <1>3, <1>4, <1>6, <1>7 DEF IsDict, Sound, u
<1>9. Ordered(e.order, w)
  <2>1. m \in [Names -> AllVals \cup {Absent}]
    BY <1>1 DEF Maps
  <2>2. Ordered(RemoveAt(d.order, a), With(m, NameOf(d.order[a]), Absent))
    BY <1>1, <1>2, <2>1, OrderRemoved
  <2>3. QED
    BY <1>3, <2>2
<1>10. LiveSlots(u) <= e.used
  <2>1. LiveSlots(t) \in Nat
    BY <1>1, LiveIsNat
  <2>2. QED
    BY <1>1, <1>2, <1>3, <1>4, <2>1
<1> HIDE DEF w
<1>11. QED
  BY <1>1, <1>3, <1>4, <1>5, <1>7, <1>8, <1>9, <1>10 DEF IsMap, w, u
-----------------------------------------------------------------------------
(* The names of keys in sequences *)

LEMMA NamesAre ==
    ASSUME NEW o \in Seq(Keys)
    PROVE  /\ NamesIn(o) \in Seq(Names) /\ Len(NamesIn(o)) = Len(o) /\ Len(o) \in Nat
           /\ DOMAIN o = 1 .. Len(o) /\ DOMAIN NamesIn(o) = 1 .. Len(o)
           /\ \A i \in 1 .. Len(o) : NamesIn(o)[i] = NameOf(o[i]) /\ o[i] \in Keys
<1> DEFINE n == Len(o)
           p == NamesIn(o)
<1>1. n \in Nat /\ DOMAIN o = 1 .. n
  OBVIOUS
<1>2. \A i \in 1 .. n : o[i] \in Keys
  BY <1>1
<1>3. \A i \in 1 .. n : NameOf(o[i]) \in Names
  BY <1>2 DEF Names
<1>4. p = [i \in 1 .. n |-> NameOf(o[i])]
  BY <1>1 DEF NamesIn
<1> HIDE DEF n, p
<1>5. p \in [1 .. n -> Names]
  BY <1>3, <1>4
<1>6. p \in Seq(Names) /\ Len(p) = n /\ DOMAIN p = 1 .. n
  BY <1>1, <1>5
<1>7. \A i \in 1 .. n : p[i] = NameOf(o[i])
  BY <1>4
<1>8. QED
  BY <1>1, <1>2, <1>6, <1>7 DEF n, p

LEMMA NamesAppended ==
    ASSUME NEW o \in Seq(Keys), NEW k \in Keys
    PROVE  NamesIn(Append(o, k)) = Append(NamesIn(o), NameOf(k))
<1> DEFINE a == Append(o, k)
           n == Len(o)
           p == NamesIn(o)
           q == NamesIn(a)
<1>1. /\ a \in Seq(Keys) /\ Len(a) = n + 1 /\ n \in Nat
      /\ \A i \in 1 .. n : a[i] = o[i]
      /\ a[n + 1] = k
  <2>1. DOMAIN o = 1 .. n
    BY NamesAre
  <2>2. QED
    BY <2>1, AppendIs
<1>2. NameOf(k) \in Names
  BY DEF Names
<1>3. /\ p \in Seq(Names) /\ Len(p) = n
      /\ \A i \in 1 .. n : p[i] = NameOf(o[i])
  BY NamesAre
<1>4. /\ q \in Seq(Names) /\ Len(q) = n + 1
      /\ \A i \in 1 .. n + 1 : q[i] = NameOf(a[i])
  BY <1>1, NamesAre
<1> HIDE DEF a, n, p, q
<1> DEFINE x == Append(p, NameOf(k))
<1>5. /\ x \in Seq(Names) /\ Len(x) = n + 1
      /\ \A i \in 1 .. n : x[i] = p[i]
      /\ x[n + 1] = NameOf(k)
  BY <1>1, <1>2, <1>3
<1> HIDE DEF x
<1>6. \A i \in 1 .. n + 1 : x[i] = q[i]
  <2>1. \A i \in 1 .. n + 1 : i \in 1 .. n \/ i = n + 1
    BY <1>1
  <2>2. QED
    BY <1>1, <1>3, <1>4, <1>5, <2>1
<1>7. q = x
  BY <1>4, <1>5, <1>6, SeqEqual
<1>8. QED
  BY <1>7 DEF a, p, q, x

LEMMA JoinIs ==
    ASSUME NEW X, NEW s \in Seq(X), NEW t \in Seq(X)
    PROVE  /\ s \o t \in Seq(X) /\ Len(s \o t) = Len(s) + Len(t)
           /\ Len(s) \in Nat /\ Len(t) \in Nat
           /\ \A i \in 1 .. Len(s) : (s \o t)[i] = s[i]
           /\ \A i \in 1 .. Len(t) : (s \o t)[Len(s) + i] = t[i]
           /\ \A i \in 1 .. Len(s) + Len(t) :
                 i \in 1 .. Len(s) \/ (i - Len(s) \in 1 .. Len(t) /\ i = Len(s) + (i - Len(s)))
<1> DEFINE a == Len(s)
           b == Len(t)
           u == s \o t
<1>1. a \in Nat /\ b \in Nat
  OBVIOUS
<1>2. /\ u \in Seq(X) /\ Len(u) = a + b
      /\ \A i \in 1 .. a + b : u[i] = IF i <= a THEN s[i] ELSE t[i - a]
  BY ConcatProperties
<1> HIDE DEF a, b, u
<1>3. \A i \in 1 .. a : u[i] = s[i]
  BY <1>1, <1>2
<1>4. ASSUME NEW i \in 1 .. b PROVE u[a + i] = t[i]
  <2>1. a + i \in 1 .. a + b /\ ~(a + i <= a) /\ (a + i) - a = i
    BY <1>1
  <2>2. QED
    BY <1>2, <2>1
<1>5. \A i \in 1 .. a + b : i \in 1 .. a \/ (i - a \in 1 .. b /\ i = a + (i - a))
  BY <1>1
<1>6. QED
  BY <1>1, <1>2, <1>3, <1>4, <1>5 DEF a, b, u

LEMMA NamesJoined ==
    ASSUME NEW o \in Seq(Keys), NEW p \in Seq(Keys)
    PROVE  NamesIn(o \o p) = NamesIn(o) \o NamesIn(p)
<1> DEFINE a == Len(o)
           b == Len(p)
           u == o \o p
           x == NamesIn(o)
           y == NamesIn(p)
           l == NamesIn(u)
           r == x \o y
<1>1. /\ u \in Seq(Keys) /\ Len(u) = a + b /\ a \in Nat /\ b \in Nat
      /\ \A i \in 1 .. a : u[i] = o[i]
      /\ \A i \in 1 .. b : u[a + i] = p[i]
      /\ \A i \in 1 .. a + b : i \in 1 .. a \/ (i - a \in 1 .. b /\ i = a + (i - a))
  BY JoinIs
<1>2. /\ x \in Seq(Names) /\ Len(x) = a
      /\ \A i \in 1 .. a : x[i] = NameOf(o[i])
  BY NamesAre
<1>3. /\ y \in Seq(Names) /\ Len(y) = b
      /\ \A i \in 1 .. b : y[i] = NameOf(p[i])
  BY NamesAre
<1>4. /\ l \in Seq(Names) /\ Len(l) = a + b
      /\ \A i \in 1 .. a + b : l[i] = NameOf(u[i])
  BY <1>1, NamesAre
<1> HIDE DEF x, y
<1>5. /\ r \in Seq(Names) /\ Len(r) = a + b
      /\ \A i \in 1 .. a : r[i] = x[i]
      /\ \A i \in 1 .. b : r[a + i] = y[i]
  <2>1. x \in Seq(Names) /\ y \in Seq(Names)
    BY <1>2, <1>3
  <2>2. /\ x \o y \in Seq(Names) /\ Len(x \o y) = Len(x) + Len(y)
        /\ \A i \in 1 .. Len(x) : (x \o y)[i] = x[i]
        /\ \A i \in 1 .. Len(y) : (x \o y)[Len(x) + i] = y[i]
    BY ONLY <2>1, JoinIs
  <2> HIDE DEF a, b
  <2>3. QED
    BY ONLY <1>2, <1>3, <2>2
<1> HIDE DEF a, b, u, l, r
<1>6. ASSUME NEW i \in 1 .. a + b PROVE l[i] = r[i]
  <2>1. CASE i \in 1 .. a
    BY <1>1, <1>2, <1>4, <1>5, <2>1
  <2>2. CASE i - a \in 1 .. b /\ i = a + (i - a)
    <3> DEFINE j == i - a
    <3>1. j \in 1 .. b /\ i = a + j
      BY <2>2
    <3> HIDE DEF j
    <3>2. u[i] = p[j] /\ r[i] = y[j] /\ y[j] = NameOf(p[j])
      BY <1>1, <1>3, <1>5, <3>1
    <3>3. QED
      BY <1>4, <3>2
  <2>3. QED
    BY <1>1, <2>1, <2>2
<1>7. l = r
  BY <1>4, <1>5, <1>6, SeqEqual
<1>8. QED
  BY <1>7 DEF u, x, y, l, r

LEMMA NamesRemoved ==
    ASSUME NEW o \in Seq(Keys), NEW i \in DOMAIN o
    PROVE  NamesIn(RemoveAt(o, i)) = RemoveAt(NamesIn(o), i)
<1> DEFINE u == RemoveAt(o, i)
           n == Len(o)
           x == NamesIn(o)
           l == NamesIn(u)
           r == RemoveAt(x, i)
<1>1. /\ u \in Seq(Keys) /\ Len(u) = n - 1 /\ n \in Nat /\ i \in 1 .. n
      /\ \A j \in 1 .. n - 1 : u[j] = IF j < i THEN o[j] ELSE o[j + 1]
  BY RemovedIs
<1>2. /\ x \in Seq(Names) /\ Len(x) = n /\ DOMAIN x = 1 .. n /\ DOMAIN o = 1 .. n
      /\ \A j \in 1 .. n : x[j] = NameOf(o[j])
  BY NamesAre
<1>3. /\ l \in Seq(Names) /\ Len(l) = n - 1
      /\ \A j \in 1 .. n - 1 : l[j] = NameOf(u[j])
  BY <1>1, NamesAre
<1> HIDE DEF x
<1>4. /\ r \in Seq(Names) /\ Len(r) = n - 1
      /\ \A j \in 1 .. n - 1 : r[j] = IF j < i THEN x[j] ELSE x[j + 1]
  <2>1. x \in Seq(Names) /\ i \in DOMAIN x
    BY <1>1, <1>2
  <2>2. QED
    BY <1>2, <2>1, RemovedIs
<1> HIDE DEF u, n, l, r
<1>5. \A j \in 1 .. n - 1 : l[j] = r[j]
  <2>1. \A j \in 1 .. n - 1 : j \in 1 .. n /\ j + 1 \in 1 .. n
    BY <1>1
  <2>2. QED
    BY <1>1, <1>2, <1>3, <1>4, <2>1
<1>6. l = r
  BY <1>3, <1>4, <1>5, SeqEqual
<1>7. QED
  BY <1>6 DEF u, x, l, r
-----------------------------------------------------------------------------
(* The walk *)

LEMMA NamesLeft ==
    ASSUME NEW o \in Seq(Keys), NEW i \in Nat, i <= Len(o)
    PROVE  LET left(j) == NamesIn(SubSeq(o, j + 1, Len(o))) IN
           /\ left(0) = NamesIn(o) /\ left(i) \in Seq(Names)
           /\ left(i) = <<>> <=> i >= Len(o)
           /\ i < Len(o) => left(i + 1) = Tail(left(i))
<1> DEFINE n == Len(o)
           p(j) == SubSeq(o, j + 1, n)
           l(j) == NamesIn(p(j))
<1>1. n \in Nat
  BY NamesAre
<1>2. ASSUME NEW j \in 0 .. n
      PROVE  /\ p(j) \in Seq(Keys) /\ Len(p(j)) = n - j
             /\ \A x \in 1 .. n - j : p(j)[x] = o[j + x]
  BY <1>1
<1> HIDE DEF p
<1>3. ASSUME NEW j \in 0 .. n
      PROVE  /\ l(j) \in Seq(Names) /\ Len(l(j)) = n - j
             /\ \A x \in 1 .. n - j : l(j)[x] = NameOf(o[j + x])
  <2>1. /\ l(j) \in Seq(Names) /\ Len(l(j)) = n - j
        /\ \A x \in 1 .. n - j : l(j)[x] = NameOf(p(j)[x])
    BY <1>2, NamesAre
  <2>2. QED
    BY <1>2, <2>1
<1> HIDE DEF l
<1>4. l(0) = NamesIn(o)
  <2>1. /\ NamesIn(o) \in Seq(Names) /\ Len(NamesIn(o)) = n
        /\ \A x \in 1 .. n : NamesIn(o)[x] = NameOf(o[x])
    BY NamesAre
  <2>2. 0 \in 0 .. n /\ n - 0 = n /\ \A x \in 1 .. n : 0 + x = x
    BY <1>1
  <2>3. /\ l(0) \in Seq(Names) /\ Len(l(0)) = n
        /\ \A x \in 1 .. n : l(0)[x] = NameOf(o[x])
    <3>1. /\ l(0) \in Seq(Names) /\ Len(l(0)) = n - 0
          /\ \A x \in 1 .. n - 0 : l(0)[x] = NameOf(o[0 + x])
      BY <1>3, <2>2
    <3>2. QED
      BY <2>2, <3>1
  <2> HIDE DEF n
  <2>4. QED
    BY <2>1, <2>3, SeqEqual
<1>5. i \in 0 .. n
  BY <1>1
<1>6. l(i) \in Seq(Names) /\ Len(l(i)) = n - i
  BY <1>3, <1>5
<1>7. l(i) = <<>> <=> i >= n
  <2>1. l(i) = <<>> <=> Len(l(i)) = 0
    BY <1>6
  <2>2. QED
    BY <1>1, <1>5, <1>6, <2>1
<1>8. ASSUME i < n PROVE l(i + 1) = Tail(l(i))
  <2> DEFINE a == l(i)
             b == l(i + 1)
             c == Tail(a)
             k == n - i
  <2>1. i + 1 \in 0 .. n /\ k \in Nat /\ k >= 1 /\ n - (i + 1) = k - 1
    BY <1>1, <1>8
  <2>2. /\ a \in Seq(Names) /\ Len(a) = k
        /\ \A x \in 1 .. k : a[x] = NameOf(o[i + x])
    BY <1>3, <1>5
  <2>3. /\ b \in Seq(Names) /\ Len(b) = n - (i + 1)
        /\ \A x \in 1 .. n - (i + 1) : b[x] = NameOf(o[(i + 1) + x])
    BY <1>3, <2>1
  <2> HIDE DEF a, b, k
  <2>4. /\ c \in Seq(Names) /\ Len(c) = k - 1
        /\ \A x \in 1 .. k - 1 : c[x] = a[x + 1]
    <3>1. a # <<>>
      BY <2>1, <2>2
    <3>2. QED
      BY <2>1, <2>2, <3>1
  <2> HIDE DEF c
  <2>5. ASSUME NEW x \in 1 .. k - 1 PROVE b[x] = c[x]
    <3>1. x + 1 \in 1 .. k /\ i + (x + 1) = (i + 1) + x /\ x \in 1 .. n - (i + 1)
      BY <1>5, <2>1
    <3>2. b[x] = NameOf(o[(i + 1) + x])
      BY <2>3, <3>1
    <3>3. a[x + 1] = NameOf(o[i + (x + 1)])
      BY <2>2, <3>1
    <3>4. QED
      BY <2>4, <3>1, <3>2, <3>3
  <2>6. b = c
    BY <2>1, <2>3, <2>4, <2>5, SeqEqual
  <2>7. QED
    BY <2>6 DEF a, b, c
<1>9. QED
  BY <1>4, <1>6, <1>7, <1>8 DEF l, p
-----------------------------------------------------------------------------
(* Steps of PyDict *)

Walk == IF iter = NoIter THEN NoWalk
        ELSE IF iter.version # dict.version THEN Refused
        ELSE NamesIn(SubSeq(dict.order, iter.index + 1, iter.size))

\* An iterator knows a version no later than the dict's; if it is the dict's,
\* it walks the dict's order.
WalkFits ==
    /\ iter = [index |-> iter.index, size |-> iter.size, version |-> iter.version]
    /\ iter # NoIter =>
          /\ iter.index \in Nat /\ iter.version \in Nat /\ iter.version <= dict.version
          /\ iter.version = dict.version =>
                iter.size = Len(dict.order) /\ iter.index <= Len(dict.order)

PromiseInv ==
    /\ seen = AnswersTo(dict)
    /\ IsMap(dict, Single(seen)) /\ dict.used < SizeOf(dict.table)
    /\ IsMap(source, Single(seenOther)) /\ Searchable(source.table)
    /\ grow # NoGrow => /\ grow[1] \in Keys /\ grow[1].tag # "NONE" /\ grow[2] \in AllVals
                        /\ Single(seen)[NameOf(grow[1])] = Absent
    /\ WalkFits

LEMMA DictIs ==
    ASSUME PromiseInv
    PROVE  /\ dict.order \in Seq(Keys) /\ dict.version \in Nat /\ dict.used \in Nat
           /\ Single(seen) \in [Names -> AllVals \cup {Absent}]
           /\ IsDict(dict) /\ Sound(dict.table) /\ IsTable(dict.table)
           /\ Maps(dict.table, Single(seen))
           /\ Ordered(dict.order, Single(seen))
BY DEF PromiseInv, IsMap, IsDict, Maps, Sound

LEMMA WalkIs ==
    ASSUME PromiseInv
    PROVE  /\ iter = NoIter => Walk = NoWalk
           /\ iter # NoIter => Walk # NoWalk
           /\ iter # NoIter /\ iter.version # dict.version => Walk = Refused
           /\ iter # NoIter /\ iter.version = dict.version =>
                 /\ Walk = NamesIn(SubSeq(dict.order, iter.index + 1, Len(dict.order)))
                 /\ Walk \in Seq(Names) /\ Walk # Refused
<1>1. NoWalk # Refused /\ NoWalk \notin Seq(Names) /\ Refused \notin Seq(Names)
  BY PromiseAssumption
<1>2. ASSUME iter # NoIter, iter.version = dict.version
      PROVE  /\ Walk = NamesIn(SubSeq(dict.order, iter.index + 1, Len(dict.order)))
             /\ Walk \in Seq(Names)
  <2>1. iter.size = Len(dict.order) /\ iter.index <= Len(dict.order) /\ iter.index \in Nat
    BY <1>2 DEF PromiseInv, WalkFits
  <2>2. Walk = NamesIn(SubSeq(dict.order, iter.index + 1, Len(dict.order)))
    BY <1>2, <2>1 DEF Walk
  <2>3. dict.order \in Seq(Keys)
    BY DictIs
  <2>4. NamesIn(SubSeq(dict.order, iter.index + 1, Len(dict.order))) \in Seq(Names)
    BY <2>1, <2>3, NamesLeft
  <2>5. QED
    BY <2>2, <2>4
<1>3. QED
  BY <1>1, <1>2 DEF Walk

LEMMA WalkKept ==
    ASSUME dict'.version = dict.version, dict'.order = dict.order, iter' = iter
    PROVE  Walk' = Walk
BY DEF Walk

LEMMA WalkStale ==
    ASSUME PromiseInv, dict'.version \in Nat, dict'.version > dict.version, iter' = iter
    PROVE  Walk' = IF Walk = NoWalk THEN NoWalk ELSE Refused
<1>1. CASE iter = NoIter
  <2>1. Walk' = NoWalk
    BY <1>1 DEF Walk
  <2>2. QED
    BY <1>1, <2>1, WalkIs
<1>2. CASE iter # NoIter
  <2>1. iter.version \in Nat /\ iter.version <= dict.version /\ dict.version \in Nat
    BY <1>2, DictIs DEF PromiseInv, WalkFits
  <2>2. iter'.version # dict'.version
    BY <2>1
  <2>3. Walk' = Refused
    BY <1>2, <2>2 DEF Walk
  <2>4. QED
    BY <1>2, <2>3, WalkIs
<1>3. QED
  BY <1>1, <1>2

\* What the look-ups answer after a step.
LEMMA SeenIs ==
    ASSUME NEW m, IsMap(dict', m), seen' = AnswersTo(dict')
    PROVE  Single(seen)' = m
<1>1. Single(AnswersTo(dict')) = m
  BY AnswersAre DEF IsMap
<1>2. Single(seen)' = Single(seen')
  BY DEF Single
<1>3. QED
  BY <1>1, <1>2

\* d may be the dict with another table.
LEMMA SetsItem ==
    ASSUME PromiseInv, NEW k \in Keys, NEW v \in AllVals, NEW d,
           d.order = dict.order, d.version = dict.version,
           Stored(d, dict', k, v, Single(seen)), seen' = AnswersTo(dict'), iter' = iter
    PROVE  Python!SetItem(NameOf(k), v)
<1> DEFINE m == Single(seen)
           n == NameOf(k)
<1>1. m \in [Names -> AllVals \cup {Absent}] /\ n \in Names
  BY DictIs DEF Names
<1>2. Single(seen)' = With(m, n, v)
  BY SeenIs DEF Stored
<1>3. With(m, n, v)[n] = v
  BY <1>1, WithIs
<1>4. NamesIn(dict.order)' = NamesIn(dict'.order)
  BY DEF NamesIn
<1>5. CASE m[n] # Absent
  <2>1. dict'.order = dict.order /\ dict'.version = dict.version
    BY <1>5 DEF Stored
  <2>2. Walk' = Walk
    BY <2>1, WalkKept
  <2>3. QED
    BY <1>2, <1>3, <1>4, <1>5, <2>1, <2>2 DEF Python!SetItem, With, Walk
<1>6. CASE m[n] = Absent
  <2>1. dict'.order = Append(dict.order, k) /\ dict'.version = dict.version + 1
    BY <1>6 DEF Stored
  <2>2. NamesIn(dict.order)' = Append(NamesIn(dict.order), n)
    BY <1>4, <2>1, DictIs, NamesAppended
  <2>3. Walk' = IF Walk = NoWalk THEN NoWalk ELSE Refused
    BY <2>1, DictIs, WalkStale
  <2>4. QED
    BY <1>2, <1>3, <1>6, <2>2, <2>3 DEF Python!SetItem, Python!Stale, With, Walk
<1>7. QED
  BY <1>5, <1>6

\* A sequence without repetition enumerates its elements.
LEMMA Enumerates ==
    ASSUME NEW X, NEW s \in Seq(X), NEW S, \A i \in 1 .. Len(s) : s[i] \in S,
           \A i, j \in 1 .. Len(s) : s[i] = s[j] => i = j,
           \A x \in S : \E i \in 1 .. Len(s) : s[i] = x
    PROVE  s \in Python!SetToSeqs(S) /\ Cardinality(S) = Len(s)
<1> DEFINE n == Len(s)
<1>1. n \in Nat /\ s \in [1 .. n -> S]
  OBVIOUS
<1> HIDE DEF n
<1>2. s \in Bijection(1 .. n, S)
  <2>1. s \in Injection(1 .. n, S)
    BY <1>1 DEF Injection, IsInjective, n
  <2>2. s \in Surjection(1 .. n, S)
    BY <1>1 DEF Surjection, n
  <2>3. QED
    BY <2>1, <2>2 DEF Bijection
<1>3. Cardinality(S) = n
  BY <1>1, <1>2, FS_CountingElements DEF ExistsBijection
<1>4. Python!Cardinality(S) = Cardinality(S)
  BY DEF Python!Cardinality, Cardinality
<1>5. QED
  BY <1>1, <1>3, <1>4 DEF Python!SetToSeqs, n

LEMMA PythonRemoves ==
    ASSUME NEW s, NEW i
    PROVE  Python!RemoveAt(s, i) = RemoveAt(s, i)
BY DEF Python!RemoveAt, RemoveAt

\* The order, as names, enumerates the keys of the mapping.
LEMMA OrderEnumerates ==
    ASSUME NEW o \in Seq(Keys), NEW m, Ordered(o, m)
    PROVE  NamesIn(o) \in Python!SetToSeqs({n \in Names : m[n] # Absent})
<1> DEFINE s == NamesIn(o)
           S == {n \in Names : m[n] # Absent}
           l == Len(o)
<1>1. /\ s \in Seq(Names) /\ Len(s) = l /\ DOMAIN o = 1 .. l
      /\ \A i \in 1 .. l : s[i] = NameOf(o[i]) /\ s[i] \in Names
  <2>1. /\ s \in Seq(Names) /\ Len(s) = l /\ DOMAIN o = 1 .. l
        /\ \A i \in 1 .. l : s[i] = NameOf(o[i]) /\ o[i] \in Keys
    BY NamesAre
  <2> HIDE DEF s
  <2>2. QED
    BY <2>1 DEF Names
<1> HIDE DEF s, l
<1>2. /\ \A a, b \in 1 .. l : NameOf(o[a]) = NameOf(o[b]) => a = b
      /\ \A n \in Names : m[n] # Absent <=> \E a \in 1 .. l : NameOf(o[a]) = n
  BY <1>1 DEF Ordered
<1>3. \A i \in 1 .. l : s[i] \in S
  BY <1>1, <1>2
<1>4. \A i, j \in 1 .. l : s[i] = s[j] => i = j
  BY <1>1, <1>2
<1>5. \A x \in S : \E i \in 1 .. l : s[i] = x
  BY <1>1, <1>2
<1> HIDE DEF S
<1>6. s \in Python!SetToSeqs(S)
  BY <1>1, <1>3, <1>4, <1>5, Enumerates
<1>7. QED
  BY <1>6 DEF s, S

\* Where a look-up finds the key.
LEMMA LookupHolds ==
    ASSUME NEW t, Sound(t), NEW k \in Keys, Lookup(t, k) >= 0
    PROVE  /\ Lookup(t, k) \in Holding(t, NameOf(k))
           /\ Lookup(t, k) \in At(t, "live") /\ NameOf(t[Lookup(t, k)].key) = NameOf(k)
<1> DEFINE E == Holding(t, NameOf(k))
           found == Found(t, Hash(k), LastStep(t, Hash(k), E))
<1>1. Lookup(t, k) = found
  BY HartEqual DEF Lookup, Sound
<1>2. (\A i \in E : found = i /\ E = {i}) /\ (E = {} => found = -1)
  BY LookupIs
<1> HIDE DEF found, E
<1>3. E # {}
  BY <1>1, <1>2
<1>4. found \in E
  BY <1>2, <1>3
<1>5. QED
  BY <1>1, <1>4 DEF E, Holding

LEMMA LookupInt ==
    ASSUME NEW t, Sound(t), NEW k \in Keys
    PROVE  Lookup(t, k) \in Int
<1> DEFINE E == Holding(t, NameOf(k))
           found == Found(t, Hash(k), LastStep(t, Hash(k), E))
<1>1. Lookup(t, k) = found
  BY HartEqual DEF Lookup, Sound
<1>2. (\A i \in E : found = i /\ E = {i}) /\ (E = {} => found = -1)
  BY LookupIs
<1>3. E \subseteq Int
  BY DEF Holding, At, Sound, IsTable
<1> HIDE DEF found, E
<1>4. QED
  BY <1>1, <1>2, <1>3

LEMMA DeletesItem ==
    ASSUME PromiseInv, NEW k \in Keys, Delete(k), seen' = AnswersTo(dict')
    PROVE  /\ Python!DelItem(NameOf(k))
           /\ IsMap(dict', With(Single(seen), NameOf(k), Absent))
           /\ dict'.used < SizeOf(dict'.table) /\ UNCHANGED fault
           /\ dict'.version = dict.version + 1
<1> DEFINE m == Single(seen)
           n == NameOf(k)
           o == dict.order
           at == Lookup(dict.table, k)
           places == {i \in DOMAIN o : SameKey(k, o[i])}
           a == Min(places)
<1>1. /\ m \in [Names -> AllVals \cup {Absent}] /\ n \in Names /\ o \in Seq(Keys)
      /\ Sound(dict.table) /\ IsTable(dict.table) /\ Maps(dict.table, m) /\ Ordered(o, m)
      /\ dict.used \in Nat /\ dict.version \in Nat
  BY DictIs DEF Names
<1>2. at >= 0
  BY DEF Delete
<1>3. at \in Holding(dict.table, n) /\ at \in At(dict.table, "live") /\ NameOf(dict.table[at].key) = n
  BY <1>1, <1>2, LookupHolds
<1> HIDE DEF at
<1>4. m[n] # Absent
  BY <1>1, <1>3, HoldingIs
<1>5. /\ places # {} /\ places \subseteq Nat
      /\ \A i \in places : i \in DOMAIN o /\ NameOf(o[i]) = n
  <2>1. \A i \in DOMAIN o : o[i] \in Keys /\ i \in Nat
    BY <1>1
  <2>2. \A i \in DOMAIN o : SameKey(k, o[i]) <=> n = NameOf(o[i])
    BY <2>1, KeysAlike
  <2>3. \E i \in DOMAIN o : NameOf(o[i]) = n
    BY <1>1, <1>4 DEF Ordered
  <2>4. QED
    BY <2>1, <2>2, <2>3
<1>6. a \in DOMAIN o /\ NameOf(o[a]) = n
  <2> HIDE DEF places
  <2>1. a \in places
    BY <1>5, MinIs
  <2>2. QED
    BY <1>5, <2>1
<1>7. /\ dict' = [table |-> [dict.table EXCEPT ![at] = Tombstone], order |-> RemoveAt(o, a),
                  used |-> dict.used - 1, version |-> dict.version + 1]
      /\ UNCHANGED <<fault, iter>>
  BY <1>5 DEF Delete, at
<1> HIDE DEF places, a
<1>8. /\ IsMap(dict', With(m, n, Absent)) /\ SizeOf(dict'.table) = SizeOf(dict.table)
      /\ dict'.used = dict.used - 1 /\ dict'.version = dict.version + 1
      /\ dict'.order = RemoveAt(o, a)
  <2>1. IsMap(dict, m)
    BY DEF PromiseInv
  <2> HIDE DEF m
  <2>2. QED
    BY <1>3, <1>6, <1>7, <2>1, DeletedMap
<1>9. dict'.used < SizeOf(dict'.table)
  <2>1. dict.used < SizeOf(dict.table) /\ SizeOf(dict.table) \in Nat
    BY <1>1 DEF PromiseInv, IsTable
  <2>2. QED
    BY <1>1, <1>8, <2>1
<1>10. Single(seen)' = With(m, n, Absent) /\ With(m, n, Absent)[n] = Absent
  BY <1>1, <1>8, SeenIs, WithIs
<1>11. /\ NamesIn(o)' = RemoveAt(NamesIn(o), a)
       /\ a \in DOMAIN NamesIn(o) /\ NamesIn(o)[a] = n
  <2>1. NamesIn(o)' = NamesIn(dict'.order)
    BY DEF NamesIn
  <2>2. NamesIn(RemoveAt(o, a)) = RemoveAt(NamesIn(o), a)
    BY <1>1, <1>6, NamesRemoved
  <2>3. a \in DOMAIN NamesIn(o) /\ NamesIn(o)[a] = NameOf(o[a])
    BY <1>1, <1>6, NamesAre
  <2>4. QED
    BY <1>6, <1>8, <2>1, <2>2, <2>3
<1>12. Walk' = IF Walk = NoWalk THEN NoWalk ELSE Refused
  BY <1>1, <1>7, <1>8, WalkStale
<1>13. Python!DelItem(n)
  BY <1>4, <1>10, <1>11, <1>12, PythonRemoves DEF Python!DelItem, Python!Stale, With, Walk
<1>14. QED
  BY <1>7, <1>8, <1>9, <1>13

\* The dict made large enough for an update.
LEMMA RoomForBoth ==
    ASSUME PromiseInv, Update
    PROVE  \E d : /\ dict' = Merged(d) /\ IsMap(d, Single(seen))
                  /\ d.order = dict.order /\ d.version = dict.version
                  /\ d.used + LiveSlots(source.table) < SizeOf(d.table)
<1> DEFINE m == Single(seen)
           need == dict.used + source.used
           size == SizeOf(dict.table)
           n == GrownSize(need, size)
           t == Rehash(dict.table, n)
           l == LiveSlots(source.table)
<1>1. /\ IsMap(dict, m) /\ Sound(dict.table) /\ Maps(dict.table, m) /\ dict.used \in Nat
      /\ size \in Nat /\ LiveSlots(dict.table) \in Nat /\ LiveSlots(dict.table) <= dict.used
  BY DictIs, LiveIsNat DEF PromiseInv, IsMap, IsTable
<1>2. source.used \in Nat /\ l \in Nat /\ l <= source.used
  BY LiveIsNat DEF PromiseInv, IsMap, IsDict
<1>3. need \in Nat
  BY <1>1, <1>2
<1>4. CASE ~NeedsGrow(need, size)
  <2>1. dict' = Merged(dict)
    BY <1>4 DEF Update
  <2> HIDE DEF need, size, l, m
  <2>2. need + 1 < size
    BY <1>1, <1>3, <1>4, NeedsNoGrow
  <2>3. dict.used + l < size
    BY <1>1, <1>2, <1>3, <2>2 DEF need
  <2>4. QED
    BY <1>1, <2>1, <2>3 DEF size, l, m
<1>5. CASE NeedsGrow(need, size)
  <2> DEFINE d == [dict EXCEPT !.table = t]
  <2>1. dict' = Merged(d) /\ Larger(need, size) # {}
    BY <1>5 DEF Update
  <2> HIDE DEF need, size, l, m
  <2>2. n \in Nat /\ n >= 8 /\ need + 1 < n
    BY <1>1, <1>3, <2>1, GrownSizeIs
  <2> HIDE DEF n
  <2>3. LiveSlots(dict.table) < n /\ dict.used + l < n
    BY <1>1, <1>2, <1>3, <2>2 DEF need
  <2>4. Sound(t) /\ Maps(t, m) /\ SizeOf(t) = n /\ LiveSlots(t) <= LiveSlots(dict.table)
    BY <1>1, <2>2, <2>3, RehashSound
  <2> HIDE DEF t
  <2>5. /\ IsMap(d, m) /\ d.table = t /\ d.order = dict.order /\ d.used = dict.used
        /\ d.version = dict.version
    BY <1>1, <2>4, RetabledMap
  <2> HIDE DEF d
  <2>6. QED
    BY <2>1, <2>3, <2>4, <2>5 DEF m, l
<1>6. QED
  BY <1>4, <1>5

LEMMA UpdatesAll ==
    ASSUME PromiseInv, Update, seen' = AnswersTo(dict')
    PROVE  /\ Python!Update
           /\ IsMap(dict', Over(Single(seen), Single(seenOther)))
           /\ dict'.used < SizeOf(dict'.table)
           /\ dict'.version >= dict.version
           /\ dict'.version = dict.version => dict'.order = dict.order
<1> DEFINE m == Single(seen)
           w == Single(seenOther)
           x == Over(m, w)
           o == dict.order
           new == {n \in Names : w[n] # Absent} \ {n \in Names : m[n] # Absent}
<1>1. /\ m \in [Names -> AllVals \cup {Absent}] /\ o \in Seq(Keys) /\ Ordered(o, m)
      /\ dict.version \in Nat
  BY DictIs
<1>2. w \in [Names -> AllVals \cup {Absent}]
  BY DEF PromiseInv, IsMap, Maps
<1>3. PICK d : /\ dict' = Merged(d) /\ IsMap(d, m) /\ d.order = o /\ d.version = dict.version
               /\ d.used + LiveSlots(source.table) < SizeOf(d.table)
  BY RoomForBoth
<1>4. IsMap(dict', x) /\ dict'.used < SizeOf(dict'.table) /\ Tails(d, dict')
  <2>1. IsMap(source, w) /\ Searchable(source.table)
    BY DEF PromiseInv
  <2> HIDE DEF m, w
  <2>2. QED
    BY <1>3, <2>1, MergedMap
<1>5. PICK tail \in Seq(Keys) : dict'.order = o \o tail /\ dict'.version = dict.version + Len(tail)
  BY <1>3, <1>4 DEF Tails
<1>6. Single(seen)' = x
  BY <1>4, SeenIs
<1>7. Ordered(dict'.order, x)
  BY <1>4 DEF IsMap
<1>8. \A n \in Names : /\ x[n] = IF w[n] # Absent THEN w[n] ELSE m[n]
                       /\ x[n] # Absent <=> w[n] # Absent \/ m[n] # Absent
  BY DEF Over
<1>9. x = [n \in Names |-> IF w[n] # Absent THEN w[n] ELSE m[n]]
  BY DEF Over
<1> HIDE DEF m, w, x
<1> DEFINE s == NamesIn(tail)
           a == Len(o)
           b == Len(tail)
           p == o \o tail
<1>10. /\ s \in Seq(Names) /\ Len(s) = b /\ b \in Nat
       /\ \A i \in 1 .. b : s[i] = NameOf(tail[i]) /\ s[i] \in Names
  <2>1. /\ s \in Seq(Names) /\ Len(s) = b /\ b \in Nat
        /\ \A i \in 1 .. b : s[i] = NameOf(tail[i]) /\ tail[i] \in Keys
    BY NamesAre
  <2> HIDE DEF s
  <2>2. QED
    BY <2>1 DEF Names
<1>11. /\ a \in Nat /\ DOMAIN o = 1 .. a
       /\ DOMAIN p = 1 .. a + b
       /\ \A i \in 1 .. a : p[i] = o[i]
       /\ \A i \in 1 .. b : p[a + i] = tail[i]
       /\ \A i \in 1 .. a + b : i \in 1 .. a \/ (i - a \in 1 .. b /\ i = a + (i - a))
  <2>1. p \in Seq(Keys) /\ Len(p) = a + b
    BY <1>1, JoinIs
  <2>2. DOMAIN p = 1 .. a + b
    BY <2>1, NamesAre
  <2>3. a \in Nat /\ DOMAIN o = 1 .. a
    BY <1>1, NamesAre
  <2> HIDE DEF p
  <2>4. /\ \A i \in 1 .. a : p[i] = o[i]
        /\ \A i \in 1 .. b : p[a + i] = tail[i]
        /\ \A i \in 1 .. a + b : i \in 1 .. a \/ (i - a \in 1 .. b /\ i = a + (i - a))
    BY <1>1, JoinIs DEF p
  <2>5. QED
    BY <2>2, <2>3, <2>4
<1>12. Ordered(p, x)
  BY <1>5, <1>7
<1> HIDE DEF s, p, a, b, o
<1>13. /\ \A i, j \in 1 .. a + b : NameOf(p[i]) = NameOf(p[j]) => i = j
       /\ \A n \in Names : x[n] # Absent <=> \E i \in 1 .. a + b : NameOf(p[i]) = n
       /\ \A n \in Names : m[n] # Absent <=> \E i \in 1 .. a : NameOf(o[i]) = n
  BY <1>1, <1>11, <1>12 DEF Ordered
<1>14. \A i \in 1 .. b : a + i \in 1 .. a + b /\ a + i \notin 1 .. a /\ p[a + i] = tail[i]
  BY <1>10, <1>11
<1>15. \A i \in 1 .. a : i \in 1 .. a + b /\ p[i] = o[i]
  BY <1>10, <1>11
<1>16. ASSUME NEW i \in 1 .. b PROVE s[i] \in new
  <2>1. s[i] \in Names /\ s[i] = NameOf(p[a + i])
    BY <1>10, <1>14
  <2>2. x[s[i]] # Absent
    BY <1>13, <1>14, <2>1
  <2>3. ASSUME m[s[i]] # Absent PROVE FALSE
    <3>1. PICK j \in 1 .. a : NameOf(o[j]) = s[i]
      BY <1>13, <2>1, <2>3
    <3>2. NameOf(p[j]) = NameOf(p[a + i]) /\ j \in 1 .. a + b /\ a + i \in 1 .. a + b
      BY <1>14, <1>15, <2>1, <3>1
    <3>3. j = a + i
      BY <1>13, <3>2
    <3>4. QED
      BY <1>14, <3>3
  <2>4. QED
    BY <1>8, <2>1, <2>2, <2>3
<1>17. ASSUME NEW i \in 1 .. b, NEW j \in 1 .. b, s[i] = s[j] PROVE i = j
  <2>1. NameOf(p[a + i]) = NameOf(p[a + j])
    BY <1>10, <1>14, <1>17
  <2>2. a + i = a + j
    BY <1>13, <1>14, <2>1
  <2>3. QED
    BY <1>10, <1>11, <2>2
<1>18. ASSUME NEW n \in new PROVE \E i \in 1 .. b : s[i] = n
  <2>1. n \in Names /\ x[n] # Absent /\ m[n] = Absent
    BY <1>8
  <2>2. PICK i \in 1 .. a + b : NameOf(p[i]) = n
    BY <1>13, <2>1
  <2>3. i \notin 1 .. a
    BY <1>13, <1>15, <2>1, <2>2
  <2>4. i - a \in 1 .. b /\ i = a + (i - a)
    BY <1>11, <2>3
  <2>5. s[i - a] = n
    BY <1>10, <1>14, <2>2, <2>4
  <2>6. QED
    BY <2>4, <2>5
<1> HIDE DEF new
<1>19. s \in Python!SetToSeqs(new)
  BY <1>10, <1>16, <1>17, <1>18, Enumerates
<1>20. NamesIn(dict.order)' = NamesIn(o) \o s
  <2>1. NamesIn(dict.order)' = NamesIn(dict'.order)
    BY DEF NamesIn
  <2>2. NamesIn(o \o tail) = NamesIn(o) \o NamesIn(tail)
    BY <1>1, NamesJoined
  <2>3. QED
    BY <1>5, <2>1, <2>2 DEF s
<1>21. iter' = iter
  BY DEF Update
<1>22. new = {} <=> b = 0
  BY <1>10, <1>16, <1>18
<1>23. b = 0 => dict'.version = dict.version /\ dict'.order = dict.order
  <2>1. ASSUME b = 0 PROVE tail = <<>>
    BY <2>1 DEF b
  <2>2. o \o <<>> = o
    BY <1>1, ConcatEmptySeq
  <2>3. QED
    BY <1>1, <1>5, <2>1, <2>2 DEF b, o
<1>24. b # 0 => dict'.version \in Nat /\ dict'.version > dict.version
  BY <1>1, <1>5, <1>10 DEF b
<1>25. Walk' = IF new = {} THEN Walk ELSE IF Walk = NoWalk THEN NoWalk ELSE Refused
  BY <1>21, <1>22, <1>23, <1>24, WalkKept, WalkStale
<1>26. Python!Update
  BY <1>6, <1>9, <1>19, <1>20, <1>25
  DEF Python!Update, Python!Present, Python!Stale, Walk, new, m, w, o
<1>27. QED
  BY <1>1, <1>4, <1>22, <1>23, <1>24, <1>26 DEF x, m, w
-----------------------------------------------------------------------------
(* Steps of DictTable *)

LEMMA InvKept ==
    ASSUME PromiseInv, seen' = AnswersTo(dict'), UNCHANGED <<source, seenOther>>,
           NEW m, IsMap(dict', m), dict'.used < SizeOf(dict'.table),
           grow' # NoGrow => /\ grow'[1] \in Keys /\ grow'[1].tag # "NONE"
                             /\ grow'[2] \in AllVals /\ m[NameOf(grow'[1])] = Absent,
           WalkFits'
    PROVE  PromiseInv'
<1>1. Single(seen)' = m
  BY SeenIs
<1>2. Single(seenOther)' = Single(seenOther)
  BY DEF Single
<1>3. IsMap(dict, Single(seen))'
  BY <1>1
<1>4. IsMap(source, Single(seenOther))' /\ Searchable(source.table)'
  BY <1>2 DEF PromiseInv
<1>5. (seen = AnswersTo(dict))' /\ (dict.used < SizeOf(dict.table))'
  OBVIOUS
<1>6. (grow # NoGrow => /\ grow[1] \in Keys /\ grow[1].tag # "NONE" /\ grow[2] \in AllVals
                        /\ Single(seen)[NameOf(grow[1])] = Absent)'
  BY <1>1 DEF NoGrow
<1>7. QED
  BY <1>3, <1>4, <1>5, <1>6 DEF PromiseInv

LEMMA WalkFitsKept ==
    ASSUME PromiseInv, iter' = iter, dict'.version \in Nat, dict'.version >= dict.version,
           dict'.version = dict.version => dict'.order = dict.order
    PROVE  WalkFits'
<1>1. WalkFits /\ dict.version \in Nat
  BY DictIs DEF PromiseInv
<1>2. CASE iter = NoIter
  BY <1>1, <1>2 DEF WalkFits, NoIter
<1>3. CASE iter # NoIter
  BY <1>1, <1>3 DEF WalkFits, NoIter
<1>4. QED
  BY <1>2, <1>3

LEMMA StoredKept ==
    ASSUME PromiseInv, NEW k \in Keys, NEW v \in AllVals,
           Stored(dict, dict', k, v, Single(seen)), seen' = AnswersTo(dict'),
           UNCHANGED <<source, seenOther, iter>>, dict'.used < SizeOf(dict'.table),
           grow' = NoGrow
    PROVE  PromiseInv' /\ Python!SetItem(NameOf(k), v)
<1> DEFINE m == Single(seen)
<1>1. dict.version \in Nat
  BY DictIs
<1>2. /\ dict'.version \in Nat /\ dict'.version >= dict.version
      /\ dict'.version = dict.version => dict'.order = dict.order
  BY <1>1 DEF Stored
<1>3. WalkFits'
  BY <1>2, WalkFitsKept
<1>4. IsMap(dict', With(m, NameOf(k), v))
  BY DEF Stored
<1> HIDE DEF m
<1>5. PromiseInv'
  BY <1>3, <1>4, InvKept
<1>6. Python!SetItem(NameOf(k), v)
  BY SetsItem DEF m
<1>7. QED
  BY <1>5, <1>6

LEMMA OverwriteRefines ==
    ASSUME PromiseInv, NEW k \in Keys, NEW v \in AllVals, StoreOverwrite(k, v),
           seen' = AnswersTo(dict'), UNCHANGED seenOther
    PROVE  PromiseInv' /\ Python!SetItem(NameOf(k), v)
<1> DEFINE m == Single(seen)
<1>1. IsMap(dict, m) /\ dict.used < SizeOf(dict.table)
  BY DEF PromiseInv
<1>2. /\ Lookup(dict.table, k) >= 0 /\ dict' = HartInsert(dict, <<k, v>>)
      /\ UNCHANGED <<source, iter>> /\ grow' = NoGrow
  BY DEF StoreOverwrite, HartInsert, Running
<1> HIDE DEF m
<1>3. Stored(dict, dict', k, v, m) /\ m[NameOf(k)] # Absent
  BY <1>1, <1>2, HartInsertStored
<1>4. dict'.used < SizeOf(dict'.table)
  BY <1>1, <1>3 DEF Stored
<1>5. QED
  BY <1>2, <1>3, <1>4, StoredKept DEF m

LEMMA NewRefines ==
    ASSUME PromiseInv, NEW k \in Keys, NEW v \in AllVals, Served(k), StoreNew(k, v),
           seen' = AnswersTo(dict'), UNCHANGED seenOther
    PROVE  /\ PromiseInv' /\ UNCHANGED fault
           /\ \/ Python!SetItem(NameOf(k), v)
              \/ UNCHANGED <<dict, iter, seen>>
<1> DEFINE m == Single(seen)
<1>1. IsMap(dict, m) /\ dict.used < SizeOf(dict.table) /\ seen = AnswersTo(dict)
  BY DEF PromiseInv
<1>2. /\ Lookup(dict.table, k) < 0 /\ ~ProbeFaults(dict.table, k)
      /\ UNCHANGED <<source, iter, fault>>
  BY DEF StoreNew, Served
<1>3. m[NameOf(k)] = Absent
  <2>1. Lookup(dict.table, k) >= 0 <=> m[NameOf(k)] # Absent
    <3> HIDE DEF m
    <3>1. QED
      BY <1>1, HartInsertStored
  <2>2. Lookup(dict.table, k) \in Int
    BY DictIs, LookupInt
  <2>3. QED
    BY <1>2, <2>1, <2>2
<1>4. CASE NeedsGrow(dict.used, SizeOf(dict.table))
  <2>1. grow' = <<k, v>> /\ dict' = dict /\ k.tag # "NONE"
    BY <1>2, <1>4 DEF StoreNew, Served
  <2>2. WalkFits'
    <3>1. dict.version \in Nat
      BY DictIs
    <3>2. QED
      BY <1>2, <2>1, <3>1, WalkFitsKept
  <2>3. IsMap(dict', m) /\ dict'.used < SizeOf(dict'.table)
    BY <1>1, <2>1
  <2>4. /\ grow'[1] \in Keys /\ grow'[1].tag # "NONE"
        /\ grow'[2] \in AllVals /\ m[NameOf(grow'[1])] = Absent
    BY <1>3, <2>1
  <2> HIDE DEF m
  <2>5. PromiseInv'
    BY <1>2, <2>2, <2>3, <2>4, InvKept
  <2>6. QED
    BY <1>1, <1>2, <2>1, <2>5
<1>5. CASE ~NeedsGrow(dict.used, SizeOf(dict.table))
  <2>1. dict' = HartInsert(dict, <<k, v>>) /\ grow' = NoGrow
    <3>1. Lookup(dict.table, k) \in Int
      BY DictIs, LookupInt
    <3>2. ~(Lookup(dict.table, k) >= 0)
      BY <1>2, <3>1
    <3>3. dict' = Inserted(dict, Place(dict.table, k), k, v) /\ grow' = NoGrow
      BY <1>2, <1>5 DEF StoreNew, Running
    <3>4. QED
      BY <3>2, <3>3 DEF HartInsert
  <2> HIDE DEF m
  <2>2. Stored(dict, dict', k, v, m)
    BY <1>1, <2>1, HartInsertStored
  <2>3. dict'.used = dict.used + 1 /\ SizeOf(dict'.table) = SizeOf(dict.table)
    BY <1>3, <2>2 DEF Stored
  <2>4. dict'.used < SizeOf(dict'.table)
    <3>1. dict.used \in Nat /\ SizeOf(dict.table) \in Nat
      BY DictIs DEF IsTable
    <3>2. dict.used + 1 < SizeOf(dict.table)
      BY <1>5, <3>1, NeedsNoGrow
    <3>3. QED
      BY <2>3, <3>2
  <2>5. QED
    BY <1>2, <2>1, <2>2, <2>4, StoredKept DEF m
<1>6. QED
  BY <1>4, <1>5

LEMMA GrowRefines ==
    ASSUME PromiseInv, DictGrow, seen' = AnswersTo(dict'), UNCHANGED seenOther
    PROVE  /\ PromiseInv' /\ grow[1] \in Keys /\ grow[2] \in AllVals
           /\ Python!SetItem(NameOf(grow[1]), grow[2])
<1> DEFINE m == Single(seen)
           k == grow[1]
           v == grow[2]
           size == SizeOf(dict.table)
           n == GrownSize(dict.used, size)
           t == Rehash(dict.table, n)
           d == [dict EXCEPT !.table = t]
<1>1. /\ IsMap(dict, m) /\ Sound(dict.table) /\ Maps(dict.table, m) /\ dict.used \in Nat
      /\ size \in Nat /\ LiveSlots(dict.table) \in Nat /\ LiveSlots(dict.table) <= dict.used
  BY DictIs, LiveIsNat DEF PromiseInv, IsMap, IsTable
<1>2. /\ grow # NoGrow /\ Larger(dict.used, size) # {} /\ grow' = NoGrow
      /\ UNCHANGED <<source, iter, fault>>
  BY DEF DictGrow
<1>3. k \in Keys /\ k.tag # "NONE" /\ v \in AllVals /\ m[NameOf(k)] = Absent
  BY <1>2 DEF PromiseInv
<1>4. dict' = FwInsert(d, k, v)
  BY <1>3 DEF DictGrow
<1> HIDE DEF k, v, m, size
<1>5. n \in Nat /\ n >= 8 /\ dict.used + 1 < n
  BY <1>1, <1>2, GrownSizeIs
<1> HIDE DEF n
<1>6. LiveSlots(dict.table) < n
  BY <1>1, <1>5
<1>7. Sound(t) /\ Maps(t, m) /\ SizeOf(t) = n /\ LiveSlots(t) <= LiveSlots(dict.table)
  BY <1>1, <1>5, <1>6, RehashSound
<1> HIDE DEF t
<1>8. /\ IsMap(d, m) /\ d.table = t /\ d.order = dict.order /\ d.used = dict.used
      /\ d.version = dict.version
  BY <1>1, <1>7, RetabledMap
<1> HIDE DEF d
<1>9. d.used < SizeOf(d.table)
  BY <1>1, <1>5, <1>7, <1>8
<1>10. Stored(d, dict', k, v, m)
  BY <1>3, <1>4, <1>8, <1>9, FwInsertStored
<1>11. dict'.used = dict.used + 1 /\ SizeOf(dict'.table) = n
  BY <1>3, <1>7, <1>8, <1>10 DEF Stored
<1>12. IsMap(dict', With(m, NameOf(k), v)) /\ dict'.order = Append(dict.order, k)
       /\ dict'.version = dict.version + 1
  BY <1>3, <1>8, <1>10 DEF Stored
<1>13. dict'.used < SizeOf(dict'.table)
  BY <1>5, <1>11
<1>14. PromiseInv' /\ Python!SetItem(NameOf(k), v)
  <2>1. dict.version \in Nat
    BY DictIs
  <2>2. WalkFits'
    BY <1>2, <1>12, <2>1, WalkFitsKept
  <2>3. PromiseInv'
    BY <1>2, <1>12, <1>13, <2>2, InvKept
  <2>4. Python!SetItem(NameOf(k), v)
    BY <1>2, <1>3, <1>8, <1>10, SetsItem DEF m
  <2>5. QED
    BY <2>3, <2>4
<1>15. QED
  BY <1>3, <1>14 DEF k, v

LEMMA DeleteRefines ==
    ASSUME PromiseInv, NEW k \in Keys, Delete(k), seen' = AnswersTo(dict'), UNCHANGED seenOther
    PROVE  PromiseInv' /\ UNCHANGED fault /\ Python!DelItem(NameOf(k))
<1> DEFINE m == Single(seen)
           x == With(m, NameOf(k), Absent)
<1>1. /\ Python!DelItem(NameOf(k)) /\ IsMap(dict', x) /\ dict'.used < SizeOf(dict'.table)
      /\ UNCHANGED fault /\ dict'.version = dict.version + 1
  BY DeletesItem
<1>2. UNCHANGED <<source, iter>> /\ grow' = NoGrow
  BY DEF Delete, Running
<1> HIDE DEF x
<1>3. WalkFits'
  <2>1. dict.version \in Nat
    BY DictIs
  <2>2. QED
    BY <1>1, <1>2, <2>1, WalkFitsKept
<1>4. PromiseInv'
  BY <1>1, <1>2, <1>3, InvKept
<1>5. QED
  BY <1>1, <1>4

LEMMA UpdateRefines ==
    ASSUME PromiseInv, Update, seen' = AnswersTo(dict'), UNCHANGED seenOther
    PROVE  PromiseInv' /\ UNCHANGED fault /\ Python!Update
<1> DEFINE x == Over(Single(seen), Single(seenOther))
<1>1. /\ Python!Update /\ IsMap(dict', x) /\ dict'.used < SizeOf(dict'.table)
      /\ dict'.version >= dict.version
      /\ dict'.version = dict.version => dict'.order = dict.order
  BY UpdatesAll
<1>2. UNCHANGED <<source, iter, fault>> /\ grow' = NoGrow
  BY DEF Update, Running
<1> HIDE DEF x
<1>3. dict'.version \in Nat
  BY <1>1 DEF IsMap, IsDict
<1>4. WalkFits'
  BY <1>1, <1>2, <1>3, WalkFitsKept
<1>5. PromiseInv'
  BY <1>1, <1>2, <1>4, InvKept
<1>6. QED
  BY <1>1, <1>2, <1>5

\* The invariant when only the iterator moves.
LEMMA IterKept ==
    ASSUME PromiseInv, UNCHANGED <<dict, source, grow, seenOther>>, seen' = AnswersTo(dict'),
           grow = NoGrow, WalkFits'
    PROVE  PromiseInv' /\ UNCHANGED <<Single(seen), NamesIn(dict.order), Single(seenOther)>>
<1>1. seen' = seen
  BY DEF PromiseInv
<1>2. IsMap(dict', Single(seen)) /\ dict'.used < SizeOf(dict'.table)
  BY DEF PromiseInv
<1>3. PromiseInv'
  <2> DEFINE m == Single(seen)
  <2>1. IsMap(dict', m)
    BY <1>2
  <2> HIDE DEF m
  <2>2. QED
    BY <1>2, <2>1, InvKept
<1>4. QED
  BY <1>1, <1>3 DEF Single, NamesIn

LEMMA IterateRefines ==
    ASSUME PromiseInv, GetIter, seen' = AnswersTo(dict'), UNCHANGED seenOther
    PROVE  PromiseInv' /\ UNCHANGED fault /\ Python!Iterate
<1> DEFINE n == Len(dict.order)
<1>1. /\ iter' = [index |-> 0, size |-> n, version |-> dict.version]
      /\ UNCHANGED <<dict, source, grow, fault>> /\ grow = NoGrow
  BY DEF GetIter, Running
<1>2. dict.order \in Seq(Keys) /\ dict.version \in Nat /\ n \in Nat
  BY DictIs
<1>3. iter'.index = 0 /\ iter'.size = n /\ iter'.version = dict.version
  BY <1>1
<1>4. iter' # NoIter
  BY <1>2, <1>3 DEF NoIter
<1>5. Walk' = NamesIn(dict.order)
  <2>1. Walk' = NamesIn(SubSeq(dict'.order, iter'.index + 1, iter'.size))
    BY <1>1, <1>3, <1>4 DEF Walk
  <2>2. NamesIn(SubSeq(dict.order, 0 + 1, Len(dict.order))) = NamesIn(dict.order)
    BY <1>2, NamesLeft
  <2>3. QED
    BY <1>1, <1>3, <2>1, <2>2
<1>6. WalkFits'
  <2> HIDE DEF n
  <2>1. dict' = dict /\ iter' = [index |-> iter'.index, size |-> iter'.size, version |-> iter'.version]
    BY <1>1
  <2>2. iter'.index <= n /\ iter'.version <= dict.version
    BY <1>2, <1>3
  <2>3. QED
    BY <1>2, <1>3, <2>1, <2>2 DEF WalkFits, n
<1>7. PromiseInv' /\ UNCHANGED <<Single(seen), NamesIn(dict.order), Single(seenOther)>>
  BY <1>1, <1>6, IterKept
<1>8. QED
  BY <1>1, <1>5, <1>7 DEF Python!Iterate, Walk

LEMMA ForRefines ==
    ASSUME PromiseInv, ForIter, seen' = AnswersTo(dict'), UNCHANGED seenOther
    PROVE  PromiseInv' /\ UNCHANGED fault /\ (Python!Yield \/ Python!Refuse)
<1>1. /\ UNCHANGED <<dict, source, grow, fault>> /\ grow = NoGrow /\ iter # NoIter
      /\ iter' = IF iter.version # dict.version \/ iter.index >= iter.size
                 THEN NoIter ELSE [iter EXCEPT !.index = @ + 1]
  BY DEF ForIter, Running
<1>2. dict.order \in Seq(Keys) /\ dict.version \in Nat /\ Len(dict.order) \in Nat
  BY DictIs
<1>3. /\ iter = [index |-> iter.index, size |-> iter.size, version |-> iter.version]
      /\ iter.index \in Nat /\ iter.version \in Nat /\ iter.version <= dict.version
      /\ iter.version = dict.version => iter.size = Len(dict.order) /\ iter.index <= Len(dict.order)
  BY <1>1 DEF PromiseInv, WalkFits
<1>4. CASE iter.version # dict.version \/ iter.index >= iter.size
  <2>1. iter' = NoIter
    BY <1>1, <1>4
  <2>2. Walk' = NoWalk /\ WalkFits'
    BY <2>1 DEF Walk, WalkFits, NoIter
  <2>3. PromiseInv' /\ UNCHANGED <<Single(seen), NamesIn(dict.order), Single(seenOther)>>
    BY <1>1, <2>2, IterKept
  <2>4. CASE iter.version # dict.version
    <3>1. Walk = Refused
      BY <1>1, <2>4, WalkIs
    <3>2. Python!Refuse
      BY <2>2, <2>3, <3>1 DEF Python!Refuse, Walk
    <3>3. QED
      BY <1>1, <2>3, <3>2
  <2>5. CASE iter.version = dict.version
    <3>1. /\ Walk = NamesIn(SubSeq(dict.order, iter.index + 1, Len(dict.order)))
          /\ Walk # Refused /\ Walk # NoWalk
      BY <1>1, <2>5, WalkIs
    <3>2. iter.index >= Len(dict.order) /\ iter.index <= Len(dict.order)
      BY <1>3, <1>4, <2>5
    <3>3. Walk = <<>>
      BY <1>2, <1>3, <3>1, <3>2, NamesLeft
    <3>4. Python!Yield
      BY <2>2, <2>3, <3>1, <3>3 DEF Python!Yield, Walk
    <3>5. QED
      BY <1>1, <2>3, <3>4
  <2>6. QED
    BY <2>4, <2>5
<1>5. CASE ~(iter.version # dict.version \/ iter.index >= iter.size)
  <2> DEFINE n == Len(dict.order)
             i == iter.index
  <2>1. iter.version = dict.version /\ iter.size = n /\ i \in Nat /\ n \in Nat /\ i < n
    BY <1>2, <1>3, <1>5
  <2>2. iter' = [index |-> i + 1, size |-> n, version |-> dict.version]
    BY <1>1, <1>3, <1>5, <2>1
  <2>3. iter'.index = i + 1 /\ iter'.size = n /\ iter'.version = dict.version
    BY <2>2
  <2>4. iter' # NoIter
    BY <1>2, <2>3 DEF NoIter
  <2>5. /\ Walk = NamesIn(SubSeq(dict.order, i + 1, n))
        /\ Walk # Refused /\ Walk # NoWalk
    BY <1>1, <2>1, WalkIs
  <2>6. Walk' = NamesIn(SubSeq(dict.order, (i + 1) + 1, n))
    BY <1>1, <2>3, <2>4 DEF Walk
  <2>7. Walk # <<>> /\ Walk' = Tail(Walk)
    <3>1. /\ NamesIn(SubSeq(dict.order, i + 1, Len(dict.order))) = <<>> <=> i >= Len(dict.order)
          /\ i < Len(dict.order) =>
                NamesIn(SubSeq(dict.order, (i + 1) + 1, Len(dict.order)))
                    = Tail(NamesIn(SubSeq(dict.order, i + 1, Len(dict.order))))
      BY <1>2, <2>1, NamesLeft
    <3>2. QED
      BY <2>1, <2>5, <2>6, <3>1
  <2>8. WalkFits'
    <3> HIDE DEF i
    <3>1. /\ dict' = dict /\ i + 1 \in Nat /\ i + 1 <= n
          /\ iter' = [index |-> iter'.index, size |-> iter'.size, version |-> iter'.version]
      BY <1>1, <2>1, <2>2
    <3> HIDE DEF n
    <3>2. iter'.version <= dict.version
      BY <1>2, <2>3
    <3>3. QED
      BY <1>2, <2>3, <3>1, <3>2 DEF WalkFits, n
  <2>9. PromiseInv' /\ UNCHANGED <<Single(seen), NamesIn(dict.order), Single(seenOther)>>
    BY <1>1, <2>8, IterKept
  <2>10. Python!Yield
    BY <2>5, <2>7, <2>9 DEF Python!Yield, Walk
  <2>11. QED
    BY <1>1, <2>9, <2>10
<1>6. QED
  BY <1>4, <1>5

LEMMA PromiseStarts ==
    ASSUME PromiseInit
    PROVE  PromiseInv /\ Python!Init
<1>1. PICK p \in Literals : dict = BuildMap(p)
  BY DEF PromiseInit, Init
<1>2. PICK q \in Sources : source = BuildMap(q)
  BY DEF PromiseInit, Init
<1>3. /\ seen = AnswersTo(dict) /\ seenOther = AnswersTo(source)
      /\ grow = NoGrow /\ iter = NoIter /\ fault = FALSE
  BY DEF PromiseInit, Init
<1>4. PICK m : IsMap(dict, m)
  BY <1>1, BuildMapMap
<1>5. PICK w : IsMap(source, w)
  BY <1>2, BuildMapMap
<1>6. dict.used < SizeOf(dict.table) /\ Searchable(source.table)
  BY <1>1, <1>2, BuildMapMap
<1>7. Single(seen) = m /\ Single(seenOther) = w
  BY <1>3, <1>4, <1>5, AnswersAre DEF IsMap
<1>8. WalkFits
  BY <1>3 DEF WalkFits, NoIter
<1>9. PromiseInv
  BY <1>3, <1>4, <1>5, <1>6, <1>7, <1>8 DEF PromiseInv
<1>10. /\ m \in [Names -> AllVals \cup {Absent}] /\ w \in [Names -> AllVals \cup {Absent}]
       /\ dict.order \in Seq(Keys) /\ Ordered(dict.order, m)
  BY <1>4, <1>5 DEF IsMap, IsDict, Maps
<1>11. NamesIn(dict.order) \in Python!SetToSeqs({n \in Names : m[n] # Absent})
  BY <1>10, OrderEnumerates
<1>12. Python!Init
  BY <1>3, <1>7, <1>10, <1>11 DEF Python!Init, Python!Present
<1>13. QED
  BY <1>9, <1>12

\* Every step of the machines is a step of a Python dict, or none at all.
LEMMA PromiseSteps ==
    ASSUME PromiseInv, [PromiseNext]_<<vars, seen, seenOther>>
    PROVE  PromiseInv' /\ [Python!Next]_(Python!vars)
<1>1. CASE UNCHANGED <<vars, seen, seenOther>>
  <2>1. UNCHANGED <<dict, source, grow, iter, fault, seen, seenOther>>
    BY <1>1 DEF vars
  <2>2. WalkFits'
    BY <2>1 DEF PromiseInv, WalkFits
  <2>3. /\ seen' = AnswersTo(dict') /\ IsMap(dict', Single(seen))
        /\ dict'.used < SizeOf(dict'.table)
        /\ grow' # NoGrow => /\ grow'[1] \in Keys /\ grow'[1].tag # "NONE"
                             /\ grow'[2] \in AllVals /\ Single(seen)[NameOf(grow'[1])] = Absent
    BY <2>1 DEF PromiseInv
  <2>4. PromiseInv'
    <3> DEFINE m == Single(seen)
    <3>1. /\ IsMap(dict', m)
          /\ grow' # NoGrow => /\ grow'[1] \in Keys /\ grow'[1].tag # "NONE"
                               /\ grow'[2] \in AllVals /\ m[NameOf(grow'[1])] = Absent
      BY <2>3
    <3> HIDE DEF m
    <3>2. QED
      BY <2>1, <2>2, <2>3, <3>1, InvKept
  <2>5. UNCHANGED Python!vars
    BY <2>1 DEF Python!vars, Single, NamesIn
  <2>6. QED
    BY <2>4, <2>5
<1>2. CASE PromiseNext
  <2>1. Step(Served) /\ seen' = AnswersTo(dict') /\ UNCHANGED seenOther
    BY <1>2 DEF PromiseNext
  <2>2. UNCHANGED Single(seenOther)
    BY <2>1 DEF Single
  <2>3. ASSUME NEW k \in Keys PROVE NameOf(k) \in Names
    BY DEF Names
  <2>4. Vals \subseteq AllVals
    BY DEF AllVals
  <2>5. CASE \E k \in Keys, v \in Vals : StoreOverwrite(k, v)
    <3>1. PICK k \in Keys, v \in AllVals : StoreOverwrite(k, v)
      BY <2>4, <2>5
    <3>2. PromiseInv' /\ Python!SetItem(NameOf(k), v)
      BY <2>1, <3>1, OverwriteRefines
    <3>3. UNCHANGED fault
      BY <3>1 DEF StoreOverwrite
    <3>4. QED
      BY <2>2, <2>3, <3>2, <3>3 DEF Python!Next
  <2>6. CASE \E k \in Keys, v \in Vals : Served(k) /\ StoreNew(k, v)
    <3>1. PICK k \in Keys, v \in AllVals : Served(k) /\ StoreNew(k, v)
      BY <2>4, <2>6
    <3>2. /\ PromiseInv' /\ UNCHANGED fault
          /\ \/ Python!SetItem(NameOf(k), v)
             \/ UNCHANGED <<dict, iter, seen>>
      BY <2>1, <3>1, NewRefines
    <3>3. CASE Python!SetItem(NameOf(k), v)
      BY <2>2, <2>3, <3>2, <3>3 DEF Python!Next
    <3>4. CASE UNCHANGED <<dict, iter, seen>>
      <4>1. UNCHANGED Python!vars
        BY <2>2, <3>2, <3>4 DEF Python!vars, Single, NamesIn
      <4>2. QED
        BY <3>2, <4>1
    <3>5. QED
      BY <3>2, <3>3, <3>4
  <2>7. CASE DictGrow
    <3>1. /\ PromiseInv' /\ grow[1] \in Keys /\ grow[2] \in AllVals
          /\ Python!SetItem(NameOf(grow[1]), grow[2])
      BY <2>1, <2>7, GrowRefines
    <3>2. UNCHANGED fault
      BY <2>7 DEF DictGrow
    <3>3. QED
      BY <2>2, <2>3, <3>1, <3>2 DEF Python!Next
  <2>8. CASE \E k \in Keys : Delete(k)
    <3>1. PICK k \in Keys : Delete(k)
      BY <2>8
    <3>2. PromiseInv' /\ UNCHANGED fault /\ Python!DelItem(NameOf(k))
      BY <2>1, <3>1, DeleteRefines
    <3>3. QED
      BY <2>2, <2>3, <3>2 DEF Python!Next
  <2>9. CASE Update
    <3>1. PromiseInv' /\ UNCHANGED fault /\ Python!Update
      BY <2>1, <2>9, UpdateRefines
    <3>2. QED
      BY <2>2, <3>1 DEF Python!Next
  <2>10. CASE GetIter
    <3>1. PromiseInv' /\ UNCHANGED fault /\ Python!Iterate
      BY <2>1, <2>10, IterateRefines
    <3>2. QED
      BY <2>2, <3>1 DEF Python!Next
  <2>11. CASE ForIter
    <3>1. PromiseInv' /\ UNCHANGED fault /\ (Python!Yield \/ Python!Refuse)
      BY <2>1, <2>11, ForRefines
    <3>2. QED
      BY <2>2, <3>1 DEF Python!Next
  <2>12. QED
    BY <2>1, <2>5, <2>6, <2>7, <2>8, <2>9, <2>10, <2>11 DEF Step
<1>3. QED
  BY <1>1, <1>2

\* For all keys of PromiseAssumption, all values, literals and table sizes:
\* the table, the order buffer and the iterator together are a Python dict.
\* What one machine stores, the other and every form of the key find again,
\* across growth, tombstones and updates; the order is that of insertion, and
\* a walk yields it once through or is refused (pycore_cont_dict.svh,
\* list_grow.s).
THEOREM ImplementsPythonDict == PromiseSpec => IsPythonDict
<1>1. PromiseInit => PromiseInv /\ Python!Init
  BY PromiseStarts
<1>2. PromiseInv /\ [PromiseNext]_<<vars, seen, seenOther>>
      => PromiseInv' /\ [Python!Next]_(Python!vars)
  BY PromiseSteps
<1>3. QED
  BY <1>1, <1>2, PTL DEF PromiseSpec, IsPythonDict, Python!Spec
=============================================================================
