---------------------------- MODULE GcMarkProofs ----------------------------
(***************************************************************************)
(* Theorems about GcMark, for every heap, every assignment of objects to   *)
(* bitmap words and every size of queue, stack, rescan list and chunk.     *)
(*                                                                         *)
(* The argument is an account.  Every item of the queue and every entry of *)
(* the stack gives marks that are still to be set, and so do the range in  *)
(* the tracer, the item in the marker and the roots not yet read; together *)
(* they are what is Owed.  What a marked object needs is marked or owed,   *)
(* and only what the program can reach is marked or owed.  At the sweep    *)
(* nothing is owed.                                                        *)
(***************************************************************************)
EXTENDS GcMark, SequenceTheorems, TLAPS

Members(s) == {s[i] : i \in DOMAIN s}

Heads(S) == S \X {"head"}

\* The handles in slots at, at + 1, ... (n of them) of a range.
Seen(range, at, n) ==
  {c \in Obj : \E i \in at..(at + n - 1) : \E j \in DOMAIN range[i] : range[i][j] = c}

\* What marking the head of an object of heap h leaves to be marked.
Needs(h, o) == (Parts(o) \ Heads({o})) \cup Heads(Children(h, o))

RangeAt(h, k, o) == IF k = "table" THEN h.table[o] ELSE h.slots[o]

EntryRange(h, e) == RangeAt(h, e.k, e.o)

EntryGives(h, e) ==
  CASE e.k = "object"             -> Needs(h, e.o)
    [] e.k \in {"range", "table"} -> Heads(Seen(EntryRange(h, e), e.at, e.n))
    [] OTHER                      -> {}

ItemGives(h, i) ==
  CASE i.t = "handle" -> Heads({i.o})
    [] i.t = "raw"    -> {<<i.o, i.part>>}
    [] OTHER          -> EntryGives(h, i.e)

EntriesGive(h, s) == UNION {EntryGives(h, e) : e \in Members(s)}
ItemsGive(h, s) == UNION {ItemGives(h, i) : i \in Members(s)}

\* The tracer: the rest of its range and, of a dict, the table after it.
ScanGives == Heads(Seen(RangeOf(t.e), t.e.at, t.e.n))
TableGives == IF t.cont THEN Heads(Handles(H.table[t.e.o])) ELSE {}

TracerGives ==
  CASE t.st = "header" -> EntryGives(H, t.e)
    [] t.st = "scan"   -> ScanGives \cup TableGives
    [] OTHER           -> {}

\* The marker: the item it decodes, or the entry on its way to the stack.
Holding == m.st \in {"push", "spill", "record"}
DecodeGives == IF m.st = "decode" THEN ItemGives(H, m.item) ELSE {}
PushGives == IF Holding THEN EntryGives(H, m.push) ELSE {}

StackGives == EntriesGive(H, ring) \cup EntriesGive(H, stackMem)
                \cup EntriesGive(H, rescan) \cup PushGives

FlowGives == ItemsGive(H, queue) \cup ItemsGive(H, pending) \cup DecodeGives

RegRoots(from) == {H.reg[i] : i \in {j \in DOMAIN H.reg : j > from}}
MemRoots(from) == UNION {Handles(H.memroots[i]) : i \in {j \in DOMAIN H.memroots : j > from}}

RootsToCome ==
  CASE phase = "reg" -> Heads(RegRoots(rootIdx) \cup MemRoots(0) \cup Handles(H.frames))
    [] phase = "mem" -> Heads(MemRoots(t.rng) \cup IF t.rng <= Len(H.memroots)
                                                    THEN Handles(H.frames) ELSE {})
    [] OTHER -> {}

Owed == StackGives \cup FlowGives \cup TracerGives \cup RootsToCome

Known == Live(H) \cup H.pruned
-----------------------------------------------------------------------------
\* Entries lie within the range they are of.
GoodEntry(h) ==
  {e \in Entry : /\ e.k \in {"object", "range", "table"}
                 /\ e.at >= 1 /\ e.at + e.n - 1 <= Len(EntryRange(h, e))}

GoodItem(h) ==
  [t : {"handle"}, o : Obj] \cup [t : {"cont"}, e : GoodEntry(h)]
  \cup {i \in [t : {"raw"}, o : Obj, part : {"body", "table"}] : <<i.o, i.part>> \in Parts(i.o)}

\* The tracer's range is gone when the idle engine takes what an abandoned
\* collection left in the queue, and the stack may hold NoEntry.
StackEntry ==
  GoodEntry(H) \cup IF phase \in {"idle", "finish"} /\ t.st = "idle" THEN {NoEntry} ELSE {}

\* TypeOK needs the places of the tracer and the marker to be real places.
StackPlaces ==
  ring \in Seq(StackEntry) /\ stackMem \in Seq(StackEntry) /\ rescan \in Seq(StackEntry)

FlowPlaces == queue \in Seq(GoodItem(H)) /\ pending \in Seq(GoodItem(H))

MarkerPlaces ==
  /\ m.st = "decode" => m.item \in GoodItem(H)
  /\ Holding => m.push \in StackEntry
  /\ m.st = "readback" => rescan # <<>> /\ ring = <<>> /\ phase = "mark"

TracerPlaces ==
  /\ haveEnt => t.re \in StackEntry
  /\ t.st = "idle" => t = TracerIdle
  /\ t.st = "header" => t.e.k = "object" /\ t.re = t.e /\ ~t.cont /\ haveEnt /\ pending = <<>>
  /\ t.st = "memroot" => ~haveEnt
  /\ t.st = "scan" => /\ t.e.at >= 1 /\ t.e.at + t.e.n - 1 <= Len(RangeOf(t.e))
                      /\ haveEnt => t.e.k \in {"range", "table"}
                      /\ ~haveEnt => t.e.k \in {"roots", "frames"} /\ ~t.cont
                      /\ t.e.k = "roots" => t.rng \in 1..Len(H.memroots)

Places == StackPlaces /\ FlowPlaces /\ MarkerPlaces /\ TracerPlaces

\* Which states of core, tracer and marker go together.
Phases ==
  /\ m.st = "clear" <=> phase = "clear"
  /\ m.st = "preload" <=> phase = "preload"
  /\ phase \in {"idle", "clear", "preload", "reg"} => t.st = "idle"
  /\ phase \in {"clear", "preload"} => queue = <<>> /\ pending = <<>>
  /\ phase \in {"clear", "preload"} =>
       ring = <<>> /\ stackMem = <<>> /\ rescan = <<>> /\ ~rescDone
  /\ phase \in {"clear", "preload", "reg", "mem"} => ~haveEnt
  /\ phase \in {"clear", "preload"} => core = "roots" /\ rootIdx = 0
  /\ phase = "mem" => t.st \in {"memroot", "scan"}
  /\ phase \in {"mark", "sweep"} => t.st # "idle"
  /\ t.st = "memroot" => phase \in {"mem", "finish"}
  /\ t.st = "header" => MarkerFree /\ ~rescDone
  /\ m.st = "sweep" => phase = "sweep"
  /\ phase = "sweep" => m.st \in {"sweep", "done"}
  /\ phase = "finish" => m.st = "done"
  /\ m.st = "done" => phase \in {"mark", "sweep", "finish"}
  /\ m.st \in {"refill", "readback"} => phase = "mark"
  /\ m.st \in {"refill", "readback", "sweep"} => /\ queue = <<>> /\ pending = <<>>
                                                 /\ t.st = "pop"
  /\ m.st = "sweep" => ring = <<>> /\ stackMem = <<>> /\ rescan = <<>>

\* The bitmap before a collection has marked anything: erased as far as
\* clearWord, the words of the static image excepted, which the preload sets.
Erased ==
  /\ ~clean => phase \in {"idle", "clear"} \/ m.st = "done"
  /\ clean => phase # "clear"
  /\ phase \in {"idle", "clear"} /\ ~clean =>
       \A p \in marked : WordOf[p[1]] < clearWord => WordOf[p[1]] \in StaticWords
  /\ phase \in {"idle", "preload"} /\ clean => \A p \in marked : WordOf[p[1]] \in StaticWords
  /\ phase = "idle" /\ ~MarkerFree =>
       \A w \in 0..(WORDS - 1) : (clean \/ w < clearWord) => w \in StaticWords
  /\ m.st = "done" /\ clean =>
       marked = {} /\ queue = <<>> /\ pending = <<>> /\ t.st = "pop"
  /\ m.st = "done" /\ ~clean => clearWord = 0

Collecting == phase \in {"reg", "mem", "mark", "sweep"} /\ m.st # "done"

Room == lim.onchip + lim.mem
Used == Len(ring) + Len(stackMem) + IF m.st \in {"push", "spill"} THEN 1 ELSE 0
Free == Room - Used
Decoding == IF m.st = "decode" THEN 1 ELSE 0

\* A handle the tracer found is in the range it would record, or there is room
\* on the stack for it and for all that is before it.
FitsOrRecorded(h, re, i, place, free) ==
  i.t = "handle" => Heads({i.o}) \subseteq EntryGives(h, re) \/ place <= free

\* The item in the marker, if any (d is 1), then the queue, then the pending buffer.
AllFit(h, re, item, d, q, p, free) ==
  /\ d = 1 => FitsOrRecorded(h, re, item, 1, free)
  /\ \A i \in DOMAIN q : FitsOrRecorded(h, re, q[i], d + i, free)
  /\ \A i \in DOMAIN p : FitsOrRecorded(h, re, p[i], d + Len(q) + i, free)

\* What a marked object needs, and every root, is marked or owed, and nothing
\* else is.
Paid ==
  Collecting =>
    /\ \A o \in Obj : <<o, "head">> \in marked => Needs(H, o) \subseteq marked \cup Owed
    /\ Heads(Roots(H)) \subseteq marked \cup Owed
    /\ marked \cup Owed \subseteq AllParts(Known)

\* The range the tracer would record covers what it reads and, once recorded, is
\* on its way to the stack.
Recordable ==
  Collecting =>
    /\ haveEnt => EntryGives(H, t.re) \subseteq AllParts(Known)
    /\ haveEnt /\ t.st = "scan" => ScanGives \subseteq EntryGives(H, t.re)
    /\ rescDone => haveEnt /\ EntryGives(H, t.re) \subseteq StackGives

Fits ==
  Collecting /\ haveEnt => AllFit(H, t.re, m.item, Decoding, queue, pending, Free)

Account == Paid /\ Recordable /\ Fits

\* No mark of garbage survives in the bitmap, the tracer of an abandoned
\* collection included, which may still go from the root ranges to marking.
Retained ==
  phase \in {"reg", "mem", "mark", "sweep"} \/ (phase = "finish" /\ t.st # "idle") =>
    marked \subseteq AllParts(Known)

Inv == TypeOK /\ Places /\ Phases /\ Erased /\ Account /\ Retained
-----------------------------------------------------------------------------
(* Sequences and the sets of their members *)

LEMMA MembersLonger ==
  ASSUME NEW n \in Nat, NEW f, NEW g, DOMAIN f = 1..n, DOMAIN g = 1..(n + 1),
         \A i \in 1..n : g[i] = f[i]
  PROVE  Members(g) = Members(f) \cup {g[n + 1]}
<1>1. \A i \in 1..(n + 1) : i \in 1..n \/ i = n + 1
  OBVIOUS
<1>2. QED
  BY <1>1 DEF Members

LEMMA MembersShifted ==
  ASSUME NEW n \in Nat, NEW f, NEW g, DOMAIN f = 1..n, DOMAIN g = 1..(n + 1),
         \A i \in 1..n : f[i] = g[i + 1]
  PROVE  Members(g) = {g[1]} \cup Members(f)
<1>1. \A i \in 1..(n + 1) : i = 1 \/ (i - 1 \in 1..n /\ f[i - 1] = g[i])
  OBVIOUS
<1>2. \A i \in 1..(n + 1) : g[i] \in {g[1]} \cup {f[j] : j \in 1..n}
  BY <1>1
<1>3. \A x \in Members(f) : x \in Members(g)
  BY DEF Members
<1>4. 1 \in 1..(n + 1)
  OBVIOUS
<1>5. QED
  BY <1>2, <1>3, <1>4 DEF Members

LEMMA MembersAppend ==
  ASSUME NEW S, NEW s \in Seq(S), NEW x \in S
  PROVE  /\ Append(s, x) \in Seq(S) /\ Len(Append(s, x)) = Len(s) + 1
         /\ Members(Append(s, x)) = Members(s) \cup {x}
<1> DEFINE y == Append(s, x)
<1>1. /\ y \in Seq(S) /\ Len(y) = Len(s) + 1
      /\ \A i \in 1..Len(s) : y[i] = s[i]
      /\ y[Len(s) + 1] = x
  BY AppendProperties
<1> HIDE DEF y
<1>2. DOMAIN s = 1..Len(s) /\ Len(s) \in Nat /\ DOMAIN y = 1..(Len(s) + 1)
  BY <1>1, LenProperties
<1>3. Members(y) = Members(s) \cup {x}
  BY <1>1, <1>2, MembersLonger
<1>4. QED
  BY <1>1, <1>3 DEF y

LEMMA MembersHead ==
  ASSUME NEW S, NEW s \in Seq(S), s # <<>>
  PROVE  /\ Head(s) \in S /\ Tail(s) \in Seq(S) /\ Len(Tail(s)) = Len(s) - 1
         /\ \A i \in 1..Len(Tail(s)) : Tail(s)[i] = s[i + 1]
         /\ Members(s) = {Head(s)} \cup Members(Tail(s))
<1> DEFINE y == Tail(s)
<1>1. Len(s) \in Nat \ {0} /\ Head(s) = s[1] /\ DOMAIN s = 1..Len(s)
  OBVIOUS
<1>2. /\ Head(s) \in S /\ y \in Seq(S) /\ Len(y) = Len(s) - 1
      /\ \A i \in 1..Len(y) : y[i] = s[i + 1]
      /\ DOMAIN y = 1..(Len(s) - 1)
  BY HeadTailProperties
<1> HIDE DEF y
<1> DEFINE n == Len(s) - 1
<1>3. n \in Nat /\ Len(s) = n + 1
  BY <1>1
<1> HIDE DEF n
<1>4. Members(s) = {s[1]} \cup Members(y)
  <2>1. DOMAIN s = 1..(n + 1) /\ DOMAIN y = 1..n /\ \A i \in 1..n : y[i] = s[i + 1]
    BY <1>1, <1>2, <1>3
  <2>2. QED
    BY <1>3, <2>1, MembersShifted
<1>5. QED
  BY <1>1, <1>2, <1>4 DEF y

LEMMA MembersLast ==
  ASSUME NEW S, NEW s \in Seq(S), s # <<>>
  PROVE  LET front == SubSeq(s, 1, Len(s) - 1) IN
         /\ s[Len(s)] \in S /\ front \in Seq(S) /\ Len(front) = Len(s) - 1
         /\ Members(s) = {s[Len(s)]} \cup Members(front)
<1>1. Len(s) \in Nat \ {0} /\ DOMAIN s = 1..Len(s)
  OBVIOUS
<1> DEFINE front == SubSeq(s, 1, Len(s) - 1)
<1>2. /\ front \in Seq(S) /\ Len(front) = Len(s) - 1
      /\ \A i \in 1..(Len(s) - 1) : front[i] = s[i]
      /\ DOMAIN front = 1..(Len(s) - 1)
  BY <1>1, SubSeqProperties
<1>3. s[Len(s)] \in S
  BY <1>1
<1> HIDE DEF front
<1>4. Members(s) = {s[Len(s)]} \cup Members(front)
  BY <1>1, <1>2 DEF Members
<1>5. QED
  BY <1>2, <1>3, <1>4 DEF front

LEMMA MembersConcat ==
  ASSUME NEW S, NEW s \in Seq(S), NEW u \in Seq(S)
  PROVE  /\ s \o u \in Seq(S) /\ Len(s \o u) = Len(s) + Len(u)
         /\ Members(s \o u) = Members(s) \cup Members(u)
<1>1. /\ s \o u \in Seq(S) /\ Len(s \o u) = Len(s) + Len(u)
      /\ \A i \in 1..(Len(s) + Len(u)) :
           (s \o u)[i] = IF i <= Len(s) THEN s[i] ELSE u[i - Len(s)]
  BY ConcatProperties
<1>2. /\ DOMAIN s = 1..Len(s) /\ DOMAIN u = 1..Len(u) /\ Len(s) \in Nat /\ Len(u) \in Nat
      /\ DOMAIN (s \o u) = 1..(Len(s) + Len(u))
  BY <1>1, LenProperties
<1>3. \A j \in 1..Len(u) : Len(s) + j \in 1..(Len(s) + Len(u)) /\ (s \o u)[Len(s) + j] = u[j]
  BY <1>1, <1>2
<1>4. \A i \in 1..Len(s) : i \in 1..(Len(s) + Len(u)) /\ (s \o u)[i] = s[i]
  BY <1>1, <1>2
<1>5. \A i \in 1..(Len(s) + Len(u)) : i \in 1..Len(s) \/ i - Len(s) \in 1..Len(u)
  BY <1>2
<1>6. \A x \in Members(s \o u) : x \in Members(s) \cup Members(u)
  BY <1>1, <1>2, <1>5 DEF Members
<1>7. \A x \in Members(s) \cup Members(u) : x \in Members(s \o u)
  BY <1>2, <1>3, <1>4 DEF Members
<1>8. QED
  BY <1>1, <1>6, <1>7

LEMMA MembersOne ==
  ASSUME NEW S, NEW x \in S
  PROVE  <<x>> \in Seq(S) /\ Len(<<x>>) = 1 /\ Members(<<x>>) = {x}
<1>1. Members(<<x>>) = {x}
  BY DEF Members
<1>2. <<x>> \in Seq(S) /\ Len(<<x>>) = 1
  OBVIOUS
<1>3. QED
  BY <1>1, <1>2

LEMMA MembersNone == Members(<<>>) = {}
BY DEF Members
-----------------------------------------------------------------------------
(* What the constants say of the heap of a collection *)

LEMMA Sizes ==
  /\ SCAN_CHUNK \in Nat \ {0} /\ SPILL_BATCH \in Nat \ {0} /\ QUEUE \in Nat \ {0}
  /\ WORDS \in Nat \ {0} /\ WordOf \in [Obj -> 0..(WORDS - 1)] /\ Obj # {}
  /\ Static \subseteq Obj
BY GcAssumption

LEMMA LimitTypes ==
  ASSUME lim \in Limits
  PROVE  lim.onchip \in Nat \ {0} /\ lim.mem \in Nat \ {0} /\ lim.resc \in Nat \ {0}
BY GcAssumption

LEMMA SlotFacts ==
  /\ \A x \in Slots : x \in Seq(Obj) /\ Len(x) <= 2 /\ Len(x) <= 3
  /\ \A x \in Frames : x \in Seq(Obj) /\ Len(x) <= 3
<1>1. ASSUME NEW n \in Nat, NEW x \in [1..n -> Obj]
      PROVE  x \in Seq(Obj) /\ Len(x) = n
  OBVIOUS
<1>2. ASSUME NEW x \in Slots PROVE x \in Seq(Obj) /\ Len(x) <= 2 /\ Len(x) <= 3
  <2>1. PICK n \in 0..2 : x \in [1..n -> Obj]
    BY DEF Slots
  <2>2. QED
    BY <1>1, <2>1
<1>3. ASSUME NEW x \in Frames PROVE x \in Seq(Obj) /\ Len(x) <= 3
  <2>1. PICK n \in 0..3 : x \in [1..n -> Obj]
    BY DEF Frames
  <2>2. QED
    BY <1>1, <2>1
<1>4. QED
  BY <1>2, <1>3

\* The facts of one heap.
HeapOK(h) ==
  /\ h.slots \in [Obj -> Seq(Slots)] /\ h.table \in [Obj -> Seq(Slots)]
  /\ h.reg \in Seq(Obj) /\ h.frames \in Seq(Frames)
  /\ h.memroots \in Seq(Seq(Slots))
  /\ h.pruned \subseteq Static /\ Closed(h, h.pruned)
  /\ \A o \in Obj :
       /\ Kind[o] \in {"tuple", "list", "dict", "obj", "leaf"}
       /\ Kind[o] # "dict" => h.table[o] = <<>>
       /\ Kind[o] = "leaf" => h.slots[o] = <<>>

LEMMA HeapFacts ==
  ASSUME heap \in DOMAIN Heaps
  PROVE  HeapOK(H)
<1>1. ASSUME NEW h \in {Heaps[i] : i \in DOMAIN Heaps}
      PROVE  HeapOK(h)
  BY GcAssumption DEF HeapOK
<1>2. H \in {Heaps[i] : i \in DOMAIN Heaps}
  BY DEF H
<1>3. QED
  BY <1>1, <1>2

LEMMA HandlesAreObjects ==
  /\ \A range \in Seq(Slots) : Handles(range) \subseteq Obj
  /\ \A range \in Seq(Frames) : Handles(range) \subseteq Obj
<1>1. ASSUME NEW range \in Seq(Slots) PROVE Handles(range) \subseteq Obj
  <2>1. \A i \in DOMAIN range : range[i] \in Slots
    OBVIOUS
  <2>2. \A i \in DOMAIN range : \A j \in DOMAIN range[i] : range[i][j] \in Obj
    BY <2>1, SlotFacts
  <2>3. QED
    BY <2>2 DEF Handles
<1>2. ASSUME NEW range \in Seq(Frames) PROVE Handles(range) \subseteq Obj
  <2>1. \A i \in DOMAIN range : range[i] \in Frames
    OBVIOUS
  <2>2. \A i \in DOMAIN range : \A j \in DOMAIN range[i] : range[i][j] \in Obj
    BY <2>1, SlotFacts
  <2>3. QED
    BY <2>2 DEF Handles
<1>3. QED
  BY <1>1, <1>2

\* A whole range is seen from its first slot; a range is its first slot and the
\* rest, or a first chunk and the rest.
LEMMA SeenWhole ==
  ASSUME NEW range, NEW n \in Nat, DOMAIN range = 1..n, Handles(range) \subseteq Obj
  PROVE  Seen(range, 1, n) = Handles(range)
<1>1. 1..(1 + n - 1) = 1..n
  OBVIOUS
<1>2. QED
  BY <1>1 DEF Seen, Handles

LEMMA SeenNone ==
  ASSUME NEW range, NEW at \in Nat
  PROVE  Seen(range, at, 0) = {}
BY DEF Seen

LEMMA SeenFirst ==
  ASSUME NEW range, NEW at \in Nat, NEW n \in Nat, n > 0, range[at] \in Seq(Obj)
  PROVE  Seen(range, at, n) = Members(range[at]) \cup Seen(range, at + 1, n - 1)
<1>1. \A i \in at..(at + n - 1) : i = at \/ i \in (at + 1)..(at + 1 + (n - 1) - 1)
  OBVIOUS
<1>2. /\ at \in at..(at + n - 1)
      /\ \A i \in (at + 1)..(at + 1 + (n - 1) - 1) : i \in at..(at + n - 1)
  OBVIOUS
<1>3. \A j \in DOMAIN range[at] : range[at][j] \in Obj
  OBVIOUS
<1>4. QED
  BY <1>1, <1>2, <1>3 DEF Seen, Members

LEMMA SeenSplit ==
  ASSUME NEW range, NEW at \in Nat, NEW n \in Nat, NEW k \in Nat, k <= n
  PROVE  Seen(range, at, n) = Seen(range, at, k) \cup Seen(range, at + k, n - k)
<1>1. \A i : i \in at..(at + n - 1) <=> \/ i \in at..(at + k - 1)
                                         \/ i \in (at + k)..(at + k + (n - k) - 1)
  OBVIOUS
<1>2. QED
  BY <1>1 DEF Seen

LEMMA NoEntryIsEntry == NoEntry \in Entry
<1>1. (CHOOSE o \in Obj : TRUE) \in Obj
  BY Sizes
<1>2. QED
  BY <1>1 DEF NoEntry, RangeEntry, Entry

LEMMA ObjectEntryIsGood ==
  ASSUME heap \in DOMAIN Heaps, NEW o \in Obj
  PROVE  /\ ObjectEntry(o) \in GoodEntry(H)
         /\ EntryGives(H, ObjectEntry(o)) = Needs(H, o)
<1>1. /\ ObjectEntry(o) \in Entry /\ ObjectEntry(o).k = "object" /\ ObjectEntry(o).at = 1
      /\ ObjectEntry(o).n = 0 /\ ObjectEntry(o).o = o
  BY DEF ObjectEntry, Entry
<1>2. Len(EntryRange(H, ObjectEntry(o))) \in Nat
  BY <1>1, HeapFacts DEF EntryRange, RangeAt, HeapOK
<1>3. QED
  BY <1>1, <1>2 DEF GoodEntry, EntryGives

LEMMA RangeEntryIsGood ==
  ASSUME heap \in DOMAIN Heaps, NEW o \in Obj, NEW k \in {"range", "table"},
         NEW at \in Nat, NEW n \in Nat, at >= 1,
         at + n - 1 <= Len(RangeAt(H, k, o))
  PROVE  /\ RangeEntry(k, o, at, n) \in GoodEntry(H)
         /\ EntryGives(H, RangeEntry(k, o, at, n)) =
              Heads(Seen(RangeAt(H, k, o), at, n))
<1> DEFINE e == RangeEntry(k, o, at, n)
<1>1. e \in Entry /\ e.k = k /\ e.o = o /\ e.at = at /\ e.n = n
  BY DEF RangeEntry, Entry
<1>2. EntryRange(H, e) = RangeAt(H, k, o)
  BY <1>1 DEF EntryRange
<1> HIDE DEF e
<1>3. e \in GoodEntry(H)
  BY <1>1, <1>2 DEF GoodEntry
<1>4. EntryGives(H, e) = Heads(Seen(EntryRange(H, e), at, n))
  BY <1>1 DEF EntryGives
<1>5. QED
  BY <1>2, <1>3, <1>4 DEF e

\* What M_DEC pushes for an object gives all it needs.
LEMMA EntryOfIsGood ==
  ASSUME heap \in DOMAIN Heaps, NEW o \in Obj, Pushable(o)
  PROVE  EntryOf(o) \in GoodEntry(H) /\ EntryGives(H, EntryOf(o)) = Needs(H, o)
<1>1. CASE Kind[o] # "tuple"
  BY <1>1, ObjectEntryIsGood DEF EntryOf
<1>2. CASE Kind[o] = "tuple"
  <2> DEFINE n == Len(H.slots[o])
  <2>1. H.slots[o] \in Seq(Slots) /\ H.table[o] = <<>> /\ n \in Nat
    BY <1>2, HeapFacts DEF HeapOK
  <2>2. EntryOf(o) = RangeEntry("range", o, 1, n)
    BY <1>2 DEF EntryOf
  <2>3. /\ RangeEntry("range", o, 1, n) \in GoodEntry(H)
        /\ EntryGives(H, RangeEntry("range", o, 1, n)) = Heads(Seen(H.slots[o], 1, n))
    <3> HIDE DEF n
    <3>1. 1 + n - 1 <= n
      BY <2>1
    <3>2. RangeAt(H, "range", o) = H.slots[o] /\ n = Len(RangeAt(H, "range", o))
      BY DEF n, RangeAt
    <3>3. QED
      BY <2>1, <3>1, <3>2, RangeEntryIsGood
  <2>4. Seen(H.slots[o], 1, n) = Handles(H.slots[o])
    BY <2>1, SeenWhole, HandlesAreObjects
  <2>5. Handles(H.table[o]) = {}
    BY <2>1 DEF Handles
  <2>6. Parts(o) \ Heads({o}) = {}
    BY <1>2 DEF Parts, Heads
  <2>7. Needs(H, o) = Heads(Handles(H.slots[o]))
    BY <2>5, <2>6 DEF Needs, Children
  <2>8. QED
    BY <2>2, <2>3, <2>4, <2>7
<1>3. QED
  BY <1>1, <1>2

LEMMA ChunkFacts ==
  ASSUME NEW n \in Nat
  PROVE  Chunk(n) \in Nat /\ Chunk(n) <= n
BY Sizes DEF Chunk

\* A range is the chunk scanned now and the continuation queued for the rest.
LEMMA RestFacts ==
  ASSUME heap \in DOMAIN Heaps, NEW o \in Obj, NEW k \in {"range", "table"},
         NEW at \in Nat, NEW n \in Nat, at >= 1,
         at + n - 1 <= Len(RangeAt(H, k, o))
  PROVE  LET range == RangeAt(H, k, o)
             rest == Rest(k, o, at, n)
         IN /\ rest \in Seq(GoodItem(H)) /\ Len(rest) <= 1
            /\ n <= SCAN_CHUNK => rest = <<>>
            /\ \A i \in Members(rest) : i.t = "cont"
            /\ RangeEntry(k, o, at, Chunk(n)) \in GoodEntry(H)
            /\ EntryGives(H, RangeEntry(k, o, at, Chunk(n))) = Heads(Seen(range, at, Chunk(n)))
            /\ Heads(Seen(range, at, n)) =
                 Heads(Seen(range, at, Chunk(n))) \cup ItemsGive(H, rest)
<1> DEFINE range == RangeAt(H, k, o)
           rest == Rest(k, o, at, n)
<1>1. Len(range) \in Nat
  BY HeapFacts DEF HeapOK
<1>2. Chunk(n) \in Nat /\ Chunk(n) <= n /\ at + Chunk(n) - 1 <= Len(range)
  <2>1. Chunk(n) \in Nat /\ Chunk(n) <= n
    BY ChunkFacts
  <2>2. at + n - 1 <= Len(range)
    OBVIOUS
  <2> HIDE DEF range
  <2>3. QED
    BY <1>1, <2>1, <2>2
<1>3. /\ RangeEntry(k, o, at, Chunk(n)) \in GoodEntry(H)
      /\ EntryGives(H, RangeEntry(k, o, at, Chunk(n))) = Heads(Seen(range, at, Chunk(n)))
  <2> DEFINE c == Chunk(n)
  <2>1. c \in Nat /\ at + c - 1 <= Len(range)
    BY <1>2
  <2> HIDE DEF c
  <2>2. RangeEntry(k, o, at, c) \in GoodEntry(H)
    BY <2>1, RangeEntryIsGood
  <2>3. EntryGives(H, RangeEntry(k, o, at, c)) = Heads(Seen(range, at, c))
    BY <2>1, RangeEntryIsGood
  <2>4. QED
    BY <2>2, <2>3 DEF c
<1>4. CASE n <= SCAN_CHUNK
  <2>1. rest = <<>> /\ Chunk(n) = n
    BY <1>4, Sizes DEF Rest, Chunk
  <2>2. ItemsGive(H, rest) = {}
    BY <2>1, MembersNone DEF ItemsGive
  <2>3. \A i \in Members(rest) : i.t = "cont"
    BY <2>1, MembersNone
  <2>4. rest \in Seq(GoodItem(H)) /\ Len(rest) <= 1
    BY <2>1
  <2>5. QED
    BY <1>3, <2>1, <2>2, <2>3, <2>4
<1>5. CASE n > SCAN_CHUNK
  <2> DEFINE e == RangeEntry(k, o, at + SCAN_CHUNK, n - SCAN_CHUNK)
  <2>1. rest = <<Cont(e)>> /\ Chunk(n) = SCAN_CHUNK
    BY <1>5, Sizes DEF Rest, Chunk
  <2>2. /\ at + SCAN_CHUNK \in Nat /\ at + SCAN_CHUNK >= 1 /\ n - SCAN_CHUNK \in Nat
        /\ at + SCAN_CHUNK + (n - SCAN_CHUNK) - 1 <= Len(range)
    BY <1>1, <1>5, Sizes
  <2>3. e \in GoodEntry(H) /\ EntryGives(H, e) = Heads(Seen(range, at + SCAN_CHUNK, n - SCAN_CHUNK))
    <3> DEFINE a == at + SCAN_CHUNK
               l == n - SCAN_CHUNK
    <3>1. a \in Nat /\ l \in Nat /\ a >= 1 /\ a + l - 1 <= Len(range)
      BY <2>2
    <3> HIDE DEF a, l
    <3>2. RangeEntry(k, o, a, l) \in GoodEntry(H)
      BY <3>1, RangeEntryIsGood
    <3>3. EntryGives(H, RangeEntry(k, o, a, l)) = Heads(Seen(range, a, l))
      BY <3>1, RangeEntryIsGood
    <3>4. QED
      BY <3>2, <3>3 DEF a, l
  <2> HIDE DEF e
  <2>4. /\ Cont(e) \in GoodItem(H) /\ Cont(e).t = "cont"
        /\ ItemGives(H, Cont(e)) = EntryGives(H, e)
    BY <2>3 DEF Cont, GoodItem, ItemGives
  <2>5. rest \in Seq(GoodItem(H)) /\ Len(rest) = 1 /\ Members(rest) = {Cont(e)}
    BY <2>1, <2>4, MembersOne
  <2>6. ItemsGive(H, rest) = EntryGives(H, e)
    BY <2>4, <2>5 DEF ItemsGive
  <2>7. Seen(range, at, n) = Seen(range, at, SCAN_CHUNK)
                               \cup Seen(range, at + SCAN_CHUNK, n - SCAN_CHUNK)
    <3>1. SCAN_CHUNK \in Nat /\ SCAN_CHUNK <= n
      BY <1>5, Sizes
    <3> HIDE DEF range
    <3>2. QED
      BY <3>1, SeenSplit
  <2>8. Heads(Seen(range, at, n)) = Heads(Seen(range, at, Chunk(n))) \cup ItemsGive(H, rest)
    BY <2>1, <2>3, <2>6, <2>7 DEF Heads
  <2>9. ~(n <= SCAN_CHUNK)
    BY <1>5, Sizes
  <2>10. /\ Len(rest) <= 1 /\ \A i \in Members(rest) : i.t = "cont"
    BY <2>4, <2>5
  <2>11. QED
    BY <1>3, <2>5, <2>8, <2>9, <2>10
<1>6. QED
  BY <1>4, <1>5, Sizes

LEMMA HandlesOfFacts ==
  ASSUME NEW x \in Seq(Obj)
  PROVE  /\ HandlesOf(x) \in Seq(GoodItem(H)) /\ Len(HandlesOf(x)) = Len(x)
         /\ \A i \in Members(HandlesOf(x)) : i.t = "handle" /\ i.o \in Members(x)
         /\ ItemsGive(H, HandlesOf(x)) = Heads(Members(x))
<1> DEFINE y == HandlesOf(x)
<1>1. \A o \in Obj : /\ Handle(o) \in GoodItem(H) /\ Handle(o).t = "handle" /\ Handle(o).o = o
                     /\ ItemGives(H, Handle(o)) = Heads({o})
  BY DEF Handle, GoodItem, ItemGives
<1>2. /\ DOMAIN x = 1..Len(x) /\ Len(x) \in Nat /\ \A i \in 1..Len(x) : x[i] \in Obj
      /\ y = [i \in 1..Len(x) |-> Handle(x[i])]
  BY DEF HandlesOf
<1>3. y \in [1..Len(x) -> GoodItem(H)]
  BY <1>1, <1>2
<1>4. y \in Seq(GoodItem(H)) /\ Len(y) = Len(x)
  BY <1>2, <1>3
<1>5. Members(y) = {Handle(o) : o \in Members(x)}
  BY <1>2 DEF Members
<1>6. Members(x) \subseteq Obj
  BY <1>2 DEF Members
<1> HIDE DEF y
<1>7. \A i \in Members(y) : i.t = "handle" /\ i.o \in Members(x)
  BY <1>1, <1>5, <1>6
<1>8. ItemsGive(H, y) = UNION {Heads({o}) : o \in Members(x)}
  <2>1. \A o \in Members(x) : ItemGives(H, Handle(o)) = Heads({o})
    BY <1>1, <1>6
  <2>2. UNION {ItemGives(H, i) : i \in {Handle(o) : o \in Members(x)}}
          = UNION {Heads({o}) : o \in Members(x)}
    BY <2>1
  <2>3. QED
    BY <1>5, <2>2 DEF ItemsGive
<1>9. UNION {Heads({o}) : o \in Members(x)} = Heads(Members(x))
  BY DEF Heads
<1>10. QED
  BY <1>4, <1>7, <1>8, <1>9 DEF y

LEMMA ItemCases ==
  ASSUME NEW h, NEW i \in GoodItem(h)
  PROVE  \/ i.t = "handle" /\ i.o \in Obj
         \/ i.t = "raw" /\ i.o \in Obj /\ <<i.o, i.part>> \in Parts(i.o)
         \/ i.t = "cont" /\ i.e \in GoodEntry(h)
BY DEF GoodItem
-----------------------------------------------------------------------------
(* The states of core, tracer and marker *)

LEMMA PhasesInit == Init => Phases
BY DEF Init, Phases, MarkerIdle, TracerIdle

LEMMA PhasesStep == Inv /\ [Next]_vars => Phases'
<1> SUFFICES ASSUME Inv, [Next]_vars PROVE Phases'
  OBVIOUS
<1> USE DEF Inv, Phases, TypeOK, TracerType, MarkerType, MarkerFree
<1>1. CASE Start
  BY <1>1 DEF Start, stackVars, clearVars, Erased
<1>2. CASE StreamRoot
  BY <1>2 DEF StreamRoot, stackVars, clearVars
<1>3. CASE RootsDone
  BY <1>3 DEF RootsDone, stackVars, clearVars
<1>4. CASE Resume
  BY <1>4 DEF Resume, stackVars, clearVars
<1>5. CASE MemRoot
  BY <1>5 DEF MemRoot, tracerKeeps, coreVars, stackVars, clearVars, Places, TracerPlaces
<1>6. CASE ScanElement
  BY <1>6 DEF ScanElement, tracerKeeps, coreVars, stackVars, clearVars
<1>7. CASE StartTable
  BY <1>7 DEF StartTable, tracerKeeps, coreVars, stackVars, clearVars
<1>8. CASE ScanEnd
  BY <1>8 DEF ScanEnd, tracerKeeps, coreVars, stackVars, clearVars
<1>9. CASE Header
  BY <1>9 DEF Header, tracerKeeps, coreVars, stackVars, clearVars, Places, TracerPlaces
<1>10. CASE Drain
  BY <1>10 DEF Drain, coreVars, stackVars, clearVars
<1>11. CASE Take
  BY <1>11 DEF Take, markerKeeps, coreVars, stackVars, clearVars
<1>12. CASE DecodeContinuation
  BY <1>12 DEF DecodeContinuation, decodeKeeps, markerKeeps, coreVars, stackVars, clearVars
<1>13. CASE DecodeRaw
  BY <1>13 DEF DecodeRaw, decodeKeeps, markerKeeps, coreVars, stackVars, clearVars
<1>14. CASE DecodeHandle
  BY <1>14 DEF DecodeHandle, LeaveChild, decodeKeeps, markerKeeps, coreVars, stackVars, clearVars
<1>15. CASE Push
  BY <1>15 DEF Push, stackKeeps, markerKeeps, coreVars, clearVars
<1>16. CASE Spill
  BY <1>16 DEF Spill, stackKeeps, markerKeeps, coreVars, clearVars
<1>17. CASE Refill
  BY <1>17 DEF Refill, stackKeeps, markerKeeps, coreVars, clearVars
<1>18. CASE Record
  BY <1>18 DEF Record, stackKeeps, markerKeeps, coreVars, clearVars
<1>19. CASE ReadBack
  BY <1>19 DEF ReadBack, stackKeeps, markerKeeps, coreVars, clearVars
<1>20. CASE Pop
  BY <1>20 DEF Pop, PopReady, Scan, coreVars, clearVars
<1>21. CASE NextWork
  BY <1>21 DEF NextWork, PopReady, markerKeeps, coreVars, stackVars, clearVars
<1>22. CASE Preload
  BY <1>22 DEF Preload, markerKeeps, coreVars, stackVars, clearVars
<1>23. CASE Sweep
  BY <1>23 DEF Sweep, markerKeeps, coreVars, stackVars, clearVars
<1>24. CASE Abandon
  BY <1>24 DEF Abandon, coreVars, stackVars
<1>25. CASE Finish
  BY <1>25 DEF Finish, MarkerIdle, TracerIdle, stackVars, clearVars, coreVars
<1>26. CASE ClearWord
  BY <1>26 DEF ClearWord, coreVars, stackVars, Erased
<1>27. CASE UNCHANGED vars
  BY <1>27 DEF vars, coreVars, stackVars, clearVars
<1>28. QED
  BY <1>1, <1>2, <1>3, <1>4, <1>5, <1>6, <1>7, <1>8, <1>9, <1>10, <1>11, <1>12, <1>13,
     <1>14, <1>15, <1>16, <1>17, <1>18, <1>19, <1>20, <1>21, <1>22, <1>23, <1>24, <1>25,
     <1>26, <1>27
     DEF Next, Core, Tracer, Marker

LEMMA WordFacts ==
  \A p \in AllParts(Obj) : p[1] \in Obj /\ WordOf[p[1]] \in 0..(WORDS - 1)
<1>1. \A o \in Obj : \A p \in Parts(o) : p[1] = o
  BY DEF Parts
<1>2. QED
  BY <1>1, Sizes DEF AllParts

\* The bitmap of an engine that is not collecting.
LEMMA ErasedInit == Init => Erased
BY WordFacts, Sizes DEF Init, Erased, MarkerFree, MarkerIdle, TracerIdle

LEMMA ErasedStep == Inv /\ [Next]_vars => Erased'
<1> SUFFICES ASSUME Inv, [Next]_vars PROVE Erased'
  OBVIOUS
<1>0. /\ clearWord \in 0..(WORDS - 1) /\ clean \in BOOLEAN
      /\ \A p \in marked : p[1] \in Obj /\ WordOf[p[1]] \in 0..(WORDS - 1)
      /\ m.st = "decode" /\ m.item.t \in {"handle", "raw"} => m.item.o \in Obj
  <2>1. m.st = "decode" => m.item \in GoodItem(H)
    BY DEF Inv, Places, MarkerPlaces
  <2>2. m.st = "decode" /\ m.item.t \in {"handle", "raw"} => m.item.o \in Obj
    BY <2>1, ItemCases
  <2>3. QED
    BY <2>2, WordFacts DEF Inv, TypeOK
<1> USE Sizes DEF Inv, Phases, Erased, TypeOK, TracerType, MarkerType, MarkerFree
<1>1. CASE Start
  BY <1>1 DEF Start, MarkerFree, stackVars, clearVars
<1>2. CASE StreamRoot
  BY <1>2 DEF StreamRoot, stackVars, clearVars
<1>3. CASE RootsDone
  BY <1>3 DEF RootsDone, stackVars, clearVars
<1>4. CASE Resume
  BY <1>4 DEF Resume, stackVars, clearVars
<1>5. CASE MemRoot
  BY <1>5 DEF MemRoot, tracerKeeps, coreVars, stackVars, clearVars
<1>6. CASE ScanElement
  BY <1>6 DEF ScanElement, tracerKeeps, coreVars, stackVars, clearVars
<1>7. CASE StartTable
  BY <1>7 DEF StartTable, tracerKeeps, coreVars, stackVars, clearVars
<1>8. CASE ScanEnd
  BY <1>8 DEF ScanEnd, tracerKeeps, coreVars, stackVars, clearVars
<1>9. CASE Header
  BY <1>9 DEF Header, tracerKeeps, coreVars, stackVars, clearVars
<1>10. CASE Drain
  BY <1>10 DEF Drain, coreVars, stackVars, clearVars
<1>11. CASE Take
  BY <1>11 DEF Take, markerKeeps, coreVars, stackVars, clearVars
<1>12. CASE DecodeContinuation
  BY <1>12 DEF DecodeContinuation, decodeKeeps, markerKeeps, coreVars, stackVars, clearVars
<1>13. CASE DecodeRaw
  BY <1>13, <1>0 DEF DecodeRaw, decodeKeeps, markerKeeps, coreVars, stackVars, clearVars
<1>14. CASE DecodeHandle
  <2>1. marked' \subseteq marked \cup Heads({m.item.o}) /\ m.item.o \in Obj
    BY <1>14, <1>0 DEF DecodeHandle, Heads, decodeKeeps
  <2>2. m'.st \in {"idle", "record", "push"}
    BY <1>14 DEF DecodeHandle
  <2>3. \A p \in marked' : p[1] \in Obj /\ (p \in marked \/ p[1] = m.item.o)
    BY <1>0, <2>1 DEF Heads
  <2>4. UNCHANGED <<phase, t, queue, pending, clean, clearWord>>
    BY <1>14 DEF DecodeHandle, decodeKeeps, markerKeeps, clearVars
  <2>5. QED
    BY <1>14, <1>0, <2>1, <2>2, <2>3, <2>4 DEF DecodeHandle
<1>15. CASE Push
  BY <1>15 DEF Push, stackKeeps, markerKeeps, coreVars, clearVars
<1>16. CASE Spill
  BY <1>16 DEF Spill, stackKeeps, markerKeeps, coreVars, clearVars
<1>17. CASE Refill
  BY <1>17 DEF Refill, stackKeeps, markerKeeps, coreVars, clearVars
<1>18. CASE Record
  BY <1>18 DEF Record, stackKeeps, markerKeeps, coreVars, clearVars
<1>19. CASE ReadBack
  BY <1>19 DEF ReadBack, stackKeeps, markerKeeps, coreVars, clearVars
<1>20. CASE Pop
  BY <1>20 DEF Pop, PopReady, MarkerFree, Scan, coreVars, clearVars
<1>21. CASE NextWork
  BY <1>21 DEF NextWork, PopReady, MarkerFree, markerKeeps, coreVars, stackVars, clearVars
<1>22. CASE Preload
  BY <1>22 DEF Preload, markerKeeps, coreVars, stackVars, clearVars
<1>23. CASE Sweep
  BY <1>23 DEF Sweep, markerKeeps, coreVars, stackVars, clearVars
<1>24. CASE Abandon
  BY <1>24 DEF Abandon, coreVars, stackVars
<1>25. CASE Finish
  BY <1>25, <1>0 DEF Finish, MarkerIdle, TracerIdle, stackVars, clearVars, coreVars
<1>26. CASE ClearWord
  <2>1. \A p \in marked' : p \in marked /\ WordOf[p[1]] # clearWord
    BY <1>26 DEF ClearWord, EraseWord
  <2>2. /\ phase \in {"idle", "clear"} /\ ~clean /\ m.st # "done"
        /\ \A p \in marked' : /\ WordOf[p[1]] \in 0..(WORDS - 1) /\ WordOf[p[1]] # clearWord
                              /\ WordOf[p[1]] < clearWord => WordOf[p[1]] \in StaticWords
        /\ UNCHANGED <<t, queue, pending>>
    <3>1. phase \in {"idle", "clear"} /\ ~clean /\ UNCHANGED <<t, queue, pending>>
      BY <1>26 DEF ClearWord
    <3>2. m.st # "done"
      BY <1>26, <3>1 DEF ClearWord
    <3>3. QED
      BY <1>0, <2>1, <3>1, <3>2
  <2>3. CASE m.st = "clear"
    <3>1. phase = "clear"
      BY <2>3
    <3>2. CASE clearWord = WORDS - 1
      BY <1>26, <1>0, <2>2, <2>3, <3>1, <3>2 DEF ClearWord
    <3>3. CASE clearWord # WORDS - 1
      BY <1>26, <1>0, <2>2, <2>3, <3>1, <3>3 DEF ClearWord
    <3>4. QED
      BY <3>2, <3>3
  <2>4. CASE m.st # "clear"
    <3>1. /\ phase = "idle" /\ UNCHANGED <<phase, m>>
          /\ clearWord \in StaticWords \/ MarkerFree
          /\ IF clearWord = WORDS - 1 THEN clean' = TRUE /\ clearWord' = 0
                                      ELSE clearWord' = clearWord + 1 /\ clean' = FALSE
      BY <1>26, <2>2, <2>4 DEF ClearWord
    <3>2. ~MarkerFree => \A w \in 0..(WORDS - 1) : w <= clearWord => w \in StaticWords
      BY <1>0, <2>2, <3>1
    <3>3. (MarkerFree)' <=> MarkerFree
      BY <2>2, <3>1
    <3>4. CASE clearWord = WORDS - 1
      BY <1>0, <2>2, <3>1, <3>2, <3>3, <3>4
    <3>5. CASE clearWord # WORDS - 1
      <4>1. clearWord' = clearWord + 1 /\ clean' = FALSE /\ phase' = "idle" /\ m' = m
        BY <3>1, <3>5
      <4> HIDE DEF Inv, TypeOK, Erased, Phases, TracerType, MarkerType, MarkerFree
      <4>2. \A p \in marked' : WordOf[p[1]] < clearWord' => WordOf[p[1]] \in StaticWords
        BY <1>0, <2>2, <4>1
      <4>3. (~MarkerFree)' =>
              \A w \in 0..(WORDS - 1) : w < clearWord' => w \in StaticWords
        BY <1>0, <3>2, <3>3, <4>1
      <4>4. QED
        BY <2>2, <4>1, <4>2, <4>3 DEF Inv, Erased, Phases
    <3>6. QED
      BY <3>4, <3>5
  <2>5. QED
    BY <2>3, <2>4
<1>27. CASE UNCHANGED vars
  BY <1>27 DEF vars, coreVars, stackVars, clearVars
<1>28. QED
  BY <1>1, <1>2, <1>3, <1>4, <1>5, <1>6, <1>7, <1>8, <1>9, <1>10, <1>11, <1>12, <1>13, <1>14, <1>15, <1>16, <1>17, <1>18, <1>19, <1>20, <1>21, <1>22, <1>23, <1>24, <1>25, <1>26, <1>27
     DEF Next, Core, Tracer, Marker
-----------------------------------------------------------------------------
(* The places of entries and items *)

LEMMA EntryTypes ==
  ASSUME NEW h
  PROVE  GoodEntry(h) \subseteq Entry /\ GoodItem(h) \subseteq Item /\ StackEntry \subseteq Entry
<1>1. GoodEntry(h) \subseteq Entry /\ StackEntry \subseteq Entry
  BY NoEntryIsEntry DEF GoodEntry, StackEntry
<1>2. GoodItem(h) \subseteq Item
  BY <1>1 DEF GoodItem, Item
<1>3. QED
  BY <1>1, <1>2

LEMMA SeqShorter ==
  ASSUME NEW S, NEW s \in Seq(S)
  PROVE  Len(s) \in Nat /\ \A i \in 1..Len(s) : s[i] \in S
OBVIOUS

\* Every step but the start keeps the heap and the limits, and allows what was
\* on the stack to stay there.
LEMMA SameHeap ==
  ASSUME Inv, Next, ~Start
  PROVE  heap' = heap /\ lim' = lim /\ H' = H
<1>1. heap' = heap /\ lim' = lim
  <2> USE DEF coreVars, tracerKeeps, markerKeeps, decodeKeeps, stackKeeps
  <2>1. CASE Core
    BY <2>1 DEF Core, StreamRoot, RootsDone, Resume
  <2>2. CASE Tracer
    BY <2>2 DEF Tracer, MemRoot, ScanElement, StartTable, ScanEnd, Header
  <2>3. CASE Drain \/ ClearWord
    BY <2>3 DEF Drain, ClearWord
  <2>4. CASE Marker
    BY <2>4 DEF Marker, Take, DecodeContinuation, DecodeRaw, DecodeHandle, Push, Spill,
                Refill, Record, ReadBack, Pop, NextWork, Preload, Sweep, Abandon, Finish
  <2>5. QED
    BY <2>1, <2>2, <2>3, <2>4 DEF Next
<1>2. QED
  BY <1>1 DEF H

LEMMA SameStackEntry ==
  ASSUME Inv, Next, ~Start
  PROVE  StackEntry \subseteq StackEntry'
<1>1. H' = H
  BY SameHeap
<1>2. phase \in {"idle", "finish"} /\ t.st = "idle" =>
        phase' \in {"idle", "finish"} /\ t'.st = "idle"
  <2> USE DEF Inv, TypeOK, Phases, coreVars, tracerKeeps, markerKeeps, decodeKeeps, stackKeeps
  <2>1. CASE Core
    BY <2>1 DEF Core, StreamRoot, RootsDone, Resume
  <2>2. CASE Tracer
    BY <2>2 DEF Tracer, MemRoot, ScanElement, StartTable, ScanEnd, Header
  <2>3. CASE Drain \/ ClearWord
    BY <2>3 DEF Drain, ClearWord
  <2>4. CASE Marker
    BY <2>4 DEF Marker, Take, DecodeContinuation, DecodeRaw, DecodeHandle, Push, Spill,
                Refill, Record, ReadBack, Pop, PopReady, NextWork, Preload, Sweep, Abandon,
                Finish, TracerIdle
  <2>5. QED
    BY <2>1, <2>2, <2>3, <2>4 DEF Next
<1>3. QED
  BY <1>1, <1>2 DEF StackEntry

LEMMA StackStep ==
  ASSUME Inv, Next
  PROVE  /\ StackPlaces'
         /\ Len(ring)' <= lim'.onchip /\ Len(stackMem)' <= lim'.mem /\ Len(rescan)' <= lim'.resc
<1>1. CASE Start
  <2>1. ring' = <<>> /\ stackMem' = <<>> /\ rescan' = <<>> /\ lim' \in Limits
    BY <1>1 DEF Start
  <2>2. lim'.onchip \in Nat /\ lim'.mem \in Nat /\ lim'.resc \in Nat
    BY <2>1, GcAssumption
  <2>3. QED
    BY <2>1, <2>2, EmptySeq DEF StackPlaces
<1>2. CASE ~Start
  <2> DEFINE S == StackEntry'
  <2>1. lim' = lim /\ lim.onchip \in Nat \ {0} /\ lim.mem \in Nat /\ lim.resc \in Nat
    BY <1>2, SameHeap, LimitTypes DEF Inv, TypeOK
  <2>2. ring \in Seq(S) /\ stackMem \in Seq(S) /\ rescan \in Seq(S)
    BY <1>2, SameStackEntry, SeqMonotonic DEF Inv, Places, StackPlaces
  <2>3. Len(ring) <= lim.onchip /\ Len(stackMem) <= lim.mem /\ Len(rescan) <= lim.resc
    BY DEF Inv, TypeOK
  <2>4. Holding => m.push \in S
    BY <1>2, SameStackEntry DEF Inv, Places, MarkerPlaces
  <2> HIDE DEF S
  <2> SUFFICES /\ ring' \in Seq(S) /\ stackMem' \in Seq(S) /\ rescan' \in Seq(S)
               /\ Len(ring') <= lim.onchip /\ Len(stackMem') <= lim.mem
               /\ Len(rescan') <= lim.resc
    BY <2>1 DEF StackPlaces, S
  <2>5. CASE UNCHANGED stackVars
    BY <2>2, <2>3, <2>5 DEF stackVars
  <2>6. CASE Push /\ Len(ring) < lim.onchip
    <3>1. ring' = Append(ring, m.push) /\ UNCHANGED <<stackMem, rescan>> /\ m.push \in S
      BY <2>1, <2>4, <2>6, SeqShorter, <2>2 DEF Push, Holding
    <3>2. ring' \in Seq(S) /\ Len(ring') = Len(ring) + 1
      BY <3>1, <2>2, AppendProperties
    <3>3. QED
      BY <3>1, <3>2, <2>1, <2>2, <2>3, <2>6
  <2>7. CASE Spill /\ ~UNCHANGED stackVars
    <3>1. /\ ring # <<>> /\ Len(stackMem) < lim.mem /\ UNCHANGED rescan
          /\ stackMem' = Append(stackMem, Head(ring)) /\ ring' = Tail(ring)
      BY <2>7 DEF Spill, SpillOver, stackVars
    <3>2. Head(ring) \in S /\ ring' \in Seq(S) /\ Len(ring') = Len(ring) - 1
      BY <3>1, <2>2, HeadTailProperties
    <3>3. stackMem' \in Seq(S) /\ Len(stackMem') = Len(stackMem) + 1
      BY <3>1, <3>2, <2>2, AppendProperties
    <3>4. QED
      BY <3>1, <3>2, <3>3, <2>1, <2>2, <2>3, LenProperties
  <2>8. CASE Refill /\ ~UNCHANGED stackVars
    <3>1. /\ stackMem # <<>> /\ ~(Len(ring) >= lim.onchip) /\ UNCHANGED rescan
          /\ ring' = <<stackMem[Len(stackMem)]>> \o ring
          /\ stackMem' = SubSeq(stackMem, 1, Len(stackMem) - 1)
      BY <2>8 DEF Refill, RefillOver, stackVars
    <3>2. /\ stackMem[Len(stackMem)] \in S /\ stackMem' \in Seq(S)
          /\ Len(stackMem') = Len(stackMem) - 1
      BY <3>1, <2>2, MembersLast
    <3>3. ring' \in Seq(S) /\ Len(ring') = 1 + Len(ring)
      BY <3>1, <3>2, <2>2, MembersOne, MembersConcat
    <3>4. QED
      BY <3>1, <3>2, <3>3, <2>1, <2>2, <2>3, LenProperties
  <2>9. CASE Record
    <3>1. /\ Len(rescan) < lim.resc /\ rescan' = Append(rescan, m.push) /\ m.push \in S
          /\ UNCHANGED <<ring, stackMem>>
      BY <2>4, <2>9 DEF Record, Holding
    <3>2. rescan' \in Seq(S) /\ Len(rescan') = Len(rescan) + 1
      BY <3>1, <2>2, AppendProperties
    <3>3. QED
      BY <3>1, <3>2, <2>1, <2>2, <2>3, LenProperties
  <2>10. CASE ReadBack
    <3>1. /\ rescan # <<>> /\ ring = <<>> /\ UNCHANGED stackMem
          /\ ring' = Append(ring, rescan[Len(rescan)])
          /\ rescan' = SubSeq(rescan, 1, Len(rescan) - 1)
      BY <2>10 DEF ReadBack, Inv, Places, MarkerPlaces
    <3>2. /\ rescan[Len(rescan)] \in S /\ rescan' \in Seq(S)
          /\ Len(rescan') = Len(rescan) - 1
      BY <3>1, <2>2, MembersLast
    <3>3. ring' \in Seq(S) /\ Len(ring') = 0 + 1
      BY <3>1, <3>2, <2>2, AppendProperties, EmptySeq
    <3>4. QED
      BY <3>1, <3>2, <3>3, <2>1, <2>2, <2>3, LenProperties
  <2>11. CASE Pop
    <3>1. /\ ring # <<>> /\ ring' = SubSeq(ring, 1, Len(ring) - 1)
          /\ UNCHANGED <<stackMem, rescan>>
      BY <2>11 DEF Pop
    <3>2. ring' \in Seq(S) /\ Len(ring') = Len(ring) - 1
      BY <3>1, <2>2, MembersLast
    <3>3. QED
      BY <3>1, <3>2, <2>1, <2>2, <2>3, LenProperties
  <2>12. Core \/ Tracer \/ Drain \/ ClearWord => UNCHANGED stackVars
    BY <1>2 DEF Core, StreamRoot, RootsDone, Resume, Tracer, MemRoot, ScanElement, StartTable,
                ScanEnd, Header, tracerKeeps, Drain, ClearWord
  <2>13. Marker => UNCHANGED stackVars \/ Push \/ Spill \/ Refill \/ Record \/ ReadBack \/ Pop
    BY DEF Marker, Take, DecodeContinuation, DecodeRaw, DecodeHandle, NextWork, Preload, Sweep,
           Abandon, Finish, decodeKeeps
  <2>14. Push => Len(ring) < lim.onchip \/ UNCHANGED stackVars
    BY DEF Push, stackVars
  <2>15. QED
    BY <2>5, <2>6, <2>7, <2>8, <2>9, <2>10, <2>11, <2>12, <2>13, <2>14 DEF Next
<1>3. QED
  BY <1>1, <1>2

\* The element the tracer reads next.
LEMMA NextElement ==
  ASSUME Inv, t.st = "scan", t.e.n > 0
  PROVE  LET x == RangeOf(t.e)[t.e.at] IN
         /\ x \in Seq(Obj) /\ Len(x) <= 3
         /\ t.e.k # "frames" => Len(x) <= 2
<1> DEFINE range == RangeOf(t.e)
<1>1. t.e \in Entry /\ t.e.at \in Nat /\ t.e.n \in Nat /\ t.e.o \in Obj
  BY DEF Inv, TypeOK, TracerType, Entry
<1>2. t.e.at >= 1 /\ t.e.at + t.e.n - 1 <= Len(range)
  BY DEF Inv, Places, TracerPlaces
<1>3. HeapOK(H)
  BY HeapFacts DEF Inv, TypeOK
<1>4. CASE t.e.k = "frames"
  <2>1. range \in Seq(Frames)
    BY <1>3, <1>4 DEF RangeOf, HeapOK
  <2>2. range[t.e.at] \in Frames
    <3> HIDE DEF range
    <3>1. QED
      BY <1>1, <1>2, <2>1
  <2>3. QED
    BY <2>2, <1>4, SlotFacts
<1>5. CASE t.e.k # "frames"
  <2>1. range \in Seq(Slots)
    BY <1>1, <1>3, <1>5 DEF RangeOf, HeapOK, Inv, Places, TracerPlaces
  <2>2. range[t.e.at] \in Slots
    <3> HIDE DEF range
    <3>1. QED
      BY <1>1, <1>2, <2>1
  <2>3. QED
    BY <2>2, <1>5, SlotFacts
<1>6. QED
  BY <1>4, <1>5

\* The continuation of the range an entry on the stack, or the tracer, is in.
LEMMA EntryParts ==
  ASSUME NEW h, NEW e \in GoodEntry(h), e.k # "object"
  PROVE  /\ e.k \in {"range", "table"} /\ e.o \in Obj /\ e.at \in Nat /\ e.n \in Nat
         /\ e.at >= 1
         /\ e.at + e.n - 1 <= Len(RangeAt(h, e.k, e.o))
         /\ EntryGives(h, e) =
              Heads(Seen(RangeAt(h, e.k, e.o), e.at, e.n))
BY DEF GoodEntry, Entry, EntryRange, EntryGives

LEMMA WholeRest ==
  ASSUME heap \in DOMAIN Heaps, NEW o \in Obj, NEW k \in {"range", "table"}
  PROVE  LET range == RangeAt(H, k, o)
             n == Len(range)
             rest == Rest(k, o, 1, n)
         IN /\ n \in Nat /\ rest \in Seq(GoodItem(H)) /\ Len(rest) <= 1
            /\ n <= SCAN_CHUNK => rest = <<>>
            /\ \A i \in Members(rest) : i.t = "cont"
            /\ RangeEntry(k, o, 1, Chunk(n)) \in GoodEntry(H)
            /\ EntryGives(H, RangeEntry(k, o, 1, Chunk(n))) = Heads(Seen(range, 1, Chunk(n)))
            /\ Heads(Handles(range)) = Heads(Seen(range, 1, Chunk(n))) \cup ItemsGive(H, rest)
<1> DEFINE range == RangeAt(H, k, o)
           n == Len(range)
<1>1. range \in Seq(Slots)
  BY HeapFacts DEF HeapOK, RangeAt
<1>2. Seen(range, 1, n) = Handles(range) /\ n \in Nat
  <2> HIDE DEF range
  <2>1. n \in Nat /\ DOMAIN range = 1..n /\ Handles(range) \subseteq Obj
    BY <1>1, LenProperties, HandlesAreObjects
  <2>2. QED
    BY <2>1, SeenWhole
<1>3. 1 + n - 1 <= Len(range) /\ n = Len(range)
  <2> HIDE DEF range
  <2>1. QED
    BY <1>2
<1> HIDE DEF n
<1>4. 1 + n - 1 <= Len(RangeAt(H, k, o))
  BY <1>3
<1>5. LET rest == Rest(k, o, 1, n) IN
      /\ rest \in Seq(GoodItem(H)) /\ Len(rest) <= 1
      /\ n <= SCAN_CHUNK => rest = <<>>
      /\ \A i \in Members(rest) : i.t = "cont"
      /\ RangeEntry(k, o, 1, Chunk(n)) \in GoodEntry(H)
      /\ EntryGives(H, RangeEntry(k, o, 1, Chunk(n))) = Heads(Seen(range, 1, Chunk(n)))
      /\ Heads(Seen(range, 1, n)) = Heads(Seen(range, 1, Chunk(n))) \cup ItemsGive(H, rest)
  <2> DEFINE one == 1
  <2>1. one \in Nat /\ one >= 1
    OBVIOUS
  <2>2. one + n - 1 <= Len(RangeAt(H, k, o))
    BY <1>4
  <2> HIDE DEF one
  <2>3. LET rest == Rest(k, o, one, n) IN
        /\ rest \in Seq(GoodItem(H)) /\ Len(rest) <= 1
        /\ n <= SCAN_CHUNK => rest = <<>>
        /\ \A i \in Members(rest) : i.t = "cont"
        /\ RangeEntry(k, o, one, Chunk(n)) \in GoodEntry(H)
        /\ EntryGives(H, RangeEntry(k, o, one, Chunk(n))) = Heads(Seen(range, one, Chunk(n)))
        /\ Heads(Seen(range, one, n)) = Heads(Seen(range, one, Chunk(n))) \cup ItemsGive(H, rest)
    BY <1>2, <2>1, <2>2, RestFacts
  <2>4. QED
    BY <2>3 DEF one
<1>6. QED
  BY <1>2, <1>3, <1>5

LEMMA RawIsGood ==
  ASSUME NEW o \in Obj, NEW part \in {"body", "table"}, <<o, part>> \in Parts(o)
  PROVE  Raw(o, part) \in GoodItem(H) /\ ItemGives(H, Raw(o, part)) = {<<o, part>>}
BY DEF Raw, GoodItem, ItemGives

\* What the tracer adds to the pending buffer when a popped entry or the header
\* of a popped object starts a scan.
HeaderItems(o) ==
  CASE Kind[o] = "dict" -> <<Raw(o, "body"), Raw(o, "table")>>
    [] OTHER            -> <<Raw(o, "body")>>

LEMMA HeaderItemsFacts ==
  ASSUME NEW o \in Obj, Kind[o] \in {"obj", "list", "dict"}
  PROVE  /\ HeaderItems(o) \in Seq(GoodItem(H)) /\ Len(HeaderItems(o)) <= 2
         /\ Kind[o] # "dict" => Len(HeaderItems(o)) <= 1
         /\ \A i \in Members(HeaderItems(o)) : i.t = "raw"
         /\ ItemsGive(H, HeaderItems(o)) = Parts(o) \ Heads({o})
<1>1. CASE Kind[o] = "dict"
  <2> DEFINE a == Raw(o, "body")
             b == Raw(o, "table")
  <2>1. /\ a \in GoodItem(H) /\ b \in GoodItem(H) /\ a.t = "raw" /\ b.t = "raw"
        /\ ItemGives(H, a) = {<<o, "body">>} /\ ItemGives(H, b) = {<<o, "table">>}
    BY <1>1, RawIsGood DEF Raw, Parts
  <2> HIDE DEF a, b
  <2> DEFINE y == <<a, b>>
  <2>2. y \in Seq(GoodItem(H)) /\ Len(y) <= 2 /\ Members(y) = {a, b}
    BY <2>1 DEF Members
  <2>5. HeaderItems(o) = y
    BY <1>1 DEF HeaderItems, a, b
  <2> HIDE DEF y
  <2>3. ItemsGive(H, y) = {<<o, "body">>, <<o, "table">>}
    BY <2>1, <2>2 DEF ItemsGive
  <2>4. Parts(o) \ Heads({o}) = {<<o, "body">>, <<o, "table">>}
    BY <1>1 DEF Parts, Heads
  <2>6. QED
    BY <1>1, <2>1, <2>2, <2>3, <2>4, <2>5
<1>2. CASE Kind[o] # "dict"
  <2> DEFINE a == Raw(o, "body")
  <2>1. a \in GoodItem(H) /\ a.t = "raw" /\ ItemGives(H, a) = {<<o, "body">>}
    BY <1>2, RawIsGood DEF Raw, Parts
  <2> HIDE DEF a
  <2> DEFINE y == <<a>>
  <2>2. y \in Seq(GoodItem(H)) /\ Len(y) <= 1 /\ Len(y) <= 2 /\ Members(y) = {a}
    BY <2>1, MembersOne
  <2>5. HeaderItems(o) = y
    BY <1>2 DEF HeaderItems, a
  <2> HIDE DEF y
  <2>3. ItemsGive(H, y) = {<<o, "body">>}
    BY <2>1, <2>2 DEF ItemsGive
  <2>4. Parts(o) \ Heads({o}) = {<<o, "body">>}
    BY <1>2 DEF Parts, Heads
  <2>6. QED
    <3>1. ItemsGive(H, HeaderItems(o)) = Parts(o) \ Heads({o})
      BY <2>3, <2>4, <2>5
    <3>2. \A i \in Members(y) : i.t = "raw"
      BY <2>1, <2>2
    <3>3. QED
      BY <2>2, <2>5, <3>1, <3>2
<1>3. QED
  BY <1>1, <1>2

\* The rest of the first range of an object, or nothing: objects are scanned whole.
HeaderRest(o) ==
  IF Kind[o] = "obj" THEN <<>> ELSE Rest("range", o, 1, Len(H.slots[o]))

HeaderRange(o) ==
  IF Kind[o] = "obj" THEN RangeEntry("range", o, 1, Len(H.slots[o]))
                     ELSE RangeEntry("range", o, 1, Chunk(Len(H.slots[o])))

LEMMA HeaderStep ==
  ASSUME Inv, Header
  PROVE  /\ t.e.o \in Obj /\ Kind[t.e.o] \in {"obj", "list", "dict"} /\ pending = <<>>
         /\ pending' = HeaderItems(t.e.o) \o HeaderRest(t.e.o)
         /\ t' = IF Kind[t.e.o] = "obj"
                   THEN [t EXCEPT !.st = "scan", !.e = HeaderRange(t.e.o)]
                   ELSE [t EXCEPT !.st = "scan", !.e = HeaderRange(t.e.o),
                                  !.re = HeaderRange(t.e.o), !.cont = Kind[t.e.o] = "dict"]
         /\ t.e.k = "object" /\ t.re = t.e /\ ~t.cont /\ haveEnt
<1> DEFINE o == t.e.o
           n == Len(H.slots[o])
           rest == Rest("range", o, 1, n)
<1>1. o \in Obj /\ pending = <<>> /\ t.e.k = "object" /\ t.re = t.e /\ ~t.cont /\ haveEnt
  BY DEF Inv, TypeOK, TracerType, Entry, Places, TracerPlaces, Header
<1>2. Kind[o] \in {"obj", "list", "dict"}
  BY DEF Header
<1>3. rest \in Seq(GoodItem(H))
  BY <1>1, WholeRest DEF Inv, TypeOK, RangeAt
<1>4. HeaderItems(o) \in Seq(GoodItem(H))
  BY <1>1, <1>2, HeaderItemsFacts
<1>5. CASE Kind[o] = "obj"
  <2>1. pending' = Append(<<>>, Raw(o, "body")) /\ t' = [t EXCEPT !.st = "scan", !.e = HeaderRange(o)]
    BY <1>1, <1>5 DEF Header, HeaderRange
  <2>2. HeaderItems(o) = <<Raw(o, "body")>> /\ HeaderRest(o) = <<>>
    BY <1>5 DEF HeaderItems, HeaderRest
  <2>3. HeaderItems(o) \o <<>> = HeaderItems(o)
    BY <1>4
  <2>4. pending' = HeaderItems(o) \o HeaderRest(o)
    BY <2>1, <2>2, <2>3
  <2>5. QED
    BY <1>1, <1>2, <1>5, <2>1, <2>4
<1>6. CASE Kind[o] = "list"
  <2>1. /\ pending' = Append(<<>>, Raw(o, "body")) \o rest
        /\ t' = [t EXCEPT !.st = "scan", !.e = HeaderRange(o), !.re = HeaderRange(o)]
    BY <1>1, <1>6 DEF Header, HeaderRange
  <2>2. HeaderItems(o) = <<Raw(o, "body")>> /\ HeaderRest(o) = rest
    BY <1>6 DEF HeaderItems, HeaderRest
  <2>3. Append(<<>>, Raw(o, "body")) = <<Raw(o, "body")>>
    OBVIOUS
  <2>4. pending' = HeaderItems(o) \o HeaderRest(o)
    BY <2>1, <2>2, <2>3
  <2>5. t' = [t EXCEPT !.st = "scan", !.e = HeaderRange(o), !.re = HeaderRange(o),
                       !.cont = Kind[o] = "dict"]
    BY <1>1, <1>6, <2>1 DEF Inv, TypeOK, TracerType
  <2>6. QED
    BY <1>1, <1>2, <1>6, <2>4, <2>5
<1>7. CASE Kind[o] = "dict"
  <2>1. /\ pending' = <<>> \o HeaderItems(o) \o rest
        /\ t' = [[t EXCEPT !.st = "scan", !.e = HeaderRange(o), !.re = HeaderRange(o)]
                   EXCEPT !.cont = TRUE]
    BY <1>1, <1>7 DEF Header, HeaderRange, HeaderItems
  <2>2. HeaderRest(o) = rest
    BY <1>7 DEF HeaderRest
  <2>3. <<>> \o HeaderItems(o) = HeaderItems(o)
    BY <1>4
  <2>4. QED
    BY <1>1, <1>2, <1>7, <2>1, <2>2, <2>3
<1>8. QED
  BY <1>2, <1>5, <1>6, <1>7

LEMMA FlowStep ==
  ASSUME Inv, Next
  PROVE  FlowPlaces' /\ Len(queue)' <= QUEUE /\ Len(pending)' <= 3
<1>1. CASE Start
  <2>1. queue' = <<>> /\ pending' = <<>>
    BY <1>1 DEF Start, MarkerFree
  <2>2. QED
    BY <2>1, EmptySeq, Sizes DEF FlowPlaces
<1>2. CASE ~Start
  <2> DEFINE S == GoodItem(H)
  <2>1. H' = H /\ QUEUE \in Nat /\ heap \in DOMAIN Heaps /\ HeapOK(H)
    BY <1>2, SameHeap, Sizes, HeapFacts DEF Inv, TypeOK
  <2>2. queue \in Seq(S) /\ pending \in Seq(S) /\ Len(queue) <= QUEUE /\ Len(pending) <= 3
    BY DEF Inv, TypeOK, Places, FlowPlaces
  <2>3. Len(queue) \in Nat /\ Len(pending) \in Nat
    BY <2>2, LenProperties
  <2> SUFFICES /\ queue' \in Seq(S) /\ pending' \in Seq(S)
               /\ Len(queue') <= QUEUE /\ Len(pending') <= 3
    BY <2>1 DEF FlowPlaces
  <2>4. CASE UNCHANGED <<queue, pending>>
    BY <2>2, <2>4
  <2>5. CASE StreamRoot
    <3> DEFINE x == Handle(H.reg[rootIdx + 1])
    <3>1. /\ UNCHANGED pending /\ rootIdx < Len(H.reg) /\ Len(queue) < QUEUE
          /\ queue' = Append(queue, x)
      BY <2>5 DEF StreamRoot
    <3>2. H.reg[rootIdx + 1] \in Obj
      BY <3>1, <2>1 DEF HeapOK, Inv, TypeOK
    <3>3. x \in S
      BY <3>2 DEF Handle, GoodItem
    <3> HIDE DEF x, S
    <3>4. queue' \in Seq(S) /\ Len(queue') = Len(queue) + 1
      BY <3>1, <3>3, <2>2, AppendProperties
    <3>5. QED
      BY <3>1, <3>4, <2>1, <2>2, <2>3
  <2>6. CASE Drain
    <3> HIDE DEF S
    <3>1. /\ pending # <<>> /\ Len(queue) < QUEUE
          /\ queue' = Append(queue, Head(pending)) /\ pending' = Tail(pending)
      BY <2>6 DEF Drain
    <3>2. Head(pending) \in S /\ pending' \in Seq(S) /\ Len(pending') = Len(pending) - 1
      BY <3>1, <2>2, HeadTailProperties
    <3>3. queue' \in Seq(S) /\ Len(queue') = Len(queue) + 1
      BY <3>1, <3>2, <2>2, AppendProperties
    <3>4. QED
      BY <3>1, <3>2, <3>3, <2>1, <2>2, <2>3
  <2>7. CASE Take
    <3> HIDE DEF S
    <3>1. queue # <<>> /\ queue' = Tail(queue) /\ UNCHANGED pending
      BY <2>7 DEF Take, markerKeeps
    <3>2. queue' \in Seq(S) /\ Len(queue') = Len(queue) - 1
      BY <3>1, <2>2, HeadTailProperties
    <3>3. QED
      BY <3>1, <3>2, <2>1, <2>2, <2>3
  <2>8. CASE ScanElement
    <3> DEFINE x == RangeOf(t.e)[t.e.at]
    <3>1. /\ UNCHANGED queue /\ PendingRoom(t.e, x) /\ pending' = pending \o HandlesOf(x)
          /\ t.st = "scan" /\ t.e.n > 0
      BY <2>8 DEF ScanElement, tracerKeeps
    <3>2. x \in Seq(Obj) /\ Len(x) <= 3
      BY <3>1, NextElement
    <3>3. t.e.k # "frames" => Len(x) <= 2
      BY <3>1, NextElement
    <3> HIDE DEF x, S
    <3>4. Len(x) \in Nat
      BY <3>2, LenProperties
    <3>5. Len(pending) + Len(x) <= 3
      BY <3>1, <3>2, <3>3, <3>4, <2>3, EmptySeq DEF PendingRoom
    <3> DEFINE y == HandlesOf(x)
    <3>6. y \in Seq(S) /\ Len(y) = Len(x)
      BY <3>2, HandlesOfFacts DEF S
    <3> HIDE DEF y
    <3>7. pending \o y \in Seq(S) /\ Len(pending \o y) = Len(pending) + Len(y)
      BY <3>6, <2>2, MembersConcat
    <3>8. QED
      BY <3>1, <3>5, <3>6, <3>7, <2>2 DEF y
  <2>9. CASE StartTable
    <3> DEFINE o == t.e.o
               n == Len(H.table[o])
               y == Rest("table", o, 1, n)
    <3>1. /\ UNCHANGED queue /\ pending' = pending \o y
          /\ pending = <<>> \/ n <= SCAN_CHUNK
      BY <2>9 DEF StartTable, TableMayStart, MarkerFree, tracerKeeps
    <3>2. o \in Obj
      BY DEF Inv, TypeOK, TracerType, Entry
    <3>3. y \in Seq(S) /\ Len(y) <= 1
      BY <3>2, <2>1, WholeRest DEF RangeAt
    <3>4. n <= SCAN_CHUNK => y = <<>>
      BY <3>2, <2>1, WholeRest DEF RangeAt
    <3>5. Len(y) \in Nat
      BY <3>3, LenProperties
    <3> HIDE DEF y, S, n
    <3>6. pending \o y \in Seq(S) /\ Len(pending \o y) = Len(pending) + Len(y)
      BY <3>3, <2>2, MembersConcat
    <3>7. Len(pending) + Len(y) <= 3
      BY <3>1, <3>3, <3>4, <3>5, <2>2, <2>3, EmptySeq
    <3>8. QED
      BY <3>1, <3>6, <3>7, <2>2
  <2>10. CASE Header
    <3> DEFINE o == t.e.o
               y == HeaderItems(o)
               z == HeaderRest(o)
    <3>1. UNCHANGED queue
      BY <2>10 DEF Header, tracerKeeps
    <3>2. pending' = y \o z /\ o \in Obj /\ Kind[o] \in {"obj", "list", "dict"}
      BY <2>10, HeaderStep
    <3>3. y \in Seq(S) /\ Len(y) <= 2
      BY <3>2, HeaderItemsFacts
    <3>4. z \in Seq(S) /\ Len(z) <= 1
      BY <3>2, <2>1, WholeRest, EmptySeq DEF HeaderRest, RangeAt
    <3> HIDE DEF y, z, S
    <3>5. y \o z \in Seq(S) /\ Len(y \o z) = Len(y) + Len(z)
      BY <3>3, <3>4, MembersConcat
    <3>6. Len(y) \in Nat /\ Len(z) \in Nat
      BY <3>3, <3>4, LenProperties
    <3>7. QED
      BY <3>1, <3>2, <3>3, <3>4, <3>5, <3>6, <2>2
  <2>11. CASE Pop
    <3> DEFINE e == ring[Len(ring)]
               y == Rest(e.k, e.o, e.at, e.n)
    <3>1. /\ UNCHANGED queue /\ pending = <<>> /\ ring # <<>> /\ phase = "mark"
          /\ e.k = "object" => UNCHANGED pending
          /\ e.k # "object" => pending' = pending \o y
      BY <2>11 DEF Pop, PopReady, MarkerFree, Scan
    <3>2. CASE e.k = "object"
      BY <3>1, <3>2, <2>2
    <3>3. CASE e.k # "object"
      <4>1. e \in StackEntry
        BY <3>1, MembersLast DEF Inv, Places, StackPlaces
      <4>2. e \in GoodEntry(H)
        BY <4>1, <3>1 DEF StackEntry
      <4> HIDE DEF e
      <4>3. /\ e.k \in {"range", "table"} /\ e.o \in Obj /\ e.at \in Nat /\ e.n \in Nat
            /\ e.at >= 1 /\ e.at + e.n - 1 <= Len(RangeAt(H, e.k, e.o))
        BY <4>2, <3>3, EntryParts
      <4>4. y \in Seq(S) /\ Len(y) <= 1
        BY <4>3, <2>1, RestFacts
      <4> HIDE DEF y, S
      <4>5. pending \o y \in Seq(S) /\ Len(pending \o y) = Len(pending) + Len(y)
        BY <4>4, <2>2, MembersConcat
      <4>6. Len(y) \in Nat /\ Len(pending) = 0
        BY <4>4, <3>1, LenProperties, EmptySeq
      <4>7. QED
        BY <3>1, <3>3, <4>4, <4>5, <4>6, <2>2
    <3>4. QED
      BY <3>2, <3>3
  <2>12. Core \/ Drain \/ ClearWord => UNCHANGED <<queue, pending>> \/ StreamRoot \/ Drain
    BY <1>2 DEF Core, RootsDone, Resume, ClearWord
  <2>13. Tracer => UNCHANGED <<queue, pending>> \/ ScanElement \/ StartTable \/ Header
    BY DEF Tracer, MemRoot, ScanEnd, tracerKeeps
  <2>14. Marker => UNCHANGED <<queue, pending>> \/ Take \/ Pop
    BY DEF Marker, DecodeContinuation, DecodeRaw, DecodeHandle, Push, Spill, Refill, Record,
           ReadBack, NextWork, Preload, Sweep, Abandon, Finish, decodeKeeps, stackKeeps,
           markerKeeps
  <2>15. QED
    BY <2>4, <2>5, <2>6, <2>7, <2>8, <2>9, <2>10, <2>11, <2>12, <2>13, <2>14 DEF Next
<1>3. QED
  BY <1>1, <1>2

LEMMA MarkerStep ==
  ASSUME Inv, Next
  PROVE  m' \in MarkerType /\ MarkerPlaces'
<1>0. m \in MarkerType /\ MarkerPlaces /\ t \in TracerType
  BY DEF Inv, TypeOK, Places
<1>1. CASE Start
  BY <1>0, <1>1 DEF Start, MarkerType, MarkerPlaces, Holding
<1>2. CASE ~Start
  <2>1. H' = H /\ StackEntry \subseteq StackEntry' /\ StackEntry \subseteq Entry
    BY <1>2, SameHeap, SameStackEntry, EntryTypes
  <2> HIDE DEF StackEntry
  <2>2. GoodItem(H) \subseteq Item /\ GoodEntry(H) \subseteq StackEntry
    BY EntryTypes DEF StackEntry
  <2>3. CASE Take
    <3>1. /\ m.st = "idle" /\ queue # <<>>
          /\ m' = [m EXCEPT !.st = "decode", !.item = Head(queue)]
      BY <2>3 DEF Take
    <3>2. Head(queue) \in GoodItem(H)
      BY <3>1, HeadTailProperties DEF Inv, Places, FlowPlaces
    <3>3. QED
      BY <1>0, <2>1, <2>2, <3>1, <3>2 DEF MarkerType, MarkerPlaces, Holding
  <2>4. CASE DecodeContinuation
    <3>1. m.item.e \in GoodEntry(H)
      BY <1>0, <2>4, ItemCases DEF DecodeContinuation, MarkerPlaces
    <3>2. m' = [m EXCEPT !.push = m.item.e, !.st = IF StackFull THEN "record" ELSE "push"]
      BY <2>4 DEF DecodeContinuation
    <3>3. QED
      BY <1>0, <2>1, <2>2, <3>1, <3>2 DEF MarkerType, MarkerPlaces, Holding
  <2>5. CASE DecodeRaw
    BY <1>0, <2>1, <2>2, <2>5 DEF DecodeRaw, MarkerType, MarkerPlaces, Holding
  <2>6. CASE DecodeHandle
    <3> DEFINE o == m.item.o
    <3>1. m.st = "decode" /\ o \in Obj
      BY <1>0, <2>6, ItemCases DEF DecodeHandle, MarkerPlaces
    <3>2. \/ m' = [m EXCEPT !.st = "idle"]
          \/ m' = [m EXCEPT !.st = "record", !.push = t.re] /\ haveEnt
          \/ m' = [m EXCEPT !.st = "push", !.push = EntryOf(o)] /\ Pushable(o)
      BY <2>6 DEF DecodeHandle, LeaveChild
    <3>3. Pushable(o) => EntryOf(o) \in StackEntry
      BY <2>2, <3>1, EntryOfIsGood DEF Inv, TypeOK
    <3>4. haveEnt => t.re \in StackEntry
      BY DEF Inv, Places, TracerPlaces
    <3> HIDE DEF o
    <3>5. QED
      BY <1>0, <2>1, <2>2, <3>2, <3>3, <3>4 DEF MarkerType, MarkerPlaces, Holding
  <2>7. CASE Push
    <3>1. /\ m.st = "push"
          /\ m' = [m EXCEPT !.st = "idle"] \/ m' = [m EXCEPT !.st = "spill", !.batch = 0]
      BY <2>7 DEF Push
    <3>2. 0 \in 0..SPILL_BATCH
      BY Sizes
    <3>3. QED
      BY <1>0, <2>1, <3>1, <3>2 DEF MarkerType, MarkerPlaces, Holding
  <2>8. CASE Spill
    <3>1. /\ m.st = "spill"
          /\ \/ m' = [m EXCEPT !.st = "push"]
             \/ m' = [m EXCEPT !.st = "record"]
             \/ m' = [m EXCEPT !.batch = @ + 1] /\ m.batch # SPILL_BATCH
      BY <2>8 DEF Spill, SpillOver
    <3>2. m.batch \in 0..SPILL_BATCH /\ SPILL_BATCH \in Nat
      BY <1>0, Sizes DEF MarkerType
    <3>3. m.batch # SPILL_BATCH => m.batch + 1 \in 0..SPILL_BATCH
      BY <3>2
    <3>4. QED
      BY <1>0, <2>1, <3>1, <3>3 DEF MarkerType, MarkerPlaces, Holding
  <2>9. CASE Refill
    BY <1>0, <2>1, <2>9, Sizes DEF Refill, RefillOver, MarkerType, MarkerPlaces, Holding
  <2>10. CASE Record
    BY <1>0, <2>1, <2>10 DEF Record, MarkerType, MarkerPlaces, Holding
  <2>11. CASE ReadBack
    BY <1>0, <2>1, <2>11 DEF ReadBack, MarkerType, MarkerPlaces, Holding
  <2>12. CASE NextWork
    <3>1. UNCHANGED <<ring, rescan>> /\ phase = "mark" /\ ring = <<>>
      BY <2>12 DEF NextWork, PopReady, stackVars
    <3>2. \/ m' = [m EXCEPT !.st = "refill", !.batch = 0]
          \/ m' = [m EXCEPT !.st = "readback"] /\ rescan # <<>> /\ phase' = phase
          \/ m' = [m EXCEPT !.st = "sweep"]
      BY <2>12 DEF NextWork
    <3>3. 0 \in 0..SPILL_BATCH
      BY Sizes
    <3>4. ring' = <<>> /\ (rescan # <<>> => rescan' # <<>>)
      BY <3>1
    <3>5. QED
      BY <1>0, <3>1, <3>2, <3>3, <3>4 DEF MarkerType, MarkerPlaces, Holding
  <2>13. CASE Preload
    BY <1>0, <2>1, <2>13 DEF Preload, MarkerType, MarkerPlaces, Holding
  <2>14. CASE Sweep
    BY <1>0, <2>1, <2>14 DEF Sweep, MarkerType, MarkerPlaces, Holding
  <2>15. CASE Abandon
    BY <1>0, <2>1, <2>15 DEF Abandon, MarkerType, MarkerPlaces, Holding
  <2>16. CASE Finish
    <3>1. MarkerIdle \in MarkerType
      BY NoEntryIsEntry, Sizes DEF MarkerIdle, MarkerType
    <3>2. m' = MarkerIdle /\ MarkerIdle.st = "idle"
      BY <2>16 DEF Finish, MarkerIdle
    <3>3. QED
      BY <3>1, <3>2 DEF MarkerPlaces, Holding
  <2>17. CASE ClearWord
    <3>1. \/ m' = m /\ phase' = phase /\ UNCHANGED stackVars
          \/ m' = [m EXCEPT !.st = "preload"]
      BY <2>17 DEF ClearWord
    <3>2. QED
      BY <1>0, <2>1, <3>1 DEF MarkerType, MarkerPlaces, Holding, stackVars
  <2>18. CASE Pop
    BY <1>0, <2>1, <2>18 DEF Pop, PopReady, MarkerFree, MarkerPlaces, Holding
  <2>19. CASE Core \/ Tracer \/ Drain
    <3>1. m' = m /\ UNCHANGED stackVars
      BY <1>2, <2>19 DEF Core, StreamRoot, RootsDone, Resume, Drain, Tracer, MemRoot,
                         ScanElement, StartTable, ScanEnd, Header, tracerKeeps
    <3>2. phase' \in {phase, "mark"} \/ phase = "reg"
      BY <1>2, <2>19 DEF Core, StreamRoot, RootsDone, Resume, Drain, Tracer, MemRoot,
                         ScanElement, StartTable, ScanEnd, Header
    <3>3. QED
      BY <1>0, <2>1, <3>1, <3>2 DEF MarkerPlaces, Holding, stackVars
  <2>20. QED
    BY <1>2, <2>3, <2>4, <2>5, <2>6, <2>7, <2>8, <2>9, <2>10, <2>11, <2>12, <2>13, <2>14,
       <2>15, <2>16, <2>17, <2>18, <2>19 DEF Next, Marker
<1>3. QED
  BY <1>1, <1>2

LEMMA TracerStep ==
  ASSUME Inv, Next
  PROVE  t' \in TracerType /\ TracerPlaces'
<1>0. t \in TracerType /\ TracerPlaces /\ Phases /\ heap \in DOMAIN Heaps /\ phase # "none"
  BY DEF Inv, TypeOK, Places
<1>1. TracerIdle \in TracerType /\ TracerIdle.st = "idle"
  BY NoEntryIsEntry DEF TracerIdle, TracerType
<1>2. CASE Start
  <2>1. t' = t /\ t.st = "idle" /\ haveEnt' = FALSE
    BY <1>0, <1>2 DEF Start, Phases
  <2>2. QED
    BY <1>0, <2>1 DEF TracerPlaces
<1>3. CASE ~Start
  <2>1. H' = H /\ StackEntry \subseteq StackEntry' /\ HeapOK(H)
    BY <1>0, <1>3, SameHeap, SameStackEntry, HeapFacts
  <2>2. GoodEntry(H) \subseteq StackEntry' /\ GoodEntry(H) \subseteq Entry
    BY <2>1, EntryTypes DEF StackEntry
  <2> HIDE DEF StackEntry
  <2>3. CASE UNCHANGED <<t, haveEnt>> /\ (t.st # "header" \/ UNCHANGED pending)
    <3>1. RangeOf(t.e)' = RangeOf(t.e)
      BY <2>1, <2>3 DEF RangeOf
    <3>2. QED
      BY <1>0, <2>1, <2>3, <3>1 DEF TracerPlaces
  <2>4. CASE Drain
    <3>1. UNCHANGED <<t, haveEnt>> /\ pending # <<>>
      BY <2>4 DEF Drain
    <3>2. QED
      BY <1>0, <2>3, <3>1 DEF TracerPlaces
  <2>5. CASE RootsDone
    <3>1. t' = [t EXCEPT !.st = "memroot", !.rng = 0] /\ haveEnt' = haveEnt /\ ~haveEnt
      BY <1>0, <2>5 DEF RootsDone, Phases
    <3>2. QED
      BY <1>0, <3>1 DEF TracerPlaces, TracerType
  <2>6. CASE MemRoot
    <3> DEFINE r == t.rng + 1
               last == Len(H.memroots)
               n == Len(IF r <= last THEN H.memroots[r] ELSE H.frames)
               e == RangeEntry(IF r <= last THEN "roots" ELSE "frames", t.e.o, 1, n)
    <3>1. /\ t.st = "memroot" /\ ~haveEnt /\ haveEnt' = haveEnt
          /\ \/ t' = [t EXCEPT !.st = "scan", !.cont = FALSE, !.rng = r, !.e = e]
             \/ t' = [t EXCEPT !.st = "pop", !.rng = r]
      BY <1>0, <2>6 DEF MemRoot, tracerKeeps, TracerPlaces
    <3>2. r \in Nat \ {0} /\ last \in Nat /\ t.e.o \in Obj
      <4>1. t.rng \in Nat /\ t.e.o \in Obj
        BY <1>0 DEF TracerType, Entry
      <4>2. last \in Nat
        BY <2>1 DEF HeapOK
      <4> HIDE DEF last
      <4>3. QED
        BY <4>1, <4>2
    <3>3. n \in Nat /\ (r <= last => r \in 1..last)
      BY <2>1, <3>2 DEF HeapOK
    <3>4. /\ e \in Entry /\ e.at = 1 /\ e.n = n
          /\ r <= last => e.k = "roots"
          /\ ~(r <= last) => e.k = "frames"
      BY <3>2, <3>3 DEF RangeEntry, Entry
    <3>5. CASE t' = [t EXCEPT !.st = "scan", !.cont = FALSE, !.rng = r, !.e = e]
      <4>1. t'.e = e /\ t'.rng = r /\ t'.st = "scan" /\ t' \in TracerType /\ ~t'.cont
        BY <1>0, <3>2, <3>4, <3>5 DEF TracerType
      <4>2. Len(RangeOf(t.e)') = n
        BY <2>1, <3>4, <4>1 DEF RangeOf
      <4>3. e.at + e.n - 1 <= n
        BY <3>3, <3>4
      <4>4. e.k \in {"roots", "frames"} /\ (e.k = "roots" => r \in 1..last)
        BY <3>3, <3>4
      <4> HIDE DEF e, n, r, last
      <4>5. t'.e.at >= 1 /\ t'.e.at + t'.e.n - 1 <= Len(RangeOf(t.e)')
        BY <3>4, <4>1, <4>2, <4>3
      <4>6. last' = last
        BY <2>1 DEF last
      <4>7. QED
        BY <3>1, <4>1, <4>4, <4>5, <2>1 DEF TracerPlaces, last
    <3>6. CASE t' = [t EXCEPT !.st = "pop", !.rng = r]
      BY <1>0, <3>1, <3>2, <3>6 DEF TracerPlaces, TracerType
    <3>7. QED
      BY <3>1, <3>5, <3>6
  <2>7. CASE ScanElement
    <3>1. /\ t.st = "scan" /\ t.e.n > 0 /\ haveEnt' = haveEnt
          /\ t' = [t EXCEPT !.e.at = @ + 1, !.e.n = @ - 1]
      BY <2>7 DEF ScanElement, tracerKeeps
    <3>2. t.e \in Entry /\ t.e.at \in Nat /\ t.e.n \in Nat
      BY <1>0 DEF TracerType, Entry
    <3>3. /\ t' \in TracerType /\ t'.e.at = t.e.at + 1 /\ t'.e.n = t.e.n - 1
          /\ t'.e.k = t.e.k /\ t'.e.o = t.e.o /\ t'.rng = t.rng /\ t'.st = "scan"
          /\ t'.cont = t.cont /\ t'.re = t.re
      <4> DEFINE e == [t.e EXCEPT !.at = @ + 1, !.n = @ - 1]
      <4>1. t' = [t EXCEPT !.e = e]
        BY <1>0, <3>1 DEF TracerType
      <4>2. t.e.at + 1 \in Nat /\ t.e.n - 1 \in Nat
        BY <3>1, <3>2
      <4>3. /\ e \in Entry /\ e.at = t.e.at + 1 /\ e.n = t.e.n - 1
            /\ e.k = t.e.k /\ e.o = t.e.o
        BY <3>2, <4>2 DEF Entry
      <4> HIDE DEF e
      <4>4. QED
        BY <1>0, <3>1, <4>1, <4>3 DEF TracerType
    <3>4. RangeOf(t.e)' = RangeOf(t.e)
      BY <2>1, <3>3 DEF RangeOf
    <3> DEFINE len == Len(RangeOf(t.e))
    <3>5. t.e.at >= 1 /\ t.e.at + t.e.n - 1 <= len
      BY <1>0, <3>1 DEF TracerPlaces
    <3>6. Len(RangeOf(t.e)') = len
      BY <3>4
    <3> HIDE DEF len
    <3>7. t'.e.at >= 1 /\ t'.e.at + t'.e.n - 1 <= Len(RangeOf(t.e)')
      BY <3>1, <3>2, <3>3, <3>5, <3>6
    <3>8. QED
      BY <1>0, <2>1, <3>1, <3>3, <3>7 DEF TracerPlaces
  <2>8. CASE ScanEnd
    <3>1. /\ t.st = "scan" /\ haveEnt' = haveEnt
          /\ t' = [t EXCEPT !.st = IF phase = "mem" THEN "memroot" ELSE "pop"]
      BY <2>8 DEF ScanEnd, tracerKeeps
    <3>2. phase = "mem" => ~haveEnt
      BY <1>0 DEF Phases
    <3>3. QED
      BY <1>0, <2>1, <3>1, <3>2 DEF TracerPlaces, TracerType
  <2>9. ASSUME NEW e \in GoodEntry(H), e.k # "object", haveEnt',
               t' \in TracerType, t'.st = "scan", t'.e = e, t'.re \in GoodEntry(H)
        PROVE  TracerPlaces'
    <3>1. e.k \in {"range", "table"} /\ e.at >= 1 /\ e.at + e.n - 1 <= Len(RangeAt(H, e.k, e.o))
      BY <2>9, EntryParts
    <3>2. RangeOf(t.e)' = RangeAt(H, e.k, e.o)
      BY <2>1, <2>9, <3>1 DEF RangeOf, RangeAt
    <3>3. QED
      BY <2>2, <2>9, <3>1, <3>2 DEF TracerPlaces
  <2>10. CASE StartTable
    <3> DEFINE o == t.e.o
               e == RangeEntry("table", o, 1, Chunk(Len(H.table[o])))
    <3>1. haveEnt' /\ t' = [t EXCEPT !.cont = FALSE, !.e = e, !.re = e] /\ t.st = "scan"
      BY <1>0, <2>10 DEF StartTable, TracerPlaces, tracerKeeps
    <3>2. o \in Obj
      BY <1>0 DEF TracerType, Entry
    <3>3. e \in GoodEntry(H) /\ e.k = "table"
      BY <1>0, <3>2, WholeRest DEF RangeAt, RangeEntry
    <3> HIDE DEF e
    <3>4. t' \in TracerType /\ t'.st = "scan" /\ t'.e = e /\ t'.re = e
      BY <1>0, <2>2, <3>1, <3>3 DEF TracerType
    <3>5. QED
      BY <2>9, <3>1, <3>3, <3>4
  <2>11. CASE Header
    <3> DEFINE o == t.e.o
               e == HeaderRange(o)
    <3>1. /\ haveEnt' /\ o \in Obj /\ t.e.k = "object" /\ t.re = t.e
          /\ t' = IF Kind[t.e.o] = "obj"
                    THEN [t EXCEPT !.st = "scan", !.e = e]
                    ELSE [t EXCEPT !.st = "scan", !.e = e, !.re = e,
                                   !.cont = Kind[t.e.o] = "dict"]
      BY <2>11, HeaderStep DEF Header, tracerKeeps
    <3>2. e \in GoodEntry(H) /\ e.k = "range"
      <4>1. HeaderRange(o).k = "range"
        BY DEF HeaderRange, RangeEntry
      <4> DEFINE n == Len(H.slots[o])
      <4>2. n \in Nat /\ RangeEntry("range", o, 1, Chunk(n)) \in GoodEntry(H)
        BY <1>0, <3>1, WholeRest DEF RangeAt
      <4>3. RangeEntry("range", o, 1, n) \in GoodEntry(H)
        <5>1. RangeAt(H, "range", o) = H.slots[o]
          BY DEF RangeAt
        <5>2. n = Len(RangeAt(H, "range", o))
          BY <5>1
        <5> HIDE DEF n
        <5>3. 1 + n - 1 <= Len(RangeAt(H, "range", o)) /\ 1 >= 1
          BY <4>2, <5>2
        <5>4. QED
          BY <1>0, <3>1, <4>2, <5>3, RangeEntryIsGood
      <4>4. QED
        BY <4>1, <4>2, <4>3 DEF HeaderRange
    <3>3. t.e \in StackEntry /\ t.re \in StackEntry'
      BY <1>0, <2>1, <3>1, <2>11 DEF TracerPlaces, Header
    <3>4. t.e \in GoodEntry(H)
      BY <3>1, <3>3 DEF StackEntry, NoEntry, RangeEntry
    <3> HIDE DEF e
    <3>5. /\ t' \in TracerType /\ t'.st = "scan" /\ t'.e = e
          /\ t'.re \in GoodEntry(H)
      BY <1>0, <2>2, <3>1, <3>2, <3>4 DEF TracerType
    <3>6. QED
      BY <2>9, <3>1, <3>2, <3>5
  <2>12. CASE Pop
    <3> DEFINE e == ring[Len(ring)]
               c == RangeEntry(e.k, e.o, e.at, Chunk(e.n))
    <3>1. /\ haveEnt' /\ phase = "mark" /\ ring # <<>> /\ pending = <<>>
          /\ e.k = "object" =>
               /\ t' = [t EXCEPT !.e = e, !.re = e, !.cont = FALSE, !.st = "header"]
               /\ UNCHANGED pending
          /\ e.k # "object" => t' = [t EXCEPT !.e = c, !.re = c, !.cont = FALSE, !.st = "scan"]
      BY <2>12 DEF Pop, PopReady, MarkerFree, Scan
    <3>2. e \in StackEntry
      BY <3>1, MembersLast DEF Inv, Places, StackPlaces
    <3>3. e \in GoodEntry(H)
      BY <3>1, <3>2 DEF StackEntry
    <3>4. CASE e.k = "object"
      <4>1. /\ t' \in TracerType /\ t'.st = "header" /\ t'.e = e /\ t'.re = e /\ ~t'.cont
            /\ pending' = <<>>
        BY <1>0, <2>2, <3>1, <3>3, <3>4 DEF TracerType
      <4> HIDE DEF e
      <4>2. QED
        BY <2>2, <3>1, <3>3, <3>4, <4>1 DEF TracerPlaces
    <3>5. CASE e.k # "object"
      <4> HIDE DEF e
      <4>1. /\ e.k \in {"range", "table"} /\ e.o \in Obj /\ e.at \in Nat /\ e.n \in Nat
            /\ e.at >= 1 /\ e.at + e.n - 1 <= Len(RangeAt(H, e.k, e.o))
        BY <3>3, <3>5, EntryParts
      <4>2. c \in GoodEntry(H)
        BY <1>0, <4>1, RestFacts
      <4>3. c.k = e.k
        BY DEF RangeEntry
      <4> HIDE DEF c
      <4>4. t' \in TracerType /\ t'.st = "scan" /\ t'.e = c /\ t'.re = c
        BY <1>0, <2>2, <3>1, <3>5, <4>2 DEF TracerType
      <4>5. QED
        BY <2>9, <3>1, <3>5, <4>2, <4>3, <4>4
    <3>6. QED
      BY <3>4, <3>5
  <2>13. CASE Finish
    <3>1. t' = TracerIdle /\ haveEnt' = haveEnt /\ phase' = "idle"
      BY <2>13 DEF Finish
    <3>2. NoEntry \in StackEntry' /\ TracerIdle.re = NoEntry
      BY <1>1, <3>1 DEF StackEntry, TracerIdle
    <3>3. QED
      BY <1>1, <3>1, <3>2 DEF TracerPlaces
  <2>14. Core => RootsDone \/ UNCHANGED <<t, haveEnt, pending>>
    BY <1>3 DEF Core, StreamRoot, Resume
  <2>15. Marker => Pop \/ Finish \/ UNCHANGED <<t, haveEnt, pending>>
    BY DEF Marker, Take, DecodeContinuation, DecodeRaw, DecodeHandle, Push, Spill, Refill,
           Record, ReadBack, NextWork, Preload, Sweep, Abandon, decodeKeeps, stackKeeps,
           markerKeeps
  <2>16. ClearWord => UNCHANGED <<t, haveEnt, pending>>
    BY DEF ClearWord
  <2>17. UNCHANGED <<t, haveEnt, pending>> => t' \in TracerType /\ TracerPlaces'
    BY <2>3, <1>0
  <2>18. QED
    BY <2>4, <2>5, <2>6, <2>7, <2>8, <2>10, <2>11, <2>12, <2>13, <2>14, <2>15, <2>16, <2>17
       DEF Next, Tracer
<1>4. QED
  BY <1>2, <1>3

LEMMA BitmapStep ==
  ASSUME Inv, Next
  PROVE  marked' \subseteq AllParts(Obj) /\ clearWord' \in 0..(WORDS - 1)
<1>1. marked \subseteq AllParts(Obj) /\ clearWord \in 0..(WORDS - 1) /\ WORDS \in Nat \ {0}
  BY Sizes DEF Inv, TypeOK
<1>2. CASE DecodeRaw
  <2>1. /\ m.item \in GoodItem(H) /\ m.item.t = "raw" /\ clearWord' = clearWord
        /\ marked' = marked \cup {<<m.item.o, m.item.part>>}
    BY <1>2 DEF DecodeRaw, decodeKeeps, markerKeeps, clearVars, Inv, Places, MarkerPlaces
  <2>2. m.item.o \in Obj /\ <<m.item.o, m.item.part>> \in Parts(m.item.o)
    BY <2>1, ItemCases
  <2>3. QED
    BY <1>1, <2>1, <2>2 DEF AllParts
<1>3. CASE DecodeHandle
  <2>1. /\ m.item \in GoodItem(H) /\ m.item.t = "handle" /\ clearWord' = clearWord
        /\ marked' \subseteq marked \cup {<<m.item.o, "head">>}
    BY <1>3 DEF DecodeHandle, decodeKeeps, markerKeeps, clearVars, Inv, Places, MarkerPlaces
  <2>2. m.item.o \in Obj
    BY <2>1, ItemCases
  <2>3. Kind[m.item.o] \in {"tuple", "list", "dict", "obj", "leaf"}
    BY <2>2, GcAssumption
  <2>4. <<m.item.o, "head">> \in Parts(m.item.o)
    BY <2>3 DEF Parts
  <2>5. QED
    BY <1>1, <2>1, <2>2, <2>4 DEF AllParts
<1>4. CASE Preload
  <2>1. H.pruned \subseteq Obj
    BY HeapFacts, Sizes DEF HeapOK, Inv, TypeOK
  <2>2. AllParts(H.pruned) \subseteq AllParts(Obj)
    BY <2>1 DEF AllParts
  <2>3. QED
    BY <1>1, <1>4, <2>2 DEF Preload, markerKeeps, clearVars
<1>5. CASE ClearWord
  <2>1. marked' \subseteq marked /\ clearWord' \in {0, clearWord + 1}
        /\ (clearWord = WORDS - 1 => clearWord' = 0)
    BY <1>5 DEF ClearWord, EraseWord
  <2>2. QED
    BY <1>1, <2>1
<1>6. CASE Sweep
  BY <1>1, <1>6 DEF Sweep, markerKeeps, clearVars
<1>7. CASE Abandon
  BY <1>1, <1>7 DEF Abandon
<1>8. Core \/ Drain \/ Tracer => UNCHANGED <<marked, clearWord>>
  BY DEF Core, Start, StreamRoot, RootsDone, Resume, Drain, Tracer, MemRoot, ScanElement,
         StartTable, ScanEnd, Header, tracerKeeps, clearVars
<1>9. Marker => UNCHANGED <<marked, clearWord>> \/ DecodeRaw \/ DecodeHandle \/ Preload
                  \/ Sweep \/ Abandon
  BY DEF Marker, Take, DecodeContinuation, Push, Spill, Refill, Record, ReadBack, Pop,
         NextWork, Finish, decodeKeeps, stackKeeps, markerKeeps, clearVars
<1>10. QED
  BY <1>1, <1>2, <1>3, <1>4, <1>5, <1>6, <1>7, <1>8, <1>9 DEF Next

LEMMA ControlStep ==
  ASSUME Inv, Next
  PROVE  /\ core' \in {"program", "roots", "collect", "alloc", "raise"}
         /\ heap' \in DOMAIN Heaps /\ lim' \in Limits /\ rootIdx' \in Nat
         /\ phase' \in {"idle", "clear", "preload", "reg", "mem", "mark", "sweep", "finish"}
         /\ {haveEnt, rescDone, clean, overflow}' \subseteq BOOLEAN
<1> USE DEF Inv, TypeOK, coreVars, clearVars, tracerKeeps, markerKeeps, decodeKeeps, stackKeeps
<1>1. CASE Core
  <2>1. CASE Start
    BY <2>1 DEF Start
  <2>2. CASE ~Start
    BY <1>1, <2>2 DEF Core, StreamRoot, RootsDone, Resume
  <2>3. QED
    BY <2>1, <2>2
<1>2. CASE Tracer
  BY <1>2 DEF Tracer, MemRoot, ScanElement, StartTable, ScanEnd, Header
<1>3. CASE Drain \/ ClearWord
  BY <1>3 DEF Drain, ClearWord
<1>4. CASE Marker
  BY <1>4 DEF Marker, Take, DecodeContinuation, DecodeRaw, DecodeHandle, Push, Spill, Refill,
              Record, ReadBack, Pop, Scan, NextWork, Preload, Sweep, Abandon, Finish
<1>5. QED
  BY <1>1, <1>2, <1>3, <1>4 DEF Next

LEMMA TypeStep == Inv /\ [Next]_vars => TypeOK' /\ Places'
<1> SUFFICES ASSUME Inv, [Next]_vars PROVE TypeOK' /\ Places'
  OBVIOUS
<1>1. CASE UNCHANGED vars
  BY <1>1 DEF vars, coreVars, stackVars, clearVars, Inv, TypeOK, Places, StackPlaces, FlowPlaces,
              MarkerPlaces, TracerPlaces, StackEntry, Holding, RangeOf, H
<1>2. CASE Next
  <2>1. Places'
    BY <1>2, StackStep, FlowStep, MarkerStep, TracerStep DEF Places
  <2>2. /\ ring' \in Seq(Entry) /\ stackMem' \in Seq(Entry) /\ rescan' \in Seq(Entry)
    <3>1. StackEntry' \subseteq Entry
      BY NoEntryIsEntry DEF StackEntry, GoodEntry
    <3>2. QED
      BY <2>1, <3>1, SeqMonotonic DEF Places, StackPlaces
  <2>3. queue' \in Seq(Item) /\ pending' \in Seq(Item)
    <3>1. GoodItem(H)' \subseteq Item
      BY DEF GoodItem, GoodEntry, Item
    <3>2. QED
      BY <2>1, <3>1, SeqMonotonic DEF Places, FlowPlaces
  <2>4. QED
    BY <1>2, <2>1, <2>2, <2>3, StackStep, FlowStep, MarkerStep, TracerStep, BitmapStep,
       ControlStep DEF TypeOK
<1>3. QED
  BY <1>1, <1>2

LEMMA TypeInit == Init => TypeOK /\ Places
<1> SUFFICES ASSUME Init PROVE TypeOK /\ Places
  OBVIOUS
<1>1. /\ TracerIdle \in TracerType /\ TracerIdle.st = "idle"
      /\ MarkerIdle \in MarkerType /\ MarkerIdle.st = "idle"
  BY NoEntryIsEntry, Sizes DEF TracerIdle, TracerType, MarkerIdle, MarkerType
<1>2. lim.onchip \in Nat \ {0} /\ lim.mem \in Nat \ {0} /\ lim.resc \in Nat \ {0}
  BY LimitTypes DEF Init
<1>3. Places
  BY <1>1, EmptySeq DEF Init, Places, StackPlaces, FlowPlaces, MarkerPlaces, TracerPlaces, Holding
<1>4. TypeOK
  <2>1. ring = <<>> /\ stackMem = <<>> /\ rescan = <<>> /\ queue = <<>> /\ pending = <<>>
    BY DEF Init
  <2>2. /\ queue \in Seq(Item) /\ pending \in Seq(Item) /\ Len(queue) = 0 /\ Len(pending) = 0
        /\ ring \in Seq(Entry) /\ stackMem \in Seq(Entry) /\ rescan \in Seq(Entry)
        /\ Len(ring) = 0 /\ Len(stackMem) = 0 /\ Len(rescan) = 0
    BY <2>1, EmptySeq
  <2>3. 0 \in 0..(WORDS - 1) /\ 0 <= QUEUE
    BY Sizes
  <2>4. /\ Len(queue) <= QUEUE /\ Len(pending) <= 3
        /\ Len(ring) <= lim.onchip /\ Len(stackMem) <= lim.mem /\ Len(rescan) <= lim.resc
    BY <1>2, <2>2, <2>3
  <2>5. QED
    BY <1>1, <2>2, <2>3, <2>4 DEF Init, TypeOK
<1>5. QED
  BY <1>3, <1>4
-----------------------------------------------------------------------------
(* What is owed *)

LEMMA HeadParts ==
  ASSUME heap \in DOMAIN Heaps, NEW S \in SUBSET Obj
  PROVE  /\ Heads(S) \subseteq AllParts(S)
         /\ \A o \in Obj : <<o, "head">> \in AllParts(S) => o \in S
<1>1. \A o \in Obj : <<o, "head">> \in Parts(o)
  BY HeapFacts DEF HeapOK, Parts
<1>2. \A o \in Obj : \A p \in Parts(o) : p[1] = o
  BY DEF Parts
<1>3. QED
  BY <1>1, <1>2 DEF Heads, AllParts

LEMMA ChildrenAreObjects ==
  ASSUME heap \in DOMAIN Heaps, NEW o \in Obj
  PROVE  /\ H.slots[o] \in Seq(Slots) /\ H.table[o] \in Seq(Slots)
         /\ Handles(H.slots[o]) \subseteq Obj /\ Handles(H.table[o]) \subseteq Obj
         /\ Children(H, o) \subseteq Obj
<1>1. H.slots[o] \in Seq(Slots) /\ H.table[o] \in Seq(Slots)
  BY HeapFacts DEF HeapOK
<1>2. QED
  BY <1>1, HandlesAreObjects DEF Children

LEMMA RootsAreObjects ==
  ASSUME heap \in DOMAIN Heaps
  PROVE  /\ Roots(H) \subseteq Obj
         /\ Handles(H.frames) \subseteq Obj
         /\ \A i \in DOMAIN H.memroots : Handles(H.memroots[i]) \subseteq Obj
<1>1. /\ H.reg \in Seq(Obj) /\ H.frames \in Seq(Frames)
      /\ \A i \in DOMAIN H.memroots : H.memroots[i] \in Seq(Slots)
  BY HeapFacts DEF HeapOK
<1>2. \A i \in DOMAIN H.reg : H.reg[i] \in Obj
  BY <1>1
<1>3. /\ Handles(H.frames) \subseteq Obj
      /\ \A i \in DOMAIN H.memroots : Handles(H.memroots[i]) \subseteq Obj
  BY <1>1, HandlesAreObjects
<1>4. QED
  BY <1>2, <1>3 DEF Roots

\* Known holds the roots and is closed under children.
LEMMA KnownFacts ==
  ASSUME heap \in DOMAIN Heaps
  PROVE  /\ Known \subseteq Obj
         /\ Heads(Roots(H)) \subseteq AllParts(Known)
         /\ \A o \in Known : Needs(H, o) \subseteq AllParts(Known)
<1>1. H.pruned \subseteq Obj /\ Closed(H, H.pruned)
  BY HeapFacts, Sizes DEF HeapOK
<1>2. Known \subseteq Obj
  BY <1>1 DEF Known, Live
<1>3. Roots(H) \subseteq Known
  BY RootsAreObjects DEF Known, Live
<1>4. ASSUME NEW o \in Live(H), NEW c \in Children(H, o) PROVE c \in Live(H)
  <2>1. o \in Obj /\ c \in Obj
    BY ChildrenAreObjects DEF Live
  <2>2. ASSUME NEW S \in SUBSET Obj, Roots(H) \subseteq S, Closed(H, S) PROVE c \in S
    <3>1. o \in S
      BY <2>2 DEF Live
    <3>2. QED
      BY <2>2, <3>1 DEF Closed
  <2>3. QED
    BY <2>1, <2>2 DEF Live
<1>5. ASSUME NEW o \in Known PROVE Children(H, o) \subseteq Known
  BY <1>1, <1>4 DEF Known, Closed
<1>6. ASSUME NEW o \in Known PROVE Needs(H, o) \subseteq AllParts(Known)
  <2>1. Heads(Children(H, o)) \subseteq AllParts(Known)
    BY <1>2, <1>5, HeadParts DEF Heads
  <2>2. Parts(o) \subseteq AllParts(Known)
    BY DEF AllParts
  <2>3. QED
    BY <2>1, <2>2 DEF Needs
<1>7. Heads(Roots(H)) \subseteq AllParts(Known)
  BY <1>2, <1>3, HeadParts DEF Heads
<1>8. QED
  BY <1>2, <1>6, <1>7

\* A step that keeps the account: marks and debts stay, what is new is known, and
\* the needs of a newly marked head are owed.
LEMMA PaidKept ==
  ASSUME Inv, Collecting, heap' = heap, H' = H, marked \subseteq marked',
         marked \cup Owed \subseteq marked' \cup Owed',
         NEW X, X \subseteq AllParts(Known), marked' \cup Owed' \subseteq marked \cup Owed \cup X,
         \A o \in Obj : <<o, "head">> \in marked' \ marked =>
                          Needs(H, o) \subseteq marked' \cup Owed'
  PROVE  Paid'
<1>1. /\ \A o \in Obj : <<o, "head">> \in marked => Needs(H, o) \subseteq marked \cup Owed
      /\ Heads(Roots(H)) \subseteq marked \cup Owed
      /\ marked \cup Owed \subseteq AllParts(Known)
  BY DEF Inv, Account, Paid
<1>2. Known' = Known
  BY DEF Known
<1>3. marked' \cup Owed' \subseteq AllParts(Known)
  BY <1>1
<1>4. Heads(Roots(H)) \subseteq marked' \cup Owed'
  BY <1>1
<1>5. \A o \in Obj : <<o, "head">> \in marked' => Needs(H, o) \subseteq marked' \cup Owed'
  BY <1>1
<1>6. QED
  BY <1>2, <1>3, <1>4, <1>5 DEF Paid

\* The steps that only move debts about.
LEMMA PaidMoved ==
  ASSUME Inv, Collecting, heap' = heap, H' = H, marked' = marked, Owed' = Owed
  PROVE  Paid'
<1>1. marked' \cup Owed' \subseteq marked \cup Owed \cup {}
  OBVIOUS
<1>2. {} \subseteq AllParts(Known)
  OBVIOUS
<1>3. \A o \in Obj : <<o, "head">> \in marked' \ marked =>
                       Needs(H, o) \subseteq marked' \cup Owed'
  OBVIOUS
<1>4. QED
  BY <1>1, <1>2, <1>3, PaidKept

LEMMA GivesNone == \A h : EntriesGive(h, <<>>) = {} /\ ItemsGive(h, <<>>) = {}
BY MembersNone DEF EntriesGive, ItemsGive

LEMMA GivesAppend ==
  ASSUME NEW S, NEW s \in Seq(S), NEW x \in S, NEW h
  PROVE  /\ EntriesGive(h, Append(s, x)) = EntriesGive(h, s) \cup EntryGives(h, x)
         /\ ItemsGive(h, Append(s, x)) = ItemsGive(h, s) \cup ItemGives(h, x)
<1> DEFINE y == Append(s, x)
<1>1. Members(y) = Members(s) \cup {x}
  BY MembersAppend
<1> HIDE DEF y
<1>2. EntriesGive(h, y) = EntriesGive(h, s) \cup EntryGives(h, x)
  BY <1>1 DEF EntriesGive
<1>3. ItemsGive(h, y) = ItemsGive(h, s) \cup ItemGives(h, x)
  BY <1>1 DEF ItemsGive
<1>4. QED
  BY <1>2, <1>3 DEF y

LEMMA GivesHead ==
  ASSUME NEW S, NEW s \in Seq(S), s # <<>>, NEW h
  PROVE  /\ EntriesGive(h, s) = EntriesGive(h, Tail(s)) \cup EntryGives(h, Head(s))
         /\ ItemsGive(h, s) = ItemsGive(h, Tail(s)) \cup ItemGives(h, Head(s))
<1> DEFINE y == Tail(s)
           x == Head(s)
<1>1. Members(s) = Members(y) \cup {x}
  BY MembersHead
<1> HIDE DEF x, y
<1>2. EntriesGive(h, s) = EntriesGive(h, y) \cup EntryGives(h, x)
  BY <1>1 DEF EntriesGive
<1>3. ItemsGive(h, s) = ItemsGive(h, y) \cup ItemGives(h, x)
  BY <1>1 DEF ItemsGive
<1>4. QED
  BY <1>2, <1>3 DEF x, y

LEMMA GivesLast ==
  ASSUME NEW S, NEW s \in Seq(S), s # <<>>, NEW h
  PROVE  EntriesGive(h, s) = EntriesGive(h, SubSeq(s, 1, Len(s) - 1))
                               \cup EntryGives(h, s[Len(s)])
<1> DEFINE y == SubSeq(s, 1, Len(s) - 1)
           x == s[Len(s)]
<1>1. Members(s) = Members(y) \cup {x}
  BY MembersLast
<1> HIDE DEF x, y
<1>2. EntriesGive(h, s) = EntriesGive(h, y) \cup EntryGives(h, x)
  BY <1>1 DEF EntriesGive
<1>3. QED
  BY <1>2 DEF x, y

LEMMA GivesConcat ==
  ASSUME NEW S, NEW s \in Seq(S), NEW u \in Seq(S), NEW h
  PROVE  /\ EntriesGive(h, s \o u) = EntriesGive(h, s) \cup EntriesGive(h, u)
         /\ ItemsGive(h, s \o u) = ItemsGive(h, s) \cup ItemsGive(h, u)
<1> DEFINE y == s \o u
<1>1. Members(y) = Members(s) \cup Members(u)
  BY MembersConcat
<1> HIDE DEF y
<1>2. EntriesGive(h, y) = EntriesGive(h, s) \cup EntriesGive(h, u)
  BY <1>1 DEF EntriesGive
<1>3. ItemsGive(h, y) = ItemsGive(h, s) \cup ItemsGive(h, u)
  BY <1>1 DEF ItemsGive
<1>4. QED
  BY <1>2, <1>3 DEF y

LEMMA StreamRootPaid == ASSUME Inv, StreamRoot, Collecting PROVE Paid'
<1> DEFINE r == H.reg[rootIdx + 1]
<1>1. heap' = heap /\ H' = H /\ marked' = marked /\ phase = "reg" /\ phase' = "reg"
  BY DEF StreamRoot, H
<1>2. /\ queue' = Append(queue, Handle(r)) /\ rootIdx' = rootIdx + 1 /\ rootIdx \in Nat
      /\ rootIdx < Len(H.reg) /\ UNCHANGED <<t, m, pending, stackVars>>
  BY DEF StreamRoot, Inv, TypeOK
<1>3. H.reg \in Seq(Obj) /\ Len(H.reg) \in Nat /\ rootIdx + 1 \in 1..Len(H.reg)
  <2>1. H.reg \in Seq(Obj)
    BY HeapFacts DEF HeapOK, Inv, TypeOK
  <2>2. QED
    BY <2>1, <1>2, LenProperties
<1>4. r \in Obj
  BY <1>3
<1>5. StackGives' = StackGives /\ TracerGives' = TracerGives
  BY <1>1, <1>2 DEF StackGives, PushGives, Holding, stackVars, TracerGives, ScanGives, TableGives,
                    RangeOf
<1>6. FlowGives' = FlowGives \cup Heads({r})
  <2>1. Handle(r) \in GoodItem(H) /\ ItemGives(H, Handle(r)) = Heads({r})
    BY <1>4 DEF Handle, GoodItem, ItemGives
  <2>2. ItemsGive(H, queue') = ItemsGive(H, queue) \cup Heads({r})
    BY <2>1, <1>2, GivesAppend DEF Inv, Places, FlowPlaces
  <2>3. QED
    BY <2>2, <1>1, <1>2 DEF FlowGives, DecodeGives
<1>7. RootsToCome = RootsToCome' \cup Heads({r})
  <2>1. \A j \in DOMAIN H.reg : j > rootIdx <=> (j > rootIdx + 1 \/ j = rootIdx + 1)
    BY <1>2, <1>3
  <2>2. rootIdx + 1 \in DOMAIN H.reg
    BY <1>3
  <2>3. RegRoots(rootIdx) = RegRoots(rootIdx + 1) \cup {r}
    BY <2>1, <2>2 DEF RegRoots
  <2>4. RegRoots(rootIdx)' = RegRoots(rootIdx + 1) /\ MemRoots(0)' = MemRoots(0)
    BY <1>1, <1>2 DEF RegRoots, MemRoots
  <2>5. QED
    BY <2>3, <2>4, <1>1 DEF RootsToCome, Heads
<1>8. Owed' = Owed
  BY <1>5, <1>6, <1>7 DEF Owed
<1>9. QED
  BY <1>1, <1>8, PaidMoved

LEMMA RootsDonePaid == ASSUME Inv, RootsDone, Collecting PROVE Paid'
<1>1. heap' = heap /\ H' = H /\ marked' = marked /\ phase = "reg" /\ phase' = "mem"
  BY DEF RootsDone, H
<1>2. /\ rootIdx = Len(H.reg) /\ t'.st = "memroot" /\ t'.rng = 0 /\ t.st = "idle"
      /\ UNCHANGED <<m, queue, pending, stackVars>>
  BY DEF RootsDone, Inv, TypeOK, TracerType, Phases
<1>3. StackGives' = StackGives /\ FlowGives' = FlowGives
  BY <1>1, <1>2 DEF StackGives, PushGives, Holding, stackVars, FlowGives, DecodeGives
<1>4. TracerGives = {} /\ TracerGives' = {}
  BY <1>2 DEF TracerGives
<1>5. RootsToCome' = RootsToCome
  <2>1. HeapOK(H)
    BY HeapFacts DEF Inv, TypeOK
  <2>2. RegRoots(rootIdx) = {}
    <3>1. H.reg \in Seq(Obj)
      BY <2>1 DEF HeapOK
    <3>2. \A j \in DOMAIN H.reg : ~(j > rootIdx)
      BY <3>1, <1>2
    <3>3. QED
      BY <3>2 DEF RegRoots
  <2>3. 0 <= Len(H.memroots)
    <3>1. H.memroots \in Seq(Seq(Slots))
      BY <2>1 DEF HeapOK
    <3>2. QED
      BY <3>1, LenProperties
  <2>4. MemRoots(t.rng)' = MemRoots(0)
    BY <1>1, <1>2 DEF MemRoots
  <2>5. QED
    BY <2>2, <2>3, <2>4, <1>1, <1>2 DEF RootsToCome
<1>6. QED
  BY <1>1, <1>3, <1>4, <1>5, PaidMoved DEF Owed

LEMMA SeenAll ==
  ASSUME NEW S \in {Slots, Frames}, NEW range \in Seq(S)
  PROVE  Seen(range, 1, Len(range)) = Handles(range)
<1>1. Len(range) \in Nat /\ DOMAIN range = 1..Len(range)
  BY LenProperties
<1>2. Handles(range) \subseteq Obj
  BY HandlesAreObjects
<1>3. QED
  BY <1>1, <1>2, SeenWhole

LEMMA MemRootPaid == ASSUME Inv, MemRoot, Collecting PROVE Paid'
<1> DEFINE r == t.rng + 1
           last == Len(H.memroots)
           range == IF r <= last THEN H.memroots[r] ELSE H.frames
           e == RangeEntry(IF r <= last THEN "roots" ELSE "frames", t.e.o, 1, Len(range))
<1>1. heap' = heap /\ H' = H /\ marked' = marked /\ phase = "mem" /\ t \in TracerType
  BY DEF MemRoot, tracerKeeps, coreVars, H, Collecting, Inv, Phases, TypeOK
<1>2. /\ \/ /\ r <= last + 1 /\ phase' = phase
            /\ t' = [t EXCEPT !.st = "scan", !.cont = FALSE, !.rng = r, !.e = e]
         \/ /\ r > last + 1 /\ t' = [t EXCEPT !.st = "pop", !.rng = r] /\ phase' = "mark"
      /\ UNCHANGED <<m, queue, pending, stackVars>> /\ t.st = "memroot"
  BY DEF MemRoot, tracerKeeps
<1>3. StackGives' = StackGives /\ FlowGives' = FlowGives /\ TracerGives = {}
  BY <1>1, <1>2 DEF StackGives, PushGives, Holding, stackVars, FlowGives, DecodeGives, TracerGives
<1>4. /\ HeapOK(H) /\ r \in Nat \ {0} /\ last \in Nat /\ t.rng = r - 1
      /\ DOMAIN H.memroots = 1..last
  <2>1. HeapOK(H)
    BY HeapFacts DEF Inv, TypeOK
  <2>2. H.memroots \in Seq(Seq(Slots))
    BY <2>1 DEF HeapOK
  <2>3. last \in Nat /\ DOMAIN H.memroots = 1..last
    BY <2>2, LenProperties
  <2>4. t.rng \in Nat
    BY <1>1 DEF TracerType
  <2> HIDE DEF last
  <2>5. QED
    BY <2>1, <2>3, <2>4
<1>5. CASE r <= last + 1
  <2>1. /\ phase' = "mem" /\ t'.st = "scan" /\ t'.cont = FALSE /\ t'.rng = r /\ t'.e = e
    <3>1. t' = [t EXCEPT !.st = "scan", !.cont = FALSE, !.rng = r, !.e = e] /\ phase' = phase
      BY <1>2, <1>4, <1>5
    <3> HIDE DEF r, e
    <3>2. QED
      BY <1>1, <3>1 DEF TracerType
  <2>2. range \in Seq(Slots) \/ range \in Seq(Frames)
    <3>1. H.frames \in Seq(Frames) /\ \A i \in DOMAIN H.memroots : H.memroots[i] \in Seq(Slots)
      BY <1>4 DEF HeapOK
    <3>2. r <= last => r \in DOMAIN H.memroots
      BY <1>4
    <3>3. QED
      BY <3>1, <3>2
  <2>3. RangeOf(t.e)' = range /\ e.at = 1 /\ e.n = Len(range)
    <3>1. /\ e.k = IF r <= last THEN "roots" ELSE "frames"
          /\ e.at = 1 /\ e.n = Len(range)
      BY DEF RangeEntry
    <3> HIDE DEF e
    <3>2. RangeOf(t.e)' = IF r <= last THEN H.memroots[r] ELSE H.frames
      BY <1>1, <2>1, <3>1 DEF RangeOf
    <3>3. QED
      BY <3>1, <3>2
  <2>4. Seen(range, 1, Len(range)) = Handles(range)
    BY <2>2, SeenAll
  <2> HIDE DEF range, e
  <2>5. TracerGives' = Heads(Handles(range))
    BY <2>1, <2>3, <2>4 DEF TracerGives, ScanGives, TableGives
  <2>6. RootsToCome = RootsToCome' \cup Heads(Handles(range))
    <3>1. RootsToCome' = Heads(MemRoots(r) \cup IF r <= last THEN Handles(H.frames) ELSE {})
      BY <1>1, <2>1 DEF RootsToCome, MemRoots
    <3>2. RootsToCome = Heads(MemRoots(t.rng) \cup Handles(H.frames))
      <4>1. t.rng <= last
        BY <1>4, <1>5
      <4>2. QED
        BY <1>1, <4>1 DEF RootsToCome
    <3>3. CASE r <= last
      <4>1. \A j \in DOMAIN H.memroots : j > t.rng <=> (j > r \/ j = r)
        BY <1>4
      <4>2. r \in DOMAIN H.memroots /\ range = H.memroots[r]
        BY <1>4, <3>3 DEF range
      <4> HIDE DEF r, last
      <4>3. MemRoots(t.rng) = MemRoots(r) \cup Handles(range)
        BY <4>1, <4>2 DEF MemRoots
      <4>4. QED
        BY <3>1, <3>2, <3>3, <4>3 DEF Heads
    <3>4. CASE ~(r <= last)
      <4>1. \A j \in DOMAIN H.memroots : ~(j > t.rng) /\ ~(j > r)
        BY <1>4, <3>4
      <4>2. range = H.frames
        BY <3>4 DEF range
      <4> HIDE DEF r, last
      <4>3. MemRoots(t.rng) = {} /\ MemRoots(r) = {}
        BY <4>1 DEF MemRoots
      <4>4. QED
        BY <3>1, <3>2, <3>4, <4>2, <4>3 DEF Heads
    <3>5. QED
      BY <3>3, <3>4
  <2>7. Owed' = Owed
    BY <1>3, <2>5, <2>6 DEF Owed
  <2>8. QED
    BY <1>1, <2>7, PaidMoved
<1>6. CASE ~(r <= last + 1)
  <2>1. phase' = "mark" /\ t'.st = "pop"
    BY <1>1, <1>2, <1>6 DEF TracerType
  <2>2. TracerGives' = {} /\ RootsToCome' = {}
    BY <2>1 DEF TracerGives, RootsToCome
  <2>3. RootsToCome = {}
    <3>1. ~(t.rng <= last) /\ \A j \in DOMAIN H.memroots : ~(j > t.rng)
      BY <1>4, <1>6
    <3>2. MemRoots(t.rng) = {}
      BY <3>1 DEF MemRoots
    <3>3. QED
      BY <1>1, <3>1, <3>2 DEF RootsToCome, Heads
  <2>4. Owed' = Owed
    BY <1>3, <2>2, <2>3 DEF Owed
  <2>5. QED
    BY <1>1, <2>4, PaidMoved
<1>7. QED
  BY <1>5, <1>6

LEMMA ScanEndPaid == ASSUME Inv, ScanEnd, Collecting PROVE Paid'
<1>1. heap' = heap /\ H' = H /\ marked' = marked /\ t \in TracerType
  BY DEF ScanEnd, tracerKeeps, coreVars, H, Inv, TypeOK
<1>2. /\ t.st = "scan" /\ t.e.n = 0 /\ ~t.cont /\ t'.st \in {"memroot", "pop"}
      /\ t'.rng = t.rng /\ t.e.at \in Nat
      /\ UNCHANGED <<phase, m, queue, pending, stackVars, rootIdx>>
  BY <1>1 DEF ScanEnd, tracerKeeps, coreVars, TracerType, Entry
<1>3. StackGives' = StackGives /\ FlowGives' = FlowGives /\ TracerGives' = {}
  BY <1>1, <1>2 DEF StackGives, PushGives, Holding, stackVars, FlowGives, DecodeGives, TracerGives
<1>4. Seen(RangeOf(t.e), t.e.at, 0) = {}
  BY <1>2, SeenNone
<1>5. TracerGives = {}
  BY <1>2, <1>4 DEF TracerGives, ScanGives, TableGives, Heads
<1>6. RootsToCome' = RootsToCome
  BY <1>1, <1>2 DEF RootsToCome, RegRoots, MemRoots
<1>7. QED
  BY <1>1, <1>3, <1>5, <1>6, PaidMoved DEF Owed

LEMMA ScanElementPaid == ASSUME Inv, ScanElement, Collecting PROVE Paid'
<1> DEFINE x == RangeOf(t.e)[t.e.at]
<1>1. heap' = heap /\ H' = H /\ marked' = marked /\ t \in TracerType
  BY DEF ScanElement, tracerKeeps, coreVars, H, Inv, TypeOK
<1>2. /\ t.st = "scan" /\ t.e.n > 0 /\ pending' = pending \o HandlesOf(x)
      /\ t' = [t EXCEPT !.e.at = @ + 1, !.e.n = @ - 1]
      /\ UNCHANGED <<phase, m, queue, stackVars, rootIdx>>
  BY DEF ScanElement, tracerKeeps, coreVars
<1>3. t.e \in Entry /\ t.e.at \in Nat /\ t.e.n \in Nat
  BY <1>1 DEF TracerType, Entry
<1>4. /\ t'.e.at = t.e.at + 1 /\ t'.e.n = t.e.n - 1 /\ t'.e.k = t.e.k /\ t'.e.o = t.e.o
      /\ t'.rng = t.rng /\ t'.st = "scan" /\ t'.cont = t.cont
  <2> DEFINE e == [t.e EXCEPT !.at = @ + 1, !.n = @ - 1]
  <2>1. t' = [t EXCEPT !.e = e]
    BY <1>1, <1>2 DEF TracerType
  <2>2. e.at = t.e.at + 1 /\ e.n = t.e.n - 1 /\ e.k = t.e.k /\ e.o = t.e.o
    BY <1>3 DEF Entry
  <2> HIDE DEF e
  <2>3. QED
    BY <1>1, <1>2, <2>1, <2>2 DEF TracerType
<1>5. StackGives' = StackGives /\ RootsToCome' = RootsToCome
  BY <1>1, <1>2, <1>4 DEF StackGives, PushGives, Holding, stackVars, RootsToCome, RegRoots, MemRoots
<1>6. x \in Seq(Obj)
  BY <1>2, NextElement
<1>7. FlowGives' = FlowGives \cup Heads(Members(x))
  <2> DEFINE y == HandlesOf(x)
  <2>1. y \in Seq(GoodItem(H)) /\ ItemsGive(H, y) = Heads(Members(x))
    BY <1>6, HandlesOfFacts
  <2> HIDE DEF y
  <2>2. ItemsGive(H, pending \o y) = ItemsGive(H, pending) \cup Heads(Members(x))
    BY <2>1, GivesConcat DEF Inv, Places, FlowPlaces
  <2>3. QED
    BY <1>1, <1>2, <2>2 DEF FlowGives, DecodeGives, y
<1>8. ScanGives = ScanGives' \cup Heads(Members(x))
  <2>1. RangeOf(t.e)' = RangeOf(t.e)
    BY <1>1, <1>4 DEF RangeOf
  <2> DEFINE range == RangeOf(t.e)
  <2>2. range[t.e.at] \in Seq(Obj)
    BY <1>6
  <2> HIDE DEF range
  <2>3. Seen(range, t.e.at, t.e.n)
          = Members(range[t.e.at]) \cup Seen(range, t.e.at + 1, t.e.n - 1)
    BY <1>2, <1>3, <2>2, SeenFirst
  <2>4. ScanGives' = Heads(Seen(range, t.e.at + 1, t.e.n - 1))
    BY <1>4, <2>1 DEF ScanGives, range
  <2>5. QED
    BY <2>3, <2>4 DEF ScanGives, Heads, range
<1>9. TableGives' = TableGives
  BY <1>1, <1>4 DEF TableGives
<1>10. TracerGives = ScanGives \cup TableGives /\ TracerGives' = ScanGives' \cup TableGives'
  BY <1>2, <1>4 DEF TracerGives
<1>11. Owed' = Owed
  BY <1>5, <1>7, <1>8, <1>9, <1>10 DEF Owed
<1>12. QED
  BY <1>1, <1>11, PaidMoved

LEMMA StartTableFlow ==
  ASSUME Inv, StartTable
  PROVE  LET o == t.e.o
             n == Len(H.table[o])
             e == RangeEntry("table", o, 1, Chunk(n))
             rest == Rest("table", o, 1, n)
         IN /\ o \in Obj /\ t.st = "scan" /\ t.cont /\ t.e.n = 0 /\ haveEnt
            /\ t'.st = "scan" /\ ~t'.cont /\ t'.e = e /\ t'.re = e /\ t'.rng = t.rng
            /\ pending' = pending \o rest /\ rest \in Seq(GoodItem(H))
            /\ RangeOf(t.e)' = H.table[o]
            /\ EntryGives(H, e) = Heads(Seen(H.table[o], 1, Chunk(n)))
            /\ Heads(Handles(H.table[o])) = EntryGives(H, e) \cup ItemsGive(H, rest)
            /\ ScanGives' = EntryGives(H, e)
<1> DEFINE o == t.e.o
           n == Len(H.table[o])
           e == RangeEntry("table", o, 1, Chunk(n))
           rest == Rest("table", o, 1, n)
<1>1. t \in TracerType /\ o \in Obj /\ heap \in DOMAIN Heaps /\ H' = H
  BY DEF Inv, TypeOK, TracerType, Entry, StartTable, tracerKeeps, coreVars, H
<1>2. /\ t.st = "scan" /\ t.cont /\ t.e.n = 0 /\ pending' = pending \o rest
      /\ t' = [t EXCEPT !.cont = FALSE, !.e = e, !.re = e]
  BY DEF StartTable
<1>3. haveEnt
  BY <1>2 DEF Inv, Places, TracerPlaces
<1>4. /\ rest \in Seq(GoodItem(H))
      /\ EntryGives(H, e) = Heads(Seen(H.table[o], 1, Chunk(n)))
      /\ Heads(Handles(H.table[o])) = Heads(Seen(H.table[o], 1, Chunk(n))) \cup ItemsGive(H, rest)
  BY <1>1, WholeRest DEF RangeAt
<1>5. e.k = "table" /\ e.o = o /\ e.at = 1 /\ e.n = Chunk(n)
  BY DEF RangeEntry
<1> HIDE DEF e, rest
<1>6. t'.st = "scan" /\ ~t'.cont /\ t'.e = e /\ t'.re = e /\ t'.rng = t.rng
  BY <1>1, <1>2 DEF TracerType
<1>7. RangeOf(t.e)' = H.table[o]
  BY <1>1, <1>5, <1>6 DEF RangeOf
<1>8. ScanGives' = Heads(Seen(H.table[o], 1, Chunk(n)))
  BY <1>5, <1>6, <1>7 DEF ScanGives
<1>9. QED
  BY <1>1, <1>2, <1>3, <1>4, <1>6, <1>7, <1>8 DEF e, rest

LEMMA StartTablePaid == ASSUME Inv, StartTable, Collecting PROVE Paid'
<1> DEFINE o == t.e.o
           rest == Rest("table", o, 1, Len(H.table[o]))
           e == RangeEntry("table", o, 1, Chunk(Len(H.table[o])))
<1>1. heap' = heap /\ H' = H /\ marked' = marked /\ UNCHANGED <<phase, m, queue, stackVars, rootIdx>>
  BY DEF StartTable, tracerKeeps, coreVars, H
<1>2. /\ t.st = "scan" /\ t.cont /\ t.e.n = 0 /\ t'.st = "scan" /\ ~t'.cont /\ t'.rng = t.rng
      /\ pending' = pending \o rest /\ rest \in Seq(GoodItem(H))
      /\ Heads(Handles(H.table[o])) = EntryGives(H, e) \cup ItemsGive(H, rest)
      /\ ScanGives' = EntryGives(H, e)
  BY StartTableFlow
<1> HIDE DEF rest, e
<1>3. StackGives' = StackGives /\ RootsToCome' = RootsToCome
  BY <1>1, <1>2 DEF StackGives, PushGives, Holding, stackVars, RootsToCome, RegRoots, MemRoots
<1>4. ItemsGive(H, pending \o rest) = ItemsGive(H, pending) \cup ItemsGive(H, rest)
  BY <1>2, GivesConcat DEF Inv, Places, FlowPlaces
<1>5. FlowGives' = FlowGives \cup ItemsGive(H, rest)
  BY <1>1, <1>2, <1>4 DEF FlowGives, DecodeGives
<1>6. ScanGives = {}
  <2>1. t.e.at \in Nat
    BY DEF Inv, TypeOK, TracerType, Entry
  <2>2. Seen(RangeOf(t.e), t.e.at, 0) = {}
    BY <2>1, SeenNone
  <2>3. QED
    BY <1>2, <2>2 DEF ScanGives, Heads
<1>7. TracerGives = Heads(Handles(H.table[o])) /\ TracerGives' = EntryGives(H, e)
  BY <1>2, <1>6 DEF TracerGives, TableGives
<1>8. Owed' = Owed
  BY <1>2, <1>3, <1>5, <1>7 DEF Owed
<1>9. QED
  BY <1>1, <1>8, PaidMoved

LEMMA HeaderFlow ==
  ASSUME Inv, Header
  PROVE  LET o == t.e.o
             e == HeaderRange(o)
             items == HeaderItems(o) \o HeaderRest(o)
         IN /\ o \in Obj /\ t.st = "header" /\ haveEnt /\ MarkerFree /\ ~rescDone
            /\ t.e.k = "object" /\ t.re = t.e
            /\ t'.st = "scan" /\ t'.e = e /\ t'.re \in {t.e, e} /\ t'.rng = t.rng
            /\ pending' = items
            /\ \A i \in Members(items) : i.t # "handle"
            /\ RangeOf(t.e)' = H.slots[o]
            /\ ScanGives' = EntryGives(H, e) /\ EntryGives(H, e) \subseteq Needs(H, o)
            /\ EntryGives(H, t.e) = Needs(H, o)
            /\ Needs(H, o) = ItemsGive(H, items) \cup ScanGives' \cup TableGives'
<1> DEFINE o == t.e.o
           e == HeaderRange(o)
           rest == HeaderRest(o)
           raws == HeaderItems(o)
           n == Len(H.slots[o])
<1>1. t \in TracerType /\ heap \in DOMAIN Heaps /\ H' = H /\ t.st = "header" /\ HeapOK(H)
  BY HeapFacts DEF Inv, TypeOK, Header, tracerKeeps, coreVars, H
<1>2. MarkerFree /\ ~rescDone
  BY <1>1 DEF Inv, Phases
<1>3. /\ o \in Obj /\ Kind[o] \in {"obj", "list", "dict"} /\ pending' = raws \o rest
      /\ t' = IF Kind[o] = "obj"
                THEN [t EXCEPT !.st = "scan", !.e = e]
                ELSE [t EXCEPT !.st = "scan", !.e = e, !.re = e, !.cont = Kind[o] = "dict"]
      /\ t.e.k = "object" /\ t.re = t.e /\ ~t.cont /\ haveEnt
  BY HeaderStep
<1>4. /\ t'.st = "scan" /\ t'.e = e /\ t'.re \in {t.e, e} /\ t'.rng = t.rng
      /\ t'.cont <=> Kind[o] = "dict"
  <2> HIDE DEF e, o
  <2>1. QED
    BY <1>1, <1>3 DEF TracerType
<1>5. e.k = "range" /\ e.o = o
  BY DEF HeaderRange, RangeEntry
<1>6. RangeOf(t.e)' = H.slots[o]
  <2> HIDE DEF e
  <2>1. QED
    BY <1>1, <1>4, <1>5 DEF RangeOf
<1>7. /\ n \in Nat /\ Rest("range", o, 1, n) \in Seq(GoodItem(H))
      /\ \A i \in Members(Rest("range", o, 1, n)) : i.t = "cont"
      /\ Heads(Handles(H.slots[o]))
           = Heads(Seen(H.slots[o], 1, Chunk(n))) \cup ItemsGive(H, Rest("range", o, 1, n))
  BY <1>1, <1>3, WholeRest DEF RangeAt
<1>8. /\ rest \in Seq(GoodItem(H)) /\ \A i \in Members(rest) : i.t = "cont"
      /\ EntryGives(H, e) = Heads(Seen(H.slots[o], 1, e.n)) /\ e.at = 1
      /\ Heads(Handles(H.slots[o])) = EntryGives(H, e) \cup ItemsGive(H, rest)
  <2>1. CASE Kind[o] = "obj"
    <3>1. rest = <<>> /\ e = RangeEntry("range", o, 1, n)
      BY <2>1 DEF HeaderRest, HeaderRange
    <3>2. Members(rest) = {} /\ ItemsGive(H, rest) = {} /\ rest \in Seq(GoodItem(H))
      BY <3>1, MembersNone, GivesNone, EmptySeq
    <3>3. e.k = "range" /\ e.n = n /\ e.at = 1 /\ EntryRange(H, e) = H.slots[o]
      BY <3>1, <1>5 DEF RangeEntry, EntryRange, RangeAt
    <3> HIDE DEF e
    <3>4. EntryGives(H, e) = Heads(Seen(H.slots[o], 1, n))
      BY <3>3 DEF EntryGives
    <3>5. H.slots[o] \in Seq(Slots)
      BY <1>1, <1>3 DEF HeapOK
    <3>6. Seen(H.slots[o], 1, n) = Handles(H.slots[o])
      BY <3>5, SeenAll
    <3>7. QED
      BY <3>2, <3>3, <3>4, <3>6
  <2>2. CASE Kind[o] # "obj"
    <3>1. rest = Rest("range", o, 1, n) /\ e = RangeEntry("range", o, 1, Chunk(n))
      BY <2>2 DEF HeaderRest, HeaderRange
    <3>2. e.k = "range" /\ e.n = Chunk(n) /\ e.at = 1 /\ EntryRange(H, e) = H.slots[o]
      BY <3>1, <1>5 DEF RangeEntry, EntryRange, RangeAt
    <3> HIDE DEF e
    <3>3. EntryGives(H, e) = Heads(Seen(H.slots[o], 1, Chunk(n)))
      BY <3>2 DEF EntryGives
    <3>4. QED
      BY <1>7, <3>1, <3>2, <3>3
  <2>3. QED
    BY <2>1, <2>2
<1>9. /\ raws \in Seq(GoodItem(H)) /\ \A i \in Members(raws) : i.t = "raw"
      /\ ItemsGive(H, raws) = Parts(o) \ Heads({o})
  BY <1>3, HeaderItemsFacts
<1>10. TableGives' = Heads(Handles(H.table[o]))
  <2> HIDE DEF e
  <2>1. CASE Kind[o] = "dict"
    BY <1>1, <1>4, <1>5, <2>1 DEF TableGives
  <2>2. CASE Kind[o] # "dict"
    <3>1. H.table[o] = <<>>
      BY <1>1, <1>3, <2>2 DEF HeapOK
    <3>2. Handles(H.table[o]) = {}
      BY <3>1 DEF Handles
    <3>3. QED
      BY <1>4, <2>2, <3>2 DEF TableGives, Heads
  <2>3. QED
    BY <2>1, <2>2
<1> HIDE DEF e, raws, rest
<1>11. ScanGives' = EntryGives(H, e)
  BY <1>4, <1>6, <1>8 DEF ScanGives
<1>12. Needs(H, o) = (Parts(o) \ Heads({o})) \cup Heads(Handles(H.slots[o]))
                       \cup Heads(Handles(H.table[o]))
  BY DEF Needs, Children, Heads
<1>13. ItemsGive(H, raws \o rest) = ItemsGive(H, raws) \cup ItemsGive(H, rest)
  <2>1. raws \in Seq(GoodItem(H)) /\ rest \in Seq(GoodItem(H))
    BY <1>8, <1>9
  <2>2. QED
    BY <2>1, GivesConcat
<1>14. Members(raws \o rest) = Members(raws) \cup Members(rest)
  BY <1>8, <1>9, MembersConcat
<1>15. \A i \in Members(raws \o rest) : i.t # "handle"
  BY <1>8, <1>9, <1>14
<1>16. EntryGives(H, t.e) = Needs(H, o)
  BY <1>3 DEF EntryGives
<1>17. Needs(H, o) = ItemsGive(H, raws \o rest) \cup ScanGives' \cup TableGives'
  BY <1>8, <1>9, <1>10, <1>11, <1>12, <1>13
<1>18. EntryGives(H, e) \subseteq Needs(H, o)
  BY <1>8, <1>12
<1>19. QED
  BY <1>1, <1>2, <1>3, <1>4, <1>6, <1>11, <1>15, <1>16, <1>17, <1>18 DEF e, raws, rest

LEMMA HeaderPaid == ASSUME Inv, Header, Collecting PROVE Paid'
<1> DEFINE o == t.e.o
           items == HeaderItems(o) \o HeaderRest(o)
<1>1. heap' = heap /\ H' = H /\ marked' = marked /\ UNCHANGED <<phase, m, queue, stackVars, rootIdx>>
  BY DEF Header, tracerKeeps, coreVars, H
<1>2. /\ t.st = "header" /\ MarkerFree /\ t'.st = "scan" /\ t'.rng = t.rng /\ pending' = items
      /\ EntryGives(H, t.e) = Needs(H, o)
      /\ Needs(H, o) = ItemsGive(H, items) \cup ScanGives' \cup TableGives'
  BY HeaderFlow
<1> HIDE DEF items
<1>3. StackGives' = StackGives /\ RootsToCome' = RootsToCome
  BY <1>1, <1>2 DEF StackGives, PushGives, Holding, stackVars, RootsToCome, RegRoots, MemRoots
<1>4. FlowGives' = FlowGives \cup ItemsGive(H, items)
  BY <1>1, <1>2, GivesNone DEF FlowGives, DecodeGives, MarkerFree
<1>5. TracerGives = Needs(H, o) /\ TracerGives' = ScanGives' \cup TableGives'
  BY <1>2 DEF TracerGives
<1>6. Owed' = Owed
  BY <1>2, <1>3, <1>4, <1>5 DEF Owed
<1>7. QED
  BY <1>1, <1>6, PaidMoved

LEMMA SameTracer ==
  ASSUME H' = H, UNCHANGED <<t, phase, rootIdx>>
  PROVE  TracerGives' = TracerGives /\ RootsToCome' = RootsToCome
BY DEF TracerGives, ScanGives, TableGives, RangeOf, RootsToCome, RegRoots, MemRoots

LEMMA DrainPaid == ASSUME Inv, Drain, Collecting PROVE Paid'
<1>1. /\ heap' = heap /\ H' = H /\ marked' = marked
      /\ UNCHANGED <<t, phase, rootIdx, m, stackVars>>
      /\ pending # <<>> /\ queue' = Append(queue, Head(pending)) /\ pending' = Tail(pending)
  BY DEF Drain, coreVars, H
<1>2. queue \in Seq(GoodItem(H)) /\ pending \in Seq(GoodItem(H))
  BY DEF Inv, Places, FlowPlaces
<1>3. Head(pending) \in GoodItem(H)
  BY <1>1, <1>2, HeadTailProperties
<1>4. ItemsGive(H, queue') = ItemsGive(H, queue) \cup ItemGives(H, Head(pending))
  BY <1>1, <1>2, <1>3, GivesAppend
<1>5. ItemsGive(H, pending) = ItemsGive(H, pending') \cup ItemGives(H, Head(pending))
  BY <1>1, <1>2, GivesHead
<1>6. FlowGives' = FlowGives /\ StackGives' = StackGives
  BY <1>1, <1>4, <1>5 DEF FlowGives, DecodeGives, StackGives, PushGives, Holding, stackVars
<1>7. QED
  BY <1>1, <1>6, SameTracer, PaidMoved DEF Owed

LEMMA TakePaid == ASSUME Inv, Take, Collecting PROVE Paid'
<1>1. /\ heap' = heap /\ H' = H /\ marked' = marked
      /\ UNCHANGED <<t, phase, rootIdx, pending, stackVars>>
      /\ m.st = "idle" /\ queue # <<>> /\ queue' = Tail(queue)
      /\ m'.st = "decode" /\ m'.item = Head(queue)
  BY DEF Take, markerKeeps, coreVars, H, Inv, TypeOK, MarkerType
<1>2. queue \in Seq(GoodItem(H))
  BY DEF Inv, Places, FlowPlaces
<1>3. ItemsGive(H, queue) = ItemsGive(H, queue') \cup ItemGives(H, Head(queue))
  BY <1>1, <1>2, GivesHead
<1>4. FlowGives' = FlowGives /\ StackGives' = StackGives
  BY <1>1, <1>3 DEF FlowGives, DecodeGives, StackGives, PushGives, Holding, stackVars
<1>5. QED
  BY <1>1, <1>4, SameTracer, PaidMoved DEF Owed

LEMMA DecodeContinuationPaid == ASSUME Inv, DecodeContinuation, Collecting PROVE Paid'
<1>1. /\ heap' = heap /\ H' = H /\ marked' = marked
      /\ UNCHANGED <<t, phase, rootIdx, queue, pending, stackVars>>
      /\ m.st = "decode" /\ m.item.t = "cont"
      /\ m'.st \in {"record", "push"} /\ m'.push = m.item.e
  BY DEF DecodeContinuation, decodeKeeps, markerKeeps, coreVars, H, Inv, TypeOK, MarkerType
<1>2. FlowGives = FlowGives' \cup EntryGives(H, m.item.e)
  BY <1>1 DEF FlowGives, DecodeGives, ItemGives
<1>3. StackGives' = StackGives \cup EntryGives(H, m.item.e)
  BY <1>1 DEF StackGives, PushGives, Holding, stackVars
<1>4. QED
  BY <1>1, <1>2, <1>3, SameTracer, PaidMoved DEF Owed

LEMMA DecodeRawPaid == ASSUME Inv, DecodeRaw, Collecting PROVE Paid'
<1> DEFINE p == <<m.item.o, m.item.part>>
<1>1. /\ heap' = heap /\ H' = H /\ marked' = marked \cup {p}
      /\ UNCHANGED <<t, phase, rootIdx, queue, pending, stackVars>>
      /\ m.st = "decode" /\ m.item.t = "raw" /\ m'.st = "idle"
  BY DEF DecodeRaw, decodeKeeps, markerKeeps, coreVars, H, Inv, TypeOK, MarkerType
<1>2. m.item.o \in Obj /\ m.item.part # "head"
  <2>1. m.item \in GoodItem(H)
    BY <1>1 DEF Inv, Places, MarkerPlaces
  <2>2. QED
    BY <1>1, <2>1 DEF GoodItem
<1>3. FlowGives = FlowGives' \cup {p}
  BY <1>1 DEF FlowGives, DecodeGives, ItemGives
<1>4. StackGives' = StackGives
  BY <1>1 DEF StackGives, PushGives, Holding, stackVars
<1>5. marked \cup Owed = marked' \cup Owed'
  BY <1>1, <1>3, <1>4, SameTracer DEF Owed
<1>6. \A o \in Obj : <<o, "head">> \in marked' \ marked =>
                       Needs(H, o) \subseteq marked' \cup Owed'
  BY <1>1, <1>2
<1>7. {} \subseteq AllParts(Known) /\ marked' \cup Owed' \subseteq marked \cup Owed \cup {}
      /\ marked \subseteq marked' /\ marked \cup Owed \subseteq marked' \cup Owed'
  BY <1>1, <1>5
<1>8. QED
  BY <1>1, <1>6, <1>7, PaidKept

\* A child left unmarked is in the range that is recorded, or being recorded.
LEMMA LeftChild ==
  ASSUME Inv, Collecting, m.st = "decode", m.item.t = "handle", LeaveChild(m.item.o)
  PROVE  Heads({m.item.o}) \subseteq EntryGives(H, t.re)
<1>1. StackFull /\ haveEnt
  BY DEF LeaveChild
<1>2. FitsOrRecorded(H, t.re, m.item, 1, Free)
  BY <1>1 DEF Inv, Account, Fits, AllFit, Decoding
<1>3. Used + 1 > Room
  <2>1. ring \in Seq(Entry) /\ stackMem \in Seq(Entry)
    BY DEF Inv, TypeOK
  <2>2. Len(ring) \in Nat /\ Len(stackMem) \in Nat
    BY <2>1, LenProperties
  <2>3. lim.onchip \in Nat /\ lim.mem \in Nat
    BY LimitTypes DEF Inv, TypeOK
  <2>4. Len(ring) >= lim.onchip /\ Len(stackMem) >= lim.mem
    BY <1>1 DEF StackFull
  <2>5. Used = Len(ring) + Len(stackMem)
    BY <2>2 DEF Used
  <2>6. QED
    BY <2>2, <2>3, <2>4, <2>5 DEF Room
<1>4. Used \in Nat /\ Room \in Nat
  <2>1. ring \in Seq(Entry) /\ stackMem \in Seq(Entry)
    BY DEF Inv, TypeOK
  <2>2. Len(ring) \in Nat /\ Len(stackMem) \in Nat
    BY <2>1, LenProperties
  <2>3. lim.onchip \in Nat /\ lim.mem \in Nat
    BY LimitTypes DEF Inv, TypeOK
  <2>4. QED
    BY <2>2, <2>3 DEF Used, Room
<1>5. QED
  BY <1>2, <1>3, <1>4 DEF FitsOrRecorded, Free

LEMMA DecodeHandlePaid == ASSUME Inv, DecodeHandle, Collecting PROVE Paid'
<1> DEFINE o == m.item.o
           p == <<o, "head">>
<1>1. /\ heap' = heap /\ H' = H /\ UNCHANGED <<t, phase, rootIdx, queue, pending, stackVars>>
      /\ m.st = "decode" /\ m.item.t = "handle" /\ m \in MarkerType /\ heap \in DOMAIN Heaps
  BY DEF DecodeHandle, decodeKeeps, markerKeeps, coreVars, H, Inv, TypeOK
<1>2. o \in Obj
  BY <1>1, ItemCases DEF Inv, Places, MarkerPlaces
<1>3. FlowGives = ItemsGive(H, queue) \cup ItemsGive(H, pending) \cup {p}
  BY <1>1 DEF FlowGives, DecodeGives, ItemGives, Heads
<1>4. m'.st # "decode" => FlowGives' = ItemsGive(H, queue) \cup ItemsGive(H, pending)
  BY <1>1 DEF FlowGives, DecodeGives
<1>5. TracerGives' = TracerGives /\ RootsToCome' = RootsToCome
  BY <1>1, SameTracer
<1>6. PushGives = {}
  BY <1>1 DEF PushGives, Holding
<1>7. EntriesGive(H, ring)' = EntriesGive(H, ring) /\ EntriesGive(H, stackMem)' = EntriesGive(H, stackMem)
      /\ EntriesGive(H, rescan)' = EntriesGive(H, rescan)
  BY <1>1 DEF stackVars
<1>8. ASSUME marked' = marked, m'.st # "decode", p \in marked \cup StackGives',
             PushGives' \subseteq AllParts(Known)
      PROVE  Paid'
  <2>1. FlowGives = FlowGives' \cup {p} /\ StackGives' = StackGives \cup PushGives'
    BY <1>3, <1>4, <1>6, <1>7, <1>8 DEF StackGives
  <2>2. marked \cup Owed \subseteq marked' \cup Owed'
    BY <1>5, <1>8, <2>1 DEF Owed
  <2>3. marked' \cup Owed' \subseteq marked \cup Owed \cup PushGives'
    BY <1>5, <1>8, <2>1 DEF Owed
  <2>4. marked \subseteq marked' /\ \A x \in Obj : <<x, "head">> \in marked' \ marked =>
                                        Needs(H, x) \subseteq marked' \cup Owed'
    BY <1>8
  <2>5. QED
    BY <1>1, <1>8, <2>2, <2>3, <2>4, PaidKept
<1>9. CASE IsMarked(o)
  <2>1. marked' = marked /\ m'.st = "idle" /\ p \in marked
    BY <1>1, <1>9 DEF DecodeHandle, IsMarked, MarkerType
  <2>2. PushGives' = {}
    BY <2>1 DEF PushGives, Holding
  <2>3. QED
    BY <1>8, <2>1, <2>2
<1>10. CASE ~IsMarked(o) /\ LeaveChild(o)
  <2>1. haveEnt /\ marked' = marked
    BY <1>10 DEF DecodeHandle, LeaveChild
  <2>2. p \in EntryGives(H, t.re)
    BY <1>1, <1>10, LeftChild DEF Heads
  <2>3. EntryGives(H, t.re) \subseteq AllParts(Known)
    BY <2>1 DEF Inv, Account, Recordable
  <2>4. CASE rescDone
    <3>1. m'.st = "idle"
      BY <1>1, <1>10, <2>4 DEF DecodeHandle, MarkerType
    <3>2. PushGives' = {}
      BY <3>1 DEF PushGives, Holding
    <3>3. EntryGives(H, t.re) \subseteq StackGives
      BY <2>4 DEF Inv, Account, Recordable
    <3>4. p \in StackGives'
      BY <1>6, <1>7, <2>2, <3>3 DEF StackGives
    <3>5. QED
      BY <1>8, <2>1, <3>1, <3>2, <3>4
  <2>5. CASE ~rescDone
    <3>1. m'.st = "record" /\ m'.push = t.re
      BY <1>1, <1>10, <2>5 DEF DecodeHandle, MarkerType
    <3>2. PushGives' = EntryGives(H, t.re)
      BY <1>1, <3>1 DEF PushGives, Holding
    <3>3. p \in StackGives'
      BY <2>2, <3>2 DEF StackGives
    <3>4. QED
      BY <1>8, <2>1, <2>3, <3>1, <3>2, <3>3
  <2>6. QED
    BY <2>4, <2>5
<1>11. CASE ~IsMarked(o) /\ ~LeaveChild(o)
  <2>1. marked' = marked \cup {p}
    BY <1>11 DEF DecodeHandle
  <2>2. m'.st # "decode" /\ PushGives' = Needs(H, o)
    <3>1. CASE Pushable(o)
      <4>1. m'.st = "push" /\ m'.push = EntryOf(o)
        BY <1>1, <1>11, <3>1 DEF DecodeHandle, MarkerType
      <4>2. PushGives' = EntryGives(H, EntryOf(o))
        BY <1>1, <4>1 DEF PushGives, Holding
      <4>3. QED
        BY <1>1, <1>2, <3>1, <4>1, <4>2, EntryOfIsGood
    <3>2. CASE ~Pushable(o)
      <4>1. m'.st = "idle"
        BY <1>1, <1>11, <3>2 DEF DecodeHandle, MarkerType
      <4>2. Kind[o] = "leaf" /\ H.slots[o] = <<>> /\ H.table[o] = <<>>
        BY <1>1, <1>2, <3>2, HeapFacts DEF Pushable, HeapOK
      <4>3. Children(H, o) = {}
        BY <4>2 DEF Children, Handles
      <4>4. Needs(H, o) = {}
        BY <4>2, <4>3 DEF Needs, Parts, Heads
      <4>5. QED
        BY <4>1, <4>4 DEF PushGives, Holding
    <3>3. QED
      BY <3>1, <3>2
  <2>3. p \in Owed /\ p \in AllParts(Known)
    <3>1. p \in Owed
      BY <1>3 DEF Owed
    <3>2. QED
      BY <3>1 DEF Inv, Account, Paid
  <2>4. o \in Known /\ Needs(H, o) \subseteq AllParts(Known)
    BY <1>1, <1>2, <2>3, KnownFacts, HeadParts
  <2>5. FlowGives = FlowGives' \cup {p} /\ StackGives' = StackGives \cup Needs(H, o)
    BY <1>3, <1>4, <1>6, <1>7, <2>2 DEF StackGives
  <2>6. marked \cup Owed \subseteq marked' \cup Owed' /\ marked \subseteq marked'
    BY <1>5, <2>1, <2>5 DEF Owed
  <2>7. marked' \cup Owed' \subseteq marked \cup Owed \cup Needs(H, o)
    BY <1>5, <2>1, <2>3, <2>5 DEF Owed
  <2>8. ASSUME NEW x \in Obj, <<x, "head">> \in marked' \ marked
        PROVE  Needs(H, x) \subseteq marked' \cup Owed'
    <3>1. x = o
      BY <2>1, <2>8
    <3>2. Needs(H, o) \subseteq Owed'
      BY <2>5 DEF Owed
    <3>3. QED
      BY <3>1, <3>2
  <2>9. QED
    BY <1>1, <2>4, <2>6, <2>7, <2>8, PaidKept
<1>12. QED
  BY <1>9, <1>10, <1>11

\* Entries move between the marker, the ring, the memory part and the list.
LEMMA StackMoves ==
  ASSUME Inv, Push \/ Spill \/ Refill \/ Record \/ ReadBack
  PROVE  StackGives' = StackGives /\ m.st # "decode" /\ m'.st # "decode"
<1>1. H' = H /\ m \in MarkerType
  BY DEF Push, Spill, Refill, Record, ReadBack, stackKeeps, markerKeeps, coreVars, H, Inv, TypeOK
<1>2. m.st # "decode" /\ m'.st # "decode"
  BY <1>1 DEF Push, Spill, Refill, Record, ReadBack, MarkerType
<1> DEFINE S == StackEntry
<1>3. ring \in Seq(S) /\ stackMem \in Seq(S) /\ rescan \in Seq(S) /\ (Holding => m.push \in S)
  BY DEF Inv, Places, StackPlaces, MarkerPlaces
<1> HIDE DEF S
<1> SUFFICES StackGives' = StackGives
  BY <1>2
<1>4. CASE UNCHANGED stackVars /\ Holding /\ Holding' /\ m'.push = m.push
  BY <1>1, <1>4 DEF StackGives, PushGives, stackVars
<1>5. CASE UNCHANGED stackVars /\ ~Holding /\ ~Holding'
  BY <1>1, <1>5 DEF StackGives, PushGives, stackVars
<1>6. CASE Push
  <2>1. CASE ring' = Append(ring, m.push) /\ m' = [m EXCEPT !.st = "idle"]
    <3>1. Holding /\ ~Holding' /\ UNCHANGED <<stackMem, rescan>>
      BY <1>1, <1>6, <2>1 DEF Push, Holding, MarkerType
    <3>2. EntriesGive(H, ring') = EntriesGive(H, ring) \cup EntryGives(H, m.push)
      BY <1>3, <2>1, <3>1, GivesAppend
    <3>3. QED
      BY <1>1, <3>1, <3>2 DEF StackGives, PushGives
  <2>2. CASE m' = [m EXCEPT !.st = "spill", !.batch = 0] /\ UNCHANGED ring
    BY <1>1, <1>4, <1>6, <2>2 DEF Push, Holding, MarkerType, stackVars
  <2>3. QED
    BY <1>6, <2>1, <2>2 DEF Push
<1>7. CASE Spill
  <2>1. Holding /\ Holding' /\ m'.push = m.push /\ rescan' = rescan
    BY <1>1, <1>7 DEF Spill, Holding, MarkerType
  <2>2. CASE UNCHANGED <<ring, stackMem>>
    BY <1>4, <2>1, <2>2 DEF stackVars
  <2>3. CASE ~UNCHANGED <<ring, stackMem>>
    <3>1. ring # <<>> /\ stackMem' = Append(stackMem, Head(ring)) /\ ring' = Tail(ring)
      BY <1>7, <2>3 DEF Spill, SpillOver
    <3>2. Head(ring) \in S
      BY <1>3, <3>1, HeadTailProperties
    <3>3. EntriesGive(H, stackMem') = EntriesGive(H, stackMem) \cup EntryGives(H, Head(ring))
      BY <1>3, <3>1, <3>2, GivesAppend
    <3>4. EntriesGive(H, ring) = EntriesGive(H, ring') \cup EntryGives(H, Head(ring))
      BY <1>3, <3>1, GivesHead
    <3>5. QED
      BY <1>1, <2>1, <3>3, <3>4 DEF StackGives, PushGives
  <2>4. QED
    BY <2>2, <2>3
<1>8. CASE Refill
  <2>1. ~Holding /\ ~Holding' /\ rescan' = rescan
    BY <1>1, <1>8 DEF Refill, Holding, MarkerType
  <2>2. CASE UNCHANGED <<ring, stackMem>>
    BY <1>5, <2>1, <2>2 DEF stackVars
  <2>3. CASE ~UNCHANGED <<ring, stackMem>>
    <3> DEFINE x == stackMem[Len(stackMem)]
               front == SubSeq(stackMem, 1, Len(stackMem) - 1)
    <3>1. stackMem # <<>> /\ ring' = <<x>> \o ring /\ stackMem' = front
      BY <1>8, <2>3 DEF Refill, RefillOver
    <3>2. x \in S
      BY <1>3, <3>1, MembersLast
    <3>3. EntriesGive(H, stackMem) = EntriesGive(H, front) \cup EntryGives(H, x)
      BY <1>3, <3>1, GivesLast
    <3> HIDE DEF x, front
    <3> DEFINE y == <<x>>
    <3>4. y \in Seq(S) /\ Members(y) = {x}
      BY <3>2, MembersOne
    <3> HIDE DEF y
    <3>5. EntriesGive(H, y) = EntryGives(H, x)
      BY <3>4 DEF EntriesGive
    <3>6. EntriesGive(H, y \o ring) = EntriesGive(H, y) \cup EntriesGive(H, ring)
      BY <1>3, <3>4, GivesConcat
    <3>7. ring' = y \o ring
      BY <3>1 DEF y
    <3>8. EntriesGive(H, ring') = EntryGives(H, x) \cup EntriesGive(H, ring)
      BY <3>5, <3>6, <3>7
    <3>9. EntriesGive(H, stackMem) = EntriesGive(H, stackMem') \cup EntryGives(H, x)
      BY <3>1, <3>3
    <3>10. QED
      BY <1>1, <2>1, <3>8, <3>9 DEF StackGives, PushGives
  <2>4. QED
    BY <2>2, <2>3
<1>9. CASE Record
  <2>1. Holding /\ ~Holding' /\ UNCHANGED <<ring, stackMem>> /\ rescan' = Append(rescan, m.push)
    BY <1>1, <1>9 DEF Record, Holding, MarkerType
  <2>2. EntriesGive(H, rescan') = EntriesGive(H, rescan) \cup EntryGives(H, m.push)
    BY <1>3, <2>1, GivesAppend
  <2>3. QED
    BY <1>1, <2>1, <2>2 DEF StackGives, PushGives
<1>10. CASE ReadBack
  <2> DEFINE x == rescan[Len(rescan)]
             front == SubSeq(rescan, 1, Len(rescan) - 1)
  <2>1. /\ ~Holding /\ ~Holding' /\ UNCHANGED stackMem
        /\ rescan # <<>> /\ ring' = Append(ring, x) /\ rescan' = front
    BY <1>1, <1>10 DEF ReadBack, Holding, MarkerType, Inv, Places, MarkerPlaces
  <2>2. x \in S
    BY <1>3, <2>1, MembersLast
  <2>3. EntriesGive(H, rescan) = EntriesGive(H, front) \cup EntryGives(H, x)
    BY <1>3, <2>1, GivesLast
  <2> HIDE DEF x, front
  <2>4. EntriesGive(H, ring') = EntriesGive(H, ring) \cup EntryGives(H, x)
    BY <1>3, <2>1, <2>2, GivesAppend
  <2>5. QED
    BY <1>1, <2>1, <2>3, <2>4 DEF StackGives, PushGives
<1>11. QED
  BY <1>6, <1>7, <1>8, <1>9, <1>10

LEMMA StackMovesPaid ==
  ASSUME Inv, Push \/ Spill \/ Refill \/ Record \/ ReadBack, Collecting
  PROVE  Paid'
<1>1. /\ heap' = heap /\ H' = H /\ marked' = marked
      /\ UNCHANGED <<t, phase, rootIdx, queue, pending>>
  BY DEF Push, Spill, Refill, Record, ReadBack, stackKeeps, markerKeeps, coreVars, H
<1>2. StackGives' = StackGives /\ FlowGives' = FlowGives
  BY <1>1, StackMoves DEF FlowGives, DecodeGives
<1>3. QED
  BY <1>1, <1>2, SameTracer, PaidMoved DEF Owed

\* What the popped entry gives goes to the tracer and, beyond the first chunk, to
\* the continuation.
LEMMA PopFlow ==
  ASSUME Inv, Pop
  PROVE  LET e == ring[Len(ring)] IN
         /\ phase = "mark" /\ MarkerFree /\ t.st = "pop" /\ haveEnt' /\ ~rescDone'
         /\ e \in GoodEntry(H)
         /\ StackGives = StackGives' \cup EntryGives(H, e)
         /\ EntryGives(H, e) = TracerGives' \cup ItemsGive(H, pending')
         /\ EntryGives(H, t.re)' \subseteq EntryGives(H, e)
         /\ t'.st = "scan" => ScanGives' = EntryGives(H, t.re)'
         /\ \A i \in Members(pending') : i.t # "handle"
<1> DEFINE e == ring[Len(ring)]
           front == SubSeq(ring, 1, Len(ring) - 1)
           c == RangeEntry(e.k, e.o, e.at, Chunk(e.n))
           rest == Rest(e.k, e.o, e.at, e.n)
<1>1. /\ H' = H /\ heap \in DOMAIN Heaps /\ t \in TracerType /\ phase = "mark" /\ MarkerFree
      /\ t.st = "pop" /\ UNCHANGED <<m, stackMem, rescan>> /\ haveEnt' /\ ~rescDone'
      /\ ring # <<>> /\ ring' = front
  BY DEF Pop, PopReady, Scan, coreVars, H, Inv, TypeOK
<1>2. /\ e.k = "object" =>
           /\ t' = [t EXCEPT !.e = e, !.re = e, !.cont = FALSE, !.st = "header"]
           /\ pending' = <<>>
      /\ e.k # "object" =>
           /\ t' = [t EXCEPT !.e = c, !.re = c, !.cont = FALSE, !.st = "scan"]
           /\ pending' = <<>> \o rest
  BY <1>1 DEF Pop, Scan, MarkerFree
<1>3. ring \in Seq(StackEntry) /\ e \in StackEntry
  BY <1>1, MembersLast DEF Inv, Places, StackPlaces
<1>4. e \in GoodEntry(H)
  BY <1>1, <1>3 DEF StackEntry
<1>5. EntriesGive(H, ring) = EntriesGive(H, front) \cup EntryGives(H, e)
  BY <1>1, <1>3, GivesLast
<1> HIDE DEF e, front
<1>6. StackGives = StackGives' \cup EntryGives(H, e)
  BY <1>1, <1>5 DEF StackGives, PushGives, Holding, MarkerFree
<1>7. CASE e.k = "object"
  <2>1. t'.e = e /\ t'.re = e /\ t'.st = "header" /\ pending' = <<>>
    BY <1>1, <1>2, <1>7 DEF TracerType
  <2>2. TracerGives' = EntryGives(H, e) /\ EntryGives(H, t.re)' = EntryGives(H, e)
    BY <1>1, <2>1 DEF TracerGives
  <2>3. ItemsGive(H, pending') = {} /\ Members(pending') = {}
    BY <2>1, GivesNone, MembersNone
  <2>4. QED
    BY <1>1, <1>4, <1>6, <2>1, <2>2, <2>3 DEF e
<1>8. CASE e.k # "object"
  <2>1. /\ e.k \in {"range", "table"} /\ e.o \in Obj /\ e.at \in Nat /\ e.n \in Nat
        /\ e.at >= 1 /\ e.at + e.n - 1 <= Len(RangeAt(H, e.k, e.o))
        /\ EntryGives(H, e) = Heads(Seen(RangeAt(H, e.k, e.o), e.at, e.n))
    BY <1>4, <1>8, EntryParts
  <2>2. /\ rest \in Seq(GoodItem(H))
        /\ \A i \in Members(rest) : i.t = "cont"
        /\ EntryGives(H, c) = Heads(Seen(RangeAt(H, e.k, e.o), e.at, Chunk(e.n)))
        /\ Heads(Seen(RangeAt(H, e.k, e.o), e.at, e.n)) =
             Heads(Seen(RangeAt(H, e.k, e.o), e.at, Chunk(e.n))) \cup ItemsGive(H, rest)
    BY <1>1, <2>1, RestFacts
  <2>3. c.k = e.k /\ c.o = e.o /\ c.at = e.at /\ c.n = Chunk(e.n)
    BY DEF RangeEntry
  <2> HIDE DEF c, rest
  <2>4. pending' = rest
    BY <1>2, <1>8, <2>2
  <2>5. t'.e = c /\ t'.re = c /\ t'.st = "scan" /\ ~t'.cont /\ t'.rng = t.rng
    BY <1>1, <1>2, <1>8 DEF TracerType
  <2>6. RangeOf(t.e)' = RangeAt(H, e.k, e.o)
    BY <1>1, <2>1, <2>3, <2>5 DEF RangeOf, RangeAt
  <2>7. ScanGives' = EntryGives(H, c)
    BY <2>2, <2>3, <2>5, <2>6 DEF ScanGives
  <2>8. TracerGives' = ScanGives' /\ EntryGives(H, t.re)' = EntryGives(H, c)
    BY <1>1, <2>5 DEF TracerGives, TableGives
  <2>9. EntryGives(H, e) = TracerGives' \cup ItemsGive(H, pending')
    BY <2>1, <2>2, <2>4, <2>7, <2>8
  <2>10. \A i \in Members(pending') : i.t # "handle"
    BY <2>2, <2>4
  <2>11. QED
    BY <1>1, <1>4, <1>6, <2>5, <2>7, <2>8, <2>9, <2>10 DEF e
<1>9. QED
  BY <1>7, <1>8

LEMMA PopPaid == ASSUME Inv, Pop, Collecting PROVE Paid'
<1> DEFINE e == ring[Len(ring)]
<1>1. /\ heap' = heap /\ H' = H /\ marked' = marked /\ UNCHANGED <<phase, rootIdx, m, queue>>
  BY DEF Pop, coreVars, H
<1>2. /\ phase = "mark" /\ MarkerFree /\ t.st = "pop"
      /\ StackGives = StackGives' \cup EntryGives(H, e)
      /\ EntryGives(H, e) = TracerGives' \cup ItemsGive(H, pending')
  BY PopFlow
<1> HIDE DEF e
<1>3. FlowGives = {} /\ FlowGives' = ItemsGive(H, pending')
  BY <1>1, <1>2, GivesNone DEF FlowGives, DecodeGives, MarkerFree
<1>4. TracerGives = {} /\ RootsToCome = {} /\ RootsToCome' = {}
  BY <1>1, <1>2 DEF TracerGives, RootsToCome
<1>5. Owed' = Owed
  BY <1>2, <1>3, <1>4 DEF Owed
<1>6. QED
  BY <1>1, <1>5, PaidMoved

LEMMA NextWorkPaid == ASSUME Inv, NextWork, Collecting PROVE Paid'
<1>1. /\ heap' = heap /\ H' = H /\ marked' = marked /\ m \in MarkerType
      /\ UNCHANGED <<rootIdx, queue, pending, t, stackVars>>
      /\ phase = "mark" /\ phase' \in {"mark", "sweep"} /\ m.st = "idle"
  BY DEF NextWork, PopReady, MarkerFree, markerKeeps, coreVars, H, Inv, TypeOK
<1>2. m'.st \in {"refill", "readback", "sweep"}
  BY <1>1 DEF NextWork, MarkerType
<1>3. StackGives' = StackGives /\ FlowGives' = FlowGives
  BY <1>1, <1>2 DEF StackGives, PushGives, Holding, stackVars, FlowGives, DecodeGives
<1>4. TracerGives' = TracerGives
  BY <1>1 DEF TracerGives, ScanGives, TableGives, RangeOf
<1>5. RootsToCome = {} /\ RootsToCome' = {}
  BY <1>1 DEF RootsToCome
<1>6. QED
  BY <1>1, <1>3, <1>4, <1>5, PaidMoved DEF Owed

\* A collection is under way from the preload to the sweep or an abandonment.
Marking ==
  \/ StreamRoot \/ RootsDone \/ Resume \/ Tracer \/ Drain
  \/ Take \/ DecodeContinuation \/ DecodeRaw \/ DecodeHandle
  \/ Push \/ Spill \/ Refill \/ Record \/ ReadBack \/ Pop \/ NextWork

LEMMA CollectingStep ==
  ASSUME Inv, Next, Collecting'
  PROVE  Preload \/ (Collecting /\ Marking)
<1> USE DEF Inv, TypeOK, MarkerType, Phases, Collecting
<1>1. ~Start
  BY DEF Start
<1>2. ~Sweep /\ ~Abandon /\ ~Finish
  BY DEF Sweep, Abandon, Finish
<1>3. ~ClearWord
  BY DEF ClearWord
<1>4. Preload \/ Marking
  BY <1>1, <1>2, <1>3 DEF Next, Core, Marker, Marking
<1>5. CASE Core \/ Drain
  BY <1>1, <1>4, <1>5 DEF Core, StreamRoot, RootsDone, Resume, Drain
<1>6. CASE Tracer
  BY <1>4, <1>6 DEF Tracer, MemRoot, ScanElement, StartTable, ScanEnd, Header, tracerKeeps
<1>7. CASE Marker
  <2>1. CASE Preload
    BY <2>1
  <2>2. CASE Take \/ DecodeContinuation \/ DecodeRaw \/ DecodeHandle
    <3>1. phase' = phase /\ m.st \in {"idle", "decode"}
      BY <2>2 DEF Take, DecodeContinuation, DecodeRaw, DecodeHandle, decodeKeeps
    <3>2. QED
      BY <2>2, <3>1 DEF Marking
  <2>3. CASE Push \/ Spill \/ Refill \/ Record \/ ReadBack
    <3>1. phase' = phase /\ m.st \in {"push", "spill", "refill", "record", "readback"}
      BY <2>3 DEF Push, Spill, Refill, Record, ReadBack, stackKeeps
    <3>2. QED
      BY <2>3, <3>1 DEF Marking
  <2>4. CASE Pop \/ NextWork
    <3>1. phase = "mark" /\ m.st = "idle"
      BY <2>4 DEF Pop, NextWork, PopReady, MarkerFree
    <3>2. QED
      BY <2>4, <3>1 DEF Marking
  <2>5. QED
    BY <1>2, <1>7, <2>1, <2>2, <2>3, <2>4 DEF Marker
<1>8. QED
  BY <1>3, <1>5, <1>6, <1>7 DEF Next

LEMMA RootsAtPreload ==
  ASSUME Inv
  PROVE  Roots(H) = RegRoots(0) \cup MemRoots(0) \cup Handles(H.frames)
<1>1. HeapOK(H)
  BY HeapFacts DEF Inv, TypeOK
<1>2. H.reg \in Seq(Obj) /\ H.memroots \in Seq(Seq(Slots))
  BY <1>1 DEF HeapOK
<1>3. /\ \A i \in DOMAIN H.reg : i > 0
      /\ \A i \in DOMAIN H.memroots : i > 0
  BY <1>2
<1>4. RegRoots(0) = {H.reg[i] : i \in DOMAIN H.reg}
  BY <1>3 DEF RegRoots
<1>5. MemRoots(0) = UNION {Handles(H.memroots[i]) : i \in DOMAIN H.memroots}
  BY <1>3 DEF MemRoots
<1>6. QED
  BY <1>4, <1>5 DEF Roots

LEMMA PreloadPaid ==
  ASSUME Inv, Preload
  PROVE  marked' = AllParts(H.pruned) /\ Paid'
<1>1. /\ heap' = heap /\ H' = H /\ m'.st = "idle" /\ phase = "preload" /\ phase' = "reg"
      /\ UNCHANGED <<rootIdx, queue, pending, t, stackVars>>
  BY DEF Preload, markerKeeps, coreVars, H, Inv, TypeOK, MarkerType, Phases
<1>2. /\ queue = <<>> /\ pending = <<>> /\ ring = <<>> /\ stackMem = <<>> /\ rescan = <<>>
      /\ t.st = "idle" /\ rootIdx = 0
  BY <1>1 DEF Inv, Phases
<1>3. marked' = AllParts(H.pruned)
  <2>1. clean
    BY <1>1 DEF Preload, Inv, Erased
  <2>2. \A p \in marked : WordOf[p[1]] \in StaticWords
    BY <1>1, <2>1 DEF Inv, Erased
  <2>3. QED
    BY <2>2 DEF Preload
<1>4. StackGives' = {} /\ FlowGives' = {} /\ TracerGives' = {}
  BY <1>1, <1>2, GivesNone DEF StackGives, PushGives, Holding, FlowGives, DecodeGives, TracerGives,
                               stackVars
<1>5. RootsToCome' = Heads(Roots(H))
  <2>1. RegRoots(rootIdx)' = RegRoots(0) /\ MemRoots(0)' = MemRoots(0)
    BY <1>1, <1>2 DEF RegRoots, MemRoots
  <2>2. QED
    BY <1>1, <2>1, RootsAtPreload DEF RootsToCome
<1>6. heap \in DOMAIN Heaps /\ H.pruned \subseteq Obj /\ Closed(H, H.pruned) /\ Known' = Known
  BY <1>1, HeapFacts, Sizes DEF Inv, TypeOK, HeapOK, Known
<1>7. ASSUME NEW o \in Obj, <<o, "head">> \in AllParts(H.pruned)
      PROVE  Needs(H, o) \subseteq AllParts(H.pruned)
  <2>1. o \in H.pruned
    BY <1>6, <1>7, HeadParts
  <2>2. Heads(Children(H, o)) \subseteq AllParts(H.pruned)
    BY <1>6, <2>1, HeadParts DEF Closed, Heads
  <2>3. Parts(o) \subseteq AllParts(H.pruned)
    BY <2>1 DEF AllParts
  <2>4. QED
    BY <2>2, <2>3 DEF Needs
<1>8. AllParts(H.pruned) \cup Heads(Roots(H)) \subseteq AllParts(Known)
  <2>1. AllParts(H.pruned) \subseteq AllParts(Known)
    BY DEF AllParts, Known
  <2>2. QED
    BY <1>6, <2>1, KnownFacts
<1>9. Owed' = Heads(Roots(H))
  BY <1>4, <1>5 DEF Owed
<1>10. Paid'
  BY <1>1, <1>3, <1>6, <1>7, <1>8, <1>9 DEF Paid
<1>11. QED
  BY <1>3, <1>10

LEMMA ResumePaid == ASSUME Inv, Resume, Collecting PROVE Paid'
<1>1. /\ heap' = heap /\ H' = H /\ marked' = marked
      /\ UNCHANGED <<t, phase, rootIdx, m, queue, pending, stackVars>>
  BY DEF Resume, H
<1>2. StackGives' = StackGives /\ FlowGives' = FlowGives
  BY <1>1 DEF StackGives, PushGives, Holding, stackVars, FlowGives, DecodeGives
<1>3. QED
  BY <1>1, <1>2, SameTracer, PaidMoved DEF Owed

LEMMA PaidStep == ASSUME Inv, Next PROVE Paid'
<1>1. CASE ~Collecting'
  BY <1>1 DEF Paid
<1>2. CASE Preload
  BY <1>2, PreloadPaid
<1>3. CASE Collecting /\ Marking
  BY <1>3, StreamRootPaid, RootsDonePaid, ResumePaid, MemRootPaid, ScanElementPaid,
     StartTablePaid, ScanEndPaid, HeaderPaid, DrainPaid, TakePaid, DecodeContinuationPaid,
     DecodeRawPaid, DecodeHandlePaid, StackMovesPaid, PopPaid, NextWorkPaid DEF Marking, Tracer
<1>4. QED
  BY <1>1, <1>2, <1>3, CollectingStep
-----------------------------------------------------------------------------
(* The range to record *)

\* The steps that leave the range, what is recorded and the tracer's part of it.
LEMMA RecordableKept ==
  ASSUME Inv, Collecting, H' = H, Known' = Known, UNCHANGED <<haveEnt, t>>,
         rescDone' => rescDone, StackGives \subseteq StackGives'
  PROVE  Recordable'
BY DEF Inv, Account, Recordable, ScanGives, RangeOf

LEMMA RecordableStep == ASSUME Inv, Next PROVE Recordable'
<1>1. CASE ~Collecting'
  BY <1>1 DEF Recordable
<1>2. CASE Preload
  <2>1. ~haveEnt' /\ ~rescDone'
    BY <1>2 DEF Preload, Inv, Phases
  <2>2. QED
    BY <2>1 DEF Recordable
<1>3. CASE Collecting /\ Marking
  <2>1. heap' = heap /\ H' = H /\ Known' = Known
    BY <1>3 DEF Marking, StreamRoot, RootsDone, Resume, Tracer, MemRoot, ScanElement, StartTable,
                ScanEnd, Header, Drain, Take, DecodeContinuation, DecodeRaw, DecodeHandle, Push,
                Spill, Refill, Record, ReadBack, Pop, NextWork, tracerKeeps, decodeKeeps,
                stackKeeps, markerKeeps, coreVars, H, Known
  <2>2. CASE UNCHANGED <<haveEnt, t, rescDone, m, stackVars>>
    <3>1. StackGives' = StackGives
      BY <2>1, <2>2 DEF StackGives, PushGives, Holding, stackVars
    <3>2. QED
      BY <1>3, <2>1, <2>2, <3>1, RecordableKept
  <2>3. CASE RootsDone \/ MemRoot \/ (ScanEnd /\ ~haveEnt)
    <3>1. ~haveEnt
      BY <2>3 DEF RootsDone, MemRoot, Inv, Places, TracerPlaces, Phases
    <3>2. ~haveEnt' /\ ~rescDone'
      <4>1. ~rescDone
        BY <1>3, <3>1 DEF Inv, Account, Recordable
      <4>2. QED
        BY <2>3, <3>1, <4>1 DEF RootsDone, MemRoot, ScanEnd, tracerKeeps
    <3>3. QED
      BY <3>2 DEF Recordable
  <2>4. CASE ScanElement \/ (ScanEnd /\ haveEnt)
    <3>1. UNCHANGED <<haveEnt, rescDone, m, stackVars>> /\ t.st = "scan"
      BY <2>4 DEF ScanElement, ScanEnd, tracerKeeps
    <3>2. t'.re = t.re
      BY <2>4 DEF ScanElement, ScanEnd, Inv, TypeOK, TracerType
    <3>3. StackGives' = StackGives
      BY <2>1, <3>1 DEF StackGives, PushGives, Holding, stackVars
    <3>4. t'.st = "scan" => ScanGives' \subseteq ScanGives
      <4>1. CASE ScanEnd
        BY <4>1 DEF ScanEnd, Inv, TypeOK, TracerType
      <4>2. CASE ScanElement
        <5>1. /\ t.e \in Entry /\ t.e.at \in Nat /\ t.e.n \in Nat /\ t.e.n > 0
              /\ t' = [t EXCEPT !.e.at = @ + 1, !.e.n = @ - 1] /\ t \in TracerType
          BY <4>2 DEF ScanElement, Inv, TypeOK, TracerType, Entry
        <5>2. /\ t'.e.at = t.e.at + 1 /\ t'.e.n = t.e.n - 1 /\ t'.e.k = t.e.k /\ t'.e.o = t.e.o
              /\ t'.rng = t.rng
          <6> DEFINE e == [t.e EXCEPT !.at = @ + 1, !.n = @ - 1]
          <6>1. t' = [t EXCEPT !.e = e]
            BY <5>1 DEF TracerType
          <6>2. e.at = t.e.at + 1 /\ e.n = t.e.n - 1 /\ e.k = t.e.k /\ e.o = t.e.o
            BY <5>1 DEF Entry
          <6> HIDE DEF e
          <6>3. QED
            BY <5>1, <6>1, <6>2 DEF TracerType
        <5>3. RangeOf(t.e)' = RangeOf(t.e)
          BY <2>1, <5>2 DEF RangeOf
        <5> DEFINE range == RangeOf(t.e)
        <5> HIDE DEF range
        <5>4. Seen(range, t.e.at + 1, t.e.n - 1) \subseteq Seen(range, t.e.at, t.e.n)
          <6>1. \A i \in (t.e.at + 1)..(t.e.at + 1 + (t.e.n - 1) - 1) :
                   i \in t.e.at..(t.e.at + t.e.n - 1)
            BY <5>1
          <6>2. QED
            BY <6>1 DEF Seen
        <5>5. QED
          BY <5>2, <5>3, <5>4 DEF ScanGives, Heads, range
      <4>3. QED
        BY <2>4, <4>1, <4>2
    <3>5. QED
      BY <1>3, <2>1, <3>1, <3>2, <3>3, <3>4 DEF Inv, Account, Recordable
  <2>5. CASE StartTable
    <3> DEFINE e == RangeEntry("table", t.e.o, 1, Chunk(Len(H.table[t.e.o])))
               items == ItemsGive(H, Rest("table", t.e.o, 1, Len(H.table[t.e.o])))
    <3>1. /\ t.st = "scan" /\ t.cont /\ t'.re = e /\ ScanGives' = EntryGives(H, e)
          /\ Heads(Handles(H.table[t.e.o])) = EntryGives(H, e) \cup items
      BY <2>5, StartTableFlow
    <3> HIDE DEF e, items
    <3>2. TableGives \subseteq Owed
      BY <3>1 DEF Owed, TracerGives
    <3>3. TableGives = EntryGives(H, e) \cup items
      BY <3>1 DEF TableGives
    <3>4. EntryGives(H, e) \subseteq AllParts(Known)
      BY <1>3, <3>2, <3>3 DEF Inv, Account, Paid
    <3>5. ~rescDone'
      BY <2>5 DEF StartTable
    <3>6. QED
      BY <2>1, <3>1, <3>4, <3>5 DEF Recordable
  <2>6. CASE Header
    <3> DEFINE e == HeaderRange(t.e.o)
    <3>1. /\ t.st = "header" /\ ~rescDone /\ t'.re \in {t.e, e} /\ ScanGives' = EntryGives(H, e)
          /\ EntryGives(H, e) \subseteq EntryGives(H, t.e)
      BY <2>6, HeaderFlow
    <3> HIDE DEF e
    <3>2. EntryGives(H, t.e) \subseteq Owed
      BY <3>1 DEF Owed, TracerGives
    <3>3. EntryGives(H, t.e) \subseteq AllParts(Known)
      BY <1>3, <3>2 DEF Inv, Account, Paid
    <3>4. ~rescDone'
      BY <2>6, <3>1 DEF Header
    <3>5. QED
      BY <2>1, <3>1, <3>3, <3>4 DEF Recordable
  <2>7. CASE DecodeContinuation \/ DecodeRaw
    <3>1. UNCHANGED <<haveEnt, t, rescDone, stackVars>> /\ m.st = "decode"
      BY <2>7 DEF DecodeContinuation, DecodeRaw, decodeKeeps
    <3>2. StackGives \subseteq StackGives'
      BY <2>1, <3>1 DEF StackGives, PushGives, Holding, stackVars
    <3>3. QED
      BY <1>3, <2>1, <3>1, <3>2, RecordableKept
  <2>8. CASE DecodeHandle
    <3>1. UNCHANGED <<haveEnt, t, stackVars>> /\ m.st = "decode" /\ m \in MarkerType
      BY <2>8 DEF DecodeHandle, decodeKeeps, Inv, TypeOK
    <3>2. StackGives \subseteq StackGives'
      BY <2>1, <3>1 DEF StackGives, PushGives, Holding, stackVars
    <3>3. CASE rescDone' => rescDone
      BY <1>3, <2>1, <3>1, <3>2, <3>3, RecordableKept
    <3>4. CASE rescDone' /\ ~rescDone
      <4>1. haveEnt /\ m'.st = "record" /\ m'.push = t.re
        BY <2>8, <3>1, <3>4 DEF DecodeHandle, LeaveChild, MarkerType
      <4>2. EntryGives(H, t.re) \subseteq StackGives'
        BY <2>1, <4>1 DEF StackGives, PushGives, Holding
      <4>3. QED
        BY <1>3, <2>1, <3>1, <4>1, <4>2 DEF Inv, Account, Recordable, ScanGives, RangeOf
    <3>5. QED
      BY <3>3, <3>4
  <2>9. CASE Push \/ Spill \/ Refill \/ Record \/ ReadBack
    <3>1. StackGives' = StackGives
      BY <2>9, StackMoves
    <3>2. UNCHANGED <<haveEnt, t, rescDone>>
      BY <2>9 DEF Push, Spill, Refill, Record, ReadBack, stackKeeps
    <3>3. QED
      BY <1>3, <2>1, <3>1, <3>2, RecordableKept
  <2>10. CASE Pop
    <3> DEFINE e == ring[Len(ring)]
    <3>1. /\ ~rescDone' /\ EntryGives(H, e) \subseteq StackGives
          /\ EntryGives(H, t.re)' \subseteq EntryGives(H, e)
          /\ t'.st = "scan" => ScanGives' = EntryGives(H, t.re)'
      BY <2>10, PopFlow
    <3> HIDE DEF e
    <3>2. EntryGives(H, e) \subseteq AllParts(Known)
      BY <1>3, <3>1 DEF Inv, Account, Paid, Owed
    <3>3. QED
      BY <2>1, <3>1, <3>2 DEF Recordable
  <2>11. CASE Take \/ NextWork
    <3>1. /\ UNCHANGED <<haveEnt, t, rescDone, stackVars>> /\ m.st = "idle"
          /\ m'.st \in {"decode", "refill", "readback", "sweep"}
      BY <2>11 DEF Take, NextWork, PopReady, MarkerFree, Inv, TypeOK, MarkerType
    <3>2. StackGives' = StackGives
      BY <2>1, <3>1 DEF StackGives, PushGives, Holding, stackVars
    <3>3. QED
      BY <1>3, <2>1, <3>1, <3>2, RecordableKept
  <2>12. StreamRoot \/ Resume \/ Drain => UNCHANGED <<haveEnt, t, rescDone, m, stackVars>>
    BY DEF StreamRoot, Resume, Drain
  <2>13. QED
    BY <1>3, <2>2, <2>3, <2>4, <2>5, <2>6, <2>7, <2>8, <2>9, <2>10, <2>11, <2>12
       DEF Marking, Tracer
<1>4. QED
  BY <1>1, <1>2, <1>3, CollectingStep

LEMMA FlowSizes ==
  ASSUME Inv
  PROVE  /\ Used \in Nat /\ Room \in Nat /\ Free \in Int /\ Decoding \in {0, 1}
         /\ Len(ring) \in Nat /\ Len(stackMem) \in Nat
         /\ Len(queue) \in Nat /\ Len(pending) \in Nat
         /\ DOMAIN queue = 1..Len(queue) /\ DOMAIN pending = 1..Len(pending)
<1>1. /\ ring \in Seq(Entry) /\ stackMem \in Seq(Entry)
      /\ queue \in Seq(Item) /\ pending \in Seq(Item)
  BY DEF Inv, TypeOK
<1>2. /\ Len(ring) \in Nat /\ Len(stackMem) \in Nat
      /\ Len(queue) \in Nat /\ Len(pending) \in Nat
      /\ DOMAIN queue = 1..Len(queue) /\ DOMAIN pending = 1..Len(pending)
  BY <1>1, LenProperties
<1>3. lim.onchip \in Nat /\ lim.mem \in Nat
  BY LimitTypes DEF Inv, TypeOK
<1>4. Used \in Nat /\ Room \in Nat /\ Decoding \in {0, 1}
  BY <1>2, <1>3 DEF Used, Room, Decoding
<1>5. Free \in Int
  BY <1>4 DEF Free
<1>6. QED
  BY <1>2, <1>4, <1>5

LEMMA FitsNearer ==
  ASSUME NEW h, NEW re, NEW i, NEW p \in Int, NEW f \in Int, NEW q \in Int, NEW g \in Int,
         FitsOrRecorded(h, re, i, p, f), q - g <= p - f
  PROVE  FitsOrRecorded(h, re, i, q, g)
BY DEF FitsOrRecorded

\* The marker fills at most the place its item leaves.
LEMMA AllFitNearer ==
  ASSUME NEW S, NEW q \in Seq(S), NEW p \in Seq(S), NEW h, NEW re, NEW item,
         NEW d \in {0, 1}, NEW e \in {0, 1}, NEW f \in Int, NEW g \in Int,
         AllFit(h, re, item, d, q, p, f), e <= d, e - g <= d - f
  PROVE  AllFit(h, re, item, e, q, p, g)
<1>1. /\ DOMAIN q = 1..Len(q) /\ DOMAIN p = 1..Len(p)
      /\ Len(q) \in Nat /\ Len(p) \in Nat
  BY LenProperties
<1>2. e = 1 => FitsOrRecorded(h, re, item, 1, g)
  <2>1. e = 1 => d = 1 /\ 1 - g <= 1 - f
    OBVIOUS
  <2>2. QED
    BY <2>1, FitsNearer DEF AllFit
<1>3. ASSUME NEW i \in 1..Len(q)
      PROVE  FitsOrRecorded(h, re, q[i], e + i, g)
  <2>1. d + i \in Int /\ e + i \in Int /\ (e + i) - g <= (d + i) - f
    OBVIOUS
  <2>2. FitsOrRecorded(h, re, q[i], d + i, f)
    BY <1>1 DEF AllFit
  <2>3. QED
    BY <2>1, <2>2, FitsNearer
<1>4. ASSUME NEW i \in 1..Len(p)
      PROVE  FitsOrRecorded(h, re, p[i], e + Len(q) + i, g)
  <2>1. /\ d + Len(q) + i \in Int /\ e + Len(q) + i \in Int
        /\ (e + Len(q) + i) - g <= (d + Len(q) + i) - f
    BY <1>1
  <2>2. FitsOrRecorded(h, re, p[i], d + Len(q) + i, f)
    BY <1>1 DEF AllFit
  <2>3. QED
    BY <2>1, <2>2, FitsNearer
<1>5. QED
  BY <1>1, <1>2, <1>3, <1>4 DEF AllFit

LEMMA AllFitNone ==
  ASSUME NEW p, NEW h, NEW re, NEW item, NEW f, \A i \in Members(p) : i.t # "handle"
  PROVE  AllFit(h, re, item, 0, <<>>, p, f)
BY DEF AllFit, FitsOrRecorded, Members

\* What the tracer appends is of the range it would record.
LEMMA AllFitScanned ==
  ASSUME NEW S, NEW q \in Seq(S), NEW p \in Seq(S), NEW x \in Seq(S), NEW h, NEW re, NEW item,
         NEW d \in {0, 1}, NEW f \in Int, AllFit(h, re, item, d, q, p, f),
         \A i \in Members(x) : Heads({i.o}) \subseteq EntryGives(h, re)
  PROVE  AllFit(h, re, item, d, q, p \o x, f)
<1> DEFINE y == p \o x
<1>1. /\ y \in Seq(S) /\ Len(y) = Len(p) + Len(x)
      /\ \A i \in 1..(Len(p) + Len(x)) : y[i] = IF i <= Len(p) THEN p[i] ELSE x[i - Len(p)]
  BY ConcatProperties
<1>2. /\ DOMAIN p = 1..Len(p) /\ DOMAIN x = 1..Len(x) /\ DOMAIN y = 1..(Len(p) + Len(x))
      /\ Len(p) \in Nat /\ Len(x) \in Nat
  BY <1>1, LenProperties
<1> HIDE DEF y
<1>3. ASSUME NEW i \in 1..(Len(p) + Len(x))
      PROVE  FitsOrRecorded(h, re, y[i], d + Len(q) + i, f)
  <2>1. CASE i <= Len(p)
    <3>1. i \in DOMAIN p /\ y[i] = p[i]
      BY <1>1, <1>2, <2>1
    <3>2. QED
      BY <3>1 DEF AllFit
  <2>2. CASE i > Len(p)
    <3>1. i - Len(p) \in DOMAIN x /\ y[i] = x[i - Len(p)]
      BY <1>1, <1>2, <2>2
    <3>2. y[i] \in Members(x)
      BY <3>1 DEF Members
    <3>3. QED
      BY <3>2 DEF FitsOrRecorded
  <2>3. QED
    BY <1>2, <2>1, <2>2
<1>4. QED
  BY <1>2, <1>3 DEF AllFit, y

\* Drain and Take keep every item at its place.
LEMMA AllFitDrained ==
  ASSUME NEW S, NEW q \in Seq(S), NEW p \in Seq(S), p # <<>>, NEW h, NEW re, NEW item,
         NEW d \in {0, 1}, NEW f \in Int, AllFit(h, re, item, d, q, p, f)
  PROVE  AllFit(h, re, item, d, Append(q, Head(p)), Tail(p), f)
<1> DEFINE y == Append(q, Head(p))
           z == Tail(p)
<1>1. Head(p) \in S /\ Head(p) = p[1] /\ z \in Seq(S) /\ Len(z) = Len(p) - 1
      /\ \A i \in 1..Len(z) : z[i] = p[i + 1]
  BY HeadTailProperties
<1>2. /\ y \in Seq(S) /\ Len(y) = Len(q) + 1 /\ \A i \in 1..Len(q) : y[i] = q[i]
      /\ y[Len(q) + 1] = p[1]
  BY <1>1, AppendProperties
<1>3. /\ DOMAIN p = 1..Len(p) /\ DOMAIN q = 1..Len(q) /\ Len(q) \in Nat /\ Len(p) \in Nat \ {0}
      /\ DOMAIN y = 1..(Len(q) + 1) /\ DOMAIN z = 1..(Len(p) - 1)
  BY <1>1, <1>2, LenProperties, EmptySeq
<1> HIDE DEF y, z
<1>4. ASSUME NEW i \in 1..(Len(q) + 1)
      PROVE  FitsOrRecorded(h, re, y[i], d + i, f)
  <2>1. CASE i \in 1..Len(q)
    BY <1>2, <1>3, <2>1 DEF AllFit
  <2>2. CASE i = Len(q) + 1
    <3>1. 1 \in DOMAIN p /\ d + Len(q) + 1 = d + i /\ y[i] = p[1]
      BY <1>2, <1>3, <2>2
    <3>2. FitsOrRecorded(h, re, p[1], d + Len(q) + 1, f)
      BY <3>1 DEF AllFit
    <3>3. QED
      BY <3>1, <3>2
  <2>3. QED
    BY <1>3, <2>1, <2>2
<1>5. ASSUME NEW i \in 1..(Len(p) - 1)
      PROVE  FitsOrRecorded(h, re, z[i], d + (Len(q) + 1) + i, f)
  <2>1. i + 1 \in DOMAIN p /\ z[i] = p[i + 1] /\ d + Len(q) + (i + 1) = d + (Len(q) + 1) + i
    BY <1>1, <1>3
  <2>2. FitsOrRecorded(h, re, p[i + 1], d + Len(q) + (i + 1), f)
    BY <2>1 DEF AllFit
  <2>3. QED
    BY <2>1, <2>2
<1>6. d = 1 => FitsOrRecorded(h, re, item, 1, f)
  BY DEF AllFit
<1>7. AllFit(h, re, item, d, y, z, f)
  BY <1>2, <1>3, <1>4, <1>5, <1>6 DEF AllFit
<1>8. QED
  BY <1>7 DEF y, z

LEMMA AllFitTaken ==
  ASSUME NEW S, NEW q \in Seq(S), NEW p \in Seq(S), q # <<>>, NEW h, NEW re, NEW item,
         NEW f \in Int, AllFit(h, re, item, 0, q, p, f)
  PROVE  AllFit(h, re, Head(q), 1, Tail(q), p, f)
<1> DEFINE z == Tail(q)
           x == Head(q)
<1>1. x = q[1] /\ z \in Seq(S) /\ Len(z) = Len(q) - 1 /\ \A i \in 1..Len(z) : z[i] = q[i + 1]
  BY HeadTailProperties
<1>2. /\ DOMAIN p = 1..Len(p) /\ DOMAIN q = 1..Len(q) /\ Len(p) \in Nat /\ Len(q) \in Nat \ {0}
      /\ DOMAIN z = 1..(Len(q) - 1)
  BY <1>1, LenProperties, EmptySeq
<1> HIDE DEF x, z
<1>3. FitsOrRecorded(h, re, x, 1, f)
  <2>1. 1 \in DOMAIN q /\ 0 + 1 = 1
    BY <1>2
  <2>2. FitsOrRecorded(h, re, q[1], 0 + 1, f)
    BY <2>1 DEF AllFit
  <2>3. QED
    BY <1>1, <2>1, <2>2
<1>4. ASSUME NEW i \in 1..(Len(q) - 1)
      PROVE  FitsOrRecorded(h, re, z[i], 1 + i, f)
  <2>1. i + 1 \in DOMAIN q /\ z[i] = q[i + 1] /\ 0 + (i + 1) = 1 + i
    BY <1>1, <1>2
  <2>2. FitsOrRecorded(h, re, q[i + 1], 0 + (i + 1), f)
    BY <2>1 DEF AllFit
  <2>3. QED
    BY <2>1, <2>2
<1>5. ASSUME NEW i \in 1..Len(p)
      PROVE  FitsOrRecorded(h, re, p[i], 1 + (Len(q) - 1) + i, f)
  <2>1. 0 + Len(q) + i = 1 + (Len(q) - 1) + i
    BY <1>2
  <2>2. FitsOrRecorded(h, re, p[i], 0 + Len(q) + i, f)
    BY <1>2 DEF AllFit
  <2>3. QED
    BY <2>1, <2>2
<1>6. AllFit(h, re, x, 1, z, p, f)
  BY <1>1, <1>2, <1>3, <1>4, <1>5 DEF AllFit
<1>7. QED
  BY <1>6 DEF x, z

LEMMA FitsNoHandle ==
  ASSUME m'.st # "decode", queue' = <<>>, \A i \in Members(pending') : i.t # "handle"
  PROVE  Fits'
<1>1. Decoding' = 0
  BY DEF Decoding
<1>2. AllFit(H', t'.re, m'.item, 0, <<>>, pending', Free')
  BY AllFitNone
<1>3. QED
  BY <1>1, <1>2 DEF Fits

LEMMA FitsKept ==
  ASSUME Inv, Collecting, haveEnt, H' = H, t'.re = t.re, UNCHANGED <<queue, pending>>,
         NEW d \in {0, 1}, Decoding' = d, NEW f \in Int, Free' = f,
         d <= Decoding, d - f <= Decoding - Free, d = 1 => m'.item = m.item
  PROVE  Fits'
<1>1. /\ queue \in Seq(Item) /\ pending \in Seq(Item) /\ Decoding \in {0, 1} /\ Free \in Int
      /\ AllFit(H, t.re, m.item, Decoding, queue, pending, Free)
  BY FlowSizes DEF Inv, TypeOK, Account, Fits
<1>2. AllFit(H, t.re, m.item, d, queue, pending, f)
  BY <1>1, AllFitNearer
<1>3. AllFit(H, t.re, m'.item, d, queue, pending, f)
  BY <1>2 DEF AllFit
<1>4. QED
  BY <1>3 DEF Fits

\* The stack's own work fills no place.
LEMMA StackMovesFits ==
  ASSUME Inv, Collecting, haveEnt, Push \/ Spill \/ Refill \/ Record
  PROVE  Fits'
<1> DEFINE n == Len(ring)
           s == Len(stackMem)
<1>1. /\ H' = H /\ lim' = lim /\ UNCHANGED <<t, queue, pending>> /\ m \in MarkerType
      /\ m.st \in {"push", "spill", "refill", "record"} /\ Room' = Room
  BY DEF Push, Spill, Refill, Record, stackKeeps, markerKeeps, coreVars, H, Room, Inv, TypeOK
<1>2. /\ ring \in Seq(Entry) /\ stackMem \in Seq(Entry) /\ rescan \in Seq(Entry)
      /\ n \in Nat /\ s \in Nat /\ Room \in Nat
  BY FlowSizes DEF Inv, TypeOK
<1>3. /\ m'.st # "decode" /\ Len(ring') \in Nat /\ Len(stackMem') \in Nat
      /\ Len(ring') + Len(stackMem') + (IF m'.st \in {"push", "spill"} THEN 1 ELSE 0)
           <= n + s + (IF m.st \in {"push", "spill"} THEN 1 ELSE 0)
  <2>1. CASE Push
    <3>1. CASE ring' = Append(ring, m.push) /\ m' = [m EXCEPT !.st = "idle"]
      <4>1. m.push \in Entry /\ m'.st = "idle" /\ m.st = "push"
        BY <2>1, <1>1, <3>1 DEF MarkerType, Push
      <4>2. Len(ring') = n + 1
        BY <1>2, <3>1, <4>1, AppendProperties
      <4>3. stackMem' = stackMem
        BY <2>1 DEF Push
      <4>4. QED
        BY <1>2, <4>1, <4>2, <4>3
    <3>2. CASE m' = [m EXCEPT !.st = "spill", !.batch = 0] /\ UNCHANGED ring
      <4>1. m'.st = "spill" /\ m.st = "push" /\ UNCHANGED <<ring, stackMem>>
        BY <2>1, <1>1, <3>2 DEF MarkerType, Push
      <4>2. QED
        BY <1>2, <4>1
    <3>3. QED
      BY <2>1, <3>1, <3>2 DEF Push
  <2>2. CASE Spill
    <3>1. CASE UNCHANGED <<ring, stackMem>>
      <4>1. m'.st \in {"push", "record", "spill"} /\ m.st = "spill"
        BY <2>2, <1>1 DEF MarkerType, Spill
      <4>2. QED
        BY <1>2, <3>1, <4>1
    <3>2. CASE ~SpillOver /\ stackMem' = Append(stackMem, Head(ring)) /\ ring' = Tail(ring)
               /\ m' = [m EXCEPT !.batch = @ + 1]
      <4>1. m'.st = "spill" /\ m.st = "spill" /\ ring # <<>>
        BY <2>2, <1>1, <3>2 DEF MarkerType, Spill, SpillOver
      <4>2. Head(ring) \in Entry /\ Len(ring') = n - 1 /\ Len(ring') \in Nat
        <5>1. Head(ring) \in Entry /\ ring' \in Seq(Entry) /\ Len(ring') = n - 1
          BY <1>2, <3>2, <4>1, HeadTailProperties
        <5>2. QED
          BY <5>1, LenProperties
      <4>3. Len(stackMem') = s + 1
        BY <1>2, <3>2, <4>2, AppendProperties
      <4>4. QED
        BY <1>2, <4>1, <4>2, <4>3
    <3>3. QED
      BY <2>2, <3>1, <3>2 DEF Spill
  <2>3. CASE Refill
    <3>1. CASE UNCHANGED <<ring, stackMem>>
      <4>1. m'.st \in {"idle", "refill"} /\ m.st = "refill"
        BY <2>3, <1>1 DEF MarkerType, Refill
      <4>2. QED
        BY <1>2, <3>1, <4>1
    <3>2. CASE ~RefillOver /\ ring' = <<stackMem[Len(stackMem)]>> \o ring
               /\ stackMem' = SubSeq(stackMem, 1, Len(stackMem) - 1)
               /\ m' = [m EXCEPT !.batch = @ + 1]
      <4>1. m'.st = "refill" /\ m.st = "refill" /\ stackMem # <<>>
        BY <2>3, <1>1, <3>2 DEF MarkerType, Refill, RefillOver
      <4>2. stackMem[s] \in Entry /\ Len(stackMem') = s - 1 /\ Len(stackMem') \in Nat
        <5>1. stackMem[s] \in Entry /\ stackMem' \in Seq(Entry) /\ Len(stackMem') = s - 1
          BY <1>2, <3>2, <4>1, MembersLast
        <5>2. QED
          BY <5>1, LenProperties
      <4> DEFINE one == <<stackMem[s]>>
      <4>3. one \in Seq(Entry) /\ Len(one) = 1
        BY <4>2, MembersOne
      <4>4. ring' = one \o ring
        BY <3>2
      <4> HIDE DEF one
      <4>5. Len(ring') = 1 + n
        BY <1>2, <4>3, <4>4, ConcatProperties
      <4>6. QED
        BY <1>2, <4>1, <4>2, <4>5
    <3>3. QED
      BY <2>3, <3>1, <3>2 DEF Refill
  <2>4. CASE Record
    <3>1. m'.st = "idle" /\ UNCHANGED <<ring, stackMem>>
      BY <2>4, <1>1 DEF Record, MarkerType
    <3>2. QED
      BY <1>2, <3>1
  <2>5. QED
    BY <2>1, <2>2, <2>3, <2>4
<1> DEFINE u == Len(ring') + Len(stackMem') + IF m'.st \in {"push", "spill"} THEN 1 ELSE 0
           f == Room - u
<1>4. u \in Nat /\ u <= Used
  BY <1>2, <1>3 DEF Used
<1>5. Decoding = 0 /\ Decoding' = 0 /\ Used' = u
  BY <1>1, <1>3 DEF Decoding, Used
<1>6. Free' = f
  BY <1>1, <1>5 DEF Free
<1> HIDE DEF u
<1>7. f \in Int /\ 0 - f <= Decoding - Free /\ 0 <= Decoding
  BY <1>2, <1>4, <1>5, FlowSizes DEF Free
<1> HIDE DEF f
<1>8. t'.re = t.re /\ UNCHANGED <<queue, pending>> /\ 0 \in {0, 1} /\ ~(0 = 1)
  BY <1>1
<1>9. QED
  BY <1>1, <1>5, <1>6, <1>7, <1>8, FitsKept

LEMMA DecodeFits ==
  ASSUME Inv, Collecting, haveEnt, DecodeContinuation \/ DecodeRaw \/ DecodeHandle
  PROVE  Fits'
<1>1. /\ H' = H /\ lim' = lim /\ UNCHANGED <<t, queue, pending, ring, stackMem>>
      /\ m \in MarkerType /\ m.st = "decode" /\ Room' = Room
  BY DEF DecodeContinuation, DecodeRaw, DecodeHandle, decodeKeeps, markerKeeps, coreVars,
         stackVars, H, Room, Inv, TypeOK
<1>2. m'.st \in {"idle", "push", "record"}
  BY <1>1 DEF DecodeContinuation, DecodeRaw, DecodeHandle, MarkerType
<1> DEFINE n == Len(ring) + Len(stackMem)
           k == IF m'.st \in {"push", "spill"} THEN 1 ELSE 0
           f == Room - (n + k)
<1>3. Decoding = 1 /\ Decoding' = 0 /\ Used = n + 0 /\ Used' = n + k
  BY <1>1, <1>2 DEF Decoding, Used
<1>4. Free = Room - (n + 0) /\ Free' = f
  BY <1>1, <1>3 DEF Free
<1>5. n \in Nat /\ k \in {0, 1} /\ Room \in Nat
  BY FlowSizes
<1> HIDE DEF n, k
<1>6. f \in Int /\ 0 - f <= 1 - (Room - (n + 0))
  BY <1>5
<1> HIDE DEF f
<1>7. QED
  BY <1>1, <1>3, <1>4, <1>6, FitsKept

LEMMA TableFits ==
  ASSUME Inv, Collecting, haveEnt, StartTable
  PROVE  Fits'
<1> DEFINE rest == Rest("table", t.e.o, 1, Len(H.table[t.e.o]))
           n == Len(H.table[t.e.o])
<1>1. /\ H' = H /\ lim' = lim /\ UNCHANGED <<m, queue, ring, stackMem>> /\ Room' = Room
      /\ heap \in DOMAIN Heaps /\ t.e.o \in Obj /\ pending' = pending \o rest
  BY DEF StartTable, tracerKeeps, coreVars, stackVars, H, Room, Inv, TypeOK, TracerType, Entry
<1>2. /\ rest \in Seq(GoodItem(H)) /\ \A i \in Members(rest) : i.t = "cont"
      /\ n <= SCAN_CHUNK => rest = <<>>
  BY <1>1, WholeRest DEF RangeAt
<1> HIDE DEF rest
<1>3. CASE MarkerFree
  <2>1. pending' = rest
    BY <1>1, <1>2, <1>3 DEF MarkerFree
  <2>2. m'.st # "decode" /\ queue' = <<>>
    BY <1>1, <1>3 DEF MarkerFree
  <2>3. \A i \in Members(pending') : i.t # "handle"
    BY <1>2, <2>1
  <2>4. QED
    BY <2>2, <2>3, FitsNoHandle
<1>4. CASE StackRoom /\ n <= SCAN_CHUNK
  <2>1. pending \in Seq(Item) /\ queue \in Seq(Item) /\ Len(queue) <= QUEUE /\ Len(pending) <= 3
    BY DEF Inv, TypeOK
  <2>2. pending' = pending
    BY <1>1, <1>2, <1>4, <2>1
  <2>3. Decoding' = Decoding /\ Used' = Used /\ Free' = Free
    BY <1>1 DEF Decoding, Used, Free
  <2>4. AllFit(H, t'.re, m.item, Decoding, queue, pending, Free)
    <3> DEFINE s == Len(ring) + Len(stackMem)
               k == IF m.st \in {"push", "spill"} THEN 1 ELSE 0
    <3>1. /\ Free = Room - (s + k) /\ s \in Nat /\ k + Decoding <= 1 /\ Decoding \in {0, 1}
          /\ k \in {0, 1}
      BY FlowSizes DEF Free, Used, Decoding
    <3>2. s + QUEUE + 4 <= Room /\ QUEUE \in Nat /\ Room \in Nat
      BY <1>4, FlowSizes, Sizes DEF StackRoom, Room
    <3> HIDE DEF s, k
    <3>3. Decoding + QUEUE + 3 <= Free /\ Free \in Int
      BY <3>1, <3>2
    <3>4. /\ DOMAIN queue = 1..Len(queue) /\ DOMAIN pending = 1..Len(pending)
          /\ Len(queue) \in Nat /\ Len(pending) \in Nat
      BY FlowSizes
    <3>5. Decoding = 1 => 1 <= Free
      BY <3>1, <3>2, <3>3
    <3>6. \A i \in DOMAIN queue : Decoding + i <= Free
      BY <2>1, <3>1, <3>2, <3>3, <3>4
    <3>7. \A i \in DOMAIN pending : Decoding + Len(queue) + i <= Free
      BY <2>1, <3>1, <3>2, <3>3, <3>4
    <3>8. QED
      BY <3>5, <3>6, <3>7 DEF AllFit, FitsOrRecorded
  <2>5. QED
    BY <1>1, <2>2, <2>3, <2>4 DEF Fits
<1>5. QED
  BY <1>3, <1>4 DEF StartTable, TableMayStart

LEMMA ScanFits ==
  ASSUME Inv, Collecting, haveEnt, ScanElement
  PROVE  Fits'
<1> DEFINE x == RangeOf(t.e)[t.e.at]
           y == HandlesOf(x)
<1>1. /\ H' = H /\ lim' = lim /\ UNCHANGED <<m, queue, ring, stackMem>> /\ Room' = Room
      /\ t.st = "scan" /\ t.e.n > 0 /\ pending' = pending \o y /\ t \in TracerType
      /\ t'.re = t.re
  BY DEF ScanElement, tracerKeeps, coreVars, stackVars, H, Room, Inv, TypeOK, TracerType
<1>2. x \in Seq(Obj) /\ t.e.at \in Nat /\ t.e.n \in Nat
  BY <1>1, NextElement DEF TracerType, Entry
<1>3. /\ y \in Seq(GoodItem(H)) /\ \A i \in Members(y) : i.t = "handle" /\ i.o \in Members(x)
  BY <1>2, HandlesOfFacts
<1>4. Heads(Members(x)) \subseteq EntryGives(H, t.re)
  <2> DEFINE range == RangeOf(t.e)
  <2>1. range[t.e.at] \in Seq(Obj)
    BY <1>2
  <2> HIDE DEF range
  <2>2. Members(range[t.e.at]) \subseteq Seen(range, t.e.at, t.e.n)
    BY <1>1, <1>2, <2>1, SeenFirst
  <2>3. Heads(Members(range[t.e.at])) \subseteq ScanGives
    BY <2>2 DEF ScanGives, Heads, range
  <2>4. ScanGives \subseteq EntryGives(H, t.re)
    BY <1>1 DEF Inv, Account, Recordable
  <2>5. QED
    BY <2>3, <2>4 DEF range
<1> HIDE DEF x, y
<1>5. \A i \in Members(y) : Heads({i.o}) \subseteq EntryGives(H, t.re)
  BY <1>3, <1>4 DEF Heads
<1>6. /\ queue \in Seq(GoodItem(H)) /\ pending \in Seq(GoodItem(H)) /\ Decoding \in {0, 1}
      /\ Free \in Int /\ AllFit(H, t.re, m.item, Decoding, queue, pending, Free)
  BY FlowSizes DEF Inv, Places, FlowPlaces, Account, Fits
<1>7. AllFit(H, t.re, m.item, Decoding, queue, pending \o y, Free)
  BY <1>3, <1>5, <1>6, AllFitScanned
<1>8. Decoding' = Decoding /\ Used' = Used /\ Free' = Free
  BY <1>1 DEF Decoding, Used, Free
<1>9. QED
  BY <1>1, <1>7, <1>8 DEF Fits

LEMMA FlowFits ==
  ASSUME Inv, Collecting, haveEnt, Drain \/ Take
  PROVE  Fits'
<1>1. /\ H' = H /\ lim' = lim /\ UNCHANGED <<t, ring, stackMem>> /\ Room' = Room
      /\ m \in MarkerType
  BY DEF Drain, Take, markerKeeps, coreVars, stackVars, H, Room, Inv, TypeOK
<1>2. /\ queue \in Seq(Item) /\ pending \in Seq(Item) /\ Decoding \in {0, 1} /\ Free \in Int
      /\ AllFit(H, t.re, m.item, Decoding, queue, pending, Free)
  BY FlowSizes DEF Inv, TypeOK, Account, Fits
<1>3. CASE Drain
  <2>1. /\ pending # <<>> /\ queue' = Append(queue, Head(pending)) /\ pending' = Tail(pending)
        /\ m' = m
    BY <1>3 DEF Drain
  <2>2. AllFit(H, t.re, m.item, Decoding, queue', pending', Free)
    BY <1>2, <2>1, AllFitDrained
  <2>3. Decoding' = Decoding /\ Used' = Used /\ Free' = Free
    BY <1>1, <2>1 DEF Decoding, Used, Free
  <2>4. QED
    BY <1>1, <2>1, <2>2, <2>3 DEF Fits
<1>4. CASE Take
  <2>1. /\ queue # <<>> /\ queue' = Tail(queue) /\ pending' = pending /\ m.st = "idle"
        /\ m'.st = "decode" /\ m'.item = Head(queue)
    BY <1>1, <1>4 DEF Take, markerKeeps, MarkerType
  <2>2. Decoding = 0 /\ Decoding' = 1 /\ Used' = Used /\ Free' = Free
    BY <1>1, <2>1 DEF Decoding, Used, Free
  <2>3. AllFit(H, t.re, m'.item, 1, queue', pending', Free)
    BY <1>2, <2>1, <2>2, AllFitTaken
  <2>4. QED
    BY <1>1, <2>1, <2>2, <2>3 DEF Fits
<1>5. QED
  BY <1>3, <1>4

LEMMA FitsStep == ASSUME Inv, Next PROVE Fits'
<1>1. CASE ~(Collecting' /\ haveEnt')
  BY <1>1 DEF Fits
<1>2. CASE Preload
  <2>1. ~haveEnt'
    BY <1>2 DEF Preload, Inv, Phases
  <2>2. QED
    BY <2>1 DEF Fits
<1>3. CASE Collecting /\ Marking /\ haveEnt'
  <2>1. CASE Header
    <3>1. MarkerFree /\ pending' = HeaderItems(t.e.o) \o HeaderRest(t.e.o)
          /\ \A i \in Members(HeaderItems(t.e.o) \o HeaderRest(t.e.o)) : i.t # "handle"
      BY <2>1, HeaderFlow
    <3>2. m'.st # "decode" /\ queue' = <<>>
      BY <2>1, <3>1 DEF Header, tracerKeeps, MarkerFree
    <3>3. QED
      BY <3>1, <3>2, FitsNoHandle
  <2>2. CASE Pop
    <3>1. MarkerFree /\ \A i \in Members(pending') : i.t # "handle"
      BY <2>2, PopFlow
    <3>2. m'.st # "decode" /\ queue' = <<>>
      BY <2>2, <3>1 DEF Pop, MarkerFree
    <3>3. QED
      BY <3>1, <3>2, FitsNoHandle
  <2>3. CASE NextWork \/ ReadBack
    <3>1. m'.st # "decode" /\ queue' = <<>> /\ pending' = <<>>
      BY <2>3 DEF NextWork, PopReady, ReadBack, MarkerFree, stackKeeps, markerKeeps, Inv, Phases,
                  TypeOK, MarkerType
    <3>2. QED
      BY <3>1, MembersNone, FitsNoHandle
  <2>4. haveEnt \/ Pop
    <3>1. Push \/ Spill \/ Refill \/ Record \/ ReadBack => haveEnt' = haveEnt
      BY DEF Push, Spill, Refill, Record, ReadBack, stackKeeps
    <3>2. StreamRoot \/ RootsDone \/ Resume \/ Tracer \/ Drain \/ NextWork => haveEnt' = haveEnt
      BY DEF StreamRoot, RootsDone, Resume, Tracer, MemRoot, ScanElement, StartTable, ScanEnd,
             Header, tracerKeeps, Drain, NextWork
    <3>3. Take \/ DecodeContinuation \/ DecodeRaw \/ DecodeHandle => haveEnt' = haveEnt
      BY DEF Take, DecodeContinuation, DecodeRaw, DecodeHandle, decodeKeeps
    <3>4. QED
      BY <1>3, <3>1, <3>2, <3>3 DEF Marking
  <2>5. Pop \/ (~StreamRoot /\ ~RootsDone /\ ~MemRoot)
    BY <2>4 DEF StreamRoot, RootsDone, MemRoot, Inv, Phases, Places, TracerPlaces
  <2>6. CASE haveEnt /\ (Resume \/ ScanEnd)
    <3>1. /\ H' = H /\ lim' = lim /\ UNCHANGED <<m, queue, pending, ring, stackMem, haveEnt>>
          /\ t'.re = t.re
      BY <2>6 DEF Resume, ScanEnd, tracerKeeps, coreVars, stackVars, H, Inv, TypeOK, TracerType
    <3>2. Decoding' = Decoding /\ Free' = Free
      BY <3>1 DEF Decoding, Used, Room, Free
    <3>3. QED
      BY <1>3, <3>1, <3>2 DEF Inv, Account, Fits
  <2>7. QED
    BY <1>3, <2>1, <2>2, <2>3, <2>4, <2>5, <2>6, StackMovesFits, DecodeFits, TableFits, ScanFits,
       FlowFits DEF Marking, Tracer
<1>4. QED
  BY <1>1, <1>2, <1>3, CollectingStep

LEMMA AccountStep == ASSUME Inv, Next PROVE Account'
BY PaidStep, RecordableStep, FitsStep DEF Account

LEMMA RetainedStep == ASSUME Inv, Next PROVE Retained'
<1> USE DEF Collecting
<1>1. CASE Collecting'
  <2>1. marked' \subseteq AllParts(Known)'
    BY <1>1, PaidStep DEF Paid
  <2>2. QED
    BY <2>1 DEF Retained
<1>2. CASE ~Collecting'
  <2>1. CASE Sweep
    BY <2>1 DEF Sweep, Retained
  <2>2. CASE Start \/ Finish \/ Preload \/ ClearWord
    <3>1. Start => phase' \in {"preload", "clear"}
      BY DEF Start
    <3>2. Finish => phase' = "idle"
      BY DEF Finish
    <3>3. Preload => Collecting'
      BY DEF Preload, Inv, TypeOK, MarkerType
    <3>4. ClearWord => phase' \in {"idle", "clear", "preload"}
      BY DEF ClearWord, Inv, Phases, Erased
    <3>5. QED
      BY <1>2, <2>2, <3>1, <3>2, <3>3, <3>4 DEF Retained
  <2>3. CASE ~Start /\ ~Sweep /\ ~Finish /\ ~Preload /\ ~ClearWord
    <3>1. H' = H /\ Known' = Known
      BY <2>3, SameHeap DEF Known
    <3> DEFINE Held == phase \in {"reg", "mem", "mark", "sweep"}
                         \/ (phase = "finish" /\ t.st # "idle")
    <3>2. CASE Abandon
      <4>1. m.st = "record" /\ phase' = "finish" /\ t' = t /\ marked' = marked
        BY <3>2 DEF Abandon
      <4>2. t.st # "idle" => Held
        BY <4>1 DEF Inv, TypeOK, Phases
      <4>3. QED
        BY <3>1, <4>1, <4>2 DEF Inv, Retained
    <3>3. CASE Marking /\ ~DecodeRaw /\ ~DecodeHandle
      <4>1. CASE Core \/ Drain
        <5>1. marked' = marked /\ (Held' => Held)
          BY <2>3, <4>1 DEF Core, StreamRoot, RootsDone, Resume, Drain
        <5>2. QED
          BY <3>1, <5>1 DEF Inv, Retained
      <4>2. CASE Tracer
        <5>1. marked' = marked /\ phase' \in {phase, "mark"} /\ t.st # "idle"
          BY <4>2 DEF Tracer, MemRoot, ScanElement, StartTable, ScanEnd, Header, tracerKeeps
        <5>2. Held
          BY <5>1 DEF Inv, TypeOK, Phases
        <5>3. QED
          BY <3>1, <5>1, <5>2 DEF Inv, Retained
      <4>3. CASE Take \/ DecodeContinuation \/ Push \/ Spill \/ Refill \/ Record \/ ReadBack
        <5>1. marked' = marked /\ phase' = phase /\ t' = t
          BY <4>3 DEF Take, DecodeContinuation, Push, Spill, Refill, Record, ReadBack,
                      decodeKeeps, stackKeeps
        <5>2. QED
          BY <3>1, <5>1 DEF Inv, Retained
      <4>4. CASE Pop \/ NextWork
        <5>1. marked' = marked /\ phase = "mark"
          BY <4>4 DEF Pop, NextWork, PopReady
        <5>2. QED
          BY <3>1, <5>1 DEF Inv, Retained
      <4>5. QED
        BY <3>3, <4>1, <4>2, <4>3, <4>4 DEF Marking, Core
    <3>4. CASE DecodeRaw \/ DecodeHandle
      <4>1. phase' = phase /\ m.st = "decode" /\ m \in MarkerType
        BY <3>4 DEF DecodeRaw, DecodeHandle, decodeKeeps, Inv, TypeOK
      <4>2. m'.st # "done"
        BY <3>4, <4>1 DEF DecodeRaw, DecodeHandle, MarkerType
      <4>3. phase # "finish" /\ ~Held'
        BY <1>2, <4>1, <4>2 DEF Inv, Phases
      <4>4. QED
        BY <4>3 DEF Retained
    <3>5. QED
      BY <2>3, <3>2, <3>3, <3>4 DEF Next, Core, Marker, Marking
  <2>4. QED
    BY <2>1, <2>2, <2>3
<1>3. QED
  BY <1>1, <1>2
-----------------------------------------------------------------------------
(* Theorems *)

LEMMA InvInit == Init => Inv
<1> SUFFICES ASSUME Init PROVE Inv
  OBVIOUS
<1>1. phase = "idle"
  BY DEF Init
<1>2. Account /\ Retained
  BY <1>1 DEF Account, Paid, Recordable, Fits, Collecting, Retained
<1>3. QED
  BY <1>2, TypeInit, PhasesInit, ErasedInit DEF Inv

LEMMA Stutter == ASSUME Inv, UNCHANGED vars PROVE Account' /\ Retained'
<1>1. /\ UNCHANGED <<rootIdx, heap, lim, phase, t, m, queue, pending, ring, stackMem, rescan>>
      /\ UNCHANGED <<haveEnt, rescDone, marked>>
  BY DEF vars, coreVars, stackVars
<1>2. /\ H' = H /\ Known' = Known /\ Collecting' = Collecting
      /\ StackGives' = StackGives /\ FlowGives' = FlowGives
  BY <1>1 DEF H, Known, Collecting, StackGives, PushGives, Holding, FlowGives, DecodeGives
<1>3. TracerGives' = TracerGives /\ RootsToCome' = RootsToCome /\ ScanGives' = ScanGives
  BY <1>1, <1>2, SameTracer DEF ScanGives, RangeOf
<1>4. Owed' = Owed /\ Decoding' = Decoding /\ Free' = Free
  BY <1>1, <1>2, <1>3 DEF Owed, Decoding, Free, Used, Room
<1>5. Paid'
  BY <1>1, <1>2, <1>4 DEF Inv, Account, Paid
<1>6. Recordable'
  BY <1>1, <1>2, <1>3 DEF Inv, Account, Recordable
<1>7. Fits'
  BY <1>1, <1>2, <1>4 DEF Inv, Account, Fits
<1>8. Retained'
  BY <1>1, <1>2 DEF Inv, Retained
<1>9. QED
  BY <1>5, <1>6, <1>7, <1>8 DEF Account

LEMMA InvStep == Inv /\ [Next]_vars => Inv'
<1> SUFFICES ASSUME Inv, [Next]_vars PROVE Inv'
  OBVIOUS
<1>1. TypeOK' /\ Places' /\ Phases' /\ Erased'
  BY TypeStep, PhasesStep, ErasedStep
<1>2. Account' /\ Retained'
  BY Stutter, AccountStep, RetainedStep
<1>3. QED
  BY <1>1, <1>2 DEF Inv

LEMMA InvHolds == Spec => []Inv
BY InvInit, InvStep, PTL DEF Spec

\* The registers of core, tracer and marker (pycore_gc.sv, S_GC_*) hold values of
\* their types, and the queue, the pending buffer, both parts of the mark stack
\* and the rescan list stay within their capacities, whatever the heap and the
\* sizes: the room each producer looks at covers what it appends.
THEOREM TypeCorrect == Spec => []TypeOK
<1>1. Inv => TypeOK
  BY DEF Inv
<1>2. QED
  BY <1>1, InvHolds, PTL

LEMMA NothingOwed == ASSUME Inv, m.st = "sweep" PROVE Owed = {} /\ Collecting
<1>1. /\ phase = "sweep" /\ queue = <<>> /\ pending = <<>> /\ t.st = "pop"
      /\ ring = <<>> /\ stackMem = <<>> /\ rescan = <<>>
  BY DEF Inv, Phases
<1>2. StackGives = {}
  BY <1>1, GivesNone DEF StackGives, PushGives, Holding
<1>3. FlowGives = {}
  BY <1>1, GivesNone DEF FlowGives, DecodeGives
<1>4. TracerGives = {} /\ RootsToCome = {}
  BY <1>1 DEF TracerGives, RootsToCome
<1>5. QED
  BY <1>1, <1>2, <1>3, <1>4 DEF Owed, Collecting

\* When the sweep of pycore_gc.sv starts, every object the program can reach is
\* marked with its buffers, for every heap, every size of the mark stack, the
\* rescan list and the queue, and however earlier collections were abandoned.
THEOREM NothingLostHolds == Spec => []NothingLost
<1>1. ASSUME Inv, m.st = "sweep" PROVE AllParts(Reachable[heap]) \subseteq marked
  <2> DEFINE S == {o \in Obj : <<o, "head">> \in marked}
  <2>1. heap \in DOMAIN Heaps
    BY <1>1 DEF Inv, TypeOK
  <2>2. Reachable[heap] = Live(H)
    BY <2>1 DEF Reachable, H
  <2>3. /\ \A o \in S : Needs(H, o) \subseteq marked
        /\ Heads(Roots(H)) \subseteq marked
    BY <1>1, NothingOwed DEF Inv, Account, Paid
  <2>4. Roots(H) \subseteq S
    BY <2>1, <2>3, RootsAreObjects DEF Heads
  <2>5. Closed(H, S)
    <3> SUFFICES ASSUME NEW o \in S, NEW c \in Children(H, o) PROVE c \in S
      BY DEF Closed
    <3>1. c \in Obj
      BY <2>1, ChildrenAreObjects
    <3>2. <<c, "head">> \in Needs(H, o)
      BY DEF Needs, Heads
    <3>3. QED
      BY <2>3, <3>1, <3>2
  <2>6. Live(H) \subseteq S
    BY <2>4, <2>5 DEF Live
  <2>7. \A o \in S : Parts(o) \subseteq marked
    <3> SUFFICES ASSUME NEW o \in S, NEW p \in Parts(o) PROVE p \in marked
      OBVIOUS
    <3>1. CASE p \in Heads({o})
      BY <3>1 DEF Heads
    <3>2. CASE p \notin Heads({o})
      BY <2>3, <3>2 DEF Needs
    <3>3. QED
      BY <3>1, <3>2
  <2>8. QED
    BY <2>2, <2>6, <2>7 DEF AllParts
<1>2. Inv => NothingLost
  BY <1>1 DEF NothingLost
<1>3. QED
  BY <1>2, InvHolds, PTL

\* From the preload to the sweep every mark stands for an object the program can
\* reach or one the prune map names: the bitmap clear, the preload and the restart
\* after an abandoned collection leave no mark behind that would keep garbage.
THEOREM NothingRetainedHolds == Spec => []NothingRetained
<1>1. ASSUME Inv PROVE NothingRetained
  <2>1. Reachable[heap] = Live(H)
    BY <1>1 DEF Inv, TypeOK, Reachable, H
  <2>2. phase \in {"reg", "mem", "mark", "sweep"} => marked \subseteq AllParts(Known)
    BY <1>1 DEF Inv, Retained
  <2>3. QED
    BY <2>1, <2>2 DEF NothingRetained, Known
<1>2. QED
  BY <1>1, InvHolds, PTL
=============================================================================
