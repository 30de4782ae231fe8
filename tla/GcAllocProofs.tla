--------------------------- MODULE GcAllocProofs ---------------------------
(***************************************************************************)
(* The promises of the heap allocator, for every heap, line, run table and *)
(* set of requests.                                                        *)
(*                                                                         *)
(* The invariant follows the granules: Booked says whose each one is, also *)
(* inside a search; Clean which of the current run's may hold something;   *)
(* Measured that the request was measured from the bump pointer; Looked    *)
(* that no free run which would do has been dropped since the sweep.       *)
(***************************************************************************)
EXTENDS GcAlloc, NatLemmas

Within(r) == r \in Runs /\ r.size >= 1 /\ r.base + r.size <= HEAP

Current == cur.ptr .. cur.limit - 1

\* Runs and their granules in a list; the headers in memory as one.
RunsOf(m) == [i \in DOMAIN m |-> m[i].run]
SeqCells(s) == UNION {RunCells(s[i]) : i \in DOMAIN s}
Apart(s) == \A i, j \in DOMAIN s : i # j => RunCells(s[i]) \cap RunCells(s[j]) = {}

Listed == SeqCells(list.ahead) \cup SeqCells(list.below) \cup SeqCells(RunsOf(list.memory))

\* A run taken from the lists whose header, or that of the rest of the current
\* run, is still being written.
Carried == IF st = "alloc" /\ al.phase = 4 THEN RunCells(al.cand) ELSE {}

\* Which registers are in use in which state.
Phases ==
    /\ st # "alloc" => al.phase = 0
    /\ rq.oom => st = "alloc" /\ al.phase = 0
    /\ rq.abort <=> rq.need # 0
    /\ st \in {"run", "halt"} => ~rq.abort /\ ~rq.collected
    /\ todo = <<>> \/ \E r \in Requests : todo = <<r>>
    /\ st \in {"gc", "alloc"} => (rq.abort <=> todo # <<>>)
    /\ al.phase = 4 => rq.abort
    /\ al.phase = 2 => ~al.header
    /\ rq.collected /\ rq.abort /\ ~rq.oom /\ al.phase \in {0, 4} => cur.limit = cur.ptr

\* The granules of runs and parts lie in the heap.
Bounds ==
    /\ \A i \in DOMAIN list.ahead : Within(list.ahead[i])
    /\ \A i \in DOMAIN list.below : Within(list.below[i])
    /\ \A i \in DOMAIN list.memory : Within(list.memory[i].run)
    /\ al.phase = 4 => Within(al.cand) /\ (al.put = IF al.install THEN CurrentRun ELSE al.cand)
    /\ \A b \in blocks : b.n >= 1 /\ b.at + b.n <= HEAP
    /\ touched <= zero

\* A mark that is not superseded lies in the current run or above it: what is
\* given back on a release is in no list.
MarkApart ==
    mark # <<>> /\ ~Superseded(mark[1]) =>
        (mark[1].ptr .. cur.limit - 1) \cap (Listed \cup Carried) = {}

\* No granule is booked twice.
Booked ==
    /\ Apart(list.ahead) /\ Apart(list.below) /\ Apart(RunsOf(list.memory))
    /\ SeqCells(list.ahead) \cap SeqCells(list.below) = {}
    /\ SeqCells(list.ahead) \cap SeqCells(RunsOf(list.memory)) = {}
    /\ SeqCells(list.below) \cap SeqCells(RunsOf(list.memory)) = {}
    /\ Listed \cap (CellsOf(blocks) \cup Current \cup Carried) = {}
    /\ CellsOf(blocks) \cap (Current \cup Carried) = {}
    /\ Current \cap Carried = {}
    /\ \A b, c \in blocks : b # c => Cells(b) \cap Cells(c) = {}
    /\ MarkApart

\* The current run is zero, or an aborted instruction has written in it and it
\* is about to be given up, or the writes that clear it are under way.
Clean ==
    ~spoiled =>
        /\ \/ st = "run"
           \/ ~rq.abort /\ al.phase \in {0, 4}
           \/ rq.collected /\ al.phase \in {0, 4}
           \/ rq.oom
           \/ al.phase = 3
           => Current \cap stale = {}
        /\ al.phase = 2 => Current \cap stale \subseteq al.from .. al.upto - 1

\* The request is what the instruction needs from the bump pointer on, and a
\* run about to be installed has room for it and a line.
Measured ==
    \A r \in ToSet(todo) : ~r.split =>
        /\ st = "gc" \/ (st = "alloc" /\ al.phase \in {0, 4}) =>
              rq.need = EndOf(cur.ptr, r.parts) - cur.ptr
        /\ al.phase = 4 /\ al.install => Fit(al.cand)
        /\ st = "run" \/ (st = "alloc" /\ al.phase \in {2, 3}) => Fits(r)

\* After a collection for the request every free run that would do is still to
\* be looked at.
Looked ==
    st = "alloc" /\ rq.abort /\ rq.collected /\ ~rq.oom /\ (al.phase = 0 \/ (al.phase = 4 /\ ~al.install)) =>
        \A r \in MaximalRuns((0 .. HEAP - 1) \ CellsOf(blocks)) : Fit(r) => r \in Unseen

Inv ==
    /\ TypeOK /\ Phases /\ Bounds /\ Booked /\ Clean /\ Measured /\ Looked
-----------------------------------------------------------------------------
(* Placement *)

LEMMA Constants ==
    /\ HEAP \in Nat /\ HEAP >= 1 /\ LINE \in Nat /\ LINE >= 1
    /\ RUN_ONCHIP \in Nat /\ RUN_TABLE \in Nat
BY AllocAssumption

LEMMA RequestRange ==
    ASSUME NEW r \in Requests
    PROVE  /\ r.parts \in Seq(Nat \ {0}) /\ r.split \in BOOLEAN
           /\ Len(r.parts) \in Nat /\ Len(r.parts) >= 1
           /\ \A i \in 1 .. Len(r.parts) : r.parts[i] \in Nat /\ r.parts[i] >= 1
<1>1. r.parts \in Seq(Nat \ {0}) /\ r.parts # <<>> /\ r.split \in BOOLEAN
  BY AllocAssumption
<1>2. \A i \in 1 .. Len(r.parts) : r.parts[i] \in Nat \ {0}
  BY <1>1
<1>3. QED
  BY <1>1, <1>2

\* A part starts at the pointer or on the next line.
LEMMA PlaceIs ==
    ASSUME NEW x \in Int, NEW n \in Int
    PROVE  /\ Place(x, n) \in Int /\ x <= Place(x, n) /\ Place(x, n) <= x + LINE - 1
           /\ n < LINE => Place(x, n) = x
           /\ n >= LINE => \E q \in Int : Place(x, n) = LINE * q
<1>1. CASE n >= LINE
  <2> DEFINE q == (x + LINE - 1) \div LINE
  <2>1. q \in Int /\ Place(x, n) = q * LINE /\ q * LINE = LINE * q
    BY <1>1, Constants DEF Place
  <2>2. LINE * q <= x + LINE - 1 /\ x + LINE - 1 < LINE * q + LINE
    BY Constants
  <2> HIDE DEF q
  <2>3. x <= LINE * q /\ LINE * q \in Int
    BY <2>1, <2>2, Constants
  <2>4. QED
    BY <1>1, <2>1, <2>2, <2>3, Constants
<1>2. CASE ~(n >= LINE)
  BY <1>2, Constants DEF Place
<1>3. QED
  BY <1>1, <1>2

\* The first n steps of the recursion in Ends, as an equation for f.
EndsUpTo(f, p, parts, n) ==
    [k \in 0 .. n |-> IF k = 0 THEN p ELSE Place(f[k - 1], parts[k]) + parts[k]]

LEMMA EndsExist ==
    ASSUME NEW p, NEW parts, NEW n \in Nat
    PROVE  \E f : f = EndsUpTo(f, p, parts, n)
<1> DEFINE S == {m \in Nat : \E f : f = EndsUpTo(f, p, parts, m)}
<1>1. 0 \in S
  <2> DEFINE f == [k \in 0 .. 0 |-> p]
  <2>1. f = EndsUpTo(f, p, parts, 0)
    BY DEF EndsUpTo
  <2>2. QED
    BY <2>1
<1>2. ASSUME NEW m \in 0 .. n - 1, m \in S PROVE m + 1 \in S
  <2>1. PICK f : f = EndsUpTo(f, p, parts, m)
    BY <1>2
  <2> DEFINE g == [k \in 0 .. m + 1 |->
                      IF k = m + 1 THEN Place(f[m], parts[m + 1]) + parts[m + 1] ELSE f[k]]
             h == EndsUpTo(g, p, parts, m + 1)
  <2>2. \A k \in 0 .. m : f[k] = IF k = 0 THEN p ELSE Place(f[k - 1], parts[k]) + parts[k]
    BY <2>1 DEF EndsUpTo
  <2>3. ASSUME NEW k \in 0 .. m + 1 PROVE g[k] = h[k]
    <3>1. h[k] = IF k = 0 THEN p ELSE Place(g[k - 1], parts[k]) + parts[k]
      BY DEF EndsUpTo
    <3>2. CASE k = 0
      <4>1. g[k] = f[0] /\ 0 \in 0 .. m
        BY <3>2
      <4>2. QED
        BY <2>2, <3>1, <3>2, <4>1
    <3>3. CASE k = m + 1
      <4>1. k - 1 = m /\ k # 0 /\ g[m] = f[m]
        BY <3>3
      <4>2. QED
        BY <3>1, <3>3, <4>1
    <3>4. CASE k \in 1 .. m
      <4>1. k - 1 \in 0 .. m + 1 /\ k - 1 # m + 1 /\ k # m + 1 /\ k # 0 /\ k \in 0 .. m
        BY <3>4
      <4>2. g[k - 1] = f[k - 1] /\ g[k] = f[k]
        BY <4>1
      <4>3. QED
        BY <2>2, <3>1, <4>1, <4>2
    <3>5. QED
      BY <3>2, <3>3, <3>4
  <2>4. DOMAIN h = 0 .. m + 1 /\ h = [k \in 0 .. m + 1 |-> h[k]]
    BY DEF EndsUpTo
  <2>5. g = h
    BY <2>3, <2>4
  <2>6. QED
    BY <2>5
<1>3. 0 .. n \subseteq S
  BY <1>1, <1>2, CountUp
<1>4. QED
  BY <1>3

LEMMA EndsIs ==
    ASSUME NEW p \in Nat, NEW parts \in Seq(Nat \ {0})
    PROVE  LET e == Ends(p, parts) IN
           /\ Len(parts) \in Nat
           /\ e[0] = p
           /\ \A k \in 1 .. Len(parts) : e[k] = Place(e[k - 1], parts[k]) + parts[k]
<1> DEFINE e == Ends(p, parts)
           n == Len(parts)
<1>1. n \in Nat
  OBVIOUS
<1>2. e = CHOOSE f : f = EndsUpTo(f, p, parts, n)
  BY DEF Ends, EndsUpTo
<1> HIDE DEF e
<1>3. e = EndsUpTo(e, p, parts, n)
  BY <1>1, <1>2, EndsExist
<1> HIDE DEF n
<1>4. \A k \in 0 .. n : e[k] = IF k = 0 THEN p ELSE Place(e[k - 1], parts[k]) + parts[k]
  BY <1>3 DEF EndsUpTo
<1>5. e[0] = p
  BY <1>1, <1>4
<1>6. \A k \in 1 .. n : e[k] = Place(e[k - 1], parts[k]) + parts[k]
  BY <1>1, <1>4
<1>7. QED
  BY <1>1, <1>5, <1>6 DEF e, n

LEMMA CellsApart ==
    ASSUME NEW b, NEW c, b.at \in Int, b.n \in Int, c.at \in Int, c.n \in Int,
           b.at + b.n <= c.at
    PROVE  Cells(b) \cap Cells(c) = {}
<1> SUFFICES ASSUME NEW g \in Cells(b), g \in Cells(c) PROVE FALSE
  OBVIOUS
<1>1. g \in Int /\ g <= b.at + b.n - 1 /\ c.at <= g
  BY DEF Cells
<1>2. QED
  BY <1>1

LEMMA EndsRange ==
    ASSUME NEW p \in Nat, NEW parts \in Seq(Nat \ {0})
    PROVE  LET e == Ends(p, parts) IN
           /\ \A k \in 0 .. Len(parts) : e[k] \in Nat
           /\ \A k \in 1 .. Len(parts) : e[k - 1] < e[k]
           /\ \A i, j \in 0 .. Len(parts) : i <= j => e[i] <= e[j]
<1> DEFINE e == Ends(p, parts)
           n == Len(parts)
<1>1. /\ n \in Nat /\ e[0] = p
      /\ \A k \in 1 .. n : e[k] = Place(e[k - 1], parts[k]) + parts[k]
  BY EndsIs
<1>2. \A k \in 1 .. n : parts[k] \in Nat /\ parts[k] >= 1
  <2>1. \A k \in 1 .. n : parts[k] \in Nat \ {0}
    OBVIOUS
  <2>2. QED
    BY <2>1
<1> HIDE DEF e, n
<1>3. ASSUME NEW k \in 1 .. n, e[k - 1] \in Nat PROVE e[k] \in Nat /\ e[k - 1] < e[k]
  <2> DEFINE x == e[k - 1]
             m == parts[k]
             y == Place(x, m)
  <2>1. m \in Nat /\ m >= 1 /\ x \in Nat /\ e[k] = y + m
    BY <1>1, <1>2, <1>3
  <2> HIDE DEF x, m, y
  <2>2. y \in Int /\ x <= y
    BY <2>1, PlaceIs DEF y
  <2>3. e[k] \in Nat /\ x < e[k]
    BY <2>1, <2>2
  <2>4. QED
    BY <2>3 DEF x
<1>4. \A k \in 0 .. n : e[k] \in Nat
  <2> DEFINE S == {k \in 0 .. n : e[k] \in Nat}
  <2>1. 0 \in S
    BY <1>1
  <2>2. ASSUME NEW k \in 0 .. n - 1, k \in S PROVE k + 1 \in S
    <3>1. k + 1 \in 1 .. n /\ (k + 1) - 1 = k /\ e[k] \in Nat /\ k + 1 \in 0 .. n
      BY <1>1, <2>2
    <3>2. e[k + 1] \in Nat
      BY <1>3, <3>1
    <3>3. QED
      BY <3>1, <3>2
  <2>3. 0 .. n \subseteq S
    BY <1>1, <2>1, <2>2, CountUp
  <2>4. QED
    BY <2>3
<1>5. \A k \in 1 .. n : e[k - 1] < e[k]
  <2> SUFFICES ASSUME NEW k \in 1 .. n PROVE e[k - 1] < e[k]
    OBVIOUS
  <2>1. k - 1 \in 0 .. n
    BY <1>1
  <2>2. QED
    BY <1>3, <1>4, <2>1
<1>6. ASSUME NEW i \in 0 .. n, NEW j \in 0 .. n, i <= j PROVE e[i] <= e[j]
  <2> DEFINE S == {k \in 0 .. n : i <= k => e[i] <= e[k]}
  <2>1. 0 \in S
    <3>1. i <= 0 => i = 0
      OBVIOUS
    <3>2. e[0] \in Nat
      BY <1>1, <1>4
    <3>3. QED
      BY <1>1, <3>1, <3>2
  <2>2. ASSUME NEW k \in 0 .. n - 1, k \in S PROVE k + 1 \in S
    <3>1. k + 1 \in 0 .. n /\ k + 1 \in 1 .. n /\ (k + 1) - 1 = k /\ k \in 0 .. n
      BY <1>1
    <3>2. e[k] < e[k + 1]
      BY <1>5, <3>1
    <3>3. e[i] \in Nat /\ e[k] \in Nat /\ e[k + 1] \in Nat
      BY <1>4, <3>1
    <3>4. CASE i <= k
      BY <2>2, <3>1, <3>2, <3>3, <3>4
    <3>5. CASE i = k + 1
      BY <3>1, <3>3, <3>5
    <3>6. CASE i > k + 1
      BY <3>1, <3>6
    <3>7. QED
      BY <3>4, <3>5, <3>6
  <2>3. 0 .. n \subseteq S
    BY <1>1, <2>1, <2>2, CountUp
  <2>4. QED
    BY <1>6, <2>3
<1>7. QED
  BY <1>4, <1>5, <1>6 DEF e, n

\* The parts of a request lie one after the other between the bump pointer and
\* the end of the last.
LEMMA PartsApart ==
    ASSUME NEW p \in Nat, NEW parts \in Seq(Nat \ {0}), NEW k \in 0 .. Len(parts)
    PROVE  /\ \A b \in PartsAt(p, parts, k) :
                 /\ b.at \in Nat /\ b.n \in Nat /\ b.n >= 1
                 /\ b = [at |-> b.at, n |-> b.n]
                 /\ p <= b.at /\ b.at + b.n <= Ends(p, parts)[k]
           /\ \A b, c \in PartsAt(p, parts, k) : b # c => Cells(b) \cap Cells(c) = {}
<1> DEFINE e == Ends(p, parts)
           n == Len(parts)
           part(i) == [at |-> Place(e[i - 1], parts[i]), n |-> parts[i]]
<1>1. /\ n \in Nat /\ e[0] = p
      /\ \A i \in 1 .. n : e[i] = Place(e[i - 1], parts[i]) + parts[i]
  BY EndsIs
<1>2. /\ \A i \in 0 .. n : e[i] \in Nat
      /\ \A i, j \in 0 .. n : i <= j => e[i] <= e[j]
  BY EndsRange
<1>3. \A i \in 1 .. n : parts[i] \in Nat /\ parts[i] >= 1
  <2>1. \A i \in 1 .. n : parts[i] \in Nat \ {0}
    OBVIOUS
  <2>2. QED
    BY <2>1
<1>4. PartsAt(p, parts, k) = {part(i) : i \in 1 .. k}
  BY DEF PartsAt
<1> HIDE DEF e, n
<1>5. ASSUME NEW i \in 1 .. k
      PROVE  /\ part(i).at \in Nat /\ part(i).n \in Nat /\ part(i).n >= 1
             /\ e[i - 1] <= part(i).at /\ part(i).at + part(i).n = e[i]
             /\ p <= part(i).at /\ e[i] <= e[k]
  <2>1. i \in 1 .. n /\ i - 1 \in 0 .. n /\ i \in 0 .. n /\ k \in 0 .. n /\ i <= k /\ 0 <= i - 1
        /\ 0 \in 0 .. n
    BY <1>1 DEF n
  <2> DEFINE x == e[i - 1]
             m == parts[i]
             y == Place(x, m)
  <2>2. x \in Nat /\ m \in Nat /\ m >= 1 /\ e[i] = y + m /\ p <= x /\ e[i] <= e[k]
    BY <1>1, <1>2, <1>3, <2>1
  <2>3. part(i).at = y /\ part(i).n = m
    OBVIOUS
  <2> HIDE DEF x, m, y
  <2>4. y \in Int /\ x <= y
    BY <2>2, PlaceIs DEF y
  <2>5. y \in Nat /\ p <= y
    BY <2>2, <2>4
  <2> HIDE DEF part
  <2>6. QED
    BY <2>2, <2>3, <2>4, <2>5 DEF x
<1>6. ASSUME NEW i \in 1 .. k, NEW j \in 1 .. k, i < j
      PROVE  Cells(part(i)) \cap Cells(part(j)) = {}
  <2>1. i \in 0 .. n /\ j - 1 \in 0 .. n /\ i <= j - 1
    BY <1>1, <1>6 DEF n
  <2>2. e[i] <= e[j - 1] /\ e[i] \in Nat /\ e[j - 1] \in Nat
    BY <1>2, <2>1
  <2>3. /\ part(i).at + part(i).n = e[i] /\ e[j - 1] <= part(j).at
        /\ part(i).at \in Nat /\ part(i).n \in Nat /\ part(j).at \in Nat /\ part(j).n \in Nat
    BY <1>5
  <2> HIDE DEF part
  <2>4. part(i).at + part(i).n <= part(j).at
    BY <2>2, <2>3
  <2>5. QED
    BY <2>3, <2>4, CellsApart
<1>7. ASSUME NEW i \in 1 .. k, NEW j \in 1 .. k, part(i) # part(j)
      PROVE  Cells(part(i)) \cap Cells(part(j)) = {}
  <2>1. i < j \/ j < i \/ i = j
    OBVIOUS
  <2> HIDE DEF part
  <2>2. QED
    BY <1>6, <1>7, <2>1
<1>8. \A i \in 1 .. k : part(i) = [at |-> part(i).at, n |-> part(i).n]
  OBVIOUS
<1>9. \A b \in PartsAt(p, parts, k) : \E i \in 1 .. k : b = part(i)
  BY <1>4
<1>10. ASSUME NEW b \in PartsAt(p, parts, k)
       PROVE  /\ b.at \in Nat /\ b.n \in Nat /\ b.n >= 1
              /\ b = [at |-> b.at, n |-> b.n]
              /\ p <= b.at /\ b.at + b.n <= e[k]
  <2>1. PICK i \in 1 .. k : b = part(i)
    BY <1>9
  <2>2. part(i) = [at |-> part(i).at, n |-> part(i).n]
    BY <1>8
  <2> HIDE DEF part
  <2>3. QED
    BY <1>5, <2>1, <2>2
<1>11. ASSUME NEW b \in PartsAt(p, parts, k), NEW c \in PartsAt(p, parts, k), b # c
       PROVE  Cells(b) \cap Cells(c) = {}
  <2> HIDE DEF part
  <2>1. QED
    BY <1>7, <1>9, <1>11
<1>12. QED
  BY <1>10, <1>11 DEF e

\* A line more or less does not matter for the padding of a part.
LEMMA PlaceShift ==
    ASSUME NEW y \in Int, NEW m \in Int, NEW n \in Int
    PROVE  Place(y + LINE * m, n) = Place(y, n) + LINE * m
<1> DEFINE d == LINE * m
           x == y + d
           px == Place(x, n)
           py == Place(y, n)
<1>1. d \in Int /\ x \in Int /\ x = y + d
  BY Constants
<1> HIDE DEF x
<1>2. CASE n < LINE
  BY <1>1, <1>2, PlaceIs DEF x
<1>3. CASE n >= LINE
  <2>1. /\ px \in Int /\ py \in Int /\ x <= px /\ px <= x + LINE - 1
        /\ y <= py /\ py <= y + LINE - 1
    BY <1>1, PlaceIs
  <2>2. PICK a \in Int : px = LINE * a
    BY <1>1, <1>3, PlaceIs
  <2>3. PICK b \in Int : py = LINE * b
    BY <1>3, PlaceIs
  <2> DEFINE k == a - b - m
  <2>4. k \in Int /\ LINE * k = px - py - d
    BY <2>2, <2>3, Constants
  <2> HIDE DEF px, py, d, k
  <2>5. LINE * k <= LINE - 1 /\ LINE * k >= 1 - LINE
    BY <1>1, <2>1, <2>4, Constants
  <2>6. k >= 1 => LINE * k >= LINE
    BY <2>4, Constants
  <2>7. k <= -1 => LINE * k <= -LINE
    BY <2>4, Constants
  <2>8. k = 0
    BY <2>4, <2>5, <2>6, <2>7, Constants
  <2>9. px - py - d = 0
    BY <2>4, <2>8, Constants
  <2>10. px = py + d
    BY <1>1, <2>1, <2>9
  <2>11. QED
    BY <2>10 DEF px, py, d, x
<1>4. QED
  BY <1>2, <1>3, Constants

\* One part costs at most a line less one more at another place, and then the
\* two places are the same but for whole lines.
LEMMA PlaceCosts ==
    ASSUME NEW x \in Int, NEW y \in Int, NEW n \in Int
    PROVE  /\ n < LINE => Place(x, n) - x = Place(y, n) - y
           /\ n >= LINE => /\ Place(x, n) - x <= Place(y, n) - y + (LINE - 1)
                           /\ \E m \in Int : Place(x, n) = Place(y, n) + LINE * m
<1>1. CASE n < LINE
  BY <1>1, PlaceIs, Constants
<1>2. CASE n >= LINE
  <2>1. /\ Place(x, n) \in Int /\ Place(y, n) \in Int
        /\ Place(x, n) <= x + LINE - 1 /\ y <= Place(y, n)
    BY PlaceIs
  <2>2. PICK a \in Int : Place(x, n) = LINE * a
    BY <1>2, PlaceIs
  <2>3. PICK b \in Int : Place(y, n) = LINE * b
    BY <1>2, PlaceIs
  <2>4. a - b \in Int /\ LINE * a = LINE * b + LINE * (a - b)
    BY Constants
  <2>5. Place(x, n) = Place(y, n) + LINE * (a - b)
    BY <2>2, <2>3, <2>4
  <2>6. Place(x, n) - x <= Place(y, n) - y + (LINE - 1)
    BY <2>1, Constants
  <2>7. \E m \in Int : Place(x, n) = Place(y, n) + LINE * m
    <3> DEFINE m == a - b
    <3>1. m \in Int /\ Place(x, n) = Place(y, n) + LINE * m
      BY <2>4, <2>5
    <3> HIDE DEF m
    <3>2. QED
      BY <3>1
  <2>8. QED
    BY <1>2, <2>6, <2>7, Constants
<1>3. QED
  BY <1>1, <1>2, Constants

\* Wherever a request is placed, it takes at most a line less one more than
\* where it was measured.
LEMMA SlackIsEnough ==
    ASSUME NEW p \in Nat, NEW q \in Nat, NEW parts \in Seq(Nat \ {0})
    PROVE  EndOf(q, parts) - q <= EndOf(p, parts) - p + (LINE - 1)
<1> DEFINE e == Ends(p, parts)
           f == Ends(q, parts)
           n == Len(parts)
           Same(k) == f[k] - q = e[k] - p
           Shifted(k) == /\ f[k] - q <= e[k] - p + (LINE - 1)
                         /\ \E m \in Int : f[k] = e[k] + LINE * m
           S == {k \in 0 .. n : Same(k) \/ Shifted(k)}
<1>1. /\ n \in Nat /\ e[0] = p /\ f[0] = q
      /\ \A k \in 1 .. n : e[k] = Place(e[k - 1], parts[k]) + parts[k]
      /\ \A k \in 1 .. n : f[k] = Place(f[k - 1], parts[k]) + parts[k]
  BY EndsIs
<1>2. \A k \in 0 .. n : e[k] \in Nat /\ f[k] \in Nat
  BY EndsRange
<1>3. \A k \in 1 .. n : parts[k] \in Nat
  <2>1. \A k \in 1 .. n : parts[k] \in Nat \ {0}
    OBVIOUS
  <2>2. QED
    BY <2>1
<1> HIDE DEF e, f, n
<1>4. 0 \in S
  BY <1>1, <1>2
<1>5. ASSUME NEW k \in 0 .. n - 1, k \in S PROVE k + 1 \in S
  <2> DEFINE j == k + 1
             x == f[k]
             y == e[k]
             s == parts[j]
             px == Place(x, s)
             py == Place(y, s)
  <2>1. j \in 1 .. n /\ j - 1 = k /\ j \in 0 .. n /\ k \in 0 .. n
    BY <1>1
  <2>2. x \in Nat /\ y \in Nat /\ s \in Nat /\ f[j] = px + s /\ e[j] = py + s
    BY <1>1, <1>2, <1>3, <2>1
  <2>4. Same(k) \/ Shifted(k)
    BY <1>5
  <2> HIDE DEF x, y, s
  <2>3. px \in Int /\ py \in Int
    BY <2>2, PlaceIs
  <2>5. /\ s < LINE => px - x = py - y
        /\ s >= LINE => /\ px - x <= py - y + (LINE - 1)
                        /\ \E m \in Int : px = py + LINE * m
    <3>1. x \in Int /\ y \in Int /\ s \in Int
      BY <2>2
    <3>2. QED
      BY <3>1, PlaceCosts
  <2>6. \A m \in Int : x = y + LINE * m => px = py + LINE * m
    BY <2>2, PlaceShift
  <2> HIDE DEF j, px, py
  <2>7. CASE x - q = y - p
    <3>1. CASE s < LINE
      <4>1. px - q = py - p
        BY <2>2, <2>3, <2>5, <2>7, <3>1
      <4>2. f[j] - q = e[j] - p
        <5>1. p \in Int /\ q \in Int /\ px \in Int /\ py \in Int /\ s \in Int
          BY <2>2, <2>3
        <5>2. (px + s) - q = (py + s) - p
          BY ONLY <4>1, <5>1
        <5>3. QED
          BY <2>2, <5>2
      <4>3. QED
        BY <2>1, <4>2 DEF j
    <3>2. CASE s >= LINE
      <4>1. px - q <= py - p + (LINE - 1)
        BY <2>2, <2>3, <2>5, <2>7, <3>2, Constants
      <4>2. PICK m \in Int : px = py + LINE * m
        BY <2>5, <3>2
      <4>3. f[j] - q <= e[j] - p + (LINE - 1)
        BY <2>2, <2>3, <4>1, Constants
      <4>4. f[j] = e[j] + LINE * m
        BY <2>2, <2>3, <4>2, Constants
      <4>5. QED
        BY <2>1, <4>3, <4>4 DEF j
    <3>3. QED
      BY <2>2, <3>1, <3>2, Constants
  <2>8. CASE ~(x - q = y - p)
    <3>1. Shifted(k)
      BY <2>4, <2>8 DEF x, y
    <3>2. PICK m \in Int : x = y + LINE * m
      BY <3>1 DEF x, y
    <3>3. px = py + LINE * m
      BY <2>6, <3>2
    <3>4. x - q <= y - p + (LINE - 1)
      BY <3>1 DEF x, y
    <3>5. LINE * m \in Int
      BY Constants
    <3>6. px - q <= py - p + (LINE - 1)
      BY <2>2, <2>3, <3>2, <3>3, <3>4, <3>5, Constants
    <3>7. f[j] - q <= e[j] - p + (LINE - 1) /\ f[j] = e[j] + LINE * m
      BY <2>2, <2>3, <3>3, <3>5, <3>6, Constants
    <3>8. QED
      BY <2>1, <3>7 DEF j
  <2>9. QED
    BY <2>7, <2>8
<1> HIDE DEF S
<1>6. 0 .. n \subseteq S
  BY <1>1, <1>4, <1>5, CountUp
<1>7. n \in S
  BY <1>1, <1>6
<1>8. f[n] - q <= e[n] - p + (LINE - 1)
  <2>1. Same(n) \/ Shifted(n)
    BY <1>7 DEF S
  <2>2. e[n] \in Nat /\ f[n] \in Nat
    BY <1>1, <1>2
  <2>3. QED
    BY <2>1, <2>2, Constants
<1>9. QED
  BY <1>8 DEF e, f, n, EndOf
-----------------------------------------------------------------------------
(* Runs *)

LEMMA RunRange ==
    ASSUME NEW r, Within(r)
    PROVE  /\ r = [base |-> r.base, size |-> r.size]
           /\ r.base \in Nat /\ r.size \in Nat /\ r.size >= 1 /\ r.base + r.size <= HEAP
           /\ r.base \in RunCells(r) /\ RunCells(r) \subseteq 0 .. HEAP - 1
           /\ \A g : g \in RunCells(r) <=> g \in Int /\ r.base <= g /\ g < r.base + r.size
<1>1. r \in [base : 0 .. HEAP, size : 0 .. HEAP] /\ r.size >= 1 /\ r.base + r.size <= HEAP
  BY DEF Within, Runs, Addr
<1>2. /\ r = [base |-> r.base, size |-> r.size]
      /\ r.base \in Nat /\ r.size \in Nat
  BY <1>1
<1>3. QED
  BY <1>1, <1>2, Constants DEF RunCells

\* A free run is full of free granules and has none on either side.
LEMMA MaximalRunIs ==
    ASSUME NEW F, F \subseteq 0 .. HEAP - 1, NEW r \in MaximalRuns(F)
    PROVE  /\ Within(r) /\ RunCells(r) \subseteq F
           /\ r.base - 1 \notin F /\ r.base + r.size \notin F
<1>1. PICK a \in F : a - 1 \notin F /\ r = [base |-> a, size |-> Min({g \in a .. HEAP : g \notin F}) - a]
  BY DEF MaximalRuns
<1> DEFINE D == {g \in a .. HEAP : g \notin F}
           m == Min(D)
<1>2. a \in Nat /\ a <= HEAP - 1 /\ HEAP \in D /\ D \subseteq Nat
  BY Constants
<1>3. m \in D /\ \A x \in D : m <= x
  <2> HIDE DEF D
  <2>1. QED
    BY <1>2, MinIs
<1>4. m \in Nat /\ a <= m /\ m <= HEAP /\ m \notin F /\ m # a
  BY <1>1, <1>2, <1>3
<1>5. r.base = a /\ r.size = m - a
  BY <1>1
<1>6. r.size \in 1 .. HEAP /\ r.base \in 0 .. HEAP /\ r.base + r.size = m
  BY <1>2, <1>4, <1>5, Constants
<1>7. Within(r)
  <2>1. r = [base |-> r.base, size |-> r.size]
    BY <1>1
  <2>2. QED
    BY <1>4, <1>6, <2>1, Constants DEF Within, Runs, Addr
<1>8. ASSUME NEW g \in RunCells(r) PROVE g \in F
  <2>1. g \in Int /\ a <= g /\ g < m
    BY <1>2, <1>4, <1>5, <1>6, <1>8 DEF RunCells
  <2>2. g \notin D
    BY <1>3, <1>4, <2>1
  <2>3. QED
    BY <1>2, <1>4, <2>1, <2>2, Constants
<1>9. QED
  BY <1>1, <1>4, <1>5, <1>6, <1>7, <1>8

LEMMA MaximalRunsApart ==
    ASSUME NEW F, F \subseteq 0 .. HEAP - 1, NEW r \in MaximalRuns(F), NEW s \in MaximalRuns(F),
           r # s
    PROVE  r.base # s.base /\ RunCells(r) \cap RunCells(s) = {}
<1>1. /\ Within(r) /\ RunCells(r) \subseteq F /\ r.base - 1 \notin F /\ r.base + r.size \notin F
      /\ Within(s) /\ RunCells(s) \subseteq F /\ s.base - 1 \notin F /\ s.base + s.size \notin F
  BY MaximalRunIs
<1>2. /\ r.base \in Nat /\ r.size \in Nat /\ s.base \in Nat /\ s.size \in Nat
      /\ r = [base |-> r.base, size |-> r.size] /\ s = [base |-> s.base, size |-> s.size]
      /\ \A g : g \in RunCells(r) <=> g \in Int /\ r.base <= g /\ g < r.base + r.size
      /\ \A g : g \in RunCells(s) <=> g \in Int /\ s.base <= g /\ g < s.base + s.size
      /\ r.size >= 1 /\ s.size >= 1
  BY <1>1, RunRange
<1>3. r.base # s.base
  <2> SUFFICES ASSUME r.base = s.base PROVE FALSE
    OBVIOUS
  <2>1. r.size # s.size
    BY <1>2
  <2>2. CASE r.size < s.size
    <3>1. r.base + r.size \in RunCells(s)
      BY <1>2, <2>2
    <3>2. QED
      BY <1>1, <3>1
  <2>3. CASE s.size < r.size
    <3>1. s.base + s.size \in RunCells(r)
      BY <1>2, <2>3
    <3>2. QED
      BY <1>1, <3>1
  <2>4. QED
    BY <1>2, <2>1, <2>2, <2>3
<1>4. ASSUME NEW g \in RunCells(r), g \in RunCells(s) PROVE FALSE
  <2>1. g \in Int /\ r.base <= g /\ g < r.base + r.size /\ s.base <= g /\ g < s.base + s.size
    BY <1>2, <1>4
  <2>2. CASE r.base < s.base
    <3>1. s.base - 1 \in RunCells(r)
      BY <1>2, <2>1, <2>2
    <3>2. QED
      BY <1>1, <3>1
  <2>3. CASE s.base < r.base
    <3>1. r.base - 1 \in RunCells(s)
      BY <1>2, <2>1, <2>3
    <3>2. QED
      BY <1>1, <3>1
  <2>4. QED
    BY <1>2, <1>3, <2>2, <2>3
<1>5. QED
  BY <1>3, <1>4

\* A set of runs with bases of their own, listed by base: every run is in the
\* list once.
ByBase(R) ==
    [i \in 1 .. Cardinality(R) |->
        CHOOSE r \in R : Cardinality({s \in R : s.base < r.base}) = i - 1]

LEMMA ByBaseLists ==
    ASSUME NEW R, NEW n \in Nat, \A r \in R : r.base \in 0 .. n,
           \A r, s \in R : r # s => r.base # s.base
    PROVE  /\ ByBase(R) \in Seq(R) /\ Len(ByBase(R)) = Cardinality(R)
           /\ \A i \in DOMAIN ByBase(R) : ByBase(R)[i] \in R
           /\ \A i, j \in DOMAIN ByBase(R) : i # j => ByBase(R)[i] # ByBase(R)[j]
           /\ \A r \in R : \E i \in DOMAIN ByBase(R) : ByBase(R)[i] = r
<1> DEFINE Below(r) == {s \in R : s.base < r.base}
           rank == [r \in R |-> Cardinality(Below(r))]
           N == Cardinality(R)
           base == [r \in R |-> r.base]
<1>1. IsFiniteSet(R)
  <2>1. base \in Injection(R, 0 .. n)
    BY DEF Injection, IsInjective
  <2>2. IsFiniteSet(0 .. n)
    BY FS_Interval
  <2> HIDE DEF base
  <2>3. QED
    BY <2>1, <2>2, FS_Injection
<1>2. N \in Nat
  BY <1>1, FS_CardinalityType
<1>3. ASSUME NEW r \in R PROVE rank[r] \in 0 .. N - 1 /\ IsFiniteSet(Below(r))
  <2>1. Below(r) \in SUBSET R /\ Below(r) # R
    BY r.base \in 0 .. n
  <2>2. /\ IsFiniteSet(Below(r)) /\ Cardinality(Below(r)) <= N
        /\ N = Cardinality(Below(r)) => R = Below(r)
    <3> HIDE DEF Below
    <3>1. QED
      BY <1>1, <2>1, FS_Subset
  <2>3. Cardinality(Below(r)) \in Nat
    BY <2>2, FS_CardinalityType
  <2>4. rank[r] = Cardinality(Below(r))
    OBVIOUS
  <2> HIDE DEF rank, Below, N
  <2>5. QED
    BY <1>2, <2>1, <2>2, <2>3, <2>4
<1>4. ASSUME NEW r \in R, NEW s \in R, r.base < s.base PROVE rank[r] < rank[s]
  <2>1. Below(r) \in SUBSET Below(s) /\ r \in Below(s) /\ r \notin Below(r)
    <3>1. r.base \in 0 .. n /\ s.base \in 0 .. n /\ \A x \in R : x.base \in 0 .. n
      OBVIOUS
    <3>2. QED
      BY <1>4, <3>1
  <2>2. rank[r] = Cardinality(Below(r)) /\ rank[s] = Cardinality(Below(s))
    OBVIOUS
  <2>3. rank[r] \in Int /\ rank[s] \in Int /\ IsFiniteSet(Below(s))
    BY <1>3
  <2> HIDE DEF rank, Below
  <2>4. /\ Cardinality(Below(r)) <= Cardinality(Below(s))
        /\ Cardinality(Below(s)) = Cardinality(Below(r)) => Below(s) = Below(r)
    BY <2>1, <2>3, FS_Subset
  <2>5. QED
    BY <2>1, <2>2, <2>3, <2>4
<1>5. ASSUME NEW r \in R, NEW s \in R, r # s PROVE rank[r] # rank[s]
  <2>1. r.base \in 0 .. n /\ s.base \in 0 .. n /\ r.base # s.base
    BY <1>5
  <2>2. r.base < s.base \/ s.base < r.base
    BY <2>1
  <2>3. rank[r] \in Int /\ rank[s] \in Int
    BY <1>3
  <2> HIDE DEF rank
  <2>4. QED
    BY <1>4, <2>2, <2>3
<1>6. rank \in Surjection(R, 0 .. N - 1)
  <2>1. rank \in Injection(R, 0 .. N - 1)
    <3>1. rank \in [R -> 0 .. N - 1]
      BY <1>3
    <3>2. DOMAIN rank = R
      OBVIOUS
    <3> HIDE DEF rank
    <3>3. QED
      BY <1>5, <3>1, <3>2 DEF Injection, IsInjective
  <2>2. IsFiniteSet(0 .. N - 1) /\ Cardinality(0 .. N - 1) = N
    <3> HIDE DEF N
    <3>1. 0 \in Int /\ N - 1 \in Int
      BY <1>2
    <3>2. Cardinality(0 .. N - 1) = IF 0 > N - 1 THEN 0 ELSE (N - 1) - 0 + 1
      BY <3>1, FS_Interval
    <3>3. Cardinality(0 .. N - 1) = N
      BY <1>2, <3>2
    <3>4. QED
      BY <3>1, <3>3, FS_Interval
  <2> HIDE DEF rank
  <2>3. QED
    BY <2>1, <2>2, FS_Injection
<1> DEFINE f == ByBase(R)
           g == [i \in 1 .. N |-> CHOOSE r \in R : Cardinality(Below(r)) = i - 1]
<1>7. f = g
  BY DEF ByBase
<1>8. ASSUME NEW i \in 1 .. N PROVE f[i] \in R /\ rank[f[i]] = i - 1
  <2>1. i - 1 \in 0 .. N - 1
    BY <1>2
  <2>2. PICK r \in R : rank[r] = i - 1
    BY <1>6, <2>1 DEF Surjection
  <2>3. Cardinality(Below(r)) = i - 1
    BY <2>2
  <2>4. g[i] = CHOOSE x \in R : Cardinality(Below(x)) = i - 1
    OBVIOUS
  <2>5. g[i] \in R /\ Cardinality(Below(g[i])) = i - 1
    <3> HIDE DEF g, Below
    <3>1. QED
      BY <2>3, <2>4
  <2>6. QED
    BY <1>7, <2>5
<1>9. DOMAIN f = 1 .. N /\ f = [i \in 1 .. N |-> f[i]]
  BY <1>7
<1> HIDE DEF f, g, rank, N
<1>10. f \in Seq(R) /\ Len(f) = N
  BY <1>2, <1>8, <1>9
<1>11. ASSUME NEW i \in 1 .. N, NEW j \in 1 .. N, i # j PROVE f[i] # f[j]
  <2>1. rank[f[i]] = i - 1 /\ rank[f[j]] = j - 1
    BY <1>8
  <2>2. i - 1 # j - 1
    BY <1>11
  <2>3. QED
    BY <2>1, <2>2
<1>12. ASSUME NEW r \in R PROVE \E i \in 1 .. N : f[i] = r
  <2>1. rank[r] \in 0 .. N - 1
    BY <1>3
  <2> DEFINE i == rank[r] + 1
  <2>2. i \in 1 .. N /\ i - 1 = rank[r]
    BY <1>2, <2>1
  <2>3. f[i] \in R /\ rank[f[i]] = rank[r]
    <3> HIDE DEF i
    <3>1. QED
      BY <1>8, <2>2
  <2>4. f[i] = r
    BY <1>5, <2>3
  <2>5. QED
    BY <2>2, <2>4
<1>13. QED
  BY <1>8, <1>9, <1>10, <1>11, <1>12 DEF f, N
-----------------------------------------------------------------------------
(* Lists of runs *)

LEMMA SeqIs ==
    ASSUME NEW X, NEW s \in Seq(X)
    PROVE  /\ Len(s) \in Nat /\ DOMAIN s = 1 .. Len(s)
           /\ s = [i \in 1 .. Len(s) |-> s[i]]
           /\ \A i \in DOMAIN s : s[i] \in X
OBVIOUS

LEMMA SameSeq ==
    ASSUME NEW X, NEW s \in Seq(X), NEW t \in Seq(X), Len(s) = Len(t),
           \A i \in 1 .. Len(s) : s[i] = t[i]
    PROVE  s = t
<1>1. s = [i \in 1 .. Len(s) |-> s[i]] /\ t = [i \in 1 .. Len(s) |-> t[i]]
  BY SeqIs
<1>2. QED
  BY <1>1

LEMMA MemoryRuns ==
    ASSUME NEW m \in Seq(Headers)
    PROVE  /\ RunsOf(m) \in Seq(Runs) /\ Len(RunsOf(m)) = Len(m)
           /\ DOMAIN RunsOf(m) = DOMAIN m
           /\ \A i \in DOMAIN m : RunsOf(m)[i] = m[i].run
<1>1. Len(m) \in Nat /\ DOMAIN m = 1 .. Len(m)
  OBVIOUS
<1>2. \A i \in 1 .. Len(m) : m[i] \in Headers
  BY <1>1, SeqIs
<1>3. \A i \in 1 .. Len(m) : m[i].run \in Runs
  BY <1>2 DEF Headers
<1>4. RunsOf(m) = [i \in 1 .. Len(m) |-> m[i].run]
  BY <1>1 DEF RunsOf
<1>5. QED
  BY <1>1, <1>3, <1>4

LEMMA ListsTyped ==
    ASSUME TypeOK
    PROVE  /\ list = [ahead |-> list.ahead, below |-> list.below, memory |-> list.memory]
           /\ list.ahead \in Seq(Runs) /\ list.below \in Seq(Runs)
           /\ list.memory \in Seq(Headers)
           /\ RunsOf(list.memory) \in Seq(Runs)
           /\ Len(RunsOf(list.memory)) = Len(list.memory)
           /\ DOMAIN RunsOf(list.memory) = DOMAIN list.memory
           /\ \A i \in DOMAIN list.memory : RunsOf(list.memory)[i] = list.memory[i].run
<1> DEFINE m == list.memory
<1>1. list \in Listings
  BY DEF TypeOK
<1>2. /\ m \in Seq(Headers) /\ list.ahead \in Seq(Runs) /\ list.below \in Seq(Runs)
      /\ list = [ahead |-> list.ahead, below |-> list.below, memory |-> list.memory]
  BY <1>1 DEF Listings
<1>3. QED
  BY <1>2, MemoryRuns

LEMMA TakeFirst ==
    ASSUME NEW X, NEW s \in Seq(X), s # <<>>
    PROVE  /\ Len(s) \in Nat /\ Len(s) >= 1 /\ Head(s) = s[1] /\ 1 \in DOMAIN s
           /\ Tail(s) \in Seq(X) /\ Len(Tail(s)) = Len(s) - 1
           /\ \A i \in DOMAIN Tail(s) : i + 1 \in DOMAIN s /\ i + 1 # 1 /\ Tail(s)[i] = s[i + 1]
           /\ \A i \in DOMAIN s : i = 1 \/ (i - 1 \in DOMAIN Tail(s) /\ Tail(s)[i - 1] = s[i])
           /\ \A x \in ToSet(s) : x = Head(s) \/ x \in ToSet(Tail(s))
<1>1. Len(s) \in Nat /\ Len(s) >= 1 /\ DOMAIN s = 1 .. Len(s)
  OBVIOUS
<1>2. Tail(s) \in Seq(X) /\ Len(Tail(s)) = Len(s) - 1 /\ Head(s) = s[1]
  OBVIOUS
<1>3. DOMAIN Tail(s) = 1 .. Len(s) - 1
  BY <1>1, <1>2
<1>4. \A i \in 1 .. Len(s) - 1 : Tail(s)[i] = s[i + 1]
  BY <1>1
<1>5. ASSUME NEW i \in DOMAIN s, i # 1 PROVE i - 1 \in DOMAIN Tail(s) /\ Tail(s)[i - 1] = s[i]
  <2>1. i - 1 \in 1 .. Len(s) - 1 /\ (i - 1) + 1 = i
    BY <1>1, <1>5
  <2>2. QED
    BY <1>3, <1>4, <2>1
<1>6. \A i \in DOMAIN Tail(s) : i + 1 \in DOMAIN s /\ i + 1 # 1 /\ Tail(s)[i] = s[i + 1]
  BY <1>1, <1>3, <1>4
<1>7. ASSUME NEW x \in ToSet(s), x # Head(s) PROVE x \in ToSet(Tail(s))
  <2>1. PICK i \in DOMAIN s : x = s[i]
    BY DEF ToSet
  <2> DEFINE T == Tail(s)
             j == i - 1
  <2>2. j \in DOMAIN T /\ T[j] = x
    BY <1>2, <1>5, <1>7, <2>1
  <2> HIDE DEF T, j
  <2>3. x \in ToSet(T)
    BY <2>2 DEF ToSet
  <2>4. QED
    BY <2>3 DEF T
<1>8. QED
  BY <1>1, <1>2, <1>5, <1>6, <1>7

\* Taking the first run of a list leaves the rest apart from it.
LEMMA FirstApart ==
    ASSUME NEW s \in Seq(Runs), s # <<>>, Apart(s)
    PROVE  /\ Apart(Tail(s)) /\ SeqCells(Tail(s)) \subseteq SeqCells(s)
           /\ RunCells(Head(s)) \subseteq SeqCells(s)
           /\ RunCells(Head(s)) \cap SeqCells(Tail(s)) = {}
<1>1. /\ Head(s) = s[1] /\ 1 \in DOMAIN s
      /\ \A i \in DOMAIN Tail(s) : i + 1 \in DOMAIN s /\ i + 1 # 1 /\ Tail(s)[i] = s[i + 1]
  BY TakeFirst
<1>2. \A i, j \in DOMAIN s : i # j => RunCells(s[i]) \cap RunCells(s[j]) = {}
  BY DEF Apart
<1>3. Apart(Tail(s))
  <2>1. \A i, j \in DOMAIN Tail(s) : i \in Int /\ j \in Int
    BY TakeFirst
  <2>2. ASSUME NEW i \in DOMAIN Tail(s), NEW j \in DOMAIN Tail(s), i # j
        PROVE RunCells(Tail(s)[i]) \cap RunCells(Tail(s)[j]) = {}
    <3>1. i + 1 # j + 1
      BY <2>1, <2>2
    <3>2. QED
      BY <1>1, <1>2, <3>1
  <2>3. QED
    BY <2>2 DEF Apart
<1>4. SeqCells(Tail(s)) \subseteq SeqCells(s)
  BY <1>1 DEF SeqCells
<1>5. RunCells(Head(s)) \subseteq SeqCells(s)
  BY <1>1 DEF SeqCells
<1>6. RunCells(Head(s)) \cap SeqCells(Tail(s)) = {}
  <2> SUFFICES ASSUME NEW g \in RunCells(Head(s)), g \in SeqCells(Tail(s)) PROVE FALSE
    OBVIOUS
  <2>1. PICK i \in DOMAIN Tail(s) : g \in RunCells(Tail(s)[i])
    BY DEF SeqCells
  <2>2. QED
    BY <1>1, <1>2, <2>1
<1>7. QED
  BY <1>3, <1>4, <1>5, <1>6

\* Lists of runs within the heap that share no granule.
GoodLists(l) ==
    /\ l \in Listings /\ Len(l.ahead) + Len(l.below) <= RUN_ONCHIP
    /\ \A i \in DOMAIN l.ahead : Within(l.ahead[i])
    /\ \A i \in DOMAIN l.below : Within(l.below[i])
    /\ \A i \in DOMAIN l.memory : Within(l.memory[i].run)
    /\ Apart(l.ahead) /\ Apart(l.below) /\ Apart(RunsOf(l.memory))
    /\ SeqCells(l.ahead) \cap SeqCells(l.below) = {}
    /\ SeqCells(l.ahead) \cap SeqCells(RunsOf(l.memory)) = {}
    /\ SeqCells(l.below) \cap SeqCells(RunsOf(l.memory)) = {}

LEMMA ListsGood ==
    ASSUME TypeOK, Bounds, Booked PROVE GoodLists(list)
BY DEF TypeOK, Bounds, Booked, GoodLists

\* The step that takes run r from the lists, as phases 0 and 1 do.
Takes(r) ==
    \/ /\ list.ahead # <<>> /\ r = Head(list.ahead)
       /\ list' = [list EXCEPT !.ahead = Tail(@)]
    \/ /\ list.memory # <<>> /\ r = Head(list.memory).run
       /\ list' = [list EXCEPT !.memory = Tail(@)]

LEMMA Taken ==
    ASSUME TypeOK, Bounds, Booked, NEW r, Takes(r)
    PROVE  /\ Within(r) /\ GoodLists(list') /\ Listed' \subseteq Listed
           /\ RunCells(r) \subseteq Listed /\ RunCells(r) \cap Listed' = {}
           /\ \A x \in Unseen : x = r \/ x \in Unseen'
<1> DEFINE a == list.ahead
           b == list.below
           m == list.memory
<1>1. /\ a \in Seq(Runs) /\ b \in Seq(Runs) /\ m \in Seq(Headers)
      /\ list = [ahead |-> a, below |-> b, memory |-> m]
  BY ListsTyped
<1>2. /\ \A i \in DOMAIN a : Within(a[i])
      /\ \A i \in DOMAIN b : Within(b[i])
      /\ \A i \in DOMAIN m : Within(m[i].run)
  BY DEF Bounds
<1>3. /\ Apart(a) /\ Apart(b) /\ Apart(RunsOf(m))
      /\ SeqCells(a) \cap SeqCells(b) = {}
      /\ SeqCells(a) \cap SeqCells(RunsOf(m)) = {}
      /\ SeqCells(b) \cap SeqCells(RunsOf(m)) = {}
  BY DEF Booked
<1>4. Len(a) + Len(b) <= RUN_ONCHIP
  BY DEF TypeOK
<1>5. /\ Listed = SeqCells(a) \cup SeqCells(b) \cup SeqCells(RunsOf(m))
      /\ Unseen = ToSet(a) \cup ToSet(b) \cup {e.run : e \in ToSet(m)}
      /\ Listed' = SeqCells(list'.ahead) \cup SeqCells(list'.below)
                      \cup SeqCells(RunsOf(list'.memory))
      /\ Unseen' = ToSet(list'.ahead) \cup ToSet(list'.below)
                      \cup {e.run : e \in ToSet(list'.memory)}
  BY DEF Listed, Unseen
<1>6. CASE /\ a # <<>> /\ r = Head(a)
           /\ list' = [list EXCEPT !.ahead = Tail(@)]
  <2>1. list' = [ahead |-> Tail(a), below |-> b, memory |-> m]
    BY <1>1, <1>6
  <2> HIDE DEF a, b, m
  <2>2. /\ Len(a) \in Nat /\ r = a[1] /\ 1 \in DOMAIN a
        /\ Tail(a) \in Seq(Runs) /\ Len(Tail(a)) = Len(a) - 1
        /\ \A i \in DOMAIN Tail(a) : i + 1 \in DOMAIN a /\ Tail(a)[i] = a[i + 1]
        /\ \A i \in DOMAIN a : i = 1 \/ (i - 1 \in DOMAIN Tail(a) /\ Tail(a)[i - 1] = a[i])
    BY <1>1, <1>6, TakeFirst
  <2>3. /\ Apart(Tail(a)) /\ SeqCells(Tail(a)) \subseteq SeqCells(a)
        /\ RunCells(r) \subseteq SeqCells(a) /\ RunCells(r) \cap SeqCells(Tail(a)) = {}
    BY <1>1, <1>3, <1>6, FirstApart
  <2>4. Len(Tail(a)) + Len(b) <= RUN_ONCHIP
    BY <1>1, <1>4, <2>2, Constants
  <2>5. \A x \in ToSet(a) : x = r \/ x \in ToSet(Tail(a))
    BY <1>1, <1>6, TakeFirst
  <2>6. \A i \in DOMAIN Tail(a) : Within(Tail(a)[i])
    BY <1>2, <2>2
  <2>7. RunCells(r) \cap Listed' = {}
    BY <1>3, <1>5, <2>1, <2>3
  <2>8. QED
    BY <1>1, <1>2, <1>3, <1>5, <2>1, <2>2, <2>3, <2>4, <2>5, <2>6, <2>7
       DEF a, b, m, Listings, GoodLists
<1>7. CASE /\ m # <<>> /\ r = Head(m).run
           /\ list' = [list EXCEPT !.memory = Tail(@)]
  <2> DEFINE s == RunsOf(m)
  <2>1. list' = [ahead |-> a, below |-> b, memory |-> Tail(m)]
    BY <1>1, <1>7
  <2> HIDE DEF a, b, m
  <2>2. /\ Len(m) \in Nat /\ Head(m) = m[1] /\ 1 \in DOMAIN m
        /\ Tail(m) \in Seq(Headers) /\ Len(Tail(m)) = Len(m) - 1
        /\ \A i \in DOMAIN Tail(m) : i + 1 \in DOMAIN m /\ Tail(m)[i] = m[i + 1]
        /\ \A i \in DOMAIN m : i = 1 \/ (i - 1 \in DOMAIN Tail(m) /\ Tail(m)[i - 1] = m[i])
    BY <1>1, <1>7, TakeFirst
  <2>3. /\ s \in Seq(Runs) /\ Len(s) = Len(m) /\ DOMAIN s = DOMAIN m
        /\ \A i \in DOMAIN m : s[i] = m[i].run
        /\ RunsOf(Tail(m)) \in Seq(Runs) /\ DOMAIN RunsOf(Tail(m)) = DOMAIN Tail(m)
        /\ Len(RunsOf(Tail(m))) = Len(Tail(m))
        /\ \A i \in DOMAIN Tail(m) : RunsOf(Tail(m))[i] = Tail(m)[i].run
    BY <1>1, <2>2, MemoryRuns
  <2>4. s # <<>> /\ r = Head(s)
    <3> HIDE DEF s
    <3>1. 1 \in DOMAIN s /\ s[1] = r
      BY <1>7, <2>2, <2>3
    <3>2. s # <<>>
      BY <3>1
    <3>3. Head(s) = s[1]
      BY <2>3, <3>2, TakeFirst
    <3>4. QED
      BY <3>1, <3>2, <3>3
  <2> HIDE DEF s
  <2>5. RunsOf(Tail(m)) = Tail(s)
    <3>1. /\ Tail(s) \in Seq(Runs) /\ Len(Tail(s)) = Len(s) - 1
          /\ \A i \in DOMAIN Tail(s) : Tail(s)[i] = s[i + 1]
      BY <2>3, <2>4, TakeFirst
    <3>2. Len(RunsOf(Tail(m))) = Len(Tail(s))
      BY <2>2, <2>3, <3>1
    <3> DEFINE x == RunsOf(Tail(m))
               y == Tail(s)
    <3>3. DOMAIN x = 1 .. Len(x) /\ DOMAIN y = 1 .. Len(y)
      <4>1. x \in Seq(Runs) /\ y \in Seq(Runs)
        BY <2>3, <3>1
      <4> HIDE DEF x, y
      <4>2. QED
        BY <4>1, SeqIs
    <3>4. \A i \in 1 .. Len(x) : x[i] = y[i]
      BY <2>2, <2>3, <3>1, <3>2, <3>3
    <3>5. x = y
      <4>1. x \in Seq(Runs) /\ y \in Seq(Runs) /\ Len(x) = Len(y)
        BY <2>3, <3>1, <3>2
      <4> HIDE DEF x, y
      <4>2. QED
        BY <3>4, <4>1, SameSeq
    <3>6. QED
      BY <3>5
  <2>6. /\ Apart(Tail(s)) /\ SeqCells(Tail(s)) \subseteq SeqCells(s)
        /\ RunCells(r) \subseteq SeqCells(s) /\ RunCells(r) \cap SeqCells(Tail(s)) = {}
    BY <1>3, <2>3, <2>4, FirstApart DEF s
  <2>7. \A x \in {e.run : e \in ToSet(m)} : x = r \/ x \in {e.run : e \in ToSet(Tail(m))}
    <3>1. \A e \in ToSet(m) : e = Head(m) \/ e \in ToSet(Tail(m))
      BY <1>1, <1>7, TakeFirst
    <3>2. QED
      BY <1>7, <3>1
  <2>8. \A i \in DOMAIN Tail(m) : Within(Tail(m)[i].run)
    BY <1>2, <2>2
  <2>9. RunCells(r) \cap Listed' = {}
    BY <1>3, <1>5, <2>1, <2>5, <2>6 DEF s
  <2>10. Within(r)
    BY <1>2, <1>7, <2>2
  <2>11. QED
    BY <1>1, <1>2, <1>3, <1>4, <1>5, <2>1, <2>2, <2>5, <2>6, <2>7, <2>8, <2>9, <2>10
       DEF a, b, m, s, Listings, GoodLists
<1>8. QED
  BY <1>6, <1>7 DEF Takes
-----------------------------------------------------------------------------
(* What steps leave alone *)

LEMMA Registers ==
    ASSUME TypeOK
    PROVE  /\ cur = [ptr |-> cur.ptr, limit |-> cur.limit, base |-> cur.base]
           /\ cur.ptr \in Nat /\ cur.limit \in Nat /\ cur.base \in Nat
           /\ cur.ptr <= cur.limit /\ cur.limit <= HEAP
           /\ rq.need \in Nat /\ rq.largest \in Nat
           /\ touched \in Nat /\ zero \in Nat /\ touched <= HEAP
           /\ Current \subseteq 0 .. HEAP - 1
           /\ \A g : g \in Current <=> g \in Int /\ cur.ptr <= g /\ g < cur.limit
<1>1. cur \in [ptr : 0 .. HEAP, limit : 0 .. HEAP, base : 0 .. HEAP] /\ cur.ptr <= cur.limit
  BY DEF TypeOK, Addr
<1>2. rq.need \in Nat /\ rq.largest \in 0 .. HEAP
  BY DEF TypeOK, Addr, Demands
<1>3. touched \in 0 .. HEAP /\ zero \in 0 .. HEAP + 1
  BY DEF TypeOK, Addr
<1>4. QED
  BY <1>1, <1>2, <1>3, Constants DEF Current

LEMMA Parts ==
    ASSUME TypeOK, Bounds, NEW b \in blocks
    PROVE  /\ b.at \in Nat /\ b.n \in Nat /\ b.n >= 1 /\ b.at + b.n <= HEAP
           /\ Cells(b) \subseteq 0 .. HEAP - 1 /\ Cells(b) \subseteq CellsOf(blocks)
           /\ b.at \in Cells(b)
<1>1. b \in [at : 0 .. HEAP, n : 0 .. HEAP]
  BY DEF TypeOK, Addr
<1>2. b.n >= 1 /\ b.at + b.n <= HEAP
  BY DEF Bounds
<1>3. b.at \in Nat /\ b.n \in Nat
  BY <1>1
<1>4. Cells(b) \subseteq 0 .. HEAP - 1 /\ b.at \in Cells(b)
  BY <1>2, <1>3, Constants DEF Cells
<1>5. Cells(b) \subseteq CellsOf(blocks)
  BY DEF CellsOf
<1>6. QED
  BY <1>2, <1>3, <1>4, <1>5

LEMMA BookedShrinks ==
    ASSUME Booked, list' = list, blocks' \subseteq blocks, Current' \subseteq Current,
           Carried' \subseteq Carried, MarkApart'
    PROVE  Booked'
<1>1. Listed' = Listed
  BY DEF Listed
<1>2. CellsOf(blocks') \subseteq CellsOf(blocks)
  BY DEF CellsOf
<1>3. /\ Listed \cap (CellsOf(blocks) \cup Current \cup Carried) = {}
      /\ CellsOf(blocks) \cap (Current \cup Carried) = {}
      /\ Current \cap Carried = {}
      /\ \A b, c \in blocks : b # c => Cells(b) \cap Cells(c) = {}
  BY DEF Booked
<1>4. /\ Listed' \cap (CellsOf(blocks') \cup Current' \cup Carried') = {}
      /\ CellsOf(blocks') \cap (Current' \cup Carried') = {}
      /\ Current' \cap Carried' = {}
      /\ \A b, c \in blocks' : b # c => Cells(b) \cap Cells(c) = {}
  BY <1>1, <1>2, <1>3
<1>5. QED
  BY <1>4 DEF Booked

LEMMA MarkApartStays ==
    ASSUME MarkApart, UNCHANGED <<cur, list>>, Carried' \subseteq Carried,
           mark' = mark \/ mark' = NextEpoch(mark) \/ mark' = <<>>
    PROVE  MarkApart'
<1>1. Listed' = Listed
  BY DEF Listed
<1>2. CASE mark' = mark
  <2> SUFFICES ASSUME mark # <<>>, ~Superseded(mark[1])
      PROVE (mark[1].ptr .. cur.limit - 1) \cap (Listed' \cup Carried') = {}
    BY <1>2 DEF MarkApart, Superseded
  <2>1. (mark[1].ptr .. cur.limit - 1) \cap (Listed \cup Carried) = {}
    BY DEF MarkApart
  <2>2. QED
    BY <1>1, <2>1
<1>3. CASE mark' = NextEpoch(mark)
  <2>1. mark' = <<>> \/ Superseded(mark[1])'
    BY <1>3 DEF NextEpoch, Superseded
  <2>2. QED
    BY <2>1 DEF MarkApart
<1>4. CASE mark' = <<>>
  BY <1>4 DEF MarkApart
<1>5. QED
  BY <1>2, <1>3, <1>4

LEMMA BookedStays ==
    ASSUME Booked, UNCHANGED <<cur, list>>, blocks' \subseteq blocks, Carried' \subseteq Carried,
           mark' = mark \/ mark' = NextEpoch(mark) \/ mark' = <<>>
    PROVE  Booked'
<1>1. MarkApart'
  BY MarkApartStays DEF Booked
<1>2. Current' = Current
  BY DEF Current
<1>3. QED
  BY <1>1, <1>2, BookedShrinks

LEMMA BoundsStay ==
    ASSUME Bounds, list' = list, blocks' \subseteq blocks, al'.phase # 4, touched' <= zero'
    PROVE  Bounds'
BY DEF Bounds, Within

\* Most steps of S_GC_ALLOC move no granule.
LEMMA QuietStep ==
    ASSUME Inv, UNCHANGED <<cur, list, touched, zero, blocks>>,
           mark' = mark \/ mark' = NextEpoch(mark) \/ mark' = <<>>,
           al'.phase \in {0, 2, 3}
    PROVE  Bounds' /\ Booked'
<1>1. touched' <= zero'
  BY DEF Inv, Bounds
<1>2. Bounds'
  BY <1>1, BoundsStay DEF Inv
<1>3. Carried' \subseteq Carried
  BY DEF Carried
<1>4. QED
  BY <1>2, <1>3, BookedStays DEF Inv

LEMMA SameFreeRuns ==
    ASSUME Looked, UNCHANGED <<list, blocks>>, rq'.need = rq.need,
           rq.abort, rq.collected, ~rq.oom, st = "alloc",
           al.phase = 0 \/ (al.phase = 4 /\ ~al.install)
    PROVE  Looked'
<1>1. \A r \in MaximalRuns((0 .. HEAP - 1) \ CellsOf(blocks)) : Fit(r) => r \in Unseen
  BY DEF Looked
<1>2. Unseen' = Unseen /\ \A r : Fit(r)' <=> Fit(r)
  BY DEF Unseen, Fit
<1>3. QED
  BY <1>1, <1>2 DEF Looked
-----------------------------------------------------------------------------
(* The steps of S_GC_ALLOC that move no granule *)

LEMMA StartCollectionStep ==
    ASSUME Inv, StartCollection PROVE Inv'
<1> USE DEF StartCollection, Searching
<1>1. rq.abort /\ ~rq.collected /\ al.phase = 0 /\ ~rq.oom /\ st = "alloc" /\ st' = "gc"
  BY DEF Inv, Phases
<1>2. TypeOK'
  BY DEF Inv, TypeOK, Demands, Searches
<1>3. Phases'
  BY <1>1 DEF Inv, Phases
<1>4. Bounds' /\ Booked'
  BY <1>1, QuietStep
<1>5. Clean'
  BY <1>1 DEF Inv, Clean
<1>6. Measured'
  BY <1>1 DEF Inv, Measured
<1>7. Looked'
  BY <1>1 DEF Looked
<1>8. QED
  BY <1>2, <1>3, <1>4, <1>5, <1>6, <1>7 DEF Inv

LEMMA NoTodo ==
    ASSUME todo = <<>> PROVE ToSet(todo) = {}
BY DEF ToSet

LEMMA NothingWantedStep ==
    ASSUME Inv, NothingWanted PROVE Inv'
<1> USE DEF NothingWanted, Searching
<1>1. /\ ~rq.abort /\ al.phase = 0 /\ ~rq.oom /\ st = "alloc" /\ todo = <<>>
      /\ st' = "alloc" /\ todo' = todo /\ rq' = rq /\ al' = [al EXCEPT !.phase = 3]
  BY DEF Inv, Phases
<1>2. al'.phase = 3 /\ al' \in Searches
  BY <1>1 DEF Inv, TypeOK, Searches, AllocPhase
<1>3. TypeOK'
  BY <1>1, <1>2 DEF Inv, TypeOK
<1>4. Phases'
  BY <1>1, <1>2 DEF Inv, Phases
<1>5. Bounds' /\ Booked'
  BY <1>2, QuietStep
<1>6. Clean'
  BY <1>1, <1>2 DEF Inv, Clean, Current
<1>7. Measured'
  BY <1>1, NoTodo DEF Measured
<1>8. Looked'
  BY <1>1 DEF Looked
<1>9. QED
  BY <1>3, <1>4, <1>5, <1>6, <1>7, <1>8 DEF Inv

LEMMA OutOfMemoryStep ==
    ASSUME Inv, OutOfMemory PROVE Inv'
<1> USE DEF OutOfMemory, Searching
<1>1. /\ rq.abort /\ rq.collected /\ al.phase = 0 /\ ~rq.oom /\ st = "alloc"
      /\ st' = "alloc" /\ todo' = todo /\ al' = al
  BY DEF Inv, Phases
<1>2. TypeOK'
  BY DEF Inv, TypeOK, Demands, Searches
<1>3. /\ rq'.oom /\ rq'.abort = rq.abort /\ rq'.collected = rq.collected
      /\ rq'.need = rq.need
  BY DEF Inv, TypeOK, Demands, Searches
<1>4. Phases'
  BY <1>1, <1>3 DEF Inv, Phases
<1>5. Bounds' /\ Booked'
  BY <1>1, QuietStep
<1>6. Clean'
  BY <1>1, <1>3 DEF Inv, Clean, Current
<1>7. Measured'
  BY <1>1, <1>3 DEF Inv, Measured, Fits
<1>8. Looked'
  BY <1>3 DEF Looked
<1>9. QED
  BY <1>2, <1>4, <1>5, <1>6, <1>7, <1>8 DEF Inv

LEMMA ZeroRunStep ==
    ASSUME Inv, ZeroRun PROVE Inv'
<1> USE DEF ZeroRun
<1>1. /\ al.phase = 2 /\ ~rq.oom /\ st = "alloc" /\ ~al.header
      /\ st' = "alloc" /\ todo' = todo /\ rq' = rq
      /\ stale' = stale \ (al.from .. al.upto - 1)
  BY DEF Inv, Phases
<1>2. al'.phase = 3 /\ al' \in Searches
  BY DEF Inv, TypeOK, Searches, AllocPhase
<1>3. TypeOK'
  <2>1. stale' \subseteq stale
    BY <1>1
  <2>2. QED
    BY <1>1, <1>2, <2>1 DEF Inv, TypeOK
<1>4. Phases'
  BY <1>1, <1>2 DEF Inv, Phases
<1>5. Bounds' /\ Booked'
  BY <1>2, QuietStep
<1>6. Clean'
  BY <1>1, <1>2 DEF Inv, Clean, Current
<1>7. Measured'
  BY <1>1, <1>2 DEF Inv, Measured, Fits
<1>8. Looked'
  BY <1>2 DEF Looked
<1>9. QED
  BY <1>3, <1>4, <1>5, <1>6, <1>7, <1>8 DEF Inv

LEMMA IdleTyped == Idle \in Searches
<1>1. 0 \in Addr /\ NoRun \in Runs
  BY Constants DEF Addr, Runs, NoRun
<1>2. QED
  BY <1>1 DEF Idle, Searches, AllocPhase

LEMMA ResumeStep ==
    ASSUME Inv, Resume PROVE Inv'
<1> USE DEF Resume
<1>1. /\ al.phase = 3 /\ ~rq.oom /\ st = "alloc"
      /\ st' = "run" /\ todo' = todo /\ al' = Idle
  OBVIOUS
<1>2. al'.phase = 0 /\ ~al'.header
  BY DEF Idle
<1>3. /\ rq' = [rq EXCEPT !.abort = FALSE, !.need = 0, !.explicit = FALSE, !.collected = FALSE]
      /\ ~rq'.oom /\ ~rq'.abort /\ ~rq'.collected /\ rq'.need = 0 /\ rq' \in Demands
  BY <1>1 DEF Inv, TypeOK, Demands
<1>4. TypeOK'
  BY <1>1, <1>3, IdleTyped DEF Inv, TypeOK
<1>5. Phases'
  BY <1>1, <1>2, <1>3 DEF Inv, Phases
<1>6. Bounds' /\ Booked'
  BY <1>2, QuietStep
<1>7. Clean'
  BY <1>1, <1>2, <1>3 DEF Inv, Clean, Current
<1>8. Measured'
  BY <1>1, <1>2 DEF Inv, Measured, Fits
<1>9. Looked'
  BY <1>1 DEF Looked
<1>10. QED
  BY <1>4, <1>5, <1>6, <1>7, <1>8, <1>9 DEF Inv

LEMMA CompletedIs ==
    ASSUME TypeOK
    PROVE  /\ Completed(rq) \in Demands
           /\ Completed(rq).abort = rq.abort /\ Completed(rq).need = rq.need
           /\ Completed(rq).explicit = rq.explicit /\ Completed(rq).collected = rq.collected
           /\ Completed(rq).oom = rq.oom
<1>1. 0 \in Addr /\ -1 \in GuardHeap /\ 0 \in GuardCount
  BY Constants DEF Addr, GuardHeap, GuardCount
<1>2. rq \in Demands
  BY DEF TypeOK
<1>3. QED
  BY <1>1, <1>2 DEF Completed, Demands

LEMMA RaiseMemoryErrorStep ==
    ASSUME Inv, RaiseMemoryError PROVE Inv'
<1> USE DEF RaiseMemoryError
<1>1. /\ rq.oom /\ st = "alloc" /\ st' = "run" /\ todo' = <<>> /\ al' = Idle
  OBVIOUS
<1>2. al'.phase = 0 /\ ~al'.header
  BY DEF Idle
<1> DEFINE c == Completed(rq)
<1>3. /\ rq' \in Demands
      /\ ~rq'.oom /\ ~rq'.abort /\ ~rq'.collected /\ rq'.need = 0
  <2>1. rq' = [c EXCEPT !.abort = FALSE, !.need = 0, !.explicit = FALSE,
                        !.collected = FALSE, !.oom = FALSE]
    OBVIOUS
  <2>2. c \in Demands
    BY CompletedIs DEF Inv
  <2> DEFINE d == [c EXCEPT !.abort = FALSE, !.need = 0, !.explicit = FALSE,
                            !.collected = FALSE]
  <2> HIDE DEF c
  <2>3. d \in Demands /\ d.abort = FALSE /\ d.collected = FALSE /\ d.need = 0
    BY <2>2 DEF Demands
  <2>4. rq' = [d EXCEPT !.oom = FALSE]
    BY <2>1, <2>2
  <2> HIDE DEF d
  <2>5. QED
    BY <2>3, <2>4 DEF Demands
<1>4. TypeOK'
  BY <1>1, <1>3, IdleTyped DEF Inv, TypeOK
<1>5. Phases'
  BY <1>1, <1>2, <1>3 DEF Inv, Phases
<1>6. Bounds' /\ Booked'
  BY <1>2, QuietStep
<1>7. Clean'
  BY <1>1, <1>2, <1>3 DEF Inv, Clean, Current
<1>8. Measured'
  BY <1>1, NoTodo DEF Measured, ToSet
<1>9. Looked'
  BY <1>1 DEF Looked
<1>10. QED
  BY <1>4, <1>5, <1>6, <1>7, <1>8, <1>9 DEF Inv

LEMMA EmptyList ==
    /\ <<>> \in Seq(Runs) /\ Len(<<>>) = 0 /\ DOMAIN <<>> = {} /\ ToSet(<<>>) = {}
    /\ Apart(<<>>) /\ SeqCells(<<>>) = {} /\ SeqCells(RunsOf(<<>>)) = {}
    /\ Apart(RunsOf(<<>>)) /\ <<>> \in Seq(Headers)
<1>1. /\ <<>> \in Seq(Runs) /\ Len(<<>>) = 0 /\ DOMAIN <<>> = {} /\ <<>> \in Seq(Headers)
  OBVIOUS
<1>2. ToSet(<<>>) = {} /\ Apart(<<>>) /\ SeqCells(<<>>) = {}
  BY <1>1 DEF ToSet, Apart, SeqCells
<1>3. DOMAIN RunsOf(<<>>) = {}
  BY <1>1 DEF RunsOf
<1>4. SeqCells(RunsOf(<<>>)) = {} /\ Apart(RunsOf(<<>>))
  BY <1>3 DEF SeqCells, Apart
<1>5. QED
  BY <1>1, <1>2, <1>4

LEMMA WrapStep ==
    ASSUME Inv, Wrap PROVE Inv'
<1> USE DEF Wrap, Searching, Exhausted
<1> DEFINE b == list.below
           m == list.memory
<1>1. /\ st = "alloc" /\ st' = st /\ al.phase = 0 /\ al' = al /\ rq' = rq /\ cur' = cur
      /\ todo' = todo /\ blocks' = blocks /\ mark' = mark /\ stale' = stale
      /\ touched' = touched /\ zero' = zero /\ spoiled' = spoiled
  OBVIOUS
<1>2. /\ list = [ahead |-> <<>>, below |-> b, memory |-> m]
      /\ b \in Seq(Runs) /\ m \in Seq(Headers)
  BY ListsTyped DEF Inv
<1>3. list' = [ahead |-> b, below |-> <<>>, memory |-> m]
  BY <1>2
<1>4. TypeOK'
  <2>1. list' \in Listings
    BY <1>2, <1>3, EmptyList DEF Listings
  <2>2. Len(list'.ahead) + Len(list'.below) <= RUN_ONCHIP
    <3>1. Len(list.ahead) + Len(b) <= RUN_ONCHIP /\ list.ahead = <<>> /\ Len(b) \in Nat
      BY <1>2, SeqIs DEF Inv, TypeOK
    <3>2. Len(list'.ahead) = Len(b) /\ Len(list'.below) = 0 /\ Len(list.ahead) = 0
      BY <1>3, <3>1, EmptyList
    <3> DEFINE k == Len(b)
    <3> HIDE DEF b, k
    <3>3. QED
      BY <3>1, <3>2, Constants DEF k
  <2>3. QED
    BY <1>1, <2>1, <2>2 DEF Inv, TypeOK
<1>5. Phases'
  BY <1>1 DEF Inv, Phases
<1>6. Listed' = Listed /\ Unseen' = Unseen
  BY <1>2, <1>3, EmptyList DEF Listed, Unseen
<1>7. Bounds'
  BY <1>1, <1>2, <1>3, EmptyList DEF Inv, Bounds, Within, CurrentRun
<1>8. Booked'
  <2>1. Current' = Current /\ Carried' = Carried /\ CellsOf(blocks') = CellsOf(blocks)
    BY <1>1 DEF Current, Carried, CellsOf
  <2>2. MarkApart'
    BY <1>1, <1>6, <2>1 DEF Inv, Booked, MarkApart, Superseded
  <2>3. /\ Apart(list'.ahead) /\ Apart(list'.below) /\ Apart(RunsOf(list'.memory))
        /\ SeqCells(list'.ahead) \cap SeqCells(list'.below) = {}
        /\ SeqCells(list'.ahead) \cap SeqCells(RunsOf(list'.memory)) = {}
        /\ SeqCells(list'.below) \cap SeqCells(RunsOf(list'.memory)) = {}
    BY <1>3, EmptyList DEF Inv, Booked
  <2>4. QED
    BY <1>1, <1>6, <2>1, <2>2, <2>3 DEF Inv, Booked
<1>9. Clean'
  BY <1>1 DEF Inv, Clean, Current
<1>10. Measured'
  BY <1>1 DEF Inv, Measured, Fits, Fit
<1>11. Looked'
  BY <1>1, <1>6 DEF Inv, Looked, Fit
<1>12. QED
  BY <1>4, <1>5, <1>7, <1>8, <1>9, <1>10, <1>11 DEF Inv
-----------------------------------------------------------------------------
(* The program, without allocation *)

LEMMA GiveUpStep ==
    ASSUME Inv, GiveUp PROVE Inv'
<1> USE DEF GiveUp
<1>1. /\ st = "gc" /\ st' = "alloc" /\ al' = al /\ al.phase = 0 /\ cur' = cur /\ todo' = todo
      /\ stale' = stale /\ spoiled' = (spoiled \/ rq.abort) /\ ~rq.oom
  BY DEF Inv, Phases
<1>2. /\ rq' \in Demands /\ rq'.oom /\ rq'.collected /\ rq'.abort = rq.abort
      /\ rq'.need = rq.need
  BY DEF Inv, TypeOK, Demands
<1>3. mark' = <<>> \/ mark'[1] \in [ptr : Addr, now : BOOLEAN]
  BY Constants DEF NextEpoch, Addr
<1>4. TypeOK'
  BY <1>1, <1>2, <1>3 DEF Inv, TypeOK
<1>5. Phases'
  BY <1>1, <1>2 DEF Inv, Phases
<1>6. Bounds' /\ Booked'
  BY <1>1, QuietStep
<1>7. Clean'
  BY <1>1, <1>2 DEF Inv, Clean, Current
<1>8. Measured'
  BY <1>1, <1>2 DEF Inv, Measured
<1>9. Looked'
  BY <1>2 DEF Looked
<1>10. QED
  BY <1>4, <1>5, <1>6, <1>7, <1>8, <1>9 DEF Inv

LEMMA DropStep ==
    ASSUME Inv, NEW b \in blocks, Drop(b) PROVE Inv'
<1> USE DEF Drop
<1>1. /\ st = "run" /\ st' = st /\ al' = al /\ rq' = rq /\ cur' = cur /\ todo = <<>>
      /\ todo' = todo /\ list' = list /\ mark' = mark /\ blocks' \subseteq blocks
      /\ touched' = touched /\ zero' = zero /\ al.phase = 0
  BY DEF Inv, Phases
<1>2. TypeOK'
  BY <1>1 DEF Inv, TypeOK
<1>3. Phases'
  BY <1>1 DEF Inv, Phases
<1>4. touched' <= zero'
  BY DEF Inv, Bounds
<1>5. Bounds'
  BY <1>1, <1>4, BoundsStay DEF Inv
<1>6. Carried' \subseteq Carried
  BY <1>1 DEF Carried
<1>7. Booked'
  BY <1>1, <1>6, BookedStays DEF Inv
<1>8. Clean'
  BY <1>1 DEF Inv, Clean, Current
<1>9. Measured'
  BY <1>1, NoTodo DEF Measured
<1>10. Looked'
  BY <1>1 DEF Looked
<1>11. QED
  BY <1>2, <1>3, <1>5, <1>7, <1>8, <1>9, <1>10 DEF Inv

LEMMA CollectStep ==
    ASSUME Inv, NEW explicit \in BOOLEAN, Collect(explicit) PROVE Inv'
<1> USE DEF Collect
<1>1. /\ st = "run" /\ st' = "gc" /\ al' = al /\ cur' = cur /\ todo = <<>> /\ stale' = stale
      /\ todo' = todo /\ mark' = mark /\ al.phase = 0 /\ ~rq.abort /\ ~rq.collected /\ ~rq.oom
      /\ rq.need = 0 /\ spoiled' = spoiled
  BY DEF Inv, Phases
<1> DEFINE c == Completed(rq)
<1>2. rq' = [c EXCEPT !.explicit = explicit]
  OBVIOUS
<1>3. /\ c \in Demands /\ c.abort = FALSE /\ c.need = 0 /\ c.collected = FALSE /\ c.oom = FALSE
  BY <1>1, CompletedIs DEF Inv, TypeOK, Demands
<1> HIDE DEF c
<1>4. rq' \in Demands /\ ~rq'.abort /\ rq'.need = 0 /\ ~rq'.collected /\ ~rq'.oom
  BY <1>2, <1>3 DEF Demands
<1>5. TypeOK'
  BY <1>1, <1>4 DEF Inv, TypeOK
<1>6. Phases'
  BY <1>1, <1>4 DEF Inv, Phases
<1>7. Bounds' /\ Booked'
  BY <1>1, QuietStep
<1>8. Clean'
  BY <1>1, <1>4 DEF Inv, Clean, Current
<1>9. Measured'
  BY <1>1, NoTodo DEF Measured
<1>10. Looked'
  BY <1>1 DEF Looked
<1>11. QED
  BY <1>5, <1>6, <1>7, <1>8, <1>9, <1>10 DEF Inv

LEMMA HeapMarkStep ==
    ASSUME Inv, HeapMark PROVE Inv'
<1> USE DEF HeapMark
<1>1. /\ st = "run" /\ st' = st /\ al' = al /\ cur' = cur /\ todo = <<>> /\ stale' = stale
      /\ todo' = todo /\ al.phase = 0 /\ ~rq.abort /\ ~rq.collected /\ ~rq.oom
      /\ rq.need = 0 /\ spoiled' = spoiled /\ list' = list /\ blocks' = blocks
      /\ touched' = touched /\ zero' = zero
  BY DEF Inv, Phases
<1>2. /\ rq' \in Demands /\ ~rq'.abort /\ rq'.need = 0 /\ ~rq'.collected /\ ~rq'.oom
  BY <1>1, CompletedIs DEF Inv, TypeOK, Demands
<1>3. mark'[1] \in [ptr : Addr, now : BOOLEAN] /\ mark'[1].ptr = cur.ptr
  <2>1. cur.ptr \in Addr
    BY DEF Inv, TypeOK
  <2>2. QED
    BY <2>1
<1>4. TypeOK'
  BY <1>1, <1>2, <1>3 DEF Inv, TypeOK
<1>5. Phases'
  BY <1>1, <1>2 DEF Inv, Phases
<1>6. touched' <= zero'
  BY <1>1 DEF Inv, Bounds
<1>7. Bounds'
  BY <1>1, <1>6, BoundsStay DEF Inv
<1>8. MarkApart'
  <2>1. Listed' = Listed /\ Carried' = {}
    BY <1>1 DEF Listed, Carried
  <2>2. Listed \cap Current = {}
    BY DEF Inv, Booked
  <2>3. QED
    BY <1>1, <1>3, <2>1, <2>2 DEF MarkApart, Current
<1>9. Booked'
  <2>1. Current' = Current /\ Carried' \subseteq Carried
    BY <1>1 DEF Current, Carried
  <2>2. QED
    BY <1>1, <1>8, <2>1, BookedShrinks DEF Inv
<1>10. Clean'
  BY <1>1, <1>2 DEF Inv, Clean, Current
<1>11. Measured'
  BY <1>1, NoTodo DEF Measured
<1>12. Looked'
  BY <1>1 DEF Looked
<1>13. QED
  BY <1>4, <1>5, <1>7, <1>9, <1>10, <1>11, <1>12 DEF Inv

LEMMA HeapReleaseStep ==
    ASSUME Inv, HeapRelease PROVE Inv'
<1> USE DEF HeapRelease
<1> DEFINE m == mark[1]
<1>1. /\ st = "run" /\ todo = <<>> /\ todo' = todo /\ mark # <<>> /\ mark' = <<>>
      /\ al.phase = 0 /\ ~rq.abort /\ ~rq.collected /\ ~rq.oom
      /\ rq.need = 0 /\ spoiled' = spoiled /\ list' = list /\ blocks' = blocks
      /\ touched' = touched /\ zero' = zero /\ rq' = Completed(rq)
  BY DEF Inv, Phases
<1>2. /\ rq' \in Demands /\ ~rq'.abort /\ rq'.need = 0 /\ ~rq'.collected /\ ~rq'.oom
  BY <1>1, CompletedIs DEF Inv, TypeOK, Demands
<1>3. m \in [ptr : Addr, now : BOOLEAN] /\ m.ptr \in Addr
  BY <1>1 DEF Inv, TypeOK
<1>4. touched' <= zero'
  BY <1>1 DEF Inv, Bounds
<1>5. Measured' /\ MarkApart'
  BY <1>1, NoTodo DEF Measured, MarkApart
<1>6. Looked'
  BY <1>2 DEF Looked
<1>7. CASE st' \in {"run", "halt"} /\ UNCHANGED <<cur, al, stale>>
  <2>1. TypeOK'
    BY <1>1, <1>2, <1>7 DEF Inv, TypeOK
  <2>2. Phases'
    BY <1>1, <1>2, <1>7 DEF Inv, Phases
  <2>3. Bounds' /\ Booked'
    BY <1>1, <1>7, QuietStep
  <2>4. Clean'
    BY <1>1, <1>2, <1>7 DEF Inv, Clean, Current
  <2>5. QED
    BY <1>5, <1>6, <2>1, <2>2, <2>3, <2>4 DEF Inv
<1>8. CASE /\ ~Superseded(m) /\ m.ptr <= cur.ptr
           /\ CellsOf(blocks) \cap (m.ptr .. cur.ptr - 1) = {}
           /\ cur' = [cur EXCEPT !.ptr = m.ptr]
           /\ stale' = stale \cup (m.ptr .. cur.ptr - 1)
           /\ IF m.ptr < cur.ptr
              THEN /\ st' = "alloc"
                   /\ al' = [al EXCEPT !.phase = 2, !.header = FALSE,
                                       !.from = m.ptr, !.upto = cur.ptr]
              ELSE UNCHANGED <<st, al>>
  <2> DEFINE q == m.ptr
  <2>1. /\ cur = [ptr |-> cur.ptr, limit |-> cur.limit, base |-> cur.base]
        /\ cur.ptr \in Nat /\ cur.limit \in Nat /\ cur.base \in Nat
        /\ cur.ptr <= cur.limit /\ cur.limit <= HEAP
    BY Registers DEF Inv
  <2>2. q \in Nat /\ q <= HEAP
    BY <1>3, Constants DEF Addr
  <2>3. cur' = [ptr |-> q, limit |-> cur.limit, base |-> cur.base] /\ q <= cur.ptr
    BY <1>8, <2>1
  <2>4. \/ q < cur.ptr /\ st' = "alloc" /\ al' \in Searches /\ al'.phase = 2 /\ ~al'.header
              /\ al'.from = q /\ al'.upto = cur.ptr
        \/ q = cur.ptr /\ st' = "run" /\ al' = al
    <3>1. al \in Searches
      BY DEF Inv, TypeOK
    <3>2. CASE q < cur.ptr
      <4> DEFINE a == al
                 t == al'
                 p == cur.ptr
      <4>1. t = [a EXCEPT !.phase = 2, !.header = FALSE, !.from = q, !.upto = p] /\ st' = "alloc"
        BY <1>8, <3>2
      <4>2. q \in Addr /\ p \in Addr /\ a \in Searches
        BY <1>3, <3>1 DEF Inv, TypeOK
      <4> HIDE DEF m, q, a, t, p
      <4>3. t \in Searches /\ t.phase = 2 /\ t.header = FALSE /\ t.from = q /\ t.upto = p
        <5>1. 2 \in AllocPhase
          BY DEF AllocPhase
        <5>2. QED
          BY <4>1, <4>2, <5>1 DEF Searches
      <4>4. QED
        BY <3>2, <4>1, <4>3 DEF t, p
    <3>3. CASE ~(q < cur.ptr)
      <4>1. q = cur.ptr
        BY <2>1, <2>2, <2>3, <3>3
      <4>2. QED
        BY <1>1, <1>8, <3>3, <4>1
    <3>4. QED
      BY <3>2, <3>3
  <2>5. al' \in Searches /\ al'.phase \in {0, 2}
    <3>1. al \in Searches
      BY DEF Inv, TypeOK
    <3>2. QED
      BY <1>1, <2>4, <3>1
  <2>6. stale' = stale \cup (q .. cur.ptr - 1)
    BY <1>8
  <2>7. CellsOf(blocks) \cap (q .. cur.ptr - 1) = {}
    BY <1>8
  <2>8. (q .. cur.limit - 1) \cap (Listed \cup Carried) = {}
    BY <1>1, <1>8 DEF Inv, Booked, MarkApart
  <2> HIDE DEF m
  <2>9. TypeOK'
    <3>1. cur' \in [ptr : Addr, limit : Addr, base : Addr] /\ cur'.ptr <= cur'.limit
      BY <2>1, <2>2, <2>3, Constants DEF Inv, TypeOK, Addr
    <3>2. stale' \subseteq 0 .. HEAP - 1
      <4>1. stale \subseteq 0 .. HEAP - 1
        BY DEF Inv, TypeOK
      <4>2. QED
        BY <2>1, <2>2, <2>6, <4>1, Constants
    <3>3. st' \in {"run", "alloc"}
      BY <2>4
    <3>4. QED
      BY <1>1, <1>2, <2>5, <3>1, <3>2, <3>3 DEF Inv, TypeOK
  <2>10. Phases'
    BY <1>1, <1>2, <2>4 DEF Inv, Phases
  <2>11. Bounds'
    <3>1. al'.phase # 4
      BY <1>1, <2>4
    <3>2. QED
      BY <1>1, <1>4, <3>1, BoundsStay DEF Inv
  <2>12. Booked'
    <3>1. Listed' = Listed /\ Carried' = {} /\ CellsOf(blocks') = CellsOf(blocks)
      BY <1>1, <2>4 DEF Listed, Carried
    <3>2. Current' = q .. cur.limit - 1
      BY <2>3 DEF Current
    <3>3. Current' \subseteq (q .. cur.ptr - 1) \cup Current
      BY <2>1, <2>2, <2>3, <3>2 DEF Current
    <3>4. Listed' \cap (CellsOf(blocks') \cup Current' \cup Carried') = {}
      BY <2>8, <3>1, <3>2 DEF Inv, Booked
    <3>5. CellsOf(blocks') \cap (Current' \cup Carried') = {} /\ Current' \cap Carried' = {}
      BY <2>7, <3>1, <3>3 DEF Inv, Booked
    <3>6. QED
      BY <1>1, <1>5, <3>4, <3>5 DEF Inv, Booked
  <2>13. Clean'
    <3>1. ~spoiled' => Current \cap stale = {}
      BY <1>1 DEF Inv, Clean
    <3>2. ~spoiled' => Current' \cap stale' \subseteq q .. cur.ptr - 1
      BY <2>1, <2>2, <2>3, <2>6, <3>1 DEF Current
    <3>3. CASE q < cur.ptr /\ st' = "alloc" /\ al'.phase = 2 /\ al'.from = q /\ al'.upto = cur.ptr
      BY <1>2, <3>2, <3>3 DEF Clean
    <3>4. CASE q = cur.ptr /\ st' = "run" /\ al' = al
      <4>1. q .. cur.ptr - 1 = {}
        BY <2>1, <3>4
      <4>2. QED
        BY <1>1, <3>2, <3>4, <4>1 DEF Clean
    <3>5. QED
      BY <2>4, <3>3, <3>4
  <2>14. QED
    BY <1>5, <1>6, <2>9, <2>10, <2>11, <2>12, <2>13 DEF Inv
<1>9. QED
  <2>1. \/ st' = "run" /\ UNCHANGED <<cur, al, stale>>
        \/ st' = "halt" /\ UNCHANGED <<cur, al, stale>>
        \/ /\ ~Superseded(m) /\ m.ptr <= cur.ptr
           /\ CellsOf(blocks) \cap (m.ptr .. cur.ptr - 1) = {}
           /\ cur' = [cur EXCEPT !.ptr = m.ptr]
           /\ stale' = stale \cup (m.ptr .. cur.ptr - 1)
           /\ IF m.ptr < cur.ptr
              THEN /\ st' = "alloc"
                   /\ al' = [al EXCEPT !.phase = 2, !.header = FALSE,
                                       !.from = m.ptr, !.upto = cur.ptr]
              ELSE UNCHANGED <<st, al>>
    BY <1>1
  <2>2. QED
    BY <1>7, <1>8, <2>1
-----------------------------------------------------------------------------
(* Allocation *)

LEMMA Requested ==
    ASSUME TypeOK, NEW r \in Requests
    PROVE  LET e == Ends(cur.ptr, r.parts)
               n == Len(r.parts) IN
           /\ n \in Nat /\ n >= 1 /\ e[0] = cur.ptr /\ e[n] = EndOf(cur.ptr, r.parts)
           /\ \A k \in 0 .. n : e[k] \in Nat
           /\ \A i, j \in 0 .. n : i <= j => e[i] <= e[j]
           /\ \A k \in 1 .. n : e[k - 1] < e[k]
<1>1. cur.ptr \in Nat
  BY Registers
<1>2. r.parts \in Seq(Nat \ {0}) /\ Len(r.parts) \in Nat /\ Len(r.parts) >= 1
  BY RequestRange
<1>3. QED
  BY <1>1, <1>2, EndsIs, EndsRange DEF EndOf

\* The parts up to the k-th, when they end within the current run.
LEMMA PartsFit ==
    ASSUME TypeOK, NEW r \in Requests, NEW k \in 0 .. Len(r.parts),
           Ends(cur.ptr, r.parts)[k] <= cur.limit
    PROVE  LET e == Ends(cur.ptr, r.parts)
               B == PartsAt(cur.ptr, r.parts, k) IN
           /\ \A b \in B : /\ b \in [at : Addr, n : Addr] /\ b.n >= 1 /\ b.at + b.n <= HEAP
                           /\ Cells(b) \subseteq cur.ptr .. e[k] - 1
           /\ \A b, c \in B : b # c => Cells(b) \cap Cells(c) = {}
           /\ CellsOf(B) \subseteq cur.ptr .. e[k] - 1
           /\ cur.ptr .. e[k] - 1 \subseteq Current /\ cur.ptr <= e[k] /\ e[k] \in Nat
<1> DEFINE e == Ends(cur.ptr, r.parts)
           B == PartsAt(cur.ptr, r.parts, k)
           x == e[k]
           p == cur.ptr
<1>1. /\ p \in Nat /\ cur.limit \in Nat /\ cur.limit <= HEAP
      /\ \A g : g \in Current <=> g \in Int /\ cur.ptr <= g /\ g < cur.limit
  BY Registers
<1>2. r.parts \in Seq(Nat \ {0})
  BY RequestRange
<1>3. /\ \A b \in B : /\ b.at \in Nat /\ b.n \in Nat /\ b.n >= 1
                      /\ b = [at |-> b.at, n |-> b.n]
                      /\ p <= b.at /\ b.at + b.n <= x
      /\ \A b, c \in B : b # c => Cells(b) \cap Cells(c) = {}
  BY <1>1, <1>2, PartsApart
<1>4. x \in Nat /\ p <= x /\ x <= cur.limit
  <2>1. /\ e[0] = p /\ 0 \in 0 .. Len(r.parts) /\ Len(r.parts) \in Nat
        /\ \A i \in 0 .. Len(r.parts) : e[i] \in Nat
        /\ \A i, j \in 0 .. Len(r.parts) : i <= j => e[i] <= e[j]
    BY Requested
  <2> HIDE DEF e
  <2>2. e[0] <= e[k] /\ e[k] \in Nat
    BY <2>1
  <2>3. QED
    BY <2>1, <2>2 DEF e
<1> HIDE DEF e, B, x, p
<1>5. ASSUME NEW b \in B
      PROVE  /\ b \in [at : Addr, n : Addr] /\ b.n >= 1 /\ b.at + b.n <= HEAP
             /\ Cells(b) \subseteq p .. x - 1
  <2>1. /\ b.at \in Nat /\ b.n \in Nat /\ b.n >= 1 /\ b = [at |-> b.at, n |-> b.n]
        /\ p <= b.at /\ b.at + b.n <= x
    BY <1>3
  <2>2. b.at <= HEAP /\ b.n <= HEAP /\ b.at + b.n <= HEAP
    BY <1>1, <1>4, <2>1, Constants
  <2>3. b.at \in Addr /\ b.n \in Addr
    BY <2>1, <2>2, Constants DEF Addr
  <2>4. Cells(b) \subseteq p .. x - 1
    BY <1>1, <1>4, <2>1 DEF Cells
  <2>5. QED
    BY <2>1, <2>2, <2>3, <2>4
<1>6. CellsOf(B) \subseteq p .. x - 1
  BY <1>5 DEF CellsOf
<1>7. p .. x - 1 \subseteq Current
  BY <1>1, <1>4 DEF p
<1>8. QED
  BY <1>3, <1>4, <1>5, <1>6, <1>7 DEF e, B, x, p

LEMMA AllocateStep ==
    ASSUME Inv, NEW r \in Requests, Allocate(r) PROVE Inv'
<1> DEFINE e == EndOf(cur.ptr, r.parts)
           B == PartsAt(cur.ptr, r.parts, Len(r.parts))
           p == cur.ptr
<1>1. /\ st = "run" /\ st' = st /\ al' = al /\ list' = list /\ mark' = mark
      /\ blocks' = blocks \cup B /\ cur' = [cur EXCEPT !.ptr = e]
      /\ stale' = stale \ (p .. cur'.ptr - 1)
      /\ touched' = Larger(touched, cur'.ptr) /\ zero' = Larger(zero, cur'.ptr)
      /\ todo' = <<>> /\ rq' = Completed(rq) /\ spoiled' = spoiled
      /\ e <= cur.limit
  BY DEF Allocate, Dispatch, Fits
<1>2. /\ cur = [ptr |-> p, limit |-> cur.limit, base |-> cur.base]
      /\ p \in Nat /\ cur.limit \in Nat /\ cur.base \in Nat
      /\ p <= cur.limit /\ cur.limit <= HEAP
      /\ touched \in Nat /\ zero \in Nat /\ touched <= HEAP
      /\ \A g : g \in Current <=> g \in Int /\ p <= g /\ g < cur.limit
  BY Registers DEF Inv
<1>3. /\ al.phase = 0 /\ ~rq.abort /\ ~rq.collected /\ ~rq.oom /\ rq.need = 0
  BY <1>1 DEF Inv, Phases
<1>4. /\ \A b \in B : /\ b \in [at : Addr, n : Addr] /\ b.n >= 1 /\ b.at + b.n <= HEAP
                      /\ Cells(b) \subseteq p .. e - 1
      /\ \A b, c \in B : b # c => Cells(b) \cap Cells(c) = {}
      /\ CellsOf(B) \subseteq p .. e - 1 /\ p .. e - 1 \subseteq Current
      /\ p <= e /\ e \in Nat
  <2>1. /\ Len(r.parts) \in 0 .. Len(r.parts) /\ e = Ends(p, r.parts)[Len(r.parts)]
    BY RequestRange DEF EndOf
  <2>2. TypeOK
    BY DEF Inv
  <2>3. QED
    BY <1>1, <2>1, <2>2, PartsFit
<1>5. /\ rq' \in Demands /\ ~rq'.abort /\ rq'.need = 0 /\ ~rq'.collected /\ ~rq'.oom
  BY <1>1, <1>3, CompletedIs DEF Inv, TypeOK, Demands
<1> HIDE DEF e, B, p
<1>6. cur' = [ptr |-> e, limit |-> cur.limit, base |-> cur.base] /\ cur'.ptr = e
  BY <1>1, <1>2
<1>7. /\ touched' \in Nat /\ touched' <= HEAP
      /\ zero' \in 0 .. HEAP + 1 /\ touched' <= zero'
  <2>1. touched <= zero /\ zero \in 0 .. HEAP + 1
    BY DEF Inv, Bounds, TypeOK
  <2>2. QED
    BY <1>1, <1>2, <1>4, <1>6, <2>1, Constants DEF Larger
<1>8. TypeOK'
  <2>1. cur' \in [ptr : Addr, limit : Addr, base : Addr] /\ cur'.ptr <= cur'.limit
    <3>1. e \in Addr /\ cur.limit \in Addr /\ cur.base \in Addr
      BY <1>1, <1>2, <1>4, Constants DEF Inv, TypeOK, Addr
    <3>2. QED
      BY <1>1, <1>6, <3>1
  <2>2. stale' \subseteq 0 .. HEAP - 1
    BY <1>1 DEF Inv, TypeOK
  <2>3. touched' \in Addr
    BY <1>7, Constants DEF Addr
  <2>4. blocks' \subseteq [at : Addr, n : Addr]
    BY <1>1, <1>4 DEF Inv, TypeOK
  <2>5. QED
    BY <1>1, <1>5, <1>7, <2>1, <2>2, <2>3, <2>4 DEF Inv, TypeOK
<1>9. Phases'
  BY <1>1, <1>3, <1>5 DEF Inv, Phases
<1>10. Bounds'
  BY <1>1, <1>3, <1>4, <1>7 DEF Inv, Bounds, Within
<1>11. Booked'
  <2>1. Listed' = Listed /\ Carried' = {}
    BY <1>1, <1>3 DEF Listed, Carried
  <2>2. Current' = e .. cur.limit - 1
    BY <1>6 DEF Current
  <2>3. Current' \subseteq Current /\ Current' \cap (p .. e - 1) = {}
    BY <1>2, <1>4, <2>2
  <2>4. CellsOf(blocks') = CellsOf(blocks) \cup CellsOf(B)
    BY <1>1 DEF CellsOf
  <2>5. /\ Listed \cap (CellsOf(blocks) \cup Current) = {}
        /\ CellsOf(blocks) \cap Current = {}
        /\ \A b, c \in blocks : b # c => Cells(b) \cap Cells(c) = {}
    BY DEF Inv, Booked
  <2>6. /\ Listed' \cap (CellsOf(blocks') \cup Current' \cup Carried') = {}
        /\ CellsOf(blocks') \cap (Current' \cup Carried') = {}
        /\ Current' \cap Carried' = {}
    BY <1>4, <2>1, <2>3, <2>4, <2>5
  <2>7. ASSUME NEW b \in blocks', NEW c \in blocks', b # c PROVE Cells(b) \cap Cells(c) = {}
    <3>1. \A x \in blocks : Cells(x) \cap Current = {}
      BY <2>5 DEF CellsOf
    <3>2. \A x \in B : Cells(x) \subseteq Current
      BY <1>4
    <3>3. QED
      BY <1>1, <1>4, <2>5, <2>7, <3>1, <3>2
  <2>8. MarkApart'
    <3>1. cur'.limit = cur.limit /\ cur'.base = cur.base
      BY <1>6
    <3>2. Carried' \subseteq Carried
      BY <2>1
    <3>3. QED
      BY <1>1, <2>1, <3>1, <3>2 DEF Inv, Booked, MarkApart, Superseded
  <2>9. QED
    BY <1>1, <2>6, <2>7, <2>8 DEF Inv, Booked
<1>12. Clean'
  <2>1. ~spoiled => Current \cap stale = {}
    BY <1>1 DEF Inv, Clean
  <2>2. Current' \subseteq Current
    BY <1>2, <1>4, <1>6 DEF Current
  <2>3. QED
    BY <1>1, <1>3, <1>5, <2>1, <2>2 DEF Clean
<1>13. Measured'
  BY <1>1, EmptyList DEF Measured
<1>14. Looked'
  BY <1>1 DEF Looked
<1>15. QED
  BY <1>8, <1>9, <1>10, <1>11, <1>12, <1>13, <1>14 DEF Inv

LEMMA AbortStep ==
    ASSUME Inv, NEW r \in Requests, Abort(r) PROVE Inv'
<1> DEFINE e == Ends(cur.ptr, r.parts)
           n == Len(r.parts)
           k == Written(r)
           w == Wanted(r, k)
           B == PartsAt(cur.ptr, r.parts, k)
           p == cur.ptr
<1>1. /\ st = "run" /\ st' = "alloc" /\ al' = [al EXCEPT !.phase = 0] /\ list' = list
      /\ mark' = mark /\ blocks' = blocks /\ cur' = cur
      /\ stale' = stale \cup CellsOf(B)
      /\ touched' = Max({touched} \cup {g + 1 : g \in CellsOf(B)})
      /\ zero' = Max({zero} \cup {g + 1 : g \in CellsOf(B)})
      /\ rq' = [rq EXCEPT !.abort = TRUE, !.need = w, !.heap = p,
                          !.count = IF rq.heap # p THEN 0
                                    ELSE IF @ = 3 THEN 3 ELSE @ + 1]
      /\ todo' = <<r>> /\ spoiled' = spoiled
      /\ ~(EndOf(p, r.parts) <= cur.limit)
  BY DEF Abort, Dispatch, Fits
<1>2. /\ p \in Nat /\ cur.limit \in Nat /\ p <= cur.limit /\ cur.limit <= HEAP
      /\ touched \in Nat /\ zero \in Nat /\ touched <= HEAP /\ Current \subseteq 0 .. HEAP - 1
  BY Registers DEF Inv
<1>3. /\ al.phase = 0 /\ ~rq.abort /\ ~rq.collected /\ ~rq.oom /\ rq.need = 0
  BY <1>1 DEF Inv, Phases
<1>4. /\ n \in Nat /\ n >= 1 /\ e[0] = p /\ e[n] = EndOf(p, r.parts)
      /\ \A i \in 0 .. n : e[i] \in Nat
      /\ \A i, j \in 0 .. n : i <= j => e[i] <= e[j]
      /\ \A i \in 1 .. n : e[i - 1] < e[i]
  BY Requested DEF Inv
<1>5. r.split \in BOOLEAN
  BY RequestRange
<1>6. k \in 0 .. n /\ k < n /\ e[k] <= cur.limit
  <2>1. CASE r.split
    <3> DEFINE S == {i \in 0 .. n : e[i] <= cur.limit}
    <3>1. k = Max(S)
      BY <2>1 DEF Written
    <3>2. S \subseteq 0 .. n /\ 0 \in S
      BY <1>2, <1>4
    <3>3. Max(S) \in S
      <4> HIDE DEF S, n
      <4>1. QED
        BY <1>4, <3>2, MaxIs
    <3>4. k \in 0 .. n /\ e[k] <= cur.limit
      <4> HIDE DEF k
      <4>1. QED
        BY <3>1, <3>3
    <3>5. k # n
      <4> HIDE DEF k, e, n
      <4>1. QED
        BY <1>1, <1>4, <3>4
    <3> HIDE DEF k, e, n
    <3>6. QED
      BY <1>4, <3>4, <3>5
  <2>2. CASE ~r.split
    <3>1. k = 0
      BY <2>2 DEF Written
    <3> HIDE DEF k, e, n, p
    <3>2. QED
      BY <1>2, <1>4, <3>1
  <2>3. QED
    BY <2>1, <2>2
<1>7. w \in Nat /\ w # 0 /\ (~r.split => w = EndOf(p, r.parts) - p)
  <2> DEFINE j == IF r.split THEN k + 1 ELSE n
  <2>1. w = e[j] - p
    BY DEF Wanted
  <2>2. ~r.split => w = EndOf(p, r.parts) - p
    BY <1>4, <2>1
  <2>3. j \in 1 .. n /\ j - 1 \in 0 .. n /\ j \in 0 .. n /\ 0 \in 0 .. n /\ 0 <= j - 1
    <3> HIDE DEF k, n
    <3>1. QED
      BY <1>4, <1>6
  <2> HIDE DEF k, e, n, p, w, j
  <2>4. e[0] <= e[j - 1] /\ e[j - 1] < e[j] /\ e[j] \in Nat /\ e[j - 1] \in Nat
    BY <1>4, <2>3
  <2>5. QED
    BY <1>2, <1>4, <2>1, <2>2, <2>4
<1>8. CellsOf(B) \subseteq Current
  <2>1. TypeOK
    BY DEF Inv
  <2> HIDE DEF k
  <2>2. CellsOf(B) \subseteq p .. e[k] - 1 /\ p .. e[k] - 1 \subseteq Current
    BY <1>6, <2>1, PartsFit
  <2>3. QED
    BY <2>2
<1> HIDE DEF e, n, k, w, B, p
<1>9. al' \in Searches /\ al'.phase = 0
  BY <1>1 DEF Inv, TypeOK, Searches, AllocPhase
<1>10. /\ rq' \in Demands /\ rq'.abort /\ rq'.need = w /\ rq'.collected = rq.collected
       /\ rq'.oom = rq.oom
  <2> DEFINE c == IF rq.heap # p THEN 0 ELSE IF rq.count = 3 THEN 3 ELSE rq.count + 1
  <2>1. rq \in Demands
    BY DEF Inv, TypeOK
  <2>2. c \in GuardCount
    <3>1. rq.count \in GuardCount
      BY <2>1 DEF Demands
    <3>2. QED
      BY <3>1 DEF GuardCount
  <2>3. p \in GuardHeap
    BY DEF Inv, TypeOK, GuardHeap, p
  <2>4. rq' = [rq EXCEPT !.abort = TRUE, !.need = w, !.heap = p, !.count = c]
    BY <1>1, <2>1 DEF Demands
  <2> HIDE DEF c
  <2>5. QED
    BY <1>7, <2>1, <2>2, <2>3, <2>4 DEF Demands
<1>11. /\ touched' \in Addr /\ zero' \in 0 .. HEAP + 1 /\ touched' <= zero'
  <2> DEFINE G == {g + 1 : g \in CellsOf(B)}
             T == {touched} \cup G
             Z == {zero} \cup G
  <2>1. touched <= zero /\ zero \in 0 .. HEAP + 1 /\ touched \in 0 .. HEAP
    BY DEF Inv, Bounds, TypeOK, Addr
  <2>2. G \subseteq 0 .. HEAP
    <3> DEFINE C == CellsOf(B)
    <3>1. C \subseteq 0 .. HEAP - 1
      BY <1>2, <1>8
    <3>2. G = {g + 1 : g \in C}
      OBVIOUS
    <3> HIDE DEF C, G
    <3>3. \A g \in C : g + 1 \in 0 .. HEAP
      BY <3>1, Constants
    <3>4. QED
      BY <3>2, <3>3
  <2> HIDE DEF G
  <2>3. T \subseteq 0 .. HEAP /\ Z \subseteq 0 .. HEAP + 1 /\ HEAP \in Nat /\ HEAP + 1 \in Nat
        /\ T # {} /\ Z # {}
    BY <2>1, <2>2, Constants
  <2>4. touched' = Max(T) /\ zero' = Max(Z)
    BY <1>1 DEF G
  <2> HIDE DEF T, Z
  <2>5. Max(T) \in T /\ Max(Z) \in Z /\ \A z \in Z : z <= Max(Z)
    BY <2>3, MaxIs
  <2>6. Max(T) = touched \/ Max(T) \in Z
    BY <2>5 DEF T, Z
  <2>7. zero <= Max(Z) /\ Max(Z) \in Int
    BY <2>3, <2>5 DEF Z
  <2>8. Max(T) <= Max(Z)
    BY <2>1, <2>5, <2>6, <2>7
  <2>9. QED
    BY <2>3, <2>4, <2>5, <2>8 DEF Addr
<1>12. TypeOK'
  <2>1. stale' \subseteq 0 .. HEAP - 1
    BY <1>1, <1>2, <1>8 DEF Inv, TypeOK
  <2>2. QED
    BY <1>1, <1>9, <1>10, <1>11, <2>1 DEF Inv, TypeOK
<1>13. Phases'
  BY <1>1, <1>3, <1>7, <1>9, <1>10 DEF Inv, Phases
<1>14. Bounds'
  BY <1>1, <1>9, <1>11, BoundsStay DEF Inv
<1>15. Booked'
  <2>1. Carried' \subseteq Carried
    BY <1>9 DEF Carried
  <2>2. QED
    BY <1>1, <2>1, BookedStays DEF Inv
<1>16. Clean'
  BY <1>1, <1>3, <1>9, <1>10 DEF Clean
<1>17. Measured'
  <2>1. ToSet(todo') = {r}
    <3>1. DOMAIN <<r>> = {1} /\ <<r>>[1] = r
      OBVIOUS
    <3>2. QED
      BY <1>1, <3>1 DEF ToSet
  <2>2. cur' = cur /\ st' = "alloc" /\ al'.phase = 0 /\ rq'.need = w
    BY <1>1, <1>9, <1>10
  <2>3. QED
    BY <1>7, <2>1, <2>2 DEF Measured, p
<1>18. Looked'
  BY <1>3, <1>10 DEF Looked
<1>19. QED
  BY <1>12, <1>13, <1>14, <1>15, <1>16, <1>17, <1>18 DEF Inv
-----------------------------------------------------------------------------
(* The steps of S_GC_ALLOC that move runs *)

LEMMA TodoIsRequest ==
    ASSUME Phases, NEW q \in ToSet(todo) PROVE q \in Requests
<1>1. PICK i \in DOMAIN todo : q = todo[i]
  BY DEF ToSet
<1>2. todo # <<>>
  BY <1>1
<1>3. PICK r \in Requests : todo = <<r>>
  BY <1>2 DEF Phases
<1>4. QED
  BY <1>1, <1>3

\* What a step of the search leaves alone.
SearchStep ==
    /\ st = "alloc" /\ ~rq.oom /\ rq.abort
    /\ UNCHANGED <<st, rq, blocks, todo, mark>>

\* Run r becomes the current run.
LEMMA InstallStep ==
    ASSUME Inv, SearchStep, al.phase \in {0, 4},
           NEW r, Within(r), Install(r, zero', touched'),
           touched' \in Addr, zero' \in 0 .. HEAP + 1, touched' <= zero',
           GoodLists(list'), RunCells(r) \cap (Listed' \cup CellsOf(blocks)) = {},
           Listed' \subseteq Listed,
           \A q \in ToSet(todo) : ~q.split => Fit(r)
    PROVE  Inv'
<1> DEFINE end == r.base + r.size
           z == ZeroEnd(r, zero')
           w == zero'
<1>1. /\ r = [base |-> r.base, size |-> r.size]
      /\ r.base \in Nat /\ r.size \in Nat /\ r.size >= 1 /\ end <= HEAP
      /\ RunCells(r) \subseteq 0 .. HEAP - 1
      /\ \A g : g \in RunCells(r) <=> g \in Int /\ r.base <= g /\ g < end
      /\ r \in Runs
  BY RunRange DEF Within
<1>2. /\ st = "alloc" /\ st' = "alloc" /\ rq' = rq /\ blocks' = blocks /\ todo' = todo
      /\ mark' = mark /\ rq.abort /\ ~rq.oom
  BY DEF SearchStep
<1>3. /\ cur' = [ptr |-> r.base, limit |-> end, base |-> r.base]
      /\ al' = [al EXCEPT !.phase = 2, !.header = FALSE, !.cand = r, !.from = r.base, !.upto = z]
      /\ stale' = {g \in RunCells(r) : g < touched'}
      /\ spoiled' = FALSE
  BY DEF Install
<1>4. z \in Addr /\ \A g \in RunCells(r) : g < w => g < z
  <2>1. end \in Nat /\ w \in Nat /\ end <= HEAP
    BY <1>1
  <2>2. CASE end <= w
    BY <1>1, <2>1, <2>2, Constants DEF ZeroEnd, Addr
  <2>3. CASE ~(end <= w)
    <3>1. z = Larger(w, r.base + 1)
      BY <2>3 DEF ZeroEnd
    <3>2. w < HEAP /\ r.base + 1 <= HEAP
      BY <1>1, <2>1, <2>3, Constants
    <3>3. z \in Addr /\ w <= z
      BY <1>1, <2>1, <3>1, <3>2, Constants DEF Larger, Addr
    <3>4. z \in Int
      BY <3>3, Constants DEF Addr
    <3> HIDE DEF z, w, end
    <3>5. QED
      BY <1>1, <2>1, <3>3, <3>4
  <2>4. QED
    BY <2>2, <2>3
<1>5. al' \in Searches /\ al'.phase = 2 /\ ~al'.header /\ al'.from = r.base /\ al'.upto = z
  <2> DEFINE a == al
             t == al'
             b == r.base
  <2>1. t = [a EXCEPT !.phase = 2, !.header = FALSE, !.cand = r, !.from = b, !.upto = z]
    BY <1>3
  <2>2. a \in Searches /\ b \in Addr /\ z \in Addr /\ 2 \in AllocPhase /\ r \in Runs
    BY <1>1, <1>4, Constants DEF Inv, TypeOK, AllocPhase, Addr
  <2> HIDE DEF a, t, b, z
  <2>3. t \in Searches /\ t.phase = 2 /\ t.header = FALSE /\ t.from = b /\ t.upto = z
    BY <2>1, <2>2 DEF Searches
  <2>4. QED
    BY <2>3 DEF t, b
<1>6. TypeOK'
  <2>1. cur' \in [ptr : Addr, limit : Addr, base : Addr] /\ cur'.ptr <= cur'.limit
    <3>1. r.base \in Addr /\ end \in Addr /\ r.base <= end
      BY <1>1, Constants DEF Addr
    <3> HIDE DEF end
    <3>2. QED
      BY <1>3, <3>1
  <2>2. stale' \subseteq 0 .. HEAP - 1
    BY <1>1, <1>3
  <2>3. QED
    BY <1>2, <1>5, <2>1, <2>2 DEF Inv, TypeOK, GoodLists
<1>7. Phases'
  BY <1>2, <1>5 DEF Inv, Phases
<1>8. Bounds'
  BY <1>2, <1>5 DEF Inv, Bounds, GoodLists, Within
<1>9. Booked'
  <2>1. Current' = RunCells(r) /\ Carried' = {}
    <3>1. cur'.ptr = r.base /\ cur'.limit = r.base + r.size
      BY <1>3
    <3>2. Current' = RunCells(r)
      <4>1. Current' = r.base .. (r.base + r.size) - 1
        BY <3>1 DEF Current
      <4>2. (r.base + r.size) - 1 = r.base + (r.size - 1)
        BY <1>1
      <4>3. QED
        BY <4>1, <4>2 DEF RunCells
    <3>3. QED
      BY <1>5, <3>2 DEF Carried
  <2>2. Listed \cap CellsOf(blocks) = {}
    BY DEF Inv, Booked
  <2>3. /\ Listed' \cap (CellsOf(blocks') \cup Current' \cup Carried') = {}
        /\ CellsOf(blocks') \cap (Current' \cup Carried') = {}
        /\ Current' \cap Carried' = {}
    BY <1>2, <2>1, <2>2
  <2>4. MarkApart'
    <3> SUFFICES ASSUME mark # <<>>, ~Superseded(mark[1])'
        PROVE (mark[1].ptr .. cur'.limit - 1) \cap (Listed' \cup Carried') = {}
      BY <1>2 DEF MarkApart, Superseded
    <3> DEFINE p == mark[1].ptr
    <3>1. p \in Nat /\ r.base <= p /\ cur'.limit = end
      <4>1. p \in Addr
        BY <1>2 DEF Inv, TypeOK
      <4>2. p \in Nat
        BY <4>1, Constants DEF Addr
      <4>3. ~(p < r.base)
        <5>1. ~(mark'[1].ptr < cur'.base) /\ cur'.base = r.base
          BY <1>3 DEF Superseded
        <5>2. QED
          BY <1>2, <5>1
      <4> HIDE DEF p, end
      <4>4. QED
        BY <1>1, <1>3, <4>2, <4>3
    <3> HIDE DEF p, end
    <3>2. p .. end - 1 \subseteq RunCells(r)
      BY <1>1, <3>1 DEF end
    <3>3. QED
      BY <2>1, <3>1, <3>2 DEF p
  <2>5. QED
    BY <1>2, <2>3, <2>4 DEF Inv, Booked, GoodLists
<1>10. Clean'
  <2>1. Current' \cap stale' \subseteq al'.from .. al'.upto - 1
    <3> SUFFICES ASSUME NEW g \in RunCells(r), g < touched' PROVE g \in r.base .. z - 1
      BY <1>3, <1>5
    <3>1. g \in Int /\ r.base <= g /\ touched' \in Int /\ w \in Int /\ touched' <= w
      BY <1>1, Constants DEF Addr
    <3>2. g < w
      BY <3>1
    <3>3. g < z /\ z \in Int
      BY <1>4, <3>2, Constants DEF Addr
    <3> HIDE DEF z
    <3>4. QED
      BY <1>1, <3>1, <3>3
  <2>2. QED
    BY <1>2, <1>5, <2>1 DEF Clean
<1>11. Measured'
  <2> SUFFICES ASSUME NEW q \in ToSet(todo), ~q.split PROVE Fits(q)'
    BY <1>2, <1>5 DEF Measured
  <2> DEFINE p == cur.ptr
             x == EndOf(p, q.parts)
             y == EndOf(r.base, q.parts)
  <2>1. q \in Requests
    BY TodoIsRequest DEF Inv
  <2>2. q.parts \in Seq(Nat \ {0}) /\ Len(q.parts) \in Nat
    BY <2>1, RequestRange
  <2>3. p \in Nat /\ rq.need \in Nat
    BY Registers DEF Inv
  <2>4. rq.need = x - p
    BY <1>2 DEF Inv, Measured
  <2>5. r.size >= rq.need + LINE
    BY DEF Fit
  <2>6. y - r.base <= x - p + (LINE - 1)
    BY <1>1, <2>2, <2>3, SlackIsEnough
  <2>7. x \in Int /\ y \in Int
    BY <1>1, <2>2, <2>3, EndsRange DEF EndOf
  <2>8. y <= r.base + r.size
    <3> HIDE DEF p, x, y
    <3>1. y - r.base <= rq.need + (LINE - 1)
      BY <2>4, <2>6
    <3>2. QED
      BY <1>1, <2>3, <2>5, <2>7, <3>1, Constants
  <2>9. cur'.ptr = r.base /\ cur'.limit = r.base + r.size
    BY <1>3
  <2>10. QED
    BY <2>8, <2>9 DEF Fits
<1>12. Looked'
  BY <1>5 DEF Looked
<1>13. QED
  BY <1>6, <1>7, <1>8, <1>9, <1>10, <1>11, <1>12 DEF Inv

\* Run r is taken from the lists, and a header is written first: its own, when
\* it is too small, or that of the rest of the current run.
LEMMA HeaderStep ==
    ASSUME Inv, SearchStep, al.phase = 0, NEW r, Takes(r),
           NEW a \in Addr, NEW put, NEW install \in BOOLEAN,
           put = IF install THEN CurrentRun ELSE r,
           install <=> Fit(r),
           WriteHeader(a, put, install, r), UNCHANGED <<touched, zero>>
    PROVE  Inv'
<1>1. /\ Within(r) /\ GoodLists(list') /\ Listed' \subseteq Listed
      /\ RunCells(r) \subseteq Listed /\ RunCells(r) \cap Listed' = {}
      /\ \A x \in Unseen : x = r \/ x \in Unseen'
  BY Taken DEF Inv
<1>2. /\ st = "alloc" /\ st' = "alloc" /\ rq' = rq /\ blocks' = blocks /\ todo' = todo
      /\ mark' = mark /\ rq.abort /\ ~rq.oom
  BY DEF SearchStep
<1>3. cur' = cur /\ stale' = stale /\ spoiled' = spoiled /\ touched' = touched /\ zero' = zero
  BY DEF WriteHeader
<1>4. CurrentRun \in Runs
  <2> DEFINE n == cur.limit - cur.ptr
  <2>1. cur.ptr \in Nat /\ cur.limit \in Nat /\ cur.ptr <= cur.limit /\ cur.limit <= HEAP
    BY Registers DEF Inv
  <2>2. n \in Addr /\ cur.ptr \in Addr
    BY <2>1, Constants DEF Addr
  <2> HIDE DEF n
  <2>3. CurrentRun = [base |-> cur.ptr, size |-> n]
    BY DEF CurrentRun, n
  <2>4. QED
    BY <2>2, <2>3 DEF Runs
<1>5. /\ al' \in Searches /\ al'.phase = 4 /\ al'.put = put /\ al'.install = install
      /\ al'.cand = r
  <2> DEFINE b == al
             t == al'
  <2>1. t = [b EXCEPT !.phase = 4, !.header = TRUE, !.addr = a, !.put = put,
                      !.install = install, !.cand = r]
    BY DEF WriteHeader
  <2>2. b \in Searches /\ r \in Runs /\ put \in Runs /\ 4 \in AllocPhase
    BY <1>1, <1>4 DEF Inv, TypeOK, AllocPhase, Within
  <2> HIDE DEF b, t
  <2>3. /\ t \in Searches /\ t.phase = 4 /\ t.put = put /\ t.install = install
        /\ t.cand = r
    BY <2>1, <2>2 DEF Searches
  <2>4. QED
    BY <2>3 DEF t
<1>6. TypeOK'
  BY <1>1, <1>2, <1>3, <1>5 DEF Inv, TypeOK, GoodLists
<1>7. Phases'
  BY <1>2, <1>3, <1>5 DEF Inv, Phases
<1>8. Bounds'
  <2>1. CurrentRun' = CurrentRun
    BY <1>3 DEF CurrentRun
  <2>2. QED
    BY <1>1, <1>2, <1>3, <1>5, <2>1 DEF Inv, Bounds, GoodLists, Within
<1>9. Booked'
  <2>1. Current' = Current /\ Carried' = RunCells(r) /\ Carried = {}
    BY <1>2, <1>3, <1>5 DEF Current, Carried
  <2>2. /\ Listed \cap (CellsOf(blocks) \cup Current) = {}
        /\ CellsOf(blocks) \cap Current = {}
    BY DEF Inv, Booked
  <2>3. /\ Listed' \cap (CellsOf(blocks') \cup Current' \cup Carried') = {}
        /\ CellsOf(blocks') \cap (Current' \cup Carried') = {}
        /\ Current' \cap Carried' = {}
    BY <1>1, <1>2, <2>1, <2>2
  <2>4. MarkApart'
    <3> SUFFICES ASSUME mark # <<>>, ~Superseded(mark[1])
        PROVE (mark[1].ptr .. cur.limit - 1) \cap (Listed' \cup Carried') = {}
      BY <1>2, <1>3 DEF MarkApart, Superseded
    <3>1. (mark[1].ptr .. cur.limit - 1) \cap Listed = {}
      BY DEF Inv, Booked, MarkApart
    <3>2. QED
      BY <1>1, <2>1, <3>1
  <2>5. QED
    BY <1>1, <1>2, <2>3, <2>4 DEF Inv, Booked, GoodLists
<1>10. Clean'
  BY <1>2, <1>3, <1>5 DEF Inv, Clean, Current
<1>11. Measured'
  BY <1>2, <1>3, <1>5 DEF Inv, Measured, Fit
<1>12. Looked'
  <2> SUFFICES ASSUME rq.collected, ~install,
                      NEW x \in MaximalRuns((0 .. HEAP - 1) \ CellsOf(blocks)), Fit(x)
      PROVE x \in Unseen'
    BY <1>2, <1>5 DEF Looked, Fit
  <2>1. x \in Unseen
    BY <1>2 DEF Inv, Looked
  <2>2. QED
    BY <1>1, <2>1
<1>13. QED
  BY <1>6, <1>7, <1>8, <1>9, <1>10, <1>11, <1>12 DEF Inv

LEMMA TakeStep ==
    ASSUME Inv, SearchStep, al.phase = 0, NEW r, Takes(r), NEW slot \in Addr, Take(r, slot),
           UNCHANGED <<touched, zero>>
    PROVE  Inv'
<1>1. CASE ~Fit(r) /\ WriteHeader(slot, r, FALSE, r)
  BY <1>1, HeaderStep
<1>2. CASE Fit(r) /\ WriteHeader(cur.ptr, CurrentRun, TRUE, r)
  <2>1. cur.ptr \in Addr
    BY DEF Inv, TypeOK
  <2>2. QED
    BY <1>2, <2>1, HeaderStep
<1>3. CASE Fit(r) /\ Install(r, zero, touched)
  <2>1. /\ Within(r) /\ GoodLists(list') /\ Listed' \subseteq Listed
        /\ RunCells(r) \subseteq Listed /\ RunCells(r) \cap Listed' = {}
    BY Taken DEF Inv
  <2>2. RunCells(r) \cap (Listed' \cup CellsOf(blocks)) = {}
    BY <2>1 DEF Inv, Booked
  <2>3. touched' \in Addr /\ zero' \in 0 .. HEAP + 1 /\ touched' <= zero'
    BY DEF Inv, TypeOK, Bounds
  <2>4. QED
    BY <1>3, <2>1, <2>2, <2>3, InstallStep
<1>4. QED
  BY <1>1, <1>2, <1>3 DEF Take, CurrentRun

LEMMA TakeOnChipStep ==
    ASSUME Inv, TakeOnChip PROVE Inv'
<1> DEFINE r == Head(list.ahead)
<1>1. /\ list.ahead # <<>> /\ Take(r, r.base) /\ list' = [list EXCEPT !.ahead = Tail(@)]
      /\ UNCHANGED <<st, rq, touched, zero, blocks, todo, mark>>
      /\ st = "alloc" /\ ~rq.oom /\ al.phase = 0 /\ rq.need # 0
  BY DEF TakeOnChip, Searching
<1>2. Takes(r)
  BY <1>1 DEF Takes
<1>3. SearchStep
  BY <1>1 DEF SearchStep, Inv, Phases
<1>4. Within(r)
  BY <1>2, Taken DEF Inv
<1>5. r.base \in Addr
  BY <1>4 DEF Within, Runs
<1> HIDE DEF r
<1>6. QED
  BY <1>1, <1>2, <1>3, <1>5, TakeStep

LEMMA TakeInMemoryStep ==
    ASSUME Inv, TakeInMemory PROVE Inv'
<1> DEFINE e == Head(list.memory)
           r == e.run
<1>1. /\ list.memory # <<>> /\ Take(r, e.slot) /\ list' = [list EXCEPT !.memory = Tail(@)]
      /\ UNCHANGED <<st, rq, touched, zero, blocks, todo, mark>>
      /\ st = "alloc" /\ ~rq.oom /\ al.phase = 0 /\ rq.need # 0
  BY DEF TakeInMemory, Searching
<1>2. Takes(r)
  BY <1>1 DEF Takes
<1>3. SearchStep
  BY <1>1 DEF SearchStep, Inv, Phases
<1>4. e.slot \in Addr
  <2>1. list.memory \in Seq(Headers)
    BY ListsTyped DEF Inv
  <2>2. e = list.memory[1] /\ 1 \in DOMAIN list.memory
    BY <1>1, <2>1, TakeFirst
  <2>3. e \in Headers
    BY <2>1, <2>2, SeqIs
  <2> HIDE DEF e
  <2>4. QED
    BY <2>3 DEF Headers
<1> DEFINE slot == e.slot
<1> HIDE DEF r, slot
<1>5. Take(r, slot) /\ slot \in Addr
  BY <1>1, <1>4 DEF slot
<1>6. QED
  BY <1>1, <1>2, <1>3, <1>5, TakeStep

LEMMA HeaderWrittenStep ==
    ASSUME Inv, HeaderWritten PROVE Inv'
<1>1. /\ st = "alloc" /\ ~rq.oom /\ al.phase = 4
      /\ touched' = IF al.addr = TABLE THEN touched ELSE Larger(touched, al.addr + 1)
      /\ zero' = Larger(zero, al.addr + 1)
      /\ UNCHANGED <<st, list, rq, blocks, todo, mark>>
  BY DEF HeaderWritten
<1>2. rq.abort
  BY <1>1 DEF Inv, Phases
<1>3. SearchStep
  BY <1>1, <1>2 DEF SearchStep
<1>4. touched' \in Addr /\ zero' \in 0 .. HEAP + 1 /\ touched' <= zero'
  <2>1. al.addr \in 0 .. HEAP
    BY DEF Inv, TypeOK, Searches, Addr
  <2>2. touched \in 0 .. HEAP /\ zero \in 0 .. HEAP + 1 /\ touched <= zero
    BY DEF Inv, TypeOK, Bounds, Addr
  <2> DEFINE x == al.addr
  <2> HIDE DEF x
  <2>3. QED
    BY <1>1, <2>1, <2>2, Constants DEF Larger, TABLE, Addr, x
<1>5. CASE al.install
  <2> DEFINE r == al.cand
  <2>1. Install(r, zero', touched')
    BY <1>5 DEF HeaderWritten
  <2>2. Within(r)
    BY <1>1 DEF Inv, Bounds
  <2>3. GoodLists(list') /\ Listed' = Listed
    BY <1>1, ListsGood DEF Inv, Listed
  <2>4. RunCells(r) \cap (Listed' \cup CellsOf(blocks)) = {}
    BY <1>1, <2>3 DEF Inv, Booked, Carried
  <2>5. \A q \in ToSet(todo) : ~q.split => Fit(r)
    BY <1>1, <1>5 DEF Inv, Measured
  <2>6. al.phase \in {0, 4} /\ Listed' \subseteq Listed
    BY <1>1, <2>3
  <2> HIDE DEF r
  <2>7. QED
    BY <1>3, <1>4, <2>1, <2>2, <2>3, <2>4, <2>5, <2>6, InstallStep
<1>6. CASE ~al.install
  <2>1. al' = [al EXCEPT !.phase = 0] /\ UNCHANGED <<cur, stale, spoiled>>
    BY <1>6 DEF HeaderWritten
  <2>2. al' \in Searches /\ al'.phase = 0
    BY <2>1 DEF Inv, TypeOK, Searches, AllocPhase
  <2>3. TypeOK'
    BY <1>1, <1>4, <2>1, <2>2 DEF Inv, TypeOK
  <2>4. Phases'
    BY <1>1, <1>2, <2>1, <2>2 DEF Inv, Phases
  <2>5. Bounds'
    BY <1>1, <1>4, <2>2, BoundsStay DEF Inv
  <2>6. Booked'
    <3>1. Carried' \subseteq Carried
      BY <2>2 DEF Carried
    <3>2. QED
      BY <1>1, <2>1, <3>1, BookedStays DEF Inv
  <2>7. Clean'
    BY <1>1, <1>2, <2>1, <2>2 DEF Inv, Clean, Current
  <2>8. Measured'
    BY <1>1, <2>1, <2>2 DEF Inv, Measured
  <2>9. Looked'
    <3>1. CASE rq.collected
      BY <1>1, <1>2, <1>6, <3>1, SameFreeRuns DEF Inv
    <3>2. CASE ~rq.collected
      BY <1>1, <3>2 DEF Looked
    <3>3. QED
      BY <3>1, <3>2
  <2>10. QED
    BY <2>3, <2>4, <2>5, <2>6, <2>7, <2>8, <2>9 DEF Inv
<1>7. QED
  BY <1>5, <1>6
-----------------------------------------------------------------------------
(* The sweep *)

LEMMA SubSeqIs ==
    ASSUME NEW X, NEW s \in Seq(X), NEW m \in Nat, NEW n \in Nat, 1 <= m, m <= n + 1, n <= Len(s)
    PROVE  /\ SubSeq(s, m, n) \in Seq(X) /\ Len(SubSeq(s, m, n)) = n - m + 1
           /\ \A i \in 1 .. n - m + 1 : SubSeq(s, m, n)[i] = s[i + m - 1]
OBVIOUS

\* t is the part of s after the first d runs.
Slice(t, s, d) == \A i \in DOMAIN t : i + d \in DOMAIN s /\ t[i] = s[i + d]

LEMMA SlicesApart ==
    ASSUME NEW s \in Seq(Runs), Apart(s),
           NEW t \in Seq(Runs), NEW u \in Seq(Runs), NEW d \in Nat, NEW e \in Nat,
           Slice(t, s, d), Slice(u, s, e)
    PROVE  /\ Apart(t) /\ SeqCells(t) \subseteq SeqCells(s)
           /\ d + Len(t) <= e => SeqCells(t) \cap SeqCells(u) = {}
<1>1. \A i \in DOMAIN t : i + d \in DOMAIN s /\ t[i] = s[i + d] /\ i \in 1 .. Len(t) /\ i \in Int
  BY SeqIs DEF Slice
<1>2. \A i \in DOMAIN u : i + e \in DOMAIN s /\ u[i] = s[i + e] /\ i \in Nat /\ i >= 1
  BY SeqIs DEF Slice
<1>3. \A i, j \in DOMAIN s : i # j => RunCells(s[i]) \cap RunCells(s[j]) = {}
  BY DEF Apart
<1>4. Apart(t)
  <2>1. ASSUME NEW i \in DOMAIN t, NEW j \in DOMAIN t, i # j
        PROVE RunCells(t[i]) \cap RunCells(t[j]) = {}
    <3>1. i + d # j + d
      BY <1>1, <2>1
    <3>2. QED
      BY <1>1, <1>3, <3>1
  <2>2. QED
    BY <2>1 DEF Apart
<1>5. SeqCells(t) \subseteq SeqCells(s)
  BY <1>1 DEF SeqCells
<1>6. ASSUME d + Len(t) <= e PROVE SeqCells(t) \cap SeqCells(u) = {}
  <2> SUFFICES ASSUME NEW g \in SeqCells(t), g \in SeqCells(u) PROVE FALSE
    OBVIOUS
  <2>1. PICK i \in DOMAIN t : g \in RunCells(t[i])
    BY DEF SeqCells
  <2>2. PICK j \in DOMAIN u : g \in RunCells(u[j])
    BY DEF SeqCells
  <2>3. i + d # j + e
    <3>1. i \in 1 .. Len(t) /\ j \in Nat /\ j >= 1 /\ Len(t) \in Nat
      BY <1>1, <1>2, SeqIs
    <3>2. QED
      BY <1>6, <3>1
  <2>4. QED
    BY <1>1, <1>2, <1>3, <2>1, <2>2, <2>3
<1>7. QED
  BY <1>4, <1>5, <1>6

\* A list split as the engine's table, the rover and the table in memory do.
LEMMA SplitIsGood ==
    ASSUME NEW all \in Seq(Runs), Apart(all), \A i \in DOMAIN all : Within(all[i]),
           NEW l, l = [ahead |-> SubSeq(OnChip(all), Rover(all) + 1, Len(OnChip(all))),
                       below |-> SubSeq(all, 1, Rover(all)), memory |-> InMemory(all)]
    PROVE  /\ GoodLists(l)
           /\ SeqCells(l.ahead) \subseteq SeqCells(all)
           /\ SeqCells(l.below) \subseteq SeqCells(all)
           /\ SeqCells(RunsOf(l.memory)) \subseteq SeqCells(all)
           /\ \A i \in DOMAIN all : \/ all[i] \in ToSet(l.ahead) \/ all[i] \in ToSet(l.below)
                                    \/ all[i] \in {e.run : e \in ToSet(l.memory)}
           /\ \A e \in ToSet(l.memory) : /\ e.run.base \in 0 .. HEAP - 1
                                         /\ e.slot = TABLE \/ e.slot = e.run.base
<1> DEFINE n == Len(all)
           k == Min({RUN_ONCHIP, n})
           on == OnChip(all)
           m == InMemory(all)
           v == Rover(all)
           a == SubSeq(on, v + 1, Len(on))
           b == SubSeq(all, 1, v)
<1>1. n \in Nat /\ DOMAIN all = 1 .. n /\ \A i \in 1 .. n : all[i] \in Runs
  BY SeqIs
<1>2. k \in Nat /\ k <= RUN_ONCHIP /\ k <= n
  <2> DEFINE S == {RUN_ONCHIP, n}
  <2>1. S \subseteq Nat /\ S # {}
    BY <1>1, Constants
  <2>2. Min(S) \in S /\ \A x \in S : Min(S) <= x
    <3> HIDE DEF S
    <3>1. QED
      BY <2>1, MinIs
  <2>3. QED
    BY <2>1, <2>2
<1>3. on \in Seq(Runs) /\ Len(on) = k /\ \A i \in 1 .. k : on[i] = all[i]
  <2>1. on = SubSeq(all, 1, k)
    BY DEF OnChip
  <2> HIDE DEF on, k
  <2>2. 1 <= k + 1 /\ k - 1 + 1 = k /\ \A i \in 1 .. k : i + 1 - 1 = i
    BY <1>2
  <2>3. /\ SubSeq(all, 1, k) \in Seq(Runs) /\ Len(SubSeq(all, 1, k)) = k - 1 + 1
        /\ \A i \in 1 .. k - 1 + 1 : SubSeq(all, 1, k)[i] = all[i + 1 - 1]
    BY <1>1, <1>2, <2>2, SubSeqIs
  <2>4. QED
    BY <2>1, <2>2, <2>3
<1>4. /\ m \in Seq(Headers) /\ Len(m) = n - k /\ DOMAIN m = 1 .. n - k
      /\ \A i \in 1 .. n - k : /\ m[i].run = all[i + k]
                               /\ m[i].slot = TABLE \/ m[i].slot = m[i].run.base
  <2> DEFINE h(i) == [run |-> all[i + k], slot |-> IF i <= RUN_TABLE THEN TABLE ELSE all[i + k].base]
  <2>1. m = [i \in 1 .. n - k |-> h(i)]
    <3> HIDE DEF on, k, n
    <3>1. QED
      BY <1>3 DEF InMemory, on, n
  <2>2. n - k \in Nat /\ \A i \in 1 .. n - k : i + k \in 1 .. n
    <3> HIDE DEF n, k
    <3>1. QED
      BY <1>1, <1>2
  <2>3. \A i \in 1 .. n - k : h(i) \in Headers
    <3> SUFFICES ASSUME NEW i \in 1 .. n - k PROVE h(i) \in Headers
      OBVIOUS
    <3>1. all[i + k] \in Runs
      BY <1>1, <2>2
    <3>2. all[i + k].base \in Addr /\ TABLE \in Addr
      BY <3>1, Constants DEF Runs, Addr, TABLE
    <3> HIDE DEF k, n
    <3>3. QED
      BY <3>1, <3>2 DEF Headers
  <2>4. \A i \in 1 .. n - k : m[i] = h(i)
    BY <2>1
  <2>5. DOMAIN m = 1 .. n - k
    BY <2>1
  <2>6. \A i \in 1 .. n - k : /\ h(i).run = all[i + k]
                              /\ h(i).slot = TABLE \/ h(i).slot = all[i + k].base
    BY DEF TABLE
  <2>7. m \in Seq(Headers) /\ Len(m) = n - k
    <3> HIDE DEF h, n, k
    <3>1. QED
      BY <2>1, <2>2, <2>3
  <2> HIDE DEF h, m, n, k
  <2>8. QED
    BY <2>4, <2>5, <2>6, <2>7
<1>5. v \in Nat /\ v <= k
  <2>1. CASE rq.explicit \/ m # <<>>
    BY <1>2, <2>1 DEF Rover
  <2>2. CASE ~(rq.explicit \/ m # <<>>)
    <3> DEFINE S == {i \in 1 .. n : all[i].base < cur.ptr}
    <3>1. v = Cardinality(S)
      BY <1>1, <2>2 DEF Rover
    <3>2. k = n
      <4>1. n - k = 0
        BY <1>4, <2>2, EmptyList
      <4> HIDE DEF n, k
      <4>2. QED
        BY <1>1, <1>2, <4>1
    <3>3. IsFiniteSet(1 .. n) /\ Cardinality(1 .. n) = n
      <4> HIDE DEF n
      <4>1. IsFiniteSet(1 .. n) /\ Cardinality(1 .. n) = IF 1 > n THEN 0 ELSE n - 1 + 1
        BY <1>1, FS_Interval
      <4>2. QED
        BY <1>1, <4>1
    <3>4. S \in SUBSET (1 .. n)
      OBVIOUS
    <3> HIDE DEF S
    <3>5. IsFiniteSet(S) /\ Cardinality(S) <= n
      BY <3>3, <3>4, FS_Subset
    <3>6. QED
      BY <3>1, <3>2, <3>5, FS_CardinalityType
  <2>3. QED
    BY <2>1, <2>2
<1> HIDE DEF n, k, on, m, v
<1>6. /\ a \in Seq(Runs) /\ Len(a) = k - v
      /\ \A i \in 1 .. k - v : a[i] = all[i + v]
  <2>1. v + 1 \in Nat /\ k \in Nat /\ 1 <= v + 1 /\ v + 1 <= k + 1 /\ k <= Len(on)
    BY <1>2, <1>3, <1>5
  <2>2. /\ SubSeq(on, v + 1, k) \in Seq(Runs) /\ Len(SubSeq(on, v + 1, k)) = k - (v + 1) + 1
        /\ \A i \in 1 .. k - (v + 1) + 1 : SubSeq(on, v + 1, k)[i] = on[i + (v + 1) - 1]
    <3> DEFINE w == v + 1
    <3>1. w \in Nat /\ 1 <= w /\ w <= k + 1
      BY <2>1
    <3> HIDE DEF w
    <3>2. /\ SubSeq(on, w, k) \in Seq(Runs) /\ Len(SubSeq(on, w, k)) = k - w + 1
          /\ \A i \in 1 .. k - w + 1 : SubSeq(on, w, k)[i] = on[i + w - 1]
      BY <1>3, <2>1, <3>1, SubSeqIs
    <3>3. QED
      BY <3>2 DEF w
  <2>3. k - (v + 1) + 1 = k - v /\ \A i \in 1 .. k - v : i + (v + 1) - 1 = i + v /\ i + v \in 1 .. k
    BY <1>2, <1>5
  <2>4. a = SubSeq(on, v + 1, k)
    BY <1>3
  <2> HIDE DEF a
  <2>5. QED
    BY <1>3, <2>2, <2>3, <2>4
<1>7. b \in Seq(Runs) /\ Len(b) = v /\ \A i \in 1 .. v : b[i] = all[i]
  <2>1. 1 <= v + 1 /\ v - 1 + 1 = v /\ v <= Len(all) /\ \A i \in 1 .. v : i + 1 - 1 = i
    BY <1>1, <1>2, <1>5 DEF n
  <2>2. /\ SubSeq(all, 1, v) \in Seq(Runs) /\ Len(SubSeq(all, 1, v)) = v - 1 + 1
        /\ \A i \in 1 .. v - 1 + 1 : SubSeq(all, 1, v)[i] = all[i + 1 - 1]
    BY <1>5, <2>1, SubSeqIs
  <2>3. QED
    BY <2>1, <2>2
<1> HIDE DEF a, b
<1>8. /\ l = [ahead |-> a, below |-> b, memory |-> m]
      /\ l.ahead = a /\ l.below = b /\ l.memory = m
  BY DEF a, b, m, on, v
<1> DEFINE s == RunsOf(m)
<1>9. s \in Seq(Runs) /\ Len(s) = n - k /\ \A i \in 1 .. n - k : s[i] = all[i + k]
  BY <1>4, MemoryRuns
<1> HIDE DEF s
<1>10. /\ DOMAIN a = 1 .. k - v /\ DOMAIN b = 1 .. v /\ DOMAIN s = 1 .. n - k
  BY <1>6, <1>7, <1>9, SeqIs
<1>11. Slice(b, all, 0) /\ Slice(a, all, v) /\ Slice(s, all, k)
  <2>1. \A i \in 1 .. v : i + 0 = i /\ i \in 1 .. n
    BY <1>1, <1>2, <1>5
  <2>2. \A i \in 1 .. k - v : i + v \in 1 .. n
    BY <1>1, <1>2, <1>5
  <2>3. \A i \in 1 .. n - k : i + k \in 1 .. n
    BY <1>1, <1>2, <1>5
  <2>4. QED
    BY <1>1, <1>6, <1>7, <1>9, <1>10, <2>1, <2>2, <2>3 DEF Slice
<1>12. /\ Apart(a) /\ Apart(b) /\ Apart(s)
       /\ SeqCells(a) \subseteq SeqCells(all) /\ SeqCells(b) \subseteq SeqCells(all)
       /\ SeqCells(s) \subseteq SeqCells(all)
  BY <1>2, <1>5, <1>6, <1>7, <1>9, <1>11, SlicesApart
<1>13. /\ SeqCells(b) \cap SeqCells(a) = {} /\ SeqCells(a) \cap SeqCells(s) = {}
       /\ SeqCells(b) \cap SeqCells(s) = {}
  <2>1. 0 + Len(b) <= v /\ v + Len(a) <= k /\ 0 + Len(b) <= k
    BY <1>2, <1>5, <1>6, <1>7
  <2>2. SeqCells(b) \cap SeqCells(a) = {}
    BY <1>5, <1>6, <1>7, <1>11, <2>1, SlicesApart
  <2>3. SeqCells(a) \cap SeqCells(s) = {}
    BY <1>2, <1>5, <1>6, <1>9, <1>11, <2>1, SlicesApart
  <2>4. SeqCells(b) \cap SeqCells(s) = {}
    BY <1>2, <1>7, <1>9, <1>11, <2>1, SlicesApart
  <2>5. QED
    BY <2>2, <2>3, <2>4
<1>14. GoodLists(l)
  <2>1. l \in Listings
    <3>1. [ahead |-> a, below |-> b, memory |-> m] \in Listings
      BY <1>4, <1>6, <1>7 DEF Listings
    <3>2. QED
      BY <1>8, <3>1
  <2>2. Len(a) + Len(b) <= RUN_ONCHIP
    BY <1>2, <1>5, <1>6, <1>7, Constants
  <2>3. /\ \A i \in DOMAIN a : Within(a[i])
        /\ \A i \in DOMAIN b : Within(b[i])
        /\ \A i \in DOMAIN m : Within(m[i].run)
    <3>1. \A i \in DOMAIN s : Within(s[i])
      BY <1>11 DEF Slice
    <3>2. \A i \in DOMAIN m : i \in DOMAIN s /\ s[i] = m[i].run
      BY <1>4, <1>9, <1>10
    <3>3. QED
      BY <1>11, <3>1, <3>2 DEF Slice
  <2>4. QED
    BY ONLY <1>8, <1>12, <1>13, <2>1, <2>2, <2>3 DEF GoodLists, s
<1>15. ASSUME NEW i \in DOMAIN all
       PROVE  \/ all[i] \in ToSet(a) \/ all[i] \in ToSet(b) \/ all[i] \in {e.run : e \in ToSet(m)}
  <2>1. i \in 1 .. v \/ i - v \in 1 .. k - v \/ i - k \in 1 .. n - k
    BY <1>1, <1>2, <1>5
  <2>2. CASE i \in 1 .. v
    BY <1>7, <1>10, <2>2 DEF ToSet
  <2>3. CASE i - v \in 1 .. k - v
    <3> DEFINE j == i - v
    <3>1. j \in 1 .. k - v /\ j + v = i
      BY <1>1, <1>5, <2>3
    <3> HIDE DEF j
    <3>2. a[j] = all[i] /\ j \in DOMAIN a
      BY <1>6, <1>10, <3>1
    <3>3. QED
      BY <3>2 DEF ToSet
  <2>4. CASE i - k \in 1 .. n - k
    <3> DEFINE j == i - k
    <3>1. j \in 1 .. n - k /\ j + k = i
      BY <1>1, <1>2, <2>4
    <3> HIDE DEF j
    <3>2. m[j].run = all[i] /\ j \in DOMAIN m
      BY <1>4, <3>1
    <3>3. m[j] \in ToSet(m)
      BY <3>2 DEF ToSet
    <3>4. QED
      BY <3>2, <3>3
  <2>5. QED
    BY <2>1, <2>2, <2>3, <2>4
<1>16. ASSUME NEW e \in ToSet(m)
       PROVE  e.run.base \in 0 .. HEAP - 1 /\ (e.slot = TABLE \/ e.slot = e.run.base)
  <2>1. PICK i \in DOMAIN m : e = m[i]
    BY DEF ToSet
  <2>2. i \in 1 .. n - k /\ i + k \in DOMAIN all
    BY <1>1, <1>2, <1>4
  <2>3. e.run = all[i + k] /\ (e.slot = TABLE \/ e.slot = e.run.base)
    BY <1>4, <2>1, <2>2
  <2>4. Within(e.run)
    BY <2>2, <2>3
  <2>5. /\ e.run.base \in Nat /\ e.run.size \in Nat /\ e.run.size >= 1
        /\ e.run.base + e.run.size <= HEAP
    BY <2>4, RunRange
  <2>6. QED
    BY <2>3, <2>5, Constants
<1>17. QED
  BY ONLY <1>8, <1>12, <1>14, <1>15, <1>16 DEF s

\* The granules the sweep finds free.
Unbooked == (0 .. HEAP - 1) \ (CellsOf(blocks) \cup Kept)

LEMMA ListedIs ==
    LET all == ListedRuns IN
    /\ all \in Seq(Runs) /\ Apart(all) /\ \A i \in DOMAIN all : Within(all[i])
    /\ SeqCells(all) \subseteq Unbooked
    /\ \A r \in FreeRuns : r.size >= LINE => \E i \in DOMAIN all : all[i] = r
<1> DEFINE F == Unbooked
           R == {r \in FreeRuns : r.size >= LINE}
           all == ByBase(R)
<1>1. ListedRuns = all
  BY DEF ListedRuns, ByBase
<1>2. F \subseteq 0 .. HEAP - 1 /\ FreeRuns = MaximalRuns(F)
  BY DEF Unbooked, FreeRuns
<1> HIDE DEF F
<1>3. \A r \in R : Within(r) /\ RunCells(r) \subseteq F
  BY <1>2, MaximalRunIs
<1>4. \A r, s \in R : r # s => r.base # s.base /\ RunCells(r) \cap RunCells(s) = {}
  BY <1>2, MaximalRunsApart
<1>5. \A r \in R : r.base \in 0 .. HEAP /\ r \in Runs
  BY <1>3 DEF Within, Runs, Addr
<1> HIDE DEF R
<1>6. /\ all \in Seq(R)
      /\ \A i \in DOMAIN all : all[i] \in R
      /\ \A i, j \in DOMAIN all : i # j => all[i] # all[j]
      /\ \A r \in R : \E i \in DOMAIN all : all[i] = r
  BY <1>4, <1>5, Constants, ByBaseLists
<1> HIDE DEF all
<1>7. all \in Seq(Runs)
  <2>1. R \subseteq Runs
    BY <1>5
  <2>2. QED
    BY <1>6, <2>1
<1>8. Apart(all)
  BY <1>4, <1>6 DEF Apart
<1>9. SeqCells(all) \subseteq F
  BY <1>3, <1>6 DEF SeqCells
<1>10. \A i \in DOMAIN all : Within(all[i])
  BY <1>3, <1>6
<1>11. \A r \in FreeRuns : r.size >= LINE => \E i \in DOMAIN all : all[i] = r
  BY <1>6 DEF R
<1>12. QED
  BY <1>1, <1>7, <1>8, <1>9, <1>10, <1>11 DEF F

\* The largest run the sweep reports is as large as any.
LEMMA LargestIs ==
    ASSUME TypeOK
    PROVE  Max(Sizes) \in Addr /\ \A r \in FreeRuns : r.size \in Nat /\ r.size <= Max(Sizes)
<1>1. \A r \in FreeRuns : r.size \in 0 .. HEAP
  <2>1. Unbooked \subseteq 0 .. HEAP - 1 /\ FreeRuns = MaximalRuns(Unbooked)
    BY DEF Unbooked, FreeRuns
  <2>2. \A r \in FreeRuns : Within(r)
    BY <2>1, MaximalRunIs
  <2>3. QED
    BY <2>2 DEF Within, Runs, Addr
<1>2. (IF KeepRun THEN cur.limit - cur.ptr ELSE 0) \in 0 .. HEAP
  <2>1. cur.ptr \in Nat /\ cur.limit \in Nat /\ cur.ptr <= cur.limit /\ cur.limit <= HEAP
    BY Registers
  <2>2. QED
    BY <2>1, Constants
<1> DEFINE S == Sizes
<1>3. S \subseteq 0 .. HEAP /\ S # {} /\ \A r \in FreeRuns : r.size \in S
  BY <1>1, <1>2 DEF Sizes
<1> HIDE DEF S
<1>4. Max(S) \in S /\ \A x \in S : x <= Max(S)
  BY <1>3, Constants, MaxIs
<1>5. Max(S) \in Addr
  BY <1>3, <1>4 DEF Addr
<1>6. \A r \in FreeRuns : r.size \in Nat /\ r.size <= Max(S)
  BY <1>1, <1>3, <1>4
<1>7. QED
  BY <1>5, <1>6 DEF S

LEMMA SweepStep ==
    ASSUME Inv, Sweep PROVE Inv'
<1> DEFINE all == ListedRuns
           m == InMemory(all)
           largest == Max(Sizes)
           T == {touched} \cup {e.slot + 1 : e \in {f \in ToSet(m) : f.slot # TABLE}}
           Z == {zero} \cup {e.run.base + 1 : e \in ToSet(m)}
           l == [ahead |-> SubSeq(OnChip(all), Rover(all) + 1, Len(OnChip(all))),
                 below |-> SubSeq(all, 1, Rover(all)), memory |-> m]
<1>1. /\ st = "gc" /\ st' = "alloc" /\ al' = [al EXCEPT !.phase = 0]
      /\ list' = l /\ touched' = Max(T) /\ zero' = Max(Z)
      /\ rq' = [rq EXCEPT !.collected = TRUE, !.largest = largest, !.oom = Hopeless(largest)]
      /\ cur' = (IF KeepRun THEN cur ELSE [cur EXCEPT !.limit = cur.ptr])
      /\ stale' = (IF KeepRun THEN stale ELSE {})
      /\ mark' = NextEpoch(mark) /\ spoiled' = (spoiled /\ KeepRun)
      /\ blocks' = blocks /\ todo' = todo
  BY DEF Sweep
<1>2. /\ al.phase = 0 /\ ~rq.oom /\ (rq.abort <=> rq.need # 0)
  BY <1>1 DEF Inv, Phases
<1>3. /\ GoodLists(l)
      /\ SeqCells(l.ahead) \subseteq SeqCells(all)
      /\ SeqCells(l.below) \subseteq SeqCells(all)
      /\ SeqCells(RunsOf(l.memory)) \subseteq SeqCells(all)
      /\ \A i \in DOMAIN all : \/ all[i] \in ToSet(l.ahead) \/ all[i] \in ToSet(l.below)
                               \/ all[i] \in {e.run : e \in ToSet(l.memory)}
      /\ \A e \in ToSet(l.memory) : /\ e.run.base \in 0 .. HEAP - 1
                                    /\ e.slot = TABLE \/ e.slot = e.run.base
  <2>1. all \in Seq(Runs) /\ Apart(all) /\ \A i \in DOMAIN all : Within(all[i])
    BY ListedIs
  <2>2. l = [ahead |-> SubSeq(OnChip(all), Rover(all) + 1, Len(OnChip(all))),
             below |-> SubSeq(all, 1, Rover(all)), memory |-> InMemory(all)]
    OBVIOUS
  <2> HIDE DEF all, l
  <2>3. QED
    BY <2>1, <2>2, SplitIsGood
<1>4. /\ SeqCells(all) \subseteq Unbooked
      /\ \A r \in FreeRuns : r.size >= LINE => \E i \in DOMAIN all : all[i] = r
  BY ListedIs
<1>5. \A e \in ToSet(m) : e.run.base \in 0 .. HEAP - 1 /\ (e.slot = TABLE \/ e.slot = e.run.base)
  BY <1>3
<1>6. largest \in Addr /\ \A r \in FreeRuns : r.size \in Nat /\ r.size <= largest
  BY LargestIs DEF Inv
<1> HIDE DEF l, all, largest, m
<1>7. touched' \in Addr /\ zero' \in 0 .. HEAP + 1 /\ touched' <= zero'
  <2>1. touched <= zero /\ zero \in 0 .. HEAP + 1 /\ touched \in 0 .. HEAP
    BY DEF Inv, Bounds, TypeOK, Addr
  <2>2. \A e \in ToSet(m) : e.run.base + 1 \in 0 .. HEAP
    <3> SUFFICES ASSUME NEW e \in ToSet(m) PROVE e.run.base + 1 \in 0 .. HEAP
      OBVIOUS
    <3> DEFINE x == e.run.base
    <3>1. x \in 0 .. HEAP - 1
      BY <1>5
    <3> HIDE DEF x
    <3>2. x + 1 \in 0 .. HEAP
      BY <3>1, Constants
    <3>3. QED
      BY <3>2 DEF x
  <2>3. \A e \in {f \in ToSet(m) : f.slot # TABLE} : e.slot + 1 = e.run.base + 1
    BY <1>5
  <2>4. T \subseteq {touched} \cup Z /\ T \subseteq 0 .. HEAP
    BY <2>1, <2>2, <2>3
  <2>5. Z \subseteq 0 .. HEAP + 1
    <3>1. 0 .. HEAP \subseteq 0 .. HEAP + 1
      BY Constants
    <3>2. QED
      BY <2>1, <2>2, <3>1
  <2>6. T # {} /\ Z # {} /\ touched \in T /\ zero \in Z
    OBVIOUS
  <2> HIDE DEF T, Z
  <2>7. Max(T) \in T /\ Max(Z) \in Z /\ \A z \in Z : z <= Max(Z)
    <3>1. HEAP + 1 \in Nat /\ HEAP \in Nat
      BY Constants
    <3>2. QED
      BY <2>4, <2>5, <2>6, <3>1, MaxIs
  <2>8. Max(T) = touched \/ Max(T) \in Z
    BY <2>4, <2>7
  <2>9. zero <= Max(Z) /\ Max(Z) \in 0 .. HEAP + 1 /\ Max(T) \in 0 .. HEAP
    BY <2>4, <2>5, <2>6, <2>7
  <2>10. Max(T) <= Max(Z)
    BY <2>1, <2>7, <2>8, <2>9
  <2>11. QED
    BY <1>1, <2>9, <2>10 DEF Addr
<1> HIDE DEF T, Z
<1>8. al' \in Searches /\ al'.phase = 0
  BY <1>1 DEF Inv, TypeOK, Searches, AllocPhase
<1>9. /\ rq' \in Demands /\ rq'.abort = rq.abort /\ rq'.need = rq.need /\ rq'.collected
      /\ rq'.oom = Hopeless(largest)
  <2> DEFINE h == Hopeless(largest)
  <2>1. h \in BOOLEAN
    BY DEF Hopeless
  <2>2. rq \in Demands
    BY DEF Inv, TypeOK
  <2>3. rq' = [rq EXCEPT !.collected = TRUE, !.largest = largest, !.oom = h]
    BY <1>1
  <2> HIDE DEF h
  <2>4. rq' \in Demands /\ rq'.abort = rq.abort /\ rq'.need = rq.need /\ rq'.collected /\ rq'.oom = h
    BY <1>6, <2>1, <2>2, <2>3 DEF Demands
  <2>5. QED
    BY <2>4 DEF h
<1>10. /\ cur = [ptr |-> cur.ptr, limit |-> cur.limit, base |-> cur.base]
       /\ cur.ptr \in Nat /\ cur.limit \in Nat /\ cur.ptr <= cur.limit
  BY Registers DEF Inv
<1>11. /\ cur'.ptr = cur.ptr /\ cur'.base = cur.base
       /\ KeepRun => cur' = cur
       /\ ~KeepRun => cur'.limit = cur.ptr /\ cur' = [ptr |-> cur.ptr, limit |-> cur.ptr, base |-> cur.base]
  BY <1>1, <1>10
<1>12. rq.abort => ~KeepRun
  BY DEF KeepRun
<1>13. TypeOK'
  <2>1. cur' \in [ptr : Addr, limit : Addr, base : Addr] /\ cur'.ptr <= cur'.limit
    <3>1. cur.ptr \in Addr /\ cur.base \in Addr /\ cur \in [ptr : Addr, limit : Addr, base : Addr]
      BY DEF Inv, TypeOK
    <3>2. QED
      BY <1>10, <1>11, <3>1
  <2>2. stale' \subseteq 0 .. HEAP - 1
    BY <1>1 DEF Inv, TypeOK
  <2>3. list' \in Listings /\ Len(list'.ahead) + Len(list'.below) <= RUN_ONCHIP
    BY <1>1, <1>3 DEF GoodLists
  <2>4. mark' = <<>> \/ mark'[1] \in [ptr : Addr, now : BOOLEAN]
    BY <1>1, Constants DEF NextEpoch, Addr
  <2>5. QED
    BY <1>1, <1>7, <1>8, <1>9, <2>1, <2>2, <2>3, <2>4 DEF Inv, TypeOK
<1>14. Phases'
  <2>1. rq'.abort => cur'.limit = cur'.ptr
    BY <1>9, <1>11, <1>12
  <2>2. QED
    BY <1>1, <1>2, <1>8, <1>9, <2>1 DEF Inv, Phases
<1>15. Bounds'
  BY <1>1, <1>3, <1>7, <1>8 DEF Inv, Bounds, GoodLists, Within
<1>16. Booked'
  <2>1. Carried' = {} /\ MarkApart'
    <3>1. mark' = <<>> \/ Superseded(mark[1])'
      BY <1>1 DEF NextEpoch, Superseded
    <3>2. QED
      BY <1>8, <3>1 DEF Carried, MarkApart
  <2>2. Current' = Kept /\ Current' \subseteq Current
    <3>1. CASE KeepRun
      BY <1>11, <3>1 DEF Current, Kept
    <3>2. CASE ~KeepRun
      <4>1. Current' = cur.ptr .. cur.ptr - 1
        BY <1>11, <3>2 DEF Current
      <4>2. cur.ptr .. cur.ptr - 1 = {}
        BY <1>10
      <4>3. QED
        BY <3>2, <4>1, <4>2 DEF Kept
    <3>3. QED
      BY <3>1, <3>2
  <2>3. Listed' \subseteq Unbooked
    BY <1>1, <1>3, <1>4 DEF Listed
  <2>4. Listed' \cap (CellsOf(blocks') \cup Current' \cup Carried') = {}
    BY <1>1, <2>1, <2>2, <2>3 DEF Unbooked
  <2>5. CellsOf(blocks') \cap (Current' \cup Carried') = {} /\ Current' \cap Carried' = {}
    BY <1>1, <2>1, <2>2 DEF Inv, Booked
  <2>6. QED
    BY <1>1, <1>3, <2>1, <2>4, <2>5 DEF Inv, Booked, GoodLists
<1>17. Clean'
  <2>1. ~spoiled' => Current' \cap stale' = {}
    <3>1. CASE KeepRun
      <4>1. ~rq.abort
        BY <1>12, <3>1
      <4>2. cur' = cur /\ stale' = stale /\ (spoiled => spoiled')
        BY <1>1, <3>1
      <4>3. ~spoiled => Current \cap stale = {}
        BY <1>2, <4>1 DEF Inv, Clean
      <4>4. QED
        BY <4>2, <4>3 DEF Current
    <3>2. CASE ~KeepRun
      BY <1>1, <3>2
    <3>3. QED
      BY <3>1, <3>2
  <2>2. QED
    BY <1>8, <2>1 DEF Clean
<1>18. Measured'
  BY <1>1, <1>8, <1>9, <1>11 DEF Inv, Measured
<1>19. Looked'
  <2> SUFFICES ASSUME rq.abort, NEW r \in MaximalRuns((0 .. HEAP - 1) \ CellsOf(blocks)), Fit(r)
      PROVE r \in Unseen'
    BY <1>1, <1>9 DEF Looked, Fit
  <2>1. r \in FreeRuns
    <3>1. Kept = {}
      BY <1>12 DEF Kept
    <3>2. (0 .. HEAP - 1) \ CellsOf(blocks) = (0 .. HEAP - 1) \ (CellsOf(blocks) \cup Kept)
      BY <3>1
    <3>3. QED
      BY <3>2 DEF FreeRuns
  <2>2. r.size >= LINE
    <3>1. rq.need \in Nat /\ r.size \in Nat /\ r.size >= rq.need + LINE
      BY <1>6, <2>1, Registers DEF Inv, Fit
    <3>2. QED
      BY <3>1, Constants
  <2>3. PICK i \in DOMAIN all : all[i] = r
    BY <1>4, <2>1, <2>2
  <2>4. QED
    BY <1>1, <1>3, <2>3 DEF Unseen
<1>20. QED
  BY <1>13, <1>14, <1>15, <1>16, <1>17, <1>18, <1>19 DEF Inv
-----------------------------------------------------------------------------
(* The invariant *)

LEMMA InitInv ==
    ASSUME Init PROVE Inv
<1>1. /\ st = "run" /\ cur = [ptr |-> 0, limit |-> HEAP, base |-> 0]
      /\ list = [ahead |-> <<>>, below |-> <<>>, memory |-> <<>>]
      /\ rq = NoRequest /\ al = Idle /\ stale = {} /\ touched = 0 /\ zero = 0
      /\ blocks = {} /\ todo = <<>> /\ mark = <<>> /\ spoiled = FALSE
  BY DEF Init
<1>2. /\ ~rq.abort /\ rq.need = 0 /\ ~rq.collected /\ ~rq.oom /\ al.phase = 0 /\ ~al.header
  BY <1>1 DEF NoRequest, Idle
<1>3. TypeOK
  <2>1. rq \in Demands
    <3>1. 0 \in Addr /\ 0 \in GuardCount /\ -1 \in GuardHeap
      BY Constants DEF Addr, GuardCount, GuardHeap
    <3>2. QED
      BY <1>1, <3>1 DEF NoRequest, Demands
  <2>2. list \in Listings /\ Len(list.ahead) + Len(list.below) <= RUN_ONCHIP
    BY <1>1, EmptyList, Constants DEF Listings
  <2>3. cur \in [ptr : Addr, limit : Addr, base : Addr] /\ cur.ptr <= cur.limit
    BY <1>1, Constants DEF Addr
  <2>4. 0 \in Addr /\ 0 \in 0 .. HEAP + 1
    BY Constants DEF Addr
  <2>5. QED
    BY <1>1, <2>1, <2>2, <2>3, <2>4, IdleTyped DEF TypeOK
<1>4. Phases
  BY <1>1, <1>2 DEF Phases
<1>5. Bounds
  BY <1>1, <1>2, EmptyList DEF Bounds
<1>6. Booked
  <2>1. Listed = {} /\ Carried = {} /\ CellsOf(blocks) = {} /\ MarkApart
    BY <1>1, EmptyList DEF Listed, Carried, CellsOf, MarkApart
  <2>2. QED
    BY <1>1, <2>1, EmptyList DEF Booked
<1>7. Clean
  BY <1>1, <1>2 DEF Clean
<1>8. Measured
  BY <1>1, EmptyList DEF Measured
<1>9. Looked
  BY <1>1 DEF Looked
<1>10. QED
  BY <1>3, <1>4, <1>5, <1>6, <1>7, <1>8, <1>9 DEF Inv

LEMMA StutterInv ==
    ASSUME Inv, UNCHANGED vars PROVE Inv'
<1>1. TypeOK' /\ Phases' /\ Bounds'
  BY DEF Inv, vars, TypeOK, Phases, Bounds, Within, CurrentRun
<1>2. Booked'
  BY DEF Inv, vars, Booked, MarkApart, Superseded, Listed, Carried, Current, CellsOf
<1>3. Clean' /\ Measured' /\ Looked'
  BY DEF Inv, vars, Clean, Measured, Looked, Current, Fits, Fit, Unseen
<1>4. QED
  BY <1>1, <1>2, <1>3 DEF Inv

LEMMA NextInv ==
    ASSUME Inv, [Next]_vars PROVE Inv'
<1>1. CASE UNCHANGED vars
  BY <1>1, StutterInv
<1>2. CASE Collector
  BY <1>2, SweepStep, GiveUpStep DEF Collector
<1>3. CASE Allocator
  BY <1>3, StartCollectionStep, NothingWantedStep, WrapStep, OutOfMemoryStep, TakeOnChipStep,
     TakeInMemoryStep, HeaderWrittenStep, ZeroRunStep, ResumeStep, RaiseMemoryErrorStep
     DEF Allocator
<1>4. CASE Program
  BY <1>4, AllocateStep, AbortStep, DropStep, CollectStep, HeapMarkStep, HeapReleaseStep
     DEF Program
<1>5. QED
  BY <1>1, <1>2, <1>3, <1>4 DEF Next

LEMMA AlwaysInv == Spec => []Inv
<1>1. Init => Inv
  BY InitInv
<1>2. Inv /\ [Next]_vars => Inv'
  BY NextInv
<1>3. QED
  BY <1>1, <1>2, PTL DEF Spec
-----------------------------------------------------------------------------
(* The promises *)

\* Runs still to be looked at do not share a granule.
LEMMA UnseenApart ==
    ASSUME TypeOK, Bounds, Booked, NEW r \in Unseen
    PROVE  /\ Within(r) /\ RunCells(r) \subseteq Listed
           /\ \A s \in Unseen : r # s => RunCells(r) \cap RunCells(s) = {}
<1> DEFINE a == list.ahead
           b == list.below
           m == RunsOf(list.memory)
           In(x) == \/ \E i \in DOMAIN a : x = a[i]
                    \/ \E i \in DOMAIN b : x = b[i]
                    \/ \E i \in DOMAIN m : x = m[i]
<1>1. /\ Apart(a) /\ Apart(b) /\ Apart(m)
      /\ SeqCells(a) \cap SeqCells(b) = {}
      /\ SeqCells(a) \cap SeqCells(m) = {}
      /\ SeqCells(b) \cap SeqCells(m) = {}
      /\ Listed = SeqCells(a) \cup SeqCells(b) \cup SeqCells(m)
  BY DEF Booked, Listed
<1>2. /\ \A i \in DOMAIN a : Within(a[i])
      /\ \A i \in DOMAIN b : Within(b[i])
      /\ \A i \in DOMAIN m : Within(m[i])
  BY ListsTyped DEF Bounds
<1>3. \A x \in Unseen : In(x)
  <2> SUFFICES ASSUME NEW x \in Unseen PROVE In(x)
    OBVIOUS
  <2>1. CASE x \in ToSet(list.ahead)
    BY <2>1 DEF ToSet
  <2>2. CASE x \in ToSet(list.below)
    BY <2>2 DEF ToSet
  <2>3. CASE \E e \in ToSet(list.memory) : x = e.run
    <3>1. PICK i \in DOMAIN list.memory : x = list.memory[i].run
      BY <2>3 DEF ToSet
    <3>2. i \in DOMAIN m /\ x = m[i]
      BY <3>1, ListsTyped
    <3>3. QED
      BY <3>2
  <2>4. QED
    BY <2>1, <2>2, <2>3 DEF Unseen
<1> HIDE DEF a, b, m
<1>4. Within(r) /\ RunCells(r) \subseteq Listed
  BY <1>1, <1>2, <1>3 DEF SeqCells
<1>5. ASSUME NEW s \in Unseen, r # s PROVE RunCells(r) \cap RunCells(s) = {}
  <2>1. In(r) /\ In(s)
    BY <1>3
  <2>2. CASE \E i \in DOMAIN a : r = a[i]
    BY <1>1, <1>5, <2>1, <2>2 DEF Apart, SeqCells
  <2>3. CASE \E i \in DOMAIN b : r = b[i]
    BY <1>1, <1>5, <2>1, <2>3 DEF Apart, SeqCells
  <2>4. CASE \E i \in DOMAIN m : r = m[i]
    BY <1>1, <1>5, <2>1, <2>4 DEF Apart, SeqCells
  <2>5. QED
    BY <2>1, <2>2, <2>3, <2>4
<1>6. QED
  BY <1>4, <1>5

LEMMA CurrentRunCells ==
    ASSUME TypeOK PROVE RunCells(CurrentRun) = Current
<1> DEFINE p == cur.ptr
           l == cur.limit
<1>1. p \in Nat /\ l \in Nat /\ CurrentRun.base = p /\ CurrentRun.size = l - p
  BY Registers DEF CurrentRun
<1>2. RunCells(CurrentRun) = p .. (p + (l - p) - 1)
  BY <1>1 DEF RunCells
<1>3. Current = p .. l - 1
  BY DEF Current
<1> HIDE DEF p, l
<1>4. p + (l - p) - 1 = l - 1
  BY <1>1
<1>5. QED
  BY <1>2, <1>3, <1>4

LEMMA InvBookedOnce ==
    ASSUME Inv PROVE BookedOnce
<1> DEFINE free == Unseen \cup InHand
                       \cup (IF al.put \in InHand /\ al.install THEN {} ELSE {CurrentRun})
           booked == {RunCells(r) : r \in {f \in free : f.size > 0}}
                         \cup {Cells(b) : b \in blocks}
           Waiting(s) == \E r \in Unseen : s = RunCells(r)
           Moved(s) == al.phase = 4 /\ s = RunCells(al.cand)
           Held(s) == \E b \in blocks : s = Cells(b)
<1> USE DEF Inv
<1>1. ASSUME NEW r \in free
      PROVE  r \in Unseen \/ r = CurrentRun \/ (al.phase = 4 /\ r = al.cand)
  <2>1. r \in InHand => al.phase = 4 /\ (r = al.put \/ r = al.cand)
    BY DEF InHand
  <2>2. al.phase = 4 => al.put = CurrentRun \/ al.put = al.cand
    BY DEF Bounds
  <2>3. QED
    BY <2>1, <2>2
<1> HIDE DEF free
<1>2. ASSUME NEW s \in booked
      PROVE  Waiting(s) \/ s = Current \/ Moved(s) \/ Held(s)
  BY <1>1, CurrentRunCells
<1>3. al.phase = 4 => Carried = RunCells(al.cand)
  BY DEF Phases, Carried
<1>4. \A s : /\ Waiting(s) => s \subseteq Listed
             /\ Held(s) => s \subseteq CellsOf(blocks)
             /\ Moved(s) => s = Carried
  BY <1>3, UnseenApart, Parts
<1>5. \A s, t : Waiting(s) /\ Waiting(t) => s = t \/ s \cap t = {}
  BY UnseenApart
<1>6. \A s, t : Held(s) /\ Held(t) => s = t \/ s \cap t = {}
  BY DEF Booked
<1>7. /\ Listed \cap (CellsOf(blocks) \cup Current \cup Carried) = {}
      /\ CellsOf(blocks) \cap (Current \cup Carried) = {}
      /\ Current \cap Carried = {}
  BY DEF Booked
<1>8. \A s : Waiting(s) \/ s = Current \/ Moved(s) \/ Held(s) => s \subseteq 0 .. HEAP - 1
  <2>1. Current \subseteq 0 .. HEAP - 1
    BY Registers
  <2>2. \A r \in Unseen : RunCells(r) \subseteq 0 .. HEAP - 1
    BY UnseenApart, RunRange
  <2>3. al.phase = 4 => RunCells(al.cand) \subseteq 0 .. HEAP - 1
    BY RunRange DEF Bounds
  <2>4. \A b \in blocks : Cells(b) \subseteq 0 .. HEAP - 1
    BY Parts
  <2>5. QED
    BY <2>1, <2>2, <2>3, <2>4
<1> HIDE DEF booked, Waiting, Moved, Held
<1>9. \A s, t \in booked : s = t \/ s \cap t = {}
  <2> SUFFICES ASSUME NEW s \in booked, NEW t \in booked PROVE s = t \/ s \cap t = {}
    OBVIOUS
  <2>1. /\ Waiting(s) \/ s = Current \/ s = Carried \/ Held(s)
        /\ Waiting(t) \/ t = Current \/ t = Carried \/ Held(t)
    BY <1>2, <1>4
  <2>2. /\ Waiting(s) => s \subseteq Listed
        /\ Waiting(t) => t \subseteq Listed
        /\ Held(s) => s \subseteq CellsOf(blocks)
        /\ Held(t) => t \subseteq CellsOf(blocks)
    BY <1>4
  <2>3. CASE Waiting(s)
    BY <1>5, <1>7, <2>1, <2>2, <2>3
  <2>4. CASE Held(s)
    BY <1>6, <1>7, <2>1, <2>2, <2>4
  <2>5. CASE s = Current
    BY <1>7, <2>1, <2>2, <2>5
  <2>6. CASE s = Carried
    BY <1>7, <2>1, <2>2, <2>6
  <2>7. QED
    BY <2>1, <2>3, <2>4, <2>5, <2>6
<1>10. UNION booked \subseteq 0 .. HEAP - 1
  BY <1>2, <1>8
<1>11. QED
  BY <1>9, <1>10 DEF BookedOnce, booked, free

\* A search ends in MemoryError only with no run to look at, and a collection
\* for a request only when the loop guard sees no run that would do.
LEMMA FullIsFull ==
    ASSUME Inv, [Next]_vars, rq'.oom, ~rq.oom, ~GiveUp
    PROVE  /\ rq'.collected
           /\ \A r \in MaximalRuns((0 .. HEAP - 1) \ CellsOf(blocks)) : ~Fit(r)
<1> DEFINE Full == /\ rq'.collected
                   /\ \A r \in MaximalRuns((0 .. HEAP - 1) \ CellsOf(blocks)) : ~Fit(r)
<1>1. CASE OutOfMemory
  <2>1. /\ st = "alloc" /\ al.phase = 0 /\ rq.abort /\ rq.collected /\ Unseen = {}
    BY <1>1, EmptyList DEF OutOfMemory, Searching, Exhausted, Unseen, Inv, Phases
  <2>2. rq'.collected
    BY <1>1, <2>1 DEF OutOfMemory, Inv, TypeOK, Demands
  <2>3. QED
    BY <2>1, <2>2 DEF Inv, Looked
<1>2. CASE Sweep
  <2> DEFINE largest == Max(Sizes)
  <2>1. rq' = [rq EXCEPT !.collected = TRUE, !.largest = largest, !.oom = Hopeless(largest)]
    BY <1>2 DEF Sweep
  <2>2. rq'.collected /\ Hopeless(largest)
    BY <2>1 DEF Inv, TypeOK, Demands
  <2>3. rq.abort /\ largest < rq.need + LINE
    BY <2>2 DEF Hopeless
  <2>4. FreeRuns = MaximalRuns((0 .. HEAP - 1) \ CellsOf(blocks))
    <3>1. Kept = {}
      BY <2>3 DEF Kept, KeepRun
    <3>2. CellsOf(blocks) \cup Kept = CellsOf(blocks)
      BY <3>1
    <3>3. QED
      BY <3>2 DEF FreeRuns
  <2>5. largest \in Addr /\ \A r \in FreeRuns : r.size \in Nat /\ r.size <= largest
    BY LargestIs DEF Inv
  <2>6. rq.need \in Nat
    BY Registers DEF Inv
  <2> HIDE DEF largest
  <2>7. ASSUME NEW r \in FreeRuns PROVE ~Fit(r)
    <3> DEFINE x == r.size
               n == rq.need
    <3>1. /\ x \in Nat /\ n \in Nat /\ largest \in Nat /\ LINE \in Nat
          /\ x <= largest /\ largest < n + LINE
      BY <2>3, <2>5, <2>6, Constants DEF Addr
    <3> HIDE DEF x, n
    <3>2. ~(x >= n + LINE)
      BY <3>1
    <3>3. QED
      BY <3>2 DEF Fit, x, n
  <2>8. QED
    BY <2>2, <2>4, <2>7
<1>3. CASE UNCHANGED vars
  BY <1>3 DEF vars
<1>4. rq \in Demands
  BY DEF Inv, TypeOK
<1>5. CASE Allocator /\ ~OutOfMemory
  <2>1. CASE RaiseMemoryError
    BY <2>1 DEF RaiseMemoryError
  <2>2. CASE Resume
    <3>1. rq' = [rq EXCEPT !.abort = FALSE, !.need = 0, !.explicit = FALSE, !.collected = FALSE]
      BY <2>2 DEF Resume
    <3>2. rq'.oom = rq.oom
      BY <1>4, <3>1 DEF Demands
    <3>3. QED
      BY <3>2
  <2>3. CASE UNCHANGED rq
    BY <2>3
  <2>4. QED
    BY <1>5, <2>1, <2>2, <2>3 DEF Allocator, StartCollection, NothingWanted, Wrap, TakeOnChip,
       TakeInMemory, HeaderWritten, ZeroRun
<1>6. CASE Program
  <2>1. Completed(rq).oom = rq.oom
    BY CompletedIs DEF Inv
  <2>2. CASE \E r \in Requests : Allocate(r)
    BY <2>1, <2>2 DEF Allocate
  <2>3. CASE \E r \in Requests : Abort(r)
    <3>1. rq'.oom = rq.oom
      BY <1>4, <2>3 DEF Abort, Demands
    <3>2. QED
      BY <3>1
  <2>4. CASE \E b \in blocks : Drop(b)
    BY <2>4 DEF Drop
  <2>5. CASE \E explicit \in BOOLEAN : Collect(explicit)
    <3>1. PICK x \in BOOLEAN : rq' = [Completed(rq) EXCEPT !.explicit = x]
      BY <2>5 DEF Collect
    <3>2. rq'.oom = Completed(rq).oom
      BY <3>1, CompletedIs DEF Inv, Demands
    <3>3. QED
      BY <2>1, <3>2
  <2>6. CASE HeapMark \/ HeapRelease
    BY <2>1, <2>6 DEF HeapMark, HeapRelease
  <2>7. QED
    BY <1>6, <2>2, <2>3, <2>4, <2>5, <2>6 DEF Program
<1>7. QED
  BY <1>1, <1>2, <1>3, <1>5, <1>6 DEF Next, Collector

\* Every register of the allocator stays in its range: the bump pointer never
\* passes the limit, the run table never holds more than its entries, and the
\* zeroing boundary is past the heap by at most the granule of the runs table.
THEOREM TypeCorrect == Spec => []TypeOK
<1>1. Inv => TypeOK
  BY DEF Inv
<1>2. QED
  BY <1>1, AlwaysInv, PTL

\* Memory is booked once: the current run, the runs listed on chip and in
\* memory, the skipped runs and the parts the program can reach never share a
\* granule (S_GC_ALLOC, S_GC_RUN, _bi_heap_release; gc.md invariant 5).
THEOREM BookedOnceHolds == Spec => []BookedOnce
<1>1. Inv => BookedOnce
  BY InvBookedOnce
<1>2. QED
  BY <1>1, AlwaysInv, PTL

\* Storage is zero when it is next allocated (gc.md invariant 6), unless a
\* collection was given up under an aborted instruction: the zeroing of a new
\* run up to heap_zero_r covers whatever it ever held.
THEOREM FreshStorageHolds == Spec => []FreshStorage
<1>1. Inv => FreshStorage
  BY CurrentRunCells DEF Inv, Clean, FreshStorage
<1>2. QED
  BY <1>1, AlwaysInv, PTL

\* The second dispatch of an aborted instruction that is checked as a whole
\* fits: one line of slack pays for the placement of its parts in any run.
THEOREM GrantFitsHolds == Spec => []GrantFits
<1>1. Inv => GrantFits
  BY DEF Inv, Measured, GrantFits
<1>2. QED
  BY <1>1, AlwaysInv, PTL

\* The search raises MemoryError only after a collection for the request, and
\* only when no free run would hold it with the slack of a line: neither the
\* rover, the wrap, the tables nor the loop guard overlooks one.
THEOREM MemoryErrorWhenFullHolds == Spec => MemoryErrorWhenFull
<1>1. Inv /\ [Next]_vars =>
         [rq'.oom /\ ~rq.oom /\ ~GiveUp =>
             /\ rq'.collected
             /\ \A r \in MaximalRuns((0 .. HEAP - 1) \ CellsOf(blocks)) : ~Fit(r)]_vars
  BY FullIsFull
<1>2. QED
  BY <1>1, AlwaysInv, PTL DEF Spec, MemoryErrorWhenFull
=============================================================================
