--------------------------- MODULE PycLexerProofs ---------------------------
(***************************************************************************)
(* Theorems about the lexer, for every text: each turn of its loop counts, *)
(* and what it gives the parser is well nested.                            *)
(***************************************************************************)
EXTENDS PycLexer, SequenceTheorems, NatLemmas
-----------------------------------------------------------------------------
(* Characters and runs of them *)

IsText(s) == Len(s) \in Nat /\ \A j \in 1..Len(s) : CharAt(s, j) # Nothing

LEMMA NothingIsNoCharacter ==
    /\ Nothing \notin Digits /\ Nothing \notin Digits \cup {"_"}
    /\ Nothing \notin IdStart /\ Nothing \notin IdCont
    /\ Nothing \notin Blanks /\ Nothing \notin Quotes
    /\ \A c : Nothing \notin PrefixDigits(c) /\ Nothing \notin PrefixDigits(c) \cup {"_"}
<1>1. Nothing \notin Digits
  BY Zenon DEF Digits, Nothing
<1>2. Nothing \notin Letters
  BY Zenon DEF Letters, Nothing
<1>3. Nothing \notin {"_"}
  BY Zenon DEF Nothing
<1>4. Nothing \notin Hex
  <2>1. Nothing \notin {"a", "b", "c", "d", "e", "f", "A", "B", "C", "D", "E", "F"}
    BY Zenon DEF Nothing
  <2>2. QED
    BY <1>1, <2>1 DEF Hex
<1>5. Nothing \notin {"0", "1", "2", "3", "4", "5", "6", "7"} /\ Nothing \notin {"0", "1"}
  BY Zenon DEF Nothing
<1>6. ASSUME NEW c PROVE Nothing \notin PrefixDigits(c)
  BY <1>4, <1>5 DEF PrefixDigits
<1>7. Nothing \notin Blanks /\ Nothing \notin Quotes
  BY Zenon DEF Blanks, Quotes, Nothing
<1>8. QED
  BY <1>1, <1>2, <1>3, <1>6, <1>7 DEF IdStart, IdCont

LEMMA AtPastEnd ==
    ASSUME IsText(source), NEW j \in Nat, j >= 1
    PROVE  At(j) = Nothing <=> j > Len(source)
BY DEF At, IsText

\* A run that begins in the text ends in it, or just behind it.
LEMMA RunEndIs ==
    ASSUME IsText(source), NEW cs, Nothing \notin cs, NEW j \in 1..(Len(source) + 1)
    PROVE  /\ RunEnd(j, cs) \in j..(Len(source) + 1)
           /\ At(RunEnd(j, cs)) \notin cs
           /\ \A m \in j..(RunEnd(j, cs) - 1) : At(m) \in cs
           /\ At(j) \in cs => RunEnd(j, cs) > j
<1> DEFINE N == Len(source) + 1
           T == {k \in j..N : At(k) \notin cs}
           P(k) == At(k) \notin cs /\ \A m \in j..(k - 1) : At(m) \in cs
<1>1. N \in Nat /\ j \in Nat /\ j >= 1 /\ j <= N
  BY DEF IsText
<1>2. At(N) = Nothing
  BY <1>1, AtPastEnd DEF IsText
<1>3. T \subseteq Nat /\ T # {}
  BY <1>1, <1>2
<1>4. PICK k \in T : \A m \in T : k <= m
  BY <1>3, LeastNumber
<1>5. k \in j..N /\ P(k)
  BY <1>1, <1>4
<1>6. RunEnd(j, cs) = CHOOSE x \in j..N : P(x)
  BY DEF RunEnd
<1> HIDE DEF P
<1>7. RunEnd(j, cs) \in j..N /\ P(RunEnd(j, cs))
  BY <1>5, <1>6
<1>8. QED
  BY <1>1, <1>7 DEF P

LEMMA TripledIs ==
    ASSUME IsText(source), NEW j \in 1..Len(source)
    PROVE  Tripled(j) => j + 2 <= Len(source)
<1>1. j \in Nat /\ j >= 1 /\ Len(source) \in Nat
  BY DEF IsText
<1>2. At(j) # Nothing /\ j + 2 \in Nat
  BY <1>1, AtPastEnd
<1>3. j + 2 > Len(source) => At(j + 2) = Nothing
  BY <1>1, <1>2, AtPastEnd
<1>4. QED
  BY <1>1, <1>2, <1>3 DEF Tripled

LEMMA QuoteLenIs ==
    ASSUME IsText(source), NEW j \in 1..Len(source)
    PROVE  QuoteLen(j) \in {1, 3} /\ j + QuoteLen(j) \in (j + 1)..(Len(source) + 1)
BY TripledIs DEF QuoteLen, IsText

\* A string ends behind its opening quotes and in the text, or nowhere.
LEMMA StringEndIs ==
    ASSUME IsText(source), NEW j \in 1..Len(source)
    PROVE  StringEnd(j) = 0 \/ StringEnd(j) \in (j + 1)..(Len(source) + 1)
<1> DEFINE L == Len(source)
           N == L + 2
           len == QuoteLen(j)
           a == j + len
           Fits(v, k) == v = 0 \/ v \in (k + 1)..(L + 1)
           Body(g, k) == IF k > L THEN 0
                         ELSE IF At(k) = "\\" THEN IF At(k + 1) = Nothing THEN 0 ELSE g[k + 2]
                         ELSE IF len = 1 /\ At(k) = "\n" THEN 0
                         ELSE IF At(k) = At(j) /\ (len = 1 \/ Tripled(k)) THEN k + len
                         ELSE g[k + 1]
           End == CHOOSE g : g = [k \in a..N |-> Body(g, k)]
<1>1. StringEnd(j) = End[a]
  BY DEF StringEnd
<1>2. L \in Nat /\ len \in {1, 3} /\ a \in Nat /\ a >= j + 1 /\ a <= L + 1 /\ N \in Nat /\ N - a \in Nat
  BY QuoteLenIs DEF IsText
<1>3. ASSUME NEW g, NEW h, NEW k \in a..N, \A m \in a..N : m > k => g[m] = h[m]
      PROVE  Body(g, k) = Body(h, k)
  <2>1. k <= L => k + 1 \in a..N /\ k + 2 \in a..N
    BY <1>2
  <2>2. k <= L => g[k + 1] = h[k + 1] /\ g[k + 2] = h[k + 2]
    BY <1>2, <1>3, <2>1
  <2>3. QED
    BY <1>2, <2>2
<1>4. ASSUME NEW g, NEW k \in a..N, \A m \in a..N : m > k => Fits(g[m], m)
      PROVE  Fits(Body(g, k), k)
  <2>1. CASE k > L
    BY <2>1
  <2>2. CASE k <= L
    <3>1. k + 1 \in a..N /\ k + 2 \in a..N /\ k \in 1..L /\ L \in Nat
      BY <1>2, <2>2
    <3>2. Fits(g[k + 1], k + 1) /\ Fits(g[k + 2], k + 2)
      BY <1>2, <1>4, <3>1
    <3>3. Fits(g[k + 1], k) /\ Fits(g[k + 2], k)
      BY <3>1, <3>2
    <3>4. len = 1 \/ Tripled(k) => Fits(k + len, k)
      BY <1>2, <3>1, TripledIs
    <3>5. QED
      BY <3>3, <3>4
  <2>3. QED
    BY <1>2, <2>1, <2>2
<1> HIDE DEF Body, Fits, len, a, N, L
<1>5. \E g : g = [k \in a..N |-> Body(g, k)]
  <2> DEFINE S == {d \in 0..(N - a) : \E g : \A k \in (N - d)..N : g[k] = Body(g, k)}
  <2>1. 0 \in S
    <3> DEFINE g == [k \in {N} |-> Body(0, N)]
    <3>1. Body(g, N) = Body(0, N)
      BY <1>2, <1>3
    <3>2. \A k \in (N - 0)..N : g[k] = Body(g, k)
      BY <1>2, <3>1
    <3>3. QED
      BY <1>2, <3>2
  <2>2. ASSUME NEW d \in 0..(N - a) - 1, d \in S PROVE d + 1 \in S
    <3>1. PICK g : \A k \in (N - d)..N : g[k] = Body(g, k)
      BY <2>2
    <3> DEFINE n == N - (d + 1)
               h == [k \in n..N |-> IF k = n THEN Body(g, n) ELSE g[k]]
    <3>2. n \in a..N /\ d + 1 \in 0..(N - a) /\ n \in Int /\ N - d = n + 1
      BY <1>2
    <3>3. ASSUME NEW k \in n..N PROVE h[k] = Body(h, k)
      <4>1. k \in a..N /\ \A m \in a..N : m > k => g[m] = h[m]
        BY <1>2, <3>2
      <4>2. Body(g, k) = Body(h, k)
        BY <1>3, <4>1
      <4>3. k # n => k \in (N - d)..N
        BY <1>2, <3>2
      <4>4. QED
        BY <3>1, <4>2, <4>3
    <3>4. \E f : \A k \in (N - (d + 1))..N : f[k] = Body(f, k)
      BY <3>3
    <3>5. QED
      BY <3>2, <3>4
  <2>3. N - a \in S
    <3> DEFINE n == N - a
    <3>1. n \in Nat /\ 0 \in S /\ \A d \in 0..n - 1 : d \in S => d + 1 \in S
      BY <1>2, <2>1, <2>2
    <3> HIDE DEF S, n
    <3>2. 0..n \subseteq S
      BY ONLY <3>1, CountUp
    <3>3. QED
      BY <3>1, <3>2 DEF n
  <2>4. PICK g : \A k \in (N - (N - a))..N : g[k] = Body(g, k)
    BY <2>3
  <2> DEFINE h == [k \in a..N |-> g[k]]
  <2>5. ASSUME NEW k \in a..N PROVE g[k] = Body(h, k)
    <3>1. \A m \in a..N : m > k => g[m] = h[m]
      OBVIOUS
    <3>2. Body(g, k) = Body(h, k)
      BY <1>3, <3>1
    <3>3. N - (N - a) = a
      BY <1>2
    <3>4. QED
      BY <2>4, <3>2, <3>3
  <2>6. h = [k \in a..N |-> Body(h, k)]
    BY <2>5
  <2>7. QED
    BY <2>6
<1>6. End = [k \in a..N |-> Body(End, k)]
  BY <1>5
<1> HIDE DEF End
<1>7. \A k \in a..N : Fits(End[k], k)
  <2> DEFINE S == {d \in 0..(N - a) : \A k \in (N - d)..N : Fits(End[k], k)}
  <2>1. ASSUME NEW k \in a..N, \A m \in a..N : m > k => Fits(End[m], m) PROVE Fits(End[k], k)
    BY <1>4, <1>6, <2>1
  <2>2. 0 \in S
    <3>1. Fits(End[N], N)
      BY <1>2, <2>1
    <3>2. QED
      BY <1>2, <3>1
  <2>3. ASSUME NEW d \in 0..(N - a) - 1, d \in S PROVE d + 1 \in S
    <3> DEFINE n == N - (d + 1)
    <3>1. n \in a..N /\ d + 1 \in 0..(N - a) /\ \A k \in n..N : k = n \/ k \in (N - d)..N
      BY <1>2
    <3>2. \A m \in a..N : m > n => Fits(End[m], m)
      BY <1>2, <2>3
    <3>3. Fits(End[n], n)
      BY <2>1, <3>1, <3>2
    <3>4. QED
      BY <2>3, <3>1, <3>3
  <2>4. N - a \in S
    <3> DEFINE n == N - a
    <3>1. n \in Nat /\ 0 \in S /\ \A d \in 0..n - 1 : d \in S => d + 1 \in S
      BY <1>2, <2>2, <2>3
    <3> HIDE DEF S, n
    <3>2. 0..n \subseteq S
      BY ONLY <3>1, CountUp
    <3>3. QED
      BY <3>1, <3>2 DEF n
  <2>5. N - (N - a) = a
    BY <1>2
  <2>6. QED
    BY <2>4, <2>5
<1>8. Fits(End[a], a)
  BY <1>2, <1>7
<1>9. QED
  BY <1>1, <1>2, <1>8 DEF Fits, L, a

\* The indentation of a line is a number of columns.
LEMMA WidthIs ==
    ASSUME IsText(source), i \in 1..Len(source)
    PROVE  Indented \in i..(Len(source) + 1) /\ Width \in Nat
<1> DEFINE E == Indented
           Body(g, k) == IF k = i THEN 0
                         ELSE IF At(k - 1) = " " THEN g[k - 1] + 1
                         ELSE (g[k - 1] \div 8 + 1) * 8
           Columns == CHOOSE g : g = [k \in i..E |-> Body(g, k)]
<1>1. Width = Columns[E]
  BY DEF Width
<1>2. E \in i..(Len(source) + 1) /\ i \in Nat /\ E \in Nat /\ i <= E /\ E - i \in Nat
  <2>1. i \in 1..(Len(source) + 1) /\ Len(source) \in Nat
    BY DEF IsText
  <2>2. E \in i..(Len(source) + 1)
    BY <2>1, RunEndIs, NothingIsNoCharacter DEF Indented
  <2>3. QED
    BY <2>1, <2>2
<1>3. ASSUME NEW g, NEW h, NEW k \in i..E, \A m \in i..E : m < k => g[m] = h[m]
      PROVE  Body(g, k) = Body(h, k)
  <2>1. k # i => k - 1 \in i..E /\ k - 1 < k
    BY <1>2
  <2>2. k # i => g[k - 1] = h[k - 1]
    BY <1>3, <2>1
  <2>3. QED
    BY <2>2
<1>4. ASSUME NEW g, NEW k \in i..E, \A m \in i..E : m < k => g[m] \in Nat
      PROVE  Body(g, k) \in Nat
  <2>1. k # i => k - 1 \in i..E /\ k - 1 < k
    BY <1>2
  <2>2. k # i => g[k - 1] \in Nat
    BY <1>4, <2>1
  <2>3. ASSUME NEW v \in Nat PROVE v + 1 \in Nat /\ (v \div 8 + 1) * 8 \in Nat
    OBVIOUS
  <2>4. QED
    BY <2>2, <2>3
<1> HIDE DEF Body, E
<1>5. \E g : g = [k \in i..E |-> Body(g, k)]
  <2> DEFINE S == {d \in 0..(E - i) : \E g : \A k \in i..(i + d) : g[k] = Body(g, k)}
  <2>1. 0 \in S
    <3> DEFINE g == [k \in {i} |-> Body(0, i)]
    <3>1. Body(g, i) = Body(0, i)
      BY <1>2, <1>3
    <3>2. \A k \in i..(i + 0) : g[k] = Body(g, k)
      BY <1>2, <3>1
    <3>3. QED
      BY <1>2, <3>2
  <2>2. ASSUME NEW d \in 0..(E - i) - 1, d \in S PROVE d + 1 \in S
    <3>1. PICK g : \A k \in i..(i + d) : g[k] = Body(g, k)
      BY <2>2
    <3> DEFINE n == i + (d + 1)
               h == [k \in i..n |-> IF k = n THEN Body(g, n) ELSE g[k]]
    <3>2. n \in i..E /\ d + 1 \in 0..(E - i) /\ n \in Int /\ i + d = n - 1
      BY <1>2
    <3>3. ASSUME NEW k \in i..n PROVE h[k] = Body(h, k)
      <4>1. k \in i..E /\ \A m \in i..E : m < k => g[m] = h[m]
        BY <1>2, <3>2
      <4>2. Body(g, k) = Body(h, k)
        BY <1>3, <4>1
      <4>3. k # n => k \in i..(i + d)
        BY <1>2, <3>2
      <4>4. QED
        BY <3>1, <4>2, <4>3
    <3>4. \E f : \A k \in i..(i + (d + 1)) : f[k] = Body(f, k)
      BY <3>3
    <3>5. QED
      BY <3>2, <3>4
  <2>3. E - i \in S
    <3> DEFINE n == E - i
    <3>1. n \in Nat /\ 0 \in S /\ \A d \in 0..n - 1 : d \in S => d + 1 \in S
      BY <1>2, <2>1, <2>2
    <3> HIDE DEF S, n
    <3>2. 0..n \subseteq S
      BY ONLY <3>1, CountUp
    <3>3. QED
      BY <3>1, <3>2 DEF n
  <2>4. PICK g : \A k \in i..(i + (E - i)) : g[k] = Body(g, k)
    BY <2>3
  <2> DEFINE h == [k \in i..E |-> g[k]]
  <2>5. ASSUME NEW k \in i..E PROVE g[k] = Body(h, k)
    <3>1. \A m \in i..E : m < k => g[m] = h[m]
      OBVIOUS
    <3>2. Body(g, k) = Body(h, k)
      BY <1>3, <3>1
    <3>3. i + (E - i) = E
      BY <1>2
    <3>4. QED
      BY <2>4, <3>2, <3>3
  <2>6. h = [k \in i..E |-> Body(h, k)]
    BY <2>5
  <2>7. QED
    BY <2>6
<1>6. Columns = [k \in i..E |-> Body(Columns, k)]
  BY <1>5
<1> HIDE DEF Columns
<1>7. \A k \in i..E : Columns[k] \in Nat
  <2> DEFINE S == {d \in 0..(E - i) : \A k \in i..(i + d) : Columns[k] \in Nat}
  <2>1. ASSUME NEW k \in i..E, \A m \in i..E : m < k => Columns[m] \in Nat PROVE Columns[k] \in Nat
    BY <1>4, <1>6, <2>1
  <2>2. 0 \in S
    <3>1. Columns[i] \in Nat
      BY <1>2, <2>1
    <3>2. QED
      BY <1>2, <3>1
  <2>3. ASSUME NEW d \in 0..(E - i) - 1, d \in S PROVE d + 1 \in S
    <3> DEFINE n == i + (d + 1)
    <3>1. n \in i..E /\ d + 1 \in 0..(E - i) /\ \A k \in i..n : k = n \/ k \in i..(i + d)
      BY <1>2
    <3>2. \A m \in i..E : m < n => Columns[m] \in Nat
      BY <1>2, <2>3
    <3>3. Columns[n] \in Nat
      BY <2>1, <3>1, <3>2
    <3>4. QED
      BY <2>3, <3>1, <3>3
  <2>4. E - i \in S
    <3> DEFINE n == E - i
    <3>1. n \in Nat /\ 0 \in S /\ \A d \in 0..n - 1 : d \in S => d + 1 \in S
      BY <1>2, <2>2, <2>3
    <3> HIDE DEF S, n
    <3>2. 0..n \subseteq S
      BY ONLY <3>1, CountUp
    <3>3. QED
      BY <3>1, <3>2 DEF n
  <2>5. i + (E - i) = E
    BY <1>2
  <2>6. QED
    BY <2>4, <2>5
<1>8. QED
  BY <1>1, <1>2, <1>7 DEF E
-----------------------------------------------------------------------------
(* Where numbers and names end *)

LEMMA SomeCharacters ==
    /\ "." # Nothing /\ "e" # Nothing /\ "E" # Nothing /\ "j" # Nothing /\ "J" # Nothing
    /\ "{" # Nothing /\ "}" # Nothing /\ "\n" # Nothing /\ "#" # Nothing /\ "0" # Nothing
    /\ "\\" # Nothing
BY Zenon DEF Nothing

\* Before a character that is one there is room for the next.
LEMMA InText1 ==
    ASSUME IsText(source), NEW j \in Nat, j >= 1, At(j) # Nothing
    PROVE  j \in 1..Len(source) /\ j + 1 \in 1..(Len(source) + 1)
BY AtPastEnd DEF IsText

LEMMA GroupedIs ==
    ASSUME IsText(source), NEW j \in 1..(Len(source) + 1)
    PROVE  /\ Grouped(j) \in j..(Len(source) + 1)
           /\ At(j) \in Digits => Grouped(j) > j
BY RunEndIs, NothingIsNoCharacter DEF Grouped

LEMMA PrefixedNumberEnd ==
    ASSUME IsText(source), i \in 1..Len(source), PrefixDigits(At(i + 1)) # {}
    PROVE  RunEnd(i + 2, PrefixDigits(At(i + 1)) \cup {"_"}) \in (i + 1)..(Len(source) + 1)
<1>1. i \in Nat /\ i >= 1 /\ i + 1 \in Nat /\ Len(source) \in Nat
  BY DEF IsText
<1>2. At(i + 1) # Nothing
  <2>1. Nothing \notin {"x", "X"} /\ Nothing \notin {"o", "O"} /\ Nothing \notin {"b", "B"}
    BY Zenon DEF Nothing
  <2>2. PrefixDigits(Nothing) = {}
    BY <2>1 DEF PrefixDigits
  <2>3. QED
    BY <2>2
<1>3. i + 2 \in 1..(Len(source) + 1)
  BY <1>1, <1>2, InText1
<1> DEFINE e == RunEnd(i + 2, PrefixDigits(At(i + 1)) \cup {"_"})
<1>4. e \in (i + 2)..(Len(source) + 1)
  BY <1>3, RunEndIs, NothingIsNoCharacter
<1> HIDE DEF e
<1>5. e \in (i + 1)..(Len(source) + 1)
  BY <1>1, <1>4
<1>6. QED
  BY <1>5 DEF e

LEMMA DecimalNumberEnd ==
    ASSUME IsText(source), i \in 1..Len(source),
           At(i) \in Digits \/ (At(i) = "." /\ At(i + 1) \in Digits)
    PROVE  LET whole == IF At(i) = "." THEN i ELSE Grouped(i)
               real == IF At(i) = "." THEN RunEnd(i + 1, Digits) ELSE FractionEnd(whole)
               power == ExponentAt(real)
               powered == power # 0 /\ At(power) \in Digits
           IN  Imaginary(IF powered THEN Grouped(power) ELSE real) \in (i + 1)..(Len(source) + 1)
<1> DEFINE whole == IF At(i) = "." THEN i ELSE Grouped(i)
           real == IF At(i) = "." THEN RunEnd(i + 1, Digits) ELSE FractionEnd(whole)
           power == ExponentAt(real)
           powered == power # 0 /\ At(power) \in Digits
           end == IF powered THEN Grouped(power) ELSE real
           L == Len(source)
<1>1. i \in Nat /\ i >= 1 /\ i <= L /\ L \in Nat /\ i \in 1..(L + 1) /\ i + 1 \in 1..(L + 1)
  BY DEF IsText
<1>2. real \in (i + 1)..(L + 1)
  <2>1. CASE At(i) = "."
    <3>1. RunEnd(i + 1, Digits) \in (i + 1)..(L + 1)
      BY <1>1, RunEndIs, NothingIsNoCharacter
    <3>2. QED
      BY <2>1, <3>1
  <2>2. CASE At(i) # "."
    <3>1. Grouped(i) \in (i + 1)..(L + 1) /\ whole = Grouped(i)
      BY <1>1, <2>2, GroupedIs
    <3> HIDE DEF whole
    <3>2. ASSUME At(whole) = "." PROVE Grouped(whole + 1) \in (whole + 1)..(L + 1)
      <4>1. At(whole) # Nothing
        BY ONLY <3>2, SomeCharacters
      <4>2. whole \in Nat /\ whole >= 1
        BY <1>1, <3>1
      <4>3. whole + 1 \in 1..(L + 1)
        BY <4>1, <4>2, InText1
      <4>4. QED
        BY <4>3, GroupedIs
    <3>3. FractionEnd(whole) \in (i + 1)..(L + 1)
      <4> DEFINE g == Grouped(whole + 1)
      <4>1. At(whole) = "." => g \in (whole + 1)..(L + 1)
        BY <3>2
      <4>2. FractionEnd(whole) = IF At(whole) = "." THEN g ELSE whole
        BY DEF FractionEnd
      <4> HIDE DEF g
      <4>3. QED
        BY <1>1, <3>1, <4>1, <4>2
    <3>4. QED
      BY <2>2, <3>3
  <2>3. QED
    BY <2>1, <2>2
<1> HIDE DEF real
<1>3. end \in (i + 1)..(L + 1)
  <2>1. power = 0 \/ power = real + 1 \/ power = real + 2
    BY DEF ExponentAt
  <2>2. ASSUME powered PROVE Grouped(power) \in (i + 1)..(L + 1)
    <3>1. power \in Nat /\ power >= 1 /\ power > i /\ At(power) # Nothing
      <4>1. At(power) # Nothing
        BY <2>2, NothingIsNoCharacter
      <4>2. power # 0
        BY <2>2
      <4> HIDE DEF power
      <4>3. QED
        BY <1>1, <1>2, <2>1, <4>1, <4>2
    <3>2. power \in 1..(L + 1) /\ Grouped(power) \in power..(L + 1)
      BY <1>1, <3>1, InText1, GroupedIs
    <3>3. QED
      BY <1>1, <3>1, <3>2
  <2>3. QED
    BY <1>2, <2>2
<1> HIDE DEF end
<1>4. Imaginary(end) \in (i + 1)..(L + 1)
  <2>1. end \in Nat /\ end >= 1
    BY <1>1, <1>3
  <2>2. At(end) \in {"j", "J"} => end + 1 \in 1..(L + 1)
    BY <1>1, <2>1, InText1, SomeCharacters
  <2>3. QED
    BY <1>1, <1>3, <2>2 DEF Imaginary
<1>5. QED
  BY <1>4 DEF end, real

LEMMA NameEndIs ==
    ASSUME IsText(source), i \in 1..Len(source), At(i) \in IdStart
    PROVE  NameEnd \in (i + 1)..(Len(source) + 1)
<1>1. i \in 1..(Len(source) + 1) /\ Len(source) \in Nat /\ At(i) \in IdCont
  BY DEF IsText, IdCont
<1>2. NameEnd \in i..(Len(source) + 1) /\ NameEnd > i
  BY <1>1, RunEndIs, NothingIsNoCharacter DEF NameEnd
<1>3. QED
  BY <1>1, <1>2
-----------------------------------------------------------------------------
(* Nesting of a sequence of tokens *)

CountIn(s, n, kind) == Cardinality({k \in 1..n : s[k].kind = kind})

\* s is well nested and not ended, with b blocks and f f-strings open behind it.
NestedSeq(s, b, f) ==
    /\ \E T : s \in Seq(T)
    /\ \A n \in 1..Len(s) :
          /\ CountIn(s, n, "INDENT") - CountIn(s, n, "DEDENT") >= 0
          /\ CountIn(s, n, "FSTART") - CountIn(s, n, "FEND") \in {0, 1}
          /\ s[n].kind = "FMIDDLE" => CountIn(s, n, "FSTART") - CountIn(s, n, "FEND") = 1
          /\ s[n].kind # "ENDMARKER"
    /\ CountIn(s, Len(s), "INDENT") - CountIn(s, Len(s), "DEDENT") = b
    /\ CountIn(s, Len(s), "FSTART") - CountIn(s, Len(s), "FEND") = f

LEMMA CountInIs ==
    ASSUME NEW s, NEW kind
    PROVE  /\ CountIn(s, 0, kind) = 0
           /\ \A n \in Nat : CountIn(s, n, kind) \in Nat
           /\ \A n \in Nat : CountIn(s, n + 1, kind) =
                 CountIn(s, n, kind) + (IF s[n + 1].kind = kind THEN 1 ELSE 0)
<1> DEFINE K(n) == {k \in 1..n : s[k].kind = kind}
<1>1. ASSUME NEW n \in Nat PROVE IsFiniteSet(K(n)) /\ Cardinality(K(n)) \in Nat
  <2>1. IsFiniteSet(1..n) /\ K(n) \in SUBSET (1..n)
    BY FS_Interval
  <2>2. IsFiniteSet(K(n))
    BY <2>1, FS_Subset
  <2>3. QED
    BY <2>2, FS_CardinalityType
<1>2. K(0) = {}
  OBVIOUS
<1>3. ASSUME NEW n \in Nat
      PROVE  Cardinality(K(n + 1)) = Cardinality(K(n)) + (IF s[n + 1].kind = kind THEN 1 ELSE 0)
  <2>1. CASE s[n + 1].kind = kind
    <3>1. K(n + 1) = K(n) \cup {n + 1} /\ n + 1 \notin K(n)
      BY <2>1
    <3> HIDE DEF K
    <3>2. QED
      BY <1>1, <2>1, <3>1, FS_AddElement
  <2>2. CASE s[n + 1].kind # kind
    <3>1. K(n + 1) = K(n)
      BY <2>2
    <3> HIDE DEF K
    <3>2. QED
      BY <1>1, <2>2, <3>1
  <2>3. QED
    BY <2>1, <2>2
<1> HIDE DEF K
<1>4. \A n \in Nat : CountIn(s, n, kind) = Cardinality(K(n))
  BY DEF CountIn, K
<1>5. QED
  BY <1>1, <1>2, <1>3, <1>4, FS_EmptySet

\* A count looks at no more than its prefix.
LEMMA CountInPrefix ==
    ASSUME NEW s, NEW t, NEW n \in Nat, \A k \in 1..n : s[k] = t[k], NEW kind
    PROVE  CountIn(s, n, kind) = CountIn(t, n, kind)
<1>1. {k \in 1..n : s[k].kind = kind} = {k \in 1..n : t[k].kind = kind}
  OBVIOUS
<1>2. QED
  BY <1>1 DEF CountIn

LEMMA NestedEmpty == NestedSeq(<<>>, 0, 0)
<1>1. <<>> \in Seq({}) /\ Len(<<>>) = 0
  BY EmptySeq
<1>2. QED
  BY <1>1, CountInIs DEF NestedSeq

\* One token more, and what it does to the brackets.
LEMMA NestedAppend ==
    ASSUME NEW s, NEW b \in Int, NEW f \in Int, NestedSeq(s, b, f), NEW t, NEW c \in Int, NEW g \in Int,
           c = b + (IF t.kind = "INDENT" THEN 1 ELSE 0) - (IF t.kind = "DEDENT" THEN 1 ELSE 0), c >= 0,
           g = f + (IF t.kind = "FSTART" THEN 1 ELSE 0) - (IF t.kind = "FEND" THEN 1 ELSE 0), g \in {0, 1},
           t.kind = "FMIDDLE" => g = 1, t.kind # "ENDMARKER"
    PROVE  NestedSeq(Append(s, t), c, g)
<1> DEFINE u == Append(s, t)
           L == Len(s)
           I(q, n) == CountIn(q, n, "INDENT")
           D(q, n) == CountIn(q, n, "DEDENT")
           S(q, n) == CountIn(q, n, "FSTART")
           E(q, n) == CountIn(q, n, "FEND")
<1>1. PICK T : s \in Seq(T)
  BY DEF NestedSeq
<1>2. u \in Seq(T \cup {t}) /\ L \in Nat /\ Len(u) = L + 1 /\ u[L + 1] = t
      /\ \A n \in 1..L : u[n] = s[n]
  <2>1. s \in Seq(T \cup {t})
    BY <1>1, SeqMonotonic
  <2>2. QED
    BY <2>1, AppendProperties, LenProperties
<1> HIDE DEF u
<1>3. ASSUME NEW n \in 0..L
      PROVE  /\ I(u, n) = I(s, n) /\ D(u, n) = D(s, n)
             /\ S(u, n) = S(s, n) /\ E(u, n) = E(s, n)
  <2>1. n \in Nat /\ \A k \in 1..n : u[k] = s[k]
    BY <1>2
  <2>2. QED
    BY <2>1, CountInPrefix
<1>4. /\ I(u, L + 1) = I(u, L) + (IF t.kind = "INDENT" THEN 1 ELSE 0)
      /\ D(u, L + 1) = D(u, L) + (IF t.kind = "DEDENT" THEN 1 ELSE 0)
      /\ S(u, L + 1) = S(u, L) + (IF t.kind = "FSTART" THEN 1 ELSE 0)
      /\ E(u, L + 1) = E(u, L) + (IF t.kind = "FEND" THEN 1 ELSE 0)
  <2>1. ASSUME NEW kind
        PROVE  CountIn(u, L + 1, kind) = CountIn(u, L, kind) + (IF t.kind = kind THEN 1 ELSE 0)
    <3>1. L \in Nat /\ u[L + 1] = t
      BY <1>2
    <3> HIDE DEF L
    <3>2. QED
      BY ONLY <3>1, CountInIs
  <2>2. QED
    BY <2>1
<1>5. ASSUME NEW q
      PROVE  I(q, L) \in Nat /\ D(q, L) \in Nat /\ S(q, L) \in Nat /\ E(q, L) \in Nat
  <2>1. L \in Nat
    BY <1>2
  <2> HIDE DEF L
  <2>2. QED
    BY ONLY <2>1, CountInIs
<1>6. /\ I(s, L) - D(s, L) = b /\ S(s, L) - E(s, L) = f
      /\ \A n \in 1..L : /\ I(s, n) - D(s, n) >= 0
                         /\ S(s, n) - E(s, n) \in {0, 1}
                         /\ s[n].kind = "FMIDDLE" => S(s, n) - E(s, n) = 1
                         /\ s[n].kind # "ENDMARKER"
  BY DEF NestedSeq
<1> HIDE DEF I, D, S, E, L
<1>7. I(u, L) = I(s, L) /\ D(u, L) = D(s, L) /\ S(u, L) = S(s, L) /\ E(u, L) = E(s, L)
      /\ I(s, L) \in Nat /\ D(s, L) \in Nat /\ S(s, L) \in Nat /\ E(s, L) \in Nat
  BY <1>2, <1>3, <1>5
<1>8. I(u, L + 1) - D(u, L + 1) = c /\ S(u, L + 1) - E(u, L + 1) = g
  BY <1>4, <1>6, <1>7
<1>9. ASSUME NEW n \in 1..(L + 1)
      PROVE  /\ I(u, n) - D(u, n) >= 0
             /\ S(u, n) - E(u, n) \in {0, 1}
             /\ u[n].kind = "FMIDDLE" => S(u, n) - E(u, n) = 1
             /\ u[n].kind # "ENDMARKER"
  <2>1. CASE n \in 1..L
    <3>1. n \in 0..L
      BY <1>2, <2>1
    <3>2. u[n] = s[n] /\ I(u, n) = I(s, n) /\ D(u, n) = D(s, n) /\ S(u, n) = S(s, n) /\ E(u, n) = E(s, n)
      BY <1>2, <1>3, <2>1, <3>1
    <3>3. QED
      BY <1>6, <2>1, <3>2
  <2>2. CASE n = L + 1
    BY <1>2, <1>8, <2>2
  <2>3. QED
    BY <1>2, <2>1, <2>2
<1>10. NestedSeq(u, c, g)
  BY <1>2, <1>8, <1>9 DEF NestedSeq, I, D, S, E
<1>11. QED
  BY <1>10 DEF u

\* Closing blocks, no more than there are.
LEMMA NestedDedents ==
    ASSUME NEW s, NEW b \in Nat, NEW f \in {0, 1}, NestedSeq(s, b, f), NEW m \in 0..b
    PROVE  NestedSeq(s \o Dedents(m), b - m, f)
<1> DEFINE dedent == Plain("DEDENT")
           Q == {k \in 0..m : NestedSeq(s \o Dedents(k), b - k, f)}
<1>1. PICK T : s \in Seq(T)
  BY DEF NestedSeq
<1> DEFINE U == T \cup {dedent}
<1>2. s \in Seq(U)
  BY <1>1, SeqMonotonic
<1>3. \A k \in Nat : Dedents(k) \in Seq(U) /\ Len(Dedents(k)) = k /\ \A n \in 1..k : Dedents(k)[n] = dedent
  BY DEF Dedents
<1>4. dedent.kind = "DEDENT"
  BY DEF Plain, Token
<1>5. dedent \in U
  OBVIOUS
<1> HIDE DEF dedent, U
<1>6. 0 \in Q
  <2>1. Dedents(0) = <<>>
    BY DEF Dedents
  <2>2. s \o Dedents(0) = s
    BY <1>2, <2>1, ConcatEmptySeq
  <2>3. b - 0 = b /\ 0 \in 0..m
    OBVIOUS
  <2>4. QED
    BY <2>2, <2>3
<1>7. ASSUME NEW k \in 0..m - 1, k \in Q PROVE k + 1 \in Q
  <2>1. k \in Nat /\ k + 1 \in Nat /\ k + 1 \in 0..m /\ b - k \in Int /\ b - (k + 1) \in Int /\ b - (k + 1) >= 0
    OBVIOUS
  <2>2. s \o Dedents(k + 1) = Append(s \o Dedents(k), dedent)
    <3>1. Dedents(k + 1) = Append(Dedents(k), dedent)
      <4> DEFINE d == Dedents(k)
      <4>0. d \in Seq(U) /\ Len(d) = k /\ \A n \in 1..k : d[n] = dedent
        BY <1>3, <2>1
      <4> HIDE DEF d
      <4>1. Append(d, dedent) \in Seq(U) /\ Len(Append(d, dedent)) = k + 1
            /\ \A n \in 1..(k + 1) : Append(d, dedent)[n] = dedent
        BY <1>5, <2>1, <4>0, AppendProperties
      <4>2. Dedents(k + 1) \in Seq(U) /\ Len(Dedents(k + 1)) = k + 1 /\ \A n \in 1..(k + 1) : Dedents(k + 1)[n] = dedent
        BY <1>3, <2>1
      <4>3. Append(d, dedent) = Dedents(k + 1)
        BY <4>1, <4>2, SeqEqual
      <4>4. QED
        BY <4>3 DEF d
    <3>2. Dedents(k) \in Seq(U) /\ <<dedent>> \in Seq(U)
      BY <1>3, <1>5, <2>1
    <3>3. Dedents(k + 1) = Dedents(k) \o <<dedent>>
      BY <1>5, <3>1, <3>2, AppendIsConcat
    <3>4. s \o Dedents(k) \in Seq(U)
      BY <1>2, <3>2, ConcatProperties
    <3>5. Append(s \o Dedents(k), dedent) = (s \o Dedents(k)) \o <<dedent>>
      BY <1>5, <3>4, AppendIsConcat
    <3>6. (s \o Dedents(k)) \o <<dedent>> = s \o (Dedents(k) \o <<dedent>>)
      BY <1>2, <3>2, ConcatAssociative
    <3>7. QED
      BY <3>3, <3>5, <3>6
  <2>3. NestedSeq(s \o Dedents(k), b - k, f)
    BY <1>7
  <2>4. NestedSeq(Append(s \o Dedents(k), dedent), b - (k + 1), f)
    BY <1>4, <2>1, <2>3, NestedAppend
  <2>5. QED
    BY <2>1, <2>2, <2>4
<1>8. m \in Nat /\ \A k \in 0..m - 1 : k \in Q => k + 1 \in Q
  BY <1>7
<1> HIDE DEF Q
<1>9. 0..m \subseteq Q
  BY ONLY <1>6, <1>8, CountUp
<1>10. QED
  BY <1>8, <1>9 DEF Q

\* One token.
LEMMA NestedOne ==
    ASSUME NEW s, NEW b \in Int, NEW f \in Int, NestedSeq(s, b, f), NEW kind, NEW text,
           NEW c \in Int, NEW g \in Int,
           c = b + (IF kind = "INDENT" THEN 1 ELSE 0) - (IF kind = "DEDENT" THEN 1 ELSE 0), c >= 0,
           g = f + (IF kind = "FSTART" THEN 1 ELSE 0) - (IF kind = "FEND" THEN 1 ELSE 0), g \in {0, 1},
           kind = "FMIDDLE" => g = 1, kind # "ENDMARKER"
    PROVE  NestedSeq(s \o <<Token(kind, text)>>, c, g)
<1> DEFINE t == Token(kind, text)
<1>1. t.kind = kind
  BY DEF Token
<1> HIDE DEF t
<1>2. NestedSeq(Append(s, t), c, g)
  BY <1>1, NestedAppend
<1>3. PICK T : s \in Seq(T)
  BY DEF NestedSeq
<1>4. s \in Seq(T \cup {t})
  BY <1>3, SeqMonotonic
<1>5. Append(s, t) = s \o <<t>>
  BY <1>4, AppendIsConcat
<1>6. QED
  BY <1>2, <1>5 DEF t

Brackets == {"INDENT", "DEDENT", "FSTART", "FEND", "FMIDDLE", "ENDMARKER"}

LEMMA NestedQuiet ==
    ASSUME NEW s, NEW b \in Nat, NEW f \in {0, 1}, NestedSeq(s, b, f), NEW kind, kind \notin Brackets, NEW text
    PROVE  NestedSeq(s \o <<Token(kind, text)>>, b, f)
BY NestedOne DEF Brackets

LEMMA NestedNone ==
    ASSUME NEW s, NEW b, NEW f, NestedSeq(s, b, f)
    PROVE  NestedSeq(s \o <<>>, b, f)
<1>1. PICK T : s \in Seq(T)
  BY DEF NestedSeq
<1>2. s \o <<>> = s
  BY <1>1, ConcatEmptySeq
<1>3. QED
  BY <1>2

LEMMA NestedMiddle ==
    ASSUME NEW s, NEW b \in Nat, NestedSeq(s, b, 1)
    PROVE  NestedSeq(s \o Middle, b, 1)
<1>1. NestedSeq(s \o <<Token("FMIDDLE", piece)>>, b, 1)
  BY NestedOne
<1>2. NestedSeq(s \o <<>>, b, 1)
  BY NestedNone
<1>3. Middle = <<>> \/ Middle = <<Token("FMIDDLE", piece)>>
  BY DEF Middle
<1>4. QED
  BY <1>1, <1>2, <1>3

LEMMA MiddleThen ==
    ASSUME NEW s, NEW b, NEW f, NestedSeq(s, b, f), NEW t
    PROVE  s \o (Middle \o <<t>>) = (s \o Middle) \o <<t>>
<1> DEFINE m == Token("FMIDDLE", piece)
<1>1. PICK T : s \in Seq(T)
  BY DEF NestedSeq
<1> DEFINE U == T \cup {m, t}
<1> HIDE DEF m
<1>2. s \in Seq(U)
  BY <1>1, SeqMonotonic
<1>3. <<t>> \in Seq(U) /\ <<m>> \in Seq(U) /\ <<>> \in Seq(U)
  OBVIOUS
<1>4. Middle = <<>> \/ Middle = <<m>>
  BY DEF Middle, m
<1>5. Middle \in Seq(U)
  BY <1>3, <1>4
<1> HIDE DEF U
<1>6. QED
  BY <1>2, <1>3, <1>5, ConcatAssociative

LEMMA NestedIsOpen ==
    ASSUME NEW s, NEW b, NEW f, NestedSeq(s, b, f)
    PROVE  s = <<>> \/ Last(s) # Plain("ENDMARKER")
<1>1. PICK T : s \in Seq(T)
  BY DEF NestedSeq
<1>2. s # <<>> => Len(s) \in 1..Len(s)
  BY <1>1, EmptySeq
<1>3. s # <<>> => s[Len(s)].kind # "ENDMARKER"
  BY <1>2 DEF NestedSeq
<1>4. Plain("ENDMARKER").kind = "ENDMARKER"
  BY DEF Plain, Token
<1>5. QED
  BY <1>3, <1>4 DEF Last
-----------------------------------------------------------------------------
(* The invariant *)

Increasing(ws) == ws[1] = 0 /\ \A k \in 2..Len(ws) : ws[k - 1] < ws[k]

ReadInv ==
    /\ IsText(source)
    /\ i \in 1..(Len(source) + 1) /\ paren \in Nat
    /\ atbol \in BOOLEAN /\ needNl \in BOOLEAN /\ bad \in BOOLEAN
    /\ mode \in {"code", "text", "braces"} /\ (mode # "code" => quote.len \in {1, 3})
    /\ indents \in Seq(Nat) /\ Len(indents) >= 1 /\ Increasing(indents)

Strings(m) == IF m = "code" THEN 0 ELSE 1
Closed == /\ \E s : tokens = Append(s, Plain("ENDMARKER")) /\ NestedSeq(s, 0, 0)
          /\ mode = "code" /\ paren = 0 /\ needNl = FALSE /\ Len(indents) = 1
Open == NestedSeq(tokens, Len(indents) - 1, Strings(mode))
NestInv == IF Ended /\ ~bad THEN Closed ELSE Open

LexInv == ReadInv /\ NestInv

\* What a turn does to the position.
ReadsOn ==
    /\ source' = source
    /\ \/ Ended'
       \/ i' > i
       \/ i' >= i /\ atbol /\ ~atbol'

Good == ReadInv' /\ NestInv' /\ ReadsOn

LEMMA SyntaxErrorGood ==
    ASSUME LexInv, ~Ended, SyntaxError
    PROVE  Good
<1>1. Open
  BY DEF LexInv, NestInv
<1>2. bad' /\ Open' /\ source' = source /\ bad' \in BOOLEAN
  BY <1>1 DEF SyntaxError, Open
<1>3. Ended'
  BY <1>2 DEF Ended
<1>4. ReadInv'
  BY <1>2 DEF LexInv, ReadInv, SyntaxError
<1>5. QED
  BY <1>2, <1>3, <1>4 DEF Good, NestInv, ReadsOn

\* A turn that emits ts and goes on at j.
LEMMA EmitGood ==
    ASSUME LexInv, ~Ended, NEW ts, NEW j \in (i + 1)..(Len(source) + 1), Emit(ts, j),
           paren' \in Nat, atbol' \in BOOLEAN, needNl' \in BOOLEAN,
           mode' \in {"code", "text", "braces"}, mode' # "code" => quote'.len \in {1, 3},
           NestedSeq(tokens \o ts, Len(indents) - 1, Strings(mode'))
    PROVE  Good
<1>1. /\ tokens' = tokens \o ts /\ i' = j /\ source' = source /\ indents' = indents /\ bad' = bad
      /\ Len(source) \in Nat /\ i \in Nat
  BY DEF Emit, LexInv, ReadInv, IsText
<1>2. bad = FALSE /\ bad' = FALSE
  BY <1>1 DEF LexInv, ReadInv, Ended
<1>3. ReadInv'
  BY <1>1, <1>2 DEF LexInv, ReadInv
<1>4. Open'
  BY <1>1 DEF Open
<1>5. ~Ended'
  BY <1>2, <1>4, NestedIsOpen DEF Ended, Open
<1>6. i' > i
  BY <1>1
<1>7. QED
  BY <1>1, <1>3, <1>4, <1>5, <1>6 DEF Good, NestInv, ReadsOn

\* Without a token, or with one that is no bracket.
LEMMA EmitQuietGood ==
    ASSUME LexInv, ~Ended, NEW ts, NEW j \in (i + 1)..(Len(source) + 1), Emit(ts, j),
           ts = <<>> \/ \E kind, text : kind \notin Brackets /\ ts = <<Token(kind, text)>>,
           paren' \in Nat, atbol' \in BOOLEAN, needNl' \in BOOLEAN,
           mode' \in {"code", "text", "braces"}, mode' # "code" => quote'.len \in {1, 3},
           mode' = "code" <=> mode = "code"
    PROVE  Good
<1>1. Open /\ Len(indents) - 1 \in Nat /\ Strings(mode') = Strings(mode) /\ Strings(mode) \in {0, 1}
  BY DEF LexInv, NestInv, ReadInv, Strings
<1>2. NestedSeq(tokens \o ts, Len(indents) - 1, Strings(mode'))
  BY <1>1, NestedNone, NestedQuiet DEF Open
<1>3. QED
  BY <1>2, EmitGood
\* What holds before a turn: nothing is closed yet, and there is text.
Turn == LexInv /\ ~Ended

LEMMA TurnIs ==
    ASSUME Turn
    PROVE  /\ IsText(source) /\ Len(source) \in Nat /\ i \in Nat /\ i >= 1 /\ i <= Len(source) + 1
           /\ paren \in Nat /\ atbol \in BOOLEAN /\ needNl \in BOOLEAN /\ bad = FALSE
           /\ mode \in {"code", "text", "braces"} /\ (mode # "code" => quote.len \in {1, 3})
           /\ indents \in Seq(Nat) /\ Len(indents) \in Nat /\ Len(indents) - 1 \in Nat
           /\ Strings(mode) \in {0, 1}
           /\ NestedSeq(tokens, Len(indents) - 1, Strings(mode))
BY DEF Turn, LexInv, ReadInv, NestInv, Open, Ended, IsText, Strings
-----------------------------------------------------------------------------
(* The text of an f-string *)

\* Inside the text: at a character, and in one f-string.
LEMMA InTextIs ==
    ASSUME Turn, InText
    PROVE  /\ i \in 1..Len(source) /\ i + 1 \in (i + 1)..(Len(source) + 1)
           /\ Strings("text") = 1 /\ Strings("braces") = 1 /\ Strings("code") = 0
           /\ mode = "text" /\ quote.len \in {1, 3}
           /\ NestedSeq(tokens, Len(indents) - 1, 1)
<1>1. mode = "text" /\ i <= Len(source)
  BY DEF InText
<1>2. QED
  BY <1>1, TurnIs DEF Strings

LEMMA CloseTextGood ==
    ASSUME Turn, CloseText
    PROVE  Good
<1> DEFINE t == Token("FEND", Text(i, i + quote.len))
           b == Len(indents) - 1
<1>1. InText /\ Emit(Middle \o <<t>>, i + quote.len) /\ mode' = "code" /\ needNl' = TRUE
      /\ paren' = paren /\ atbol' = atbol /\ Closes
  BY DEF CloseText
<1>2. NestedSeq(tokens, b, 1) /\ b \in Nat /\ i \in 1..Len(source) /\ quote.len \in {1, 3}
  BY <1>1, InTextIs, TurnIs
<1>3. NestedSeq((tokens \o Middle) \o <<t>>, b, 0)
  <2>1. NestedSeq(tokens \o Middle, b, 1)
    BY <1>2, NestedMiddle
  <2> HIDE DEF b
  <2>2. QED
    BY <1>2, <2>1, NestedOne
<1>4. NestedSeq(tokens \o (Middle \o <<t>>), b, Strings("code"))
  BY <1>2, <1>3, MiddleThen DEF Strings
<1>5. i + quote.len \in (i + 1)..(Len(source) + 1)
  BY <1>1, <1>2, TripledIs, TurnIs DEF Closes
<1> HIDE DEF t, b
<1>6. QED
  <2>1. paren' \in Nat /\ atbol' \in BOOLEAN /\ needNl' \in BOOLEAN /\ mode' = "code"
    BY <1>1, TurnIs
  <2>2. NestedSeq(tokens \o (Middle \o <<t>>), Len(indents) - 1, Strings(mode'))
    BY <1>1, <1>4 DEF b
  <2>3. QED
    BY <1>1, <1>5, <2>1, <2>2, EmitGood DEF Turn

LEMMA DoubledBraceGood ==
    ASSUME Turn, DoubledBrace
    PROVE  Good
<1> DEFINE ts == <<Token("FMIDDLE", Longer)>>
<1>1. InText /\ Doubled /\ Emit(ts, i + 2) /\ mode' = mode
      /\ paren' = paren /\ atbol' = atbol /\ needNl' = needNl
  BY DEF DoubledBrace
<1>2. NestedSeq(tokens, Len(indents) - 1, 1) /\ Len(indents) - 1 \in Nat
  BY <1>1, InTextIs, TurnIs
<1>3. NestedSeq(tokens \o ts, Len(indents) - 1, 1)
  <2> DEFINE b == Len(indents) - 1
  <2>1. NestedSeq(tokens, b, 1) /\ b \in Nat
    BY <1>2
  <2> HIDE DEF b
  <2>2. NestedSeq(tokens \o ts, b, 1)
    BY <2>1, NestedOne
  <2>3. QED
    BY <2>2 DEF b
<1>4. i + 2 \in (i + 1)..(Len(source) + 1)
  <2>1. At(i) # Nothing /\ At(i + 1) # Nothing
    BY <1>1, SomeCharacters DEF Doubled
  <2>2. QED
    BY <2>1, TurnIs, InText1
<1> HIDE DEF ts
<1>5. mode' = "text" /\ Strings(mode') = 1 /\ quote' = quote /\ quote'.len \in {1, 3}
  BY <1>1, InTextIs DEF DoubledBrace
<1>6. QED
  <2>1. paren' \in Nat /\ atbol' \in BOOLEAN /\ needNl' \in BOOLEAN
    BY <1>1, TurnIs
  <2>2. QED
    BY <1>1, <1>3, <1>4, <1>5, <2>1, EmitGood DEF Turn

LEMMA OpenBracesGood ==
    ASSUME Turn, OpenBraces
    PROVE  Good
<1> DEFINE t == Token("OP", "{")
           b == Len(indents) - 1
<1>1. InText /\ Emit(Middle \o <<t>>, i + 1) /\ mode' = "braces" /\ needNl' = TRUE
      /\ paren' = paren + 1 /\ atbol' = atbol /\ quote' = quote
  BY DEF OpenBraces
<1>2. NestedSeq(tokens, b, 1) /\ b \in Nat
  BY <1>1, InTextIs, TurnIs
<1>3. NestedSeq((tokens \o Middle) \o <<t>>, b, 1)
  <2>1. NestedSeq(tokens \o Middle, b, 1)
    BY <1>2, NestedMiddle
  <2> HIDE DEF b
  <2>2. QED
    BY <1>2, <2>1, NestedQuiet DEF Brackets
<1>4. NestedSeq(tokens \o (Middle \o <<t>>), b, Strings("braces"))
  BY <1>2, <1>3, MiddleThen DEF Strings
<1>5. i + 1 \in (i + 1)..(Len(source) + 1)
  BY <1>1, InTextIs
<1> HIDE DEF t, b
<1>6. QED
  <2>1. paren' \in Nat /\ atbol' \in BOOLEAN /\ needNl' \in BOOLEAN /\ mode' = "braces" /\ quote'.len \in {1, 3}
    BY <1>1, InTextIs, TurnIs
  <2>2. NestedSeq(tokens \o (Middle \o <<t>>), Len(indents) - 1, Strings(mode'))
    BY <1>1, <1>4 DEF b
  <2>3. QED
    BY <1>1, <1>5, <2>1, <2>2, EmitGood DEF Turn

LEMMA TextCharGood ==
    ASSUME Turn, TextChar
    PROVE  Good
<1>1. InText /\ Emit(<<>>, i + 1) /\ mode' = mode /\ quote' = quote
      /\ paren' = paren /\ atbol' = atbol /\ needNl' = needNl
  BY DEF TextChar, Skip
<1>2. i + 1 \in (i + 1)..(Len(source) + 1)
  BY <1>1, InTextIs
<1>3. /\ paren' \in Nat /\ atbol' \in BOOLEAN /\ needNl' \in BOOLEAN
      /\ mode' \in {"code", "text", "braces"} /\ (mode' # "code" => quote'.len \in {1, 3})
  BY <1>1, TurnIs
<1>4. QED
  BY <1>1, <1>2, <1>3, EmitQuietGood DEF Turn-----------------------------------------------------------------------------
(* The rest of a line *)

LEMMA InLineIs ==
    ASSUME Turn, mode # "text", i <= Len(source)
    PROVE  /\ i \in 1..Len(source) /\ i + 1 \in (i + 1)..(Len(source) + 1)
           /\ mode \in {"code", "braces"}
BY TurnIs

LEMMA BlankGood ==
    ASSUME Turn, Blank
    PROVE  Good
<1>1. Emit(<<>>, i + 1) /\ mode' = mode /\ quote' = quote
      /\ paren' = paren /\ atbol' = atbol /\ needNl' = needNl
  BY DEF Blank, Skip
<1>2. i + 1 \in (i + 1)..(Len(source) + 1)
  BY InLineIs DEF Blank, InLine
<1>3. /\ paren' \in Nat /\ atbol' \in BOOLEAN /\ needNl' \in BOOLEAN
      /\ mode' \in {"code", "text", "braces"} /\ (mode' # "code" => quote'.len \in {1, 3})
  BY <1>1, TurnIs
<1>4. QED
  BY <1>1, <1>2, <1>3, EmitQuietGood DEF Turn

LEMMA CommentGood ==
    ASSUME Turn, Comment
    PROVE  Good
<1> DEFINE L == Len(source)
           P(k) == At(k) \in {"\n", Nothing} /\ \A m \in i..(k - 1) : At(m) # "\n"
           end == CHOOSE k \in i..(L + 1) : P(k)
<1>1. Emit(<<>>, end) /\ mode' = mode /\ quote' = quote
      /\ paren' = paren /\ atbol' = atbol /\ needNl' = needNl
  BY DEF Comment, Skip
<1>2. L \in Nat /\ i \in 1..L /\ i \in Nat /\ IsText(source)
  BY InLineIs, TurnIs DEF Comment, InLine
<1>3. \E k \in i..(L + 1) : P(k)
  <2> DEFINE T == {k \in i..(L + 1) : At(k) \in {"\n", Nothing}}
  <2>1. At(L + 1) = Nothing
    BY <1>2, AtPastEnd
  <2>2. T \subseteq Nat /\ T # {}
    BY <1>2, <2>1
  <2>3. PICK k \in T : \A m \in T : k <= m
    BY <2>2, LeastNumber
  <2>4. P(k) /\ k \in i..(L + 1)
    BY <1>2, <2>3
  <2>5. QED
    BY <2>4
<1> HIDE DEF P
<1>4. end \in i..(L + 1) /\ P(end)
  BY <1>3
<1> HIDE DEF end
<1>5. end # i
  <2>1. At(i) = "#" /\ At(i) # "\n" /\ At(i) # Nothing
    BY SomeCharacters DEF Comment, InLine
  <2>2. QED
    BY <1>4, <2>1 DEF P
<1>6. end \in (i + 1)..(L + 1)
  BY <1>2, <1>4, <1>5
<1>7. /\ paren' \in Nat /\ atbol' \in BOOLEAN /\ needNl' \in BOOLEAN
      /\ mode' \in {"code", "text", "braces"} /\ (mode' # "code" => quote'.len \in {1, 3})
  BY <1>1, TurnIs
<1>8. QED
  BY <1>1, <1>6, <1>7, EmitQuietGood DEF Turn

LEMMA NewlineGood ==
    ASSUME Turn, Newline
    PROVE  Good
<1> DEFINE ts == IF paren = 0 /\ needNl THEN <<Plain("NEWLINE")>> ELSE <<>>
<1>1. Emit(ts, i + 1) /\ mode' = mode /\ quote' = quote
      /\ paren' = paren /\ atbol' = TRUE /\ needNl' = (needNl /\ paren > 0)
  BY DEF Newline
<1>2. i + 1 \in (i + 1)..(Len(source) + 1)
  BY InLineIs DEF Newline, InLine
<1>3. /\ paren' \in Nat /\ atbol' \in BOOLEAN /\ needNl' \in BOOLEAN
      /\ mode' \in {"code", "text", "braces"} /\ (mode' # "code" => quote'.len \in {1, 3})
  <2>1. /\ paren' \in Nat /\ atbol' \in BOOLEAN
        /\ mode' \in {"code", "text", "braces"} /\ (mode' # "code" => quote'.len \in {1, 3})
    BY <1>1, TurnIs
  <2>2. needNl' \in BOOLEAN
    BY <1>1
  <2>3. QED
    BY <2>1, <2>2
<1>4. ts = <<>> \/ \E kind, text : kind \notin Brackets /\ ts = <<Token(kind, text)>>
  BY DEF Plain, Brackets
<1> HIDE DEF ts
<1>5. QED
  BY <1>1, <1>2, <1>3, <1>4, EmitQuietGood DEF Turn

LEMMA ContinuationGood ==
    ASSUME Turn, Continuation
    PROVE  Good
<1>1. CASE At(i + 1) # "\n"
  BY <1>1, SyntaxErrorGood DEF Continuation, Turn
<1>2. CASE At(i + 1) = "\n"
  <2>1. Emit(<<>>, i + 2) /\ mode' = mode /\ quote' = quote
        /\ paren' = paren /\ atbol' = FALSE /\ needNl' = needNl
    BY <1>2 DEF Continuation, Skip
  <2>2. At(i + 1) # Nothing
    BY ONLY <1>2, SomeCharacters
  <2>3. i + 2 \in (i + 1)..(Len(source) + 1)
    BY <2>2, TurnIs, InText1
  <2>4. /\ paren' \in Nat /\ atbol' \in BOOLEAN /\ needNl' \in BOOLEAN
        /\ mode' \in {"code", "text", "braces"} /\ (mode' # "code" => quote'.len \in {1, 3})
    BY <2>1, TurnIs
  <2>5. QED
    BY <2>1, <2>3, <2>4, EmitQuietGood DEF Turn
<1>3. QED
  BY <1>1, <1>2

\* One token of a kind that is no bracket.
LEMMA LiteralGood ==
    ASSUME Turn, NEW kind, kind \notin Brackets, NEW ok, NEW end, Literal(kind, ok, end),
           ok => end \in (i + 1)..(Len(source) + 1)
    PROVE  Good
<1>1. CASE ~ok
  BY <1>1, SyntaxErrorGood DEF Literal, Turn
<1>2. CASE ok
  <2> DEFINE ts == <<Token(kind, Text(i, end))>>
  <2>1. Emit(ts, end) /\ mode' = mode /\ quote' = quote
        /\ paren' = paren /\ atbol' = atbol /\ needNl' = TRUE
    BY <1>2 DEF Literal
  <2>2. end \in (i + 1)..(Len(source) + 1)
    BY <1>2
  <2>3. /\ paren' \in Nat /\ atbol' \in BOOLEAN /\ needNl' \in BOOLEAN
        /\ mode' \in {"code", "text", "braces"} /\ (mode' # "code" => quote'.len \in {1, 3})
    BY <2>1, TurnIs
  <2>4. \E k, text : k \notin Brackets /\ ts = <<Token(k, text)>>
    OBVIOUS
  <2> HIDE DEF ts
  <2>5. QED
    BY <2>1, <2>2, <2>3, <2>4, EmitQuietGood DEF Turn
<1>3. QED
  BY <1>1, <1>2

LEMMA StringGood ==
    ASSUME Turn, String
    PROVE  Good
<1>1. i \in 1..Len(source) /\ IsText(source)
  BY InLineIs, TurnIs DEF String, InLine
<1>2. StringEnd(i) # 0 => StringEnd(i) \in (i + 1)..(Len(source) + 1)
  BY <1>1, StringEndIs
<1>3. Literal("STRING", StringEnd(i) # 0, StringEnd(i))
  BY DEF String
<1>4. "STRING" \notin Brackets
  BY DEF Brackets
<1>5. QED
  BY <1>2, <1>3, <1>4, LiteralGood

LEMMA NumberGood ==
    ASSUME Turn, Number
    PROVE  Good
<1>1. i \in 1..Len(source) /\ IsText(source)
  BY InLineIs, TurnIs DEF Number, InLine
<1>2. "NUMBER" \notin Brackets
  BY DEF Brackets
<1>3. CASE At(i) = "0" /\ PrefixDigits(At(i + 1)) # {}
  <2> DEFINE digits == PrefixDigits(At(i + 1))
             end == RunEnd(i + 2, digits \cup {"_"})
             ok == At(end - 1) # "_" /\ \E m \in (i + 2)..(end - 1) : At(m) \in digits
  <2>1. Literal("NUMBER", ok, end)
    BY <1>3 DEF Number, PrefixedNumber
  <2>2. end \in (i + 1)..(Len(source) + 1)
    BY <1>1, <1>3, PrefixedNumberEnd
  <2> HIDE DEF ok, end
  <2>3. QED
    BY <1>2, <2>1, <2>2, LiteralGood
<1>4. CASE ~(At(i) = "0" /\ PrefixDigits(At(i + 1)) # {})
  <2> DEFINE whole == IF At(i) = "." THEN i ELSE Grouped(i)
             real == IF At(i) = "." THEN RunEnd(i + 1, Digits) ELSE FractionEnd(whole)
             power == ExponentAt(real)
             powered == power # 0 /\ At(power) \in Digits
             end == Imaginary(IF powered THEN Grouped(power) ELSE real)
             ok == /\ At(i) # "." => GroupsOk(i) /\ (At(whole) = "." => GroupsOk(whole + 1))
                   /\ powered => GroupsOk(power)
                   /\ power = real + 2 => powered
  <2>1. Literal("NUMBER", ok, end)
    BY <1>4 DEF Number, DecimalNumber
  <2>2. At(i) \in Digits \/ (At(i) = "." /\ At(i + 1) \in Digits)
    BY DEF Number, InLine
  <2>3. end \in (i + 1)..(Len(source) + 1)
    BY <1>1, <2>2, DecimalNumberEnd
  <2> HIDE DEF ok, end
  <2>4. QED
    BY <1>2, <2>1, <2>3, LiteralGood
<1>5. QED
  BY <1>3, <1>4

LEMMA NameGood ==
    ASSUME Turn, Name
    PROVE  Good
<1>1. i \in 1..Len(source) /\ IsText(source) /\ At(i) \in IdStart
  BY InLineIs, TurnIs DEF Name, InLine
<1>2. NameEnd \in (i + 1)..(Len(source) + 1)
  BY <1>1, NameEndIs
<1>3. Literal("NAME", TRUE, NameEnd) /\ "NAME" \notin Brackets
  BY DEF Name, Brackets
<1>4. QED
  BY <1>2, <1>3, LiteralGood

\* A name that a quote follows ends before the end of the text.
LEMMA OpensStringIs ==
    ASSUME Turn, InLine(IdStart), OpensString
    PROVE  /\ NameEnd \in 1..Len(source) /\ NameEnd \in (i + 1)..(Len(source) + 1)
           /\ IsText(source) /\ i \in 1..Len(source)
<1>1. i \in 1..Len(source) /\ IsText(source) /\ At(i) \in IdStart
  BY InLineIs, TurnIs DEF InLine
<1>2. NameEnd \in (i + 1)..(Len(source) + 1) /\ i \in Nat
  BY <1>1, NameEndIs, TurnIs
<1>3. At(NameEnd) # Nothing
  BY NothingIsNoCharacter DEF OpensString
<1>4. NameEnd \in Nat /\ NameEnd >= 1
  BY <1>2, TurnIs
<1>5. NameEnd \in 1..Len(source)
  BY <1>1, <1>3, <1>4, InText1
<1>6. QED
  BY <1>1, <1>2, <1>5

LEMMA PrefixedStringGood ==
    ASSUME Turn, PrefixedString
    PROVE  Good
<1> DEFINE end == StringEnd(NameEnd)
<1>1. NameEnd \in 1..Len(source) /\ NameEnd \in (i + 1)..(Len(source) + 1) /\ IsText(source) /\ i \in Nat
      /\ Len(source) \in Nat
  BY OpensStringIs, TurnIs DEF PrefixedString
<1>2. end = 0 \/ end \in (NameEnd + 1)..(Len(source) + 1)
  BY <1>1, StringEndIs
<1>3. Literal("STRING", StringPrefix /\ end # 0, end) /\ "STRING" \notin Brackets
  BY DEF PrefixedString, Brackets
<1> HIDE DEF end
<1>4. end # 0 => end \in (i + 1)..(Len(source) + 1)
  BY <1>1, <1>2
<1> DEFINE ok == StringPrefix /\ end # 0
<1>5. ok => end \in (i + 1)..(Len(source) + 1)
  BY <1>4
<1> HIDE DEF ok
<1>6. Literal("STRING", ok, end)
  BY <1>3 DEF ok
<1>7. QED
  BY <1>3, <1>5, <1>6, LiteralGood

LEMMA FStringGood ==
    ASSUME Turn, FString
    PROVE  Good
<1>1. CASE PrefixHas("tTbBuU") \/ mode = "braces"
  BY <1>1, SyntaxErrorGood DEF FString, Turn
<1>2. CASE ~(PrefixHas("tTbBuU") \/ mode = "braces")
  <2> DEFINE end == NameEnd + QuoteLen(NameEnd)
             ts == <<Token("FSTART", Text(i, end))>>
             b == Len(indents) - 1
  <2>1. Emit(ts, end) /\ mode' = "text" /\ needNl' = TRUE /\ quote'.len = QuoteLen(NameEnd)
        /\ paren' = paren /\ atbol' = atbol
    BY <1>2 DEF FString
  <2>2. NameEnd \in 1..Len(source) /\ NameEnd \in (i + 1)..(Len(source) + 1) /\ IsText(source) /\ i \in Nat
        /\ Len(source) \in Nat
    BY OpensStringIs, TurnIs DEF FString
  <2>3. QuoteLen(NameEnd) \in {1, 3} /\ end \in (NameEnd + 1)..(Len(source) + 1)
    BY <2>2, QuoteLenIs
  <2>4. mode = "code"
    BY <1>2, TurnIs DEF FString, InLine
  <2>5. NestedSeq(tokens, b, 0) /\ b \in Nat
    BY <2>4, TurnIs DEF Strings
  <2> HIDE DEF b
  <2>6. NestedSeq(tokens \o ts, b, 1)
    BY <2>5, NestedOne
  <2>7. NestedSeq(tokens \o ts, Len(indents) - 1, Strings(mode'))
    BY <2>1, <2>6 DEF b, Strings
  <2> HIDE DEF ts
  <2>8. quote'.len \in {1, 3} /\ mode' \in {"code", "text", "braces"}
    BY <2>1, <2>3
  <2> HIDE DEF end
  <2>9. end \in (i + 1)..(Len(source) + 1)
    BY <2>2, <2>3
  <2>10. paren' \in Nat /\ atbol' \in BOOLEAN /\ needNl' \in BOOLEAN
    BY <2>1, TurnIs
  <2>11. QED
    BY <2>1, <2>7, <2>8, <2>9, <2>10, EmitGood DEF Turn
<1>3. QED
  BY <1>1, <1>2

LEMMA OperatorGood ==
    ASSUME Turn, Operator
    PROVE  Good
<1> DEFINE ts == <<Token("OP", OpText)>>
           n == i + OpLen
           closes == mode = "braces" /\ OpText = "}" /\ Depth = quote.depth
<1>1. Emit(ts, n) /\ paren' = Depth /\ needNl' = TRUE /\ atbol' = atbol /\ quote' = quote
      /\ mode' = (IF closes THEN "text" ELSE mode) /\ mode # "text" /\ i <= Len(source)
  BY Zenon DEF Operator
<1>2. i \in 1..Len(source) /\ Len(source) \in Nat /\ i \in Nat
  BY <1>1, InLineIs, TurnIs
<1>3. n \in (i + 1)..(Len(source) + 1)
  BY <1>2 DEF OpLen
<1>4. Depth \in Nat
  <2>1. paren \in Nat
    BY TurnIs
  <2> DEFINE opens == OpText \in {"(", "[", "{"}
             ends == OpText \in {")", "]", "}"}
  <2>2. Depth = IF opens THEN paren + 1 ELSE IF ends /\ paren > 0 THEN paren - 1 ELSE paren
    BY DEF Depth
  <2> HIDE DEF opens, ends
  <2>3. QED
    BY <2>1, <2>2
<1>5. \E k, text : k \notin Brackets /\ ts = <<Token(k, text)>>
  BY DEF Brackets
<1>6. closes => mode = "braces"
  OBVIOUS
<1> HIDE DEF ts, n, closes
<1>7. /\ mode' \in {"code", "text", "braces"} /\ (mode' = "code" <=> mode = "code")
      /\ (mode' # "code" => quote'.len \in {1, 3})
  BY <1>1, <1>6, TurnIs
<1>8. paren' \in Nat /\ atbol' \in BOOLEAN /\ needNl' \in BOOLEAN
  BY <1>1, <1>4, TurnIs
<1>9. QED
  BY <1>1, <1>3, <1>5, <1>7, <1>8, EmitQuietGood DEF Turn-----------------------------------------------------------------------------
(* The beginning of a line and the end of the text *)

LEMMA LastOfAppend ==
    ASSUME NEW s, NEW T, s \in Seq(T), NEW t
    PROVE  /\ Append(s, t) # <<>> /\ Last(Append(s, t)) = t /\ s \o <<t>> = Append(s, t)
           /\ Len(Append(s, t)) = Len(s) + 1 /\ Append(s, t)[Len(s) + 1] = t
           /\ \A k \in 1..Len(s) : Append(s, t)[k] = s[k]
<1> DEFINE U == T \cup {t}
<1>1. s \in Seq(U) /\ t \in U
  BY SeqMonotonic
<1> HIDE DEF U
<1>2. Append(s, t) \in Seq(U) /\ Len(Append(s, t)) = Len(s) + 1 /\ Append(s, t)[Len(s) + 1] = t
      /\ \A k \in 1..Len(s) : Append(s, t)[k] = s[k]
  BY <1>1, AppendProperties
<1>3. Len(s) \in Nat
  BY <1>1, LenProperties
<1>4. s \o <<t>> = Append(s, t)
  BY <1>1, AppendIsConcat
<1>5. Append(s, t) # <<>>
  BY <1>1, <1>2, <1>3, EmptySeq
<1>6. QED
  BY <1>2, <1>3, <1>4, <1>5 DEF Last

LEMMA EndOfInputGood ==
    ASSUME Turn, EndOfInput
    PROVE  Good
<1>1. CASE mode # "code" \/ paren > 0
  BY <1>1, SyntaxErrorGood DEF EndOfInput, Turn
<1>2. CASE ~(mode # "code" \/ paren > 0)
  <2> DEFINE nl == IF needNl THEN <<Plain("NEWLINE")>> ELSE <<>>
             b == Len(indents) - 1
             s == tokens \o nl \o Dedents(b)
             em == Plain("ENDMARKER")
  <2>1. /\ tokens' = s \o <<em>> /\ needNl' = FALSE /\ indents' = <<0>>
        /\ source' = source /\ i' = i /\ paren' = paren /\ atbol' = atbol /\ mode' = mode
        /\ quote' = quote /\ bad' = bad
    BY <1>2 DEF EndOfInput
  <2>2. mode = "code" /\ paren = 0
    BY <1>2, TurnIs
  <2>3. NestedSeq(tokens, b, 0) /\ b \in Nat
    BY <2>2, TurnIs DEF Strings
  <2> HIDE DEF b
  <2>4. NestedSeq(tokens \o nl, b, 0)
    <3>1. NestedSeq(tokens \o <<Plain("NEWLINE")>>, b, 0)
      BY <2>3, NestedQuiet DEF Plain, Brackets
    <3>2. NestedSeq(tokens \o <<>>, b, 0)
      BY <2>3, NestedNone
    <3>3. QED
      BY <3>1, <3>2
  <2>5. NestedSeq(s, 0, 0)
    <3> HIDE DEF nl
    <3>1. b \in 0..b /\ b - b = 0
      BY <2>3
    <3>2. NestedSeq((tokens \o nl) \o Dedents(b), b - b, 0)
      BY <2>3, <2>4, <3>1, NestedDedents
    <3>3. QED
      BY <3>1, <3>2
  <2> HIDE DEF s, em
  <2>6. PICK T : s \in Seq(T)
    BY <2>5 DEF NestedSeq
  <2>7. tokens' = Append(s, em) /\ tokens' # <<>> /\ Last(tokens') = em
    <3>1. s \o <<em>> = Append(s, em) /\ Append(s, em) # <<>> /\ Last(Append(s, em)) = em
      BY ONLY <2>6, LastOfAppend
    <3>2. tokens' = s \o <<em>>
      BY <2>1
    <3>3. tokens' = Append(s, em)
      BY ONLY <3>1, <3>2
    <3>4. QED
      BY ONLY <3>1, <3>3
  <2>8. Ended'
    BY <2>7 DEF Ended, em
  <2>9. Closed'
    <3>1. Len(indents') = 1
      BY <2>1
    <3>2. QED
      BY <2>1, <2>2, <2>5, <2>7, <3>1 DEF Closed, em
  <2>10. bad' = FALSE
    BY <2>1, TurnIs
  <2>11. ReadInv'
    <3>1. indents' \in Seq(Nat) /\ Len(indents') >= 1
      BY <2>1
    <3>2. Increasing(indents')
      <4>1. indents'[1] = 0 /\ Len(indents') = 1
        BY <2>1
      <4>2. QED
        BY <4>1 DEF Increasing
    <3>3. QED
      BY <2>1, <2>2, <2>10, <3>1, <3>2 DEF Turn, LexInv, ReadInv
  <2>12. QED
    BY <2>1, <2>8, <2>9, <2>10, <2>11 DEF Good, NestInv, ReadsOn
<1>3. QED
  BY <1>1, <1>2

\* The widths of the open blocks after the indentation of a line is read.
Levels == IF BlankLine \/ paren > 0 THEN indents
          ELSE IF Width > Last(indents) THEN Append(indents, Width)
          ELSE SubSeq(indents, 1, OpenBlocks)

LEMMA OpenBlocksIs ==
    ASSUME Turn, Width \in Nat
    PROVE  OpenBlocks \in 1..Len(indents)
<1> DEFINE K == {k \in DOMAIN indents : k = 1 \/ indents[k] <= Width}
<1>1. indents \in Seq(Nat) /\ Len(indents) \in Nat /\ Len(indents) >= 1
  BY TurnIs
<1>2. DOMAIN indents = 1..Len(indents)
  BY <1>1
<1>3. 1 \in K /\ K \subseteq 1..Len(indents) /\ K \subseteq Nat
  BY <1>1, <1>2
<1>4. K \subseteq 0..Len(indents) /\ K # {}
  BY <1>1, <1>3
<1> HIDE DEF K
<1>5. Max(K) \in K
  BY <1>1, <1>4, MaxIs
<1>6. QED
  BY <1>3, <1>5 DEF OpenBlocks, K

\* They stay in order, and are one more at most.
LEMMA LevelsIs ==
    ASSUME Turn, Width \in Nat
    PROVE  /\ Levels \in Seq(Nat) /\ Len(Levels) \in 1..(Len(indents) + 1) /\ Increasing(Levels)
           /\ Len(Levels) > Len(indents) => Len(Levels) = Len(indents) + 1
<1>1. indents \in Seq(Nat) /\ Len(indents) \in Nat /\ Len(indents) >= 1 /\ Increasing(indents)
  BY TurnIs DEF Turn, LexInv, ReadInv
<1>2. CASE Levels = indents
  BY <1>1, <1>2
<1>3. CASE Levels = Append(indents, Width) /\ Width > Last(indents)
  <2> DEFINE u == Append(indents, Width)
             L == Len(indents)
  <2>1. u \in Seq(Nat) /\ Len(u) = L + 1 /\ u[L + 1] = Width /\ \A k \in 1..L : u[k] = indents[k]
    BY <1>1, AppendProperties
  <2>2. Last(indents) = indents[L]
    BY DEF Last
  <2> HIDE DEF u, L
  <2>3. L \in Nat /\ L >= 1 /\ indents[L] < Width
    BY <1>1, <1>3, <2>2 DEF L
  <2>4. \A k \in 2..L : indents[k - 1] < indents[k]
    BY <1>1 DEF Increasing, L
  <2>5. ASSUME NEW k \in 2..(L + 1) PROVE u[k - 1] < u[k]
    <3>1. CASE k = L + 1
      BY <2>1, <2>3, <3>1
    <3>2. CASE k # L + 1
      <4>1. k \in 2..L /\ k \in 1..L /\ k - 1 \in 1..L
        BY <2>3, <3>2
      <4>2. QED
        BY <2>1, <2>4, <4>1
    <3>3. QED
      BY <3>1, <3>2
  <2>6. u[1] = 0
    BY <1>1, <2>1, <2>3 DEF Increasing
  <2>7. Increasing(u)
    BY <2>1, <2>5, <2>6 DEF Increasing
  <2>8. QED
    BY <1>1, <1>3, <2>1, <2>3, <2>7 DEF u, L
<1>4. CASE Levels = SubSeq(indents, 1, OpenBlocks)
  <2> DEFINE n == OpenBlocks
             u == SubSeq(indents, 1, n)
  <2>1. n \in 1..Len(indents)
    BY OpenBlocksIs
  <2> HIDE DEF n
  <2>2. n \in Nat /\ n >= 1 /\ n <= Len(indents)
    BY <1>1, <2>1
  <2>3. u \in Seq(Nat) /\ Len(u) = n /\ \A k \in 1..n : u[k] = indents[k]
    BY <1>1, <2>2, SubSeqProperties
  <2> HIDE DEF u
  <2>4. Increasing(u)
    <3>1. u[1] = 0
      BY <1>1, <2>2, <2>3 DEF Increasing
    <3>2. ASSUME NEW k \in 2..n PROVE u[k - 1] < u[k]
      <4>1. k \in 2..Len(indents) /\ k \in 1..n /\ k - 1 \in 1..n
        BY <1>1, <2>2
      <4>2. QED
        BY <1>1, <2>3, <4>1 DEF Increasing
    <3>3. QED
      BY <2>3, <3>1, <3>2 DEF Increasing
  <2>5. Levels = u
    BY <1>4 DEF u, n
  <2>6. QED
    BY <1>1, <2>2, <2>3, <2>4, <2>5
<1>5. QED
  BY <1>2, <1>3, <1>4 DEF Levels
LEMMA LineStartGood ==
    ASSUME Turn, LineStart
    PROVE  Good
<1> DEFINE refused == Last(Levels) # Width /\ ~BlankLine /\ paren = 0
           up == IF Len(Levels) > Len(indents) THEN <<Token("INDENT", Nothing)>> ELSE <<>>
           m == Len(indents) - Len(Levels)
           b == Len(indents) - 1
           f == Strings(mode)
<1>1. i \in 1..Len(source) /\ i \in Nat /\ Len(source) \in Nat /\ IsText(source) /\ mode # "text" /\ atbol = TRUE
  BY InLineIs, TurnIs DEF LineStart
<1>2. Indented \in i..(Len(source) + 1) /\ Width \in Nat
  BY <1>1, WidthIs
<1>3. /\ Levels \in Seq(Nat) /\ Len(Levels) \in 1..(Len(indents) + 1) /\ Increasing(Levels)
      /\ Len(Levels) > Len(indents) => Len(Levels) = Len(indents) + 1
  BY <1>2, LevelsIs
<1>4. IF refused THEN SyntaxError
      ELSE /\ tokens' = tokens \o up \o Dedents(m)
           /\ i' = Indented /\ atbol' = FALSE /\ indents' = Levels
           /\ UNCHANGED <<program, source, paren, needNl, mode, quote, piece, bad>>
  BY Zenon DEF LineStart, Levels
<1>5. CASE refused
  BY <1>4, <1>5, SyntaxErrorGood DEF Turn
<1>6. CASE ~refused
  <2>1. /\ tokens' = tokens \o up \o Dedents(m) /\ i' = Indented /\ atbol' = FALSE /\ indents' = Levels
        /\ source' = source /\ paren' = paren /\ needNl' = needNl /\ mode' = mode
        /\ quote' = quote /\ bad' = bad
    BY <1>4, <1>6
  <2>2. Len(indents) \in Nat /\ b \in Nat /\ f \in {0, 1} /\ NestedSeq(tokens, b, f)
    BY TurnIs
  <2>3. NestedSeq(tokens \o up \o Dedents(m), Len(Levels) - 1, f)
    <3>1. CASE Len(Levels) > Len(indents)
      <4>1. up = <<Token("INDENT", Nothing)>> /\ Dedents(m) = <<>>
        <5>1. m = -1
          BY <1>3, <2>2, <3>1
        <5>2. Dedents(-1) = <<>>
          BY DEF Dedents
        <5>3. QED
          BY <3>1, <5>1, <5>2
      <4> HIDE DEF b, f
      <4>2. NestedSeq(tokens \o up, b + 1, f)
        <5>1. NestedSeq(tokens \o <<Token("INDENT", Nothing)>>, b + 1, f)
          BY <2>2, NestedOne
        <5>2. QED
          BY ONLY <4>1, <5>1
      <4>3. NestedSeq((tokens \o up) \o Dedents(m), b + 1, f)
        <5>1. NestedSeq((tokens \o up) \o <<>>, b + 1, f)
          BY ONLY <4>2, NestedNone
        <5>2. QED
          BY ONLY <4>1, <5>1
      <4>4. b + 1 = Len(Levels) - 1
        BY <1>3, <2>2, <3>1 DEF b
      <4>5. QED
        BY <4>3, <4>4
    <3>2. CASE ~(Len(Levels) > Len(indents))
      <4>1. up = <<>>
        BY <3>2
      <4>2. m \in 0..b /\ b - m = Len(Levels) - 1
        BY <1>3, <2>2, <3>2
      <4> HIDE DEF b, f, up, m
      <4>3. NestedSeq(tokens \o up, b, f)
        <5>1. NestedSeq(tokens \o <<>>, b, f)
          BY <2>2, NestedNone
        <5>2. QED
          BY ONLY <4>1, <5>1
      <4>4. NestedSeq((tokens \o up) \o Dedents(m), b - m, f)
        BY <2>2, <4>2, <4>3, NestedDedents
      <4>5. QED
        BY <4>2, <4>4
    <3>3. QED
      BY <3>1, <3>2
  <2> HIDE DEF up, m, b, f
  <2>4. Open'
    BY <2>1, <2>3 DEF Open, f
  <2>5. bad = FALSE /\ bad' = FALSE
    BY <2>1, TurnIs
  <2>6. ~Ended'
    BY <2>4, <2>5, NestedIsOpen DEF Ended, Open
  <2>7. i' \in 1..(Len(source) + 1) /\ i' >= i
    BY <1>1, <1>2, <2>1
  <2>8. ReadInv'
    <3>1. Len(indents') >= 1
      BY <1>3, <2>1, TurnIs
    <3>2. QED
      BY <1>3, <2>1, <2>5, <2>7, <3>1 DEF Turn, LexInv, ReadInv
  <2>9. QED
    BY <1>1, <2>1, <2>4, <2>6, <2>7, <2>8 DEF Good, NestInv, ReadsOn
<1>7. QED
  BY <1>5, <1>6
-----------------------------------------------------------------------------
(* The theorems *)

LEMMA NextIsGood ==
    ASSUME LexInv, Next
    PROVE  Turn /\ Good
<1>1. Turn
  BY DEF Next, EndOfInput, CloseText, DoubledBrace, OpenBraces, BadText, TextChar, InText, LineStart, Blank,
         Comment, Newline, Continuation, String, Number, Name, PrefixedString, FString, Operator, InLine, Turn
<1>2. BadText => Good
  BY <1>1, SyntaxErrorGood DEF BadText, Turn
<1>3. Good
  BY <1>1, <1>2, EndOfInputGood, CloseTextGood, DoubledBraceGood, OpenBracesGood, TextCharGood,
     LineStartGood, BlankGood, CommentGood, NewlineGood, ContinuationGood, StringGood, NumberGood,
     NameGood, PrefixedStringGood, FStringGood, OperatorGood DEF Next
<1>4. QED
  BY <1>1, <1>3

\* The invariant is inductive: it holds at the start, and every turn keeps it.
THEOREM LexerInvariant == Spec => []LexInv
<1>1. Init => LexInv
  <2> SUFFICES ASSUME Init PROVE LexInv
    OBVIOUS
  <2>1. IsText(source) /\ Len(source) \in Nat
    BY TextAssumption DEF Init, IsText
  <2>2. i = 1 /\ tokens = <<>> /\ paren = 0 /\ atbol = TRUE /\ needNl = FALSE /\ indents = <<0>>
        /\ mode = "code" /\ bad = FALSE
    BY DEF Init
  <2>3. ReadInv
    <3>1. indents \in Seq(Nat) /\ Len(indents) = 1 /\ indents[1] = 0
      BY <2>2
    <3>2. Increasing(indents)
      BY <3>1 DEF Increasing
    <3>3. i \in 1..(Len(source) + 1) /\ paren \in Nat /\ mode = "code"
      BY <2>1, <2>2
    <3>4. atbol \in BOOLEAN /\ needNl \in BOOLEAN /\ bad \in BOOLEAN
      BY <2>2
    <3>5. QED
      BY <2>1, <3>1, <3>2, <3>3, <3>4 DEF ReadInv
  <2>4. Open
    <3>1. Len(indents) - 1 = 0 /\ Strings(mode) = 0
      BY <2>2 DEF Strings
    <3>2. QED
      BY <2>2, <3>1, NestedEmpty DEF Open
  <2>5. ~Ended
    BY <2>2 DEF Ended
  <2>6. QED
    BY <2>3, <2>4, <2>5 DEF LexInv, NestInv
<1>2. LexInv /\ [Next]_vars => LexInv'
  <2>1. ASSUME LexInv, Next PROVE LexInv'
    BY <2>1, NextIsGood DEF Good, LexInv
  <2>2. ASSUME LexInv, UNCHANGED vars PROVE LexInv'
    <3>1. /\ source' = source /\ i' = i /\ tokens' = tokens /\ paren' = paren /\ atbol' = atbol
          /\ needNl' = needNl /\ indents' = indents /\ mode' = mode /\ quote' = quote /\ bad' = bad
      BY <2>2 DEF vars
    <3>2. ReadInv'
      BY <2>2, <3>1 DEF LexInv, ReadInv
    <3>3. Ended' = Ended /\ Closed' = Closed /\ Open' = Open
      BY <3>1 DEF Ended, Closed, Open
    <3>4. QED
      BY <2>2, <3>1, <3>2, <3>3 DEF LexInv, NestInv
  <2>3. QED
    BY <2>1, <2>2
<1>3. QED
  BY <1>1, <1>2, PTL DEF Spec

\* Every turn of the loop of _pyc_lex reads on, or goes from the beginning of
\* a line into it, or ends the loop.
Turns == IF Ended THEN 0 ELSE 2 * (Len(source) + 1 - i) + (IF atbol THEN 2 ELSE 1)
EveryTurnCounts == [][Turns' < Turns]_vars

\* So a text of n characters takes at most 2 * n + 2 turns.
THEOREM EveryTurnCountsHolds == Spec => EveryTurnCounts
<1>1. ASSUME LexInv, Next PROVE Turns' < Turns
  <2>1. Turn /\ Good
    BY <1>1, NextIsGood
  <2> DEFINE L == Len(source)
             extra == IF atbol THEN 2 ELSE 1
  <2>2. L \in Nat /\ i \in Nat /\ i >= 1 /\ i <= L + 1 /\ extra \in {1, 2} /\ Turns = 2 * (L + 1 - i) + extra
    BY <2>1, TurnIs DEF Turns, Turn
  <2>3. CASE Ended'
    <3>1. Turns' = 0
      BY <2>3 DEF Turns
    <3>2. QED
      BY <2>2, <3>1
  <2>4. CASE ~Ended'
    <3> DEFINE after == IF atbol' THEN 2 ELSE 1
    <3>1. source' = source /\ i' \in Nat /\ i' <= L + 1 /\ after \in {1, 2}
      BY <2>1 DEF Good, ReadInv, ReadsOn, IsText
    <3>2. Turns' = 2 * (L + 1 - i') + after
      BY <2>4, <3>1 DEF Turns
    <3>3. i' > i \/ (i' >= i /\ atbol /\ ~atbol')
      BY <2>1, <2>4 DEF Good, ReadsOn
    <3>4. i' > i \/ (i' >= i /\ extra = 2 /\ after = 1)
      BY <3>3
    <3> DEFINE j == i'
    <3>5. j \in Nat /\ j <= L + 1 /\ after \in {1, 2} /\ (j > i \/ (j >= i /\ extra = 2 /\ after = 1))
      BY <3>1, <3>4
    <3> HIDE DEF after, extra, L, j
    <3>6. 2 * (L + 1 - j) + after < 2 * (L + 1 - i) + extra
      BY ONLY <2>2, <3>5
    <3>7. QED
      BY <2>2, <3>2, <3>6 DEF j
  <2>5. QED
    BY <2>3, <2>4
<1>2. ASSUME LexInv, [Next]_vars PROVE [Turns' < Turns]_vars
  BY <1>1, <1>2
<1>3. QED
  BY <1>2, LexerInvariant, PTL DEF Spec, EveryTurnCounts

\* Blocks and f-strings are nested in the tokens of every text: nothing is
\* closed that was not opened, and an accepted text ends with all closed.
THEOREM WellNestedHolds == Spec => []WellNested
<1>1. ASSUME NEW s, NEW b, NEW f, NestedSeq(s, b, f), tokens = s
      PROVE  /\ \A n \in 1..Len(tokens) :
                   /\ Blocks(n) >= 0 /\ FStrings(n) \in {0, 1}
                   /\ tokens[n].kind = "FMIDDLE" => FStrings(n) = 1
                   /\ tokens[n].kind # "ENDMARKER"
             /\ Blocks(Len(tokens)) = b /\ FStrings(Len(tokens)) = f
  BY <1>1 DEF NestedSeq, CountIn, Blocks, FStrings, Count
<1>2. ASSUME LexInv, ~(Ended /\ ~bad) PROVE WellNested
  <2>1. NestedSeq(tokens, Len(indents) - 1, Strings(mode)) /\ Increasing(indents)
    BY <1>2 DEF LexInv, NestInv, ReadInv, Open
  <2>2. QED
    BY <1>1, <1>2, <2>1 DEF WellNested, Increasing
<1>3. ASSUME LexInv, Ended, ~bad PROVE WellNested
  <2>1. Closed /\ Increasing(indents)
    BY <1>3 DEF LexInv, NestInv, ReadInv
  <2>2. PICK s : tokens = Append(s, Plain("ENDMARKER")) /\ NestedSeq(s, 0, 0)
    BY <2>1 DEF Closed
  <2>3. PICK T : s \in Seq(T)
    BY <2>2 DEF NestedSeq
  <2> DEFINE em == Plain("ENDMARKER")
             L == Len(s)
  <2>4. em.kind = "ENDMARKER"
    BY DEF Plain, Token
  <2> HIDE DEF em
  <2>5. /\ L \in Nat /\ Len(tokens) = L + 1 /\ tokens[L + 1] = em
        /\ \A k \in 1..L : tokens[k] = s[k]
    <3>1. tokens = Append(s, em) /\ L \in Nat
      BY <2>2, <2>3 DEF em
    <3>2. /\ Len(Append(s, em)) = L + 1 /\ Append(s, em)[L + 1] = em
          /\ \A k \in 1..L : Append(s, em)[k] = s[k]
      BY ONLY <2>3, LastOfAppend
    <3>3. QED
      BY ONLY <3>1, <3>2
  <2>6. ASSUME NEW n \in 0..L, NEW kind PROVE Count(n, kind) = CountIn(s, n, kind)
    <3>1. n \in Nat /\ \A k \in 1..n : tokens[k] = s[k]
      BY <2>5
    <3>2. CountIn(tokens, n, kind) = CountIn(s, n, kind)
      BY <3>1, CountInPrefix
    <3>3. QED
      BY <3>2 DEF Count, CountIn
  <2>7. ASSUME NEW kind, kind # "ENDMARKER" PROVE Count(L + 1, kind) = CountIn(s, L, kind)
    <3>1. tokens[L + 1].kind # kind
      BY <2>4, <2>5, <2>7
    <3>2. L \in Nat /\ L \in 0..L
      BY <2>5
    <3> HIDE DEF L
    <3>3. CountIn(tokens, L + 1, kind) = CountIn(tokens, L, kind) + 0 /\ CountIn(tokens, L, kind) \in Nat
      BY <3>1, <3>2, CountInIs
    <3>4. CountIn(tokens, L + 1, kind) = Count(L + 1, kind) /\ CountIn(tokens, L, kind) = Count(L, kind)
      BY DEF Count, CountIn
    <3>5. QED
      BY <2>6, <3>2, <3>3, <3>4
  <2>8. ASSUME NEW n \in 1..L
        PROVE  /\ Blocks(n) >= 0 /\ FStrings(n) \in {0, 1}
               /\ tokens[n].kind = "FMIDDLE" => FStrings(n) = 1
               /\ tokens[n].kind # "ENDMARKER"
    <3>1. n \in 0..L
      BY <2>5
    <3>2. tokens[n] = s[n] /\ n \in 1..Len(s)
      BY <2>5
    <3>3. Blocks(n) = CountIn(s, n, "INDENT") - CountIn(s, n, "DEDENT")
          /\ FStrings(n) = CountIn(s, n, "FSTART") - CountIn(s, n, "FEND")
      BY <2>6, <3>1 DEF Blocks, FStrings
    <3>4. QED
      BY <2>2, <3>2, <3>3 DEF NestedSeq
  <2>9. Blocks(L + 1) = 0 /\ FStrings(L + 1) = 0
    <3>1. Blocks(L + 1) = CountIn(s, L, "INDENT") - CountIn(s, L, "DEDENT")
          /\ FStrings(L + 1) = CountIn(s, L, "FSTART") - CountIn(s, L, "FEND")
      BY <2>7 DEF Blocks, FStrings
    <3>2. QED
      BY <2>2, <3>1 DEF NestedSeq
  <2> HIDE DEF L
  <2>10. ASSUME NEW n \in 1..Len(tokens)
         PROVE  /\ Blocks(n) >= 0 /\ FStrings(n) \in {0, 1}
                /\ tokens[n].kind = "FMIDDLE" => FStrings(n) = 1
                /\ tokens[n].kind = "ENDMARKER" => n = Len(tokens)
    <3>1. CASE n \in 1..L
      BY <2>8, <3>1
    <3>2. CASE n = L + 1
      BY <2>4, <2>5, <2>9, <3>2
    <3>3. QED
      BY <2>5, <3>1, <3>2
  <2>11. paren = 0 /\ ~needNl
    BY <2>1 DEF Closed
  <2>12. QED
    BY <2>1, <2>5, <2>9, <2>10, <2>11 DEF WellNested, Increasing
<1>4. LexInv => WellNested
  BY <1>2, <1>3
<1>5. QED
  BY <1>4, LexerInvariant, PTL
=============================================================================
