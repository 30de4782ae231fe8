------------------------------- MODULE PyDict -------------------------------
(***************************************************************************)
(* What a Python dict promises, seen from the program: a mapping from keys *)
(* to values, where keys that compare equal are one key; the order in      *)
(* which its keys were inserted; and a walk over it that yields the keys   *)
(* in that order, once each, and is refused after a key came or went.      *)
(* DictTable implements it.                                                *)
(***************************************************************************)
EXTENDS Sequences, SequencesExt, FiniteSets, Naturals

CONSTANTS
    Names,       \* the keys up to equality
    Values,
    Absent,      \* the answer of a look-up that finds nothing: KeyError
    NoWalk,      \* there is no iterator
    Refused      \* an iterator whose dict gained or lost a key since

VARIABLES
    map,         \* Names -> Values, or Absent
    order,       \* the keys present, oldest insertion first
    other,       \* the mapping that update() takes its items from
    walk,        \* what the iterator has still to yield
    broken       \* the machine stopped on a dict that is in order

vars == <<map, order, other, walk, broken>>

Present == {n \in Names : map[n] # Absent}
Stale == IF walk = NoWalk THEN NoWalk ELSE Refused

\* Every run starts with the dict some literal built.
Init ==
    /\ map \in [Names -> Values \cup {Absent}]
    /\ other \in [Names -> Values \cup {Absent}]
    /\ order \in SetToSeqs(Present)
    /\ walk = NoWalk
    /\ broken = FALSE

\* d[n] = v
SetItem(n, v) ==
    /\ map'[n] = v
    /\ map' = [map EXCEPT ![n] = v]
    /\ order' = IF map[n] # Absent THEN order ELSE Append(order, n)
    /\ walk' = IF map[n] # Absent THEN walk ELSE Stale

\* del d[n]
DelItem(n) ==
    /\ map[n] # Absent /\ map'[n] = Absent
    /\ map' = [map EXCEPT ![n] = Absent]
    /\ \E i \in DOMAIN order : order[i] = n /\ order' = RemoveAt(order, i)
    /\ walk' = Stale

\* d.update(other): the new keys follow the old ones.  Their order among
\* themselves is left open here, since the machine takes them in the order of
\* the slots of the other dict.
Update ==
    LET new == {n \in Names : other[n] # Absent} \ Present
    IN /\ map' = [n \in Names |->
                     IF other[n] # Absent THEN other[n] ELSE map[n]]
       /\ \E tail \in SetToSeqs(new) : order' = order \o tail
       /\ walk' = IF new = {} THEN walk ELSE Stale

Iterate == walk' = order /\ UNCHANGED <<map, order>>

\* The next key of the walk, or its end.
Yield ==
    /\ walk \notin {NoWalk, Refused}
    /\ walk' = IF walk = <<>> THEN NoWalk ELSE Tail(walk)
    /\ UNCHANGED <<map, order>>

\* An iterator is refused and given up.
Refuse ==
    /\ walk = Refused
    /\ walk' = NoWalk
    /\ UNCHANGED <<map, order>>

Next ==
    /\ \/ \E n \in Names, v \in Values : SetItem(n, v)
       \/ \E n \in Names : DelItem(n)
       \/ Update
       \/ Iterate \/ Yield \/ Refuse
    /\ UNCHANGED <<other, broken>>

Spec == Init /\ [][Next]_vars
=============================================================================
