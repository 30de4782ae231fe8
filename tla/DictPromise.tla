---------------------------- MODULE DictPromise ----------------------------
(***************************************************************************)
(* DictTable implements PyDict.  What the program can find out about a     *)
(* dict is what its look-ups answer; seen and seenOther record that after  *)
(* each step, so that the mapping need not probe both tables again for     *)
(* every part of PyDict it is compared with.                               *)
(***************************************************************************)
EXTENDS DictTable

CONSTANTS Absent, NoWalk, Refused

VARIABLES seen, seenOther

\* The key as the program sees it: equal keys have one name.
NameOf(k) ==
    IF Numeric(k) /\ k.shape # "frac" THEN <<"number", k.n>> ELSE <<k.tag, k.n>>
Names == {NameOf(k) : k \in Keys}
FormsOf == [name \in Names |-> {k \in Keys : NameOf(k) = name}]

\* The keys the promise is made for.  Its tag and contents, and the shape of a
\* number, determine a key.  Left out are floats of 2^52 and more, which only
\* the hart converts, and whole floats other than 0.0 in the dict an update
\* reads, which the firmware finds equal to nothing.
ASSUME PromiseAssumption ==
    /\ \A k \in Keys :
          /\ k.tag # "number" /\ k.bits \in Int
          /\ k.tag \in {"INT", "BOOL"} => k.shape # "frac"
          /\ k.tag = "FLOAT" => k.shape \in {"whole", "frac"}
          /\ Numeric(k) /\ k.shape # "frac" => k.n \in Int
    /\ \A a, b \in Keys :
          a.tag = b.tag /\ a.n = b.n /\ (Numeric(a) => a.shape = b.shape) => a = b
    /\ \A p \in Sources : \A i \in DOMAIN p :
          p[i][1].tag = "FLOAT" /\ p[i][1].shape = "whole" => p[i][1].n = 0
    /\ Absent \notin AllVals
    /\ NoWalk # Refused /\ {NoWalk, Refused} \cap Seq(Names) = {}

\* What SUBSCR_DICT answers; CONTAINS_DICT is the same probe.
Answer(d, k) == LET at == Lookup(d.table, k)
                IN IF at >= 0 THEN d.table[at].val ELSE Absent

\* The answers to the forms of one key, which have to be alike.
AnswersTo(d) ==
    [name \in Names |-> {Answer(d, k) : k \in FormsOf[name]}]

PromiseInit ==
    /\ Init
    /\ seen = AnswersTo(dict)
    /\ seenOther = AnswersTo(source)

PromiseNext ==
    /\ Step(Served)
    /\ seen' = AnswersTo(dict')
    /\ UNCHANGED seenOther

PromiseSpec == PromiseInit /\ [][PromiseNext]_<<vars, seen, seenOther>>

Single(answers) ==
    [name \in Names |-> IF Cardinality(answers[name]) = 1
                        THEN CHOOSE a \in answers[name] : TRUE
                        ELSE answers[name]]
NamesIn(keys) == [i \in DOMAIN keys |-> NameOf(keys[i])]

Python == INSTANCE PyDict WITH
    Values <- AllVals,
    map <- Single(seen),
    order <- NamesIn(dict.order),
    other <- Single(seenOther),
    walk <- IF iter = NoIter THEN NoWalk
            ELSE IF iter.version # dict.version THEN Refused
            ELSE NamesIn(SubSeq(dict.order, iter.index + 1, iter.size)),
    broken <- fault

\* The table, the order buffer and the iterator together are a Python dict,
\* whichever of the two machines stored a key and whichever form of it is
\* looked up (pycore_cont_dict.svh, list_grow.s).
IsPythonDict == Python!Spec
=============================================================================
