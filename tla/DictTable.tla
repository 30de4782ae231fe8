----------------------------- MODULE DictTable -----------------------------
(***************************************************************************)
(* The dict of pycore: an open-addressed table, a buffer with the keys in  *)
(* insertion order and a header, worked on by two machines.  The hart      *)
(* probes, overwrites, inserts and deletes (S_CONTAINER); when a new key   *)
(* would fill the table beyond two thirds it traps and the excore firmware *)
(* builds a larger table and finishes the store there (do_dict_grow); it   *)
(* also carries out DICT_UPDATE.  The two have a hash and a key comparison *)
(* each, and a key must hash and compare alike for both, or what one       *)
(* stores the other does not find.                                         *)
(* While a container operation or a trap runs nothing else touches the     *)
(* dict (TrapHandoff), so each is one step; a store that grows is two.     *)
(***************************************************************************)
EXTENDS Integers, Sequences, SequencesExt, FiniteSets, FiniteSetsExt

CONSTANTS
    Keys,         \* [tag, n, shape, bits]: see below
    Vals,         \* the values a run stores; its literals may use others
    Literals,     \* the <<key, value>> sequences BUILD_MAP may start from
    Sources,      \* those that build the other dict of DICT_UPDATE
    MAX_VERSION,  \* bounds the insertions and deletions of a run
    Sizes         \* the powers of two a table size may take; bounds growth

AllVals == Vals \cup UNION {{p[i][2] : i \in DOMAIN p} : p \in Literals \cup Sources}

ASSUME DictAssumption ==
    /\ MAX_VERSION \in Nat /\ Sizes \subseteq Nat
    /\ \A p \in Literals \cup Sources :
          /\ p \in Seq(Keys \X AllVals)
          /\ \E s \in Sizes : s >= 4 /\ s >= 2 * Len(p)

\* A key is a record: its tag; n, the number it stands for or a name for its
\* contents; for a FLOAT its shape: "whole" (an integer the firmware converts),
\* "wide" (an integer of 2^52 or more, which only the hart converts) or "frac";
\* and bits, what mixing the raw words of the value gives.
Numeric(k) == k.tag \in {"INT", "BOOL", "FLOAT"}
Whole(k) == k.tag \in {"INT", "BOOL"} \/ k.shape \in {"whole", "wide"}

IntHash(n) == IF n = -1 THEN -2 ELSE n

\* pycore_dict_key_hash
Hash(k) == IF Numeric(k) THEN IF Whole(k) THEN IntHash(k.n) ELSE k.bits
           ELSE k.bits

\* Mutant: the firmware mixes the bits of a float, whole or not.
FwHashNoFloat(k) == IF k.tag \in {"INT", "BOOL"} THEN IntHash(k.n) ELSE k.bits

\* hash_key of the firmware
FwHash(k) == IF Numeric(k) /\ (k.tag # "FLOAT" \/ k.shape = "whole")
             THEN IntHash(k.n) ELSE k.bits

\* pycore_dict_key_rich_eq, with the payload comparison of long strings
SameKey(a, b) ==
    IF Numeric(a) /\ Numeric(b)
    THEN IF Whole(a) /\ Whole(b) THEN a.n = b.n ELSE a = b
    ELSE a.tag = b.tag /\ a.n = b.n

\* keys_rich_eq of the firmware: a is the key looked for.  Converting a float
\* other than 0.0 overwrites the registers that hold both tags, so a whole
\* float looked for equals nothing.
FwSameKey(a, b) ==
    IF Numeric(a) /\ Numeric(b)
    THEN \/ /\ a.tag = "FLOAT" => (a.shape = "whole" /\ a.n = 0)
            /\ b.tag = "FLOAT" => b.shape = "whole"
            /\ a.n = b.n
         \/ a.tag = "FLOAT" /\ a.shape \in {"wide", "frac"} /\ a = b
    ELSE a.tag = b.tag /\ a.n = b.n

-----------------------------------------------------------------------------
\* Slots.  Only the key tag says whether a slot is in use.
Empty == [st |-> "empty"]
\* Mutant: a deleted slot reads as never used, and ends probes.
TombstoneAsEmpty == [st |-> "empty"]
Tombstone == [st |-> "tomb"]
Live(k, v) == [st |-> "live", key |-> k, val |-> v]

EmptyTable(size) == [i \in 0 .. size - 1 |-> Empty]
SizeOf(table) == Cardinality(DOMAIN table)
At(table, st) == {i \in DOMAIN table : table[i].st = st}

\* The slots in the order they are probed from hash h, as steps 0, 1, ...
ProbeSlot(table, h, step) == (h + step) % SizeOf(table)

\* The first step that reaches one of these slots, or the number of slots.
FirstStep(table, h, slots) ==
    CHOOSE step \in 0 .. SizeOf(table) :
        /\ step < SizeOf(table) => ProbeSlot(table, h, step) \in slots
        /\ \A earlier \in 0 .. step - 1 : ProbeSlot(table, h, earlier) \notin slots

\* A probe stops at an empty slot or at a slot with its key.
LastStep(table, h, equal) == FirstStep(table, h, At(table, "empty") \cup equal)
FirstTomb(table, h) == FirstStep(table, h, At(table, "tomb"))

\* The slot of the key, or -1.
Found(table, h, last) ==
    IF last < SizeOf(table) /\ table[ProbeSlot(table, h, last)].st = "live"
    THEN ProbeSlot(table, h, last) ELSE -1

\* The slot for a new key: the first tombstone passed, or else the empty slot.
\* (A table without either starts again at the first slot; the hart never
\* gets here with one.)
Free(table, h, last) ==
    ProbeSlot(table, h, IF FirstTomb(table, h) < last THEN FirstTomb(table, h)
                        ELSE last)

\* The probe of the hart, and that of the firmware.
HartLast(table, k) ==
    LastStep(table, Hash(k), {i \in At(table, "live") : SameKey(k, table[i].key)})
FwLast(table, k) ==
    LastStep(table, FwHash(k), {i \in At(table, "live") : FwSameKey(k, table[i].key)})

Place(table, k) == Free(table, Hash(k), HartLast(table, k))
Lookup(table, k) == Found(table, Hash(k), HartLast(table, k))

\* CP_DICT_CHK_VAL: the store that finds a live slot at the last step of all
\* does not look whether it passed a tombstone.
ProbeFaults(table, k) ==
    /\ HartLast(table, k) = SizeOf(table)
    /\ table[ProbeSlot(table, Hash(k), SizeOf(table) - 1)].st = "live"

\* Mutant: the table may be filled to the last slot.
NeedsGrowLate(used, size) == used >= size

\* pycore_dict_needs_grow and dict_needs_grow
NeedsGrow(used, size) == 3 * used >= 2 * size \/ used + 1 >= size

\* dict_grow_rehash: four times the keys (never the 50000 from which it is
\* twice), at least 8, more than the keys, and twice the old size.
Larger(used, size) == {s \in Sizes : s >= 4 * used /\ s >= 8 /\ s > used /\ s >= 2 * size}
GrownSize(used, size) == Min(Larger(used, size))

\* A live entry put into a table without its key, at the first empty slot from
\* its hash.
Put(table, s) ==
    LET h == FwHash(s.key)
    IN [table EXCEPT ![Free(table, h, LastStep(table, h, {}))] = s]

\* The live entries of a table put one by one, from slot 0 up, into an empty
\* one of the given size.
Rehashed(table, size) ==
    LET built[i \in 0 .. SizeOf(table)] ==
            IF i = 0 THEN EmptyTable(size)
            ELSE IF table[i - 1].st # "live" THEN built[i - 1]
            ELSE Put(built[i - 1], table[i - 1])
    IN built

Rehash(table, size) == Rehashed(table, size)[SizeOf(table)]

-----------------------------------------------------------------------------
\* A dict object: table, insertion order, used and version of its header.
\* The order buffer has as many places as the table has slots.

\* Mutant: the version stays.
InsertedSilently(d, i, k, v) ==
    [d EXCEPT !.table[i] = Live(k, v), !.order = Append(@, k), !.used = @ + 1]

\* A new key at slot i.
Inserted(d, i, k, v) ==
    [table |-> [d.table EXCEPT ![i] = Live(k, v)], order |-> Append(d.order, k),
     used |-> d.used + 1, version |-> d.version + 1]

\* pycore_dict_min_slots
BuiltSize(pairs) == Min({s \in Sizes : s >= 4 /\ s >= 2 * pairs})

\* A pair of BUILD_MAP: an equal key is overwritten, the key in its slot too;
\* the order keeps the first.
HartInsert(d, p) ==
    LET at == Lookup(d.table, p[1])
    IN IF at >= 0 THEN [d EXCEPT !.table[at] = Live(p[1], p[2])]
       ELSE Inserted(d, Place(d.table, p[1]), p[1], p[2])

\* BUILD_MAP: the pairs one after the other.
Built(pairs) ==
    LET built[i \in 0 .. Len(pairs)] ==
            IF i = 0
            THEN [table |-> EmptyTable(BuiltSize(Len(pairs))), order |-> <<>>,
                  used |-> 0, version |-> 0]
            ELSE HartInsert(built[i - 1], pairs[i])
    IN built

BuildMap(pairs) == Built(pairs)[Len(pairs)]

\* dict_insert_from_scratch, and the body of dict_bulk_insert: a key that is
\* there keeps its slot and gets the new value.
FwInsert(d, k, v) ==
    LET last == FwLast(d.table, k)
        at == Found(d.table, FwHash(k), last)
    IN IF at >= 0 THEN [d EXCEPT !.table[at].val = v]
       ELSE Inserted(d, Free(d.table, FwHash(k), last), k, v)

NoGrow == <<>>
NoIter == [index |-> 0, size |-> 0, version |-> -1]

VARIABLES
    dict,       \* the dict
    source,     \* the dict DICT_UPDATE reads
    grow,       \* the store a PY_TRAP_DICT_GROW carries to the firmware
    iter,       \* the iterator over dict that the program holds
    fault       \* PY_TRAP_MEM_FAULT on a store

vars == <<dict, source, grow, iter, fault>>

Init ==
    /\ \E p \in Literals : dict = BuildMap(p)
    /\ \E p \in Sources : source = BuildMap(p)
    /\ grow = NoGrow
    /\ iter = NoIter
    /\ fault = FALSE

Running == grow = NoGrow /\ ~fault
Bounded == dict.version < MAX_VERSION

\* STORE_SUBSCR, MAP_ADD, STORE_NAME and STORE_ATTR on a key that is there:
\* the slot gets the new key and the new value.
StoreOverwrite(k, v) ==
    LET at == Lookup(dict.table, k)
    IN /\ Running
       /\ at >= 0
       /\ dict' = [dict EXCEPT !.table[at] = Live(k, v)]
       /\ UNCHANGED <<source, grow, iter, fault>>

\* A new key: after a probe that went through every slot and ended on a live
\* one, a fault; else a trap when the table is too full; else the first
\* tombstone or the empty slot.
StoreNew(k, v) ==
    /\ Running /\ Bounded
    /\ Lookup(dict.table, k) < 0
    /\ IF ProbeFaults(dict.table, k)
       THEN fault' = TRUE /\ UNCHANGED <<dict, grow>>
       ELSE /\ IF NeedsGrow(dict.used, SizeOf(dict.table))
               THEN grow' = <<k, v>> /\ UNCHANGED dict
               ELSE /\ dict' = Inserted(dict, Place(dict.table, k), k, v)
                    /\ UNCHANGED grow
            /\ UNCHANGED fault
    /\ UNCHANGED <<source, iter>>

\* do_dict_grow: rehash, then the store.  The mailbox carries four bits of
\* tag: None arrives as tag word 0, and its slot still reads as empty.
DictGrow ==
    LET k == grow[1]
        table == Rehash(dict.table, GrownSize(dict.used, SizeOf(dict.table)))
        grown == FwInsert([dict EXCEPT !.table = table], k, grow[2])
    IN /\ grow # NoGrow /\ Larger(dict.used, SizeOf(dict.table)) # {}
       /\ dict' = IF k.tag = "NONE" THEN [grown EXCEPT !.table = table]
                  ELSE grown
       /\ grow' = NoGrow
       /\ UNCHANGED <<source, iter, fault>>

\* DELETE_SUBSCR: a tombstone in the table, and the first equal key of the
\* order taken out.
Delete(k) ==
    LET at == Lookup(dict.table, k)
        table == [dict.table EXCEPT ![at] = Tombstone]
        places == {i \in DOMAIN dict.order : SameKey(k, dict.order[i])}
    IN /\ Running /\ Bounded
       /\ at >= 0
       /\ IF places = {}
          THEN /\ fault' = TRUE
               /\ dict' = [dict EXCEPT !.table = table]
          ELSE /\ dict' = [table |-> table, order |-> RemoveAt(dict.order, Min(places)),
                           used |-> dict.used - 1, version |-> dict.version + 1]
               /\ UNCHANGED fault
       /\ UNCHANGED <<source, grow, iter>>

\* dict_bulk_insert: the live slots of the source, from slot 0 up, into d.
Merging(d) ==
    LET merged[i \in 0 .. SizeOf(source.table)] ==
            IF i = 0 THEN d
            ELSE IF source.table[i - 1].st # "live" THEN merged[i - 1]
            ELSE FwInsert(merged[i - 1], source.table[i - 1].key, source.table[i - 1].val)
    IN merged

Merged(d) == Merging(d)[SizeOf(source.table)]

\* DICT_UPDATE (do_dict_update): the dict is first made large enough for both
\* together.
Update ==
    LET need == dict.used + source.used
        size == SizeOf(dict.table)
        roomy == IF NeedsGrow(need, size)
                 THEN [dict EXCEPT !.table =
                          Rehash(dict.table, GrownSize(need, size))]
                 ELSE dict
    IN /\ Running
       /\ NeedsGrow(need, size) => Larger(need, size) # {}
       /\ dict' = Merged(roomy)
       /\ dict'.version <= MAX_VERSION
       /\ UNCHANGED <<source, grow, iter, fault>>

\* GET_ITER: an iterator is the length of the order and the version.
GetIter ==
    /\ Running
    /\ iter' = [index |-> 0, size |-> Len(dict.order),
                version |-> dict.version]
    /\ UNCHANGED <<dict, source, grow, fault>>

\* FOR_ITER: a type trap when the version moved, the end, or the next key.
ForIter ==
    /\ Running
    /\ iter # NoIter
    /\ iter' = IF iter.version # dict.version \/ iter.index >= iter.size
               THEN NoIter ELSE [iter EXCEPT !.index = @ + 1]
    /\ UNCHANGED <<dict, source, grow, fault>>

\* The steps of a program whose new keys satisfy Stored.
Step(Stored(_)) ==
    \/ \E k \in Keys, v \in Vals : StoreOverwrite(k, v)
    \/ \E k \in Keys, v \in Vals : Stored(k) /\ StoreNew(k, v)
    \/ DictGrow
    \/ \E k \in Keys : Delete(k)
    \/ Update
    \/ GetIter
    \/ ForIter

Next == Step(LAMBDA k : TRUE)
Spec == Init /\ [][Next]_vars

\* Two stores that go wrong, left out of SafeSpec: a new key when no slot is
\* empty any more and the probe ends on a live one, and None as the key that
\* makes the table grow.
Served(k) ==
    /\ ~ProbeFaults(dict.table, k)
    /\ ~(k.tag = "NONE" /\ NeedsGrow(dict.used, SizeOf(dict.table)))

SafeSpec == Init /\ [][Step(Served)]_vars

-----------------------------------------------------------------------------
\* The header counts the keys of the order buffer, and the buffer has a place
\* left for the next key: it is exactly as long as the table, and appending
\* never compares the two (CP_DICT_ORDER_VAL, dict_insert_from_scratch).
OrderFits ==
    /\ dict.used = Len(dict.order)
    /\ dict.used < SizeOf(dict.table)
=============================================================================
