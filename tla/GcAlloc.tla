------------------------------ MODULE GcAlloc ------------------------------
(***************************************************************************)
(* The heap allocator of pycore: bump allocation in a current run, the     *)
(* abort of an instruction that does not fit, the search of the free runs  *)
(* (S_GC_ALLOC), the sweep that lists them, zeroing on reuse, and heap     *)
(* marks. Addresses are granules of 16 bytes, 0 .. HEAP - 1; the runs      *)
(* table lies outside the heap, at TABLE. Marking is GcMark: here a        *)
(* collection ends at once, with the sweep or by being given up.           *)
(***************************************************************************)
EXTENDS Integers, Sequences, FiniteSets, SequencesExt, FiniteSetsExt

CONSTANTS
    HEAP,        \* granules of the dynamic heap
    LINE,        \* granules of a cache line
    RUN_ONCHIP,  \* entries of the engine's run table
    RUN_TABLE,   \* headers the table in memory holds
    Requests,    \* what instructions allocate: parts in order, and whether
                 \* each part is checked as it is written (split) or all at once
    MAX_BLOCKS   \* bound: parts the program holds at once

ASSUME AllocAssumption ==
    /\ HEAP \in Nat \ {0} /\ LINE \in Nat \ {0}
    /\ RUN_ONCHIP \in Nat /\ RUN_TABLE \in Nat /\ MAX_BLOCKS \in Nat
    /\ \A r \in Requests : /\ r.parts \in Seq(Nat \ {0}) /\ r.parts # <<>>
                           /\ r.split \in BOOLEAN

VARIABLES
    st,       \* "run" (an instruction starts), "gc" (S_GC_ENTER .. S_GC_RUN),
              \* "alloc" (S_GC_ALLOC), "halt" (S_HALT)
    cur,      \* heap_ptr_r, heap_limit_r, run_base_r
    list,     \* free runs: those of the engine's table from gc_run_idx_r on,
              \* those below the rover, and the list in memory
    rq,       \* registers of the aborted allocation and of its loop guard
    al,       \* registers of S_GC_ALLOC
    stale,    \* granules of the current run that may hold something
    touched,  \* granules from here on were never written
    zero,     \* heap_zero_r
    blocks,   \* what the program can still reach, a part each
    todo,     \* the instruction to dispatch again, <<>> when there is none
    mark,     \* <<>>, or the mark _bi_heap_mark() returned
    spoiled   \* history: a collection for an aborted allocation was given up
              \* and the current run kept

vars == <<st, cur, list, rq, al, stale, touched, zero, blocks, todo, mark, spoiled>>

----------------------------------------------------------------------------
(* Placement (pycore_heap_place, pycore_heap_end): a part of a line or     *)
(* more starts on a line, a smaller one where the last one ended.          *)

TABLE == HEAP

Place(p, n) == IF n >= LINE THEN ((p + LINE - 1) \div LINE) * LINE ELSE p

\* Where the parts end that are placed one after the other from p on.
Ends(p, parts) ==
    LET end[k \in 0 .. Len(parts)] ==
            IF k = 0 THEN p ELSE Place(end[k - 1], parts[k]) + parts[k]
    IN end

EndOf(p, parts) == Ends(p, parts)[Len(parts)]

\* The first k parts.
PartsAt(p, parts, k) ==
    {[at |-> Place(Ends(p, parts)[i - 1], parts[i]), n |-> parts[i]] : i \in 1 .. k}

Cells(b) == b.at .. (b.at + b.n - 1)

CellsOf(B) == UNION {Cells(b) : b \in B}

Larger(a, b) == IF a > b THEN a ELSE b

(* Runs of free granules *)

RunCells(r) == r.base .. (r.base + r.size - 1)

MaximalRuns(F) ==
    {[base |-> a, size |-> Min({g \in a .. HEAP : g \notin F}) - a]
        : a \in {g \in F : g - 1 \notin F}}

NoRun == [base |-> 0, size |-> 0]

----------------------------------------------------------------------------
NoRequest == [abort |-> FALSE, need |-> 0, explicit |-> FALSE, collected |-> FALSE,
              oom |-> FALSE, count |-> 0, heap |-> -1, largest |-> 0]

\* Out of S_GC_ALLOC nothing of it is read later.
Idle == [phase |-> 0, cand |-> NoRun, put |-> NoRun, addr |-> 0,
         install |-> FALSE, header |-> FALSE, from |-> 0, upto |-> 0]

Init ==
    /\ st = "run"
    /\ cur = [ptr |-> 0, limit |-> HEAP, base |-> 0]
    /\ list = [ahead |-> <<>>, below |-> <<>>, memory |-> <<>>]
    /\ rq = NoRequest
    /\ al = Idle
    /\ stale = {} /\ touched = 0 /\ zero = 0
    /\ blocks = {} /\ todo = <<>> /\ mark = <<>>
    /\ spoiled = FALSE

\* An instruction that completes resets the loop guard (gc_to_fetch); the
\* size of the largest run is only read while the guard counts.
Completed(r) == [r EXCEPT !.count = 0, !.heap = -1, !.largest = 0]

----------------------------------------------------------------------------
(* The program *)

Dispatch(r) ==
    /\ st = "run"
    /\ IF todo # <<>> THEN todo = <<r>>
       ELSE Cardinality(blocks) + Len(r.parts) <= MAX_BLOCKS

\* Mutant: the check is off by one.
FitsLast(r) == EndOf(cur.ptr, r.parts) <= cur.limit + 1

Fits(r) == EndOf(cur.ptr, r.parts) <= cur.limit

\* An instruction allocates: it places its parts and writes them.
Allocate(r) ==
    /\ Dispatch(r) /\ Fits(r)
    /\ blocks' = blocks \cup PartsAt(cur.ptr, r.parts, Len(r.parts))
    /\ cur' = [cur EXCEPT !.ptr = EndOf(cur.ptr, r.parts)]
    /\ stale' = stale \ (cur.ptr .. cur'.ptr - 1)
    /\ touched' = Larger(touched, cur'.ptr) /\ zero' = Larger(zero, cur'.ptr)
    /\ todo' = <<>> /\ rq' = Completed(rq)
    /\ UNCHANGED <<st, list, al, mark, spoiled>>

\* Parts of a request that are in memory before the one that does not fit.
Written(r) ==
    IF r.split THEN Max({k \in 0 .. Len(r.parts) : Ends(cur.ptr, r.parts)[k] <= cur.limit})
    ELSE 0

\* Bytes from the bump pointer to the end of the part that does not fit.
Wanted(r, k) ==
    Ends(cur.ptr, r.parts)[IF r.split THEN k + 1 ELSE Len(r.parts)] - cur.ptr

\* It does not fit: the instruction is given up and commits nothing, but the
\* string accelerator has written the parts that did (GC_ABORT_COMMON).
Abort(r) ==
    /\ Dispatch(r) /\ ~Fits(r)
    /\ LET k == Written(r)
           parts == PartsAt(cur.ptr, r.parts, k) IN
       /\ stale' = stale \cup CellsOf(parts)
       /\ touched' = Max({touched} \cup {g + 1 : g \in CellsOf(parts)})
       /\ zero' = Max({zero} \cup {g + 1 : g \in CellsOf(parts)})
       /\ rq' = [rq EXCEPT !.abort = TRUE, !.need = Wanted(r, k), !.heap = cur.ptr,
                           !.count = IF rq.heap # cur.ptr THEN 0
                                     ELSE IF @ = 3 THEN 3 ELSE @ + 1]
    /\ st' = "alloc" /\ al' = [al EXCEPT !.phase = 0]
    /\ todo' = <<r>>
    /\ UNCHANGED <<cur, list, blocks, mark, spoiled>>

\* The program lets go of a part.
Drop(b) ==
    /\ st = "run" /\ todo = <<>> /\ b \in blocks
    /\ blocks' = blocks \ {b}
    /\ UNCHANGED <<st, cur, list, rq, al, stale, touched, zero, todo, mark, spoiled>>

\* _bi_gc_collect(), or a collection at an instruction boundary or at exit.
Collect(explicit) ==
    /\ st = "run" /\ todo = <<>>
    /\ st' = "gc"
    /\ rq' = [Completed(rq) EXCEPT !.explicit = explicit]
    /\ UNCHANGED <<cur, list, al, stale, touched, zero, blocks, todo, mark, spoiled>>

\* _bi_heap_mark(). Of the epoch it matters only whether it is the current one.
HeapMark ==
    /\ st = "run" /\ todo = <<>>
    /\ mark' = <<[ptr |-> cur.ptr, now |-> TRUE]>>
    /\ rq' = Completed(rq)
    /\ UNCHANGED <<st, cur, list, al, stale, touched, zero, blocks, todo, spoiled>>

Superseded(m) == ~m.now \/ m.ptr < cur.base

\* _bi_heap_release(mark), the mark not kept: nothing when superseded, a fault
\* above the bump pointer, otherwise the bytes are handed back and zeroed at
\* the next boundary. The program has let go of what it allocated since.
HeapRelease ==
    /\ st = "run" /\ todo = <<>> /\ mark # <<>>
    /\ mark' = <<>>
    /\ LET m == mark[1] IN
       \/ /\ Superseded(m)
          /\ UNCHANGED <<st, cur, al, stale>>
       \/ /\ ~Superseded(m) /\ m.ptr > cur.ptr
          /\ st' = "halt"
          /\ UNCHANGED <<cur, al, stale>>
       \/ /\ ~Superseded(m) /\ m.ptr <= cur.ptr
          /\ CellsOf(blocks) \cap (m.ptr .. cur.ptr - 1) = {}
          /\ cur' = [cur EXCEPT !.ptr = m.ptr]
          /\ stale' = stale \cup (m.ptr .. cur.ptr - 1)
          /\ IF m.ptr < cur.ptr
             THEN /\ st' = "alloc"
                  /\ al' = [al EXCEPT !.phase = 2, !.header = FALSE,
                                      !.from = m.ptr, !.upto = cur.ptr]
             ELSE UNCHANGED <<st, al>>
    /\ rq' = Completed(rq)
    /\ UNCHANGED <<list, touched, zero, blocks, todo, spoiled>>

----------------------------------------------------------------------------
(* The collection *)

\* A collection with no allocation to satisfy keeps the current run.
KeepRun == /\ ~rq.abort /\ ~rq.explicit /\ rq.need = 0
           /\ cur.limit > cur.ptr

\* Mutant: the sweep does not know of the run that stays current.
KeptUnknown == {}

Kept == IF KeepRun THEN cur.ptr .. cur.limit - 1 ELSE {}

FreeRuns == MaximalRuns((0 .. HEAP - 1) \ (CellsOf(blocks) \cup Kept))

Sizes == {r.size : r \in FreeRuns}
             \cup (IF KeepRun THEN {cur.limit - cur.ptr} ELSE {0})

\* M_SW_SCAN lists the free runs of a line or more, lowest first: in the
\* engine's table, then with a header in the table in memory, then with the
\* header in the run itself.
ListedRuns ==
    LET R == {r \in FreeRuns : r.size >= LINE} IN
    [i \in 1 .. Cardinality(R) |->
        CHOOSE r \in R : Cardinality({s \in R : s.base < r.base}) = i - 1]

OnChip(all) == SubSeq(all, 1, Min({RUN_ONCHIP, Len(all)}))

InMemory(all) ==
    [i \in 1 .. Len(all) - Len(OnChip(all)) |->
        LET r == all[i + Len(OnChip(all))] IN
        [run |-> r, slot |-> IF i <= RUN_TABLE THEN TABLE ELSE r.base]]

\* Runs of the engine's table below the bump pointer (run_rover_r).
Rover(all) ==
    IF rq.explicit \/ InMemory(all) # <<>> THEN 0
    ELSE Cardinality({i \in DOMAIN all : all[i].base < cur.ptr})

\* The loop guard: collected before at this place and nothing grew.
Hopeless(largest) ==
    rq.abort /\ rq.count # 0 /\ largest <= rq.largest /\ largest < rq.need + LINE

\* A mark of an older epoch is superseded, whatever its address.
NextEpoch(m) == IF m = <<>> THEN m ELSE <<[ptr |-> 0, now |-> FALSE]>>

Sweep ==
    /\ st = "gc"
    /\ LET all == ListedRuns
           memory == InMemory(all)
           largest == Max(Sizes) IN
       /\ list' = [ahead |-> SubSeq(OnChip(all), Rover(all) + 1, Len(OnChip(all))),
                   below |-> SubSeq(all, 1, Rover(all)), memory |-> memory]
       /\ touched' = Max({touched} \cup {e.slot + 1 : e \in {f \in ToSet(memory) : f.slot # TABLE}})
       /\ zero' = Max({zero} \cup {e.run.base + 1 : e \in ToSet(memory)})
       /\ rq' = [rq EXCEPT !.collected = TRUE, !.largest = largest, !.oom = Hopeless(largest)]
    /\ cur' = IF KeepRun THEN cur ELSE [cur EXCEPT !.limit = cur.ptr]
    /\ stale' = IF KeepRun THEN stale ELSE {}
    /\ st' = "alloc" /\ al' = [al EXCEPT !.phase = 0]
    /\ mark' = NextEpoch(mark)
    /\ spoiled' = (spoiled /\ KeepRun)
    /\ UNCHANGED <<blocks, todo>>

\* The rescan list is full: MemoryError, the runs stay as they were.
GiveUp ==
    /\ st = "gc"
    /\ rq' = [rq EXCEPT !.collected = TRUE, !.oom = TRUE]
    /\ st' = "alloc"
    /\ mark' = NextEpoch(mark)
    /\ spoiled' = (spoiled \/ rq.abort)
    /\ UNCHANGED <<cur, list, al, stale, touched, zero, blocks, todo>>

----------------------------------------------------------------------------
(* S_GC_ALLOC *)

Searching == st = "alloc" /\ ~rq.oom /\ al.phase = 0

\* Mutant: the list in memory is not looked at.
ExhaustedOnChip == list.ahead = <<>>

Exhausted == list.memory = <<>> /\ list.ahead = <<>>

\* Mutant: collects again when the search fails after a collection.
StartCollectionAgain ==
    /\ Searching /\ rq.need # 0
    /\ Exhausted /\ list.below = <<>>
    /\ st' = "gc"
    /\ UNCHANGED <<cur, list, rq, al, stale, touched, zero, blocks, todo, mark, spoiled>>

\* Nothing left to look at and not collected yet: collect.
StartCollection ==
    /\ Searching /\ rq.need # 0
    /\ Exhausted /\ list.below = <<>> /\ ~rq.collected
    /\ st' = "gc"
    /\ UNCHANGED <<cur, list, rq, al, stale, touched, zero, blocks, todo, mark, spoiled>>

\* A collection without a request: nothing to search for.
NothingWanted ==
    /\ Searching /\ rq.need = 0
    /\ al' = [al EXCEPT !.phase = 3]
    /\ UNCHANGED <<st, cur, list, rq, stale, touched, zero, blocks, todo, mark, spoiled>>

\* Next fit: the runs below the rover.
Wrap ==
    /\ Searching /\ rq.need # 0
    /\ Exhausted /\ list.below # <<>>
    /\ list' = [list EXCEPT !.ahead = list.below, !.below = <<>>]
    /\ UNCHANGED <<st, cur, rq, al, stale, touched, zero, blocks, todo, mark, spoiled>>

OutOfMemory ==
    /\ Searching /\ rq.need # 0
    /\ Exhausted /\ list.below = <<>> /\ rq.collected
    /\ rq' = [rq EXCEPT !.oom = TRUE]
    /\ UNCHANGED <<st, cur, list, al, stale, touched, zero, blocks, todo, mark, spoiled>>

\* Mutant: no slack for the placement of the parts in the new run.
FitTight(r) == r.size >= rq.need

\* Room for the request wherever its parts fall on lines.
Fit(r) == r.size >= rq.need + LINE

\* Memory a run has to have cleared: up to what was ever written.
ZeroEnd(r, written) ==
    LET end == r.base + r.size IN
    IF end <= written THEN end ELSE Larger(written, r.base + 1)

\* Dead memory may hold anything, as far up as anything was ever written.
Install(r, written, top) ==
    /\ cur' = [ptr |-> r.base, limit |-> r.base + r.size, base |-> r.base]
    /\ al' = [al EXCEPT !.phase = 2, !.header = FALSE, !.cand = r,
                        !.from = r.base, !.upto = ZeroEnd(r, written)]
    /\ stale' = {g \in RunCells(r) : g < top}
    /\ spoiled' = FALSE

WriteHeader(a, run, install, cand) ==
    /\ al' = [al EXCEPT !.phase = 4, !.header = TRUE, !.addr = a, !.put = run,
                        !.install = install, !.cand = cand]
    /\ UNCHANGED <<cur, stale, spoiled>>

\* One run: too small, it goes on the skipped list; otherwise it is installed,
\* after the rest of the current run has gone there.
Take(r, slot) ==
    IF ~Fit(r) THEN WriteHeader(slot, r, FALSE, r)
    ELSE IF cur.limit - cur.ptr >= 1
    THEN WriteHeader(cur.ptr, [base |-> cur.ptr, size |-> cur.limit - cur.ptr], TRUE, r)
    ELSE Install(r, zero, touched)

TakeOnChip ==
    /\ Searching /\ rq.need # 0 /\ list.ahead # <<>>
    /\ LET r == Head(list.ahead) IN Take(r, r.base)
    /\ list' = [list EXCEPT !.ahead = Tail(@)]
    /\ UNCHANGED <<st, rq, touched, zero, blocks, todo, mark>>

\* The header is read (phase 1) and its run taken.
TakeInMemory ==
    /\ Searching /\ rq.need # 0 /\ list.ahead = <<>> /\ list.memory # <<>>
    /\ LET e == Head(list.memory) IN Take(e.run, e.slot)
    /\ list' = [list EXCEPT !.memory = Tail(@)]
    /\ UNCHANGED <<st, rq, touched, zero, blocks, todo, mark>>

\* Mutant: heap_zero_r is not told of the header.
HeaderWrittenUncounted ==
    /\ st = "alloc" /\ ~rq.oom /\ al.phase = 4
    /\ touched' = IF al.addr = TABLE THEN touched ELSE Larger(touched, al.addr + 1)
    /\ IF al.install THEN Install(al.cand, zero, touched')
       ELSE /\ al' = [al EXCEPT !.phase = 0]
            /\ UNCHANGED <<cur, stale, spoiled>>
    /\ UNCHANGED <<st, list, rq, zero, blocks, todo, mark>>

\* The header of a skipped run or of the rest of the current run is written.
HeaderWritten ==
    /\ st = "alloc" /\ ~rq.oom /\ al.phase = 4
    /\ touched' = IF al.addr = TABLE THEN touched ELSE Larger(touched, al.addr + 1)
    /\ zero' = Larger(zero, al.addr + 1)
    /\ IF al.install THEN Install(al.cand, zero', touched')
       ELSE /\ al' = [al EXCEPT !.phase = 0]
            /\ UNCHANGED <<cur, stale, spoiled>>
    /\ UNCHANGED <<st, list, rq, blocks, todo, mark>>

\* Phase 2, all its writes.
ZeroRun ==
    /\ st = "alloc" /\ ~rq.oom /\ al.phase = 2
    /\ stale' = IF al.header THEN stale \cup (al.from .. al.upto - 1)
                ELSE stale \ (al.from .. al.upto - 1)
    /\ al' = [al EXCEPT !.phase = 3]
    /\ UNCHANGED <<st, cur, list, rq, touched, zero, blocks, todo, mark, spoiled>>

\* Phase 3: on with the program, an aborted instruction is dispatched again.
Resume ==
    /\ st = "alloc" /\ ~rq.oom /\ al.phase = 3
    /\ st' = "run"
    /\ rq' = [rq EXCEPT !.abort = FALSE, !.need = 0, !.explicit = FALSE, !.collected = FALSE]
    /\ al' = Idle
    /\ UNCHANGED <<cur, list, stale, touched, zero, blocks, todo, mark, spoiled>>

\* MemoryError: the instruction is over and its handler runs.
RaiseMemoryError ==
    /\ st = "alloc" /\ rq.oom
    /\ st' = "run" /\ todo' = <<>>
    /\ rq' = [Completed(rq) EXCEPT !.abort = FALSE, !.need = 0, !.explicit = FALSE,
                                   !.collected = FALSE, !.oom = FALSE]
    /\ al' = Idle
    /\ UNCHANGED <<cur, list, stale, touched, zero, blocks, mark, spoiled>>

----------------------------------------------------------------------------
Collector == Sweep \/ GiveUp

Allocator ==
    \/ StartCollection \/ NothingWanted \/ Wrap \/ OutOfMemory
    \/ TakeOnChip \/ TakeInMemory \/ HeaderWritten
    \/ ZeroRun \/ Resume \/ RaiseMemoryError

Program ==
    \/ \E r \in Requests : Allocate(r) \/ Abort(r)
    \/ \E b \in blocks : Drop(b)
    \/ \E explicit \in BOOLEAN : Collect(explicit)
    \/ HeapMark \/ HeapRelease

Next == Collector \/ Allocator \/ Program

Spec == Init /\ [][Next]_vars

Busy == st \in {"gc", "alloc"} \/ (st = "run" /\ todo # <<>>)

\* The clock runs: a search, a collection and a second dispatch go on. While
\* the machine is busy the collector, the allocator and the second dispatch
\* are all that can step, and one of them can: this is their weak fairness.
FairSpec == Spec /\ ([]<>~Busy \/ []<><<Busy>>_vars)

----------------------------------------------------------------------------
(* Properties *)

Addr == 0 .. HEAP
Runs == [base : Addr, size : Addr]
Headers == [run : Runs, slot : Addr]
Listings == [ahead : Seq(Runs), below : Seq(Runs), memory : Seq(Headers)]
GuardCount == 0 .. 3
AllocPhase == 0 .. 4
GuardHeap == Addr \cup {-1}
Demands == [abort : BOOLEAN, need : Nat, explicit : BOOLEAN, collected : BOOLEAN,
            oom : BOOLEAN, count : GuardCount, heap : GuardHeap, largest : Addr]
Searches == [phase : AllocPhase, cand : Runs, put : Runs, addr : Addr, install : BOOLEAN,
             header : BOOLEAN, from : Addr, upto : Addr]

TypeOK ==
    /\ st \in {"run", "gc", "alloc", "halt"}
    /\ cur \in [ptr : Addr, limit : Addr, base : Addr] /\ cur.ptr <= cur.limit
    /\ list \in Listings /\ Len(list.ahead) + Len(list.below) <= RUN_ONCHIP
    /\ rq \in Demands /\ al \in Searches
    /\ stale \subseteq 0 .. HEAP - 1 /\ touched \in Addr /\ zero \in 0 .. HEAP + 1
    /\ blocks \subseteq [at : Addr, n : Addr]
    /\ mark = <<>> \/ mark[1] \in [ptr : Addr, now : BOOLEAN]

\* Runs the allocator has not looked at yet.
Unseen ==
    ToSet(list.ahead) \cup ToSet(list.below)
        \cup {e.run : e \in ToSet(list.memory)}

\* A run being put away or about to be installed.
InHand == IF st = "alloc" /\ ~rq.oom /\ al.phase = 4
          THEN {al.put} \cup (IF al.install THEN {al.cand} ELSE {}) ELSE {}

CurrentRun == [base |-> cur.ptr, size |-> cur.limit - cur.ptr]

\* Memory is booked once: the current run, the runs still listed, the skipped
\* runs and what the program can reach never share a granule, through aborts,
\* collections kept or not, wraps and releases of marks (pycore_core.sv
\* S_GC_ALLOC, S_GC_RUN, _bi_heap_release; gc.md invariant 5). While the rest
\* of the current run is being put away it is booked as that.
BookedOnce ==
    LET free == Unseen \cup InHand
                    \cup (IF al.put \in InHand /\ al.install THEN {} ELSE {CurrentRun})
        booked == {RunCells(r) : r \in {f \in free : f.size > 0}}
                      \cup {Cells(b) : b \in blocks} IN
    /\ \A s, t \in booked : s = t \/ s \cap t = {}
    /\ UNION booked \subseteq 0 .. HEAP - 1

\* Storage is zero when it is next allocated (gc.md invariant 6): whenever an
\* instruction starts, the whole current run is zero, whatever headers, strings
\* begun by an aborted instruction, and dead objects it held, unless a
\* collection was given up under an aborted instruction.
FreshStorage ==
    st = "run" /\ ~spoiled => RunCells(CurrentRun) \cap stale = {}

\* Storage is zero when it is next allocated, as gc.md invariant 6 says it:
\* without the exception. A collection given up for a string command that had
\* written some of its pieces keeps the current run and them (S_GC_RUN).
AlwaysFreshStorage ==
    st = "run" => RunCells(CurrentRun) \cap stale = {}

\* An instruction dispatched again after an abort fits, if it is checked as a
\* whole: the request was measured from the old bump pointer, and the slack of
\* one line pays for where its parts fall in the new run.
GrantFits ==
    st = "run" => \A r \in ToSet(todo) : ~r.split => Fits(r)

\* MemoryError is raised by the search only when the request was collected for
\* and no free run would hold it with the slack: no run is overlooked by the
\* rover, the wrap, the tables or the loop guard.
MemoryErrorWhenFull ==
    [][ rq'.oom /\ ~rq.oom /\ ~GiveUp =>
            /\ rq'.collected
            /\ \A r \in MaximalRuns((0 .. HEAP - 1) \ CellsOf(blocks)) : ~Fit(r) ]_vars

\* An aborted instruction is dispatched again until it completes or raises
\* MemoryError: retries with growing needs, and the loop guard, end.
AllocationEnds == todo # <<>> ~> todo = <<>>
=============================================================================
