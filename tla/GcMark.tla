------------------------------- MODULE GcMark -------------------------------
(***************************************************************************)
(* Marking in the collector (pycore_gc.sv) and the core states that drive  *)
(* it.  Two machines share a queue: the tracer reads roots and objects and *)
(* queues the handles it finds, the marker owns the bitmap and the mark    *)
(* stack and hands the tracer the next entry to scan.  The stack is a ring *)
(* on chip, a part in memory behind it, and a list of ranges to scan again *)
(* for the children that fitted in neither.                                *)
(*                                                                         *)
(* A memory access is one step at its acknowledge: the single request port *)
(* delays the two machines and no more.  An object's extent is one mark    *)
(* per part, set in one step, since only the marker reads the bitmap.  The *)
(* sweep is one step here, and a dmem fault, which only a pointer outside  *)
(* the heap can cause, is left out.                                        *)
(***************************************************************************)
EXTENDS Integers, Sequences, FiniteSets

CONSTANTS
  Obj,         \* objects
  Kind,        \* "tuple", "list", "dict", "obj" or "leaf" of each object
  Static,      \* the objects below heap_dyn_base
  WordOf,      \* bitmap word of each object
  WORDS,       \* number of bitmap words
  Heaps,       \* the heaps a collection may meet, by number
  Limits,      \* stack_limit_i, onchip_limit_i and rescan_limit_i values
  SCAN_CHUNK,  \* slots one pop scans
  SPILL_BATCH, \* entries one spill or refill moves
  QUEUE        \* entries of the queue between tracer and marker

VARIABLES
  core,      \* "program", "roots", "collect", "alloc" (S_GC_ALLOC), "raise"
  rootIdx,   \* register roots streamed so far
  heap,      \* number of the heap of this collection
  lim,       \* limits latched at start
  phase,     \* phase_r
  t,         \* the tracer
  m,         \* the marker
  queue, pending,            \* q_mem, tp_mem
  ring, stackMem, rescan,    \* mark stack on chip and in memory, rescan list
  haveEnt, rescDone,         \* m_have_ent_r, m_resc_done_r
  marked,                    \* parts marked in the bitmap
  clean, clearWord,          \* bitmap_clean_r, bg_clr_r / m_clr_r
  overflow                   \* overflow_r

coreVars == <<core, rootIdx, heap, lim>>
stackVars == <<ring, stackMem, rescan>>
clearVars == <<clean, clearWord>>
vars == <<coreVars, phase, t, m, queue, pending, stackVars, haveEnt, rescDone,
          marked, clearVars, overflow>>

(***************************************************************************)
(* The heap.  slots[o] is the first range of o (tuple items, list buffer,  *)
(* set table, dict order buffer, object fields) and table[o] a dict's      *)
(* table; an element is the sequence of handles one slot holds.  memroots  *)
(* are the memory-resident root ranges.  A slot holds at most two handles  *)
(* (key and value), a frame three.                                         *)
(***************************************************************************)
Slots == UNION {[1..n -> Obj] : n \in 0..2}
Frames == UNION {[1..n -> Obj] : n \in 0..3}

Parts(o) ==
  {o} \X (CASE Kind[o] \in {"tuple", "leaf"} -> {"head"}
            [] Kind[o] \in {"list", "obj"}   -> {"head", "body"}
            [] Kind[o] = "dict"              -> {"head", "body", "table"})

AllParts(S) == UNION {Parts(o) : o \in S}

Handles(range) == UNION {{range[i][j] : j \in DOMAIN range[i]} : i \in DOMAIN range}

Children(h, o) == Handles(h.slots[o]) \cup Handles(h.table[o])

Roots(h) == {h.reg[i] : i \in DOMAIN h.reg} \cup Handles(h.frames)
            \cup UNION {Handles(h.memroots[i]) : i \in DOMAIN h.memroots}

Closed(h, S) == \A o \in S : Children(h, o) \subseteq S

\* The objects a program with heap h can still reach.
Live(h) == {o \in Obj : \A S \in SUBSET Obj :
                          (Roots(h) \subseteq S /\ Closed(h, S)) => o \in S}

\* The core streams at most its registers and one register file of roots, far
\* fewer than the stack holds; the prune map names static objects that lead
\* to no object outside it.  Only a dict has a table, and a leaf holds nothing.
ASSUME GcAssumption ==
  /\ Obj # {}
  /\ Kind \in [Obj -> {"tuple", "list", "dict", "obj", "leaf"}]
  /\ Static \subseteq Obj
  /\ WORDS \in Nat \ {0}
  /\ WordOf \in [Obj -> 0..(WORDS - 1)]
  /\ {SCAN_CHUNK, SPILL_BATCH, QUEUE} \subseteq Nat \ {0}
  /\ Limits \subseteq [onchip : Nat \ {0}, mem : Nat \ {0}, resc : Nat \ {0}]
  /\ \A h \in {Heaps[i] : i \in DOMAIN Heaps} :
       /\ h.slots \in [Obj -> Seq(Slots)] /\ h.table \in [Obj -> Seq(Slots)]
       /\ \A o \in Obj : /\ Kind[o] # "dict" => h.table[o] = <<>>
                         /\ Kind[o] = "leaf" => h.slots[o] = <<>>
       /\ h.reg \in Seq(Obj) /\ h.frames \in Seq(Frames)
       /\ h.memroots \in Seq(Seq(Slots))
       /\ h.pruned \subseteq Static /\ Closed(h, h.pruned)
       /\ \A l \in Limits : Len(h.reg) <= l.onchip + l.mem + l.resc
-----------------------------------------------------------------------------
(* Entries of the stack and items of the queue *)

H == Heaps[heap]

ObjectEntry(o) == [k |-> "object", o |-> o, at |-> 1, n |-> 0]
RangeEntry(k, o, at, n) == [k |-> k, o |-> o, at |-> at, n |-> n]

\* What M_DEC pushes for a handle: a tuple is a range already, the other kinds
\* have a header to read first.
EntryOf(o) == IF Kind[o] = "tuple" THEN RangeEntry("range", o, 1, Len(H.slots[o]))
                                   ELSE ObjectEntry(o)

Handle(o) == [t |-> "handle", o |-> o]
Raw(o, part) == [t |-> "raw", o |-> o, part |-> part]
Cont(e) == [t |-> "cont", e |-> e]

HandlesOf(elem) == [i \in DOMAIN elem |-> Handle(elem[i])]

Chunk(n) == IF n > SCAN_CHUNK THEN SCAN_CHUNK ELSE n

\* The rest of a range beyond the chunk scanned now, if any.
Rest(k, o, at, n) ==
  IF n > SCAN_CHUNK THEN <<Cont(RangeEntry(k, o, at + SCAN_CHUNK, n - SCAN_CHUNK))>>
                    ELSE <<>>

StackFull == Len(ring) >= lim.onchip /\ Len(stackMem) >= lim.mem

\* stk_room8: whatever the queue, the pending buffer and the marker hold fits.
StackRoom == Len(ring) + Len(stackMem) + QUEUE + 4 <= lim.onchip + lim.mem

NoEntry == RangeEntry("none", CHOOSE o \in Obj : TRUE, 1, 0)
TracerIdle == [st |-> "idle", e |-> NoEntry, cont |-> FALSE, re |-> NoEntry, rng |-> 0]
MarkerIdle == [st |-> "idle", item |-> <<>>, push |-> NoEntry, batch |-> 0]

MarkerFree == m.st = "idle" /\ queue = <<>> /\ pending = <<>>
-----------------------------------------------------------------------------
(* Core: S_GC_ENTER, S_GC_ROOTS, S_GC_RUN and what follows them *)

\* S_GC_ENTER starts the engine on the heap the program has built.  An engine
\* that has just abandoned a collection still takes the items left in its
\* queue, a few cycles each; raising MemoryError and reaching the next
\* allocation takes the core longer than that.
Start ==
  /\ core = "program" /\ phase = "idle" /\ MarkerFree
  /\ \E h \in DOMAIN Heaps, l \in Limits : heap' = h /\ lim' = l
  /\ core' = "roots" /\ rootIdx' = 0
  /\ phase' = IF clean THEN "preload" ELSE "clear"
  /\ m' = [m EXCEPT !.st = IF clean THEN "preload" ELSE "clear"]
  /\ ring' = <<>> /\ stackMem' = <<>> /\ rescan' = <<>>
  /\ haveEnt' = FALSE /\ rescDone' = FALSE /\ overflow' = FALSE
  /\ UNCHANGED <<t, queue, pending, marked, clearVars>>

\* One register root a cycle while root_ready_o.
StreamRoot ==
  /\ core = "roots" /\ phase = "reg"
  /\ rootIdx < Len(H.reg) /\ Len(queue) < QUEUE
  /\ queue' = Append(queue, Handle(H.reg[rootIdx + 1]))
  /\ rootIdx' = rootIdx + 1
  /\ UNCHANGED <<core, heap, lim, phase, t, m, pending, stackVars, haveEnt, rescDone,
                 marked, clearVars, overflow>>

RootsDone ==
  /\ core = "roots" /\ phase = "reg" /\ rootIdx = Len(H.reg)
  /\ core' = "collect" /\ phase' = "mem"
  /\ t' = [t EXCEPT !.st = "memroot", !.rng = 0]
  /\ UNCHANGED <<rootIdx, heap, lim, m, queue, pending, stackVars, haveEnt, rescDone,
                 marked, clearVars, overflow>>

Resume ==
  /\ core \in {"alloc", "raise"} /\ core' = "program"
  /\ UNCHANGED <<rootIdx, heap, lim, phase, t, m, queue, pending, stackVars, haveEnt,
                 rescDone, marked, clearVars, overflow>>

Core == Start \/ StreamRoot \/ RootsDone \/ Resume
-----------------------------------------------------------------------------
(* Tracer *)

tracerKeeps == <<coreVars, m, queue, stackVars, haveEnt, marked, clearVars, overflow>>

\* T_MEMROOT: the next memory-resident range; after the last one, marking.
MemRoot ==
  /\ t.st = "memroot"
  /\ LET r == t.rng + 1
         last == Len(H.memroots)
     IN \/ /\ r <= last + 1
           /\ t' = [t EXCEPT !.st = "scan", !.cont = FALSE, !.rng = r,
                      !.e = RangeEntry(IF r <= last THEN "roots" ELSE "frames", @.o, 1,
                              Len(IF r <= last THEN H.memroots[r] ELSE H.frames))]
           /\ UNCHANGED phase
        \/ /\ r > last + 1
           /\ t' = [t EXCEPT !.st = "pop", !.rng = r] /\ phase' = "mark"
  /\ UNCHANGED <<pending, rescDone, tracerKeeps>>

RangeOf(e) ==
  CASE e.k = "roots"  -> H.memroots[t.rng]
    [] e.k = "frames" -> H.frames
    [] e.k = "table"  -> H.table[e.o]
    [] OTHER          -> H.slots[e.o]

\* A slip: the four-flit read of a frame is given room like any other element.
PendingRoomAnyElement(e, elem) == Len(pending) < IF Len(elem) > 1 THEN 2 ELSE 3

\* When the read of an element is issued there is room for what it delivers.
PendingRoom(e, elem) ==
  IF e.k = "frames" THEN pending = <<>>
                    ELSE Len(pending) < IF Len(elem) > 1 THEN 2 ELSE 3

\* T_TAG_W, T_VAL_W, T_LINE_W: read one element and queue its handles.
ScanElement ==
  /\ t.st = "scan" /\ t.e.n > 0
  /\ LET elem == RangeOf(t.e)[t.e.at] IN
       /\ PendingRoom(t.e, elem)
       /\ pending' = pending \o HandlesOf(elem)
  /\ t' = [t EXCEPT !.e.at = @ + 1, !.e.n = @ - 1]
  /\ UNCHANGED <<phase, rescDone, tracerKeeps>>

\* T_SCAN with nothing left and a dict table to follow.  The table becomes the
\* range to record, so no child of the order buffer may overflow any more.
TableMayStart ==
  \/ MarkerFree
  \/ ~rescDone /\ StackRoom /\ Len(H.table[t.e.o]) <= SCAN_CHUNK

StartTable ==
  /\ t.st = "scan" /\ t.e.n = 0 /\ t.cont /\ TableMayStart
  /\ LET n == Len(H.table[t.e.o])
         range == RangeEntry("table", t.e.o, 1, Chunk(n))
     IN /\ t' = [t EXCEPT !.cont = FALSE, !.e = range, !.re = range]
        /\ pending' = pending \o Rest("table", t.e.o, 1, n)
  /\ rescDone' = FALSE
  /\ UNCHANGED <<phase, tracerKeeps>>

ScanEnd ==
  /\ t.st = "scan" /\ t.e.n = 0 /\ ~t.cont
  /\ t' = [t EXCEPT !.st = IF phase = "mem" THEN "memroot" ELSE "pop"]
  /\ UNCHANGED <<phase, pending, rescDone, tracerKeeps>>

\* T_HDR_W to T_HDR3_W and T_BA_CAP_W: the header of a popped object names its
\* buffers, which are marked raw, and the range to scan.
Header ==
  /\ t.st = "header"
  /\ LET o == t.e.o
         n == Len(H.slots[o])
         range == RangeEntry("range", o, 1, Chunk(n))
         scan == [t EXCEPT !.st = "scan", !.e = range, !.re = range]
     IN \/ /\ Kind[o] = "obj"
           /\ pending' = Append(pending, Raw(o, "body"))
           /\ t' = [t EXCEPT !.st = "scan", !.e = RangeEntry("range", o, 1, n)]
        \/ /\ Kind[o] = "list"
           /\ pending' = Append(pending, Raw(o, "body")) \o Rest("range", o, 1, n)
           /\ t' = scan
        \/ /\ Kind[o] = "dict"
           /\ pending' = pending \o <<Raw(o, "body"), Raw(o, "table")>>
                                 \o Rest("range", o, 1, n)
           /\ t' = [scan EXCEPT !.cont = TRUE]
  /\ UNCHANGED <<phase, rescDone, tracerKeeps>>

\* tp_drain: one pending item a cycle moves to the queue.
Drain ==
  /\ pending # <<>> /\ Len(queue) < QUEUE
  /\ queue' = Append(queue, Head(pending)) /\ pending' = Tail(pending)
  /\ UNCHANGED <<coreVars, phase, t, m, stackVars, haveEnt, rescDone, marked, clearVars,
                 overflow>>

Tracer == MemRoot \/ ScanElement \/ StartTable \/ ScanEnd \/ Header
-----------------------------------------------------------------------------
(* Marker: queue items *)

markerKeeps == <<coreVars, pending, clearVars>>

\* M_IDLE with an item, whatever the phase.
Take ==
  /\ m.st = "idle" /\ queue # <<>>
  /\ m' = [m EXCEPT !.st = "decode", !.item = Head(queue)]
  /\ queue' = Tail(queue)
  /\ UNCHANGED <<phase, t, stackVars, haveEnt, rescDone, marked, overflow, markerKeeps>>

decodeKeeps == <<phase, t, queue, stackVars, haveEnt, overflow, markerKeeps>>

\* A continuation is pushed unmarked, or recorded when the stack is full.
DecodeContinuation ==
  /\ m.st = "decode" /\ m.item.t = "cont"
  /\ m' = [m EXCEPT !.push = m.item.e, !.st = IF StackFull THEN "record" ELSE "push"]
  /\ UNCHANGED <<rescDone, marked, decodeKeeps>>

DecodeRaw ==
  /\ m.st = "decode" /\ m.item.t = "raw"
  /\ marked' = marked \cup {<<m.item.o, m.item.part>>}
  /\ m' = [m EXCEPT !.st = "idle"]
  /\ UNCHANGED <<rescDone, decodeKeeps>>

IsMarked(o) == <<o, "head">> \in marked

Pushable(o) == Kind[o] # "leaf"

\* A child that does not fit stays unmarked, and the range the tracer is in is
\* recorded once.  A root has no range: it is marked and recorded itself.
LeaveChild(o) == Pushable(o) /\ StackFull /\ haveEnt

DecodeHandle ==
  /\ m.st = "decode" /\ m.item.t = "handle"
  /\ LET o == m.item.o IN
       \/ /\ IsMarked(o)
          /\ m' = [m EXCEPT !.st = "idle"] /\ UNCHANGED <<marked, rescDone>>
       \/ /\ ~IsMarked(o) /\ LeaveChild(o)
          /\ m' = IF rescDone THEN [m EXCEPT !.st = "idle"]
                              ELSE [m EXCEPT !.st = "record", !.push = t.re]
          /\ rescDone' = TRUE /\ UNCHANGED marked
       \/ /\ ~IsMarked(o) /\ ~LeaveChild(o)
          /\ marked' = marked \cup {<<o, "head">>}
          /\ m' = IF Pushable(o) THEN [m EXCEPT !.st = "push", !.push = EntryOf(o)]
                                 ELSE [m EXCEPT !.st = "idle"]
          /\ UNCHANGED rescDone
  /\ UNCHANGED decodeKeeps
-----------------------------------------------------------------------------
(* Marker: the stack *)

stackKeeps == <<phase, t, queue, haveEnt, rescDone, marked, overflow, markerKeeps>>

Push ==
  /\ m.st = "push"
  /\ \/ /\ Len(ring) < lim.onchip
        /\ ring' = Append(ring, m.push) /\ m' = [m EXCEPT !.st = "idle"]
     \/ /\ Len(ring) >= lim.onchip
        /\ m' = [m EXCEPT !.st = "spill", !.batch = 0] /\ UNCHANGED ring
  /\ UNCHANGED <<stackMem, rescan, stackKeeps>>

SpillOver == \/ m.batch = SPILL_BATCH
             \/ ring = <<>>
             \/ lim.onchip < 4 /\ m.batch # 0

\* M_SPILL: the oldest entries go to memory; with no room there either, the
\* entry goes to the rescan list.
Spill ==
  /\ m.st = "spill"
  /\ \/ /\ SpillOver
        /\ m' = [m EXCEPT !.st = "push"] /\ UNCHANGED <<ring, stackMem>>
     \/ /\ ~SpillOver /\ Len(stackMem) >= lim.mem
        /\ m' = [m EXCEPT !.st = IF m.batch # 0 THEN "push" ELSE "record"]
        /\ UNCHANGED <<ring, stackMem>>
     \/ /\ ~SpillOver /\ Len(stackMem) < lim.mem
        /\ stackMem' = Append(stackMem, Head(ring)) /\ ring' = Tail(ring)
        /\ m' = [m EXCEPT !.batch = @ + 1]
  /\ UNCHANGED <<rescan, stackKeeps>>

RefillOver == m.batch = SPILL_BATCH \/ stackMem = <<>> \/ Len(ring) >= lim.onchip

\* M_REFILL: the newest spilled entries return below the ring's bottom.
Refill ==
  /\ m.st = "refill"
  /\ \/ /\ RefillOver
        /\ m' = [m EXCEPT !.st = "idle"] /\ UNCHANGED <<ring, stackMem>>
     \/ /\ ~RefillOver
        /\ ring' = <<stackMem[Len(stackMem)]>> \o ring
        /\ stackMem' = SubSeq(stackMem, 1, Len(stackMem) - 1)
        /\ m' = [m EXCEPT !.batch = @ + 1]
  /\ UNCHANGED <<rescan, stackKeeps>>

\* M_RESC_WR with room.
Record ==
  /\ m.st = "record" /\ Len(rescan) < lim.resc
  /\ rescan' = Append(rescan, m.push) /\ m' = [m EXCEPT !.st = "idle"]
  /\ UNCHANGED <<ring, stackMem, stackKeeps>>

\* A slip: the range read back stays on the list.
ReadBackKeeps ==
  /\ m.st = "readback"
  /\ ring' = Append(ring, rescan[Len(rescan)])
  /\ m' = [m EXCEPT !.st = "idle"]
  /\ UNCHANGED <<rescan, stackMem, stackKeeps>>

\* M_RESC_RD: the newest recorded range returns to the empty stack.
ReadBack ==
  /\ m.st = "readback"
  /\ ring' = Append(ring, rescan[Len(rescan)])
  /\ rescan' = SubSeq(rescan, 1, Len(rescan) - 1)
  /\ m' = [m EXCEPT !.st = "idle"]
  /\ UNCHANGED <<stackMem, stackKeeps>>

\* M_IDLE, nothing in flight, the tracer in T_POP.
PopReady == MarkerFree /\ phase = "mark" /\ t.st = "pop"

\* A slip: "this range is recorded" outlives the entry it was said of.
ScanKeepsRescDone(e) ==
  /\ haveEnt' = TRUE /\ UNCHANGED rescDone
  /\ IF e.k = "object"
       THEN /\ t' = [t EXCEPT !.e = e, !.re = e, !.cont = FALSE, !.st = "header"]
            /\ UNCHANGED pending
       ELSE LET range == RangeEntry(e.k, e.o, e.at, Chunk(e.n)) IN
            /\ t' = [t EXCEPT !.e = range, !.re = range, !.cont = FALSE, !.st = "scan"]
            /\ pending' = pending \o Rest(e.k, e.o, e.at, e.n)

\* The popped entry starts a scan, or the read of a header.
Scan(e) ==
  /\ haveEnt' = TRUE /\ rescDone' = FALSE
  /\ IF e.k = "object"
       THEN /\ t' = [t EXCEPT !.e = e, !.re = e, !.cont = FALSE, !.st = "header"]
            /\ UNCHANGED pending
       ELSE LET range == RangeEntry(e.k, e.o, e.at, Chunk(e.n)) IN
            /\ t' = [t EXCEPT !.e = range, !.re = range, !.cont = FALSE, !.st = "scan"]
            /\ pending' = pending \o Rest(e.k, e.o, e.at, e.n)

Pop ==
  /\ PopReady /\ ring # <<>>
  /\ ring' = SubSeq(ring, 1, Len(ring) - 1)
  /\ Scan(ring[Len(ring)])
  /\ UNCHANGED <<coreVars, phase, m, queue, stackMem, rescan, marked, clearVars, overflow>>

\* Nothing on chip: refill, else a recorded range, else marking is over.
NextWork ==
  /\ PopReady /\ ring = <<>>
  /\ \/ /\ stackMem # <<>>
        /\ m' = [m EXCEPT !.st = "refill", !.batch = 0] /\ UNCHANGED phase
     \/ /\ stackMem = <<>> /\ rescan # <<>>
        /\ m' = [m EXCEPT !.st = "readback"] /\ UNCHANGED phase
     \/ /\ stackMem = <<>> /\ rescan = <<>>
        /\ m' = [m EXCEPT !.st = "sweep"] /\ phase' = "sweep"
  /\ UNCHANGED <<t, queue, stackVars, haveEnt, rescDone, marked, overflow, markerKeeps>>
-----------------------------------------------------------------------------
(* Marker: start and end of a collection *)

EraseWord(w) == marked' = {p \in marked : WordOf[p[1]] # w}

StaticWords == {WordOf[o] : o \in Static}

\* M_CLEAR, and the clear the idle engine runs in the background.  Leftover
\* items of an abandoned collection are gone before the background clear gets
\* past the words of the static image.
ClearWord ==
  /\ ~clean
  /\ \/ m.st = "clear"
     \/ phase = "idle" /\ (clearWord \in StaticWords \/ MarkerFree)
  /\ EraseWord(clearWord)
  /\ IF clearWord = WORDS - 1
       THEN /\ clean' = TRUE /\ clearWord' = 0
            /\ IF m.st = "clear"
                 THEN phase' = "preload" /\ m' = [m EXCEPT !.st = "preload"]
                 ELSE UNCHANGED <<phase, m>>
       ELSE clearWord' = clearWord + 1 /\ UNCHANGED <<clean, phase, m>>
  /\ UNCHANGED <<coreVars, t, queue, pending, stackVars, haveEnt, rescDone, overflow>>

\* M_PRE: the static words are overwritten by the prune map.
Preload ==
  /\ m.st = "preload"
  /\ marked' = {p \in marked : WordOf[p[1]] \notin StaticWords} \cup AllParts(H.pruned)
  /\ phase' = "reg" /\ m' = [m EXCEPT !.st = "idle"]
  /\ UNCHANGED <<t, queue, stackVars, haveEnt, rescDone, overflow, markerKeeps>>

\* The sweep erases the bitmap behind itself.
Sweep ==
  /\ m.st = "sweep"
  /\ marked' = {} /\ m' = [m EXCEPT !.st = "done"]
  /\ UNCHANGED <<phase, t, queue, stackVars, haveEnt, rescDone, overflow, markerKeeps>>

\* A slip: the marks of an abandoned collection are taken for a clean bitmap.
AbandonKeepsClean ==
  /\ m.st = "record" /\ Len(rescan) >= lim.resc
  /\ overflow' = TRUE /\ phase' = "finish" /\ m' = [m EXCEPT !.st = "done"]
  /\ UNCHANGED <<coreVars, t, queue, pending, stackVars, haveEnt, rescDone, marked, clearVars>>

\* M_RESC_WR with a full list: the collection is abandoned and its marks stay,
\* so the bitmap is no longer clean.
Abandon ==
  /\ m.st = "record" /\ Len(rescan) >= lim.resc
  /\ overflow' = TRUE /\ phase' = "finish" /\ m' = [m EXCEPT !.st = "done"]
  /\ clean' = FALSE /\ clearWord' = 0
  /\ UNCHANGED <<coreVars, t, queue, pending, stackVars, haveEnt, rescDone, marked>>

\* M_DONE: queue and pending buffer are left as they are.
Finish ==
  /\ m.st = "done"
  /\ phase' = "idle" /\ m' = MarkerIdle /\ t' = TracerIdle
  /\ core' = IF core = "collect" THEN IF overflow THEN "raise" ELSE "alloc" ELSE core
  /\ UNCHANGED <<rootIdx, heap, lim, queue, pending, stackVars, haveEnt, rescDone, marked,
                 clearVars, overflow>>

Marker == \/ Take \/ DecodeContinuation \/ DecodeRaw \/ DecodeHandle
          \/ Push \/ Spill \/ Refill \/ Record \/ ReadBack \/ Pop \/ NextWork
          \/ Preload \/ Sweep \/ Abandon \/ Finish
-----------------------------------------------------------------------------
Init ==
  /\ core = "program" /\ rootIdx = 0
  /\ heap \in DOMAIN Heaps /\ lim \in Limits
  /\ phase = "idle" /\ t = TracerIdle /\ m = MarkerIdle
  /\ queue = <<>> /\ pending = <<>>
  /\ ring = <<>> /\ stackMem = <<>> /\ rescan = <<>>
  /\ haveEnt = FALSE /\ rescDone = FALSE /\ overflow = FALSE
  /\ marked = AllParts(Obj)   \* RAM contents after reset
  /\ clean = FALSE /\ clearWord = 0

Next == Core \/ Tracer \/ Drain \/ Marker \/ ClearWord

\* Each machine steps every clock; only the program decides when to collect.
Fairness ==
  /\ WF_vars(StreamRoot) /\ WF_vars(RootsDone)
  /\ WF_vars(Tracer) /\ WF_vars(Drain) /\ WF_vars(Marker) /\ WF_vars(ClearWord)

Spec == Init /\ [][Next]_vars

FairSpec == Spec /\ Fairness
-----------------------------------------------------------------------------
(* Properties *)

\* What must be marked in each heap.
Reachable == [h \in DOMAIN Heaps |-> Live(Heaps[h])]

Entry == [k : {"none", "object", "range", "table", "roots", "frames"}, o : Obj,
          at : Nat, n : Nat]

Item == [t : {"handle"}, o : Obj] \cup [t : {"raw"}, o : Obj, part : {"body", "table"}]
        \cup [t : {"cont"}, e : Entry]

TracerType == [st : {"idle", "memroot", "scan", "pop", "header"}, e : Entry, cont : BOOLEAN,
               re : Entry, rng : Nat]

MarkerType == [st : {"idle", "clear", "preload", "decode", "push", "spill", "refill",
                     "record", "readback", "sweep", "done"},
               item : Item \cup {<<>>}, push : Entry, batch : 0..SPILL_BATCH]

\* The registers hold values of their types and the stack, the rescan list, the
\* queue and the pending buffer stay within their capacities.  The queue and the
\* pending buffer have no full flag of their own: each producer looks at the room
\* when it issues the read whose answer it will append.
TypeOK ==
  /\ core \in {"program", "roots", "collect", "alloc", "raise"}
  /\ heap \in DOMAIN Heaps /\ lim \in Limits
  /\ rootIdx \in Nat
  /\ phase \in {"idle", "clear", "preload", "reg", "mem", "mark", "sweep", "finish"}
  /\ t \in TracerType /\ m \in MarkerType
  /\ queue \in Seq(Item) /\ Len(queue) <= QUEUE
  /\ pending \in Seq(Item) /\ Len(pending) <= 3
  /\ ring \in Seq(Entry) /\ Len(ring) <= lim.onchip
  /\ stackMem \in Seq(Entry) /\ Len(stackMem) <= lim.mem
  /\ rescan \in Seq(Entry) /\ Len(rescan) <= lim.resc
  /\ {haveEnt, rescDone, clean, overflow} \subseteq BOOLEAN
  /\ marked \subseteq AllParts(Obj)
  /\ clearWord \in 0..(WORDS - 1)

\* When the sweep starts, every object the program can reach is marked with its
\* buffers, whatever did not fit in the stack on the way and whatever an earlier,
\* abandoned collection left in the bitmap or the queue: the sweep frees no live
\* memory.
NothingLost == m.st = "sweep" => AllParts(Reachable[heap]) \subseteq marked

\* From the preload on, a mark stands for an object the program can reach or one
\* the prune map names: no mark of an earlier collection keeps garbage, and no
\* item of one is taken for work of this one.
NothingRetained ==
  phase \in {"reg", "mem", "mark", "sweep"} =>
    marked \subseteq AllParts(Reachable[heap] \cup H.pruned)

\* A collection the core waits for ends, in the allocator or in MemoryError: the
\* ranges recorded for a second scan run out, and tracer and marker never wait
\* for each other.
CollectionEnds == core = "roots" ~> core \in {"alloc", "raise"}
=============================================================================
