# Python-CPU in TLA+

pycore is a CPU in SystemVerilog that executes CPython 3.14 bytecode. A second,
small RISC-V hart (excore) runs firmware that finishes the operations pycore
traps on. This directory holds TLA+ models of its control, the TLC
configurations that check them on small instances, and proofs for every value
of the constants. Paths below are relative to the repository
(`src/` in `PROJECT.json`).

## 1. The system

| Component | State | Operations | Talks to |
|---|---|---|---|
| Core FSM (`pycore/rtl/pycore_core.sv`, `pycore_call_fsm.svh`, `pycore_cont_*.svh`) | `state_r`, phase, latched operands, call and container registers | one bytecode instruction at a time; multi-cycle CALL, RETURN, RAISE, container operations, traps | register file, frame stack, data port, collector, mailbox |
| Register window (`pycore_regfile.sv`, `S_RF_SPILL`, `S_RF_FILL`) | 256-entry ring; `tos_r`, `rf_wm_r`, `cur_locals_base_r`; spill area and `spill_sp_r` | push, pop, load and store local, spill, fill, enter and leave a frame | frame stack, data memory |
| Frame stack, exception-info stack (`pycore_frame.sv`, `pycore_exc_stack.sv`) | depth, a two-slot staging of 128-bit descriptors / entries | push and pop in two beats, fault when full or empty or malformed | core FSM, data memory |
| L1 caches (`pycore_cache.sv`, `pycore_cache_lru.sv`), L2, crossbar, RAM | valid, dirty, tags, ages, miss slots, write-back buffer | hit, miss, zero-line bypass, non-blocking fill, flush, invalidate | core, collector, excore slot port |
| Trap handoff (`pycore_excore_system.sv`, `pycore_mem_hier.sv`, `excore/rtl/trap_mailbox.sv`, `excore_mmio.sv`) | owner of memory, flush and invalidate handshake, mailbox, slot port | marshal a trap, flush, hand memory over, poll, slot accesses, reply, invalidate, resume | both cores, L1D |
| Collector (`pycore_gc.sv`, `S_GC_*`) | roots, mark queue, free runs | abort an allocation, mark, sweep, dispatch again | core FSM, L1D's non-blocking port |
| Dict (`pycore_cont_dict.svh`, `pycore_cont_list.svh`, `excore/fw/list_grow.s`) | slot table, order buffer, header with count and version; iterator | look up, overwrite, insert, delete, walk on the hart; grow and update in the firmware | data port, growth trap |
| Other containers, attributes, closures | heap objects in memory | list, set, tuple, attribute operations | data port, inline caches, growth traps |
| CODC, GIC | 2-way associative copies of code objects and globals | look up, fill, invalidate | CALL, LOAD_GLOBAL, collector |
| Fetch, decode, branch, arithmetic, strings, content-addressed accelerator | pipeline latches | sequential data path | core FSM |
| Self-hosted compiler (`pycore_firmware/compiler/`) | tokens, two stacks of the parser, node and scope tables, instructions, labels, exception rows | lex, parse, symbol table, fold, generate, fuse, assemble | runs on the machine and on the host |
| Host stand-in (`_HostEmittedCode` in `pycore/tools/image_from_source.py`) | value stack, frames, handler table | one opcode at a time | code objects of the compiler |
| Image builder (`pycore/tools/image_from_source.py`) | code objects being rewritten | fold slices, stars, defaults and classes; check; lay out; serialize | host CPython's code objects, loader |
| Firmware handlers, Python built-ins, other host tools | program data | sequential programs | mailbox, slot port |

In the hardware what is hard is not the data path but what moves between parts on one
clock: a ring whose two equal pointers mean empty; residency decided from
wrapped indices; a fill decision that uses a pointer of the wrong frame;
handshakes of one-cycle pulses across four state machines; a cache that must
hold nothing while another master writes below it; prefetches of the collector
still in flight when a trap is raised; result registers that outlive their trap.
In the software it is long sequences of legal steps over shared state: one pair of
stacks for all nested parses; counters of the code generator that every construct has
to raise and lower again on every way out; rewrites of code in place, one after the
other; a table that two machines with a hash function each store into.
Nothing is persisted, so there is no crash recovery; no message is lost or
duplicated, since all parts share one clock.

What makes each part correct:

- register window: a running frame finds every local and operand it left;
  a spill or fill moves exactly the missing entries; a full ring is not taken for
  an empty one; a multi-cycle call comes back;
- trap handoff: one master at a time; both masters see one memory; each trap is
  answered once, by its own result, and is answered at all;
- frame stack, exception stack: a stack, whatever the beats;
- caches: one memory; no request lost; true least-recently-used victim;
- collector: an aborted allocation has no effect and is dispatched again once;
  every reachable object is marked before the sweep;
- dict: it answers like a Python dict, whichever machine stored the key, and a walk
  keeps the order;
- lexer and parser: the tree that comes back is the one the text was written from;
- code generator: the code does what its source says;
- image builder: the image does what the code object did;
- CODC, GIC: an entry is never older than what it copies.

## 2. Modules

| Module | What it is |
|---|---|
| `PyStack` | The evaluation stack of the bytecode without a machine: what CPython's own stack holds. Reference for the window. |
| `RfWindow` | The register window and the states of the core that move frames. |
| `RfWindowSafe` | The limits on programs under which the window keeps its promises, as a named assumption. |
| `MCRfWindow`, `MCRfWindowSafe` | Small rings and code objects for TLC: any program; programs within the limits. |
| `RfWindowSafeProofs` | Arithmetic of ring indices; type correctness and the hysteresis of the window for every ring, program and limit; its safety properties for every program within `WindowBudget`. |
| `SharedMemory` | The abstract specification of the handoff: one memory, an owner, reads return the last write. |
| `TrapHandoff` | The handoff clock by clock: core, mailbox, owner gate, sequencer, L1D, slot port, hart. |
| `GcMark` | Roots, tracing and marking of the collector, its mark stack and rescan list, and the core states around it. |
| `MCGcMark` | Nine objects, six heaps and five sets of limits for TLC. |
| `GcMarkProofs` | Types of the collector, and that the sweep finds exactly the reachable objects marked, for every heap and every limit. |
| `GcAlloc` | The heap allocator: bump allocation, abort and re-dispatch, free runs, zeroing, heap marks; a collection is its sweep. |
| `MCGcAlloc` | Three kinds of allocating instruction for TLC. |
| `NatLemmas` | Induction, minimum and maximum over sets of numbers, in a form other proofs can cite. |
| `GcAllocProofs` | All safety properties of the allocator, for every heap, line, run table and set of requests. |
| `TrapHandoffProofs` | All safety properties of the handoff, and the refinement, for every value of the constants. |
| `PycLexer`, `PycParser` | The front end of the compiler: a state machine for the lexer, operators on a parse state for the parser. |
| `PySourceText`, `PyTrees` | The reference for them: the text of a tree in several layouts; trees by hand. |
| `PycLexerProofs` | Every token stream is well nested and the loop of the lexer never stands still, for every text. |
| `MCPycFront` | Expressions in every place of an expression, statements in four layouts, spellings, broken texts, number texts. |
| `PycSymtab`, `PycCodegen`, `PycAssemble` | The back end: symbol table, code generator, peephole and assembly with the exception table. `PycThread` is their fold. |
| `HostEmitted`, `PyValues` | The stand-in that runs the emitted code on the host, one opcode a step; the values. |
| `PySource` | The reference: what the program means, evaluated on the tree. |
| `PycExec`, `MCPycExec` | Compiler, stand-in and reference put together; the programs. |
| `ImgCode` | Code units of an image and a machine that runs them as CPython does or as the hart does. |
| `ImgPasses`, `ImgBuild` | The rewrites of the image builder; class folding, the opcode gate, the layout and the serializer. |
| `ImgPipeline`, `MCImgPipeline` | A program, its image and the two runs in step; the programs. |
| `ImgLayout` | When two layouts of a code object correspond, instruction by instruction; which code objects can be laid out so. |
| `ImgLayoutProofs` | The layout without CACHE units keeps what code does, for every code object that can be laid out. |
| `PyDict` | The abstract specification: what a Python dict promises. |
| `DictTable` | The open-addressed table, the order buffer and the iterator, worked on by the hart and the firmware. |
| `DictPromise`, `MCDictPromise` | `DictTable` implements `PyDict`; keys that collide, keys that are equal across tags, and None. |
| `DictPromiseProofs` | What the operations make of a table: the order buffer never overflows, and the same refinement for all keys, sizes and programs. |

### Register window

A step is one instruction, or one state of a multi-cycle instruction (spill and
fill: one entry). `tos`, `wm`, `lb` are the wrapped pointers. The values in the
ring are opaque. In lockstep the module runs `PyStack` in history variables
(`stk`, `top`, `base`, `acc`, `pyframes`), with unwrapped positions: this is what
the program believes. `WindowFaithful` compares the two whenever an instruction
is about to start. The history also limits a program to what a compiler emits
(`Depth`: never pops an operand it did not push, never exceeds its declared
stack); no guard of the machine reads it.

`Call` stands for phases 0-6 and 14 of `S_CALL` (which touch the ring only by
writing defaults); `StartSpill`, `SpillEntry`, `SpillDone`, `PushFrame` for phase 7
and `S_RF_SPILL`; `ReturnValue`, `PopFrame`, `FillEntry`, `FillDone`, `WriteBack` for
`S_RETURN` and `S_RF_FILL`; `Raise`, `HandlerHit`, `HandlerMiss` for the exception
table walk of `CONT_RAISE`. Traps freeze the machine (`Halt`).

### Trap handoff

All parts are clocked together, so the next-state relation is a conjunction of
one step of each: `CoreClk /\ MbClk /\ GateClk /\ SeqClk /\ FwClk /\ MemClk`, each
reading only unprimed registers and the combinational wires defined from them. A
latency (miss, write-back, fill, crossbar, hart) is a step that may be put off.
The L1D is a partial map from lines to values; any line may be the victim. `l2`
is what lies below it. The refinement mapping reads the memory pycore would see
(`View`): the line if present, else `l2`.

The firmware is any sequence of slot accesses, then a reply; it reads `MB_STATUS`
as `wait_trap` does. Two MMIO accesses are at least `HART_GAP` cycles apart: the
multicycle hart needs five stages an instruction, the model only needs one cycle.

### Collector

`pycore_gc.sv` is two machines and a queue. The tracer reads the roots and the
objects it is handed and queues the handles it finds; the marker owns the bitmap
and the mark stack and hands the tracer the newest entry once nothing is in
flight. `Tracer` and `Marker` are the disjunctions of the states of `t_st_r` and
`m_st_r`; `Drain` moves an item from the tracer's pending buffer to the queue. A
memory access is one step, taken at its acknowledge: the port has one request
outstanding and the marker wins ties, so the other machine sees only a delay. An
object's extent is one mark per part (`head`; `body`: list buffer, fields, order
buffer; `table`). The object kinds that are walked alike share a kind: sets walk
like lists, code objects like objects, strings like leaves.

The stack fills in three stages, all of them actions: `Spill` moves the oldest
entries to memory, `LeaveChild` drops a child and has the range of the tracer
recorded (`Record`), and a full rescan list gives the collection up (`Abandon`).
`Abandon` is `M_RESC_WR` and the abort block of the next cycle in one step. What
an abandoned collection leaves (marks, items in queue and pending buffer) is kept
and taken in `P_IDLE`, since `M_IDLE` does not look at the phase. `Start` waits
for these few items and the background clear does not pass the static words before
they are gone: the engine takes an item in some cycles, while the core raises
`MemoryError` and runs at least an instruction first, and a bitmap word stands for
2 KB. This is the one timing assumption of the module.

The sweep is one step that erases the bitmap; what it makes of the free memory is
`GcAlloc`'s.

### Allocator

`GcAlloc` is the other side of the collection. Addresses are granules of 16 bytes. An
instruction allocates a sequence of parts (an object and its buffers), checked either all
at once (`GC_CONT_OOM`, `GC_CALL_OOM`, the content-addressed unit) or part by part as they
are written (the string accelerator, `split`). `Abort` is `GC_ABORT_COMMON`; the actions
from `StartCollection` to `RaiseMemoryError` are the phases of `S_GC_ALLOC`, one step per
header read or written and one for the zeroing loop. Reachability is a set `blocks` the
program adds to and drops from; `Sweep` turns its complement into the free runs as
`M_SW_SCAN` lists them (in the engine's table, in the table in memory, in the run itself) and
does the bookkeeping of `S_GC_RUN`; `GiveUp` is a collection abandoned there. `mark` is a
value of `_bi_heap_mark()`.

What memory holds is one bit a granule, and only of the current run: `stale`. Dead memory
below `touched`, the highest granule ever written, may hold anything when its run is
installed. The skipped list is not state: nothing in the code reads
`run_skipped_head_r` but the headers it is written into.

### Self-hosted compiler

The compiler is a Python program of its own without concurrency; its state is
hand-made (packed integers in growing lists, globals saved and restored around nested
calls). The modules keep the control and hold the state in records. `PycLexer` is a
state machine: a step is a turn of the loop of `_pyc_lex`, or one character of an f-string.
`PycParser` is a shunting yard: `_pyc_parse_expr` and its helpers are operators from
parse state to parse state, with the one operand and operator stack all nested calls share.
`PycSymtab` walks the tree, `PycCodegen` visits it and threads the record `g` through the
visit, `PycAssemble` fuses pairs, resolves jumps with their EXTENDED_ARG and cache words and
packs the exception table. Trees are records; a scope is named by an id in its node.

The reference of the front end is the way back: `PySourceText` writes a tree as text, and
`RoundTrip` asks that lexer and parser return it. The reference of the back end is
`PySource`, an evaluator of trees with nothing of the compiler in it. Both runs are
closed by an environment that answers: an external call returns or raises any of
`Answers`, and what a program does to its surroundings (calls, attribute and subscript
stores) is its trace. `SameAsSource` compares traces and endings.

`HostEmitted` has one action per group of opcodes of `_HostEmittedCode`. It is not the
hart: calls nest, and the stack has no limit.

### Image builder

A program is a tree of code objects as CPython 3.14 hands them over, made by the small
assembler of `MCImgPipeline`. A unit is an opcode and one argument digit; `RADIX` stands
for 256. `Prepared` applies the passes in the order of `build_image_from_source_text` (or
of `seed_firmware_function`): `FoldClasses`, slices, stars, defaults, the gate, the layout,
the serializer. The run then moves the host and the hart from effect to effect together, each
effect going one way or the other (branch, failure). The two machines differ where the
hart does: constants that stand for types and defaults, and the unit at which an exception of
a callee is looked up (CACHE units are skipped on the host, cut from ROM bodies).

### Dict

Each operation is one step, because while one runs nothing else touches the dict (the hart
waits for its data port, and a trap hands memory over whole); a store that grows is two,
`StoreNew` on the hart up to the trap and `DictGrow` in the firmware. `Hash`, `SameKey` and
`FwHash`, `FwSameKey` are the two pairs of hash and comparison. `DictPromise` maps a table to the mapping its
look-ups answer, for each form of an equal key; every step is one of `PyDict`.

## 3. Runs

| Run | Question and answer |
|---|---|
| `rf_locals` | Ring of 6; recursion with spills and fills, locals loaded and stored. Locals, operands, return values survive; the ring never fills; no pop is trapped. |
| `rf_limits` | Ring of 10, three frames deep; spill area and frame stack exhausted, a function too wide to call, defaults and an exception handle carried through spills, fills and an unwinding of several frames. No fill reads below the spill area; every call comes back or halts; a spill leaves the hysteresis. |
| `rf_aliased_caller` | What happens beyond the limits: see section 6. A violation. |
| `handoff_cached` | Caches and collector on, two traps, one slot access each: all safety properties and the refinement. |
| `handoff_live` | Liveness: each trap is answered, each access acknowledged, with a `NEED_HEAP` delay of four cycles as in the code. |
| `gc_mark` | Any number of collections, abandoned or not, over six heaps (deep chains with a payload a level, shared children, dicts with children in both ranges, roots in registers, memory and frames) and five sets of limits: the sweep finds the reachable objects marked and nothing else, and each collection ends. |
| `gc_alloc` | Any sequence of allocations, drops, collections, marks and releases on a heap of six granules: memory is booked once, is zero when allocated, a granted request fits, `MemoryError` means that no free run would do, and each aborted instruction completes or raises. |
| `gc_unzeroed` | Memory that is not zero when allocated: see section 6. A violation. |
| `pyc_front` | 8,174 texts: programs of the supported grammar up to a small size in four layouts come back as their tree, broken texts are rejected, numbers are read as in Python, tokens are well nested, and the lexer ends. |
| `pyc_exec` | 828 programs, compiled and run with every answer to their calls: the calls and stores of the source in its order, no instruction that cannot be executed, no unbound local behind a fused load, no handler deeper than the stack. |
| `img_pipeline` | 1,785 programs through all rewrites, the image run in step with the original: the same effects, a stack that fits, and a build that accepts just the language. |
| `dict_table` | Literals, stores, growth from 4 to 8 and 16 slots, deletes, updates and walks in any order: every answer is that of a Python dict, and the order buffer never overflows. |

Bounds. The window never looks at a value, so one marked value among equal ones
(produced at most once) shows every loss and every mix-up; each run marks one
kind (a constant; a default and an exception handle). A ring of 6 to 10 and code
objects of 3 to 5 entries give the ratio at which two nested calls wrap and the
third spills, the unwrapped history goes round the ring several times, and
`MAX_CALL_DEPTH` is 3 or 4. In `rf_limits` both the frame stack and the spill area run full.
For the handoff two addresses are enough for a line
and its victim, two traps for a result or a pulse left over from the one before,
one or two slot operations for both orders of access. `MAX_TRAPS`,
`MAX_SLOT_OPS` bound the runs only; the proofs hold for all of them, for
`CACHE_EN = FALSE` as well. The
collector's state is finite without a bound on collections. Its limits go from one
entry each (where most collections are abandoned) to four on chip (the size at which a
spill moves a whole batch); `SCAN_CHUNK = 2`, `SPILL_BATCH = 2` and `QUEUE = 1` make
every range of three elements a continuation, every spill of two a batch and the
queue full whenever the tracer is ahead. The code has 256 entries on chip, 12,288 in
memory and 4,096 recorded ranges, chunks of 128, batches of 32 and a queue of four.
The allocator runs on six granules with lines of two, one run in the engine's table and none
in the table in memory, so that the second run has its header in place. Three small parts,
or one and a part that must start on a line, are enough for two free runs with live memory between
them, for the rover to lie between them, for a wrap, and for a heap too fragmented for the
slack of one line. `MAX_BLOCKS = 3` is the one bound of the run.

The compiler's runs are bounded by their programs. The front end gets every inner expression in
every place, and in every place of a place where a bracket or a mode of the parser can
interfere; the faults of a stack machine of this kind show with two levels. The number texts
are all strings up to a length over the characters a number is made of. The back end gets every
combination of a try statement's four parts, four ways out of them and six contexts, and
singles for the rest of the language; `MAX_EVENTS = 4` events let each part be entered, left
and followed by what comes after. `RADIX = 32` in place of 256 lets programs have two-digit
constants and jumps; `MaxEffects = 6` covers a loop twice with a handler. Dicts grow twice, keys
collide in 4 slots and part in 16, `MAX_VERSION = 6` changes of the key set is a
sequence long enough to fill 4 slots, grow, leave tombstones and grow again; a step that would
need a table larger than `Sizes` has is not taken.

The runs of the window and of the allocator say `CHECK_DEADLOCK FALSE` because a trap
freezes the core; those of the compiler and of the image builder because programs end.

Fairness. `WF_vars(MachineStep)` of the window: the clock runs, and a state other
than `S_FETCH` always has a next step; what the program does next is not fair.
In the handoff every part is clocked by the same clock and no part can hold the
clock of another; each latency is finite because the RAM answers after a fixed
count and the crossbar serves both sides in turn. So each part is weakly fair on
its own registers. pycore is not obliged to trap or to access memory, and the
firmware may make as many slot accesses as the bound allows but, like every
handler in `list_grow.s`, ends with a reply. In the collector tracer, marker, drain
and clear each step on every clock and the core streams roots whenever it may; when
to collect, and when to go on after it, is the program's choice and not fair. In the
allocator the clock runs: collector, `S_GC_ALLOC` and the second dispatch of an aborted
instruction go on, written with `Busy` because that is exactly when one of them can step.
The lexer is one loop that nothing interrupts: weak fairness of its next step.

## 4. Proofs

`RfWindowSafeProofs` proves, from `RingAssumption` and `CodeAssumption`, for any program:

- `TypeCorrect`: `Spec` keeps `TypeOK` (which includes that the spill pointer and the call
  depth never pass their areas). The invariant is inductive without strengthening; the one
  step that needs care is the number of entries left to spill or fill, which each action
  derives from the ring indices.
- `HysteresisHolds`, an action property: what is left to evict, taken from what is resident
  (`Leaves`), leaves the hysteresis free or nothing. `StartSpill` establishes it and each
  evicted entry takes one from both (`OccupiedEvict`, the modular step).
- The lemmas on `Ring` (`RingInjective`, `RingCongruent`, `RingPlus`, `RingMinus`,
  `RingDistance`) say when wrapped positions differ and how wrapping goes through sums.

With `WindowBudget` it proves `WindowFaithful`, `OperandFaithful`,
`RingNeverFull`, `SpillNeverUnderflows` and `NoFalseStackTrap`. None of them is inductive:
the pointers of the machine are wrapped, so a state that violates nothing may already have
the wrong frame in the ring. `WindowInv` unwraps them. The spill pointer `sp` is the position of the
watermark in the reference stack (`Frame`: `wm = Ring(sp)`), and then

- `Agree`: below `sp` the spill area, from `sp` up the ring holds the reference stack;
- `Chain` and `Link`: each descriptor is the wrapped image of a reference frame, and each of those
  frames has `Room`: it could still grow to its declared depth, with a callee's
  defaults above, before the ring is full. A fill moves `sp` down to the base of the frame, so
  `Room` survives it (`ChainGrows`); a call gets it from the spill test (`RoomCalled`);
- `Calling`, `Spilling`, `Filling`, `Returned`: what a half-done call or return may rely on.
  That a return fills exactly what is missing is arithmetic on `Ring` (`FillNothing`,
  `FillMissing`, `FillBounded`), and is where `PairFits` is needed;
- `Sound` and `Unwound`: an unwinding keeps the top of stack of its raise. Once a frame is more than a
  ring below it the index test errs and the ring's contents are lost, so `Agree` is claimed
  only at a distance of at most `RF_DEPTH`. No handler is reached further down
  (`UnwindFits`); the spill pointer is right all the same (`SpillNeverUnderflows`).

Each of the five limits of `WindowBudget` is used: `LeavesOneFree` and `LeavesDefaultsFree` in
`Fits` and `RoomCalled`, `KeepsArguments` in `Fits` and `StartSpillStep`, `PairFits` in `BelowFacts`,
`UnwindFits` in `HandlerFacts`. TLC checked `WindowInv` on the constants of `rf_locals` and
`rf_limits` before it was proved.

`TrapHandoffProofs` proves, from `HandoffAssumption` alone:

- `HandoffInvariant`: `[]HandoffInv`. The safety properties are far from
  inductive, because each depends on where a pulse is between four machines.
  `HandoffInv` says it register by register: `CoreInv` (what the core's state
  says about its request), `PartyInv` (which of core, mailbox, gate and firmware
  holds the trap), `FlushInv` and `InvalInv` (in which of its stages a flush or an
  invalidation is, exactly one register holding its pulse), `DataInv` (no line
  and no fill from the end of the flush to the end of the invalidation; each fill
  answered carries what is below; each clean line equals what is below).
- `OneMasterHolds`, `NoRequestDroppedHolds`, `DrainedForExcoreHolds` follow.
- `ImplementsOneMemory`: every step maps to a step of `SharedMemory` or a stutter.
- `ServeInvariant`, `ServedOnceHolds`, `ResultForThisTrapHolds`: the count of
  served traps follows the mailbox; the only assumption on the hart is
  `HART_GAP >= 1`.
- `TypeCorrect`: `[]TypeOK`.

The proof also shows that the invalidation before `trap_res_valid` changes nothing:
the flush walk drops every line it visits, and no request or fill can enter until
memory is back with pycore, so the L1D is already empty (`DataInv`).

`GcMarkProofs` proves, from `GcAssumption` alone (any set of objects, any heap that
is closed under its own references, any capacity of stack, memory part, rescan list, queue
and bitmap that the assumption admits), `TypeCorrect`, `NothingLostHolds` and
`NothingRetainedHolds`. The invariant `Inv` is an account of the work of a collection:

- `Owed` is every handle that is on its way: what the mark stack will give back (`StackGives`),
  what is in the queue, the pending buffer and the marker's hands (`FlowGives`), what the tracer
  has still to read of the range it is in (`TracerGives`), the roots to come (`RootsToCome`),
  and what the recorded ranges hold.
- `Paid`: a root is marked or owed, and what a marked object refers to is marked or
  owed. When nothing is left to do nothing is owed, so the marks are closed under reference.
- `Recordable` and `Fits` are what makes an overflow harmless. The range the tracer would
  record covers the handles it reads; a handle that has been found is in that range, or the
  stack has room for it and everything found before it. The second case is the slack that
  `stk_room8` leaves when a table is started (`StartTable`), and it is why an item of the
  order buffer still in flight is never charged to the wrong range.
- `Retained` is the other direction: every mark and everything on its way is reachable from the roots
  or left by a collection given up, and the latter is gone before a collection starts; `Erased`
  says that the background clear has what it passed at zero.

In the window's and the collector's modules liveness (`AlwaysBackToFetch`, `CollectionEnds`,
`TrapAnswered`, `AccessAcknowledged`, `LexerEnds` and the like) stays with TLC: it is out of the
prover's reach.

`GcAllocProofs` proves, from `AllocAssumption` alone (any heap, any line, on-chip and memory
tables of any length, requests of any number of parts), `TypeCorrect`, `BookedOnceHolds`,
`FreshStorageHolds`, `GrantFitsHolds` and the action property `MemoryErrorWhenFullHolds`. The
invariant `Inv` follows the granules through a search:

- `Booked` says whose each granule is in between two properties' states: a run that has been
  taken from the lists while its header, or that of the rest of the current run, is still being
  written (`Carried`) is booked too, and a mark that is not superseded has nothing listed between it
  and the limit of the current run (`MarkApart`), which is why a release may hand bytes back.
- `Clean` says what of the current run may hold something: nothing, or the range the writes
  under way will clear, or what an aborted instruction wrote, which is about to be given up.
- `Measured` ties the request to the bump pointer it was measured from; the granted run fits by
  `SlackIsEnough`: the parts placed from any other address end at most a line later,
  because moving the start by whole lines moves every part with it (`PlaceShift`).
- `Looked` says that after a collection for the request every free run that would do is still in
  one of the lists. `SweepStep` establishes it: the free runs are sorted into one list
  (`ByBaseLists`), and the engine's table, the rover and the table in memory split that list into slices
  that lose nothing and share nothing (`SplitIsGood`).

The recursions of the module (`Ends`, the sorted list) are over the natural numbers. The library's
induction theorems take an operator as a parameter, which the installed provers cannot
instantiate; `NatLemmas` derives from the well-foundedness of inclusion the same principle for sets
(`CountUp`), and each recursion is unfolded with it (`EndsExist`, `EndsIs`).

`DictPromiseProofs` proves `OrderFitsHolds` from `DictAssumption` alone, for every set of keys,
however they hash and compare. The operations that walk a table or a list of pairs (`Built`,
`Rehashed`, `Merging`) are recursive functions, unfolded by `RepeatExists`; each step of them
satisfies `Entered`: size kept, count and order buffer longer by one or neither. The invariant
`OrderInv` adds to `OrderFits` that the source of an update has no more live slots than its
header counts, since the firmware makes room for the count and then walks the slots.

Its main result is `ImplementsPythonDict`, `PromiseSpec => IsPythonDict`: for any table
sizes, values and literals, any keys and hashes that `PromiseAssumption` admits, and any sequence
of steps that `Served` does not leave out, every step maps to a step of `PyDict` or a stutter. The
assumption says that tag, contents and (of a number) shape determine a key, as they do in the
machine, and leaves out just the keys of section 6 that go wrong. The argument:

- On these keys the machines agree: equal keys have one name and one hash (`KeysAlike`,
  `HashIs`), and what the firmware finds equal is equal (`FwAlike`). The converse fails for a
  whole float other than 0.0, so each use of the firmware's probe shows that the key is new (growth)
  or no such float (update).
- `Sound` is what tombstones are for: no name is in two live slots, and from the hash of a live
  key to its slot no slot is empty (`Reach`). The invariant says nothing of where a key lies
  otherwise. A slot overwritten or made a tombstone keeps it (`ReachedKept`, `SlotCleared`), and a
  new key goes to a slot its own probe comes to (`FreeIs`). That every probe comes to every slot
  is a fact about `%` (`ProbeComes`); that it ends before it comes round is `LiveSlots < SizeOf`.
- So a look-up answers the mapping (`AnswerIs`), and it answers every form of a key alike
  (`AnswersAre`). Rehashing, building and merging are followed slot by slot: `Below` and `Over`
  are the mapping made of the slots walked so far (`RehashSound`, `MergedMap`).
- `Ordered`: the order has each key of the mapping once. An update appends a sequence that
  enumerates the new keys (`Tails`, `Enumerates`), which is all that `PyDict` asks.
- `WalkFits`: an iterator with the dict's version has the dict's order. Every step that moves
  the order moves the version, so the walk is either still right or refused (`WalkKept`, `WalkStale`).

`PromiseInv` puts these together with the room that is left and the key a trap carries, which
the mapping does not have; TLC checked it on the constants of `dict_table` first.

`PycLexerProofs` proves, from `TextAssumption` alone (a text has a length, and at every place up to
there a character), for every text, well formed or not:

- `WellNestedHolds`: in every prefix of the tokens no DEDENT and no end of an f-string comes
  without its beginning, f-strings do not overlap, their text stands in one, the widths of
  open blocks increase, and an accepted text has closed every block, f-string and bracket and ended its
  last line. The invariant `NestInv` keeps the account: the tokens have opened as many blocks as
  the indent stack holds above the first width, and an f-string exactly while the mode says so; a
  stack popped more than once (`Dedents`) gives as many tokens as it gets shorter.
- `EveryTurnCountsHolds`, an action property: a turn reads on, or leaves the beginning of a line, or
  ends the loop. A lexer hangs when one of its dozens of branches falls through without
  reading; here each branch is shown to go on, so n characters take at most 2n + 2 turns. TLC
  checked it before it was proved. That a next turn is taken at all is `LexerEnds`, which stays with TLC.
- `LexerInvariant` is the conjunction of `ReadInv` (where it may be in the text) and `NestInv`;
  there is one lemma per action, and one per way a token is appended.

`ImgLayoutProofs` proves `StripKeepsEffects`: what `strip_inline_caches` makes of a code object does
what the code object did. It is stated for every `RADIX` above 26 (`RadixAssumption`), any set of programs whose image is
`Strip` of a code object that can be laid out (`StrippedFrom`), at any base in the image and for
runs of any length. `Lays` is what a compiler of Python guarantees: each unit belongs to an
instruction with at most two prefixes and all its CACHE units, control stays in the code, loops end at
an END_FOR, the exception table speaks of instructions. Two conditions are more than that: no
protected range begins right behind a call, and none ends right behind CALL_FUNCTION_EX. There the code
is wrong (section 6), and the proof does not go through. The other hypothesis, `HostSettles`,
says that the host comes to its next effect; it is the first conjunct of `SameEffects` and
only the host's matter (a loop without an effect never settles). The argument:

- `SameLayout` says when two layouts of the same instructions correspond, `Alike` when two machines
  do: both behind j prefixes of instruction k, or the host in CACHE units the hart does not have.
  The stacks are equal, the program counters are not.
- A quiet step of the host is a step of the hart or a CACHE unit it skips (`SameQuietStep`); 80
  of them by induction (`SameSettle`); an effect leads to corresponding places whichever way it
  goes (`SamePerform`), an exception to the same handler (`SameRaise`).
- `Strip` establishes `SameLayout` (`StrippedSame`): `Instructions` cuts the code up without gaps
  (`InstructionsAre`); the new starts climb and lie below the old ones, so no argument needs more
  prefixes than it had (`NewArgIs`); a jump whose argument was recomputed goes to the new start of
  its target, and prefixes and digits spell it (`Digits`); flattening puts each unit where the new
  starts say (`Flattened`); a moved entry covers the same instructions, and with the NOP behind a
  call at its end also the unit behind that call (`SameCovers`).

`LayoutAssumption` of `MCImgPipeline`, evaluated with every run of `img_pipeline`, shows that the bodies of ROM
built-ins in which no slice is folded are laid out as the theorem asks for, CACHE units cut. Not covered by it are
the rewrites (`SameEffects` of a folded body or a whole image is model-checked) and images of user code, which keep
their CACHE units. The attempt to prove it found a fault of
the model: guards of a CASE overlapped (an illegal opcode, a failed effect), which TLC resolves by taking the first but
TLA+ does not. The CASEs of `ImgCode`, `ImgBuild`, `PycParser` and `PycCodegen` now exclude each other or follow an
IF that settles the order of the code.

What is only model-checked: `SameAsSource`, `NeverStuck`, `FusedLoadsBound` and `HandlerDepthExists` of the
compiler's back end, `RoundTrip` and `NumbersAsPython` of its front end, `StackFits` and
`AcceptsTheLanguage` of the image builder, and `SameEffects` beyond the layout. They are recursion over trees and
code; the modules of the compiler declare RECURSIVE operators, in whose presence no SMT solver is at hand, and
what a recursion computes for every input needs induction over data. Liveness stays with TLC everywhere.

## 5. Plan

1. done: `RfWindow`, `TrapHandoff` with their runs and proofs; `GcMark` and `GcAlloc` with
   their runs; the compiler front and back end, the host stand-in, the image builder; the dict.
2. proofs: done `GcMark`, `GcAlloc`, the window under `WindowBudget`, `OrderFits` of `DictTable`,
   the dict's refinement of `PyDict`, the lexer, and the layout of the image builder; next the
   rewrites that overwrite code in place with NOPs, by the simulation of `ImgLayoutProofs`, and
   what `DictTable` keeps of the refinement when `Served` is dropped.
3. `GcSweep`: the scan that finds the free runs, refining `Sweep` of `GcAlloc`.
4. `CallFrames`: frame stack and exception-info stack with their beats, refining
   abstract stacks.
5. `L1dCache`: sets, ways, ages, held request, non-blocking port, queues; refines
   a memory. Then L2 and the crossbar between two masters.
6. `InlineCaches`: staleness of CODC and GIC.
7. sets (the dict without an order), the built-ins of the Python firmware.

## 6. What the runs found

A passing run says what holds; programs that are known to go wrong are excluded from it by a
predicate named below, and each has a finding in `PROJECT.json` with its line.

Register window (the first three need frames that are large for the ring; the
core accepts `nlocals + co_stacksize` up to 240 of 256):

- a ring filled exactly has `tos = wm` and is taken for empty;
- `rf_aliased_caller`: when caller and callee together are longer than the ring,
  the caller's spilled base looks resident on return and is not filled.
  Unwinding several frames has the same fault at a shorter distance, because the
  top of stack of the raise is kept for every frame (`UnwindFits`);
- defaults are written above the top of stack before the spill makes room.

`RfWindowSafe` states the limits that exclude them (`WindowBudget`;
`KeepsArguments` excludes one more, a callee so large that its own arguments are
spilled), and its passing runs hold under them.

Collector:

- `gc_unzeroed`: a string command writes its first pieces above the bump pointer and needs
  more heap; the collection for it is given up (mark stack and rescan list full) and
  `MemoryError` raised with the current run kept. The pieces are never cleared, and the
  handler allocates there. `FreshStorage` shows that this is the only way
  (`spoiled`), until the next run is installed.

A collection abandoned while the core still streams register roots would leave the
core in `S_GC_ROOTS`: `root_ready_o` stays low and `gc_done` is looked at in `S_GC_RUN`
only. It takes more register roots than the stack and the rescan list hold, which
only the limits of the test bench allow; `GcAssumption` excludes it.

A mark taken in a run at a high address and released after the allocator went on in a lower
run of the same epoch faults (`HeapRelease`): it is above the bump pointer and not below the
base of the current run. `planning/gc_plan.md` 5.4 can be read both ways.

Compiler, front end (`Level` in `PySourceText` writes the parentheses that avoid the first
two, `Taken` and `PartsOnNumber` in `MCPycFront` leave out the others):

- an operator inside an f-string reduces the operators pending outside it;
- a lambda or a parameter default reads the comma or colon of the bracket around it;
- `for x, in z` binds the tuple instead of unpacking it;
- a conditional expression in brackets inside a comprehension clause is rejected;
- numbers: `.5_0`, `0x__1`, `0_1`, `00`, `01.5`.

Compiler, back end (`SkipsFinally` in `MCPycExec`, or not among the programs):

- a finally clause is skipped when a handler or the else clause is left early;
- `break` in the else clause of an inner loop leaves an iterator on the stack;
- a name bound two functions out, global in between: a SyntaxError;
- the declared stack size is too small behind a RERAISE or a backward jump;
- in the stand-in an exception of a called function does not reach its caller's handlers.

Image builder (`Sound` in `MCImgPipeline`):

- a wide constant index whose last digit is that of a slice is taken for the slice
  (`TakenForSlice`);
- defaults and classes behind 256 constants (`WideDefaults`, `WideClass`);
- a method of a folded class escapes the check for illegal opcodes;
- an exception of a `CALL_FUNCTION_EX` at the end of a protected range is looked up one unit
  too far.

Dict (`Served` in `DictTable` excludes the first two; `PromiseAssumption` and the order in which
`PyDict` lets new keys of an update come exclude the others):

- a store of a new key faults when no slot is empty any more, though tombstones are;
- None as the key that makes a dict grow is lost, its tag word cut to four bits;
- floats of 2^52 and more hash differently for the firmware;
- for the firmware a whole float other than 0.0 equals nothing;
- an update appends new keys in the order of their hashes.

## 7. Not modelled

Wide arithmetic and the content-addressed accelerator (data paths compared with host
models by their own tests). The string accelerator: a step-level model of its engines against
`pycore/tools/strmodel.py` is the first candidate for an extension, because
`planning/accelerator_split_plan.md` (A28, A29) lists producers that keep too wide a kind and wrong
results of single methods. The dict modules take one canonical handle per text, so what a
string of too wide a kind does as a key is outside them. Also left out are fetch and decode (sequential), the hart itself, the frame and
exception stacks, caches below the partial map of `TrapHandoff`, CODC and GIC (all in the plan). `CALL_KW`,
`CALL_FUNCTION_EX`, generator frames and co-called protocol methods reach the
same phases of `S_CALL` and `S_RETURN` and have no action of their own. In the collector: the
compiler scratch clean-up before the preload (it
rewrites slots of one static dictionary), line prefetches, the root stash and poison writes
of the test bench, the engine's data faults; in the allocator `GC_EN = 0`, forced and
verify-only collections, code RAM marks, and the unwinding of an aborted `CALL`, which is part
of `Abort`. Faults below the L1D are left out: the RAM faults only on an address out of range, and
a cached line never has one.

Of the firmware handlers those of lists, sets, strings and ranges. Of the compiler: positions of
tokens and nodes, mode "eval" of the parser, growth of its stores, limits of packed fields. Of the
image builder: pragmas and injected opcodes, the tables of globals and built-ins, the order of
objects in the heap, file output. Of dicts: DICT_MERGE, updates with OBJECT keys on the hart,
keys that trap.

The Python built-ins (`pycore_firmware/builtins/`) are one small function each. The other host tools
(fuzzers, reports, gates, simulators of caches, shells) and more than five hundred test programs keep no
state of the machine; they are most of the Python of the repository. The map covers about a
sixth of all Python lines: nearly all of lexer, parser, symbol table and code generator and two fifths of the
image builder. The SystemVerilog and the assembly it covers come on top.
