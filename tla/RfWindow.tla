------------------------------ MODULE RfWindow ------------------------------
(***************************************************************************)
(* The register file of pycore as a ring, its spill area in data memory    *)
(* and the CALL / RETURN / RAISE states that move frames through it        *)
(* (pycore_core.sv, pycore_call_fsm.svh, pycore_cont_raise.svh).           *)
(*                                                                         *)
(* tos, wm and lb are the 8-bit pointers tos_r, rf_wm_r and                *)
(* cur_locals_base_r; all their arithmetic wraps at RF_DEPTH.  The core    *)
(* runs one instruction at a time, so an action is one instruction, or one *)
(* state of a multi-cycle instruction; spill and fill move one entry per   *)
(* step.  A value is never looked at, so values are members of a small set.*)
(*                                                                         *)
(* stk, top, base, acc and pyframes are not registers: they run the        *)
(* reference stack of module PyStack in lockstep, as history variables.    *)
(* They are read by the properties and by the guards that say what a       *)
(* compiled program can do (Depth), never by a guard of the machine.       *)
(***************************************************************************)
EXTENDS PyStack, Sequences

CONSTANTS
    RF_DEPTH,        \* entries of the ring (256)
    RF_SPILL_HYST,   \* extra entries evicted by a spill (32)
    RF_WINDOW_CAP,   \* largest nlocals + stacksize a CALL accepts (240)
    SPILL_MAX,       \* entries of the spill area (8192)
    MAX_CALL_DEPTH,  \* frame descriptors (1024)
    Codes,           \* the code objects of the program
    Boot,            \* the code object of frame 0
    Consts,          \* the values instructions produce
    Once,            \* those of them that a run produces at most once
    Default,         \* the value of a default argument
    Exc,             \* the handle of a raised exception
    Lasti,           \* the instruction offset a handler may ask for
    Uninit,          \* the UNINIT entry, also what reset leaves in the ring
    Ops,             \* which of the optional instructions the program uses
    UNWIND_SPAN      \* largest distance from a raise to its handler's frame

ASSUME RingAssumption ==
    /\ RF_DEPTH \in Nat /\ RF_DEPTH > 1
    /\ RF_SPILL_HYST \in Nat
    /\ RF_WINDOW_CAP \in Nat /\ RF_WINDOW_CAP < RF_DEPTH
    /\ SPILL_MAX \in Nat
    /\ MAX_CALL_DEPTH \in Nat

ASSUME CodeAssumption ==
    /\ Codes \subseteq CodeObjects
    /\ Boot \in CodeObjects
    /\ \A c \in Codes \cup {Boot} :
          /\ c.dflt <= c.params
          /\ c.params <= c.nlocals
          /\ c.peak <= c.stacksize
          /\ \A e \in c.handlers : e.depth + e.lasti < c.peak
    /\ Used(Boot) < RF_DEPTH
    /\ UNWIND_SPAN \in Nat
    /\ Ops \subseteq {"LOAD_FAST", "STORE_FAST", "POP_TOP", "RAISE_VARARGS"}

Values == Consts \cup {Default, Exc, Lasti, Uninit}

VARIABLES
    st,        \* state_r
    rf,        \* the register array of pycore_regfile.sv
    tos, wm, lb,
    code,      \* cur_code_r
    spill,     \* the spill area of data memory
    sp,        \* spill_sp_r, in entries
    left,      \* rf_spill_left_r and rf_fill_left_r
    frames,    \* the descriptors in the frame stack
    call,      \* call_code_addr_r, call_new_locals_r, call_tos_base_r, ...
    rs1,       \* the latched operand rs1_r
    exc,       \* call_exc_pending_r: S_RETURN is unwinding
    trap,      \* trap_code_o, once the pipeline is frozen
    stk, top, base, acc, pyframes,   \* the reference stack
    raiseTop,  \* the reference top at the last RAISE
    pushed     \* the members of Once already produced

regs  == <<rf, tos, wm, lb, code>>
py    == <<stk, top, base, acc, pyframes, raiseTop>>
vars  == <<st, regs, spill, sp, left, frames, call, rs1, exc, trap, py, pushed>>

States == {"S_FETCH", "S_CALL", "S_RF_SPILL", "S_RETURN", "S_RF_FILL",
           "S_RETURN_WB", "S_RAISE", "S_HALT"}
Traps  == {"none", "stack", "mem", "call_filter", "raise"}

Ring(k) == k % RF_DEPTH

\* Ring positions first, first+1, ... (n of them).
Span(first, n) == {Ring(first + j) : j \in 0..(n - 1)}

\* Ring positions, frame descriptors and the CALL registers.
Index       == 0..(RF_DEPTH - 1)
CodeSet     == Codes \cup {Boot}
Descriptors == [tosBase : Index, lb : Index, code : CodeSet]
Calls       == [code : CodeSet, argc : Nat, newLocals : Index, tosBase : Index]

NoCall == [code |-> Boot, argc |-> 0, newLocals |-> 0, tosBase |-> 0]

-----------------------------------------------------------------------------
\* The combinational occupancy logic.

Resident == IF tos = wm THEN 0 ELSE Ring(tos - wm)

\* Mutants: no hysteresis; one entry short.
SpillCountTight ==
    LET over == Resident + Need(call.code) - RF_DEPTH
    IN  IF over <= 0 THEN 0 ELSE IF over > Resident THEN Resident ELSE over

SpillCountShort ==
    LET over == Resident + Need(call.code) - RF_DEPTH - 2
    IN  IF over <= 0 THEN 0
        ELSE IF over + RF_SPILL_HYST > Resident THEN Resident
        ELSE over + RF_SPILL_HYST

SpillCount ==
    LET over == Resident + Need(call.code) - RF_DEPTH
    IN  IF over <= 0 THEN 0
        ELSE IF over + RF_SPILL_HYST > Resident THEN Resident
        ELSE over + RF_SPILL_HYST

IdxResident(i) ==
    /\ tos # wm
    /\ IF tos > wm THEN wm <= i /\ i < tos ELSE wm <= i \/ i < tos

\* Mutants: one entry short; no residency test.
FillCountShort(localsBase) ==
    IF localsBase = wm \/ IdxResident(localsBase) THEN 0
    ELSE Ring(wm - localsBase) - 1

FillCountAlways(localsBase) == Ring(wm - localsBase)

FillCount(localsBase) ==
    IF localsBase = wm \/ IdxResident(localsBase) THEN 0
    ELSE Ring(wm - localsBase)

-----------------------------------------------------------------------------
\* S_BOOT has set up frame 0.
Init ==
    /\ st = "S_FETCH"
    /\ rf = [i \in 0..(RF_DEPTH - 1) |-> Uninit]
    /\ tos = Boot.nlocals /\ wm = 0 /\ lb = 0
    /\ code = Boot
    /\ spill = [i \in 0..(SPILL_MAX - 1) |-> Uninit]
    /\ sp = 0 /\ left = 0
    /\ frames = <<>>
    /\ call = NoCall
    /\ rs1 = Uninit
    /\ exc = FALSE
    /\ trap = "none"
    /\ stk = [k \in 0..(Boot.nlocals - 1) |-> Uninit]
    /\ top = Boot.nlocals /\ base = 0
    /\ acc = Uninit
    /\ pyframes = <<>>
    /\ raiseTop = 0
    /\ pushed = {}

\* Mutant: the trap is recorded and the pipeline keeps its state.
HaltUnfrozen(t) == st' = st /\ trap' = t

Halt(t) == st' = "S_HALT" /\ trap' = t

\* The operand depth of the running frame, in the program's own terms.
Depth == top - base - code.nlocals

\* LOAD_CONST and every other instruction that pushes a value it made.  S_WB
\* traps a push past RF_DEPTH entries, which Resident cannot exceed.
LoadConst ==
    /\ st = "S_FETCH"
    /\ Depth < code.peak
    /\ \E v \in Consts \ pushed :
          /\ pushed' = pushed \cup ({v} \cap Once)
          /\ rf' = [rf EXCEPT ![tos] = v]
          /\ stk' = Push(stk, top, v)
    /\ tos' = Ring(tos + 1)
    /\ top' = top + 1
    /\ UNCHANGED <<st, wm, lb, code, spill, sp, left, frames, call, rs1, exc,
                   trap, base, acc, pyframes, raiseTop>>

\* LOAD_FAST reads RF[locals_base + i] and pushes it.
LoadFast ==
    /\ st = "S_FETCH" /\ "LOAD_FAST" \in Ops
    /\ Depth < code.peak
    /\ \E i \in 0..(code.nlocals - 1) :
          /\ rs1' = rf[Ring(lb + i)]
          /\ rf' = [rf EXCEPT ![tos] = rf[Ring(lb + i)]]
          /\ acc' = stk[base + i]
          /\ stk' = Push(stk, top, stk[base + i])
    /\ tos' = Ring(tos + 1)
    /\ top' = top + 1
    /\ UNCHANGED <<st, wm, lb, code, spill, sp, left, frames, call, exc,
                   trap, base, pyframes, raiseTop, pushed>>

\* STORE_FAST pops into a local; the occupancy check of S_WB traps a pop
\* the ring believes impossible.
StoreFast ==
    /\ st = "S_FETCH" /\ "STORE_FAST" \in Ops
    /\ Depth > 0
    /\ rs1' = rf[Ring(tos - 1)]
    /\ acc' = stk[top - 1]
    /\ IF Resident < 1
       THEN Halt("stack") /\ UNCHANGED <<rf, tos, stk, top>>
       ELSE /\ \E i \in 0..(code.nlocals - 1) :
                  /\ rf' = [rf EXCEPT ![Ring(lb + i)] = rf[Ring(tos - 1)]]
                  /\ stk' = Cut(Write(stk, base + i, stk[top - 1]), top - 1)
            /\ tos' = Ring(tos - 1)
            /\ top' = top - 1
            /\ UNCHANGED <<st, trap>>
    /\ UNCHANGED <<wm, lb, code, spill, sp, left, frames, call, exc, base,
                   pyframes, raiseTop, pushed>>

\* POP_TOP, and RETURN_VALUE of frame 0, which has no caller to return to.
PopTop ==
    /\ st = "S_FETCH" /\ "POP_TOP" \in Ops
    /\ Depth > 0
    /\ IF Resident < 1
       THEN Halt("stack") /\ UNCHANGED <<tos, stk, top>>
       ELSE /\ tos' = Ring(tos - 1)
            /\ top' = top - 1
            /\ stk' = Cut(stk, top - 1)
            /\ UNCHANGED <<st, trap>>
    /\ UNCHANGED <<rf, wm, lb, code, spill, sp, left, frames, call, rs1, exc,
                   base, acc, pyframes, raiseTop, pushed>>

-----------------------------------------------------------------------------
\* CALL.

\* Phases 0-6 and 14: the callable, the NULL/self slot and argc arguments are
\* on top of the stack.  The arity and window checks come before the binder
\* writes the defaults of missing parameters above the top of the stack.
Call ==
    /\ st = "S_FETCH"
    /\ \E c \in Codes, argc \in 0..(Depth - 2) :
          /\ argc \in (c.params - c.dflt)..c.params
          /\ IF Need(c) > RF_WINDOW_CAP
             THEN Halt("call_filter") /\ UNCHANGED <<rf, call>>
             ELSE LET newLocals == Ring(tos - argc) IN
                  /\ st' = "S_CALL"
                  /\ rf' = [i \in DOMAIN rf |->
                               IF i \in Span(newLocals + argc, c.params - argc)
                               THEN Default ELSE rf[i]]
                  /\ call' = [code |-> c, argc |-> argc, newLocals |-> newLocals,
                              tosBase |-> Ring(tos - argc - 2)]
                  /\ UNCHANGED trap
    /\ UNCHANGED <<tos, wm, lb, code, spill, sp, left, frames, rs1, exc, py, pushed>>

\* Phase 7, first visit: the callee's window does not fit.
StartSpill ==
    /\ st = "S_CALL"
    /\ SpillCount # 0
    /\ st' = "S_RF_SPILL"
    /\ left' = SpillCount
    /\ UNCHANGED <<regs, spill, sp, frames, call, rs1, exc, trap, py, pushed>>

\* Mutant: one entry too many.
SpillFullLate == sp > SPILL_MAX

\* The spill area has no room for one more entry.
SpillFull == sp >= SPILL_MAX

\* S_RF_SPILL evicts the entry at the watermark: value beat, tag beat, ack.
SpillEntry ==
    /\ st = "S_RF_SPILL"
    /\ left # 0
    /\ IF SpillFull
       THEN Halt("mem") /\ UNCHANGED <<spill, sp, wm, left>>
       ELSE /\ spill' = [spill EXCEPT ![sp] = rf[wm]]
            /\ sp' = sp + 1
            /\ wm' = Ring(wm + 1)
            /\ left' = left - 1
            /\ UNCHANGED <<st, trap>>
    /\ UNCHANGED <<rf, tos, lb, code, frames, call, rs1, exc, py, pushed>>

SpillDone ==
    /\ st = "S_RF_SPILL"
    /\ left = 0
    /\ st' = "S_CALL"
    /\ UNCHANGED <<regs, spill, sp, left, frames, call, rs1, exc, trap, py, pushed>>

\* Phase 7: push the descriptor, enter the frame, clear the unbound locals.
PushFrame ==
    /\ st = "S_CALL"
    /\ SpillCount = 0
    /\ IF Len(frames) >= MAX_CALL_DEPTH
       THEN Halt("call_filter") /\ UNCHANGED <<regs, frames, py>>
       ELSE LET c == call.code
                newBase == top - call.argc
            IN
            /\ st' = "S_FETCH"
            /\ frames' = Append(frames, [tosBase |-> call.tosBase, lb |-> lb,
                                         code |-> code])
            /\ lb' = call.newLocals
            /\ tos' = Ring(call.newLocals + c.nlocals)
            /\ code' = c
            /\ rf' = [i \in DOMAIN rf |->
                         IF i \in Span(call.newLocals + c.params,
                                       c.nlocals - c.params)
                         THEN Uninit ELSE rf[i]]
            /\ stk' = Enter(stk, newBase, call.argc, c, Default, Uninit)
            /\ top' = newBase + c.nlocals
            /\ base' = newBase
            /\ pyframes' = Append(pyframes, [tosBase |-> newBase - 2, base |-> base])
            /\ UNCHANGED <<wm, trap, acc, raiseTop>>
    /\ UNCHANGED <<spill, sp, left, call, rs1, exc, pushed>>

-----------------------------------------------------------------------------
\* RETURN.

\* RETURN_VALUE latches the top of the stack; tos moves only at the end.
ReturnValue ==
    /\ st = "S_FETCH"
    /\ frames # <<>>
    /\ Depth > 0
    /\ rs1' = rf[Ring(tos - 1)]
    /\ acc' = stk[top - 1]
    /\ exc' = FALSE
    /\ st' = "S_RETURN"
    /\ UNCHANGED <<regs, spill, sp, left, frames, call, trap, stk, top, base,
                   pyframes, raiseTop, pushed>>

\* S_RETURN phase 0: pop the descriptor, restore the caller's pointers and
\* decide whether its window has to be filled.
PopFrame ==
    /\ st = "S_RETURN"
    /\ LET f == frames[Len(frames)]
           p == pyframes[Len(frames)]
       IN  /\ frames' = SubSeq(frames, 1, Len(frames) - 1)
           /\ lb' = f.lb
           /\ code' = f.code
           /\ call' = [call EXCEPT !.tosBase = f.tosBase]
           /\ left' = FillCount(f.lb)
           /\ st' = IF FillCount(f.lb) # 0 THEN "S_RF_FILL" ELSE "S_RETURN_WB"
           /\ pyframes' = SubSeq(pyframes, 1, Len(frames) - 1)
           /\ base' = p.base
           /\ top' = p.tosBase
           /\ stk' = Cut(stk, p.tosBase)
    /\ UNCHANGED <<rf, tos, wm, spill, sp, rs1, exc, trap, acc, raiseTop, pushed>>

\* S_RF_FILL pops the newest spilled entry to just below the watermark.  It
\* does not look whether there is one: below the area it reads other memory.
FillEntry ==
    /\ st = "S_RF_FILL"
    /\ left # 0
    /\ rf' = [rf EXCEPT ![Ring(wm - 1)] = IF sp > 0 THEN spill[sp - 1] ELSE Uninit]
    /\ wm' = Ring(wm - 1)
    /\ sp' = sp - 1
    /\ left' = left - 1
    /\ UNCHANGED <<st, tos, lb, code, spill, frames, call, rs1, exc, trap, py, pushed>>

FillDone ==
    /\ st = "S_RF_FILL"
    /\ left = 0
    /\ st' = "S_RETURN_WB"
    /\ UNCHANGED <<regs, spill, sp, left, frames, call, rs1, exc, trap, py, pushed>>

\* Phases 1-6: write the result over the callable's slot and fetch on, or
\* hand an unwinding exception to the caller's exception table.
WriteBack ==
    /\ st = "S_RETURN_WB"
    /\ IF exc
       THEN st' = "S_RAISE" /\ UNCHANGED <<rf, tos, stk, top>>
       ELSE /\ st' = "S_FETCH"
            /\ rf' = [rf EXCEPT ![call.tosBase] = rs1]
            /\ tos' = Ring(call.tosBase + 1)
            /\ stk' = Push(stk, top, acc)
            /\ top' = top + 1
    /\ UNCHANGED <<wm, lb, code, spill, sp, left, frames, call, rs1, exc, trap,
                   base, acc, pyframes, raiseTop, pushed>>

-----------------------------------------------------------------------------
\* RAISE: the exception-table walk of CONT_RAISE.

\* RAISE_VARARGS pops its operand; the handle is in container_val_r.
Raise ==
    /\ st = "S_FETCH" /\ "RAISE_VARARGS" \in Ops
    /\ Depth > 0
    /\ st' = "S_RAISE"
    /\ tos' = Ring(tos - 1)
    /\ stk' = Cut(stk, top - 1)
    /\ top' = top - 1
    /\ raiseTop' = top - 1
    /\ UNCHANGED <<rf, wm, lb, code, spill, sp, left, frames, call, rs1, exc,
                   trap, base, acc, pyframes, pushed>>

\* The table entry covers the instruction: place the handle on top of the
\* handler's stack depth d, above the instruction offset when lasti is set.
\* UNWIND_SPAN bounds the programs: a handler's frame starts at most that far
\* below the raising instruction's top of stack.
HandlerHit ==
    /\ st = "S_RAISE"
    /\ raiseTop - base <= UNWIND_SPAN
    /\ \E e \in code.handlers :
          LET slot == Ring(lb + code.nlocals + e.depth)
              n    == base + code.nlocals + e.depth
          IN
          /\ e.depth <= Depth
          /\ IF e.lasti = 1
             THEN /\ rf' = [rf EXCEPT ![slot] = Lasti, ![Ring(slot + 1)] = Exc]
                  /\ stk' = Push(Push(Cut(stk, n), n, Lasti), n + 1, Exc)
             ELSE /\ rf' = [rf EXCEPT ![slot] = Exc]
                  /\ stk' = Push(Cut(stk, n), n, Exc)
          /\ tos' = Ring(slot + e.lasti + 1)
          /\ top' = n + e.lasti + 1
    /\ st' = "S_FETCH"
    /\ raiseTop' = 0
    /\ UNCHANGED <<wm, lb, code, spill, sp, left, frames, call, rs1, exc, trap,
                   base, acc, pyframes, pushed>>

\* No entry covers it: pop the frame, or stop with PY_TRAP_RAISE in frame 0.
HandlerMiss ==
    /\ st = "S_RAISE"
    /\ IF frames # <<>>
       THEN st' = "S_RETURN" /\ exc' = TRUE /\ UNCHANGED trap
       ELSE Halt("raise") /\ UNCHANGED exc
    /\ UNCHANGED <<regs, spill, sp, left, frames, call, rs1, py, pushed>>
-----------------------------------------------------------------------------
\* One instruction of the program, and one step of the machine inside it.
Instruction ==
    \/ LoadConst \/ LoadFast \/ StoreFast \/ PopTop
    \/ Call \/ ReturnValue \/ Raise

MachineStep ==
    \/ StartSpill \/ SpillEntry \/ SpillDone \/ PushFrame
    \/ PopFrame \/ FillEntry \/ FillDone \/ WriteBack
    \/ HandlerHit \/ HandlerMiss

Next == Instruction \/ MachineStep

\* The clock runs: a multi-cycle instruction takes its next step.
Spec == Init /\ [][Next]_vars /\ WF_vars(MachineStep)

-----------------------------------------------------------------------------
\* Every register holds a value of its width, the watermark and the spill
\* pointer stay in their areas.
TypeOK ==
    /\ st \in States
    /\ rf \in [Index -> Values]
    /\ tos \in Index /\ wm \in Index /\ lb \in Index
    /\ code \in CodeSet
    /\ spill \in [0..(SPILL_MAX - 1) -> Values]
    /\ sp \in Int /\ sp <= SPILL_MAX
    /\ left \in 0..RF_DEPTH
    /\ frames \in Seq(Descriptors) /\ Len(frames) <= MAX_CALL_DEPTH
    /\ call \in Calls
    /\ rs1 \in Values /\ exc \in BOOLEAN /\ trap \in Traps

\* Whenever an instruction is about to run, its frame is where the pointers
\* say, and every local and operand of the frame is in the ring with the
\* value the program left there: no spill, fill, call, return or unwind has
\* lost or replaced one.
WindowFaithful ==
    st = "S_FETCH" =>
        /\ tos = Ring(top) /\ lb = Ring(base)
        /\ \A k \in base..(top - 1) : rf[Ring(k)] = stk[k]

\* An operand latched from the ring (and the return value carried across the
\* frame pop) is the one the program computed.
OperandFaithful == rs1 = acc

\* The ring is never completely full between instructions, because tos = wm
\* is taken to mean that it is empty.
RingNeverFull == st = "S_FETCH" => top - sp < RF_DEPTH

\* A fill never reads below the spill area: RETURN asks for exactly the
\* entries that were evicted (S_RF_FILL has no check of its own).
SpillNeverUnderflows == sp >= 0

\* The occupancy check of S_WB never traps a program that pops only what it
\* pushed.
NoFalseStackTrap == trap # "stack"

\* Every multi-cycle CALL, RETURN or unwind comes back to fetching or halts.
AlwaysBackToFetch == []<>(st \in {"S_FETCH", "S_HALT"})

\* The entries a spill evicts leave the hysteresis free, unless it had to
\* evict everything: the call that follows at the same depth does not spill.
SpillLeavesHysteresis ==
    [][SpillDone => \/ Resident' + Need(call.code) <= RF_DEPTH - RF_SPILL_HYST
                    \/ Resident' = 0]_vars
=============================================================================
