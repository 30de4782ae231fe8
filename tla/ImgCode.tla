------------------------------ MODULE ImgCode -------------------------------
(***************************************************************************)
(* Code units of an image and the machine that runs them.  A unit is an    *)
(* opcode with one argument digit (a byte in the code, RADIX values here); *)
(* EXTENDED_ARG units carry the higher digits.  The machine runs a code    *)
(* object either as CPython does, or as the hart does: they differ in what *)
(* a constant stands for and in the unit at which an exception of a callee *)
(* is looked up (src/pycore/docs/limitations.md, L-RT-5).                  *)
(***************************************************************************)
EXTENDS Integers, Sequences, FiniteSets, SequencesExt

CONSTANT
    RADIX       \* values of the argument of one unit; 256 in the code

ASSUME RadixAssumption == RADIX \in Nat /\ RADIX > 26

NB_SUBSCR == 26
LIST_TO_TUPLE == 6
DEFAULTS == 1
KWDEFAULTS == 2
CLOSURE == 8
ANNOTATE == 16

CacheUnits(op) ==
    CASE op = "BINARY_OP" -> 5
      [] op \in {"CALL", "CALL_KW", "TO_BOOL"} -> 3
      [] op \in {"POP_JUMP_IF_FALSE", "POP_JUMP_IF_TRUE", "FOR_ITER", "JUMP_BACKWARD", "STORE_SUBSCR"} -> 1
      [] OTHER -> 0

Backward == {"JUMP_BACKWARD", "JUMP_BACKWARD_NO_INTERRUPT"}
Jumps == Backward \cup {"JUMP_FORWARD", "POP_JUMP_IF_FALSE", "POP_JUMP_IF_TRUE", "FOR_ITER"}

Unit(op, arg) == [op |-> op, arg |-> arg]
Nop == Unit("NOP", 0)
Nops(n) == [i \in 1..n |-> Nop]
CacheOf(op) == [i \in 1..CacheUnits(op) |-> Unit("CACHE", 0)]

(* An instruction with its prefixes, and the units it takes without them.  *)
ExtCount(arg) == IF arg < RADIX THEN 0 ELSE IF arg < RADIX * RADIX THEN 1 ELSE 2
Ext(arg, n) ==
    (IF n > 1 THEN <<Unit("EXTENDED_ARG", (arg \div (RADIX * RADIX)) % RADIX)>> ELSE <<>>)
    \o (IF n > 0 THEN <<Unit("EXTENDED_ARG", (arg \div RADIX) % RADIX)>> ELSE <<>>)
Bare(op, arg) == Ext(arg, ExtCount(arg)) \o <<Unit(op, arg % RADIX)>>
Encode(op, arg) == Bare(op, arg) \o CacheOf(op)

(* The logical instruction that begins at unit p (counted from 0), found   *)
(* by folding the prefixes.                                                *)
At(code, p) == code[p + 1]
PrefixCount(code, p) ==
    CHOOSE k \in 0..3 : /\ At(code, p + k).op # "EXTENDED_ARG"
                        /\ \A j \in 0..(k - 1) : At(code, p + j).op = "EXTENDED_ARG"
Folded(code, p, n) ==
    LET digit(j) == At(code, p + j).arg
    IN  CASE n = 0 -> digit(0)
          [] n = 1 -> digit(0) * RADIX + digit(1)
          [] OTHER -> (digit(0) * RADIX + digit(1)) * RADIX + digit(2)
InstructionAt(code, p) ==
    LET n == PrefixCount(code, p)
        op == At(code, p + n).op
    IN  [start |-> p, ext |-> n, op |-> op, arg |-> Folded(code, p, n),
         end |-> p + n + 1 + CacheUnits(op)]

(* All of them, for code that has its CACHE units.                         *)
Instructions(code) ==
    LET from[p \in 0..Len(code)] ==
            IF p = Len(code) THEN <<>>
            ELSE LET i == InstructionAt(code, p) IN <<i>> \o from[i.end]
    IN  from[0]

-----------------------------------------------------------------------------
(* The machine.  An object is [code, consts, names, exc, at, illegal]: `at`*)
(* is the slot of its first unit in `code`, 0 for a code object that holds *)
(* its own units; `illegal` are the opcodes the machine stops at.  Values  *)
(* are terms, and a term begins with its kind.                             *)

None == <<"None">>
Num(n) == <<"int", n>>
Function(name, defaults, kwdefaults) == <<"function", name, defaults, kwdefaults>>

Start == [pc |-> 0, ext |-> 0, stack |-> <<>>, deepest |-> 0, out |-> <<>>]
Ended(m) == m.out # <<>>
Peek(m, n) == m.stack[Len(m.stack) + 1 - n]
Drop(m, n) == SubSeq(m.stack, 1, Len(m.stack) - n)
Tops(m, n) == SubSeq(m.stack, Len(m.stack) + 1 - n, Len(m.stack))

UnitAt(obj, m) == obj.code[obj.at + m.pc + 1]
ArgAt(obj, m) == m.ext * RADIX + UnitAt(obj, m).arg

(* Go on behind the unit, with this stack.                                 *)
With(m, stack) ==
    [m EXCEPT !.pc = @ + 1, !.ext = 0, !.stack = stack,
              !.deepest = IF Len(stack) > @ THEN Len(stack) ELSE @]
Push(m, v) == With(m, Append(m.stack, v))

(* Go on elsewhere, with an argument so far, with another stack, or not.   *)
GoTo(m, stack, pc) == [With(m, stack) EXCEPT !.pc = pc]
Prefixed(m, arg) == [m EXCEPT !.pc = @ + 1, !.ext = arg]
Holding(m, stack) == [m EXCEPT !.stack = stack]
Stopped(m, out) == [m EXCEPT !.out = out]

(* A relative jump counts the CACHE units of its opcode, there or not.     *)
JumpTo(obj, m) ==
    LET op == UnitAt(obj, m).op
        from == m.pc + 1 + CacheUnits(op)
    IN  IF op \in Backward THEN from - ArgAt(obj, m) ELSE from + ArgAt(obj, m)

(* An exception looked up at unit `where`: the handler of the first entry  *)
(* that covers it, or the end of the run.                                  *)
Raise(obj, m, exc, where) ==
    LET covering == {e \in DOMAIN obj.exc : obj.exc[e].start <= where /\ where < obj.exc[e].end}
        entry == obj.exc[CHOOSE e \in covering : \A f \in covering : e <= f]
        lasti == IF entry.lasti THEN <<<<"lasti">>>> ELSE <<>>
        stack == SubSeq(m.stack, 1, entry.depth) \o lasti \o <<exc>>
    IN  IF covering = {} THEN Stopped(m, <<"raised", exc>>)
        ELSE GoTo(m, stack, entry.target)

(* Instructions that have no effect outside the frame and cannot fail.     *)
Quiet(obj, m) ==
    LET op == UnitAt(obj, m).op
    IN  /\ op \notin {"STORE_NAME", "STORE_FAST", "BINARY_OP", "BINARY_SLICE", "CALL_FUNCTION_EX",
                      "CALL_INTRINSIC_1", "GET_ITER", "FOR_ITER", "POP_JUMP_IF_FALSE", "RETURN_VALUE"}
        /\ op = "CALL" => Peek(m, ArgAt(obj, m) + 2) = <<"build_class">>

QuietStep(obj, m) ==
    LET op == UnitAt(obj, m).op
        arg == ArgAt(obj, m)
    IN  IF op \in obj.illegal THEN Stopped(m, <<"illegal", op>>)
        ELSE
        CASE op = "EXTENDED_ARG" -> Prefixed(m, arg)
          [] op \in {"NOP", "CACHE", "RESUME", "NOT_TAKEN", "TO_BOOL"} -> With(m, m.stack)
          [] op = "LOAD_CONST" -> Push(m, obj.consts[arg + 1])
          [] op = "LOAD_SMALL_INT" -> Push(m, Num(arg))
          [] op \in {"LOAD_NAME", "LOAD_FAST"} -> Push(m, <<"var", obj.names[arg + 1]>>)
          [] op = "LOAD_BUILD_CLASS" -> Push(m, <<"build_class">>)
          [] op = "PUSH_NULL" -> Push(m, <<"NULL">>)
          [] op = "COPY" -> Push(m, Peek(m, arg))
          [] op \in {"POP_TOP", "POP_ITER"} -> With(m, Drop(m, 1))
          [] op \in {"JUMP_FORWARD", "JUMP_BACKWARD"} -> GoTo(m, m.stack, JumpTo(obj, m))
          [] op = "MAKE_FUNCTION" ->
                With(m, Append(Drop(m, 1),
                    IF Peek(m, 1)[1] = "code" THEN Function(Peek(m, 1)[2], <<>>, <<>>) ELSE Peek(m, 1)))
          [] op = "SET_FUNCTION_ATTRIBUTE" ->
                LET f == Peek(m, 1)
                    v == Peek(m, 2)
                IN  With(m, Append(Drop(m, 2),
                        CASE arg = DEFAULTS -> Function(f[2], v[2], f[4])
                          [] arg = KWDEFAULTS -> Function(f[2], f[3], v[2])
                          [] OTHER -> f))
          [] op = "BUILD_MAP" ->
                LET items == Tops(m, 2 * arg)
                IN  With(m, Append(Drop(m, 2 * arg),
                        <<"dict", [i \in 1..arg |-> <<items[2 * i - 1], items[2 * i]>>]>>))
          [] op = "BUILD_LIST" -> With(m, Append(Drop(m, arg), <<"list", Tops(m, arg)>>))
          [] op = "LIST_EXTEND" ->
                With(m, Append(Drop(m, 2), <<"list", Append(Peek(m, 2)[2], Peek(m, 1))>>))
          [] op = "CALL" ->      \* __build_class__(body, name)
                With(m, Append(Drop(m, 4), <<"class", Peek(m, 1), Peek(m, 2)[2]>>))
          [] op = "PUSH_EXC_INFO" -> With(m, Drop(m, 1) \o <<<<"previous">>, Peek(m, 1)>>)
          [] op = "POP_EXCEPT" -> With(m, Drop(m, 1))
          [] op = "CHECK_EXC_MATCH" -> With(m, Append(Drop(m, 1), <<"match", Peek(m, 1)>>))
          [] op = "RERAISE" -> Raise(obj, Holding(m, Drop(m, 1)), Peek(m, 1), m.pc)

(* Run up to the next effect.                                              *)
Settle(obj, from) ==
    LET run[k \in 0..80] ==
            IF k = 0 THEN from
            ELSE LET m == run[k - 1] IN IF Ended(m) \/ ~Quiet(obj, m) THEN m ELSE QuietStep(obj, m)
    IN  run[80]
Settled(obj, m) == Ended(m) \/ ~Quiet(obj, m)

(* The effect the machine stands at, and how it can turn out.              *)
Elements(v) == IF v[1] = "list" THEN v[2] ELSE <<v>>
Effect(obj, m) ==
    LET op == UnitAt(obj, m).op
        arg == ArgAt(obj, m)
        name == obj.names[arg + 1]
    IN  IF Ended(m) THEN m.out
        ELSE CASE op \in {"STORE_NAME", "STORE_FAST"} -> <<"store", name, Peek(m, 1)>>
               [] op = "BINARY_OP" ->
                    IF arg = NB_SUBSCR /\ Peek(m, 1)[1] = "slice"
                    THEN <<"slice", Peek(m, 2), Peek(m, 1)[2], Peek(m, 1)[3]>>
                    ELSE <<"binary", arg, Peek(m, 2), Peek(m, 1)>>
               [] op = "BINARY_SLICE" -> <<"slice", Peek(m, 3), Peek(m, 2), Peek(m, 1)>>
               [] op = "CALL" -> <<"call", Tops(m, arg + 2)>>
               [] op = "CALL_FUNCTION_EX" -> <<"call_ex", Tops(m, 4)>>
               [] op = "CALL_INTRINSIC_1" -> <<"tuple", Elements(Peek(m, 1))>>
               [] op = "GET_ITER" -> <<"iter", Peek(m, 1)>>
               [] op = "FOR_ITER" -> <<"next", Peek(m, 1)>>
               [] op = "POP_JUMP_IF_FALSE" -> <<"test", Peek(m, 1)>>
               [] op = "RETURN_VALUE" -> <<"return", Peek(m, 1)>>

Operands(op, arg) ==
    CASE op = "BINARY_OP" -> 2
      [] op = "BINARY_SLICE" -> 3
      [] op = "CALL" -> arg + 2
      [] op = "CALL_FUNCTION_EX" -> 4
      [] op = "FOR_ITER" -> 0
      [] OTHER -> 1

Outcomes(obj, m) ==
    LET op == UnitAt(obj, m).op
    IN  CASE op = "POP_JUMP_IF_FALSE" -> {"true", "false"}
          [] op = "FOR_ITER" -> {"done", "end"}
      [] op \in {"STORE_NAME", "STORE_FAST", "RETURN_VALUE"} -> {"done"}
          [] OTHER -> {"done", "raise"}

(* The effect takes place.  `behind` is how far behind a call the frame is *)
(* when an exception of its callee arrives.                                *)
Perform(obj, m, outcome, behind) ==
    LET op == UnitAt(obj, m).op
        arg == ArgAt(obj, m)
        rest == Drop(m, Operands(op, arg))
        effect == Effect(obj, m)
        calls == op \in {"CALL", "CALL_FUNCTION_EX"}
    IN  CASE outcome = "raise" ->
                Raise(obj, Holding(m, rest), <<"exception", effect>>,
                      m.pc + (IF calls THEN behind ELSE 0))
          [] outcome = "false" -> GoTo(m, rest, JumpTo(obj, m))
          [] outcome = "end" -> GoTo(m, rest, JumpTo(obj, m) + 1)   \* past END_FOR
          [] OTHER ->
                CASE op = "RETURN_VALUE" -> Stopped(m, effect)
                  [] op \in {"STORE_NAME", "STORE_FAST", "POP_JUMP_IF_FALSE"} -> With(m, rest)
                  [] OTHER -> With(m, Append(rest, <<"result", effect>>))
=============================================================================
