---------------------------- MODULE HostEmitted -----------------------------
(***************************************************************************)
(* The machine that runs compiled code on the host                         *)
(* (_HostEmittedCode in src/pycore/tools/image_from_source.py), one step   *)
(* an instruction.                                                         *)
(*                                                                         *)
(* A value is a tuple whose first component is its kind.  Containers are   *)
(* values: nothing but the instruction that builds a list sees it change,  *)
(* because a store into one is an event of the trace.  What a program does *)
(* to its surroundings -- calling an external function, an attribute or a  *)
(* subscript store -- is appended to trace together with the answer, which *)
(* is any member of Answers.                                               *)
(*                                                                         *)
(* The machine runs one code object, as PycAssemble makes them; a code     *)
(* object nested in it is named by the path of constant indices that leads *)
(* to it, <<>> for the module's.  A program is cut after MAX_EVENTS events.*)
(***************************************************************************)
EXTENDS PycAssemble, PyValues

CONSTANTS Externals, ExcClasses, Answers, MAX_EVENTS

VARIABLES
    prog, code, \* the program that runs, and its code object
    frames,     \* the active calls: code path, pc, stack, locals, closure
    globals,    \* the globals dict
    cells,      \* the contents of the cells made so far
    active,     \* _exc of each code object that has handled an exception
    born,       \* exceptions made so far: their identity
    trace,      \* the events and their answers
    outcome     \* "run", or how the program ended

vars == <<prog, code, frames, globals, cells, active, born, trace, outcome>>

Running == <<"run">>

-----------------------------------------------------------------------------
(* Where the machine is.                                                   *)

RECURSIVE CodeAt(_)
CodeAt(path) ==
    IF path = <<>> THEN code
    ELSE CodeAt(Front(path)).consts[Last(path)][2]

Frame == Last(frames)
Code == CodeAt(Frame.path)
Stack == Frame.stack
Op == Code.ins[Frame.pc + 1].op
Arg == Code.ins[Frame.pc + 1].arg

Peek(k) == Stack[Len(Stack) - k + 1]            \* Peek(1) is the top
Under(k) == SubSeq(Stack, 1, Len(Stack) - k)
TopN(k) == SubSeq(Stack, Len(Stack) - k + 1, Len(Stack))

WithFrame(f) == frames' = [frames EXCEPT ![Len(frames)] = f]
Goto(pc, stack) == WithFrame([Frame EXCEPT !.pc = pc, !.stack = stack])
Continue(stack) == Goto(Frame.pc + 1, stack)

Exc(path) == IF path \in DOMAIN active THEN active[path] ELSE None
Put(f, x, v) == [y \in DOMAIN f \cup {x} |-> IF y = x THEN v ELSE f[y]]

-----------------------------------------------------------------------------
(* _lookup: globals, then the builtins; Unbound when there is none.        *)
Lookup(name) ==
    IF name \in DOMAIN globals THEN globals[name]
    ELSE IF name \in {"_bi_code_kind", "len"} THEN <<"builtin", name>>
    ELSE IF name \in Externals THEN <<"ext", name>>
    ELSE IF name \in ExcClasses THEN <<"class", name>>
    ELSE Unbound

-----------------------------------------------------------------------------
(* Ends and raises.                                                        *)

End(how) ==
    /\ outcome' = how
    /\ frames' = <<>>
    /\ UNCHANGED <<prog, code, globals, cells, active, trace>>

(* _raise_to_handler: the first row of the table that covers the pc, the   *)
(* stack cut (or filled) to its depth.  A raise no row covers leaves every *)
(* frame: the call that made the frame is not a raise of its caller.       *)
Padded(stack, depth) ==
    [i \in 1..depth |-> IF i <= Len(stack) THEN stack[i] ELSE None]

RaiseToHandler(e) ==
    LET rows == ParseTable(Code.exctable, 1)
        hits == {i \in DOMAIN rows : rows[i].start <= Frame.pc /\ Frame.pc < rows[i].end}
        row == rows[CHOOSE i \in hits : \A j \in hits : i <= j]
    IN  IF hits = {} THEN End(<<"raised", e[2]>>)
        ELSE /\ Goto(row.target, Padded(Stack, row.depth)
                                 \o (IF row.lasti = 1 THEN <<IntV(0)>> ELSE <<>>) \o <<e>>)
             /\ UNCHANGED <<prog, code, globals, cells, active, trace, outcome>>

RaiseNew(class) == RaiseToHandler(<<"exc", class, born>>) /\ born' = born + 1

-----------------------------------------------------------------------------
(* An instruction the machine cannot execute: too little on the stack, or  *)
(* an operand of a kind it does not accept.                                *)

Needs(op, arg) ==
    CASE op \in {"STORE_NAME", "STORE_GLOBAL", "STORE_FAST", "STORE_DEREF", "POP_TOP",
                 "TO_BOOL", "UNARY_NOT", "UNARY_NEGATIVE", "UNARY_INVERT", "LOAD_ATTR",
                 "DELETE_ATTR", "GET_ITER", "FOR_ITER", "END_FOR", "POP_ITER", "UNPACK_EX",
                 "UNPACK_SEQUENCE", "POP_EXCEPT", "PUSH_EXC_INFO", "RERAISE",
                 "RETURN_VALUE", "FORMAT_SIMPLE", "CONVERT_VALUE", "MAKE_FUNCTION",
                 "STORE_FAST_LOAD_FAST", "CALL_INTRINSIC_1"} \cup CondJumps -> 1
      [] op \in {"BINARY_OP", "COMPARE_OP", "IS_OP", "CONTAINS_OP", "STORE_ATTR",
                 "DELETE_SUBSCR", "CHECK_EXC_MATCH", "SET_FUNCTION_ATTRIBUTE",
                 "STORE_FAST_STORE_FAST"} -> 2
      [] op \in {"STORE_SUBSCR", "BINARY_SLICE"} -> 3
      [] op \in {"COPY", "SWAP", "BUILD_LIST", "BUILD_TUPLE", "BUILD_SET",
                 "BUILD_STRING", "RAISE_VARARGS"} -> arg
      [] op \in {"LIST_APPEND", "LIST_EXTEND", "SET_ADD", "SET_UPDATE", "DICT_UPDATE",
                 "DICT_MERGE"} -> arg + 1
      [] op = "MAP_ADD" -> arg + 2
      [] op = "BUILD_MAP" -> 2 * arg
      [] op = "CALL" -> arg + 2
      [] op = "CALL_KW" -> arg + 3
      [] op = "CALL_FUNCTION_EX" -> 4
      [] OTHER -> 0

Callable(v) == v[1] \in {"ext", "class", "builtin", "fn", "code"}
CalleeAt == CASE Op = "CALL" -> Arg + 2 [] Op = "CALL_KW" -> Arg + 3 [] OTHER -> 4

Accepts ==
    CASE Op = "BINARY_OP" ->
            IF Arg = 26 THEN (IsSeq(Peek(2)) /\ IsNumber(Peek(1))) \/ Peek(2)[1] = "dict"
            ELSE BinaryDefined(Arg, Peek(2), Peek(1))
      [] Op = "COMPARE_OP" -> IsNumber(Peek(1)) /\ IsNumber(Peek(2))
      [] Op \in {"UNARY_NEGATIVE", "UNARY_INVERT"} -> IsNumber(Peek(1))
      [] Op = "CONTAINS_OP" -> Iterable(Peek(1))
      [] Op = "BINARY_SLICE" -> IsSeq(Peek(3))
      [] Op = "FOR_ITER" -> Peek(1)[1] = "iter"
      [] Op = "GET_ITER" -> Iterable(Peek(1))
      [] Op \in {"CALL", "CALL_KW", "CALL_FUNCTION_EX"} -> Callable(Peek(CalleeAt))
      [] Op = "UNPACK_SEQUENCE" -> IsSeq(Peek(1)) /\ Len(Peek(1)[2]) >= Arg
      [] Op = "UNPACK_EX" -> Iterable(Peek(1))
      [] Op = "LIST_APPEND" -> Peek(Arg + 1)[1] = "list"
      [] Op = "LIST_EXTEND" -> Peek(Arg + 1)[1] = "list" /\ Iterable(Peek(1))
      [] Op = "SET_ADD" -> Peek(Arg + 1)[1] = "set"
      [] Op = "SET_UPDATE" -> Peek(Arg + 1)[1] = "set" /\ Iterable(Peek(1))
      [] Op = "MAP_ADD" -> Peek(Arg + 2)[1] = "dict"
      [] Op \in {"DICT_UPDATE", "DICT_MERGE"} ->
            Peek(Arg + 1)[1] = "dict" /\ Peek(1)[1] = "dict"
      [] Op \in {"LOAD_DEREF", "STORE_DEREF"} -> Frame.locals[Arg + 1][1] = "cell"
      [] Op = "SET_FUNCTION_ATTRIBUTE" -> Arg = 8 /\ Peek(1)[1] = "code" /\ Peek(2)[1] = "tuple"
      [] Op = "COPY_FREE_VARS" -> Len(Frame.closure) = Arg
      [] Op = "CHECK_EXC_MATCH" -> Peek(2)[1] = "exc" /\ Peek(1)[1] \in {"class", "tuple"}
      [] Op = "RAISE_VARARGS" ->
            IF Arg = 0 THEN Exc(Frame.path)[1] = "exc" ELSE Peek(1)[1] \in {"exc", "class"}
      [] Op = "RERAISE" -> Peek(1)[1] \in {"exc", "class"}
      \* RETURN_VALUE inside an active handler
      [] Op = "RETURN_VALUE" -> Exc(Frame.path) = Frame.entryExc
      [] OTHER -> TRUE

Executable == /\ Frame.pc < Len(Code.ins)
              /\ Needs(Op, Arg) <= Len(Stack)
              /\ Accepts

Ready(ops) == outcome = Running /\ Frame.pc < Len(Code.ins) /\ Op \in ops /\ Executable
Local == UNCHANGED <<prog, code, globals, cells, active, born, trace, outcome>>

-----------------------------------------------------------------------------
(* Loads and stores.                                                       *)

Constant(v, path) == IF v[1] = "code" THEN <<"code", path>> ELSE v

LoadConst ==
    /\ Ready({"LOAD_SMALL_INT", "LOAD_CONST", "PUSH_NULL"})
    /\ Continue(Append(Stack,
          CASE Op = "LOAD_SMALL_INT" -> IntV(Arg)
            [] Op = "LOAD_CONST" -> Constant(Code.consts[Arg + 1], Append(Frame.path, Arg + 1))
            [] Op = "PUSH_NULL" -> Null))
    /\ Local

(* LOAD_NAME and LOAD_GLOBAL; a name nobody defines raises NameError here. *)
LoadName ==
    /\ Ready({"LOAD_NAME", "LOAD_GLOBAL"})
    /\ LET global == Op = "LOAD_GLOBAL"
           v == Lookup(Code.names[(IF global THEN Arg \div 2 ELSE Arg) + 1])
       IN  IF v = Unbound THEN RaiseNew("NameError")
           ELSE /\ Continue(Stack \o <<v>>
                            \o (IF global /\ Arg % 2 = 1 THEN <<Null>> ELSE <<>>))
                /\ Local

StoreName ==
    /\ Ready({"STORE_NAME", "STORE_GLOBAL"})
    /\ globals' = Put(globals, Code.names[Arg + 1], Peek(1))
    /\ Continue(Under(1))
    /\ UNCHANGED <<prog, code, cells, active, born, trace, outcome>>

LocalAt(i) ==
    IF Op = "LOAD_DEREF" THEN cells[Frame.locals[i + 1][2]] ELSE Frame.locals[i + 1]

LoadFast ==
    /\ Ready({"LOAD_FAST", "LOAD_DEREF"})
    /\ IF LocalAt(Arg) = Unbound THEN RaiseNew("UnboundLocalError")
       ELSE Continue(Append(Stack, LocalAt(Arg))) /\ Local

StoreLocal(i, v, stack) ==
    WithFrame([Frame EXCEPT !.pc = @ + 1, !.stack = stack, !.locals[i + 1] = v])

StoreFast ==
    /\ Ready({"STORE_FAST", "DELETE_FAST"})
    /\ IF Op = "STORE_FAST" THEN StoreLocal(Arg, Peek(1), Under(1))
       ELSE StoreLocal(Arg, Unbound, Stack)
    /\ Local

StoreDeref ==
    /\ Ready({"STORE_DEREF"})
    /\ cells' = [cells EXCEPT ![Frame.locals[Arg + 1][2]] = Peek(1)]
    /\ Continue(Under(1))
    /\ UNCHANGED <<prog, code, globals, active, born, trace, outcome>>

(* The fused pairs.  The device does not check the paired load, so an      *)
(* unbound local here would be a mistake of the compiler.                  *)
FusedLoads ==
    CASE Op = "LOAD_FAST_LOAD_FAST" -> {Arg \div 16, Arg % 16}
      [] Op = "STORE_FAST_LOAD_FAST" -> {Arg % 16} \ {Arg \div 16}
      [] OTHER -> {}
FusedUnbound == \E i \in FusedLoads : Frame.locals[i + 1] = Unbound

FusedPair ==
    /\ Ready({"LOAD_FAST_LOAD_FAST", "STORE_FAST_LOAD_FAST", "STORE_FAST_STORE_FAST"})
    /\ LET a == Arg \div 16
           b == Arg % 16
       IN  IF FusedUnbound THEN RaiseNew("UnboundLocalError")
           ELSE /\ CASE Op = "LOAD_FAST_LOAD_FAST" ->
                           Continue(Stack \o <<Frame.locals[a + 1], Frame.locals[b + 1]>>)
                     [] Op = "STORE_FAST_LOAD_FAST" ->
                           StoreLocal(a, Peek(1),
                                      Append(Under(1), IF a = b THEN Peek(1)
                                                       ELSE Frame.locals[b + 1]))
                     [] Op = "STORE_FAST_STORE_FAST" ->
                           WithFrame([Frame EXCEPT !.pc = @ + 1, !.stack = Under(2),
                                                   !.locals = [[@ EXCEPT ![a + 1] = Peek(1)]
                                                               EXCEPT ![b + 1] = Peek(2)]])
                /\ Local

-----------------------------------------------------------------------------
(* Instructions that only work on the stack.                               *)

NoOps == {"RESUME", "NOP", "MAKE_FUNCTION"}

StackOp ==
    /\ Ready(NoOps \cup {"POP_TOP", "END_FOR", "POP_ITER", "COPY", "SWAP"})
    /\ Continue(CASE Op \in NoOps -> Stack
                  [] Op \in {"POP_TOP", "END_FOR", "POP_ITER"} -> Under(1)
                  [] Op = "COPY" -> Append(Stack, Peek(Arg))
                  [] Op = "SWAP" -> [Stack EXCEPT ![Len(Stack)] = Peek(Arg),
                                                  ![Len(Stack) - Arg + 1] = Peek(1)])
    /\ Local

Unary ==
    /\ Ready({"TO_BOOL", "UNARY_NOT", "UNARY_NEGATIVE", "UNARY_INVERT"})
    /\ Continue(Append(Under(1),
          CASE Op = "TO_BOOL" -> BoolV(Truth(Peek(1)))
            [] Op = "UNARY_NOT" -> BoolV(~Truth(Peek(1)))
            [] Op = "UNARY_NEGATIVE" -> IntV(0 - Number(Peek(1)))
            [] Op = "UNARY_INVERT" -> IntV(0 - Number(Peek(1)) - 1)))
    /\ Local

Binary ==
    /\ Ready({"BINARY_OP", "COMPARE_OP", "IS_OP", "CONTAINS_OP"})
    /\ Op = "BINARY_OP" => Arg # 26
    /\ LET l == Peek(2)
           r == Peek(1)
       IN  Continue(Append(Under(2),
             CASE Op = "BINARY_OP" -> BinaryInt(Arg, Number(l), Number(r))
               [] Op = "COMPARE_OP" -> BoolV(CompareInt(Arg \div 32, Number(l), Number(r)))
               [] Op = "IS_OP" -> BoolV((l = r) # (Arg = 1))
               [] Op = "CONTAINS_OP" -> BoolV(Contains(Items(r), l) # (Arg = 1))))
    /\ Local

(* A subscript the container does not have escapes as a raw exception of   *)
(* the host; no row of the table is looked at.                             *)
Subscript ==
    /\ Ready({"BINARY_OP"}) /\ Arg = 26
    /\ LET v == Peek(2)
           i == Peek(1)
       IN  IF IsSeq(v)
           THEN IF InRange(v, Number(i))
                THEN Continue(Append(Under(2), Element(v, Number(i)))) /\ Local
                ELSE End(<<"raised", "IndexError">>) /\ UNCHANGED born
           ELSE IF HasKey(v[2], i)
                THEN Continue(Append(Under(2), v[2][KeyAt(v[2], i)][2])) /\ Local
                ELSE End(<<"raised", "KeyError">>) /\ UNCHANGED born

BinarySlice ==
    /\ Ready({"BINARY_SLICE"})
    /\ Continue(Append(Under(3), SliceOf(Peek(3), Peek(2), Peek(1))))
    /\ Local

JumpCache == IF Op = "JUMP_FORWARD" THEN 0 ELSE 1

Jumps ==
    /\ Ready(CondJumps \cup {"JUMP_FORWARD", "JUMP_BACKWARD"})
    /\ LET next == Frame.pc + 1
           taken == CASE Op = "POP_JUMP_IF_FALSE" -> ~Truth(Peek(1))
                      [] Op = "POP_JUMP_IF_TRUE" -> Truth(Peek(1))
                      [] Op = "POP_JUMP_IF_NONE" -> Peek(1) = None
                      [] Op = "POP_JUMP_IF_NOT_NONE" -> Peek(1) # None
                      [] OTHER -> TRUE
           to == IF Op = "JUMP_BACKWARD" THEN next + JumpCache - Arg ELSE next + JumpCache + Arg
       IN  Goto(IF taken THEN to ELSE next, IF Op \in CondJumps THEN Under(1) ELSE Stack)
    /\ Local

-----------------------------------------------------------------------------
(* Loops, containers, text.                                                *)

(* Exhaustion skips END_FOR and goes to POP_ITER.                          *)
Iterate ==
    /\ Ready({"GET_ITER", "FOR_ITER"})
    /\ LET rest == Peek(1)[2]
       IN  IF Op = "GET_ITER" THEN Continue(Append(Under(1), <<"iter", Items(Peek(1))>>))
           ELSE IF rest = <<>> THEN Goto(Frame.pc + 1 + JumpCache + Arg + 1, Stack)
           ELSE Continue(Under(1) \o << <<"iter", Tail(rest)>>, Head(rest) >>)
    /\ Local

Pairs(s) == [i \in 1..(Len(s) \div 2) |-> <<s[2 * i - 1], s[2 * i]>>]
MapOf(pairs) == Thread(LAMBDA m, p : MapPut(m, p[1], p[2]), <<>>, pairs)
SetOf(xs) == Thread(SetAdd, <<>>, xs)

Build ==
    /\ Ready({"BUILD_LIST", "BUILD_TUPLE", "BUILD_SET", "BUILD_MAP", "BUILD_STRING",
              "CALL_INTRINSIC_1"})
    /\ Continue(
         CASE Op = "BUILD_LIST" -> Append(Under(Arg), <<"list", TopN(Arg)>>)
           [] Op = "BUILD_TUPLE" -> Append(Under(Arg), <<"tuple", TopN(Arg)>>)
           [] Op = "BUILD_SET" -> Append(Under(Arg), <<"set", SetOf(TopN(Arg))>>)
           [] Op = "BUILD_MAP" -> Append(Under(2 * Arg), <<"dict", MapOf(Pairs(TopN(2 * Arg)))>>)
           [] Op = "BUILD_STRING" -> Append(Under(Arg), <<"joined", TopN(Arg)>>)
           [] Op = "CALL_INTRINSIC_1" -> Append(Under(1), <<"tuple", Peek(1)[2]>>))
    /\ Local

(* The container is Arg below what is added to it.                         *)
Grow(k, container) == Continue([Under(k) EXCEPT ![Len(Stack) - k - Arg + 1][2] = container])

AddTo ==
    /\ Ready({"LIST_APPEND", "LIST_EXTEND", "SET_ADD", "SET_UPDATE", "DICT_UPDATE", "MAP_ADD"})
    /\ LET into == Peek((IF Op = "MAP_ADD" THEN 2 ELSE 1) + Arg)[2]
       IN  CASE Op = "LIST_APPEND" -> Grow(1, Append(into, Peek(1)))
             [] Op = "LIST_EXTEND" -> Grow(1, into \o Items(Peek(1)))
             [] Op = "SET_ADD" -> Grow(1, SetAdd(into, Peek(1)))
             [] Op = "SET_UPDATE" -> Grow(1, Thread(SetAdd, into, Items(Peek(1))))
             [] Op = "DICT_UPDATE" ->
                   Grow(1, Thread(LAMBDA m, p : MapPut(m, p[1], p[2]), into, Peek(1)[2]))
             [] Op = "MAP_ADD" -> Grow(2, MapPut(into, Peek(2), Peek(1)))
    /\ Local

(* Merging keywords of a call: one given twice is a TypeError.             *)
DictMerge ==
    /\ Ready({"DICT_MERGE"})
    /\ LET into == Peek(Arg + 1)[2]
           more == Peek(1)[2]
       IN  IF \E i \in DOMAIN more : HasKey(into, more[i][1]) THEN RaiseNew("TypeError")
           ELSE Grow(1, into \o more) /\ Local

Unpack ==
    /\ Ready({"UNPACK_SEQUENCE", "UNPACK_EX"})
    /\ LET items == Items(Peek(1))
           n == Len(items)
           before == Arg % 256
           after == Arg \div 256
           parts == SubSeq(items, 1, before)
                    \o << <<"list", SubSeq(items, before + 1, n - after)>> >>
                    \o SubSeq(items, n - after + 1, n)
       IN  CASE Op = "UNPACK_SEQUENCE" ->
                   Continue(Under(1) \o Reverse(SubSeq(items, 1, Arg))) /\ Local
             [] Op = "UNPACK_EX" /\ n < before + after -> RaiseNew("ValueError")
             [] Op = "UNPACK_EX" /\ n >= before + after ->
                   Continue(Under(1) \o Reverse(parts)) /\ Local

Format ==
    /\ Ready({"FORMAT_SIMPLE", "CONVERT_VALUE"})
    /\ Continue(Append(Under(1), IF Op = "FORMAT_SIMPLE" THEN <<"text", Peek(1)>>
                                 ELSE <<"converted", Arg, Peek(1)>>))
    /\ Local

-----------------------------------------------------------------------------
(* Closures and calls.                                                     *)

MakeCell ==
    /\ Ready({"MAKE_CELL"})
    /\ cells' = Append(cells, Frame.locals[Arg + 1])
    /\ StoreLocal(Arg, <<"cell", Len(cells) + 1>>, Stack)
    /\ UNCHANGED <<prog, code, globals, active, born, trace, outcome>>

WithFreeAppended(locals, n, closure) == locals \o closure
WithFree(locals, n, closure) == SubSeq(locals, 1, Len(locals) - n) \o closure

Closure ==
    /\ Ready({"SET_FUNCTION_ATTRIBUTE", "COPY_FREE_VARS"})
    /\ IF Op = "SET_FUNCTION_ATTRIBUTE"
       THEN Continue(Append(Under(2), <<"fn", Peek(1)[2], Peek(2)[2]>>))
       ELSE WithFrame([Frame EXCEPT !.pc = @ + 1,
                           !.locals = WithFree(@, Arg, Frame.closure)])
    /\ Local

(* The slots of a call, or that the arguments do not fit (TypeError).      *)
BindArgs(co, args, kws) ==
    LET nargs == co.argcount
        named == nargs + co.kwonly
        varargs == co.flags % 2 = 1
        varkw == co.flags \div 2 = 1
        KwSlot(key) == \E i \in 1..named : co.varnames[i] = key
        Given(i) == \E j \in DOMAIN kws : kws[j][1] = co.varnames[i]
        GivenValue(i) == kws[CHOOSE j \in DOMAIN kws : kws[j][1] = co.varnames[i]][2]
        dflt(i) == i - (nargs - Len(co.defaults))
        Positional(i) == i <= nargs /\ i <= Len(args)
        HasDefault(i) == IF i <= nargs THEN dflt(i) > 0 ELSE HasKey(co.kwdefaults, co.varnames[i])
        Default(i) == IF i <= nargs THEN co.defaults[dflt(i)]
                      ELSE co.kwdefaults[KeyAt(co.kwdefaults, co.varnames[i])][2]
        leftover == SelectSeq(kws, LAMBDA p : ~KwSlot(p[1]))
        starSlot == named + 1
        kwSlot == IF varargs THEN named + 2 ELSE named + 1
        Slot(i) ==
            CASE Positional(i) -> args[i]
              [] i <= named /\ ~Positional(i) -> IF Given(i) THEN GivenValue(i) ELSE Default(i)
              [] varargs /\ i = starSlot -> <<"tuple", SubSeq(args, nargs + 1, Len(args))>>
              [] varkw /\ i = kwSlot -> <<"dict", [j \in DOMAIN leftover |->
                                            << <<"str", leftover[j][1]>>, leftover[j][2] >>]>>
              [] OTHER -> Unbound
        fits == /\ Len(args) > nargs => varargs
                /\ leftover # <<>> => varkw
                /\ \A i \in 1..named : IF Positional(i) THEN ~Given(i)
                                        ELSE Given(i) \/ HasDefault(i)
    IN  [fits |-> fits, locals |-> IF fits THEN [i \in 1..co.nlocals |-> Slot(i)] ELSE <<>>]

NewFrame(path, locals, closure) ==
    [path |-> path, pc |-> 0, stack |-> <<>>, locals |-> locals, closure |-> closure,
     entryExc |-> Exc(path)]

(* Callee, positional and keyword arguments, and the stack below them.     *)
KwNames == [i \in DOMAIN Peek(1)[2] |-> Peek(1)[2][i][2]]
KwCount == Len(Peek(1)[2])
CallArgs ==
    CASE Op = "CALL" -> TopN(Arg)
      [] Op = "CALL_KW" -> SubSeq(TopN(Arg + 1), 1, Arg - KwCount)
      [] Op = "CALL_FUNCTION_EX" -> Items(Peek(2))
CallKws ==
    CASE Op = "CALL" -> <<>>
      [] Op = "CALL_KW" -> LET vs == SubSeq(TopN(KwCount + 1), 1, KwCount)
                           IN  [i \in 1..KwCount |-> <<KwNames[i], vs[i]>>]
      [] Op = "CALL_FUNCTION_EX" ->
            IF Peek(1) = Null THEN <<>>
            ELSE [i \in DOMAIN Peek(1)[2] |-> <<Peek(1)[2][i][1][2], Peek(1)[2][i][2]>>]
Callee == Peek(CalleeAt)
SelfOrNull == Peek(CalleeAt - 1)
AllArgs == (IF SelfOrNull = Null THEN <<>> ELSE <<SelfOrNull>>) \o CallArgs
Calls == {"CALL", "CALL_KW", "CALL_FUNCTION_EX"}
Returned(v) == Append(Under(CalleeAt), v)

CallFunction ==
    /\ Ready(Calls) /\ Callee[1] \in {"code", "fn"}
    /\ LET co == CodeAt(Callee[2])
           bound == BindArgs(co, AllArgs, CallKws)
           closure == IF Callee[1] = "fn" THEN Callee[3] ELSE <<>>
       IN  IF ~bound.fits THEN End(<<"raised", "TypeError">>) /\ UNCHANGED born
           ELSE /\ frames' = Append([frames EXCEPT ![Len(frames)].stack = Under(CalleeAt),
                                                   ![Len(frames)].pc = @ + 1],
                                    NewFrame(Callee[2], bound.locals, closure))
                /\ Local

(* An exception class makes an exception; len and the tag test answer.     *)
CallBuiltin ==
    /\ Ready(Calls) /\ Callee[1] \in {"class", "builtin"}
    /\ IF Callee[1] = "class"
       THEN /\ Continue(Returned(<<"exc", Callee[2], born>>))
            /\ born' = born + 1
            /\ UNCHANGED <<prog, code, globals, cells, active, trace, outcome>>
       ELSE /\ Continue(Returned(IF Callee[2] = "len" THEN IntV(Len(AllArgs[1][2]))
                                 ELSE IntV(IF AllArgs[1][1] = "int" THEN 1 ELSE 0)))
            /\ Local

-----------------------------------------------------------------------------
(* Events.                                                                 *)

(* The event the next instruction is, <<>> when it is none.                *)
EventNow ==
    CASE Op \in Calls /\ Callee[1] = "ext" -> <<"call", Callee[2], AllArgs, CallKws>>
      [] Op = "LOAD_ATTR" -> <<"getattr", Peek(1), Code.names[(Arg \div 2) + 1]>>
      [] Op = "STORE_ATTR" -> <<"setattr", Peek(1), Code.names[Arg + 1], Peek(2)>>
      [] Op = "DELETE_ATTR" -> <<"delattr", Peek(1), Code.names[Arg + 1]>>
      [] Op = "STORE_SUBSCR" -> <<"setitem", Peek(2), Peek(1), Peek(3)>>
      [] Op = "DELETE_SUBSCR" -> <<"delitem", Peek(2), Peek(1)>>
      [] OTHER -> <<>>

EventOps == {"LOAD_ATTR", "STORE_ATTR", "DELETE_ATTR", "STORE_SUBSCR", "DELETE_SUBSCR"}
IsEvent == Ready(EventOps) \/ (Ready(Calls) /\ Callee[1] = "ext")

StackAfter(answer) ==
    CASE Op \in Calls -> Returned(answer)
      [] Op = "LOAD_ATTR" -> Append(Under(1), answer) \o (IF Arg % 2 = 1 THEN <<Null>> ELSE <<>>)
      [] Op \in {"STORE_ATTR", "DELETE_SUBSCR"} -> Under(2)
      [] Op = "DELETE_ATTR" -> Under(1)
      [] Op = "STORE_SUBSCR" -> Under(3)

AnswersFor ==
    CASE Op \in Calls -> Answers
      [] Op = "LOAD_ATTR" -> {<<"ext", Code.names[(Arg \div 2) + 1]>>}
      [] OTHER -> {None}

Event ==
    /\ IsEvent
    /\ Len(trace) < MAX_EVENTS
    /\ \E answer \in AnswersFor :
          /\ trace' = Append(trace, <<EventNow, answer>>)
          /\ Continue(StackAfter(answer))
    /\ UNCHANGED <<prog, code, globals, cells, active, born, outcome>>

Cut ==
    /\ IsEvent
    /\ Len(trace) = MAX_EVENTS
    /\ End(<<"cut">>)
    /\ UNCHANGED born

-----------------------------------------------------------------------------
(* Exceptions and return.                                                  *)

Instance(v) == IF v[1] = "class" THEN <<"exc", v[2], born>> ELSE v
Makes(v) == IF v[1] = "class" THEN 1 ELSE 0

Raise ==
    /\ Ready({"RAISE_VARARGS", "RERAISE"})
    /\ LET v == IF Op = "RAISE_VARARGS" /\ Arg = 0 THEN Exc(Frame.path) ELSE Peek(1)
       IN  RaiseToHandler(Instance(v)) /\ born' = born + Makes(v)

(* [exc] becomes [prev, exc], and exc the active exception.                *)
PushExcInfo ==
    /\ Ready({"PUSH_EXC_INFO"})
    /\ Continue(Under(1) \o <<Exc(Frame.path), Peek(1)>>)
    /\ active' = Put(active, Frame.path, Peek(1))
    /\ UNCHANGED <<prog, code, globals, cells, born, trace, outcome>>

PopExcept ==
    /\ Ready({"POP_EXCEPT"})
    /\ Continue(Under(1))
    /\ active' = Put(active, Frame.path, Peek(1))
    /\ UNCHANGED <<prog, code, globals, cells, born, trace, outcome>>

CheckExcMatch ==
    /\ Ready({"CHECK_EXC_MATCH"})
    /\ Continue(Append(Under(1), BoolV(Matches(Peek(2), Peek(1)))))
    /\ Local

Return ==
    /\ Ready({"RETURN_VALUE"})
    /\ IF Len(frames) = 1 THEN End(<<"returned", Peek(1)>>) /\ UNCHANGED born
       ELSE /\ frames' = [Front(frames) EXCEPT ![Len(frames) - 1].stack = Append(@, Peek(1))]
            /\ Local

-----------------------------------------------------------------------------
(* A fresh machine with program p loaded.                                  *)
Load(p, c) ==
    /\ prog = p /\ code = c
    /\ frames = <<[path |-> <<>>, pc |-> 0, stack |-> <<>>, locals |-> <<>>,
                   closure |-> <<>>, entryExc |-> None]>>
    /\ globals = <<>> /\ cells = <<>> /\ active = <<>> /\ trace = <<>>
    /\ born = 0
    /\ outcome = Running

Next ==
    \/ LoadConst \/ LoadName \/ StoreName \/ LoadFast \/ StoreFast \/ StoreDeref \/ FusedPair
    \/ StackOp \/ Unary \/ Binary \/ Subscript \/ BinarySlice \/ Jumps
    \/ Iterate \/ Build \/ AddTo \/ DictMerge \/ Unpack \/ Format
    \/ MakeCell \/ Closure \/ CallFunction \/ CallBuiltin \/ Event \/ Cut
    \/ Raise \/ PushExcInfo \/ PopExcept \/ CheckExcMatch \/ Return
=============================================================================
