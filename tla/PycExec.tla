------------------------------ MODULE PycExec -------------------------------
(***************************************************************************)
(* A compiler, the machine that runs its output on the host, and a         *)
(* reference semantics of the source, put together: a program is compiled, *)
(* its code runs, and every run is compared with its source.               *)
(*                                                                         *)
(* Compiled[p] is the code of program p and SourceRun[p][answers] what its *)
(* source does with these answers; MCPycExec gives them their values from  *)
(* PycCodegen and PySource.                                                *)
(***************************************************************************)
EXTENDS HostEmitted

CONSTANTS Programs, Compiled, SourceRun

Init == \E p \in Programs : Load(p, Compiled[p])
Spec == Init /\ [][Next]_vars

Runs == outcome = Running

-----------------------------------------------------------------------------
Column(pairs, j) == [i \in DOMAIN pairs |-> pairs[i][j]]

(* Compiled code does what its source says: when a run ends, the calls and *)
(* stores it made, with the answers it got, are those the source makes,    *)
(* and it ends the way the source ends (_pyc_visit and all it calls;       *)
(* "must evaluate to the same result as CPython", test_compiler_codegen.py).*)
SameAsSource ==
    /\ code.err = ""
    /\ ~Runs => LET r == SourceRun[prog][Column(trace, 2)]
                IN  r.how = outcome /\ r.complete /\ r.events = Column(trace, 1)

(* The machine never meets an instruction it cannot execute: every pop     *)
(* finds a value, every operand is of a kind the instruction takes, the pc *)
(* stays in the code, and a function leaves no handler active.             *)
NeverStuck == Runs => Executable

(* A fused load never reads an unbound local (the peephole pass of         *)
(* codegen.py fuses only loads of locals that are provably bound; the      *)
(* device does not check them).                                            *)
FusedLoadsBound == Runs => ~FusedUnbound

(* An instruction that raises under a row of the exception table finds at  *)
(* least the entries the row cuts the stack to: the depth the compiler     *)
(* wrote in the row (_stk_base) is what the enclosing constructs hold, so  *)
(* that no raise makes up entries or leaves an iterator under a handler.   *)
MayRaise == Calls \cup EventOps \cup {"LOAD_NAME", "LOAD_GLOBAL", "LOAD_FAST", "LOAD_DEREF",
                "RAISE_VARARGS", "RERAISE", "UNPACK_EX", "DICT_MERGE"}
HandlerDepthExists ==
    Runs /\ Op \in MayRaise =>
        LET rows == ParseTable(Code.exctable, 1)
        IN  \A i \in DOMAIN rows :
               rows[i].start <= Frame.pc /\ Frame.pc < rows[i].end
               => rows[i].depth <= Len(Stack)

(* The stack never outgrows the size the compiler declares for the code    *)
(* object (the stack scan of _pyc_assemble): the device does not check for *)
(* overflow and relies on it.                                              *)
StackSizeSuffices == Runs => Len(Stack) <= Code.stacksize
=============================================================================
