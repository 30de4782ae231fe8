---------------------------- MODULE RfWindowSafe ----------------------------
(***************************************************************************)
(* The programs for which the ring of RfWindow keeps every promise: the    *)
(* limits on frame sizes that the spill arithmetic of the core silently    *)
(* relies on.  The core checks only nlocals + stacksize <= RF_WINDOW_CAP;  *)
(* the runs that leave these limits out show what happens then.            *)
(***************************************************************************)
EXTENDS RfWindow

\* The code objects a CALL does not reject.
Callable == {c \in Codes : Need(c) <= RF_WINDOW_CAP}

\* The fewest arguments a call can pass, and how far below its declared size
\* a frame stays (the arguments are counted twice by the spill test, once as
\* operands of the caller and once as locals of the callee).
MinArgc(c) == c.params - c.dflt
Slack(c) == MinArgc(c) + c.stacksize - c.peak

\* Named one by one, because a run breaks each of them in turn.
\* 1. A frame leaves one entry free, so that the ring never fills.
LeavesOneFree == \A c \in Callable : Slack(c) >= 1

\* 2. A frame leaves room for the defaults that the binder writes above the
\*    top of the stack before the spill.
LeavesDefaultsFree ==
    \A c \in Callable, d \in Callable :
        /\ Slack(c) >= d.dflt
        /\ Used(Boot) + d.dflt <= RF_DEPTH

\* 3. A spill never has to evict the arguments themselves.
KeepsArguments ==
    \A c \in Callable : Need(c) + c.params + RF_SPILL_HYST <= RF_DEPTH

\* 4. A caller and its callee fit in the ring together, so that no index of
\*    the caller is taken for one of the callee.
PairFits ==
    \A c \in Callable \cup {Boot}, d \in Callable :
        Used(c) - MinArgc(d) + Used(d) <= RF_DEPTH

\* 5. The same for a raise and the frame that handles it.
UnwindFits == UNWIND_SPAN <= RF_DEPTH

ASSUME WindowBudget ==
    /\ LeavesOneFree /\ LeavesDefaultsFree /\ KeepsArguments /\ PairFits
    /\ UnwindFits
=============================================================================
