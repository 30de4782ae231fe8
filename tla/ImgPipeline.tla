---------------------------- MODULE ImgPipeline -----------------------------
(***************************************************************************)
(* One program, its image, and its run: the host on the code object as it  *)
(* was compiled and the hart on the image, step by step together           *)
(* (build_image_from_source_text and seed_firmware_function in             *)
(* src/pycore/tools/image_from_source.py).                                 *)
(***************************************************************************)
EXTENDS ImgBuild

CONSTANTS
    Programs,       \* Prepared programs
    MaxEffects      \* bound on the effects of one run

VARIABLES
    prog,
    stage,      \* "source", "rejected" or "run"
    host, hart, \* the two machines
    effects     \* how many effects have taken place

vars == <<prog, stage, host, hart, effects>>

Init ==
    /\ prog \in Programs
    /\ stage = "source"
    /\ host = Start /\ hart = Start /\ effects = 0

BuildImageOf ==
    /\ stage = "source"
    /\ IF prog.bad = ""
       THEN /\ stage' = "run"
            /\ host' = Settle(prog.host, Start) /\ hart' = Settle(prog.hart, Start)
       ELSE stage' = "rejected" /\ UNCHANGED <<host, hart>>
    /\ UNCHANGED <<prog, effects>>

-----------------------------------------------------------------------------
(* The run: the effect both stand at turns out one way or the other.       *)

Run ==
    /\ stage = "run" /\ effects < MaxEffects
    /\ ~Ended(host) /\ ~Ended(hart)
    /\ \E outcome \in Outcomes(prog.host, host) \cap Outcomes(prog.hart, hart) :
        /\ host' = Settle(prog.host, Perform(prog.host, host, outcome, 0))
        /\ hart' = Settle(prog.hart, Perform(prog.hart, hart, outcome, 1))
    /\ effects' = effects + 1
    /\ UNCHANGED <<prog, stage>>

Next == BuildImageOf \/ Run
Spec == Init /\ [][Next]_vars

-----------------------------------------------------------------------------
(* Properties.                                                             *)

(* The image does what the program does: at every point of every run, with *)
(* branches and failures either way, the hart is about to have the effect  *)
(* the host is about to have, on the same operands, or has ended the same  *)
(* way.  Functions carry their defaults and classes their attributes, so   *)
(* nothing a rewrite took out of the code is lost; an exception finds the  *)
(* handler it would find on the host.                                      *)
SameEffects ==
    stage = "run" =>
        /\ Settled(prog.host, host) /\ Settled(prog.hart, hart)
        /\ Effect(prog.host, host) = Effect(prog.hart, hart)

(* The frame the code object asks for is deep enough: rewrites that need   *)
(* more of the stack than CPython counted have raised co_stacksize.        *)
StackFits == stage = "run" => hart.deepest <= prog.depth

(* The build accepts a program exactly when it is in the language.         *)
AcceptsTheLanguage ==
    /\ stage = "rejected" => ~prog.legal
    /\ stage = "run" => prog.legal
=============================================================================
