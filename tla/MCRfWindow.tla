---------------------------- MODULE MCRfWindow ----------------------------
(***************************************************************************)
(* Small rings for TLC.  RF_DEPTH = 6 or 8 stands for 256; the code        *)
(* objects are scaled so that two nested calls wrap the ring and the third *)
(* spills.  The machine never looks at a value, so one marked value among  *)
(* plain ones shows every loss and every mix-up: each run marks one kind   *)
(* of value, and produces it once.                                         *)
(***************************************************************************)
EXTENDS RfWindow

CONSTANTS plain, marked

Fn(name, nlocals, stacksize, peak, params, dflt, handlers) ==
    [name |-> name, nlocals |-> nlocals, stacksize |-> stacksize,
     peak |-> peak, params |-> params, dflt |-> dflt, handlers |-> handlers]

Handler(depth, lasti) == [depth |-> depth, lasti |-> lasti]

\* For the ring of 8: a recursive function of one argument with a handler, a
\* leaf with a defaulted parameter, a function too wide to call, frame 0.
rec8  == Fn("rec", 1, 3, 3, 1, 0, {Handler(0, 1)})
leaf8 == Fn("leaf", 2, 2, 1, 1, 1, {})
wide8 == Fn("wide", 4, 4, 4, 0, 0, {})
main8 == Fn("main", 1, 3, 3, 0, 0, {Handler(1, 0)})

\* For the ring of 6.
rec6  == Fn("rec", 1, 3, 2, 0, 0, {Handler(0, 1)})
leaf6 == Fn("leaf", 1, 2, 1, 1, 1, {})
main6 == Fn("main", 0, 3, 3, 0, 0, {Handler(0, 0)})

\* Programs that break one of the limits of RfWindowSafe each, all of which
\* the core accepts.  tight uses its whole declared stack and takes no
\* argument;
\* two frames of long8 do not fit in the ring;
\* dflts8 has more defaults than rec8 leaves room for.
tight8  == Fn("tight", 1, 3, 3, 0, 0, {})
long8   == Fn("long", 3, 3, 2, 0, 0, {})
dflts8  == Fn("dflts", 2, 2, 1, 2, 2, {})

Limit8a == {tight8}
Limit8c == {long8}
Limit8d == {rec8, dflts8}

Small8 == {rec8, leaf8}
Limit8 == {rec8, leaf8, wide8}
Small6 == {rec6, leaf6}
=============================================================================
