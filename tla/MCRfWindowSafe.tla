-------------------------- MODULE MCRfWindowSafe --------------------------
(***************************************************************************)
(* The same small rings, for programs that keep the limits of              *)
(* RfWindowSafe.                                                           *)
(***************************************************************************)
EXTENDS RfWindowSafe, MCRfWindow
=============================================================================
