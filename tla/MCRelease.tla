----------------------------- MODULE MCRelease -----------------------------
(***************************************************************************)
(* One release: its configurations give the constants their values.       *)
(***************************************************************************)
EXTENDS Release
=============================================================================
