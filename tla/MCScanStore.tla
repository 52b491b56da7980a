---------------------------- MODULE MCScanStore -----------------------------
(***************************************************************************)
(* Instances of ScanStore for TLC.                                         *)
(***************************************************************************)
EXTENDS ScanStore
=============================================================================
