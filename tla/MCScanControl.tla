--------------------------- MODULE MCScanControl ---------------------------
(***************************************************************************)
(* Instance of ScanControl for TLC: a full scan without export, and        *)
(* one-module scans with export.                                           *)
(***************************************************************************)
EXTENDS ScanControl

MCRequests == {[neo4j |-> FALSE, modules |-> Modules],
               [neo4j |-> TRUE,  modules |-> {"external_access"}],
               [neo4j |-> TRUE,  modules |-> {"orphaned_edge"}]}
=============================================================================
