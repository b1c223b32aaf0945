--------------------------- MODULE MCSyncService ---------------------------
(* An instance of SyncService for TLC: two members that write one entry    *)
(* each, and read the other's.                                             *)
EXTENDS SyncService, TLC

CONSTANTS m1, m2, e1, e2

EachWritesOne == (e1 :> m1) @@ (e2 :> m2)
=============================================================================
