--------------------------- MODULE MCLogEntryStore ---------------------------
(***************************************************************************)
(* An instance of LogEntryStore for TLC: two messages contend for one      *)
(* community's counter while a third sends the entry of the first to       *)
(* another community.  Every message may be sent again after its call      *)
(* returned, so that a holder of the counter, a waiter and a statement     *)
(* with a stale snapshot, and a duplicate within and across communities,   *)
(* all meet.                                                               *)
(***************************************************************************)
EXTENDS LogEntryStore, TLC

CONSTANTS r1, r2, r3, e1, e2, c1, c2

TwoCommunities == (r1 :> c1) @@ (r2 :> c1) @@ (r3 :> c2)

SharedEntry == (r1 :> e1) @@ (r2 :> e2) @@ (r3 :> e1)
=============================================================================
