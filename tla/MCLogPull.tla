----------------------------- MODULE MCLogPull -----------------------------
(***************************************************************************)
(* One puller against a log that is being appended to.  The page holds two *)
(* entries and the byte budget three small ones, or the large one alone,   *)
(* so every way of ending the loop happens.                                *)
(***************************************************************************)
EXTENDS LogPull

CONSTANTS e1, e2, e3, e4, c1, p1

PullsFromIt == p1 :> c1

WithFilter == p1 :> {e1, e3, e4}

(* e1 and e4 were received in the same millisecond, e3 last.               *)
Stamps == (e1 :> 2) @@ (e2 :> 1) @@ (e3 :> 3) @@ (e4 :> 2)

Places == (e1 :> 3) @@ (e2 :> 1) @@ (e3 :> 4) @@ (e4 :> 2)

Sizes == (e1 :> 1) @@ (e2 :> 1) @@ (e3 :> 5) @@ (e4 :> 1)
=============================================================================
