---------------------------- MODULE MCNseAccess ----------------------------
(***************************************************************************)
(* An instance of NseAccess for TLC.  At any time either the devices and   *)
(* requests go their ways and the sigchain is at rest, or the sigchain and *)
(* its objects do and one device asks once.                                *)
(***************************************************************************)
EXTENDS NseAccess

CONSTANTS d1, c1, r1

ChainAtRest ==
  /\ saves = {}
  /\ \A i \in Chain : chain[i].used => i = cached
  /\ \A m \in User : /\ known[m] \subseteq {Joining(d1)}
                     /\ handler[m] = Chains!Idle

OneAsks ==
  /\ \A a \in issued : a.device = d1 /\ a.id = c1
  /\ \A r \in Request : op[r] # Idle => r = r1
  /\ \A m \in User : \A l \in known[m] : l.device = d1

MCNext == Next /\ (ChainAtRest \/ OneAsks)'

MCSpec == Init /\ [][MCNext]_vars /\ WF_vars(CleanUpStep)
=============================================================================
