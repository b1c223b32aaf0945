------------------------ MODULE MCCommunityCreation ------------------------
(* Instances of CommunityCreation for TLC: one or two server processes.    *)
EXTENDS CommunityCreation, TLC

CONSTANTS s1, s2, a, b

(* Two sockets, on a process each.                                         *)
OnEach == s1 :> a @@ s2 :> b

Symmetry == Permutations(Request)
=============================================================================
