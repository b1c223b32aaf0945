----------------------------- MODULE MCGateway ------------------------------
(* An instance of Gateway for TLC: all connections but s4 are of one       *)
(* address.  Either all of them come and go and none has to do with        *)
(* captchas, or two come and ask for the secret.                           *)
EXTENDS Gateway

CONSTANTS s1, s4, a, b

Addresses == [s \in Socket |-> IF s = s4 THEN b ELSE a]

AllConnect == asks = {} /\ \A s \in Socket : sockets[s] = "new"

TwoAsk ==
  /\ asks = {s1, s4}
  /\ \A s \in Socket : sockets[s] = "new" <=> s \in asks

MCInit == Init /\ (AllConnect \/ TwoAsk)

MCSpec == MCInit /\ [][Next]_vars /\ Fairness
=============================================================================
