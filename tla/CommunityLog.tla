---------------------------- MODULE CommunityLog ----------------------------
(***************************************************************************)
(* What the log entry store promises its readers, with no database in     *)
(* sight: each community has one append-only log, an entry is appended to  *)
(* at most one log and at most once, and an entry's position never         *)
(* changes.  LogEntryStore is shown to implement this module.              *)
(***************************************************************************)
EXTENDS LogEntries, Naturals, Sequences

VARIABLE log        \* log[c] is the sequence of entry IDs stored for c

LogInit == log = [c \in Community |-> <<>>]

Stored(d) == \E c \in Community : \E i \in DOMAIN log[c] : log[c][i] = d

AppendEntry(c, d) ==
  /\ ~Stored(d)
  /\ log' = [log EXCEPT ![c] = Append(@, d)]

LogNext == \E c \in Community, d \in Cid : AppendEntry(c, d)

LogSpec == LogInit /\ [][LogNext]_log
=============================================================================
