----------------------------- MODULE LogEntries -----------------------------
(***************************************************************************)
(* What the store of log entries and its readers have in common.           *)
(***************************************************************************)

CONSTANTS
  Community,
  Cid             \* entry IDs: the table's primary key
=============================================================================
