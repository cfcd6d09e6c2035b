------------------------------- MODULE SpoolLog -------------------------------
(***************************************************************************)
(* What the source spool promises to its readers, without processes, locks *)
(* or transactions: a log under one identity whose sequence numbers are    *)
(* handed out once and in order, whose entries are never changed, and      *)
(* which starts again under a fresh identity only after every entry of the *)
(* old one is gone or saved.  Spool implements it.                         *)
(***************************************************************************)
EXTENDS Naturals

CONSTANT SourceIds      \* the identities a spool can ever be given

VARIABLES
  sourceId,             \* the identity of the log
  highWatermark,        \* the highest sequence ever assigned under sourceId
  stored,               \* the sequences still stored
  retired,              \* the identities the log had before
  backup                \* the <<identity, sequence>> pairs copied to a backup

logVars == <<sourceId, highWatermark, stored, retired, backup>>

Init ==
  /\ sourceId \in SourceIds
  /\ highWatermark = 0
  /\ stored = {}
  /\ retired = {}
  /\ backup = {}

Append ==
  /\ highWatermark' = highWatermark + 1
  /\ stored' = stored \union {highWatermark + 1}
  /\ UNCHANGED <<sourceId, retired, backup>>

Prune ==
  /\ stored' \in SUBSET stored
  /\ UNCHANGED <<sourceId, highWatermark, retired, backup>>

\* A copy of the log is written beside it before an identity is given up.
Save ==
  /\ backup' = backup \union {<<sourceId, n>> : n \in stored}
  /\ UNCHANGED <<sourceId, highWatermark, stored, retired>>

\* Nothing that is still stored may disappear with the identity unsaved.
ChangeIdentity ==
  /\ \A n \in stored : <<sourceId, n>> \in backup
  /\ sourceId' \in SourceIds \ (retired \union {sourceId})
  /\ highWatermark' = 0
  /\ stored' = {}
  /\ retired' = retired \union {sourceId}
  /\ UNCHANGED backup

Next == Append \/ Prune \/ Save \/ ChangeIdentity

Spec == Init /\ [][Next]_logVars
===============================================================================
