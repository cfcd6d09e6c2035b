------------------------------ MODULE MCPipeline ------------------------------
(* Small instances of LocalPipeline for TLC: one id per event. *)
EXTENDS LocalPipeline

CONSTANTS local, remote, idA, idB, idR, b1

MCEventIds == SourceIds \X (1..MaxSequence)

MCUrgent == {<<idR, 1>>}

\* The two identities of the spool differ in nothing: it starts with one of them.
MCBegin == Begin /\ sourceId = idA

\* The SSH source has owed nothing yet, and no notification has failed.
IsFresh == cursor[Remote] = 0 /\ denied = {} /\ \A p \in Pairs : attempts[p] = 0

\* Bounds what the others do.  There is a fault, or rows are pruned against their order, not
\* both; those are rows nobody has read; and the third row, which it takes for a hole, comes
\* behind one of them while all is fresh.
OneTrouble ==
  /\ faults' # 0 => highWatermark' < 3 /\ Unexplained' = {}
  /\ \A gone \in stored \ stored', left \in stored' : gone < left \/ gone \in Unexplained'
  /\ highWatermark = 2 /\ highWatermark' = 3 => 2 \in Unexplained /\ stage = "idle" /\ IsFresh

MCSpec == MCBegin /\ [][Step /\ OneTrouble]_pipelineVars /\ Fairness
===============================================================================
