------------------------------ MODULE Retention ------------------------------
(***************************************************************************)
(* Which events one batch of the spool's retention removes                 *)
(* (prune_retention_batch and next_retention_candidate of                  *)
(* crates/aizu-core/src/spool.rs), as a set instead of a loop of SELECTs   *)
(* and DELETEs.                                                            *)
(***************************************************************************)
EXTENDS Integers, FiniteSets, FiniteSetsExt

CONSTANTS
  Times,                \* inserted_at stamps and retention cutoffs
  Sizes,                \* payload sizes
  MaxEvents,            \* RetentionPolicy::max_events
  MaxPayloadBytes,      \* RetentionPolicy::max_payload_bytes
  BatchSize             \* RetentionPolicy::batch_size

\* RetentionPolicy::validate.
ASSUME RetentionAssumption ==
  /\ Times \subseteq Int
  /\ Sizes \subseteq Nat
  /\ MaxEvents \in Nat
  /\ MaxPayloadBytes \in Nat
  /\ BatchSize \in Nat \ {0}

\* SUM(LENGTH(payload_json)): how many bytes there are, each with its row.
PayloadBytes(es) == Cardinality(UNION {{e} \X (1..e.bytes) : e \in es})

OverLimits(es) == Cardinality(es) > MaxEvents \/ PayloadBytes(es) > MaxPayloadBytes

Expired(e, cutoff) == e.insertedAt < cutoff

\* The ORDER BY of the candidates: expired rows first, then by sequence.
PrunedBefore(d, e, cutoff) ==
  \/ Expired(d, cutoff) /\ ~Expired(e, cutoff)
  \/ (Expired(d, cutoff) <=> Expired(e, cutoff)) /\ d.sequence < e.sequence

\* Faulty variant: one row too many.
RetentionBatch_OneMore(es, cutoff) ==
  {e \in es :
    LET earlier == {d \in es : PrunedBefore(d, e, cutoff)}
    IN  /\ Cardinality(earlier) <= BatchSize
        /\ Expired(e, cutoff) \/ OverLimits(es \ earlier)}

\* The rows one batch removes: row after row in that order, as long as the next
\* one is expired or what is left is over a limit.
RetentionBatch(es, cutoff) ==
  {e \in es :
    LET earlier == {d \in es : PrunedBefore(d, e, cutoff)}
    IN  /\ Cardinality(earlier) < BatchSize
        /\ Expired(e, cutoff) \/ OverLimits(es \ earlier)}

\* Whether another batch is needed after one that left the rows es.
MoreRequired(es, cutoff) == OverLimits(es) \/ \E e \in es : Expired(e, cutoff)
===============================================================================
