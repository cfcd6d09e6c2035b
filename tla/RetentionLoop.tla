---------------------------- MODULE RetentionLoop ----------------------------
(***************************************************************************)
(* The batches of the retention on every table, row by row: the loop of    *)
(* SELECT and DELETE in prune_retention_batch with the counts it keeps,    *)
(* against the set that Retention has for it.                              *)
(***************************************************************************)
EXTENDS Retention

CONSTANT MaxRows        \* the highest sequence a table holds

ASSUME RowsAssumption == MaxRows \in Nat

VARIABLES
  rows, cutoff,
  remainingEvents, remainingBytes,  \* what the loop counts down
  deleted,                          \* deleted_events
  more,                             \* more_required
  batch,                            \* "none" yet, "pruning", "done"
  table                             \* ghost: the rows when the batch began

tableVars == <<rows, cutoff, remainingEvents, remainingBytes, deleted, more, batch, table>>

\* Tables: a time and a size for every sequence of some set.
Tables ==
  UNION {{{[sequence |-> n, insertedAt |-> f[n].at, bytes |-> f[n].size] : n \in S} :
            f \in [S -> [at : Times, size : Sizes]]} : S \in SUBSET (1..MaxRows)}

InitTable ==
  /\ rows \in Tables /\ cutoff \in Times
  /\ remainingEvents = 0 /\ remainingBytes = 0 /\ deleted = 0
  /\ more = FALSE /\ batch = "none" /\ table = rows

\* The one query for COUNT and SUM, before the loop.
BeginBatch ==
  /\ batch # "pruning"
  /\ remainingEvents' = Cardinality(rows) /\ remainingBytes' = PayloadBytes(rows)
  /\ deleted' = 0 /\ batch' = "pruning" /\ table' = rows
  /\ UNCHANGED <<rows, cutoff, more>>

CountedOver == remainingEvents > MaxEvents \/ remainingBytes > MaxPayloadBytes

\* The rows of next_retention_candidate's query, and the first of them in its order.
Candidates == {e \in rows : Expired(e, cutoff) \/ CountedOver}

First(es) ==
  CHOOSE e \in es : \A d \in es : d = e \/ PrunedBefore(e, d, cutoff)

\* One turn of the for loop.
DeleteCandidate ==
  /\ batch = "pruning" /\ deleted < BatchSize /\ Candidates # {}
  /\ LET e == First(Candidates)
     IN  /\ rows' = rows \ {e}
         /\ remainingEvents' = remainingEvents - 1
         /\ remainingBytes' = remainingBytes - e.bytes
  /\ deleted' = deleted + 1
  /\ UNCHANGED <<cutoff, more, batch, table>>

\* The range is at its end, or there is no candidate.
EndBatch ==
  /\ batch = "pruning" /\ (deleted = BatchSize \/ Candidates = {})
  /\ more' = (CountedOver \/ \E e \in rows : Expired(e, cutoff))
  /\ batch' = "done"
  /\ UNCHANGED <<rows, cutoff, remainingEvents, remainingBytes, deleted, table>>

NextBatch == BeginBatch \/ DeleteCandidate \/ EndBatch

Pruning == InitTable /\ [][NextBatch]_tableVars

-------------------------------------------------------------------------------

\* One batch removes exactly the rows the loop deletes one by one, each chosen
\* with the counts that the deletions before it left, its report asks for another
\* batch exactly if one is needed, and a batch that is needed always finds a row:
\* the repetition ends (prune_retention_batch).
BatchIsLoop ==
  /\ batch = "done" => /\ rows = table \ RetentionBatch(table, cutoff)
                       /\ more = MoreRequired(rows, cutoff)
  /\ MoreRequired(rows, cutoff) => RetentionBatch(rows, cutoff) # {}

\* While time stamps follow the sequence, a batch cuts off a head of the log and
\* leaves no hole in it: the desktop's local reader knows only losses at the head
\* (pipeline.rs ingest_spool).
LeavesSuffix ==
  (\A d, e \in rows : d.sequence < e.sequence => d.insertedAt <= e.insertedAt) =>
    \A d \in rows, e \in RetentionBatch(rows, cutoff) :
      d.sequence < e.sequence => d \in RetentionBatch(rows, cutoff)

\* Both: what a batch of retention removes.
BatchIsRight == BatchIsLoop /\ LeavesSuffix
===============================================================================
