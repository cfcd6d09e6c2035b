---------------------------- MODULE DesktopStore ----------------------------
(***************************************************************************)
(* The desktop's own database (crates/aizu-core/src/desktop.rs): source    *)
(* settings with the identity pinned to each and a cursor, the history of  *)
(* received events with an outbox entry for each, gap warnings, tombstones *)
(* of pruned events and a checkpoint per identity.                         *)
(*                                                                         *)
(* Every operation is one IMMEDIATE transaction, so it is one action here; *)
(* the local poller, one consumer per SSH source and the commands of the   *)
(* user interface call them in any order and with any argument.  An        *)
(* operation that fails changes nothing: ...Result names how it ends, and  *)
(* the modules of the callers go on from there.                            *)
(*                                                                         *)
(* Left open: what a row's age, size or rank is.  Retention may therefore  *)
(* prune any settled event, any gap warning and any tombstone.  When an    *)
(* outbox entry is next tried is left to the dispatcher.                   *)
(***************************************************************************)
EXTENDS Integers, FiniteSets, FiniteSetsExt

CONSTANTS
  Keys,                 \* source settings: "local", "ssh:<alias>"
  SourceIds,            \* identities of spools
  EventIds,             \* ids of events
  Bodies,               \* payloads, as far as their digests differ
  MaxSequence,          \* i64::MAX
  NoSource              \* pinned_source_id IS NULL

ASSUME DesktopAssumption ==
  /\ MaxSequence \in Nat \ {0}
  /\ NoSource \notin SourceIds

VARIABLES
  registered,           \* the keys of desktop_sources
  pinned,               \* pinned_source_id
  cursor,               \* cursor
  history,              \* desktop_events
  unsettled,            \* those whose outbox entry is pending or failed_retryable
  denied,               \* those suppressed with the reason permission_denied
  gaps,                 \* desktop_gaps
  tombstones,           \* desktop_event_tombstones
  checkpoints,          \* desktop_source_checkpoints; 0 where there is no row
  received,             \* ghost: every <<identity, sequence>> ever ingested
  lost                  \* ghost: every pair ever recorded as lost

sourceVars == <<registered, pinned, cursor>>
outboxVars == <<unsettled, denied>>
ghostVars == <<received, lost>>
storeVars == <<registered, pinned, cursor, history, unsettled, denied, gaps, tombstones,
               checkpoints, received, lost>>

Event == [source : SourceIds, sequence : 1..MaxSequence, id : EventIds, body : Bodies]

Gap == [source : SourceIds, from : 1..MaxSequence, through : 1..MaxSequence]

-------------------------------------------------------------------------------
(* Queries *)

SequencesOf(rows, s) == {e.sequence : e \in {x \in rows : x.source = s}}

\* Faulty variant: only the tables that retention prunes are asked.
KnownHighWatermark_NoCheckpoint(s) ==
  Max({0} \union SequencesOf(history \union tombstones, s)
          \union {g.through : g \in {x \in gaps : x.source = s}})

\* known_source_high_watermark.
KnownHighWatermark(s) ==
  Max({checkpoints[s]} \union SequencesOf(history \union tombstones, s)
                       \union {g.through : g \in {x \in gaps : x.source = s}})

\* reject_duplicate_source_id.
OwnedByAnother(k, s) == \E other \in registered \ {k} : pinned[other] = s

\* What the UNIQUE constraints of both event tables keep apart.
Collides(d, e) == d.source = e.source /\ (d.sequence = e.sequence \/ d.id = e.id)

\* Faulty variant: an event whose row is pruned is no longer recognised.
Matching_EventsOnly(e) == {<<"event", x>> : x \in {y \in history : Collides(y, e)}}

\* matching_events: a match for every row of both tables.
Matching(e) ==
  {<<"event", x>> : x \in {y \in history : Collides(y, e)}}
    \union {<<"tombstone", x>> : x \in {y \in tombstones : Collides(y, e)}}

\* Faulty variant: an event may come after a hole.
NewEventResult_Later(k, e) ==
  CASE cursor[k] = MaxSequence -> "exhausted"
    [] cursor[k] # MaxSequence /\ e.sequence > cursor[k] -> "inserted"
    [] OTHER -> "unexpected_sequence"

\* How the insertion of an event nothing matches ends.
NewEventResult(k, e) ==
  CASE cursor[k] = MaxSequence -> "exhausted"
    [] cursor[k] # MaxSequence /\ e.sequence = cursor[k] + 1 -> "inserted"
    [] OTHER -> "unexpected_sequence"

\* How ingest_event ends.
IngestResult(k, e) ==
  CASE k \notin registered \/ pinned[k] # e.source -> "refused"
    [] k \in registered /\ pinned[k] = e.source /\ Matching(e) # {} ->
         IF Matching(e) \in {{<<"event", e>>}, {<<"tombstone", e>>}}
         THEN "duplicate" ELSE "conflict"
    [] OTHER -> NewEventResult(k, e)

LostRange(s, after, through) == [source |-> s, from |-> after + 1, through |-> through]

\* How record_gap ends for the range behind after; UNIQUE fails an insertion.
GapResult(k, after, through) ==
  LET recorded == LostRange(pinned[k], after, through) \in gaps
  IN  CASE through <= after \/ k \notin registered -> "refused"
        [] through > after /\ k \in registered ->
             IF pinned[k] = NoSource THEN "refused"
             ELSE IF recorded /\ cursor[k] >= through THEN "duplicate"
             ELSE IF cursor[k] # after THEN "unexpected_cursor"
             ELSE IF recorded THEN "constraint" ELSE "recorded"

-------------------------------------------------------------------------------
(* Source settings *)

\* register_source: an existing key only gets a new label.
RegisterSource(k) ==
  /\ k \notin registered
  /\ registered' = registered \union {k}
  /\ UNCHANGED <<pinned, cursor, history, outboxVars, gaps, tombstones, checkpoints, ghostVars>>

\* A setting is given an identity and resumes where that identity was left.
Adopt(k, s) ==
  /\ k \in registered
  /\ ~OwnedByAnother(k, s)
  /\ pinned' = [pinned EXCEPT ![k] = s]
  /\ cursor' = [cursor EXCEPT ![k] = KnownHighWatermark(s)]
  /\ UNCHANGED <<registered, history, outboxVars, gaps, tombstones, checkpoints, ghostVars>>

\* pin_source, for the first identity of a setting.
PinSource(k, s) == pinned[k] = NoSource /\ Adopt(k, s)

\* replace_source, whatever the setting had.
ReplaceSource(k, s) == Adopt(k, s)

\* release_source_identity.
ReleaseSourceIdentity(k) ==
  /\ k \in registered
  /\ pinned' = [pinned EXCEPT ![k] = NoSource]
  /\ cursor' = [cursor EXCEPT ![k] = 0]
  /\ UNCHANGED <<registered, history, outboxVars, gaps, tombstones, checkpoints, ghostVars>>

-------------------------------------------------------------------------------
(* Events and losses *)

\* The cursor moves to n, and with it update_source_checkpoint.
Advance(k, n) ==
  /\ cursor' = [cursor EXCEPT ![k] = n]
  /\ checkpoints' = [checkpoints EXCEPT ![pinned[k]] = IF n > @ THEN n ELSE @]
  /\ UNCHANGED <<registered, pinned>>

\* ingest_event, when it inserts: history, cursor, checkpoint and outbox at once.
IngestEvent(k, e) ==
  /\ IngestResult(k, e) = "inserted"
  /\ history' = history \union {e}
  /\ unsettled' = unsettled \union {e}
  /\ Advance(k, e.sequence)
  /\ received' = received \union {<<e.source, e.sequence>>}
  /\ UNCHANGED <<denied, gaps, tombstones, lost>>

\* record_gap, when it records.
RecordGap(k, after, through) ==
  /\ GapResult(k, after, through) = "recorded"
  /\ gaps' = gaps \union {LostRange(pinned[k], after, through)}
  /\ Advance(k, through)
  /\ lost' = lost \union {<<pinned[k], n>> : n \in (after + 1)..through}
  /\ UNCHANGED <<history, outboxVars, tombstones, received>>

-------------------------------------------------------------------------------
(* Outbox and retention *)

\* finish_outbox with an outcome that settles the entry; a retryable failure and
\* defer_outbox leave it unsettled.
FinishOutbox(e) ==
  /\ e \in unsettled
  /\ unsettled' = unsettled \ {e}
  /\ \/ UNCHANGED denied
     \/ denied' = denied \union {e}
  /\ UNCHANGED <<sourceVars, history, gaps, tombstones, checkpoints, ghostVars>>

\* requeue_permission_suppressed.
RequeuePermissionSuppressed ==
  /\ denied # {}
  /\ unsettled' = unsettled \union denied
  /\ denied' = {}
  /\ UNCHANGED <<sourceVars, history, gaps, tombstones, checkpoints, ghostVars>>

\* Faulty variant: retention does not look at the outbox.
Prunable_Any == history

\* The candidates of maintain_history.
Prunable == history \ unsettled

\* One batch of maintain_history, which clear_history repeats: a pruned event
\* leaves a checkpoint and, unless one collides with it, a tombstone; its outbox
\* entry goes with it (ON DELETE CASCADE).
MaintainHistory ==
  \E rows \in SUBSET Prunable :
    LET buried == {e \in rows : \A x \in tombstones : ~Collides(x, e)}
    IN  /\ history' = history \ rows
        /\ denied' = denied \ rows
        /\ checkpoints' = [s \in SourceIds |-> Max({checkpoints[s]} \union SequencesOf(rows, s))]
        /\ gaps' \in SUBSET gaps
        /\ tombstones' \in SUBSET (tombstones \union buried)
        /\ UNCHANGED <<sourceVars, unsettled, ghostVars>>

-------------------------------------------------------------------------------

Init ==
  /\ registered = {}
  /\ pinned = [k \in Keys |-> NoSource]
  /\ cursor = [k \in Keys |-> 0]
  /\ history = {}
  /\ unsettled = {}
  /\ denied = {}
  /\ gaps = {}
  /\ tombstones = {}
  /\ checkpoints = [s \in SourceIds |-> 0]
  /\ received = {}
  /\ lost = {}

Next ==
  \/ \E k \in Keys : RegisterSource(k) \/ ReleaseSourceIdentity(k)
  \/ \E k \in Keys, s \in SourceIds : PinSource(k, s) \/ ReplaceSource(k, s)
  \/ \E k \in Keys, e \in Event : IngestEvent(k, e)
  \/ \E k \in Keys, after, through \in 0..MaxSequence : RecordGap(k, after, through)
  \/ \E e \in unsettled : FinishOutbox(e)
  \/ RequeuePermissionSuppressed
  \/ MaintainHistory

Spec == Init /\ [][Next]_storeVars

-------------------------------------------------------------------------------
(* Properties *)

TypeOK ==
  /\ registered \in SUBSET Keys
  /\ pinned \in [Keys -> SourceIds \union {NoSource}]
  /\ cursor \in [Keys -> 0..MaxSequence]
  /\ history \in SUBSET Event
  /\ unsettled \in SUBSET history
  /\ denied \in SUBSET (history \ unsettled)
  /\ gaps \in SUBSET Gap
  /\ tombstones \in SUBSET Event
  /\ checkpoints \in [SourceIds -> 0..MaxSequence]
  /\ received \in SUBSET (SourceIds \X (1..MaxSequence))
  /\ lost \in SUBSET (SourceIds \X (1..MaxSequence))

\* An identity has one setting at most, and the cursor of that setting is all the
\* desktop ever learnt of the identity: through replacements, releases, retention
\* and cleared history no setting resumes behind or ahead of it (pin_source,
\* replace_source, known_source_high_watermark).
CursorIsPosition ==
  \A k \in Keys : pinned[k] # NoSource =>
    /\ cursor[k] = checkpoints[pinned[k]]
    /\ \A other \in Keys \ {k} : pinned[other] # pinned[k]

\* A source may repeat what it sent: an event still stored or remembered by its
\* tombstone, and a loss still recorded, are recognised as duplicates and neither
\* refused nor applied twice (ingest_event, record_gap, maintain_history).
ReplayIsDuplicate ==
  \A k \in Keys : pinned[k] # NoSource =>
    /\ \A e \in history \union tombstones :
         e.source = pinned[k] => IngestResult(k, e) = "duplicate"
    /\ \A g \in gaps :
         g.source = pinned[k] => GapResult(k, g.from - 1, g.through) = "duplicate"

\* Every sequence of every identity is accounted for once and in order, and no
\* notification that is still owed gets lost with pruned history.
Ledger == INSTANCE DeliveryLedger
            WITH position <- checkpoints,
                 owed <- {<<e.source, e.sequence>> : e \in unsettled}

ImplementsLedger == Ledger!Spec
===============================================================================
