------------------------- MODULE DesktopStore_proofs -------------------------
(***************************************************************************)
(* Proofs about DesktopStore for all settings, identities and events: type *)
(* correctness, the position of the cursors, the recognition of replays,   *)
(* and that the store implements DeliveryLedger.                           *)
(*                                                                         *)
(* The argument: a checkpoint bounds everything stored of its identity, so *)
(* known_source_high_watermark is the checkpoint whatever was pruned, and  *)
(* an event that is inserted, being one past it, collides with no row.     *)
(***************************************************************************)
EXTENDS DesktopStore, TLAPS

\* A checkpoint covers every row of its identity.
Covered ==
  /\ \A e \in history \union tombstones : e.sequence <= checkpoints[e.source]
  /\ \A g \in gaps : g.from <= g.through /\ g.through <= checkpoints[g.source]

\* No two rows collide, and an event is in one table only.
Apart ==
  /\ \A d, e \in history \union tombstones : Collides(d, e) => d = e
  /\ history \intersect tombstones = {}

\* Identities are pinned to registered settings.
PinnedAreRegistered == \A k \in Keys : pinned[k] # NoSource => k \in registered

\* The history holds nothing the ledger does not know.
HistoryIsReceived == \A e \in history : <<e.source, e.sequence>> \in received

Inv ==
  /\ TypeOK
  /\ Covered
  /\ Apart
  /\ PinnedAreRegistered
  /\ HistoryIsReceived
  /\ CursorIsPosition

USE DesktopAssumption

-------------------------------------------------------------------------------

\* The greatest member of a set is its Max.
LEMMA MaxIsGreatest ==
  ASSUME NEW S \in SUBSET Int, NEW m \in S, \A x \in S : x <= m
  PROVE  Max(S) = m
<1>1. \A x \in S : m >= x
  OBVIOUS
<1>2. \A x \in S : (\A y \in S : x >= y) => x = m
  OBVIOUS
<1> QED
  BY <1>1, <1>2 DEF Max

\* Asking every table gives the checkpoint.
LEMMA KnownIsCheckpoint ==
  ASSUME Inv, NEW s \in SourceIds
  PROVE  KnownHighWatermark(s) = checkpoints[s]
<1> DEFINE S == {checkpoints[s]} \union SequencesOf(history \union tombstones, s)
                  \union {g.through : g \in {x \in gaps : x.source = s}}
<1>1. checkpoints[s] \in S
  OBVIOUS
<1>2. checkpoints[s] \in Int
  BY DEF Inv, TypeOK
<1>3. \A n \in SequencesOf(history \union tombstones, s) : n \in Int /\ n <= checkpoints[s]
  BY DEF Inv, TypeOK, Covered, SequencesOf, Event
<1>4. \A n \in {g.through : g \in {x \in gaps : x.source = s}} :
        n \in Int /\ n <= checkpoints[s]
  BY DEF Inv, TypeOK, Covered, Gap
<1>5. S \in SUBSET Int /\ \A n \in S : n <= checkpoints[s]
  BY <1>2, <1>3, <1>4
<1> HIDE DEF S
<1>6. Max(S) = checkpoints[s]
  BY <1>1, <1>5, MaxIsGreatest
<1> QED
  BY <1>6 DEF S, KnownHighWatermark

LEMMA InitInv == Init => Inv
<1> SUFFICES ASSUME Init PROVE Inv
  OBVIOUS
<1>1. TypeOK
  BY DEF Init, TypeOK
<1>2. Covered /\ Apart /\ PinnedAreRegistered /\ HistoryIsReceived /\ CursorIsPosition
  BY DEF Init, Covered, Apart, PinnedAreRegistered, HistoryIsReceived, CursorIsPosition
<1> QED
  BY <1>1, <1>2 DEF Inv

-------------------------------------------------------------------------------
(* Source settings *)

LEMMA RegisterSourcePreserves ==
  ASSUME Inv, NEW k \in Keys, RegisterSource(k)
  PROVE  Inv'
<1> USE DEF RegisterSource, outboxVars, ghostVars
<1>1. TypeOK'
  BY DEF Inv, TypeOK
<1>2. (Covered /\ Apart /\ HistoryIsReceived /\ CursorIsPosition)'
  BY DEF Inv, Covered, Apart, Collides, HistoryIsReceived, CursorIsPosition
<1>3. PinnedAreRegistered'
  BY DEF Inv, PinnedAreRegistered
<1> QED
  BY <1>1, <1>2, <1>3 DEF Inv

LEMMA AdoptPreserves ==
  ASSUME Inv, NEW k \in Keys, NEW s \in SourceIds, Adopt(k, s)
  PROVE  Inv'
<1> USE DEF Adopt, outboxVars, ghostVars
<1>1. cursor' = [cursor EXCEPT ![k] = checkpoints[s]]
  BY KnownIsCheckpoint
<1>2. TypeOK'
  BY <1>1 DEF Inv, TypeOK
<1>3. (Covered /\ Apart /\ HistoryIsReceived)'
  BY DEF Inv, Covered, Apart, Collides, HistoryIsReceived
<1>4. PinnedAreRegistered'
  BY DEF Inv, TypeOK, PinnedAreRegistered
<1>5. CursorIsPosition'
  BY <1>1 DEF Inv, TypeOK, PinnedAreRegistered, CursorIsPosition, OwnedByAnother
<1> QED
  BY <1>2, <1>3, <1>4, <1>5 DEF Inv

LEMMA ReleaseSourceIdentityPreserves ==
  ASSUME Inv, NEW k \in Keys, ReleaseSourceIdentity(k)
  PROVE  Inv'
<1> USE DEF ReleaseSourceIdentity, outboxVars, ghostVars
<1>1. TypeOK'
  BY DEF Inv, TypeOK
<1>2. (Covered /\ Apart /\ HistoryIsReceived)'
  BY DEF Inv, Covered, Apart, Collides, HistoryIsReceived
<1>3. PinnedAreRegistered'
  BY DEF Inv, TypeOK, PinnedAreRegistered
<1>4. CursorIsPosition'
  BY DEF Inv, TypeOK, CursorIsPosition
<1> QED
  BY <1>1, <1>2, <1>3, <1>4 DEF Inv

-------------------------------------------------------------------------------
(* Events and losses *)

\* An event that is inserted is the next one of the identity of its setting, and
\* new to every table.
LEMMA InsertedIsNext ==
  ASSUME Inv, NEW k \in Keys, NEW e \in Event, IngestResult(k, e) = "inserted"
  PROVE  /\ k \in registered
         /\ pinned[k] = e.source
         /\ e.source # NoSource
         /\ cursor[k] = checkpoints[e.source]
         /\ e.sequence = checkpoints[e.source] + 1
         /\ \A d \in history \union tombstones : ~Collides(d, e) /\ ~Collides(e, d)
<1>1. k \in registered /\ pinned[k] = e.source
  BY DEF IngestResult
<1>2. Matching(e) = {} /\ NewEventResult(k, e) = "inserted"
  BY <1>1 DEF IngestResult
<1>3. e.sequence = cursor[k] + 1
  BY <1>2 DEF NewEventResult
<1>4. e.source # NoSource
  BY DEF Event
<1>5. cursor[k] = checkpoints[e.source]
  BY <1>1, <1>4 DEF Inv, CursorIsPosition
<1>6. \A d \in history \union tombstones : ~Collides(d, e)
  BY <1>2 DEF Matching
<1>7. \A d \in history \union tombstones : ~Collides(e, d)
  BY <1>6 DEF Collides
<1> QED
  BY <1>1, <1>3, <1>4, <1>5, <1>6, <1>7

\* An insertion moves the cursor and the checkpoint to its sequence.
LEMMA IngestAdvances ==
  ASSUME Inv, NEW k \in Keys, NEW e \in Event, IngestEvent(k, e)
  PROVE  /\ cursor' = [cursor EXCEPT ![k] = e.sequence]
         /\ checkpoints' = [checkpoints EXCEPT ![e.source] = e.sequence]
<1>1. pinned[k] = e.source /\ e.sequence = checkpoints[e.source] + 1
  BY InsertedIsNext DEF IngestEvent
<1>2. checkpoints[e.source] \in Int
  BY DEF Inv, TypeOK, Event
<1>3. e.sequence > checkpoints[e.source]
  BY <1>1, <1>2
<1>4. /\ cursor' = [cursor EXCEPT ![k] = e.sequence]
      /\ checkpoints' = [checkpoints EXCEPT ![pinned[k]] =
                          IF e.sequence > checkpoints[pinned[k]]
                          THEN e.sequence ELSE checkpoints[pinned[k]]]
  BY DEF IngestEvent, Advance
<1> QED
  BY <1>1, <1>3, <1>4

LEMMA IngestEventPreserves ==
  ASSUME Inv, NEW k \in Keys, NEW e \in Event, IngestEvent(k, e)
  PROVE  Inv'
<1>1. /\ pinned[k] = e.source
      /\ e.source # NoSource
      /\ k \in registered
      /\ cursor[k] = checkpoints[e.source]
      /\ e.sequence = checkpoints[e.source] + 1
      /\ \A d \in history \union tombstones : ~Collides(d, e) /\ ~Collides(e, d)
  BY InsertedIsNext DEF IngestEvent
<1>2. e.source \in SourceIds /\ e.sequence \in 1..MaxSequence
  BY DEF Event
<1>3. /\ checkpoints' = [checkpoints EXCEPT ![e.source] = e.sequence]
      /\ cursor' = [cursor EXCEPT ![k] = e.sequence]
  BY IngestAdvances
<1>4. UNCHANGED <<registered, pinned, denied, gaps, tombstones, lost>>
  BY DEF IngestEvent, Advance
<1>5. history' = history \union {e} /\ unsettled' = unsettled \union {e}
  BY DEF IngestEvent
<1>6. received' = received \union {<<e.source, e.sequence>>}
  BY DEF IngestEvent
<1>7. e \notin history \union tombstones
  BY <1>1 DEF Collides
<1>8. TypeOK'
  BY <1>2, <1>3, <1>4, <1>5, <1>6, <1>7 DEF Inv, TypeOK
<1>9. Covered'
  <2>1. \A s \in SourceIds : checkpoints[s] \in Int /\ checkpoints[s] <= checkpoints'[s]
    BY <1>1, <1>2, <1>3 DEF Inv, TypeOK
  <2>2. checkpoints'[e.source] = e.sequence
    BY <1>2, <1>3 DEF Inv, TypeOK
  <2>3. \A d \in history \union tombstones : d.source \in SourceIds /\ d.sequence \in Int
    BY DEF Inv, TypeOK, Event
  <2>4. \A d \in history \union tombstones : d.sequence <= checkpoints'[d.source]
    BY <1>3, <2>1, <2>3, <1>8 DEF Inv, Covered, TypeOK
  <2>5. \A g \in gaps : g.from <= g.through /\ g.through <= checkpoints'[g.source]
    BY <2>1, <1>8 DEF Inv, Covered, TypeOK, Gap
  <2> QED
    BY <1>2, <1>4, <1>5, <2>2, <2>4, <2>5 DEF Covered
<1>10. Apart'
  BY <1>1, <1>4, <1>5, <1>7 DEF Inv, Apart, Collides
<1>11. PinnedAreRegistered' /\ HistoryIsReceived'
  BY <1>4, <1>5, <1>6 DEF Inv, PinnedAreRegistered, HistoryIsReceived
<1>12. CursorIsPosition'
  BY <1>1, <1>2, <1>3, <1>4 DEF Inv, TypeOK, CursorIsPosition
<1> QED
  BY <1>8, <1>9, <1>10, <1>11, <1>12 DEF Inv

\* A loss that is recorded starts where the identity of its setting is.
LEMMA RecordedIsNext ==
  ASSUME Inv, NEW k \in Keys, NEW after \in 0..MaxSequence, NEW through \in 0..MaxSequence,
         RecordGap(k, after, through)
  PROVE  /\ k \in registered
         /\ pinned[k] \in SourceIds
         /\ cursor[k] = after
         /\ checkpoints[pinned[k]] = after
         /\ after < through
         /\ cursor' = [cursor EXCEPT ![k] = through]
         /\ checkpoints' = [checkpoints EXCEPT ![pinned[k]] = through]
<1>1. GapResult(k, after, through) = "recorded"
  BY DEF RecordGap
<1>2. through > after /\ k \in registered
  BY <1>1 DEF GapResult
<1>3. pinned[k] # NoSource /\ cursor[k] = after
  BY <1>1, <1>2 DEF GapResult
<1>4. pinned[k] \in SourceIds /\ checkpoints[pinned[k]] = after
  BY <1>3 DEF Inv, TypeOK, CursorIsPosition
<1> QED
  BY <1>2, <1>3, <1>4 DEF RecordGap, Advance, Inv, TypeOK

LEMMA RecordGapPreserves ==
  ASSUME Inv, NEW k \in Keys, NEW after \in 0..MaxSequence, NEW through \in 0..MaxSequence,
         RecordGap(k, after, through)
  PROVE  Inv'
<1> DEFINE s == pinned[k]
<1>1. /\ s \in SourceIds
      /\ cursor[k] = after
      /\ checkpoints[s] = after
      /\ after < through
      /\ cursor' = [cursor EXCEPT ![k] = through]
      /\ checkpoints' = [checkpoints EXCEPT ![s] = through]
  BY RecordedIsNext
<1>2. UNCHANGED <<registered, pinned, history, unsettled, denied, tombstones, received>>
  BY DEF RecordGap, Advance, outboxVars
<1>3. gaps' = gaps \union {LostRange(s, after, through)}
  BY DEF RecordGap
<1>4. LostRange(s, after, through) \in Gap
  BY <1>1 DEF LostRange, Gap
<1>5. lost' \in SUBSET (SourceIds \X (1..MaxSequence))
  <2>1. \A n \in (after + 1)..through : n \in 1..MaxSequence
    OBVIOUS
  <2>2. lost' = lost \union {<<s, n>> : n \in (after + 1)..through}
    BY DEF RecordGap
  <2> QED
    BY <1>1, <2>1, <2>2 DEF Inv, TypeOK
<1>6. TypeOK'
  BY <1>1, <1>2, <1>3, <1>4, <1>5 DEF Inv, TypeOK
<1>7. Covered'
  <2>1. \A t \in SourceIds : checkpoints[t] \in Int /\ checkpoints'[t] \in Int
                              /\ checkpoints[t] <= checkpoints'[t]
    BY <1>1 DEF Inv, TypeOK
  <2>2. checkpoints'[s] = through
    BY <1>1 DEF Inv, TypeOK
  <2>3. \A d \in history \union tombstones : d.source \in SourceIds /\ d.sequence \in Int
    BY DEF Inv, TypeOK, Event
  <2>4. \A d \in history \union tombstones : d.sequence <= checkpoints'[d.source]
    BY <2>1, <2>3 DEF Inv, Covered
  <2>5. \A g \in gaps : g.from <= g.through /\ g.through <= checkpoints'[g.source]
    BY <2>1 DEF Inv, Covered, TypeOK, Gap
  <2>6. \A g \in gaps' : g.from <= g.through /\ g.through <= checkpoints'[g.source]
    BY <1>1, <1>3, <2>2, <2>5 DEF LostRange
  <2> QED
    BY <1>2, <2>4, <2>6 DEF Covered
<1>8. Apart' /\ PinnedAreRegistered' /\ HistoryIsReceived'
  BY <1>2 DEF Inv, Apart, Collides, PinnedAreRegistered, HistoryIsReceived
<1>9. CursorIsPosition'
  BY <1>1, <1>2 DEF Inv, TypeOK, CursorIsPosition
<1> QED
  BY <1>6, <1>7, <1>8, <1>9 DEF Inv

-------------------------------------------------------------------------------
(* Outbox and retention *)

LEMMA FinishOutboxPreserves ==
  ASSUME Inv, NEW e \in unsettled, FinishOutbox(e)
  PROVE  Inv'
<1> USE DEF FinishOutbox, sourceVars, ghostVars
<1>1. TypeOK'
  BY DEF Inv, TypeOK
<1>2. (Covered /\ Apart /\ PinnedAreRegistered /\ HistoryIsReceived /\ CursorIsPosition)'
  BY DEF Inv, Covered, Apart, Collides, PinnedAreRegistered, HistoryIsReceived,
         CursorIsPosition
<1> QED
  BY <1>1, <1>2 DEF Inv

LEMMA RequeuePreserves ==
  ASSUME Inv, RequeuePermissionSuppressed
  PROVE  Inv'
<1> USE DEF RequeuePermissionSuppressed, sourceVars, ghostVars
<1>1. TypeOK'
  BY DEF Inv, TypeOK
<1>2. (Covered /\ Apart /\ PinnedAreRegistered /\ HistoryIsReceived /\ CursorIsPosition)'
  BY DEF Inv, Covered, Apart, Collides, PinnedAreRegistered, HistoryIsReceived,
         CursorIsPosition
<1> QED
  BY <1>1, <1>2 DEF Inv

\* Retention moves no checkpoint.
LEMMA MaintainHistoryKeepsCheckpoints ==
  ASSUME Inv, MaintainHistory
  PROVE  checkpoints' = checkpoints
<1>1. PICK rows \in SUBSET Prunable :
        checkpoints' = [s \in SourceIds |-> Max({checkpoints[s]} \union SequencesOf(rows, s))]
  BY DEF MaintainHistory
<1>2. ASSUME NEW s \in SourceIds
      PROVE  Max({checkpoints[s]} \union SequencesOf(rows, s)) = checkpoints[s]
  <2>1. checkpoints[s] \in Int
    BY DEF Inv, TypeOK
  <2>2. \A n \in SequencesOf(rows, s) : n \in Int /\ n <= checkpoints[s]
    BY <1>1 DEF Inv, TypeOK, Covered, SequencesOf, Event, Prunable
  <2> DEFINE S == {checkpoints[s]} \union SequencesOf(rows, s)
  <2>3. S \in SUBSET Int /\ checkpoints[s] \in S /\ \A n \in S : n <= checkpoints[s]
    BY <2>1, <2>2
  <2> HIDE DEF S
  <2>4. Max(S) = checkpoints[s]
    BY <2>3, MaxIsGreatest
  <2> QED
    BY <2>4 DEF S
<1> QED
  BY <1>1, <1>2 DEF Inv, TypeOK

LEMMA MaintainHistoryPreserves ==
  ASSUME Inv, MaintainHistory
  PROVE  Inv'
<1>1. PICK rows \in SUBSET Prunable :
        /\ history' = history \ rows
        /\ denied' = denied \ rows
        /\ gaps' \in SUBSET gaps
        /\ tombstones' \in SUBSET (tombstones \union rows)
        /\ UNCHANGED <<sourceVars, unsettled, ghostVars>>
  BY DEF MaintainHistory
<1>2. checkpoints' = checkpoints
  BY MaintainHistoryKeepsCheckpoints
<1>3. UNCHANGED <<registered, pinned, cursor, unsettled, received, lost>>
  BY <1>1 DEF sourceVars, ghostVars
<1>4. rows \subseteq history /\ rows \intersect unsettled = {}
  BY <1>1 DEF Prunable
<1>5. /\ history' \subseteq history
      /\ history' \union tombstones' \subseteq history \union tombstones
  BY <1>1, <1>4
<1>6. TypeOK'
  BY <1>1, <1>2, <1>3, <1>4 DEF Inv, TypeOK
<1>7. Covered'
  BY <1>1, <1>2, <1>5 DEF Inv, Covered
<1>8. Apart'
  BY <1>1, <1>5 DEF Inv, Apart, Collides
<1>9. (PinnedAreRegistered /\ HistoryIsReceived /\ CursorIsPosition)'
  BY <1>2, <1>3, <1>5 DEF Inv, PinnedAreRegistered, HistoryIsReceived, CursorIsPosition
<1> QED
  BY <1>6, <1>7, <1>8, <1>9 DEF Inv

-------------------------------------------------------------------------------

LEMMA NextPreserves == Inv /\ [Next]_storeVars => Inv'
<1> SUFFICES ASSUME Inv, [Next]_storeVars PROVE Inv'
  OBVIOUS
<1>1. ASSUME NEW k \in Keys, RegisterSource(k) \/ ReleaseSourceIdentity(k) PROVE Inv'
  BY <1>1, RegisterSourcePreserves, ReleaseSourceIdentityPreserves
<1>2. ASSUME NEW k \in Keys, NEW s \in SourceIds, PinSource(k, s) \/ ReplaceSource(k, s)
      PROVE  Inv'
  BY <1>2, AdoptPreserves DEF PinSource, ReplaceSource
<1>3. ASSUME NEW k \in Keys, NEW e \in Event, IngestEvent(k, e) PROVE Inv'
  BY <1>3, IngestEventPreserves
<1>4. ASSUME NEW k \in Keys, NEW after \in 0..MaxSequence, NEW through \in 0..MaxSequence,
             RecordGap(k, after, through)
      PROVE  Inv'
  BY <1>4, RecordGapPreserves
<1>5. ASSUME NEW e \in unsettled, FinishOutbox(e) PROVE Inv'
  BY <1>5, FinishOutboxPreserves
<1>6. CASE RequeuePermissionSuppressed
  BY <1>6, RequeuePreserves
<1>7. CASE MaintainHistory
  BY <1>7, MaintainHistoryPreserves
<1>8. CASE UNCHANGED storeVars
  <2> USE <1>8 DEF storeVars
  <2>1. TypeOK'
    BY DEF Inv, TypeOK
  <2>2. (Covered /\ Apart /\ PinnedAreRegistered /\ HistoryIsReceived /\ CursorIsPosition)'
    BY DEF Inv, Covered, Apart, Collides, PinnedAreRegistered, HistoryIsReceived,
           CursorIsPosition
  <2> QED
    BY <2>1, <2>2 DEF Inv
<1> QED
  BY <1>1, <1>2, <1>3, <1>4, <1>5, <1>6, <1>7, <1>8 DEF Next

LEMMA InvHolds == Spec => []Inv
BY InitInv, NextPreserves, PTL DEF Spec

\* Every variable keeps its type; outbox entries belong to stored events.
THEOREM TypeCorrect == Spec => []TypeOK
<1>1. Inv => TypeOK
  BY DEF Inv
<1> QED
  BY <1>1, InvHolds, PTL

\* No setting ever stands behind or ahead of what the desktop knows of the
\* identity it is pinned to, and no two settings share an identity.
THEOREM CursorsKeepPosition == Spec => []CursorIsPosition
<1>1. Inv => CursorIsPosition
  BY DEF Inv
<1> QED
  BY <1>1, InvHolds, PTL

-------------------------------------------------------------------------------

\* An event of either table matches itself and nothing else.
LEMMA StoredMatchesItself ==
  ASSUME Inv, NEW e \in history \union tombstones
  PROVE  Matching(e) = {<<"event", e>>} \/ Matching(e) = {<<"tombstone", e>>}
<1>1. Collides(e, e) /\ \A y \in history \union tombstones : Collides(y, e) => y = e
  BY DEF Inv, Apart, Collides
<1>2. CASE e \in history
  <2>1. e \notin tombstones
    BY <1>2 DEF Inv, Apart
  <2>2. {y \in history : Collides(y, e)} = {e} /\ {y \in tombstones : Collides(y, e)} = {}
    BY <1>1, <1>2, <2>1
  <2> QED
    BY <2>2 DEF Matching
<1>3. CASE e \in tombstones
  <2>1. e \notin history
    BY <1>3 DEF Inv, Apart
  <2>2. {y \in history : Collides(y, e)} = {} /\ {y \in tombstones : Collides(y, e)} = {e}
    BY <1>1, <1>3, <2>1
  <2> QED
    BY <2>2 DEF Matching
<1> QED
  BY <1>2, <1>3

LEMMA InvGivesReplay == Inv => ReplayIsDuplicate
<1> SUFFICES ASSUME Inv, NEW k \in Keys, pinned[k] # NoSource
             PROVE  /\ \A e \in history \union tombstones :
                         e.source = pinned[k] => IngestResult(k, e) = "duplicate"
                    /\ \A g \in gaps :
                         g.source = pinned[k] =>
                           GapResult(k, g.from - 1, g.through) = "duplicate"
  BY DEF ReplayIsDuplicate
<1>1. k \in registered
  BY DEF Inv, PinnedAreRegistered
<1>2. ASSUME NEW e \in history \union tombstones, e.source = pinned[k]
      PROVE  IngestResult(k, e) = "duplicate"
  <2>1. Matching(e) \in {{<<"event", e>>}, {<<"tombstone", e>>}}
    BY StoredMatchesItself
  <2>2. Matching(e) # {}
    BY <2>1
  <2> QED
    BY <1>1, <1>2, <2>1, <2>2 DEF IngestResult
<1>3. ASSUME NEW g \in gaps, g.source = pinned[k]
      PROVE  GapResult(k, g.from - 1, g.through) = "duplicate"
  <2>1. g \in Gap /\ g.from <= g.through /\ g.through <= checkpoints[pinned[k]]
    BY <1>3 DEF Inv, TypeOK, Covered
  <2>2. LostRange(pinned[k], g.from - 1, g.through) = g
    BY <1>3, <2>1 DEF LostRange, Gap
  <2>3. cursor[k] >= g.through /\ g.through > g.from - 1
    BY <2>1 DEF Inv, TypeOK, CursorIsPosition, Gap
  <2> QED
    BY <1>1, <2>2, <2>3, <1>3 DEF GapResult
<1> QED
  BY <1>2, <1>3

\* Whatever is still stored or remembered is recognised when it comes again.
THEOREM ReplaysAreDuplicates == Spec => []ReplayIsDuplicate
BY InvGivesReplay, InvHolds, PTL

-------------------------------------------------------------------------------
(* Refinement *)

Owed == {<<e.source, e.sequence>> : e \in unsettled}

LEMMA InitImplements == Init => Ledger!Init
BY DEF Init, Ledger!Init

LEMMA IngestEventImplements ==
  ASSUME Inv, NEW k \in Keys, NEW e \in Event, IngestEvent(k, e)
  PROVE  Ledger!Receive(e.source)
<1>1. pinned[k] = e.source /\ e.sequence = checkpoints[e.source] + 1
  BY InsertedIsNext DEF IngestEvent
<1>2. e.source \in SourceIds /\ checkpoints[e.source] \in Int
  BY DEF Event, Inv, TypeOK
<1>3. checkpoints' = [checkpoints EXCEPT ![e.source] = checkpoints[e.source] + 1]
  BY <1>1, IngestAdvances
<1>4. {<<x.source, x.sequence>> : x \in unsettled'} =
        Owed \union {<<e.source, checkpoints[e.source] + 1>>}
  BY <1>1 DEF IngestEvent, Owed
<1> QED
  BY <1>1, <1>3, <1>4 DEF IngestEvent, Ledger!Receive, Owed

LEMMA RecordGapImplements ==
  ASSUME Inv, NEW k \in Keys, NEW after \in 0..MaxSequence, NEW through \in 0..MaxSequence,
         RecordGap(k, after, through)
  PROVE  pinned[k] \in SourceIds /\ Ledger!Lose(pinned[k], through)
<1>1. /\ pinned[k] \in SourceIds
      /\ checkpoints[pinned[k]] = after
      /\ after < through
      /\ checkpoints' = [checkpoints EXCEPT ![pinned[k]] = through]
  BY RecordedIsNext
<1>2. lost' = lost \union {<<pinned[k], n>> : n \in (after + 1)..through}
  BY DEF RecordGap
<1>3. UNCHANGED <<received, unsettled>>
  BY DEF RecordGap, outboxVars
<1> QED
  BY <1>1, <1>2, <1>3 DEF Ledger!Lose

LEMMA FinishOutboxImplements ==
  ASSUME Inv, NEW e \in unsettled, FinishOutbox(e)
  PROVE  Ledger!Settle
<1>1. \A d \in unsettled \ {e} : <<d.source, d.sequence>> # <<e.source, e.sequence>>
  BY DEF Inv, TypeOK, Apart, Collides
<1>2. unsettled' = unsettled \ {e}
  BY DEF FinishOutbox
<1>3. {<<d.source, d.sequence>> : d \in unsettled'} = Owed \ {<<e.source, e.sequence>>}
  BY <1>1, <1>2 DEF Owed
<1>4. <<e.source, e.sequence>> \in Owed
  BY DEF Owed
<1>5. UNCHANGED <<checkpoints, received, lost>>
  BY DEF FinishOutbox, ghostVars
<1> QED
  BY <1>3, <1>4, <1>5 DEF Ledger!Settle, Owed

LEMMA RequeueImplements ==
  ASSUME Inv, RequeuePermissionSuppressed
  PROVE  Ledger!Reopen
<1> DEFINE pairs == {<<e.source, e.sequence>> : e \in denied}
<1>1. pairs \subseteq received
  BY DEF Inv, TypeOK, HistoryIsReceived
<1>2. pairs \intersect Owed = {}
  <2>1. \A d \in denied, e \in unsettled : <<d.source, d.sequence>> # <<e.source, e.sequence>>
    BY DEF Inv, TypeOK, Apart, Collides
  <2> QED
    BY <2>1 DEF Owed
<1>3. {<<e.source, e.sequence>> : e \in unsettled'} = Owed \union pairs
  BY DEF RequeuePermissionSuppressed, Owed
<1>4. UNCHANGED <<checkpoints, received, lost>>
  BY DEF RequeuePermissionSuppressed, ghostVars
<1> QED
  BY <1>1, <1>2, <1>3, <1>4 DEF Ledger!Reopen, Owed

\* What the ledger does not see of a step leaves all its variables alone.
LEMMA StepImplements == Inv /\ [Next]_storeVars => [Ledger!Next]_(Ledger!ledgerVars)
<1> SUFFICES ASSUME Inv, [Next]_storeVars PROVE [Ledger!Next]_(Ledger!ledgerVars)
  OBVIOUS
<1>1. ASSUME UNCHANGED <<checkpoints, received, lost, unsettled>>
      PROVE  UNCHANGED Ledger!ledgerVars
  BY <1>1 DEF Ledger!ledgerVars
<1>2. ASSUME NEW k \in Keys, RegisterSource(k) \/ ReleaseSourceIdentity(k)
      PROVE  UNCHANGED Ledger!ledgerVars
  BY <1>1, <1>2 DEF RegisterSource, ReleaseSourceIdentity, outboxVars, ghostVars
<1>3. ASSUME NEW k \in Keys, NEW s \in SourceIds, PinSource(k, s) \/ ReplaceSource(k, s)
      PROVE  UNCHANGED Ledger!ledgerVars
  BY <1>1, <1>3 DEF PinSource, ReplaceSource, Adopt, outboxVars, ghostVars
<1>4. ASSUME NEW k \in Keys, NEW e \in Event, IngestEvent(k, e) PROVE Ledger!Next
  <2>1. e.source \in SourceIds
    BY DEF Event
  <2> QED
    BY <1>4, <2>1, IngestEventImplements DEF Ledger!Next
<1>5. ASSUME NEW k \in Keys, NEW after \in 0..MaxSequence, NEW through \in 0..MaxSequence,
             RecordGap(k, after, through)
      PROVE  Ledger!Next
  BY <1>5, RecordGapImplements DEF Ledger!Next
<1>6. ASSUME NEW e \in unsettled, FinishOutbox(e) PROVE Ledger!Next
  BY <1>6, FinishOutboxImplements DEF Ledger!Next
<1>7. ASSUME RequeuePermissionSuppressed PROVE Ledger!Next
  BY <1>7, RequeueImplements DEF Ledger!Next
<1>8. ASSUME MaintainHistory PROVE UNCHANGED Ledger!ledgerVars
  BY <1>1, <1>8, MaintainHistoryKeepsCheckpoints DEF MaintainHistory, ghostVars
<1>9. ASSUME UNCHANGED storeVars PROVE UNCHANGED Ledger!ledgerVars
  BY <1>1, <1>9 DEF storeVars
<1> QED
  BY <1>2, <1>3, <1>4, <1>5, <1>6, <1>7, <1>8, <1>9 DEF Next

\* The store accounts for every sequence of every identity once and in order, and
\* drops no notification that is owed.
THEOREM StoreImplementsLedger == Spec => ImplementsLedger
BY InitImplements, StepImplements, InvHolds, PTL DEF Spec, ImplementsLedger, Ledger!Spec
===============================================================================
