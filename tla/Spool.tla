-------------------------------- MODULE Spool --------------------------------
(***************************************************************************)
(* The per-user event spool (crates/aizu-core/src/spool.rs): one SQLite    *)
(* database written by any number of short-lived hook processes and read   *)
(* by bridges and by the desktop, with a maintenance lock file that keeps  *)
(* writers out while the identity of the spool is regenerated.             *)
(*                                                                         *)
(* One action per step between two points where another process can run:   *)
(* a probe of the lock file, the start of a write transaction, its commit, *)
(* each read that is a statement of its own.  What a write transaction     *)
(* does before its commit is invisible to the others and is rolled back    *)
(* when the process dies, so it happens at the commit.                     *)
(*                                                                         *)
(* Wall-clock times are arbitrary members of Times: a clock may be set     *)
(* forward or back between any two calls.                                  *)
(***************************************************************************)
EXTENDS Retention

CONSTANTS
  Writers,              \* processes that emit events or run the retention
  Regenerators,         \* processes that regenerate the identity
  Readers,              \* processes that take snapshots and read pages
  SourceIds,            \* the identities a spool can ever be given
  MaxSequence,          \* i64::MAX
  NoProc                \* nobody holds a lock

Procs == Writers \union Regenerators \union Readers

ASSUME SpoolAssumption ==
  /\ MaxSequence \in Nat \ {0}
  /\ Writers \intersect Regenerators = {}
  /\ Readers \intersect (Writers \union Regenerators) = {}
  /\ NoProc \notin Procs

VARIABLES
  sourceId,             \* source_identity.source_id
  highWatermark,        \* source_identity.high_watermark
  maintenanceOverdue,   \* source_identity.last_maintenance_at IS NULL
  events,               \* the rows of events
  retired,              \* history: the identities before sourceId
  backup,               \* <<identity, sequence>> pairs in the identity backups
  maintenanceLock,      \* who holds maintenance.lock exclusively
  dbLock,               \* who is in a write transaction
  pc,                   \* where each process is
  task,                 \* the call each process is in, with its argument
  seen,                 \* what each reader has read so far
  outcome               \* how each reader's last call ended

dbVars == <<sourceId, highWatermark, maintenanceOverdue, events, retired>>
lockVars == <<maintenanceLock, dbLock>>
readVars == <<seen, outcome>>
vars == <<sourceId, highWatermark, maintenanceOverdue, events, retired, backup,
          maintenanceLock, dbLock, pc, task, seen, outcome>>

-------------------------------------------------------------------------------
(* The database *)

Event == [source : SourceIds, sequence : 1..MaxSequence,
          insertedAt : Times, bytes : Sizes]

StoredSequences == {e.sequence : e \in events}

-------------------------------------------------------------------------------
(* Processes and locks *)

Goto(p, label) == pc' = [pc EXCEPT ![p] = label]

\* A call that ends, in whatever way, leaves its transaction and drops its lock.
Return(p) ==
  /\ Goto(p, "idle")
  /\ dbLock' = IF dbLock = p THEN NoProc ELSE dbLock
  /\ maintenanceLock' = IF maintenanceLock = p THEN NoProc ELSE maintenanceLock

WriterLabels == {"idle", "maintain_check", "maintain_begin", "maintain_recheck", "prune",
                 "emit_check", "emit_begin", "emit_recheck", "insert"}

RegeneratorLabels == {"idle", "barrier", "count", "backup", "exclusive", "replace"}

ReaderLabels == {"idle", "snapshot_min", "snapshot_max", "page_rows"}

ProbePoints == {"maintain_check", "maintain_recheck", "emit_check", "emit_recheck"}

AfterProbe == [maintain_check   |-> "maintain_begin",
               maintain_recheck |-> "prune",
               emit_check       |-> "emit_begin",
               emit_recheck     |-> "insert"]

\* Faulty variant: a writer does not look at the lock again in its transaction.
AfterBegin_NoRecheck == [maintain_begin |-> "prune",
                         emit_begin     |-> "insert",
                         exclusive      |-> "replace"]

AfterBegin == [maintain_begin |-> "maintain_recheck",
               emit_begin     |-> "emit_recheck",
               exclusive      |-> "replace"]

-------------------------------------------------------------------------------
(* emit and maintain *)

\* Spool::emit.  The retention runs first when it is due: always when the last
\* one left work behind, otherwise as the clock has it.
StartEmit(w) ==
  /\ pc[w] = "idle"
  /\ task' = [task EXCEPT ![w] = "emit"]
  /\ \/ Goto(w, "maintain_check")
     \/ ~maintenanceOverdue /\ Goto(w, "emit_check")
  /\ UNCHANGED <<dbVars, backup, lockVars, readVars>>

\* Spool::maintain, as maintain_default calls it.
StartMaintain(w) ==
  /\ pc[w] = "idle"
  /\ task' = [task EXCEPT ![w] = "maintain"]
  /\ Goto(w, "maintain_check")
  /\ UNCHANGED <<dbVars, backup, lockVars, readVars>>

\* Faulty variant: the probe waits for the lock.
ProbeMaintenanceLock_Waiting(w) ==
  /\ pc[w] \in ProbePoints
  /\ maintenanceLock = NoProc
  /\ Goto(w, AfterProbe[pc[w]])
  /\ UNCHANGED <<dbVars, backup, lockVars, task, readVars>>

\* ensure_maintenance_inactive: a shared lock is tried and released at once;
\* a lock held by a regeneration fails the whole call (MaintenanceBusy).
ProbeMaintenanceLock(w) ==
  /\ pc[w] \in ProbePoints
  /\ IF maintenanceLock = NoProc
     THEN Goto(w, AfterProbe[pc[w]]) /\ UNCHANGED lockVars
     ELSE Return(w)
  /\ UNCHANGED <<dbVars, backup, task, readVars>>

\* BEGIN IMMEDIATE or EXCLUSIVE: taken when no other write transaction is open,
\* otherwise the call fails after the busy timeout.
BeginTransaction(p) ==
  /\ pc[p] \in DOMAIN AfterBegin
  /\ \/ /\ dbLock = NoProc
        /\ dbLock' = p
        /\ Goto(p, AfterBegin[pc[p]])
        /\ UNCHANGED maintenanceLock
     \/ dbLock # NoProc /\ Return(p)
  /\ UNCHANGED <<dbVars, backup, task, readVars>>

\* prune_retention_batch and the commit; an emit goes on with its own work.
Prune(w) ==
  /\ pc[w] = "prune"
  /\ \E cutoff \in Times :
       LET left == events \ RetentionBatch(events, cutoff)
       IN  /\ events' = left
           /\ maintenanceOverdue' = MoreRequired(left, cutoff)
  /\ IF task[w] = "emit"
     THEN Goto(w, "emit_check") /\ dbLock' = NoProc /\ UNCHANGED maintenanceLock
     ELSE Return(w)
  /\ UNCHANGED <<sourceId, highWatermark, retired, backup, task, readVars>>

\* Faulty variants: the next sequence is taken from the rows that are left; the
\* end of the range is not checked.
NextSequence_FromRows == IF events = {} THEN 1 ELSE Max(StoredSequences) + 1

SequenceAvailable_Unchecked == TRUE

\* next_sequence: the high watermark moves up by one unless it is exhausted.
NextSequence == highWatermark + 1

SequenceAvailable == highWatermark < MaxSequence

\* The rest of emit's transaction and its commit, or SequenceExhausted.
Insert(w) ==
  /\ pc[w] = "insert"
  /\ IF SequenceAvailable
     THEN /\ highWatermark' = NextSequence
          /\ \E at \in Times, size \in Sizes :
               events' = events \union {[source |-> sourceId, sequence |-> NextSequence,
                                         insertedAt |-> at, bytes |-> size]}
     ELSE UNCHANGED <<highWatermark, events>>
  /\ Return(w)
  /\ UNCHANGED <<sourceId, maintenanceOverdue, retired, backup, task, readVars>>

-------------------------------------------------------------------------------
(* regenerate_identity *)

\* MaintenanceLock::acquire: try_lock, which also fails while a writer is in the
\* middle of a probe (the call then ends without a trace).  Uuid::new_v4 never
\* runs out; SourceIds does, and bounds the number of regenerations.
AcquireMaintenanceLock(g) ==
  /\ pc[g] = "idle"
  /\ SourceIds # retired \union {sourceId}
  /\ maintenanceLock = NoProc
  /\ maintenanceLock' = g
  /\ \E mode \in {"keep", "discard"} : task' = [task EXCEPT ![g] = mode]
  /\ Goto(g, "barrier")
  /\ UNCHANGED <<dbVars, backup, dbLock, readVars>>

\* Faulty variant: regeneration does not wait for writers already in.
Barrier_Skipped(g) ==
  /\ pc[g] = "barrier"
  /\ Goto(g, "count")
  /\ UNCHANGED <<dbVars, backup, lockVars, task, readVars>>

\* The empty transaction waits for a writer that passed its probe before the
\* lock was taken.
Barrier(g) ==
  /\ pc[g] = "barrier"
  /\ IF dbLock = NoProc
     THEN Goto(g, "count") /\ UNCHANGED lockVars
     ELSE Return(g)
  /\ UNCHANGED <<dbVars, backup, task, readVars>>

\* The count decides between a refusal (IdentityHasEvents), a backup, and
\* nothing to save.
CountEvents(g) ==
  /\ pc[g] = "count"
  /\ \/ events = {} /\ Goto(g, "exclusive") /\ UNCHANGED lockVars
     \/ events # {} /\ task[g] = "discard" /\ Goto(g, "backup") /\ UNCHANGED lockVars
     \/ events # {} /\ task[g] = "keep" /\ Return(g)
  /\ UNCHANGED <<dbVars, backup, task, readVars>>

BackupDatabase(g) ==
  /\ pc[g] = "backup"
  /\ backup' = backup \union {<<sourceId, n>> : n \in StoredSequences}
  /\ Goto(g, "exclusive")
  /\ UNCHANGED <<dbVars, lockVars, task, readVars>>

\* The exclusive transaction's commit; the maintenance lock drops on return.
ReplaceIdentity(g) ==
  /\ pc[g] = "replace"
  /\ events' = IF task[g] = "discard" THEN {} ELSE events
  /\ \E fresh \in SourceIds \ (retired \union {sourceId}) : sourceId' = fresh
  /\ highWatermark' = 0
  /\ retired' = retired \union {sourceId}
  /\ Return(g)
  /\ UNCHANGED <<maintenanceOverdue, backup, task, readVars>>

-------------------------------------------------------------------------------
(* snapshot and events_after: every SELECT is a transaction of its own *)

\* SELECT source_id, high_watermark, the first read of both calls.
ReadIdentity(r) ==
  /\ pc[r] = "idle"
  /\ seen' = [seen EXCEPT ![r] = [source |-> sourceId, latest |-> highWatermark, oldest |-> 0]]
  /\ outcome' = [outcome EXCEPT ![r] = "none"]
  /\ \/ Goto(r, "snapshot_min")
     \/ Goto(r, "page_rows")
  /\ UNCHANGED <<dbVars, backup, lockVars, task>>

\* SELECT MIN(sequence); 0 stands for no row.
ReadOldest(r) ==
  /\ pc[r] = "snapshot_min"
  /\ \/ events = {} /\ seen' = [seen EXCEPT ![r].oldest = 0]
     \/ \E n \in StoredSequences :
          /\ \A m \in StoredSequences : n <= m
          /\ seen' = [seen EXCEPT ![r].oldest = n]
  /\ Goto(r, "snapshot_max")
  /\ UNCHANGED <<dbVars, backup, lockVars, task, outcome>>

\* Faulty variant: the watermark is read after the oldest row.
ReadNewest_WatermarkLast(r) ==
  /\ pc[r] = "snapshot_max"
  /\ seen' = [seen EXCEPT ![r].latest = highWatermark]
  /\ outcome' = [outcome EXCEPT ![r] = "snapshot"]
  /\ Goto(r, "idle")
  /\ UNCHANGED <<dbVars, backup, lockVars, task>>

\* SELECT MAX(sequence) and the comparison with the watermark read first.
ReadNewest(r) ==
  /\ pc[r] = "snapshot_max"
  /\ outcome' = [outcome EXCEPT ![r] =
                   IF \E n \in StoredSequences : n > seen[r].latest THEN "corrupt" ELSE "snapshot"]
  /\ Goto(r, "idle")
  /\ UNCHANGED <<dbVars, backup, lockVars, task, seen>>

\* The SELECT over the rows after some cursor, which LIMIT ends at some row, and
\* the checks of every row of the page.
ReadRows(r) ==
  /\ pc[r] = "page_rows"
  /\ \E after, last \in 0..MaxSequence :
       LET page == {e \in events : after < e.sequence /\ e.sequence <= last}
       IN  outcome' = [outcome EXCEPT ![r] =
                        IF \A e \in page : /\ e.sequence <= seen[r].latest
                                           /\ e.source = seen[r].source
                        THEN "page" ELSE "corrupt"]
  /\ Goto(r, "idle")
  /\ UNCHANGED <<dbVars, backup, lockVars, task, seen>>

-------------------------------------------------------------------------------
(* A process may die, or fail on I/O, anywhere: SQLite rolls its transaction  *)
(* back and its file lock is gone.                                            *)

Crash(p) ==
  /\ pc[p] # "idle"
  /\ Return(p)
  /\ UNCHANGED <<dbVars, backup, task, readVars>>

-------------------------------------------------------------------------------

Init ==
  /\ sourceId \in SourceIds
  /\ highWatermark = 0
  /\ maintenanceOverdue = FALSE
  /\ events = {}
  /\ retired = {}
  /\ backup = {}
  /\ maintenanceLock = NoProc
  /\ dbLock = NoProc
  /\ pc = [p \in Procs |-> "idle"]
  /\ task = [p \in Writers \union Regenerators |-> "none"]
  /\ seen = [r \in Readers |-> [source |-> sourceId, latest |-> 0, oldest |-> 0]]
  /\ outcome = [r \in Readers |-> "none"]

\* The steps of a call once it has started.
WriterStep(w) == ProbeMaintenanceLock(w) \/ BeginTransaction(w) \/ Prune(w) \/ Insert(w)

RegeneratorStep(g) ==
  Barrier(g) \/ CountEvents(g) \/ BackupDatabase(g) \/ BeginTransaction(g) \/ ReplaceIdentity(g)

ReaderStep(r) == ReadOldest(r) \/ ReadNewest(r) \/ ReadRows(r)

Next ==
  \/ \E w \in Writers : StartEmit(w) \/ StartMaintain(w) \/ WriterStep(w)
  \/ \E g \in Regenerators : AcquireMaintenanceLock(g) \/ RegeneratorStep(g)
  \/ \E r \in Readers : ReadIdentity(r) \/ ReaderStep(r)
  \/ \E p \in Procs : Crash(p)

Spec == Init /\ [][Next]_vars

\* A call that has started goes on: nothing in it waits without a bound.
Fairness ==
  /\ \A w \in Writers : WF_vars(WriterStep(w))
  /\ \A g \in Regenerators : WF_vars(RegeneratorStep(g))

FairSpec == Spec /\ Fairness

-------------------------------------------------------------------------------
(* Properties *)

TypeOK ==
  /\ sourceId \in SourceIds
  /\ highWatermark \in 0..MaxSequence
  /\ maintenanceOverdue \in BOOLEAN
  /\ events \in SUBSET Event
  /\ retired \in SUBSET SourceIds
  /\ backup \in SUBSET (SourceIds \X (1..MaxSequence))
  /\ maintenanceLock \in Regenerators \union {NoProc}
  /\ dbLock \in Writers \union Regenerators \union {NoProc}
  /\ pc \in [Procs -> WriterLabels \union RegeneratorLabels \union ReaderLabels]
  /\ task \in [Writers \union Regenerators ->
                {"none", "emit", "maintain", "keep", "discard"}]
  /\ seen \in [Readers -> [source : SourceIds, latest : 0..MaxSequence,
                           oldest : 0..MaxSequence]]
  /\ outcome \in [Readers -> {"none", "snapshot", "page", "corrupt"}]

\* Every stored event carries the identity the spool has now, under a sequence of
\* its own that the watermark covers: what events_after verifies of every row.
\* An emit that read the old identity and commits after a regeneration would
\* break it for good (spool.rs emit, regenerate_identity).
EventsBelongToIdentity ==
  /\ \A e \in events : e.source = sourceId /\ e.sequence <= highWatermark
  /\ \A d, e \in events : d.sequence = e.sequence => d = e

\* regenerate_identity destroys nothing it has not copied: when the identity
\* changes, every event that goes with the old one is in a backup.  The count
\* that decides whether to write one is read outside the exclusive transaction.
ReplacedEventsAreSaved ==
  [][sourceId' # sourceId =>
       \A e \in events \ events' : <<e.source, e.sequence>> \in backup]_vars

\* What a successful snapshot lets its reader conclude: under the identity it
\* names, nothing at or below latest_sequence and below oldest_sequence is still
\* stored.  A reader records that range as lost, so an event in it would be
\* skipped although the spool has it; the three reads are three transactions.
SnapshotGapIsLost ==
  \A r \in Readers :
    outcome[r] = "snapshot" /\ seen[r].source = sourceId =>
      \A e \in events : e.sequence <= seen[r].latest =>
        seen[r].oldest # 0 /\ seen[r].oldest <= e.sequence

\* The locks of two kinds never make a call wait forever: a writer probes the
\* lock file inside its transaction while a regeneration, holding it, waits for
\* that transaction.
CallsEnd ==
  \A p \in Writers \union Regenerators : pc[p] # "idle" ~> pc[p] = "idle"

\* An intact spool is never reported corrupt to a reader.
IntactSpoolReadsClean == \A r \in Readers : outcome[r] # "corrupt"

\* The spool is the log its readers are promised.
Log == INSTANCE SpoolLog WITH stored <- StoredSequences

ImplementsLog == Log!Spec
===============================================================================
