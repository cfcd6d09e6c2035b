---------------------------- MODULE RemoteDelivery ----------------------------
(***************************************************************************)
(* One SSH source end to end: the spool and its bridge on the remote host  *)
(* (Bridge), the consumer of its frames in the desktop                     *)
(* (crates/aizu-core/src/remote.rs), the thread that keeps it connected    *)
(* and the poll that starts and stops that thread                          *)
(* (apps/desktop/src-tauri/src/remote_worker.rs), the store the consumer   *)
(* writes to (DesktopStore) and the user who adds, removes, reconnects and *)
(* re-identifies the source (state.rs).                                    *)
(*                                                                         *)
(* Left out: what the view shows of it, the SSH preflight, and how long    *)
(* anything takes; retention of the desktop's history is DesktopStore's.   *)
(***************************************************************************)
EXTENDS DesktopStore, Sequences

CONSTANTS
  Key,                  \* "ssh:<alias>"
  PageSize,             \* BRIDGE_PAGE_SIZE
  MaxInFlight,          \* bounds the frames between bridge and consumer
  OrderedClock,         \* are events pruned in the order they were inserted?
  MayRemove,            \* does the user remove the source and add it again?
  MaxBreaks,            \* bounds broken connections and restarts
  MaxChanges,           \* bounds what the user does with the source
  MaxRegenerated        \* bounds the events of a spool whose identity changes

ASSUME RemoteAssumption ==
  /\ Key \in Keys
  /\ SourceIds \X (1..MaxSequence) \subseteq EventIds /\ Bodies # {}
  /\ PageSize \in Nat \ {0} /\ MaxInFlight \in Nat \ {0} /\ OrderedClock \in BOOLEAN
  /\ {MaxBreaks, MaxChanges, MaxRegenerated} \subseteq Nat

VARIABLES
  sourceId, highWatermark, stored, retired,                     \* Bridge
  stage, statement, streamSource, sent, seen, page, pageFull,
  channel,
  stream,               \* the validator of the consumer
  configured,           \* is the alias in settings.remote_sources?
  generation,           \* reconnect_generation
  job,                  \* the thread of the source, and why it is parked
  offered,              \* pending_remote_identities
  breaks,               \* how often a connection broke or the desktop ended
  changes               \* how many changes the user made

B == INSTANCE Bridge

spoolVars == <<sourceId, highWatermark, stored, retired>>
bridgeVars == <<stage, statement, streamSource, sent, seen, page, pageFull>>
remoteVars == <<spoolVars, bridgeVars, channel>>
userVars == <<configured, generation, changes>>
vars == <<storeVars, remoteVars, stream, userVars, job, offered, breaks>>

-------------------------------------------------------------------------------
(* Threads *)

NoJob == [phase |-> "none", generation |-> -1, reason |-> "none"]

Closed == [B!NewStream(0, NoSource) EXCEPT !.phase = "closed"]

\* terminate_child, and the end of its readers.
EndChild ==
  /\ B!Off
  /\ channel' = <<>>
  /\ stream' = Closed
  /\ UNCHANGED spoolVars

\* run_remote goes around its loop: BridgeResult::Retry.
Retry == job' = [job EXCEPT !.phase = "connecting"]

\* run_remote reports and waits to be stopped: BridgeResult::UserAction or
\* IdentityChanged.
Park(reason) == job' = [job EXCEPT !.phase = "parked", !.reason = reason]

\* retry_stderr_override: a connection to be retried is given up all the same
\* when what the child left on stderr is not a network failure.
RetryUnlessComplaint(reason) == Retry \/ Park(reason)

-------------------------------------------------------------------------------
(* The user: commands under the lock of AppService *)

MayChange == changes < MaxChanges /\ changes' = changes + 1

\* add_remote_source.
AddRemoteSource ==
  /\ MayChange
  /\ ~configured
  /\ configured' = TRUE
  /\ generation' = 0
  /\ IF Key \in registered THEN UNCHANGED storeVars ELSE RegisterSource(Key)
  /\ UNCHANGED <<remoteVars, stream, job, offered, breaks>>

\* remove_remote_source: the thread is stopped by the next poll.
RemoveRemoteSource ==
  /\ MayChange
  /\ MayRemove
  /\ configured
  /\ configured' = FALSE
  /\ ReleaseSourceIdentity(Key)
  /\ UNCHANGED <<generation, remoteVars, stream, job, offered, breaks>>

\* reconnect_remote_source.
ReconnectRemoteSource ==
  /\ MayChange
  /\ configured
  /\ generation' = generation + 1
  /\ UNCHANGED <<storeVars, configured, remoteVars, stream, job, offered, breaks>>

\* confirm_remote_identity, which looks for the alias last.
ConfirmRemoteIdentity ==
  /\ MayChange
  /\ offered # NoSource
  /\ offered' = NoSource
  /\ ReplaceSource(Key, offered)
  /\ generation' = IF configured THEN generation + 1 ELSE generation
  /\ UNCHANGED <<configured, remoteVars, stream, job, breaks>>

\* The desktop ends and is started again with what the settings file and the
\* database hold; a removal may be cut short between the two.
RestartDesktop ==
  /\ breaks < MaxBreaks
  /\ breaks' = breaks + 1
  /\ configured' \in {configured, configured /\ ~MayRemove}
  /\ job' = NoJob
  /\ offered' = NoSource
  /\ EndChild
  /\ UNCHANGED <<storeVars, generation, changes>>

UserStep ==
  AddRemoteSource \/ RemoveRemoteSource \/ ReconnectRemoteSource \/ ConfirmRemoteIdentity

-------------------------------------------------------------------------------
(* The poll *)

\* Faulty variant: a thread is taken for the one of its source whatever its
\* generation.
SyncFleet_AnyGeneration ==
  /\ IF configured THEN job.phase = "none" ELSE job.phase # "none"
  /\ job' = IF configured THEN [NoJob EXCEPT !.phase = "connecting", !.generation = generation]
            ELSE NoJob
  /\ EndChild
  /\ UNCHANGED <<storeVars, userVars, offered, breaks>>

\* RemoteFleet::sync: the thread of a removed source and one of an old generation
\* are stopped and joined; a source without a thread gets one.
SyncFleet ==
  /\ IF configured THEN job.generation # generation ELSE job.phase # "none"
  /\ job' = IF configured THEN [NoJob EXCEPT !.phase = "connecting", !.generation = generation]
            ELSE NoJob
  /\ EndChild
  /\ UNCHANGED <<storeVars, userVars, offered, breaks>>

-------------------------------------------------------------------------------
(* The thread of the source *)

\* bridge_once up to the loop: RemoteBridgeConsumer::open reads the source and
\* the child is started behind its cursor.
OpenConsumer ==
  /\ job.phase = "connecting"
  /\ IF Key \in registered THEN UNCHANGED storeVars ELSE RegisterSource(Key)
  /\ stream' = B!NewStream(cursor[Key], pinned[Key])
  /\ B!Start(cursor[Key])
  /\ job' = [job EXCEPT !.phase = "streaming"]
  /\ UNCHANGED <<userVars, offered, breaks>>

EventOf(s, n) ==
  [source |-> s, sequence |-> n, id |-> <<s, n>>, body |-> CHOOSE b \in Bodies : TRUE]

\* identity_change: the new identity is offered to the user.
IdentityChanged(s) ==
  /\ offered' = s
  /\ Park("identity")
  /\ EndChild
  /\ UNCHANGED storeVars

GiveUp(reason) ==
  /\ Park(reason)
  /\ EndChild
  /\ UNCHANGED <<storeVars, offered>>

\* The frame is taken: the cursor of the validator moves behind the store's.
Proceed(f) ==
  /\ stream' = B!Accepted(stream, f)
  /\ channel' = Tail(channel)
  /\ UNCHANGED <<spoolVars, bridgeVars, job, offered>>

AcceptHello(f) ==
  IF stream.cursor > f.latest THEN GiveUp("cursor_ahead")
  ELSE IF pinned[Key] \notin {NoSource, f.source} THEN IdentityChanged(f.source)
  ELSE IF pinned[Key] = NoSource /\ OwnedByAnother(Key, f.source) THEN GiveUp("refused")
  ELSE /\ IF pinned[Key] = NoSource THEN PinSource(Key, f.source) ELSE UNCHANGED storeVars
       /\ Proceed(f)

AcceptEvent(f) ==
  LET e == EventOf(f.source, f.sequence)
      result == IngestResult(Key, e)
  IN  CASE result = "inserted" -> IngestEvent(Key, e) /\ Proceed(f)
        [] result = "duplicate" -> UNCHANGED storeVars /\ Proceed(f)
        [] result = "refused" /\ pinned[Key] # NoSource -> IdentityChanged(f.source)
        [] OTHER -> GiveUp("refused")

AcceptGap(f) ==
  LET result == GapResult(Key, f.after, f.through)
  IN  CASE result = "recorded" -> RecordGap(Key, f.after, f.through) /\ Proceed(f)
        [] result = "duplicate" -> UNCHANGED storeVars /\ Proceed(f)
        [] OTHER -> GiveUp("refused")

\* classify_remote_error.
AcceptError(f) ==
  /\ IF f.code = "spool_unavailable"
     THEN RetryUnlessComplaint("spool_unavailable") ELSE Park("remote_error")
  /\ EndChild
  /\ UNCHANGED <<storeVars, offered>>

\* An event the validator is past is checked against the store alone.
AcceptReplay(f) ==
  IF f.source # stream.source THEN IdentityChanged(f.source)
  ELSE IF IngestResult(Key, EventOf(f.source, f.sequence)) = "duplicate"
  THEN /\ channel' = Tail(channel)
       /\ UNCHANGED <<storeVars, spoolVars, bridgeVars, stream, job, offered>>
  ELSE GiveUp("refused")

\* accept_frame.
AcceptFrame ==
  /\ job.phase = "streaming"
  /\ channel # <<>>
  /\ LET f == Head(channel)
         verdict == B!Verdict(stream, f)
     IN  IF f.type = "event" /\ stream.phase = "active" /\ f.sequence <= stream.cursor
         THEN AcceptReplay(f)
         ELSE CASE verdict = "identity_mismatch" -> IdentityChanged(f.source)
                [] verdict = "refused" ->
                     GiveUp(IF f.type = "hello" THEN "bad_hello" ELSE "refused")
                [] OTHER ->
                     CASE f.type = "hello" -> AcceptHello(f)
                       [] f.type = "event" -> AcceptEvent(f)
                       [] f.type = "gap" -> AcceptGap(f)
                       [] f.type = "error" -> AcceptError(f)
                       [] f.type = "heartbeat" -> UNCHANGED storeVars /\ Proceed(f)
  /\ UNCHANGED <<userVars, breaks>>

\* finish_stdout without a terminal error.
EndOfStream ==
  /\ job.phase = "streaming"
  /\ stage = "off"
  /\ channel = <<>>
  /\ RetryUnlessComplaint("connection")
  /\ EndChild
  /\ UNCHANGED <<storeVars, userVars, offered, breaks>>

\* timeout_at, or a child found dead: what is still on its way is dropped.
ConnectionTimesOut ==
  /\ job.phase = "streaming"
  /\ breaks < MaxBreaks
  /\ breaks' = breaks + 1
  /\ RetryUnlessComplaint("connection")
  /\ EndChild
  /\ UNCHANGED <<storeVars, userVars, offered>>

JobStep == OpenConsumer \/ AcceptFrame \/ EndOfStream

-------------------------------------------------------------------------------
(* The remote host *)

OnlyRemote == UNCHANGED <<storeVars, stream, userVars, job, offered>>

RemoteSpoolStep ==
  /\ B!SpoolStep
  /\ retired' # {} => highWatermark <= MaxRegenerated /\ highWatermark' <= MaxRegenerated
  /\ OnlyRemote /\ UNCHANGED breaks

RemoteBridgeStep == B!BridgeStep /\ OnlyRemote /\ UNCHANGED breaks

ConnectionBreaks ==
  /\ breaks < MaxBreaks
  /\ breaks' = breaks + 1
  /\ B!Break
  /\ OnlyRemote

-------------------------------------------------------------------------------

\* The settings name the source; the desktop has not met it yet.
Begin ==
  /\ Init
  /\ B!SpoolInit
  /\ B!BridgeInit
  /\ stream = Closed
  /\ configured = TRUE
  /\ generation = 0
  /\ job = NoJob
  /\ offered = NoSource
  /\ breaks = 0
  /\ changes = 0

Step ==
  \/ UserStep
  \/ RestartDesktop
  \/ SyncFleet
  \/ JobStep
  \/ ConnectionTimesOut
  \/ RemoteSpoolStep
  \/ RemoteBridgeStep
  \/ ConnectionBreaks

DeliverySpec == Begin /\ [][Step]_vars

\* The poll comes around every 250 ms, a thread that is not parked goes on, and
\* so does the process at the other end.
Fairness ==
  /\ WF_vars(SyncFleet)
  /\ WF_vars(JobStep)
  /\ WF_vars(RemoteBridgeStep)
  /\ SF_vars(OpenConsumer /\ stage' = "hello")

FairDelivery == DeliverySpec /\ Fairness

-------------------------------------------------------------------------------
(* Properties *)

DeliveryTypeOK ==
  /\ TypeOK
  /\ B!TypeOK
  /\ configured \in BOOLEAN
  /\ generation \in 0..MaxChanges
  /\ job.phase \in {"none", "connecting", "streaming", "parked"}
  /\ job.generation \in -1..MaxChanges
  /\ offered \in SourceIds \union {NoSource}

\* The desktop never writes off an event the source still has: through every
\* interleaving of the hooks, the retention, the reads of the bridge, broken
\* connections, new identities and the user, what is recorded as lost is gone
\* (emit_gap_if_needed, stream_bridge, record_gap).
NothingStoredIsLost == \A n \in stored : <<sourceId, n>> \notin lost

\* While a stream runs for the identity its setting has, the validator in memory
\* and the cursor in the database stand at the same place (accept_frame persists
\* a step before the validator takes it).
CursorsAgree ==
  stream.phase = "active" /\ pinned[Key] = stream.source => cursor[Key] = stream.cursor

\* A source of known identity is never stopped because of what an intact bridge
\* sends after its hello: gaps, events and reconnections fit what the store has
\* (release_source_identity: "A later registration resumes from the retained
\* source high-watermark").
NeverRefused == configured /\ pinned[Key] # NoSource => job.reason # "refused"

\* Every event the source stores reaches the desktop or is recorded as lost,
\* unless the spool got another identity, the user removed the source, or the
\* thread the user asked for last is stopped with a reason to show.  Assumes
\* clocks that are not set back, for which the bridge always moves on.
Delivered ==
  \A s \in SourceIds, n \in 1..MaxSequence :
    sourceId = s /\ highWatermark >= n ~>
      \/ <<s, n>> \in received \union lost
      \/ sourceId # s
      \/ ~configured
      \/ job.phase = "parked" /\ job.generation = generation

\* Removing a source gives its identity up (release_source_identity: "an inactive
\* setting"); another setting may then have it.
RemovedSourceIsReleased ==
  ~configured /\ job.phase = "none" => pinned[Key] = NoSource

\* What the consumer gets can be taken and is true (stream_bridge against
\* BridgeStreamValidator).
FramesAreTrue == B!BridgeInv

\* All of them: whatever happens to the connection, the spool, the setting and the
\* desktop, nothing is written off that is still there; and unless the source is
\* removed, memory and database agree on where the stream is and it is not refused.
DeliveryInv ==
  /\ DeliveryTypeOK /\ NothingStoredIsLost
  /\ ~MayRemove => CursorsAgree /\ NeverRefused
===============================================================================
