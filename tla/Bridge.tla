-------------------------------- MODULE Bridge --------------------------------
(***************************************************************************)
(* `aizu bridge --follow` (crates/aizu-cli/src/main.rs): the process at the *)
(* other end of an SSH connection that streams one spool as frames.  It    *)
(* reads the spool one SELECT at a time while hooks append to it, the      *)
(* retention prunes it and its identity is regenerated; the spool is the   *)
(* log SpoolLog, which Spool implements.                                   *)
(*                                                                         *)
(* The receiving end is reduced to the validator of BridgeStream, which    *)
(* opens the next connection where the last one ended.  Delivery puts the  *)
(* consumer of the desktop in its place.                                   *)
(***************************************************************************)
EXTENDS BridgeStream, FiniteSets, FiniteSetsExt

CONSTANTS
  SourceIds,            \* the identities the spool can ever have
  MaxSequence,          \* bounds the events under one identity
  PageSize,             \* BRIDGE_PAGE_SIZE
  MaxInFlight,          \* bounds the frames written and not yet read
  OrderedClock          \* are events pruned in the order they were inserted?

\* What the constants are; RemoteDelivery assumes it of the bridge it composes.
BridgeConstants ==
  /\ MaxSequence \in Nat \ {0}
  /\ PageSize \in Nat \ {0}
  /\ MaxInFlight \in Nat \ {0}
  /\ OrderedClock \in BOOLEAN
  /\ NoSource \notin SourceIds

VARIABLES
  sourceId,             \* the spool, as in SpoolLog
  highWatermark,
  stored,
  retired,
  stage,                \* where the process is in stream_bridge, or "off"
  statement,            \* the SELECT it executes next
  streamSource,         \* source_id
  sent,                 \* cursor
  seen,                 \* the snapshot, or the identity read with the page
  page,                 \* the rows read and not yet written
  pageFull,             \* event_count == BRIDGE_PAGE_SIZE
  channel,              \* frames written and not yet read
  stream                \* the validator of the receiver

spoolVars == <<sourceId, highWatermark, stored, retired>>
bridgeVars == <<stage, statement, streamSource, sent, seen, page, pageFull>>
vars == <<sourceId, highWatermark, stored, retired, stage, statement, streamSource, sent,
          seen, page, pageFull, channel, stream>>

-------------------------------------------------------------------------------
(* The spool, with its backups left out: its readers do not see them. *)

Source == INSTANCE SpoolLog WITH backup <- SourceIds \X (1..MaxSequence)

StoreEvent ==
  /\ highWatermark < MaxSequence
  /\ Source!Append
  /\ UNCHANGED <<bridgeVars, channel>>

\* The retention deletes the rows inserted first.  Unless the clock was set back
\* in between, those are the lowest sequences.
PruneEvents ==
  /\ Source!Prune
  /\ stored' # stored
  /\ OrderedClock => \A gone \in stored \ stored', left \in stored' : gone < left
  /\ UNCHANGED <<bridgeVars, channel>>

RegenerateIdentity ==
  /\ Source!ChangeIdentity
  /\ UNCHANGED <<bridgeVars, channel>>

SpoolStep == StoreEvent \/ PruneEvents \/ RegenerateIdentity

-------------------------------------------------------------------------------
(* The process *)

NothingSeen == [source |-> NoSource, latest |-> 0, oldest |-> 0]

GoTo(next, select) ==
  /\ stage' = next
  /\ statement' = select
  /\ seen' = NothingSeen

Write(frames) == channel' = channel \o frames

\* There is no process.
Off ==
  /\ GoTo("off", "none")
  /\ streamSource' = NoSource
  /\ sent' = 0
  /\ page' = {}
  /\ pageFull' = FALSE

\* The process ends, having written what it still had to say.
Exit(frames) == Off /\ Write(frames)

\* run_bridge_command: the spool opens and is maintained, or one of both fails;
\* a regeneration in progress (MaintenanceBusy) is one reason.
Start(after) ==
  /\ stage = "off"
  /\ channel = <<>>
  /\ \/ /\ GoTo("hello", "identity")
        /\ sent' = after
        /\ UNCHANGED <<streamSource, page, pageFull, channel>>
     \/ Exit(<<ErrorFrame("spool_unavailable")>>)
  /\ UNCHANGED spoolVars

\* SELECT source_id, high_watermark: the first statement of snapshot and of
\* events_after.
ReadIdentity ==
  /\ statement = "identity"
  /\ seen' = [source |-> sourceId, latest |-> highWatermark, oldest |-> 0]
  /\ statement' = IF stage = "page" THEN "rows" ELSE "oldest"
  /\ UNCHANGED <<spoolVars, stage, streamSource, sent, page, pageFull, channel>>

\* SELECT MIN(sequence).
ReadOldest ==
  /\ statement = "oldest"
  /\ seen' = [seen EXCEPT !.oldest = IF stored = {} THEN 0 ELSE Min(stored)]
  /\ statement' = "newest"
  /\ UNCHANGED <<spoolVars, stage, streamSource, sent, page, pageFull, channel>>

\* SELECT MAX(sequence) ends the snapshot, which is refused as corrupt when a
\* row is above the watermark read first.
SnapshotCorrupt ==
  /\ statement = "newest"
  /\ \E n \in stored : n > seen.latest
  /\ Exit(<<ErrorFrame("spool_corrupt")>>)
  /\ UNCHANGED spoolVars

SnapshotTaken(at) ==
  /\ stage = at
  /\ statement = "newest"
  /\ \A n \in stored : n <= seen.latest

\* Faulty variant: the oldest row is lost too.
LostThrough_WithOldest(after) ==
  CASE seen.oldest # 0 /\ after < seen.oldest - 1 -> seen.oldest
    [] seen.oldest = 0 /\ after < seen.latest -> seen.latest
    [] OTHER -> after

\* emit_gap_if_needed: what the snapshot says was lost behind the cursor.
LostThrough(after) ==
  CASE seen.oldest # 0 /\ after < seen.oldest - 1 -> seen.oldest - 1
    [] seen.oldest = 0 /\ after < seen.latest -> seen.latest
    [] OTHER -> after

GapFrames(after, through) == IF through > after THEN <<GapFrame(after, through)>> ELSE <<>>

\* The initial snapshot: hello, and the gap it announces.
SayHello ==
  /\ SnapshotTaken("hello")
  /\ LET hello == Hello(seen.source, seen.oldest, seen.latest)
     IN  IF sent > seen.latest
         THEN Exit(<<hello, ErrorFrame("cursor_ahead")>>)
         ELSE /\ Write(<<hello>> \o GapFrames(sent, LostThrough(sent)))
              /\ streamSource' = seen.source
              /\ sent' = LostThrough(sent)
              /\ GoTo("loop", "identity")
              /\ UNCHANGED <<page, pageFull>>
  /\ UNCHANGED spoolVars

\* stream_snapshot_is_valid: the error that ends the stream, if any.
StreamError ==
  CASE seen.source # streamSource -> <<ErrorFrame("source_identity_changed")>>
    [] seen.source = streamSource /\ sent > seen.latest -> <<ErrorFrame("cursor_ahead")>>
    [] OTHER -> <<>>

\* The snapshot at the head of the loop.
FollowUp ==
  /\ SnapshotTaken("loop")
  /\ IF StreamError # <<>>
     THEN Exit(StreamError)
     ELSE /\ Write(GapFrames(sent, LostThrough(sent)))
          /\ sent' = LostThrough(sent)
          /\ GoTo("page", "identity")
          /\ UNCHANGED <<streamSource, page, pageFull>>
  /\ UNCHANGED spoolVars

\* events_after, the SELECT of the rows: at most a page of them, each checked
\* against the identity and watermark read before.
ReadRows ==
  /\ statement = "rows"
  /\ LET rows == {n \in stored : n > sent /\ Cardinality({m \in stored : sent < m /\ m < n}) < PageSize}
     IN  IF rows # {} /\ (seen.source # sourceId \/ \E n \in rows : n > seen.latest)
         THEN Exit(<<ErrorFrame("spool_corrupt")>>)
         ELSE /\ page' = rows
              /\ pageFull' = (Cardinality(rows) = PageSize)
              /\ stage' = "write"
              /\ statement' = "none"
              /\ UNCHANGED <<streamSource, sent, seen, channel>>
  /\ UNCHANGED spoolVars

\* Faulty variant: a hole in the middle of a page is passed over.
WriteEvent_NoGap ==
  /\ stage = "write"
  /\ page # {}
  /\ Write(<<EventFrame(seen.source, Min(page))>>)
  /\ sent' = Min(page)
  /\ page' = page \ {Min(page)}
  /\ UNCHANGED <<spoolVars, stage, statement, streamSource, seen, pageFull>>

\* One row of the page, behind the gap before it.
WriteEvent ==
  /\ stage = "write"
  /\ page # {}
  /\ Write(GapFrames(sent, Min(page) - 1) \o <<EventFrame(seen.source, Min(page))>>)
  /\ sent' = Min(page)
  /\ page' = page \ {Min(page)}
  /\ UNCHANGED <<spoolVars, stage, statement, streamSource, seen, pageFull>>

\* After the last row: the next page at once, or a look whether more has come.
EndPage ==
  /\ stage = "write"
  /\ page = {}
  /\ GoTo(IF pageFull THEN "loop" ELSE "post", "identity")
  /\ UNCHANGED <<spoolVars, streamSource, sent, page, pageFull, channel>>

\* The snapshot after the page decides between going on and sleeping.
CheckForMore ==
  /\ SnapshotTaken("post")
  /\ IF StreamError # <<>>
     THEN Exit(StreamError)
     ELSE /\ IF sent < seen.latest THEN GoTo("loop", "identity") ELSE GoTo("sleep", "none")
          /\ UNCHANGED <<streamSource, sent, page, pageFull, channel>>
  /\ UNCHANGED spoolVars

\* follow_poll_interval, and a heartbeat when nothing was written for a while.
Sleep ==
  /\ stage = "sleep"
  /\ GoTo("loop", "identity")
  /\ \/ Write(<<Heartbeat>>)
     \/ Write(<<>>)
  /\ UNCHANGED <<spoolVars, streamSource, sent, page, pageFull>>

\* A write to a pipe nobody reads blocks.
BridgeStep ==
  /\ Len(channel) < MaxInFlight
  /\ \/ ReadIdentity \/ ReadOldest \/ SnapshotCorrupt
     \/ SayHello \/ FollowUp \/ ReadRows \/ WriteEvent \/ EndPage \/ CheckForMore \/ Sleep

\* The connection or the process dies with some of the frames on their way.
Break ==
  /\ stage # "off"
  /\ Off
  /\ \E n \in 0..Len(channel) : channel' = SubSeq(channel, 1, n)
  /\ UNCHANGED spoolVars

-------------------------------------------------------------------------------
(* The receiver, for this module alone *)

\* A receiver that refused what it was sent starts again from nothing.
Connect ==
  /\ stream.phase = "closed"
  /\ stream' = NewStream(stream.cursor, stream.pinned)
  /\ Start(stream.cursor)

Receive ==
  /\ stream.phase \in {"awaiting_hello", "active"}
  /\ channel # <<>>
  /\ LET f == Head(channel)
         st == Accepted(stream, f)
     IN  /\ channel' = Tail(channel)
         /\ stream' = IF Verdict(stream, f) # "accepted"
                      THEN [NewStream(0, NoSource) EXCEPT !.phase = "refused"]
                      ELSE IF f.type = "hello" THEN [st EXCEPT !.pinned = f.source] ELSE st
  /\ UNCHANGED <<spoolVars, bridgeVars>>

\* The receiver ends the process; one that was told of an error may ask the user,
\* who starts from nothing.
Close ==
  /\ \/ stream.phase \in {"refused", "terminal"}
     \/ stage = "off" /\ channel = <<>> /\ stream.phase # "closed"
  /\ \E fresh \in {NewStream(stream.cursor, stream.pinned), NewStream(0, NoSource)} :
       stream' = [fresh EXCEPT !.phase = "closed"]
  /\ Off
  /\ channel' = <<>>
  /\ UNCHANGED spoolVars

-------------------------------------------------------------------------------

BridgeInit ==
  /\ stage = "off"
  /\ statement = "none"
  /\ streamSource = NoSource
  /\ sent = 0
  /\ seen = NothingSeen
  /\ page = {}
  /\ pageFull = FALSE
  /\ channel = <<>>

SpoolInit ==
  /\ sourceId \in SourceIds
  /\ highWatermark = 0
  /\ stored = {}
  /\ retired = {}

Init ==
  /\ SpoolInit
  /\ BridgeInit
  /\ stream = [NewStream(0, NoSource) EXCEPT !.phase = "closed"]

Next ==
  \/ SpoolStep /\ UNCHANGED stream
  \/ BridgeStep /\ UNCHANGED stream
  \/ Break /\ UNCHANGED stream
  \/ Connect
  \/ Receive
  \/ Close

Spec == Init /\ [][Next]_vars

\* A process that is not blocked runs, and a receiver reads what is there.
FairSpec ==
  /\ Spec
  /\ WF_vars(BridgeStep /\ UNCHANGED stream)
  /\ WF_vars(Connect)
  /\ WF_vars(Receive)
  /\ WF_vars(Close)

-------------------------------------------------------------------------------
(* Properties *)

Stages == {"off", "hello", "loop", "page", "write", "post", "sleep"}

TypeOK ==
  /\ sourceId \in SourceIds
  /\ highWatermark \in 0..MaxSequence
  /\ stored \in SUBSET (1..highWatermark)
  /\ retired \in SUBSET (SourceIds \ {sourceId})
  /\ stage \in Stages
  /\ statement \in {"none", "identity", "oldest", "newest", "rows"}
  /\ streamSource \in SourceIds \union {NoSource}
  /\ sent \in 0..MaxSequence
  /\ seen \in [source : SourceIds \union {NoSource}, latest : 0..MaxSequence,
               oldest : 0..MaxSequence]
  /\ page \in SUBSET (1..MaxSequence)
  /\ pageFull \in BOOLEAN
  /\ stream.phase \in {"closed", "awaiting_hello", "active", "terminal", "refused"}
  /\ stream.cursor \in 0..MaxSequence

\* Whatever the hooks, the retention and a regeneration do between two reads of
\* the process, a receiver accepts what follows its hello: gaps join what was sent
\* before, events are consecutive, and only a spool that really has another
\* identity looks like one (stream_bridge against BridgeStreamValidator).
StreamIsAccepted ==
  channel # <<>> /\ stream.phase = "active" =>
    \/ Verdict(stream, Head(channel)) = "accepted"
    \/ Verdict(stream, Head(channel)) = "identity_mismatch" /\ stream.source # sourceId

\* A receiver is never told that an event is lost that it could still have: a
\* gap on its way names no sequence the spool stores under the identity the
\* stream began with (emit_gap_if_needed, the gap in front of a row).
GapsAreLost ==
  \A i \in 1..Len(channel) :
    channel[i].type = "gap" /\ streamSource = sourceId =>
      stored \intersect ((channel[i].after + 1)..channel[i].through) = {}

\* A process that runs keeps its receiver informed: it never goes on reading
\* without writing a frame and without coming to rest, where heartbeats are sent.
NeverSpins == []<>(stage \in {"off", "sleep"} \/ channel # <<>>)

\* All of them: what a receiver gets can be taken, and is true.
BridgeInv == TypeOK /\ StreamIsAccepted /\ GapsAreLost
===============================================================================
