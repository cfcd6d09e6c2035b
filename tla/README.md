# aizu in TLA+

Aizu tells a developer, on the desktop, what coding agents on this machine and on
SSH hosts are doing: agents call a hook, the hook appends an event to a spool, and
the desktop collects the spools, keeps a history, shows notifications and lets the
user answer an agent's request.  This directory models the way of an event from
the hook to the notification, the way of a decision back to the agent, and the
set-up that both depend on; it checks them on small instances, and proves for
instances of any size the safety of the two databases at the ends of the way, of
the two ways between them (through a bridge and through the local pipeline), of
the approvals and the banners, and of most of the smaller components.

    tlc -workers 2 -config MCDelivery.cfg MCDelivery      # a run
    tlapm DesktopStore_proofs.tla                         # a proof

`PROJECT.json` lists every run with its properties, a faulty variant of the model
for every property, the source lines each definition stands for, the hazards, the
findings and the theorems.

Paths below: *core* is `crates/aizu-core/src`, *cli* `crates/aizu-cli/src`, *tauri*
`apps/desktop/src-tauri/src`.

## 1. The system

| Part | State it keeps | Operations | Interacts with |
|---|---|---|---|
| Hooks (cli `main.rs`, core `adapter.rs`, `event.rs`, `approval.rs`) | none; one process per call | `run_hook_command`: read, adapt, redact, ask, record, answer | called by an agent; spool, broker |
| Event spool (core `spool.rs`) | one SQLite database per user: `source_id`, `high_watermark`, `last_maintenance_at`, rows of events, identity history; `maintenance.lock`; backups | open, `emit`, `maintain`, `regenerate_identity`, `snapshot`, `events_after`, `doctor` | written by hooks, read by bridges and by the local poll; nobody coordinates them but SQLite and the lock file |
| Bridge (cli `main.rs`) | cursor and identity of one stream | `run_bridge_command`, `stream_bridge` | reads a spool, writes frames to standard output, that is to an SSH connection |
| Protocol (core `protocol.rs`) | decoder buffer; validator phase, cursor, required gap | `FrameDecoder::push`, `BridgeStreamValidator::accept` | used by the remote consumer |
| Remote consumer (core `remote.rs`, `ssh.rs`, tauri `remote_worker.rs`) | per source a thread, a child process, a validator; a bounded channel of updates | `accept_frame`, `bridge_once`, `run_remote`, `RemoteFleet::sync` | desktop store; started and stopped by the poll |
| Local pipeline (core `pipeline.rs`, `notification.rs`) | none of its own | `ingest_spool`, `dispatch_outbox`, `NotificationPolicy::decide` | spool, desktop store, notifier |
| Desktop store (core `desktop.rs`) | source settings (pin, cursor), history, gaps, tombstones, checkpoints, outbox | `register_source`, `pin_source`, `replace_source`, `release_source_identity`, `ingest_event`, `record_gap`, `finish_outbox`, `defer_outbox`, `requeue_permission_suppressed`, `maintain_history`, `clear_history` | called by local poll, remote threads and user commands |
| Approval broker and client (tauri `approval_broker.rs`, cli `approval_client.rs`) | one pending request, its waiting hook, handler threads | accept, decide, expire, disconnect, shut down | a Unix socket from hooks; banner; user |
| Banner and notifier (tauri `banner.rs`, `notifier.rs`) | queue of at most three banners and one approval, generations, tokens; registry of clicks | push, present, acknowledge, dismiss, activate | web view, broker, dispatcher |
| Settings and views (tauri `state.rs`, `store.rs`, `commands.rs`) | settings in memory and on disk, offered identities, a view of every source and agent | add, remove, reconnect, confirm, preferences, onboarding | everything in the desktop |
| Worker and shutdown (tauri `worker.rs`, `lib.rs`) | probes and inspections in flight | poll every 250 ms; stop | pipeline, fleet, agent monitor |
| Subprocesses (tauri `ssh_connection_test.rs`, `process_monitor.rs`, `cli_diagnostic.rs`, `terminal_activation.rs`) | one child and the readers of its pipes | run, wait, stop, classify | operating system |
| Installers (core `hook_install.rs`, `integration.rs`, `install.rs`) | configuration files of the agents, installed executable | merge, compare, replace by rename | editors and agents that ignore the lock |
| Agent monitor (core `agent_monitor.rs`, tauri `process_monitor.rs`, `state.rs`) | status and time stamp of each agent | snapshot, merge with the history | process table, history |
| Window and tray (`App.tsx`, tauri `tray.rs`) | the view shown, a generation | apply a response or a push | commands, worker |

What is hard in it:

- **Concurrency without a coordinator.** Hooks are short-lived processes; several
  write one spool while readers issue one SELECT after another, each in its own
  transaction, and a regeneration swaps the identity beneath all of them.
- **Ordering and loss.** Sequences are assigned under a watermark, rows disappear
  by retention, clocks may be set back, connections lose what is on its way. A
  hole must be announced exactly once, as a gap that joins the cursor.
- **Copies of one fact.** A cursor is in memory (validator), in the store
  (setting) and in the checkpoint of the identity; a setting in memory and in its
  file; a banner in a queue, in the web view and in the registry of requests.
  Each is read at one time and used at another.
- **Threads that outlive what they work for**: a thread of a removed source, a
  probe of a lost connection, a presentation of a banner that was replaced, a
  wait for a request that was withdrawn.
- **Crashes, errors and restarts** between any two steps: of hooks, of bridges, of
  the desktop, between a backup and its commit, between a staged file and its
  rename, between a notification and its mark.
- **Timeouts that race answers**: the decision of a user, the exit of a
  subprocess, what ssh says on standard error.

What makes each part correct:

- hook: a failure stops no agent; a decision is printed only for a question that
  was recorded; a question is announced by the dialog or by the notification;
- spool: one identity for all its rows; sequences handed out once; an identity is
  replaced only when its rows are gone or saved; a snapshot's range of lost
  sequences holds nothing that is stored; no call waits forever;
- bridge: its receiver accepts everything after the hello; gaps name only what is
  gone;
- desktop store: the cursor is the position of the identity, whoever had it
  before; a repeated event or gap is recognised; each sequence is received or
  lost once, in order; an undecided notification is never dropped;
- one source end to end: nothing stored is written off, memory and database
  agree, and each event arrives, is recorded as lost, or the user is told why not;
- notifications: what is owed is decided, shown once, on time and not in quiet
  hours; the window shows the queue in the end; a click opens what it was
  sent with;
- approvals: each request is in one place, dialog or terminal, and each hook
  hears something;
- settings and installers: a choice that was saved stays, trust is earned, and a
  foreign edit or tool is never overwritten.

## 2. Modules

| Module | Role | Source |
|---|---|---|
| `Retention`, `RetentionLoop` | which rows one batch removes; the loop that removes them | core `spool.rs` 461-560 |
| `SpoolLog` | abstract: a log under one identity | |
| `Spool` | processes, lock file, transactions; implements `SpoolLog` | core `spool.rs` |
| `Components_proofs` | theorems about `HookInstall`, `OutboxSchedule`, `HookCommand`, `StoreOpening`, `RetentionLoop`, `Spool` and `AgentExcerpt` | |
| `StoreOpening` | first opening and migrations of both databases | core `spool.rs`, `desktop.rs` |
| `DeliveryLedger` | abstract: received, lost, owed | |
| `DesktopStore` | the desktop's database; implements `DeliveryLedger` | core `desktop.rs` |
| `DesktopStore_proofs` | theorems about `DesktopStore` | |
| `BridgeStream`, `FrameStream` | frames and the validator; the bytes they come in | core `protocol.rs`, `remote.rs` |
| `Bridge` | the bridge process over a `SpoolLog` | cli `main.rs` |
| `Bridge_proofs` | theorems about `Bridge` | |
| `RemoteDelivery` | `Bridge` + consumer + thread + poll + user + `DesktopStore` | core `remote.rs`, tauri `remote_worker.rs`, `state.rs` |
| `RemoteDelivery_proofs` | theorems about `RemoteDelivery`, `SshJudgement` and `FrameStream` | |
| `SshJudgement` | what a host's exit and words are taken for | core `ssh.rs`, tauri `remote_worker.rs`, `ssh_connection_test.rs` |
| `LocalPipeline` | `SpoolLog` + poll + dispatcher + `DesktopStore` | core `pipeline.rs`, tauri `state.rs` |
| `LocalPipeline_proofs` | theorems about `LocalPipeline`, `AgentStatus` and `ViewFeed` | |
| `OutboxSchedule` | one notification on its clock | core `notification.rs`, `desktop.rs` |
| `BannerBoard`, `Banner` | abstract queue of banners; its threads, which implement it | tauri `banner.rs` |
| `BannerBoard_proofs`, `Banner_proofs` | lemmas about the queue; theorems about `Banner` and `SourceFleet` | |
| `SystemNotices` | notices of the operating system and their clicks | tauri `notifier.rs` |
| `ApprovalContract`, `Approval` | abstract: where a request is; hooks, broker and main thread, on a `BannerBoard` | tauri `approval_broker.rs`, `commands.rs`, cli `approval_client.rs` |
| `Approval_proofs` | theorems about `Approval`, `AgentSetup`, `SystemNotices` and `HookMerge` | |
| `SourceFleet` | settings, threads, probes, channel, shutdown | tauri `state.rs`, `remote_worker.rs`, `worker.rs`, `lib.rs` |
| `BoundedProcess` | one child with pipes, signals and a time limit | tauri `ssh_connection_test.rs` and three others |
| `HookCommand` | one run of `aizu hook` | cli `main.rs`, core `approval.rs`, `adapter.rs` |
| `AgentExcerpt` | the redaction of an agent's text | core `adapter.rs`, `notification.rs` |
| `HookInstall`, `HookMerge` | files, lock and renames; groups and handlers | core `hook_install.rs`, `integration.rs` |
| `AgentSetup` | settings file, CLI tool, hooks and what is shown of them | tauri `state.rs`, `store.rs`, `commands.rs`, core `install.rs` |
| `AgentStatus` | what is shown of one agent | tauri `state.rs`, `process_monitor.rs` |
| `ViewFeed` | how views reach the window and the tray | `App.tsx`, tauri `commands.rs`, `worker.rs`, `tray.rs` |
| `MC*` | constants for TLC, and unions of small components | |

Four abstract specifications keep the composed modules small. `Spool` is shown to
implement `SpoolLog`; `Bridge` and `LocalPipeline` read a `SpoolLog`, so what they
show holds for the spool. `DesktopStore` implements `DeliveryLedger`;
`RemoteDelivery` and `LocalPipeline` extend `DesktopStore` and take its actions
where the code calls the functions. `Banner` implements `BannerBoard`, and
`Approval` is built on that board. `Approval` implements `ApprovalContract`.

### Retention, Spool, StoreOpening

A row is its identity, sequence, `insertedAt` and size. `RetentionBatch` states
the set a batch removes; `RetentionLoop` is the code's loop, one action for a SELECT
and its DELETE, with the counts it takes down by hand (`remainingEvents`,
`remainingBytes`) and a ghost of the table it began with. Bytes are counted as a set
of pairs of a row and a number, which the provers can reason about. In `Spool` every process is at a label between two points where
another can run: the probe of the lock file, the start of a write transaction,
its commit, each SELECT outside of a transaction. What a transaction writes
becomes visible at its commit, so `Insert`, `Prune` and `ReplaceIdentity` are
commits, and `Crash` at any label rolls back and releases the locks. `emit` runs
the retention first when it is due, probes the lock before its transaction and
again in it (`ProbeMaintenanceLock` at two labels), as the code does.
`regenerate_identity` takes the lock, waits for the writers (`Barrier`), counts,
saves and replaces. `StoreOpening` is what comes before: version checks outside
the transaction, the switch to WAL that SQLite may refuse, the exclusive
transaction, and the check after it.

### DesktopStore

Each function is one IMMEDIATE transaction and therefore one action.
`IngestResult` and `GapResult` are the verdicts a caller branches on; the actions
are what the function does when it succeeds. Retention may prune any settled
event, any gap warning and any tombstone: ages and sizes are left open, which
covers every policy and `clear_history`. `received` and `lost` are history
variables.

### BridgeStream, Bridge, FrameStream

A frame keeps what the validator decides by. `Bridge` follows `stream_bridge`:
`stage` is the place in the loop, `statement` the SELECT that runs next, `seen`
what the snapshot has read so far. Between any two of them the spool may take an
event, lose rows or change its identity. Rows are written one by one, each behind
the gap in front of it (`WriteEvent`); with a full page the loop goes round
(`EndPage`), otherwise `CheckForMore` decides between another page and `Sleep`.
`Break` cuts the channel anywhere. On its own, `Bridge` has a receiver that is
only the validator. `FrameStream` has the bytes: a byte is LF, CR or another one,
and ssh delivers them in pieces of any size; `IsDecoded` says of a stream, as a set of
lines between line feeds, what a decoder has to make of it, and does not know of
pieces.

### RemoteDelivery, SshJudgement

`AcceptFrame` is `accept_frame`: verdict of the validator, then the store, then
the validator's new state; an error stops the thread (`Park`) or makes it go round
(`Retry`). `SyncFleet` is the poll's comparison of generations. The four commands
of the user run in any order, and `RestartDesktop` keeps only what the settings
file and the database hold. A thread offered a new identity publishes it at once;
in the code the offer waits for the next poll, which only delays the user
(`SourceFleet` has the delay). `reconnect_all_remote_sources` is, for one source,
`ReconnectRemoteSource` unless a confirmation is pending. `AcceptReplay` is a
defence of the code: an intact bridge never sends a sequence its stream is past.
`RemoteDelivery` chooses between `Park` and `Retry` freely where the code looks at
standard error; `SshJudgement` has how it chooses.

### LocalPipeline, OutboxSchedule

`stage` follows a poll through `ingest_spool` (the statements of the snapshot,
pages, the gap in front of a page's first row) and `dispatch_outbox` (the
collection of a batch, individual notifications or one summary, the drain). SSH
events arrive during the dispatch; `Interrupt` ends a poll at any step, which
is a crash as well as a failing call. `OutboxSchedule` gives one entry real times:
quiet hours around midnight, stamps of a clock that is off, delays between
attempts.

### BannerBoard, Banner, SystemNotices, ApprovalContract, Approval

`Banner` has the mutexes and atomics of the queue (`dirty`, `scheduled`, backoff,
generation, pending sound) and the places `at[t]` where each thread is between
them; the main thread presents. `Approval` has one handler thread per hook, with
the places between registration, presentation, wait, clean-up and reply; the
channel of a wait keeps whichever of decision and cancellation came first.
`surface` of `ApprovalContract` says where a request is: with the agent, in the
dialog, decided, in the terminal.

### SourceFleet, BoundedProcess

`SourceFleet` has the commands under the lock of the application, the turn of the
worker in three parts (sync, drain, probes), a thread per source with the reports
it wants to make, the bounded channel, and the two halves of the shutdown. The
history variable `afresh` marks the sources whose connected view was started
afresh because another source came or went (`sync_remote_source_views`): they keep
their agents and their epoch, so `AgentsBelongToConnection` excepts them until the
epoch moves. With the one source of the run there are none.
`BoundedProcess` has the four ways the desktop runs a command: `runner` tells
them apart, `place` is the caller, `reader` the thread that captures the output.

### HookCommand, AgentExcerpt, HookInstall, HookMerge

`HookCommand` keeps of a payload what decides how the run goes on, and calls the
broker and the spool by their outcomes. `AgentExcerpt` has tokens with a class
(sensitive key, separator, value), and the state the code carries between them;
what looks like a credential is given with the token. `HookInstall` has the disk
beside the file system (what a loss of power may leave), the staged file, the
comparison before the rename, and the lock; `HookMerge` has what the merge puts
into a configuration.

### AgentSetup, AgentStatus, ViewFeed

`AgentSetup` has the settings file of the present, an earlier or a later release,
the commands in their steps (change in memory, stage, rename, undo), the tool and
the hooks that others may change, and the inspections whose answers arrive later.
`AgentStatus` has time stamps from clocks that differ. `ViewFeed` numbers the
states of the application, and says which number is on its way and in the window.

## 3. Runs

| Run | Shows |
|---|---|
| `spool` | a hook, a regeneration and a reader with crashes: one identity, nothing unsaved lost, `SpoolLog` implemented, what the reader takes for lost is lost; lock file and database lock block no call forever |
| `desktop` | positions, replays and `DeliveryLedger` through any order of calls; a batch of retention is the loop's, cuts a head of the log while clocks are ordered and is called for only when it finds a row; openers agree on one identity and upgrades are whole; a notification is tried at its times; a status follows the newest stamp and questions; a text is shown as recorded and prose is left alone; clicks open their own; a response replaces nothing newer |
| `bridge` | what a bridge sends is accepted, and its gaps are losses; end to end nothing stored is written off, cursors agree and the stream fits the store; frames do not depend on the pieces; a thread waits for the user only for what the user can mend, or looks like it |
| `delivery` | with removals, additions, reconnections and restarts, each event arrives, is recorded as lost, or the source is gone or stopped with a reason to show |
| `pipeline` | announced once, a batch is complete, a local loss is real; what is owed is decided, and every local event is taken in or accounted for, while the local spool can be taken in |
| `banner` | sounds and claims belong to their banners; `BannerBoard` implemented; the window follows the queue, unless presentation has given up or a refused request has overtaken it |
| `approval` | no banner without a request, none when approvals are off, a decision only for what was seen; `ApprovalContract` implemented; every hook is answered |
| `fleet` | agents and offers belong to the connection they came from; views settle and the shutdown ends; a subprocess has an answer, a whole one, and is gone |
| `install` | configurations are whole, edits before the last comparison survive, success means the hooks are there; an error can be repaired by trying again; a merge leaves other people's groups alone and ends with one of its own; a hook is honest about what it recorded and asked |
| `setup` | a saved setting stays, a choice is kept, trust is earned, settings of a later release and foreign tools are left alone; what is shown of tool and hooks catches up |

Four runs check several components that share no state. `part`, a variable of
the MC module, says which of them a behaviour follows, and the others stay in
their first state; each property is about one of them and is trivially kept by
the rest. The unions only save configurations; every component can be run on its
own by its specification (`Schedule`, `Opening`, `Frames`, `Judgement`, ...).

A folded property (`DeliveryInv`, `PipelineInv`, `ApprovalInv`, `BannerIsOwn`,
`ViewsAreCurrent`, `InstallInv`, `SetupIsKept`, ...) is the conjunction of the named
ones above it in its module. Each has a type invariant among its parts.

Runs that must fail, each a disagreement of code and documentation:

| Run | What TLC finds |
|---|---|
| `hook_permission` | the `?` of the approval request (cli `main.rs` 542) ends the run before the event is made: a permission request whose command or URL a dialog could not show whole is neither asked nor recorded, though `docs/mvp-design.md` 110 makes every one an event |
| `ssh_interruption` | a stream that ends without an error frame is tried again (`docs/mvp-design.md` 519), unless the host printed anything on standard error, such as a banner (tauri `remote_worker.rs` 452) |

Other disagreements have a configuration that reproduces them, without a run of
their own; TLC reports the property as violated:

| Configuration, module | Property | What it shows |
|---|---|---|
| `MCSpool.cfg` with this invariant, `Spool` | `IntactSpoolReadsClean` | a hook commits between two SELECTs of `snapshot`: an intact spool is reported corrupt (core `spool.rs` 117), which `docs/protocol.md` 165 reserves for failed verifications and the desktop does not retry |
| `MCBridgeSpin.cfg`, `Bridge` | `NeverSpins` | after a clock set back, retention may prune the newest rows first; the watermark stays ahead of the cursor and the loop goes round without a frame, heartbeat (`docs/protocol.md` 119) or pause (cli `main.rs` 827) |
| `MCDeliveryRemove.cfg`, `MCDelivery` | `NeverRefused` | a source removed and added again opens its stream at 0 while the hello moves the database cursor to the retained watermark (`docs/mvp-design.md` 429); a gap behind 0 is refused, and the source stops until the user reconnects it |
| `MCDeliveryRemove.cfg`, `MCDelivery` | `RemovedSourceIsReleased` | a source removed while its thread waits for the hello is pinned again by that hello (core `desktop.rs` 153) |
| `MCPipeline.cfg` with this property, `MCPipeline` | `RemoteIsDecided` | a local spool with another identity, or with a hole behind its oldest row, makes every poll fail before it dispatches (core `pipeline.rs` 56, 86; tauri `state.rs` 206, 231): what SSH sources owe is not announced either, though `docs/mvp-design.md` 499 has another worker send what the outbox holds |
| `MCBanner.cfg` with this property, `MCBanner` | `WindowFollowsRefusals` | a request that is refused because another one is on the queue has moved the generation: a presentation on its way draws nothing and no other follows (tauri `banner.rs` 142, 163, 640), though the comment at `banner.rs` 628 queues the current generation at once |
| `MCFleetAdd.cfg`, `SourceFleet` | `AgentsAreOfConnection` | with two sources, adding or removing one shows the other as waiting while the agents of its connection stay on show, and an answer that is on its way is still taken (tauri `state.rs` 888, 904); `docs/mvp-design.md` 594 shows agents again only after the source is back at Connected |
| `MCFleetAdd.cfg`, `SourceFleet` | `FleetSettles` | adding a source starts the view of every source afresh, and one that waits for a confirmation is shown without its button (tauri `state.rs` 888; `docs/mvp-design.md` 1313) |
| `MCApproval.cfg` with `MayBeLate` TRUE, `Approval` | `OneSurface` | a decision at the deadline is reported as taken while the hook has gone to its terminal (tauri `approval_broker.rs` 352; `docs/mvp-design.md` 753) |

(`MCDeliveryRemove.cfg` and `MCFleetAdd.cfg` have two such properties: `tlc -continue`
shows both.)
One more follows from a theorem: replacing a source by an identity the desktop has
met resumes at its watermark (`CursorsKeepPosition`), where `docs/protocol.md` 90
says 0. The code's behaviour is what `DeliveryLedger` needs.

Three more are stated in their modules, and hold for no configuration in which
their case occurs: `BacklogExpires` (`OutboxSchedule`: an old completion is
announced when its source's clock is mistrusted; `docs/mvp-design.md` 659),
`StatusReportsPresence` (`HookMerge`: the status wants every handler, the comment
at core `integration.rs` 68 speaks of presence) and `NewerIsKept` (`ViewFeed`: two
pushes may be delivered in the other order).

### Bounds

- *Events per identity* (`MaxSequence`): two or three. Two rows are needed for a
  hole at either end, three for a hole between two events, which `bridge` has;
  the end-to-end parts use two. In `Spool` and `DesktopStore` the bound is also
  the largest integer, so that the end of the sequence is reached.
- *Identities*: two, for a change and the return of an old one. *Settings*: two in
  `desktop`, for the competition for one identity; one elsewhere, since settings
  meet only in the store and in the views.
- *Processes*: one of each kind in `spool`, and a hook that calls again and again;
  the interplay that matters is between kinds, since SQLite keeps transactions of
  the same kind apart, and the theorems cover any number. Three openers in
  `StoreOpening`: one that commits, one that waits, one that comes later.
- *`PageSize`*: 2, so pages end full, partly filled and empty. *`MaxInFlight`*: 3
  frames in `bridge`, where what is on its way is the question; a hello with its
  gap needs two. One in `delivery`, whose question is what becomes of an event.
- *`MaxRegenerated`*: how often the spool gets another identity, beside the number
  of identities there are: one change in `delivery` and `pipeline`. In `pipeline`
  every poll fails after it (`IdentityRefused`; section 5), so `OwedIsDecided` and
  `LocalIsAccounted` except what can no longer be reached.
- *`OneTrouble`* (`MCPipeline`): a behaviour has a fault or a hole in the local rows.
  A hole takes three rows, and the third one comes while nothing is owed; the SSH source
  and everything else go on with the hole there, and after it was pruned away.
- *`FirstIsFirst`* (`MCBanner`): two requests, of which the second is refused, and two
  other banners, of which the second evicts the first; the ids of a kind differ in
  nothing, and the first banner has the first of them.
- *`MaxBreaks`*, *`MaxChanges`*: one broken connection or restart and one or two
  commands, enough for remove-then-add.
- *`MaxAttempts`*, *`MaxPassive`*, *`Capacity`*, *`MaxActivations`*, *`MaxHandlers`*: the
  limits of the code (5, 3, 32, and so on) at the smallest value that is reached
  and passed in the run; nothing but a comparison depends on them.
- *`MaxFaults`*, *`MaxFailures`*, *`MaxMishaps`*, *`MaxCrashes`*, *`MaxTouches`*,
  *`MaxClaims`*, *`MaxRedraws`*, *`MaxProbes`*: one or two, what the environment may
  do to one behaviour; two where a failure during the recovery from another one
  is the case of interest.
- *`MaxTime`*, *`DayLength`*: a day of four minutes and three of them, so that every
  quiet interval, around midnight too, is met by a retry.
- *`MaxGroups`*: two groups per event, one before or behind that of Aizu.
- *Texts*: every class of token in texts of three, those that carry an expectation
  in texts of five (a label, two fillers and a value), blocks in four lines, and a
  key, a block and a value on three lines.
- *`MaxBytes`*, *`MaxPiece`*: seven bytes in pieces of up to four with frames of two:
  a limit can be passed inside, at and across a piece.
- *`OrderedClock`*: FALSE lets the retention take any rows; TRUE takes the lowest
  sequences first, which `LeavesSuffix` derives from clocks that are not set back.
  `bridge` has FALSE, and `pipeline` lets the retention take any rows; `delivery` has
  TRUE, and `MCBridgeSpin.cfg` shows what happens otherwise.
- *`QuickHands`* FALSE: nobody removes and adds a source within one poll of
  250 ms. With TRUE the thread of the removed source is taken for the new one's, and
  what it offers was not presented to the source that is there now. `ViewsAreKept` has
  the same hypothesis.
- *`MayBeLate`* FALSE: no decision arrives in the moment of the deadline;
  with TRUE `OneSurface` is violated.

Deadlock checking is on in `spool`, and off where the model really may stop: the
bounded events, breaks, texts, faults and commands are used up, a process has
ended, or the desktop is gone.

### Fairness

- `spool`: a call that has started goes on. SQLite's busy timeout and the
  try-locks end every wait; starting calls is not fair.
- `delivery`: the poll comes around every 250 ms, a thread that is not parked goes
  on, the bridge runs; and `SF` on a start that succeeds, since the spool is
  unavailable only while another process holds it. The user, the hooks, retention
  and failures are not fair.
- `pipeline`: a poll goes on and comes again; `SF` on time passing between polls,
  which they cannot prevent for ever.
- `banner`: each thread leaves its critical sections, the worker asks again every
  250 ms, the main thread runs what it was given, and a backoff ends.
- `approval`: a handler goes on (its wait has a deadline), and the main thread
  does. The user is not fair.
- `fleet`: the turns of the worker, threads and probes, which have timeouts.
  `BoundedProcess`: the caller polls and time passes; the child need neither write
  nor exit, and `CallEnds` excludes a descendant that holds the pipe for ever.
- `install`: an installer that is running goes on, and one that failed is started
  again: `RetryRepairs` is a promise to a user who retries.
- `setup`: commands end, inspections are repeated, and `SF` on a turn of the
  worker that has an answer, since a turn takes the lock between commands.

## 4. Proofs

Assumptions are the named ones in the modules (constants of the right kind,
disjoint roles, `NoSource` and `NoProc` outside the sets, at least one body of an
event, an event for every identity and sequence); TLC evaluates them on every run.
`Bridge` has its own as the operator `BridgeConstants`, which `BridgeIsTrue` states
as a hypothesis, because `RemoteDelivery` instantiates the module.

**Spool** (`Components_proofs`, any number of processes, identities and events):
`TypeCorrect`, `EventsKeepIdentity`, `RegenerationSaves`, `SnapshotIsSafe`,
`SpoolImplementsLog`. None of the properties is inductive. That a row has the
identity of the spool depends on no writer being between its last probe and its
commit while a regeneration commits. `Inv` therefore adds: who is in a transaction
holds the database lock and a regeneration holds the lock file (`LocksHeld`);
behind the barrier no writer is about to commit (`Quiesced`); what a regeneration
about to replace has counted or saved is still all there is (`Saved`). The barrier
is needed exactly for `Quiesced`: the faulty variant that skips it loses events. For
`SnapshotIsSafe` a second invariant relates what a reader has read so far to what
the spool can since have become. The refinement maps `stored` to the sequences of
the rows; every step is a step of `SpoolLog` or a stutter.

**DesktopStore** (`DesktopStore_proofs`, any settings, identities and events):
`TypeCorrect`, `CursorsKeepPosition`, `ReplaysAreDuplicates`,
`StoreImplementsLedger`. The strengthening: the checkpoint of an identity bounds
everything stored of it (`Covered`), no two rows collide (`Apart`), pins belong to
registered settings, history has been received. From `Covered` follows the lemma
the rest hangs on, `KnownIsCheckpoint`: asking all four tables gives the
checkpoint whatever was pruned, so a setting that adopts an identity stands at its
position.

**Bridge** (`Bridge_proofs`, any identities, events, page size and frames on their
way, with retention in any order): `BridgeIsTrue`, that is `StreamIsAccepted` and
`GapsAreLost`. Both speak of the frame a receiver gets next, and become inductive
only when they speak of all that are on their way: each frame leads the validator
from where the frames before it leave it, and the last one to where the process
stands (`Leads`); while the spool still has the identity the hello named, each is
true (`FrameIsTrue`); and what the process has read bounds what the spool can have
become between its SELECTs (`Reading`). A page that is read after the watermark,
and the gap in front of its first row, are the cases that need `Reading`.

**RemoteDelivery** (`RemoteDelivery_proofs`): `FramesStayTrue`, `LossesAreReal` and
`DeliveryIsRight`, that is the whole of `DeliveryInv`, through broken connections,
restarts and every command of the user. The invariants of `Bridge_proofs` and
`DesktopStore_proofs` are kept by lemmas on single steps that leave open who
receives and who calls. What joins the two is that the identities the desktop has
pinned or offers were announced by the spool, so neither can come back to it
(`Traced`); that a running stream, its setting and its offer belong together
(`Steady`); and that what was recorded as lost stays lost (`LostIsGone`). The
properties about the cursors and about refusals have `~MayRemove` as their
hypothesis, as in the runs: with removals they are false, as
`MCDeliveryRemove.cfg` shows. The proof found that two
arms of the CASE in `AcceptFrame`, for an event the stream is past and for the
verdicts of the validator, overlapped: TLC takes the first, TLA+ may take either.
The code looks at the replay first, and so does the model now.

**LocalPipeline** (`LocalPipeline_proofs`): `PipelineIsRight`, the whole of
`PipelineInv`, for any number of identities, attempts, faults and notifications in
a batch. The reader's half needs that a snapshot, read in three SELECTs, bounds
what can still be stored under the identity it read (`Snapshot`), and that losses
belong to identities the spool has had (`LostIsGone`). The dispatcher's half is a
count: an entry that could still be shown was shown no more often than there were
faults, unless the batch on its way has just shown it (`Counted`); and such an
entry stays in the window of that batch, so that the drain settles it before the
poll ends (`Batch`). That a second notification needs a fault follows.

**Approval** (`Approval_proofs`, any number of requests): `ApprovalIsRight`, the
whole of `ApprovalInv`, and `OneSurfaceHolds`, that `Approval` implements
`ApprovalContract` when `MayBeLate` is FALSE. The invariant says where each part of
a request can be: a banner only while its handler is going to dismiss it
(`QueuedAreAtWork`); something in the channel only when the registry has given the
request up, for good (`SentAreOver`); while approvals are off, a registered request
only in front of the reading of the setting (`OffIsToBeRead`), which is why the
order of `handle_connection` matters; and every mark, and all that is said from
it, is of something that was shown (`SaidIsSeen`). For the refinement it adds that
a hook waits as long as its request can be answered (`HooksWait`, which a late
request breaks) and that a decision on its way is the user's
(`DecisionsAreTheUsers`). The steps of a handler are first summed up as one action
(`StepsOfHandler`), from which both results are proved.

**Banner** (`Banner_proofs`, any number of threads, ids, shows, claims, failures and
attempts from two on): `BannerIsBoard`, that every step of the threads is a step of
`BannerBoard` or none, so that what `Approval` shows on that board holds for the
banners; and `BannersAreOwn`, the whole of `BannerIsOwn`, with `ActivationsAreCurrent`
for its action property. The invariant has four parts, and for each the steps are
first reduced to what they do to it (`BoardStep`, `ClaimStep`, `ChangeStep`,
`SoundStep`). The queue stays orderly (`QueueIsOrderly`), which `BannerBoard_proofs`
shows of `Put`, with the eviction, and of `Without`. A claim is at most the last token
and is on a banner of the queue (`ClaimsAreQueued`), so a thread whose claim is still
current has its own banner there (`CurrentIsQueued`): it is because `push` drops the
claim on what it replaces. Versions above the last one shown are unheard
(`SoundsAreShown`). One presentation is under way at most (`OnePresents`), and while
it is, `dirty` is only set by who has set the attempts to none under the lock that
counting one takes (`LockIsHeld`, `AttemptsAreLeft`); so the attempts never pass
`MaxAttempts`. With `MaxAttempts` = 1 they would: a change between the two halves of
`finish_presentation` is counted against, and given up, at once. The code has 5
(tauri `banner.rs` 29), and the assumption asks for two. `BannerBoard` writes its
filters with `At`, a function on the places that stay, because the provers have no
fact about SelectSeq; `PlacesAreRanked` is the counting argument it needs.

**HookInstall** (`Components_proofs`, any number of installers, agents and edits):
`InstallIsSafe`, the whole of `InstallInv`. What has to be carried through the loop of
an installer (`InstallerKeeps`) is that each configuration behind it was written or
needed no writing, each one ahead was planned from what it read, and at the rename
every saved edit that the staged file lacks is one that came after the comparison
(`late`). A loss of power chooses from `disk`, the set of contents a file may have on
the disk: all of these are whole, since the staged file is synchronised before its
rename.

**OutboxSchedule** (any delays, limits and quiet hours): `ScheduleIsRight`. The action
property about retries needs that an entry's time is the end of the delay that
belongs to the number of its failures (`ScheduleInv`).

**HookCommand**: `HooksAreHonest`. At each stage what is drafted, asked and decided is
what the payload and the answer that was heard say (`HookRunInd`); what is printed,
recorded and exited with follows at the end only.

**StoreOpening** (any number of openers, and any version of the database):
`OpeningsAreWhole`. `OpeningInd` keeps, beside the content of the database (`Whole`),
what each opener has seen at its place (`Prepares`): who has checked the version
may find a later one in its transaction, and who has opened has the identity that is
there. `OpeningAssumption` keeps the absent identity apart from the openers.

**RetentionLoop** (any table whose rows have a sequence each, any limits and cutoff, any
size of a batch): `BatchesAreRight`, so that `Spool`, which prunes by the set, prunes
what the code does. In the middle of a batch what is gone is an initial part of the
table in the order of the query, every row of it was due when it went, and the counts
are still those of the rows (`GoneAreFirst`, `CountsAreRight`). That no later row was due
needs that the limits are monotonic (`LimitsGrow`), and that a batch which is asked for
finds a row needs a first one in that order (`FirstIsFirst`, by the least element of a
set of numbers).

**SshJudgement** (`RemoteDelivery_proofs`): `HostsAreJudged`. The host may change between
two looks, so what a verdict can rest on is what the thread met on its way to
where it stands (`ThreadKnows`) and what the test has tried (`TestKnows`); neither is
implied by the state of the host at the end.

**AgentStatus, ViewFeed** (`LocalPipeline_proofs`): `StatusIsTrue`, for any processes and
clocks, from `StatusInd`: no status has a time beyond the largest stamp that was
taken in, and who is shown as running is in the snapshot, or has ended in the one
being applied. `FeedIsCurrent`, for any number of calls, from `FeedInd`: a call whose
generation is still the window's has a view no older than the window's, because each
push that is shown raises the generation.

**SourceFleet** (`Banner_proofs`, any number of sources, any capacity of the channel):
`ViewsAreKept`, the whole of `ViewsAreCurrent`, if `QuickHands` is FALSE. `FleetInd` needs
that a probe of the present epoch was started in the present period
(`ProbesAreTimely`), which is where epoch and period have to move together; and
that what a thread has found, reported or offered was presented to the source that is
there now (`FoundArePresented`, `ToldArePresented`, `OffersArePresented`), which a source
removed and added again within one poll would break. The proof failed at first for
two sources: the views that `sync_remote_source_views` starts afresh are not
connected any more, and nothing moves their epoch. That is `AgentsAreOfConnection`
above, and the reason for `afresh`.

**AgentSetup** (`Approval_proofs`, any number of errors and changes): `SetupHolds`, the
whole of `SetupIsKept`. `SaveIsOn` says where a save is: what is staged is what memory
has, and the file is what it was before until the rename and memory's after it. A
choice that was answered is then the file's, unless the command that changes it is
under way (`ChoiceIsStored`); a trust in the file was confirmed or is being withdrawn
(`TrustIsStored`).

**SystemNotices** (`Approval_proofs`, any number of notices, hashes and entries):
`ClicksStayOwn`. The order of the registry lists its entries, each under its token,
through each removal (`OrderIsThinned`, on the ranking of `BannerBoard_proofs`) and each
replacement (`ReplacedKeeps`), so the number of entries is the length of the order and
the oldest to go are at its head. That a click opens its own needs what is between
`replace` and the answer of `send` too (`SendingIsOwn`). `Retained` writes `retain` like
`At`.

**FrameStream** (`RemoteDelivery_proofs`, any limit of a frame, any stream, any size of
a piece): `PiecesAreDecoded`. The invariant adds to `IsDecoded` that the buffer is the
unfinished line while nothing was refused (`Decodes`). One more byte keeps it: one that
ends no line leaves the lines as they are (`OtherIsDecoded`), and a line feed adds one
line, behind all others (`FeedIsDecoded`), which is accepted if no line was bad and it
is not bad itself (`GoodGrow`). For the bytes of a piece a least place where the
invariant fails is refuted (`PieceIsDecoded`); `AfterIs` shows that the recursive function
of `PushStdout` exists.

**HookMerge** (`Approval_proofs`, any paths and any number of groups): `MergesAreOnce`.
The invariant says which groups a configuration can hold (`MergeInd`), and of these
each was made by others or by some version of Aizu, and never by both
(`ForeignOrGenerated`): what is taken out is all that Aizu made, and nothing else. That
the order of what stays is kept, and one group comes behind it, is `PickedAround`, on
the ranking of `BannerBoard_proofs`.

**AgentExcerpt** (`Components_proofs`, texts of any length over any alphabet):
`ProseStays`, that is `ProseIsKept`, one half of `ExcerptIsRight`. A word of prose hits
none of the rules, whatever may be awaited in front of it (`ProseTurn`), and only a key
at the end of a line makes the next line await something, which is given up unless a
separator comes first. What the loop over tokens (`LineIsKept`) and the one over lines
(`ExcerptIsKept`) have done is then a copy. The other half is not proved.

Only model-checked: every liveness property, which is outside the prover's reach
(`Delivered`, `OwedIsDecided`, `LocalIsAccounted`, `CallsEnd`, `AskedIsAnswered`,
`WindowFollows`, `FleetEnds`, `CallsAnswer`, `RetryRepairs`, `DiagnosticsCatchUp`);
and half of one safety property, `ShownAsRecorded` in `ExcerptIsRight`. That what was
masked is left alone the second time compares two runs of the loops, over texts of which
one may be shorter; an invariant would have to relate what each awaits after any part of
a line, with the looks ahead of both, for every pair of rules. Looking for that relation
showed that the two do not await the same behind the mask of a private key, or behind a
payload without its certificate: the property without its last exception is false for
texts of five tokens on three lines, which the run now has too.

## 5. What the models say of the code beside their properties

- *Pipeline.* Regenerating the identity of the local spool makes every poll fail at
  `pin_source` (SourceIdentityChanged) until the setting is replaced, and a hole in its
  rows makes every poll fail at `ingest_event` until the rows before it are pruned. The
  error ends the poll (tauri `state.rs` 206) before `dispatch_outbox` (231): notifications
  of SSH sources wait for the local spool as well. `OwedIsDecided` excepts exactly these
  states (`IdentityRefused`, `HoleRefused`). After a clock set back, the newest row that
  was pruned is never accounted for (`Unexplained`).
- *Banner.* A second request that is refused still moves the generation and
  does not set `dirty`, so a presentation already asked for is given up and none comes
  after it: the window stays as it was until anything changes the queue. In the whole
  program that is, at the latest, the dismissal of the first request by its handler. The
  ghost `refusal` marks these states, and `WindowFollows` excepts them. The refused push
  overwrites the pending sound. After five failed presentations nothing is tried
  until the next push.
- *Approval.* The time of a request starts when its handler has shown it (330-350),
  while the hook gives up 48 s after it connected. A decision is dropped when the
  hook then cannot write its event.
- *Fleet.* An addition that cannot be saved leaves a thread running without a
  setting until the next sync. A confirmation that fails has used up the offer.
  `set_remote_status` never clears `action_required`. A probe's epoch moves when
  the connection ends but not when it is replaced. A "Connected" that did not fit
  the channel leaves the view at reconnecting until the next report.
- *Installers.* A run that finds everything configured synchronises nothing, and
  the entry of a new directory is never synchronised. A handler of Aizu that
  somebody put into a group of their own stays, and a second one is added.
- *Setup.* Autostart changes before the setting is saved. A tool installed from a
  terminal after the start is shown as installed while the spool of the desktop
  stays closed (tauri `state.rs` 243). `integrations install` resets no trust; a
  restart after a failed reset brings the trust back.
- *Status.* Events taken in late never count; a question stays until a later event;
  an SSH source whose clock is ahead hides what comes after.
- *Subprocesses.* The join of a reader waits for the end of the pipe, which a
  descendant may keep open past every time limit. `run_preflight` classifies
  standard error before it has joined its reader.
- *Host.* A subprocess that cannot be started stops the thread in the preflight and
  is tried again as a bridge.
- *Excerpt.* A text that was masked once and passes again is left as it is
  (`ShownAsRecorded`), but for the exceptions its comment names (a mask of a private
  key or a URI behind the line of a key, certificates), for the cut at 240 characters
  and for collapsed blank lines. Where the mask of a private key stands between a
  key and what the key awaits, the first look passes over the block and the second
  takes the mask for the value, so a `bearer` behind it may be masked only in what is
  shown.

## 6. Not modelled, and why

- Wall-clock durations are nondeterminism everywhere but in `OutboxSchedule`: a
  timeout may come at any time. The length and jitter of the backoff are left out.
- Owners, permissions and symbolic links of files: each is checked before anything
  is written and refuses the operation.
- The order in which terminals are tried and what each is told
  (`terminal_activation.rs`), where files live (`paths.rs`), rendering: choices
  without a state that a property could relate.
- The JSON of events, frames, requests and configurations beyond what decides the
  flow; lexical classes of tokens.
- Threads and pipes that cannot be created, a main thread that takes no work, and
  the permission dialog of the operating system.
- In `StoreOpening`, the check of the version that every later call repeats outside
  of its transaction; in `Notifier`, platforms without a callback.

## 7. Plan

Every safety property of the runs is a theorem but half of one: `ShownAsRecorded` needs
a relation between the two runs of the redaction. The parts of the model to refine are
those that section 6 lists: several sources that share the bounded channel while they
stream, and platforms without a callback for notices.
