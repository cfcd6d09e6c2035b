------------------------------ MODULE SshJudgement ------------------------------
(***************************************************************************)
(* What the desktop makes of an SSH host that may change at any time: the   *)
(* thread of a source decides after each attempt whether to try again or to *)
(* wait for the user (run_remote, bridge_once of remote_worker.rs), and the *)
(* connection test tells the user what it found (ssh_connection_test.rs).   *)
(* Both judge by the exit, by the output, and by what ssh left on standard  *)
(* error.  The frames of the stream and the cursor are in RemoteDelivery,   *)
(* the processes and their readers in BoundedProcess.                       *)
(***************************************************************************)
EXTENDS Sequences, SequencesExt

CONSTANT Noises         \* what ssh may say beside its errors: "none", "banner" or "flood"

VARIABLES
  world, noise,         \* the state of the host, and what its ssh always says
  thread,               \* where the thread of the source is
  met,                  \* what its present attempt met
  said,                 \* on standard error: kinds of lines
  test,                 \* where the connection test is
  tested,               \* the states of the host that its two commands met
  verdict               \* what it answered

jobVars == <<thread, met, said>>
testVars == <<test, tested, verdict>>
sshVars == <<world, noise, jobVars, testVars>>

(* The host.  A bad configuration fails in `ssh -G`, a conflict is in its output.
   "no process" is this machine: ssh cannot be started. *)

ConfigTrouble == {"bad config", "conflict", "slow config", "no process"}
Failing == {"unreachable", "refusing", "changed key", "no cli", "odd"}
Answering == {"fine", "busy", "old", "garbled"}
Worlds == ConfigTrouble \union Failing \union Answering \union {"hanging"}

\* What a failing command says: lines classify_ssh_failure tells apart.
Line(w) ==
  CASE w = "unreachable" -> "network"
    [] w = "refusing" -> "auth"
    [] w = "changed key" -> "host key"
    [] w = "no cli" -> "no cli"
    [] OTHER -> "other"

\* Only the first bytes are kept (BoundedBridgeStderr, run_bounded): after a flood
\* nothing else is.
Said(lines) ==
  CASE noise = "flood" -> {"other"}
    [] noise = "banner" -> {"other"} \union lines
    [] OTHER -> lines

\* classify_ssh_failure
Classify(lines) ==
  CASE "host key" \in lines -> "host key"
    [] "host key" \notin lines /\ "auth" \in lines -> "auth"
    [] lines \intersect {"host key", "auth"} = {} /\ "no cli" \in lines -> "no cli"
    [] lines \intersect {"host key", "auth", "no cli"} = {} /\ "network" \in lines -> "network"
    [] OTHER -> "other"

-------------------------------------------------------------------------------
(* The thread of a source *)

InitJob == thread = "dial" /\ met = {} /\ said = {}

\* The attempt ends: SshFailureCategory::retry_automatically.
Judged(retry) == thread' = IF retry THEN "waiting" ELSE "parked"

\* run_preflight and validate_preflight_output
Preflight ==
  /\ thread = "dial"
  /\ met' = {world} \intersect ConfigTrouble
  /\ CASE world = "bad config" -> Judged(Classify(Said({"other"})) = "network")
       [] world \in {"conflict", "no process"} -> Judged(FALSE)
       [] world = "slow config" -> Judged(TRUE)
       [] OTHER -> thread' = "open"
  /\ UNCHANGED <<world, noise, said, testVars>>

\* The bridge is started; a host that fails says why before it closes the stream.
\* ssh reads its configuration again.
Spawn ==
  /\ thread = "open"
  /\ met' = met \union ({world} \ Answering)
  /\ CASE world = "no process" -> Judged(TRUE) /\ said' = {}
       [] world \in Failing \union {"bad config", "conflict"} -> thread' = "closed" /\ said' = Said({Line(world)})
       [] OTHER -> thread' = "stream" /\ said' = Said({})
  /\ UNCHANGED <<world, noise, testVars>>

\* Faulty variant: what is on standard error is judged even if there is nothing.
Overridden_Empty == Classify(said) # "network"

\* retry_stderr_override
Overridden == said # {} /\ Classify(said) # "network"

\* The stream ends, or a time limit passes, without an error frame (finish_stdout,
\* timeout_at); what the process says at the end may name the network.
Interrupted ==
  /\ thread = "stream"
  /\ \E last \in {{}, {"network"}} : said' = said \union (IF noise = "flood" THEN {} ELSE last)
  /\ thread' = "closed"
  /\ UNCHANGED <<world, noise, met, testVars>>

\* Both readers ended, and the attempt is judged (bridge_once).
EndAttempt ==
  /\ thread = "closed"
  /\ Judged(~Overridden)
  /\ UNCHANGED <<world, noise, met, said, testVars>>

\* An error frame, or one the thread cannot accept: classify_remote_error,
\* reconnect_disposition.  The bridge names a busy spool on standard error, too,
\* which may or may not have arrived.
Refused ==
  /\ thread = "stream"
  /\ world \in {"busy", "old", "garbled"}
  /\ met' = met \union {world}
  /\ \/ world = "busy" /\ thread' = "closed" /\ said' \in {said, said \union {"other"}}
     \/ world # "busy" /\ Judged(FALSE) /\ UNCHANGED said
  /\ UNCHANGED <<world, noise, testVars>>

\* The delay has passed (run_remote); a user who reconnects gets a new thread.
Again ==
  /\ thread \in {"waiting", "parked"}
  /\ thread' = "dial" /\ met' = {} /\ said' = {}
  /\ UNCHANGED <<world, noise, testVars>>

-------------------------------------------------------------------------------
(* The connection test *)

NoResult == [status |-> "none", resolved |-> FALSE, reachable |-> FALSE, compatible |-> FALSE]

InitTest == test = "idle" /\ tested = << >> /\ verdict = NoResult

Result(status, resolved, reachable) ==
  [status |-> status, resolved |-> resolved, reachable |-> reachable, compatible |-> status = "compatible"]

\* failure_result
Failure(lines, resolved) ==
  LET category == Classify(lines)
  IN  Result(category, resolved, category \in {"no cli", "other"})

Answered(v) == test' = "done" /\ verdict' = v

Ask ==
  /\ test \in {"idle", "done"}
  /\ test' = "preflight" /\ tested' = << >> /\ verdict' = NoResult
  /\ UNCHANGED <<world, noise, jobVars>>

\* The first half of test_connection.
TestPreflight ==
  /\ test = "preflight"
  /\ tested' = <<world>>
  /\ CASE world = "bad config" -> Answered(Failure(Said({"other"}), FALSE))
       [] world \in {"conflict", "no process"} -> Answered(Result("config", FALSE, FALSE))
       [] world = "slow config" -> Answered(Result("timeout", FALSE, FALSE))
       [] OTHER -> test' = "call" /\ UNCHANGED verdict
  /\ UNCHANGED <<world, noise, jobVars>>

\* The second half, and parse_remote_status; ssh reads its configuration again.
TestCall ==
  /\ test = "call"
  /\ tested' = Append(tested, world)
  /\ Answered(CASE world \in Failing \union {"bad config", "conflict"} -> Failure(Said({Line(world)}), TRUE)
                [] world \in {"hanging", "slow config"} -> Result("timeout", TRUE, FALSE)
                [] world = "no process" -> Result("other", TRUE, FALSE)
                [] world = "old" -> Result("protocol", TRUE, TRUE)
                [] world = "garbled" -> Result("invalid", TRUE, TRUE)
                [] world \in {"fine", "busy"} -> Result("compatible", TRUE, TRUE))
  /\ UNCHANGED <<world, noise, jobVars>>

-------------------------------------------------------------------------------

HostChanges ==
  /\ world' \in Worlds \ {world}
  /\ UNCHANGED <<noise, jobVars, testVars>>

InitSsh == world \in Worlds /\ noise \in Noises /\ InitJob /\ InitTest

NextSsh ==
  \/ Preflight \/ Spawn \/ Interrupted \/ Refused \/ EndAttempt \/ Again
  \/ Ask \/ TestPreflight \/ TestCall
  \/ HostChanges

Judgement == InitSsh /\ [][NextSsh]_sshVars

-------------------------------------------------------------------------------

\* What a user can do something about, and what only looks like it.
UserTrouble == {"bad config", "conflict", "refusing", "changed key", "no cli", "odd", "old", "garbled"}
LooksLikeIt == {"no process", "busy"}

\* A thread waits for the user only if its last attempt met something that the user
\* can mend, or what looks like it; a silent end and a network failure are tried
\* again (retry_stderr_override).  It never tries again what it recognised.  A host
\* that always says something is always taken for one that the user must mend.
StopsForCause ==
  /\ thread = "parked" => met \intersect (UserTrouble \union LooksLikeIt) # {} \/ noise # "none"
  /\ thread = "parked" /\ noise = "banner" => met # {"unreachable"}
  /\ thread = "waiting" => met \intersect UserTrouble = {}

\* The test calls a host compatible only if both of its commands met one that was,
\* and blames the configuration only if it was bad.  What it calls reached was, unless
\* the reason was lost in what ssh said or names nothing (failure_result).
VerdictIsTrue ==
  test = "done" =>
    /\ verdict.compatible <=> Len(tested) = 2 /\ tested[2] \in {"fine", "busy"}
    /\ verdict.resolved <=> tested[1] \notin ConfigTrouble
    /\ verdict.reachable /\ noise # "flood" => Last(tested) \notin {"unreachable", "refusing", "changed key", "hanging"}

\* docs/mvp-design.md:519, an unexpected end of the stream and a network failure are
\* tried again; violated if the host says anything on standard error.
InterruptionIsRetried == thread = "parked" => met \intersect (UserTrouble \union LooksLikeIt) # {}

\* Both: what the desktop makes of a host, in the thread of a source and in the
\* test of a connection.
HostIsJudged == StopsForCause /\ VerdictIsTrue
===============================================================================
