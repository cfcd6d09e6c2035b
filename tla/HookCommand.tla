----------------------------- MODULE HookCommand -----------------------------
(***************************************************************************)
(* One run of `aizu hook`, from the payload that the agent pipes in to the  *)
(* exit code (run_hook_command of crates/aizu-cli/src/main.rs): the request *)
(* for an approval (approval.rs), the event (adapter.rs, event.rs), the     *)
(* question to the desktop, and the spool.  Approval has the question       *)
(* itself, and Spool the write.                                             *)
(*                                                                         *)
(* Of a payload the module keeps what decides how the run goes on.          *)
(***************************************************************************)
EXTENDS Integers

VARIABLES
  call,                 \* the arguments and the payload
  stage,
  asks,                 \* is there a request for an approval
  draft,                \* the event to be written, or NoDraft
  heard,                \* ApprovalClientOutcome
  recorded,             \* the event in the spool, or NoDraft
  spoolFailed,          \* ghost: could the spool not take it
  printed, exitCode     \* the decision on stdout, and the exit code

hookRunVars == <<call, stage, asks, draft, heard, recorded, spoolFailed, printed, exitCode>>

Calls1 ==
  [agent   : {"claude-code", "codex", "generic"},
   event   : {"Stop", "StopFailure", "PermissionRequest", "question", "unknown"},
   strict  : BOOLEAN,
   json    : {"empty", "malformed", "object"},
   name    : {"same", "other"},       \* hook_event_name, against the argument
   fields  : {"fine", "wrong type", "reserved", "too long"},
   tool    : {"none", "wrong type", "Bash", "WebFetch", "other"},
   input   : {"none", "no target", "target", "refused"}]

NoDraft == [kind |-> "none", presented |-> FALSE]
Unheard == [presented |-> FALSE, decision |-> "none"]
Broken == [kind |-> "error", presented |-> FALSE]

FirstParty == call.agent # "generic"

InitHookRun ==
  /\ call \in Calls1
  /\ stage = "start"
  /\ asks = FALSE
  /\ draft = NoDraft
  /\ heard = Unheard
  /\ recorded = NoDraft
  /\ spoolFailed = FALSE
  /\ printed = "none" /\ exitCode = 0

-------------------------------------------------------------------------------
(* The payload *)

\* local_approval_request_from_hook: a tool it does not know asks for nothing, and
\* a target that cannot be shown whole is an error.
ApprovalRequest ==
  CASE ~FirstParty \/ call.event # "PermissionRequest" -> "none"
    [] FirstParty /\ call.event = "PermissionRequest" /\ (call.json # "object" \/ call.name # "same") -> "error"
    [] OTHER ->
         CASE ~(call.tool = "Bash" \/ (call.tool = "WebFetch" /\ call.agent = "claude-code")) -> "none"
           [] call.input \in {"none", "no target"} -> "none"
           [] call.input = "refused" -> "error"
           [] OTHER -> "request"

\* parse_hook of the two adapters.  "reserved" and "too long" are no errors here.
FirstPartyEvent ==
  IF \/ call.json # "object" \/ call.name # "same"
     \/ call.fields = "wrong type" \/ call.tool = "wrong type"
     \/ call.event \notin {"Stop", "StopFailure", "PermissionRequest"}
     \/ call.event = "StopFailure" /\ call.agent = "codex"
  THEN Broken
  ELSE [kind |-> IF call.event = "PermissionRequest" THEN "question" ELSE "completed",
        presented |-> FALSE]

\* parse_hook_event and reject_reserved_metadata; no payload is one without fields.
GenericEvent ==
  IF \/ call.event # "question" \/ call.json = "malformed"
     \/ call.json = "object" /\ call.fields \in {"wrong type", "reserved"}
  THEN Broken
  ELSE [kind |-> "question", presented |-> FALSE]

ParsedEvent == IF FirstParty THEN FirstPartyEvent ELSE GenericEvent

\* Without --strict an error is a line on stderr.
Fails ==
  /\ stage' = "done"
  /\ exitCode' = IF call.strict THEN 1 ELSE 0

\* Everything that is read and understood before anyone is asked.
Understand ==
  /\ stage = "start"
  /\ IF ApprovalRequest = "error" \/ ParsedEvent = Broken
     THEN Fails /\ UNCHANGED <<asks, draft>>
     ELSE /\ asks' = (ApprovalRequest = "request")
          /\ draft' = ParsedEvent
          /\ stage' = "understood"
          /\ UNCHANGED exitCode
  /\ UNCHANGED <<call, heard, recorded, spoolFailed, printed>>

-------------------------------------------------------------------------------
(* The desktop, and the spool *)

Presentable == [presented : BOOLEAN, decision : {"none"}] \union
               [presented : {TRUE}, decision : {"allow", "deny"}]

\* Faulty variant: the event is made up before the desktop has answered.
Ask_MarksNothing ==
  /\ stage = "understood"
  /\ heard' \in IF asks THEN Presentable ELSE {Unheard}
  /\ stage' = "asked"
  /\ UNCHANGED <<call, asks, draft, recorded, spoolFailed, printed, exitCode>>

\* approval_client::request and attach_local_approval_presented: no answer, or an
\* answer that is no answer, is none.
Ask ==
  /\ stage = "understood"
  /\ heard' \in IF asks THEN Presentable ELSE {Unheard}
  /\ draft' = [draft EXCEPT !.presented = heard'.presented]
  /\ stage' = "asked"
  /\ UNCHANGED <<call, asks, recorded, spoolFailed, printed, exitCode>>

\* normalize and validate, in emit: with a limit on each field.
Valid == ~(call.json = "object" /\ call.fields = "too long")

\* open_spool and emit, and hook_decision_output once the event is there.
Record ==
  /\ stage = "asked"
  /\ spoolFailed' \in BOOLEAN
  /\ IF spoolFailed' \/ ~Valid
     THEN Fails /\ UNCHANGED <<recorded, printed>>
     ELSE /\ recorded' = draft
          /\ printed' = heard.decision
          /\ stage' = "done"
          /\ UNCHANGED exitCode
  /\ UNCHANGED <<call, asks, draft, heard>>

NextHookRun == Understand \/ Ask \/ Record

HookRun == InitHookRun /\ [][NextHookRun]_hookRunVars

-------------------------------------------------------------------------------

\* A payload that the adapters understand.
Understood ==
  /\ FirstParty /\ call.json = "object" /\ call.name = "same"
  /\ call.fields \in {"fine", "reserved"} /\ call.tool # "wrong type"
  /\ call.event \in {"Stop", "PermissionRequest"} \/ (call.event = "StopFailure" /\ call.agent = "claude-code")

\* Whatever goes wrong: a failure stops no agent, unless it is to; a decision is
\* printed only when its question is in the spool, and is the one that was made; a
\* question is marked as seen exactly if the hook heard that a banner showed it, so that
\* it is neither announced twice nor, as far as the hook can know, not at all; and what is understood is recorded, when its target
\* can be shown and the spool works (run_hook_command).
HookIsHonest ==
  stage = "done" =>
    /\ exitCode # 0 => call.strict
    /\ printed # "none" =>
         /\ recorded.kind = "question" /\ recorded.presented
         /\ printed = heard.decision
    /\ recorded # NoDraft => recorded.presented = heard.presented
    /\ Understood /\ ~spoolFailed /\ ApprovalRequest # "error" =>
         recorded.kind = (IF call.event = "PermissionRequest" THEN "question" ELSE "completed")

\* docs/mvp-design.md:110: every PermissionRequest of the agents becomes an event.
\* One whose command or URL an approval would not show does not.
PermissionsAreRecorded ==
  stage = "done" /\ Understood /\ ~spoolFailed => recorded # NoDraft
===============================================================================
