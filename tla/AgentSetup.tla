------------------------------ MODULE AgentSetup ------------------------------
(***************************************************************************)
(* What the desktop knows about its own installation: its settings in      *)
(* memory and on disk (store.rs), the command line tool it installs        *)
(* (install.rs, cli_diagnostic.rs), the hooks of the agents and the trust  *)
(* Codex asks for (state.rs), and the diagnostics its worker collects      *)
(* outside the lock and applies under it (worker.rs).                      *)
(*                                                                         *)
(* Both agents are configured together here (HookInstall has the two       *)
(* files), so the status of Claude Code is that of Codex without the       *)
(* question of trust.  `job` is the command that holds the lock.           *)
(***************************************************************************)
EXTENDS Integers

CONSTANTS MaxTouches, MaxFailures   \* bounds: changes by others; kills and errors

ASSUME SetupAssumption == {MaxTouches, MaxFailures} \subseteq Nat

VARIABLES
  stored,               \* the settings file
  settings,             \* AppService: the settings in memory
  alive,                \* whether the application runs
  job,                  \* the command under way: its place, and what it knows
  cli,                  \* what is at ~/.local/bin/aizu
  hooks,                \* whether the agents' configurations hold the handlers
  cliStatus, hookStatus, spool,       \* AppService: what it shows, and whether the spool is open
  inspection, probe,    \* the worker: what it has not yet applied, the probe of the CLI
  chosen,               \* ghost: what the user last chose for approvals, successfully
  trusted, forgotten,   \* ghosts: trust confirmed since the hooks were written; its reset not saved
  promised, attempted,  \* ghosts: the file to fall back on, and the settings last handed to save
  touches, failures

fileVars == <<stored, promised, attempted>>
diagVars == <<cliStatus, hookStatus, spool>>
workerVars == <<inspection, probe>>
wishVars == <<chosen, trusted, forgotten>>
worldVars == <<cli, hooks, touches>>
setupVars == <<fileVars, settings, alive, job, worldVars, diagVars, workerVars, wishVars, failures>>

\* settings_version: absent (v0.1), this release's, or a later release's.
Releases == {"early", "current", "later"}
Settings(version, approvals, trust, onboarded) ==
  [kind |-> "whole", version |-> version, approvals |-> approvals, trust |-> trust,
   onboarded |-> onboarded]
Default == Settings("current", FALSE, FALSE, FALSE)
NoFile == [Default EXCEPT !.kind = "none"]
Torn == [Default EXCEPT !.kind = "torn"]

NoJob == [at |-> "none", new |-> Default, replace |-> FALSE, asked |-> "none"]

Failure == failures < MaxFailures /\ failures' = failures + 1
Ready == alive /\ job.at = "none"     \* the lock of DesktopState is free
Running == alive /\ job.asked # "migrate"

\* A file that is not Aizu's makes the inspection fail.
Inspected == CASE cli = "current" -> "installed" [] cli = "other" -> "mismatch"
               [] cli = "none" -> "missing" [] OTHER -> "error"

\* unwrap_or(Missing)
Shown == IF Inspected = "error" THEN "missing" ELSE Inspected

-------------------------------------------------------------------------------
(* SettingsStore *)

\* A command that saves: memory has changed already.
Save(new, asked) ==
  /\ job' = [NoJob EXCEPT !.at = "stage", !.new = new, !.asked = asked]
  /\ attempted' = new /\ promised' = stored

\* The temporary file does not touch the settings file.
Staged(new) == stored

WriteTemporary ==
  /\ job.at = "stage"
  /\ stored' = Staged(job.new)
  /\ job' = [job EXCEPT !.at = "replace"]
  /\ UNCHANGED <<settings, alive, worldVars, diagVars, workerVars, wishVars, promised,
                 attempted, failures>>

Replace ==
  /\ job.at = "replace"
  /\ stored' = job.new
  /\ job' = [job EXCEPT !.at = "secure"]
  /\ UNCHANGED <<settings, alive, worldVars, diagVars, workerVars, wishVars, promised,
                 attempted, failures>>

\* What a command does once its settings are saved.
Saved ==
  /\ job.at = "secure"
  /\ promised' = job.new
  /\ job' = NoJob
  /\ chosen' = IF job.asked = "approvals" THEN IF settings.approvals THEN "on" ELSE "off"
               ELSE chosen
  /\ hookStatus' = IF job.asked = "configure" THEN "approval" ELSE hookStatus
  /\ UNCHANGED <<stored, attempted, settings, alive, worldVars, cliStatus, spool, workerVars,
                 trusted, forgotten, failures>>

\* An error before or after the rename: the command fails and memory keeps the change.
\* Settings that cannot be migrated end the start.
SaveFails ==
  /\ job.at \in {"stage", "replace", "secure"}
  /\ Failure
  /\ job' = NoJob
  /\ alive' = (job.asked # "migrate")
  /\ chosen' = IF job.asked = "approvals" THEN "none" ELSE chosen
  /\ forgotten' = (forgotten \/ job.asked = "configure")
  /\ UNCHANGED <<fileVars, settings, worldVars, diagVars, workerVars, trusted>>

\* Approvals need an explicit choice after the upgrade (store.rs:106).
Migrated(old) == [old EXCEPT !.version = "current", !.approvals = FALSE]

Supported(file) == file.version # "later"

-------------------------------------------------------------------------------
(* AppService *)

\* AppService::new.  Nothing is known of the hooks yet, and the spool is opened only beside
\* a compatible command line tool.
Start ==
  /\ ~alive
  /\ stored.kind # "torn" /\ Supported(stored)
  /\ LET read == IF stored.kind = "none" THEN Default ELSE stored
     IN  IF read.version = "current"
         THEN settings' = read /\ job' = NoJob /\ UNCHANGED <<promised, attempted>>
         ELSE settings' = Migrated(read) /\ Save(Migrated(read), "migrate")
  /\ alive' = TRUE
  /\ cliStatus' = Shown /\ spool' = (Shown = "installed")
  /\ hookStatus' = "missing"
  /\ inspection' = "none" /\ probe' = "none"
  /\ UNCHANGED <<stored, worldVars, wishVars, failures>>

Kill ==
  /\ alive /\ Failure
  /\ alive' = FALSE
  /\ job' = NoJob
  /\ chosen' = IF job.asked = "approvals" THEN "none" ELSE chosen
  /\ forgotten' = (forgotten \/ job.asked = "configure")
  /\ UNCHANGED <<fileVars, settings, worldVars, diagVars, workerVars, trusted>>

\* update_preferences, and set_paused for another field
ChooseApprovals ==
  /\ Ready
  /\ settings' = [settings EXCEPT !.approvals = ~@]
  /\ Save(settings', "approvals")
  /\ UNCHANGED <<stored, alive, worldVars, diagVars, workerVars, wishVars, failures>>

\* confirm_codex_hook_trust: the status is shown before the trust is saved.
ConfirmTrust ==
  /\ Ready
  /\ hookStatus = "approval"
  /\ hookStatus' = "configured"
  /\ settings' = [settings EXCEPT !.trust = TRUE]
  /\ Save(settings', "trust")
  /\ trusted' = TRUE
  /\ UNCHANGED <<stored, alive, worldVars, cliStatus, spool, workerVars, chosen,
                 forgotten, failures>>

CompleteOnboarding ==
  /\ Ready
  /\ cliStatus = "installed" /\ hookStatus = "configured"
  /\ settings' = [settings EXCEPT !.onboarded = TRUE]
  /\ Save(settings', "onboarding")
  /\ UNCHANGED <<stored, alive, worldVars, diagVars, workerVars, wishVars, failures>>

\* The target is inspected, which decides whether it may be replaced; configure_agents goes on
\* to the hooks after what install_cli does alone.
InstallCli(asked) ==
  /\ Ready
  /\ Inspected # "error"
  /\ job' = [NoJob EXCEPT !.at = "validate", !.replace = (Inspected # "missing"), !.asked = asked]
  /\ UNCHANGED <<fileVars, settings, alive, worldVars, diagVars, workerVars, wishVars, failures>>

CliFails == job' = NoJob /\ UNCHANGED cli

\* install_cli of install.rs up to the second validation: a file with the same bytes is left.
ValidateTarget ==
  /\ job.at = "validate"
  /\ \/ cli = "current" /\ job' = [job EXCEPT !.at = "recheck"]
     \/ cli \notin {"none", "current"} /\ ~job.replace /\ job' = NoJob
     \/ cli # "current" /\ (cli = "none" \/ job.replace) /\ job' = [job EXCEPT !.at = "install"]
  /\ UNCHANGED <<fileVars, settings, alive, worldVars, diagVars, workerVars, wishVars, failures>>

\* A target found missing is then linked to, not renamed over.
InstallTarget ==
  /\ job.at = "install"
  /\ \/ cli # "none" /\ ~job.replace /\ CliFails
     \/ cli # "none" /\ job.replace /\ cli' = "current" /\ job' = [job EXCEPT !.at = "recheck"]
     \/ cli = "none" /\ job' = [job EXCEPT !.at = "link"] /\ UNCHANGED cli
  /\ UNCHANGED <<fileVars, settings, alive, hooks, touches, diagVars, workerVars, wishVars,
                 failures>>

Linkable == cli = "none"

LinkTarget ==
  /\ job.at = "link"
  /\ \/ Linkable /\ cli' = "current" /\ job' = [job EXCEPT !.at = "recheck"]
     \/ ~Linkable /\ CliFails
  /\ UNCHANGED <<fileVars, settings, alive, hooks, touches, diagVars, workerVars, wishVars,
                 failures>>

\* The installed tool is inspected again, and the spool is opened beside it.
RecheckCli ==
  /\ job.at = "recheck"
  /\ IF Inspected = "error" THEN UNCHANGED cliStatus ELSE cliStatus' = Inspected
  /\ spool' = (spool \/ Inspected = "installed")
  /\ job' = IF Inspected = "installed" /\ job.asked = "configure"
            THEN [job EXCEPT !.at = "hooks"] ELSE NoJob
  /\ UNCHANGED <<fileVars, settings, alive, worldVars, hookStatus, workerVars, wishVars, failures>>

\* Faulty variant: the trust confirmed for earlier hooks stands.
Distrusted_Not(s) == s

Distrusted(s) == [s EXCEPT !.trust = FALSE]

\* configure_agent_hooks, which inspects the hooks it wrote: what Codex trusted are not these.
ConfigureHooks ==
  /\ job.at = "hooks"
  /\ hooks' = TRUE
  /\ settings' = Distrusted(settings)
  /\ Save(settings', "configure")
  /\ trusted' = FALSE
  /\ UNCHANGED <<stored, alive, cli, touches, diagVars, workerVars, chosen, forgotten,
                 failures>>

\* Reading, copying, verifying, linking, opening the spool, or HookInstall may fail.
SetupFails ==
  /\ job.at \in {"validate", "install", "link", "recheck", "hooks"}
  /\ Failure
  /\ job' = NoJob
  /\ UNCHANGED <<fileVars, settings, alive, worldVars, diagVars, workerVars, wishVars>>

-------------------------------------------------------------------------------
(* The worker *)

\* inspect_hooks, before the lock.
InspectHooks ==
  /\ Running /\ inspection = "none"
  /\ inspection' = IF hooks THEN "present" ELSE "missing"
  /\ UNCHANGED <<fileVars, settings, alive, job, worldVars, diagVars, probe, wishVars, failures>>

\* A thread inspects the CLI.
ProbeCli ==
  /\ Running /\ probe = "none"
  /\ probe' = Shown
  /\ UNCHANGED <<fileVars, settings, alive, job, worldVars, diagVars, inspection, wishVars, failures>>

\* Faulty variant: the receiver of an answered probe is kept.
Answered_Kept == probe

Answered == "none"

\* update_cli_diagnostic and update_agent_hooks, under the lock.
Turn ==
  /\ Ready
  /\ inspection # "none"
  /\ hookStatus' = IF inspection = "missing" THEN "missing"
                   ELSE IF settings.trust THEN "configured" ELSE "approval"
  /\ \/ probe = "none" /\ UNCHANGED <<cliStatus, probe>>       \* not yet answered
     \/ probe # "none" /\ cliStatus' = probe /\ probe' = Answered
  /\ inspection' = "none"
  /\ UNCHANGED <<fileVars, settings, alive, job, worldVars, spool, wishVars, failures>>

-------------------------------------------------------------------------------
(* Everybody else: editors, a terminal, another release of Aizu *)

Touch == touches < MaxTouches /\ touches' = touches + 1

TouchCli ==
  /\ Touch
  /\ cli' \in {"none", "current", "other", "foreign"} \ {cli}
  /\ UNCHANGED <<fileVars, settings, alive, job, hooks, diagVars, workerVars, wishVars, failures>>

TouchHooks ==
  /\ Touch
  /\ hooks' = ~hooks
  /\ UNCHANGED <<fileVars, settings, alive, job, cli, diagVars, workerVars, wishVars, failures>>

-------------------------------------------------------------------------------

SetupInit ==
  /\ stored \in {NoFile} \union {Settings(v, v = "early", FALSE, FALSE) : v \in Releases}
  /\ promised = stored /\ attempted = stored
  /\ settings = Default /\ alive = FALSE /\ job = NoJob
  /\ cli \in {"none", "other", "foreign"} /\ hooks \in BOOLEAN
  /\ cliStatus = "missing" /\ hookStatus = "missing" /\ spool = FALSE
  /\ inspection = "none" /\ probe = "none"
  /\ chosen = "none" /\ trusted = FALSE /\ forgotten = FALSE
  /\ touches = 0 /\ failures = 0

Finishing ==
  \/ WriteTemporary \/ Replace \/ Saved
  \/ ValidateTarget \/ InstallTarget \/ LinkTarget \/ RecheckCli \/ ConfigureHooks

Working == InspectHooks \/ Turn

SetupNext ==
  \/ Start \/ Kill \/ Finishing \/ SaveFails \/ SetupFails
  \/ ChooseApprovals \/ ConfirmTrust \/ CompleteOnboarding
  \/ \E asked \in {"cli", "configure"} : InstallCli(asked)
  \/ Working \/ ProbeCli
  \/ TouchCli \/ TouchHooks

\* The worker goes round and its probes answer (they are killed after two seconds); a command
\* under way ends.  Turn is strong because commands may take the lock again and again.
SetupFairness ==
  /\ WF_setupVars(Finishing) /\ WF_setupVars(InspectHooks) /\ WF_setupVars(ProbeCli)
  /\ SF_setupVars(Turn /\ probe # "none")

SetupSpec == SetupInit /\ [][SetupNext]_setupVars /\ SetupFairness

-------------------------------------------------------------------------------
(* Properties *)

SetupTypeOK ==
  /\ {stored, settings, promised, attempted, job.new} \subseteq
       [kind : {"none", "whole", "torn"}, version : Releases, approvals : BOOLEAN,
        trust : BOOLEAN, onboarded : BOOLEAN]
  /\ cliStatus \in {"missing", "installed", "mismatch"}
  /\ hookStatus \in {"missing", "approval", "configured"}
  /\ alive \/ job = NoJob
  /\ touches \in 0..MaxTouches /\ failures \in 0..MaxFailures

\* Whatever fails or is killed, the settings file holds what it held when the last save began
\* or all that the save was given, and the latter once the save has succeeded (store.rs:123).
SavedIsKept == stored \in {promised, attempted}

\* The file of a later release is not touched (store.rs:89).
LaterIsKept == [][stored.version = "later" => stored' = stored]_setupVars

\* What the user chose for approvals holds across restarts; the migration that turns them off
\* happens once, before any choice (store.rs:106).
ChoiceIsKept ==
  alive /\ job.at = "none" /\ chosen # "none" => settings.approvals = (chosen = "on")

\* Hooks count as trusted by Codex only when the user has confirmed it since Aizu last wrote
\* them, unless saving the reset of an earlier confirmation failed (state.rs:791).
TrustIsEarned == alive /\ settings.trust => trusted \/ forgotten

\* A file at the path of the command line tool that is not Aizu's is replaced only when the
\* inspection had found a version of Aizu there (install.rs:71).
ForeignIsKept ==
  [][cli = "foreign" /\ job.at \in {"install", "link"} /\ job' # job /\ cli' = "current"
       => job.replace]_setupVars

\* Once nobody changes anything, what the desktop shows of its hooks and its command line tool
\* is what is there, whatever stale inspection arrived in between.
DiagnosticsCatchUp ==
  <>[](alive => /\ cliStatus = Shown
                /\ job.at = "none" => ((hookStatus # "missing") <=> hooks))

\* All of them: what errors, kills, restarts and other programs make of what the user
\* has set up.
SetupIsKept ==
  /\ [](SetupTypeOK /\ SavedIsKept /\ ChoiceIsKept /\ TrustIsEarned)
  /\ LaterIsKept /\ ForeignIsKept
===============================================================================
