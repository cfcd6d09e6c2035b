-------------------------- MODULE Approval_proofs --------------------------
(***************************************************************************)
(* Proofs about Approval for any number of requests: its invariant, and    *)
(* that it keeps ApprovalContract when no request is late.                 *)
(*                                                                         *)
(* The argument: a request passes through the registry, the channel of its *)
(* handler and the socket of its hook, and at each place what is said of   *)
(* it is no more than the marks of the window and the web view, or than    *)
(* what the user decided.  A handler that has shown its banner takes it    *)
(* away whatever cancels it; one that registers once approvals are off has *)
(* yet to read that they are, which is why the order of handle_connection  *)
(* (register, then read the settings) matters.  Where a request can be     *)
(* answered follows: in the dialog while it waits in the registry with     *)
(* both marks, and then its hook is still listening.                       *)
(*                                                                         *)
(* Before it, the settings that say whether there are approvals at all     *)
(* (AgentSetup): memory is changed before the file, so a command that      *)
(* fails or dies leaves the file as it was or as memory has it, whatever   *)
(* step of the save it reached (SaveIsOn), and a command that does not     *)
(* save leaves no trace in it.                                             *)
(*                                                                         *)
(* And the registry of what a click on a notice opens (SystemNotices): its *)
(* order has each entry under its token, the oldest first, through every   *)
(* removal (OrderIsThinned) and every replacement (Entered), and what is   *)
(* being sent is registered with its own activation or not at all          *)
(* (SendingIsOwn).                                                         *)
(*                                                                         *)
(* Behind it, the merge of hooks into a configuration (HookMerge): every   *)
(* group is foreign or generated, and not both (ForeignOrGenerated), so a  *)
(* merge keeps the foreign ones and has one generated group at the end.    *)
(***************************************************************************)
EXTENDS Approval, BannerBoard_proofs, AgentSetup, SystemNotices, HookMerge

-------------------------------------------------------------------------------
(* AgentSetup *)

Files == [kind : {"none", "whole", "torn"}, version : Releases, approvals : BOOLEAN,
          trust : BOOLEAN, onboarded : BOOLEAN]
Commands == {"none", "migrate", "approvals", "trust", "onboarding", "cli", "configure"}
Jobs == [at : {"none", "stage", "replace", "secure", "validate", "install", "link", "recheck", "hooks"},
         new : Files, replace : BOOLEAN, asked : Commands]

\* What the application knows and does.
SetupTypes ==
  /\ stored \in Files /\ settings \in Files /\ promised \in Files /\ attempted \in Files
  /\ job \in Jobs /\ alive \in BOOLEAN
  /\ cliStatus \in {"missing", "installed", "mismatch"}
  /\ hookStatus \in {"missing", "approval", "configured"}
  /\ probe \in {"none", "missing", "installed", "mismatch"}
  /\ chosen \in {"none", "on", "off"} /\ trusted \in BOOLEAN /\ forgotten \in BOOLEAN
  /\ touches \in 0..MaxTouches /\ failures \in 0..MaxFailures

Saving == job.at \in {"stage", "replace", "secure"}

\* A save has what memory has, and the file is what it was until the rename.
SaveIsOn ==
  /\ ~alive => job = NoJob
  /\ job.at = "none" => job = NoJob
  /\ Saving => /\ job.new = settings /\ attempted = settings
               /\ stored = IF job.at = "secure" THEN settings ELSE promised
  /\ ~Saving => job.asked \in {"none", "cli", "configure"}
  /\ stored \in {promised, attempted}

\* Whoever runs has settings of this release.
ReleaseIsOurs ==
  /\ alive => settings.kind = "whole" /\ settings.version = "current"
              /\ stored.version # "later" /\ stored.kind # "torn"
  /\ job.asked = "migrate" => chosen = "none"

\* The file has the choice that was made, and memory too.
ChoiceIsStored ==
  chosen # "none" /\ job.asked # "approvals" =>
    /\ stored.kind = "whole" /\ stored.version = "current" /\ stored.approvals = (chosen = "on")
    /\ alive => settings.approvals = (chosen = "on")

ChoiceIsOurs == chosen # "none" => stored.kind = "whole" /\ stored.version = "current"

\* The file may have a trust that is being withdrawn.
TrustIsStored ==
  /\ alive /\ settings.trust => trusted \/ forgotten
  /\ stored.trust => trusted \/ forgotten \/ (Saving /\ job.asked = "configure")

SetupInd == SetupTypes /\ SaveIsOn /\ ReleaseIsOurs /\ ChoiceIsStored /\ ChoiceIsOurs /\ TrustIsStored

\* What is shown and inspected is of a kind, and others and errors are counted.
RestTypes ==
  /\ cliStatus \in {"missing", "installed", "mismatch"}
  /\ hookStatus \in {"missing", "approval", "configured"}
  /\ probe \in {"none", "missing", "installed", "mismatch"}
  /\ touches \in 0..MaxTouches /\ failures \in 0..MaxFailures

\* A settings record in which one field changes.
LEMMA FileChanges ==
  ASSUME NEW f \in Files, NEW v \in BOOLEAN
  PROVE  /\ LET e == [f EXCEPT !.approvals = v]
            IN  e \in Files /\ e.approvals = v /\ e.kind = f.kind /\ e.version = f.version /\ e.trust = f.trust
         /\ LET e == [f EXCEPT !.trust = v]
            IN  e \in Files /\ e.trust = v /\ e.kind = f.kind /\ e.version = f.version /\ e.approvals = f.approvals
         /\ LET e == [f EXCEPT !.onboarded = v]
            IN  e \in Files /\ e.trust = f.trust /\ e.kind = f.kind /\ e.version = f.version /\ e.approvals = f.approvals
         /\ Migrated(f) \in Files /\ Migrated(f).version = "current" /\ ~Migrated(f).approvals
         /\ Migrated(f).kind = f.kind /\ Migrated(f).trust = f.trust
BY DEF Files, Migrated, Releases

\* The settings an application starts on when nothing is stored, and no command.
LEMMA DefaultIs ==
  /\ Default \in Files /\ Default.kind = "whole" /\ Default.version = "current" /\ ~Default.trust
  /\ NoJob \in Jobs /\ NoJob.at = "none" /\ NoJob.asked = "none"
<1>1. Default \in Files /\ Default.kind = "whole" /\ Default.version = "current" /\ ~Default.trust
  BY DEF Default, Settings, Files, Releases
<1> QED
  BY <1>1 DEF NoJob, Jobs, Commands

\* A command that comes to another place is otherwise what it was.
LEMMA JobComesTo ==
  ASSUME SetupTypes, NEW place \in {"replace", "secure", "recheck", "install", "link", "hooks"},
         job' = [job EXCEPT !.at = place]
  PROVE  job' \in Jobs /\ job'.at = place /\ job'.new = job.new /\ job'.asked = job.asked
         /\ job'.replace = job.replace
<1>1. job \in Jobs
  BY DEF SetupTypes
<1> QED
  BY <1>1 DEF Jobs

\* A save stages what memory has.
LEMMA SaveIs ==
  ASSUME NEW new \in Files, NEW asked \in Commands, Save(new, asked)
  PROVE  /\ job' \in Jobs /\ job'.at = "stage" /\ job'.new = new /\ job'.asked = asked
         /\ attempted' = new /\ promised' = stored
BY DefaultIs DEF Save, Jobs

\* Errors are counted,
LEMMA FailureCounts ==
  ASSUME SetupTypes, Failure
  PROVE  failures' \in 0..MaxFailures
BY SetupAssumption DEF SetupTypes, Failure

\* and so is what others do.
LEMMA TouchCounts ==
  ASSUME SetupTypes, Touch
  PROVE  touches' \in 0..MaxTouches
BY SetupAssumption DEF SetupTypes, Touch

\* What an inspection of the tool shows.
LEMMA ShownIs == Shown \in {"missing", "installed", "mismatch"}
  BY DEF Shown, Inspected

-----------------------------------------------------------------------------
\* The steps of a save.
LEMMA SaveStepsKeep ==
  ASSUME SetupInd, WriteTemporary \/ Replace \/ Saved
  PROVE  SetupInd'
<1>1. /\ Saving /\ alive /\ job.new = settings /\ attempted = settings
      /\ stored = IF job.at = "secure" THEN settings ELSE promised
  <2>1. Saving
    BY DEF WriteTemporary, Replace, Saved, Saving
  <2>2. alive
    BY <2>1, DefaultIs DEF SetupInd, SaveIsOn, Saving, SetupTypes
  <2> QED
    BY <2>1, <2>2 DEF SetupInd, SaveIsOn
<1>2. SetupTypes /\ alive' = alive /\ settings' = settings /\ attempted' = attempted
      /\ UNCHANGED <<trusted, forgotten, touches, failures, cliStatus, probe>>
  BY DEF SetupInd, WriteTemporary, Replace, Saved, worldVars, workerVars, wishVars, diagVars
<1>3. CASE WriteTemporary
  <2>1. /\ job.at = "stage" /\ stored' = stored /\ promised' = promised /\ chosen' = chosen
        /\ hookStatus' = hookStatus /\ job' = [job EXCEPT !.at = "replace"]
    BY <1>3 DEF WriteTemporary, Staged, wishVars, diagVars
  <2>2. job' \in Jobs /\ job'.at = "replace" /\ job'.new = job.new /\ job'.asked = job.asked
    BY <1>2, <2>1, JobComesTo
  <2>3. SetupTypes'
    BY <1>2, <2>1, <2>2 DEF SetupTypes
  <2>4. SaveIsOn'
    BY <1>1, <1>2, <2>1, <2>2 DEF SetupInd, SaveIsOn, Saving
  <2>5. ReleaseIsOurs' /\ ChoiceIsStored' /\ ChoiceIsOurs' /\ TrustIsStored'
    BY <1>1, <1>2, <2>1, <2>2 DEF SetupInd, ReleaseIsOurs, ChoiceIsStored, ChoiceIsOurs, TrustIsStored, Saving
  <2> QED
    BY <2>3, <2>4, <2>5 DEF SetupInd
<1>4. CASE Replace
  <2>1. /\ job.at = "replace" /\ stored' = settings /\ promised' = promised /\ chosen' = chosen
        /\ hookStatus' = hookStatus /\ job' = [job EXCEPT !.at = "secure"]
    BY <1>1, <1>4 DEF Replace, wishVars, diagVars
  <2>2. job' \in Jobs /\ job'.at = "secure" /\ job'.new = job.new /\ job'.asked = job.asked
    BY <1>2, <2>1, JobComesTo
  <2>3. SetupTypes'
    BY <1>2, <2>1, <2>2 DEF SetupTypes
  <2>4. SaveIsOn'
    BY <1>1, <1>2, <2>1, <2>2 DEF SetupInd, SaveIsOn, Saving
  <2>5. ReleaseIsOurs' /\ ChoiceIsStored' /\ ChoiceIsOurs' /\ TrustIsStored'
    BY <1>1, <1>2, <2>1, <2>2 DEF SetupInd, ReleaseIsOurs, ChoiceIsStored, ChoiceIsOurs, TrustIsStored, Saving
  <2> QED
    BY <2>3, <2>4, <2>5 DEF SetupInd
<1>5. CASE Saved
  <2>1. /\ job.at = "secure" /\ stored' = stored /\ stored = settings /\ promised' = settings /\ job' = NoJob
        /\ chosen' = IF job.asked = "approvals" THEN IF settings.approvals THEN "on" ELSE "off" ELSE chosen
        /\ hookStatus' = IF job.asked = "configure" THEN "approval" ELSE hookStatus
    BY <1>1, <1>5 DEF Saved
  <2>2. SetupTypes'
    BY <1>2, <2>1, DefaultIs DEF SetupTypes
  <2>3. SaveIsOn'
    BY <1>1, <1>2, <2>1, DefaultIs DEF SaveIsOn, Saving
  <2>4. ReleaseIsOurs'
    BY <1>1, <1>2, <2>1, DefaultIs DEF SetupInd, ReleaseIsOurs
  <2>5. settings.kind = "whole" /\ settings.version = "current" /\ settings.approvals \in BOOLEAN
    BY <1>1, <1>2 DEF SetupInd, ReleaseIsOurs, SetupTypes, Files
  <2>6. ChoiceIsStored' /\ ChoiceIsOurs'
    <3>1. CASE job.asked = "approvals"
      BY <1>1, <1>2, <2>1, <2>5, <3>1 DEF ChoiceIsStored, ChoiceIsOurs
    <3>2. CASE job.asked # "approvals"
      BY <1>1, <1>2, <2>1, <2>5, <3>2 DEF SetupInd, ChoiceIsStored, ChoiceIsOurs
    <3> QED
      BY <3>1, <3>2
  <2>7. TrustIsStored'
    BY <1>1, <1>2, <2>1 DEF SetupInd, TrustIsStored
  <2> QED
    BY <2>2, <2>3, <2>4, <2>6, <2>7 DEF SetupInd
<1> QED
  BY <1>3, <1>4, <1>5

\* A save that fails, or ends with the application.
LEMMA BreaksKeep ==
  ASSUME SetupInd, SaveFails \/ Kill
  PROVE  SetupInd'
<1>1. /\ alive /\ job' = NoJob /\ Failure
      /\ alive' \in {TRUE, FALSE}
      /\ UNCHANGED <<stored, promised, attempted, settings, cliStatus, hookStatus, probe, touches, trusted>>
      /\ chosen' = IF job.asked = "approvals" THEN "none" ELSE chosen
      /\ forgotten' = (forgotten \/ job.asked = "configure")
  <2>1. CASE SaveFails
    <3>1. alive
      BY <2>1, DefaultIs DEF SaveFails, SetupInd, SaveIsOn
    <3> QED
      BY <2>1, <3>1 DEF SaveFails, fileVars, worldVars, diagVars, workerVars
  <2>2. CASE Kill
    BY <2>2 DEF Kill, fileVars, worldVars, diagVars, workerVars
  <2> QED
    BY <2>1, <2>2
<1>2. SetupTypes'
  <2>1. SetupTypes /\ failures' \in 0..MaxFailures
    BY <1>1, FailureCounts DEF SetupInd
  <2>2. forgotten' \in BOOLEAN
    BY <1>1
  <2> QED
    BY <1>1, <2>1, <2>2, DefaultIs DEF SetupTypes
<1>3. SaveIsOn'
  BY <1>1, DefaultIs DEF SetupInd, SaveIsOn, Saving
<1>4. ReleaseIsOurs'
  BY <1>1, DefaultIs DEF SetupInd, ReleaseIsOurs
<1>5. ChoiceIsStored' /\ ChoiceIsOurs'
  BY <1>1 DEF SetupInd, ChoiceIsStored, ChoiceIsOurs
<1>6. TrustIsStored'
  BY <1>1 DEF SetupInd, TrustIsStored
<1> QED
  BY <1>2, <1>3, <1>4, <1>5, <1>6 DEF SetupInd

\* A command that changes the settings and starts to save them.
LEMMA CommandsSave ==
  ASSUME SetupInd, alive, ~Saving, RestTypes', alive' = alive, stored' = stored,
         chosen' = chosen, forgotten' = forgotten, trusted' \in BOOLEAN,
         NEW asked \in {"approvals", "trust", "onboarding", "configure"},
         NEW new \in Files, settings' = new, Save(new, asked),
         new.kind = settings.kind, new.version = settings.version,
         asked # "approvals" => new.approvals = settings.approvals,
         new.trust => trusted' \/ forgotten,
         stored.trust => trusted' \/ forgotten \/ asked = "configure",
         job.asked # "approvals"
  PROVE  SetupInd'
<1>1. /\ job' \in Jobs /\ job'.at = "stage" /\ job'.new = new /\ job'.asked = asked
      /\ attempted' = new /\ promised' = stored
  <2>1. asked \in Commands
    BY DEF Commands
  <2> QED
    BY <2>1, SaveIs
<1>2. SetupTypes'
  BY <1>1 DEF SetupInd, SetupTypes, RestTypes
<1>3. SaveIsOn'
  BY <1>1 DEF SaveIsOn, Saving
<1>4. ReleaseIsOurs'
  BY <1>1 DEF SetupInd, ReleaseIsOurs
<1>5. ChoiceIsStored' /\ ChoiceIsOurs'
  BY <1>1 DEF SetupInd, ChoiceIsStored, ChoiceIsOurs
<1>6. TrustIsStored'
  BY <1>1 DEF TrustIsStored, Saving
<1> QED
  BY <1>2, <1>3, <1>4, <1>5, <1>6 DEF SetupInd

\* A choice, a trust that is confirmed or withdrawn, or the end of the onboarding.
LEMMA ChangesKeep ==
  ASSUME SetupInd, ChooseApprovals \/ ConfirmTrust \/ CompleteOnboarding \/ ConfigureHooks
  PROVE  SetupInd'
<1>1. /\ SetupTypes /\ settings \in Files /\ alive /\ ~Saving /\ job.asked # "approvals"
      /\ settings.trust => trusted \/ forgotten
      /\ stored.trust => trusted \/ forgotten
  <2>1. alive /\ ~Saving
    BY DefaultIs DEF SetupInd, SaveIsOn, ChooseApprovals, ConfirmTrust, CompleteOnboarding, ConfigureHooks, Ready, Saving
  <2> QED
    BY <2>1 DEF SetupInd, SetupTypes, SaveIsOn, TrustIsStored
<1>2. /\ stored' = stored /\ alive' = alive /\ chosen' = chosen /\ forgotten' = forgotten
      /\ UNCHANGED <<touches, failures, cliStatus, probe>> /\ hookStatus' \in {hookStatus, "configured"}
  BY DEF ChooseApprovals, ConfirmTrust, CompleteOnboarding, ConfigureHooks, worldVars, diagVars, workerVars, wishVars
<1>3. RestTypes'
  BY <1>1, <1>2 DEF RestTypes, SetupTypes
<1>4. CASE ChooseApprovals
  <2> DEFINE new == [settings EXCEPT !.approvals = ~@]
  <2>1. settings' = new /\ Save(new, "approvals") /\ trusted' = trusted
    BY <1>4 DEF ChooseApprovals, wishVars
  <2>2. new \in Files /\ new.kind = settings.kind /\ new.version = settings.version /\ new.trust = settings.trust
    BY <1>1 DEF Files
  <2> HIDE DEF new
  <2>3. trusted' \in BOOLEAN
    BY <1>1, <2>1 DEF SetupTypes
  <2> QED
    BY <1>1, <1>2, <1>3, <2>1, <2>2, <2>3, CommandsSave
<1>5. CASE ConfirmTrust
  <2> DEFINE new == [settings EXCEPT !.trust = TRUE]
  <2>1. settings' = new /\ Save(new, "trust") /\ trusted' = TRUE
    BY <1>5 DEF ConfirmTrust
  <2>2. new \in Files /\ new.kind = settings.kind /\ new.version = settings.version
        /\ new.approvals = settings.approvals
    BY <1>1, FileChanges
  <2> HIDE DEF new
  <2> QED
    BY <1>1, <1>2, <1>3, <2>1, <2>2, CommandsSave
<1>6. CASE CompleteOnboarding
  <2> DEFINE new == [settings EXCEPT !.onboarded = TRUE]
  <2>1. settings' = new /\ Save(new, "onboarding") /\ trusted' = trusted
    BY <1>6 DEF CompleteOnboarding, wishVars
  <2>2. new \in Files /\ new.kind = settings.kind /\ new.version = settings.version
        /\ new.approvals = settings.approvals /\ new.trust = settings.trust
    BY <1>1, FileChanges
  <2> HIDE DEF new
  <2>3. trusted' \in BOOLEAN
    BY <1>1, <2>1 DEF SetupTypes
  <2> QED
    BY <1>1, <1>2, <1>3, <2>1, <2>2, <2>3, CommandsSave
<1>7. CASE ConfigureHooks
  <2> DEFINE new == [settings EXCEPT !.trust = FALSE]
  <2>1. settings' = new /\ Save(new, "configure") /\ trusted' = FALSE
    BY <1>7 DEF ConfigureHooks, Distrusted
  <2>2. new \in Files /\ new.kind = settings.kind /\ new.version = settings.version
        /\ new.approvals = settings.approvals /\ ~new.trust
    BY <1>1, FileChanges
  <2> HIDE DEF new
  <2> QED
    BY <1>1, <1>2, <1>3, <2>1, <2>2, CommandsSave
<1> QED
  BY <1>4, <1>5, <1>6, <1>7

\* The application starts on what is stored, and migrates what an earlier release stored.
LEMMA StartKeeps ==
  ASSUME SetupInd, Start
  PROVE  SetupInd'
<1> DEFINE read == IF stored.kind = "none" THEN Default ELSE stored
<1>1. /\ ~alive /\ alive' = TRUE /\ stored.kind # "torn" /\ stored.version # "later"
      /\ UNCHANGED <<stored, chosen, trusted, forgotten, touches, failures>>
      /\ cliStatus' = Shown /\ hookStatus' = "missing" /\ probe' = "none"
      /\ IF read.version = "current"
         THEN settings' = read /\ job' = NoJob /\ UNCHANGED <<promised, attempted>>
         ELSE settings' = Migrated(read) /\ Save(Migrated(read), "migrate")
  BY DEF Start, Supported, worldVars, wishVars
<1>2. SetupTypes /\ stored \in Files /\ job = NoJob /\ ~Saving /\ job.asked = "none" /\ stored \in {promised, attempted}
  BY <1>1, DefaultIs DEF SetupInd, SetupTypes, SaveIsOn, Saving
<1>3. read \in Files /\ read.kind = "whole" /\ (stored.kind # "none" => read = stored)
      /\ (stored.kind = "none" => ~read.trust)
  BY <1>1, <1>2, DefaultIs DEF Files
<1>4. chosen # "none" =>
        stored.kind = "whole" /\ stored.version = "current" /\ stored.approvals = (chosen = "on")
  BY <1>2 DEF SetupInd, ChoiceIsStored
<1>5. read.trust => trusted \/ forgotten
  BY <1>2, <1>3 DEF SetupInd, TrustIsStored
<1>6. stored.trust => trusted \/ forgotten
  BY <1>2 DEF SetupInd, TrustIsStored
<1>7. RestTypes'
  BY <1>1, <1>2, ShownIs DEF RestTypes, SetupTypes
<1> HIDE DEF read
<1>8. CASE read.version = "current"
  <2>1. settings' = read /\ job' = NoJob /\ UNCHANGED <<promised, attempted>>
    BY <1>1, <1>8
  <2>2. SetupTypes'
    BY <1>1, <1>2, <1>3, <1>7, <2>1, DefaultIs DEF SetupTypes, RestTypes
  <2>3. SaveIsOn'
    BY <1>1, <1>2, <2>1, DefaultIs DEF SaveIsOn, Saving
  <2>4. ReleaseIsOurs'
    BY <1>1, <1>3, <1>8, <2>1, DefaultIs DEF ReleaseIsOurs
  <2>5. ChoiceIsStored' /\ ChoiceIsOurs'
    BY <1>1, <1>3, <1>4, <2>1 DEF ChoiceIsStored, ChoiceIsOurs
  <2>6. TrustIsStored'
    BY <1>1, <1>5, <1>6, <2>1 DEF TrustIsStored
  <2> QED
    BY <2>2, <2>3, <2>4, <2>5, <2>6 DEF SetupInd
<1>9. CASE read.version # "current"
  <2>1. settings' = Migrated(read) /\ Save(Migrated(read), "migrate")
    BY <1>1, <1>9
  <2>2. /\ Migrated(read) \in Files /\ Migrated(read).version = "current"
        /\ Migrated(read).kind = "whole" /\ Migrated(read).trust = read.trust
    BY <1>3, FileChanges
  <2>3. /\ job' \in Jobs /\ job'.at = "stage" /\ job'.new = Migrated(read) /\ job'.asked = "migrate"
        /\ attempted' = Migrated(read) /\ promised' = stored
    <3>1. "migrate" \in Commands
      BY DEF Commands
    <3> QED
      BY <2>1, <2>2, <3>1, SaveIs
  <2>4. chosen = "none"
    BY <1>3, <1>4, <1>9
  <2>5. SetupTypes'
    BY <1>1, <1>2, <1>7, <2>1, <2>2, <2>3 DEF SetupTypes, RestTypes
  <2>6. SaveIsOn'
    BY <1>1, <2>1, <2>3 DEF SaveIsOn, Saving
  <2>7. ReleaseIsOurs'
    BY <1>1, <2>1, <2>2, <2>4 DEF ReleaseIsOurs
  <2>8. ChoiceIsStored' /\ ChoiceIsOurs'
    BY <1>1, <2>4 DEF ChoiceIsStored, ChoiceIsOurs
  <2>9. TrustIsStored'
    BY <1>1, <1>5, <1>6, <2>1, <2>2 DEF TrustIsStored
  <2> QED
    BY <2>5, <2>6, <2>7, <2>8, <2>9 DEF SetupInd
<1> QED
  BY <1>8, <1>9

\* The tool and the hooks are installed without a word to the settings.
LEMMA InstallStepsKeep ==
  ASSUME SetupInd,
         \/ \E asked \in {"cli", "configure"} : InstallCli(asked)
         \/ ValidateTarget \/ InstallTarget \/ LinkTarget \/ RecheckCli \/ SetupFails
  PROVE  SetupInd'
<1>1. /\ UNCHANGED <<stored, promised, attempted, settings, alive, touches, hookStatus, probe, chosen, trusted, forgotten>>
      /\ cliStatus' \in {cliStatus, Shown} /\ (failures' = failures \/ Failure)
  BY DEF InstallCli, ValidateTarget, InstallTarget, LinkTarget, RecheckCli, SetupFails, CliFails, Shown,
         fileVars, worldVars, diagVars, workerVars, wishVars
<1>2. SetupTypes /\ ~Saving /\ alive
  BY DefaultIs DEF SetupInd, SaveIsOn, Saving, Ready,
         InstallCli, ValidateTarget, InstallTarget, LinkTarget, RecheckCli, SetupFails
<1>3. /\ job' \in Jobs /\ (job'.at = "none" => job' = NoJob)
      /\ job'.at \notin {"stage", "replace", "secure"} /\ job'.asked \in {"none", "cli", "configure"}
  <2>1. job.asked \in {"none", "cli", "configure"}
    BY <1>2 DEF SetupInd, SaveIsOn
  <2>2. CASE job' = NoJob
    BY <2>2, DefaultIs
  <2>3. CASE \E place \in {"recheck", "install", "link", "hooks"} : job' = [job EXCEPT !.at = place]
    BY <1>2, <2>1, <2>3, JobComesTo
  <2>4. CASE \E asked \in {"cli", "configure"} : InstallCli(asked)
    <3>1. PICK asked \in {"cli", "configure"}, replace \in BOOLEAN :
            job' = [NoJob EXCEPT !.at = "validate", !.replace = replace, !.asked = asked]
      BY <2>4 DEF InstallCli
    <3> QED
      BY <3>1, DefaultIs DEF Jobs, Commands
  <2> QED
    BY <2>2, <2>3, <2>4 DEF ValidateTarget, InstallTarget, LinkTarget, RecheckCli, SetupFails, CliFails
<1>4. SetupTypes'
  <2>1. failures' \in 0..MaxFailures
    BY <1>1, <1>2, FailureCounts DEF SetupTypes
  <2> QED
    BY <1>1, <1>2, <1>3, <2>1, ShownIs DEF SetupTypes
<1>5. SaveIsOn'
  BY <1>1, <1>2, <1>3 DEF SetupInd, SaveIsOn, Saving
<1>6. ReleaseIsOurs' /\ ChoiceIsStored' /\ ChoiceIsOurs' /\ TrustIsStored'
  BY <1>1, <1>2, <1>3 DEF SetupInd, ReleaseIsOurs, ChoiceIsStored, ChoiceIsOurs, TrustIsStored, SaveIsOn, Saving
<1> QED
  BY <1>4, <1>5, <1>6 DEF SetupInd

\* Inspections, and what others do.
LEMMA OthersKeep ==
  ASSUME SetupInd, Working \/ ProbeCli \/ TouchCli \/ TouchHooks \/ UNCHANGED setupVars
  PROVE  SetupInd'
<1>1. /\ UNCHANGED <<stored, promised, attempted, settings, alive, job, chosen, trusted, forgotten, failures>>
      /\ cliStatus' \in {cliStatus, probe} /\ (cliStatus' = probe => probe # "none" \/ cliStatus' = cliStatus)
      /\ probe' \in {probe, "none", Shown} /\ hookStatus' \in {hookStatus, "missing", "configured", "approval"}
      /\ touches' = touches \/ Touch
  BY DEF Working, InspectHooks, Turn, ProbeCli, TouchCli, TouchHooks, Answered, setupVars,
         fileVars, worldVars, diagVars, workerVars, wishVars
<1>2. SetupTypes
  BY DEF SetupInd
<1>3. SetupTypes'
  <2>1. touches' \in 0..MaxTouches
    BY <1>1, <1>2, TouchCounts DEF SetupTypes
  <2>2. cliStatus' \in {"missing", "installed", "mismatch"}
    BY <1>1, <1>2 DEF SetupTypes
  <2>3. probe' \in {"none", "missing", "installed", "mismatch"}
    BY <1>1, <1>2, ShownIs DEF SetupTypes
  <2> QED
    BY <1>1, <1>2, <2>1, <2>2, <2>3 DEF SetupTypes
<1>4. SaveIsOn' /\ ReleaseIsOurs' /\ ChoiceIsStored' /\ ChoiceIsOurs' /\ TrustIsStored'
  BY <1>1 DEF SetupInd, SaveIsOn, ReleaseIsOurs, ChoiceIsStored, ChoiceIsOurs, TrustIsStored, Saving
<1> QED
  BY <1>3, <1>4 DEF SetupInd

\* At the start there is a file of some release, or none, and no choice yet.
LEMMA SetupStarts ==
  ASSUME SetupInit
  PROVE  SetupInd
<1>1. /\ promised = stored /\ attempted = stored /\ settings = Default /\ alive = FALSE /\ job = NoJob
      /\ cliStatus = "missing" /\ hookStatus = "missing" /\ probe = "none"
      /\ chosen = "none" /\ trusted = FALSE /\ forgotten = FALSE /\ touches = 0 /\ failures = 0
      /\ stored \in {NoFile} \union {Settings(v, v = "early", FALSE, FALSE) : v \in Releases}
  BY DEF SetupInit
<1>2. stored \in Files /\ ~stored.trust
  <2>1. CASE stored = NoFile
    BY <2>1 DEF NoFile, Default, Settings, Files, Releases
  <2>2. CASE stored \in {Settings(v, v = "early", FALSE, FALSE) : v \in Releases}
    <3>1. PICK v \in Releases : stored = Settings(v, v = "early", FALSE, FALSE)
      BY <2>2
    <3>2. PICK a \in BOOLEAN : a = (v = "early")
      <4>1. CASE v = "early"
        BY <4>1
      <4>2. CASE v # "early"
        BY <4>2
      <4> QED
        BY <4>1, <4>2
    <3>3. stored = Settings(v, a, FALSE, FALSE)
      BY <3>1, <3>2
    <3>4. "whole" \in {"none", "whole", "torn"} /\ FALSE \in BOOLEAN
      OBVIOUS
    <3> QED
      BY <3>2, <3>3, <3>4 DEF Settings, Files
  <2> QED
    BY <1>1, <2>1, <2>2
<1>3. 0 \in 0..MaxTouches /\ 0 \in 0..MaxFailures
  BY SetupAssumption
<1> QED
  BY <1>1, <1>2, <1>3, DefaultIs
     DEF SetupInd, SetupTypes, SaveIsOn, ReleaseIsOurs, ChoiceIsStored, ChoiceIsOurs, TrustIsStored, Saving

\* The file of a later release is only read, and a file that is not Aizu's is replaced if
\* a version of Aizu was found.
LEMMA FilesAreKept ==
  ASSUME SetupInd, [SetupNext]_setupVars
  PROVE  /\ stored.version = "later" => stored' = stored
         /\ cli = "foreign" /\ job.at \in {"install", "link"} /\ job' # job /\ cli' = "current" => job.replace
<1>1. stored.version = "later" => stored' = stored
  <2>1. stored' = stored \/ Replace
    BY DEF SetupNext, Start, Kill, Finishing, WriteTemporary, Staged, Saved, ValidateTarget, InstallTarget, LinkTarget,
           RecheckCli, ConfigureHooks, SaveFails, SetupFails, ChooseApprovals, ConfirmTrust, CompleteOnboarding,
           InstallCli, Working, InspectHooks, Turn, ProbeCli, TouchCli, TouchHooks, setupVars, fileVars
  <2>2. Replace => alive
    BY DefaultIs DEF SetupInd, SaveIsOn, Replace
  <2> QED
    BY <2>1, <2>2 DEF SetupInd, ReleaseIsOurs
<1>2. ASSUME cli = "foreign", job.at \in {"install", "link"}, job' # job, cli' = "current"
      PROVE  job.replace
  <2>1. cli' # cli
    BY <1>2
  <2>2. \/ InstallTarget \/ LinkTarget \/ TouchCli
    BY <2>1 DEF SetupNext, Start, Kill, Finishing, WriteTemporary, Replace, Saved, ValidateTarget,
           RecheckCli, ConfigureHooks, SaveFails, SetupFails, ChooseApprovals, ConfirmTrust, CompleteOnboarding,
           InstallCli, Working, InspectHooks, Turn, ProbeCli, TouchHooks, setupVars, worldVars
  <2> QED
    BY <1>2, <2>2 DEF InstallTarget, LinkTarget, Linkable, CliFails, TouchCli
<1> QED
  BY <1>1, <1>2

\* The invariant says what the run checks.
LEMMA SetupIndMeans ==
  ASSUME SetupInd
  PROVE  SetupTypeOK /\ SavedIsKept /\ ChoiceIsKept /\ TrustIsEarned
<1>1. job.new \in Files
  BY DEF SetupInd, SetupTypes, Jobs
<1>2. SetupTypeOK
  BY <1>1 DEF SetupInd, SetupTypes, SaveIsOn, SetupTypeOK, Files
<1>3. SavedIsKept
  BY DEF SetupInd, SaveIsOn, SavedIsKept
<1>4. ChoiceIsKept
  BY DefaultIs DEF SetupInd, SaveIsOn, ChoiceIsStored, ChoiceIsKept
<1>5. TrustIsEarned
  BY DEF SetupInd, TrustIsStored, TrustIsEarned
<1> QED
  BY <1>2, <1>3, <1>4, <1>5

\* Whatever fails, is killed or is done by others: the file is what was stored last or is
\* being stored, a choice that was answered is the file's, a trust that nobody confirmed is
\* never shown, a file of a later release is only read and the tool of someone else is
\* replaced on demand only (settings.rs save, cli_install.rs validate_target).
THEOREM SetupHolds == SetupSpec => SetupIsKept
<1>1. SetupInit => SetupInd
  BY SetupStarts
<1>2. SetupInd /\ [SetupNext]_setupVars => SetupInd'
  BY SaveStepsKeep, BreaksKeep, ChangesKeep, StartKeeps, InstallStepsKeep, OthersKeep
     DEF SetupNext, Finishing
<1>3. SetupInd => SetupTypeOK /\ SavedIsKept /\ ChoiceIsKept /\ TrustIsEarned
  BY SetupIndMeans
<1>4. SetupInd /\ [SetupNext]_setupVars
        => /\ [stored.version = "later" => stored' = stored]_setupVars
           /\ [cli = "foreign" /\ job.at \in {"install", "link"} /\ job' # job /\ cli' = "current"
                 => job.replace]_setupVars
  BY FilesAreKept
<1> QED
  BY <1>1, <1>2, <1>3, <1>4, PTL DEF SetupSpec, SetupIsKept, LaterIsKept, ForeignIsKept

-------------------------------------------------------------------------------
(* SystemNotices *)

Pair == Identifiers \X Nat

\* The order has each entry once, under its token, the oldest first.
OrderedAs(ord, map, last) ==
  /\ ord \in Seq(Pair)
  /\ \A i, j \in DOMAIN ord : i < j => ord[i][1] # ord[j][1] /\ ord[i][2] < ord[j][2]
  /\ \A i \in DOMAIN ord : /\ ord[i][1] \in DOMAIN map /\ ord[i][2] = map[ord[i][1]].token
                           /\ ord[i][2] <= last
  /\ \A id \in DOMAIN map : \E i \in DOMAIN ord : ord[i][1] = id
  /\ DOMAIN map \subseteq Identifiers

EntriesAreOrdered ==
  /\ nextToken \in Nat
  /\ OrderedAs(order, entries, nextToken)
  /\ Len(order) <= MaxActivations

\* What is being sent is registered with its own activation, or not at all.
SendingIsOwn ==
  /\ callback # "installed" => DOMAIN entries = {}
  /\ sending = Idle \/ sending.id \in Identifiers
  /\ sending # Idle /\ sending.id \in DOMAIN entries =>
       /\ sending.act # Nothing
       /\ entries[sending.id] = [token |-> sending.token, act |-> sending.act]

\* What is on the screen is registered with its own activation, or not at all.
ShownIsOwn ==
  \A id \in DOMAIN entries : id \in DOMAIN shown /\ id # sending.id => shown[id] = entries[id].act

NoticesInd == EntriesAreOrdered /\ SendingIsOwn /\ ShownIsOwn

-----------------------------------------------------------------------------
(* Sequences *)

\* What is taken at some places comes in the order it was in.
LEMMA AtKeepsOrder ==
  ASSUME NEW S, NEW q \in Seq(S), NEW places \in SUBSET DOMAIN q
  PROVE  \A n, m \in DOMAIN At(q, places) :
           n < m => \E i, k \in places : i < k /\ At(q, places)[n] = q[i] /\ At(q, places)[m] = q[k]
<1> DEFINE Below(i) == {j \in places : j <= i}
           Rank(i) == Cardinality(Below(i))
           size == Cardinality(places)
           Place(n) == CHOOSE i \in places : Rank(i) = n
<1>1. Len(q) \in Nat /\ DOMAIN q = 1..Len(q)
  BY LenProperties
<1>2. size \in Nat /\ \A n \in 1..size : \E i \in places : Rank(i) = n
  <2> HIDE DEF size
  <2> QED
    BY <1>1, PlacesAreRanked DEF size
<1>3. \A n \in 1..size : Place(n) \in places /\ Rank(Place(n)) = n
  BY <1>2
<1>4. ASSUME NEW i \in places, NEW k \in places, k <= i PROVE Rank(k) <= Rank(i)
  <2>1. IsFiniteSet(places)
    BY <1>1, FS_Interval, FS_Subset, 1 \in Int, Len(q) \in Int
  <2>2. Below(i) \in SUBSET places /\ Below(k) \in SUBSET Below(i)
    <3>1. \A j \in places : j \in Int
      BY <1>1
    <3>2. \A j \in places : j <= k => j <= i
      BY <1>4, <3>1
    <3> QED
      BY <3>2
  <2> HIDE DEF Below
  <2>3. IsFiniteSet(Below(i))
    BY <2>1, <2>2, FS_Subset
  <2> QED
    BY <2>2, <2>3, FS_Subset
<1>5. DOMAIN At(q, places) = 1..size /\ \A n \in 1..size : At(q, places)[n] = q[Place(n)]
  BY DEF At
<1> HIDE DEF Place, Rank, size
<1> SUFFICES ASSUME NEW n \in 1..size, NEW m \in 1..size, n < m
             PROVE  Place(n) < Place(m)
  BY <1>3, <1>5
<1>6. Place(n) \in places /\ Place(m) \in places /\ Rank(Place(n)) = n /\ Rank(Place(m)) = m
  BY <1>3
<1>7. ~(Place(m) <= Place(n))
  <2>1. ~(m <= n)
    BY <1>2
  <2>2. Place(m) <= Place(n) => Rank(Place(m)) <= Rank(Place(n))
    BY <1>4, <1>6
  <2> QED
    BY <1>6, <2>1, <2>2
<1>8. Place(n) \in Int /\ Place(m) \in Int
  BY <1>1, <1>6
<1> QED
  BY <1>7, <1>8

\* The registry retains as the queue of banners does.
LEMMA RetainedIsAt == \A q, places : Retained(q, places) = At(q, places)
BY DEF Retained, At

\* o is ord without the places of what is no entry of e any more.
Thins(ord, map, o, e) ==
  /\ o \in Seq(Pair)
  /\ DOMAIN e \subseteq DOMAIN map
  /\ \A id \in DOMAIN e : e[id] = map[id]
  /\ \A n, m \in DOMAIN o : n < m => \E i, k \in DOMAIN ord : i < k /\ o[n] = ord[i] /\ o[m] = ord[k]
  /\ \A n \in DOMAIN o : \E i \in DOMAIN ord : o[n] = ord[i] /\ ord[i][1] \in DOMAIN e
  /\ \A i \in DOMAIN ord : ord[i][1] \in DOMAIN e => \E n \in DOMAIN o : o[n] = ord[i]

\* An order that loses what is no more an entry has what is left.
LEMMA OrderIsThinned ==
  ASSUME NEW ord, NEW map, NEW last, OrderedAs(ord, map, last), NEW o, NEW e, Thins(ord, map, o, e)
  PROVE  OrderedAs(o, e, last)
<1>1. ASSUME NEW i \in DOMAIN o, NEW j \in DOMAIN o, i < j
      PROVE  o[i][1] # o[j][1] /\ o[i][2] < o[j][2]
  <2>1. PICK m \in DOMAIN ord, k \in DOMAIN ord : m < k /\ o[i] = ord[m] /\ o[j] = ord[k]
    BY <1>1 DEF Thins
  <2>2. ord[m][1] # ord[k][1] /\ ord[m][2] < ord[k][2]
    BY <2>1 DEF OrderedAs
  <2> QED
    BY <2>1, <2>2
<1>2. ASSUME NEW i \in DOMAIN o
      PROVE  o[i][1] \in DOMAIN e /\ o[i][2] = e[o[i][1]].token /\ o[i][2] <= last
  <2>1. PICK k \in DOMAIN ord : o[i] = ord[k] /\ ord[k][1] \in DOMAIN e
    BY DEF Thins
  <2>2. ord[k][2] = map[ord[k][1]].token /\ ord[k][2] <= last
    BY DEF OrderedAs
  <2>3. e[ord[k][1]] = map[ord[k][1]]
    BY <2>1 DEF Thins
  <2> QED
    BY <2>1, <2>2, <2>3
<1>3. \A id \in DOMAIN e : \E i \in DOMAIN o : o[i][1] = id
  <2> SUFFICES ASSUME NEW id \in DOMAIN e PROVE \E i \in DOMAIN o : o[i][1] = id
    OBVIOUS
  <2>1. PICK i \in DOMAIN ord : ord[i][1] = id
    BY DEF OrderedAs, Thins
  <2> QED
    BY <2>1 DEF Thins
<1>4. DOMAIN e \subseteq Identifiers /\ o \in Seq(Pair)
  BY DEF OrderedAs, Thins
<1> QED
  BY <1>1, <1>2, <1>3, <1>4 DEF OrderedAs

\* What is retained of an order, when the rest is no more an entry.
LEMMA RetainedIsOrdered ==
  ASSUME NEW ord, NEW map, NEW last, OrderedAs(ord, map, last), NEW e,
         NEW places \in SUBSET DOMAIN ord,
         DOMAIN e \subseteq DOMAIN map, \A id \in DOMAIN e : e[id] = map[id],
         \A i \in DOMAIN ord : i \in places <=> ord[i][1] \in DOMAIN e
  PROVE  /\ OrderedAs(Retained(ord, places), e, last)
         /\ Len(Retained(ord, places)) <= Len(ord)
<1> DEFINE o == At(ord, places)
<1>0. Retained(ord, places) = o
  BY RetainedIsAt
<1>1. ord \in Seq(Pair)
  BY DEF OrderedAs
<1>2. /\ o \in Seq(Pair)
      /\ \A b \in ToSet(o) : \E i \in places : b = ord[i]
      /\ \A i \in places : ord[i] \in ToSet(o)
  BY <1>1, AtTakes
<1>3. \A n, m \in DOMAIN o : n < m => \E i, k \in places : i < k /\ o[n] = ord[i] /\ o[m] = ord[k]
  BY <1>1, AtKeepsOrder
<1>4. DOMAIN o = 1..Cardinality(places)
  BY DEF At
<1>5. Len(o) <= Len(ord)
  <2>1. Len(ord) \in Nat /\ DOMAIN ord = 1..Len(ord) /\ Len(o) \in Nat /\ DOMAIN o = 1..Len(o)
    BY <1>1, <1>2, LenProperties
  <2>2. IsFiniteSet(1..Len(ord)) /\ Cardinality(1..Len(ord)) = Len(ord)
    <3>1. PICK n \in Nat : n = Len(ord)
      BY <2>1
    <3>2. IsFiniteSet(1..n) /\ Cardinality(1..n) = IF 1 > n THEN 0 ELSE n - 1 + 1
      BY FS_Interval, 1 \in Int, n \in Int
    <3>3. Cardinality(1..n) = n
      BY <3>2
    <3> QED
      BY <3>1, <3>2, <3>3
  <2>3. Cardinality(places) <= Len(ord) /\ Cardinality(places) \in Nat
    BY <2>1, <2>2, FS_Subset, FS_CardinalityType
  <2> QED
    BY <1>4, <2>1, <2>3
<1> HIDE DEF o
<1>6. \A n \in DOMAIN o : \E i \in places : o[n] = ord[i]
  BY <1>2 DEF ToSet
<1>7. \A i \in places : \E n \in DOMAIN o : o[n] = ord[i]
  BY <1>2 DEF ToSet
<1>8. OrderedAs(o, e, last)
  <2>1. \A n, m \in DOMAIN o : n < m => \E i, k \in DOMAIN ord : i < k /\ o[n] = ord[i] /\ o[m] = ord[k]
    BY <1>3
  <2>2. \A n \in DOMAIN o : \E i \in DOMAIN ord : o[n] = ord[i] /\ ord[i][1] \in DOMAIN e
    BY <1>6
  <2>3. \A i \in DOMAIN ord : ord[i][1] \in DOMAIN e => \E n \in DOMAIN o : o[n] = ord[i]
    BY <1>7
  <2> QED
    BY <1>2, <2>1, <2>2, <2>3, OrderIsThinned DEF Thins
<1> QED
  BY <1>0, <1>5, <1>8

-----------------------------------------------------------------------------
(* The registry *)

\* What an entry that goes leaves.
LEMMA ForgottenIsOrdered ==
  ASSUME EntriesAreOrdered, NEW id
  PROVE  /\ OrderedAs(Forgotten(order, id), Lacking(entries, id), nextToken)
         /\ Len(Forgotten(order, id)) <= Len(order)
         /\ DOMAIN Lacking(entries, id) = DOMAIN entries \ {id}
         /\ \A x \in DOMAIN entries \ {id} : Lacking(entries, id)[x] = entries[x]
<1> DEFINE places == {i \in DOMAIN order : order[i][1] # id}
           e == Lacking(entries, id)
<1>1. DOMAIN e = DOMAIN entries \ {id} /\ \A x \in DOMAIN entries \ {id} : e[x] = entries[x]
  BY DEF Lacking, Restrict
<1>2. OrderedAs(order, entries, nextToken)
  BY DEF EntriesAreOrdered
<1>3. \A i \in DOMAIN order : i \in places <=> order[i][1] \in DOMAIN e
  BY <1>1, <1>2 DEF OrderedAs
<1> HIDE DEF e
<1>4. /\ OrderedAs(Retained(order, places), e, nextToken)
      /\ Len(Retained(order, places)) <= Len(order)
  <2>1. places \in SUBSET DOMAIN order /\ DOMAIN e \subseteq DOMAIN entries
        /\ \A x \in DOMAIN e : e[x] = entries[x]
    BY <1>1
  <2> HIDE DEF places
  <2> QED
    BY <1>2, <1>3, <2>1, RetainedIsOrdered
<1> QED
  BY <1>1, <1>4 DEF Forgotten, e

\* What the oldest leave when they make room.
LEMMA LatestAreOrdered ==
  ASSUME NEW kept, NEW map, NEW last, OrderedAs(kept, map, last), NEW excess \in 0..Len(kept), NEW e,
         DOMAIN e = DOMAIN map \ {kept[i][1] : i \in 1..excess},
         \A x \in DOMAIN e : e[x] = map[x]
  PROVE  /\ OrderedAs(SubSeq(kept, excess + 1, Len(kept)), e, last)
         /\ Len(SubSeq(kept, excess + 1, Len(kept))) = Len(kept) - excess
<1> DEFINE o == SubSeq(kept, excess + 1, Len(kept))
<1>1. /\ kept \in Seq(Pair) /\ Len(kept) \in Nat /\ DOMAIN kept = 1..Len(kept)
      /\ \A i \in DOMAIN kept : kept[i] \in Pair
  BY LenProperties, ElementOfSeq DEF OrderedAs
<1>2. /\ o \in Seq(Pair) /\ Len(o) = Len(kept) - excess
      /\ \A n \in 1..Len(kept) - excess : o[n] = kept[excess + n]
  <2>1. excess + 1 \in Int /\ Len(kept) \in Int /\ \A i \in excess + 1..Len(kept) : kept[i] \in Pair
    BY <1>1
  <2>2. /\ o \in Seq(Pair)
        /\ Len(o) = IF excess + 1 <= Len(kept) THEN Len(kept) - (excess + 1) + 1 ELSE 0
        /\ \A n \in 1..Len(kept) - (excess + 1) + 1 : o[n] = kept[excess + 1 + n - 1]
    BY <2>1, SubSeqProperties
  <2> HIDE DEF o
  <2>3. Len(o) = Len(kept) - excess
    <3>1. excess \in Nat /\ excess <= Len(kept)
      BY <1>1
    <3>2. CASE excess + 1 <= Len(kept)
      BY <1>1, <2>2, <3>1, <3>2
    <3>3. CASE excess = Len(kept)
      BY <1>1, <2>2, <3>1, <3>3
    <3>4. excess + 1 <= Len(kept) \/ excess = Len(kept)
      <4>1. PICK n \in Nat : n = Len(kept)
        BY <1>1
      <4>2. excess + 1 <= n \/ excess = n
        BY <3>1, <4>1
      <4> QED
        BY <4>1, <4>2
    <3> QED
      BY <3>2, <3>3, <3>4
  <2>4. ASSUME NEW n \in 1..Len(kept) - excess PROVE o[n] = kept[excess + n]
    <3>1. n \in 1..Len(kept) - (excess + 1) + 1 /\ excess + 1 + n - 1 = excess + n
      BY <1>1
    <3> QED
      BY <2>2, <3>1
  <2> QED
    BY <2>2, <2>3, <2>4
<1>3. DOMAIN o = 1..Len(kept) - excess
  BY <1>2, LenProperties
<1> HIDE DEF o
<1>4. \A n, m \in DOMAIN o : n < m =>
        \E i, k \in DOMAIN kept : i < k /\ o[n] = kept[i] /\ o[m] = kept[k]
  <2> SUFFICES ASSUME NEW n \in DOMAIN o, NEW m \in DOMAIN o, n < m
               PROVE  \E i, k \in DOMAIN kept : i < k /\ o[n] = kept[i] /\ o[m] = kept[k]
    OBVIOUS
  <2>1. excess + n \in DOMAIN kept /\ excess + m \in DOMAIN kept /\ excess + n < excess + m
    BY <1>1, <1>3
  <2> QED
    BY <1>2, <1>3, <2>1
<1>5. \A i, j \in DOMAIN kept : kept[i][1] = kept[j][1] => i = j
  BY <1>1 DEF OrderedAs
<1>6. \A n \in DOMAIN o : \E i \in DOMAIN kept : o[n] = kept[i] /\ kept[i][1] \in DOMAIN e
  <2> SUFFICES ASSUME NEW n \in DOMAIN o
               PROVE  kept[excess + n][1] \in DOMAIN e /\ excess + n \in DOMAIN kept
    BY <1>2, <1>3
  <2>1. excess + n \in DOMAIN kept /\ excess + n > excess
    BY <1>1, <1>3
  <2>2. kept[excess + n][1] \in DOMAIN map
    BY <2>1 DEF OrderedAs
  <2>3. \A i \in 1..excess : i \in DOMAIN kept /\ kept[i][1] # kept[excess + n][1]
    BY <1>1, <1>5, <2>1
  <2> QED
    BY <2>1, <2>2, <2>3
<1>7. \A i \in DOMAIN kept : kept[i][1] \in DOMAIN e => \E n \in DOMAIN o : o[n] = kept[i]
  <2> SUFFICES ASSUME NEW i \in DOMAIN kept, kept[i][1] \in DOMAIN e
               PROVE  \E n \in DOMAIN o : o[n] = kept[i]
    OBVIOUS
  <2>1. i \notin 1..excess
    OBVIOUS
  <2>2. i - excess \in DOMAIN o /\ excess + (i - excess) = i
    BY <1>1, <1>3, <2>1
  <2> QED
    BY <1>2, <1>3, <2>2
<1>8. DOMAIN e \subseteq DOMAIN map
  OBVIOUS
<1>9. OrderedAs(o, e, last)
  <2>1. o \in Seq(Pair) /\ \A x \in DOMAIN e : e[x] = map[x]
    BY <1>2
  <2>2. Thins(kept, map, o, e)
    BY <1>4, <1>6, <1>7, <1>8, <2>1 DEF Thins
  <2> QED
    BY <2>2, OrderIsThinned
<1> QED
  BY <1>2, <1>9 DEF o

\* o and e have a new entry of id behind the others,
Appends(ord, map, last, id, act, o, e) ==
  /\ o = Append(ord, <<id, last + 1>>)
  /\ e = With(map, id, [token |-> last + 1, act |-> act])

\* and have it once, under the next token.
Entered(ord, map, last, id, act, o, e) ==
  /\ OrderedAs(o, e, last + 1)
  /\ Len(o) = Len(ord) + 1
  /\ DOMAIN e = DOMAIN map \union {id}
  /\ e[id] = [token |-> last + 1, act |-> act]
  /\ \A x \in DOMAIN map : e[x] = map[x]

\* A new entry has a token behind all others.
LEMMA AppendedIsOrdered ==
  ASSUME NEW ord, NEW map, NEW last, last \in Nat, OrderedAs(ord, map, last),
         NEW id \in Identifiers, id \notin DOMAIN map, NEW act,
         NEW o, NEW e, Appends(ord, map, last, id, act, o, e)
  PROVE  Entered(ord, map, last, id, act, o, e)
<1>1. /\ ord \in Seq(Pair) /\ Len(ord) \in Nat /\ DOMAIN ord = 1..Len(ord)
      /\ \A i \in DOMAIN ord : ord[i] \in Pair
  BY LenProperties, ElementOfSeq DEF OrderedAs
<1>2. <<id, last + 1>> \in Pair
  BY DEF Pair
<1>3. /\ o \in Seq(Pair) /\ Len(o) = Len(ord) + 1 /\ o[Len(ord) + 1] = <<id, last + 1>>
      /\ \A i \in 1..Len(ord) : o[i] = ord[i]
  BY <1>1, <1>2, AppendProperties DEF Appends
<1>4. DOMAIN o = 1..Len(ord) + 1
  BY <1>3, LenProperties
<1>5. /\ DOMAIN e = DOMAIN map \union {id} /\ e[id] = [token |-> last + 1, act |-> act]
      /\ \A x \in DOMAIN map : e[x] = map[x]
  BY DEF With, Appends
<1>6. \A i \in 1..Len(ord) : /\ ord[i][1] \in DOMAIN map /\ ord[i][2] = map[ord[i][1]].token
                             /\ ord[i][2] <= last /\ ord[i][2] \in Nat
  BY <1>1 DEF OrderedAs, Pair
<1>7. ASSUME NEW i \in DOMAIN o, NEW j \in DOMAIN o, i < j
      PROVE  o[i][1] # o[j][1] /\ o[i][2] < o[j][2]
  <2>1. i \in 1..Len(ord) /\ (j \in 1..Len(ord) \/ j = Len(ord) + 1)
    BY <1>1, <1>4, <1>7
  <2>2. CASE j \in 1..Len(ord)
    BY <1>1, <1>3, <1>7, <2>1, <2>2 DEF OrderedAs
  <2>3. CASE j = Len(ord) + 1
    <3>1. o[i] = ord[i] /\ o[j] = <<id, last + 1>>
      BY <1>3, <2>1, <2>3
    <3>2. ord[i][1] # id /\ ord[i][2] < last + 1
      BY <1>6, <2>1
    <3> QED
      BY <3>1, <3>2
  <2> QED
    BY <2>1, <2>2, <2>3
<1>8. ASSUME NEW i \in DOMAIN o
      PROVE  o[i][1] \in DOMAIN e /\ o[i][2] = e[o[i][1]].token /\ o[i][2] <= last + 1
  <2>1. CASE i \in 1..Len(ord)
    <3>1. o[i] = ord[i]
      BY <1>3, <2>1
    <3>2. ord[i][1] \in DOMAIN map /\ ord[i][2] = map[ord[i][1]].token /\ ord[i][2] <= last + 1
      BY <1>6, <2>1
    <3> QED
      BY <1>5, <3>1, <3>2
  <2>2. CASE i = Len(ord) + 1
    BY <1>3, <1>5, <2>2
  <2> QED
    BY <1>1, <1>4, <2>1, <2>2
<1>9. \A x \in DOMAIN e : \E i \in DOMAIN o : o[i][1] = x
  <2> SUFFICES ASSUME NEW x \in DOMAIN e PROVE \E i \in DOMAIN o : o[i][1] = x
    OBVIOUS
  <2>1. CASE x = id
    <3>1. Len(ord) + 1 \in DOMAIN o /\ o[Len(ord) + 1][1] = id
      BY <1>1, <1>3, <1>4
    <3> QED
      BY <2>1, <3>1
  <2>2. CASE x \in DOMAIN map
    <3>1. PICK i \in DOMAIN ord : ord[i][1] = x
      BY <2>2 DEF OrderedAs
    <3>2. i \in DOMAIN o /\ o[i][1] = x
      BY <1>1, <1>3, <1>4, <3>1
    <3> QED
      BY <3>2
  <2> QED
    BY <1>5, <2>1, <2>2
<1>10. OrderedAs(o, e, last + 1)
  <2>1. DOMAIN e \subseteq Identifiers
    BY <1>5 DEF OrderedAs
  <2> QED
    BY <1>3, <1>7, <1>8, <1>9, <2>1 DEF OrderedAs
<1> QED
  BY <1>3, <1>5, <1>10 DEF Entered

-----------------------------------------------------------------------------
(* What a step leaves as it should be *)

\* The registry is as it was, or has lost an entry with its place.
LEMMA RemovedIsOrdered ==
  ASSUME EntriesAreOrdered, NEW id, order' = Forgotten(order, id), entries' = Lacking(entries, id),
         nextToken' = nextToken
  PROVE  EntriesAreOrdered'
<1>1. /\ OrderedAs(order', entries', nextToken) /\ Len(order') <= Len(order)
  BY ForgottenIsOrdered
<1>2. Len(order') \in Nat /\ Len(order) \in Nat
  BY <1>1, LenProperties DEF EntriesAreOrdered, OrderedAs
<1>3. Len(order') <= MaxActivations
  BY <1>1, <1>2, NoticesAssumption DEF EntriesAreOrdered
<1> QED
  BY <1>1, <1>3 DEF EntriesAreOrdered

\* remove_if takes the entry of its token, with its place.
LEMMA RemovedIfKeeps ==
  ASSUME EntriesAreOrdered, NEW id, NEW token, RemovedIf(id, token), nextToken' = nextToken
  PROVE  /\ EntriesAreOrdered'
         /\ \/ entries' = entries /\ (id \in DOMAIN entries => entries[id].token # token)
            \/ entries' = Lacking(entries, id)
<1>1. CASE id \in DOMAIN entries /\ entries[id].token = token
  <2> DEFINE one == {i \in DOMAIN order : order[i] # <<id, token>>}
             all == {i \in DOMAIN order : order[i][1] # id}
  <2>1. \A i \in DOMAIN order : order[i] = <<order[i][1], order[i][2]>>
                                 /\ (order[i][1] = id => order[i][2] = token)
    <3>1. order \in Seq(Pair)
      BY DEF EntriesAreOrdered, OrderedAs
    <3>2. \A i \in DOMAIN order : order[i] \in Pair
      BY <3>1, LenProperties, ElementOfSeq
    <3>3. \A i \in DOMAIN order : order[i] = <<order[i][1], order[i][2]>>
      BY <3>2 DEF Pair
    <3> QED
      BY <1>1, <3>3 DEF EntriesAreOrdered, OrderedAs
  <2>2. one = all
    BY <2>1
  <2>3. order' = Retained(order, one) /\ entries' = Lacking(entries, id)
    BY <1>1 DEF RemovedIf
  <2>4. order' = Forgotten(order, id)
    BY <2>2, <2>3 DEF Forgotten
  <2> QED
    BY <2>3, <2>4, RemovedIsOrdered
<1>2. CASE ~(id \in DOMAIN entries /\ entries[id].token = token)
  BY <1>2 DEF RemovedIf, EntriesAreOrdered
<1> QED
  BY <1>1, <1>2

\* A notice takes the place of its predecessor, and the oldest make room for it.
LEMMA ReplacedKeeps ==
  ASSUME EntriesAreOrdered, NEW id \in Identifiers, NEW act \in Activations \union {Nothing},
         Replaced(id, act)
  PROVE  /\ EntriesAreOrdered'
         /\ DOMAIN entries' \subseteq DOMAIN entries \union {id}
         /\ \A x \in DOMAIN entries' \ {id} : entries'[x] = entries[x]
         /\ id \in DOMAIN entries' => act # Nothing /\ entries'[id] = [token |-> nextToken', act |-> act]
<1> DEFINE kept == Forgotten(order, id)
           map == Lacking(entries, id)
<1>1. /\ OrderedAs(kept, map, nextToken) /\ Len(kept) <= Len(order)
      /\ DOMAIN map = DOMAIN entries \ {id} /\ \A x \in DOMAIN map : map[x] = entries[x]
  BY ForgottenIsOrdered
<1>2. CASE act = Nothing
  <2>1. entries' = map /\ order' = kept /\ nextToken' = nextToken
    BY <1>2 DEF Replaced
  <2>2. EntriesAreOrdered'
    BY <2>1, RemovedIsOrdered
  <2> QED
    BY <1>1, <2>1, <2>2
<1>3. CASE act # Nothing
  <2> DEFINE excess == IF Len(kept) < MaxActivations THEN 0 ELSE Len(kept) - MaxActivations + 1
             oldest == {kept[i][1] : i \in 1..excess}
             rest == Restrict(entries, DOMAIN entries \ (oldest \union {id}))
             recent == SubSeq(kept, excess + 1, Len(kept))
  <2>1. /\ nextToken' = nextToken + 1
        /\ order' = Append(recent, <<id, nextToken + 1>>)
        /\ entries' = With(rest, id, [token |-> nextToken + 1, act |-> act])
    BY <1>3 DEF Replaced
  <2>2. Len(kept) \in Nat /\ Len(order) \in Nat /\ nextToken \in Nat
    BY <1>1, LenProperties DEF EntriesAreOrdered, OrderedAs
  <2>3. excess \in 0..Len(kept) /\ Len(kept) - excess + 1 <= MaxActivations
    <3> HIDE DEF kept
    <3> QED
      BY <2>2, NoticesAssumption
  <2>4. DOMAIN rest = DOMAIN map \ oldest /\ \A x \in DOMAIN rest : rest[x] = entries[x]
    BY <1>1 DEF Restrict
  <2> HIDE DEF kept, map, excess, rest, recent
  <2>5. \A x \in DOMAIN rest : rest[x] = map[x]
    BY <1>1, <2>4
  <2>6. OrderedAs(recent, rest, nextToken) /\ Len(recent) = Len(kept) - excess
    BY <1>1, <2>3, <2>4, <2>5, LatestAreOrdered DEF recent
  <2>7. id \notin DOMAIN rest
    BY <1>1, <2>4
  <2>8. /\ OrderedAs(order', entries', nextToken') /\ Len(order') = Len(recent) + 1
        /\ DOMAIN entries' = DOMAIN rest \union {id}
        /\ entries'[id] = [token |-> nextToken', act |-> act]
        /\ \A x \in DOMAIN rest : entries'[x] = rest[x]
    <3>1. Appends(recent, rest, nextToken, id, act, order', entries')
      BY <2>1 DEF Appends
    <3>2. nextToken \in Nat /\ OrderedAs(recent, rest, nextToken)
      BY <2>2, <2>6
    <3>3. Entered(recent, rest, nextToken, id, act, order', entries')
      BY <3>1, <3>2, <2>7, AppendedIsOrdered
    <3> QED
      BY <2>1, <3>3 DEF Entered
  <2>9. EntriesAreOrdered'
    BY <2>1, <2>2, <2>3, <2>6, <2>8 DEF EntriesAreOrdered
  <2> QED
    BY <1>1, <1>3, <2>4, <2>8, <2>9
<1> QED
  BY <1>2, <1>3

-----------------------------------------------------------------------------

\* At the start nothing is registered.
LEMMA NoticesStart ==
  ASSUME InitNotices
  PROVE  NoticesInd
<1>1. << >> \in Seq(Pair) /\ Len(<< >>) = 0 /\ DOMAIN << >> = {}
  BY EmptySeq
<1>2. OrderedAs(order, entries, nextToken)
  BY <1>1 DEF InitNotices, OrderedAs
<1> QED
  BY <1>1, <1>2, NoticesAssumption
     DEF InitNotices, NoticesInd, EntriesAreOrdered, SendingIsOwn, ShownIsOwn

\* Every step.
LEMMA NoticesAreKept ==
  ASSUME NoticesInd, [NextNotices]_noticeVars
  PROVE  NoticesInd'
<1> USE DEF NoticesInd
<1>1. CASE BeginRetry \/ FinishRetry \/ RetryIsDue \/ UNCHANGED noticeVars
  <2>1. UNCHANGED <<registryVars, sending, shown>> /\ (callback = "installed" => callback' = "installed")
    BY <1>1 DEF BeginRetry, FinishRetry, RetryIsDue, noticeVars
  <2> QED
    BY <2>1 DEF EntriesAreOrdered, SendingIsOwn, ShownIsOwn, registryVars
<1>2. CASE BeginSend
  <2>1. PICK id \in Identifiers, act \in Activations \union {Nothing} :
          /\ sending = Idle /\ callback' = callback /\ shown' = shown
          /\ act # Nothing => callback = "installed"
          /\ IF callback = "installed" THEN Replaced(id, act) ELSE UNCHANGED registryVars
          /\ sending' = [id |-> id, act |-> act, token |-> nextToken']
    BY <1>2 DEF BeginSend
  <2>2. sending'.id = id /\ sending'.act = act /\ sending'.token = nextToken'
    BY <2>1
  <2>3. CASE callback = "installed"
    <3>1. /\ EntriesAreOrdered'
          /\ DOMAIN entries' \subseteq DOMAIN entries \union {id}
          /\ \A x \in DOMAIN entries' \ {id} : entries'[x] = entries[x]
          /\ id \in DOMAIN entries' => act # Nothing /\ entries'[id] = [token |-> nextToken', act |-> act]
      BY <2>1, <2>3, ReplacedKeeps
    <3>2. SendingIsOwn'
      BY <2>1, <2>2, <2>3, <3>1 DEF SendingIsOwn
    <3>3. \A x \in DOMAIN entries : x # sending.id
      BY <2>1, NoticesAssumption DEF EntriesAreOrdered, OrderedAs, Idle
    <3>4. ShownIsOwn'
      BY <2>1, <2>2, <3>1, <3>3 DEF ShownIsOwn
    <3> QED
      BY <3>1, <3>2, <3>4
  <2>4. CASE callback # "installed"
    <3>1. UNCHANGED registryVars /\ DOMAIN entries = {}
      BY <2>1, <2>4 DEF SendingIsOwn
    <3> QED
      BY <2>1, <2>2, <2>4, <3>1 DEF EntriesAreOrdered, SendingIsOwn, ShownIsOwn, registryVars
  <2> QED
    BY <2>3, <2>4
<1>3. CASE Sent
  <2>1. /\ sending # Idle /\ sending' = Idle /\ UNCHANGED <<callback, registryVars>>
        /\ shown' = With(shown, sending.id, sending.act)
    BY <1>3 DEF Sent
  <2>2. /\ DOMAIN shown' = DOMAIN shown \union {sending.id} /\ shown'[sending.id] = sending.act
        /\ \A x \in DOMAIN shown \ {sending.id} : shown'[x] = shown[x]
    BY <2>1 DEF With
  <2>3. sending.id \in DOMAIN entries => entries[sending.id].act = sending.act
    BY <2>1 DEF SendingIsOwn
  <2>4. EntriesAreOrdered'
    BY <2>1 DEF EntriesAreOrdered, registryVars
  <2>5. SendingIsOwn'
    BY <2>1 DEF SendingIsOwn, registryVars
  <2>6. ShownIsOwn'
    <3>1. entries' = entries
      BY <2>1 DEF registryVars
    <3> QED
      BY <2>2, <2>3, <3>1 DEF ShownIsOwn
  <2> QED
    BY <2>4, <2>5, <2>6
<1>4. CASE SendFails
  <2>1. sending # Idle /\ sending' = Idle /\ UNCHANGED <<callback, nextToken, shown>>
    BY <1>4 DEF SendFails
  <2>2. EntriesAreOrdered' /\ (entries' = entries \/ entries' = Lacking(entries, sending.id))
        /\ (entries' = entries => sending.id \notin DOMAIN entries)
    <3>1. CASE sending.act = Nothing
      BY <1>4, <2>1, <3>1 DEF SendFails, EntriesAreOrdered, SendingIsOwn
    <3>2. CASE sending.act # Nothing
      <4>1. RemovedIf(sending.id, sending.token)
        BY <1>4, <3>2 DEF SendFails
      <4>2. /\ EntriesAreOrdered'
            /\ \/ entries' = entries /\ (sending.id \in DOMAIN entries => entries[sending.id].token # sending.token)
               \/ entries' = Lacking(entries, sending.id)
        BY <2>1, <4>1, RemovedIfKeeps
      <4>3. sending.id \in DOMAIN entries => entries[sending.id].token = sending.token
        BY <2>1 DEF SendingIsOwn
      <4>4. Lacking(entries, sending.id) = entries => sending.id \notin DOMAIN entries
        BY DEF Lacking, Restrict
      <4> QED
        BY <4>2, <4>3, <4>4
    <3> QED
      BY <3>1, <3>2
  <2>3. DOMAIN entries' \subseteq DOMAIN entries \ {sending.id} /\ \A x \in DOMAIN entries' : entries'[x] = entries[x]
    BY <2>2 DEF Lacking, Restrict
  <2>4. SendingIsOwn'
    BY <2>1, <2>3 DEF SendingIsOwn
  <2>5. ShownIsOwn'
    BY <2>1, <2>3 DEF ShownIsOwn
  <2> QED
    BY <2>2, <2>4, <2>5
<1>5. CASE Respond
  <2>1. PICK id \in DOMAIN shown :
          /\ callback = "installed" /\ UNCHANGED <<callback, nextToken, sending>>
          /\ order' = Forgotten(order, id) /\ entries' = Lacking(entries, id)
          /\ shown' = Lacking(shown, id)
    BY <1>5 DEF Respond, Taken
  <2>2. EntriesAreOrdered'
    BY <2>1, RemovedIsOrdered
  <2>3. /\ DOMAIN entries' = DOMAIN entries \ {id} /\ \A x \in DOMAIN entries' : entries'[x] = entries[x]
        /\ DOMAIN shown' = DOMAIN shown \ {id} /\ \A x \in DOMAIN shown' : shown'[x] = shown[x]
    BY <2>1 DEF Lacking, Restrict
  <2>4. SendingIsOwn'
    BY <2>1, <2>3 DEF SendingIsOwn
  <2>5. ShownIsOwn'
    BY <2>1, <2>3 DEF ShownIsOwn
  <2> QED
    BY <2>2, <2>4, <2>5
<1>6. CASE Vanish
  <2>1. PICK id \in DOMAIN shown : shown' = Lacking(shown, id) /\ UNCHANGED <<callback, registryVars, sending>>
    BY <1>6 DEF Vanish
  <2>2. DOMAIN shown' = DOMAIN shown \ {id} /\ \A x \in DOMAIN shown' : shown'[x] = shown[x]
    BY <2>1 DEF Lacking, Restrict
  <2> QED
    BY <2>1, <2>2 DEF EntriesAreOrdered, SendingIsOwn, ShownIsOwn, registryVars
<1> QED
  BY <1>1, <1>2, <1>3, <1>4, <1>5, <1>6 DEF NextNotices

\* The invariant says what the run checks.
LEMMA NoticesIndMeans ==
  ASSUME NoticesInd
  PROVE  ClicksAreOwn
<1>1. /\ order \in Seq(Pair) /\ Len(order) \in Nat /\ DOMAIN order = 1..Len(order)
      /\ \A i \in DOMAIN order : order[i] \in Pair
  BY LenProperties, ElementOfSeq DEF NoticesInd, EntriesAreOrdered, OrderedAs
<1>2. \A i \in DOMAIN order : /\ order[i][1] \in DOMAIN entries
                              /\ order[i] = <<order[i][1], entries[order[i][1]].token>>
  BY <1>1 DEF NoticesInd, EntriesAreOrdered, OrderedAs, Pair
<1>3. \A id \in DOMAIN entries : \E i \in DOMAIN order : order[i][1] = id
  BY DEF NoticesInd, EntriesAreOrdered, OrderedAs
<1>4. {order[i] : i \in 1..Len(order)} = {<<id, entries[id].token>> : id \in DOMAIN entries}
  <2>1. ASSUME NEW i \in 1..Len(order) PROVE order[i] \in {<<id, entries[id].token>> : id \in DOMAIN entries}
    BY <1>1, <1>2
  <2>2. ASSUME NEW id \in DOMAIN entries PROVE <<id, entries[id].token>> \in {order[i] : i \in 1..Len(order)}
    BY <1>1, <1>2, <1>3
  <2> QED
    BY <2>1, <2>2
<1>5. Cardinality(DOMAIN entries) <= MaxActivations
  <2> DEFINE f == [i \in 1..Len(order) |-> order[i][1]]
  <2>1. f \in Surjection(1..Len(order), DOMAIN entries)
    BY <1>1, <1>2, <1>3 DEF Surjection
  <2>2. IsFiniteSet(1..Len(order)) /\ Cardinality(1..Len(order)) = Len(order)
    <3>1. PICK n \in Nat : n = Len(order)
      BY <1>1
    <3>2. IsFiniteSet(1..n) /\ Cardinality(1..n) = IF 1 > n THEN 0 ELSE n - 1 + 1
      BY FS_Interval, 1 \in Int, n \in Int
    <3>3. Cardinality(1..n) = n
      BY <3>2
    <3> QED
      BY <3>1, <3>2, <3>3
  <2> HIDE DEF f
  <2>3. Cardinality(DOMAIN entries) <= Len(order) /\ Cardinality(DOMAIN entries) \in Nat
    BY <2>1, <2>2, FS_Surjection, FS_CardinalityType
  <2> QED
    BY <1>1, <2>3, NoticesAssumption DEF NoticesInd, EntriesAreOrdered
<1> QED
  BY <1>1, <1>4, <1>5 DEF NoticesInd, EntriesAreOrdered, OrderedAs, ShownIsOwn, ClicksAreOwn

\* However many notices are sent, replaced, answered and forgotten, under the same hash or
\* not: the order has each entry once and the oldest first, there are no more than
\* MaxActivations, and a click opens what its notice was sent with (notifier.rs
\* SystemActivationRegistry).
THEOREM ClicksStayOwn == Notices => []ClicksAreOwn
<1>1. InitNotices => NoticesInd
  BY NoticesStart
<1>2. NoticesInd /\ [NextNotices]_noticeVars => NoticesInd'
  BY NoticesAreKept
<1>3. NoticesInd => ClicksAreOwn
  BY NoticesIndMeans
<1> QED
  BY <1>1, <1>2, <1>3, PTL DEF Notices

-------------------------------------------------------------------------------
USE ApprovalAssumption

\* A request's banner takes the place of its predecessor or the last one: none makes room.
LEMMA PutAdds ==
  ASSUME NEW q \in Seq(Banner), NEW h \in Hooks
  PROVE  /\ Put(q, RequestBanner(h)) \in Seq(Banner)
         /\ IdsOf(Put(q, RequestBanner(h))) \subseteq IdsOf(q) \union {h}
<1> DEFINE b == RequestBanner(h)
<1>1. b \in Banner /\ b.id = h /\ b.approval = TRUE
  BY DEF RequestBanner, Banner
<1>2. Len(q) \in Nat /\ DOMAIN q = 1..Len(q) /\ \A i \in DOMAIN q : q[i] \in Banner
  BY LenProperties, ElementOfSeq
<1>3. CASE b.id \in IdsOf(q)
  <2> DEFINE replaced == [i \in DOMAIN q |-> IF q[i].id = b.id THEN b ELSE q[i]]
  <2>1. Put(q, b) = replaced
    BY <1>3 DEF Put
  <2>2. \A i \in 1..Len(q) : replaced[i] \in Banner
    BY <1>1, <1>2
  <2>3. replaced \in Seq(Banner)
    BY <1>2, <2>2, IsASeq
  <2>4. \A i \in DOMAIN q : replaced[i].id = q[i].id
    BY <1>1
  <2>5. DOMAIN replaced = DOMAIN q
    OBVIOUS
  <2>6. IdsOf(replaced) \subseteq IdsOf(q)
    <3> HIDE DEF replaced
    <3> QED
      BY <2>4, <2>5 DEF IdsOf, ToSet
  <2> QED
    BY <2>1, <2>3, <2>6
<1>4. CASE b.id \notin IdsOf(q)
  <2>1. Evicted(q, b) = 0
    BY <1>1 DEF Evicted, Passive
  <2>2. Put(q, b) = Append(q, b)
    BY <1>4, <2>1 DEF Put
  <2>3. Append(q, b) \in Seq(Banner)
    BY <1>1, AppendProperties
  <2>4. /\ DOMAIN Append(q, b) = 1..(Len(q) + 1)
        /\ \A i \in 1..Len(q) : Append(q, b)[i] = q[i]
        /\ Append(q, b)[Len(q) + 1] = b
    BY <1>1, <1>2, AppendProperties, LenProperties
  <2>5. \A i \in 1..(Len(q) + 1) : i \in DOMAIN q \/ i = Len(q) + 1
    BY <1>2
  <2>6. \A i \in DOMAIN Append(q, b) : Append(q, b)[i].id \in IdsOf(q) \union {h}
    BY <1>1, <1>2, <2>4, <2>5 DEF IdsOf, ToSet
  <2>7. IdsOf(Append(q, b)) \subseteq IdsOf(q) \union {h}
    BY <2>6 DEF IdsOf, ToSet
  <2> QED
    BY <2>2, <2>3, <2>7
<1> QED
  BY <1>3, <1>4

\* The ids of banners are requests.
LEMMA IdsAreHooks ==
  ASSUME NEW q \in Seq(Banner)
  PROVE  IdsOf(q) \subseteq Hooks
<1>1. \A i \in DOMAIN q : q[i] \in Banner
  BY ElementOfSeq, LenProperties
<1> QED
  BY <1>1 DEF IdsOf, ToSet, Banner

-------------------------------------------------------------------------------

\* Where a handler still has to take its banner away.
AtWork == {"waiting", "expire", "cleanup"}

\* Where it has shown it.
HasShown == AtWork \union {"reply", "done"}

Both == {"window", "page"}

\* Only a request whose handler is going to dismiss it has a banner.
QueuedAreAtWork == \A h \in IdsOf(queue) : handler[h] \in AtWork

\* Nothing is on its way to the window that was not shown by its handler.
DrawnWereShown == \A h \in IdsOf(drawn) \union IdsOf(window) : handler[h] \in HasShown

\* A request that was sent something is no longer in the registry, and does not come back.
SentAreOver ==
  \A h \in Hooks : channel[h] # {} => pending # h /\ handler[h] \notin {"none", "register"}

\* A request that is registered once approvals are off has yet to read that they are.
OffIsToBeRead == ~enabled /\ main # "cancel" /\ pending # "none" => handler[pending] = "settings"

\* Nobody has shown a request before its handler asked for it.
UnshownIsUnmarked ==
  pending # "none" /\ handler[pending] \in {"settings", "show"} => marks = {}

\* The marks, and everything said from them, follow what was really shown.
SaidIsSeen ==
  \A h \in Hooks : hook[h] # "done" =>
    /\ pending = h => marks \subseteq seen[h]
    /\ \A answer \in channel[h] : answer.presented => seen[h] = Both
    /\ reply[h].presented => seen[h] = Both
    /\ told[h].presented => seen[h] = Both

ApprovalInd ==
  /\ ApprovalTypeOK
  /\ QueuedAreAtWork
  /\ DrawnWereShown
  /\ SentAreOver
  /\ OffIsToBeRead
  /\ UnshownIsUnmarked
  /\ SaidIsSeen

\* Unavailable is an answer, whatever was presented.
LEMMA UnavailableIsAnswer ==
  /\ \A p \in BOOLEAN : /\ Unavailable(p) \in Answer
                        /\ Unavailable(p).presented = p /\ Unavailable(p).decision = "none"
  /\ Unavailable(FALSE) \in Answer /\ ~Unavailable(FALSE).presented
  /\ Unavailable(FALSE).decision = "none"
  BY DEF Unavailable, Answer

\* The invariant of the run follows.
LEMMA IndImpliesInv == ApprovalInd => ApprovalInv
<1> SUFFICES ASSUME ApprovalInd PROVE ApprovalInv
  OBVIOUS
<1> USE DEF ApprovalInd
<1>1. NoOrphan
  BY DEF NoOrphan, QueuedAreAtWork, AtWork
<1>2. OffIsOff
  BY DEF OffIsOff, OffIsToBeRead, UnshownIsUnmarked, Decidable, Presented
<1>3. PresentedIsSeen
  BY DEF PresentedIsSeen, SaidIsSeen, Both
<1> QED
  BY <1>1, <1>2, <1>3 DEF ApprovalInv

\* It holds at first.
LEMMA InitIsInd == Init => ApprovalInd
<1> SUFFICES ASSUME Init PROVE ApprovalInd
  OBVIOUS
<1> USE NoneQueued DEF Init, BoardInit
<1>1. ApprovalTypeOK
  BY UnavailableIsAnswer DEF ApprovalTypeOK
<1>2. QueuedAreAtWork /\ DrawnWereShown
  BY DEF QueuedAreAtWork, DrawnWereShown
<1>3. SentAreOver /\ OffIsToBeRead /\ UnshownIsUnmarked
  BY DEF SentAreOver, OffIsToBeRead, UnshownIsUnmarked
<1>4. SaidIsSeen
  BY UnavailableIsAnswer DEF SaidIsSeen
<1> QED
  BY <1>1, <1>2, <1>3, <1>4 DEF ApprovalInd

\* What becomes of the hooks alone.
LEMMA HookSteps ==
  ASSUME ApprovalInd, NEW h \in Hooks, Connect(h) \/ Lost(h) \/ GiveUp(h) \/ Persist(h)
  PROVE  ApprovalInd'
<1> USE DEF ApprovalInd
<1>0. /\ queue' = queue /\ drawn' = drawn /\ window' = window
      /\ app' = app /\ enabled' = enabled /\ main' = main /\ todo' = todo /\ page' = page
      /\ pending' = pending /\ marks' = marks /\ handler' = handler
      /\ channel' = channel /\ reply' = reply /\ late' = late
  BY DEF Connect, Lost, GiveUp, Persist, boardVars, mainVars, brokerVars
<1>1. /\ \E place \in {"asked", "told", "done"} : hook' = [hook EXCEPT ![h] = place]
      /\ \E answer \in {told[h], Unavailable(FALSE)} : told' = [told EXCEPT ![h] = answer]
      /\ \/ decided' = decided /\ seen' = seen
         \/ /\ hook' = [hook EXCEPT ![h] = "done"]
            /\ decided' = [decided EXCEPT ![h] = "none"] /\ seen' = [seen EXCEPT ![h] = {}]
      /\ hook[h] # "done"
  <2>1. told = [told EXCEPT ![h] = told[h]]
    BY DEF ApprovalTypeOK
  <2> QED
    BY <2>1 DEF Connect, Lost, GiveUp, Persist, Hears, ghostVars
<1>2. ApprovalTypeOK'
  <2>1. hook' \in [Hooks -> {"idle", "asked", "told", "done"}]
    BY <1>1 DEF ApprovalTypeOK
  <2>2. told' \in [Hooks -> Answer]
    <3>1. told \in [Hooks -> Answer] /\ told[h] \in Answer
      BY DEF ApprovalTypeOK
    <3>2. \E answer \in Answer : told' = [told EXCEPT ![h] = answer]
      BY <1>1, <3>1, UnavailableIsAnswer
    <3> QED
      BY <3>1, <3>2
  <2>3. decided' \in [Hooks -> {"allow", "deny", "none"}] /\ seen' \in [Hooks -> SUBSET {"window", "page"}]
    BY <1>1 DEF ApprovalTypeOK
  <2> QED
    BY <1>0, <2>1, <2>2, <2>3 DEF ApprovalTypeOK
<1>3. (QueuedAreAtWork /\ DrawnWereShown /\ SentAreOver /\ OffIsToBeRead /\ UnshownIsUnmarked)'
  BY <1>0 DEF QueuedAreAtWork, DrawnWereShown, SentAreOver, OffIsToBeRead, UnshownIsUnmarked
<1>4. SaidIsSeen'
  <2> SUFFICES ASSUME NEW g \in Hooks, hook'[g] # "done"
               PROVE  (/\ pending = g => marks \subseteq seen[g]
                       /\ \A answer \in channel[g] : answer.presented => seen[g] = Both
                       /\ reply[g].presented => seen[g] = Both
                       /\ told[g].presented => seen[g] = Both)'
    BY DEF SaidIsSeen
  <2>1. hook[g] # "done" /\ seen'[g] = seen[g]
    BY <1>1 DEF ApprovalTypeOK
  <2>2. told'[g] = told[g] \/ ~told'[g].presented
    <3>1. PICK answer \in {told[h], Unavailable(FALSE)} : told' = [told EXCEPT ![h] = answer]
      BY <1>1
    <3>2. DOMAIN told = Hooks /\ ~Unavailable(FALSE).presented
      BY UnavailableIsAnswer DEF ApprovalTypeOK
    <3>3. told'[g] = IF g = h THEN answer ELSE told[g]
      BY <3>1, <3>2
    <3> QED
      BY <3>1, <3>2, <3>3
  <2> QED
    BY <1>0, <2>1, <2>2 DEF SaidIsSeen
<1> QED
  BY <1>2, <1>3, <1>4

\* A request comes in, or is told that there are too many.
LEMMA AcceptStep ==
  ASSUME ApprovalInd, NEW h \in Hooks, Accept(h)
  PROVE  ApprovalInd'
<1> USE DEF ApprovalInd
<1>0. /\ queue' = queue /\ drawn' = drawn /\ window' = window
      /\ app' = app /\ enabled' = enabled /\ main' = main /\ todo' = todo /\ page' = page
      /\ pending' = pending /\ marks' = marks /\ channel' = channel /\ reply' = reply /\ late' = late
      /\ decided' = decided /\ seen' = seen
  BY DEF Accept, boardVars, mainVars, ghostVars
<1>1. /\ handler[h] = "none" /\ hook[h] = "asked"
      /\ \/ /\ hook' = [hook EXCEPT ![h] = "told"] /\ told' = [told EXCEPT ![h] = Unavailable(FALSE)]
            /\ handler' = handler
         \/ handler' = [handler EXCEPT ![h] = "register"] /\ hook' = hook /\ told' = told
  BY DEF Accept, After, Hears, HandlerGoesTo, hookVars
<1>2. ApprovalTypeOK'
  <2>1. hook' \in [Hooks -> {"idle", "asked", "told", "done"}] /\ told' \in [Hooks -> Answer]
    <3>1. told \in [Hooks -> Answer] /\ hook \in [Hooks -> {"idle", "asked", "told", "done"}]
      BY DEF ApprovalTypeOK
    <3>2. Unavailable(FALSE) \in Answer
      BY UnavailableIsAnswer
    <3> QED
      BY <1>1, <3>1, <3>2
  <2>2. handler' \in [Hooks -> {"none", "register", "settings", "show", "waiting", "expire",
                                "cleanup", "reply", "done"}]
    <3>1. handler \in [Hooks -> {"none", "register", "settings", "show", "waiting", "expire",
                                 "cleanup", "reply", "done"}]
      BY DEF ApprovalTypeOK
    <3>2. handler' = handler \/ handler' = [handler EXCEPT ![h] = "register"]
      BY <1>1
    <3> QED
      BY <3>1, <3>2
  <2>3. pending # "none" => handler'[pending] = handler[pending]
    <3>1. pending # "none" => handler[pending] # "none"
      BY DEF ApprovalTypeOK
    <3>2. pending # "none" => pending # h
      BY <1>1, <3>1
    <3>3. \A g \in Hooks : g # h => handler'[g] = handler[g]
      BY <1>1 DEF ApprovalTypeOK
    <3>4. pending \in Hooks \union {"none"}
      BY DEF ApprovalTypeOK
    <3> QED
      BY <3>2, <3>3, <3>4
  <2>4. pending' # "none" =>
          handler'[pending'] \in {"settings", "show", "waiting", "expire"}
    BY <1>0, <2>3 DEF ApprovalTypeOK
  <2>5. /\ reply' \in [Hooks -> Answer] /\ late' \in [Hooks -> BOOLEAN]
        /\ decided' \in [Hooks -> {"allow", "deny", "none"}]
        /\ channel' \in [Hooks -> SUBSET Answer]
        /\ seen' \in [Hooks -> SUBSET {"window", "page"}]
    BY <1>0 DEF ApprovalTypeOK
  <2>6. /\ queue' \in Seq(Banner) /\ drawn' \in Seq(Banner) /\ window' \in Seq(Banner)
        /\ app' \in {"running", "stopping", "gone"} /\ enabled' \in BOOLEAN
        /\ main' \in {"idle", "present", "cancel", "dismiss", "join"} /\ todo' \subseteq Hooks
        /\ page' \in Hooks \union {"none"}
        /\ pending' \in Hooks \union {"none"} /\ marks' \subseteq {"window", "page"}
    BY <1>0 DEF ApprovalTypeOK
  <2> QED
    BY <2>1, <2>2, <2>4, <2>5, <2>6 DEF ApprovalTypeOK
<1>3. \A g \in Hooks : handler'[g] = handler[g] \/ (g = h /\ handler'[g] = "register")
  BY <1>1 DEF ApprovalTypeOK
<1>4. IdsOf(queue) \subseteq Hooks /\ IdsOf(drawn) \subseteq Hooks /\ IdsOf(window) \subseteq Hooks
  BY IdsAreHooks DEF ApprovalTypeOK
<1>5. QueuedAreAtWork' /\ DrawnWereShown'
  BY <1>0, <1>1, <1>3, <1>4 DEF QueuedAreAtWork, DrawnWereShown, AtWork, HasShown
<1>6. SentAreOver' /\ OffIsToBeRead' /\ UnshownIsUnmarked'
  BY <1>0, <1>1, <1>3 DEF SentAreOver, OffIsToBeRead, UnshownIsUnmarked, ApprovalTypeOK
<1>7. SaidIsSeen'
  <2> SUFFICES ASSUME NEW g \in Hooks, hook'[g] # "done"
               PROVE  (/\ pending = g => marks \subseteq seen[g]
                       /\ \A answer \in channel[g] : answer.presented => seen[g] = Both
                       /\ reply[g].presented => seen[g] = Both
                       /\ told[g].presented => seen[g] = Both)'
    BY DEF SaidIsSeen
  <2>1. hook[g] # "done"
    BY <1>1 DEF ApprovalTypeOK
  <2>2. told'[g] = told[g] \/ ~told'[g].presented
    BY <1>1, UnavailableIsAnswer DEF ApprovalTypeOK
  <2> QED
    BY <1>0, <2>1, <2>2 DEF SaidIsSeen
<1> QED
  BY <1>2, <1>5, <1>6, <1>7

\* Where the thread of a request is.
Places == {"none", "register", "settings", "show", "waiting", "expire", "cleanup", "reply", "done"}

\* Where it asks no more.
Closing == {"cleanup", "reply", "done"}

\* What no step of the thread of h touches.
OthersStay ==
  /\ drawn' = drawn /\ window' = window /\ app' = app /\ enabled' = enabled
  /\ main' = main /\ todo' = todo /\ page' = page /\ decided' = decided /\ seen' = seen

\* Its way: forward, with its banner only while it is at work.
Moves(h, place) ==
  /\ handler[h] \notin {"none", "done"} /\ place \in Places \ {"none", "register"}
  /\ handler' = [handler EXCEPT ![h] = place]
  /\ handler[h] \in HasShown => place \in HasShown
  /\ handler[h] \in Closing => place \in Closing
  /\ queue' \in Seq(Banner) /\ IdsOf(queue') \subseteq IdsOf(queue) \union {h}
  /\ h \in IdsOf(queue') => place \in AtWork
  /\ late' \in [Hooks -> BOOLEAN] /\ \A g \in Hooks : late'[g] => late[g] \/ MayBeLate

\* What it says: nothing that was not sent to it or shown.
Says(h, answer) ==
  /\ reply' = [reply EXCEPT ![h] = answer]
  /\ answer.presented => seen[h] = Both \/ hook[h] = "done"
  /\ answer.decision = "none" \/ answer \in {reply[h]} \union channel[h]
  /\ channel' = channel \/ (handler[h] = "cleanup" /\ channel' = [channel EXCEPT ![h] = {}])
  /\ \/ hook' = hook /\ told' = told
     \/ /\ handler[h] = "reply" /\ hook[h] = "asked" /\ hook' = [hook EXCEPT ![h] = "told"]
        /\ told' = [told EXCEPT ![h] = reply[h]]

\* Its request: registered, kept while it can be decided, or given up.
Keeps(h, place) ==
  \/ /\ handler[h] = "register" /\ place = "settings"
     /\ pending = "none" /\ pending' = h /\ marks' = {}
  \/ /\ pending' = pending /\ marks' = marks
     /\ pending = h => \/ handler[h] = "settings" /\ place = "show" /\ enabled
                       \/ handler[h] \in {"show", "waiting"} /\ place \in {"waiting", "expire"}
  \/ place \in Closing /\ pending = h /\ pending' = "none" /\ marks' = {}

StepsOfHandler(h) ==
  /\ OthersStay
  /\ \E place \in Places : Moves(h, place) /\ Keeps(h, place)
  /\ \E answer \in Answer : Says(h, answer)

\* A handler that leaves its answer alone says no more than it did.
LEMMA SilentSays ==
  ASSUME ApprovalInd, NEW h \in Hooks,
         reply' = reply, hook' = hook, told' = told,
         channel' = channel \/ (handler[h] = "cleanup" /\ channel' = [channel EXCEPT ![h] = {}])
  PROVE  \E answer \in Answer : Says(h, answer)
<1>1. reply \in [Hooks -> Answer]
  BY DEF ApprovalInd, ApprovalTypeOK
<1>2. reply' = [reply EXCEPT ![h] = reply[h]] /\ reply[h] \in Answer
  BY <1>1
<1>3. reply[h].presented => seen[h] = Both \/ hook[h] = "done"
  BY DEF ApprovalInd, SaidIsSeen
<1>4. Says(h, reply[h])
  BY <1>2, <1>3 DEF Says
<1> QED
  BY <1>2, <1>4

\* One that refuses says nothing.
LEMMA RefusalSays ==
  ASSUME NEW h, reply' = [reply EXCEPT ![h] = Unavailable(FALSE)],
         hook' = hook, told' = told, channel' = channel
  PROVE  \E answer \in Answer : Says(h, answer)
<1>1. /\ Unavailable(FALSE) \in Answer /\ ~Unavailable(FALSE).presented
      /\ Unavailable(FALSE).decision = "none"
  BY UnavailableIsAnswer
<1>2. Says(h, Unavailable(FALSE))
  BY <1>1 DEF Says
<1> QED
  BY <1>1, <1>2

\* Every step of handle_connection is one of those.
LEMMA HandlerStepIs ==
  ASSUME ApprovalInd, NEW h \in Hooks, HandlerStep(h)
  PROVE  StepsOfHandler(h)
<1>1. OthersStay
  BY DEF HandlerStep, Register, ReadSettings, ShowRequest, TakeAnswer, EndWait, Expire, Cleanup,
         WriteResponse, OnlyHandler, mainVars, OthersStay
<1>2. /\ queue \in Seq(Banner) /\ late \in [Hooks -> BOOLEAN] /\ handler \in [Hooks -> Places]
      /\ channel \in [Hooks -> SUBSET Answer] /\ reply \in [Hooks -> Answer] /\ MayBeLate \in BOOLEAN
  BY DEF ApprovalInd, ApprovalTypeOK, Places
<1>3. h \in IdsOf(queue) => handler[h] \in AtWork
  BY DEF ApprovalInd, QueuedAreAtWork
<1>4. pending = h => handler[h] \in {"settings", "show", "waiting", "expire"}
  BY DEF ApprovalInd, ApprovalTypeOK
<1> DEFINE Goes == \E place \in Places : Moves(h, place) /\ Keeps(h, place)
           Answers == \E answer \in Answer : Says(h, answer)
<1>5. CASE Register(h)
  <2>1. /\ handler[h] = "register" /\ queue' = queue /\ channel' = channel /\ late' = late
        /\ hook' = hook /\ told' = told
    BY <1>5 DEF Register, hookVars
  <2>2. CASE pending = "none"
    <3>1. /\ pending' = h /\ marks' = {} /\ handler' = [handler EXCEPT ![h] = "settings"]
          /\ reply' = reply
      BY <1>5, <2>2 DEF Register, After, HandlerGoesTo
    <3>2. Moves(h, "settings")
      BY <1>2, <1>3, <2>1, <3>1 DEF Moves, HasShown, AtWork, Closing, Places
    <3>3. Keeps(h, "settings")
      BY <2>1, <2>2, <3>1 DEF Keeps, Closing
    <3>4. Goes
      BY <3>2, <3>3 DEF Places
    <3>5. Answers
      BY <2>1, <3>1, SilentSays
    <3> QED
      BY <1>1, <3>4, <3>5 DEF StepsOfHandler
  <2>3. CASE pending # "none"
    <3>1. /\ pending' = pending /\ marks' = marks /\ handler' = [handler EXCEPT ![h] = "reply"]
          /\ reply' = [reply EXCEPT ![h] = Unavailable(FALSE)]
      BY <1>5, <2>3 DEF Register, Replies, HandlerGoesTo
    <3>2. Moves(h, "reply")
      BY <1>2, <1>3, <2>1, <3>1 DEF Moves, HasShown, AtWork, Closing, Places
    <3>3. Keeps(h, "reply")
      BY <1>4, <2>1, <3>1 DEF Keeps, Closing
    <3>4. Goes
      BY <3>2, <3>3 DEF Places
    <3>5. Answers
      BY <2>1, <3>1, RefusalSays
    <3> QED
      BY <1>1, <3>4, <3>5 DEF StepsOfHandler
  <2> QED
    BY <2>2, <2>3
<1>6. CASE ReadSettings(h)
  <2>1. /\ handler[h] = "settings" /\ queue' = queue /\ channel' = channel /\ late' = late
        /\ hook' = hook /\ told' = told
    BY <1>6 DEF ReadSettings, hookVars
  <2>2. CASE enabled
    <3>1. /\ pending' = pending /\ marks' = marks /\ handler' = [handler EXCEPT ![h] = "show"]
          /\ reply' = reply
      BY <1>6, <2>2 DEF ReadSettings, After, HandlerGoesTo
    <3>2. Moves(h, "show")
      BY <1>2, <1>3, <2>1, <3>1 DEF Moves, HasShown, AtWork, Closing, Places
    <3>3. Keeps(h, "show")
      BY <2>1, <2>2, <3>1 DEF Keeps, Closing
    <3>4. Goes
      BY <3>2, <3>3 DEF Places
    <3>5. Answers
      BY <2>1, <3>1, SilentSays
    <3> QED
      BY <1>1, <3>4, <3>5 DEF StepsOfHandler
  <2>3. CASE ~enabled
    <3>1. /\ handler' = [handler EXCEPT ![h] = "reply"]
          /\ reply' = [reply EXCEPT ![h] = Unavailable(FALSE)]
          /\ \/ pending = h /\ pending' = "none" /\ marks' = {}
             \/ pending # h /\ pending' = pending /\ marks' = marks
      BY <1>6, <2>3 DEF ReadSettings, Replies, Expired, HandlerGoesTo
    <3>2. Moves(h, "reply")
      BY <1>2, <1>3, <2>1, <3>1 DEF Moves, HasShown, AtWork, Closing, Places
    <3>3. Keeps(h, "reply")
      BY <3>1 DEF Keeps, Closing
    <3>4. Goes
      BY <3>2, <3>3 DEF Places
    <3>5. Answers
      BY <2>1, <3>1, RefusalSays
    <3> QED
      BY <1>1, <3>4, <3>5 DEF StepsOfHandler
  <2> QED
    BY <2>2, <2>3
<1>7. CASE ShowRequest(h)
  <2>1. handler[h] = "show" /\ channel' = channel /\ hook' = hook /\ told' = told
    BY <1>7 DEF ShowRequest, hookVars
  <2>2. CASE Refused(queue, RequestBanner(h))
    <3>1. /\ handler' = [handler EXCEPT ![h] = "reply"] /\ queue' = queue /\ late' = late
          /\ reply' = [reply EXCEPT ![h] = Unavailable(FALSE)]
          /\ \/ pending = h /\ pending' = "none" /\ marks' = {}
             \/ pending # h /\ pending' = pending /\ marks' = marks
      BY <1>7, <2>2 DEF ShowRequest, Replies, Expired, HandlerGoesTo
    <3>2. Moves(h, "reply")
      BY <1>2, <1>3, <2>1, <3>1 DEF Moves, HasShown, AtWork, Closing, Places
    <3>3. Keeps(h, "reply")
      BY <3>1 DEF Keeps, Closing
    <3>4. Goes
      BY <3>2, <3>3 DEF Places
    <3>5. Answers
      BY <2>1, <3>1, RefusalSays
    <3> QED
      BY <1>1, <3>4, <3>5 DEF StepsOfHandler
  <2>3. CASE ~Refused(queue, RequestBanner(h))
    <3>1. /\ queue' = Put(queue, RequestBanner(h)) /\ handler' = [handler EXCEPT ![h] = "waiting"]
          /\ pending' = pending /\ marks' = marks /\ reply' = reply
          /\ \E l \in {FALSE, MayBeLate} : late' = [late EXCEPT ![h] = l]
      BY <1>7, <2>3 DEF ShowRequest, HandlerGoesTo
    <3>2. queue' \in Seq(Banner) /\ IdsOf(queue') \subseteq IdsOf(queue) \union {h}
      BY <1>2, <3>1, PutAdds
    <3>3. late' \in [Hooks -> BOOLEAN] /\ \A g \in Hooks : late'[g] => late[g] \/ MayBeLate
      BY <1>2, <3>1
    <3>4. Moves(h, "waiting")
      BY <2>1, <3>1, <3>2, <3>3 DEF Moves, HasShown, AtWork, Closing, Places
    <3>5. Keeps(h, "waiting")
      BY <2>1, <3>1 DEF Keeps, Closing
    <3>6. Goes
      BY <3>4, <3>5 DEF Places
    <3>7. Answers
      BY <2>1, <3>1, SilentSays
    <3> QED
      BY <1>1, <3>6, <3>7 DEF StepsOfHandler
  <2> QED
    BY <2>2, <2>3
<1>8. CASE TakeAnswer(h)
  <2> DEFINE answer == CHOOSE a \in channel[h] : TRUE
  <2>1. /\ handler[h] = "waiting" /\ channel[h] # {}
        /\ reply' = [reply EXCEPT ![h] = answer] /\ handler' = [handler EXCEPT ![h] = "cleanup"]
        /\ queue' = queue /\ pending' = pending /\ marks' = marks /\ channel' = channel /\ late' = late
        /\ hook' = hook /\ told' = told
    BY <1>8 DEF TakeAnswer, hookVars, HandlerGoesTo
  <2>2. pending # h
    BY <2>1 DEF ApprovalInd, SentAreOver
  <2>3. answer \in channel[h]
    BY <2>1
  <2> HIDE DEF answer
  <2>4. answer \in Answer /\ (answer.presented => seen[h] = Both \/ hook[h] = "done")
    BY <1>2, <2>3 DEF ApprovalInd, SaidIsSeen
  <2>5. Moves(h, "cleanup")
    BY <1>2, <1>3, <2>1 DEF Moves, HasShown, AtWork, Closing, Places
  <2>6. Keeps(h, "cleanup")
    BY <2>1, <2>2 DEF Keeps, Closing
  <2>7. Goes
    BY <2>5, <2>6 DEF Places
  <2>8. Says(h, answer)
    BY <2>1, <2>3, <2>4 DEF Says
  <2> QED
    BY <1>1, <2>4, <2>7, <2>8 DEF StepsOfHandler
<1>9. CASE EndWait(h)
  <2>1. /\ handler[h] = "waiting" /\ handler' = [handler EXCEPT ![h] = "expire"]
        /\ queue' = queue /\ pending' = pending /\ marks' = marks /\ channel' = channel
        /\ reply' = reply /\ late' = late /\ hook' = hook /\ told' = told
    BY <1>9 DEF EndWait, hookVars, HandlerGoesTo
  <2>2. Moves(h, "expire")
    BY <1>2, <1>3, <2>1 DEF Moves, HasShown, AtWork, Closing, Places
  <2>3. Keeps(h, "expire")
    BY <2>1 DEF Keeps, Closing
  <2>4. Goes
    BY <2>2, <2>3 DEF Places
  <2>5. Answers
    BY <2>1, SilentSays
  <2> QED
    BY <1>1, <2>4, <2>5 DEF StepsOfHandler
<1>10. CASE Expire(h)
  <2> DEFINE answer == Unavailable(pending = h /\ Presented)
  <2>1. /\ handler[h] = "expire" /\ handler' = [handler EXCEPT ![h] = "cleanup"]
        /\ reply' = [reply EXCEPT ![h] = answer]
        /\ \/ pending = h /\ pending' = "none" /\ marks' = {}
           \/ pending # h /\ pending' = pending /\ marks' = marks
        /\ queue' = queue /\ channel' = channel /\ late' = late /\ hook' = hook /\ told' = told
    BY <1>10 DEF Expire, Expired, hookVars, HandlerGoesTo
  <2>2. answer \in Answer /\ answer.presented = (pending = h /\ Presented) /\ answer.decision = "none"
    BY DEF Unavailable, Answer
  <2> HIDE DEF answer
  <2>3. seen \in [Hooks -> SUBSET Both]
    BY DEF ApprovalInd, ApprovalTypeOK, Both
  <2>4. answer.presented => seen[h] = Both \/ hook[h] = "done"
    <3> SUFFICES ASSUME answer.presented, hook[h] # "done" PROVE seen[h] = Both
      OBVIOUS
    <3>1. pending = h /\ marks = Both
      BY <2>2 DEF Presented, Both
    <3>2. Both \subseteq seen[h]
      BY <3>1 DEF ApprovalInd, SaidIsSeen
    <3> QED
      BY <2>3, <3>2
  <2>5. Moves(h, "cleanup")
    BY <1>2, <1>3, <2>1 DEF Moves, HasShown, AtWork, Closing, Places
  <2>6. Keeps(h, "cleanup")
    BY <2>1 DEF Keeps, Closing
  <2>7. Goes
    BY <2>5, <2>6 DEF Places
  <2>8. Says(h, answer)
    BY <2>1, <2>2, <2>4 DEF Says
  <2> QED
    BY <1>1, <2>2, <2>7, <2>8 DEF StepsOfHandler
<1>11. CASE Cleanup(h)
  <2>1. /\ handler[h] = "cleanup" /\ handler' = [handler EXCEPT ![h] = "reply"]
        /\ queue' = Without(queue, h) /\ channel' = [channel EXCEPT ![h] = {}]
        /\ \/ pending = h /\ pending' = "none" /\ marks' = {}
           \/ pending # h /\ pending' = pending /\ marks' = marks
        /\ reply' = reply /\ late' = late /\ hook' = hook /\ told' = told
    BY <1>11 DEF Cleanup, QueueAfter, Expired, hookVars, HandlerGoesTo
  <2>2. queue' \in Seq(Banner) /\ IdsOf(queue') \subseteq IdsOf(queue) \ {h}
    BY <1>2, <2>1, WithoutDrops
  <2>3. Moves(h, "reply")
    BY <1>2, <2>1, <2>2 DEF Moves, HasShown, AtWork, Closing, Places
  <2>4. Keeps(h, "reply")
    BY <2>1 DEF Keeps, Closing
  <2>5. Goes
    BY <2>3, <2>4 DEF Places
  <2>6. Answers
    BY <2>1, SilentSays
  <2> QED
    BY <1>1, <2>5, <2>6 DEF StepsOfHandler
<1>12. CASE WriteResponse(h)
  <2>1. /\ handler[h] = "reply" /\ handler' = [handler EXCEPT ![h] = "done"]
        /\ reply' = [reply EXCEPT ![h] = Unavailable(FALSE)]
        /\ queue' = queue /\ pending' = pending /\ marks' = marks /\ channel' = channel /\ late' = late
        /\ \/ hook' = hook /\ told' = told
           \/ /\ hook[h] = "asked" /\ hook' = [hook EXCEPT ![h] = "told"]
              /\ told' = [told EXCEPT ![h] = reply[h]]
    BY <1>12 DEF WriteResponse, Hears, hookVars, HandlerGoesTo
  <2>2. Moves(h, "done")
    BY <1>2, <1>3, <2>1 DEF Moves, HasShown, AtWork, Closing, Places
  <2>3. Keeps(h, "done")
    BY <1>4, <2>1 DEF Keeps, Closing
  <2>4. Goes
    BY <2>2, <2>3 DEF Places
  <2>5. Says(h, Unavailable(FALSE)) /\ Unavailable(FALSE) \in Answer
    BY <2>1, UnavailableIsAnswer DEF Says
  <2> QED
    BY <1>1, <2>4, <2>5 DEF StepsOfHandler
<1> QED
  BY <1>5, <1>6, <1>7, <1>8, <1>9, <1>10, <1>11, <1>12 DEF HandlerStep

\* The handlers keep the invariant.
LEMMA HandlerSteps ==
  ASSUME ApprovalInd, NEW h \in Hooks, HandlerStep(h)
  PROVE  ApprovalInd'
<1>1. PICK place \in Places, answer \in Answer :
        OthersStay /\ Moves(h, place) /\ Keeps(h, place) /\ Says(h, answer)
  BY HandlerStepIs DEF StepsOfHandler
<1>2. /\ handler \in [Hooks -> Places] /\ channel \in [Hooks -> SUBSET Answer]
      /\ reply \in [Hooks -> Answer] /\ told \in [Hooks -> Answer]
      /\ hook \in [Hooks -> {"idle", "asked", "told", "done"}]
      /\ pending \in Hooks \union {"none"} /\ marks \subseteq {"window", "page"}
      /\ pending # "none" => handler[pending] \in {"settings", "show", "waiting", "expire"}
  BY DEF ApprovalInd, ApprovalTypeOK, Places
<1>3. \A g \in Hooks : handler'[g] = IF g = h THEN place ELSE handler[g]
  BY <1>1, <1>2 DEF Moves
<1>4. \A g \in Hooks : channel'[g] = channel[g] \/ (g = h /\ channel'[g] = {})
  BY <1>1, <1>2 DEF Says
<1>5. ApprovalTypeOK'
  <2>1. handler' \in [Hooks -> Places]
    BY <1>1, <1>2 DEF Moves
  <2>2. reply' \in [Hooks -> Answer] /\ channel' \in [Hooks -> SUBSET Answer]
    BY <1>1, <1>2 DEF Says
  <2>3. hook' \in [Hooks -> {"idle", "asked", "told", "done"}] /\ told' \in [Hooks -> Answer]
    BY <1>1, <1>2 DEF Says
  <2>4. pending' \in Hooks \union {"none"} /\ marks' \subseteq {"window", "page"}
    BY <1>1, <1>2 DEF Keeps
  <2>5. pending' # "none" => handler'[pending'] \in {"settings", "show", "waiting", "expire"}
    BY <1>1, <1>2, <1>3 DEF Keeps
  <2>6. queue' \in Seq(Banner) /\ late' \in [Hooks -> BOOLEAN]
    BY <1>1 DEF Moves
  <2> QED
    BY <1>1, <2>1, <2>2, <2>3, <2>4, <2>5, <2>6 DEF ApprovalInd, ApprovalTypeOK, OthersStay, Places
<1>6. QueuedAreAtWork'
  <2>1. \A g \in IdsOf(queue') : handler'[g] \in AtWork
    <3> TAKE g \in IdsOf(queue')
    <3>1. g \in IdsOf(queue) \union {h} /\ g \in Hooks
      BY <1>1, IdsAreHooks DEF Moves
    <3> QED
      BY <1>1, <1>3, <3>1 DEF Moves, ApprovalInd, QueuedAreAtWork
  <2> QED
    BY <2>1 DEF QueuedAreAtWork
<1>7. DrawnWereShown'
  <2>1. IdsOf(drawn) \subseteq Hooks /\ IdsOf(window) \subseteq Hooks
    BY IdsAreHooks DEF ApprovalInd, ApprovalTypeOK
  <2> QED
    BY <1>1, <1>3, <2>1 DEF ApprovalInd, DrawnWereShown, Moves, OthersStay
<1>8. SentAreOver'
  <2> SUFFICES ASSUME NEW g \in Hooks, channel'[g] # {}
               PROVE  pending' # g /\ handler'[g] \notin {"none", "register"}
    BY DEF SentAreOver
  <2>1. channel[g] # {}
    BY <1>4
  <2>2. pending # g /\ handler[g] \notin {"none", "register"}
    BY <2>1 DEF ApprovalInd, SentAreOver
  <2>3. handler'[g] \notin {"none", "register"}
    BY <1>1, <1>3, <2>2 DEF Moves
  <2>4. pending' = h => g # h \/ pending = h
    BY <1>1, <2>2 DEF Keeps
  <2> QED
    BY <1>1, <2>2, <2>3, <2>4 DEF Keeps
<1>9. OffIsToBeRead' /\ UnshownIsUnmarked'
  BY <1>1, <1>2, <1>3 DEF ApprovalInd, OffIsToBeRead, UnshownIsUnmarked, Keeps, OthersStay
<1>10. SaidIsSeen'
  <2> SUFFICES ASSUME NEW g \in Hooks, hook'[g] # "done"
               PROVE  (/\ pending = g => marks \subseteq seen[g]
                       /\ \A a \in channel[g] : a.presented => seen[g] = Both
                       /\ reply[g].presented => seen[g] = Both
                       /\ told[g].presented => seen[g] = Both)'
    BY DEF SaidIsSeen
  <2>1. hook[g] # "done" /\ seen'[g] = seen[g]
    BY <1>1, <1>2 DEF Says, OthersStay
  <2>2. /\ pending = g => marks \subseteq seen[g]
        /\ \A a \in channel[g] : a.presented => seen[g] = Both
        /\ reply[g].presented => seen[g] = Both
        /\ told[g].presented => seen[g] = Both
    BY <2>1 DEF ApprovalInd, SaidIsSeen
  <2>3. pending' = g => marks' \subseteq seen[g]
    BY <1>1, <2>2 DEF Keeps
  <2>4. reply'[g] = reply[g] \/ (g = h /\ reply'[g] = answer)
    BY <1>1, <1>2 DEF Says
  <2>5. told'[g] = told[g] \/ (g = h /\ told'[g] = reply[g])
    BY <1>1, <1>2 DEF Says
  <2>6. reply'[g].presented => seen[g] = Both
    BY <1>1, <2>1, <2>2, <2>4 DEF Says
  <2> QED
    BY <1>4, <2>1, <2>2, <2>3, <2>5, <2>6
<1> QED
  BY <1>5, <1>6, <1>7, <1>8, <1>9, <1>10 DEF ApprovalInd

\* The main thread: the window and the page show what is in the queue.
LEMMA ShowingSteps ==
  ASSUME ApprovalInd, DrawBoard \/ PresentBoard \/ Fetch \/ Acknowledge
  PROVE  ApprovalInd'
<1>1. /\ queue \in Seq(Banner) /\ drawn \in Seq(Banner) /\ window \in Seq(Banner)
      /\ pending \in Hooks \union {"none"} /\ marks \subseteq {"window", "page"}
      /\ page \in Hooks \union {"none"} /\ seen \in [Hooks -> SUBSET {"window", "page"}]
      /\ pending # "none" => handler[pending] \in {"settings", "show", "waiting", "expire"}
  BY DEF ApprovalInd, ApprovalTypeOK
<1>2. /\ queue' = queue /\ app' = app /\ enabled' = enabled /\ todo' = todo
      /\ pending' = pending /\ handler' = handler /\ channel' = channel /\ reply' = reply
      /\ late' = late /\ hook' = hook /\ told' = told /\ decided' = decided
      /\ main # "cancel" /\ main' \in {"idle", "present"}
  BY DEF DrawBoard, PresentBoard, Fetch, Acknowledge, MainIdle, Draw, Present, See,
         boardVars, mainVars, brokerVars, hookVars, ghostVars
<1>3. /\ drawn' = drawn \/ drawn' = Visible(queue)
      /\ window' = window \/ window' = drawn
  BY DEF DrawBoard, PresentBoard, Fetch, Acknowledge, Draw, Present, boardVars
<1>4. /\ Visible(queue) \in Seq(Banner) /\ IdsOf(Visible(queue)) \subseteq IdsOf(queue)
      /\ IdsOf(queue) \subseteq Hooks /\ IdsOf(drawn) \subseteq Hooks
  BY <1>1, VisibleIsQueued, IdsAreHooks
<1>5. page' \in Hooks \union {"none"}
  <2>1. CASE Fetch
    <3> DEFINE asked == IdsOf(Visible(queue))
    <3>1. asked \subseteq Hooks
      BY <1>4
    <3> HIDE DEF asked
    <3>2. page' = IF asked = {} THEN "none" ELSE CHOOSE h \in asked : TRUE
      BY <2>1 DEF Fetch, asked
    <3> QED
      BY <3>1, <3>2
  <2>2. CASE DrawBoard \/ PresentBoard \/ Acknowledge
    BY <1>1, <2>2 DEF DrawBoard, PresentBoard, Acknowledge, mainVars
  <2> QED
    BY <2>1, <2>2
\* Who is shown, and by whom.
<1>6. \/ marks' = marks /\ seen' = seen
      \/ \E ids \in SUBSET Hooks, who \in {"window", "page"} :
           /\ marks' = MarkShown(ids, who) /\ See(ids, who)
           /\ \A h \in ids : handler[h] \in HasShown
  <2>1. CASE PresentBoard
    <3>1. /\ marks' = MarkShown(IdsOf(drawn), "window") /\ See(IdsOf(drawn), "window")
          /\ \A h \in IdsOf(drawn) : handler[h] \in HasShown
      BY <2>1 DEF PresentBoard, ApprovalInd, DrawnWereShown
    <3> QED
      BY <1>4, <3>1
  <2>2. CASE Acknowledge
    <3>1. /\ page \in IdsOf(queue) /\ marks' = MarkShown({page}, "page") /\ See({page}, "page")
      BY <2>2 DEF Acknowledge
    <3>2. {page} \in SUBSET Hooks /\ \A h \in {page} : handler[h] \in HasShown
      BY <1>4, <3>1 DEF ApprovalInd, QueuedAreAtWork, HasShown
    <3> QED
      BY <3>1, <3>2
  <2>3. CASE DrawBoard \/ Fetch
    BY <2>3 DEF DrawBoard, Fetch, brokerVars, ghostVars
  <2> QED
    BY <2>1, <2>2, <2>3
<1>7. /\ marks' \subseteq {"window", "page"} /\ seen' \in [Hooks -> SUBSET {"window", "page"}]
      /\ \A h \in Hooks : seen[h] \subseteq seen'[h]
  <2>1. CASE marks' = marks /\ seen' = seen
    BY <1>1, <2>1
  <2>2. ASSUME NEW ids \in SUBSET Hooks, NEW who \in {"window", "page"},
               marks' = MarkShown(ids, who), See(ids, who)
        PROVE  /\ marks' \subseteq {"window", "page"} /\ seen' \in [Hooks -> SUBSET {"window", "page"}]
               /\ \A h \in Hooks : seen[h] \subseteq seen'[h]
    <3>1. marks' = marks \/ marks' = marks \union {who}
      BY <2>2 DEF MarkShown
    <3>2. seen' = [h \in Hooks |-> IF h \in ids /\ hook[h] # "done" THEN seen[h] \union {who}
                                   ELSE seen[h]]
      BY <2>2 DEF See
    <3>3. \A h \in Hooks : seen'[h] = seen[h] \/ seen'[h] = seen[h] \union {who}
      BY <3>2
    <3>4. \A h \in Hooks : seen'[h] \in SUBSET {"window", "page"} /\ seen[h] \subseteq seen'[h]
      BY <1>1, <3>3
    <3> QED
      BY <1>1, <3>1, <3>2, <3>4
  <2> QED
    BY <1>6, <2>1, <2>2
<1>8. ApprovalTypeOK'
  BY <1>1, <1>2, <1>3, <1>4, <1>5, <1>7 DEF ApprovalInd, ApprovalTypeOK
<1>9. QueuedAreAtWork' /\ SentAreOver' /\ OffIsToBeRead'
  BY <1>2 DEF ApprovalInd, QueuedAreAtWork, SentAreOver, OffIsToBeRead
<1>10. DrawnWereShown'
  BY <1>2, <1>3, <1>4 DEF ApprovalInd, QueuedAreAtWork, DrawnWereShown, HasShown
<1>11. UnshownIsUnmarked'
  BY <1>1, <1>2, <1>6 DEF ApprovalInd, UnshownIsUnmarked, MarkShown, HasShown, AtWork
<1>12. SaidIsSeen'
  <2> SUFFICES ASSUME NEW h \in Hooks, hook'[h] # "done"
               PROVE  (/\ pending = h => marks \subseteq seen[h]
                       /\ \A answer \in channel[h] : answer.presented => seen[h] = Both
                       /\ reply[h].presented => seen[h] = Both
                       /\ told[h].presented => seen[h] = Both)'
    BY DEF SaidIsSeen
  <2>1. /\ pending = h => marks \subseteq seen[h]
        /\ \A answer \in channel[h] : answer.presented => seen[h] = Both
        /\ reply[h].presented => seen[h] = Both
        /\ told[h].presented => seen[h] = Both
    BY <1>2 DEF ApprovalInd, SaidIsSeen
  <2>2. seen[h] = Both => seen'[h] = Both
    BY <1>7 DEF Both
  <2>3. pending = h => marks' \subseteq seen'[h]
    <3>1. CASE marks' = marks /\ seen' = seen
      BY <2>1, <3>1
    <3>2. ASSUME NEW ids \in SUBSET Hooks, NEW who \in {"window", "page"},
                 marks' = MarkShown(ids, who), See(ids, who), pending = h
          PROVE  marks' \subseteq seen'[h]
      <4>1. hook[h] # "done"
        BY <1>2
      <4>2. seen'[h] = IF h \in ids THEN seen[h] \union {who} ELSE seen[h]
        BY <3>2, <4>1 DEF See
      <4>3. marks' = IF h \in ids THEN marks \union {who} ELSE marks
        BY <3>2 DEF MarkShown
      <4>4. marks \subseteq seen[h]
        BY <2>1, <3>2
      <4> QED
        BY <4>2, <4>3, <4>4
    <3> QED
      BY <1>6, <3>1, <3>2
  <2> QED
    BY <1>2, <2>1, <2>2, <2>3
<1> QED
  BY <1>8, <1>9, <1>10, <1>11, <1>12 DEF ApprovalInd

\* The main thread: what the user decides, switches off or stops.
LEMMA DecidingSteps ==
  ASSUME ApprovalInd,
         \/ \E decision \in {"allow", "deny"} : DecideApproval(decision)
         \/ \E on \in BOOLEAN : SetApprovals(on)
         \/ Stop \/ CancelAll
  PROVE  ApprovalInd'
<1>1. /\ pending \in Hooks \union {"none"} /\ channel \in [Hooks -> SUBSET Answer]
      /\ decided \in [Hooks -> {"allow", "deny", "none"}] /\ marks \subseteq Both
      /\ seen \in [Hooks -> SUBSET Both] /\ todo \subseteq Hooks
      /\ pending # "none" => handler[pending] \in {"settings", "show", "waiting", "expire"}
  BY DEF ApprovalInd, ApprovalTypeOK, Both
<1>2. /\ queue' = queue /\ drawn' = drawn /\ window' = window
      /\ page' = page /\ handler' = handler /\ reply' = reply
      /\ late' = late /\ hook' = hook /\ told' = told /\ seen' = seen
  BY DEF DecideApproval, SetApprovals, Stop, CancelAll, boardVars, brokerVars, hookVars, ghostVars
\* Either nothing is sent, or what waits in the registry is taken and answered.
<1>3. \/ pending' = pending /\ marks' = marks /\ channel' = channel
      \/ pending = "none" /\ pending' = "none" /\ marks' = {} /\ channel' = channel
      \/ /\ pending # "none" /\ pending' = "none" /\ marks' = {}
         /\ \E answer \in Answer : /\ channel' = [channel EXCEPT ![pending] = {answer}]
                                   /\ answer.presented => Presented
  <2>1. CASE \E decision \in {"allow", "deny"} : DecideApproval(decision)
    <3>1. PICK decision \in {"allow", "deny"} : DecideApproval(decision)
      BY <2>1
    <3> DEFINE answer == [decision |-> decision, presented |-> TRUE]
    <3>2. answer \in Answer
      BY DEF Answer
    <3>3. /\ page # "none" /\ pending = page /\ Presented /\ pending' = "none" /\ marks' = {}
          /\ channel' = [channel EXCEPT ![page] = {answer}]
      BY <3>1 DEF DecideApproval, Completes
    <3> QED
      BY <3>2, <3>3
  <2>2. CASE CancelAll
    <3>1. /\ pending' = "none" /\ marks' = {}
          /\ channel' = IF pending = "none" THEN channel
                        ELSE [channel EXCEPT ![pending] = {Unavailable(Presented)}]
      BY <2>2 DEF CancelAll
    <3>2. Unavailable(Presented) \in Answer /\ Unavailable(Presented).presented = Presented
      BY DEF Unavailable, Answer, Presented
    <3> QED
      BY <3>1, <3>2
  <2>3. CASE Stop \/ \E on \in BOOLEAN : SetApprovals(on)
    BY <2>3 DEF Stop, SetApprovals, brokerVars
  <2> QED
    BY <2>1, <2>2, <2>3
<1>4. /\ app' \in {"running", "stopping", "gone"} /\ enabled' \in BOOLEAN
      /\ main' \in {"idle", "present", "cancel", "dismiss", "join"} /\ todo' \subseteq Hooks
      /\ decided' \in [Hooks -> {"allow", "deny", "none"}]
  <2>1. CASE \E decision \in {"allow", "deny"} : DecideApproval(decision)
    BY <1>1, <2>1 DEF DecideApproval, Completes, ApprovalInd, ApprovalTypeOK
  <2>2. CASE CancelAll
    BY <1>1, <2>2 DEF CancelAll, ghostVars, ApprovalInd, ApprovalTypeOK
  <2>3. CASE Stop
    BY <1>1, <2>3 DEF Stop, ghostVars, ApprovalInd, ApprovalTypeOK
  <2>4. CASE \E on \in BOOLEAN : SetApprovals(on)
    BY <1>1, <2>4 DEF SetApprovals, ghostVars, ApprovalInd, ApprovalTypeOK
  <2> QED
    BY <2>1, <2>2, <2>3, <2>4
\* Approvals are off, and nobody was told to cancel, only as they were.
<1>5. pending' # "none" /\ ~enabled' /\ main' # "cancel" => ~enabled /\ main # "cancel"
  BY <1>1 DEF DecideApproval, CancelAll, Stop, SetApprovals, MainIdle
<1>6. channel' \in [Hooks -> SUBSET Answer]
  BY <1>1, <1>3
<1>7. /\ pending' \in {pending, "none"} /\ marks' \subseteq marks
      /\ \A h \in Hooks : channel'[h] = channel[h] \/ (pending = h /\ pending' = "none")
  BY <1>1, <1>3
<1>8. ApprovalTypeOK'
  BY <1>1, <1>2, <1>4, <1>6, <1>7 DEF ApprovalInd, ApprovalTypeOK, Both
<1>9. QueuedAreAtWork' /\ DrawnWereShown'
  BY <1>2 DEF ApprovalInd, QueuedAreAtWork, DrawnWereShown
<1>10. SentAreOver'
  BY <1>1, <1>2, <1>7 DEF ApprovalInd, SentAreOver
<1>11. OffIsToBeRead' /\ UnshownIsUnmarked'
  BY <1>2, <1>5, <1>7 DEF ApprovalInd, OffIsToBeRead, UnshownIsUnmarked
<1>12. SaidIsSeen'
  <2> SUFFICES ASSUME NEW h \in Hooks, hook[h] # "done"
               PROVE  (/\ pending = h => marks \subseteq seen[h]
                       /\ \A answer \in channel[h] : answer.presented => seen[h] = Both
                       /\ reply[h].presented => seen[h] = Both
                       /\ told[h].presented => seen[h] = Both)'
    BY <1>2 DEF SaidIsSeen
  <2>1. /\ pending = h => marks \subseteq seen[h]
        /\ \A answer \in channel[h] : answer.presented => seen[h] = Both
        /\ reply[h].presented => seen[h] = Both
        /\ told[h].presented => seen[h] = Both
    BY DEF ApprovalInd, SaidIsSeen
  <2>2. pending = h /\ Presented => seen[h] = Both
    BY <1>1, <2>1 DEF Presented, Both
  <2>3. \A answer \in channel'[h] : answer.presented => seen[h] = Both
    BY <1>1, <1>3, <2>1, <2>2
  <2> QED
    BY <1>2, <1>7, <2>1, <2>3
<1> QED
  BY <1>8, <1>9, <1>10, <1>11, <1>12 DEF ApprovalInd

\* The main thread: the banners of what it cancelled, and the end of all.
LEMMA EndingSteps ==
  ASSUME ApprovalInd, DismissNext \/ Exit \/ Crash
  PROVE  ApprovalInd'
<1>1. CASE DismissNext
  <2>1. /\ app' = app /\ enabled' = enabled /\ page' = page /\ drawn' = drawn /\ window' = window
        /\ pending' = pending /\ marks' = marks /\ handler' = handler /\ channel' = channel
        /\ reply' = reply /\ late' = late /\ hook' = hook /\ told' = told
        /\ decided' = decided /\ seen' = seen
        /\ main = "dismiss" /\ main' \in {"idle", "dismiss"} /\ todo' \subseteq todo
    BY <1>1 DEF DismissNext, brokerVars, hookVars, ghostVars
  <2>2. queue \in Seq(Banner)
    BY DEF ApprovalInd, ApprovalTypeOK
  <2>3. queue' = queue \/ \E id \in todo : queue' = Without(queue, id)
    BY <1>1 DEF DismissNext
  <2>4. queue' \in Seq(Banner) /\ IdsOf(queue') \subseteq IdsOf(queue)
    BY <2>2, <2>3, WithoutDrops
  <2>5. ApprovalTypeOK'
    BY <2>1, <2>4 DEF ApprovalInd, ApprovalTypeOK
  <2>6. QueuedAreAtWork' /\ DrawnWereShown'
    BY <2>1, <2>4 DEF ApprovalInd, QueuedAreAtWork, DrawnWereShown
  <2>7. SentAreOver' /\ OffIsToBeRead' /\ UnshownIsUnmarked'
    BY <2>1 DEF ApprovalInd, SentAreOver, OffIsToBeRead, UnshownIsUnmarked
  <2>8. SaidIsSeen'
    BY <2>1 DEF ApprovalInd, SaidIsSeen
  <2> QED
    BY <2>5, <2>6, <2>7, <2>8 DEF ApprovalInd
<1>2. CASE Exit \/ Crash
  <2>1. /\ app' = "gone" /\ queue' = << >> /\ drawn' = << >> /\ window' = << >>
        /\ main' = "idle" /\ todo' = {} /\ page' = "none" /\ pending' = "none" /\ marks' = {}
        /\ handler' = [h \in Hooks |-> "done"] /\ channel' = [h \in Hooks |-> {}]
        /\ reply' = [h \in Hooks |-> Unavailable(FALSE)]
        /\ enabled' = enabled /\ late' = late /\ hook' = hook /\ told' = told
        /\ decided' = decided /\ seen' = seen
    BY <1>2 DEF Exit, Crash, Gone, hookVars, ghostVars
  <2>2. reply' \in [Hooks -> Answer] /\ \A h \in Hooks : ~reply'[h].presented
    BY <2>1, UnavailableIsAnswer
  <2>3. ApprovalTypeOK'
    BY <2>1, <2>2, NoneQueued DEF ApprovalInd, ApprovalTypeOK
  <2>4. QueuedAreAtWork' /\ DrawnWereShown'
    BY <2>1, NoneQueued DEF QueuedAreAtWork, DrawnWereShown
  <2>5. SentAreOver' /\ OffIsToBeRead' /\ UnshownIsUnmarked'
    BY <2>1 DEF SentAreOver, OffIsToBeRead, UnshownIsUnmarked
  <2>6. SaidIsSeen'
    BY <2>1, <2>2 DEF ApprovalInd, SaidIsSeen
  <2> QED
    BY <2>3, <2>4, <2>5, <2>6 DEF ApprovalInd
<1> QED
  BY <1>1, <1>2

\* Every step keeps it.
LEMMA NextKeepsInd == ApprovalInd /\ [Next]_approvalVars => ApprovalInd'
<1> SUFFICES ASSUME ApprovalInd, [Next]_approvalVars PROVE ApprovalInd'
  OBVIOUS
<1>1. CASE \E h \in Hooks : Connect(h) \/ GiveUp(h) \/ GoesOn(h)
  BY <1>1, HookSteps, AcceptStep, HandlerSteps DEF GoesOn
<1>2. CASE DrawBoard \/ PresentBoard \/ Fetch \/ Acknowledge
  BY <1>2, ShowingSteps
<1>3. CASE \/ \E decision \in {"allow", "deny"} : DecideApproval(decision)
           \/ \E on \in BOOLEAN : SetApprovals(on)
           \/ Stop \/ CancelAll
  BY <1>3, DecidingSteps
<1>4. CASE DismissNext \/ Exit \/ Crash
  BY <1>4, EndingSteps
<1>5. CASE UNCHANGED approvalVars
  BY <1>5 DEF approvalVars, boardVars, mainVars, brokerVars, hookVars, ghostVars,
              ApprovalInd, ApprovalTypeOK, QueuedAreAtWork, DrawnWereShown, SentAreOver,
              OffIsToBeRead, UnshownIsUnmarked, SaidIsSeen
<1> QED
  BY <1>1, <1>2, <1>3, <1>4, <1>5 DEF Next, MainStep

\* It always holds.
LEMMA IndIsInvariant == Spec => []ApprovalInd
  BY InitIsInd, NextKeepsInd, PTL DEF Spec

\* Whatever the hooks, the user and the main thread do and in whatever order: a request that is
\* over leaves no banner, none can be decided once approvals are off, and no hook hears that
\* its request was presented unless the window and the web view have both shown it.
THEOREM ApprovalIsRight == Spec => []ApprovalInv
  BY IndIsInvariant, IndImpliesInv, PTL

-------------------------------------------------------------------------------

\* The hook of a request that can still be answered is waiting for it.
HooksWait ==
  /\ \A h \in Hooks : ~late[h]
  /\ \A h \in Hooks : handler[h] \in {"register", "settings", "show", "waiting", "expire"}
                        => hook[h] = "asked"
  /\ app = "gone" => \A h \in Hooks : handler[h] = "done"

\* Nothing is decided of a request before the registry gives it up.
UndecidedWhilePending == pending # "none" => decided[pending] = "none"

\* A decision that is on its way is the one of the user.
DecisionsAreTheUsers ==
  \A h \in Hooks : hook[h] # "done" =>
    /\ \A answer \in channel[h] : answer.decision \in {"none", decided[h]}
    /\ reply[h].decision \in {"none", decided[h]}
    /\ told[h].decision \in {"none", decided[h]}
    /\ handler[h] \in {"none", "register"} => decided[h] = "none"

SurfaceInd == ApprovalInd /\ HooksWait /\ UndecidedWhilePending /\ DecisionsAreTheUsers

\* They hold at first.
LEMMA InitIsSurfaceInd == Init => SurfaceInd
<1> SUFFICES ASSUME Init PROVE HooksWait /\ UndecidedWhilePending /\ DecisionsAreTheUsers
  BY InitIsInd DEF SurfaceInd
<1> QED
  BY UnavailableIsAnswer DEF Init, HooksWait, UndecidedWhilePending, DecisionsAreTheUsers

\* The values that the steps below reason from.
LEMMA SurfaceTypes ==
  ASSUME SurfaceInd
  PROVE  /\ handler \in [Hooks -> Places] /\ channel \in [Hooks -> SUBSET Answer]
         /\ reply \in [Hooks -> Answer] /\ told \in [Hooks -> Answer]
         /\ hook \in [Hooks -> {"idle", "asked", "told", "done"}]
         /\ decided \in [Hooks -> {"allow", "deny", "none"}] /\ late \in [Hooks -> BOOLEAN]
         /\ pending \in Hooks \union {"none"} /\ marks \subseteq Both
         /\ pending # "none" => /\ handler[pending] \in {"settings", "show", "waiting", "expire"}
                                /\ hook[pending] = "asked" /\ decided[pending] = "none"
                                /\ channel[pending] = {}
<1>1. ApprovalTypeOK /\ SentAreOver /\ HooksWait /\ UndecidedWhilePending
  BY DEF SurfaceInd, ApprovalInd
<1>2. pending # "none" => /\ handler[pending] \in {"settings", "show", "waiting", "expire"}
                          /\ pending \in Hooks
  BY <1>1 DEF ApprovalTypeOK
<1>3. pending # "none" => hook[pending] = "asked"
  BY <1>1, <1>2 DEF HooksWait
<1>4. pending # "none" => channel[pending] = {} /\ decided[pending] = "none"
  BY <1>1, <1>2 DEF SentAreOver, UndecidedWhilePending
<1> QED
  BY <1>1, <1>2, <1>3, <1>4 DEF ApprovalTypeOK, Places, Both

\* Where a request is, by what is known of it.
SurfaceMeans ==
  \A h \in Hooks :
    /\ hook[h] = "done" => /\ ~Decidable(h)
                           /\ Surface(h) = IF told[h].decision = "none" THEN "terminal"
                                           ELSE told[h].decision
    /\ hook[h] # "done" =>
         /\ Decidable(h) => Surface(h) = "dialog" /\ decided[h] = "none"
         /\ ~Decidable(h) =>
              /\ decided[h] = "allow" => Surface(h) = "allowed"
              /\ decided[h] = "deny" => Surface(h) = "denied"
              /\ decided[h] = "none" =>
                   Surface(h) = IF handler[h] \in Closing \/ channel[h] # {}
                                THEN "withdrawn" ELSE "agent"

\* That is what Surface says.
LEMMA SurfaceIs == SurfaceInd => SurfaceMeans
<1> SUFFICES ASSUME SurfaceInd PROVE SurfaceMeans
  OBVIOUS
<1> SUFFICES ASSUME NEW h \in Hooks
             PROVE  /\ hook[h] = "done" =>
                         /\ ~Decidable(h)
                         /\ Surface(h) = IF told[h].decision = "none" THEN "terminal"
                                         ELSE told[h].decision
                    /\ hook[h] # "done" =>
                         /\ Decidable(h) => Surface(h) = "dialog" /\ decided[h] = "none"
                         /\ ~Decidable(h) =>
                              /\ decided[h] = "allow" => Surface(h) = "allowed"
                              /\ decided[h] = "deny" => Surface(h) = "denied"
                              /\ decided[h] = "none" =>
                                   Surface(h) = IF handler[h] \in Closing \/ channel[h] # {}
                                                THEN "withdrawn" ELSE "agent"
  BY DEF SurfaceMeans
<1>1. Decidable(h) => hook[h] = "asked" /\ decided[h] = "none"
  BY SurfaceTypes DEF Decidable
<1>2. CASE hook[h] = "done"
  BY <1>1, <1>2 DEF Surface
<1>3. CASE hook[h] # "done" /\ Decidable(h)
  BY <1>1, <1>3 DEF Surface
<1>4. CASE hook[h] # "done" /\ ~Decidable(h)
  BY <1>4 DEF Surface, Closing
<1> QED
  BY <1>2, <1>3, <1>4

\* Where its hook has to wait for it.
CanBeAnswered == {"register", "settings", "show", "waiting", "expire"}

\* What becomes of a hook: it asks, it is let in, it is refused what can no longer be answered,
\* and it is done.
HookGoes(h) ==
  \/ /\ hook[h] = "idle" /\ hook' = [hook EXCEPT ![h] = "asked"]
     /\ told' = told /\ decided' = decided /\ handler' = handler
  \/ /\ hook[h] = "asked" /\ handler[h] = "none" /\ app # "gone"
     /\ handler' = [handler EXCEPT ![h] = "register"]
     /\ hook' = hook /\ told' = told /\ decided' = decided
  \/ /\ hook[h] = "asked" /\ handler[h] \notin CanBeAnswered
     /\ hook' = [hook EXCEPT ![h] = "told"] /\ told' = [told EXCEPT ![h] = Unavailable(FALSE)]
     /\ decided' = decided /\ handler' = handler
  \/ /\ hook[h] = "told" /\ hook' = [hook EXCEPT ![h] = "done"]
     /\ \E heard \in {told[h], Unavailable(FALSE)} : told' = [told EXCEPT ![h] = heard]
     /\ decided' = [decided EXCEPT ![h] = "none"] /\ handler' = handler

\* The five actions of a hook and its listener are those.
LEMMA HookStepIs ==
  ASSUME SurfaceInd, NEW h \in Hooks, Connect(h) \/ Lost(h) \/ GiveUp(h) \/ Persist(h) \/ Accept(h)
  PROVE  /\ HookGoes(h)
         /\ late' = late /\ pending' = pending /\ marks' = marks /\ channel' = channel
         /\ reply' = reply /\ app' = app
<1>1. HooksWait
  BY DEF SurfaceInd
<1>2. CASE Connect(h)
  BY <1>2 DEF Connect, brokerVars, ghostVars, HookGoes
<1>3. CASE Lost(h)
  BY <1>1, <1>3 DEF Lost, Hears, brokerVars, ghostVars, HookGoes, CanBeAnswered, HooksWait
<1>4. CASE GiveUp(h)
  BY <1>1, <1>4 DEF GiveUp, Hears, brokerVars, ghostVars, HookGoes, CanBeAnswered, HooksWait
<1>5. CASE Persist(h)
  BY <1>5 DEF Persist, brokerVars, HookGoes
<1>6. CASE Accept(h)
  BY <1>6 DEF Accept, After, Hears, HandlerGoesTo, hookVars, ghostVars, HookGoes, CanBeAnswered
<1> QED
  BY <1>2, <1>3, <1>4, <1>5, <1>6

\* The hooks: waiting, told or done.
LEMMA HookStepsSurface ==
  ASSUME SurfaceInd, NEW h \in Hooks, Connect(h) \/ Lost(h) \/ GiveUp(h) \/ Persist(h) \/ Accept(h)
  PROVE  SurfaceInd'
<1>1. ApprovalInd'
  BY HookSteps, AcceptStep DEF SurfaceInd
<1>2. /\ HookGoes(h)
      /\ late' = late /\ pending' = pending /\ channel' = channel /\ reply' = reply /\ app' = app
  BY HookStepIs
<1>3. /\ handler \in [Hooks -> Places] /\ hook \in [Hooks -> {"idle", "asked", "told", "done"}]
      /\ told \in [Hooks -> Answer] /\ decided \in [Hooks -> {"allow", "deny", "none"}]
      /\ pending \in Hooks \union {"none"}
      /\ pending # "none" => decided[pending] = "none"
  BY SurfaceTypes
<1>4. HooksWait'
  <2>1. \A g \in Hooks : ~late'[g]
    BY <1>2 DEF SurfaceInd, HooksWait
  <2>2. \A g \in Hooks : handler'[g] \in CanBeAnswered => hook'[g] = "asked"
    BY <1>2, <1>3 DEF HookGoes, SurfaceInd, HooksWait, CanBeAnswered
  <2>3. app' = "gone" => \A g \in Hooks : handler'[g] = "done"
    BY <1>2, <1>3 DEF HookGoes, SurfaceInd, HooksWait
  <2> QED
    BY <2>1, <2>2, <2>3 DEF HooksWait, CanBeAnswered
<1>5. UndecidedWhilePending'
  BY <1>2, <1>3 DEF HookGoes, UndecidedWhilePending
<1>6. DecisionsAreTheUsers'
  <2> SUFFICES ASSUME NEW g \in Hooks, hook'[g] # "done"
               PROVE  (/\ \A answer \in channel[g] : answer.decision \in {"none", decided[g]}
                       /\ reply[g].decision \in {"none", decided[g]}
                       /\ told[g].decision \in {"none", decided[g]}
                       /\ handler[g] \in {"none", "register"} => decided[g] = "none")'
    BY DEF DecisionsAreTheUsers
  <2>1. hook[g] # "done" /\ decided'[g] = decided[g]
    BY <1>2, <1>3 DEF HookGoes
  <2>2. /\ \A answer \in channel[g] : answer.decision \in {"none", decided[g]}
        /\ reply[g].decision \in {"none", decided[g]}
        /\ told[g].decision \in {"none", decided[g]}
        /\ handler[g] \in {"none", "register"} => decided[g] = "none"
    BY <2>1 DEF SurfaceInd, DecisionsAreTheUsers
  <2>3. told'[g] = told[g] \/ told'[g].decision = "none"
    BY <1>2, <1>3, UnavailableIsAnswer DEF HookGoes
  <2>4. handler'[g] = handler[g] \/ handler[g] = "none"
    BY <1>2, <1>3 DEF HookGoes
  <2> QED
    BY <1>2, <2>1, <2>2, <2>3, <2>4
<1> QED
  BY <1>1, <1>4, <1>5, <1>6 DEF SurfaceInd

\* The handlers, when none is late.
LEMMA HandlerStepsSurface ==
  ASSUME MayBeLate = FALSE, SurfaceInd, NEW h \in Hooks, HandlerStep(h)
  PROVE  SurfaceInd'
<1>1. ApprovalInd'
  BY HandlerSteps DEF SurfaceInd
<1>2. PICK place \in Places, answer \in Answer :
        OthersStay /\ Moves(h, place) /\ Keeps(h, place) /\ Says(h, answer)
  BY HandlerStepIs DEF StepsOfHandler, SurfaceInd
<1>3. /\ handler \in [Hooks -> Places] /\ hook \in [Hooks -> {"idle", "asked", "told", "done"}]
      /\ told \in [Hooks -> Answer] /\ reply \in [Hooks -> Answer]
      /\ channel \in [Hooks -> SUBSET Answer]
      /\ pending \in Hooks \union {"none"}
      /\ pending # "none" => decided[pending] = "none"
  BY SurfaceTypes
<1>4. \A g \in Hooks : handler'[g] = IF g = h THEN place ELSE handler[g]
  BY <1>2, <1>3 DEF Moves
<1>5. \A g \in Hooks : hook'[g] = hook[g] \/ (g = h /\ handler[h] = "reply" /\ hook'[g] = "told")
  BY <1>2, <1>3 DEF Says
<1>6. handler[h] \in CanBeAnswered => hook[h] = "asked"
  BY DEF SurfaceInd, HooksWait, CanBeAnswered
<1>7. HooksWait'
  <2>1. \A g \in Hooks : ~late'[g]
    BY <1>2 DEF Moves, SurfaceInd, HooksWait
  <2>2. place \in CanBeAnswered => handler[h] \in CanBeAnswered
    BY <1>2, <1>3 DEF Moves, CanBeAnswered, Closing, Places
  <2>3. \A g \in Hooks : handler'[g] \in CanBeAnswered => hook'[g] = "asked"
    BY <1>4, <1>5, <1>6, <2>2 DEF SurfaceInd, HooksWait, CanBeAnswered
  <2>4. app # "gone" /\ app' = app
    BY <1>2 DEF Moves, OthersStay, SurfaceInd, HooksWait
  <2> QED
    BY <2>1, <2>3, <2>4 DEF HooksWait, CanBeAnswered
<1>8. UndecidedWhilePending'
  <2>1. handler[h] = "register" => decided[h] = "none"
    BY <1>6 DEF SurfaceInd, DecisionsAreTheUsers, CanBeAnswered
  <2> QED
    BY <1>2, <1>3, <2>1 DEF Keeps, OthersStay, UndecidedWhilePending
<1>9. DecisionsAreTheUsers'
  <2> SUFFICES ASSUME NEW g \in Hooks, hook'[g] # "done"
               PROVE  (/\ \A a \in channel[g] : a.decision \in {"none", decided[g]}
                       /\ reply[g].decision \in {"none", decided[g]}
                       /\ told[g].decision \in {"none", decided[g]}
                       /\ handler[g] \in {"none", "register"} => decided[g] = "none")'
    BY DEF DecisionsAreTheUsers
  <2>1. hook[g] # "done" /\ decided'[g] = decided[g]
    BY <1>2, <1>3 DEF Says, OthersStay
  <2>2. /\ \A a \in channel[g] : a.decision \in {"none", decided[g]}
        /\ reply[g].decision \in {"none", decided[g]}
        /\ told[g].decision \in {"none", decided[g]}
        /\ handler[g] \in {"none", "register"} => decided[g] = "none"
    BY <2>1 DEF SurfaceInd, DecisionsAreTheUsers
  <2>3. reply'[g] = reply[g] \/ (g = h /\ reply'[g] = answer)
    BY <1>2, <1>3 DEF Says
  <2>4. reply'[g].decision \in {"none", decided[g]}
    BY <1>2, <2>2, <2>3 DEF Says
  <2>5. told'[g] = told[g] \/ told'[g] = reply[g]
    BY <1>2, <1>3 DEF Says
  <2>6. channel'[g] \subseteq channel[g]
    BY <1>2, <1>3 DEF Says
  <2>7. handler'[g] \in {"none", "register"} => handler'[g] = handler[g]
    BY <1>2, <1>4 DEF Moves
  <2> QED
    BY <2>1, <2>2, <2>4, <2>5, <2>6, <2>7
<1> QED
  BY <1>1, <1>7, <1>8, <1>9 DEF SurfaceInd

\* The steps of the main thread that decide nothing.
LEMMA MainStepsSurface ==
  ASSUME SurfaceInd,
         \/ DrawBoard \/ PresentBoard \/ Fetch \/ Acknowledge \/ DismissNext \/ Stop
         \/ \E on \in BOOLEAN : SetApprovals(on)
  PROVE  SurfaceInd'
<1>1. ApprovalInd'
  BY ShowingSteps, EndingSteps, DecidingSteps DEF SurfaceInd
<1>2. /\ pending' = pending /\ handler' = handler /\ channel' = channel /\ reply' = reply
      /\ late' = late /\ hook' = hook /\ told' = told /\ decided' = decided
      /\ app' = "gone" => app = "gone"
  BY DEF DrawBoard, PresentBoard, Fetch, Acknowledge, DismissNext, Stop, SetApprovals, See,
         brokerVars, hookVars, ghostVars
<1>3. HooksWait' /\ UndecidedWhilePending' /\ DecisionsAreTheUsers'
  BY <1>2 DEF SurfaceInd, HooksWait, UndecidedWhilePending, DecisionsAreTheUsers
<1> QED
  BY <1>1, <1>3 DEF SurfaceInd

\* A decision of the user.
LEMMA DecideSurface ==
  ASSUME SurfaceInd, NEW decision \in {"allow", "deny"}, DecideApproval(decision)
  PROVE  SurfaceInd'
<1> DEFINE answer == [decision |-> decision, presented |-> TRUE]
<1>1. ApprovalInd'
  BY DecidingSteps DEF SurfaceInd
<1>2. /\ page # "none" /\ pending = page /\ pending' = "none" /\ marks' = {}
      /\ channel' = [channel EXCEPT ![page] = {answer}]
      /\ decided' = [decided EXCEPT ![page] = decision]
      /\ handler' = handler /\ reply' = reply /\ late' = late /\ hook' = hook /\ told' = told
      /\ app' = app
  BY DEF DecideApproval, Completes, hookVars
<1>3. answer.decision = decision
  OBVIOUS
<1> HIDE DEF answer
<1>4. /\ channel \in [Hooks -> SUBSET Answer] /\ decided \in [Hooks -> {"allow", "deny", "none"}]
      /\ page \in Hooks /\ handler[page] \in {"settings", "show", "waiting", "expire"}
      /\ decided[page] = "none"
  BY <1>2, SurfaceTypes
<1>5. HooksWait' /\ UndecidedWhilePending'
  BY <1>2 DEF SurfaceInd, HooksWait, UndecidedWhilePending
<1>6. DecisionsAreTheUsers'
  <2> SUFFICES ASSUME NEW g \in Hooks, hook[g] # "done"
               PROVE  (/\ \A a \in channel[g] : a.decision \in {"none", decided[g]}
                       /\ reply[g].decision \in {"none", decided[g]}
                       /\ told[g].decision \in {"none", decided[g]}
                       /\ handler[g] \in {"none", "register"} => decided[g] = "none")'
    BY <1>2 DEF DecisionsAreTheUsers
  <2>1. /\ \A a \in channel[g] : a.decision \in {"none", decided[g]}
        /\ reply[g].decision \in {"none", decided[g]}
        /\ told[g].decision \in {"none", decided[g]}
        /\ handler[g] \in {"none", "register"} => decided[g] = "none"
    BY DEF SurfaceInd, DecisionsAreTheUsers
  <2>2. CASE g = page
    BY <1>2, <1>3, <1>4, <2>1, <2>2
  <2>3. CASE g # page
    BY <1>2, <1>4, <2>1, <2>3
  <2> QED
    BY <2>2, <2>3
<1> QED
  BY <1>1, <1>5, <1>6 DEF SurfaceInd

\* What waits is cancelled.
LEMMA CancelSurface ==
  ASSUME SurfaceInd, CancelAll
  PROVE  SurfaceInd'
<1> DEFINE answer == Unavailable(Presented)
<1>1. ApprovalInd'
  BY DecidingSteps DEF SurfaceInd
<1>2. /\ pending' = "none" /\ marks' = {} /\ decided' = decided
      /\ channel' = IF pending = "none" THEN channel ELSE [channel EXCEPT ![pending] = {answer}]
      /\ handler' = handler /\ reply' = reply /\ late' = late /\ hook' = hook /\ told' = told
      /\ app' = app
  BY DEF CancelAll, hookVars, ghostVars
<1>3. answer.decision = "none"
  BY DEF Unavailable
<1> HIDE DEF answer
<1>4. channel \in [Hooks -> SUBSET Answer] /\ pending \in Hooks \union {"none"}
  BY SurfaceTypes
<1>5. HooksWait' /\ UndecidedWhilePending'
  BY <1>2 DEF SurfaceInd, HooksWait, UndecidedWhilePending
<1>6. \A g \in Hooks : channel'[g] = channel[g] \/ channel'[g] = {answer}
  BY <1>2, <1>4
<1>7. DecisionsAreTheUsers'
  BY <1>2, <1>3, <1>6 DEF SurfaceInd, DecisionsAreTheUsers
<1> QED
  BY <1>1, <1>5, <1>7 DEF SurfaceInd

\* The end of the process, and of what waits in it.
LEMMA GoneSurface ==
  ASSUME SurfaceInd, Exit \/ Crash
  PROVE  SurfaceInd'
<1>1. ApprovalInd'
  BY EndingSteps DEF SurfaceInd
<1>2. /\ pending' = "none" /\ handler' = [h \in Hooks |-> "done"]
      /\ channel' = [h \in Hooks |-> {}] /\ reply' = [h \in Hooks |-> Unavailable(FALSE)]
      /\ late' = late /\ hook' = hook /\ told' = told /\ decided' = decided
  BY DEF Exit, Crash, Gone, hookVars, ghostVars
<1>3. HooksWait' /\ UndecidedWhilePending'
  BY <1>2 DEF SurfaceInd, HooksWait, UndecidedWhilePending
<1>4. DecisionsAreTheUsers'
  BY <1>2, UnavailableIsAnswer DEF SurfaceInd, DecisionsAreTheUsers
<1> QED
  BY <1>1, <1>3, <1>4 DEF SurfaceInd

-------------------------------------------------------------------------------

Surfaces == [h \in Hooks |-> Surface(h)]

\* A step of the contract, or none.
Promised == Contract!ContractNext \/ Surfaces' = Surfaces

\* Nothing moves when nothing that tells where a request is does.
LEMMA NoneMoves ==
  ASSUME \A g \in Hooks : Surface(g)' = Surface(g)
  PROVE  Promised
  BY DEF Promised, Surfaces

\* One request moves when only it does.
LEMMA OneMoves ==
  ASSUME NEW h \in Hooks, \A g \in Hooks : g # h => Surface(g)' = Surface(g)
  PROVE  Surfaces' = [Surfaces EXCEPT ![h] = Surface(h)']
  BY DEF Surfaces

\* A request that leaves the agent or the dialog has been withdrawn.
LEMMA OneWithdraws ==
  ASSUME NEW h \in Hooks, \A g \in Hooks : g # h => Surface(g)' = Surface(g),
         \/ Surface(h)' = Surface(h)
         \/ Surface(h) \in {"agent", "dialog"} /\ Surface(h)' = "withdrawn"
  PROVE  Promised
<1>1. CASE Surface(h)' = Surface(h)
  BY <1>1, NoneMoves
<1>2. CASE Surface(h) \in {"agent", "dialog"} /\ Surface(h)' = "withdrawn"
  <2>1. Contract!Withdraw({h})
    BY <1>2 DEF Contract!Withdraw, Surfaces
  <2> QED
    BY <2>1 DEF Contract!ContractNext, Promised
<1> QED
  BY <1>1, <1>2

\* Storing the event tells the agent what was decided, or nothing; nothing else of a hook shows.
LEMMA HooksAreTold ==
  ASSUME SurfaceInd, SurfaceInd', NEW h \in Hooks,
         Connect(h) \/ Lost(h) \/ GiveUp(h) \/ Persist(h) \/ Accept(h)
  PROVE  Promised
<1>1. SurfaceMeans /\ SurfaceMeans'
  <2>1. SurfaceInd' => SurfaceMeans'
    BY SurfaceIs, PTL
  <2> QED
    BY <2>1, SurfaceIs
<1>2. HookGoes(h) /\ pending' = pending /\ marks' = marks /\ channel' = channel
  BY HookStepIs
<1>3. /\ handler \in [Hooks -> Places] /\ hook \in [Hooks -> {"idle", "asked", "told", "done"}]
      /\ told \in [Hooks -> Answer] /\ decided \in [Hooks -> {"allow", "deny", "none"}]
  BY SurfaceTypes
<1>4. \A g \in Hooks : Decidable(g)' = Decidable(g)
  BY <1>2 DEF Decidable, Presented
<1>5. ASSUME NEW g \in Hooks,
             hook'[g] = "done" <=> hook[g] = "done", hook[g] = "done" => told'[g] = told[g],
             decided'[g] = decided[g],
             handler'[g] \in Closing <=> handler[g] \in Closing
      PROVE  Surface(g)' = Surface(g)
  BY <1>1, <1>2, <1>3, <1>4, <1>5 DEF SurfaceMeans
<1>6. \A g \in Hooks : g # h => Surface(g)' = Surface(g)
  BY <1>2, <1>3, <1>5 DEF HookGoes
<1>7. CASE hook[h] # "told"
  <2>1. Surface(h)' = Surface(h)
    BY <1>2, <1>3, <1>5, <1>7 DEF HookGoes, Closing
  <2> QED
    BY <1>6, <2>1, NoneMoves
<1>8. CASE hook[h] = "told"
  <2>1. /\ hook'[h] = "done" /\ told'[h].decision \in {told[h].decision, "none"}
    BY <1>2, <1>3, <1>8, UnavailableIsAnswer DEF HookGoes
  <2>2. told[h].decision \in {"none", decided[h]}
    BY <1>8 DEF SurfaceInd, DecisionsAreTheUsers
  <2>3. ~Decidable(h)
    BY <1>8, SurfaceTypes DEF Decidable
  <2>4. Surface(h)' = IF told'[h].decision = "none" THEN "terminal" ELSE told'[h].decision
    BY <1>1, <2>1 DEF SurfaceMeans
  <2>5. /\ decided[h] = "allow" => Surface(h) = "allowed"
        /\ decided[h] = "deny" => Surface(h) = "denied"
        /\ decided[h] = "none" => Surface(h) \in {"withdrawn", "agent"}
    BY <1>1, <1>8, <2>3 DEF SurfaceMeans
  <2>6. \/ Surface(h) = "allowed" /\ Surface(h)' = "allow"
        \/ Surface(h) = "denied" /\ Surface(h)' = "deny"
        \/ Surface(h) \in {"agent", "withdrawn", "allowed", "denied"} /\ Surface(h)' = "terminal"
    BY <1>3, <2>1, <2>2, <2>4, <2>5
  <2>7. Contract!Tell(h)
    BY <1>6, <2>6, OneMoves DEF Contract!Tell, Contract!Becomes, Surfaces
  <2> QED
    BY <2>7 DEF Contract!ContractNext, Promised
<1> QED
  BY <1>7, <1>8

\* A handler withdraws its request, or leaves it where it is.
LEMMA HandlersWithdraw ==
  ASSUME SurfaceInd, SurfaceInd', NEW h \in Hooks, HandlerStep(h)
  PROVE  Promised
<1>1. SurfaceMeans /\ SurfaceMeans'
  <2>1. SurfaceInd' => SurfaceMeans'
    BY SurfaceIs, PTL
  <2> QED
    BY <2>1, SurfaceIs
<1>2. PICK place \in Places, answer \in Answer :
        OthersStay /\ Moves(h, place) /\ Keeps(h, place) /\ Says(h, answer)
  BY HandlerStepIs DEF StepsOfHandler, SurfaceInd
<1>3. /\ handler \in [Hooks -> Places] /\ hook \in [Hooks -> {"idle", "asked", "told", "done"}]
      /\ told \in [Hooks -> Answer] /\ decided \in [Hooks -> {"allow", "deny", "none"}]
      /\ channel \in [Hooks -> SUBSET Answer] /\ pending \in Hooks \union {"none"}
  BY SurfaceTypes
<1>4. /\ decided' = decided
      /\ \A g \in Hooks : /\ hook'[g] = "done" <=> hook[g] = "done"
                          /\ hook[g] = "done" => told'[g] = told[g]
      /\ \A g \in Hooks : g # h => handler'[g] = handler[g] /\ channel'[g] = channel[g]
      /\ handler'[h] = place
  BY <1>2, <1>3 DEF OthersStay, Moves, Says
\* Only this request can be given up, and none becomes decidable.
<1>5. \A g \in Hooks : /\ g # h => Decidable(g)' = Decidable(g)
                       /\ Decidable(g)' => Decidable(g)
                       /\ Decidable(g) /\ ~Decidable(g)' => place \in Closing
  <2>1. CASE pending = "none" /\ pending' = h /\ marks' = {}
    BY <1>3, <2>1 DEF Decidable, Presented
  <2>2. CASE pending' = pending /\ marks' = marks
    BY <2>2 DEF Decidable, Presented
  <2>3. CASE place \in Closing /\ pending = h /\ pending' = "none" /\ marks' = {}
    BY <2>3 DEF Decidable, Presented
  <2> QED
    BY <1>2, <2>1, <2>2, <2>3 DEF Keeps
<1>6. \A g \in Hooks : g # h => Surface(g)' = Surface(g)
  BY <1>1, <1>3, <1>4, <1>5 DEF SurfaceMeans
<1>7. handler[h] \in Closing \/ channel[h] # {} => place \in Closing \/ channel'[h] # {}
  BY <1>2, <1>3 DEF Moves, Says, Closing
<1>8. \/ Surface(h)' = Surface(h)
      \/ Surface(h) \in {"agent", "dialog"} /\ Surface(h)' = "withdrawn"
  <2>1. CASE hook[h] = "done"
    BY <1>1, <1>4, <2>1 DEF SurfaceMeans
  <2>2. CASE hook[h] # "done" /\ Decidable(h)
    BY <1>1, <1>4, <1>5, <2>2 DEF SurfaceMeans
  <2>3. CASE hook[h] # "done" /\ ~Decidable(h)
    <3>1. CASE decided[h] # "none"
      BY <1>1, <1>3, <1>4, <1>5, <2>3, <3>1 DEF SurfaceMeans
    <3>2. CASE decided[h] = "none"
      BY <1>1, <1>4, <1>5, <1>7, <2>3, <3>2 DEF SurfaceMeans
    <3> QED
      BY <3>1, <3>2
  <2> QED
    BY <2>1, <2>2, <2>3
<1> QED
  BY <1>6, <1>8, OneWithdraws

\* The steps of the main thread that take nothing from the registry: once both have shown it,
\* the request is in the dialog.
LEMMA ShowingOffers ==
  ASSUME SurfaceInd, SurfaceInd',
         \/ DrawBoard \/ PresentBoard \/ Fetch \/ Acknowledge \/ DismissNext \/ Stop
         \/ \E on \in BOOLEAN : SetApprovals(on)
  PROVE  Promised
<1>1. SurfaceMeans /\ SurfaceMeans'
  <2>1. SurfaceInd' => SurfaceMeans'
    BY SurfaceIs, PTL
  <2> QED
    BY <2>1, SurfaceIs
<1>2. /\ pending' = pending /\ handler' = handler /\ channel' = channel /\ reply' = reply
      /\ hook' = hook /\ told' = told /\ decided' = decided
  BY DEF DrawBoard, PresentBoard, Fetch, Acknowledge, DismissNext, Stop, SetApprovals, See,
         brokerVars, hookVars, ghostVars
<1>3. /\ pending \in Hooks \union {"none"} /\ marks \subseteq Both
      /\ decided \in [Hooks -> {"allow", "deny", "none"}]
      /\ pending # "none" => /\ handler[pending] \in {"settings", "show", "waiting", "expire"}
                             /\ hook[pending] = "asked" /\ decided[pending] = "none"
                             /\ channel[pending] = {}
  BY SurfaceTypes
<1>4. marks \subseteq marks'
  BY DEF DrawBoard, PresentBoard, Fetch, Acknowledge, DismissNext, Stop, SetApprovals, MarkShown,
         brokerVars
<1>5. marks' \subseteq Both
  BY DEF SurfaceInd, ApprovalInd, ApprovalTypeOK, Both
<1>6. ASSUME NEW g \in Hooks, Decidable(g)' = Decidable(g) PROVE Surface(g)' = Surface(g)
  BY <1>1, <1>2, <1>3, <1>6 DEF SurfaceMeans
<1>7. CASE pending # "none" /\ ~Presented /\ Presented'
  <2>1. PICK h \in Hooks : h = pending
    BY <1>3, <1>7
  <2>2. \A g \in Hooks : ~Decidable(g) /\ (g # h => ~Decidable(g)')
    BY <1>2, <1>7, <2>1 DEF Decidable
  <2>3. \A g \in Hooks : g # h => Surface(g)' = Surface(g)
    <3>1. \A g \in Hooks : g # h => Decidable(g)' = Decidable(g)
      BY <1>2, <2>1 DEF Decidable
    <3> QED
      BY <1>6, <3>1
  <2>4. Decidable(h)' /\ hook'[h] # "done" /\ hook[h] # "done"
    BY <1>2, <1>3, <1>7, <2>1 DEF Decidable
  <2>5. Surface(h)' = "dialog"
    BY <1>1, <2>4 DEF SurfaceMeans
  <2>6. Surface(h) = "agent"
    BY <1>1, <1>3, <2>1, <2>2, <2>4 DEF SurfaceMeans, Closing
  <2>7. \A g \in Hooks : Surface(g) # "dialog"
    <3>1. \A g \in Hooks : told[g].decision \in {"allow", "deny", "none"}
      BY DEF SurfaceInd, ApprovalInd, ApprovalTypeOK, Answer
    <3>2. \A g \in Hooks : hook[g] = "done" => Surface(g) # "dialog"
      BY <1>1, <3>1 DEF SurfaceMeans
    <3>3. \A g \in Hooks : decided[g] \in {"allow", "deny", "none"}
      BY <1>3
    <3>4. \A g \in Hooks : hook[g] # "done" => Surface(g) # "dialog"
      BY <1>1, <2>2, <3>3 DEF SurfaceMeans
    <3> QED
      BY <3>2, <3>4
  <2>8. Contract!Offer(h)
    BY <2>3, <2>5, <2>6, <2>7, OneMoves DEF Contract!Offer, Contract!Becomes, Surfaces
  <2> QED
    BY <2>8 DEF Contract!ContractNext, Promised
<1>8. CASE ~(pending # "none" /\ ~Presented /\ Presented')
  <2>1. \A g \in Hooks : Decidable(g)' = Decidable(g)
    BY <1>2, <1>4, <1>5, <1>8 DEF Decidable, Presented, Both
  <2> QED
    BY <1>6, <2>1, NoneMoves
<1> QED
  BY <1>7, <1>8

\* The command of the dialog decides what is in the dialog.
LEMMA UserDecides ==
  ASSUME SurfaceInd, SurfaceInd', NEW decision \in {"allow", "deny"}, DecideApproval(decision)
  PROVE  Promised
<1>1. SurfaceMeans /\ SurfaceMeans'
  <2>1. SurfaceInd' => SurfaceMeans'
    BY SurfaceIs, PTL
  <2> QED
    BY <2>1, SurfaceIs
<1>2. /\ page # "none" /\ pending = page /\ Presented /\ pending' = "none"
      /\ \E answer : channel' = [channel EXCEPT ![page] = answer]
      /\ decided' = [decided EXCEPT ![page] = decision]
      /\ handler' = handler /\ hook' = hook /\ told' = told
  BY DEF DecideApproval, Completes, hookVars
<1>3. PICK h \in Hooks : h = pending
  BY <1>2, SurfaceTypes
<1>4. /\ hook[h] = "asked" /\ decided \in [Hooks -> {"allow", "deny", "none"}]
      /\ channel \in [Hooks -> SUBSET Answer]
  BY <1>2, <1>3, SurfaceTypes
<1>5. /\ Decidable(h)
      /\ \A g \in Hooks : (g # h => ~Decidable(g)) /\ ~Decidable(g)'
  BY <1>2, <1>3 DEF Decidable
<1>6. \A g \in Hooks : g # h => Surface(g)' = Surface(g)
  <2>1. \A g \in Hooks : g # h => decided'[g] = decided[g] /\ channel'[g] = channel[g]
    BY <1>2, <1>3, <1>4
  <2> QED
    BY <1>1, <1>2, <1>4, <1>5, <2>1 DEF SurfaceMeans
<1>7. Surface(h) = "dialog"
  BY <1>1, <1>4, <1>5 DEF SurfaceMeans
<1>8. Surface(h)' \in {"allowed", "denied"}
  <2>1. decided'[h] = decision /\ hook'[h] # "done"
    BY <1>2, <1>3, <1>4
  <2> QED
    BY <1>1, <1>5, <2>1 DEF SurfaceMeans
<1>9. Contract!Decide(h)
  BY <1>6, <1>7, <1>8, OneMoves DEF Contract!Decide, Contract!Becomes, Surfaces
<1> QED
  BY <1>9 DEF Contract!ContractNext, Promised

\* cancel_all withdraws the one request it finds.
LEMMA CancelWithdraws ==
  ASSUME SurfaceInd, SurfaceInd', CancelAll
  PROVE  Promised
<1>1. SurfaceMeans /\ SurfaceMeans'
  <2>1. SurfaceInd' => SurfaceMeans'
    BY SurfaceIs, PTL
  <2> QED
    BY <2>1, SurfaceIs
<1>2. /\ pending' = "none" /\ decided' = decided
      /\ channel' = IF pending = "none" THEN channel
                    ELSE [channel EXCEPT ![pending] = {Unavailable(Presented)}]
      /\ handler' = handler /\ hook' = hook /\ told' = told
  BY DEF CancelAll, hookVars, ghostVars
<1>3. /\ channel \in [Hooks -> SUBSET Answer] /\ decided \in [Hooks -> {"allow", "deny", "none"}]
      /\ pending \in Hooks \union {"none"}
  BY SurfaceTypes
<1>4. \A g \in Hooks : /\ ~Decidable(g)'
                       /\ g # pending => ~Decidable(g) /\ channel'[g] = channel[g]
  BY <1>2, <1>3 DEF Decidable
<1>5. \A g \in Hooks : g # pending => Surface(g)' = Surface(g)
  BY <1>1, <1>2, <1>3, <1>4 DEF SurfaceMeans
<1>6. CASE pending = "none"
  BY <1>5, <1>6, NoneMoves
<1>7. CASE pending # "none"
  <2>1. PICK h \in Hooks : h = pending
    BY <1>3, <1>7
  <2>2. /\ hook[h] = "asked" /\ decided[h] = "none" /\ channel[h] = {}
        /\ handler[h] \notin Closing
    BY <1>7, <2>1, SurfaceTypes DEF Closing
  <2>3. channel'[h] # {}
    BY <1>2, <1>3, <1>7, <2>1
  <2>4. Surface(h) \in {"agent", "dialog"}
    BY <1>1, <2>2 DEF SurfaceMeans
  <2>5. Surface(h)' = "withdrawn"
    BY <1>1, <1>2, <1>4, <2>2, <2>3 DEF SurfaceMeans
  <2>6. \A g \in Hooks : g # h => Surface(g)' = Surface(g)
    BY <1>5, <2>1
  <2> QED
    BY <2>4, <2>5, <2>6, OneWithdraws
<1> QED
  BY <1>6, <1>7

\* The end of the process withdraws every request that is not decided.
LEMMA EndWithdraws ==
  ASSUME SurfaceInd, SurfaceInd', Exit \/ Crash
  PROVE  Promised
<1>1. SurfaceMeans /\ SurfaceMeans'
  <2>1. SurfaceInd' => SurfaceMeans'
    BY SurfaceIs, PTL
  <2> QED
    BY <2>1, SurfaceIs
<1>2. /\ pending' = "none" /\ handler' = [h \in Hooks |-> "done"]
      /\ hook' = hook /\ told' = told /\ decided' = decided
  BY DEF Exit, Crash, Gone, hookVars, ghostVars
<1>3. decided \in [Hooks -> {"allow", "deny", "none"}] /\ told \in [Hooks -> Answer]
  BY SurfaceTypes
<1>4. \A g \in Hooks : ~Decidable(g)'
  BY <1>2 DEF Decidable
<1> DEFINE rs == {g \in Hooks : Surface(g) \in {"agent", "dialog"}}
<1>5. \A g \in Hooks : Surface(g)' = IF g \in rs THEN "withdrawn" ELSE Surface(g)
  <2> TAKE g \in Hooks
  <2>1. CASE hook[g] = "done"
    <3>1. Surface(g)' = Surface(g)
      BY <1>1, <1>2, <2>1 DEF SurfaceMeans
    <3>2. Surface(g) \notin {"agent", "dialog"}
      BY <1>1, <1>3, <2>1 DEF SurfaceMeans, Answer
    <3> QED
      BY <3>1, <3>2
  <2>2. CASE hook[g] # "done" /\ decided[g] # "none"
    <3>1. ~Decidable(g)
      BY <1>1, <2>2 DEF SurfaceMeans
    <3> QED
      BY <1>1, <1>2, <1>3, <1>4, <2>2, <3>1 DEF SurfaceMeans
  <2>3. CASE hook[g] # "done" /\ decided[g] = "none"
    <3>1. Surface(g)' = "withdrawn"
      BY <1>1, <1>2, <1>4, <2>3 DEF SurfaceMeans, Closing
    <3>2. Surface(g) \in {"agent", "dialog", "withdrawn"}
      BY <1>1, <2>3 DEF SurfaceMeans
    <3> QED
      BY <3>1, <3>2
  <2> QED
    BY <2>1, <2>2, <2>3
<1>6. Contract!Withdraw(rs)
  BY <1>5 DEF Contract!Withdraw, Surfaces
<1> QED
  BY <1>6 DEF Contract!ContractNext, Promised

-------------------------------------------------------------------------------

\* Every step keeps the invariant and the contract.
LEMMA StepIsPromised ==
  MayBeLate = FALSE => (SurfaceInd /\ [Next]_approvalVars => SurfaceInd' /\ Promised)
<1> SUFFICES ASSUME MayBeLate = FALSE, SurfaceInd, [Next]_approvalVars
             PROVE  SurfaceInd' /\ Promised
  OBVIOUS
<1>1. ASSUME NEW h \in Hooks, Connect(h) \/ Lost(h) \/ GiveUp(h) \/ Persist(h) \/ Accept(h)
      PROVE  SurfaceInd' /\ Promised
  BY <1>1, HookStepsSurface, HooksAreTold
<1>2. ASSUME NEW h \in Hooks, HandlerStep(h)
      PROVE  SurfaceInd' /\ Promised
  BY <1>2, HandlerStepsSurface, HandlersWithdraw
<1>3. CASE \/ DrawBoard \/ PresentBoard \/ Fetch \/ Acknowledge \/ DismissNext \/ Stop
           \/ \E on \in BOOLEAN : SetApprovals(on)
  BY <1>3, MainStepsSurface, ShowingOffers
<1>4. CASE \E decision \in {"allow", "deny"} : DecideApproval(decision)
  BY <1>4, DecideSurface, UserDecides
<1>5. CASE CancelAll
  BY <1>5, CancelSurface, CancelWithdraws
<1>6. CASE Exit \/ Crash
  BY <1>6, GoneSurface, EndWithdraws
<1>7. CASE UNCHANGED approvalVars
  <2> USE <1>7 DEF approvalVars, boardVars, mainVars, brokerVars, hookVars, ghostVars
  <2>1. ApprovalInd'
    BY NextKeepsInd DEF SurfaceInd
  <2>2. HooksWait' /\ UndecidedWhilePending' /\ DecisionsAreTheUsers'
    BY DEF SurfaceInd, HooksWait, UndecidedWhilePending, DecisionsAreTheUsers
  <2>3. \A g \in Hooks : Surface(g)' = Surface(g)
    BY DEF Surface, Decidable, Presented
  <2> QED
    BY <2>1, <2>2, <2>3, NoneMoves DEF SurfaceInd
<1> QED
  BY <1>1, <1>2, <1>3, <1>4, <1>5, <1>6, <1>7 DEF Next, GoesOn, MainStep

\* At first every request is with its agent.
LEMMA InitIsPromised == Init => Contract!ContractInit
<1> SUFFICES ASSUME Init PROVE \A g \in Hooks : Surface(g) = "agent"
  BY DEF Contract!ContractInit
<1> QED
  BY DEF Init, Surface, Decidable, Presented

\* When no request is late (its banner is up within 3 s of the connection): a request is in one
\* place at a time, the dialog or the terminal of the agent, is offered once, one at a time, and
\* the agent hears allow or deny only when that is what the user decided in the dialog.
THEOREM OneSurfaceHolds == MayBeLate = FALSE => (Spec => OneSurface)
<1> SUFFICES ASSUME MayBeLate = FALSE PROVE Spec => OneSurface
  OBVIOUS
<1>1. Init => SurfaceInd /\ Contract!ContractInit
  BY InitIsSurfaceInd, InitIsPromised
<1>2. SurfaceInd /\ [Next]_approvalVars => SurfaceInd' /\ Promised
  BY StepIsPromised
<1>3. Promised <=> [Contract!ContractNext]_Surfaces
  BY DEF Promised
<1> QED
  BY <1>1, <1>2, <1>3, PTL DEF Spec, OneSurface, Contract!ContractSpec, Surfaces

-------------------------------------------------------------------------------
(* HookMerge: the hooks of Aizu and of others in one configuration *)

\* What stands among the hooks of an event.
Known(event) ==
  ForeignGroups(event) \union OlderGroups(event)
    \union {GeneratedGroup(event, path) : path \in Paths}

IsConfig(c) ==
  /\ c \in [mergeable : BOOLEAN, disabled : BOOLEAN,
            groups : [AllEvents -> Seq(UNION {Known(event) : event \in AllEvents})]]
  /\ \A event \in AllEvents : ToSet(c.groups[event]) \subseteq Known(event)

MergeInd == agent \in {"codex", "claude-code"} /\ IsConfig(config)

-------------------------------------------------------------------------------
(* Picking *)

LEMMA PickedIs ==
  ASSUME NEW S, NEW s \in Seq(S), NEW places \in SUBSET DOMAIN s
  PROVE  /\ Picked(s, places) \in Seq(S)
         /\ \A i \in DOMAIN Picked(s, places) : \E j \in places : Picked(s, places)[i] = s[j]
<1>1. Picked(s, places) = At(s, places)
  BY DEF Picked, At
<1>2. At(s, places) \in Seq(S)
      /\ \A b \in ToSet(At(s, places)) : \E i \in places : b = s[i]
  BY AtTakes
<1>3. \A i \in DOMAIN At(s, places) : At(s, places)[i] \in ToSet(At(s, places))
  BY DEF ToSet
<1> QED
  BY <1>1, <1>2, <1>3

\* All but the last, and the last alone.
LEMMA PickedAround ==
  ASSUME NEW S, NEW s \in Seq(S), NEW x \in S
  PROVE  LET t == Append(s, x)
         IN  /\ Picked(t, 1..Len(s)) = s
             /\ Picked(t, {Len(s) + 1}) = <<x>>
<1> DEFINE t == Append(s, x)
           n == Len(s)
<1>1. t \in Seq(S) /\ Len(t) = n + 1 /\ n \in Nat
      /\ (\A k \in 1..n : t[k] = s[k]) /\ t[n + 1] = x
  BY AppendProperties
<1> HIDE DEF t
<1>2. Picked(t, 1..n) = s
  <2>1. Cardinality(1..n) = n
    <3>1. PICK m \in Nat : m = n
      BY <1>1
    <3> QED
      <4>1. Cardinality(1..m) = IF 1 > m THEN 0 ELSE m - 1 + 1
        BY 1 \in Int, m \in Int, FS_Interval
      <4> QED
        BY <3>1, <4>1
  <2>2. ASSUME NEW k \in 1..n
        PROVE  (CHOOSE i \in 1..n : Cardinality({j \in 1..n : j <= i}) = k) = k
    <3>1. ASSUME NEW i \in 1..n PROVE Cardinality({j \in 1..n : j <= i}) = i
      <4>1. {j \in 1..n : j <= i} = 1..i
        BY <1>1
      <4>2. i \in Nat /\ Cardinality(1..i) = i
        BY <1>1, 1 \in Int, i \in Int, FS_Interval
      <4> QED
        BY <4>1, <4>2
    <3> QED
      BY <3>1
  <2>3. ASSUME NEW k \in 1..n
        PROVE  t[CHOOSE i \in 1..n : Cardinality({j \in 1..n : j <= i}) = k] = s[k]
    BY <1>1, <2>2
  <2>4. Picked(t, 1..n) = [k \in 1..n |-> s[k]]
    BY <2>1, <2>3 DEF Picked
  <2>5. s = [k \in 1..n |-> s[k]]
    OBVIOUS
  <2> QED
    BY <2>4, <2>5
<1>3. Picked(t, {n + 1}) = <<x>>
  <2>1. Cardinality({n + 1}) = 1
    BY FS_Singleton
  <2>2. ASSUME NEW k \in 1..1
        PROVE  (CHOOSE i \in {n + 1} : Cardinality({j \in {n + 1} : j <= i}) = k) = n + 1
    <3>1. {j \in {n + 1} : j <= n + 1} = {n + 1} /\ k = 1
      BY <1>1
    <3>2. Cardinality({j \in {n + 1} : j <= n + 1}) = k
      BY <2>1, <3>1
    <3> QED
      BY <3>2
  <2>3. ASSUME NEW k \in 1..1
        PROVE  t[CHOOSE i \in {n + 1} : Cardinality({j \in {n + 1} : j <= i}) = k] = x
    BY <1>1, <2>2
  <2>4. Picked(t, {n + 1}) = [k \in 1..1 |->
          t[CHOOSE i \in {n + 1} : Cardinality({j \in {n + 1} : j <= i}) = k]]
    BY <2>1 DEF Picked
  <2>5. Picked(t, {n + 1}) = [k \in 1..1 |-> x]
    BY <2>3, <2>4
  <2> QED
    BY <2>5
<1> QED
  BY <1>2, <1>3 DEF t

-------------------------------------------------------------------------------
(* The shapes of groups *)

LEMMA GeneratedIsGenerated ==
  ASSUME NEW event \in AllEvents, NEW path \in Paths
  PROVE  IsGeneratedGroup(GeneratedGroup(event, path), event)
BY DEF IsGeneratedGroup, GeneratedGroup, Group, GeneratedHandler, Handler, IsGeneratedHandler

\* What Aizu made or makes is generated, and what others made is foreign.
LEMMA ForeignOrGenerated ==
  ASSUME NEW event \in AllEvents, NEW g \in Known(event)
  PROVE  Foreign(g) <=> ~IsGeneratedGroup(g, event)
<1>1. ASSUME NEW e \in AllEvents, NEW path \in Paths,
             g \in OlderGroups(e) \union {GeneratedGroup(e, path)}
      PROVE  g.bare /\ Len(g.handlers) = 1 /\ g.handlers[1].path \in Paths
  <2>1. CASE g = GeneratedGroup(e, path)
    BY <2>1 DEF GeneratedGroup, Group, GeneratedHandler, Handler
  <2>2. CASE g \in OlderGroups(e)
    <3>1. PICK h \in [path : Paths, form : {"shell", "args async"}, timeout : {Timeout(e), "short"}] :
            g = Group(TRUE, <<h>>)
      BY <2>2 DEF OlderGroups
    <3> QED
      BY <3>1 DEF Group
  <2> QED
    BY <1>1, <2>1, <2>2
<1>2. CASE g \in ForeignGroups(event)
  <2>1. \/ Len(g.handlers) = 1 /\ g.handlers[1].path = Theirs
        \/ g.bare = FALSE
        \/ Len(g.handlers) = 2
    BY <1>2 DEF ForeignGroups, Group, GeneratedHandler, Handler
  <2>2. Foreign(g)
    BY <1>1, <2>1, MergeAssumption DEF Foreign
  <2>3. ~IsGeneratedGroup(g, event)
    <3>1. CASE Len(g.handlers) = 1 /\ g.handlers[1].path = Theirs
      BY <3>1, MergeAssumption DEF IsGeneratedGroup, IsGeneratedHandler
    <3>2. CASE g.bare = FALSE
      BY <3>2, Zenon DEF IsGeneratedGroup
    <3>3. CASE Len(g.handlers) = 2
      BY <3>3 DEF IsGeneratedGroup
    <3> QED
      BY <2>1, <3>1, <3>2, <3>3
  <2> QED
    BY <2>2, <2>3
<1>3. CASE g \in OlderGroups(event)
  <2>1. PICK h \in [path : Paths, form : {"shell", "args async"}, timeout : {Timeout(event), "short"}] :
          g = Group(TRUE, <<h>>)
    BY <1>3 DEF OlderGroups
  <2>2. ~Foreign(g)
    BY <1>3 DEF Foreign
  <2>3. h.timeout = Timeout(event) \/ (event = "PermissionRequest" /\ h.timeout = "short")
    BY DEF Timeout
  <2>4. g.bare /\ Len(g.handlers) = 1 /\ g.handlers[1] = h
    BY <2>1 DEF Group
  <2>5. IsGeneratedGroup(g, event)
    BY <2>3, <2>4 DEF IsGeneratedGroup, IsGeneratedHandler
  <2> QED
    BY <2>2, <2>5
<1>4. CASE \E path \in Paths : g = GeneratedGroup(event, path)
  <2>1. ~Foreign(g)
    BY <1>4 DEF Foreign
  <2> QED
    BY <1>4, <2>1, GeneratedIsGenerated
<1> QED
  BY <1>2, <1>3, <1>4 DEF Known

-------------------------------------------------------------------------------
(* A merge *)

\* The hooks of one event, and what a merge makes of them: what others made in its
\* order, and one group of Aizu's.
AreHooks(s, event, S) ==
  Known(event) \subseteq S /\ s \in Seq(S) /\ ToSet(s) \subseteq Known(event)

AreMerged(s, event, path, S) ==
  LET others == Others(s, event)
      t == Append(others, GeneratedGroup(event, path))
  IN  /\ ~Contains(others, GeneratedGroup(event, path))
      /\ t \in Seq(S) /\ ToSet(t) \subseteq Known(event)
      /\ Kept(s) = others
      /\ Kept(t) = others /\ Made(t) = <<GeneratedGroup(event, path)>>
      /\ Others(t, event) = others
      /\ GeneratedHandler(event, path) \in HandlersOf(t)

LEMMA EventIsMerged ==
  ASSUME NEW event \in AllEvents, NEW path \in Paths, NEW S, NEW s, AreHooks(s, event, S)
  PROVE  AreMerged(s, event, path, S)
<1> DEFINE own == GeneratedGroup(event, path)
           places == {i \in DOMAIN s : ~IsGeneratedGroup(s[i], event)}
           others == Others(s, event)
           t == Append(others, own)
<1>0. Known(event) \subseteq S /\ s \in Seq(S) /\ ToSet(s) \subseteq Known(event)
  BY DEF AreHooks
<1>1. \A i \in DOMAIN s : s[i] \in Known(event)
  BY <1>0 DEF ToSet
<1>2. own \in Known(event) /\ own \in S /\ IsGeneratedGroup(own, event) /\ ~Foreign(own)
  <2>1. own \in Known(event)
    BY DEF Known
  <2>2. IsGeneratedGroup(own, event)
    BY GeneratedIsGenerated
  <2> HIDE DEF own
  <2>3. ~Foreign(own)
    BY <2>1, <2>2, ForeignOrGenerated
  <2> QED
    BY <1>0, <2>1, <2>2, <2>3
<1>3. others = Picked(s, places)
  BY DEF Others
<1>4. others \in Seq(S)
      /\ \A i \in DOMAIN others : \E j \in places : others[i] = s[j]
  <2>1. places \in SUBSET DOMAIN s
    OBVIOUS
  <2> HIDE DEF places, others
  <2> QED
    BY <1>0, <1>3, <2>1, PickedIs
<1>5. ASSUME NEW i \in DOMAIN others
      PROVE  others[i] \in Known(event) /\ ~IsGeneratedGroup(others[i], event) /\ Foreign(others[i])
  <2>1. others[i] \in Known(event) /\ ~IsGeneratedGroup(others[i], event)
    <3>1. PICK j \in places : others[i] = s[j]
      BY <1>4
    <3> HIDE DEF others
    <3> QED
      BY <1>1, <3>1
  <2> HIDE DEF others
  <2> QED
    BY <2>1, ForeignOrGenerated
<1> HIDE DEF own, others
<1>6. ~Contains(others, own)
  <2>1. DOMAIN others = 1..Len(others)
    BY <1>4
  <2> QED
    BY <1>2, <1>5, <2>1 DEF Contains
<1>7. t \in Seq(S) /\ Len(t) = Len(others) + 1 /\ Len(others) \in Nat
      /\ DOMAIN t = 1..(Len(others) + 1) /\ DOMAIN others = 1..Len(others)
      /\ (\A k \in 1..Len(others) : t[k] = others[k]) /\ t[Len(others) + 1] = own
  BY <1>2, <1>4, AppendProperties
<1>8. Picked(t, 1..Len(others)) = others /\ Picked(t, {Len(others) + 1}) = <<own>>
  BY <1>2, <1>4, PickedAround
<1> HIDE DEF t
<1>9. \A k \in DOMAIN t : k \in 1..Len(others) \/ k = Len(others) + 1
  BY <1>7
<1>10. ToSet(t) \subseteq Known(event)
  <2>1. \A k \in DOMAIN t : t[k] \in Known(event)
    BY <1>2, <1>5, <1>7, <1>9
  <2> QED
    BY <2>1 DEF ToSet
<1>11. {i \in DOMAIN t : Foreign(t[i])} = 1..Len(others)
       /\ {i \in DOMAIN t : ~Foreign(t[i])} = {Len(others) + 1}
       /\ {i \in DOMAIN t : ~IsGeneratedGroup(t[i], event)} = 1..Len(others)
  <2>1. \A k \in 1..Len(others) : k \in DOMAIN t /\ Foreign(t[k]) /\ ~IsGeneratedGroup(t[k], event)
    BY <1>5, <1>7
  <2>2. Len(others) + 1 \in DOMAIN t
        /\ ~Foreign(t[Len(others) + 1]) /\ IsGeneratedGroup(t[Len(others) + 1], event)
    BY <1>2, <1>7
  <2>3. Len(others) + 1 \notin 1..Len(others)
    BY <1>7
  <2> QED
    BY <1>9, <2>1, <2>2, <2>3
<1>12. Kept(t) = others /\ Made(t) = <<own>> /\ Others(t, event) = others
  BY <1>8, <1>11 DEF Kept, Made, Others
<1>13. Kept(s) = others
  <2>1. {i \in DOMAIN s : Foreign(s[i])} = places
    BY <1>1, ForeignOrGenerated
  <2> QED
    BY <1>3, <2>1 DEF Kept
<1>14. GeneratedHandler(event, path) \in HandlersOf(t)
  <2>1. own \in ToSet(t)
    BY <1>7 DEF ToSet
  <2>2. GeneratedHandler(event, path) \in ToSet(own.handlers)
    BY DEF own, GeneratedGroup, Group, ToSet
  <2> QED
    BY <2>1, <2>2 DEF HandlersOf
<1> QED
  BY <1>6, <1>7, <1>10, <1>12, <1>13, <1>14 DEF AreMerged, own, others, t

LEMMA ConfigIsMerged ==
  ASSUME agent \in {"codex", "claude-code"}, NEW c, IsConfig(c), NEW path \in Paths
  PROVE  LET d == Merged(c, path)
         IN  /\ IsConfig(d)
             /\ d.mergeable = c.mergeable /\ d.disabled = c.disabled
             /\ \A event \in AllEvents : Kept(d.groups[event]) = Kept(c.groups[event])
             /\ \A event \in Events :
                  /\ Made(d.groups[event]) = <<GeneratedGroup(event, path)>>
                  /\ GeneratedHandler(event, path) \in HandlersOf(d.groups[event])
             /\ Merged(d, path) = d
<1> DEFINE S == UNION {Known(event) : event \in AllEvents}
           d == Merged(c, path)
           One(event) == Append(Others(c.groups[event], event), GeneratedGroup(event, path))
<1>1. Events \subseteq AllEvents
  BY DEF Events
<1>2. /\ c = [mergeable |-> c.mergeable, disabled |-> c.disabled, groups |-> c.groups]
      /\ c.mergeable \in BOOLEAN /\ c.disabled \in BOOLEAN /\ c.groups \in [AllEvents -> Seq(S)]
      /\ \A event \in AllEvents : ToSet(c.groups[event]) \subseteq Known(event)
  BY DEF IsConfig
<1>3. \A event \in AllEvents : Known(event) \subseteq S
  OBVIOUS
<1> HIDE DEF S
<1>4. ASSUME NEW event \in AllEvents
      PROVE  /\ ~Contains(Others(c.groups[event], event), GeneratedGroup(event, path))
             /\ One(event) \in Seq(S) /\ ToSet(One(event)) \subseteq Known(event)
             /\ Kept(One(event)) = Kept(c.groups[event])
             /\ Made(One(event)) = <<GeneratedGroup(event, path)>>
             /\ Others(One(event), event) = Others(c.groups[event], event)
             /\ GeneratedHandler(event, path) \in HandlersOf(One(event))
  <2>1. AreHooks(c.groups[event], event, S)
    BY <1>2, <1>3 DEF AreHooks
  <2>2. AreMerged(c.groups[event], event, path, S)
    BY <2>1, EventIsMerged
  <2> QED
    BY <2>2 DEF AreMerged
<1> HIDE DEF One
<1>5. d = [c EXCEPT !.groups = [event \in AllEvents |->
             IF event \in Events THEN One(event) ELSE c.groups[event]]]
  BY <1>4 DEF Merged, One
<1>6. /\ d.mergeable = c.mergeable /\ d.disabled = c.disabled
      /\ d.groups = [event \in AllEvents |->
             IF event \in Events THEN One(event) ELSE c.groups[event]]
  BY <1>2, <1>5
<1>7. IsConfig(d)
  <2>1. d.groups \in [AllEvents -> Seq(S)]
    BY <1>2, <1>4, <1>6
  <2>2. \A event \in AllEvents : ToSet(d.groups[event]) \subseteq Known(event)
    BY <1>2, <1>4, <1>6
  <2>3. d \in [mergeable : BOOLEAN, disabled : BOOLEAN, groups : [AllEvents -> Seq(S)]]
    BY <1>2, <1>5, <1>6, <2>1
  <2> QED
    BY <2>2, <2>3 DEF IsConfig, S
<1>8. Merged(d, path) = d
  <2>1. ASSUME NEW event \in Events
        PROVE  /\ Others(d.groups[event], event) = Others(c.groups[event], event)
               /\ d.groups[event] = One(event)
    BY <1>1, <1>4, <1>6
  <2>2. Merged(d, path) = [d EXCEPT !.groups = [event \in AllEvents |->
             IF event \in Events THEN One(event) ELSE d.groups[event]]]
    BY <1>1, <1>4, <2>1 DEF Merged, One
  <2>3. [event \in AllEvents |-> IF event \in Events THEN One(event) ELSE d.groups[event]] = d.groups
    BY <1>6, <2>1
  <2>4. [d EXCEPT !.groups = d.groups] = d
    BY <1>7 DEF IsConfig
  <2> QED
    BY <2>2, <2>3, <2>4
<1>9. \A event \in AllEvents : Kept(d.groups[event]) = Kept(c.groups[event])
  BY <1>4, <1>6
<1>10. \A event \in Events :
         /\ Made(d.groups[event]) = <<GeneratedGroup(event, path)>>
         /\ GeneratedHandler(event, path) \in HandlersOf(d.groups[event])
  BY <1>1, <1>4, <1>6
<1> HIDE DEF d
<1> QED
  BY <1>6, <1>7, <1>8, <1>9, <1>10 DEF d

-------------------------------------------------------------------------------
(* The steps *)

LEMMA MergeBegins == InitMerge => MergeInd
<1> SUFFICES ASSUME InitMerge PROVE MergeInd
  OBVIOUS
<1>1. \A event \in AllEvents : config.groups[event] = << >> /\ ToSet(<< >>) = {}
  BY DEF InitMerge, ToSet
<1> QED
  BY <1>1 DEF InitMerge, MergeInd, IsConfig

LEMMA OthersAdd ==
  ASSUME MergeInd, NEW event \in Events, Add(event)
  PROVE  MergeInd'
<1> DEFINE S == UNION {Known(e) : e \in AllEvents}
<1>1. event \in AllEvents
  BY DEF Events
<1>2. PICK g \in ForeignGroups(event) \union OlderGroups(event) :
        \E groups \in {<<g>> \o config.groups[event], Append(config.groups[event], g)} :
          config' = [config EXCEPT !.groups[event] = groups]
  BY DEF Add
<1>3. PICK groups \in {<<g>> \o config.groups[event], Append(config.groups[event], g)} :
        config' = [config EXCEPT !.groups[event] = groups]
  BY <1>2
<1>4. IsConfig(config) /\ agent' = agent
  BY DEF MergeInd, Add
<1>5. config.groups[event] \in Seq(S) /\ ToSet(config.groups[event]) \subseteq Known(event)
      /\ g \in Known(event) /\ g \in S
  BY <1>1, <1>4 DEF IsConfig, Known
<1> HIDE DEF S
<1>6. groups \in Seq(S) /\ ToSet(groups) \subseteq Known(event)
  <2> DEFINE s == config.groups[event]
  <2>0. s \in Seq(S) /\ \A i \in 1..Len(s) : s[i] \in Known(event)
    <3>1. DOMAIN s = 1..Len(s)
      BY <1>5
    <3> QED
      BY <1>5, <3>1 DEF ToSet
  <2> HIDE DEF s
  <2>1. CASE groups = <<g>> \o s
    <3>1. <<g>> \in Seq(S) /\ Len(<<g>>) = 1 /\ <<g>>[1] = g /\ Len(s) \in Nat
      BY <1>5, <2>0
    <3>2. groups \in Seq(S) /\ Len(groups) = Len(<<g>>) + Len(s)
          /\ \A i \in 1..(Len(<<g>>) + Len(s)) :
               groups[i] = IF i <= Len(<<g>>) THEN <<g>>[i] ELSE s[i - Len(<<g>>)]
      BY <2>0, <2>1, <3>1, ConcatProperties
    <3>3. \A i \in 1..Len(groups) : groups[i] \in Known(event)
      <4> SUFFICES ASSUME NEW i \in 1..Len(groups) PROVE groups[i] \in Known(event)
        OBVIOUS
      <4>1. CASE i = 1
        BY <1>5, <3>1, <3>2, <4>1
      <4>2. CASE i # 1
        <5>1. i - 1 \in 1..Len(s) /\ ~(i <= 1) /\ i \in 1..(1 + Len(s))
          BY <3>1, <3>2, <4>2
        <5>2. groups[i] = s[i - 1]
          BY <3>1, <3>2, <5>1
        <5> QED
          BY <2>0, <5>1, <5>2
      <4> QED
        BY <4>1, <4>2
    <3>4. DOMAIN groups = 1..Len(groups)
      BY <3>2
    <3> QED
      BY <3>2, <3>3, <3>4 DEF ToSet
  <2>2. CASE groups = Append(s, g)
    <3>1. groups \in Seq(S) /\ Len(groups) = Len(s) + 1 /\ Len(s) \in Nat
          /\ (\A i \in 1..Len(s) : groups[i] = s[i]) /\ groups[Len(s) + 1] = g
      BY <1>5, <2>0, <2>2, AppendProperties
    <3>2. \A i \in 1..Len(groups) : groups[i] \in Known(event)
      <4> SUFFICES ASSUME NEW i \in 1..Len(groups) PROVE groups[i] \in Known(event)
        OBVIOUS
      <4>1. i \in 1..Len(s) \/ i = Len(s) + 1
        BY <3>1
      <4> QED
        BY <1>5, <2>0, <3>1, <4>1
    <3>3. DOMAIN groups = 1..Len(groups)
      BY <3>1
    <3> QED
      BY <3>1, <3>2, <3>3 DEF ToSet
  <2> QED
    BY <1>3, <2>1, <2>2 DEF s
<1>7. config' \in [mergeable : BOOLEAN, disabled : BOOLEAN, groups : [AllEvents -> Seq(S)]]
      /\ config'.groups = [config.groups EXCEPT ![event] = groups]
      /\ config.groups \in [AllEvents -> Seq(S)]
  BY <1>1, <1>3, <1>4, <1>6 DEF IsConfig, S
<1>8. \A e \in AllEvents : ToSet(config'.groups[e]) \subseteq Known(e)
  BY <1>1, <1>4, <1>6, <1>7 DEF IsConfig
<1>9. IsConfig(config)'
  BY <1>7, <1>8 DEF IsConfig, S
<1> QED
  BY <1>4, <1>9 DEF MergeInd

LEMMA OthersEdit == MergeInd /\ EditByOthers => MergeInd'
<1> SUFFICES ASSUME MergeInd, EditByOthers PROVE MergeInd'
  OBVIOUS
<1>1. config' = [config EXCEPT !.disabled = ~@] \/ config' = [config EXCEPT !.mergeable = ~@]
  BY DEF EditByOthers
<1>2. config' \in [mergeable : BOOLEAN, disabled : BOOLEAN,
                   groups : [AllEvents -> Seq(UNION {Known(event) : event \in AllEvents})]]
      /\ config'.groups = config.groups
  BY <1>1 DEF MergeInd, IsConfig
<1> QED
  BY <1>2 DEF MergeInd, IsConfig, EditByOthers

LEMMA MergeKeeps == MergeInd /\ [NextMerge]_mergeVars => MergeInd'
<1> SUFFICES ASSUME MergeInd, [NextMerge]_mergeVars PROVE MergeInd'
  OBVIOUS
<1>1. CASE \E event \in Events : Add(event)
  BY <1>1, OthersAdd
<1>2. CASE EditByOthers
  BY <1>2, OthersEdit
<1>3. ASSUME NEW path \in Paths, Install(path) PROVE MergeInd'
  <2>1. IsConfig(Merged(config, path))
    BY ConfigIsMerged DEF MergeInd
  <2>2. config' = Merged(config, path) /\ agent' = agent
    BY <1>3 DEF Install
  <2> QED
    BY <2>1, <2>2 DEF MergeInd, IsConfig
<1>4. CASE UNCHANGED mergeVars
  BY <1>4 DEF mergeVars, MergeInd, IsConfig
<1> QED
  BY <1>1, <1>2, <1>3, <1>4 DEF NextMerge

LEMMA InstallMerges ==
  ASSUME MergeInd, NEW path \in Paths, Install(path)
  PROVE  /\ \A event \in AllEvents : Kept(config'.groups[event]) = Kept(config.groups[event])
         /\ \A event \in Events : Made(config'.groups[event]) = <<GeneratedGroup(event, path)>>
         /\ Merged(config', path) = config'
         /\ Status(config', path) = "missing" <=> agent = "claude-code" /\ config.disabled
<1>1. config' = Merged(config, path) /\ config.mergeable /\ agent \in {"codex", "claude-code"}
  BY DEF Install, Mergeable, MergeInd
<1>2. /\ config'.mergeable = config.mergeable /\ config'.disabled = config.disabled
      /\ \A event \in AllEvents : Kept(config'.groups[event]) = Kept(config.groups[event])
      /\ \A event \in Events :
           /\ Made(config'.groups[event]) = <<GeneratedGroup(event, path)>>
           /\ GeneratedHandler(event, path) \in HandlersOf(config'.groups[event])
      /\ Merged(config', path) = config'
  BY <1>1, ConfigIsMerged DEF MergeInd
<1>3. Mergeable(config', path)
  BY <1>1, <1>2, MergeAssumption DEF Mergeable, ValidPath
<1>4. Status(config', path) = "missing" <=> agent = "claude-code" /\ config.disabled
  BY <1>1, <1>2, <1>3 DEF Status
<1> QED
  BY <1>2, <1>4

\* A merge leaves the groups of others alone and one group of Aizu's for every event.
THEOREM MergesAreOnce == Merging => MergedOnce
<1>1. MergeInd /\ [NextMerge]_mergeVars =>
        [\A path \in Paths : config' # config /\ Install(path) =>
           /\ \A event \in AllEvents : Kept(config'.groups[event]) = Kept(config.groups[event])
           /\ \A event \in Events : Made(config'.groups[event]) = <<GeneratedGroup(event, path)>>
           /\ Merged(config', path) = config'
           /\ Status(config', path) = "missing" <=> agent = "claude-code" /\ config.disabled]_mergeVars
  BY InstallMerges
<1> QED
  BY <1>1, MergeBegins, MergeKeeps, PTL DEF Merging, MergedOnce

===============================================================================
