------------------------------ MODULE MCInstall ------------------------------
(***************************************************************************)
(* Small instances for TLC of the hooks of the agents: their installation   *)
(* by the desktop and a user of the command line, the merge of one          *)
(* configuration, and a run of the command that a hook calls.  A behaviour  *)
(* follows one of the three and leaves the others alone.                    *)
(***************************************************************************)
EXTENDS HookInstall, HookMerge, HookCommand

VARIABLE part

MCWanted == [i \in Installers |-> <<"codex", "claude-code">>]

\* Where nothing is installed, the configurations cannot be merged and stay so.
NoInstallation ==
  /\ file = [a \in Agents |-> Configuration("bad", {}, {})]
  /\ disk = [a \in Agents |-> {file[a]}] /\ dir = [a \in Agents |-> "kept"]
  /\ litter = [a \in Agents |-> 0]
  /\ lock = "none" /\ proc = [i \in Installers |-> Idle]
  /\ saved = [a \in Agents |-> {}] /\ late = [a \in Agents |-> {}] /\ failures = 0

MCCall == CHOOSE c \in Calls1 : TRUE

MCInit ==
  /\ part \in {"install", "merge", "command"}
  /\ IF part = "install" THEN InitInstall ELSE NoInstallation
  /\ InitMerge /\ (part # "merge" => agent = "codex")
  /\ InitHookRun /\ (part # "command" => call = MCCall)

MCNext ==
  /\ UNCHANGED part
  /\ \/ part = "install" /\ NextInstall /\ UNCHANGED <<mergeVars, hookRunVars>>
     \/ part = "merge" /\ NextMerge /\ UNCHANGED <<installVars, hookRunVars>>
     \/ part = "command" /\ NextHookRun /\ UNCHANGED <<installVars, mergeVars>>

\* The fairness of FairInstallation, of the behaviours that install.
MCSpec ==
  /\ MCInit
  /\ [][MCNext]_<<part, installVars, mergeVars, hookRunVars>>
  /\ \A i \in Installers :
       /\ WF_installVars(part = "install" /\ Begin(i))
       /\ WF_installVars(part = "install" /\ Step(i))
===============================================================================
