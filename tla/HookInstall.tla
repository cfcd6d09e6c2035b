----------------------------- MODULE HookInstall -----------------------------
(***************************************************************************)
(* Installing the hooks of Aizu into the configuration files of the agents *)
(* (hook_install.rs, integration.rs): installers that exclude each other   *)
(* by a lock, editors and agents that do not know the lock, I/O errors,    *)
(* installers that are killed, and a machine that loses power.             *)
(*                                                                         *)
(* A configuration is what the merge tells apart: the executables whose    *)
(* generated handlers it holds, everything else in it, and whether it can  *)
(* be merged at all.  One save of an editor is one step.                   *)
(***************************************************************************)
EXTENDS Integers, Sequences, FiniteSets

CONSTANTS
  Installers,           \* running `aizu integrations install` or the desktop's setup
  Agents,               \* each with one configuration file in a directory of its own
  Wanted,               \* the agents an installer is asked for, in order
  Edits,                \* what editors add to a configuration, each once
  MaxFailures           \* bound on errors, kills and power losses

ASSUME InstallAssumption ==
  /\ Wanted \in [Installers -> Seq(Agents)]
  /\ \A i \in Installers : Wanted[i] # <<>>
  /\ "none" \notin Installers
  /\ MaxFailures \in Nat

VARIABLES
  file,                 \* the configuration of each agent as processes see it
  disk,                 \* what a power loss may leave of it
  dir,                  \* its directory: absent, fresh (its own entry never synced) or kept
  litter,               \* staged files nobody will remove
  lock,                 \* holder of hooks.lock
  proc,                 \* the installers
  saved, late,          \* ghosts: edits saved, and those saved between a comparison and its rename
  failures

fileVars == <<file, disk, dir, litter>>
installVars == <<fileVars, lock, proc, saved, late, failures>>

Configuration(kind, ours, other) == [kind |-> kind, ours |-> ours, other |-> other]
NoFile == Configuration("none", {}, {})
Torn == Configuration("torn", {}, {})
Contents == [kind : {"none", "good", "bad", "torn"}, ours : SUBSET Installers,
             other : SUBSET Edits]

Usable(c) == c.kind \in {"none", "good"}

\* merge_hook_configuration.  An installer stands for the executable it installs.
Merge(c, i) == [c EXCEPT !.kind = "good", !.ours = {i}]

Idle == [at |-> "idle", todo |-> <<>>, made |-> {}, synced |-> FALSE,
         plan |-> [a \in Agents |-> [orig |-> NoFile, new |-> NoFile, writes |-> FALSE]]]

Now(i) == Head(proc[i].todo)
Plan(i) == proc[i].plan[Now(i)]

At(i, place) == proc[i].at = place
Goes(i, place) == proc' = [proc EXCEPT ![i].at = place]

Failure == failures < MaxFailures /\ failures' = failures + 1

-------------------------------------------------------------------------------
(* One installer *)

\* validate_executable, then the first prepare_updates: it changes nothing and is forgotten.
Begin(i) ==
  /\ At(i, "idle")
  /\ \A k \in DOMAIN Wanted[i] : Usable(file[Wanted[i][k]])
  /\ Goes(i, "lock")
  /\ UNCHANGED <<fileVars, lock, saved, late, failures>>

Free(i) == lock = "none"

\* HookInstallLock::acquire: try_lock, and the installer ends when another holds it.
TryLock(i) ==
  /\ At(i, "lock")
  /\ \/ /\ Free(i)
        /\ lock' = i
        /\ proc' = [proc EXCEPT ![i].at = "prepare", ![i].todo = Wanted[i]]
     \/ /\ ~Free(i)
        /\ proc' = [proc EXCEPT ![i] = Idle]
        /\ UNCHANGED lock
  /\ UNCHANGED <<fileVars, saved, late, failures>>

\* The end of install_agent_hooks by an error: CreatedDirectories removes the directories
\* this call made when they are empty, the staged file goes, the lock is released.
GiveUp(i) ==
  /\ dir' = [a \in Agents |-> IF a \in proc[i].made /\ file[a] = NoFile /\ litter[a] = 0
                              THEN "absent" ELSE dir[a]]
  /\ lock' = IF lock = i THEN "none" ELSE lock
  /\ proc' = [proc EXCEPT ![i] = Idle]
  /\ UNCHANGED <<file, disk, litter, saved, late>>

\* The next turn of a loop over the agents asked for, or what follows the loop.
Turn(p, i, loop, after) ==
  LET left == Tail(p.todo)
  IN  [p EXCEPT !.at = IF left = <<>> THEN after ELSE loop,
                !.todo = IF left = <<>> THEN Wanted[i] ELSE left]

\* One turn of the loop of prepare_updates.  A file that holds its merge already is
\* rewritten only when its permissions are wrong.
Prepare(i) ==
  /\ At(i, "prepare")
  /\ LET a == Now(i)
         c == file[a]
         plan(writes) == [orig |-> c, new |-> Merge(c, i), writes |-> writes]
     IN  \/ /\ ~Usable(c)
            /\ GiveUp(i)
         \/ /\ Usable(c)
            /\ \E writes \in IF Merge(c, i) = c THEN BOOLEAN ELSE {TRUE} :
                 proc' = [proc EXCEPT
                   ![i] = Turn([@ EXCEPT !.plan[a] = plan(writes)], i, "prepare", "make")]
            /\ UNCHANGED <<fileVars, lock, saved, late>>
  /\ UNCHANGED failures

\* One turn of the loop of create_update_directories.
MakeDirectory(i) ==
  /\ At(i, "make")
  /\ LET makes == {a \in {Now(i)} : Plan(i).writes /\ dir[a] = "absent"}
         made == [proc[i] EXCEPT !.made = @ \union makes]
     IN  /\ dir' = [a \in Agents |-> IF a \in makes THEN "fresh" ELSE dir[a]]
         /\ proc' = [proc EXCEPT ![i] = Turn(made, i, "make", "write")]
  /\ UNCHANGED <<file, disk, litter, lock, saved, late, failures>>

\* Faulty variant: the file is not looked at again.
Unchanged_Never(i) == TRUE

Unchanged(i) == file[Now(i)] = Plan(i).orig

\* ensure_configuration_unchanged for the first time, and the staged file is created.
Stage(i) ==
  /\ At(i, "write")
  /\ \/ /\ ~Plan(i).writes
        /\ proc' = [proc EXCEPT ![i] = Turn(@, i, "write", "finish")]
        /\ UNCHANGED <<fileVars, lock, saved, late>>
     \/ /\ Plan(i).writes /\ Unchanged(i)
        /\ proc' = [proc EXCEPT ![i].at = "sync", ![i].synced = FALSE]
        /\ UNCHANGED <<fileVars, lock, saved, late>>
     \/ /\ Plan(i).writes /\ ~Unchanged(i)
        /\ GiveUp(i)
  /\ UNCHANGED failures

\* sync_all of the staged file.
Sync(i) ==
  /\ At(i, "sync")
  /\ proc' = [proc EXCEPT ![i].at = "compare", ![i].synced = TRUE]
  /\ UNCHANGED <<fileVars, lock, saved, late, failures>>

\* The comparison before the rename: an editor may have saved meanwhile.
Compare(i) ==
  /\ At(i, "compare")
  /\ \/ Unchanged(i) /\ Goes(i, "rename") /\ UNCHANGED <<fileVars, lock, saved, late>>
     \/ ~Unchanged(i) /\ GiveUp(i)
  /\ UNCHANGED failures

\* After a power loss a name stands for the old file or the new one until its directory is
\* synced, and data that never was synced may be gone.
Rename(i) ==
  /\ At(i, "rename")
  /\ file' = [file EXCEPT ![Now(i)] = Plan(i).new]
  /\ disk' = [disk EXCEPT ![Now(i)] =
                @ \union {Plan(i).new} \union IF proc[i].synced THEN {} ELSE {Torn}]
  /\ Goes(i, "secure")
  /\ UNCHANGED <<dir, litter, lock, saved, late, failures>>

\* set_permissions and sync_parent.
Secure(i) ==
  /\ At(i, "secure")
  /\ disk' = [disk EXCEPT ![Now(i)] =
                {file[Now(i)]} \union IF proc[i].synced THEN {} ELSE {Torn}]
  /\ proc' = [proc EXCEPT ![i] = Turn(@, i, "write", "finish")]
  /\ UNCHANGED <<file, dir, litter, lock, saved, late, failures>>

\* Everything asked for is written; the call succeeds and its lock is dropped.
Finish(i) ==
  /\ At(i, "finish")
  /\ lock' = "none"
  /\ proc' = [proc EXCEPT ![i] = Idle]
  /\ UNCHANGED <<fileVars, saved, late, failures>>

\* Any operation of the file system may fail, the ones after the rename too.
Error(i) ==
  /\ Failure
  /\ proc[i].at \in {"lock", "prepare", "make", "write", "sync", "compare", "rename", "secure"}
  /\ GiveUp(i)

\* Faulty variant: the lock is a file that only its owner removes.
Unlocked_Stale(i) == lock

\* The system releases the lock of a dead process.
Unlocked(i) == IF lock = i THEN "none" ELSE lock

\* A staged file exists from its creation to the rename.
Staged(i, a) == proc[i].at \in {"sync", "compare", "rename"} /\ Now(i) = a

Kill(i) ==
  /\ Failure
  /\ ~At(i, "idle")
  /\ litter' = [a \in Agents |-> IF Staged(i, a) THEN 1 ELSE litter[a]]
  /\ lock' = Unlocked(i)
  /\ proc' = [proc EXCEPT ![i] = Idle]
  /\ UNCHANGED <<file, disk, dir, saved, late>>

-------------------------------------------------------------------------------
(* Everybody else *)

\* An editor or an agent changes a configuration, perhaps so that Aizu cannot merge it
\* (malformed, an unexpected structure, disableAllHooks), perhaps to repair it.
Edit(a) ==
  \E e \in Edits \ saved[a], kind \in {"good", "bad"} :
    /\ file' = [file EXCEPT ![a] = [kind |-> kind, ours |-> @.ours, other |-> @.other \union {e}]]
    /\ disk' = [disk EXCEPT ![a] = {file'[a]}]
    /\ dir' = [dir EXCEPT ![a] = "kept"]
    /\ saved' = [saved EXCEPT ![a] = @ \union {e}]
    /\ late' = IF \E i \in Installers : At(i, "rename") /\ Now(i) = a
               THEN [late EXCEPT ![a] = @ \union {e}] ELSE late
    /\ UNCHANGED <<litter, lock, proc, failures>>

\* Everything runs no more, and what was never synced may be lost: a name that was
\* changed, or a directory whose own entry nobody synced.
PowerLoss ==
  /\ Failure
  /\ \E gone \in SUBSET {a \in Agents : dir[a] = "fresh"},
        after \in [Agents -> {NoFile} \union UNION {disk[a] : a \in Agents}] :
       /\ \A a \in Agents : after[a] \in IF a \in gone THEN {NoFile} ELSE disk[a]
       /\ file' = after
       /\ disk' = [a \in Agents |-> {after[a]}]
       /\ dir' = [a \in Agents |-> IF a \in gone THEN "absent"
                                   ELSE IF dir[a] = "fresh" THEN "kept" ELSE dir[a]]
       /\ litter' = [a \in Agents |-> IF a \in gone THEN 0
                                      ELSE IF \E i \in Installers : Staged(i, a) THEN 1
                                      ELSE litter[a]]
  /\ lock' = "none"
  /\ proc' = [i \in Installers |-> Idle]
  /\ UNCHANGED <<saved, late>>

-------------------------------------------------------------------------------

InitInstall ==
  /\ file = [a \in Agents |-> NoFile]
  /\ disk = [a \in Agents |-> {NoFile}]
  /\ dir \in [Agents -> {"absent", "kept"}]
  /\ litter = [a \in Agents |-> 0]
  /\ lock = "none"
  /\ proc = [i \in Installers |-> Idle]
  /\ saved = [a \in Agents |-> {}] /\ late = [a \in Agents |-> {}]
  /\ failures = 0

Step(i) ==
  \/ TryLock(i) \/ Prepare(i) \/ MakeDirectory(i) \/ Stage(i) \/ Sync(i)
  \/ Compare(i) \/ Rename(i) \/ Secure(i) \/ Finish(i)

NextInstall ==
  \/ \E i \in Installers : Begin(i) \/ Step(i) \/ Error(i) \/ Kill(i)
  \/ \E a \in Agents : Edit(a)
  \/ PowerLoss

Installation == InitInstall /\ [][NextInstall]_installVars

\* An installer that runs is scheduled, and whoever wants the hooks tries again.
FairInstallation == Installation /\ \A i \in Installers : WF_installVars(Begin(i)) /\ WF_installVars(Step(i))

-------------------------------------------------------------------------------
(* Properties *)

Places == {"idle", "lock", "prepare", "make", "write", "sync", "compare", "rename", "secure",
           "finish"}

\* Types, and at most one installer between the lock and its end (hook_install.rs:113).
InstallTypeOK ==
  /\ file \in [Agents -> Contents] /\ \A a \in Agents : disk[a] \subseteq Contents
  /\ dir \in [Agents -> {"absent", "fresh", "kept"}] /\ litter \in [Agents -> 0..1]
  /\ lock \in Installers \union {"none"}
  /\ \A i \in Installers : proc[i].at \in Places /\ proc[i].made \subseteq Agents
  /\ \A i \in Installers : proc[i].at \notin {"idle", "lock"} <=> lock = i
  /\ \A a \in Agents : late[a] \subseteq saved[a] /\ saved[a] \subseteq Edits
  /\ failures \in 0..MaxFailures

\* Whatever fails, is killed or loses power, a configuration is always one complete version
\* of itself, with the handlers of one Aizu at most (the agent would run each of them).
FilesAreWhole ==
  \A a \in Agents : file[a].kind # "torn" /\ Cardinality(file[a].ours) <= 1

\* What an editor has saved stays in the configuration, unless it was saved between the
\* last comparison and the rename, the window the comment of install_agent_hooks concedes.
EditsSurvive == \A a \in Agents : saved[a] \ file[a].other \subseteq late[a]

\* When an installation is about to report success, every configuration it was asked for
\* holds its handlers, unless an editor has saved since; no other installer has been there.
\* What it wrote survives a loss of power if the directory itself does.
SuccessHolds ==
  \A i \in Installers : At(i, "finish") =>
    \A k \in DOMAIN Wanted[i] :
      LET a == Wanted[i][k]
          plan == proc[i].plan[a]
      IN  /\ file[a] = plan.new \/ ~(saved[a] \subseteq plan.new.other \union late[a])
          /\ plan.writes => disk[a] = {file[a]}

\* Whatever an earlier attempt left behind (one file of two replaced, directories, staged
\* files, the lock of a killed installer), repeating the command ends with the hooks in
\* place, once the configurations can be merged and stay so.
RetryRepairs ==
  <>[]((\A a \in Agents : Usable(file[a])) => \A a \in Agents : file[a].ours # {})

\* All of them: what installers leave of the configurations.
InstallInv == InstallTypeOK /\ FilesAreWhole /\ EditsSurvive /\ SuccessHolds
===============================================================================
