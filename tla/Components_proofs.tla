-------------------------- MODULE Components_proofs --------------------------
(***************************************************************************)
(* Proofs about components that are checked by themselves, each for every  *)
(* value of its constants: the installation of hooks, the schedule of the  *)
(* outbox, a run of the command that a hook calls, the opening of the      *)
(* databases, the batches of the retention, the spool, and the text of an  *)
(* agent.                                                                  *)
(*                                                                         *)
(* HookInstall.  Whoever has the lock has planned each configuration from  *)
(* what it read (Prepared); the configuration that it renames over is      *)
(* still the one it read, or lacks but edits that were late, which came    *)
(* after the comparison (Follows, Keeps).                                  *)
(* OutboxSchedule.  An entry that was tried is due again after the delay   *)
(* of its last failure (ScheduleInv), and its attempts count its tries.    *)
(* HookCommand.  What is understood, asked and drafted at each stage is    *)
(* what the payload and the answer say (HookRunInd).                       *)
(* StoreOpening.  The database is as it was, or what the migrations make   *)
(* of it, and whoever has opened it has its identity (OpeningInd).         *)
(* RetentionLoop.  What a batch has deleted are the first rows of the      *)
(* table in the order of the query, each of them due, and the counts are   *)
(* those of the rest (PruningInd).                                         *)
(* Spool.  The maintenance lock admits one regeneration at a time; once it *)
(* is past its barrier no writer is past its probe (a writer that probed   *)
(* before the lock was taken has committed, one that probes later fails),  *)
(* so what the regeneration counted and saved is what it replaces.         *)
(* AgentExcerpt.  A token of prose changes nothing but what is awaited, and *)
(* that only at the end of a line (ProseTurn); the loops over tokens and   *)
(* lines copy what they have read so far (LineIsKept, ExcerptIsKept).      *)
(***************************************************************************)
EXTENDS HookInstall, OutboxSchedule, HookCommand, StoreOpening, RetentionLoop, Spool,
        AgentExcerpt, FiniteSetTheorems, SequenceTheorems, WellFoundedInduction, TLAPS

-------------------------------------------------------------------------------
(* HookInstall: the installation of the hooks *)

Items(s) == {s[k] : k \in DOMAIN s}
Asked(i) == Items(Wanted[i])
Rest(i) == Items(proc[i].todo)

Loops == {"prepare", "make", "write", "sync", "compare", "rename", "secure"}
Writing == {"sync", "compare", "rename", "secure"}

\* A content that is complete, and lacks no edit but the late ones.
Keeps(a, c) ==
  /\ c.kind # "torn" /\ Cardinality(c.ours) <= 1
  /\ c.other \subseteq saved[a] /\ saved[a] \ c.other \subseteq late[a]

\* The files, and whatever a power loss may leave of them.
FilesKeep ==
  \A a \in Agents :
    /\ Keeps(a, file[a]) /\ \A c \in disk[a] : Keeps(a, c)
    /\ dir[a] # "kept" => saved[a] \subseteq late[a]

\* The file is what the installer made of it, unless it was edited since.
Follows(i, a) ==
  LET new == proc[i].plan[a].new
  IN  file[a] = new \/ ~(saved[a] \subseteq new.other \union late[a])

Prepared(i, a) ==
  LET plan == proc[i].plan[a]
  IN  /\ plan.new = Merge(plan.orig, i)
      /\ plan.orig.other \subseteq saved[a]
      /\ ~plan.writes => Follows(i, a)

Written(i, a) == Follows(i, a) /\ (proc[i].plan[a].writes => disk[a] = {file[a]})

InstallerKeeps(i) ==
  /\ proc[i].at \in Loops => proc[i].todo # <<>> /\ Rest(i) \subseteq Asked(i)
  /\ proc[i].at = "prepare" => \A a \in Asked(i) \ Rest(i) : Prepared(i, a)
  /\ proc[i].at \in {"make", "write", "finish"} \union Writing => \A a \in Asked(i) : Prepared(i, a)
  /\ proc[i].at \in {"write"} \union Writing => \A a \in Asked(i) \ Rest(i) : Written(i, a)
  /\ proc[i].at = "finish" => \A a \in Asked(i) : Written(i, a)
  /\ proc[i].at \in Writing => Plan(i).writes
  /\ proc[i].at \in {"compare", "rename", "secure"} => proc[i].synced
  /\ proc[i].at = "rename" => saved[Now(i)] \ Plan(i).new.other \subseteq late[Now(i)]
  /\ proc[i].at = "secure" => Follows(i, Now(i))

Plans == [Agents -> [orig : Contents, new : Contents, writes : BOOLEAN]]
InstallProcs == [at : Places, todo : Seq(Agents), made : SUBSET Agents, synced : BOOLEAN, plan : Plans]

InstallInd ==
  /\ InstallTypeOK
  /\ proc \in [Installers -> InstallProcs]
  /\ disk \in [Agents -> SUBSET Contents] /\ saved \in [Agents -> SUBSET Edits]
  /\ late \in [Agents -> SUBSET Edits]
  /\ FilesKeep
  /\ \A i \in Installers : InstallerKeeps(i)

\* What is left of a list of agents, one turn on.
LEMMA TailSteps ==
  ASSUME NEW s \in Seq(Agents), s # << >>
  PROVE  /\ Head(s) \in Agents /\ Tail(s) \in Seq(Agents)
         /\ Head(s) \in Items(s)
         /\ Items(s) \subseteq {Head(s)} \union Items(Tail(s))
         /\ Items(Tail(s)) \subseteq Items(s)
         /\ Tail(s) = << >> => Items(s) = {Head(s)}
<1>1. Len(s) \in Nat /\ Len(s) # 0 /\ DOMAIN s = 1..Len(s) /\ \A k \in 1..Len(s) : s[k] \in Agents
  BY EmptySeq, LenProperties, ElementOfSeq
<1>2. /\ Head(s) = s[1] /\ Tail(s) \in Seq(Agents) /\ Len(Tail(s)) = Len(s) - 1
      /\ \A k \in 1..(Len(s) - 1) : Tail(s)[k] = s[k + 1]
  BY HeadTailProperties
<1>3. DOMAIN Tail(s) = 1..(Len(s) - 1)
  BY <1>2, LenProperties
<1>4. 1 \in DOMAIN s
  BY <1>1
<1>5. ASSUME NEW a \in Items(s), a # Head(s) PROVE a \in Items(Tail(s))
  <2>1. PICK k \in 1..Len(s) : s[k] = a
    BY <1>1, <1>5 DEF Items
  <2>2. k - 1 \in 1..(Len(s) - 1) /\ k - 1 + 1 = k
    BY <1>1, <1>2, <1>5, <2>1
  <2>3. Tail(s)[k - 1] = a
    BY <1>2, <2>1, <2>2
  <2> QED
    BY <1>3, <2>2, <2>3 DEF Items
<1>6. ASSUME NEW a \in Items(Tail(s)) PROVE a \in Items(s)
  <2>1. PICK k \in 1..(Len(s) - 1) : Tail(s)[k] = a
    BY <1>3, <1>6 DEF Items
  <2>2. k + 1 \in 1..Len(s) /\ s[k + 1] = a
    BY <1>1, <1>2, <2>1
  <2> QED
    BY <1>1, <2>2 DEF Items
<1>7. Head(s) \in Items(s)
  BY <1>2, <1>4 DEF Items
<1>8. Tail(s) = << >> => Items(Tail(s)) = {}
  BY DEF Items
<1> QED
  BY <1>1, <1>2, <1>4, <1>5, <1>6, <1>7, <1>8

\* An installer wants each of its agents once.
LEMMA WantedIsAsked ==
  ASSUME NEW i \in Installers
  PROVE  Wanted[i] \in Seq(Agents) /\ Wanted[i] # << >> /\ Asked(i) \subseteq Agents
BY InstallAssumption, ElementOfSeq, LenProperties DEF Asked, Items

\* A turn of a loop goes on with the next agent, or leaves the loop.
LEMMA TurnSteps ==
  ASSUME NEW p \in InstallProcs, p.todo # << >>, NEW i \in Installers, NEW loop \in Places,
         NEW after \in Places
  PROVE  LET q == Turn(p, i, loop, after) IN
         /\ q \in InstallProcs /\ q.plan = p.plan /\ q.made = p.made /\ q.synced = p.synced
         /\ \/ q.at = loop /\ q.todo = Tail(p.todo) /\ Tail(p.todo) # << >>
            \/ q.at = after /\ q.todo = Wanted[i] /\ Tail(p.todo) = << >>
<1> DEFINE q == Turn(p, i, loop, after)
<1>1. p.todo \in Seq(Agents) /\ p = [at |-> p.at, todo |-> p.todo, made |-> p.made,
                                     synced |-> p.synced, plan |-> p.plan]
  BY DEF InstallProcs
<1>2. Tail(p.todo) \in Seq(Agents) /\ Wanted[i] \in Seq(Agents)
  BY InstallAssumption, <1>1, TailSteps
<1>3. CASE Tail(p.todo) = << >>
  <2>1. q = [p EXCEPT !.at = after, !.todo = Wanted[i]]
    BY <1>3 DEF Turn
  <2> QED
    BY <1>1, <1>2, <1>3, <2>1 DEF InstallProcs
<1>4. CASE Tail(p.todo) # << >>
  <2>1. q = [p EXCEPT !.at = loop, !.todo = Tail(p.todo)]
    BY <1>4 DEF Turn
  <2> QED
    BY <1>1, <1>2, <1>4, <2>1 DEF InstallProcs
<1> QED
  BY <1>3, <1>4

\* An installer that does not run is one.
LEMMA IdleIsProc == Idle \in InstallProcs /\ Idle.at = "idle"
<1>1. NoFile \in Contents
  BY DEF NoFile, Configuration, Contents
<1> QED
  BY <1>1 DEF Idle, InstallProcs, Plans, Places

\* A step of one installer that leaves the configurations alone.
LEMMA WorkKeeps ==
  ASSUME InstallInd, NEW i \in Installers, NEW p \in InstallProcs,
         proc' = [proc EXCEPT ![i] = p],
         UNCHANGED <<file, disk, saved, late>>,
         dir' \in [Agents -> {"absent", "fresh", "kept"}], litter' \in [Agents -> 0..1],
         \A a \in Agents : dir'[a] # "kept" => saved[a] \subseteq late[a],
         failures' \in 0..MaxFailures, lock' \in Installers \union {"none"},
         p.at \notin {"idle", "lock"} <=> lock' = i,
         \A j \in Installers \ {i} : lock' = j <=> lock = j,
         InstallerKeeps(i)'
  PROVE  InstallInd'
<1> USE DEF InstallInd
<1>1. /\ proc' \in [Installers -> InstallProcs] /\ proc'[i] = p
      /\ \A j \in Installers : j # i => proc'[j] = proc[j]
  OBVIOUS
<1>2. InstallTypeOK'
  <2>1. \A j \in Installers : proc'[j].at \in Places /\ proc'[j].made \subseteq Agents
    BY <1>1 DEF InstallProcs
  <2>2. \A j \in Installers : proc'[j].at \notin {"idle", "lock"} <=> lock' = j
    BY <1>1 DEF InstallTypeOK
  <2> QED
    BY <2>1, <2>2 DEF InstallTypeOK
<1>3. FilesKeep'
  BY DEF FilesKeep, Keeps
<1>4. ASSUME NEW j \in Installers PROVE InstallerKeeps(j)'
  <2>1. CASE j # i
    <3>1. InstallerKeeps(j) /\ proc'[j] = proc[j]
      BY <1>1, <2>1
    <3>2. /\ Rest(j)' = Rest(j) /\ Asked(j)' = Asked(j) /\ Plan(j)' = Plan(j) /\ Now(j)' = Now(j)
      BY <3>1 DEF Rest, Asked, Plan, Now
    <3>3. \A a \in Agents : /\ Follows(j, a)' <=> Follows(j, a)
                            /\ Prepared(j, a)' <=> Prepared(j, a)
                            /\ Written(j, a)' <=> Written(j, a)
      BY <3>1 DEF Follows, Prepared, Written
    <3>4. Asked(j) \subseteq Agents /\ (proc[j].at = "secure" => Now(j) \in Agents)
      <4>1. proc[j].at = "secure" => proc[j].todo # << >> /\ proc[j].todo \in Seq(Agents)
        BY <3>1 DEF InstallerKeeps, Loops, InstallProcs
      <4> QED
        BY <4>1, TailSteps, WantedIsAsked DEF Now
    <3> QED
      BY <3>1, <3>2, <3>3, <3>4 DEF InstallerKeeps
  <2> QED
    BY <2>1
<1> QED
  BY <1>1, <1>2, <1>3, <1>4

\* An installer that ends: it gave up, was killed, or is done.
LEMMA EndKeeps ==
  ASSUME InstallInd, NEW i \in Installers, proc' = [proc EXCEPT ![i] = Idle],
         lock' = IF lock = i THEN "none" ELSE lock,
         UNCHANGED <<file, disk, saved, late>>,
         dir' \in [Agents -> {"absent", "fresh", "kept"}], litter' \in [Agents -> 0..1],
         \A a \in Agents : dir'[a] # "kept" => saved[a] \subseteq late[a],
         failures' \in 0..MaxFailures
  PROVE  InstallInd'
<1>1. InstallerKeeps(i)'
  <2>1. proc'[i].at = "idle"
    BY IdleIsProc DEF InstallInd
  <2> QED
    BY <2>1 DEF InstallerKeeps, Loops, Writing
<1>2. lock' \in Installers \union {"none"} /\ lock' # i /\ \A j \in Installers \ {i} : lock' = j <=> lock = j
  BY InstallAssumption DEF InstallInd, InstallTypeOK
<1> QED
  BY <1>1, <1>2, IdleIsProc, WorkKeeps

\* What an installer undoes of its directories takes no file with it that has an edit.
LEMMA DirectoriesKeep ==
  ASSUME InstallInd
  PROVE  /\ dir \in [Agents -> {"absent", "fresh", "kept"}] /\ litter \in [Agents -> 0..1]
         /\ \A a \in Agents : dir[a] # "kept" => saved[a] \subseteq late[a]
         /\ failures \in 0..MaxFailures /\ lock \in Installers \union {"none"}
         /\ failures' = failures + 1 /\ failures < MaxFailures => failures' \in 0..MaxFailures
BY InstallAssumption DEF InstallInd, InstallTypeOK, FilesKeep

\* The types follow from those of the step's parts.
LEMMA TypesKeep ==
  ASSUME InstallInd
  PROVE  /\ file \in [Agents -> Contents] /\ disk \in [Agents -> SUBSET Contents]
         /\ \A a \in Agents : disk[a] \subseteq Contents
         /\ saved \in [Agents -> SUBSET Edits] /\ late \in [Agents -> SUBSET Edits]
         /\ \A a \in Agents : late[a] \subseteq saved[a] /\ saved[a] \subseteq Edits
BY DEF InstallInd, InstallTypeOK

\* What an error undoes takes nothing with it (CreatedDirectories::drop).
LEMMA GiveUpKeeps ==
  ASSUME InstallInd, NEW i \in Installers, GiveUp(i), failures' \in 0..MaxFailures
  PROVE  InstallInd'
<1>1. ASSUME NEW a \in Agents, dir'[a] # "kept" PROVE saved[a] \subseteq late[a]
  <2>1. CASE file[a] = NoFile
    BY <2>1 DEF InstallInd, FilesKeep, Keeps, NoFile, Configuration
  <2>2. CASE file[a] # NoFile
    BY <1>1, <2>2, DirectoriesKeep DEF GiveUp
  <2> QED
    BY <2>1, <2>2
<1>2. dir' \in [Agents -> {"absent", "fresh", "kept"}]
  BY DirectoriesKeep DEF GiveUp
<1> QED
  BY <1>1, <1>2, DirectoriesKeep, EndKeeps DEF GiveUp

\* A kill leaves the files as they are.
LEMMA KillKeeps ==
  ASSUME InstallInd, NEW i \in Installers, Kill(i)
  PROVE  InstallInd'
<1>1. litter' \in [Agents -> 0..1] /\ failures' \in 0..MaxFailures
  BY DirectoriesKeep DEF Kill, Failure
<1> QED
  BY <1>1, DirectoriesKeep, EndKeeps DEF Kill, Unlocked

\* The end of an installation, which has written everything that it planned.
LEMMA FinishKeeps ==
  ASSUME InstallInd, NEW i \in Installers, Finish(i)
  PROVE  InstallInd'
<1>1. lock = i
  BY DEF InstallInd, InstallTypeOK, Finish, At
<1> QED
  BY <1>1, DirectoriesKeep, EndKeeps DEF Finish, fileVars

\* A new run.
LEMMA BeginKeeps ==
  ASSUME InstallInd, NEW i \in Installers, Begin(i)
  PROVE  InstallInd'
<1> DEFINE p == [proc[i] EXCEPT !.at = "lock"]
<1>1. p \in InstallProcs /\ p.at = "lock" /\ proc' = [proc EXCEPT ![i] = p] /\ proc'[i] = p
  BY DEF InstallInd, Begin, Goes, InstallProcs, Places
<1>2. lock' = lock /\ lock # i /\ failures' = failures /\ UNCHANGED <<file, disk, dir, litter, saved, late>>
  BY DEF InstallInd, InstallTypeOK, Begin, At, fileVars
<1>3. InstallerKeeps(i)'
  BY <1>1 DEF InstallerKeeps, Loops, Writing
<1> HIDE DEF p
<1> QED
  BY <1>1, <1>2, <1>3, DirectoriesKeep, WorkKeeps

\* The lock, or none after its time.
LEMMA TryLockKeeps ==
  ASSUME InstallInd, NEW i \in Installers, TryLock(i)
  PROVE  InstallInd'
<1> DEFINE p == [proc[i] EXCEPT !.at = "prepare", !.todo = Wanted[i]]
<1>1. lock # i /\ failures' = failures /\ UNCHANGED <<file, disk, dir, litter, saved, late>>
  BY DEF InstallInd, InstallTypeOK, TryLock, At, fileVars
<1>2. CASE /\ lock = "none" /\ lock' = i
           /\ proc' = [proc EXCEPT ![i].at = "prepare", ![i].todo = Wanted[i]]
  <2>1. p \in InstallProcs /\ p.at = "prepare" /\ p.todo = Wanted[i] /\ proc' = [proc EXCEPT ![i] = p]
        /\ proc'[i] = p
    BY <1>2, WantedIsAsked DEF InstallInd, InstallProcs, Places
  <2>2. InstallerKeeps(i)'
    BY <2>1, WantedIsAsked DEF InstallerKeeps, Loops, Writing, Rest, Asked
  <2> HIDE DEF p
  <2> QED
    BY InstallAssumption, <1>1, <1>2, <2>1, <2>2, DirectoriesKeep, WorkKeeps
<1>3. CASE lock' = lock /\ proc' = [proc EXCEPT ![i] = Idle]
  BY <1>1, <1>3, DirectoriesKeep, EndKeeps
<1> QED
  BY <1>2, <1>3 DEF TryLock, Free

-------------------------------------------------------------------------------
(* The loops *)

\* An installer between its lock and its end.
LEMMA AtWork ==
  ASSUME InstallInd, NEW i \in Installers, proc[i].at \in Loops
  PROVE  /\ proc[i] \in InstallProcs /\ proc[i].todo \in Seq(Agents) /\ proc[i].todo # << >>
         /\ Now(i) \in Agents /\ Now(i) \in Asked(i) /\ Now(i) \in Rest(i)
         /\ Plan(i) \in [orig : Contents, new : Contents, writes : BOOLEAN]
         /\ lock = i /\ \A j \in Installers \ {i} : proc[j].at \in {"idle", "lock"}
<1>1. proc[i] \in InstallProcs /\ proc[i].todo # << >> /\ Rest(i) \subseteq Asked(i)
  BY DEF InstallInd, InstallerKeeps
<1>2. proc[i].todo \in Seq(Agents) /\ proc[i].plan \in Plans
  BY <1>1 DEF InstallProcs
<1>3. Now(i) \in Agents /\ Now(i) \in Rest(i)
  BY <1>1, <1>2, TailSteps DEF Now, Rest
<1>4. Plan(i) \in [orig : Contents, new : Contents, writes : BOOLEAN]
  BY <1>2, <1>3 DEF Plan, Plans
<1>5. lock = i
  BY DEF InstallInd, InstallTypeOK, Loops
<1> QED
  BY <1>1, <1>2, <1>3, <1>4, <1>5 DEF InstallInd, InstallTypeOK

\* What is planned for an agent is its present content with the hooks (prepare_updates).
LEMMA PrepareKeeps ==
  ASSUME InstallInd, NEW i \in Installers, Prepare(i)
  PROVE  InstallInd'
<1> DEFINE a == Now(i)
           c == file[a]
<1>1. /\ proc[i].at = "prepare" /\ failures' = failures
      /\ proc[i] \in InstallProcs /\ proc[i].todo \in Seq(Agents) /\ proc[i].todo # << >>
      /\ a \in Agents /\ lock = i /\ a = Head(proc[i].todo)
  BY AtWork DEF Prepare, At, Loops, Now
<1>2. CASE GiveUp(i)
  BY <1>1, <1>2, GiveUpKeeps, DirectoriesKeep
<1>3. ASSUME NEW writes \in IF Merge(c, i) = c THEN BOOLEAN ELSE {TRUE},
             proc' = [proc EXCEPT
               ![i] = Turn([@ EXCEPT !.plan[a] = [orig |-> c, new |-> Merge(c, i), writes |-> writes]],
                           i, "prepare", "make")],
             UNCHANGED <<fileVars, lock, saved, late>>
      PROVE  InstallInd'
  <2> DEFINE plan == [orig |-> c, new |-> Merge(c, i), writes |-> writes]
             p == [proc[i] EXCEPT !.plan[a] = plan]
             q == Turn(p, i, "prepare", "make")
  <2>1. c \in Contents /\ Merge(c, i) \in Contents /\ writes \in BOOLEAN
        /\ (~writes => Merge(c, i) = c)
    <3>1. c \in Contents
      BY <1>1 DEF InstallInd, InstallTypeOK
    <3>2. Merge(c, i) \in Contents
      BY <3>1 DEF Merge, Contents
    <3>3. writes \in BOOLEAN /\ (~writes => Merge(c, i) = c)
      BY <1>3
    <3> QED
      BY <3>1, <3>2, <3>3
  <2>2. p \in InstallProcs /\ p.todo = proc[i].todo
        /\ p.plan = [proc[i].plan EXCEPT ![a] = plan] /\ proc[i].plan \in Plans
    <3>1. plan \in [orig : Contents, new : Contents, writes : BOOLEAN]
      BY <2>1
    <3>2. proc[i].plan \in Plans
      BY <1>1 DEF InstallProcs
    <3> HIDE DEF plan, a
    <3>3. [proc[i].plan EXCEPT ![a] = plan] \in Plans
      BY <3>1, <3>2 DEF Plans
    <3>4. p = [proc[i] EXCEPT !.plan = [proc[i].plan EXCEPT ![a] = plan]]
      BY <1>1 DEF InstallProcs
    <3> QED
      BY <1>1, <3>2, <3>3, <3>4 DEF InstallProcs
  <2> HIDE DEF plan, p
  <2>3. /\ q \in InstallProcs /\ q.plan = p.plan
        /\ \/ q.at = "prepare" /\ q.todo = Tail(p.todo) /\ Tail(p.todo) # << >>
           \/ q.at = "make" /\ q.todo = Wanted[i] /\ Tail(p.todo) = << >>
    <3>1. "prepare" \in Places /\ "make" \in Places /\ p.todo # << >>
      BY <1>1, <2>2 DEF Places
    <3> QED
      BY <2>2, <3>1, TurnSteps
  <2>4. proc' = [proc EXCEPT ![i] = q] /\ proc'[i] = q
    <3>1. proc' = [proc EXCEPT ![i] = q]
      BY <1>3 DEF p, plan
    <3> QED
      BY <3>1 DEF InstallInd
  <2> HIDE DEF q
  <2>5. UNCHANGED <<file, disk, dir, litter, lock, saved, late>>
    BY <1>3 DEF fileVars
  <2>6. ASSUME NEW b \in Asked(i), b \notin Rest(i) \/ b = a
        PROVE  Prepared(i, b)'
    <3>1. CASE b = a
      <4>1. proc'[i].plan[b] = plan
        BY <1>1, <2>2, <2>3, <2>4, <3>1 DEF Plans
      <4>2. c.other \subseteq saved[a]
        BY <1>1 DEF InstallInd, FilesKeep, Keeps
      <4> QED
        BY <2>1, <2>5, <3>1, <4>1, <4>2 DEF Prepared, Follows, plan
    <3>2. CASE b # a
      <4>1. b \in Agents /\ Prepared(i, b)
        BY <1>1, <2>6, <3>2, WantedIsAsked DEF InstallInd, InstallerKeeps
      <4>2. proc'[i].plan[b] = proc[i].plan[b]
        BY <2>2, <2>3, <2>4, <3>2, <4>1 DEF Plans
      <4> QED
        BY <2>5, <4>1, <4>2 DEF Prepared, Follows
    <3> QED
      BY <3>1, <3>2
  <2>7. /\ Items(proc[i].todo) \subseteq {a} \union Items(Tail(proc[i].todo))
        /\ Items(Tail(proc[i].todo)) \subseteq Items(proc[i].todo)
        /\ Tail(proc[i].todo) = << >> => Items(proc[i].todo) = {a}
    BY <1>1, TailSteps
  <2>8. Rest(i) \subseteq Asked(i)
    BY <1>1 DEF InstallInd, InstallerKeeps, Loops
  <2>9. InstallerKeeps(i)'
    <3>1. CASE q.at = "prepare" /\ q.todo = Tail(p.todo) /\ Tail(p.todo) # << >>
      BY <2>2, <2>4, <2>6, <2>7, <2>8, <3>1 DEF InstallerKeeps, Rest, Asked, Loops, Writing
    <3>2. CASE q.at = "make" /\ q.todo = Wanted[i] /\ Tail(p.todo) = << >>
      BY <2>2, <2>4, <2>6, <2>7, <3>2, WantedIsAsked DEF InstallerKeeps, Rest, Asked, Loops, Writing
    <3> QED
      BY <2>3, <3>1, <3>2
  <2> QED
    BY <1>1, <2>3, <2>4, <2>5, <2>9, DirectoriesKeep, WorkKeeps
<1> QED
  BY <1>2, <1>3 DEF Prepare

\* What is said of an installer's agents depends on its plan and on the files.
LEMMA SamePlans ==
  ASSUME NEW i \in Installers, proc'[i].plan = proc[i].plan, UNCHANGED <<file, disk, saved, late>>,
         NEW a \in Agents
  PROVE  /\ Follows(i, a)' <=> Follows(i, a)
         /\ Prepared(i, a)' <=> Prepared(i, a)
         /\ Written(i, a)' <=> Written(i, a)
BY DEF Follows, Prepared, Written

\* Directories are made for every agent before anything is written.
LEMMA MakeDirectoryKeeps ==
  ASSUME InstallInd, NEW i \in Installers, MakeDirectory(i)
  PROVE  InstallInd'
<1> DEFINE makes == {a \in {Now(i)} : Plan(i).writes /\ dir[a] = "absent"}
           p == [proc[i] EXCEPT !.made = proc[i].made \union makes]
           q == Turn(p, i, "make", "write")
<1>1. /\ proc[i].at = "make" /\ failures' = failures
      /\ proc[i] \in InstallProcs /\ proc[i].todo \in Seq(Agents) /\ proc[i].todo # << >>
      /\ Now(i) \in Agents /\ lock = i /\ Now(i) = Head(proc[i].todo)
      /\ UNCHANGED <<file, disk, litter, lock, saved, late>>
  BY AtWork DEF MakeDirectory, At, Loops, Now
<1>2. makes \subseteq Agents
  BY <1>1
<1>3. dir' = [a \in Agents |-> IF a \in makes THEN "fresh" ELSE dir[a]]
      /\ proc' = [proc EXCEPT ![i] = q]
  <2>1. dir' = [a \in Agents |-> IF a \in makes THEN "fresh" ELSE dir[a]]
    BY DEF MakeDirectory
  <2>2. proc' = [proc EXCEPT ![i] = q]
    BY DEF MakeDirectory
  <2> QED
    BY <2>1, <2>2
<1>4. /\ dir' \in [Agents -> {"absent", "fresh", "kept"}]
      /\ \A a \in Agents : dir'[a] # "kept" => saved[a] \subseteq late[a]
  BY <1>3, DirectoriesKeep
<1> HIDE DEF makes
<1>5. p \in InstallProcs /\ p.todo = proc[i].todo /\ p.plan = proc[i].plan
  BY <1>1, <1>2 DEF InstallProcs
<1> HIDE DEF p
<1>6. /\ q \in InstallProcs /\ q.plan = p.plan
      /\ \/ q.at = "make" /\ q.todo = Tail(p.todo) /\ Tail(p.todo) # << >>
         \/ q.at = "write" /\ q.todo = Wanted[i] /\ Tail(p.todo) = << >>
  <2>1. "write" \in Places /\ "make" \in Places /\ p.todo # << >>
    BY <1>1, <1>5 DEF Places
  <2> QED
    BY <1>5, <2>1, TurnSteps
<1> HIDE DEF q
<1>7. proc'[i] = q
  BY <1>3 DEF InstallInd
<1>8. \A a \in Asked(i) : Prepared(i, a)'
  BY <1>1, <1>5, <1>6, <1>7, SamePlans, WantedIsAsked DEF InstallInd, InstallerKeeps
<1>9. Items(Tail(proc[i].todo)) \subseteq Asked(i)
  BY <1>1, TailSteps DEF InstallInd, InstallerKeeps, Loops, Rest
<1>10. InstallerKeeps(i)'
  <2>1. CASE q.at = "make" /\ q.todo = Tail(p.todo) /\ Tail(p.todo) # << >>
    BY <1>5, <1>7, <1>8, <1>9, <2>1 DEF InstallerKeeps, Rest, Asked, Loops, Writing
  <2>2. CASE q.at = "write" /\ q.todo = Wanted[i] /\ Tail(p.todo) = << >>
    BY <1>5, <1>7, <1>8, <2>2, WantedIsAsked DEF InstallerKeeps, Rest, Asked, Loops, Writing
  <2> QED
    BY <1>6, <2>1, <2>2
<1> QED
  BY <1>1, <1>3, <1>4, <1>6, <1>10, DirectoriesKeep, WorkKeeps

\* A turn of the loop that writes is over when its file is.
LEMMA TurnKeeps ==
  ASSUME InstallInd, NEW i \in Installers, proc[i].at \in {"write"} \union Writing,
         NEW q, q = Turn(proc[i], i, "write", "finish"), proc' = [proc EXCEPT ![i] = q],
         \A a \in Asked(i) : Prepared(i, a)',
         \A a \in Asked(i) : Written(i, a) => Written(i, a)',
         NEW current, current = Now(i), Written(i, current)'
  PROVE  q \in InstallProcs /\ q.at \notin {"idle", "lock"} /\ InstallerKeeps(i)'
<1>1. /\ proc[i] \in InstallProcs /\ proc[i].todo \in Seq(Agents) /\ proc[i].todo # << >>
      /\ Now(i) = Head(proc[i].todo) /\ proc'[i] = q
  BY AtWork DEF Loops, Writing, Now, InstallInd
<1>2. /\ q \in InstallProcs
      /\ \/ q.at = "write" /\ q.todo = Tail(proc[i].todo) /\ Tail(proc[i].todo) # << >>
         \/ q.at = "finish" /\ q.todo = Wanted[i] /\ Tail(proc[i].todo) = << >>
  <2>1. "write" \in Places /\ "finish" \in Places
    BY DEF Places
  <2> QED
    BY <1>1, <2>1, TurnSteps
<1>3. /\ Rest(i) \subseteq {Now(i)} \union Items(Tail(proc[i].todo))
      /\ Items(Tail(proc[i].todo)) \subseteq Asked(i)
      /\ Tail(proc[i].todo) = << >> => Rest(i) = {Now(i)}
  <2>1. Rest(i) \subseteq Asked(i)
    BY DEF InstallInd, InstallerKeeps, Loops, Writing
  <2> QED
    BY <1>1, <2>1, TailSteps DEF Rest
<1>4. \A a \in Asked(i) \ Items(Tail(proc[i].todo)) : Written(i, a)'
  <2>1. \A a \in Asked(i) \ Rest(i) : Written(i, a)
    BY DEF InstallInd, InstallerKeeps
  <2> QED
    BY <1>1, <1>3, <2>1
<1>5. Items(<< >>) = {}
  BY DEF Items
<1>6. CASE q.at = "write" /\ q.todo = Tail(proc[i].todo) /\ Tail(proc[i].todo) # << >>
  BY <1>1, <1>2, <1>3, <1>4, <1>6 DEF InstallerKeeps, Rest, Asked, Loops, Writing
<1>7. CASE q.at = "finish" /\ q.todo = Wanted[i] /\ Tail(proc[i].todo) = << >>
  BY <1>1, <1>2, <1>4, <1>5, <1>7 DEF InstallerKeeps, Rest, Asked, Loops, Writing
<1> QED
  BY <1>2, <1>6, <1>7

\* The file at hand stays the same while it is staged, synced and compared.
LEMMA NextPlaceKeeps ==
  ASSUME InstallInd, NEW i \in Installers, proc[i].at \in {"write"} \union Writing,
         NEW place \in Writing, NEW synced \in BOOLEAN,
         proc' = [proc EXCEPT ![i].at = place, ![i].synced = synced],
         UNCHANGED <<fileVars, lock, saved, late, failures>>,
         Plan(i).writes,
         place \in {"compare", "rename", "secure"} => synced,
         place = "rename" => saved[Now(i)] \ Plan(i).new.other \subseteq late[Now(i)],
         place # "secure"
  PROVE  InstallInd'
<1> DEFINE p == [proc[i] EXCEPT !.at = place, !.synced = synced]
<1>1. /\ proc[i] \in InstallProcs /\ lock = i
      /\ UNCHANGED <<file, disk, dir, litter, lock, saved, late, failures>>
      /\ proc[i].todo # << >> /\ Rest(i) \subseteq Asked(i) /\ place \in Places
  BY AtWork DEF Loops, Writing, InstallInd, InstallerKeeps, fileVars, Places
<1>2. /\ p \in InstallProcs /\ p.todo = proc[i].todo /\ p.plan = proc[i].plan /\ p.at = place
      /\ p.synced = synced
  BY <1>1 DEF InstallProcs
<1>3. proc' = [proc EXCEPT ![i] = p]
  OBVIOUS
<1> HIDE DEF p
<1>4. proc'[i] = p
  BY <1>3 DEF InstallInd
<1>5. /\ \A a \in Asked(i) : Prepared(i, a)' /\ Asked(i)' = Asked(i)
      /\ \A a \in Asked(i) \ Rest(i) : Written(i, a)'
  BY <1>1, <1>2, <1>4, SamePlans, WantedIsAsked DEF InstallInd, InstallerKeeps, Asked
<1>6. Rest(i)' = Rest(i) /\ Now(i)' = Now(i) /\ Plan(i)' = Plan(i)
  BY <1>2, <1>4 DEF Rest, Now, Plan
<1>7. InstallerKeeps(i)'
  BY <1>1, <1>2, <1>4, <1>5, <1>6 DEF InstallerKeeps, Writing, Loops
<1>8. p.at \notin {"idle", "lock"}
  BY <1>2 DEF Writing
<1>9. /\ dir' \in [Agents -> {"absent", "fresh", "kept"}] /\ litter' \in [Agents -> 0..1]
      /\ \A a \in Agents : dir'[a] # "kept" => saved[a] \subseteq late[a]
      /\ failures' \in 0..MaxFailures /\ lock' \in Installers \union {"none"}
  BY <1>1, DirectoriesKeep
<1> QED
  BY <1>1, <1>2, <1>3, <1>7, <1>8, <1>9, WorkKeeps

\* A staged file is not the configuration yet.
LEMMA StageKeeps ==
  ASSUME InstallInd, NEW i \in Installers, Stage(i)
  PROVE  InstallInd'
<1>1. /\ proc[i].at = "write" /\ failures' = failures /\ lock = i
      /\ Now(i) \in Agents /\ Now(i) \in Asked(i)
  BY AtWork DEF Stage, At, Loops
<1>2. CASE /\ ~Plan(i).writes /\ proc' = [proc EXCEPT ![i] = Turn(@, i, "write", "finish")]
           /\ UNCHANGED <<fileVars, lock, saved, late>>
  <2> DEFINE q == Turn(proc[i], i, "write", "finish")
  <2>0. PICK current : current = Now(i)
    OBVIOUS
  <2>1. proc' = [proc EXCEPT ![i] = q] /\ UNCHANGED <<file, disk, dir, litter, lock, saved, late>>
    BY <1>2 DEF fileVars
  <2>2. proc'[i] = q /\ proc[i] \in InstallProcs /\ proc[i].todo # << >>
    BY <1>1, <2>1, AtWork DEF InstallInd, Loops
  <2>3. "write" \in Places /\ "finish" \in Places
    BY DEF Places
  <2>4. proc'[i].plan = proc[i].plan
    BY <2>2, <2>3, TurnSteps
  <2>5. /\ \A a \in Asked(i) : Prepared(i, a)'
        /\ \A a \in Asked(i) : Written(i, a) => Written(i, a)'
    BY <1>1, <2>1, <2>4, SamePlans, WantedIsAsked DEF InstallInd, InstallerKeeps
  <2>6. Written(i, current)
    <3>1. Prepared(i, current)
      BY <1>1, <2>0 DEF InstallInd, InstallerKeeps
    <3> QED
      BY <1>2, <2>0, <3>1 DEF Prepared, Written, Plan
  <2>7. Written(i, current)'
    BY <1>1, <2>0, <2>5, <2>6
  <2>8. q \in InstallProcs /\ q.at \notin {"idle", "lock"} /\ InstallerKeeps(i)'
    BY <1>1, <2>0, <2>1, <2>5, <2>7, TurnKeeps
  <2> QED
    BY <1>1, <2>1, <2>8, DirectoriesKeep, WorkKeeps
<1>3. CASE /\ Plan(i).writes
           /\ proc' = [proc EXCEPT ![i].at = "sync", ![i].synced = FALSE]
           /\ UNCHANGED <<fileVars, lock, saved, late>>
  BY <1>1, <1>3, NextPlaceKeeps DEF Writing
<1>4. CASE GiveUp(i)
  BY <1>1, <1>4, GiveUpKeeps, DirectoriesKeep
<1> QED
  BY <1>2, <1>3, <1>4 DEF Stage

\* Nor is it once it is on the disk.
LEMMA SyncKeeps ==
  ASSUME InstallInd, NEW i \in Installers, Sync(i)
  PROVE  InstallInd'
<1>1. proc[i].at = "sync" /\ Plan(i).writes
  BY DEF Sync, At, InstallInd, InstallerKeeps, Writing
<1> QED
  BY <1>1, NextPlaceKeeps DEF Sync, Writing

\* Only a configuration that is still what was read is replaced (ensure_configuration_unchanged).
LEMMA CompareKeeps ==
  ASSUME InstallInd, NEW i \in Installers, Compare(i)
  PROVE  InstallInd'
<1>1. /\ proc[i].at = "compare" /\ Plan(i).writes /\ proc[i].synced /\ failures' = failures
      /\ Now(i) \in Agents /\ Now(i) \in Asked(i) /\ Prepared(i, Now(i)) /\ proc[i] \in InstallProcs
  BY AtWork DEF Compare, At, InstallInd, InstallerKeeps, Writing, Loops
<1>2. CASE GiveUp(i)
  BY <1>1, <1>2, GiveUpKeeps, DirectoriesKeep
<1>3. CASE Unchanged(i) /\ Goes(i, "rename") /\ UNCHANGED <<fileVars, lock, saved, late>>
  <2>1. saved[Now(i)] \ Plan(i).new.other \subseteq late[Now(i)]
    <3>1. Plan(i).new = Merge(Plan(i).orig, i) /\ file[Now(i)] = Plan(i).orig
      BY <1>1, <1>3 DEF Unchanged, Prepared, Plan
    <3>2. Plan(i).orig \in Contents
      BY <1>1, AtWork DEF Loops
    <3>3. Plan(i).new.other = Plan(i).orig.other
      BY <3>1, <3>2 DEF Merge, Contents
    <3>4. saved[Now(i)] \ file[Now(i)].other \subseteq late[Now(i)]
      BY <1>1 DEF InstallInd, FilesKeep, Keeps
    <3> QED
      BY <3>1, <3>3, <3>4
  <2>2. proc' = [proc EXCEPT ![i].at = "rename", ![i].synced = TRUE]
    <3>1. proc[i] = [proc[i] EXCEPT !.synced = TRUE]
      BY <1>1 DEF InstallProcs
    <3> QED
      BY <1>3, <3>1 DEF Goes, InstallInd
  <2> QED
    BY <1>1, <1>3, <2>1, <2>2, NextPlaceKeeps DEF Writing
<1> QED
  BY <1>2, <1>3 DEF Compare

\* A step of the installer that has the lock, when it changes a file.
LEMMA HolderKeeps ==
  ASSUME InstallInd, NEW i \in Installers, proc[i].at \in Loops, NEW p \in InstallProcs,
         p.at \notin {"idle", "lock"}, proc' = [proc EXCEPT ![i] = p],
         UNCHANGED <<dir, litter, lock, saved, late, failures>>,
         file' \in [Agents -> Contents], disk' \in [Agents -> SUBSET Contents],
         \A a \in Agents : Keeps(a, file'[a]) /\ \A c \in disk'[a] : Keeps(a, c),
         InstallerKeeps(i)'
  PROVE  InstallInd'
<1>1. lock = i /\ \A j \in Installers \ {i} : proc[j].at \in {"idle", "lock"}
  BY AtWork
<1>2. proc' \in [Installers -> InstallProcs] /\ proc'[i] = p /\ \A j \in Installers \ {i} : proc'[j] = proc[j]
  BY DEF InstallInd
<1>3. InstallTypeOK'
  <2>1. \A j \in Installers : proc'[j].at \in Places /\ proc'[j].made \subseteq Agents
    BY <1>2 DEF InstallProcs
  <2>2. \A j \in Installers : proc'[j].at \notin {"idle", "lock"} <=> lock' = j
    BY <1>1, <1>2
  <2> QED
    BY <2>1, <2>2 DEF InstallInd, InstallTypeOK
<1>4. FilesKeep'
  BY DEF InstallInd, FilesKeep, Keeps
<1>5. \A j \in Installers \ {i} : InstallerKeeps(j)'
  BY <1>1, <1>2 DEF InstallerKeeps, Loops, Writing
<1> QED
  BY <1>2, <1>3, <1>4, <1>5 DEF InstallInd

\* A merge keeps what it was given, and has the hooks once.
LEMMA MergeIsGood ==
  ASSUME NEW c \in Contents, NEW i \in Installers
  PROVE  /\ Merge(c, i) \in Contents /\ Merge(c, i).other = c.other
         /\ Merge(c, i).kind = "good" /\ Merge(c, i).ours = {i}
BY DEF Merge, Contents

\* What an installer planned may take the place of what is there.
LEMMA MergedKeeps ==
  ASSUME InstallInd, NEW i \in Installers, proc[i].at = "rename"
  PROVE  /\ Plan(i).new \in Contents /\ Plan(i).new.other = Plan(i).orig.other
         /\ Keeps(Now(i), Plan(i).new)
<1>1. /\ Now(i) \in Agents /\ Now(i) \in Asked(i) /\ Prepared(i, Now(i))
      /\ Plan(i).orig \in Contents
      /\ saved[Now(i)] \ Plan(i).new.other \subseteq late[Now(i)]
  BY AtWork DEF InstallInd, InstallerKeeps, Writing, Loops
<1>2. Plan(i).new = Merge(Plan(i).orig, i) /\ Plan(i).orig.other \subseteq saved[Now(i)]
  BY <1>1 DEF Prepared, Plan
<1>3. Plan(i).new \in Contents /\ Plan(i).new.other = Plan(i).orig.other
      /\ Plan(i).new.kind = "good" /\ Plan(i).new.ours = {i}
  BY <1>1, <1>2, MergeIsGood
<1>4. Cardinality({i}) = 1
  BY FS_Singleton
<1> QED
  BY <1>1, <1>2, <1>3, <1>4 DEF Keeps

\* The rename puts it there, at once; the disk may have either.
LEMMA RenameKeeps ==
  ASSUME InstallInd, NEW i \in Installers, Rename(i)
  PROVE  InstallInd'
<1> DEFINE p == [proc[i] EXCEPT !.at = "secure"]
<1>0. PICK a : a = Now(i)
  OBVIOUS
<1>1. /\ proc[i].at = "rename" /\ proc[i].synced /\ proc[i] \in InstallProcs /\ a \in Agents
      /\ a \in Rest(i) /\ Rest(i) \subseteq Asked(i) /\ proc[i].todo # << >> /\ Plan(i).writes
      /\ UNCHANGED <<dir, litter, lock, saved, late, failures>>
  BY <1>0, AtWork DEF InstallInd, InstallerKeeps, Writing, Loops, Rename, At
<1>2. p \in InstallProcs /\ p.at = "secure" /\ p.todo = proc[i].todo /\ p.plan = proc[i].plan
      /\ p.synced = proc[i].synced /\ proc' = [proc EXCEPT ![i] = p] /\ proc'[i] = p
  BY <1>1 DEF InstallProcs, Places, Rename, Goes, InstallInd
<1> HIDE DEF p
<1>3. file' = [file EXCEPT ![a] = Plan(i).new]
      /\ disk' = [disk EXCEPT ![a] = disk[a] \union {Plan(i).new}]
  BY <1>0, <1>1 DEF Rename
<1>4. Plan(i).new \in Contents /\ Keeps(a, Plan(i).new)
  BY <1>0, <1>1, MergedKeeps
<1>5. /\ file' \in [Agents -> Contents] /\ disk' \in [Agents -> SUBSET Contents]
      /\ \A b \in Agents : Keeps(b, file'[b]) /\ \A c \in disk'[b] : Keeps(b, c)
      /\ file'[a] = Plan(i).new /\ \A b \in Agents : b # a => file'[b] = file[b] /\ disk'[b] = disk[b]
  <2>1. file \in [Agents -> Contents] /\ disk \in [Agents -> SUBSET Contents]
        /\ \A b \in Agents : Keeps(b, file[b]) /\ \A c \in disk[b] : Keeps(b, c)
    BY DEF InstallInd, InstallTypeOK, FilesKeep
  <2> HIDE DEF Keeps
  <2> QED
    BY <1>1, <1>3, <1>4, <2>1
<1>6. Now(i)' = a /\ Rest(i)' = Rest(i) /\ Asked(i)' = Asked(i) /\ Plan(i)' = Plan(i)
  BY <1>0, <1>2 DEF Now, Rest, Asked, Plan
<1>7. \A b \in Asked(i) : Prepared(i, b)'
  <2> SUFFICES ASSUME NEW b \in Asked(i) PROVE Prepared(i, b)'
    OBVIOUS
  <2>1. b \in Agents /\ Prepared(i, b)
    BY <1>1, WantedIsAsked DEF InstallInd, InstallerKeeps, Writing
  <2>2. b = a => proc[i].plan[b].writes
    BY <1>0, <1>1 DEF Plan
  <2>3. b # a => (Follows(i, b) <=> Follows(i, b)')
    BY <1>1, <1>2, <1>5, <2>1 DEF Follows
  <2> QED
    BY <1>1, <1>2, <2>1, <2>2, <2>3 DEF Prepared
<1>8. \A b \in Asked(i) \ Rest(i) : Written(i, b)'
  <2> SUFFICES ASSUME NEW b \in Asked(i) \ Rest(i) PROVE Written(i, b)'
    OBVIOUS
  <2>1. b \in Agents /\ Written(i, b) /\ b # a
    BY <1>1, WantedIsAsked DEF InstallInd, InstallerKeeps, Writing
  <2> QED
    BY <1>1, <1>2, <1>5, <2>1 DEF Written, Follows
<1>9. Follows(i, a)'
  BY <1>0, <1>2, <1>5 DEF Follows, Plan
<1>10. InstallerKeeps(i)'
  BY <1>1, <1>2, <1>6, <1>7, <1>8, <1>9 DEF InstallerKeeps, Writing, Loops
<1> QED
  BY <1>1, <1>2, <1>5, <1>10, HolderKeeps DEF Loops

\* The directory is synchronised: the disk has what the file system has.
LEMMA SecureKeeps ==
  ASSUME InstallInd, NEW i \in Installers, Secure(i)
  PROVE  InstallInd'
<1> DEFINE q == Turn(proc[i], i, "write", "finish")
<1>0. PICK a : a = Now(i)
  OBVIOUS
<1>1. /\ proc[i].at = "secure" /\ proc[i].synced /\ proc[i] \in InstallProcs /\ a \in Agents
      /\ proc[i].todo # << >> /\ Follows(i, a)
      /\ UNCHANGED <<file, dir, litter, lock, saved, late, failures>>
  BY <1>0, AtWork DEF InstallInd, InstallerKeeps, Writing, Loops, Secure, At
<1>2. proc' = [proc EXCEPT ![i] = q] /\ proc'[i] = q
  BY DEF Secure, InstallInd
<1>3. disk' = [disk EXCEPT ![a] = {file[a]}]
  BY <1>0, <1>1 DEF Secure
<1>4. q.plan = proc[i].plan
  <2>1. "write" \in Places /\ "finish" \in Places
    BY DEF Places
  <2> QED
    BY <1>1, <2>1, TurnSteps
<1>5. /\ disk' \in [Agents -> SUBSET Contents] /\ disk'[a] = {file[a]}
      /\ \A b \in Agents : b # a => disk'[b] = disk[b]
      /\ file' \in [Agents -> Contents]
  BY <1>1, <1>3 DEF InstallInd, InstallTypeOK
<1>6. \A b \in Agents : Keeps(b, file'[b]) /\ \A c \in disk'[b] : Keeps(b, c)
  BY <1>1, <1>5 DEF InstallInd, FilesKeep
<1>7. \A b \in Agents : Follows(i, b)' <=> Follows(i, b)
  BY <1>1, <1>2, <1>4 DEF Follows
<1>8. /\ \A b \in Agents : Prepared(i, b)' <=> Prepared(i, b)
      /\ \A b \in Agents : Written(i, b) => Written(i, b)'
  BY <1>1, <1>2, <1>4, <1>5, <1>7 DEF Prepared, Written
<1>9. Written(i, a)'
  BY <1>1, <1>5, <1>7 DEF Written
<1>10. /\ \A b \in Asked(i) : Prepared(i, b)'
       /\ \A b \in Asked(i) : Written(i, b) => Written(i, b)'
  BY <1>1, <1>8, WantedIsAsked DEF InstallInd, InstallerKeeps, Writing
<1>11. q \in InstallProcs /\ q.at \notin {"idle", "lock"} /\ InstallerKeeps(i)'
  BY <1>0, <1>1, <1>2, <1>9, <1>10, TurnKeeps DEF Writing
<1> HIDE DEF q
<1> QED
  BY <1>1, <1>2, <1>5, <1>6, <1>11, HolderKeeps DEF Loops

\* Any step may fail.
LEMMA ErrorKeeps ==
  ASSUME InstallInd, NEW i \in Installers, Error(i)
  PROVE  InstallInd'
<1>1. failures' \in 0..MaxFailures
  BY DirectoriesKeep DEF Error, Failure
<1> QED
  BY <1>1, GiveUpKeeps DEF Error

-------------------------------------------------------------------------------
(* Everybody else *)

\* An edit is new: nothing that was read or planned before has it.
LEMMA EditKeeps ==
  ASSUME InstallInd, NEW a \in Agents, Edit(a)
  PROVE  InstallInd'
<1>1. PICK e \in Edits \ saved[a], newKind \in {"good", "bad"} :
        /\ file' = [file EXCEPT ![a] = [kind |-> newKind, ours |-> file[a].ours,
                                       other |-> file[a].other \union {e}]]
        /\ disk' = [disk EXCEPT ![a] = {file'[a]}]
        /\ dir' = [dir EXCEPT ![a] = "kept"]
        /\ saved' = [saved EXCEPT ![a] = saved[a] \union {e}]
        /\ late' = IF \E i \in Installers : At(i, "rename") /\ Now(i) = a
                   THEN [late EXCEPT ![a] = late[a] \union {e}] ELSE late
        /\ UNCHANGED <<litter, lock, proc, failures>>
  BY DEF Edit
<1>0. PICK new : new = [kind |-> newKind, ours |-> file[a].ours, other |-> file[a].other \union {e}]
  OBVIOUS
<1>2. /\ file \in [Agents -> Contents] /\ disk \in [Agents -> SUBSET Contents]
      /\ saved \in [Agents -> SUBSET Edits] /\ late \in [Agents -> SUBSET Edits]
      /\ dir \in [Agents -> {"absent", "fresh", "kept"}]
  BY DEF InstallInd, InstallTypeOK
<1>3. new \in Contents
  <2>1. file[a] \in Contents
    BY <1>2
  <2> QED
    BY <1>0, <1>1, <2>1 DEF Contents
<1>4. /\ new.kind # "torn" /\ new.ours = file[a].ours /\ new.other = file[a].other \union {e}
  BY <1>0, <1>1
<1>5. /\ file' \in [Agents -> Contents] /\ file'[a] = new /\ disk'[a] = {new}
      /\ disk' \in [Agents -> SUBSET Contents]
      /\ \A b \in Agents : b # a => file'[b] = file[b] /\ disk'[b] = disk[b]
  <2>1. file' = [file EXCEPT ![a] = new]
    BY <1>0, <1>1
  <2>2. file' \in [Agents -> Contents] /\ file'[a] = new
    BY <1>2, <1>3, <2>1
  <2>3. disk' = [disk EXCEPT ![a] = {new}]
    BY <1>1, <2>2
  <2> QED
    BY <1>2, <1>3, <2>1, <2>2, <2>3
<1>6. /\ saved'[a] = saved[a] \union {e} /\ \A b \in Agents : b # a => saved'[b] = saved[b]
      /\ saved' \in [Agents -> SUBSET Edits] /\ e \in Edits /\ e \notin saved[a]
      /\ dir' \in [Agents -> {"absent", "fresh", "kept"}]
      /\ dir'[a] = "kept" /\ \A b \in Agents : b # a => dir'[b] = dir[b]
  BY <1>1, <1>2
<1>7. /\ late' \in [Agents -> SUBSET Edits] /\ \A b \in Agents : b # a => late'[b] = late[b]
      /\ late'[a] = late[a] \/ late'[a] = late[a] \union {e}
      /\ ~(\E i \in Installers : At(i, "rename") /\ Now(i) = a) => late'[a] = late[a]
      /\ (\E i \in Installers : At(i, "rename") /\ Now(i) = a) => late'[a] = late[a] \union {e}
  BY <1>1, <1>2
<1>8. \A b \in Agents : late[b] \subseteq saved[b]
  BY DEF InstallInd, InstallTypeOK
<1>9. InstallTypeOK'
  <2>1. \A b \in Agents : disk'[b] \subseteq Contents /\ late'[b] \subseteq saved'[b]
                         /\ saved'[b] \subseteq Edits
    BY <1>5, <1>6, <1>7, <1>8
  <2>2. /\ litter' \in [Agents -> 0..1] /\ lock' \in Installers \union {"none"}
        /\ failures' \in 0..MaxFailures
        /\ \A i \in Installers : proc'[i].at \in Places /\ proc'[i].made \subseteq Agents
        /\ \A i \in Installers : proc'[i].at \notin {"idle", "lock"} <=> lock' = i
    BY <1>1 DEF InstallInd, InstallTypeOK
  <2> QED
    BY <1>5, <1>6, <2>1, <2>2 DEF InstallTypeOK
<1>10. FilesKeep'
  <2>1. \A b \in Agents : b # a => /\ Keeps(b, file[b])' /\ \A c \in disk[b] : Keeps(b, c)'
                                   /\ dir'[b] # "kept" => saved'[b] \subseteq late'[b]
    BY <1>5, <1>6, <1>7 DEF InstallInd, FilesKeep, Keeps
  <2>2. Keeps(a, file[a])
    BY DEF InstallInd, FilesKeep
  <2>3. Keeps(a, new)'
    BY <1>4, <1>6, <1>7, <2>2 DEF Keeps
  <2> QED
    BY <1>5, <1>6, <2>1, <2>3 DEF FilesKeep, Keeps
<1>11. ASSUME NEW i \in Installers PROVE InstallerKeeps(i)'
  <2>1. InstallerKeeps(i) /\ proc' = proc /\ proc[i] \in InstallProcs
    BY <1>1, <1>11 DEF InstallInd
  <2>2. /\ Rest(i)' = Rest(i) /\ Asked(i)' = Asked(i) /\ Plan(i)' = Plan(i) /\ Now(i)' = Now(i)
    BY <2>1 DEF Rest, Asked, Plan, Now
  <2>3. \A b \in Agents : b # a => /\ Follows(i, b)' <=> Follows(i, b)
                                   /\ Prepared(i, b)' <=> Prepared(i, b)
                                   /\ Written(i, b)' <=> Written(i, b)
    <3> SUFFICES ASSUME NEW b \in Agents, b # a
                 PROVE  /\ Follows(i, b)' <=> Follows(i, b)
                        /\ Prepared(i, b)' <=> Prepared(i, b)
                        /\ Written(i, b)' <=> Written(i, b)
      OBVIOUS
    <3>1. file'[b] = file[b] /\ disk'[b] = disk[b] /\ saved'[b] = saved[b] /\ late'[b] = late[b]
      BY <1>5, <1>6, <1>7
    <3>2. Follows(i, b)' <=> Follows(i, b)
      BY <2>1, <3>1 DEF Follows
    <3>3. Prepared(i, b)' <=> Prepared(i, b)
      BY <2>1, <3>1, <3>2 DEF Prepared
    <3>4. Written(i, b)' <=> Written(i, b)
      BY <2>1, <3>1, <3>2 DEF Written
    <3> QED
      BY <3>2, <3>3, <3>4
  <2>4. disk'[a] = {file'[a]}
    BY <1>5
  <2>5. CASE proc[i].at \in {"idle", "lock"}
    BY <2>1, <2>5 DEF InstallerKeeps, Loops, Writing
  <2>6. CASE proc[i].at = "rename" /\ Now(i) = a
    <3>1. /\ Asked(i) \subseteq Agents /\ Now(i) \in Rest(i) /\ Plan(i).writes
          /\ saved[a] \ Plan(i).new.other \subseteq late[a]
      BY <2>1, <2>6, AtWork, WantedIsAsked DEF InstallerKeeps, Writing, Loops
    <3>2. late'[a] = late[a] \union {e}
      BY <1>7, <2>6 DEF At
    <3>3. ASSUME NEW b \in Asked(i) PROVE Prepared(i, b)'
      <4>1. Prepared(i, b)
        BY <2>1, <2>6 DEF InstallerKeeps, Writing
      <4>2. CASE b = a
        <5>1. proc[i].plan[a].writes
          BY <2>6, <3>1 DEF Plan
        <5>2. saved[a] \subseteq saved'[a]
          BY <1>6
        <5> QED
          BY <2>1, <4>1, <4>2, <5>1, <5>2 DEF Prepared
      <4>3. CASE b # a
        BY <2>3, <3>1, <3>3, <4>1, <4>3
      <4> QED
        BY <4>2, <4>3
    <3>4. \A b \in Asked(i) \ Rest(i) : Written(i, b)'
      BY <2>1, <2>3, <2>6, <3>1 DEF InstallerKeeps, Writing
    <3>5. saved'[a] \ Plan(i).new.other \subseteq late'[a]
      BY <1>6, <3>1, <3>2
    <3> QED
      BY <2>1, <2>2, <2>6, <3>3, <3>4, <3>5 DEF InstallerKeeps, Writing, Loops
  <2>7. CASE proc[i].at \notin {"idle", "lock"} /\ ~(proc[i].at = "rename" /\ Now(i) = a)
    <3>1. lock = i /\ \A j \in Installers \ {i} : proc[j].at \in {"idle", "lock"}
      BY <2>7 DEF InstallInd, InstallTypeOK
    <3>2. late'[a] = late[a] /\ e \notin late'[a]
      BY <1>6, <1>7, <1>8, <2>7, <3>1 DEF At
    <3>3. ASSUME Prepared(i, a) PROVE Follows(i, a)'
      <4>1. proc[i].plan \in Plans
        BY <2>1 DEF InstallProcs
      <4>2. proc[i].plan[a].orig \in Contents
        BY <4>1 DEF Plans
      <4>3. proc[i].plan[a].new.other = proc[i].plan[a].orig.other
        BY <3>3, <4>2, MergeIsGood DEF Prepared
      <4>4. e \notin proc[i].plan[a].new.other
        BY <1>6, <3>3, <4>3 DEF Prepared
      <4>5. e \in saved'[a]
        BY <1>6
      <4> QED
        BY <2>1, <3>2, <4>4, <4>5 DEF Follows
    <3>4. ASSUME NEW b \in Asked(i), Prepared(i, b)
          PROVE  Prepared(i, b)' /\ (Written(i, b) => Written(i, b)')
      <4>1. CASE b = a
        <5>1. Follows(i, a)'
          BY <3>3, <3>4, <4>1
        <5>2. saved[a] \subseteq saved'[a]
          BY <1>6
        <5> QED
          BY <2>1, <2>4, <3>4, <4>1, <5>1, <5>2 DEF Prepared, Written
      <4>2. CASE b # a
        BY <2>3, <3>4, <4>2, WantedIsAsked
      <4> QED
        BY <4>1, <4>2
    <3>5. CASE proc[i].at = "rename"
      <4>1. Now(i) \in Agents /\ Now(i) # a
        BY <2>7, <3>5, AtWork DEF Loops
      <4>2. saved'[Now(i)] = saved[Now(i)] /\ late'[Now(i)] = late[Now(i)]
        BY <1>6, <1>7, <4>1
      <4>3. saved'[Now(i)] \ Plan(i).new.other \subseteq late'[Now(i)]
        BY <2>1, <3>5, <4>2 DEF InstallerKeeps
      <4>4. \A b \in Asked(i) : Prepared(i, b)' /\ (Written(i, b) => Written(i, b)')
        BY <2>1, <3>4, <3>5 DEF InstallerKeeps, Writing
      <4> QED
        BY <2>1, <2>2, <3>5, <4>3, <4>4 DEF InstallerKeeps, Writing, Loops
    <3>6. CASE proc[i].at = "secure"
      <4>1. Now(i) \in Agents /\ Now(i) \in Asked(i)
        BY <3>6, AtWork DEF Loops
      <4>2. \A b \in Asked(i) : Prepared(i, b) /\ Prepared(i, b)' /\ (Written(i, b) => Written(i, b)')
        BY <2>1, <3>4, <3>6 DEF InstallerKeeps, Writing
      <4>3. PICK current : current = Now(i)
        OBVIOUS
      <4>4. Follows(i, current)'
        <5>1. Follows(i, current)
          BY <2>1, <3>6, <4>3 DEF InstallerKeeps
        <5>2. CASE current = a
          <6>1. Follows(i, a)'
            BY <3>3, <4>1, <4>2, <4>3, <5>2
          <6> QED
            BY <5>2, <6>1
        <5>3. CASE current # a
          BY <2>3, <4>1, <4>3, <5>1, <5>3
        <5> QED
          BY <5>2, <5>3
      <4> QED
        BY <2>1, <2>2, <3>6, <4>2, <4>3, <4>4 DEF InstallerKeeps, Writing, Loops
    <3>7. CASE proc[i].at \notin {"rename", "secure"}
      <4>1. \A b \in Asked(i) : Prepared(i, b) => Prepared(i, b)' /\ (Written(i, b) => Written(i, b)')
        BY <3>4
      <4>2. \A b \in Asked(i) : Written(i, b) /\ Prepared(i, b) => Written(i, b)'
        BY <3>4
      <4>3. CASE proc[i].at = "prepare"
        BY <2>1, <2>2, <4>1, <4>3 DEF InstallerKeeps, Writing, Loops
      <4>4. CASE proc[i].at \in {"make", "write", "sync", "compare", "finish"}
        BY <2>1, <2>2, <3>7, <4>1, <4>4 DEF InstallerKeeps, Writing, Loops
      <4> QED
        BY <2>1, <2>7, <3>7, <4>3, <4>4 DEF InstallProcs, Places
    <3> QED
      BY <3>5, <3>6, <3>7
  <2> QED
    BY <2>5, <2>6, <2>7
<1> QED
  BY <1>1, <1>5, <1>6, <1>7, <1>9, <1>10, <1>11 DEF InstallInd

\* A power loss leaves of every configuration what it had, or what the disk had.
LEMMA PowerLossKeeps ==
  ASSUME InstallInd, PowerLoss
  PROVE  InstallInd'
<1>1. PICK gone \in SUBSET {a \in Agents : dir[a] = "fresh"},
           after \in [Agents -> {NoFile} \union UNION {disk[a] : a \in Agents}] :
        /\ \A a \in Agents : after[a] \in IF a \in gone THEN {NoFile} ELSE disk[a]
        /\ file' = after
        /\ disk' = [a \in Agents |-> {after[a]}]
        /\ dir' = [a \in Agents |-> IF a \in gone THEN "absent"
                                    ELSE IF dir[a] = "fresh" THEN "kept" ELSE dir[a]]
        /\ litter' = [a \in Agents |-> IF a \in gone THEN 0
                                       ELSE IF \E i \in Installers : Staged(i, a) THEN 1
                                       ELSE litter[a]]
  BY DEF PowerLoss
<1>2. /\ lock' = "none" /\ proc' = [i \in Installers |-> Idle] /\ UNCHANGED <<saved, late>>
      /\ failures' \in 0..MaxFailures
  BY DirectoriesKeep DEF PowerLoss, Failure
<1>3. NoFile \in Contents /\ NoFile.kind = "none" /\ NoFile.ours = {} /\ NoFile.other = {}
  BY DEF NoFile, Configuration, Contents
<1>4. /\ \A a \in Agents : disk[a] \subseteq Contents /\ \A c \in disk[a] : Keeps(a, c)
      /\ \A a \in Agents : dir[a] # "kept" => saved[a] \subseteq late[a]
      /\ dir \in [Agents -> {"absent", "fresh", "kept"}] /\ litter \in [Agents -> 0..1]
  BY DEF InstallInd, InstallTypeOK, FilesKeep
<1>5. ASSUME NEW a \in Agents PROVE after[a] \in Contents /\ Keeps(a, after[a])
  <2>1. CASE a \in gone
    <3>1. after[a] = NoFile /\ saved[a] \subseteq late[a]
      BY <1>1, <1>4, <2>1
    <3>2. Cardinality(after[a].ours) <= 1
      <4>1. after[a].ours = {}
        BY <1>3, <3>1
      <4>2. Cardinality({}) <= 1
        BY FS_EmptySet
      <4> QED
        BY <4>1, <4>2, Zenon
    <3> QED
      BY <1>3, <3>1, <3>2 DEF Keeps
  <2>2. CASE a \notin gone
    <3>1. after[a] \in disk[a]
      BY <1>1, <2>2
    <3> QED
      BY <1>4, <3>1
  <2> QED
    BY <2>1, <2>2
<1>6. /\ file' \in [Agents -> Contents] /\ disk' \in [Agents -> SUBSET Contents]
      /\ \A a \in Agents : Keeps(a, file'[a]) /\ \A c \in disk'[a] : Keeps(a, c)
  <2>1. after \in [Agents -> Contents]
    BY <1>5
  <2> QED
    BY <1>1, <1>5, <2>1
<1>7. FilesKeep'
  <2>1. \A a \in Agents : dir'[a] # "kept" => saved[a] \subseteq late[a]
    BY <1>1, <1>4
  <2> QED
    BY <1>2, <1>6, <2>1 DEF FilesKeep, Keeps
<1>8. \A i \in Installers : proc'[i].at = "idle" /\ proc'[i] \in InstallProcs
  BY <1>2, IdleIsProc
<1>9. InstallTypeOK'
  <2>1. \A i \in Installers : /\ proc'[i].at \in Places /\ proc'[i].made \subseteq Agents
                              /\ proc'[i].at \notin {"idle", "lock"} <=> lock' = i
    BY InstallAssumption, <1>2, <1>8 DEF InstallProcs
  <2>2. /\ dir' \in [Agents -> {"absent", "fresh", "kept"}] /\ litter' \in [Agents -> 0..1]
    BY <1>1, <1>4
  <2> QED
    <3>1. /\ file' \in [Agents -> Contents] /\ \A a \in Agents : disk'[a] \subseteq Contents
          /\ \A a \in Agents : late'[a] \subseteq saved'[a] /\ saved'[a] \subseteq Edits
      BY <1>2, <1>6, TypesKeep
    <3>2. lock' \in Installers \union {"none"} /\ failures' \in 0..MaxFailures
      BY <1>2
    <3> QED
      BY <2>1, <2>2, <3>1, <3>2 DEF InstallTypeOK
<1>10. \A i \in Installers : InstallerKeeps(i)'
  BY <1>8 DEF InstallerKeeps, Loops, Writing
<1> QED
  BY <1>2, <1>6, <1>7, <1>8, <1>9, <1>10, TypesKeep DEF InstallInd

\* At first there are no configurations.
LEMMA InitInstallKeeps == InitInstall => InstallInd
<1> SUFFICES ASSUME InitInstall PROVE InstallInd
  OBVIOUS
<1>1. NoFile \in Contents /\ NoFile.kind = "none" /\ NoFile.ours = {} /\ NoFile.other = {}
  BY DEF NoFile, Configuration, Contents
<1>2. Cardinality(NoFile.ours) = 0
  BY <1>1, FS_EmptySet
<1>3. \A i \in Installers : proc[i] \in InstallProcs /\ proc[i].at = "idle" /\ proc[i].at \in Places
                         /\ proc[i].made \subseteq Agents
  BY IdleIsProc DEF InitInstall, InstallProcs
<1>4. InstallTypeOK
  <2>1. /\ file \in [Agents -> Contents] /\ \A a \in Agents : disk[a] \subseteq Contents
        /\ \A a \in Agents : late[a] \subseteq saved[a] /\ saved[a] \subseteq Edits
    BY <1>1 DEF InitInstall
  <2>2. /\ dir \in [Agents -> {"absent", "fresh", "kept"}] /\ litter \in [Agents -> 0..1]
        /\ lock \in Installers \union {"none"} /\ failures \in 0..MaxFailures
        /\ \A i \in Installers : proc[i].at \notin {"idle", "lock"} <=> lock = i
    BY InstallAssumption, <1>3 DEF InitInstall
  <2> QED
    BY <1>3, <2>1, <2>2 DEF InstallTypeOK
<1>5. FilesKeep
  <2>1. \A a \in Agents : file[a] = NoFile /\ disk[a] = {NoFile} /\ saved[a] = {} /\ late[a] = {}
    BY DEF InitInstall
  <2>2. \A a \in Agents : Keeps(a, NoFile)
    BY <1>1, <1>2, <2>1 DEF Keeps
  <2> QED
    BY <2>1, <2>2 DEF FilesKeep
<1>6. \A i \in Installers : InstallerKeeps(i)
  BY <1>3 DEF InstallerKeeps, Loops, Writing
<1> QED
  BY <1>1, <1>3, <1>4, <1>5, <1>6 DEF InitInstall, InstallInd

\* Each step of an installer, of an editor, of the operating system.
LEMMA NextInstallKeeps == InstallInd /\ [NextInstall]_installVars => InstallInd'
<1> SUFFICES ASSUME InstallInd, [NextInstall]_installVars PROVE InstallInd'
  OBVIOUS
<1>1. ASSUME NEW i \in Installers, Begin(i) \/ Step(i) \/ Error(i) \/ Kill(i) PROVE InstallInd'
  BY <1>1, BeginKeeps, TryLockKeeps, PrepareKeeps, MakeDirectoryKeeps, StageKeeps, SyncKeeps,
     CompareKeeps, RenameKeeps, SecureKeeps, FinishKeeps, ErrorKeeps, KillKeeps DEF Step
<1>2. CASE UNCHANGED installVars
  <2>1. UNCHANGED <<file, disk, dir, litter, lock, proc, saved, late, failures>>
    BY <1>2 DEF installVars, fileVars
  <2>2. InstallTypeOK' /\ FilesKeep'
    BY <2>1 DEF InstallInd, InstallTypeOK, FilesKeep, Keeps
  <2>3. ASSUME NEW i \in Installers PROVE InstallerKeeps(i)'
    <3>1. \A a : (Follows(i, a)' <=> Follows(i, a)) /\ (Prepared(i, a)' <=> Prepared(i, a))
               /\ (Written(i, a)' <=> Written(i, a))
      BY <2>1 DEF Follows, Prepared, Written
    <3>2. /\ Rest(i)' = Rest(i) /\ Asked(i)' = Asked(i) /\ Plan(i)' = Plan(i) /\ Now(i)' = Now(i)
      BY <2>1 DEF Rest, Asked, Plan, Now
    <3>3. PICK current : current = Now(i)
      OBVIOUS
    <3>4. InstallerKeeps(i)
      BY DEF InstallInd
    <3> QED
      BY <2>1, <3>1, <3>2, <3>3, <3>4 DEF InstallerKeeps
  <2> QED
    BY <2>1, <2>2, <2>3 DEF InstallInd
<1> QED
  BY <1>1, <1>2, EditKeeps, PowerLossKeeps DEF NextInstall

\* The invariant gives what the runs check.
LEMMA IndHolds == InstallInd => InstallInv
<1> SUFFICES ASSUME InstallInd PROVE InstallInv
  OBVIOUS
<1>1. FilesAreWhole /\ EditsSurvive
  BY DEF InstallInd, FilesKeep, Keeps, FilesAreWhole, EditsSurvive
<1>2. ASSUME NEW i \in Installers, At(i, "finish"), NEW k \in DOMAIN Wanted[i]
      PROVE  /\ file[Wanted[i][k]] = proc[i].plan[Wanted[i][k]].new
                \/ ~(saved[Wanted[i][k]] \subseteq proc[i].plan[Wanted[i][k]].new.other \union late[Wanted[i][k]])
             /\ proc[i].plan[Wanted[i][k]].writes => disk[Wanted[i][k]] = {file[Wanted[i][k]]}
  <2>1. Wanted[i][k] \in Asked(i)
    BY DEF Asked, Items
  <2>2. Written(i, Wanted[i][k])
    BY <1>2, <2>1 DEF InstallInd, InstallerKeeps, At
  <2> QED
    BY <2>2 DEF Written, Follows
<1>3. SuccessHolds
  BY <1>2 DEF SuccessHolds
<1> QED
  BY <1>1, <1>3 DEF InstallInd, InstallInv

\* Whatever is killed, fails, loses power or edits beside it, an installer leaves no
\* configuration torn, with its hooks twice or without what others put there, and
\* at most one installs at a time (install_agent_hooks).
THEOREM InstallIsSafe == Installation => []InstallInv
<1>1. InitInstall => InstallInd
  BY InitInstallKeeps
<1>2. InstallInd /\ [NextInstall]_installVars => InstallInd'
  BY NextInstallKeeps
<1>3. InstallInd => InstallInv
  BY IndHolds
<1> QED
  BY <1>1, <1>2, <1>3, PTL DEF Installation

-------------------------------------------------------------------------------
(* OutboxSchedule: when an entry of the outbox is tried *)

States ==
  Open \union {"unknown", "delivered", "permission_denied", "suppressed", "expired", "failed_terminal"}

\* An entry that was tried is due again after the delay of its last failure; its
\* attempts are the tries since it was queued.
ScheduleInv ==
  /\ now \in Nat /\ receivedAt \in Nat /\ occurredAt \in Int /\ quiet \in QuietHours
  /\ entry \in [state : States, attempts : 0..MaxTries, next : Int]
  /\ tries \in Seq(Int) /\ Len(tries) <= MaxTries
  /\ entry.state \in Open \union {"unknown"} => Len(tries) = entry.attempts
  /\ entry.state = "unknown" => entry.attempts = 0
  /\ entry.state \in Open /\ entry.attempts > 0 =>
       entry.next >= tries[entry.attempts] + RetryDelay(entry.attempts - 1)
  /\ \A i \in 2..Len(tries) : tries[i] - tries[i - 1] >= RetryDelay(i - 2)

\* Each failure has its delay.
LEMMA DelayIsNat == ASSUME NEW n \in Nat PROVE RetryDelay(n) \in Nat
<1>1. Len(RetryDelays) \in Nat /\ \A k \in 1..Len(RetryDelays) : RetryDelays[k] \in Nat
  BY ScheduleAssumption, LenProperties, ElementOfSeq
<1> QED
  BY ScheduleAssumption, <1>1 DEF RetryDelay

\* The minute of the day, of instants that are less than a day off.
LEMMA RemainderSteps ==
  ASSUME NEW n \in Int
  PROVE  /\ n \in 0..(DayLength - 1) => n % DayLength = n
         /\ n \in DayLength..(2 * DayLength - 1) => n % DayLength = n - DayLength
         /\ n \in (-DayLength)..(-1) => n % DayLength = n + DayLength
<1>1. n \in 0..(DayLength - 1) => n % DayLength = n
  BY ScheduleAssumption
<1>2. n \in DayLength..(2 * DayLength - 1) => n % DayLength = n - DayLength
  BY ScheduleAssumption
<1>3. n \in (-DayLength)..(-1) => n % DayLength = n + DayLength
  BY ScheduleAssumption
<1> QED
  BY <1>1, <1>2, <1>3

\* A minute of this day or of the next one, on the clock.
OnClock(n) == IF n < DayLength THEN n ELSE n - DayLength

\* A day around noon, whatever the zone.
LEMMA OneTurn ==
  ASSUME NEW n \in Int, 0 <= n, n < 2 * DayLength
  PROVE  n % DayLength = OnClock(n)
<1>1. CASE n < DayLength
  <2>1. n \in 0..(DayLength - 1)
    BY ScheduleAssumption, <1>1
  <2>2. n % DayLength = n
    BY <2>1, RemainderSteps
  <2> QED
    BY <1>1, <2>2, Zenon DEF OnClock
<1>2. CASE ~(n < DayLength)
  <2>1. n \in Int /\ n \in DayLength..(2 * DayLength - 1)
    BY ScheduleAssumption, <1>2
  <2>2. n % DayLength = n - DayLength
    BY <2>1, RemainderSteps
  <2> QED
    BY <1>2, <2>2, Zenon DEF OnClock
<1> QED
  BY <1>1, <1>2

\* An interval of the day, over midnight too, is what quiet_hours_active says.
LEMMA QuietMinutesAreThose ==
  ASSUME NEW q \in QuietHours, NEW minute \in Minutes
  PROVE  InQuietHours(q, minute) <=> minute \in QuietMinutes(q)
<1>0. PICK length : length = (q.end - q.start) % DayLength
  OBVIOUS
<1>1. q.start \in 0..(DayLength - 1) /\ q.end \in 0..(DayLength - 1) /\ minute \in 0..(DayLength - 1)
      /\ DayLength \in Nat \ {0}
  BY ScheduleAssumption DEF QuietHours, Minutes
<1>2. /\ q.start = q.end => length = 0
      /\ q.start < q.end => length = q.end - q.start
      /\ q.start > q.end => length = q.end - q.start + DayLength
  <2>1. PICK d \in Int : d = q.end - q.start
    BY <1>1
  <2>2. length = d % DayLength
    BY <1>0, <2>1
  <2>3. CASE d >= 0
    <3>1. d \in 0..(DayLength - 1)
      BY <1>1, <2>1, <2>3
    <3>2. length = d
      BY <2>2, <3>1, RemainderSteps
    <3> QED
      BY <1>1, <2>1, <2>3, <3>2
  <2>4. CASE d < 0
    <3>1. d \in (-DayLength)..(-1)
      BY <1>1, <2>1, <2>4
    <3>2. length = d + DayLength
      BY <2>2, <3>1, RemainderSteps
    <3> QED
      BY <1>1, <2>1, <2>4, <3>2
  <2> QED
    BY <2>1, <2>3, <2>4
<1>3. length \in 0..(DayLength - 1)
  BY <1>1, <1>2
<1>4. ASSUME NEW k \in 0..(length - 1)
      PROVE  (q.start + k) % DayLength = OnClock(q.start + k)
  <2>1. q.start + k \in Int /\ 0 <= q.start + k /\ q.start + k < 2 * DayLength
    BY <1>1, <1>3
  <2> QED
    BY <2>1, OneTurn, Zenon
<1>5. minute \in QuietMinutes(q) <=> \E k \in 0..(length - 1) : minute = OnClock(q.start + k)
  <2>1. minute \in QuietMinutes(q) <=> \E k \in 0..(length - 1) : minute = (q.start + k) % DayLength
    BY <1>0, Zenon DEF QuietMinutes
  <2> QED
    BY <1>4, <2>1, Zenon
<1>6. CASE q.start = q.end
  BY <1>1, <1>2, <1>5, <1>6 DEF InQuietHours
<1>7. CASE q.start < q.end
  <2>1. ASSUME q.start <= minute, minute < q.end PROVE minute \in QuietMinutes(q)
    <3>1. PICK k \in Int : k = minute - q.start
      BY <1>1
    <3>2. k \in 0..(length - 1) /\ minute = OnClock(q.start + k)
      BY <1>1, <1>2, <1>7, <2>1, <3>1 DEF OnClock
    <3> QED
      BY <1>5, <3>2
  <2>2. ASSUME minute \in QuietMinutes(q) PROVE q.start <= minute /\ minute < q.end
    <3>1. PICK k \in 0..(length - 1) : minute = OnClock(q.start + k)
      BY <1>5, <2>2
    <3> QED
      BY <1>1, <1>2, <1>7, <3>1 DEF OnClock
  <2> QED
    BY <1>1, <1>7, <2>1, <2>2 DEF InQuietHours
<1>8. CASE q.start > q.end
  <2>1. /\ length = q.end - q.start + DayLength
        /\ q.start \in Int /\ q.end \in Int /\ minute \in Int /\ length \in Int /\ DayLength \in Int
        /\ 0 <= q.start /\ q.start < DayLength /\ 0 <= q.end /\ q.end < DayLength
        /\ 0 <= minute /\ minute < DayLength
    BY <1>1, <1>2, <1>3, <1>8
  <2>2. ASSUME q.start <= minute PROVE minute \in QuietMinutes(q)
    <3>1. PICK k \in Int : k = minute - q.start
      BY <1>1
    <3>2. k \in 0..(length - 1) /\ minute = OnClock(q.start + k)
      <4>1. k \in 0..(length - 1)
        BY <2>1, <2>2, <3>1
      <4>2. q.start + k = minute
        BY <2>1, <3>1
      <4> QED
        BY <2>1, <4>1, <4>2 DEF OnClock
    <3> QED
      BY <1>5, <3>2
  <2>3. ASSUME minute < q.end PROVE minute \in QuietMinutes(q)
    <3>1. PICK k \in Int : k = minute - q.start + DayLength
      BY <1>1
    <3>2. k \in 0..(length - 1)
      BY <2>1, <2>3, <3>1
    <3>3. minute = OnClock(q.start + k)
      BY <1>1, <3>1 DEF OnClock
    <3> QED
      BY <1>5, <3>2, <3>3
  <2>4. ASSUME minute \in QuietMinutes(q) PROVE q.start <= minute \/ minute < q.end
    <3>1. PICK k \in 0..(length - 1) : minute = OnClock(q.start + k)
      BY <1>5, <2>4
    <3> QED
      BY <2>1, <3>1 DEF OnClock
  <2>5. InQuietHours(q, minute) <=> q.start <= minute \/ minute < q.end
    BY <1>1, <1>8 DEF InQuietHours
  <2> QED
    BY <2>2, <2>3, <2>4, <2>5
<1> QED
  BY <1>1, <1>6, <1>7, <1>8

\* What an entry's turn makes of it.
LEMMA TurnOfTheEntry ==
  ASSUME ScheduleInv, Poll
  PROVE  /\ Due /\ UNCHANGED <<now, eventVars, quiet>>
         /\ \/ /\ UNCHANGED tries /\ entry'.attempts = entry.attempts
               /\ entry' \in [state : States, attempts : 0..MaxTries, next : Int]
               /\ \/ entry'.state \in {"failed_terminal", "suppressed"}
                  \/ entry'.state = "expired" /\ TooOld
                  \/ entry' = [entry EXCEPT !.next = now + QuietDelay] /\ Quiet
            \/ /\ tries' = Append(tries, now) /\ ~Quiet /\ ~TooOld
               /\ entry.attempts < MaxTries
               /\ \/ /\ entry' \in [state : States, attempts : 0..MaxTries, next : Int]
                     /\ entry'.state \in {"delivered", "permission_denied"}
                     /\ entry'.attempts = entry.attempts
                  \/ entry' = Retried
<1>1. Due /\ UNCHANGED <<now, eventVars, quiet>>
  BY DEF Poll
<1>2. PICK muted \in BOOLEAN :
       CASE entry.attempts >= MaxTries ->
              entry' = Settled("failed_terminal") /\ UNCHANGED tries
         [] entry.attempts < MaxTries /\ Decide(muted) = "suppress" ->
              entry' = Settled("suppressed") /\ UNCHANGED tries
         [] entry.attempts < MaxTries /\ Decide(muted) = "expire" ->
              entry' = Settled("expired") /\ UNCHANGED tries
         [] entry.attempts < MaxTries /\ Decide(muted) = "defer" ->
              entry' = [entry EXCEPT !.next = now + QuietDelay] /\ UNCHANGED tries
         [] OTHER ->
              /\ tries' = Append(tries, now)
              /\ entry' \in {Settled("delivered"), Settled("permission_denied"), Retried}
  BY DEF Poll
<1>3. /\ entry \in [state : States, attempts : 0..MaxTries, next : Int] /\ now \in Int
      /\ entry.attempts \in 0..MaxTries
  BY DEF ScheduleInv
<1>4. ASSUME NEW state \in States
      PROVE  /\ Settled(state) \in [state : States, attempts : 0..MaxTries, next : Int]
             /\ Settled(state).state = state /\ Settled(state).attempts = entry.attempts
  BY <1>3 DEF Settled, States, Open
<1>5. [entry EXCEPT !.next = now + QuietDelay] \in [state : States, attempts : 0..MaxTries, next : Int]
      /\ [entry EXCEPT !.next = now + QuietDelay].attempts = entry.attempts
  <2>1. PICK later \in Int : later = now + QuietDelay
    BY ScheduleAssumption, <1>3
  <2>2. [entry EXCEPT !.next = later] \in [state : States, attempts : 0..MaxTries, next : Int]
        /\ [entry EXCEPT !.next = later].attempts = entry.attempts
    BY <1>3
  <2> QED
    BY <2>1, <2>2
<1>6. \/ Decide(muted) = "suppress"
      \/ Decide(muted) = "expire" /\ ~Quiet /\ TooOld
      \/ Decide(muted) = "defer" /\ Quiet
      \/ Decide(muted) = "notify" /\ ~Quiet /\ ~TooOld
  BY DEF Decide
<1>7. CASE entry.attempts >= MaxTries
  <2>1. entry' = Settled("failed_terminal") /\ UNCHANGED tries
    BY ScheduleAssumption, <1>2, <1>3, <1>7
  <2>2. /\ entry' \in [state : States, attempts : 0..MaxTries, next : Int]
        /\ entry'.state = "failed_terminal" /\ entry'.attempts = entry.attempts
    BY <1>4, <2>1 DEF States, Open
  <2> QED
    BY <1>1, <1>7, <2>1, <2>2
<1>8. CASE entry.attempts < MaxTries /\ Decide(muted) = "suppress"
  <2>1. entry' = Settled("suppressed") /\ UNCHANGED tries
    BY <1>2, <1>3, <1>8
  <2>2. /\ entry' \in [state : States, attempts : 0..MaxTries, next : Int]
        /\ entry'.state = "suppressed" /\ entry'.attempts = entry.attempts
    BY <1>4, <2>1 DEF States, Open
  <2> QED
    BY <1>1, <1>8, <2>1, <2>2
<1>9. CASE entry.attempts < MaxTries /\ Decide(muted) = "expire" /\ TooOld
  <2>1. entry' = Settled("expired") /\ UNCHANGED tries
    BY <1>2, <1>3, <1>9
  <2>2. /\ entry' \in [state : States, attempts : 0..MaxTries, next : Int]
        /\ entry'.state = "expired" /\ entry'.attempts = entry.attempts
    BY <1>4, <2>1 DEF States, Open
  <2> QED
    BY <1>1, <1>9, <2>1, <2>2
<1>10. CASE entry.attempts < MaxTries /\ Decide(muted) = "defer" /\ Quiet
  <2>1. entry' = [entry EXCEPT !.next = now + QuietDelay] /\ UNCHANGED tries
    BY <1>2, <1>3, <1>10
  <2> QED
    BY <1>1, <1>5, <1>10, <2>1
<1>11. CASE entry.attempts < MaxTries /\ Decide(muted) = "notify" /\ ~Quiet /\ ~TooOld
  <2>1. /\ tries' = Append(tries, now)
        /\ entry' \in {Settled("delivered"), Settled("permission_denied"), Retried}
    BY ScheduleAssumption, <1>2, <1>3, <1>11
  <2>2. CASE entry' = Retried
    BY <1>1, <1>11, <2>1, <2>2
  <2>3. CASE entry' = Settled("delivered")
    <3>1. /\ entry' \in [state : States, attempts : 0..MaxTries, next : Int]
          /\ entry'.state = "delivered" /\ entry'.attempts = entry.attempts
      BY <1>4, <2>3 DEF States, Open
    <3> QED
      BY <1>1, <1>11, <2>1, <3>1
  <2>4. CASE entry' = Settled("permission_denied")
    <3>1. /\ entry' \in [state : States, attempts : 0..MaxTries, next : Int]
          /\ entry'.state = "permission_denied" /\ entry'.attempts = entry.attempts
      BY <1>4, <2>4 DEF States, Open
    <3> QED
      BY <1>1, <1>11, <2>1, <3>1
  <2> QED
    BY <2>1, <2>2, <2>3, <2>4
<1> QED
  BY ScheduleAssumption, <1>3, <1>6, <1>7, <1>8, <1>9, <1>10, <1>11

\* One more try after the others.
LEMMA AppendSteps ==
  ASSUME ScheduleInv
  PROVE  /\ Append(tries, now) \in Seq(Int) /\ Len(Append(tries, now)) = Len(tries) + 1
         /\ \A i \in 1..Len(tries) : Append(tries, now)[i] = tries[i]
         /\ Append(tries, now)[Len(tries) + 1] = now
         /\ Append(tries, now) # tries
<1>1. tries \in Seq(Int) /\ now \in Int
  BY DEF ScheduleInv
<1>2. /\ Append(tries, now) \in Seq(Int) /\ Len(Append(tries, now)) = Len(tries) + 1
      /\ \A i \in 1..Len(tries) : Append(tries, now)[i] = tries[i]
      /\ Append(tries, now)[Len(tries) + 1] = now
  BY <1>1, AppendProperties
<1>3. Len(tries) \in Nat
  BY <1>1, LenProperties
<1>4. Append(tries, now) # tries
  BY <1>2, <1>3
<1> QED
  BY <1>2, <1>4

\* A notifier is asked when the entry is due.
LEMMA TriedInTime ==
  ASSUME ScheduleInv, Due, tries' = Append(tries, now)
  PROVE  \A i \in 2..Len(tries') : tries'[i] - tries'[i - 1] >= RetryDelay(i - 2)
<1>1. /\ now \in Nat /\ entry.state \in Open /\ entry.attempts \in 0..MaxTries /\ entry.next \in Int
      /\ tries \in Seq(Int) /\ Len(tries) = entry.attempts
  BY DEF ScheduleInv, Due
<1>2. Len(tries') = entry.attempts + 1
  BY <1>1, AppendSteps
<1>3. ASSUME entry.attempts > 0
      PROVE  now - tries[entry.attempts] >= RetryDelay(entry.attempts - 1)
  <2>1. entry.next <= now /\ entry.next >= tries[entry.attempts] + RetryDelay(entry.attempts - 1)
    BY <1>1, <1>3 DEF Due, ScheduleInv
  <2>2. entry.attempts \in 1..Len(tries) /\ entry.attempts - 1 \in Nat
    BY <1>1, <1>3
  <2>3. tries[entry.attempts] \in Int
    BY <1>1, <2>2, ElementOfSeq
  <2>4. RetryDelay(entry.attempts - 1) \in Nat
    BY <2>2, DelayIsNat
  <2>5. PICK t \in Int, d \in Nat : t = tries[entry.attempts] /\ d = RetryDelay(entry.attempts - 1)
    BY <2>3, <2>4
  <2>6. entry.next >= t + d
    BY <2>1, <2>5, Zenon
  <2>7. now - t >= d
    BY <1>1, <2>1, <2>6
  <2> QED
    BY <2>5, <2>7, Zenon
<1>4. ASSUME NEW i \in 2..Len(tries')
      PROVE  tries'[i] - tries'[i - 1] >= RetryDelay(i - 2)
  <2>1. CASE i = entry.attempts + 1
    <3>1. entry.attempts > 0 /\ i - 1 = entry.attempts /\ i - 2 = entry.attempts - 1
      BY <1>1, <1>2, <1>4, <2>1
    <3>2. /\ Append(tries, now)[entry.attempts + 1] = now
          /\ Append(tries, now)[entry.attempts] = tries[entry.attempts]
      <4>1. entry.attempts \in 1..Len(tries)
        BY <1>1, <3>1
      <4> QED
        BY <1>1, <4>1, AppendSteps
    <3>3. tries'[i] = now /\ tries'[i - 1] = tries[entry.attempts]
      BY <2>1, <3>1, <3>2
    <3> QED
      BY <1>3, <3>1, <3>3
  <2>2. CASE i # entry.attempts + 1
    <3>1. i \in 2..Len(tries) /\ i - 1 \in 1..Len(tries) /\ i \in 1..Len(tries)
      BY <1>1, <1>2, <1>4, <2>2
    <3>2. tries'[i] = tries[i] /\ tries'[i - 1] = tries[i - 1]
      BY <3>1, AppendSteps
    <3> QED
      BY <3>1, <3>2 DEF ScheduleInv
  <2> QED
    BY <2>1, <2>2
<1> QED
  BY <1>4

\* A poll settles the entry, leaves it to the next one, or has it tried.
LEMMA PollKeeps ==
  ASSUME ScheduleInv, Poll
  PROVE  ScheduleInv'
<1>1. /\ Due /\ UNCHANGED <<now, kind, occurredAt, receivedAt, quiet>>
      /\ now \in Nat /\ receivedAt \in Nat /\ occurredAt \in Int /\ quiet \in QuietHours
      /\ entry \in [state : States, attempts : 0..MaxTries, next : Int]
      /\ entry.attempts \in 0..MaxTries /\ entry.next \in Int
      /\ tries \in Seq(Int) /\ Len(tries) = entry.attempts /\ entry.state \in Open
  BY TurnOfTheEntry DEF ScheduleInv, eventVars, Due
<1>2. CASE /\ UNCHANGED tries /\ entry'.attempts = entry.attempts
           /\ entry' \in [state : States, attempts : 0..MaxTries, next : Int]
           /\ \/ entry'.state \notin Open \union {"unknown"}
              \/ entry' = [entry EXCEPT !.next = now + QuietDelay]
  <2>1. ASSUME entry' = [entry EXCEPT !.next = now + QuietDelay]
        PROVE  entry'.state = entry.state /\ entry'.next >= entry.next
    BY ScheduleAssumption, <1>1, <2>1 DEF Due
  <2>2. ASSUME entry'.state \in Open, entry'.attempts > 0
        PROVE  entry'.next >= tries[entry'.attempts] + RetryDelay(entry'.attempts - 1)
    <3>1. /\ entry.next >= tries[entry.attempts] + RetryDelay(entry.attempts - 1)
          /\ entry'.next >= entry.next
      BY <1>1, <1>2, <2>1, <2>2 DEF ScheduleInv
    <3>2. entry.attempts \in 1..Len(tries) /\ entry.attempts - 1 \in Nat
      <4>1. entry.attempts > 0
        BY <1>2, <2>2
      <4> QED
        BY <1>1, <4>1
    <3>3. tries[entry.attempts] \in Int
      BY <1>1, <3>2, ElementOfSeq
    <3>4. RetryDelay(entry.attempts - 1) \in Nat
      BY <3>2, DelayIsNat
    <3>5. PICK t \in Int, d \in Nat : t = tries[entry.attempts] /\ d = RetryDelay(entry.attempts - 1)
      BY <3>3, <3>4
    <3>6. entry.next >= t + d /\ entry'.next \in Int
      BY <1>2, <3>1, <3>5
    <3>7. entry'.next >= t + d
      BY <1>1, <3>1, <3>6
    <3> QED
      BY <1>2, <3>5, <3>7
  <2>3. entry'.state \in Open \union {"unknown"} => Len(tries') = entry'.attempts /\ entry'.state # "unknown"
    BY <1>1, <1>2, <2>1 DEF Open
  <2> QED
    BY <1>1, <1>2, <2>2, <2>3 DEF ScheduleInv, RetryDelay
<1>3. CASE /\ tries' = Append(tries, now) /\ entry.attempts < MaxTries
           /\ entry' = Retried
  <2>1. /\ entry' \in [state : States, attempts : 0..MaxTries, next : Int]
        /\ entry'.attempts = entry.attempts + 1
        /\ entry'.next = now + RetryDelay(entry.attempts)
    <3>1. entry.attempts + 1 \in 0..MaxTries /\ entry.attempts \in Nat
      BY ScheduleAssumption, <1>1, <1>3
    <3>2. RetryDelay(entry.attempts) \in Nat
      BY <3>1, DelayIsNat
    <3>3. PICK later \in Int : later = now + RetryDelay(entry.attempts)
      BY <1>1, <3>2
    <3>4. entry' = [state |-> "failed_retryable", attempts |-> entry.attempts + 1, next |-> later]
      BY <1>3, <3>3 DEF Retried
    <3> QED
      BY <3>1, <3>3, <3>4 DEF States, Open
  <2>2. tries'[entry.attempts + 1] = now /\ Len(tries') = entry.attempts + 1 /\ tries' \in Seq(Int)
    BY <1>1, <1>3, AppendSteps
  <2>4. \A i \in 2..Len(tries') : tries'[i] - tries'[i - 1] >= RetryDelay(i - 2)
    BY <1>1, <1>3, TriedInTime
  <2>5. entry'.next >= tries'[entry'.attempts] + RetryDelay(entry'.attempts - 1)
    <3>1. entry'.attempts - 1 = entry.attempts /\ entry.attempts \in Nat
      BY <1>1, <2>1
    <3>2. RetryDelay(entry.attempts) \in Nat
      BY <3>1, DelayIsNat
    <3> QED
      BY <1>1, <2>1, <2>2, <3>1, <3>2
  <2>6. Len(tries') <= MaxTries /\ entry'.state # "unknown"
    BY ScheduleAssumption, <1>1, <1>3, <2>2 DEF Retried
  <2> QED
    BY <1>1, <2>1, <2>2, <2>4, <2>5, <2>6 DEF ScheduleInv, RetryDelay
<1>4. CASE /\ tries' = Append(tries, now) /\ entry.attempts < MaxTries
           /\ entry' \in [state : States, attempts : 0..MaxTries, next : Int]
           /\ entry'.state \notin Open \union {"unknown"}
  <2>1. Len(tries') = entry.attempts + 1 /\ tries' \in Seq(Int) /\ Len(tries') <= MaxTries
    BY ScheduleAssumption, <1>1, <1>4, AppendSteps
  <2>2. \A i \in 2..Len(tries') : tries'[i] - tries'[i - 1] >= RetryDelay(i - 2)
    BY <1>1, <1>4, TriedInTime
  <2> QED
    BY <1>1, <1>4, <2>1, <2>2 DEF ScheduleInv, RetryDelay
<1> QED
  BY <1>2, <1>3, <1>4, TurnOfTheEntry DEF Open

\* Time passes, entries come, the settings change, a permission is given.
LEMMA StepKeeps == ScheduleInv /\ [NextSchedule]_scheduleVars => ScheduleInv'
<1> SUFFICES ASSUME ScheduleInv, [NextSchedule]_scheduleVars PROVE ScheduleInv'
  OBVIOUS
<1>1. CASE Tick
  BY <1>1 DEF Tick, ScheduleInv, eventVars, RetryDelay
<1>2. CASE Receive
  <2>1. /\ entry' = [state |-> "pending", attempts |-> 0, next |-> now] /\ tries' = tries /\ Len(tries) = 0
        /\ receivedAt' = now /\ UNCHANGED <<now, occurredAt, quiet>>
    BY <1>2 DEF Receive, Queued, ScheduleInv
  <2>2. entry' \in [state : States, attempts : 0..MaxTries, next : Int]
    BY <2>1 DEF States, Open, ScheduleInv
  <2> QED
    BY <2>1, <2>2 DEF ScheduleInv, Open, RetryDelay
<1>3. CASE Poll
  BY <1>3, PollKeeps
<1>4. CASE Requeue
  <2>1. /\ entry' = [state |-> "pending", attempts |-> 0, next |-> now] /\ tries' = << >>
        /\ UNCHANGED <<now, occurredAt, receivedAt, quiet>>
    BY <1>4 DEF Requeue, Queued, eventVars
  <2>2. entry' \in [state : States, attempts : 0..MaxTries, next : Int]
    BY ScheduleAssumption, <2>1 DEF States, Open, ScheduleInv
  <2>3. tries' \in Seq(Int) /\ Len(tries') = 0
    BY <2>1, EmptySeq
  <2> QED
    BY <2>1, <2>2, <2>3 DEF ScheduleInv, Open
<1>5. CASE UNCHANGED scheduleVars
  BY <1>5 DEF scheduleVars, eventVars, ScheduleInv, RetryDelay
<1> QED
  BY <1>1, <1>2, <1>3, <1>4, <1>5 DEF NextSchedule

\* What each step promises follows from where it starts.
LEMMA StepIsTimely ==
  ASSUME ScheduleInv, [NextSchedule]_scheduleVars
  PROVE  /\ [kind = "completed" =>
               /\ tries' # tries /\ tries' # << >> =>
                    now - receivedAt <= MaxCompletionAge + SkewThreshold
               /\ entry'.state = "expired" /\ entry.state # "expired" =>
                    now - receivedAt > MaxCompletionAge - SkewThreshold]_scheduleVars
         /\ [/\ tries' # tries /\ tries' # << >> =>
                  now % DayLength \notin QuietMinutes(quiet) \/ (kind = "question" /\ quiet.bypass)
             /\ entry.state = "pending" /\ entry.next < entry'.next /\ entry'.state = "pending" =>
                  now % DayLength \in QuietMinutes(quiet) /\ entry'.next = now + QuietDelay]_scheduleVars
<1>1. CASE UNCHANGED scheduleVars
  BY <1>1
<1>2. CASE NextSchedule /\ ~Poll
  <2>1. /\ tries' # tries => tries' = << >>
        /\ entry'.state # entry.state => entry'.state = "pending"
        /\ entry.state = "pending" => entry' = entry
    BY <1>2 DEF NextSchedule, Tick, Receive, Requeue, Queued
  <2>2. entry'.state = "expired" => entry.state = "expired"
    BY <2>1
  <2>3. entry.state = "pending" => entry'.next = entry.next
    BY <2>1
  <2>4. entry.next \in Int
    BY DEF ScheduleInv
  <2> QED
    BY <2>1, <2>2, <2>3, <2>4
<1>3. CASE Poll
  <2>1. now \in Int /\ receivedAt \in Int /\ occurredAt \in Int /\ quiet \in QuietHours
    BY DEF ScheduleInv
  <2>2. ASSUME kind = "completed", ~TooOld PROVE now - receivedAt <= MaxCompletionAge + SkewThreshold
    <3>1. IsClockSkewed(occurredAt, receivedAt) \/ ~IsClockSkewed(occurredAt, receivedAt)
      OBVIOUS
    <3> QED
      BY ScheduleAssumption, <2>1, <2>2 DEF TooOld, Completed, IsClockSkewed, Difference
  <2>3. ASSUME TooOld PROVE now - receivedAt > MaxCompletionAge - SkewThreshold
    BY ScheduleAssumption, <2>1, <2>3 DEF TooOld, Completed, IsClockSkewed, Difference
  <2>4. now % DayLength \in Minutes
    BY ScheduleAssumption, <2>1 DEF Minutes
  <2>5. Quiet <=> /\ now % DayLength \in QuietMinutes(quiet)
                  /\ ~(kind = "question" /\ quiet.bypass)
    BY <2>1, <2>4, QuietMinutesAreThose, Zenon DEF Quiet
  <2>6. entry.next <= now /\ entry.state \in Open /\ entry.next \in Int
    BY <1>3 DEF Poll, Due, ScheduleInv
  <2>7. CASE /\ UNCHANGED tries
             /\ \/ entry'.state \in {"failed_terminal", "suppressed"}
                \/ entry'.state = "expired" /\ TooOld
                \/ entry' = [entry EXCEPT !.next = now + QuietDelay] /\ Quiet
    <3>1. entry \in [state : States, attempts : 0..MaxTries, next : Int]
      BY DEF ScheduleInv
    <3>2. ASSUME entry' = [entry EXCEPT !.next = now + QuietDelay]
          PROVE  entry'.state = entry.state /\ entry'.next = now + QuietDelay
      BY <3>1, <3>2
    <3> QED
      BY <2>3, <2>5, <2>7, <3>2
  <2>8. CASE ~Quiet /\ ~TooOld /\ entry'.state \in {"delivered", "permission_denied", "failed_retryable"}
    BY <2>2, <2>5, <2>8
  <2> QED
    BY <1>3, <2>7, <2>8, TurnOfTheEntry DEF Retried
<1> QED
  BY <1>1, <1>2, <1>3

\* An entry is tried no sooner than the schedule says, for as long as it says, and not
\* in quiet hours (process_outbox, quiet_hours_active).
THEOREM ScheduleIsRight == Schedule => ScheduleIsKept
<1>1. InitSchedule => ScheduleInv
  <2> SUFFICES ASSUME InitSchedule PROVE ScheduleInv
    OBVIOUS
  <2>1. entry \in [state : States, attempts : 0..MaxTries, next : Int]
    BY ScheduleAssumption DEF InitSchedule, States
  <2>2. tries \in Seq(Int) /\ Len(tries) = 0
    BY EmptySeq DEF InitSchedule
  <2> QED
    BY ScheduleAssumption, <2>1, <2>2 DEF InitSchedule, ScheduleInv, Open
<1>2. ScheduleInv => RetriesKeepTheirDistance
  <2> SUFFICES ASSUME ScheduleInv PROVE RetriesKeepTheirDistance
    OBVIOUS
  <2>1. ASSUME NEW i \in 2..Len(tries)
        PROVE  tries[i] - tries[i - 1] >=
                 RetryDelays[IF i - 1 < Len(RetryDelays) THEN i - 1 ELSE Len(RetryDelays)]
    <3>1. tries[i] - tries[i - 1] >= RetryDelay(i - 2)
      BY DEF ScheduleInv
    <3>2. Len(RetryDelays) \in Nat /\ i \in Int
      BY LenProperties
    <3>3. RetryDelay(i - 2) = RetryDelays[IF i - 1 < Len(RetryDelays) THEN i - 1 ELSE Len(RetryDelays)]
      <4>1. i - 2 + 1 = i - 1
        BY <3>2
      <4>2. CASE i - 2 < Len(RetryDelays) /\ i - 1 < Len(RetryDelays)
        BY <4>1, <4>2 DEF RetryDelay
      <4>3. CASE i - 2 < Len(RetryDelays) /\ ~(i - 1 < Len(RetryDelays))
        BY <3>2, <4>1, <4>3 DEF RetryDelay
      <4>4. CASE ~(i - 2 < Len(RetryDelays))
        BY <3>2, <4>4 DEF RetryDelay
      <4> QED
        BY <4>2, <4>3, <4>4
    <3> QED
      BY <3>1, <3>3, Zenon
  <2>2. Len(tries) <= MaxTries
    BY DEF ScheduleInv
  <2> QED
    BY <2>1, <2>2 DEF RetriesKeepTheirDistance
<1> QED
  BY <1>1, <1>2, StepKeeps, StepIsTimely, PTL
     DEF Schedule, ScheduleIsKept, AgeIsMeasuredHere, QuietHoursAreSilent

-------------------------------------------------------------------------------
(* HookCommand: a run of the hook *)

\* Where a run is, and what it knows there.
HookRunInd ==
  /\ call \in Calls1
  /\ stage \in {"start", "understood", "asked", "done"}
  /\ stage \in {"start", "understood", "asked"} =>
       recorded = NoDraft /\ printed = "none" /\ exitCode = 0 /\ ~spoolFailed
  /\ stage \in {"understood", "asked"} =>
       /\ ApprovalRequest # "error" /\ ParsedEvent # Broken
       /\ asks = (ApprovalRequest = "request")
  /\ stage = "understood" => draft = ParsedEvent
  /\ stage = "asked" =>
       /\ draft = [kind |-> ParsedEvent.kind, presented |-> heard.presented]
       /\ heard \in Presentable /\ (~asks => heard = Unheard)
  /\ HookIsHonest

\* What the payload decides does not depend on where the run is.
LEMMA SameCall ==
  ASSUME call' = call
  PROVE  /\ ApprovalRequest' = ApprovalRequest /\ ParsedEvent' = ParsedEvent
         /\ Understood' = Understood
BY DEF ApprovalRequest, ParsedEvent, FirstPartyEvent, GenericEvent, Broken, FirstParty, Understood

\* Who asks for an approval has a question to record, and what is understood is an event.
LEMMA EventsOfCalls ==
  ASSUME call \in Calls1
  PROVE  /\ ParsedEvent = [kind |-> ParsedEvent.kind, presented |-> FALSE]
         /\ ParsedEvent # Broken => ParsedEvent.kind \in {"question", "completed"}
         /\ ApprovalRequest = "request" /\ ParsedEvent # Broken => ParsedEvent.kind = "question"
         /\ Understood => /\ ParsedEvent # Broken
                          /\ ParsedEvent.kind = IF call.event = "PermissionRequest" THEN "question"
                                                ELSE "completed"
<1>1. CASE FirstParty
  <2>1. ParsedEvent = FirstPartyEvent
    BY <1>1 DEF ParsedEvent
  <2>2. \/ FirstPartyEvent = Broken /\ ~Understood
        \/ FirstPartyEvent = [kind |-> IF call.event = "PermissionRequest" THEN "question"
                                       ELSE "completed", presented |-> FALSE]
    BY <1>1 DEF FirstPartyEvent, Understood, Calls1
  <2>3. ApprovalRequest = "request" => call.event = "PermissionRequest"
    BY DEF ApprovalRequest
  <2> QED
    BY <2>1, <2>2, <2>3 DEF Broken
<1>2. CASE ~FirstParty
  <2>1. ParsedEvent = GenericEvent /\ ~Understood /\ ApprovalRequest # "request"
    BY <1>2 DEF ParsedEvent, Understood, ApprovalRequest
  <2> QED
    BY <2>1 DEF GenericEvent, Broken
<1> QED
  BY <1>1, <1>2

\* One stage of the run after the other.
LEMMA HookStepKeeps == HookRunInd /\ [NextHookRun]_hookRunVars => HookRunInd'
<1> SUFFICES ASSUME HookRunInd, [NextHookRun]_hookRunVars PROVE HookRunInd'
  OBVIOUS
<1>1. call \in Calls1 /\ HookIsHonest
  BY DEF HookRunInd
<1>2. CASE UNCHANGED hookRunVars
  BY <1>2, SameCall DEF hookRunVars, HookRunInd, HookIsHonest
<1>3. CASE Understand
  <2>1. /\ stage = "start" /\ call' = call /\ recorded = NoDraft /\ printed = "none" /\ exitCode = 0
        /\ ~spoolFailed /\ UNCHANGED <<heard, recorded, spoolFailed, printed>>
    BY <1>3 DEF Understand, HookRunInd
  <2>2. CASE ApprovalRequest = "error" \/ ParsedEvent = Broken
    <3>1. stage' = "done" /\ (exitCode' # 0 => call.strict)
      BY <1>3, <2>2 DEF Understand, Fails
    <3>2. ~(Understood /\ ApprovalRequest # "error")
      BY <1>1, <2>2, EventsOfCalls
    <3>3. HookIsHonest'
      BY <2>1, <3>1, <3>2, SameCall DEF HookIsHonest, NoDraft
    <3> QED
      BY <1>1, <2>1, <3>1, <3>3 DEF HookRunInd
  <2>3. CASE ~(ApprovalRequest = "error" \/ ParsedEvent = Broken)
    <3>1. /\ stage' = "understood" /\ asks' = (ApprovalRequest = "request") /\ draft' = ParsedEvent
          /\ exitCode' = exitCode
      BY <1>3, <2>3 DEF Understand
    <3> QED
      BY <1>1, <2>1, <2>3, <3>1, SameCall DEF HookRunInd, HookIsHonest
  <2> QED
    BY <2>2, <2>3
<1>4. CASE Ask
  <2>1. /\ stage = "understood" /\ stage' = "asked"
        /\ UNCHANGED <<call, asks, recorded, spoolFailed, printed, exitCode>>
        /\ draft = ParsedEvent /\ draft' = [draft EXCEPT !.presented = heard'.presented]
        /\ heard' \in IF asks THEN Presentable ELSE {Unheard}
    BY <1>4 DEF Ask, HookRunInd
  <2>2. Unheard \in Presentable
    BY DEF Unheard, Presentable
  <2>3. draft' = [kind |-> ParsedEvent.kind, presented |-> heard'.presented]
    BY <1>1, <2>1, EventsOfCalls
  <2>4. heard' \in Presentable /\ (~asks => heard' = Unheard)
    BY <2>1, <2>2
  <2> QED
    BY <1>1, <2>1, <2>3, <2>4, SameCall DEF HookRunInd, HookIsHonest
<1>5. CASE Record
  <2>1. /\ stage = "asked" /\ stage' = "done" /\ UNCHANGED <<call, asks, draft, heard>>
        /\ recorded = NoDraft /\ printed = "none" /\ exitCode = 0
        /\ ApprovalRequest # "error" /\ ParsedEvent # Broken /\ asks = (ApprovalRequest = "request")
        /\ draft = [kind |-> ParsedEvent.kind, presented |-> heard.presented]
        /\ heard \in Presentable /\ (~asks => heard = Unheard)
    BY <1>5 DEF Record, Fails, HookRunInd
  <2>2. CASE spoolFailed' \/ ~Valid
    <3>1. recorded' = NoDraft /\ printed' = "none" /\ (exitCode' # 0 => call.strict)
      BY <1>5, <2>1, <2>2 DEF Record, Fails
    <3>2. ~(Understood /\ ~spoolFailed')
      BY <2>2 DEF Understood, Valid
    <3> QED
      BY <1>1, <2>1, <3>1, <3>2, SameCall DEF HookRunInd, HookIsHonest, NoDraft
  <2>3. CASE ~(spoolFailed' \/ ~Valid)
    <3>1. recorded' = draft /\ printed' = heard.decision /\ exitCode' = exitCode
      BY <1>5, <2>3 DEF Record
    <3>2. heard.decision # "none" => heard.presented /\ ParsedEvent.kind = "question"
      <4>1. heard.decision # "none" => heard.presented /\ asks
        <5>1. Unheard.decision = "none"
          BY DEF Unheard
        <5>2. \/ heard \in [presented : BOOLEAN, decision : {"none"}]
              \/ heard \in [presented : {TRUE}, decision : {"allow", "deny"}]
          BY <2>1 DEF Presentable
        <5>3. heard.decision = "none" \/ heard.presented = TRUE
          BY <5>2
        <5> QED
          BY <2>1, <5>1, <5>3
      <4> QED
        BY <1>1, <2>1, <4>1, EventsOfCalls
    <3>3. draft.presented = heard.presented /\ draft.kind = ParsedEvent.kind
      BY <2>1
    <3>4. Understood => ParsedEvent.kind = IF call.event = "PermissionRequest" THEN "question"
                                           ELSE "completed"
      BY <1>1, EventsOfCalls
    <3>5. HookIsHonest'
      BY <2>1, <3>1, <3>2, <3>3, <3>4, SameCall DEF HookIsHonest
    <3> QED
      BY <1>1, <2>1, <3>5 DEF HookRunInd
  <2> QED
    BY <2>2, <2>3
<1> QED
  BY <1>2, <1>3, <1>4, <1>5 DEF NextHookRun

\* What a hook prints, records and exits with follows from what it was given and heard
\* (ingest_hook, run_hook_command).
THEOREM HooksAreHonest == HookRun => []HookIsHonest
<1>1. InitHookRun => HookRunInd
  BY DEF InitHookRun, HookRunInd, HookIsHonest
<1>2. HookRunInd => HookIsHonest
  BY DEF HookRunInd
<1> QED
  BY <1>1, <1>2, HookStepKeeps, PTL DEF HookRun

-------------------------------------------------------------------------------
(* StoreOpening: the opening and the upgrading of a database *)

Content ==
  [events : SUBSET Known, tombstones : SUBSET Known, dated : SUBSET Known, gaps : SUBSET Known,
   cursor : 0..LastEvent, checkpoint : 0..LastEvent]

Databases ==
  [version : 0..5, wal : BOOLEAN, identity : Openers \union {Nameless, "earlier"}, content : Content]

\* What the migrations make of the content that was there at first.
NewContent ==
  IF which = "store" /\ before.version # 4 THEN Migrated(4, before.content) ELSE before.content

\* The database is what it was, or what the migrations make of it.
Whole ==
  \/ /\ database.version = before.version
     /\ database.content = before.content
  \/ /\ before.version <= Latest /\ database.version = Latest
     /\ database.content = NewContent

OpeningPlaces == {"start", "checked", "configured", "exclusive", "opened", "too new", "busy", "gave up"}

\* What an opener has seen to is seen to for good.
Prepares(o) ==
  /\ at[o] \in {"configured", "exclusive", "opened"} => database.wal
  /\ at[o] = "too new" => before.version > Latest
  /\ at[o] = "opened" =>
       /\ database.version = Latest /\ has[o] = database.identity
       /\ which = "spool" => database.identity # Nameless

OpeningInd ==
  /\ which \in {"spool", "store"}
  /\ before \in Databases /\ database \in Databases
  /\ at \in [Openers -> OpeningPlaces] /\ DOMAIN has = Openers
  /\ Whole
  /\ \A o \in Openers : Prepares(o)

\* A set of sequences has a last one.
LEMMA LastExists ==
  ASSUME NEW S \in SUBSET (0..LastEvent), S # {}, LastEvent \in Nat
  PROVE  \E n \in S : \A k \in S : k <= n
<1> DEFINE R == OpToRel(<, Nat)
           Above == {LastEvent - n : n \in S}
<1>1. IsWellFoundedOn(R, Nat)
  BY NatLessThanWellFounded
<1>2. \A x, y \in Nat : x < y => <<x, y>> \in R
  BY DEF OpToRel
<1>3. Above \subseteq Nat /\ Above # {}
  <2>1. \A n \in S : LastEvent - n \in Nat
    OBVIOUS
  <2> QED
    BY <2>1
<1> HIDE DEF R
<1>4. PICK x \in Above : \A y \in Above : ~ (<<y, x>> \in R)
  <2> HIDE DEF Above
  <2> QED
    BY <1>1, <1>3, WFMin
<1>5. PICK n \in S : x = LastEvent - n
  BY <1>4
<1>6. ASSUME NEW k \in S PROVE k <= n
  <2>1. LastEvent - k \in Above /\ LastEvent - k \in Nat /\ x \in Nat
    BY <1>3
  <2>2. ~(LastEvent - k < x)
    BY <1>2, <1>4, <2>1
  <2>3. k \in 0..LastEvent /\ n \in 0..LastEvent
    OBVIOUS
  <2> QED
    BY <1>5, <2>2, <2>3
<1> QED
  BY <1>6

\* The migrations one after the other are the fourth one, of a store that did not
\* have it, and nothing of a spool.
LEMMA UpgradedIs ==
  ASSUME which \in {"spool", "store"}, NEW content, NEW version \in 0..Latest
  PROVE  Upgraded(content, version) =
           IF which = "store" /\ version # 4 THEN Migrated(4, content) ELSE content
<1> DEFINE Unfold(f) == [v \in version..Latest |-> IF v = version THEN content ELSE Migrated(v, f[v - 1])]
           found == [v \in version..Latest |->
                       IF v = version \/ v # 4 THEN content ELSE Migrated(4, content)]
           step == CHOOSE f : f = Unfold(f)
<1>1. /\ which = "spool" => Latest = 1
      /\ which = "store" => Latest = 4
  BY DEF Latest
<1>2. found = Unfold(found)
  <2>1. ASSUME NEW v \in version..Latest
        PROVE  found[v] = IF v = version THEN content ELSE Migrated(v, found[v - 1])
    <3>1. CASE v = version
      BY <3>1
    <3>2. CASE v # version
      <4>1. v - 1 \in version..Latest /\ v - 1 # 4
        BY <1>1, <3>2
      <4>2. found[v - 1] = content
        BY <4>1
      <4>3. v # 4 => Migrated(v, content) = content
        BY DEF Migrated
      <4> QED
        BY <3>2, <4>2, <4>3
    <3> QED
      BY <3>1, <3>2
  <2> QED
    BY <2>1
<1>3. step = Unfold(step)
  BY <1>2
<1>4. Upgraded(content, version) = step[Latest]
  BY DEF Upgraded
<1> HIDE DEF step
<1>5. \A v \in version..Latest : step[v] = IF v = version THEN content ELSE Migrated(v, step[v - 1])
  BY <1>3
<1>6. \A v, c : v # 4 => Migrated(v, c) = c
  BY DEF Migrated
<1>7. step[version] = content
  BY <1>1, <1>5
<1>8. \A v \in version..Latest : v # version /\ v # 4 => step[v] = step[v - 1]
  BY <1>5, <1>6
<1>9. CASE which = "spool"
  BY <1>1, <1>4, <1>7, <1>8, <1>9
<1>10. CASE which = "store" /\ version = 4
  BY <1>1, <1>4, <1>7, <1>10
<1>11. CASE which = "store" /\ version # 4
  <2>1. version \in {0, 1, 2, 3} /\ Latest = 4
    BY <1>1, <1>11
  <2>2. version \in {0, 1} => step[1] = content
    BY <1>7, <1>8, <2>1
  <2>3. version \in {0, 1, 2} => step[2] = content
    BY <1>7, <1>8, <2>1, <2>2
  <2>4. step[3] = content
    BY <1>7, <1>8, <2>1, <2>3
  <2>5. step[4] = Migrated(4, step[3])
    BY <1>5, <2>1
  <2> QED
    BY <1>4, <1>11, <2>1, <2>4, <2>5
<1> QED
  BY <1>9, <1>10, <1>11

\* The fourth migration finds the last of the sequences, and nothing is lost.
LEMMA MigratedIs ==
  ASSUME NEW content \in Content, LastEvent \in Nat
  PROVE  LET new == Migrated(4, content)
         IN  /\ new \in Content
             /\ new.events = content.events /\ new.tombstones = content.tombstones
             /\ new.dated = content.tombstones
             /\ \A n \in content.events \union content.tombstones \union content.gaps
                           \union {content.cursor} :
                  n <= new.checkpoint
<1> DEFINE known == content.events \union content.tombstones \union content.gaps \union {content.cursor}
           last == CHOOSE n \in known : \A k \in known : k <= n
<1>1. known \subseteq 0..LastEvent /\ known # {}
  BY DEF Content, Known
<1>2. last \in known /\ \A k \in known : k <= last
  <2> HIDE DEF known
  <2> QED
    BY <1>1, LastExists
<1>3. Migrated(4, content) = [content EXCEPT !.dated = content.tombstones, !.checkpoint = last]
  BY DEF Migrated
<1>4. last \in 0..LastEvent
  BY <1>1, <1>2
<1> HIDE DEF known, last
<1>5. Migrated(4, content) \in Content
  BY <1>3, <1>4 DEF Content
<1>6. LET new == Migrated(4, content)
      IN  /\ new.events = content.events /\ new.tombstones = content.tombstones
          /\ new.dated = content.tombstones /\ new.checkpoint = last
  BY <1>3 DEF Content
<1> QED
  BY <1>2, <1>5, <1>6 DEF known

\* What the migrations make is the content of a database.
LEMMA UpgradedIsContent ==
  ASSUME which \in {"spool", "store"}, NEW content \in Content, NEW version \in 0..Latest, LastEvent \in Nat
  PROVE  Upgraded(content, version) \in Content
BY UpgradedIs, MigratedIs

\* Whatever file there is at first is a database.
LEMMA FilesAreDatabases ==
  ASSUME OpeningAssumption, which \in {"spool", "store"}, NEW f \in Files
  PROVE  f \in Databases
<1>1. Empty \in Content
  BY DEF OpeningAssumption, Empty, Content
<1>2. LastEvent \in 0..LastEvent
  BY DEF OpeningAssumption
<1>3. ASSUME NEW v \in 1..5, NEW c \in OldContents(v) PROVE c \in Content
  <2>1. v # 0
    OBVIOUS
  <2>2. CASE v \in 1..3
    <3> DEFINE T == SUBSET (IF v = 3 THEN Known ELSE {})
    <3>1. PICK e \in SUBSET Known, t \in T, g \in SUBSET Known, n \in 0..LastEvent :
            c = [events |-> e, tombstones |-> t, dated |-> {}, gaps |-> g, cursor |-> n, checkpoint |-> 0]
      BY <1>3, <2>2 DEF OldContents
    <3>2. t \in SUBSET Known /\ {} \in SUBSET Known /\ 0 \in 0..LastEvent
      BY <1>2
    <3> QED
      BY <3>1, <3>2 DEF Content
  <2>3. CASE v \notin 1..3
    <3>1. PICK e \in SUBSET Known :
            c = [events |-> e, tombstones |-> {}, dated |-> {}, gaps |-> {},
                 cursor |-> LastEvent, checkpoint |-> LastEvent]
      BY <1>3, <2>3 DEF OldContents
    <3> QED
      BY <1>2, <3>1 DEF Content
  <2> QED
    BY <2>2, <2>3
<1>4. CASE f = [version |-> 0, wal |-> FALSE, identity |-> Nameless, content |-> Empty]
  BY <1>1, <1>4 DEF Databases, Latest
<1>5. ASSUME which = "spool",
             NEW w \in BOOLEAN, f = [version |-> 2, wal |-> w, identity |-> "earlier", content |-> Empty]
      PROVE  f \in Databases
  BY <1>1, <1>5 DEF Databases, Latest
<1>6. ASSUME which = "store", NEW v \in 1..5, NEW c \in OldContents(v),
             f = [version |-> v, wal |-> TRUE, identity |-> Nameless, content |-> c]
      PROVE  f \in Databases
  BY <1>3, <1>6 DEF Databases
<1>7. \/ f = [version |-> 0, wal |-> FALSE, identity |-> Nameless, content |-> Empty]
      \/ which = "spool" /\ \E w \in BOOLEAN :
            f = [version |-> 2, wal |-> w, identity |-> "earlier", content |-> Empty]
      \/ which = "store" /\ \E v \in 1..5 : \E c \in OldContents(v) :
            f = [version |-> v, wal |-> TRUE, identity |-> Nameless, content |-> c]
  BY DEF Files
<1> QED
  BY <1>4, <1>5, <1>6, <1>7

\* What is too new is not what the migrations made.
LEMMA NewerStays ==
  ASSUME OpeningInd
  PROVE  database.version > Latest => before.version > Latest
<1>1. Latest \in {1, 4}
  BY DEF OpeningInd, Latest
<1>2. database.version \in 0..5 /\ (database.version = Latest \/ database.version = before.version)
  BY DEF OpeningInd, Databases, Whole
<1> QED
  BY <1>1, <1>2

\* What an opener does outside of its transaction changes no content.
LEMMA OpenerKeeps ==
  ASSUME OpeningAssumption, OpeningInd, NEW o \in Openers,
         CheckNewer(o) \/ SetWal(o) \/ BeginExclusive(o) \/ Busy(o) \/ OpenerDies(o)
  PROVE  OpeningInd'
<1>1. /\ which' = which /\ before' = before
      /\ which \in {"spool", "store"} /\ before \in Databases /\ database \in Databases
      /\ at \in [Openers -> OpeningPlaces] /\ DOMAIN has = Openers /\ Whole
      /\ \A p \in Openers : Prepares(p)
  BY DEF CheckNewer, SetWal, BeginExclusive, Busy, OpenerDies, OpeningInd
<1>2. /\ database' \in Databases
      /\ database'.version = database.version /\ database'.content = database.content
      /\ database'.identity = database.identity /\ (database.wal => database'.wal)
  <2>1. CASE database' = [database EXCEPT !.wal = TRUE]
    BY <1>1, <2>1 DEF Databases
  <2>2. CASE database' = database
    BY <1>1, <2>2
  <2> QED
    BY <2>1, <2>2 DEF CheckNewer, SetWal, BeginExclusive, Busy, OpenerDies
<1>3. PICK place \in {"too new", "checked", "configured", "busy", "exclusive", "start", "gave up"} :
        /\ at' = [at EXCEPT ![o] = place]
        /\ place \in {"configured", "exclusive"} => database'.wal
        /\ place = "too new" => which = "spool" /\ database.version > Latest
  <2>1. CASE CheckNewer(o)
    BY <2>1 DEF CheckNewer, GoesTo
  <2>2. CASE SetWal(o)
    <3>1. CASE database' = [database EXCEPT !.wal = TRUE] /\ GoesTo(o, "configured")
      BY <1>1, <3>1 DEF GoesTo, Databases
    <3>2. CASE GoesTo(o, "busy")
      BY <3>2 DEF GoesTo
    <3> QED
      BY <2>2, <3>1, <3>2 DEF SetWal
  <2>3. CASE BeginExclusive(o)
    BY <1>1, <1>2, <2>3 DEF BeginExclusive, GoesTo, Prepares
  <2>4. CASE Busy(o)
    BY <2>4 DEF Busy, GoesTo
  <2>5. CASE OpenerDies(o)
    BY <2>5 DEF OpenerDies, GoesTo
  <2> QED
    BY <2>1, <2>2, <2>3, <2>4, <2>5
<1>4. /\ Latest' = Latest /\ Latest \in {1, 4}
      /\ NewContent' = NewContent
  BY <1>1 DEF Latest, NewContent
<1>5. Whole'
  BY <1>1, <1>2, <1>4 DEF Whole
<1>6. at' \in [Openers -> OpeningPlaces] /\ DOMAIN has' = Openers
  BY <1>1, <1>3 DEF CheckNewer, SetWal, BeginExclusive, Busy, OpenerDies, OpeningPlaces
<1>7. Prepares(o)'
  <2>1. at'[o] = place
    BY <1>1, <1>3
  <2>2. database.version > Latest => before.version > Latest
    BY NewerStays
  <2> QED
    BY <1>1, <1>2, <1>3, <1>4, <2>1, <2>2 DEF Prepares
<1>8. ASSUME NEW p \in Openers, p # o PROVE Prepares(p)'
  <2>1. at'[p] = at[p] /\ has'[p] = has[p]
    BY <1>1, <1>3, <1>8 DEF CheckNewer, SetWal, BeginExclusive, Busy, OpenerDies
  <2> QED
    BY <1>1, <1>2, <1>4, <2>1 DEF Prepares
<1> QED
  BY <1>1, <1>2, <1>5, <1>6, <1>7, <1>8 DEF OpeningInd

\* The transaction takes the version that is in the file.
LEMMA TransactKeeps ==
  ASSUME OpeningAssumption, OpeningInd, NEW o \in Openers, Transact(o)
  PROVE  OpeningInd'
<1>1. /\ which' = which /\ before' = before
      /\ which \in {"spool", "store"} /\ before \in Databases /\ database \in Databases
      /\ at \in [Openers -> OpeningPlaces] /\ DOMAIN has = Openers /\ Whole
      /\ \A p \in Openers : Prepares(p)
      /\ at[o] = "exclusive" /\ LastEvent \in Nat
  BY DEF Transact, OpeningInd, OpeningAssumption
<1>2. /\ Latest' = Latest /\ Latest \in {1, 4}
      /\ NewContent' = NewContent
  BY <1>1 DEF Latest, NewContent
<1>3. database.wal /\ database.version \in 0..5 /\ before.version \in 0..5
  BY <1>1 DEF Prepares, Databases
<1>4. CASE database.version > Latest
  <2>1. database' = database /\ has' = has /\ at' = [at EXCEPT ![o] = "too new"]
    BY <1>4 DEF Transact, GoesTo
  <2>2. before.version > Latest
    BY <1>1, <1>2, <1>3, <1>4 DEF Whole
  <2>3. \A p \in Openers : Prepares(p)'
    <3> SUFFICES ASSUME NEW p \in Openers PROVE Prepares(p)'
      OBVIOUS
    <3>1. CASE p = o
      BY <1>1, <1>2, <2>1, <2>2, <3>1 DEF Prepares
    <3>2. CASE p # o
      BY <1>1, <1>2, <2>1, <3>2 DEF Prepares
    <3> QED
      BY <3>1, <3>2
  <2>4. Whole'
    BY <1>1, <1>2, <2>1 DEF Whole
  <2>5. at' \in [Openers -> OpeningPlaces] /\ DOMAIN has' = Openers
    BY <1>1, <2>1 DEF OpeningPlaces
  <2> QED
    BY <1>1, <2>1, <2>3, <2>4, <2>5 DEF OpeningInd
<1>5. CASE ~(database.version > Latest)
  <2> DEFINE content == Upgraded(database.content, database.version)
  <2>1. /\ database' = [version |-> Latest, wal |-> database.wal,
                        identity |-> Identity(o), content |-> content]
        /\ has' = [has EXCEPT ![o] = Identity(o)] /\ at' = [at EXCEPT ![o] = "opened"]
    BY <1>5 DEF Transact, GoesTo
  <2>2. database.version \in 0..Latest /\ database.content \in Content
    BY <1>1, <1>2, <1>3, <1>5 DEF Databases
  <2>3. content \in Content
    BY <1>1, <2>2, UpgradedIsContent
  <2>4. content = NewContent /\ before.version <= Latest
    <3>1. content = IF which = "store" /\ database.version # 4 THEN Migrated(4, database.content)
                    ELSE database.content
      BY <1>1, <2>2, UpgradedIs
    <3>2. CASE database.version = before.version /\ database.content = before.content
      BY <1>2, <1>3, <1>5, <3>1, <3>2 DEF NewContent
    <3>3. CASE /\ before.version <= Latest /\ database.version = Latest
               /\ database.content = NewContent
      BY <3>1, <3>3 DEF Latest
    <3> QED
      BY <1>1, <3>2, <3>3 DEF Whole
  <2>5. /\ Identity(o) \in Openers \union {Nameless, "earlier"}
        /\ which = "spool" => Identity(o) # Nameless
        /\ which = "store" \/ database.identity # Nameless => Identity(o) = database.identity
    BY <1>1 DEF Identity, OpeningAssumption, Databases
  <2> HIDE DEF content
  <2>6. /\ database' \in Databases /\ database'.version = Latest /\ database'.wal
        /\ database'.identity = Identity(o) /\ database'.content = content
    <3>2. Latest \in 0..5 /\ database.wal \in BOOLEAN
      BY <1>1, <1>2 DEF Databases
    <3> QED
      BY <1>3, <2>1, <2>3, <2>5, <3>2 DEF Databases
  <2>7. \A p \in Openers : Prepares(p)'
    <3> SUFFICES ASSUME NEW p \in Openers PROVE Prepares(p)'
      OBVIOUS
    <3>1. CASE p = o
      <4>1. at'[p] = "opened" /\ has'[p] = Identity(o)
        BY <1>1, <2>1, <3>1
      <4> QED
        BY <1>1, <1>2, <2>5, <2>6, <4>1 DEF Prepares
    <3>2. CASE p # o
      <4>1. at'[p] = at[p] /\ has'[p] = has[p]
        BY <1>1, <2>1, <3>2
      <4>2. Prepares(p)
        BY <1>1
      <4> QED
        BY <1>1, <1>2, <2>5, <2>6, <4>1, <4>2 DEF Prepares
    <3> QED
      BY <3>1, <3>2
  <2>8. Whole'
    BY <1>1, <1>2, <2>4, <2>6 DEF Whole
  <2>9. at' \in [Openers -> OpeningPlaces] /\ DOMAIN has' = Openers
    BY <1>1, <2>1 DEF OpeningPlaces
  <2> QED
    BY <1>1, <2>6, <2>7, <2>8, <2>9 DEF OpeningInd
<1> QED
  BY <1>4, <1>5

\* Each step of each opener.
LEMMA OpeningStepKeeps ==
  ASSUME OpeningAssumption
  PROVE  OpeningInd /\ [NextOpening]_openingVars => OpeningInd'
<1> SUFFICES ASSUME OpeningInd, [NextOpening]_openingVars PROVE OpeningInd'
  OBVIOUS
<1>1. CASE UNCHANGED openingVars
  BY <1>1 DEF openingVars, OpeningInd, Whole, Prepares, Latest, NewContent
<1> QED
  BY <1>1, OpenerKeeps, TransactKeeps DEF NextOpening

\* The invariant gives what the runs check.
LEMMA WholeIsWhole ==
  ASSUME OpeningAssumption, OpeningInd
  PROVE  OpeningIsWhole
<1>1. /\ which \in {"spool", "store"} /\ before \in Databases /\ database \in Databases
      /\ Whole /\ LastEvent \in Nat /\ before.version \in 0..5 /\ before.content \in Content
      /\ \A p \in Openers : Prepares(p)
      /\ \A p \in Openers : at[p] \in OpeningPlaces
  BY DEF OpeningInd, OpeningAssumption, Databases
<1>2. OpenersAgree
  BY <1>1 DEF OpenersAgree, Prepares, OpeningPlaces
<1>3. ASSUME database.version = before.version, database.content = before.content
      PROVE  UpgradeIsWhole
  BY <1>3 DEF UpgradeIsWhole
<1>4. ASSUME before.version <= Latest, database.version = Latest, database.content = NewContent
      PROVE  UpgradeIsWhole
  <2>1. ~(before.version > Latest)
    BY <1>1, <1>4 DEF Latest
  <2>2. CASE which = "store" /\ before.version # 4
    <3>1. database.content = Migrated(4, before.content)
      BY <1>4, <2>2 DEF NewContent
    <3>2. database.content.checkpoint \in 0..LastEvent
      BY <1>1 DEF Databases, Content
    <3>3. database.content.checkpoint <= LastEvent
      BY <1>1, <3>2
    <3>4. database.version # before.version
      BY <1>4, <2>2 DEF Latest
    <3> QED
      BY <1>1, <1>4, <2>1, <3>1, <3>3, <3>4, MigratedIs DEF UpgradeIsWhole
  <2>3. CASE ~(which = "store" /\ before.version # 4)
    <3>1. database.content = before.content
      BY <1>4, <2>3 DEF NewContent
    <3>2. which = "store" => database.version = before.version
      BY <1>4, <2>3 DEF Latest
    <3> QED
      BY <2>1, <3>1, <3>2 DEF UpgradeIsWhole
  <2> QED
    BY <2>2, <2>3
<1> QED
  BY <1>1, <1>2, <1>3, <1>4 DEF OpeningIsWhole, Whole

\* At first nobody has opened it.
LEMMA OpeningStarts ==
  ASSUME OpeningAssumption
  PROVE  InitOpening => OpeningInd
<1> SUFFICES ASSUME InitOpening PROVE OpeningInd
  OBVIOUS
<1>1. database \in Databases /\ before = database
  BY FilesAreDatabases DEF InitOpening
<1> QED
  BY <1>1 DEF InitOpening, OpeningInd, Whole, Prepares, OpeningPlaces

\* Whoever opens a database at whatever time finds it whole, upgraded or refused
\* (Spool::initialize, DesktopState::initialize).
THEOREM OpeningsAreWhole == Opening => []OpeningIsWhole
<1>1. InitOpening => OpeningInd
  BY OpeningStarts, OpeningAssumption
<1>2. OpeningInd /\ [NextOpening]_openingVars => OpeningInd'
  BY OpeningStepKeeps, OpeningAssumption
<1>3. OpeningInd => OpeningIsWhole
  BY WholeIsWhole, OpeningAssumption
<1> QED
  BY <1>1, <1>2, <1>3, PTL DEF Opening

-------------------------------------------------------------------------------
(* RetentionLoop: the batches of the retention, row by row *)

Row == [sequence : Nat, insertedAt : Int, bytes : Nat]

\* A table: finitely many rows, each with a sequence of its own.
IsTable(es) ==
  /\ es \subseteq Row /\ IsFiniteSet(es)
  /\ \A d, e \in es : d.sequence = e.sequence => d = e

Earlier(es, e) == {d \in es : PrunedBefore(d, e, cutoff)}

\* A row that a batch over es removes, if the batch is long enough.
Falls(es, e) == Expired(e, cutoff) \/ OverLimits(es \ Earlier(es, e))

\* What is gone are the first rows of the table, and all of them fall.
GoneAreFirst ==
  LET gone == table \ rows
  IN  /\ rows \subseteq table
      /\ Cardinality(gone) = deleted
      /\ \A g \in gone, d \in rows : PrunedBefore(g, d, cutoff)
      /\ \A g \in gone : Falls(table, g)

\* The counts are those of the rows that are left.
CountsAreRight == remainingEvents = Cardinality(rows) /\ remainingBytes = PayloadBytes(rows)

PruningInd ==
  /\ cutoff \in Int /\ IsTable(rows) /\ IsTable(table)
  /\ deleted \in 0..BatchSize
  /\ batch = "pruning" => GoneAreFirst /\ CountsAreRight
  /\ batch = "done" => /\ rows = table \ RetentionBatch(table, cutoff)
                       /\ more = MoreRequired(rows, cutoff)

-------------------------------------------------------------------------------
(* The order of the candidates *)

\* It is total and transitive.
LEMMA PrunedInOrder ==
  ASSUME cutoff \in Int, NEW es, IsTable(es)
  PROVE  /\ \A d, e \in es : d = e \/ PrunedBefore(d, e, cutoff) \/ PrunedBefore(e, d, cutoff)
         /\ \A d, e \in es : PrunedBefore(d, e, cutoff) => ~PrunedBefore(e, d, cutoff) /\ d # e
         /\ \A d, e, f \in es :
              PrunedBefore(d, e, cutoff) /\ PrunedBefore(e, f, cutoff) => PrunedBefore(d, f, cutoff)
<1>1. \A e \in es : e.sequence \in Nat /\ e.insertedAt \in Int
  BY DEF IsTable, Row
<1>2. \A d, e \in es : d = e \/ d.sequence < e.sequence \/ e.sequence < d.sequence
  BY <1>1 DEF IsTable
<1> QED
  BY <1>1, <1>2 DEF PrunedBefore, Expired

\* The first of some rows.
LEMMA LeastRow ==
  ASSUME NEW es, es \subseteq Row, es # {}
  PROVE  \E e \in es : \A d \in es : e.sequence <= d.sequence
<1> DEFINE S == {e.sequence : e \in es}
<1>1. S \in SUBSET Nat /\ S # {}
  BY DEF Row
<1>2. PICK n \in S : \A m \in S : <<m, n>> \notin OpToRel(<, Nat)
  BY <1>1, NatLessThanWellFounded, WFMin
<1>3. PICK e \in es : e.sequence = n
  BY <1>2
<1>4. ASSUME NEW d \in es PROVE e.sequence <= d.sequence
  <2>1. d.sequence \in S /\ d.sequence \in Nat /\ n \in Nat
    BY <1>1
  <2>2. ~(d.sequence < n)
    BY <1>2, <2>1 DEF OpToRel
  <2> QED
    BY <1>3, <2>1, <2>2
<1> QED
  BY <1>4

LEMMA FirstIsFirst ==
  ASSUME cutoff \in Int, NEW es, IsTable(es), es # {}
  PROVE  \E e \in es : \A d \in es : d = e \/ PrunedBefore(e, d, cutoff)
<1> DEFINE expired == {e \in es : Expired(e, cutoff)}
<1>1. \A d, e \in es : d = e \/ d.sequence < e.sequence \/ e.sequence < d.sequence
  BY DEF IsTable, Row
<1>2. \A e \in es : e.sequence \in Nat
  BY DEF IsTable, Row
<1>3. CASE expired # {}
  <2>1. PICK e \in expired : \A d \in expired : e.sequence <= d.sequence
    <3>1. expired \subseteq Row
      BY DEF IsTable
    <3> HIDE DEF expired
    <3> QED
      BY <1>3, <3>1, LeastRow
  <2>2. \A d \in es : d = e \/ PrunedBefore(e, d, cutoff)
    BY <1>1, <1>2, <2>1 DEF PrunedBefore
  <2> QED
    BY <2>1, <2>2
<1>4. CASE expired = {}
  <2>1. PICK e \in es : \A d \in es : e.sequence <= d.sequence
    BY LeastRow DEF IsTable
  <2>2. \A d \in es : d = e \/ PrunedBefore(e, d, cutoff)
    BY <1>1, <1>2, <1>4, <2>1 DEF PrunedBefore
  <2> QED
    BY <2>1, <2>2
<1> QED
  BY <1>3, <1>4

-------------------------------------------------------------------------------
(* The limits *)

\* The bytes of finitely many rows are finitely many.
LEMMA BytesAreFinite ==
  ASSUME NEW es, es \subseteq Row, IsFiniteSet(es)
  PROVE  IsFiniteSet(UNION {{e} \X (1..e.bytes) : e \in es})
<1> DEFINE each == [e \in es |-> {e} \X (1..e.bytes)]
           all == {{e} \X (1..e.bytes) : e \in es}
<1>1. each \in Surjection(es, all)
  BY DEF Surjection
<1>2. IsFiniteSet(all)
  <2> HIDE DEF each, all
  <2> QED
    BY <1>1, FS_Surjection
<1>3. ASSUME NEW e \in es PROVE IsFiniteSet({e} \X (1..e.bytes))
  <2>1. e.bytes \in Int
    BY DEF Row
  <2>2. IsFiniteSet(1..e.bytes) /\ IsFiniteSet({e})
    BY <2>1, 1 \in Int, FS_Interval, FS_Singleton
  <2> QED
    BY <2>2, FS_Product
<1>4. \A s \in all : IsFiniteSet(s)
  BY <1>3
<1> HIDE DEF all
<1>5. IsFiniteSet(UNION all)
  BY <1>2, <1>4, FS_UNION
<1> QED
  BY <1>5 DEF all

\* A table over its limits stays so when rows are added.
LEMMA LimitsGrow ==
  ASSUME NEW es, es \subseteq Row, IsFiniteSet(es), NEW fewer \in SUBSET es, OverLimits(fewer)
  PROVE  OverLimits(es)
<1>1. IsFiniteSet(fewer) /\ Cardinality(fewer) <= Cardinality(es)
      /\ Cardinality(fewer) \in Nat /\ Cardinality(es) \in Nat
  BY FS_Subset, FS_CardinalityType
<1> DEFINE Bytes(rs) == UNION {{e} \X (1..e.bytes) : e \in rs}
<1>2. Bytes(fewer) \in SUBSET Bytes(es)
  OBVIOUS
<1>3. IsFiniteSet(Bytes(es))
  BY BytesAreFinite
<1> HIDE DEF Bytes
<1>4. IsFiniteSet(Bytes(fewer)) /\ Cardinality(Bytes(fewer)) <= Cardinality(Bytes(es))
      /\ Cardinality(Bytes(fewer)) \in Nat /\ Cardinality(Bytes(es)) \in Nat
  BY <1>2, <1>3, FS_Subset, FS_CardinalityType
<1>5. PayloadBytes(fewer) = Cardinality(Bytes(fewer)) /\ PayloadBytes(es) = Cardinality(Bytes(es))
  BY DEF PayloadBytes, Bytes
<1> QED
  BY <1>1, <1>4, <1>5, RetentionAssumption DEF OverLimits

\* An empty table is within them.
LEMMA NoneIsWithin == ~OverLimits({})
<1>1. UNION {{e} \X (1..e.bytes) : e \in {}} = {}
  OBVIOUS
<1>2. PayloadBytes({}) = 0 /\ Cardinality({}) = 0
  BY <1>1, FS_EmptySet DEF PayloadBytes
<1> QED
  BY <1>2, RetentionAssumption DEF OverLimits


\* The bytes of a table without one of its rows.
LEMMA BytesWithout ==
  ASSUME NEW es, IsTable(es), NEW e \in es
  PROVE  PayloadBytes(es \ {e}) = PayloadBytes(es) - e.bytes
<1> DEFINE Bytes(rs) == UNION {{d} \X (1..d.bytes) : d \in rs}
           own == {e} \X (1..e.bytes)
           rest == es \ {e}
<1>1. IsFiniteSet(Bytes(es)) /\ IsFiniteSet(Bytes(rest))
  <2>1. es \subseteq Row /\ rest \subseteq Row /\ IsFiniteSet(es) /\ IsFiniteSet(rest)
    BY FS_RemoveElement DEF IsTable
  <2> HIDE DEF rest
  <2> QED
    BY <2>1, BytesAreFinite
<1>2. Bytes(es) \ own = Bytes(rest)
  OBVIOUS
<1>3. Bytes(es) \cap own = own
  OBVIOUS
<1>4. Cardinality(own) = e.bytes
  <2>1. e.bytes \in Nat
    BY DEF IsTable, Row
  <2>2. IsFiniteSet(1..e.bytes) /\ Cardinality(1..e.bytes) = e.bytes
    <3>1. PICK n \in Nat : n = e.bytes
      BY <2>1
    <3>2. IsFiniteSet(1..n) /\ Cardinality(1..n) = IF 1 > n THEN 0 ELSE n - 1 + 1
      BY 1 \in Int, n \in Int, FS_Interval
    <3> QED
      BY <3>1, <3>2
  <2>3. IsFiniteSet({e}) /\ Cardinality({e}) = 1
    BY FS_Singleton
  <2>4. Cardinality(own) = Cardinality({e}) * Cardinality(1..e.bytes)
    BY <2>2, <2>3, FS_Product
  <2> QED
    BY <2>1, <2>2, <2>3, <2>4
<1>5. PayloadBytes(rest) = Cardinality(Bytes(rest)) /\ PayloadBytes(es) = Cardinality(Bytes(es))
  BY DEF PayloadBytes
<1> HIDE DEF Bytes, own
<1>6. Cardinality(Bytes(es) \ own) = Cardinality(Bytes(es)) - Cardinality(Bytes(es) \cap own)
  BY <1>1, FS_Difference
<1> QED
  BY <1>2, <1>3, <1>4, <1>5, <1>6

-------------------------------------------------------------------------------
(* The steps *)

LEMMA PruningBegins == InitTable => PruningInd
<1> SUFFICES ASSUME InitTable PROVE PruningInd
  OBVIOUS
<1>0. PICK S \in SUBSET (1..MaxRows) : \E f \in [S -> [at : Times, size : Sizes]] :
        rows = {[sequence |-> n, insertedAt |-> f[n].at, bytes |-> f[n].size] : n \in S}
  BY DEF InitTable, Tables
<1>1. PICK f \in [S -> [at : Times, size : Sizes]] :
        rows = {[sequence |-> n, insertedAt |-> f[n].at, bytes |-> f[n].size] : n \in S}
  BY <1>0
<1> DEFINE each == [n \in S |-> [sequence |-> n, insertedAt |-> f[n].at, bytes |-> f[n].size]]
<1>2. IsFiniteSet(S)
  <2>1. IsFiniteSet(1..MaxRows)
    BY RowsAssumption, 1 \in Int, MaxRows \in Int, FS_Interval
  <2> QED
    BY <2>1, FS_Subset
<1>3. each \in Surjection(S, rows)
  BY <1>1 DEF Surjection
<1>4. IsFiniteSet(rows)
  <2> HIDE DEF each
  <2> QED
    BY <1>2, <1>3, FS_Surjection
<1>5. ASSUME NEW n \in S PROVE n \in Nat /\ f[n].at \in Int /\ f[n].size \in Nat
  <2>1. n \in 1..MaxRows
    OBVIOUS
  <2>2. n \in Nat
    BY <2>1, RowsAssumption
  <2>3. f[n] \in [at : Times, size : Sizes]
    OBVIOUS
  <2>4. f[n].at \in Times /\ f[n].size \in Sizes
    BY <2>3
  <2> QED
    BY <2>2, <2>4, RetentionAssumption
<1>6. rows \subseteq Row
  BY <1>1, <1>5 DEF Row
<1>7. \A d, e \in rows : d.sequence = e.sequence => d = e
  BY <1>1
<1>8. cutoff \in Int /\ deleted \in 0..BatchSize /\ table = rows /\ batch = "none"
  BY RetentionAssumption DEF InitTable
<1> QED
  BY <1>4, <1>6, <1>7, <1>8 DEF PruningInd, IsTable

LEMMA BatchBegins == PruningInd /\ BeginBatch => PruningInd'
<1> SUFFICES ASSUME PruningInd, BeginBatch PROVE PruningInd'
  OBVIOUS
<1>1. rows' = rows /\ cutoff' = cutoff /\ table' = rows /\ deleted' = 0 /\ batch' = "pruning"
      /\ remainingEvents' = Cardinality(rows) /\ remainingBytes' = PayloadBytes(rows)
  BY DEF BeginBatch
<1>2. cutoff' \in Int /\ IsTable(rows') /\ IsTable(table') /\ deleted' \in 0..BatchSize
  BY <1>1, RetentionAssumption DEF PruningInd, IsTable
<1>3. table' \ rows' = {}
  BY <1>1
<1>4. GoneAreFirst'
  BY <1>1, <1>3, FS_EmptySet DEF GoneAreFirst
<1>5. CountsAreRight'
  BY <1>1 DEF CountsAreRight, PayloadBytes
<1> QED
  BY <1>1, <1>2, <1>4, <1>5 DEF PruningInd

\* The candidate is the first of all the rows.
LEMMA CandidateIsFirst ==
  ASSUME cutoff \in Int, IsTable(rows), Candidates # {}
  PROVE  /\ First(Candidates) \in Candidates
         /\ \A d \in rows : d = First(Candidates) \/ PrunedBefore(First(Candidates), d, cutoff)
<1> DEFINE g == First(Candidates)
<1>1. Candidates \subseteq rows
  BY DEF Candidates
<1>2. IsTable(Candidates)
  BY <1>1, FS_Subset DEF IsTable
<1>3. \E e \in Candidates : \A d \in Candidates : d = e \/ PrunedBefore(e, d, cutoff)
  <2> HIDE DEF g
  <2>1. PICK cs : cs = Candidates
    OBVIOUS
  <2>2. \E e \in cs : \A d \in cs : d = e \/ PrunedBefore(e, d, cutoff)
    BY <1>2, <2>1, FirstIsFirst
  <2> QED
    BY <2>1, <2>2
<1>4. g \in Candidates /\ \A d \in Candidates : d = g \/ PrunedBefore(g, d, cutoff)
  BY <1>3 DEF First
<1>5. ASSUME NEW d \in rows PROVE d = g \/ PrunedBefore(g, d, cutoff)
  <2>1. CASE d \in Candidates
    BY <1>4, <2>1
  <2>2. CASE d \notin Candidates
    <3>1. ~Expired(d, cutoff) /\ ~CountedOver
      BY <2>2 DEF Candidates
    <3>2. Expired(g, cutoff)
      BY <1>4, <3>1 DEF Candidates
    <3> QED
      BY <3>1, <3>2 DEF PrunedBefore
  <2> QED
    BY <2>1, <2>2
<1> QED
  BY <1>4, <1>5


LEMMA CandidateFalls == PruningInd /\ DeleteCandidate => PruningInd'
<1> SUFFICES ASSUME PruningInd, DeleteCandidate PROVE PruningInd'
  OBVIOUS
<1> DEFINE g == First(Candidates)
           gone == table \ rows
<1>1. rows' = rows \ {g} /\ cutoff' = cutoff /\ table' = table /\ deleted' = deleted + 1
      /\ batch' = "pruning" /\ deleted < BatchSize /\ Candidates # {}
      /\ remainingEvents' = remainingEvents - 1 /\ remainingBytes' = remainingBytes - g.bytes
  BY DEF DeleteCandidate
<1>2. cutoff \in Int /\ IsTable(rows) /\ IsTable(table) /\ deleted \in 0..BatchSize
      /\ GoneAreFirst /\ CountsAreRight
  BY DEF PruningInd, DeleteCandidate
<1>3. g \in Candidates /\ \A d \in rows : d = g \/ PrunedBefore(g, d, cutoff)
  BY <1>1, <1>2, CandidateIsFirst
<1>4. g \in rows
  BY <1>3 DEF Candidates
<1> HIDE DEF g
<1>5. IsTable(rows') /\ IsTable(table')
  BY <1>1, <1>2, FS_RemoveElement DEF IsTable
<1>6. deleted' \in 0..BatchSize
  BY <1>1, <1>2, RetentionAssumption
<1>7. table' \ rows' = gone \union {g} /\ rows \subseteq table /\ g \notin gone
  BY <1>1, <1>2, <1>4 DEF GoneAreFirst
<1>8. Cardinality(table' \ rows') = deleted'
  <2>1. IsFiniteSet(gone)
    BY <1>2, FS_Difference DEF IsTable
  <2>2. Cardinality(gone \union {g}) = Cardinality(gone) + 1
    BY <1>7, <2>1, FS_AddElement
  <2> QED
    BY <1>1, <1>2, <1>7, <2>2 DEF GoneAreFirst
<1>9. \A f \in table' \ rows', d \in rows' : PrunedBefore(f, d, cutoff')
  BY <1>1, <1>2, <1>3, <1>7 DEF GoneAreFirst
<1>10. Earlier(table, g) = gone
  <2>1. \A d \in rows : ~PrunedBefore(d, g, cutoff)
    BY <1>2, <1>3, <1>4, PrunedInOrder
  <2>2. \A d \in gone : PrunedBefore(d, g, cutoff)
    BY <1>2, <1>4 DEF GoneAreFirst
  <2> QED
    BY <2>1, <2>2 DEF Earlier
<1>11. Falls(table, g)
  <2>1. CASE Expired(g, cutoff)
    BY <2>1 DEF Falls
  <2>2. CASE ~Expired(g, cutoff)
    <3>1. CountedOver
      BY <1>3, <2>2 DEF Candidates
    <3>2. OverLimits(rows)
      BY <1>2, <3>1 DEF CountedOver, CountsAreRight, OverLimits
    <3>3. table \ Earlier(table, g) = rows
      BY <1>7, <1>10
    <3> QED
      BY <3>2, <3>3 DEF Falls
  <2> QED
    BY <2>1, <2>2
<1>12. \A f \in table' \ rows' : Falls(table, f)
  BY <1>2, <1>7, <1>11 DEF GoneAreFirst
<1>13. \A f : Falls(table, f)' <=> Falls(table, f)
  BY <1>1 DEF Falls, Earlier
<1>14. GoneAreFirst'
  BY <1>1, <1>7, <1>8, <1>9, <1>12, <1>13 DEF GoneAreFirst
<1>15. CountsAreRight'
  <2>1. Cardinality(rows') = Cardinality(rows) - 1
    BY <1>1, <1>2, <1>4, FS_RemoveElement DEF IsTable
  <2>2. PayloadBytes(rows') = PayloadBytes(rows) - g.bytes
    BY <1>1, <1>2, <1>4, BytesWithout
  <2> QED
    BY <1>1, <1>2, <2>1, <2>2 DEF CountsAreRight
<1> QED
  BY <1>1, <1>2, <1>5, <1>6, <1>14, <1>15 DEF PruningInd

\* What is gone when the loop ends is what a batch removes.
LEMMA GoneIsBatch ==
  ASSUME PruningInd, EndBatch
  PROVE  rows = table \ RetentionBatch(table, cutoff)
<1> DEFINE gone == table \ rows
<1>1. cutoff \in Int /\ IsTable(rows) /\ IsTable(table) /\ deleted \in 0..BatchSize
      /\ GoneAreFirst /\ CountsAreRight
  BY DEF PruningInd, EndBatch
<1>2. rows \subseteq table /\ Cardinality(gone) = deleted
      /\ (\A g \in gone, d \in rows : PrunedBefore(g, d, cutoff))
      /\ \A g \in gone : Falls(table, g)
  BY <1>1 DEF GoneAreFirst
<1>3. IsFiniteSet(gone) /\ \A e : IsFiniteSet(Earlier(table, e))
  <2>1. \A e : Earlier(table, e) \in SUBSET table
    BY DEF Earlier
  <2> QED
    BY <1>1, <2>1, FS_Subset, FS_Difference DEF IsTable
<1>4. ASSUME NEW e PROVE e \in RetentionBatch(table, cutoff) <=>
        e \in table /\ Cardinality(Earlier(table, e)) < BatchSize /\ Falls(table, e)
  BY DEF RetentionBatch, Earlier, Falls
<1>5. ASSUME NEW g \in gone PROVE g \in RetentionBatch(table, cutoff)
  <2>1. Earlier(table, g) \in SUBSET gone /\ g \in gone /\ g \notin Earlier(table, g)
    BY <1>1, <1>2, PrunedInOrder DEF Earlier
  <2>2. Cardinality(Earlier(table, g)) < Cardinality(gone)
    <3>1. Cardinality(Earlier(table, g)) <= Cardinality(gone)
          /\ (Cardinality(gone) = Cardinality(Earlier(table, g)) => gone = Earlier(table, g))
      BY <1>3, <2>1, FS_Subset
    <3>2. Cardinality(Earlier(table, g)) \in Nat /\ Cardinality(gone) \in Nat
      BY <1>3, FS_CardinalityType
    <3>3. gone # Earlier(table, g)
      BY <2>1
    <3> HIDE DEF gone
    <3> QED
      BY <3>1, <3>2, <3>3
  <2>3. Cardinality(Earlier(table, g)) < BatchSize
    <3>1. Cardinality(Earlier(table, g)) \in Nat
      BY <1>3, FS_CardinalityType
    <3> QED
      BY <1>1, <1>2, <2>2, <3>1, RetentionAssumption
  <2> QED
    BY <1>2, <1>4, <2>3
<1>6. ASSUME NEW e \in rows PROVE e \notin RetentionBatch(table, cutoff)
  <2>1. gone \in SUBSET Earlier(table, e)
    BY <1>2 DEF Earlier
  <2>2. CASE deleted = BatchSize
    <3>1. Cardinality(gone) <= Cardinality(Earlier(table, e))
      BY <1>3, <2>1, FS_Subset
    <3>2. Cardinality(Earlier(table, e)) \in Nat
      BY <1>3, FS_CardinalityType
    <3>3. ~(Cardinality(Earlier(table, e)) < BatchSize)
      BY <1>2, <2>2, <3>1, <3>2, RetentionAssumption
    <3> QED
      BY <1>4, <3>3
  <2>3. CASE Candidates = {}
    <3>1. ~Expired(e, cutoff) /\ ~CountedOver
      BY <2>3 DEF Candidates
    <3>2. ~OverLimits(rows)
      BY <1>1, <3>1 DEF CountedOver, CountsAreRight, OverLimits
    <3>3. table \ Earlier(table, e) \in SUBSET rows
      BY <2>1
    <3>4. ~OverLimits(table \ Earlier(table, e))
      BY <1>1, <3>2, <3>3, LimitsGrow DEF IsTable
    <3>5. ~Falls(table, e)
      BY <3>1, <3>4 DEF Falls
    <3> QED
      BY <1>4, <3>5
  <2> QED
    BY <2>2, <2>3 DEF EndBatch
<1>7. RetentionBatch(table, cutoff) \subseteq table
  BY <1>4
<1> QED
  BY <1>2, <1>5, <1>6, <1>7

LEMMA BatchEnds == PruningInd /\ EndBatch => PruningInd'
<1> SUFFICES ASSUME PruningInd, EndBatch PROVE PruningInd'
  OBVIOUS
<1>1. rows' = rows /\ cutoff' = cutoff /\ table' = table /\ deleted' = deleted
      /\ batch' = "done"
      /\ more' = (CountedOver \/ \E e \in rows : Expired(e, cutoff))
  BY DEF EndBatch
<1>2. CountsAreRight
  BY DEF PruningInd, EndBatch
<1>3. rows = table \ RetentionBatch(table, cutoff)
  BY GoneIsBatch
<1>4. (table \ RetentionBatch(table, cutoff))' = table \ RetentionBatch(table, cutoff)
  BY <1>1 DEF RetentionBatch, PrunedBefore, Expired, OverLimits, PayloadBytes
<1>5. more' = MoreRequired(rows, cutoff)
  BY <1>1, <1>2 DEF MoreRequired, CountedOver, CountsAreRight, OverLimits
<1>6. MoreRequired(rows, cutoff)' = MoreRequired(rows, cutoff)
  BY <1>1 DEF MoreRequired, Expired, OverLimits, PayloadBytes
<1>7. cutoff' \in Int /\ IsTable(rows') /\ IsTable(table') /\ deleted' \in 0..BatchSize
  BY <1>1 DEF PruningInd, IsTable
<1> QED
  BY <1>1, <1>3, <1>4, <1>5, <1>6, <1>7 DEF PruningInd

-------------------------------------------------------------------------------
(* What a batch is *)

LEMMA NeededBatchFinds ==
  ASSUME PruningInd, MoreRequired(rows, cutoff)
  PROVE  RetentionBatch(rows, cutoff) # {}
<1>1. cutoff \in Int /\ IsTable(rows)
  BY DEF PruningInd
<1>2. rows # {}
  BY NoneIsWithin DEF MoreRequired
<1>3. PICK e \in rows : \A d \in rows : d = e \/ PrunedBefore(e, d, cutoff)
  BY <1>1, <1>2, FirstIsFirst
<1>4. {d \in rows : PrunedBefore(d, e, cutoff)} = {}
  BY <1>1, <1>3, PrunedInOrder
<1>5. Cardinality({d \in rows : PrunedBefore(d, e, cutoff)}) < BatchSize
  BY <1>4, FS_EmptySet, RetentionAssumption
<1>6. Expired(e, cutoff) \/ OverLimits(rows)
  <2>1. CASE OverLimits(rows)
    BY <2>1
  <2>2. CASE \E f \in rows : Expired(f, cutoff)
    BY <1>3, <2>2 DEF PrunedBefore
  <2> QED
    BY <2>1, <2>2 DEF MoreRequired
<1>7. rows \ {d \in rows : PrunedBefore(d, e, cutoff)} = rows
  BY <1>4
<1>8. e \in RetentionBatch(rows, cutoff)
  BY <1>3, <1>5, <1>6, <1>7 DEF RetentionBatch
<1> QED
  BY <1>8

LEMMA BatchesCutHeads == PruningInd => LeavesSuffix
<1> SUFFICES ASSUME PruningInd,
                    \A d, e \in rows : d.sequence < e.sequence => d.insertedAt <= e.insertedAt,
                    NEW d \in rows, NEW e \in RetentionBatch(rows, cutoff),
                    d.sequence < e.sequence
             PROVE  d \in RetentionBatch(rows, cutoff)
  BY DEF LeavesSuffix
<1>1. cutoff \in Int /\ IsTable(rows) /\ rows \subseteq Row /\ IsFiniteSet(rows)
  BY DEF PruningInd, IsTable
<1>2. e \in rows /\ Cardinality(Earlier(rows, e)) < BatchSize /\ Falls(rows, e)
  BY DEF RetentionBatch, Earlier, Falls
<1>3. Expired(e, cutoff) => Expired(d, cutoff)
  <2>1. d.insertedAt <= e.insertedAt /\ d.insertedAt \in Int /\ e.insertedAt \in Int
    BY <1>1, <1>2 DEF Row
  <2> QED
    BY <1>1, <2>1 DEF Expired
<1>4. PrunedBefore(d, e, cutoff)
  BY <1>3 DEF PrunedBefore
<1>5. Earlier(rows, d) \in SUBSET Earlier(rows, e)
  BY <1>1, <1>2, <1>4, PrunedInOrder DEF Earlier
<1>6. Earlier(rows, d) \in SUBSET rows /\ Earlier(rows, e) \in SUBSET rows
  BY DEF Earlier
<1>7. Cardinality(Earlier(rows, d)) < BatchSize
  <2>1. IsFiniteSet(Earlier(rows, e)) /\ IsFiniteSet(Earlier(rows, d))
    BY <1>1, <1>6, FS_Subset
  <2>2. Cardinality(Earlier(rows, d)) <= Cardinality(Earlier(rows, e))
    BY <1>5, <2>1, FS_Subset
  <2>3. Cardinality(Earlier(rows, d)) \in Nat /\ Cardinality(Earlier(rows, e)) \in Nat
    BY <2>1, FS_CardinalityType
  <2> QED
    BY <1>2, <2>2, <2>3, RetentionAssumption
<1>8. Falls(rows, d)
  <2>1. CASE Expired(e, cutoff)
    BY <1>3, <2>1 DEF Falls
  <2>2. CASE OverLimits(rows \ Earlier(rows, e))
    <3>1. rows \ Earlier(rows, e) \in SUBSET (rows \ Earlier(rows, d))
      BY <1>5
    <3>2. rows \ Earlier(rows, d) \subseteq Row /\ IsFiniteSet(rows \ Earlier(rows, d))
      BY <1>1, FS_Difference
    <3>3. OverLimits(rows \ Earlier(rows, d))
      BY <2>2, <3>1, <3>2, LimitsGrow
    <3> QED
      BY <3>3 DEF Falls
  <2> QED
    BY <1>2, <2>1, <2>2 DEF Falls
<1> QED
  BY <1>7, <1>8 DEF RetentionBatch, Earlier, Falls

\* A batch of retention removes what its loop removes row by row, its report is
\* right, and it leaves no hole in the log.
THEOREM BatchesAreRight == Pruning => []BatchIsRight
<1>1. PruningInd /\ [NextBatch]_tableVars => PruningInd'
  <2> SUFFICES ASSUME PruningInd, [NextBatch]_tableVars PROVE PruningInd'
    OBVIOUS
  <2>1. CASE BeginBatch
    BY <2>1, BatchBegins
  <2>2. CASE DeleteCandidate
    BY <2>2, CandidateFalls
  <2>3. CASE EndBatch
    BY <2>3, BatchEnds
  <2>4. CASE UNCHANGED tableVars
    <3>1. rows' = rows /\ cutoff' = cutoff /\ table' = table /\ deleted' = deleted
          /\ batch' = batch /\ more' = more
          /\ remainingEvents' = remainingEvents /\ remainingBytes' = remainingBytes
      BY <2>4 DEF tableVars
    <3>2. \A es, e : Falls(es, e)' = Falls(es, e)
      BY <3>1 DEF Falls, Earlier
    <3>3. GoneAreFirst' = GoneAreFirst
      BY <3>1, <3>2 DEF GoneAreFirst
    <3>4. CountsAreRight' = CountsAreRight
      BY <3>1 DEF CountsAreRight
    <3>5. RetentionBatch(table, cutoff)' = RetentionBatch(table, cutoff)
          /\ MoreRequired(rows, cutoff)' = MoreRequired(rows, cutoff)
      BY <3>1
    <3>6. IsTable(rows)' = IsTable(rows) /\ IsTable(table)' = IsTable(table)
      BY <3>1
    <3> QED
      BY <3>1, <3>3, <3>4, <3>5, <3>6 DEF PruningInd
  <2> QED
    BY <2>1, <2>2, <2>3, <2>4 DEF NextBatch
<1>2. PruningInd => BatchIsRight
  <2>1. PruningInd => BatchIsLoop
    BY NeededBatchFinds DEF PruningInd, BatchIsLoop
  <2> QED
    BY <2>1, BatchesCutHeads DEF BatchIsRight
<1> QED
  BY <1>1, <1>2, PruningBegins, PTL DEF Pruning

-------------------------------------------------------------------------------
(* Spool: processes, regenerations, readers *)

InTransaction == {"maintain_recheck", "prune", "emit_recheck", "insert", "replace"}

PastBarrier == {"count", "backup", "exclusive", "replace"}

\* Each kind of process is at a label of its own calls.
LabelsByRole ==
  /\ \A w \in Writers : pc[w] \in WriterLabels
  /\ \A g \in Regenerators : pc[g] \in RegeneratorLabels
  /\ \A r \in Readers : pc[r] \in ReaderLabels

\* Who is inside a write transaction, or a regeneration, holds its lock.
LocksHeld ==
  /\ \A p \in Procs : pc[p] \in InTransaction => dbLock = p
  /\ \A g \in Regenerators : pc[g] # "idle" => maintenanceLock = g

\* Behind the barrier of a regeneration no writer is about to commit.
Quiesced ==
  \A g \in Regenerators : pc[g] \in PastBarrier =>
    \A w \in Writers : pc[w] \notin {"prune", "insert"}

\* A regeneration about to replace the identity has nothing left to save.
Saved ==
  \A g \in Regenerators :
    /\ pc[g] = "backup" => task[g] = "discard"
    /\ pc[g] \in {"exclusive", "replace"} =>
         /\ \A e \in events : <<e.source, e.sequence>> \in backup
         /\ task[g] # "discard" => events = {}

Inv ==
  /\ TypeOK
  /\ LabelsByRole
  /\ LocksHeld
  /\ Quiesced
  /\ EventsBelongToIdentity
  /\ Saved

USE SpoolAssumption, RetentionAssumption

-------------------------------------------------------------------------------

LEMMA InitInv == Init => Inv
<1> SUFFICES ASSUME Init PROVE Inv
  OBVIOUS
<1>1. TypeOK
  <2>1. pc \in [Procs -> WriterLabels \union RegeneratorLabels \union ReaderLabels]
    BY DEF Init, WriterLabels
  <2>2. 0 \in 0..MaxSequence
    OBVIOUS
  <2>3. seen \in [Readers -> [source : SourceIds, latest : 0..MaxSequence,
                              oldest : 0..MaxSequence]]
    BY <2>2 DEF Init
  <2> QED
    BY <2>1, <2>2, <2>3 DEF Init, TypeOK
<1>2. LabelsByRole
  BY DEF Init, LabelsByRole, Procs, WriterLabels, RegeneratorLabels, ReaderLabels
<1>3. LocksHeld /\ Quiesced
  BY DEF Init, LocksHeld, Quiesced, Procs, InTransaction, PastBarrier
<1>4. EventsBelongToIdentity /\ Saved
  BY DEF Init, EventsBelongToIdentity, Saved, Procs
<1> QED
  BY <1>1, <1>2, <1>3, <1>4 DEF Inv

\* The retention's verdict is a truth value.
LEMMA MoreRequiredType == \A es, bound : MoreRequired(es, bound) \in BOOLEAN
BY DEF MoreRequired, OverLimits, Expired

-------------------------------------------------------------------------------
(* Every action preserves the invariant. *)

LEMMA StartEmitPreserves ==
  ASSUME Inv, NEW w \in Writers, StartEmit(w)
  PROVE  Inv'
<1> USE DEF StartEmit, Goto, dbVars, lockVars, readVars, Procs
<1>1. TypeOK'
  BY DEF Inv, TypeOK, LabelsByRole, WriterLabels, RegeneratorLabels, ReaderLabels
<1>2. LabelsByRole'
  BY DEF Inv, TypeOK, LabelsByRole, WriterLabels, RegeneratorLabels, ReaderLabels
<1>3. LocksHeld'
  BY DEF Inv, TypeOK, LabelsByRole, LocksHeld, InTransaction, WriterLabels,
         RegeneratorLabels, ReaderLabels
<1>4. Quiesced'
  BY DEF Inv, TypeOK, LabelsByRole, LocksHeld, Quiesced, InTransaction, PastBarrier,
         WriterLabels, RegeneratorLabels, ReaderLabels
<1>5. EventsBelongToIdentity'
  BY DEF Inv, TypeOK, EventsBelongToIdentity, Saved, Event
<1>6. Saved'
  BY DEF Inv, TypeOK, LabelsByRole, LocksHeld, Quiesced, EventsBelongToIdentity, Saved,
         InTransaction, PastBarrier, WriterLabels, RegeneratorLabels, ReaderLabels
<1> QED
  BY <1>1, <1>2, <1>3, <1>4, <1>5, <1>6 DEF Inv

LEMMA StartMaintainPreserves ==
  ASSUME Inv, NEW w \in Writers, StartMaintain(w)
  PROVE  Inv'
<1> USE DEF StartMaintain, Goto, dbVars, lockVars, readVars, Procs
<1>1. TypeOK'
  BY DEF Inv, TypeOK, LabelsByRole, WriterLabels, RegeneratorLabels, ReaderLabels
<1>2. LabelsByRole'
  BY DEF Inv, TypeOK, LabelsByRole, WriterLabels, RegeneratorLabels, ReaderLabels
<1>3. LocksHeld'
  BY DEF Inv, TypeOK, LabelsByRole, LocksHeld, InTransaction, WriterLabels,
         RegeneratorLabels, ReaderLabels
<1>4. Quiesced'
  BY DEF Inv, TypeOK, LabelsByRole, LocksHeld, Quiesced, InTransaction, PastBarrier,
         WriterLabels, RegeneratorLabels, ReaderLabels
<1>5. EventsBelongToIdentity'
  BY DEF Inv, TypeOK, EventsBelongToIdentity, Saved, Event
<1>6. Saved'
  BY DEF Inv, TypeOK, LabelsByRole, LocksHeld, Quiesced, EventsBelongToIdentity, Saved,
         InTransaction, PastBarrier, WriterLabels, RegeneratorLabels, ReaderLabels
<1> QED
  BY <1>1, <1>2, <1>3, <1>4, <1>5, <1>6 DEF Inv

LEMMA ProbeMaintenanceLockPreserves ==
  ASSUME Inv, NEW w \in Writers, ProbeMaintenanceLock(w)
  PROVE  Inv'
<1> USE DEF ProbeMaintenanceLock, ProbePoints, AfterProbe, Goto, Return, dbVars, lockVars,
            readVars, Procs
<1>1. TypeOK'
  BY DEF Inv, TypeOK, LabelsByRole, WriterLabels, RegeneratorLabels, ReaderLabels
<1>2. LabelsByRole'
  BY DEF Inv, TypeOK, LabelsByRole, WriterLabels, RegeneratorLabels, ReaderLabels
<1>3. LocksHeld'
  BY DEF Inv, TypeOK, LabelsByRole, LocksHeld, InTransaction, WriterLabels,
         RegeneratorLabels, ReaderLabels
<1>4. Quiesced'
  BY DEF Inv, TypeOK, LabelsByRole, LocksHeld, Quiesced, InTransaction, PastBarrier,
         WriterLabels, RegeneratorLabels, ReaderLabels
<1>5. EventsBelongToIdentity'
  BY DEF Inv, TypeOK, EventsBelongToIdentity, Saved, Event
<1>6. Saved'
  BY DEF Inv, TypeOK, LabelsByRole, LocksHeld, Quiesced, EventsBelongToIdentity, Saved,
         InTransaction, PastBarrier, WriterLabels, RegeneratorLabels, ReaderLabels
<1> QED
  BY <1>1, <1>2, <1>3, <1>4, <1>5, <1>6 DEF Inv

LEMMA BeginTransactionPreserves ==
  ASSUME Inv, NEW p \in Writers \union Regenerators, BeginTransaction(p)
  PROVE  Inv'
<1> USE DEF BeginTransaction, AfterBegin, Goto, Return, dbVars, lockVars, readVars, Procs
<1>1. TypeOK'
  BY DEF Inv, TypeOK, LabelsByRole, WriterLabels, RegeneratorLabels, ReaderLabels
<1>2. LabelsByRole'
  BY DEF Inv, TypeOK, LabelsByRole, WriterLabels, RegeneratorLabels, ReaderLabels
<1>3. LocksHeld'
  BY DEF Inv, TypeOK, LabelsByRole, LocksHeld, InTransaction, WriterLabels,
         RegeneratorLabels, ReaderLabels
<1>4. Quiesced'
  BY DEF Inv, TypeOK, LabelsByRole, LocksHeld, Quiesced, InTransaction, PastBarrier,
         WriterLabels, RegeneratorLabels, ReaderLabels
<1>5. EventsBelongToIdentity'
  BY DEF Inv, TypeOK, EventsBelongToIdentity, Saved, Event
<1>6. Saved'
  BY DEF Inv, TypeOK, LabelsByRole, LocksHeld, Quiesced, EventsBelongToIdentity, Saved,
         InTransaction, PastBarrier, WriterLabels, RegeneratorLabels, ReaderLabels
<1> QED
  BY <1>1, <1>2, <1>3, <1>4, <1>5, <1>6 DEF Inv

LEMMA PrunePreserves ==
  ASSUME Inv, NEW w \in Writers, Prune(w)
  PROVE  Inv'
<1> USE DEF Prune, Goto, Return, dbVars, lockVars, readVars, Procs
<1>1. TypeOK'
  BY MoreRequiredType DEF Inv, TypeOK, LabelsByRole, WriterLabels, RegeneratorLabels,
                          ReaderLabels
<1>2. LabelsByRole'
  BY DEF Inv, TypeOK, LabelsByRole, WriterLabels, RegeneratorLabels, ReaderLabels
<1>3. LocksHeld'
  BY DEF Inv, TypeOK, LabelsByRole, LocksHeld, InTransaction, WriterLabels,
         RegeneratorLabels, ReaderLabels
<1>4. Quiesced'
  BY DEF Inv, TypeOK, LabelsByRole, LocksHeld, Quiesced, InTransaction, PastBarrier,
         WriterLabels, RegeneratorLabels, ReaderLabels
<1>5. EventsBelongToIdentity'
  BY DEF Inv, TypeOK, EventsBelongToIdentity, Saved, Event
<1>6. Saved'
  BY DEF Inv, TypeOK, LabelsByRole, LocksHeld, Quiesced, EventsBelongToIdentity, Saved,
         InTransaction, PastBarrier, WriterLabels, RegeneratorLabels, ReaderLabels
<1> QED
  BY <1>1, <1>2, <1>3, <1>4, <1>5, <1>6 DEF Inv

LEMMA InsertPreserves ==
  ASSUME Inv, NEW w \in Writers, Insert(w)
  PROVE  Inv'
<1> USE DEF Insert, NextSequence, SequenceAvailable, Goto, Return, dbVars, lockVars,
            readVars, Procs
<1>1. TypeOK'
  BY DEF Inv, TypeOK, LabelsByRole, WriterLabels, RegeneratorLabels, ReaderLabels, Event
<1>2. LabelsByRole'
  BY DEF Inv, TypeOK, LabelsByRole, WriterLabels, RegeneratorLabels, ReaderLabels
<1>3. LocksHeld'
  BY DEF Inv, TypeOK, LabelsByRole, LocksHeld, InTransaction, WriterLabels,
         RegeneratorLabels, ReaderLabels
<1>4. Quiesced'
  BY DEF Inv, TypeOK, LabelsByRole, LocksHeld, Quiesced, InTransaction, PastBarrier,
         WriterLabels, RegeneratorLabels, ReaderLabels
<1>5. EventsBelongToIdentity'
  BY DEF Inv, TypeOK, EventsBelongToIdentity, Saved, Event
<1>6. Saved'
  BY DEF Inv, TypeOK, LabelsByRole, LocksHeld, Quiesced, EventsBelongToIdentity, Saved,
         InTransaction, PastBarrier, WriterLabels, RegeneratorLabels, ReaderLabels
<1> QED
  BY <1>1, <1>2, <1>3, <1>4, <1>5, <1>6 DEF Inv

LEMMA AcquireMaintenanceLockPreserves ==
  ASSUME Inv, NEW g \in Regenerators, AcquireMaintenanceLock(g)
  PROVE  Inv'
<1> USE DEF AcquireMaintenanceLock, Goto, dbVars, lockVars, readVars, Procs
<1>1. TypeOK'
  BY DEF Inv, TypeOK, LabelsByRole, WriterLabels, RegeneratorLabels, ReaderLabels
<1>2. LabelsByRole'
  BY DEF Inv, TypeOK, LabelsByRole, WriterLabels, RegeneratorLabels, ReaderLabels
<1>3. LocksHeld'
  BY DEF Inv, TypeOK, LabelsByRole, LocksHeld, InTransaction, WriterLabels,
         RegeneratorLabels, ReaderLabels
<1>4. Quiesced'
  BY DEF Inv, TypeOK, LabelsByRole, LocksHeld, Quiesced, InTransaction, PastBarrier,
         WriterLabels, RegeneratorLabels, ReaderLabels
<1>5. EventsBelongToIdentity'
  BY DEF Inv, TypeOK, EventsBelongToIdentity, Saved, Event
<1>6. Saved'
  BY DEF Inv, TypeOK, LabelsByRole, LocksHeld, Quiesced, EventsBelongToIdentity, Saved,
         InTransaction, PastBarrier, WriterLabels, RegeneratorLabels, ReaderLabels
<1> QED
  BY <1>1, <1>2, <1>3, <1>4, <1>5, <1>6 DEF Inv

LEMMA BarrierPreserves ==
  ASSUME Inv, NEW g \in Regenerators, Barrier(g)
  PROVE  Inv'
<1> USE DEF Barrier, Goto, Return, dbVars, lockVars, readVars, Procs
<1>1. TypeOK'
  BY DEF Inv, TypeOK, LabelsByRole, WriterLabels, RegeneratorLabels, ReaderLabels
<1>2. LabelsByRole'
  BY DEF Inv, TypeOK, LabelsByRole, WriterLabels, RegeneratorLabels, ReaderLabels
<1>3. LocksHeld'
  BY DEF Inv, TypeOK, LabelsByRole, LocksHeld, InTransaction, WriterLabels,
         RegeneratorLabels, ReaderLabels
<1>4. Quiesced'
  BY DEF Inv, TypeOK, LabelsByRole, LocksHeld, Quiesced, InTransaction, PastBarrier,
         WriterLabels, RegeneratorLabels, ReaderLabels
<1>5. EventsBelongToIdentity'
  BY DEF Inv, TypeOK, EventsBelongToIdentity, Saved, Event
<1>6. Saved'
  BY DEF Inv, TypeOK, LabelsByRole, LocksHeld, Quiesced, EventsBelongToIdentity, Saved,
         InTransaction, PastBarrier, WriterLabels, RegeneratorLabels, ReaderLabels
<1> QED
  BY <1>1, <1>2, <1>3, <1>4, <1>5, <1>6 DEF Inv

LEMMA CountEventsPreserves ==
  ASSUME Inv, NEW g \in Regenerators, CountEvents(g)
  PROVE  Inv'
<1> USE DEF CountEvents, Goto, Return, dbVars, lockVars, readVars, Procs
<1>1. TypeOK'
  BY DEF Inv, TypeOK, LabelsByRole, WriterLabels, RegeneratorLabels, ReaderLabels
<1>2. LabelsByRole'
  BY DEF Inv, TypeOK, LabelsByRole, WriterLabels, RegeneratorLabels, ReaderLabels
<1>3. LocksHeld'
  BY DEF Inv, TypeOK, LabelsByRole, LocksHeld, InTransaction, WriterLabels,
         RegeneratorLabels, ReaderLabels
<1>4. Quiesced'
  BY DEF Inv, TypeOK, LabelsByRole, LocksHeld, Quiesced, InTransaction, PastBarrier,
         WriterLabels, RegeneratorLabels, ReaderLabels
<1>5. EventsBelongToIdentity'
  BY DEF Inv, TypeOK, EventsBelongToIdentity, Saved, Event
<1>6. Saved'
  BY DEF Inv, TypeOK, LabelsByRole, LocksHeld, Quiesced, EventsBelongToIdentity, Saved,
         InTransaction, PastBarrier, WriterLabels, RegeneratorLabels, ReaderLabels
<1> QED
  BY <1>1, <1>2, <1>3, <1>4, <1>5, <1>6 DEF Inv

LEMMA BackupDatabasePreserves ==
  ASSUME Inv, NEW g \in Regenerators, BackupDatabase(g)
  PROVE  Inv'
<1> USE DEF BackupDatabase, Goto, dbVars, lockVars, readVars, Procs
<1>1. TypeOK'
  BY DEF Inv, TypeOK, LabelsByRole, WriterLabels, RegeneratorLabels, ReaderLabels, Event,
         StoredSequences
<1>2. LabelsByRole'
  BY DEF Inv, TypeOK, LabelsByRole, WriterLabels, RegeneratorLabels, ReaderLabels
<1>3. LocksHeld'
  BY DEF Inv, TypeOK, LabelsByRole, LocksHeld, InTransaction, WriterLabels,
         RegeneratorLabels, ReaderLabels
<1>4. Quiesced'
  BY DEF Inv, TypeOK, LabelsByRole, LocksHeld, Quiesced, InTransaction, PastBarrier,
         WriterLabels, RegeneratorLabels, ReaderLabels
<1>5. EventsBelongToIdentity'
  BY DEF Inv, TypeOK, EventsBelongToIdentity, Saved, Event
<1>6. Saved'
  BY DEF Inv, TypeOK, LabelsByRole, LocksHeld, Quiesced, EventsBelongToIdentity, Saved,
         InTransaction, PastBarrier, WriterLabels, RegeneratorLabels, ReaderLabels, StoredSequences
<1> QED
  BY <1>1, <1>2, <1>3, <1>4, <1>5, <1>6 DEF Inv

LEMMA ReplaceIdentityPreserves ==
  ASSUME Inv, NEW g \in Regenerators, ReplaceIdentity(g)
  PROVE  Inv'
<1> USE DEF ReplaceIdentity, Goto, Return, dbVars, lockVars, readVars, Procs
<1>1. TypeOK'
  BY DEF Inv, TypeOK, LabelsByRole, WriterLabels, RegeneratorLabels, ReaderLabels
<1>2. LabelsByRole'
  BY DEF Inv, TypeOK, LabelsByRole, WriterLabels, RegeneratorLabels, ReaderLabels
<1>3. LocksHeld'
  BY DEF Inv, TypeOK, LabelsByRole, LocksHeld, InTransaction, WriterLabels,
         RegeneratorLabels, ReaderLabels
<1>4. Quiesced'
  BY DEF Inv, TypeOK, LabelsByRole, LocksHeld, Quiesced, InTransaction, PastBarrier,
         WriterLabels, RegeneratorLabels, ReaderLabels
<1>5. EventsBelongToIdentity'
  BY DEF Inv, TypeOK, EventsBelongToIdentity, Saved, Event
<1>6. Saved'
  BY DEF Inv, TypeOK, LabelsByRole, LocksHeld, Quiesced, EventsBelongToIdentity, Saved,
         InTransaction, PastBarrier, WriterLabels, RegeneratorLabels, ReaderLabels
<1> QED
  BY <1>1, <1>2, <1>3, <1>4, <1>5, <1>6 DEF Inv

\* A reader changes nothing but its own place and what it has read.
LEMMA ReadOnlyPreserves ==
  ASSUME Inv, NEW r \in Readers, NEW label \in ReaderLabels, pc' = [pc EXCEPT ![r] = label],
         UNCHANGED <<dbVars, backup, lockVars, task>>,
         seen' \in [Readers -> [source : SourceIds, latest : 0..MaxSequence,
                                oldest : 0..MaxSequence]],
         outcome' \in [Readers -> {"none", "snapshot", "page", "corrupt"}]
  PROVE  Inv'
<1>1. /\ sourceId' = sourceId /\ highWatermark' = highWatermark
      /\ maintenanceOverdue' = maintenanceOverdue /\ events' = events /\ retired' = retired
      /\ backup' = backup /\ maintenanceLock' = maintenanceLock /\ dbLock' = dbLock
      /\ task' = task
  BY DEF dbVars, lockVars
<1>2. pc \in [Procs -> WriterLabels \union RegeneratorLabels \union ReaderLabels]
  BY DEF Inv, TypeOK
<1>3. /\ r \in Procs /\ pc'[r] = label
      /\ \A p \in Procs : p # r => pc'[p] = pc[p]
  BY <1>2 DEF Procs
<1>4. \A p \in Writers \union Regenerators : p \in Procs /\ p # r
  BY SpoolAssumption DEF Procs
<1>5. \A p \in Writers \union Regenerators : pc'[p] = pc[p]
  BY <1>3, <1>4
<1>6. label \notin InTransaction
  BY DEF ReaderLabels, InTransaction
<1>7. TypeOK'
  <2>1. pc' \in [Procs -> WriterLabels \union RegeneratorLabels \union ReaderLabels]
    BY <1>2
  <2> QED
    BY <1>1, <2>1 DEF Inv, TypeOK
<1>8. LabelsByRole'
  <2>1. \A q \in Readers : q \in Procs
    BY DEF Procs
  <2> QED
    BY <1>3, <1>5, <2>1 DEF Inv, LabelsByRole
<1>9. LocksHeld'
  BY <1>1, <1>3, <1>5, <1>6 DEF Inv, LocksHeld
<1>10. Quiesced'
  BY <1>5 DEF Inv, Quiesced
<1>11. EventsBelongToIdentity'
  BY <1>1 DEF Inv, EventsBelongToIdentity
<1>12. Saved'
  BY <1>1, <1>5 DEF Inv, Saved
<1> QED
  BY <1>7, <1>8, <1>9, <1>10, <1>11, <1>12 DEF Inv

LEMMA ReadIdentityPreserves ==
  ASSUME Inv, NEW r \in Readers, ReadIdentity(r)
  PROVE  Inv'
<1>1. [source |-> sourceId, latest |-> highWatermark, oldest |-> 0]
        \in [source : SourceIds, latest : 0..MaxSequence, oldest : 0..MaxSequence]
  BY SpoolAssumption DEF Inv, TypeOK
<1>2. seen' \in [Readers -> [source : SourceIds, latest : 0..MaxSequence,
                            oldest : 0..MaxSequence]]
  BY <1>1 DEF Inv, TypeOK, ReadIdentity
<1>3. outcome' \in [Readers -> {"none", "snapshot", "page", "corrupt"}]
  BY DEF Inv, TypeOK, ReadIdentity
<1>4. \E label \in ReaderLabels : pc' = [pc EXCEPT ![r] = label]
  BY DEF ReadIdentity, Goto, ReaderLabels
<1>5. UNCHANGED <<dbVars, backup, lockVars, task>>
  BY DEF ReadIdentity
<1> QED
  BY <1>2, <1>3, <1>4, <1>5, ReadOnlyPreserves

LEMMA ReaderStepPreserves ==
  ASSUME Inv, NEW r \in Readers, ReaderStep(r)
  PROVE  Inv'
<1>1. /\ seen \in [Readers -> [source : SourceIds, latest : 0..MaxSequence,
                               oldest : 0..MaxSequence]]
      /\ outcome \in [Readers -> {"none", "snapshot", "page", "corrupt"}]
  BY DEF Inv, TypeOK
<1>2. StoredSequences \subseteq 0..MaxSequence
  BY SpoolAssumption DEF StoredSequences, Inv, TypeOK, Event
<1>3. CASE ReadOldest(r)
  <2>1. seen' \in [Readers -> [source : SourceIds, latest : 0..MaxSequence,
                              oldest : 0..MaxSequence]]
    <3>1. PICK n \in 0..MaxSequence : seen' = [seen EXCEPT ![r].oldest = n]
      BY <1>2, <1>3, SpoolAssumption DEF ReadOldest
    <3> QED
      BY <1>1, <3>1
  <2>2. outcome' = outcome /\ UNCHANGED <<dbVars, backup, lockVars, task>>
    BY <1>3 DEF ReadOldest
  <2>3. \E label \in ReaderLabels : pc' = [pc EXCEPT ![r] = label]
    BY <1>3 DEF ReadOldest, Goto, ReaderLabels
  <2> QED
    BY <1>1, <2>1, <2>2, <2>3, ReadOnlyPreserves
<1>4. CASE ReadNewest(r) \/ ReadRows(r)
  <2>1. outcome' \in [Readers -> {"none", "snapshot", "page", "corrupt"}]
    <3>1. \E result \in {"none", "snapshot", "page", "corrupt"} :
            outcome' = [outcome EXCEPT ![r] = result]
      BY <1>4 DEF ReadNewest, ReadRows
    <3> QED
      BY <1>1, <3>1
  <2>2. seen' = seen /\ UNCHANGED <<dbVars, backup, lockVars, task>>
    BY <1>4 DEF ReadNewest, ReadRows
  <2>3. \E label \in ReaderLabels : pc' = [pc EXCEPT ![r] = label]
    BY <1>4 DEF ReadNewest, ReadRows, Goto, ReaderLabels
  <2> QED
    BY <1>1, <2>1, <2>2, <2>3, ReadOnlyPreserves
<1> QED
  BY <1>3, <1>4 DEF ReaderStep

LEMMA CrashPreserves ==
  ASSUME Inv, NEW p \in Procs, Crash(p)
  PROVE  Inv'
<1> USE DEF Crash, Goto, Return, dbVars, lockVars, readVars, Procs
<1>1. TypeOK'
  BY DEF Inv, TypeOK, LabelsByRole, WriterLabels, RegeneratorLabels, ReaderLabels
<1>2. LabelsByRole'
  BY DEF Inv, TypeOK, LabelsByRole, WriterLabels, RegeneratorLabels, ReaderLabels
<1>3. LocksHeld'
  BY DEF Inv, TypeOK, LabelsByRole, LocksHeld, InTransaction, WriterLabels,
         RegeneratorLabels, ReaderLabels
<1>4. Quiesced'
  BY DEF Inv, TypeOK, LabelsByRole, LocksHeld, Quiesced, InTransaction, PastBarrier,
         WriterLabels, RegeneratorLabels, ReaderLabels
<1>5. EventsBelongToIdentity'
  BY DEF Inv, TypeOK, EventsBelongToIdentity, Saved, Event
<1>6. Saved'
  BY DEF Inv, TypeOK, LabelsByRole, LocksHeld, Quiesced, EventsBelongToIdentity, Saved,
         InTransaction, PastBarrier, WriterLabels, RegeneratorLabels, ReaderLabels
<1> QED
  BY <1>1, <1>2, <1>3, <1>4, <1>5, <1>6 DEF Inv

LEMMA NextPreserves == Inv /\ [Next]_vars => Inv'
<1> SUFFICES ASSUME Inv, [Next]_vars PROVE Inv'
  OBVIOUS
<1>1. ASSUME NEW w \in Writers, StartEmit(w) \/ StartMaintain(w) \/ WriterStep(w)
      PROVE  Inv'
  BY <1>1, StartEmitPreserves, StartMaintainPreserves, ProbeMaintenanceLockPreserves,
     BeginTransactionPreserves, PrunePreserves, InsertPreserves DEF WriterStep
<1>2. ASSUME NEW g \in Regenerators, AcquireMaintenanceLock(g) \/ RegeneratorStep(g)
      PROVE  Inv'
  BY <1>2, AcquireMaintenanceLockPreserves, BarrierPreserves, CountEventsPreserves,
     BackupDatabasePreserves, BeginTransactionPreserves, ReplaceIdentityPreserves
     DEF RegeneratorStep
<1>3. ASSUME NEW r \in Readers, ReadIdentity(r) \/ ReaderStep(r)
      PROVE  Inv'
  BY <1>3, ReadIdentityPreserves, ReaderStepPreserves
<1>4. ASSUME NEW p \in Procs, Crash(p)
      PROVE  Inv'
  BY <1>4, CrashPreserves
<1>5. CASE UNCHANGED vars
  BY <1>5 DEF vars, Inv, TypeOK, LabelsByRole, LocksHeld, Quiesced,
              EventsBelongToIdentity, Saved, Event
<1> QED
  BY <1>1, <1>2, <1>3, <1>4, <1>5 DEF Next

\* The inductive invariant holds of every behaviour.
LEMMA Invariance == Spec => []Inv
BY InitInv, NextPreserves, PTL DEF Spec

-------------------------------------------------------------------------------
(* Theorems *)

\* The watermark stays within i64 (next_sequence refuses at its end), and every
\* variable within its type.
THEOREM TypeCorrect == Spec => []TypeOK
<1>1. Inv => TypeOK
  BY DEF Inv
<1> QED
  BY <1>1, Invariance, PTL

\* No emit commits an event under an identity the spool has given up, and no
\* sequence is stored twice (emit, regenerate_identity).
THEOREM EventsKeepIdentity == Spec => []EventsBelongToIdentity
<1>1. Inv => EventsBelongToIdentity
  BY DEF Inv
<1> QED
  BY <1>1, Invariance, PTL

\* A regeneration destroys only what it has backed up (regenerate_identity).
THEOREM RegenerationSaves == Spec => ReplacedEventsAreSaved
<1>1. ASSUME Inv, [Next]_vars, sourceId' # sourceId, NEW e \in events \ events'
      PROVE  <<e.source, e.sequence>> \in backup
  <2>1. PICK g \in Regenerators : ReplaceIdentity(g)
    BY <1>1 DEF Next, vars, dbVars, WriterStep, RegeneratorStep, ReaderStep, StartEmit,
       StartMaintain, ProbeMaintenanceLock, BeginTransaction, Prune, Insert,
       AcquireMaintenanceLock, Barrier, CountEvents, BackupDatabase, ReadIdentity,
       ReadOldest, ReadNewest, ReadRows, Crash
  <2> QED
    BY <1>1, <2>1 DEF Inv, Saved, ReplaceIdentity
<1>2. Inv /\ [Next]_vars =>
        [sourceId' # sourceId =>
           \A e \in events \ events' : <<e.source, e.sequence>> \in backup]_vars
  BY <1>1
<1> QED
  BY <1>2, Invariance, PTL DEF Spec, ReplacedEventsAreSaved

-------------------------------------------------------------------------------
(* What a reader may conclude from a snapshot *)

\* An identity is never given twice, and a reader's watermark is one the spool has
\* reached; between the read of the oldest row and the end of the call, and ever
\* after, nothing reappears below it.
SnapshotInv ==
  /\ sourceId \notin retired
  /\ \A r \in Readers :
       /\ seen[r].source \in retired \union {sourceId}
       /\ seen[r].source = sourceId => seen[r].latest <= highWatermark
       /\ (pc[r] = "snapshot_max" \/ outcome[r] = "snapshot") /\ seen[r].source = sourceId =>
            \A e \in events : e.sequence <= seen[r].latest =>
              seen[r].oldest # 0 /\ seen[r].oldest <= e.sequence

LEMMA SnapshotInit == Init => SnapshotInv
BY DEF Init, SnapshotInv, Procs, ReaderLabels

LEMMA SnapshotNext == Inv /\ SnapshotInv /\ [Next]_vars => SnapshotInv'
<1> SUFFICES ASSUME Inv, SnapshotInv, [Next]_vars PROVE SnapshotInv'
  OBVIOUS
<1> USE DEF SnapshotInv, Inv, TypeOK, Goto, Procs
<1>1. ASSUME NEW w \in Writers, StartEmit(w) \/ StartMaintain(w) PROVE SnapshotInv'
  BY <1>1 DEF StartEmit, StartMaintain, dbVars, readVars
<1>2. ASSUME NEW w \in Writers, ProbeMaintenanceLock(w) \/ BeginTransaction(w)
      PROVE  SnapshotInv'
  BY <1>2 DEF ProbeMaintenanceLock, BeginTransaction, ProbePoints, AfterProbe, AfterBegin,
              Return, dbVars, readVars
<1>3. ASSUME NEW w \in Writers, Prune(w) PROVE SnapshotInv'
  BY <1>3 DEF Prune, Return, readVars, Event
<1>4. ASSUME NEW w \in Writers, Insert(w) PROVE SnapshotInv'
  BY <1>4 DEF Insert, NextSequence, SequenceAvailable, Return, readVars, Event
<1>5. ASSUME NEW g \in Regenerators, AcquireMaintenanceLock(g) \/ Barrier(g) \/ CountEvents(g)
      PROVE  SnapshotInv'
  BY <1>5 DEF AcquireMaintenanceLock, Barrier, CountEvents, Return, dbVars, readVars
<1>6. ASSUME NEW g \in Regenerators, BackupDatabase(g) \/ BeginTransaction(g)
      PROVE  SnapshotInv'
  BY <1>6 DEF BackupDatabase, BeginTransaction, AfterBegin, Return, dbVars, readVars
<1>7. ASSUME NEW g \in Regenerators, ReplaceIdentity(g) PROVE SnapshotInv'
  BY <1>7 DEF ReplaceIdentity, Return, readVars
<1>8. ASSUME NEW r \in Readers, ReadIdentity(r) PROVE SnapshotInv'
  BY <1>8 DEF ReadIdentity, dbVars
<1>9. ASSUME NEW r \in Readers, ReadOldest(r) PROVE SnapshotInv'
  BY <1>9 DEF ReadOldest, StoredSequences, dbVars, Event
<1>10. ASSUME NEW r \in Readers, ReadNewest(r) \/ ReadRows(r) PROVE SnapshotInv'
  BY <1>10 DEF ReadNewest, ReadRows, dbVars
<1>11. ASSUME NEW p \in Procs, Crash(p) PROVE SnapshotInv'
  BY <1>11 DEF Crash, Return, dbVars, readVars
<1>12. CASE UNCHANGED vars
  BY <1>12 DEF vars
<1> QED
  BY <1>1, <1>2, <1>3, <1>4, <1>5, <1>6, <1>7, <1>8, <1>9, <1>10, <1>11, <1>12
     DEF Next, WriterStep, RegeneratorStep, ReaderStep

\* A successful snapshot never makes a reader give up an event the spool still
\* has, although its three reads are three transactions (snapshot).
THEOREM SnapshotIsSafe == Spec => []SnapshotGapIsLost
<1>1. SnapshotInv => SnapshotGapIsLost
  BY DEF SnapshotInv, SnapshotGapIsLost
<1> QED
  BY <1>1, SnapshotInit, SnapshotNext, Invariance, PTL DEF Spec

-------------------------------------------------------------------------------
(* Refinement *)

LEMMA LogInit == Init => Log!Init
BY DEF Init, Log!Init, StoredSequences

\* The commits of a prune, an insert and a regeneration, and the backup, are the
\* steps of the log; nothing else changes what it shows.
LEMMA LogNext == Inv /\ SnapshotInv /\ [Next]_vars => [Log!Next]_(Log!logVars)
<1> SUFFICES ASSUME Inv, SnapshotInv, [Next]_vars PROVE [Log!Next]_(Log!logVars)
  OBVIOUS
<1>1. ASSUME UNCHANGED <<dbVars, backup>> PROVE UNCHANGED Log!logVars
  BY <1>1 DEF dbVars, Log!logVars, StoredSequences
<1>2. ASSUME NEW w \in Writers, Prune(w) PROVE Log!Next
  BY <1>2 DEF Prune, Log!Next, Log!Prune, StoredSequences
<1>3. ASSUME NEW w \in Writers, Insert(w) PROVE Log!Next \/ UNCHANGED Log!logVars
  <2>1. CASE SequenceAvailable
    <3>1. PICK when \in Times, size \in Sizes :
            events' = events \union {[source |-> sourceId, sequence |-> NextSequence,
                                     insertedAt |-> when, bytes |-> size]}
      BY <1>3, <2>1 DEF Insert
    <3> DEFINE new == [source |-> sourceId, sequence |-> NextSequence,
                       insertedAt |-> when, bytes |-> size]
    <3>2. events' = events \union {new} /\ new.sequence = highWatermark + 1
      BY <3>1 DEF NextSequence
    <3> HIDE DEF new
    <3>3. StoredSequences' = StoredSequences \union {highWatermark + 1}
      BY <3>2 DEF StoredSequences
    <3> QED
      BY <1>3, <2>1, <3>3 DEF Insert, NextSequence, Log!Next, Log!Append
  <2>2. CASE ~SequenceAvailable
    BY <1>1, <1>3, <2>2 DEF Insert, dbVars
  <2> QED
    BY <2>1, <2>2
<1>4. ASSUME NEW g \in Regenerators, BackupDatabase(g) PROVE Log!Next
  BY <1>4 DEF BackupDatabase, dbVars, Log!Next, Log!Save, StoredSequences
<1>5. ASSUME NEW g \in Regenerators, ReplaceIdentity(g) PROVE Log!Next
  <2>1. \A n \in StoredSequences : <<sourceId, n>> \in backup
    BY <1>5 DEF ReplaceIdentity, Inv, Saved, EventsBelongToIdentity, StoredSequences
  <2>2. StoredSequences' = {}
    BY <1>5 DEF ReplaceIdentity, Inv, Saved, StoredSequences
  <2> QED
    BY <1>5, <2>1, <2>2 DEF ReplaceIdentity, Log!Next, Log!ChangeIdentity
<1>6. ASSUME NEW w \in Writers,
             StartEmit(w) \/ StartMaintain(w) \/ ProbeMaintenanceLock(w) \/ BeginTransaction(w)
      PROVE  UNCHANGED <<dbVars, backup>>
  BY <1>6 DEF StartEmit, StartMaintain, ProbeMaintenanceLock, BeginTransaction
<1>7. ASSUME NEW g \in Regenerators,
             AcquireMaintenanceLock(g) \/ Barrier(g) \/ CountEvents(g) \/ BeginTransaction(g)
      PROVE  UNCHANGED <<dbVars, backup>>
  BY <1>7 DEF AcquireMaintenanceLock, Barrier, CountEvents, BeginTransaction
<1>8. ASSUME NEW r \in Readers, ReadIdentity(r) \/ ReaderStep(r)
      PROVE  UNCHANGED <<dbVars, backup>>
  BY <1>8 DEF ReadIdentity, ReaderStep, ReadOldest, ReadNewest, ReadRows
<1>9. ASSUME NEW p \in Procs, Crash(p) PROVE UNCHANGED <<dbVars, backup>>
  BY <1>9 DEF Crash
<1>10. CASE UNCHANGED vars
  BY <1>1, <1>10 DEF vars, dbVars
<1> QED
  BY <1>1, <1>2, <1>3, <1>4, <1>5, <1>6, <1>7, <1>8, <1>9, <1>10
     DEF Next, WriterStep, RegeneratorStep

\* The spool, with all its processes and locks, is the log its readers are
\* promised: sequences in order and once, an identity given up only when all
\* that went with it is gone or saved.
THEOREM SpoolImplementsLog == Spec => ImplementsLog
BY LogInit, LogNext, SnapshotInit, SnapshotNext, Invariance, PTL
   DEF Spec, ImplementsLog, Log!Spec

-------------------------------------------------------------------------------
(* AgentExcerpt: texts with nothing to mask *)

\* A line in which a key is named at the end at most.
ProseLine(line) ==
  /\ line \in Seq(Token)
  /\ \A i \in 1..Len(line) : Prose(line[i]) \/ (i = Len(line) /\ KeyWord(line[i]))

\* What is awaited behind a token of such a line.
AfterWord(t) ==
  IF KeyWord(t)
  THEN Await(IF t.key = "authorization" THEN "delimiter" ELSE "assignment-delimiter")
  ELSE Calm

Awaiting == {Calm, Await("delimiter"), Await("assignment-delimiter")}

LEMMA ProseIsDirect ==
  ASSUME NEW t \in Token, Prose(t) \/ KeyWord(t), NEW state \in Awaiting,
         state # Calm => ~LeadingSep(t), NEW follows
  PROVE  DirectToken(t, state, follows) = Miss /\ Delimited(t, state) = Calm
<1>1. Delimited(t, state) = Calm
  <2>1. CASE state = Calm
    BY <2>1 DEF Delimited, Calm
  <2>2. CASE state # Calm
    <3>1. state = Await("delimiter") \/ state = Await("assignment-delimiter")
      BY <2>2 DEF Awaiting
    <3>2. state.awaits \in {"delimiter", "assignment-delimiter"}
      BY <3>1 DEF Await
    <3>3. ~LeadingSep(t)
      BY <2>2
    <3> QED
      BY <3>2, <3>3 DEF Delimited
  <2> QED
    BY <2>1, <2>2
<1>2. ~ExpectedExplicit(t, state, follows).hit
  <2>1. state.awaits # "explicit-value"
    <3>1. state = Calm \/ state = Await("delimiter") \/ state = Await("assignment-delimiter")
      BY DEF Awaiting
    <3> QED
      BY <3>1 DEF Calm, Await
  <2> QED
    BY <2>1 DEF ExpectedExplicit, Miss
<1>3. ~ExpectedSecret(t, Calm, follows).hit
  BY DEF ExpectedSecret, Calm, Miss
<1>4. ~KeyValue(t).hit
  BY DEF KeyValue, Miss, Prose, KeyWord, Plain, LeadingSep, Alone, SensitiveKey
<1>5. ~ExplicitContext(t).hit
  BY DEF ExplicitContext, Miss, Prose, KeyWord, Plain, LeadingSep, Alone, ExplicitLabel
<1>6. ~AuthorizationHeader(t).hit
  BY DEF AuthorizationHeader, Miss, Prose, KeyWord, Plain, LeadingSep, Alone
<1>7. ~UriToken(t).hit
  BY DEF UriToken, UriMasked, Miss, Prose, KeyWord, Plain, LeadingSep, Alone
<1> DEFINE results == <<ExpectedExplicit(t, state, follows), ExpectedSecret(t, Calm, follows),
                        KeyValue(t), ExplicitContext(t), AuthorizationHeader(t), UriToken(t)>>
<1>8. {n \in 1..Len(results) : results[n].hit} = {}
  BY <1>2, <1>3, <1>4, <1>5, <1>6, <1>7
<1>9. DirectToken(t, state, follows) = FirstHit(results)
  <2>1. DirectToken(t, state, follows) =
          FirstHit(<<ExpectedExplicit(t, state, follows),
                     ExpectedSecret(t, Delimited(t, state), follows),
                     KeyValue(t), ExplicitContext(t), AuthorizationHeader(t), UriToken(t)>>)
    BY DEF DirectToken
  <2> QED
    BY <1>1, <2>1
<1> HIDE DEF results
<1> QED
  BY <1>1, <1>8, <1>9 DEF FirstHit

\* A label starts with a key, or with a word that is none of prose.
LEMMA ProseHasNoLabel ==
  ASSUME NEW line, ProseLine(line), NEW i \in 1..Len(line)
  PROVE  ~ContextualPhrase(line, i).hit
<1> DEFINE t == line[i]
<1>1. Len(line) \in Nat /\ \A k \in 1..Len(line) : line[k] \in Token
  BY DEF ProseLine
<1>2. ASSUME NEW n \in LabelLengths(line, i) PROVE n = 1 /\ KeyWord(t) /\ i = Len(line)
  <2>1. n \in 1..4 /\ i + n - 1 <= Len(line) /\ Label(Tokens(line, i, i + n - 1))
    BY <1>2 DEF LabelLengths
  <2>2. /\ Len(Tokens(line, i, i + n - 1)) = n
        /\ Tokens(line, i, i + n - 1)[1] = t
    BY <1>1, <2>1 DEF Tokens
  <2>3. Prose(t) \/ (i = Len(line) /\ KeyWord(t))
    BY DEF ProseLine
  <2>4. CASE n = 1
    <3>1. SensitiveKey(t.key)
      BY <2>1, <2>2, <2>4 DEF Label
    <3> QED
      BY <2>3, <2>4, <3>1 DEF Prose, Plain, LeadingSep, SensitiveKey
  <2>5. CASE n # 1
    <3>1. t = Value("api")
      BY <2>1, <2>2, <2>5 DEF Label
    <3> QED
      BY <2>3, <3>1 DEF Prose, Plain, LeadingSep, KeyWord, Alone, Value, Tok
  <2> QED
    BY <2>4, <2>5
<1>3. CASE LabelLengths(line, i) = {}
  BY <1>3 DEF ContextualPhrase, Miss
<1>4. CASE LabelLengths(line, i) # {}
  <2>1. LabelLengths(line, i) = {1} /\ i = Len(line)
    BY <1>2, <1>4
  <2>2. Max(LabelLengths(line, i)) = 1
    BY <2>1 DEF Max
  <2> DEFINE Reaches(j) == \A k \in (i + 1)..(j - 1) : k < Len(line) /\ Filler(line[k])
             reach == {j \in (i + 1)..(i + 1 + MaxFillers) : Reaches(j)}
  <2>3. reach = {i + 1}
    <3>1. i + 1 \in (i + 1)..(i + 1 + MaxFillers) /\ Reaches(i + 1)
      BY <1>1 DEF MaxFillers
    <3>2. ASSUME NEW j \in (i + 1)..(i + 1 + MaxFillers), Reaches(j) PROVE j = i + 1
      <4>1. j # i + 1 => i + 1 \in (i + 1)..(j - 1)
        BY <1>1, <3>2 DEF MaxFillers
      <4>2. ~(i + 1 < Len(line))
        BY <1>1, <2>1
      <4> QED
        BY <3>2, <4>1, <4>2
    <3> HIDE DEF Reaches
    <3> QED
      BY <3>1, <3>2
  <2>4. Candidate(line, i + 1) = i + 1
    <3>1. Candidate(line, i + 1) = Max(reach)
      BY DEF Candidate
    <3> HIDE DEF reach
    <3> QED
      BY <1>1, <2>3, <3>1 DEF Max
  <2> QED
    BY <1>1, <1>4, <2>1, <2>2, <2>4 DEF ContextualPhrase, Miss, MaxFillers
<1> QED
  BY <1>3, <1>4

\* A turn leaves a token of prose as it is.
LEMMA ProseTurn ==
  ASSUME NEW line, ProseLine(line), NEW i \in 1..Len(line), NEW state \in Awaiting,
         state # Calm => ~LeadingSep(line[i])
  PROVE  RedactAt(line, i, state) = Go(<<line[i]>>, AfterWord(line[i]), i + 1)
<1> DEFINE t == line[i]
           direct == DirectToken(t, state, i < Len(line))
           keep == Go(<<t>>, Calm, i + 1)
<1>1. t \in Token /\ Len(line) \in Nat /\ (Prose(t) \/ KeyWord(t))
  BY DEF ProseLine
<1>2. KeyWord(t) => i = Len(line)
  BY DEF ProseLine, Prose, KeyWord, Plain, LeadingSep, Alone
<1>3. ~direct.hit /\ Delimited(t, state) = Calm
  <2>1. direct = Miss /\ Delimited(t, state) = Calm
    BY <1>1, ProseIsDirect
  <2> QED
    BY <2>1 DEF Miss
<1>4. state.awaits # "end-of-line"
  <2>1. state = Calm \/ state = Await("delimiter") \/ state = Await("assignment-delimiter")
    BY DEF Awaiting
  <2> QED
    BY <2>1 DEF Calm, Await
<1>5. KeyWord(t) => t.val = "none"
  BY <1>1 DEF Token, KeyWord, Alone
<1>6. ~(Alone(t) /\ t.key = "authorization" /\ NextLeads(line, i))
      /\ ~(Alone(t) /\ SensitiveKey(t.key) /\ NextLeads(line, i))
  BY <1>1, <1>2 DEF Prose, Plain, LeadingSep, Alone, NextLeads
<1>7. ~PrivatePath(t.val) /\ ~(Plain(t) /\ Credential(t.val))
  BY <1>1, <1>5 DEF Prose, Plain, LeadingSep, PrivatePath, Credential
<1>8. Uri(t.val) => ~KeyWord(t)
  BY <1>5 DEF Uri
<1> DEFINE results == <<ContextualPhrase(line, i), KeyAtEnd(line, i), keep>>
<1>9. FirstHit(results) = Go(<<t>>, AfterWord(t), i + 1)
  <2> DEFINE hits == {n \in 1..Len(results) : results[n].hit}
  <2>1. ~results[1].hit /\ results[3].hit /\ Len(results) = 3
    BY ProseHasNoLabel DEF Go
  <2>2. CASE KeyWord(t)
    <3>1. KeyAtEnd(line, i) = Go(<<t>>, AfterWord(t), i + 1)
      BY <1>2, <2>2 DEF KeyAtEnd, KeyWord, AfterWord, SensitiveKey
    <3>2. results[2] = Go(<<t>>, AfterWord(t), i + 1) /\ results[2].hit
      BY <3>1 DEF Go
    <3> HIDE DEF results
    <3>3. 2 \in hits /\ hits \subseteq {2, 3}
      BY <2>1, <3>2
    <3> HIDE DEF hits
    <3>4. \A n \in hits : (\A m \in hits : n <= m) <=> n = 2
      BY <3>3
    <3>5. Min(hits) = 2 /\ hits # {}
      BY <3>3, <3>4 DEF Min
    <3> QED
      BY <3>2, <3>5 DEF FirstHit, hits
  <2>3. CASE ~KeyWord(t)
    <3>1. ~KeyAtEnd(line, i).hit
      BY <1>1, <2>3 DEF KeyAtEnd, Miss, Prose, Plain, LeadingSep, Alone
    <3>2. ~results[2].hit /\ results[3] = Go(<<t>>, AfterWord(t), i + 1)
      BY <2>3, <3>1 DEF AfterWord
    <3> HIDE DEF results
    <3>3. hits = {3}
      BY <2>1, <3>2
    <3> HIDE DEF hits
    <3>4. Min(hits) = 3 /\ hits # {}
      BY <3>3 DEF Min
    <3> QED
      BY <3>2, <3>4 DEF FirstHit, hits
  <2> QED
    BY <2>2, <2>3
<1>10. ~KeyWord(t) => keep = Go(<<t>>, AfterWord(t), i + 1)
  BY DEF AfterWord
<1> HIDE DEF results
<1>11. RedactAt(line, i, state) =
         CASE Uri(t.val) -> keep [] OTHER -> FirstHit(results)
  BY <1>3, <1>4, <1>6, <1>7 DEF RedactAt, results
<1> QED
  BY <1>8, <1>9, <1>10, <1>11

\* The fold of redact_line, turn by turn.
TurnAt(line, acc, i) ==
  LET step == RedactAt(line, i, acc.state)
  IN  IF i < acc.next THEN acc ELSE [step EXCEPT !.out = acc.out \o @]

AfterTokens(line, state) ==
  CHOOSE after : after = [i \in 0..Len(line) |->
    IF i = 0 THEN Go(<< >>, state, 1) ELSE TurnAt(line, after[i - 1], i)]

LEMMA LineIsLastTurn ==
  ASSUME NEW line, NEW state
  PROVE  Line(line, state) =
           LET done == AfterTokens(line, state)[Len(line)]
           IN  [out |-> done.out, state |-> IF done.state = Tail1 THEN Calm ELSE done.state]
BY DEF Line, AfterTokens, TurnAt

\* What the first i tokens of a line of prose become.
ReadTo(line, state, i) ==
  Go(SubSeq(line, 1, i), IF i = 0 THEN state ELSE AfterWord(line[i]), i + 1)

LEMMA OutIsReplaced ==
  ASSUME NEW hit, NEW tokens, NEW joined, NEW state, NEW next
  PROVE  [[hit |-> hit, out |-> tokens, state |-> state, next |-> next] EXCEPT !.out = joined]
           = [hit |-> hit, out |-> joined, state |-> state, next |-> next]
OBVIOUS

LEMMA OutIsJoined ==
  ASSUME NEW out, NEW tokens, NEW state, NEW next
  PROVE  [Go(tokens, state, next) EXCEPT !.out = out \o @] = Go(out \o tokens, state, next)
<1> DEFINE yes == TRUE
           joined == out \o tokens
<1>1. /\ Go(tokens, state, next) = [hit |-> yes, out |-> tokens, state |-> state, next |-> next]
      /\ Go(joined, state, next) = [hit |-> yes, out |-> joined, state |-> state, next |-> next]
  BY DEF Go
<1>2. out \o Go(tokens, state, next).out = joined
  BY DEF Go
<1> HIDE DEF yes, joined
<1>3. [Go(tokens, state, next) EXCEPT !.out = joined] = Go(joined, state, next)
  BY <1>1, OutIsReplaced
<1> QED
  BY <1>2, <1>3 DEF joined

LEMMA ProseIsRead ==
  ASSUME NEW line, ProseLine(line), NEW state \in Awaiting, NEW i \in 1..Len(line),
         state # Calm => ~LeadingSep(line[1])
  PROVE  TurnAt(line, ReadTo(line, state, i - 1), i) = ReadTo(line, state, i)
<1> DEFINE acc == ReadTo(line, state, i - 1)
<1>1. line \in Seq(Token) /\ Len(line) \in Nat /\ i \in Nat
  BY DEF ProseLine
<1>2. acc.next = i /\ acc.out = SubSeq(line, 1, i - 1)
  BY <1>1 DEF ReadTo, Go
<1>3. acc.state = IF i = 1 THEN state ELSE Calm
  <2>1. acc.state = IF i - 1 = 0 THEN state ELSE AfterWord(line[i - 1])
    BY DEF ReadTo, Go
  <2>2. i # 1 => AfterWord(line[i - 1]) = Calm
    <3>1. i # 1 => i - 1 \in 1..Len(line) /\ i - 1 # Len(line)
      BY <1>1
    <3>2. i # 1 => Prose(line[i - 1])
      BY <3>1 DEF ProseLine
    <3> QED
      BY <3>2 DEF AfterWord, Prose, KeyWord, Plain, LeadingSep, Alone
  <2> QED
    BY <1>1, <2>1, <2>2
<1>4. RedactAt(line, i, acc.state) = Go(<<line[i]>>, AfterWord(line[i]), i + 1)
  <2>1. acc.state \in Awaiting
    BY <1>3 DEF Awaiting
  <2>2. acc.state # Calm => ~LeadingSep(line[i])
    BY <1>3
  <2> HIDE DEF acc
  <2> QED
    BY <2>1, <2>2, ProseTurn
<1>5. SubSeq(line, 1, i - 1) \o <<line[i]>> = SubSeq(line, 1, i)
  <2>1. 1 \in 1..Len(line) /\ i \in 1..Len(line) /\ 1 \in Int
    BY <1>1
  <2> QED
    BY <1>1, <2>1, SubSeqRecursiveSecond
<1>6. TurnAt(line, acc, i) = Go(acc.out \o <<line[i]>>, AfterWord(line[i]), i + 1)
  <2> HIDE DEF acc
  <2>1. ~(i < acc.next)
    BY <1>1, <1>2
  <2> DEFINE word == <<line[i]>>
             awaited == AfterWord(line[i])
             next == i + 1
             soFar == acc.out
  <2>2. TurnAt(line, acc, i) = [Go(word, awaited, next) EXCEPT !.out = soFar \o @]
    BY <1>4, <2>1 DEF TurnAt
  <2> HIDE DEF word, awaited, next, soFar
  <2>3. [Go(word, awaited, next) EXCEPT !.out = soFar \o @] = Go(soFar \o word, awaited, next)
    BY OutIsJoined
  <2>4. TurnAt(line, acc, i) = Go(soFar \o word, awaited, next)
    BY <2>2, <2>3
  <2> QED
    BY <2>4 DEF word, awaited, next, soFar
<1>7. ReadTo(line, state, i) = Go(SubSeq(line, 1, i), AfterWord(line[i]), i + 1)
  BY DEF ReadTo
<1> QED
  BY <1>2, <1>5, <1>6, <1>7

LEMMA LineIsKept ==
  ASSUME NEW line, ProseLine(line), line # << >>, NEW state \in Awaiting,
         state # Calm => ~LeadingSep(line[1])
  PROVE  Line(line, state) = [out |-> line, state |-> AfterWord(line[Len(line)])]
<1> DEFINE last == Len(line)
           after == AfterTokens(line, state)
           Is(f) == f = [i \in 0..last |-> IF i = 0 THEN Go(<< >>, state, 1) ELSE TurnAt(line, f[i - 1], i)]
           Wrong == {i \in Nat : i <= last /\ after[i] # ReadTo(line, state, i)}
<1>1. line \in Seq(Token) /\ last \in Nat /\ last # 0
  BY DEF ProseLine
<1>2. ReadTo(line, state, 0) = Go(<< >>, state, 1)
  <2>1. SubSeq(line, 1, 0) = << >>
    BY SubSeqEmpty, 1 \in Int, 0 \in Int
  <2>2. ReadTo(line, state, 0) = Go(SubSeq(line, 1, 0), state, 0 + 1)
    BY DEF ReadTo
  <2>3. 0 + 1 = 1
    OBVIOUS
  <2> QED
    BY <2>1, <2>2, <2>3
<1>3. \A i \in 1..last : TurnAt(line, ReadTo(line, state, i - 1), i) = ReadTo(line, state, i)
  BY ProseIsRead
<1>4. Is(after)
  <2> DEFINE g == [i \in 0..last |-> ReadTo(line, state, i)]
  <2>1. ASSUME NEW i \in 0..last
        PROVE  ReadTo(line, state, i) = IF i = 0 THEN Go(<< >>, state, 1) ELSE TurnAt(line, g[i - 1], i)
    <3>1. CASE i = 0
      BY <1>2, <3>1
    <3>2. CASE i # 0
      <4>1. i \in 1..last /\ i - 1 \in 0..last
        BY <1>1, <3>2
      <4>2. g[i - 1] = ReadTo(line, state, i - 1)
        BY <4>1
      <4> QED
        BY <1>3, <3>2, <4>1, <4>2
    <3> QED
      BY <3>1, <3>2
  <2>2. Is(g)
    BY <2>1
  <2> QED
    BY <2>2 DEF AfterTokens
<1> HIDE DEF after
<1>5. Wrong = {}
  <2>1. SUFFICES ASSUME Wrong # {} PROVE FALSE
    OBVIOUS
  <2>2. PICK k \in Wrong : \A m \in Wrong : <<m, k>> \notin OpToRel(<, Nat)
    <3>1. Wrong \in SUBSET Nat /\ Wrong # {}
      BY <2>1
    <3> HIDE DEF Wrong
    <3> QED
      BY <3>1, NatLessThanWellFounded, WFMin
  <2>3. k \in 0..last /\ after[k] # ReadTo(line, state, k)
    <3>1. k \in Nat /\ k <= last /\ after[k] # ReadTo(line, state, k)
      BY <2>2
    <3> QED
      BY <1>1, <3>1
  <2>4. k # 0
    <3>1. after[0] = Go(<< >>, state, 1)
      BY <1>1, <1>4
    <3> QED
      BY <1>2, <2>3, <3>1
  <2>5. k \in 1..last /\ k - 1 \in Nat /\ k - 1 <= last /\ k - 1 < k
    BY <1>1, <2>3, <2>4
  <2>6. k - 1 \notin Wrong
    <3>1. k - 1 \in Wrong => <<k - 1, k>> \notin OpToRel(<, Nat)
      BY <2>2
    <3> QED
      BY <2>3, <2>5, <3>1 DEF OpToRel
  <2>7. after[k - 1] = ReadTo(line, state, k - 1)
    BY <2>5, <2>6
  <2>8. after[k] = TurnAt(line, after[k - 1], k)
    BY <1>4, <2>3, <2>4
  <2> QED
    BY <1>3, <2>3, <2>5, <2>7, <2>8
<1>6. after[last] = Go(line, AfterWord(line[last]), last + 1)
  <2>1. after[last] = ReadTo(line, state, last)
    BY <1>1, <1>5
  <2>2. SubSeq(line, 1, last) = line
    BY <1>1, SubSeqFull
  <2> QED
    BY <1>1, <2>1, <2>2 DEF ReadTo
<1>7. AfterWord(line[last]) # Tail1
  BY DEF AfterWord, Tail1, Calm, Await
<1>8. after[last].out = line /\ after[last].state = AfterWord(line[last])
  BY <1>6 DEF Go
<1> QED
  BY <1>7, <1>8, LineIsLastTurn DEF after

LEMMA ProseIsUnquoted ==
  ASSUME NEW line, ProseLine(line)
  PROVE  Unquoted(line) = line
<1>1. line \in Seq(Token)
  BY DEF ProseLine
<1>2. ASSUME NEW i \in 1..Len(line)
      PROVE  line[i].val # "quoted" /\ line[i].val # "quoted-path"
  <2>1. line[i] \in Token /\ (Prose(line[i]) \/ KeyWord(line[i]))
    BY <1>1 DEF ProseLine
  <2> QED
    BY <2>1 DEF Prose, KeyWord, Alone, Token
<1>3. Unquoted(line) = [i \in 1..Len(line) |-> line[i]]
  BY <1>2 DEF Unquoted
<1> QED
  BY <1>1, <1>3

LEMMA BlockIsKept ==
  ASSUME NEW line, ProseLine(line), line # << >>, NEW state \in Awaiting, NEW lines,
         state # Calm => ~LeadingSep(line[1])
  PROVE  Block([lines |-> lines, state |-> state, block |-> "none"], line)
           = [lines |-> Append(lines, line), state |-> AfterWord(line[Len(line)]), block |-> "none"]
<1> DEFINE acc == [lines |-> lines, state |-> state, block |-> "none"]
<1>1. ASSUME NEW i \in 1..Len(line)
      PROVE  line[i].val # "begin-key" /\ line[i].val # "begin-certificate"
  <2>1. line[i] \in Token /\ (Prose(line[i]) \/ KeyWord(line[i]))
    BY DEF ProseLine
  <2> QED
    BY <2>1 DEF Prose, KeyWord, Alone, Token
<1>2. ~Has(line, "begin-key") /\ ~Has(line, "begin-certificate")
  BY <1>1 DEF Has
<1>3. Line(line, state) = [out |-> line, state |-> AfterWord(line[Len(line)])]
  BY LineIsKept
<1>4. acc.block = "none" /\ acc.state = state /\ acc.lines = lines
  OBVIOUS
<1> HIDE DEF acc
<1>5. Block(acc, line) =
        [lines |-> Append(acc.lines, Line(line, acc.state).out),
         state |-> Line(line, acc.state).state, block |-> "none"]
  BY <1>2, <1>4 DEF Block
<1>6. Block(acc, line) = [lines |-> Append(lines, line), state |-> AfterWord(line[Len(line)]), block |-> "none"]
  BY <1>3, <1>4, <1>5
<1> QED
  BY <1>6 DEF acc

LEMMA NoneIsEmpty ==
  ASSUME NEW S, NEW lines \in Seq(S), \A n \in 1..Len(lines) : lines[n] # << >>
  PROVE  WithoutEmpty(lines) = lines
<1> DEFINE places == {n \in 1..Len(lines) : lines[n] # << >>}
           Rank(i) == Cardinality({j \in places : j <= i})
<1>1. places = 1..Len(lines) /\ Len(lines) \in Nat
  OBVIOUS
<1>2. Cardinality(places) = Len(lines)
  <2> DEFINE size == Len(lines)
  <2>1. size \in Int /\ size >= 0 /\ places = 1..size
    BY <1>1
  <2> HIDE DEF size, places
  <2>2. Cardinality(1..size) = size
    BY <2>1, FS_Interval, 1 \in Int
  <2> QED
    BY <2>1, <2>2 DEF size
<1>3. ASSUME NEW i \in places PROVE Rank(i) = i
  <2>1. i \in Nat /\ i >= 1 /\ {j \in places : j <= i} = 1..i
    BY <1>1, <1>3
  <2>2. Cardinality(1..i) = i
    BY <2>1, FS_Interval
  <2> QED
    BY <2>1, <2>2
<1>4. WithoutEmpty(lines) = [n \in 1..Cardinality(places) |-> lines[CHOOSE i \in places : Rank(i) = n]]
  BY DEF WithoutEmpty
<1> HIDE DEF places, Rank
<1>5. ASSUME NEW n \in 1..Len(lines) PROVE (CHOOSE i \in places : Rank(i) = n) = n
  <2>1. \A i \in places : Rank(i) = n <=> i = n
    BY <1>3
  <2> QED
    BY <1>1, <2>1
<1>6. WithoutEmpty(lines) = [n \in 1..Len(lines) |-> lines[n]]
  BY <1>2, <1>4, <1>5
<1> QED
  BY <1>6

\* The texts with nothing to mask.
ProseText(lines) ==
  /\ lines \in Seq(Seq(Token) \ {<< >>})
  /\ \A n \in 1..Len(lines) : ProseLine(lines[n])
  /\ \A n \in 2..Len(lines) : KeyWord(Last(lines[n - 1])) => ~LeadingSep(lines[n][1])

\* The loop of redact_sensitive, line by line.
AfterLines(lines) ==
  CHOOSE after : after = [n \in 0..Len(lines) |->
    IF n = 0 THEN [lines |-> << >>, state |-> Calm, block |-> "none"]
    ELSE Block(after[n - 1], Unquoted(lines[n]))]

\* What the first n lines of prose become.
ShownTo(lines, n) ==
  [lines |-> SubSeq(lines, 1, n), state |-> IF n = 0 THEN Calm ELSE AfterWord(Last(lines[n])),
   block |-> "none"]

LEMMA ProseIsShown ==
  ASSUME NEW lines, ProseText(lines), NEW n \in 1..Len(lines)
  PROVE  Block(ShownTo(lines, n - 1), Unquoted(lines[n])) = ShownTo(lines, n)
<1> DEFINE line == lines[n]
           soFar == SubSeq(lines, 1, n - 1)
           state == IF n - 1 = 0 THEN Calm ELSE AfterWord(Last(lines[n - 1]))
<1>1. Len(lines) \in Nat /\ n \in Nat /\ lines \in Seq(Seq(Token) \ {<< >>})
  BY DEF ProseText
<1>2. ProseLine(line) /\ line # << >>
  BY <1>1 DEF ProseText
<1>3. Unquoted(line) = line
  BY <1>2, ProseIsUnquoted
<1>4. state \in Awaiting /\ (state # Calm => ~LeadingSep(line[1]))
  <2>1. CASE n = 1
    BY <2>1 DEF Awaiting
  <2>2. CASE n # 1
    <3>1. state = AfterWord(Last(lines[n - 1])) /\ n \in 2..Len(lines)
      BY <1>1, <2>2
    <3>2. KeyWord(Last(lines[n - 1])) => ~LeadingSep(line[1])
      BY <3>1 DEF ProseText
    <3> HIDE DEF state
    <3> QED
      BY <3>1, <3>2 DEF AfterWord, Awaiting
  <2> QED
    BY <1>1, <2>1, <2>2
<1>5. ShownTo(lines, n - 1) = [lines |-> soFar, state |-> state, block |-> "none"]
  BY DEF ShownTo
<1>6. Append(soFar, line) = SubSeq(lines, 1, n)
  <2>1. 1 \in 1..Len(lines) /\ 1 \in Int /\ n - 1 \in Int
    BY <1>1
  <2>2. SubSeq(lines, 1, n) = soFar \o <<line>>
    BY <1>1, <2>1, SubSeqRecursiveSecond
  <2>3. soFar \in Seq(Seq(Token) \ {<< >>})
    <3>1. \A k \in 1..(n - 1) : k \in 1..Len(lines)
      BY <1>1
    <3> QED
      BY <1>1, <2>1, <3>1, SubSeqProperties
  <2> QED
    BY <1>1, <2>2, <2>3, AppendIsConcat
<1> HIDE DEF state, soFar, line
<1>7. Block([lines |-> soFar, state |-> state, block |-> "none"], line)
        = [lines |-> Append(soFar, line), state |-> AfterWord(line[Len(line)]), block |-> "none"]
  BY <1>2, <1>4, BlockIsKept
<1>8. ShownTo(lines, n) =
        [lines |-> SubSeq(lines, 1, n), state |-> AfterWord(line[Len(line)]), block |-> "none"]
  BY <1>1 DEF ShownTo, Last, line
<1> QED
  BY <1>3, <1>5, <1>6, <1>7, <1>8 DEF line

LEMMA ExcerptIsKept ==
  ASSUME NEW lines, ProseText(lines)
  PROVE  Excerpt(lines) = lines
<1> DEFINE last == Len(lines)
           begin == [lines |-> << >>, state |-> Calm, block |-> "none"]
           after == AfterLines(lines)
           Is(f) == f = [n \in 0..last |-> IF n = 0 THEN begin ELSE Block(f[n - 1], Unquoted(lines[n]))]
           Wrong == {n \in Nat : n <= last /\ after[n] # ShownTo(lines, n)}
<1>1. lines \in Seq(Seq(Token) \ {<< >>}) /\ last \in Nat
  BY DEF ProseText
<1>2. ShownTo(lines, 0) = begin
  <2>1. SubSeq(lines, 1, 0) = << >>
    BY SubSeqEmpty, 1 \in Int, 0 \in Int
  <2> QED
    BY <2>1 DEF ShownTo
<1>3. \A n \in 1..last : Block(ShownTo(lines, n - 1), Unquoted(lines[n])) = ShownTo(lines, n)
  BY ProseIsShown
<1>4. Is(after)
  <2> DEFINE g == [n \in 0..last |-> ShownTo(lines, n)]
  <2>1. ASSUME NEW n \in 0..last
        PROVE  ShownTo(lines, n) = IF n = 0 THEN begin ELSE Block(g[n - 1], Unquoted(lines[n]))
    <3>1. CASE n = 0
      BY <1>2, <3>1
    <3>2. CASE n # 0
      <4>1. n \in 1..last /\ n - 1 \in 0..last
        BY <1>1, <3>2
      <4>2. g[n - 1] = ShownTo(lines, n - 1)
        BY <4>1
      <4> QED
        BY <1>3, <3>2, <4>1, <4>2
    <3> QED
      BY <3>1, <3>2
  <2>2. Is(g)
    BY <2>1
  <2> QED
    BY <2>2 DEF AfterLines
<1>5. Excerpt(lines) = WithoutEmpty(after[last].lines)
  BY DEF Excerpt, AfterLines
<1> HIDE DEF after, begin
<1>6. Wrong = {}
  <2>1. SUFFICES ASSUME Wrong # {} PROVE FALSE
    OBVIOUS
  <2>2. PICK k \in Wrong : \A m \in Wrong : <<m, k>> \notin OpToRel(<, Nat)
    <3>1. Wrong \in SUBSET Nat /\ Wrong # {}
      BY <2>1
    <3> HIDE DEF Wrong
    <3> QED
      BY <3>1, NatLessThanWellFounded, WFMin
  <2>3. k \in 0..last /\ after[k] # ShownTo(lines, k)
    <3>1. k \in Nat /\ k <= last /\ after[k] # ShownTo(lines, k)
      BY <2>2
    <3> QED
      BY <1>1, <3>1
  <2>4. k # 0
    <3>1. after[0] = begin
      BY <1>1, <1>4
    <3> QED
      BY <1>2, <2>3, <3>1
  <2>5. k \in 1..last /\ k - 1 \in Nat /\ k - 1 <= last /\ k - 1 < k
    BY <1>1, <2>3, <2>4
  <2>6. k - 1 \notin Wrong
    <3>1. k - 1 \in Wrong => <<k - 1, k>> \notin OpToRel(<, Nat)
      BY <2>2
    <3> QED
      BY <2>3, <2>5, <3>1 DEF OpToRel
  <2>7. after[k - 1] = ShownTo(lines, k - 1)
    BY <2>5, <2>6
  <2>8. after[k] = Block(after[k - 1], Unquoted(lines[k]))
    BY <1>4, <2>3, <2>4
  <2> QED
    BY <1>3, <2>3, <2>5, <2>7, <2>8
<1>7. after[last].lines = lines
  <2>1. after[last] = ShownTo(lines, last)
    BY <1>1, <1>6
  <2>2. SubSeq(lines, 1, last) = lines
    BY <1>1, SubSeqFull
  <2> QED
    BY <2>1, <2>2 DEF ShownTo
<1>8. \A n \in 1..last : lines[n] # << >>
  BY <1>1
<1> QED
  BY <1>1, <1>5, <1>7, <1>8, NoneIsEmpty

\* What is recorded is what the excerpt makes of the text.
TextInd ==
  /\ text \in Seq(Seq(Token) \ {<< >>})
  /\ once = << >> \/ once = Excerpt(text)

LEMMA TextBegins == InitExcerpt => TextInd
<1> SUFFICES ASSUME InitExcerpt PROVE TextInd
  OBVIOUS
<1> DEFINE Shaped(shape, token) == [n \in DOMAIN shape |-> [i \in 1..shape[n] |-> token[<<n, i>>]]]
<1>1. PICK a \in Alphabets : \E shape \in a.shapes : \E token \in [Cells(shape) -> a.tokens] :
        text = Shaped(shape, token)
  BY DEF InitExcerpt
<1>2. PICK shape \in a.shapes : \E token \in [Cells(shape) -> a.tokens] : text = Shaped(shape, token)
  BY <1>1
<1>3. PICK token \in [Cells(shape) -> a.tokens] : text = Shaped(shape, token)
  BY <1>2
<1>4. shape \in Seq(Nat \ {0}) /\ a.tokens \subseteq Token
  BY AlphabetsAssumption
<1>5. ASSUME NEW n \in DOMAIN shape
      PROVE  [i \in 1..shape[n] |-> token[<<n, i>>]] \in Seq(Token) \ {<< >>}
  <2>1. shape[n] \in Nat \ {0}
    BY <1>4
  <2>2. ASSUME NEW i \in 1..shape[n] PROVE token[<<n, i>>] \in Token
    <3>1. <<n, i>> \in Cells(shape)
      BY DEF Cells
    <3> QED
      BY <1>3, <1>4, <3>1
  <2> DEFINE Cell(i) == token[<<n, i>>]
             line == [i \in 1..shape[n] |-> Cell(i)]
  <2>3. \A i \in 1..shape[n] : Cell(i) \in Token
    BY <2>2
  <2> HIDE DEF Cell
  <2>4. line \in Seq(Token) /\ Len(line) = shape[n]
    BY <2>1, <2>3
  <2>5. line # << >>
    BY <2>1, <2>4
  <2> QED
    BY <2>4, <2>5 DEF Cell
<1>6. text \in Seq(Seq(Token) \ {<< >>})
  <2>1. DOMAIN shape = 1..Len(shape) /\ Len(shape) \in Nat
    BY <1>4
  <2> DEFINE LineOf(n) == [i \in 1..shape[n] |-> token[<<n, i>>]]
  <2>2. \A n \in 1..Len(shape) : LineOf(n) \in Seq(Token) \ {<< >>}
    BY <1>5, <2>1
  <2>3. text = [n \in 1..Len(shape) |-> LineOf(n)]
    BY <1>3, <2>1
  <2> HIDE DEF LineOf
  <2> QED
    BY <2>1, <2>2, <2>3
<1> QED
  BY <1>6 DEF TextInd, InitExcerpt

LEMMA TextStays == TextInd /\ [NextExcerpt]_excerptVars => TextInd'
<1> SUFFICES ASSUME TextInd, [NextExcerpt]_excerptVars PROVE TextInd'
  OBVIOUS
<1>1. CASE RecordExcerpt
  BY <1>1 DEF RecordExcerpt, TextInd
<1>2. CASE ShowExcerpt
  BY <1>2 DEF ShowExcerpt, TextInd
<1>3. CASE UNCHANGED excerptVars
  BY <1>3 DEF excerptVars, TextInd
<1> QED
  BY <1>1, <1>2, <1>3 DEF NextExcerpt

LEMMA TextIsKept == TextInd => ProseIsKept
<1> SUFFICES ASSUME TextInd, once # << >>,
                    \A n \in 1..Len(text) : \A i \in 1..Len(text[n]) :
                      Prose(text[n][i]) \/ (i = Len(text[n]) /\ KeyWord(text[n][i])),
                    \A n \in 2..Len(text) : KeyWord(Last(text[n - 1])) => ~LeadingSep(text[n][1])
             PROVE  once = text
  BY DEF ProseIsKept
<1>1. text \in Seq(Seq(Token) \ {<< >>})
  BY DEF TextInd
<1>2. ProseText(text)
  BY <1>1 DEF ProseText, ProseLine
<1> QED
  BY <1>2, ExcerptIsKept DEF TextInd

\* A text with nothing to mask is recorded as it is, whatever its length: words,
\* separators, and keys at the end of a line that no separator follows (redact_line,
\* redact_expected_delimiter, safe_agent_excerpt).
THEOREM ProseStays == Excerpts => []ProseIsKept
<1>1. Excerpts => []TextInd
  BY TextBegins, TextStays, PTL DEF Excerpts
<1> QED
  BY <1>1, TextIsKept, PTL
=============================================================================
