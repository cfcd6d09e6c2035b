------------------------------- MODULE MCFleet -------------------------------
(***************************************************************************)
(* Small instances for TLC of what the desktop waits for: the threads of    *)
(* its remote sources, and the processes that it runs.  A behaviour follows *)
(* one of the two and leaves the other alone.                               *)
(***************************************************************************)
EXTENDS SourceFleet, BoundedProcess

VARIABLE part

MCInit ==
  /\ part \in {"fleet", "process"}
  /\ InitFleet
  /\ InitProcess
  /\ part = "fleet" => runner = "probe" /\ holders = {"child", "descendant"}

OfFleet(A) == part = "fleet" /\ A /\ UNCHANGED <<part, processVars>>
OfProcess(A) == part = "process" /\ A /\ UNCHANGED <<part, fleetVars>>

MCNext == OfFleet(NextFleet) \/ OfProcess(NextProcess)

\* The fairness of FairFleet and of FairProcess, each for its own part.
MCFairness ==
  /\ WF_fleetVars(OfFleet(WorkerStep))
  /\ \A a \in Aliases : WF_fleetVars(OfFleet(JobStep(a))) /\ WF_fleetVars(OfFleet(ProbeEnds(a)))
  /\ WF_processVars(OfProcess(ReadOutput)) /\ WF_processVars(OfProcess(ReadEnd))
  /\ WF_processVars(OfProcess(Polls)) /\ WF_processVars(OfProcess(SeeTermination \/ GraceEnds))
  /\ WF_processVars(OfProcess(Kill)) /\ WF_processVars(OfProcess(Join))

MCSpec == MCInit /\ [][MCNext]_<<part, fleetVars, processVars>> /\ MCFairness
===============================================================================
