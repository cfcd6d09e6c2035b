------------------------------ MODULE MCBridge ------------------------------
(***************************************************************************)
(* Small instances for TLC of the way between a remote spool and the        *)
(* desktop: the frames of a bridge and their receiver, one source end to    *)
(* end, the bytes that carry the frames, and what the desktop makes of the  *)
(* host.  A behaviour follows one of the four and leaves the others alone.  *)
(***************************************************************************)
EXTENDS RemoteDelivery, FrameStream, SshJudgement

CONSTANTS k1, idA, idB, b1

VARIABLE part

MCEventIds == SourceIds \X (1..MaxSequence)

desktopVars == <<storeVars, userVars, job, offered, breaks>>
deliveryVars == <<desktopVars, remoteVars, stream>>

MCInit ==
  /\ part \in {"bridge", "delivery", "bytes", "host"}
  /\ Begin /\ InitFrames
  /\ InitSsh /\ (part # "host" => world = "fine" /\ noise = "none")

\* End to end, two events and two frames on their way are enough.
Smaller == highWatermark' <= 2 /\ Len(channel') <= 2

MCNext ==
  /\ UNCHANGED part
  /\ \/ part = "bridge" /\ B!Next /\ UNCHANGED <<desktopVars, frameVars, sshVars>>
     \/ part = "delivery" /\ Step /\ Smaller /\ UNCHANGED <<frameVars, sshVars>>
     \/ part = "bytes" /\ NextFrames /\ UNCHANGED <<deliveryVars, sshVars>>
     \/ part = "host" /\ NextSsh /\ UNCHANGED <<deliveryVars, frameVars>>

MCSpec == MCInit /\ [][MCNext]_<<part, deliveryVars, frameVars, sshVars>>
===============================================================================
