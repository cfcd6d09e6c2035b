---------------------------- MODULE Banner_proofs ----------------------------
(***************************************************************************)
(* Proofs about Banner for any number of threads, banners, claims, shows,  *)
(* failures and attempts: that it implements BannerBoard, and BannerIsOwn. *)
(*                                                                         *)
(* The argument.  The queue is orderly (BannerBoard_proofs).  A claim is   *)
(* at most the last token, so a new one is nobody's, and it outlives no    *)
(* banner, so the thread whose claim is current has its banner still on    *)
(* the queue.  Versions beyond the last one shown are fresh, so the sound  *)
(* that is pending was neither heard nor dismissed.  There is one          *)
(* presentation at most.  And dirty is set during one only by who has just *)
(* set the attempts to none, under the lock that a presentation needs to   *)
(* count: the attempts never pass their limit, if that is two at least.    *)
(*                                                                         *)
(* Before it, the sources whose agents and questions the desktop shows     *)
(* (SourceFleet): whenever a view is no longer connected its epoch moves   *)
(* or another source has come or gone (Moves), so what was probed in the   *)
(* present epoch was probed in the present period (ProbesAreTimely); and   *)
(* what is found, reported or offered has been presented since the source  *)
(* was added (OffersArePresented), because nobody adds it again before its *)
(* thread and its reports are gone.                                        *)
(***************************************************************************)
EXTENDS Banner, BannerBoard_proofs, SourceFleet

-------------------------------------------------------------------------------
(* SourceFleet *)

ViewRecords == [status : {"none", "waiting", "connected", "error"}, asks : BOOLEAN]
ThreadRecords == [at : {"none", "wait", "dial", "connected", "report", "parked", "ended"},
            generation : Int, stop : BOOLEAN, finds : Identities \union {"none"}]
Reports == [alias : Aliases, status : {"waiting", "connected", "error"}, identity : Identities \union {"none"}]
ProbeRecords == [at : {"none", "running", "ended"}, epoch : Int, period : Nat]
Findings == [alias : Aliases, epoch : Int, period : Nat]

SettingTypes ==
  /\ app \in {"running", "stopping", "gone"}
  /\ worker \in {"idle", "sync", "drain", "agents"}
  /\ config \in [Aliases -> {Absent} \union 0..MaxGeneration]
  /\ pinned \in [Aliases -> Identities \union {"none"}]
  /\ presented \in [Aliases -> SUBSET Identities]

ViewTypes ==
  /\ view \in [Aliases -> ViewRecords]
  /\ epoch \in [Aliases -> Int] /\ rows \in [Aliases -> Nat] /\ period \in [Aliases -> Nat]
  /\ afresh \subseteq Aliases

OfferTypes == offered \in [Aliases -> Identities \union {"none"}]

ThreadTypes ==
  /\ job \in [Aliases -> ThreadRecords]
  /\ updates \in Seq(Reports) /\ Len(updates) <= Capacity

ProbeTypes ==
  /\ probe \in [Aliases -> ProbeRecords]
  /\ results \in Seq(Findings) /\ Len(results) <= Capacity

\* Who is shown is configured; who is not shown has nothing.
ShownAreConfigured ==
  \A a \in Aliases :
    /\ Listed(a) => Configured(a)
    /\ ~Listed(a) => rows[a] = 0 /\ ~view[a].asks

\* One thread is waited for.
OneIsJoined ==
  \A a, b \in Aliases :
    job[a].stop /\ job[a].at # "ended" /\ job[b].stop /\ job[b].at # "ended" => a = b

\* What was probed in the present epoch was probed in the present period.
Timely(a, e, n) ==
  /\ e <= epoch[a]
  /\ e = epoch[a] /\ a \notin afresh => view[a].status = "connected" /\ n = period[a]

ProbesAreTimely ==
  /\ \A a \in Aliases : probe[a].at # "none" => Timely(a, probe[a].epoch, probe[a].period)
  /\ \A i \in DOMAIN results : Timely(results[i].alias, results[i].epoch, results[i].period)

\* What is on its way to be offered, or is offered, was presented.
Presented(a, identity) == identity \in presented[a] \union {"none"}

FoundArePresented ==
  \A a \in Aliases : Presented(a, job[a].finds) /\ (job[a].at = "none" => job[a].finds = "none")
ToldArePresented == \A i \in DOMAIN updates : Presented(updates[i].alias, updates[i].identity)
OffersArePresented == \A a \in Aliases : view[a].asks => Presented(a, offered[a])

FleetInd ==
  /\ SettingTypes /\ ViewTypes /\ OfferTypes /\ ThreadTypes /\ ProbeTypes
  /\ ShownAreConfigured /\ OneIsJoined /\ ProbesAreTimely /\ AgentsBelongToConnection
  /\ FoundArePresented /\ ToldArePresented /\ OffersArePresented

-----------------------------------------------------------------------------
\* What try_send does to a queue.
LEMMA SentIs ==
  ASSUME NEW S, NEW channel \in Seq(S), NEW message \in S, Len(channel) <= Capacity
  PROVE  /\ Sent(channel, message) \in Seq(S) /\ Len(Sent(channel, message)) <= Capacity
         /\ \A i \in DOMAIN Sent(channel, message) :
              Sent(channel, message)[i] = message \/ \E j \in DOMAIN channel : Sent(channel, message)[i] = channel[j]
<1>1. Capacity \in Nat /\ Len(channel) \in Nat /\ DOMAIN channel = 1..Len(channel)
  BY FleetAssumption, LenProperties
<1>2. CASE Len(channel) < Capacity
  <2>1. Sent(channel, message) = Append(channel, message)
    BY <1>2 DEF Sent
  <2>2. /\ Append(channel, message) \in Seq(S) /\ Len(Append(channel, message)) = Len(channel) + 1
        /\ \A i \in 1..Len(channel) : Append(channel, message)[i] = channel[i]
        /\ Append(channel, message)[Len(channel) + 1] = message
    BY AppendProperties
  <2>3. DOMAIN Append(channel, message) = 1..(Len(channel) + 1)
    BY <2>2, LenProperties
  <2>4. \A i \in 1..(Len(channel) + 1) : i \in 1..Len(channel) \/ i = Len(channel) + 1
    BY <1>1
  <2>5. Len(channel) + 1 <= Capacity
    BY <1>1, <1>2
  <2> QED
    BY <1>1, <2>1, <2>2, <2>3, <2>4, <2>5
<1>3. CASE ~(Len(channel) < Capacity)
  <2>1. Sent(channel, message) = channel
    BY <1>3 DEF Sent
  <2> QED
    BY <2>1
<1> QED
  BY <1>2, <1>3

\* What is left behind the head of a channel.
LEMMA TailIs ==
  ASSUME NEW S, NEW channel \in Seq(S), channel # << >>, Len(channel) <= Capacity
  PROVE  /\ Head(channel) \in S /\ 1 \in DOMAIN channel /\ Head(channel) = channel[1]
         /\ Tail(channel) \in Seq(S) /\ Len(Tail(channel)) <= Capacity
         /\ \A i \in DOMAIN Tail(channel) : \E j \in DOMAIN channel : Tail(channel)[i] = channel[j]
<1>1. /\ Capacity \in Nat /\ Len(channel) \in Nat /\ DOMAIN channel = 1..Len(channel)
  BY FleetAssumption, LenProperties
<1>2. /\ Head(channel) \in S /\ Tail(channel) \in Seq(S) /\ Len(Tail(channel)) = Len(channel) - 1
      /\ \A i \in 1..Len(Tail(channel)) : Tail(channel)[i] = channel[i + 1]
      /\ Head(channel) = channel[1]
  BY HeadTailProperties
<1>3. DOMAIN Tail(channel) = 1..(Len(channel) - 1)
  BY <1>2, LenProperties
<1>4. Len(channel) # 0
  BY EmptySeq
<1>5. 1 \in 1..Len(channel) /\ Len(channel) - 1 <= Capacity /\ \A i \in 1..(Len(channel) - 1) : i + 1 \in 1..Len(channel)
  BY <1>1, <1>4
<1> QED
  BY <1>1, <1>2, <1>3, <1>5

\* A queue to which something was sent has what was presented, if what was sent was.
LEMMA QueueStays ==
  ASSUME ThreadTypes, ToldArePresented, \A b \in Aliases : presented[b] \subseteq presented'[b],
         \/ updates' = updates
         \/ \E message \in Reports :
              /\ updates' = Sent(updates, message)
              /\ message.identity \in presented'[message.alias] \union {"none"}
  PROVE  updates' \in Seq(Reports) /\ Len(updates') <= Capacity /\ ToldArePresented'
<1>1. updates \in Seq(Reports) /\ Len(updates) <= Capacity
  BY DEF ThreadTypes
<1>2. \A j \in DOMAIN updates : updates[j] \in Reports /\ updates[j].alias \in Aliases
  <2>1. DOMAIN updates = 1..Len(updates) /\ \A j \in 1..Len(updates) : updates[j] \in Reports
    BY <1>1, LenProperties, ElementOfSeq
  <2> QED
    BY <2>1 DEF Reports
<1>3. \A j \in DOMAIN updates : updates[j].identity \in presented'[updates[j].alias] \union {"none"}
  BY <1>2 DEF ToldArePresented, Presented
<1>4. CASE updates' = updates
  BY <1>1, <1>3, <1>4 DEF ToldArePresented, Presented
<1>5. ASSUME NEW message \in Reports, updates' = Sent(updates, message),
             message.identity \in presented'[message.alias] \union {"none"}
      PROVE  updates' \in Seq(Reports) /\ Len(updates') <= Capacity /\ ToldArePresented'
  <2>1. /\ updates' \in Seq(Reports) /\ Len(updates') <= Capacity
        /\ \A i \in DOMAIN updates' : updates'[i] = message \/ \E j \in DOMAIN updates : updates'[i] = updates[j]
    BY <1>1, <1>5, SentIs
  <2> QED
    BY <1>3, <1>5, <2>1 DEF ToldArePresented, Presented
<1> QED
  BY <1>4, <1>5

-----------------------------------------------------------------------------
\* The threads of the sources: what they find they have been presented with.
LEMMA ThreadStepsKeep ==
  ASSUME FleetInd, NEW a \in Aliases, Dial(a) \/ Handshake(a) \/ Drop(a) \/ Require(a) \/ EndJob(a)
  PROVE  FleetInd' /\ \A b \in Aliases : pinned[b] = "none" \/ pinned'[b] = pinned[b]
<1>1. /\ app' = app /\ config' = config /\ worker' = worker /\ UNCHANGED <<view, epoch, offered, rows, period, afresh>>
      /\ probe' = probe /\ results' = results
  BY DEF Dial, Handshake, Drop, Require, EndJob, OnlyJob, viewVars, probeVars
<1>2. /\ job \in [Aliases -> ThreadRecords] /\ updates \in Seq(Reports) /\ Len(updates) <= Capacity
      /\ presented \in [Aliases -> SUBSET Identities] /\ pinned \in [Aliases -> Identities \union {"none"}]
      /\ Presented(a, job[a].finds)
  BY DEF FleetInd, ThreadTypes, SettingTypes, FoundArePresented
<1>3. job[a].finds \in Identities \union {"none"}
  BY <1>2 DEF ThreadRecords
<1>4. /\ presented' \in [Aliases -> SUBSET Identities]
      /\ \A b \in Aliases : presented[b] \subseteq presented'[b]
  <2>1. presented' = presented \/ \E identity \in Identities : presented' = [presented EXCEPT ![a] = @ \union {identity}]
    BY DEF Dial, Handshake, Drop, Require, EndJob
  <2> QED
    BY <1>2, <2>1
<1>5. /\ pinned' \in [Aliases -> Identities \union {"none"}]
      /\ \A b \in Aliases : pinned[b] = "none" \/ pinned'[b] = pinned[b]
  <2>1. pinned' = pinned \/ \E identity \in Identities :
          pinned[a] \in {"none", identity} /\ pinned' = [pinned EXCEPT ![a] = identity]
    BY DEF Dial, Handshake, Drop, Require, EndJob
  <2> QED
    BY <1>2, <2>1
<1>6. /\ job' \in [Aliases -> ThreadRecords] /\ job'[a].stop = job[a].stop /\ job[a].at # "ended"
      /\ job'[a].at # "none"
      /\ \A b \in Aliases : b # a => job'[b] = job[b]
      /\ job'[a].finds \in presented'[a] \union {"none"}
  <2>1. job[a].at # "ended"
    BY DEF Dial, Handshake, Drop, Require, EndJob, Heeds
  <2>2. \/ \E place \in {"wait", "dial", "connected", "report", "parked", "ended"} :
             job' = [job EXCEPT ![a].at = place]
        \/ \E identity \in Identities :
             /\ job' = [job EXCEPT ![a].at = "report", ![a].finds = identity]
             /\ presented' = [presented EXCEPT ![a] = @ \union {identity}]
    BY DEF Dial, Handshake, Drop, Require, EndJob, JobAt
  <2>3. CASE \E place \in {"wait", "dial", "connected", "report", "parked", "ended"} :
               job' = [job EXCEPT ![a].at = place]
    <3>1. PICK place \in {"wait", "dial", "connected", "report", "parked", "ended"} :
            job' = [job EXCEPT ![a].at = place]
      BY <2>3
    <3>2. /\ job' \in [Aliases -> ThreadRecords] /\ job'[a].stop = job[a].stop /\ job'[a].finds = job[a].finds
          /\ job'[a].at = place
          /\ \A b \in Aliases : b # a => job'[b] = job[b]
      <4> DEFINE r == [job[a] EXCEPT !.at = place]
      <4>1. job[a] \in ThreadRecords
        BY <1>2
      <4>2. r \in ThreadRecords /\ r.stop = job[a].stop /\ r.finds = job[a].finds /\ r.at = place
        BY <4>1 DEF ThreadRecords
      <4>3. job' = [job EXCEPT ![a] = r]
        BY <3>1
      <4> HIDE DEF r
      <4> QED
        BY <1>2, <4>2, <4>3
    <3> QED
      BY <1>2, <1>4, <2>1, <3>2 DEF Presented
  <2>4. CASE \E identity \in Identities :
               /\ job' = [job EXCEPT ![a].at = "report", ![a].finds = identity]
               /\ presented' = [presented EXCEPT ![a] = @ \union {identity}]
    <3>1. PICK identity \in Identities :
               /\ job' = [job EXCEPT ![a].at = "report", ![a].finds = identity]
               /\ presented' = [presented EXCEPT ![a] = @ \union {identity}]
      BY <2>4
    <3>2. /\ job' \in [Aliases -> ThreadRecords] /\ job'[a].stop = job[a].stop /\ job'[a].finds = identity
          /\ job'[a].at = "report"
          /\ \A b \in Aliases : b # a => job'[b] = job[b]
      <4> DEFINE r == [job[a] EXCEPT !.at = "report", !.finds = identity]
      <4>1. job[a] \in ThreadRecords
        BY <1>2
      <4>2. r \in ThreadRecords /\ r.stop = job[a].stop /\ r.finds = identity /\ r.at = "report"
        BY <4>1 DEF ThreadRecords
      <4>3. job' = [job EXCEPT ![a] = r]
        BY <3>1
      <4> HIDE DEF r
      <4> QED
        BY <1>2, <4>2, <4>3
    <3>3. identity \in presented'[a]
      BY <1>2, <3>1
    <3> QED
      BY <2>1, <3>2, <3>3
  <2> QED
    BY <2>2, <2>3, <2>4
<1>7. updates' \in Seq(Reports) /\ Len(updates') <= Capacity /\ ToldArePresented'
  <2>1. /\ Report(a, "waiting", "none") \in Reports /\ Report(a, "connected", "none") \in Reports
        /\ Report(a, "error", job[a].finds) \in Reports
        /\ Report(a, "waiting", "none").identity = "none" /\ Report(a, "connected", "none").identity = "none"
        /\ Report(a, "error", job[a].finds).identity = job[a].finds /\ Report(a, "error", job[a].finds).alias = a
    BY <1>3 DEF Report, Reports
  <2>2. \/ updates' = updates
        \/ updates' = Sent(updates, Report(a, "waiting", "none"))
        \/ updates' = Sent(updates, Report(a, "connected", "none"))
        \/ updates' = Sent(updates, Report(a, "error", job[a].finds))
    BY DEF Dial, Handshake, Drop, Require, EndJob, Sent
  <2>3. job[a].finds \in presented'[a] \union {"none"}
    BY <1>2, <1>4 DEF Presented
  <2>4. \/ updates' = updates
        \/ \E message \in Reports :
             /\ updates' = Sent(updates, message)
             /\ message.identity \in presented'[message.alias] \union {"none"}
    BY <2>1, <2>2, <2>3
  <2> QED
    BY <1>4, <2>4, QueueStays DEF FleetInd
<1>8. SettingTypes' /\ ViewTypes' /\ OfferTypes' /\ ThreadTypes' /\ ProbeTypes'
  BY <1>1, <1>4, <1>5, <1>6, <1>7 DEF FleetInd, SettingTypes, ViewTypes, OfferTypes, ThreadTypes, ProbeTypes
<1>9. ShownAreConfigured' /\ AgentsBelongToConnection'
  BY <1>1 DEF FleetInd, ShownAreConfigured, Listed, Configured, AgentsBelongToConnection
<1>10. ProbesAreTimely'
  BY <1>1 DEF FleetInd, ProbesAreTimely, Timely
<1>11. OneIsJoined'
  <2>1. \A b \in Aliases : job'[b].stop /\ job'[b].at # "ended" => job[b].stop /\ job[b].at # "ended"
    BY <1>6
  <2> QED
    BY <2>1 DEF FleetInd, OneIsJoined
<1>12. FoundArePresented'
  BY <1>4, <1>6 DEF FleetInd, FoundArePresented, Presented
<1>13. OffersArePresented'
  BY <1>1, <1>4 DEF FleetInd, OffersArePresented, Presented
<1> QED
  BY <1>5, <1>7, <1>8, <1>9, <1>10, <1>11, <1>12, <1>13 DEF FleetInd

-----------------------------------------------------------------------------
\* How a view may change: when it stops to be shown as connected and is not excepted, its
\* epoch moves; when the epoch moves, the agents go.
Moves(b) ==
  /\ epoch'[b] >= epoch[b]
  /\ epoch'[b] # epoch[b] => rows'[b] = 0
  /\ epoch'[b] = epoch[b] /\ b \notin afresh' =>
       /\ b \notin afresh
       /\ rows'[b] \in {rows[b], 0}
       /\ view[b].status = "connected" => view'[b].status = "connected" /\ period'[b] = period[b]

TimelyThen(b, e, n) ==
  /\ e <= epoch'[b]
  /\ e = epoch'[b] /\ b \notin afresh' => view'[b].status = "connected" /\ n = period'[b]

\* What was timely stays so when the views change like that.
LEMMA TimelyStays ==
  ASSUME ViewTypes, ViewTypes', NEW b \in Aliases, Moves(b), NEW e \in Int, NEW n, Timely(b, e, n)
  PROVE  TimelyThen(b, e, n)
<1>1. epoch[b] \in Int /\ epoch'[b] \in Int
  BY DEF ViewTypes
<1>2. e <= epoch'[b]
  BY <1>1 DEF Moves, Timely
<1>3. ASSUME e = epoch'[b], b \notin afresh' PROVE view'[b].status = "connected" /\ n = period'[b]
  <2>1. e = epoch[b] /\ epoch'[b] = epoch[b]
    BY <1>1, <1>3 DEF Moves, Timely
  <2> QED
    BY <1>3, <2>1 DEF Moves, Timely
<1> QED
  BY <1>2, <1>3 DEF TimelyThen

\* The findings that wait are of a source, an epoch and a period.
LEMMA FindingsAre ==
  ASSUME ProbeTypes, NEW i \in DOMAIN results
  PROVE  results[i].alias \in Aliases /\ results[i].epoch \in Int /\ results[i].period \in Nat
<1>1. results \in Seq(Findings)
  BY DEF ProbeTypes
<1>2. DOMAIN results = 1..Len(results) /\ \A j \in 1..Len(results) : results[j] \in Findings
  BY <1>1, LenProperties, ElementOfSeq
<1> QED
  BY <1>2 DEF Findings

\* What such changes leave of the probes and of the agents that are shown.
LEMMA MovesKeep ==
  ASSUME FleetInd, ViewTypes', \A b \in Aliases : Moves(b), probe' = probe, results' = results
  PROVE  ProbesAreTimely' /\ AgentsBelongToConnection'
<1>1. ViewTypes /\ ProbeTypes /\ ProbesAreTimely /\ AgentsBelongToConnection
  BY DEF FleetInd
<1>2. ASSUME NEW b \in Aliases, probe[b].at # "none" PROVE TimelyThen(b, probe[b].epoch, probe[b].period)
  <2>1. Timely(b, probe[b].epoch, probe[b].period)
    BY <1>1, <1>2 DEF ProbesAreTimely
  <2>2. probe[b].epoch \in Int
    <3>1. probe[b] \in ProbeRecords
      BY <1>1 DEF ProbeTypes
    <3> QED
      BY <3>1 DEF ProbeRecords
  <2> QED
    BY <1>1, <2>1, <2>2, TimelyStays
<1>3. ASSUME NEW i \in DOMAIN results
      PROVE  TimelyThen(results[i].alias, results[i].epoch, results[i].period)
  <2>1. Timely(results[i].alias, results[i].epoch, results[i].period)
    BY <1>1 DEF ProbesAreTimely
  <2>2. results[i].alias \in Aliases /\ results[i].epoch \in Int
    BY <1>1, FindingsAre
  <2> QED
    BY <1>1, <2>1, <2>2, TimelyStays
<1>4. ProbesAreTimely'
  <2>1. \A b \in Aliases : probe'[b].at # "none" => TimelyThen(b, probe'[b].epoch, probe'[b].period)
    BY <1>2
  <2>2. \A i \in DOMAIN results' : TimelyThen(results'[i].alias, results'[i].epoch, results'[i].period)
    BY <1>3
  <2> QED
    BY <2>1, <2>2 DEF ProbesAreTimely, Timely, TimelyThen
<1>5. AgentsBelongToConnection'
  <2> SUFFICES ASSUME NEW b \in Aliases, b \notin afresh', rows'[b] # 0
               PROVE  view'[b].status = "connected" /\ rows'[b] = period'[b]
    BY DEF AgentsBelongToConnection
  <2>1. epoch'[b] = epoch[b] /\ b \notin afresh /\ rows'[b] = rows[b]
    BY DEF Moves
  <2>2. view[b].status = "connected" /\ rows[b] = period[b]
    BY <1>1, <2>1 DEF AgentsBelongToConnection
  <2> QED
    BY <2>1, <2>2 DEF Moves
<1> QED
  BY <1>4, <1>5

\* What set_remote_status does to the views.
LEMMA StatusIsSet ==
  ASSUME FleetInd, NEW a \in Aliases, NEW status \in {"waiting", "connected", "error"},
         NEW asks \in BOOLEAN, SetStatus(a, status, asks)
  PROVE  /\ ViewTypes' /\ \A b \in Aliases : Moves(b)
         /\ \A b \in Aliases :
              /\ view'[b].status = "none" <=> view[b].status = "none"
              /\ view[b].status = "none" => rows'[b] = rows[b] /\ view'[b].asks = view[b].asks
              /\ view'[b].asks => (view[b].asks /\ b # a) \/ (b = a /\ view[b].status # "none" /\ asks)
                                  \/ (view[b].status = "none" /\ view[b].asks)
<1> DEFINE was == view[a].status
           left == was = "connected" /\ status # "connected"
<1>1. /\ view \in [Aliases -> ViewRecords] /\ epoch \in [Aliases -> Int] /\ rows \in [Aliases -> Nat]
      /\ period \in [Aliases -> Nat] /\ afresh \subseteq Aliases
  BY DEF FleetInd, ViewTypes
<1>2. was \in {"none", "waiting", "connected", "error"}
  <2>1. view[a] \in ViewRecords
    BY <1>1
  <2> QED
    BY <2>1 DEF ViewRecords
<1>3. /\ view' = IF was = "none" THEN view ELSE [view EXCEPT ![a] = [status |-> status, asks |-> asks]]
      /\ epoch' = IF left THEN [epoch EXCEPT ![a] = @ + 1] ELSE epoch
      /\ afresh' = IF left THEN afresh \ {a} ELSE afresh
      /\ rows' = IF was # "none" /\ status # "connected" THEN [rows EXCEPT ![a] = 0] ELSE rows
      /\ period' = IF was \in {"waiting", "error"} /\ status = "connected"
                   THEN [period EXCEPT ![a] = @ + 1] ELSE period
  BY DEF SetStatus
<1>4. [status |-> status, asks |-> asks] \in ViewRecords
  BY DEF ViewRecords
<1>5. ViewTypes'
  <2>1. view' \in [Aliases -> ViewRecords]
    BY <1>1, <1>3, <1>4
  <2>2. epoch' \in [Aliases -> Int]
    BY <1>1, <1>3
  <2>3. rows' \in [Aliases -> Nat] /\ period' \in [Aliases -> Nat] /\ afresh' \subseteq Aliases
    BY <1>1, <1>3
  <2> QED
    BY <2>1, <2>2, <2>3 DEF ViewTypes
<1>6. \A b \in Aliases : b # a =>
        /\ view'[b] = view[b] /\ epoch'[b] = epoch[b] /\ rows'[b] = rows[b] /\ period'[b] = period[b]
        /\ b \in afresh' <=> b \in afresh
  BY <1>1, <1>3
<1>7. /\ IF was = "none" THEN view'[a] = view[a] ELSE view'[a].status = status /\ view'[a].asks = asks
      /\ IF left THEN epoch'[a] = epoch[a] + 1 ELSE epoch'[a] = epoch[a] /\ (a \in afresh' <=> a \in afresh)
      /\ IF was # "none" /\ status # "connected" THEN rows'[a] = 0 ELSE rows'[a] = rows[a]
      /\ was = "connected" \/ was = "none" => period'[a] = period[a]
  BY <1>1, <1>3
<1> HIDE DEF was, left
<1>8. epoch[a] \in Int /\ \A b \in Aliases : epoch[b] >= epoch[b]
  BY <1>1
<1>9. Moves(a)
  BY <1>2, <1>7, <1>8 DEF Moves, was, left
<1>10. \A b \in Aliases : Moves(b)
  BY <1>6, <1>8, <1>9 DEF Moves
<1>11. \A b \in Aliases :
         /\ view'[b].status = "none" <=> view[b].status = "none"
         /\ view[b].status = "none" => rows'[b] = rows[b] /\ view'[b].asks = view[b].asks
  BY <1>6, <1>7 DEF was
<1>12. \A b \in Aliases :
         view'[b].asks => (view[b].asks /\ b # a) \/ (b = a /\ view[b].status # "none" /\ asks)
                          \/ (view[b].status = "none" /\ view[b].asks)
  BY <1>6, <1>7 DEF was
<1> QED
  BY <1>5, <1>10, <1>11, <1>12

\* The worker takes in a report.
LEMMA DrainKeeps ==
  ASSUME FleetInd, Drain
  PROVE  FleetInd' /\ pinned' = pinned
<1> DEFINE u == Head(updates)
<1>1. /\ app' = app /\ config' = config /\ pinned' = pinned /\ presented' = presented /\ worker' = worker
      /\ job' = job /\ probe' = probe /\ results' = results
      /\ updates # << >> /\ updates' = Tail(updates)
      /\ SetStatus(u.alias, u.status, view[u.alias].asks \/ u.identity # "none")
      /\ offered' = IF u.identity = "none" THEN offered ELSE [offered EXCEPT ![u.alias] = u.identity]
  BY DEF Drain, OnlyWorker, settingVars, probeVars
<1>2. updates \in Seq(Reports) /\ Len(updates) <= Capacity /\ offered \in [Aliases -> Identities \union {"none"}]
  BY DEF FleetInd, ThreadTypes, OfferTypes
<1>3. /\ u \in Reports /\ 1 \in DOMAIN updates /\ u = updates[1]
      /\ Tail(updates) \in Seq(Reports) /\ Len(Tail(updates)) <= Capacity
      /\ \A i \in DOMAIN Tail(updates) : \E j \in DOMAIN updates : Tail(updates)[i] = updates[j]
  BY <1>1, <1>2, TailIs
<1>4. Presented(u.alias, u.identity)
  BY <1>3 DEF FleetInd, ToldArePresented
<1> HIDE DEF u
<1>5. /\ u.alias \in Aliases /\ u.status \in {"waiting", "connected", "error"}
      /\ u.identity \in Identities \union {"none"}
  BY <1>3 DEF Reports
<1>6. PICK asks \in BOOLEAN : asks = (view[u.alias].asks \/ u.identity # "none")
  OBVIOUS
<1>7. /\ ViewTypes' /\ \A b \in Aliases : Moves(b)
      /\ \A b \in Aliases :
           /\ view'[b].status = "none" <=> view[b].status = "none"
           /\ view[b].status = "none" => rows'[b] = rows[b] /\ view'[b].asks = view[b].asks
           /\ view'[b].asks => (view[b].asks /\ b # u.alias) \/ (b = u.alias /\ view[b].status # "none" /\ asks)
                                \/ (view[b].status = "none" /\ view[b].asks)
  <2>1. SetStatus(u.alias, u.status, asks)
    BY <1>1, <1>6
  <2> QED
    BY <1>5, <2>1, StatusIsSet
<1>8. ProbesAreTimely' /\ AgentsBelongToConnection'
  BY <1>1, <1>7, MovesKeep
<1>9. offered' \in [Aliases -> Identities \union {"none"}]
  BY <1>1, <1>2, <1>5
<1>10. SettingTypes' /\ OfferTypes' /\ ThreadTypes' /\ ProbeTypes'
  BY <1>1, <1>3, <1>9 DEF FleetInd, SettingTypes, OfferTypes, ThreadTypes, ProbeTypes
<1>11. ShownAreConfigured'
  BY <1>1, <1>7 DEF FleetInd, ShownAreConfigured, Listed, Configured
<1>12. OneIsJoined' /\ FoundArePresented'
  BY <1>1 DEF FleetInd, OneIsJoined, FoundArePresented, Presented
<1>13. ToldArePresented'
  BY <1>1, <1>3 DEF FleetInd, ToldArePresented, Presented
<1>14. OffersArePresented'
  <2> SUFFICES ASSUME NEW b \in Aliases, view'[b].asks PROVE offered'[b] \in presented[b] \union {"none"}
    BY <1>1 DEF OffersArePresented, Presented
  <2>1. CASE b = u.alias /\ u.identity # "none"
    <3>1. offered'[b] = u.identity
      BY <1>1, <1>2, <2>1
    <3> QED
      BY <1>4, <2>1, <3>1 DEF Presented
  <2>2. CASE ~(b = u.alias /\ u.identity # "none")
    <3>1. offered'[b] = offered[b]
      BY <1>1, <1>2, <2>2
    <3>2. view[b].asks
      BY <1>6, <1>7, <2>2
    <3> QED
      BY <3>1, <3>2 DEF FleetInd, OffersArePresented, Presented
  <2> QED
    BY <2>1, <2>2
<1> QED
  BY <1>1, <1>7, <1>8, <1>10, <1>11, <1>12, <1>13, <1>14 DEF FleetInd

\* The worker takes in what a probe found.
LEMMA TakeAgentsKeeps ==
  ASSUME FleetInd, TakeAgents
  PROVE  FleetInd' /\ pinned' = pinned
<1> DEFINE r == Head(results)
<1>1. /\ app' = app /\ config' = config /\ pinned' = pinned /\ presented' = presented /\ worker' = "agents"
      /\ UNCHANGED <<view, epoch, offered, period, afresh, job, updates, probe>>
      /\ results # << >> /\ results' = Tail(results)
      /\ rows' = IF Welcome(r) THEN [rows EXCEPT ![r.alias] = r.period] ELSE rows
  BY DEF TakeAgents, OnlyWorker, settingVars, threadVars
<1>2. /\ results \in Seq(Findings) /\ Len(results) <= Capacity
      /\ rows \in [Aliases -> Nat] /\ \A i \in DOMAIN results : Timely(results[i].alias, results[i].epoch, results[i].period)
  BY DEF FleetInd, ProbeTypes, ViewTypes, ProbesAreTimely
<1>3. /\ r \in Findings /\ 1 \in DOMAIN results /\ r = results[1]
      /\ Tail(results) \in Seq(Findings) /\ Len(Tail(results)) <= Capacity
      /\ \A i \in DOMAIN Tail(results) : \E j \in DOMAIN results : Tail(results)[i] = results[j]
  BY <1>1, <1>2, TailIs
<1>4. Timely(r.alias, r.epoch, r.period)
  BY <1>2, <1>3
<1> HIDE DEF r
<1>5. r.alias \in Aliases /\ r.period \in Nat
  BY <1>3 DEF Findings
<1>6. /\ rows' \in [Aliases -> Nat]
      /\ \A b \in Aliases :
           \/ rows'[b] = rows[b]
           \/ b = r.alias /\ rows'[b] = r.period /\ Welcome(r)
  BY <1>1, <1>2, <1>5
<1>7. SettingTypes' /\ ViewTypes' /\ OfferTypes' /\ ThreadTypes' /\ ProbeTypes'
  BY <1>1, <1>3, <1>6 DEF FleetInd, SettingTypes, ViewTypes, OfferTypes, ThreadTypes, ProbeTypes
<1>8. AgentsBelongToConnection'
  BY <1>1, <1>4, <1>6 DEF FleetInd, AgentsBelongToConnection, Timely, Welcome
<1>9. ShownAreConfigured'
  BY <1>1, <1>6 DEF FleetInd, ShownAreConfigured, Listed, Configured, Welcome
<1>10. ProbesAreTimely'
  BY <1>1, <1>3 DEF FleetInd, ProbesAreTimely, Timely
<1>11. OneIsJoined' /\ FoundArePresented' /\ ToldArePresented' /\ OffersArePresented'
  BY <1>1 DEF FleetInd, OneIsJoined, FoundArePresented, ToldArePresented, OffersArePresented, Presented
<1> QED
  BY <1>1, <1>7, <1>8, <1>9, <1>10, <1>11 DEF FleetInd

\* A probe ends, and may say what it found.
LEMMA ProbeEndsKeeps ==
  ASSUME FleetInd, NEW a \in Aliases, ProbeEnds(a)
  PROVE  FleetInd' /\ pinned' = pinned
<1> DEFINE found == [alias |-> a, epoch |-> probe[a].epoch, period |-> probe[a].period]
           ended == [probe[a] EXCEPT !.at = "ended"]
<1>1. /\ UNCHANGED <<app, config, pinned, view, epoch, offered, rows, period, afresh, worker, job, updates, presented>>
      /\ probe[a].at = "running" /\ probe' = [probe EXCEPT ![a] = ended]
      /\ results' = Sent(results, found) \/ results' = results
  BY DEF ProbeEnds, settingVars, viewVars, threadVars
<1>2. /\ probe \in [Aliases -> ProbeRecords] /\ results \in Seq(Findings) /\ Len(results) <= Capacity
      /\ Timely(a, probe[a].epoch, probe[a].period)
      /\ \A i \in DOMAIN results : Timely(results[i].alias, results[i].epoch, results[i].period)
  BY <1>1 DEF FleetInd, ProbeTypes, ProbesAreTimely
<1>3. probe[a] \in ProbeRecords
  BY <1>2
<1>4. found \in Findings /\ found.alias = a /\ found.epoch = probe[a].epoch /\ found.period = probe[a].period
  BY <1>3 DEF ProbeRecords, Findings
<1>5. ended \in ProbeRecords /\ ended.epoch = probe[a].epoch /\ ended.period = probe[a].period
  BY <1>3 DEF ProbeRecords
<1> HIDE DEF found, ended
<1>6. /\ results' \in Seq(Findings) /\ Len(results') <= Capacity
      /\ \A i \in DOMAIN results' : results'[i] = found \/ \E j \in DOMAIN results : results'[i] = results[j]
  <2>1. CASE results' = Sent(results, found)
    BY <1>2, <1>4, <2>1, SentIs
  <2>2. CASE results' = results
    BY <1>2, <2>2
  <2> QED
    BY <1>1, <2>1, <2>2
<1>7. /\ probe' \in [Aliases -> ProbeRecords] /\ probe'[a] = ended
      /\ \A b \in Aliases : b # a => probe'[b] = probe[b]
  BY <1>1, <1>2, <1>5
<1>8. ProbesAreTimely'
  <2>1. \A b \in Aliases : probe'[b].at # "none" => Timely(b, probe'[b].epoch, probe'[b].period)
    BY <1>2, <1>5, <1>7 DEF FleetInd, ProbesAreTimely
  <2>2. \A i \in DOMAIN results' : Timely(results'[i].alias, results'[i].epoch, results'[i].period)
    BY <1>2, <1>4, <1>6
  <2> QED
    BY <1>1, <2>1, <2>2 DEF ProbesAreTimely, Timely
<1>9. SettingTypes' /\ ViewTypes' /\ OfferTypes' /\ ThreadTypes' /\ ProbeTypes'
  BY <1>1, <1>6, <1>7 DEF FleetInd, SettingTypes, ViewTypes, OfferTypes, ThreadTypes, ProbeTypes
<1>10. /\ OneIsJoined' /\ FoundArePresented' /\ ToldArePresented' /\ OffersArePresented'
       /\ ShownAreConfigured' /\ AgentsBelongToConnection'
  BY <1>1 DEF FleetInd, OneIsJoined, FoundArePresented, ToldArePresented, OffersArePresented, Presented,
              ShownAreConfigured, Listed, Configured, AgentsBelongToConnection
<1> QED
  BY <1>1, <1>8, <1>9, <1>10 DEF FleetInd

\* ThreadRecords are told to stop one after the other.
LEMMA StopsKeep ==
  ASSUME FleetInd, NEW a \in Aliases, StopJob(a) \/ StopAll(a)
  PROVE  FleetInd' /\ pinned' = pinned
<1>1. /\ UNCHANGED <<app, config, pinned, view, epoch, offered, rows, period, afresh, updates, probe, results, presented>>
      /\ worker' \in {worker, "sync"}
      /\ \A b \in Aliases : b # a /\ job[b].stop => job[b].at = "ended"
      /\ job' = [job EXCEPT ![a] = NoJob] \/ job' = [job EXCEPT ![a].stop = TRUE]
  <2>1. CASE StopJob(a)
    BY <2>1 DEF StopJob, OnlyWorker, settingVars, viewVars, probeVars
  <2>2. CASE StopAll(a)
    BY <2>2 DEF StopAll, OnlyWorker, settingVars, viewVars, probeVars
  <2> QED
    BY <2>1, <2>2
<1>2. job \in [Aliases -> ThreadRecords] /\ FoundArePresented
  BY DEF FleetInd, ThreadTypes
<1>3. /\ job' \in [Aliases -> ThreadRecords]
      /\ job'[a].finds = "none" \/ (job'[a].at = job[a].at /\ job'[a].finds = job[a].finds)
      /\ \A b \in Aliases : b # a => job'[b] = job[b]
  <2>1. CASE job' = [job EXCEPT ![a] = NoJob]
    <3>1. NoJob \in ThreadRecords /\ NoJob.finds = "none"
      BY DEF NoJob, ThreadRecords
    <3> QED
      BY <1>2, <2>1, <3>1
  <2>2. CASE job' = [job EXCEPT ![a].stop = TRUE]
    <3> DEFINE r == [job[a] EXCEPT !.stop = TRUE]
    <3>1. job[a] \in ThreadRecords
      BY <1>2
    <3>2. r \in ThreadRecords /\ r.at = job[a].at /\ r.finds = job[a].finds
      BY <3>1 DEF ThreadRecords
    <3>3. job' = [job EXCEPT ![a] = r]
      BY <2>2
    <3> HIDE DEF r
    <3> QED
      BY <1>2, <3>2, <3>3
  <2> QED
    BY <1>1, <2>1, <2>2
<1>4. OneIsJoined'
  BY <1>1, <1>3 DEF OneIsJoined
<1>5. FoundArePresented'
  BY <1>1, <1>2, <1>3 DEF FoundArePresented, Presented
<1>6. SettingTypes' /\ ViewTypes' /\ OfferTypes' /\ ThreadTypes' /\ ProbeTypes'
  BY <1>1, <1>3 DEF FleetInd, SettingTypes, ViewTypes, OfferTypes, ThreadTypes, ProbeTypes
<1>7. ToldArePresented' /\ OffersArePresented' /\ ShownAreConfigured' /\ AgentsBelongToConnection'
  BY <1>1 DEF FleetInd, ToldArePresented, OffersArePresented, Presented,
              ShownAreConfigured, Listed, Configured, AgentsBelongToConnection
<1>8. ProbesAreTimely'
  BY <1>1 DEF FleetInd, ProbesAreTimely, Timely
<1> QED
  BY <1>1, <1>4, <1>5, <1>6, <1>7, <1>8 DEF FleetInd

\* A thread that is started has found nothing; a probe that is started is of the present
\* epoch and period.
LEMMA StartAllKeeps ==
  ASSUME FleetInd, StartAll
  PROVE  FleetInd' /\ pinned' = pinned
<1>1. /\ UNCHANGED <<app, config, pinned, view, epoch, offered, rows, period, afresh, updates, results, presented>>
      /\ worker' = "drain"
      /\ job' = [a \in Aliases |->
                   IF Configured(a) /\ job[a].at = "none"
                   THEN [NoJob EXCEPT !.at = "wait", !.generation = config[a]]
                   ELSE job[a]]
  BY DEF StartAll, OnlyWorker, settingVars, viewVars
<1>2. /\ job \in [Aliases -> ThreadRecords] /\ probe \in [Aliases -> ProbeRecords]
      /\ epoch \in [Aliases -> Int] /\ period \in [Aliases -> Nat]
      /\ config \in [Aliases -> {Absent} \union 0..MaxGeneration]
  BY DEF FleetInd, ThreadTypes, ProbeTypes, ViewTypes, SettingTypes
<1>3. /\ job' \in [Aliases -> ThreadRecords]
      /\ \A b \in Aliases : job'[b] = job[b] \/ (~job'[b].stop /\ job'[b].finds = "none")
  <2>1. ASSUME NEW b \in Aliases
        PROVE  /\ job'[b] \in ThreadRecords
               /\ job'[b] = job[b] \/ (~job'[b].stop /\ job'[b].finds = "none")
    <3> DEFINE r == [NoJob EXCEPT !.at = "wait", !.generation = config[b]]
    <3>1. config[b] \in Int
      BY <1>2, FleetAssumption DEF Absent
    <3>2. r \in ThreadRecords /\ ~r.stop /\ r.finds = "none"
      BY <3>1 DEF NoJob, ThreadRecords
    <3>3. job'[b] = r \/ job'[b] = job[b]
      BY <1>1
    <3> HIDE DEF r
    <3> QED
      BY <1>2, <3>2, <3>3
  <2> QED
    BY <1>1, <2>1
<1>4. /\ probe' \in [Aliases -> ProbeRecords]
      /\ \A b \in Aliases : probe'[b].at # "none" => Timely(b, probe'[b].epoch, probe'[b].period)
  <2>1. PICK started \in SUBSET Aliases :
          /\ \A b \in started : view[b].status = "connected"
          /\ probe' = [b \in Aliases |->
                         IF b \in started
                         THEN [at |-> "running", epoch |-> epoch[b], period |-> period[b]]
                         ELSE IF b \in {c \in Aliases : probe[c].at # "running"} THEN NoProbe ELSE probe[b]]
    <3> DEFINE free == {c \in Aliases : probe[c].at # "running"}
               due  == {c \in free : view[c].status = "connected" /\ job'[c].at # "none"}
    <3>1. \E started \in {{}, IF probes < MaxProbes THEN due ELSE {}} :
            probe' = [b \in Aliases |->
                        IF b \in started
                        THEN [at |-> "running", epoch |-> epoch[b], period |-> period[b]]
                        ELSE IF b \in free THEN NoProbe ELSE probe[b]]
      BY DEF StartAll
    <3>2. \A started \in {{}, IF probes < MaxProbes THEN due ELSE {}} :
            started \in SUBSET Aliases /\ \A b \in started : view[b].status = "connected"
      OBVIOUS
    <3> HIDE DEF due
    <3> QED
      BY <3>1, <3>2
  <2>2. ASSUME NEW b \in Aliases
        PROVE  /\ probe'[b] \in ProbeRecords
               /\ probe'[b].at # "none" => Timely(b, probe'[b].epoch, probe'[b].period)
    <3>1. epoch[b] \in Int /\ period[b] \in Nat
      BY <1>2
    <3>2. CASE b \in started
      <4>1. probe'[b] = [at |-> "running", epoch |-> epoch[b], period |-> period[b]] /\ view[b].status = "connected"
        BY <2>1, <3>2
      <4>2. epoch[b] <= epoch[b]
        BY <3>1
      <4> QED
        BY <3>1, <4>1, <4>2 DEF ProbeRecords, Timely
    <3>3. CASE b \notin started /\ probe'[b] = NoProbe
      BY <3>3 DEF NoProbe, ProbeRecords
    <3>4. CASE b \notin started /\ probe'[b] = probe[b]
      BY <1>2, <3>4 DEF FleetInd, ProbesAreTimely
    <3> QED
      BY <2>1, <3>2, <3>3, <3>4
  <2> QED
    BY <2>1, <2>2
<1>5. OneIsJoined'
  BY <1>3 DEF FleetInd, OneIsJoined
<1>6. FoundArePresented'
  BY <1>1, <1>3 DEF FleetInd, FoundArePresented, Presented
<1>7. SettingTypes' /\ ViewTypes' /\ OfferTypes' /\ ThreadTypes' /\ ProbeTypes'
  BY <1>1, <1>3, <1>4 DEF FleetInd, SettingTypes, ViewTypes, OfferTypes, ThreadTypes, ProbeTypes
<1>8. ToldArePresented' /\ OffersArePresented' /\ ShownAreConfigured' /\ AgentsBelongToConnection'
  BY <1>1 DEF FleetInd, ToldArePresented, OffersArePresented, Presented,
              ShownAreConfigured, Listed, Configured, AgentsBelongToConnection
<1>9. ProbesAreTimely'
  BY <1>1, <1>4 DEF FleetInd, ProbesAreTimely, Timely
<1> QED
  BY <1>1, <1>5, <1>6, <1>7, <1>8, <1>9 DEF FleetInd

-----------------------------------------------------------------------------
\* What a command leaves alone.
OnlySettings == UNCHANGED <<worker, job, updates, probe, results>>

\* A command that changes settings and views as above, and presents nothing.
LEMMA CommandsKeep ==
  ASSUME FleetInd, OnlySettings, SettingTypes', ViewTypes', OfferTypes', \A b \in Aliases : Moves(b),
         ShownAreConfigured', OffersArePresented',
         \A b \in Aliases :
           \/ presented'[b] = presented[b]
           \/ job[b].at = "none" /\ \A i \in DOMAIN updates : updates[i].alias # b
  PROVE  FleetInd'
<1>1. ThreadTypes' /\ ProbeTypes' /\ OneIsJoined'
  BY DEF OnlySettings, FleetInd, ThreadTypes, ProbeTypes, OneIsJoined
<1>2. ProbesAreTimely' /\ AgentsBelongToConnection'
  BY MovesKeep DEF OnlySettings
<1>3. FoundArePresented'
  BY DEF OnlySettings, FleetInd, FoundArePresented, Presented
<1>4. ToldArePresented'
  <2>1. \A i \in DOMAIN updates : updates[i].alias \in Aliases
    <3>1. updates \in Seq(Reports)
      BY DEF FleetInd, ThreadTypes
    <3>2. DOMAIN updates = 1..Len(updates) /\ \A j \in 1..Len(updates) : updates[j] \in Reports
      BY <3>1, LenProperties, ElementOfSeq
    <3> QED
      BY <3>2 DEF Reports
  <2> QED
    BY <2>1 DEF OnlySettings, FleetInd, ToldArePresented, Presented
<1> QED
  BY <1>1, <1>2, <1>3, <1>4 DEF FleetInd

\* The views that are started afresh.
LEMMA ViewsAre ==
  ASSUME NEW sources \in SUBSET Aliases
  PROVE  /\ Views(sources) \in [Aliases -> ViewRecords]
         /\ \A b \in Aliases :
              /\ Views(sources)[b].status = "none" <=> b \notin sources
              /\ Views(sources)[b].status # "connected" /\ ~Views(sources)[b].asks
<1>1. \A b \in Aliases :
        /\ Fresh(b) \in ViewRecords /\ Fresh(b).status = "waiting" /\ ~Fresh(b).asks
        /\ NoView \in ViewRecords /\ NoView.status = "none" /\ ~NoView.asks
  BY DEF Fresh, NoView, ViewRecords
<1>2. \A b \in Aliases : Views(sources)[b] = IF b \in sources THEN Fresh(b) ELSE NoView
  BY DEF Views
<1>3. Views(sources) \in [Aliases -> ViewRecords]
  BY <1>1 DEF Views
<1> QED
  BY <1>1, <1>2, <1>3

\* An epoch that moves is a later one.
LEMMA EpochsGrow ==
  ASSUME NEW e \in Int
  PROVE  e >= e /\ e + 1 >= e /\ e + 1 # e
OBVIOUS

\* A source that is added again finds neither a thread nor a report of the old one.
LEMMA AddKeeps ==
  ASSUME FleetInd, NEW a \in Aliases, Add(a), QuickHands = FALSE
  PROVE  FleetInd' /\ pinned' = pinned
<1>1. /\ OnlySettings /\ app' = app /\ pinned' = pinned /\ UNCHANGED <<offered, rows, period>>
      /\ ~Configured(a) /\ job[a].at = "none" /\ \A i \in DOMAIN updates : updates[i].alias # a
      /\ config' = [config EXCEPT ![a] = 0]
      /\ epoch' = [epoch EXCEPT ![a] = @ + 1]
      /\ presented' = [presented EXCEPT ![a] = {}]
      /\ \/ view' = Views(Sources \union {a}) /\ afresh' = (afresh \union Connected) \ {a}
         \/ view' = view /\ afresh' = afresh \ {a}
  BY DEF Add, OnlyCommand, OnlySettings, threadVars, probeVars
<1>2. SettingTypes /\ ViewTypes /\ OfferTypes /\ ShownAreConfigured /\ OffersArePresented
  BY DEF FleetInd
<1>3. ~Listed(a) /\ rows[a] = 0 /\ ~view[a].asks
  BY <1>1, <1>2 DEF ShownAreConfigured
<1>4. SettingTypes' /\ OfferTypes'
  <2>1. 0 \in 0..MaxGeneration
    BY FleetAssumption
  <2> QED
    BY <1>1, <1>2, <2>1 DEF SettingTypes, OfferTypes, OnlySettings
<1>5. Sources \union {a} \in SUBSET Aliases /\ Connected \subseteq Aliases
  BY DEF Sources, Connected
<1>6. /\ view' \in [Aliases -> ViewRecords]
      /\ \A b \in Aliases :
           \/ view'[b].status # "connected" /\ ~view'[b].asks
              /\ (view'[b].status # "none" => b \in Sources \union {a})
              /\ (view'[b].status = "none" => b \notin Sources)
              /\ (b # a /\ b \notin afresh' => b \notin afresh /\ view[b].status # "connected")
           \/ view'[b] = view[b] /\ (b # a /\ b \notin afresh' => b \notin afresh)
  <2>1. CASE view' = Views(Sources \union {a}) /\ afresh' = (afresh \union Connected) \ {a}
    BY <1>5, <2>1, ViewsAre DEF Connected
  <2>2. CASE view' = view /\ afresh' = afresh \ {a}
    BY <1>2, <2>2 DEF ViewTypes
  <2> QED
    BY <1>1, <2>1, <2>2
<1>7. ViewTypes'
  <2>1. epoch' \in [Aliases -> Int] /\ afresh' \subseteq Aliases
    BY <1>1, <1>2, <1>5 DEF ViewTypes
  <2> QED
    BY <1>1, <1>2, <1>6, <2>1 DEF ViewTypes
<1>8. ASSUME NEW b \in Aliases PROVE Moves(b)
  <2>1. epoch[b] \in Int
    BY <1>2 DEF ViewTypes
  <2>2. CASE b = a
    <3>1. epoch'[a] = epoch[a] + 1 /\ rows'[a] = 0
      BY <1>1, <1>2, <1>3 DEF ViewTypes
    <3> QED
      BY <2>1, <2>2, <3>1, EpochsGrow DEF Moves
  <2>3. CASE b # a
    <3>1. epoch'[b] = epoch[b] /\ rows'[b] = rows[b] /\ period'[b] = period[b]
      BY <1>1, <1>2, <2>3 DEF ViewTypes
    <3> QED
      BY <1>6, <2>1, <2>3, <3>1, EpochsGrow DEF Moves
  <2> QED
    BY <2>2, <2>3
<1>9. ShownAreConfigured'
  <2>1. \A b \in Aliases : Configured(b)' <=> Configured(b) \/ b = a
    <3>1. 0 # Absent
      BY DEF Absent
    <3> QED
      BY <1>1, <1>2, <3>1 DEF SettingTypes, Configured
  <2>2. \A b \in Aliases : view'[b].status # "none" => Configured(b)'
    BY <1>2, <1>6, <2>1 DEF ShownAreConfigured, Sources, Listed
  <2>3. \A b \in Aliases : view'[b].status = "none" => rows'[b] = 0 /\ ~view'[b].asks
    <3>1. \A b \in Aliases : b \notin Sources => rows[b] = 0
      BY <1>2 DEF ShownAreConfigured, Sources
    <3> QED
      BY <1>1, <1>2, <1>6, <3>1 DEF ShownAreConfigured, Listed
  <2> QED
    BY <2>2, <2>3 DEF ShownAreConfigured, Listed
<1>10. OffersArePresented'
  <2> SUFFICES ASSUME NEW b \in Aliases, view'[b].asks
               PROVE  Presented(b, offered[b])'
    BY <1>1 DEF OffersArePresented
  <2>1. view[b].asks /\ b # a
    BY <1>3, <1>6
  <2>2. presented'[b] = presented[b]
    BY <1>1, <1>2, <2>1 DEF SettingTypes
  <2> QED
    BY <1>1, <1>2, <2>1, <2>2 DEF OffersArePresented, Presented
<1>11. \A b \in Aliases :
           \/ presented'[b] = presented[b]
           \/ job[b].at = "none" /\ \A i \in DOMAIN updates : updates[i].alias # b
  BY <1>1, <1>2 DEF SettingTypes
<1> QED
  BY <1>1, <1>4, <1>7, <1>8, <1>9, <1>10, <1>11, CommandsKeep

\* What is removed is shown no more; the other views are started afresh.
LEMMA RemoveKeeps ==
  ASSUME FleetInd, NEW a \in Aliases, RemoveSource(a)
  PROVE  FleetInd' /\ pinned' = [pinned EXCEPT ![a] = "none"]
<1>1. /\ OnlySettings /\ app' = app /\ UNCHANGED <<offered, period, presented>>
      /\ config' = [config EXCEPT ![a] = Absent]
      /\ pinned' = [pinned EXCEPT ![a] = "none"]
      /\ epoch' = [epoch EXCEPT ![a] = @ + 1]
      /\ rows' = [rows EXCEPT ![a] = 0]
      /\ view' = Views(Sources \ {a}) /\ afresh' = (afresh \union Connected) \ {a}
  BY DEF RemoveSource, OnlyCommand, OnlySettings, threadVars, probeVars
<1>2. SettingTypes /\ ViewTypes /\ OfferTypes /\ ShownAreConfigured
  BY DEF FleetInd
<1>3. SettingTypes' /\ OfferTypes'
  BY <1>1, <1>2 DEF SettingTypes, OfferTypes, OnlySettings
<1>4. Sources \ {a} \in SUBSET Aliases /\ Connected \subseteq Aliases
  BY DEF Sources, Connected
<1>5. /\ view' \in [Aliases -> ViewRecords]
      /\ \A b \in Aliases :
           /\ view'[b].status = "none" <=> b \notin Sources \ {a}
           /\ view'[b].status # "connected" /\ ~view'[b].asks
  BY <1>1, <1>4, ViewsAre
<1>6. ViewTypes'
  <2>1. epoch' \in [Aliases -> Int] /\ rows' \in [Aliases -> Nat] /\ afresh' \subseteq Aliases
    BY <1>1, <1>2, <1>4 DEF ViewTypes
  <2> QED
    BY <1>1, <1>2, <1>5, <2>1 DEF ViewTypes
<1>7. ASSUME NEW b \in Aliases PROVE Moves(b)
  <2>1. epoch[b] \in Int
    BY <1>2 DEF ViewTypes
  <2>2. CASE b = a
    <3>1. epoch'[a] = epoch[a] + 1 /\ rows'[a] = 0
      BY <1>1, <1>2 DEF ViewTypes
    <3> QED
      BY <2>1, <2>2, <3>1, EpochsGrow DEF Moves
  <2>3. CASE b # a
    <3>1. epoch'[b] = epoch[b] /\ rows'[b] = rows[b] /\ period'[b] = period[b]
      BY <1>1, <1>2, <2>3 DEF ViewTypes
    <3>2. b \notin afresh' => b \notin afresh /\ view[b].status # "connected"
      BY <1>1, <2>3 DEF Connected
    <3> QED
      BY <2>1, <3>1, <3>2, EpochsGrow DEF Moves
  <2> QED
    BY <2>2, <2>3
<1>8. ShownAreConfigured'
  <2>1. \A b \in Aliases : b # a => (Configured(b)' <=> Configured(b)) /\ rows'[b] = rows[b]
    BY <1>1, <1>2 DEF SettingTypes, ViewTypes, Configured
  <2>2. rows'[a] = 0
    BY <1>1, <1>2 DEF ViewTypes
  <2> QED
    BY <1>2, <1>5, <2>1, <2>2 DEF ShownAreConfigured, Listed, Sources
<1>9. OffersArePresented'
  BY <1>5 DEF OffersArePresented
<1> QED
  BY <1>1, <1>3, <1>6, <1>7, <1>8, <1>9, CommandsKeep

\* A view that stays as it is.
LEMMA SameMoves ==
  ASSUME FleetInd, UNCHANGED <<view, epoch, rows, period, afresh>>
  PROVE  ViewTypes' /\ \A b \in Aliases : Moves(b)
<1>1. \A b \in Aliases : epoch[b] \in Int
  BY DEF FleetInd, ViewTypes
<1>2. \A b \in Aliases : epoch[b] >= epoch[b]
  BY <1>1
<1> QED
  BY <1>2 DEF FleetInd, ViewTypes, Moves

\* reconnect_remote_source and confirm_remote_identity, as far as the views go.
LEMMA RequestsKeep ==
  ASSUME FleetInd, NEW a \in Aliases, OnlySettings, app' = app, presented' = presented,
         config' = config \/ NextGeneration(a),
         pinned' \in [Aliases -> Identities \union {"none"}], OfferTypes',
         \A b \in Aliases : offered'[b] \in {offered[b], "none"},
         NEW asks \in BOOLEAN, asks => view[a].asks,
         SetStatus(a, "waiting", asks) \/ UNCHANGED <<view, epoch, rows, period, afresh>>
  PROVE  FleetInd'
<1>1. SettingTypes /\ ShownAreConfigured /\ OffersArePresented
  BY DEF FleetInd
<1>2. SettingTypes' /\ \A b \in Aliases : Configured(b) => Configured(b)'
  <2>1. CASE config' = config
    BY <1>1, <2>1 DEF SettingTypes, OnlySettings, Configured
  <2>2. CASE NextGeneration(a)
    <3>1. config[a] < MaxGeneration /\ config' = [config EXCEPT ![a] = @ + 1]
      BY <2>2 DEF NextGeneration
    <3>2. config[a] \in {Absent} \union 0..MaxGeneration /\ MaxGeneration \in Nat
      BY <1>1, FleetAssumption DEF SettingTypes
    <3>3. config[a] + 1 \in 0..MaxGeneration /\ config[a] + 1 # Absent
      BY <3>1, <3>2 DEF Absent
    <3>4. config' \in [Aliases -> {Absent} \union 0..MaxGeneration]
          /\ \A b \in Aliases : Configured(b) => Configured(b)'
      BY <1>1, <3>1, <3>3 DEF SettingTypes, Configured
    <3> QED
      BY <1>1, <3>4 DEF SettingTypes, OnlySettings
  <2> QED
    BY <2>1, <2>2
<1>3. /\ ViewTypes' /\ \A b \in Aliases : Moves(b)
      /\ \A b \in Aliases :
           /\ view'[b].status = "none" <=> view[b].status = "none"
           /\ view[b].status = "none" => rows'[b] = rows[b] /\ view'[b].asks = view[b].asks
           /\ view'[b].asks => view[b].asks
  <2>1. CASE SetStatus(a, "waiting", asks)
    BY <2>1, StatusIsSet
  <2>2. CASE UNCHANGED <<view, epoch, rows, period, afresh>>
    BY <2>2, SameMoves
  <2> QED
    BY <2>1, <2>2
<1>4. ShownAreConfigured'
  BY <1>1, <1>2, <1>3 DEF ShownAreConfigured, Listed
<1>5. OffersArePresented'
  BY <1>1, <1>3 DEF OffersArePresented, Presented
<1> QED
  BY <1>2, <1>3, <1>4, <1>5, CommandsKeep

\* reconnect_remote_source.
LEMMA ReconnectKeeps ==
  ASSUME FleetInd, NEW a \in Aliases, Reconnect(a)
  PROVE  FleetInd' /\ pinned' = pinned
<1>1. /\ OnlySettings /\ app' = app /\ UNCHANGED <<pinned, offered, presented>> /\ NextGeneration(a)
      /\ SetStatus(a, "waiting", view[a].asks) \/ UNCHANGED <<view, epoch, rows, period, afresh>>
  BY DEF Reconnect, OnlyCommand, OnlySettings, threadVars, probeVars
<1>2. view[a] \in ViewRecords
  BY DEF FleetInd, ViewTypes
<1>3. PICK asks \in BOOLEAN : asks = view[a].asks
  BY <1>2 DEF ViewRecords
<1>4. /\ pinned' \in [Aliases -> Identities \union {"none"}] /\ OfferTypes'
      /\ \A b \in Aliases : offered'[b] \in {offered[b], "none"}
  BY <1>1 DEF FleetInd, SettingTypes, OfferTypes
<1>5. SetStatus(a, "waiting", asks) \/ UNCHANGED <<view, epoch, rows, period, afresh>>
  BY <1>1, <1>3
<1>6. asks => view[a].asks
  BY <1>3
<1> QED
  BY <1>1, <1>4, <1>5, <1>6, RequestsKeep

\* The identity that takes the place of another was presented.
LEMMA ConfirmKeeps ==
  ASSUME FleetInd, NEW a \in Aliases, Confirm(a)
  PROVE  /\ FleetInd'
         /\ pinned' = pinned \/ (pinned' = [pinned EXCEPT ![a] = offered[a]] /\ offered[a] \in presented[a])
<1>1. /\ OnlySettings /\ app' = app /\ presented' = presented
      /\ view[a].asks /\ offered[a] # "none" /\ offered' = [offered EXCEPT ![a] = "none"]
      /\ \/ UNCHANGED <<config, pinned, view, epoch, rows, period, afresh>>
         \/ /\ pinned' = [pinned EXCEPT ![a] = offered[a]] /\ NextGeneration(a)
            /\ SetStatus(a, "waiting", FALSE) \/ UNCHANGED <<view, epoch, rows, period, afresh>>
  BY DEF Confirm, OnlyCommand, OnlySettings, threadVars, probeVars, settingVars
<1>2. /\ pinned \in [Aliases -> Identities \union {"none"}] /\ offered \in [Aliases -> Identities \union {"none"}]
      /\ offered[a] \in presented[a]
  BY <1>1 DEF FleetInd, SettingTypes, OfferTypes, OffersArePresented, Presented
<1>3. /\ pinned' \in [Aliases -> Identities \union {"none"}] /\ OfferTypes'
      /\ \A b \in Aliases : offered'[b] \in {offered[b], "none"}
  BY <1>1, <1>2 DEF OfferTypes
<1>4. /\ config' = config \/ NextGeneration(a)
      /\ SetStatus(a, "waiting", FALSE) \/ UNCHANGED <<view, epoch, rows, period, afresh>>
  BY <1>1
<1>5. FleetInd'
  BY <1>1, <1>3, <1>4, RequestsKeep
<1> QED
  BY <1>1, <1>2, <1>5

\* reconnect_all_remote_sources tells only who is listed.
LEMMA ReconnectAllKeeps ==
  ASSUME FleetInd, ReconnectAll
  PROVE  FleetInd' /\ pinned' = pinned
<1> DEFINE chosen == {a \in Sources : ~view[a].asks}
<1>1. /\ OnlySettings /\ app' = app /\ UNCHANGED <<pinned, offered, period, presented>>
      /\ \A a \in chosen : config[a] < MaxGeneration
      /\ config' = [a \in Aliases |-> IF a \in chosen THEN config[a] + 1 ELSE config[a]]
  BY DEF ReconnectAll, OnlyCommand, OnlySettings, threadVars, probeVars
<1>2. PICK told \in SUBSET {a \in Aliases : Listed(a)} :
        /\ view' = [a \in Aliases |-> IF a \in told THEN Fresh(a) ELSE view[a]]
        /\ epoch' = [a \in Aliases |->
                       IF a \in told /\ view[a].status = "connected" THEN epoch[a] + 1 ELSE epoch[a]]
        /\ afresh' = afresh \ (told \intersect Connected)
        /\ rows' = [a \in Aliases |-> IF a \in told THEN 0 ELSE rows[a]]
  <2> DEFINE listed == {a \in chosen : Listed(a)}
  <2>1. \E saved \in BOOLEAN :
          LET told == IF saved THEN listed ELSE {} IN
            /\ view' = [a \in Aliases |-> IF a \in told THEN Fresh(a) ELSE view[a]]
            /\ epoch' = [a \in Aliases |->
                           IF a \in told /\ view[a].status = "connected" THEN epoch[a] + 1 ELSE epoch[a]]
            /\ afresh' = afresh \ (told \intersect Connected)
            /\ rows' = [a \in Aliases |-> IF a \in told THEN 0 ELSE rows[a]]
    BY DEF ReconnectAll
  <2>2. listed \in SUBSET {a \in Aliases : Listed(a)} /\ {} \in SUBSET {a \in Aliases : Listed(a)}
    BY DEF Sources
  <2> HIDE DEF listed
  <2>3. PICK saved \in BOOLEAN :
          LET told == IF saved THEN listed ELSE {} IN
            /\ view' = [a \in Aliases |-> IF a \in told THEN Fresh(a) ELSE view[a]]
            /\ epoch' = [a \in Aliases |->
                           IF a \in told /\ view[a].status = "connected" THEN epoch[a] + 1 ELSE epoch[a]]
            /\ afresh' = afresh \ (told \intersect Connected)
            /\ rows' = [a \in Aliases |-> IF a \in told THEN 0 ELSE rows[a]]
    BY <2>1
  <2>4. CASE saved
    BY <2>2, <2>3, <2>4
  <2>5. CASE ~saved
    BY <2>2, <2>3, <2>5
  <2> QED
    BY <2>4, <2>5
<1>3. SettingTypes /\ ViewTypes /\ ShownAreConfigured /\ OffersArePresented /\ OfferTypes
  BY DEF FleetInd
<1>4. ASSUME NEW a \in Aliases
      PROVE  config'[a] \in {Absent} \union 0..MaxGeneration /\ (Configured(a) => config'[a] # Absent)
  <2>1. config[a] \in {Absent} \union 0..MaxGeneration /\ MaxGeneration \in Nat
    BY <1>3, FleetAssumption DEF SettingTypes
  <2>2. CASE a \in chosen
    <3>1. config[a] < MaxGeneration /\ config'[a] = config[a] + 1 /\ config[a] # Absent
      BY <1>1, <2>2 DEF Sources, Configured
    <3> QED
      BY <2>1, <3>1 DEF Absent
  <2>3. CASE a \notin chosen
    <3>1. config'[a] = config[a]
      BY <1>1, <2>3
    <3> QED
      BY <2>1, <3>1 DEF Configured
  <2> QED
    BY <2>2, <2>3
<1> HIDE DEF chosen
<1>5. SettingTypes' /\ OfferTypes'
  BY <1>1, <1>3, <1>4 DEF SettingTypes, OfferTypes, OnlySettings
<1>6. \A a \in Aliases : epoch[a] \in Int /\ rows[a] \in Nat /\ view[a] \in ViewRecords
                         /\ Fresh(a) \in ViewRecords /\ Fresh(a).status = "waiting" /\ ~Fresh(a).asks
  BY <1>3 DEF ViewTypes, Fresh, ViewRecords
<1>7. ViewTypes'
  <2>1. view' \in [Aliases -> ViewRecords]
    BY <1>2, <1>6
  <2>2. epoch' \in [Aliases -> Int]
    BY <1>2, <1>6
  <2>3. rows' \in [Aliases -> Nat] /\ afresh' \subseteq Aliases
    BY <1>2, <1>3, <1>6 DEF ViewTypes
  <2> QED
    BY <1>1, <1>3, <2>1, <2>2, <2>3 DEF ViewTypes
<1>8. ASSUME NEW a \in Aliases PROVE Moves(a)
  <2>1. CASE a \in told /\ view[a].status = "connected"
    <3>1. epoch'[a] = epoch[a] + 1 /\ rows'[a] = 0
      BY <1>2, <2>1
    <3> QED
      BY <1>6, <3>1, EpochsGrow DEF Moves
  <2>2. CASE ~(a \in told /\ view[a].status = "connected")
    <3>1. /\ epoch'[a] = epoch[a] /\ rows'[a] \in {rows[a], 0} /\ period'[a] = period[a]
          /\ a \in afresh' <=> a \in afresh
      BY <1>1, <1>2, <2>2 DEF Connected
    <3>2. view[a].status = "connected" => view'[a] = view[a]
      BY <1>2, <2>2
    <3> QED
      BY <1>6, <3>1, <3>2, EpochsGrow DEF Moves
  <2> QED
    BY <2>1, <2>2
<1>9. \A a \in Aliases :
        \/ view'[a] = view[a] /\ rows'[a] = rows[a]
        \/ Listed(a) /\ view'[a].status = "waiting" /\ ~view'[a].asks
  BY <1>2, <1>6
<1>10. ShownAreConfigured'
  BY <1>3, <1>4, <1>9 DEF ShownAreConfigured, Listed, Configured
<1>11. OffersArePresented'
  BY <1>1, <1>3, <1>9 DEF OffersArePresented, Presented
<1> QED
  BY <1>1, <1>5, <1>7, <1>8, <1>10, <1>11, CommandsKeep

\* A step of the worker or of the user that only goes on.
LEMMA GoesOnKeeps ==
  ASSUME FleetInd, PollEnds \/ Leave \/ Stop
  PROVE  FleetInd' /\ pinned' = pinned
<1>1. /\ UNCHANGED <<config, pinned, view, epoch, offered, rows, period, afresh, job, updates, probe, results, presented>>
      /\ app' \in {app, "stopping", "gone"} /\ worker' \in {worker, "idle"}
  <2>1. CASE PollEnds
    BY <2>1 DEF PollEnds, OnlyWorker, settingVars, viewVars, threadVars, probeVars
  <2>2. CASE Leave
    BY <2>2 DEF Leave, settingVars, viewVars, threadVars, probeVars
  <2>3. CASE Stop
    BY <2>3 DEF Stop, settingVars, viewVars, threadVars, probeVars
  <2> QED
    BY <2>1, <2>2, <2>3
<1>2. SettingTypes' /\ ViewTypes' /\ OfferTypes' /\ ThreadTypes' /\ ProbeTypes'
  BY <1>1 DEF FleetInd, SettingTypes, ViewTypes, OfferTypes, ThreadTypes, ProbeTypes
<1>3. /\ ToldArePresented' /\ OffersArePresented' /\ ShownAreConfigured' /\ AgentsBelongToConnection'
      /\ OneIsJoined' /\ FoundArePresented'
  BY <1>1 DEF FleetInd, ToldArePresented, OffersArePresented, FoundArePresented, Presented, OneIsJoined,
              ShownAreConfigured, Listed, Configured, AgentsBelongToConnection
<1>4. ProbesAreTimely'
  BY <1>1 DEF FleetInd, ProbesAreTimely, Timely
<1> QED
  BY <1>1, <1>2, <1>3, <1>4 DEF FleetInd

\* Every step.
LEMMA FleetStepKeeps ==
  ASSUME FleetInd, [NextFleet]_fleetVars, QuickHands = FALSE
  PROVE  /\ FleetInd'
         /\ \A a \in Aliases :
              pinned[a] # "none" /\ pinned'[a] \notin {"none", pinned[a]} => pinned'[a] \in presented[a]
<1>1. pinned \in [Aliases -> Identities \union {"none"}]
  BY DEF FleetInd, SettingTypes
<1>2. CASE \E a \in Aliases : Confirm(a)
  <2>1. PICK a \in Aliases : Confirm(a)
    BY <1>2
  <2>2. /\ FleetInd'
        /\ pinned' = pinned \/ (pinned' = [pinned EXCEPT ![a] = offered[a]] /\ offered[a] \in presented[a])
    BY <2>1, ConfirmKeeps
  <2> QED
    BY <1>1, <2>2
<1>3. CASE \E a \in Aliases : RemoveSource(a)
  <2>1. PICK a \in Aliases : FleetInd' /\ pinned' = [pinned EXCEPT ![a] = "none"]
    BY <1>3, RemoveKeeps
  <2> QED
    BY <1>1, <2>1
<1>4. CASE \E a \in Aliases : JobStep(a) \/ Drop(a)
  <2>1. FleetInd' /\ \A b \in Aliases : pinned[b] = "none" \/ pinned'[b] = pinned[b]
    BY <1>4, ThreadStepsKeep DEF JobStep
  <2> QED
    BY <2>1
<1>5. CASE WorkerStep
  BY <1>5, StopsKeep, StartAllKeeps, DrainKeeps, TakeAgentsKeeps, GoesOnKeeps DEF WorkerStep
<1>6. CASE \/ \E a \in Aliases : Add(a) \/ Reconnect(a) \/ ProbeEnds(a)
           \/ ReconnectAll \/ Stop
  BY <1>6, AddKeeps, ReconnectKeeps, ReconnectAllKeeps, ProbeEndsKeeps, GoesOnKeeps
<1>7. CASE UNCHANGED fleetVars
  <2>1. OnlySettings /\ UNCHANGED <<app, config, pinned, view, epoch, offered, rows, period, afresh, presented>>
    BY <1>7 DEF fleetVars, settingVars, viewVars, threadVars, probeVars, OnlySettings
  <2>2. FleetInd'
    <3>1. SettingTypes' /\ OfferTypes' /\ ShownAreConfigured' /\ OffersArePresented'
      BY <2>1 DEF FleetInd, SettingTypes, OfferTypes, ShownAreConfigured, Listed, Configured,
                  OffersArePresented, Presented, OnlySettings
    <3> QED
      BY <2>1, <3>1, SameMoves, CommandsKeep
  <2> QED
    BY <2>1, <2>2
<1> QED
  BY <1>2, <1>3, <1>4, <1>5, <1>6, <1>7 DEF NextFleet, Command

\* At the start there is nothing.
LEMMA FleetStarts ==
  ASSUME InitFleet
  PROVE  FleetInd
<1>1. /\ app = "running" /\ worker = "idle" /\ updates = << >> /\ results = << >> /\ afresh = {}
      /\ config = [a \in Aliases |-> Absent] /\ view = [a \in Aliases |-> NoView]
      /\ epoch = [a \in Aliases |-> -1] /\ offered = [a \in Aliases |-> "none"]
      /\ rows = [a \in Aliases |-> 0] /\ pinned = [a \in Aliases |-> "none"]
      /\ job = [a \in Aliases |-> NoJob] /\ probe = [a \in Aliases |-> NoProbe]
      /\ period = [a \in Aliases |-> 0] /\ presented = [a \in Aliases |-> {}]
  BY DEF InitFleet
<1>2. /\ NoView \in ViewRecords /\ NoView.status = "none" /\ ~NoView.asks
      /\ NoJob \in ThreadRecords /\ ~NoJob.stop /\ NoJob.finds = "none"
      /\ NoProbe \in ProbeRecords /\ NoProbe.at = "none"
  BY DEF NoView, ViewRecords, NoJob, ThreadRecords, NoProbe, ProbeRecords
<1>3. /\ << >> \in Seq(Reports) /\ << >> \in Seq(Findings) /\ Len(<< >>) = 0 /\ 0 <= Capacity /\ -1 \in Int
      /\ DOMAIN << >> = {}
  BY FleetAssumption, EmptySeq
<1>4. SettingTypes /\ ViewTypes /\ OfferTypes /\ ThreadTypes /\ ProbeTypes
  BY <1>1, <1>2, <1>3 DEF SettingTypes, ViewTypes, OfferTypes, ThreadTypes, ProbeTypes
<1>5. \A a \in Aliases : view[a] = NoView /\ job[a] = NoJob /\ probe[a] = NoProbe /\ rows[a] = 0
  BY <1>1
<1>6. ShownAreConfigured /\ OneIsJoined /\ AgentsBelongToConnection
  BY <1>2, <1>5 DEF ShownAreConfigured, Listed, OneIsJoined, AgentsBelongToConnection
<1>7. ProbesAreTimely /\ FoundArePresented /\ ToldArePresented /\ OffersArePresented
  BY <1>1, <1>2, <1>3, <1>5
     DEF ProbesAreTimely, FoundArePresented, ToldArePresented, OffersArePresented, Presented
<1> QED
  BY <1>4, <1>6, <1>7 DEF FleetInd

\* The invariant has the types, and one thread that is waited for.
LEMMA FleetIsTyped ==
  ASSUME FleetInd
  PROVE  FleetTypeOK
<1> DEFINE joined == {a \in Aliases : job[a].stop /\ job[a].at # "ended"}
<1>1. Cardinality(joined) <= 1
  <2>1. CASE joined = {}
    <3>1. Cardinality(joined) = 0
      BY <2>1, FS_EmptySet
    <3> QED
      BY <3>1
  <2>2. CASE \E a \in Aliases : a \in joined
    <3>1. PICK a \in Aliases : a \in joined
      BY <2>2
    <3>2. joined = {a}
      BY <3>1 DEF FleetInd, OneIsJoined
    <3>3. Cardinality(joined) = 1
      BY <3>2, FS_Singleton
    <3> QED
      BY <3>3
  <2> QED
    BY <2>1, <2>2
<1>2. \A a \in Aliases :
        /\ config[a] \in {Absent} \union 0..MaxGeneration
        /\ view[a] \in [status : {"none", "waiting", "connected", "error"}, asks : BOOLEAN]
        /\ offered[a] \in Identities \union {"none"} /\ pinned[a] \in Identities \union {"none"}
  BY DEF FleetInd, SettingTypes, ViewTypes, OfferTypes, ViewRecords
<1>3. \A a \in Aliases :
        /\ job[a].at \in {"none", "wait", "dial", "connected", "report", "parked", "ended"}
        /\ probe[a].at \in {"none", "running", "ended"}
  <2>1. \A a \in Aliases : job[a] \in ThreadRecords /\ probe[a] \in ProbeRecords
    BY DEF FleetInd, ThreadTypes, ProbeTypes
  <2> QED
    BY <2>1 DEF ThreadRecords, ProbeRecords
<1>4. \A a \in Aliases : (Listed(a) => Configured(a)) /\ (rows[a] # 0 => Listed(a))
  BY DEF FleetInd, ShownAreConfigured
<1>5. /\ app \in {"running", "stopping", "gone"} /\ worker \in {"idle", "sync", "drain", "agents"}
      /\ Len(updates) <= Capacity /\ Len(results) <= Capacity
  BY DEF FleetInd, SettingTypes, ThreadTypes, ProbeTypes
<1> QED
  BY <1>1, <1>2, <1>3, <1>4, <1>5 DEF FleetTypeOK

\* Whatever the threads, probes, commands and turns of the worker do, on however many
\* sources: the agents that are shown were probed since the source was last shown as
\* connected, unless it was started afresh for another one, and an identity that replaces
\* another was presented since the source was added (state.rs 348, 574).
THEOREM ViewsAreKept ==
  ASSUME QuickHands = FALSE
  PROVE  Fleet => ViewsAreCurrent
<1>1. InitFleet => FleetInd
  BY FleetStarts
<1>2. FleetInd => FleetTypeOK /\ AgentsBelongToConnection
  BY FleetIsTyped DEF FleetInd
<1>3. FleetInd /\ [NextFleet]_fleetVars
        => /\ FleetInd'
           /\ [\A a \in Aliases :
                 pinned[a] # "none" /\ pinned'[a] \notin {"none", pinned[a]} => pinned'[a] \in presented[a]]_fleetVars
  BY FleetStepKeeps
<1> QED
  BY <1>1, <1>2, <1>3, PTL DEF Fleet, ViewsAreCurrent, ConfirmIsCurrent

-------------------------------------------------------------------------------
USE BoardAssumption, BannerAssumption

\* What the code puts on the queue as the next version.
NextBanner(id) == [id |-> id, approval |-> id \in Approvals, version |-> shows + 1]

\* The queue is orderly, the requests on it are the approvals, and all of it was shown.
QueueIsOrderly ==
  /\ queue \in Seq(Banner) /\ Orderly(queue)
  /\ shows \in 0..MaxShows
  /\ \A b \in ToSet(queue) : b.approval = (b.id \in Approvals) /\ b.version \in 1..shows

WindowIsOfBanners == drawn \in Seq(Banner) /\ window \in Seq(Banner)

\* What is taken off the queue was on it.
LEMMA OnBoardIsQueued ==
  ASSUME NEW id \in IdsOf(queue)
  PROVE  OnBoard(id) \in ToSet(queue) /\ OnBoard(id).id = id
BY DEF IdsOf, OnBoard

\* What a step may do to the queue, to what is drawn and to the window.
BoardStep ==
  \/ UNCHANGED <<queue, drawn, window, shows>>
  \/ \E id \in Ids :
       /\ shows < MaxShows /\ shows' = shows + 1
       /\ \/ queue' = queue
          \/ ~Refused(queue, NextBanner(id)) /\ queue' = Put(queue, NextBanner(id))
       /\ UNCHANGED <<drawn, window>>
  \/ \E id \in IdsOf(queue) : queue' = Without(queue, id) /\ UNCHANGED <<drawn, window, shows>>
  \/ drawn' = Visible(queue) /\ UNCHANGED <<queue, window, shows>>
  \/ window' \in {window, drawn} /\ UNCHANGED <<queue, drawn, shows>>

LEMMA NextIsBoardStep == [Next]_bannerVars => BoardStep
<1> SUFFICES ASSUME [Next]_bannerVars PROVE BoardStep
  OBVIOUS
<1>1. ASSUME NEW t \in Everyone, Push(t) PROVE BoardStep
  BY <1>1 DEF Push, NextBanner, BoardStep
<1>2. ASSUME NEW t \in Everyone, Proceed(t) PROVE BoardStep
  BY <1>2 DEF Proceed, MarkDirty, Schedule, CheckDirty, Release, Begin, OnlyRequest, boardVars,
              boundVars, BoardStep
<1>3. ASSUME NEW t \in Everyone, NEW id \in Ids, DismissBanner(t, id) PROVE BoardStep
  BY <1>3 DEF DismissBanner, RemoveBanner, boundVars, BoardStep
<1>4. ASSUME NEW t \in Threads, CancelActivation(t) \/ CompleteActivation(t) PROVE BoardStep
  BY <1>4 DEF CancelActivation, CompleteActivation, RemoveBanner, boardVars, boundVars, BoardStep
<1>5. ASSUME NEW t \in Threads, NEW id \in Ids, ClaimActivation(t, id) PROVE BoardStep
  BY <1>5 DEF ClaimActivation, boardVars, boundVars, BoardStep
<1>6. CASE Redraw \/ Tick \/ BackoffEnds
  BY <1>6 DEF Redraw, Tick, BackoffEnds, OnlyRequest, boardVars, boundVars, BoardStep
<1>7. CASE MainPresents
  BY <1>7 DEF MainPresents, Snapshot, PresentWindow, TakeSound, CheckCurrent, Settle, Finished,
              OnlyFlight, ToShow, BoardStep
<1>8. CASE UNCHANGED bannerVars
  BY <1>8 DEF bannerVars, boardVars, boundVars, BoardStep
<1> QED
  BY <1>1, <1>2, <1>3, <1>4, <1>5, <1>6, <1>7, <1>8 DEF Next

\* The banner a thread shows is one.
LEMMA NextBannerIsBanner ==
  ASSUME QueueIsOrderly, NEW id \in Ids, shows < MaxShows
  PROVE  /\ NextBanner(id) \in Banner
         /\ \A c \in ToSet(queue) : c.id = id => c.approval = NextBanner(id).approval
BY DEF QueueIsOrderly, NextBanner, Banner

LEMMA QueueStaysOrderly ==
  ASSUME QueueIsOrderly, WindowIsOfBanners, BoardStep
  PROVE  QueueIsOrderly' /\ WindowIsOfBanners'
<1> USE DEF QueueIsOrderly, WindowIsOfBanners
<1>1. CASE UNCHANGED <<queue, drawn, window, shows>>
  BY <1>1
<1>2. ASSUME NEW id \in Ids, shows < MaxShows, shows' = shows + 1,
             \/ queue' = queue
             \/ ~Refused(queue, NextBanner(id)) /\ queue' = Put(queue, NextBanner(id)),
             UNCHANGED <<drawn, window>>
      PROVE  QueueIsOrderly' /\ WindowIsOfBanners'
  <2> DEFINE b == NextBanner(id)
  <2>1. b \in Banner /\ \A c \in ToSet(queue) : c.id = b.id => c.approval = b.approval
    BY <1>2, NextBannerIsBanner DEF NextBanner
  <2>2. b.approval = (b.id \in Approvals) /\ b.version = shows + 1
    BY DEF NextBanner
  <2> HIDE DEF b
  <2>3. queue' \in Seq(Banner) /\ Orderly(queue') /\ ToSet(queue') \subseteq ToSet(queue) \union {b}
    BY <1>2, <2>1, PutKeepsOrder DEF b
  <2>4. shows' \in 0..MaxShows /\ \A v \in 1..shows : v \in 1..shows'
    BY <1>2
  <2>5. shows + 1 \in 1..shows'
    BY <1>2
  <2> QED
    BY <1>2, <2>2, <2>3, <2>4, <2>5
<1>3. ASSUME NEW id \in IdsOf(queue), queue' = Without(queue, id), UNCHANGED <<drawn, window, shows>>
      PROVE  QueueIsOrderly' /\ WindowIsOfBanners'
  <2>1. queue' \in Seq(Banner) /\ Orderly(queue') /\ ToSet(queue') \subseteq ToSet(queue)
    BY <1>3, WithoutKeepsOrder
  <2> QED
    BY <1>3, <2>1
<1>4. CASE drawn' = Visible(queue) /\ UNCHANGED <<queue, window, shows>>
  BY <1>4, VisibleIsQueued
<1>5. CASE window' \in {window, drawn} /\ UNCHANGED <<queue, drawn, shows>>
  BY <1>5
<1> QED
  BY <1>1, <1>2, <1>3, <1>4, <1>5 DEF BoardStep

LEMMA InitIsOrderly == Init => QueueIsOrderly /\ WindowIsOfBanners
<1> SUFFICES ASSUME Init PROVE QueueIsOrderly /\ WindowIsOfBanners
  OBVIOUS
<1>1. queue = << >> /\ drawn = << >> /\ window = << >> /\ shows = 0
  BY DEF Init, BoardInit
<1>2. queue \in Seq(Banner) /\ ToSet(queue) = {} /\ DOMAIN queue = {}
  BY <1>1, NoneQueued DEF ToSet
<1>3. PassivePlaces(queue) = {}
  BY <1>2 DEF PassivePlaces
<1>4. Cardinality(PassivePlaces(queue)) = 0
  BY <1>3, FS_EmptySet
<1> QED
  BY <1>1, <1>2, <1>4, NoneQueued DEF QueueIsOrderly, WindowIsOfBanners, Orderly

LEMMA OrderIsInvariant == Spec => [](QueueIsOrderly /\ WindowIsOfBanners)
<1>1. QueueIsOrderly /\ WindowIsOfBanners /\ [Next]_bannerVars
        => (QueueIsOrderly /\ WindowIsOfBanners)'
  BY NextIsBoardStep, QueueStaysOrderly
<1> QED
  BY InitIsOrderly, <1>1, PTL DEF Spec

-------------------------------------------------------------------------------
(* The board *)

\* Threads that show, dismiss, activate and present as they please do no more to the queue and
\* to the window than BannerBoard allows: every step of the code is one of its steps or none.
THEOREM BannerIsBoard == Spec => BoardSpec
<1>1. Init => BoardInit
  BY DEF Init
<1>2. QueueIsOrderly /\ [Next]_bannerVars => [BoardNext]_boardVars
  <2> SUFFICES ASSUME QueueIsOrderly, BoardStep PROVE [BoardNext]_boardVars
    BY NextIsBoardStep
  <2> USE DEF boardVars
  <2>1. ASSUME NEW id \in Ids, shows < MaxShows, ~Refused(queue, NextBanner(id)),
               queue' = Put(queue, NextBanner(id)), UNCHANGED <<drawn, window>>
        PROVE  [BoardNext]_boardVars
    <3>1. NextBanner(id) \in Banner
      BY <2>1, NextBannerIsBanner
    <3>2. Show(NextBanner(id))
      BY <2>1 DEF Show
    <3> QED
      BY <3>1, <3>2 DEF BoardNext
  <2>2. ASSUME NEW id \in IdsOf(queue), queue' = Without(queue, id), UNCHANGED <<drawn, window>>
        PROVE  [BoardNext]_boardVars
    <3>1. id \in Ids
      <4>1. \A i \in DOMAIN queue : queue[i] \in Banner
        BY ElementOfSeq, LenProperties DEF QueueIsOrderly
      <4> QED
        BY <4>1 DEF IdsOf, ToSet, Banner
    <3> QED
      BY <2>2, <3>1 DEF BoardNext, Dismiss
  <2>3. CASE drawn' = Visible(queue) /\ UNCHANGED <<queue, window>>
    BY <2>3 DEF BoardNext, Draw
  <2>4. CASE window' \in {window, drawn} /\ UNCHANGED <<queue, drawn>>
    BY <2>4 DEF BoardNext, Present
  <2>5. CASE UNCHANGED <<queue, drawn, window>>
    BY <2>5
  <2> QED
    BY <2>1, <2>2, <2>3, <2>4, <2>5 DEF BoardStep
<1> QED
  BY <1>1, <1>2, OrderIsInvariant, PTL DEF Spec, BoardSpec

-------------------------------------------------------------------------------
(* Activations *)

ThreadsAreSomewhere == at \in [Everyone -> Places]

\* A claim is on what is queued, and at most the last token.
ClaimsAreQueued ==
  /\ nextToken \in 0..MaxClaims
  /\ claims \in [Ids -> 0..MaxClaims]
  /\ \A id \in Ids : claims[id] <= nextToken /\ (claims[id] # 0 => id \in IdsOf(queue))

\* The thread whose claim is current has its banner on the queue.
CurrentIsQueued ==
  /\ claimed \in [Threads -> [token : 0..MaxClaims, banner : Banner \union {NoClaim.banner}]]
  /\ \A t \in Threads : at[t] = "activating" =>
       /\ claimed[t].token \in 1..nextToken /\ claimed[t].banner \in Banner
       /\ IsCurrent(t) => claimed[t].banner \in ToSet(queue)

ActivationInd == QueueIsOrderly /\ ThreadsAreSomewhere /\ ClaimsAreQueued /\ CurrentIsQueued

LEMMA QueuedAreBanners ==
  ASSUME QueueIsOrderly
  PROVE  /\ \A b \in ToSet(queue) : b \in Banner
         /\ \A b, c \in ToSet(queue) : b.id = c.id => b = c
<1>1. \A i \in DOMAIN queue : queue[i] \in Banner
  BY ElementOfSeq, LenProperties DEF QueueIsOrderly
<1> QED
  BY <1>1 DEF QueueIsOrderly, Orderly, ToSet

\* What a step may do to the claims and to who activates.
ClaimStep ==
  \/ UNCHANGED <<queue, claims, claimVars>>
     /\ \A t \in Threads : at'[t] = "activating" => at[t] = "activating"
  \/ \E id \in Ids :
       /\ claims' = ClaimsAfter(queue', id)
       /\ \A b \in ToSet(queue') : b \in ToSet(queue) \/ b.id = id
       /\ UNCHANGED claimVars
       /\ \A t \in Threads : at'[t] = "activating" => at[t] = "activating"
  \/ \E id \in Ids :
       /\ queue' = Without(queue, id) /\ claims' = [claims EXCEPT ![id] = 0]
       /\ nextToken' = nextToken
       /\ \A t \in Threads : at'[t] = "activating" => at[t] = "activating" /\ claimed'[t] = claimed[t]
       /\ claimed' = claimed \/ \E t \in Threads : claimed' = [claimed EXCEPT ![t] = NoClaim]
  \/ /\ queue' = queue /\ nextToken' = nextToken
     /\ claims' = claims \/ \E id \in Ids : claims' = [claims EXCEPT ![id] = 0]
     /\ \A t \in Threads : at'[t] = "activating" => at[t] = "activating" /\ claimed'[t] = claimed[t]
     /\ \E t \in Threads : claimed' = [claimed EXCEPT ![t] = NoClaim]
  \/ \E t \in Threads, id \in Ids : ClaimActivation(t, id)

LEMMA NextIsClaimStep == ActivationInd /\ [Next]_bannerVars => ClaimStep /\ ThreadsAreSomewhere'
<1> SUFFICES ASSUME ActivationInd, [Next]_bannerVars PROVE ClaimStep /\ ThreadsAreSomewhere'
  OBVIOUS
<1> DEFINE Goal == ClaimStep /\ ThreadsAreSomewhere'
<1>1. at \in [Everyone -> Places] /\ Threads \subseteq Everyone /\ Main \in Everyone /\ Worker \in Everyone
  BY DEF ActivationInd, ThreadsAreSomewhere, Everyone
<1> DEFINE Elsewhere == \A t \in Threads : at'[t] = "activating" => at[t] = "activating"
<1>2. ASSUME NEW t \in Everyone, NEW place \in Places \ {"activating"}, GoTo(t, place)
      PROVE  Elsewhere /\ ThreadsAreSomewhere'
  BY <1>1, <1>2 DEF GoTo, ThreadsAreSomewhere
<1>3. ASSUME NEW t \in Everyone, Push(t) PROVE Goal
  <2>1. PICK id \in Ids :
          IF Refused(queue, NextBanner(id))
          THEN UNCHANGED <<queue, claims, lock, at>>
          ELSE /\ queue' = Put(queue, NextBanner(id)) /\ claims' = ClaimsAfter(queue', id)
               /\ GoTo(t, "dirty")
    BY <1>3 DEF Push, NextBanner
  <2>2. claimVars' = claimVars /\ shows < MaxShows
    BY <1>3 DEF Push, claimVars
  <2>3. CASE Refused(queue, NextBanner(id))
    BY <1>1, <2>1, <2>2, <2>3 DEF ClaimStep, claimVars, ThreadsAreSomewhere
  <2>4. CASE ~Refused(queue, NextBanner(id))
    <3>1. queue' = Put(queue, NextBanner(id)) /\ claims' = ClaimsAfter(queue', id) /\ GoTo(t, "dirty")
      BY <2>1, <2>4
    <3>2. Elsewhere /\ ThreadsAreSomewhere'
      BY <1>2, <3>1 DEF Places
    <3>3. NextBanner(id) \in Banner /\ NextBanner(id).id = id
          /\ \A c \in ToSet(queue) : c.id = id => c.approval = NextBanner(id).approval
      BY <2>2, NextBannerIsBanner DEF ActivationInd, NextBanner
    <3>4. ToSet(queue') \subseteq ToSet(queue) \union {NextBanner(id)}
      BY <2>4, <3>1, <3>3, PutKeepsOrder DEF ActivationInd, QueueIsOrderly
    <3> QED
      BY <2>2, <3>1, <3>2, <3>3, <3>4 DEF ClaimStep
  <2> QED
    BY <2>3, <2>4
<1>4. ASSUME NEW t \in Everyone, Proceed(t) PROVE Goal
  <2>1. UNCHANGED <<queue, claims, claimVars>>
    BY <1>4 DEF Proceed, MarkDirty, Schedule, CheckDirty, Release, Begin, OnlyRequest, boardVars,
                claimVars
  <2>2. \E place \in Places \ {"activating"} : GoTo(t, place)
    BY <1>4 DEF Proceed, MarkDirty, Schedule, CheckDirty, Release, Begin, Places
  <2> QED
    BY <1>2, <2>1, <2>2 DEF ClaimStep
<1>5. ASSUME NEW t \in Everyone, NEW id \in Ids, DismissBanner(t, id) PROVE Goal
  <2>1. queue' = Without(queue, id) /\ claims' = [claims EXCEPT ![id] = 0] /\ claimVars' = claimVars
    BY <1>5 DEF DismissBanner, RemoveBanner, claimVars
  <2>2. GoTo(t, "dirty")
    BY <1>5 DEF DismissBanner, RemoveBanner
  <2>3. Elsewhere /\ ThreadsAreSomewhere'
    BY <1>2, <2>2 DEF Places
  <2> QED
    BY <2>1, <2>3 DEF ClaimStep, claimVars
<1>6. ASSUME NEW t \in Threads, CancelActivation(t) \/ CompleteActivation(t) PROVE Goal
  <2>1. at[t] = "activating" /\ claimed[t].banner.id \in Ids
    BY <1>6 DEF CancelActivation, CompleteActivation, ActivationInd, CurrentIsQueued, Banner
  <2>2. \E place \in Places \ {"activating"} : GoTo(t, place)
    BY <1>6 DEF CancelActivation, CompleteActivation, RemoveBanner, Places
  <2>3. Elsewhere /\ ThreadsAreSomewhere' /\ at'[t] # "activating"
    BY <1>1, <1>2, <2>2 DEF GoTo
  <2>4. nextToken' = nextToken /\ claimed' = [claimed EXCEPT ![t] = NoClaim]
    BY <1>6 DEF CancelActivation, CompleteActivation
  <2>5. \A u \in Threads : u # t => claimed'[u] = claimed[u]
    BY <2>4 DEF ActivationInd, CurrentIsQueued
  <2>6. \A u \in Threads : at'[u] = "activating" => at[u] = "activating" /\ claimed'[u] = claimed[u]
    BY <2>3, <2>5
  <2>7. \/ queue' = queue /\ (claims' = claims \/ \E id \in Ids : claims' = [claims EXCEPT ![id] = 0])
        \/ \E id \in Ids : queue' = Without(queue, id) /\ claims' = [claims EXCEPT ![id] = 0]
    BY <1>6, <2>1 DEF CancelActivation, CompleteActivation, RemoveBanner, boardVars
  <2> QED
    BY <2>3, <2>4, <2>6, <2>7 DEF ClaimStep
<1>7. ASSUME NEW t \in Threads, NEW id \in Ids, ClaimActivation(t, id) PROVE Goal
  <2>1. GoTo(t, "activating")
    BY <1>7 DEF ClaimActivation
  <2> QED
    BY <1>1, <1>7, <2>1 DEF ClaimStep, GoTo, Places, ThreadsAreSomewhere
<1>8. CASE Redraw \/ Tick \/ BackoffEnds
  <2>1. UNCHANGED <<queue, claims, claimVars>>
    BY <1>8 DEF Redraw, Tick, BackoffEnds, OnlyRequest, boardVars, claimVars
  <2>2. at' = at \/ GoTo(Main, "dirty") \/ GoTo(Worker, "request")
    BY <1>8 DEF Redraw, Tick, BackoffEnds
  <2> QED
    BY <1>1, <1>2, <2>1, <2>2 DEF ClaimStep, Places, ThreadsAreSomewhere
<1>9. CASE MainPresents
  <2>1. UNCHANGED <<queue, claims, claimVars>>
    BY <1>9 DEF MainPresents, Snapshot, PresentWindow, TakeSound, CheckCurrent, Settle, Finished,
                OnlyFlight, claimVars
  <2>2. \E place \in Places \ {"activating"} : GoTo(Main, place)
    BY <1>9 DEF MainPresents, Snapshot, PresentWindow, TakeSound, CheckCurrent, Settle, Finished,
                Places
  <2> QED
    BY <1>1, <1>2, <2>1, <2>2 DEF ClaimStep
<1>10. CASE UNCHANGED bannerVars
  BY <1>1, <1>10 DEF bannerVars, boardVars, stateVars, claimVars, ClaimStep, ThreadsAreSomewhere
<1> QED
  BY <1>3, <1>4, <1>5, <1>6, <1>7, <1>8, <1>9, <1>10 DEF Next

\* The claims after a banner of the id has been put on the queue are on what is queued.
LEMMA ClaimsKeep ==
  ASSUME ActivationInd, QueueIsOrderly', ThreadsAreSomewhere', ClaimStep
  PROVE  ActivationInd'
<1> USE DEF ClaimsAreQueued, CurrentIsQueued, IsCurrent
<1>0. ClaimsAreQueued /\ CurrentIsQueued /\ QueueIsOrderly
  BY DEF ActivationInd
<1>1. /\ \A b \in ToSet(queue) : b \in Banner
      /\ \A b, c \in ToSet(queue) : b.id = c.id => b = c
  BY <1>0, QueuedAreBanners
<1>2. \A b \in Banner : b.id \in Ids
  BY DEF Banner
<1> DEFINE Goal == ClaimsAreQueued' /\ CurrentIsQueued'
<1>3. ASSUME UNCHANGED <<queue, claims, claimVars>>,
             \A t \in Threads : at'[t] = "activating" => at[t] = "activating"
      PROVE  Goal
  <2>1. claimed' = claimed /\ nextToken' = nextToken /\ claims' = claims /\ queue' = queue
    BY <1>3 DEF claimVars
  <2>2. ClaimsAreQueued'
    BY <1>0, <2>1
  <2>3. \A t \in Threads : IsCurrent(t)' <=> IsCurrent(t)
    BY <2>1
  <2>4. CurrentIsQueued'
    <3> HIDE DEF IsCurrent
    <3> QED
      BY <1>0, <1>3, <2>1, <2>3
  <2> QED
    BY <2>2, <2>4
<1>4. ASSUME NEW id \in Ids, claims' = ClaimsAfter(queue', id),
             \A b \in ToSet(queue') : b \in ToSet(queue) \/ b.id = id, UNCHANGED claimVars,
             \A t \in Threads : at'[t] = "activating" => at[t] = "activating"
      PROVE  Goal
  <2>1. \A i \in Ids : claims'[i] = IF i \in IdsOf(queue') /\ i # id THEN claims[i] ELSE 0
    BY <1>4 DEF ClaimsAfter
  <2>2. claims' \in [Ids -> 0..MaxClaims]
    BY <1>0, <1>4 DEF ClaimsAfter
  <2>3. ClaimsAreQueued'
    BY <1>0, <1>4, <2>1, <2>2 DEF claimVars
  <2>4. ASSUME NEW t \in Threads, at'[t] = "activating", IsCurrent(t)'
        PROVE  claimed'[t].banner \in ToSet(queue')
    <3> DEFINE b == claimed[t].banner
    <3>1. b \in Banner /\ b.id \in Ids /\ claimed[t].token \in 1..nextToken
          /\ claimed'[t] = claimed[t]
      BY <1>0, <1>2, <1>4, <2>4 DEF claimVars
    <3>2. claims'[b.id] = claimed[t].token /\ claimed[t].token # 0
      BY <1>0, <2>4, <3>1
    <3>3. b.id \in IdsOf(queue') /\ b.id # id /\ claims[b.id] = claimed[t].token
      BY <2>1, <3>1, <3>2
    <3>4. b \in ToSet(queue)
      BY <1>0, <1>4, <2>4, <3>3
    <3>5. PICK c \in ToSet(queue') : c.id = b.id
      BY <3>3 DEF IdsOf
    <3>6. c = b
      BY <1>1, <1>4, <3>3, <3>4, <3>5
    <3> QED
      BY <3>1, <3>5, <3>6
  <2> QED
    BY <1>0, <1>4, <2>3, <2>4 DEF claimVars
<1>5. ASSUME NEW id \in Ids, queue' = Without(queue, id), claims' = [claims EXCEPT ![id] = 0],
             nextToken' = nextToken,
             \A t \in Threads : at'[t] = "activating" => at[t] = "activating" /\ claimed'[t] = claimed[t],
             claimed' = claimed \/ \E t \in Threads : claimed' = [claimed EXCEPT ![t] = NoClaim]
      PROVE  Goal
  <2>1. ToSet(queue') = {b \in ToSet(queue) : b.id # id}
    BY <1>0, <1>5, WithoutKeepsOrder DEF QueueIsOrderly
  <2>2. \A i \in Ids : claims'[i] = IF i = id THEN 0 ELSE claims[i]
    BY <1>0, <1>5
  <2>3. \A i \in IdsOf(queue) : i # id => i \in IdsOf(queue')
    BY <2>1 DEF IdsOf
  <2>4. claims' \in [Ids -> 0..MaxClaims]
    BY <1>0, <1>5
  <2>5. ClaimsAreQueued'
    BY <1>0, <1>5, <2>2, <2>3, <2>4
  <2>6. claimed' \in [Threads -> [token : 0..MaxClaims, banner : Banner \union {NoClaim.banner}]]
    <3>1. NoClaim \in [token : 0..MaxClaims, banner : Banner \union {NoClaim.banner}]
      BY DEF NoClaim
    <3> QED
      BY <1>0, <1>5, <3>1
  <2>7. ASSUME NEW t \in Threads, at'[t] = "activating"
        PROVE  /\ claimed'[t].token \in 1..nextToken' /\ claimed'[t].banner \in Banner
               /\ IsCurrent(t)' => claimed'[t].banner \in ToSet(queue')
    <3>1. claimed'[t] = claimed[t] /\ claimed[t].token \in 1..nextToken /\ claimed[t].banner \in Banner
          /\ claimed[t].banner.id \in Ids
      BY <1>0, <1>2, <1>5, <2>7
    <3>2. IsCurrent(t)' => claimed[t].banner.id # id /\ IsCurrent(t)
      BY <1>0, <2>2, <3>1
    <3> QED
      BY <1>0, <1>5, <2>1, <2>7, <3>1, <3>2
  <2> QED
    BY <2>5, <2>6, <2>7
<1>6. ASSUME queue' = queue, nextToken' = nextToken,
             claims' = claims \/ \E id \in Ids : claims' = [claims EXCEPT ![id] = 0],
             \A t \in Threads : at'[t] = "activating" => at[t] = "activating" /\ claimed'[t] = claimed[t],
             \E t \in Threads : claimed' = [claimed EXCEPT ![t] = NoClaim]
      PROVE  Goal
  <2>1. \A i \in Ids : claims'[i] = 0 \/ claims'[i] = claims[i]
    BY <1>0, <1>6
  <2>2. claims' \in [Ids -> 0..MaxClaims]
    BY <1>0, <1>6
  <2>3. ClaimsAreQueued'
    BY <1>0, <1>6, <2>1, <2>2
  <2>4. claimed' \in [Threads -> [token : 0..MaxClaims, banner : Banner \union {NoClaim.banner}]]
    BY <1>0, <1>6 DEF NoClaim
  <2>5. ASSUME NEW t \in Threads, at'[t] = "activating"
        PROVE  /\ claimed'[t].token \in 1..nextToken' /\ claimed'[t].banner \in Banner
               /\ IsCurrent(t)' => claimed'[t].banner \in ToSet(queue')
    <3>1. claimed'[t] = claimed[t] /\ claimed[t].token \in 1..nextToken /\ claimed[t].banner \in Banner
          /\ claimed[t].banner.id \in Ids
      BY <1>0, <1>2, <1>6, <2>5
    <3>2. IsCurrent(t)' => IsCurrent(t)
      BY <1>0, <2>1, <3>1
    <3> QED
      BY <1>0, <1>6, <2>5, <3>1, <3>2
  <2> QED
    BY <2>3, <2>4, <2>5
<1>7. ASSUME NEW t \in Threads, NEW id \in Ids, ClaimActivation(t, id) PROVE Goal
  <2>1. /\ queue' = queue /\ nextToken < MaxClaims /\ nextToken' = nextToken + 1
        /\ claims' = [claims EXCEPT ![id] = nextToken + 1] /\ id \in IdsOf(queue)
        /\ claimed' = [claimed EXCEPT ![t] = [token |-> nextToken + 1, banner |-> OnBoard(id)]]
        /\ GoTo(t, "activating")
    BY <1>7 DEF ClaimActivation, boardVars
  <2>2. OnBoard(id) \in ToSet(queue) /\ OnBoard(id).id = id /\ OnBoard(id) \in Banner
    BY <1>1, <2>1, OnBoardIsQueued
  <2>3. \A i \in Ids : claims'[i] = IF i = id THEN nextToken + 1 ELSE claims[i]
    BY <1>0, <2>1
  <2>4. nextToken \in Nat /\ nextToken + 1 \in 0..MaxClaims /\ 1..nextToken \subseteq 1..(nextToken + 1)
    BY <1>0, <2>1
  <2>5. claims' \in [Ids -> 0..MaxClaims]
    BY <1>0, <2>1, <2>4
  <2>6. ClaimsAreQueued'
    <3>1. \A i \in Ids : claims'[i] <= nextToken + 1
      BY <1>0, <2>3, <2>4
    <3>2. \A i \in Ids : claims'[i] # 0 => i \in IdsOf(queue)
      BY <1>0, <2>1, <2>3
    <3> QED
      BY <2>1, <2>4, <2>5, <3>1, <3>2
  <2>7. claimed' \in [Threads -> [token : 0..MaxClaims, banner : Banner \union {NoClaim.banner}]]
    BY <1>0, <2>1, <2>2, <2>4
  <2>8. ASSUME NEW u \in Threads, at'[u] = "activating"
        PROVE  /\ claimed'[u].token \in 1..nextToken' /\ claimed'[u].banner \in Banner
               /\ IsCurrent(u)' => claimed'[u].banner \in ToSet(queue')
    <3>1. CASE u = t
      <4>1. claimed'[u] = [token |-> nextToken + 1, banner |-> OnBoard(id)]
        BY <1>0, <2>1, <3>1
      <4> QED
        BY <2>1, <2>2, <2>4, <4>1
    <3>2. CASE u # t
      <4>1. claimed'[u] = claimed[u] /\ at[u] = "activating"
        BY <1>0, <2>1, <2>8, <3>2 DEF GoTo, ActivationInd, ThreadsAreSomewhere, Everyone
      <4>2. claimed[u].token \in 1..nextToken /\ claimed[u].banner \in Banner
            /\ claimed[u].banner.id \in Ids
        BY <1>0, <1>2, <4>1
      <4>3. IsCurrent(u)' => IsCurrent(u)
        BY <2>3, <2>4, <4>1, <4>2
      <4> QED
        BY <1>0, <2>1, <2>4, <4>1, <4>2, <4>3
    <3> QED
      BY <3>1, <3>2
  <2> QED
    BY <2>6, <2>7, <2>8
<1> HIDE DEF ClaimsAreQueued, CurrentIsQueued, IsCurrent
<1>8. Goal
  BY <1>3, <1>4, <1>5, <1>6, <1>7 DEF ClaimStep
<1> QED
  BY <1>8 DEF ActivationInd

LEMMA ActivationIsInvariant == Spec => []ActivationInd
<1>1. Init => ActivationInd
  <2> SUFFICES ASSUME Init PROVE ThreadsAreSomewhere /\ ClaimsAreQueued /\ CurrentIsQueued
    BY InitIsOrderly DEF ActivationInd
  <2> QED
    BY DEF Init, ThreadsAreSomewhere, ClaimsAreQueued, CurrentIsQueued, Places, NoClaim, Everyone
<1>2. ActivationInd /\ QueueIsOrderly' /\ [Next]_bannerVars => ActivationInd'
  BY NextIsClaimStep, ClaimsKeep
<1> QED
  BY <1>1, <1>2, OrderIsInvariant, PTL DEF Spec

\* A thread whose activation takes banners off the queue has the one that it claimed there: the
\* terminal that was reached is that banner's, and not of one that came in its place.
THEOREM ActivationsAreCurrent == Spec => ActivationIsCurrent
<1>1. ActivationInd /\ [Next]_bannerVars =>
        [\A t \in Threads :
           at[t] = "activating" /\ queue' # queue /\ at'[t] # "activating"
             => claimed[t].banner \in ToSet(queue)]_bannerVars
  <2> SUFFICES ASSUME ActivationInd, Next, NEW t \in Threads,
                      at[t] = "activating", queue' # queue, at'[t] # "activating"
               PROVE  claimed[t].banner \in ToSet(queue)
    OBVIOUS
  <2>1. at \in [Everyone -> Places] /\ Threads \subseteq Everyone
    BY DEF ActivationInd, ThreadsAreSomewhere, Everyone
  <2>2. ASSUME NEW u \in Everyone, NEW place \in Places, GoTo(u, place), at[u] # "activating"
        PROVE  FALSE
    BY <2>1, <2>2 DEF GoTo
  <2>3. ASSUME NEW u \in Everyone, Push(u) PROVE FALSE
    BY <2>2, <2>3 DEF Push, Places
  <2>4. ASSUME NEW u \in Everyone, NEW id \in Ids, DismissBanner(u, id) PROVE FALSE
    BY <2>2, <2>4 DEF DismissBanner, RemoveBanner, Places
  <2>5. ASSUME NEW u \in Threads, CompleteActivation(u) PROVE u = t
    <3>1. \E place \in Places : GoTo(u, place)
      BY <2>5 DEF CompleteActivation, RemoveBanner, Places
    <3> QED
      BY <2>1, <3>1 DEF GoTo
  <2>6. CASE CompleteActivation(t)
    <3>1. IsCurrent(t)
      BY <2>6 DEF CompleteActivation
    <3> QED
      BY <3>1 DEF ActivationInd, CurrentIsQueued
  <2>7. ASSUME \/ \E u \in Everyone : Proceed(u)
               \/ \E u \in Threads : CancelActivation(u) \/ \E id \in Ids : ClaimActivation(u, id)
               \/ Redraw \/ Tick \/ MainPresents \/ BackoffEnds
        PROVE  FALSE
    BY <2>7 DEF Proceed, MarkDirty, Schedule, CheckDirty, Release, Begin, OnlyRequest, boardVars,
                CancelActivation, ClaimActivation, Redraw, Tick, BackoffEnds, MainPresents,
                Snapshot, PresentWindow, TakeSound, CheckCurrent, Settle, Finished, OnlyFlight
  <2> QED
    BY <2>3, <2>4, <2>5, <2>6, <2>7 DEF Next
<1> QED
  BY <1>1, ActivationIsInvariant, PTL DEF Spec, ActivationIsCurrent

-------------------------------------------------------------------------------
(* Presentations *)

PresentingPlaces == {"scheduled", "begin", "release", "present", "sound", "finish", "settle",
                     "finished"}

\* One presentation at a time, and presentation_scheduled says whether there is one.
OnePresents ==
  /\ scheduled \in BOOLEAN /\ task \in BOOLEAN
  /\ \A t, u \in Everyone : at[t] \in PresentingPlaces /\ at[u] \in PresentingPlaces => t = u
  /\ \A t \in Everyone : at[t] \in PresentingPlaces => scheduled /\ ~task
  /\ task => scheduled
  /\ scheduled => task \/ \E t \in Everyone : at[t] \in PresentingPlaces

\* A presentation that is going to count its failure.
InFlight ==
  task \/ \E t \in Everyone : at[t] \in {"begin", "present", "sound", "finish", "settle"}

\* Who changes the queue holds the lock until it is dirty, and has set the attempts to none.
LockIsHeld ==
  /\ lock \in Everyone \union {"none"}
  /\ \A t \in Everyone : at[t] = "dirty" => lock = t /\ attempts = 0

\* What is to be presented has attempts left, and all of them if it has changed meanwhile.
AttemptsAreLeft ==
  /\ attempts \in 0..MaxAttempts /\ dirty \in BOOLEAN
  /\ backingOff \in BOOLEAN /\ overtaken \in BOOLEAN /\ succeeded \in BOOLEAN
  /\ InFlight \/ dirty => attempts < MaxAttempts
  /\ InFlight /\ dirty => attempts = 0

PresentationInd == ThreadsAreSomewhere /\ OnePresents /\ LockIsHeld /\ AttemptsAreLeft

\* What those who change the queue do to the presentations.
ChangeStep ==
  /\ UNCHANGED <<scheduled, task, dirty, succeeded>>
  /\ \/ UNCHANGED <<lock, at, attempts, backingOff, overtaken>>
     \/ Free /\ Moved /\ UNCHANGED <<lock, at>>
     \/ \E t \in Everyone : /\ at[t] \in {"idle", "activating"} /\ Free /\ Moved
                            /\ lock' = t /\ GoTo(t, "dirty")
     \/ \E t \in Everyone : /\ at[t] \in {"idle", "activating"}
                            /\ \E place \in {"idle", "activating", "request"} : GoTo(t, place)
                            /\ UNCHANGED <<lock, attempts, backingOff, overtaken>>

\* Every step is that, a step of a presentation, or the end of the backoff.
LEMMA NextIsPresentationStep ==
  ASSUME [Next]_bannerVars
  PROVE  \/ ChangeStep \/ MainPresents \/ (\E t \in Everyone : Proceed(t))
         \/ backingOff' = FALSE /\ UNCHANGED <<lock, at, attempts, dirty, scheduled, overtaken, task, succeeded>>
<1>1. ASSUME NEW t \in Everyone, Push(t) PROVE ChangeStep
  BY <1>1 DEF Push, ChangeStep
<1>2. ASSUME NEW t \in Everyone, NEW id \in Ids, DismissBanner(t, id) PROVE ChangeStep
  BY <1>2 DEF DismissBanner, RemoveBanner, ChangeStep
<1>3. ASSUME NEW t \in Threads, NEW id \in Ids, ClaimActivation(t, id) PROVE ChangeStep
  BY <1>3 DEF ClaimActivation, flightVars, ChangeStep, Everyone
<1>4. ASSUME NEW t \in Threads, CancelActivation(t) PROVE ChangeStep
  BY <1>4 DEF CancelActivation, flightVars, ChangeStep, Everyone
<1>5. ASSUME NEW t \in Threads, CompleteActivation(t) PROVE ChangeStep
  <2>1. t \in Everyone /\ at[t] = "activating" /\ Free /\ UNCHANGED <<dirty, scheduled, task, succeeded>>
    BY <1>5 DEF CompleteActivation, Everyone
  <2>2. \/ Moved /\ lock' = t /\ GoTo(t, "dirty")
        \/ (GoTo(t, "request") \/ GoTo(t, "idle")) /\ UNCHANGED <<overtaken, attempts, backingOff, lock>>
    BY <1>5 DEF CompleteActivation, RemoveBanner
  <2> QED
    BY <2>1, <2>2 DEF ChangeStep
<1>6. CASE Redraw \/ Tick
  BY <1>6 DEF Redraw, Tick, OnlyRequest, ChangeStep, Everyone
<1>7. CASE UNCHANGED bannerVars
  BY <1>7 DEF bannerVars, stateVars, flightVars, ChangeStep
<1>8. BackoffEnds => backingOff' = FALSE
                     /\ UNCHANGED <<lock, at, attempts, dirty, scheduled, overtaken, task, succeeded>>
  BY DEF BackoffEnds, flightVars
<1> QED
  BY <1>1, <1>2, <1>3, <1>4, <1>5, <1>6, <1>7, <1>8 DEF Next

\* Where a step leaves the threads, but for one.
LEMMA OneGoes ==
  ASSUME ThreadsAreSomewhere, NEW t \in Everyone, NEW place, GoTo(t, place)
  PROVE  \A u \in Everyone : at'[u] = IF u = t THEN place ELSE at[u]
BY DEF ThreadsAreSomewhere, GoTo

LEMMA ChangesKeepPresentations ==
  ASSUME PresentationInd, ThreadsAreSomewhere', ChangeStep
  PROVE  PresentationInd'
<1> USE DEF PresentationInd, OnePresents, LockIsHeld, AttemptsAreLeft, InFlight, PresentingPlaces
<1>1. MaxAttempts \in Nat /\ 0 < MaxAttempts /\ 0 \in 0..MaxAttempts
  OBVIOUS
<1>2. CASE UNCHANGED <<lock, at, attempts, backingOff, overtaken>>
  BY <1>2 DEF ChangeStep
<1>3. CASE Free /\ Moved /\ UNCHANGED <<lock, at>>
  BY <1>1, <1>3 DEF ChangeStep, Moved
<1>4. ASSUME NEW t \in Everyone, at[t] \in {"idle", "activating"}, Free, Moved, lock' = t,
             GoTo(t, "dirty")
      PROVE  PresentationInd'
  <2>1. \A u \in Everyone : at'[u] = IF u = t THEN "dirty" ELSE at[u]
    BY <1>4, OneGoes
  <2>2. UNCHANGED <<scheduled, task, dirty, succeeded>>
    BY DEF ChangeStep
  <2>3. OnePresents'
    BY <1>4, <2>1, <2>2
  <2>4. \A u \in Everyone : u # "none" /\ lock = "none"
    BY <1>4 DEF Free, Everyone
  <2>5. LockIsHeld'
    BY <1>4, <2>1, <2>4 DEF Moved
  <2>6. AttemptsAreLeft'
    BY <1>1, <1>4, <2>2 DEF Moved
  <2> QED
    BY <2>3, <2>5, <2>6
<1>5. ASSUME NEW t \in Everyone, at[t] \in {"idle", "activating"},
             NEW place \in {"idle", "activating", "request"}, GoTo(t, place),
             UNCHANGED <<lock, attempts, backingOff, overtaken>>
      PROVE  PresentationInd'
  <2>1. \A u \in Everyone : at'[u] = IF u = t THEN place ELSE at[u]
    BY <1>5, OneGoes
  <2>2. UNCHANGED <<scheduled, task, dirty, succeeded>>
    BY DEF ChangeStep
  <2>3. OnePresents'
    BY <1>5, <2>1, <2>2
  <2>4. LockIsHeld'
    BY <1>5, <2>1
  <2>5. InFlight' => InFlight
    BY <1>5, <2>1, <2>2
  <2>6. AttemptsAreLeft'
    <3> HIDE DEF InFlight
    <3> QED
      BY <1>5, <2>2, <2>5
  <2> QED
    BY <2>3, <2>4, <2>6
<1> QED
  BY <1>2, <1>3, <1>4, <1>5 DEF ChangeStep

LEMMA ProceedKeepsPresentations ==
  ASSUME PresentationInd, ThreadsAreSomewhere', NEW t \in Everyone, Proceed(t)
  PROVE  PresentationInd'
<1> USE DEF PresentationInd, OnePresents, LockIsHeld, AttemptsAreLeft, InFlight, PresentingPlaces
<1>1. MaxAttempts \in Nat /\ 0 < MaxAttempts /\ 0 \in 0..MaxAttempts
  OBVIOUS
<1>2. CASE MarkDirty(t)
  <2>1. /\ at[t] = "dirty" /\ dirty' = TRUE /\ lock' = "none" /\ GoTo(t, "request")
        /\ UNCHANGED <<attempts, backingOff, scheduled, overtaken, task, succeeded>>
    BY <1>2 DEF MarkDirty, flightVars
  <2>2. \A u \in Everyone : at'[u] = IF u = t THEN "request" ELSE at[u]
    BY <2>1, OneGoes
  <2>3. OnePresents'
    BY <2>1, <2>2
  <2>4. attempts = 0 /\ \A u \in Everyone : u # t => at[u] # "dirty"
    BY <2>1
  <2>5. LockIsHeld'
    BY <2>1, <2>2, <2>4
  <2>6. AttemptsAreLeft'
    BY <1>1, <2>1, <2>4
  <2> QED
    BY <2>3, <2>5, <2>6
<1>3. CASE Schedule(t)
  <2>1. /\ at[t] = "request" /\ scheduled' = TRUE
        /\ GoTo(t, IF scheduled THEN "idle" ELSE "scheduled")
        /\ UNCHANGED <<lock, attempts, backingOff, dirty, overtaken, task, succeeded>>
    BY <1>3 DEF Schedule, OnlyRequest
  <2>2. \A u \in Everyone : at'[u] = IF u = t THEN IF scheduled THEN "idle" ELSE "scheduled"
                                     ELSE at[u]
    BY <2>1, OneGoes
  <2>3. OnePresents'
    BY <2>1, <2>2
  <2>4. LockIsHeld'
    BY <2>1, <2>2
  <2>5. InFlight' => InFlight
    BY <2>1, <2>2
  <2>6. AttemptsAreLeft'
    <3> HIDE DEF InFlight
    <3> QED
      BY <2>1, <2>5
  <2> QED
    BY <2>3, <2>4, <2>6
<1>4. CASE CheckDirty(t)
  <2>1. /\ at[t] = "scheduled" /\ dirty' = (dirty /\ backingOff)
        /\ GoTo(t, IF dirty /\ ~backingOff THEN "begin" ELSE "release")
        /\ UNCHANGED <<lock, attempts, backingOff, scheduled, overtaken, task, succeeded>>
    BY <1>4 DEF CheckDirty, OnlyRequest, StillDirty
  <2>2. \A u \in Everyone : at'[u] = IF u = t THEN IF dirty /\ ~backingOff THEN "begin" ELSE "release"
                                     ELSE at[u]
    BY <2>1, OneGoes
  <2>3. OnePresents'
    BY <2>1, <2>2
  <2>4. LockIsHeld'
    BY <2>1, <2>2
  <2>5. InFlight' => InFlight \/ (dirty /\ ~dirty')
    BY <2>1, <2>2
  <2>6. AttemptsAreLeft'
    <3> HIDE DEF InFlight
    <3> QED
      BY <2>1, <2>5
  <2> QED
    BY <2>3, <2>4, <2>6
<1>5. CASE Release(t)
  <2>1. /\ at[t] = "release" /\ scheduled' = FALSE /\ GoTo(t, "idle")
        /\ UNCHANGED <<lock, attempts, backingOff, dirty, overtaken, task, succeeded>>
    BY <1>5 DEF Release, OnlyRequest
  <2>2. \A u \in Everyone : at'[u] = IF u = t THEN "idle" ELSE at[u]
    BY <2>1, OneGoes
  <2>3. OnePresents'
    BY <2>1, <2>2
  <2>4. LockIsHeld'
    BY <2>1, <2>2
  <2>5. InFlight' => InFlight
    BY <2>1, <2>2
  <2>6. AttemptsAreLeft'
    <3> HIDE DEF InFlight
    <3> QED
      BY <2>1, <2>5
  <2> QED
    BY <2>3, <2>4, <2>6
<1>6. CASE Begin(t)
  <2>1. /\ at[t] = "begin" /\ overtaken' = FALSE /\ task' = TRUE /\ GoTo(t, "idle")
        /\ UNCHANGED <<lock, attempts, backingOff, dirty, scheduled, succeeded>>
    BY <1>6 DEF Begin, OnlyRequest
  <2>2. \A u \in Everyone : at'[u] = IF u = t THEN "idle" ELSE at[u]
    BY <2>1, OneGoes
  <2>3. OnePresents'
    BY <2>1, <2>2
  <2>4. LockIsHeld'
    BY <2>1, <2>2
  <2>5. InFlight
    BY <2>1
  <2>6. AttemptsAreLeft'
    <3> HIDE DEF InFlight
    <3> QED
      BY <2>1, <2>5
  <2> QED
    BY <2>3, <2>4, <2>6
<1> QED
  BY <1>2, <1>3, <1>4, <1>5, <1>6 DEF Proceed

LEMMA PresentingKeepsPresentations ==
  ASSUME PresentationInd, ThreadsAreSomewhere', MainPresents
  PROVE  PresentationInd'
<1> USE DEF PresentationInd, OnePresents, LockIsHeld, AttemptsAreLeft, InFlight, PresentingPlaces
<1>1. MaxAttempts \in Nat /\ 1 < MaxAttempts /\ 0 \in 0..MaxAttempts /\ Main \in Everyone
  BY DEF Everyone
<1>2. lock' = lock /\ overtaken' = overtaken
  BY DEF MainPresents, Snapshot, PresentWindow, TakeSound, CheckCurrent, Settle, Finished, OnlyFlight
<1>3. CASE Snapshot
  <2>1. /\ at[Main] = "idle" /\ task /\ task' = FALSE
        /\ UNCHANGED <<attempts, backingOff, dirty, scheduled>> /\ succeeded' \in BOOLEAN
    BY <1>3 DEF Snapshot
  <2>2. PICK place \in {"finish", "present"} : GoTo(Main, place)
    BY <1>3 DEF Snapshot
  <2>3. \A u \in Everyone : at'[u] = IF u = Main THEN place ELSE at[u]
    BY <1>1, <2>2, OneGoes
  <2>4. OnePresents'
    BY <1>1, <2>1, <2>3
  <2>5. LockIsHeld'
    BY <1>2, <2>1, <2>3
  <2>6. AttemptsAreLeft'
    <3>1. InFlight
      BY <2>1
    <3> HIDE DEF InFlight
    <3> QED
      BY <1>2, <2>1, <3>1
  <2> QED
    BY <2>4, <2>5, <2>6
<1>4. CASE PresentWindow \/ TakeSound \/ CheckCurrent
  <2>1. /\ at[Main] \in {"present", "sound", "finish"} /\ UNCHANGED <<attempts, backingOff, dirty, scheduled, task>>
        /\ succeeded' \in BOOLEAN
    BY <1>4 DEF PresentWindow, TakeSound, CheckCurrent
  <2>2. PICK place \in {"finish", "sound", "finished", "settle"} : GoTo(Main, place)
    BY <1>4 DEF PresentWindow, TakeSound, CheckCurrent
  <2>3. \A u \in Everyone : at'[u] = IF u = Main THEN place ELSE at[u]
    BY <1>1, <2>2, OneGoes
  <2>4. OnePresents'
    BY <1>1, <2>1, <2>3
  <2>5. LockIsHeld'
    BY <1>2, <2>1, <2>3
  <2>6. AttemptsAreLeft'
    <3>1. InFlight
      BY <1>1, <2>1
    <3> HIDE DEF InFlight
    <3> QED
      BY <1>2, <2>1, <3>1
  <2> QED
    BY <2>4, <2>5, <2>6
<1>5. CASE Settle
  <2>1. /\ at[Main] = "settle" /\ Free /\ GoTo(Main, "finished")
        /\ UNCHANGED <<scheduled, task, succeeded>>
    BY <1>5 DEF Settle
  <2>2. \A u \in Everyone : at'[u] = IF u = Main THEN "finished" ELSE at[u]
    BY <1>1, <2>1, OneGoes
  <2>3. OnePresents'
    BY <1>1, <2>1, <2>2
  <2>4. \A u \in Everyone : at[u] # "dirty"
    BY <2>1 DEF Free, Everyone
  <2>5. LockIsHeld'
    BY <1>2, <2>2, <2>4
  <2>6. ~InFlight' /\ InFlight
    BY <1>1, <2>1, <2>2
  <2>7. /\ attempts \in 0..MaxAttempts /\ attempts < MaxAttempts /\ (dirty => attempts = 0)
        /\ dirty \in BOOLEAN
    <3> HIDE DEF InFlight
    <3> QED
      BY <2>6
  <2>8. \/ attempts' = 0 /\ backingOff' = FALSE /\ dirty' = dirty
        \/ attempts + 1 < MaxAttempts /\ attempts' = attempts + 1 /\ backingOff' = TRUE /\ dirty' = TRUE
        \/ /\ ~(attempts + 1 < MaxAttempts)
           /\ attempts' = attempts + 1 /\ backingOff' = FALSE /\ dirty' = dirty
    <3> DEFINE again == attempts + 1 < MaxAttempts
    <3>1. \/ attempts' = 0 /\ backingOff' = FALSE /\ dirty' = dirty
          \/ attempts' = attempts + 1 /\ backingOff' = again /\ dirty' = (dirty \/ again)
      BY <1>5 DEF Settle
    <3>2. dirty \in BOOLEAN /\ again \in BOOLEAN
      BY <2>7
    <3> HIDE DEF again
    <3>3. \/ attempts' = 0 /\ backingOff' = FALSE /\ dirty' = dirty
          \/ again /\ attempts' = attempts + 1 /\ backingOff' = TRUE /\ dirty' = TRUE
          \/ ~again /\ attempts' = attempts + 1 /\ backingOff' = FALSE /\ dirty' = dirty
      BY <3>1, <3>2
    <3> QED
      BY <3>3 DEF again
  <2>9. AttemptsAreLeft'
    <3> HIDE DEF InFlight
    <3>1. backingOff' \in BOOLEAN /\ dirty' \in BOOLEAN
      BY <2>7, <2>8
    <3>2. attempts' = 0 \/ attempts' = attempts + 1
      BY <2>8
    <3>3. attempts' \in 0..MaxAttempts
      <4>1. attempts \in 0..MaxAttempts /\ attempts < MaxAttempts
        BY <2>7
      <4> QED
        BY <1>1, <3>2, <4>1
    <3>4. 0 < MaxAttempts /\ 0 + 1 < MaxAttempts
      BY <1>1
    <3>5. dirty' => attempts' < MaxAttempts
      <4>1. CASE attempts' = 0
        BY <3>4, <4>1
      <4>2. CASE attempts + 1 < MaxAttempts /\ attempts' = attempts + 1
        BY <4>2
      <4>3. CASE ~(attempts + 1 < MaxAttempts) /\ dirty' = dirty
        BY <2>7, <3>4, <4>3
      <4> QED
        BY <2>8, <4>1, <4>2, <4>3
    <3> QED
      BY <1>2, <2>1, <2>6, <3>1, <3>3, <3>5
  <2> QED
    BY <2>3, <2>5, <2>9
<1>6. CASE Finished
  <2>1. /\ at[Main] = "finished" /\ scheduled' = FALSE /\ succeeded' = FALSE /\ GoTo(Main, "request")
        /\ UNCHANGED <<attempts, backingOff, dirty, task>>
    BY <1>6 DEF Finished
  <2>2. \A u \in Everyone : at'[u] = IF u = Main THEN "request" ELSE at[u]
    BY <1>1, <2>1, OneGoes
  <2>3. OnePresents'
    BY <1>1, <2>1, <2>2
  <2>4. LockIsHeld'
    BY <1>2, <2>1, <2>2
  <2>5. InFlight' => InFlight
    BY <2>1, <2>2
  <2>6. AttemptsAreLeft'
    <3> HIDE DEF InFlight
    <3> QED
      BY <1>2, <2>1, <2>5
  <2> QED
    BY <2>3, <2>4, <2>6
<1> QED
  BY <1>3, <1>4, <1>5, <1>6 DEF MainPresents

LEMMA PresentationIsInvariant == Spec => []PresentationInd
<1>1. Init => PresentationInd
  <2> SUFFICES ASSUME Init PROVE PresentationInd
    OBVIOUS
  <2>1. \A t \in Everyone : at[t] = "idle"
    BY DEF Init
  <2>2. /\ ThreadsAreSomewhere /\ lock = "none" /\ attempts = 0 /\ dirty = FALSE /\ scheduled = FALSE
        /\ backingOff = FALSE /\ overtaken = FALSE /\ task = FALSE /\ succeeded = FALSE
    BY DEF Init, ThreadsAreSomewhere, Places
  <2>3. OnePresents
    BY <2>1, <2>2 DEF OnePresents, PresentingPlaces
  <2>4. LockIsHeld
    BY <2>1, <2>2 DEF LockIsHeld
  <2>5. ~InFlight /\ ~dirty
    BY <2>1, <2>2 DEF InFlight
  <2>6. AttemptsAreLeft
    <3>1. 0 \in 0..MaxAttempts
      OBVIOUS
    <3> QED
      BY <2>2, <2>5, <3>1 DEF AttemptsAreLeft
  <2> QED
    BY <2>2, <2>3, <2>4, <2>6 DEF PresentationInd
<1>2. PresentationInd /\ ThreadsAreSomewhere' /\ [Next]_bannerVars => PresentationInd'
  <2> SUFFICES ASSUME PresentationInd, ThreadsAreSomewhere', [Next]_bannerVars PROVE PresentationInd'
    OBVIOUS
  <2>1. CASE backingOff' = FALSE
             /\ UNCHANGED <<lock, at, attempts, dirty, scheduled, overtaken, task, succeeded>>
    BY <2>1 DEF PresentationInd, OnePresents, LockIsHeld, AttemptsAreLeft, InFlight
  <2> QED
    BY <2>1, NextIsPresentationStep, ChangesKeepPresentations, ProceedKeepsPresentations,
       PresentingKeepsPresentations
<1>3. Spec => []ThreadsAreSomewhere
  BY ActivationIsInvariant, PTL DEF ActivationInd
<1> QED
  BY <1>1, <1>2, <1>3, PTL DEF Spec

-------------------------------------------------------------------------------
(* Sounds *)

\* What was heard or taken away was shown, and what is pending is neither.
SoundsAreShown ==
  /\ played \in [Versions -> Nat] /\ away \subseteq 1..shows /\ sound \in 0..shows
  /\ \A v \in Versions : played[v] <= 1 /\ (v > shows => played[v] = 0)
  /\ sound # NoVersion => sound \notin away /\ played[sound] = 0

SoundStep ==
  \/ UNCHANGED <<sound, played, away, shows>>
  \/ shows < MaxShows /\ shows' = shows + 1 /\ sound' = shows + 1 /\ UNCHANGED <<played, away>>
  \/ \E b \in ToSet(queue) : /\ sound' = SoundWithout(b.version) /\ away' = away \union {b.version}
                             /\ UNCHANGED <<played, shows>>
  \/ sound' = NoVersion /\ UNCHANGED <<played, away, shows>>
  \/ /\ sound # NoVersion /\ sound' = NoVersion /\ played' = [played EXCEPT ![sound] = @ + 1]
     /\ UNCHANGED <<away, shows>>

LEMMA NextIsSoundStep == [Next]_bannerVars => SoundStep
<1> SUFFICES ASSUME [Next]_bannerVars PROVE SoundStep
  OBVIOUS
<1>1. ASSUME NEW t \in Everyone, Push(t) PROVE SoundStep
  BY <1>1 DEF Push, ghostVars, SoundStep
<1>2. ASSUME NEW t \in Everyone, Proceed(t) PROVE SoundStep
  BY <1>2 DEF Proceed, MarkDirty, Schedule, CheckDirty, Release, Begin, OnlyRequest, boundVars,
              ghostVars, SoundStep
<1>3. ASSUME NEW t \in Everyone, NEW id \in Ids, DismissBanner(t, id) PROVE SoundStep
  BY <1>3, OnBoardIsQueued DEF DismissBanner, RemoveBanner, boundVars, SoundStep
<1>4. ASSUME NEW t \in Threads, CancelActivation(t) \/ CompleteActivation(t) PROVE SoundStep
  BY <1>4, OnBoardIsQueued DEF CancelActivation, CompleteActivation, RemoveBanner, boundVars,
                               ghostVars, SoundStep
<1>5. ASSUME NEW t \in Threads, NEW id \in Ids, ClaimActivation(t, id) PROVE SoundStep
  BY <1>5 DEF ClaimActivation, boundVars, ghostVars, SoundStep
<1>6. CASE Redraw \/ Tick \/ BackoffEnds
  BY <1>6 DEF Redraw, Tick, BackoffEnds, OnlyRequest, boundVars, ghostVars, SoundStep
<1>7. CASE MainPresents
  BY <1>7 DEF MainPresents, Snapshot, PresentWindow, TakeSound, CheckCurrent, Settle, Finished,
              OnlyFlight, SoundStep
<1>8. CASE UNCHANGED bannerVars
  BY <1>8 DEF bannerVars, stateVars, boundVars, ghostVars, SoundStep
<1> QED
  BY <1>1, <1>2, <1>3, <1>4, <1>5, <1>6, <1>7, <1>8 DEF Next

LEMMA SoundsStayShown ==
  ASSUME QueueIsOrderly, SoundsAreShown, SoundStep
  PROVE  SoundsAreShown'
<1> USE DEF SoundsAreShown, NoVersion
<1>1. shows \in 0..MaxShows /\ Versions = 1..MaxShows /\ MaxShows \in Nat
      /\ \A b \in ToSet(queue) : b.version \in 1..shows
  BY DEF QueueIsOrderly
<1>2. CASE UNCHANGED <<sound, played, away, shows>>
  BY <1>2
<1>3. CASE shows < MaxShows /\ shows' = shows + 1 /\ sound' = shows + 1 /\ UNCHANGED <<played, away>>
  <2>1. shows + 1 \in Versions /\ shows + 1 > shows /\ shows + 1 \notin 1..shows
    BY <1>1, <1>3
  <2>2. played[shows + 1] = 0 /\ shows + 1 \notin away
    BY <2>1
  <2>3. 1..shows \subseteq 1..(shows + 1) /\ shows + 1 \in 0..(shows + 1)
    BY <1>1
  <2>4. \A v \in Versions : v > shows + 1 => v > shows
    BY <1>1
  <2> QED
    BY <1>3, <2>2, <2>3, <2>4
<1>4. ASSUME NEW b \in ToSet(queue), sound' = SoundWithout(b.version),
             away' = away \union {b.version}, UNCHANGED <<played, shows>>
      PROVE  SoundsAreShown'
  <2>1. b.version \in 1..shows /\ b.version # 0
    BY <1>1
  <2>2. away' \subseteq 1..shows'
    BY <1>4, <2>1
  <2>3. \/ sound' = 0
        \/ sound' = sound /\ sound # b.version
    BY <1>4 DEF SoundWithout
  <2>4. sound' \in 0..shows'
    BY <1>1, <1>4, <2>3
  <2>5. sound' # 0 => sound' \notin away' /\ played'[sound'] = 0
    BY <1>4, <2>3
  <2> QED
    BY <1>4, <2>2, <2>4, <2>5
<1>5. CASE sound' = NoVersion /\ UNCHANGED <<played, away, shows>>
  BY <1>1, <1>5
<1>6. CASE /\ sound # NoVersion /\ sound' = NoVersion /\ played' = [played EXCEPT ![sound] = @ + 1]
           /\ UNCHANGED <<away, shows>>
  <2>1. sound \in Versions /\ ~(sound > shows) /\ played[sound] = 0
    BY <1>1, <1>6
  <2>2. \A v \in Versions : played'[v] = IF v = sound THEN 1 ELSE played[v]
    BY <1>6, <2>1
  <2>3. played' \in [Versions -> Nat]
    BY <1>6, <2>1
  <2> QED
    BY <1>1, <1>6, <2>1, <2>2, <2>3
<1> QED
  BY <1>2, <1>3, <1>4, <1>5, <1>6 DEF SoundStep

LEMMA SoundIsInvariant == Spec => []SoundsAreShown
<1>1. Init => SoundsAreShown
  BY DEF Init, SoundsAreShown, NoVersion
<1>2. QueueIsOrderly /\ SoundsAreShown /\ [Next]_bannerVars => SoundsAreShown'
  BY NextIsSoundStep, SoundsStayShown
<1> QED
  BY <1>1, <1>2, OrderIsInvariant, PTL DEF Spec

-------------------------------------------------------------------------------
(* What a banner owns *)

\* refusal is set to the truth of Refused, or reset, or left alone.
LEMMA RefusalIsFlag == Spec => [](refusal \in BOOLEAN)
<1>1. ASSUME Next, refusal \in BOOLEAN PROVE refusal' \in BOOLEAN
  <2>1. ASSUME NEW t \in Everyone, Push(t) PROVE refusal' \in BOOLEAN
    BY <2>1 DEF Push, Refused
  <2>2. ASSUME NEW t \in Everyone, Proceed(t) PROVE refusal' \in BOOLEAN
    BY <1>1, <2>2 DEF Proceed, MarkDirty, Schedule, CheckDirty, Release, Begin, OnlyRequest, ghostVars
  <2>3. ASSUME NEW t \in Everyone, NEW id \in Ids, RemoveBanner(t, id) PROVE refusal' \in BOOLEAN
    BY <1>1, <2>3 DEF RemoveBanner
  <2>4. ASSUME NEW t \in Everyone, NEW id \in Ids, DismissBanner(t, id) PROVE refusal' \in BOOLEAN
    BY <2>3, <2>4 DEF DismissBanner
  <2>5. ASSUME NEW t \in Threads, NEW id \in Ids, ClaimActivation(t, id) PROVE refusal' \in BOOLEAN
    BY <1>1, <2>5 DEF ClaimActivation, ghostVars
  <2>6. ASSUME NEW t \in Threads, CancelActivation(t) PROVE refusal' \in BOOLEAN
    BY <1>1, <2>6 DEF CancelActivation, ghostVars
  <2>7. ASSUME NEW t \in Threads, CompleteActivation(t) PROVE refusal' \in BOOLEAN
    BY <1>1, <2>7 DEF CompleteActivation, RemoveBanner
  <2>8. CASE Redraw \/ Tick \/ MainPresents \/ BackoffEnds
    BY <1>1, <2>8
    DEF Redraw, Tick, OnlyRequest, MainPresents, Snapshot, PresentWindow, TakeSound, CheckCurrent,
        Settle, Finished, OnlyFlight, BackoffEnds, ghostVars
  <2> QED
    BY <1>1, <2>1, <2>2, <2>4, <2>5, <2>6, <2>7, <2>8 DEF Next
<1>2. refusal \in BOOLEAN /\ [Next]_bannerVars => (refusal \in BOOLEAN)'
  BY <1>1 DEF bannerVars, ghostVars
<1>3. Init => refusal \in BOOLEAN
  BY DEF Init
<1> QED
  BY <1>2, <1>3, PTL DEF Spec

\* The sizes that BannerTypeOK speaks of follow from the order of the queue and of those who
\* present.
LEMMA TypeFollows ==
  ASSUME QueueIsOrderly, WindowIsOfBanners, ActivationInd, PresentationInd, SoundsAreShown,
         refusal \in BOOLEAN
  PROVE  BannerTypeOK
<1>1. /\ queue \in Seq(Banner) /\ Len(queue) \in Nat /\ DOMAIN queue = 1..Len(queue)
      /\ shows \in 0..MaxShows /\ MaxShows \in Nat
  BY LenProperties DEF QueueIsOrderly
<1>2. Cardinality(IdsOf(queue)) = Len(queue)
  <2> DEFINE f == [i \in 1..Len(queue) |-> queue[i].id]
  <2>1. f \in [1..Len(queue) -> IdsOf(queue)]
    BY <1>1 DEF IdsOf, ToSet
  <2>2. \A i, j \in 1..Len(queue) : f[i] = f[j] => i = j
    BY <1>1 DEF QueueIsOrderly, Orderly
  <2>3. \A id \in IdsOf(queue) : \E i \in 1..Len(queue) : f[i] = id
    BY <1>1 DEF IdsOf, ToSet
  <2> HIDE DEF f
  <2>4. f \in Bijection(1..Len(queue), IdsOf(queue))
    BY <2>1, <2>2, <2>3 DEF Bijection, Injection, IsInjective, Surjection
  <2> QED
    BY <1>1, <2>4, FS_CountingElements DEF ExistsBijection
<1>3. Cardinality({i \in DOMAIN queue : Passive(queue[i])}) <= MaxPassive
  BY DEF QueueIsOrderly, Orderly, PassivePlaces
<1>4. Cardinality({b \in ToSet(queue) : b.approval}) <= 1
  <2> DEFINE requests == {b \in ToSet(queue) : b.approval}
  <2>1. \A b, c \in requests : b = c
    BY DEF QueueIsOrderly, Orderly, ToSet
  <2> HIDE DEF requests
  <2>2. requests = {} \/ \E b : requests = {b}
    <3>1. CASE requests # {}
      <4>1. PICK b \in requests : TRUE
        BY <3>1
      <4>2. requests = {b}
        BY <2>1, <4>1
      <4> QED
        BY <4>2
    <3> QED
      BY <3>1
  <2>3. Cardinality(requests) = 0 \/ Cardinality(requests) = 1
    BY <2>2, FS_EmptySet, FS_Singleton
  <2> QED
    BY <2>3 DEF requests
<1>5. Cardinality(Presenting) + (IF task THEN 1 ELSE 0) = (IF scheduled THEN 1 ELSE 0)
  <2>1. Presenting = {t \in Everyone : at[t] \in PresentingPlaces}
    BY DEF Presenting, PresentingPlaces
  <2>2. CASE Presenting = {}
    <3>1. Cardinality(Presenting) = 0
      BY <2>2, FS_EmptySet
    <3>2. task = scheduled
      BY <2>1, <2>2 DEF PresentationInd, OnePresents
    <3> QED
      BY <3>1, <3>2 DEF PresentationInd, OnePresents
  <2>3. ASSUME NEW t \in Presenting PROVE Cardinality(Presenting) = 1 /\ scheduled /\ ~task
    <3>1. Presenting = {t} /\ scheduled /\ ~task
      BY <2>1, <2>3 DEF PresentationInd, OnePresents
    <3> QED
      BY <3>1, FS_Singleton
  <2> QED
    BY <2>2, <2>3
<1>6. sound \in Versions \union {NoVersion} /\ away \subseteq Versions
  BY <1>1 DEF SoundsAreShown, NoVersion
<1> QED
  BY <1>1, <1>2, <1>3, <1>4, <1>5, <1>6
  DEF BannerTypeOK, WindowIsOfBanners, ActivationInd, ThreadsAreSomewhere, ClaimsAreQueued,
      PresentationInd, OnePresents, LockIsHeld, AttemptsAreLeft, SoundsAreShown

\* However the threads, the worker and the main thread interleave: the queue holds an id once and
\* no more than it may, one presentation at most is under way, a sound is heard once at most and
\* not once its banner is gone, and a late activation takes its own banner away or none.
THEOREM BannersAreOwn == Spec => BannerIsOwn
<1>1. SoundsAreShown => SoundIsOwn
  BY DEF SoundsAreShown, SoundIsOwn
<1> QED
  BY <1>1, TypeFollows, OrderIsInvariant, ActivationIsInvariant, PresentationIsInvariant,
     SoundIsInvariant, RefusalIsFlag, ActivationsAreCurrent, PTL DEF BannerIsOwn

===============================================================================
