------------------------------- MODULE MCHost -------------------------------
(* What runs on the host beside the payments, each in small stories of its   *)
(* own: a story says which component moves, and its bound.                   *)
EXTENDS Collection, LeafletRead, JobQueue, Launch, LifecycleProbe

VARIABLE story

Full   == <<"created", "initial", "renewal", "cancelled", "resumed", "failed", "recovered",
            "refunded", "cancelled", "expired">>
Dunned == <<"created", "initial", "renewal", "failed", "recovered", "cancelled", "resumed",
            "refunded", "expired">>
Short  == <<"created", "initial", "renewal", "cancelled", "expired">>
Lives  == {Full, Dunned, Short}

Leaflets == {"leaflets", "beside"}
Stories  == Leaflets \cup {"pages", "queue", "engine", "launch", "probe"}

HostInit ==
  /\ story \in Stories
  /\ IF story = "queue" THEN job \in [Jobs -> Left]
     ELSE job = [j \in Jobs |-> CHOOSE old \in Job : old.state = "failed"]
  /\ IF story \in Leaflets THEN story = "beside" => former = [s \in Shops |-> 0]
     ELSE former = [s \in Shops |-> 0]
  /\ history = Full \/ (story = "probe" /\ history \in {Dunned, Short})
  /\ working = {} /\ CollectionInit /\ LeafletInit /\ LaunchInit /\ ProbeInit

InStory ==
  /\ story = "leaflets" => runs = 0 /\ \A s \in Free : source[s] + former[s] <= 2
  /\ story = "beside"   => \A s \in Shops : tries[s][2] = 0 /\ source[s] <= IF s \in Free THEN 1 ELSE 2
  /\ story = "engine"   => week + release <= 3 /\ warmed + slips <= 1
  /\ story = "launch"   => /\ made <= 1 /\ week = 1 /\ warmed = 0 /\ slips = 0 /\ library = release
                           /\ Cardinality(proven) <= 1 /\ release + config <= 3
  /\ story = "probe"    => twice + stops <= 1

HostNext ==
  /\ UNCHANGED story
  /\ \/ /\ story \in Leaflets /\ CollectionNext
        /\ UNCHANGED <<leafletVars, queueVars, engineVars, launchVars, probeVars>>
     \/ /\ story = "pages" /\ LeafletNext
        /\ UNCHANGED <<collectionVars, queueVars, engineVars, launchVars, probeVars>>
     \/ /\ story = "queue" /\ QueueNext
        /\ UNCHANGED <<collectionVars, leafletVars, engineVars, launchVars, probeVars>>
     \/ /\ story = "engine" /\ EngineNext
        /\ UNCHANGED <<collectionVars, leafletVars, queueVars, launchVars, probeVars>>
     \/ /\ story = "launch" /\ LaunchNext
        /\ UNCHANGED <<collectionVars, leafletVars, queueVars, probeVars>>
     \/ /\ story = "probe" /\ ProbeNext
        /\ UNCHANGED <<collectionVars, leafletVars, queueVars, engineVars, launchVars>>
  /\ InStory'

Rolling == story \in {"engine", "launch"}

HostSpec ==
  /\ HostInit
  /\ [][HostNext]_<<story, collectionVars, leafletVars, queueVars, engineVars, launchVars, probeVars>>
  /\ WF_proc(story \in Leaflets /\ (Works(Watchdog) \/ Watches))
  /\ WF_proc(story \in Leaflets /\ Wakes)
  /\ WF_<<days, keyed, stopped>>(story \in Leaflets /\ NewDay)
  /\ WF_queueVars(story = "queue" /\ ClaimNext) /\ WF_queueVars(story = "queue" /\ TurnDown)
  /\ \A j \in Jobs : WF_queueVars(story = "queue" /\ JobLeaseEnds(j))
  /\ WF_<<rollout, mode, flag>>(Rolling /\ Rollout) /\ WF_<<rollout, smoke>>(Rolling /\ Watch)
  /\ WF_<<store, command, seen>>(story = "probe" /\ Commands)
  /\ WF_<<happened, sent, queue>>(story = "probe" /\ Provides)

(* Each component's variables keep their types, and their counters the       *)
(* limits of the code.                                                       *)
HostTypeOK ==
  /\ CollectionTypeOK /\ LeafletTypeOK /\ QueueTypeOK
  /\ EngineTypeOK /\ LaunchTypeOK /\ ProbeTypeOK
=============================================================================
