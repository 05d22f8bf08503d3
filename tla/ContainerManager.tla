-------------------------- MODULE ContainerManager --------------------------
(***************************************************************************)
(* The agent's container manager (agent/src/compose/container-manager.ts)  *)
(* for the services of one app.  Three activities share currentState and   *)
(* the engine and interleave at every await: the reconciliation started by *)
(* a new target or by the 30 s timer, the rebuild of currentState from     *)
(* Docker started by each state report, and the restart of a container     *)
(* whose liveness probe failed, which no flag keeps apart from the first   *)
(* two.                                                                    *)
(***************************************************************************)
EXTENDS DockerEngine, Sequences, FiniteSets, SequencesExt

CONSTANTS MaxRetries,   \* RetryManager.MAX_RETRIES
          MaxIds,       \* bound: container ids; a container is created while one is free
          Wanted,       \* service -> the targets it may be given
          Deployed,     \* service -> its target when the behaviour begins
          MaxEvents     \* bound on targets received, engine faults, deaths, failed
                        \* probes and restarts, taken together

States == {"running", "stopped", "paused"}
Absent == [image |-> "none", state |-> "absent"]
Target == [image: Images, state: States] \cup {Absent}

ASSUME WantedAssumption == Wanted \in [Services -> SUBSET Target]
ASSUME DeployedAssumption ==
  Deployed \in [Services -> [image: Images, state: {"running"}] \cup {Absent}]
ASSUME ServicesAssumption == IsFiniteSet(Services)
ASSUME BoundsAssumption == /\ MaxRetries \in Nat \ {0}
                           /\ MaxIds \in Nat \ {0}
                           /\ MaxEvents \in Nat

VARIABLES target,    \* service -> [image, state], state "absent" when not in it
          current,   \* currentState.apps[app].services, in order
          known,     \* currentState.apps[app] is there
          plan,      \* steps of the reconciliation in progress; <<>>: none is
          reply,     \* the engine's answer to the first step, once it came
          sync,      \* syncCurrentStateFromDocker: its pc, containers not pushed
          retry,     \* RetryManager: image -> [count, due]
          health,    \* restartUnhealthyContainer: its pc, service, new container
          events     \* targets and faults so far, a bound

manager == <<target, current, known, plan, reply, sync, retry, health>>
vars == <<engine, manager, events>>

Ids == 1..MaxIds

\* A service of currentState; down is status "exited".
Entry == [svc: Services, id: Ids, image: Images, state: States, down: BOOLEAN]
NoEntry == [svc |-> "none", id |-> 0, image |-> "none", state |-> "running",
            down |-> FALSE]

Step(op, s, id, t) == [op |-> op, svc |-> s, id |-> id, image |-> t.image,
                       state |-> t.state]
NoReply == [r |-> "none", id |-> 0]
NoSync == [pc |-> "idle", rest |-> {}]
NoHealth == [pc |-> "idle", entry |-> NoEntry, shared |-> FALSE, id |-> 0]

UsedIds(s) ==
  {docker[s].id} \cup {e.id : e \in {x \in ToSet(current) \cup sync.rest : x.svc = s}}
  \cup {st.id : st \in {x \in ToSet(plan) : x.svc = s}}
  \cup (IF plan # <<>> /\ Head(plan).svc = s THEN {reply.id} ELSE {})
  \cup (IF health.entry.svc = s THEN {health.entry.id, health.id} ELSE {})
FreeIds(s) == Ids \ UsedIds(s)
NewId(s) == CHOOSE n \in FreeIds(s) : \A m \in FreeIds(s) : n <= m

(***************************************************************************)
(* Helpers over currentState                                               *)
(***************************************************************************)
Without(s) ==
  FlattenSeq([i \in DOMAIN current |-> IF current[i].svc = s THEN <<>> ELSE <<current[i]>>])

\* find: the first entry of a service, when there are several
First(s) == CHOOSE i \in DOMAIN current :
              current[i].svc = s /\ \A j \in 1..(i - 1) : current[j].svc # s
Has(s) == \E i \in DOMAIN current : current[i].svc = s

\* new Map(services.map(...)): the last entry wins
Latest(s) == IF Has(s) THEN current[CHOOSE i \in DOMAIN current :
                              /\ current[i].svc = s
                              /\ \A j \in DOMAIN current :
                                   current[j].svc = s => j <= i]
             ELSE NoEntry

\* service.state = state: the service a health restart holds on to is the same
\* object, until a rebuild makes new ones.
UpdateServiceState(s, state) ==
  /\ current' = IF Has(s) THEN [current EXCEPT ![First(s)].state = state] ELSE current
  /\ health' = IF Has(s) /\ health.shared /\ health.entry.svc = s
                    /\ health.entry.id = current[First(s)].id
                 THEN [health EXCEPT !.entry.state = state] ELSE health

RemoveService(s) == /\ current' = Without(s)
                    /\ known' = (known /\ Without(s) # <<>>)

\* { ...service, containerId, status: 'running' }: state is the service's own
AddService(base, st, id) ==
  /\ current' = Append(base, [svc |-> st.svc, id |-> id, image |-> st.image,
                              state |-> st.state, down |-> FALSE])
  /\ known' = TRUE

ShouldRetry(image) == retry[image].count = 0
                      \/ (retry[image].count < MaxRetries /\ retry[image].due)

\* What a rebuild reads of a service's container.
Seen(s) == LET c == docker[s] IN
  [svc |-> s, id |-> c.id, image |-> c.image,
   state |-> CASE c.status = "paused" -> "paused"
               [] c.status \in {"exited", "crashed"} -> "stopped"
               [] OTHER -> "running",
   down |-> c.status \in {"exited", "crashed"}]
Listing == {Seen(s) : s \in {x \in Services : docker[x].status # "none"}}

(***************************************************************************)
(* calculateSteps                                                          *)
(***************************************************************************)
StopRemove(s, id) == <<Step("stop", s, id, Absent), Step("remove", s, id, Absent)>>
Fetch(s, t) == <<Step("download", s, 0, t)>>
Launch(s, t) == <<Step("start", s, 0, t)>>

StepsToAdd(s, t) ==
  IF t.state # "running" \/ (known /\ ~ShouldRetry(t.image)) THEN <<>>
  ELSE Fetch(s, t) \o Launch(s, t)

\* Mutant: a paused service is resumed the way a stopped one is.
TransitionNoUnpause(e, state) ==
  LET on(op) == <<Step(op, e.svc, e.id, Absent)>> IN
  CASE e.state = "running" /\ state = "stopped" -> on("stop")
    [] e.state = "running" /\ state = "paused"  -> on("pause")
    [] state = "running" -> on("recreate")
    [] e.state = "paused"  /\ state = "stopped" -> on("unpause") \o on("stop")
    [] e.state = "stopped" /\ state = "paused"  -> on("recreate") \o on("pause")

Transition(e, state) ==
  LET on(op) == <<Step(op, e.svc, e.id, Absent)>> IN
  CASE e.state = "running" /\ state = "stopped" -> on("stop")
    [] e.state = "running" /\ state = "paused"  -> on("pause")
    [] e.state = "stopped" /\ state = "running" -> on("recreate")
    [] e.state = "paused"  /\ state = "running" -> on("unpause")
    [] e.state = "paused"  /\ state = "stopped" -> on("unpause") \o on("stop")
    [] e.state = "stopped" /\ state = "paused"  -> on("recreate") \o on("pause")

\* Mutants: the exited check inverted; the image comparison forgotten.
NeedsUpdateInverted(e, t) == e.image # t.image \/ ~e.down
NeedsUpdateNoImage(e, t) == e.down

NeedsUpdate(e, t) == e.image # t.image \/ e.down

StepsToUpdate(e, t) ==
  IF e.state # t.state THEN Transition(e, t.state)
  ELSE IF ~NeedsUpdate(e, t) THEN <<>>
  ELSE (IF e.image # t.image THEN Fetch(e.svc, t) ELSE <<>>)
       \o StopRemove(e.svc, e.id) \o Launch(e.svc, t)

StepsFor(s) ==
  IF target[s] = Absent
    THEN IF Has(s) THEN StopRemove(s, Latest(s).id) ELSE <<>>
    ELSE IF Has(s) THEN StepsToUpdate(Latest(s), target[s])
                   ELSE StepsToAdd(s, target[s])

\* stepsToRemoveApp walks every entry, twins included
RemoveApp == FlattenSeq([i \in DOMAIN current |->
                           StopRemove(current[i].svc, current[i].id)])

CalculateSteps ==
  IF \A s \in Services : target[s] = Absent THEN RemoveApp
  ELSE FlattenSeq([i \in 1..Cardinality(Services) |->
                     StepsFor(SetToSeq(Services)[i])])

(***************************************************************************)
(* applyTargetState: the steps are computed once, from whatever            *)
(* currentState holds, and carried out in order; a failed step is noted    *)
(* and the next one follows.                                               *)
(***************************************************************************)
ManagerInit ==
  /\ EngineInit([s \in Services |-> Deployed[s].image])
  /\ target = Deployed
  /\ current = SetToSeq(Listing) /\ known = (Listing # {})
  /\ plan = <<>> /\ reply = NoReply
  /\ sync = NoSync /\ health = NoHealth
  /\ retry = [i \in Images |-> [count |-> 0, due |-> TRUE]]
  /\ events = 0

Budget == events < MaxEvents /\ events' = events + 1

SetTarget(s, t) ==
  /\ Budget
  /\ t \in Wanted[s] \ {target[s]}
  /\ target' = [target EXCEPT ![s] = t]
  /\ UNCHANGED <<engine, current, known, plan, reply, sync, retry, health>>

ApplyTargetState ==
  /\ plan = <<>>
  /\ CalculateSteps # <<>>
  /\ plan' = CalculateSteps
  /\ UNCHANGED <<engine, target, current, known, reply, sync, retry, health, events>>

Due(op) == plan # <<>> /\ Head(plan).op = op /\ reply = NoReply

(* downloadImage: not even asked for while the image backs off.            *)
SkipDownload ==
  /\ Due("download") /\ ~ShouldRetry(Head(plan).image)
  /\ plan' = Tail(plan)
  /\ UNCHANGED <<engine, target, current, known, reply, sync, retry, health, events>>

\* Mutant: the download is asked for while the image backs off.
DownloadAlways(r) ==
  /\ Due("download")
  /\ PullImage(Head(plan).image, r)
  /\ retry' = [retry EXCEPT ![Head(plan).image] =
                 IF r = "ok" THEN [count |-> 0, due |-> TRUE]
                 ELSE [count |-> @.count + 1, due |-> FALSE]]
  /\ plan' = Tail(plan)
  /\ UNCHANGED <<target, current, known, reply, sync, health, events>>

Download(r) ==
  /\ Due("download") /\ ShouldRetry(Head(plan).image)
  /\ PullImage(Head(plan).image, r)
  /\ retry' = [retry EXCEPT ![Head(plan).image] =
                 IF r = "ok" THEN [count |-> 0, due |-> TRUE]
                 ELSE [count |-> @.count + 1, due |-> FALSE]]
  /\ plan' = Tail(plan)
  /\ UNCHANGED <<target, current, known, reply, sync, health, events>>

(* The engine carries out the first step of the plan.                      *)
EngineStep(st, r) ==
  \/ st.op = "stop" /\ StopContainer(st.svc, st.id, r)
  \/ st.op = "pause" /\ PauseContainer(st.svc, st.id, r)
  \/ st.op = "unpause" /\ UnpauseContainer(st.svc, st.id, r)
  \/ st.op = "remove" /\ RemoveContainer(st.svc, st.id, r)
  \/ /\ st.op = "start" /\ FreeIds(st.svc) # {}
     /\ StartContainer(st.svc, NewId(st.svc), st.image, r)

Answered(st, r) ==
  reply' = [r |-> r, id |-> IF st.op = "start" /\ r = "ok" THEN NewId(st.svc) ELSE 0]

Perform(r) ==
  /\ plan # <<>> /\ reply = NoReply
  /\ EngineStep(Head(plan), r)
  /\ Answered(Head(plan), r)
  /\ UNCHANGED <<target, current, known, plan, sync, retry, health,
                 events>>

(* startStoppedContainer looks the service up in currentState, keeps it,   *)
(* and removes the container; the rest follows in Resume.                  *)
RecreateLost ==
  /\ Due("recreate") /\ ~Has(Head(plan).svc)
  /\ plan' = Tail(plan)
  /\ UNCHANGED <<engine, target, current, known, reply, sync, retry, health, events>>

Recreate(r) ==
  /\ Due("recreate") /\ Has(Head(plan).svc)
  /\ LET st == Head(plan)
         e == current[First(st.svc)]
     IN /\ RemoveContainer(st.svc, st.id, r)
        /\ plan' = <<[st EXCEPT !.image = e.image, !.state = e.state]>> \o Tail(plan)
  /\ reply' = [r |-> r, id |-> 0]
  /\ UNCHANGED <<target, current, known, sync, retry, health, events>>

(* The engine refuses a step it could carry out, or fails the start of the *)
(* container it has just created (a port in use).                          *)
Refuse ==
  /\ plan # <<>> /\ reply = NoReply /\ Budget
  /\ Head(plan).op \in {"stop", "pause", "unpause", "remove"}
  /\ reply' = [r |-> "error", id |-> 0]
  /\ UNCHANGED <<engine, target, current, known, plan, sync, retry, health>>

FailToStart ==
  /\ Due("start") /\ Budget /\ FreeIds(Head(plan).svc) # {}
  /\ StartFails(Head(plan).svc, NewId(Head(plan).svc), Head(plan).image, "error")
  /\ reply' = [r |-> "error", id |-> 0]
  /\ UNCHANGED <<target, current, known, plan, sync, retry, health>>

(* The rest of executeStep, when the answer arrives.                       *)
Succeeded(op) == plan # <<>> /\ Head(plan).op = op /\ reply.r = "ok"

Finish == /\ plan' = Tail(plan) /\ reply' = NoReply
          /\ UNCHANGED <<engine, target, sync, retry, events>>

StepFailed == /\ reply.r = "error"
              /\ Finish
              /\ UNCHANGED <<current, known, health>>

Stopped == /\ Succeeded("stop")
           /\ UpdateServiceState(Head(plan).svc, "stopped")
           /\ Finish /\ UNCHANGED known

Paused == /\ Succeeded("pause")
          /\ UpdateServiceState(Head(plan).svc, "paused")
          /\ Finish /\ UNCHANGED known

Unpaused == /\ Succeeded("unpause")
            /\ UpdateServiceState(Head(plan).svc, "running")
            /\ Finish /\ UNCHANGED known

Removed == /\ Succeeded("remove")
           /\ RemoveService(Head(plan).svc)
           /\ Finish /\ UNCHANGED health

Started == /\ Succeeded("start")
           /\ AddService(current, Head(plan), reply.id)
           /\ Finish /\ UNCHANGED health

(* The stopped container is gone: start one with the service kept.         *)
Recreated == /\ Succeeded("recreate")
             /\ RemoveService(Head(plan).svc)
             /\ plan' = <<[Head(plan) EXCEPT !.op = "start", !.id = 0]>> \o Tail(plan)
             /\ reply' = NoReply
             /\ UNCHANGED <<engine, target, sync, retry, health, events>>

(***************************************************************************)
(* syncCurrentStateFromDocker: list, reset, and one awaited inspection per *)
(* container.  When a removal empties the app meanwhile, the next push     *)
(* throws and the rest of the list is dropped.                             *)
(***************************************************************************)
SyncList ==
  /\ sync.pc = "idle"
  /\ sync' = [pc |-> "listed", rest |-> Listing]
  /\ UNCHANGED <<engine, target, current, known, plan, reply, retry, health, events>>

SyncReset ==
  /\ sync.pc = "listed"
  /\ current' = <<>> /\ known' = (sync.rest # {})
  /\ sync' = IF sync.rest = {} THEN NoSync ELSE [sync EXCEPT !.pc = "building"]
  /\ health' = [health EXCEPT !.shared = FALSE]
  /\ UNCHANGED <<engine, target, plan, reply, retry, events>>

SyncPush(e) ==
  /\ sync.pc = "building" /\ e \in sync.rest /\ known
  /\ current' = Append(current, e)
  /\ sync' = IF sync.rest = {e} THEN NoSync ELSE [sync EXCEPT !.rest = @ \ {e}]
  /\ UNCHANGED <<engine, target, known, plan, reply, retry, health,
                 events>>

SyncAborts ==
  /\ sync.pc = "building" /\ ~known
  /\ sync' = NoSync
  /\ UNCHANGED <<engine, target, current, known, plan, reply, retry, health, events>>

(***************************************************************************)
(* restartUnhealthyContainer (one at a time): stop, remove and start again *)
(* from the entry found when the probe failed; a failure ends it.          *)
(***************************************************************************)
LivenessFailed(e) ==
  /\ health.pc = "idle" /\ e.state # "stopped" /\ Budget
  /\ health' = [pc |-> "stop", entry |-> e, shared |-> TRUE, id |-> 0]
  /\ UNCHANGED <<engine, target, current, known, plan, reply, sync, retry>>

HealthCall(pc, next, r) ==
  /\ health.pc = pc
  /\ health' = IF r = "ok" THEN [health EXCEPT !.pc = next] ELSE NoHealth
  /\ UNCHANGED <<target, current, known, plan, reply, sync, retry,
                 events>>

HealthStop(r) == /\ HealthCall("stop", "remove", r)
                 /\ StopContainer(health.entry.svc, health.entry.id, r)
HealthRemove(r) == /\ HealthCall("remove", "start", r)
                   /\ RemoveContainer(health.entry.svc, health.entry.id, r)

HealthStart(r) ==
  /\ health.pc = "start" /\ FreeIds(health.entry.svc) # {}
  /\ StartContainer(health.entry.svc, NewId(health.entry.svc), health.entry.image, r)
  /\ health' = IF r = "ok" THEN [health EXCEPT !.pc = "started", !.id = NewId(health.entry.svc)]
               ELSE NoHealth
  /\ UNCHANGED <<target, current, known, plan, reply, sync, retry,
                 events>>

\* Mutant: the service re-added is the target's, not the one started.
HealthStartedFromTarget ==
  /\ health.pc = "started"
  /\ AddService(Without(health.entry.svc),
                [health.entry EXCEPT !.image = target[health.entry.svc].image],
                health.id)
  /\ health' = NoHealth
  /\ UNCHANGED <<engine, target, plan, reply, sync, retry, events>>

HealthStarted ==
  /\ health.pc = "started"
  /\ AddService(Without(health.entry.svc), health.entry, health.id)
  /\ health' = NoHealth
  /\ UNCHANGED <<engine, target, plan, reply, sync, retry, events>>

(***************************************************************************)
(* The surroundings: time, containers that die, the agent that restarts    *)
(* (init rebuilds currentState before anything else runs; the target comes *)
(* back from the database).                                                *)
(***************************************************************************)
BackoffElapses(i) ==
  /\ ~retry[i].due /\ retry[i].count < MaxRetries
  /\ retry' = [retry EXCEPT ![i].due = TRUE]
  /\ UNCHANGED <<engine, target, current, known, plan, reply, sync,
                 health, events>>

Die(s) == Dies(s) /\ Budget /\ UNCHANGED manager
Revive(s) == Revives(s) /\ UNCHANGED <<manager, events>>

Restart ==
  /\ Budget
  /\ current' = SetToSeq(Listing) /\ known' = (Listing # {})
  /\ plan' = <<>> /\ reply' = NoReply
  /\ sync' = NoSync /\ health' = NoHealth
  /\ retry' = [i \in Images |-> [count |-> 0, due |-> TRUE]]
  /\ UNCHANGED <<engine, target>>

Answers == {"ok", "error"}

CarryOut == \/ SkipDownload \/ RecreateLost
            \/ \E r \in Answers : Download(r) \/ Perform(r) \/ Recreate(r)
            \/ StepFailed \/ Stopped \/ Paused \/ Unpaused \/ Removed
            \/ Started \/ Recreated
Sync == SyncList \/ SyncReset \/ (\E e \in sync.rest : SyncPush(e)) \/ SyncAborts
HealthRestart == \/ \E r \in Answers : HealthStop(r) \/ HealthRemove(r) \/ HealthStart(r)
                 \/ HealthStarted

Environment == \/ \E s \in Services, t \in Target : SetTarget(s, t)
               \/ Refuse \/ FailToStart \/ Restart
               \/ \E e \in ToSet(current) : LivenessFailed(e)
               \/ \E s \in Services : Die(s) \/ Revive(s)

Next == \/ ApplyTargetState \/ CarryOut \/ Sync \/ HealthRestart \/ Environment
        \/ \E i \in Images : BackoffElapses(i)

Spec == ManagerInit /\ [][Next]_vars

(* Timers re-arm and every call to the engine returns.  Reports come every *)
(* 10 s, the timer fires every 30 s and both do a finite amount of work,   *)
(* so there is always again a moment when neither is busy, the timer does  *)
(* not for ever miss it, and a rebuild, which lasts milliseconds, does not *)
(* for ever hide the service a step looks up.                              *)
Calm == plan = <<>> /\ sync.pc = "idle" /\ health.pc = "idle"
FairSpec == /\ Spec
            /\ []<>Calm
            /\ SF_vars(Calm /\ ApplyTargetState)
            /\ SF_vars(\E r \in Answers : Recreate(r))
            /\ WF_vars(CarryOut) /\ WF_vars(Sync) /\ WF_vars(HealthRestart)
            /\ \A i \in FlakyImages : WF_vars(BackoffElapses(i))

(***************************************************************************)
(* Properties                                                              *)
(***************************************************************************)
(* Every variable keeps its shape; in particular an app that currentState  *)
(* has dropped has no services left (removeServiceFromCurrentState).       *)
TypeOK ==
  /\ docker \in [Services -> [id: Ids \cup {0}, image: Images \cup {"none"},
                              status: Statuses]]
  /\ images \subseteq Images
  /\ target \in [Services -> Target]
  /\ ToSet(current) \subseteq Entry
  /\ known \in BOOLEAN /\ (current # <<>> => known)
  /\ reply.r \in Answers \cup {"none"} /\ (plan = <<>> => reply = NoReply)
  /\ sync.pc \in {"idle", "listed", "building"} /\ sync.rest \subseteq Entry
  /\ retry \in [Images -> [count: 0..MaxRetries, due: BOOLEAN]]
  /\ health.pc \in {"idle", "stop", "remove", "start", "started"}

(* What currentState says of a container that exists is true of it,        *)
(* however rebuilds, steps and health restarts interleaved: its service    *)
(* and its image.  Steps address containers by the ids found there.        *)
EntriesTruthful ==
  \A e \in ToSet(current), s \in Services :
    docker[s].status # "none" /\ s = e.svc /\ docker[s].id = e.id =>
      docker[s].image = e.image

(* A reconciliation never sets out to stop or freeze a container that runs *)
(* the image its target asks for, unless a rebuild saw it dead since       *)
(* (docs/docker/CONTAINER-RECREATION-FIX.md is about the loop that did).   *)
AsTargeted(s) == /\ docker[s].status = "running" /\ target[s].state = "running"
                 /\ docker[s].image = target[s].image
SparesHealthy ==
  plan = <<>> => \A s \in Services, i \in DOMAIN CalculateSteps :
    LET st == CalculateSteps[i] IN
    AsTargeted(s) /\ ~Latest(s).down /\ st.svc = s /\ st.id = docker[s].id
      => st.op \notin {"stop", "pause"}

(* "No changes needed - system is in desired state": when currentState     *)
(* mirrors the engine and no step is left to do, every service is as its   *)
(* target says, but for a container that never started and an image given  *)
(* up or backing off.                                                      *)
Mirrors == /\ ToSet(current) = Listing
           /\ Len(current) = Cardinality(Listing)
NeverStarted(s) == docker[s].status = "created"
GivenUp(s) == target[s] # Absent /\ ~ShouldRetry(target[s].image)
Obeyed(s) ==
  CASE target[s].state = "absent" -> docker[s].status = "none"
    [] target[s].state = "running" -> AsTargeted(s)
    [] target[s].state = "paused" -> docker[s].status \in {"paused", "none"}
    [] OTHER -> docker[s].status # "running"
NothingToDoIsDone ==
  Mirrors /\ CalculateSteps = <<>> =>
    \A s \in Services : Obeyed(s) \/ NeverStarted(s) \/ GivenUp(s)

(* Self-healing: once targets and faults cease, every service not meant to *)
(* be stopped ends as its target says and stays so, but for a container    *)
(* that never started and an image that was given up.                      *)
Exhausted(s) == target[s] # Absent /\ retry[target[s].image].count = MaxRetries
Converges ==
  \A s \in Services :
    <>[](target[s].state # "stopped" =>
           Obeyed(s) \/ NeverStarted(s) \/ Exhausted(s))

(* "stopped = container exists but stopped": no reconciliation starts a    *)
(* service whose target state is stopped.                                  *)
StoppedNotStarted ==
  plan = <<>> => \A i \in DOMAIN CalculateSteps :
    CalculateSteps[i].op = "start" =>
      target[CalculateSteps[i].svc].state # "stopped"
=============================================================================
