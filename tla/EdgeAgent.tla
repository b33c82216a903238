---- MODULE EdgeAgent ----
(***************************************************************************)
(* The Edge Agent: the loop that reads the deployment and the containers,  *)
(* plans the commands that lead from one to the other, and runs them       *)
(* through the security daemon, while modules end by themselves, calls     *)
(* fail, and the agent itself is stopped and started again.                *)
(*                                                                         *)
(* A module's settings are its image, its options (create options and      *)
(* environment), its desired status, its restart policy and its startup    *)
(* order.  A deployment is a function from names to settings; deployment 0 *)
(* is the empty one.  The agent sees the image of a container, but takes   *)
(* every other setting from the deployment that it believes to be current. *)
(***************************************************************************)
EXTENDS Integers, Sequences, FiniteSets, SequencesExt

CONSTANTS
  Modules,          \* the names of modules
  Deployments,      \* the deployments, in the order in which they are given
  MaxRestartCount,  \* restarts of a module, and runs of a failing command
  MaxExits,         \* bound: modules that end, or are restarted on request
  MaxFaults,        \* bound: calls that fail
  MaxStarts         \* bound: starts of the agent after the first

VARIABLES
  version,    \* the deployment that the config source gives
  config,     \* currentConfig, by which the environment knows the modules
  disk,       \* the deployment in the config store
  container,  \* the containers, by the name of their module
  restarts,   \* the restart counts in the module state store
  runs,       \* commandRunStatus: the failures of the commands that failed
  last,       \* lastDeploymentId
  plan,       \* the commands of the plan that remain; a command is a sequence
  command,    \* the command that is being run
  next,       \* its next operation
  doing,      \* what the agent does
  due,        \* the modules whose cool-off or intensive care time is over
  failed,     \* whether a command of the plan failed
  skipped,    \* whether one was skipped
  target,     \* the deployment that the plan is for
  status,     \* the status of the deployment
  reported,   \* the version and the status last reported
  closing,    \* whether the process is asked to stop
  disturbed,  \* history: a call failed, or the agent ended amid a plan
  exits, faults, starts

plans == <<plan, command, next, doing, due, failed, skipped, target>>
vars == <<version, config, disk, container, restarts, runs, last, plans, status, reported,
          closing, disturbed, exits, faults, starts>>

----------------------------------------------------------------------------
(* What the agent sees                                                      *)

Nothing == [m \in {} |-> 0]

Deployment(v) == IF v = 0 THEN Nothing ELSE Deployments[v]

Without(f, m) == [n \in DOMAIN f \ {m} |-> f[n]]
With(f, m, value) == [n \in DOMAIN f \cup {m} |-> IF n = m THEN value ELSE f[n]]

(* A container whose module the current deployment does not know *)
Unknown == [options |-> "unknown", status |-> "unknown", policy |-> "unknown", order |-> 0]

Configured(m) == IF m \in DOMAIN Deployment(config) THEN Deployment(config)[m] ELSE Unknown

RestartCount(m) == IF m \in DOMAIN restarts THEN restarts[m] ELSE 0

ContainerStatus(m) == IF container[m].state = "created" THEN "stopped" ELSE container[m].state

ComputeModuleStatusFromRestartPolicy(state, policy, count) ==
  IF state # "running" /\ policy # "never" /\ (policy = "always" \/ state = "failed")
  THEN IF count >= MaxRestartCount THEN "failed" ELSE "backoff"
  ELSE state

RuntimeStatus(m) ==
  IF Configured(m).status = "running"
  THEN ComputeModuleStatusFromRestartPolicy(ContainerStatus(m), Configured(m).policy, RestartCount(m))
  ELSE ContainerStatus(m)

(* The module as GetModulesAsync describes it *)
Found(m) ==
  [image |-> container[m].image, options |-> Configured(m).options, status |-> Configured(m).status,
   policy |-> Configured(m).policy, order |-> Configured(m).order]

----------------------------------------------------------------------------
(* The planner                                                              *)

Desired == Deployment(version)

IsOnlyModuleStatusChanged(m) ==
  /\ Desired[m].status # Found(m).status
  /\ Desired[m] = [Found(m) EXCEPT !.status = Desired[m].status]

Stop(m) == <<"stop", m>>
Start(m) == <<"start", m>>
Create(m) == <<"create", m, Desired[m].image, Desired[m].options>>
Update(m) == <<"update", m, Desired[m].image, Desired[m].options>>
StartIfRunning(m) == IF Desired[m].status = "running" THEN <<Start(m)>> ELSE <<>>

StopCommand(m) == <<Stop(m)>>
StartCommand(m) == <<Start(m)>>
RemoveCommand(m) == <<<<"remove", m>>>>
RemoveFromStore(m) == <<<<"forget", m>>>>
CreateCommand(m) == <<Create(m)>> \o StartIfRunning(m)
UpdateCommand(m) == <<<<"prepare", m>>, Stop(m), Update(m)>> \o StartIfRunning(m)
RestartCommand(m) == <<Stop(m), Start(m), <<"count", m, RestartCount(m) + 1>>>>
SwitchCommand(m) == IF Desired[m].status = "running" THEN StartCommand(m) ELSE StopCommand(m)

For(S, Command(_)) == LET names == SetToSeq(S) IN [i \in 1 .. Len(names) |-> Command(names[i])]

(* The diff of the desired modules D and the current modules C *)
StatusUpdated(D, C) == {m \in D \cap C : IsOnlyModuleStatusChanged(m)}
Updated(D, C) == {m \in (D \cap C) \ StatusUpdated(D, C) : Desired[m] # Found(m)}
Unaffected(D, C) == (D \cap C) \ (StatusUpdated(D, C) \cup Updated(D, C))

(* Modules that are not as the deployment wants them, though it is not new; *)
(* those in backoff are restarted once their cool-off period is over        *)
ProcessStateChangedModules(S) ==
  LET toStop == {m \in S : Found(m).status = "stopped"}
      toStart == {m \in S \ toStop :
                    /\ RuntimeStatus(m) = "stopped"
                    /\ Found(m).policy # "never" \/ container[m].state = "created"}
      toRestart == {m \in S \ toStop : RuntimeStatus(m) = "backoff"}
  IN For(toStop, StopCommand) \o For(toStart, StartCommand) \o For(toRestart \cap due, RestartCommand)

(* Modules that have been up for the intensive care time *)
ResetStatsForHealthyModules(S) == For(S \cap DOMAIN restarts \cap due, RemoveFromStore)

(* The commands that lead from C to D; known tells whether the identities   *)
(* of the modules could be had.                                             *)
ProcessDesiredAndCurrentSets(D, C, known) ==
  LET updated == Updated(D, C)
      removed == C \ D
      switched == {m \in StatusUpdated(D, C) : Desired[m].status # RuntimeStatus(m)}
      changed == {m \in Unaffected(D, C) : Found(m).status # RuntimeStatus(m)}
      runningGreat == {m \in Unaffected(D, C) \ changed : Found(m).status = "running"}
  IN For(removed, StopCommand) \o For(removed, RemoveCommand)
     \o For(removed \cup updated \cup switched, RemoveFromStore)
     \o For(IF known THEN D \ C ELSE {}, CreateCommand)
     \o For(IF known THEN updated ELSE {}, UpdateCommand)
     \o ProcessStateChangedModules(changed)
     \o For(switched, SwitchCommand)
     \o ResetStatsForHealthyModules(runningGreat)

(* The groups of one startup order after the other.  A current module is    *)
(* taken up with the desired one of its name, or else with its own order,   *)
(* unless it was taken up before.                                           *)
PlanOf(known) ==
  LET current == DOMAIN container
      orders == {Desired[m].order : m \in DOMAIN Desired} \cup {Found(m).order : m \in current}
      DesiredAt(p) == {m \in DOMAIN Desired : Desired[m].order = p}
      Processed(p) == {m \in DOMAIN Desired : Desired[m].order < p}
      CurrentAt(p) == (current \cap DesiredAt(p)) \cup {m \in current \ Processed(p) : Found(m).order = p}
      CommandsAt(p) == ProcessDesiredAndCurrentSets(DesiredAt(p), CurrentAt(p), known)
      sorted == SetToSortSeq(orders, <)
  IN FlattenSeq([i \in 1 .. Len(sorted) |-> CommandsAt(sorted[i])])

----------------------------------------------------------------------------
Init ==
  /\ version = 0 /\ config = 0 /\ disk = 0
  /\ container = Nothing /\ restarts = Nothing
  /\ runs = Nothing /\ last = 0
  /\ plan = <<>> /\ command = <<>> /\ next = 1 /\ doing = "waiting" /\ due = {}
  /\ failed = FALSE /\ skipped = FALSE /\ target = 0
  /\ status = "unknown" /\ reported = [version |-> 0, status |-> "unknown"]
  /\ closing = FALSE /\ disturbed = FALSE
  /\ exits = 0 /\ faults = 0 /\ starts = 0

Fault == faults < MaxFaults /\ faults' = faults + 1

(* ReportAsync: a report that cannot be sent is made up for by the next one *)
Reported(v, s) == [version |-> IF v > 0 THEN v ELSE reported.version, status |-> s]
Report(v, s) ==
  \/ reported' = Reported(v, s) /\ UNCHANGED faults
  \/ Fault /\ UNCHANGED reported

(* A new deployment is given to the device *)
Deploy ==
  /\ version < Len(Deployments)
  /\ version' = version + 1
  /\ UNCHANGED <<config, disk, container, restarts, runs, last, plans, status, reported, closing,
                 disturbed, exits, faults, starts>>

(* A module ends by itself, with or without an error *)
Exit(m) ==
  /\ m \in DOMAIN container /\ container[m].state = "running"
  /\ exits < MaxExits /\ exits' = exits + 1
  /\ \E s \in {"stopped", "failed"} : container' = [container EXCEPT ![m].state = s]
  /\ UNCHANGED <<version, config, disk, restarts, runs, last, plans, status, reported, closing,
                 disturbed, faults, starts>>

(* The direct method that restarts a module *)
RestartRequest(m) ==
  /\ ~closing
  /\ m \in DOMAIN container /\ container[m].state # "running"
  /\ exits < MaxExits /\ exits' = exits + 1
  /\ container' = [container EXCEPT ![m].state = "running"]
  /\ UNCHANGED <<version, config, disk, restarts, runs, last, plans, status, reported, closing,
                 disturbed, faults, starts>>

(* The loop has waited for five seconds, and meanwhile time has passed *)
Timed == DOMAIN restarts \cup {m \in DOMAIN container : RuntimeStatus(m) = "backoff"}
Wake(S) ==
  /\ doing = "waiting" /\ ~closing
  /\ doing' = "reconciling" /\ due' = S
  /\ UNCHANGED <<version, config, disk, container, restarts, runs, last, plan, command, next, failed, skipped,
                 target, status, reported, closing, disturbed, exits, faults, starts>>

(* ReconcileAsync finds nothing to do *)
NothingToDo(known) ==
  /\ doing = "reconciling"
  /\ version = 0 \/ PlanOf(known) = <<>>
  /\ status' = "success"
  /\ IF known THEN Report(config, "success")
     ELSE Fault /\ reported' = Reported(config, "success")
  /\ doing' = "waiting" /\ due' = {}
  /\ UNCHANGED <<version, config, disk, container, restarts, runs, last, plan, command, next, failed, skipped,
                 target, closing, disturbed, exits, starts>>

(* ReconcileAsync cannot read the containers or the deployment *)
CannotRead ==
  /\ doing = "reconciling"
  /\ Fault
  /\ status' = "failed"
  /\ reported' = Reported(config, "failed")
  /\ doing' = "waiting" /\ due' = {}
  /\ UNCHANGED <<version, config, disk, container, restarts, runs, last, plan, command, next, failed, skipped,
                 target, closing, disturbed, exits, starts>>

(* ReconcileAsync makes a plan, and ExecuteAsync begins it; the counts of   *)
(* another deployment are dropped                                           *)
MakePlan(known) ==
  /\ doing = "reconciling"
  /\ version # 0
  /\ plan' = PlanOf(known) /\ plan' # <<>>
  /\ doing' = "running" /\ due' = {} /\ target' = version
  /\ failed' = FALSE /\ skipped' = FALSE
  /\ runs' = IF last \notin {0, version} THEN Nothing ELSE runs
  /\ last' = version
  /\ IF known THEN UNCHANGED <<faults, disturbed>> ELSE Fault /\ disturbed' = TRUE
  /\ UNCHANGED <<version, config, disk, container, restarts, command, next, status, reported, closing,
                 exits, starts>>

(* The mark of a restart has the time in its identifier: it is never found again *)
Failures(c) == IF c \in DOMAIN runs THEN runs[c] ELSE 0
MutShouldRunCommand(c) == Failures(c) + 1 < MaxRestartCount
ShouldRunCommand(c) == Failures(c) < MaxRestartCount
Recorded(c) == \A i \in 1 .. Len(c) : c[i][1] # "count"

(* ExecuteAsync takes the next command up *)
RunCommand ==
  /\ doing = "running" /\ command = <<>> /\ plan # <<>> /\ ~closing
  /\ ShouldRunCommand(Head(plan))
  /\ command' = Head(plan) /\ plan' = Tail(plan) /\ next' = 1
  /\ UNCHANGED <<version, config, disk, container, restarts, runs, last, doing, due, failed, skipped, target,
                 status, reported, closing, disturbed, exits, faults, starts>>

(* It skips a command that failed before, while it cools off or for good *)
SkipCommand ==
  /\ doing = "running" /\ command = <<>> /\ plan # <<>> /\ ~closing
  /\ Failures(Head(plan)) > 0
  /\ skipped' = TRUE /\ plan' = Tail(plan)
  /\ UNCHANGED <<version, config, disk, container, restarts, runs, last, command, next, doing, due, failed,
                 target, status, reported, closing, disturbed, exits, faults, starts>>

(* Once it is cancelled, it leaves out what remains *)
CancelPlan ==
  /\ doing = "running" /\ closing
  /\ plan # <<>> \/ command # <<>>
  /\ plan' = <<>> /\ command' = <<>>
  /\ disturbed' = TRUE
  /\ UNCHANGED <<version, config, disk, container, restarts, runs, last, next, doing, due, failed, skipped,
                 target, status, reported, closing, exits, faults, starts>>

(* An operation of the daemon, or of the store, is possible *)
Possible(op) ==
  CASE op[1] \in {"prepare", "forget", "count"} -> TRUE
    [] op[1] = "create" -> op[2] \notin DOMAIN container
    [] OTHER -> op[2] \in DOMAIN container

New(op) == [image |-> op[3], options |-> op[4], state |-> "created"]

(* What it does; a module that is stopped ends with or without an error *)
Done(op) ==
  LET m == op[2] IN
  \/ op[1] = "prepare" /\ UNCHANGED <<container, restarts>>
  \/ /\ op[1] = "stop"
     /\ \E s \in {"stopped", "failed"} :
          container' = [container EXCEPT ![m].state = IF @ = "running" THEN s ELSE @]
     /\ UNCHANGED restarts
  \/ op[1] = "start" /\ container' = [container EXCEPT ![m].state = "running"] /\ UNCHANGED restarts
  \/ op[1] = "remove" /\ container' = Without(container, m) /\ UNCHANGED restarts
  \/ op[1] \in {"create", "update"} /\ container' = With(container, m, New(op)) /\ UNCHANGED restarts
  \/ op[1] = "forget" /\ restarts' = Without(restarts, m) /\ UNCHANGED container
  \/ op[1] = "count" /\ restarts' = With(restarts, m, op[3]) /\ UNCHANGED container

(* The next operation of the command succeeds; after the last one its       *)
(* failures are forgotten                                                   *)
Succeed ==
  /\ doing = "running" /\ command # <<>>
  /\ Possible(command[next]) /\ Done(command[next])
  /\ IF next < Len(command)
     THEN next' = next + 1 /\ UNCHANGED <<command, runs>>
     ELSE command' = <<>> /\ next' = 1 /\ runs' = Without(runs, command)
  /\ UNCHANGED <<version, config, disk, last, plan, doing, due, failed, skipped, target, status, reported,
                 closing, disturbed, exits, faults, starts>>

(* The next operation fails: it is not possible, or the call fails, and an  *)
(* update may have removed the old container by then                        *)
Fail ==
  /\ doing = "running" /\ command # <<>>
  /\ LET op == command[next] IN
       \/ ~Possible(op) /\ UNCHANGED <<container, faults, disturbed>>
       \/ Fault /\ disturbed' = TRUE /\ UNCHANGED container
       \/ /\ op[1] = "update" /\ Possible(op)
          /\ Fault /\ disturbed' = TRUE /\ container' = Without(container, op[2])
  /\ runs' = IF Recorded(command) THEN With(runs, command, Failures(command) + 1) ELSE runs
  /\ failed' = TRUE /\ command' = <<>> /\ next' = 1
  /\ UNCHANGED <<version, config, disk, restarts, last, plan, doing, due, skipped, target, status, reported,
                 closing, exits, starts>>

MutUpdateCurrentConfig ==
  /\ config' = version
  /\ disk' = version

(* UpdateCurrentConfig, with a store that can be written *)
UpdateCurrentConfig ==
  /\ config' = target
  /\ disk' = target

(* The plan is through: its deployment becomes the current one, whether it  *)
(* succeeded or not, and is reported                                        *)
EndPlan ==
  /\ doing = "running" /\ plan = <<>> /\ command = <<>>
  /\ UpdateCurrentConfig
  /\ status' = IF failed THEN "failed" ELSE IF skipped THEN status ELSE "success"
  /\ Report(target, status')
  /\ doing' = "waiting"
  /\ UNCHANGED <<version, container, restarts, runs, last, plan, command, next, due, failed, skipped, target,
                 closing, disturbed, exits, starts>>

(* The same when the config store cannot be written *)
EndPlanNotStored ==
  /\ doing = "running" /\ plan = <<>> /\ command = <<>>
  /\ Fault /\ disturbed' = TRUE
  /\ config' = target /\ status' = "failed"
  /\ reported' = Reported(target, "failed")
  /\ doing' = "waiting"
  /\ UNCHANGED <<version, disk, container, restarts, runs, last, plan, command, next, due, failed, skipped,
                 target, closing, exits, starts>>

(* The process is asked to stop *)
Close ==
  /\ ~closing /\ starts < MaxStarts
  /\ closing' = TRUE
  /\ UNCHANGED <<version, config, disk, container, restarts, runs, last, plans, status, reported,
                 disturbed, exits, faults, starts>>

(* What a process that starts begins with: the deployment in the store, or  *)
(* none if that cannot be read                                              *)
Begin ==
  /\ \/ config' = disk /\ UNCHANGED faults
     \/ disk # 0 /\ config' = 0 /\ Fault
  /\ runs' = Nothing /\ last' = 0
  /\ plan' = <<>> /\ command' = <<>> /\ next' = 1 /\ doing' = "waiting" /\ due' = {}
  /\ failed' = FALSE /\ skipped' = FALSE /\ target' = 0
  /\ status' = "unknown" /\ closing' = FALSE
  /\ starts' = starts + 1

(* HandleShutdown stops the modules and reports that the agent is not       *)
(* running, both as far as it can; then the daemon starts the agent again   *)
Shutdown ==
  /\ closing /\ doing = "waiting"
  /\ \E S \in SUBSET DOMAIN container, s \in {"stopped", "failed"} :
       container' = [m \in DOMAIN container |->
         IF m \in S /\ container[m].state = "running" THEN [container[m] EXCEPT !.state = s] ELSE container[m]]
  /\ reported' \in {reported, [reported EXCEPT !.status = "unknown"]}
  /\ Begin
  /\ UNCHANGED <<version, disk, restarts, disturbed, exits>>

(* The agent ends anywhere, and the daemon starts it again *)
Crash ==
  /\ starts < MaxStarts
  /\ Begin
  /\ disturbed' = (disturbed \/ doing = "running")
  /\ UNCHANGED <<version, disk, container, restarts, reported, exits>>

Next ==
  \/ Deploy
  \/ \E m \in Modules : Exit(m) \/ RestartRequest(m)
  \/ \E S \in SUBSET Timed : Wake(S)
  \/ \E known \in BOOLEAN : NothingToDo(known) \/ MakePlan(known)
  \/ CannotRead
  \/ RunCommand \/ SkipCommand \/ CancelPlan
  \/ Succeed \/ Fail
  \/ EndPlan \/ EndPlanNotStored
  \/ Close \/ Shutdown \/ Crash

(* What the agent does in its own time *)
Work ==
  \/ \E S \in SUBSET Timed : Wake(S)
  \/ RunCommand \/ SkipCommand \/ CancelPlan
  \/ Succeed \/ Fail
  \/ EndPlan \/ Shutdown

(* A command whose cool-off period is over is run again *)
Retried == plan # <<>> /\ Failures(Head(plan)) > 0 /\ RunCommand

(* The loop goes on and calls are answered; they do not fail for ever, and  *)
(* the time that a module or a command has to wait comes to its end.        *)
Fairness ==
  /\ WF_vars(Work)
  /\ WF_doing(doing = "reconciling" /\ doing' \in {"waiting", "running"})
  /\ SF_vars(Wake(Timed))
  /\ SF_vars(Retried)
  /\ SF_vars(Succeed)

Spec == Init /\ [][Next]_vars /\ Fairness

----------------------------------------------------------------------------
(* Properties                                                               *)

States == {"created", "running", "stopped", "failed"}
Statuses == {"unknown", "success", "failed"}

(* The agent's variables have their types *)
TypeOK ==
  /\ {version, config, disk, last, target} \subseteq 0 .. Len(Deployments)
  /\ DOMAIN container \subseteq Modules /\ \A m \in DOMAIN container : container[m].state \in States
  /\ DOMAIN restarts \subseteq Modules /\ \A m \in DOMAIN restarts : restarts[m] \in 1 .. MaxRestartCount
  /\ \A c \in DOMAIN runs : runs[c] \in 1 .. MaxRestartCount
  /\ doing \in {"waiting", "reconciling", "running"} /\ due \subseteq Modules
  /\ status \in Statuses /\ reported.status \in Statuses

(* What the agent takes for the options of a module are those that its      *)
(* container has, unless a call failed or the agent ended amid a plan: the  *)
(* environment takes them from the deployment that was stored last          *)
(* (DockerEnvironment.GetModulesAsync, Agent.UpdateCurrentConfig)           *)
BeliefTrue ==
  doing = "waiting" /\ ~disturbed =>
    \A m \in DOMAIN container \cap DOMAIN Deployment(config) :
      container[m].options = Deployment(config)[m].options

(* A module of the deployment that is neither up nor waiting to be restarted *)
GivenUp(m) ==
  \/ RuntimeStatus(m) = "failed" /\ Desired[m].policy # "never"
  \/ Desired[m].policy = "never" /\ container[m].state \in {"stopped", "failed"}

Deployed(m) ==
  IF m \in DOMAIN Desired
  THEN /\ m \in DOMAIN container
       /\ container[m].image = Desired[m].image
       /\ disturbed \/ container[m].options = Desired[m].options
       /\ IF Desired[m].status = "running" THEN container[m].state = "running" \/ GivenUp(m)
          ELSE container[m].state # "running"
  ELSE m \notin DOMAIN container

(* In the end every module is deployed as the last deployment says, and the *)
(* agent reports success, whatever failed, ended or was restarted before,   *)
(* unless a command failed as often as the plan runner tries it             *)
(* (Agent.ReconcileAsync, OrderedRetryPlanRunner.ShouldRunCommand).  The    *)
(* version that it reports may be older: an empty plan does not update it   *)
Converges ==
  <>[](\/ \E c \in DOMAIN runs : runs[c] = MaxRestartCount
       \/ /\ \A m \in Modules : Deployed(m)
          /\ reported.status = "success")
====
