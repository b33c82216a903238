----------------------------- MODULE Management -----------------------------
(***************************************************************************)
(* What the security daemon does while it serves: the watchdog that keeps  *)
(* the agent running (edgelet-core/src/watchdog.rs), the handlers of the   *)
(* management API (edgelet-http-mgmt) and the end of the services          *)
(* (start_api of iotedged/src/lib.rs).  Handlers and watchdog run          *)
(* concurrently and take no lock across their calls of the container       *)
(* runtime (edgelet-docker) and of the hub (edgelet-iothub): each is a     *)
(* sequence of calls, and one call is one step.                            *)
(***************************************************************************)
EXTENDS Naturals, Sequences, Functions

CONSTANTS
  Agent,        \* the name of the agent's module and of its identity
  Names,        \* all modules
  Requests,     \* requests in progress at once
  RetryLimits,  \* the limits that the settings may set for the watchdog
  CountModulus, \* the counter of the watchdog wraps around, above every limit: 2^32 for its u32
  MaxIssued,    \* bound: requests in all
  MaxFailures   \* bound: calls that fail without a reason in the state, modules that exit

VARIABLES
  status,      \* [Names -> {"none", "stopped", "running"}], in the container runtime
  container,   \* by name: the actor that created the module's container
  hub,         \* the modules that have an identity
  todo,        \* by actor: the calls still to make
  target,      \* by actor: the module
  answer,      \* by request: "none" yet, "ok" or "error"
  max_retries, exec_count,  \* the watchdog's limit, and its count of failures
  daemon,      \* what start_api does: see Daemons
  sole,        \* history: requests for a container, with no other for its module since they came
  issued, failures

(* start_api serves, stops the agent, waits for the services to end after  *)
(* one of three signals, or has returned.                                  *)
Closing == {"closing", "closing_reprovision", "closing_restart"}
Returned == {"stopped", "reprovision", "gave_up", "stop_failed"}
Daemons == {"serving", "stopping"} \cup Closing \cup Returned

Watchdog == "watchdog"
Actors == Requests \cup {Watchdog}

runtime == <<status, container>>
actors == <<todo, target, answer, sole>>
bounds == <<issued, failures>>
vars == <<runtime, hub, actors, max_retries, exec_count, daemon, bounds>>

(* The calls each handler makes, in its order.                             *)
CreateModule == <<"pull", "create">>
UpdateModule == <<"remove", "pull", "create">>
UpdateAndStartModule == Append(UpdateModule, "start")
PrepareUpdateModule == <<"pull">>
StartModule == <<"start">>
StopModule == <<"stop">>
RestartModule == <<"restart">>
DeleteModule == <<"remove">>
CreateIdentity == <<"hub_create", "hub_update">>
UpdateIdentity == <<"hub_update">>
DeleteIdentity == <<"hub_delete">>

Handlers == {CreateModule, UpdateModule, UpdateAndStartModule, PrepareUpdateModule, StartModule,
             StopModule, RestartModule, DeleteModule, CreateIdentity, UpdateIdentity,
             DeleteIdentity}

(* A handler takes a request.                                              *)
Handle(r) ==
  /\ daemon \in {"serving", "stopping"}
  /\ todo[r] = << >>
  /\ issued < MaxIssued
  /\ issued' = issued + 1
  /\ \E calls \in Handlers, n \in Names :
       /\ todo' = [todo EXCEPT ![r] = calls]
       /\ target' = [target EXCEPT ![r] = n]
       /\ LET others == {q \in Requests \ {r} : target[q] = n} IN
            sole' = (sole \ (others \cup {r}))
                      \cup {q \in {r} : "create" \in Range(calls) /\ \A o \in others : todo[o] = << >>}
  /\ answer' = [answer EXCEPT ![r] = "none"]
  /\ UNCHANGED <<runtime, hub, exec_count, daemon, failures>>

(* update_identity and create_and_start.                                   *)
CreateAndStart == <<"hub_get", "hub_update", "pull", "create", "start">>

(* Mutant: an agent that has stopped is made anew.                         *)
MutWatchdogRemakes ==
  CASE status[Agent] = "running" -> << >>
    [] status[Agent] = "stopped" -> <<"remove">> \o CreateAndStart
    [] status[Agent] = "none" -> CreateAndStart

(* Mutant: an agent that exists is taken to run.                           *)
MutWatchdogCalls ==
  IF status[Agent] = "none" THEN CreateAndStart ELSE << >>

(* check_runtime lists the modules and decides what to do about the agent. *)
WatchdogCalls ==
  CASE status[Agent] = "running" -> << >>
    [] status[Agent] = "stopped" -> <<"start">>
    [] status[Agent] = "none" -> CreateAndStart
-----------------------------------------------------------------------------
(* What the container runtime and the hub require of a call.  Starting a   *)
(* running module and stopping a stopped one is the error NotModified.     *)
Possible(c, n) ==
  CASE c = "create" -> status[n] = "none"
    [] c = "start" -> status[n] = "stopped"
    [] c = "stop" -> status[n] = "running"
    [] c \in {"restart", "remove"} -> status[n] # "none"
    [] c = "hub_create" -> n \notin hub
    [] c \in {"hub_get", "hub_update", "hub_delete"} -> n \in hub
    [] c = "pull" -> TRUE

(* The calls of edgelet-docker/src/runtime.rs.                             *)
Become(n, st) == status' = [status EXCEPT ![n] = st]

Create(n, a) == Become(n, "stopped") /\ container' = [container EXCEPT ![n] = a]

Start(n) == Become(n, "running") /\ UNCHANGED container
Stop(n) == Become(n, "stopped") /\ UNCHANGED container
Restart(n) == Become(n, "running") /\ UNCHANGED container
Remove(n) == Become(n, "none") /\ UNCHANGED container

RuntimeCall(c, n, a) ==
  /\ \/ c = "create" /\ Create(n, a)
     \/ c = "start" /\ Start(n)
     \/ c = "stop" /\ Stop(n)
     \/ c = "restart" /\ Restart(n)
     \/ c = "remove" /\ Remove(n)
  /\ UNCHANGED hub

(* The calls of edgelet-iothub/src/lib.rs: create makes an identity that   *)
(* has no key, and update_module sets its key.  Keys are left out, and so  *)
(* are the generations they are derived from.                              *)
HubCreate(n) == hub' = hub \cup {n}
HubUpdate(n) == UNCHANGED hub
HubGet(n) == UNCHANGED hub
HubDelete(n) == hub' = hub \ {n}

(* Pulling an image changes nothing here.                                  *)
Pull == UNCHANGED hub

HubCall(c, n) ==
  /\ \/ c = "hub_create" /\ HubCreate(n)
     \/ c = "hub_update" /\ HubUpdate(n)
     \/ c = "hub_get" /\ HubGet(n)
     \/ c = "hub_delete" /\ HubDelete(n)
     \/ c = "pull" /\ Pull
  /\ UNCHANGED runtime

Call(a) ==
  LET c == Head(todo[a]) IN
    /\ Possible(c, target[a])
    /\ RuntimeCall(c, target[a], a) \/ HubCall(c, target[a])

(* A call that cannot be done fails, and one that can may fail as well.    *)
CallFails(a) ==
  /\ IF Possible(Head(todo[a]), target[a])
       THEN failures < MaxFailures /\ failures' = failures + 1
       ELSE UNCHANGED failures
  /\ UNCHANGED <<runtime, hub>>

(* A handler makes its next call; after one that fails it answers with an  *)
(* error and does no more.                                                 *)
HandlerStep(r) ==
  /\ todo[r] # << >>
  /\ daemon \in {"serving", "stopping"} \cup Closing
  /\ \/ /\ Call(r)
        /\ todo' = [todo EXCEPT ![r] = Tail(@)]
        /\ answer' = [answer EXCEPT ![r] = IF Len(todo[r]) = 1 THEN "ok" ELSE @]
        /\ UNCHANGED failures
     \/ /\ CallFails(r)
        /\ todo' = [todo EXCEPT ![r] = << >>]
        /\ answer' = [answer EXCEPT ![r] = "error"]
  /\ UNCHANGED <<target, sole, exec_count, daemon, issued>>
-----------------------------------------------------------------------------
(* start_watchdog: the end of a check, successful or not.                  *)
CheckSucceeds == exec_count' = 0 /\ UNCHANGED daemon

CheckFails ==
  IF max_retries.infinite \/ max_retries.num > exec_count
    THEN exec_count' = (exec_count + 1) % CountModulus /\ UNCHANGED daemon
    ELSE UNCHANGED exec_count /\ daemon' = "gave_up"

(* The timer fires and the agent's state is obtained, or cannot be.        *)
Tick ==
  /\ daemon = "serving"
  /\ todo[Watchdog] = << >>
  /\ status[Agent] # "running" \/ exec_count # 0
  /\ \/ /\ todo' = [todo EXCEPT ![Watchdog] = WatchdogCalls]
        /\ IF status[Agent] = "running" THEN CheckSucceeds
                                        ELSE UNCHANGED <<exec_count, daemon>>
        /\ UNCHANGED failures
     \/ /\ failures < MaxFailures /\ failures' = failures + 1
        /\ CheckFails
        /\ UNCHANGED todo
  /\ UNCHANGED <<runtime, hub, target, answer, sole, issued>>

(* create_and_start, or the start of a stopped agent, goes on.             *)
WatchdogStep ==
  /\ daemon = "serving"
  /\ todo[Watchdog] # << >>
  /\ \/ /\ Call(Watchdog)
        /\ todo' = [todo EXCEPT ![Watchdog] = Tail(@)]
        /\ IF Len(todo[Watchdog]) = 1 THEN CheckSucceeds
                                      ELSE UNCHANGED <<exec_count, daemon>>
        /\ UNCHANGED failures
     \/ /\ CallFails(Watchdog)
        /\ todo' = [todo EXCEPT ![Watchdog] = << >>]
        /\ CheckFails
  /\ UNCHANGED <<target, answer, sole, issued>>

(* A module's process ends by itself.                                      *)
ModuleExits(n) ==
  /\ status[n] = "running"
  /\ failures < MaxFailures
  /\ failures' = failures + 1
  /\ status' = [status EXCEPT ![n] = "stopped"]
  /\ UNCHANGED <<container, hub, actors, exec_count, daemon, issued>>

(* The shutdown signal drops the watchdog wherever it is.                  *)
Shutdown ==
  /\ daemon = "serving"
  /\ daemon' = "stopping"
  /\ todo' = [todo EXCEPT ![Watchdog] = << >>]
  /\ UNCHANGED <<runtime, hub, target, answer, sole, exec_count, bounds>>

(* stop_runtime: an agent that does not exist is fine, one that has        *)
(* stopped already is an error.  Then the services are told to end.        *)
StopRuntime ==
  /\ daemon = "stopping"
  /\ daemon' = IF status[Agent] = "stopped" THEN "stop_failed" ELSE "closing"
  /\ status' = [status EXCEPT ![Agent] = IF @ = "running" THEN "stopped" ELSE @]
  /\ UNCHANGED <<container, hub, actors, exec_count, bounds>>

(* The agent asked for another provisioning, or the certificate of the     *)
(* services is about to expire: the watchdog is dropped and the services   *)
(* are told to end, but the agent is not stopped.                          *)
Signal(d) ==
  /\ daemon = "serving"
  /\ issued < MaxIssued
  /\ issued' = issued + 1
  /\ daemon' = d
  /\ todo' = [todo EXCEPT ![Watchdog] = << >>]
  /\ UNCHANGED <<runtime, hub, target, answer, sole, exec_count, failures>>

(* The services end once the requests they hold are answered.  After a     *)
(* restart signal start_api is called again, with a new watchdog.          *)
Closed ==
  /\ daemon \in Closing
  /\ \A r \in Requests : todo[r] = << >>
  /\ daemon' = CASE daemon = "closing" -> "stopped"
                 [] daemon = "closing_reprovision" -> "reprovision"
                 [] daemon = "closing_restart" -> "serving"
  /\ exec_count' = 0
  /\ UNCHANGED <<runtime, hub, actors, bounds>>

Init ==
  /\ status = [n \in Names |-> "none"]
  /\ container = [n \in Names |-> Watchdog]
  /\ hub = {Agent}
  /\ todo = [a \in Actors |-> << >>]
  /\ target = [a \in Actors |-> Agent]
  /\ answer = [r \in Requests |-> "none"]
  /\ max_retries \in RetryLimits
  /\ exec_count = 0 /\ daemon = "serving" /\ sole = {}
  /\ issued = 0 /\ failures = 0

Step ==
  \/ \E r \in Requests : Handle(r) \/ HandlerStep(r)
  \/ Tick \/ WatchdogStep
  \/ \E n \in Names : ModuleExits(n)
  \/ Shutdown \/ StopRuntime \/ Closed
  \/ \E d \in {"closing_reprovision", "closing_restart"} : Signal(d)

Next == Step /\ UNCHANGED max_retries

Spec == Init /\ [][Next]_vars

(* What must go on: the timer of the watchdog fires, and what was begun is *)
(* finished.                                                               *)
Work ==
  /\ Tick \/ WatchdogStep \/ StopRuntime \/ Closed \/ \E r \in Requests : HandlerStep(r)
  /\ UNCHANGED max_retries
-----------------------------------------------------------------------------
(* A handler that creates a container and answers that all is well leaves  *)
(* the container it created, until another request is about the module:    *)
(* the watchdog, which makes and starts the agent by what it saw before,   *)
(* neither has its own container stand in for the one of the handler, nor  *)
(* takes that one away afterwards.                                         *)
OwnContainer ==
  \A r \in sole :
    answer[r] = "ok" => status[target[r]] # "none" /\ container[target[r]] = r

(* The daemon no longer serves, the agent runs, or the hub has no identity *)
(* for it.                                                                 *)
AgentUp == daemon # "serving" \/ status[Agent] = "running" \/ Agent \notin hub
=============================================================================
