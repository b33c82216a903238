----------------------------- MODULE TwinProofs -----------------------------
(***************************************************************************)
(* The twins of the Edge Hub, for any number of handlers, properties,      *)
(* changes, reports, outages and restarts: what a client reports is        *)
(* neither lost nor forgotten, and a client that got its twin misses no    *)
(* change of its desired properties.                                       *)
(***************************************************************************)
EXTENDS TwinSync, TLAPS

SyncSteps == {"check", "lock", "update", "clear"}
Steps == SyncSteps \cup {"idle", "get", "store", "write", "send", "desired"}
Kinds == {"none", "twin", "sync", "patch", "callback"}
Handlers == [kind : Kinds, pc : Steps, from : Int, got : Nat, session : Nat]
Loop == SyncSteps \cup {"snapshot", "wait"}
Values == [Properties -> Nat]

Typed ==
  /\ desired \in Nat /\ updates \subseteq Nat \ {0}
  /\ twin \in Int /\ twin >= NoTwin
  /\ reported \in Values /\ patch \in Values /\ wrote \in Values
  /\ reports \in Nat /\ permits \in Nat /\ session \in Nat
  /\ task \in [Tasks -> Handlers]
  /\ loop \in Loop
  /\ lock \in Syncers \cup {"free"}

(* Only callbacks run SyncToCloud beside the loop.                         *)
Callbacks ==
  \A t \in Tasks : task[t].pc \in SyncSteps \cup {"desired"} => task[t].kind = "callback"

Base == Typed /\ Callbacks
-----------------------------------------------------------------------------
(* Where a handler stands is its own state.                                *)
LEMMA AtTask == \A t \in Tasks : At(t) = task[t].pc /\ At(t)' = task'[t].pc
  BY TwinAssumption, Zenon DEF At

(* The loop that pushes reports has its own state.                         *)
LEMMA AtLoop == At("loop") = loop /\ At("loop")' = loop'
  BY Zenon DEF At

(* A handler that moves to r, no other.                                    *)
LEMMA MoveType ==
  ASSUME Base, NEW t \in Tasks, NEW r \in Handlers, task' = [task EXCEPT ![t] = r],
         r.pc \in SyncSteps \cup {"desired"} => r.kind = "callback"
  PROVE  /\ task' \in [Tasks -> Handlers]
         /\ Callbacks'
         /\ \A u \in Tasks \ {t} : task'[u] = task[u]
         /\ task'[t] = r
<1>1. task \in [Tasks -> Handlers]
  BY Zenon DEF Base, Typed
<1>2. task' \in [Tasks -> Handlers] /\ task'[t] = r /\ \A u \in Tasks \ {t} : task'[u] = task[u]
  BY <1>1, Zenon
<1>3. Callbacks'
  BY <1>2, Zenon DEF Base, Callbacks
<1> QED BY <1>2, <1>3, Zenon

(* Goto and Finish as new states of the handler.                           *)
LEMMA GotoMoves ==
  ASSUME Base, NEW t \in Tasks, NEW p \in Steps, Goto(t, p)
  PROVE  \E r \in Handlers :
           /\ r = Handler(task[t].kind, p, task[t].from, task[t].got, task[t].session)
           /\ task' = [task EXCEPT ![t] = r]
<1>1. task \in [Tasks -> Handlers] /\ task[t] \in Handlers
  BY Zenon DEF Base, Typed
<1> DEFINE r == Handler(task[t].kind, p, task[t].from, task[t].got, task[t].session)
<1>2. r \in Handlers
  BY <1>1, Zenon DEF Handlers, Handler
<1>3. [task[t] EXCEPT !.pc = p] = r
  BY <1>1 DEF Handlers, Handler
<1>4. task' = [task EXCEPT ![t] = r]
  BY <1>3, Zenon DEF Goto
<1> QED BY <1>2, <1>4, Zenon

(* A handler that does nothing.                                            *)
LEMMA IdleType == Idle \in Handlers /\ Idle.pc = "idle" /\ Idle.kind = "none"
  BY DEF Idle, Handler, Handlers, Steps, Kinds

(* A step of SyncToCloud moves the one who takes it, no other.             *)
LEMMA SyncMoves ==
  ASSUME Base, NEW s \in Syncers, At(s) \in SyncSteps, NEW p \in SyncSteps \cup {"done"},
         SyncGoto(s, p)
  PROVE  /\ At(s)' = IF p = "done" THEN IF s = "loop" THEN "wait" ELSE "desired" ELSE p
         /\ \A u \in Syncers \ {s} : At(u)' = At(u)
         /\ task' \in [Tasks -> Handlers] /\ loop' \in Loop
         /\ Callbacks'
         /\ s = "loop" => task' = task
         /\ s # "loop" => /\ loop' = loop
                          /\ \E q \in {"lock", "update", "clear", "check", "desired"} : Goto(s, q)
                          /\ task[s].kind = "callback" /\ task[s].pc \in SyncSteps
<1>0. "loop" \notin Tasks
  BY TwinAssumption, Zenon
<1>1. CASE s = "loop"
  <2>1. loop' = (IF p = "done" THEN "wait" ELSE p) /\ task' = task
    BY <1>1, Zenon DEF SyncGoto
  <2>2. loop' \in Loop
    BY <2>1, Zenon DEF Loop
  <2>3. Callbacks' /\ task' \in [Tasks -> Handlers]
    BY <2>1, Zenon DEF Base, Typed, Callbacks
  <2>4. \A u \in Syncers \ {s} : u \in Tasks
    BY <1>1, Zenon DEF Syncers
  <2> QED BY <1>1, <2>1, <2>2, <2>3, <2>4, AtTask, AtLoop, Zenon
<1>2. CASE s # "loop"
  <2> DEFINE q == IF p = "done" THEN "desired" ELSE p
  <2>1. s \in Tasks
    BY <1>2, Zenon DEF Syncers
  <2>2. Goto(s, q) /\ loop' = loop
    BY <1>2, Zenon DEF SyncGoto
  <2>3. task[s].kind = "callback" /\ task[s].pc \in SyncSteps
    BY <2>1, AtTask, Zenon DEF Base, Callbacks
  <2>4. q \in {"lock", "update", "clear", "check", "desired"} /\ q \in Steps
    BY Zenon DEF SyncSteps, Steps
  <2> HIDE DEF q
  <2>5. PICK r \in Handlers :
           /\ r = Handler(task[s].kind, q, task[s].from, task[s].got, task[s].session)
           /\ task' = [task EXCEPT ![s] = r]
    BY <2>1, <2>2, <2>4, GotoMoves, Zenon
  <2>6. r.kind = "callback" /\ r.pc = q
    BY <2>3, <2>5, Zenon DEF Handler
  <2>7. /\ task' \in [Tasks -> Handlers] /\ Callbacks'
        /\ \A u \in Tasks \ {s} : task'[u] = task[u]
        /\ task'[s] = r
    BY <2>1, <2>5, <2>6, MoveType, Zenon
  <2>8. At(s)' = q
    BY <2>1, <2>6, <2>7, AtTask, Zenon
  <2>9. \A u \in Syncers \ {s} : At(u)' = At(u)
    BY <2>2, <2>7, AtTask, AtLoop, Zenon DEF Syncers
  <2>10. loop' \in Loop
    BY <2>2, Zenon DEF Base, Typed
  <2>11. At(s)' = IF p = "done" THEN IF s = "loop" THEN "wait" ELSE "desired" ELSE p
    BY <1>2, <2>8, Zenon DEF q
  <2> QED BY <1>2, <2>2, <2>3, <2>4, <2>7, <2>9, <2>10, <2>11, Zenon
<1> QED BY <1>1, <1>2, Zenon
-----------------------------------------------------------------------------
(* The steps of a handler, each as the state it moves the handler to.      *)
Moves(t, r) == r \in Handlers /\ task' = [task EXCEPT ![t] = r]

(* A handler is made of its kind, step, versions and session.              *)
LEMMA HandlerType ==
  ASSUME NEW k \in Kinds, NEW p \in Steps, NEW f \in Int, NEW g \in Nat, NEW n \in Nat
  PROVE  Handler(k, p, f, g, n) \in Handlers
  BY Zenon DEF Handler, Handlers

(* Goto moves the handler to another step.                                 *)
LEMMA GotoState ==
  ASSUME Base, NEW t \in Tasks, NEW p \in Steps, Goto(t, p)
  PROVE  Moves(t, Handler(task[t].kind, p, task[t].from, task[t].got, task[t].session))
  BY GotoMoves, Zenon DEF Moves

(* Advance moves it with new versions.                                     *)
LEMMA AdvanceState ==
  ASSUME Base, NEW t \in Tasks, NEW p \in Steps, NEW f \in Int, NEW g \in Nat, Advance(t, p, f, g)
  PROVE  Moves(t, Handler(task[t].kind, p, f, g, task[t].session))
<1>1. task[t] \in Handlers
  BY Zenon DEF Base, Typed
<1>2. task[t].kind \in Kinds /\ task[t].session \in Nat
  BY <1>1, Zenon DEF Handlers
<1> QED BY <1>2, HandlerType, Zenon DEF Advance, Moves

(* Finish makes it idle.                                                   *)
LEMMA FinishState ==
  ASSUME NEW t \in Tasks, Finish(t)
  PROVE  Moves(t, Idle)
  BY IdleType, Zenon DEF Finish, Moves

(* GetTwinAsync fetches the twin for the session of the client.            *)
LEMMA GetTwinMoves ==
  ASSUME Base, NEW t \in Tasks, GetTwin(t)
  PROVE  Moves(t, Handler("twin", "get", 0, 0, session))
<1>1. "twin" \in Kinds /\ "get" \in Steps /\ session \in Nat
  BY Zenon DEF Kinds, Steps, Base, Typed
<1>2. Handler("twin", "get", 0, 0, session) \in Handlers
  BY <1>1, HandlerType
<1> QED BY <1>2, Zenon DEF GetTwin, Moves

(* A change of the desired properties that does not follow the stored      *)
(* twin fetches the twin; any other is a patch of one version.             *)
LEMMA UpdateMoves ==
  ASSUME Base, NEW t \in Tasks, UpdateDesired(t)
  PROVE  \E v \in Nat \ {0} :
           \/ twin # NoTwin /\ Moves(t, Handler("sync", "get", twin, 0, 0))
           \/ Moves(t, Handler("patch", "write", v - 1, v, 0))
<1>1. PICK v \in updates : task' = [task EXCEPT ![t] =
            IF twin # NoTwin /\ twin + 1 # v
            THEN Handler("sync", "get", twin, 0, 0) ELSE Handler("patch", "write", v - 1, v, 0)]
  BY Zenon DEF UpdateDesired
<1>2. v \in Nat \ {0} /\ twin \in Int
  BY Zenon DEF Base, Typed
<1>3. "sync" \in Kinds /\ "patch" \in Kinds /\ "get" \in Steps /\ "write" \in Steps /\ v - 1 \in Int
  BY <1>2 DEF Kinds, Steps
<1>4. Handler("sync", "get", twin, 0, 0) \in Handlers
  BY <1>2, <1>3, HandlerType, Zenon
<1>5. Handler("patch", "write", v - 1, v, 0) \in Handlers
  BY <1>2, <1>3, HandlerType, Zenon
<1>6. CASE twin # NoTwin /\ twin + 1 # v
  BY <1>1, <1>2, <1>4, <1>6, Zenon DEF Moves
<1>7. CASE ~(twin # NoTwin /\ twin + 1 # v)
  BY <1>1, <1>2, <1>5, <1>7, Zenon DEF Moves
<1> QED BY <1>6, <1>7, Zenon

(* The cloud answers with its version of the desired properties.           *)
LEMMA FetchMoves ==
  ASSUME Base, NEW t \in Tasks, FetchTwin(t)
  PROVE  Moves(t, Handler(task[t].kind, "store", task[t].from, desired, task[t].session))
<1>1. task[t] \in Handlers /\ desired \in Nat /\ "store" \in Steps
  BY Zenon DEF Base, Typed, Steps
<1>2. task[t].from \in Int
  BY <1>1, Zenon DEF Handlers
<1> QED BY <1>1, <1>2, AdvanceState, Zenon DEF FetchTwin

(* Without an answer of the cloud GetTwinAsync answers from the store,     *)
(* and every other handler gives up.                                       *)
LEMMA FailsMoves ==
  ASSUME Base, NEW t \in Tasks, FetchFails(t)
  PROVE  \/ Moves(t, Idle)
         \/ /\ task[t].kind = "twin"
            /\ \E g \in Nat :
                 g >= twin /\ Moves(t, Handler("twin", "send", task[t].from, g, task[t].session))
<1>1. task[t] \in Handlers /\ twin \in Int /\ twin >= NoTwin /\ "send" \in Steps
  BY Zenon DEF Base, Typed, Steps
<1>2. CASE task[t].kind = "twin"
  <2> DEFINE g == IF twin = NoTwin THEN 0 ELSE twin
  <2>1. g \in Nat /\ g >= twin
    BY <1>1 DEF NoTwin
  <2>2. Advance(t, "send", task[t].from, g)
    BY <1>2, Zenon DEF FetchFails
  <2> HIDE DEF g
  <2>3. task[t].from \in Int
    BY <1>1, Zenon DEF Handlers
  <2>4. Moves(t, Handler("twin", "send", task[t].from, g, task[t].session))
    BY <1>1, <1>2, <2>1, <2>2, <2>3, AdvanceState, Zenon
  <2> QED BY <1>2, <2>1, <2>4, Zenon
<1>3. CASE task[t].kind # "twin"
  BY <1>3, FinishState, Zenon DEF FetchFails
<1> QED BY <1>2, <1>3, Zenon

(* The callback goes on to fetch the twin if one is stored.                *)
LEMMA HandleMoves ==
  ASSUME Base, NEW t \in Tasks, HandleDesired(t)
  PROVE  \/ Moves(t, Idle)
         \/ twin # NoTwin /\ Moves(t, Handler("callback", "get", twin, task[t].got, task[t].session))
<1>1. task[t] \in Handlers /\ twin \in Int /\ task[t].kind = "callback" /\ "get" \in Steps
  BY Zenon DEF Base, Typed, Callbacks, HandleDesired, Steps
<1>2. task[t].got \in Nat
  BY <1>1, Zenon DEF Handlers
<1>3. CASE Finish(t)
  BY <1>3, FinishState, Zenon
<1>4. CASE twin # NoTwin /\ Advance(t, "get", twin, task[t].got)
  BY <1>1, <1>2, <1>4, AdvanceState, Zenon
<1> QED BY <1>3, <1>4, Zenon DEF HandleDesired

(* When the connection to the cloud returns, the callback starts.          *)
LEMMA ReturnMoves ==
  ASSUME Base, Return
  PROVE  \/ task' = task
         \/ \E t \in Tasks : task[t].pc = "idle" /\ Moves(t, Handler("callback", "check", 0, 0, 0))
<1>1. "callback" \in Kinds /\ "check" \in Steps
  BY Zenon DEF Steps, Kinds, SyncSteps
<1>2. Handler("callback", "check", 0, 0, 0) \in Handlers
  BY <1>1, HandlerType
<1> QED BY <1>2, Zenon DEF Return, Moves
-----------------------------------------------------------------------------
(* The handlers of desired properties do not enter SyncToCloud.            *)
LEMMA DesiredMoves ==
  ASSUME Base, NEW t \in Tasks, GetTwin(t) \/ UpdateDesired(t) \/ TaskStep(t)
  PROVE  \E r \in Handlers :
           /\ Moves(t, r)
           /\ r.pc \notin SyncSteps \cup {"desired"}
           /\ task[t].pc \notin SyncSteps
<1> USE DEF SyncSteps
<1>1. CASE GetTwin(t)
  BY <1>1, GetTwinMoves, Zenon DEF GetTwin, Moves, Handler
<1>2. CASE UpdateDesired(t)
  BY <1>2, UpdateMoves, Zenon DEF UpdateDesired, Moves, Handler
<1>3. CASE WritePatch(t)
  BY <1>3, GotoState, Zenon DEF WritePatch, Moves, Handler, Steps
<1>4. CASE FetchTwin(t)
  BY <1>4, FetchMoves, Zenon DEF FetchTwin, Moves, Handler
<1>5. CASE FetchFails(t)
  BY <1>5, FailsMoves, Zenon DEF FetchFails, Moves, Handler, Idle
<1>6. CASE StoreTwin(t)
  BY <1>6, GotoState, Zenon DEF StoreTwin, Moves, Handler, Steps
<1>7. CASE SendToClient(t)
  BY <1>7, FinishState, Zenon DEF SendToClient, Moves, Handler, Idle
<1>8. CASE HandleDesired(t)
  BY <1>8, HandleMoves, Zenon DEF HandleDesired, Moves, Handler, Idle
<1>9. CASE SendFails(t)
  BY <1>9, FinishState, Zenon DEF SendFails, Moves, Handler, Idle
<1> QED BY <1>1, <1>2, <1>3, <1>4, <1>5, <1>6, <1>7, <1>8, <1>9, Zenon DEF TaskStep

(* What a report puts together are properties with values.                 *)
LEMMA MergeType ==
  ASSUME NEW old \in Values, NEW new \in Values
  PROVE  Merge(old, new) \in Values
  BY Zenon DEF Merge, Values

(* No property has a value.                                                *)
LEMMA NoPropertiesType == NoProperties \in Values
  BY Zenon DEF NoProperties, Values

(* Merging twice is merging once.                                          *)
LEMMA MergeTwice ==
  ASSUME NEW old \in Values, NEW new \in Values
  PROVE  Merge(Merge(old, new), new) = Merge(old, new)
  BY Zenon DEF Merge, Values

(* Patches may be merged before they are applied.                          *)
LEMMA MergeAssoc ==
  ASSUME NEW a \in Values, NEW b \in Values, NEW c \in Values
  PROVE  Merge(a, Merge(b, c)) = Merge(Merge(a, b), c)
  BY Zenon DEF Merge, Values

(* The empty patch changes nothing.                                        *)
LEMMA MergeNothing ==
  ASSUME NEW a \in Values
  PROVE  Merge(a, NoProperties) = a
  BY Zenon DEF Merge, Values, NoProperties

(* A report of one property.                                               *)
LEMMA NewType ==
  ASSUME NEW p \in Properties, reports \in Nat
  PROVE  [NoProperties EXCEPT ![p] = reports] \in Values
  BY NoPropertiesType, Zenon DEF Values

-----------------------------------------------------------------------------
(* Types.                                                                  *)
LEMMA BaseInit == TInit => Base
<1> SUFFICES ASSUME TInit PROVE Base
  BY Zenon
<1>1. task \in [Tasks -> Handlers] /\ Callbacks
  BY IdleType, Zenon DEF TInit, Callbacks, SyncSteps
<1>2. reported \in Values /\ patch \in Values /\ wrote \in Values
  BY NoPropertiesType, Zenon DEF TInit
<1>3. lock \in Syncers \cup {"free"} /\ loop \in Loop
  BY Zenon DEF TInit, Loop
<1> QED BY <1>1, <1>2, <1>3 DEF TInit, Base, Typed, NoTwin

(* Steps that leave the handlers, the loop and the lock alone.             *)
LEMMA FrameBase ==
  ASSUME Base, UNCHANGED <<task, loop, lock>>,
         desired' \in Nat, updates' \subseteq Nat \ {0}, twin' \in Int, twin' >= NoTwin,
         reported' \in Values, patch' \in Values, wrote' \in Values, reports' \in Nat,
         permits' \in Nat, session' \in Nat
  PROVE  Base'
<1>1. Callbacks'
  BY Zenon DEF Base, Callbacks
<1> QED BY <1>1, Zenon DEF Base, Typed, Syncers

(* Steps of a handler.                                                     *)
LEMMA MoveBase ==
  ASSUME Base, NEW t \in Tasks, NEW r, Moves(t, r),
         r.pc \in SyncSteps \cup {"desired"} => r.kind = "callback",
         UNCHANGED <<desired, reported, patch, wrote, reports, permits, session, loop, lock>>,
         updates' \subseteq updates, twin' \in Int, twin' >= NoTwin
  PROVE  Base'
<1>1. task' \in [Tasks -> Handlers] /\ Callbacks'
  BY MoveType, Zenon DEF Moves
<1> QED BY <1>1, Zenon DEF Base, Typed, Syncers
(* Every step of the cloud, the client, the handlers and the loop keeps    *)
(* the types, and only callbacks run SyncToCloud beside the loop.          *)
LEMMA BaseNext == Base /\ [TNext]_tvars => Base'
<1> SUFFICES ASSUME Base, [TNext]_tvars PROVE Base'
  BY Zenon
<1> USE DEF cloud, syncing, reporting, client
<1>0. /\ desired \in Nat /\ updates \subseteq Nat \ {0} /\ twin \in Int /\ twin >= NoTwin
      /\ reported \in Values /\ patch \in Values /\ wrote \in Values /\ reports \in Nat
      /\ permits \in Nat /\ session \in Nat
  BY Zenon DEF Base, Typed
<1>1. CASE Change
  <2>1. desired' = desired + 1 /\ updates' \subseteq updates \cup {desired'}
    BY <1>1, Zenon DEF Change
  <2>2. desired' \in Nat /\ updates' \subseteq Nat \ {0}
    BY <1>0, <2>1
  <2> QED BY <1>0, <1>1, <2>2, FrameBase, Zenon DEF Change
<1>2. CASE Leave
  BY <1>0, <1>2, FrameBase, Zenon DEF Leave
<1>3. CASE Return
  <2>1. CASE task' = task
    BY <1>0, <1>3, <2>1, FrameBase, Zenon DEF Return
  <2>2. ASSUME NEW t \in Tasks, Moves(t, Handler("callback", "check", 0, 0, 0)) PROVE Base'
    BY <1>0, <1>3, <2>2, MoveBase, Zenon DEF Return, Handler
  <2> QED BY <1>3, <2>1, <2>2, ReturnMoves, Zenon
<1>4. CASE ClientConnects
  BY <1>0, <1>4, FrameBase DEF ClientConnects
<1>5. CASE ClientLeaves
  BY <1>0, <1>5, FrameBase, Zenon DEF ClientLeaves
<1>6. ASSUME NEW t \in Tasks, GetTwin(t) \/ UpdateDesired(t) \/ TaskStep(t) PROVE Base'
  <2>1. PICK r \in Handlers : Moves(t, r) /\ r.pc \notin SyncSteps \cup {"desired"}
    BY <1>6, DesiredMoves, Zenon
  <2>2. UNCHANGED <<desired, reported, patch, wrote, reports, permits, session, loop, lock>>
    BY <1>6, Zenon DEF GetTwin, UpdateDesired, TaskStep, WritePatch, FetchTwin, FetchFails, StoreTwin,
                SendToClient, SendFails, HandleDesired
  <2>3. updates' \subseteq updates
    BY <1>6, Zenon DEF GetTwin, UpdateDesired, TaskStep, WritePatch, FetchTwin, FetchFails, StoreTwin,
                SendToClient, SendFails, HandleDesired
  <2>4. twin' \in Int /\ twin' >= NoTwin
    <3>1. CASE WritePatch(t)
      <4>1. twin' = twin \/ twin' = twin + 1
        BY <3>1, Zenon DEF WritePatch
      <4> QED BY <1>0, <4>1 DEF NoTwin
    <3>2. CASE StoreTwin(t)
      <4>1. task[t].got \in Nat
        BY Zenon DEF Base, Typed, Handlers
      <4> QED BY <3>2, <4>1 DEF StoreTwin, NoTwin
    <3>3. CASE twin' = twin
      BY <1>0, <3>3, Zenon
    <3> QED BY <1>6, <3>1, <3>2, <3>3, Zenon DEF GetTwin, UpdateDesired, TaskStep, FetchTwin, FetchFails,
                                          SendToClient, SendFails, HandleDesired
  <2> QED BY <2>1, <2>2, <2>3, <2>4, MoveBase, Zenon
<1>7. CASE Report
  BY <1>0, <1>7, FrameBase DEF Report, NoTwin
<1>8. CASE InitSyncToCloud
  BY <1>0, <1>8, FrameBase DEF InitSyncToCloud
<1>9. ASSUME NEW p \in Properties, StorePatch(p) PROVE Base'
  <2>1. patch' \in Values /\ wrote' \in Values
    BY <1>0, <1>9, NewType, MergeType, Zenon DEF StorePatch
  <2> QED BY <1>0, <1>9, <2>1, FrameBase, Zenon DEF StorePatch
<1>10. CASE Snapshot
  <2>1. loop' \in Loop
    BY <1>10, Zenon DEF Snapshot, Loop, SyncSteps
  <2>2. Callbacks'
    BY <1>10, Zenon DEF Snapshot, Base, Callbacks
  <2> QED BY <1>10, <2>1, <2>2, Zenon DEF Snapshot, Base, Typed
<1>11. CASE Wait
  <2>1. loop' \in Loop
    BY <1>11, Zenon DEF Wait, Loop
  <2>2. permits' \in Nat
    BY <1>0, <1>11 DEF Wait
  <2>3. Callbacks'
    BY <1>11, Zenon DEF Wait, Base, Callbacks
  <2> QED BY <1>11, <2>1, <2>2, <2>3, Zenon DEF Wait, Base, Typed
<1>12. ASSUME NEW s \in Syncers, SyncStep(s) PROVE Base'
  <2>1. \E p \in SyncSteps \cup {"done"} : SyncGoto(s, p)
    BY <1>12, Zenon DEF SyncStep, CheckPatch, TakeLock, UpdateCloud, UpdateCloudFails, ClearPatch, SyncSteps
  <2>2. At(s) \in SyncSteps
    BY <1>12, Zenon DEF SyncStep, CheckPatch, TakeLock, UpdateCloud, UpdateCloudFails, ClearPatch, SyncSteps
  <2>3. task' \in [Tasks -> Handlers] /\ loop' \in Loop /\ Callbacks'
    BY <2>1, <2>2, SyncMoves, Zenon
  <2>4. lock' \in Syncers \cup {"free"}
    BY <1>12, Zenon DEF SyncStep, CheckPatch, TakeLock, UpdateCloud, UpdateCloudFails, ClearPatch, Base, Typed
  <2>5. reported' \in Values /\ patch' \in Values
    BY <1>0, <1>12, MergeType, NoPropertiesType, Zenon
       DEF SyncStep, CheckPatch, TakeLock, UpdateCloud, UpdateCloudFails, ClearPatch
  <2>6. UNCHANGED <<desired, updates, twin, wrote, reports, permits, session>>
    BY <1>12, Zenon DEF SyncStep, CheckPatch, TakeLock, UpdateCloud, UpdateCloudFails, ClearPatch
  <2> QED BY <1>0, <2>3, <2>4, <2>5, <2>6, Zenon DEF Base, Typed
<1>13. CASE Restart
  <2>1. task' \in [Tasks -> Handlers] /\ Callbacks'
    BY <1>13, IdleType, Zenon DEF Restart, Callbacks, SyncSteps
  <2>2. loop' \in Loop /\ lock' \in Syncers \cup {"free"}
    BY <1>13, Zenon DEF Restart, Loop
  <2> QED BY <1>0, <1>13, <2>1, <2>2, Zenon DEF Restart, Base, Typed
<1>14. CASE UNCHANGED tvars
  BY <1>0, <1>14, FrameBase, Zenon DEF tvars
<1> QED BY <1>1, <1>2, <1>3, <1>4, <1>5, <1>6, <1>7, <1>8, <1>9, <1>10, <1>11, <1>12, <1>13, <1>14, Zenon
        DEF TNext
-----------------------------------------------------------------------------
(* Reported properties.                                                    *)

(* Who sends the patch or clears it holds the lock.                        *)
Locked == \A s \in Syncers : At(s) \in {"update", "clear"} => lock = s

(* What is about to be cleared is with the cloud.                          *)
Sent == \A s \in Syncers : At(s) = "clear" => Merge(reported, patch) = reported

(* As long as nobody gave up, somebody has yet to send a patch that is not *)
(* empty: the report is to signal, the loop will see the signal, or a run  *)
(* of SyncToCloud has not cleared the patch yet.                           *)
Watched ==
  ~gaveUp /\ patch # NoProperties =>
    \/ report = "signal"
    \/ toSync /\ (loop = "snapshot" \/ permits > 0)
    \/ \E s \in Syncers : At(s) \in SyncSteps

ReportInv == Base /\ Locked /\ Sent /\ Watched /\ Merge(reported, patch) = wrote

(* Only one holds the lock.                                                *)
LEMMA OneSends ==
  ASSUME Locked, NEW s \in Syncers, NEW u \in Syncers,
         At(s) \in {"update", "clear"}, At(u) \in {"update", "clear"}
  PROVE  s = u
  BY Zenon DEF Locked

(* Steps that leave the reported properties alone and start at most a new  *)
(* run of SyncToCloud.                                                     *)
LEMMA QuietReports ==
  ASSUME ReportInv, Base',
         UNCHANGED <<reported, patch, wrote, lock, loop, toSync, permits, gaveUp>>,
         report = "signal" => report' = "signal",
         \A s \in Syncers : At(s)' = At(s) \/ (At(s) \notin SyncSteps /\ At(s)' \notin {"update", "clear"})
  PROVE  ReportInv'
<1>1. Locked' /\ Sent'
  BY Zenon DEF ReportInv, Locked, Sent, Syncers
<1>2. Watched'
  BY Zenon DEF ReportInv, Watched, SyncSteps, Syncers
<1> QED BY <1>1, <1>2, Zenon DEF ReportInv

(* A handler of desired properties is never in SyncToCloud.                *)
LEMMA HandlerReports ==
  ASSUME ReportInv, Base', NEW t \in Tasks, NEW r, Moves(t, r),
         r.pc \notin {"update", "clear"}, task[t].pc \notin SyncSteps,
         UNCHANGED <<reported, patch, wrote, lock, loop, toSync, permits, gaveUp, report>>
  PROVE  ReportInv'
<1>1. \A u \in Tasks : At(u)' = IF u = t THEN r.pc ELSE At(u)
  BY AtTask, Zenon DEF Moves, ReportInv, Base, Typed
<1>2. At("loop")' = At("loop") /\ At(t) \notin SyncSteps
  BY AtLoop, AtTask, Zenon
<1>3. \A s \in Syncers : At(s)' = At(s) \/ (At(s) \notin SyncSteps /\ At(s)' \notin {"update", "clear"})
  BY <1>1, <1>2, Zenon DEF Syncers
<1> QED BY <1>3, QuietReports, Zenon

(* No report was made yet.                                                 *)
LEMMA ReportInit == TInit => ReportInv
<1> SUFFICES ASSUME TInit PROVE ReportInv
  BY Zenon
<1>1. \A s \in Syncers : At(s) \in {"idle", "snapshot"}
  BY Zenon DEF TInit, At, Syncers, Idle, Handler
<1>2. Locked /\ Sent
  BY <1>1, Zenon DEF Locked, Sent
<1>3. Watched
  BY Zenon DEF TInit, Watched
<1>4. Merge(reported, patch) = wrote
  BY NoPropertiesType, MergeNothing, Zenon DEF TInit
<1> QED BY <1>2, <1>3, <1>4, BaseInit, Zenon DEF ReportInv

(* A run of SyncToCloud.                                                   *)
LEMMA SyncReports ==
  ASSUME ReportInv, Base', NEW s \in Syncers, SyncStep(s)
  PROVE  ReportInv'
<1> USE DEF cloud, syncing, reporting, client
<1>0. Base /\ reported \in Values /\ patch \in Values /\ NoProperties \in Values
  BY NoPropertiesType, Zenon DEF ReportInv, Base, Typed
<1>1. report' = report /\ toSync' = toSync /\ permits' = permits /\ wrote' = wrote
  BY Zenon DEF SyncStep, CheckPatch, TakeLock, UpdateCloud, UpdateCloudFails, ClearPatch
<1>2. \A p \in SyncSteps \cup {"done"} : SyncGoto(s, p) /\ At(s) \in SyncSteps =>
        /\ At(s)' = IF p = "done" THEN IF s = "loop" THEN "wait" ELSE "desired" ELSE p
        /\ \A u \in Syncers \ {s} : At(u)' = At(u)
  BY <1>0, SyncMoves, Zenon
<1>3. \A u \in Syncers : u \in Syncers'
  BY Zenon DEF Syncers
<1>4. CASE CheckPatch(s)
  <2> DEFINE p == IF patch = NoProperties THEN "done" ELSE "lock"
  <2>1. SyncGoto(s, p) /\ At(s) = "check" /\ UNCHANGED <<reported, patch, lock, gaveUp>>
    BY <1>4, Zenon DEF CheckPatch
  <2>2. At(s)' = (IF p = "done" THEN IF s = "loop" THEN "wait" ELSE "desired" ELSE p)
        /\ \A u \in Syncers \ {s} : At(u)' = At(u)
    BY <1>2, <2>1, Zenon DEF SyncSteps
  <2>3. Locked' /\ Sent'
    BY <2>1, <2>2, Zenon DEF ReportInv, Locked, Sent, Syncers
  <2>4. Watched'
    <3>1. CASE patch = NoProperties
      BY <2>1, <3>1, Zenon DEF Watched
    <3>2. CASE patch # NoProperties
      BY <2>2, <3>2, Zenon DEF Watched, SyncSteps, Syncers
    <3> QED BY <3>1, <3>2, Zenon
  <2> QED BY <1>1, <2>1, <2>3, <2>4, Zenon DEF ReportInv
<1>5. CASE TakeLock(s)
  <2>1. At(s) = "lock" /\ lock = "free" /\ UNCHANGED <<reported, patch, gaveUp>>
    BY <1>5, Zenon DEF TakeLock
  <2>2. \A u \in Syncers : At(u) \notin {"update", "clear"}
    BY <2>1, TwinAssumption, Zenon DEF ReportInv, Locked, Syncers
  <2>3. CASE patch = NoProperties
    <3>1. SyncGoto(s, "done") /\ lock' = lock
      BY <1>5, <2>3, Zenon DEF TakeLock
    <3>2. At(s)' \notin {"update", "clear"} /\ \A u \in Syncers \ {s} : At(u)' = At(u)
      BY <1>2, <2>1, <3>1, Zenon DEF SyncSteps
    <3>3. Locked' /\ Sent' /\ Watched'
      BY <2>1, <2>2, <2>3, <3>2, Zenon DEF Locked, Sent, Watched, Syncers
    <3> QED BY <1>1, <2>1, <3>3, Zenon DEF ReportInv
  <2>4. CASE patch # NoProperties
    <3>1. SyncGoto(s, "update") /\ lock' = s
      BY <1>5, <2>4, Zenon DEF TakeLock
    <3>2. At(s)' = "update" /\ \A u \in Syncers \ {s} : At(u)' = At(u)
      BY <1>2, <2>1, <3>1, Zenon DEF SyncSteps
    <3>3. Locked' /\ Sent' /\ Watched'
      BY <2>2, <3>1, <3>2, Zenon DEF Locked, Sent, Watched, Syncers, SyncSteps
    <3> QED BY <1>1, <2>1, <3>3, Zenon DEF ReportInv
  <2> QED BY <2>3, <2>4, Zenon
<1>6. CASE UpdateCloud(s)
  <2>1. /\ At(s) = "update" /\ SyncGoto(s, "clear") /\ reported' = Merge(reported, patch)
        /\ UNCHANGED <<patch, lock, gaveUp>>
    BY <1>6, Zenon DEF UpdateCloud
  <2>2. At(s)' = "clear" /\ \A u \in Syncers \ {s} : At(u)' = At(u)
    BY <1>2, <2>1, Zenon DEF SyncSteps
  <2>3. Merge(reported', patch') = reported'
    BY <1>0, <2>1, MergeTwice, Zenon
  <2>4. Locked' /\ Sent' /\ Watched'
    BY <2>1, <2>2, <2>3, Zenon DEF ReportInv, Locked, Sent, Watched, Syncers, SyncSteps
  <2>5. Merge(reported', patch') = wrote
    BY <2>1, <2>3, Zenon DEF ReportInv
  <2> QED BY <1>1, <2>4, <2>5, Zenon DEF ReportInv
<1>7. CASE UpdateCloudFails(s)
  <2>1. /\ At(s) = "update" /\ SyncGoto(s, "done") /\ reported' \in {reported, Merge(reported, patch)}
        /\ patch' = patch /\ lock' = "free" /\ gaveUp' = TRUE
    BY <1>7, Zenon DEF UpdateCloudFails
  <2>2. At(s)' \notin {"update", "clear"} /\ \A u \in Syncers \ {s} : At(u)' = At(u)
    BY <1>2, <2>1, Zenon DEF SyncSteps
  <2>3. \A u \in Syncers \ {s} : At(u) \notin {"update", "clear"}
    BY <2>1, OneSends, Zenon DEF ReportInv
  <2>4. Locked' /\ Sent' /\ Watched'
    BY <2>1, <2>2, <2>3, Zenon DEF Locked, Sent, Watched, Syncers
  <2>5. Merge(reported', patch') = wrote
    BY <1>0, <2>1, MergeTwice, Zenon DEF ReportInv
  <2> QED BY <1>1, <2>4, <2>5, Zenon DEF ReportInv
<1>8. CASE ClearPatch(s)
  <2>1. /\ At(s) = "clear" /\ SyncGoto(s, "done") /\ reported' = reported
        /\ patch' = NoProperties /\ lock' = "free"
    BY <1>8, Zenon DEF ClearPatch
  <2>2. At(s)' \notin {"update", "clear"} /\ \A u \in Syncers \ {s} : At(u)' = At(u)
    BY <1>2, <2>1, Zenon DEF SyncSteps
  <2>3. \A u \in Syncers \ {s} : At(u) \notin {"update", "clear"}
    BY <2>1, OneSends, Zenon DEF ReportInv
  <2>4. Locked' /\ Sent' /\ Watched'
    BY <2>1, <2>2, <2>3, Zenon DEF Locked, Sent, Watched, Syncers, NoProperties
  <2>5. Merge(reported', patch') = wrote
    BY <1>0, <2>1, MergeNothing, Zenon DEF ReportInv, Sent
  <2> QED BY <1>1, <2>4, <2>5, Zenon DEF ReportInv
<1> QED BY <1>4, <1>5, <1>6, <1>7, <1>8, Zenon DEF SyncStep

(* Every step keeps what was reported.                                     *)
LEMMA ReportNext == ReportInv /\ [TNext]_tvars => ReportInv'
<1> SUFFICES ASSUME ReportInv, [TNext]_tvars PROVE ReportInv'
  BY Zenon
<1> USE DEF cloud, syncing, reporting, client
<1>0. Base /\ Base'
  BY BaseNext, Zenon DEF ReportInv
<1>1. ASSUME task' = task, loop' = loop PROVE \A s \in Syncers : At(s)' = At(s)
  BY <1>1, Zenon DEF At
<1>2. CASE Change \/ Leave \/ ClientConnects \/ ClientLeaves
  BY <1>0, <1>1, <1>2, QuietReports, Zenon DEF Change, Leave, ClientConnects, ClientLeaves
<1>3. CASE Return
  <2>1. CASE task' = task
    BY <1>0, <1>1, <1>3, <2>1, QuietReports, Zenon DEF Return
  <2>2. ASSUME NEW t \in Tasks, task[t].pc = "idle", Moves(t, Handler("callback", "check", 0, 0, 0))
        PROVE  ReportInv'
    BY <1>0, <1>3, <2>2, HandlerReports, Zenon DEF Return, Handler, SyncSteps
  <2> QED BY <1>0, <1>3, <2>1, <2>2, ReturnMoves, Zenon
<1>4. ASSUME NEW t \in Tasks, GetTwin(t) \/ UpdateDesired(t) \/ TaskStep(t) PROVE ReportInv'
  <2>1. PICK r \in Handlers : Moves(t, r) /\ r.pc \notin SyncSteps \cup {"desired"} /\ task[t].pc \notin SyncSteps
    BY <1>0, <1>4, DesiredMoves, Zenon
  <2>2. UNCHANGED <<reported, patch, wrote, lock, loop, toSync, permits, gaveUp, report>>
    BY <1>4, Zenon DEF GetTwin, UpdateDesired, TaskStep, WritePatch, FetchTwin, FetchFails, StoreTwin,
                SendToClient, SendFails, HandleDesired
  <2>3. r.pc \notin {"update", "clear"}
    BY <2>1, Zenon DEF SyncSteps
  <2> QED BY <1>0, <2>1, <2>2, <2>3, HandlerReports, Zenon
<1>5. CASE Report
  BY <1>0, <1>1, <1>5, QuietReports, Zenon DEF Report
<1>6. ASSUME NEW p \in Properties, StorePatch(p) PROVE ReportInv'
  <2> DEFINE new == [NoProperties EXCEPT ![p] = reports]
  <2>1. /\ lock = "free" /\ patch' = Merge(patch, new) /\ wrote' = Merge(wrote, new)
        /\ report' = "signal" /\ UNCHANGED <<reported, task, loop, lock>>
    BY <1>6, Zenon DEF StorePatch
  <2>2. new \in Values /\ reported \in Values /\ patch \in Values
    BY <1>0, NewType, Zenon DEF Base, Typed
  <2> HIDE DEF new
  <2>3. \A s \in Syncers : At(s)' = At(s)
    BY <1>1, <2>1, Zenon
  <2>4. \A s \in Syncers : At(s) \notin {"update", "clear"}
    BY <2>1, TwinAssumption, Zenon DEF ReportInv, Locked, Syncers
  <2>5. Locked' /\ Sent' /\ Watched'
    BY <2>1, <2>3, <2>4, Zenon DEF Locked, Sent, Watched, Syncers
  <2>6. Merge(reported', patch') = wrote'
    BY <2>1, <2>2, MergeAssoc, Zenon DEF ReportInv
  <2> QED BY <1>0, <2>5, <2>6, Zenon DEF ReportInv
<1>7. CASE InitSyncToCloud
  <2>1. toSync' = TRUE /\ permits' > 0 /\ UNCHANGED <<reported, patch, wrote, lock, task, loop>>
    BY <1>0, <1>7 DEF InitSyncToCloud, Base, Typed
  <2>2. \A s \in Syncers : At(s)' = At(s)
    BY <1>1, <2>1, Zenon
  <2>3. Locked' /\ Sent' /\ Watched'
    BY <2>1, <2>2, Zenon DEF ReportInv, Locked, Sent, Watched, Syncers
  <2> QED BY <1>0, <2>1, <2>3, Zenon DEF ReportInv
<1>8. CASE Snapshot
  <2>1. /\ loop = "snapshot" /\ loop' = IF toSync THEN "check" ELSE "wait"
        /\ UNCHANGED <<reported, patch, wrote, lock, task, gaveUp, report, permits>>
    BY <1>8, Zenon DEF Snapshot
  <2>2. \A t \in Tasks : At(t)' = At(t)
    BY <2>1, AtTask, Zenon
  <2>3. At("loop") = "snapshot" /\ At("loop")' = IF toSync THEN "check" ELSE "wait"
    BY <2>1, AtLoop, Zenon
  <2>4. Locked' /\ Sent'
    BY <2>1, <2>2, <2>3, Zenon DEF ReportInv, Locked, Sent, Syncers
  <2>5. Watched'
    BY <2>1, <2>2, <2>3, Zenon DEF ReportInv, Watched, Syncers, SyncSteps
  <2> QED BY <1>0, <2>1, <2>4, <2>5, Zenon DEF ReportInv
<1>9. CASE Wait
  <2>1. /\ loop = "wait" /\ loop' = "snapshot"
        /\ UNCHANGED <<reported, patch, wrote, lock, task, gaveUp, report, toSync>>
    BY <1>9, Zenon DEF Wait
  <2>2. \A t \in Tasks : At(t)' = At(t)
    BY <2>1, AtTask, Zenon
  <2>3. At("loop") = "wait" /\ At("loop")' = "snapshot"
    BY <2>1, AtLoop, Zenon
  <2>4. Locked' /\ Sent'
    BY <2>1, <2>2, <2>3, Zenon DEF ReportInv, Locked, Sent, Syncers
  <2>5. Watched'
    BY <2>1, <2>2, <2>3, Zenon DEF ReportInv, Watched, Syncers, SyncSteps
  <2> QED BY <1>0, <2>1, <2>4, <2>5, Zenon DEF ReportInv
<1>10. ASSUME NEW s \in Syncers, SyncStep(s) PROVE ReportInv'
  BY <1>0, <1>10, SyncReports, Zenon
<1>11. CASE Restart
  <2>1. \A s \in Syncers : At(s)' \in {"idle", "snapshot"}
    BY <1>11, Zenon DEF Restart, At, Syncers, Idle, Handler
  <2>2. gaveUp' = TRUE /\ UNCHANGED <<reported, patch, wrote>>
    BY <1>11, Zenon DEF Restart
  <2>3. Locked' /\ Sent' /\ Watched'
    BY <2>1, <2>2, Zenon DEF Locked, Sent, Watched, Syncers
  <2> QED BY <1>0, <2>2, <2>3, Zenon DEF ReportInv
<1>12. CASE UNCHANGED tvars
  BY <1>0, <1>1, <1>12, QuietReports, Zenon DEF tvars
<1> QED BY <1>2, <1>3, <1>4, <1>5, <1>6, <1>7, <1>8, <1>9, <1>10, <1>11, <1>12, Zenon DEF TNext

(* No report is lost: it is merged on disk before it is signalled, cleared *)
(* only under the lock under which it was sent, and while nobody gave up   *)
(* there is always someone who has yet to send it, whatever restarts,      *)
(* outages, reports and reconnections come between (UpdateReportedProperty *)
(* and SyncToCloud of ReportedPropertiesStore).                            *)
THEOREM ReportsStayKept == TSpec => []ReportsKept
<1>1. ReportInv => ReportsKept
  <2> SUFFICES ASSUME ReportInv PROVE ReportsKept
    BY Zenon
  <2>1. DOMAIN task = Tasks
    BY Zenon DEF ReportInv, Base, Typed
  <2>2. ASSUME Quiet PROVE \A s \in Syncers : At(s) \notin SyncSteps
    <3>1. \A t \in Tasks : task[t].pc \notin SyncSteps
      BY <2>1, <2>2, Zenon DEF Quiet, ReportInv, Base, Callbacks
    <3>2. loop \notin SyncSteps
      BY <2>2, Zenon DEF Quiet, SyncSteps
    <3> QED BY <3>1, <3>2, AtTask, AtLoop, Zenon DEF Syncers
  <2>3. Quiet /\ ~gaveUp => patch = NoProperties
    BY <2>2 DEF Quiet, ReportInv, Watched
  <2> QED BY <2>3, Zenon DEF ReportsKept, ReportInv
<1> QED BY <1>1, ReportInit, ReportNext, PTL DEF TSpec
-----------------------------------------------------------------------------
(* A handler is about to tell the client of change v.                      *)
Under(v) == \E t \in Tasks : task[t].pc = "send" /\ task[t].from < v /\ v <= task[t].got

(* The client was or is about to be told of all changes after lo that are  *)
(* in the stored twin.                                                     *)
ToldAfter(lo) == \A v \in Int : lo < v /\ v <= twin => v \in told \/ Under(v)

(* An answer to GetTwinAsync has all changes; the other handlers that      *)
(* fetch the twin have those since a twin that was in the store before.    *)
FromStored ==
  \A t \in Tasks :
    /\ task[t].session <= session
    /\ task[t].pc \in {"get", "store", "send"} /\ task[t].kind = "twin" => task[t].from = 0
    /\ task[t].pc \in {"get", "store"} /\ task[t].kind # "twin" => task[t].from <= twin
    /\ task[t].pc = "write" => task[t].kind = "patch" /\ task[t].from = task[t].got - 1

(* An answer on the client's connection, together with what the client has *)
(* been and will be told, has what is in the store.                        *)
Answers ==
  \A t \in Tasks :
    task[t].pc = "send" /\ task[t].kind = "twin" /\ task[t].session = session => ToldAfter(task[t].got)

DesiredInv ==
  /\ Base
  /\ current => connected
  /\ ~stale => FromStored /\ (connected => Answers) /\ (current => ToldAfter(0))

(* Changes that were told or under way stay so.                            *)
LEMMA ToldKept ==
  ASSUME NEW lo \in Int, ToldAfter(lo), twin \in Int, twin' \in Int,
         \A v \in Int : v <= twin /\ (v \in told \/ Under(v)) => v \in told' \/ Under(v)',
         \A v \in Int : twin < v /\ lo < v /\ v <= twin' => v \in told' \/ Under(v)'
  PROVE  ToldAfter(lo)'
  BY DEF ToldAfter

(* Nobody is connected at first.                                           *)
LEMMA DesiredInit == TInit => DesiredInv
<1> SUFFICES ASSUME TInit PROVE DesiredInv
  BY Zenon
<1>1. \A t \in Tasks : task[t] = Idle
  BY Zenon DEF TInit
<1>2. FromStored
  BY <1>1 DEF FromStored, TInit, Idle, Handler
<1>3. Answers
  BY <1>1 DEF Answers, Idle, Handler
<1> QED BY <1>2, <1>3, BaseInit, Zenon DEF DesiredInv, TInit

(* Steps that leave twin, client and the handlers' answers alone.          *)
LEMMA QuietDesired ==
  ASSUME DesiredInv, Base', UNCHANGED <<twin, told, stale, session>>,
         current' => current, connected' => connected, current' => connected',
         \A t \in Tasks : task'[t] = task[t]
  PROVE  DesiredInv'
<1>1. \A v \in Int : Under(v)' <=> Under(v)
  BY Zenon DEF Under
<1>2. \A lo \in Int : ToldAfter(lo) => ToldAfter(lo)'
  BY <1>1, Zenon DEF ToldAfter
<1>3. \A t \in Tasks : task[t].got \in Int
  BY DEF DesiredInv, Base, Typed, Handlers
<1>4. Answers => Answers'
  <2> SUFFICES ASSUME Answers, NEW t \in Tasks,
                      task'[t].pc = "send" /\ task'[t].kind = "twin" /\ task'[t].session = session'
               PROVE  ToldAfter(task[t].got)'
    BY Zenon DEF Answers
  <2>1. ToldAfter(task[t].got)
    BY Zenon DEF Answers
  <2>2. task'[t].got = task[t].got
    BY Zenon
  <2> QED BY <1>1, <2>1, <2>2, Zenon DEF ToldAfter
<1>5. FromStored => FromStored'
  BY Zenon DEF FromStored
<1> QED BY <1>2, <1>4, <1>5 DEF DesiredInv

(* The parts of the state of a handler.                                    *)
LEMMA HandlerFields ==
  ASSUME NEW k, NEW p, NEW f, NEW g, NEW n
  PROVE  /\ Handler(k, p, f, g, n).kind = k /\ Handler(k, p, f, g, n).pc = p
         /\ Handler(k, p, f, g, n).from = f /\ Handler(k, p, f, g, n).got = g
         /\ Handler(k, p, f, g, n).session = n
BY Zenon DEF Handler

(* A handler that is at no answer before or after its step.                *)
LEMMA MoveDesired ==
  ASSUME DesiredInv, Base', NEW t \in Tasks, NEW r, Moves(t, r), task[t].pc # "send", r.pc # "send",
         UNCHANGED <<twin, told, stale, session, current, connected>>,
         ~stale => /\ r.session <= session
                   /\ r.pc \in {"get", "store"} /\ r.kind = "twin" => r.from = 0
                   /\ r.pc \in {"get", "store"} /\ r.kind # "twin" => r.from <= twin
                   /\ r.pc = "write" => r.kind = "patch" /\ r.from = r.got - 1
  PROVE  DesiredInv'
<1>1. /\ \A u \in Tasks \ {t} : task'[u] = task[u]
      /\ task'[t] = r
  BY Zenon DEF Moves, DesiredInv, Base, Typed
<1>2. \A v \in Int : Under(v)' <=> Under(v)
  BY <1>1, Zenon DEF Under
<1>3. \A lo \in Int : ToldAfter(lo) => ToldAfter(lo)'
  BY <1>2, Zenon DEF ToldAfter
<1>4. Answers => Answers'
  <2> SUFFICES ASSUME Answers, NEW u \in Tasks,
                      task'[u].pc = "send" /\ task'[u].kind = "twin" /\ task'[u].session = session'
               PROVE  ToldAfter(task[u].got)'
    BY Zenon DEF Answers
  <2>1. u # t /\ task'[u] = task[u]
    BY <1>1, Zenon
  <2>2. ToldAfter(task[u].got)
    BY <2>1, Zenon DEF Answers
  <2> QED BY <1>2, <2>1, <2>2, Zenon DEF ToldAfter
<1>5. ~stale /\ FromStored => FromStored'
  BY <1>1, Zenon DEF FromStored
<1> QED BY <1>3, <1>4, <1>5 DEF DesiredInv

(* A handler comes to its answer, with a twin that it may have stored.     *)
LEMMA AnswerDesired ==
  ASSUME DesiredInv, Base', NEW t \in Tasks, NEW r, Moves(t, r), task[t].pc # "send", r.pc = "send",
         UNCHANGED <<told, session, current, connected>>,
         ~stale' => /\ ~stale /\ twin <= twin'
                    /\ r.session <= session
                    /\ r.kind = "twin" => r.from = 0 /\ twin' <= r.got
                    /\ \A v \in Int : 0 < v /\ twin < v /\ v <= twin' => r.from < v /\ v <= r.got
  PROVE  DesiredInv'
<1> SUFFICES ASSUME ~stale' PROVE DesiredInv'
  BY Zenon DEF DesiredInv
<1>0. FromStored /\ twin \in Int /\ twin' \in Int /\ r \in Handlers
  BY Zenon DEF DesiredInv, Base, Typed, Moves
<1>1. /\ \A u \in Tasks \ {t} : task'[u] = task[u]
      /\ task'[t] = r
  BY Zenon DEF Moves, DesiredInv, Base, Typed
<1>2. \A v \in Int : Under(v) => Under(v)'
  BY <1>1, Zenon DEF Under
<1>3. \A v \in Int : 0 < v /\ twin < v /\ v <= twin' => Under(v)'
  BY <1>1, Zenon DEF Under
<1>4. ASSUME NEW lo \in Nat, ToldAfter(lo) PROVE ToldAfter(lo)'
  <2>1. \A v \in Int : twin < v /\ lo < v /\ v <= twin' => Under(v)'
    BY <1>3
  <2> QED BY <1>0, <1>2, <1>4, <2>1, ToldKept
<1>5. ASSUME Answers PROVE Answers'
  <2> SUFFICES ASSUME NEW u \in Tasks,
                      task'[u].pc = "send" /\ task'[u].kind = "twin" /\ task'[u].session = session'
               PROVE  ToldAfter(task[u].got)'
    BY Zenon DEF Answers
  <2>1. CASE u = t
    <3>1. task'[u].got = r.got /\ r.kind = "twin" /\ twin' <= r.got /\ r.got \in Nat
      BY <1>0, <1>1, <2>1, Zenon DEF Handlers
    <3> QED BY <1>0, <3>1 DEF ToldAfter
  <2>2. CASE u # t
    <3>1. task'[u] = task[u] /\ task[u].got \in Nat
      BY <1>1, <2>2, Zenon DEF DesiredInv, Base, Typed, Handlers
    <3>2. PICK lo \in Nat : lo = task[u].got
      BY <3>1, Zenon
    <3>3. ToldAfter(lo)
      BY <1>5, <3>1, <3>2, Zenon DEF Answers
    <3>4. ToldAfter(lo)'
      BY <1>4, <3>3, Zenon
    <3> QED BY <3>1, <3>2, <3>4, Zenon DEF ToldAfter
  <2> QED BY <2>1, <2>2, Zenon
<1>6. FromStored'
  <2> SUFFICES ASSUME NEW u \in Tasks
               PROVE  /\ task'[u].session <= session'
                      /\ task'[u].pc \in {"get", "store", "send"} /\ task'[u].kind = "twin" => task'[u].from = 0
                      /\ task'[u].pc \in {"get", "store"} /\ task'[u].kind # "twin" => task'[u].from <= twin'
                      /\ task'[u].pc = "write" => task'[u].kind = "patch" /\ task'[u].from = task'[u].got - 1
    BY Zenon DEF FromStored
  <2>1. CASE u = t
    BY <1>1, <2>1, Zenon
  <2>2. CASE u # t
    <3>1. task'[u] = task[u] /\ task[u].from \in Int
      BY <1>1, <2>2, Zenon DEF DesiredInv, Base, Typed, Handlers
    <3> QED BY <1>0, <3>1 DEF FromStored
  <2> QED BY <2>1, <2>2, Zenon
<1> QED BY <1>4, <1>5, <1>6, Zenon DEF DesiredInv

(* SendPatchToDevice, or the answer to GetTwinAsync.                       *)
LEMMA SendDesired ==
  ASSUME DesiredInv, Base', NEW t \in Tasks, SendToClient(t)
  PROVE  DesiredInv'
<1> DEFINE answer == task[t].kind = "twin"
           heard == connected /\ (answer => task[t].session = session)
<1>1. /\ task[t].pc = "send"
      /\ told' = IF heard THEN told \cup (task[t].from + 1 .. task[t].got) ELSE told
      /\ current' = (current \/ (heard /\ answer))
      /\ stale' = (stale \/ (answer /\ ~heard))
      /\ Finish(t) /\ UNCHANGED <<twin, session, connected>>
  BY Zenon DEF SendToClient
<1>2. /\ \A u \in Tasks \ {t} : task'[u] = task[u]
      /\ task'[t] = Idle
  BY <1>1, Zenon DEF Finish, DesiredInv, Base, Typed
<1>3. current' => connected'
  BY <1>1, Zenon DEF DesiredInv
<1> SUFFICES ASSUME ~stale' PROVE DesiredInv'
  BY <1>3, Zenon DEF DesiredInv
<1>4. ~stale /\ (answer => heard)
  BY <1>1, Zenon
<1>5. twin \in Int /\ twin' \in Int /\ task[t].from \in Int /\ task[t].got \in Nat
  BY Zenon DEF DesiredInv, Base, Typed, Handlers
<1>6. ASSUME connected, NEW v \in Int, v \in told \/ Under(v) PROVE v \in told' \/ Under(v)'
  <2>1. heard
    BY <1>4, <1>6, Zenon
  <2>2. CASE v \in told
    BY <1>1, <2>2, Zenon
  <2>3. ASSUME NEW u \in Tasks, task[u].pc = "send" /\ task[u].from < v /\ v <= task[u].got
        PROVE  v \in told' \/ Under(v)'
    <3>1. CASE u = t
      <4>1. v \in task[t].from + 1 .. task[t].got
        BY <1>5, <2>3, <3>1
      <4> QED BY <1>1, <2>1, <4>1, Zenon
    <3>2. CASE u # t
      BY <1>2, <2>3, <3>2, Zenon DEF Under
    <3> QED BY <3>1, <3>2, Zenon
  <2> QED BY <1>6, <2>2, <2>3, Zenon DEF Under
<1>7. ASSUME connected, NEW lo \in Nat, ToldAfter(lo) PROVE ToldAfter(lo)'
  BY <1>1, <1>5, <1>6, <1>7, Zenon DEF ToldAfter
<1>8. ASSUME connected PROVE Answers'
  <2> SUFFICES ASSUME NEW u \in Tasks,
                      task'[u].pc = "send" /\ task'[u].kind = "twin" /\ task'[u].session = session'
               PROVE  ToldAfter(task[u].got)'
    BY Zenon DEF Answers
  <2>1. u # t
    BY <1>2 DEF Idle, Handler
  <2>2. task'[u] = task[u] /\ task[u].got \in Nat
    BY <1>2, <2>1, Zenon DEF DesiredInv, Base, Typed, Handlers
  <2>3. PICK lo \in Nat : lo = task[u].got
    BY <2>2, Zenon
  <2>4. ToldAfter(lo)
    BY <1>1, <1>4, <1>8, <2>2, <2>3, Zenon DEF DesiredInv, Answers
  <2>5. ToldAfter(lo)'
    BY <1>7, <1>8, <2>4, Zenon
  <2> QED BY <2>2, <2>3, <2>5, Zenon DEF ToldAfter
<1>9. ASSUME current' PROVE ToldAfter(0)'
  <2>1. CASE current
    BY <1>4, <1>7, <2>1, Zenon DEF DesiredInv
  <2>2. CASE heard /\ answer
    <3>1. PICK lo \in Nat : lo = task[t].got
      BY <1>5, Zenon
    <3>2. ToldAfter(lo)
      BY <1>1, <1>4, <2>2, <3>1, Zenon DEF DesiredInv, Answers
    <3>3. ToldAfter(lo)'
      BY <1>7, <2>2, <3>2, Zenon
    <3>4. task[t].from = 0
      BY <1>1, <1>4, <2>2, Zenon DEF DesiredInv, FromStored
    <3>5. \A v \in Int : 0 < v /\ v <= lo => v \in told'
      BY <1>1, <1>5, <2>2, <3>1, <3>4
    <3> QED BY <3>1, <3>3, <3>5 DEF ToldAfter
  <2> QED BY <1>1, <1>9, <2>1, <2>2, Zenon
<1>10. FromStored'
  BY <1>1, <1>2, <1>4 DEF DesiredInv, FromStored, Idle, Handler, Base, Typed
<1> QED BY <1>1, <1>3, <1>8, <1>9, <1>10, Zenon DEF DesiredInv

(* The steps of the handlers of desired properties.                        *)
LEMMA HandlersDesired ==
  ASSUME DesiredInv, Base', NEW t \in Tasks, GetTwin(t) \/ UpdateDesired(t) \/ TaskStep(t)
  PROVE  DesiredInv'
<1> USE DEF cloud, syncing, reporting, client
<1>0. Base /\ twin \in Int /\ session \in Nat /\ task[t] \in Handlers
  BY Zenon DEF DesiredInv, Base, Typed
<1>1. task[t].session \in Nat /\ task[t].from \in Int /\ task[t].got \in Nat
  BY <1>0, Zenon DEF Handlers
<1>2. CASE GetTwin(t)
  <2>1. Moves(t, Handler("twin", "get", 0, 0, session))
    BY <1>0, <1>2, GetTwinMoves, Zenon
  <2> QED BY <1>0, <1>2, <2>1, HandlerFields, MoveDesired DEF GetTwin
<1>3. CASE UpdateDesired(t)
  <2>1. task[t].pc # "send" /\ UNCHANGED <<twin, told, stale, session, current, connected>>
    BY <1>3, Zenon DEF UpdateDesired
  <2>2. CASE Moves(t, Handler("sync", "get", twin, 0, 0))
    BY <1>0, <2>1, <2>2, HandlerFields, MoveDesired
  <2>3. ASSUME NEW v \in Nat \ {0}, Moves(t, Handler("patch", "write", v - 1, v, 0)) PROVE DesiredInv'
    BY <1>0, <2>1, <2>3, HandlerFields, MoveDesired
  <2> QED BY <1>0, <1>3, <2>2, <2>3, UpdateMoves, Zenon
<1>4. CASE WritePatch(t)
  <2> DEFINE r == Handler(task[t].kind, "send", task[t].from, task[t].got, task[t].session)
  <2>1. Moves(t, r) /\ task[t].pc = "write"
    BY <1>0, <1>4, GotoState, Zenon DEF WritePatch, Steps
  <2>2. UNCHANGED <<told, session, current, connected, stale>>
    BY <1>4, Zenon DEF WritePatch
  <2>3. twin' = twin \/ (twin' = task[t].got /\ twin + 1 = task[t].got)
    BY <1>4, Zenon DEF WritePatch
  <2>4. r.pc = "send" /\ r.kind = task[t].kind /\ r.from = task[t].from /\ r.got = task[t].got
        /\ r.session = task[t].session
    BY Zenon DEF Handler
  <2> HIDE DEF r
  <2>5. ASSUME ~stale
        PROVE  /\ task[t].session <= session /\ task[t].kind = "patch"
               /\ task[t].from = task[t].got - 1
    BY <2>1, <2>5, Zenon DEF DesiredInv, FromStored
  <2>6. twin <= twin'
    BY <1>0, <1>1, <2>3
  <2>7. ASSUME ~stale, NEW v \in Int, 0 < v, twin < v, v <= twin' PROVE r.from < v /\ v <= r.got
    BY <1>0, <1>1, <2>3, <2>4, <2>5, <2>7
  <2> QED BY <2>1, <2>2, <2>4, <2>5, <2>6, <2>7, AnswerDesired, Zenon
<1>5. CASE FetchTwin(t)
  <2> DEFINE r == Handler(task[t].kind, "store", task[t].from, desired, task[t].session)
  <2>1. Moves(t, r) /\ task[t].pc = "get"
    BY <1>0, <1>5, FetchMoves, Zenon DEF FetchTwin
  <2>2. UNCHANGED <<twin, told, stale, session, current, connected>>
    BY <1>5, Zenon DEF FetchTwin
  <2>3. r.pc = "store" /\ r.kind = task[t].kind /\ r.from = task[t].from /\ r.session = task[t].session
    BY Zenon DEF Handler
  <2> HIDE DEF r
  <2>4. ~stale => /\ r.session <= session
                  /\ r.kind = "twin" => r.from = 0
                  /\ r.kind # "twin" => r.from <= twin
    BY <2>1, <2>3, Zenon DEF DesiredInv, FromStored
  <2> QED BY <2>1, <2>2, <2>3, <2>4, MoveDesired, Zenon
<1>6. CASE FetchFails(t)
  <2>1. task[t].pc = "get" /\ UNCHANGED <<twin, told, stale, session, current, connected>>
    BY <1>6, Zenon DEF FetchFails
  <2>2. CASE Moves(t, Idle)
    BY <1>0, <2>1, <2>2, HandlerFields, MoveDesired DEF Idle
  <2>3. ASSUME task[t].kind = "twin", NEW g \in Nat, g >= twin,
               Moves(t, Handler("twin", "send", task[t].from, g, task[t].session))
        PROVE  DesiredInv'
    <3> DEFINE r == Handler("twin", "send", task[t].from, g, task[t].session)
    <3>1. r.pc = "send" /\ r.kind = "twin" /\ r.from = task[t].from /\ r.got = g
          /\ r.session = task[t].session
      BY Zenon DEF Handler
    <3>2. Moves(t, r)
      BY <2>3, Zenon
    <3> HIDE DEF r
    <3>3. ~stale => task[t].session <= session /\ task[t].from = 0
      BY <2>1, <2>3, Zenon DEF DesiredInv, FromStored
    <3>4. \A v \in Int : twin < v /\ v <= twin' => r.from < v /\ v <= r.got
      BY <1>0, <2>1
    <3>5. twin <= twin' /\ twin' <= r.got
      BY <1>0, <2>1, <2>3, <3>1
    <3> QED BY <2>1, <3>1, <3>2, <3>3, <3>4, <3>5, AnswerDesired, Zenon
  <2> QED BY <1>0, <1>6, <2>2, <2>3, FailsMoves, Zenon
<1>7. CASE StoreTwin(t)
  <2> DEFINE r == Handler(task[t].kind, "send", task[t].from, task[t].got, task[t].session)
  <2>1. Moves(t, r) /\ task[t].pc = "store"
    BY <1>0, <1>7, GotoState, Zenon DEF StoreTwin, Steps
  <2>2. /\ UNCHANGED <<told, session, current, connected>>
        /\ twin' = task[t].got /\ stale' = (stale \/ task[t].got < twin)
    BY <1>7, Zenon DEF StoreTwin
  <2>3. r.pc = "send" /\ r.kind = task[t].kind /\ r.from = task[t].from /\ r.got = task[t].got
        /\ r.session = task[t].session
    BY Zenon DEF Handler
  <2> HIDE DEF r
  <2>4. ASSUME ~stale'
        PROVE  /\ ~stale /\ twin <= twin' /\ r.session <= session
               /\ r.kind = "twin" => r.from = 0
               /\ r.kind # "twin" => r.from <= twin
    <3>1. ~stale /\ ~(task[t].got < twin)
      BY <2>2, <2>4, Zenon
    <3>2. twin <= twin'
      BY <1>0, <1>1, <2>2, <3>1
    <3>3. FromStored
      BY <3>1, Zenon DEF DesiredInv
    <3> QED BY <2>1, <2>3, <3>1, <3>2, <3>3, Zenon DEF FromStored
  <2>5. ASSUME ~stale', NEW v \in Int, 0 < v, twin < v, v <= twin' PROVE r.from < v /\ v <= r.got
    BY <1>0, <1>1, <2>2, <2>3, <2>4, <2>5
  <2>6. twin' <= r.got
    BY <1>1, <2>2, <2>3
  <2> QED BY <2>1, <2>2, <2>3, <2>4, <2>5, <2>6, AnswerDesired, Zenon
<1>8. CASE SendToClient(t)
  BY <1>8, SendDesired, Zenon
<1>9. CASE HandleDesired(t)
  <2>1. task[t].pc = "desired" /\ UNCHANGED <<twin, told, stale, session, current, connected>>
    BY <1>9, Zenon DEF HandleDesired
  <2>2. CASE Moves(t, Idle)
    BY <1>0, <2>1, <2>2, HandlerFields, MoveDesired DEF Idle
  <2>3. CASE Moves(t, Handler("callback", "get", twin, task[t].got, task[t].session))
    <3>1. ~stale => task[t].session <= session
      BY Zenon DEF DesiredInv, FromStored
    <3> QED BY <1>0, <2>1, <2>3, <3>1, HandlerFields, MoveDesired
  <2> QED BY <1>0, <1>9, <2>2, <2>3, HandleMoves, Zenon
<1>10. CASE SendFails(t)
  <2>1. stale' /\ UNCHANGED <<current, connected>>
    BY <1>10, Zenon DEF SendFails
  <2> QED BY <2>1, Zenon DEF DesiredInv
<1> QED BY <1>2, <1>3, <1>4, <1>5, <1>6, <1>7, <1>8, <1>9, <1>10, Zenon DEF TaskStep

(* Every step keeps what the client was told complete.                     *)
LEMMA DesiredNext == DesiredInv /\ [TNext]_tvars => DesiredInv'
<1> SUFFICES ASSUME DesiredInv, [TNext]_tvars PROVE DesiredInv'
  BY Zenon
<1> USE DEF cloud, syncing, reporting, client
<1>0. Base /\ Base' /\ twin \in Int /\ session \in Nat
  BY BaseNext, Zenon DEF DesiredInv, Base, Typed
<1>1. CASE Change \/ Leave
  BY <1>0, <1>1, QuietDesired DEF Change, Leave, DesiredInv
<1>2. CASE Return
  <2>1. UNCHANGED <<twin, told, stale, session, current, connected>>
    BY <1>2, Zenon DEF Return
  <2>2. CASE task' = task
    BY <1>0, <2>1, <2>2, QuietDesired, Zenon DEF DesiredInv
  <2>3. ASSUME NEW t \in Tasks, task[t].pc = "idle", Moves(t, Handler("callback", "check", 0, 0, 0))
        PROVE  DesiredInv'
    BY <1>0, <2>1, <2>3, HandlerFields, MoveDesired
  <2> QED BY <1>0, <1>2, <2>2, <2>3, ReturnMoves, Zenon
<1>3. CASE ClientConnects
  <2>1. session' = session + 1 /\ current' = FALSE /\ UNCHANGED <<task, twin, stale>>
    BY <1>3, Zenon DEF ClientConnects
  <2>2. \A t \in Tasks : task[t].session \in Nat
    BY <1>0, Zenon DEF Base, Typed, Handlers
  <2>3. FromStored => FromStored'
    BY <1>0, <2>1, <2>2 DEF FromStored
  <2>4. FromStored => Answers'
    BY <1>0, <2>1, <2>2 DEF FromStored, Answers
  <2> QED BY <1>0, <2>1, <2>3, <2>4, Zenon DEF DesiredInv
<1>4. CASE ClientLeaves
  BY <1>0, <1>4, QuietDesired, Zenon DEF ClientLeaves
<1>5. ASSUME NEW t \in Tasks, GetTwin(t) \/ UpdateDesired(t) \/ TaskStep(t) PROVE DesiredInv'
  BY <1>0, <1>5, HandlersDesired, Zenon
<1>6. CASE Report
  <2>1. /\ twin' = (IF twin = NoTwin THEN 0 ELSE twin)
        /\ UNCHANGED <<task, told, stale, session, current, connected>>
    BY <1>6, Zenon DEF Report
  <2>2. twin' \in Int /\ twin <= twin' /\ \A v \in Int : 0 < v /\ v <= twin' => v <= twin
    BY <1>0, <2>1 DEF NoTwin
  <2>3. \A v \in Int : Under(v)' <=> Under(v)
    BY <2>1, Zenon DEF Under
  <2>4. \A lo \in Nat : ToldAfter(lo) => ToldAfter(lo)'
    BY <2>1, <2>2, <2>3 DEF ToldAfter
  <2>5. Answers => Answers'
    <3> SUFFICES ASSUME Answers, NEW t \in Tasks,
                        task'[t].pc = "send" /\ task'[t].kind = "twin" /\ task'[t].session = session'
                 PROVE  ToldAfter(task[t].got)'
      BY Zenon DEF Answers
    <3>1. PICK lo \in Nat : lo = task[t].got
      BY <1>0, Zenon DEF Base, Typed, Handlers
    <3>2. ToldAfter(lo)
      BY <2>1, <3>1, Zenon DEF Answers
    <3> QED BY <2>1, <2>4, <3>1, <3>2, Zenon DEF ToldAfter
  <2>6. FromStored => FromStored'
    <3> SUFFICES ASSUME FromStored, NEW t \in Tasks
                 PROVE  task[t].from <= twin => task[t].from <= twin'
      BY <2>1, Zenon DEF FromStored
    <3>1. task[t].from \in Int
      BY <1>0, Zenon DEF Base, Typed, Handlers
    <3> QED BY <1>0, <2>2, <3>1
  <2> QED BY <1>0, <2>1, <2>4, <2>5, <2>6, Zenon DEF DesiredInv
<1>7. CASE InitSyncToCloud \/ Snapshot \/ Wait
  BY <1>0, <1>7, QuietDesired DEF InitSyncToCloud, Snapshot, Wait, DesiredInv
<1>8. ASSUME NEW p \in Properties, StorePatch(p) PROVE DesiredInv'
  BY <1>0, <1>8, QuietDesired, Zenon DEF StorePatch, DesiredInv
<1>9. ASSUME NEW s \in Syncers, SyncStep(s) PROVE DesiredInv'
  <2>1. UNCHANGED <<twin, told, stale, session, current, connected>>
    BY <1>9, Zenon DEF SyncStep, CheckPatch, TakeLock, UpdateCloud, UpdateCloudFails, ClearPatch
  <2>2. \E p \in SyncSteps \cup {"done"} : SyncGoto(s, p)
    BY <1>9, Zenon DEF SyncStep, CheckPatch, TakeLock, UpdateCloud, UpdateCloudFails, ClearPatch, SyncSteps
  <2>3. At(s) \in SyncSteps
    BY <1>9, Zenon DEF SyncStep, CheckPatch, TakeLock, UpdateCloud, UpdateCloudFails, ClearPatch, SyncSteps
  <2>4. CASE s = "loop"
    <3>1. task' = task
      BY <1>0, <2>2, <2>3, <2>4, SyncMoves, Zenon
    <3> QED BY <1>0, <2>1, <3>1, QuietDesired, Zenon DEF DesiredInv
  <2>5. CASE s # "loop"
    <3>1. PICK q \in {"lock", "update", "clear", "check", "desired"} : Goto(s, q)
      BY <1>0, <2>2, <2>3, <2>5, SyncMoves, Zenon
    <3>2. s \in Tasks /\ task[s].pc \in SyncSteps /\ q \in Steps
      BY <1>0, <2>2, <2>3, <2>5, SyncMoves, Zenon DEF Syncers, Steps, SyncSteps
    <3> DEFINE r == Handler(task[s].kind, q, task[s].from, task[s].got, task[s].session)
    <3>3. Moves(s, r)
      BY <1>0, <3>1, <3>2, GotoState, Zenon
    <3>4. r.pc = q /\ r.session = task[s].session
      BY Zenon DEF Handler
    <3> HIDE DEF r
    <3>5. ~stale => r.session <= session
      BY <3>2, <3>4, Zenon DEF DesiredInv, FromStored
    <3>6. task[s].pc # "send"
      BY <3>2, Zenon DEF SyncSteps
    <3>7. r.pc \notin {"send", "get", "store", "write"}
      BY <3>1, <3>4, Zenon
    <3> QED BY <1>0, <2>1, <3>2, <3>3, <3>5, <3>6, <3>7, MoveDesired, Zenon
  <2> QED BY <2>4, <2>5, Zenon
<1>10. CASE Restart
  <2>1. /\ task' = [t \in Tasks |-> Idle] /\ connected' = FALSE /\ current' = FALSE
        /\ UNCHANGED <<twin, session, stale>>
    BY <1>10, Zenon DEF Restart
  <2>2. FromStored'
    BY <1>0, <2>1 DEF FromStored, Idle, Handler
  <2> QED BY <1>0, <2>1, <2>2, Zenon DEF DesiredInv
<1>11. CASE UNCHANGED tvars
  BY <1>0, <1>11, QuietDesired, Zenon DEF tvars, DesiredInv
<1> QED BY <1>1, <1>2, <1>3, <1>4, <1>5, <1>6, <1>7, <1>8, <1>9, <1>10, <1>11, Zenon DEF TNext

(* A client that got its twin on a connection is told of every change that *)
(* the hub stores: an update that arrives while a twin is fetched, or that *)
(* skips a version, is followed by what it lacks                           *)
(* (UpdateDesiredPropertiesAsync, SyncTwinAndSendDesiredPropertyUpdates    *)
(* and GetTwinAsync of StoringTwinManager).                                *)
THEOREM DesiredStaysTold == TSpec => []DesiredTold
<1>1. DesiredInv => DesiredTold
  <2> SUFFICES ASSUME DesiredInv, current /\ ~stale, \A t \in DOMAIN task : task[t].pc = "idle"
               PROVE  1 .. twin \subseteq told
    BY Zenon DEF DesiredTold
  <2>1. \A v \in Int : ~Under(v)
    BY Zenon DEF Under, DesiredInv, Base, Typed
  <2>2. ToldAfter(0) /\ twin \in Int
    BY Zenon DEF DesiredInv, Base, Typed
  <2> QED BY <2>1, <2>2 DEF ToldAfter
<1> QED BY <1>1, DesiredInit, DesiredNext, PTL DEF TSpec
=============================================================================
