------------------------------ MODULE TwinSync ------------------------------
(***************************************************************************)
(* The twin of a client in the Edge Hub: the desired properties that the   *)
(* cloud changes and the client is told of, and the properties that the    *)
(* client reports and the cloud gets, through a copy on disk, while the    *)
(* cloud or the client is away and the hub is restarted.                   *)
(*                                                                         *)
(* A version of the desired properties stands for its changes 1 .. version *)
(* and a report sets one property to the number of the report.             *)
(***************************************************************************)
EXTENDS Integers, FiniteSets

CONSTANTS
  Tasks,           \* handlers that run at once
  Properties,      \* the properties that the client reports
  MaxDesired,      \* bound: changes of the desired properties
  MaxReports,      \* bound: reports of the client
  MaxOutages,      \* bound: times that the cloud is away
  MaxConnections,  \* bound: connections of the client
  MaxRestarts      \* bound: restarts of the hub

ASSUME TwinAssumption ==
  /\ "loop" \notin Tasks /\ "free" \notin Tasks
  /\ {MaxDesired, MaxReports, MaxOutages, MaxConnections, MaxRestarts} \subseteq Nat

NoTwin == -1

VARIABLES
  desired,    \* cloud: version of the desired properties
  reported,   \* cloud: the reported properties
  reachable,  \* whether calls to the cloud can succeed
  updates,    \* desired property updates on their way to the hub
  twin,       \* disk: version of the desired properties of the stored twin
  patch,      \* disk: ReportedPropertiesPatch
  synced,     \* whether twinSyncTime has an entry
  task,       \* the handlers
  lock,       \* who holds the lock of the reported properties
  report,     \* where the client's report is
  loop,       \* where the loop of SyncToCloud is
  toSync,     \* whether syncToCloudClients has the client
  permits,    \* count of syncToCloudSemaphore
  session,    \* connection of the client
  connected,  \* whether the client is connected and subscribed
  current,    \* history: the client got its twin on this connection
  told,       \* history: changes that the client got on this connection
  stale,      \* history: a twin was stored over a newer one, or a client was not told of one
  wrote,      \* history: what the client reported last
  reports,    \* history: reports so far
  gaveUp,     \* history: nobody has yet to send the patch
  outages, restarts

cloud == <<desired, reported, reachable, updates>>
syncing == <<lock, loop, toSync, permits, gaveUp>>
reporting == <<report, wrote, reports>>
client == <<session, connected, current, told, stale>>
tvars == <<cloud, twin, patch, synced, task, syncing, reporting, client, outages, restarts>>

NoProperties == [p \in Properties |-> 0]
Merge(old, new) == [p \in Properties |-> IF new[p] # 0 THEN new[p] ELSE old[p]]

(* A handler for the changes from + 1 .. got, asked for on a connection.    *)
Handler(k, p, f, g, n) == [kind |-> k, pc |-> p, from |-> f, got |-> g, session |-> n]
Idle == Handler("none", "idle", 0, 0, 0)

TInit ==
  /\ desired = 0 /\ reported = NoProperties /\ reachable = TRUE /\ updates = {}
  /\ twin = NoTwin /\ patch = NoProperties /\ synced = FALSE
  /\ task = [t \in Tasks |-> Idle]
  /\ lock = "free" /\ report = "none" /\ loop = "snapshot" /\ toSync = FALSE /\ permits = 1
  /\ session = 0 /\ connected = FALSE /\ current = FALSE /\ told = {} /\ stale = FALSE
  /\ wrote = NoProperties /\ reports = 0 /\ gaveUp = FALSE
  /\ outages = 0 /\ restarts = 0
-----------------------------------------------------------------------------
(* The cloud and the client                                                *)

Change ==
  /\ desired < MaxDesired
  /\ desired' = desired + 1
  /\ updates' = IF reachable /\ connected THEN updates \cup {desired'} ELSE updates
  /\ UNCHANGED <<reported, reachable, twin, patch, synced, task, syncing, reporting, client, outages, restarts>>

Leave ==
  /\ reachable /\ outages < MaxOutages
  /\ reachable' = FALSE /\ outages' = outages + 1 /\ updates' = {}
  /\ UNCHANGED <<desired, reported, twin, patch, synced, task, syncing, reporting, client, restarts>>

(* The cloud is back.  If calls timed out meanwhile the connectivity       *)
(* manager was disconnected and now raises DeviceConnected, on which       *)
(* DeviceConnectedCallback goes through the clients that are connected.    *)
Return ==
  /\ ~reachable
  /\ reachable' = TRUE
  /\ \/ UNCHANGED task
     \/ /\ connected
        /\ \E t \in Tasks :
             task[t].pc = "idle" /\ task' = [task EXCEPT ![t] = Handler("callback", "check", 0, 0, 0)]
  /\ UNCHANGED <<desired, reported, updates, twin, patch, synced, syncing, reporting, client, outages, restarts>>

ClientConnects ==
  /\ ~connected /\ session < MaxConnections
  /\ session' = session + 1
  /\ connected' = TRUE /\ current' = FALSE /\ told' = {}
  /\ UNCHANGED <<cloud, twin, patch, synced, task, syncing, reporting, stale, outages, restarts>>

(* What is on its way to a client that left may still come to the hub.     *)
ClientLeaves ==
  /\ connected
  /\ connected' = FALSE /\ current' = FALSE
  /\ updates' \in {updates, {}}
  /\ UNCHANGED <<desired, reported, reachable, twin, patch, synced, task, syncing, reporting,
                 session, told, stale, outages, restarts>>
-----------------------------------------------------------------------------
(* Desired properties                                                      *)

Goto(t, pc) == task' = [task EXCEPT ![t].pc = pc]
Advance(t, pc, from, got) ==
  task' = [task EXCEPT ![t] = Handler(task[t].kind, pc, from, got, task[t].session)]
Finish(t) == task' = [task EXCEPT ![t] = Idle]

(* GetTwinAsync is called by the client.                                   *)
GetTwin(t) ==
  /\ task[t].pc = "idle" /\ connected
  /\ task' = [task EXCEPT ![t] = Handler("twin", "get", 0, 0, session)]
  /\ UNCHANGED <<cloud, twin, patch, synced, syncing, reporting, client, outages, restarts>>

(* UpdateDesiredPropertiesAsync compares the next update with the stored   *)
(* twin: it is applied, or the whole twin is fetched.                      *)
UpdateDesired(t) ==
  /\ task[t].pc = "idle"
  /\ \E v \in updates :
       /\ \A w \in updates : v <= w
       /\ updates' = updates \ {v}
       /\ task' = [task EXCEPT ![t] =
            IF twin # NoTwin /\ twin + 1 # v
            THEN Handler("sync", "get", twin, 0, 0)
            ELSE Handler("patch", "write", v - 1, v, 0)]
  /\ UNCHANGED <<desired, reported, reachable, twin, patch, synced, syncing, reporting, client, outages, restarts>>

WritePatch(t) ==
  /\ task[t].pc = "write"
  /\ twin' = IF twin # NoTwin /\ twin + 1 = task[t].got THEN task[t].got ELSE twin
  /\ Goto(t, "send")
  /\ UNCHANGED <<cloud, patch, synced, syncing, reporting, client, outages, restarts>>

(* CloudSync.GetTwin                                                       *)
FetchTwin(t) ==
  /\ task[t].pc = "get" /\ reachable
  /\ Advance(t, "store", task[t].from, desired)
  /\ UNCHANGED <<cloud, twin, patch, synced, syncing, reporting, client, outages, restarts>>

(* The twin cannot be had: a client gets the stored one.                   *)
FetchFails(t) ==
  /\ task[t].pc = "get" /\ ~reachable
  /\ IF task[t].kind = "twin"
     THEN Advance(t, "send", task[t].from, IF twin = NoTwin THEN 0 ELSE twin)
     ELSE Finish(t)
  /\ UNCHANGED <<cloud, twin, patch, synced, syncing, reporting, client, outages, restarts>>

(* The difference from the twin that is in the store by now.               *)
MutStoreTwin(t) ==
  /\ task[t].pc = "store"
  /\ twin' = task[t].got /\ synced' = TRUE
  /\ stale' = (stale \/ task[t].got < twin)
  /\ Advance(t, "send", IF task[t].kind = "twin" THEN 0 ELSE twin', task[t].got)
  /\ UNCHANGED <<cloud, patch, syncing, reporting, session, connected, current, told, outages, restarts>>

(* StoreTwinInStore, whatever version is in the store by now.              *)
StoreTwin(t) ==
  /\ task[t].pc = "store"
  /\ twin' = task[t].got /\ synced' = TRUE
  /\ stale' = (stale \/ task[t].got < twin)
  /\ Goto(t, "send")
  /\ UNCHANGED <<cloud, patch, syncing, reporting, session, connected, current, told, outages, restarts>>

(* SendPatchToDevice, or the answer to GetTwinAsync on its own connection. *)
SendToClient(t) ==
  LET answer == task[t].kind = "twin"
      heard == connected /\ (answer => task[t].session = session)
  IN
  /\ task[t].pc = "send"
  /\ told' = IF heard THEN told \cup (task[t].from + 1 .. task[t].got) ELSE told
  /\ current' = (current \/ (heard /\ answer))
  /\ stale' = (stale \/ (answer /\ ~heard))
  /\ Finish(t)
  /\ UNCHANGED <<cloud, twin, patch, synced, syncing, reporting, session, connected, outages, restarts>>

(* The call of the client's proxy fails though the client is connected:    *)
(* nobody makes it again.                                                  *)
SendFails(t) ==
  /\ task[t].pc = "send" /\ connected
  /\ stale' = TRUE
  /\ Finish(t)
  /\ UNCHANGED <<cloud, twin, patch, synced, syncing, reporting, session, connected, current, told,
                 outages, restarts>>

(* HandleDesiredPropertiesUpdates: nothing if the client has no twin, or   *)
(* it was synchronized within minTwinSyncPeriod.                           *)
HandleDesired(t) ==
  /\ task[t].pc = "desired"
  /\ \/ (twin = NoTwin \/ synced) /\ Finish(t)
     \/ twin # NoTwin /\ Advance(t, "get", twin, task[t].got)
  /\ UNCHANGED <<cloud, twin, patch, synced, syncing, reporting, client, outages, restarts>>
-----------------------------------------------------------------------------
(* Reported properties                                                     *)

(* UpdateReportedPropertiesAsync: the stored twin, the patch and the       *)
(* signal, one after the other.                                            *)
Report ==
  /\ connected /\ report = "none" /\ reports < MaxReports
  /\ twin' = IF twin = NoTwin THEN 0 ELSE twin
  /\ reports' = reports + 1 /\ report' = "patch"
  /\ UNCHANGED <<cloud, patch, synced, task, syncing, wrote, client, outages, restarts>>

StorePatch(p) ==
  LET new == [NoProperties EXCEPT ![p] = reports] IN
  /\ report = "patch" /\ lock = "free"
  /\ patch' = Merge(patch, new) /\ wrote' = Merge(wrote, new)
  /\ report' = "signal"
  /\ UNCHANGED <<cloud, twin, synced, task, syncing, reports, client, outages, restarts>>

InitSyncToCloud ==
  /\ report = "signal"
  /\ toSync' = TRUE /\ permits' = permits + 1
  /\ report' = "none" /\ gaveUp' = FALSE
  /\ UNCHANGED <<cloud, twin, patch, synced, task, lock, loop, wrote, reports, client, outages, restarts>>

(* The loop takes the clients to synchronize, and then waits for a signal. *)
Snapshot ==
  /\ loop = "snapshot"
  /\ loop' = IF toSync THEN "check" ELSE "wait"
  /\ toSync' = FALSE
  /\ UNCHANGED <<cloud, twin, patch, synced, task, lock, permits, gaveUp, reporting, client, outages, restarts>>

Wait ==
  /\ loop = "wait" /\ permits > 0
  /\ permits' = permits - 1 /\ loop' = "snapshot"
  /\ UNCHANGED <<cloud, twin, patch, synced, task, lock, toSync, gaveUp, reporting, client, outages, restarts>>

(* SyncToCloud(id) is run by the loop and by the callback s.               *)
Syncers == Tasks \cup {"loop"}
At(s) == IF s = "loop" THEN loop ELSE task[s].pc
SyncGoto(s, pc) ==
  IF s = "loop" THEN loop' = (IF pc = "done" THEN "wait" ELSE pc) /\ UNCHANGED task
  ELSE Goto(s, IF pc = "done" THEN "desired" ELSE pc) /\ UNCHANGED loop

(* The patch is looked at before and after the lock is taken.              *)
CheckPatch(s) ==
  /\ At(s) = "check"
  /\ SyncGoto(s, IF patch = NoProperties THEN "done" ELSE "lock")
  /\ UNCHANGED <<cloud, twin, patch, synced, lock, toSync, permits, gaveUp, reporting, client, outages, restarts>>

TakeLock(s) ==
  /\ At(s) = "lock" /\ lock = "free"
  /\ IF patch = NoProperties THEN SyncGoto(s, "done") /\ UNCHANGED lock
     ELSE SyncGoto(s, "update") /\ lock' = s
  /\ UNCHANGED <<cloud, twin, patch, synced, toSync, permits, gaveUp, reporting, client, outages, restarts>>

(* Lets go of the lock before the patch is cleared.                        *)
MutUpdateCloud(s) ==
  /\ At(s) = "update" /\ reachable
  /\ reported' = Merge(reported, patch)
  /\ lock' = "free"
  /\ SyncGoto(s, "clear")
  /\ UNCHANGED <<desired, reachable, updates, twin, patch, synced, toSync, permits, gaveUp,
                 reporting, client, outages, restarts>>

UpdateCloud(s) ==
  /\ At(s) = "update" /\ reachable
  /\ reported' = Merge(reported, patch)
  /\ SyncGoto(s, "clear")
  /\ UNCHANGED <<desired, reachable, updates, twin, patch, synced, lock, toSync, permits, gaveUp,
                 reporting, client, outages, restarts>>

(* The call fails, or only its answer is lost; the patch stays.            *)
UpdateCloudFails(s) ==
  /\ At(s) = "update" /\ ~reachable
  /\ reported' \in {reported, Merge(reported, patch)}
  /\ lock' = "free" /\ gaveUp' = TRUE
  /\ SyncGoto(s, "done")
  /\ UNCHANGED <<desired, reachable, updates, twin, patch, synced, toSync, permits,
                 reporting, client, outages, restarts>>

ClearPatch(s) ==
  /\ At(s) = "clear"
  /\ patch' = NoProperties
  /\ lock' = "free"
  /\ SyncGoto(s, "done")
  /\ UNCHANGED <<cloud, twin, synced, toSync, permits, gaveUp, reporting, client, outages, restarts>>
-----------------------------------------------------------------------------
(* The hub ends at any point and starts again with what is on disk.        *)
Restart ==
  /\ restarts < MaxRestarts /\ restarts' = restarts + 1
  /\ synced' = FALSE /\ task' = [t \in Tasks |-> Idle] /\ lock' = "free"
  /\ report' = "none" /\ loop' = "snapshot" /\ toSync' = FALSE /\ permits' = 1
  /\ connected' = FALSE /\ current' = FALSE /\ updates' = {}
  /\ gaveUp' = TRUE
  /\ UNCHANGED <<desired, reported, reachable, twin, patch, wrote, reports, session, told, stale, outages>>

TaskStep(t) ==
  \/ WritePatch(t) \/ FetchTwin(t) \/ FetchFails(t) \/ StoreTwin(t)
  \/ SendToClient(t) \/ SendFails(t) \/ HandleDesired(t)
SyncStep(s) == CheckPatch(s) \/ TakeLock(s) \/ UpdateCloud(s) \/ UpdateCloudFails(s) \/ ClearPatch(s)

TNext ==
  \/ Change \/ Leave \/ Return \/ ClientConnects \/ ClientLeaves
  \/ \E t \in Tasks : GetTwin(t) \/ UpdateDesired(t) \/ TaskStep(t)
  \/ Report \/ InitSyncToCloud \/ \E p \in Properties : StorePatch(p)
  \/ Snapshot \/ Wait
  \/ \E s \in Syncers : SyncStep(s)
  \/ Restart

TSpec == TInit /\ [][TNext]_tvars
-----------------------------------------------------------------------------
TTypeOK ==
  /\ desired \in 0 .. MaxDesired /\ twin \in NoTwin .. MaxDesired
  /\ reported \in [Properties -> 0 .. MaxReports] /\ patch \in [Properties -> 0 .. MaxReports]
  /\ lock \in Syncers \cup {"free"} /\ permits \in Nat
  /\ told \subseteq 1 .. MaxDesired

(* A client that has got its twin and stays connected was told of every    *)
(* change that is in the stored twin, once no handler is under way: updates *)
(* that come while a twin is fetched, or twice, drop none                  *)
(* (UpdateDesiredPropertiesAsync, SyncTwinAndSendDesiredPropertyUpdates).  *)
(* Excepted are hubs in which a fetched twin was stored over a newer one,  *)
(* which TwinStore.Update does not prevent, or its reader was gone, and    *)
(* those in which a call of the client's proxy failed.                     *)
DesiredTold ==
  current /\ ~stale /\ (\A t \in DOMAIN task : task[t].pc = "idle") => 1 .. twin \subseteq told

(* Nobody is sending the patch, or about to.                               *)
Quiet ==
  /\ report = "none" /\ loop = "wait" /\ permits = 0
  /\ \A t \in DOMAIN task : task[t].kind # "callback"

(* What the client reported last is with the cloud or on disk, through     *)
(* restarts and lost answers; and when all is quiet it is with the cloud,  *)
(* unless the last try failed or the hub was restarted: no signal is       *)
(* missed, and nothing is cleared that was not sent                        *)
(* (ReportedPropertiesStore.Update, InitSyncToCloud and SyncToCloud).      *)
ReportsKept ==
  /\ Merge(reported, patch) = wrote
  /\ Quiet /\ ~gaveUp => patch = NoProperties
=============================================================================
