------------------------------- MODULE Daemon -------------------------------
(***************************************************************************)
(* The start of the security daemon (edgelet/iotedged/src/lib.rs), across  *)
(* crashes and restarts: provisioning of the device with its backup        *)
(* (edgelet/provisioning, edgelet/dps), the hybrid identity key, the       *)
(* removal of modules that belong to another identity or to other          *)
(* settings, and the saved digest of the settings.  Each write to a file,  *)
(* each removal of a container and each request is a step of its own, and  *)
(* the daemon may end, by a crash or an error, between any two of them.    *)
(***************************************************************************)
EXTENDS Naturals, Sequences

CONSTANTS
  Configs,      \* contents of the configuration file
  Certs,        \* identity certificates, by thumbprint
  Devices,      \* devices the provisioning service may assign
  Names,        \* modules
  MaxEdits,     \* bound: changes an operator makes to files and assignments
  MaxFailures,  \* bound: crashes, errors, outages
  MaxStops      \* bound: orderly ends of a serving daemon

Config == [source : {"manual", "dps", "external"}, auth : {"key", "x509", "tpm"},
           always : BOOLEAN, dynamic : BOOLEAN, version : Nat]

ASSUME DaemonAssumption ==
  /\ Configs # {} /\ Configs \subseteq Config
  /\ Certs # {} /\ Certs \subseteq Nat \ {0}
  /\ Devices # {} /\ Devices \subseteq Nat \ {0}
  /\ {MaxEdits, MaxFailures, MaxStops} \subseteq Nat

VARIABLES
  config, cert,    \* the configuration file and the identity certificate
  settings_state,  \* the saved digest of the settings, << >> if there is none
  hybrid,          \* the files of the hybrid identity key and its iv, 0 if missing
  backup,          \* the device in the provisioning backup: << >> missing, <<0>> unreadable
  tpm,             \* the device key in the TPM
  workload_ca,     \* whether there is a workload CA certificate
  containers,      \* modules by name: "stale" ones run since before the daemon's start
  assigned,        \* what the provisioning service answers
  pc, settings, thumbprint,  \* the running daemon, and what it read when it started
  force, result,             \* whether a key is new; the provisioning result
  requested,       \* whether a request to provision again is in the channel of start_api
  keys,            \* how many keys were made
  interrupted, must_ask,     \* history: see IdentityCurrent and ReprovisionHeeded
  edits, failures, stops

files == <<settings_state, hybrid, backup, tpm, workload_ca>>
process == <<settings, thumbprint, force, result, requested>>
operator == <<config, cert, assigned, edits>>
bounds == <<failures, stops>>
history == <<interrupted, must_ask>>
vars == <<files, containers, pc, process, operator, keys, history, bounds>>

NoContainer == [status |-> "none", digest |-> << >>, identity |-> << >>]
NoResult == [device |-> 0, reconfigure |-> FALSE]

UsesX509(s) == s.auth = "x509"

(* compute_settings_digest; the thumbprint is 0 where none is used.        *)
Digest == <<settings, thumbprint>>

(* diff_with_cached.                                                       *)
Changed == settings_state # Digest

(* What module keys are derived from: DerivedKeyStore of the device key, or *)
(* prepare_derived_hybrid_key.                                             *)
Identity == << result.device,
               IF UsesX509(settings) THEN hybrid.key ELSE 0,
               thumbprint,
               IF settings.auth = "tpm" THEN tpm ELSE 0 >>

Present == {n \in Names : containers[n].status # "none"}

(* From the first change of the identity that stays on disk or in the TPM, *)
(* until the old modules are removed, only the process knows they must go. *)
Window ==
  \/ force /\ pc \in {"provision", "register", "poll", "truncate_backup", "backup", "runtime",
                      "stop", "remove"}
  \/ pc \in {"poll", "truncate_backup", "backup"} /\ settings.source = "dps"
  \/ result.reconfigure /\ pc \in {"runtime", "stop", "remove"}
  \/ pc = "iv"
-----------------------------------------------------------------------------
(* External provisioning answers, always with a status that asks for a     *)
(* removal.                                                                *)
ExternalResult == [device |-> assigned, reconfigure |-> TRUE]

(* Main::run_until begins: settings and certificate are read.              *)
Boot ==
  /\ pc = "down"
  /\ pc' = "prepare"
  /\ settings' = config
  /\ thumbprint' = IF UsesX509(config) THEN cert ELSE 0
  /\ force' = FALSE
  /\ result' = IF config.source = "external" THEN ExternalResult ELSE NoResult
  /\ containers' = [n \in Names |-> IF containers[n].status = "fresh"
                                      THEN [containers[n] EXCEPT !.status = "stale"]
                                      ELSE containers[n]]
  /\ UNCHANGED <<files, requested, operator, keys, history, bounds>>

(* The process ends, by a crash or because a step returned an error, of    *)
(* the removal of the backup too.  A request to provision again is lost    *)
(* with it, unless it has removed the backup.                              *)
Exit ==
  /\ pc # "down"
  /\ failures < MaxFailures
  /\ failures' = failures + 1
  /\ pc' = "down"
  /\ interrupted' = (interrupted \/ Window)
  /\ must_ask' = (must_ask /\ pc # "stopping")
  /\ requested' = FALSE
  /\ UNCHANGED <<files, containers, settings, thumbprint, force, result, operator, keys, stops>>

(* What is left of the key's directory by a removal whose errors are       *)
(* ignored, and by the truncation of a file that is about to be written.   *)
Cleared == [key : {0, hybrid.key}, iv : {0, hybrid.iv}]

(* prepare_master_hybrid_identity_key, which decrypts the key or begins    *)
(* to make one, and without X.509 removes it.                              *)
PrepareKey ==
  /\ pc = "prepare"
  /\ pc' = IF ~UsesX509(settings) \/ (hybrid.key # 0 /\ hybrid.key = hybrid.iv)
             THEN "provision" ELSE "clear"
  /\ hybrid' \in IF UsesX509(settings) THEN {hybrid} ELSE Cleared
  /\ UNCHANGED <<settings_state, backup, tpm, workload_ca, containers, process, operator, keys,
                 history, bounds>>

ClearKey ==
  /\ pc = "clear"
  /\ pc' = "key"
  /\ hybrid' \in Cleared
  /\ UNCHANGED <<settings_state, backup, tpm, workload_ca, containers, process, operator, keys,
                 history, bounds>>

(* create_hybrid_identity_key writes the key and then the iv.              *)
WriteKey ==
  /\ pc = "key"
  /\ pc' = "iv"
  /\ keys' = keys + 1
  /\ hybrid' = [hybrid EXCEPT !.key = keys + 1]
  /\ UNCHANGED <<settings_state, backup, tpm, workload_ca, containers, process, operator,
                 history, bounds>>

(* Mutant: a new key does not force the removal of the modules.            *)
MutWriteIv ==
  /\ pc = "iv"
  /\ pc' = "provision"
  /\ hybrid' = [hybrid EXCEPT !.iv = hybrid.key]
  /\ UNCHANGED <<settings_state, backup, tpm, workload_ca, containers, process, operator, keys,
                 history, bounds>>

WriteIv ==
  /\ pc = "iv"
  /\ pc' = "provision"
  /\ hybrid' = [hybrid EXCEPT !.iv = hybrid.key]
  /\ force' = TRUE
  /\ UNCHANGED <<settings_state, backup, tpm, workload_ca, containers, settings, thumbprint,
                 result, requested, operator, keys, history, bounds>>
-----------------------------------------------------------------------------
(* provisioning.rs.                                                        *)

(* restore: it never asks for a removal.                                   *)
Restorable == backup # << >> /\ backup # <<0>>
Restored == [device |-> backup[1], reconfigure |-> FALSE]

(* provision of ManualProvisioning.                                        *)
ManualResult == [device |-> settings.version, reconfigure |-> FALSE]

(* provision of BackupProvisioning, as far as it needs no service.         *)
Provision ==
  /\ pc = "provision"
  /\ CASE settings.source = "external" -> pc' = "runtime" /\ UNCHANGED result
       [] settings.source = "manual" ->
            pc' = "runtime" /\ result' = ManualResult
       [] settings.source = "dps" ->
            IF ~settings.always /\ Restorable
              THEN pc' = "runtime" /\ result' = Restored
              ELSE pc' = "register" /\ UNCHANGED result
  /\ UNCHANGED <<files, containers, settings, thumbprint, force, requested, operator, keys, history,
                 bounds>>

(* The TPM takes a key from the service as the device key.                 *)
ActivateKey ==
  IF settings.auth = "tpm" THEN keys' = keys + 1 /\ tpm' = keys + 1
                           ELSE UNCHANGED <<keys, tpm>>

(* DpsClient::register sends its request; with a TPM it is refused with a  *)
(* challenge, whose key becomes the device key.                            *)
Register ==
  /\ pc = "register"
  /\ pc' = "poll"
  /\ ActivateKey
  /\ UNCHANGED <<settings_state, hybrid, backup, workload_ca, containers, process, operator,
                 history, bounds>>

(* The result of provision of DpsTpmProvisioning and its like.  No         *)
(* substatus of the service reads as DeviceDataUpdated, so it always asks  *)
(* for a removal.                                                          *)
DpsResult == [device |-> assigned, reconfigure |-> TRUE]

(* One of the polls returns the assignment, with a TPM also a new device   *)
(* key.                                                                    *)
Assigned ==
  /\ pc = "poll"
  /\ pc' = "truncate_backup"
  /\ result' = DpsResult
  /\ must_ask' = FALSE
  /\ ActivateKey
  /\ UNCHANGED <<settings_state, hybrid, backup, workload_ca, containers, settings, thumbprint,
                 force, requested, operator, interrupted, bounds>>

(* backup creates the file, which empties it, and writes the result.       *)
TruncateBackup ==
  /\ pc = "truncate_backup"
  /\ pc' = "backup"
  /\ backup' = <<0>>
  /\ UNCHANGED <<settings_state, hybrid, tpm, workload_ca, containers, process, operator, keys,
                 history, bounds>>

WriteBackup ==
  /\ pc = "backup"
  /\ pc' = "runtime"
  /\ backup' = <<result.device>>
  /\ UNCHANGED <<settings_state, hybrid, tpm, workload_ca, containers, process, operator, keys,
                 history, bounds>>

(* The service cannot be reached, refuses, or assigns nothing in time, or  *)
(* the backup cannot be written: what the backup holds is used.            *)
ProvisionFails ==
  /\ pc \in {"register", "poll", "truncate_backup", "backup"}
  /\ failures < MaxFailures
  /\ failures' = failures + 1
  /\ interrupted' = (interrupted \/ Window)
  /\ IF Restorable THEN pc' = "runtime" /\ result' = Restored
                   ELSE pc' = "down" /\ UNCHANGED result
  /\ UNCHANGED <<files, containers, settings, thumbprint, force, requested, operator, keys,
                 must_ask, stops>>
-----------------------------------------------------------------------------
(* start_edgelet!, check_settings_state and reconfigure.                   *)

Goto(l, m) == pc = l /\ pc' = m

InitRuntime ==
  /\ Goto("runtime", "stop")
  /\ UNCHANGED <<files, containers, process, operator, keys, history, bounds>>

StopOne(n) ==
  /\ pc = "stop"
  /\ containers[n].status = "stale"
  /\ containers' = [containers EXCEPT ![n].status = "stopped"]
  /\ UNCHANGED <<files, pc, process, operator, keys, history, bounds>>

Stopped ==
  /\ pc = "stop"
  /\ \A n \in Names : containers[n].status # "stale"
  /\ pc' = IF force \/ result.reconfigure THEN "remove" ELSE "check"
  /\ UNCHANGED <<files, containers, process, operator, keys, history, bounds>>

RemoveOne(n) ==
  /\ pc \in {"remove", "reconfigure"}
  /\ n \in Present
  /\ containers' = [containers EXCEPT ![n] = NoContainer]
  /\ UNCHANGED <<files, pc, process, operator, keys, history, bounds>>

Removed ==
  /\ pc \in {"remove", "reconfigure"}
  /\ Present = {}
  /\ pc' = IF pc = "remove" THEN "check" ELSE "destroy_ca"
  /\ interrupted' = FALSE
  /\ UNCHANGED <<files, containers, process, operator, keys, must_ask, bounds>>

(* check_settings_state: without a change the workload CA is obtained, and *)
(* if that fails all is set up again, as after a change.                   *)
Check ==
  /\ pc = "check"
  /\ IF Changed
       THEN pc' = "reconfigure" /\ UNCHANGED <<workload_ca, failures>>
       ELSE \/ pc' = "serve" /\ workload_ca' = TRUE /\ UNCHANGED failures
            \/ /\ failures < MaxFailures /\ failures' = failures + 1
               /\ pc' = "reconfigure" /\ UNCHANGED workload_ca
  /\ UNCHANGED <<settings_state, hybrid, backup, tpm, containers, process, operator, keys,
                 history, stops>>

DestroyCa ==
  /\ Goto("destroy_ca", "ca")
  /\ workload_ca' = FALSE
  /\ UNCHANGED <<settings_state, hybrid, backup, tpm, containers, process, operator, keys,
                 history, bounds>>

PrepareCa ==
  /\ Goto("ca", "truncate_state")
  /\ workload_ca' = TRUE
  /\ UNCHANGED <<settings_state, hybrid, backup, tpm, containers, process, operator, keys,
                 history, bounds>>

TruncateState ==
  /\ Goto("truncate_state", "state")
  /\ settings_state' = << >>
  /\ UNCHANGED <<hybrid, backup, tpm, workload_ca, containers, process, operator, keys, history,
                 bounds>>

WriteState ==
  /\ Goto("state", "serve")
  /\ settings_state' = Digest
  /\ UNCHANGED <<hybrid, backup, tpm, workload_ca, containers, process, operator, keys, history,
                 bounds>>
-----------------------------------------------------------------------------
(* start_api serves the requests of the agent and the watchdog, which      *)
(* create, start, stop and remove modules, some of them still when the     *)
(* services have been told to stop.                                        *)
Up == pc \in {"serve", "stopping"}

Serve(n) ==
  /\ Up
  /\ \/ /\ containers[n].status = "none"
        /\ containers' = [containers EXCEPT ![n] = [status |-> "stopped", digest |-> Digest,
                                                    identity |-> Identity]]
     \/ /\ containers[n].status = "stopped"
        /\ containers' = [containers EXCEPT ![n].status = "fresh"]
     \/ /\ containers[n].status = "fresh"
        /\ containers' = [containers EXCEPT ![n].status = "stopped"]
     \/ /\ containers[n].status # "none"
        /\ containers' = [containers EXCEPT ![n] = NoContainer]
  /\ UNCHANGED <<files, pc, process, operator, keys, history, bounds>>

(* ReprovisionDevice answers the request at once, whatever becomes of it.  *)
RequestReprovision ==
  /\ pc = "serve"
  /\ requested' = TRUE
  /\ UNCHANGED <<files, containers, pc, settings, thumbprint, force, result, operator, keys,
                 history, bounds>>

(* start_api ends with a shutdown, or with the expiry of the certificate   *)
(* of its endpoints, whereupon it is called again.  Either way a request   *)
(* that waits in its channel is lost.                                      *)
Shutdown ==
  /\ Goto("serve", "down")
  /\ stops < MaxStops
  /\ stops' = stops + 1
  /\ requested' = FALSE
  /\ UNCHANGED <<files, containers, settings, thumbprint, force, result, operator, keys, history,
                 failures>>

RestartApi ==
  /\ pc = "serve"
  /\ requested' = FALSE
  /\ UNCHANGED <<files, containers, pc, settings, thumbprint, force, result, operator, keys,
                 history, bounds>>

(* With dynamic_reprovisioning the request stops the services.  Without it *)
(* nothing takes it.                                                       *)
TakeRequest ==
  /\ Goto("serve", "stopping")
  /\ requested /\ settings.dynamic
  /\ stops < MaxStops
  /\ stops' = stops + 1
  /\ requested' = FALSE
  /\ must_ask' = (must_ask \/ settings.source = "dps")
  /\ UNCHANGED <<files, containers, settings, thumbprint, force, result, operator, keys,
                 interrupted, failures>>

(* Mutant: the backup stays.                                               *)
MutReprovision ==
  /\ Goto("stopping", "down")
  /\ UNCHANGED <<files, containers, process, operator, keys, history, bounds>>

(* reprovision of BackupProvisioning, once the services have ended: it     *)
(* removes the backup, and the daemon ends with an error, for the next     *)
(* start to ask the service again.                                         *)
Reprovision ==
  /\ Goto("stopping", "down")
  /\ backup' = IF settings.source = "dps" THEN << >> ELSE backup
  /\ UNCHANGED <<settings_state, hybrid, tpm, workload_ca, containers, process, operator, keys,
                 history, bounds>>

(* The operator edits the configuration, replaces the certificate, assigns *)
(* the device anew, or loses files of the hybrid key's directory.          *)
Edit ==
  /\ edits < MaxEdits
  /\ edits' = edits + 1
  /\ \/ config' \in Configs \ {config} /\ UNCHANGED <<cert, assigned, hybrid>>
     \/ cert' \in Certs \ {cert} /\ UNCHANGED <<config, assigned, hybrid>>
     \/ assigned' \in Devices \ {assigned} /\ UNCHANGED <<config, cert, hybrid>>
     \/ pc = "down" /\ hybrid' \in Cleared \ {hybrid} /\ UNCHANGED <<config, cert, assigned>>
  /\ UNCHANGED <<settings_state, backup, tpm, workload_ca, containers, pc, process, keys, history, bounds>>

Init ==
  /\ config \in Configs /\ cert \in Certs /\ assigned \in Devices
  /\ settings_state = << >> /\ hybrid = [key |-> 0, iv |-> 0] /\ backup = << >>
  /\ tpm = 0 /\ workload_ca = FALSE
  /\ containers = [n \in Names |-> NoContainer]
  /\ pc = "down" /\ settings = config /\ thumbprint = 0 /\ force = FALSE /\ result = NoResult
  /\ requested = FALSE
  /\ keys = 0 /\ interrupted = FALSE /\ must_ask = FALSE
  /\ edits = 0 /\ failures = 0 /\ stops = 0

Step ==
  \/ PrepareKey \/ ClearKey \/ WriteKey \/ WriteIv
  \/ Provision \/ Register \/ Assigned \/ TruncateBackup \/ WriteBackup
  \/ InitRuntime \/ (\E n \in Names : StopOne(n)) \/ Stopped
  \/ (\E n \in Names : RemoveOne(n)) \/ Removed
  \/ Check \/ DestroyCa \/ PrepareCa \/ TruncateState \/ WriteState
  \/ Reprovision

Next ==
  \/ Boot \/ Exit \/ Step \/ ProvisionFails
  \/ (\E n \in Names : Serve(n)) \/ RequestReprovision \/ Shutdown \/ RestartApi \/ TakeRequest
  \/ Edit

Spec == Init /\ [][Next]_vars

(* What must go on: the service manager starts a daemon that has ended, a  *)
(* start goes on, and services that were told to stop end.                 *)
Work == Boot \/ Step
-----------------------------------------------------------------------------
(* The files, the containers and the process have their types.             *)
TypeOK ==
  /\ config \in Configs /\ settings \in Configs
  /\ requested \in BOOLEAN
  /\ cert \in Certs /\ thumbprint \in Certs \cup {0}
  /\ settings_state = << >> \/ settings_state \in Configs \X (Certs \cup {0})
  /\ hybrid \in [key : Nat, iv : Nat]
  /\ backup \in {<< >>, <<0>>} \cup {<<d>> : d \in Devices}
  /\ workload_ca \in BOOLEAN
  /\ \A n \in Names : containers[n].status \in {"none", "stopped", "stale", "fresh"}

(* While the daemon serves, every module was created under the settings    *)
(* and the identity certificate that it started with, whatever ended a     *)
(* start between the removal of the modules, the new workload CA and the   *)
(* two steps that save the digest.                                         *)
SettingsCurrent == Up => \A n \in Present : containers[n].digest = Digest

(* While the daemon serves, the keys of every module derive from the       *)
(* identity the device has now: its assignment, its hybrid key, its        *)
(* certificate and its TPM key.  The exception is a start that ended, or   *)
(* fell back on the backup, between a change of these and the removal of   *)
(* the modules.                                                            *)
IdentityCurrent ==
  Up /\ ~interrupted => \A n \in Present : containers[n].identity = Identity

(* The same without the exception: modules whose keys a new provisioning   *)
(* made obsolete are removed before the daemon serves.                     *)
ObsoleteRemoved == Up => \A n \in Present : containers[n].identity = Identity

(* While the daemon serves there is a workload CA certificate, also after  *)
(* a start that ended between destroying and making one.                   *)
WorkloadCaReady == Up => workload_ca

(* No module that ran before the daemon started still runs while it        *)
(* serves, with sockets of the daemon's predecessor.                       *)
NoStaleModule == Up => \A n \in Names : containers[n].status # "stale"

(* SettingsCurrent, IdentityCurrent, WorkloadCaReady and NoStaleModule:    *)
(* what a daemon that serves can be relied on for, whatever ended earlier  *)
(* starts.                                                                 *)
ServingSound == SettingsCurrent /\ IdentityCurrent /\ WorkloadCaReady /\ NoStaleModule

(* After a request to provision again has stopped its services, the daemon *)
(* does not go on with an older result, neither by restoring the backup    *)
(* first nor by falling back on it when the service fails, however many    *)
(* starts it takes and whatever the operator edits between them, unless    *)
(* the daemon failed before it had removed the backup.                     *)
ReprovisionHeeded ==
  must_ask /\ settings.source = "dps" =>
    pc \in {"stopping", "down", "prepare", "clear", "key", "iv", "provision", "register", "poll"}
=============================================================================
