---------------------------- MODULE DaemonProofs ----------------------------
(***************************************************************************)
(* For every set of configurations, devices and modules, and any number of *)
(* crashes, failures and edits: what holds of the modules once the         *)
(* security daemon serves.                                                 *)
(***************************************************************************)
EXTENDS Daemon, TLAPS

Pcs == {"down", "prepare", "clear", "key", "iv", "provision", "register", "poll",
        "truncate_backup", "backup", "runtime", "stop", "remove", "check", "reconfigure",
        "destroy_ca", "ca", "truncate_state", "state", "serve", "stopping"}
AfterStop == {"remove", "check", "reconfigure", "destroy_ca", "ca", "truncate_state", "state", "serve",
              "stopping"}
Provisioned == {"runtime", "stop"} \cup AfterStop

Digests == Configs \X (Certs \cup {0})
Container == [status : {"none", "stopped", "stale", "fresh"}, digest : Digests \cup {<< >>},
              identity : (Nat \X Nat \X Nat \X Nat) \cup {<< >>}]

TypedProcess ==
  /\ config \in Configs /\ cert \in Certs /\ assigned \in Devices
  /\ settings \in Configs /\ thumbprint \in Certs \cup {0}
  /\ pc \in Pcs
  /\ force \in BOOLEAN /\ interrupted \in BOOLEAN /\ must_ask \in BOOLEAN
  /\ requested \in BOOLEAN
  /\ result \in [device : Nat, reconfigure : BOOLEAN]

TypedFiles ==
  /\ settings_state \in Digests \cup {<< >>}
  /\ hybrid \in [key : Nat, iv : Nat]
  /\ backup \in {<< >>, <<0>>} \cup {<<d>> : d \in Devices}
  /\ tpm \in Nat /\ keys \in Nat
  /\ workload_ca \in BOOLEAN

TypedContainers == containers \in [Names -> Container]

Typed == TypedProcess /\ TypedFiles /\ TypedContainers

(* The device of a result is assigned before it is written to the backup.  *)
Asked ==
  /\ pc \in {"register", "poll", "truncate_backup", "backup"} => settings.source = "dps"
  /\ pc \in {"truncate_backup", "backup"} =>
       result.device \in Devices /\ result.reconfigure /\ ~must_ask
  /\ must_ask /\ (settings.source = "dps" => pc # "stopping") => ~Restorable

(* What a provisioned daemon has its device from.                          *)
Sourced ==
  /\ settings.source = "external" /\ pc # "down" => result.reconfigure
  /\ pc \in Provisioned =>
       /\ settings.source = "manual" => result.device = settings.version
       /\ settings.source = "dps" => backup = <<result.device>>
       /\ settings.source = "dps" /\ pc # "stopping" => ~must_ask

(* Modules are of the settings whose digest is saved, and none is left     *)
(* when the digest is about to change.                                     *)
Saved ==
  /\ \A n \in Present : containers[n].digest = settings_state
  /\ pc \in {"destroy_ca", "ca", "truncate_state", "state"} => Present = {}
  /\ Up => settings_state = Digest
  /\ pc \in {"truncate_state", "state", "serve", "stopping"} => workload_ca
  /\ pc \in AfterStop => \A n \in Names : containers[n].status # "stale"

Usable(h) == h.key # 0 /\ h.key = h.iv
Valid == Usable(hybrid)

(* A key is used only when it can be decrypted, and no key is made twice.  *)
KeyReady ==
  /\ hybrid.key <= keys /\ hybrid.iv <= keys
  /\ pc \in {"clear", "key"} => ~Valid
  /\ pc = "iv" => hybrid.key # 0
  /\ UsesX509(settings) /\ pc \notin {"down", "prepare", "clear", "key", "iv"} => Valid

(* The identity of container c is that of its settings, as far as backup   *)
(* b, key h and TPM key t are still what it was derived from.              *)
Derived(c, b, h, t) ==
  /\ c.digest \in Digests /\ c.identity \in Nat \X Nat \X Nat \X Nat
  /\ c.digest[1].source = "manual" => c.identity[1] = c.digest[1].version
  /\ c.digest[1].source = "dps" => b = << >> \/ b = <<c.identity[1]>>
  /\ IF UsesX509(c.digest[1]) THEN c.identity[2] = h.key \/ ~Usable(h) ELSE c.identity[2] = 0
  /\ c.identity[3] = c.digest[2]
  /\ c.identity[4] = IF c.digest[1].auth = "tpm" THEN t ELSE 0

Traced ==
  /\ pc = "check" /\ (force \/ result.reconfigure) => Present = {}
  /\ IdentityCurrent
  /\ ~interrupted /\ ~Window => \A n \in Present : Derived(containers[n], backup, hybrid, tpm)

Inv == Typed /\ Asked /\ Sourced /\ Saved /\ KeyReady /\ Traced
-----------------------------------------------------------------------------
(* A backup that can be restored names a device.                           *)
LEMMA RestoredSound ==
  ASSUME Typed, Restorable
  PROVE  /\ Restored \in [device : Nat, reconfigure : BOOLEAN]
         /\ backup = <<Restored.device>> /\ ~Restored.reconfigure
<1>1. PICK d \in Devices : backup = <<d>>
  BY Zenon DEF Typed, TypedFiles, Restorable
<1>2. d \in Nat
  BY DaemonAssumption, Zenon
<1> QED
  BY <1>1, <1>2, Zenon DEF Restored

(* What Provision does for each source.                                    *)
LEMMA ProvisionCases ==
  ASSUME Typed, Provision
  PROVE  \/ settings.source = "external" /\ pc' = "runtime" /\ result' = result
         \/ /\ settings.source = "manual" /\ pc' = "runtime"
            /\ result' = [device |-> settings.version, reconfigure |-> FALSE]
         \/ settings.source = "dps" /\ Restorable /\ pc' = "runtime" /\ result' = Restored
         \/ settings.source = "dps" /\ pc' = "register" /\ result' = result
<1>1. settings.source \in {"manual", "dps", "external"}
  BY DaemonAssumption, Zenon DEF Typed, TypedProcess, Config
<1>2. CASE settings.source = "external"
  BY <1>2, Zenon DEF Provision, ManualResult
<1>3. CASE settings.source = "manual"
  BY <1>3, Zenon DEF Provision, ManualResult
<1>4. CASE settings.source = "dps"
  BY <1>4, Zenon DEF Provision, ManualResult
<1> QED
  BY <1>1, <1>2, <1>3, <1>4, Zenon

(* What an exchange of one container does to the function of containers.   *)
LEMMA ContainerStep ==
  ASSUME TypedContainers, NEW n \in Names, NEW c \in Container,
         containers' = [containers EXCEPT ![n] = c]
  PROVE  TypedContainers'
BY Zenon DEF TypedContainers

(* A container keeps its type when its status changes.                     *)
LEMMA StatusStep ==
  ASSUME NEW c \in Container, NEW s \in {"none", "stopped", "stale", "fresh"}
  PROVE  [c EXCEPT !.status = s] \in Container
BY Zenon DEF Container

(* An identity consists of four numbers.                                   *)
LEMMA IdentityTyped ==
  ASSUME Typed
  PROVE  Identity \in Nat \X Nat \X Nat \X Nat
<1>1. result.device \in Nat /\ hybrid.key \in Nat /\ tpm \in Nat
  BY Zenon DEF Typed, TypedProcess, TypedFiles
<1>2. thumbprint \in Nat
  BY DaemonAssumption DEF Typed, TypedProcess
<1> QED
  BY <1>1, <1>2, Zenon DEF Identity

(* The process reads settings from the configuration, and its result from  *)
(* the settings, the service or the backup.                                *)
LEMMA ProcessNext == Inv /\ [Next]_vars => TypedProcess'
<1> SUFFICES ASSUME Inv, [Next]_vars PROVE TypedProcess'
  BY Zenon
<1> USE DaemonAssumption DEF Inv, Typed, TypedProcess, TypedFiles, Pcs, NoResult, Config, Restorable, Restored, Goto, Up
<1>1. CASE Boot
  BY <1>1, Zenon DEF Boot, ExternalResult, files, process, operator, bounds, history
<1>2. CASE Exit
  BY <1>2, Zenon DEF Exit, files, process, operator, bounds, history
<1>3. CASE PrepareKey
  BY <1>3, Zenon DEF PrepareKey, files, process, operator, bounds, history
<1>4. CASE ClearKey
  BY <1>4, Zenon DEF ClearKey, files, process, operator, bounds, history
<1>5. CASE WriteKey
  BY <1>5, Zenon DEF WriteKey, files, process, operator, bounds, history
<1>6. CASE WriteIv
  BY <1>6, Zenon DEF WriteIv, files, process, operator, bounds, history
<1>7. CASE Provision
  <2>1. result \in [device : Nat, reconfigure : BOOLEAN] /\ settings.version \in Nat
    BY Zenon
  <2>2. UNCHANGED <<config, cert, assigned, settings, thumbprint, force, interrupted, must_ask, requested>>
    BY <1>7, Zenon DEF Provision, ManualResult, operator, history
  <2>3. Typed
    BY Zenon
  <2>4. result' \in [device : Nat, reconfigure : BOOLEAN] /\ pc' \in {"runtime", "register"}
    <3> HIDE DEF Restorable, Restored, Typed, TypedProcess, TypedFiles, Inv, Pcs
    <3>1. CASE result' = result /\ pc' \in {"runtime", "register"}
      BY <2>1, <3>1, Zenon
    <3>2. CASE result' = [device |-> settings.version, reconfigure |-> FALSE] /\ pc' = "runtime"
      BY <2>1, <3>2, Zenon
    <3>3. CASE Restorable /\ result' = Restored /\ pc' = "runtime"
      BY <2>3, <3>3, RestoredSound, Zenon
    <3> QED
      BY <2>3, <1>7, <3>1, <3>2, <3>3, ProvisionCases, Zenon
  <2> QED
    BY <2>2, <2>4, Zenon
<1>8. CASE Register
  BY <1>8, Zenon DEF Register, ActivateKey, files, process, operator, bounds, history
<1>9. CASE Assigned
  BY <1>9, Zenon DEF Assigned, DpsResult, ActivateKey, files, process, operator, bounds, history
<1>10. CASE TruncateBackup
  BY <1>10, Zenon DEF TruncateBackup, files, process, operator, bounds, history
<1>11. CASE WriteBackup
  BY <1>11, Zenon DEF WriteBackup, files, process, operator, bounds, history
<1>12. CASE ProvisionFails
  <2> HIDE DEF Restorable, Restored
  <2>1. result' \in [device : Nat, reconfigure : BOOLEAN] /\ pc' \in {"runtime", "down"}
    BY <1>12, RestoredSound, Zenon DEF ProvisionFails
  <2>2. interrupted' \in BOOLEAN
    BY <1>12, Zenon DEF ProvisionFails, Window
  <2> QED
    BY <2>1, <2>2, <1>12, Zenon DEF ProvisionFails, files, operator
<1>13. CASE InitRuntime
  BY <1>13, Zenon DEF InitRuntime, files, process, operator, bounds, history, Goto
<1>14. ASSUME NEW n \in Names, StopOne(n) PROVE TypedProcess'
  BY <1>14, Zenon DEF StopOne, files, process, operator, bounds, history
<1>15. CASE Stopped
  BY <1>15, Zenon DEF Stopped, files, process, operator, bounds, history
<1>16. ASSUME NEW n \in Names, RemoveOne(n) PROVE TypedProcess'
  BY <1>16, Zenon DEF RemoveOne, files, process, operator, bounds, history
<1>17. CASE Removed
  BY <1>17, Zenon DEF Removed, files, process, operator, bounds, history
<1>18. CASE Check
  BY <1>18, Zenon DEF Check, Changed, files, process, operator, bounds, history
<1>19. CASE DestroyCa
  BY <1>19, Zenon DEF DestroyCa, files, process, operator, bounds, history, Goto
<1>20. CASE PrepareCa
  BY <1>20, Zenon DEF PrepareCa, files, process, operator, bounds, history, Goto
<1>21. CASE TruncateState
  BY <1>21, Zenon DEF TruncateState, files, process, operator, bounds, history, Goto
<1>22. CASE WriteState
  BY <1>22, Zenon DEF WriteState, files, process, operator, bounds, history, Goto
<1>23. ASSUME NEW n \in Names, Serve(n) PROVE TypedProcess'
  BY <1>23, Zenon DEF Serve, files, process, operator, bounds, history
<1>24. CASE Shutdown
  BY <1>24, Zenon DEF Shutdown, files, process, operator, bounds, history, Goto
<1>25. CASE Reprovision
  BY <1>25, Zenon DEF Reprovision, files, process, operator, bounds, history, Goto
<1>26. CASE Edit
  BY <1>26 DEF Edit, files, process, operator, bounds, history
<1>27. CASE UNCHANGED vars
  BY <1>27, Zenon DEF vars, files, process, operator, bounds, history
<1>28. CASE RequestReprovision \/ RestartApi
  BY <1>28, Zenon DEF RequestReprovision, RestartApi, files, operator, bounds, history
<1>29. CASE TakeRequest
  BY <1>29, Zenon DEF TakeRequest, files, operator, Goto
<1> QED
  BY <1>1, <1>2, <1>3, <1>4, <1>5, <1>6, <1>7, <1>8, <1>9, <1>10, <1>11, <1>12, <1>13, <1>14, <1>15, <1>16, <1>17, <1>18, <1>19, <1>20, <1>21, <1>22, <1>23, <1>24, <1>25, <1>26, <1>27, <1>28, <1>29, Zenon DEF Next, Step

(* What is written to the files is a digest, a device or a key.            *)
LEMMA FilesNext == Inv /\ [Next]_vars => TypedFiles'
<1> SUFFICES ASSUME Inv, [Next]_vars PROVE TypedFiles'
  BY Zenon
<1> USE DaemonAssumption DEF Inv, Typed, TypedProcess, TypedFiles, Asked, Digests, Cleared, Digest, Up
<1>1. CASE Boot
  BY <1>1, Zenon DEF Boot, ExternalResult, files, process, operator, bounds, history
<1>2. CASE Exit
  BY <1>2, Zenon DEF Exit, files, process, operator, bounds, history
<1>3. CASE PrepareKey
  BY <1>3 DEF PrepareKey, files, process, operator, bounds, history
<1>4. CASE ClearKey
  BY <1>4 DEF ClearKey, files, process, operator, bounds, history
<1>5. CASE WriteKey
  <2>1. keys' \in Nat
    BY <1>5 DEF WriteKey
  <2>2. hybrid' = [key |-> keys + 1, iv |-> hybrid.iv]
    BY <1>5, Zenon DEF WriteKey
  <2>3. hybrid' \in [key : Nat, iv : Nat]
    BY <2>2
  <2> QED
    BY <2>1, <2>3, <1>5, Zenon DEF WriteKey
<1>6. CASE WriteIv
  BY <1>6, Zenon DEF WriteIv, files, process, operator, bounds, history
<1>7. CASE Provision
  BY <1>7, Zenon DEF Provision, ManualResult, files, process, operator, bounds, history
<1>8. CASE Register
  BY <1>8 DEF Register, ActivateKey, files, process, operator, bounds, history
<1>9. CASE Assigned
  BY <1>9 DEF Assigned, DpsResult, ActivateKey, files, process, operator, bounds, history
<1>10. CASE TruncateBackup
  BY <1>10, Zenon DEF TruncateBackup, files, process, operator, bounds, history
<1>11. CASE WriteBackup
  BY <1>11, Zenon DEF WriteBackup, files, process, operator, bounds, history
<1>12. CASE ProvisionFails
  BY <1>12, Zenon DEF ProvisionFails, files, process, operator, bounds, history
<1>13. CASE InitRuntime
  BY <1>13, Zenon DEF InitRuntime, files, process, operator, bounds, history, Goto
<1>14. ASSUME NEW n \in Names, StopOne(n) PROVE TypedFiles'
  BY <1>14, Zenon DEF StopOne, files, process, operator, bounds, history
<1>15. CASE Stopped
  BY <1>15, Zenon DEF Stopped, files, process, operator, bounds, history
<1>16. ASSUME NEW n \in Names, RemoveOne(n) PROVE TypedFiles'
  BY <1>16, Zenon DEF RemoveOne, files, process, operator, bounds, history
<1>17. CASE Removed
  BY <1>17, Zenon DEF Removed, files, process, operator, bounds, history
<1>18. CASE Check
  BY <1>18, Zenon DEF Check, Changed, files, process, operator, bounds, history
<1>19. CASE DestroyCa
  BY <1>19, Zenon DEF DestroyCa, files, process, operator, bounds, history, Goto
<1>20. CASE PrepareCa
  BY <1>20, Zenon DEF PrepareCa, files, process, operator, bounds, history, Goto
<1>21. CASE TruncateState
  BY <1>21, Zenon DEF TruncateState, files, process, operator, bounds, history, Goto
<1>22. CASE WriteState
  BY <1>22, Zenon DEF WriteState, files, process, operator, bounds, history, Goto
<1>23. ASSUME NEW n \in Names, Serve(n) PROVE TypedFiles'
  BY <1>23, Zenon DEF Serve, files, process, operator, bounds, history
<1>24. CASE Shutdown
  BY <1>24, Zenon DEF Shutdown, files, process, operator, bounds, history, Goto
<1>25. CASE Reprovision
  BY <1>25, Zenon DEF Reprovision, files, process, operator, bounds, history, Goto
<1>26. CASE Edit
  BY <1>26 DEF Edit, files, process, operator, bounds, history
<1>27. CASE UNCHANGED vars
  BY <1>27, Zenon DEF vars, files, process, operator, bounds, history
<1>28. CASE RequestReprovision \/ RestartApi
  BY <1>28, Zenon DEF RequestReprovision, RestartApi, files, operator, bounds, history
<1>29. CASE TakeRequest
  BY <1>29, Zenon DEF TakeRequest, files, operator, Goto
<1> QED
  BY <1>1, <1>2, <1>3, <1>4, <1>5, <1>6, <1>7, <1>8, <1>9, <1>10, <1>11, <1>12, <1>13, <1>14, <1>15, <1>16, <1>17, <1>18, <1>19, <1>20, <1>21, <1>22, <1>23, <1>24, <1>25, <1>26, <1>27, <1>28, <1>29, Zenon DEF Next, Step

(* A container comes and goes as a whole, and changes its status.          *)
LEMMA ContainersNext == Inv /\ [Next]_vars => TypedContainers'
<1> SUFFICES ASSUME Inv, [Next]_vars PROVE TypedContainers'
  BY Zenon
<1> USE DaemonAssumption DEF Inv, Typed, TypedProcess, TypedFiles, TypedContainers, Container, Digests, NoContainer, Digest, Identity, Up
<1>1. CASE Boot
  <2>1. ASSUME NEW n \in Names PROVE containers'[n] \in Container
    <3>1. containers[n] \in Container
      BY Zenon
    <3>2. CASE containers[n].status = "fresh"
      BY <3>1, <3>2, <1>1, Zenon DEF Boot, ExternalResult
    <3>3. CASE containers[n].status # "fresh"
      BY <3>1, <3>3, <1>1, Zenon DEF Boot, ExternalResult
    <3> QED
      BY <3>2, <3>3, Zenon
  <2> HIDE DEF Container
  <2> QED
    BY <2>1, <1>1, Zenon DEF Boot, ExternalResult
<1>2. CASE Exit
  BY <1>2, Zenon DEF Exit, files, process, operator, bounds, history
<1>3. CASE PrepareKey
  BY <1>3, Zenon DEF PrepareKey, files, process, operator, bounds, history
<1>4. CASE ClearKey
  BY <1>4, Zenon DEF ClearKey, files, process, operator, bounds, history
<1>5. CASE WriteKey
  BY <1>5, Zenon DEF WriteKey, files, process, operator, bounds, history
<1>6. CASE WriteIv
  BY <1>6, Zenon DEF WriteIv, files, process, operator, bounds, history
<1>7. CASE Provision
  BY <1>7, Zenon DEF Provision, ManualResult, files, process, operator, bounds, history
<1>8. CASE Register
  BY <1>8, Zenon DEF Register, ActivateKey, files, process, operator, bounds, history
<1>9. CASE Assigned
  BY <1>9, Zenon DEF Assigned, DpsResult, ActivateKey, files, process, operator, bounds, history
<1>10. CASE TruncateBackup
  BY <1>10, Zenon DEF TruncateBackup, files, process, operator, bounds, history
<1>11. CASE WriteBackup
  BY <1>11, Zenon DEF WriteBackup, files, process, operator, bounds, history
<1>12. CASE ProvisionFails
  BY <1>12, Zenon DEF ProvisionFails, files, process, operator, bounds, history
<1>13. CASE InitRuntime
  BY <1>13, Zenon DEF InitRuntime, files, process, operator, bounds, history, Goto
<1>14. ASSUME NEW n \in Names, StopOne(n) PROVE TypedContainers'
  <2>1. [containers[n] EXCEPT !.status = "stopped"] \in Container
    <3> HIDE DEF Container
    <3> QED
      BY StatusStep, Zenon
  <2>2. containers' = [containers EXCEPT ![n] = [containers[n] EXCEPT !.status = "stopped"]]
    BY <1>14, Zenon DEF StopOne
  <2> QED
    BY <2>1, <2>2, ContainerStep, Zenon DEF Container
<1>15. CASE Stopped
  BY <1>15, Zenon DEF Stopped, files, process, operator, bounds, history
<1>16. ASSUME NEW n \in Names, RemoveOne(n) PROVE TypedContainers'
  BY <1>16, Zenon DEF RemoveOne, files, process, operator, bounds, history
<1>17. CASE Removed
  BY <1>17, Zenon DEF Removed, files, process, operator, bounds, history
<1>18. CASE Check
  BY <1>18, Zenon DEF Check, Changed, files, process, operator, bounds, history
<1>19. CASE DestroyCa
  BY <1>19, Zenon DEF DestroyCa, files, process, operator, bounds, history, Goto
<1>20. CASE PrepareCa
  BY <1>20, Zenon DEF PrepareCa, files, process, operator, bounds, history, Goto
<1>21. CASE TruncateState
  BY <1>21, Zenon DEF TruncateState, files, process, operator, bounds, history, Goto
<1>22. CASE WriteState
  BY <1>22, Zenon DEF WriteState, files, process, operator, bounds, history, Goto
<1>23. ASSUME NEW n \in Names, Serve(n) PROVE TypedContainers'
  <2> DEFINE new == [status |-> "stopped", digest |-> Digest, identity |-> Identity]
  <2>1. new \in Container
    <3>1. Digest \in Digests
      BY Zenon
    <3>2. Identity \in Nat \X Nat \X Nat \X Nat
      BY IdentityTyped, Zenon
    <3> HIDE DEF Digest, Identity, Digests
    <3> QED
      BY <3>1, <3>2, Zenon
  <2>2. /\ [containers[n] EXCEPT !.status = "fresh"] \in Container
        /\ [containers[n] EXCEPT !.status = "stopped"] \in Container
    <3> HIDE DEF Container
    <3> QED
      BY StatusStep, Zenon
  <2>4. NoContainer \in Container
    BY Zenon
  <2>3. \E c \in Container : containers' = [containers EXCEPT ![n] = c]
    <3>1. \/ containers' = [containers EXCEPT ![n] = new]
          \/ containers' = [containers EXCEPT ![n] = [containers[n] EXCEPT !.status = "fresh"]]
          \/ containers' = [containers EXCEPT ![n] = [containers[n] EXCEPT !.status = "stopped"]]
          \/ containers' = [containers EXCEPT ![n] = NoContainer]
      BY <1>23, Zenon DEF Serve
    <3> HIDE DEF new, Container, NoContainer
    <3> QED
      BY <3>1, <2>1, <2>2, <2>4, Zenon
  <2> HIDE DEF Container
  <2> QED
    BY <2>3, ContainerStep, Zenon
<1>24. CASE Shutdown
  BY <1>24, Zenon DEF Shutdown, files, process, operator, bounds, history, Goto
<1>25. CASE Reprovision
  BY <1>25, Zenon DEF Reprovision, files, process, operator, bounds, history, Goto
<1>26. CASE Edit
  BY <1>26, Zenon DEF Edit, files, process, operator, bounds, history
<1>27. CASE UNCHANGED vars
  BY <1>27, Zenon DEF vars, files, process, operator, bounds, history
<1>28. CASE RequestReprovision \/ RestartApi
  BY <1>28, Zenon DEF RequestReprovision, RestartApi, files, operator, bounds, history
<1>29. CASE TakeRequest
  BY <1>29, Zenon DEF TakeRequest, files, operator, Goto
<1> QED
  BY <1>1, <1>2, <1>3, <1>4, <1>5, <1>6, <1>7, <1>8, <1>9, <1>10, <1>11, <1>12, <1>13, <1>14, <1>15, <1>16, <1>17, <1>18, <1>19, <1>20, <1>21, <1>22, <1>23, <1>24, <1>25, <1>26, <1>27, <1>28, <1>29, Zenon DEF Next, Step

(* Only the polls of registration lead to a backup.                        *)
LEMMA AskedNext == Inv /\ [Next]_vars => Asked'
<1> SUFFICES ASSUME Inv, [Next]_vars PROVE Asked'
  BY Zenon
<1> USE DaemonAssumption DEF Inv, Typed, TypedProcess, TypedFiles, Asked, Config, Restorable, Up
<1>1. CASE Boot
  BY <1>1, Zenon DEF Boot, ExternalResult, files, process, operator, bounds, history
<1>2. CASE Exit
  BY <1>2, Zenon DEF Exit, files, process, operator, bounds, history
<1>3. CASE PrepareKey
  BY <1>3, Zenon DEF PrepareKey, files, process, operator, bounds, history
<1>4. CASE ClearKey
  BY <1>4, Zenon DEF ClearKey, files, process, operator, bounds, history
<1>5. CASE WriteKey
  BY <1>5, Zenon DEF WriteKey, files, process, operator, bounds, history
<1>6. CASE WriteIv
  BY <1>6, Zenon DEF WriteIv, files, process, operator, bounds, history
<1>7. CASE Provision
  BY <1>7, Zenon DEF Provision, ManualResult, files, process, operator, bounds, history
<1>8. CASE Register
  BY <1>8, Zenon DEF Register, ActivateKey, files, process, operator, bounds, history
<1>9. CASE Assigned
  BY <1>9, Zenon DEF Assigned, DpsResult, ActivateKey, files, process, operator, bounds, history
<1>10. CASE TruncateBackup
  BY <1>10, Zenon DEF TruncateBackup, files, process, operator, bounds, history
<1>11. CASE WriteBackup
  BY <1>11, Zenon DEF WriteBackup, files, process, operator, bounds, history
<1>12. CASE ProvisionFails
  BY <1>12, Zenon DEF ProvisionFails, files, process, operator, bounds, history
<1>13. CASE InitRuntime
  BY <1>13, Zenon DEF InitRuntime, files, process, operator, bounds, history, Goto
<1>14. ASSUME NEW n \in Names, StopOne(n) PROVE Asked'
  BY <1>14, Zenon DEF StopOne, files, process, operator, bounds, history
<1>15. CASE Stopped
  BY <1>15, Zenon DEF Stopped, files, process, operator, bounds, history
<1>16. ASSUME NEW n \in Names, RemoveOne(n) PROVE Asked'
  BY <1>16, Zenon DEF RemoveOne, files, process, operator, bounds, history
<1>17. CASE Removed
  BY <1>17, Zenon DEF Removed, files, process, operator, bounds, history
<1>18. CASE Check
  BY <1>18, Zenon DEF Check, Changed, files, process, operator, bounds, history
<1>19. CASE DestroyCa
  BY <1>19, Zenon DEF DestroyCa, files, process, operator, bounds, history, Goto
<1>20. CASE PrepareCa
  BY <1>20, Zenon DEF PrepareCa, files, process, operator, bounds, history, Goto
<1>21. CASE TruncateState
  BY <1>21, Zenon DEF TruncateState, files, process, operator, bounds, history, Goto
<1>22. CASE WriteState
  BY <1>22, Zenon DEF WriteState, files, process, operator, bounds, history, Goto
<1>23. ASSUME NEW n \in Names, Serve(n) PROVE Asked'
  BY <1>23, Zenon DEF Serve, files, process, operator, bounds, history
<1>24. CASE Shutdown
  BY <1>24, Zenon DEF Shutdown, files, process, operator, bounds, history, Goto
<1>25. CASE Reprovision
  BY <1>25, Zenon DEF Reprovision, files, process, operator, bounds, history, Goto
<1>26. CASE Edit
  BY <1>26, Zenon DEF Edit, files, process, operator, bounds, history
<1>27. CASE UNCHANGED vars
  BY <1>27, Zenon DEF vars, files, process, operator, bounds, history
<1>28. CASE RequestReprovision \/ RestartApi
  <2>1. UNCHANGED <<pc, settings, result, must_ask, backup>>
    BY <1>28, Zenon DEF RequestReprovision, RestartApi, files, history
  <2> QED
    BY <2>1, Zenon
<1>29. CASE TakeRequest
  BY <1>29, Zenon DEF TakeRequest, files, operator, Goto
<1> QED
  BY <1>1, <1>2, <1>3, <1>4, <1>5, <1>6, <1>7, <1>8, <1>9, <1>10, <1>11, <1>12, <1>13, <1>14, <1>15, <1>16, <1>17, <1>18, <1>19, <1>20, <1>21, <1>22, <1>23, <1>24, <1>25, <1>26, <1>27, <1>28, <1>29, Zenon DEF Next, Step

(* Whichever way a start takes, its device is the one the next start would *)
(* restore.                                                                *)
LEMMA SourcedNext == Inv /\ [Next]_vars => Sourced'
<1> SUFFICES ASSUME Inv, [Next]_vars PROVE Sourced'
  BY Zenon
<1> USE DaemonAssumption DEF Inv, Typed, TypedProcess, TypedFiles, Asked, Sourced, Config, Restorable, Restored, Provisioned, AfterStop, Up
<1>1. CASE Boot
  BY <1>1, Zenon DEF Boot, ExternalResult, files, process, operator, bounds, history
<1>2. CASE Exit
  BY <1>2, Zenon DEF Exit, files, process, operator, bounds, history
<1>3. CASE PrepareKey
  BY <1>3, Zenon DEF PrepareKey, files, process, operator, bounds, history
<1>4. CASE ClearKey
  BY <1>4, Zenon DEF ClearKey, files, process, operator, bounds, history
<1>5. CASE WriteKey
  BY <1>5, Zenon DEF WriteKey, files, process, operator, bounds, history
<1>6. CASE WriteIv
  BY <1>6, Zenon DEF WriteIv, files, process, operator, bounds, history
<1>7. CASE Provision
  <2> HIDE DEF Restored
  <2>1. UNCHANGED <<settings, backup, must_ask>>
    BY <1>7, Zenon DEF Provision, ManualResult, files, history
  <2>2. pc = "provision"
    BY <1>7, Zenon DEF Provision, ManualResult
  <2> HIDE DEF TypedProcess, TypedFiles
  <2> QED
    BY <2>1, <2>2, <1>7, ProvisionCases, RestoredSound
<1>8. CASE Register
  BY <1>8, Zenon DEF Register, ActivateKey, files, process, operator, bounds, history
<1>9. CASE Assigned
  BY <1>9, Zenon DEF Assigned, DpsResult, ActivateKey, files, process, operator, bounds, history
<1>10. CASE TruncateBackup
  BY <1>10, Zenon DEF TruncateBackup, files, process, operator, bounds, history
<1>11. CASE WriteBackup
  BY <1>11, Zenon DEF WriteBackup, files, process, operator, bounds, history
<1>12. CASE ProvisionFails
  BY <1>12 DEF ProvisionFails, files, process, operator, bounds, history
<1>13. CASE InitRuntime
  BY <1>13, Zenon DEF InitRuntime, files, process, operator, bounds, history, Goto
<1>14. ASSUME NEW n \in Names, StopOne(n) PROVE Sourced'
  BY <1>14, Zenon DEF StopOne, files, process, operator, bounds, history
<1>15. CASE Stopped
  BY <1>15, Zenon DEF Stopped, files, process, operator, bounds, history
<1>16. ASSUME NEW n \in Names, RemoveOne(n) PROVE Sourced'
  BY <1>16, Zenon DEF RemoveOne, files, process, operator, bounds, history
<1>17. CASE Removed
  BY <1>17, Zenon DEF Removed, files, process, operator, bounds, history
<1>18. CASE Check
  BY <1>18, Zenon DEF Check, Changed, files, process, operator, bounds, history
<1>19. CASE DestroyCa
  BY <1>19, Zenon DEF DestroyCa, files, process, operator, bounds, history, Goto
<1>20. CASE PrepareCa
  BY <1>20, Zenon DEF PrepareCa, files, process, operator, bounds, history, Goto
<1>21. CASE TruncateState
  BY <1>21, Zenon DEF TruncateState, files, process, operator, bounds, history, Goto
<1>22. CASE WriteState
  BY <1>22, Zenon DEF WriteState, files, process, operator, bounds, history, Goto
<1>23. ASSUME NEW n \in Names, Serve(n) PROVE Sourced'
  BY <1>23, Zenon DEF Serve, files, process, operator, bounds, history
<1>24. CASE Shutdown
  BY <1>24, Zenon DEF Shutdown, files, process, operator, bounds, history, Goto
<1>25. CASE Reprovision
  BY <1>25, Zenon DEF Reprovision, files, process, operator, bounds, history, Goto
<1>26. CASE Edit
  BY <1>26, Zenon DEF Edit, files, process, operator, bounds, history
<1>27. CASE UNCHANGED vars
  BY <1>27, Zenon DEF vars, files, process, operator, bounds, history
<1>28. CASE RequestReprovision \/ RestartApi
  <2>1. UNCHANGED <<pc, settings, result, must_ask, backup>>
    BY <1>28, Zenon DEF RequestReprovision, RestartApi, files, history
  <2> QED
    BY <2>1, Zenon
<1>29. CASE TakeRequest
  BY <1>29, Zenon DEF TakeRequest, files, operator, Goto
<1> QED
  BY <1>1, <1>2, <1>3, <1>4, <1>5, <1>6, <1>7, <1>8, <1>9, <1>10, <1>11, <1>12, <1>13, <1>14, <1>15, <1>16, <1>17, <1>18, <1>19, <1>20, <1>21, <1>22, <1>23, <1>24, <1>25, <1>26, <1>27, <1>28, <1>29, Zenon DEF Next, Step

(* Modules are removed, the workload CA is made and the digest is saved in *)
(* an order in which a start may end anywhere.                             *)
LEMMA SavedNext == Inv /\ [Next]_vars => Saved'
<1> SUFFICES ASSUME Inv, [Next]_vars PROVE Saved'
  BY Zenon
<1> USE DaemonAssumption DEF Inv, Typed, TypedProcess, TypedFiles, TypedContainers, Container, Saved, Present, AfterStop, Digest, NoContainer, Up
<1>1. CASE Boot
  BY <1>1 DEF Boot, ExternalResult, files, process, operator, bounds, history
<1>2. CASE Exit
  BY <1>2, Zenon DEF Exit, files, process, operator, bounds, history
<1>3. CASE PrepareKey
  BY <1>3, Zenon DEF PrepareKey, files, process, operator, bounds, history
<1>4. CASE ClearKey
  BY <1>4, Zenon DEF ClearKey, files, process, operator, bounds, history
<1>5. CASE WriteKey
  BY <1>5, Zenon DEF WriteKey, files, process, operator, bounds, history
<1>6. CASE WriteIv
  BY <1>6, Zenon DEF WriteIv, files, process, operator, bounds, history
<1>7. CASE Provision
  <2>1. pc = "provision" /\ pc' \in {"runtime", "register"}
    BY <1>7, ProvisionCases, Zenon DEF Provision, ManualResult
  <2>2. UNCHANGED <<settings_state, workload_ca, containers, settings, thumbprint>>
    BY <1>7, Zenon DEF Provision, ManualResult, files, process
  <2> QED
    BY <2>1, <2>2, Zenon
<1>8. CASE Register
  BY <1>8, Zenon DEF Register, ActivateKey, files, process, operator, bounds, history
<1>9. CASE Assigned
  BY <1>9, Zenon DEF Assigned, DpsResult, ActivateKey, files, process, operator, bounds, history
<1>10. CASE TruncateBackup
  BY <1>10, Zenon DEF TruncateBackup, files, process, operator, bounds, history
<1>11. CASE WriteBackup
  BY <1>11, Zenon DEF WriteBackup, files, process, operator, bounds, history
<1>12. CASE ProvisionFails
  BY <1>12, Zenon DEF ProvisionFails, files, process, operator, bounds, history
<1>13. CASE InitRuntime
  BY <1>13, Zenon DEF InitRuntime, files, process, operator, bounds, history, Goto
<1>14. ASSUME NEW n \in Names, StopOne(n) PROVE Saved'
  BY <1>14 DEF StopOne, files, process, operator, bounds, history
<1>15. CASE Stopped
  BY <1>15, Zenon DEF Stopped, files, process, operator, bounds, history
<1>16. ASSUME NEW n \in Names, RemoveOne(n) PROVE Saved'
  BY <1>16, Zenon DEF RemoveOne, files, process, operator, bounds, history
<1>17. CASE Removed
  BY <1>17, Zenon DEF Removed, files, process, operator, bounds, history
<1>18. CASE Check
  BY <1>18, Zenon DEF Check, Changed, files, process, operator, bounds, history
<1>19. CASE DestroyCa
  BY <1>19, Zenon DEF DestroyCa, files, process, operator, bounds, history, Goto
<1>20. CASE PrepareCa
  BY <1>20, Zenon DEF PrepareCa, files, process, operator, bounds, history, Goto
<1>21. CASE TruncateState
  BY <1>21, Zenon DEF TruncateState, files, process, operator, bounds, history, Goto
<1>22. CASE WriteState
  BY <1>22, Zenon DEF WriteState, files, process, operator, bounds, history, Goto
<1>23. ASSUME NEW n \in Names, Serve(n) PROVE Saved'
  <2>1. Up /\ UNCHANGED <<pc, settings_state, workload_ca, settings, thumbprint>>
    BY <1>23, Zenon DEF Serve, files, process
  <2>2. settings_state = Digest /\ Digest' = Digest
    BY <2>1, Zenon
  <2>3. ASSUME NEW m \in Names
        PROVE  /\ containers'[m].status # "stale"
               /\ containers'[m].status # "none" => containers'[m].digest = settings_state
    <3>1. /\ containers[m].status # "stale"
          /\ containers[m].status # "none" => containers[m].digest = settings_state
      BY <2>1, Zenon
    <3>2. CASE m = n
      <4>1. containers \in [Names -> Container] /\ containers[n] \in Container
        BY Zenon
      <4>2. CASE containers' = [containers EXCEPT ![n] = NoContainer]
        BY <3>2, <4>1, <4>2
      <4>3. CASE \E s \in {"fresh", "stopped"} : containers' = [containers EXCEPT ![n].status = s]
                 /\ containers[n].status # "none"
        BY <3>1, <3>2, <4>1, <4>3
      <4>4. CASE containers' = [containers EXCEPT ![n] = [status |-> "stopped", digest |-> Digest,
                                                          identity |-> Identity]]
        BY <2>2, <3>2, <4>1, <4>4
      <4> QED BY <1>23, <4>2, <4>3, <4>4, Zenon DEF Serve
    <3>3. CASE m # n
      BY <1>23, <3>1, <3>3, Zenon DEF Serve
    <3> QED
      BY <3>2, <3>3, Zenon
  <2> HIDE DEF Digest
  <2> QED
    BY <2>1, <2>2, <2>3, Zenon
<1>24. CASE Shutdown
  BY <1>24, Zenon DEF Shutdown, files, process, operator, bounds, history, Goto
<1>25. CASE Reprovision
  BY <1>25, Zenon DEF Reprovision, files, process, operator, bounds, history, Goto
<1>26. CASE Edit
  BY <1>26, Zenon DEF Edit, files, process, operator, bounds, history
<1>27. CASE UNCHANGED vars
  BY <1>27, Zenon DEF vars, files, process, operator, bounds, history
<1>28. CASE RequestReprovision \/ RestartApi
  BY <1>28, Zenon DEF RequestReprovision, RestartApi, files, operator, bounds, history
<1>29. CASE TakeRequest
  BY <1>29, Zenon DEF TakeRequest, files, operator, Goto
<1> QED
  BY <1>1, <1>2, <1>3, <1>4, <1>5, <1>6, <1>7, <1>8, <1>9, <1>10, <1>11, <1>12, <1>13, <1>14, <1>15, <1>16, <1>17, <1>18, <1>19, <1>20, <1>21, <1>22, <1>23, <1>24, <1>25, <1>26, <1>27, <1>28, <1>29, Zenon DEF Next, Step

(* A start that goes on has a key that it read or made.                    *)
LEMMA KeyNext == Inv /\ [Next]_vars => KeyReady'
<1> SUFFICES ASSUME Inv, [Next]_vars PROVE KeyReady'
  BY Zenon
<1> USE DaemonAssumption DEF Inv, Typed, TypedProcess, TypedFiles, KeyReady, Valid, Usable, Cleared, UsesX509, Up
<1>1. CASE Boot
  BY <1>1, Zenon DEF Boot, ExternalResult, files, process, operator, bounds, history
<1>2. CASE Exit
  BY <1>2, Zenon DEF Exit, files, process, operator, bounds, history
<1>3. CASE PrepareKey
  BY <1>3 DEF PrepareKey, files, process, operator, bounds, history
<1>4. CASE ClearKey
  BY <1>4 DEF ClearKey, files, process, operator, bounds, history
<1>5. CASE WriteKey
  BY <1>5 DEF WriteKey, files, process, operator, bounds, history
<1>6. CASE WriteIv
  BY <1>6, Zenon DEF WriteIv, files, process, operator, bounds, history
<1>7. CASE Provision
  <2>1. pc = "provision" /\ pc' \in {"runtime", "register"}
    BY <1>7, ProvisionCases, Zenon DEF Provision, ManualResult
  <2>2. UNCHANGED <<hybrid, keys, settings>>
    BY <1>7, Zenon DEF Provision, ManualResult, files, process
  <2> QED
    BY <2>1, <2>2, Zenon
<1>8. CASE Register
  BY <1>8 DEF Register, ActivateKey, files, process, operator, bounds, history
<1>9. CASE Assigned
  BY <1>9 DEF Assigned, DpsResult, ActivateKey, files, process, operator, bounds, history
<1>10. CASE TruncateBackup
  BY <1>10, Zenon DEF TruncateBackup, files, process, operator, bounds, history
<1>11. CASE WriteBackup
  BY <1>11, Zenon DEF WriteBackup, files, process, operator, bounds, history
<1>12. CASE ProvisionFails
  BY <1>12, Zenon DEF ProvisionFails, files, process, operator, bounds, history
<1>13. CASE InitRuntime
  BY <1>13, Zenon DEF InitRuntime, files, process, operator, bounds, history, Goto
<1>14. ASSUME NEW n \in Names, StopOne(n) PROVE KeyReady'
  BY <1>14, Zenon DEF StopOne, files, process, operator, bounds, history
<1>15. CASE Stopped
  BY <1>15, Zenon DEF Stopped, files, process, operator, bounds, history
<1>16. ASSUME NEW n \in Names, RemoveOne(n) PROVE KeyReady'
  BY <1>16, Zenon DEF RemoveOne, files, process, operator, bounds, history
<1>17. CASE Removed
  BY <1>17, Zenon DEF Removed, files, process, operator, bounds, history
<1>18. CASE Check
  BY <1>18, Zenon DEF Check, Changed, files, process, operator, bounds, history
<1>19. CASE DestroyCa
  BY <1>19, Zenon DEF DestroyCa, files, process, operator, bounds, history, Goto
<1>20. CASE PrepareCa
  BY <1>20, Zenon DEF PrepareCa, files, process, operator, bounds, history, Goto
<1>21. CASE TruncateState
  BY <1>21, Zenon DEF TruncateState, files, process, operator, bounds, history, Goto
<1>22. CASE WriteState
  BY <1>22, Zenon DEF WriteState, files, process, operator, bounds, history, Goto
<1>23. ASSUME NEW n \in Names, Serve(n) PROVE KeyReady'
  BY <1>23, Zenon DEF Serve, files, process, operator, bounds, history
<1>24. CASE Shutdown
  BY <1>24, Zenon DEF Shutdown, files, process, operator, bounds, history, Goto
<1>25. CASE Reprovision
  BY <1>25, Zenon DEF Reprovision, files, process, operator, bounds, history, Goto
<1>26. CASE Edit
  BY <1>26 DEF Edit, files, process, operator, bounds, history
<1>27. CASE UNCHANGED vars
  BY <1>27, Zenon DEF vars, files, process, operator, bounds, history
<1>28. CASE RequestReprovision \/ RestartApi
  BY <1>28, Zenon DEF RequestReprovision, RestartApi, files, operator, bounds, history
<1>29. CASE TakeRequest
  BY <1>29, Zenon DEF TakeRequest, files, operator, Goto
<1> QED
  BY <1>1, <1>2, <1>3, <1>4, <1>5, <1>6, <1>7, <1>8, <1>9, <1>10, <1>11, <1>12, <1>13, <1>14, <1>15, <1>16, <1>17, <1>18, <1>19, <1>20, <1>21, <1>22, <1>23, <1>24, <1>25, <1>26, <1>27, <1>28, <1>29, Zenon DEF Next, Step


(* What is left by a removal whose errors are ignored is the key, or is no *)
(* usable key.                                                             *)
LEMMA ClearedKey ==
  ASSUME Typed, hybrid' \in Cleared
  PROVE  hybrid' = hybrid \/ ~Usable(hybrid')
BY DEF Typed, TypedFiles, Cleared, Usable

(* Losing the key does not make a container derive from another.           *)
LEMMA DerivedKept ==
  ASSUME NEW c, NEW d, d.digest = c.digest, d.identity = c.identity,
         NEW b, NEW h, NEW g, g = h \/ ~Usable(g), NEW t, Derived(c, b, h, t)
  PROVE  Derived(d, b, g, t)
BY Zenon DEF Derived

(* In the window nothing is claimed of the containers.                     *)
LEMMA TracedInWindow ==
  ASSUME pc' \notin {"check", "serve", "stopping"}, Window' \/ interrupted'
  PROVE  Traced'
BY Zenon DEF Traced, IdentityCurrent, Up

(* Outside, a step that neither ends the start nor changes backup, TPM key *)
(* or containers, but for removals and stops, keeps what is claimed.       *)
LEMMA TracedKept ==
  ASSUME Traced, pc' \notin {"check", "serve", "stopping"}, UNCHANGED <<backup, tpm>>,
         hybrid' = hybrid \/ ~Usable(hybrid'),
         \A n \in Present' : /\ n \in Present
                             /\ containers'[n].digest = containers[n].digest
                             /\ containers'[n].identity = containers[n].identity,
         ~interrupted' /\ ~Window' => ~interrupted /\ ~Window
  PROVE  Traced'
<1>1. ASSUME ~interrupted', ~Window', NEW n \in Present'
      PROVE  Derived(containers'[n], backup', hybrid', tpm')
  <2>1. Derived(containers[n], backup, hybrid, tpm)
    BY <1>1, Zenon DEF Traced
  <2> QED
    BY <1>1, <2>1, DerivedKept, Zenon
<1> QED
  BY <1>1, Zenon DEF Traced, IdentityCurrent, Up

(* So does a step that changes nothing of this.                            *)
LEMMA TracedSame ==
  ASSUME Traced,
         UNCHANGED <<containers, pc, settings, thumbprint, force, result, hybrid, backup, tpm, interrupted>>
  PROVE  Traced'
<1>1. Present' = Present /\ Window' = Window /\ Identity' = Identity
  BY Zenon DEF Present, Window, Identity
<1> QED
  BY <1>1, Zenon DEF Traced, IdentityCurrent, Up

(* A container that derives from the files of a daemon that is ready to    *)
(* serve, and has the digest of its settings, has its identity.            *)
LEMMA DerivedCurrent ==
  ASSUME Inv, pc = "check", ~result.reconfigure, NEW n \in Present,
         containers[n].digest = Digest, Derived(containers[n], backup, hybrid, tpm)
  PROVE  containers[n].identity = Identity
<1> DEFINE i == containers[n].identity
<1>1. containers[n].digest[1] = settings /\ containers[n].digest[2] = thumbprint
  BY DEF Digest
<1>2. settings.source \in {"manual", "dps"}
  BY DaemonAssumption, Zenon DEF Inv, Typed, TypedProcess, Config, Sourced
<1>3. i[1] = result.device
  <2>1. CASE settings.source = "manual"
    BY <1>1, <2>1, Zenon DEF Derived, Inv, Sourced, Provisioned, AfterStop
  <2>2. CASE settings.source = "dps"
    <3>1. backup = <<result.device>>
      BY <2>2, Zenon DEF Inv, Sourced, Provisioned, AfterStop
    <3>2. backup = << >> \/ backup = <<i[1]>>
      BY <1>1, <2>2, Zenon DEF Derived
    <3> QED
      BY <3>1, <3>2, Zenon
  <2> QED
    BY <1>2, <2>1, <2>2, Zenon
<1>4. i[2] = IF UsesX509(settings) THEN hybrid.key ELSE 0
  BY <1>1, Zenon DEF Derived, Inv, KeyReady, Valid
<1>5. i[3] = thumbprint /\ i[4] = IF settings.auth = "tpm" THEN tpm ELSE 0
  BY <1>1, Zenon DEF Derived
<1>6. i = <<i[1], i[2], i[3], i[4]>>
  BY DEF Derived
<1> HIDE DEF i
<1>7. i = Identity
  BY <1>3, <1>4, <1>5, <1>6, Zenon DEF Identity
<1> QED
  BY <1>7, Zenon DEF i

(* A container that a serving daemon creates derives from its files.       *)
LEMMA IdentityDerived ==
  ASSUME Inv, Up, NEW c, c.digest = Digest, c.identity = Identity
  PROVE  Derived(c, backup, hybrid, tpm)
<1>1. c.digest[1] = settings /\ c.digest[2] = thumbprint /\ c.digest \in Digests
  BY DEF Digest, Digests, Inv, Typed, TypedProcess
<1>2. /\ c.identity[1] = result.device
      /\ c.identity[2] = IF UsesX509(settings) THEN hybrid.key ELSE 0
      /\ c.identity[3] = thumbprint
      /\ c.identity[4] = IF settings.auth = "tpm" THEN tpm ELSE 0
  BY DEF Identity
<1>3. c.identity \in Nat \X Nat \X Nat \X Nat
  BY IdentityTyped, Zenon DEF Inv
<1> QED
  BY <1>1, <1>2, <1>3, Zenon DEF Derived, Inv, Sourced, Provisioned, AfterStop, Up

(* Every step keeps the trace from containers to files.                    *)
LEMMA TracedNext == Inv /\ [Next]_vars => Traced'
<1> SUFFICES ASSUME Inv, [Next]_vars PROVE Traced'
  BY Zenon
<1> USE DEF files, process, operator, bounds, history
<1>1. Traced /\ Typed
  BY Zenon DEF Inv
<1>2. ASSUME UNCHANGED containers
      PROVE  \A n \in Present' : /\ n \in Present
                                 /\ containers'[n].digest = containers[n].digest
                                 /\ containers'[n].identity = containers[n].identity
  BY <1>2, Zenon DEF Present
<1>3. CASE Boot
  <2>1. \A n \in Present' : /\ n \in Present
                            /\ containers'[n].digest = containers[n].digest
                            /\ containers'[n].identity = containers[n].identity
    BY <1>1, <1>3, Zenon DEF Boot, ExternalResult, Present, Typed, TypedContainers, Container
  <2> QED
    BY <1>1, <1>3, <2>1, TracedKept, Zenon DEF Boot, ExternalResult, Window
<1>4. CASE Exit
  BY <1>1, <1>2, <1>4, TracedKept, Zenon DEF Exit
<1>5. CASE PrepareKey
  <2>1. hybrid' = hybrid \/ ~Usable(hybrid')
    BY <1>1, <1>5, ClearedKey, Zenon DEF PrepareKey
  <2> QED
    BY <1>1, <1>2, <1>5, <2>1, TracedKept, Zenon DEF PrepareKey, Window
<1>6. CASE ClearKey
  <2>1. hybrid' = hybrid \/ ~Usable(hybrid')
    BY <1>1, <1>6, ClearedKey, Zenon DEF ClearKey
  <2> QED
    BY <1>1, <1>2, <1>6, <2>1, TracedKept, Zenon DEF ClearKey, Window
<1>7. CASE WriteKey
  BY <1>7, TracedInWindow, Zenon DEF WriteKey, Window
<1>8. CASE WriteIv
  BY <1>8, TracedInWindow, Zenon DEF WriteIv, Window
<1>9. CASE Provision
  <2>1. pc = "provision" /\ pc' \in {"runtime", "register"}
    BY <1>1, <1>9, ProvisionCases, Zenon DEF Provision, ManualResult
  <2>2. UNCHANGED <<containers, force, backup, tpm, hybrid, interrupted>>
    BY <1>9, Zenon DEF Provision, ManualResult
  <2> QED
    BY <1>1, <1>2, <2>1, <2>2, TracedKept, Zenon DEF Window
<1>10. CASE Register
  BY <1>10, TracedInWindow, Zenon DEF Register, ActivateKey, Window, Inv, Asked
<1>11. CASE Assigned
  BY <1>11, TracedInWindow, Zenon DEF Assigned, DpsResult, ActivateKey, Window, Inv, Asked
<1>12. CASE TruncateBackup
  BY <1>12, TracedInWindow, Zenon DEF TruncateBackup, Window, Inv, Asked
<1>13. CASE WriteBackup
  BY <1>13, TracedInWindow, Zenon DEF WriteBackup, Window, Inv, Asked
<1>14. CASE ProvisionFails
  <2>1. pc' \in {"runtime", "down"} /\ interrupted' = (interrupted \/ Window)
    BY <1>14, Zenon DEF ProvisionFails
  <2> QED
    BY <1>1, <1>2, <1>14, <2>1, TracedKept, Zenon DEF ProvisionFails
<1>15. CASE InitRuntime
  BY <1>1, <1>2, <1>15, TracedKept, Zenon DEF InitRuntime, Goto, Window
<1>16. ASSUME NEW n \in Names, StopOne(n) PROVE Traced'
  <2>1. \A m \in Present' : /\ m \in Present
                            /\ containers'[m].digest = containers[m].digest
                            /\ containers'[m].identity = containers[m].identity
    BY <1>1, <1>16, Zenon DEF StopOne, Present, Typed, TypedContainers, Container
  <2> QED
    BY <1>1, <1>16, <2>1, TracedKept, Zenon DEF StopOne, Window
<1>17. CASE Stopped
  <2>1. CASE force \/ result.reconfigure
    BY <1>1, <1>2, <1>17, <2>1, TracedKept, Zenon DEF Stopped, Window
  <2>2. CASE ~force /\ ~result.reconfigure
    <3>1. ~Window /\ UNCHANGED <<Present, containers, backup, hybrid, tpm, interrupted, result, force>>
      BY <1>17, <2>2, Zenon DEF Stopped, Window, Present
    <3>2. pc' = "check"
      BY <1>17, <2>2, Zenon DEF Stopped
    <3> QED
      BY <1>1, <2>2, <3>1, <3>2, Zenon DEF Traced, IdentityCurrent, Up
  <2> QED
    BY <2>1, <2>2, Zenon
<1>18. ASSUME NEW n \in Names, RemoveOne(n) PROVE Traced'
  <2>1. \A m \in Present' : /\ m \in Present
                            /\ containers'[m].digest = containers[m].digest
                            /\ containers'[m].identity = containers[m].identity
    BY <1>1, <1>18, Zenon DEF RemoveOne, Present, NoContainer, Typed, TypedContainers
  <2> QED
    BY <1>1, <1>18, <2>1, TracedKept, Zenon DEF RemoveOne, Window
<1>19. CASE Removed
  <2>1. Present' = {}
    BY <1>19, Zenon DEF Removed, Present
  <2> QED
    BY <2>1, Zenon DEF Traced, IdentityCurrent, Up
<1>20. CASE Check
  <2>1. CASE pc' = "reconfigure"
    BY <1>1, <1>2, <1>20, <2>1, TracedKept, Zenon DEF Check, Changed, Window
  <2>2. CASE pc' = "serve"
    <3>1. /\ settings_state = Digest /\ pc = "check"
          /\ UNCHANGED <<containers, backup, hybrid, tpm, interrupted, result, settings, thumbprint>>
      BY <1>20, <2>2, Zenon DEF Check, Changed
    <3>2. Present' = Present /\ Identity' = Identity /\ ~Window
      BY <3>1, Zenon DEF Present, Identity, Window
    <3>3. ASSUME ~interrupted, NEW n \in Present
          PROVE  containers[n].identity = Identity /\ Derived(containers[n], backup, hybrid, tpm)
      <4>1. ~result.reconfigure
        BY <1>1, <3>1, <3>3, Zenon DEF Traced
      <4>2. Derived(containers[n], backup, hybrid, tpm)
        BY <1>1, <3>2, <3>3, Zenon DEF Traced
      <4>3. containers[n].digest = Digest
        BY <3>1, Zenon DEF Inv, Saved
      <4> QED
        BY <3>1, <4>1, <4>2, <4>3, DerivedCurrent, Zenon
    <3> QED
      BY <2>2, <3>1, <3>2, <3>3, Zenon DEF Traced, IdentityCurrent, Up
  <2> QED
    BY <1>20, <2>1, <2>2, Zenon DEF Check, Changed
<1>21. CASE DestroyCa \/ PrepareCa \/ TruncateState
  <2>1. /\ pc \in {"destroy_ca", "ca", "truncate_state"} /\ pc' \in {"ca", "truncate_state", "state"}
        /\ UNCHANGED <<containers, backup, hybrid, tpm, interrupted>>
    BY <1>21, Zenon DEF DestroyCa, PrepareCa, TruncateState, Goto
  <2>2. ~Window
    BY <2>1, Zenon DEF Window
  <2> QED
    BY <1>1, <1>2, <2>1, <2>2, TracedKept, Zenon
<1>22. CASE WriteState
  <2>1. Present' = {}
    BY <1>22, Zenon DEF WriteState, Goto, Present, Inv, Saved
  <2> QED
    BY <2>1, Zenon DEF Traced, IdentityCurrent, Up
<1>23. ASSUME NEW n \in Names, Serve(n) PROVE Traced'
  <2>1. /\ Up /\ pc' = pc
        /\ UNCHANGED <<backup, hybrid, tpm, interrupted, result, settings, thumbprint>>
    BY <1>23, Zenon DEF Serve
  <2>2. ~Window /\ Identity' = Identity
    BY <2>1, Zenon DEF Window, Identity, Up
  <2>3. ASSUME NEW m \in Present'
        PROVE  \/ /\ m \in Present
                  /\ containers'[m].digest = containers[m].digest
                  /\ containers'[m].identity = containers[m].identity
               \/ containers'[m].digest = Digest /\ containers'[m].identity = Identity
    <3>1. CASE m = n
      BY <1>1, <1>23, <3>1 DEF Serve, Present, NoContainer, Typed, TypedContainers, Container
    <3>2. CASE m # n
      BY <1>1, <1>23, <3>2, Zenon DEF Serve, Present, Typed, TypedContainers
    <3> QED
      BY <3>1, <3>2, Zenon
  <2>4. ASSUME ~interrupted, NEW m \in Present'
        PROVE  containers'[m].identity = Identity /\ Derived(containers'[m], backup, hybrid, tpm)
    <3>1. CASE containers'[m].digest = Digest /\ containers'[m].identity = Identity
      BY <2>1, <3>1, IdentityDerived, Zenon
    <3>2. CASE /\ m \in Present
               /\ containers'[m].digest = containers[m].digest
               /\ containers'[m].identity = containers[m].identity
      <4>1. containers[m].identity = Identity /\ Derived(containers[m], backup, hybrid, tpm)
        BY <1>1, <2>1, <2>2, <2>4, <3>2, Zenon DEF Traced, IdentityCurrent, Up
      <4> QED
        BY <3>2, <4>1, DerivedKept, Zenon
    <3> QED
      BY <2>3, <3>1, <3>2, Zenon
  <2> QED
    BY <2>1, <2>2, <2>4, Zenon DEF Traced, IdentityCurrent, Up
<1>24. CASE Shutdown
  BY <1>1, <1>2, <1>24, TracedKept, Zenon DEF Shutdown, Goto, Window
<1>25. CASE Reprovision
  <2>1. pc = "stopping" /\ pc' = "down" /\ UNCHANGED <<containers, hybrid, tpm, interrupted>>
    BY <1>25, Zenon DEF Reprovision, Goto
  <2>2. Present' = Present /\ ~Window
    BY <2>1, Zenon DEF Present, Window
  <2>3. backup' = << >> \/ backup' = backup
    BY <1>25, Zenon DEF Reprovision
  <2>4. ASSUME ~interrupted, NEW n \in Present PROVE Derived(containers[n], backup', hybrid, tpm)
    <3>1. Derived(containers[n], backup, hybrid, tpm)
      BY <1>1, <2>2, <2>4, Zenon DEF Traced
    <3> QED
      BY <2>3, <3>1, Zenon DEF Derived
  <2> QED
    BY <2>1, <2>2, <2>4, Zenon DEF Traced, IdentityCurrent, Up
<1>26. CASE Edit
  <2>1. CASE pc = "down"
    <3>1. hybrid' = hybrid \/ ~Usable(hybrid')
      BY <1>1, <1>26, ClearedKey, Zenon DEF Edit
    <3> QED
      BY <1>1, <1>2, <1>26, <2>1, <3>1, TracedKept, Zenon DEF Edit, Window
  <2>2. CASE pc # "down"
    BY <1>1, <1>26, <2>2, TracedSame, Zenon DEF Edit
  <2> QED
    BY <2>1, <2>2, Zenon
<1>27. CASE UNCHANGED vars
  BY <1>1, <1>27, TracedSame, Zenon DEF vars
<1>28. CASE RequestReprovision \/ RestartApi
  BY <1>1, <1>28, TracedSame, Zenon DEF RequestReprovision, RestartApi
<1>29. CASE TakeRequest
  <2>1. /\ pc = "serve" /\ pc' = "stopping"
        /\ UNCHANGED <<containers, backup, hybrid, tpm, interrupted, result, settings, thumbprint>>
    BY <1>29, Zenon DEF TakeRequest, Goto
  <2>2. Present' = Present /\ Identity' = Identity /\ ~Window
    BY <2>1, Zenon DEF Present, Identity, Window
  <2> QED
    BY <1>1, <2>1, <2>2, Zenon DEF Traced, IdentityCurrent, Up
<1> QED
  BY <1>3, <1>4, <1>5, <1>6, <1>7, <1>8, <1>9, <1>10, <1>11, <1>12, <1>13, <1>14, <1>15, <1>16,
     <1>17, <1>18, <1>19, <1>20, <1>21, <1>22, <1>23, <1>24, <1>25, <1>26, <1>27, <1>28, <1>29 DEF Next, Step
-----------------------------------------------------------------------------
(* A device that was never started has no files, keys and modules.         *)
LEMMA InitInv == Init => Inv
<1> SUFFICES ASSUME Init PROVE Inv
  BY Zenon
<1>1. Typed
  <2>1. containers \in [Names -> Container]
    BY Zenon DEF Init, NoContainer, Container
  <2> QED
    BY <2>1, Zenon DEF Init, Typed, TypedProcess, TypedFiles, TypedContainers, NoResult, Pcs
<1>2. Present = {}
  BY Zenon DEF Init, Present, NoContainer
<1>3. pc = "down" /\ ~must_ask /\ hybrid = [key |-> 0, iv |-> 0] /\ keys = 0
  BY Zenon DEF Init
<1>4. Asked /\ Sourced
  BY <1>3, Zenon DEF Asked, Sourced, Provisioned, AfterStop
<1>5. Saved /\ KeyReady
  BY <1>2, <1>3 DEF Saved, KeyReady, AfterStop, Up
<1>6. Traced
  BY <1>2, <1>3, Zenon DEF Traced, IdentityCurrent, Up
<1> QED
  BY <1>1, <1>4, <1>5, <1>6, Zenon DEF Inv

(* The invariant is inductive.                                             *)
LEMMA Invariance == Spec => []Inv
<1>1. Inv /\ [Next]_vars => Inv'
  BY ProcessNext, FilesNext, ContainersNext, AskedNext, SourcedNext, SavedNext, KeyNext, TracedNext, Zenon
     DEF Inv, Typed
<1> QED
  BY InitInv, <1>1, PTL DEF Spec

(* The files, the containers and the process always have their types.      *)
THEOREM DaemonTyped == Spec => []TypeOK
<1>1. Inv => TypeOK
  BY Zenon DEF Inv, Typed, TypedProcess, TypedFiles, TypedContainers, Digests, Container, TypeOK
<1> QED
  BY Invariance, <1>1, PTL

(* Whatever ended earlier starts, a daemon that serves has only modules    *)
(* that were created under its settings and its certificate.               *)
THEOREM ServesCurrentSettings == Spec => []SettingsCurrent
<1>1. Inv => SettingsCurrent
  BY Zenon DEF Inv, Saved, SettingsCurrent, Up
<1> QED
  BY Invariance, <1>1, PTL

(* Unless a start ended between a change of the identity and the removal   *)
(* of the modules, a daemon that serves has only modules whose keys derive *)
(* from the identity the device has.                                       *)
THEOREM ServesCurrentIdentity == Spec => []IdentityCurrent
<1>1. Inv => IdentityCurrent
  BY Zenon DEF Inv, Traced
<1> QED
  BY Invariance, <1>1, PTL

(* A daemon that serves has a workload CA certificate, and no module runs  *)
(* since before it started.                                                *)
THEOREM ServesReady == Spec => [](WorkloadCaReady /\ NoStaleModule)
<1>1. Inv => WorkloadCaReady /\ NoStaleModule
  BY Zenon DEF Inv, Saved, AfterStop, WorkloadCaReady, NoStaleModule, Up
<1> QED
  BY Invariance, <1>1, PTL

(* The four together: what a daemon that serves can be relied on for.      *)
THEOREM ServesSound == Spec => []ServingSound
BY ServesCurrentSettings, ServesCurrentIdentity, ServesReady, PTL DEF ServingSound

(* A daemon that a request to provision again has stopped, and that then   *)
(* removed its backup, asks the service before it goes on: no older result *)
(* is restored, whatever fails and whatever is edited in the meantime.     *)
THEOREM AsksAgain == Spec => []ReprovisionHeeded
<1>1. Inv => ReprovisionHeeded
  BY Zenon DEF Inv, Typed, TypedProcess, Pcs, Asked, Sourced, Provisioned, AfterStop,
               ReprovisionHeeded
<1> QED
  BY Invariance, <1>1, PTL
=============================================================================
