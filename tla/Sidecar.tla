------------------------------- MODULE Sidecar -------------------------------
(***************************************************************************)
(* What the process of the broker relies on in a sidecar, a routine that   *)
(* runs beside the broker: it does not end before it is asked to, and once *)
(* it is asked it ends.                                                    *)
(***************************************************************************)
VARIABLE phase

RInit == phase = "running"

(* SidecarShutdownHandle::shutdown                                         *)
Ask == phase = "running" /\ phase' = "asked"

(* run returns.                                                            *)
Stop == phase = "asked" /\ phase' = "stopped"

RNext == Ask \/ Stop

RSpec == RInit /\ [][RNext]_phase /\ WF_phase(Stop)
=============================================================================
