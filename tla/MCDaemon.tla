------------------------------ MODULE MCDaemon ------------------------------
(* Daemon for a device of every way of provisioning.                       *)
EXTENDS Daemon

C(s, a, w, d) == [source |-> s, auth |-> a, always |-> w, dynamic |-> d, version |-> 1]

MCConfigs == {C("manual", "x509", TRUE, FALSE), C("dps", "x509", FALSE, TRUE),
              C("dps", "tpm", TRUE, TRUE), C("external", "key", TRUE, TRUE)}
=============================================================================
