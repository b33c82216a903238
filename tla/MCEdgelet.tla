------------------------------ MODULE MCEdgelet ------------------------------
(***************************************************************************)
(* What runs the modules of a device, on small instances: the security     *)
(* daemon as it starts; what it does while it serves, with one module, the *)
(* agent, that every request of the management API may be about; and the   *)
(* agent, with two modules and three deployments.                          *)
(***************************************************************************)
EXTENDS MCDaemon

VARIABLES
  part,
  status, container, hub, todo, target, answer, max_retries, exec_count, daemon, sole,
  issued, calls_failed,
  version, currentConfig, stored, modules, restarts, runs, last, plan, command, next, doing, due,
  failed, skipped, planned, deploymentStatus, reported, closing, disturbed, exits, faults, starts

MCRetryLimits == {[infinite |-> TRUE, num |-> 0], [infinite |-> FALSE, num |-> 1]}

M == INSTANCE Management
  WITH Agent <- "edgeAgent", Names <- {"edgeAgent"}, Requests <- {"r", "s"},
       RetryLimits <- MCRetryLimits, CountModulus <- 3, MaxIssued <- 2, MaxFailures <- 2,
       failures <- calls_failed

(* The settings of a module with one of two images, options and orders     *)
Settings(i, o, s, p, r) == [image |-> i, options |-> o, status |-> s, policy |-> p, order |-> r]

(* The second deployment changes the options and the order of a module and *)
(* adds another, which is not to run; the third removes the one and starts *)
(* the other                                                               *)
MCDeployments ==
  << [a |-> Settings("i", "x", "running", "always", 1)],
     [a |-> Settings("i", "y", "running", "always", 2), b |-> Settings("j", "x", "stopped", "onfailure", 1)],
     [b |-> Settings("j", "x", "running", "onfailure", 1)] >>

A == INSTANCE EdgeAgent
  WITH Modules <- {"a", "b"}, Deployments <- MCDeployments, MaxRestartCount <- 2,
       MaxExits <- 1, MaxFaults <- 1, MaxStarts <- 1,
       config <- currentConfig, disk <- stored, container <- modules, target <- planned,
       status <- deploymentStatus

mvars == <<status, container, hub, todo, target, answer, max_retries, exec_count, daemon,
           sole, issued, calls_failed>>
avars == <<version, currentConfig, stored, modules, restarts, runs, last, plan, command, next, doing,
           due, failed, skipped, planned, deploymentStatus, reported, closing, disturbed, exits,
           faults, starts>>
mcvars == <<vars, mvars, avars, part>>

Starting == part = "starting"
Serving == part = "serving"
OfAgent == part = "agent"

(* The parts that do not move stay in one of their initial states.         *)
MCInit ==
  /\ part \in {"starting", "serving", "agent"}
  /\ Init /\ (~Starting => config = C("external", "key", TRUE, TRUE) /\ cert = 1 /\ assigned = 1)
  /\ M!Init /\ (~Serving => max_retries.infinite)
  /\ A!Init

MCNext ==
  \/ Starting /\ Next /\ UNCHANGED <<mvars, avars, part>>
  \/ Serving /\ M!Next /\ UNCHANGED <<vars, avars, part>>
  \/ OfAgent /\ A!Next /\ UNCHANGED <<vars, mvars, part>>

(* Nobody is obliged to fail, to stop the daemon or the agent, to ask for  *)
(* anything, to give a deployment or to edit a file.                       *)
MCSpec ==
  /\ MCInit /\ [][MCNext]_mcvars
  /\ WF_vars(Starting /\ Work) /\ WF_mvars(Serving /\ M!Work) /\ WF_avars(OfAgent /\ A!Work)
  /\ WF_doing(OfAgent /\ doing = "reconciling" /\ doing' \in {"waiting", "running"})
  /\ SF_avars(OfAgent /\ A!Wake(A!Timed))
  /\ SF_avars(OfAgent /\ A!Retried)
  /\ SF_avars(OfAgent /\ A!Succeed)
-----------------------------------------------------------------------------
(* OwnContainer for the container of the agent.                            *)
OwnContainer == M!OwnContainer

(* BeliefTrue for the deployments above.                                   *)
BeliefTrue == A!BeliefTrue

(* Whatever files a start left half written, a later start succeeds: the   *)
(* daemon comes to serve again and again.  While it serves, whatever       *)
(* requests and failures do to the agent, the watchdog gets it to run      *)
(* again, as long as the hub knows it.                                     *)
MCProgress == []<>(OfAgent \/ IF Serving THEN M!AgentUp ELSE pc = "serve")

(* Converges for the deployments above.                                    *)
Converges == OfAgent => A!Converges
=============================================================================
