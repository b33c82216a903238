-------------------------------- MODULE MCHub --------------------------------
(***************************************************************************)
(* The Edge Hub on small instances.  part tells the one that moves.  Of    *)
(* the store: two endpoints that share a message, with a crash ("shared"); *)
(* messages of two clients, one of which may expire, with a crash and a    *)
(* failed write or a dead endpoint ("faulty"); two priorities, one message *)
(* at a time ("ordered"); and the cleanup of entire queues of messages     *)
(* that do not expire ("entire").  Of the twin of a client: its desired    *)
(* properties, with two handlers at once ("desired"), and what it reports, *)
(* with a restart of the hub ("reports").                                  *)
(***************************************************************************)
EXTENDS StoreForward, TwinSync

VARIABLE part

MCRoute == [m \in Messages |-> IF m = 1 THEN {<<"cloud", 0>>, <<"module", 0>>} ELSE {<<"module", 0>>}]
MCClientOf == [m \in 1 .. 4 |-> m % 2]

Faulty == INSTANCE StoreForward
  WITH Messages <- 1 .. 3, Endpoints <- {"cloud"}, Priorities <- {0},
       Route <- [m \in 1 .. 3 |-> {<<"cloud", 0>>}],
       Expiring <- {2}, BatchSize <- 2, CheckEntireQueue <- FALSE, MaxCrashes <- 1, MaxFaults <- 1
Ordered == INSTANCE StoreForward
  WITH Messages <- 1 .. 4, Endpoints <- {"cloud"}, Priorities <- {0, 1},
       Route <- [m \in 1 .. 4 |-> {<<"cloud", m % 2>>}],
       Expiring <- {}, BatchSize <- 1, CheckEntireQueue <- FALSE, MaxCrashes <- 0, MaxFaults <- 0
Entire == INSTANCE StoreForward
  WITH Messages <- 1 .. 3, Endpoints <- {"cloud"}, Priorities <- {0},
       Route <- [m \in 1 .. 3 |-> {<<"cloud", 0>>}],
       Expiring <- {}, BatchSize <- 2, CheckEntireQueue <- TRUE, MaxCrashes <- 1, MaxFaults <- 0
Reports == INSTANCE TwinSync
  WITH Tasks <- {"t"}, MaxDesired <- 0, MaxReports <- 2, MaxOutages <- 1, MaxConnections <- 2, MaxRestarts <- 1

(* The parts that do not move stay in one of their initial states.         *)
MCInit ==
  \/ part \in {"shared", "desired"} /\ Init /\ TInit
  \/ part = "faulty" /\ Faulty!Init /\ TInit
  \/ part = "ordered" /\ Ordered!Init /\ TInit
  \/ part = "entire" /\ Entire!Init /\ TInit
  \/ part = "reports" /\ Init /\ Reports!TInit

MCNext ==
  \/ part = "shared" /\ Next /\ UNCHANGED <<tvars, part>>
  \/ part = "faulty" /\ Faulty!Next /\ UNCHANGED <<tvars, part>>
  \/ part = "ordered" /\ Ordered!Next /\ UNCHANGED <<tvars, part>>
  \/ part = "entire" /\ Entire!Next /\ UNCHANGED <<tvars, part>>
  \/ part = "desired" /\ TNext /\ UNCHANGED <<vars, part>>
  \/ part = "reports" /\ Reports!TNext /\ UNCHANGED <<vars, part>>

MCSpec == MCInit /\ [][MCNext]_<<vars, tvars, part>>
=============================================================================
