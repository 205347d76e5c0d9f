---------------------------- MODULE Interception ----------------------------
(***************************************************************************)
(* The daemon's certificate authority as a whole: the one that is loaded   *)
(* or created at a start (Certificates) makes the leaves of the            *)
(* connections that are intercepted while the daemon runs (LeafCache).     *)
(* The leaves are in memory only: they and the tasks that ask for them go  *)
(* with the process.                                                       *)
(***************************************************************************)
EXTENDS Certificates

CONSTANTS Tasks, Hosts, MaxCalls

VARIABLES point, calls, host, leaf, cache, returned

leaves == <<point, calls, host, leaf, cache, returned>>

Leaves == INSTANCE LeafCache WITH pc <- point

Listening == \E d \in Daemons : pc[d] = "running"

InterceptionInit == Init /\ Leaves!Init

(* serve_intercepted_tls asks for a leaf.                                  *)
Intercept ==
    /\ Listening
    /\ \E t \in Tasks :
          \/ \E h \in Hosts : Leaves!Call(t, h)
          \/ Leaves!Found(t) \/ Leaves!NotFound(t)
          \/ Leaves!Sign(t)  \/ Leaves!SignFails(t) \/ Leaves!Insert(t)
    /\ UNCHANGED vars

Forgotten ==
    /\ point' = [t \in Tasks |-> "idle"] /\ calls' = [t \in Tasks |-> 0]
    /\ leaf' = [t \in Tasks |-> Leaves!None] /\ returned' = [t \in Tasks |-> {}]
    /\ cache' = [h \in Hosts |-> Leaves!None]
    /\ UNCHANGED host

StartOrStop ==
    /\ Next
    /\ IF Listening /\ ~Listening' THEN Forgotten ELSE UNCHANGED leaves

InterceptionNext == Intercept \/ StartOrStop

InterceptionSpec == InterceptionInit /\ [][InterceptionNext]_<<vars, leaves>>

-----------------------------------------------------------------------------
(* What is inserted was signed, and a leaf is found under its own host, in *)
(* every process that runs (certificates.rs:108-132).                      *)
LeavesTyped == Leaves!TypeOK

(* A leaf is reused: a call that begins after another for its host has     *)
(* returned makes none (docs/TLS.md:47).  Only calls that overlap a first  *)
(* one make several (certificates.rs:109-129).                             *)
LeafIsReused == Leaves!LeafIsReused
=============================================================================
