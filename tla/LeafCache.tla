----------------------------- MODULE LeafCache -----------------------------
(***************************************************************************)
(* The certificates that intercepted connections are answered with:        *)
(* CertificateAuthority::identity_for_host                                 *)
(* (proxy-daemon/src/certificates.rs), called by any number of tasks.  The *)
(* cache is read, a leaf is made without any lock, and the cache is        *)
(* written.  A leaf is named by its host and by the call that made it.     *)
(***************************************************************************)
EXTENDS Integers

CONSTANTS
    Tasks, Hosts,
    MaxCalls           \* bounds the model: calls of each task

None == [host |-> "none"]

VARIABLES
    pc,
    calls,             \* how many calls a task has made
    host,              \* the host of its call
    leaf,              \* the leaf it has found or made
    cache,             \* of each host, or None
    returned           \* ghost: hosts for which a call had returned before
                       \* the call of this task began

vars == <<pc, calls, host, leaf, cache, returned>>

Leaf == [host : Hosts, by : Tasks, call : 0 .. MaxCalls]

(* What tasks are given when the call returns.                             *)
Given(t) == pc[t] = "returned" /\ leaf[t] # None

Init ==
    /\ pc = [t \in Tasks |-> "idle"]
    /\ calls = [t \in Tasks |-> 0]
    /\ host \in [Tasks -> Hosts]
    /\ leaf = [t \in Tasks |-> None]
    /\ cache = [h \in Hosts |-> None]
    /\ returned = [t \in Tasks |-> {}]

Goto(t, point) == pc' = [pc EXCEPT ![t] = point]

Served ==
    {h \in Hosts : \E t \in Tasks : (Given(t) /\ host[t] = h) \/ h \in returned[t]}

Call(t, h) ==
    /\ pc[t] \in {"idle", "returned"} /\ calls[t] < MaxCalls
    /\ Goto(t, "look") /\ calls' = [calls EXCEPT ![t] = @ + 1]
    /\ host' = [host EXCEPT ![t] = h]
    /\ leaf' = [leaf EXCEPT ![t] = None]
    /\ returned' = [returned EXCEPT ![t] = Served]
    /\ UNCHANGED cache

Found(t) ==
    /\ pc[t] = "look" /\ cache[host[t]] # None
    /\ leaf' = [leaf EXCEPT ![t] = cache[host[t]]]
    /\ Goto(t, "returned")
    /\ UNCHANGED <<calls, host, cache, returned>>

NotFound(t) ==
    /\ pc[t] = "look" /\ cache[host[t]] = None
    /\ Goto(t, "sign")
    /\ UNCHANGED <<calls, host, leaf, cache, returned>>

Sign(t) ==
    /\ pc[t] = "sign"
    /\ leaf' = [leaf EXCEPT ![t] = [host |-> host[t], by |-> t, call |-> calls[t]]]
    /\ Goto(t, "insert")
    /\ UNCHANGED <<calls, host, cache, returned>>

(* A host that no certificate can name, for one.                           *)
SignFails(t) ==
    /\ pc[t] = "sign"
    /\ Goto(t, "returned")
    /\ UNCHANGED <<calls, host, leaf, cache, returned>>

(* Faulty: the leaf is returned before it is inserted.                     *)
InsertLater(t) ==
    /\ pc[t] = "insert"
    /\ Goto(t, "returned")
    /\ UNCHANGED <<calls, host, leaf, cache, returned>>

(* Whoever made a leaf for the same host meanwhile is overwritten.         *)
Insert(t) ==
    /\ pc[t] = "insert"
    /\ cache' = [cache EXCEPT ![host[t]] = leaf[t]]
    /\ Goto(t, "returned")
    /\ UNCHANGED <<calls, host, leaf, returned>>

Done ==
    /\ \A t \in Tasks : pc[t] = "returned" /\ calls[t] = MaxCalls
    /\ UNCHANGED vars

Next ==
    \/ \E t \in Tasks :
          \/ \E h \in Hosts : Call(t, h)
          \/ Found(t) \/ NotFound(t) \/ Sign(t) \/ SignFails(t) \/ Insert(t)
    \/ Done

Spec == Init /\ [][Next]_vars

-----------------------------------------------------------------------------
(* What is inserted was signed, and a leaf is found under its own host,    *)
(* although it is looked up in one step and inserted in a later one        *)
(* (certificates.rs:108-132).                                              *)
TypeOK ==
    /\ pc \in [Tasks -> {"idle", "look", "sign", "insert", "returned"}]
    /\ calls \in [Tasks -> 0 .. MaxCalls]
    /\ host \in [Tasks -> Hosts]
    /\ leaf \in [Tasks -> Leaf \cup {None}]
    /\ cache \in [Hosts -> Leaf \cup {None}]
    /\ returned \in [Tasks -> SUBSET Hosts]
    /\ \A t \in Tasks : pc[t] = "insert" => leaf[t] # None
    /\ \A h \in Hosts : cache[h] # None => cache[h].host = h

(* A leaf is reused: a call that begins after another for its host has     *)
(* returned makes none (docs/TLS.md:47).  Only calls that overlap a first  *)
(* one make several (certificates.rs:109-129).                             *)
LeafIsReused ==
    \A t \in Tasks : host[t] \in returned[t] => pc[t] \in {"idle", "look", "returned"}
=============================================================================
