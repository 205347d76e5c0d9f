----------------------------- MODULE CaptureLog -----------------------------
(***************************************************************************)
(* What the engine promises about its captures, without tasks, locks or    *)
(* requests: every id is issued once, recorded at most once as pending in  *)
(* front of a log that keeps the last Capacity records, and settled at     *)
(* most once; nothing else ever happens to the log.                        *)
(***************************************************************************)
EXTENDS Integers, Sequences

CONSTANT Capacity

VARIABLES
    issued,       \* how many ids were issued
    reserved,     \* ids issued and not recorded yet
    log           \* the records held, the last one recorded first

vars == <<issued, reserved, log>>

Init == issued = 0 /\ reserved = {} /\ log = << >>

Issue ==
    /\ issued' = issued + 1
    /\ reserved' = reserved \cup {issued + 1}
    /\ UNCHANGED log

Record ==
    \E n \in reserved :
        /\ reserved' = reserved \ {n}
        /\ log' = [i \in 1 .. (IF Len(log) < Capacity THEN Len(log) + 1 ELSE Capacity) |->
                      IF i = 1 THEN [id |-> n, state |-> "pending"] ELSE log[i - 1]]
        /\ UNCHANGED issued

Settle ==
    \E i \in DOMAIN log, outcome \in {"complete", "failed"} :
        /\ log[i].state = "pending"
        /\ log' = [log EXCEPT ![i].state = outcome]
        /\ UNCHANGED <<issued, reserved>>

Next == Issue \/ Record \/ Settle

Spec == Init /\ [][Next]_vars
=============================================================================
