----------------------------- MODULE ByteRelay -----------------------------
(***************************************************************************)
(* What relaying one exchange promises, without buffers, limits or the     *)
(* pieces in which bytes arrive: the server gets the bytes of the request  *)
(* body in order and no more than were announced, the client gets those of *)
(* the response in order and only after all of the request, and a complete *)
(* exchange has delivered both to their ends.                              *)
(***************************************************************************)
EXTENDS Integers, Sequences

VARIABLES
    announced,       \* where the request body begins, and its length
    answered,        \* where the response body begins, and its length
    up,              \* the bytes the server got
    down,            \* the bytes the client got
    state            \* "open", "complete" or "broken"

vars == <<announced, answered, up, down, state>>

Plan == [first : Nat, length : Nat]

Init ==
    /\ announced \in Plan /\ answered \in Plan
    /\ up = << >> /\ down = << >>
    /\ state = "open"

(* The next bytes of a body of which some were delivered.                  *)
Deliver(plan, delivered, rest) ==
    /\ Len(delivered) < Len(rest) /\ Len(rest) <= plan.length
    /\ rest = [i \in 1 .. Len(rest) |-> plan.first + i - 1]

Upload ==
    /\ state = "open"
    /\ Deliver(announced, up, up')
    /\ UNCHANGED <<announced, answered, down, state>>

Download ==
    /\ state = "open" /\ Len(up) = announced.length
    /\ Deliver(answered, down, down')
    /\ UNCHANGED <<announced, answered, up, state>>

Finish ==
    /\ state = "open"
    /\ Len(up) = announced.length /\ Len(down) = answered.length
    /\ state' = "complete"
    /\ UNCHANGED <<announced, answered, up, down>>

Break ==
    /\ state = "open"
    /\ state' = "broken"
    /\ UNCHANGED <<announced, answered, up, down>>

Next == Upload \/ Download \/ Finish \/ Break

Spec == Init /\ [][Next]_vars
=============================================================================
