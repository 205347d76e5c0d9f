-------------------------- MODULE MCHttpExchange --------------------------
(***************************************************************************)
(* Small instances of HttpExchange: heads around a limit of 6 bytes read   *)
(* three at a time, bodies of up to four bytes, less and more than was     *)
(* announced, and servers that answer early, eagerly, late or in part.     *)
(***************************************************************************)
EXTENDS HttpExchange

Plain == [kind |-> "http", head |-> 2, length |-> 3, sends |-> 5, waits |-> FALSE, closes |-> FALSE]

Plan(kind, head, length, sends) ==
    [Plain EXCEPT !.kind = kind, !.head = head, !.length = length, !.sends = sends]

(* Clients that send all of it, break off anywhere, or send another byte.  *)
Proxied(heads, lengths) ==
    UNION { {Plan(kind, h, n, h + n), Plan(kind, h, n, h + n + 2)} :
              kind \in {"http", "https"}, h \in heads, n \in lengths }

Explicit == {Plan("explicit", 0, n, n) : n \in 0 .. 4}

BrokenOff == {[Plan(kind, 2, 3, n) EXCEPT !.closes = TRUE] : kind \in {"http", "https"}, n \in 0 .. 5}

Waiting == {[Plan("http", h, 3, h + 3) EXCEPT !.waits = TRUE] : h \in {2, 6, 7}}

Tunnels == { [Plan("tunnel", h, 0, h + n) EXCEPT !.waits = waits, !.closes = closes] :
               h \in {2, 6}, n \in 0 .. 3, waits \in BOOLEAN, closes \in BOOLEAN }

Answer == [interim |-> 0, head |-> 2, sends |-> 4, reads |-> 3, eager |-> FALSE, closes |-> TRUE]

Usual == {Answer, [Answer EXCEPT !.interim = 1, !.eager = TRUE]}

Answers ==
    { [interim |-> i, head |-> h, sends |-> n, reads |-> r, eager |-> e, closes |-> c] :
        i \in {0, 1}, h \in {1, 3, 4, 7}, n \in {0, 2, 3, 5, 8, 9}, r \in {1, 3},
        e \in BOOLEAN, c \in BOOLEAN }

CutRequests == Proxied(1 .. 8, 0 .. 4) \cup BrokenOff \cup Waiting \cup Explicit

FewRequests == {Plain, Plan("explicit", 0, 4, 4), [Plain EXCEPT !.length = 1],
                [Plain EXCEPT !.waits = TRUE]}

MCExchanges == ((CutRequests \cup Tunnels) \X Usual) \cup (FewRequests \X Answers)
=============================================================================
