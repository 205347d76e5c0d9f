------------------------------ MODULE MCEngine ------------------------------
(***************************************************************************)
(* A small instance of Engine: one proxy connection, and two clients with  *)
(* one command each, are enough for a record to be replayed while it is    *)
(* pending, to be evicted while a task works on it, and for tasks of both  *)
(* kinds to overlap in begin_transaction.                                  *)
(***************************************************************************)
EXTENDS Engine

CONSTANTS p1, c1, c2

RequestHead(s, te, len, txt) ==
    [scheme |-> s, transfer_encoding |-> te, length |-> len, text |-> txt]

(* A head for every way a request can take in the capture path.            *)
MCRequests ==
    { RequestHead("http", "none", "some", TRUE),
      RequestHead("http", "chunked", "zero", FALSE),
      RequestHead("http", "none", "invalid", FALSE),
      RequestHead("tunnel", "none", "zero", FALSE),
      RequestHead("https", "other", "some", FALSE) }

OneProxy   == {p1}
TwoClients == {c1, c2}
=============================================================================
