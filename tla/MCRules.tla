------------------------------ MODULE MCRules -------------------------------
(***************************************************************************)
(* Instances of Rules for TLC: a few heads with duplicated and missing     *)
(* headers, and every list of up to MaxLength of the rules of a pool that  *)
(* holds each kind of action and each way to be ineffective.               *)
(***************************************************************************)
EXTENDS Rules

CONSTANTS h1, h2, v1, v2, MaxLength, Pool

MCHosts  == {h1, h2}
MCNames  == Framing \cup {"host", "x"}
MCValues == {h1, h2, v1, v2}
MCPieces == {"/", "a", "b", "*"}

H(name, cased, value) == [name |-> name, cased |-> cased, value |-> value]

(* Headers in which only some names have copies.                           *)
With(copies) == [name \in Names |-> IF name \in DOMAIN copies THEN copies[name] ELSE <<>>]

MCRequests ==
    { [host |-> h1, path |-> <<"/", "a">>,
       headers |-> With([x |-> <<v1>>, host |-> <<h1>>] @@ "content-length" :> <<v1>>)],
      [host |-> h2, path |-> <<"/", "b">>,
       headers |-> With([x |-> <<v1, v2>>] @@ "transfer-encoding" :> <<v1>>)],
      [host |-> h1, path |-> <<"/">>,
       headers |-> With([host |-> <<h2>>] @@ "content-length" :> <<v2>>)],
      [host |-> h2, path |-> <<"*">>, headers |-> With(<<>>)] }

MCResponses ==
    { [status |-> 200, headers |-> With([x |-> <<v2, v1>>] @@ "content-length" :> <<v1>>)],
      [status |-> 304, headers |-> With([x |-> <<v1, v2>>] @@ "content-length" :> <<v2>>)] }

AnyHost == MCHosts

SetPathTo(path)   == [type |-> "set_path", path |-> path]
Set(header)       == [type |-> "set_header", header |-> header]
Drop(header)      == [type |-> "remove_header", header |-> header]
SetStatusTo(code) == [type |-> "set_status", status |-> code]

FullRule(hosts, prefix, actions, response_actions) ==
    [enabled |-> TRUE, hosts |-> hosts, path_prefix |-> prefix,
     actions |-> actions, response_actions |-> response_actions]

(* Moves a request, without a slash, and so out of its own prefix.         *)
Mover == FullRule(AnyHost, <<"/", "a">>, <<SetPathTo(<<"b">>)>>, <<SetStatusTo(503)>>)

(* Sees the moved request.                                                 *)
Setter == FullRule(AnyHost, <<"/", "b">>, <<Set(H("x", TRUE, v2))>>,
               <<Set(H("x", TRUE, v1)), SetStatusTo(599)>>)

(* Sends a replay to another host.                                         *)
Redirector == FullRule(AnyHost, <<"/">>, <<Set(H("host", TRUE, h2))>>, <<Drop(H("x", TRUE, v1))>>)

Remover == FullRule({h2}, <<>>, <<Drop(H("x", FALSE, v1)), SetPathTo(<<"/", "a">>)>>,
                <<SetStatusTo(204), Set(H("content-length", FALSE, v2)), SetStatusTo(205)>>)

Disabled == [Setter EXCEPT !.enabled = FALSE, !.path_prefix = <<>>]

(* Nothing of it may have an effect.                                       *)
Ineffective ==
    FullRule(AnyHost, <<>>,
         <<SetPathTo(<<>>), SetPathTo(<<"/", Unsafe>>), Set(H("x", TRUE, Unsafe)),
           Set(H(Unsafe, TRUE, v1)), Set(H("content-length", FALSE, h1)),
           Drop(H("content-length", TRUE, v1)), Set(H("transfer-encoding", TRUE, v2))>>,
         <<SetStatusTo(199), SetStatusTo(600), SetStatusTo(304), SetStatusTo(205),
           Drop(H("content-length", TRUE, v1)), Drop(H(Unsafe, TRUE, v1))>>)

Everything == {Mover, Setter, Redirector, Remover, Disabled, Ineffective}
Few        == {Mover, Redirector, Remover}

ListsOf(pool, length) ==
    {list \in UNION {[1 .. n -> pool] : n \in 0 .. length} : IsInjective(list)}

MCRuleSets  == ListsOf(Pool, MaxLength)
MCSubmitted == ListsOf(Pool \cap Few, 1)
=============================================================================
