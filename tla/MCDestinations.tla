-------------------------- MODULE MCDestinations --------------------------
(***************************************************************************)
(* Small instances of Destinations: every authority of up to four pieces,  *)
(* and longer ones that are well formed, as each part of the system may    *)
(* get it.                                                                 *)
(***************************************************************************)
EXTENDS Destinations

Named == {<<"name">>, <<"name", ":", "443">>, <<"name", ":", "8080">>, <<":", ":", "name">>,
          <<"[", ":", "name", "]">>, <<"[", ":", "name", "]", ":", "80">>,
          <<"[", ":", "name", "]", ":", "8080">>, <<"[", "name", "]", "8080">>,
          <<"[", "[", "name", "]", "]">>}

Texts == Named \cup {t \in SeqOf({"[", "]", ":", "name", "8080"}, 4) : Readable(t)}

Plain ==
    [kind |-> "http", scheme |-> "http", target |-> "origin", authority |-> << >>,
     host |-> <<"name">>, port |-> 0, body |-> 0, text |-> TRUE]

Https == [Plain EXCEPT !.kind = "https", !.scheme = "https"]

Origin == {[Plain EXCEPT !.host = t] : t \in Texts}

Absolute ==
    {[Plain EXCEPT !.target = "absolute", !.authority = t, !.host = t] : t \in Texts} \cup
    {[Plain EXCEPT !.target = "absolute", !.authority = t, !.host = h] :
        t \in Texts, h \in {Absent, <<"name">>}}

Tunnelled ==
    {[Https EXCEPT !.authority = t, !.host = t] : t \in Texts} \cup
    {[Https EXCEPT !.authority = a, !.host = h] : a \in Named, h \in Named \cup {Absent}}

Composed ==
    {[Plain EXCEPT !.kind = "composed", !.scheme = s, !.host = t, !.port = p] :
        s \in {"http", "https"}, t \in Texts, p \in {0, 80, 443}}

Bodies ==
    {[s EXCEPT !.body = n, !.text = b] :
        s \in {Plain, [Plain EXCEPT !.kind = "composed"], [Https EXCEPT !.authority = <<"name">>]},
        n \in 0 .. PreviewLimit + 2, b \in BOOLEAN}

OtherTargets == {[s EXCEPT !.target = "other"] : s \in Bodies}

AllSources == Origin \cup Absolute \cup Tunnelled \cup Composed \cup Bodies \cup OtherTargets
=============================================================================
