------------------------------- MODULE Rules --------------------------------
(***************************************************************************)
(* Rewrite rules and the exchanges they are applied to                     *)
(* (proxy-core/src/rules.rs; main.rs, request_runtime.rs and replay.rs of  *)
(* proxy-daemon).  The active rules are read twice by an exchange, for its *)
(* request and for its response, and may be replaced in between.           *)
(* Exchanges meet only through the rules, so one at a time is modelled.    *)
(*                                                                         *)
(* A path is a sequence of pieces, mostly "/" first.  A head's headers map *)
(* a lower-case name to the values of its copies, in order: the order of   *)
(* different headers and how a name is written make no difference.         *)
(***************************************************************************)
EXTENDS Integers, Sequences, SequencesExt

CONSTANTS
    Hosts,             \* hosts of requests
    Names,             \* lower-case header names
    Values,            \* header values, Hosts among them
    Pieces,            \* of paths
    Unsafe,            \* a name, value or path that the checks reject
    Requests,          \* heads that clients send
    Responses,         \* heads that upstream servers send
    RuleSets,          \* valid lists of rules, as the daemon may load them
    Submitted,         \* those that clients of the control socket submit
    None,              \* no head, or nothing captured
    MaxReplacements    \* bound: replacements of the rules

RequestHead  == [host : Hosts, path : Seq(Pieces), headers : [Names -> Seq(Values)]]
HeadStatus   == 100 .. 999
ResponseHead == [status : HeadStatus, headers : [Names -> Seq(Values)]]

(* The header of a rule; `cased` says if its name is not in lower case.    *)
Header == [name : Names \cup {Unsafe}, cased : BOOLEAN, value : Values \cup {Unsafe}]

StatusCode     == 0 .. 65535
HeaderAction   == [type : {"set_header", "remove_header"}, header : Header]
RequestAction  == [type : {"set_path"}, path : Seq(Pieces \cup {Unsafe})] \cup HeaderAction
ResponseAction == [type : {"set_status"}, status : StatusCode] \cup HeaderAction

(* `hosts` are those that contain the rule's pattern.                      *)
Rule == [enabled : BOOLEAN, hosts : SUBSET Hosts, path_prefix : Seq(Pieces),
         actions : Seq(RequestAction), response_actions : Seq(ResponseAction)]

Framing == {"content-length", "transfer-encoding", "connection", "proxy-connection"}

ASSUME RulesAssumption ==
    /\ MaxReplacements \in Nat
    /\ Hosts \subseteq Values /\ Framing \cup {"host"} \subseteq Names /\ "/" \in Pieces
    /\ Unsafe \notin Names \cup Values \cup Pieces
    /\ Requests \subseteq RequestHead /\ \A head \in Requests : head.path # <<>>
    /\ Responses \subseteq ResponseHead
    /\ None \notin RequestHead \cup ResponseHead
    /\ <<>> \in RuleSets /\ RuleSets \subseteq Seq(Rule) /\ Submitted \subseteq RuleSets

VARIABLES
    rules,             \* rewrite_rules
    pc,
    request,           \* parsed, of the exchange going on
    response,          \* response, likewise
    captured,          \* ghost: the exchange before, and the rules of its response
    client,            \* ghost: the request before any rule
    upstream,          \* ghost: the response before any rule
    request_rules,     \* ghost: the rules the request was matched with
    response_rules,    \* ghost: likewise of the response
    replacements       \* bound only

ghosts == <<client, upstream, request_rules, response_rules>>
vars   == <<rules, pc, request, response, captured, ghosts, replacements>>

-----------------------------------------------------------------------------
(* Headers.                                                                *)

(* Faulty: names are compared as they are written.                         *)
RewritableAsWritten(h) == h.name # Unsafe /\ (h.name \in Framing => h.cased)

Rewritable(h) == h.name \notin Framing \cup {Unsafe}

HasValue(headers, h) == headers[h.name] # <<>> /\ headers[h.name][1] = h.value

(* Faulty: the copies already there are left.                              *)
AddHeader(headers, h) ==
    IF ~Rewritable(h) \/ h.value = Unsafe \/ HasValue(headers, h)
    THEN headers ELSE [headers EXCEPT ![h.name] = Append(@, h.value)]

SetHeader(headers, h) ==
    IF ~Rewritable(h) \/ h.value = Unsafe \/ HasValue(headers, h)
    THEN headers ELSE [headers EXCEPT ![h.name] = <<h.value>>]

RemoveHeader(headers, h) ==
    IF Rewritable(h) THEN [headers EXCEPT ![h.name] = <<>>] ELSE headers

-----------------------------------------------------------------------------
(* Requests.                                                               *)

UsablePath(path) == path # <<>> /\ Unsafe \notin ToSet(path)

NormalizePath(path) == IF path[1] = "/" THEN path ELSE <<"/">> \o path

Matches(rule, r) ==
    /\ rule.enabled
    /\ r.host \in rule.hosts
    /\ IsPrefix(rule.path_prefix, r.path)

ApplyRequestAction(r, action) ==
    CASE action.type = "set_path" ->
           IF UsablePath(action.path) THEN [r EXCEPT !.path = NormalizePath(action.path)] ELSE r
      [] action.type = "set_header" ->
           [r EXCEPT !.headers = SetHeader(@, action.header)]
      [] action.type = "remove_header" ->
           [r EXCEPT !.headers = RemoveHeader(@, action.header)]

ApplyRequestActions(r, actions) == FoldLeft(ApplyRequestAction, r, actions)

(* Faulty: a new Host header also changes the host that rules match.       *)
ApplyRequestRuleToHost(r, rule) ==
    IF ~Matches(rule, r) THEN r
    ELSE LET after == ApplyRequestActions(r, rule.actions) IN
         IF after.headers["host"] # <<>> /\ after.headers["host"][1] \in Hosts
         THEN [after EXCEPT !.host = after.headers["host"][1]] ELSE after

ApplyRequestRule(r, rule) ==
    IF Matches(rule, r) THEN ApplyRequestActions(r, rule.actions) ELSE r

(* Faulty: every rule is matched with the request as it came.              *)
ApplyRequestRulesAtOnce(r, list) ==
    FoldLeft(ApplyRequestRule, r, SelectSeq(list, LAMBDA rule : Matches(rule, r)))

ApplyRequestRules(r, list) == FoldLeft(ApplyRequestRule, r, list)

-----------------------------------------------------------------------------
(* Responses.                                                              *)

ValidStatus(status) == status \in 200 .. 599 /\ status \notin {204, 205, 304}

ApplyResponseAction(r, action) ==
    CASE action.type = "set_status" ->
           IF ValidStatus(action.status) THEN [r EXCEPT !.status = action.status] ELSE r
      [] action.type = "set_header" ->
           [r EXCEPT !.headers = SetHeader(@, action.header)]
      [] action.type = "remove_header" ->
           [r EXCEPT !.headers = RemoveHeader(@, action.header)]

ApplyResponseActions(r, actions) == FoldLeft(ApplyResponseAction, r, actions)

(* The response is matched by the request, as its own rules left it.       *)
ApplyResponseRule(req, r, rule) ==
    IF Matches(rule, req) THEN ApplyResponseActions(r, rule.response_actions) ELSE r

ApplyResponseRules(req, res, list) ==
    FoldLeft(LAMBDA r, rule : ApplyResponseRule(req, r, rule), res, list)

-----------------------------------------------------------------------------
(* Exchanges.                                                              *)

Exchange == [request : RequestHead, upstream : Responses \cup {None},
             response : ResponseHead \cup {None}, rules : RuleSets]

(* Whatever the rules hold, heads stay safe to serialize and a path keeps  *)
(* its leading slash (rules.rs:166).                                       *)
TypeOK ==
    /\ rules \in RuleSets
    /\ pc \in {"idle", "forwarded", "delivered"}
    /\ request \in RequestHead \cup {None} /\ client \in RequestHead \cup {None}
    /\ request # None /\ client.path[1] = "/" => request.path[1] = "/"
    /\ response \in ResponseHead \cup {None} /\ upstream \in Responses \cup {None}
    /\ captured \in Exchange \cup {None}
    /\ request_rules \in RuleSets /\ response_rules \in RuleSets
    /\ replacements \in 0 .. MaxReplacements

Init ==
    /\ rules \in RuleSets
    /\ pc = "idle" /\ request = None /\ response = None /\ captured = None
    /\ client = None /\ upstream = None
    /\ request_rules = <<>> /\ response_rules = <<>>
    /\ replacements = 0

(* The exchange sends `after`, made from `before` with the rules `list`.   *)
Begin(before, after, list) ==
    /\ pc = "idle" /\ pc' = "forwarded"
    /\ client' = before /\ request' = after /\ request_rules' = list
    /\ response' = None /\ upstream' = None /\ response_rules' = <<>>
    /\ UNCHANGED <<rules, captured, replacements>>

(* Chunked heads and those with an invalid length go no further.           *)
Forward == \E head \in Requests : Begin(head, ApplyRequestRules(head, rules), rules)

Reconstructed == Framing \cup {"host", "keep-alive", "te", "trailer", "upgrade"}

(* What both explicit requests make of a head: a new Host header, and a    *)
(* length if there is a body.                                              *)
Rebuilt(host, r) ==
    [host    |-> host,
     path    |-> r.path,
     headers |-> [name \in Names |->
                     CASE name = "host" -> <<host>>
                       [] name = "content-length" ->
                              IF r.headers[name] = <<>> THEN <<>> ELSE <<r.headers[name][1]>>
                       [] name \in Reconstructed \ {"host", "content-length"} -> <<>>
                       [] OTHER -> r.headers[name]]]

(* The composer takes the parts of some head; the target must be a path.   *)
(* No rule touches its request.                                            *)
Execute ==
    \E head \in Requests :
        /\ head.path[1] = "/"
        /\ LET made == Rebuilt(head.host, head) IN Begin(made, made, <<>>)

Authority(r) == IF r.headers["host"] = <<>> THEN r.host ELSE r.headers["host"][1]

(* The record names where it goes by its Host header.                      *)
ReplayRequest(r) == Rebuilt(Authority(r), r)

Replay ==
    /\ captured # None
    /\ captured.request.path[1] = "/"
    /\ captured.request.headers["transfer-encoding"] = <<>>
    /\ Authority(captured.request) \in Hosts
    /\ LET head == ReplayRequest(captured.request) IN Begin(head, head, <<>>)

RespondTo(head) ==
    /\ pc = "forwarded" /\ pc' = "delivered"
    /\ \E reply \in Responses :
          /\ upstream' = reply
          /\ response' = ApplyResponseRules(head, reply, rules)
    /\ response_rules' = rules
    /\ UNCHANGED <<rules, request, captured, client, request_rules, replacements>>

(* Faulty: the response is matched by the request as it came.              *)
RespondToClient == RespondTo(client)

Respond == RespondTo(request)

Finish ==
    /\ pc \in {"forwarded", "delivered"} /\ pc' = "idle"
    /\ captured' = [request |-> request, upstream |-> upstream, response |-> response,
                    rules |-> response_rules]
    /\ UNCHANGED <<rules, request, response, ghosts, replacements>>

(* What RuleStore's Install does, at any time.                             *)
Replace ==
    /\ replacements < MaxReplacements
    /\ replacements' = replacements + 1
    /\ \E list \in Submitted \ {rules} : rules' = list
    /\ UNCHANGED <<pc, request, response, captured, ghosts>>

Next == Forward \/ Execute \/ Replay \/ Respond \/ Finish \/ Replace

Spec == Init /\ [][Next]_vars
-----------------------------------------------------------------------------
(* What rules promise, said without applying them.                         *)

(* The scripts of a list of rules are what its rules do, one by one; a     *)
(* place is that of an action: its rule and its place among the actions.   *)
RequestScripts(list)  == [i \in DOMAIN list |-> list[i].actions]
ResponseScripts(list) == [i \in DOMAIN list |-> list[i].response_actions]

Places(scripts, chosen) == UNION {{i} \X DOMAIN scripts[i] : i \in chosen}

At(scripts, p) == scripts[p[1]][p[2]]

NotAfter(p, q) == p[1] < q[1] \/ (p[1] = q[1] /\ p[2] <= q[2])

Latest(places) == CHOOSE q \in places : \A p \in places : NotAfter(p, q)

(* The last action that counts decides; before any, what came stays.       *)
IsMove(a)   == a.type = "set_path" /\ UsablePath(a.path)
IsStatus(a) == a.type = "set_status" /\ ValidStatus(a.status)
IsEdit(a, name) ==
    /\ a.type \in {"set_header", "remove_header"}
    /\ name \notin Framing /\ a.header.name = name
    /\ a.type = "set_header" => a.header.value # Unsafe

Moves(scripts, chosen)       == {p \in Places(scripts, chosen) : IsMove(At(scripts, p))}
Statuses(scripts, chosen)    == {p \in Places(scripts, chosen) : IsStatus(At(scripts, p))}
Edits(scripts, chosen, name) == {p \in Places(scripts, chosen) : IsEdit(At(scripts, p), name)}

PathAfter(path, scripts, chosen) ==
    LET moves == Moves(scripts, chosen)
    IN  IF moves = {} THEN path ELSE NormalizePath(At(scripts, Latest(moves)).path)

StatusAfter(status, scripts, chosen) ==
    LET statuses == Statuses(scripts, chosen)
    IN  IF statuses = {} THEN status ELSE At(scripts, Latest(statuses)).status

HeadersAgree(before, after, scripts, chosen) ==
    \A name \in Names :
        LET edits == Edits(scripts, chosen, name)
            last  == At(scripts, Latest(edits))
        IN  IF edits = {} THEN after[name] = before[name]
            ELSE IF last.type = "remove_header" THEN after[name] = <<>>
            ELSE after[name] # <<>> /\ after[name][1] = last.header.value

(* The rules that match are those whose host and prefix fit the request as *)
(* the ones that match before them have changed its path.                  *)
MatchInTurn(list, head, chosen) ==
    \A i \in DOMAIN list :
        LET path == PathAfter(head.path, RequestScripts(list), chosen \cap 1 .. (i - 1))
        IN  i \in chosen <=> Matches(list[i], [head EXCEPT !.path = path])

MatchedByRequest == CHOOSE chosen \in SUBSET DOMAIN request_rules :
                        MatchInTurn(request_rules, client, chosen)

MatchedByResponse == {i \in DOMAIN response_rules : Matches(response_rules[i], request)}

(* What a client takes for the body after a head, but for a HEAD request,  *)
(* which has none: nothing, or what the headers say.                       *)
Frame(headers) == [name \in Framing |-> headers[name]]

Bodyless == 100 .. 199 \cup {204, 205, 304}

BodyFrame(head) == IF head.status \in Bodyless THEN None ELSE Frame(head.headers)

-----------------------------------------------------------------------------
(* "Rules run from top to bottom. Later request rules see request changes  *)
(* made by earlier rules" (RulesWorkspace.swift:197): the head that is     *)
(* sent is what the last of the actions of the rules that match say, and   *)
(* its host is the client's (rules.rs:63, main.rs:419).                    *)
RequestFollowsRules ==
    request # None =>
        \E chosen \in SUBSET DOMAIN request_rules :
            LET scripts == RequestScripts(request_rules) IN
            /\ MatchInTurn(request_rules, client, chosen)
            /\ request.host = client.host
            /\ request.path = PathAfter(client.path, scripts, chosen)
            /\ HeadersAgree(client.headers, request.headers, scripts, chosen)

(* The head that is delivered is what the last of the actions say of the   *)
(* rules that match the request that was sent, under one set of rules even *)
(* if they are replaced in between (rules.rs:83, main.rs:470).  Of a       *)
(* header that was set this is the first copy: later ones stay if the      *)
(* first had the value already (rules.rs:149).                             *)
ResponseFollowsRules ==
    response # None =>
        LET scripts == ResponseScripts(response_rules) IN
        /\ response.status = StatusAfter(upstream.status, scripts, MatchedByResponse)
        /\ HeadersAgree(upstream.headers, response.headers, scripts, MatchedByResponse)

(* No rule touches the headers that frame a body: they stay as they came,  *)
(* whatever their spelling in the rule and in the message (rules.rs:182);  *)
(* the length of the body that is copied is read after the rules           *)
(* (main.rs:424-425).                                                      *)
FramingSurvives ==
    /\ request # None => Frame(request.headers) = Frame(client.headers)
    /\ response # None => Frame(response.headers) = Frame(upstream.headers)

(* "Status rewrites preserve the upstream body" (RulesWorkspace.swift:190):*)
(* a client takes it to be as long as the server meant it, and what is     *)
(* copied after the head in any case is that body (main.rs:474-483), since *)
(* no rule gives a status without a body (rules.rs:220), or edits what     *)
(* else frames it.  The exception is a reply whose own status has no body  *)
(* and that a rule gives another one, which the code allows (rules.rs:128),*)
(* although the body is then not preserved.                                *)
StatusKeepsBody ==
    /\ response # None
    /\ upstream.status \in Bodyless => response.status = upstream.status
    => BodyFrame(response) = BodyFrame(upstream)

(* Heads that were rewritten are well formed, the headers that frame a     *)
(* body are as they came, and a response that has a body keeps it          *)
(* (rules.rs:160-225).                                                     *)
MessagesStayWhole == TypeOK /\ FramingSurvives /\ StatusKeepsBody

(* The part of the promise below that holds: unless the rules are replaced *)
(* between the two passes or a rule that matches sets the path, both       *)
(* passes match the same rules (main.rs:419-422, 469-472).                 *)
SameRulesUnlessMoved ==
    /\ response # None /\ response_rules = request_rules
    /\ Moves(RequestScripts(request_rules), MatchedByRequest) = {}
    => MatchedByResponse = MatchedByRequest

(* "response actions use the same matched rule order"                      *)
(* (RulesWorkspace.swift:197): a rule that matched the request is applied  *)
(* to its response, and no other one.                                      *)
ResponseUsesMatchedRules ==
    response # None /\ request_rules # <<>>
    => [i \in MatchedByResponse |-> response_rules[i]]
     = [i \in MatchedByRequest |-> request_rules[i]]

(* Replaying a recorded exchange gives the same response if the server     *)
(* gives the same reply and the rules are the same, although no request    *)
(* rule is applied again: the record holds the request as it was sent, and *)
(* a response is matched by that (replay.rs:113-160, request_runtime.rs:   *)
(* 107).  The exception is a record that goes elsewhere, because a client  *)
(* or a rule gave it another Host header (replay.rs:109).                  *)
ReplaySeesSameResponse ==
    /\ captured # None /\ response # None
    /\ request = ReplayRequest(captured.request)
    /\ Authority(captured.request) = captured.request.host
    /\ upstream = captured.upstream /\ response_rules = captured.rules
    => response = captured.response
=============================================================================
