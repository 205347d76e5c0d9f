---------------------------- MODULE Destinations ----------------------------
(***************************************************************************)
(* Where requests go, and where their replays go: the authorities that the *)
(* proxy reads (proxy-core/src/http.rs), that the composer is given        *)
(* (proxy-daemon/src/composer.rs), that a replay reads from a record and   *)
(* writes again (proxy-daemon/src/replay.rs), and that the application     *)
(* exports (macos/Sources/ProxymanCloneKit).  Each part has a parser of    *)
(* its own, and only texts pass between them.                              *)
(*                                                                         *)
(* A text is a sequence of pieces: the separators, numbers, and a name     *)
(* that is no number.  Of a body its length and the preview of BodyCapture *)
(* count.  Refused methods, targets, headers, spaces and sizes are left    *)
(* out, as is the encoding of a body that is no text beyond its refusal;   *)
(* rewrite rules are in Rules.                                             *)
(***************************************************************************)
EXTENDS BodyCapture, FiniteSets, SequencesExt

CONSTANTS
    Sources,           \* the requests that are captured first
    MaxReplays         \* bounds the model

PortNumber == [t \in {"80", "443", "8080"} |->
                  CASE t = "80" -> 80 [] t = "443" -> 443 [] t = "8080" -> 8080]
Numbers == DOMAIN PortNumber
Pieces == {"[", "]", ":", "name"} \cup Numbers

Absent == << >>        \* no Host header; an empty one is left out

(* A request as it reaches the daemon.  Its target is "origin" (a path),   *)
(* "absolute" (http:// and an authority) or "other".  The authority is     *)
(* that of an absolute target or of the CONNECT of a tunnel; the host is   *)
(* the Host header, or for a composed request the host it names, with a    *)
(* port, or 0 for none.                                                    *)
Source ==
    [ kind : {"http", "https", "composed"}, scheme : {"http", "https"},
      target : {"origin", "absolute", "other"},
      authority : Seq(Pieces), host : Seq(Pieces), port : {0} \cup {80, 443, 8080},
      body : Nat, text : BOOLEAN ]

(* Two numbers side by side would be another number.                       *)
Readable(text) == \A i \in 1 .. Len(text) - 1 : ~(text[i] \in Numbers /\ text[i + 1] \in Numbers)

ASSUME DestinationsAssumption ==
    /\ Sources \subseteq Source /\ MaxReplays \in Nat
    /\ \A s \in Sources :
          /\ Readable(s.authority) /\ Readable(s.host)
          /\ s.kind # "composed" => s.scheme = s.kind
          /\ s.kind # "http" => s.target # "absolute"

VARIABLES
    source,            \* the first request, fixed
    record,            \* what was captured last
    went,              \* where the request and its replays went
    bodies,            \* the lengths of the bodies they sent
    refused            \* whether the request or a replay was refused

vars == <<source, record, went, bodies, refused>>

-----------------------------------------------------------------------------
(* Authorities.  A parser returns a set: the place, or nothing.            *)

DefaultPort(scheme) == IF scheme = "https" THEN 443 ELSE 80

Place(host, port) == [host |-> host, port |-> port]

After(text, i) == SubSeq(text, i + 1, Len(text))
Colons(text) == Cardinality({i \in DOMAIN text : text[i] = ":"})
FirstAt(text, piece) == SelectInSeq(text, LAMBDA t : t = piece)
LastAt(text, piece) == SelectLastInSeq(text, LAMBDA t : t = piece)
StartsWith(text, piece) == text # << >> /\ text[1] = piece
EndsWith(text, piece) == text # << >> /\ text[Len(text)] = piece

(* parse::<u16>().                                                         *)
Ports(text) == IF Len(text) = 1 /\ text[1] \in Numbers THEN {PortNumber[text[1]]} ELSE {}

PortsAfter(text, default) ==
    CASE text = << >> -> {default}
      [] StartsWith(text, ":") -> Ports(After(text, 1))
      [] OTHER -> {}

Bracketed(text, default) ==
    LET close == FirstAt(text, "]")
    IN  IF close = 0 THEN {}
        ELSE {Place(SubSeq(text, 2, close - 1), p) : p \in PortsAfter(After(text, close), default)}

(* Host and port around the one colon of a text, or all of it.             *)
AroundColon(text, default) ==
    LET colon == LastAt(text, ":")
    IN  CASE colon = 1 -> {}
          [] colon > 1 -> {Place(SubSeq(text, 1, colon - 1), p) : p \in Ports(After(text, colon))}
          [] OTHER -> {Place(text, default)}

(* split_authority() of the proxy: what precedes the last colon must have  *)
(* none, or the colon separates no port.                                   *)
SplitAuthority(text, default) ==
    LET colon == LastAt(text, ":")
    IN  CASE text = << >> -> {}
          [] StartsWith(text, "[") -> Bracketed(text, default)
          [] ~StartsWith(text, "[") /\ Colons(SubSeq(text, 1, colon - 1)) > 0 ->
                 {Place(text, default)}
          [] OTHER -> AroundColon(text, default)

(* Faulty: the last colon separates a port, of however many.               *)
ParseAtLastColon(text, default) ==
    CASE text = << >> -> {}
      [] StartsWith(text, "[") -> {p \in Bracketed(text, default) : p.host # << >>}
      [] OTHER -> AroundColon(text, default)

(* parse_authority() of a replay: brackets must not be empty.              *)
ParseAuthority(text, default) ==
    CASE text = << >> -> {}
      [] StartsWith(text, "[") -> {p \in Bracketed(text, default) : p.host # << >>}
      [] ~StartsWith(text, "[") /\ Colons(text) > 1 -> {Place(text, default)}
      [] OTHER -> AroundColon(text, default)

(* normalize_host() of the composer: no port, brackets around all or none. *)
NormalizeHost(text) ==
    CASE text = << >> -> {}
      [] StartsWith(text, "[") ->
             IF EndsWith(text, "]") /\ Len(text) > 2 THEN {SubSeq(text, 2, Len(text) - 1)} ELSE {}
      [] OTHER -> IF EndsWith(text, "]") THEN {} ELSE {text}

PortSuffix(port, default) ==
    IF port = default THEN << >> ELSE <<":", CHOOSE t \in Numbers : PortNumber[t] = port>>

(* Faulty: an address is written like a name.                              *)
NameAuthority(host, port, default) == host \o PortSuffix(port, default)

(* format_authority() of a replay.                                         *)
ReplayAuthority(host, port, default) ==
    (IF Colons(host) > 0 /\ ~StartsWith(host, "[") THEN <<"[">> \o host \o <<"]">> ELSE host)
        \o PortSuffix(port, default)

(* format_authority() of the composer.                                     *)
ComposedAuthority(host, port, default) ==
    (IF Colons(host) > 0 THEN <<"[">> \o host \o <<"]">> ELSE host) \o PortSuffix(port, default)

-----------------------------------------------------------------------------
(* Requests.                                                               *)

(* resolve_destination() of a request that is no CONNECT.                  *)
Resolve(s) == SplitAuthority(IF s.target = "absolute" THEN s.authority ELSE s.host, 80)

Record(s, scheme, host, header, target) ==
    [scheme |-> scheme, host |-> host, header |-> header, target |-> target,
     preview |-> Ingest(NewCapture, Bytes(1, s.body)), text |-> s.text]

Init ==
    /\ source \in Sources
    /\ record = Record(source, source.scheme, << >>, Absent, "other")
    /\ went = << >> /\ bodies = << >> /\ refused = FALSE

Captured(place, captured) ==
    /\ went' = <<place>> /\ bodies' = <<source.body>>
    /\ record' = captured
    /\ UNCHANGED <<source, refused>>

First(kind) == went = << >> /\ ~refused /\ source.kind = kind

(* The record has the host without the port, and a path unless the target  *)
(* was of another form.                                                    *)
Proxy ==
    /\ First("http")
    /\ \E place \in Resolve(source) :
          Captured(place, Record(source, "http", place.host, source.host,
                                 IF source.target = "other" THEN "other" ELSE "origin"))

(* Inside a tunnel the request is recorded with its own Host.              *)
Intercept ==
    /\ First("https")
    /\ \E place \in SplitAuthority(source.authority, 443), inner \in Resolve(source) :
          Captured(place, Record(source, "https", inner.host, source.host, source.target))

(* composer::prepare().                                                    *)
ComposedPlaces ==
    IF source.target # "origin" THEN {}
    ELSE {Place(host, IF source.port = 0 THEN DefaultPort(source.scheme) ELSE source.port) :
              host \in NormalizeHost(source.host)}

Execute ==
    /\ First("composed")
    /\ \E place \in ComposedPlaces :
          Captured(place, Record(source, source.scheme, place.host,
              ComposedAuthority(place.host, place.port, DefaultPort(source.scheme)), "origin"))

Refuse ==
    /\ went = << >> /\ ~refused
    /\ CASE source.kind = "http" -> Resolve(source) = {}
         [] source.kind = "https" ->
                SplitAuthority(source.authority, 443) = {} \/ Resolve(source) = {}
         [] source.kind = "composed" -> ComposedPlaces = {}
    /\ refused' = TRUE
    /\ UNCHANGED <<source, record, went, bodies>>

(* replay::prepare(): the Host header, or the recorded host if there is    *)
(* none.                                                                   *)
ReplayPlaces ==
    IF record.target # "origin" THEN {}
    ELSE ParseAuthority(IF record.header = Absent THEN record.host ELSE record.header,
                        DefaultPort(record.scheme))

(* Faulty: a preview that was cut is sent.                                 *)
ReplayBodyAsShown ==
    IF record.preview.total_bytes = 0 THEN {0}
    ELSE IF record.text THEN {Len(record.preview.captured)} ELSE {}

(* replay_body(): nothing, or all of a text.                               *)
ReplayBody ==
    IF record.preview.total_bytes = 0 THEN {0}
    ELSE IF Truncated(record.preview) \/ ~record.text THEN {}
    ELSE {Len(record.preview.captured)}

Again == went # << >> /\ ~refused /\ Len(went) <= MaxReplays

Replay ==
    /\ Again
    /\ \E place \in ReplayPlaces, length \in ReplayBody :
          /\ went' = Append(went, place) /\ bodies' = Append(bodies, length)
          /\ record' = Record([source EXCEPT !.body = length], record.scheme, place.host,
                ReplayAuthority(place.host, place.port, DefaultPort(record.scheme)), "origin")
    /\ UNCHANGED <<source, refused>>

ReplayRefused ==
    /\ Again
    /\ ReplayPlaces = {} \/ ReplayBody = {}
    /\ refused' = TRUE
    /\ UNCHANGED <<source, record, went, bodies>>

Done == (refused \/ Len(went) > MaxReplays) /\ UNCHANGED vars

Next == Proxy \/ Intercept \/ Execute \/ Refuse \/ Replay \/ ReplayRefused \/ Done

Spec == Init /\ [][Next]_vars

-----------------------------------------------------------------------------
(* Every place is a host and a port, and whatever is recorded of a body    *)
(* keeps to the limit (body.rs:27-40).                                     *)
TypeOK ==
    /\ source \in Source
    /\ \A i \in DOMAIN went : went[i].host \in Seq(Pieces) /\ went[i].port \in {80, 443, 8080}
    /\ Len(bodies) = Len(went) /\ Len(went) <= MaxReplays + 1
    /\ refused \in BOOLEAN
    /\ record.scheme = source.scheme
    /\ Len(record.preview.captured) <= PreviewLimit

(* The Host header says where the request went: of proxied requests it is  *)
(* the client that decides, and the composer, which takes off one pair of  *)
(* brackets, writes a host that still has one as it is.                    *)
HostAgrees ==
    IF source.kind = "composed" THEN ~StartsWith(went[1].host, "[")
    ELSE went[1] \in SplitAuthority(source.host, DefaultPort(source.scheme))

(* A replay goes where the request went, through two parsers and two       *)
(* formatters for names, addresses and ports, if its Host header says so   *)
(* (http.rs:176-297, replay.rs:106-112, 184-247, composer.rs:158-193).     *)
ReplayFindsOriginal == Len(went) > 1 /\ HostAgrees => went[2] = went[1]

(* A replay of a replay goes where that one went, whatever the first       *)
(* request was; every one sends the whole body, or none is sent.           *)
ReplaysAgree ==
    /\ \A i, j \in 2 .. Len(went) : went[i] = went[j]
    /\ \A i \in DOMAIN bodies : bodies[i] = source.body

(* Every replay of a record has the same place and the whole body, as far  *)
(* as previews keep it (replay.rs:158-182, body.rs:27-52).                 *)
ReplaysAreAlike == TypeOK /\ ReplaysAgree

PlainHost(host) == \A i \in DOMAIN host : host[i] \notin {"[", "]"}

(* What was replayed can be replayed again, and what was composed can be   *)
(* replayed if its body fits a preview; except for hosts with brackets     *)
(* inside, which name nothing.                                             *)
ReplayableAgain ==
    refused /\ went # << >> =>
        \/ ~PlainHost(went[1].host) \/ ~PlainHost(went[Len(went)].host)
        \/ Len(went) = 1 /\ (source.kind = "composed" => source.body > PreviewLimit \/ ~source.text)
=============================================================================
