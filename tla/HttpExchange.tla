---------------------------- MODULE HttpExchange ----------------------------
(***************************************************************************)
(* The bytes of one exchange: how heads are found in what has arrived, and *)
(* how bodies are relayed and captured (proxy-daemon/src/main.rs and       *)
(* request_runtime.rs, over proxy-core/src/http.rs and body.rs).  Engine   *)
(* models what an exchange does to the records; here one exchange is taken *)
(* apart into reads and writes.                                            *)
(*                                                                         *)
(* A read returns any piece of what has arrived, so the same bytes may be  *)
(* cut in any way.  What the two peers send is fixed at the start; whether *)
(* they wait for one another, keep their connections open or stop reading  *)
(* is part of it.  Connecting, TLS and chunked requests are in Engine; an  *)
(* error on a connection ends the exchange where an early end does.        *)
(***************************************************************************)
EXTENDS BodyCapture

CONSTANTS
    HeadLimit,         \* MAX_REQUEST_HEAD_BYTES and MAX_RESPONSE_HEAD_BYTES
    HeadChunk,         \* the buffer heads are read with
    BodyChunk,         \* the buffer bodies are read with
    Window,            \* bytes a connection holds that the server has not read
    Exchanges          \* pairs of what a client and a server send

(* What a client sends: a head, then body bytes of the announced length or *)
(* more or less; whether it waits to be answered after its head, and       *)
(* whether it closes its side at the end.  "http" and "https" are proxied, *)
(* a "tunnel" is a CONNECT, "explicit" a request the daemon makes itself.  *)
Request ==
    [ kind : {"http", "https", "tunnel", "explicit"}, head : Nat, length : Nat,
      sends : Nat, waits : BOOLEAN, closes : BOOLEAN ]

(* What a server sends: an interim head such as 100 Continue, if any, a    *)
(* head, a body, or less.  It answers after it has read so many body       *)
(* bytes; an eager one sends a byte of its body for each.                  *)
Response ==
    [ interim : Nat, head : Nat, sends : Nat, reads : Nat, eager : BOOLEAN, closes : BOOLEAN ]

ASSUME HttpExchangeAssumption ==
    /\ HeadChunk \in Nat \ {0} /\ BodyChunk \in Nat \ {0} /\ Window \in Nat \ {0}
    /\ HeadLimit \in Nat /\ HeadLimit >= HeadChunk
    /\ Exchanges \subseteq Request \X Response
    /\ \A e \in Exchanges :
          /\ IF e[1].kind = "explicit" THEN e[1].head = 0 /\ e[1].sends = e[1].length
             ELSE e[1].head > 0
          /\ e[2].head > 0

VARIABLES
    request, response,     \* what the peers send, fixed
    pc,
    from_client,           \* bytes read from the client
    pending,               \* body bytes read and not written upstream yet
    to_upstream,           \* bytes after the head that were written upstream
    up_read,               \* how many of them the server has read
    from_upstream,         \* bytes read from the server
    delivered,             \* body bytes passed on: to the client, or for an
                           \* explicit request only to the capture
    request_capture, response_capture

vars == <<request, response, pc, from_client, pending, to_upstream, up_read,
          from_upstream, delivered, request_capture, response_capture>>

Ended == {"rejected", "too_large", "dropped", "failed",
          "response_too_large", "complete", "closed"}
Points == {"request_head", "request_write", "request_body", "response_head",
           "response_body", "tunnel"} \cup Ended

Least(a, b) == IF a < b THEN a ELSE b
Most(a, b) == IF a < b THEN b ELSE a

Init ==
    /\ \E e \in Exchanges : request = e[1] /\ response = e[2]
    /\ from_client = 0 /\ up_read = 0 /\ from_upstream = 0
    /\ to_upstream = << >> /\ delivered = << >>
    /\ response_capture = NewCapture
    /\ \/ /\ request.kind = "explicit"
          /\ pc = "request_write"
          /\ pending = Bytes(1, request.length)
          /\ request_capture = Ingest(NewCapture, pending)
       \/ /\ request.kind # "explicit"
          /\ pc = "request_head"
          /\ pending = << >>
          /\ request_capture = NewCapture

Goto(point) == pc' = point

(* What a step on the request side, or on the response side, leaves alone. *)
RequestSide  == UNCHANGED <<request, response, from_upstream, delivered, response_capture>>
ResponseSide == UNCHANGED <<request, response, from_client, pending, to_upstream, up_read,
                            request_capture>>

-----------------------------------------------------------------------------
(* The peers.                                                              *)

(* Where the first head of the answer ends: an interim one is not told     *)
(* from a final one.                                                       *)
ResponseHead == IF response.interim > 0 THEN response.interim ELSE response.head

(* A client that waits is answered by the CONNECT reply or by the relayed  *)
(* head.  An explicit request has all its bytes in memory.                 *)
FromClientAvailable ==
    IF request.waits /\ pc \notin {"tunnel", "response_body"}
    THEN Least(request.head, request.sends) ELSE request.sends

ClientEnded == request.closes /\ from_client = request.sends /\ from_client = FromClientAvailable

ServerAnswers == up_read >= Least(response.reads, request.length)

(* Nothing but the interim head before the server answers, unless it is    *)
(* eager.                                                                  *)
FromServerAvailable ==
    CASE request.kind = "tunnel" \/ ServerAnswers -> response.sends
      [] ~ServerAnswers /\ response.eager ->
             Least(response.interim + response.head + up_read, response.sends)
      [] OTHER -> Least(response.interim, response.sends)

ServerEnded == response.closes /\ from_upstream = response.sends

(* An eager server writes what it owes before it reads on.                 *)
ServerBlocked == response.eager /\ FromServerAvailable - from_upstream > Window

ServerReads ==
    /\ pc \notin Ended
    /\ up_read < Least(Len(to_upstream), response.reads)
    /\ ~ServerBlocked
    /\ up_read' = up_read + 1
    /\ RequestSide /\ UNCHANGED <<pc, from_client, pending, to_upstream, request_capture>>

-----------------------------------------------------------------------------
(* read_http_head and read_response_head.                                  *)

(* Faulty: the limit is not compared with what was read past the head.     *)
HeadStateOnceFound(read, end) ==
    IF read >= end THEN "complete" ELSE IF read >= HeadLimit THEN "too_large" ELSE "incomplete"

(* Faulty: an end of the head in the last four bytes is overlooked.        *)
HeadStateSkippingLast(read, end) ==
    CASE read > HeadLimit -> "too_large"
      [] read <= HeadLimit /\ read > end -> "complete"
      [] read = HeadLimit /\ read <= end -> "too_large"
      [] OTHER -> "incomplete"

(* find_head_end first compares everything read with the limit; without an *)
(* end of the head, no more is read from the limit on.                     *)
HeadState(read, end) ==
    CASE read > HeadLimit -> "too_large"
      [] read <= HeadLimit /\ read >= end -> "complete"
      [] read = HeadLimit /\ read < end -> "too_large"
      [] OTHER -> "incomplete"

ReadClient(read) ==
    /\ read \in 1 .. FromClientAvailable - from_client
    /\ from_client' = from_client + read
    /\ RequestSide /\ UNCHANGED up_read

ReadRequestHead(read, found) ==
    /\ pc = "request_head" /\ read <= HeadChunk
    /\ ReadClient(read)
    /\ HeadState(from_client', request.head) = found

ReadPartOfHead(read) ==
    /\ ReadRequestHead(read, "incomplete")
    /\ UNCHANGED <<pc, pending, to_upstream, request_capture>>

(* 400 Bad Request, except inside an intercepted tunnel.                   *)
RefuseHead(read) ==
    /\ ReadRequestHead(read, "too_large")
    /\ Goto("too_large")
    /\ UNCHANGED <<pending, to_upstream, request_capture>>

RequestHeadEnds ==
    /\ pc = "request_head" /\ ClientEnded
    /\ Goto(IF request.kind = "https" THEN "dropped" ELSE "rejected")
    /\ RequestSide /\ UNCHANGED <<from_client, pending, to_upstream, up_read, request_capture>>

(* Faulty: everything read past the head counts as its body.               *)
ForwardAllBuffered(read) ==
    /\ ReadRequestHead(read, "complete") /\ request.kind # "tunnel"
    /\ pending' = Bytes(request.head + 1, from_client')
    /\ request_capture' = Ingest(request_capture, pending')
    /\ Goto("request_write")
    /\ UNCHANGED to_upstream

(* The request head is forwarded, then the body bytes that came with it;   *)
(* bytes past the announced length are dropped.                            *)
ForwardBuffered(read) ==
    /\ ReadRequestHead(read, "complete") /\ request.kind # "tunnel"
    /\ pending' = Bytes(request.head + 1, Least(from_client', request.head + request.length))
    /\ request_capture' = Ingest(request_capture, pending')
    /\ Goto("request_write")
    /\ UNCHANGED to_upstream

(* Faulty: all that was read is passed on, the CONNECT included.           *)
OpenTunnelWithHead(read) ==
    /\ ReadRequestHead(read, "complete") /\ request.kind = "tunnel"
    /\ to_upstream' = Bytes(1, from_client')
    /\ Goto("tunnel")
    /\ UNCHANGED <<pending, request_capture>>

(* 200 Connection Established; what was read past the head is not passed   *)
(* on.                                                                     *)
OpenTunnel(read) ==
    /\ ReadRequestHead(read, "complete") /\ request.kind = "tunnel"
    /\ Goto("tunnel")
    /\ UNCHANGED <<pending, to_upstream, request_capture>>

-----------------------------------------------------------------------------
(* The request body: copy_exact_remaining_with_capture, or the body of an  *)
(* explicit request.                                                       *)

(* What of the announced length was not read yet.                          *)
Remaining ==
    IF request.kind = "explicit" THEN 0
    ELSE request.head + request.length - Least(from_client, request.head + request.length)

WriteRequest(written) ==
    /\ pc = "request_write"
    /\ written \in 1 .. Least(Len(pending), Window - (Len(to_upstream) - up_read))
    /\ to_upstream' = to_upstream \o SubSeq(pending, 1, written)
    /\ pending' = SubSeq(pending, written + 1, Len(pending))
    /\ RequestSide /\ UNCHANGED <<pc, from_client, up_read, request_capture>>

(* A server that is done with the request before its end resets the        *)
(* connection; its answer is lost.                                         *)
WriteRefused ==
    /\ pc = "request_write" /\ pending # << >>
    /\ response.closes /\ response.reads < request.length /\ up_read = response.reads
    /\ Goto(IF request.kind = "explicit" THEN "failed" ELSE "dropped")
    /\ RequestSide /\ UNCHANGED <<from_client, pending, to_upstream, up_read, request_capture>>

RequestWritten ==
    /\ pc = "request_write" /\ pending = << >>
    /\ Goto(IF Remaining = 0 THEN "response_head" ELSE "request_body")
    /\ RequestSide /\ UNCHANGED <<from_client, pending, to_upstream, up_read, request_capture>>

ReadRequestBody(read) ==
    /\ pc = "request_body" /\ read <= Least(BodyChunk, Remaining)
    /\ ReadClient(read)
    /\ pending' = Bytes(from_client + 1, from_client')
    /\ request_capture' = Ingest(request_capture, pending')
    /\ Goto("request_write")
    /\ UNCHANGED to_upstream

RequestBodyEnds ==
    /\ pc = "request_body" /\ ClientEnded
    /\ Goto("dropped")
    /\ RequestSide /\ UNCHANGED <<from_client, pending, to_upstream, up_read, request_capture>>

-----------------------------------------------------------------------------
(* The response: read_http_head or read_response_head, then                *)
(* copy_with_capture or read_to_capture, to the end of the connection.     *)

ReadServer(read) ==
    /\ read \in 1 .. FromServerAvailable - from_upstream
    /\ from_upstream' = from_upstream + read
    /\ ResponseSide

ReadResponseHead(read, found) ==
    /\ pc = "response_head" /\ read <= HeadChunk
    /\ ReadServer(read)
    /\ HeadState(from_upstream', ResponseHead) = found

ReadPartOfResponseHead(read) ==
    /\ ReadResponseHead(read, "incomplete")
    /\ UNCHANGED <<pc, delivered, response_capture>>

RefuseResponseHead(read) ==
    /\ ReadResponseHead(read, "too_large")
    /\ Goto("response_too_large")
    /\ UNCHANGED <<delivered, response_capture>>

ResponseHeadEnds ==
    /\ pc = "response_head" /\ ServerEnded
    /\ Goto("failed")
    /\ ResponseSide /\ UNCHANGED <<from_upstream, delivered, response_capture>>

(* The head, and whatever came with it, is passed on and captured.         *)
DeliverBuffered(read) ==
    /\ ReadResponseHead(read, "complete")
    /\ delivered' = Bytes(ResponseHead + 1, from_upstream')
    /\ response_capture' = Ingest(response_capture, delivered')
    /\ Goto("response_body")

ReadResponseBody(read) ==
    /\ pc = "response_body" /\ read <= BodyChunk
    /\ ReadServer(read)
    /\ LET bytes == Bytes(from_upstream + 1, from_upstream')
       IN  /\ delivered' = delivered \o bytes
           /\ response_capture' = Ingest(response_capture, bytes)
    /\ UNCHANGED pc

ResponseEnds ==
    /\ pc = "response_body" /\ ServerEnded
    /\ Goto("complete")
    /\ ResponseSide /\ UNCHANGED <<from_upstream, delivered, response_capture>>

-----------------------------------------------------------------------------
(* An opaque tunnel: copy_bidirectional.                                   *)

TunnelUp(read) ==
    /\ pc = "tunnel"
    /\ ReadClient(read)
    /\ to_upstream' = to_upstream \o Bytes(from_client + 1, from_client')
    /\ UNCHANGED <<pc, pending, request_capture>>

TunnelDown(read) ==
    /\ pc = "tunnel"
    /\ ReadServer(read)
    /\ delivered' = delivered \o Bytes(from_upstream + 1, from_upstream')
    /\ UNCHANGED <<pc, response_capture>>

TunnelEnds ==
    /\ pc = "tunnel" /\ ClientEnded /\ ServerEnded
    /\ Goto("closed")
    /\ ResponseSide /\ UNCHANGED <<from_upstream, delivered, response_capture>>

-----------------------------------------------------------------------------
(* Where a peer keeps the exchange: it neither sends nor closes, or it     *)
(* does not read what is written to it.                                    *)
ClientSilent == from_client = FromClientAvailable /\ ~ClientEnded
ServerSilent == from_upstream = FromServerAvailable /\ ~ServerEnded

Stalled ==
    \/ pc \in {"request_head", "request_body"} /\ ClientSilent
    \/ pc = "request_write" /\ Len(to_upstream) - up_read = Window
    \/ pc \in {"response_head", "response_body"} /\ ServerSilent
    \/ pc = "tunnel" /\ (ClientSilent \/ ServerSilent)

Rest == (pc \in Ended \/ Stalled) /\ UNCHANGED vars

Reads == 1 .. (IF HeadChunk < BodyChunk THEN BodyChunk ELSE HeadChunk)

Daemon ==
    \/ \E read \in Reads :
          \/ ReadPartOfHead(read) \/ RefuseHead(read)
          \/ ForwardBuffered(read) \/ OpenTunnel(read) \/ ReadRequestBody(read)
          \/ ReadPartOfResponseHead(read) \/ RefuseResponseHead(read)
          \/ DeliverBuffered(read) \/ ReadResponseBody(read)
          \/ TunnelUp(read) \/ TunnelDown(read)
    \/ \E written \in 1 .. Window : WriteRequest(written)
    \/ RequestHeadEnds \/ WriteRefused \/ RequestWritten \/ RequestBodyEnds
    \/ ResponseHeadEnds \/ ResponseEnds \/ TunnelEnds

Next == Daemon \/ ServerReads \/ Rest

Spec == Init /\ [][Next]_vars

(* The runtime runs a task whose read or write can go on, and the server   *)
(* reads unless it is blocked.                                             *)
FairSpec == Spec /\ WF_vars(Daemon) /\ WF_vars(ServerReads)

-----------------------------------------------------------------------------
Capture(b) == b.captured \in Seq(Nat) /\ b.total_bytes \in Nat

(* No more is read than was sent, and what waits to be written upstream    *)
(* does so only while the request is relayed (main.rs:437-453).            *)
TypeOK ==
    /\ <<request, response>> \in Exchanges
    /\ pc \in Points
    /\ from_client \in 0 .. request.sends
    /\ from_upstream \in 0 .. response.sends
    /\ pending \in Seq(Nat) /\ to_upstream \in Seq(Nat) /\ delivered \in Seq(Nat)
    /\ up_read \in 0 .. Len(to_upstream)
    /\ Capture(request_capture) /\ Capture(response_capture)
    /\ pc = "request_write" \/ pc \in Ended \/ pending = << >>

Relayed == request.kind # "tunnel"

Relay == INSTANCE ByteRelay WITH
    announced <- [first |-> request.head + 1, length |-> request.length],
    answered  <- [first |-> ResponseHead + 1, length |-> Most(response.sends - ResponseHead, 0)],
    up        <- IF Relayed THEN to_upstream ELSE << >>,
    down      <- IF Relayed THEN delivered ELSE << >>,
    state     <- IF pc \notin Ended THEN "open" ELSE IF pc = "complete" THEN pc ELSE "broken"

(* However the bytes are cut on the way, whatever arrives with a head or   *)
(* after a body, and whoever stops early: bodies are relayed in order, not *)
(* beyond the announced length, and an exchange is complete only when both *)
(* are (main.rs:437-493, request_runtime.rs:98-134).                       *)
ImplementsByteRelay == Relay!Spec

(* A preview is the beginning of the body that was passed on and counts    *)
(* all of it, whichever reads the bytes came with (body.rs:27-52).         *)
PreviewOfBody(capture, first, length) ==
    /\ capture.total_bytes = length
    /\ capture.captured = Bytes(first, first + Least(length, PreviewLimit) - 1)
    /\ Truncated(capture) <=> length > PreviewLimit

PreviewsMatchBodies ==
    Relayed =>
        /\ PreviewOfBody(request_capture, request.head + 1, Len(to_upstream) + Len(pending))
        /\ PreviewOfBody(response_capture, ResponseHead + 1, Len(delivered))

(* What is captured is what was relayed, in every state of an exchange     *)
(* (main.rs:437-493, 620-655).                                             *)
CapturesMatchBodies == TypeOK /\ PreviewsMatchBodies

HeadAccepted == request.kind # "explicit" /\ pc \notin {"request_head", "rejected", "too_large"}

(* No head beyond the limit is taken, in whatever pieces it comes.  One    *)
(* within it is called too large, which it is not (http.rs:46), only       *)
(* together with body bytes: the head fits less than a read below the      *)
(* limit, and the client did not wait for an answer to it (http.rs:70-79,  *)
(* main.rs:657-686, request_runtime.rs:185-206).                           *)
HeadLimitHolds ==
    /\ HeadAccepted /\ pc # "dropped" => request.head <= HeadLimit
    /\ pc \in {"response_body", "complete"} => ResponseHead <= HeadLimit
    /\ pc = "too_large" /\ request.head <= HeadLimit =>
          /\ request.head + HeadChunk > HeadLimit + 1
          /\ ~request.waits
    /\ pc = "response_too_large" => ResponseHead + HeadChunk > HeadLimit + 1

(* A tunnel without interception is "transparent" (main.rs:79) for clients *)
(* that wait for the reply to their CONNECT: nothing is lost of what they  *)
(* send, nor of what the server sends (main.rs:333).  Of what comes in one *)
(* read with the CONNECT that cannot be said (main.rs:320-333).            *)
TunnelKeepsAnsweredClients ==
    pc \in {"tunnel", "closed"} =>
        /\ request.waits => to_upstream = Bytes(request.head + 1, from_client)
        /\ delivered = Bytes(1, from_upstream)

(* Peers that keep nobody waiting: all that is announced is sent, without  *)
(* waiting for an interim answer; the server reads the request and does    *)
(* not fill the connection with its answer before that, and it closes.     *)
Willing ==
    /\ Relayed
    /\ request.sends >= request.head + request.length /\ ~request.waits
    /\ response.reads >= request.length /\ response.closes
    /\ response.eager => response.sends <= Window
    /\ response.sends >= ResponseHead
    /\ request.head + HeadChunk <= HeadLimit + 1 /\ ResponseHead + HeadChunk <= HeadLimit + 1

(* With such peers every exchange completes, however little the connection *)
(* holds and however bytes are cut: nothing that was already read is       *)
(* waited for again (main.rs:437-483, 596-639).                            *)
ExchangeCompletes == Willing ~> pc = "complete"
=============================================================================
