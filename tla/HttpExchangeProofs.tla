------------------------- MODULE HttpExchangeProofs -------------------------
(***************************************************************************)
(* What holds of the bytes of an exchange for heads, bodies, buffers and   *)
(* limits of any size: what is relayed is the body, in order, in whatever  *)
(* pieces it comes, and what is captured is the beginning of it.           *)
(***************************************************************************)
EXTENDS HttpExchange, SequenceTheorems, TLAPS

(* The bytes of a body that begins at a place, as far as some length.      *)
Body(first, length) == Bytes(first, first + length - 1)

(* How many bytes of the request body were taken for the server.           *)
Taken == Len(to_upstream) + Len(pending)

(* Where a relayed exchange is past its request head, and past all of its  *)
(* request.                                                                *)
InBody == {"request_write", "request_body"}
InResponse == {"response_head", "response_body", "complete"}

(* What was written upstream and what waits to be written are adjacent     *)
(* pieces of the request body.                                             *)
UpstreamInOrder ==
    Relayed =>
        /\ to_upstream = Body(request.head + 1, Len(to_upstream))
        /\ pending = Body(request.head + 1 + Len(to_upstream), Len(pending))

(* Nothing is taken before the end of the head; from there on, what was    *)
(* read of the announced length and no more; and all of it once the        *)
(* response is waited for.                                                 *)
TakenIsWhatWasRead ==
    /\ pc = "request_head" => Taken = 0 /\ from_client < request.head /\ request.kind # "explicit"
    /\ pc \in InBody => Relayed
    /\ pc \in InBody \cup {"response_head"} =>
          /\ request.kind = "explicit" => Taken = request.length
          /\ request.kind # "explicit" =>
                /\ from_client >= request.head
                /\ Taken = Least(from_client, request.head + request.length) - request.head
    /\ pc \in InResponse => Relayed /\ Len(to_upstream) = request.length /\ pending = << >>

(* Nothing is delivered before the end of the response head, and then all  *)
(* that was read after it.                                                 *)
DeliveredIsWhatWasRead ==
    /\ pc \in {"request_head"} \cup InBody => from_upstream = 0
    /\ pc = "response_head" => from_upstream < ResponseHead
    /\ pc \in {"response_body", "complete"} =>
          /\ from_upstream >= ResponseHead
          /\ delivered = Body(ResponseHead + 1, from_upstream - ResponseHead)
    /\ pc \notin {"response_body", "complete", "tunnel", "closed"} => delivered = << >>
    /\ pc = "complete" => from_upstream = response.sends

(* A tunnel is opened by a CONNECT only, and passes on what comes after.   *)
TunnelPassesOn ==
    /\ pc \in {"tunnel", "closed"} =>
          /\ ~Relayed
          /\ request.waits => /\ from_client >= request.head
                              /\ to_upstream = Bytes(request.head + 1, from_client)
          /\ delivered = Bytes(1, from_upstream)

IInv ==
    /\ TypeOK /\ PreviewsMatchBodies /\ HeadLimitHolds
    /\ UpstreamInOrder /\ TakenIsWhatWasRead /\ DeliveredIsWhatWasRead /\ TunnelPassesOn

-----------------------------------------------------------------------------
(* Pieces of a stream.                                                     *)

(* The bytes from one place to another form a sequence of that length.     *)
LEMMA BytesIsSeq ==
    ASSUME NEW first \in Nat, NEW last \in Int, last >= first - 1
    PROVE  /\ Bytes(first, last) \in Seq(Nat)
           /\ Len(Bytes(first, last)) = last - first + 1
           /\ \A i \in 1 .. last - first + 1 : Bytes(first, last)[i] = first + i - 1
  <1> DEFINE n == last - first + 1
  <1>1. n \in Nat
    OBVIOUS
  <1>2. Bytes(first, last) = [i \in 1 .. n |-> first + i - 1]
    BY DEF Bytes
  <1>3. \A i \in 1 .. n : first + i - 1 \in Nat
    OBVIOUS
  <1> HIDE DEF n
  <1>4. Bytes(first, last) \in [1 .. n -> Nat]
    BY <1>1, <1>2, <1>3
  <1>5. Bytes(first, last) \in Seq(Nat)
    BY <1>1, <1>4, SeqDef
  <1>6. DOMAIN Bytes(first, last) = 1 .. n
    BY <1>2
  <1>7. Len(Bytes(first, last)) = n
    BY <1>1, <1>5, <1>6, LenProperties
  <1>. QED  BY <1>2, <1>5, <1>7 DEF n

(* A sequence is the bytes of a stream if its elements are.                *)
LEMMA IsBytes ==
    ASSUME NEW s \in Seq(Nat), NEW first \in Nat, NEW last \in Int, last >= first - 1,
           Len(s) = last - first + 1,
           \A i \in 1 .. last - first + 1 : s[i] = first + i - 1
    PROVE  s = Bytes(first, last)
  <1> DEFINE t == Bytes(first, last)
  <1>1. /\ t \in Seq(Nat) /\ Len(t) = Len(s)
        /\ \A i \in 1 .. Len(s) : s[i] = t[i]
    BY BytesIsSeq
  <1> HIDE DEF t
  <1>2. s = t
    BY <1>1, SeqEqual
  <1>. QED  BY <1>2 DEF t

(* Pieces that follow one another join to one.                             *)
LEMMA JoinBytes ==
    ASSUME NEW first \in Nat, NEW middle \in Int, NEW last \in Int,
           middle >= first - 1, last >= middle
    PROVE  Bytes(first, middle) \o Bytes(middle + 1, last) = Bytes(first, last)
  <1> DEFINE s == Bytes(first, middle)
             t == Bytes(middle + 1, last)
  <1>1. /\ s \in Seq(Nat) /\ Len(s) = middle - first + 1
        /\ \A i \in 1 .. middle - first + 1 : s[i] = first + i - 1
    BY BytesIsSeq
  <1>2. /\ t \in Seq(Nat) /\ Len(t) = last - middle
        /\ \A i \in 1 .. last - middle : t[i] = middle + i
    <2>1. middle + 1 \in Nat /\ last >= (middle + 1) - 1 /\ last - (middle + 1) + 1 = last - middle
      OBVIOUS
    <2>2. /\ t \in Seq(Nat) /\ Len(t) = last - (middle + 1) + 1
          /\ \A i \in 1 .. last - (middle + 1) + 1 : t[i] = (middle + 1) + i - 1
      BY <2>1, BytesIsSeq
    <2>3. \A i \in 1 .. last - middle : t[i] = (middle + 1) + i - 1
      BY <2>1, <2>2
    <2> HIDE DEF t
    <2>. QED  BY <2>1, <2>2, <2>3
  <1> HIDE DEF s, t
  <1>3. /\ s \o t \in Seq(Nat) /\ Len(s \o t) = Len(s) + Len(t)
        /\ \A i \in 1 .. Len(s) + Len(t) :
              (s \o t)[i] = IF i <= Len(s) THEN s[i] ELSE t[i - Len(s)]
    BY <1>1, <1>2, ConcatProperties
  <1>4. \A i \in 1 .. last - first + 1 : (s \o t)[i] = first + i - 1
    <2> SUFFICES ASSUME NEW i \in 1 .. last - first + 1
                 PROVE  (s \o t)[i] = first + i - 1
      OBVIOUS
    <2>1. CASE i <= Len(s)
      BY <2>1, <1>1, <1>2, <1>3
    <2>2. CASE ~(i <= Len(s))
      <3>1. i - Len(s) \in 1 .. last - middle
        BY <2>2, <1>1
      <3>2. t[i - Len(s)] = middle + (i - Len(s))
        BY <3>1, <1>2
      <3>3. (s \o t)[i] = t[i - Len(s)]
        BY <2>2, <1>1, <1>2, <1>3
      <3>. QED  BY <3>2, <3>3, <1>1
    <2>. QED  BY <2>1, <2>2
  <1>5. s \o t \in Seq(Nat) /\ Len(s \o t) = last - first + 1 /\ last >= first - 1
    BY <1>1, <1>2, <1>3
  <1>6. s \o t = Bytes(first, last)
    BY <1>4, <1>5, IsBytes
  <1>. QED  BY <1>6 DEF s, t

(* A piece is cut in two pieces.                                           *)
LEMMA CutBytes ==
    ASSUME NEW first \in Nat, NEW last \in Int, last >= first - 1,
           NEW n \in 0 .. last - first + 1
    PROVE  /\ SubSeq(Bytes(first, last), 1, n) = Bytes(first, first + n - 1)
           /\ SubSeq(Bytes(first, last), n + 1, last - first + 1) = Bytes(first + n, last)
  <1> DEFINE s == Bytes(first, last)
             m == last - first + 1
  <1>1. /\ s \in Seq(Nat) /\ Len(s) = m /\ m \in Nat
        /\ \A i \in 1 .. m : s[i] = first + i - 1
    BY BytesIsSeq
  <1> HIDE DEF s
  <1>2. \A i \in 1 .. m : s[i] \in Nat
    BY <1>1
  <1>3. SubSeq(s, 1, n) = Bytes(first, first + n - 1)
    <2> DEFINE u == SubSeq(s, 1, n)
    <2>1. \A i \in 1 .. n : s[i] \in Nat
      BY <1>2
    <2>2. /\ u \in Seq(Nat) /\ Len(u) = n
          /\ \A i \in 1 .. n : u[i] = s[i]
      BY <2>1, SubSeqProperties
    <2> HIDE DEF u
    <2>3. /\ first + n - 1 \in Int /\ first + n - 1 >= first - 1
          /\ (first + n - 1) - first + 1 = n
      OBVIOUS
    <2>4. ASSUME NEW i \in 1 .. n PROVE u[i] = first + i - 1
      <3>1. i \in 1 .. m
        OBVIOUS
      <3>. QED  BY <1>1, <2>2, <3>1
    <2>5. u = Bytes(first, first + n - 1)
      BY <2>2, <2>3, <2>4, IsBytes
    <2>. QED  BY <2>5 DEF u
  <1>4. SubSeq(s, n + 1, m) = Bytes(first + n, last)
    <2> DEFINE u == SubSeq(s, n + 1, m)
    <2>1. \A i \in n + 1 .. m : s[i] \in Nat
      BY <1>2
    <2>2. /\ u \in Seq(Nat) /\ Len(u) = m - n
          /\ \A i \in 1 .. m - n : u[i] = s[n + i]
      BY <2>1, SubSeqProperties
    <2> HIDE DEF u
    <2>3. /\ first + n \in Nat /\ last >= (first + n) - 1
          /\ last - (first + n) + 1 = m - n
      OBVIOUS
    <2>4. \A i \in 1 .. m - n : u[i] = (first + n) + i - 1
      BY <1>1, <2>2
    <2>5. u = Bytes(first + n, last)
      BY <2>2, <2>3, <2>4, IsBytes
    <2>. QED  BY <2>5 DEF u
  <1>. QED  BY <1>3, <1>4 DEF s

(* The same of bodies, which are given by where they begin and a length.   *)
LEMMA BodyIsSeq ==
    ASSUME NEW first \in Nat, NEW n \in Nat
    PROVE  Body(first, n) \in Seq(Nat) /\ Len(Body(first, n)) = n
  <1>1. /\ first + n - 1 \in Int /\ first + n - 1 >= first - 1
        /\ (first + n - 1) - first + 1 = n
    OBVIOUS
  <1>. QED  BY <1>1, BytesIsSeq DEF Body

LEMMA EmptyBody ==
    ASSUME NEW first \in Nat
    PROVE  Body(first, 0) = << >>
  <1>1. Body(first, 0) \in Seq(Nat) /\ Len(Body(first, 0)) = 0
    BY BodyIsSeq
  <1>. QED  BY <1>1, EmptySeq

LEMMA JoinBody ==
    ASSUME NEW first \in Nat, NEW m \in Nat, NEW n \in Nat
    PROVE  Body(first, m) \o Body(first + m, n) = Body(first, m + n)
  <1>1. /\ first + m - 1 \in Int /\ first + m + n - 1 \in Int
        /\ first + m - 1 >= first - 1 /\ first + m + n - 1 >= first + m - 1
        /\ (first + m - 1) + 1 = first + m /\ first + (m + n) - 1 = first + m + n - 1
    OBVIOUS
  <1>2. Bytes(first, first + m - 1) \o Bytes((first + m - 1) + 1, first + m + n - 1)
            = Bytes(first, first + m + n - 1)
    BY <1>1, JoinBytes
  <1>. QED  BY <1>1, <1>2 DEF Body

LEMMA CutBody ==
    ASSUME NEW first \in Nat, NEW n \in Nat, NEW k \in 0 .. n
    PROVE  /\ SubSeq(Body(first, n), 1, k) = Body(first, k)
           /\ SubSeq(Body(first, n), k + 1, n) = Body(first + k, n - k)
  <1>1. /\ first + n - 1 \in Int /\ first + n - 1 >= first - 1
        /\ (first + n - 1) - first + 1 = n
        /\ (first + k) + (n - k) - 1 = first + n - 1
    OBVIOUS
  <1> DEFINE last == first + n - 1
  <1>2. last \in Int /\ last >= first - 1 /\ last - first + 1 = n
    BY <1>1
  <1> HIDE DEF last
  <1>3. k \in 0 .. last - first + 1
    BY <1>2
  <1>4. /\ SubSeq(Bytes(first, last), 1, k) = Bytes(first, first + k - 1)
        /\ SubSeq(Bytes(first, last), k + 1, last - first + 1) = Bytes(first + k, last)
    BY <1>2, <1>3, CutBytes
  <1>5. /\ SubSeq(Bytes(first, last), 1, k) = Bytes(first, first + k - 1)
        /\ SubSeq(Bytes(first, last), k + 1, n) = Bytes(first + k, last)
    BY <1>2, <1>4
  <1>. QED  BY <1>1, <1>5 DEF Body, last

(* A capture of the beginning of a body stays one when the bytes that come *)
(* next are ingested, wherever the limit falls (body.rs:27-52).            *)
LEMMA IngestNext ==
    ASSUME NEW capture, NEW first \in Nat, NEW n \in Nat, NEW m \in Nat,
           Capture(capture), PreviewOfBody(capture, first, n)
    PROVE  /\ Capture(Ingest(capture, Body(first + n, m)))
           /\ PreviewOfBody(Ingest(capture, Body(first + n, m)), first, n + m)
  <1> DEFINE kept == Least(n, PreviewLimit)
             room == PreviewLimit - kept
             more == IF m < room THEN m ELSE room
             next == Ingest(capture, Body(first + n, m))
  <1>1. /\ kept \in Nat /\ room \in Nat /\ more \in 0 .. m
        /\ kept + more = Least(n + m, PreviewLimit)
        /\ n <= PreviewLimit => kept = n
        /\ n > PreviewLimit => more = 0
    BY PreviewLimitAssumption DEF Least
  <1> HIDE DEF kept, room, more, next
  <1>2. capture.total_bytes = n /\ capture.captured = Body(first, kept)
    BY DEF PreviewOfBody, Body, kept
  <1>3. /\ Len(Body(first, kept)) = kept
        /\ Body(first + n, m) \in Seq(Nat) /\ Len(Body(first + n, m)) = m
        /\ SubSeq(Body(first + n, m), 1, more) = Body(first + n, more)
    <2>1. first + n \in Nat
      OBVIOUS
    <2>2. Len(Body(first, kept)) = kept
      BY <1>1, BodyIsSeq
    <2>3. Body(first + n, m) \in Seq(Nat) /\ Len(Body(first + n, m)) = m
      BY <2>1, BodyIsSeq
    <2>4. SubSeq(Body(first + n, m), 1, more) = Body(first + n, more)
      BY <1>1, <2>1, CutBody
    <2>. QED  BY <2>2, <2>3, <2>4
  <1>4. /\ next.captured = Body(first, kept) \o Body(first + n, more)
        /\ next.total_bytes = n + m
    <2>1. /\ next.captured = capture.captured \o
                SubSeq(Body(first + n, m), 1,
                    IF Len(Body(first + n, m)) < PreviewLimit - Len(capture.captured)
                    THEN Len(Body(first + n, m)) ELSE PreviewLimit - Len(capture.captured))
          /\ next.total_bytes = capture.total_bytes + Len(Body(first + n, m))
      BY DEF next, Ingest
    <2>2. more = IF Len(Body(first + n, m)) < PreviewLimit - Len(capture.captured)
                 THEN Len(Body(first + n, m)) ELSE PreviewLimit - Len(capture.captured)
      BY <1>2, <1>3 DEF more, room
    <2>. QED  BY <1>2, <1>3, <2>1, <2>2
  <1>5. Body(first, kept) \o Body(first + n, more) = Body(first, kept + more)
    <2>1. CASE n <= PreviewLimit
      <3>1. kept = n /\ more \in Nat
        BY <2>1, <1>1
      <3>2. Body(first, n) \o Body(first + n, more) = Body(first, n + more)
        BY <3>1, JoinBody
      <3>. QED  BY <3>1, <3>2
    <2>2. CASE n > PreviewLimit
      <3>1. more = 0 /\ Body(first + n, more) = << >>
        BY <2>2, <1>1, EmptyBody
      <3>2. Body(first, kept) \in Seq(Nat)
        BY <1>1, BodyIsSeq
      <3>. QED  BY <1>1, <3>1, <3>2, ConcatEmptySeq
    <2>. QED  BY <2>1, <2>2, PreviewLimitAssumption
  <1>6. /\ next.captured = Body(first, Least(n + m, PreviewLimit))
        /\ next.captured \in Seq(Nat)
        /\ Len(next.captured) = Least(n + m, PreviewLimit)
    <2>1. kept + more \in Nat
      BY <1>1
    <2>2. Body(first, kept + more) \in Seq(Nat) /\ Len(Body(first, kept + more)) = kept + more
      BY <2>1, BodyIsSeq
    <2>. QED  BY <1>1, <1>4, <1>5, <2>2
  <1>7. Truncated(next) <=> n + m > PreviewLimit
    BY <1>4, <1>6, PreviewLimitAssumption DEF Truncated, Least
  <1>. QED  BY <1>4, <1>6, <1>7 DEF Capture, PreviewOfBody, Body, next

(* A new capture is one of the empty body.                                 *)
LEMMA NewCaptureIsEmpty ==
    ASSUME NEW first \in Nat
    PROVE  Capture(NewCapture) /\ PreviewOfBody(NewCapture, first, 0)
  <1>1. Least(0, PreviewLimit) = 0
    BY PreviewLimitAssumption DEF Least
  <1>2. Body(first, 0) = << >> /\ Len(<< >>) = 0 /\ << >> \in Seq(Nat)
    BY EmptyBody, EmptySeq
  <1>. QED
    BY <1>1, <1>2, PreviewLimitAssumption DEF Capture, PreviewOfBody, NewCapture, Truncated, Body

-----------------------------------------------------------------------------
(* The invariant is inductive.                                             *)

(* What the parameters say of an exchange.                                 *)
LEMMA ExchangeFacts ==
    ASSUME <<request, response>> \in Exchanges
    PROVE  /\ request.kind \in {"http", "https", "tunnel", "explicit"}
           /\ request.head \in Nat /\ request.length \in Nat /\ request.sends \in Nat
           /\ request.waits \in BOOLEAN
           /\ request.kind = "explicit" => request.head = 0 /\ request.sends = request.length
           /\ request.kind # "explicit" => request.head > 0
           /\ response.sends \in Nat /\ response.head \in Nat /\ response.reads \in Nat
           /\ response.interim \in Nat
           /\ ResponseHead \in Nat /\ ResponseHead > 0
  <1>1. request \in Request /\ response \in Response
    BY HttpExchangeAssumption
  <1>2. /\ IF request.kind = "explicit" THEN request.head = 0 /\ request.sends = request.length
           ELSE request.head > 0
        /\ response.head > 0
    BY HttpExchangeAssumption
  <1>. QED  BY <1>1, <1>2 DEF Request, Response, ResponseHead

(* What find_head_end and the loops around it say of a number of bytes.    *)
LEMMA HeadStates ==
    ASSUME NEW read \in Nat, NEW end \in Nat
    PROVE  /\ HeadState(read, end) = "incomplete" => read < end /\ read < HeadLimit
           /\ HeadState(read, end) = "complete" => read >= end /\ read <= HeadLimit
           /\ HeadState(read, end) = "too_large" =>
                 read >= HeadLimit /\ (read > HeadLimit \/ read < end)
  BY HttpExchangeAssumption DEF HeadState

(* A read from a peer returns some of what it sends.                       *)
LEMMA ClientIsRead ==
    ASSUME TypeOK, NEW read \in Nat, ReadClient(read)
    PROVE  /\ read >= 1 /\ from_client' = from_client + read
           /\ from_client' \in 0 .. request.sends
           /\ request.waits /\ pc \notin {"tunnel", "response_body"} => from_client' <= request.head
           /\ RequestSide /\ up_read' = up_read
  <1>1. /\ request.head \in Nat /\ request.sends \in Nat
        /\ from_client \in 0 .. request.sends
    BY ExchangeFacts DEF TypeOK
  <1>2. /\ FromClientAvailable \in Nat /\ FromClientAvailable <= request.sends
        /\ request.waits /\ pc \notin {"tunnel", "response_body"} =>
              FromClientAvailable <= request.head
    BY <1>1 DEF FromClientAvailable, Least
  <1>3. /\ read >= 1 /\ read <= FromClientAvailable - from_client
        /\ from_client' = from_client + read
        /\ RequestSide /\ up_read' = up_read
    BY DEF ReadClient
  <1>4. from_client' \in Nat /\ from_client' <= FromClientAvailable
    BY <1>1, <1>2, <1>3
  <1>. QED  BY <1>1, <1>2, <1>3, <1>4

LEMMA ServerIsRead ==
    ASSUME TypeOK, NEW read \in Nat, ReadServer(read)
    PROVE  /\ read >= 1 /\ from_upstream' = from_upstream + read
           /\ from_upstream' \in 0 .. response.sends
           /\ ResponseSide
  <1>1. FromServerAvailable \in Int /\ FromServerAvailable <= response.sends
    <2>1. /\ response.sends \in Nat /\ response.interim \in Nat /\ response.head \in Nat
          /\ up_read \in Nat
      <3>1. Len(to_upstream) \in Nat
        BY LenProperties DEF TypeOK
      <3>. QED  BY <3>1, ExchangeFacts DEF TypeOK
    <2>2. \/ FromServerAvailable = response.sends
          \/ FromServerAvailable
                = Least(response.interim + response.head + up_read, response.sends)
          \/ FromServerAvailable = Least(response.interim, response.sends)
      BY DEF FromServerAvailable
    <2>. QED  BY <2>1, <2>2 DEF Least
  <1>2. response.sends \in Nat /\ from_upstream \in 0 .. response.sends
    BY ExchangeFacts DEF TypeOK
  <1>3. /\ read >= 1 /\ read <= FromServerAvailable - from_upstream
        /\ from_upstream' = from_upstream + read
        /\ ResponseSide
    BY DEF ReadServer
  <1>. QED  BY <1>1, <1>2, <1>3

LEMMA ReadsAreNumbers == \A read \in Reads : read \in Nat
  BY HttpExchangeAssumption DEF Reads

LEMMA InitInv == Init => IInv
  <1> SUFFICES ASSUME Init
               PROVE  IInv
    OBVIOUS
  <1> USE DEF Init
  <1>1. <<request, response>> \in Exchanges
    <2>1. PICK e \in Exchanges : request = e[1] /\ response = e[2]
      OBVIOUS
    <2>2. e \in Request \X Response
      BY HttpExchangeAssumption
    <2>3. e = <<e[1], e[2]>>
      BY <2>2
    <2>. QED  BY <2>1, <2>3
  <1>2. /\ << >> \in Seq(Nat) /\ Len(<< >>) = 0
        /\ \A first \in Nat : Body(first, 0) = << >>
    BY EmptyBody, EmptySeq
  <1>3. Capture(NewCapture)
        /\ \A first \in Nat : PreviewOfBody(NewCapture, first, 0)
    BY NewCaptureIsEmpty
  <1>4. CASE request.kind = "explicit"
    <2>1. /\ pc = "request_write" /\ request.head = 0
          /\ pending = Body(1, request.length)
          /\ request_capture = Ingest(NewCapture, pending)
      BY <1>1, <1>4, ExchangeFacts DEF Body
    <2>2. pending \in Seq(Nat) /\ Len(pending) = request.length
      BY <1>1, <2>1, BodyIsSeq, ExchangeFacts
    <2>3. /\ Capture(request_capture)
          /\ PreviewOfBody(request_capture, 1, request.length)
      <3>1. 1 + 0 = 1 /\ 0 + request.length = request.length
        BY <1>1, ExchangeFacts
      <3>. QED  BY <1>1, <1>3, <2>1, <3>1, IngestNext, ExchangeFacts
    <2>4. TypeOK
      BY <1>1, <1>2, <1>3, <2>1, <2>2, <2>3, ExchangeFacts DEF TypeOK, Points, Ended
    <2>5. PreviewsMatchBodies
      <3>1. Len(to_upstream) + Len(pending) = request.length
        BY <1>1, <1>2, <2>2, ExchangeFacts
      <3>2. ResponseHead + 1 \in Nat /\ request.head + 1 = 1
        BY <1>1, <2>1, ExchangeFacts
      <3>. QED  BY <1>2, <1>3, <2>3, <3>1, <3>2 DEF PreviewsMatchBodies
    <2>6. HeadLimitHolds
      BY <1>4, <2>1 DEF HeadLimitHolds, HeadAccepted
    <2>7. UpstreamInOrder
      BY <1>1, <1>2, <2>1, <2>2, ExchangeFacts DEF UpstreamInOrder
    <2>8. TakenIsWhatWasRead
      BY <1>1, <1>2, <1>4, <2>1, <2>2, ExchangeFacts
      DEF TakenIsWhatWasRead, Taken, InBody, InResponse, Relayed
    <2>9. DeliveredIsWhatWasRead /\ TunnelPassesOn
      BY <2>1 DEF DeliveredIsWhatWasRead, TunnelPassesOn, InBody
    <2>. QED  BY <2>4, <2>5, <2>6, <2>7, <2>8, <2>9 DEF IInv
  <1>5. CASE request.kind # "explicit"
    <2>1. pc = "request_head" /\ pending = << >> /\ request_capture = NewCapture
      BY <1>5
    <2>2. TypeOK
      BY <1>1, <1>2, <1>3, <2>1, ExchangeFacts DEF TypeOK, Points, Ended
    <2>3. PreviewsMatchBodies
      <3>1. ResponseHead + 1 \in Nat /\ request.head + 1 \in Nat /\ 0 + 0 = 0
        BY <1>1, ExchangeFacts
      <3>. QED  BY <1>2, <1>3, <2>1, <3>1 DEF PreviewsMatchBodies
    <2>4. HeadLimitHolds
      BY <2>1 DEF HeadLimitHolds, HeadAccepted
    <2>5. UpstreamInOrder
      <3>1. request.head + 1 \in Nat /\ request.head + 1 + 0 \in Nat
        BY <1>1, ExchangeFacts
      <3>. QED  BY <1>2, <2>1, <3>1 DEF UpstreamInOrder
    <2>6. TakenIsWhatWasRead
      BY <1>1, <1>2, <1>5, <2>1, ExchangeFacts
      DEF TakenIsWhatWasRead, Taken, InBody, InResponse
    <2>7. DeliveredIsWhatWasRead /\ TunnelPassesOn
      BY <2>1 DEF DeliveredIsWhatWasRead, TunnelPassesOn, InBody
    <2>. QED  BY <2>2, <2>3, <2>4, <2>5, <2>6, <2>7 DEF IInv
  <1>. QED  BY <1>4, <1>5

(* A step that leaves the peers' plans alone leaves what follows from them *)
(* alone.                                                                  *)
LEMMA SamePlans ==
    ASSUME UNCHANGED <<request, response>>
    PROVE  ResponseHead' = ResponseHead /\ Relayed' = Relayed
  BY DEF ResponseHead, Relayed

(* Where nothing but the place is changed, and the server has read more or *)
(* not, the bytes and their captures stay as they are.                     *)
LEMMA BytesStay ==
    ASSUME IInv, UNCHANGED <<request, response, from_client, pending, to_upstream, from_upstream,
                             delivered, request_capture, response_capture>>
    PROVE  PreviewsMatchBodies' /\ UpstreamInOrder' /\ Taken' = Taken
  BY SamePlans DEF IInv, PreviewsMatchBodies, UpstreamInOrder, Taken

(* The request head: what is taken after it begins with it.                *)
LEMMA ReadPartOfHeadKeeps ==
    ASSUME IInv, NEW read \in Nat, ReadPartOfHead(read)
    PROVE  IInv'
  <1>1. /\ pc = "request_head" /\ ReadClient(read)
        /\ HeadState(from_client', request.head) = "incomplete"
        /\ UNCHANGED <<pc, pending, to_upstream, request_capture>>
    BY DEF ReadPartOfHead, ReadRequestHead
  <1>2. TypeOK /\ <<request, response>> \in Exchanges
    BY DEF IInv, TypeOK
  <1>3. /\ from_client' \in 0 .. request.sends
        /\ RequestSide /\ up_read' = up_read
    BY <1>1, <1>2, ClientIsRead
  <1>4. from_client' < request.head
    BY <1>1, <1>2, <1>3, HeadStates, ExchangeFacts
  <1>5. TypeOK'
    BY <1>1, <1>2, <1>3 DEF TypeOK, RequestSide
  <1>6. PreviewsMatchBodies' /\ UpstreamInOrder' /\ Taken' = Taken
    BY <1>1, <1>3, SamePlans
    DEF IInv, RequestSide, PreviewsMatchBodies, UpstreamInOrder, Taken
  <1>7. HeadLimitHolds'
    BY <1>1 DEF HeadLimitHolds, HeadAccepted
  <1>8. TakenIsWhatWasRead'
    BY <1>1, <1>3, <1>4, <1>6 DEF IInv, TakenIsWhatWasRead, RequestSide, InBody, InResponse
  <1>9. DeliveredIsWhatWasRead' /\ TunnelPassesOn'
    BY <1>1, <1>3 DEF IInv, DeliveredIsWhatWasRead, TunnelPassesOn, RequestSide, InBody
  <1>. QED  BY <1>5, <1>6, <1>7, <1>8, <1>9 DEF IInv

LEMMA RefuseHeadKeeps ==
    ASSUME IInv, NEW read \in Nat, RefuseHead(read)
    PROVE  IInv'
  <1>1. /\ pc = "request_head" /\ pc' = "too_large" /\ ReadClient(read) /\ read <= HeadChunk
        /\ HeadState(from_client', request.head) = "too_large"
        /\ UNCHANGED <<pending, to_upstream, request_capture>>
    BY DEF RefuseHead, ReadRequestHead, Goto
  <1>2. TypeOK /\ <<request, response>> \in Exchanges
    BY DEF IInv, TypeOK
  <1>3. /\ from_client' \in 0 .. request.sends /\ from_client' = from_client + read
        /\ request.waits => from_client' <= request.head
        /\ RequestSide /\ up_read' = up_read
    BY <1>1, <1>2, ClientIsRead
  <1>4. from_client < request.head /\ from_client \in Nat
    BY <1>1, <1>2 DEF IInv, TakenIsWhatWasRead, TypeOK
  <1>5. from_client' >= HeadLimit /\ (from_client' > HeadLimit \/ from_client' < request.head)
    BY <1>1, <1>2, <1>3, HeadStates, ExchangeFacts
  <1>6. TypeOK'
    BY <1>1, <1>2, <1>3 DEF TypeOK, RequestSide, Points, Ended
  <1>7. PreviewsMatchBodies' /\ UpstreamInOrder'
    BY <1>1, <1>3, SamePlans
    DEF IInv, RequestSide, PreviewsMatchBodies, UpstreamInOrder, Taken
  <1>8. HeadLimitHolds'
    <2>1. ASSUME request.head <= HeadLimit
          PROVE  request.head + HeadChunk > HeadLimit + 1 /\ ~request.waits
      BY <2>1, <1>1, <1>2, <1>3, <1>4, <1>5, ExchangeFacts, HttpExchangeAssumption
    <2>. QED  BY <2>1, <1>1, <1>3 DEF HeadLimitHolds, HeadAccepted, RequestSide
  <1>9. TakenIsWhatWasRead' /\ DeliveredIsWhatWasRead' /\ TunnelPassesOn'
    BY <1>1, <1>3
    DEF IInv, TakenIsWhatWasRead, DeliveredIsWhatWasRead, TunnelPassesOn, RequestSide, InBody,
        InResponse
  <1>. QED  BY <1>6, <1>7, <1>8, <1>9 DEF IInv

(* The body bytes that came with the head are the first ones, and no more  *)
(* than were announced.                                                    *)
LEMMA ForwardBufferedKeeps ==
    ASSUME IInv, NEW read \in Nat, ForwardBuffered(read)
    PROVE  IInv'
  <1> DEFINE n == Least(from_client', request.head + request.length) - request.head
  <1>1. /\ pc = "request_head" /\ pc' = "request_write" /\ ReadClient(read) /\ Relayed
        /\ HeadState(from_client', request.head) = "complete"
        /\ pending' = Bytes(request.head + 1, Least(from_client', request.head + request.length))
        /\ request_capture' = Ingest(request_capture, pending')
        /\ UNCHANGED to_upstream
    BY DEF ForwardBuffered, ReadRequestHead, Goto, Relayed
  <1>2. TypeOK /\ <<request, response>> \in Exchanges
    BY DEF IInv, TypeOK
  <1>3. /\ from_client' \in 0 .. request.sends
        /\ RequestSide /\ up_read' = up_read
    BY <1>1, <1>2, ClientIsRead
  <1>4. /\ request.head \in Nat /\ request.length \in Nat
        /\ request.head + 1 \in Nat
    BY <1>2, ExchangeFacts
  <1>5. from_client' >= request.head /\ request.head <= HeadLimit
    BY <1>1, <1>3, <1>4, HeadStates, HttpExchangeAssumption
  <1>6. n \in Nat /\ request.head + 1 + n - 1 = Least(from_client', request.head + request.length)
    BY <1>3, <1>4, <1>5 DEF Least
  <1> HIDE DEF n
  <1>7. pending' = Body(request.head + 1, n)
    BY <1>1, <1>6 DEF Body
  <1>8. pending' \in Seq(Nat) /\ Len(pending') = n
    BY <1>4, <1>6, <1>7, BodyIsSeq
  <1>9. /\ request.kind # "explicit" /\ to_upstream = << >> /\ Len(to_upstream) = 0
        /\ Len(pending) = 0
    <2>1. Len(to_upstream) \in Nat /\ Len(pending) \in Nat
      BY <1>2, LenProperties DEF TypeOK
    <2>2. request.kind # "explicit" /\ Len(to_upstream) + Len(pending) = 0
      BY <1>1 DEF IInv, TakenIsWhatWasRead, Taken
    <2>3. Len(to_upstream) = 0 /\ Len(pending) = 0
      BY <2>1, <2>2
    <2>. QED  BY <2>2, <2>3, <1>2, EmptySeq DEF TypeOK
  <1>10. /\ Capture(request_capture')
         /\ PreviewOfBody(request_capture', request.head + 1, n)
    <2>1. Capture(request_capture) /\ PreviewOfBody(request_capture, request.head + 1, 0)
      <3>1. PreviewOfBody(request_capture, request.head + 1, Len(to_upstream) + Len(pending))
        BY <1>1 DEF IInv, PreviewsMatchBodies
      <3>. QED  BY <3>1, <1>2, <1>9 DEF TypeOK
    <2>2. request.head + 1 + 0 = request.head + 1 /\ 0 + n = n
      BY <1>4, <1>6
    <2>3. /\ Capture(Ingest(request_capture, Body(request.head + 1 + 0, n)))
          /\ PreviewOfBody(Ingest(request_capture, Body(request.head + 1 + 0, n)),
                           request.head + 1, 0 + n)
      BY <1>4, <1>6, <2>1, IngestNext
    <2>. QED  BY <1>1, <1>7, <2>2, <2>3
  <1>11. TypeOK'
    BY <1>1, <1>2, <1>3, <1>8, <1>10 DEF TypeOK, RequestSide, Points
  <1>12. PreviewsMatchBodies'
    BY <1>1, <1>3, <1>4, <1>6, <1>8, <1>9, <1>10, SamePlans
    DEF IInv, RequestSide, PreviewsMatchBodies
  <1>13. HeadLimitHolds'
    BY <1>1, <1>3, <1>5 DEF HeadLimitHolds, HeadAccepted, RequestSide
  <1>14. UpstreamInOrder'
    <2>1. to_upstream' = Body(request.head + 1, 0) /\ request.head + 1 + 0 = request.head + 1
      BY <1>1, <1>4, <1>9, EmptyBody
    <2>. QED  BY <1>1, <1>3, <1>7, <1>8, <1>9, <2>1 DEF UpstreamInOrder, RequestSide
  <1>15. TakenIsWhatWasRead'
    <2>1. Taken' = n
      BY <1>1, <1>6, <1>8, <1>9 DEF Taken
    <2>. QED
      BY <1>1, <1>3, <1>5, <1>9, <2>1, SamePlans
      DEF TakenIsWhatWasRead, RequestSide, InBody, InResponse, n
  <1>16. DeliveredIsWhatWasRead' /\ TunnelPassesOn'
    BY <1>1, <1>3 DEF IInv, DeliveredIsWhatWasRead, TunnelPassesOn, RequestSide, InBody
  <1>. QED  BY <1>11, <1>12, <1>13, <1>14, <1>15, <1>16 DEF IInv

(* A client that waits has sent nothing past its CONNECT.                  *)
LEMMA OpenTunnelKeeps ==
    ASSUME IInv, NEW read \in Nat, OpenTunnel(read)
    PROVE  IInv'
  <1>1. /\ pc = "request_head" /\ pc' = "tunnel" /\ ReadClient(read) /\ ~Relayed
        /\ HeadState(from_client', request.head) = "complete"
        /\ UNCHANGED <<pending, to_upstream, request_capture>>
    BY DEF OpenTunnel, ReadRequestHead, Goto, Relayed
  <1>2. TypeOK /\ <<request, response>> \in Exchanges
    BY DEF IInv, TypeOK
  <1>3. /\ from_client' \in 0 .. request.sends
        /\ request.waits => from_client' <= request.head
        /\ RequestSide /\ up_read' = up_read
    BY <1>1, <1>2, ClientIsRead
  <1>4. from_client' >= request.head /\ request.head <= HeadLimit /\ request.head \in Nat
    BY <1>1, <1>2, <1>3, HeadStates, ExchangeFacts, HttpExchangeAssumption
  <1>5. pending = << >> /\ to_upstream = << >> /\ delivered = << >> /\ from_upstream = 0
    <2>1. Len(to_upstream) \in Nat /\ Len(pending) \in Nat
      BY <1>2, LenProperties DEF TypeOK
    <2>2. Len(to_upstream) + Len(pending) = 0
      BY <1>1 DEF IInv, TakenIsWhatWasRead, Taken
    <2>3. Len(to_upstream) = 0 /\ Len(pending) = 0
      BY <2>1, <2>2
    <2>4. delivered = << >> /\ from_upstream = 0
      BY <1>1 DEF IInv, DeliveredIsWhatWasRead
    <2>. QED  BY <2>3, <2>4, <1>2, EmptySeq DEF TypeOK
  <1>6. TypeOK'
    BY <1>1, <1>2, <1>3, <1>5 DEF TypeOK, RequestSide, Points
  <1>7. PreviewsMatchBodies' /\ UpstreamInOrder'
    BY <1>1, <1>3, SamePlans DEF RequestSide, PreviewsMatchBodies, UpstreamInOrder
  <1>8. HeadLimitHolds'
    BY <1>1, <1>3, <1>4 DEF HeadLimitHolds, HeadAccepted, RequestSide
  <1>9. TakenIsWhatWasRead' /\ DeliveredIsWhatWasRead'
    BY <1>1 DEF TakenIsWhatWasRead, DeliveredIsWhatWasRead, InBody, InResponse
  <1>10. TunnelPassesOn'
    <2>1. ASSUME request.waits
          PROVE  to_upstream = Bytes(request.head + 1, from_client')
      <3>1. from_client' = request.head
        BY <2>1, <1>3, <1>4
      <3>2. Body(request.head + 1, 0) = << >> /\ request.head + 1 + 0 - 1 = request.head
        BY <1>4, EmptyBody
      <3>. QED  BY <3>1, <3>2, <1>5 DEF Body
    <2>2. delivered = Bytes(1, from_upstream)
      <3>1. Body(1, 0) = << >> /\ 1 + 0 - 1 = 0
        BY EmptyBody
      <3>. QED  BY <3>1, <1>5 DEF Body
    <2>. QED  BY <1>1, <1>3, <1>4, <2>1, <2>2, SamePlans DEF TunnelPassesOn, RequestSide
  <1>. QED  BY <1>6, <1>7, <1>8, <1>9, <1>10 DEF IInv

(* What is written upstream is the piece that follows what was.            *)
LEMMA WriteRequestKeeps ==
    ASSUME IInv, NEW written \in Nat, WriteRequest(written)
    PROVE  /\ IInv'
           /\ to_upstream' = Body(request.head + 1, Len(to_upstream'))
           /\ Len(to_upstream') = Len(to_upstream) + written
           /\ Taken' = Taken
  <1> DEFINE u == Len(to_upstream)
             p == Len(pending)
             h == request.head + 1
  <1>1. /\ pc = "request_write" /\ pc' = "request_write"
        /\ written >= 1 /\ written <= Least(p, Window - (u - up_read))
        /\ to_upstream' = to_upstream \o SubSeq(pending, 1, written)
        /\ pending' = SubSeq(pending, written + 1, p)
        /\ RequestSide /\ UNCHANGED <<from_client, up_read, request_capture>>
    BY DEF WriteRequest
  <1>2. TypeOK /\ <<request, response>> \in Exchanges
    BY DEF IInv, TypeOK
  <1>3. /\ Relayed /\ u \in Nat /\ p \in Nat /\ up_read \in 0 .. u /\ h \in Nat
        /\ to_upstream = Body(h, u) /\ pending = Body(h + u, p)
    <2>1. Relayed
      BY <1>1 DEF IInv, TakenIsWhatWasRead, InBody
    <2>2. u \in Nat /\ p \in Nat /\ up_read \in 0 .. u
      BY <1>2, LenProperties DEF TypeOK
    <2>3. h \in Nat
      BY <1>2, ExchangeFacts
    <2>4. to_upstream = Body(h, u) /\ pending = Body(h + u, p)
      BY <2>1 DEF IInv, UpstreamInOrder
    <2>. QED  BY <2>1, <2>2, <2>3, <2>4
  <1>4. written \in 0 .. p
    BY <1>1, <1>3, HttpExchangeAssumption DEF Least
  <1> HIDE DEF u, p, h
  <1>5. /\ SubSeq(pending, 1, written) = Body(h + u, written)
        /\ pending' = Body(h + u + written, p - written)
    <2>1. h + u \in Nat
      BY <1>3
    <2>. QED  BY <1>1, <1>3, <1>4, <2>1, CutBody
  <1>6. to_upstream' = Body(h, u + written)
    <2>1. written \in Nat
      BY <1>3, <1>4
    <2>2. Body(h, u) \o Body(h + u, written) = Body(h, u + written)
      BY <1>3, <2>1, JoinBody
    <2>. QED  BY <1>1, <1>3, <1>5, <2>2
  <1>7. /\ to_upstream' \in Seq(Nat) /\ Len(to_upstream') = u + written
        /\ pending' \in Seq(Nat) /\ Len(pending') = p - written
    <2>1. /\ u + written \in Nat /\ p - written \in Nat /\ h + u + written \in Nat
      BY <1>3, <1>4
    <2>. QED  BY <1>3, <1>5, <1>6, <2>1, BodyIsSeq
  <1>8. Taken' = Taken
    BY <1>3, <1>4, <1>7 DEF Taken, u, p
  <1>9. TypeOK'
    <2>1. up_read' \in 0 .. Len(to_upstream')
      BY <1>1, <1>3, <1>4, <1>7
    <2>. QED  BY <1>1, <1>2, <1>7, <2>1 DEF TypeOK, RequestSide
  <1>10. PreviewsMatchBodies'
    BY <1>1, <1>8, SamePlans DEF IInv, RequestSide, PreviewsMatchBodies, Taken
  <1>11. HeadLimitHolds'
    BY <1>1, SamePlans DEF IInv, HeadLimitHolds, HeadAccepted, RequestSide
  <1>12. UpstreamInOrder'
    <2>1. h + (u + written) = h + u + written
      BY <1>3, <1>4
    <2>. QED  BY <1>1, <1>5, <1>6, <1>7, <2>1, SamePlans DEF UpstreamInOrder, RequestSide, h
  <1>13. TakenIsWhatWasRead'
    BY <1>1, <1>8, SamePlans DEF IInv, TakenIsWhatWasRead, RequestSide, InBody, InResponse
  <1>14. DeliveredIsWhatWasRead' /\ TunnelPassesOn'
    BY <1>1 DEF IInv, DeliveredIsWhatWasRead, TunnelPassesOn, RequestSide, InBody
  <1>. QED
    BY <1>6, <1>7, <1>8, <1>9, <1>10, <1>11, <1>12, <1>13, <1>14 DEF IInv, h, u

(* What is read of the body follows what was taken.                        *)
LEMMA ReadRequestBodyKeeps ==
    ASSUME IInv, NEW read \in Nat, ReadRequestBody(read)
    PROVE  IInv'
  <1> DEFINE u == Len(to_upstream)
             h == request.head + 1
             total == request.head + request.length
  <1>1. /\ pc = "request_body" /\ pc' = "request_write" /\ ReadClient(read)
        /\ read <= Least(BodyChunk, Remaining)
        /\ pending' = Bytes(from_client + 1, from_client')
        /\ request_capture' = Ingest(request_capture, pending')
        /\ UNCHANGED to_upstream
    BY DEF ReadRequestBody, Goto
  <1>2. TypeOK /\ <<request, response>> \in Exchanges
    BY DEF IInv, TypeOK
  <1>3. /\ read >= 1 /\ from_client' = from_client + read
        /\ from_client' \in 0 .. request.sends
        /\ RequestSide /\ up_read' = up_read
    BY <1>1, <1>2, ClientIsRead
  <1>4. /\ u \in Nat /\ h \in Nat /\ from_client \in Nat /\ pending = << >> /\ Len(pending) = 0
        /\ total \in Nat /\ request.head \in Nat /\ request.length \in Nat
    <2>1. u \in Nat /\ from_client \in Nat /\ pending = << >>
      BY <1>1, <1>2, LenProperties, ExchangeFacts DEF TypeOK, Ended
    <2>2. Len(pending) = 0
      BY <2>1, EmptySeq
    <2>3. request.head \in Nat /\ request.length \in Nat
      BY <1>2, ExchangeFacts
    <2>4. h \in Nat /\ total \in Nat
      BY <2>3
    <2>. QED  BY <2>1, <2>2, <2>3, <2>4
  <1>5. Relayed /\ request.kind # "explicit" /\ from_client' <= total
    <2>1. read <= Remaining
      <3>1. Remaining \in Int
        BY <1>4 DEF Remaining, Least
      <3>. QED  BY <1>1, <3>1, HttpExchangeAssumption DEF Least
    <2>2. request.kind # "explicit"
      BY <1>3, <2>1 DEF Remaining
    <2>3. Relayed
      BY <1>1 DEF IInv, TakenIsWhatWasRead, InBody
    <2>4. read <= total - Least(from_client, total)
      <3>1. Remaining = total - Least(from_client, total)
        BY <1>4, <2>2 DEF Remaining, Least
      <3>. QED  BY <2>1, <3>1
    <2>5. from_client' <= total
      BY <1>3, <1>4, <2>4 DEF Least
    <2>. QED  BY <2>2, <2>3, <2>5
  <1>6. u = from_client - request.head /\ from_client >= request.head
    <2>1. /\ from_client >= request.head
          /\ u + Len(pending) = Least(from_client, total) - request.head
      BY <1>1, <1>5 DEF IInv, TakenIsWhatWasRead, Taken, InBody
    <2>2. from_client <= total
      BY <1>3, <1>4, <1>5
    <2>. QED  BY <1>4, <2>1, <2>2 DEF Least
  <1> HIDE DEF u, h, total
  <1>7. pending' = Body(h + u, read)
    <2>1. h + u = from_client + 1 /\ h + u + read - 1 = from_client'
      <3>1. PICK last : last = from_client'
        OBVIOUS
      <3>2. last = from_client + read
        BY <1>3, <3>1
      <3>3. h + u = from_client + 1
        BY <1>4, <1>6 DEF h
      <3>4. h + u + read - 1 = last
        BY <1>4, <3>2, <3>3
      <3>. QED  BY <3>1, <3>3, <3>4
    <2>. QED  BY <1>1, <2>1 DEF Body
  <1>8. pending' \in Seq(Nat) /\ Len(pending') = read
    <2>1. h + u \in Nat /\ read \in Nat
      BY <1>4
    <2>. QED  BY <1>7, <2>1, BodyIsSeq
  <1>9. /\ Capture(request_capture') /\ PreviewOfBody(request_capture', h, u + read)
    <2>1. PreviewOfBody(request_capture, h, u)
      <3>1. PreviewOfBody(request_capture, request.head + 1, Len(to_upstream) + Len(pending))
        BY <1>5 DEF IInv, PreviewsMatchBodies
      <3>2. Len(to_upstream) + Len(pending) = u
        BY <1>4 DEF u
      <3>. QED  BY <3>1, <3>2 DEF h
    <2>2. Capture(request_capture)
      BY <1>2 DEF TypeOK
    <2>. QED  BY <1>1, <1>4, <1>7, <2>1, <2>2, IngestNext
  <1>10. TypeOK'
    BY <1>1, <1>2, <1>3, <1>8, <1>9 DEF TypeOK, RequestSide, Points
  <1>11. PreviewsMatchBodies'
    BY <1>1, <1>3, <1>8, <1>9, SamePlans DEF IInv, RequestSide, PreviewsMatchBodies, u, h
  <1>12. HeadLimitHolds'
    BY <1>1, <1>3, SamePlans DEF IInv, HeadLimitHolds, HeadAccepted, RequestSide
  <1>13. UpstreamInOrder'
    BY <1>1, <1>3, <1>5, <1>7, <1>8, SamePlans DEF IInv, UpstreamInOrder, RequestSide, u, h
  <1>14. TakenIsWhatWasRead'
    <2>1. Taken' = from_client' - request.head
      BY <1>1, <1>3, <1>4, <1>6, <1>8 DEF Taken, u
    <2>2. Least(from_client', total) = from_client' /\ from_client' >= request.head
      BY <1>3, <1>4, <1>5, <1>6 DEF Least
    <2>. QED
      BY <1>1, <1>3, <1>5, <2>1, <2>2, SamePlans
      DEF TakenIsWhatWasRead, RequestSide, InBody, InResponse, total
  <1>15. DeliveredIsWhatWasRead' /\ TunnelPassesOn'
    BY <1>1, <1>3 DEF IInv, DeliveredIsWhatWasRead, TunnelPassesOn, RequestSide, InBody
  <1>. QED  BY <1>10, <1>11, <1>12, <1>13, <1>14, <1>15 DEF IInv

(* The response head: nothing is delivered before it is complete.          *)
LEMMA ReadPartOfResponseHeadKeeps ==
    ASSUME IInv, NEW read \in Nat, ReadPartOfResponseHead(read)
    PROVE  IInv'
  <1>1. /\ pc = "response_head" /\ ReadServer(read)
        /\ HeadState(from_upstream', ResponseHead) = "incomplete"
        /\ UNCHANGED <<pc, delivered, response_capture>>
    BY DEF ReadPartOfResponseHead, ReadResponseHead
  <1>2. TypeOK /\ <<request, response>> \in Exchanges
    BY DEF IInv, TypeOK
  <1>3. from_upstream' \in 0 .. response.sends /\ ResponseSide
    BY <1>1, <1>2, ServerIsRead
  <1>4. from_upstream' < ResponseHead
    <2>1. from_upstream' \in Nat /\ ResponseHead \in Nat
      BY <1>2, <1>3, ExchangeFacts
    <2>. QED  BY <1>1, <2>1, HeadStates
  <1>5. TypeOK'
    BY <1>1, <1>2, <1>3 DEF TypeOK, ResponseSide
  <1>6. PreviewsMatchBodies' /\ UpstreamInOrder' /\ Taken' = Taken
    BY <1>1, <1>3, SamePlans
    DEF IInv, ResponseSide, PreviewsMatchBodies, UpstreamInOrder, Taken
  <1>7. HeadLimitHolds'
    BY <1>1, <1>3, SamePlans DEF IInv, HeadLimitHolds, HeadAccepted, ResponseSide
  <1>8. TakenIsWhatWasRead'
    BY <1>1, <1>3, <1>6, SamePlans
    DEF IInv, TakenIsWhatWasRead, ResponseSide, InBody, InResponse
  <1>9. DeliveredIsWhatWasRead' /\ TunnelPassesOn'
    BY <1>1, <1>3, <1>4, SamePlans
    DEF IInv, DeliveredIsWhatWasRead, TunnelPassesOn, ResponseSide, InBody
  <1>. QED  BY <1>5, <1>6, <1>7, <1>8, <1>9 DEF IInv

LEMMA RefuseResponseHeadKeeps ==
    ASSUME IInv, NEW read \in Nat, RefuseResponseHead(read)
    PROVE  IInv'
  <1>1. /\ pc = "response_head" /\ pc' = "response_too_large"
        /\ ReadServer(read) /\ read <= HeadChunk
        /\ HeadState(from_upstream', ResponseHead) = "too_large"
        /\ UNCHANGED <<delivered, response_capture>>
    BY DEF RefuseResponseHead, ReadResponseHead, Goto
  <1>2. TypeOK /\ <<request, response>> \in Exchanges
    BY DEF IInv, TypeOK
  <1>3. /\ from_upstream' \in 0 .. response.sends /\ from_upstream' = from_upstream + read
        /\ ResponseSide
    BY <1>1, <1>2, ServerIsRead
  <1>4. from_upstream < ResponseHead /\ from_upstream \in Nat /\ ResponseHead \in Nat
    BY <1>1, <1>2, ExchangeFacts DEF IInv, DeliveredIsWhatWasRead, TypeOK
  <1>5. from_upstream' >= HeadLimit /\ (from_upstream' > HeadLimit \/ from_upstream' < ResponseHead)
    BY <1>1, <1>3, <1>4, HeadStates
  <1>6. TypeOK'
    BY <1>1, <1>2, <1>3 DEF TypeOK, ResponseSide, Points, Ended
  <1>7. PreviewsMatchBodies' /\ UpstreamInOrder' /\ Taken' = Taken
    BY <1>1, <1>3, SamePlans
    DEF IInv, ResponseSide, PreviewsMatchBodies, UpstreamInOrder, Taken
  <1>8. HeadLimitHolds'
    <2>1. ResponseHead + HeadChunk > HeadLimit + 1
      BY <1>1, <1>3, <1>4, <1>5, HttpExchangeAssumption
    <2>. QED
      BY <1>1, <1>3, <2>1, SamePlans DEF IInv, HeadLimitHolds, HeadAccepted, ResponseSide
  <1>9. TakenIsWhatWasRead' /\ DeliveredIsWhatWasRead' /\ TunnelPassesOn'
    BY <1>1, <1>3
    DEF IInv, TakenIsWhatWasRead, DeliveredIsWhatWasRead, TunnelPassesOn, ResponseSide, InBody,
        InResponse
  <1>. QED  BY <1>6, <1>7, <1>8, <1>9 DEF IInv

(* What was read past a head, and the place where it ends.                 *)
LEMMA BodyAfterHead ==
    ASSUME NEW read \in Nat, NEW head \in Nat, read >= head
    PROVE  read - head \in Nat /\ head + 1 + (read - head) - 1 = read
  OBVIOUS

(* What came with the response head is the beginning of its body.          *)
LEMMA DeliverBufferedKeeps ==
    ASSUME IInv, NEW read \in Nat, DeliverBuffered(read)
    PROVE  IInv'
  <1>1. /\ pc = "response_head" /\ pc' = "response_body" /\ ReadServer(read)
        /\ HeadState(from_upstream', ResponseHead) = "complete"
        /\ delivered' = Bytes(ResponseHead + 1, from_upstream')
        /\ response_capture' = Ingest(response_capture, delivered')
    BY DEF DeliverBuffered, ReadResponseHead, Goto
  <1>2. TypeOK /\ <<request, response>> \in Exchanges
    BY DEF IInv, TypeOK
  <1>3. from_upstream' \in 0 .. response.sends /\ ResponseSide
    BY <1>1, <1>2, ServerIsRead
  <1> DEFINE n == from_upstream' - ResponseHead
             first == ResponseHead + 1
  <1>4. from_upstream' \in Nat /\ ResponseHead \in Nat /\ first \in Nat
    BY <1>2, <1>3, ExchangeFacts
  <1>5. from_upstream' >= ResponseHead /\ ResponseHead <= HeadLimit
    BY <1>1, <1>4, HeadStates, HttpExchangeAssumption
  <1>6. n \in Nat /\ first + n - 1 = from_upstream'
    BY <1>4, <1>5, BodyAfterHead
  <1>7. Relayed /\ delivered = << >> /\ Len(delivered) = 0
    BY <1>1, EmptySeq DEF IInv, TakenIsWhatWasRead, DeliveredIsWhatWasRead, InResponse
  <1> HIDE DEF n, first
  <1>8. delivered' = Body(first, n)
    BY <1>1, <1>6 DEF Body, first
  <1>9. delivered' \in Seq(Nat) /\ Len(delivered') = n
    BY <1>4, <1>6, <1>8, BodyIsSeq
  <1>10. Capture(response_capture') /\ PreviewOfBody(response_capture', first, n)
    <2>1. Capture(response_capture) /\ PreviewOfBody(response_capture, first, 0)
      BY <1>2, <1>7 DEF IInv, TypeOK, PreviewsMatchBodies, first
    <2>2. first + 0 = first /\ 0 + n = n
      BY <1>4, <1>6
    <2>3. /\ Capture(Ingest(response_capture, Body(first + 0, n)))
          /\ PreviewOfBody(Ingest(response_capture, Body(first + 0, n)), first, 0 + n)
      BY <1>4, <1>6, <2>1, IngestNext
    <2>. QED  BY <1>1, <1>8, <2>2, <2>3
  <1>11. TypeOK'
    BY <1>1, <1>2, <1>3, <1>9, <1>10 DEF TypeOK, ResponseSide, Points, Ended
  <1>12. PreviewsMatchBodies'
    BY <1>3, <1>9, <1>10, SamePlans DEF IInv, ResponseSide, PreviewsMatchBodies, first
  <1>13. HeadLimitHolds'
    BY <1>1, <1>3, <1>5, SamePlans DEF IInv, HeadLimitHolds, HeadAccepted, ResponseSide
  <1>14. UpstreamInOrder'
    BY <1>3, SamePlans DEF IInv, UpstreamInOrder, ResponseSide
  <1>15. TakenIsWhatWasRead'
    BY <1>1, <1>3, SamePlans
    DEF IInv, TakenIsWhatWasRead, ResponseSide, InBody, InResponse
  <1>16. DeliveredIsWhatWasRead' /\ TunnelPassesOn'
    BY <1>1, <1>3, <1>5, <1>8, SamePlans
    DEF IInv, DeliveredIsWhatWasRead, TunnelPassesOn, ResponseSide, InBody, n, first
  <1>. QED  BY <1>11, <1>12, <1>13, <1>14, <1>15, <1>16 DEF IInv

(* What is read of the response body follows what was delivered.           *)
LEMMA ReadResponseBodyKeeps ==
    ASSUME IInv, NEW read \in Nat, ReadResponseBody(read)
    PROVE  IInv'
  <1> DEFINE n == from_upstream - ResponseHead
             first == ResponseHead + 1
             bytes == Bytes(from_upstream + 1, from_upstream')
  <1>1. /\ pc = "response_body" /\ pc' = "response_body" /\ ReadServer(read)
        /\ delivered' = delivered \o bytes
        /\ response_capture' = Ingest(response_capture, bytes)
    BY DEF ReadResponseBody
  <1>2. TypeOK /\ <<request, response>> \in Exchanges
    BY DEF IInv, TypeOK
  <1>3. /\ read >= 1 /\ from_upstream' = from_upstream + read
        /\ from_upstream' \in 0 .. response.sends /\ ResponseSide
    BY <1>1, <1>2, ServerIsRead
  <1>4. from_upstream \in Nat /\ ResponseHead \in Nat /\ first \in Nat
    BY <1>2, ExchangeFacts DEF TypeOK
  <1>5. /\ Relayed /\ from_upstream >= ResponseHead /\ delivered = Body(first, n)
    BY <1>1 DEF IInv, TakenIsWhatWasRead, DeliveredIsWhatWasRead, InResponse
  <1>6. /\ n \in Nat /\ first + n = from_upstream + 1 /\ first + n + read - 1 = from_upstream'
        /\ from_upstream' - ResponseHead = n + read /\ n + read \in Nat
    BY <1>3, <1>4, <1>5
  <1> HIDE DEF n, first, bytes
  <1>7. bytes = Body(first + n, read)
    BY <1>6 DEF Body, bytes
  <1>8. delivered' = Body(first, n + read)
    BY <1>1, <1>4, <1>5, <1>6, <1>7, JoinBody
  <1>9. /\ delivered' \in Seq(Nat) /\ Len(delivered') = n + read /\ Len(delivered) = n
    BY <1>4, <1>5, <1>6, <1>8, BodyIsSeq
  <1>10. Capture(response_capture') /\ PreviewOfBody(response_capture', first, n + read)
    <2>1. Capture(response_capture) /\ PreviewOfBody(response_capture, first, n)
      BY <1>2, <1>5, <1>9 DEF IInv, TypeOK, PreviewsMatchBodies, first
    <2>. QED  BY <1>1, <1>4, <1>6, <1>7, <2>1, IngestNext
  <1>11. TypeOK'
    BY <1>1, <1>2, <1>3, <1>9, <1>10 DEF TypeOK, ResponseSide
  <1>12. PreviewsMatchBodies'
    BY <1>3, <1>9, <1>10, SamePlans DEF IInv, ResponseSide, PreviewsMatchBodies, first
  <1>13. HeadLimitHolds'
    BY <1>1, <1>3, SamePlans DEF IInv, HeadLimitHolds, HeadAccepted, ResponseSide
  <1>14. UpstreamInOrder'
    BY <1>3, SamePlans DEF IInv, UpstreamInOrder, ResponseSide
  <1>15. TakenIsWhatWasRead'
    BY <1>1, <1>3, SamePlans
    DEF IInv, TakenIsWhatWasRead, ResponseSide, InBody, InResponse
  <1>16. DeliveredIsWhatWasRead' /\ TunnelPassesOn'
    <2>1. from_upstream' >= ResponseHead
      BY <1>3, <1>4, <1>5
    <2>. QED
      BY <1>1, <1>3, <1>6, <1>8, <2>1, SamePlans
      DEF DeliveredIsWhatWasRead, TunnelPassesOn, ResponseSide, InBody, first
  <1>. QED  BY <1>11, <1>12, <1>13, <1>14, <1>15, <1>16 DEF IInv

(* A tunnel passes on in either direction what comes next.                 *)
LEMMA TunnelUpKeeps ==
    ASSUME IInv, NEW read \in Nat, TunnelUp(read)
    PROVE  IInv'
  <1> DEFINE bytes == Bytes(from_client + 1, from_client')
  <1>1. /\ pc = "tunnel" /\ pc' = "tunnel" /\ ReadClient(read)
        /\ to_upstream' = to_upstream \o bytes
        /\ UNCHANGED <<pending, request_capture>>
    BY DEF TunnelUp
  <1>2. TypeOK /\ <<request, response>> \in Exchanges
    BY DEF IInv, TypeOK
  <1>3. /\ read >= 1 /\ from_client' = from_client + read
        /\ from_client' \in 0 .. request.sends
        /\ RequestSide /\ up_read' = up_read
    BY <1>1, <1>2, ClientIsRead
  <1>4. ~Relayed /\ from_client \in Nat /\ from_client' \in Int /\ request.head \in Nat
    BY <1>1, <1>2, <1>3, ExchangeFacts DEF IInv, TunnelPassesOn, TypeOK
  <1>5. bytes \in Seq(Nat)
    <2>1. from_client + 1 \in Nat /\ from_client' >= (from_client + 1) - 1
      BY <1>3, <1>4
    <2>. QED  BY <1>4, <2>1, BytesIsSeq
  <1>6. ASSUME request.waits
        PROVE  /\ from_client' >= request.head
               /\ to_upstream' = Bytes(request.head + 1, from_client')
    <2>1. from_client >= request.head /\ to_upstream = Bytes(request.head + 1, from_client)
      BY <1>1, <1>6 DEF IInv, TunnelPassesOn
    <2>2. /\ request.head + 1 \in Nat /\ from_client >= (request.head + 1) - 1
          /\ from_client' >= from_client /\ from_client' >= request.head
          /\ from_client \in Int
      BY <1>3, <1>4, <2>1
    <2>3. Bytes(request.head + 1, from_client) \o Bytes(from_client + 1, from_client')
              = Bytes(request.head + 1, from_client')
      BY <1>4, <2>2, JoinBytes
    <2>. QED  BY <1>1, <2>1, <2>2, <2>3
  <1> HIDE DEF bytes
  <1>7. /\ to_upstream' \in Seq(Nat) /\ up_read' \in 0 .. Len(to_upstream')
    <2>1. to_upstream \in Seq(Nat) /\ up_read \in 0 .. Len(to_upstream)
      BY <1>2 DEF TypeOK
    <2>2. /\ to_upstream' \in Seq(Nat) /\ Len(to_upstream') = Len(to_upstream) + Len(bytes)
          /\ Len(to_upstream) \in Nat /\ Len(bytes) \in Nat
      BY <1>1, <1>5, <2>1, ConcatProperties, LenProperties
    <2>. QED  BY <1>3, <2>1, <2>2
  <1>8. TypeOK'
    BY <1>1, <1>2, <1>3, <1>7 DEF TypeOK, RequestSide
  <1>9. PreviewsMatchBodies' /\ UpstreamInOrder'
    BY <1>3, <1>4, SamePlans DEF RequestSide, PreviewsMatchBodies, UpstreamInOrder
  <1>10. HeadLimitHolds'
    BY <1>1, <1>3, SamePlans DEF IInv, HeadLimitHolds, HeadAccepted, RequestSide
  <1>11. TakenIsWhatWasRead' /\ DeliveredIsWhatWasRead'
    BY <1>1 DEF TakenIsWhatWasRead, DeliveredIsWhatWasRead, InBody, InResponse
  <1>12. TunnelPassesOn'
    BY <1>1, <1>3, <1>4, <1>6, SamePlans DEF IInv, TunnelPassesOn, RequestSide
  <1>. QED  BY <1>8, <1>9, <1>10, <1>11, <1>12 DEF IInv

LEMMA TunnelDownKeeps ==
    ASSUME IInv, NEW read \in Nat, TunnelDown(read)
    PROVE  IInv'
  <1> DEFINE bytes == Bytes(from_upstream + 1, from_upstream')
  <1>1. /\ pc = "tunnel" /\ pc' = "tunnel" /\ ReadServer(read)
        /\ delivered' = delivered \o bytes
        /\ UNCHANGED response_capture
    BY DEF TunnelDown
  <1>2. TypeOK /\ <<request, response>> \in Exchanges
    BY DEF IInv, TypeOK
  <1>3. /\ read >= 1 /\ from_upstream' = from_upstream + read
        /\ from_upstream' \in 0 .. response.sends /\ ResponseSide
    BY <1>1, <1>2, ServerIsRead
  <1>4. /\ ~Relayed /\ from_upstream \in Nat /\ from_upstream' \in Int
        /\ delivered = Bytes(1, from_upstream)
    BY <1>1, <1>2, <1>3, ExchangeFacts DEF IInv, TunnelPassesOn, TypeOK
  <1>5. delivered' = Bytes(1, from_upstream')
    <2>1. /\ 1 \in Nat /\ from_upstream >= 1 - 1 /\ from_upstream' >= from_upstream
          /\ from_upstream \in Int
      BY <1>3, <1>4
    <2>2. Bytes(1, from_upstream) \o Bytes(from_upstream + 1, from_upstream')
              = Bytes(1, from_upstream')
      BY <1>4, <2>1, JoinBytes
    <2>. QED  BY <1>1, <1>4, <2>2
  <1>6. delivered' \in Seq(Nat)
    <2>1. from_upstream' >= 1 - 1
      BY <1>3, <1>4
    <2>. QED  BY <1>4, <1>5, <2>1, BytesIsSeq
  <1>7. TypeOK'
    BY <1>1, <1>2, <1>3, <1>6 DEF TypeOK, ResponseSide
  <1>8. PreviewsMatchBodies' /\ UpstreamInOrder'
    BY <1>3, <1>4, SamePlans DEF ResponseSide, PreviewsMatchBodies, UpstreamInOrder
  <1>9. HeadLimitHolds'
    BY <1>1, <1>3, SamePlans DEF IInv, HeadLimitHolds, HeadAccepted, ResponseSide
  <1>10. TakenIsWhatWasRead' /\ DeliveredIsWhatWasRead'
    BY <1>1 DEF TakenIsWhatWasRead, DeliveredIsWhatWasRead, InBody, InResponse
  <1>11. TunnelPassesOn'
    BY <1>1, <1>3, <1>5, SamePlans DEF IInv, TunnelPassesOn, ResponseSide
  <1>. QED  BY <1>7, <1>8, <1>9, <1>10, <1>11 DEF IInv

(* The steps that only move on, to the next part of an exchange or to its  *)
(* end.                                                                    *)
Moves ==
    \/ RequestHeadEnds \/ WriteRefused \/ RequestWritten \/ RequestBodyEnds
    \/ ResponseHeadEnds \/ ResponseEnds \/ TunnelEnds

LEMMA MovesKeep ==
    ASSUME IInv, Moves
    PROVE  IInv'
  <1>1. UNCHANGED <<request, response, from_client, pending, to_upstream, up_read, from_upstream,
                    delivered, request_capture, response_capture>>
    BY DEF Moves, RequestHeadEnds, WriteRefused, RequestWritten, RequestBodyEnds,
           ResponseHeadEnds, ResponseEnds, TunnelEnds, RequestSide, ResponseSide
  <1>2. PreviewsMatchBodies' /\ UpstreamInOrder' /\ Taken' = Taken
    BY <1>1, BytesStay
  <1>3. TypeOK /\ <<request, response>> \in Exchanges
    BY DEF IInv, TypeOK
  <1>4. pc' \in Points /\ (pc' \in Ended \/ pending = << >>) => TypeOK'
    BY <1>1, <1>3 DEF TypeOK
  <1>5. Len(to_upstream) \in Nat /\ Len(<< >>) = 0
    BY <1>3, LenProperties, EmptySeq DEF TypeOK
  <1>6. CASE RequestHeadEnds
    <2>1. pc = "request_head" /\ pc' \in {"dropped", "rejected"}
      BY <1>6 DEF RequestHeadEnds, Goto
    <2>. QED
      BY <1>1, <1>2, <1>4, <2>1
      DEF IInv, Points, Ended, HeadLimitHolds, HeadAccepted, TakenIsWhatWasRead,
          DeliveredIsWhatWasRead, TunnelPassesOn, InBody, InResponse
  <1>7. CASE WriteRefused
    <2>1. /\ pc = "request_write" /\ pc' \in {"failed", "dropped"}
          /\ pc' = "failed" => request.kind = "explicit"
      BY <1>7 DEF WriteRefused, Goto
    <2>. QED
      BY <1>1, <1>2, <1>4, <2>1
      DEF IInv, Points, Ended, HeadLimitHolds, HeadAccepted, TakenIsWhatWasRead,
          DeliveredIsWhatWasRead, TunnelPassesOn, InBody, InResponse
  <1>8. CASE RequestWritten
    <2>1. /\ pc = "request_write" /\ pending = << >>
          /\ pc' = IF Remaining = 0 THEN "response_head" ELSE "request_body"
      BY <1>8 DEF RequestWritten, Goto
    <2>2. Taken = Len(to_upstream)
      BY <1>5, <2>1 DEF Taken
    <2>3. Remaining = 0 => Len(to_upstream) = request.length
      <3>1. CASE request.kind = "explicit"
        BY <2>1, <2>2, <3>1 DEF IInv, TakenIsWhatWasRead, InBody
      <3>2. CASE request.kind # "explicit"
        <4>1. /\ request.head \in Nat /\ request.length \in Nat /\ from_client \in Nat
          BY <1>3, ExchangeFacts DEF TypeOK
        <4>2. Len(to_upstream) = Least(from_client, request.head + request.length) - request.head
          BY <2>1, <2>2, <3>2 DEF IInv, TakenIsWhatWasRead, InBody
        <4>. QED  BY <3>2, <4>1, <4>2 DEF Remaining, Least
      <3>. QED  BY <3>1, <3>2
    <2>4. TypeOK'
      BY <1>4, <2>1 DEF Points
    <2>5. HeadLimitHolds'
      BY <1>1, <2>1, SamePlans DEF IInv, HeadLimitHolds, HeadAccepted
    <2>6. TakenIsWhatWasRead'
      BY <1>1, <1>2, <2>1, <2>3, SamePlans DEF IInv, TakenIsWhatWasRead, InBody, InResponse
    <2>7. DeliveredIsWhatWasRead' /\ TunnelPassesOn'
      <3>1. ResponseHead > 0 /\ from_upstream = 0
        BY <1>3, <2>1, ExchangeFacts DEF IInv, DeliveredIsWhatWasRead, InBody
      <3>. QED
        BY <1>1, <2>1, <3>1, SamePlans DEF IInv, DeliveredIsWhatWasRead, TunnelPassesOn, InBody
    <2>. QED  BY <1>2, <2>4, <2>5, <2>6, <2>7 DEF IInv
  <1>9. CASE RequestBodyEnds
    <2>1. pc = "request_body" /\ pc' = "dropped"
      BY <1>9 DEF RequestBodyEnds, Goto
    <2>. QED
      BY <1>1, <1>2, <1>4, <2>1
      DEF IInv, Points, Ended, HeadLimitHolds, HeadAccepted, TakenIsWhatWasRead,
          DeliveredIsWhatWasRead, TunnelPassesOn, InBody, InResponse
  <1>10. CASE ResponseHeadEnds
    <2>1. pc = "response_head" /\ pc' = "failed"
      BY <1>10 DEF ResponseHeadEnds, Goto
    <2>. QED
      BY <1>1, <1>2, <1>4, <2>1
      DEF IInv, Points, Ended, HeadLimitHolds, HeadAccepted, TakenIsWhatWasRead,
          DeliveredIsWhatWasRead, TunnelPassesOn, InBody, InResponse
  <1>11. CASE ResponseEnds
    <2>1. pc = "response_body" /\ pc' = "complete" /\ from_upstream = response.sends
      BY <1>11 DEF ResponseEnds, Goto, ServerEnded
    <2>. QED
      BY <1>1, <1>2, <1>4, <2>1, SamePlans
      DEF IInv, Points, Ended, HeadLimitHolds, HeadAccepted, TakenIsWhatWasRead,
          DeliveredIsWhatWasRead, TunnelPassesOn, InBody, InResponse
  <1>12. CASE TunnelEnds
    <2>1. pc = "tunnel" /\ pc' = "closed"
      BY <1>12 DEF TunnelEnds, Goto
    <2>. QED
      BY <1>1, <1>2, <1>4, <2>1, SamePlans
      DEF IInv, Points, Ended, HeadLimitHolds, HeadAccepted, TakenIsWhatWasRead,
          DeliveredIsWhatWasRead, TunnelPassesOn, InBody, InResponse
  <1>. QED  BY <1>6, <1>7, <1>8, <1>9, <1>10, <1>11, <1>12 DEF Moves

(* The server reads what was written to it, no more.                       *)
LEMMA ServerReadsKeeps ==
    ASSUME IInv, ServerReads
    PROVE  IInv'
  <1>1. /\ UNCHANGED <<request, response, pc, from_client, pending, to_upstream, from_upstream,
                       delivered, request_capture, response_capture>>
        /\ up_read' = up_read + 1
        /\ up_read < Least(Len(to_upstream), response.reads)
    BY DEF ServerReads, RequestSide
  <1>2. PreviewsMatchBodies' /\ UpstreamInOrder' /\ Taken' = Taken
    BY <1>1, BytesStay
  <1>3. TypeOK'
    <2>1. TypeOK /\ <<request, response>> \in Exchanges
      BY DEF IInv, TypeOK
    <2>2. /\ Len(to_upstream) \in Nat /\ up_read \in 0 .. Len(to_upstream)
          /\ response.reads \in Nat
      BY <2>1, LenProperties, ExchangeFacts DEF TypeOK
    <2>3. up_read + 1 \in 0 .. Len(to_upstream)
      BY <1>1, <2>2 DEF Least
    <2>. QED  BY <1>1, <2>1, <2>3 DEF TypeOK
  <1>4. HeadLimitHolds' /\ TakenIsWhatWasRead' /\ DeliveredIsWhatWasRead' /\ TunnelPassesOn'
    BY <1>1, <1>2, SamePlans
    DEF IInv, HeadLimitHolds, HeadAccepted, TakenIsWhatWasRead, DeliveredIsWhatWasRead,
        TunnelPassesOn
  <1>. QED  BY <1>2, <1>3, <1>4 DEF IInv

LEMMA StutterKeeps ==
    ASSUME IInv, UNCHANGED vars
    PROVE  IInv'
  <1>1. PreviewsMatchBodies' /\ UpstreamInOrder' /\ Taken' = Taken
    BY BytesStay DEF vars
  <1>. QED
    BY <1>1, SamePlans
    DEF vars, IInv, TypeOK, HeadLimitHolds, HeadAccepted, TakenIsWhatWasRead,
        DeliveredIsWhatWasRead, TunnelPassesOn

LEMMA NextInv == IInv /\ [Next]_vars => IInv'
  <1> SUFFICES ASSUME IInv, [Next]_vars
               PROVE  IInv'
    OBVIOUS
  <1>1. ASSUME NEW read \in Reads,
               \/ ReadPartOfHead(read) \/ RefuseHead(read)
               \/ ForwardBuffered(read) \/ OpenTunnel(read) \/ ReadRequestBody(read)
        PROVE  IInv'
    BY <1>1, ReadsAreNumbers, ReadPartOfHeadKeeps, RefuseHeadKeeps, ForwardBufferedKeeps,
       OpenTunnelKeeps, ReadRequestBodyKeeps
  <1>2. ASSUME NEW read \in Reads,
               \/ ReadPartOfResponseHead(read) \/ RefuseResponseHead(read)
               \/ DeliverBuffered(read) \/ ReadResponseBody(read)
               \/ TunnelUp(read) \/ TunnelDown(read)
        PROVE  IInv'
    BY <1>2, ReadsAreNumbers, ReadPartOfResponseHeadKeeps, RefuseResponseHeadKeeps,
       DeliverBufferedKeeps, ReadResponseBodyKeeps, TunnelUpKeeps, TunnelDownKeeps
  <1>3. ASSUME NEW written \in 1 .. Window, WriteRequest(written)
        PROVE  IInv'
    <2>1. written \in Nat
      BY HttpExchangeAssumption
    <2>. QED  BY <1>3, <2>1, WriteRequestKeeps
  <1>4. CASE Moves
    BY <1>4, MovesKeep
  <1>5. CASE ServerReads
    BY <1>5, ServerReadsKeeps
  <1>6. CASE UNCHANGED vars
    BY <1>6, StutterKeeps
  <1>. QED  BY <1>1, <1>2, <1>3, <1>4, <1>5, <1>6 DEF Next, Daemon, Rest, Moves

LEMMA Invariance == Spec => []IInv
  <1>1. Init => IInv
    BY InitInv
  <1>2. IInv /\ [Next]_vars => IInv'
    BY NextInv
  <1>. QED  BY <1>1, <1>2, PTL DEF Spec

-----------------------------------------------------------------------------
(* However the bytes are cut, a capture is the beginning of the body that  *)
(* was relayed and counts all of it (main.rs:437-493, body.rs:27-52).      *)
THEOREM CapturesMatch == Spec => []CapturesMatchBodies
  <1>1. IInv => CapturesMatchBodies
    BY DEF IInv, CapturesMatchBodies
  <1>. QED  BY <1>1, Invariance, PTL

(* No head beyond the limit is taken, and a head within it is refused only *)
(* together with body bytes (http.rs:46, 70-79, main.rs:657-686).          *)
THEOREM HeadsAreLimited == Spec => []HeadLimitHolds
  <1>1. IInv => HeadLimitHolds
    BY DEF IInv
  <1>. QED  BY <1>1, Invariance, PTL

(* A tunnel loses nothing of what a client sends that waits for the reply  *)
(* to its CONNECT, nor of what the server sends (main.rs:320-333).         *)
THEOREM TunnelsLoseNothing == Spec => []TunnelKeepsAnsweredClients
  <1>1. IInv => TunnelKeepsAnsweredClients
    BY DEF IInv, TunnelPassesOn, TunnelKeepsAnsweredClients
  <1>. QED  BY <1>1, Invariance, PTL

-----------------------------------------------------------------------------
(* The relay of bodies in pieces implements the relay of bodies.           *)

(* A step that neither passes on bytes of a relayed body nor ends the      *)
(* exchange is none of the relay; one that only ends it, without           *)
(* completing it, breaks the relay.                                        *)
LEMMA RelayStutters ==
    ASSUME UNCHANGED <<request, response>>,
           Relayed => UNCHANGED <<to_upstream, delivered>>,
           pc \notin Ended, pc' \notin Ended
    PROVE  UNCHANGED Relay!vars
  <1>1. "complete" \in Ended
    BY DEF Ended
  <1>. QED  BY <1>1, SamePlans DEF Relay!vars

LEMMA RelayBreaks ==
    ASSUME UNCHANGED <<request, response>>,
           Relayed => UNCHANGED <<to_upstream, delivered>>,
           pc \notin Ended, pc' \in Ended, pc' # "complete"
    PROVE  Relay!Break
  BY SamePlans DEF Relay!Break

(* A body is the piece of its stream that a plan of the relay describes.   *)
LEMMA BodyIsPlanned ==
    ASSUME NEW first \in Nat, NEW n \in Nat
    PROVE  Body(first, n) = [i \in 1 .. n |-> first + i - 1]
  <1>1. first + n - 1 - first + 1 = n
    OBVIOUS
  <1>. QED  BY <1>1 DEF Body, Bytes

(* What is written upstream is more of the request body, within its        *)
(* length.                                                                 *)
LEMMA WriteRequestUploads ==
    ASSUME IInv, NEW written \in Nat, WriteRequest(written)
    PROVE  Relay!Upload
  <1>1. /\ IInv' /\ to_upstream' = Body(request.head + 1, Len(to_upstream'))
        /\ Len(to_upstream') = Len(to_upstream) + written
        /\ Taken' = Taken
    BY WriteRequestKeeps
  <1>2. /\ pc = "request_write" /\ pc' = "request_write" /\ written >= 1
        /\ UNCHANGED <<request, response, delivered>>
    BY DEF WriteRequest, RequestSide
  <1>3. Relayed /\ Relayed' /\ ResponseHead' = ResponseHead
    BY <1>2, SamePlans DEF IInv, TakenIsWhatWasRead, InBody
  <1>4. /\ Len(to_upstream) \in Nat /\ Len(to_upstream') \in Nat /\ Len(pending') \in Nat
        /\ request.head \in Nat /\ request.length \in Nat /\ from_client \in Nat
    <2>1. /\ to_upstream \in Seq(Nat) /\ to_upstream' \in Seq(Nat) /\ pending' \in Seq(Nat)
          /\ <<request, response>> \in Exchanges /\ from_client \in 0 .. request.sends
      BY <1>1 DEF IInv, TypeOK
    <2>. QED  BY <2>1, LenProperties, ExchangeFacts
  <1>5. Len(to_upstream') <= request.length
    <2>1. Taken <= request.length
      <3>1. CASE request.kind = "explicit"
        BY <1>2, <1>4, <3>1 DEF IInv, TakenIsWhatWasRead, InBody
      <3>2. CASE request.kind # "explicit"
        <4>1. Taken = Least(from_client, request.head + request.length) - request.head
          BY <1>2, <3>2 DEF IInv, TakenIsWhatWasRead, InBody
        <4>. QED  BY <1>4, <4>1 DEF Least
      <3>. QED  BY <3>1, <3>2
    <2>2. Taken' = Len(to_upstream') + Len(pending')
      BY DEF Taken
    <2>. QED  BY <1>1, <1>4, <2>1, <2>2
  <1>6. to_upstream' = [i \in 1 .. Len(to_upstream') |-> request.head + 1 + i - 1]
    <2>1. request.head + 1 \in Nat
      BY <1>4
    <2>2. \A n \in Nat : Body(request.head + 1, n) = [i \in 1 .. n |-> request.head + 1 + i - 1]
      BY <2>1, BodyIsPlanned
    <2>. QED  BY <1>1, <1>4, <2>2
  <1>7. Len(to_upstream) < Len(to_upstream')
    BY <1>1, <1>2, <1>4
  <1>8. pc \notin Ended /\ pc' \notin Ended
    BY <1>2 DEF Ended
  <1>. QED  BY <1>2, <1>3, <1>5, <1>6, <1>7, <1>8 DEF Relay!Upload, Relay!Deliver

(* What is read of the response is more of its body, once all of the       *)
(* request was written.                                                    *)
LEMMA ReadsDownload ==
    ASSUME IInv, IInv', NEW read \in Nat, ReadServer(read),
           pc \in {"response_head", "response_body"}, pc' = "response_body"
    PROVE  Relay!Download \/ UNCHANGED Relay!vars
  <1> DEFINE n == from_upstream' - ResponseHead
  <1>1. /\ from_upstream' = from_upstream + read /\ read >= 1
        /\ from_upstream' \in 0 .. response.sends /\ ResponseSide
    BY ServerIsRead DEF IInv
  <1>2. UNCHANGED <<request, response, to_upstream>>
    BY <1>1 DEF ResponseSide
  <1>3. /\ Relayed /\ Relayed' /\ ResponseHead' = ResponseHead
        /\ Len(to_upstream) = request.length
    BY <1>2, SamePlans DEF IInv, TakenIsWhatWasRead, InResponse
  <1>4. /\ from_upstream \in Nat /\ from_upstream' \in Nat /\ ResponseHead \in Nat
        /\ ResponseHead + 1 \in Nat /\ response.sends \in Nat
    <2>1. ResponseHead \in Nat /\ ResponseHead + 1 \in Nat /\ response.sends \in Nat
      <3>1. <<request, response>> \in Exchanges
        BY DEF IInv, TypeOK
      <3>2. ResponseHead \in Nat /\ response.sends \in Nat
        BY <3>1, ExchangeFacts
      <3>. QED  BY <3>2
    <2>2. from_upstream \in Nat
      BY <2>1 DEF IInv, TypeOK
    <2>3. from_upstream' \in Nat
      BY <1>1, <2>1
    <2>. QED  BY <2>1, <2>2, <2>3
  <1>5. from_upstream' >= ResponseHead /\ delivered' = Body(ResponseHead + 1, n)
    BY <1>3 DEF IInv, DeliveredIsWhatWasRead
  <1>6. n \in Nat /\ n <= Most(response.sends - ResponseHead, 0)
    <2>1. PICK got \in Nat : got = from_upstream'
      BY <1>4
    <2>2. got >= ResponseHead /\ got <= response.sends
      BY <1>1, <1>4, <1>5, <2>1
    <2>3. /\ got - ResponseHead \in Nat
          /\ got - ResponseHead <= Most(response.sends - ResponseHead, 0)
      BY <1>4, <2>2 DEF Most
    <2>. QED  BY <2>1, <2>3
  <1>7. delivered = Body(ResponseHead + 1, Len(delivered)) /\ Len(delivered) <= n
        /\ Len(delivered) \in Nat
    <2>1. CASE pc = "response_head"
      <3>1. delivered = << >>
        BY <2>1 DEF IInv, DeliveredIsWhatWasRead
      <3>2. Len(delivered) = 0 /\ Body(ResponseHead + 1, 0) = << >>
        BY <1>4, <3>1, EmptySeq, EmptyBody
      <3>3. 0 <= n
        BY <1>6
      <3> HIDE DEF n
      <3>. QED  BY <3>1, <3>2, <3>3
    <2>2. CASE pc = "response_body"
      <3>1. /\ from_upstream >= ResponseHead
            /\ delivered = Body(ResponseHead + 1, from_upstream - ResponseHead)
        BY <2>2 DEF IInv, DeliveredIsWhatWasRead
      <3>2. from_upstream - ResponseHead \in Nat
        BY <1>4, <3>1
      <3>3. Len(delivered) = from_upstream - ResponseHead
        BY <1>4, <3>1, <3>2, BodyIsSeq
      <3>4. from_upstream - ResponseHead <= n
        BY <1>1, <1>4
      <3> HIDE DEF n
      <3>. QED  BY <3>1, <3>2, <3>3, <3>4
    <2>. QED  BY <2>1, <2>2
  <1> HIDE DEF n
  <1>8. /\ Len(delivered') = n
        /\ delivered' = [i \in 1 .. Len(delivered') |-> ResponseHead + 1 + i - 1]
    <2>1. Len(Body(ResponseHead + 1, n)) = n
      BY <1>4, <1>6, BodyIsSeq
    <2>2. Body(ResponseHead + 1, n) = [i \in 1 .. n |-> ResponseHead + 1 + i - 1]
      BY <1>4, <1>6, BodyIsPlanned
    <2>. QED  BY <1>5, <2>1, <2>2
  <1>9. pc \notin Ended /\ pc' \notin Ended
    BY DEF Ended
  <1>10. CASE Len(delivered) = n
    <2>1. delivered' = delivered
      BY <1>5, <1>7, <1>10
    <2>. QED  BY <1>2, <1>9, <2>1, RelayStutters
  <1>11. CASE Len(delivered) < n
    <2>1. Len(delivered) < Len(delivered')
      BY <1>8, <1>11
    <2>2. Len(delivered') <= Most(response.sends - ResponseHead, 0)
      BY <1>6, <1>8
    <2>. QED
      BY <1>2, <1>3, <1>8, <1>9, <2>1, <2>2 DEF Relay!Download, Relay!Deliver
  <1>. QED  BY <1>6, <1>7, <1>10, <1>11

(* An exchange that completes has relayed both bodies to their ends; every *)
(* other end breaks it.                                                    *)
LEMMA MovesFinishOrBreak ==
    ASSUME IInv, Moves
    PROVE  Relay!Next \/ UNCHANGED Relay!vars
  <1>1. UNCHANGED <<request, response, to_upstream, delivered>>
    BY DEF Moves, RequestHeadEnds, WriteRefused, RequestWritten, RequestBodyEnds,
           ResponseHeadEnds, ResponseEnds, TunnelEnds, RequestSide, ResponseSide
  <1>2. CASE RequestHeadEnds \/ WriteRefused \/ RequestBodyEnds \/ ResponseHeadEnds \/ TunnelEnds
    <2>1. pc \notin Ended /\ pc' \in Ended /\ pc' # "complete"
      BY <1>2
      DEF RequestHeadEnds, WriteRefused, RequestBodyEnds, ResponseHeadEnds, TunnelEnds, Goto, Ended
    <2>. QED  BY <1>1, <2>1, RelayBreaks DEF Relay!Next
  <1>3. CASE RequestWritten
    <2>1. pc \notin Ended /\ pc' \notin Ended
      BY <1>3 DEF RequestWritten, Goto, Ended
    <2>. QED  BY <1>1, <2>1, RelayStutters
  <1>4. CASE ResponseEnds
    <2>1. /\ pc = "response_body" /\ pc' = "complete" /\ from_upstream = response.sends
      BY <1>4 DEF ResponseEnds, Goto, ServerEnded
    <2>2. /\ Relayed /\ Len(to_upstream) = request.length
          /\ from_upstream >= ResponseHead
          /\ delivered = Body(ResponseHead + 1, from_upstream - ResponseHead)
      BY <2>1 DEF IInv, TakenIsWhatWasRead, DeliveredIsWhatWasRead, InResponse
    <2>3. ResponseHead \in Nat /\ ResponseHead + 1 \in Nat /\ response.sends \in Nat
      BY ExchangeFacts DEF IInv, TypeOK
    <2>4. /\ from_upstream - ResponseHead \in Nat
          /\ from_upstream - ResponseHead = Most(response.sends - ResponseHead, 0)
      BY <2>1, <2>2, <2>3 DEF Most
    <2>5. Len(delivered) = Most(response.sends - ResponseHead, 0)
      BY <2>2, <2>3, <2>4, BodyIsSeq
    <2>6. Relayed' /\ ResponseHead' = ResponseHead
      BY <1>1, <2>2, SamePlans
    <2>7. pc \notin Ended /\ pc' \in Ended
      BY <2>1 DEF Ended
    <2>8. Relay!Finish
      BY <1>1, <2>1, <2>2, <2>5, <2>6, <2>7 DEF Relay!Finish
    <2>. QED  BY <2>8 DEF Relay!Next
  <1>. QED  BY <1>2, <1>3, <1>4 DEF Moves

(* The initial states are those of a relay that has passed on nothing.     *)
LEMMA InitRelays == Init => Relay!Init
  <1> SUFFICES ASSUME Init
               PROVE  Relay!Init
    OBVIOUS
  <1>1. TypeOK /\ to_upstream = << >> /\ delivered = << >>
        /\ pc \in {"request_write", "request_head"}
    BY InitInv DEF IInv, Init
  <1>2. /\ request.head \in Nat /\ request.length \in Nat /\ ResponseHead \in Nat
        /\ response.sends \in Nat
    BY <1>1, ExchangeFacts DEF TypeOK
  <1>3. /\ request.head + 1 \in Nat /\ ResponseHead + 1 \in Nat
        /\ Most(response.sends - ResponseHead, 0) \in Nat
    BY <1>2 DEF Most
  <1>4. /\ [first |-> request.head + 1, length |-> request.length] \in Relay!Plan
        /\ [first |-> ResponseHead + 1, length |-> Most(response.sends - ResponseHead, 0)]
              \in Relay!Plan
    BY <1>2, <1>3 DEF Relay!Plan
  <1>5. pc \notin Ended
    BY <1>1 DEF Ended
  <1>. QED  BY <1>1, <1>4, <1>5 DEF Relay!Init

(* Every step of an exchange is one of the relay, or none.                 *)
LEMMA StepRelays == IInv /\ IInv' /\ [Next]_vars => [Relay!Next]_Relay!vars
  <1> SUFFICES ASSUME IInv, IInv', [Next]_vars
               PROVE  Relay!Next \/ UNCHANGED Relay!vars
    BY DEF Relay!vars
  <1>1. ASSUME NEW read \in Reads, ReadPartOfHead(read) \/ ForwardBuffered(read) \/ ReadRequestBody(read)
        PROVE  UNCHANGED Relay!vars
    BY <1>1, RelayStutters
    DEF ReadPartOfHead, ForwardBuffered, ReadRequestBody, ReadRequestHead, ReadClient, RequestSide,
        Goto, Ended
  <1>2. ASSUME NEW read \in Reads, RefuseHead(read)
        PROVE  Relay!Break
    BY <1>2, RelayBreaks DEF RefuseHead, ReadRequestHead, ReadClient, RequestSide, Goto, Ended
  <1>3. ASSUME NEW read \in Reads, OpenTunnel(read) \/ TunnelUp(read)
        PROVE  UNCHANGED Relay!vars
    <2>1. /\ ~Relayed /\ UNCHANGED <<request, response>>
          /\ pc \in {"request_head", "tunnel"} /\ pc' = "tunnel"
      BY <1>3
      DEF OpenTunnel, TunnelUp, ReadRequestHead, ReadClient, RequestSide, Goto, Relayed,
          IInv, TunnelPassesOn
    <2>. QED  BY <2>1, RelayStutters DEF Ended
  <1>4. ASSUME NEW read \in Reads, TunnelDown(read)
        PROVE  UNCHANGED Relay!vars
    <2>1. ~Relayed /\ UNCHANGED <<request, response>> /\ pc = "tunnel" /\ pc' = "tunnel"
      BY <1>4 DEF TunnelDown, ReadServer, ResponseSide, IInv, TunnelPassesOn
    <2>. QED  BY <2>1, RelayStutters DEF Ended
  <1>5. ASSUME NEW read \in Reads, ReadPartOfResponseHead(read)
        PROVE  UNCHANGED Relay!vars
    BY <1>5, RelayStutters
    DEF ReadPartOfResponseHead, ReadResponseHead, ReadServer, ResponseSide, Ended
  <1>6. ASSUME NEW read \in Reads, RefuseResponseHead(read)
        PROVE  Relay!Break
    BY <1>6, RelayBreaks
    DEF RefuseResponseHead, ReadResponseHead, ReadServer, ResponseSide, Goto, Ended
  <1>7. ASSUME NEW read \in Reads, DeliverBuffered(read) \/ ReadResponseBody(read)
        PROVE  Relay!Download \/ UNCHANGED Relay!vars
    <2>1. /\ ReadServer(read) /\ read \in Nat
          /\ pc \in {"response_head", "response_body"} /\ pc' = "response_body"
      BY <1>7, ReadsAreNumbers DEF DeliverBuffered, ReadResponseBody, ReadResponseHead, Goto
    <2>. QED  BY <2>1, ReadsDownload
  <1>8. ASSUME NEW written \in 1 .. Window, WriteRequest(written)
        PROVE  Relay!Upload
    <2>1. written \in Nat
      BY HttpExchangeAssumption
    <2>. QED  BY <1>8, <2>1, WriteRequestUploads
  <1>9. CASE Moves
    BY <1>9, MovesFinishOrBreak
  <1>10. CASE ServerReads
    BY <1>10, RelayStutters DEF ServerReads, RequestSide
  <1>11. CASE UNCHANGED vars
    BY <1>11, SamePlans DEF vars, Relay!vars
  <1>. QED
    BY <1>1, <1>2, <1>3, <1>4, <1>5, <1>6, <1>7, <1>8, <1>9, <1>10, <1>11
    DEF Next, Daemon, Rest, Moves, Relay!Next

(* Bodies are relayed in order, not beyond the announced length, and an    *)
(* exchange is complete only when both are, in whatever pieces they come   *)
(* (main.rs:437-493, request_runtime.rs:98-134).                           *)
THEOREM RelaysBodies == Spec => ImplementsByteRelay
  <1>1. Init => Relay!Init
    BY InitRelays
  <1>2. IInv /\ IInv' /\ [Next]_vars => [Relay!Next]_Relay!vars
    BY StepRelays
  <1>. QED  BY <1>1, <1>2, Invariance, PTL DEF Spec, ImplementsByteRelay, Relay!Spec

=============================================================================
