------------------------------- MODULE Engine -------------------------------
(***************************************************************************)
(* The capture path of the running daemon: proxy connections               *)
(* (proxy-daemon/src/main.rs) and control clients that replay or compose   *)
(* requests (request_runtime, replay_runtime, composer_runtime) share one  *)
(* SessionStore and the captured_transactions counter of EngineStatus,     *)
(* which has a lock of its own.                                            *)
(*                                                                         *)
(* Every task runs concurrently with the others and may be descheduled at  *)
(* each await, so each critical section and each exchange with a peer is   *)
(* an action.  What a peer does is chosen freely: the code has no timeout. *)
(* Rewrite rules never touch the headers that frame a body, so they do not *)
(* appear here.                                                            *)
(***************************************************************************)
EXTENDS SessionStore, FiniteSets

CONSTANTS
    Connections,       \* proxy tasks, each serving one accepted connection
    Clients,           \* control tasks, one per connection of the application
    Requests,          \* the request heads peers may send or compose
    MaxCommands        \* bound: replay or execute commands per client

(* What a request head says of its body.  "length" is its Content-Length   *)
(* header (absent counts as zero); "text" says that the body is kept whole *)
(* and decodes as text when it is captured.                                *)
Request ==
    [ scheme : Schemes, transfer_encoding : Encodings,
      length : {"zero", "some", "invalid"}, text : BOOLEAN ]

Tasks == Connections \cup Clients

ASSUME EngineAssumption ==
    /\ IsFiniteSet(Connections) /\ IsFiniteSet(Clients)
    /\ Connections \cap Clients = {}
    /\ Requests \subseteq Request
    /\ MaxCommands \in Nat

VARIABLES
    captured_transactions,     \* EngineStatus.captured_transactions
    tls_interception_enabled,  \* fixed at start by the environment
    pc,                        \* where each task is
    id,                        \* the id each task reserved, 0 before that
    request,                   \* the request each task is serving, as a set
    source,                    \* the transaction a client replays, 0 if none
    reply,                     \* the last event sent to each client
    commands,                  \* commands each client has issued (bound only)
    whole_body                 \* ghost: ids whose whole body the daemon had in hand

vars == <<next_id, transactions, captured_transactions, tls_interception_enabled,
          pc, id, request, source, reply, commands, whole_body>>

(* Between recording a transaction and settling it.                        *)
Unsettled == {"capture", "count", "tunnel", "forward", "preview", "respond",
              "deliver", "exchange", "complete", "fail"}

ProxyPoints  == {"head", "connect", "tls", "reserve", "insert", "closed", "dropped"}
                    \cup (Unsettled \ {"capture", "exchange"})
ClientPoints == {"idle", "reserve", "insert", "capture", "count", "exchange",
                 "complete", "fail", "result"}

ReplyCodes ==
    {"none", "replay_transaction_not_found", "replay_not_safe", "replay_failed",
     "replay_result_missing", "replay_result", "invalid_composed_request",
     "composed_request_failed", "execution_result_missing", "execution_result"}

Reply == [code : ReplyCodes, transaction : SUBSET Transaction]

(* Every record in the bounded store and every answer has its type, and    *)
(* the store never holds more than Capacity records (session.rs:46-52).    *)
TypeOK ==
    /\ next_id \in Nat \ {0}
    /\ transactions \in Seq(Transaction)
    /\ Len(transactions) <= Capacity
    /\ captured_transactions \in Nat
    /\ tls_interception_enabled \in BOOLEAN
    /\ pc \in [Tasks -> ProxyPoints \cup ClientPoints]
    /\ \A p \in Connections : pc[p] \in ProxyPoints
    /\ \A c \in Clients : pc[c] \in ClientPoints
    /\ id \in [Tasks -> Nat]
    /\ request \in [Tasks -> Request]
    /\ source \in [Clients -> Nat]
    /\ reply \in [Clients -> Reply]
    /\ commands \in [Clients -> 0 .. MaxCommands]
    /\ whole_body \subseteq Nat

NoRequest == [scheme |-> "http", transfer_encoding |-> "none", length |-> "zero", text |-> FALSE]

Init ==
    /\ StoreInit
    /\ captured_transactions = 0
    /\ tls_interception_enabled \in BOOLEAN
    /\ pc = [t \in Tasks |-> IF t \in Connections THEN "head" ELSE "idle"]
    /\ id = [t \in Tasks |-> 0]
    /\ request = [t \in Tasks |-> NoRequest]
    /\ source = [c \in Clients |-> 0]
    /\ reply = [c \in Clients |-> [code |-> "none", transaction |-> {}]]
    /\ commands = [c \in Clients |-> 0]
    /\ whole_body = {}

Goto(t, point) == pc' = [pc EXCEPT ![t] = point]

(* A step from one point to another that is neither a command nor a reply, *)
(* and the two common cases: it touches nothing that tasks share, or it    *)
(* calls one method that writes the store.                                 *)
Advance(t, from, to) ==
    /\ pc[t] = from
    /\ Goto(t, to)
    /\ UNCHANGED <<next_id, captured_transactions, tls_interception_enabled,
                   id, source, reply, commands>>

Moves(t, from, to)  == Advance(t, from, to) /\ UNCHANGED <<transactions, request, whole_body>>
Writes(t, from, to) == Advance(t, from, to) /\ UNCHANGED <<request, whole_body>>

-----------------------------------------------------------------------------
(* Both versions of begin_transaction: reserve an id, insert the pending   *)
(* record, count it.  The explicit version records the preview of the body *)
(* before it counts (request_runtime.rs), the proxy after it has forwarded *)
(* the body.                                                               *)

BytesOf(r)   == IF r.length = "some" THEN "some" ELSE "zero"
PreviewOf(r) == IF r.text THEN "text" ELSE "opaque"

NewTransaction(t) ==
    [ id |-> id[t], scheme |-> request[t].scheme,
      transfer_encoding |-> request[t].transfer_encoding,
      request_body_bytes |-> BytesOf(request[t]), request_body_preview |-> "none",
      response |-> "none", state |-> "pending" ]

Reserve(t) ==
    /\ pc[t] = "reserve"
    /\ id' = [id EXCEPT ![t] = next_id]
    /\ NextId
    /\ Goto(t, "insert")
    /\ UNCHANGED <<transactions, captured_transactions, tls_interception_enabled,
                   request, source, reply, commands, whole_body>>

InsertPending(t) ==
    /\ Writes(t, "insert", IF t \in Clients THEN "capture" ELSE "count")
    /\ Insert(NewTransaction(t))

(* Where a proxy task goes once its transaction is counted: nothing is     *)
(* awaited before the Content-Length is parsed (an error drops the task    *)
(* with `?`) and the transfer coding is looked at.                         *)
AfterCount(r) ==
    CASE r.scheme = "tunnel"           -> "tunnel"
      [] r.scheme # "tunnel" /\ r.length = "invalid" -> "dropped"
      [] r.scheme # "tunnel" /\ r.length # "invalid" /\ r.transfer_encoding = "chunked" -> "fail"
      [] OTHER                         -> "forward"

CountBy(t, n) ==
    /\ pc[t] = "count"
    /\ captured_transactions' = captured_transactions + n
    /\ Goto(t, IF t \in Clients THEN "exchange" ELSE AfterCount(request[t]))
    /\ UNCHANGED <<next_id, transactions, tls_interception_enabled, id, request,
                   source, reply, commands, whole_body>>

(* Faulty: opaque tunnels are not counted.                                 *)
CountExchangesOnly(t) == CountBy(t, IF request[t].scheme = "tunnel" THEN 0 ELSE 1)

Count(t) == CountBy(t, 1)

-----------------------------------------------------------------------------
(* Proxy connections: serve_proxy_client, serve_intercepted_tls,           *)
(* proxy_single_exchange.  A task that ends "dropped" left through a `?`   *)
(* that does not settle its transaction.                                   *)

(* A readable head names its destination; a CONNECT is a tunnel.           *)
ReadHead(p) ==
    /\ Advance(p, "head", "connect")
    /\ \E r \in Requests : r.scheme # "https" /\ request' = [request EXCEPT ![p] = r]
    /\ UNCHANGED <<transactions, whole_body>>

RejectHead(p) == Moves(p, "head", "closed")

Connect(p) ==
    Moves(p, "connect", IF request[p].scheme = "tunnel" /\ tls_interception_enabled
                        THEN "tls" ELSE "reserve")

(* 502, or the CONNECT reply could not be written: nothing was recorded.   *)
ConnectFails(p) == Moves(p, "connect", "closed")

(* Both TLS handshakes succeed and the request inside the tunnel is read.  *)
Intercept(p) ==
    /\ Advance(p, "tls", "reserve")
    /\ \E r \in Requests : r.scheme = "https" /\ request' = [request EXCEPT ![p] = r]
    /\ UNCHANGED <<transactions, whole_body>>

InterceptFails(p) == Moves(p, "tls", "closed")

(* An opaque tunnel is complete as soon as it is open; relaying its bytes  *)
(* touches no shared state.                                                *)
CompleteTunnel(p) == Writes(p, "tunnel", "closed") /\ Complete(id[p])

Forward(p) ==
    /\ Advance(p, "forward", "preview")
    /\ whole_body' = whole_body \cup {id[p]}
    /\ UNCHANGED <<transactions, request>>

(* A read or write error, or a body shorter than announced.                *)
ForwardFails(p) == Moves(p, "forward", "dropped")

CapturePreview(p) ==
    /\ Writes(p, "preview", "respond")
    /\ SetRequestPreview(id[p], BytesOf(request[p]), PreviewOf(request[p]))

ReadResponse(p) == Moves(p, "respond", "deliver")

(* Faulty: this error is passed on with `?` like the others.               *)
ReadResponseFailsUnsettled(p) == Moves(p, "respond", "closed")

(* The only exchange error that settles the transaction.                   *)
ReadResponseFails(p) == Moves(p, "respond", "fail")

ParseResponseFails(p) == Moves(p, "respond", "dropped")

Deliver(p) == Moves(p, "deliver", "complete")

DeliverFails(p) == Moves(p, "deliver", "dropped")

CompleteExchange(p) == Writes(p, "complete", "closed") /\ Complete(id[p])

(* Faulty: no early return after the 501 reply.                            *)
FailExchangeAndGoOn(p) == Writes(p, "fail", "forward") /\ Fail(id[p])

FailExchange(p) == Writes(p, "fail", "closed") /\ Fail(id[p])

-----------------------------------------------------------------------------
(* Control clients: one command at a time, answered before the next line   *)
(* of the connection is read.                                              *)

Answer(c, code, found) ==
    /\ reply' = [reply EXCEPT ![c] = [code |-> code, transaction |-> found]]
    /\ Goto(c, "idle")

(* Faulty: the declared length is taken for a captured body.               *)
ReplayableByLength(t) == t.scheme # "tunnel" /\ t.transfer_encoding = "none"

(* replay::prepare, as far as the store decides it.                        *)
Replayable(t) ==
    /\ t.scheme # "tunnel"
    /\ t.transfer_encoding = "none"
    /\ t.request_body_bytes = "zero" \/ t.request_body_preview = "text"

ReplayRequest(t) ==
    [ scheme |-> t.scheme, transfer_encoding |-> "none",
      length |-> t.request_body_bytes, text |-> t.request_body_preview = "text" ]

NewCommand(c, txn) ==
    /\ pc[c] = "idle"
    /\ commands[c] < MaxCommands
    /\ commands' = [commands EXCEPT ![c] = @ + 1]
    /\ id' = [id EXCEPT ![c] = 0]
    /\ source' = [source EXCEPT ![c] = txn]
    /\ UNCHANGED <<next_id, transactions, captured_transactions,
                   tls_interception_enabled, whole_body>>

Start(c, r) ==
    /\ request' = [request EXCEPT ![c] = r]
    /\ Goto(c, "reserve")
    /\ UNCHANGED reply

Refuse(c, code) == Answer(c, code, {}) /\ UNCHANGED request

(* The source is read once; the record may change or be evicted later.     *)
Replay(c, txn) ==
    /\ NewCommand(c, txn)
    /\ \E t \in Get(txn) : Replayable(t) /\ Start(c, ReplayRequest(t))

ReplayNotFound(c, txn) ==
    /\ NewCommand(c, txn)
    /\ Get(txn) = {}
    /\ Refuse(c, "replay_transaction_not_found")

(* Refused by Replayable, or by the checks of the method, target, host and *)
(* header bytes, which the model does not keep.                            *)
ReplayRefused(c, txn) ==
    /\ NewCommand(c, txn)
    /\ Get(txn) # {}
    /\ Refuse(c, "replay_not_safe")

(* composer::prepare builds a request with a Content-Length of its own.    *)
Execute(c) ==
    /\ NewCommand(c, 0)
    /\ \E r \in Requests :
          /\ r.scheme # "tunnel" /\ r.transfer_encoding = "none" /\ r.length # "invalid"
          /\ Start(c, r)

ExecuteRefused(c) ==
    /\ NewCommand(c, 0)
    /\ Refuse(c, "invalid_composed_request")

(* The body of an explicit request is in memory: previewed before counted. *)
CaptureBody(c) ==
    /\ Advance(c, "capture", "count")
    /\ SetRequestPreview(id[c], BytesOf(request[c]), PreviewOf(request[c]))
    /\ whole_body' = whole_body \cup {id[c]}
    /\ UNCHANGED request

(* Connecting, the exchange with upstream and reading the response.        *)
Exchange(c) == Moves(c, "exchange", "complete")

ExchangeFails(c) == Moves(c, "exchange", "fail")

CompleteExecution(c) == Writes(c, "complete", "result") /\ Complete(id[c])

FailureCode(c) == IF source[c] # 0 THEN "replay_failed" ELSE "composed_request_failed"

(* What the last step of a command leaves alone besides the store.         *)
Keeps == UNCHANGED <<next_id, captured_transactions, tls_interception_enabled, id,
                     request, source, commands, whole_body>>

(* Faulty: the error is answered but the record is left pending.           *)
FailExecutionUnsettled(c) ==
    pc[c] = "fail" /\ Answer(c, FailureCode(c), {}) /\ Keeps /\ UNCHANGED transactions

FailExecution(c) ==
    pc[c] = "fail" /\ Fail(id[c]) /\ Answer(c, FailureCode(c), {}) /\ Keeps

ResultCode(c, found) ==
    CASE found # {} /\ source[c] # 0 -> "replay_result"
      [] found # {} /\ source[c] = 0 -> "execution_result"
      [] found = {} /\ source[c] # 0 -> "replay_result_missing"
      [] OTHER                       -> "execution_result_missing"

(* Faulty: waits for a record that was evicted.                            *)
ReturnResultWhenHeld(c) ==
    /\ pc[c] = "result"
    /\ LET found == Get(id[c])
       IN  IF found = {} THEN UNCHANGED <<pc, reply>> ELSE Answer(c, ResultCode(c, found), found)
    /\ Keeps /\ UNCHANGED transactions

(* The record is looked up again: it may have been evicted meanwhile.      *)
ReturnResult(c) ==
    /\ pc[c] = "result"
    /\ LET found == Get(id[c]) IN Answer(c, ResultCode(c, found), found)
    /\ Keeps /\ UNCHANGED transactions

-----------------------------------------------------------------------------
Begin(t) == Reserve(t) \/ InsertPending(t) \/ Count(t)

ProxyStep(p) ==
    \/ ReadHead(p)       \/ RejectHead(p)
    \/ Connect(p)        \/ ConnectFails(p)
    \/ Intercept(p)      \/ InterceptFails(p)
    \/ CompleteTunnel(p)
    \/ Forward(p)        \/ ForwardFails(p)
    \/ CapturePreview(p)
    \/ ReadResponse(p)   \/ ReadResponseFails(p) \/ ParseResponseFails(p)
    \/ Deliver(p)        \/ DeliverFails(p)
    \/ CompleteExchange(p)
    \/ FailExchange(p)

Command(c) ==
    \/ \E txn \in 1 .. next_id : Replay(c, txn) \/ ReplayNotFound(c, txn) \/ ReplayRefused(c, txn)
    \/ Execute(c)
    \/ ExecuteRefused(c)

ClientStep(c) ==
    \/ CaptureBody(c)
    \/ Exchange(c)       \/ ExchangeFails(c)
    \/ CompleteExecution(c)
    \/ FailExecution(c)
    \/ ReturnResult(c)

(* Only the bounds of the model stop the daemon: it would accept the next  *)
(* connection and read the next command.                                   *)
Quiescent ==
    /\ \A p \in Connections : pc[p] \in {"closed", "dropped"}
    /\ \A c \in Clients : pc[c] = "idle" /\ commands[c] = MaxCommands
    /\ UNCHANGED vars

Next ==
    \/ \E t \in Tasks : Begin(t)
    \/ \E p \in Connections : ProxyStep(p)
    \/ \E c \in Clients : Command(c) \/ ClientStep(c)
    \/ Quiescent

Spec == Init /\ [][Next]_vars

(* Steps inside the daemon are run by the scheduler: every lock is held    *)
(* without awaiting and tokio's locks are fair, so a task at a critical    *)
(* section gets through it.  A step that waits for a peer has no fairness. *)
InternalStep(t) ==
    \/ Begin(t)
    \/ /\ t \in Connections
       /\ \/ CompleteTunnel(t)   \/ CapturePreview(t)
          \/ CompleteExchange(t) \/ FailExchange(t)
    \/ /\ t \in Clients
       /\ \/ CaptureBody(t)   \/ CompleteExecution(t)
          \/ FailExecution(t) \/ ReturnResult(t)

FairSpec == Spec /\ \A t \in Tasks : WF_vars(InternalStep(t))

-----------------------------------------------------------------------------
Held == {transactions[i].id : i \in DOMAIN transactions}

(* Each id names at most one record, although ids are reserved outside the *)
(* lock under which records are inserted (session.rs:42-52).               *)
UniqueIds ==
    \A i, j \in DOMAIN transactions : transactions[i].id = transactions[j].id => i = j

(* Tasks that have reserved an id and not yet counted it.                  *)
Uncounted == {t \in Tasks : pc[t] \in {"insert", "capture", "count"}}

(* The counter the status event shows is behind the ids by exactly the     *)
(* tasks inside begin_transaction, in either of its two orders: none is    *)
(* counted twice or forgotten (main.rs:507-537, request_runtime.rs:136).   *)
CountTracksIds == next_id - 1 = captured_transactions + Cardinality(Uncounted)

(* A pending record is the business of a task that is still at work on it  *)
(* or was dropped by an error that proxy_single_exchange does not settle   *)
(* (main.rs:425-483): no other path leaves one behind.                     *)
PendingExplained ==
    \A i \in DOMAIN transactions :
        transactions[i].state = "pending" =>
            \E t \in Tasks : id[t] = transactions[i].id /\ pc[t] \in Unsettled \cup {"dropped"}

(* An issued id that no record shows is still to be inserted, or was       *)
(* evicted from a full store (session.rs:46-52); so a client is only told  *)
(* that its result is missing when the store is full.                      *)
MissingOnlyByEviction ==
    /\ \A n \in 1 .. (next_id - 1) :
          \/ n \in Held
          \/ \E t \in Tasks : pc[t] = "insert" /\ id[t] = n
          \/ Len(transactions) = Capacity
    /\ \A c \in Clients :
          reply[c].code \in {"replay_result_missing", "execution_result_missing"} =>
              Len(transactions) = Capacity

(* A result event carries the transaction that this very command created,  *)
(* complete and with its response (replay_runtime.rs:53, composer_runtime).*)
ResultIsOwnAndComplete ==
    \A c \in Clients :
        /\ pc[c] = "idle"
        /\ reply[c].code \in {"replay_result", "execution_result"}
        => \E t \in reply[c].transaction :
              /\ reply[c].transaction = {t}
              /\ t.id = id[c] /\ t.scheme = request[c].scheme
              /\ t.state = "complete" /\ t.response = "captured"

(* A replay that sends a body sends one that the daemon has had in hand    *)
(* from end to end under the source transaction, never a declared length   *)
(* (replay.rs:158-182; begin_transaction records the length first).        *)
ReplayedBodyWasWhole ==
    \A c \in Clients :
        pc[c] # "idle" /\ source[c] # 0 /\ request[c].length = "some" =>
            source[c] \in whole_body /\ request[c].text

(* Once complete or failed a record is never changed again, whichever task *)
(* still holds its id (session.rs:64-103).                                 *)
SettledIsFinal ==
    [][ \A i \in DOMAIN transactions, j \in DOMAIN transactions' :
            /\ transactions[i].id = transactions'[j].id
            /\ transactions[i].state # "pending"
            => transactions'[j] = transactions[i] ]_vars

Log == INSTANCE CaptureLog WITH
    issued   <- next_id - 1,
    reserved <- {id[t] : t \in {u \in Tasks : pc[u] = "insert"}},
    log      <- [i \in DOMAIN transactions |->
                    [id |-> transactions[i].id, state |-> transactions[i].state]]

(* Whatever tasks do at once, the store goes through the steps of the      *)
(* abstract log and no others: ids are issued in order, each is recorded   *)
(* in front at most once and settled at most once, and only the oldest     *)
(* record is dropped (session.rs:42-103 as main.rs and request_runtime.rs  *)
(* use it).                                                                *)
ImplementsCaptureLog == Log!Spec

(* Where a task waits for a peer.  The code sets no timeout on any of      *)
(* these, so that peers go on is a premise of the liveness properties.     *)
AwaitsPeer == {"head", "connect", "tls", "forward", "respond", "deliver", "exchange"}

(* If peers do not keep a client's command waiting for ever, the command   *)
(* is answered, also when its record was evicted.                          *)
CommandsAnswered ==
    \A c \in Clients :
        []<>(pc[c] \notin AwaitsPeer) => (pc[c] # "idle" ~> pc[c] = "idle")

(* If peers keep no task waiting for ever, every recorded transaction is   *)
(* settled, evicted, or left behind by a dropped task.                     *)
RecordsSettle ==
    \A t \in Tasks :
        []<>(pc[t] \notin AwaitsPeer) =>
            (pc[t] \in Unsettled ~>
                \/ pc[t] = "dropped"
                \/ \A i \in DOMAIN transactions :
                      transactions[i].id = id[t] => transactions[i].state # "pending")
=============================================================================
