---------------------------- MODULE EngineProofs ----------------------------
(***************************************************************************)
(* Proofs about Engine, for every set of connections and clients, every    *)
(* set of requests, every capacity and every number of commands.           *)
(***************************************************************************)
EXTENDS Engine, FiniteSetTheorems, SequenceTheorems, TLAPS

-----------------------------------------------------------------------------
(* The store's methods.                                                    *)

(* insert() puts the record in front, keeps the others in order behind it  *)
(* and never exceeds the capacity.                                         *)
LEMMA InsertShape ==
    ASSUME transactions \in Seq(Transaction), Len(transactions) <= Capacity,
           NEW txn \in Transaction, Insert(txn)
    PROVE  /\ transactions' \in Seq(Transaction)
           /\ Len(transactions') = IF Len(transactions) < Capacity
                                   THEN Len(transactions) + 1 ELSE Capacity
           /\ transactions'[1] = txn
           /\ \A i \in DOMAIN transactions' : i # 1 =>
                 /\ i - 1 \in DOMAIN transactions
                 /\ transactions'[i] = transactions[i - 1]
BY CapacityAssumption DEF Insert

(* What the update methods have in common: a record keeps its id and its   *)
(* scheme, and only a record with the given id changes.                    *)
Touches(txn) ==
    /\ transactions' \in Seq(Transaction)
    /\ Len(transactions') = Len(transactions)
    /\ \A i \in 1 .. Len(transactions) :
          /\ transactions'[i].id = transactions[i].id
          /\ transactions'[i].scheme = transactions[i].scheme
          /\ transactions[i].id # txn => transactions'[i] = transactions[i]

(* What set_request_preview does to the sequence of records.               *)
LEMMA PreviewShape ==
    ASSUME transactions \in Seq(Transaction), NEW txn \in Nat,
           NEW bytes \in {"zero", "some"}, NEW preview \in {"none", "text", "opaque"},
           SetRequestPreview(txn, bytes, preview)
    PROVE  /\ Touches(txn)
           /\ \A i \in 1 .. Len(transactions) : transactions'[i].state = transactions[i].state
<1>1. DOMAIN transactions = 1 .. Len(transactions) /\ Len(transactions) \in Nat
  BY LenProperties
<1>2. ASSUME NEW i \in 1 .. Len(transactions)
      PROVE  /\ transactions'[i] \in Transaction
             /\ transactions'[i].id = transactions[i].id
             /\ transactions'[i].scheme = transactions[i].scheme
             /\ transactions'[i].state = transactions[i].state
             /\ transactions[i].id # txn => transactions'[i] = transactions[i]
  <2>1. transactions[i] \in Transaction
    BY ElementOfSeq
  <2>2. transactions'[i] = IF IsFirst(i, txn)
                           THEN [transactions[i] EXCEPT !.request_body_bytes = bytes,
                                                        !.request_body_preview = preview]
                           ELSE transactions[i]
    BY <1>1 DEF SetRequestPreview
  <2> QED BY <2>1, <2>2 DEF IsFirst, Transaction
<1>3. transactions' \in [1 .. Len(transactions) -> Transaction]
  BY <1>1, <1>2 DEF SetRequestPreview
<1> QED BY <1>1, <1>2, <1>3 DEF Touches

(* What complete does to the sequence of records.                          *)
LEMMA CompleteShape ==
    ASSUME transactions \in Seq(Transaction), NEW txn \in Nat, Complete(txn)
    PROVE  /\ Touches(txn)
           /\ \A i \in 1 .. Len(transactions) :
                 IsFirst(i, txn) => /\ transactions'[i].state = "complete"
                                    /\ transactions'[i].response = "captured"
<1>1. DOMAIN transactions = 1 .. Len(transactions) /\ Len(transactions) \in Nat
  BY LenProperties
<1>2. ASSUME NEW i \in 1 .. Len(transactions)
      PROVE  /\ transactions'[i] \in Transaction
             /\ transactions'[i].id = transactions[i].id
             /\ transactions'[i].scheme = transactions[i].scheme
             /\ transactions[i].id # txn => transactions'[i] = transactions[i]
             /\ IsFirst(i, txn) => /\ transactions'[i].state = "complete"
                                   /\ transactions'[i].response = "captured"
  <2>1. transactions[i] \in Transaction
    BY ElementOfSeq
  <2>2. transactions'[i] = IF IsFirst(i, txn)
                           THEN [transactions[i] EXCEPT !.response = "captured",
                                                        !.state = "complete"]
                           ELSE transactions[i]
    BY <1>1 DEF Complete
  <2> QED BY <2>1, <2>2 DEF IsFirst, Transaction
<1>3. transactions' \in [1 .. Len(transactions) -> Transaction]
  BY <1>1, <1>2 DEF Complete
<1> QED BY <1>1, <1>2, <1>3 DEF Touches

(* What fail does to the sequence of records.                              *)
LEMMA FailShape ==
    ASSUME transactions \in Seq(Transaction), NEW txn \in Nat, Fail(txn)
    PROVE  /\ Touches(txn)
           /\ \A i \in 1 .. Len(transactions) :
                 IsFirst(i, txn) => transactions'[i].state = "failed"
<1>1. DOMAIN transactions = 1 .. Len(transactions) /\ Len(transactions) \in Nat
  BY LenProperties
<1>2. ASSUME NEW i \in 1 .. Len(transactions)
      PROVE  /\ transactions'[i] \in Transaction
             /\ transactions'[i].id = transactions[i].id
             /\ transactions'[i].scheme = transactions[i].scheme
             /\ transactions[i].id # txn => transactions'[i] = transactions[i]
             /\ IsFirst(i, txn) => transactions'[i].state = "failed"
  <2>1. transactions[i] \in Transaction
    BY ElementOfSeq
  <2>2. transactions'[i] = IF IsFirst(i, txn)
                           THEN [transactions[i] EXCEPT !.state = "failed"]
                           ELSE transactions[i]
    BY <1>1 DEF Fail
  <2> QED BY <2>1, <2>2 DEF IsFirst, Transaction
<1>3. transactions' \in [1 .. Len(transactions) -> Transaction]
  BY <1>1, <1>2 DEF Fail
<1> QED BY <1>1, <1>2, <1>3 DEF Touches

-----------------------------------------------------------------------------
(* Type correctness.                                                       *)

(* The state is typed at the start.                                        *)
LEMMA TypeInit == Init => TypeOK
BY CapacityAssumption, EngineAssumption, EmptySeq
   DEF Init, StoreInit, TypeOK, Tasks, NoRequest, Request, Schemes, Encodings,
       ProxyPoints, ClientPoints, Unsettled, Reply, ReplyCodes

(* begin_transaction keeps the state typed and the store bounded.          *)
LEMMA TypeBegin ==
    ASSUME TypeOK, NEW t \in Tasks, Begin(t)
    PROVE  TypeOK'
<1> USE DEF TypeOK, Goto, Tasks
<1>1. CASE Reserve(t)
  BY <1>1 DEF Reserve, NextId, ProxyPoints, ClientPoints
<1>2. CASE InsertPending(t)
  <2>1. NewTransaction(t) \in Transaction
    BY DEF NewTransaction, BytesOf, Transaction, Request
  <2>2. transactions' \in Seq(Transaction) /\ Len(transactions') <= Capacity
    BY <1>2, <2>1, InsertShape, CapacityAssumption, LenProperties DEF InsertPending, Writes, Advance
  <2> QED BY <1>2, <2>2, EngineAssumption DEF InsertPending, ProxyPoints, ClientPoints, Unsettled, Writes, Advance
<1>3. CASE Count(t)
  BY <1>3, EngineAssumption DEF Count, AfterCount, ProxyPoints, ClientPoints, Unsettled, CountBy
<1> QED BY <1>1, <1>2, <1>3 DEF Begin

(* The steps of proxy tasks keep it typed.                                 *)
LEMMA TypeProxy ==
    ASSUME TypeOK, NEW p \in Connections, ProxyStep(p)
    PROVE  TypeOK'
<1> USE EngineAssumption DEF TypeOK, Goto, Tasks, Moves, ProxyPoints, Unsettled, Advance
<1>1. CASE \/ ReadHead(p) \/ RejectHead(p) \/ Connect(p) \/ ConnectFails(p)
           \/ Intercept(p) \/ InterceptFails(p)
  <2>1. CASE ReadHead(p)
    BY <2>1 DEF ReadHead
  <2>2. CASE Intercept(p)
    BY <2>2 DEF Intercept
  <2>3. CASE RejectHead(p) \/ ConnectFails(p) \/ InterceptFails(p)
    BY <2>3 DEF RejectHead, ConnectFails, InterceptFails
  <2>4. CASE Connect(p)
    BY <2>4 DEF Connect
  <2> QED BY <1>1, <2>1, <2>2, <2>3, <2>4
<1>2. CASE Forward(p)
  <2>1. whole_body' \subseteq Nat
    BY <1>2 DEF Forward, Advance
  <2> QED BY <1>2, <2>1 DEF Forward, Advance
<1>6. CASE \/ ForwardFails(p) \/ ReadResponse(p) \/ ReadResponseFails(p)
           \/ ParseResponseFails(p) \/ Deliver(p) \/ DeliverFails(p)
  <2>1. CASE ForwardFails(p) \/ ReadResponse(p) \/ ReadResponseFails(p)
    BY <2>1 DEF ForwardFails, ReadResponse, ReadResponseFails
  <2>2. CASE ParseResponseFails(p) \/ Deliver(p) \/ DeliverFails(p)
    BY <2>2 DEF ParseResponseFails, Deliver, DeliverFails
  <2> QED BY <1>6, <2>1, <2>2
<1>3. CASE CapturePreview(p)
  <2>1. BytesOf(request[p]) \in {"zero", "some"} /\ PreviewOf(request[p]) \in {"none", "text", "opaque"}
    BY DEF BytesOf, PreviewOf
  <2>2. Touches(id[p])
    BY <1>3, <2>1, PreviewShape DEF CapturePreview, Writes, Advance
  <2> QED BY <1>3, <2>2 DEF CapturePreview, Touches, Writes, Advance
<1>4. CASE CompleteTunnel(p) \/ CompleteExchange(p)
  <2>1. Touches(id[p])
    BY <1>4, CompleteShape DEF CompleteTunnel, CompleteExchange, Writes, Advance
  <2> QED BY <1>4, <2>1 DEF CompleteTunnel, CompleteExchange, Touches, Writes, Advance
<1>5. CASE FailExchange(p)
  <2>1. Touches(id[p])
    BY <1>5, FailShape DEF FailExchange, Writes, Advance
  <2> QED BY <1>5, <2>1 DEF FailExchange, Touches, Writes, Advance
<1> QED BY <1>1, <1>2, <1>3, <1>4, <1>5, <1>6 DEF ProxyStep

(* get returns a record of the store or nothing.                           *)
LEMMA GetType ==
    ASSUME TypeOK, NEW txn \in Nat
    PROVE  Get(txn) \subseteq Transaction
BY LenProperties, ElementOfSeq DEF TypeOK, Get

(* An answer is a reply and leaves the client at a point of clients.       *)
LEMMA AnswerType ==
    ASSUME TypeOK, NEW c \in Clients, NEW code \in ReplyCodes, NEW found \in SUBSET Transaction,
           Answer(c, code, found)
    PROVE  /\ reply' \in [Clients -> Reply]
           /\ pc' \in [Tasks -> ProxyPoints \cup ClientPoints]
           /\ \A p \in Connections : pc'[p] \in ProxyPoints
           /\ \A d \in Clients : pc'[d] \in ClientPoints
<1>1. [code |-> code, transaction |-> found] \in Reply
  BY DEF Reply
<1>2. reply' \in [Clients -> Reply]
  BY <1>1 DEF Answer, TypeOK
<1> QED BY <1>2, EngineAssumption DEF Answer, Goto, TypeOK, Tasks, ClientPoints

(* The steps of a command up to its request keep the state typed.          *)
LEMMA TypeCommand ==
    ASSUME TypeOK, NEW c \in Clients, Command(c)
    PROVE  TypeOK'
<1> USE EngineAssumption DEF TypeOK, Goto, Tasks, NewCommand, ClientPoints, Answer
<1>1. ASSUME NEW txn \in 1 .. next_id, Replay(c, txn)
      PROVE  TypeOK'
  <2>1. PICK t \in Get(txn) : request' = [request EXCEPT ![c] = ReplayRequest(t)]
    BY <1>1 DEF Replay, Start, NewCommand
  <2>2. t \in Transaction
    BY GetType
  <2>3. ReplayRequest(t) \in Request
    BY <2>2 DEF ReplayRequest, Transaction, Request, Encodings
  <2> QED BY <1>1, <2>1, <2>3 DEF Replay, Start, NewCommand
<1>2. ASSUME NEW txn \in 1 .. next_id, ReplayNotFound(c, txn) \/ ReplayRefused(c, txn)
      PROVE  TypeOK'
  <2>1. PICK code \in ReplyCodes : Answer(c, code, {})
    BY <1>2 DEF ReplayNotFound, ReplayRefused, ReplyCodes, Refuse, NewCommand
  <2>2. reply' \in [Clients -> Reply] /\ pc' \in [Tasks -> ProxyPoints \cup ClientPoints]
    BY <2>1, AnswerType
  <2>3. (\A p \in Connections : pc'[p] \in ProxyPoints) /\ (\A d \in Clients : pc'[d] \in ClientPoints)
    BY <2>1, AnswerType
  <2>4. NewCommand(c, txn)
    BY <1>2 DEF ReplayNotFound, ReplayRefused, Refuse, NewCommand
  <2>5. source' \in [Clients -> Nat]
    BY <2>4
  <2>6. id' \in [Tasks -> Nat] /\ commands' \in [Clients -> 0 .. MaxCommands]
    BY <2>4
  <2> QED BY <1>2, <2>2, <2>3, <2>4, <2>5, <2>6 DEF ReplayNotFound, ReplayRefused, Refuse, NewCommand
<1>3. CASE Execute(c)
  BY <1>3 DEF Execute, Start, NewCommand
<1>4. CASE ExecuteRefused(c)
  <2>1. Answer(c, "invalid_composed_request", {})
    BY <1>4 DEF ExecuteRefused, Refuse, NewCommand
  <2>2. reply' \in [Clients -> Reply] /\ pc' \in [Tasks -> ProxyPoints \cup ClientPoints]
    BY <2>1, AnswerType DEF ReplyCodes
  <2>3. (\A p \in Connections : pc'[p] \in ProxyPoints) /\ (\A d \in Clients : pc'[d] \in ClientPoints)
    BY <2>1, AnswerType DEF ReplyCodes
  <2> QED BY <1>4, <2>2, <2>3 DEF ExecuteRefused, Refuse, NewCommand
<1> QED BY <1>1, <1>2, <1>3, <1>4 DEF Command

(* The steps of a command from there to its answer keep it typed.          *)
LEMMA TypeClient ==
    ASSUME TypeOK, NEW c \in Clients, ClientStep(c)
    PROVE  TypeOK'
<1> USE EngineAssumption DEF TypeOK, Goto, Tasks, ClientPoints, Answer
<1>1. CASE CaptureBody(c)
  <2>1. BytesOf(request[c]) \in {"zero", "some"} /\ PreviewOf(request[c]) \in {"none", "text", "opaque"}
    BY DEF BytesOf, PreviewOf
  <2>2. Touches(id[c])
    BY <1>1, <2>1, PreviewShape DEF CaptureBody, Advance
  <2> QED BY <1>1, <2>2 DEF CaptureBody, Touches, Advance
<1>2. CASE Exchange(c) \/ ExchangeFails(c)
  BY <1>2 DEF Exchange, ExchangeFails, Moves, Advance
<1>3. CASE CompleteExecution(c)
  <2>1. Touches(id[c])
    BY <1>3, CompleteShape DEF CompleteExecution, Writes, Advance
  <2> QED BY <1>3, <2>1 DEF CompleteExecution, Touches, Writes, Advance
<1>4. CASE FailExecution(c)
  <2>1. Touches(id[c])
    BY <1>4, FailShape DEF FailExecution, FailureCode, Keeps
  <2> QED BY <1>4, <2>1 DEF FailExecution, Touches, Reply, ReplyCodes, FailureCode, Keeps
<1>5. CASE ReturnResult(c)
  BY <1>5, GetType DEF ReturnResult, Reply, ReplyCodes, ResultCode, Keeps
<1> QED BY <1>1, <1>2, <1>3, <1>4, <1>5 DEF ClientStep

(* Every step keeps the state typed.                                       *)
LEMMA TypeNext == TypeOK /\ [Next]_vars => TypeOK'
<1> SUFFICES ASSUME TypeOK, [Next]_vars PROVE TypeOK'
  OBVIOUS
<1>1. CASE UNCHANGED vars \/ Quiescent
  BY <1>1 DEF vars, Quiescent, TypeOK
<1> QED BY <1>1, TypeBegin, TypeProxy, TypeCommand, TypeClient DEF Next

(* Every variable keeps its type and the store never holds more than       *)
(* Capacity records (session.rs:46-52).                                    *)
THEOREM TypeCorrect == Spec => []TypeOK
BY TypeInit, TypeNext, PTL DEF Spec

-----------------------------------------------------------------------------
(* The inductive invariant about ids.  Unique ids are not inductive alone: *)
(* what keeps them unique is that an id is fresh when it is reserved,      *)
(* belongs to one task, and is recorded once.                              *)

WithId == {"insert", "result", "dropped"} \cup Unsettled

OwnIds ==
    \A t \in Tasks : id[t] < next_id /\ (pc[t] \in WithId => id[t] # 0)

DistinctIds ==
    \A t, u \in Tasks : id[t] = id[u] /\ id[t] # 0 => t = u

HeldIds ==
    \A i \in 1 .. Len(transactions) :
        /\ transactions[i].id \in 1 .. (next_id - 1)
        /\ \A t \in Tasks : pc[t] = "insert" => id[t] # transactions[i].id

UnsettledIsPending ==
    \A t \in Tasks, i \in 1 .. Len(transactions) :
        pc[t] \in Unsettled /\ transactions[i].id = id[t] => transactions[i].state = "pending"

IdInv == OwnIds /\ DistinctIds /\ HeldIds /\ UniqueIds /\ UnsettledIsPending

(* Every step of a task other than the three of begin_transaction is of    *)
(* one of three kinds: it leaves the store alone, it records a preview, or *)
(* it settles the record of the task's own id.                             *)

Recorded == Unsettled \cup {"dropped"}

Uncountable == {"insert", "capture", "count"}

MissingCodes == {"replay_result_missing", "execution_result_missing"}

(* Only an evicted record makes a client be told that its result is missing. *)
TellsMissing(t) ==
    \A c \in Clients : reply'[c].code \in MissingCodes =>
        \/ reply[c].code \in MissingCodes
        \/ c = t /\ pc[t] = "result" /\ Get(id[t]) = {}

KeepsStore(t) ==
    /\ UNCHANGED <<next_id, transactions, captured_transactions>>
    /\ \E to \in ProxyPoints \cup ClientPoints :
          /\ Goto(t, to)
          /\ {pc[t], to} \cap Uncountable = {}
          /\ to # "result"
          /\ \/ /\ id' = id
                /\ pc[t] \in Recorded <=> to \in Recorded
                /\ to \in Unsettled => pc[t] \in Unsettled
             \/ /\ id' = [id EXCEPT ![t] = 0]
                /\ pc[t] = "idle" /\ to \in {"idle", "reserve"}
    /\ TellsMissing(t)

RecordsPreview(t) ==
    /\ UNCHANGED <<next_id, captured_transactions, id, reply>>
    /\ Touches(id[t])
    /\ \A i \in 1 .. Len(transactions) : transactions'[i].state = transactions[i].state
    /\ pc[t] \in Unsettled
    /\ \E to \in Unsettled : Goto(t, to) /\ (pc[t] \in Uncountable <=> to \in Uncountable)

SettlesRecord(t) ==
    /\ UNCHANGED <<next_id, captured_transactions, id>>
    /\ Touches(id[t])
    /\ \E outcome \in {"complete", "failed"} : \A i \in 1 .. Len(transactions) :
          IsFirst(i, id[t]) => transactions'[i].state = outcome
    /\ pc[t] \in Unsettled \ Uncountable
    /\ \E to \in {"closed", "result", "idle"} : Goto(t, to)
    /\ TellsMissing(t)

(* What each step of a proxy task does to the store.                       *)
LEMMA ProxyKinds ==
    ASSUME TypeOK, NEW p \in Connections, ProxyStep(p)
    PROVE  KeepsStore(p) \/ RecordsPreview(p) \/ SettlesRecord(p)
<1> USE EngineAssumption DEF TypeOK, Tasks
<1>1. CASE \/ ReadHead(p) \/ RejectHead(p) \/ Connect(p) \/ ConnectFails(p)
           \/ Intercept(p) \/ InterceptFails(p)
  <2>1. PICK from \in {"head", "connect", "tls"}, to \in {"connect", "tls", "reserve", "closed"} :
            Advance(p, from, to) /\ UNCHANGED transactions
    BY <1>1 DEF ReadHead, RejectHead, Connect, ConnectFails, Intercept, InterceptFails, Moves
  <2> QED BY <2>1 DEF KeepsStore, Moves, Goto, ProxyPoints, Recorded, Unsettled,
                      Uncountable, TellsMissing, Advance
<1>2. CASE \/ Forward(p) \/ ForwardFails(p) \/ ReadResponse(p) \/ ReadResponseFails(p)
           \/ ParseResponseFails(p) \/ Deliver(p) \/ DeliverFails(p)
  BY <1>2 DEF Forward, ForwardFails, ReadResponse, ReadResponseFails, ParseResponseFails,
              Deliver, DeliverFails, KeepsStore, Moves, Goto, ProxyPoints, Recorded,
              Unsettled, Uncountable, TellsMissing, Advance
<1>3. CASE CapturePreview(p)
  <2>1. BytesOf(request[p]) \in {"zero", "some"} /\ PreviewOf(request[p]) \in {"none", "text", "opaque"}
    BY DEF BytesOf, PreviewOf
  <2>2. /\ Touches(id[p])
        /\ \A i \in 1 .. Len(transactions) : transactions'[i].state = transactions[i].state
    BY <1>3, <2>1, PreviewShape DEF CapturePreview, Writes, Advance
  <2> QED BY <1>3, <2>2 DEF CapturePreview, RecordsPreview, Unsettled, Uncountable, Writes, Advance
<1>4. CASE CompleteTunnel(p) \/ CompleteExchange(p)
  <2>1. /\ Touches(id[p])
        /\ \A i \in 1 .. Len(transactions) : IsFirst(i, id[p]) => transactions'[i].state = "complete"
    BY <1>4, CompleteShape DEF CompleteTunnel, CompleteExchange, Writes, Advance
  <2> QED BY <1>4, <2>1 DEF CompleteTunnel, CompleteExchange, SettlesRecord, Unsettled,
                            Uncountable, TellsMissing, Writes, Advance
<1>5. CASE FailExchange(p)
  <2>1. /\ Touches(id[p])
        /\ \A i \in 1 .. Len(transactions) : IsFirst(i, id[p]) => transactions'[i].state = "failed"
    BY <1>5, FailShape DEF FailExchange, Writes, Advance
  <2> QED BY <1>5, <2>1 DEF FailExchange, SettlesRecord, Unsettled, Uncountable, TellsMissing, Writes, Advance
<1> QED BY <1>1, <1>2, <1>3, <1>4, <1>5 DEF ProxyStep

(* What each step of a command does to the store up to its request.        *)
LEMMA CommandKinds ==
    ASSUME TypeOK, NEW c \in Clients, Command(c)
    PROVE  KeepsStore(c)
<1> USE EngineAssumption
        DEF TypeOK, Tasks, KeepsStore, NewCommand, Goto, ClientPoints, Uncountable
<1>1. ASSUME NEW txn \in 1 .. next_id, Replay(c, txn)
      PROVE  KeepsStore(c)
  BY <1>1 DEF Replay, TellsMissing, Start, NewCommand
<1>2. ASSUME NEW txn \in 1 .. next_id, ReplayNotFound(c, txn) \/ ReplayRefused(c, txn)
      PROVE  KeepsStore(c)
  <2>1. PICK code \in ReplyCodes \ MissingCodes : Answer(c, code, {})
    BY <1>2 DEF ReplayNotFound, ReplayRefused, ReplyCodes, MissingCodes, Refuse, NewCommand
  <2>2. TellsMissing(c)
    BY <2>1 DEF TellsMissing, Answer
  <2> QED BY <1>2, <2>2 DEF ReplayNotFound, ReplayRefused, Answer, Refuse, NewCommand
<1>3. CASE Execute(c)
  BY <1>3 DEF Execute, TellsMissing, Start, NewCommand
<1>4. CASE ExecuteRefused(c)
  <2>1. TellsMissing(c)
    BY <1>4 DEF ExecuteRefused, Answer, TellsMissing, MissingCodes, Refuse, NewCommand
  <2> QED BY <1>4, <2>1 DEF ExecuteRefused, Answer, Refuse, NewCommand
<1> QED BY <1>1, <1>2, <1>3, <1>4 DEF Command

(* What each step of a command does to the store after that.               *)
LEMMA ClientKinds ==
    ASSUME TypeOK, NEW c \in Clients, ClientStep(c)
    PROVE  KeepsStore(c) \/ RecordsPreview(c) \/ SettlesRecord(c)
<1> USE EngineAssumption DEF TypeOK, Tasks
<1>1. CASE CaptureBody(c)
  <2>1. BytesOf(request[c]) \in {"zero", "some"} /\ PreviewOf(request[c]) \in {"none", "text", "opaque"}
    BY DEF BytesOf, PreviewOf
  <2>2. /\ Touches(id[c])
        /\ \A i \in 1 .. Len(transactions) : transactions'[i].state = transactions[i].state
    BY <1>1, <2>1, PreviewShape DEF CaptureBody, Advance
  <2> QED BY <1>1, <2>2 DEF CaptureBody, RecordsPreview, Unsettled, Uncountable, Advance
<1>2. CASE Exchange(c) \/ ExchangeFails(c)
  BY <1>2 DEF Exchange, ExchangeFails, KeepsStore, Moves, Goto, ClientPoints, Recorded,
              Unsettled, Uncountable, TellsMissing, Advance
<1>3. CASE CompleteExecution(c)
  <2>1. /\ Touches(id[c])
        /\ \A i \in 1 .. Len(transactions) : IsFirst(i, id[c]) => transactions'[i].state = "complete"
    BY <1>3, CompleteShape DEF CompleteExecution, Writes, Advance
  <2> QED BY <1>3, <2>1 DEF CompleteExecution, SettlesRecord, Unsettled, Uncountable, TellsMissing, Writes, Advance
<1>4. CASE FailExecution(c)
  <2>1. /\ Touches(id[c])
        /\ \A i \in 1 .. Len(transactions) : IsFirst(i, id[c]) => transactions'[i].state = "failed"
    BY <1>4, FailShape DEF FailExecution, FailureCode, Keeps
  <2>2. TellsMissing(c)
    BY <1>4 DEF FailExecution, Answer, TellsMissing, MissingCodes, FailureCode, Keeps
  <2> QED BY <1>4, <2>1, <2>2 DEF FailExecution, Answer, SettlesRecord, Unsettled, Uncountable, FailureCode, Keeps
<1>5. CASE ReturnResult(c)
  <2>1. TellsMissing(c)
    BY <1>5 DEF ReturnResult, Answer, TellsMissing, MissingCodes, ResultCode, Keeps
  <2> QED BY <1>5, <2>1 DEF ReturnResult, Answer, KeepsStore, Goto, ClientPoints, Recorded,
                            Unsettled, Uncountable, ResultCode, Keeps
<1> QED BY <1>1, <1>2, <1>3, <1>4, <1>5 DEF ClientStep

(* Every step keeps the store, reserves, inserts, previews or settles.     *)
LEMMA StepKinds ==
    ASSUME TypeOK, Next
    PROVE  \/ UNCHANGED vars
           \/ \E t \in Tasks : \/ Reserve(t) \/ InsertPending(t) \/ Count(t)
                               \/ KeepsStore(t) \/ RecordsPreview(t) \/ SettlesRecord(t)
<1>1. CASE \E t \in Tasks : Begin(t)
  BY <1>1 DEF Begin
<1>2. CASE \E p \in Connections : ProxyStep(p)
  BY <1>2, ProxyKinds DEF Tasks
<1>3. CASE \E c \in Clients : Command(c) \/ ClientStep(c)
  BY <1>3, CommandKinds, ClientKinds DEF Tasks
<1>4. CASE Quiescent
  BY <1>4 DEF Quiescent
<1> QED BY <1>1, <1>2, <1>3, <1>4 DEF Next

(* When ids are unique, the first record with an id is the only one.       *)
LEMMA FirstIsOnly ==
    ASSUME TypeOK, UniqueIds, NEW txn \in Nat, NEW i \in 1 .. Len(transactions)
    PROVE  IsFirst(i, txn) <=> transactions[i].id = txn
<1>1. DOMAIN transactions = 1 .. Len(transactions) /\ Len(transactions) \in Nat
  BY LenProperties DEF TypeOK
<1>2. ASSUME NEW j \in 1 .. (i - 1), transactions[i].id = txn
      PROVE  transactions[j].id # txn
  <2>1. j \in DOMAIN transactions /\ j # i
    BY <1>1
  <2> QED BY <1>1, <1>2, <2>1 DEF UniqueIds
<1> QED BY <1>2 DEF IsFirst

(* No id is issued at the start.                                           *)
LEMMA IdInit == Init => IdInv
BY EngineAssumption
   DEF Init, StoreInit, IdInv, OwnIds, DistinctIds, HeldIds, UniqueIds, UnsettledIsPending,
       WithId, Unsettled, Tasks

(* A reserved id is fresh.                                                 *)
LEMMA IdReserve ==
    ASSUME TypeOK, IdInv, NEW t \in Tasks, Reserve(t)
    PROVE  IdInv'
<1> USE DEF TypeOK, Reserve, NextId, Goto, IdInv, WithId, Unsettled
<1>1. OwnIds'
  BY DEF OwnIds
<1>2. DistinctIds'
  BY DEF OwnIds, DistinctIds
<1>3. HeldIds'
  BY LenProperties DEF HeldIds
<1>4. UniqueIds' /\ UnsettledIsPending'
  BY DEF UniqueIds, UnsettledIsPending
<1> QED BY <1>1, <1>2, <1>3, <1>4

(* An inserted record has the id its task reserved, and no other has.      *)
LEMMA IdInsert ==
    ASSUME TypeOK, IdInv, NEW t \in Tasks, InsertPending(t)
    PROVE  IdInv'
<1>1. NewTransaction(t) \in Transaction
  BY DEF TypeOK, NewTransaction, BytesOf, Transaction, Request
<1>2. /\ transactions' \in Seq(Transaction)
      /\ Len(transactions') \in 1 .. Capacity
      /\ transactions'[1] = NewTransaction(t)
      /\ \A i \in 1 .. Len(transactions') : i # 1 =>
            /\ i - 1 \in 1 .. Len(transactions)
            /\ transactions'[i] = transactions[i - 1]
  <2>1. /\ transactions' \in Seq(Transaction)
        /\ Len(transactions') = IF Len(transactions) < Capacity
                                THEN Len(transactions) + 1 ELSE Capacity
        /\ transactions'[1] = NewTransaction(t)
        /\ \A i \in DOMAIN transactions' : i # 1 =>
              /\ i - 1 \in DOMAIN transactions
              /\ transactions'[i] = transactions[i - 1]
    BY <1>1, InsertShape DEF TypeOK, InsertPending, Writes, Advance
  <2>2. DOMAIN transactions' = 1 .. Len(transactions') /\ DOMAIN transactions = 1 .. Len(transactions)
    BY <2>1, LenProperties DEF TypeOK
  <2>3. Len(transactions) \in Nat /\ Len(transactions) <= Capacity
    BY LenProperties DEF TypeOK
  <2> QED BY <2>1, <2>2, <2>3, CapacityAssumption
<1>3. transactions'[1].id = id[t] /\ transactions'[1].state = "pending"
  BY <1>2 DEF NewTransaction
<1>4. /\ next_id' = next_id /\ id' = id /\ pc[t] = "insert"
      /\ \E to \in {"capture", "count"} : pc' = [pc EXCEPT ![t] = to]
  BY DEF InsertPending, Goto, Writes, Advance
<1>5. OwnIds' /\ DistinctIds'
  BY <1>4 DEF TypeOK, IdInv, OwnIds, DistinctIds, WithId, Unsettled
<1>6. HeldIds'
  <2>1. id[t] \in 1 .. (next_id - 1)
    BY <1>4 DEF TypeOK, IdInv, OwnIds, WithId
  <2>2. ASSUME NEW i \in 1 .. Len(transactions')
        PROVE  /\ transactions'[i].id \in 1 .. (next_id' - 1)
               /\ \A u \in Tasks : pc'[u] = "insert" => id'[u] # transactions'[i].id
    <3>1. CASE i = 1
      BY <3>1, <2>1, <1>3, <1>4 DEF TypeOK, IdInv, DistinctIds
    <3>2. CASE i # 1
      <4>1. i - 1 \in 1 .. Len(transactions) /\ transactions'[i] = transactions[i - 1]
        BY <3>2, <1>2
      <4>2. ASSUME NEW u \in Tasks, pc'[u] = "insert"
            PROVE  pc[u] = "insert"
        BY <4>2, <1>4 DEF TypeOK
      <4> QED BY <4>1, <4>2, <1>4 DEF IdInv, HeldIds
    <3> QED BY <3>1, <3>2
  <2> QED BY <2>2 DEF HeldIds
<1>7. UniqueIds'
  <2>1. DOMAIN transactions' = 1 .. Len(transactions') /\ DOMAIN transactions = 1 .. Len(transactions)
    BY <1>2, LenProperties DEF TypeOK
  <2>2. ASSUME NEW i \in 1 .. Len(transactions'), i # 1
        PROVE  transactions'[i].id # id[t]
    BY <2>2, <1>2, <1>4 DEF IdInv, HeldIds
  <2>3. ASSUME NEW i \in 1 .. Len(transactions'), NEW j \in 1 .. Len(transactions'),
               i # 1, j # 1, transactions'[i].id = transactions'[j].id
        PROVE  i = j
    BY <2>1, <2>3, <1>2 DEF IdInv, UniqueIds
  <2> QED BY <2>1, <2>2, <2>3, <1>3 DEF UniqueIds
<1>8. UnsettledIsPending'
  <2> SUFFICES ASSUME NEW u \in Tasks, NEW i \in 1 .. Len(transactions'),
                      pc'[u] \in Unsettled, transactions'[i].id = id'[u]
               PROVE  transactions'[i].state = "pending"
    BY DEF UnsettledIsPending
  <2>1. CASE i = 1
    BY <2>1, <1>3
  <2>2. CASE i # 1
    <3>1. transactions[i - 1].id # id[t]
      BY <2>2, <1>2, <1>4 DEF IdInv, HeldIds
    <3>2. u # t /\ pc'[u] = pc[u]
      BY <2>2, <3>1, <1>2, <1>4 DEF TypeOK
    <3> QED BY <2>2, <3>2, <1>2, <1>4 DEF IdInv, UnsettledIsPending
  <2> QED BY <2>1, <2>2
<1> QED BY <1>5, <1>6, <1>7, <1>8 DEF IdInv

(* Steps that leave ids and records in place.                              *)
LEMMA IdKeeps ==
    ASSUME TypeOK, IdInv, NEW t \in Tasks, Count(t) \/ KeepsStore(t)
    PROVE  IdInv'
<1>1. CASE Count(t)
  <2>1. \E to \in Unsettled \cup {"dropped"} : pc' = [pc EXCEPT ![t] = to]
    BY <1>1 DEF Count, Goto, AfterCount, Unsettled, CountBy
  <2>2. pc[t] \in Unsettled /\ UNCHANGED <<next_id, transactions, id>>
    BY <1>1 DEF Count, Unsettled, CountBy
  <2>3. "insert" \notin Unsettled \cup {"dropped"}
    BY DEF Unsettled
  <2>4. OwnIds' /\ DistinctIds'
    BY <2>1, <2>2 DEF TypeOK, IdInv, OwnIds, DistinctIds, WithId
  <2>5. HeldIds' /\ UniqueIds'
    BY <2>1, <2>2, <2>3 DEF TypeOK, IdInv, HeldIds, UniqueIds
  <2>6. UnsettledIsPending'
    BY <2>1, <2>2 DEF TypeOK, IdInv, UnsettledIsPending
  <2> QED BY <2>4, <2>5, <2>6 DEF IdInv
<1>2. CASE KeepsStore(t)
  <2>1. UNCHANGED <<next_id, transactions>>
    BY <1>2 DEF KeepsStore
  <2>2. PICK to \in ProxyPoints \cup ClientPoints :
            /\ pc' = [pc EXCEPT ![t] = to]
            /\ {pc[t], to} \cap Uncountable = {}
            /\ to # "result"
            /\ \/ /\ id' = id
                  /\ pc[t] \in Recorded <=> to \in Recorded
                  /\ to \in Unsettled => pc[t] \in Unsettled
               \/ /\ id' = [id EXCEPT ![t] = 0]
                  /\ pc[t] = "idle" /\ to \in {"idle", "reserve"}
    BY <1>2 DEF KeepsStore, Goto
  <2>3. to # "insert"
    BY <2>2 DEF Uncountable
  <2>4. OwnIds'
    BY <2>1, <2>2, <2>3 DEF TypeOK, IdInv, OwnIds, WithId, Recorded, Unsettled
  <2>5. DistinctIds'
    <3>1. \A u \in Tasks : id'[u] = id[u] \/ id'[u] = 0
      BY <2>2 DEF TypeOK
    <3> QED BY <3>1 DEF IdInv, DistinctIds
  <2>6. HeldIds' /\ UniqueIds'
    <3>1. ASSUME NEW u \in Tasks, pc'[u] = "insert"
          PROVE  pc[u] = "insert" /\ id'[u] = id[u]
      BY <3>1, <2>2, <2>3 DEF TypeOK
    <3> QED BY <3>1, <2>1 DEF IdInv, HeldIds, UniqueIds
  <2>7. UnsettledIsPending'
    <3>1. ASSUME NEW u \in Tasks, pc'[u] \in Unsettled
          PROVE  pc[u] \in Unsettled /\ id'[u] = id[u]
      BY <3>1, <2>2 DEF TypeOK, Unsettled
    <3> QED BY <3>1, <2>1 DEF IdInv, UnsettledIsPending
  <2> QED BY <2>4, <2>5, <2>6, <2>7 DEF IdInv
<1> QED BY <1>1, <1>2

(* A step that changes one record in place keeps all ids.                  *)
LEMMA IdTouches ==
    ASSUME TypeOK, IdInv, NEW t \in Tasks, RecordsPreview(t) \/ SettlesRecord(t)
    PROVE  IdInv'
<1>1. Touches(id[t]) /\ UNCHANGED <<next_id, id>> /\ pc[t] \in Unsettled
  BY DEF RecordsPreview, SettlesRecord
<1>2. PICK to \in {"closed", "result", "idle"} \cup Unsettled : pc' = [pc EXCEPT ![t] = to]
  BY DEF RecordsPreview, SettlesRecord, Goto
<1>3. to # "insert"
  BY <1>2 DEF Unsettled
<1>4. OwnIds' /\ DistinctIds'
  BY <1>1, <1>2, <1>3 DEF TypeOK, IdInv, OwnIds, DistinctIds, WithId, Unsettled
<1>5. HeldIds'
  BY <1>1, <1>2, <1>3 DEF TypeOK, IdInv, HeldIds, Touches
<1>6. UniqueIds'
  <2>1. DOMAIN transactions' = 1 .. Len(transactions) /\ DOMAIN transactions = 1 .. Len(transactions)
    BY <1>1, LenProperties DEF TypeOK, Touches
  <2> QED BY <2>1, <1>1 DEF IdInv, UniqueIds, Touches
<1>7. UnsettledIsPending'
  <2> SUFFICES ASSUME NEW u \in Tasks, NEW i \in 1 .. Len(transactions),
                      pc'[u] \in Unsettled, transactions[i].id = id[u]
               PROVE  transactions'[i].state = "pending"
    BY <1>1 DEF UnsettledIsPending, Touches
  <2>1. CASE RecordsPreview(t)
    BY <2>1, <1>1, <1>2 DEF TypeOK, IdInv, UnsettledIsPending, RecordsPreview
  <2>2. CASE SettlesRecord(t)
    <3>1. u # t
      BY <2>2 DEF SettlesRecord, Goto, TypeOK, Unsettled
    <3>2. id[u] # id[t] /\ pc[u] \in Unsettled
      BY <3>1, <1>1, <1>2 DEF TypeOK, IdInv, DistinctIds, OwnIds, WithId
    <3> QED BY <3>2, <1>1 DEF Touches, IdInv, UnsettledIsPending
  <2> QED BY <2>1, <2>2
<1> QED BY <1>4, <1>5, <1>6, <1>7 DEF IdInv

(* Every step keeps ids distinct and owned.                                *)
LEMMA IdNext == TypeOK /\ IdInv /\ [Next]_vars => IdInv'
<1> SUFFICES ASSUME TypeOK, IdInv, [Next]_vars PROVE IdInv'
  OBVIOUS
<1>1. CASE UNCHANGED vars
  BY <1>1 DEF vars, IdInv, OwnIds, DistinctIds, HeldIds, UniqueIds, UnsettledIsPending
<1>2. CASE Next
  BY <1>1, <1>2, StepKinds, IdReserve, IdInsert, IdKeeps, IdTouches
<1> QED BY <1>1, <1>2

(* Types and ids are right in every behaviour.                             *)
LEMMA IdInvariance == Spec => [](TypeOK /\ IdInv)
BY TypeInit, TypeNext, IdInit, IdNext, PTL DEF Spec

(* No two records ever carry the same id, whatever the interleaving of     *)
(* reservations and insertions (session.rs:42-52).                         *)
THEOREM IdsAreUnique == Spec => []UniqueIds
BY IdInvariance, PTL DEF IdInv

-----------------------------------------------------------------------------
(* Settled records are final.                                              *)

FinalStep ==
    \A i \in DOMAIN transactions, j \in DOMAIN transactions' :
        /\ transactions[i].id = transactions'[j].id
        /\ transactions[i].state # "pending"
        => transactions'[j] = transactions[i]

(* No step changes a settled record: a task settles its pending one.       *)
LEMMA SettledStays == TypeOK /\ IdInv /\ [Next]_vars => FinalStep
<1> SUFFICES ASSUME TypeOK, IdInv, [Next]_vars,
                    NEW i \in DOMAIN transactions, NEW j \in DOMAIN transactions',
                    transactions[i].id = transactions'[j].id, transactions[i].state # "pending"
             PROVE  transactions'[j] = transactions[i]
  BY DEF FinalStep
<1>1. i \in 1 .. Len(transactions) /\ Len(transactions) \in Nat
  BY LenProperties DEF TypeOK
<1>2. CASE UNCHANGED transactions
  BY <1>2 DEF IdInv, UniqueIds
<1>3. ASSUME NEW t \in Tasks, InsertPending(t)
      PROVE  transactions'[j] = transactions[i]
  <2>1. NewTransaction(t) \in Transaction
    BY DEF TypeOK, NewTransaction, BytesOf, Transaction, Request
  <2>2. transactions'[1] = NewTransaction(t)
    BY <1>3, <2>1, InsertShape DEF TypeOK, InsertPending, Writes, Advance
  <2>3. j # 1 => j - 1 \in DOMAIN transactions /\ transactions'[j] = transactions[j - 1]
    BY <1>3, <2>1, InsertShape DEF TypeOK, InsertPending, Writes, Advance
  <2>4. transactions[i].id # id[t]
    BY <1>1, <1>3 DEF IdInv, HeldIds, InsertPending, Writes, Advance
  <2>5. j # 1
    BY <2>2, <2>4 DEF NewTransaction
  <2> QED BY <2>3, <2>5 DEF IdInv, UniqueIds
<1>4. ASSUME NEW t \in Tasks, Touches(id[t]), pc[t] \in Unsettled
      PROVE  transactions'[j] = transactions[i]
  <2>1. j \in 1 .. Len(transactions)
    BY <1>4, LenProperties DEF Touches
  <2>2. i = j
    BY <1>4, <1>1, <2>1, LenProperties DEF Touches, TypeOK, IdInv, UniqueIds
  <2>3. transactions[i].id # id[t]
    BY <1>1, <1>4 DEF IdInv, UnsettledIsPending
  <2> QED BY <1>1, <1>4, <2>2, <2>3 DEF Touches
<1>5. CASE UNCHANGED vars
  BY <1>2, <1>5 DEF vars
<1>6. ASSUME NEW t \in Tasks, Reserve(t) \/ Count(t) \/ KeepsStore(t)
      PROVE  transactions'[j] = transactions[i]
  BY <1>2, <1>6 DEF Reserve, Count, KeepsStore, CountBy
<1>7. ASSUME NEW t \in Tasks, RecordsPreview(t) \/ SettlesRecord(t)
      PROVE  transactions'[j] = transactions[i]
  BY <1>4, <1>7 DEF RecordsPreview, SettlesRecord
<1> QED BY <1>3, <1>5, <1>6, <1>7, StepKinds

(* A complete or failed record never changes again (session.rs:64-103).    *)
THEOREM SettledRecordsAreFinal == Spec => SettledIsFinal
<1>1. TypeOK /\ IdInv /\ [Next]_vars =>
        [ \A i \in DOMAIN transactions, j \in DOMAIN transactions' :
              /\ transactions[i].id = transactions'[j].id
              /\ transactions[i].state # "pending"
              => transactions'[j] = transactions[i] ]_vars
  BY SettledStays DEF FinalStep
<1> QED BY <1>1, IdInvariance, PTL DEF Spec, SettledIsFinal

-----------------------------------------------------------------------------
(* A pending record has an owner.                                          *)

(* Every step keeps each pending record owned or its exit explained.       *)
LEMMA ExplainedNext == TypeOK /\ IdInv /\ PendingExplained /\ [Next]_vars => PendingExplained'
<1> SUFFICES ASSUME TypeOK, IdInv, PendingExplained, [Next]_vars,
                    NEW i \in DOMAIN transactions', transactions'[i].state = "pending"
             PROVE  \E t \in Tasks : id'[t] = transactions'[i].id /\ pc'[t] \in Recorded
  BY DEF PendingExplained, Recorded
<1>1. ASSUME NEW j \in DOMAIN transactions, transactions[j].state = "pending"
      PROVE  \E t \in Tasks : id[t] = transactions[j].id /\ pc[t] \in Recorded
  BY <1>1 DEF PendingExplained, Recorded
<1>2. CASE UNCHANGED vars
  BY <1>1, <1>2 DEF vars
<1>3. ASSUME NEW u \in Tasks, Reserve(u)
      PROVE  \E t \in Tasks : id'[t] = transactions'[i].id /\ pc'[t] \in Recorded
  <2>1. PICK t \in Tasks : id[t] = transactions[i].id /\ pc[t] \in Recorded
    BY <1>1, <1>3 DEF Reserve
  <2>2. t # u
    BY <2>1, <1>3 DEF Reserve, Recorded, Unsettled
  <2> QED BY <2>1, <2>2, <1>3 DEF Reserve, Goto, TypeOK
<1>4. ASSUME NEW u \in Tasks, InsertPending(u)
      PROVE  \E t \in Tasks : id'[t] = transactions'[i].id /\ pc'[t] \in Recorded
  <2>1. NewTransaction(u) \in Transaction
    BY DEF TypeOK, NewTransaction, BytesOf, Transaction, Request
  <2>2. transactions'[1] = NewTransaction(u)
    BY <1>4, <2>1, InsertShape DEF TypeOK, InsertPending, Writes, Advance
  <2>3. pc[u] = "insert" /\ id' = id /\ (\E to \in Recorded : pc' = [pc EXCEPT ![u] = to])
    BY <1>4 DEF InsertPending, Goto, Recorded, Unsettled, Writes, Advance
  <2>4. CASE i = 1
    BY <2>2, <2>3, <2>4 DEF NewTransaction, TypeOK
  <2>5. CASE i # 1
    <3>1. i - 1 \in DOMAIN transactions /\ transactions'[i] = transactions[i - 1]
      BY <1>4, <2>1, <2>5, InsertShape DEF TypeOK, InsertPending, Writes, Advance
    <3>2. PICK t \in Tasks : id[t] = transactions[i - 1].id /\ pc[t] \in Recorded
      BY <1>1, <3>1
    <3> QED BY <2>3, <3>1, <3>2 DEF TypeOK
  <2> QED BY <2>4, <2>5
<1>5. ASSUME NEW u \in Tasks, Count(u) \/ KeepsStore(u)
      PROVE  \E t \in Tasks : id'[t] = transactions'[i].id /\ pc'[t] \in Recorded
  <2>1. PICK t \in Tasks : id[t] = transactions[i].id /\ pc[t] \in Recorded
    BY <1>1, <1>5 DEF Count, KeepsStore, CountBy
  <2>2. CASE Count(u)
    <3>1. id' = id /\ transactions' = transactions /\ (\E to \in Recorded : pc' = [pc EXCEPT ![u] = to])
      BY <2>2 DEF Count, Goto, AfterCount, Recorded, Unsettled, CountBy
    <3> QED BY <2>1, <3>1 DEF TypeOK
  <2>3. CASE KeepsStore(u)
    <3>1. PICK to \in ProxyPoints \cup ClientPoints :
              /\ pc' = [pc EXCEPT ![u] = to]
              /\ \/ id' = id /\ (pc[u] \in Recorded <=> to \in Recorded)
                 \/ id' = [id EXCEPT ![u] = 0] /\ pc[u] = "idle"
      BY <2>3 DEF KeepsStore, Goto
    <3>2. "idle" \notin Recorded
      BY DEF Recorded, Unsettled
    <3>3. transactions' = transactions
      BY <2>3 DEF KeepsStore
    <3> QED BY <2>1, <3>1, <3>2, <3>3 DEF TypeOK
  <2> QED BY <1>5, <2>2, <2>3
<1>6. ASSUME NEW u \in Tasks, RecordsPreview(u) \/ SettlesRecord(u)
      PROVE  \E t \in Tasks : id'[t] = transactions'[i].id /\ pc'[t] \in Recorded
  <2>1. Touches(id[u]) /\ id' = id
    BY <1>6 DEF RecordsPreview, SettlesRecord
  <2>2. i \in 1 .. Len(transactions) /\ i \in DOMAIN transactions
    BY <2>1, LenProperties DEF Touches, TypeOK
  <2>3. CASE RecordsPreview(u)
    <3>1. transactions[i].state = "pending"
      BY <2>2, <2>3 DEF RecordsPreview
    <3>2. PICK t \in Tasks : id[t] = transactions[i].id /\ pc[t] \in Recorded
      BY <1>1, <2>2, <3>1
    <3>3. \E to \in Recorded : pc' = [pc EXCEPT ![u] = to]
      BY <2>3 DEF RecordsPreview, Goto, Recorded
    <3> QED BY <2>1, <2>2, <3>2, <3>3 DEF Touches, TypeOK
  <2>4. CASE SettlesRecord(u)
    <3>1. transactions[i].id # id[u]
      <4>1. IsFirst(i, id[u]) => transactions'[i].state # "pending"
        BY <2>2, <2>4 DEF SettlesRecord
      <4> QED BY <4>1, <2>2, FirstIsOnly DEF TypeOK, IdInv
    <3>2. transactions'[i] = transactions[i]
      BY <2>1, <2>2, <3>1 DEF Touches
    <3>3. PICK t \in Tasks : id[t] = transactions[i].id /\ pc[t] \in Recorded
      BY <1>1, <2>2, <3>2
    <3>4. t # u /\ (\E to : pc' = [pc EXCEPT ![u] = to])
      BY <2>4, <3>1, <3>3 DEF SettlesRecord, Goto
    <3> QED BY <2>1, <3>2, <3>3, <3>4 DEF TypeOK
  <2> QED BY <1>6, <2>3, <2>4
<1> QED BY <1>2, <1>3, <1>4, <1>5, <1>6, StepKinds

(* A record stays pending only while a task works on it, or after a task   *)
(* was dropped by one of the unsettled errors (main.rs:425-483).           *)
THEOREM PendingRecordsHaveOwners == Spec => []PendingExplained
<1>1. Init => PendingExplained
  BY DEF Init, StoreInit, PendingExplained
<1> QED BY <1>1, IdInvariance, ExplainedNext, PTL DEF Spec

-----------------------------------------------------------------------------
(* Records go missing only by eviction.                                    *)

Accounted(n) ==
    \/ n \in Held
    \/ \E t \in Tasks : pc[t] = "insert" /\ id[t] = n
    \/ Len(transactions) = Capacity

(* Every step keeps each issued id held, about to be, or evicted.          *)
LEMMA MissingNext == TypeOK /\ IdInv /\ MissingOnlyByEviction /\ [Next]_vars => MissingOnlyByEviction'
<1> SUFFICES ASSUME TypeOK, IdInv, MissingOnlyByEviction, [Next]_vars
             PROVE  MissingOnlyByEviction'
  OBVIOUS
<1>1. /\ \A n \in 1 .. (next_id - 1) : Accounted(n)
      /\ \A c \in Clients : reply[c].code \in MissingCodes => Len(transactions) = Capacity
  BY DEF MissingOnlyByEviction, Accounted, MissingCodes
<1>2. SUFFICES /\ \A n \in 1 .. (next_id' - 1) : Accounted(n)'
               /\ \A c \in Clients : reply'[c].code \in MissingCodes => Len(transactions') = Capacity
  BY DEF MissingOnlyByEviction, Accounted, MissingCodes
<1>3. CASE UNCHANGED vars
  BY <1>1, <1>3 DEF vars, Accounted, Held
<1>4. ASSUME NEW t \in Tasks, Reserve(t)
      PROVE  <1>2!1
  <2>1. ASSUME NEW n \in 1 .. (next_id' - 1)
        PROVE  Accounted(n)'
    <3>1. CASE n = next_id
      BY <1>4, <3>1 DEF Reserve, Goto, TypeOK, Accounted
    <3>2. CASE n # next_id
      <4>1. n \in 1 .. (next_id - 1)
        BY <1>4, <3>2 DEF Reserve, NextId, TypeOK
      <4>2. Accounted(n)
        BY <1>1, <4>1
      <4>3. \A u \in Tasks : pc[u] = "insert" => pc'[u] = "insert" /\ id'[u] = id[u]
        BY <1>4 DEF Reserve, Goto, TypeOK
      <4> QED BY <1>4, <4>2, <4>3 DEF Reserve, Accounted, Held
    <3> QED BY <3>1, <3>2
  <2> QED BY <1>1, <1>4, <2>1 DEF Reserve
<1>5. ASSUME NEW t \in Tasks, InsertPending(t)
      PROVE  <1>2!1
  <2>1. NewTransaction(t) \in Transaction
    BY DEF TypeOK, NewTransaction, BytesOf, Transaction, Request
  <2>2. /\ transactions' \in Seq(Transaction)
        /\ Len(transactions') = IF Len(transactions) < Capacity
                                THEN Len(transactions) + 1 ELSE Capacity
        /\ transactions'[1] = NewTransaction(t)
        /\ \A i \in DOMAIN transactions' : i # 1 => transactions'[i] = transactions[i - 1]
    BY <1>5, <2>1, InsertShape DEF TypeOK, InsertPending, Writes, Advance
  <2>3. /\ DOMAIN transactions' = 1 .. Len(transactions')
        /\ DOMAIN transactions = 1 .. Len(transactions)
        /\ Len(transactions) \in Nat /\ Len(transactions) <= Capacity /\ Capacity \in Nat \ {0}
    BY <2>2, LenProperties, CapacityAssumption DEF TypeOK
  <2>4. Len(transactions) = Capacity => Len(transactions') = Capacity
    BY <2>2, <2>3
  <2>5. ASSUME NEW n \in 1 .. (next_id' - 1)
        PROVE  Accounted(n)'
    <3>1. n \in 1 .. (next_id - 1)
      BY <1>5 DEF InsertPending, Writes, Advance
    <3>2. CASE n \in Held /\ Len(transactions) < Capacity
      <4>1. PICK i \in 1 .. Len(transactions) : transactions[i].id = n
        BY <3>2, <2>3 DEF Held
      <4>2. i + 1 \in DOMAIN transactions' /\ i + 1 # 1
        BY <3>2, <2>2, <2>3
      <4>3. transactions'[i + 1].id = n
        BY <4>1, <4>2, <2>2
      <4> QED BY <4>2, <4>3 DEF Accounted, Held
    <3>3. CASE Len(transactions) = Capacity
      BY <3>3, <2>4 DEF Accounted
    <3>4. ASSUME NEW u \in Tasks, pc[u] = "insert", id[u] = n
          PROVE  Accounted(n)'
      <4>1. CASE u = t
        <5>1. transactions'[1].id = n /\ 1 \in DOMAIN transactions'
          BY <4>1, <3>4, <2>2, <2>3 DEF NewTransaction
        <5> QED BY <5>1 DEF Accounted, Held
      <4>2. CASE u # t
        BY <4>2, <3>4, <1>5 DEF InsertPending, Goto, TypeOK, Accounted, Writes, Advance
      <4> QED BY <4>1, <4>2
    <3>5. \/ n \in Held
          \/ \E u \in Tasks : pc[u] = "insert" /\ id[u] = n
          \/ Len(transactions) = Capacity
      BY <1>1, <3>1 DEF Accounted
    <3>6. Len(transactions) < Capacity \/ Len(transactions) = Capacity
      BY CapacityAssumption, LenProperties DEF TypeOK
    <3> QED BY <3>2, <3>3, <3>4, <3>5, <3>6
  <2> QED BY <1>1, <1>5, <2>4, <2>5 DEF InsertPending, Writes, Advance
<1>6. ASSUME NEW t \in Tasks, Count(t)
      PROVE  <1>2!1
  <2>1. UNCHANGED <<next_id, transactions, id, reply>> /\ pc[t] = "count"
    BY <1>6 DEF Count, CountBy
  <2>2. \A u \in Tasks : pc[u] = "insert" => pc'[u] = "insert"
    BY <1>6 DEF Count, Goto, TypeOK, CountBy
  <2> QED BY <1>1, <2>1, <2>2 DEF Accounted, Held
<1>7. ASSUME NEW t \in Tasks, KeepsStore(t)
      PROVE  <1>2!1
  <2>1. UNCHANGED <<next_id, transactions>>
    BY <1>7 DEF KeepsStore
  <2>2. \A u \in Tasks : pc[u] = "insert" => pc'[u] = "insert" /\ id'[u] = id[u]
    BY <1>7 DEF KeepsStore, Goto, TypeOK, Uncountable
  <2>3. ASSUME NEW c \in Clients, pc[c] = "result", Get(id[c]) = {}
        PROVE  Len(transactions) = Capacity
    <3>1. c \in Tasks /\ id[c] \in 1 .. (next_id - 1)
      BY <2>3 DEF Tasks, TypeOK, IdInv, OwnIds, WithId
    <3>2. id[c] \notin Held
      BY <2>3, <3>1, FirstIsOnly, LenProperties DEF Held, Get, IdInv, TypeOK
    <3>3. \A u \in Tasks : pc[u] = "insert" => id[u] # id[c]
      BY <2>3, <3>1 DEF IdInv, DistinctIds, OwnIds, WithId
    <3> QED BY <1>1, <3>1, <3>2, <3>3 DEF Accounted
  <2>4. \A c \in Clients : reply'[c].code \in MissingCodes => Len(transactions') = Capacity
    BY <1>1, <1>7, <2>1, <2>3 DEF KeepsStore, TellsMissing
  <2> QED BY <1>1, <2>1, <2>2, <2>4 DEF Accounted, Held
<1>8. ASSUME NEW t \in Tasks, RecordsPreview(t) \/ SettlesRecord(t)
      PROVE  <1>2!1
  <2>1. Touches(id[t]) /\ UNCHANGED <<next_id, id>> /\ pc[t] \in Unsettled
    BY <1>8 DEF RecordsPreview, SettlesRecord
  <2>2. Held' = Held /\ Len(transactions') = Len(transactions)
    BY <2>1, LenProperties DEF Touches, Held, TypeOK
  <2>3. \A u \in Tasks : pc[u] = "insert" => pc'[u] = "insert"
    BY <1>8, <2>1 DEF RecordsPreview, SettlesRecord, Goto, TypeOK, Unsettled
  <2>4. \A c \in Clients : reply'[c].code \in MissingCodes => reply[c].code \in MissingCodes
    BY <1>8, <2>1 DEF RecordsPreview, SettlesRecord, TellsMissing, Unsettled
  <2> QED BY <1>1, <2>1, <2>2, <2>3, <2>4 DEF Accounted
<1> QED BY <1>3, <1>4, <1>5, <1>6, <1>7, <1>8, StepKinds

(* An id no record shows was evicted from a full store or is on its way    *)
(* into it; a client is told of a missing result only when the store is    *)
(* full (session.rs:46-52, replay_runtime.rs:64, composer_runtime.rs:47).  *)
THEOREM RecordsGoMissingByEviction == Spec => []MissingOnlyByEviction
<1>1. Init => MissingOnlyByEviction
  BY DEF Init, StoreInit, MissingOnlyByEviction
<1> QED BY <1>1, IdInvariance, MissingNext, PTL DEF Spec

-----------------------------------------------------------------------------
(* The counter.                                                            *)

(* The tasks that have yet to count their record can be counted.           *)
LEMMA UncountedFinite == TypeOK => IsFiniteSet(Uncounted) /\ Cardinality(Uncounted) \in Nat
<1>1. IsFiniteSet(Tasks)
  BY EngineAssumption, FS_Union DEF Tasks
<1> QED BY <1>1, FS_Subset, FS_CardinalityType DEF Uncounted

(* Every step keeps the counter behind the ids by those tasks.             *)
LEMMA CountNext == TypeOK /\ CountTracksIds /\ [Next]_vars => CountTracksIds'
<1> SUFFICES ASSUME TypeOK, CountTracksIds, [Next]_vars PROVE CountTracksIds'
  OBVIOUS
<1>1. IsFiniteSet(Uncounted) /\ Cardinality(Uncounted) \in Nat
  BY UncountedFinite
<1>2. CASE UNCHANGED vars
  BY <1>2 DEF vars, CountTracksIds, Uncounted
<1>3. ASSUME NEW t \in Tasks, Reserve(t)
      PROVE  CountTracksIds'
  <2>1. Uncounted' = Uncounted \cup {t} /\ t \notin Uncounted
    BY <1>3 DEF Reserve, Goto, TypeOK, Uncounted
  <2>2. Cardinality(Uncounted') = Cardinality(Uncounted) + 1
    BY <1>1, <2>1, FS_AddElement
  <2> QED BY <1>1, <1>3, <2>2 DEF Reserve, NextId, CountTracksIds, TypeOK
<1>4. ASSUME NEW t \in Tasks, Count(t)
      PROVE  CountTracksIds'
  <2>1. Uncounted' = Uncounted \ {t} /\ t \in Uncounted
    BY <1>4 DEF Count, AfterCount, Goto, TypeOK, Uncounted, CountBy
  <2>2. Cardinality(Uncounted') = Cardinality(Uncounted) - 1
    BY <1>1, <2>1, FS_RemoveElement
  <2> QED BY <1>1, <1>4, <2>2 DEF Count, CountTracksIds, TypeOK, CountBy
<1>5. ASSUME NEW t \in Tasks, InsertPending(t) \/ KeepsStore(t) \/ RecordsPreview(t) \/ SettlesRecord(t)
      PROVE  CountTracksIds'
  <2>1. UNCHANGED <<next_id, captured_transactions>>
    BY <1>5 DEF InsertPending, KeepsStore, RecordsPreview, SettlesRecord, Writes, Advance
  <2>2. \E to : Goto(t, to) /\ (pc[t] \in Uncountable <=> to \in Uncountable)
    BY <1>5 DEF InsertPending, KeepsStore, RecordsPreview, SettlesRecord, Uncountable, Writes, Advance
  <2>3. Uncounted' = Uncounted
    BY <2>2 DEF Goto, TypeOK, Uncounted, Uncountable
  <2> QED BY <2>1, <2>3 DEF CountTracksIds
<1> QED BY <1>2, <1>3, <1>4, <1>5, StepKinds

(* The capture counter lags the reserved ids by exactly the tasks inside   *)
(* begin_transaction (main.rs:507-537, request_runtime.rs:136-173).        *)
THEOREM CounterTracksIds == Spec => []CountTracksIds
<1>1. Init => CountTracksIds
  <2> SUFFICES ASSUME Init PROVE CountTracksIds
    OBVIOUS
  <2>1. Uncounted = {}
    BY DEF Init, Uncounted, Tasks
  <2> QED BY <2>1, FS_EmptySet DEF Init, StoreInit, CountTracksIds
<1> QED BY <1>1, TypeInit, TypeNext, CountNext, PTL DEF Spec

-----------------------------------------------------------------------------
(* Refinement: the store with its tasks implements CaptureLog.             *)

Projection(i) == [id |-> transactions[i].id, state |-> transactions[i].state]

MappedLog == [i \in DOMAIN transactions |-> Projection(i)]

MappedReserved == {id[t] : t \in {u \in Tasks : pc[u] = "insert"}}

(* The first state maps to the first state of the log.                     *)
LEMMA RefinesInit == Init => Log!Init
BY DEF Init, StoreInit, Log!Init, Tasks

(* The ids and states of the records form a sequence.                      *)
LEMMA MappedSeq ==
    ASSUME TypeOK
    PROVE  DOMAIN MappedLog = 1 .. Len(transactions) /\ Len(MappedLog) = Len(transactions)
BY LenProperties DEF TypeOK, MappedLog

(* Every step maps to a step of the log or to none.                        *)
LEMMA RefinesNext == TypeOK /\ IdInv /\ [Next]_vars => [Log!Next]_Log!vars
<1> SUFFICES ASSUME TypeOK, IdInv, [Next]_vars
             PROVE  \/ Log!Next
                    \/ UNCHANGED <<next_id - 1, MappedReserved, MappedLog>>
  BY DEF Log!vars, MappedReserved, MappedLog, Projection
<1>1. DOMAIN transactions = 1 .. Len(transactions) /\ Len(transactions) \in Nat
  BY LenProperties DEF TypeOK
<1>2. CASE UNCHANGED vars
  BY <1>2 DEF vars, MappedReserved, MappedLog, Projection
<1>3. ASSUME NEW t \in Tasks, Reserve(t)
      PROVE  Log!Next
  <2>1. MappedReserved' = MappedReserved \cup {next_id}
    BY <1>3 DEF Reserve, Goto, TypeOK, MappedReserved
  <2>2. next_id' - 1 = (next_id - 1) + 1 /\ (next_id - 1) + 1 = next_id
    BY <1>3 DEF Reserve, NextId, TypeOK
  <2>3. MappedLog' = MappedLog
    BY <1>3 DEF Reserve, MappedLog, Projection
  <2>4. Log!Issue
    BY <2>1, <2>2, <2>3 DEF Log!Issue, MappedReserved, MappedLog, Projection
  <2> QED BY <2>4 DEF Log!Next
<1>4. ASSUME NEW t \in Tasks, InsertPending(t)
      PROVE  Log!Next
  <2>1. NewTransaction(t) \in Transaction
    BY DEF TypeOK, NewTransaction, BytesOf, Transaction, Request
  <2>2. /\ transactions' \in Seq(Transaction)
        /\ Len(transactions') = IF Len(transactions) < Capacity
                                THEN Len(transactions) + 1 ELSE Capacity
        /\ transactions'[1] = NewTransaction(t)
        /\ \A i \in DOMAIN transactions' : i # 1 =>
              /\ i - 1 \in DOMAIN transactions
              /\ transactions'[i] = transactions[i - 1]
    BY <1>4, <2>1, InsertShape DEF TypeOK, InsertPending, Writes, Advance
  <2>3. id[t] \in MappedReserved /\ MappedReserved' = MappedReserved \ {id[t]}
    <3>1. pc[t] = "insert" /\ id' = id /\ (\E to \in {"capture", "count"} : pc' = [pc EXCEPT ![t] = to])
      BY <1>4 DEF InsertPending, Goto, Writes, Advance
    <3>2. \A u \in Tasks : id[u] = id[t] => u = t
      BY <3>1 DEF IdInv, OwnIds, DistinctIds, WithId
    <3> QED BY <3>1, <3>2 DEF MappedReserved, TypeOK
  <2>4. MappedLog' = [i \in 1 .. (IF Len(MappedLog) < Capacity THEN Len(MappedLog) + 1 ELSE Capacity) |->
                          IF i = 1 THEN [id |-> id[t], state |-> "pending"] ELSE MappedLog[i - 1]]
    <3>1. DOMAIN transactions' = 1 .. (IF Len(MappedLog) < Capacity THEN Len(MappedLog) + 1 ELSE Capacity)
      BY <2>2, MappedSeq, LenProperties
    <3>2. ASSUME NEW i \in DOMAIN transactions'
          PROVE  Projection(i)' = IF i = 1 THEN [id |-> id[t], state |-> "pending"] ELSE MappedLog[i - 1]
      <4>1. CASE i = 1
        BY <2>2, <4>1 DEF Projection, NewTransaction
      <4>2. CASE i # 1
        BY <2>2, <3>2, <4>2 DEF Projection, MappedLog
      <4> QED BY <4>1, <4>2
    <3> QED BY <3>1, <3>2 DEF MappedLog
  <2>5. next_id' - 1 = next_id - 1
    BY <1>4 DEF InsertPending, Writes, Advance
  <2>6. Log!Record
    BY <2>3, <2>4, <2>5 DEF Log!Record, MappedReserved, MappedLog, Projection
  <2> QED BY <2>6 DEF Log!Next
<1>5. ASSUME NEW t \in Tasks, Count(t) \/ KeepsStore(t)
      PROVE  UNCHANGED <<next_id - 1, MappedReserved, MappedLog>>
  <2>1. UNCHANGED <<next_id, transactions>>
    BY <1>5 DEF Count, KeepsStore, CountBy
  <2>2. \A u \in Tasks : /\ pc'[u] = "insert" <=> pc[u] = "insert"
                         /\ pc[u] = "insert" => id'[u] = id[u]
    <3>1. CASE Count(t)
      BY <3>1 DEF Count, AfterCount, Goto, TypeOK, CountBy
    <3>2. CASE KeepsStore(t)
      BY <3>2 DEF KeepsStore, Goto, TypeOK, Uncountable
    <3> QED BY <1>5, <3>1, <3>2
  <2> QED BY <2>1, <2>2 DEF MappedReserved, MappedLog, Projection
<1>6. ASSUME NEW t \in Tasks, RecordsPreview(t) \/ SettlesRecord(t)
      PROVE  \/ Log!Next
             \/ UNCHANGED <<next_id - 1, MappedReserved, MappedLog>>
  <2>1. Touches(id[t]) /\ UNCHANGED <<next_id, id>> /\ pc[t] \in Unsettled
    BY <1>6 DEF RecordsPreview, SettlesRecord
  <2>2. PICK to \in {"closed", "result", "idle"} \cup Unsettled : pc' = [pc EXCEPT ![t] = to]
    BY <1>6 DEF RecordsPreview, SettlesRecord, Goto
  <2>3. MappedReserved' = MappedReserved
    BY <2>1, <2>2 DEF MappedReserved, TypeOK, Unsettled
  <2>4. DOMAIN transactions' = DOMAIN transactions
    BY <1>1, <2>1, LenProperties DEF Touches
  <2>5. CASE \A i \in DOMAIN transactions : transactions'[i].state = transactions[i].state
    <3>1. MappedLog' = MappedLog
      BY <1>1, <2>1, <2>4, <2>5 DEF Touches, MappedLog, Projection
    <3> QED BY <2>1, <2>3, <3>1
  <2>6. ASSUME NEW i \in DOMAIN transactions, transactions'[i].state # transactions[i].state
        PROVE  Log!Next
    <3>1. SettlesRecord(t)
      BY <1>1, <1>6, <2>6 DEF RecordsPreview
    <3>2. transactions[i].id = id[t]
      BY <1>1, <2>1, <2>6 DEF Touches
    <3>3. transactions[i].state = "pending"
      BY <1>1, <2>1, <3>2 DEF IdInv, UnsettledIsPending
    <3>4. IsFirst(i, id[t])
      BY <1>1, <3>2, FirstIsOnly DEF TypeOK, IdInv
    <3>5. PICK outcome \in {"complete", "failed"} : transactions'[i].state = outcome
      BY <1>1, <3>1, <3>4 DEF SettlesRecord
    <3>6. \A j \in DOMAIN transactions : j # i => transactions'[j] = transactions[j]
      BY <1>1, <2>1, <3>2 DEF Touches, IdInv, UniqueIds
    <3>7. MappedLog' = [MappedLog EXCEPT ![i].state = outcome]
      <4>1. Projection(i)' = [Projection(i) EXCEPT !.state = outcome]
        BY <1>1, <2>1, <3>5 DEF Touches, Projection
      <4>2. \A j \in DOMAIN transactions : j # i => Projection(j)' = Projection(j)
        BY <3>6 DEF Projection
      <4> QED BY <2>4, <2>6, <4>1, <4>2 DEF MappedLog
    <3>8. MappedLog[i].state = "pending" /\ i \in DOMAIN MappedLog
      BY <2>6, <3>3 DEF MappedLog, Projection
    <3>9. Log!Settle
      BY <2>1, <2>3, <3>7, <3>8 DEF Log!Settle, MappedReserved, MappedLog, Projection
    <3> QED BY <3>9 DEF Log!Next
  <2> QED BY <2>5, <2>6
<1> QED BY <1>2, <1>3, <1>4, <1>5, <1>6, StepKinds

(* The engine implements the abstract capture log: every step of a task    *)
(* issues an id, records it, settles a pending record, or leaves the log   *)
(* as it is.                                                               *)
THEOREM EngineImplementsCaptureLog == Spec => ImplementsCaptureLog
BY RefinesInit, RefinesNext, IdInvariance, PTL DEF Spec, ImplementsCaptureLog, Log!Spec

-----------------------------------------------------------------------------
(* What a command answers with, and what a replay sends.                   *)

(* A step of one task.                                                     *)
Step(t) ==
    \/ Begin(t)
    \/ t \in Connections /\ ProxyStep(t)
    \/ t \in Clients /\ (Command(t) \/ ClientStep(t))

LEMMA NextIsStep == Next => UNCHANGED vars \/ \E t \in Tasks : Step(t)
BY DEF Next, Step, Tasks, Quiescent

(* No task changes what belongs to another one, and bodies that the daemon *)
(* had in hand stay known.                                                 *)
LEMMA OthersKeep ==
    ASSUME TypeOK, NEW t \in Tasks, Step(t)
    PROVE  /\ whole_body \subseteq whole_body'
           /\ \A u \in Tasks \ {t} :
                 /\ pc'[u] = pc[u] /\ id'[u] = id[u] /\ request'[u] = request[u]
           /\ \A c \in Clients \ {t} : source'[c] = source[c] /\ reply'[c] = reply[c]
<1> USE DEF TypeOK, Goto
<1>1. CASE Begin(t)
  BY <1>1 DEF Begin, Reserve, InsertPending, Count, CountBy, Writes, Advance
<1>2. CASE t \in Connections /\ ProxyStep(t)
  <2>1. CASE Forward(t)
    BY <2>1 DEF Forward, Advance
  <2>2. CASE ReadHead(t) \/ Intercept(t)
    BY <2>2 DEF ReadHead, Intercept, Advance
  <2>3. CASE ~(Forward(t) \/ ReadHead(t) \/ Intercept(t))
    <3>1. PICK from \in ProxyPoints, to \in ProxyPoints :
              Advance(t, from, to) /\ UNCHANGED <<request, whole_body>>
      BY <1>2, <2>3
      DEF ProxyStep, RejectHead, Connect, ConnectFails, InterceptFails, CompleteTunnel,
          ForwardFails, CapturePreview, ReadResponse, ReadResponseFails, ParseResponseFails,
          Deliver, DeliverFails, CompleteExchange, FailExchange, Moves, Writes, ProxyPoints,
          Unsettled
    <3> QED BY <3>1 DEF Advance
  <2> QED BY <2>1, <2>2, <2>3
<1>3. CASE t \in Clients /\ Command(t)
  BY <1>3 DEF Command, Replay, ReplayNotFound, ReplayRefused, Execute, ExecuteRefused,
              NewCommand, Start, Refuse, Answer
<1>4. CASE t \in Clients /\ ClientStep(t)
  BY <1>4 DEF ClientStep, CaptureBody, Exchange, ExchangeFails, CompleteExecution,
              FailExecution, ReturnResult, Moves, Writes, Advance, Answer, Keeps
<1> QED BY <1>1, <1>2, <1>3, <1>4 DEF Step

(* A client that is at work on a record, or about to return it, has the    *)
(* request and the id it began with; it gets to its result only by         *)
(* completing its record.                                                  *)
Working == Unsettled \cup {"result"}

LEMMA ClientsAtWork ==
    ASSUME TypeOK, NEW t \in Tasks, Step(t), NEW c \in Clients, pc'[c] \in Working
    PROVE  /\ request'[c] = request[c] /\ id'[c] = id[c]
           /\ pc[c] \in Working \/ (t = c /\ InsertPending(c))
           /\ pc'[c] = "result" => \/ t # c /\ pc[c] = "result"
                                   \/ t = c /\ CompleteExecution(c)
<1> USE DEF TypeOK, Goto
<1>1. CASE t # c
  BY <1>1, OthersKeep DEF Tasks
<1>2. CASE t = c /\ Begin(c)
  BY <1>2 DEF Begin, Reserve, InsertPending, Count, CountBy, Writes, Advance, Working, Unsettled,
              AfterCount
<1>3. CASE t = c /\ Command(c)
  <2>1. pc'[c] \in {"idle", "reserve"}
    BY <1>3, EngineAssumption
    DEF Command, Replay, ReplayNotFound, ReplayRefused, Execute, ExecuteRefused, Start, Refuse,
        Answer, Tasks
  <2> QED BY <2>1 DEF Working, Unsettled
<1>4. CASE t = c /\ ClientStep(c)
  BY <1>4, EngineAssumption
  DEF ClientStep, CaptureBody, Exchange, ExchangeFails, CompleteExecution, FailExecution,
      ReturnResult, Moves, Writes, Advance, Answer, Keeps, Working, Unsettled, Tasks
<1>5. t = c => ~(t \in Connections)
  BY EngineAssumption
<1> QED BY <1>1, <1>2, <1>3, <1>4, <1>5 DEF Step

(* The record of a client's own id is that of its request, and settled     *)
(* with a response when the client is about to return it.                  *)
OwnRecord ==
    \A c \in Clients, i \in 1 .. Len(transactions) :
        pc[c] \in Working /\ transactions[i].id = id[c] =>
            /\ transactions[i].scheme = request[c].scheme
            /\ pc[c] = "result" => /\ transactions[i].state = "complete"
                                   /\ transactions[i].response = "captured"

(* An insertion moves it back, and only its own task touches it.           *)
LEMMA OwnRecordNext ==
    ASSUME TypeOK, IdInv, OwnRecord, NEW t \in Tasks, Step(t)
    PROVE  OwnRecord'
<1> SUFFICES ASSUME NEW c \in Clients, NEW i \in 1 .. Len(transactions'),
                    pc'[c] \in Working, transactions'[i].id = id'[c]
             PROVE  /\ transactions'[i].scheme = request'[c].scheme
                    /\ pc'[c] = "result" => /\ transactions'[i].state = "complete"
                                            /\ transactions'[i].response = "captured"
  BY DEF OwnRecord
<1>1. /\ request'[c] = request[c] /\ id'[c] = id[c]
      /\ pc[c] \in Working \/ (t = c /\ InsertPending(c))
      /\ pc'[c] = "result" => \/ t # c /\ pc[c] = "result"
                              \/ t = c /\ CompleteExecution(c)
  BY ClientsAtWork
<1>2. c \in Tasks /\ Len(transactions) \in Nat
  BY LenProperties DEF Tasks, TypeOK
<1>3. id[c] # 0 /\ \A u \in Tasks : id[u] = id[c] => u = c
  BY <1>1, <1>2 DEF IdInv, OwnIds, DistinctIds, WithId, Working, InsertPending, Writes, Advance
<1>4. ASSUME pc[c] \in Working, NEW j \in 1 .. Len(transactions), transactions[j].id = id[c]
      PROVE  /\ transactions[j].scheme = request[c].scheme
             /\ pc[c] = "result" => /\ transactions[j].state = "complete"
                                    /\ transactions[j].response = "captured"
  BY <1>4 DEF OwnRecord
<1>5. CASE InsertPending(t)
  <2>1. NewTransaction(t) \in Transaction
    BY DEF TypeOK, NewTransaction, BytesOf, Transaction, Request
  <2>2. /\ transactions'[1] = NewTransaction(t)
        /\ i # 1 => i - 1 \in 1 .. Len(transactions) /\ transactions'[i] = transactions[i - 1]
    <3>1. transactions' \in Seq(Transaction)
      BY <1>5, <2>1, InsertShape DEF TypeOK, InsertPending, Writes, Advance
    <3>2. DOMAIN transactions' = 1 .. Len(transactions') /\ DOMAIN transactions = 1 .. Len(transactions)
      BY <3>1, LenProperties DEF TypeOK
    <3> QED BY <1>5, <2>1, <3>2, InsertShape DEF TypeOK, InsertPending, Writes, Advance
  <2>3. pc[t] = "insert" /\ pc'[t] # "result"
    BY <1>5, <1>2 DEF InsertPending, Writes, Advance, Goto, TypeOK
  <2>4. CASE i = 1
    <3>1. transactions'[i].id = id[t] /\ transactions'[i].scheme = request[t].scheme
      BY <2>2, <2>4 DEF NewTransaction
    <3>2. t = c
      BY <1>1, <1>3, <3>1
    <3> QED BY <1>1, <2>3, <3>1, <3>2
  <2>5. CASE i # 1
    <3>1. i - 1 \in 1 .. Len(transactions) /\ transactions[i - 1].id = id[c]
      BY <1>1, <2>2, <2>5
    <3>2. t # c
      BY <1>3, <2>3, <3>1 DEF IdInv, HeldIds
    <3> QED BY <1>1, <1>4, <2>2, <2>5, <3>1, <3>2
  <2> QED BY <2>4, <2>5
<1>6. CASE Touches(id[t]) /\ ~InsertPending(t)
  <2>1. /\ i \in 1 .. Len(transactions) /\ transactions[i].id = id[c] /\ pc[c] \in Working
        /\ transactions'[i].scheme = transactions[i].scheme
    BY <1>1, <1>6 DEF Touches
  <2>2. CASE t = c
    <3>1. transactions'[i].scheme = request'[c].scheme
      BY <1>1, <1>4, <2>1
    <3>2. ASSUME pc'[c] = "result"
          PROVE  transactions'[i].state = "complete" /\ transactions'[i].response = "captured"
      <4>1. CompleteExecution(c)
        BY <1>1, <2>2, <3>2
      <4>2. id[c] \in Nat /\ transactions \in Seq(Transaction) /\ UniqueIds
        BY <1>2 DEF TypeOK, IdInv
      <4>3. IsFirst(i, id[c])
        BY <2>1, <4>2, FirstIsOnly
      <4> QED BY <2>1, <4>1, <4>2, <4>3, CompleteShape DEF CompleteExecution, Writes, Advance
    <3> QED BY <3>1, <3>2
  <2>3. CASE t # c
    <3>1. transactions'[i] = transactions[i]
      BY <1>3, <1>6, <2>1, <2>3 DEF Touches
    <3> QED BY <1>1, <1>4, <2>1, <2>3, <3>1
  <2> QED BY <2>2, <2>3
<1>7. InsertPending(t) \/ Touches(id[t])
  <2>1. UNCHANGED transactions => Touches(id[t])
    BY DEF Touches, TypeOK
  <2>2. CASE Begin(t)
    BY <2>1, <2>2 DEF Begin, Reserve, Count, CountBy
  <2>3. CASE t \in Connections /\ ProxyStep(t)
    BY <2>1, <2>3, ProxyKinds DEF KeepsStore, RecordsPreview, SettlesRecord
  <2>4. CASE t \in Clients /\ (Command(t) \/ ClientStep(t))
    BY <2>1, <2>4, CommandKinds, ClientKinds DEF KeepsStore, RecordsPreview, SettlesRecord
  <2> QED BY <2>2, <2>3, <2>4 DEF Step
<1> QED BY <1>5, <1>6, <1>7

(* A client that has been answered keeps its answer until its next         *)
(* command; a result is the one record of its own id.                      *)
LEMMA ResultNext ==
    ASSUME TypeOK, IdInv, OwnRecord, ResultIsOwnAndComplete, NEW t \in Tasks, Step(t)
    PROVE  ResultIsOwnAndComplete'
<1> SUFFICES ASSUME NEW c \in Clients, pc'[c] = "idle",
                    reply'[c].code \in {"replay_result", "execution_result"}
             PROVE  \E r \in reply'[c].transaction :
                       /\ reply'[c].transaction = {r}
                       /\ r.id = id'[c] /\ r.scheme = request'[c].scheme
                       /\ r.state = "complete" /\ r.response = "captured"
  BY DEF ResultIsOwnAndComplete
<1>1. CASE t # c
  <2>1. /\ pc'[c] = pc[c] /\ id'[c] = id[c] /\ request'[c] = request[c] /\ reply'[c] = reply[c]
    BY <1>1, OthersKeep DEF Tasks
  <2> QED BY <2>1 DEF ResultIsOwnAndComplete
<1>2. CASE t = c /\ ReturnResult(c)
  <2> DEFINE found == Get(id[c])
  <2>1. /\ pc[c] = "result" /\ reply'[c] = [code |-> ResultCode(c, found), transaction |-> found]
        /\ id' = id /\ request' = request
    BY <1>2 DEF ReturnResult, Answer, Keeps, TypeOK
  <2>2. found # {}
    BY <2>1 DEF ResultCode
  <2>3. DOMAIN transactions = 1 .. Len(transactions) /\ id[c] \in Nat
    BY LenProperties DEF TypeOK, Tasks
  <2>4. PICK i \in 1 .. Len(transactions) : IsFirst(i, id[c])
    BY <2>2, <2>3 DEF Get
  <2>5. \A j \in 1 .. Len(transactions) : IsFirst(j, id[c]) => j = i
    BY <2>3, <2>4, FirstIsOnly DEF IdInv, UniqueIds
  <2>6. found = {transactions[i]}
    BY <2>3, <2>4, <2>5 DEF Get
  <2>7. /\ transactions[i].id = id[c] /\ transactions[i].scheme = request[c].scheme
        /\ transactions[i].state = "complete" /\ transactions[i].response = "captured"
    BY <2>1, <2>4 DEF IsFirst, OwnRecord, Working
  <2> QED BY <2>1, <2>6, <2>7
<1>3. CASE t = c /\ ~ReturnResult(c)
  <2>1. pc'[c] # "idle" \/ reply'[c].code \notin {"replay_result", "execution_result"}
    <3> USE DEF TypeOK, Goto
    <3>1. CASE Begin(c)
      BY <3>1, <1>3 DEF Begin, Reserve, InsertPending, Count, CountBy, Writes, Advance, Tasks
    <3>2. CASE ClientStep(c)
      BY <3>2, <1>3
      DEF ClientStep, CaptureBody, Exchange, ExchangeFails, CompleteExecution, FailExecution,
          FailureCode, Moves, Writes, Advance, Answer, Tasks
    <3>3. CASE Command(c)
      BY <3>3
      DEF Command, Replay, ReplayNotFound, ReplayRefused, Execute, ExecuteRefused, Start, Refuse,
          Answer, Tasks
    <3> QED BY <1>3, <3>1, <3>2, <3>3, EngineAssumption DEF Step
  <2> QED BY <2>1
<1> QED BY <1>1, <1>2, <1>3

ResultInv == OwnRecord /\ ResultIsOwnAndComplete

LEMMA ResultInvNext == TypeOK /\ IdInv /\ ResultInv /\ [Next]_vars => ResultInv'
<1> SUFFICES ASSUME TypeOK, IdInv, ResultInv, [Next]_vars PROVE ResultInv'
  OBVIOUS
<1>1. CASE UNCHANGED vars
  BY <1>1 DEF vars, ResultInv, OwnRecord, ResultIsOwnAndComplete
<1>2. CASE \E t \in Tasks : Step(t)
  BY <1>2, OwnRecordNext, ResultNext DEF ResultInv
<1> QED BY <1>1, <1>2, NextIsStep

(* Whatever other tasks do to the store meanwhile, a result carries the    *)
(* transaction that this very command created, complete and with its       *)
(* response (replay_runtime.rs:53, composer_runtime.rs).                   *)
THEOREM ResultsAreOwn == Spec => []ResultIsOwnAndComplete
<1>1. Init => ResultInv
  BY EngineAssumption
  DEF Init, StoreInit, ResultInv, OwnRecord, ResultIsOwnAndComplete, Working, Unsettled, Tasks
<1> QED BY <1>1, ResultInvNext, IdInvariance, PTL DEF Spec, ResultInv

(* A preview says "text" only of a body that was in hand from end to end,  *)
(* and a proxy task records one only after it has forwarded the body.      *)
TextWasWhole ==
    \A i \in 1 .. Len(transactions) :
        transactions[i].request_body_preview = "text" => transactions[i].id \in whole_body

ForwardedWasWhole ==
    \A p \in Connections : pc[p] = "preview" => id[p] \in whole_body

WholeInv == TextWasWhole /\ ForwardedWasWhole /\ ReplayedBodyWasWhole

(* complete and fail leave the preview of a record alone.                  *)
LEMMA SettlingKeepsPreviews ==
    ASSUME transactions \in Seq(Transaction), NEW txn \in Nat, Complete(txn) \/ Fail(txn),
           NEW i \in 1 .. Len(transactions)
    PROVE  transactions'[i].request_body_preview = transactions[i].request_body_preview
<1>1. DOMAIN transactions = 1 .. Len(transactions) /\ transactions[i] \in Transaction
  BY LenProperties, ElementOfSeq
<1>2. CASE Complete(txn)
  <2>1. transactions'[i] = IF IsFirst(i, txn)
                           THEN [transactions[i] EXCEPT !.response = "captured", !.state = "complete"]
                           ELSE transactions[i]
    BY <1>1, <1>2 DEF Complete
  <2> QED BY <1>1, <2>1 DEF Transaction
<1>3. CASE Fail(txn)
  <2>1. transactions'[i] = IF IsFirst(i, txn)
                           THEN [transactions[i] EXCEPT !.state = "failed"]
                           ELSE transactions[i]
    BY <1>1, <1>3 DEF Fail
  <2> QED BY <1>1, <2>1 DEF Transaction
<1> QED BY <1>2, <1>3

(* Where a step may write a record.                                        *)
LEMMA StepWrites ==
    ASSUME TypeOK, NEW t \in Tasks, Step(t)
    PROVE  \/ UNCHANGED transactions
           \/ InsertPending(t)
           \/ Complete(id[t]) \/ Fail(id[t])
           \/ t \in Connections /\ CapturePreview(t)
           \/ t \in Clients /\ CaptureBody(t)
<1>1. CASE Begin(t)
  BY <1>1 DEF Begin, Reserve, Count, CountBy
<1>2. CASE t \in Connections /\ ProxyStep(t)
  BY <1>2
  DEF ProxyStep, ReadHead, RejectHead, Connect, ConnectFails, Intercept, InterceptFails,
      CompleteTunnel, Forward, ForwardFails, ReadResponse, ReadResponseFails, ParseResponseFails,
      Deliver, DeliverFails, CompleteExchange, FailExchange, Moves
<1>3. CASE t \in Clients /\ Command(t)
  BY <1>3
  DEF Command, Replay, ReplayNotFound, ReplayRefused, Execute, ExecuteRefused, NewCommand
<1>4. CASE t \in Clients /\ ClientStep(t)
  BY <1>4
  DEF ClientStep, Exchange, ExchangeFails, CompleteExecution, FailExecution, ReturnResult, Moves
<1> QED BY <1>1, <1>2, <1>3, <1>4 DEF Step

LEMMA TextNext ==
    ASSUME TypeOK, TextWasWhole, ForwardedWasWhole, NEW t \in Tasks, Step(t)
    PROVE  TextWasWhole'
<1> SUFFICES ASSUME NEW i \in 1 .. Len(transactions'),
                    transactions'[i].request_body_preview = "text"
             PROVE  transactions'[i].id \in whole_body'
  BY DEF TextWasWhole
<1>1. whole_body \subseteq whole_body'
  BY OthersKeep
<1>2. ASSUME NEW j \in 1 .. Len(transactions), transactions[j].request_body_preview = "text",
             transactions[j].id = transactions'[i].id
      PROVE  transactions'[i].id \in whole_body'
  BY <1>1, <1>2 DEF TextWasWhole
<1>3. id[t] \in Nat /\ transactions \in Seq(Transaction) /\ Len(transactions) \in Nat
  BY LenProperties DEF TypeOK
<1>4. CASE UNCHANGED transactions
  BY <1>2, <1>4
<1>5. CASE InsertPending(t)
  <2>1. NewTransaction(t) \in Transaction
    BY DEF TypeOK, NewTransaction, BytesOf, Transaction, Request
  <2>2. /\ transactions'[1] = NewTransaction(t)
        /\ i # 1 => i - 1 \in 1 .. Len(transactions) /\ transactions'[i] = transactions[i - 1]
    <3>1. transactions' \in Seq(Transaction)
      BY <1>5, <2>1, InsertShape DEF TypeOK, InsertPending, Writes, Advance
    <3>2. DOMAIN transactions' = 1 .. Len(transactions') /\ DOMAIN transactions = 1 .. Len(transactions)
      BY <3>1, LenProperties DEF TypeOK
    <3> QED BY <1>5, <2>1, <3>2, InsertShape DEF TypeOK, InsertPending, Writes, Advance
  <2>3. i # 1
    BY <2>2 DEF NewTransaction
  <2> QED BY <1>2, <2>2, <2>3
<1>6. CASE Complete(id[t]) \/ Fail(id[t])
  <2>1. Touches(id[t])
    BY <1>3, <1>6, CompleteShape, FailShape
  <2>2. i \in 1 .. Len(transactions) /\ transactions'[i].id = transactions[i].id
    BY <2>1 DEF Touches
  <2>3. transactions[i].request_body_preview = "text"
    BY <1>3, <1>6, <2>2, SettlingKeepsPreviews
  <2> QED BY <1>2, <2>2, <2>3
<1>7. CASE \/ t \in Connections /\ CapturePreview(t)
           \/ t \in Clients /\ CaptureBody(t)
  <2>1. SetRequestPreview(id[t], BytesOf(request[t]), PreviewOf(request[t]))
    BY <1>7 DEF CapturePreview, CaptureBody
  <2>2. id[t] \in whole_body'
    BY <1>1, <1>7 DEF CapturePreview, CaptureBody, Writes, Advance, ForwardedWasWhole
  <2>3. BytesOf(request[t]) \in {"zero", "some"} /\ PreviewOf(request[t]) \in {"none", "text", "opaque"}
    BY DEF BytesOf, PreviewOf
  <2>4. Touches(id[t])
    BY <1>3, <2>1, <2>3, PreviewShape
  <2>5. CASE transactions[i].id = id[t]
    BY <2>2, <2>4, <2>5 DEF Touches
  <2>6. CASE transactions[i].id # id[t]
    BY <1>2, <2>4, <2>6 DEF Touches
  <2> QED BY <2>5, <2>6
<1> QED BY <1>4, <1>5, <1>6, <1>7, StepWrites

LEMMA ForwardedNext ==
    ASSUME TypeOK, ForwardedWasWhole, NEW t \in Tasks, Step(t)
    PROVE  ForwardedWasWhole'
<1> SUFFICES ASSUME NEW p \in Connections, pc'[p] = "preview"
             PROVE  id'[p] \in whole_body'
  BY DEF ForwardedWasWhole
<1>1. CASE t # p
  <2>1. pc'[p] = pc[p] /\ id'[p] = id[p] /\ whole_body \subseteq whole_body'
    BY <1>1, OthersKeep DEF Tasks
  <2> QED BY <2>1 DEF ForwardedWasWhole
<1>2. CASE t = p
  <2> USE DEF TypeOK, Goto, Tasks
  <2>1. ~Begin(p)
    BY DEF Begin, Reserve, InsertPending, Count, CountBy, Writes, Advance, AfterCount
  <2>2. ProxyStep(p)
    BY <1>2, <2>1, EngineAssumption DEF Step
  <2>3. Forward(p)
    BY <2>2
    DEF ProxyStep, ReadHead, RejectHead, Connect, ConnectFails, Intercept, InterceptFails,
        CompleteTunnel, ForwardFails, CapturePreview, ReadResponse, ReadResponseFails,
        ParseResponseFails, Deliver, DeliverFails, CompleteExchange, FailExchange, Moves, Writes,
        Advance
  <2> QED BY <2>3 DEF Forward, Advance
<1> QED BY <1>1, <1>2

(* A replay finds its source with the whole body, or sends none; and what  *)
(* it sends does not change on the way.                                    *)
LEMMA ReplayedNext ==
    ASSUME TypeOK, TextWasWhole, ReplayedBodyWasWhole, NEW t \in Tasks, Step(t)
    PROVE  ReplayedBodyWasWhole'
<1> SUFFICES ASSUME NEW c \in Clients,
                    pc'[c] # "idle", source'[c] # 0, request'[c].length = "some"
             PROVE  source'[c] \in whole_body' /\ request'[c].text
  BY DEF ReplayedBodyWasWhole
<1>1. whole_body \subseteq whole_body'
  BY OthersKeep
<1>2. ASSUME pc[c] # "idle", source'[c] = source[c], request'[c] = request[c]
      PROVE  source'[c] \in whole_body' /\ request'[c].text
  BY <1>1, <1>2 DEF ReplayedBodyWasWhole
<1>3. CASE t # c
  <2>1. /\ pc'[c] = pc[c] /\ source'[c] = source[c] /\ request'[c] = request[c]
    BY <1>3, OthersKeep DEF Tasks
  <2> QED BY <1>2, <2>1
<1>4. CASE t = c /\ (Begin(c) \/ ClientStep(c))
  <2>1. pc[c] # "idle" /\ UNCHANGED <<source, request>>
    BY <1>4
    DEF Begin, Reserve, InsertPending, Count, CountBy, ClientStep, CaptureBody, Exchange,
        ExchangeFails, CompleteExecution, FailExecution, ReturnResult, Moves, Writes, Advance, Keeps
  <2> QED BY <1>2, <2>1
<1>5. CASE t = c /\ Command(c)
  <2>1. PICK txn \in 1 .. next_id : Replay(c, txn)
    BY <1>5
    DEF Command, ReplayNotFound, ReplayRefused, Execute, ExecuteRefused, NewCommand, Refuse,
        Answer, Goto, TypeOK, Tasks
  <2>2. PICK r \in Get(txn) : Replayable(r) /\ request' = [request EXCEPT ![c] = ReplayRequest(r)]
    BY <2>1 DEF Replay, Start
  <2>3. DOMAIN transactions = 1 .. Len(transactions)
    BY LenProperties DEF TypeOK
  <2>4. PICK i \in 1 .. Len(transactions) : r = transactions[i] /\ r.id = txn
    BY <2>2, <2>3 DEF Get, IsFirst
  <2>5. source'[c] = txn /\ request'[c] = ReplayRequest(r)
    BY <2>1, <2>2 DEF Replay, NewCommand, TypeOK, Tasks
  <2>6. r.request_body_preview = "text"
    BY <2>2, <2>5 DEF Replayable, ReplayRequest
  <2>7. source'[c] \in whole_body'
    BY <1>1, <2>4, <2>5, <2>6 DEF TextWasWhole
  <2>8. request'[c].text
    <3>1. ReplayRequest(r).text <=> r.request_body_preview = "text"
      BY Zenon DEF ReplayRequest
    <3> QED BY <2>5, <2>6, <3>1, Zenon
  <2> QED BY <2>7, <2>8
<1> QED BY <1>3, <1>4, <1>5, EngineAssumption DEF Step

LEMMA WholeInvNext == TypeOK /\ WholeInv /\ [Next]_vars => WholeInv'
<1> SUFFICES ASSUME TypeOK, WholeInv, [Next]_vars PROVE WholeInv'
  OBVIOUS
<1>1. CASE UNCHANGED vars
  BY <1>1 DEF vars, WholeInv, TextWasWhole, ForwardedWasWhole, ReplayedBodyWasWhole
<1>2. CASE \E t \in Tasks : Step(t)
  BY <1>2, TextNext, ForwardedNext, ReplayedNext DEF WholeInv
<1> QED BY <1>1, <1>2, NextIsStep

(* A replay that sends a body sends one that the daemon has had in hand    *)
(* from end to end, whatever the state of its source (replay.rs:158-182).  *)
THEOREM ReplayedBodiesWereWhole == Spec => []ReplayedBodyWasWhole
<1>1. Init => WholeInv
  BY EngineAssumption
  DEF Init, StoreInit, WholeInv, TextWasWhole, ForwardedWasWhole, ReplayedBodyWasWhole, Tasks
<1> QED BY <1>1, WholeInvNext, IdInvariance, PTL DEF Spec, WholeInv

=============================================================================
