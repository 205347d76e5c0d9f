------------------------ MODULE ControlChannelProofs ------------------------
(***************************************************************************)
(* What holds of ControlChannel for commands and events of any length and  *)
(* any limit of a receive.                                                 *)
(***************************************************************************)
EXTENDS ControlChannel, TLAPS

Ready == [handler |-> "state", state |-> "ready"]

(* A callback that starts an operation or reports its end.                 *)
Operation(c) == c.handler # "state" \/ c = Ready

Unsent == conn \in {"preparing", "waiting"} \/ Ready \in due

(* TypeOK without what follows from the rest.                              *)
Types ==
    /\ conn \in Open \cup Closed
    /\ due \subseteq Callbacks
    /\ sending \in BOOLEAN /\ receiving \in BOOLEAN
    /\ continuation \in BOOLEAN /\ finishing \subseteq Handlers \X Results
    /\ resumed \in Nat /\ result \in Results
    /\ outgoing \in Nat /\ line \in Nat
    /\ daemon \in {"reading", "executing", "answering", "gone"}
    /\ executed \in Nat /\ answer \in 0 .. EventLength /\ incoming \in Nat

(* At most one operation is begun, outstanding or reported, and none       *)
(* before the connection is ready.                                         *)
OneOperation ==
    /\ ~(sending /\ receiving)
    /\ sending \/ receiving \/ conn \in {"preparing", "waiting"}
           => \A c \in due : ~Operation(c)
    /\ \A c, d \in due : Operation(c) /\ Operation(d) => c = d
    /\ conn \in {"preparing", "waiting"} => ~sending /\ ~receiving

(* The bytes of the one command are on the way, in the line, or taken for  *)
(* the command that is executed; those of the event come after that.       *)
Budget ==
    /\ Unsent => outgoing = 0 /\ line = 0 /\ executed = 0 /\ daemon \in {"reading", "gone"}
    /\ outgoing + line <= CommandLength
    /\ executed <= 1
    /\ executed = 1 \/ daemon = "executing" => outgoing = 0 /\ line = 0
    /\ daemon = "executing" => executed = 0
    /\ daemon = "answering" /\ executed = 0 => conn \in Closed
    /\ executed = 0 => incoming = 0
    /\ executed = 1 => incoming + answer <= EventLength

(* Bytes of an event are proof that the command has run.                   *)
Answers ==
    /\ \A c \in due : c.handler = "received" /\ c.data # Error => executed = 1
    /\ \A p \in finishing : p[2] # Error => executed = 1
    /\ result # Error => executed = 1

(* The continuation is in the box, in one callback, or was resumed.        *)
OneContinuation ==
    /\ continuation => finishing = {} /\ resumed = 0
    /\ ~continuation =>
          \/ finishing = {} /\ resumed = 1
          \/ resumed = 0 /\ \E p \in finishing : finishing = {p}

IInv == Types /\ OneOperation /\ Budget /\ Answers /\ OneContinuation

LEMMA ChangeKeeps ==
    ASSUME IInv, NEW state \in {"waiting", "ready", "failed"}, ChangeTo(state),
           conn \in Open, state \in {"waiting", "ready"} => conn \in {"preparing", "waiting"}
    PROVE  IInv'
  <1>. DEFINE new == [handler |-> "state", state |-> state]
  <1>1. new \in Callbacks /\ new.handler = "state" /\ (new = Ready <=> state = "ready")
    BY DEF Callbacks, Ready
  <1>2. due' = due \cup {new} /\ conn' = state
    BY DEF ChangeTo
  <1>. HIDE DEF new
  <1>. USE <1>1, <1>2 DEF ChangeTo, server, IInv, Open, Closed
  <1>3. Types'
    BY DEF Types
  <1>4. OneOperation'
    BY DEF OneOperation, Operation, Types
  <1>5. Budget'
    BY DEF Budget, Unsent, Types
  <1>6. Answers'
    BY DEF Answers
  <1>7. OneContinuation'
    BY DEF OneContinuation
  <1>. QED  BY <1>3, <1>4, <1>5, <1>6, <1>7

LEMMA InitInv == Init => IInv
  <1>. SUFFICES ASSUME Init
                PROVE  IInv
    OBVIOUS
  <1>. USE ControlChannelAssumption DEF Init
  <1>1. conn \in Open /\ result \in Results /\ answer \in 0 .. EventLength
    BY DEF Open, Results
  <1>2. Types
    BY <1>1 DEF Types
  <1>3. OneOperation /\ Budget
    BY DEF OneOperation, Budget
  <1>4. Answers /\ OneContinuation
    BY DEF Answers, OneContinuation
  <1>. QED  BY <1>2, <1>3, <1>4 DEF IInv

(* What the network does keeps the invariant.                              *)
LEMMA NetworkKeeps == IInv /\ (Network \/ Wait \/ Fail) => IInv'
  <1>. SUFFICES ASSUME IInv, Network \/ Wait \/ Fail
                PROVE  IInv'
    OBVIOUS
  <1>. USE DEF IInv
  <1>1. CASE Wait
    BY <1>1, ChangeKeeps DEF Wait, Open
  <1>2. CASE Connect
    BY <1>2, ChangeKeeps DEF Connect, Open
  <1>3. CASE Fail
    BY <1>3, ChangeKeeps DEF Fail
  <1>4. CASE SendCompletes
    <2>. DEFINE new == [handler |-> "sent", ok |-> conn = "ready"]
    <2>1. new \in Callbacks /\ new.handler = "sent" /\ new # Ready
      BY DEF Callbacks, Ready
    <2>2. due' = due \cup {new} /\ sending /\ ~sending'
      BY <1>4 DEF SendCompletes
    <2>. HIDE DEF new
    <2>. USE <1>4, <2>1, <2>2 DEF SendCompletes, server
    <2>3. Types'
      BY DEF Types
    <2>4. OneOperation'
      BY DEF OneOperation, Operation, Types
    <2>5. Budget'
      BY DEF Budget, Unsent, Types
    <2>6. Answers' /\ OneContinuation'
      BY DEF Answers, OneContinuation
    <2>. QED  BY <2>3, <2>4, <2>5, <2>6
  <1>5. CASE ReceiveCompletes
    <2>1. PICK data \in Received :
             /\ due' = due \cup {[handler |-> "received", data |-> data]}
             /\ incoming' = IF data = Error THEN incoming ELSE incoming - data
      BY <1>5 DEF ReceiveCompletes
    <2>2. data \in {Error} \cup 1 .. ReceiveLimit /\ (data # Error => data <= incoming /\ incoming > 0)
      BY ControlChannelAssumption DEF Received, Types, Error
    <2>. DEFINE new == [handler |-> "received", data |-> data]
    <2>3. new \in Callbacks /\ new.handler = "received" /\ new # Ready /\ new.data = data
      BY <2>2 DEF Callbacks, Ready
    <2>4. due' = due \cup {new} /\ receiving /\ ~receiving'
      BY <1>5, <2>1 DEF ReceiveCompletes
    <2>. HIDE DEF new
    <2>. USE <1>5, <2>2, <2>3, <2>4 DEF ReceiveCompletes, server
    <2>5. incoming' \in Nat /\ (incoming' = incoming \/ (data # Error /\ incoming' <= incoming))
      BY <2>1, <2>2 DEF Types, Error
    <2>6. Types'
      BY <2>5 DEF Types
    <2>7. OneOperation'
      BY DEF OneOperation, Operation, Types
    <2>8. Budget'
      <3>1. data # Error => executed = 1
        BY <2>2 DEF Budget, Types, Error
      <3>2. Unsent' <=> Unsent
        BY DEF Unsent
      <3>3. /\ executed = 0 => incoming' = 0
            /\ executed = 1 => incoming' + answer <= EventLength
        BY <2>5, <3>1, ControlChannelAssumption DEF Budget, Types
      <3>. QED  BY <3>2, <3>3 DEF Budget
    <2>9. Answers' /\ OneContinuation'
      BY DEF Answers, OneContinuation, Budget, Types
    <2>. QED  BY <2>6, <2>7, <2>8, <2>9
  <1>6. CASE Arrive
    <2>. USE <1>6 DEF Arrive, client
    <2>1. Types' /\ OneOperation'
      BY DEF Types, OneOperation, Operation
    <2>2. Budget'
      BY DEF Budget, Unsent, Types
    <2>3. Answers' /\ OneContinuation'
      BY DEF Answers, OneContinuation
    <2>. QED  BY <2>1, <2>2, <2>3
  <1>. QED  BY <1>1, <1>2, <1>3, <1>4, <1>5, <1>6 DEF Network

(* What callbacks do to the box, whatever the outcome.                     *)
LEMMA FinishKeeps ==
    ASSUME OneContinuation, Types, NEW by \in Handlers, NEW outcome \in Results,
           Finish(by, outcome), resumed' = resumed
    PROVE  /\ OneContinuation'
           /\ finishing' \subseteq Handlers \X Results /\ continuation' \in BOOLEAN
           /\ finishing' \subseteq finishing \cup {<<by, outcome>>}
  <1>. DEFINE mine == <<by, outcome>>
  <1>1. mine \in Handlers \X Results
    OBVIOUS
  <1>2. finishing \subseteq Handlers \X Results /\ continuation \in BOOLEAN
    BY DEF Types
  <1>3. /\ finishing' = finishing \cup (IF continuation THEN {mine} ELSE {})
        /\ continuation' = FALSE
    BY DEF Finish
  <1>. HIDE DEF mine
  <1>4. /\ finishing' \subseteq Handlers \X Results
        /\ finishing' \subseteq finishing \cup {mine}
    BY <1>1, <1>2, <1>3
  <1>5. CASE continuation
    <2>1. finishing' = {mine} /\ resumed' = 0
      BY <1>3, <1>5 DEF OneContinuation
    <2>2. OneContinuation'
      BY <1>3, <2>1 DEF OneContinuation
    <2>. QED  BY <1>3, <1>4, <2>2 DEF mine
  <1>6. CASE ~continuation
    <2>1. finishing' = finishing
      BY <1>3, <1>6
    <2>2. OneContinuation'
      BY <1>3, <1>6, <2>1 DEF OneContinuation
    <2>. QED  BY <1>3, <1>4, <2>2 DEF mine
  <1>. QED  BY <1>5, <1>6

LEMMA IgnoreKeeps ==
    ASSUME OneContinuation, Types, Ignore, resumed' = resumed
    PROVE  /\ OneContinuation'
           /\ finishing' \subseteq Handlers \X Results /\ continuation' \in BOOLEAN
           /\ finishing' \subseteq finishing
  BY DEF Ignore, OneContinuation, Types

(* Callbacks keep the invariant.                                           *)
LEMMA ClientKeeps == IInv /\ Client => IInv'
  <1>. SUFFICES ASSUME IInv, Client
                PROVE  IInv'
    OBVIOUS
  <1>. USE DEF IInv
  <1>0. Error \in Results /\ Handlers = {"state", "sent", "received"}
    BY DEF Results, Handlers
  <1>1. ASSUME NEW state \in {"waiting", "ready", "failed"}, StateChanged(state)
        PROVE  IInv'
    <2>. DEFINE old == [handler |-> "state", state |-> state]
    <2>1. old \in due /\ due' = due \ {old} /\ old.handler = "state" /\ (old = Ready <=> state = "ready")
      BY <1>1 DEF StateChanged, Ready
    <2>2. IF state = "ready" THEN sending' = TRUE /\ outgoing' = outgoing + CommandLength
                             ELSE UNCHANGED <<sending, outgoing>>
      BY <1>1 DEF StateChanged, Sends
    <2>3. resumed' = resumed /\ result' = result
      BY <1>1 DEF StateChanged
    <2>4. Finish("state", Error) \/ Ignore
      BY <1>1 DEF StateChanged
    <2>5. /\ OneContinuation'
          /\ finishing' \subseteq Handlers \X Results /\ continuation' \in BOOLEAN
          /\ finishing' \subseteq finishing \cup {<<"state", Error>>}
      BY <1>0, <2>3, <2>4, FinishKeeps, IgnoreKeeps
    <2>. HIDE DEF old
    <2>. USE <1>1, <2>1, <2>2, <2>3, <2>5 DEF StateChanged, server
    <2>6. Types'
      <3>1. CommandLength \in Nat /\ outgoing \in Nat /\ sending \in BOOLEAN
        BY ControlChannelAssumption DEF Types
      <3>2. outgoing' \in Nat /\ sending' \in BOOLEAN
        <4>1. CASE state = "ready"  BY <2>2, <3>1, <4>1
        <4>2. CASE state # "ready"  BY <2>2, <3>1, <4>2
        <4>. QED  BY <4>1, <4>2
      <3>3. due' \subseteq Callbacks
        BY DEF Types
      <3>. QED  BY <3>2, <3>3 DEF Types
    <2>7. OneOperation'
      BY DEF OneOperation, Operation, Types
    <2>8. Budget'
      <3>1. conn' = conn /\ (Unsent' => Unsent)
        BY DEF Unsent
      <3>2. CASE state = "ready"
        <4>1. Unsent /\ outgoing' = CommandLength
          BY <3>2, ControlChannelAssumption DEF Unsent, Budget, Types
        <4>2. ~Unsent'
          BY <3>2 DEF Unsent, OneOperation, Operation, Ready
        <4>. QED  BY <3>1, <4>1, <4>2, ControlChannelAssumption DEF Budget, Types
      <3>3. CASE state # "ready"
        BY <3>1, <3>3 DEF Budget, Types
      <3>. QED  BY <3>2, <3>3
    <2>9. Answers'
      BY DEF Answers
    <2>. QED  BY <2>6, <2>7, <2>8, <2>9
  <1>2. ASSUME NEW ok \in BOOLEAN, Sent(ok)
        PROVE  IInv'
    <2>. DEFINE old == [handler |-> "sent", ok |-> ok]
    <2>1. old \in due /\ due' = due \ {old} /\ old.handler = "sent" /\ old # Ready
      BY <1>2 DEF Sent, Ready
    <2>2. Finish("sent", Error) \/ Ignore
      BY <1>2 DEF Sent
    <2>3. resumed' = resumed /\ result' = result
      BY <1>2 DEF Sent
    <2>4. /\ OneContinuation'
          /\ finishing' \subseteq Handlers \X Results /\ continuation' \in BOOLEAN
          /\ finishing' \subseteq finishing \cup {<<"sent", Error>>}
      BY <1>0, <2>2, <2>3, FinishKeeps, IgnoreKeeps
    <2>. HIDE DEF old
    <2>. USE <1>2, <2>1, <2>3, <2>4 DEF Sent, server
    <2>5. Types'
      BY DEF Types
    <2>6. OneOperation'
      BY DEF OneOperation, Operation, Types
    <2>7. Budget'
      BY DEF Budget, Unsent, Types
    <2>8. Answers'
      BY DEF Answers
    <2>. QED  BY <2>5, <2>6, <2>7, <2>8
  <1>3. ASSUME NEW data \in {Error} \cup 1 .. ReceiveLimit, DataReceived(data)
        PROVE  IInv'
    <2>. DEFINE old     == [handler |-> "received", data |-> data]
                outcome == IF data = Error THEN Error ELSE FirstLine(data)
    <2>1. old \in due /\ due' = due \ {old} /\ old.handler = "received" /\ old.data = data /\ old # Ready
      BY <1>3 DEF DataReceived, Ready
    <2>2. outcome \in Results /\ (outcome # Error => data # Error)
      BY ControlChannelAssumption DEF Results, FirstLine, Error
    <2>3. resumed' = resumed /\ result' = result
      BY <1>3 DEF DataReceived
    <2>4. Finish("received", outcome)
      BY <1>3 DEF DataReceived, FinishReceive
    <2>. HIDE DEF old, outcome
    <2>5. /\ OneContinuation'
          /\ finishing' \subseteq Handlers \X Results /\ continuation' \in BOOLEAN
          /\ finishing' \subseteq finishing \cup {<<"received", outcome>>}
      BY <1>0, <2>2, <2>3, <2>4, FinishKeeps
    <2>. USE <1>3, <2>1, <2>2, <2>3, <2>5 DEF DataReceived, server
    <2>6. Types'
      BY DEF Types
    <2>7. OneOperation'
      BY DEF OneOperation, Operation, Types
    <2>8. Budget'
      BY DEF Budget, Unsent, Types
    <2>9. Answers'
      BY DEF Answers
    <2>. QED  BY <2>6, <2>7, <2>8, <2>9
  <1>4. ASSUME NEW by \in Handlers, NEW outcome \in Results, Resume(by, outcome)
        PROVE  IInv'
    <2>1. finishing = {<<by, outcome>>} /\ resumed = 0 /\ finishing' = {}
      BY <1>4 DEF Resume, OneContinuation
    <2>2. conn \notin {"preparing", "waiting"} => conn' \notin {"preparing", "waiting"}
      BY <1>4 DEF Resume
    <2>. USE <1>4, <2>1 DEF Resume, server
    <2>3. Types'
      <3>1. conn' \in Open \cup Closed
        BY DEF Types, Open, Closed
      <3>2. resumed' \in Nat /\ finishing' \subseteq Handlers \X Results
        OBVIOUS
      <3>. QED  BY <3>1, <3>2 DEF Types
    <2>4. OneOperation' /\ OneContinuation'
      BY DEF OneOperation, OneContinuation, Operation
    <2>5. Budget'
      BY DEF Budget, Unsent, Types, Closed
    <2>6. Answers'
      BY DEF Answers
    <2>. QED  BY <2>3, <2>4, <2>5, <2>6
  <1>. QED  BY <1>1, <1>2, <1>3, <1>4 DEF Client

(* The task of the daemon keeps the invariant.                             *)
LEMMA TaskKeeps == IInv /\ (Task \/ Execute \/ Reset \/ Stop) => IInv'
  <1>. SUFFICES ASSUME IInv, Task \/ Execute \/ Reset \/ Stop
                PROVE  IInv'
    OBVIOUS
  <1>. USE DEF IInv, client
  <1>1. UNCHANGED client
    BY DEF Task, TakeLine, LastLine, WriteAnswer, Answered, EndOfLine, EndOfStream, Execute,
           Reset, Stop
  <1>2. OneOperation' /\ OneContinuation'
    BY <1>1 DEF OneOperation, Operation, OneContinuation
  <1>3. executed = 1 => executed' = 1
    BY DEF Task, TakeLine, LastLine, WriteAnswer, Answered, EndOfLine, EndOfStream, Execute,
           Reset, Stop, Budget
  <1>4. Answers'
    BY <1>1, <1>3 DEF Answers
  <1>5. Types' /\ Budget'
    <2>. USE <1>1, ControlChannelAssumption DEF Types, Budget, Unsent, Closed
    <2>1. CASE TakeLine  BY <2>1 DEF TakeLine
    <2>2. CASE WriteAnswer  BY <2>2 DEF WriteAnswer
    <2>3. CASE Answered  BY <2>3 DEF Answered
    <2>4. CASE LastLine  BY <2>4 DEF LastLine
    <2>5. CASE EndOfLine  BY <2>5 DEF EndOfLine
    <2>6. CASE EndOfStream  BY <2>6 DEF EndOfStream
    <2>7. CASE Execute  BY <2>7 DEF Execute
    <2>8. CASE Reset  BY <2>8 DEF Reset
    <2>9. CASE Stop  BY <2>9 DEF Stop
    <2>. QED  BY <2>1, <2>2, <2>3, <2>4, <2>5, <2>6, <2>7, <2>8, <2>9 DEF Task
  <1>. QED  BY <1>2, <1>4, <1>5

LEMMA NextInv == IInv /\ [Next]_vars => IInv'
  <1>. SUFFICES ASSUME IInv, [Next]_vars
                PROVE  IInv'
    OBVIOUS
  <1>1. CASE UNCHANGED vars
    BY <1>1 DEF vars, client, server, IInv, Types, OneOperation, Operation, Budget, Unsent,
                Answers, OneContinuation
  <1>. QED  BY <1>1, NetworkKeeps, ClientKeeps, TaskKeeps DEF Next, Quiescent

LEMMA Invariant == Spec => []IInv
  BY InitInv, NextInv, PTL DEF Spec

(* One operation is outstanding at a time, and neither end ever has more   *)
(* bytes than the other sent (EngineClient.swift:309-316).                 *)
THEOREM TypeCorrect == Spec => []TypeOK
  <1>1. IInv => TypeOK
    BY ControlChannelAssumption DEF IInv, Types, OneOperation, Budget, TypeOK
  <1>. QED  BY <1>1, Invariant, PTL

(* The caller is resumed at most once, however the callbacks overlap       *)
(* (EngineClient.swift:354-374).                                           *)
THEOREM CallerIsResumedOnce == Spec => []ResumedOnce
  <1>1. IInv => ResumedOnce
    BY DEF IInv, Types, OneContinuation, ResumedOnce
  <1>. QED  BY <1>1, Invariant, PTL

(* The command runs at most once, and has run when its caller gets bytes   *)
(* of an answer (main.rs:185-257).                                         *)
THEOREM CommandRunsOnce == Spec => []RunsOnce
  <1>1. IInv => RunsOnce
    BY DEF IInv, Budget, Answers, RunsOnce
  <1>. QED  BY <1>1, Invariant, PTL

-----------------------------------------------------------------------------
(* Where the bytes of the answer are.                                      *)

Failed == [handler |-> "state", state |-> "failed"]

(* As long as the connection is open nothing has failed, and the           *)
(* continuation is only gone once everything was sent and received.        *)
Unfinished ==
    conn \in Open =>
        /\ Failed \notin due
        /\ \A c \in due : c.handler = "sent" => c.ok
        /\ \/ continuation
           \/ conn = "ready" /\ ~sending /\ ~receiving /\ \A c \in due : ~Operation(c)

(* What was written and is not on its way any more is in a callback.       *)
NothingLost ==
    conn = "ready" =>
        /\ continuation /\ executed = 1 /\ (\A c \in due : c.handler # "received")
              => incoming + answer = EventLength
        /\ \A c \in due : c.handler = "received" /\ c.data # Error
              => c.data + incoming + answer = EventLength
        /\ \A p \in finishing : p[2] # Error
              => p[2] = EventLength - 1 \/ p[2] + incoming + answer = EventLength

BytesInv == Unfinished /\ NothingLost

LEMMA BytesInit == Init => BytesInv
  BY DEF Init, BytesInv, Unfinished, NothingLost

LEMMA BytesNetwork == IInv /\ BytesInv /\ (Network \/ Wait \/ Fail) => BytesInv'
  <1>. SUFFICES ASSUME IInv, BytesInv, Network \/ Wait \/ Fail
                PROVE  BytesInv'
    OBVIOUS
  <1>. USE DEF IInv, BytesInv
  <1>1. ASSUME NEW state \in {"waiting", "ready"}, ChangeTo(state), conn \in {"preparing", "waiting"}
        PROVE  BytesInv'
    <2>. DEFINE new == [handler |-> "state", state |-> state]
    <2>1. new.handler = "state" /\ new # Failed
      BY DEF Failed
    <2>2. due' = due \cup {new} /\ continuation' = continuation /\ finishing' = finishing
          /\ executed' = executed
      BY <1>1 DEF ChangeTo, server
    <2>. HIDE DEF new
    <2>3. executed = 0 /\ continuation /\ Failed \notin due /\ \A c \in due : ~Operation(c)
      BY <1>1 DEF Budget, Unsent, Unfinished, Open, OneOperation
    <2>4. Unfinished'
      BY <2>1, <2>2, <2>3 DEF Unfinished, Operation
    <2>5. NothingLost'
      BY <2>1, <2>2, <2>3 DEF NothingLost, Answers, Operation
    <2>. QED  BY <2>4, <2>5
  <1>2. CASE Fail
    BY <1>2 DEF Fail, ChangeTo, Unfinished, NothingLost, Open
  <1>3. CASE SendCompletes
    <2>1. PICK new : new = [handler |-> "sent", ok |-> conn = "ready"]
      OBVIOUS
    <2>2. new.handler = "sent" /\ (new.ok <=> conn = "ready")
      BY <2>1, Zenon
    <2>3. new # Failed
      BY <2>2 DEF Failed
    <2>4. /\ due' = due \cup {new} /\ conn' = conn /\ continuation' = continuation /\ sending
          /\ finishing' = finishing
          /\ executed' = executed /\ incoming' = incoming /\ answer' = answer
      BY <1>3, <2>1 DEF SendCompletes, server
    <2>5. conn \in Open => conn = "ready" /\ continuation
      BY <2>4 DEF OneOperation, Open, Unfinished
    <2>6. Unfinished'
      BY <2>2, <2>3, <2>4, <2>5 DEF Unfinished
    <2>7. NothingLost'
      BY <2>2, <2>4 DEF NothingLost
    <2>. QED  BY <2>6, <2>7
  <1>4. CASE ReceiveCompletes
    <2>1. PICK data \in Received :
             /\ due' = due \cup {[handler |-> "received", data |-> data]}
             /\ incoming' = IF data = Error THEN incoming ELSE incoming - data
      BY <1>4 DEF ReceiveCompletes
    <2>2. /\ data \in {Error} \cup 1 .. ReceiveLimit
          /\ data # Error => data \in Nat /\ data <= incoming /\ incoming > 0
      BY ControlChannelAssumption DEF Received, Types, Error
    <2>3. PICK new : new = [handler |-> "received", data |-> data]
      OBVIOUS
    <2>4. new.handler = "received" /\ new.data = data /\ new # Failed
      BY <2>3 DEF Failed
    <2>5. /\ due' = due \cup {new} /\ conn' = conn /\ continuation' = continuation /\ receiving
          /\ finishing' = finishing /\ executed' = executed /\ answer' = answer
      BY <1>4, <2>1, <2>3 DEF ReceiveCompletes, server
    <2>6. \A c \in due : ~Operation(c)
      BY <2>5 DEF OneOperation
    <2>7. conn \in Open => conn = "ready" /\ continuation /\ finishing = {}
      BY <2>5 DEF OneOperation, Open, Unfinished, OneContinuation
    <2>8. Unfinished'
      BY <2>4, <2>5, <2>7 DEF Unfinished
    <2>9. ASSUME conn = "ready", data # Error
          PROVE  data + incoming' + answer = EventLength
      <3>1. executed = 1
        BY <2>2, <2>9 DEF Budget, Types
      <3>2. incoming + answer = EventLength
        BY <2>6, <2>7, <2>9, <3>1 DEF NothingLost, Operation, Open
      <3>3. incoming' = incoming - data
        BY <2>1, <2>9
      <3>. QED  BY <2>2, <2>9, <3>2, <3>3, ControlChannelAssumption DEF Types
    <2>10. NothingLost'
      BY <2>4, <2>5, <2>6, <2>7, <2>9 DEF NothingLost, Operation, Open
    <2>. QED  BY <2>8, <2>10
  <1>5. CASE Arrive
    BY <1>5 DEF Arrive, client, Unfinished, NothingLost, Operation
  <1>. QED  BY <1>1, <1>2, <1>3, <1>4, <1>5 DEF Network, Wait, Connect

LEMMA BytesClient == IInv /\ BytesInv /\ Client => BytesInv'
  <1>. SUFFICES ASSUME IInv, BytesInv, Client
                PROVE  BytesInv'
    OBVIOUS
  <1>. USE DEF IInv, BytesInv
  <1>1. ASSUME NEW state \in {"waiting", "ready", "failed"}, StateChanged(state)
        PROVE  BytesInv'
    <2>1. PICK old : old = [handler |-> "state", state |-> state]
      OBVIOUS
    <2>2. /\ old \in due /\ due' = due \ {old} /\ old.handler = "state"
          /\ old = Failed <=> state = "failed"
          /\ old = Ready <=> state = "ready"
          /\ conn' = conn /\ receiving' = receiving
          /\ UNCHANGED server /\ incoming' = incoming
          /\ state # "ready" => sending' = sending
      BY <1>1, <2>1 DEF StateChanged, Failed, Ready, Sends
    <2>3. CASE conn \notin Open
      BY <2>2, <2>3 DEF Unfinished, NothingLost, Open
    <2>4. CASE conn \in Open
      <3>1. state # "failed" /\ continuation' = continuation /\ finishing' = finishing
        BY <1>1, <2>2, <2>4 DEF Unfinished, StateChanged, Ignore
      <3>2. state = "ready" => continuation
        BY <2>2, <2>4 DEF Unfinished, Operation
      <3>3. Unfinished'
        BY <2>2, <3>1, <3>2 DEF Unfinished, Operation
      <3>4. NothingLost'
        BY <2>2, <3>1 DEF NothingLost, server
      <3>. QED  BY <3>3, <3>4
    <2>. QED  BY <2>3, <2>4
  <1>2. ASSUME NEW ok \in BOOLEAN, Sent(ok)
        PROVE  BytesInv'
    <2>1. PICK old : old = [handler |-> "sent", ok |-> ok]
      OBVIOUS
    <2>2. old.handler = "sent" /\ (old.ok <=> ok)
      BY <2>1, Zenon
    <2>3. /\ old \in due /\ due' = due \ {old} /\ conn' = conn /\ UNCHANGED server
          /\ incoming' = incoming
      BY <1>2, <2>1 DEF Sent
    <2>4. CASE conn \notin Open
      BY <2>3, <2>4 DEF Unfinished, NothingLost, Open
    <2>5. CASE conn \in Open
      <3>1. ok /\ continuation /\ continuation' = continuation /\ finishing' = finishing
        BY <1>2, <2>2, <2>3, <2>5 DEF Unfinished, Sent, Ignore, Operation
      <3>2. Unfinished' /\ NothingLost'
        BY <2>2, <2>3, <3>1 DEF Unfinished, NothingLost, server
      <3>. QED  BY <3>2
    <2>. QED  BY <2>4, <2>5
  <1>3. ASSUME NEW data \in {Error} \cup 1 .. ReceiveLimit, DataReceived(data)
        PROVE  BytesInv'
    <2>1. PICK old : old = [handler |-> "received", data |-> data]
      OBVIOUS
    <2>2. PICK outcome : outcome = IF data = Error THEN Error ELSE FirstLine(data)
      OBVIOUS
    <2>3. /\ old \in due /\ due' = due \ {old} /\ old.handler = "received" /\ old.data = data
          /\ conn' = conn /\ UNCHANGED server /\ incoming' = incoming
          /\ sending' = sending /\ receiving' = receiving /\ continuation' = FALSE
          /\ finishing' \subseteq finishing \cup {<<"received", outcome>>}
      BY <1>3, <2>1, <2>2 DEF DataReceived, FinishReceive, Finish
    <2>4. /\ ~sending /\ ~receiving /\ conn \notin {"preparing", "waiting"}
          /\ \A c \in due' : ~Operation(c)
      BY <2>3 DEF OneOperation, Operation
    <2>5. Unfinished'
      BY <2>3, <2>4 DEF Unfinished, Open
    <2>6. ASSUME conn = "ready", outcome # Error
          PROVE  outcome = EventLength - 1 \/ outcome + incoming + answer = EventLength
      <3>1. data # Error /\ outcome = FirstLine(data)
        BY <2>2, <2>6
      <3>2. data + incoming + answer = EventLength
        BY <2>3, <2>6, <3>1 DEF NothingLost
      <3>. QED  BY <3>1, <3>2 DEF FirstLine
    <2>7. NothingLost'
      <3>1. \A p \in finishing' : p \in finishing \/ p[2] = outcome
        BY <2>3
      <3>. QED  BY <2>3, <2>4, <2>6, <3>1 DEF NothingLost, Operation, server
    <2>. QED  BY <2>5, <2>7
  <1>4. ASSUME NEW by \in Handlers, NEW outcome \in Results, Resume(by, outcome)
        PROVE  BytesInv'
    BY <1>4 DEF Resume, Unfinished, NothingLost, Open
  <1>. QED  BY <1>1, <1>2, <1>3, <1>4 DEF Client

LEMMA BytesTask == IInv /\ BytesInv /\ (Task \/ Execute \/ Reset \/ Stop) => BytesInv'
  <1>. SUFFICES ASSUME IInv, BytesInv, Task \/ Execute \/ Reset \/ Stop
                PROVE  BytesInv'
    OBVIOUS
  <1>. USE DEF IInv, BytesInv, client
  <1>1. UNCHANGED client
    BY DEF Task, TakeLine, LastLine, WriteAnswer, Answered, EndOfLine, EndOfStream, Execute,
           Reset, Stop
  <1>2. Unfinished'
    BY <1>1 DEF Unfinished, Operation
  <1>3. CASE executed' = executed /\ incoming' = incoming /\ answer' = answer
    BY <1>1, <1>2, <1>3 DEF NothingLost
  <1>4. CASE WriteAnswer
    <2>1. /\ executed' = executed /\ answer' = answer - 1
          /\ conn = "ready" => incoming' = incoming + 1
      BY <1>4 DEF WriteAnswer
    <2>2. conn = "ready" => incoming' + answer' = incoming + answer
      BY <2>1 DEF Types
    <2>3. \A n \in Int : conn = "ready" => n + incoming' + answer' = n + incoming + answer
      BY <2>1 DEF Types
    <2>4. /\ \A c \in due : c.handler = "received" /\ c.data # Error => c.data \in Int
          /\ \A p \in finishing : p[2] \in Int
      BY ControlChannelAssumption DEF Types, Callbacks, Results, Error
    <2>5. NothingLost'
      BY <1>1, <2>1, <2>2, <2>3, <2>4 DEF NothingLost
    <2>. QED  BY <1>2, <2>5
  <1>5. CASE Execute
    <2>1. executed = 0 /\ incoming = 0 /\ incoming' = incoming /\ answer' = EventLength
      BY <1>5 DEF Execute, Budget
    <2>2. NothingLost'
      BY <1>1, <2>1, ControlChannelAssumption DEF NothingLost, Answers
    <2>. QED  BY <1>2, <2>2
  <1>6. CASE EndOfLine
    BY <1>1, <1>2, <1>6 DEF EndOfLine, NothingLost, Closed
  <1>. QED
    BY <1>3, <1>4, <1>5, <1>6 DEF Task, TakeLine, LastLine, Answered, EndOfStream, Reset, Stop

LEMMA BytesNext == IInv /\ BytesInv /\ [Next]_vars => BytesInv'
  <1>. SUFFICES ASSUME IInv, BytesInv, [Next]_vars
                PROVE  BytesInv'
    OBVIOUS
  <1>1. CASE UNCHANGED vars
    BY <1>1 DEF vars, client, server, BytesInv, Unfinished, NothingLost, Operation
  <1>. QED  BY <1>1, BytesNetwork, BytesClient, BytesTask DEF Next, Quiescent

(* What the caller is given before the connection breaks is the whole line *)
(* or its beginning, and the rest can still come (EngineClient.swift:      *)
(* 316-327).                                                               *)
THEOREM PartialAnswersAreEarly == Spec => PartialOnlyIfEarly
  <1>1. ASSUME IInv, BytesInv, [Next]_vars, resumed' # resumed, result' # Error, conn = "ready"
        PROVE  result' = EventLength - 1 \/ result' + incoming + answer = EventLength
    <2>1. PICK by \in Handlers, outcome \in Results : Resume(by, outcome)
      BY <1>1 DEF Next, Network, Wait, Connect, Fail, ChangeTo, SendCompletes, ReceiveCompletes,
           Arrive, Client, StateChanged, Sent, DataReceived, Task, TakeLine, LastLine,
           WriteAnswer, Answered, EndOfLine, EndOfStream, Execute, Reset, Stop, Quiescent, vars, client, server
    <2>. QED  BY <1>1, <2>1 DEF Resume, BytesInv, NothingLost
  <1>2. Spec => []BytesInv
    BY Invariant, BytesInit, BytesNext, PTL DEF Spec
  <1>. QED  BY <1>1, <1>2, Invariant, PTL DEF Spec, PartialOnlyIfEarly

=============================================================================
