--------------------------- MODULE ControlChannel ---------------------------
(***************************************************************************)
(* One call of the application to the daemon: EngineClient.send            *)
(* (macos/Sources/ProxymanCloneKit/EngineClient.swift) at one end of a     *)
(* connection of its own, serve_control_client (proxy-daemon/src/main.rs)  *)
(* at the other.  The command is a line, the event that answers it too.    *)
(*                                                                         *)
(* Network.framework is external, modelled from how it is used: it calls   *)
(* handlers on a concurrent queue, so that callbacks may overlap, and      *)
(* after a failure or a cancellation it completes what is outstanding with *)
(* an error.  Bytes are counted; they arrive one by one and are taken in   *)
(* pieces of any size.                                                     *)
(***************************************************************************)
EXTENDS Integers

CONSTANTS
    CommandLength,     \* bytes of the command, its newline included
    EventLength,       \* bytes of the event, its newline included
    ReceiveLimit       \* the most that one receive returns (8388608)

ASSUME ControlChannelAssumption ==
    /\ CommandLength \in Nat \ {0, 1} /\ EventLength \in Nat \ {0, 1}
    /\ ReceiveLimit \in Nat \ {0}

VARIABLES
    conn,              \* the state of the NWConnection
    due,               \* callbacks to be run
    sending, receiving,\* operations that were started and have not completed
    continuation,      \* whether the box still holds it
    finishing,         \* callbacks that took the continuation, and their results
    resumed,           \* how often the caller was resumed, and with what
    result,
    outgoing,          \* bytes of commands on the way to the daemon
    daemon,            \* where the task of this connection is
    line,              \* bytes it has read since the last newline
    executed,          \* how many commands it has executed
    answer,            \* bytes of the event it has still to write
    incoming           \* bytes of the event that have arrived

client == <<conn, due, sending, receiving, continuation, finishing, resumed, result>>
server == <<daemon, line, executed, answer>>
vars == <<client, server, outgoing, incoming>>

Open == {"preparing", "waiting", "ready"}
Closed == {"failed", "cancelled"}

(* What the caller gets: bytes of the event, without its newline, or an    *)
(* error.                                                                  *)
Error == -1
Results == {Error} \cup 0 .. EventLength

Handlers == {"state", "sent", "received"}

Callbacks ==
    [handler : {"state"}, state : {"waiting", "ready", "failed"}]
        \cup [handler : {"sent"}, ok : BOOLEAN]
        \cup [handler : {"received"}, data : {Error} \cup 1 .. ReceiveLimit]

Init ==
    /\ conn = "preparing" /\ due = {}
    /\ sending = FALSE /\ receiving = FALSE
    /\ continuation = TRUE /\ finishing = {} /\ resumed = 0 /\ result = Error
    /\ outgoing = 0 /\ incoming = 0
    /\ daemon = "reading" /\ line = 0 /\ executed = 0 /\ answer = 0

-----------------------------------------------------------------------------
(* The connection (external).                                              *)

ChangeTo(state) ==
    /\ conn' = state
    /\ due' = due \cup {[handler |-> "state", state |-> state]}
    /\ UNCHANGED <<sending, receiving, continuation, finishing, resumed, result,
                   server, outgoing, incoming>>

(* Nothing listens, or not yet.                                            *)
Wait == conn = "preparing" /\ ChangeTo("waiting")

Connect == conn \in {"preparing", "waiting"} /\ daemon # "gone" /\ ChangeTo("ready")

Fail == conn \in Open /\ ChangeTo("failed")

(* The content was handed to the network, which says nothing of the peer.  *)
SendCompletes ==
    /\ sending /\ sending' = FALSE
    /\ due' = due \cup {[handler |-> "sent", ok |-> conn = "ready"]}
    /\ UNCHANGED <<conn, receiving, continuation, finishing, resumed, result,
                   server, outgoing, incoming>>

(* What has arrived, an end of the stream without content, or an error.    *)
Received ==
    CASE conn \in Closed -> {Error}
      [] conn \notin Closed /\ incoming > 0 ->
             {IF incoming < ReceiveLimit THEN incoming ELSE ReceiveLimit}
      [] conn \notin Closed /\ incoming = 0 /\ daemon = "gone" -> {Error}
      [] OTHER -> {}

ReceiveCompletes ==
    /\ receiving /\ receiving' = FALSE
    /\ \E data \in Received :
          /\ due' = due \cup {[handler |-> "received", data |-> data]}
          /\ incoming' = IF data = Error THEN incoming ELSE incoming - data
    /\ UNCHANGED <<conn, sending, continuation, finishing, resumed, result, server, outgoing>>

(* Bytes still arrive after the connection was cancelled, or are lost.     *)
Arrive ==
    /\ outgoing > 0 /\ conn # "failed" /\ daemon # "gone" /\ line < CommandLength
    /\ outgoing' = outgoing - 1 /\ line' = line + 1
    /\ UNCHANGED <<client, daemon, executed, answer, incoming>>

-----------------------------------------------------------------------------
(* The callbacks of send(), run one after the other or at once.            *)

(* Faulty: the box is looked into and emptied without its lock.            *)
FinishUnlocked(by, outcome) ==
    /\ finishing' = finishing \cup (IF continuation THEN {<<by, outcome>>} ELSE {})
    /\ UNCHANGED continuation

(* ContinuationBox.finish() under its lock: the first one takes the        *)
(* continuation, any other returns.                                        *)
Finish(by, outcome) ==
    /\ finishing' = finishing \cup (IF continuation THEN {<<by, outcome>>} ELSE {})
    /\ continuation' = FALSE

Ignore == UNCHANGED <<finishing, continuation>>

(* Faulty: the command is sent while the connection still waits.           *)
SendsEarly == {"waiting", "ready"}

(* The state in which the command is sent; others than this and "failed"   *)
(* fall to default: break.                                                 *)
Sends == {"ready"}

StateChanged(state) ==
    /\ [handler |-> "state", state |-> state] \in due
    /\ due' = due \ {[handler |-> "state", state |-> state]}
    /\ IF state \in Sends
       THEN sending' = TRUE /\ outgoing' = outgoing + CommandLength
       ELSE UNCHANGED <<sending, outgoing>>
    /\ IF state = "failed" THEN Finish("state", Error) ELSE Ignore
    /\ UNCHANGED <<conn, receiving, resumed, result, server, incoming>>

Sent(ok) ==
    /\ [handler |-> "sent", ok |-> ok] \in due
    /\ due' = due \ {[handler |-> "sent", ok |-> ok]}
    /\ receiving' = (receiving \/ ok)
    /\ IF ok THEN Ignore ELSE Finish("sent", Error)
    /\ UNCHANGED <<conn, sending, resumed, result, server, outgoing, incoming>>

(* Faulty: the last byte is taken for the newline.                         *)
AllButLast(data) == data - 1

(* What precedes the newline if it is there, else all that came.           *)
FirstLine(data) == IF data >= EventLength THEN EventLength - 1 ELSE data

(* Faulty: the end of the stream is not told from a reply yet to come.     *)
FinishWithData(data) == IF data = Error THEN Ignore ELSE Finish("received", FirstLine(data))

FinishReceive(data) == Finish("received", IF data = Error THEN Error ELSE FirstLine(data))

DataReceived(data) ==
    /\ [handler |-> "received", data |-> data] \in due
    /\ due' = due \ {[handler |-> "received", data |-> data]}
    /\ FinishReceive(data)
    /\ UNCHANGED <<conn, sending, receiving, resumed, result, server, outgoing, incoming>>

(* The rest of finish(), outside the lock.                                 *)
Resume(by, outcome) ==
    /\ <<by, outcome>> \in finishing
    /\ finishing' = finishing \ {<<by, outcome>>}
    /\ conn' = IF conn = "failed" THEN conn ELSE "cancelled"
    /\ resumed' = resumed + 1 /\ result' = outcome
    /\ continuation' = FALSE
    /\ UNCHANGED <<due, sending, receiving, server, outgoing, incoming>>

-----------------------------------------------------------------------------
(* serve_control_client.                                                   *)

TakeLine ==
    /\ daemon = "reading" /\ line = CommandLength
    /\ line' = 0 /\ daemon' = "executing"
    /\ UNCHANGED <<client, executed, answer, outgoing, incoming>>

(* Whatever the command does is in Engine and RuleStore.                   *)
Execute ==
    /\ daemon = "executing"
    /\ executed' = executed + 1
    /\ daemon' = "answering" /\ answer' = EventLength
    /\ UNCHANGED <<client, line, outgoing, incoming>>

(* Lost once the connection is closed, without an error at first.          *)
WriteAnswer ==
    /\ daemon = "answering" /\ answer > 0
    /\ answer' = answer - 1
    /\ incoming' = IF conn = "ready" THEN incoming + 1 ELSE incoming
    /\ UNCHANGED <<client, daemon, line, executed, outgoing>>

Answered ==
    /\ daemon = "answering" /\ answer = 0
    /\ daemon' = "reading"
    /\ UNCHANGED <<client, line, executed, answer, outgoing, incoming>>

(* The last line ends with the stream.  next_line() returns it although    *)
(* the newline is missing: if nothing else is, it is the command.          *)
LastLine ==
    /\ daemon = "reading" /\ conn \in Closed /\ line = CommandLength - 1
    /\ line' = 0 /\ outgoing' = 0 /\ daemon' = "executing"
    /\ UNCHANGED <<client, executed, answer, incoming>>

(* Less than that does not parse, and is answered invalid_command.         *)
EndOfLine ==
    /\ daemon = "reading" /\ conn \in Closed /\ 0 < line /\ line < CommandLength - 1
    /\ line' = 0 /\ outgoing' = 0
    /\ daemon' = "answering" /\ answer' = EventLength
    /\ UNCHANGED <<client, executed, incoming>>

EndOfStream ==
    /\ daemon = "reading" /\ conn \in Closed /\ line = 0
    /\ daemon' = "gone"
    /\ UNCHANGED <<client, line, executed, answer, outgoing, incoming>>

(* A read or a write that fails ends the task, whatever it was at.         *)
Reset ==
    /\ daemon \in {"reading", "answering"} /\ conn \in Closed
    /\ daemon' = "gone"
    /\ UNCHANGED <<client, line, executed, answer, outgoing, incoming>>

(* The daemon is stopped, or it never ran.                                 *)
Stop ==
    /\ daemon # "gone" /\ daemon' = "gone"
    /\ UNCHANGED <<client, line, executed, answer, outgoing, incoming>>

-----------------------------------------------------------------------------
Network == Connect \/ SendCompletes \/ ReceiveCompletes \/ Arrive

Client ==
    \/ \E state \in {"waiting", "ready", "failed"} : StateChanged(state)
    \/ \E ok \in BOOLEAN : Sent(ok)
    \/ \E data \in {Error} \cup 1 .. ReceiveLimit : DataReceived(data)
    \/ \E by \in Handlers, outcome \in Results : Resume(by, outcome)

Task == TakeLine \/ LastLine \/ WriteAnswer \/ Answered \/ EndOfLine \/ EndOfStream

Quiescent == due = {} /\ finishing = {} /\ daemon = "gone" /\ UNCHANGED vars

Next == Network \/ Wait \/ Fail \/ Client \/ Task \/ Execute \/ Reset \/ Stop \/ Quiescent

Spec == Init /\ [][Next]_vars

(* The queue runs what is due, the network moves bytes, tokio runs ready   *)
(* tasks.  Nothing makes a waiting connection ready or fail, and a command *)
(* may take for ever.                                                      *)
FairSpec ==
    /\ Spec
    /\ WF_vars(SendCompletes) /\ WF_vars(ReceiveCompletes) /\ WF_vars(Arrive)
    /\ WF_vars(Client) /\ WF_vars(Task)
    /\ WF_vars(conn = "preparing" /\ (Connect \/ Wait))

-----------------------------------------------------------------------------
(* One operation is outstanding at a time, and nothing is received before  *)
(* it was sent (EngineClient.swift:309-316).                               *)
TypeOK ==
    /\ conn \in Open \cup Closed
    /\ due \subseteq Callbacks
    /\ sending \in BOOLEAN /\ receiving \in BOOLEAN /\ ~(sending /\ receiving)
    /\ continuation \in BOOLEAN /\ finishing \subseteq Handlers \X Results
    /\ resumed \in Nat /\ result \in Results
    /\ outgoing \in 0 .. CommandLength /\ line \in 0 .. CommandLength
    /\ daemon \in {"reading", "executing", "answering", "gone"}
    /\ executed \in Nat /\ answer \in 0 .. EventLength /\ incoming \in 0 .. EventLength

(* The caller is resumed once, however the failure of the connection, of   *)
(* the send and of the receive overlap; a second time would end the        *)
(* application (EngineClient.swift:354-374).                               *)
ResumedOnce ==
    /\ resumed <= 1
    /\ continuation <=> (resumed = 0 /\ finishing = {})

(* The command of a call runs at most once, whatever fails and in whatever *)
(* pieces it comes, also if the stream ends before its newline, and it has *)
(* run if its caller got an answer (EngineClient.swift:307-327,            *)
(* main.rs:185-257).  A caller that was given an error may send it again   *)
(* on a connection of its own, which this does not count.                  *)
RunsOnce ==
    /\ executed <= 1
    /\ result # Error => executed = 1

(* A call receives once, and takes the first piece of an event for the     *)
(* line (EngineClient.swift:316-327).  Of what was written nothing is lost *)
(* before that: if the caller is given less than the line, all the rest is *)
(* still on its way, or to be written.                                     *)
PartialOnlyIfEarly ==
    [][ resumed' # resumed /\ result' # Error /\ conn = "ready"
        => result' = EventLength - 1 \/ result' + incoming + answer = EventLength ]_vars

(* A call returns, unless the connection waits for ever or the command     *)
(* does not end: every failure reaches the caller                          *)
(* (EngineClient.swift:301-341).                                           *)
CallReturns ==
    <>(resumed > 0) \/ <>[](conn = "waiting") \/ <>[](daemon = "executing")

(* The daemon's task ends with the connection, even if it breaks inside a  *)
(* line or an event (main.rs:185-259).                                     *)
TaskEnds == (conn \in Closed) ~> (daemon = "gone" \/ daemon = "executing")

(* Neither end of a call is left behind by the other                       *)
(* (EngineClient.swift:301-341, main.rs:185-259).                          *)
BothEndsReturn == CallReturns /\ TaskEnds
=============================================================================
