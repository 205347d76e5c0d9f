----------------------------- MODULE TrafficView -----------------------------
(***************************************************************************)
(* The traffic list of the application (ContentView in                     *)
(* macos/Sources/ProxymanCloneApp/ProxymanCloneApp.swift) over the log of  *)
(* the daemon: it is listed every second while it is shown, and a replay   *)
(* adds its result at once.  Both are calls that are answered, fail or     *)
(* wait (ControlChannel); the view's state only changes between them, on   *)
(* the main actor.                                                         *)
(*                                                                         *)
(* What the daemon does is CaptureLog, which Engine implements; a daemon   *)
(* that restarts begins another log, with the same ids.                    *)
(***************************************************************************)
EXTENDS Integers, Sequences

CONSTANTS
    Capacity,          \* of the daemon's log
    Limit,             \* of a listing: the newest records (250)
    MaxIds,            \* bounds the model: ids that one daemon issues
    MaxRestarts        \* bounds the model

ASSUME TrafficViewAssumption ==
    /\ Capacity \in Nat \ {0} /\ Limit \in Nat \ {0} /\ MaxIds \in Nat /\ MaxRestarts \in Nat

VARIABLES
    issued, reserved, log,     \* the daemon's log
    epoch,                     \* how often it was restarted
    workspace,                 \* what the window shows
    transactions,              \* the records the view holds
    selected,                  \* selectedID
    listings,                  \* the refresh() at work, if any
    replay                     \* the replay() at work, if any

daemon == <<issued, reserved, log, epoch>>
view == <<workspace, transactions, selected>>
vars == <<daemon, view, listings, replay>>

None == 0

Record == [id : 1 .. MaxIds, state : {"pending", "complete", "failed"}, epoch : 0 .. MaxRestarts]

Idle == [stage |-> "idle"]
Sent == [stage |-> "sent"]

(* isChecking and isReplaying.                                             *)
IsChecking == listings # << >>
IsReplaying == replay # Idle

Log == INSTANCE CaptureLog

(* Records as the application decodes them; the epoch is a ghost.          *)
Shown(records) ==
    [i \in DOMAIN records |-> [id |-> records[i].id, state |-> records[i].state, epoch |-> epoch]]

Listed == SubSeq(log, 1, IF Len(log) < Limit THEN Len(log) ELSE Limit)

Ids(records) == {records[i].id : i \in DOMAIN records}

Init ==
    /\ Log!Init /\ epoch = 0
    /\ workspace = "traffic" /\ transactions = << >> /\ selected = None
    /\ listings = << >> /\ replay = Idle

-----------------------------------------------------------------------------
(* The daemon.                                                             *)

Capture ==
    /\ \/ issued < MaxIds /\ Log!Issue
       \/ Log!Record
       \/ Log!Settle
    /\ UNCHANGED <<epoch, view, listings, replay>>

(* A replay at work is broken off.  A call that was only sent fails, as it *)
(* always may, or has not reached the old daemon and reaches the new one.  *)
Restart ==
    /\ epoch < MaxRestarts
    /\ epoch' = epoch + 1
    /\ issued' = 0 /\ reserved' = {} /\ log' = << >>
    /\ replay' = IF replay.stage = "running" THEN Idle ELSE replay
    /\ UNCHANGED <<view, listings>>

(* The whole listing is received and decoded.  "overtaken" is a ghost: a   *)
(* replay is shown after the listing was made.                             *)
List(k) ==
    /\ listings[k] = Sent
    /\ listings' = [listings EXCEPT ![k] =
                       [stage |-> "answered", records |-> Shown(Listed), overtaken |-> FALSE]]
    /\ UNCHANGED <<daemon, view, replay>>

(* The record of the replay is added to the log as any other.              *)
BeginReplay ==
    /\ replay.stage = "sent" /\ replay.source \in Ids(log)
    /\ issued < MaxIds /\ Log!Issue
    /\ replay' = [stage |-> "running", id |-> issued']
    /\ UNCHANGED <<epoch, view, listings>>

AnswerReplay ==
    /\ replay.stage = "running"
    /\ \E i \in DOMAIN log :
          /\ log[i].id = replay.id /\ log[i].state = "complete"
          /\ replay' = [stage |-> "answered", record |-> Shown(log)[i]]
    /\ UNCHANGED <<daemon, view, listings>>

-----------------------------------------------------------------------------
(* The view.                                                               *)

(* Faulty: the answer of an earlier listing is not waited for.             *)
RefreshAgain ==
    /\ workspace = "traffic" /\ Len(listings) < 2
    /\ listings' = Append(listings, Sent)
    /\ UNCHANGED <<daemon, view, replay>>

(* refresh(), from the timer or the button.                                *)
Refresh ==
    /\ workspace = "traffic" /\ ~IsChecking
    /\ listings' = Append(listings, Sent)
    /\ UNCHANGED <<daemon, view, replay>>

Reselect(records) == selected' = IF selected \in Ids(records) THEN selected ELSE None

Returned(k) == listings' = [i \in 1 .. Len(listings) - 1 |-> listings[IF i < k THEN i ELSE i + 1]]

ShowListing(k) ==
    /\ listings[k].stage = "answered"
    /\ Returned(k)
    /\ transactions' = listings[k].records
    /\ Reselect(listings[k].records)
    /\ UNCHANGED <<daemon, workspace, replay>>

(* Faulty: a refresh that failed leaves isChecking set.                    *)
RefreshFailsUnnoticed(k) ==
    /\ listings[k] = Sent
    /\ listings' = [listings EXCEPT ![k].stage = "failed"]
    /\ UNCHANGED <<daemon, view, replay>>

(* Either of its two calls failed, or what was received, which is only the *)
(* first piece of the answer (EngineClient.swift:316-326), does not        *)
(* decode; what is shown stays.                                            *)
RefreshFails(k) ==
    /\ listings[k] = Sent
    /\ Returned(k)
    /\ UNCHANGED <<daemon, view, replay>>

(* A connection that nothing accepts waits, with the call, until the       *)
(* network changes.                                                        *)
RefreshWaits(k) ==
    /\ listings[k] = Sent
    /\ listings' = [listings EXCEPT ![k].stage = "waiting"]
    /\ UNCHANGED <<daemon, view, replay>>

NetworkChanges(k) ==
    /\ listings[k].stage = "waiting"
    /\ listings' = [listings EXCEPT ![k] = Sent]
    /\ UNCHANGED <<daemon, view, replay>>

Replay(i) ==
    /\ workspace = "traffic" /\ ~IsReplaying
    /\ i \in DOMAIN transactions /\ transactions[i].id = selected
    /\ replay' = [stage |-> "sent", source |-> selected]
    /\ UNCHANGED <<daemon, view, listings>>

(* Faulty: the result is added although a listing already showed it.       *)
Prepended(record) == <<record>> \o transactions

WithReplayed(record) ==
    IF record.id \in Ids(transactions)
    THEN [i \in DOMAIN transactions |->
             IF transactions[i].id = record.id THEN record ELSE transactions[i]]
    ELSE <<record>> \o transactions

ShowReplay ==
    /\ replay.stage = "answered"
    /\ replay' = Idle
    /\ transactions' = WithReplayed(replay.record)
    /\ selected' = replay.record.id
    /\ listings' = [k \in DOMAIN listings |->
                       IF listings[k].stage = "answered"
                       THEN [listings[k] EXCEPT !.overtaken = TRUE] ELSE listings[k]]
    /\ UNCHANGED <<daemon, workspace>>

(* Refused, failed, or its record was evicted.                             *)
ReplayFails ==
    /\ replay.stage \in {"sent", "running"}
    /\ replay' = Idle
    /\ UNCHANGED <<daemon, view, listings>>

Select(id) ==
    /\ workspace = "traffic" /\ id \in Ids(transactions) \cup {None} /\ id # selected
    /\ selected' = id
    /\ UNCHANGED <<daemon, workspace, transactions, listings, replay>>

(* The task that lists every second is cancelled and started again with    *)
(* the workspace; the calls go on.                                         *)
ShowWorkspace(w) ==
    /\ w # workspace
    /\ workspace' = w
    /\ listings' = IF w = "traffic" /\ ~IsChecking THEN <<Sent>> ELSE listings
    /\ UNCHANGED <<daemon, transactions, selected, replay>>

Next ==
    \/ Capture \/ Restart \/ Refresh
    \/ \E k \in DOMAIN listings :
          \/ List(k) \/ ShowListing(k) \/ RefreshFails(k)
          \/ RefreshWaits(k) \/ NetworkChanges(k)
    \/ \E i \in DOMAIN transactions : Replay(i)
    \/ BeginReplay \/ AnswerReplay \/ ShowReplay \/ ReplayFails
    \/ \E id \in 0 .. MaxIds : Select(id)
    \/ \E w \in {"traffic", "rules"} : ShowWorkspace(w)

Spec == Init /\ [][Next]_vars

(* The timer fires while the list is shown, and the main actor runs what   *)
(* is ready.  Nothing makes the daemon answer, or a call return.           *)
FairSpec ==
    /\ Spec
    /\ WF_vars(Refresh)
    /\ WF_vars(\E k \in DOMAIN listings : ShowListing(k))

-----------------------------------------------------------------------------
(* One refresh is at work at a time (ProxymanCloneApp.swift:402-404), so   *)
(* the list is what the daemon held, and perhaps a replay.                 *)
TypeOK ==
    /\ workspace \in {"traffic", "rules"}
    /\ transactions \in Seq(Record) /\ Len(transactions) <= Limit + MaxIds
    /\ selected \in 0 .. MaxIds
    /\ Len(listings) <= 1
    /\ \A k \in DOMAIN listings : listings[k].stage \in {"sent", "waiting", "answered"}
    /\ replay.stage \in {"idle", "sent", "running", "answered"}

(* The list never shows an id twice, although a replay's record may come   *)
(* with its own answer, with a listing, with both in either order, or from *)
(* another daemon (ProxymanCloneApp.swift:346-351, 414-417).               *)
ShownOnce ==
    \A i, j \in DOMAIN transactions : transactions[i].id = transactions[j].id => i = j

(* What is selected is shown: the inspector is never empty while the view  *)
(* takes a record for selected (ProxymanCloneApp.swift:351, 414-417).      *)
SelectionShown == selected = None \/ selected \in Ids(transactions)

(* The view is one of the daemon's records, each once, and of a selection  *)
(* among them (ProxymanCloneApp.swift:346-351, 402-417).                   *)
ViewIsConsistent == TypeOK /\ ShownOnce /\ SelectionShown

(* A listing on its way that does not know the replay shown since.         *)
Overtaken == \E k \in DOMAIN listings : listings[k].stage = "answered" /\ listings[k].overtaken

(* What was shown as settled is shown as pending again.                    *)
StepsBack ==
    \E i \in DOMAIN transactions, j \in DOMAIN transactions' :
        /\ transactions[i].id = transactions'[j].id
        /\ transactions[i].epoch = transactions'[j].epoch
        /\ transactions[i].state # "pending" /\ transactions'[j].state = "pending"

(* A record that the daemon still lists is no longer selected, although    *)
(* the user selected no other and no replay is shown.                      *)
LosesSelection ==
    /\ \E i \in DOMAIN transactions :
          transactions[i].id = selected /\ transactions[i].epoch = epoch
    /\ selected \in Ids(Listed) /\ selected' # selected
    /\ transactions' # transactions /\ replay' = replay

(* A listing takes back nothing that the user has seen, of the daemon it   *)
(* comes from, or picked; only one that a replay has overtaken takes the   *)
(* replayed record back (ProxymanCloneApp.swift:351, 402-404, 414-417).    *)
NothingTakenBack == [][ StepsBack \/ LosesSelection => Overtaken ]_vars

UpToDate == workspace = "traffic" /\ transactions = Shown(Listed)

(* A call that nothing answers, or that waits for a daemon that listens,   *)
(* and that keeps the next refresh from being made.                        *)
CallNeverReturns == <>[](\E k \in DOMAIN listings : listings[k].stage \in {"sent", "waiting"})

(* Calls that all fail from some time on: nothing accepts them, or the     *)
(* listing is so long that the one piece that is received never holds it.  *)
EveryCallFails ==
    /\ <>[][\A k \in DOMAIN listings : ~List(k)]_vars
    /\ []<><<\E k \in DOMAIN listings : RefreshFails(k)>>_vars

(* The list "refreshes captured traffic automatically"                     *)
(* (docs/GETTING_STARTED.md:61): while it is shown it comes to hold what   *)
(* the daemon lists, through failures and restarts, once the daemon is at  *)
(* rest, unless one call never returns or all of them fail in the end      *)
(* (ProxymanCloneApp.swift:92-98, 402-424): no refresh that fails keeps    *)
(* the next one from being made.                                           *)
FollowsDaemon ==
    []<>UpToDate \/ <>[](workspace = "rules") \/ CallNeverReturns \/ EveryCallFails
=============================================================================
