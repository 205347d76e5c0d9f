-------------------------- MODULE TrafficViewProofs --------------------------
(***************************************************************************)
(* What TrafficView promises, proved for every capacity, limit and number  *)
(* of ids and restarts.                                                    *)
(***************************************************************************)
EXTENDS TrafficView, FunctionTheorems, FiniteSetTheorems, SequenceTheorems, TLAPS

-----------------------------------------------------------------------------
(* The inductive invariant.                                                *)

Entry == [id : 1 .. MaxIds, state : {"pending", "complete", "failed"}]

Distinct(records) ==
    \A i, j \in DOMAIN records : records[i].id = records[j].id => i = j

(* The ids of the daemon's log are its own, and those that it still has to *)
(* record are not in it.                                                   *)
LogInv ==
    /\ issued \in 0 .. MaxIds /\ epoch \in 0 .. MaxRestarts
    /\ reserved \subseteq 1 .. issued
    /\ log \in Seq(Entry)
    /\ \A i \in DOMAIN log : log[i].id <= issued /\ log[i].id \notin reserved
    /\ Distinct(log)

(* What the application may hold of a record: it is of a daemon that has   *)
(* run, and the one that runs has issued and recorded its id and has       *)
(* settled it if the application knows it as settled.                      *)
Known(r) ==
    /\ r \in Record /\ r.epoch <= epoch
    /\ r.epoch = epoch =>
          /\ r.id <= issued /\ r.id \notin reserved
          /\ \A i \in DOMAIN log :
                log[i].id = r.id /\ log[i].state = "pending" => r.state = "pending"

ViewInv ==
    /\ workspace \in {"traffic", "rules"}
    /\ transactions \in Seq(Record)
    /\ \A i \in DOMAIN transactions : Known(transactions[i])
    /\ selected \in 0 .. MaxIds

(* A listing on its way takes back nothing of what is shown.               *)
Current(records) ==
    \A i \in DOMAIN transactions :
        /\ transactions[i].epoch = epoch /\ transactions[i].id \in Ids(Listed)
              => transactions[i].id \in Ids(records)
        /\ \A j \in DOMAIN records :
              /\ records[j].id = transactions[i].id
              /\ records[j].epoch = transactions[i].epoch
              /\ records[j].state = "pending"
              => transactions[i].state = "pending"

Answers == [stage : {"answered"}, records : Seq(Record), overtaken : BOOLEAN]
Calls == {Sent, [stage |-> "waiting"]} \cup Answers

GoodAnswer(call) ==
    /\ call \in Answers /\ Distinct(call.records)
    /\ \A i \in DOMAIN call.records : Known(call.records[i])
    /\ call.overtaken \/ Current(call.records)

ListingInv ==
    /\ listings \in Seq(Calls) /\ Len(listings) <= 1
    /\ \A k \in DOMAIN listings :
          listings[k].stage = "answered" => GoodAnswer(listings[k])

ReplayInv ==
    \/ replay = Idle
    \/ replay \in [stage : {"sent"}, source : 1 .. MaxIds]
    \/ replay \in [stage : {"running"}, id : 1 .. MaxIds]
    \/ /\ replay \in [stage : {"answered"}, record : Record]
       /\ Known(replay.record) /\ replay.record.state = "complete"

IInv == LogInv /\ ViewInv /\ ShownOnce /\ SelectionShown /\ ListingInv /\ ReplayInv

-----------------------------------------------------------------------------
(* The log.                                                                *)

LEMMA IdsAre ==
    ASSUME NEW records, NEW n
    PROVE  n \in Ids(records) <=> \E i \in DOMAIN records : records[i].id = n
BY DEF Ids

LEMMA LogEntries ==
    ASSUME LogInv
    PROVE  /\ Len(log) \in Nat /\ DOMAIN log = 1 .. Len(log)
           /\ \A i \in DOMAIN log :
                 /\ log[i] \in Entry /\ log[i].id \in 1 .. MaxIds
                 /\ log[i].id \in Nat /\ log[i].id <= issued /\ log[i].id \notin reserved
<1>1. log \in Seq(Entry)
  BY DEF LogInv
<1>2. \A i \in DOMAIN log : log[i] \in Entry
  BY <1>1, ElementOfSeq
<1>3. \A e \in Entry : e.id \in 1 .. MaxIds /\ e.id \in Nat
  BY DEF Entry
<1> QED
  BY <1>1, <1>2, <1>3 DEF LogInv

(* Listing takes the newest records.                                       *)
LEMMA ListedIsStart ==
    ASSUME LogInv
    PROVE  /\ Listed \in Seq(Entry)
           /\ Len(Listed) = (IF Len(log) < Limit THEN Len(log) ELSE Limit)
           /\ DOMAIN Listed = {i \in DOMAIN log : i <= Limit}
           /\ \A i \in DOMAIN Listed : Listed[i] = log[i]
<1> DEFINE n == IF Len(log) < Limit THEN Len(log) ELSE Limit
<1>1. log \in Seq(Entry) /\ Len(log) \in Nat /\ DOMAIN log = 1 .. Len(log)
  BY DEF LogInv
<1>2. n \in Nat /\ n <= Len(log) /\ n <= Limit
  BY <1>1, TrafficViewAssumption
<1>3. \A i \in 1 .. n : log[i] \in Entry
  BY <1>1, <1>2, LogEntries
<1>4. /\ SubSeq(log, 1, n) = [i \in 1 .. n |-> log[i]]
      /\ SubSeq(log, 1, n) \in Seq(Entry) /\ Len(SubSeq(log, 1, n)) = n
  BY <1>1, <1>2, <1>3, SubSeqProperties
<1>5. Listed = SubSeq(log, 1, n)
  BY DEF Listed
<1>6. 1 .. n = {i \in DOMAIN log : i <= Limit}
  BY <1>1, <1>2, TrafficViewAssumption
<1> QED
  BY <1>1, <1>2, <1>4, <1>5, <1>6

(* What an append or a settling does to the log: each record of it is one  *)
(* that was reserved or stood in it, at the same place or one before.      *)
Grows ==
    /\ epoch' = epoch
    /\ issued <= issued' /\ reserved' \subseteq reserved \cup {issued + 1}
    /\ issued + 1 \in reserved' => issued' = issued + 1
    /\ \A j \in DOMAIN log' :
          \/ log'[j].id \in reserved
          \/ \E i \in DOMAIN log :
                /\ i <= j /\ log'[j].id = log[i].id
                /\ log'[j].state = "pending" => log[i].state = "pending"

LogSteps == ((issued < MaxIds /\ Log!Issue) \/ Log!Record \/ Log!Settle) /\ epoch' = epoch

LEMMA RecordShape ==
    ASSUME LogInv, Log!Record
    PROVE  \E n \in reserved :
              /\ reserved' = reserved \ {n} /\ issued' = issued
              /\ log' \in Seq(Entry) /\ 1 \in DOMAIN log'
              /\ log'[1].id = n
              /\ \A j \in DOMAIN log' \ {1} : j - 1 \in DOMAIN log /\ log'[j] = log[j - 1]
<1> DEFINE m == IF Len(log) < Capacity THEN Len(log) + 1 ELSE Capacity
<1>1. PICK n \in reserved :
         /\ reserved' = reserved \ {n} /\ issued' = issued
         /\ log' = [i \in 1 .. m |->
                       IF i = 1 THEN [id |-> n, state |-> "pending"] ELSE log[i - 1]]
  BY DEF Log!Record
<1>2. log \in Seq(Entry) /\ Len(log) \in Nat /\ DOMAIN log = 1 .. Len(log)
  BY DEF LogInv
<1>3. m \in Nat /\ 1 <= m /\ m <= Len(log) + 1
  BY <1>2, TrafficViewAssumption
<1>4. [id |-> n, state |-> "pending"] \in Entry
  <2>1. n \in 1 .. issued /\ issued \in 0 .. MaxIds
    BY <1>1 DEF LogInv
  <2>2. n \in 1 .. MaxIds
    BY <2>1, TrafficViewAssumption
  <2> QED
    BY <2>2 DEF Entry
<1>5. \A i \in 1 .. m : i # 1 => i - 1 \in DOMAIN log /\ log[i - 1] \in Entry
  BY <1>2, <1>3, LogEntries
<1> HIDE DEF m
<1>6. DOMAIN log' = 1 .. m /\ \A i \in 1 .. m : log'[i] \in Entry
  BY <1>1, <1>3, <1>4, <1>5
<1>7. log' = [i \in 1 .. m |-> log'[i]]
  BY <1>1
<1>8. log' \in Seq(Entry)
  BY <1>3, <1>6, <1>7, IsASeq
<1>9. 1 \in 1 .. m
  BY <1>3
<1> QED
  BY <1>1, <1>5, <1>6, <1>8, <1>9

LEMMA SettleShape ==
    ASSUME LogInv, Log!Settle
    PROVE  /\ reserved' = reserved /\ issued' = issued
           /\ log' \in Seq(Entry) /\ DOMAIN log' = DOMAIN log
           /\ \A j \in DOMAIN log :
                 /\ log'[j].id = log[j].id
                 /\ log'[j].state = "pending" => log[j].state = "pending"
<1>1. PICK i \in DOMAIN log, outcome \in {"complete", "failed"} :
         /\ log' = [log EXCEPT ![i].state = outcome]
         /\ UNCHANGED <<issued, reserved>>
  BY DEF Log!Settle
<1>2. log \in Seq(Entry) /\ Len(log) \in Nat /\ DOMAIN log = 1 .. Len(log)
  BY DEF LogInv
<1>3. \A j \in DOMAIN log : log[j] \in Entry
  BY LogEntries
<1>4. [log[i] EXCEPT !.state = outcome] \in Entry
  BY <1>1, <1>3 DEF Entry
<1>5. log' = [log EXCEPT ![i] = [log[i] EXCEPT !.state = outcome]]
  BY <1>1
<1>6. log' \in Seq(Entry)
  BY <1>1, <1>2, <1>4, <1>5
<1>7. DOMAIN log' = DOMAIN log
  BY <1>5
<1>8. ASSUME NEW j \in DOMAIN log
      PROVE  log'[j].id = log[j].id /\ (log'[j].state = "pending" => log[j].state = "pending")
  <2>1. CASE j = i
    <3>1. log'[j] = [log[i] EXCEPT !.state = outcome]
      BY <1>5, <2>1, <1>1
    <3>2. log'[j].id = log[i].id /\ log'[j].state = outcome
      BY <3>1, <1>3, <1>1
    <3> QED
      BY <3>2, <2>1, <1>1
  <2>2. CASE j # i
    BY <1>5, <2>2
  <2> QED
    BY <2>1, <2>2
<1> QED
  BY <1>1, <1>6, <1>7, <1>8

LEMMA LogGrows == LogInv /\ LogSteps => Grows
<1> SUFFICES ASSUME LogInv, LogSteps PROVE Grows
  OBVIOUS
<1>0. issued \in Nat /\ DOMAIN log \subseteq Nat
  BY DEF LogInv
<1>1. CASE issued < MaxIds /\ Log!Issue
  <2>1. issued' = issued + 1 /\ reserved' = reserved \cup {issued + 1} /\ log' = log
    BY <1>1 DEF Log!Issue
  <2>2. \A j \in DOMAIN log : j <= j
    BY <1>0
  <2> QED
    BY <1>0, <2>1, <2>2 DEF Grows, LogSteps
<1>2. CASE Log!Record
  <2>1. PICK n \in reserved :
              /\ reserved' = reserved \ {n} /\ issued' = issued
              /\ log' \in Seq(Entry)
              /\ log'[1].id = n
              /\ \A j \in DOMAIN log' \ {1} : j - 1 \in DOMAIN log /\ log'[j] = log[j - 1]
    BY <1>2, RecordShape
  <2>2. issued + 1 \notin reserved
    BY DEF LogInv
  <2>3. ASSUME NEW j \in DOMAIN log', j # 1
        PROVE  \E i \in DOMAIN log :
                  /\ i <= j /\ log'[j].id = log[i].id
                  /\ log'[j].state = "pending" => log[i].state = "pending"
    <3>1. j \in Nat
      BY <2>1
    <3>2. j - 1 \in DOMAIN log /\ log'[j] = log[j - 1] /\ j - 1 <= j
      BY <2>1, <2>3, <3>1
    <3> QED
      BY <3>2
  <2> QED
    BY <1>0, <2>1, <2>2, <2>3 DEF Grows, LogSteps
<1>3. CASE Log!Settle
  <2>1. issued + 1 \notin reserved
    BY DEF LogInv
  <2>2. \A j \in DOMAIN log : j <= j
    BY <1>0
  <2> QED
    BY <1>0, <1>3, <2>1, <2>2, SettleShape DEF Grows, LogSteps
<1> QED
  BY <1>1, <1>2, <1>3 DEF LogSteps

LEMMA LogNext == LogInv /\ LogSteps => LogInv'
<1> SUFFICES ASSUME LogInv, LogSteps PROVE LogInv'
  OBVIOUS
<1>0. issued \in Nat /\ MaxIds \in Nat /\ DOMAIN log \subseteq Nat
  BY TrafficViewAssumption DEF LogInv
<1>1. CASE issued < MaxIds /\ Log!Issue
  <2>1. issued' = issued + 1 /\ reserved' = reserved \cup {issued + 1} /\ log' = log /\ epoch' = epoch
    BY <1>1 DEF Log!Issue, LogSteps
  <2>2. \A i \in DOMAIN log : log[i].id \in Nat /\ log[i].id <= issued
    BY LogEntries
  <2> QED
    BY <1>0, <1>1, <2>1, <2>2 DEF LogInv, Distinct
<1>2. CASE Log!Record
  <2>1. PICK n \in reserved :
              /\ reserved' = reserved \ {n} /\ issued' = issued
              /\ log' \in Seq(Entry)
              /\ log'[1].id = n
              /\ \A j \in DOMAIN log' \ {1} : j - 1 \in DOMAIN log /\ log'[j] = log[j - 1]
    BY <1>2, RecordShape
  <2>2. n <= issued /\ \A i \in DOMAIN log : log[i].id # n
    BY LogEntries DEF LogInv
  <2>3. \A j \in DOMAIN log' \ {1} :
           log'[j].id # n /\ log'[j].id <= issued /\ log'[j].id \notin reserved
    BY <2>1, <2>2 DEF LogInv
  <2>4. ASSUME NEW i \in DOMAIN log', NEW j \in DOMAIN log', log'[i].id = log'[j].id
        PROVE  i = j
    <3>1. CASE i = 1 \/ j = 1
      BY <2>1, <2>3, <2>4, <3>1
    <3>2. CASE i # 1 /\ j # 1
      <4>1. i - 1 \in DOMAIN log /\ j - 1 \in DOMAIN log /\ log[i - 1].id = log[j - 1].id
        BY <2>1, <2>4, <3>2
      <4>2. i - 1 = j - 1
        BY <4>1 DEF LogInv, Distinct
      <4>3. i \in Nat /\ j \in Nat
        BY <2>1
      <4> QED
        BY <4>2, <4>3
    <3> QED
      BY <3>1, <3>2
  <2>5. Distinct(log')
    BY <2>4 DEF Distinct
  <2>6. \A i \in DOMAIN log' : log'[i].id <= issued /\ log'[i].id \notin reserved'
    BY <2>1, <2>2, <2>3
  <2> QED
    BY <2>1, <2>5, <2>6 DEF LogInv, LogSteps
<1>3. CASE Log!Settle
  BY <1>3, SettleShape DEF LogInv, LogSteps, Distinct
<1> QED
  BY <1>1, <1>2, <1>3 DEF LogSteps

-----------------------------------------------------------------------------
(* The steps, sorted by what they do to the daemon.                        *)

LEMMA StepKinds ==
    ASSUME IInv, [Next]_vars
    PROVE  \/ UNCHANGED daemon
           \/ /\ LogSteps /\ UNCHANGED <<view, listings>>
              /\ replay' = replay \/ replay' = [stage |-> "running", id |-> issued']
           \/ Restart
<1>1. CASE Capture
  BY <1>1 DEF Capture, LogSteps
<1>2. CASE BeginReplay
  BY <1>2 DEF BeginReplay, LogSteps
<1>3. CASE Refresh \/ AnswerReplay \/ ShowReplay \/ ReplayFails
  BY <1>3 DEF Refresh, AnswerReplay, ShowReplay, ReplayFails, daemon
<1>4. ASSUME NEW k \in DOMAIN listings,
             \/ List(k) \/ ShowListing(k) \/ RefreshFails(k)
             \/ RefreshWaits(k) \/ NetworkChanges(k)
      PROVE  UNCHANGED daemon
  BY <1>4 DEF List, ShowListing, RefreshFails, RefreshWaits, NetworkChanges, daemon
<1>5. ASSUME NEW i, NEW id, NEW w, Replay(i) \/ Select(id) \/ ShowWorkspace(w)
      PROVE  UNCHANGED daemon
  BY <1>5 DEF Replay, Select, ShowWorkspace, daemon
<1> QED
  BY <1>1, <1>2, <1>3, <1>4, <1>5 DEF Next, vars, daemon

LEMMA LogInvNext == IInv /\ [Next]_vars => LogInv'
<1> SUFFICES ASSUME IInv, [Next]_vars PROVE LogInv'
  OBVIOUS
<1>1. CASE UNCHANGED daemon
  BY <1>1 DEF IInv, LogInv, daemon
<1>2. CASE LogSteps
  BY <1>2, LogNext DEF IInv
<1>3. CASE Restart
  <2>1. << >> \in Seq(Entry) /\ DOMAIN << >> = {}
    OBVIOUS
  <2>2. epoch' \in 0 .. MaxRestarts /\ 0 \in 0 .. MaxIds
    BY <1>3, TrafficViewAssumption DEF Restart, IInv, LogInv
  <2> QED
    BY <1>3, <2>1, <2>2 DEF Restart, LogInv, Distinct
<1> QED
  BY <1>1, <1>2, <1>3, StepKinds

(* What the application knows of a record stays true, whatever the daemon  *)
(* does next.                                                              *)
LEMMA KnownStays ==
    ASSUME IInv, [Next]_vars, NEW r, Known(r)
    PROVE  Known(r)'
<1>0. r.id \in Nat /\ r.epoch \in Nat /\ epoch \in Nat /\ issued \in Nat
  BY DEF Known, Record, IInv, LogInv
<1>1. CASE UNCHANGED daemon
  BY <1>1 DEF Known, daemon
<1>2. CASE LogSteps
  <2>1. Grows /\ LogInv'
    BY <1>2, LogGrows, LogNext DEF IInv
  <2>2. issued' \in Nat
    BY <2>1 DEF LogInv
  <2>3. ASSUME r.epoch = epoch
        PROVE  /\ r.id <= issued' /\ r.id \notin reserved'
               /\ \A j \in DOMAIN log' :
                     log'[j].id = r.id /\ log'[j].state = "pending" => r.state = "pending"
    <3>1. r.id <= issued /\ r.id \notin reserved /\ r.id # issued + 1
      BY <2>3, <1>0 DEF Known
    <3>2. r.id <= issued' /\ r.id \notin reserved'
      BY <3>1, <2>1, <2>2, <1>0 DEF Grows
    <3>3. ASSUME NEW j \in DOMAIN log', log'[j].id = r.id, log'[j].state = "pending"
          PROVE  r.state = "pending"
      <4>1. PICK i \in DOMAIN log : log'[j].id = log[i].id /\ log[i].state = "pending"
        BY <2>1, <3>1, <3>3 DEF Grows
      <4> QED
        BY <4>1, <3>3, <2>3 DEF Known
    <3> QED
      BY <3>2, <3>3
  <2> QED
    BY <2>1, <2>3 DEF Known, Grows
<1>3. CASE Restart
  BY <1>0, <1>3 DEF Restart, Known
<1> QED
  BY <1>1, <1>2, <1>3, StepKinds

ListsNewest ==
    /\ DOMAIN Listed = {i \in DOMAIN log : i <= Limit}
    /\ \A i \in DOMAIN Listed : Listed[i] = log[i]

LEMMA ListingIsNewest == LogInv => ListsNewest
BY ListedIsStart DEF ListsNewest

(* What is listed is what was listed, and what was reserved.               *)
LEMMA ListedGrows ==
    ASSUME LogInv, LogSteps, NEW n, n \in Ids(Listed)'
    PROVE  n \in reserved \/ n \in Ids(Listed)
<1>1. Grows /\ LogInv'
  BY LogGrows, LogNext
<1>2. /\ DOMAIN Listed = {i \in DOMAIN log : i <= Limit}
      /\ \A i \in DOMAIN Listed : Listed[i] = log[i]
  BY ListedIsStart
<1>7. ListsNewest'
  BY <1>1, ListingIsNewest, PTL
<1>3. /\ DOMAIN Listed' = {i \in DOMAIN log' : i <= Limit}
      /\ \A i \in DOMAIN Listed' : Listed'[i] = log'[i]
  BY <1>7 DEF ListsNewest
<1>4. PICK j \in DOMAIN Listed' : Listed'[j].id = n
  BY DEF Ids
<1>5. CASE log'[j].id \in reserved
  BY <1>3, <1>4, <1>5
<1>6. ASSUME NEW i \in DOMAIN log, i <= j, log'[j].id = log[i].id
      PROVE  n \in Ids(Listed)
  <2>1. j \in Nat /\ i \in Nat /\ Limit \in Nat /\ j <= Limit
    BY <1>1, <1>3, <1>4, TrafficViewAssumption DEF LogInv
  <2>2. i \in DOMAIN Listed /\ Listed[i].id = n
    BY <1>2, <1>3, <1>4, <1>6, <2>1
  <2> QED
    BY <2>2 DEF Ids
<1> QED
  BY <1>1, <1>3, <1>4, <1>5, <1>6 DEF Grows

-----------------------------------------------------------------------------
(* The listings.                                                           *)

LEMMA CallKinds ==
    ASSUME NEW call \in Calls
    PROVE  /\ call.stage \in {"sent", "waiting", "answered"}
           /\ call.stage = "answered" <=> call \in Answers
BY DEF Calls, Answers, Sent

(* At most one listing is on its way.                                      *)
LEMMA OneListing ==
    ASSUME ListingInv, NEW k \in DOMAIN listings
    PROVE  /\ k = 1 /\ Len(listings) = 1 /\ DOMAIN listings = {1}
           /\ listings = <<listings[1]>> /\ listings[1] \in Calls
<1>1. listings \in Seq(Calls) /\ Len(listings) \in Nat /\ DOMAIN listings = 1 .. Len(listings)
  BY DEF ListingInv
<1>2. Len(listings) = 1 /\ k = 1
  BY <1>1 DEF ListingInv
<1>3. listings[1] \in Calls
  BY <1>1, <1>2, ElementOfSeq
<1> QED
  BY <1>1, <1>2, <1>3

LEMMA NoListing ==
    ASSUME ListingInv, DOMAIN listings = {}
    PROVE  listings = << >>
<1>1. listings \in Seq(Calls) /\ Len(listings) \in Nat /\ DOMAIN listings = 1 .. Len(listings)
  BY DEF ListingInv
<1>2. Len(listings) = 0
  BY <1>1
<1> QED
  BY <1>1, <1>2

(* What is shown of the current daemon is not reserved.                    *)
LEMMA ShownIsRecorded ==
    ASSUME ViewInv, NEW i \in DOMAIN transactions, transactions[i].epoch = epoch
    PROVE  transactions[i].id \notin reserved
BY DEF ViewInv, Known

(* An answer on its way stays good as long as the list does not change ... *)
LEMMA AnswerStays ==
    ASSUME IInv, [Next]_vars, NEW call, GoodAnswer(call), UNCHANGED transactions
    PROVE  GoodAnswer(call)'
<1>1. call \in Answers /\ Distinct(call.records)
  BY DEF GoodAnswer
<1>2. \A i \in DOMAIN call.records : Known(call.records[i])'
  BY KnownStays DEF GoodAnswer
<1>3. ASSUME Current(call.records)
      PROVE  Current(call.records)'
  <2>1. ASSUME NEW i \in DOMAIN transactions,
               transactions[i].epoch = epoch', transactions[i].id \in Ids(Listed)'
        PROVE  transactions[i].id \in Ids(call.records)
    <3>1. CASE UNCHANGED daemon
      BY <2>1, <3>1, <1>3 DEF daemon, Listed, Current, Ids
    <3>2. CASE LogSteps
      <4>1. epoch' = epoch
        BY <3>2 DEF LogSteps
      <4>2. transactions[i].id \notin reserved
        BY <2>1, <4>1, ShownIsRecorded DEF IInv
      <4>3. transactions[i].id \in Ids(Listed)
        BY <2>1, <3>2, <4>2, ListedGrows DEF IInv
      <4> QED
        BY <2>1, <4>1, <4>3, <1>3 DEF Current
    <3>3. CASE Restart
      <4>1. transactions[i].epoch <= epoch /\ epoch' = epoch + 1 /\ epoch \in Nat
        BY <3>3 DEF IInv, ViewInv, Known, Restart, LogInv
      <4> QED
        BY <2>1, <4>1
    <3> QED
      BY <3>1, <3>2, <3>3, StepKinds
  <2>2. \A i \in DOMAIN transactions, j \in DOMAIN call.records :
           /\ call.records[j].id = transactions[i].id
           /\ call.records[j].epoch = transactions[i].epoch
           /\ call.records[j].state = "pending"
           => transactions[i].state = "pending"
    BY <1>3 DEF Current
  <2>3. Ids(call.records)' = Ids(call.records)
    BY DEF Ids
  <2> QED
    BY <2>1, <2>2, <2>3 DEF Current
<1> QED
  BY <1>1, <1>2, <1>3 DEF GoodAnswer, Distinct

(* ... and when a replay changes it, it is overtaken.                      *)
LEMMA OvertakenStays ==
    ASSUME IInv, [Next]_vars, NEW call, GoodAnswer(call)
    PROVE  GoodAnswer([call EXCEPT !.overtaken = TRUE])'
<1> DEFINE after == [call EXCEPT !.overtaken = TRUE]
<1>1. call \in Answers /\ Distinct(call.records)
  BY DEF GoodAnswer
<1>2. after \in Answers /\ after.records = call.records /\ after.overtaken
  BY <1>1 DEF Answers
<1>3. \A i \in DOMAIN call.records : Known(call.records[i])'
  BY KnownStays DEF GoodAnswer
<1> HIDE DEF after
<1>4. GoodAnswer(after)'
  BY <1>1, <1>2, <1>3 DEF GoodAnswer, Distinct
<1> QED
  BY <1>4 DEF after

(* A listing is of the daemon's newest records.                            *)
LEMMA ListingIsGood ==
    ASSUME IInv
    PROVE  GoodAnswer([stage |-> "answered", records |-> Shown(Listed), overtaken |-> FALSE])
<1> DEFINE call == [stage |-> "answered", records |-> Shown(Listed), overtaken |-> FALSE]
<1>1. /\ DOMAIN Listed = {i \in DOMAIN log : i <= Limit}
      /\ \A i \in DOMAIN Listed : Listed[i] = log[i]
      /\ Listed \in Seq(Entry) /\ Len(Listed) \in Nat /\ DOMAIN Listed = 1 .. Len(Listed)
  BY ListedIsStart DEF IInv
<1>2. /\ DOMAIN Shown(Listed) = DOMAIN Listed
      /\ \A i \in DOMAIN Listed :
            /\ i \in DOMAIN log
            /\ Shown(Listed)[i] = [id |-> log[i].id, state |-> log[i].state, epoch |-> epoch]
            /\ Shown(Listed)[i].id = log[i].id /\ Shown(Listed)[i].epoch = epoch
            /\ Shown(Listed)[i].state = log[i].state
  BY <1>1 DEF Shown
<1>3. ASSUME NEW i \in DOMAIN Listed
      PROVE  Shown(Listed)[i] \in Record /\ Known(Shown(Listed)[i])
  <2>1. /\ log[i] \in Entry /\ log[i].id <= issued /\ log[i].id \notin reserved
        /\ epoch \in 0 .. MaxRestarts /\ epoch <= epoch
    BY <1>2, LogEntries DEF IInv, LogInv
  <2>2. Shown(Listed)[i] \in Record
    BY <1>2, <2>1 DEF Entry, Record
  <2>3. \A j \in DOMAIN log : log[j].id = log[i].id => log[j].state = log[i].state
    BY <1>2 DEF IInv, LogInv, Distinct
  <2> QED
    BY <1>2, <2>1, <2>2, <2>3 DEF Known
<1>4. Shown(Listed) \in Seq(Record)
  <2> DEFINE s == Shown(Listed)
             n == Len(Listed)
  <2>1. s = [i \in 1 .. n |-> s[i]]
    BY <1>1, <1>2 DEF Shown
  <2>2. n \in Nat /\ \A i \in 1 .. n : s[i] \in Record
    BY <1>1, <1>3
  <2> HIDE DEF s, n
  <2>3. s \in Seq(Record)
    BY <2>1, <2>2, IsASeq
  <2> QED
    BY <2>3 DEF s
<1>5. Distinct(Shown(Listed))
  BY <1>2 DEF IInv, LogInv, Distinct
<1>6. Current(Shown(Listed))
  <2>1. ASSUME NEW i \in DOMAIN transactions, transactions[i].id \in Ids(Listed)
        PROVE  transactions[i].id \in Ids(Shown(Listed))
    BY <1>1, <1>2, <2>1 DEF Ids
  <2>2. ASSUME NEW i \in DOMAIN transactions, NEW j \in DOMAIN Listed,
               Shown(Listed)[j].id = transactions[i].id,
               Shown(Listed)[j].epoch = transactions[i].epoch,
               Shown(Listed)[j].state = "pending"
        PROVE  transactions[i].state = "pending"
    <3>1. Known(transactions[i]) /\ transactions[i].epoch = epoch
      BY <1>2, <2>2 DEF IInv, ViewInv
    <3> QED
      BY <1>2, <2>2, <3>1 DEF Known
  <2> QED
    BY <1>2, <2>1, <2>2 DEF Current
<1>7. call \in Answers /\ call.records = Shown(Listed)
  BY <1>4 DEF Answers
<1> HIDE DEF call
<1>8. GoodAnswer(call)
  BY <1>2, <1>3, <1>5, <1>6, <1>7 DEF GoodAnswer
<1> QED
  BY <1>8 DEF call

(* The steps that change neither the list nor the listings.                *)
LEMMA ListingsKept ==
    ASSUME IInv, [Next]_vars, UNCHANGED <<transactions, listings>>
    PROVE  ListingInv'
<1>1. \A k \in DOMAIN listings : listings[k].stage = "answered" => GoodAnswer(listings[k])'
  BY AnswerStays DEF IInv, ListingInv
<1> QED
  BY <1>1 DEF IInv, ListingInv

(* The steps that move the only listing on: it is gone, or sent, waiting   *)
(* or answered.                                                            *)
LEMMA ListingGone == listings' = << >> => ListingInv'
<1>1. << >> \in Seq(Calls) /\ Len(<< >>) = 0 /\ DOMAIN << >> = {}
  OBVIOUS
<1> QED
  BY <1>1 DEF ListingInv

LEMMA ListingMoves ==
    ASSUME IInv, [Next]_vars, UNCHANGED transactions,
           NEW call \in Calls, listings' = <<call>>, call.stage = "answered" => GoodAnswer(call)
    PROVE  ListingInv'
<1>1. call.stage = "answered" => GoodAnswer(call)'
  BY AnswerStays
<1>2. <<call>> \in Seq(Calls) /\ Len(<<call>>) = 1 /\ DOMAIN <<call>> = {1} /\ <<call>>[1] = call
  OBVIOUS
<1> QED
  BY <1>1, <1>2 DEF ListingInv

LEMMA ReturnedIsGone ==
    ASSUME ListingInv, NEW k \in DOMAIN listings, Returned(k)
    PROVE  listings' = << >>
<1>1. Len(listings) = 1
  BY OneListing
<1>2. listings' = [i \in 1 .. 0 |-> listings[IF i < k THEN i ELSE i + 1]]
  BY <1>1 DEF Returned
<1>3. DOMAIN listings' = {} /\ listings' = [i \in 1 .. 0 |-> listings'[i]]
  BY <1>2
<1>4. \A i \in 1 .. 0 : listings'[i] \in Calls
  OBVIOUS
<1>5. listings' \in Seq(Calls)
  BY <1>3, <1>4, IsASeq
<1>6. DOMAIN listings' = 1 .. Len(listings') /\ Len(listings') \in Nat
  BY <1>5
<1>7. Len(listings') = 0
  BY <1>3, <1>6
<1> QED
  BY <1>5, <1>7, EmptySeq

LEMMA ReplacedInOne ==
    ASSUME ListingInv, NEW k \in DOMAIN listings, NEW call
    PROVE  [listings EXCEPT ![k] = call] = <<call>>
<1>1. k = 1 /\ DOMAIN listings = {1}
  BY OneListing
<1>2. DOMAIN <<call>> = {1} /\ <<call>>[1] = call
  OBVIOUS
<1> QED
  BY <1>1, <1>2

LEMMA ListingInvNext == IInv /\ [Next]_vars => ListingInv'
<1> SUFFICES ASSUME IInv, [Next]_vars PROVE ListingInv'
  OBVIOUS
<1> USE DEF Calls
<1>0. ListingInv /\ Sent \in Calls /\ Sent.stage # "answered"
  BY DEF IInv, Sent
<1>1. CASE UNCHANGED <<transactions, listings>>
  BY <1>1, ListingsKept
<1>2. ASSUME listings = << >>, listings' = <<Sent>>, UNCHANGED transactions
      PROVE  ListingInv'
  BY <1>0, <1>2, ListingMoves
<1>3. CASE Refresh
  <2>1. DOMAIN listings = {} /\ listings' = Append(listings, Sent) /\ transactions' = transactions
    BY <1>3, NoListing DEF Refresh, IsChecking, view
  <2> QED
    BY <1>0, <1>2, <2>1, NoListing
<1>4. ASSUME NEW k \in DOMAIN listings, List(k)
      PROVE  ListingInv'
  <2> DEFINE call == [stage |-> "answered", records |-> Shown(Listed), overtaken |-> FALSE]
  <2>1. listings' = <<call>> /\ transactions' = transactions
    BY <1>0, <1>4, ReplacedInOne DEF List, view
  <2>2. GoodAnswer(call) /\ call \in Calls
    BY ListingIsGood DEF GoodAnswer
  <2> HIDE DEF call
  <2> QED
    BY <2>1, <2>2, ListingMoves
<1>5. ASSUME NEW k \in DOMAIN listings, ShowListing(k) \/ RefreshFails(k)
      PROVE  ListingInv'
  BY <1>0, <1>5, ReturnedIsGone, ListingGone DEF ShowListing, RefreshFails
<1>6. ASSUME NEW k \in DOMAIN listings, RefreshWaits(k)
      PROVE  ListingInv'
  <2>1. listings[k] = Sent /\ k \in DOMAIN listings /\ transactions' = transactions
    BY <1>6 DEF RefreshWaits, view
  <2>2. listings' = [listings EXCEPT ![k] = [stage |-> "waiting"]]
    <3>1. [Sent EXCEPT !.stage = "waiting"] = [stage |-> "waiting"]
      BY DEF Sent
    <3>2. listings' = [listings EXCEPT ![k] = [listings[k] EXCEPT !.stage = "waiting"]]
      BY <1>6 DEF RefreshWaits
    <3> QED
      BY <2>1, <3>1, <3>2
  <2>3. listings' = <<[stage |-> "waiting"]>>
    BY <1>0, <2>1, <2>2, ReplacedInOne
  <2>4. [stage |-> "waiting"].stage # "answered"
    OBVIOUS
  <2> QED
    BY <2>1, <2>3, <2>4, ListingMoves
<1>7. ASSUME NEW k \in DOMAIN listings, NetworkChanges(k)
      PROVE  ListingInv'
  <2>1. listings' = <<Sent>> /\ transactions' = transactions
    BY <1>0, <1>7, ReplacedInOne DEF NetworkChanges, view
  <2> QED
    BY <1>0, <2>1, ListingMoves
<1>8. CASE ShowReplay
  <2>1. CASE DOMAIN listings = {}
    <3>1. DOMAIN listings' = {} /\ listings = << >>
      BY <1>0, <1>8, <2>1, NoListing DEF ShowReplay
    <3>2. listings' = << >>
      BY <1>8, <3>1 DEF ShowReplay
    <3> QED
      BY <3>2, ListingGone
  <2>2. ASSUME NEW k \in DOMAIN listings
        PROVE  ListingInv'
    <3>1. DOMAIN listings = {1} /\ 1 \in DOMAIN listings /\ listings[1] \in Calls
      BY <1>0, <2>2, OneListing
    <3>2. PICK old \in Calls : old = listings[1]
      BY <3>1
    <3>3. PICK new : new = IF old.stage = "answered" THEN [old EXCEPT !.overtaken = TRUE] ELSE old
      OBVIOUS
    <3>4. listings' = [i \in {1} |-> new]
      BY <1>8, <3>1, <3>2, <3>3 DEF ShowReplay
    <3>5. listings' = <<new>> /\ DOMAIN <<new>> = {1} /\ <<new>>[1] = new /\ Len(<<new>>) = 1
      BY <3>4
    <3>6. new \in Calls /\ (new.stage = "answered" => GoodAnswer(new)')
      <4>1. CASE old.stage = "answered"
        <5>1. old \in Answers
          BY <4>1, CallKinds
        <5>2. [old EXCEPT !.overtaken = TRUE] \in Answers
          BY <5>1 DEF Answers
        <5>3. GoodAnswer(old)
          BY <1>0, <3>1, <3>2, <4>1 DEF ListingInv
        <5>4. GoodAnswer([old EXCEPT !.overtaken = TRUE])'
          BY <5>3, OvertakenStays
        <5> QED
          BY <3>3, <4>1, <5>2, <5>4
      <4>2. CASE old.stage # "answered"
        BY <3>3, <4>2
      <4> QED
        BY <4>1, <4>2
    <3>7. <<new>> \in Seq(Calls)
      BY <3>6
    <3> QED
      BY <3>5, <3>6, <3>7 DEF ListingInv
  <2> QED
    BY <2>1, <2>2
<1>9. ASSUME NEW w, ShowWorkspace(w)
      PROVE  ListingInv'
  <2>1. CASE w = "traffic" /\ ~IsChecking
    BY <1>2, <1>9, <2>1 DEF ShowWorkspace, IsChecking
  <2>2. CASE ~(w = "traffic" /\ ~IsChecking)
    BY <1>1, <1>9, <2>2 DEF ShowWorkspace
  <2> QED
    BY <2>1, <2>2
<1>10. CASE Capture \/ Restart \/ BeginReplay \/ AnswerReplay \/ ReplayFails
  BY <1>1, <1>10 DEF Capture, Restart, BeginReplay, AnswerReplay, ReplayFails, view
<1>11. ASSUME NEW i, NEW id, Replay(i) \/ Select(id)
       PROVE  ListingInv'
  BY <1>1, <1>11 DEF Replay, Select, view
<1>12. CASE UNCHANGED vars
  BY <1>1, <1>12 DEF vars, view
<1> QED
  BY <1>3, <1>4, <1>5, <1>6, <1>7, <1>8, <1>9, <1>10, <1>11, <1>12 DEF Next

-----------------------------------------------------------------------------
(* The replay.                                                             *)

LEMMA RecordIsGood ==
    ASSUME LogInv, NEW i \in DOMAIN log
    PROVE  /\ Shown(log)[i] \in Record /\ Known(Shown(log)[i])
           /\ Shown(log)[i].state = log[i].state
<1>1. /\ Shown(log)[i] = [id |-> log[i].id, state |-> log[i].state, epoch |-> epoch]
      /\ Shown(log)[i].id = log[i].id /\ Shown(log)[i].epoch = epoch
      /\ Shown(log)[i].state = log[i].state
  BY DEF Shown
<1>2. /\ log[i] \in Entry /\ log[i].id <= issued /\ log[i].id \notin reserved
      /\ epoch \in 0 .. MaxRestarts /\ epoch <= epoch
  BY LogEntries DEF LogInv
<1>3. Shown(log)[i] \in Record
  BY <1>1, <1>2 DEF Entry, Record
<1>4. \A j \in DOMAIN log : log[j].id = log[i].id => log[j].state = log[i].state
  BY DEF LogInv, Distinct
<1> QED
  BY <1>1, <1>2, <1>3, <1>4 DEF Known

LEMMA ReplayKept ==
    ASSUME IInv, [Next]_vars, replay' = replay
    PROVE  ReplayInv'
<1>1. CASE replay \in [stage : {"answered"}, record : Record] /\ Known(replay.record)
           /\ replay.record.state = "complete"
  <2>1. PICK r : r = replay.record
    OBVIOUS
  <2>2. Known(r)'
    BY <1>1, <2>1, KnownStays
  <2> QED
    BY <1>1, <2>1, <2>2 DEF ReplayInv
<1>2. CASE ~(replay \in [stage : {"answered"}, record : Record] /\ Known(replay.record)
             /\ replay.record.state = "complete")
  BY <1>2 DEF IInv, ReplayInv
<1> QED
  BY <1>1, <1>2

LEMMA ShownIds ==
    ASSUME ViewInv, NEW i \in DOMAIN transactions
    PROVE  transactions[i] \in Record /\ transactions[i].id \in 1 .. MaxIds
<1>1. transactions[i] \in Record
  BY DEF ViewInv, Known
<1> QED
  BY <1>1 DEF Record

LEMMA ReplayInvNext == IInv /\ [Next]_vars => ReplayInv'
<1> SUFFICES ASSUME IInv, [Next]_vars PROVE ReplayInv'
  OBVIOUS
<1>1. CASE replay' = replay
  BY <1>1, ReplayKept
<1>2. CASE replay' = Idle
  BY <1>2 DEF ReplayInv
<1>3. CASE BeginReplay
  <2>1. replay' = [stage |-> "running", id |-> issued + 1]
    BY <1>3 DEF BeginReplay, Log!Issue
  <2>2. issued + 1 \in 1 .. MaxIds
    BY <1>3, TrafficViewAssumption DEF BeginReplay, IInv, LogInv
  <2> QED
    BY <2>1, <2>2 DEF ReplayInv
<1>4. CASE AnswerReplay
  <2>1. PICK i \in DOMAIN log : /\ log[i].state = "complete"
                                /\ replay' = [stage |-> "answered", record |-> Shown(log)[i]]
    BY <1>4 DEF AnswerReplay
  <2>2. PICK r : r = Shown(log)[i]
    OBVIOUS
  <2>3. r \in Record /\ Known(r)' /\ r.state = "complete"
    BY <2>1, <2>2, RecordIsGood, KnownStays DEF IInv
  <2>4. replay' = [stage |-> "answered", record |-> r]
    BY <2>1, <2>2
  <2>5. replay'.record = r /\ replay' \in [stage : {"answered"}, record : Record]
    BY <2>3, <2>4
  <2> QED
    BY <2>3, <2>5 DEF ReplayInv
<1>5. ASSUME NEW i, Replay(i)
      PROVE  ReplayInv'
  <2>1. replay' = [stage |-> "sent", source |-> selected] /\ selected \in 1 .. MaxIds
    BY <1>5, ShownIds DEF Replay, IInv
  <2> QED
    BY <2>1 DEF ReplayInv
<1>6. CASE Restart
  BY <1>1, <1>2, <1>6 DEF Restart
<1>7. CASE ShowReplay \/ ReplayFails
  BY <1>2, <1>7 DEF ShowReplay, ReplayFails
<1>8. CASE Capture \/ Refresh
  BY <1>1, <1>8 DEF Capture, Refresh
<1>9. ASSUME NEW k, \/ List(k) \/ ShowListing(k) \/ RefreshFails(k)
                    \/ RefreshWaits(k) \/ NetworkChanges(k)
      PROVE  ReplayInv'
  BY <1>1, <1>9 DEF List, ShowListing, RefreshFails, RefreshWaits, NetworkChanges
<1>10. ASSUME NEW id, NEW w, Select(id) \/ ShowWorkspace(w)
       PROVE  ReplayInv'
  BY <1>1, <1>10 DEF Select, ShowWorkspace
<1>11. CASE UNCHANGED vars
  BY <1>1, <1>11 DEF vars
<1> QED
  BY <1>3, <1>4, <1>5, <1>6, <1>7, <1>8, <1>9, <1>10, <1>11 DEF Next

-----------------------------------------------------------------------------
(* The list and what is selected in it.                                    *)

(* The record of a replay takes the place of its own, or stands in front.  *)
LEMMA ReplayedShape ==
    ASSUME ViewInv, ShownOnce, NEW r \in Record
    PROVE  /\ WithReplayed(r) \in Seq(Record)
           /\ \A j \in DOMAIN WithReplayed(r) :
                 \/ WithReplayed(r)[j] = r
                 \/ \E i \in DOMAIN transactions :
                       WithReplayed(r)[j] = transactions[i] /\ transactions[i].id # r.id
           /\ r.id \in Ids(WithReplayed(r))
           /\ Distinct(WithReplayed(r))
<1> DEFINE s == WithReplayed(r)
<1>0. /\ transactions \in Seq(Record) /\ Len(transactions) \in Nat
      /\ DOMAIN transactions = 1 .. Len(transactions)
      /\ \A i \in DOMAIN transactions : transactions[i] \in Record
  BY ShownIds DEF ViewInv
<1>1. CASE r.id \in Ids(transactions)
  <2>1. s = [i \in DOMAIN transactions |->
                IF transactions[i].id = r.id THEN r ELSE transactions[i]]
    BY <1>1 DEF WithReplayed
  <2>2. /\ DOMAIN s = DOMAIN transactions
        /\ \A i \in DOMAIN transactions :
              s[i] = (IF transactions[i].id = r.id THEN r ELSE transactions[i])
    BY <2>1
  <2>3. s = [i \in 1 .. Len(transactions) |-> s[i]]
    BY <1>0, <2>1
  <2> HIDE DEF s
  <2>4. s \in Seq(Record)
    BY <1>0, <2>2, <2>3, IsASeq
  <2>5. \A i \in DOMAIN transactions : s[i].id = transactions[i].id
    BY <2>2
  <2>6. Distinct(s)
    BY <2>2, <2>5 DEF Distinct, ShownOnce
  <2>7. r.id \in Ids(s)
    BY <1>1, <2>2, <2>5 DEF Ids
  <2> QED
    BY <2>2, <2>4, <2>6, <2>7 DEF s
<1>2. CASE r.id \notin Ids(transactions)
  <2>1. s = <<r>> \o transactions
    BY <1>2 DEF WithReplayed
  <2> HIDE DEF s
  <2>2. /\ s \in Seq(Record) /\ Len(s) = 1 + Len(transactions) /\ s[1] = r
        /\ \A j \in 2 .. Len(s) : s[j] = transactions[j - 1] /\ j - 1 \in DOMAIN transactions
    BY <1>0, <2>1
  <2>3. DOMAIN s = 1 .. Len(s) /\ Len(s) \in Nat /\ 1 \in DOMAIN s
    BY <1>0, <2>2
  <2>4. \A i \in DOMAIN transactions : transactions[i].id # r.id
    BY <1>2 DEF Ids
  <2>5. \A j \in DOMAIN s : j # 1 => j \in 2 .. Len(s)
    BY <2>3
  <2>6. Distinct(s)
    <3>1. ASSUME NEW i \in DOMAIN s, NEW j \in DOMAIN s, s[i].id = s[j].id
          PROVE  i = j
      <4>1. CASE i = 1 \/ j = 1
        BY <2>2, <2>4, <2>5, <3>1, <4>1
      <4>2. CASE i # 1 /\ j # 1
        <5>1. i \in 2 .. Len(s) /\ j \in 2 .. Len(s)
          BY <2>5, <4>2
        <5>2. i - 1 = j - 1
          BY <2>2, <3>1, <5>1 DEF ShownOnce
        <5> QED
          BY <5>1, <5>2
      <4> QED
        BY <4>1, <4>2
    <3> QED
      BY <3>1 DEF Distinct
  <2>7. r.id \in Ids(s)
    BY <2>2, <2>3 DEF Ids
  <2>8. \A j \in DOMAIN s :
           \/ s[j] = r
           \/ \E i \in DOMAIN transactions : s[j] = transactions[i] /\ transactions[i].id # r.id
    BY <2>2, <2>4, <2>5
  <2> QED
    BY <2>2, <2>6, <2>7, <2>8 DEF s
<1> QED
  BY <1>1, <1>2

ShownInv == ViewInv /\ ShownOnce /\ SelectionShown

LEMMA KnownOfShown ==
    ASSUME IInv, [Next]_vars, transactions' = transactions
    PROVE  \A i \in DOMAIN transactions' : Known(transactions[i])'
<1>1. PICK s : s = transactions
  OBVIOUS
<1>2. \A i \in DOMAIN s : Known(s[i])'
  BY <1>1, KnownStays DEF IInv, ViewInv
<1> QED
  BY <1>1, <1>2

LEMMA ViewKept ==
    ASSUME IInv, [Next]_vars, UNCHANGED view
    PROVE  ShownInv'
<1>1. transactions' = transactions /\ selected' = selected /\ workspace' = workspace
  BY DEF view
<1>2. ViewInv'
  BY <1>1, KnownOfShown DEF IInv, ViewInv
<1>3. ShownOnce' /\ SelectionShown'
  BY <1>1 DEF IInv, ShownOnce, SelectionShown, Ids
<1> QED
  BY <1>2, <1>3 DEF ShownInv

LEMMA ShownInvNext == IInv /\ [Next]_vars => ShownInv'
<1> SUFFICES ASSUME IInv, [Next]_vars PROVE ShownInv'
  OBVIOUS
<1>0. ViewInv /\ ListingInv /\ ReplayInv /\ ShownOnce
  BY DEF IInv
<1>1. ASSUME NEW k \in DOMAIN listings, ShowListing(k)
      PROVE  ShownInv'
  <2>1. PICK s : s = listings[k].records
    OBVIOUS
  <2>2. /\ s \in Seq(Record) /\ Distinct(s) /\ \A i \in DOMAIN s : Known(s[i])
    BY <1>0, <1>1, <2>1 DEF ShowListing, ListingInv, GoodAnswer, Answers
  <2>3. /\ transactions' = s /\ workspace' = workspace
        /\ selected' = (IF selected \in Ids(s) THEN selected ELSE None)
    BY <1>1, <2>1 DEF ShowListing, Reselect
  <2>4. \A i \in DOMAIN s : Known(s[i])'
    BY <2>2, KnownStays
  <2>5. selected' \in 0 .. MaxIds
    BY <1>0, <2>3, TrafficViewAssumption DEF ViewInv, None
  <2>6. ViewInv'
    BY <1>0, <2>2, <2>3, <2>4, <2>5 DEF ViewInv
  <2>7. ShownOnce' /\ SelectionShown'
    BY <2>2, <2>3 DEF ShownOnce, SelectionShown, Distinct, Ids
  <2> QED
    BY <2>6, <2>7 DEF ShownInv
<1>2. CASE ShowReplay
  <2>1. PICK r : r = replay.record
    OBVIOUS
  <2>2. r \in Record /\ Known(r)
    BY <1>0, <1>2, <2>1 DEF ShowReplay, ReplayInv, Idle
  <2>3. PICK s : s = WithReplayed(r)
    OBVIOUS
  <2>4. transactions' = s /\ selected' = r.id /\ workspace' = workspace
    BY <1>2, <2>1, <2>3 DEF ShowReplay
  <2>5. /\ s \in Seq(Record) /\ Distinct(s) /\ r.id \in Ids(s)
        /\ \A j \in DOMAIN s : s[j] = r \/ \E i \in DOMAIN transactions : s[j] = transactions[i]
    BY <1>0, <2>2, <2>3, ReplayedShape
  <2>6. \A j \in DOMAIN s : Known(s[j])
    BY <1>0, <2>2, <2>5 DEF ViewInv
  <2>7. \A j \in DOMAIN s : Known(s[j])'
    BY <2>6, KnownStays
  <2>8. r.id \in 0 .. MaxIds
    BY <2>2, TrafficViewAssumption DEF Record
  <2>9. ViewInv'
    BY <1>0, <2>4, <2>5, <2>7, <2>8 DEF ViewInv
  <2>10. ShownOnce' /\ SelectionShown'
    BY <2>4, <2>5 DEF ShownOnce, SelectionShown, Distinct, Ids
  <2> QED
    BY <2>9, <2>10 DEF ShownInv
<1>3. ASSUME NEW id, Select(id)
      PROVE  ShownInv'
  <2>1. transactions' = transactions /\ selected' = id /\ workspace' = workspace
        /\ id \in Ids(transactions) \cup {None}
    BY <1>3 DEF Select
  <2>2. \A i \in DOMAIN transactions' : Known(transactions[i])'
    BY <2>1, KnownOfShown
  <2>3. id \in 0 .. MaxIds
    <3>1. None \in 0 .. MaxIds
      BY TrafficViewAssumption DEF None
    <3>2. ASSUME NEW i \in DOMAIN transactions, id = transactions[i].id
          PROVE  id \in 0 .. MaxIds
      <4>1. id \in 1 .. MaxIds
        BY <1>0, <3>2, ShownIds
      <4> QED
        BY <4>1, TrafficViewAssumption
    <3> QED
      BY <2>1, <3>1, <3>2 DEF Ids
  <2>4. ViewInv'
    BY <1>0, <2>1, <2>2, <2>3 DEF ViewInv
  <2>5. ShownOnce' /\ SelectionShown'
    BY <1>0, <2>1 DEF ShownOnce, SelectionShown, Ids
  <2> QED
    BY <2>4, <2>5 DEF ShownInv
<1>4. ASSUME NEW w \in {"traffic", "rules"}, ShowWorkspace(w)
      PROVE  ShownInv'
  <2>1. transactions' = transactions /\ selected' = selected /\ workspace' = w
    BY <1>4 DEF ShowWorkspace
  <2>2. \A i \in DOMAIN transactions' : Known(transactions[i])'
    BY <2>1, KnownOfShown
  <2>3. ViewInv'
    BY <1>0, <2>1, <2>2 DEF ViewInv
  <2>4. ShownOnce' /\ SelectionShown'
    BY <2>1 DEF IInv, ShownOnce, SelectionShown, Ids
  <2> QED
    BY <2>3, <2>4 DEF ShownInv
<1>5. CASE \/ Capture \/ Restart \/ BeginReplay \/ AnswerReplay \/ ReplayFails \/ Refresh
           \/ UNCHANGED vars
  BY <1>5, ViewKept
     DEF Capture, Restart, BeginReplay, AnswerReplay, ReplayFails, Refresh, vars
<1>6. ASSUME NEW k, List(k) \/ RefreshFails(k) \/ RefreshWaits(k) \/ NetworkChanges(k)
      PROVE  ShownInv'
  BY <1>6, ViewKept DEF List, RefreshFails, RefreshWaits, NetworkChanges
<1>7. ASSUME NEW i, Replay(i)
      PROVE  ShownInv'
  BY <1>7, ViewKept DEF Replay
<1> QED
  BY <1>1, <1>2, <1>3, <1>4, <1>5, <1>6, <1>7 DEF Next

-----------------------------------------------------------------------------
LEMMA IInvInit == Init => IInv
<1> SUFFICES ASSUME Init PROVE IInv
  OBVIOUS
<1>1. /\ << >> \in Seq(Entry) /\ << >> \in Seq(Record) /\ << >> \in Seq(Calls)
      /\ DOMAIN << >> = {} /\ Len(<< >>) = 0
  OBVIOUS
<1>2. 0 \in 0 .. MaxIds /\ 0 \in 0 .. MaxRestarts
  BY TrafficViewAssumption
<1>3. LogInv
  BY <1>1, <1>2 DEF Init, Log!Init, LogInv, Distinct
<1>4. ViewInv /\ ShownOnce /\ SelectionShown
  BY <1>1, <1>2 DEF Init, ViewInv, ShownOnce, SelectionShown, None
<1>5. ListingInv /\ ReplayInv
  BY <1>1 DEF Init, ListingInv, ReplayInv
<1> QED
  BY <1>3, <1>4, <1>5 DEF IInv

LEMMA IInvNext == IInv /\ [Next]_vars => IInv'
BY LogInvNext, ShownInvNext, ListingInvNext, ReplayInvNext DEF IInv, ShownInv

LEMMA Invariance == Spec => []IInv
BY IInvInit, IInvNext, PTL DEF Spec

(* As many records as there are ids can be shown once.                     *)
LEMMA ShownAreFew ==
    ASSUME ViewInv, ShownOnce
    PROVE  Len(transactions) <= MaxIds
<1> DEFINE n == Len(transactions)
           ids == [i \in 1 .. n |-> transactions[i].id]
<1>1. n \in Nat /\ DOMAIN transactions = 1 .. n
  BY DEF ViewInv
<1>2. ids \in [1 .. n -> 1 .. MaxIds]
  BY <1>1, ShownIds
<1>3. ids \in Injection(1 .. n, 1 .. MaxIds)
  BY <1>1, <1>2, Fun_IsInj DEF ShownOnce
<1>4. /\ IsFiniteSet(1 .. n) /\ Cardinality(1 .. n) = n
      /\ IsFiniteSet(1 .. MaxIds) /\ Cardinality(1 .. MaxIds) = MaxIds
  <2>1. ASSUME NEW m \in Nat
        PROVE  IsFiniteSet(1 .. m) /\ Cardinality(1 .. m) = m
    BY FS_Interval
  <2> QED
    BY <1>1, <2>1, TrafficViewAssumption
<1>5. Cardinality(1 .. n) <= Cardinality(1 .. MaxIds)
  BY <1>3, <1>4, FS_Injection
<1> QED
  BY <1>4, <1>5

(* The view only shows the daemon's records, each once, and what is        *)
(* selected is among them.                                                 *)
THEOREM ListIsConsistent == Spec => []ViewIsConsistent
<1>1. ASSUME IInv PROVE ViewIsConsistent
  <2>1. Len(transactions) <= Limit + MaxIds
    <3>1. Len(transactions) \in Nat /\ Len(transactions) <= MaxIds
      BY <1>1, ShownAreFew DEF IInv, ViewInv
    <3> QED
      BY <3>1, TrafficViewAssumption
  <2>2. \A k \in DOMAIN listings : listings[k].stage \in {"sent", "waiting", "answered"}
    <3>1. \A k \in DOMAIN listings : listings[k] \in Calls
      BY <1>1, OneListing DEF IInv
    <3> QED
      BY <3>1, CallKinds
  <2>3. replay.stage \in {"idle", "sent", "running", "answered"}
    BY <1>1 DEF IInv, ReplayInv, Idle
  <2>4. TypeOK
    BY <1>1, <2>1, <2>2, <2>3 DEF IInv, ViewInv, ListingInv, TypeOK
  <2> QED
    BY <1>1, <2>4 DEF IInv, ViewIsConsistent
<1> QED
  BY <1>1, Invariance, PTL

-----------------------------------------------------------------------------
(* Only a listing or a replay changes the list.                            *)
LEMMA ListChanges ==
    ASSUME [Next]_vars, transactions' # transactions
    PROVE  ShowReplay \/ \E k \in DOMAIN listings : ShowListing(k)
<1>1. CASE Capture \/ Restart \/ BeginReplay \/ AnswerReplay \/ ReplayFails \/ Refresh
  BY <1>1 DEF Capture, Restart, BeginReplay, AnswerReplay, ReplayFails, Refresh, view
<1>2. ASSUME NEW k, List(k) \/ RefreshFails(k) \/ RefreshWaits(k) \/ NetworkChanges(k)
      PROVE  FALSE
  BY <1>2 DEF List, RefreshFails, RefreshWaits, NetworkChanges, view
<1>3. ASSUME NEW i, NEW id, NEW w, Replay(i) \/ Select(id) \/ ShowWorkspace(w)
      PROVE  FALSE
  BY <1>3 DEF Replay, Select, ShowWorkspace, view
<1>4. CASE UNCHANGED vars
  BY <1>4 DEF vars, view
<1> QED
  BY <1>1, <1>2, <1>3, <1>4 DEF Next

LEMMA TakesNothingBack ==
    ASSUME IInv, [Next]_vars
    PROVE  StepsBack \/ LosesSelection => Overtaken
<1>1. CASE transactions' = transactions
  BY <1>1 DEF StepsBack, LosesSelection, IInv, ShownOnce
<1>2. CASE ShowReplay
  <2>1. PICK r : r = replay.record
    OBVIOUS
  <2>2. r \in Record /\ r.state = "complete" /\ replay' # replay
    BY <1>2, <2>1 DEF ShowReplay, IInv, ReplayInv, Idle
  <2>3. PICK s : s = WithReplayed(r)
    OBVIOUS
  <2>4. transactions' = s
    BY <1>2, <2>1, <2>3 DEF ShowReplay
  <2>5. \A j \in DOMAIN s : s[j] = r \/ \E i \in DOMAIN transactions : s[j] = transactions[i]
    BY <2>2, <2>3, ReplayedShape DEF IInv
  <2>6. ASSUME NEW i \in DOMAIN transactions, NEW j \in DOMAIN s,
               transactions[i].id = s[j].id, s[j].state = "pending"
        PROVE  transactions[i].state = "pending"
    <3>1. PICK m \in DOMAIN transactions : s[j] = transactions[m]
      BY <2>2, <2>5, <2>6
    <3> QED
      BY <2>6, <3>1 DEF IInv, ShownOnce
  <2> QED
    BY <2>2, <2>4, <2>6 DEF StepsBack, LosesSelection
<1>3. ASSUME NEW k \in DOMAIN listings, ShowListing(k), ~Overtaken
      PROVE  ~StepsBack /\ ~LosesSelection
  <2>1. PICK s : s = listings[k].records
    OBVIOUS
  <2>2. /\ transactions' = s
        /\ selected' = (IF selected \in Ids(s) THEN selected ELSE None)
    BY <1>3, <2>1 DEF ShowListing, Reselect
  <2>3. Current(s)
    BY <1>3, <2>1 DEF IInv, ListingInv, GoodAnswer, Overtaken, ShowListing
  <2> QED
    BY <2>2, <2>3 DEF StepsBack, LosesSelection, Current
<1> QED
  BY <1>1, <1>2, <1>3, ListChanges

(* A listing takes back nothing that the user has seen of the daemon it    *)
(* comes from, or picked, unless a replay was shown since it was made.     *)
THEOREM ListTakesNothingBack == Spec => NothingTakenBack
<1>1. IInv /\ [Next]_vars => [StepsBack \/ LosesSelection => Overtaken]_vars
  BY TakesNothingBack
<1> QED
  BY <1>1, Invariance, PTL DEF Spec, NothingTakenBack

=============================================================================
