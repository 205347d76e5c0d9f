------------------------- MODULE InterceptionProofs -------------------------
(***************************************************************************)
(* Proofs about Certificates when the directory belongs to one daemon, for *)
(* any number of starts, failures and kills: with two daemons the files    *)
(* need not keep the authority.  Then, what Certificates and LeafCache     *)
(* promise each for itself holds of the daemon that has both, over any     *)
(* number of starts.                                                       *)
(***************************************************************************)
EXTENDS Interception, TLAPS

(* No two daemons share the directory.                                     *)
Alone == \A d, e \in Daemons : d = e

Creating == {"generate", "open_key", "fill_key", "protect_key", "open_cert", "fill_cert"}
Serving  == {"bind", "running"}

-----------------------------------------------------------------------------
(* The inductive invariant.                                                *)

(* There is no certificate without a key.                                  *)
KeyIsFirst == cert_file # Absent => key_file # Absent

(* The certificate is written last: unless a failed check overlooked one,  *)
(* there is none before its key is whole, and a whole one belongs to the   *)
(* key in the other file.                                                  *)
CertificateIsLast ==
    cert_file \notin overlooked \cup {Absent} =>
        key_file \in Keys /\ (cert_file = Torn \/ cert_file = key_file)

(* What the daemon has in memory and has left in the files at each point.  *)
Progress ==
    \A d \in Daemons :
        /\ pc[d] \in {"check_key", "read_cert"} => cert_file # Absent
        /\ pc[d] = "read_key" => cert_file # Absent /\ cert[d] = cert_file
        /\ pc[d] \in Creating \ {"fill_cert"} => cert_file \in overlooked \cup {Absent}
        /\ pc[d] \in Creating => authority \in overlooked \cup {Absent}
        /\ pc[d] \in Creating \ {"generate"} => key[d] \in Keys /\ cert[d] = key[d]
        /\ pc[d] \in {"protect_key", "open_cert", "fill_cert"} => key_file = key[d]
        /\ pc[d] = "fill_cert" => cert_file = Torn
        /\ pc[d] \in Serving => /\ key[d] \in Keys /\ cert[d] \in Keys
                                /\ cert_file = cert[d] /\ key_file = key[d]

(* The key that was in use last is the one in the file, unless a failed    *)
(* check overlooked it.                                                    *)
AuthorityIsStored ==
    /\ authority # Absent => cert_file # Absent
    /\ authority \notin overlooked \cup {Absent} => key_file = authority

IInv == TypeOK /\ KeyIsFirst /\ CertificateIsLast /\ Progress /\ AuthorityIsStored

(* The invariant holds before the first start.                             *)
LEMMA InvInit == Init => IInv
BY CertificatesAssumption DEF Init, IInv, TypeOK, KeyIsFirst, CertificateIsLast, Progress,
                              AuthorityIsStored, Points, Contents, Creating, Serving

(* Each step of the only daemon preserves it.                              *)
LEMMA InvCheck ==
    ASSUME Alone, IInv, NEW d \in Daemons,
           Start(d) \/ CheckCert(d) \/ CheckKey(d) \/ BindFails(d) \/ Kill(d)
    PROVE  IInv'
<1> USE CertificatesAssumption DEF IInv, Alone, Moves, Goto, Points, Creating, Serving
<1> USE DEF Start, CheckCert, CheckKey, BindFails, Kill
<1>1. TypeOK'
  BY DEF TypeOK
<1>2. KeyIsFirst' /\ CertificateIsLast' /\ AuthorityIsStored'
  BY DEF TypeOK, Progress, KeyIsFirst, CertificateIsLast, AuthorityIsStored
<1>3. Progress'
  BY DEF TypeOK, Progress, KeyIsFirst, CertificateIsLast, AuthorityIsStored
<1> QED BY <1>1, <1>2, <1>3

(* A check that fails excuses what is then done to the files.              *)
LEMMA InvCheckFails ==
    ASSUME Alone, IInv, NEW d \in Daemons, CheckFails(d)
    PROVE  IInv'
<1> USE CertificatesAssumption DEF IInv, Alone, Goto, Points, Creating, Serving, CheckFails
<1>1. TypeOK' /\ KeyIsFirst'
  BY DEF TypeOK, KeyIsFirst
<1>2. KeyIsFirst' /\ CertificateIsLast' /\ AuthorityIsStored'
  BY DEF TypeOK, Progress, KeyIsFirst, CertificateIsLast, AuthorityIsStored
<1>3. Progress'
  BY DEF TypeOK, Progress, AuthorityIsStored
<1> QED BY <1>1, <1>2, <1>3

(* Reading the files finds two files that are there, and torn ones stop it. *)
LEMMA InvRead ==
    ASSUME Alone, IInv, NEW d \in Daemons, ReadCert(d) \/ ReadKey(d)
    PROVE  IInv'
<1> USE CertificatesAssumption DEF IInv, Alone, Goto, Points, Creating, Serving, Contents
<1> USE DEF ReadCert, ReadKey, ReadKeyThen
<1>1. TypeOK'
  BY DEF TypeOK, Progress, KeyIsFirst, CertificateIsLast, AuthorityIsStored
<1>2. KeyIsFirst' /\ CertificateIsLast' /\ AuthorityIsStored'
  BY DEF TypeOK, Progress, KeyIsFirst, CertificateIsLast, AuthorityIsStored
<1>3. Progress'
  BY DEF TypeOK, Progress, KeyIsFirst, CertificateIsLast, AuthorityIsStored
<1> QED BY <1>1, <1>2, <1>3

(* Generating and writing the key happens while there is no certificate.   *)
LEMMA InvKey ==
    ASSUME Alone, IInv, NEW d \in Daemons,
           Generate(d) \/ OpenKey(d) \/ FillKey(d) \/ ProtectKey(d) \/ WriteKeyFails(d)
    PROVE  IInv'
<1> USE CertificatesAssumption DEF IInv, Alone, Moves, Goto, Points, Creating, Serving, Contents
<1> USE DEF Generate, OpenKey, FillKey, ProtectKey, WriteKeyFails, WritesKey
<1>1. TypeOK'
  BY DEF TypeOK, Progress
<1>2. KeyIsFirst' /\ CertificateIsLast' /\ AuthorityIsStored'
  BY DEF TypeOK, Progress, KeyIsFirst, CertificateIsLast, AuthorityIsStored
<1>3. Progress'
  BY DEF TypeOK, Progress
<1> QED BY <1>1, <1>2, <1>3

(* The certificate is written after its key; binding needs a pair.         *)
LEMMA InvCert ==
    ASSUME Alone, IInv, NEW d \in Daemons, OpenCert(d) \/ FillCert(d) \/ OtherwiseFails(d) \/ Bind(d)
    PROVE  IInv'
<1> USE CertificatesAssumption DEF IInv, Alone, Moves, Goto, Points, Creating, Serving, Contents
<1> USE DEF OpenCert, FillCert, OtherwiseFails, Bind, WritesCert
<1>1. TypeOK'
  BY DEF TypeOK, Progress
<1>2. KeyIsFirst' /\ CertificateIsLast' /\ AuthorityIsStored'
  BY DEF TypeOK, Progress, KeyIsFirst, CertificateIsLast, AuthorityIsStored
<1>3. Progress'
  BY DEF TypeOK, Progress
<1> QED BY <1>1, <1>2, <1>3

(* Every step preserves the invariant.                                     *)
LEMMA InvNext == Alone /\ IInv /\ [Next]_vars => IInv'
<1> SUFFICES ASSUME Alone, IInv, [Next]_vars PROVE IInv'
  OBVIOUS
<1>1. CASE \E d \in Daemons : Start(d) \/ LoadOrCreate(d) \/ Bind(d) \/ BindFails(d) \/ Kill(d)
  BY <1>1, InvCheck, InvCheckFails, InvRead, InvKey, InvCert DEF LoadOrCreate
<1>2. CASE Quiescent \/ UNCHANGED vars
  BY <1>2 DEF Quiescent, vars, IInv, TypeOK, KeyIsFirst,
            CertificateIsLast, Progress, AuthorityIsStored
<1> QED BY <1>1, <1>2 DEF Next

(* The invariant holds in every behaviour with one daemon.                 *)
LEMMA Invariance == Alone /\ Spec => []IInv
<1>1. ASSUME Alone PROVE IInv /\ [Next]_vars => IInv'
  BY <1>1, InvNext
<1>2. ASSUME Alone PROVE Spec => []IInv
  BY <1>1, <1>2, InvInit, PTL DEF Spec
<1> QED BY <1>2

-----------------------------------------------------------------------------
(* The properties.                                                         *)

(* A daemon that listens has parsed a whole pair.                          *)
THEOREM TypeCorrect == ASSUME Alone PROVE Spec => []TypeOK
<1>1. IInv => TypeOK
  BY DEF IInv
<1> QED BY <1>1, Invariance, PTL

(* The pair in use is the pair in the files, and the key is that of the    *)
(* certificate, after any failures and kills, unless the certificate was   *)
(* overlooked (certificates.rs:55-86).                                     *)
THEOREM PairStaysConsistent == ASSUME Alone PROVE Spec => []PairIsConsistent
<1>1. IInv => PairIsConsistent
  BY CertificatesAssumption
     DEF IInv, TypeOK, Progress, CertificateIsLast, Serving, PairIsConsistent
<1> QED BY <1>1, Invariance, PTL

(* A daemon begins to listen from one point only.                          *)
LEMMA BindsToRun ==
    ASSUME IInv, [Next]_vars, NEW d \in Daemons, pc[d] # "running", pc'[d] = "running"
    PROVE  pc[d] = "bind"
BY DEF Next, vars, Quiescent, LoadOrCreate, Start, CheckCert, CheckKey, CheckFails, ReadCert,
       ReadKey, ReadKeyThen, Generate, OpenKey, FillKey, ProtectKey, WriteKeyFails, OpenCert,
       FillCert, OtherwiseFails, Bind, BindFails, Kill, Moves, WritesKey, WritesCert, Goto,
       IInv, TypeOK

(* Every daemon signs with the key of the one before it, unless a check    *)
(* failed while that key was in the files.                                 *)
THEOREM AuthoritySurvivesRestarts == ASSUME Alone PROVE Spec => RestartKeepsAuthority
<1>1. ASSUME IInv, [Next]_vars, NEW d \in Daemons, pc[d] # "running", pc'[d] = "running",
             authority # Absent, authority \notin overlooked
      PROVE  key[d] = authority
  BY <1>1, BindsToRun DEF IInv, Progress, Serving, AuthorityIsStored
<1>2. IInv /\ [Next]_vars =>
        [ \A d \in Daemons :
            /\ pc[d] # "running" /\ pc'[d] = "running"
            /\ authority # Absent /\ authority \notin overlooked
            => key[d] = authority ]_vars
  BY <1>1
<1> QED BY <1>2, Invariance, PTL DEF Spec, RestartKeepsAuthority

(* As long as no check fails, the files hold the key that was in use last, *)
(* whatever was killed.                                                    *)
THEOREM FilesStayTheAuthority == ASSUME Alone PROVE Spec => []FilesKeepAuthority
<1>1. IInv => FilesKeepAuthority
  BY DEF IInv, AuthorityIsStored, FilesKeepAuthority
<1> QED BY <1>1, Invariance, PTL

(* Only a start that found no certificate, or one whose check for it       *)
(* failed, writes the files.                                               *)
THEOREM AuthorityIsWrittenOnce == ASSUME Alone PROVE Spec => AuthorityIsLeftAlone
<1>1. ASSUME IInv, [Next]_vars, cert_file \in Keys \ overlooked
      PROVE  UNCHANGED <<cert_file, key_file>>
  <2>1. \A d \in Daemons : pc[d] \notin Creating \ {"generate"}
    BY <1>1, CertificatesAssumption DEF IInv, Progress, Creating
  <2> QED BY <1>1, <2>1 DEF Next, vars, Quiescent, LoadOrCreate, Start, CheckCert, CheckKey,
       CheckFails, ReadCert, ReadKey, ReadKeyThen, Generate, OpenKey, FillKey, ProtectKey,
       WriteKeyFails, OpenCert, FillCert, OtherwiseFails, Bind, BindFails, Kill, Moves,
       WritesKey, WritesCert, Creating
<1> QED BY <1>1, Invariance, PTL DEF Spec, AuthorityIsLeftAlone

-----------------------------------------------------------------------------
(* The leaves of the daemon that runs.                                     *)

(* The bound on the calls of a task is a number.                           *)
Bounded == MaxCalls \in Nat

(* A leaf that a caller was given, or had been given before another call   *)
(* began, is in the cache, or another one in its place.                    *)
GivenIsCached ==
    \A t \in Tasks :
        /\ Leaves!Given(t) => cache[host[t]] # Leaves!None
        /\ \A h \in returned[t] : cache[h] # Leaves!None

(* A task signs only for a host that nobody had been given a leaf of when  *)
(* its call began.                                                         *)
SignersFoundNothing ==
    \A t \in Tasks : point[t] \in {"sign", "insert"} => host[t] \notin returned[t]

(* A task has no leaf before it made one, and makes it for its own host.   *)
OwnLeaf ==
    \A t \in Tasks :
        /\ point[t] \in {"look", "sign"} => leaf[t] = Leaves!None
        /\ point[t] = "insert" => leaf[t].host = host[t]

CacheInv == Leaves!TypeOK /\ GivenIsCached /\ SignersFoundNothing /\ OwnLeaf

(* None has another domain than a leaf.                                    *)
LEMMA LeafIsSome ==
    ASSUME Bounded, NEW h \in Hosts, NEW t \in Tasks, NEW n \in 0 .. MaxCalls
    PROVE  /\ [host |-> h, by |-> t, call |-> n] \in Leaves!Leaf
           /\ [host |-> h, by |-> t, call |-> n] # Leaves!None
  <1>1. [host |-> h, by |-> t, call |-> n] \in Leaves!Leaf
    BY DEF Leaves!Leaf
  <1>2. DOMAIN [host |-> h, by |-> t, call |-> n] = {"host", "by", "call"}
    OBVIOUS
  <1>3. DOMAIN Leaves!None = {"host"}
    BY DEF Leaves!None
  <1>4. "by" \notin {"host"}
    OBVIOUS
  <1>. QED  BY <1>1, <1>2, <1>3, <1>4

LEMMA CacheInit == ASSUME Bounded PROVE Leaves!Init => CacheInv
  BY DEF Bounded, Leaves!Init, CacheInv, Leaves!TypeOK, GivenIsCached, SignersFoundNothing,
         OwnLeaf, Leaves!Given

(* The invariant is inductive: the cache only ever gains leaves.           *)
LEMMA CacheNext == ASSUME Bounded PROVE CacheInv /\ [Leaves!Next]_Leaves!vars => CacheInv'
  <1> SUFFICES ASSUME CacheInv, [Leaves!Next]_Leaves!vars
               PROVE  CacheInv'
    OBVIOUS
  <1> USE DEF OwnLeaf, CacheInv, Leaves!TypeOK, GivenIsCached, SignersFoundNothing,
              Leaves!Given, Leaves!Goto
  <1>1. ASSUME NEW t \in Tasks, NEW h \in Hosts, Leaves!Call(t, h)
        PROVE  CacheInv'
    <2>1. returned' = [returned EXCEPT ![t] = Leaves!Served] /\ Leaves!Served \subseteq Hosts
      BY <1>1 DEF Leaves!Call, Leaves!Served
    <2>2. \A g \in Leaves!Served : cache[g] # Leaves!None
      BY DEF Leaves!Served
    <2>3. Leaves!TypeOK'
      BY <1>1, <2>1 DEF Bounded, Leaves!Call
    <2>4. GivenIsCached'
      BY <1>1, <2>1, <2>2 DEF Leaves!Call
    <2>5. SignersFoundNothing'
      BY <1>1, <2>1 DEF Leaves!Call
    <2>6. OwnLeaf'
      BY <1>1 DEF Leaves!Call
    <2>. QED  BY <2>3, <2>4, <2>5, <2>6
  <1>2. ASSUME NEW t \in Tasks, Leaves!Found(t)
        PROVE  CacheInv'
    <2>1. host[t] \in Hosts
      OBVIOUS
    <2>2. Leaves!TypeOK'
      BY <1>2, <2>1 DEF Leaves!Found
    <2>3. GivenIsCached'
      BY <1>2, <2>1 DEF Leaves!Found
    <2>4. SignersFoundNothing' /\ OwnLeaf'
      BY <1>2 DEF Leaves!Found
    <2>. QED  BY <2>2, <2>3, <2>4
  <1>3. ASSUME NEW t \in Tasks, Leaves!NotFound(t)
        PROVE  CacheInv'
    BY <1>3 DEF Leaves!NotFound
  <1>4. ASSUME NEW t \in Tasks, Leaves!Sign(t)
        PROVE  CacheInv'
    <2>. DEFINE new == [host |-> host[t], by |-> t, call |-> calls[t]]
    <2>1. new \in Leaves!Leaf /\ new # Leaves!None /\ new.host = host[t]
      BY LeafIsSome
    <2>2. leaf' = [leaf EXCEPT ![t] = new]
      BY <1>4 DEF Leaves!Sign
    <2>. HIDE DEF new
    <2>3. Leaves!TypeOK'
      BY <1>4, <2>1, <2>2 DEF Leaves!Sign
    <2>4. GivenIsCached' /\ SignersFoundNothing' /\ OwnLeaf'
      BY <1>4, <2>1, <2>2 DEF Leaves!Sign
    <2>. QED  BY <2>3, <2>4
  <1>5. ASSUME NEW t \in Tasks, Leaves!SignFails(t)
        PROVE  CacheInv'
    BY <1>5 DEF Leaves!SignFails
  <1>6. ASSUME NEW t \in Tasks, Leaves!Insert(t)
        PROVE  CacheInv'
    <2>1. leaf[t] # Leaves!None /\ leaf[t].host = host[t] /\ host[t] \in Hosts
      BY <1>6 DEF Leaves!Insert
    <2>2. Leaves!TypeOK'
      BY <1>6, <2>1 DEF Leaves!Insert
    <2>3. GivenIsCached'
      BY <1>6, <2>1 DEF Leaves!Insert
    <2>4. SignersFoundNothing' /\ OwnLeaf'
      BY <1>6, <2>1 DEF Leaves!Insert
    <2>. QED  BY <2>2, <2>3, <2>4
  <1>7. CASE Leaves!Done
    BY <1>7 DEF Leaves!Done, Leaves!vars
  <1>8. CASE UNCHANGED Leaves!vars
    BY <1>8 DEF Leaves!vars
  <1>. QED  BY <1>1, <1>2, <1>3, <1>4, <1>5, <1>6, <1>7, <1>8 DEF Leaves!Next

(* A daemon that stops takes its leaves with it: nothing is cached then,   *)
(* and nobody was given anything.                                          *)
LEMMA ForgottenInv ==
    ASSUME Bounded, CacheInv, Forgotten
    PROVE  CacheInv'
  BY DEF Forgotten, CacheInv, Leaves!TypeOK, GivenIsCached, SignersFoundNothing, OwnLeaf,
         Leaves!Given, Bounded

(* While a daemon listens its leaves take steps of LeafCache.              *)
LEMMA InterceptIsStep == Intercept => Leaves!Next
  BY DEF Intercept, Leaves!Next

LEMMA StepInv ==
    ASSUME Bounded
    PROVE  CacheInv /\ [InterceptionNext]_<<vars, leaves>> => CacheInv'
  <1> SUFFICES ASSUME CacheInv, [InterceptionNext]_<<vars, leaves>>
               PROVE  CacheInv'
    OBVIOUS
  <1>1. CASE Intercept
    BY <1>1, InterceptIsStep, CacheNext
  <1>2. CASE UNCHANGED leaves
    BY <1>2, CacheNext DEF leaves, Leaves!vars
  <1>3. CASE Forgotten
    BY <1>3, ForgottenInv
  <1> QED  BY <1>1, <1>2, <1>3 DEF InterceptionNext, StartOrStop

LEMMA LeavesInvariant ==
    ASSUME Bounded
    PROVE  InterceptionSpec => []CacheInv
  <1>1. InterceptionInit => CacheInv
    BY CacheInit DEF InterceptionInit
  <1> QED  BY <1>1, StepInv, PTL DEF InterceptionSpec

(* A leaf is found under its own host, in every process, for any numbers   *)
(* of starts, tasks, hosts and calls (certificates.rs:108-132).            *)
THEOREM LeavesAreTyped ==
    ASSUME Bounded
    PROVE  InterceptionSpec => []LeavesTyped
  <1>1. CacheInv => LeavesTyped
    BY DEF CacheInv, LeavesTyped
  <1> QED  BY <1>1, LeavesInvariant, PTL

(* A call for a host whose leaf an earlier call of the same process was    *)
(* given signs none (docs/TLS.md:47).                                      *)
THEOREM LeavesAreReused ==
    ASSUME Bounded
    PROVE  InterceptionSpec => []LeafIsReused
  <1>1. CacheInv => LeafIsReused
    BY DEF CacheInv, LeafIsReused, Leaves!TypeOK, SignersFoundNothing, Leaves!LeafIsReused
  <1> QED  BY <1>1, LeavesInvariant, PTL

(* The authority does not notice the leaves: what is proved of             *)
(* Certificates holds of the daemon that intercepts.                       *)
THEOREM AuthorityIsIndependent == InterceptionSpec => Spec
  <1>1. InterceptionInit => Init
    BY DEF InterceptionInit
  <1>2. [InterceptionNext]_<<vars, leaves>> => [Next]_vars
    BY DEF InterceptionNext, Intercept, StartOrStop
  <1> QED  BY <1>1, <1>2, PTL DEF InterceptionSpec, Spec
=============================================================================
