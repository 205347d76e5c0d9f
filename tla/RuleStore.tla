------------------------------ MODULE RuleStore ------------------------------
(***************************************************************************)
(* Replacing the rewrite rules (proxy-daemon/src/main.rs, replace command) *)
(* and keeping them in a file (proxy-daemon/src/rule_store.rs).            *)
(*                                                                         *)
(* Control clients submit rule sets concurrently.  The one that holds the  *)
(* write lock on the active rules saves them step by step: each file       *)
(* operation is an await, may fail, and the daemon may be killed before or *)
(* after it.  A restarted daemon loads what it finds in the file.  The     *)
(* inner write_lock of RuleStore is only taken under the lock on the       *)
(* active rules, so it is never contended and is not modelled.             *)
(*                                                                         *)
(* The specification has names of its own (StoreInit and so on), because   *)
(* RulesProofs joins this module to Rules.                                 *)
(***************************************************************************)
EXTENDS Integers, FiniteSets

CONSTANTS
    Clients,
    Sets,              \* the rule sets clients submit or files contain
    Valid,             \* those that validate_rewrite_rules accepts
    Fits,              \* those whose document is within MAX_RULE_STORE_BYTES
    NoRules,           \* the empty rule set
    Absent,            \* no such file
    Unreadable,        \* a file that does not parse, or of another version
    MaxSubmits,        \* bound: commands per client
    MaxCrashes         \* bound: crashes of the daemon

ASSUME RuleStoreAssumption ==
    /\ Valid \subseteq Sets /\ Fits \subseteq Sets
    /\ NoRules \in Valid \cap Fits
    /\ Absent \notin Sets /\ Unreadable \notin Sets
    /\ MaxSubmits \in Nat /\ MaxCrashes \in Nat

VARIABLES
    file,              \* rewrite-rules.json
    temp,              \* the temporary file of the running process
    running,
    active,            \* Arc<RwLock<Vec<RewriteRule>>>
    writer,            \* who holds its write lock: at most one client
    point,
    submitted,         \* the set each client submitted last
    reply,             \* the event that answered it, "none" before that
    submits, crashes,  \* bounds only
    diverged,          \* ghost: why active may differ from the file
    replaced           \* ghost: clients whose saved set was renamed over

store_vars == <<file, temp, running, active, writer, point, submitted, reply,
                submits, crashes, diverged, replaced>>

Points == {"idle", "lock", "save", "open", "fill", "protect_temp", "rename",
           "protect_file", "install", "snapshot", "report"}

(* From the write lock to its release.                                     *)
Holding == Points \ {"idle", "lock", "snapshot"}

Replies == {"none", "rewrite_rules", "invalid_rewrite_rules", "rewrite_rule_persistence_failed"}

Contents == Sets \cup {Absent, Unreadable}

(* The active rules are always a rule set, never what an absent or an      *)
(* unreadable file stands for (rule_store.rs:78-96, main.rs:83-111).       *)
StoreTypeOK ==
    /\ file \in Contents /\ temp \in Contents
    /\ running \in BOOLEAN
    /\ active \in Sets
    /\ writer \subseteq Clients
    /\ point \in [Clients -> Points]
    /\ submitted \in [Clients -> Sets]
    /\ reply \in [Clients -> Replies]
    /\ submits \in [Clients -> 0 .. MaxSubmits]
    /\ crashes \in 0 .. MaxCrashes
    /\ diverged \in {"no", "protect_failed", "load_failed"}
    /\ replaced \subseteq Clients

(* Faulty load: the file's rules are not validated.                        *)
LoadedUnvalidated(content) == IF content \in Fits THEN content ELSE NoRules

(* load() and the validation at start: anything wrong means no rules.      *)
Loaded(content) == IF content \in Fits \cap Valid THEN content ELSE NoRules

(* The file may have been edited by hand before the daemon starts.         *)
StoreInit ==
    /\ file \in Contents
    /\ temp = Absent
    /\ running = TRUE
    /\ active = Loaded(file)
    /\ writer = {}
    /\ point = [c \in Clients |-> "idle"]
    /\ submitted = [c \in Clients |-> NoRules]
    /\ reply = [c \in Clients |-> "none"]
    /\ submits = [c \in Clients |-> 0]
    /\ crashes = 0
    /\ diverged = "no"
    /\ replaced = {}

Goto(c, to) == point' = [point EXCEPT ![c] = to]

-----------------------------------------------------------------------------
(* The command.                                                            *)

Submit(c, set) ==
    /\ running /\ point[c] = "idle" /\ submits[c] < MaxSubmits
    /\ submits' = [submits EXCEPT ![c] = @ + 1]
    /\ submitted' = [submitted EXCEPT ![c] = set]
    /\ replaced' = replaced \ {c}
    /\ \/ /\ set \notin Valid
          /\ reply' = [reply EXCEPT ![c] = "invalid_rewrite_rules"]
          /\ UNCHANGED point
       \/ /\ set \in Valid
          /\ reply' = [reply EXCEPT ![c] = "none"]
          /\ Goto(c, "lock")
    /\ UNCHANGED <<file, temp, running, active, writer, crashes, diverged>>

Acquire(c) ==
    /\ point[c] = "lock" /\ writer = {}
    /\ writer' = {c}
    /\ Goto(c, "save")
    /\ UNCHANGED <<file, temp, running, active, submitted, reply, submits, crashes,
                   diverged, replaced>>

(* A step of save() on the files, which alone may change.                  *)
SaveStep(c, from, to) ==
    /\ point[c] = from
    /\ Goto(c, to)
    /\ UNCHANGED <<running, active, writer, submitted, reply, submits, crashes>>

NoFileChange == UNCHANGED <<file, temp, diverged, replaced>>

(* Faulty: save() does not look at the size.                               *)
PrepareUnchecked(c) == SaveStep(c, "save", "open") /\ NoFileChange

(* The document fits, and its directory exists or is created.              *)
Prepare(c) == submitted[c] \in Fits /\ SaveStep(c, "save", "open") /\ NoFileChange

(* Too large, or the directory cannot be created.                          *)
PrepareFails(c) == SaveStep(c, "save", "report") /\ NoFileChange

(* Faulty: the rules are written into the file itself.                     *)
OpenFileItself(c) ==
    /\ SaveStep(c, "open", "fill")
    /\ file' = Unreadable
    /\ UNCHANGED <<temp, diverged, replaced>>

(* write() truncates the temporary file and then fills it: it is not whole *)
(* in between.                                                             *)
OpenTemp(c) ==
    /\ SaveStep(c, "open", "fill")
    /\ temp' = Unreadable
    /\ UNCHANGED <<file, diverged, replaced>>

FillTemp(c) ==
    /\ SaveStep(c, "fill", "protect_temp")
    /\ temp' = submitted[c]
    /\ UNCHANGED <<file, diverged, replaced>>

(* The temporary file stays as it is when it cannot be written or be made  *)
(* private.                                                                *)
WriteTempFails(c) ==
    /\ \E from \in {"open", "fill", "protect_temp"} : SaveStep(c, from, "report")
    /\ NoFileChange

ProtectTemp(c) == SaveStep(c, "protect_temp", "rename") /\ NoFileChange

Rename(c) ==
    /\ SaveStep(c, "rename", "protect_file")
    /\ file' = temp
    /\ temp' = Absent
    /\ diverged' = "no"
    /\ replaced' = Clients \ {c}

(* Faulty: the error of rename() is ignored.                               *)
RenameFailsUnnoticed(c) == SaveStep(c, "rename", "protect_file") /\ NoFileChange

(* Faulty: the whole save is tried again, without a limit.                 *)
RenameFailsAndRetries(c) == SaveStep(c, "rename", "open") /\ NoFileChange

(* The temporary file is removed, if that works.                           *)
RenameFails(c) ==
    /\ SaveStep(c, "rename", "report")
    /\ temp' \in {Absent, temp}
    /\ UNCHANGED <<file, diverged, replaced>>

ProtectFile(c) == SaveStep(c, "protect_file", "install") /\ NoFileChange

(* save() fails although the new document is in place.                     *)
ProtectFileFails(c) ==
    /\ SaveStep(c, "protect_file", "report")
    /\ diverged' = "protect_failed"
    /\ UNCHANGED <<file, temp, replaced>>

(* The active rules are assigned and their lock is released.               *)
Install(c) ==
    /\ point[c] = "install"
    /\ active' = submitted[c]
    /\ writer' = {}
    /\ Goto(c, "snapshot")
    /\ UNCHANGED <<file, temp, running, submitted, reply, submits, crashes, diverged, replaced>>

(* The success event echoes the submitted set; before it is built the rules *)
(* are read once more, under the lock another client may hold by now.      *)
Succeed(c) ==
    /\ point[c] = "snapshot" /\ writer = {}
    /\ reply' = [reply EXCEPT ![c] = "rewrite_rules"]
    /\ Goto(c, "idle")
    /\ UNCHANGED <<file, temp, running, active, writer, submitted, submits, crashes,
                   diverged, replaced>>

(* The error event is written to the client before the lock is released.   *)
Report(c) ==
    /\ point[c] = "report"
    /\ reply' = [reply EXCEPT ![c] = "rewrite_rule_persistence_failed"]
    /\ writer' = {}
    /\ Goto(c, "idle")
    /\ UNCHANGED <<file, temp, running, active, submitted, submits, crashes, diverged, replaced>>

-----------------------------------------------------------------------------
(* The process.                                                            *)

(* Killed, or stopped by ctrl-c, which drops every task where it awaits.   *)
(* Clients with a command in progress get no answer.                       *)
Crash ==
    /\ running /\ crashes < MaxCrashes
    /\ running' = FALSE
    /\ crashes' = crashes + 1
    /\ writer' = {}
    /\ point' = [c \in Clients |-> "idle"]
    /\ UNCHANGED <<file, temp, active, submitted, reply, submits, diverged, replaced>>

(* The name of the temporary file holds the process id: a new process does *)
(* not see the one its predecessor left behind.                            *)
Restart(content, why) ==
    /\ ~running
    /\ running' = TRUE
    /\ active' = Loaded(content)
    /\ temp' = Absent
    /\ diverged' = why
    /\ UNCHANGED <<file, writer, point, submitted, reply, submits, crashes, replaced>>

Load == Restart(file, "no")

(* The file cannot be read at all: the daemon starts with no rules.        *)
LoadFails == Restart(Unreadable, "load_failed")

-----------------------------------------------------------------------------
Save(c) ==
    \/ Prepare(c)      \/ PrepareFails(c)
    \/ OpenTemp(c)     \/ FillTemp(c)     \/ WriteTempFails(c)
    \/ ProtectTemp(c)
    \/ Rename(c)       \/ RenameFails(c)
    \/ ProtectFile(c)  \/ ProtectFileFails(c)

Answered == \A c \in Clients : point[c] = "idle" /\ submits[c] = MaxSubmits

(* Only the bounds stop the clients.                                       *)
Quiescent == running /\ Answered /\ crashes = MaxCrashes /\ UNCHANGED store_vars

StoreNext ==
    \/ \E c \in Clients :
          \/ \E set \in Sets : Submit(c, set)
          \/ Acquire(c) \/ Save(c) \/ Install(c) \/ Succeed(c) \/ Report(c)
    \/ Crash \/ Load \/ LoadFails
    \/ Quiescent

StoreSpec == StoreInit /\ [][StoreNext]_store_vars

(* File operations return, tokio hands the lock to its waiters in order,   *)
(* and the scheduler runs every task.  Report waits for the client to take *)
(* the event while the lock is held, so it has no fairness.                *)
FairStoreSpec ==
    /\ StoreSpec
    /\ \A c \in Clients :
          /\ SF_store_vars(Acquire(c))
          /\ WF_store_vars(Save(c))
          /\ WF_store_vars(Install(c))
          /\ SF_store_vars(Succeed(c))

-----------------------------------------------------------------------------
(* At most one client saves at a time, and it is the one that holds the    *)
(* lock on the active rules (main.rs:230-241).                             *)
OneWriter ==
    /\ \A c \in Clients : point[c] \in Holding <=> c \in writer
    /\ \A c, d \in writer : c = d

(* Whenever the rules can be read, they are the rules a restart would      *)
(* load, unless the last save failed in its very last step or the file     *)
(* could not be read at start (main.rs:103-110, rule_store.rs:127).        *)
ActiveIsPersisted ==
    running /\ writer = {} /\ diverged = "no" => active = Loaded(file)

(* The daemon never applies rules that validate_rewrite_rules refuses, not *)
(* even from a file that was edited by hand (main.rs:83-111).              *)
ActiveIsValid == active \in Valid

(* A success event means durable: through crashes at any point of later    *)
(* saves, a restart loads this set until another one is renamed over it    *)
(* (main.rs:230-255, rule_store.rs:98-129).                                *)
AcknowledgedIsDurable ==
    \A c \in Clients :
        reply[c] = "rewrite_rules" /\ c \notin replaced => Loaded(file) = submitted[c]

(* The file goes from one whole loadable document to another: no crash or  *)
(* failed step of save() leaves a part of one (rule_store.rs:119-126).     *)
FileReplacedWhole == [][file' # file => file' \in Valid \cap Fits]_store_vars

(* Rules are in the file before exchanges see them, whichever step of the  *)
(* save fails (main.rs:231-241).                                           *)
PersistedBeforeActive == [][active' # active /\ running => Loaded(file) = active']_store_vars

(* What the code of the error event says: the rules were not persisted.    *)
(* The last chmod can fail after the rename (rule_store.rs:127), and then  *)
(* a restart loads rules that were refused.                                *)
FailureMeansNotPersisted ==
    [][ \A c \in Clients :
          /\ reply[c] # "rewrite_rule_persistence_failed"
          /\ reply'[c] = "rewrite_rule_persistence_failed"
          => Loaded(file) = active ]_store_vars

(* If clients take their error events, every replacement is answered or    *)
(* ends with the daemon: a failed save releases the lock                   *)
(* (main.rs:231-240).                                                      *)
ReplacementAnswered ==
    (\A c \in Clients : []<>(point[c] # "report")) =>
        \A c \in Clients : point[c] = "lock" ~> point[c] = "idle"
=============================================================================
