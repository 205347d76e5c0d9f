# A verification of the proxy engine and its application

TLA+ models of the Rust engine of the HTTP debugging proxy in this repository,
and of the parts of the macOS application that talk to it, TLC configurations
that check them on small instances, and proofs that TLAPS checks for every
value of the constants. Everything is translated
from the code; file names below are relative to `src/rust/crates` unless they
say otherwise.

## 1. The system

A daemon (`proxy-daemon`) listens on two local sockets. On the proxy socket it
serves HTTP clients, one exchange per connection, with or without intercepting
TLS. On the control socket the macOS application sends one JSON command per
line and gets one event per line. Every connection is a tokio task; tasks share
a capture store, a status record and the list of rewrite rules, each under its
own lock, and nothing else.

| component | source | state | operations |
|---|---|---|---|
| session store | `proxy-daemon/src/session.rs` | `next_id` (atomic), `transactions` (bounded deque under a RwLock) | `next_id`, `insert`, `get`, `set_request_preview`, `complete`, `fail`, `list` |
| proxy capture path | `proxy-daemon/src/main.rs` | per task: how far it is, its id, its request | read head, connect, intercept or tunnel, begin transaction, forward the body, read and deliver the response, settle |
| explicit requests | `request_runtime.rs`, `replay_runtime.rs`, `composer_runtime.rs` | per command: id, prepared request | replay, execute |
| control server | `main.rs`, `proxy-core/src/lib.rs` | `EngineStatus` under a RwLock | seven commands |
| rule persistence | `rule_store.rs`, `main.rs` | active rules under a RwLock, the rule file, a temporary file | load, replace (validate, save, assign) |
| rule application | `proxy-core/src/rules.rs` | none | match, apply request and response actions |
| HTTP heads | `proxy-core/src/http.rs`, `main.rs` | bytes read so far | find the end of a head, parse, resolve the destination, content length, chunked |
| body capture | `proxy-core/src/body.rs`, `main.rs` | counters, a bounded buffer | ingest, finish, the two copy loops |
| request preparation | `replay.rs`, `composer.rs` | none | `prepare` |
| certificate authority | `certificates.rs` | CA key and certificate files, leaf cache | `load_or_create`, `identity_for_host` |
| engine client | `macos/Sources/ProxymanCloneKit/EngineClient.swift` | one connection and one continuation per call | send a command, receive an event |
| views | `macos/Sources/ProxymanCloneApp` | the displayed transactions and rules | refresh, replay, load, edit, save |
| exports | `HAR.swift`, `CurlCommand.swift` | none | formatting |

How they interact: a proxy task and a command both reserve an id, insert a
pending record, count it and later settle it; a replay reads a record that
another task may still be changing; a replacement of the rules holds the write
lock that every exchange needs twice; the application only ever sees what the
control server reports.

What is hard about it:

- *Interleaving.* Ids are reserved outside the lock under which records are
  inserted; the counter has a third lock; a command looks its own record up
  again after others have inserted and evicted.
- *Partial failure.* An exchange leaves through any of a dozen `?`, only one of
  which settles the record; saving the rules is six file operations, each of
  which may fail.
- *Crash and restart.* Rules survive the daemon; a kill may hit any step.
- *Limits.* The store drops its oldest record whatever its state.
- *No timeouts.* Peers may hold a task for ever.
- *Streams.* TCP cuts heads, bodies, commands and events where it likes.
- *Two sides of a call.* The application acts on answers that are late, about a
  daemon that has restarted, or about rules and records it has changed since.

The hazards with their lines and the properties that watch them are listed in
`PROJECT.json`.

What makes each component correct: the store identifies records and settles
them once; the capture path leaves no record pending without a known reason;
a command is answered, with its own complete record; a replay only sends bodies
that were seen whole; an acknowledged rule set survives crashes, the file is
never torn, and exchanges never see rules that a restart would not; a rewritten
head is what the rules say in their order, with its framing untouched; the
authority in use is the one in the files and survives restarts unless a check
for it fails or a second daemon starts at the same time; however a
stream is cut, its bytes are relayed in order and counted once; a replay goes
where its original went; a call returns once, and its command runs once; the
views show what the daemon holds, name what they select, and keep what the user
does apart from what a late answer brings.

## 2. The plan

| order | module | models | composed with |
|---|---|---|---|
| 1 | `SessionStore` | the store's methods as operators | used by `Engine` |
| 2 | `Engine` | proxy tasks and commands over the store and the counter | `SessionStore` |
| 3 | `CaptureLog` | what the engine promises about captures | refined by `Engine` |
| 4 | `EngineProofs` | proofs about `Engine` | |
| 5 | `RuleStore` | replacing and persisting the rules | |
| 6 | `Certificates` | several daemons and kills over the CA files | |
| 7 | `Rules` | matching and applying rules as folds; a replacement between the request and the response pass of one exchange; replays of it | takes `RuleStore`'s replacement as one step |
| 8 | `RulesProofs` | proofs about `Rules`, about `RuleStore`, and that the second makes the first's replacements | |
| 9 | `BodyCapture`, `HttpExchange` | head reading and relaying over every cut of the streams | `BodyCapture` used by `HttpExchange` |
| 10 | `ByteRelay` | what relaying promises | refined by `HttpExchange` |
| 11 | `HttpExchangeProofs` | proofs about `HttpExchange`, with the refinement | |
| 12 | `Destinations`, `DestinationsProofs` | the authorities that requests, records, and replays pass to one another | `BodyCapture` |
| 13 | `ControlChannel`, `ControlChannelProofs` | one call, from the application's continuation to the daemon's task | |
| 14 | `TrafficView`, `TrafficViewProofs` | the traffic list | `CaptureLog`, as an INSTANCE |
| 15 | `RulesWorkspace`, `RulesWorkspaceProofs` | the rule editor | takes `RuleStore`'s replacement as one step |
| 16 | `LeafCache` | the cache of leaf certificates | |
| 17 | `Interception`, `InterceptionProofs` | the authority and its leaves over the daemon's life | `Certificates`, and `LeafCache` as an INSTANCE |

All of them are done. A module `MC...` gives the constants of one of them, for
one or two configurations of the same name. `InterceptionProofs` holds what is
proved of `Certificates` and `LeafCache` as well. No safety property of a
passing run is left without a theorem.

## 3. Modules and code

### SessionStore

One operator per method of `SessionStore`. A method that takes the lock is one
step, since nothing is awaited inside. `transactions` is the deque, front
first; a record keeps its id, scheme, transfer encoding, whether it has a body,
what its preview says of the body ("text": whole and decodable; "opaque": cut
or not text), whether a response was captured, and its state. Operators whose
comment begins with "Faulty" are plausible mistakes in a method; they are used
by no specification, and show that each property notices the mistake it is for.

### Engine

`pc[t]` says where a task is; one action per critical section and per exchange
with a peer:

| actions | code |
|---|---|
| `ReadHead`, `RejectHead`, `Connect`, `ConnectFails` | `serve_proxy_client`, up to the branch on CONNECT |
| `Intercept`, `InterceptFails` | `serve_intercepted_tls` and the head inside the tunnel |
| `Reserve`, `InsertPending`, `CaptureBody`, `Count` | the two `begin_transaction` functions; the explicit one records the preview before it counts |
| `CompleteTunnel` | the end of `serve_proxy_client` |
| `Forward` .. `FailExchange` | `proxy_single_exchange`; a task that leaves through an unsettled `?` ends at "dropped", any other at "closed" |
| `Replay`, `ReplayNotFound`, `ReplayRefused` | `replay_transaction` up to `execute`, with `replay::prepare` |
| `Execute`, `ExecuteRefused` | `execute_request` up to `execute` |
| `Exchange`, `ExchangeFails`, `CompleteExecution`, `FailExecution`, `ReturnResult` | `request_runtime::execute` and the lookup of the result |

An invalid Content-Length is found after the record is inserted and counted,
and no await lies between the counting and that error or the chunked check:
`Count` moves straight to "dropped", "fail" or "forward". The ghost
`whole_body` remembers ids whose body the daemon has had in hand from end to
end. Rewrite rules are absent because they cannot touch the headers that frame
a body (`FramingSurvives` of `Rules`), and the model does not tell response
statuses apart. `commands` and `MaxCommands` only bound the model.

### CaptureLog

Ids issued in order, each recorded at most once in front of a log of bounded
length and settled at most once. `Engine` implements it under a mapping that
reads the counter, the tasks about to insert, and the ids and states of the
records.

### RuleStore

The replace command and `RuleStore::save`, one action per file operation, with
its failure; `write` is two steps, truncate and fill. `writer` holds the client
that has the write lock on the active rules; the store's own mutex is only ever
taken under it and is left out. `Crash` stops the daemon anywhere; `Load` and
`LoadFails` start it again. The file may be anything at the first start: it may
have been edited by hand. The error event is written while the lock is held,
as in the code. Only the size and validity of a set matter here, so a rule set is a
model value. Ghosts: `diverged` says why the active rules may differ from the
file, `replaced` who has been overwritten since its rename.

### Certificates

`load_or_create` at the start of any number of daemons that share a directory,
one action per file operation, with its failure, and a kill between any two.
Writing is truncating and then filling. A certificate is identified with the
key it certifies, so a pair is consistent if both are equal; re-signing the
certificate on load keeps its key. Whether the files are there is asked with
`exists()`, which is false also when the question fails: `CheckFails` then goes
on to create an authority over the one in the files, like a check that finds
none. `Bind` is the point where only one daemon
gets the sockets, which is after the files were written. Ghosts: `used` makes
generated keys distinct, `authority` remembers the key of the daemon that
listened last, `overlooked` what the files held when a check failed. Without
failed checks the pair in use always matches and a restart finds the authority
of the one before; `PairIsConsistent` and `RestartKeepsAuthority` say so of every
authority that was never overlooked. The cache of leaves is `LeafCache`.

### Rules

The functions of `rules.rs` as operators over heads, with folds where the code
loops, and one exchange at a time around them: `Forward` is the request pass of
`proxy_single_exchange`, `Execute` and `Replay` the explicit requests, whose
head the daemon builds anew (`composer.rs`, `replay.rs`) and no request rule
touches, `Respond` the response pass that all three share (the lines of
`main.rs` and `request_runtime.rs` are the same), `Finish` the record or its
failure. `Replace` may come between any two. A path is a sequence of pieces and
the substring test on the host the set of hosts that contain the pattern. The
headers of a head are a function from lower-case names to the values of their
copies in order: which of two different headers comes first is left out, and so
is their spelling, which no comparison in the code looks at; the header of a
rule says whether it is spelled otherwise (`cased`), which should make no
difference either. `Unsafe` stands for names, values and paths that the checks
reject.

`RequestFollowsRules` and `ResponseFollowsRules` describe the result without
applying rules. A place is the number of a rule and the number of an action in
it; `Moves`, `Statuses` and `Edits` are the places that set the path, the status
and one header, and what is at the latest of them is what the head must have.
Which rules count is said in turn for a request, because a move decides what
later rules match (`MatchInTurn`), and at once for a response. Of a header that
is set only the first copy is claimed: `set_header` leaves later copies alone if
the first has the value already (`rules.rs:149`).

How long the body after a response is depends on its status and on the headers
that frame it (`BodyFrame`). No rule edits those headers (`FramingSurvives`) or
gives a status without a body, so a reply with a body keeps it
(`StatusKeepsBody`). The other direction is not guarded by the code: a reply
without a body may be given a status with one, which is the exception that
`StatusKeepsBody` names.

### BodyCapture, HttpExchange and ByteRelay

`BodyCapture` is `body.rs` as operators. A byte is its place in the stream it
was read from, so that a lost, repeated or misplaced one shows. `HttpExchange`
takes one exchange apart into reads and writes of any size up to the buffers of
the code:

| actions | code |
|---|---|
| `ReadPartOfHead`, `RefuseHead`, `RequestHeadEnds` | `read_http_head`, and the 400 of `serve_proxy_client` |
| `ForwardBuffered`, `WriteRequest`, `WriteRefused`, `RequestWritten` | the body that came with the head, or that of an explicit request |
| `ReadRequestBody`, `RequestBodyEnds` | `copy_exact_remaining_with_capture` |
| `ReadPartOfResponseHead`, `RefuseResponseHead`, `ResponseHeadEnds` | `read_http_head`, `read_response_head` |
| `DeliverBuffered`, `ReadResponseBody`, `ResponseEnds` | `copy_with_capture`, `read_to_capture` |
| `OpenTunnel`, `TunnelUp`, `TunnelDown`, `TunnelEnds` | CONNECT without interception |

The peers are external: what they send is fixed at the start, with whether they
wait, close, stop reading early, or answer while they read (`eager`). A
connection holds `Window` bytes that the server has not read. Writes to the
client are not limited: the client reads. `ByteRelay` is the promise without
buffers and pieces; a refused or broken exchange maps to "broken".

### Destinations

One request and its replays. A text is a sequence of pieces (brackets, colons,
numbers, a name), because the four parsers and formatters only tell those
apart. `SplitAuthority` is that of `http.rs`, `ParseAuthority` and
`ReplayAuthority` those of `replay.rs`, `NormalizeHost` and
`ComposedAuthority` those of `composer.rs`. A parser returns a set, empty for a
refusal. `Proxy`, `Intercept` and `Execute` capture, `Replay` reads the record
and writes the next one. A composed host may still begin with a bracket, since
`normalize_host` takes off one pair: `[[name]]` is sent to `[name]` and written
so in the Host header, and a replay reads `name` there. The composer refuses
nothing of the kind (`composer.rs:158-180`), so `HostAgrees` leaves it out.

### ControlChannel

`EngineClient.send`: the three handlers (`StateChanged`, `Sent`,
`DataReceived`) and `ContinuationBox.finish`, whose part under the lock is
`Finish` and whose rest is `Resume`, since handlers run on a concurrent queue.
`serve_control_client` at the other end takes a line, executes it, writes the
event byte by byte, and ends with the connection. At the end of the stream
`next_line` also returns what has no newline: if only that is missing the
command is executed (`LastLine`), if more is missing it is refused
(`EndOfLine`). The network is external: it
delivers bytes in order, in pieces of any size, and completes what is
outstanding with an error after a failure or a cancellation.

### TrafficView

`refresh()`, `replay()` and the selection, over `CaptureLog` as the daemon's
log; the daemon may restart and issue the same ids again (`epoch` is a ghost
that tells them apart). A restart breaks off a replay at work; a call that was
only sent may reach the new daemon. Answers are applied in one step on the main actor, and
anything may happen between a call and its answer. A call may fail, wait as
in `ControlChannel` until the network changes, or never be answered. An answer
of which the first piece does not hold the whole listing does not decode: it is
one of the failures. The log evicts at `Capacity`,
a listing shows the newest `Limit` records.

### RulesWorkspace

Loading, saving and the operations on the list of rules. A rule is its ID and
one text; IDs are numbered as `addRule` does. The rule under edit is found by
its ID each time, as in `selectedRuleBinding`. The calls on their way are the records in `calls`, one for each element of the
set `Calls`: what the view waits for is its `own`. A save that fails may still
take effect, as in `ControlChannel`; leaving the workspace gives up the calls on
their way. Another client may replace the rules once. Ghosts: `seen` is what
the view last learnt, `chosen` the rule that the user picked, `collided`,
`adrift` and `lost` mark the cases in which the code gives no guarantee.

### LeafCache and Interception

`identity_for_host` between the two critical sections on the cache. A leaf is
named by the task and the call that made it. `Interception` lets the tasks ask
only while a daemon of `Certificates` listens, and forgets them and the cache
with it: both are in the process's memory, the authority is in files.

## 4. The runs

| run | instance | shows |
|---|---|---|
| `engine` | 1 proxy, 2 clients with 1 command each, capacity 2, 5 kinds of request | the counter stays exact, records vanish only by eviction, settled records never change, replayed bodies were whole, a result is the client's own, the abstract log (with its unique ids) is implemented; commands are answered and records settled |
| `rules` | 2 clients with 2 replacements, 4 sets, 1 crash | the safety of replacing and persisting; a failed save does not block the next |
| `rules_failure` | 2 clients with 1 replacement, no crash | **violated**: finding 1 |
| `certificates` | 1 daemon, 4 starts; 2 tasks, 2 hosts, 2 calls each | a matching pair, the same over restarts, up to checks that failed; a cached leaf is reused |
| `certificates_twice` | 2 daemons, 2 starts | **violated**: finding 2 |
| `rewriting` | lists of up to 3 of 6 rules, 1 replacement, 4 requests, 2 responses | rewritten heads are what the rules say; framing headers and bodies survive; both passes match the same rules unless the path or the rules change; a replay sees the same response |
| `rewriting_matched` | single rules, none replaced | **violated**: finding 3 |
| `exchange` | request heads of 1 to 8 bytes, limit 6, reads of 3, bodies of 0 to 4 bytes with previews of 3, tunnels, 5 kinds of client, eager and interim answers | bodies are relayed and captured whole and in order, the limit on heads, a tunnel's client that waits loses nothing, willing peers' exchanges complete |
| `channel` | a command of 3 bytes, an event of 4, received whole or in pieces | one resumption, one execution, what an answer may lack, every call returns, every task ends |
| `traffic` | 1 record of 3 ids kept and listed, 1 restart | no id twice, no step back, the selection; the view follows a daemon at rest |
| `rule_editor` | 3 IDs, 3 edits, 2 calls on their way at once | saves and loads against edits; edits go to the rule that was picked |
| `destinations` | every authority of up to 4 pieces, bodies around the limit, 2 replays | replays find the original and agree |

Invariants that are only proved, for every instance, have no run: the type
invariants of `Engine`, `RuleStore`, `Certificates`, `LeafCache` and
`ControlChannel`, `UniqueIds`, `OneWriter`, `PersistedBeforeActive`,
`AuthorityIsLeftAlone` and `LeavesTyped`, and of a single daemon
`FilesKeepAuthority`, which only has the run in which two violate it. The type
invariants of the other modules are conjuncts of `MessagesStayWhole`, `CapturesMatchBodies`,
`ViewIsConsistent`, `SelectionIsFaithful` and `ReplaysAreAlike`.

Why the bounds are enough. Eviction needs one more id than the capacity, which
`engine` has: an intercepted client and two commands issue three; a race in
`begin_transaction` needs two tasks, and replaying a record that is still
pending, or looking up a result that another client has evicted, a second. The
kinds of request are one per branch of the capture path: with a text body,
chunked, with an invalid length, a CONNECT, and an intercepted request with a
transfer coding other than chunked and an opaque body. Two
replacements by two clients let each overwrite the other and fail at each step;
one crash leaves any intermediate state, which the next start repairs or not.
Two starts let two daemons overlap, and the invariant between runs says what
the next start would find; of one daemon, three let a failed check come after
an authority was in use and be broken off, and the start after it find what is
there, with a fourth for a certificate that was torn before. The six
rules hold every kind of action and every way to be without effect; three in a
row let one enable or disable the next through the path, the host header or a
value. The four requests have duplicated and missing headers and a target that
is no path; the two replies have duplicated headers in either order, one of them
has a body and the other, a 304, only its length; rules name headers in either
spelling.
Heads, limits and buffers of a few bytes keep the order that matters: a head
below, at and above the limit, a read that ends before, at and after the head,
a body below, at and above the limit of a preview. A command of three bytes
can end before its newline and before that. An event of four bytes is
cut anywhere, also before its newline. A log of one record lets each new one
evict the record that is selected, listed or replayed, and a restart issue its
id again; three edits are enough to type one rule's ID over another's, pick and
edit or delete the one that the ID now finds, while two calls are on their way.
Two replays tell a replay of a replay from the first. Four pieces hold every
authority whose parts can be confused; the longer ones, with two pairs of
brackets or a port after an address, are added by name.
Symmetry is used for identical keys, tasks, clients and calls in runs without
liveness properties. Deadlock is checked everywhere; what ends a bounded behaviour is an
explicit step of the model.

**Finding 1.** `rule_store.rs:127` restricts the permissions of the renamed file
and returns the error if that fails. The daemon then answers
`rewrite_rule_persistence_failed` (`main.rs:233`) and keeps the old rules
active, but the file already holds the new ones, and the next start loads them.
`FailureMeansNotPersisted` states what the event's code says and is violated in
`rules_failure`; `ActiveIsPersisted` states the exception explicitly.

**Finding 2.** The authority is loaded or created (`main.rs:70`) before the
sockets are bound (`main.rs:122`), so two daemons that are started on an empty
directory may both create one. `docs/TLS.md:52` says that the authority persists
so that it need not be trusted again after a restart; `FilesKeepAuthority` says
this of the files while no daemon runs. In the run the second daemon looks for
the files before the first has written its certificate. The first one then
finishes, binds, listens and is killed; the second one goes on, writes its own
key over the first one's and is killed before it has written its certificate.
The two files no longer belong together, and the key that was in use is lost.
With one daemon the property holds, and is proved.

**Finding 3.** The rule editor says that "response actions use the same matched
rule order" (`RulesWorkspace.swift:197`), but `apply_response_rules` matches
again, with the rewritten request (`rules.rs:91`, `main.rs:471`): a rule for a
path prefix that sets the path to another one loses its own response actions.
`SameRulesUnlessMoved` is the part of the promise that holds, and
`ReplaySeesSameResponse` what would break if the original request were used
instead: a replay only has the rewritten one.

Seven more places where the code does other than a text says delimit what can be
promised. No run is about them; each is the reason why a property above says
what it says and not more:

- "The CA itself persists locally so a development device does not need to
  re-trust a new authority on every engine restart" (`docs/TLS.md:52`), but
  `exists()` (`certificates.rs:55`) is false also if the metadata of a file
  cannot be read, and the daemon then creates another authority over the one it
  has, even if no other daemon runs. `PairIsConsistent`, `RestartKeepsAuthority`
  and `FilesKeepAuthority` except authorities that a failed check has overlooked.
- "Status rewrites preserve the upstream body. The engine rejects 1xx, 204, 205,
  and 304 status overrides" (`RulesWorkspace.swift:190`), but
  `apply_response_action` only looks at the new status (`rules.rs:128`). A 304
  reply with a Content-Length can be delivered as 503, and the client expects a
  body that does not come; an interim reply that is given a final status makes
  the final head the body. `StatusKeepsBody` is about all other replies.
- The daemon logs that without interception CONNECT requests are "tunneled
  transparently" (`main.rs:79`), but what is read together with the CONNECT is
  dropped (`main.rs:320-333`). `TunnelKeepsAnsweredClients` is about clients
  that wait for the reply.
- "HTTP head exceeds configured limit" (`http.rs:46`) is also the answer to a
  head within the limit whose last read carries body bytes beyond it
  (`http.rs:71`). `HeadLimitHolds` bounds it: no head above the limit is taken,
  and none is refused that is more than one read below it.
- The protocol is newline-delimited (`docs/ARCHITECTURE.md:23`), but the
  application takes the first piece it receives for the whole event
  (`EngineClient.swift:316`). `PartialOnlyIfEarly` says when that is less: if
  the rest had not arrived, and never because bytes were lost.
- The traffic list is said to refresh automatically
  (`docs/GETTING_STARTED.md:61`), but a call whose connection waits
  (`EngineClient.swift:334`) never returns, and `isChecking` keeps all later
  ones from being made (`ProxymanCloneApp.swift:403`). And a listing that is
  longer than the first piece received (`EngineClient.swift:316`) does not
  decode, as may be so for every one. `FollowsDaemon` names both cases as its
  exceptions, `BothEndsReturn` the first.
- The record has the host of the destination without its port (`main.rs:424`),
  and both exports build their URL from it (`CurlCommand.swift:45`,
  `HAR.swift:168`), although their tests use hosts with a port
  (`CurlCommandTests.swift:44`, `HARTests.swift:65`). A replay finds the port
  in the recorded headers and target, and `ReplayFindsOriginal` is about it.

### Fairness

In `Engine` every step inside the daemon has weak fairness: locks are held
without awaiting, tokio's locks are fair, and tokio runs every ready task.
Steps that wait for a peer have none, because the code sets no timeout: the
liveness properties take as a premise that the task is not for ever at such a
step. In `RuleStore` file operations return and the lock is handed to its
waiters in order (strong fairness of `Acquire` and of the read in `Succeed`,
which others may disable again and again; tokio's queue gives more). Reporting
a failed save waits for the client to take the event while the lock is held, so
it has no fairness: that clients do so is the premise of `ReplacementAnswered`.
The crash is never fair, and with it the property says that whoever survives it
is answered. In `HttpExchange` the runtime runs a task whose read or
write can go on, and a server reads unless its own answer blocks it; which
peers are willing is a premise of `ExchangeCompletes`. In `ControlChannel` the
queue runs what is due and the network moves bytes; nothing makes a waiting
connection ready or fail, and a command may take for ever. In `TrafficView` the
timer fires and the main actor shows what was answered. Nothing is assumed of
calls: that one never returns (`CallNeverReturns`), or that all fail from some
time on (`EveryCallFails`), are the exceptions of `FollowsDaemon`. What remains
is that a refresh that failed lets the next one be made, and that one listing
that succeeds after the daemon has come to rest is enough; the bounds on ids and
restarts bring it to rest in every behaviour, and of a daemon that never rests
nothing is claimed.

## 5. The proofs

Assumed: the set of tasks is finite, connections and clients are distinct, the
capacity is positive, requests are requests, and for rule sets that the empty
set is valid and fits and that the two special file contents are no rule sets.
For heads: those that clients and servers send are heads, the names that frame
a body and "host" are header names, and a host can be the value of a header.
For certificates: there are at least as many keys as starts. TLC evaluates
these assumptions in the runs of the modules that state them.

`EngineProofs` proves, for all constants: `TypeCorrect`, `IdsAreUnique`,
`SettledRecordsAreFinal`, `PendingRecordsHaveOwners`,
`RecordsGoMissingByEviction`, `CounterTracksIds` and
`EngineImplementsCaptureLog`. `UniqueIds` is not inductive: that a new record
has a fresh id needs to know that ids held by tasks are distinct and below the
counter. `IdInv` adds this (`OwnIds`, `DistinctIds`, `HeldIds`) and that a task
between inserting and settling owns the only record it may touch, which is
still pending (`UnsettledIsPending`). Every action is then classified by what
it does to the store (`StepKinds`: keeps it, records a preview, settles a
record, reserves, inserts), so that each invariant is proved over five kinds
of step instead of thirty actions. The refinement maps a reservation to
`Issue`, an insertion to `Record`, settling a held pending record to `Settle`,
and everything else, including settling an evicted record, to a stutter.

`RulesProofs` proves the five properties of `Rules`, for heads with any names,
values and paths, lists of any number of rules, rules of any number of actions,
and any number of exchanges and replacements. The work is in the two theorems
about the operators, `RequestRulesAreFollowed` and `ResponseRulesAreFollowed`:
for every head and list, what the folds compute is what the places say. Their
argument goes in four steps.

1. A fold is a run. `FoldLeft` is a recursive function over sets of indices;
   `FoldExists`, `FoldRuns` and the lemmas on lists of actions and of rules
   turn it into the sequence of heads that the loop of the code goes through.
   The library's induction takes an operator, which the provers cannot
   instantiate; instead `UpTo` takes the set of the good numbers, and is proved
   by the least one that is not in it (`WFMin`).
2. An action has one effect: `RequestActionEffect` and `ResponseActionEffect`
   say which field or header it changes, to what, and that the head stays well
   formed.
3. The last place decides. In a run in which every step either keeps a quantity
   or sets it, the end has what the last setting step says (`LastDecides`), also
   when the steps are the actions of the rules that match, in order
   (`LatestDecides`). The path, the status and each header are such quantities.
4. Rules match in turn: the path before a rule is what the moves of the chosen
   rules before it say (`PathFollows`).

The invariant of the exchange then only has to say that heads are made by the
rules that were read: the request from the client's head, the response from the
server's and the request that was sent, and the record's response from the
record's request (`Applied`, checked by TLC in the instance of `rewriting` before
it was proved). Framing survives because no action edits the headers that frame
a body, and a reply with a body keeps it because an accepted status has one.
`SameRulesMatch` needs that the matching set is unique (`MatchedOnce`),
and that without moves all rules are matched with one path (`MatchedAtOnce`).
`ReplaysSeeSameResponse` needs that two requests with the same host and path
get the same response (`ResponseByMatching`).

`RulesProofs` then proves all seven safety properties of `RuleStore`. Its
inductive invariant `StoreInv` says what holds between the steps of a
replacement: who holds the lock, that the temporary file holds the client's own
set when it is renamed, that after the rename the file does, and that an
acknowledged set that nobody has renamed over is in the file, valid and of
loadable size. `StoreReplacesRules` joins the two modules, if the valid sets of
one are the `RuleSets` of the other: a daemon starts with active rules that
`Init` of `Rules` allows, and as long as it runs they change as `Replace` lets
them. So what is proved of exchanges holds of rules that concurrent clients
replace in the steps of `RuleStore`; only a restart changes them otherwise, and
it ends all exchanges.

`InterceptionProofs` first proves the type invariant and the four properties
`PairIsConsistent`, `RestartKeepsAuthority`, `FilesKeepAuthority` and
`AuthorityIsLeftAlone` of `Certificates` under the hypothesis `Alone`, that no
two daemons share the directory; `certificates_twice` shows that the third is
false without it. The invariant
says that there is no certificate without a key (`KeyIsFirst`), that the
certificate is written last, or was overlooked (`CertificateIsLast`), what each
point of `load_or_create` knows of the files (`Progress`), and that an
authority that was ever in use is the one stored unless it was overlooked
(`AuthorityIsStored`). Then
the leaves, for any tasks, hosts and numbers of calls (`Bounded` says that
`MaxCalls` is a number): what a call found returned before it began is in the
cache (`GivenIsCached`), and stays there until the process ends. The steps of
the daemon are steps of `LeafCache`, leave the leaves alone or forget them all,
and each keeps that. The other half of the composition,
`AuthorityIsIndependent`, says that it is a daemon of `Certificates`, so that
the theorems about the authority hold of it.

`ControlChannelProofs` proves `TypeOK`, `ResumedOnce`, `RunsOnce` and
`PartialOnlyIfEarly` for commands and events of any length and receives of any
size. None is inductive: `OneOperation` says that of sending and receiving at
most one is begun, outstanding or reported, and none before the connection is
ready, so that the command is sent once; `Budget` counts its bytes, on the way
or in the line until the line is taken, whole or without its newline, and those of the event, which are there only after the
execution; `Answers` ties every result that is not an error to that;
`OneContinuation` says where the continuation is. That a part is only given
while the rest can arrive needs `BytesInv`: as long as the connection is open
nothing has failed (`Unfinished`), and what was written is on its way or in a
callback (`NothingLost`).

`EngineProofs` goes on to commands. `ResultsAreOwn` needs to know that the
record of a client's id has the client's own request, and a captured response
once the client is about to return it (`OwnRecord`): only its own task touches
it, and others only push it back in the deque. `ReplayedBodiesWereWhole` needs
that a preview which says "text" is of a body that was read to its end
(`TextWasWhole`), and that a proxy task records one only after it has forwarded
the body (`ForwardedWasWhole`).

`HttpExchangeProofs` proves the three invariants of `HttpExchange` and that it
implements `ByteRelay`, for bodies, limits and buffers of any size. The
invariant says where every byte is: what was written and what waits to be
written are adjacent pieces of the body (`UpstreamInOrder`), together they are
what was read of it after the head and within the announced length
(`TakenIsWhatWasRead`), and the same of the response (`DeliveredIsWhatWasRead`)
and of a tunnel (`TunnelPassesOn`). The lemmas on pieces of a stream
(`JoinBytes`, `CutBytes`) reduce each step to arithmetic. The proof needs that a
client which waits and sends less than its head has no more to read than it
sends, which `FromClientAvailable` now says.

`TrafficViewProofs` proves both safety properties of the list. Its invariant
says what the application may know of a record (`Known`): if it is of the
daemon that runs, its id was issued and recorded, and it is settled there if it
is shown as settled; and of a listing on its way that it has everything that is
shown of that daemon and still held, no less settled, unless a replay was shown
since it was made (`GoodAnswer`, `Current`).

`RulesWorkspaceProofs` proves the three properties of the rule editor for any
number of rules, IDs and calls. `Picked` says that the ID which is searched
finds the rule that was picked unless two have one ID, `SavesMatch` that a save
carries what is shown until an edit, `StoredKnown` that the daemon's rules are
those of an answer on its way or those the view learnt last. Where the code
searches the first rule with an ID, or counts up to a free one, the lemmas find
it with the least element of a set of numbers and, for the free ID, by a count:
there are more numbers tried than rules.

`DestinationsProofs` proves the three properties of replays for authorities of
any length and any number of replays. Its core is `RoundTrip`: for every host
that a replay can be sent to, and every port, `parse_authority` reads in what
`format_authority` writes that host and port again, or nothing if the host has
brackets inside. `SplitAgrees` says that the proxy and a replay never read
different places in one text, although `split_authority` looks for a colon
before the last one and `parse_authority` counts them. The invariant says that
the record of a replay has the header that leads back to it
(`ReplayIsRecorded`). The proof showed that the property had been claimed of
composed hosts with two pairs of brackets, of which it is false (section 3).

Only model-checked: the liveness properties (`CommandsAnswered`,
`RecordsSettle`, `ReplacementAnswered`, `ExchangeCompletes`, `BothEndsReturn` and
`FollowsDaemon`), because liveness under fairness is beyond the prover. Every
other property of a passing run is also a theorem.

## 6. Not modelled

- Bytes, formatting, logging and the wording of messages.
- The wrap of the 64-bit id counter, out of reach of any execution.
- What ping, status and the listings of rules and records say: they only read.
  The accept loop, which ends the daemon when `accept` fails.
- How a request line or a status line is split into words, UTF-8 and JSON, and
  the characters and sizes that make a method, target or header invalid.
- Loss of power: nothing is fsynced, so an acknowledged set may be lost with
  the page cache; `Crash` keeps what the operating system was given.
- Two daemons at once on one rule file: the second fails to bind its sockets
  before it can serve a replacement.
- Two daemons that write the authority at the same instant leave the whole
  content of one of them, never a mixture.
- Which rules were applied: the code only logs how many.
- In the application: filters, search, the inspector, the editors of single
  actions, and exports, which format a captured transaction for a file or the
  clipboard and keep no state of their own.
