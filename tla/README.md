# A TLA+ model of the PGo runtime (`distsys`) and of systems built with it

PGo compiles Modular PlusCal (MPCal) archetypes to Go. The compiled code runs on the `distsys` runtime: an
`MPCalContext` executes an archetype one *critical section* (label) at a time, and everything the archetype reads or
writes is an `ArchetypeResource`. A critical section is a transaction: it reads and writes resources, and then all
dirty resources are pre-committed, and either committed or aborted. This directory models that runtime (the context,
and the resources whose concurrency is hard to test) and three systems of the repository that run on it: the Raft
key-value store, the primary-backup store and the replicated state machine.

## 1. Inventory

| part | state | operations | partners | what is hard |
|---|---|---|---|---|
| `mpcalctx.go` critical sections | dirty handles, the event in progress | Read, Write, PreCommit, Commit, Abort of a label | every resource | one of several PreCommits failing |
| `mpcalctx.go` life cycle | `runStateLock`, `exitRequested`, `requestExit`, `awaitExit` | Run, Stop | user goroutines | Stop against a Run that ends by itself |
| `archetypeinterface.go` | `.pc`, `.stack`, procedure locals | Goto, Call, TailCall, Return | local resources | recursion, retries of an aborted call |
| `fairness.go` | stack of (id, count, ceiling) | BeginCriticalSection, NextFairnessCounter | the label bodies | a choice that is never tried |
| `resources/twopc.go` | replicated value, version, vote, proposal, sender times | ReadValue, WriteValue, PreCommit, Commit, Abort, Receive, Close | peers over net/rpc | everything: see section 3 |
| `resources/crdt.go`, `gcounter.go`, `aworset.go`, `lww.go` | state-based CRDT, merge queue | ReadValue, WriteValue, Commit, Abort, ReceiveValue, broadcast | peers over net/rpc | a merge in the middle of a critical section |
| `resources/tcpmailboxes.go`, `relaxedmailboxes.go`, `mailboxes.go`, `conn.go` | send and receive buffers, connections | ReadValue, WriteValue, PreCommit, Commit, Abort, handleConn | peers over TCP | lost acknowledgements, resends |
| `resources/nestedarch.go` | request/response channels of a nested archetype | the resource operations as messages | nested contexts | late answers of an earlier request |
| `resources/fd.go` | per-archetype liveness answers | isAlive, getState, mainLoop | monitors over net/rpc | an answer older than the last restart |
| `resources/localshared.go` | value under a reader/writer semaphore | ReadValue, WriteValue, Commit, Abort | contexts of one process | upgrade of a read lock |
| `resources/persistent.go`, `filesystem.go` | wrapped value, on-disk copy | Commit, WriteValue | badger, files | a crash between two writes |
| `resources/channels.go`, `incmap.go`, `hashmap.go`, `dummy.go`, `placeholder.go` | buffers | the resource operations | Go channels | partial failure of a map of resources |
| `trace/` | vector clock, event | BeginEvent, Record*, CommitEvent | resources | causality of recorded events |
| `tla/`, `hashmap/` | none | TLA+ values and operators | all | none: pure library |
| `systems/raftkvs` | per server: role, term, vote, log and its copy on disk, commit index, state machine; per client: the request in progress | five contexts per server (messages, elections, appending, committing, becoming leader), `AClient` | servers and clients over relaxed mailboxes; the contexts of a server share its state | signals, loops and indices of one context that outlive the role another one took away; retries; replaced connections |
| `systems/pbkvs` | per replica: store, version of the last put, responses awaited; per client: the request and the replica asked | `AReplica`, `AClient`, the driver `Put`/`Get` | replicas, clients, failure detector, primary election | failover between any two messages of a put; a caller that gives up |
| `systems/replicatedkv` | per replica: queue per client, minimal clock, pending requests; per client: a logical clock shared by up to four processes | `AReplica`, `Get`, `Put`, `Disconnect`, `ClockUpdate` | bounded FIFO channels | broadcasts of the processes of one client that overtake each other; full channels |
| other `systems/` | generated programs | generated labels | the runtime | demonstrations, and `raftres`, the Raft of `raftkvs` split into two programs |
| `src/pgo` (Scala) | none | parser, translator, checker | none | sequential compiler |

What makes the modelled parts correct:

* a critical section takes effect at once or not at all, whatever its resources answer and however often it is retried;
* a Stop that has returned is final, and no order of Run and Stop panics;
* replicas of a 2PC resource agree on the value of a version, no update is lost, and a vote excludes a proposal of one's own;
* a mailbox delivers exactly the committed batches, in order;
* a nested archetype has done exactly what the outer sections did, whatever timed out in between, and keeps what its peers sent meanwhile;
* a CRDT replica gives away only what is committed and loses nothing of its own;
* the Raft store elects one leader per term, has its log on disk, and, as long as its messages are not overtaken, keeps what
  it has committed and is one store to its clients;
* the primary-backup store keeps every acknowledged put on every live replica through failures, and answers every request;
* a replica of the state machine applies each complete put, and hears nothing of a client that has left.

## 2. Modules

| module | models | state | actions |
|---|---|---|---|
| `TwoPC` | `resources/twopc.go` | per replica: value, old value, version, section and 2PC state, vote, sender times; the operation in progress and the line it is at; `tasks`, the goroutines of broadcasts; `calls`, the RPCs under way | one per mutex section or unlocked read of `ReadValue`, `WriteValue`, `PreCommit`, `Commit`, `Abort`, `Close`, of a broadcast goroutine, and of `Receive` |
| `ContextLifecycle` | `Run` and `Stop` of `mpcalctx.go`, `Close` of `nestedarch.go` | per context: `requestExit`, `exitRequested`, `awaitExit`, the lock holder; the line each goroutine is at | one per locked section; a send that may block while it holds the lock is a step of its own |
| `CriticalSection` | the section loop of `mpcalctx.go`, `Read`/`Write` of `archetypeinterface.go`, `archetyperesource.go`, `incmap.go`, `hashmap.go`, `trace/state.go` | value and old value of every leaf, dirty handles and elements, answers of PreCommits, the event being recorded | operations of a body, its ways to end, PreCommits that answer in any order, Commit and Abort handle by handle, Stop |
| `AtomicSections` | what a section promises | the committed values | one step per section |
| `TCPMailboxes` | `tcpmailboxes.go`, `mailboxes.go`, `conn.go` | per sender: connection, buffer to resend; the PreCommits that aborted sections have left running; per connection two FIFO streams and the handler at its end; the channel, the backlog and the reads in progress of the local end | one per record sent or handled, per fault, and per operation of both ends |
| `ReliableMailbox` | the mapping macro quoted in `tcpmailboxes.go` | a queue | `Send` of a batch, `Receive` |
| `NestedArchetype` | `nestedarch.go`, and `ACRDTResource` of `systems/nestedcrdtimpl` with the counter of its tests | the call in progress and its stage, the two channels, timers; of the nested system the request it works on, its state, the state read in the section, whether a section is open and whether the peer is to be told | one per select alternative of a call; the nested system takes a request, answers it, merges what its peer sends, sends to its peer, or stops |
| `CRDTResource` | `crdt.go`, `gcounter.go` | value and old value, merge queue, signal, the broadcast in progress, calls under way | one per locked section or channel operation of the archetype, the broadcast, the merger and `ReceiveValue` |
| `RaftKVS` | `systems/raftkvs`: `raftkvs.go`, `persistentlog.go`, and what `timer.go`, `relaxedmailboxes.go` and `fd.go` do to it | the shared variables of a server, the loop variables of its contexts, the clients, `net`: the messages on each connection, `overtaken` (history) | one per message handled and per section of the other contexts and of the client; a connection that breaks |
| `SingleCopyStore` | what the clients of `RaftKVS` may rely on | a history of commands and the answers given | `Execute`, `Answer` |
| `PBKVS` | `systems/pbkvs`: `pbkvs.go`, `bootstrap/client.go`, `leaderelection.go` | labels and locals of every node, `net`, who is alive, the calls of the drivers | one per label and branch of `either`; a failure; a driver that calls, gives up or takes its answer |
| `ReplicatedKV` | `systems/replicatedkv/replicated_kv.go` | the channels, the clocks, the locals of each process | one per label; the steps of a replica between two messages are joined |

`MC*` modules give the constants of the runs their values; `*Proofs` modules hold the proofs. `NestedArchetype`
and `ReplicatedKV` need no MC module. Operators whose comment begins with "Mutant" are plausible bugs of the operator that follows; no
specification uses them. They show that a property can fail.

What is abstracted: values are small sets, messages are numbered by sender and section, time is a choice between
"answers" and "times out". Sleeps, backoff, logging and vector clocks are left out. In `TwoPC` so are
`fetchStateFromReplicas`/`GetState`, which nothing calls, and `LocalReplicaHandle`, which only tests use. In
`ContextLifecycle` a critical section is one step, and a context with nested ones is run once; a nested context that
ends by itself makes the outer one end in its next section, by the error of the operation or by a panic of its Abort or
Commit. In `NestedArchetype` the peer is one node that sends its state at any moment, and what is sent to it arrives.
In `CRDTResource` writes add 1.

A map of resources that stops at its first error leaves the PreCommits of other elements running while it aborts them
(`incmap.go:63`). `CriticalSection` has the answers that nobody reads, and `TCPMailboxes` what such a PreCommit does to
a mailbox: it may send its record in a later section, take the answer of a later PreCommit or Commit, and close the connection that
is in use by then; a method or a handler that meets a connection or an exchange it does not expect panics.

The handlers of a replaced connection and of the one that replaces it feed one channel of the reader in any order
(`relaxedmailboxes.go:90-154`, `298`). `overtaken` says whether an append request or an answer to one has been read while
the replaced connection still held one of its kind and term. It restricts nothing: the runs and the theorems say what
holds before and after.

In the three systems a critical section is one step where the runtime makes it one: the contexts of a Raft server hold
the locks of the shared variables they touched to the end of the section (`localshared.go`), and nodes of the other
systems share nothing. A relaxed mailbox sends at the write, not at the commit; no generated section fails after its
send, so the write is part of the step. Each context of a Raft server opens connections of its own, hence messages of
two contexts to one destination may pass each other. A timer may fire at any moment. A crash is a node that takes no
more steps: nothing reads back what `PersistentLog` has written. Of the Raft program `votesResponded` (written, never
read), `netEnabled` and `AServerCrasher` (not started by the Go build) are left out. `PBKVS` has two `Deployments`: one
as `pbkvs.tla` specifies it (the smallest live replica is elected, mailboxes are queues) and one as the Go build
configures it (`leaderelection.go` always names replica 1, mailboxes are relaxed).

## 3. Runs and bounds

| run | configuration | shows | bounds, and why they are enough |
|---|---|---|---|
| `twopc_concurrent` | 3 replicas, 2 propose, one of them reads first and closes its replica, all links up, handlers of one sender overlap and check a PreCommit in one step and process it in another | votes exclude proposals, versions grow, values of a version agree, proposals exclude each other, no update is lost | one proposal each: contention of two proposals over every interleaving of 3 replicas is where majorities matter. A second proposal of a node is in `twopc_stale_abort`; lost answers are in no run (one lossy link takes about 5 million states; it was checked once) |
| `twopc_stale_abort` | two proposers, one may propose again, `n2` cannot reach `n1`; handlers overlap | finding 1 | |
| `lifecycle_nested` | a context stopped by two goroutines, the second of which may have to wait for the full channel, and a nested context that Close stops and that may end by itself, whereupon the outer one ends too | Stop is final, no panic of Run or Stop | 2 contexts, 5 goroutines: nesting is one level in the code |
| `lifecycle_deadlock` | two Stops of one context | finding 2 | |
| `section_atomic` | a leaf that refuses or fails and a map of two elements that refuse | refinement of `AtomicSections`; commit waits for all it needs; the recorded trace explains the values; sections end | `MaxElements` operations per section: a second write of a leaf and a mix of leaf and element |
| `mailbox_faults` | one sender; one fault, which is a broken or timed-out connection or a PreCommit left running by an abort; both ends may close, with fairness | nothing uncommitted arrives, nothing committed is lost, Commit ends; refinement of `ReliableMailbox` until the first fault | `MaxFaults` is 1, two sections of up to two messages: the fault meets every step of a section, of its resend and of the next section |
| `nested_late` | timeouts, refusals, contexts that stop, a peer that sends its state at any moment | calls take their own answers, channels are drained between calls; the nested state follows the outer sections, each commit takes effect once, reads and the state never shrink, the peer is told; calls end (a panic is an end) | counts up to 2 of the outer sections and 1 of the peer: a section that continues an earlier one, and a merge in the middle |
| `crdt_spread` | 2 replicas, 2 writes each, sections commit or abort | only committed counts spread; own counts are kept | two writes: in one section or in two; nodes are interchangeable (SYMMETRY) |
| `raft_kvs` | 3 servers; server 1 may lead term 2, server 2 term 2 or 3; one client that sends its put up to twice, over a connection that may break once and lose messages; server 3 may wrongly suspect server 1 | one leader per term; the assertions of the code hold; the disk has the log; refinement of `SingleCopyStore` | two candidates of one term, and a leader of the next one that replaces an entry of the first. Logs have one entry (`MaxLog`), so the check of the previous entry only meets index 0 and 1, a put cannot be committed twice, and the rule that a leader commits earlier terms only with an entry of its own is not put to the test; no connection between servers breaks. The theorems of section 4 have none of these bounds |
| `raft_overtake` | 3 servers, two elections, one put; the connection from the first leader to the second breaks | finding 3 | |
| `pb_kvs` | both deployments; 3 replicas, 2 may fail at any point; two clients on two keys, each makes a call and may be abandoned at its timer; with fairness | an acknowledged put is on every live replica; a version stands for one state and is never undone; every pending request is answered | two failures leave one replica: failover of the failover. Each key has one writer. One call per client: what a timeout does to the next one is `PB_timeout`. The assertions of the code are in no run: they fail with four replicas and in the deployment of the Go build (section 6) |
| `kv_requests` | 2 replicas, a client that puts once, ticks and leaves at any moment, a client that gets and ticks; channels of two messages | complete puts are everywhere; nothing is heard of a client that left | clocks up to 2: a put before and after the clock of the other client; channels are full when a replica answers. That a replica may wait for ever to answer is `KV_full` |

The runs of the runtime check deadlock; those modules have a step for the states in which everything has ended as it
should. `lifecycle_nested` does not: it has the deadlock of finding 2. The three systems really stop: bounded clients have nothing left to ask, a replica that waits for requests
receives none, and every replica may have failed; there `CHECK_DEADLOCK` is off and liveness is stated as a property.

The views of `crdt_spread` and `raft_kvs` leave out only what no step and no property reads again (`LiveView` of
`MCRaftKVS` drops the votes of a server that is no candidate, the indexes of one that is no leader and what a client
that has ended knew), and the nodes of `crdt_spread` are interchangeable.

One more configuration is kept, and holds: `CRDT_arrive` (merge queues of one entry, lost calls, one replica closes,
with fairness: `SentArrives`).

Fairness. Go schedules every goroutine that can run, so the steps of goroutines are weakly fair: operations,
broadcast tasks and handlers in `TwoPC` (an archetype need not begin a section, but it ends one that it began) and `Run`
after its start and the Stops that have begun in `ContextLifecycle`, which only configurations that violate a property
use; the section loop and each PreCommit that is
pending in `CriticalSection`; the resource and its nested system in `NestedArchetype`; the merger, the broadcast (its
ticker ticks), the end of a section and every call in `CRDTResource`. In `TCPMailboxes` the handlers, the resends and
`ReadValue` are weakly fair and `LocalCommit` is strongly fair: an archetype that aborts for ever after each read never
frees the channel, so that progress of the mailbox needs progress of its reader. In `PBKVS` each live replica and each
client is weakly fair, and so is each process of `ReplicatedKV` in `KV_full`: the runtime runs a context in a goroutine of its own and retries
an aborted section for ever. Faults, timers and callers are never fair. `RaftKVS` states no fairness: it elects a
leader only if timers happen to leave one alone.

## 4. Theorems

All proofs hold for arbitrary constants (any number of replicas, values, leaves, writes), where the runs fix small ones.

* `TwoPCProofs`: `TypeCorrect`, `VoteExclusion`, `NoDirtyRead`, `VersionMonotone`,
  `LostUpdateFreedom`. The inductive invariant `IInv` is `TypeOK` and, per node, the three state predicates together
  with `OpInv`, which says what the version and the section state are at each line of a running Commit or Abort.
  Without it the vote of a node could survive `FinishCommit`, which increments the version only if it did not change
  meanwhile. The network may do anything.
* `ContextLifecycleProofs`: `StopFinality`, `PanicFreedom`, `LifecycleTypes`, assuming that no context
  is run twice (`OneRun`). The invariant ties the line a Run is at to the channel and the flags: a running context has
  a channel, no exit was requested before it began, and `awaitExit` is open.
* `CriticalSectionProofs`: `SectionAtomicity`, the refinement of `AtomicSections`. A section takes effect when the last
  PreCommit has succeeded; until its Commit has reached a leaf, the abstract value of that leaf is the one written. The
  invariant `SInv` says of every leaf whether it was reached, whether it is dirty, and which value it will have.
  `RecordedTrace`: between two sections the recorded events add up to the values of the leaves, and every recorded
  read returned what the writes recorded before it left. `CommitReadsAnswers`: a section rolls forward only if
  every PreCommit has succeeded, and rolls back only when every handle has been waited for; the only answers left behind are
  those of elements of a map that another element has made fail (`incmap.go:63`, `Section_undrained`).
* `TCPMailboxesProofs`: `ArrivesOnlyIfCommitted`, `CommittedIsNeverLost`, `NoExchangeWithoutBegin`,
  `ImplementsReliableLink` (the refinement of `ReliableMailbox` until the first fault), for any number of senders,
  batches and faults and any size of the channel. `SendersInv` says of a connection which batch its handler holds once it
  has read the records that are still on the stream (`Ends`), and of the sender what that batch is in each of its
  phases: without it a commit record could make a handler deliver a batch that another exchange has begun. `BegunInv`
  adds that a handler that holds values has seen their begin. While there is no fault (`FaultFreeInv`), every sender
  has one connection, and at most its last batch is committed but not entered yet; the queue of the abstract mailbox
  is the channel and the local end's buffers, flattened. All but the last are stated up to the first PreCommit that a
  section leaves running (`abandoned`): such a PreCommit makes the handler read a record without its begin, so that
  `ExchangesBegin` fails (section 6) and with it what the other two rest on. The run checks `OnlyCommittedArrives` and
  `CommittedIsKept` beyond that point, with one such PreCommit. `SetInduction`, an induction on a well-founded relation
  written as a first-order fact (`WFMin`), gives the elements of a flattened sequence.
* `ReplicatedKVProofs`: `CompleteIsApplied`, `HearsNoneThatLeft`, for any number of replicas and clients, any processes
  of a client, any size of the channels and any order in which the minimal clock is found. For the first,
  the put of a connected client is in at most one place of a replica (channel, pending, stable) until it is applied,
  its time is later than that of every put applied before, and the responses taken and waiting count the replicas
  that have applied it. The second says which replicas the broadcast of a disconnection has not reached yet; a client
  that is connected has not begun it.
* `NestedArchetypeProofs`: `SanityHolds`, `AnswersAreOwn`, `AtMostOneStaleAck`, `NestedAgreement`,
  `CommitsTakeEffectOnce`, `StateNeverShrinks`, `ReadsNeverShrink`, `PeerIsOwed`. The invariant `Progress` says for each
  stage of a call where its request or its answer is, and that at most one answer of an earlier request is under way
  while Abort waits. What `ACRDTResource` has counted follows from the request it works on and the stage of the call:
  until a commit request is handled the section counts in `readState` only, and afterwards in `state`, into which the merge at the
  commit brings what the peer has sent since the section began. The last five hold after a panic, too.
* `CRDTResourceProofs`: `TypeCorrect`, `CommittedOnly`, `OwnCount`. The invariant adds to the two properties that every
  value in a queue or a call knows of no more than is committed, and that within a section the old value's own entry is
  what is committed; only then a merge cannot change a node's own entry.
* `RaftKVSProofs`: `ElectionSafe`. A vote is *held* by a candidate that has counted it or to which it is on its way.
  The invariant says that a held vote was given (its voter has it in `votedFor`, or is in a later term), that no voter's
  vote of a term is held by two servers, and that a leader holds a quorum. The second part is needed because a voter
  forgets its votes of earlier terms. Failure detectors, broken connections and overtaking are arbitrary.
  `DiskIsLog`: the disk has the log, by an invariant that also says that requests carry sequences and that
  `nextIndex` is positive; the lemma `FlushFollows` compares the operations sent to the disk with those on the list.
  `LeadersComplete`, `NoAssertionFails`, `CommittedOnce` (no two servers commit different entries) and `LogsMatchUp`
  (log matching) share the inductive invariant `HInv`. What it has to say is not in the state: servers forget votes,
  overwritten entries and what they have acknowledged. So it says that *there is* a history that the state follows:
  for each term its leader, that leader's log at its last and the length it was elected with (`base`); for each
  server how much it accepted of each such log, whom it voted for and how far its log was then. `HistoryOK` orders a history: logs of
  leaders are made of prefixes of earlier ones, a log chosen by a quorum is in every later one (`LaterHave`).
  `Follows` says that each server's log is what it accepted last, that leaders know of others (`matchIndex`) no more
  than those accepted, that commit indexes are covered by a choice, and that messages carry pieces of those logs,
  those of one connection reaching ever further (`InOrder`). An election, an append, an acceptance and a vote go on to
  another history; every other step keeps it. TLC cannot enumerate histories, so `HInv` itself is checked by no run.
  `ImplementsSingleCopy` is the refinement of `SingleCopyStore`: the abstract history is the committed prefix of any
  server that has committed most, and which one does not matter (`CommittedOnce`). Beside `HInv` it needs `SInv`:
  every store has for each key what the last put among the committed entries left there (`ValueIn`), a request between
  servers carries no commit index that its sender has not reached, and every answer, on its way or taken, is the result of
  a committed command. A step then keeps what was committed (`CommitsGrow`) and lengthens the history or not; a client that
  takes an answer does `Answer`. That `ApplyLog`, which applies the entries up to the new commit index one after the other,
  exists as a function and gives `ValueIn` (`StoresExist`, `LogApplied`), and that some server has committed most
  (`MostCommitted`), are inductions over numbers, done by a least counterexample, which is a first-order fact.
  These theorems say what holds until an append request, or an answer to one, has overtaken an earlier one of its term
  (`~overtaken`); `ImplementsSingleCopy` in the form that the initial state and every step up to there are those of a single
  copy, `SingleCopyWithoutOvertaking` in the form that a behaviour in which this never happens implements
  `SingleCopyStore`. From that step on `InOrder` fails, then `LeaderCompleteness` (finding 3), and with it
  that two servers agree on what is committed. No constant and no assumption excludes it. Everything else is
  arbitrary as well: the number of servers, the terms, which connections break and what they lose, the order in which all
  other messages are read, what failure detectors report. Commands that are sent again may be committed twice.

The constants' assumptions are those the code justifies: `Node` is finite, the bounds are naturals, `HandleOf` maps
leaves to handles, and similar.

`TypeCorrect` and its like state the type invariants the other proofs rest on; those are in no run's list, and neither
are `OneStaleAck`, `ExchangesBegin`, `CommittedAgree` and `LogMatching`; `LeaderCompleteness` is that of the run that violates it.

Only model-checked: everything that is temporal under fairness (`SectionsEnd`, `CommitEnds`, `CallsEnd`,
`ClientsReturn`), which the prover cannot do; the global properties of `TwoPC` (`Agreement`, `ExclusiveProposal`), which hold
for one proposal per node and, by finding 1, not in general; of `PBKVS`, `ConsistencyOK`, `VersionIsState` and
`NothingUndone`, whose proofs are not written.

## 5. Findings

1. `twopc_stale_abort`. `Receive` checks the sender's time in one critical section and handles the request in another.
   An Abort that has passed the check can be handled after the next PreCommit of the same sender, and takes away its
   vote: the proposer commits without a majority.
2. `lifecycle_deadlock`. `Stop` sends on `requestExit` while it holds `runStateLock` and never sets `exitRequested`. If
   a context ends by itself while two goroutines stop it, the second send blocks on the full channel, and `Run` needs
   the lock to end.

3. `raft_overtake`. A connection between servers that breaks is replaced while its handler still holds what it has read,
   and that reaches the archetype after what came over the new connection. `relaxedmailboxes.go:16` says "It has the same
   guarantees as tcp mailboxes", and the README of `raftkvs` assumes "Network links are reliable FIFO links". A follower
   acknowledges an entry and then accepts an older append request of the same term, which takes the entry off its log;
   the leader commits by the acknowledgement, and the follower becomes leader of the next term without the entry. The log
   that the leader has committed and that of the next one then go apart, so that servers that both follow the rules
   commit different entries at one index.

## 6. Further configurations

Each of these violates the one property it names. They reproduce disagreements between the code and its comments that
are not listed as findings, and limits that the code accepts.

| configuration | module | property | what happens |
|---|---|---|---|
| `TwoPC_rejected_abort` | `MCTwoPC` | `RejectionIsNewer` | a Commit accepted between building an Abort and reading `originalVersion` makes "was rejected by another node with the same version" fail |
| `TwoPC_unsent_commit` | `MCTwoPC` | `CommitReachesAll` | `shouldRetry` is tested before the first Send; once a majority has acknowledged, the last replica is never sent the Commit |
| `TwoPC_votes` | `MCTwoPC` | `VotesAreResolved` | the second half of finding 1: an Abort handled between the check and the processing of its own PreCommit releases nothing, and the vote given afterwards stays |
| `Lifecycle_twice` | `MCContextLifecycle` | `ExitIsFinal` | the end of Run resets `requestExit`, so a context can be run twice, on closed resources |
| `Lifecycle_unstarted` | `MCContextLifecycle` | `StopEndsNested` | Stop before Run never closes the resources, and nested contexts run on |
| `Section_undrained` | `MCCriticalSection` | `AnswersAreDrained` | `IncMap` and `HashMap` stop reading PreCommits at the first error, and Abort meets elements whose PreCommit is under way. If the elements are mailboxes the program may then panic on a connection that is nil, or in `handleConn`, which expects every exchange to begin with a begin: `Mailbox_faults` violates `ExchangesBegin` |
| `Section_close` | `MCCriticalSection` | `ClosedOutsideSections` | an error ends Run, which closes resources in the middle of a section |
| `Mailbox_duplicate` | `MCTCPMailboxes` | `DeliveredOnce` | a Commit that times out is sent again, and the batch arrives twice |
| `Nested_race` | `NestedArchetype` | `AbortTakesItsOwnAck` | Abort may send while a late answer is buffered, takes that for its own and panics |
| `Nested_refusal` | `NestedArchetype` | `AbortDiscardsLateAnswers` | Abort panics on a late "aborted" |
| `CRDT_signal` | `MCCRDTResource` | `CommittedArrives` | a broadcast between a write and its Commit uses up the signal; the committed value is never sent |
| `CRDT_abort` | `MCCRDTResource` | `MergedIsKept` | a value merged in the middle of a section is forgotten by its Abort |
| `CRDT_close` | `MCCRDTResource` | `CloseEnds` | the merger returns first, and a broadcast that waits for room in its queue never ends |
| `PB_timeout` | `MCPBKVS` | `RetriesServed` | the README of `pbkvs` says "it's fine since the client retries and all operations are idempotent". After a timeout of `Put` nobody takes the answer from the unbuffered `respCh`: `OutputChan.Commit` blocks, and so does the next call of the driver on `reqCh` |
| `PB_suspicion` | `MCPBKVS` | `ConsistencyOK` | a primary whose detector wrongly reports a backup acknowledges a put that the backup does not have |
| `PB_four` | `MCPBKVS` | `AssertionsHold` | with four replicas a new primary may find an answer to an earlier synchronisation where it asserts one to the present one. `AssertionsHold` speaks of the deployment of `pbkvs.tla`; in that of the Go build three replicas are enough, as a late answer of a replica that was reported as failed trips the primary's assertion |
| `KV_order` | `ReplicatedKV` | `SameOrder` | two replicas apply puts in different orders. 0 stands both for "no minimum yet" and for the clock of a client not heard of, a `ClockUpdate` may overtake the broadcast of a `Put` with a smaller clock, and a client may leave in the middle of a broadcast; `replicated_kv.tla:280` warns that the database may get inconsistent |
| `KV_full` | `ReplicatedKV` | `ReplicasReturn` | with channels of one message a replica waits for ever to answer a client that has left |

What else differs from its description, without a configuration. `raftkvs.tla` states `LeaderCompleteness` of every
leader whose term is at least that of the *committed entry* (`raftkvs.tla:15745`). That is too much, of Raft as of this program: TLC finds
(three servers, three elections, a command sent twice, `MaxLog` 2: more than the run `raft_kvs` has) an entry of term 2 that
one server has, that server leading term 4 and committing the entry together with one of term 4, and a leader of term
3, elected by the third server before, that has a later term than the entry and does not have it.
`RaftKVS` states it of leaders whose term is at least that of the *server that has committed*, which is what the proof
gives, and what is needed: nobody commits with the help of such an old leader.
`raftkvs.go` awaits `(fd /\ netLen = 0) \/ timeout`,
but reads the timeout channel unconditionally, which aborts the section while it is empty: the failure detector alone
never makes a client retry. `leaderelection.go` is a stub, so that backups never take over in the Go build; there a
late answer of a replica that is reported as failed trips an assertion of the primary. A retry after a failover may
apply a put twice.

## 7. Not modelled, and the plan

Not modelled: the TLA+ value library and the hash map (pure functions without state), the Scala compiler (sequential),
the other example systems, editor support. Restarts: no resource reads back what it wrote (`Persistent.load` is
commented out, `PersistentLog` has no load), so a restarted node is a new one. Of the semaphore of `localshared.go`, the
failure detector's monitor and the channel resources the systems' modules use what they guarantee; they are not modules.

Hazards that no model reaches yet: the upgrade of a read lock by two sections, and fields reached without the lock
(`localshared.go`); answers of the failure detector older than a restart (`fd.go`); counters whose ids change between
retries of a section (`fairness.go`); `TailCall`, which looks up `.pc` in the stack instead of its head
(`archetypeinterface.go`); merges of a last-writer-wins set with equal times (`lww.go`).

Next, in this order:

1. Proofs: `VersionIsState` for `PBKVS`; exclusion of two majorities for `TwoPC` with serial handlers.
2. `Voting`, an abstract specification of `TwoPC`'s votes. A vote for version v may be replaced by one for v+1 and be
   free again for v if that proposal is given up; with 5 replicas two proposals of one version may then both have had a
   majority. Five replicas are out of reach for `TwoPC` itself.
3. `LocalShared` (the semaphore as a reader/writer lock with upgrade), `FailureDetector`.
4. `Procedures` (Call, TailCall, Return, retried calls) and `FairnessCounter` (every branch is tried).
5. `CRDTValues`: the merges of `aworset.go` and `lww.go` against the laws of a join; vector clocks in `CriticalSection`
   and `TCPMailboxes`.
