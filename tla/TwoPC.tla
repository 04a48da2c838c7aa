------------------------------- MODULE TwoPC -------------------------------
(***************************************************************************)
(* The replicated "TwoPC" archetype resource of distsys/resources/twopc.go.*)
(* Every node holds one replica (a TwoPCArchetypeResource).  The archetype *)
(* at a node reads and writes its replica inside a critical section, then  *)
(* asks a majority of the other replicas to accept its PreCommit, and then *)
(* broadcasts a Commit or an Abort.                                        *)
(*                                                                         *)
(* One action is one section of code under the replica's mutex (or one     *)
(* unlocked read of the shared fields).  A broadcast starts one goroutine  *)
(* per replica (tasks); each Send is a net/rpc call whose handler runs in  *)
(* a goroutine of its own at the receiver (calls), so requests of the same *)
(* sender may overtake each other.                                         *)
(***************************************************************************)
EXTENDS Integers, FiniteSets

CONSTANTS
    Node,           \* the replicas, identified by their archetypeID
    Value,          \* the values the shared variable ranges over
    InitValue,      \* the value every replica is created with
    MaxRequests,    \* MaxRequests[n]: the archetype at n works on its replica
                    \*   only while n has made fewer requests (bound)
    Reads,          \* the nodes whose archetype reads its replica
    Writes,         \* Writes[n]: the values the archetype at n writes
    Up,             \* the links <<sender, replica>> that deliver requests
    Lossy,          \* the links <<sender, replica>> on which a Send can fail
    MayClose,       \* the nodes whose archetype may call Close
    MaxAttempts     \* copies of a Commit or Abort to one replica that are
                    \*   told apart; retries go on for ever (bound)

ASSUME NodeAssumption == IsFiniteSet(Node)
ASSUME ValueAssumption == InitValue \in Value
ASSUME BoundAssumption == /\ MaxRequests \in [Node -> Nat]
                          /\ MaxAttempts \in Nat \ {0}
ASSUME EnvironmentAssumption == /\ Writes \in [Node -> SUBSET Value]
                                /\ Reads \subseteq Node
                                /\ Up \subseteq Node \X Node
                                /\ Lossy \subseteq Node \X Node
                                /\ MayClose \subseteq Node

VARIABLES
    value,                  \* res.value
    oldValue,               \* res.oldValue
    version,                \* res.version
    criticalSectionState,   \* res.criticalSectionState
    twoPCState,             \* res.twoPCState
    acceptedPreCommit,      \* res.acceptedPreCommit
    senderTimes,            \* res.senderTimes
    clock,                  \* the requests n has made; stands for time.Now()
    op,                     \* the resource operation the archetype is in
    step,                   \* where that operation is
    local,                  \* its local variables
    tasks,                  \* goroutines started by broadcast
    calls,                  \* RPCs that are in flight or answered
    panicked                \* the assertion that failed at n, or "no"

replica == <<value, oldValue, version, criticalSectionState, twoPCState,
             acceptedPreCommit>>
thread == <<op, step, local>>
vars == <<replica, senderTimes, clock, thread, tasks, calls, panicked>>

-----------------------------------------------------------------------------
(* Types.                                                                  *)

CriticalSectionState == {"inUninterruptedCriticalSection",
    "acceptedNewValueInCriticalSection", "notInCriticalSection",
    "inPreCommit", "hasPreCommitted", "failedPreCommit"}

Request == [type : {"PreCommit", "Commit", "Abort"}, value : Value,
            sender : Node, version : Nat, time : Nat]

Response == [accept : BOOLEAN, version : Nat, value : Value]

(* A goroutine of a broadcast: f(i, r, isDone) for the replica `to`.       *)
Task == [req : Request, to : Node, orig : Nat, attempt : Nat,
         at : {"retry?", "sending"}]

(* One client.Go("TwoPCReceiver.Receive", ...).                            *)
Call == [req : Request, to : Node, attempt : Nat,
         at : {"sent", "checked", "answered"}, reply : Response]

Op == {"none", "PreCommit", "Commit", "Abort", "Close", "closed"}

Step == {"ready", "succeeded", "failed",        \* between two operations
         "sleep", "check", "awaitVotes", "rollback", "vote", "orig", "value",
         "version", "send", "awaitAcks", "drain"}

Local == [orig : Nat, req : Request, required : Int, remaining : Int]

Panic == {"no", "commit", "preCommitComplete", "rejected", "close"}

Accept == [accept |-> TRUE, version |-> 0, value |-> InitValue]

-----------------------------------------------------------------------------
(* Pieces of the handlers.                                                 *)

Replicas(n) == Node \ {n}

(* Mutant: the majority is rounded down.                                   *)
RequiredRoundedDown(n) == (Cardinality(Replicas(n)) - 1) \div 2

(* The acknowledgements a broadcast waits for.                             *)
Required(n) == LET r == Cardinality(Replicas(n))
               IN  IF r % 2 = 0 THEN r \div 2 ELSE r \div 2 + 1

(* Mutant: a replica votes while its own PreCommit is outstanding.         *)
CanAlwaysAcceptPreCommit(s) == s # "hasPreCommitted"

CanAcceptPreCommit(s) == s \in {"inUninterruptedCriticalSection",
    "notInCriticalSection", "failedPreCommit",
    "acceptedNewValueInCriticalSection"}

CriticalSectionPermanentlyFailed(n) ==
    criticalSectionState[n] \in {"acceptedNewValueInCriticalSection",
                                 "failedPreCommit"}

ShouldAbortPreCommit(n) == \/ CriticalSectionPermanentlyFailed(n)
                           \/ twoPCState[n] = "acceptedPreCommit"

(* makePreCommit, makeCommit and makeAbort.  An Abort carries no value; it *)
(* is never read, so InitValue stands for the zero tla.Value.              *)
MakeRequest(n, t) ==
    [type |-> t, value |-> IF t = "Abort" THEN InitValue ELSE value[n],
     sender |-> n, version |-> version[n] + 1, time |-> clock[n] + 1]

MakeReject(n) ==
    [accept |-> FALSE, version |-> version[n], value |-> oldValue[n]]

AcceptKeepingValue(n, val, ver) ==
    /\ version' = [version EXCEPT ![n] = ver]
    /\ oldValue' = [oldValue EXCEPT ![n] = val]
    /\ twoPCState' = [twoPCState EXCEPT ![n] = "initial"]
    /\ criticalSectionState' = [criticalSectionState EXCEPT ![n] =
          IF @ # "notInCriticalSection"
          THEN "acceptedNewValueInCriticalSection" ELSE @]
    /\ UNCHANGED <<value, acceptedPreCommit>>

AcceptSilently(n, val, ver) ==
    /\ version' = [version EXCEPT ![n] = ver]
    /\ value' = [value EXCEPT ![n] = val]
    /\ oldValue' = [oldValue EXCEPT ![n] = val]
    /\ twoPCState' = [twoPCState EXCEPT ![n] = "initial"]
    /\ UNCHANGED <<criticalSectionState, acceptedPreCommit>>

(* acceptNewValue, called with the mutex held; leaves acceptedPreCommit.   *)
AcceptNewValue(n, val, ver) ==
    /\ version' = [version EXCEPT ![n] = ver]
    /\ value' = [value EXCEPT ![n] = val]
    /\ oldValue' = [oldValue EXCEPT ![n] = val]
    /\ twoPCState' = [twoPCState EXCEPT ![n] =
          IF @ = "acceptedPreCommit" /\ acceptedPreCommit[n].version <= ver
          THEN "initial" ELSE @]
    /\ criticalSectionState' = [criticalSectionState EXCEPT ![n] =
          IF @ # "notInCriticalSection"
          THEN "acceptedNewValueInCriticalSection" ELSE @]
    /\ UNCHANGED acceptedPreCommit

(* Mutant: every rejection is adopted.                                     *)
AdoptAlways(n, reply) == AcceptNewValue(n, reply.value, reply.version)

(* A rejection that carries a newer version is adopted.                    *)
AdoptNewer(n, reply) ==
    IF reply.version > version[n]
    THEN AcceptNewValue(n, reply.value, reply.version)
    ELSE UNCHANGED replica

SetCS(n, s) == criticalSectionState' = [criticalSectionState EXCEPT ![n] = s]

Goto(n, o, s) == /\ op' = [op EXCEPT ![n] = o]
                 /\ step' = [step EXCEPT ![n] = s]

At(n, o, s) == panicked[n] = "no" /\ op[n] = o /\ step[n] = s

PanicAt(n, why) == panicked' = [panicked EXCEPT ![n] = why]

(* The zero TwoPCRequest.  No replica is its own peer, so n as the sender  *)
(* stands for "no sender".                                                 *)
ZeroRequest(n) == [type |-> "PreCommit", value |-> InitValue, sender |-> n,
                   version |-> 0, time |-> 0]

NoLocal(n) == [orig |-> 0, req |-> ZeroRequest(n), required |-> 0,
               remaining |-> 0]

Init ==
    /\ value = [n \in Node |-> InitValue]
    /\ oldValue = [n \in Node |-> InitValue]
    /\ version = [n \in Node |-> 0]
    /\ criticalSectionState = [n \in Node |-> "notInCriticalSection"]
    /\ twoPCState = [n \in Node |-> "initial"]
    /\ acceptedPreCommit = [n \in Node |-> ZeroRequest(n)]
    /\ senderTimes = [n \in Node |-> [m \in Node |-> 0]]
    /\ clock = [n \in Node |-> 0]
    /\ op = [n \in Node |-> "none"]
    /\ step = [n \in Node |-> "ready"]
    /\ local = [n \in Node |-> NoLocal(n)]
    /\ tasks = {}
    /\ calls = {}
    /\ panicked = [n \in Node |-> "no"]

-----------------------------------------------------------------------------
(* Operations called by the archetype (MPCalContext.Run).                  *)

(* The operation returns; its local variables are gone.                    *)
Return(n, outcome) == /\ Goto(n, "none", outcome)
                      /\ local' = [local EXCEPT ![n] = NoLocal(n)]

Enter(n) == SetCS(n, IF criticalSectionState[n] = "notInCriticalSection"
                     THEN "inUninterruptedCriticalSection"
                     ELSE criticalSectionState[n])

(* The archetype may go on with, or start, a critical section.             *)
Working(n) == At(n, "none", "ready") /\ clock[n] < MaxRequests[n]

(* A read or write in a failed critical section returns                    *)
(* ErrCriticalSectionAborted: the archetype then has to Abort.             *)
ReadValue(n) ==
    /\ Working(n) /\ n \in Reads
    /\ IF CriticalSectionPermanentlyFailed(n)
       THEN Return(n, "failed") /\ UNCHANGED criticalSectionState
       ELSE Enter(n) /\ UNCHANGED thread
    /\ UNCHANGED <<value, oldValue, version, twoPCState, acceptedPreCommit,
                   senderTimes, clock, tasks, calls, panicked>>

WriteValue(n, v) ==
    /\ Working(n) /\ v \in Writes[n]
    /\ IF CriticalSectionPermanentlyFailed(n)
       THEN Return(n, "failed") /\ UNCHANGED <<value, criticalSectionState>>
       ELSE /\ Enter(n)
            /\ value' = [value EXCEPT ![n] = v]
            /\ UNCHANGED thread
    /\ UNCHANGED <<oldValue, version, twoPCState, acceptedPreCommit,
                   senderTimes, clock, tasks, calls, panicked>>

(* PreCommit() up to the sleep.  The context calls it only for a resource  *)
(* touched in this critical section.  The back-off decides how long the    *)
(* sleep is, so precommitAttempts is abstracted away.                      *)
PreCommit(n) ==
    /\ Working(n)
    /\ criticalSectionState[n] # "notInCriticalSection"
    /\ Goto(n, "PreCommit", "sleep")
    /\ local' = [local EXCEPT ![n].orig = version[n]]
    /\ UNCHANGED <<replica, senderTimes, clock, tasks, calls, panicked>>

CheckPreCommitInterrupted(n) ==
    /\ At(n, "PreCommit", "sleep")
    /\ IF \/ version[n] # local[n].orig
          \/ twoPCState[n] = "acceptedPreCommit"
       THEN Return(n, "failed")
       ELSE Goto(n, "PreCommit", "check") /\ UNCHANGED local
    /\ UNCHANGED <<replica, senderTimes, clock, tasks, calls, panicked>>

(* broadcast: what the main thread counts.                                 *)
Awaiting(n, req) ==
    [local EXCEPT ![n] = [orig |-> @.orig, req |-> req,
                          required |-> Required(n),
                          remaining |-> Cardinality(Replicas(n))]]

NewCall(req, to, attempt) == [req |-> req, to |-> to, attempt |-> attempt,
                              at |-> "sent", reply |-> Accept]

NewTask(req, to, orig, at) == [req |-> req, to |-> to, orig |-> orig,
                               attempt |-> 1, at |-> at]

DoPreCommit(n) ==
    /\ At(n, "PreCommit", "check")
    /\ IF ShouldAbortPreCommit(n)
       THEN /\ Return(n, "failed")
            /\ UNCHANGED <<criticalSectionState, clock, tasks, calls>>
       ELSE LET req == MakeRequest(n, "PreCommit")
            IN  /\ SetCS(n, "inPreCommit")
                /\ clock' = [clock EXCEPT ![n] = req.time]
                /\ Goto(n, "PreCommit", "awaitVotes")
                /\ local' = Awaiting(n, req)
                /\ tasks' = tasks \cup {NewTask(req, r, version[n], "sending")
                                        : r \in Replicas(n)}
                /\ calls' = calls \cup {NewCall(req, r, 1) : r \in Replicas(n)}
    /\ UNCHANGED <<value, oldValue, version, twoPCState, acceptedPreCommit,
                   senderTimes, panicked>>

(* The loop of broadcast still waits for responses.                        *)
StillWaiting(n) == /\ local[n].required > 0
                   /\ local[n].remaining >= local[n].required

PreCommitComplete(n) ==
    /\ At(n, "PreCommit", "awaitVotes")
    /\ ~StillWaiting(n)
    /\ \/ /\ \/ local[n].required # 0
             \/ criticalSectionState[n] = "acceptedNewValueInCriticalSection"
          /\ Goto(n, "PreCommit", "rollback")
          /\ UNCHANGED <<criticalSectionState, local, panicked>>
       \/ /\ local[n].required = 0
          /\ criticalSectionState[n] = "inPreCommit"
          /\ SetCS(n, "hasPreCommitted")
          /\ Return(n, "succeeded")
          /\ UNCHANGED panicked
       \/ /\ local[n].required = 0
          /\ criticalSectionState[n] \notin
                {"acceptedNewValueInCriticalSection", "inPreCommit"}
          /\ PanicAt(n, "preCommitComplete")
          /\ UNCHANGED <<criticalSectionState, thread>>
    /\ UNCHANGED <<value, oldValue, version, twoPCState, acceptedPreCommit,
                   senderTimes, clock, tasks, calls>>

(* rollback() builds its request under the mutex ...                       *)
Rollback(n) ==
    /\ \E o \in {"PreCommit", "Abort"} : At(n, o, "rollback")
    /\ clock' = [clock EXCEPT ![n] = @ + 1]
    /\ local' = [local EXCEPT ![n].req = MakeRequest(n, "Abort")]
    /\ Goto(n, op[n], "send")
    /\ UNCHANGED <<replica, senderTimes, tasks, calls, panicked>>

(* ... and broadcastAbortOrCommit reads res.version again, unlocked.       *)
BroadcastAbortOrCommit(n) ==
    /\ \E o \in {"PreCommit", "Abort", "Commit"} : At(n, o, "send")
    /\ Goto(n, op[n], "awaitAcks")
    /\ local' = Awaiting(n, local[n].req)
    /\ tasks' = tasks \cup {NewTask(local[n].req, r, version[n], "retry?")
                            : r \in Replicas(n)}
    /\ UNCHANGED <<replica, senderTimes, clock, calls, panicked>>

PreCommitFail(n) ==
    /\ At(n, "PreCommit", "awaitAcks")
    /\ ~StillWaiting(n)
    /\ SetCS(n, "failedPreCommit")
    /\ Return(n, "failed")
    /\ UNCHANGED <<value, oldValue, version, twoPCState, acceptedPreCommit,
                   senderTimes, clock, tasks, calls, panicked>>

Abort(n) ==
    /\ \/ At(n, "none", "ready")
       \/ At(n, "none", "succeeded")
       \/ At(n, "none", "failed")
    /\ criticalSectionState[n] # "notInCriticalSection"
    /\ value' = [value EXCEPT ![n] = oldValue[n]]
    /\ IF criticalSectionState[n] = "hasPreCommitted"
       THEN /\ Goto(n, "Abort", "rollback")
            /\ UNCHANGED <<criticalSectionState, local>>
       ELSE /\ SetCS(n, "notInCriticalSection")
            /\ Return(n, "ready")
    /\ UNCHANGED <<oldValue, version, twoPCState, acceptedPreCommit,
                   senderTimes, clock, tasks, calls, panicked>>

FinishAbort(n) ==
    /\ At(n, "Abort", "awaitAcks")
    /\ ~StillWaiting(n)
    /\ SetCS(n, "notInCriticalSection")
    /\ Return(n, "ready")
    /\ UNCHANGED <<value, oldValue, version, twoPCState, acceptedPreCommit,
                   senderTimes, clock, tasks, calls, panicked>>

(* Commit() holds no mutex before its broadcast: each of its two assertions*)
(* about shared fields is a read of its own, ...                           *)
CommitAssert(n, holds, next) ==
    /\ IF holds THEN Goto(n, "Commit", next) /\ UNCHANGED panicked
                ELSE PanicAt(n, "commit") /\ UNCHANGED <<op, step>>
    /\ UNCHANGED <<replica, senderTimes, clock, local, tasks, calls>>

Commit(n) ==
    /\ At(n, "none", "succeeded")
    /\ CommitAssert(n, criticalSectionState[n] = "hasPreCommitted", "vote")

CommitVote(n) ==
    /\ At(n, "Commit", "vote")
    /\ CommitAssert(n, twoPCState[n] # "acceptedPreCommit", "orig")

(* ... so is originalVersion, ...                                          *)
CommitVersion(n) ==
    /\ At(n, "Commit", "orig")
    /\ local' = [local EXCEPT ![n].orig = version[n]]
    /\ Goto(n, "Commit", "value")
    /\ UNCHANGED <<replica, senderTimes, clock, tasks, calls, panicked>>

(* ... and makeCommit reads the value and then the version.                *)
MakeCommit(n) ==
    /\ At(n, "Commit", "value")
    /\ local' = [local EXCEPT ![n].req = [ZeroRequest(n) EXCEPT !.type = "Commit",
                                                       !.value = value[n]]]
    /\ Goto(n, "Commit", "version")
    /\ UNCHANGED <<replica, senderTimes, clock, tasks, calls, panicked>>

MakeCommitVersion(n) ==
    /\ At(n, "Commit", "version")
    /\ clock' = [clock EXCEPT ![n] = @ + 1]
    /\ local' = [local EXCEPT ![n].req = [@ EXCEPT !.version = version[n] + 1,
                                                 !.time = clock[n] + 1]]
    /\ Goto(n, "Commit", "send")
    /\ UNCHANGED <<replica, senderTimes, tasks, calls, panicked>>

FinishCommit(n) ==
    /\ At(n, "Commit", "awaitAcks")
    /\ ~StillWaiting(n)
    /\ IF version[n] = local[n].orig
       THEN /\ oldValue' = [oldValue EXCEPT ![n] = value[n]]
            /\ version' = [version EXCEPT ![n] = @ + 1]
       ELSE UNCHANGED <<oldValue, version>>
    /\ SetCS(n, "notInCriticalSection")
    /\ Return(n, "ready")
    /\ UNCHANGED <<value, twoPCState, acceptedPreCommit, senderTimes, clock,
                   tasks, calls, panicked>>

(* Close(), called between two operations: when Run ends, also by an error *)
(* of another resource after this one's PreCommit.  It waits until no      *)
(* goroutine of an earlier broadcast is left (numInFlightRequests = 0);    *)
(* the listener keeps running.                                             *)
Close(n) ==
    /\ n \in MayClose
    /\ \E s \in {"ready", "succeeded", "failed"} : At(n, "none", s)
    /\ IF criticalSectionState[n] \in {"inPreCommit", "hasPreCommitted"}
       THEN PanicAt(n, "close") /\ UNCHANGED <<op, step>>
       ELSE Goto(n, "Close", "drain") /\ UNCHANGED panicked
    /\ UNCHANGED <<replica, senderTimes, clock, local, tasks, calls>>

CloseComplete(n) ==
    /\ At(n, "Close", "drain")
    /\ \A t \in tasks : t.req.sender # n
    /\ Goto(n, "closed", "ready")
    /\ UNCHANGED <<replica, senderTimes, clock, local, tasks, calls, panicked>>

-----------------------------------------------------------------------------
(* The goroutines of a broadcast.  t.req.sender is the node they run at.   *)

Alive(n) == panicked[n] = "no"

MayFail(t) == LET link == <<t.req.sender, t.to>>
              IN  link \in Lossy \/ link \notin Up \/ ~Alive(t.to)

CallOf(t, c) == c.req = t.req /\ c.to = t.to /\ c.attempt = t.attempt

(* `responses <- f(...)`: the goroutine ends, and the main thread counts   *)
(* the response if it is still in the loop of that broadcast.              *)
EndTask(t, response) ==
    LET n == t.req.sender
    IN  /\ tasks' = tasks \ {t}
        /\ local' = IF /\ step[n] \in {"awaitVotes", "awaitAcks"}
                       /\ local[n].req = t.req
                       /\ StillWaiting(n)
                    THEN [local EXCEPT ![n] =
                            [orig |-> @.orig, req |-> @.req,
                             required |-> IF response THEN @.required - 1
                                                      ELSE @.required,
                             remaining |-> @.remaining - 1]]
                    ELSE local
        /\ UNCHANGED <<op, step>>

(* shouldRetry and the next Send.                                          *)
SendAbortOrCommit(t) ==
    LET n == t.req.sender
    IN  /\ Alive(n)
        /\ t.at = "retry?"
        /\ IF version[n] = t.orig
           THEN /\ tasks' = (tasks \ {t}) \cup {[t EXCEPT !.at = "sending"]}
                /\ calls' = calls \cup {NewCall(t.req, t.to, t.attempt)}
                /\ UNCHANGED thread
           ELSE EndTask(t, TRUE) /\ UNCHANGED calls
        /\ UNCHANGED <<replica, senderTimes, clock, panicked>>

(* Send returns an error: the RPC timed out or its connection broke.  The  *)
(* request may still reach the replica; its answer is lost.                *)
SendError(t) ==
    /\ Alive(t.req.sender)
    /\ t.at = "sending" /\ MayFail(t)
    /\ calls' = calls \ {c \in calls : CallOf(t, c) /\ c.at = "answered"}
    /\ IF t.req.type = "PreCommit"
       THEN EndTask(t, FALSE)
       ELSE /\ tasks' = (tasks \ {t}) \cup
                 {[t EXCEPT !.at = "retry?",
                            !.attempt = IF @ < MaxAttempts THEN @ + 1 ELSE @]}
            /\ UNCHANGED thread
    /\ UNCHANGED <<replica, senderTimes, clock, panicked>>

HandlePreCommitResponse(t, c) ==
    LET n == t.req.sender
    IN  /\ t.req.type = "PreCommit"
        /\ EndTask(t, c.reply.accept)
        /\ IF c.reply.accept THEN UNCHANGED replica
                             ELSE AdoptNewer(n, c.reply)
        /\ UNCHANGED panicked

HandleAbortOrCommitResponse(t, c) ==
    LET n == t.req.sender
    IN  /\ t.req.type # "PreCommit"
        /\ \/ /\ c.reply.accept
              /\ EndTask(t, TRUE)
              /\ UNCHANGED <<replica, panicked>>
           \/ /\ ~c.reply.accept /\ c.reply.version > t.orig
              /\ EndTask(t, TRUE)
              /\ AdoptNewer(n, c.reply)
              /\ UNCHANGED panicked
           \/ /\ ~c.reply.accept /\ c.reply.version <= t.orig
              /\ PanicAt(n, "rejected")
              /\ UNCHANGED <<replica, thread, tasks>>

SendReturns(t, c) ==
    /\ Alive(t.req.sender)
    /\ t.at = "sending" /\ c.at = "answered" /\ CallOf(t, c)
    /\ calls' = calls \ {c}
    /\ HandlePreCommitResponse(t, c) \/ HandleAbortOrCommitResponse(t, c)
    /\ UNCHANGED <<senderTimes, clock>>

-----------------------------------------------------------------------------
(* TwoPCReceiver.Receive at the node c.to, in two critical sections.       *)

(* The answer travels back; nobody reads it once the Send has failed.      *)
Answer(c, reply) ==
    calls' = (calls \ {c}) \cup
        (IF \E t \in tasks : CallOf(t, c) /\ t.at = "sending"
         THEN {[c EXCEPT !.at = "answered", !.reply = reply]} ELSE {})

Arrives(c) == c.at = "sent" /\ <<c.req.sender, c.to>> \in Up

(* A request older than the last one seen is accepted unprocessed.         *)
Stale(c) == senderTimes[c.to][c.req.sender] > c.req.time

SeeTime(c) ==
    senderTimes' = [senderTimes EXCEPT ![c.to][c.req.sender] = c.req.time]

(* receiveInternal, by request type.                                       *)
ReceivePreCommit(n, req, c) ==
    /\ req.type = "PreCommit"
    /\ IF \/ /\ twoPCState[n] = "acceptedPreCommit"
             /\ acceptedPreCommit[n].version = req.version
             /\ acceptedPreCommit[n].sender = req.sender
             /\ acceptedPreCommit[n].value = req.value
       THEN Answer(c, Accept) /\ UNCHANGED replica
       ELSE IF /\ CanAcceptPreCommit(criticalSectionState[n])
               /\ \/ twoPCState[n] = "initial"
                  \/ acceptedPreCommit[n].version < req.version
                  \/ /\ acceptedPreCommit[n].version = req.version
                     /\ acceptedPreCommit[n].sender = req.sender
       THEN /\ twoPCState' = [twoPCState EXCEPT ![n] = "acceptedPreCommit"]
            /\ acceptedPreCommit' = [acceptedPreCommit EXCEPT ![n] = req]
            /\ Answer(c, Accept)
            /\ UNCHANGED <<value, oldValue, version, criticalSectionState>>
       ELSE Answer(c, MakeReject(n)) /\ UNCHANGED replica

ReceiveCommit(n, req, c) ==
    /\ req.type = "Commit"
    /\ AcceptNewValue(n, req.value, req.version)
    /\ Answer(c, Accept)

ReceiveAbort(n, req, c) ==
    /\ req.type = "Abort"
    /\ twoPCState' = [twoPCState EXCEPT ![n] =
          IF acceptedPreCommit[n].sender = req.sender THEN "initial" ELSE @]
    /\ Answer(c, Accept)
    /\ UNCHANGED <<value, oldValue, version, criticalSectionState,
                   acceptedPreCommit>>

(* A request for a version this replica already has is rejected; one for a *)
(* version too far ahead is processed all the same.                        *)
ReceiveInternal(c) ==
    LET n == c.to
    IN  IF c.req.version < version[n] + 1
        THEN Answer(c, MakeReject(n)) /\ UNCHANGED replica
        ELSE \/ ReceivePreCommit(n, c.req, c)
             \/ ReceiveCommit(n, c.req, c)
             \/ ReceiveAbort(n, c.req, c)

(* Receive: the check of the sender's time is one critical section ...     *)
ReceiveCheck(c) ==
    /\ Alive(c.to) /\ Arrives(c)
    /\ IF Stale(c)
       THEN Answer(c, Accept) /\ UNCHANGED senderTimes
       ELSE /\ calls' = (calls \ {c}) \cup {[c EXCEPT !.at = "checked"]}
            /\ SeeTime(c)
    /\ UNCHANGED <<replica, clock, thread, tasks, panicked>>

(* ... and receiveInternal another.                                        *)
ReceiveChecked(c) ==
    /\ Alive(c.to) /\ c.at = "checked"
    /\ ReceiveInternal(c)
    /\ UNCHANGED <<senderTimes, clock, thread, tasks, panicked>>

-----------------------------------------------------------------------------
ArchetypeStep(n) ==
    \/ ReadValue(n)
    \/ \E v \in Value : WriteValue(n, v)
    \/ PreCommit(n)
    \/ CheckPreCommitInterrupted(n)
    \/ DoPreCommit(n)
    \/ PreCommitComplete(n)
    \/ Rollback(n)
    \/ BroadcastAbortOrCommit(n)
    \/ PreCommitFail(n)
    \/ Abort(n)
    \/ FinishAbort(n)
    \/ Commit(n)
    \/ CommitVote(n)
    \/ CommitVersion(n)
    \/ MakeCommit(n)
    \/ MakeCommitVersion(n)
    \/ FinishCommit(n)
    \/ Close(n)
    \/ CloseComplete(n)

(* Nothing is left to do: every archetype has closed its replica or has    *)
(* used up its bound, and every request has been dealt with.               *)
Terminated ==
    /\ \A n \in Node : \/ ~Alive(n)
                       \/ op[n] = "closed"
                       \/ At(n, "none", "ready") /\ n \notin MayClose
    /\ \A c \in calls : Alive(c.to) => ~Arrives(c) /\ c.at # "checked"
    /\ UNCHANGED vars

Next ==
    \/ \E n \in Node : ArchetypeStep(n)
    \/ \E t \in tasks : SendAbortOrCommit(t) \/ SendError(t)
    \/ \E t \in tasks, c \in calls : SendReturns(t, c)
    \/ \E c \in calls : ReceiveCheck(c) \/ ReceiveChecked(c)
    \/ Terminated

Spec == Init /\ [][Next]_vars

(* Fairness: a running operation, a goroutine that can send or has its     *)
(* answer, and a handler of a request that arrives keep going (the Go      *)
(* scheduler), and MPCalContext.Run follows every PreCommit by a Commit or *)
(* an Abort.  Nothing obliges the archetype to start a critical section.   *)
OperationStep(n) ==
    \/ op[n] = "none" /\ step[n] \in {"succeeded", "failed"}
       /\ (Commit(n) \/ Abort(n))
    \/ CheckPreCommitInterrupted(n) \/ DoPreCommit(n) \/ PreCommitComplete(n)
    \/ Rollback(n) \/ BroadcastAbortOrCommit(n) \/ PreCommitFail(n)
    \/ FinishAbort(n) \/ CommitVote(n) \/ CommitVersion(n) \/ MakeCommit(n)
    \/ MakeCommitVersion(n) \/ FinishCommit(n) \/ CloseComplete(n)

TaskStep(n) == \E t \in tasks : /\ t.req.sender = n
                                /\ \/ SendAbortOrCommit(t)
                                   \/ \E c \in calls : SendReturns(t, c)

HandlerStep(n) == \E c \in calls : /\ c.to = n
                                   /\ ReceiveCheck(c) \/ ReceiveChecked(c)

FairSpec == /\ Spec
            /\ \A n \in Node : /\ WF_vars(OperationStep(n))
                                /\ WF_vars(TaskStep(n))
                                /\ WF_vars(HandlerStep(n))

-----------------------------------------------------------------------------
(* Properties.                                                             *)

(* Every variable has its type; a request in flight was made by its        *)
(* sender before now.                                                      *)
TypeOK ==
    /\ value \in [Node -> Value]
    /\ oldValue \in [Node -> Value]
    /\ version \in [Node -> Nat]
    /\ criticalSectionState \in [Node -> CriticalSectionState]
    /\ twoPCState \in [Node -> {"initial", "acceptedPreCommit"}]
    /\ acceptedPreCommit \in [Node -> Request]
    /\ senderTimes \in [Node -> [Node -> Nat]]
    /\ clock \in [Node -> Nat]
    /\ op \in [Node -> Op]
    /\ step \in [Node -> Step]
    /\ local \in [Node -> Local]
    /\ tasks \subseteq Task
    /\ calls \subseteq Call
    /\ panicked \in [Node -> Panic]

(* While a replica's own PreCommit is outstanding or has succeeded it      *)
(* holds no vote for another proposer: the second assertion of Commit()    *)
(* fails only if a Commit and a PreCommit arrive after the first one held. *)
VoteExcludesProposal ==
    \A n \in Node : criticalSectionState[n] \in {"inPreCommit", "hasPreCommitted"}
                        => twoPCState[n] = "initial"

(* Outside a critical section the replica shows the committed value: no    *)
(* aborted, failed or overtaken write leaks into the next critical         *)
(* section.                                                                *)
NoDirtyValue ==
    \A n \in Node : criticalSectionState[n] = "notInCriticalSection"
                        => value[n] = oldValue[n]

(* Two replicas at the same version hold the same committed value.         *)
Agreement == \A m, n \in Node : version[m] = version[n]
                                    => oldValue[m] = oldValue[n]

(* n has passed PreCommit and goes on to Commit, unless it is rolling back.*)
Entitled(n) == /\ criticalSectionState[n] = "hasPreCommitted"
               /\ op[n] # "Abort"

(* At most one replica is entitled to commit a given version: two proposers*)
(* never both hold a majority's votes for the same next version.           *)
ExclusiveProposal ==
    \A m, n \in Node : Entitled(m) /\ Entitled(n) /\ version[m] = version[n]
                          => m = n

(* r holds n's PreCommit for its next version, or has moved past it.       *)
Holds(r, n) == \/ version[r] > version[n]
               \/ /\ twoPCState[r] = "acceptedPreCommit"
                  /\ \/ acceptedPreCommit[r].version > version[n] + 1
                     \/ /\ acceptedPreCommit[r].version = version[n] + 1
                        /\ acceptedPreCommit[r].sender = n

(* "PreCommit has already succeeded, thus all Replicas have already        *)
(* accepted the PreCommit": as long as n may commit, the replicas it asked *)
(* for their votes - a majority - hold them.                               *)
MajorityHoldsPreCommit ==
    \A n \in Node : Entitled(n) =>
        Cardinality({r \in Replicas(n) : Holds(r, n)}) >= Required(n)

(* The assertion of broadcastAbortOrCommit: a replica that rejects our     *)
(* Abort or Commit has a newer version than we had when we sent it.        *)
RejectionIsNewer == \A n \in Node : panicked[n] # "rejected"

(* A replica's version never goes back, and its committed value changes    *)
(* only together with the version.                                         *)
VersionsGrow ==
    [][\A n \in Node : /\ version'[n] >= version[n]
                       /\ oldValue'[n] # oldValue[n]
                             => version'[n] > version[n]]_vars

(* A new version accepted from elsewhere in the middle of a critical       *)
(* section dooms it: the section never carries on as if uninterrupted, so  *)
(* what it commits was computed from the version it read.                  *)
NoLostUpdate ==
    [][\A n \in Node : version'[n] # version[n] =>
          criticalSectionState'[n] \in {"notInCriticalSection",
                              "acceptedNewValueInCriticalSection"}]_vars

(* A vote is not kept for a proposal that was given up: the voter becomes  *)
(* free again, in whatever order the requests of the proposer arrive,      *)
(* unless somebody has committed a version the voter has not seen.         *)
VotesAreResolved ==
    \A n \in Node : twoPCState[n] = "acceptedPreCommit"
                        ~> \/ twoPCState[n] = "initial"
                           \/ \E m \in Node : version[m] > version[n]

(* A version committed at one replica reaches every replica: the counter   *)
(* of systems/shcounter waits for that at every node.                      *)
CommitReachesAll ==
    \A m, n \in Node : (version[m] = 1) ~> (version[n] >= 1)
=============================================================================
