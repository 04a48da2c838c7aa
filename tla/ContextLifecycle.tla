-------------------------- MODULE ContextLifecycle --------------------------
(***************************************************************************)
(* Starting and stopping MPCalContexts (distsys/mpcalctx.go), also the     *)
(* ones nested in a resource of another (distsys/resources/nestedarch.go). *)
(*                                                                         *)
(* Goroutines call Run and Stop.  Per context they share the fields under  *)
(* runStateLock: exitRequested, the buffered channel requestExit (nil, or  *)
(* a channel of capacity 1) and awaitExit, which is only ever closed.      *)
(* What Run executes between two polls of requestExit, one critical        *)
(* section, is a single step here; CriticalSection opens it up.            *)
(*                                                                         *)
(* A section under the lock is one step, except for the one place where    *)
(* the code blocks while it holds the lock: the send on requestExit.       *)
(***************************************************************************)
EXTENDS Naturals, FiniteSets

CONSTANTS
    Context,     \* the MPCalContexts
    NestedIn,    \* NestedIn[c]: the contexts that a nestedArchetype resource of c owns
    Runner,      \* the goroutines that call Run, once each
    Stopper,     \* the goroutines that call Stop, once each
    Closer,      \* the Stoppers that nestedArchetype.Close starts
    ContextOf,   \* the context that a goroutine runs or stops
    MayFinish    \* the contexts whose archetype may reach Done, or fail, by itself

ASSUME GoroutinesAssumption == Runner \cap Stopper = {} /\ Closer \subseteq Stopper
ASSUME ContextOfAssumption == \A g \in Runner \cup Stopper : ContextOf[g] \in Context
ASSUME NestedInAssumption == NestedIn \in [Context -> SUBSET Context]

VARIABLES
    runPC,          \* where each Run is
    stopPC,         \* where each Stop is
    lockedBy,       \* who holds runStateLock between two steps: no Stop or one
    exitRequested,
    requestExit,    \* "nil", or how full the channel's buffer is
    awaitClosed,    \* awaitExit has been closed
    panicked        \* "no", or the panic that ended the process

context == <<lockedBy, exitRequested, requestExit, awaitClosed>>
vars == <<runPC, stopPC, context, panicked>>

\* "refused": Run returned without having run; "returned": it ran and ended.
RunState == {"idle", "polling", "section", "cleanup", "closing", "notify", "refused", "returned"}
StopState == {"unstarted", "idle", "sending", "awaiting", "returned"}
ExitChannel == {"nil", "empty", "full"}
Panic == {"no", "runTwice", "closedTwice", "nestedStopped"}

RunsOf(c) == {r \in Runner : ContextOf[r] = c}
Ended(r) == runPC[r] \in {"refused", "returned"}

\* A Run is under way from the moment it made requestExit until it closed awaitExit.
Running(r) == runPC[r] \in {"polling", "section", "cleanup", "closing", "notify"}

\* The process is alive and the context's runStateLock can be taken.
Unlocked(c) == panicked = "no" /\ lockedBy[c] = {}

Init ==
    /\ runPC = [r \in Runner |-> "idle"]
    /\ stopPC = [s \in Stopper |-> IF s \in Closer THEN "unstarted" ELSE "idle"]
    /\ lockedBy = [c \in Context |-> {}]
    /\ exitRequested = [c \in Context |-> FALSE]
    /\ requestExit = [c \in Context |-> "nil"]
    /\ awaitClosed = [c \in Context |-> FALSE]
    /\ panicked = "no"

-----------------------------------------------------------------------------
(* Run *)

RunGoes(r, from, to) == runPC[r] = from /\ runPC' = [runPC EXCEPT ![r] = to]

\* Mutant: Run does not look at exitRequested.
RunBeginAnyway(r) ==
    LET c == ContextOf[r] IN
    /\ Unlocked(c)
    /\ requestExit[c] = "nil"
    /\ RunGoes(r, "idle", "polling")
    /\ requestExit' = [requestExit EXCEPT ![c] = "empty"]
    /\ UNCHANGED <<stopPC, lockedBy, exitRequested, awaitClosed, panicked>>

\* hasAlreadyClosed: the locked section at the start of Run.
RunBegin(r) ==
    LET c == ContextOf[r] IN
    /\ Unlocked(c)
    /\ \/ /\ requestExit[c] # "nil"
          /\ runPC[r] = "idle"
          /\ panicked' = "runTwice"
          /\ UNCHANGED <<runPC, requestExit>>
       \/ /\ requestExit[c] = "nil" /\ exitRequested[c]
          /\ RunGoes(r, "idle", "refused")
          /\ UNCHANGED <<requestExit, panicked>>
       \/ /\ requestExit[c] = "nil" /\ ~exitRequested[c]
          /\ RunGoes(r, "idle", "polling")
          /\ requestExit' = [requestExit EXCEPT ![c] = "empty"]
          /\ UNCHANGED panicked
    /\ UNCHANGED <<stopPC, lockedBy, exitRequested, awaitClosed>>

\* The select on requestExit at the top of the loop; it takes no lock.
RunPoll(r) ==
    LET c == ContextOf[r] IN
    /\ panicked = "no"
    /\ \/ /\ requestExit[c] = "full"
          /\ requestExit' = [requestExit EXCEPT ![c] = "empty"]
          /\ RunGoes(r, "polling", "cleanup")
       \/ /\ requestExit[c] # "full"
          /\ RunGoes(r, "polling", "section")
          /\ UNCHANGED requestExit
    /\ UNCHANGED <<stopPC, lockedBy, exitRequested, awaitClosed, panicked>>

\* ctxHasStopped of a nestedArchetype resource of r's context is closed.
NestedStopped(r) == \E c \in NestedIn[ContextOf[r]] : \E n \in RunsOf(c) : Ended(n)

\* One critical section: committed, or aborted and retried, the loop goes on;
\* ErrDone or another error leaves it.  If a nested context has stopped, a
\* read, write or PreCommit of its resource fails with
\* ErrNestedArchetypeStopped, and an Abort or Commit panics.
RunSection(r) ==
    /\ panicked = "no"
    /\ \/ RunGoes(r, "section", "polling") /\ UNCHANGED panicked
       \/ /\ ContextOf[r] \in MayFinish \/ NestedStopped(r)
          /\ RunGoes(r, "section", "cleanup")
          /\ UNCHANGED panicked
       \/ /\ runPC[r] = "section" /\ NestedStopped(r)
          /\ panicked' = "nestedStopped"
          /\ UNCHANGED runPC
    /\ UNCHANGED <<stopPC, context>>

\* The deferred cleanupResources closes every resource; Close of a
\* nestedArchetype starts a goroutine that stops each of its contexts ...
RunCleanup(r) ==
    /\ panicked = "no"
    /\ RunGoes(r, "cleanup", "closing")
    /\ stopPC' = [s \in Stopper |->
           IF s \in Closer /\ ContextOf[s] \in NestedIn[ContextOf[r]] THEN "idle" ELSE stopPC[s]]
    /\ UNCHANGED <<context, panicked>>

\* ... and waits until all their Runs have written to ctxErrCh.
NestedEnded(r) == \A c \in NestedIn[ContextOf[r]] : \A n \in RunsOf(c) : Ended(n)

RunClosed(r) ==
    /\ panicked = "no"
    /\ NestedEnded(r)
    /\ RunGoes(r, "closing", "notify")
    /\ UNCHANGED <<stopPC, context, panicked>>

\* The deferred locked section that reports the exit.
RunNotify(r) ==
    LET c == ContextOf[r] IN
    /\ Unlocked(c)
    /\ \/ /\ awaitClosed[c]
          /\ runPC[r] = "notify"
          /\ panicked' = "closedTwice"
          /\ UNCHANGED <<runPC, requestExit, awaitClosed>>
       \/ /\ ~awaitClosed[c]
          /\ RunGoes(r, "notify", "returned")
          /\ awaitClosed' = [awaitClosed EXCEPT ![c] = TRUE]
          /\ requestExit' = [requestExit EXCEPT ![c] = "nil"]
          /\ UNCHANGED panicked
    /\ UNCHANGED <<stopPC, lockedBy, exitRequested>>

-----------------------------------------------------------------------------
(* Stop *)

StopGoes(s, from, to) == stopPC[s] = from /\ stopPC' = [stopPC EXCEPT ![s] = to]

\* Case 1: the archetype is running; ask it to stop unless that was done.
\* The send blocks, with the lock held, while the buffer is full.
StopRunning(s) ==
    LET c == ContextOf[s] IN
    /\ Unlocked(c)
    /\ \/ /\ requestExit[c] # "nil" /\ exitRequested[c]
          /\ StopGoes(s, "idle", "awaiting")
          /\ UNCHANGED <<requestExit, lockedBy>>
       \/ /\ requestExit[c] = "empty" /\ ~exitRequested[c]
          /\ StopGoes(s, "idle", "awaiting")
          /\ requestExit' = [requestExit EXCEPT ![c] = "full"]
          /\ UNCHANGED lockedBy
       \/ /\ requestExit[c] = "full" /\ ~exitRequested[c]
          /\ StopGoes(s, "idle", "sending")
          /\ lockedBy' = [lockedBy EXCEPT ![c] = {s}]
          /\ UNCHANGED requestExit
    /\ UNCHANGED <<runPC, exitRequested, awaitClosed, panicked>>

\* The blocked send goes through once Run took the earlier token.
StopSend(s) ==
    LET c == ContextOf[s] IN
    /\ panicked = "no"
    /\ requestExit[c] = "empty"
    /\ StopGoes(s, "sending", "awaiting")
    /\ requestExit' = [requestExit EXCEPT ![c] = "full"]
    /\ lockedBy' = [lockedBy EXCEPT ![c] = {}]
    /\ UNCHANGED <<runPC, exitRequested, awaitClosed, panicked>>

\* Mutant: Stop closes awaitExit and forgets to set exitRequested.
StopNotRunningForgetful(s) ==
    LET c == ContextOf[s] IN
    /\ Unlocked(c)
    /\ requestExit[c] = "nil"
    /\ StopGoes(s, "idle", "awaiting")
    /\ awaitClosed' = [awaitClosed EXCEPT ![c] = TRUE]
    /\ UNCHANGED <<runPC, lockedBy, exitRequested, requestExit, panicked>>

\* Case 2: the archetype is not running; make sure that it never does.
StopNotRunning(s) ==
    LET c == ContextOf[s] IN
    /\ Unlocked(c)
    /\ requestExit[c] = "nil"
    /\ StopGoes(s, "idle", "awaiting")
    /\ exitRequested' = [exitRequested EXCEPT ![c] = TRUE]
    /\ awaitClosed' = [awaitClosed EXCEPT ![c] = @ \/ ~exitRequested[c]]
    /\ UNCHANGED <<runPC, lockedBy, requestExit, panicked>>

\* The receive from awaitExit at the end of Stop.
StopReturn(s) ==
    /\ panicked = "no"
    /\ awaitClosed[ContextOf[s]]
    /\ StopGoes(s, "awaiting", "returned")
    /\ UNCHANGED <<runPC, context, panicked>>

-----------------------------------------------------------------------------

Run(r) ==
    \/ RunBegin(r) \/ RunPoll(r) \/ RunSection(r)
    \/ RunCleanup(r) \/ RunClosed(r) \/ RunNotify(r)

Stop(s) == StopRunning(s) \/ StopSend(s) \/ StopNotRunning(s) \/ StopReturn(s)

\* Every call returned, or the process is gone: nothing is left to do.
Terminated ==
    /\ \/ panicked # "no"
       \/ /\ \A r \in Runner : Ended(r)
          /\ \A s \in Stopper : stopPC[s] \in {"unstarted", "returned"}
    /\ UNCHANGED vars

Next ==
    \/ \E r \in Runner : Run(r)
    \/ \E s \in Stopper : Stop(s)
    \/ Terminated

Spec == Init /\ [][Next]_vars

\* Goroutines that started keep running: a Run polls again and again, a Stop
\* that took the lock goes on when its channel operation can, and the
\* goroutines that NewNested and Close start do call Run and Stop.  Whether
\* and when the program calls Run or Stop on a context of its own is open.
Nested(c) == \E p \in Context : c \in NestedIn[p]

FairSpec ==
    /\ Spec
    /\ \A r \in Runner :
        WF_vars(RunPoll(r) \/ RunSection(r) \/ RunCleanup(r) \/ RunClosed(r) \/ RunNotify(r))
    /\ \A r \in Runner : Nested(ContextOf[r]) => WF_vars(RunBegin(r))
    /\ \A s \in Stopper : WF_vars(StopSend(s) \/ StopReturn(s))
    /\ \A s \in Closer : WF_vars(Stop(s))

-----------------------------------------------------------------------------
(* Properties *)

TypeOK ==
    /\ runPC \in [Runner -> RunState]
    /\ stopPC \in [Stopper -> StopState]
    /\ lockedBy \in [Context -> SUBSET Stopper]
    /\ exitRequested \in [Context -> BOOLEAN]
    /\ requestExit \in [Context -> ExitChannel]
    /\ awaitClosed \in [Context -> BOOLEAN]
    /\ panicked \in Panic

\* The assertion in Run, "this context has already been run; you cannot run a
\* context twice", and the comment on awaitExit ("when we terminate (or
\* preempt running at all), we close it"): once a context has terminated, no
\* Run executes its archetype, now or later.
ExitIsFinal == \A r \in Runner : awaitClosed[ContextOf[r]] => ~Running(r)

\* A Stop that returned leaves an archetype that is not running and whose
\* resources are closed, even if Run is called only afterwards: "if the
\* archetype has not started, this function will ensure that it does not".
StopIsFinal ==
    \A s \in Stopper, r \in Runner :
        stopPC[s] = "returned" /\ ContextOf[s] = ContextOf[r] => ~Running(r)

\* Neither the check in Run nor the second close of a channel ends the process.
NoPanic == panicked # "runTwice" /\ panicked # "closedTwice"

\* Whoever waits in Stop is released: "this function will block until the exit
\* is complete, and all resources have been cleaned up".
StopReturns == \A s \in Stopper : stopPC[s] \in {"sending", "awaiting"} ~> stopPC[s] = "returned"

\* NewNested: "this resource will then take over those contexts' lifecycles,
\* [...] ensuring that all nested resources are cleaned up and/or stopped on
\* exit".  Once Stop returned, the nested contexts end.
StopEndsNested ==
    \A s \in Stopper, r \in Runner :
        stopPC[s] = "returned" /\ ContextOf[r] \in NestedIn[ContextOf[s]] ~> Ended(r)
=============================================================================
