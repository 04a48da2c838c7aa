-------------------------- MODULE CriticalSection ---------------------------
(***************************************************************************)
(* How an MPCalContext executes one critical section after the other       *)
(* (distsys/mpcalctx.go, archetypeinterface.go) on its resources           *)
(* (archetyperesource.go, resources/incmap.go, resources/hashmap.go), and  *)
(* what it tells the trace recorder (trace/state.go).                      *)
(*                                                                         *)
(* A leaf holds a value the way LocalArchetypeResource does.  It is bound  *)
(* to a handle of its own, or it is an element of a handle that is a map   *)
(* (IncMap or HashMap).  Other kinds of resources may refuse an operation  *)
(* or a PreCommit: the leaves in Fallible do so whenever they like, the    *)
(* leaves in Failing also fail for good.                                   *)
(***************************************************************************)
EXTENDS Naturals, Sequences, SequencesExt

CONSTANTS
    Leaf, Value, InitValue,
    NoValue,     \* the zero tla.Value{}
    Handle,      \* the resource handles of the context
    HandleOf,    \* HandleOf[l]: the handle that reaches leaf l
    MapHandle,   \* the handles bound to an IncMap or a HashMap
    Fallible,    \* leaves whose operations may return ErrCriticalSectionAborted
    Failing,     \* leaves whose PreCommit may return another error
    MaxElements  \* bound: recorded operations of one section

ASSUME ValueAssumption == InitValue \in Value /\ NoValue \notin Value
ASSUME HandleOfAssumption == \A l \in Leaf : HandleOf[l] \in Handle
ASSUME MapHandleAssumption == MapHandle \subseteq Handle
ASSUME PlainHandleAssumption ==
    \A l, k \in Leaf : HandleOf[l] = HandleOf[k] /\ HandleOf[l] \notin MapHandle => l = k

VARIABLES
    phase,         \* what Run is doing
    value, oldValue, hasOldValue,   \* LocalArchetypeResource, per leaf
    dirtyResourceHandles,
    dirtyElems,    \* per handle of a map: the elements touched, dirtyElems.Keys()
    answer,        \* per leaf: PreCommit's channel ("none": not called)
    todo,          \* handles still to be committed or aborted
    elements,      \* what the trace recorder knows of the section in progress
    replay         \* the values that the events recorded so far add up to

leaves == <<value, oldValue, hasOldValue>>
trace == <<elements, replay>>
vars == <<phase, leaves, dirtyResourceHandles, dirtyElems, answer, todo, trace>>

Phase == {"idle", "body", "preCommit", "committing", "aborting", "crashed", "returned"}
Answer == {"none", "pending", "nil", "aborted", "failed"}
Element == [op : {"read", "write"}, leaf : Leaf, value : Value]

-----------------------------------------------------------------------------
(* LocalArchetypeResource *)

\* Mutant: every write saves the value before it, not only the first.
LocalWriteSavesAlways(l, v) ==
    /\ value' = [value EXCEPT ![l] = v]
    /\ oldValue' = [oldValue EXCEPT ![l] = value[l]]
    /\ hasOldValue' = [hasOldValue EXCEPT ![l] = TRUE]

LocalWrite(l, v) ==
    /\ value' = [value EXCEPT ![l] = v]
    /\ oldValue' = IF hasOldValue[l] THEN oldValue ELSE [oldValue EXCEPT ![l] = value[l]]
    /\ hasOldValue' = [hasOldValue EXCEPT ![l] = TRUE]

\* Commit of the leaves in S.
LocalCommit(S) ==
    /\ hasOldValue' = [l \in Leaf |-> l \notin S /\ hasOldValue[l]]
    /\ oldValue' = [l \in Leaf |-> IF l \in S THEN NoValue ELSE oldValue[l]]
    /\ UNCHANGED value

\* Abort of the leaves in S.
LocalAbort(S) ==
    LET undone == {l \in S : hasOldValue[l]} IN
    /\ value' = [l \in Leaf |-> IF l \in undone THEN oldValue[l] ELSE value[l]]
    /\ hasOldValue' = [l \in Leaf |-> l \notin S /\ hasOldValue[l]]
    /\ oldValue' = [l \in Leaf |-> IF l \in undone THEN NoValue ELSE oldValue[l]]

-----------------------------------------------------------------------------
(* The elements that an operation on a handle is passed on to *)

LeavesOf(h) ==
    IF h \in MapHandle THEN ToSet(dirtyElems[h]) ELSE {l \in Leaf : HandleOf[l] = h}

\* ensureCriticalSectionWith and, for a map, Index.
Touch(l) ==
    /\ dirtyResourceHandles' = dirtyResourceHandles \cup {HandleOf[l]}
    /\ dirtyElems' =
         IF HandleOf[l] \in MapHandle /\ l \notin ToSet(dirtyElems[HandleOf[l]])
         THEN [dirtyElems EXCEPT ![HandleOf[l]] = Append(@, l)] ELSE dirtyElems

\* The PreCommit goroutine of a map reads the channels of its elements in
\* order and stops at the first error.  What a handle's own channel yields:
\* "pending" until it is there.
PreCommitResult(h) ==
    IF h \in MapHandle
    THEN LET bad == SelectInSeq(dirtyElems[h], LAMBDA l : answer[l] # "nil")
         IN  IF bad = 0 THEN "nil" ELSE answer[dirtyElems[h][bad]]
    ELSE answer[CHOOSE l \in Leaf : HandleOf[l] = h]

-----------------------------------------------------------------------------

Init ==
    /\ phase = "idle"
    /\ value = [l \in Leaf |-> InitValue]
    /\ oldValue = [l \in Leaf |-> NoValue]
    /\ hasOldValue = [l \in Leaf |-> FALSE]
    /\ dirtyResourceHandles = {}
    /\ dirtyElems = [h \in Handle |-> <<>>]
    /\ answer = [l \in Leaf |-> "none"]
    /\ todo = {}
    /\ elements = <<>>
    /\ replay = [l \in Leaf |-> InitValue]

\* The top of the loop in Run, with BeginEvent.
Begin ==
    /\ phase = "idle"
    /\ phase' = "body"
    /\ UNCHANGED <<leaves, dirtyResourceHandles, dirtyElems, answer, todo, trace>>

\* A Stop is seen at the top of the loop.
StopSeen ==
    /\ phase = "idle"
    /\ phase' = "returned"
    /\ UNCHANGED <<leaves, dirtyResourceHandles, dirtyElems, answer, todo, trace>>

Record(op, l, v) == elements' = Append(elements, [op |-> op, leaf |-> l, value |-> v])

\* ArchetypeInterface.Read
Read(l) ==
    /\ phase = "body"
    /\ Len(elements) < MaxElements
    /\ Touch(l)
    /\ Record("read", l, value[l])
    /\ UNCHANGED <<phase, leaves, answer, todo, replay>>

\* ArchetypeInterface.Write
Write(l, v) ==
    /\ phase = "body"
    /\ Len(elements) < MaxElements
    /\ Touch(l)
    /\ LocalWrite(l, v)
    /\ Record("write", l, v)
    /\ UNCHANGED <<phase, answer, todo, replay>>

\* Read or Write returns ErrCriticalSectionAborted; the body returns it to Run,
\* which calls abort: the Aborts of all dirty handles are to be done.
OperationAborts(l) ==
    /\ phase = "body"
    /\ l \in Fallible
    /\ Touch(l)
    /\ phase' = "aborting"
    /\ todo' = dirtyResourceHandles'
    /\ UNCHANGED <<leaves, answer, trace>>

\* The body itself gives up (an await that does not hold).
BodyAborts ==
    /\ phase = "body"
    /\ phase' = "aborting"
    /\ todo' = dirtyResourceHandles
    /\ UNCHANGED <<leaves, dirtyResourceHandles, dirtyElems, answer, trace>>

\* The body of Done, which has no statements, returns ErrDone; so does Run.
BodyDone ==
    /\ phase = "body"
    /\ dirtyResourceHandles = {}
    /\ phase' = "returned"
    /\ UNCHANGED <<leaves, dirtyResourceHandles, dirtyElems, answer, todo, trace>>

\* Mutant: of several writes to a leaf, the event keeps the first.
FirstReplayed ==
    [l \in Leaf |->
        LET i == SelectInSeq(elements, LAMBDA e : e.op = "write" /\ e.leaf = l)
        IN  IF i = 0 THEN replay[l] ELSE elements[i].value]

\* The event that CommitEvent hands to the recorder.
Replayed ==
    [l \in Leaf |->
        LET i == SelectLastInSeq(elements, LAMBDA e : e.op = "write" /\ e.leaf = l)
        IN  IF i = 0 THEN replay[l] ELSE elements[i].value]

CommitEvent == replay' = Replayed /\ elements' = <<>>

\* Another error ends Run: the deferred function closes the resources as they
\* are and reports the error with CrashEvent.
Crash ==
    /\ phase' = "crashed"
    /\ CommitEvent
    /\ UNCHANGED <<leaves, dirtyResourceHandles, dirtyElems, todo>>

\* An assertion fails, or an operation returns another error.
BodyFails ==
    /\ phase = "body"
    /\ Crash
    /\ UNCHANGED answer

\* commit: PreCommit is called on all dirty handles before any answer is
\* waited for.  Leaves that never refuse return a nil channel.
DirtyLeaves == UNION {LeavesOf(h) : h \in dirtyResourceHandles}

PreCommit ==
    /\ phase = "body"
    /\ phase' = "preCommit"
    /\ answer' = [l \in Leaf |->
         IF l \notin DirtyLeaves THEN answer[l]
         ELSE IF l \in Fallible \cup Failing THEN "pending" ELSE "nil"]
    /\ UNCHANGED <<leaves, dirtyResourceHandles, dirtyElems, todo, trace>>

\* A resource answers its PreCommit.
PreCommitAnswers(l) ==
    /\ answer[l] = "pending"
    /\ \E a \in {"nil"} \cup (IF l \in Fallible THEN {"aborted"} ELSE {})
                        \cup (IF l \in Failing THEN {"failed"} ELSE {}) :
         answer' = [answer EXCEPT ![l] = a]
    /\ UNCHANGED <<phase, leaves, dirtyResourceHandles, dirtyElems, todo, trace>>

Results == {PreCommitResult(h) : h \in dirtyResourceHandles}

\* What has not answered yet still may, after the section is over.
Unanswered == answer' = [l \in Leaf |-> IF answer[l] = "pending" THEN "pending" ELSE "none"]

\* All channels have yielded nil: the event is recorded and the section takes effect.
PreCommitSucceeds ==
    /\ phase = "preCommit"
    /\ Results \subseteq {"nil"}
    /\ phase' = "committing"
    /\ todo' = dirtyResourceHandles
    /\ Unanswered
    /\ CommitEvent
    /\ UNCHANGED <<leaves, dirtyResourceHandles, dirtyElems>>

\* Mutant: commit returns at the first error it reads.
PreCommitFailsEarly ==
    /\ phase = "preCommit"
    /\ \/ /\ "aborted" \in Results
          /\ phase' = "aborting"
          /\ todo' = dirtyResourceHandles
          /\ UNCHANGED <<leaves, dirtyResourceHandles, dirtyElems, trace>>
       \/ /\ "failed" \in Results
          /\ Crash
    /\ Unanswered

\* Some have yielded an error; the last one read, in the random order of a Go
\* map, is the one that counts.
PreCommitFails ==
    /\ phase = "preCommit"
    /\ "pending" \notin Results
    /\ \/ /\ "aborted" \in Results
          /\ phase' = "aborting"
          /\ todo' = dirtyResourceHandles
          /\ UNCHANGED <<leaves, dirtyResourceHandles, dirtyElems, trace>>
       \/ /\ "failed" \in Results
          /\ Crash
    /\ Unanswered

\* Commit and Abort of the dirty handles, in the random order of a Go map.
CommitHandle(h) ==
    /\ phase = "committing"
    /\ h \in todo
    /\ LocalCommit(LeavesOf(h))
    /\ dirtyElems' = [dirtyElems EXCEPT ![h] = <<>>]
    /\ todo' = todo \ {h}
    /\ UNCHANGED <<phase, dirtyResourceHandles, answer, trace>>

\* Mutant: an Abort whose channel is never notified.
AbortHandleSilently(h) ==
    /\ phase = "aborting"
    /\ h \in todo
    /\ LocalAbort(LeavesOf(h))
    /\ UNCHANGED <<phase, dirtyElems, dirtyResourceHandles, answer, todo, trace>>

AbortHandle(h) ==
    /\ phase = "aborting"
    /\ h \in todo
    /\ LocalAbort(LeavesOf(h))
    /\ dirtyElems' = [dirtyElems EXCEPT ![h] = <<>>]
    /\ todo' = todo \ {h}
    /\ UNCHANGED <<phase, dirtyResourceHandles, answer, trace>>

\* All done: the dirty handles are forgotten, and DropEvent after an abort.
CommitEnds ==
    /\ phase = "committing"
    /\ todo = {}
    /\ phase' = "idle"
    /\ dirtyResourceHandles' = {}
    /\ UNCHANGED <<leaves, dirtyElems, answer, todo, trace>>

AbortEnds ==
    /\ phase = "aborting"
    /\ todo = {}
    /\ phase' = "idle"
    /\ dirtyResourceHandles' = {}
    /\ elements' = <<>>
    /\ UNCHANGED <<leaves, dirtyElems, answer, todo, replay>>

\* Run has returned.
Terminated == phase \in {"crashed", "returned"} /\ UNCHANGED vars

Next ==
    \/ Begin \/ StopSeen
    \/ \E l \in Leaf : Read(l) \/ OperationAborts(l)
    \/ \E l \in Leaf, v \in Value : Write(l, v)
    \/ BodyAborts \/ BodyDone \/ BodyFails
    \/ PreCommit \/ PreCommitSucceeds \/ PreCommitFails
    \/ \E l \in Leaf : PreCommitAnswers(l)
    \/ \E h \in Handle : CommitHandle(h) \/ AbortHandle(h)
    \/ CommitEnds \/ AbortEnds
    \/ Terminated

Spec == Init /\ [][Next]_vars

\* Run keeps executing statements ("straight-line code that runs in a bounded
\* amount of time") and commits or aborts after them, and every PreCommit
\* channel "should yield one error value", as ArchetypeResource demands.
RunStep ==
    \/ Begin \/ StopSeen
    \/ \E l \in Leaf : Read(l) \/ OperationAborts(l)
    \/ \E l \in Leaf, v \in Value : Write(l, v)
    \/ BodyAborts \/ BodyDone \/ BodyFails
    \/ PreCommit \/ PreCommitSucceeds \/ PreCommitFails
    \/ \E h \in Handle : CommitHandle(h) \/ AbortHandle(h)
    \/ CommitEnds \/ AbortEnds

FairSpec == Spec /\ WF_vars(RunStep) /\ \A l \in Leaf : WF_vars(PreCommitAnswers(l))

-----------------------------------------------------------------------------
(* Properties *)

TypeOK ==
    /\ phase \in Phase
    /\ value \in [Leaf -> Value]
    /\ oldValue \in [Leaf -> Value \cup {NoValue}]
    /\ hasOldValue \in [Leaf -> BOOLEAN]
    /\ dirtyResourceHandles \subseteq Handle
    /\ dirtyElems \in [Handle -> Seq(Leaf)]
    /\ answer \in [Leaf -> Answer]
    /\ todo \subseteq Handle
    /\ elements \in Seq(Element)
    /\ replay \in [Leaf -> Value]

\* The section takes effect when the last PreCommit succeeded; until then, and
\* for ever if it fails, the old values are the ones that count.
storeBar == [l \in Leaf |->
    IF phase # "committing" /\ hasOldValue[l] THEN oldValue[l] ELSE value[l]]

viewBar == IF phase \in {"aborting", "crashed"} THEN storeBar ELSE value

Atomic == INSTANCE AtomicSections WITH store <- storeBar, view <- viewBar

\* A critical section is atomic, over all its resources and over retries: the
\* writes of one that aborts leave no trace in any resource, be it bound to a
\* handle or an element of a map, and those of one that commits are all there.
SectionsAreAtomic == Atomic!Spec

\* The recorded trace explains the execution: between two sections its events
\* add up to the values of the resources, and every recorded read returned what
\* the writes recorded before it left there.
TraceExplains ==
    /\ phase = "idle" => replay = value
    /\ phase = "body" =>
         \A i \in 1..Len(elements) :
            LET e == elements[i]
                w == SelectLastInSeq(SubSeq(elements, 1, i - 1),
                                     LAMBDA d : d.op = "write" /\ d.leaf = e.leaf)
            IN  e.op = "read" => e.value = (IF w = 0 THEN replay[e.leaf] ELSE elements[w].value)

\* What a resource may rely on (nestedArchetype.assertSanity: "this assumption
\* should be valid at the start of any resource API call, because every exchange
\* should have leave channels drained"): nothing but PreCommit itself is under
\* way while a PreCommit has not answered.
AnswersAreDrained == phase # "preCommit" => \A l \in Leaf : answer[l] # "pending"

\* commit waits for the PreCommits it called: a section takes effect when every
\* leaf has agreed, and the only answers that may come after it was given up
\* are of elements of a map another element of which has refused.
CommitWaits ==
    [][phase = "preCommit" /\ phase' # "preCommit" =>
         \A l \in DirtyLeaves :
            /\ phase' = "committing" => answer[l] = "nil"
            /\ answer[l] = "pending" =>
                 \E k \in LeavesOf(HandleOf[l]) : answer[k] \in {"aborted", "failed"}]_vars

\* ArchetypeResource.Close "will be called when the archetype stops running (as a
\* result, it's not in the middle of a critical section)".
ClosedOutsideSections == phase \in {"crashed", "returned"} => dirtyResourceHandles = {}

\* A section that began is committed or aborted, or ends the archetype.
SectionsEnd == phase = "body" ~> phase \in {"idle", "crashed", "returned"}
=============================================================================
