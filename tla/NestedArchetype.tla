-------------------------- MODULE NestedArchetype ---------------------------
(***************************************************************************)
(* A resource implemented by nested archetypes (nestedarch.go).  Every     *)
(* operation of the resource is a request on sendCh, a channel without a   *)
(* buffer, that the nested system takes when it is free, and one response  *)
(* on receiveCh, a channel that buffers one.  Requests of a section time   *)
(* out; Abort and Commit wait for as long as it takes.                     *)
(*                                                                         *)
(* The nested system is the archetype ACRDTResource of the system          *)
(* nestedcrdtimpl, with the grow-only counter of its tests and one peer.   *)
(* It answers each request once, with the acknowledgement of that request  *)
(* or, as the protocol allows a nested system to do (MayRefuse), with      *)
(* "aborted".  In between it exchanges states with its peer.               *)
(*                                                                         *)
(* The calls come in the order an MPCalContext makes them (see             *)
(* CriticalSection), which waits for each answer on apiErrCh and           *)
(* apiStructCh, so that these are always drained.                          *)
(***************************************************************************)
EXTENDS Naturals, Sequences

CONSTANTS
    Value,        \* what a write may add to the counter
    MaxCount,     \* bound: the count of the outer archetype
    MaxPeer,      \* bound: the count of the peer
    MayTimeOut,   \* whether a request may wait longer than nestedArchetypeTimeout
    MayRefuse,    \* whether the nested system may answer "aborted"
    MayStop       \* whether a nested context may stop

ASSUME ValueAssumption == Value \subseteq Nat \ {0} /\ {MaxCount, MaxPeer} \subseteq Nat
ASSUME SwitchAssumption == {MayTimeOut, MayRefuse, MayStop} \subseteq BOOLEAN

VARIABLES
    section,     \* the outer critical section, as far as it concerns this resource
    op, arg,     \* the call in progress and, of a write, its value
    stage,       \* how far the call is
    nested,      \* the request that the nested system is working on
    receiveCh,
    staleAcksReceived,
    ctxHasStopped,
    panic,       \* why the program panicked
    state, readState,   \* of the nested system: committed, and in the section
    criticalSectionInProgress,
    remainingPeersToUpdate,   \* whether the peer is one of them
    spread,             \* history: the count that the peer was told last
    store, view,        \* history: what the outer sections counted, and this one
    seen, seeing        \* history: the last result read by the outer sections, and by this one

call == <<section, op, stage, panic>>
inner == <<state, readState, criticalSectionInProgress, remainingPeersToUpdate, spread>>
outer == <<store, view, seen, seeing>>
vars == <<call, arg, nested, receiveCh, staleAcksReceived, ctxHasStopped, inner, outer>>

Timed == {"read", "write", "preCommit"}     \* performRequestOrAbort
Op == Timed \union {"commit", "abort"}
Section == {"clean", "open", "preCommitted", "mustAbort"}
Stage == {"idle", "send", "wait", "abortSend", "abortWait", "failed"}
Panic == {"none", "staleValue", "badCommitAck", "badStaleAck", "secondStaleAck",
          "badAbortAck", "stopped"}

\* A request that the nested system works on and its response; stale: the call that
\* made the request has timed out.
Request == [op : Op, value : Nat, stale : BOOLEAN]
Response == [tpe : Op \union {"aborted"}, value : Nat, stale : BOOLEAN]
Free == [op |-> "none", value |-> 0, stale |-> FALSE]

\* The state of a grow-only counter of two nodes, and the operators on it that
\* ACRDTResource is given.
Counts == [self : Nat, peer : Nat]
ZERO_VALUE == [self |-> 0, peer |-> 0]
Larger(m, n) == IF m < n THEN n ELSE m
COMBINE_FN(a, b) == [self |-> Larger(a.self, b.self), peer |-> Larger(a.peer, b.peer)]
UPDATE_FN(a, v) == [a EXCEPT !.self = @ + v]
VIEW_FN(a) == a.self + a.peer

Init ==
    /\ section = "clean"
    /\ op = "none"
    /\ stage = "idle"
    /\ nested = Free
    /\ receiveCh = <<>>
    /\ staleAcksReceived = 0
    /\ ctxHasStopped = FALSE
    /\ panic = "none"
    /\ arg = 0
    /\ state = ZERO_VALUE /\ readState = ZERO_VALUE
    /\ criticalSectionInProgress = FALSE /\ remainingPeersToUpdate = FALSE
    /\ spread = 0
    /\ store = 0 /\ view = 0
    /\ seen = 0 /\ seeing = 0

Running == panic = "none" /\ stage # "failed"

\* The call ends, and the section goes on as s.
Ends(s) ==
    /\ stage' = "idle"
    /\ op' = "none"
    /\ section' = s
    /\ UNCHANGED panic

\* The call returns an error that ends the archetype.
Fails ==
    /\ stage' = "failed"
    /\ UNCHANGED <<op, section, panic>>

Panics(why) ==
    /\ panic' = why
    /\ UNCHANGED <<op, section, stage>>

-----------------------------------------------------------------------------
(* ReadValue, WriteValue, PreCommit, Commit *)

\* The calls the context may make now.
Callable(o) ==
    \/ o \in {"read", "write"} /\ section \in {"clean", "open"}
    \/ o = "preCommit" /\ section = "open"
    \/ o = "commit" /\ section = "preCommitted"

\* assertSanity(true), and the request is made.
Call(o, v) ==
    /\ Running
    /\ stage = "idle"
    /\ Callable(o)
    /\ IF o = "write" THEN v \in Value /\ view + v <= MaxCount ELSE v = 0
    /\ IF receiveCh # <<>>
       THEN Panics("staleValue")
       ELSE /\ stage' = "send"
            /\ op' = o
            /\ UNCHANGED <<section, panic>>
    /\ arg' = v
    /\ UNCHANGED <<nested, receiveCh, staleAcksReceived, ctxHasStopped, inner, outer>>

\* The request reaches the nested system, if this is free.
Send ==
    /\ Running
    /\ stage = "send"
    /\ nested = Free
    /\ nested' = [op |-> op, value |-> arg, stale |-> FALSE]
    /\ stage' = "wait"
    /\ UNCHANGED <<section, op, arg, receiveCh, staleAcksReceived, ctxHasStopped, panic, inner, outer>>

\* Mutant: after a timeout the section goes on as if it had not made the request.
TimeoutGoesOn ==
    /\ Running
    /\ MayTimeOut
    /\ stage \in {"send", "wait"}
    /\ op \in Timed
    /\ Ends(section)
    /\ nested' = IF nested = Free THEN Free ELSE [nested EXCEPT !.stale = TRUE]
    /\ receiveCh' = IF receiveCh = <<>> THEN <<>> ELSE <<[Head(receiveCh) EXCEPT !.stale = TRUE]>>
    /\ UNCHANGED <<arg, staleAcksReceived, ctxHasStopped, inner, outer>>

\* ErrCriticalSectionAborted, before the request is sent or after.
Timeout ==
    /\ Running
    /\ MayTimeOut
    /\ stage \in {"send", "wait"}
    /\ op \in Timed
    /\ Ends("mustAbort")
    /\ nested' = IF nested = Free THEN Free ELSE [nested EXCEPT !.stale = TRUE]
    /\ receiveCh' = IF receiveCh = <<>> THEN <<>> ELSE <<[Head(receiveCh) EXCEPT !.stale = TRUE]>>
    /\ UNCHANGED <<arg, staleAcksReceived, ctxHasStopped, inner, outer>>

\* handleResponseValue: the section after the response tpe to o.
After(o) == CASE o \in {"read", "write"} -> "open"
              [] o = "preCommit" -> "preCommitted"
              [] OTHER -> "clean"

Receive ==
    /\ Running
    /\ stage = "wait"
    /\ receiveCh # <<>>
    /\ LET tpe == Head(receiveCh).tpe IN
        \/ /\ tpe = op
           /\ Ends(After(op))
           /\ view' = IF op = "write" THEN view + arg ELSE view
           /\ seeing' = IF op = "read" THEN Head(receiveCh).value ELSE seeing
           /\ store' = IF op = "commit" THEN view ELSE store
           /\ seen' = IF op = "commit" THEN seeing ELSE seen
        \/ tpe = "aborted" /\ op \in Timed /\ Ends("mustAbort") /\ UNCHANGED outer
        \/ tpe # op /\ tpe # "aborted" /\ op \in Timed /\ Fails /\ UNCHANGED outer
        \/ tpe # op /\ op = "commit" /\ Panics("badCommitAck") /\ UNCHANGED outer
    /\ receiveCh' = Tail(receiveCh)
    /\ UNCHANGED <<arg, nested, staleAcksReceived, ctxHasStopped, inner>>

\* The call sees that a nested context has stopped.
SeeStopped ==
    /\ Running
    /\ ctxHasStopped
    /\ \/ stage \in {"send", "wait"} /\ op \in Timed /\ Fails
       \/ stage \in {"send", "wait"} /\ op = "commit" /\ Panics("stopped")
       \/ stage \in {"abortSend", "abortWait"} /\ Panics("stopped")
    /\ UNCHANGED <<arg, nested, receiveCh, staleAcksReceived, ctxHasStopped, inner, outer>>

-----------------------------------------------------------------------------
(* Abort *)

\* assertSanity(false) has nothing to say here.
Abort ==
    /\ Running
    /\ stage = "idle"
    /\ section # "clean"
    /\ op' = "abort"
    /\ stage' = "abortSend"
    /\ staleAcksReceived' = 0
    /\ UNCHANGED <<section, arg, nested, receiveCh, ctxHasStopped, panic, inner, outer>>

\* Mutant: the abort request waits for a stale acknowledgement.
AbortSendsAfterAck ==
    /\ Running
    /\ stage = "abortSend"
    /\ staleAcksReceived # 0
    /\ nested = Free
    /\ nested' = [op |-> "abort", value |-> 0, stale |-> FALSE]
    /\ stage' = "abortWait"
    /\ UNCHANGED <<section, op, arg, receiveCh, staleAcksReceived, ctxHasStopped, panic, inner, outer>>

AbortSends ==
    /\ Running
    /\ stage = "abortSend"
    /\ nested = Free
    /\ nested' = [op |-> "abort", value |-> 0, stale |-> FALSE]
    /\ stage' = "abortWait"
    /\ UNCHANGED <<section, op, arg, receiveCh, staleAcksReceived, ctxHasStopped, panic, inner, outer>>

\* A response to a request that timed out.
AbortDiscards ==
    /\ Running
    /\ stage = "abortSend"
    /\ receiveCh # <<>>
    /\ receiveCh' = Tail(receiveCh)
    /\ CASE Head(receiveCh).tpe \notin Timed ->
              Panics("badStaleAck") /\ UNCHANGED staleAcksReceived
         [] Head(receiveCh).tpe \in Timed /\ staleAcksReceived # 0 ->
              Panics("secondStaleAck") /\ UNCHANGED staleAcksReceived
         [] OTHER ->
              /\ staleAcksReceived' = staleAcksReceived + 1
              /\ UNCHANGED <<section, op, stage, panic>>
    /\ UNCHANGED <<arg, nested, ctxHasStopped, inner, outer>>

\* Mutant: Abort does not wait for its acknowledgement.
AbortForgets ==
    /\ Running
    /\ stage = "abortWait"
    /\ Ends("clean")
    /\ view' = store
    /\ seeing' = seen
    /\ UNCHANGED <<arg, nested, receiveCh, staleAcksReceived, ctxHasStopped, inner, store, seen>>

AbortReceives ==
    /\ Running
    /\ stage = "abortWait"
    /\ receiveCh # <<>>
    /\ receiveCh' = Tail(receiveCh)
    /\ IF Head(receiveCh).tpe = "abort"
       THEN Ends("clean") /\ view' = store /\ seeing' = seen
       ELSE Panics("badAbortAck") /\ UNCHANGED <<view, seeing>>
    /\ UNCHANGED <<arg, nested, staleAcksReceived, ctxHasStopped, inner, store, seen>>

-----------------------------------------------------------------------------
(* The nested system: each step is one critical section of ACRDTResource *)

\* What an operation of the section starts from: the first one loads the state.
Loaded == IF criticalSectionInProgress THEN readState ELSE state

\* Mutant: a write is seen by the peers before the section commits.
HandleWriteThrough ==
    /\ nested.op = "write"
    /\ readState' = UPDATE_FN(Loaded, nested.value)
    /\ state' = UPDATE_FN(Loaded, nested.value)
    /\ criticalSectionInProgress' = TRUE
    /\ UNCHANGED <<remainingPeersToUpdate, spread>>

\* Mutant: an abort does not end the section of the nested system.
HandleAbortOnly ==
    /\ nested.op = "abort"
    /\ readState' = ZERO_VALUE
    /\ UNCHANGED <<state, criticalSectionInProgress, remainingPeersToUpdate, spread>>

HandleRead ==
    /\ nested.op = "read"
    /\ readState' = Loaded
    /\ criticalSectionInProgress' = TRUE
    /\ UNCHANGED <<state, remainingPeersToUpdate, spread>>

HandleWrite ==
    /\ nested.op = "write"
    /\ readState' = UPDATE_FN(Loaded, nested.value)
    /\ criticalSectionInProgress' = TRUE
    /\ UNCHANGED <<state, remainingPeersToUpdate, spread>>

HandleAbort ==
    /\ nested.op = "abort"
    /\ readState' = ZERO_VALUE
    /\ criticalSectionInProgress' = FALSE
    /\ UNCHANGED <<state, remainingPeersToUpdate, spread>>

HandlePreCommit == nested.op = "preCommit" /\ UNCHANGED inner

\* Mutant: the peer is owed the state only if it was owed nothing before.
HandleCommitToggles ==
    /\ nested.op = "commit"
    /\ remainingPeersToUpdate' = (~remainingPeersToUpdate /\ state # readState)
    /\ state' = COMBINE_FN(state, readState)
    /\ readState' = ZERO_VALUE
    /\ criticalSectionInProgress' = FALSE
    /\ UNCHANGED spread

\* Mutant: the state becomes what the section has seen and written.
HandleCommitOverwrites ==
    /\ nested.op = "commit"
    /\ remainingPeersToUpdate' = (remainingPeersToUpdate \/ state # readState)
    /\ state' = readState
    /\ readState' = ZERO_VALUE
    /\ criticalSectionInProgress' = FALSE
    /\ UNCHANGED spread

\* The peer may have sent its state since the section began: the two are combined.
HandleCommit ==
    /\ nested.op = "commit"
    /\ remainingPeersToUpdate' = (remainingPeersToUpdate \/ state # readState)
    /\ state' = COMBINE_FN(state, readState)
    /\ readState' = ZERO_VALUE
    /\ criticalSectionInProgress' = FALSE
    /\ UNCHANGED spread

\* The request takes effect and is acknowledged, or it is refused.
NestedAnswers ==
    /\ nested # Free
    /\ receiveCh = <<>>
    /\ \/ /\ HandleRead \/ HandleWrite \/ HandleAbort \/ HandlePreCommit \/ HandleCommit
          /\ receiveCh' = <<[tpe |-> nested.op, stale |-> nested.stale,
                            value |-> IF nested.op = "read" THEN VIEW_FN(Loaded) ELSE 0]>>
       \/ /\ MayRefuse
          /\ nested.op \in Timed
          /\ receiveCh' = <<[tpe |-> "aborted", stale |-> nested.stale, value |-> 0]>>
          /\ UNCHANGED inner
    /\ nested' = Free
    /\ UNCHANGED <<call, arg, staleAcksReceived, ctxHasStopped, outer>>

\* Mutant: the state of the peer replaces that of this node.
NestedMergesReplaces ==
    /\ nested = Free
    /\ \E told \in 0 .. spread, p \in 0 .. MaxPeer : state' = [self |-> told, peer |-> p]
    /\ UNCHANGED <<readState, criticalSectionInProgress, remainingPeersToUpdate, spread>>
    /\ UNCHANGED <<call, arg, nested, receiveCh, staleAcksReceived, ctxHasStopped, outer>>

\* A state of the peer arrives, also in the middle of a section.  It holds what the peer
\* was told of the count of this node.
NestedMerges ==
    /\ nested = Free
    /\ \E told \in 0 .. spread, p \in 0 .. MaxPeer :
        state' = COMBINE_FN([self |-> told, peer |-> p], state)
    /\ UNCHANGED <<readState, criticalSectionInProgress, remainingPeersToUpdate, spread>>
    /\ UNCHANGED <<call, arg, nested, receiveCh, staleAcksReceived, ctxHasStopped, outer>>

\* The state is sent to the peer, also in the middle of a section.
NestedSpreads ==
    /\ nested = Free
    /\ remainingPeersToUpdate
    /\ remainingPeersToUpdate' = FALSE
    /\ spread' = state.self
    /\ UNCHANGED <<state, readState, criticalSectionInProgress>>
    /\ UNCHANGED <<call, arg, nested, receiveCh, staleAcksReceived, ctxHasStopped, outer>>

NestedStops ==
    /\ MayStop
    /\ ctxHasStopped' = TRUE
    /\ UNCHANGED <<call, arg, nested, receiveCh, staleAcksReceived, inner, outer>>

\* The program has panicked, or the archetype has returned an error.
Terminated == ~Running /\ UNCHANGED vars

-----------------------------------------------------------------------------
ResourceStep ==
    \/ Send \/ Timeout \/ Receive \/ SeeStopped
    \/ AbortSends \/ AbortDiscards \/ AbortReceives

Next ==
    \/ \E o \in Op, v \in Value \union {0} : Call(o, v)
    \/ Abort
    \/ ResourceStep
    \/ NestedAnswers \/ NestedMerges \/ NestedSpreads \/ NestedStops \/ Terminated

Spec == Init /\ [][Next]_vars

\* Goroutines run, and the nested system answers.
FairSpec == Spec /\ WF_vars(ResourceStep) /\ WF_vars(NestedAnswers)

-----------------------------------------------------------------------------
(* Properties *)

TypeOK ==
    /\ section \in Section
    /\ op \in Op \union {"none"}
    /\ stage \in Stage
    /\ nested \in Request \union {Free}
    /\ receiveCh = <<>> \/ \E r \in Response : receiveCh = <<r>>
    /\ staleAcksReceived \in 0 .. 1
    /\ ctxHasStopped \in BOOLEAN
    /\ panic \in Panic
    /\ {state, readState} \subseteq Counts
    /\ {criticalSectionInProgress, remainingPeersToUpdate} \subseteq BOOLEAN
    /\ {arg, spread, store, view, seen, seeing} \subseteq Nat

\* When a call starts, no response to an earlier one is buffered or may still come:
\* assertSanity never finds a stale value, however the requests before it ended.
ChannelsAreDrained ==
    stage = "idle" /\ section # "mustAbort" /\ panic = "none"
        => nested = Free /\ receiveCh = <<>>

\* A call of the section never takes the response to another call for its own.
OwnAnswers ==
    stage = "wait" /\ receiveCh # <<>> /\ panic = "none"
        => ~Head(receiveCh).stale /\ Head(receiveCh).tpe \in {op, "aborted"}

\* Between the calls, the nested system has done what the outer sections did: its own
\* count is that of those that committed, and the section in progress starts its next
\* operation from its own writes, also after a write that timed out but took effect, and
\* was aborted, and whatever the peer has sent in between.
NestedAgrees ==
    stage = "idle" /\ section # "mustAbort" => state.self = store /\ Loaded.self = view

\* A commit takes effect once or not at all, and an abort never does, even if the program
\* panics or the archetype ends in the middle of a call.
CommitsOnce == state.self = store \/ (op = "commit" /\ state.self = view)

\* A result that a section reads is never below one that it, or a section that committed
\* before it, has read, although states of the peer arrive at any moment, also in the
\* middle of a section, and arrive more than once and out of order.
ReadsGrow ==
    stage = "wait" /\ op = "read" /\ receiveCh # <<>> /\ Head(receiveCh).tpe = "read"
        => Head(receiveCh).value >= seeing

\* What the node has learnt is never forgotten: a commit keeps the state of the peer that
\* arrived after the section had loaded its own, and a merge keeps what was committed.
StateGrows == [][COMBINE_FN(state, state') = state']_vars

\* The peer has been told all that the sections have committed, or is still to be told,
\* also when the state was sent between the operations of a section that commits later.
PeerIsTold == spread = state.self \/ remainingPeersToUpdate

\* Abort never meets a second stale response: one request is under way at a time.
OneStaleAck == panic # "secondStaleAck"

\* Abort reads and discards the late acknowledgement of a request that timed out
\* before it takes the acknowledgement of the abort.
AbortTakesItsOwnAck == panic # "badAbortAck"

\* Abort discards the late response to a request that timed out, also an "aborted".
AbortDiscardsLateAnswers == panic # "badStaleAck"

\* Every call ends, or ends the program.
CallsEnd == stage # "idle" ~> stage = "idle" \/ ~Running
=============================================================================
