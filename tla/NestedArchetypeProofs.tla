----------------------- MODULE NestedArchetypeProofs ------------------------
(***************************************************************************)
(* Proofs about NestedArchetype.  The inductive invariant says, for each   *)
(* stage of a call, which request or response can be under way and what it *)
(* will have done to the state of the nested system.                       *)
(***************************************************************************)
EXTENDS NestedArchetype, TLAPS

\* Nothing is under way.
Quiet == nested = Free /\ receiveCh = <<>>

\* Both sides have the same counts, and the section may still read what it has read.
Agree ==
    /\ state.self = store
    /\ Loaded.self = view
    /\ store <= view
    /\ seeing <= VIEW_FN(Loaded)

\* At most one response, to a request that timed out, is under way or buffered.
AtMostOneStale ==
    \/ Quiet
    \/ nested \in Request /\ nested.op \in Timed /\ receiveCh = <<>>
    \/ nested = Free /\ \E r \in Response : r.tpe \in Timed \union {"aborted"} /\ receiveCh = <<r>>

\* The effect of the call in progress, once it has been acknowledged by r.
Effect(r) ==
    /\ op = "read" => Agree /\ criticalSectionInProgress /\ r.value = VIEW_FN(readState)
    /\ op = "write" => /\ state.self = store
                       /\ Loaded.self = view + arg
                       /\ store <= view
                       /\ seeing <= VIEW_FN(Loaded)
    /\ op = "preCommit" => Agree
    /\ op = "commit" => /\ state.self = view
                        /\ Loaded.self = view
                        /\ seeing <= VIEW_FN(state)
                        /\ seeing <= VIEW_FN(Loaded)

\* The request of the call in progress is under way, or its response is buffered.
Answered ==
    /\ nested = Free
    /\ \E r \in Response :
        /\ receiveCh = <<r>>
        /\ ~r.stale
        /\ \/ r.tpe = "aborted" /\ op \in Timed /\ state.self = store
           \/ r.tpe = op /\ Effect(r)
AtWait ==
    /\ op \in Timed \union {"commit"}
    /\ \/ nested = [op |-> op, value |-> arg, stale |-> FALSE] /\ receiveCh = <<>> /\ Agree
       \/ Answered

\* The abort request is under way, perhaps with a stale response before it, or its
\* acknowledgement is buffered.
AtAbortWait ==
    /\ state.self = store
    /\ \/ /\ nested = [op |-> "abort", value |-> 0, stale |-> FALSE]
          /\ \/ receiveCh = <<>>
             \/ \E r \in Response : r.tpe \in Timed \union {"aborted"} /\ receiveCh = <<r>>
       \/ /\ nested = Free
          /\ \E r \in Response : r.tpe = "abort" /\ receiveCh = <<r>>
          /\ ~criticalSectionInProgress

Progress ==
    /\ stage = "idle" /\ section # "mustAbort" => Quiet /\ Agree
    /\ stage = "idle" /\ section = "mustAbort" => AtMostOneStale /\ state.self = store
    /\ stage = "send" => Quiet /\ Agree /\ op \in Timed \union {"commit"}
    /\ stage = "wait" => AtWait
    /\ stage = "abortSend" =>
         AtMostOneStale /\ state.self = store /\ (staleAcksReceived # 0 => Quiet)
    /\ stage = "abortWait" => AtAbortWait

\* What holds whether or not the program has ended: the peer has not more than the state
\* of the node, no committed read saw more than it, and a commit under way is the one of
\* the outer section.
Learnt ==
    /\ spread <= state.self
    /\ PeerIsTold
    /\ seen <= VIEW_FN(state)
    /\ ~criticalSectionInProgress => readState = ZERO_VALUE
Safe ==
    /\ CommitsOnce
    /\ nested.op = "commit" => op = "commit" /\ Agree
    /\ panic # "none" => stage # "idle" /\ (stage = "wait" => op = "commit")

IInv ==
    /\ TypeOK
    /\ Learnt
    /\ Safe
    /\ panic # "secondStaleAck"
    /\ panic = "none" => Progress

-----------------------------------------------------------------------------
(* The grow-only counter *)

\* The combination of two states is one, at least as large as both.
LEMMA CombineGrows ==
    ASSUME NEW a \in Counts, NEW b \in Counts
    PROVE  LET c == COMBINE_FN(a, b) IN
           /\ c \in Counts
           /\ a.self <= c.self /\ b.self <= c.self
           /\ b.self <= a.self => c.self = a.self
           /\ a.self <= b.self => c.self = b.self
           /\ VIEW_FN(a) <= VIEW_FN(c) /\ VIEW_FN(b) <= VIEW_FN(c)
           /\ COMBINE_FN(a, c) = c /\ COMBINE_FN(b, c) = c
<1> DEFINE c == COMBINE_FN(a, b)
<1>1. {a.self, a.peer, b.self, b.peer} \subseteq Nat
    BY DEF Counts
<1>2. c = [self |-> c.self, peer |-> c.peer] /\ c.self \in Nat /\ c.peer \in Nat
    BY <1>1 DEF COMBINE_FN, Larger
<1>3. /\ a.self <= c.self /\ b.self <= c.self /\ a.peer <= c.peer /\ b.peer <= c.peer
      /\ b.self <= a.self => c.self = a.self
      /\ a.self <= b.self => c.self = b.self
    BY <1>1 DEF COMBINE_FN, Larger
<1>4. COMBINE_FN(a, c) = c /\ COMBINE_FN(b, c) = c
  <2>1. ASSUME NEW m \in Nat, NEW n \in Nat, m <= n PROVE Larger(m, n) = n
      BY <2>1 DEF Larger
  <2> QED
      BY <1>1, <1>2, <1>3, <2>1 DEF COMBINE_FN
<1> HIDE DEF c
<1>5. VIEW_FN(a) <= VIEW_FN(c) /\ VIEW_FN(b) <= VIEW_FN(c)
    BY <1>1, <1>2, <1>3 DEF VIEW_FN
<1>6. c \in Counts
    BY <1>2 DEF Counts
<1> QED
    BY <1>3, <1>4, <1>5, <1>6 DEF c

LEMMA LoadedType ==
    ASSUME TypeOK
    PROVE  /\ state \in Counts /\ readState \in Counts /\ Loaded \in Counts
           /\ {VIEW_FN(state), VIEW_FN(readState), VIEW_FN(Loaded)} \subseteq Nat
           /\ {state.self, Loaded.self, store, view, seen, seeing, arg, spread} \subseteq Nat
<1>1. state \in Counts /\ readState \in Counts /\ Loaded \in Counts
    BY DEF TypeOK, Loaded
<1>2. ASSUME NEW a \in Counts PROVE a.self \in Nat /\ VIEW_FN(a) \in Nat
    BY DEF Counts, VIEW_FN
<1> QED
    BY <1>1, <1>2 DEF TypeOK

LEMMA InitIInv == Init => IInv
<1> SUFFICES ASSUME Init PROVE IInv
    OBVIOUS
<1>1. TypeOK
  <2>1. ctxHasStopped \in BOOLEAN /\ {criticalSectionInProgress, remainingPeersToUpdate} \subseteq BOOLEAN
      BY DEF Init
  <2>2. staleAcksReceived \in 0 .. 1 /\ {arg, spread, store, view, seen, seeing} \subseteq Nat
      BY DEF Init
  <2>3. ZERO_VALUE \in Counts
      BY DEF ZERO_VALUE, Counts
  <2>4. {state, readState} \subseteq Counts
      BY <2>3 DEF Init
  <2> QED
      BY <2>1, <2>2, <2>4, Zenon DEF Init, TypeOK, Section, Stage, Panic
<1>2. Loaded = ZERO_VALUE /\ ZERO_VALUE.self = 0 /\ VIEW_FN(ZERO_VALUE) = 0
    BY DEF Init, Loaded, ZERO_VALUE, VIEW_FN
<1>3. Agree
    BY <1>2 DEF Init, Agree
<1>4. Progress
    BY <1>3 DEF Init, Progress, Quiet
<1>5. Learnt
    BY <1>2 DEF Init, Learnt, PeerIsTold
<1>6. Safe
    BY <1>2 DEF Init, Safe, CommitsOnce, Free
<1> QED
    BY <1>1, <1>4, <1>5, <1>6 DEF IInv, Init

USE DEF Op, Timed, Section, Stage, Panic, Request, Response, Free

-----------------------------------------------------------------------------
(* The steps of the resource: they leave the nested system alone *)

LEMMA OuterIInv ==
    ASSUME IInv,
           \/ \E o \in Op, v \in Value \union {0} : Call(o, v)
           \/ Abort \/ ResourceStep \/ NestedStops \/ UNCHANGED vars
    PROVE  IInv'
<1> USE ValueAssumption DEF IInv
\* What the step that takes the one buffered response sees and leaves behind.
<1>0. ASSUME receiveCh # <<>>
      PROVE  /\ Head(receiveCh) \in Response
             /\ receiveCh = <<Head(receiveCh)>>
             /\ Tail(receiveCh) = <<>>
  <2>1. PICK r \in Response : receiveCh = <<r>>
      BY <1>0 DEF TypeOK
  <2>2. Head(receiveCh) = r /\ Tail(receiveCh) = <<>>
      BY <2>1
  <2> QED
      BY <2>1, <2>2
<1>a. UNCHANGED inner
    BY DEF Call, Abort, ResourceStep, Send, Timeout, Receive, SeeStopped, AbortSends,
       AbortDiscards, AbortReceives, NestedStops, vars
<1>b. /\ state' = state /\ readState' = readState /\ spread' = spread
      /\ criticalSectionInProgress' = criticalSectionInProgress
      /\ remainingPeersToUpdate' = remainingPeersToUpdate
      /\ Loaded' = Loaded
      /\ VIEW_FN(Loaded)' = VIEW_FN(Loaded) /\ VIEW_FN(state)' = VIEW_FN(state)
      /\ VIEW_FN(readState)' = VIEW_FN(readState)
    BY <1>a DEF inner, Loaded, VIEW_FN
<1>c. /\ {VIEW_FN(state), VIEW_FN(readState), VIEW_FN(Loaded)} \subseteq Nat
      /\ {state.self, Loaded.self, store, view, seen, seeing, arg, spread} \subseteq Nat
    BY LoadedType
<1>1. ASSUME NEW o \in Op, NEW v \in Value \union {0}, Call(o, v) PROVE IInv'
  <2>1. receiveCh = <<>>
      BY <1>1 DEF Call, Callable, Running, Progress, Quiet
  <2>2. TypeOK'
      BY <1>1, <1>b, <2>1 DEF Call, Callable, TypeOK, outer
  <2>3. Progress'
      BY <1>1, <1>b, <2>1 DEF Call, Callable, Running, Progress, Quiet, Agree, outer
  <2>4. Learnt' /\ Safe'
      BY <1>1, <1>b, <2>1 DEF Call, Callable, Running, Progress, Quiet, Agree, Learnt, Safe, PeerIsTold, CommitsOnce, outer
  <2> QED
      BY <1>1, <2>1, <2>2, <2>3, <2>4 DEF Call
<1>2. CASE Abort
  <2>1. TypeOK'
      BY <1>2, <1>b DEF Abort, TypeOK, outer
  <2>2. Progress'
      BY <1>2, <1>b DEF Abort, Running, Progress, Quiet, Agree, AtMostOneStale, outer
  <2>3. Learnt' /\ Safe'
      BY <1>2, <1>b DEF Abort, Running, Progress, Quiet, Agree, AtMostOneStale, Learnt, Safe, PeerIsTold, CommitsOnce, outer
  <2> QED
      BY <1>2, <2>1, <2>2, <2>3 DEF Abort
<1>3. CASE Send
  <2>1. TypeOK'
      BY <1>3, <1>b DEF Send, TypeOK, Running, Progress, outer
  <2>2. Progress'
      BY <1>3, <1>b DEF Send, Running, Progress, Quiet, Agree, AtWait, outer
  <2>3. Learnt' /\ Safe'
      BY <1>3, <1>b DEF Send, Running, Progress, Quiet, Agree, Learnt, Safe, PeerIsTold, CommitsOnce, outer
  <2> QED
      BY <1>3, <2>1, <2>2, <2>3 DEF Send
<1>4. CASE Timeout
  <2>1. receiveCh' = <<>> \/ \E r \in Response : receiveCh' = <<r>>
      BY <1>0, <1>4 DEF Timeout
  <2>2. nested' \in Request \union {Free}
      BY <1>4 DEF Timeout, TypeOK
  <2>3. TypeOK'
      BY <1>4, <1>b, <2>1, <2>2 DEF Timeout, Ends, TypeOK, outer
  <2>4. AtMostOneStale'
    <3>1. CASE Quiet
        BY <3>1, <1>4 DEF Timeout, Quiet, AtMostOneStale
    <3>2. CASE nested \in Request /\ nested.op \in Timed /\ receiveCh = <<>>
        BY <3>2, <1>4 DEF Timeout, AtMostOneStale
    <3>3. CASE Answered
      <4>1. PICK r \in Response : receiveCh = <<r>> /\ r.tpe \in Timed \union {"aborted"}
          BY <3>3, <1>4 DEF Timeout, Answered
      <4>2. receiveCh' = <<[r EXCEPT !.stale = TRUE]>>
          BY <4>1, <1>4 DEF Timeout
      <4>3. [r EXCEPT !.stale = TRUE] \in Response /\ [r EXCEPT !.stale = TRUE].tpe = r.tpe
          OBVIOUS
      <4>4. nested' = Free
          BY <3>3, <1>4 DEF Timeout, Answered
      <4> QED
          BY <4>1, <4>2, <4>3, <4>4 DEF AtMostOneStale
    <3> QED
        BY <3>1, <3>2, <3>3, <1>4 DEF Timeout, Running, TypeOK, Progress, AtWait
  <2>5. state.self = store
      BY <1>4 DEF Timeout, Running, Progress, AtWait, Answered, Effect, Agree
  <2>6. nested'.op # "commit"
      BY <1>4 DEF Timeout, Safe, TypeOK
  <2>7. Learnt' /\ Safe'
      BY <1>4, <1>b, <2>5, <2>6 DEF Timeout, Running, Ends, Learnt, Safe, PeerIsTold, CommitsOnce, outer
  <2> QED
      BY <1>4, <1>b, <2>3, <2>4, <2>5, <2>7 DEF Timeout, Running, Ends, Progress, outer
<1>5. CASE Receive
  <2>1. PICK r \in Response : /\ receiveCh = <<r>> /\ Head(receiveCh) = r /\ receiveCh' = <<>>
                              /\ nested = Free /\ nested' = Free
                              /\ \/ r.tpe = "aborted" /\ op \in Timed /\ state.self = store
                                 \/ r.tpe = op /\ Effect(r)
      BY <1>0, <1>5 DEF Receive, Running, Progress, AtWait, Answered
  <2>2. op \in Timed \union {"commit"} /\ stage = "wait" /\ panic = "none"
      BY <1>5 DEF Receive, Running, Progress, AtWait
  <2>3. CASE r.tpe = op
    <3>1. /\ Ends(After(op)) /\ Effect(r)
          /\ view' = IF op = "write" THEN view + arg ELSE view
          /\ seeing' = IF op = "read" THEN r.value ELSE seeing
          /\ store' = IF op = "commit" THEN view ELSE store
          /\ seen' = IF op = "commit" THEN seeing ELSE seen
          /\ UNCHANGED <<arg, nested, receiveCh>> \/ UNCHANGED <<arg, nested>>
        BY <1>5, <2>1, <2>2, <2>3 DEF Receive
    <3>2. After(op) \in {"open", "preCommitted", "clean"}
        BY <2>2 DEF After
    <3>3. stage' = "idle" /\ op' = "none" /\ section' = After(op) /\ panic' = "none"
        BY <3>1, <2>2 DEF Ends
    <3>4. r.value \in Nat
        OBVIOUS
    <3>5. Agree'
      <4>1. CASE op = "read"
        <5>1. Loaded = readState
            BY <3>1, <4>1 DEF Effect, Loaded
        <5> QED
            BY <3>1, <4>1, <5>1, <1>b, <1>c DEF Effect, Agree
      <4>2. CASE op = "write"
          BY <3>1, <4>2, <1>b, <1>c DEF Effect, Agree
      <4>3. CASE op = "preCommit"
          BY <3>1, <4>3, <1>b, <1>c DEF Effect, Agree
      <4>4. CASE op = "commit"
          BY <3>1, <4>4, <1>b, <1>c DEF Effect, Agree
      <4> QED
          BY <2>2, <4>1, <4>2, <4>3, <4>4
    <3>6. seen' <= VIEW_FN(state)' /\ Learnt'
        BY <3>1, <1>b DEF Effect, Learnt, PeerIsTold
    <3>7. Safe'
        BY <3>3, <3>5, <2>1 DEF Safe, CommitsOnce, Agree
    <3>10. Progress'
        BY <3>2, <3>3, <3>5, <2>1 DEF Progress, Quiet
    <3>8. /\ {store', view', seen', seeing'} \subseteq Nat
          /\ staleAcksReceived' = staleAcksReceived /\ ctxHasStopped' = ctxHasStopped
          /\ arg' = arg
        BY <1>5, <3>1, <3>4, <1>c DEF Receive
    <3>9. TypeOK'
      <4>1. {arg, spread, store, view, seen, seeing}' \subseteq Nat
          BY <3>8, <1>b, <1>c
      <4>2. section' \in Section /\ op' \in Op \union {"none"} /\ stage' \in Stage /\ panic' \in Panic
          BY <3>2, <3>3
      <4> QED
          BY <2>1, <3>8, <4>1, <4>2, <1>b DEF TypeOK
    <3> QED
        BY <3>3, <3>6, <3>7, <3>9, <3>10
  <2>4. CASE r.tpe # op
    <3>1. /\ op \in Timed /\ state.self = store /\ Ends("mustAbort") /\ UNCHANGED outer
          /\ UNCHANGED <<arg, nested, staleAcksReceived, ctxHasStopped>>
        BY <1>5, <2>1, <2>4 DEF Receive
    <3>2. TypeOK'
        BY <3>1, <2>1, <1>b DEF Ends, TypeOK, outer
    <3>3. Learnt' /\ Safe'
        BY <3>1, <2>1, <2>2, <1>b DEF Ends, Learnt, Safe, PeerIsTold, CommitsOnce, outer
    <3>4. Progress'
        BY <3>1, <2>1, <1>b DEF Ends, Progress, AtMostOneStale, Quiet, outer
    <3> QED
        BY <3>1, <2>2, <3>2, <3>3, <3>4 DEF Ends
  <2> QED
      BY <2>3, <2>4
<1>6. CASE SeeStopped
  <2>1. TypeOK'
      BY <1>6, <1>b DEF SeeStopped, Fails, Panics, TypeOK, outer
  <2>2. Learnt' /\ Safe'
      BY <1>6, <1>b DEF SeeStopped, Running, Fails, Panics, Agree, Learnt, Safe, PeerIsTold, CommitsOnce, outer
  <2>3. panic' # "secondStaleAck" /\ (panic' = "none" => Progress')
      BY <1>6 DEF SeeStopped, Running, Fails, Panics, Progress
  <2> QED
      BY <2>1, <2>2, <2>3
<1>7. CASE AbortSends
  <2>1. TypeOK'
      BY <1>7, <1>b DEF AbortSends, TypeOK, outer
  <2>2. Progress'
      BY <1>7, <1>b DEF AbortSends, Running, Progress, Quiet, AtMostOneStale, AtAbortWait, outer
  <2>3. Learnt' /\ Safe'
      BY <1>7, <1>b DEF AbortSends, Running, Progress, Learnt, Safe, PeerIsTold, CommitsOnce, outer
  <2> QED
      BY <1>7, <2>1, <2>2, <2>3 DEF AbortSends
<1>8. CASE AbortDiscards
  <2>1. receiveCh' = <<>> /\ nested = Free /\ nested' = Free
      BY <1>0, <1>8 DEF AbortDiscards, Running, Progress, AtMostOneStale, Quiet
  <2>2. staleAcksReceived = 0 /\ panic' # "secondStaleAck"
      BY <1>8 DEF AbortDiscards, Running, Panics, Progress, Quiet
  <2>3. TypeOK'
      BY <1>8, <1>b, <2>1, <2>2 DEF AbortDiscards, Running, Panics, TypeOK, outer
  <2>4. Learnt' /\ Safe'
      BY <1>8, <1>b, <2>1 DEF AbortDiscards, Running, Panics, Progress, Learnt, Safe, PeerIsTold, CommitsOnce, outer
  <2>5. panic' = "none" => Progress'
      BY <1>8, <1>b, <2>1 DEF AbortDiscards, Running, Panics, Progress, Quiet, AtMostOneStale, outer
  <2> QED
      BY <2>2, <2>3, <2>4, <2>5
<1>9. CASE AbortReceives
  <2>1. receiveCh' = <<>> /\ Head(receiveCh) \in Response
      BY <1>0, <1>9 DEF AbortReceives
  <2>2. CASE Head(receiveCh).tpe = "abort"
    <3>1. Ends("clean") /\ view' = store /\ seeing' = seen
        BY <1>9, <2>2 DEF AbortReceives
    <3>2. nested = Free /\ ~criticalSectionInProgress /\ state.self = store
        BY <1>0, <1>9, <2>2 DEF AbortReceives, Running, Progress, AtAbortWait
    <3>3. Loaded = state
        BY <3>2 DEF Loaded
    <3>4. Agree'
        BY <1>9, <3>1, <3>2, <3>3, <1>b, <1>c DEF AbortReceives, Agree, Learnt
    <3>5. TypeOK'
        BY <1>9, <2>1, <3>1, <1>b DEF AbortReceives, Ends, TypeOK
    <3>6. Learnt' /\ Safe'
        BY <1>9, <3>1, <3>2, <1>b DEF AbortReceives, Running, Ends, Learnt, Safe, PeerIsTold, CommitsOnce
    <3>7. Progress'
        BY <1>9, <2>1, <3>1, <3>2, <3>4 DEF AbortReceives, Ends, Progress, Quiet
    <3> QED
        BY <1>9, <3>1, <3>5, <3>6, <3>7 DEF AbortReceives, Running, Ends
  <2>3. CASE Head(receiveCh).tpe # "abort"
    <3>1. Panics("badAbortAck") /\ UNCHANGED outer
        BY <1>9, <2>3 DEF AbortReceives, outer
    <3>2. TypeOK'
        BY <1>9, <2>1, <3>1, <1>b DEF AbortReceives, Panics, TypeOK, outer
    <3>3. Learnt' /\ Safe'
        BY <1>9, <3>1, <1>b DEF AbortReceives, Running, Panics, Progress, AtAbortWait, Agree, Learnt, Safe, PeerIsTold, CommitsOnce, outer
    <3> QED
        BY <3>1, <3>2, <3>3 DEF Panics
  <2> QED
      BY <2>2, <2>3
<1>10. CASE NestedStops
  <2>1. TypeOK'
      BY <1>10, <1>b DEF NestedStops, TypeOK, call, outer
  <2>2. Learnt' /\ Safe'
      BY <1>10, <1>b DEF NestedStops, Learnt, Safe, PeerIsTold, CommitsOnce, Agree, call, outer
  <2>3. Progress => Progress'
      BY <1>10, <1>b DEF NestedStops, Progress, Quiet, Agree, AtMostOneStale, AtWait, Answered,
         Effect, AtAbortWait, call, outer
  <2> QED
      BY <1>10, <2>1, <2>2, <2>3 DEF NestedStops, call
<1>11. CASE UNCHANGED vars
  <2>1. TypeOK'
      BY <1>11, <1>b DEF vars, TypeOK, call, outer
  <2>2. Learnt' /\ Safe'
      BY <1>11, <1>b DEF vars, Learnt, Safe, PeerIsTold, CommitsOnce, Agree, call, outer
  <2>3. Progress => Progress'
      BY <1>11, <1>b DEF vars, Progress, Quiet, Agree, AtMostOneStale, AtWait, Answered,
         Effect, AtAbortWait, call, outer
  <2> QED
      BY <1>11, <2>1, <2>2, <2>3 DEF vars, call
<1> QED
    BY <1>1, <1>2, <1>3, <1>4, <1>5, <1>6, <1>7, <1>8, <1>9, <1>10, <1>11 DEF ResourceStep

-----------------------------------------------------------------------------
(* The steps of the nested system *)

\* A step that exchanges states with the peer leaves all else alone.
LEMMA ExchangeIInv ==
    ASSUME IInv, nested = Free, TypeOK', Learnt',
           UNCHANGED <<call, arg, nested, receiveCh, staleAcksReceived, ctxHasStopped, outer>>,
           UNCHANGED <<readState, criticalSectionInProgress>>,
           state'.self = state.self, VIEW_FN(state) <= VIEW_FN(state)'
    PROVE  IInv'
<1> USE DEF IInv
<1>1. /\ {VIEW_FN(state), VIEW_FN(readState), VIEW_FN(Loaded)} \subseteq Nat
      /\ {state.self, Loaded.self, store, view, seen, seeing, arg, spread} \subseteq Nat
    BY LoadedType
<1>2. /\ VIEW_FN(state)' \in Nat /\ VIEW_FN(Loaded)' \in Nat
      /\ VIEW_FN(readState)' = VIEW_FN(readState)
  <2>1. {VIEW_FN(state), VIEW_FN(Loaded)}' \subseteq Nat
    <3>1. state' \in Counts /\ Loaded' \in Counts
        BY DEF TypeOK, Loaded
    <3>2. ASSUME NEW a \in Counts PROVE a.self \in Nat /\ a.peer \in Nat
        BY DEF Counts
    <3> QED
        BY <3>1, <3>2 DEF VIEW_FN
  <2> QED
      BY <2>1 DEF VIEW_FN
<1>3. Loaded'.self = Loaded.self /\ VIEW_FN(Loaded) <= VIEW_FN(Loaded)'
  <2>1. CASE criticalSectionInProgress
    <3>1. Loaded' = readState /\ Loaded = readState
        BY <2>1 DEF Loaded
    <3>2. VIEW_FN(Loaded)' = VIEW_FN(readState) /\ VIEW_FN(Loaded) = VIEW_FN(readState)
        BY <3>1 DEF VIEW_FN
    <3> QED
        BY <3>1, <3>2, <1>1
  <2>2. CASE ~criticalSectionInProgress
    <3>1. Loaded' = state' /\ Loaded = state
        BY <2>2 DEF Loaded
    <3>2. VIEW_FN(Loaded)' = VIEW_FN(state)' /\ VIEW_FN(Loaded) = VIEW_FN(state)
        BY <3>1 DEF VIEW_FN
    <3> QED
        BY <3>1, <3>2
  <2> QED
      BY <2>1, <2>2
<1>4. Agree => Agree'
    BY <1>1, <1>2, <1>3 DEF Agree, outer
<1>5. ASSUME NEW r, Effect(r) PROVE Effect(r)'
    BY <1>1, <1>2, <1>3, <1>4, <1>5 DEF Effect, outer, call
<1>6. Answered => Answered'
    BY <1>5 DEF Answered, outer, call
<1>7. Safe'
    BY <1>4 DEF Safe, CommitsOnce, outer, call
<1>8. Progress => Progress'
    BY <1>4, <1>6 DEF Progress, Quiet, AtMostOneStale, AtWait, AtAbortWait, outer, call
<1> QED
    BY <1>7, <1>8 DEF call

LEMMA MergesIInv == ASSUME IInv, NestedMerges PROVE IInv' /\ COMBINE_FN(state, state') = state'
<1> USE DEF IInv
<1>1. PICK told \in 0 .. spread, p \in 0 .. MaxPeer :
          state' = COMBINE_FN([self |-> told, peer |-> p], state)
    BY DEF NestedMerges
<1>2. spread \in Nat /\ state \in Counts /\ state.self \in Nat
    BY LoadedType
<1>3. [self |-> told, peer |-> p] \in Counts /\ told <= state.self
    BY <1>2, ValueAssumption DEF Counts, Learnt
<1> DEFINE a == [self |-> told, peer |-> p]
<1>4. /\ state' \in Counts /\ state'.self = state.self /\ VIEW_FN(state) <= VIEW_FN(state')
      /\ COMBINE_FN(state, state') = state'
  <2>1. a \in Counts /\ a.self <= state.self /\ state' = COMBINE_FN(a, state)
      BY <1>1, <1>3
  <2> HIDE DEF a
  <2> QED
      BY <2>1, <1>2, CombineGrows
<1>5. VIEW_FN(state)' = VIEW_FN(state')
    BY DEF VIEW_FN
<1>6. TypeOK'
    BY <1>4 DEF NestedMerges, TypeOK, call, outer
<1>7. {VIEW_FN(state), VIEW_FN(state)', seen} \subseteq Nat
  <2>1. ASSUME NEW b \in Counts PROVE VIEW_FN(b) \in Nat
      BY DEF Counts, VIEW_FN
  <2> QED
      BY <2>1, <1>2, <1>4, <1>5 DEF TypeOK
<1>8. Learnt'
    BY <1>4, <1>5, <1>7 DEF NestedMerges, Learnt, PeerIsTold, outer
<1>9. IInv'
    BY <1>4, <1>5, <1>6, <1>8, ExchangeIInv DEF NestedMerges
<1> QED
    BY <1>4, <1>9

LEMMA SpreadsIInv == ASSUME IInv, NestedSpreads PROVE IInv' /\ state' = state
<1> USE DEF IInv
<1>1. state' = state
    BY DEF NestedSpreads
<1>2. state.self \in Nat /\ VIEW_FN(state) \in Nat
    BY LoadedType
<1>3. TypeOK'
  <2>1. {arg, spread, store, view, seen, seeing}' \subseteq Nat
      BY <1>2 DEF NestedSpreads, TypeOK, outer
  <2>2. {criticalSectionInProgress, remainingPeersToUpdate}' \subseteq BOOLEAN
      BY DEF NestedSpreads, TypeOK
  <2> QED
      BY <1>1, <2>1, <2>2 DEF NestedSpreads, TypeOK, call
<1>4. VIEW_FN(state)' = VIEW_FN(state)
    BY <1>1 DEF VIEW_FN
<1>5. Learnt'
    BY <1>2, <1>4 DEF NestedSpreads, Learnt, PeerIsTold, outer
<1>6. IInv'
    BY <1>1, <1>2, <1>3, <1>4, <1>5, ExchangeIInv DEF NestedSpreads
<1> QED
    BY <1>1, <1>6

\* The response that the nested system gives.
LEMMA AnswersIInv == ASSUME IInv, NestedAnswers PROVE IInv' /\ COMBINE_FN(state, state') = state'
<1> USE DEF IInv
<1>1. nested \in Request /\ receiveCh = <<>> /\ nested' = Free
    BY DEF NestedAnswers, TypeOK
<1>2. /\ state \in Counts /\ readState \in Counts /\ Loaded \in Counts
      /\ {VIEW_FN(state), VIEW_FN(readState), VIEW_FN(Loaded)} \subseteq Nat
      /\ {state.self, Loaded.self, store, view, seen, seeing, arg, spread} \subseteq Nat
    BY LoadedType
<1>3. PICK r \in Response :
        /\ receiveCh' = <<r>> /\ r.stale = nested.stale
        /\ \/ /\ HandleRead \/ HandleWrite \/ HandleAbort \/ HandlePreCommit \/ HandleCommit
              /\ r.tpe = nested.op
              /\ nested.op = "read" => r.value = VIEW_FN(Loaded)
           \/ nested.op \in Timed /\ r.tpe = "aborted" /\ UNCHANGED inner
  <2>1. CASE MayRefuse /\ nested.op \in Timed /\ UNCHANGED inner
             /\ receiveCh' = <<[tpe |-> "aborted", stale |-> nested.stale, value |-> 0]>>
      BY <2>1, <1>1
  <2>2. CASE /\ HandleRead \/ HandleWrite \/ HandleAbort \/ HandlePreCommit \/ HandleCommit
             /\ receiveCh' = <<[tpe |-> nested.op, stale |-> nested.stale,
                               value |-> IF nested.op = "read" THEN VIEW_FN(Loaded) ELSE 0]>>
    <3> DEFINE r == [tpe |-> nested.op, stale |-> nested.stale,
                     value |-> IF nested.op = "read" THEN VIEW_FN(Loaded) ELSE 0]
    <3>1. r \in Response
        BY <1>1, <1>2
    <3> QED
        BY <2>2, <3>1
  <2> QED
      BY <2>1, <2>2 DEF NestedAnswers
<1>4. /\ section' = section /\ op' = op /\ stage' = stage /\ panic' = panic /\ arg' = arg
      /\ store' = store /\ view' = view /\ seen' = seen /\ seeing' = seeing
      /\ UNCHANGED <<staleAcksReceived, ctxHasStopped>>
    BY DEF NestedAnswers, call, outer
\* What the step does to the state, whatever the stage of the call.
<1> DEFINE Same == state' = state /\ spread' = spread
                   /\ remainingPeersToUpdate' = remainingPeersToUpdate
<1>5. /\ nested.op # "commit" => Same
      /\ state' \in Counts /\ readState' \in Counts
      /\ {criticalSectionInProgress', remainingPeersToUpdate'} \subseteq BOOLEAN
      /\ spread' = spread
      /\ COMBINE_FN(state, state') = state' /\ VIEW_FN(state) <= VIEW_FN(state')
      /\ ~criticalSectionInProgress' => readState' = ZERO_VALUE
  <2>0. ZERO_VALUE \in Counts /\ COMBINE_FN(state, state) = state
    <3>1. state = [self |-> state.self, peer |-> state.peer]
        BY <1>2 DEF Counts
    <3> QED
        BY <3>1 DEF ZERO_VALUE, Counts, COMBINE_FN, Larger
  <2>1. CASE HandleRead
    <3>1. /\ state' = state /\ readState' = Loaded /\ criticalSectionInProgress' = TRUE
          /\ spread' = spread /\ remainingPeersToUpdate' = remainingPeersToUpdate
        BY <2>1 DEF HandleRead
    <3>2. VIEW_FN(state) <= VIEW_FN(state') /\ COMBINE_FN(state, state') = state'
        BY <2>0, <3>1, <1>2
    <3> QED
        BY <3>1, <3>2, <1>2, <2>0 DEF TypeOK
  <2>2. CASE HandleWrite
    <3>1. nested.value \in Nat /\ Loaded.self \in Nat /\ Loaded.peer \in Nat
          /\ Loaded = [self |-> Loaded.self, peer |-> Loaded.peer]
        BY <1>1, <1>2 DEF Counts
    <3>2. UPDATE_FN(Loaded, nested.value) = [self |-> Loaded.self + nested.value, peer |-> Loaded.peer]
        BY <3>1 DEF UPDATE_FN
    <3>3. UPDATE_FN(Loaded, nested.value) \in Counts
        BY <3>1, <3>2 DEF Counts
    <3> QED
        BY <2>0, <2>2, <3>3, <1>2 DEF HandleWrite, TypeOK
  <2>3. CASE HandleAbort
    <3>1. /\ state' = state /\ readState' = ZERO_VALUE /\ criticalSectionInProgress' = FALSE
          /\ spread' = spread /\ remainingPeersToUpdate' = remainingPeersToUpdate
        BY <2>3 DEF HandleAbort
    <3>2. VIEW_FN(state) <= VIEW_FN(state') /\ COMBINE_FN(state, state') = state'
        BY <2>0, <3>1, <1>2
    <3>3. {criticalSectionInProgress', remainingPeersToUpdate'} \subseteq BOOLEAN
        BY <3>1 DEF TypeOK
    <3>4. readState' \in Counts /\ state' \in Counts
        BY <2>0, <3>1, <1>2
    <3> QED
        BY <3>1, <3>2, <3>3, <3>4
  <2>4. CASE HandlePreCommit
      BY <2>0, <2>4, <1>2 DEF HandlePreCommit, inner, TypeOK, Learnt
  <2>5. CASE HandleCommit
    <3>1. /\ state' = COMBINE_FN(state, readState)
          /\ nested.op = "commit" /\ spread' = spread
          /\ readState' = ZERO_VALUE /\ criticalSectionInProgress' = FALSE
          /\ remainingPeersToUpdate' \in BOOLEAN
        BY <2>5 DEF HandleCommit, TypeOK
    <3>2. /\ state' \in Counts /\ COMBINE_FN(state, state') = state'
          /\ VIEW_FN(state) <= VIEW_FN(state')
        BY <3>1, <1>2, CombineGrows
    <3> QED
        BY <2>0, <3>1, <3>2
  <2>6. CASE UNCHANGED inner
      BY <2>0, <2>6, <1>2 DEF inner, TypeOK, Learnt
  <2> QED
      BY <1>3, <2>1, <2>2, <2>3, <2>4, <2>5, <2>6
<1>6. TypeOK'
  <2>1. {state, readState}' \subseteq Counts
      BY <1>5
  <2>2. {criticalSectionInProgress, remainingPeersToUpdate}' \subseteq BOOLEAN
      BY <1>5
  <2>3. {arg, spread, store, view, seen, seeing}' \subseteq Nat
      BY <1>2, <1>4, <1>5
  <2> QED
      BY <1>1, <1>3, <1>4, <2>1, <2>2, <2>3 DEF TypeOK
<1>7. VIEW_FN(state)' = VIEW_FN(state') /\ VIEW_FN(state') \in Nat
  <2>1. ASSUME NEW a \in Counts PROVE VIEW_FN(a) \in Nat
      BY DEF Counts, VIEW_FN
  <2> QED
      BY <1>5, <2>1 DEF VIEW_FN
<1>8. CASE nested.op = "commit"
  <2>1. HandleCommit /\ op = "commit" /\ Agree /\ r.tpe = "commit"
      BY <1>3, <1>8 DEF Safe, HandleRead, HandleWrite, HandleAbort, HandlePreCommit
  <2>2. /\ state' = COMBINE_FN(state, readState) /\ criticalSectionInProgress' = FALSE
        /\ remainingPeersToUpdate' = (remainingPeersToUpdate \/ state # readState)
      BY <2>1 DEF HandleCommit
  <2>3. readState.self \in Nat /\ readState.self <= Loaded.self
    <3>1. readState.self \in Nat
        BY <1>2 DEF Counts
    <3>2. ZERO_VALUE.self = 0
        BY DEF ZERO_VALUE
    <3> QED
        BY <1>2, <3>1, <3>2 DEF Loaded, Learnt
  <2>4. Loaded.self <= state'.self /\ state'.self = view
    <3>1. CASE criticalSectionInProgress
      <4>1. Loaded = readState
          BY <3>1 DEF Loaded
      <4>2. state.self <= readState.self
          BY <2>1, <4>1 DEF Agree
      <4>3. state'.self = readState.self
          BY <2>2, <4>2, <1>2, CombineGrows
      <4> QED
          BY <2>1, <4>1, <4>3, <1>2 DEF Agree
    <3>2. CASE ~criticalSectionInProgress
      <4>1. Loaded = state
          BY <3>2 DEF Loaded
      <4>2. state'.self = state.self
          BY <2>2, <2>3, <4>1, <1>2, CombineGrows
      <4> QED
          BY <2>1, <4>1, <4>2, <1>2 DEF Agree
    <3> QED
        BY <3>1, <3>2
  <2>5. VIEW_FN(Loaded) <= VIEW_FN(state')
    <3>1. VIEW_FN(readState) <= VIEW_FN(state') /\ VIEW_FN(state) <= VIEW_FN(state')
        BY <2>2, <1>2, CombineGrows
    <3>2. VIEW_FN(Loaded) = VIEW_FN(readState) \/ VIEW_FN(Loaded) = VIEW_FN(state)
        BY DEF Loaded, VIEW_FN
    <3> QED
        BY <3>1, <3>2
  <2>6. Loaded' = state' /\ VIEW_FN(Loaded)' = VIEW_FN(state')
      BY <2>2 DEF Loaded, VIEW_FN
  <2>7. /\ state'.self = view' /\ Loaded'.self = view'
        /\ seeing' <= VIEW_FN(state)' /\ seeing' <= VIEW_FN(Loaded)'
      BY <2>1, <2>4, <2>5, <2>6, <1>2, <1>4, <1>7 DEF Agree
  <2>8. PeerIsTold'
    <3>1. CASE state = readState
      <4>1. state'.self = state.self
          BY <2>2, <3>1, <1>2, CombineGrows
      <4> QED
          BY <2>2, <4>1, <1>5 DEF PeerIsTold, Learnt
    <3>2. CASE state # readState
        BY <2>2, <3>2 DEF PeerIsTold
    <3> QED
        BY <3>1, <3>2
  <2>9. Learnt'
    <3>1. state.self <= state'.self
        BY <2>2, <1>2, CombineGrows
    <3>2. state'.self \in Nat
        BY <1>5 DEF Counts
    <3> QED
        BY <2>8, <3>1, <3>2, <1>2, <1>4, <1>5, <1>7 DEF Learnt
  <2>10. Safe'
      BY <2>1, <2>7, <1>1, <1>4 DEF Safe, CommitsOnce
  <2>11. Progress => Progress'
    <3>1. SUFFICES ASSUME Progress PROVE Progress'
        OBVIOUS
    <3>2. stage \notin {"send", "abortSend", "abortWait", "idle"}
        BY <1>1, <1>8, <3>1 DEF Progress, Quiet, AtMostOneStale, AtAbortWait
    <3>3. stage = "wait" => ~r.stale
        BY <1>1, <1>3, <3>1 DEF Progress, AtWait, Answered
    <3>4. Effect(r)'
        BY <2>1, <2>7, <1>4 DEF Effect
    <3>5. stage = "wait" => Answered'
        BY <2>1, <3>3, <3>4, <1>1, <1>3, <1>4 DEF Answered
    <3> QED
        BY <2>1, <3>2, <3>5, <1>4 DEF Progress, AtWait
  <2> QED
      BY <2>9, <2>10, <2>11, <1>4, <1>5, <1>6
<1>9. CASE nested.op # "commit"
  <2>1. Same
      BY <1>5, <1>9
  <2>2. Learnt'
      BY <2>1, <1>4, <1>5, <1>7 DEF Learnt, PeerIsTold
  <2>3. Safe'
      BY <2>1, <1>1, <1>4 DEF Safe, CommitsOnce
  <2>4. Progress => Progress'
    <3>1. SUFFICES ASSUME Progress PROVE Progress'
        OBVIOUS
    <3>2. stage = "idle" => section = "mustAbort"
        BY <1>1, <3>1 DEF Progress, Quiet
    <3>3. stage \in {"idle", "abortSend"} => AtMostOneStale' /\ state'.self = store'
        BY <1>1, <1>3, <1>4, <2>1, <3>1, <3>2 DEF Progress, AtMostOneStale, Quiet
    <3>4. stage = "abortSend" => staleAcksReceived' = 0
        BY <1>1, <1>4, <3>1 DEF Progress, Quiet
    <3>5. stage = "abortWait" => AtAbortWait'
      <4>1. SUFFICES ASSUME stage = "abortWait" PROVE AtAbortWait'
          OBVIOUS
      <4>2. state.self = store /\ nested.op = "abort"
          BY <1>1, <3>1, <4>1 DEF Progress, AtAbortWait
      <4>3. HandleAbort /\ r.tpe = "abort"
          BY <1>3, <4>2 DEF HandleRead, HandleWrite, HandlePreCommit, HandleCommit
      <4> QED
          BY <4>2, <4>3, <1>1, <1>3, <1>4, <2>1 DEF AtAbortWait, HandleAbort
    <3>6. stage = "wait" => AtWait'
      <4>1. SUFFICES ASSUME stage = "wait" PROVE AtWait'
          OBVIOUS
      <4>2. nested = [op |-> op, value |-> arg, stale |-> FALSE] /\ Agree /\ op \in Timed
          BY <1>1, <1>9, <3>1, <4>1 DEF Progress, AtWait, Answered
      <4>3. nested.op = op /\ nested.value = arg /\ ~nested.stale
          BY <4>2
      <4>4. CASE r.tpe = "aborted"
          BY <4>2, <4>3, <4>4, <1>1, <1>3, <1>4, <2>1 DEF Agree, AtWait, Answered
      <4>5. CASE r.tpe # "aborted"
        <5>1. /\ HandleRead \/ HandleWrite \/ HandlePreCommit
              /\ r.tpe = op
              /\ op = "read" => r.value = VIEW_FN(Loaded)
            BY <1>3, <4>2, <4>3, <4>5 DEF HandleAbort, HandleCommit
        <5>5. Effect(r)'
          <6>1. CASE HandleRead
            <7>1. op = "read" /\ readState' = Loaded /\ criticalSectionInProgress'
                BY <4>3, <6>1 DEF HandleRead
            <7>2. Loaded' = Loaded
                BY <7>1 DEF Loaded
            <7>3. VIEW_FN(Loaded)' = VIEW_FN(Loaded) /\ VIEW_FN(readState)' = VIEW_FN(Loaded)
                BY <7>1, <7>2 DEF VIEW_FN
            <7> QED
                BY <4>2, <5>1, <7>1, <7>2, <7>3, <1>4, <2>1 DEF Agree, Effect
          <6>2. CASE HandleWrite
            <7>1. op = "write" /\ readState' = UPDATE_FN(Loaded, arg) /\ criticalSectionInProgress'
                BY <4>3, <6>2 DEF HandleWrite
            <7>2. Loaded' = UPDATE_FN(Loaded, arg)
                BY <7>1 DEF Loaded
            <7>3. /\ UPDATE_FN(Loaded, arg).self = Loaded.self + arg
                  /\ VIEW_FN(UPDATE_FN(Loaded, arg)) = VIEW_FN(Loaded) + arg
              <8>1. Loaded = [self |-> Loaded.self, peer |-> Loaded.peer] /\ Loaded.peer \in Nat
                  BY <1>2 DEF Counts
              <8>2. UPDATE_FN(Loaded, arg) = [self |-> Loaded.self + arg, peer |-> Loaded.peer]
                  BY <8>1 DEF UPDATE_FN
              <8> QED
                  BY <8>1, <8>2, <1>2 DEF VIEW_FN
            <7>4. Loaded'.self = Loaded.self + arg /\ VIEW_FN(Loaded)' = VIEW_FN(Loaded) + arg
                BY <7>2, <7>3 DEF VIEW_FN
            <7> QED
                BY <4>2, <7>1, <7>4, <1>2, <1>4, <2>1, <5>1, <1>1, <1>3, <4>3
                DEF Agree, Effect
          <6>3. CASE HandlePreCommit
            <7>1. op = "preCommit" /\ Loaded' = Loaded /\ VIEW_FN(Loaded)' = VIEW_FN(Loaded)
                BY <4>3, <6>3 DEF HandlePreCommit, inner, Loaded, VIEW_FN
            <7> QED
                BY <4>2, <7>1, <1>4, <2>1 DEF Agree, Effect
          <6> QED
              BY <5>1, <6>1, <6>2, <6>3
        <5> QED
            BY <4>2, <4>3, <5>1, <5>5, <1>1, <1>3, <1>4 DEF AtWait, Answered
      <4> QED
          BY <4>4, <4>5
    <3>7. stage # "send"
        BY <1>1, <3>1 DEF Progress, Quiet
    <3> QED
        BY <3>2, <3>3, <3>4, <3>5, <3>6, <3>7, <1>4 DEF Progress
  <2> QED
      BY <2>2, <2>3, <2>4, <1>4, <1>5, <1>6
<1> QED
    BY <1>8, <1>9

LEMMA NextIInv == IInv /\ [Next]_vars => IInv' /\ COMBINE_FN(state, state') = state'
<1> SUFFICES ASSUME IInv, [Next]_vars PROVE IInv' /\ COMBINE_FN(state, state') = state'
    OBVIOUS
<1>1. COMBINE_FN(state, state) = state
  <2>1. state = [self |-> state.self, peer |-> state.peer] /\ state.self \in Nat /\ state.peer \in Nat
      BY DEF IInv, TypeOK, Counts
  <2> QED
      BY <2>1 DEF COMBINE_FN, Larger
<1>2. CASE NestedMerges
    BY <1>2, MergesIInv
<1>3. CASE NestedSpreads
    BY <1>1, <1>3, SpreadsIInv
<1>4. CASE NestedAnswers
    BY <1>4, AnswersIInv
<1>5. CASE \/ \E o \in Op, v \in Value \union {0} : Call(o, v)
           \/ Abort \/ ResourceStep \/ NestedStops \/ UNCHANGED vars
  <2>1. state' = state
      BY <1>5 DEF Call, Abort, ResourceStep, Send, Timeout, Receive, SeeStopped, AbortSends,
         AbortDiscards, AbortReceives, NestedStops, vars, inner
  <2> QED
      BY <1>1, <1>5, <2>1, OuterIInv
<1> QED
    BY <1>2, <1>3, <1>4, <1>5 DEF Next, Terminated

LEMMA AlwaysIInv == Spec => []IInv
BY InitIInv, NextIInv, PTL DEF Spec

-----------------------------------------------------------------------------
(* The properties *)

\* However the calls before it ended, no call of a section finds a response of another
\* one buffered or under way: the assumption that assertSanity checks.
THEOREM SanityHolds == Spec => []ChannelsAreDrained
<1>1. IInv => ChannelsAreDrained
    BY DEF IInv, Progress, Quiet, ChannelsAreDrained
<1> QED
    BY <1>1, AlwaysIInv, PTL

\* ReadValue, WriteValue, PreCommit and Commit take the response to their own request,
\* whatever timed out before.
THEOREM AnswersAreOwn == Spec => []OwnAnswers
<1>1. ASSUME IInv PROVE OwnAnswers
  <2> SUFFICES ASSUME stage = "wait", receiveCh # <<>>, panic = "none"
               PROVE  ~Head(receiveCh).stale /\ Head(receiveCh).tpe \in {op, "aborted"}
      BY DEF OwnAnswers
  <2>1. PICK r \in Response : receiveCh = <<r>> /\ ~r.stale /\ r.tpe \in {op, "aborted"}
      BY <1>1 DEF IInv, Progress, AtWait, Answered
  <2> QED
      BY <2>1
<1> QED
    BY <1>1, AlwaysIInv, PTL

\* ACRDTResource has counted what the outer sections did, for any values and with any
\* timeouts, refusals, stops and states of the peer, also when a panic follows.
THEOREM NestedAgreement == Spec => []NestedAgrees
<1>1. IInv => NestedAgrees
    BY DEF IInv, Safe, Progress, Agree, NestedAgrees
<1> QED
    BY <1>1, AlwaysIInv, PTL

\* A commit takes effect once or not at all and an abort never does, also if the program
\* ends in the middle of a call.
THEOREM CommitsTakeEffectOnce == Spec => []CommitsOnce
<1>1. IInv => CommitsOnce
    BY DEF IInv, Safe
<1> QED
    BY <1>1, AlwaysIInv, PTL

\* No section reads less than it, or one that committed before it, has read.
THEOREM ReadsNeverShrink == Spec => []ReadsGrow
<1>1. ASSUME IInv PROVE ReadsGrow
  <2> SUFFICES ASSUME stage = "wait", op = "read", receiveCh # <<>>, Head(receiveCh).tpe = "read"
               PROVE  Head(receiveCh).value >= seeing
      BY DEF ReadsGrow
  <2>1. panic = "none" /\ AtWait
      BY <1>1 DEF IInv, Safe, Progress
  <2>2. PICK r \in Response : /\ receiveCh = <<r>>
                              /\ r.tpe = op => Effect(r)
      BY <2>1 DEF AtWait, Answered
  <2>3. Agree /\ criticalSectionInProgress /\ Head(receiveCh).value = VIEW_FN(readState)
      BY <2>2 DEF Effect
  <2>4. VIEW_FN(Loaded) = VIEW_FN(readState) /\ VIEW_FN(Loaded) \in Nat /\ seeing \in Nat
      BY <1>1, <2>3, LoadedType DEF IInv, Loaded
  <2> QED
      BY <2>3, <2>4 DEF Agree
<1> QED
    BY <1>1, AlwaysIInv, PTL

\* What has been committed has been sent to the peer, or is still to be.
THEOREM PeerIsOwed == Spec => []PeerIsTold
<1>1. IInv => PeerIsTold
    BY DEF IInv, Learnt
<1> QED
    BY <1>1, AlwaysIInv, PTL

\* Neither a commit nor a merge forgets what the other has added to the state.
THEOREM StateNeverShrinks == Spec => StateGrows
<1>1. IInv /\ [Next]_vars => [COMBINE_FN(state, state') = state']_vars
    BY NextIInv
<1> QED
    BY <1>1, AlwaysIInv, PTL DEF Spec, StateGrows

\* Abort never panics because of a second stale response.
THEOREM AtMostOneStaleAck == Spec => []OneStaleAck
<1>1. IInv => OneStaleAck
    BY DEF IInv, OneStaleAck
<1> QED
    BY <1>1, AlwaysIInv, PTL
=============================================================================
