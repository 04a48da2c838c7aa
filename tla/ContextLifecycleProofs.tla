----------------------- MODULE ContextLifecycleProofs -----------------------
(***************************************************************************)
(* Proofs about ContextLifecycle for any number of contexts, nested in any *)
(* way, and any number of concurrent Stops.  What is assumed is that the   *)
(* program runs each context at most once (OneRun), which Run is meant to  *)
(* enforce and does not.                                                   *)
(***************************************************************************)
EXTENDS ContextLifecycle, TLAPS

OneRun == \A r, q \in Runner : ContextOf[r] = ContextOf[q] => r = q

\* requestExit exists exactly while somebody runs the context, nobody was told
\* then that the context has ended, and awaitExit is closed only by a Stop that
\* keeps every later Run out or by a Run that ended.
RunInv(r) ==
    Running(r) =>
        /\ requestExit[ContextOf[r]] # "nil"
        /\ ~exitRequested[ContextOf[r]]
        /\ ~awaitClosed[ContextOf[r]]

ContextInv(c) ==
    /\ requestExit[c] # "nil" => \E r \in Runner : ContextOf[r] = c /\ Running(r)
    /\ exitRequested[c] => awaitClosed[c]
    /\ awaitClosed[c] => exitRequested[c] \/ \E r \in Runner : ContextOf[r] = c /\ runPC[r] = "returned"

StopInv(s) == stopPC[s] = "returned" => awaitClosed[ContextOf[s]]

IInv ==
    /\ TypeOK
    /\ NoPanic
    /\ \A r \in Runner : RunInv(r)
    /\ \A c \in Context : ContextInv(c)
    /\ \A s \in Stopper : StopInv(s)

\* The invariant holds at first ...
LEMMA InitInv == Init => IInv
  BY GoroutinesAssumption, ContextOfAssumption
  DEF Init, IInv, TypeOK, NoPanic, RunInv, ContextInv, StopInv, Running,
      RunState, StopState, ExitChannel, Panic

\* ... and every step of Run and of Stop preserves it.
LEMMA NextInv == OneRun /\ IInv /\ [Next]_vars => IInv'
<1> SUFFICES ASSUME OneRun, IInv, [Next]_vars PROVE IInv'
  OBVIOUS
<1> USE GoroutinesAssumption, ContextOfAssumption
<1> USE DEF IInv, TypeOK, NoPanic, RunInv, ContextInv, StopInv, Running,
      RunState, StopState, ExitChannel, Panic, Unlocked
<1>1. ASSUME NEW r \in Runner, RunBegin(r) PROVE IInv'
  <2>1. requestExit[ContextOf[r]] = "nil" /\ runPC[r] = "idle"
    <3>1. runPC[r] = "idle"
      BY <1>1 DEF RunBegin, RunGoes
    <3>2. ASSUME requestExit[ContextOf[r]] # "nil" PROVE FALSE
      <4>1. PICK q \in Runner : ContextOf[q] = ContextOf[r] /\ Running(q)
        BY <3>2
      <4>2. q = r
        BY <4>1 DEF OneRun
      <4> QED
        BY <3>1, <4>1, <4>2
    <3> QED
      BY <3>1, <3>2
  <2>2. CASE exitRequested[ContextOf[r]]
    BY <1>1, <2>1, <2>2 DEF RunBegin, RunGoes
  <2>3. CASE ~exitRequested[ContextOf[r]]
    <3>1. ~awaitClosed[ContextOf[r]]
      <4>1. ASSUME awaitClosed[ContextOf[r]] PROVE FALSE
        <5>1. PICK q \in Runner : ContextOf[q] = ContextOf[r] /\ runPC[q] = "returned"
          BY <2>3, <4>1
        <5>2. q = r
          BY <5>1 DEF OneRun
        <5> QED
          BY <2>1, <5>1, <5>2
      <4> QED
        BY <4>1
    <3>2. TypeOK' /\ NoPanic'
      <4>1. /\ runPC' = [runPC EXCEPT ![r] = "polling"]
            /\ requestExit' = [requestExit EXCEPT ![ContextOf[r]] = "empty"]
            /\ UNCHANGED <<stopPC, lockedBy, exitRequested, awaitClosed, panicked>>
        BY <1>1, <2>1, <2>3 DEF RunBegin, RunGoes
      <4> QED
        BY <4>1
    <3>3. \A q \in Runner : RunInv(q)'
      BY <1>1, <2>1, <2>3, <3>1 DEF RunBegin, RunGoes, OneRun
    <3>4. \A c \in Context : ContextInv(c)'
      BY <1>1, <2>1, <2>3, <3>1 DEF RunBegin, RunGoes
    <3>5. \A s \in Stopper : StopInv(s)'
      BY <1>1, <2>1, <2>3 DEF RunBegin, RunGoes
    <3> QED
      BY <3>2, <3>3, <3>4, <3>5
  <2> QED
    BY <2>2, <2>3
<1>2. ASSUME NEW r \in Runner, RunPoll(r) PROVE IInv'
  BY <1>2 DEF RunPoll, RunGoes
<1>3. ASSUME NEW r \in Runner, RunSection(r) PROVE IInv'
  BY <1>3 DEF RunSection, RunGoes, context
<1>4. ASSUME NEW r \in Runner, RunCleanup(r) PROVE IInv'
  BY <1>4 DEF RunCleanup, RunGoes, context
<1>5. ASSUME NEW r \in Runner, RunClosed(r) PROVE IInv'
  BY <1>5 DEF RunClosed, RunGoes, context
<1>6. ASSUME NEW r \in Runner, RunNotify(r) PROVE IInv'
  <2> DEFINE c == ContextOf[r]
  <2>1. runPC[r] = "notify"
    BY <1>6 DEF RunNotify, RunGoes
  <2>2. c \in Context /\ ~awaitClosed[c]
    BY <2>1
  <2>3. /\ runPC' = [runPC EXCEPT ![r] = "returned"]
        /\ awaitClosed' = [awaitClosed EXCEPT ![c] = TRUE]
        /\ requestExit' = [requestExit EXCEPT ![c] = "nil"]
        /\ UNCHANGED <<stopPC, lockedBy, exitRequested, panicked>>
    BY <1>6, <2>2, Zenon DEF RunNotify, RunGoes
  <2> HIDE DEF c
  <2>4. TypeOK' /\ NoPanic'
    BY <2>2, <2>3
  <2>5. \A q \in Runner : RunInv(q)'
    <3>1. \A q \in Runner : q # r => ContextOf[q] # c
      BY DEF OneRun, c
    <3> QED
      BY <2>2, <2>3, <3>1
  <2>6. \A d \in Context : ContextInv(d)'
    <3>1. ContextOf[r] = c
      BY DEF c
    <3> QED
      BY <2>1, <2>2, <2>3, <3>1
  <2>7. \A s \in Stopper : StopInv(s)'
    BY <2>2, <2>3
  <2> QED
    BY <2>4, <2>5, <2>6, <2>7
<1>7. ASSUME NEW s \in Stopper, StopRunning(s) PROVE IInv'
  BY <1>7 DEF StopRunning, StopGoes
<1>8. ASSUME NEW s \in Stopper, StopSend(s) PROVE IInv'
  BY <1>8 DEF StopSend, StopGoes
<1>9. ASSUME NEW s \in Stopper, StopNotRunning(s) PROVE IInv'
  <2> DEFINE c == ContextOf[s]
  <2>1. /\ c \in Context /\ requestExit[c] = "nil"
        /\ stopPC[s] = "idle" /\ stopPC' = [stopPC EXCEPT ![s] = "awaiting"]
        /\ exitRequested' = [exitRequested EXCEPT ![c] = TRUE]
        /\ UNCHANGED <<runPC, lockedBy, requestExit, panicked>>
    BY <1>9 DEF StopNotRunning, StopGoes
  <2>2. awaitClosed' = [awaitClosed EXCEPT ![c] = TRUE]
    BY <1>9, <2>1 DEF StopNotRunning
  <2>3. \A r \in Runner : Running(r) => ContextOf[r] # c
    BY <2>1
  <2> HIDE DEF c
  <2>4. TypeOK' /\ NoPanic'
    BY <2>1, <2>2
  <2>5. \A r \in Runner : RunInv(r)'
    BY <2>1, <2>2, <2>3
  <2>6. \A d \in Context : ContextInv(d)'
    BY <2>1, <2>2
  <2>7. \A t \in Stopper : StopInv(t)'
    BY <2>1, <2>2
  <2> QED
    BY <2>4, <2>5, <2>6, <2>7
<1>10. ASSUME NEW s \in Stopper, StopReturn(s) PROVE IInv'
  BY <1>10 DEF StopReturn, StopGoes, context
<1>11. CASE UNCHANGED vars
  BY <1>11 DEF vars, context
<1> QED
  BY <1>1, <1>2, <1>3, <1>4, <1>5, <1>6, <1>7, <1>8, <1>9, <1>10, <1>11
  DEF Next, Run, Stop, Terminated

\* If no context is run twice, then a Stop that returned leaves an archetype
\* that is not running and never will be.
THEOREM StopFinality == ASSUME OneRun PROVE Spec => []StopIsFinal
<1>1. IInv => StopIsFinal
  BY DEF IInv, StopIsFinal, RunInv, StopInv, Running
<1>2. IInv /\ [Next]_vars => IInv'
  BY NextInv
<1> QED
  BY InitInv, <1>1, <1>2, PTL DEF Spec

\* If no context is run twice, no Run finds requestExit made by another and
\* awaitExit is closed only once: neither check ends the process.
THEOREM PanicFreedom == ASSUME OneRun PROVE Spec => []NoPanic
<1>1. IInv => NoPanic
  BY DEF IInv
<1>2. IInv /\ [Next]_vars => IInv'
  BY NextInv
<1> QED
  BY InitInv, <1>1, <1>2, PTL DEF Spec

\* Type correctness.
THEOREM LifecycleTypes == ASSUME OneRun PROVE Spec => []TypeOK
<1>1. IInv => TypeOK
  BY DEF IInv
<1>2. IInv /\ [Next]_vars => IInv'
  BY NextInv
<1> QED
  BY InitInv, <1>1, <1>2, PTL DEF Spec
=============================================================================
