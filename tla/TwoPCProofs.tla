---------------------------- MODULE TwoPCProofs ----------------------------
(***************************************************************************)
(* TLAPS proofs about TwoPC, for any set of nodes, any values and any      *)
(* environment (which links deliver, lose or delay requests, how often a   *)
(* node proposes).                                                         *)
(***************************************************************************)
EXTENDS TwoPC, FiniteSetTheorems, TLAPS

(* What the archetype's operation at n relies on between two of its steps. *)
OpInv(n) ==
    /\ op[n] = "Commit" =>
         IF step[n] \in {"vote", "orig"}
         THEN \/ criticalSectionState[n] = "hasPreCommitted"
              \/ value[n] = oldValue[n]
         ELSE /\ local[n].orig <= version[n]
              /\ version[n] # local[n].orig => value[n] = oldValue[n]
    /\ op[n] = "Abort" => value[n] = oldValue[n]
    /\ op[n] = "PreCommit" /\ step[n] = "awaitVotes" =>
         criticalSectionState[n] \in {"inPreCommit",
                                      "acceptedNewValueInCriticalSection"}

(* The safety invariants at n, strengthened by OpInv.                      *)
NodeInv(n) ==
    /\ criticalSectionState[n] \in {"inPreCommit", "hasPreCommitted"}
           => twoPCState[n] = "initial"
    /\ criticalSectionState[n] = "notInCriticalSection"
           => value[n] = oldValue[n]
    /\ OpInv(n)

IInv == TypeOK /\ \A n \in Node : NodeInv(n)

-----------------------------------------------------------------------------
(* The number of acknowledgements a broadcast waits for is an integer.     *)
LEMMA RequiredType ==
    ASSUME NEW n \in Node
    PROVE  Required(n) \in Int /\ Cardinality(Replicas(n)) \in Nat
<1>1. IsFiniteSet(Replicas(n))
  BY NodeAssumption, FS_Subset DEF Replicas
<1>2. Cardinality(Replicas(n)) \in Nat
  BY <1>1, FS_CardinalityType
<1> QED
  BY <1>2 DEF Required

(* Requests and answers are built with the right type.                     *)
LEMMA MessageTypes ==
    ASSUME TypeOK, NEW n \in Node
    PROVE  /\ \A t \in {"PreCommit", "Commit", "Abort"} :
                  MakeRequest(n, t) \in Request
           /\ MakeReject(n) \in Response
           /\ Accept \in Response
           /\ NoLocal(n) \in Local
  BY ValueAssumption DEF TypeOK, MakeRequest, MakeReject, Accept, NoLocal,
     ZeroRequest, Request, Response, Local

(* Starting a broadcast gives well-typed counters.                         *)
LEMMA AwaitingType ==
    ASSUME TypeOK, NEW n \in Node, NEW req \in Request
    PROVE  Awaiting(n, req) \in [Node -> Local]
  BY RequiredType DEF TypeOK, Awaiting, Local

(* Adopting a value keeps the replica's types.                             *)
LEMMA AcceptNewValueType ==
    ASSUME TypeOK, NEW n \in Node, NEW val \in Value, NEW ver \in Nat,
           AcceptNewValue(n, val, ver)
    PROVE  /\ value' \in [Node -> Value]
           /\ oldValue' \in [Node -> Value]
           /\ version' \in [Node -> Nat]
           /\ criticalSectionState' \in [Node -> CriticalSectionState]
           /\ twoPCState' \in [Node -> {"initial", "acceptedPreCommit"}]
           /\ acceptedPreCommit' \in [Node -> Request]
  BY DEF TypeOK, AcceptNewValue, CriticalSectionState

(* An answer keeps the calls well typed.                                   *)
LEMMA AnswerType ==
    ASSUME TypeOK, NEW c \in calls, NEW reply \in Response, Answer(c, reply)
    PROVE  calls' \subseteq Call
  BY DEF TypeOK, Answer, Call

(* The end of a goroutine keeps the sender's thread and tasks well typed.  *)
LEMMA EndTaskType ==
    ASSUME TypeOK, NEW t \in tasks, NEW r \in BOOLEAN, EndTask(t, r)
    PROVE  /\ tasks' \subseteq Task
           /\ local' \in [Node -> Local]
           /\ op' = op /\ step' = step
<1> DEFINE n == t.req.sender
<1>1. n \in Node
  BY DEF TypeOK, Task, Request
<1>2. local[n] \in Local
  BY <1>1 DEF TypeOK
<1>3. [orig |-> local[n].orig, req |-> local[n].req,
       required |-> IF r THEN local[n].required - 1 ELSE local[n].required,
       remaining |-> local[n].remaining - 1] \in Local
  BY <1>2 DEF Local
<1> QED
  BY <1>1, <1>3 DEF TypeOK, EndTask

(* A received request keeps the replica and the calls well typed.          *)
LEMMA ReceiveInternalType ==
    ASSUME TypeOK, NEW c \in calls, ReceiveInternal(c)
    PROVE  /\ value' \in [Node -> Value]
           /\ oldValue' \in [Node -> Value]
           /\ version' \in [Node -> Nat]
           /\ criticalSectionState' \in [Node -> CriticalSectionState]
           /\ twoPCState' \in [Node -> {"initial", "acceptedPreCommit"}]
           /\ acceptedPreCommit' \in [Node -> Request]
           /\ calls' \subseteq Call
<1> DEFINE n == c.to
<1>1. c.req \in Request /\ n \in Node
  BY DEF TypeOK, Call
<1>2. Accept \in Response /\ MakeReject(n) \in Response
  BY <1>1, MessageTypes
<1>3. CASE Answer(c, MakeReject(n)) /\ UNCHANGED replica
  BY <1>2, <1>3, AnswerType DEF TypeOK, replica
<1>4. CASE ReceivePreCommit(n, c.req, c)
  <2>1. calls' \subseteq Call
    BY <1>2, <1>4, AnswerType DEF ReceivePreCommit
  <2> QED
    BY <1>1, <1>4, <2>1 DEF TypeOK, ReceivePreCommit, replica
<1>5. CASE ReceiveCommit(n, c.req, c)
  <2>1. calls' \subseteq Call
    BY <1>2, <1>5, AnswerType DEF ReceiveCommit
  <2>2. c.req.value \in Value /\ c.req.version \in Nat
    BY <1>1 DEF Request
  <2> QED
    BY <1>1, <1>5, <2>1, <2>2, AcceptNewValueType DEF ReceiveCommit
<1>6. CASE ReceiveAbort(n, c.req, c)
  <2>1. calls' \subseteq Call
    BY <1>2, <1>6, AnswerType DEF ReceiveAbort
  <2> QED
    BY <1>1, <1>6, <2>1 DEF TypeOK, ReceiveAbort
<1> QED
  BY <1>3, <1>4, <1>5, <1>6 DEF ReceiveInternal

(* So does a response that carries a newer value.                          *)
LEMMA AdoptNewerType ==
    ASSUME TypeOK, NEW n \in Node, NEW reply \in Response, AdoptNewer(n, reply)
    PROVE  /\ value' \in [Node -> Value]
           /\ oldValue' \in [Node -> Value]
           /\ version' \in [Node -> Nat]
           /\ criticalSectionState' \in [Node -> CriticalSectionState]
           /\ twoPCState' \in [Node -> {"initial", "acceptedPreCommit"}]
           /\ acceptedPreCommit' \in [Node -> Request]
<1>1. reply.version \in Nat /\ reply.value \in Value
  BY DEF Response
<1> QED
  BY <1>1, AcceptNewValueType DEF AdoptNewer, replica, TypeOK

(* Going to another step, and returning, keep the thread well typed.       *)
LEMMA GotoType ==
    ASSUME TypeOK, NEW n \in Node, NEW o \in Op, NEW s \in Step, Goto(n, o, s)
    PROVE  op' \in [Node -> Op] /\ step' \in [Node -> Step]
  BY DEF TypeOK, Goto

LEMMA ReturnType ==
    ASSUME TypeOK, NEW n \in Node,
           NEW s \in {"ready", "succeeded", "failed"}, Return(n, s)
    PROVE  /\ op' \in [Node -> Op] /\ step' \in [Node -> Step]
           /\ local' \in [Node -> Local]
<1>1. "none" \in Op /\ s \in Step
  BY DEF Op, Step
<1>2. NoLocal(n) \in Local
  BY MessageTypes
<1> QED
  BY <1>1, <1>2, GotoType DEF Return, TypeOK

(* Every step of an archetype keeps the types.                             *)
LEMMA ArchetypeStepType ==
    ASSUME TypeOK, NEW n \in Node, ArchetypeStep(n)
    PROVE  TypeOK'
<1> USE DEF TypeOK, SetCS, thread, replica
<1>r. \A s \in {"ready", "succeeded", "failed"} : Return(n, s) =>
          /\ op' \in [Node -> Op] /\ step' \in [Node -> Step]
          /\ local' \in [Node -> Local]
  BY ReturnType
<1>g. \A o \in Op, s \in Step : Goto(n, o, s) =>
          op' \in [Node -> Op] /\ step' \in [Node -> Step]
  BY GotoType
<1>0. /\ MakeRequest(n, "PreCommit") \in Request
      /\ MakeRequest(n, "Abort") \in Request
      /\ MakeRequest(n, "Commit") \in Request
      /\ NoLocal(n) \in Local
  BY MessageTypes
<1>1. CASE ReadValue(n)
  <2>1. CASE CriticalSectionPermanentlyFailed(n)
    BY <1>r, <1>1, <2>1 DEF ReadValue
  <2>2. CASE ~CriticalSectionPermanentlyFailed(n)
    BY <1>1, <2>2 DEF ReadValue, Enter, CriticalSectionState
  <2> QED
    BY <2>1, <2>2
<1>2. CASE \E v \in Value : WriteValue(n, v)
  <2>0. PICK v \in Value : WriteValue(n, v)
    BY <1>2
  <2>1. CASE CriticalSectionPermanentlyFailed(n)
    BY <1>r, <2>0, <2>1 DEF WriteValue
  <2>2. CASE ~CriticalSectionPermanentlyFailed(n)
    BY <2>0, <2>2 DEF WriteValue, Enter, CriticalSectionState
  <2> QED
    BY <2>1, <2>2
<1>3. CASE PreCommit(n)
  BY <1>g, <1>3, ZenonT(60) DEF PreCommit, Local, Op, Step
<1>4. CASE CheckPreCommitInterrupted(n)
  BY <1>0, <1>r, <1>g, <1>4 DEF CheckPreCommitInterrupted, Op, Step
<1>5. CASE DoPreCommit(n)
  <2>1. CASE ShouldAbortPreCommit(n)
    BY <1>0, <1>r, <1>g, <1>5, <2>1 DEF DoPreCommit, ShouldAbortPreCommit,
      CriticalSectionPermanentlyFailed, Op, Step
  <2>2. CASE ~ShouldAbortPreCommit(n)
    <3> DEFINE req == MakeRequest(n, "PreCommit")
    <3>1. req \in Request /\ Awaiting(n, req) \in [Node -> Local]
      BY <1>0, AwaitingType
    <3>2. req.time \in Nat
      BY <3>1 DEF Request
    <3>3. \A r \in Replicas(n) :
             /\ NewTask(req, r, version[n], "sending") \in Task
             /\ NewCall(req, r, 1) \in Call
      BY <3>1, MessageTypes DEF NewTask, NewCall, Task, Call, Replicas
    <3> HIDE DEF req
    <3>4. /\ tasks' = tasks \cup {NewTask(req, r, version[n], "sending")
                                    : r \in Replicas(n)}
          /\ calls' = calls \cup {NewCall(req, r, 1) : r \in Replicas(n)}
          /\ local' = Awaiting(n, req)
          /\ clock' = [clock EXCEPT ![n] = req.time]
      BY <1>5, <2>2 DEF DoPreCommit, req
    <3>5. tasks' \subseteq Task /\ calls' \subseteq Call
      BY <3>3, <3>4
    <3> QED
      BY <1>g, <1>5, <2>2, <3>1, <3>2, <3>4, <3>5
      DEF DoPreCommit, CriticalSectionState, Op, Step
  <2> QED
    BY <2>1, <2>2
<1>6. CASE PreCommitComplete(n)
  BY <1>0, <1>r, <1>g, <1>6 DEF PreCommitComplete, PanicAt, CriticalSectionState, Op,
                    Step, Panic
<1>8. CASE Rollback(n)
  <2>1. MakeRequest(n, "Abort") \in Request
    BY <1>0
  <2>2. [local EXCEPT ![n].req = MakeRequest(n, "Abort")] \in [Node -> Local]
    BY <2>1 DEF Local
  <2>3. /\ local' \in [Node -> Local]
        /\ op' = [op EXCEPT ![n] = op[n]]
        /\ step' = [step EXCEPT ![n] = "send"]
        /\ clock' = [clock EXCEPT ![n] = @ + 1]
        /\ UNCHANGED <<replica, senderTimes, tasks, calls, panicked>>
    BY <1>8, <2>2 DEF Rollback, Goto
  <2>4. op' \in [Node -> Op] /\ step' \in [Node -> Step]
    BY <2>3 DEF Step
  <2>5. clock' \in [Node -> Nat]
    BY <2>3
  <2> QED
    BY <2>3, <2>4, <2>5
<1>9. CASE BroadcastAbortOrCommit(n)
  <2>1. local[n].req \in Request
    BY DEF Local
  <2>2. Awaiting(n, local[n].req) \in [Node -> Local]
    BY <2>1, AwaitingType
  <2>3. \A r \in Replicas(n) :
           NewTask(local[n].req, r, version[n], "retry?") \in Task
    BY <2>1 DEF NewTask, Task, Replicas
  <2>4. tasks' \subseteq Task
    BY <1>9, <2>3 DEF BroadcastAbortOrCommit
  <2> QED
    BY <1>g, <1>9, <2>2, <2>4 DEF BroadcastAbortOrCommit, Op, Step
<1>10. CASE PreCommitFail(n)
  BY <1>0, <1>r, <1>g, <1>10 DEF PreCommitFail, CriticalSectionState, Op, Step
<1>11. CASE Abort(n)
  <2>1. value' \in [Node -> Value]
    BY <1>11 DEF Abort
  <2>2. CASE criticalSectionState[n] = "hasPreCommitted"
    BY <1>g, <1>11, <2>1, <2>2 DEF Abort, Op, Step
  <2>3. CASE criticalSectionState[n] # "hasPreCommitted"
    BY <1>r, <1>11, <2>1, <2>3 DEF Abort, CriticalSectionState
  <2> QED
    BY <2>2, <2>3
<1>12. CASE FinishAbort(n)
  BY <1>r, <1>12 DEF FinishAbort, CriticalSectionState
<1>13. CASE Commit(n) \/ CommitVote(n)
  BY <1>g, <1>13 DEF Commit, CommitVote, CommitAssert, PanicAt, Panic, Op, Step
<1>14. CASE CommitVersion(n) \/ MakeCommit(n) \/ MakeCommitVersion(n)
  <2>1. [local EXCEPT ![n].orig = version[n]] \in [Node -> Local]
    BY DEF Local
  <2>2. [ZeroRequest(n) EXCEPT !.type = "Commit", !.value = value[n]] \in Request
    BY ValueAssumption DEF ZeroRequest, Request
  <2>3. [local EXCEPT ![n].req = [ZeroRequest(n) EXCEPT !.type = "Commit",
                                    !.value = value[n]]] \in [Node -> Local]
    BY <2>2 DEF Local
  <2> DEFINE req == [local[n].req EXCEPT !.version = version[n] + 1,
                                         !.time = clock[n] + 1]
  <2>4. local[n] \in Local /\ local[n].req \in Request
    BY DEF Local
  <2>5. req \in Request
    <3>1. version[n] + 1 \in Nat /\ clock[n] + 1 \in Nat
      OBVIOUS
    <3> QED
      BY <2>4, <3>1 DEF Request
  <2>6. [local EXCEPT ![n].req = req] \in [Node -> Local]
    BY <2>4, <2>5 DEF Local
  <2>7. CASE CommitVersion(n)
    BY <1>g, <2>1, <2>7 DEF CommitVersion, Op, Step
  <2>8. CASE MakeCommit(n)
    BY <1>g, <2>3, <2>8 DEF MakeCommit, Op, Step
  <2>9. CASE MakeCommitVersion(n)
    <3>1. /\ local' \in [Node -> Local]
          /\ op' = [op EXCEPT ![n] = "Commit"]
          /\ step' = [step EXCEPT ![n] = "send"]
          /\ clock' = [clock EXCEPT ![n] = @ + 1]
          /\ UNCHANGED <<replica, senderTimes, tasks, calls, panicked>>
      BY <2>6, <2>9 DEF MakeCommitVersion, Goto
    <3>2. op' \in [Node -> Op] /\ step' \in [Node -> Step]
      BY <3>1 DEF Op, Step
    <3>3. clock' \in [Node -> Nat]
      BY <3>1
    <3>4. /\ local' \in [Node -> Local]
          /\ UNCHANGED <<replica, senderTimes, tasks, calls, panicked>>
      BY <3>1
    <3> QED
      BY <3>2, <3>3, <3>4
  <2> QED
    BY <1>14, <2>7, <2>8, <2>9
<1>15. CASE FinishCommit(n)
  <2>1. criticalSectionState' \in [Node -> CriticalSectionState]
    BY <1>15 DEF FinishCommit, CriticalSectionState
  <2>2. oldValue' \in [Node -> Value] /\ version' \in [Node -> Nat]
    <3>1. CASE version[n] = local[n].orig
      BY <1>15, <3>1 DEF FinishCommit
    <3>2. CASE version[n] # local[n].orig
      BY <1>15, <3>2 DEF FinishCommit
    <3> QED
      BY <3>1, <3>2
  <2> QED
    BY <1>r, <1>15, <2>1, <2>2 DEF FinishCommit
<1>16. CASE Close(n)
  BY <1>g, <1>16 DEF Close, PanicAt, Panic, Op, Step
<1>17. CASE CloseComplete(n)
  BY <1>g, <1>17 DEF CloseComplete, Op, Step
<1> QED
  BY <1>1, <1>2, <1>3, <1>4, <1>5, <1>6, <1>8, <1>9, <1>10, <1>11, <1>12,
     <1>13, <1>14, <1>15, <1>16, <1>17 DEF ArchetypeStep

(* So does every step of a goroutine or of an RPC handler.                 *)
LEMMA MessageStepType ==
    ASSUME TypeOK
    PROVE  /\ \A t \in tasks : SendAbortOrCommit(t) \/ SendError(t) => TypeOK'
           /\ \A t \in tasks, c \in calls : SendReturns(t, c) => TypeOK'
           /\ \A c \in calls : ReceiveCheck(c) \/ ReceiveChecked(c) => TypeOK'
<1>1. ASSUME NEW t \in tasks, SendAbortOrCommit(t) PROVE TypeOK'
  <2>1. t \in Task /\ t.req \in Request /\ t.to \in Node /\ t.attempt \in Nat
    BY DEF TypeOK, Task
  <2>2. NewCall(t.req, t.to, t.attempt) \in Call
    BY <2>1, MessageTypes DEF NewCall, Call, Request
  <2>3. [t EXCEPT !.at = "sending"] \in Task
    BY <2>1 DEF Task
  <2>4. CASE version[t.req.sender] = t.orig
    BY <1>1, <2>2, <2>3, <2>4 DEF SendAbortOrCommit, TypeOK, replica, thread
  <2>5. CASE version[t.req.sender] # t.orig
    <3>1. EndTask(t, TRUE) /\ UNCHANGED calls
      BY <1>1, <2>5 DEF SendAbortOrCommit
    <3>2. /\ tasks' \subseteq Task /\ local' \in [Node -> Local]
          /\ op' = op /\ step' = step
      BY <3>1, EndTaskType
    <3> QED
      BY <1>1, <3>1, <3>2 DEF SendAbortOrCommit, TypeOK, replica
  <2> QED
    BY <2>4, <2>5
<1>2. ASSUME NEW t \in tasks, SendError(t) PROVE TypeOK'
  <2>1. t \in Task
    BY DEF TypeOK
  <2>2. calls' \subseteq Call
    BY <1>2 DEF SendError, TypeOK
  <2>3. CASE t.req.type = "PreCommit"
    <3>1. EndTask(t, FALSE)
      BY <1>2, <2>3 DEF SendError
    <3>2. /\ tasks' \subseteq Task /\ local' \in [Node -> Local]
          /\ op' = op /\ step' = step
      BY <3>1, EndTaskType
    <3> QED
      BY <1>2, <2>2, <3>2 DEF SendError, TypeOK, replica
  <2>4. CASE t.req.type # "PreCommit"
    <3>1. [t EXCEPT !.at = "retry?",
                    !.attempt = IF @ < MaxAttempts THEN @ + 1 ELSE @] \in Task
      <4>1. t.attempt \in Nat /\ MaxAttempts \in Nat
        BY <2>1, BoundAssumption DEF Task
      <4>2. (IF t.attempt < MaxAttempts THEN t.attempt + 1 ELSE t.attempt) \in Nat
        BY <4>1
      <4> QED
        BY <2>1, <4>2 DEF Task
    <3> QED
      BY <1>2, <2>2, <2>4, <3>1 DEF SendError, TypeOK, replica, thread
  <2> QED
    BY <2>3, <2>4
<1>3. ASSUME NEW t \in tasks, NEW c \in calls, SendReturns(t, c) PROVE TypeOK'
  <2> DEFINE n == t.req.sender
  <2>1. n \in Node /\ c.reply \in Response /\ c.reply.accept \in BOOLEAN
    BY DEF TypeOK, Task, Request, Call, Response
  <2>2. calls' \subseteq Call
    BY <1>3 DEF SendReturns, TypeOK
  <2>3. UNCHANGED <<senderTimes, clock>>
    BY <1>3 DEF SendReturns
  <2>4. ASSUME NEW r \in BOOLEAN, EndTask(t, r), UNCHANGED panicked,
               AdoptNewer(n, c.reply) \/ UNCHANGED replica
        PROVE  TypeOK'
    <3>1. /\ tasks' \subseteq Task /\ local' \in [Node -> Local]
          /\ op' = op /\ step' = step
      BY <2>4, EndTaskType
    <3>2. CASE AdoptNewer(n, c.reply)
      BY <2>1, <2>2, <2>3, <2>4, <3>1, <3>2, AdoptNewerType DEF TypeOK
    <3>3. CASE UNCHANGED replica
      BY <2>2, <2>3, <2>4, <3>1, <3>3 DEF TypeOK, replica
    <3> QED
      BY <2>4, <3>2, <3>3
  <2>5. CASE HandlePreCommitResponse(t, c)
    BY <2>1, <2>4, <2>5 DEF HandlePreCommitResponse
  <2>6. CASE HandleAbortOrCommitResponse(t, c)
    <3>1. CASE PanicAt(n, "rejected") /\ UNCHANGED <<replica, thread, tasks>>
      BY <2>1, <2>2, <2>3, <3>1 DEF TypeOK, PanicAt, Panic, replica, thread
    <3>2. CASE ~(PanicAt(n, "rejected") /\ UNCHANGED <<replica, thread, tasks>>)
      BY <2>4, <2>6, <3>2 DEF HandleAbortOrCommitResponse
    <3> QED
      BY <3>1, <3>2
  <2> QED
    BY <1>3, <2>5, <2>6 DEF SendReturns
<1>4. ASSUME NEW c \in calls, SeeTime(c)
      PROVE  senderTimes' \in [Node -> [Node -> Nat]]
  <2>1. c.to \in Node /\ c.req.sender \in Node /\ c.req.time \in Nat
    BY DEF TypeOK, Call, Request
  <2> QED
    BY <1>4, <2>1 DEF TypeOK, SeeTime
<1>5. ASSUME NEW c \in calls, Answer(c, Accept) PROVE calls' \subseteq Call
  <2>1. Accept \in Response
    BY ValueAssumption DEF Accept, Response
  <2> QED
    BY <1>5, <2>1, AnswerType
<1>6. ASSUME NEW c \in calls, ReceiveCheck(c) PROVE TypeOK'
  <2>1. [c EXCEPT !.at = "checked"] \in Call
    BY DEF TypeOK, Call
  <2>2. CASE Stale(c)
    BY <1>5, <1>6, <2>2 DEF ReceiveCheck, TypeOK, replica, thread
  <2>3. CASE ~Stale(c)
    BY <1>4, <1>6, <2>1, <2>3 DEF ReceiveCheck, TypeOK, replica, thread
  <2> QED
    BY <2>2, <2>3
<1>7. ASSUME NEW c \in calls, ReceiveChecked(c) PROVE TypeOK'
  BY <1>7, ReceiveInternalType DEF ReceiveChecked, TypeOK, thread
<1> QED
  BY <1>1, <1>2, <1>3, <1>6, <1>7

(* Type correctness is preserved by every step.                            *)
LEMMA TypeStep == TypeOK /\ [Next]_vars => TypeOK'
<1> SUFFICES ASSUME TypeOK, [Next]_vars PROVE TypeOK'
  OBVIOUS
<1>1. CASE UNCHANGED vars
  BY <1>1 DEF vars, replica, thread, TypeOK
<1>2. CASE Next
  <2>1. CASE Terminated
    BY <2>1 DEF Terminated, vars, replica, thread, TypeOK
  <2> QED
    BY <1>2, <2>1, ArchetypeStepType, MessageStepType DEF Next
<1> QED
  BY <1>1, <1>2

(* The replicas are created with well-typed fields.                        *)
LEMMA TypeInit == Init => TypeOK
  BY ValueAssumption DEF Init, TypeOK, ZeroRequest, NoLocal, Request, Local,
     Op, Step, Panic, CriticalSectionState

(* Every variable of TwoPC keeps its type, for every environment.          *)
THEOREM TypeCorrect == Spec => []TypeOK
<1> QED
  BY TypeInit, TypeStep, PTL DEF Spec

-----------------------------------------------------------------------------
(* The safety invariants.                                                  *)

(* What OpInv and the invariants see of a node does not change.            *)
Untouched(m) ==
    /\ value'[m] = value[m] /\ oldValue'[m] = oldValue[m]
    /\ version'[m] = version[m]
    /\ criticalSectionState'[m] = criticalSectionState[m]
    /\ twoPCState'[m] = twoPCState[m]
    /\ acceptedPreCommit'[m] = acceptedPreCommit[m]
    /\ op'[m] = op[m] /\ step'[m] = step[m]
    /\ local'[m].orig = local[m].orig

(* A step that leaves a node alone leaves its invariant alone.             *)
LEMMA UntouchedInv ==
    ASSUME NEW m \in Node, NodeInv(m), Untouched(m)
    PROVE  NodeInv(m)'
  BY DEF NodeInv, OpInv, Untouched

(* A replica may adopt a newer value at any point of its operation.        *)
LEMMA AcceptNewValueInv ==
    ASSUME IInv, NEW n \in Node, NEW val \in Value, NEW ver \in Nat,
           ver > version[n], AcceptNewValue(n, val, ver),
           op'[n] = op[n], step'[n] = step[n],
           local'[n].orig = local[n].orig
    PROVE  NodeInv(n)'
<1>1. /\ version'[n] = ver /\ value'[n] = val /\ oldValue'[n] = val
      /\ acceptedPreCommit'[n] = acceptedPreCommit[n]
  BY DEF IInv, TypeOK, AcceptNewValue
<1>2. criticalSectionState'[n] = IF criticalSectionState[n] # "notInCriticalSection"
                                 THEN "acceptedNewValueInCriticalSection"
                                 ELSE "notInCriticalSection"
  BY DEF IInv, TypeOK, AcceptNewValue
<1>4. version[n] \in Nat /\ local[n].orig \in Nat
  BY DEF IInv, TypeOK, Local
<1>5. NodeInv(n)
  BY DEF IInv
<1>6. OpInv(n)'
  BY <1>1, <1>2, <1>4, <1>5 DEF NodeInv, OpInv
<1> QED
  BY <1>1, <1>2, <1>6 DEF NodeInv

(* Every step of an archetype keeps its own invariant.                     *)
LEMMA ArchetypeStepInv ==
    ASSUME IInv, NEW n \in Node, ArchetypeStep(n)
    PROVE  NodeInv(n)'
<1> USE DEF TypeOK, SetCS, Goto, Return, At, thread, replica
<1>0. TypeOK /\ NodeInv(n)
  BY DEF IInv
<1>1. CASE ReadValue(n)
  BY <1>0, <1>1 DEF ReadValue, Working, Enter, CriticalSectionState, NodeInv, OpInv,
     CriticalSectionPermanentlyFailed
<1>2. CASE \E v \in Value : WriteValue(n, v)
  BY <1>0, <1>2 DEF WriteValue, Working, Enter, CriticalSectionState, NodeInv, OpInv,
     CriticalSectionPermanentlyFailed
<1>3. CASE PreCommit(n)
  BY <1>0, <1>3 DEF PreCommit, Working, NodeInv, OpInv
<1>4. CASE CheckPreCommitInterrupted(n)
  BY <1>0, <1>4 DEF CheckPreCommitInterrupted, NodeInv, OpInv
<1>5. CASE DoPreCommit(n)
  BY <1>0, <1>5 DEF DoPreCommit, ShouldAbortPreCommit, NodeInv, OpInv,
     CriticalSectionPermanentlyFailed
<1>6. CASE PreCommitComplete(n)
  BY <1>0, <1>6 DEF PreCommitComplete, NodeInv, OpInv
<1>7. CASE Rollback(n)
  BY <1>0, <1>7 DEF Rollback, NodeInv, OpInv
<1>8. CASE BroadcastAbortOrCommit(n)
  BY <1>0, <1>8 DEF BroadcastAbortOrCommit, Awaiting, NodeInv, OpInv
<1>9. CASE PreCommitFail(n)
  BY <1>0, <1>9 DEF PreCommitFail, NodeInv, OpInv
<1>10. CASE Abort(n)
  BY <1>0, <1>10 DEF Abort, NodeInv, OpInv
<1>11. CASE FinishAbort(n)
  BY <1>0, <1>11 DEF FinishAbort, NodeInv, OpInv
<1>12. CASE Commit(n) \/ CommitVote(n)
  BY <1>0, <1>12 DEF Commit, CommitVote, CommitAssert, NodeInv, OpInv
<1>13. CASE CommitVersion(n) \/ MakeCommit(n) \/ MakeCommitVersion(n)
  <2>1. /\ version' = version /\ value' = value /\ oldValue' = oldValue
        /\ criticalSectionState' = criticalSectionState
        /\ twoPCState' = twoPCState
        /\ op'[n] = "Commit" /\ op[n] = "Commit"
        /\ step'[n] \notin {"vote", "orig"}
    BY <1>0, <1>13 DEF CommitVersion, MakeCommit, MakeCommitVersion
  <2>2. \/ local'[n].orig = version[n]
        \/ local'[n].orig = local[n].orig /\ step[n] \notin {"vote", "orig"}
    BY <1>0, <1>13 DEF CommitVersion, MakeCommit, MakeCommitVersion, Local
  <2>3. version[n] \in Nat
    BY <1>0
  <2> QED
    BY <1>0, <2>1, <2>2, <2>3 DEF NodeInv, OpInv
<1>14. CASE FinishCommit(n)
  BY <1>0, <1>14 DEF FinishCommit, NodeInv, OpInv
<1>15. CASE Close(n)
  BY <1>0, <1>15 DEF Close, NodeInv, OpInv
<1>16. CASE CloseComplete(n)
  BY <1>0, <1>16 DEF CloseComplete, NodeInv, OpInv
<1> QED
  BY <1>1, <1>2, <1>3, <1>4, <1>5, <1>6, <1>7, <1>8, <1>9, <1>10, <1>11,
     <1>12, <1>13, <1>14, <1>15, <1>16 DEF ArchetypeStep

(* A step of an archetype touches no other node.                           *)
LEMMA ArchetypeStepLocal ==
    ASSUME TypeOK, NEW n \in Node, ArchetypeStep(n), NEW m \in Node, m # n
    PROVE  Untouched(m)
<1> USE DEF TypeOK, SetCS, Goto, Return, thread, replica, Untouched
<1>1. CASE ReadValue(n)
  BY <1>1 DEF ReadValue, Enter, CriticalSectionPermanentlyFailed
<1>2. CASE \E v \in Value : WriteValue(n, v)
  BY <1>2 DEF WriteValue, Enter, CriticalSectionPermanentlyFailed
<1>3. CASE PreCommit(n)
  BY <1>3 DEF PreCommit
<1>4. CASE CheckPreCommitInterrupted(n)
  BY <1>4 DEF CheckPreCommitInterrupted
<1>5. CASE DoPreCommit(n)
  BY <1>5 DEF DoPreCommit, ShouldAbortPreCommit, Awaiting,
     CriticalSectionPermanentlyFailed
<1>6. CASE PreCommitComplete(n)
  BY <1>6 DEF PreCommitComplete
<1>7. CASE Rollback(n)
  BY <1>7 DEF Rollback
<1>8. CASE BroadcastAbortOrCommit(n)
  BY <1>8 DEF BroadcastAbortOrCommit, Awaiting
<1>9. CASE PreCommitFail(n) \/ FinishAbort(n)
  BY <1>9 DEF PreCommitFail, FinishAbort
<1>10. CASE Abort(n)
  BY <1>10 DEF Abort
<1>11. CASE \/ Commit(n) \/ CommitVote(n)
         \/ CommitVersion(n) \/ MakeCommit(n) \/ MakeCommitVersion(n)
  BY <1>11 DEF Commit, CommitVote, CommitAssert, CommitVersion, MakeCommit,
     MakeCommitVersion
<1>12. CASE FinishCommit(n)
  BY <1>12 DEF FinishCommit
<1>13. CASE Close(n) \/ CloseComplete(n)
  BY <1>13 DEF Close, CloseComplete
<1> QED
  BY <1>1, <1>2, <1>3, <1>4, <1>5, <1>6, <1>7, <1>8, <1>9, <1>10, <1>11,
     <1>12, <1>13 DEF ArchetypeStep

(* The end of a goroutine changes counters only.                           *)
LEMMA EndTaskLocal ==
    ASSUME TypeOK, NEW t \in tasks, NEW r \in BOOLEAN, EndTask(t, r),
           NEW m \in Node
    PROVE  local'[m].orig = local[m].orig /\ op' = op /\ step' = step
<1>1. local[m] \in Local /\ local \in [Node -> Local]
  BY DEF TypeOK
<1>2. t.req.sender \in Node
  BY DEF TypeOK, Task, Request
<1> QED
  BY <1>1, <1>2 DEF EndTask, Local

(* A received request keeps the receiver's invariant and touches no other  *)
(* node.                                                                   *)
LEMMA ReceiveInternalInv ==
    ASSUME IInv, NEW c \in calls, ReceiveInternal(c), UNCHANGED thread,
           NEW m \in Node
    PROVE  NodeInv(m)'
<1> DEFINE n == c.to
<1>1. /\ c.req \in Request /\ n \in Node /\ TypeOK
      /\ c.req.version \in Nat /\ c.req.value \in Value
      /\ NodeInv(n) /\ NodeInv(m)
  BY DEF IInv, TypeOK, Call, Request
<1>2. CASE UNCHANGED replica
  BY <1>1, <1>2 DEF NodeInv, OpInv, replica, thread
<1>3. ASSUME m # n PROVE Untouched(m)
  BY <1>1, <1>3 DEF ReceiveInternal, ReceivePreCommit, ReceiveCommit, ReceiveAbort,
     AcceptNewValue, Untouched, TypeOK, replica, thread
<1>4. CASE m = n /\ ReceivePreCommit(n, c.req, c) /\ c.req.version >= version[n] + 1
  <2>1. CASE UNCHANGED replica
    BY <1>2, <2>1
  <2>2. CASE /\ CanAcceptPreCommit(criticalSectionState[n])
             /\ twoPCState' = [twoPCState EXCEPT ![n] = "acceptedPreCommit"]
             /\ acceptedPreCommit' = [acceptedPreCommit EXCEPT ![n] = c.req]
             /\ UNCHANGED <<value, oldValue, version, criticalSectionState>>
    BY <1>1, <1>4, <2>2 DEF NodeInv, OpInv, CanAcceptPreCommit, TypeOK, thread
  <2> QED
    BY <1>4, <2>1, <2>2 DEF ReceivePreCommit
<1>5. CASE m = n /\ ReceiveCommit(n, c.req, c) /\ c.req.version >= version[n] + 1
  <2>1. c.req.version > version[n]
    BY <1>1, <1>5 DEF TypeOK
  <2> QED
    BY <1>1, <1>5, <2>1, AcceptNewValueInv DEF ReceiveCommit, thread
<1>6. CASE m = n /\ ReceiveAbort(n, c.req, c)
  BY <1>1, <1>6 DEF ReceiveAbort, NodeInv, OpInv, TypeOK, thread
<1>7. CASE m # n
  BY <1>1, <1>3, <1>7, UntouchedInv
<1>8. version[n] \in Nat
  BY <1>1 DEF TypeOK
<1> QED
  BY <1>1, <1>2, <1>4, <1>5, <1>6, <1>7, <1>8 DEF ReceiveInternal

(* The answer to a Send keeps every node's invariant.                      *)
LEMMA SendReturnsInv ==
    ASSUME IInv, NEW t \in tasks, NEW c \in calls, SendReturns(t, c),
           NEW m \in Node
    PROVE  NodeInv(m)'
<1> DEFINE n == t.req.sender
<1>1. /\ TypeOK /\ NodeInv(m) /\ n \in Node /\ c.reply \in Response
      /\ c.reply.version \in Nat /\ c.reply.value \in Value
      /\ c.reply.accept \in BOOLEAN
  BY DEF IInv, TypeOK, Task, Request, Call, Response
<1>2. local'[m].orig = local[m].orig /\ op' = op /\ step' = step
  <2>1. CASE \E r \in BOOLEAN : EndTask(t, r)
    BY <1>1, <2>1, EndTaskLocal
  <2>2. CASE UNCHANGED thread
    BY <2>2 DEF thread
  <2> QED
    BY <1>1, <2>1, <2>2 DEF SendReturns, HandlePreCommitResponse,
       HandleAbortOrCommitResponse
<1>3. CASE UNCHANGED replica
  BY <1>1, <1>2, <1>3, UntouchedInv DEF Untouched, replica
<1>4. CASE AdoptNewer(n, c.reply)
  <2>1. CASE ~(c.reply.version > version[n])
    BY <1>3, <1>4, <2>1 DEF AdoptNewer
  <2>2. CASE c.reply.version > version[n] /\ m = n
    BY <1>1, <1>2, <1>4, <2>2, AcceptNewValueInv DEF AdoptNewer
  <2>3. CASE c.reply.version > version[n] /\ m # n
    <3>1. Untouched(m)
      BY <1>1, <1>2, <1>4, <2>3 DEF AdoptNewer, AcceptNewValue, Untouched, TypeOK
    <3> QED
      BY <1>1, <3>1, UntouchedInv
  <2> QED
    BY <2>1, <2>2, <2>3
<1> QED
  BY <1>1, <1>3, <1>4 DEF SendReturns, HandlePreCommitResponse,
     HandleAbortOrCommitResponse

(* Steps of goroutines that only send, or give up, change no replica.      *)
LEMMA SendInv ==
    ASSUME IInv, NEW t \in tasks, SendAbortOrCommit(t) \/ SendError(t),
           NEW m \in Node
    PROVE  NodeInv(m)'
<1>1. TypeOK /\ NodeInv(m)
  BY DEF IInv
<1>2. local'[m].orig = local[m].orig /\ op' = op /\ step' = step
  <2>1. CASE \E r \in BOOLEAN : EndTask(t, r)
    BY <1>1, <2>1, EndTaskLocal
  <2>2. CASE UNCHANGED thread
    BY <2>2 DEF thread
  <2> QED
    BY <2>1, <2>2 DEF SendAbortOrCommit, SendError
<1>3. UNCHANGED replica
  BY DEF SendAbortOrCommit, SendError
<1> QED
  BY <1>1, <1>2, <1>3, UntouchedInv DEF Untouched, replica

(* IInv is inductive.                                                      *)
LEMMA InvStep == IInv /\ [Next]_vars => IInv'
<1> SUFFICES ASSUME IInv, [Next]_vars PROVE IInv'
  OBVIOUS
<1>1. TypeOK'
  BY TypeStep DEF IInv
<1>2. ASSUME NEW m \in Node PROVE NodeInv(m)'
  <2>1. NodeInv(m) /\ TypeOK
    BY DEF IInv
  <2>2. CASE UNCHANGED <<replica, thread>>
    BY <2>1, <2>2, UntouchedInv DEF Untouched, replica, thread
  <2>3. CASE \E n \in Node : ArchetypeStep(n)
    <3>1. PICK n \in Node : ArchetypeStep(n)
      BY <2>3
    <3> QED
      BY <2>1, <3>1, ArchetypeStepInv, ArchetypeStepLocal, UntouchedInv
  <2>4. CASE \E t \in tasks : SendAbortOrCommit(t) \/ SendError(t)
    BY <2>4, SendInv
  <2>5. CASE \E t \in tasks, c \in calls : SendReturns(t, c)
    BY <2>5, SendReturnsInv
  <2>6. CASE \E c \in calls : ReceiveCheck(c) \/ ReceiveChecked(c)
    <3>1. PICK c \in calls : ReceiveCheck(c) \/ ReceiveChecked(c)
      BY <2>6
    <3>2. UNCHANGED thread /\ (UNCHANGED replica \/ ReceiveInternal(c))
      BY <3>1 DEF ReceiveCheck, ReceiveChecked, thread
    <3> QED
      BY <2>2, <3>2, ReceiveInternalInv
  <2>7. CASE Terminated \/ UNCHANGED vars
    BY <2>2, <2>7 DEF Terminated, vars
  <2> QED
    BY <2>3, <2>4, <2>5, <2>6, <2>7 DEF Next
<1> QED
  BY <1>1, <1>2 DEF IInv

LEMMA InvInit == Init => IInv
<1> SUFFICES ASSUME Init PROVE IInv
  OBVIOUS
<1>1. TypeOK
  BY TypeInit
<1>2. ASSUME NEW n \in Node PROVE NodeInv(n)
  BY DEF Init, NodeInv, OpInv
<1> QED
  BY <1>1, <1>2 DEF IInv

LEMMA Invariant == Spec => []IInv
<1> QED
  BY InvInit, InvStep, PTL DEF Spec

(* A replica with a PreCommit of its own outstanding or successful holds   *)
(* no vote for another proposer.                                           *)
THEOREM VoteExclusion == Spec => []VoteExcludesProposal
<1>1. IInv => VoteExcludesProposal
  BY DEF IInv, NodeInv, VoteExcludesProposal
<1> QED
  BY <1>1, Invariant, PTL

(* No aborted, failed or overtaken write is visible outside a critical     *)
(* section.                                                                *)
THEOREM NoDirtyRead == Spec => []NoDirtyValue
<1>1. IInv => NoDirtyValue
  BY DEF IInv, NodeInv, NoDirtyValue
<1> QED
  BY <1>1, Invariant, PTL

-----------------------------------------------------------------------------
(* Action properties.                                                      *)

(* What a step may do to a node's version and committed value.             *)
VersionStep(n) ==
    \/ version'[n] = version[n] /\ oldValue'[n] = oldValue[n]
    \/ /\ version'[n] > version[n]
       /\ criticalSectionState'[n] \in {"notInCriticalSection",
                                        "acceptedNewValueInCriticalSection"}

(* Adopting a newer value is such a step, at every node.                   *)
LEMMA AcceptNewValueVersion ==
    ASSUME TypeOK, NEW n \in Node, NEW val \in Value, NEW ver \in Nat,
           ver > version[n], AcceptNewValue(n, val, ver), NEW m \in Node
    PROVE  VersionStep(m)
  BY DEF TypeOK, AcceptNewValue, VersionStep

(* Every step is such a step.                                              *)
LEMMA NextVersion ==
    ASSUME TypeOK, Next, NEW m \in Node
    PROVE  VersionStep(m)
<1>1. CASE UNCHANGED <<version, oldValue>>
  BY <1>1 DEF VersionStep
<1>2. CASE \E n \in Node : FinishCommit(n)
  <2>1. PICK n \in Node : FinishCommit(n)
    BY <1>2
  <2>2. CASE version[n] = local[n].orig
    BY <2>1, <2>2 DEF FinishCommit, SetCS, VersionStep, TypeOK
  <2>3. CASE version[n] # local[n].orig
    BY <1>1, <2>1, <2>3 DEF FinishCommit
  <2> QED
    BY <2>2, <2>3
<1>3. CASE \E n \in Node : ArchetypeStep(n) /\ ~FinishCommit(n)
  <2>1. UNCHANGED <<version, oldValue>>
    BY <1>3 DEF ArchetypeStep, ReadValue, WriteValue, PreCommit,
       CheckPreCommitInterrupted, DoPreCommit, PreCommitComplete, Rollback,
       BroadcastAbortOrCommit, PreCommitFail, Abort, FinishAbort,
       Commit, CommitVote, CommitAssert, CommitVersion, MakeCommit,
       MakeCommitVersion, Close, CloseComplete, replica
  <2> QED
    BY <1>1, <2>1
<1>4. CASE \E t \in tasks : SendAbortOrCommit(t) \/ SendError(t)
  BY <1>1, <1>4 DEF SendAbortOrCommit, SendError, replica
<1>5. ASSUME NEW t \in tasks, NEW c \in calls, SendReturns(t, c)
      PROVE  VersionStep(m)
  <2> DEFINE n == t.req.sender
  <2>1. /\ n \in Node /\ c.reply.version \in Nat /\ c.reply.value \in Value
    BY DEF TypeOK, Task, Request, Call, Response
  <2>2. UNCHANGED replica \/ AdoptNewer(n, c.reply)
    BY <1>5 DEF SendReturns, HandlePreCommitResponse, HandleAbortOrCommitResponse
  <2>3. CASE UNCHANGED replica
    BY <1>1, <2>3 DEF replica
  <2>4. CASE c.reply.version > version[n] /\ AdoptNewer(n, c.reply)
    BY <2>1, <2>4, AcceptNewValueVersion DEF AdoptNewer
  <2> QED
    BY <2>2, <2>3, <2>4 DEF AdoptNewer
<1>6. ASSUME NEW c \in calls, ReceiveCheck(c) \/ ReceiveChecked(c)
      PROVE  VersionStep(m)
  <2> DEFINE n == c.to
  <2>1. n \in Node /\ c.req.version \in Nat /\ c.req.value \in Value
        /\ version[n] \in Nat
    BY DEF TypeOK, Call, Request
  <2>2. UNCHANGED replica \/ ReceiveInternal(c)
    BY <1>6 DEF ReceiveCheck, ReceiveChecked
  <2>3. CASE UNCHANGED replica
    BY <1>1, <2>3 DEF replica
  <2>4. CASE c.req.version > version[n] /\ ReceiveCommit(n, c.req, c)
    BY <2>1, <2>4, AcceptNewValueVersion DEF ReceiveCommit
  <2>5. CASE ReceivePreCommit(n, c.req, c) \/ ReceiveAbort(n, c.req, c)
    BY <1>1, <2>5 DEF ReceivePreCommit, ReceiveAbort, replica
  <2> QED
    BY <2>1, <2>2, <2>3, <2>4, <2>5 DEF ReceiveInternal
<1>7. CASE Terminated
  BY <1>1, <1>7 DEF Terminated, vars, replica
<1> QED
  BY <1>2, <1>3, <1>4, <1>5, <1>6, <1>7 DEF Next

(* A replica's version never goes back, and its committed value changes    *)
(* only together with its version.                                         *)
THEOREM VersionMonotone == Spec => VersionsGrow
<1>1. TypeOK /\ [Next]_vars =>
        [\A n \in Node : /\ version'[n] >= version[n]
                         /\ oldValue'[n] # oldValue[n]
                               => version'[n] > version[n]]_vars
  <2> SUFFICES ASSUME TypeOK, Next, NEW n \in Node
               PROVE  /\ version'[n] >= version[n]
                      /\ oldValue'[n] # oldValue[n]
                            => version'[n] > version[n]
    OBVIOUS
  <2>1. version[n] \in Nat /\ version'[n] \in Nat
    BY TypeStep DEF TypeOK
  <2> QED
    BY <2>1, NextVersion DEF VersionStep
<1> QED
  BY <1>1, TypeCorrect, PTL DEF Spec, VersionsGrow

(* A critical section that sees a foreign version is doomed.               *)
THEOREM LostUpdateFreedom == Spec => NoLostUpdate
<1>1. TypeOK /\ [Next]_vars =>
        [\A n \in Node : version'[n] # version[n] =>
            criticalSectionState'[n] \in {"notInCriticalSection",
                                "acceptedNewValueInCriticalSection"}]_vars
  BY NextVersion DEF VersionStep
<1> QED
  BY <1>1, TypeCorrect, PTL DEF Spec, NoLostUpdate
=============================================================================
