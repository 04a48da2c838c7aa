----------------------- MODULE CriticalSectionProofs ------------------------
(***************************************************************************)
(* Critical sections are atomic, the recorded trace explains them, and     *)
(* commit waits for its PreCommits, for any resources: any number of       *)
(* leaves, bound to handles or elements of maps, refusing or failing at    *)
(* any time.                                                               *)
(***************************************************************************)
EXTENDS CriticalSection, TLAPS, WellFoundedInduction

LeafTypes ==
    /\ phase \in Phase
    /\ value \in [Leaf -> Value]
    /\ oldValue \in [Leaf -> Value \cup {NoValue}]
    /\ hasOldValue \in [Leaf -> BOOLEAN]
    /\ dirtyElems \in [Handle -> Seq(Leaf)]

\* A leaf that was written belongs to a dirty handle and, in a map, to its
\* dirty elements, so that Commit and Abort of the handle reach it; ...
Reached(l) ==
    /\ HandleOf[l] \in dirtyResourceHandles
    /\ l \in LeavesOf(HandleOf[l])
    /\ oldValue[l] \in Value

\* ... it has been reached once its handle is no longer to be done, and between
\* two sections nothing is left to be committed or aborted.
WrittenInv(l) ==
    hasOldValue[l] =>
        /\ Reached(l)
        /\ phase \in {"committing", "aborting"} => HandleOf[l] \in todo
        /\ phase \notin {"idle", "returned"}

\* An operation on a handle reaches leaves of that handle only.
Own(h) == \A l \in LeavesOf(h) : l \in Leaf /\ HandleOf[l] = h

SInv ==
    /\ LeafTypes
    /\ \A h \in Handle : Own(h)
    /\ \A l \in Leaf : WrittenInv(l)

\* The invariant holds at first ...
LEMMA SInit == Init => SInv
<1> SUFFICES ASSUME Init PROVE SInv
  OBVIOUS
<1>1. LeafTypes
  BY ValueAssumption DEF Init, LeafTypes, Phase
<1>2. \A h \in Handle : ToSet(dirtyElems[h]) = {}
  BY DEF Init, ToSet
<1>3. \A h \in Handle : Own(h)
  BY <1>2 DEF Own, LeavesOf
<1> QED
  BY <1>1, <1>3 DEF Init, SInv, WrittenInv

\* Touching a leaf adds it, and takes nothing away.
LEMMA TouchReaches ==
    ASSUME LeafTypes, NEW l \in Leaf, Touch(l)
    PROVE  /\ dirtyElems' \in [Handle -> Seq(Leaf)]
           /\ (\A h \in Handle : Own(h)) => \A h \in Handle : Own(h)'
           /\ HandleOf[l] \in dirtyResourceHandles' /\ l \in LeavesOf(HandleOf[l])'
           /\ \A k \in Leaf :
                HandleOf[k] \in dirtyResourceHandles /\ k \in LeavesOf(HandleOf[k]) =>
                    HandleOf[k] \in dirtyResourceHandles' /\ k \in LeavesOf(HandleOf[k])'
<1> DEFINE h == HandleOf[l]
<1>1. h \in Handle
  BY HandleOfAssumption
<1>2. dirtyElems[h] \in Seq(Leaf)
  BY <1>1 DEF LeafTypes
<1>3. CASE h \in MapHandle /\ l \notin ToSet(dirtyElems[h])
  <2>1. dirtyElems' = [dirtyElems EXCEPT ![h] = Append(dirtyElems[h], l)]
    BY <1>3 DEF Touch
  <2>2. Append(dirtyElems[h], l) \in Seq(Leaf)
    BY <1>2
  <2>3. ToSet(Append(dirtyElems[h], l)) = ToSet(dirtyElems[h]) \cup {l}
    <3> DEFINE s == dirtyElems[h]
    <3>1. /\ DOMAIN Append(s, l) = DOMAIN s \cup {Len(s) + 1}
          /\ Append(s, l)[Len(s) + 1] = l
          /\ \A i \in DOMAIN s : Append(s, l)[i] = s[i]
      BY <1>2
    <3> QED
      BY <3>1, Zenon DEF ToSet
  <2>4. dirtyElems' \in [Handle -> Seq(Leaf)]
    BY <2>1, <2>2 DEF LeafTypes
  <2>5. /\ dirtyElems'[h] = Append(dirtyElems[h], l)
        /\ \A g \in Handle : g # h => dirtyElems'[g] = dirtyElems[g]
    BY <1>1, <2>1 DEF LeafTypes
  <2>6. \A g \in Handle : LeavesOf(g) \subseteq LeavesOf(g)'
    BY <2>3, <2>5 DEF LeavesOf
  <2>7. l \in LeavesOf(h)'
    BY <1>3, <2>3, <2>5 DEF LeavesOf
  <2> QED
    <3>1. ASSUME \A g \in Handle : Own(g) PROVE \A g \in Handle : Own(g)'
      <4>1. Own(h)'
        <5>1. LeavesOf(h)' = LeavesOf(h) \cup {l}
          BY <1>3, <2>3, <2>5 DEF LeavesOf
        <5> QED
          BY <1>1, <3>1, <5>1 DEF Own
      <4>2. \A g \in Handle : g # h => Own(g)'
        BY <2>5, <3>1 DEF Own, LeavesOf
      <4> QED
        BY <4>1, <4>2
    <3> QED
      BY <2>4, <2>6, <2>7, <3>1, HandleOfAssumption DEF Touch
<1>4. CASE ~(h \in MapHandle /\ l \notin ToSet(dirtyElems[h]))
  <2>1. dirtyElems' = dirtyElems
    BY <1>4 DEF Touch
  <2>2. \A g \in Handle : LeavesOf(g)' = LeavesOf(g)
    BY <2>1 DEF LeavesOf
  <2>3. l \in LeavesOf(h)
    BY <1>4 DEF LeavesOf
  <2> QED
    BY <1>1, <2>1, <2>2, <2>3, HandleOfAssumption DEF Touch, LeafTypes, Own
<1> QED
  BY <1>3, <1>4

\* Steps that leave the leaves and what reaches them alone.
LEMMA QuietStep ==
    ASSUME SInv, UNCHANGED <<leaves, dirtyElems>>, phase' \in Phase,
           \A l \in Leaf : hasOldValue[l] =>
                /\ HandleOf[l] \in dirtyResourceHandles'
                /\ phase' \in {"committing", "aborting"} => HandleOf[l] \in todo'
                /\ phase' \notin {"idle", "returned"}
    PROVE  SInv'
<1>1. \A l \in Leaf : LeavesOf(HandleOf[l])' = LeavesOf(HandleOf[l])
  BY DEF LeavesOf, leaves
<1> QED
  <2>1. LeafTypes'
    BY DEF SInv, LeafTypes, leaves
  <2>2. \A h \in Handle : Own(h)'
    BY DEF SInv, Own, LeavesOf
  <2>3. \A l \in Leaf : WrittenInv(l)'
    BY <1>1 DEF SInv, WrittenInv, Reached, leaves
  <2> QED
    BY <2>1, <2>2, <2>3 DEF SInv

\* Commit or Abort of a handle takes care of its written leaves.
LEMMA HandleStep ==
    ASSUME SInv, NEW h \in Handle, h \in todo, phase \in {"committing", "aborting"},
           LocalCommit(LeavesOf(h)) \/ LocalAbort(LeavesOf(h)),
           dirtyElems' = [dirtyElems EXCEPT ![h] = <<>>], todo' = todo \ {h},
           UNCHANGED <<phase, dirtyResourceHandles>>
    PROVE  SInv'
<1>1. \A l \in LeavesOf(h) : HandleOf[l] = h
  BY DEF SInv, Own
<1>2. \A l \in Leaf : hasOldValue'[l] => hasOldValue[l] /\ l \notin LeavesOf(h)
  BY DEF LocalCommit, LocalAbort
<1>3. \A l \in Leaf : hasOldValue'[l] => HandleOf[l] # h
  BY <1>2 DEF SInv, WrittenInv, Reached
<1>4. \A l \in Leaf : l \notin LeavesOf(h) => oldValue'[l] = oldValue[l]
  BY DEF LocalCommit, LocalAbort
<1>5. \A g \in Handle : g # h => LeavesOf(g)' = LeavesOf(g)
  BY DEF LeavesOf, SInv, LeafTypes
<1>6. \A g \in Handle : Own(g)'
  <2>1. ToSet(dirtyElems'[h]) = {}
    BY DEF ToSet, SInv, LeafTypes
  <2>2. Own(h)'
    BY <2>1 DEF Own, LeavesOf
  <2> QED
    BY <1>5, <2>2 DEF SInv, Own
<1>7. LeafTypes'
  <2>1. dirtyElems' \in [Handle -> Seq(Leaf)]
    BY DEF SInv, LeafTypes
  <2>2. value' \in [Leaf -> Value] /\ oldValue' \in [Leaf -> Value \cup {NoValue}]
    BY DEF SInv, LeafTypes, WrittenInv, Reached, LocalCommit, LocalAbort
  <2>3. hasOldValue' \in [Leaf -> BOOLEAN]
    BY Zenon DEF LocalCommit, LocalAbort
  <2> QED
    BY <2>1, <2>2, <2>3 DEF SInv, LeafTypes
<1>8. \A l \in Leaf : WrittenInv(l)'
  BY <1>2, <1>3, <1>4, <1>5, HandleOfAssumption DEF SInv, WrittenInv, Reached
<1> QED
  BY <1>6, <1>7, <1>8 DEF SInv

\* ... and every step preserves it.
LEMMA SNext == SInv /\ [Next]_vars => SInv'
<1> SUFFICES ASSUME SInv, [Next]_vars PROVE SInv'
  OBVIOUS
<1>1. CASE Begin
  BY <1>1, QuietStep DEF Begin, SInv, WrittenInv, Reached, leaves, Phase
<1>2. CASE StopSeen
  BY <1>2, QuietStep DEF StopSeen, SInv, WrittenInv, Reached, leaves, Phase
<1>3. ASSUME NEW l \in Leaf, Read(l) PROVE SInv'
  <2>1. LeafTypes /\ Touch(l) /\ UNCHANGED <<phase, leaves, todo>>
    BY <1>3 DEF Read, SInv
  <2> QED
    BY <1>3, <2>1, TouchReaches DEF Read, SInv, LeafTypes, WrittenInv, Reached, leaves
<1>4. ASSUME NEW l \in Leaf, NEW v \in Value, Write(l, v) PROVE SInv'
  <2>1. LeafTypes /\ Touch(l) /\ LocalWrite(l, v) /\ phase = "body" /\ UNCHANGED <<phase, todo>>
    BY <1>4 DEF Write, SInv
  <2>2. /\ value' \in [Leaf -> Value]
        /\ oldValue' \in [Leaf -> Value \cup {NoValue}]
        /\ hasOldValue' \in [Leaf -> BOOLEAN]
    BY <2>1 DEF LocalWrite, LeafTypes
  <2>3. /\ oldValue'[l] \in Value
        /\ \A k \in Leaf : k # l => oldValue'[k] = oldValue[k] /\ hasOldValue'[k] = hasOldValue[k]
    BY <2>1 DEF LocalWrite, LeafTypes, SInv, WrittenInv, Reached
  <2>4. LeafTypes'
    BY <2>1, <2>2, TouchReaches DEF LeafTypes
  <2>5. \A k \in Leaf : WrittenInv(k)'
    BY <2>1, <2>3, TouchReaches DEF SInv, WrittenInv, Reached
  <2> QED
    BY <2>1, <2>4, <2>5, TouchReaches DEF SInv
<1>5. ASSUME NEW l \in Leaf, OperationAborts(l) PROVE SInv'
  <2>1. LeafTypes /\ Touch(l) /\ UNCHANGED leaves /\ phase' = "aborting" /\ todo' = dirtyResourceHandles'
    BY <1>5 DEF OperationAborts, SInv
  <2>2. LeafTypes'
    BY <2>1, TouchReaches DEF LeafTypes, leaves, Phase
  <2>3. \A k \in Leaf : WrittenInv(k)'
    BY <2>1, TouchReaches DEF SInv, WrittenInv, Reached, leaves
  <2> QED
    BY <2>1, <2>2, <2>3, TouchReaches DEF SInv
<1>6. CASE BodyAborts
  BY <1>6, QuietStep DEF BodyAborts, SInv, WrittenInv, Reached, leaves, Phase
<1>7. CASE BodyDone
  BY <1>7, QuietStep DEF BodyDone, SInv, WrittenInv, Reached, leaves, Phase
<1>8. CASE BodyFails
  BY <1>8, QuietStep DEF BodyFails, Crash, SInv, WrittenInv, Reached, leaves, Phase
<1>9. CASE PreCommit
  BY <1>9, QuietStep DEF PreCommit, SInv, WrittenInv, Reached, leaves, Phase
<1>10. CASE PreCommitSucceeds
  BY <1>10, QuietStep DEF PreCommitSucceeds, SInv, WrittenInv, Reached, leaves, Phase
<1>11. CASE PreCommitFails
  BY <1>11, QuietStep DEF PreCommitFails, Crash, SInv, WrittenInv, Reached, leaves, Phase
<1>12. ASSUME NEW l \in Leaf, PreCommitAnswers(l) PROVE SInv'
  BY <1>12, QuietStep DEF PreCommitAnswers, SInv, LeafTypes, WrittenInv, Reached, leaves
<1>13. ASSUME NEW h \in Handle, CommitHandle(h) PROVE SInv'
  BY <1>13, HandleStep DEF CommitHandle
<1>14. ASSUME NEW h \in Handle, AbortHandle(h) PROVE SInv'
  BY <1>14, HandleStep DEF AbortHandle
<1>15. CASE CommitEnds
  BY <1>15, QuietStep DEF CommitEnds, SInv, WrittenInv, Reached, leaves, Phase
<1>16. CASE AbortEnds
  BY <1>16, QuietStep DEF AbortEnds, SInv, WrittenInv, Reached, leaves, Phase
<1>17. CASE UNCHANGED vars
  BY <1>17, QuietStep DEF vars, SInv, LeafTypes, WrittenInv, Reached, leaves
<1> QED
  BY <1>1, <1>2, <1>3, <1>4, <1>5, <1>6, <1>7, <1>8, <1>9, <1>10, <1>11, <1>12,
     <1>13, <1>14, <1>15, <1>16, <1>17 DEF Next, Terminated

-----------------------------------------------------------------------------
(* Refinement *)

\* What a step does to the values that count, given what it does to the leaves.
LEMMA SameStore ==
    ASSUME UNCHANGED leaves,
           phase = "committing" <=> phase' = "committing"
    PROVE  storeBar' = storeBar
  BY DEF storeBar, leaves

\* Commit of a handle changes neither; Abort restores the values that count.
LEMMA HandleStore ==
    ASSUME SInv, NEW h \in Handle, UNCHANGED phase,
           \/ phase = "committing" /\ LocalCommit(LeavesOf(h))
           \/ phase = "aborting" /\ LocalAbort(LeavesOf(h))
    PROVE  storeBar' = storeBar /\ viewBar' = viewBar
<1>1. CASE phase = "committing" /\ LocalCommit(LeavesOf(h))
  BY <1>1 DEF LocalCommit, storeBar, viewBar
<1>2. CASE phase = "aborting" /\ LocalAbort(LeavesOf(h))
  <2>1. \A l \in Leaf : storeBar'[l] = storeBar[l]
    BY <1>2 DEF LocalAbort, storeBar
  <2>2. storeBar' = storeBar
    BY <2>1 DEF storeBar
  <2> QED
    BY <1>2, <2>2 DEF viewBar
<1> QED
  BY <1>1, <1>2

\* While nothing is to be undone, the values that count are the current ones.
LEMMA CleanStore ==
    ASSUME SInv, \A l \in Leaf : ~hasOldValue[l]
    PROVE  storeBar = value /\ viewBar = value
<1>1. storeBar = [l \in Leaf |-> value[l]]
  BY DEF storeBar
<1>2. value = [l \in Leaf |-> value[l]]
  BY DEF SInv, LeafTypes
<1> QED
  BY <1>1, <1>2 DEF viewBar

\* Every step of the runtime is a step of AtomicSections, or none.
LEMMA AtomicStep == ASSUME SInv, SInv', [Next]_vars PROVE [Atomic!Next]_(Atomic!vars)
<1> DEFINE Stutter == storeBar' = storeBar /\ viewBar' = viewBar
<1> DEFINE Abandon == storeBar' = storeBar /\ viewBar' = storeBar
<1> DEFINE Effect == storeBar' = viewBar /\ viewBar' = viewBar
<1>0. Stutter \/ Abandon \/ Effect => [Atomic!Next]_(Atomic!vars)
  BY DEF Atomic!Next, Atomic!vars, Atomic!Abandon, Atomic!TakeEffect
<1>1. CASE Begin
  BY <1>1, <1>0, SameStore DEF Begin, viewBar, leaves
<1>2. CASE StopSeen
  BY <1>2, <1>0, SameStore DEF StopSeen, viewBar, leaves
<1>3. ASSUME NEW l \in Leaf, Read(l) PROVE [Atomic!Next]_(Atomic!vars)
  BY <1>3, <1>0, SameStore DEF Read, viewBar, leaves
<1>4. ASSUME NEW l \in Leaf, NEW v \in Value, Write(l, v) PROVE [Atomic!Next]_(Atomic!vars)
  <2>1. phase = "body" /\ phase' = "body" /\ LocalWrite(l, v) /\ LeafTypes
    BY <1>4 DEF Write, SInv
  <2>2. \A k \in Leaf : storeBar'[k] = storeBar[k]
    BY <2>1 DEF LocalWrite, storeBar, LeafTypes
  <2>3. storeBar' = storeBar
    BY <2>2 DEF storeBar
  <2>4. viewBar' = [viewBar EXCEPT ![l] = v]
    BY <2>1 DEF viewBar, LocalWrite
  <2>5. Atomic!Write(l, v)
    BY <2>3, <2>4 DEF Atomic!Write
  <2> QED
    BY <2>5 DEF Atomic!Next
<1>5. ASSUME NEW l \in Leaf, OperationAborts(l) PROVE [Atomic!Next]_(Atomic!vars)
  BY <1>5, <1>0, SameStore DEF OperationAborts, viewBar
<1>6. CASE BodyAborts
  BY <1>6, <1>0, SameStore DEF BodyAborts, viewBar
<1>7. CASE BodyDone
  BY <1>7, <1>0, SameStore DEF BodyDone, viewBar, leaves
<1>8. CASE BodyFails
  BY <1>8, <1>0, SameStore DEF BodyFails, Crash, viewBar
<1>9. CASE PreCommit
  BY <1>9, <1>0, SameStore DEF PreCommit, viewBar, leaves
<1>10. CASE PreCommitSucceeds
  <2>1. phase = "preCommit" /\ phase' = "committing" /\ UNCHANGED leaves
    BY <1>10 DEF PreCommitSucceeds
  <2>2. storeBar' = value'
    BY <2>1 DEF storeBar, SInv, LeafTypes
  <2>3. viewBar = value /\ viewBar' = value' /\ value' = value
    BY <2>1 DEF viewBar, leaves
  <2> QED
    BY <1>0, <2>2, <2>3
<1>11. CASE PreCommitFails
  BY <1>11, <1>0, SameStore DEF PreCommitFails, Crash, viewBar
<1>12. ASSUME NEW l \in Leaf, PreCommitAnswers(l) PROVE [Atomic!Next]_(Atomic!vars)
  BY <1>12, <1>0, SameStore DEF PreCommitAnswers, viewBar, leaves
<1>13. ASSUME NEW h \in Handle, CommitHandle(h) PROVE [Atomic!Next]_(Atomic!vars)
  BY <1>13, <1>0, HandleStore DEF CommitHandle
<1>14. ASSUME NEW h \in Handle, AbortHandle(h) PROVE [Atomic!Next]_(Atomic!vars)
  BY <1>14, <1>0, HandleStore DEF AbortHandle
<1>15. CASE CommitEnds \/ AbortEnds
  <2>1. UNCHANGED leaves /\ phase' = "idle" /\ todo = {} /\ phase \in {"committing", "aborting"}
    BY <1>15 DEF CommitEnds, AbortEnds
  <2>2. \A l \in Leaf : ~hasOldValue[l] /\ ~hasOldValue'[l]
    BY <2>1 DEF SInv, WrittenInv, leaves
  <2>3. storeBar = value /\ viewBar = value
    BY <2>2, CleanStore
  <2>4. storeBar' = value /\ viewBar' = value
    <3>1. storeBar' = [l \in Leaf |-> value'[l]]
      BY <2>2 DEF storeBar
    <3> QED
      BY <2>1, <3>1 DEF SInv, LeafTypes, viewBar, leaves
  <2> QED
    BY <1>0, <2>3, <2>4
<1>16. CASE UNCHANGED vars
  BY <1>16, <1>0, SameStore DEF vars, viewBar, leaves
<1> QED
  BY <1>1, <1>2, <1>3, <1>4, <1>5, <1>6, <1>7, <1>8, <1>9, <1>10, <1>11, <1>12,
     <1>13, <1>14, <1>15, <1>16 DEF Next, Terminated

\* The runtime implements atomic critical sections: over all resources, and
\* over all refusals and retries, a section takes effect at once or not at all.
THEOREM SectionAtomicity == Spec => SectionsAreAtomic
<1>1. Init => Atomic!Init
  BY DEF Init, Atomic!Init, storeBar, viewBar
<1>2. Spec => []SInv
  BY SInit, SNext, PTL DEF Spec
<1> QED
  BY <1>1, <1>2, AtomicStep, PTL DEF Spec, SectionsAreAtomic, Atomic!Spec
-----------------------------------------------------------------------------
(* The recorded trace *)

\* The writes of a leaf in a record of operations, and the place of the last.
WritesTo(s, l) == {i \in 1..Len(s) : s[i].op = "write" /\ s[i].leaf = l}
LastWrite(s, l) == SelectLastInSeq(s, LAMBDA e : e.op = "write" /\ e.leaf = l)

\* What a read of l after the operations in s gives.
ReadAfter(s, l) == IF LastWrite(s, l) = 0 THEN replay[l] ELSE s[LastWrite(s, l)].value

\* The last write is the greatest of the places, or 0.
LEMMA LastWriteIs ==
    ASSUME NEW s, NEW l
    PROVE  LastWrite(s, l) = IF WritesTo(s, l) # {} THEN Max(WritesTo(s, l)) ELSE 0
  BY DEF LastWrite, WritesTo, SelectLastInSeq

\* Recording a write of a leaf makes it the last one; recording anything else
\* changes nothing.
LEMMA RecordWrite ==
    ASSUME NEW s \in Seq(Element), NEW e \in Element, NEW l \in Leaf,
           LastWrite(s, l) \in 0..Len(s)
    PROVE  LET t == Append(s, e) IN
           /\ LastWrite(t, l) \in 0..Len(t)
           /\ ReadAfter(t, l) = IF e.op = "write" /\ e.leaf = l THEN e.value ELSE ReadAfter(s, l)
<1> DEFINE t == Append(s, e)
<1> DEFINE n == Len(s) + 1
<1>1. /\ Len(t) = n /\ t[n] = e
      /\ \A i \in 1..Len(s) : t[i] = s[i]
  OBVIOUS
<1>2. Len(s) \in Nat
  OBVIOUS
<1> HIDE DEF t
<1>3. CASE e.op = "write" /\ e.leaf = l
  <2>1. n \in WritesTo(t, l) /\ \A i \in WritesTo(t, l) : i \in 1..n
    BY <1>1, <1>2, <1>3 DEF WritesTo
  <2>2. Max(WritesTo(t, l)) = n
    BY <2>1, <1>2 DEF Max
  <2>3. LastWrite(t, l) = n
    BY <2>1, <2>2, LastWriteIs
  <2> QED
    BY <1>1, <1>2, <1>3, <2>3 DEF ReadAfter, t
<1>4. CASE ~(e.op = "write" /\ e.leaf = l)
  <2>1. WritesTo(t, l) = WritesTo(s, l)
    BY <1>1, <1>2, <1>4 DEF WritesTo
  <2>2. LastWrite(t, l) = LastWrite(s, l)
    BY <2>1, LastWriteIs
  <2>3. LastWrite(s, l) # 0 => LastWrite(s, l) \in 1..Len(s)
    BY <1>2
  <2>4. ReadAfter(t, l) = ReadAfter(s, l)
    BY <1>1, <2>2, <2>3 DEF ReadAfter
  <2>5. LastWrite(t, l) \in 0..Len(t)
    BY <1>1, <1>2, <2>2
  <2> QED
    BY <1>4, <2>4, <2>5 DEF t
<1> QED
  BY <1>3, <1>4

\* The value that counts for a leaf is the one before the section, until it
\* takes effect; while the body runs its current value is what the events
\* recorded so far make of it.
TraceInv ==
    /\ elements \in Seq(Element)
    /\ replay \in [Leaf -> Value]
    /\ phase \in {"idle", "committing"} => elements = <<>> /\ replay = value
    /\ phase \in {"body", "preCommit"} =>
         \A l \in Leaf :
            /\ LastWrite(elements, l) \in 0..Len(elements)
            /\ value[l] = ReadAfter(elements, l)
    /\ phase \in {"body", "preCommit", "aborting"} =>
         \A l \in Leaf : replay[l] = IF hasOldValue[l] THEN oldValue[l] ELSE value[l]

\* Every read that the section recorded returned what was there.
ReadsExplained ==
    phase = "body" =>
        \A i \in 1..Len(elements) :
            LET s == SubSeq(elements, 1, i - 1)
                l == elements[i].leaf
            IN  elements[i].op = "read" =>
                    LastWrite(s, l) \in 0..(i - 1) /\ elements[i].value = ReadAfter(s, l)

\* An empty record has no write.
LEMMA EmptyRecord == \A l : LastWrite(<<>>, l) = 0
<1> SUFFICES ASSUME NEW l PROVE LastWrite(<<>>, l) = 0
  OBVIOUS
<1>1. WritesTo(<<>>, l) = {}
  BY DEF WritesTo
<1> QED
  BY <1>1, LastWriteIs

\* Recording one more operation.
LEMMA RecordStep ==
    ASSUME TraceInv, ReadsExplained, SInv, phase = "body", NEW e \in Element,
           e.op = "read" => e.value = value[e.leaf],
           elements' = Append(elements, e),
           value' = IF e.op = "write" THEN [value EXCEPT ![e.leaf] = e.value] ELSE value,
           UNCHANGED <<phase, replay>>,
           \A l \in Leaf : (IF hasOldValue'[l] THEN oldValue'[l] ELSE value'[l])
                         = (IF hasOldValue[l] THEN oldValue[l] ELSE value[l])
    PROVE  TraceInv' /\ ReadsExplained'
<1> DEFINE t == Append(elements, e)
<1>0. elements \in Seq(Element) /\ t \in Seq(Element) /\ value \in [Leaf -> Value]
  BY DEF TraceInv, SInv, LeafTypes
<1>1. e.leaf \in Leaf /\ e.op \in {"read", "write"} /\ e.value \in Value
  BY DEF Element
<1>2. \A l \in Leaf : /\ LastWrite(t, l) \in 0..Len(t)
                      /\ ReadAfter(t, l) = IF e.op = "write" /\ e.leaf = l THEN e.value
                                           ELSE ReadAfter(elements, l)
  BY <1>0, RecordWrite DEF TraceInv
<1>3. \A l \in Leaf : value'[l] = ReadAfter(t, l)
  BY <1>0, <1>1, <1>2 DEF TraceInv
<1>4. \A s, l : ReadAfter(s, l)' = ReadAfter(s, l)
  BY DEF ReadAfter
<1>5. TraceInv'
  BY <1>0, <1>2, <1>3, <1>4 DEF TraceInv
<1>6. ReadsExplained'
  <2> DEFINE n == Len(elements) + 1
  <2> SUFFICES ASSUME NEW i \in 1..Len(t), t[i].op = "read"
               PROVE  /\ LastWrite(SubSeq(t, 1, i - 1), t[i].leaf) \in 0..(i - 1)
                      /\ t[i].value = ReadAfter(SubSeq(t, 1, i - 1), t[i].leaf)
    BY <1>4 DEF ReadsExplained
  <2>1. CASE i = n
    <3>1. t[i] = e /\ SubSeq(t, 1, i - 1) = elements /\ i - 1 = Len(elements)
      BY <1>0, <2>1
    <3> QED
      BY <1>1, <3>1 DEF TraceInv
  <2>2. CASE i # n
    <3>1. i \in 1..Len(elements)
      BY <1>0, <2>2
    <3>2. t[i] = elements[i] /\ SubSeq(t, 1, i - 1) = SubSeq(elements, 1, i - 1)
      BY <1>0, <3>1
    <3> QED
      BY <3>1, <3>2 DEF ReadsExplained
  <2> QED
    BY <2>1, <2>2
<1> QED
  BY <1>5, <1>6

\* Steps that record nothing.
LEMMA TraceKept ==
    ASSUME TraceInv, ReadsExplained, UNCHANGED trace, phase' # "body" \/ phase = "body",
           phase' \in {"idle", "committing"} => elements = <<>> /\ replay = value',
           phase' \in {"body", "preCommit"} => phase = "body" \/ phase = phase',
           phase' \in {"body", "preCommit"} => value' = value,
           phase' \in {"body", "preCommit", "aborting"} =>
              \A l \in Leaf : replay[l] = IF hasOldValue'[l] THEN oldValue'[l] ELSE value'[l]
    PROVE  TraceInv' /\ ReadsExplained'
<1>1. \A s, l : ReadAfter(s, l)' = ReadAfter(s, l)
  BY DEF ReadAfter, trace
<1>2. elements' = elements /\ replay' = replay
  BY DEF trace
<1>3. TraceInv'
  BY <1>1, <1>2 DEF TraceInv
<1>4. ReadsExplained'
  BY <1>1, <1>2 DEF ReadsExplained
<1> QED
  BY <1>3, <1>4

\* The event of a section gives every resource the value that it has.
LEMMA EventIsValue ==
    ASSUME SInv, TraceInv, phase \in {"body", "preCommit"}
    PROVE  Replayed = value
<1>1. Replayed = [l \in Leaf |-> ReadAfter(elements, l)]
  BY DEF Replayed, ReadAfter, LastWrite
<1>2. value = [l \in Leaf |-> value[l]]
  BY DEF SInv, LeafTypes
<1> QED
  BY <1>1, <1>2 DEF TraceInv

\* The trace invariant holds at first ...
LEMMA TraceInit == Init => TraceInv /\ ReadsExplained
  BY ValueAssumption DEF Init, TraceInv, ReadsExplained

\* ... and every step preserves it.
LEMMA TraceNext == SInv /\ TraceInv /\ ReadsExplained /\ [Next]_vars => TraceInv' /\ ReadsExplained'
<1> SUFFICES ASSUME SInv, TraceInv, ReadsExplained, [Next]_vars
             PROVE  TraceInv' /\ ReadsExplained'
  OBVIOUS
<1>1. CASE Begin
  <2>1. elements = <<>> /\ replay = value /\ \A l \in Leaf : ~hasOldValue[l]
    BY <1>1 DEF Begin, TraceInv, SInv, WrittenInv
  <2>2. phase' = "body" /\ UNCHANGED <<value, oldValue, hasOldValue, elements, replay>>
    BY <1>1 DEF Begin, leaves, trace
  <2>3. TraceInv'
    BY <2>1, <2>2, EmptyRecord DEF TraceInv, ReadAfter
  <2> QED
    BY <2>1, <2>2, <2>3 DEF ReadsExplained
<1>2. CASE StopSeen
  BY <1>2, TraceKept DEF StopSeen
<1>3. ASSUME NEW l \in Leaf, Read(l) PROVE TraceInv' /\ ReadsExplained'
  <2> DEFINE e == [op |-> "read", leaf |-> l, value |-> value[l]]
  <2>1. e \in Element
    BY DEF Element, SInv, LeafTypes
  <2>2. phase = "body" /\ elements' = Append(elements, e) /\ UNCHANGED <<phase, leaves, replay>>
    BY <1>3 DEF Read, Record
  <2> QED
    BY <2>1, <2>2, RecordStep DEF leaves
<1>4. ASSUME NEW l \in Leaf, NEW v \in Value, Write(l, v) PROVE TraceInv' /\ ReadsExplained'
  <2> DEFINE e == [op |-> "write", leaf |-> l, value |-> v]
  <2>1. e \in Element
    BY DEF Element
  <2>2. phase = "body" /\ elements' = Append(elements, e) /\ UNCHANGED <<phase, replay>>
    BY <1>4 DEF Write, Record
  <2>3. value' = [value EXCEPT ![l] = v]
    BY <1>4 DEF Write, LocalWrite
  <2>4. \A k \in Leaf : (IF hasOldValue'[k] THEN oldValue'[k] ELSE value'[k])
                      = (IF hasOldValue[k] THEN oldValue[k] ELSE value[k])
    BY <1>4 DEF Write, LocalWrite, SInv, LeafTypes
  <2> QED
    BY <2>1, <2>2, <2>3, <2>4, RecordStep
<1>5. ASSUME NEW l \in Leaf, OperationAborts(l) PROVE TraceInv' /\ ReadsExplained'
  BY <1>5, TraceKept DEF OperationAborts, leaves, TraceInv
<1>6. CASE BodyAborts
  BY <1>6, TraceKept DEF BodyAborts, leaves, TraceInv
<1>7. CASE BodyDone
  BY <1>7, TraceKept DEF BodyDone
<1>18. ASSUME CommitEvent, phase \in {"body", "preCommit"}
       PROVE  replay' = value /\ elements' = <<>>
  BY <1>18, EventIsValue DEF CommitEvent
<1>8. ASSUME Crash, phase \in {"body", "preCommit"} PROVE TraceInv' /\ ReadsExplained'
  <2>1. replay' = value /\ elements' = <<>> /\ phase' = "crashed"
    BY <1>8, <1>18 DEF Crash
  <2> QED
    BY <2>1 DEF TraceInv, ReadsExplained, SInv, LeafTypes
<1>9. CASE PreCommit
  BY <1>9, TraceKept DEF PreCommit, leaves, TraceInv
<1>10. CASE PreCommitSucceeds
  <2>1. replay' = value /\ value' = value /\ elements' = <<>> /\ phase' = "committing"
    BY <1>10, <1>18 DEF PreCommitSucceeds, leaves
  <2> QED
    BY <2>1 DEF TraceInv, ReadsExplained, SInv, LeafTypes
<1>11. CASE PreCommitFails
  BY <1>8, <1>11, TraceKept DEF PreCommitFails, leaves, TraceInv
<1>12. ASSUME NEW l \in Leaf, PreCommitAnswers(l) PROVE TraceInv' /\ ReadsExplained'
  BY <1>12, TraceKept DEF PreCommitAnswers, leaves, TraceInv
<1>13. ASSUME NEW h \in Handle, CommitHandle(h) PROVE TraceInv' /\ ReadsExplained'
  BY <1>13, TraceKept DEF CommitHandle, LocalCommit, TraceInv
<1>14. ASSUME NEW h \in Handle, AbortHandle(h) PROVE TraceInv' /\ ReadsExplained'
  <2>1. \A l \in Leaf : replay[l] = IF hasOldValue'[l] THEN oldValue'[l] ELSE value'[l]
    BY <1>14 DEF AbortHandle, LocalAbort, TraceInv
  <2> QED
    BY <1>14, <2>1, TraceKept DEF AbortHandle
<1>15. CASE CommitEnds
  BY <1>15, TraceKept DEF CommitEnds, leaves, TraceInv
<1>16. CASE AbortEnds
  <2>1. value' = value /\ replay' = replay /\ elements' = <<>> /\ phase' = "idle"
    BY <1>16 DEF AbortEnds, leaves
  <2>2. \A l \in Leaf : ~hasOldValue[l]
    BY <1>16 DEF AbortEnds, SInv, WrittenInv
  <2>3. \A l \in Leaf : replay[l] = value[l]
    BY <1>16, <2>2 DEF AbortEnds, TraceInv
  <2>4. replay = value
    BY <2>3 DEF TraceInv, SInv, LeafTypes
  <2> QED
    BY <2>1, <2>4 DEF TraceInv, ReadsExplained
<1>17. CASE UNCHANGED vars
  BY <1>17, TraceKept DEF vars, leaves, TraceInv
<1> QED
  BY <1>1, <1>2, <1>3, <1>4, <1>5, <1>6, <1>7, <1>8, <1>9, <1>10, <1>11, <1>12,
     <1>13, <1>14, <1>15, <1>16, <1>17 DEF Next, Terminated, BodyFails

\* The recorded trace explains the execution, whatever aborts and fails.
THEOREM RecordedTrace == Spec => []TraceExplains
<1>1. TraceInv /\ ReadsExplained => TraceExplains
  <2> SUFFICES ASSUME TraceInv, ReadsExplained, phase = "body",
                      NEW i \in 1..Len(elements), elements[i].op = "read"
               PROVE  LET w == LastWrite(SubSeq(elements, 1, i - 1), elements[i].leaf)
                      IN  elements[i].value
                             = IF w = 0 THEN replay[elements[i].leaf] ELSE elements[w].value
    BY DEF TraceInv, TraceExplains, LastWrite
  <2> DEFINE w == LastWrite(SubSeq(elements, 1, i - 1), elements[i].leaf)
  <2>1. w \in 0..(i - 1) /\ elements[i].value = ReadAfter(SubSeq(elements, 1, i - 1), elements[i].leaf)
    BY DEF ReadsExplained
  <2>2. w # 0 => SubSeq(elements, 1, i - 1)[w] = elements[w]
    BY <2>1 DEF TraceInv
  <2> QED
    BY <2>1, <2>2 DEF ReadAfter
<1> QED
  BY <1>1, SInit, SNext, TraceInit, TraceNext, PTL DEF Spec

-----------------------------------------------------------------------------
(* The PreCommit answers *)

\* A nonempty set of numbers has a least one.
LEMMA LeastIsThere ==
    ASSUME NEW S \in SUBSET Nat, S # {}
    PROVE  Min(S) \in S
<1> DEFINE R == {ss \in Nat \X Nat : ss[1] < ss[2]}
<1>1. IsWellFoundedOn(R, Nat)
  BY NatLessThanWellFounded DEF OpToRel
<1>2. PICK x \in S : \A y \in S : ~(<<y, x>> \in R)
  <2> HIDE DEF R
  <2> QED
    BY <1>1, WFMin
<1>3. \A y \in S : <<y, x>> \in R <=> y < x
  OBVIOUS
<1>4. ASSUME NEW y \in S PROVE x =< y
  <2>1. x \in Nat /\ y \in Nat
    OBVIOUS
  <2>2. ~(y < x)
    BY <1>2, <1>3
  <2> QED
    BY <2>1, <2>2
<1> QED
  BY <1>4 DEF Min

\* While commit waits, every leaf that the section reached has been asked.
Asked(l) == answer[l] \in {"pending", "nil", "aborted", "failed"}

AskedInv ==
    /\ answer \in [Leaf -> Answer]
    /\ dirtyResourceHandles \subseteq Handle
    /\ phase = "preCommit" => \A h \in dirtyResourceHandles : \A l \in LeavesOf(h) : Asked(l)

\* If a leaf has not agreed, then what its handle's channel yields is the
\* answer of a leaf of the handle that has not agreed either.
LEMMA VerdictOfHandle ==
    ASSUME SInv, NEW h \in Handle, NEW l \in LeavesOf(h), answer[l] # "nil"
    PROVE  \E k \in LeavesOf(h) : answer[k] # "nil" /\ PreCommitResult(h) = answer[k]
<1>1. CASE h \in MapHandle
  <2> DEFINE s == dirtyElems[h]
  <2> DEFINE I == {i \in 1..Len(s) : answer[s[i]] # "nil"}
  <2>1. s \in Seq(Leaf)
    BY DEF SInv, LeafTypes
  <2>2. LeavesOf(h) = {s[i] : i \in 1..Len(s)}
    BY <1>1, <2>1 DEF LeavesOf, ToSet
  <2>3. PICK j \in 1..Len(s) : s[j] = l
    BY <2>2
  <2>4. I # {} /\ I \in SUBSET Nat
    BY <2>3
  <2>5. Min(I) \in I
    BY <2>4, LeastIsThere
  <2>6. s[Min(I)] \in LeavesOf(h) /\ answer[s[Min(I)]] # "nil"
    BY <2>2, <2>5
  <2>7. SelectInSeq(s, LAMBDA k : answer[k] # "nil") = Min(I)
    BY <2>4 DEF SelectInSeq
  <2>8. Min(I) # 0
    BY <2>5
  <2>9. PreCommitResult(h) = answer[s[Min(I)]]
    BY <1>1, <2>7, <2>8 DEF PreCommitResult
  <2> QED
    BY <2>6, <2>9
<1>2. CASE h \notin MapHandle
  <2>1. l \in Leaf /\ HandleOf[l] = h
    BY DEF SInv, Own
  <2>2. (CHOOSE k \in Leaf : HandleOf[k] = h) = l
    BY <1>2, <2>1, PlainHandleAssumption
  <2> QED
    BY <1>2, <2>2 DEF PreCommitResult
<1> QED
  BY <1>1, <1>2

LEMMA AskedInit == Init => AskedInv
  BY DEF Init, AskedInv, Answer

\* Outside of PreCommit nobody is asked.
LEMMA AskedKept ==
    ASSUME AskedInv, phase' # "preCommit", answer' = answer,
           dirtyResourceHandles' \subseteq Handle
    PROVE  AskedInv'
  BY DEF AskedInv

\* What commit leaves behind is typed.
LEMMA UnansweredType ==
    ASSUME AskedInv, Unanswered
    PROVE  answer' \in [Leaf -> Answer]
  BY DEF AskedInv, Unanswered, Answer

LEMMA AskedNext ==
    ASSUME SInv, AskedInv, [Next]_vars
    PROVE  AskedInv'
<1>1. CASE Begin
  BY <1>1, AskedKept DEF Begin, AskedInv
<1>2. CASE StopSeen
  BY <1>2, AskedKept DEF StopSeen, AskedInv
<1>3. ASSUME NEW l \in Leaf, Read(l) PROVE AskedInv'
  BY <1>3, AskedKept, HandleOfAssumption DEF Read, Touch, AskedInv
<1>4. ASSUME NEW l \in Leaf, NEW v \in Value, Write(l, v) PROVE AskedInv'
  BY <1>4, AskedKept, HandleOfAssumption DEF Write, Touch, AskedInv
<1>5. ASSUME NEW l \in Leaf, OperationAborts(l) PROVE AskedInv'
  BY <1>5, AskedKept, HandleOfAssumption DEF OperationAborts, Touch, AskedInv
<1>6. CASE BodyAborts
  BY <1>6, AskedKept DEF BodyAborts, AskedInv
<1>7. CASE BodyDone
  BY <1>7, AskedKept DEF BodyDone, AskedInv
<1>8. CASE BodyFails
  BY <1>8, AskedKept DEF BodyFails, Crash, AskedInv
<1>9. CASE PreCommit
  <2>1. UNCHANGED <<dirtyResourceHandles, dirtyElems>>
    BY <1>9 DEF PreCommit
  <2>2. \A h \in Handle : LeavesOf(h)' = LeavesOf(h)
    BY <2>1 DEF LeavesOf
  <2>3. answer' \in [Leaf -> Answer]
    BY <1>9 DEF PreCommit, AskedInv, Answer
  <2>4. \A l \in Leaf : l \in DirtyLeaves => answer'[l] \in {"pending", "nil"}
    BY <1>9 DEF PreCommit
  <2>5. \A h \in dirtyResourceHandles : \A l \in LeavesOf(h) : l \in Leaf /\ l \in DirtyLeaves
    BY DEF AskedInv, SInv, Own, DirtyLeaves
  <2> QED
    BY <2>1, <2>2, <2>3, <2>4, <2>5 DEF AskedInv, Asked
<1>10. CASE PreCommitSucceeds
  BY <1>10, UnansweredType DEF PreCommitSucceeds, AskedInv
<1>11. CASE PreCommitFails
  BY <1>11, UnansweredType DEF PreCommitFails, Crash, AskedInv
<1>12. ASSUME NEW l \in Leaf, PreCommitAnswers(l) PROVE AskedInv'
  <2>1. PICK a \in {"nil", "aborted", "failed"} : answer' = [answer EXCEPT ![l] = a]
    BY <1>12 DEF PreCommitAnswers
  <2>2. UNCHANGED <<phase, dirtyResourceHandles, dirtyElems>>
    BY <1>12 DEF PreCommitAnswers
  <2>3. \A h \in Handle : LeavesOf(h)' = LeavesOf(h)
    BY <2>2 DEF LeavesOf
  <2>4. answer' \in [Leaf -> Answer]
    BY <2>1 DEF AskedInv, Answer
  <2>5. \A k \in Leaf : answer'[k] = answer[k] \/ answer'[k] = a
    BY <2>1 DEF AskedInv
  <2>6. \A h \in dirtyResourceHandles : \A k \in LeavesOf(h) : k \in Leaf
    BY DEF AskedInv, SInv, Own
  <2> QED
    BY <2>2, <2>3, <2>4, <2>5, <2>6 DEF AskedInv, Asked
<1>13. ASSUME NEW h \in Handle, CommitHandle(h) PROVE AskedInv'
  BY <1>13, AskedKept DEF CommitHandle, AskedInv
<1>14. ASSUME NEW h \in Handle, AbortHandle(h) PROVE AskedInv'
  BY <1>14, AskedKept DEF AbortHandle, AskedInv
<1>15. CASE CommitEnds
  BY <1>15, AskedKept DEF CommitEnds
<1>16. CASE AbortEnds
  BY <1>16, AskedKept DEF AbortEnds
<1>17. CASE UNCHANGED vars
  BY <1>17 DEF vars, AskedInv, Asked, LeavesOf
<1> QED
  BY <1>1, <1>2, <1>3, <1>4, <1>5, <1>6, <1>7, <1>8, <1>9, <1>10, <1>11, <1>12,
     <1>13, <1>14, <1>15, <1>16, <1>17 DEF Next, Terminated

\* The verdict of commit, as a step.
Verdict ==
    phase = "preCommit" /\ phase' # "preCommit" =>
      \A l \in DirtyLeaves :
         /\ phase' = "committing" => answer[l] = "nil"
         /\ answer[l] = "pending" =>
              \E k \in LeavesOf(HandleOf[l]) : answer[k] \in {"aborted", "failed"}

LEMMA VerdictNext ==
    ASSUME SInv, AskedInv, [Next]_vars
    PROVE  Verdict
<1> SUFFICES ASSUME phase = "preCommit", phase' # "preCommit", NEW l \in DirtyLeaves,
                    answer[l] # "nil"
             PROVE  /\ phase' # "committing"
                    /\ answer[l] = "pending" =>
                         \E k \in LeavesOf(HandleOf[l]) : answer[k] \in {"aborted", "failed"}
  BY DEF Verdict
<1>1. PICK h \in dirtyResourceHandles : l \in LeavesOf(h)
  BY DEF DirtyLeaves
<1>2. h \in Handle /\ HandleOf[l] = h
  BY <1>1 DEF AskedInv, SInv, Own
<1>3. PICK k \in LeavesOf(h) : answer[k] # "nil" /\ PreCommitResult(h) = answer[k]
  BY <1>1, <1>2, VerdictOfHandle
<1>4. answer[k] \in Results
  BY <1>1, <1>3 DEF Results
<1>5. Asked(k)
  BY <1>1, <1>3 DEF AskedInv
<1>6. CASE PreCommitSucceeds
  BY <1>3, <1>4, <1>6 DEF PreCommitSucceeds
<1>7. CASE PreCommitFails
  <2>1. phase' \in {"aborting", "crashed"} /\ answer[k] # "pending"
    BY <1>4, <1>7 DEF PreCommitFails, Crash
  <2> QED
    BY <1>2, <1>3, <1>5, <2>1 DEF Asked
<1>8. PreCommitSucceeds \/ PreCommitFails
  BY DEF Next, Begin, StopSeen, Read, Write, OperationAborts, BodyAborts, BodyDone,
     BodyFails, PreCommit, PreCommitAnswers, CommitHandle, AbortHandle, CommitEnds,
     AbortEnds, Terminated, vars
<1> QED
  BY <1>6, <1>7, <1>8

\* Whatever the resources answer and in whatever order: a section takes effect
\* only when every leaf has agreed, and an answer is left unread only under a
\* map another element of which has refused.
THEOREM CommitReadsAnswers == Spec => CommitWaits
<1>1. SInv /\ AskedInv /\ [Next]_vars => [Verdict]_vars
  BY VerdictNext
<1>2. SInv /\ AskedInv /\ [Next]_vars => AskedInv'
  BY AskedNext
<1> QED
  BY <1>1, <1>2, SInit, SNext, AskedInit, PTL DEF Spec, CommitWaits, Verdict
=============================================================================
