------------------------- MODULE CRDTResourceProofs -------------------------
(* Proofs about CRDTResource, for any number of replicas and any bounds. *)
EXTENDS CRDTResource, TLAPS

\* A value that travels says of nobody more than it has committed.
Known(v) == \A m \in Node : v[m] <= committed[m]

\* Apart from its own entry, a replica holds only what others have committed; without
\* a section its own entry is what it has committed, within one it is that in oldValue.
ReplicaKnown(n) ==
    /\ \A m \in Node \ {n} : value[n][m] <= committed[m] /\ oldValue[n][m] <= committed[m]
    /\ committed[n] <= value[n][n]
    /\ IF hasOldValue[n] THEN oldValue[n][n] = committed[n] ELSE value[n][n] = committed[n]

IInv ==
    /\ TypeOK
    /\ \A n \in Node : ReplicaKnown(n)
    /\ \A n \in Node : \A i \in DOMAIN mergeValues[n] : Known(mergeValues[n][i])
    /\ \A c \in calls : Known(c.value)

-----------------------------------------------------------------------------
\* GCounter.Merge is an upper bound of both counters, and the least one.
LEMMA MergeIsJoin ==
    ASSUME NEW c \in Counter, NEW d \in Counter
    PROVE  /\ Merge(c, d) \in Counter
           /\ \A m \in Node : Merge(c, d)[m] >= c[m] /\ Merge(c, d)[m] >= d[m]
           /\ \A m \in Node : Merge(c, d)[m] \in {c[m], d[m]}
BY BoundAssumption DEF Merge, Counter

\* The stable value of a replica may travel.
LEMMA StableIsKnown ==
    ASSUME IInv, NEW n \in Node
    PROVE  getStableValue(n) \in Counter /\ Known(getStableValue(n))
<1>1. value[n] \in Counter /\ oldValue[n] \in Counter /\ ReplicaKnown(n)
  BY DEF IInv, TypeOK
<1> QED BY <1>1, BoundAssumption DEF getStableValue, Known, ReplicaKnown, Counter

LEMMA InitIInv == Init => IInv
<1> SUFFICES ASSUME Init PROVE IInv OBVIOUS
<1>1. Zero \in Counter BY BoundAssumption DEF Zero, Counter
<1>2. TypeOK BY <1>1, BoundAssumption DEF Init, TypeOK, Zero
<1> QED BY <1>1, <1>2, BoundAssumption DEF Init, IInv, ReplicaKnown, Known, Zero, Counter

-----------------------------------------------------------------------------
\* Sections: what a node writes and commits.
LEMMA SectionStep ==
    ASSUME IInv, NEW n \in Node, WriteValue(n) \/ Commit(n) \/ Abort(n)
    PROVE  IInv'
<1> USE BoundAssumption
<1>1. CASE WriteValue(n)
  <2>0. TypeOK /\ ReplicaKnown(n) /\ \A k \in Node : ReplicaKnown(k)
    BY DEF IInv
  <2> DEFINE v == Write(value[n], n)
  <2>3. /\ value \in [Node -> Counter] /\ value[n] \in Counter /\ n \in DOMAIN value[n]
        /\ value[n][n] \in Nat /\ value[n][n] < MaxWrites
        /\ oldValue \in [Node -> Counter]
    BY <1>1, <2>0 DEF TypeOK, WriteValue, Counter
  <2>4. /\ v \in Counter /\ v[n] = value[n][n] + 1
        /\ \A m \in Node : m # n => v[m] = value[n][m]
    BY <2>3 DEF Write, Counter
  <2> HIDE DEF v
  <2>5. /\ value' = [value EXCEPT ![n] = v]
        /\ hasOldValue' = [hasOldValue EXCEPT ![n] = TRUE]
        /\ oldValue' = IF hasOldValue[n] THEN oldValue ELSE [oldValue EXCEPT ![n] = value[n]]
        /\ newValue' = [newValue EXCEPT ![n] = TRUE]
        /\ UNCHANGED <<mergeValues, waiting, calls, closing, committed, dialing>>
    BY <1>1 DEF WriteValue, v
  <2>6. value' \in [Node -> Counter] /\ oldValue' \in [Node -> Counter]
    BY <2>3, <2>4, <2>5
  <2>1. TypeOK'
    BY <2>0, <2>5, <2>6 DEF TypeOK
  <2>2. ASSUME NEW k \in Node PROVE ReplicaKnown(k)'
    <3>1. ReplicaKnown(k) /\ committed \in Counter /\ hasOldValue \in [Node -> BOOLEAN]
      BY <2>0 DEF TypeOK
    <3>2. CASE k = n
      <4>1. value'[n] = v /\ hasOldValue'[n] /\ committed' = committed
            /\ oldValue'[n] = IF hasOldValue[n] THEN oldValue[n] ELSE value[n]
        BY <2>3, <2>5, <3>1
      <4>2. committed[n] \in Nat
        BY <3>1 DEF Counter
      <4> QED BY <2>3, <2>4, <3>1, <3>2, <4>1, <4>2 DEF ReplicaKnown
    <3>3. CASE k # n
      <4>1. /\ value'[k] = value[k] /\ hasOldValue'[k] = hasOldValue[k]
            /\ oldValue'[k] = oldValue[k] /\ committed' = committed
        BY <2>3, <2>5, <3>1, <3>3
      <4> QED BY <3>1, <4>1 DEF ReplicaKnown
    <3> QED BY <3>2, <3>3
  <2> QED BY <1>1, <2>1, <2>2 DEF IInv, WriteValue, Known
<1>2. CASE Commit(n)
  <2>1. TypeOK' BY <1>2 DEF IInv, TypeOK, Commit, Counter
  <2>2. \A m \in Node : committed'[m] \in Nat /\ committed[m] \in Nat /\ committed[m] <= committed'[m]
    BY <1>2 DEF IInv, TypeOK, ReplicaKnown, Commit, Counter
  <2>3. ASSUME NEW v \in Counter, Known(v) PROVE Known(v)'
    BY <2>2, <2>3 DEF Known, Counter
  <2>4. ASSUME NEW k \in Node PROVE ReplicaKnown(k)'
    <3>1. /\ committed'[n] = value[n][n] /\ (k # n => committed'[k] = committed[k])
          /\ ~hasOldValue'[n] /\ (k # n => hasOldValue'[k] = hasOldValue[k])
          /\ UNCHANGED <<value, oldValue>>
      BY <1>2 DEF IInv, TypeOK, Commit, Counter
    <3>2. \A m \in Node : value[k][m] \in Nat /\ oldValue[k][m] \in Nat
      BY DEF IInv, TypeOK, Counter
    <3> QED BY <2>2, <3>1, <3>2 DEF IInv, ReplicaKnown
  <2>5. \A k \in Node : \A i \in DOMAIN mergeValues[k] : Known(mergeValues[k][i])'
    BY <1>2, <2>3 DEF IInv, TypeOK, Commit
  <2>6. \A c \in calls : Known(c.value)'
    BY <1>2, <2>3 DEF IInv, TypeOK, Commit, Call
  <2> QED BY <1>2, <2>1, <2>4, <2>5, <2>6 DEF IInv, Commit
<1>3. CASE Abort(n)
  <2>1. TypeOK' BY <1>3 DEF IInv, TypeOK, Abort
  <2>2. \A k \in Node : ReplicaKnown(k)'
    BY <1>3 DEF IInv, TypeOK, Abort, ReplicaKnown, Counter
  <2> QED BY <1>3, <2>1, <2>2 DEF IInv, Abort, Known
<1> QED BY <1>1, <1>2, <1>3

\* Broadcasts: only stable values are sent.
LEMMA BroadcastStep ==
    ASSUME IInv, NEW n \in Node, broadcast(n) \/ BroadcastSends(n)
    PROVE  IInv'
<1>1. CASE broadcast(n)
  <2>1. TypeOK' BY <1>1 DEF IInv, TypeOK, broadcast, replica
  <2> QED BY <1>1, <2>1 DEF IInv, broadcast, replica, ReplicaKnown, Known
<1>2. CASE BroadcastSends(n)
  <2> DEFINE Sent(S) == {[from |-> n, to |-> p, stage |-> "sent", value |-> getStableValue(n)] : p \in S}
  <2>1. PICK S \in Reachable(n) :
          waiting' = [waiting EXCEPT ![n] = S] /\ calls' = calls \union Sent(S)
    BY <1>2 DEF BroadcastSends
  <2>2. S \subseteq Node BY <2>1 DEF Reachable
  <2>3. getStableValue(n) \in Counter /\ Known(getStableValue(n)) BY StableIsKnown
  <2>4. Sent(S) \subseteq Call /\ \A c \in Sent(S) : Known(c.value)
    BY <2>2, <2>3 DEF Call
  <2> HIDE DEF Sent
  <2>5. TypeOK' BY <1>2, <2>1, <2>2, <2>4 DEF IInv, TypeOK, BroadcastSends, replica
  <2>6. UNCHANGED <<value, oldValue, hasOldValue, mergeValues, committed>>
    BY <1>2 DEF BroadcastSends, replica
  <2>7. \A c \in calls' : Known(c.value)' BY <2>1, <2>4, <2>6 DEF IInv, Known
  <2>8. \A k \in Node : ReplicaKnown(k)' BY <2>6 DEF IInv, ReplicaKnown
  <2>9. \A k \in Node : \A i \in DOMAIN mergeValues'[k] : Known(mergeValues[k][i])'
    BY <2>6 DEF IInv, Known
  <2> QED BY <2>5, <2>7, <2>8, <2>9 DEF IInv
<1> QED BY <1>1, <1>2

\* A value that is queued is one that travelled.
LEMMA QueueStep ==
    ASSUME IInv, NEW n \in Node, NEW v \in Counter, Known(v),
           mergeValues' = [mergeValues EXCEPT ![n] = Append(@, v)],
           UNCHANGED committed
    PROVE  /\ mergeValues' \in [Node -> Seq(Counter)]
           /\ \A k \in Node \ {n} : mergeValues'[k] = mergeValues[k]
           /\ Len(mergeValues'[n]) = Len(mergeValues[n]) + 1
           /\ \A k \in Node : \A i \in DOMAIN mergeValues'[k] : Known(mergeValues[k][i])'
<1>1. mergeValues \in [Node -> Seq(Counter)] BY DEF IInv, TypeOK
<1>2. /\ mergeValues' \in [Node -> Seq(Counter)]
      /\ mergeValues'[n] = Append(mergeValues[n], v)
      /\ \A k \in Node \ {n} : mergeValues'[k] = mergeValues[k]
  BY <1>1
<1>3. ASSUME NEW i \in DOMAIN mergeValues'[n]
      PROVE  Known(mergeValues'[n][i])
  <2> DEFINE q == mergeValues[n]
  <2>1. q \in Seq(Counter) /\ mergeValues'[n] = Append(q, v) /\ \A l \in DOMAIN q : Known(q[l])
    BY <1>1, <1>2 DEF IInv
  <2> HIDE DEF q
  <2>2. /\ Len(q) \in Nat /\ DOMAIN q = 1 .. Len(q) /\ i \in 1 .. Len(q) + 1
        /\ Append(q, v)[Len(q) + 1] = v /\ \A l \in 1 .. Len(q) : Append(q, v)[l] = q[l]
    BY <2>1
  <2> QED BY <2>1, <2>2
<1>4. \A k \in Node : \A i \in DOMAIN mergeValues'[k] : Known(mergeValues'[k][i])
  BY <1>2, <1>3 DEF IInv
<1> QED BY <1>1, <1>2, <1>4 DEF Known

\* Calls: values are queued, and stable values are answered.
LEMMA CallStepKeeps ==
    ASSUME IInv, NEW c \in calls, CallStep(c)
    PROVE  IInv'
<1>0. /\ c \in Call /\ c.from \in Node /\ c.to \in Node /\ c.value \in Counter /\ Known(c.value)
      /\ mergeValues \in [Node -> Seq(Counter)]
      /\ \A k \in Node : Len(mergeValues[k]) \in Nat /\ Len(mergeValues[k]) <= QueueSize
  BY DEF IInv, TypeOK, Call
<1>1. UNCHANGED <<value, oldValue, hasOldValue, committed>>
  BY DEF CallStep, BroadcastReply, ReceiveValue, ReceiveValueReplies, replica
<1>2. \A k \in Node : ReplicaKnown(k)' BY <1>1 DEF IInv, ReplicaKnown
<1>3. CASE BroadcastReply(c)
  <2>1. /\ mergeValues' \in [Node -> Seq(Counter)]
        /\ \A k \in Node \ {c.from} : mergeValues'[k] = mergeValues[k]
        /\ Len(mergeValues'[c.from]) = Len(mergeValues[c.from]) + 1
        /\ \A k \in Node : \A i \in DOMAIN mergeValues'[k] : Known(mergeValues[k][i])'
    BY <1>0, <1>1, <1>3, QueueStep DEF BroadcastReply
  <2>2. \A k \in Node : Len(mergeValues'[k]) <= QueueSize
    BY <1>0, <1>3, <2>1, BoundAssumption DEF BroadcastReply
  <2>3. TypeOK' BY <1>3, <2>1, <2>2 DEF IInv, TypeOK, BroadcastReply, replica
  <2>4. \A d \in calls' : Known(d.value)' BY <1>1, <1>3 DEF IInv, Known, BroadcastReply
  <2> QED BY <1>2, <2>1, <2>3, <2>4 DEF IInv
<1>4. CASE ReceiveValue(c)
  <2> DEFINE q == [c EXCEPT !.stage = "queued"]
  <2>1. /\ mergeValues' \in [Node -> Seq(Counter)]
        /\ \A k \in Node \ {c.to} : mergeValues'[k] = mergeValues[k]
        /\ Len(mergeValues'[c.to]) = Len(mergeValues[c.to]) + 1
        /\ \A k \in Node : \A i \in DOMAIN mergeValues'[k] : Known(mergeValues[k][i])'
    BY <1>0, <1>1, <1>4, QueueStep DEF ReceiveValue
  <2>2. \A k \in Node : Len(mergeValues'[k]) <= QueueSize
    BY <1>0, <1>4, <2>1, BoundAssumption DEF ReceiveValue
  <2>3. q \in Call /\ q.value = c.value BY <1>0 DEF Call
  <2>4. calls' = (calls \ {c}) \union {q} BY <1>4 DEF ReceiveValue
  <2> HIDE DEF q
  <2>5. TypeOK' BY <1>4, <2>1, <2>2, <2>3, <2>4 DEF IInv, TypeOK, ReceiveValue, replica
  <2>6. \A d \in calls' : Known(d.value)' BY <1>0, <1>1, <2>3, <2>4 DEF IInv, Known
  <2> QED BY <1>2, <2>1, <2>5, <2>6 DEF IInv
<1>5. CASE ReceiveValueReplies(c)
  <2> DEFINE q == [c EXCEPT !.stage = "answered", !.value = getStableValue(c.to)]
  <2>1. getStableValue(c.to) \in Counter /\ Known(getStableValue(c.to)) BY <1>0, StableIsKnown
  <2>2. q \in Call /\ q.value = getStableValue(c.to) BY <1>0, <2>1 DEF Call
  <2>3. calls' \subseteq calls \union {q} BY <1>5 DEF ReceiveValueReplies
  <2> HIDE DEF q
  <2>4. TypeOK' BY <1>5, <2>2, <2>3 DEF IInv, TypeOK, ReceiveValueReplies, replica
  <2>5. \A d \in calls' : Known(d.value)' BY <1>1, <2>1, <2>2, <2>3 DEF IInv, Known
  <2>6. UNCHANGED mergeValues BY <1>5 DEF ReceiveValueReplies
  <2>7. \A k \in Node : \A i \in DOMAIN mergeValues'[k] : Known(mergeValues[k][i])'
    BY <1>1, <2>6 DEF IInv, Known
  <2> QED BY <1>2, <2>4, <2>5, <2>7 DEF IInv
<1> QED BY <1>3, <1>4, <1>5 DEF CallStep

\* The merger: in whatever state of the section, no entry goes beyond what is committed,
\* and the node's own entry is not touched.
LEMMA MergerStep ==
    ASSUME IInv, NEW n \in Node, merger(n)
    PROVE  IInv'
<1> DEFINE h == Head(mergeValues[n])
<1>0. /\ value \in [Node -> Counter] /\ value[n] \in Counter /\ committed \in Counter
      /\ mergeValues \in [Node -> Seq(Counter)] /\ mergeValues[n] \in Seq(Counter)
      /\ mergeValues[n] # <<>>
      /\ UNCHANGED <<oldValue, hasOldValue, committed>>
      /\ value' = [value EXCEPT ![n] = Merge(value[n], h)]
      /\ mergeValues' = [mergeValues EXCEPT ![n] = Tail(mergeValues[n])]
  BY DEF IInv, TypeOK, merger
<1>1. h \in Counter /\ 1 \in DOMAIN mergeValues[n] /\ h = mergeValues[n][1]
  BY <1>0
<1>2. Known(h) BY <1>1 DEF IInv
<1> HIDE DEF h
<1>3. /\ Merge(value[n], h) \in Counter
      /\ \A m \in Node : Merge(value[n], h)[m] >= value[n][m] /\ Merge(value[n], h)[m] \in {value[n][m], h[m]}
  BY <1>0, <1>1, MergeIsJoin
<1> DEFINE v == Merge(value[n], h)
<1> HIDE DEF v
<1>4. /\ v \in Counter /\ value'[n] = v
      /\ \A k \in Node \ {n} : value'[k] = value[k]
      /\ \A m \in Node : v[m] >= value[n][m] /\ v[m] \in {value[n][m], h[m]}
  BY <1>0, <1>3 DEF v
<1>5. v[n] = value[n][n]
  BY <1>0, <1>1, <1>2, <1>4, BoundAssumption DEF IInv, ReplicaKnown, Known, Counter
<1>6. \A m \in Node \ {n} : v[m] <= committed[m]
  BY <1>1, <1>2, <1>4 DEF IInv, ReplicaKnown, Known
<1>7. \A k \in Node : ReplicaKnown(k)'
  BY <1>0, <1>4, <1>5, <1>6 DEF IInv, ReplicaKnown
<1>8. /\ mergeValues' \in [Node -> Seq(Counter)]
      /\ mergeValues'[n] = Tail(mergeValues[n])
      /\ \A k \in Node \ {n} : mergeValues'[k] = mergeValues[k]
  BY <1>0
<1>9. /\ Len(mergeValues'[n]) <= Len(mergeValues[n])
      /\ Len(mergeValues[n]) \in Nat /\ Len(mergeValues'[n]) \in Nat
      /\ \A i \in DOMAIN mergeValues'[n] : i + 1 \in DOMAIN mergeValues[n] /\ mergeValues'[n][i] = mergeValues[n][i + 1]
  BY <1>0, <1>8
<1>10. ASSUME NEW k \in Node PROVE Len(mergeValues'[k]) <= QueueSize
  <2>1. Len(mergeValues[k]) <= QueueSize /\ QueueSize \in Nat BY BoundAssumption DEF IInv, TypeOK
  <2>2. CASE k = n BY <1>9, <2>1, <2>2
  <2>3. CASE k # n BY <1>8, <2>1, <2>3
  <2> QED BY <2>2, <2>3
<1>11. TypeOK'
  BY <1>0, <1>3, <1>8, <1>10 DEF IInv, TypeOK, merger
<1>12. \A k \in Node : \A i \in DOMAIN mergeValues'[k] : Known(mergeValues'[k][i])
  BY <1>8, <1>9 DEF IInv
<1>13. \A k \in Node : \A i \in DOMAIN mergeValues'[k] : Known(mergeValues[k][i])'
  BY <1>0, <1>12 DEF Known
<1>14. \A c \in calls' : Known(c.value)' BY <1>0 DEF IInv, merger, Known
<1> QED BY <1>7, <1>11, <1>13, <1>14 DEF IInv

\* Steps that change no value.
LEMMA OtherStep ==
    ASSUME IInv, NEW n \in Node, NEW p \in Node, BroadcastGivesUp(n, p) \/ Close(n)
    PROVE  IInv'
<1>1. UNCHANGED <<value, oldValue, hasOldValue, mergeValues, calls, committed>>
  BY DEF BroadcastGivesUp, Close, replica
<1>2. CASE BroadcastGivesUp(n, p)
  <2>1. TypeOK' BY <1>1, <1>2 DEF IInv, TypeOK, BroadcastGivesUp, replica
  <2> QED BY <1>1, <2>1 DEF IInv, ReplicaKnown, Known
<1>3. CASE Close(n)
  <2>1. UNCHANGED <<newValue, dialing, waiting>> BY <1>3 DEF Close
  <2>2. closing' \in [Node -> {"no", "closing", "closed"}] BY <1>3 DEF IInv, TypeOK, Close
  <2>3. TypeOK' BY <1>1, <2>1, <2>2 DEF IInv, TypeOK
  <2> QED BY <1>1, <2>3 DEF IInv, ReplicaKnown, Known
<1> QED BY <1>2, <1>3

-----------------------------------------------------------------------------
LEMMA NextIInv == IInv /\ [Next]_vars => IInv'
<1> SUFFICES ASSUME IInv, [Next]_vars PROVE IInv' OBVIOUS
<1>1. CASE UNCHANGED vars
  <2>1. TypeOK' BY <1>1 DEF IInv, TypeOK, vars, replica
  <2> QED BY <1>1, <2>1 DEF IInv, vars, replica, ReplicaKnown, Known
<1>2. CASE Next
  BY <1>1, <1>2, SectionStep, BroadcastStep, MergerStep, OtherStep, CallStepKeeps
  DEF Next, Terminated
<1> QED BY <1>1, <1>2

\* The strengthened invariant.
THEOREM Inductive == Spec => []IInv
BY InitIInv, NextIInv, PTL DEF Spec

\* The types of the variables, and the capacity of mergeValues.
THEOREM TypeCorrect == Spec => []TypeOK
<1>1. IInv => TypeOK BY DEF IInv
<1> QED BY <1>1, Inductive, PTL

\* Uncommitted writes never leave their node.
THEOREM CommittedOnly == Spec => []OnlyCommittedSpreads
<1>1. IInv => OnlyCommittedSpreads BY DEF IInv, ReplicaKnown, OnlyCommittedSpreads
<1> QED BY <1>1, Inductive, PTL

\* A node loses nothing of its own count and gets nothing added to it.
THEOREM OwnCount == Spec => []OwnCountIsKept
<1>1. IInv => OwnCountIsKept
  BY BoundAssumption DEF IInv, TypeOK, Counter, ReplicaKnown, OwnCountIsKept, getStableValue
<1> QED BY <1>1, Inductive, PTL
=============================================================================
