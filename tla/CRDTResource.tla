---------------------------- MODULE CRDTResource ----------------------------
(***************************************************************************)
(* Replicas of a state-based CRDT as archetype resources                   *)
(* (distsys/resources/crdt.go), holding a grow-only counter (gcounter.go). *)
(* Four kinds of goroutines work on a replica: its archetype (WriteValue,  *)
(* Commit, Abort), runBroadcasts, the merger, and one per ReceiveValue     *)
(* call of a peer.  A step holds stateLock, or works on a channel or on    *)
(* the network.  The merger takes a value off its channel and merges it in *)
(* one step.  A broadcast may take the replies of its calls in any order.  *)
(***************************************************************************)
EXTENDS Naturals, Sequences, FiniteSets

CONSTANTS
    Node,
    QueueSize,   \* the capacity of mergeValues
    MaxWrites,   \* bound: the count of a node
    MaxCalls,    \* bound: the calls of a node under way, those it has given up included
    MayAbort,    \* whether sections may abort
    Lossy,       \* whether peers may be out of reach and calls may time out
    MayClose     \* the nodes whose resource may be closed

ASSUME BoundAssumption == {MaxWrites, MaxCalls, QueueSize} \subseteq Nat
ASSUME SwitchAssumption == MayAbort \in BOOLEAN /\ Lossy \in BOOLEAN /\ MayClose \subseteq Node

VARIABLES
    value, oldValue, hasOldValue,
    mergeValues,
    newValue,       \* whether there is a signal in the channel newValue
    dialing,        \* per node: whether its broadcast has taken the signal and dials its peers
    waiting,        \* per node: the peers that its broadcast has still to wait for
    calls,          \* the ReceiveValue calls under way
    closing,        \* per node: "no", "closing" (closeChan is closed), "closed"
    committed       \* history: what each node has counted and committed

replica == <<value, oldValue, hasOldValue>>
vars == <<replica, mergeValues, newValue, dialing, waiting, calls, closing, committed>>

Counter == [Node -> 0 .. MaxWrites]
Zero == [m \in Node |-> 0]
Call == [from : Node, to : Node, stage : {"sent", "queued", "answered"}, value : Counter]

\* GCounter.Merge
Merge(c, d) == [m \in Node |-> IF c[m] < d[m] THEN d[m] ELSE c[m]]

\* GCounter.Write of 1 by n.
Write(c, n) == [c EXCEPT ![n] = @ + 1]

\* Mutant: what the section in progress has written is given away.
LatestValue(n) == value[n]

getStableValue(n) == IF hasOldValue[n] THEN oldValue[n] ELSE value[n]

Init ==
    /\ value = [n \in Node |-> Zero]
    /\ oldValue = [n \in Node |-> Zero]
    /\ hasOldValue = [n \in Node |-> FALSE]
    /\ mergeValues = [n \in Node |-> <<>>]
    /\ newValue = [n \in Node |-> FALSE]
    /\ dialing = [n \in Node |-> FALSE]
    /\ waiting = [n \in Node |-> {}]
    /\ calls = {}
    /\ closing = [n \in Node |-> "no"]
    /\ committed = Zero

-----------------------------------------------------------------------------
(* The archetype *)

\* Mutant: every write saves the value before it.
WriteValueSavesAlways(n) ==
    /\ closing[n] = "no"
    /\ value[n][n] < MaxWrites
    /\ oldValue' = [oldValue EXCEPT ![n] = value[n]]
    /\ hasOldValue' = [hasOldValue EXCEPT ![n] = TRUE]
    /\ value' = [value EXCEPT ![n] = Write(@, n)]
    /\ newValue' = [newValue EXCEPT ![n] = TRUE]
    /\ UNCHANGED <<mergeValues, waiting, calls, closing, committed, dialing>>

WriteValue(n) ==
    /\ closing[n] = "no"
    /\ value[n][n] < MaxWrites
    /\ oldValue' = IF hasOldValue[n] THEN oldValue ELSE [oldValue EXCEPT ![n] = value[n]]
    /\ hasOldValue' = [hasOldValue EXCEPT ![n] = TRUE]
    /\ value' = [value EXCEPT ![n] = Write(@, n)]
    /\ newValue' = [newValue EXCEPT ![n] = TRUE]
    /\ UNCHANGED <<mergeValues, waiting, calls, closing, committed, dialing>>

Commit(n) ==
    /\ hasOldValue[n]
    /\ hasOldValue' = [hasOldValue EXCEPT ![n] = FALSE]
    /\ committed' = [committed EXCEPT ![n] = value[n][n]]
    /\ UNCHANGED <<value, oldValue, mergeValues, newValue, waiting, calls, closing, dialing>>

Abort(n) ==
    /\ MayAbort
    /\ hasOldValue[n]
    /\ value' = [value EXCEPT ![n] = oldValue[n]]
    /\ hasOldValue' = [hasOldValue EXCEPT ![n] = FALSE]
    /\ UNCHANGED <<oldValue, mergeValues, newValue, waiting, calls, closing, committed, dialing>>

-----------------------------------------------------------------------------
(* runBroadcasts *)

\* The peers tryConnectPeers has a connection to.
Reachable(n) ==
    LET peers == Node \ {n} IN
    {S \in SUBSET peers : Lossy \/ {p \in peers : closing[p] # "closed"} \subseteq S}

broadcast(n) ==
    /\ closing[n] = "no"
    /\ ~dialing[n] /\ waiting[n] = {}
    /\ newValue[n]
    /\ newValue' = [newValue EXCEPT ![n] = FALSE]
    /\ dialing' = [dialing EXCEPT ![n] = TRUE]
    /\ UNCHANGED <<replica, mergeValues, waiting, calls, closing, committed>>

\* The peers have been dialled: the value is read and sent to those that can be reached.
BroadcastSends(n) ==
    /\ dialing[n]
    /\ dialing' = [dialing EXCEPT ![n] = FALSE]
    /\ \E S \in Reachable(n) :
        /\ waiting' = [waiting EXCEPT ![n] = S]
        /\ calls' = calls \union
             {[from |-> n, to |-> p, stage |-> "sent", value |-> getStableValue(n)] : p \in S}
        /\ Cardinality({c \in calls' : c.from = n}) <= MaxCalls
    /\ UNCHANGED <<replica, mergeValues, newValue, closing, committed>>

\* The call c is done; its reply is passed on to the merger (prepMerge).
BroadcastReply(c) ==
    /\ c.stage = "answered"
    /\ c.to \in waiting[c.from]
    /\ Len(mergeValues[c.from]) < QueueSize
    /\ mergeValues' = [mergeValues EXCEPT ![c.from] = Append(@, c.value)]
    /\ waiting' = [waiting EXCEPT ![c.from] = @ \ {c.to}]
    /\ calls' = calls \ {c}
    /\ UNCHANGED <<replica, newValue, closing, committed, dialing>>

\* The call to p fails or times out; what p does with it is no longer of interest.
BroadcastGivesUp(n, p) ==
    /\ p \in waiting[n]
    /\ Lossy \/ closing[p] = "closed"
    /\ waiting' = [waiting EXCEPT ![n] = @ \ {p}]
    /\ UNCHANGED <<replica, mergeValues, newValue, calls, closing, committed, dialing>>

-----------------------------------------------------------------------------
(* CRDTRPCReceiver.ReceiveValue *)

\* prepMerge, which blocks while mergeValues is full.
ReceiveValue(c) ==
    /\ c.stage = "sent"
    /\ Len(mergeValues[c.to]) < QueueSize
    /\ mergeValues' = [mergeValues EXCEPT ![c.to] = Append(@, c.value)]
    /\ calls' = (calls \ {c}) \union {[c EXCEPT !.stage = "queued"]}
    /\ UNCHANGED <<replica, newValue, waiting, closing, committed, dialing>>

\* The reply; it is lost if the caller has given up.
ReceiveValueReplies(c) ==
    /\ c.stage = "queued"
    /\ calls' = (calls \ {c}) \union
         {r \in {[c EXCEPT !.stage = "answered", !.value = getStableValue(c.to)]} :
            c.to \in waiting[c.from]}
    /\ UNCHANGED <<replica, mergeValues, newValue, waiting, closing, committed, dialing>>

-----------------------------------------------------------------------------
merger(n) ==
    /\ closing[n] = "no"
    /\ mergeValues[n] # <<>>
    /\ value' = [value EXCEPT ![n] = Merge(@, Head(mergeValues[n]))]
    /\ mergeValues' = [mergeValues EXCEPT ![n] = Tail(@)]
    /\ UNCHANGED <<oldValue, hasOldValue, newValue, waiting, calls, closing, committed, dialing>>

\* Close: the merger and, between two broadcasts, runBroadcasts see it and return.
Close(n) ==
    /\ n \in MayClose
    /\ \/ closing[n] = "no" /\ ~hasOldValue[n] /\ closing' = [closing EXCEPT ![n] = "closing"]
       \/ closing[n] = "closing" /\ ~dialing[n] /\ waiting[n] = {} /\ closing' = [closing EXCEPT ![n] = "closed"]
    /\ UNCHANGED <<replica, mergeValues, newValue, waiting, calls, committed, dialing>>

\* Every archetype has used up its bound, and every broadcast is over.
Terminated ==
    /\ \A n \in Node : /\ closing[n] = "closed" \/ committed[n] = MaxWrites
                       /\ ~dialing[n] /\ waiting[n] = {} /\ ~hasOldValue[n]
    /\ UNCHANGED vars

-----------------------------------------------------------------------------
CallStep(c) == BroadcastReply(c) \/ ReceiveValue(c) \/ ReceiveValueReplies(c)

Next ==
    \/ \E n \in Node :
        \/ WriteValue(n) \/ Commit(n) \/ Abort(n)
        \/ broadcast(n) \/ BroadcastSends(n) \/ merger(n) \/ Close(n)
        \/ \E p \in Node : BroadcastGivesUp(n, p)
    \/ \E c \in calls : CallStep(c)
    \/ Terminated

Spec == Init /\ [][Next]_vars

\* Sections end, the ticker ticks, and goroutines that can go on do.
FairSpec ==
    /\ Spec
    /\ \A n \in Node :
        /\ WF_vars(Commit(n) \/ Abort(n)) /\ WF_vars(merger(n))
        /\ WF_vars(broadcast(n)) /\ WF_vars(BroadcastSends(n))
        /\ WF_vars(closing[n] = "closing" /\ Close(n))
        /\ \A p \in Node : WF_vars(BroadcastGivesUp(n, p))
    /\ \A c \in Call : WF_vars(c \in calls /\ CallStep(c))

-----------------------------------------------------------------------------
(* Properties *)

TypeOK ==
    /\ value \in [Node -> Counter]
    /\ oldValue \in [Node -> Counter]
    /\ hasOldValue \in [Node -> BOOLEAN]
    /\ mergeValues \in [Node -> Seq(Counter)]
    /\ \A n \in Node : Len(mergeValues[n]) <= QueueSize
    /\ newValue \in [Node -> BOOLEAN]
    /\ dialing \in [Node -> BOOLEAN]
    /\ waiting \in [Node -> SUBSET Node]
    /\ calls \subseteq Call
    /\ closing \in [Node -> {"no", "closing", "closed"}]
    /\ committed \in Counter

\* No replica knows of more than another node has committed: what a section wrote never
\* leaves the node before Commit, on none of the ways a value travels.
OnlyCommittedSpreads ==
    \A n \in Node : \A m \in Node \ {n} : value[n][m] <= committed[m]

\* What a node counted stays: whatever is merged, committed and aborted in whatever
\* order, its own entry is what it has committed, plus what its section has added.
OwnCountIsKept ==
    \A n \in Node :
        /\ getStableValue(n)[n] = committed[n]
        /\ value[n][n] >= committed[n]

\* A value that was sent reaches the replica it was sent to, even if the sender gave up
\* waiting, unless the receiver aborts a section or closes.
SentArrives ==
    \A c \in Call :
        c \in calls /\ c.stage = "sent"
            ~> closing[c.to] # "no" \/ \A m \in Node : value[c.to][m] >= c.value[m]

\* A replica forgets nothing of what it has merged.
MergedIsKept ==
    [][\A n \in Node : \A m \in Node \ {n} : value'[n][m] >= value[n][m]]_vars

\* Every peer hears of what is committed.
CommittedArrives ==
    \A n, m \in Node : \A k \in 1 .. MaxWrites : committed[n] >= k ~> value[m][n] >= k

\* Close stops the background jobs and returns.
CloseEnds == \A n \in Node : closing[n] = "closing" ~> closing[n] = "closed"
=============================================================================
