------------------------- MODULE ReplicatedKVProofs -------------------------
(***************************************************************************)
(* Proofs for ReplicatedKV, for any number of replicas and clients, any    *)
(* processes of each client and any size of the channels: a replica hears  *)
(* nothing of a client that has left, and every replica has applied a put  *)
(* that is complete.                                                       *)
(*                                                                         *)
(* The first needs to know how far the broadcast of a disconnection is.    *)
(* For the second a put is followed through a replica: at most one message *)
(* of the client's is there, in the channel, among the pending requests or *)
(* among the stable ones, until the put is applied; and the responses of   *)
(* the put are counted.                                                    *)
(***************************************************************************)
EXTENDS ReplicatedKV, FiniteSetTheorems, WellFoundedInduction, TLAPS

Stamped(ops) == [op : ops, client : ClientSet, timestamp : Nat]
Request == Stamped({"get", "put"})
Message == Stamped({"get", "put", "null"}) \cup [op : {"disconnect"}, client : ClientSet]

\* A put, a null message, or none so far.
Unsent == [op |-> "none"]
OwnPut(c, m) == m = Unsent \/ (m \in Stamped({"put"}) /\ m.client = c)
OwnNull(c, m) == m = Unsent \/ (m \in Stamped({"null"}) /\ m.client = c)

KVTypes ==
    /\ clock \in [ClientSet -> Nat \cup {Disconnected}]
    /\ replicas \in [ReplicaSet -> Seq(Message)]
    /\ mailboxes \in [Mailboxes -> Seq({"ok"} \cup Int)]
    /\ liveClients \in [ReplicaSet -> SUBSET ClientSet]
    /\ pendingRequests \in [ReplicaSet -> [ClientSet -> Seq(Request)]]
    /\ stableMessages \in [ReplicaSet -> Seq(Request)]
    /\ applied \in [ReplicaSet -> Seq(Stamped({"put"}))]
    /\ leaveJ \in [ClientSet -> Nat]
    /\ putJ \in [ClientSet -> Nat]
    /\ putI \in [ClientSet -> Nat]

\* The processes of a client: what they send, and where in a broadcast they are.
ClientOK(c) ==
    /\ OwnPut(c, putReq[c]) /\ OwnNull(c, tickMsg[c])
    /\ putPc[c] = "putBroadcast" => putReq[c] # Unsent /\ putJ[c] \in ReplicaSet
    /\ tickPc[c] = "nullBroadcast" => tickMsg[c] # Unsent /\ tickJ[c] \in ReplicaSet
    /\ leavePc[c] = "sendDisconnectRequest" => leaveJ[c] = 0
    /\ leavePc[c] = "disconnectBroadcast" => ~Connected(c) /\ leaveJ[c] \in ReplicaSet
    /\ Connected(c) => leaveJ[c] = 0

PendingOK == \A r \in ReplicaSet, c \in ClientSet :
    \A k \in 1..Len(pendingRequests[r][c]) : pendingRequests[r][c][k].client = c

-----------------------------------------------------------------------------
(* The last message of a client *)

\* Nothing follows a disconnection, and only live clients are heard of.
QueueOK(q, live) ==
    /\ \A k \in 1..Len(q) : q[k].client \in live
    /\ \A k, l \in 1..Len(q) : l < k /\ q[l].op = "disconnect" => q[l].client # q[k].client

\* r has not been sent the disconnection of c.
Present(q, live, c) ==
    c \in live /\ \A k \in 1..Len(q) : q[k].client = c => q[k].op # "disconnect"

LeaveInv ==
    \A r \in ReplicaSet :
        /\ QueueOK(replicas[r], liveClients[r])
        /\ \A c \in ClientSet : r >= leaveJ[c] => Present(replicas[r], liveClients[r], c)

-----------------------------------------------------------------------------
(* The put of a client *)

IsPut(m, c) == m.op = "put" /\ m.client = c

\* At most one put of c, the message m, and none unless it may be here.
AtMost(q, c, m, here) ==
    /\ \A k \in 1..Len(q) : IsPut(q[k], c) => q[k] = m /\ here
    /\ \A k, l \in 1..Len(q) : IsPut(q[k], c) /\ IsPut(q[l], c) => k = l

Has(r, c) == Contains(applied[r], putReq[c])

\* r has not been sent the put.
Ahead(r, c) == putPc[c] = "putBroadcast" /\ r >= putJ[c]

\* Where at r the put of c is, if anywhere.
At(place, r, c) ==
    /\ AtMost(replicas[r], c, putReq[c], place = "channel")
    /\ AtMost(pendingRequests[r][c], c, putReq[c], place = "pending")
    /\ AtMost(stableMessages[r], c, putReq[c], place = "stable")
    /\ Has(r, c) \/ Ahead(r, c) \/ putPc[c] = "putRequest" => place = "none"
Place == {"channel", "pending", "stable", "none"}

\* Puts are older than the next one.
NotNewer(c) ==
    /\ putReq[c] # Unsent => putReq[c].timestamp <= clock[c]
    /\ \A r \in ReplicaSet : \A k \in 1..Len(applied[r]) :
          applied[r][k].client = c => applied[r][k].timestamp <= clock[c]

Holders(c) == {r \in ReplicaSet : Has(r, c)}

\* The responses of the put, taken or not.
Counted(c) ==
    /\ putPc[c] \in {"putBroadcast", "putResponse"} =>
          putI[c] + Len(mailboxes[<<"put", c>>]) = Cardinality(Holders(c))
    /\ putPc[c] = "putRequest" =>
          /\ mailboxes[<<"put", c>>] = <<>>
          /\ puts[c] > 0 => Holders(c) = ReplicaSet

PutOK(c) ==
    /\ \A r \in ReplicaSet : \E place \in Place : At(place, r, c)
    /\ \A r \in ReplicaSet : Ahead(r, c) => ~Has(r, c)
    /\ NotNewer(c)
    /\ Counted(c)

PutInv == \A c \in ClientSet : Connected(c) => PutOK(c)

ProcessTypes ==
    /\ putPc \in [ClientSet -> {"putRequest", "putBroadcast", "putResponse", "Done"}]
    /\ putReq \in [ClientSet -> {Unsent} \cup Stamped({"put"})]
    /\ puts \in [ClientSet -> Nat]
    /\ leavePc \in [ClientSet -> {"sendDisconnectRequest", "disconnectBroadcast", "Done"}]
    /\ tickPc \in [ClientSet -> {"clockUpdateLoop", "nullBroadcast", "Done"}]
    /\ tickMsg \in [ClientSet -> {Unsent} \cup Stamped({"null"})]
    /\ tickJ \in [ClientSet -> Nat]

ClientsInv == ProcessTypes /\ \A c \in ClientSet : ClientOK(c)

-----------------------------------------------------------------------------
(* Types *)

\* Sending and receiving one message.
LEMMA SequenceStep ==
    ASSUME NEW S, NEW q \in Seq(S)
    PROVE  /\ \A m \in S : /\ Append(q, m) \in Seq(S) /\ Len(Append(q, m)) = Len(q) + 1
                           /\ Append(q, m)[Len(q) + 1] = m
                           /\ \A k \in 1..Len(q) : Append(q, m)[k] = q[k]
           /\ q # <<>> => /\ Tail(q) \in Seq(S) /\ Len(Tail(q)) = Len(q) - 1 /\ Len(q) >= 1
                          /\ Head(q) = q[1] /\ Head(q) \in S
                          /\ \A k \in 1..(Len(q) - 1) : Tail(q)[k] = q[k + 1]
           /\ Len(q) \in Nat
  OBVIOUS

\* An entry of a function of two arguments changes.
LEMMA Entry ==
    ASSUME NEW S, NEW T, NEW U, NEW f \in [S -> [T -> U]], NEW x \in S, NEW y \in T, NEW u \in U
    PROVE  LET g == [f EXCEPT ![x][y] = u] IN
           /\ g \in [S -> [T -> U]] /\ g[x][y] = u
           /\ \A z \in T : z # y => g[x][z] = f[x][z]
           /\ \A w \in S : w # x => g[w] = f[w]
  OBVIOUS

\* What a message to a replica does to the channels.
LEMMA SendIs ==
    ASSUME KVTypes, NEW r \in ReplicaSet, NEW m \in Message, SendToReplica(r, m)
    PROVE  /\ replicas' \in [ReplicaSet -> Seq(Message)]
           /\ replicas'[r] = Append(replicas[r], m)
           /\ \A s \in ReplicaSet : s # r => replicas'[s] = replicas[s]
<1>1. Append(replicas[r], m) \in Seq(Message)
  BY SequenceStep DEF KVTypes
<1> QED
  BY <1>1 DEF SendToReplica, KVTypes

\* What a response does to the mailboxes.
LEMMA ReplyIs ==
    ASSUME KVTypes, NEW box \in Mailboxes, NEW m \in {"ok"} \cup Int, SendToClient(box, m)
    PROVE  /\ mailboxes' \in [Mailboxes -> Seq({"ok"} \cup Int)]
           /\ mailboxes'[box] = Append(mailboxes[box], m)
           /\ \A b \in Mailboxes : b # box => mailboxes'[b] = mailboxes[b]
<1>1. Append(mailboxes[box], m) \in Seq({"ok"} \cup Int)
  BY SequenceStep DEF KVTypes
<1> QED
  BY <1>1 DEF SendToClient, KVTypes

\* What a client sends.
LEMMA Sendable ==
    ASSUME NEW c \in ClientSet, NEW t \in Nat
    PROVE  /\ [op |-> "get", client |-> c, timestamp |-> t] \in Message
           /\ [op |-> "disconnect", client |-> c] \in Message
           /\ \A m : (m # Unsent /\ (OwnPut(c, m) \/ OwnNull(c, m))) =>
                        m \in Message /\ m.client = c /\ m.op \in {"put", "null"}
           /\ OwnPut(c, [op |-> "put", client |-> c, timestamp |-> t])
           /\ OwnNull(c, [op |-> "null", client |-> c, timestamp |-> t])
           /\ [op |-> "put", client |-> c, timestamp |-> t] # Unsent
           /\ [op |-> "null", client |-> c, timestamp |-> t] # Unsent
  BY DEF Message, Stamped, OwnPut, OwnNull, Unsent

\* A clock that ticks.
LEMMA TickIs ==
    ASSUME KVTypes, NEW c \in ClientSet, Connected(c), Tick(c)
    PROVE  /\ clock[c] \in Nat /\ clock[c] + 1 \in Nat
           /\ clock' \in [ClientSet -> Nat \cup {Disconnected}] /\ clock'[c] = clock[c] + 1
           /\ \A d \in ClientSet : d # c => clock'[d] = clock[d]
           /\ \A d \in ClientSet : Connected(d)' <=> Connected(d)
<1>1. clock[c] \in Nat /\ clock[c] + 1 \in Nat
  BY DEF Connected, KVTypes
<1>2. /\ clock' \in [ClientSet -> Nat \cup {Disconnected}] /\ clock'[c] = clock[c] + 1
      /\ \A d \in ClientSet : d # c => clock'[d] = clock[d]
  BY <1>1 DEF Tick, KVTypes
<1> QED
  BY <1>1, <1>2 DEF Connected, Disconnected

\* The oldest of the stable requests exists.
LEMMA OldestIs ==
    ASSUME KVTypes, NEW r \in ReplicaSet, NEW n, Stable(r, n) # {}
    PROVE  MinClient(r, n) \in Stable(r, n)
<1> DEFINE S == Stable(r, n)
<1> DEFINE time(c) == Head(pendingRequests[r][c]).timestamp
<1> DEFINE R == OpToRel(<, Nat)
<1>1. ClientSet \subseteq Nat
  BY KVAssumption DEF ClientSet
<1>2. S \subseteq ClientSet /\ \A c \in S : pendingRequests[r][c] # <<>>
  BY DEF Stable, KVTypes
<1>3. \A c \in S : time(c) \in Nat
  <2> SUFFICES ASSUME NEW c \in S PROVE time(c) \in Nat
    OBVIOUS
  <2>1. pendingRequests[r][c] \in Seq(Request) /\ pendingRequests[r][c] # <<>>
    BY <1>2 DEF KVTypes
  <2>2. Head(pendingRequests[r][c]) \in Request
    BY <2>1, SequenceStep
  <2> QED
    BY <2>2 DEF Request, Stamped
<1> HIDE DEF S, time
<1>4. \A B \in SUBSET Nat : B # {} => \E x \in B : \A y \in B : x <= y
  <2> SUFFICES ASSUME NEW B \in SUBSET Nat, B # {} PROVE \E x \in B : \A y \in B : x <= y
    OBVIOUS
  <2> HIDE DEF R
  <2>1. PICK x \in B : \A y \in B : ~(<<y, x>> \in R)
    BY NatLessThanWellFounded, WFMin DEF R
  <2>2. \A y \in B : ~(y < x)
    BY <2>1 DEF R, OpToRel
  <2> QED
    BY <2>2
<1>5. PICK t \in {time(c) : c \in S} : \A u \in {time(c) : c \in S} : t <= u
  <2>1. {time(c) : c \in S} \subseteq Nat /\ {time(c) : c \in S} # {}
    BY <1>3 DEF S
  <2> QED
    BY <1>4, <2>1
<1>6. PICK c \in {d \in S : time(d) = t} : \A d \in {e \in S : time(e) = t} : c <= d
  <2>1. {d \in S : time(d) = t} \subseteq Nat /\ {d \in S : time(d) = t} # {}
    BY <1>1, <1>2, <1>5
  <2> QED
    BY <1>4, <2>1
<1>7. \A d \in S : time(c) < time(d) \/ (time(c) = time(d) /\ c <= d)
  BY <1>3, <1>5, <1>6
<1> QED
  BY <1>6, <1>7 DEF MinClient, S, time

\* One more stable request.
LEMMA FindStableIs ==
    ASSUME KVTypes, NEW r \in ReplicaSet, findStableRequestsLoop(r)
    PROVE  \E c \in ClientSet :
              /\ pendingRequests[r][c] # <<>>
              /\ stableMessages' = [stableMessages EXCEPT ![r] = Append(@, Head(pendingRequests[r][c]))]
              /\ pendingRequests' = [pendingRequests EXCEPT ![r][c] = Tail(@)]
<1>1. PICK n \in MinClocks(r) :
         /\ Stable(r, n) # {}
         /\ LET c == MinClient(r, n)
            IN /\ stableMessages' = [stableMessages EXCEPT ![r] = Append(@, Head(pendingRequests[r][c]))]
               /\ pendingRequests' = [pendingRequests EXCEPT ![r][c] = Tail(@)]
  BY DEF findStableRequestsLoop
<1>2. MinClient(r, n) \in Stable(r, n)
  BY <1>1, OldestIs
<1>3. MinClient(r, n) \in ClientSet /\ pendingRequests[r][MinClient(r, n)] # <<>>
  BY <1>2 DEF Stable, KVTypes
<1> QED
  BY <1>1, <1>3

\* Types are kept: one step of a replica after the other.
LEMMA FindStableTypes ==
    ASSUME KVTypes, PendingOK, NEW r \in ReplicaSet, findStableRequestsLoop(r)
    PROVE  KVTypes' /\ PendingOK'
<1>1. PICK c \in ClientSet :
         /\ pendingRequests[r][c] # <<>>
         /\ stableMessages' = [stableMessages EXCEPT ![r] = Append(@, Head(pendingRequests[r][c]))]
         /\ pendingRequests' = [pendingRequests EXCEPT ![r][c] = Tail(@)]
  BY FindStableIs
<1> DEFINE q == pendingRequests[r][c]
<1>2. /\ q \in Seq(Request) /\ Tail(q) \in Seq(Request) /\ Head(q) \in Request
      /\ Len(Tail(q)) = Len(q) - 1 /\ Len(q) \in Nat /\ \A k \in 1..(Len(q) - 1) : Tail(q)[k] = q[k + 1]
  <2>1. q \in Seq(Request)
    BY DEF KVTypes
  <2> QED
    BY <1>1, <2>1, SequenceStep
<1> DEFINE p == Tail(q)
<1>3. /\ p \in Seq(Request) /\ Len(p) = Len(q) - 1 /\ \A k \in 1..Len(p) : p[k] = q[k + 1]
      /\ pendingRequests' = [pendingRequests EXCEPT ![r][c] = p]
  BY <1>1, <1>2
<1> HIDE DEF p
<1>4. /\ pendingRequests' \in [ReplicaSet -> [ClientSet -> Seq(Request)]]
      /\ pendingRequests'[r][c] = p
      /\ \A d \in ClientSet : d # c => pendingRequests'[r][d] = pendingRequests[r][d]
      /\ \A s \in ReplicaSet : s # r => pendingRequests'[s] = pendingRequests[s]
  BY <1>3, Entry DEF KVTypes
<1>5. stableMessages' \in [ReplicaSet -> Seq(Request)]
  <2>1. Append(stableMessages[r], Head(q)) \in Seq(Request)
    BY <1>2, SequenceStep DEF KVTypes
  <2> QED
    BY <1>1, <2>1 DEF KVTypes
<1>6. UNCHANGED <<clock, replicas, mailboxes, liveClients, applied, leaveJ, putJ, putI>>
  BY DEF findStableRequestsLoop, leaveVars, putVars
<1>7. KVTypes'
  BY <1>4, <1>5, <1>6 DEF KVTypes
<1>8. \A k \in 1..Len(p) : p[k].client = c
  <2>1. \A k \in 1..Len(p) : k + 1 \in 1..Len(q)
    BY <1>2, <1>3
  <2>2. \A k \in 1..Len(q) : q[k].client = c
    BY DEF PendingOK
  <2> QED
    BY <1>3, <2>1, <2>2
<1>9. PendingOK'
  <2> SUFFICES ASSUME NEW s \in ReplicaSet, NEW d \in ClientSet
               PROVE  \A k \in 1..Len(pendingRequests'[s][d]) : pendingRequests'[s][d][k].client = d
    BY DEF PendingOK
  <2>1. CASE s = r /\ d = c
    BY <1>4, <1>8, <2>1
  <2>2. CASE ~(s = r /\ d = c)
    <3>1. pendingRequests'[s][d] = pendingRequests[s][d]
      BY <1>4, <2>2
    <3> QED
      BY <3>1 DEF PendingOK
  <2> QED
    BY <2>1, <2>2
<1> QED
  BY <1>7, <1>9

\* What a replica does with the next message.
LEMMA ReceiveIs ==
    ASSUME KVTypes, NEW r \in ReplicaSet, receiveClientRequest(r)
    PROVE  LET m == Head(replicas[r]) IN
           /\ replicas[r] # <<>> /\ m \in Message /\ m = replicas[r][1] /\ m.client \in ClientSet
           /\ replicas' = [replicas EXCEPT ![r] = Tail(@)]
           /\ liveClients' = IF m.op = "disconnect"
                             THEN [liveClients EXCEPT ![r] = @ \ {m.client}] ELSE liveClients
           /\ pendingRequests' = IF m.op \in {"get", "put"}
                                 THEN [pendingRequests EXCEPT ![r][m.client] = Append(@, m)]
                                 ELSE pendingRequests
           /\ m.op \in {"get", "put"} => m \in Request
           /\ UNCHANGED <<clock, mailboxes, stableMessages, applied, leaveVars, putVars, tickVars>>
<1> DEFINE m == Head(replicas[r])
<1>1. replicas[r] # <<>> /\ replicas[r] \in Seq(Message)
  BY DEF receiveClientRequest, KVTypes
<1>2. m \in Message /\ m = replicas[r][1]
  BY <1>1, SequenceStep
<1>3. m.client \in ClientSet /\ (m.op \in {"get", "put"} => m \in Request)
  BY <1>2 DEF Message, Request, Stamped
<1> HIDE DEF m
<1> QED
  BY <1>1, <1>2, <1>3 DEF receiveClientRequest, Heard, m

\* The next message: a request joins those of its client.
LEMMA ReceiveTypes ==
    ASSUME KVTypes, PendingOK, NEW r \in ReplicaSet, receiveClientRequest(r)
    PROVE  KVTypes' /\ PendingOK'
<1> DEFINE m == Head(replicas[r])
<1>1. /\ replicas[r] # <<>> /\ m \in Message /\ m.client \in ClientSet
      /\ replicas' = [replicas EXCEPT ![r] = Tail(@)]
      /\ liveClients' = IF m.op = "disconnect"
                        THEN [liveClients EXCEPT ![r] = @ \ {m.client}] ELSE liveClients
      /\ pendingRequests' = IF m.op \in {"get", "put"}
                            THEN [pendingRequests EXCEPT ![r][m.client] = Append(@, m)]
                            ELSE pendingRequests
      /\ m.op \in {"get", "put"} => m \in Request
      /\ UNCHANGED <<clock, mailboxes, stableMessages, applied, leaveJ, putJ, putI>>
  BY ReceiveIs DEF leaveVars, putVars
<1> HIDE DEF m
<1>2. replicas' \in [ReplicaSet -> Seq(Message)]
  <2>1. Tail(replicas[r]) \in Seq(Message)
    BY <1>1, SequenceStep DEF KVTypes
  <2> QED
    BY <1>1, <2>1 DEF KVTypes
<1>3. liveClients' \in [ReplicaSet -> SUBSET ClientSet]
  <2>1. liveClients[r] \ {m.client} \in SUBSET ClientSet
    BY DEF KVTypes
  <2> QED
    BY <1>1, <2>1 DEF KVTypes
<1>4. CASE m.op \in {"get", "put"}
  <2> DEFINE c == m.client
  <2> DEFINE q == pendingRequests[r][c]
  <2> DEFINE p == Append(q, m)
  <2>1. /\ p \in Seq(Request) /\ Len(p) = Len(q) + 1 /\ p[Len(q) + 1] = m
        /\ \A k \in 1..Len(q) : p[k] = q[k]
        /\ Len(q) \in Nat /\ pendingRequests' = [pendingRequests EXCEPT ![r][c] = p]
    <3>1. q \in Seq(Request) /\ m \in Request
      BY <1>1, <1>4 DEF KVTypes
    <3> QED
      BY <1>1, <1>4, <3>1, SequenceStep
  <2> HIDE DEF p
  <2>2. /\ pendingRequests' \in [ReplicaSet -> [ClientSet -> Seq(Request)]]
        /\ pendingRequests'[r][c] = p
        /\ \A d \in ClientSet : d # c => pendingRequests'[r][d] = pendingRequests[r][d]
        /\ \A s \in ReplicaSet : s # r => pendingRequests'[s] = pendingRequests[s]
    <3>1. pendingRequests \in [ReplicaSet -> [ClientSet -> Seq(Request)]]
      BY <1>1 DEF KVTypes
    <3>2. p \in Seq(Request) /\ r \in ReplicaSet /\ c \in ClientSet
      BY <1>1, <2>1
    <3> DEFINE g == [pendingRequests EXCEPT ![r][c] = p]
    <3>3. /\ g \in [ReplicaSet -> [ClientSet -> Seq(Request)]] /\ g[r][c] = p
          /\ \A d \in ClientSet : d # c => g[r][d] = pendingRequests[r][d]
          /\ \A s \in ReplicaSet : s # r => g[s] = pendingRequests[s]
      BY <3>1, <3>2, Entry
    <3> HIDE DEF g
    <3>4. pendingRequests' = g
      BY <2>1 DEF g
    <3> QED BY <3>3, <3>4
  <2>3. \A k \in 1..Len(p) : p[k].client = c
    <3>1. \A k \in 1..Len(q) : q[k].client = c
      BY <1>1 DEF PendingOK
    <3>2. \A k \in 1..Len(p) : k \in 1..Len(q) \/ k = Len(q) + 1
      BY <2>1
    <3> HIDE DEF q
    <3> QED
      BY <2>1, <3>1, <3>2
  <2>4. PendingOK'
    <3> SUFFICES ASSUME NEW s \in ReplicaSet, NEW d \in ClientSet
                 PROVE  \A k \in 1..Len(pendingRequests'[s][d]) : pendingRequests'[s][d][k].client = d
      BY DEF PendingOK
    <3>1. CASE s = r /\ d = c
      BY <2>2, <2>3, <3>1
    <3>2. CASE ~(s = r /\ d = c)
      <4>1. pendingRequests'[s][d] = pendingRequests[s][d]
        BY <2>2, <3>2
      <4> QED
        BY <4>1 DEF PendingOK
    <3> QED
      BY <3>1, <3>2
  <2> QED
    BY <1>1, <1>2, <1>3, <2>2, <2>4 DEF KVTypes
<1>5. CASE m.op \notin {"get", "put"}
  BY <1>1, <1>2, <1>3, <1>5 DEF KVTypes, PendingOK
<1> QED
  BY <1>4, <1>5

\* A response.
LEMMA RespondIs ==
    ASSUME KVTypes, NEW r \in ReplicaSet, respondStableGet(r) \/ respondStablePut(r)
    PROVE  LET m == Head(stableMessages[r]) IN
           /\ stableMessages[r] # <<>> /\ m \in Request /\ m = stableMessages[r][1]
           /\ m.client \in ClientSet
           /\ stableMessages' = [stableMessages EXCEPT ![r] = Tail(@)]
           /\ \/ m.op = "get" /\ UNCHANGED applied
                 /\ \E v \in Int : SendToClient(<<"get", m.client>>, v)
              \/ /\ m.op = "put" /\ SendToClient(<<"put", m.client>>, "ok")
                 /\ applied' = [applied EXCEPT ![r] = Append(@, m)]
           /\ UNCHANGED <<clock, replicas, liveClients, pendingRequests, leaveVars, putVars, tickVars>>
<1> DEFINE m == Head(stableMessages[r])
<1>1. stableMessages[r] # <<>> /\ stableMessages[r] \in Seq(Request)
  BY DEF respondStableGet, respondStablePut, Responded, KVTypes
<1>2. m \in Request /\ m = stableMessages[r][1] /\ m.client \in ClientSet
  <2>1. m \in Request /\ m = stableMessages[r][1]
    BY <1>1, SequenceStep
  <2> QED
    BY <2>1 DEF Request, Stamped
<1>3. Value(r) \in Int
  <2>1. applied[r] # <<>> => Last(applied[r]).client \in Int
    <3> SUFFICES ASSUME applied[r] # <<>> PROVE Last(applied[r]).client \in Int
      OBVIOUS
    <3>1. applied[r] \in Seq(Stamped({"put"})) /\ Len(applied[r]) >= 1
      BY SequenceStep DEF KVTypes
    <3>2. applied[r][Len(applied[r])] \in Stamped({"put"})
      BY <3>1
    <3>3. applied[r][Len(applied[r])].client \in ClientSet
      BY <3>2 DEF Stamped
    <3> QED
      BY <3>3, KVAssumption DEF Last, ClientSet
  <2> QED
    BY <2>1 DEF Value, NULL
<1> HIDE DEF m
<1> QED
  BY <1>1, <1>2, <1>3 DEF respondStableGet, respondStablePut, Responded, m

\* A response leaves requests and responses well-typed.
LEMMA RespondTypes ==
    ASSUME KVTypes, PendingOK, NEW r \in ReplicaSet, respondStableGet(r) \/ respondStablePut(r)
    PROVE  KVTypes' /\ PendingOK'
<1> DEFINE m == Head(stableMessages[r])
<1>1. /\ stableMessages[r] # <<>> /\ m \in Request /\ m.client \in ClientSet
      /\ stableMessages' = [stableMessages EXCEPT ![r] = Tail(@)]
      /\ \/ m.op = "get" /\ UNCHANGED applied
            /\ \E v \in Int : SendToClient(<<"get", m.client>>, v)
         \/ /\ m.op = "put" /\ SendToClient(<<"put", m.client>>, "ok")
            /\ applied' = [applied EXCEPT ![r] = Append(@, m)]
      /\ UNCHANGED <<clock, replicas, liveClients, pendingRequests, leaveJ, putJ, putI>>
  BY RespondIs DEF leaveVars, putVars
<1> HIDE DEF m
<1>2. stableMessages' \in [ReplicaSet -> Seq(Request)]
  <2>1. Tail(stableMessages[r]) \in Seq(Request)
    BY <1>1, SequenceStep DEF KVTypes
  <2> QED
    BY <1>1, <2>1 DEF KVTypes
<1>3. mailboxes' \in [Mailboxes -> Seq({"ok"} \cup Int)]
  <2>1. <<"get", m.client>> \in Mailboxes /\ <<"put", m.client>> \in Mailboxes
    BY <1>1 DEF Mailboxes
  <2> QED
    BY <1>1, <2>1, ReplyIs
<1>4. applied' \in [ReplicaSet -> Seq(Stamped({"put"}))]
  <2>1. CASE UNCHANGED applied
    BY <2>1 DEF KVTypes
  <2>2. CASE m.op = "put" /\ applied' = [applied EXCEPT ![r] = Append(@, m)]
    <3>1. m \in Stamped({"put"})
      BY <1>1, <2>2 DEF Request, Stamped
    <3>2. Append(applied[r], m) \in Seq(Stamped({"put"}))
      BY <3>1, SequenceStep DEF KVTypes
    <3> QED
      BY <2>2, <3>2 DEF KVTypes
  <2> QED
    BY <1>1, <2>1, <2>2
<1> QED
  BY <1>1, <1>2, <1>3, <1>4 DEF KVTypes, PendingOK

\* A replica's step, and one of Get, as the processes of the clients see them.
LEMMA ReplicaFrame ==
    ASSUME KVTypes, PendingOK, ClientsInv, NEW r \in ReplicaSet, Replica(r)
    PROVE  KVTypes' /\ PendingOK' /\ ClientsInv'
<1>1. UNCHANGED <<clock, leaveVars, putVars, tickVars>>
  BY DEF Replica, receiveClientRequest, findStableRequestsLoop, respondStableGet, respondStablePut, Responded
<1>2. ClientsInv'
  BY <1>1 DEF ClientsInv, ProcessTypes, ClientOK, Connected, leaveVars, putVars, tickVars
<1>3. KVTypes' /\ PendingOK'
  BY FindStableTypes, ReceiveTypes, RespondTypes DEF Replica
<1> QED
  BY <1>2, <1>3

\* The clients' processes leave the replicas alone.
LEMMA ClientFrame ==
    ASSUME NEW c \in ClientSet, Get(c) \/ Put(c) \/ Disconnect(c) \/ ClockUpdate(c)
    PROVE  /\ UNCHANGED replicaVars
           /\ Get(c) => UNCHANGED <<putVars, leaveVars, tickVars>>
           /\ Put(c) => UNCHANGED <<getVars, leaveVars, tickVars>>
           /\ Disconnect(c) => UNCHANGED <<getVars, putVars, tickVars, mailboxes>>
           /\ ClockUpdate(c) => UNCHANGED <<getVars, putVars, leaveVars, mailboxes>>
<1>1. Get(c) => UNCHANGED <<replicaVars, putVars, leaveVars, tickVars>>
  BY DEF Get, getRequest, getReply
<1>2. Put(c) => UNCHANGED <<replicaVars, getVars, leaveVars, tickVars>>
  BY DEF Put, putRequest, putBroadcast, putResponse
<1>3. Disconnect(c) => UNCHANGED <<replicaVars, getVars, putVars, tickVars, mailboxes>>
  BY DEF Disconnect, sendDisconnectRequest, disconnectBroadcast
<1>4. ClockUpdate(c) => UNCHANGED <<replicaVars, getVars, putVars, leaveVars, mailboxes>>
  BY DEF ClockUpdate, clockUpdateLoop, nullBroadcast
<1> QED
  BY <1>1, <1>2, <1>3, <1>4

\* A response taken.
LEMMA TakeIs ==
    ASSUME KVTypes, NEW box \in Mailboxes, mailboxes[box] # <<>>,
           mailboxes' = [mailboxes EXCEPT ![box] = Tail(@)]
    PROVE  /\ mailboxes' \in [Mailboxes -> Seq({"ok"} \cup Int)]
           /\ mailboxes'[box] = Tail(mailboxes[box])
           /\ Len(mailboxes'[box]) = Len(mailboxes[box]) - 1
           /\ \A b \in Mailboxes : b # box => mailboxes'[b] = mailboxes[b]
<1>1. mailboxes[box] \in Seq({"ok"} \cup Int)
  BY DEF KVTypes
<1>2. Tail(mailboxes[box]) \in Seq({"ok"} \cup Int) /\ Len(Tail(mailboxes[box])) = Len(mailboxes[box]) - 1
  BY <1>1, SequenceStep
<1> QED
  BY <1>2 DEF KVTypes

\* Types are kept by the clients, process by process: Get,
LEMMA GetTypes ==
    ASSUME KVTypes, PendingOK, ClientsInv, NEW c \in ClientSet, Get(c)
    PROVE  KVTypes' /\ PendingOK' /\ ClientsInv'
<1>1. UNCHANGED <<replicaVars, putVars, leaveVars, tickVars>>
  BY ClientFrame
<1>2. CASE getRequest(c)
  <2>1. Connected(c) /\ Tick(c) /\ UNCHANGED mailboxes
    BY <1>2 DEF getRequest
  <2>2. /\ clock[c] + 1 \in Nat /\ clock' \in [ClientSet -> Nat \cup {Disconnected}]
        /\ \A d \in ClientSet : Connected(d)' <=> Connected(d)
    BY <2>1, TickIs
  <2>3. PICK r \in ReplicaSet : SendToReplica(r, [op |-> "get", client |-> c, timestamp |-> clock[c] + 1])
    BY <1>2 DEF getRequest
  <2>4. replicas' \in [ReplicaSet -> Seq(Message)]
    <3>1. PICK t \in Nat : t = clock[c] + 1
      BY <2>2
    <3>2. [op |-> "get", client |-> c, timestamp |-> t] \in Message
      BY Sendable
    <3> QED
      BY <2>3, <3>1, <3>2, SendIs
  <2>5. KVTypes' /\ PendingOK'
    BY <1>1, <2>1, <2>2, <2>4 DEF KVTypes, PendingOK, replicaVars, putVars, leaveVars
  <2>6. ClientsInv'
    BY <1>1, <2>2 DEF ClientsInv, ProcessTypes, ClientOK, leaveVars, putVars, tickVars
  <2> QED
    BY <2>5, <2>6
<1>3. CASE getReply(c)
  <2>1. UNCHANGED <<clock, replicas>>
    BY <1>3 DEF getReply
  <2>2. mailboxes' \in [Mailboxes -> Seq({"ok"} \cup Int)]
    <3>1. CASE UNCHANGED mailboxes
      BY <3>1 DEF KVTypes
    <3>2. CASE mailboxes[<<"get", c>>] # <<>> /\ mailboxes' = [mailboxes EXCEPT ![<<"get", c>>] = Tail(@)]
      <4>1. <<"get", c>> \in Mailboxes
        BY DEF Mailboxes
      <4> QED
        BY <3>2, <4>1, TakeIs
    <3> QED
      BY <1>3, <3>1, <3>2 DEF getReply
  <2>3. KVTypes' /\ PendingOK'
    BY <1>1, <2>1, <2>2 DEF KVTypes, PendingOK, replicaVars, putVars, leaveVars
  <2>4. ClientsInv'
    BY <1>1, <2>1 DEF ClientsInv, ProcessTypes, ClientOK, Connected, leaveVars, putVars, tickVars
  <2> QED
    BY <2>3, <2>4
<1> QED
  BY <1>2, <1>3 DEF Get

\* What the actions of Put do.
LEMMA PutRequestIs ==
    ASSUME KVTypes, ClientsInv, NEW c \in ClientSet, putRequest(c)
    PROVE  \E m \in Stamped({"put"}) :
           /\ Connected(c) /\ putPc[c] = "putRequest" /\ Tick(c)
           /\ m.client = c /\ m.timestamp = clock[c] + 1 /\ m.op = "put" /\ m # Unsent /\ OwnPut(c, m)
           /\ putReq' = [putReq EXCEPT ![c] = m]
           /\ putI' = [putI EXCEPT ![c] = 0] /\ putJ' = [putJ EXCEPT ![c] = 0]
           /\ puts' = [puts EXCEPT ![c] = @ + 1]
           /\ putPc' = [putPc EXCEPT ![c] = "putBroadcast"]
           /\ UNCHANGED <<replicas, mailboxes, replicaVars, leaveVars, tickVars>>
<1>1. Connected(c) /\ Tick(c)
  BY DEF putRequest
<1>2. PICK t \in Nat : t = clock[c] + 1
  BY <1>1, TickIs
<1>3. PICK m : m = [op |-> "put", client |-> c, timestamp |-> t]
  OBVIOUS
<1>4. m \in Stamped({"put"}) /\ m.client = c /\ m.timestamp = t /\ m.op = "put"
  BY <1>3 DEF Stamped
<1>5. m # Unsent /\ OwnPut(c, m)
  BY <1>3, Sendable
<1> QED
  BY <1>1, <1>2, <1>3, <1>4, <1>5 DEF putRequest

\* A put is sent to the next replica, or no more of it.
LEMMA PutBroadcastIs ==
    ASSUME KVTypes, ClientsInv, NEW c \in ClientSet, putBroadcast(c)
    PROVE  /\ putPc[c] = "putBroadcast" /\ putJ[c] \in ReplicaSet
           /\ putReq[c] \in Stamped({"put"}) /\ putReq[c] \in Message
           /\ putReq[c].client = c /\ putReq[c].op = "put"
           /\ UNCHANGED <<clock, mailboxes, replicaVars, putReq, putI, puts, leaveVars, tickVars>>
           /\ \/ /\ Connected(c) /\ SendToReplica(putJ[c], putReq[c])
                 /\ putJ' = [putJ EXCEPT ![c] = @ + 1]
                 /\ putPc' = [putPc EXCEPT ![c] = IF putJ[c] + 1 = NumReplicas THEN "putResponse" ELSE @]
              \/ /\ ~Connected(c) /\ UNCHANGED <<replicas, putJ>>
                 /\ putPc' = [putPc EXCEPT ![c] = "putResponse"]
<1>1. putPc[c] = "putBroadcast"
  BY DEF putBroadcast
<1>2. putReq[c] # Unsent /\ OwnPut(c, putReq[c]) /\ putJ[c] \in ReplicaSet
  BY <1>1 DEF ClientsInv, ClientOK
<1>3. putReq[c] \in Stamped({"put"}) /\ putReq[c].client = c
  BY <1>2 DEF OwnPut
<1>4. putReq[c] \in Message /\ putReq[c].op = "put"
  BY <1>3 DEF Message, Stamped
<1> QED
  BY <1>1, <1>2, <1>3, <1>4 DEF putBroadcast

\* A response is taken, or none is waited for any more.
LEMMA PutResponseIs ==
    ASSUME KVTypes, ClientsInv, NEW c \in ClientSet, putResponse(c)
    PROVE  /\ putPc[c] = "putResponse"
           /\ UNCHANGED <<clock, replicas, replicaVars, putReq, putJ, puts, leaveVars, tickVars>>
           /\ \/ /\ Connected(c) /\ mailboxes[<<"put", c>>] # <<>>
                 /\ mailboxes' = [mailboxes EXCEPT ![<<"put", c>>] = Tail(@)]
                 /\ putI' = [putI EXCEPT ![c] = @ + 1]
                 /\ putPc' = [putPc EXCEPT ![c] = IF putI[c] + 1 = NumReplicas THEN "putRequest" ELSE @]
              \/ /\ ~Connected(c) /\ UNCHANGED <<mailboxes, putI>>
                 /\ putPc' = [putPc EXCEPT ![c] = "Done"]
  BY DEF putResponse

\* The other clients do not see a step of Put of c.
LEMMA PutOthers ==
    ASSUME KVTypes, ClientsInv, NEW c \in ClientSet, Put(c), NEW d \in ClientSet, d # c
    PROVE  /\ putPc'[d] = putPc[d] /\ putReq'[d] = putReq[d] /\ putJ'[d] = putJ[d]
           /\ putI'[d] = putI[d] /\ puts'[d] = puts[d] /\ clock'[d] = clock[d]
           /\ mailboxes'[<<"put", d>>] = mailboxes[<<"put", d>>]
<1>1. /\ DOMAIN putPc = ClientSet /\ DOMAIN putReq = ClientSet /\ DOMAIN puts = ClientSet
      /\ DOMAIN putI = ClientSet /\ DOMAIN putJ = ClientSet /\ DOMAIN mailboxes = Mailboxes
      /\ putPc = [e \in ClientSet |-> putPc[e]] /\ putReq = [e \in ClientSet |-> putReq[e]]
      /\ puts = [e \in ClientSet |-> puts[e]] /\ putI = [e \in ClientSet |-> putI[e]]
      /\ putJ = [e \in ClientSet |-> putJ[e]] /\ mailboxes = [b \in Mailboxes |-> mailboxes[b]]
  BY DEF ClientsInv, ProcessTypes, KVTypes
<1>2. CASE putRequest(c)
  <2>1. PICK m \in Stamped({"put"}) :
           /\ Connected(c) /\ Tick(c)
           /\ putReq' = [putReq EXCEPT ![c] = m]
           /\ putI' = [putI EXCEPT ![c] = 0] /\ putJ' = [putJ EXCEPT ![c] = 0]
           /\ puts' = [puts EXCEPT ![c] = @ + 1]
           /\ putPc' = [putPc EXCEPT ![c] = "putBroadcast"]
           /\ UNCHANGED mailboxes
    BY <1>2, PutRequestIs
  <2>2. clock'[d] = clock[d]
    BY <2>1, TickIs
  <2> QED
    BY <1>1, <2>1, <2>2
<1>3. CASE putBroadcast(c)
  <2>1. /\ UNCHANGED <<clock, mailboxes, putReq, putI, puts>>
        /\ putJ' = [putJ EXCEPT ![c] = @ + 1] \/ UNCHANGED putJ
        /\ \E l : putPc' = [putPc EXCEPT ![c] = l]
    BY <1>3, PutBroadcastIs
  <2> QED
    BY <1>1, <2>1
<1>4. CASE putResponse(c)
  <2>1. <<"put", c>> \in Mailboxes /\ <<"put", d>> \in Mailboxes /\ <<"put", c>> # <<"put", d>>
    BY DEF Mailboxes
  <2>2. /\ UNCHANGED <<clock, putReq, putJ, puts>>
        /\ mailboxes' = [mailboxes EXCEPT ![<<"put", c>>] = Tail(@)] \/ UNCHANGED mailboxes
        /\ putI' = [putI EXCEPT ![c] = @ + 1] \/ UNCHANGED putI
        /\ \E l : putPc' = [putPc EXCEPT ![c] = l]
    BY <1>4, PutResponseIs
  <2> QED
    BY <1>1, <2>1, <2>2
<1> QED
  BY <1>2, <1>3, <1>4 DEF Put

\* Put,
LEMMA PutTypes ==
    ASSUME KVTypes, PendingOK, ClientsInv, NEW c \in ClientSet, Put(c)
    PROVE  KVTypes' /\ PendingOK' /\ ClientsInv'
<1>0. ProcessTypes /\ ClientOK(c)
  BY DEF ClientsInv
<1>1. UNCHANGED <<replicaVars, leaveVars, tickVars>>
  BY ClientFrame
<1>2. KVTypes' /\ ProcessTypes' /\ ClientOK(c)' /\ (Connected(c)' <=> Connected(c))
  <2>1. CASE putRequest(c)
    <3>1. PICK m \in Stamped({"put"}) :
             /\ Connected(c) /\ Tick(c) /\ m # Unsent /\ OwnPut(c, m)
             /\ putReq' = [putReq EXCEPT ![c] = m]
             /\ putI' = [putI EXCEPT ![c] = 0] /\ putJ' = [putJ EXCEPT ![c] = 0]
             /\ puts' = [puts EXCEPT ![c] = @ + 1]
             /\ putPc' = [putPc EXCEPT ![c] = "putBroadcast"]
             /\ UNCHANGED <<replicas, mailboxes>>
      BY <2>1, PutRequestIs
    <3>2. /\ clock' \in [ClientSet -> Nat \cup {Disconnected}]
          /\ Connected(c)' <=> Connected(c)
      BY <3>1, TickIs
    <3>3. KVTypes'
      BY <1>1, <3>1, <3>2 DEF KVTypes, replicaVars, leaveVars
    <3>4. ProcessTypes'
      BY <1>0, <1>1, <3>1 DEF ProcessTypes, leaveVars, tickVars
    <3>5. putReq'[c] = m /\ putJ'[c] = 0 /\ 0 \in ReplicaSet /\ putPc'[c] = "putBroadcast"
      BY <1>0, <3>1, KVAssumption DEF ProcessTypes, KVTypes, ReplicaSet
    <3>6. ClientOK(c)'
      BY <1>0, <1>1, <3>1, <3>2, <3>5 DEF ClientOK, leaveVars, tickVars
    <3> QED
      BY <3>2, <3>3, <3>4, <3>6
  <2>2. CASE putBroadcast(c)
    <3>1. /\ putJ[c] \in ReplicaSet /\ putReq[c] \in Message
          /\ UNCHANGED <<clock, mailboxes, putReq, putI, puts>>
          /\ \/ /\ Connected(c) /\ SendToReplica(putJ[c], putReq[c])
                /\ putJ' = [putJ EXCEPT ![c] = @ + 1]
                /\ putPc' = [putPc EXCEPT ![c] = IF putJ[c] + 1 = NumReplicas THEN "putResponse" ELSE @]
             \/ /\ ~Connected(c) /\ UNCHANGED <<replicas, putJ>>
                /\ putPc' = [putPc EXCEPT ![c] = "putResponse"]
      BY <2>2, PutBroadcastIs
    <3>2. replicas' \in [ReplicaSet -> Seq(Message)]
      BY <3>1, SendIs DEF KVTypes
    <3>3. putJ' \in [ClientSet -> Nat]
      <4>1. putJ \in [ClientSet -> Nat]
        BY DEF KVTypes
      <4>2. putJ' = [putJ EXCEPT ![c] = @ + 1] \/ UNCHANGED putJ
        BY <3>1
      <4> QED
        BY <4>1, <4>2
    <3>4. KVTypes'
      BY <1>1, <3>1, <3>2, <3>3 DEF KVTypes, replicaVars, leaveVars
    <3>5. putPc' \in [ClientSet -> {"putRequest", "putBroadcast", "putResponse", "Done"}]
      BY <1>0, <3>1 DEF ProcessTypes
    <3>6. ProcessTypes'
      BY <1>0, <1>1, <3>1, <3>5 DEF ProcessTypes, leaveVars, tickVars
    <3>7. putPc'[c] = "putBroadcast" => putJ'[c] \in ReplicaSet /\ putReq'[c] # Unsent
      <4>1. putJ[c] + 1 # NumReplicas => putJ[c] + 1 \in ReplicaSet
        BY <3>1, KVAssumption DEF ReplicaSet
      <4>2. putReq[c] # Unsent
        BY <1>0, <2>2 DEF putBroadcast, ClientOK
      <4> QED
        BY <1>0, <3>1, <4>1, <4>2 DEF ProcessTypes, KVTypes
    <3>8. ClientOK(c)'
      BY <1>0, <1>1, <3>1, <3>7 DEF ClientOK, Connected, leaveVars, tickVars
    <3> QED
      BY <3>1, <3>4, <3>6, <3>8 DEF Connected
  <2>3. CASE putResponse(c)
    <3>1. /\ UNCHANGED <<clock, replicas, putReq, putJ, puts>>
          /\ \/ /\ Connected(c) /\ mailboxes[<<"put", c>>] # <<>>
                /\ mailboxes' = [mailboxes EXCEPT ![<<"put", c>>] = Tail(@)]
                /\ putI' = [putI EXCEPT ![c] = @ + 1]
                /\ putPc' = [putPc EXCEPT ![c] = IF putI[c] + 1 = NumReplicas THEN "putRequest" ELSE @]
             \/ /\ ~Connected(c) /\ UNCHANGED <<mailboxes, putI>>
                /\ putPc' = [putPc EXCEPT ![c] = "Done"]
          /\ putPc[c] = "putResponse"
      BY <2>3, PutResponseIs
    <3>2. mailboxes' \in [Mailboxes -> Seq({"ok"} \cup Int)]
      <4>1. <<"put", c>> \in Mailboxes
        BY DEF Mailboxes
      <4>2. CASE UNCHANGED mailboxes
        BY <4>2 DEF KVTypes
      <4>3. CASE mailboxes[<<"put", c>>] # <<>> /\ mailboxes' = [mailboxes EXCEPT ![<<"put", c>>] = Tail(@)]
        BY <4>1, <4>3, TakeIs
      <4> QED
        BY <3>1, <4>2, <4>3
    <3>3. putI' \in [ClientSet -> Nat]
      <4>1. putI \in [ClientSet -> Nat]
        BY DEF KVTypes
      <4>2. putI' = [putI EXCEPT ![c] = @ + 1] \/ UNCHANGED putI
        BY <3>1
      <4> QED
        BY <4>1, <4>2
    <3>4. KVTypes'
      BY <1>1, <3>1, <3>2, <3>3 DEF KVTypes, replicaVars, leaveVars
    <3>5. /\ putPc' \in [ClientSet -> {"putRequest", "putBroadcast", "putResponse", "Done"}]
          /\ putPc'[c] # "putBroadcast"
      BY <1>0, <3>1 DEF ProcessTypes
    <3>6. ProcessTypes'
      BY <1>0, <1>1, <3>1, <3>5 DEF ProcessTypes, leaveVars, tickVars
    <3>7. ClientOK(c)'
      BY <1>0, <1>1, <3>1, <3>5 DEF ClientOK, Connected, leaveVars, tickVars
    <3> QED
      BY <3>1, <3>4, <3>6, <3>7 DEF Connected
  <2> QED
    BY <2>1, <2>2, <2>3 DEF Put
<1>3. ASSUME NEW d \in ClientSet, d # c PROVE ClientOK(d)'
  <2>1. ClientOK(d)
    BY DEF ClientsInv
  <2>2. putPc'[d] = putPc[d] /\ putReq'[d] = putReq[d] /\ putJ'[d] = putJ[d] /\ clock'[d] = clock[d]
    BY <1>3, PutOthers
  <2> QED
    BY <1>1, <2>1, <2>2 DEF ClientOK, Connected, leaveVars, tickVars
<1>4. PendingOK'
  BY <1>1 DEF PendingOK, replicaVars
<1> QED
  BY <1>2, <1>3, <1>4 DEF ClientsInv

\* Disconnect,
LEMMA DisconnectTypes ==
    ASSUME KVTypes, PendingOK, ClientsInv, NEW c \in ClientSet, Disconnect(c)
    PROVE  KVTypes' /\ PendingOK' /\ ClientsInv'
<1>0. ProcessTypes /\ (\A d \in ClientSet : ClientOK(d)) /\ leaveJ \in [ClientSet -> Nat]
  BY DEF ClientsInv, KVTypes
<1>1. UNCHANGED <<replicaVars, putVars, tickVars, mailboxes>>
  BY ClientFrame
<1>2. CASE sendDisconnectRequest(c)
  <2>1. /\ clock' = [clock EXCEPT ![c] = Disconnected] /\ UNCHANGED <<replicas, leaveJ>>
        /\ leavePc[c] = "sendDisconnectRequest"
        /\ leavePc' = [leavePc EXCEPT ![c] = "disconnectBroadcast"]
    BY <1>2 DEF sendDisconnectRequest
  <2>2. clock' \in [ClientSet -> Nat \cup {Disconnected}]
    BY <2>1 DEF KVTypes
  <2>3. KVTypes'
    BY <1>1, <2>1, <2>2 DEF KVTypes, replicaVars, putVars
  <2>4. /\ leavePc' \in [ClientSet -> {"sendDisconnectRequest", "disconnectBroadcast", "Done"}]
        /\ leavePc'[c] = "disconnectBroadcast"
        /\ \A d \in ClientSet : d # c => leavePc'[d] = leavePc[d]
    BY <1>0, <2>1 DEF ProcessTypes
  <2>5. ProcessTypes'
    BY <1>0, <1>1, <2>4 DEF ProcessTypes, putVars, tickVars
  <2>6. /\ ~Connected(c)' /\ \A d \in ClientSet : d # c => (Connected(d)' <=> Connected(d))
    BY <2>1 DEF KVTypes, Connected
  <2>7. leaveJ[c] = 0 /\ 0 \in ReplicaSet
    BY <1>0, <2>1, KVAssumption DEF ClientOK, ReplicaSet
  <2>8. \A d \in ClientSet : ClientOK(d)'
    BY <1>0, <1>1, <2>1, <2>4, <2>6, <2>7 DEF ClientOK, putVars, tickVars
  <2> QED
    BY <1>1, <2>3, <2>5, <2>8 DEF ClientsInv, PendingOK, replicaVars
<1>3. CASE disconnectBroadcast(c)
  <2>1. /\ SendToReplica(leaveJ[c], [op |-> "disconnect", client |-> c])
        /\ leavePc[c] = "disconnectBroadcast"
        /\ leaveJ' = [leaveJ EXCEPT ![c] = @ + 1]
        /\ leavePc' = [leavePc EXCEPT ![c] = IF leaveJ[c] + 1 = NumReplicas THEN "Done" ELSE @]
        /\ UNCHANGED clock
    BY <1>3 DEF disconnectBroadcast
  <2>2. leaveJ[c] \in ReplicaSet /\ ~Connected(c)
    BY <1>0, <2>1 DEF ClientOK
  <2>3. replicas' \in [ReplicaSet -> Seq(Message)]
    <3>1. [op |-> "disconnect", client |-> c] \in Message
      BY DEF Message
    <3> QED
      BY <2>1, <2>2, <3>1, SendIs
  <2>4. leaveJ' \in [ClientSet -> Nat] /\ leaveJ'[c] = leaveJ[c] + 1
        /\ \A d \in ClientSet : d # c => leaveJ'[d] = leaveJ[d]
    BY <1>0, <2>1
  <2>5. KVTypes'
    BY <1>1, <2>1, <2>3, <2>4 DEF KVTypes, replicaVars, putVars
  <2>6. /\ leavePc' \in [ClientSet -> {"sendDisconnectRequest", "disconnectBroadcast", "Done"}]
        /\ leavePc'[c] = IF leaveJ[c] + 1 = NumReplicas THEN "Done" ELSE "disconnectBroadcast"
        /\ \A d \in ClientSet : d # c => leavePc'[d] = leavePc[d]
    BY <1>0, <2>1 DEF ProcessTypes
  <2>7. ProcessTypes'
    BY <1>0, <1>1, <2>6 DEF ProcessTypes, putVars, tickVars
  <2>8. leaveJ[c] + 1 # NumReplicas => leaveJ[c] + 1 \in ReplicaSet
    BY <2>2, KVAssumption DEF ReplicaSet
  <2>9. \A d \in ClientSet : ClientOK(d)'
    BY <1>0, <1>1, <2>1, <2>2, <2>4, <2>6, <2>8 DEF ClientOK, Connected, putVars, tickVars
  <2> QED
    BY <1>1, <2>5, <2>7, <2>9 DEF ClientsInv, PendingOK, replicaVars
<1> QED
  BY <1>2, <1>3 DEF Disconnect

\* and ClockUpdate.
LEMMA ClockUpdateTypes ==
    ASSUME KVTypes, PendingOK, ClientsInv, NEW c \in ClientSet, ClockUpdate(c)
    PROVE  KVTypes' /\ PendingOK' /\ ClientsInv'
<1>0. ProcessTypes /\ (\A d \in ClientSet : ClientOK(d))
  BY DEF ClientsInv
<1>1. UNCHANGED <<replicaVars, putVars, leaveVars, mailboxes>>
  BY ClientFrame
<1>2. CASE clockUpdateLoop(c) /\ Connected(c)
  <2>1. PICK t \in Nat : t = clock[c] + 1
    BY <1>2 DEF Connected, KVTypes
  <2>2. PICK m : m = [op |-> "null", client |-> c, timestamp |-> t]
    OBVIOUS
  <2>3. m \in Stamped({"null"}) /\ OwnNull(c, m) /\ m # Unsent
    <3>1. m \in Stamped({"null"})
      BY <2>2 DEF Stamped
    <3> QED
      BY <2>2, <3>1, Sendable
  <2>4. /\ Tick(c) /\ UNCHANGED replicas
        /\ tickMsg' = [tickMsg EXCEPT ![c] = m]
        /\ tickJ' = [tickJ EXCEPT ![c] = 0]
        /\ tickPc' = [tickPc EXCEPT ![c] = "nullBroadcast"]
    BY <1>2, <2>1, <2>2 DEF clockUpdateLoop
  <2>5. /\ clock' \in [ClientSet -> Nat \cup {Disconnected}]
        /\ \A d \in ClientSet : Connected(d)' <=> Connected(d)
    BY <1>2, <2>4, TickIs
  <2>6. KVTypes'
    BY <1>1, <2>4, <2>5 DEF KVTypes, replicaVars, putVars, leaveVars
  <2>7. /\ tickMsg'[c] = m /\ tickJ'[c] = 0 /\ 0 \in ReplicaSet
        /\ \A d \in ClientSet : d # c =>
              tickMsg'[d] = tickMsg[d] /\ tickPc'[d] = tickPc[d] /\ tickJ'[d] = tickJ[d]
        /\ ProcessTypes'
    BY <1>0, <1>1, <2>3, <2>4, KVAssumption DEF ProcessTypes, ReplicaSet, putVars, leaveVars
  <2>8. \A d \in ClientSet : ClientOK(d)'
    BY <1>0, <1>1, <2>3, <2>5, <2>7 DEF ClientOK, putVars, leaveVars
  <2> QED
    BY <1>1, <2>6, <2>7, <2>8 DEF ClientsInv, PendingOK, replicaVars
<1>3. CASE clockUpdateLoop(c) /\ ~Connected(c)
  <2>1. UNCHANGED <<clock, replicas, tickJ, tickMsg>> /\ tickPc' = [tickPc EXCEPT ![c] = "Done"]
    BY <1>3 DEF clockUpdateLoop
  <2>2. KVTypes'
    BY <1>1, <2>1 DEF KVTypes, replicaVars, putVars, leaveVars
  <2>3. /\ \A d \in ClientSet : tickPc'[d] = "nullBroadcast" => tickPc[d] = "nullBroadcast"
        /\ ProcessTypes'
    BY <1>0, <1>1, <2>1 DEF ProcessTypes, putVars, leaveVars
  <2>4. \A d \in ClientSet : ClientOK(d)'
    BY <1>0, <1>1, <2>1, <2>3 DEF ClientOK, Connected, putVars, leaveVars
  <2> QED
    BY <1>1, <2>2, <2>3, <2>4 DEF ClientsInv, PendingOK, replicaVars
<1>4. CASE nullBroadcast(c)
  <2>1. /\ tickPc[c] = "nullBroadcast" /\ UNCHANGED <<clock, tickMsg>>
        /\ \/ /\ SendToReplica(tickJ[c], tickMsg[c])
              /\ tickJ' = [tickJ EXCEPT ![c] = @ + 1]
              /\ tickPc' = [tickPc EXCEPT ![c] =
                    IF tickJ[c] + 1 = NumReplicas THEN "clockUpdateLoop" ELSE "nullBroadcast"]
           \/ /\ UNCHANGED <<replicas, tickJ>>
              /\ tickPc' = [tickPc EXCEPT ![c] = "clockUpdateLoop"]
    BY <1>4 DEF nullBroadcast
  <2>2. tickMsg[c] \in Message /\ tickJ[c] \in ReplicaSet
    <3>1. tickMsg[c] # Unsent /\ OwnNull(c, tickMsg[c]) /\ tickJ[c] \in ReplicaSet
      BY <1>0, <2>1 DEF ClientOK
    <3> QED
      BY <3>1 DEF OwnNull, Message, Stamped
  <2>3. replicas' \in [ReplicaSet -> Seq(Message)]
    BY <2>1, <2>2, SendIs DEF KVTypes
  <2>4. KVTypes'
    BY <1>1, <2>1, <2>3 DEF KVTypes, replicaVars, putVars, leaveVars
  <2>5. tickJ[c] + 1 # NumReplicas => tickJ[c] + 1 \in ReplicaSet
    BY <2>2, KVAssumption DEF ReplicaSet
  <2>6. /\ tickJ' \in [ClientSet -> Nat]
        /\ tickPc' \in [ClientSet -> {"clockUpdateLoop", "nullBroadcast", "Done"}]
        /\ tickPc'[c] = "nullBroadcast" => tickJ'[c] \in ReplicaSet
        /\ \A d \in ClientSet : d # c => tickPc'[d] = tickPc[d] /\ tickJ'[d] = tickJ[d]
    <3>1. /\ tickJ \in [ClientSet -> Nat]
          /\ tickPc \in [ClientSet -> {"clockUpdateLoop", "nullBroadcast", "Done"}]
      BY <1>0 DEF ProcessTypes
    <3>2. CASE UNCHANGED tickJ /\ tickPc' = [tickPc EXCEPT ![c] = "clockUpdateLoop"]
      BY <3>1, <3>2
    <3>3. CASE /\ tickJ' = [tickJ EXCEPT ![c] = @ + 1]
               /\ tickPc' = [tickPc EXCEPT ![c] =
                     IF tickJ[c] + 1 = NumReplicas THEN "clockUpdateLoop" ELSE "nullBroadcast"]
      BY <2>5, <3>1, <3>3
    <3> QED
      BY <2>1, <3>2, <3>3
  <2>7. ProcessTypes'
    BY <1>0, <1>1, <2>1, <2>6 DEF ProcessTypes, putVars, leaveVars
  <2>8. \A d \in ClientSet : ClientOK(d)'
    BY <1>0, <1>1, <2>1, <2>6 DEF ClientOK, Connected, putVars, leaveVars
  <2> QED
    BY <1>1, <2>4, <2>7, <2>8 DEF ClientsInv, PendingOK, replicaVars
<1> QED
  BY <1>2, <1>3, <1>4 DEF ClockUpdate

-----------------------------------------------------------------------------
KVInv == KVTypes /\ PendingOK /\ ClientsInv

\* Every step keeps the types.
LEMMA StepTypes == ASSUME KVInv, Next PROVE KVInv'
<1>1. CASE \E r \in ReplicaSet : Replica(r)
  BY <1>1, ReplicaFrame DEF KVInv
<1>2. CASE \E c \in ClientSet : Get(c) \/ Put(c) \/ Disconnect(c) \/ ClockUpdate(c)
  BY <1>2, GetTypes, PutTypes, DisconnectTypes, ClockUpdateTypes DEF KVInv
<1> QED
  BY <1>1, <1>2 DEF Next

\* They hold in the initial states.
LEMMA InitTypes == ASSUME Init PROVE KVInv
<1>1. KVTypes
  BY DEF Init, KVTypes
<1>2. PendingOK
  BY DEF Init, PendingOK
<1>3. ProcessTypes
  BY DEF Init, ProcessTypes, Starts, Unsent
<1>4. \A c \in ClientSet : ClientOK(c)
  BY DEF Init, ClientOK, OwnPut, OwnNull, Starts, Unsent
<1> QED
  BY <1>1, <1>2, <1>3, <1>4 DEF KVInv, ClientsInv

\* Hence they hold always.
LEMMA TypesInvariant == Spec => []KVInv
<1>1. ASSUME KVInv, [Next]_vars PROVE KVInv'
  <2>1. CASE UNCHANGED vars
    BY <1>1, <2>1 DEF KVInv, KVTypes, PendingOK, ClientsInv, ProcessTypes, ClientOK, Connected,
                      vars, replicaVars, putVars, leaveVars, tickVars
  <2> QED
    BY <1>1, <2>1, StepTypes
<1> QED
  BY <1>1, InitTypes, PTL DEF Spec

\* What a step of a client sends, if anything.
LEMMA ClientSends ==
    ASSUME KVInv, NEW c \in ClientSet, Get(c) \/ Put(c) \/ Disconnect(c) \/ ClockUpdate(c)
    PROVE  \/ UNCHANGED <<replicas, leaveJ>>
           \/ \E r \in ReplicaSet, m \in Message :
                 /\ SendToReplica(r, m) /\ m.client = c /\ m.op # "disconnect"
                 /\ m.op = "put" => putBroadcast(c)
                 /\ Connected(c) /\ UNCHANGED leaveJ
           \/ \E m \in Message :
                 /\ leaveJ[c] \in ReplicaSet /\ SendToReplica(leaveJ[c], m)
                 /\ m.client = c /\ m.op = "disconnect"
                 /\ leaveJ' = [leaveJ EXCEPT ![c] = @ + 1]
<1>0. KVTypes /\ ClientsInv /\ ClientOK(c)
  BY DEF KVInv, ClientsInv
<1>1. CASE Get(c)
  <2>1. UNCHANGED leaveJ
    BY <1>1, ClientFrame DEF leaveVars
  <2>2. CASE getRequest(c)
    <3>1. Connected(c)
      BY <2>2 DEF getRequest
    <3>2. PICK t \in Nat : t = clock[c] + 1
      BY <1>0, <3>1 DEF KVTypes, Connected
    <3>3. PICK r \in ReplicaSet : SendToReplica(r, [op |-> "get", client |-> c, timestamp |-> t])
      BY <2>2, <3>2 DEF getRequest
    <3>4. [op |-> "get", client |-> c, timestamp |-> t] \in Message
      BY Sendable
    <3> QED
      BY <2>1, <3>1, <3>3, <3>4
  <2>3. CASE getReply(c)
    BY <2>1, <2>3 DEF getReply
  <2> QED
    BY <1>1, <2>2, <2>3 DEF Get
<1>2. CASE Put(c)
  <2>1. UNCHANGED leaveJ
    BY <1>2, ClientFrame DEF leaveVars
  <2>2. CASE putRequest(c) \/ putResponse(c)
    BY <2>1, <2>2 DEF putRequest, putResponse
  <2>3. CASE putBroadcast(c)
    <3>1. /\ putJ[c] \in ReplicaSet /\ putReq[c] \in Message
          /\ putReq[c].client = c /\ putReq[c].op = "put"
          /\ \/ Connected(c) /\ SendToReplica(putJ[c], putReq[c])
             \/ UNCHANGED replicas
      BY <1>0, <2>3, PutBroadcastIs
    <3> QED
      BY <2>1, <2>3, <3>1
  <2> QED
    BY <1>2, <2>2, <2>3 DEF Put
<1>3. CASE Disconnect(c)
  <2>1. CASE sendDisconnectRequest(c)
    BY <2>1 DEF sendDisconnectRequest
  <2>2. CASE disconnectBroadcast(c)
    <3>1. leaveJ[c] \in ReplicaSet
      BY <1>0, <2>2 DEF disconnectBroadcast, ClientOK
    <3>2. PICK m : m = [op |-> "disconnect", client |-> c]
      OBVIOUS
    <3>3. m \in Message /\ m.client = c /\ m.op = "disconnect"
      BY <3>2 DEF Message
    <3> QED
      BY <2>2, <3>1, <3>2, <3>3 DEF disconnectBroadcast
  <2> QED
    BY <1>3, <2>1, <2>2 DEF Disconnect
<1>4. CASE ClockUpdate(c)
  <2>1. UNCHANGED leaveJ
    BY <1>4, ClientFrame DEF leaveVars
  <2>2. CASE clockUpdateLoop(c)
    BY <2>1, <2>2 DEF clockUpdateLoop
  <2>3. CASE nullBroadcast(c)
    <3>1. tickMsg[c] # Unsent /\ OwnNull(c, tickMsg[c]) /\ tickJ[c] \in ReplicaSet
      BY <1>0, <2>3 DEF nullBroadcast, ClientOK
    <3>2. tickMsg[c] \in Message /\ tickMsg[c].client = c /\ tickMsg[c].op = "null"
      BY <3>1 DEF OwnNull, Message, Stamped
    <3> QED
      BY <2>1, <2>3, <3>1, <3>2 DEF nullBroadcast
  <2> QED
    BY <1>4, <2>2, <2>3 DEF ClockUpdate
<1> QED
  BY <1>1, <1>2, <1>3, <1>4

-----------------------------------------------------------------------------
(* Nothing follows a disconnection *)

\* A client that has not left sends a message; it may be its last.
LEMMA AppendQueue ==
    ASSUME NEW q \in Seq(Message), NEW m \in Message, NEW live,
           QueueOK(q, live), Present(q, live, m.client)
    PROVE  /\ QueueOK(Append(q, m), live)
           /\ \A d : Present(q, live, d) /\ ~(d = m.client /\ m.op = "disconnect") =>
                        Present(Append(q, m), live, d)
<1> DEFINE p == Append(q, m)
<1>1. /\ Len(p) = Len(q) + 1 /\ p[Len(q) + 1] = m /\ Len(q) \in Nat
      /\ \A k \in 1..Len(q) : p[k] = q[k]
  BY SequenceStep
<1> HIDE DEF p
<1>2. \A k \in 1..Len(p) : k \in 1..Len(q) \/ k = Len(q) + 1
  BY <1>1
<1>3. \A k \in 1..Len(p) : p[k].client \in live
  BY <1>1, <1>2 DEF QueueOK, Present
<1>4. ASSUME NEW k \in 1..Len(p), NEW l \in 1..Len(p), l < k, p[l].op = "disconnect"
      PROVE  p[l].client # p[k].client
  <2>1. l \in 1..Len(q)
    BY <1>1, <1>4
  <2>2. CASE k \in 1..Len(q)
    BY <1>1, <1>4, <2>1, <2>2 DEF QueueOK
  <2>3. CASE k = Len(q) + 1
    BY <1>1, <1>4, <2>1, <2>3 DEF Present
  <2> QED
    BY <1>2, <2>2, <2>3
<1>5. ASSUME NEW d, Present(q, live, d), ~(d = m.client /\ m.op = "disconnect")
      PROVE  Present(p, live, d)
  BY <1>1, <1>2, <1>5 DEF Present
<1> QED
  BY <1>3, <1>4, <1>5 DEF QueueOK, p

\* A replica takes a message, and forgets the client if it was the last.
LEMMA TailQueue ==
    ASSUME NEW q \in Seq(Message), q # <<>>, NEW live, QueueOK(q, live), NEW L,
           L = IF Head(q).op = "disconnect" THEN live \ {Head(q).client} ELSE live
    PROVE  /\ QueueOK(Tail(q), L)
           /\ \A d : Present(q, live, d) => Present(Tail(q), L, d)
<1> DEFINE p == Tail(q)
<1>1. /\ Len(p) = Len(q) - 1 /\ Len(q) \in Nat /\ Len(q) >= 1 /\ Head(q) = q[1]
      /\ \A k \in 1..(Len(q) - 1) : p[k] = q[k + 1]
  BY SequenceStep
<1> HIDE DEF p
<1>2. \A k \in 1..Len(p) : p[k] = q[k + 1] /\ k + 1 \in 1..Len(q)
  BY <1>1
<1>3. 1 \in 1..Len(q)
  BY <1>1
<1>4. \A k \in 1..Len(p) : p[k].client \in L
  <2> SUFFICES ASSUME NEW k \in 1..Len(p) PROVE p[k].client \in L
    OBVIOUS
  <2>1. q[k + 1].client \in live /\ (q[1].op = "disconnect" => q[1].client # q[k + 1].client)
    BY <1>2, <1>3 DEF QueueOK
  <2> QED
    BY <1>1, <1>2, <2>1
<1>5. ASSUME NEW k \in 1..Len(p), NEW l \in 1..Len(p), l < k, p[l].op = "disconnect"
      PROVE  p[l].client # p[k].client
  <2>1. k + 1 \in 1..Len(q) /\ l + 1 \in 1..Len(q) /\ l + 1 < k + 1
    BY <1>2, <1>5
  <2> QED
    BY <1>2, <1>5, <2>1 DEF QueueOK
<1>6. ASSUME NEW d, Present(q, live, d) PROVE Present(p, L, d)
  BY <1>1, <1>2, <1>3, <1>6 DEF Present
<1> QED
  BY <1>4, <1>5, <1>6 DEF QueueOK, p

\* Every step keeps the order of the last messages.
LEMMA LeaveStep == ASSUME KVInv, LeaveInv, Next PROVE LeaveInv'
<1>0. KVTypes /\ ClientsInv
  BY DEF KVInv
<1>1. CASE UNCHANGED <<replicas, liveClients, leaveJ>>
  BY <1>1 DEF LeaveInv
<1>2. ASSUME NEW r \in ReplicaSet, receiveClientRequest(r) PROVE LeaveInv'
  <2> DEFINE m == Head(replicas[r])
  <2>1. /\ replicas[r] # <<>> /\ replicas' = [replicas EXCEPT ![r] = Tail(@)]
        /\ liveClients' = IF m.op = "disconnect"
                          THEN [liveClients EXCEPT ![r] = @ \ {m.client}] ELSE liveClients
        /\ UNCHANGED leaveJ
    BY <1>0, <1>2, ReceiveIs DEF leaveVars
  <2>2. /\ replicas'[r] = Tail(replicas[r]) /\ replicas[r] \in Seq(Message)
        /\ liveClients'[r] = IF m.op = "disconnect" THEN liveClients[r] \ {m.client} ELSE liveClients[r]
        /\ \A s \in ReplicaSet : s # r => replicas'[s] = replicas[s] /\ liveClients'[s] = liveClients[s]
    BY <1>0, <2>1 DEF KVTypes
  <2>3. /\ QueueOK(replicas'[r], liveClients'[r])
        /\ \A d : Present(replicas[r], liveClients[r], d) => Present(replicas'[r], liveClients'[r], d)
    BY <2>1, <2>2, TailQueue DEF LeaveInv
  <2> QED
    BY <2>1, <2>2, <2>3 DEF LeaveInv
<1>3. ASSUME NEW c \in ClientSet, Get(c) \/ Put(c) \/ Disconnect(c) \/ ClockUpdate(c),
             NEW r \in ReplicaSet, NEW m \in Message, SendToReplica(r, m), m.client = c,
             r >= leaveJ[c],
             \A d \in ClientSet : leaveJ'[d] # leaveJ[d] => leaveJ'[d] >= leaveJ[d],
             m.op = "disconnect" => leaveJ'[c] = r + 1
      PROVE  LeaveInv'
  <2>1. /\ replicas'[r] = Append(replicas[r], m) /\ replicas[r] \in Seq(Message)
        /\ \A s \in ReplicaSet : s # r => replicas'[s] = replicas[s]
    BY <1>0, <1>3, SendIs DEF KVTypes
  <2>2. UNCHANGED liveClients
    BY <1>3, ClientFrame DEF replicaVars
  <2>3. /\ QueueOK(replicas'[r], liveClients[r])
        /\ \A d : Present(replicas[r], liveClients[r], d) /\ ~(d = m.client /\ m.op = "disconnect") =>
                     Present(replicas'[r], liveClients[r], d)
    BY <1>3, <2>1, AppendQueue DEF LeaveInv
  <2>4. \A s \in ReplicaSet : QueueOK(replicas'[s], liveClients'[s])
    BY <2>1, <2>2, <2>3 DEF LeaveInv
  <2>5. ASSUME NEW s \in ReplicaSet, NEW d \in ClientSet, s >= leaveJ'[d]
        PROVE  Present(replicas'[s], liveClients'[s], d)
    <3>1. leaveJ[d] \in Nat /\ leaveJ'[d] \in Nat /\ s \in Nat
      <4>1. KVTypes'
        BY <1>3, StepTypes DEF KVInv, Next
      <4> QED
        BY <1>0, <4>1 DEF KVTypes, ReplicaSet
    <3>2. Present(replicas[s], liveClients[s], d)
      BY <1>3, <2>5, <3>1 DEF LeaveInv
    <3>3. ~(s = r /\ d = m.client /\ m.op = "disconnect")
      BY <1>3, <2>5, <3>1
    <3> QED
      BY <2>1, <2>2, <2>3, <3>2, <3>3
  <2> QED
    BY <2>4, <2>5 DEF LeaveInv
<1>4. ASSUME NEW c \in ClientSet, Get(c) \/ Put(c) \/ Disconnect(c) \/ ClockUpdate(c) PROVE LeaveInv'
  <2>1. CASE UNCHANGED <<replicas, leaveJ>>
    <3>1. UNCHANGED liveClients
      BY <1>4, ClientFrame DEF replicaVars
    <3> QED
      BY <1>1, <2>1, <3>1
  <2>2. ASSUME NEW r \in ReplicaSet, NEW m \in Message,
               SendToReplica(r, m), m.client = c, m.op # "disconnect", Connected(c), UNCHANGED leaveJ
        PROVE  LeaveInv'
    <3>1. leaveJ[c] = 0
      BY <1>0, <2>2 DEF ClientsInv, ClientOK
    <3>2. r >= leaveJ[c]
      BY <3>1 DEF ReplicaSet
    <3> QED
      BY <1>3, <1>4, <2>2, <3>2
  <2>3. ASSUME NEW m \in Message, leaveJ[c] \in ReplicaSet, SendToReplica(leaveJ[c], m),
               m.client = c, m.op = "disconnect", leaveJ' = [leaveJ EXCEPT ![c] = @ + 1]
        PROVE  LeaveInv'
    <3>1. leaveJ'[c] = leaveJ[c] + 1 /\ \A d \in ClientSet : d # c => leaveJ'[d] = leaveJ[d]
      BY <1>0, <2>3 DEF KVTypes
    <3>2. leaveJ[c] >= leaveJ[c] /\ leaveJ[c] + 1 >= leaveJ[c]
      BY <1>0 DEF KVTypes
    <3> QED
      BY <1>3, <1>4, <2>3, <3>1, <3>2
  <2> QED
    BY <1>4, <2>1, <2>2, <2>3, ClientSends
<1>5. ASSUME NEW r \in ReplicaSet, findStableRequestsLoop(r) \/ respondStableGet(r) \/ respondStablePut(r)
      PROVE  UNCHANGED <<replicas, liveClients, leaveJ>>
  BY <1>5 DEF findStableRequestsLoop, respondStableGet, respondStablePut, Responded, leaveVars
<1> QED
  BY <1>1, <1>2, <1>4, <1>5 DEF Next, Replica

\* Hence disconnections are always last.
LEMMA LeaveInvariant == Spec => []LeaveInv
<1>1. Init => LeaveInv
  <2> SUFFICES ASSUME Init PROVE LeaveInv
    OBVIOUS
  <2>1. \A r \in ReplicaSet : replicas[r] = <<>> /\ liveClients[r] = ClientSet
    BY DEF Init
  <2> QED
    BY <2>1 DEF LeaveInv, QueueOK, Present
<1>2. KVInv /\ LeaveInv /\ [Next]_vars => LeaveInv'
  <2>1. LeaveInv /\ UNCHANGED vars => LeaveInv'
    BY DEF LeaveInv, vars, replicaVars, leaveVars
  <2> QED
    BY <2>1, LeaveStep
<1> QED
  BY <1>1, <1>2, TypesInvariant, PTL DEF Spec

\* The assertion of a replica on requests of clients that are not live holds:
\* it hears nothing of a client after its disconnection.
THEOREM HearsNoneThatLeft == Spec => []NothingAfterDisconnection
<1>1. KVInv /\ LeaveInv => NothingAfterDisconnection
  <2> SUFFICES ASSUME KVInv, LeaveInv, NEW r \in ReplicaSet, NEW k \in DOMAIN replicas[r]
               PROVE  /\ replicas[r][k].client \in liveClients[r]
                      /\ \A l \in 1..(k - 1) :
                            replicas[r][l].op = "disconnect" => replicas[r][l].client # replicas[r][k].client
    BY DEF NothingAfterDisconnection
  <2>1. replicas[r] \in Seq(Message)
    BY DEF KVInv, KVTypes
  <2>2. k \in 1..Len(replicas[r]) /\ k \in Nat /\ Len(replicas[r]) \in Nat
    BY <2>1
  <2>3. \A l \in 1..(k - 1) : l \in 1..Len(replicas[r]) /\ l < k
    BY <2>2
  <2> QED
    BY <2>2, <2>3 DEF LeaveInv, QueueOK
<1> QED
  BY <1>1, TypesInvariant, LeaveInvariant, PTL

-----------------------------------------------------------------------------
(* A put and its place *)

\* A message is added: no put of c, or its put where none was.
LEMMA AppendAtMost ==
    ASSUME NEW S, NEW q \in Seq(S), NEW m \in S, NEW c, NEW w
    PROVE  /\ \A here \in BOOLEAN : AtMost(q, c, w, here) /\ ~IsPut(m, c) => AtMost(Append(q, m), c, w, here)
           /\ AtMost(q, c, w, FALSE) /\ m = w => AtMost(Append(q, m), c, w, TRUE)
<1> DEFINE p == Append(q, m)
<1>1. /\ Len(p) = Len(q) + 1 /\ p[Len(q) + 1] = m /\ Len(q) \in Nat
      /\ \A k \in 1..Len(q) : p[k] = q[k]
  BY SequenceStep
<1> HIDE DEF p
<1>2. \A k \in 1..Len(p) : k \in 1..Len(q) \/ k = Len(q) + 1
  BY <1>1
<1>3. ASSUME NEW here \in BOOLEAN, AtMost(q, c, w, here), ~IsPut(m, c)
      PROVE  AtMost(p, c, w, here)
  <2>1. \A k \in 1..Len(p) : IsPut(p[k], c) => k \in 1..Len(q) /\ IsPut(q[k], c) /\ p[k] = q[k]
    BY <1>1, <1>2, <1>3
  <2> QED
    BY <1>3, <2>1 DEF AtMost
<1>4. ASSUME AtMost(q, c, w, FALSE), m = w
      PROVE  AtMost(p, c, w, TRUE)
  <2>1. \A k \in 1..Len(p) : IsPut(p[k], c) => k = Len(q) + 1
    BY <1>1, <1>2, <1>4 DEF AtMost
  <2> QED
    BY <1>1, <1>4, <2>1 DEF AtMost
<1> QED
  BY <1>3, <1>4 DEF p

\* The first message is taken: if it is a put of c, it was the only one.
LEMMA TailAtMost ==
    ASSUME NEW S, NEW q \in Seq(S), q # <<>>, NEW c, NEW w, NEW here \in BOOLEAN, AtMost(q, c, w, here)
    PROVE  /\ AtMost(Tail(q), c, w, here)
           /\ IsPut(Head(q), c) => Head(q) = w /\ here /\ AtMost(Tail(q), c, w, FALSE)
<1> DEFINE p == Tail(q)
<1>1. /\ Len(p) = Len(q) - 1 /\ Len(q) \in Nat /\ Len(q) >= 1 /\ Head(q) = q[1]
      /\ \A k \in 1..(Len(q) - 1) : p[k] = q[k + 1]
  BY SequenceStep
<1> HIDE DEF p
<1>2. \A k \in 1..Len(p) : p[k] = q[k + 1] /\ k + 1 \in 1..Len(q) /\ k \in Nat
  BY <1>1
<1>3. 1 \in 1..Len(q)
  BY <1>1
<1>4. AtMost(p, c, w, here)
  <2>1. \A k \in 1..Len(p) : IsPut(p[k], c) => p[k] = w /\ here
    BY <1>2 DEF AtMost
  <2>2. ASSUME NEW k \in 1..Len(p), NEW l \in 1..Len(p), IsPut(p[k], c), IsPut(p[l], c) PROVE k = l
    <3>1. k + 1 = l + 1
      BY <1>2, <2>2 DEF AtMost
    <3> QED
      BY <1>2, <3>1
  <2> QED
    BY <2>1, <2>2 DEF AtMost
<1>5. ASSUME IsPut(Head(q), c) PROVE Head(q) = w /\ here /\ AtMost(p, c, w, FALSE)
  <2>1. Head(q) = w /\ here
    BY <1>1, <1>3, <1>5 DEF AtMost
  <2>2. \A k \in 1..Len(p) : ~IsPut(p[k], c)
    <3> SUFFICES ASSUME NEW k \in 1..Len(p), IsPut(p[k], c) PROVE FALSE
      OBVIOUS
    <3>1. IsPut(q[k + 1], c) /\ k + 1 \in 1..Len(q) /\ IsPut(q[1], c)
      BY <1>1, <1>2, <1>5
    <3>2. k + 1 = 1
      BY <1>3, <3>1 DEF AtMost
    <3> QED
      BY <1>2, <3>2
  <2> QED
    BY <2>1, <2>2 DEF AtMost
<1> QED
  BY <1>4, <1>5 DEF p

\* A sequence without a put of c is one for any message.
LEMMA NoneAtMost ==
    ASSUME NEW q, NEW c, NEW w, AtMost(q, c, w, FALSE), NEW v, NEW here \in BOOLEAN
    PROVE  AtMost(q, c, v, here)
  BY DEF AtMost

\* The replicas that hold the put.
LEMMA HoldersFinite ==
    ASSUME NEW c
    PROVE  /\ IsFiniteSet(Holders(c)) /\ Cardinality(Holders(c)) \in Nat
           /\ Cardinality(Holders(c)) <= NumReplicas
           /\ Cardinality(Holders(c)) = NumReplicas => Holders(c) = ReplicaSet
<1>1. IsFiniteSet(ReplicaSet) /\ Cardinality(ReplicaSet) = NumReplicas
  <2>1. NumReplicas - 1 \in Int /\ NumReplicas \in Nat /\ NumReplicas >= 1
    BY KVAssumption
  <2> QED
    BY <2>1, FS_Interval DEF ReplicaSet
<1>2. Holders(c) \in SUBSET ReplicaSet
  BY DEF Holders
<1>3. IsFiniteSet(Holders(c)) /\ Cardinality(Holders(c)) <= NumReplicas
      /\ (Cardinality(Holders(c)) = NumReplicas => Holders(c) = ReplicaSet)
  BY <1>1, <1>2, FS_Subset
<1> QED
  BY <1>3, FS_CardinalityType

\* What a step that leaves the put of c alone must still show.
LEMMA PutKept ==
    ASSUME NEW c \in ClientSet, PutOK(c), clock[c] \in Nat, clock'[c] \in Nat, clock'[c] >= clock[c],
           putReq'[c] = putReq[c], putPc'[c] = putPc[c], putJ'[c] = putJ[c], putI'[c] = putI[c],
           puts'[c] = puts[c], mailboxes'[<<"put", c>>] = mailboxes[<<"put", c>>], KVInv,
           \A r \in ReplicaSet : Has(r, c)' <=> Has(r, c),
           \A r \in ReplicaSet : \A k \in 1..Len(applied'[r]) : applied'[r][k].client = c =>
               k \in 1..Len(applied[r]) /\ applied'[r][k] = applied[r][k],
           \A r \in ReplicaSet : \A place \in Place : At(place, r, c) => \E p \in Place : At(p, r, c)'
    PROVE  PutOK(c)'
<1>1. \A r \in ReplicaSet : \E place \in Place : At(place, r, c)'
  <2> SUFFICES ASSUME NEW r \in ReplicaSet PROVE \E place \in Place : At(place, r, c)'
    OBVIOUS
  <2>1. PICK place \in Place : At(place, r, c)
    BY DEF PutOK
  <2> QED
    BY <2>1
<1>2. \A r \in ReplicaSet : (Ahead(r, c) => ~Has(r, c))'
  <2>1. \A r \in ReplicaSet : Ahead(r, c)' <=> Ahead(r, c)
    BY DEF Ahead
  <2> QED
    BY <2>1 DEF PutOK
<1>3. NotNewer(c)'
  <2>0. putReq[c] # Unsent => putReq[c].timestamp \in Nat
    BY DEF KVInv, ClientsInv, ClientOK, OwnPut, Stamped
  <2>1. (putReq[c] # Unsent => putReq[c].timestamp <= clock[c])'
    BY <2>0 DEF PutOK, NotNewer
  <2>2. ASSUME NEW r \in ReplicaSet, NEW k \in 1..Len(applied'[r]), applied'[r][k].client = c
        PROVE  applied'[r][k].timestamp <= clock'[c]
    <3>1. k \in 1..Len(applied[r]) /\ applied'[r][k] = applied[r][k]
      BY <2>2
    <3>2. applied[r][k].timestamp <= clock[c]
      BY <2>2, <3>1 DEF PutOK, NotNewer
    <3>3. applied[r][k] \in Stamped({"put"})
      BY <3>1 DEF KVInv, KVTypes
    <3>4. applied[r][k].timestamp \in Nat
      BY <3>3 DEF Stamped
    <3> QED
      BY <3>1, <3>2, <3>4
  <2> QED
    BY <2>1, <2>2 DEF NotNewer
<1>4. Counted(c)'
  <2>1. Holders(c)' = Holders(c)
    BY DEF Holders
  <2> QED
    BY <2>1 DEF PutOK, Counted
<1> QED
  BY <1>1, <1>2, <1>3, <1>4 DEF PutOK

\* A connected client's clock does not go back.
LEMMA ClockStep ==
    ASSUME KVInv, Next, NEW c \in ClientSet, Connected(c)'
    PROVE  Connected(c) /\ clock[c] \in Nat /\ clock'[c] \in Nat /\ clock'[c] >= clock[c]
<1>0. KVTypes /\ KVTypes'
  BY StepTypes DEF KVInv
<1>1. clock'[c] \in Nat
  BY <1>0 DEF KVTypes, Connected
<1>2. CASE UNCHANGED clock
  BY <1>1, <1>2 DEF Connected
<1>3. ASSUME NEW d \in ClientSet, Connected(d), Tick(d)
      PROVE  Connected(c) /\ clock[c] \in Nat /\ clock'[c] >= clock[c]
  <2>1. /\ clock[d] \in Nat /\ clock'[d] = clock[d] + 1
        /\ \A e \in ClientSet : e # d => clock'[e] = clock[e]
    BY <1>0, <1>3, TickIs
  <2>2. CASE c = d
    BY <1>3, <2>1, <2>2
  <2>3. CASE c # d
    BY <1>1, <2>1, <2>3 DEF Connected
  <2> QED
    BY <2>2, <2>3
<1>4. ASSUME NEW d \in ClientSet, clock' = [clock EXCEPT ![d] = Disconnected]
      PROVE  Connected(c) /\ clock[c] \in Nat /\ clock'[c] >= clock[c]
  BY <1>0, <1>1, <1>4 DEF Connected, KVTypes
<1>5. \A r \in ReplicaSet : Replica(r) => UNCHANGED clock
  BY DEF Replica, receiveClientRequest, findStableRequestsLoop, respondStableGet, respondStablePut, Responded
<1>6. \A d \in ClientSet : Get(d) => UNCHANGED clock \/ (Connected(d) /\ Tick(d))
  BY DEF Get, getRequest, getReply
<1>7. \A d \in ClientSet : Put(d) => UNCHANGED clock \/ (Connected(d) /\ Tick(d))
  BY DEF Put, putRequest, putBroadcast, putResponse
<1>8. \A d \in ClientSet : Disconnect(d) => UNCHANGED clock \/ clock' = [clock EXCEPT ![d] = Disconnected]
  BY DEF Disconnect, sendDisconnectRequest, disconnectBroadcast
<1>9. \A d \in ClientSet : ClockUpdate(d) => UNCHANGED clock \/ (Connected(d) /\ Tick(d))
  BY DEF ClockUpdate, clockUpdateLoop, nullBroadcast
<1> QED
  BY <1>1, <1>2, <1>3, <1>4, <1>5, <1>6, <1>7, <1>8, <1>9 DEF Next

\* A message that is no put of c leaves the put of c where it is.
LEMMA SentKept ==
    ASSUME KVInv, NEW r \in ReplicaSet, NEW m \in Message, SendToReplica(r, m), NEW c, ~IsPut(m, c),
           NEW s \in ReplicaSet, NEW here \in BOOLEAN, NEW w, AtMost(replicas[s], c, w, here)
    PROVE  AtMost(replicas'[s], c, w, here)
<1>1. replicas[r] \in Seq(Message) /\ KVTypes
  BY DEF KVInv, KVTypes
<1>2. /\ replicas'[r] = Append(replicas[r], m)
      /\ \A t \in ReplicaSet : t # r => replicas'[t] = replicas[t]
  BY <1>1, SendIs
<1>3. CASE s = r
  <2>1. AtMost(Append(replicas[r], m), c, w, here)
    BY <1>1, <1>3, AppendAtMost
  <2> QED
    BY <1>2, <1>3, <2>1
<1>4. CASE s # r
  BY <1>2, <1>4
<1> QED
  BY <1>3, <1>4

\* The put of c and the steps of the clients that are not of Put of c.
LEMMA OtherStep ==
    ASSUME KVInv, Next, NEW d \in ClientSet, Get(d) \/ Put(d) \/ Disconnect(d) \/ ClockUpdate(d),
           NEW c \in ClientSet, Connected(c)', PutOK(c), ~(Put(d) /\ c = d)
    PROVE  PutOK(c)'
<1>0. KVTypes /\ ClientsInv
  BY DEF KVInv
<1>1. clock[c] \in Nat /\ clock'[c] \in Nat /\ clock'[c] >= clock[c]
  BY ClockStep
<1>2. UNCHANGED <<liveClients, pendingRequests, stableMessages, applied>>
  BY ClientFrame DEF replicaVars
<1>3. /\ putReq'[c] = putReq[c] /\ putPc'[c] = putPc[c] /\ putJ'[c] = putJ[c]
      /\ putI'[c] = putI[c] /\ puts'[c] = puts[c]
  <2>1. CASE Put(d) /\ d # c
    BY <1>0, <2>1, PutOthers
  <2>2. CASE Get(d) \/ Disconnect(d) \/ ClockUpdate(d)
    <3>1. UNCHANGED putVars
      BY <2>2, ClientFrame
    <3> QED
      BY <3>1 DEF putVars
  <2> QED
    BY <2>1, <2>2
<1>4. mailboxes'[<<"put", c>>] = mailboxes[<<"put", c>>]
  <2>0. /\ <<"put", c>> \in Mailboxes /\ <<"get", d>> \in Mailboxes /\ <<"put", c>> # <<"get", d>>
    BY DEF Mailboxes
  <2>1. CASE Put(d) /\ d # c
    BY <1>0, <2>1, PutOthers
  <2>2. CASE Disconnect(d) \/ ClockUpdate(d)
    BY <2>2, ClientFrame
  <2>3. CASE getRequest(d)
    BY <2>3 DEF getRequest
  <2>4. CASE getReply(d)
    <3>1. UNCHANGED mailboxes \/ mailboxes' = [mailboxes EXCEPT ![<<"get", d>>] = Tail(@)]
      BY <2>4 DEF getReply
    <3> QED
      BY <1>0, <2>0, <3>1 DEF KVTypes
  <2> QED
    BY <2>1, <2>2, <2>3, <2>4 DEF Get
<1>5. \/ UNCHANGED replicas
      \/ \E r \in ReplicaSet, m \in Message : SendToReplica(r, m) /\ ~IsPut(m, c)
  <2>1. \A m : m.client = d /\ (m.op = "put" => putBroadcast(d)) => ~IsPut(m, c)
    BY DEF IsPut, Put
  <2>2. \A m : m.op = "disconnect" => ~IsPut(m, c)
    BY DEF IsPut
  <2> QED
    BY <2>1, <2>2, ClientSends
<1>6. ASSUME NEW r \in ReplicaSet, NEW here \in BOOLEAN, AtMost(replicas[r], c, putReq[c], here)
      PROVE  AtMost(replicas'[r], c, putReq[c], here)
  BY <1>5, <1>6, SentKept
<1>7. \A r \in ReplicaSet : /\ Has(r, c)' <=> Has(r, c)
                            /\ Ahead(r, c)' <=> Ahead(r, c)
  BY <1>2, <1>3 DEF Has, Ahead
<1>8. ASSUME NEW r \in ReplicaSet, NEW place \in Place, At(place, r, c) PROVE At(place, r, c)'
  BY <1>2, <1>3, <1>6, <1>7, <1>8 DEF At
<1>9. \A r \in ReplicaSet : applied'[r] = applied[r]
  BY <1>2
<1> QED
  BY <1>1, <1>3, <1>4, <1>7, <1>8, <1>9, PutKept

-----------------------------------------------------------------------------
(* The steps of the client's own Put *)

\* A new put: nothing of the one before is left, and no replica has applied it.
LEMMA PutRequestStep ==
    ASSUME KVInv, Next, NEW c \in ClientSet, putRequest(c), Connected(c)', PutOK(c)
    PROVE  PutOK(c)'
<1>0. KVTypes /\ ClientsInv /\ ProcessTypes /\ ClientOK(c)
  BY DEF KVInv, ClientsInv
<1>1. clock[c] \in Nat /\ clock'[c] \in Nat
  BY ClockStep
<1>2. PICK m \in Stamped({"put"}) :
         /\ Connected(c) /\ putPc[c] = "putRequest" /\ Tick(c)
         /\ m.timestamp = clock[c] + 1 /\ m # Unsent
         /\ putReq' = [putReq EXCEPT ![c] = m]
         /\ putI' = [putI EXCEPT ![c] = 0] /\ putJ' = [putJ EXCEPT ![c] = 0]
         /\ puts' = [puts EXCEPT ![c] = @ + 1]
         /\ putPc' = [putPc EXCEPT ![c] = "putBroadcast"]
         /\ UNCHANGED <<replicas, mailboxes, replicaVars>>
  BY <1>0, PutRequestIs
<1>3. /\ putReq'[c] = m /\ putI'[c] = 0 /\ putPc'[c] = "putBroadcast"
      /\ UNCHANGED <<replicas, mailboxes, pendingRequests, stableMessages, applied>>
  BY <1>0, <1>2 DEF ProcessTypes, KVTypes, replicaVars
<1>4. clock'[c] = clock[c] + 1
  BY <1>0, <1>2, TickIs
<1>5. \A r \in ReplicaSet : \A k \in 1..Len(applied[r]) :
         applied[r][k].client = c => applied[r][k].timestamp \in Nat /\ applied[r][k].timestamp <= clock[c]
  <2> SUFFICES ASSUME NEW r \in ReplicaSet, NEW k \in 1..Len(applied[r]), applied[r][k].client = c
               PROVE  applied[r][k].timestamp \in Nat /\ applied[r][k].timestamp <= clock[c]
    OBVIOUS
  <2>1. applied[r][k] \in Stamped({"put"})
    BY <1>0 DEF KVTypes
  <2> QED
    BY <2>1 DEF PutOK, NotNewer, Stamped
<1>6. m.client = c
  <2>1. ClientsInv'
    BY StepTypes DEF KVInv
  <2>2. OwnPut(c, putReq[c])'
    BY <2>1 DEF ClientsInv, ClientOK
  <2> QED
    BY <1>2, <1>3, <2>2 DEF OwnPut
<1>7. \A r \in ReplicaSet : ~Has(r, c)'
  <2> SUFFICES ASSUME NEW r \in ReplicaSet, NEW k \in 1..Len(applied[r]), applied[r][k] = m PROVE FALSE
    BY <1>3 DEF Has, Contains
  <2>1. m.timestamp <= clock[c]
    BY <1>5, <1>6
  <2> QED
    BY <1>1, <1>2, <2>1
<1>8. \A r \in ReplicaSet : At("none", r, c)'
  <2> SUFFICES ASSUME NEW r \in ReplicaSet PROVE At("none", r, c)'
    OBVIOUS
  <2>1. At("none", r, c)
    <3>1. PICK place \in Place : At(place, r, c)
      BY DEF PutOK
    <3> QED
      BY <1>2, <3>1 DEF At
  <2>2. /\ AtMost(replicas[r], c, putReq[c], FALSE) /\ AtMost(pendingRequests[r][c], c, putReq[c], FALSE)
        /\ AtMost(stableMessages[r], c, putReq[c], FALSE)
    BY <2>1 DEF At
  <2>3. /\ AtMost(replicas[r], c, m, FALSE) /\ AtMost(pendingRequests[r][c], c, m, FALSE)
        /\ AtMost(stableMessages[r], c, m, FALSE)
    BY <2>2, NoneAtMost
  <2> QED
    BY <1>3, <2>3 DEF At
<1>9. NotNewer(c)'
  <2>1. (putReq[c] # Unsent => putReq[c].timestamp <= clock[c])'
    BY <1>1, <1>2, <1>3, <1>4
  <2>2. (\A r \in ReplicaSet : \A k \in 1..Len(applied[r]) :
            applied[r][k].client = c => applied[r][k].timestamp <= clock[c])'
    BY <1>1, <1>3, <1>4, <1>5
  <2> QED
    BY <2>1, <2>2 DEF NotNewer
<1>10. Counted(c)'
  <2>1. Holders(c)' = {}
    BY <1>7 DEF Holders
  <2>2. Cardinality(Holders(c)') = 0
    BY <2>1, FS_EmptySet
  <2>3. mailboxes'[<<"put", c>>] = <<>>
    BY <1>2, <1>3 DEF PutOK, Counted
  <2> QED
    BY <1>3, <2>2, <2>3 DEF Counted
<1>11. "none" \in Place
  BY DEF Place
<1> QED
  BY <1>7, <1>8, <1>9, <1>10, <1>11 DEF PutOK

\* The put goes into the channel of the next replica.
LEMMA PutBroadcastStep ==
    ASSUME KVInv, Next, NEW c \in ClientSet, putBroadcast(c), Connected(c)', PutOK(c)
    PROVE  PutOK(c)'
<1>0. KVTypes /\ ClientsInv /\ ProcessTypes
  BY DEF KVInv, ClientsInv
<1>1. Connected(c)
  BY ClockStep
<1>15. putJ[c] \in ReplicaSet
  BY <1>0, PutBroadcastIs
<1> PICK j \in ReplicaSet : j = putJ[c]
  BY <1>15
<1>2. /\ putPc[c] = "putBroadcast" /\ j \in ReplicaSet /\ j = putJ[c]
      /\ putReq[c] \in Message
      /\ UNCHANGED <<clock, mailboxes, replicaVars, putReq, putI, puts>>
      /\ SendToReplica(j, putReq[c])
      /\ putJ' = [putJ EXCEPT ![c] = @ + 1]
      /\ \E l \in {"putResponse", "putBroadcast"} : putPc' = [putPc EXCEPT ![c] = l]
  BY <1>0, <1>1, PutBroadcastIs
<1>3. /\ putJ'[c] = j + 1 /\ putPc'[c] \in {"putResponse", "putBroadcast"}
      /\ UNCHANGED <<pendingRequests, stableMessages, applied>>
  BY <1>0, <1>2 DEF ProcessTypes, KVTypes, replicaVars
<1>4. /\ replicas'[j] = Append(replicas[j], putReq[c]) /\ replicas[j] \in Seq(Message)
      /\ \A s \in ReplicaSet : s # j => replicas'[s] = replicas[s]
  BY <1>0, <1>2, SendIs DEF KVTypes
<1>5. \A r \in ReplicaSet : Has(r, c)' <=> Has(r, c)
  BY <1>2, <1>3 DEF Has
<1>6. \A r \in ReplicaSet : Ahead(r, c)' => Ahead(r, c) /\ r # j
  <2>1. j \in Int /\ \A r \in ReplicaSet : r \in Int
    BY <1>2 DEF ReplicaSet
  <2> QED
    BY <1>2, <1>3, <2>1 DEF Ahead
<1>7. Ahead(j, c)
  BY <1>2 DEF Ahead, ReplicaSet
<1>8. ~Has(j, c) /\ At("none", j, c)
  <2>1. PICK place \in Place : At(place, j, c)
    BY <1>2 DEF PutOK
  <2> QED
    BY <1>2, <1>7, <2>1 DEF At, PutOK
<1>9. At("channel", j, c)'
  <2>1. AtMost(Append(replicas[j], putReq[c]), c, putReq[c], TRUE)
    <3>1. AtMost(replicas[j], c, putReq[c], FALSE)
      BY <1>8 DEF At
    <3> QED
      BY <1>2, <1>4, <3>1, AppendAtMost
  <2>2. AtMost(pendingRequests[j][c], c, putReq[c], FALSE) /\ AtMost(stableMessages[j], c, putReq[c], FALSE)
    BY <1>8 DEF At
  <2>3. ~Has(j, c)' /\ ~Ahead(j, c)' /\ putPc'[c] # "putRequest"
    BY <1>2, <1>3, <1>5, <1>6, <1>8
  <2> QED
    BY <1>2, <1>3, <1>4, <2>1, <2>2, <2>3 DEF At
<1>10. ASSUME NEW r \in ReplicaSet, r # j PROVE \E place \in Place : At(place, r, c)'
  <2>1. PICK place \in Place : At(place, r, c)
    BY DEF PutOK
  <2>2. At(place, r, c)'
    BY <1>2, <1>3, <1>4, <1>5, <1>6, <1>10, <2>1 DEF At
  <2> QED
    BY <2>2
<1>11. \A r \in ReplicaSet : \E place \in Place : At(place, r, c)'
  BY <1>9, <1>10 DEF Place
<1>12. \A r \in ReplicaSet : (Ahead(r, c) => ~Has(r, c))'
  BY <1>5, <1>6 DEF PutOK
<1>13. NotNewer(c)'
  BY <1>2, <1>3 DEF NotNewer, PutOK
<1>14. Counted(c)'
  <2>1. Holders(c)' = Holders(c)
    BY <1>5 DEF Holders
  <2> QED
    BY <1>2, <1>3, <2>1 DEF Counted, PutOK
<1> QED
  BY <1>11, <1>12, <1>13, <1>14 DEF PutOK

\* A response: the last one means that every replica holds the put.
LEMMA PutResponseStep ==
    ASSUME KVInv, Next, NEW c \in ClientSet, putResponse(c), Connected(c)', PutOK(c)
    PROVE  PutOK(c)'
<1>0. KVTypes /\ ClientsInv /\ ProcessTypes
  BY DEF KVInv, ClientsInv
<1>1. Connected(c)
  BY ClockStep
<1> DEFINE box == <<"put", c>>
<1>2. /\ putPc[c] = "putResponse" /\ mailboxes[box] # <<>>
      /\ UNCHANGED <<clock, replicas, replicaVars, putReq, putJ, puts>>
      /\ mailboxes' = [mailboxes EXCEPT ![box] = Tail(@)]
      /\ putI' = [putI EXCEPT ![c] = @ + 1]
      /\ putPc' = [putPc EXCEPT ![c] = IF putI[c] + 1 = NumReplicas THEN "putRequest" ELSE "putResponse"]
  BY <1>0, <1>1, PutResponseIs
<1>3. box \in Mailboxes
  BY DEF Mailboxes
<1> HIDE DEF box
<1>4. /\ mailboxes[box] \in Seq({"ok"} \cup Int) /\ mailboxes'[box] \in Seq({"ok"} \cup Int)
      /\ Len(mailboxes'[box]) = Len(mailboxes[box]) - 1
      /\ Len(mailboxes[box]) \in Nat /\ Len(mailboxes[box]) >= 1
  <2>1. mailboxes[box] \in Seq({"ok"} \cup Int)
    BY <1>0, <1>3 DEF KVTypes
  <2>2. Len(mailboxes[box]) \in Nat /\ Len(mailboxes[box]) >= 1
    BY <1>2, <2>1, SequenceStep
  <2> QED
    BY <1>0, <1>2, <1>3, <2>1, <2>2, TakeIs
<1>5. /\ putI[c] \in Nat /\ putI'[c] = putI[c] + 1
      /\ putPc'[c] = IF putI[c] + 1 = NumReplicas THEN "putRequest" ELSE "putResponse"
      /\ UNCHANGED <<pendingRequests, stableMessages, applied>>
  BY <1>0, <1>2 DEF ProcessTypes, KVTypes, replicaVars
<1>6. \A r \in ReplicaSet : (Has(r, c)' <=> Has(r, c)) /\ ~Ahead(r, c)'
  BY <1>2, <1>5 DEF Has, Ahead
<1>7. Holders(c)' = Holders(c)
  BY <1>6 DEF Holders
<1>8. putI[c] + Len(mailboxes[box]) = Cardinality(Holders(c))
  BY <1>2 DEF PutOK, Counted, box
<1>9. putI[c] + 1 = NumReplicas => Len(mailboxes[box]) = 1 /\ Holders(c) = ReplicaSet
  <2>1. /\ Cardinality(Holders(c)) \in Nat /\ Cardinality(Holders(c)) <= NumReplicas
        /\ Cardinality(Holders(c)) = NumReplicas => Holders(c) = ReplicaSet
    BY HoldersFinite
  <2>2. \A a, b, h, n \in Nat : a + b = h /\ h <= n /\ b >= 1 /\ a + 1 = n => b = 1 /\ h = n
    OBVIOUS
  <2>3. NumReplicas \in Nat
    BY KVAssumption
  <2>4. putI[c] + 1 = NumReplicas => Len(mailboxes[box]) = 1 /\ Cardinality(Holders(c)) = NumReplicas
    BY <1>4, <1>5, <1>8, <2>1, <2>2, <2>3
  <2> QED
    BY <2>1, <2>4
<1>10. Counted(c)'
  <2>1. putI'[c] + Len(mailboxes'[box]) = Cardinality(Holders(c)')
    <3>1. putI'[c] + Len(mailboxes'[box]) = putI[c] + Len(mailboxes[box])
      <4>1. \A a, b \in Nat : (a + 1) + (b - 1) = a + b
        OBVIOUS
      <4>2. putI[c] \in Nat /\ Len(mailboxes[box]) \in Nat
        BY <1>4, <1>5
      <4>3. putI'[c] = putI[c] + 1 /\ Len(mailboxes'[box]) = Len(mailboxes[box]) - 1
        BY <1>4, <1>5
      <4> QED
        BY <4>1, <4>2, <4>3
    <3> QED
      BY <1>7, <1>8, <3>1
  <2>2. putPc'[c] = "putRequest" => mailboxes'[box] = <<>> /\ Holders(c)' = ReplicaSet
    <3>1. \A q \in Seq({"ok"} \cup Int) : Len(q) = 0 => q = <<>>
      OBVIOUS
    <3>2. putPc'[c] = "putRequest" => Len(mailboxes'[box]) = 0 /\ Holders(c)' = ReplicaSet
      BY <1>4, <1>5, <1>7, <1>9
    <3> QED
      BY <1>4, <3>1, <3>2
  <2> QED
    BY <2>1, <2>2 DEF Counted, box
<1>11. ASSUME NEW r \in ReplicaSet PROVE \E place \in Place : At(place, r, c)'
  <2>1. PICK place \in Place : At(place, r, c)
    BY DEF PutOK
  <2>2. putPc'[c] = "putRequest" => Has(r, c)
    BY <1>5, <1>9 DEF Holders
  <2>3. (Has(r, c)' \/ Ahead(r, c)' \/ putPc'[c] = "putRequest") => place = "none"
    BY <1>6, <2>1, <2>2 DEF At
  <2>4. At(place, r, c)'
    BY <1>2, <1>5, <2>1, <2>3 DEF At
  <2> QED
    BY <2>4
<1>12. NotNewer(c)'
  BY <1>2, <1>5 DEF NotNewer, PutOK
<1> QED
  BY <1>6, <1>10, <1>11, <1>12 DEF PutOK

-----------------------------------------------------------------------------
(* The steps of a replica *)

\* What the steps of a replica leave alone.
LEMMA ReplicaSees ==
    ASSUME KVInv, Next, NEW r \in ReplicaSet, Replica(r), NEW c \in ClientSet, Connected(c)'
    PROVE  /\ clock[c] \in Nat /\ clock'[c] \in Nat /\ clock'[c] >= clock[c]
           /\ putReq'[c] = putReq[c] /\ putPc'[c] = putPc[c] /\ putJ'[c] = putJ[c]
           /\ putI'[c] = putI[c] /\ puts'[c] = puts[c]
           /\ \A s \in ReplicaSet : Ahead(s, c)' <=> Ahead(s, c)
<1>1. UNCHANGED putVars
  BY DEF Replica, receiveClientRequest, findStableRequestsLoop, respondStableGet, respondStablePut, Responded
<1> QED
  BY <1>1, ClockStep DEF putVars, Ahead

\* The put goes from the channel to the pending requests,
LEMMA ReceiveStep ==
    ASSUME KVInv, Next, NEW r \in ReplicaSet, receiveClientRequest(r),
           NEW c \in ClientSet, Connected(c)', PutOK(c)
    PROVE  PutOK(c)'
<1>0. KVTypes
  BY DEF KVInv
<1>1. /\ clock[c] \in Nat /\ clock'[c] \in Nat /\ clock'[c] >= clock[c]
      /\ putReq'[c] = putReq[c] /\ putPc'[c] = putPc[c] /\ putJ'[c] = putJ[c]
      /\ putI'[c] = putI[c] /\ puts'[c] = puts[c]
      /\ \A s \in ReplicaSet : Ahead(s, c)' <=> Ahead(s, c)
  BY ReplicaSees DEF Replica
<1>2. PICK m \in Message :
         /\ m = Head(replicas[r]) /\ replicas[r] # <<>> /\ m.client \in ClientSet
         /\ replicas' = [replicas EXCEPT ![r] = Tail(@)]
         /\ pendingRequests' = IF m.op \in {"get", "put"}
                               THEN [pendingRequests EXCEPT ![r][m.client] = Append(@, m)]
                               ELSE pendingRequests
         /\ m.op \in {"get", "put"} => m \in Request
         /\ UNCHANGED <<mailboxes, stableMessages, applied>>
  BY <1>0, ReceiveIs
<1>3. /\ replicas'[r] = Tail(replicas[r]) /\ replicas[r] \in Seq(Message)
      /\ \A s \in ReplicaSet : s # r => replicas'[s] = replicas[s]
  BY <1>0, <1>2 DEF KVTypes
<1>4. /\ pendingRequests[r][c] \in Seq(Request)
      /\ \A s \in ReplicaSet : s # r => pendingRequests'[s][c] = pendingRequests[s][c]
      /\ pendingRequests'[r][c] = IF m.op \in {"get", "put"} /\ m.client = c
                                  THEN Append(pendingRequests[r][c], m) ELSE pendingRequests[r][c]
  <2>1. pendingRequests \in [ReplicaSet -> [ClientSet -> Seq(Request)]]
    BY <1>0 DEF KVTypes
  <2>2. CASE m.op \in {"get", "put"}
    <3> DEFINE p == Append(pendingRequests[r][m.client], m)
    <3>1. p \in Seq(Request)
      BY <1>2, <2>1, <2>2, SequenceStep
    <3>2. pendingRequests' = [pendingRequests EXCEPT ![r][m.client] = p]
      BY <1>2, <2>2
    <3> HIDE DEF p
    <3>3. /\ pendingRequests'[r][m.client] = p
          /\ \A d \in ClientSet : d # m.client => pendingRequests'[r][d] = pendingRequests[r][d]
          /\ \A s \in ReplicaSet : s # r => pendingRequests'[s] = pendingRequests[s]
      BY <1>2, <2>1, <3>1, <3>2, Entry
    <3> QED
      BY <2>1, <2>2, <3>3 DEF p
  <2>3. CASE m.op \notin {"get", "put"}
    BY <1>2, <2>1, <2>3
  <2> QED
    BY <2>2, <2>3
<1>5. \A s \in ReplicaSet : Has(s, c)' <=> Has(s, c)
  BY <1>1, <1>2 DEF Has
<1>6. ASSUME NEW s \in ReplicaSet, NEW place \in Place, At(place, s, c)
      PROVE  \E p \in Place : At(p, s, c)'
  <2>1. CASE s # r
    <3>1. At(place, s, c)'
      BY <1>1, <1>2, <1>3, <1>4, <1>5, <1>6, <2>1 DEF At
    <3> QED
      BY <3>1
  <2>2. CASE s = r
    <3>0. /\ stableMessages'[r] = stableMessages[r] /\ (place = "channel") \in BOOLEAN /\ (place = "pending") \in BOOLEAN
          /\ AtMost(replicas[r], c, putReq[c], place = "channel")
          /\ AtMost(pendingRequests[r][c], c, putReq[c], place = "pending")
          /\ AtMost(stableMessages[r], c, putReq[c], place = "stable")
      BY <1>2, <1>6, <2>2 DEF At
    <3>1. /\ AtMost(replicas'[r], c, putReq[c], place = "channel")
          /\ IsPut(m, c) => m = putReq[c] /\ place = "channel" /\ AtMost(replicas'[r], c, putReq[c], FALSE)
      <4>1. replicas[r] # <<>> /\ Head(replicas[r]) = m
        BY <1>2
      <4>2. /\ AtMost(Tail(replicas[r]), c, putReq[c], place = "channel")
            /\ IsPut(Head(replicas[r]), c) => /\ Head(replicas[r]) = putReq[c] /\ place = "channel"
                                              /\ AtMost(Tail(replicas[r]), c, putReq[c], FALSE)
        BY <1>3, <3>0, <4>1, TailAtMost
      <4> QED
        BY <1>3, <4>1, <4>2
    <3>2. CASE IsPut(m, c)
      <4>1. AtMost(pendingRequests[r][c], c, putReq[c], FALSE) /\ AtMost(stableMessages[r], c, putReq[c], FALSE)
        BY <3>0, <3>1, <3>2
      <4>2. pendingRequests'[r][c] = Append(pendingRequests[r][c], m) /\ m \in Request
        BY <1>2, <1>4, <3>2 DEF IsPut
      <4>3. AtMost(pendingRequests'[r][c], c, putReq[c], TRUE)
        <5>1. AtMost(Append(pendingRequests[r][c], m), c, putReq[c], TRUE)
          BY <1>4, <3>1, <3>2, <4>1, <4>2, AppendAtMost
        <5> QED
          BY <4>2, <5>1
      <4>4. ~Has(r, c) /\ ~Ahead(r, c) /\ putPc[c] # "putRequest"
        BY <1>6, <2>2, <3>1, <3>2 DEF At
      <4>5. At("pending", r, c)'
        BY <1>1, <1>2, <1>5, <3>1, <3>2, <4>1, <4>3, <4>4 DEF At
      <4> QED
        BY <2>2, <4>5 DEF Place
    <3>3. CASE ~IsPut(m, c)
      <4>1. AtMost(pendingRequests'[r][c], c, putReq[c], place = "pending")
        <5>1. CASE m.op \in {"get", "put"} /\ m.client = c
          <6>1. m \in Request /\ pendingRequests'[r][c] = Append(pendingRequests[r][c], m)
            BY <1>2, <1>4, <5>1
          <6>2. AtMost(Append(pendingRequests[r][c], m), c, putReq[c], place = "pending")
            BY <1>4, <3>0, <3>3, <6>1, AppendAtMost
          <6> QED
            BY <6>1, <6>2
        <5>2. CASE ~(m.op \in {"get", "put"} /\ m.client = c)
          BY <1>4, <3>0, <5>2
        <5> QED
          BY <5>1, <5>2
      <4>2. At(place, r, c)'
        BY <1>1, <1>2, <1>5, <1>6, <2>2, <3>0, <3>1, <4>1 DEF At
      <4> QED
        BY <2>2, <4>2
    <3> QED
      BY <3>2, <3>3
  <2> QED
    BY <2>1, <2>2
<1>7. mailboxes'[<<"put", c>>] = mailboxes[<<"put", c>>] /\ \A s \in ReplicaSet : applied'[s] = applied[s]
  BY <1>2
<1> QED
  BY <1>1, <1>5, <1>6, <1>7, PutKept

\* from there to the stable ones,
LEMMA FindStableStep ==
    ASSUME KVInv, Next, NEW r \in ReplicaSet, findStableRequestsLoop(r),
           NEW c \in ClientSet, Connected(c)', PutOK(c)
    PROVE  PutOK(c)'
<1>0. KVTypes /\ PendingOK
  BY DEF KVInv
<1>1. /\ clock[c] \in Nat /\ clock'[c] \in Nat /\ clock'[c] >= clock[c]
      /\ putReq'[c] = putReq[c] /\ putPc'[c] = putPc[c] /\ putJ'[c] = putJ[c]
      /\ putI'[c] = putI[c] /\ puts'[c] = puts[c]
      /\ \A s \in ReplicaSet : Ahead(s, c)' <=> Ahead(s, c)
  BY ReplicaSees DEF Replica
<1>2. UNCHANGED <<replicas, mailboxes, applied>>
  BY DEF findStableRequestsLoop
<1>3. PICK e \in ClientSet :
         /\ pendingRequests[r][e] # <<>>
         /\ stableMessages' = [stableMessages EXCEPT ![r] = Append(@, Head(pendingRequests[r][e]))]
         /\ pendingRequests' = [pendingRequests EXCEPT ![r][e] = Tail(@)]
  BY <1>0, FindStableIs
<1>4. pendingRequests \in [ReplicaSet -> [ClientSet -> Seq(Request)]]
      /\ stableMessages \in [ReplicaSet -> Seq(Request)]
  BY <1>0 DEF KVTypes
<1>5. PICK m : m = Head(pendingRequests[r][e])
  OBVIOUS
<1>6. m \in Request /\ m.client = e /\ Tail(pendingRequests[r][e]) \in Seq(Request)
  <2>1. /\ m \in Request /\ m = pendingRequests[r][e][1] /\ Len(pendingRequests[r][e]) >= 1
        /\ Len(pendingRequests[r][e]) \in Nat /\ Tail(pendingRequests[r][e]) \in Seq(Request)
    BY <1>3, <1>4, <1>5, SequenceStep
  <2>2. 1 \in 1..Len(pendingRequests[r][e])
    BY <2>1
  <2> QED
    BY <1>0, <2>1, <2>2 DEF PendingOK
<1>7. /\ \A s \in ReplicaSet : s # r => pendingRequests'[s][c] = pendingRequests[s][c]
      /\ pendingRequests'[r][c] = IF c = e THEN Tail(pendingRequests[r][c]) ELSE pendingRequests[r][c]
  <2> DEFINE p == Tail(pendingRequests[r][e])
  <2>1. pendingRequests' = [pendingRequests EXCEPT ![r][e] = p] /\ p \in Seq(Request)
    BY <1>3, <1>6
  <2> HIDE DEF p
  <2>2. /\ pendingRequests'[r][e] = p
        /\ \A d \in ClientSet : d # e => pendingRequests'[r][d] = pendingRequests[r][d]
        /\ \A s \in ReplicaSet : s # r => pendingRequests'[s] = pendingRequests[s]
    BY <1>4, <2>1, Entry
  <2> QED
    BY <2>2 DEF p
<1>8. /\ \A s \in ReplicaSet : s # r => stableMessages'[s] = stableMessages[s]
      /\ stableMessages'[r] = Append(stableMessages[r], m)
  BY <1>3, <1>4, <1>5
<1>9. \A s \in ReplicaSet : Has(s, c)' <=> Has(s, c)
  BY <1>1, <1>2 DEF Has
<1>10. ASSUME NEW s \in ReplicaSet, NEW place \in Place, At(place, s, c)
       PROVE  \E p \in Place : At(p, s, c)'
  <2>1. CASE s # r
    <3>1. At(place, s, c)'
      BY <1>1, <1>2, <1>7, <1>8, <1>9, <1>10, <2>1 DEF At
    <3> QED
      BY <3>1
  <2>2. CASE s = r
    <3>0. /\ (place = "stable") \in BOOLEAN /\ (place = "pending") \in BOOLEAN
          /\ AtMost(replicas[r], c, putReq[c], place = "channel")
          /\ AtMost(pendingRequests[r][c], c, putReq[c], place = "pending")
          /\ AtMost(stableMessages[r], c, putReq[c], place = "stable")
      BY <1>10, <2>2 DEF At
    <3>1. /\ AtMost(pendingRequests'[r][c], c, putReq[c], place = "pending")
          /\ IsPut(m, c) => m = putReq[c] /\ place = "pending" /\ AtMost(pendingRequests'[r][c], c, putReq[c], FALSE)
      <4>1. CASE c = e
        BY <1>3, <1>4, <1>5, <1>7, <3>0, <4>1, TailAtMost
      <4>2. CASE c # e
        BY <1>6, <1>7, <3>0, <4>2 DEF IsPut
      <4> QED
        BY <4>1, <4>2
    <3>2. CASE IsPut(m, c)
      <4>1. AtMost(replicas[r], c, putReq[c], FALSE) /\ AtMost(stableMessages[r], c, putReq[c], FALSE)
        BY <3>0, <3>1, <3>2
      <4>2. AtMost(stableMessages'[r], c, putReq[c], TRUE)
        <5>1. AtMost(Append(stableMessages[r], m), c, putReq[c], TRUE)
          BY <1>4, <1>6, <3>1, <3>2, <4>1, AppendAtMost
        <5> QED
          BY <1>8, <5>1
      <4>3. ~Has(r, c) /\ ~Ahead(r, c) /\ putPc[c] # "putRequest"
        BY <1>10, <2>2, <3>1, <3>2 DEF At
      <4>4. At("stable", r, c)'
        BY <1>1, <1>2, <1>9, <3>1, <3>2, <4>1, <4>2, <4>3 DEF At
      <4> QED
        BY <2>2, <4>4 DEF Place
    <3>3. CASE ~IsPut(m, c)
      <4>1. AtMost(stableMessages'[r], c, putReq[c], place = "stable")
        <5>1. stableMessages[r] \in Seq(Request)
          BY <1>4
        <5>2. AtMost(Append(stableMessages[r], m), c, putReq[c], place = "stable")
          BY <1>6, <3>0, <3>3, <5>1, AppendAtMost
        <5> QED
          BY <1>8, <5>2
      <4>2. At(place, r, c)'
        BY <1>1, <1>2, <1>9, <1>10, <2>2, <3>0, <3>1, <4>1 DEF At
      <4> QED
        BY <2>2, <4>2
    <3> QED
      BY <3>2, <3>3
  <2> QED
    BY <2>1, <2>2
<1>11. mailboxes'[<<"put", c>>] = mailboxes[<<"put", c>>] /\ \A s \in ReplicaSet : applied'[s] = applied[s]
  BY <1>2
<1> QED
  BY <1>1, <1>9, <1>10, <1>11, PutKept

\* and is applied and answered.
LEMMA RespondStep ==
    ASSUME KVInv, Next, NEW r \in ReplicaSet, respondStableGet(r) \/ respondStablePut(r),
           NEW c \in ClientSet, Connected(c)', PutOK(c)
    PROVE  PutOK(c)'
<1>0. KVTypes /\ ClientsInv
  BY DEF KVInv
<1>1. /\ clock[c] \in Nat /\ clock'[c] \in Nat /\ clock'[c] >= clock[c]
      /\ putReq'[c] = putReq[c] /\ putPc'[c] = putPc[c] /\ putJ'[c] = putJ[c]
      /\ putI'[c] = putI[c] /\ puts'[c] = puts[c]
      /\ \A s \in ReplicaSet : Ahead(s, c)' <=> Ahead(s, c)
  BY ReplicaSees DEF Replica
<1>2. PICK m \in Request :
         /\ m = Head(stableMessages[r]) /\ stableMessages[r] # <<>> /\ m.client \in ClientSet
         /\ stableMessages' = [stableMessages EXCEPT ![r] = Tail(@)]
         /\ \/ m.op = "get" /\ UNCHANGED applied
               /\ \E v \in Int : SendToClient(<<"get", m.client>>, v)
            \/ /\ m.op = "put" /\ SendToClient(<<"put", m.client>>, "ok")
               /\ applied' = [applied EXCEPT ![r] = Append(@, m)]
         /\ UNCHANGED <<clock, replicas, pendingRequests>>
  BY <1>0, RespondIs
<1>3. /\ stableMessages'[r] = Tail(stableMessages[r]) /\ stableMessages[r] \in Seq(Request)
      /\ \A s \in ReplicaSet : s # r => stableMessages'[s] = stableMessages[s]
  BY <1>0, <1>2 DEF KVTypes
<1>4. <<"put", c>> \in Mailboxes /\ \A d \in ClientSet : <<"get", d>> \in Mailboxes /\ <<"put", d>> \in Mailboxes
  BY DEF Mailboxes
<1>5. \A place \in Place : At(place, r, c) =>
         /\ (place = "stable") \in BOOLEAN
         /\ AtMost(Tail(stableMessages[r]), c, putReq[c], place = "stable")
         /\ IsPut(m, c) => m = putReq[c] /\ place = "stable" /\ AtMost(Tail(stableMessages[r]), c, putReq[c], FALSE)
  <2> SUFFICES ASSUME NEW place \in Place, At(place, r, c)
               PROVE  /\ (place = "stable") \in BOOLEAN
                      /\ AtMost(Tail(stableMessages[r]), c, putReq[c], place = "stable")
                      /\ IsPut(m, c) => /\ m = putReq[c] /\ place = "stable"
                                        /\ AtMost(Tail(stableMessages[r]), c, putReq[c], FALSE)
    OBVIOUS
  <2>1. (place = "stable") \in BOOLEAN /\ AtMost(stableMessages[r], c, putReq[c], place = "stable")
    BY DEF At
  <2>2. stableMessages[r] # <<>> /\ Head(stableMessages[r]) = m
    BY <1>2
  <2>3. /\ AtMost(Tail(stableMessages[r]), c, putReq[c], place = "stable")
        /\ IsPut(Head(stableMessages[r]), c) => /\ Head(stableMessages[r]) = putReq[c] /\ place = "stable"
                                                /\ AtMost(Tail(stableMessages[r]), c, putReq[c], FALSE)
    BY <1>3, <2>1, <2>2, TailAtMost
  <2> QED
    BY <2>1, <2>2, <2>3
<1>6. CASE ~IsPut(m, c)
  <2>1. mailboxes'[<<"put", c>>] = mailboxes[<<"put", c>>]
    <3>1. CASE m.op = "get"
      <4>1. PICK v \in Int : SendToClient(<<"get", m.client>>, v)
        BY <1>2, <3>1
      <4>2. <<"put", c>> # <<"get", m.client>>
        OBVIOUS
      <4> QED
        BY <1>0, <1>2, <1>4, <4>1, <4>2, ReplyIs
    <3>2. CASE m.op = "put"
      <4>1. SendToClient(<<"put", m.client>>, "ok")
        BY <1>2, <3>2
      <4>2. <<"put", c>> # <<"put", m.client>>
        BY <1>6, <3>2 DEF IsPut
      <4> QED
        BY <1>0, <1>2, <1>4, <4>1, <4>2, ReplyIs
    <3> QED
      BY <1>2, <3>1, <3>2
  <2>2. ASSUME NEW s \in ReplicaSet
        PROVE  \/ applied'[s] = applied[s]
               \/ applied'[s] = Append(applied[s], m) /\ m.op = "put"
    BY <1>0, <1>2 DEF KVTypes
  <2>3. ASSUME NEW s \in ReplicaSet
        PROVE  /\ \A k \in 1..Len(applied[s]) : k \in 1..Len(applied'[s]) /\ applied'[s][k] = applied[s][k]
               /\ \A k \in 1..Len(applied'[s]) : \/ k \in 1..Len(applied[s]) /\ applied'[s][k] = applied[s][k]
                                                 \/ applied'[s][k].client # c
    <3>1. CASE applied'[s] = applied[s]
      BY <3>1
    <3>2. CASE applied'[s] = Append(applied[s], m) /\ m.op = "put"
      <4>1. m.client # c
        BY <1>6, <3>2 DEF IsPut
      <4>2. applied[s] \in Seq(Stamped({"put"})) /\ m \in Stamped({"put"})
        BY <1>0, <3>2 DEF KVTypes, Request, Stamped
      <4>3. /\ Len(applied'[s]) = Len(applied[s]) + 1 /\ Len(applied[s]) \in Nat
            /\ applied'[s][Len(applied[s]) + 1] = m
            /\ \A k \in 1..Len(applied[s]) : applied'[s][k] = applied[s][k]
        BY <3>2, <4>2, SequenceStep
      <4> QED
        BY <4>1, <4>3
    <3> QED
      BY <2>2, <3>1, <3>2
  <2>4. ASSUME NEW s \in ReplicaSet PROVE Has(s, c)' <=> Has(s, c)
    <3>1. Has(s, c) => Has(s, c)'
      BY <1>1, <2>3 DEF Has, Contains
    <3>2. ASSUME NEW k \in 1..Len(applied'[s]), applied'[s][k] = putReq[c]
          PROVE  Has(s, c)
      <4>1. CASE k \in 1..Len(applied[s]) /\ applied'[s][k] = applied[s][k]
        BY <3>2, <4>1 DEF Has, Contains
      <4>2. CASE ~(k \in 1..Len(applied[s]) /\ applied'[s][k] = applied[s][k])
        <5>1. putReq[c].client # c
          BY <2>3, <3>2, <4>2
        <5>2. putReq[c] = Unsent
          BY <1>0, <5>1 DEF ClientsInv, ClientOK, OwnPut
        <5>3. applied'[s][k] \in Stamped({"put"})
          <6>1. applied' \in [ReplicaSet -> Seq(Stamped({"put"}))]
            BY StepTypes DEF KVInv, KVTypes
          <6> QED
            BY <6>1
        <5> QED
          BY <3>2, <5>2, <5>3 DEF Unsent, Stamped
      <4> QED
        BY <4>1, <4>2
    <3>3. Has(s, c)' => Has(s, c)
      BY <1>1, <3>2 DEF Has, Contains
    <3> QED
      BY <3>1, <3>3
  <2>5. ASSUME NEW s \in ReplicaSet, NEW place \in Place, At(place, s, c) PROVE At(place, s, c)'
    <3>1. AtMost(stableMessages'[s], c, putReq[c], place = "stable")
      <4>1. CASE s = r
        BY <1>3, <1>5, <2>5, <4>1
      <4>2. CASE s # r
        BY <1>3, <2>5, <4>2 DEF At
      <4> QED
        BY <4>1, <4>2
    <3> QED
      BY <1>1, <1>2, <2>4, <2>5, <3>1 DEF At
  <2> QED
    BY <1>1, <2>1, <2>3, <2>4, <2>5, PutKept
<1>7. CASE IsPut(m, c)
  <2>1. PICK place \in Place : At(place, r, c)
    BY DEF PutOK
  <2>2. /\ m = putReq[c] /\ place = "stable" /\ AtMost(stableMessages'[r], c, putReq[c], FALSE)
        /\ m.client = c /\ m.op = "put" /\ m \in Stamped({"put"})
    <3>1. m.client = c /\ m.op = "put" /\ m \in Stamped({"put"})
      BY <1>7 DEF IsPut, Request, Stamped
    <3> QED
      BY <1>3, <1>5, <1>7, <2>1, <3>1
  <2>3. ~Has(r, c) /\ ~Ahead(r, c) /\ putPc[c] # "putRequest"
    BY <2>1, <2>2 DEF At
  <2>4. /\ SendToClient(<<"put", c>>, "ok") /\ applied' = [applied EXCEPT ![r] = Append(@, m)]
    BY <1>2, <2>2
  <2>5. /\ Len(mailboxes'[<<"put", c>>]) = Len(mailboxes[<<"put", c>>]) + 1
        /\ Len(mailboxes[<<"put", c>>]) \in Nat
    <3>1. mailboxes'[<<"put", c>>] = Append(mailboxes[<<"put", c>>], "ok")
      BY <1>0, <1>4, <2>4, ReplyIs
    <3>2. mailboxes[<<"put", c>>] \in Seq({"ok"} \cup Int)
      BY <1>0, <1>4 DEF KVTypes
    <3> QED
      BY <3>1, <3>2, SequenceStep
  <2>6. /\ applied'[r] = Append(applied[r], m)
        /\ \A s \in ReplicaSet : s # r => applied'[s] = applied[s]
        /\ \A s \in ReplicaSet : applied[s] \in Seq(Stamped({"put"}))
    BY <1>0, <2>4 DEF KVTypes
  <2>7. /\ Len(applied'[r]) = Len(applied[r]) + 1 /\ Len(applied[r]) \in Nat
        /\ applied'[r][Len(applied[r]) + 1] = m
        /\ \A k \in 1..Len(applied[r]) : applied'[r][k] = applied[r][k]
    BY <2>2, <2>6, SequenceStep
  <2>8. /\ Has(r, c)'
        /\ \A s \in ReplicaSet : s # r => (Has(s, c)' <=> Has(s, c))
    <3>1. Len(applied[r]) + 1 \in 1..Len(applied'[r])
      BY <2>7
    <3> QED
      BY <1>1, <2>2, <2>6, <2>7, <3>1 DEF Has, Contains
  <2>9. At("none", r, c)'
    <3>1. AtMost(replicas[r], c, putReq[c], FALSE) /\ AtMost(pendingRequests[r][c], c, putReq[c], FALSE)
      BY <2>1, <2>2 DEF At
    <3> QED
      BY <1>1, <1>2, <2>2, <3>1 DEF At
  <2>10. ASSUME NEW s \in ReplicaSet PROVE \E p \in Place : At(p, s, c)'
    <3>1. CASE s = r
      BY <2>9, <3>1 DEF Place
    <3>2. CASE s # r
      <4>1. PICK p \in Place : At(p, s, c)
        BY DEF PutOK
      <4>2. At(p, s, c)'
        BY <1>1, <1>2, <1>3, <2>8, <3>2, <4>1 DEF At
      <4> QED
        BY <4>2
    <3> QED
      BY <3>1, <3>2
  <2>11. \A s \in ReplicaSet : (Ahead(s, c) => ~Has(s, c))'
    BY <1>1, <2>3, <2>8 DEF PutOK
  <2>12. NotNewer(c)'
    <3>1. putReq[c].timestamp \in Nat /\ putReq[c].timestamp <= clock[c]
      <4>1. putReq[c] # Unsent
        BY <2>2 DEF Unsent
      <4> QED
        BY <2>2, <4>1 DEF PutOK, NotNewer, Stamped
    <3>2. clock'[c] = clock[c]
      BY <1>2
    <3>3. ASSUME NEW s \in ReplicaSet, NEW k \in 1..Len(applied'[s]), applied'[s][k].client = c
          PROVE  applied'[s][k].timestamp <= clock[c]
      <4>1. CASE k \in 1..Len(applied[s]) /\ applied'[s][k] = applied[s][k]
        BY <3>3, <4>1 DEF PutOK, NotNewer
      <4>2. CASE s = r /\ k = Len(applied[r]) + 1
        BY <2>2, <2>7, <3>1, <4>2
      <4>3. \/ k \in 1..Len(applied[s]) /\ applied'[s][k] = applied[s][k]
            \/ s = r /\ k = Len(applied[r]) + 1
        <5>1. CASE s # r
          BY <2>6, <3>3, <5>1
        <5>2. CASE s = r
          BY <2>7, <3>3, <5>2
        <5> QED
          BY <5>1, <5>2
      <4> QED
        BY <4>1, <4>2, <4>3
    <3> QED
      BY <1>1, <3>1, <3>2, <3>3 DEF NotNewer
  <2>13. Cardinality(Holders(c)') = Cardinality(Holders(c)) + 1
    <3>1. Holders(c)' = Holders(c) \cup {r} /\ r \notin Holders(c)
      BY <2>3, <2>8 DEF Holders
    <3> QED
      BY <3>1, HoldersFinite, FS_AddElement
  <2>14. Counted(c)'
    <3>1. putI[c] \in Nat /\ Cardinality(Holders(c)) \in Nat
      BY <1>0, HoldersFinite DEF KVTypes
    <3>2. putPc[c] \in {"putBroadcast", "putResponse"} =>
             putI[c] + Len(mailboxes[<<"put", c>>]) = Cardinality(Holders(c))
      BY DEF PutOK, Counted
    <3>3. putPc[c] \in {"putBroadcast", "putResponse"} =>
             putI[c] + Len(mailboxes'[<<"put", c>>]) = Cardinality(Holders(c)')
      BY <2>5, <2>13, <3>1, <3>2
    <3> QED
      BY <1>1, <2>3, <3>3 DEF Counted
  <2> QED
    BY <2>10, <2>11, <2>12, <2>14 DEF PutOK
<1> QED
  BY <1>6, <1>7

-----------------------------------------------------------------------------
\* Every step keeps the places and the count.
LEMMA PutStep == ASSUME KVInv, PutInv, Next PROVE PutInv'
<1> SUFFICES ASSUME NEW c \in ClientSet, Connected(c)' PROVE PutOK(c)'
  BY DEF PutInv
<1>1. PutOK(c)
  BY ClockStep DEF PutInv
<1>2. ASSUME NEW r \in ReplicaSet, Replica(r) PROVE PutOK(c)'
  BY <1>1, <1>2, ReceiveStep, FindStableStep, RespondStep DEF Replica
<1>3. ASSUME NEW d \in ClientSet, Get(d) \/ Put(d) \/ Disconnect(d) \/ ClockUpdate(d) PROVE PutOK(c)'
  <2>1. CASE Put(d) /\ c = d
    BY <1>1, <2>1, PutRequestStep, PutBroadcastStep, PutResponseStep DEF Put
  <2>2. CASE ~(Put(d) /\ c = d)
    BY <1>1, <1>3, <2>2, OtherStep
  <2> QED
    BY <2>1, <2>2
<1> QED
  BY <1>2, <1>3 DEF Next

\* Hence a put is always in one place, and its responses are counted.
LEMMA PutInvariant == Spec => []PutInv
<1>1. Init => PutInv
  <2> SUFFICES ASSUME Init, NEW c \in ClientSet PROVE PutOK(c)
    BY DEF PutInv
  <2>1. /\ \A r \in ReplicaSet : /\ replicas[r] = <<>> /\ stableMessages[r] = <<>>
                                 /\ applied[r] = <<>> /\ pendingRequests[r][c] = <<>>
        /\ mailboxes[<<"put", c>>] = <<>> /\ putReq[c] = Unsent /\ puts[c] = 0
        /\ putPc[c] \in {"putRequest", "Done"}
    BY DEF Init, Mailboxes, Unsent, Starts
  <2>2. \A r \in ReplicaSet : ~Has(r, c) /\ ~Ahead(r, c)
    BY <2>1 DEF Has, Contains, Ahead
  <2>3. \A r \in ReplicaSet : At("none", r, c)
    BY <2>1 DEF At, AtMost
  <2>4. NotNewer(c)
    BY <2>1 DEF NotNewer
  <2>5. Counted(c)
    BY <2>1 DEF Counted
  <2> QED
    BY <2>2, <2>3, <2>4, <2>5 DEF PutOK, Place
<1>2. KVInv /\ PutInv /\ [Next]_vars => PutInv'
  <2>1. ASSUME PutInv, UNCHANGED vars PROVE PutInv'
    <3>1. UNCHANGED <<clock, replicas, mailboxes, pendingRequests, stableMessages, applied,
                      putPc, putReq, putJ, putI, puts>>
      BY <2>1 DEF vars, replicaVars, putVars
    <3>2. /\ \A c : Connected(c)' <=> Connected(c)
          /\ \A r, c : (Has(r, c)' <=> Has(r, c)) /\ (Ahead(r, c)' <=> Ahead(r, c))
      BY <3>1 DEF Connected, Has, Ahead
    <3>3. \A place, r, c : At(place, r, c)' <=> At(place, r, c)
      BY <3>1, <3>2 DEF At
    <3>4. \A c : (NotNewer(c)' <=> NotNewer(c)) /\ Holders(c)' = Holders(c)
      BY <3>1, <3>2 DEF NotNewer, Holders
    <3>5. \A c : Counted(c)' <=> Counted(c)
      BY <3>1, <3>4 DEF Counted
    <3> QED
      BY <2>1, <3>2, <3>3, <3>4, <3>5 DEF PutInv, PutOK
  <2> QED
    BY <2>1, PutStep
<1> QED
  BY <1>1, <1>2, TypesInvariant, PTL DEF Spec

\* A put that is complete has been applied by every replica, and no response to
\* it is left to be taken for one to the next.
THEOREM CompleteIsApplied == Spec => []CompletePutApplied
<1>1. PutInv => CompletePutApplied
  BY DEF PutInv, PutOK, Counted, Holders, Has, CompletePutApplied
<1> QED
  BY <1>1, PutInvariant, PTL
=============================================================================
