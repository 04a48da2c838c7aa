---------------------------- MODULE ReplicatedKV ----------------------------
(***************************************************************************)
(* The replicated state machine of systems/replicatedkv: the archetypes of  *)
(* replicated_kv.go over the resources that replicated_kv.tla maps them to, *)
(* since the repository has no bootstrap for this system.  Every client is  *)
(* up to four processes that share its logical clock: Get, Put, Disconnect  *)
(* and ClockUpdate.  A replica's steps between two messages touch only its  *)
(* own variables and are joined, except for the choice of one more stable   *)
(* request and for the answers, which may block.  There is one key.         *)
(***************************************************************************)
EXTENDS Integers, Sequences, SequencesExt, FiniteSets

CONSTANTS NumReplicas, NumClients,
          BUFFER_SIZE,                              \* of a FIFOChannel
          Getters, Putters, Leavers, Tickers,       \* the clients that run each archetype
          MaxClock, MaxPuts, MaxGets                \* bounds of the exploration

ReplicaSet == 0..(NumReplicas - 1)
ClientSet == NumReplicas..(NumReplicas + NumClients - 1)
Mailboxes == {"get", "put"} \X ClientSet
NULL == -1
Disconnected == -1

ASSUME KVAssumption ==
    /\ NumReplicas \in Nat \ {0} /\ NumClients \in Nat \ {0} /\ BUFFER_SIZE \in Nat \ {0}
    /\ Getters \cup Putters \cup Leavers \cup Tickers \subseteq ClientSet

VARIABLES
    clock,                              \* clocks, -1 once the client has left
    replicas, mailboxes,                \* the FIFO channels
    \* AReplica
    pc, liveClients, pendingRequests, currentClocks, stableMessages,
    applied,                            \* the puts it has applied, the last is kv's value
    \* the client processes: where each is, the next replica of its broadcast
    getPc, putPc, putReq, putJ, putI, leavePc, leaveJ, tickPc, tickJ, tickMsg,
    puts, gets

replicaVars == <<pc, liveClients, pendingRequests, currentClocks, stableMessages, applied>>
getVars == <<getPc, gets>>
putVars == <<putPc, putReq, putJ, putI, puts>>
leaveVars == <<leavePc, leaveJ>>
tickVars == <<tickPc, tickJ, tickMsg>>
vars == <<clock, replicas, mailboxes, replicaVars, getVars, putVars, leaveVars, tickVars>>

-----------------------------------------------------------------------------
(* Channels and clocks *)

SendToReplica(r, m) ==
    /\ Len(replicas[r]) < BUFFER_SIZE
    /\ replicas' = [replicas EXCEPT ![r] = Append(@, m)]

SendToClient(box, m) ==
    /\ Len(mailboxes[box]) < BUFFER_SIZE
    /\ mailboxes' = [mailboxes EXCEPT ![box] = Append(@, m)]

Connected(c) == clock[c] # Disconnected

Tick(c) ==
    /\ clock[c] < MaxClock
    /\ clock' = [clock EXCEPT ![c] = @ + 1]

-----------------------------------------------------------------------------
(* AReplica *)

\* What findMinClock may leave in minClock, depending on the order it goes through
\* the clients: a 0 found last stands, and any clock found after the last 0 does too.
MinClocks(r) ==
    LET clocks == {currentClocks[r][c] : c \in liveClients[r]}
    IN IF clocks = {} THEN {0}
       ELSE IF 0 \in clocks THEN clocks
       ELSE {n \in clocks : \A k \in clocks : n <= k}

\* The clients whose first pending request is older than minClock.
Stable(r, minClock) ==
    {c \in liveClients[r] :
        pendingRequests[r][c] # <<>> /\ Head(pendingRequests[r][c]).timestamp < minClock}

\* findMinClient: the oldest of them, and of equally old ones the one with the
\* smallest identifier.
MinClient(r, minClock) ==
    LET time(c) == Head(pendingRequests[r][c]).timestamp
    IN CHOOSE c \in Stable(r, minClock) :
          \A d \in Stable(r, minClock) : time(c) < time(d) \/ (time(c) = time(d) /\ c <= d)

findStableRequestsLoop(r) ==
    /\ pc[r] = "findStableRequestsLoop"
    /\ \E minClock \in MinClocks(r) :
          /\ Stable(r, minClock) # {}
          /\ LET c == MinClient(r, minClock)
             IN /\ stableMessages' = [stableMessages EXCEPT ![r] =
                       Append(@, Head(pendingRequests[r][c]))]
                /\ pendingRequests' = [pendingRequests EXCEPT ![r][c] = Tail(@)]
    /\ UNCHANGED <<clock, replicas, mailboxes, pc, liveClients, currentClocks, applied,
                   getVars, putVars, leaveVars, tickVars>>

\* The loop ends; what follows is joined to its last section.
NoMoreStable(r) ==
    /\ pc[r] = "findStableRequestsLoop"
    /\ \E minClock \in MinClocks(r) : Stable(r, minClock) = {}

\* Every message but the last one of a client says how far its clock is, and a
\* request joins the pending ones of its client.
Heard(r, c, m) ==
    /\ currentClocks' = IF m.op = "disconnect" THEN currentClocks
                        ELSE [currentClocks EXCEPT ![r][c] = m.timestamp]
    /\ pendingRequests' = IF m.op \in {"get", "put"}
                          THEN [pendingRequests EXCEPT ![r][c] = Append(@, m)]
                          ELSE pendingRequests

\* The next message; only a Get asserts that its client is a live one.
receiveClientRequest(r) ==
    /\ pc[r] = "receiveClientRequest" \/ (NoMoreStable(r) /\ stableMessages[r] = <<>>)
    /\ replicas[r] # <<>>
    /\ LET m == Head(replicas[r])
           c == m.client
       IN /\ m.op = "get" => c \in liveClients[r]
          /\ replicas' = [replicas EXCEPT ![r] = Tail(@)]
          /\ liveClients' = IF m.op = "disconnect"
                            THEN [liveClients EXCEPT ![r] = @ \ {c}] ELSE liveClients
          /\ Heard(r, c, m)
    /\ pc' = [pc EXCEPT ![r] = "findStableRequestsLoop"]
    /\ UNCHANGED <<clock, mailboxes, stableMessages, applied, getVars, putVars, leaveVars, tickVars>>

\* The value of kv.
Value(r) == IF applied[r] = <<>> THEN NULL ELSE Last(applied[r]).client

\* One stable request after the other; the section waits for room in the mailbox.
Responded(r) ==
    /\ pc[r] = "respondPendingRequestsLoop" \/ NoMoreStable(r)
    /\ stableMessages[r] # <<>>
    /\ stableMessages' = [stableMessages EXCEPT ![r] = Tail(@)]
    /\ pc' = [pc EXCEPT ![r] = IF Len(stableMessages[r]) = 1 THEN "receiveClientRequest"
                                ELSE "respondPendingRequestsLoop"]
    /\ UNCHANGED <<clock, replicas, liveClients, pendingRequests, currentClocks,
                   getVars, putVars, leaveVars, tickVars>>

respondStableGet(r) ==
    /\ Responded(r)
    /\ LET m == Head(stableMessages[r])
       IN m.op = "get" /\ SendToClient(<<"get", m.client>>, Value(r))
    /\ UNCHANGED applied

respondStablePut(r) ==
    /\ Responded(r)
    /\ LET m == Head(stableMessages[r])
       IN /\ m.op = "put"
          /\ applied' = [applied EXCEPT ![r] = Append(@, m)]
          /\ SendToClient(<<"put", m.client>>, "ok")

-----------------------------------------------------------------------------
(* Get *)

getRequest(c) ==
    /\ getPc[c] = "getRequest"
    /\ Connected(c) /\ gets[c] < MaxGets
    /\ Tick(c)
    /\ \E dst \in ReplicaSet :
          SendToReplica(dst, [op |-> "get", client |-> c, timestamp |-> clock[c] + 1])
    /\ gets' = [gets EXCEPT ![c] = @ + 1]
    /\ getPc' = [getPc EXCEPT ![c] = "getReply"]
    /\ UNCHANGED <<mailboxes, replicaVars, putVars, leaveVars, tickVars>>

getReply(c) ==
    /\ getPc[c] = "getReply"
    /\ \/ /\ Connected(c) /\ mailboxes[<<"get", c>>] # <<>>
          /\ mailboxes' = [mailboxes EXCEPT ![<<"get", c>>] = Tail(@)]
          /\ getPc' = [getPc EXCEPT ![c] = "getRequest"]
       \/ /\ ~Connected(c)
          /\ getPc' = [getPc EXCEPT ![c] = "Done"]
          /\ UNCHANGED mailboxes
    /\ UNCHANGED <<clock, replicas, replicaVars, gets, putVars, leaveVars, tickVars>>

-----------------------------------------------------------------------------
(* Put *)

putRequest(c) ==
    /\ putPc[c] = "putRequest"
    /\ Connected(c) /\ puts[c] < MaxPuts
    /\ Tick(c)
    /\ putReq' = [putReq EXCEPT ![c] = [op |-> "put", client |-> c, timestamp |-> clock[c] + 1]]
    /\ putI' = [putI EXCEPT ![c] = 0]
    /\ putJ' = [putJ EXCEPT ![c] = 0]
    /\ puts' = [puts EXCEPT ![c] = @ + 1]
    /\ putPc' = [putPc EXCEPT ![c] = "putBroadcast"]
    /\ UNCHANGED <<replicas, mailboxes, replicaVars, getVars, leaveVars, tickVars>>

\* One replica per section; the broadcast stops when the client has left.  The
\* section that finds every message sent is joined to the one before.
putBroadcast(c) ==
    /\ putPc[c] = "putBroadcast"
    /\ \/ /\ Connected(c)
          /\ SendToReplica(putJ[c], putReq[c])
          /\ putJ' = [putJ EXCEPT ![c] = @ + 1]
          /\ putPc' = [putPc EXCEPT ![c] = IF putJ[c] + 1 = NumReplicas THEN "putResponse" ELSE @]
       \/ /\ ~Connected(c)
          /\ putPc' = [putPc EXCEPT ![c] = "putResponse"]
          /\ UNCHANGED <<replicas, putJ>>
    /\ UNCHANGED <<clock, mailboxes, replicaVars, getVars, putReq, putI, puts, leaveVars, tickVars>>

\* Mutant: the first response completes the put.
putResponseFirst(c) ==
    /\ putPc[c] = "putResponse"
    /\ Connected(c) /\ mailboxes[<<"put", c>>] # <<>>
    /\ mailboxes' = [mailboxes EXCEPT ![<<"put", c>>] = Tail(@)]
    /\ putI' = [putI EXCEPT ![c] = @ + 1]
    /\ putPc' = [putPc EXCEPT ![c] = "putRequest"]
    /\ UNCHANGED <<clock, replicas, replicaVars, getVars, putReq, putJ, puts, leaveVars, tickVars>>

\* One response per section; with the last one the put is complete.
putResponse(c) ==
    /\ putPc[c] = "putResponse"
    /\ \/ /\ Connected(c) /\ mailboxes[<<"put", c>>] # <<>>
          /\ mailboxes' = [mailboxes EXCEPT ![<<"put", c>>] = Tail(@)]
          /\ putI' = [putI EXCEPT ![c] = @ + 1]
          /\ putPc' = [putPc EXCEPT ![c] = IF putI[c] + 1 = NumReplicas THEN "putRequest" ELSE @]
       \/ /\ ~Connected(c)
          /\ putPc' = [putPc EXCEPT ![c] = "Done"]
          /\ UNCHANGED <<mailboxes, putI>>
    /\ UNCHANGED <<clock, replicas, replicaVars, getVars, putReq, putJ, puts, leaveVars, tickVars>>

-----------------------------------------------------------------------------
(* Disconnect *)

\* Mutant: the clock is left as it is.
sendDisconnectRequestOnly(c) ==
    /\ leavePc[c] = "sendDisconnectRequest"
    /\ leavePc' = [leavePc EXCEPT ![c] = "disconnectBroadcast"]
    /\ UNCHANGED <<clock, replicas, mailboxes, replicaVars, getVars, putVars, leaveJ, tickVars>>

sendDisconnectRequest(c) ==
    /\ leavePc[c] = "sendDisconnectRequest"
    /\ clock' = [clock EXCEPT ![c] = Disconnected]
    /\ leavePc' = [leavePc EXCEPT ![c] = "disconnectBroadcast"]
    /\ UNCHANGED <<replicas, mailboxes, replicaVars, getVars, putVars, leaveJ, tickVars>>

disconnectBroadcast(c) ==
    /\ leavePc[c] = "disconnectBroadcast"
    /\ SendToReplica(leaveJ[c], [op |-> "disconnect", client |-> c])
    /\ leaveJ' = [leaveJ EXCEPT ![c] = @ + 1]
    /\ leavePc' = [leavePc EXCEPT ![c] = IF leaveJ[c] + 1 = NumReplicas THEN "Done" ELSE @]
    /\ UNCHANGED <<clock, mailboxes, replicaVars, getVars, putVars, tickVars>>

-----------------------------------------------------------------------------
(* ClockUpdate *)

clockUpdateLoop(c) ==
    /\ tickPc[c] = "clockUpdateLoop"
    /\ \/ /\ Connected(c)
          /\ Tick(c)
          /\ tickMsg' = [tickMsg EXCEPT ![c] = [op |-> "null", client |-> c, timestamp |-> clock[c] + 1]]
          /\ tickJ' = [tickJ EXCEPT ![c] = 0]
          /\ tickPc' = [tickPc EXCEPT ![c] = "nullBroadcast"]
       \/ /\ ~Connected(c)
          /\ tickPc' = [tickPc EXCEPT ![c] = "Done"]
          /\ UNCHANGED <<clock, tickJ, tickMsg>>
    /\ UNCHANGED <<replicas, mailboxes, replicaVars, getVars, putVars, leaveVars>>

nullBroadcast(c) ==
    /\ tickPc[c] = "nullBroadcast"
    /\ \/ /\ Connected(c)
          /\ SendToReplica(tickJ[c], tickMsg[c])
          /\ tickJ' = [tickJ EXCEPT ![c] = @ + 1]
          /\ tickPc' = [tickPc EXCEPT ![c] = IF tickJ[c] + 1 = NumReplicas THEN "clockUpdateLoop" ELSE @]
       \/ /\ ~Connected(c)
          /\ tickPc' = [tickPc EXCEPT ![c] = "clockUpdateLoop"]
          /\ UNCHANGED <<replicas, tickJ>>
    /\ UNCHANGED <<clock, mailboxes, replicaVars, getVars, putVars, leaveVars, tickMsg>>

-----------------------------------------------------------------------------
\* Does client c run the archetype?
Starts(c, runners, label) == IF c \in runners THEN label ELSE "Done"

Init ==
    /\ clock = [c \in ClientSet |-> 0]
    /\ replicas = [r \in ReplicaSet |-> <<>>]
    /\ mailboxes = [b \in Mailboxes |-> <<>>]
    /\ pc = [r \in ReplicaSet |-> "receiveClientRequest"]
    /\ liveClients = [r \in ReplicaSet |-> ClientSet]
    /\ pendingRequests = [r \in ReplicaSet |-> [c \in ClientSet |-> <<>>]]
    /\ currentClocks = [r \in ReplicaSet |-> [c \in ClientSet |-> 0]]
    /\ stableMessages = [r \in ReplicaSet |-> <<>>]
    /\ applied = [r \in ReplicaSet |-> <<>>]
    /\ getPc = [c \in ClientSet |-> Starts(c, Getters, "getRequest")]
    /\ putPc = [c \in ClientSet |-> Starts(c, Putters, "putRequest")]
    /\ putReq = [c \in ClientSet |-> [op |-> "none"]]
    /\ putJ = [c \in ClientSet |-> 0]
    /\ putI = [c \in ClientSet |-> 0]
    /\ leavePc = [c \in ClientSet |-> Starts(c, Leavers, "sendDisconnectRequest")]
    /\ leaveJ = [c \in ClientSet |-> 0]
    /\ tickPc = [c \in ClientSet |-> Starts(c, Tickers, "clockUpdateLoop")]
    /\ tickJ = [c \in ClientSet |-> 0]
    /\ tickMsg = [c \in ClientSet |-> [op |-> "none"]]
    /\ puts = [c \in ClientSet |-> 0]
    /\ gets = [c \in ClientSet |-> 0]

Replica(r) ==
    \/ receiveClientRequest(r) \/ findStableRequestsLoop(r)
    \/ respondStableGet(r) \/ respondStablePut(r)

Get(c) == getRequest(c) \/ getReply(c)
Put(c) == putRequest(c) \/ putBroadcast(c) \/ putResponse(c)
Disconnect(c) == sendDisconnectRequest(c) \/ disconnectBroadcast(c)
ClockUpdate(c) == clockUpdateLoop(c) \/ nullBroadcast(c)

Next ==
    \/ \E r \in ReplicaSet : Replica(r)
    \/ \E c \in ClientSet : Get(c) \/ Put(c) \/ Disconnect(c) \/ ClockUpdate(c)

\* Every process is a fair process of replicated_kv.tla.
Fairness ==
    /\ \A r \in ReplicaSet : WF_vars(Replica(r))
    /\ \A c \in ClientSet : WF_vars(Get(c)) /\ WF_vars(Put(c)) /\ WF_vars(Disconnect(c)) /\ WF_vars(ClockUpdate(c))

Spec == Init /\ [][Next]_vars /\ Fairness

-----------------------------------------------------------------------------
(* Properties *)

\* A put that is complete has been applied by every replica: no response of an
\* earlier put is taken for one of this put, and no replica answers twice.
CompletePutApplied ==
    \A c \in ClientSet :
        Connected(c) /\ putPc[c] = "putRequest" /\ puts[c] > 0 =>
            /\ \A r \in ReplicaSet : Contains(applied[r], putReq[c])
            /\ mailboxes[<<"put", c>>] = <<>>

\* After the disconnection of a client a replica hears nothing of it, although
\* the other processes of the client may be in the middle of a broadcast: the
\* assertion on requests of clients that are not live holds.
NothingAfterDisconnection ==
    \A r \in ReplicaSet : \A k \in DOMAIN replicas[r] :
        LET c == replicas[r][k].client
        IN /\ c \in liveClients[r]
           /\ \A l \in 1..(k - 1) : replicas[r][l].op = "disconnect" => replicas[r][l].client # c

\* A replica that answers requests comes back to hear others: no mailbox of a
\* client that has left holds it up.
ReplicasReturn ==
    \A r \in ReplicaSet : stableMessages[r] # <<>> ~> pc[r] = "receiveClientRequest"

\* The replicas apply the puts in one order.
SameOrder ==
    \A r, s \in ReplicaSet : IsPrefix(applied[r], applied[s]) \/ IsPrefix(applied[s], applied[r])
=============================================================================
