-------------------------------- MODULE PBKVS --------------------------------
(***************************************************************************)
(* The primary-backup key-value store of systems/pbkvs: the archetypes      *)
(* AReplica and AClient compiled into pbkvs.go, and the driver of           *)
(* bootstrap/client.go that feeds a client and waits for its answers.       *)
(*                                                                          *)
(* One context per node, so a critical section is one step.  The program    *)
(* leaves two resources open, and a deployment settles them:                *)
(*   elects    primary names the smallest live replica (LeaderElection of   *)
(*             pbkvs.tla) or always replica 1 (leaderelection.go);          *)
(*   overtake  a mailbox is filled from one connection per sender, and what *)
(*             is still on its way is not counted by netLen (relaxed        *)
(*             mailboxes), or it is one queue (ReliableFIFOLink).           *)
(*                                                                          *)
(* A node that fails takes no more steps; an assertion that does not hold   *)
(* ends the context, and the monitor reports the node as failed.  Left out: *)
(* mayFail and failLabel (EXPLORE_FAIL is FALSE in makeConstants) and debug. *)
(***************************************************************************)
EXTENDS Integers, Sequences, SequencesExt, FiniteSets

CONSTANTS NumReplicas,    \* replicas are 1..NumReplicas
          Clients,        \* the identifiers of the clients
          Keys,
          Commands,       \* Commands[c]: what its caller asks, with typ, key and value
          Deployments,    \* records with elects and overtake
          Suspects,       \* <<a, b>>: the detector of a may report b, which lives
          MaxCalls, MaxTimeouts, MaxFailures      \* bounds of the exploration

NULL == 0
NoValue == "none"         \* the empty string every key starts with
Replicas == 1..NumReplicas
Nodes == Replicas \cup Clients
Nothing == [content |-> NoValue]
ACK_MSG_BODY == [content |-> "ack-body"]
Mailboxes == (Replicas \X {"req", "resp"}) \cup (Clients \X {"resp"})

ASSUME PBAssumption ==
    /\ NumReplicas \in Nat \ {0}
    /\ Clients \subseteq Nat \ (0..NumReplicas)
    /\ DOMAIN Commands = Clients
    /\ Deployments \subseteq [elects : BOOLEAN, overtake : BOOLEAN]
    /\ MaxCalls \in Nat /\ MaxTimeouts \in Nat /\ MaxFailures \in Nat

VARIABLES
    deployment, alive, net,
    pc,                                     \* of every node
    req, respBody, idx, replicaSet,         \* AReplica
    shouldSync, lastPutBody, fs,
    msg, replica, reqId,                    \* AClient; reqId is its variable idx
    waiting,        \* is the caller in the select of Put or Get?
    timeouts        \* how often it has left it at the timer, for the bound

replicaVars == <<req, respBody, idx, replicaSet, shouldSync, lastPutBody, fs>>
clientVars == <<msg, replica, reqId, waiting, timeouts>>
vars == <<deployment, alive, net, pc, replicaVars, clientVars>>

Others(i) == Replicas \ {i}
Goto(n, label) == pc' = [pc EXCEPT ![n] = label]

-----------------------------------------------------------------------------
(* The resources: election, failure detector, mailboxes *)

Live == alive \cap Replicas

\* What a read of primary yields, NULL if there is no replica left to elect.
Primary ==
    IF ~deployment.elects THEN 1
    ELSE IF Live = {} THEN NULL ELSE CHOOSE i \in Live : \A j \in Live : i <= j

\* May the detector of a report b?  Sooner or later it reports a failed node.
Suspected(a, b) == b \notin alive \/ <<a, b>> \in Suspects

\* The positions of a mailbox that a read may return.
Readable(n, box) ==
    LET queue == net[<<n, box>>]
    IN IF deployment.overtake
       THEN {k \in DOMAIN queue : \A l \in 1..(k - 1) : queue[l].from # queue[k].from}
       ELSE {k \in DOMAIN queue : k = 1}

Taken(n, box, k) == [net EXCEPT ![<<n, box>>] = RemoveAt(@, k)]

\* What is written to a failed node is lost.
Write(queues, n, box, m) ==
    net' = IF n \in alive THEN [queues EXCEPT ![<<n, box>>] = Append(@, m)] ELSE queues

\* netLen reads 0: with relaxed mailboxes what was sent may not have arrived.
LooksEmpty(n) == deployment.overtake \/ net[<<n, "resp">>] = <<>>

\* Node n is gone, and what was sent to it with it.
Dies(n) ==
    /\ alive' = alive \ {n}
    /\ net' = [b \in Mailboxes |-> IF b[1] = n THEN <<>> ELSE net[b]]

Fail(i) ==
    /\ Cardinality(Nodes \ alive) < MaxFailures
    /\ Dies(i)
    /\ UNCHANGED <<deployment, pc, replicaVars, clientVars>>

\* A section whose assertion fails changes nothing else.
AssertionFails(n) == Dies(n) /\ UNCHANGED <<pc, replicaVars, clientVars>>

-----------------------------------------------------------------------------
(* AReplica *)

\* The loops over the replicas skip the replica itself; 0 is their end, which is
\* joined to the section before.
NextPeer(i, n) ==
    LET later == {j \in Others(i) : j > n}
    IN IF later = {} THEN 0 ELSE CHOOSE j \in later : \A k \in later : j <= k

StartLoop(i, loop, after) ==
    /\ idx' = [idx EXCEPT ![i] = NextPeer(i, 0)]
    /\ replicaSet' = [replicaSet EXCEPT ![i] = Others(i)]
    /\ Goto(i, IF Others(i) = {} THEN after ELSE loop)

\* Both loops that write to the backups: one of them per section, or none
\* because the detector reports it.
SendToBackup(i, loop, after, m) ==
    /\ pc[i] = loop
    /\ Write(net, idx[i], "req", m) \/ (Suspected(i, idx[i]) /\ UNCHANGED net)
    /\ idx' = [idx EXCEPT ![i] = NextPeer(i, @)]
    /\ Goto(i, IF NextPeer(i, idx[i]) = 0 THEN after ELSE loop)
    /\ UNCHANGED <<alive, req, respBody, replicaSet, shouldSync, lastPutBody, fs, clientVars>>

\* Mutant: the first one to be settled is enough.
SettledFirst(i, r, after) ==
    /\ replicaSet' = [replicaSet EXCEPT ![i] = @ \ {r}]
    /\ Goto(i, after)
    /\ UNCHANGED <<alive, req, respBody, idx, shouldSync, clientVars>>

\* A replica is no longer waited for.
Settled(i, r, after) ==
    /\ replicaSet' = [replicaSet EXCEPT ![i] = @ \ {r}]
    /\ Goto(i, IF replicaSet[i] \subseteq {r} THEN after ELSE pc[i])
    /\ UNCHANGED <<alive, req, respBody, idx, shouldSync, clientVars>>

\* Both loops that collect the responses give up on a replica that the detector
\* reports.  Which replica CHOOSE takes is left open.
GiveUp(i, after) ==
    /\ LooksEmpty(i)
    /\ \E r \in replicaSet[i] : Suspected(i, r) /\ Settled(i, r, after)
    /\ UNCHANGED <<net, lastPutBody, fs>>

\* A response of a replica that is no longer waited for must come from a suspect.
Awaited(i, m) == m.from \in replicaSet[i] \/ Suspected(i, m.from)

\* replicaLoop and syncPrimary are joined to rcvMsg, which goes back to
\* syncPrimary when it finds what syncPrimary looks for.
syncPrimary(i) ==
    /\ pc[i] = "rcvMsg"
    /\ Primary = i /\ shouldSync[i]
    /\ shouldSync' = [shouldSync EXCEPT ![i] = FALSE]
    /\ StartLoop(i, "sndSyncReqLoop", "rcvMsg")
    /\ UNCHANGED <<alive, net, req, respBody, lastPutBody, fs, clientVars>>

sndSyncReqLoop(i) ==
    SendToBackup(i, "sndSyncReqLoop", "rcvSyncRespLoop",
        [from |-> i, srcTyp |-> "primary", typ |-> "sync", id |-> 3, body |-> lastPutBody[i]])

\* A newer version is applied, and the synchronisation starts again with it.
SyncResponse(i, m) ==
    IF m.body.versionNumber > lastPutBody[i].versionNumber
    THEN /\ fs' = [fs EXCEPT ![i][m.body.key] = m.body.value]
         /\ lastPutBody' = [lastPutBody EXCEPT ![i] = m.body]
         /\ StartLoop(i, "sndSyncReqLoop", "rcvMsg")
         /\ UNCHANGED <<alive, req, respBody, shouldSync, clientVars>>
    ELSE Settled(i, m.from, "rcvMsg") /\ UNCHANGED <<fs, lastPutBody>>

rcvSyncRespLoop(i) ==
    /\ pc[i] = "rcvSyncRespLoop"
    /\ \/ \E k \in Readable(i, "resp") :
             LET m == net[<<i, "resp">>][k]
             IN IF m.typ = "sync" /\ Awaited(i, m)
                THEN SyncResponse(i, m) /\ net' = Taken(i, "resp", k)
                ELSE AssertionFails(i)
       \/ GiveUp(i, "rcvMsg")

\* Mutant: a SYNC_REQ is applied whatever its version.
AppliesAnyAtBackup(i, m) == m.typ = "put" \/ m.body.versionNumber > 0

\* The write a request makes on a backup: every PUT_REQ, a SYNC_REQ if it is newer.
AppliesAtBackup(i, m) ==
    m.typ = "put" \/ m.body.versionNumber > lastPutBody[i].versionNumber

\* A backup that has been written to synchronises when it becomes the primary.
NeedsSync(m) == m.typ \in {"put", "sync"}

\* The primary never sends a GET_REQ, so that branch is left out; req is not used
\* after this section.
handleBackup(i, m, queues) ==
    LET newBody == IF AppliesAtBackup(i, m) THEN m.body ELSE lastPutBody[i]
    IN IF /\ m.srcTyp = "primary"
          /\ m.typ = "put" => m.body.versionNumber >= lastPutBody[i].versionNumber
       THEN /\ lastPutBody' = [lastPutBody EXCEPT ![i] = newBody]
            /\ fs' = IF AppliesAtBackup(i, m)
                     THEN [fs EXCEPT ![i][m.body.key] = m.body.value] ELSE fs
            /\ shouldSync' = [shouldSync EXCEPT ![i] = NeedsSync(m)]
            /\ \/ Write(queues, m.from, "resp",
                        [from |-> i, srcTyp |-> "backup", typ |-> m.typ, id |-> m.id,
                         body |-> IF m.typ = "put" THEN ACK_MSG_BODY ELSE newBody])
               \/ Suspected(i, m.from) /\ net' = queues
            /\ UNCHANGED <<alive, pc, req, respBody, idx, replicaSet, clientVars>>
       ELSE AssertionFails(i)

handlePrimary(i, m, queues) ==
    /\ req' = [req EXCEPT ![i] = m]
    /\ net' = queues
    /\ \/ /\ m.typ = "get"
          /\ respBody' = [respBody EXCEPT ![i] = [content |-> fs[i][m.body.key]]]
          /\ Goto(i, "sndResp")
          /\ UNCHANGED <<fs, lastPutBody, replicaSet, idx>>
       \/ /\ m.typ = "put"
          /\ respBody' = [respBody EXCEPT ![i] = ACK_MSG_BODY]
          /\ fs' = [fs EXCEPT ![i][m.body.key] = m.body.value]
          /\ lastPutBody' = [lastPutBody EXCEPT ![i] =
                 [versionNumber |-> @.versionNumber + 1, key |-> m.body.key, value |-> m.body.value]]
          /\ StartLoop(i, "sndReplicaReqLoop", "sndResp")
    /\ UNCHANGED <<alive, shouldSync, clientVars>>

\* Joined to handlePrimary and handleBackup, which alone use the message.
rcvMsg(i) ==
    /\ pc[i] = "rcvMsg"
    /\ ~(Primary = i /\ shouldSync[i])
    /\ \E k \in Readable(i, "req") :
          LET m == net[<<i, "req">>][k]
          IN IF Primary = i /\ m.srcTyp = "client"
             THEN handlePrimary(i, m, Taken(i, "req", k))
             ELSE handleBackup(i, m, Taken(i, "req", k))

sndReplicaReqLoop(i) ==
    SendToBackup(i, "sndReplicaReqLoop", "rcvReplicaRespLoop",
        [from |-> i, srcTyp |-> "primary", typ |-> "put", id |-> req[i].id,
         body |-> lastPutBody[i]])

\* The reading branch of rcvReplicaRespLoop.
ReplicaResponse(i) ==
    \E k \in Readable(i, "resp") :
       LET m == net[<<i, "resp">>][k]
       IN IF m.typ = "put" /\ m.id = req[i].id /\ Awaited(i, m)
          THEN /\ Settled(i, m.from, "sndResp")
               /\ net' = Taken(i, "resp", k)
               /\ UNCHANGED <<lastPutBody, fs>>
          ELSE AssertionFails(i)

\* Mutant: the detector is not asked.
rcvReplicaRespLoopPatient(i) == pc[i] = "rcvReplicaRespLoop" /\ ReplicaResponse(i)

rcvReplicaRespLoop(i) ==
    pc[i] = "rcvReplicaRespLoop" /\ (ReplicaResponse(i) \/ GiveUp(i, "sndResp"))

sndResp(i) ==
    /\ pc[i] = "sndResp"
    /\ Write(net, req[i].from, "resp",
             [from |-> i, srcTyp |-> "primary", typ |-> req[i].typ, id |-> req[i].id,
              body |-> respBody[i]])
    /\ Goto(i, "rcvMsg")
    /\ UNCHANGED <<alive, replicaVars, clientVars>>

-----------------------------------------------------------------------------
(* AClient, and the driver: Put and Get of bootstrap.Client *)

\* The caller writes its request to reqCh, which is not buffered, and then waits
\* for respCh or the timer.
clientLoop(c) ==
    /\ pc[c] = "clientLoop"
    /\ ~waiting[c] /\ reqId[c] < MaxCalls
    /\ \E r \in Commands[c] : msg' = [msg EXCEPT ![c] = r]
    /\ waiting' = [waiting EXCEPT ![c] = TRUE]
    /\ reqId' = [reqId EXCEPT ![c] = @ + 1]
    /\ Goto(c, "sndReq")
    /\ UNCHANGED <<alive, net, replicaVars, replica, timeouts>>

\* The call returns an error; the client does not know.
TimeOut(c) ==
    /\ waiting[c]
    /\ timeouts < MaxTimeouts
    /\ timeouts' = timeouts + 1
    /\ waiting' = [waiting EXCEPT ![c] = FALSE]
    /\ UNCHANGED <<alive, net, pc, replicaVars, msg, replica, reqId>>

sndReq(c) ==
    /\ pc[c] = "sndReq"
    /\ replica' = [replica EXCEPT ![c] = Primary]
    /\ \/ /\ Primary # NULL
          /\ Write(net, Primary, "req",
                   [from |-> c, srcTyp |-> "client", typ |-> msg[c].typ, id |-> reqId[c],
                    body |-> [key |-> msg[c].key, value |-> msg[c].value]])
          /\ Goto(c, "rcvResp")
       \/ /\ Primary # NULL /\ Suspected(c, Primary)
          /\ UNCHANGED <<net, pc>>
       \/ Primary = NULL /\ Goto(c, "Done") /\ UNCHANGED net
    /\ UNCHANGED <<alive, replicaVars, msg, reqId, waiting, timeouts>>

\* The assertions on the answer to the current request.
AnswerFits(c, m) == m.from = replica[c] /\ m.typ = msg[c].typ

\* An answer to an earlier request is dropped; a failed primary makes the client
\* ask again.
rcvResp(c) ==
    /\ pc[c] = "rcvResp"
    /\ \/ \E k \in Readable(c, "resp") :
             LET m == net[<<c, "resp">>][k]
                 mine == m.id = reqId[c]
             IN IF mine => AnswerFits(c, m)
                THEN /\ net' = Taken(c, "resp", k)
                     /\ Goto(c, IF mine THEN "commit" ELSE "rcvResp")
                     /\ UNCHANGED <<alive, replicaVars, msg, replica, reqId, waiting, timeouts>>
                ELSE AssertionFails(c)
       \/ /\ Suspected(c, replica[c]) /\ LooksEmpty(c)
          /\ Goto(c, "sndReq")
          /\ UNCHANGED <<alive, net, replicaVars, clientVars>>

\* The commit of rcvResp: OutputChan waits until its value has been read from
\* respCh, which is not buffered.
CommitOutput(c) ==
    /\ pc[c] = "commit"
    /\ waiting[c]
    /\ waiting' = [waiting EXCEPT ![c] = FALSE]
    /\ Goto(c, "clientLoop")
    /\ UNCHANGED <<alive, net, replicaVars, msg, replica, reqId, timeouts>>

-----------------------------------------------------------------------------
Init ==
    /\ deployment \in Deployments
    /\ alive = Nodes
    /\ net = [b \in Mailboxes |-> <<>>]
    /\ pc = [n \in Nodes |-> IF n \in Replicas THEN "rcvMsg" ELSE "clientLoop"]
    /\ req = [i \in Replicas |-> Nothing]
    /\ respBody = [i \in Replicas |-> Nothing]
    /\ idx = [i \in Replicas |-> 0]
    /\ replicaSet = [i \in Replicas |-> {}]
    /\ shouldSync = [i \in Replicas |-> FALSE]
    /\ lastPutBody = [i \in Replicas |-> [versionNumber |-> 0]]
    /\ fs = [i \in Replicas |-> [k \in Keys |-> NoValue]]
    /\ msg = [c \in Clients |-> Nothing]
    /\ replica = [c \in Clients |-> NULL]
    /\ reqId = [c \in Clients |-> 0]
    /\ waiting = [c \in Clients |-> FALSE]
    /\ timeouts = 0

ReplicaNext(i) ==
    /\ i \in alive
    /\ UNCHANGED deployment
    /\ \/ syncPrimary(i) \/ sndSyncReqLoop(i) \/ rcvSyncRespLoop(i)
       \/ rcvMsg(i)
       \/ sndReplicaReqLoop(i) \/ rcvReplicaRespLoop(i) \/ sndResp(i)

ClientNext(c) ==
    /\ c \in alive
    /\ UNCHANGED deployment
    /\ clientLoop(c) \/ sndReq(c) \/ rcvResp(c) \/ CommitOutput(c)

DriverNext(c) == UNCHANGED deployment /\ TimeOut(c)

Next ==
    \/ \E i \in Replicas : ReplicaNext(i)
    \/ \E c \in Clients : ClientNext(c) \/ DriverNext(c)
    \/ \E i \in Live : Fail(i)

\* Every context goes on as long as a section of it can be completed.
Fairness ==
    /\ \A i \in Replicas : WF_vars(ReplicaNext(i))
    /\ \A c \in Clients : WF_vars(ClientNext(c))

Spec == Init /\ [][Next]_vars /\ Fairness

-----------------------------------------------------------------------------
(* Properties *)

Version(i) == lastPutBody[i].versionNumber

\* The consistency property of the README: when the primary is about to answer a
\* client, every live replica has the same state, so an acknowledged put is held
\* by all and a get returns what is stored everywhere.
ConsistencyOK ==
    \A i \in Live : pc[i] = "sndResp" =>
        \A j \in Live :
            /\ fs[j] = fs[i]
            /\ req[i].typ = "get" => respBody[i].content = fs[j][req[i].body.key]

\* The version number says what a replica stores: two live replicas at the same
\* version agree on every key, although a synchronisation carries one key only,
\* and the failure of a primary may come between any two messages of a put.
VersionIsState ==
    \A i, j \in Live : Version(i) = Version(j) => fs[i] = fs[j]

\* As the program is specified, no assertion of the code fails: a response always
\* belongs to the round that reads it, a backup is sent nothing older than what it
\* has, and only a primary is asked by clients, across changes of the primary.
AssertionsHold ==
    ~deployment.overtake =>
        /\ \A i \in Live :
              /\ \A k \in Readable(i, "resp") :
                    LET m == net[<<i, "resp">>][k]
                    IN CASE pc[i] = "rcvSyncRespLoop" -> m.typ = "sync" /\ Awaited(i, m)
                         [] pc[i] = "rcvReplicaRespLoop" ->
                              m.typ = "put" /\ m.id = req[i].id /\ Awaited(i, m)
                         [] OTHER -> TRUE
              /\ \A k \in Readable(i, "req") :
                    LET m == net[<<i, "req">>][k]
                    IN IF m.srcTyp = "client" THEN Primary = i
                       ELSE m.typ = "put" => m.body.versionNumber >= Version(i)
        /\ \A c \in Clients : \A k \in Readable(c, "resp") :
              LET m == net[<<c, "resp">>][k]
              IN pc[c] = "rcvResp" /\ m.id = reqId[c] => AnswerFits(c, m)

\* What all live replicas hold is never given up: the least of their versions does
\* not go down, whoever fails, takes over or synchronises.
NothingUndone ==
    [][\A v \in 0..(MaxCalls * Cardinality(Clients)) : (\A i \in Live : Version(i) >= v) => (\A i \in Live' : Version(i)' >= v)]_vars

\* A client that has taken a request comes back for the next one, unless its
\* caller gave up or the replica it has to ask is gone for good.
ClientsReturn ==
    \A c \in Clients :
        pc[c] = "sndReq" ~>
            pc[c] = "clientLoop" \/ ~waiting[c] \/ Primary \notin alive \/ c \notin alive

\* What the README says of a call without a response: the client retries.  Whatever
\* its caller did, the client comes back for the next request.
RetriesServed ==
    \A c \in Clients :
        pc[c] = "sndReq" ~> pc[c] = "clientLoop" \/ Primary \notin alive \/ c \notin alive
=============================================================================
