------------------------------- MODULE RaftKVS -------------------------------
(***************************************************************************)
(* The Raft key-value store of systems/raftkvs: the archetypes compiled     *)
(* into raftkvs.go, run by bootstrap/server.go and bootstrap/client.go.     *)
(*                                                                          *)
(* A server is five contexts that share their variables through             *)
(* LocalSharedManager.  A shared variable stays locked until the section    *)
(* that touched it ends, so a section is one step here.  Each context has   *)
(* its own connections (newNetwork is called once per context), hence the   *)
(* messages of one context to one destination stay in order and those of    *)
(* different contexts do not.  serverLoop only receives and is joined to    *)
(* handleMsg, which alone uses the message.                                 *)
(*                                                                          *)
(* Left out: votesResponded, which is written and never read; netEnabled    *)
(* and AServerCrasher, which the Go build never starts (ExploreFail is      *)
(* FALSE); a crashed server is one that takes no more steps, since nothing  *)
(* reads the persisted state back.                                          *)
(***************************************************************************)
EXTENDS Integers, Sequences, FiniteSets, TLC

CONSTANTS NumServers,     \* servers are 1..NumServers
          Clients,        \* the identifiers of the clients
          Contacts,       \* the servers a client that knows no leader may pick
          Commands,       \* what clients ask: records with type, key and value
          Suspects,       \* <<a, b>>: the failure detector of a may report b
          Starters,       \* Starters[i]: the terms whose election i may start
          Breakable,      \* routes whose connection may break
          MaxLog, MaxRequests, MaxSends, Capacity, MaxBusy   \* bounds of the exploration

Nil == 0
Servers == 1..NumServers

\* One route per context and destination it writes to; a connection is the
\* current one of a route or the one it replaced.
Routes == {r \in {"handle", "vote", "append"} \X Servers \X Servers : r[2] # r[3]}
          \cup ({"handle", "apply"} \X Servers \X Clients)
          \cup ({"client"} \X Clients \X Servers)

ASSUME RaftAssumption ==
    /\ NumServers \in Nat \ {0}
    /\ Clients \subseteq Nat \ (0..NumServers) /\ Contacts \subseteq Servers
    /\ Breakable \subseteq Routes
    /\ Starters \in [Servers -> SUBSET Nat]
    /\ MaxLog \in Nat /\ MaxRequests \in Nat /\ MaxSends \in Nat /\ Capacity \in Nat /\ MaxBusy \in Nat

VARIABLES
    \* shared by the contexts of a server
    state, currentTerm, votedFor, leader, votesGranted,
    log, commitIndex, nextIndex, matchIndex, sm,
    becomeLeaderCh,         \* signals waiting for AServerBecomeLeader
    plog, db,               \* PersistentLog: its list and what it wrote to disk
    \* local to one context
    voteIdx,                \* AServerRequestVote.idx, 0 outside requestVoteLoop
    appendIdx,              \* AServerAppendEntries.idx, 0 outside appendEntriesLoop
    newCommitIndex,         \* AServerAdvanceCommitIndex
    pc, req, reqIdx, server,    \* AClient; server is its variable leader
    sends,                  \* how often each client has sent, for the bound
    answered,               \* what the clients have read from respCh
    net,                    \* messages on each connection
    overtaken               \* history: a leader's message has overtaken an earlier one

roleVars == <<state, currentTerm, votedFor, leader>>
logVars == <<log, plog, db>>
leaderVars == <<nextIndex, matchIndex>>
commitVars == <<commitIndex, sm>>
loopVars == <<voteIdx, appendIdx, newCommitIndex>>
clientVars == <<pc, req, reqIdx, server, sends, answered>>
vars == <<roleVars, votesGranted, logVars, leaderVars, commitVars,
          becomeLeaderCh, loopVars, clientVars, net, overtaken>>

-----------------------------------------------------------------------------
(* The operators of raftkvs.go *)

IsQuorum(S) == Cardinality(S) * 2 > NumServers

LargerOf(a, b) == IF a > b THEN a ELSE b

LastTerm(xlog) == IF xlog = <<>> THEN 0 ELSE xlog[Len(xlog)].term

\* Mutant: nextIndex taken for matchIndex.
FindMaxSentIndex(xlog, i, match) ==
    LET agreed == {n \in 1..Len(xlog) : IsQuorum({i} \cup {k \in Servers : match[k] + 1 >= n})}
    IN IF agreed = {} THEN Nil ELSE CHOOSE n \in agreed : \A k \in agreed : k <= n

\* The largest index that a quorum is known to hold, Nil if there is none.
FindMaxAgreeIndex(xlog, i, match) ==
    LET agreed == {n \in 1..Len(xlog) : IsQuorum({i} \cup {k \in Servers : match[k] >= n})}
    IN IF agreed = {} THEN Nil ELSE CHOOSE n \in agreed : \A k \in agreed : k <= n

\* f @@ g as ModuleDoubleAtSignSymbol computes it: g wins where both have a value.
Overlay(f, g) == [x \in DOMAIN f \cup DOMAIN g |-> IF x \in DOMAIN g THEN g[x] ELSE f[x]]

ApplyLogEntry(entry, xsm) ==
    IF entry.cmd.type = "put" THEN Overlay(xsm, [k \in {entry.cmd.key} |-> entry.cmd.value]) ELSE xsm

\* Entries first..last applied in turn.
ApplyLog(xlog, first, last, xsm) ==
    LET upTo[n \in (first - 1)..LargerOf(first - 1, last)] ==
            IF n < first THEN xsm ELSE ApplyLogEntry(xlog[n], upTo[n - 1])
    IN upTo[LargerOf(first - 1, last)]

-----------------------------------------------------------------------------
(* PersistentLog: the list and, at commit, the operations sent to the disk *)

\* The section keeps the first n entries of the log and appends entries: the
\* shared log by SubSeq and \o, the persistent one by LogPop and LogConcat.
PopAndConcat(list, cnt, entries) == SubSeq(list, 1, Len(list) - cnt) \o entries

\* Mutant: the batch deletes nothing.
FlushPushes(disk, list, cnt, entries) ==
    LET base == Len(list) - cnt
    IN [n \in (base + 1)..(base + Len(entries)) |-> entries[n - base]] @@ disk

\* The batch of one section: the popped positions deleted, then those of the
\* appended entries set.
Flush(disk, list, cnt, entries) ==
    LET base == Len(list) - cnt
        popped == (base + 1)..Len(list)
        pushed == (base + 1)..(base + Len(entries))
    IN [n \in (DOMAIN disk \ popped) \cup pushed |->
            IF n \in pushed THEN entries[n - base] ELSE disk[n]]

SetLog(i, n, entries) ==
    LET cnt == Len(log[i]) - n
    IN /\ log' = [log EXCEPT ![i] = SubSeq(@, 1, n) \o entries]
       /\ plog' = [plog EXCEPT ![i] = PopAndConcat(@, cnt, entries)]
       /\ db' = [db EXCEPT ![i] = Flush(@, plog[i], cnt, entries)]

-----------------------------------------------------------------------------
(* The network: relaxed mailboxes *)

Dest(c) == c[1][3]
Out(ctx, from, to) == <<<<ctx, from, to>>, "new">>

\* What is on a connection; net leaves out the empty ones.
On(n, c) == IF c \in DOMAIN n THEN n[c] ELSE <<>>

\* What a reader may get next.  The handlers of the replaced and of the current
\* connection of a route feed one channel, in any order.
Arriving(i) == {c \in DOMAIN net : Dest(c) = i}

\* The next message of the current connection is an append request, or an answer
\* to one, and the replaced connection still holds one of its kind and term.
Overtakes(c) ==
    /\ c[2] = "new"
    /\ Head(net[c]).mtype \in {"apq", "app"}
    /\ \E n \in DOMAIN On(net, <<c[1], "old">>) :
          LET x == net[<<c[1], "old">>][n]
          IN x.mtype = Head(net[c]).mtype /\ x.mterm = Head(net[c]).mterm

Taken(c) ==
    IF Len(net[c]) > 1 THEN [net EXCEPT ![c] = Tail(@)]
    ELSE [d \in DOMAIN net \ {c} |-> net[d]]

\* The write of WriteValue on what is left of net; a write that would block
\* makes the section retry.
Write(n, ctx, from, to, m) ==
    LET c == Out(ctx, from, to)
    IN /\ Len(On(n, c)) < Capacity
       /\ Cardinality(DOMAIN n) < MaxBusy
       /\ net' = [d \in DOMAIN n \cup {c} |-> IF d = c THEN Append(On(n, c), m) ELSE n[d]]

\* A detector answers TRUE after a missed or late reply, whatever the node does.
Suspected(from, to) == <<from, to>> \in Suspects

\* The macro Send: write the message, or skip it because the failure detector
\* reports the destination.
Send(n, ctx, from, to, m) ==
    \/ Write(n, ctx, from, to, m)
    \/ Suspected(from, to) /\ net' = n

\* A write fails: the connection is closed and the next write opens another.
\* What was written but not yet read may be lost from some point on.
ConnectionBreaks(r) ==
    LET c == <<r, "new">>
        old == <<r, "old">>
        rest == DOMAIN net \ {c}
    IN /\ c \in DOMAIN net /\ old \notin DOMAIN net
       /\ \/ net' = [d \in rest |-> net[d]]
          \/ \E n \in 1..Len(net[c]) :
                net' = [d \in rest \cup {old} |-> IF d = old THEN SubSeq(net[c], 1, n) ELSE net[d]]
    /\ UNCHANGED <<roleVars, votesGranted, logVars, leaderVars, commitVars,
                   becomeLeaderCh, loopVars, clientVars>>

-----------------------------------------------------------------------------
(* AServer.handleMsg *)

\* The macro UpdateTerm: what message m makes of the term and the role of i.
UpdateTerm(i, m) ==
    IF m.mterm > currentTerm[i]
    THEN [term |-> m.mterm, state |-> "follower", votedFor |-> Nil, leader |-> Nil]
    ELSE [term |-> currentTerm[i], state |-> state[i],
          votedFor |-> votedFor[i], leader |-> leader[i]]

SetRole(i, u) ==
    /\ currentTerm' = [currentTerm EXCEPT ![i] = u.term]
    /\ state' = [state EXCEPT ![i] = u.state]
    /\ votedFor' = [votedFor EXCEPT ![i] = u.votedFor]
    /\ leader' = [leader EXCEPT ![i] = u.leader]

UpToDate(i, m) ==
    \/ m.mlastLogTerm > LastTerm(log[i])
    \/ m.mlastLogTerm = LastTerm(log[i]) /\ m.mlastLogIndex >= Len(log[i])

\* Mutant: a second vote in the same term.
GrantsAgain(i, u, m) == m.mterm = u.term /\ UpToDate(i, m)

\* May i, in the role u that m has left it in, vote for the sender of m?
Grants(i, u, m) ==
    /\ m.mterm = u.term
    /\ UpToDate(i, m)
    /\ u.votedFor \in {Nil, m.msource}

HandleRequestVoteRequest(i, c) ==
    LET m == Head(net[c])
        j == m.msource
        u == UpdateTerm(i, m)
        grant == Grants(i, u, m)
    IN /\ m.mtype = "rvq"
       /\ SetRole(i, IF grant THEN [u EXCEPT !.votedFor = j] ELSE u)
       /\ Send(Taken(c), "handle", i, j,
               [mtype |-> "rvp", mterm |-> u.term, mvoteGranted |-> grant, msource |-> i])
       /\ UNCHANGED <<votesGranted, logVars, leaderVars, commitVars,
                      becomeLeaderCh, loopVars, clientVars>>

HandleRequestVoteResponse(i, c) ==
    LET m == Head(net[c])
        u == UpdateTerm(i, m)
        counted == m.mterm = u.term /\ m.mvoteGranted
    IN /\ m.mtype = "rvp"
       /\ SetRole(i, u)
       /\ votesGranted' = [votesGranted EXCEPT ![i] = IF counted THEN @ \cup {m.msource} ELSE @]
       /\ becomeLeaderCh' = [becomeLeaderCh EXCEPT ![i] =
              IF counted /\ u.state = "candidate" /\ IsQuorum(votesGranted[i] \cup {m.msource})
              THEN @ + 1 ELSE @]
       /\ net' = Taken(c)
       /\ UNCHANGED <<logVars, leaderVars, commitVars, loopVars, clientVars>>

\* The entry before the ones sent is there, with the term the leader has for it.
LogOK(i, m) ==
    \/ m.mprevLogIndex = 0
    \/ /\ m.mprevLogIndex \in 1..Len(log[i])
       /\ m.mprevLogTerm = log[i][m.mprevLogIndex].term

\* Mutant: a candidate stays one when the leader of its term shows up.
FollowOnlyNewTerm(i, m) ==
    LET u == UpdateTerm(i, m)
    IN IF m.mterm < u.term THEN u ELSE [u EXCEPT !.leader = m.msource]

\* A message of the current term names the leader and ends a candidacy; its
\* reset of the leader timeout has no effect here, where timeouts are free.
FollowSender(i, m) ==
    LET u == UpdateTerm(i, m)
    IN IF m.mterm < u.term THEN u
       ELSE [u EXCEPT !.leader = m.msource,
                      !.state = IF @ = "candidate" THEN "follower" ELSE @]

Rejects(i, u, m) == m.mterm < u.term \/ (u.state = "follower" /\ ~LogOK(i, m))

RejectAppendEntries(i, c) ==
    LET m == Head(net[c])
        u == FollowSender(i, m)
    IN /\ m.mtype = "apq"
       /\ Rejects(i, u, m)
       /\ SetRole(i, u)
       /\ Send(Taken(c), "handle", i, m.msource,
               [mtype |-> "app", mterm |-> u.term, msuccess |-> FALSE,
                mmatchIndex |-> 0, msource |-> i])
       /\ UNCHANGED <<votesGranted, logVars, leaderVars, commitVars,
                      becomeLeaderCh, loopVars, clientVars>>

\* The assertions of the accepting branch.
Acceptable(i, u, m) ==
    /\ u.state = "follower" /\ LogOK(i, m)
    /\ m.mcommitIndex <= m.mprevLogIndex + Len(m.mentries)

AcceptAppendEntries(i, c) ==
    LET m == Head(net[c])
        u == FollowSender(i, m)
        newLog == SubSeq(log[i], 1, m.mprevLogIndex) \o m.mentries
    IN /\ m.mtype = "apq"
       /\ ~Rejects(i, u, m) /\ Acceptable(i, u, m)
       /\ SetRole(i, u)
       /\ SetLog(i, m.mprevLogIndex, m.mentries)
       /\ sm' = [sm EXCEPT ![i] = ApplyLog(newLog, commitIndex[i] + 1, m.mcommitIndex, @)]
       /\ commitIndex' = [commitIndex EXCEPT ![i] = LargerOf(@, m.mcommitIndex)]
       /\ Send(Taken(c), "handle", i, m.msource,
               [mtype |-> "app", mterm |-> u.term, msuccess |-> TRUE,
                mmatchIndex |-> m.mprevLogIndex + Len(m.mentries), msource |-> i])
       /\ UNCHANGED <<votesGranted, leaderVars, becomeLeaderCh, loopVars, clientVars>>

HandleAppendEntriesResponse(i, c) ==
    LET m == Head(net[c])
        u == UpdateTerm(i, m)
        j == m.msource
        stale == m.mterm < u.term
    IN /\ m.mtype = "app"
       /\ SetRole(i, u)
       /\ nextIndex' = [nextIndex EXCEPT ![i][j] =
              IF stale THEN @ ELSE IF m.msuccess THEN m.mmatchIndex + 1 ELSE LargerOf(@ - 1, 1)]
       /\ matchIndex' = [matchIndex EXCEPT ![i][j] =
              IF stale \/ ~m.msuccess THEN @ ELSE m.mmatchIndex]
       /\ net' = Taken(c)
       /\ UNCHANGED <<votesGranted, logVars, commitVars, becomeLeaderCh, loopVars, clientVars>>

LeaderAppends(i, c) ==
    LET m == Head(net[c])
    IN /\ m.mtype = "request"
       /\ state[i] = "leader"
       /\ Len(log[i]) < MaxLog
       /\ SetLog(i, Len(log[i]),
                 <<[term |-> currentTerm[i], cmd |-> m.mcmd, client |-> m.msource]>>)
       /\ net' = Taken(c)
       /\ UNCHANGED <<roleVars, votesGranted, leaderVars, commitVars,
                      becomeLeaderCh, loopVars, clientVars>>

RedirectClient(i, c) ==
    LET m == Head(net[c])
    IN /\ m.mtype = "request"
       /\ state[i] # "leader"
       /\ Write(Taken(c), "handle", i, m.msource,
                [mtype |-> "response", type |-> m.mcmd.type, msuccess |-> FALSE,
                 idx |-> m.mcmd.idx, key |-> m.mcmd.key, value |-> Nil,
                 mleaderHint |-> leader[i]])
       /\ UNCHANGED <<roleVars, votesGranted, logVars, leaderVars, commitVars,
                      becomeLeaderCh, loopVars, clientVars>>

handleMsg(i) ==
    \E c \in Arriving(i) :
        /\ \/ HandleRequestVoteRequest(i, c)
           \/ HandleRequestVoteResponse(i, c)
           \/ RejectAppendEntries(i, c)
           \/ AcceptAppendEntries(i, c)
           \/ HandleAppendEntriesResponse(i, c)
           \/ LeaderAppends(i, c)
           \/ RedirectClient(i, c)
        /\ overtaken' = (overtaken \/ Overtakes(c))

-----------------------------------------------------------------------------
(* AServerRequestVote *)

\* idx goes through the servers in turn; the sections that skip the server itself
\* and that leave the loop are joined to the one before, and 0 is outside.
NextPeer(i, n) ==
    LET later == {j \in Servers \ {i} : j > n}
    IN IF later = {} THEN 0 ELSE CHOOSE j \in later : \A k \in later : j <= k

\* The timer is random and reset by the handler only if it finds the time: it may
\* fire in any state.
TimeoutFires(i) == currentTerm[i] + 1 \in Starters[i]

serverRequestVoteLoop(i) ==
    /\ voteIdx[i] = 0
    /\ state[i] \in {"follower", "candidate"}
    /\ TimeoutFires(i)
    /\ SetRole(i, [term |-> currentTerm[i] + 1, state |-> "candidate",
                   votedFor |-> i, leader |-> Nil])
    /\ votesGranted' = [votesGranted EXCEPT ![i] = {i}]
    /\ voteIdx' = [voteIdx EXCEPT ![i] = NextPeer(i, 0)]
    /\ UNCHANGED <<logVars, leaderVars, commitVars, becomeLeaderCh,
                   appendIdx, newCommitIndex, clientVars, net>>

\* One request per section, made of the term and the log of that moment; the
\* server may have left the candidacy it belongs to.
requestVoteLoop(i) ==
    /\ voteIdx[i] \in Servers
    /\ voteIdx' = [voteIdx EXCEPT ![i] = NextPeer(i, @)]
    /\ Send(net, "vote", i, voteIdx[i],
            [mtype |-> "rvq", mterm |-> currentTerm[i], mlastLogTerm |-> LastTerm(log[i]),
             mlastLogIndex |-> Len(log[i]), msource |-> i])
    /\ UNCHANGED <<roleVars, votesGranted, logVars, leaderVars, commitVars,
                   becomeLeaderCh, appendIdx, newCommitIndex, clientVars>>

-----------------------------------------------------------------------------
(* AServerAppendEntries *)

\* Reading appendEntriesCh gives TRUE at a signal and also after a timeout, so a
\* leader may start a round at any time.
serverAppendEntriesLoop(i) ==
    /\ appendIdx[i] = 0
    /\ state[i] = "leader"
    /\ appendIdx' = [appendIdx EXCEPT ![i] = NextPeer(i, 0)]
    /\ UNCHANGED <<roleVars, votesGranted, logVars, leaderVars, commitVars, becomeLeaderCh,
                   voteIdx, newCommitIndex, clientVars, net>>

AppendEntriesMessage(i, j) ==
    LET prev == nextIndex[i][j] - 1
    IN [mtype |-> "apq", mterm |-> currentTerm[i], mprevLogIndex |-> prev,
        mprevLogTerm |-> IF prev > 0 THEN log[i][prev].term ELSE 0,
        mentries |-> SubSeq(log[i], prev + 1, Len(log[i])),
        mcommitIndex |-> commitIndex[i], msource |-> i]

appendEntriesLoop(i) ==
    /\ appendIdx[i] \in Servers
    /\ \/ /\ state[i] = "leader"
          /\ appendIdx' = [appendIdx EXCEPT ![i] = NextPeer(i, @)]
          /\ Send(net, "append", i, appendIdx[i], AppendEntriesMessage(i, appendIdx[i]))
       \/ /\ state[i] # "leader"
          /\ appendIdx' = [appendIdx EXCEPT ![i] = 0]
          /\ UNCHANGED net
    /\ UNCHANGED <<roleVars, votesGranted, logVars, leaderVars, commitVars, becomeLeaderCh,
                   voteIdx, newCommitIndex, clientVars>>

-----------------------------------------------------------------------------
(* AServerAdvanceCommitIndex *)

\* The commit index a leader may advance to: only an entry of its own term
\* commits the ones before it.
NextCommitIndex(i) ==
    LET n == FindMaxAgreeIndex(log[i], i, matchIndex[i])
    IN IF n # Nil /\ log[i][n].term = currentTerm[i] THEN n ELSE commitIndex[i]

\* Is the archetype in applyLoop?  Its section that only leaves the loop is joined
\* to the one before, a round that finds nothing new changes nothing.
Applying(i) == commitIndex[i] < newCommitIndex[i]

serverAdvanceCommitIndexLoop(i) ==
    /\ ~Applying(i)
    /\ state[i] = "leader"
    /\ NextCommitIndex(i) > commitIndex[i]
    /\ newCommitIndex' = [newCommitIndex EXCEPT ![i] = NextCommitIndex(i)]
    /\ UNCHANGED <<roleVars, votesGranted, logVars, leaderVars, commitVars,
                   becomeLeaderCh, voteIdx, appendIdx, clientVars, net>>

\* One entry per section.  The server may have stopped being the leader since
\* newCommitIndex was computed, and the handler may have moved commitIndex.
\* An index past the log would end the context: see AssertionsHold.
applyLoop(i) ==
    /\ Applying(i) /\ commitIndex[i] < Len(log[i])
    /\ LET k == commitIndex[i] + 1
           entry == log[i][k]
           cmd == entry.cmd
           newSm == ApplyLogEntry(entry, sm[i])
       IN /\ commitIndex' = [commitIndex EXCEPT ![i] = k]
          /\ sm' = [sm EXCEPT ![i] = newSm]
          /\ Write(net, "apply", i, entry.client,
                   [mtype |-> "response", type |-> cmd.type, msuccess |-> TRUE,
                    idx |-> cmd.idx, key |-> cmd.key,
                    value |-> IF cmd.key \in DOMAIN newSm THEN newSm[cmd.key] ELSE Nil,
                    mleaderHint |-> i])
    /\ UNCHANGED <<roleVars, votesGranted, logVars, leaderVars, becomeLeaderCh,
                   loopVars, clientVars>>

-----------------------------------------------------------------------------
(* AServerBecomeLeader *)

\* A signal may be older than the candidacy it finds: the section checks again.
serverBecomeLeaderLoop(i) ==
    /\ becomeLeaderCh[i] > 0
    /\ state[i] = "candidate"
    /\ IsQuorum(votesGranted[i])
    /\ becomeLeaderCh' = [becomeLeaderCh EXCEPT ![i] = @ - 1]
    /\ state' = [state EXCEPT ![i] = "leader"]
    /\ nextIndex' = [nextIndex EXCEPT ![i] = [j \in Servers |-> Len(log[i]) + 1]]
    /\ matchIndex' = [matchIndex EXCEPT ![i] = [j \in Servers |-> 0]]
    /\ leader' = [leader EXCEPT ![i] = i]
    /\ UNCHANGED <<currentTerm, votedFor, votesGranted, logVars, commitVars,
                   loopVars, clientVars, net>>

-----------------------------------------------------------------------------
(* AClient *)

clientLoop(c) ==
    /\ pc[c] = "clientLoop"
    /\ reqIdx[c] < MaxRequests
    /\ \E r \in Commands : req' = [req EXCEPT ![c] = r]
    /\ reqIdx' = [reqIdx EXCEPT ![c] = @ + 1]
    /\ pc' = [pc EXCEPT ![c] = "sndReq"]
    /\ UNCHANGED <<roleVars, votesGranted, logVars, leaderVars, commitVars,
                   becomeLeaderCh, loopVars, server, sends, answered, net>>

sndReq(c) ==
    /\ pc[c] = "sndReq"
    /\ sends[c] < MaxSends
    /\ sends' = [sends EXCEPT ![c] = @ + 1]
    /\ \E s \in IF server[c] = Nil THEN Contacts ELSE {server[c]} :
          /\ server' = [server EXCEPT ![c] = s]
          /\ Send(net, "client", c, s,
                  [mtype |-> "request", msource |-> c,
                   mcmd |-> [idx |-> reqIdx[c], type |-> req[c].type,
                             key |-> req[c].key, value |-> req[c].value]])
    /\ pc' = [pc EXCEPT ![c] = "rcvResp"]
    /\ UNCHANGED <<roleVars, votesGranted, logVars, leaderVars, commitVars,
                   becomeLeaderCh, loopVars, req, reqIdx, answered>>

\* A response to an earlier request is dropped, a refusal sends the request
\* again, to the server it names if it names one.
rcvResp(c) ==
    /\ pc[c] = "rcvResp"
    /\ \E d \in Arriving(c) :
          LET resp == Head(net[d])
              mine == resp.idx = reqIdx[c]
          IN /\ net' = Taken(d)
             /\ server' = IF mine THEN [server EXCEPT ![c] = resp.mleaderHint] ELSE server
             /\ pc' = IF ~mine THEN pc
                      ELSE [pc EXCEPT ![c] = IF resp.msuccess THEN "clientLoop" ELSE "sndReq"]
             /\ answered' = IF mine /\ resp.msuccess
                            THEN [answered EXCEPT ![c] = @ \cup {resp}] ELSE answered
    /\ UNCHANGED <<roleVars, votesGranted, logVars, leaderVars, commitVars,
                   becomeLeaderCh, loopVars, req, reqIdx, sends>>

\* The driver's timer fires.  The failure detector alone does not get the client
\* here: reading the timeout channel aborts the section while it is empty.
clientTimeout(c) ==
    /\ pc[c] = "rcvResp"
    /\ server' = [server EXCEPT ![c] = Nil]
    /\ pc' = [pc EXCEPT ![c] = "sndReq"]
    /\ UNCHANGED <<roleVars, votesGranted, logVars, leaderVars, commitVars,
                   becomeLeaderCh, loopVars, req, reqIdx, sends, answered, net>>

-----------------------------------------------------------------------------
Init ==
    /\ state = [i \in Servers |-> "follower"]
    /\ currentTerm = [i \in Servers |-> 1]
    /\ votedFor = [i \in Servers |-> Nil]
    /\ leader = [i \in Servers |-> Nil]
    /\ votesGranted = [i \in Servers |-> {}]
    /\ log = [i \in Servers |-> <<>>]
    /\ plog = [i \in Servers |-> <<>>]
    /\ db = [i \in Servers |-> <<>>]
    /\ commitIndex = [i \in Servers |-> 0]
    /\ sm = [i \in Servers |-> <<>>]
    /\ nextIndex = [i \in Servers |-> [j \in Servers |-> 1]]
    /\ matchIndex = [i \in Servers |-> [j \in Servers |-> 0]]
    /\ becomeLeaderCh = [i \in Servers |-> IF NumServers = 1 THEN 1 ELSE 0]
    /\ voteIdx = [i \in Servers |-> 0]
    /\ appendIdx = [i \in Servers |-> 0]
    /\ newCommitIndex = [i \in Servers |-> 0]
    /\ pc = [c \in Clients |-> "clientLoop"]
    /\ req = [c \in Clients |-> Nil]
    /\ reqIdx = [c \in Clients |-> 0]
    /\ server = [c \in Clients |-> Nil]
    /\ sends = [c \in Clients |-> 0]
    /\ answered = [c \in Clients |-> {}]
    /\ net = <<>>
    /\ overtaken = FALSE

ServerNext(i) ==
    \/ handleMsg(i)
    \/ /\ \/ serverRequestVoteLoop(i) \/ requestVoteLoop(i)
          \/ serverAppendEntriesLoop(i) \/ appendEntriesLoop(i)
          \/ serverAdvanceCommitIndexLoop(i) \/ applyLoop(i)
          \/ serverBecomeLeaderLoop(i)
       /\ UNCHANGED overtaken

ClientNext(c) ==
    /\ clientLoop(c) \/ sndReq(c) \/ rcvResp(c) \/ clientTimeout(c)
    /\ UNCHANGED overtaken

Next ==
    \/ \E i \in Servers : ServerNext(i)
    \/ \E c \in Clients : ClientNext(c)
    \/ \E r \in Breakable : ConnectionBreaks(r) /\ UNCHANGED overtaken

Spec == Init /\ [][Next]_vars

-----------------------------------------------------------------------------
(* Properties *)

\* At most one leader in a term: two candidates of a term never both count a
\* quorum, although votes travel late, requests for votes are sent one at a time
\* with whatever term the server has by then, and signals outlive candidacies.
ElectionSafety ==
    \A i, j \in Servers :
        state[i] = "leader" /\ state[j] = "leader" /\ currentTerm[i] = currentTerm[j] => i = j

\* What a server has committed is in the log of every leader of its term or a
\* later one, whatever was committed or overwritten in between.
LeaderCompleteness ==
    \A i, j \in Servers :
        state[j] = "leader" /\ currentTerm[j] >= currentTerm[i] =>
            \A k \in 1..commitIndex[i] \cap DOMAIN log[i] :
                k \in DOMAIN log[j] /\ log[j][k] = log[i][k]

\* No assertion of the code fails, in whatever state a message or a section finds
\* the server: a leader gets no entries for its own term, an accepted request
\* commits nothing the log lacks, the commit index never goes back, an entry to be
\* applied is in the log, and an answer fits the request it carries the index of.
AssertionsHold ==
    /\ \A c \in DOMAIN net :
          LET m == Head(net[c])
              i == Dest(c)
          IN CASE m.mtype = "apq" ->
                    Rejects(i, FollowSender(i, m), m) \/ Acceptable(i, FollowSender(i, m), m)
               [] m.mtype = "response" ->
                    m.idx = reqIdx[i] => m.type = req[i].type /\ m.key = req[i].key
               [] OTHER -> TRUE
    /\ \A i \in Servers :
          /\ state[i] = "leader" /\ ~Applying(i) => NextCommitIndex(i) >= commitIndex[i]
          /\ Applying(i) => commitIndex[i] < Len(log[i])

\* What the sections of a server have flushed to the disk is its log, entry by
\* entry, with nothing left of the entries it truncated.
DiskFollowsLog ==
    \A i \in Servers : plog[i] = log[i] /\ db[i] = [n \in DOMAIN log[i] |-> log[i][n]]

Committed(i) ==
    IF commitIndex[i] <= Len(log[i]) THEN SubSeq(log[i], 1, commitIndex[i]) ELSE log[i]

\* The longest of the committed prefixes.
History ==
    Committed(CHOOSE i \in Servers : \A j \in Servers : commitIndex[j] <= commitIndex[i])

Answers ==
    UNION {{[client |-> c, idx |-> r.idx, value |-> r.value] : r \in answered[c]} : c \in Clients}

Store == INSTANCE SingleCopyStore WITH commands <- History, answers <- Answers, NoValue <- Nil

\* To its clients the replicated store is a single one: committed entries are
\* never lost or reordered by elections, and each answer follows from the
\* commands before it.
RefinesSingleCopy == Store!Spec
=============================================================================
