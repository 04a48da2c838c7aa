--------------------------- MODULE RaftKVSProofs ---------------------------
(***************************************************************************)
(* Proofs for RaftKVS, for any number of servers, terms, clients and       *)
(* entries, any failures of detectors and connections, and any bounds: one *)
(* leader in a term, the disk is the log, and, until an append request or  *)
(* an answer to one overtakes an earlier one of its term, leaders have all *)
(* that was committed, no two servers commit different entries, no         *)
(* assertion of the code fails, and to its clients the replicated store is *)
(* a single copy.                                                          *)
(***************************************************************************)
EXTENDS RaftKVS, FiniteSetTheorems, WellFoundedInduction, TLAPS

Campaigns(i) == state[i] \in {"candidate", "leader"}

\* What the proof needs to know of a message between servers.
MessageOK(m) ==
    m.mtype \in {"rvq", "rvp", "apq", "app"} =>
        /\ m.mterm \in Nat /\ m.msource \in Servers
        /\ m.mtype = "rvp" => m.mvoteGranted \in BOOLEAN

IsGrant(m) == m.mtype = "rvp" /\ m.mvoteGranted

\* Message m is on connection c of network n.
OnConnection(n, c, m) == c \in DOMAIN n /\ \E k \in DOMAIN n[c] : n[c][k] = m

IsNetwork(n) == \A c \in DOMAIN n : n[c] # <<>> /\ \E S : n[c] \in Seq(S)

\* The vote of k for i in term t is on its way, or it has been counted.
InFlight(k, i, t) ==
    \E c, m : /\ OnConnection(net, c, m) /\ Dest(c) = i
              /\ IsGrant(m) /\ m.msource = k /\ m.mterm = t

Holds(k, i, t) ==
    \/ Campaigns(i) /\ currentTerm[i] = t /\ k \in votesGranted[i]
    \/ InFlight(k, i, t)

\* k votes for i in term t, or has left the term behind.
Voted(k, i, t) == currentTerm[k] > t \/ (currentTerm[k] = t /\ votedFor[k] = i)

RolesOK ==
    /\ currentTerm \in [Servers -> Nat]
    /\ state \in [Servers -> {"follower", "candidate", "leader"}]
    /\ votedFor \in [Servers -> Servers \cup {Nil}]
    /\ leader \in [Servers -> Servers \cup {Nil}]
    /\ votesGranted \in [Servers -> SUBSET Servers]

NetOK == IsNetwork(net) /\ \A c, m : OnConnection(net, c, m) => MessageOK(m)

\* A vote that is held was given, and a voter's vote of a term is held by one
\* server only.  The second part is needed since a voter forgets its votes of
\* earlier terms.
VotesStand == \A k, i \in Servers, t \in Nat : Holds(k, i, t) => Voted(k, i, t)

VotesUnique ==
    \A k, i, j \in Servers, t \in Nat : Holds(k, i, t) /\ Holds(k, j, t) => i = j

LeadersElected == \A i \in Servers : state[i] = "leader" => IsQuorum(votesGranted[i])

IInv == RolesOK /\ NetOK /\ VotesStand /\ VotesUnique /\ LeadersElected

-----------------------------------------------------------------------------
(* Quorums *)

LEMMA QuorumsMeet ==
    ASSUME NEW Q \in SUBSET Servers, NEW R \in SUBSET Servers, IsQuorum(Q), IsQuorum(R)
    PROVE  \E k \in Servers : k \in Q /\ k \in R
<1>1. IsFiniteSet(Servers) /\ Cardinality(Servers) = NumServers
  BY FS_Interval, RaftAssumption DEF Servers
<1>2. IsFiniteSet(Q) /\ IsFiniteSet(R)
  BY <1>1, FS_Subset
<1>3. Cardinality(Q \cup R) <= NumServers
  BY <1>1, <1>2, FS_Subset, Q \cup R \subseteq Servers
<1>4. Cardinality(Q \cup R) = Cardinality(Q) + Cardinality(R) - Cardinality(Q \cap R)
  BY <1>2, FS_Union
<1>5. /\ Cardinality(Q) \in Nat /\ Cardinality(R) \in Nat
      /\ Cardinality(Q \cap R) \in Nat
  BY <1>2, FS_CardinalityType, FS_Intersection
<1>6. Cardinality(Q \cap R) # 0
  BY <1>3, <1>4, <1>5, RaftAssumption DEF IsQuorum
<1>7. Q \cap R # {}
  BY <1>6, FS_EmptySet
<1> QED BY <1>7

\* A quorum stays one when a vote is added.
LEMMA QuorumGrows ==
    ASSUME NEW Q \in SUBSET Servers, NEW k \in Servers, IsQuorum(Q)
    PROVE  IsQuorum(Q \cup {k})
<1>1. IsFiniteSet(Servers)
  BY FS_Interval, RaftAssumption DEF Servers
<1>2. IsFiniteSet(Q \cup {k})
  BY <1>1, FS_Subset, Q \cup {k} \subseteq Servers
<1>3. /\ Cardinality(Q) <= Cardinality(Q \cup {k})
      /\ Cardinality(Q) \in Nat /\ Cardinality(Q \cup {k}) \in Nat
  BY <1>2, FS_Subset, FS_CardinalityType, Q \subseteq Q \cup {k}
<1> QED BY <1>3, RaftAssumption DEF IsQuorum

-----------------------------------------------------------------------------
(* The network *)

LEMMA NotEmpty ==
    ASSUME NEW S, NEW q \in Seq(S), Len(q) > 0
    PROVE  q # <<>>
OBVIOUS

\* A read returns a message that is on its connection, and adds none.
LEMMA TakenIsThere ==
    ASSUME IsNetwork(net), NEW c \in DOMAIN net
    PROVE  /\ OnConnection(net, c, Head(net[c]))
           /\ IsNetwork(Taken(c))
           /\ \A d, m : OnConnection(Taken(c), d, m) => OnConnection(net, d, m)
<1>1. PICK S : net[c] \in Seq(S) /\ net[c] # <<>>
  BY DEF IsNetwork
<1>2. Len(net[c]) \in Nat /\ Len(net[c]) > 0 /\ DOMAIN net[c] = 1..Len(net[c])
  BY <1>1
<1>3. OnConnection(net, c, Head(net[c]))
  BY <1>1, <1>2 DEF OnConnection
<1>4. CASE Len(net[c]) > 1
  <2>1. /\ Tail(net[c]) \in Seq(S) /\ Len(Tail(net[c])) = Len(net[c]) - 1
        /\ \A k \in 1..Len(net[c]) - 1 : Tail(net[c])[k] = net[c][k + 1]
    BY <1>1, <1>2
  <2>2. Tail(net[c]) # <<>>
    <3> DEFINE q == Tail(net[c])
    <3>1. q \in Seq(S) /\ Len(q) > 0
      BY <1>2, <1>4, <2>1
    <3> HIDE DEF q
    <3>2. q # <<>>
      BY <3>1, NotEmpty
    <3> QED BY <3>2 DEF q
  <2>3. /\ DOMAIN Taken(c) = DOMAIN net
        /\ \A d \in DOMAIN net : Taken(c)[d] = IF d = c THEN Tail(net[c]) ELSE net[d]
    BY <1>4 DEF Taken
  <2>4. IsNetwork(Taken(c))
    BY <2>1, <2>2, <2>3 DEF IsNetwork
  <2>5. ASSUME NEW d, NEW m, OnConnection(Taken(c), d, m) PROVE OnConnection(net, d, m)
    <3>1. CASE d = c
      <4>1. PICK k \in 1..Len(net[c]) - 1 : Tail(net[c])[k] = m
        BY <2>1, <2>3, <2>5, <1>2, <3>1 DEF OnConnection
      <4> QED BY <4>1, <2>1, <1>2, <3>1, k + 1 \in 1..Len(net[c]) DEF OnConnection
    <3>2. CASE d # c
      BY <3>2, <2>3, <2>5 DEF OnConnection
    <3> QED BY <3>1, <3>2
  <2> QED BY <1>3, <2>4, <2>5
<1>5. CASE ~(Len(net[c]) > 1)
  <2>1. /\ DOMAIN Taken(c) = DOMAIN net \ {c}
        /\ \A d \in DOMAIN net \ {c} : Taken(c)[d] = net[d]
    BY <1>5 DEF Taken
  <2> QED BY <1>3, <2>1 DEF IsNetwork, OnConnection
<1> QED BY <1>4, <1>5

\* A write adds its message to its connection.
LEMMA WriteAdds ==
    ASSUME NEW n, IsNetwork(n), NEW ctx, NEW from, NEW to, NEW m, Write(n, ctx, from, to, m)
    PROVE  /\ IsNetwork(net')
           /\ \A d, x : OnConnection(net', d, x) =>
                 OnConnection(n, d, x) \/ (d = Out(ctx, from, to) /\ x = m)
<1> DEFINE c == Out(ctx, from, to)
           q == On(n, c)
<1>1. \E S : q \in Seq(S)
  BY DEF IsNetwork, On
<1>2. PICK S : q \in Seq(S)
  BY <1>1
<1>3. /\ DOMAIN net' = DOMAIN n \cup {c}
      /\ net'[c] = Append(q, m)
      /\ \A d \in DOMAIN n \ {c} : net'[d] = n[d]
  BY DEF Write
<1> DEFINE T == S \cup {m}
<1>4. q \in Seq(T) /\ m \in T
  BY <1>2
<1>5. /\ Append(q, m) \in Seq(T) /\ Append(q, m) # <<>>
      /\ DOMAIN Append(q, m) = 1..Len(q) + 1 /\ Len(q) \in Nat
      /\ \A k \in 1..Len(q) : Append(q, m)[k] = q[k]
      /\ Append(q, m)[Len(q) + 1] = m
  BY <1>4
<1>6. IsNetwork(net')
  BY <1>3, <1>5 DEF IsNetwork
<1>7. ASSUME NEW d, NEW x, OnConnection(net', d, x)
      PROVE  OnConnection(n, d, x) \/ (d = c /\ x = m)
  <2>1. CASE d = c
    <3>1. PICK k \in 1..Len(q) + 1 : Append(q, m)[k] = x
      BY <1>3, <1>5, <1>7, <2>1 DEF OnConnection
    <3>2. CASE k = Len(q) + 1
      BY <3>1, <3>2, <1>5, <2>1
    <3>3. CASE k \in 1..Len(q)
      <4>1. q[k] = x /\ Len(q) > 0
        BY <3>1, <3>3, <1>5
      <4>2. c \in DOMAIN n /\ q = n[c]
        BY <4>1, <1>5 DEF On
      <4>3. DOMAIN q = 1..Len(q)
        BY <1>2
      <4> QED BY <4>1, <4>2, <4>3, <3>3, <2>1 DEF OnConnection
    <3> QED BY <3>2, <3>3, <1>5
  <2>2. CASE d # c
    BY <2>2, <1>3, <1>7 DEF OnConnection
  <2> QED BY <2>1, <2>2
<1> QED BY <1>6, <1>7

\* Send writes its message or nothing.
LEMMA SendAdds ==
    ASSUME NEW n, IsNetwork(n), NEW ctx, NEW from, NEW to, NEW m, Send(n, ctx, from, to, m)
    PROVE  /\ IsNetwork(net')
           /\ \A d, x : OnConnection(net', d, x) =>
                 OnConnection(n, d, x) \/ (d = Out(ctx, from, to) /\ x = m)
BY WriteAdds DEF Send

\* A connection that breaks only loses messages of its route.
LEMMA BreakLoses ==
    ASSUME IsNetwork(net), NEW r \in Breakable, ConnectionBreaks(r)
    PROVE  /\ IsNetwork(net')
           /\ \A d, m : OnConnection(net', d, m) =>
                 \E e : Dest(e) = Dest(d) /\ OnConnection(net, e, m)
<1> DEFINE c == <<r, "new">>
           old == <<r, "old">>
           rest == DOMAIN net \ {c}
<1>1. c \in DOMAIN net /\ Dest(c) = Dest(old)
  BY DEF ConnectionBreaks, Dest
<1>2. CASE net' = [d \in rest |-> net[d]]
  BY <1>2 DEF IsNetwork, OnConnection
<1>3. ASSUME NEW n \in 1..Len(net[c]),
             net' = [d \in rest \cup {old} |-> IF d = old THEN SubSeq(net[c], 1, n) ELSE net[d]]
      PROVE  /\ IsNetwork(net')
             /\ \A d, m : OnConnection(net', d, m) =>
                   \E e : Dest(e) = Dest(d) /\ OnConnection(net, e, m)
  <2>2. PICK S : net[c] \in Seq(S)
    BY <1>1 DEF IsNetwork
  <2>3. /\ SubSeq(net[c], 1, n) \in Seq(S) /\ Len(SubSeq(net[c], 1, n)) = n /\ n > 0
        /\ DOMAIN SubSeq(net[c], 1, n) = 1..n /\ DOMAIN net[c] = 1..Len(net[c])
        /\ \A k \in 1..n : SubSeq(net[c], 1, n)[k] = net[c][k]
    BY <1>3, <2>2
  <2>4. SubSeq(net[c], 1, n) # <<>>
    BY <2>3
  <2>5. /\ DOMAIN net' = rest \cup {old}
        /\ net'[old] = SubSeq(net[c], 1, n)
        /\ \A d \in rest \ {old} : net'[d] = net[d]
    BY <1>3
  <2>6. IsNetwork(net')
    BY <2>3, <2>4, <2>5 DEF IsNetwork
  <2>7. ASSUME NEW d, NEW m, OnConnection(net', d, m)
        PROVE  \E e : Dest(e) = Dest(d) /\ OnConnection(net, e, m)
    <3>1. CASE d = old
      <4>1. PICK k \in 1..n : net[c][k] = m
        BY <2>3, <2>5, <2>7, <3>1 DEF OnConnection
      <4>2. k \in DOMAIN net[c]
        BY <1>3, <2>3
      <4> QED BY <4>1, <4>2, <1>1, <3>1 DEF OnConnection
    <3>2. CASE d # old
      BY <3>2, <2>5, <2>7 DEF OnConnection
    <3> QED BY <3>1, <3>2
  <2> QED BY <2>6, <2>7
<1> QED BY <1>2, <1>3 DEF ConnectionBreaks

-----------------------------------------------------------------------------
(* What a step may do to roles and votes *)

\* The role u that i may take without taking back a vote or seeking new ones.
Demotion(i, u) ==
    /\ u.term \in Nat /\ u.state \in {"follower", "candidate", "leader"}
    /\ u.votedFor \in Servers \cup {Nil} /\ u.leader \in Servers \cup {Nil}
    /\ \/ u.term > currentTerm[i] /\ u.state = "follower"
       \/ /\ u.term = currentTerm[i] /\ u.state \in {state[i], "follower"}
          /\ votedFor[i] = Nil \/ u.votedFor = votedFor[i]

\* Votes stay, and nobody seeks new ones.
RolesKept ==
    /\ \A k, i \in Servers, t \in Nat : Voted(k, i, t) => Voted(k, i, t)'
    /\ \A j \in Servers : Campaigns(j)' => Campaigns(j) /\ currentTerm'[j] = currentTerm[j]
    /\ \A j \in Servers : state'[j] = "leader" => state[j] = "leader"

TypesKept ==
    /\ currentTerm' \in [Servers -> Nat]
    /\ state' \in [Servers -> {"follower", "candidate", "leader"}]
    /\ votedFor' \in [Servers -> Servers \cup {Nil}]
    /\ leader' \in [Servers -> Servers \cup {Nil}]

LEMMA ServersAreNot0 == Nil \notin Servers /\ Servers \subseteq Nat
BY RaftAssumption DEF Nil, Servers

LEMMA DemotionKeeps ==
    ASSUME RolesOK, NEW i \in Servers, NEW u, Demotion(i, u), SetRole(i, u)
    PROVE  TypesKept /\ RolesKept
<1>1. TypesKept
  BY DEF RolesOK, Demotion, SetRole, TypesKept
<1>2. /\ \A j \in Servers \ {i} : /\ currentTerm'[j] = currentTerm[j] /\ state'[j] = state[j]
                                 /\ votedFor'[j] = votedFor[j]
      /\ currentTerm'[i] = u.term /\ state'[i] = u.state /\ votedFor'[i] = u.votedFor
  BY DEF RolesOK, SetRole
<1>3. ASSUME NEW k \in Servers, NEW j \in Servers, NEW t \in Nat, Voted(k, j, t)
      PROVE  Voted(k, j, t)'
  <2>1. CASE k # i
    BY <1>2, <1>3, <2>1 DEF Voted
  <2>2. CASE k = i
    BY <1>2, <1>3, <2>2, ServersAreNot0 DEF Voted, Demotion, RolesOK
  <2> QED BY <2>1, <2>2
<1>4. ASSUME NEW j \in Servers
      PROVE  /\ Campaigns(j)' => Campaigns(j) /\ currentTerm'[j] = currentTerm[j]
             /\ state'[j] = "leader" => state[j] = "leader"
  <2>1. CASE j # i
    BY <1>2, <2>1 DEF Campaigns
  <2>2. CASE j = i
    BY <1>2, <2>2 DEF Campaigns, Demotion, RolesOK
  <2> QED BY <2>1, <2>2
<1> QED BY <1>1, <1>3, <1>4 DEF RolesKept

LEMMA SameRolesKeep ==
    ASSUME RolesOK, UNCHANGED roleVars
    PROVE  TypesKept /\ RolesKept
BY DEF RolesOK, TypesKept, RolesKept, Voted, Campaigns, roleVars

\* A vote is kept, and at most the vote of k0 for i0 in t0 is new, which k0 gives
\* now and had not given to another.
LEMMA VotesKept ==
    ASSUME VotesStand, VotesUnique,
           \A k, i \in Servers, t \in Nat : Voted(k, i, t) => Voted(k, i, t)',
           NEW k0 \in Servers, NEW i0 \in Servers, NEW t0 \in Nat,
           \A k, i \in Servers, t \in Nat :
              Holds(k, i, t)' => Holds(k, i, t) \/ (k = k0 /\ i = i0 /\ t = t0),
           Voted(k0, i0, t0)',
           \A i \in Servers : Voted(k0, i, t0) => i = i0
    PROVE  VotesStand' /\ VotesUnique'
<1>1. \A k, i \in Servers, t \in Nat : Holds(k, i, t) => Voted(k, i, t)
  BY DEF VotesStand
<1>2. \A k, i, j \in Servers, t \in Nat : Holds(k, i, t) /\ Holds(k, j, t) => i = j
  BY DEF VotesUnique
<1>3. \A k, i \in Servers, t \in Nat : Holds(k, i, t)' => Voted(k, i, t)'
  BY <1>1
<1>4. \A k, i, j \in Servers, t \in Nat : Holds(k, i, t)' /\ Holds(k, j, t)' => i = j
  BY <1>1, <1>2
<1> QED BY <1>3, <1>4 DEF VotesStand, VotesUnique

LEMMA NoNewVotes ==
    ASSUME VotesStand, VotesUnique,
           \A k, i \in Servers, t \in Nat : Voted(k, i, t) => Voted(k, i, t)',
           \A k, i \in Servers, t \in Nat : Holds(k, i, t)' => Holds(k, i, t)
    PROVE  VotesStand' /\ VotesUnique'
<1>1. \A k, i \in Servers, t \in Nat : Holds(k, i, t) => Voted(k, i, t)
  BY DEF VotesStand
<1>2. \A k, i, j \in Servers, t \in Nat : Holds(k, i, t) /\ Holds(k, j, t) => i = j
  BY DEF VotesUnique
<1>3. \A k, i \in Servers, t \in Nat : Holds(k, i, t)' => Voted(k, i, t)'
  BY <1>1
<1>4. \A k, i, j \in Servers, t \in Nat : Holds(k, i, t)' /\ Holds(k, j, t)' => i = j
  BY <1>2
<1> QED BY <1>3, <1>4 DEF VotesStand, VotesUnique

\* What is on the connections afterwards was on a connection to the same server,
\* or is well formed and no vote.
NetKept ==
    /\ IsNetwork(net')
    /\ \A c, m : OnConnection(net', c, m) =>
          \/ \E e : Dest(e) = Dest(c) /\ OnConnection(net, e, m)
          \/ MessageOK(m) /\ ~IsGrant(m)

LEMMA NetKeptOK ==
    ASSUME NetOK, NetKept
    PROVE  NetOK' /\ \A k, i, t : InFlight(k, i, t)' => InFlight(k, i, t)
<1>1. NetOK'
  BY DEF NetOK, NetKept
<1>2. ASSUME NEW k, NEW i, NEW t, InFlight(k, i, t)'
      PROVE  InFlight(k, i, t)
  <2>1. PICK c, m : /\ OnConnection(net', c, m) /\ Dest(c) = i
                    /\ IsGrant(m) /\ m.msource = k /\ m.mterm = t
    BY <1>2 DEF InFlight
  <2>2. PICK e : Dest(e) = Dest(c) /\ OnConnection(net, e, m)
    BY <2>1 DEF NetKept
  <2> QED BY <2>1, <2>2 DEF InFlight
<1> QED BY <1>1, <1>2

\* A step that gives no vote, counts none and seeks none.
LEMMA StepWithoutVotes ==
    ASSUME IInv, TypesKept, RolesKept, NetKept, votesGranted' = votesGranted
    PROVE  IInv'
<1>1. RolesOK'
  BY DEF IInv, RolesOK, TypesKept
<1>2. NetOK' /\ \A k, i, t : InFlight(k, i, t)' => InFlight(k, i, t)
  BY NetKeptOK DEF IInv
<1>3. \A k, i \in Servers, t \in Nat : Holds(k, i, t)' => Holds(k, i, t)
  BY <1>2 DEF Holds, RolesKept
<1>4. VotesStand' /\ VotesUnique'
  BY <1>3, NoNewVotes DEF IInv, RolesKept
<1>5. LeadersElected'
  BY DEF IInv, LeadersElected, RolesKept
<1> QED BY <1>1, <1>2, <1>4, <1>5 DEF IInv

\* Taking a message from net and, at most, sending another that is no vote.
LEMMA TakenKeeps ==
    ASSUME NetOK, NEW c \in DOMAIN net, net' = Taken(c)
    PROVE  NetKept
BY TakenIsThere DEF NetOK, NetKept

LEMMA ReplyKeeps ==
    ASSUME NetOK, NEW c \in DOMAIN net, NEW ctx, NEW from, NEW to, NEW m,
           Send(Taken(c), ctx, from, to, m), MessageOK(m), ~IsGrant(m)
    PROVE  NetKept
<1>1. /\ IsNetwork(Taken(c))
      /\ \A d, x : OnConnection(Taken(c), d, x) => OnConnection(net, d, x)
  BY TakenIsThere DEF NetOK
<1>2. /\ IsNetwork(net')
      /\ \A d, x : OnConnection(net', d, x) =>
            OnConnection(Taken(c), d, x) \/ (d = Out(ctx, from, to) /\ x = m)
  BY <1>1, SendAdds
<1> QED BY <1>1, <1>2 DEF NetKept

LEMMA SendKeeps ==
    ASSUME NetOK, NEW ctx, NEW from, NEW to, NEW m,
           Send(net, ctx, from, to, m), MessageOK(m), ~IsGrant(m)
    PROVE  NetKept
BY SendAdds DEF NetOK, NetKept

LEMMA BreakKeeps ==
    ASSUME NetOK, NEW r \in Breakable, ConnectionBreaks(r)
    PROVE  NetKept
BY BreakLoses DEF NetOK, NetKept

LEMMA SameNetKeeps ==
    ASSUME NetOK, UNCHANGED net
    PROVE  NetKept
BY DEF NetOK, NetKept

-----------------------------------------------------------------------------
(* The handlers *)

LEMMA UpdateTermDemotes ==
    ASSUME RolesOK, NEW i \in Servers, NEW m, m.mterm \in Nat
    PROVE  Demotion(i, UpdateTerm(i, m)) /\ UpdateTerm(i, m).term >= m.mterm
BY DEF RolesOK, UpdateTerm, Demotion

LEMMA FollowSenderDemotes ==
    ASSUME RolesOK, NEW i \in Servers, NEW m, m.mterm \in Nat, m.msource \in Servers
    PROVE  Demotion(i, FollowSender(i, m))
<1> DEFINE u == UpdateTerm(i, m)
<1>1. Demotion(i, u)
  BY UpdateTermDemotes
<1>2. u = [term |-> u.term, state |-> u.state, votedFor |-> u.votedFor, leader |-> u.leader]
  BY DEF UpdateTerm
<1>3. CASE m.mterm < u.term
  BY <1>1, <1>3 DEF FollowSender
<1>4. CASE ~(m.mterm < u.term)
  <2>1. FollowSender(i, m) =
           [term |-> u.term, state |-> IF u.state = "candidate" THEN "follower" ELSE u.state,
            votedFor |-> u.votedFor, leader |-> m.msource]
    BY <1>2, <1>4 DEF FollowSender
  <2> QED BY <1>1, <2>1 DEF Demotion
<1> QED BY <1>3, <1>4

\* Handlers that give no vote.
LEMMA RejectAppendEntriesKeeps ==
    ASSUME IInv, NEW i \in Servers, NEW c \in Arriving(i), RejectAppendEntries(i, c)
    PROVE  IInv'
<1> DEFINE m == Head(net[c])
           u == FollowSender(i, m)
<1>1. c \in DOMAIN net
  BY DEF Arriving
<1>2. m.mterm \in Nat /\ m.msource \in Servers
  BY <1>1, TakenIsThere DEF IInv, NetOK, MessageOK, RejectAppendEntries
<1>3. Demotion(i, u) /\ SetRole(i, u)
  BY <1>2, FollowSenderDemotes DEF IInv, RejectAppendEntries
<1>4. TypesKept /\ RolesKept
  BY <1>3, DemotionKeeps DEF IInv
<1> DEFINE a == [mtype |-> "app", mterm |-> u.term, msuccess |-> FALSE,
                 mmatchIndex |-> 0, msource |-> i]
<1>5. Send(Taken(c), "handle", i, m.msource, a) /\ votesGranted' = votesGranted
  BY DEF RejectAppendEntries
<1>6. MessageOK(a) /\ ~IsGrant(a)
  BY <1>3 DEF Demotion, MessageOK, IsGrant
<1>7. NetKept
  BY <1>1, <1>5, <1>6, ReplyKeeps DEF IInv
<1> QED BY <1>4, <1>5, <1>7, StepWithoutVotes

LEMMA AcceptAppendEntriesKeeps ==
    ASSUME IInv, NEW i \in Servers, NEW c \in Arriving(i), AcceptAppendEntries(i, c)
    PROVE  IInv'
<1> DEFINE m == Head(net[c])
           u == FollowSender(i, m)
<1>1. c \in DOMAIN net
  BY DEF Arriving
<1>2. m.mterm \in Nat /\ m.msource \in Servers
  BY <1>1, TakenIsThere DEF IInv, NetOK, MessageOK, AcceptAppendEntries
<1>3. Demotion(i, u) /\ SetRole(i, u)
  BY <1>2, FollowSenderDemotes DEF IInv, AcceptAppendEntries
<1>4. TypesKept /\ RolesKept
  BY <1>3, DemotionKeeps DEF IInv
<1> DEFINE a == [mtype |-> "app", mterm |-> u.term, msuccess |-> TRUE,
                 mmatchIndex |-> m.mprevLogIndex + Len(m.mentries), msource |-> i]
<1>5. Send(Taken(c), "handle", i, m.msource, a) /\ votesGranted' = votesGranted
  BY DEF AcceptAppendEntries
<1>6. MessageOK(a) /\ ~IsGrant(a)
  BY <1>3 DEF Demotion, MessageOK, IsGrant
<1>7. NetKept
  BY <1>1, <1>5, <1>6, ReplyKeeps DEF IInv
<1> QED BY <1>4, <1>5, <1>7, StepWithoutVotes

LEMMA HandleAppendEntriesResponseKeeps ==
    ASSUME IInv, NEW i \in Servers, NEW c \in Arriving(i), HandleAppendEntriesResponse(i, c)
    PROVE  IInv'
<1> DEFINE m == Head(net[c])
<1>1. c \in DOMAIN net
  BY DEF Arriving
<1>2. m.mterm \in Nat
  BY <1>1, TakenIsThere DEF IInv, NetOK, MessageOK, HandleAppendEntriesResponse
<1>3. TypesKept /\ RolesKept
  BY <1>2, UpdateTermDemotes, DemotionKeeps DEF IInv, HandleAppendEntriesResponse
<1>4. NetKept /\ votesGranted' = votesGranted
  BY <1>1, TakenKeeps DEF IInv, HandleAppendEntriesResponse
<1> QED BY <1>3, <1>4, StepWithoutVotes

LEMMA ClientRequestKeeps ==
    ASSUME IInv, NEW i \in Servers, NEW c \in Arriving(i),
           LeaderAppends(i, c) \/ RedirectClient(i, c)
    PROVE  IInv'
<1>1. c \in DOMAIN net
  BY DEF Arriving
<1>2. TypesKept /\ RolesKept /\ votesGranted' = votesGranted
  BY SameRolesKeep DEF IInv, LeaderAppends, RedirectClient
<1>3. CASE LeaderAppends(i, c)
  <2>1. NetKept
    BY <1>1, <1>3, TakenKeeps DEF IInv, LeaderAppends
  <2> QED BY <1>2, <2>1, StepWithoutVotes
<1>4. CASE RedirectClient(i, c)
  <2> DEFINE m == Head(net[c])
             a == [mtype |-> "response", type |-> m.mcmd.type, msuccess |-> FALSE,
                   idx |-> m.mcmd.idx, key |-> m.mcmd.key, value |-> Nil,
                   mleaderHint |-> leader[i]]
  <2>1. Send(Taken(c), "handle", i, m.msource, a)
    BY <1>4 DEF RedirectClient, Send
  <2>2. MessageOK(a) /\ ~IsGrant(a)
    BY DEF MessageOK, IsGrant
  <2>3. NetKept
    BY <1>1, <2>1, <2>2, ReplyKeeps DEF IInv
  <2> QED BY <1>2, <2>3, StepWithoutVotes
<1> QED BY <1>3, <1>4

\* A vote is given to the sender of the request only, and once in a term.
LEMMA HandleRequestVoteRequestKeeps ==
    ASSUME IInv, NEW i \in Servers, NEW c \in Arriving(i), HandleRequestVoteRequest(i, c)
    PROVE  IInv'
<1> DEFINE m == Head(net[c])
           j == m.msource
           u == UpdateTerm(i, m)
           grant == Grants(i, u, m)
           a == [mtype |-> "rvp", mterm |-> u.term, mvoteGranted |-> grant, msource |-> i]
<1>1. c \in DOMAIN net
  BY DEF Arriving
<1>2. m.mterm \in Nat /\ j \in Servers
  BY <1>1, TakenIsThere DEF IInv, NetOK, MessageOK, HandleRequestVoteRequest
<1>3. Demotion(i, u)
  BY <1>2, UpdateTermDemotes DEF IInv
<1>4. votesGranted' = votesGranted /\ Send(Taken(c), "handle", i, j, a)
  BY DEF HandleRequestVoteRequest
<1>5. MessageOK(a)
  BY <1>3 DEF Demotion, MessageOK, Grants
<1>6. CASE ~grant
  <2>1. SetRole(i, u)
    BY <1>6 DEF HandleRequestVoteRequest
  <2>2. TypesKept /\ RolesKept
    BY <1>3, <2>1, DemotionKeeps DEF IInv
  <2>3. NetKept
    BY <1>1, <1>4, <1>5, <1>6, ReplyKeeps DEF IInv, IsGrant
  <2> QED BY <1>4, <2>2, <2>3, StepWithoutVotes
<1>7. CASE grant
  <2> DEFINE w == [u EXCEPT !.votedFor = j]
  <2>1. SetRole(i, w)
    BY <1>7 DEF HandleRequestVoteRequest
  <2>2. w = [term |-> u.term, state |-> u.state, votedFor |-> j, leader |-> u.leader]
    BY DEF UpdateTerm
  <2>3. u.votedFor \in {Nil, j}
    BY <1>7 DEF Grants
  <2>4. Demotion(i, w)
    BY <1>2, <1>3, <2>2, <2>3 DEF Demotion
  <2>5. TypesKept /\ RolesKept
    BY <2>1, <2>4, DemotionKeeps DEF IInv
  <2>6. /\ IsNetwork(net')
        /\ \A d, x : OnConnection(net', d, x) =>
              OnConnection(net, d, x) \/ (Dest(d) = j /\ x = a)
    <3>1. /\ IsNetwork(Taken(c))
          /\ \A d, x : OnConnection(Taken(c), d, x) => OnConnection(net, d, x)
      BY <1>1, TakenIsThere DEF IInv, NetOK
    <3>2. /\ IsNetwork(net')
          /\ \A d, x : OnConnection(net', d, x) =>
                OnConnection(Taken(c), d, x) \/ (d = Out("handle", i, j) /\ x = a)
      BY <1>4, <3>1, SendAdds
    <3> QED BY <3>1, <3>2 DEF Out, Dest
  <2>7. NetOK'
    BY <1>5, <2>6 DEF IInv, NetOK
  <2>8. ASSUME NEW k, NEW d, NEW t, InFlight(k, d, t)'
        PROVE  InFlight(k, d, t) \/ (k = i /\ d = j /\ t = u.term)
    BY <2>6, <2>8 DEF InFlight
  <2>9. PICK j0 \in Servers, t0 \in Nat : j0 = j /\ t0 = u.term
    BY <1>2, <1>3 DEF Demotion
  <2>10. \A k, d \in Servers, t \in Nat :
            Holds(k, d, t)' => Holds(k, d, t) \/ (k = i /\ d = j0 /\ t = t0)
    BY <1>4, <2>5, <2>8, <2>9 DEF Holds, RolesKept
  <2>11. /\ Voted(i, j0, t0)'
         /\ \A d \in Servers : Voted(i, d, t0) => d = j0
    <3>1. currentTerm'[i] = t0 /\ votedFor'[i] = j0
      BY <2>1, <2>2, <2>9 DEF SetRole, IInv, RolesOK
    <3>2. \A d \in Servers : Voted(i, d, t0) => d = j0
      BY <1>2, <1>3, <2>3, <2>9, ServersAreNot0 DEF Demotion, Voted, IInv, RolesOK, UpdateTerm
    <3> QED BY <3>1, <3>2 DEF Voted
  <2>12. VotesStand' /\ VotesUnique'
    <3>1. \A k, d \in Servers, t \in Nat : Voted(k, d, t) => Voted(k, d, t)'
      BY <2>5 DEF RolesKept
    <3> QED BY <2>10, <2>11, <3>1, VotesKept DEF IInv
  <2>13. RolesOK' /\ LeadersElected'
    BY <1>4, <2>5 DEF IInv, RolesOK, LeadersElected, TypesKept, RolesKept
  <2> QED BY <2>7, <2>12, <2>13 DEF IInv
<1> QED BY <1>6, <1>7

\* A vote that is counted was on its way for the same term.
LEMMA HandleRequestVoteResponseKeeps ==
    ASSUME IInv, NEW i \in Servers, NEW c \in Arriving(i), HandleRequestVoteResponse(i, c)
    PROVE  IInv'
<1> DEFINE m == Head(net[c])
           u == UpdateTerm(i, m)
           counted == m.mterm = u.term /\ m.mvoteGranted
<1>1. c \in DOMAIN net /\ Dest(c) = i /\ OnConnection(net, c, m) /\ m.mtype = "rvp"
  BY TakenIsThere DEF Arriving, IInv, NetOK, HandleRequestVoteResponse
<1>2. m.mterm \in Nat /\ m.msource \in Servers
  BY <1>1 DEF IInv, NetOK, MessageOK
<1>3. Demotion(i, u) /\ SetRole(i, u)
  BY <1>2, UpdateTermDemotes DEF IInv, HandleRequestVoteResponse
<1>4. TypesKept /\ RolesKept
  BY <1>3, DemotionKeeps DEF IInv
<1>5. /\ votesGranted' \in [Servers -> SUBSET Servers]
      /\ \A j \in Servers \ {i} : votesGranted'[j] = votesGranted[j]
      /\ votesGranted'[i] = IF counted THEN votesGranted[i] \cup {m.msource} ELSE votesGranted[i]
  BY <1>2 DEF HandleRequestVoteResponse, IInv, RolesOK
<1>6. NetOK' /\ \A k, j, t : InFlight(k, j, t)' => InFlight(k, j, t)
  <2>1. NetKept
    BY <1>1, TakenKeeps DEF IInv, HandleRequestVoteResponse
  <2> QED BY <2>1, NetKeptOK DEF IInv
<1>7. ASSUME NEW k \in Servers, NEW j \in Servers, NEW t \in Nat, Holds(k, j, t)'
      PROVE  Holds(k, j, t)
  <2>1. CASE InFlight(k, j, t)'
    BY <1>6, <2>1 DEF Holds
  <2>2. CASE Campaigns(j)' /\ currentTerm'[j] = t /\ k \in votesGranted'[j]
    <3>1. Campaigns(j) /\ currentTerm[j] = t
      BY <1>4, <2>2 DEF RolesKept
    <3>2. CASE k \in votesGranted[j]
      BY <3>1, <3>2 DEF Holds
    <3>3. CASE k \notin votesGranted[j]
      <4>1. j = i /\ counted /\ k = m.msource
        BY <1>5, <2>2, <3>3
      <4>2. m.mterm = t
        BY <1>3, <2>2, <4>1 DEF SetRole, IInv, RolesOK
      <4> QED BY <1>1, <4>1, <4>2 DEF Holds, InFlight, IsGrant
    <3> QED BY <3>2, <3>3
  <2> QED BY <1>7, <2>1, <2>2 DEF Holds
<1>8. VotesStand' /\ VotesUnique'
  BY <1>4, <1>7, NoNewVotes DEF IInv, RolesKept
<1>9. LeadersElected'
  <2> SUFFICES ASSUME NEW j \in Servers, state'[j] = "leader" PROVE IsQuorum(votesGranted'[j])
    BY DEF LeadersElected, IsQuorum
  <2>1. IsQuorum(votesGranted[j]) /\ votesGranted[j] \in SUBSET Servers
    BY <1>4 DEF RolesKept, IInv, LeadersElected, RolesOK
  <2>2. IsQuorum(votesGranted[j] \cup {m.msource})
    BY <1>2, <2>1, QuorumGrows
  <2> QED BY <1>5, <2>1, <2>2
<1>10. RolesOK'
  BY <1>4, <1>5 DEF RolesOK, TypesKept
<1> QED BY <1>6, <1>8, <1>9, <1>10 DEF IInv

-----------------------------------------------------------------------------
(* Elections *)

\* A candidate of a new term has its own vote only, and has voted for nobody else
\* in that term.
LEMMA CandidacyKeeps ==
    ASSUME IInv, NEW i \in Servers, serverRequestVoteLoop(i)
    PROVE  IInv'
<1>1. PICK t0 \in Nat : t0 = currentTerm[i] + 1
  BY DEF IInv, RolesOK
<1>2. /\ currentTerm'[i] = t0 /\ state'[i] = "candidate"
      /\ votedFor'[i] = i /\ votesGranted'[i] = {i}
      /\ \A j \in Servers \ {i} :
            /\ currentTerm'[j] = currentTerm[j] /\ state'[j] = state[j]
            /\ votedFor'[j] = votedFor[j] /\ votesGranted'[j] = votesGranted[j]
  BY <1>1 DEF serverRequestVoteLoop, SetRole, IInv, RolesOK
<1>3. RolesOK'
  BY <1>1 DEF serverRequestVoteLoop, SetRole, IInv, RolesOK
<1>4. NetOK' /\ \A k, j, t : InFlight(k, j, t)' => InFlight(k, j, t)
  BY SameNetKeeps, NetKeptOK DEF IInv, serverRequestVoteLoop
<1>5. \A k, j \in Servers, t \in Nat : Voted(k, j, t) => Voted(k, j, t)'
  BY <1>1, <1>2 DEF Voted, IInv, RolesOK
<1>6. \A k, j \in Servers, t \in Nat :
         Holds(k, j, t)' => Holds(k, j, t) \/ (k = i /\ j = i /\ t = t0)
  BY <1>2, <1>4 DEF Holds, Campaigns
<1>7. /\ Voted(i, i, t0)'
      /\ \A j \in Servers : Voted(i, j, t0) => j = i
  BY <1>1, <1>2 DEF Voted, IInv, RolesOK
<1>8. VotesStand' /\ VotesUnique'
  BY <1>5, <1>6, <1>7, VotesKept DEF IInv
<1>9. LeadersElected'
  <2> SUFFICES ASSUME NEW j \in Servers, state'[j] = "leader" PROVE IsQuorum(votesGranted'[j])
    BY DEF LeadersElected, IsQuorum
  <2> QED BY <1>2 DEF IInv, LeadersElected
<1> QED BY <1>3, <1>4, <1>8, <1>9 DEF IInv

LEMMA BecomeLeaderKeeps ==
    ASSUME IInv, NEW i \in Servers, serverBecomeLeaderLoop(i)
    PROVE  IInv'
<1>1. /\ state'[i] = "leader" /\ state[i] = "candidate"
      /\ \A j \in Servers \ {i} : state'[j] = state[j]
      /\ currentTerm' = currentTerm /\ votedFor' = votedFor
      /\ votesGranted' = votesGranted /\ net' = net
  BY DEF serverBecomeLeaderLoop, IInv, RolesOK
<1>2. RolesOK'
  BY DEF serverBecomeLeaderLoop, IInv, RolesOK
<1>3. NetOK' /\ \A k, j, t : InFlight(k, j, t)' => InFlight(k, j, t)
  BY <1>1, SameNetKeeps, NetKeptOK DEF IInv
<1>4. \A k, j \in Servers, t \in Nat : Holds(k, j, t)' => Holds(k, j, t)
  BY <1>1, <1>3 DEF Holds, Campaigns
<1>5. \A k, j \in Servers, t \in Nat : Voted(k, j, t) => Voted(k, j, t)'
  BY <1>1 DEF Voted
<1>6. VotesStand' /\ VotesUnique'
  BY <1>4, <1>5, NoNewVotes DEF IInv
<1>7. LeadersElected'
  <2> SUFFICES ASSUME NEW j \in Servers, state'[j] = "leader" PROVE IsQuorum(votesGranted'[j])
    BY DEF LeadersElected, IsQuorum
  <2> QED BY <1>1 DEF IInv, LeadersElected, serverBecomeLeaderLoop
<1> QED BY <1>2, <1>3, <1>6, <1>7 DEF IInv

\* The sections that send requests or touch neither roles nor votes.
LEMMA OtherServerStepKeeps ==
    ASSUME IInv, NEW i \in Servers,
           \/ requestVoteLoop(i) \/ serverAppendEntriesLoop(i) \/ appendEntriesLoop(i)
           \/ serverAdvanceCommitIndexLoop(i) \/ applyLoop(i)
    PROVE  IInv'
<1>1. TypesKept /\ RolesKept /\ votesGranted' = votesGranted
  BY SameRolesKeep DEF IInv, requestVoteLoop, serverAppendEntriesLoop, appendEntriesLoop,
                       serverAdvanceCommitIndexLoop, applyLoop
<1>2. currentTerm[i] \in Nat
  BY DEF IInv, RolesOK
<1>3. CASE requestVoteLoop(i)
  <2> DEFINE a == [mtype |-> "rvq", mterm |-> currentTerm[i], mlastLogTerm |-> LastTerm(log[i]),
                   mlastLogIndex |-> Len(log[i]), msource |-> i]
  <2>1. MessageOK(a) /\ ~IsGrant(a)
    BY <1>2 DEF MessageOK, IsGrant
  <2>2. Send(net, "vote", i, voteIdx[i], a)
    BY <1>3 DEF requestVoteLoop
  <2> QED BY <1>1, <2>1, <2>2, SendKeeps, StepWithoutVotes DEF IInv
<1>4. CASE serverAppendEntriesLoop(i) \/ serverAdvanceCommitIndexLoop(i)
  BY <1>1, <1>4, SameNetKeeps, StepWithoutVotes
     DEF IInv, serverAppendEntriesLoop, serverAdvanceCommitIndexLoop
<1>5. CASE appendEntriesLoop(i)
  <2> DEFINE a == AppendEntriesMessage(i, appendIdx[i])
  <2>1. MessageOK(a) /\ ~IsGrant(a)
    BY <1>2 DEF AppendEntriesMessage, MessageOK, IsGrant
  <2>2. Send(net, "append", i, appendIdx[i], a) \/ UNCHANGED net
    BY <1>5 DEF appendEntriesLoop
  <2> QED BY <1>1, <2>1, <2>2, SendKeeps, SameNetKeeps, StepWithoutVotes DEF IInv
<1>6. CASE applyLoop(i)
  <2>1. PICK m : m.mtype = "response" /\ \E to : Send(net, "apply", i, to, m)
    BY <1>6 DEF applyLoop, Send
  <2>2. MessageOK(m) /\ ~IsGrant(m)
    BY <2>1 DEF MessageOK, IsGrant
  <2> QED BY <1>1, <2>1, <2>2, SendKeeps, StepWithoutVotes DEF IInv
<1> QED BY <1>3, <1>4, <1>5, <1>6

LEMMA ClientStepKeeps ==
    ASSUME IInv, NEW i \in Clients, ClientNext(i)
    PROVE  IInv'
<1>1. TypesKept /\ RolesKept /\ votesGranted' = votesGranted
  BY SameRolesKeep DEF IInv, ClientNext, clientLoop, sndReq, rcvResp, clientTimeout
<1>2. CASE clientLoop(i) \/ clientTimeout(i)
  BY <1>1, <1>2, SameNetKeeps, StepWithoutVotes DEF IInv, clientLoop, clientTimeout
<1>3. CASE sndReq(i)
  <2>1. PICK m : m.mtype = "request" /\ \E to : Send(net, "client", i, to, m)
    BY <1>3 DEF sndReq
  <2>2. MessageOK(m) /\ ~IsGrant(m)
    BY <2>1 DEF MessageOK, IsGrant
  <2> QED BY <1>1, <2>1, <2>2, SendKeeps, StepWithoutVotes DEF IInv
<1>4. CASE rcvResp(i)
  <2>1. PICK d \in DOMAIN net : net' = Taken(d)
    BY <1>4 DEF rcvResp, Arriving
  <2> QED BY <1>1, <2>1, TakenKeeps, StepWithoutVotes DEF IInv
<1> QED BY <1>2, <1>3, <1>4 DEF ClientNext

-----------------------------------------------------------------------------
LEMMA InitIInv == Init => IInv
<1> SUFFICES ASSUME Init PROVE IInv
  OBVIOUS
<1>1. RolesOK /\ LeadersElected
  BY DEF Init, RolesOK, LeadersElected
<1>2. DOMAIN net = {}
  BY DEF Init
<1>3. NetOK /\ \A k, i, t : ~InFlight(k, i, t)
  BY <1>2 DEF NetOK, IsNetwork, OnConnection, InFlight
<1>4. \A i \in Servers : ~Campaigns(i)
  BY DEF Init, Campaigns
<1> QED BY <1>1, <1>3, <1>4 DEF IInv, VotesStand, VotesUnique, Holds

LEMMA NextIInv == IInv /\ [Next]_vars => IInv'
<1> SUFFICES ASSUME IInv, [Next]_vars PROVE IInv'
  OBVIOUS
<1>1. ASSUME NEW i \in Servers, handleMsg(i) PROVE IInv'
  BY <1>1, HandleRequestVoteRequestKeeps, HandleRequestVoteResponseKeeps,
     RejectAppendEntriesKeeps, AcceptAppendEntriesKeeps, HandleAppendEntriesResponseKeeps,
     ClientRequestKeeps DEF handleMsg
<1>2. ASSUME NEW i \in Servers, ServerNext(i) PROVE IInv'
  BY <1>1, <1>2, CandidacyKeeps, BecomeLeaderKeeps, OtherServerStepKeeps DEF ServerNext
<1>3. ASSUME NEW c \in Clients, ClientNext(c) PROVE IInv'
  BY <1>3, ClientStepKeeps
<1>4. ASSUME NEW r \in Breakable, ConnectionBreaks(r) PROVE IInv'
  <2>1. NetKept /\ UNCHANGED roleVars /\ votesGranted' = votesGranted
    BY <1>4, BreakKeeps DEF IInv, ConnectionBreaks
  <2> QED BY <2>1, SameRolesKeep, StepWithoutVotes DEF IInv
<1>5. CASE UNCHANGED vars
  <2>1. UNCHANGED <<roleVars, votesGranted, net>>
    BY <1>5 DEF vars
  <2> QED BY <2>1, SameRolesKeep, SameNetKeeps, StepWithoutVotes DEF IInv
<1> QED BY <1>2, <1>3, <1>4, <1>5 DEF Next

\* Two leaders of a term would share a voter, who votes once in a term.
LEMMA IInvElectionSafety == IInv => ElectionSafety
<1> SUFFICES ASSUME IInv, NEW i \in Servers, NEW j \in Servers,
                    state[i] = "leader", state[j] = "leader", currentTerm[i] = currentTerm[j]
             PROVE  i = j
  BY DEF ElectionSafety
<1>1. PICK k \in Servers : k \in votesGranted[i] /\ k \in votesGranted[j]
  BY QuorumsMeet DEF IInv, LeadersElected, RolesOK
<1>2. Holds(k, i, currentTerm[i]) /\ Holds(k, j, currentTerm[i])
  BY <1>1 DEF Holds, Campaigns
<1> QED BY <1>2 DEF IInv, VotesUnique, RolesOK

\* At most one leader in a term, whatever the detectors report, connections break
\* and messages overtake each other, and whenever the election timers fire.
THEOREM ElectionSafe == Spec => []ElectionSafety
<1>1. Init => IInv
  BY InitIInv
<1>2. IInv /\ [Next]_vars => IInv'
  BY NextIInv
<1>3. IInv => ElectionSafety
  BY IInvElectionSafety
<1> QED BY <1>1, <1>2, <1>3, PTL DEF Spec

-----------------------------------------------------------------------------
(* The log and the disk.  An update of the log is one of the disk if it keeps *)
(* no more than there is and appends a sequence, which depends on what the    *)
(* messages carry and on nextIndex.                                           *)

IsSequence(q) == \E S : q \in Seq(S)

LogMessageOK(m) ==
    /\ m.mtype = "apq" => IsSequence(m.mentries)
    /\ m.mtype = "app" => (m.msuccess => m.mmatchIndex \in Nat)

LogsOK ==
    /\ DOMAIN log = Servers /\ DOMAIN plog = Servers /\ DOMAIN db = Servers
    /\ \A i \in Servers : IsSequence(log[i])

LogNetOK == \A c, m : OnConnection(net, c, m) => LogMessageOK(m)

NextOK == nextIndex \in [Servers -> [Servers -> Nat \ {0}]]

DInv == LogsOK /\ DiskFollowsLog /\ LogNetOK /\ NextOK

\* Keeping n entries and appending others is the same for the log, its copy and
\* the disk.
LEMMA FlushFollows ==
    ASSUME NEW L, IsSequence(L), NEW E, IsSequence(E), NEW n \in 0..Len(L)
    PROVE  /\ IsSequence(SubSeq(L, 1, n) \o E)
           /\ PopAndConcat(L, Len(L) - n, E) = SubSeq(L, 1, n) \o E
           /\ Flush(L, L, Len(L) - n, E) = SubSeq(L, 1, n) \o E
<1> DEFINE new == SubSeq(L, 1, n) \o E
           cnt == Len(L) - n
<1>1. PICK S, T : L \in Seq(S) /\ E \in Seq(T)
  BY DEF IsSequence
<1> DEFINE U == S \cup T
<1>2. L \in Seq(U) /\ E \in Seq(U)
  BY <1>1
<1>3. /\ Len(L) \in Nat /\ Len(E) \in Nat /\ n \in Nat /\ n <= Len(L)
      /\ DOMAIN L = 1..Len(L)
  BY <1>2
<1>4. /\ SubSeq(L, 1, n) \in Seq(U) /\ Len(SubSeq(L, 1, n)) = n
      /\ \A k \in 1..n : SubSeq(L, 1, n)[k] = L[k]
  BY <1>2, <1>3
<1>5. /\ new \in Seq(U) /\ Len(new) = n + Len(E)
      /\ DOMAIN new = 1..n + Len(E)
      /\ \A k \in 1..n : new[k] = L[k]
      /\ \A k \in n + 1..n + Len(E) : new[k] = E[k - n]
  BY <1>2, <1>3, <1>4
<1>6. PopAndConcat(L, cnt, E) = new
  <2>1. Len(L) - cnt = n
    BY <1>3
  <2> QED BY <2>1 DEF PopAndConcat
<1>7. Flush(L, L, cnt, E) = new
  <2> DEFINE pushed == n + 1..n + Len(E)
             kept == DOMAIN L \ (n + 1..Len(L))
  <2>1. Len(L) - cnt = n
    BY <1>3
  <2>2. Flush(L, L, cnt, E) =
           [k \in kept \cup pushed |-> IF k \in pushed THEN E[k - n] ELSE L[k]]
    BY <2>1 DEF Flush
  <2>3. kept = 1..n /\ kept \cup pushed = DOMAIN new
    BY <1>3, <1>5
  <2>4. \A k \in DOMAIN new : (IF k \in pushed THEN E[k - n] ELSE L[k]) = new[k]
    BY <1>3, <1>5
  <2>5. new = [k \in DOMAIN new |-> new[k]]
    BY <1>5
  <2> HIDE DEF new, kept, pushed
  <2> QED BY <2>2, <2>3, <2>4, <2>5
<1> QED BY <1>5, <1>6, <1>7 DEF IsSequence

LEMMA SetLogFollows ==
    ASSUME LogsOK, DiskFollowsLog, NEW i \in Servers,
           NEW n \in 0..Len(log[i]), NEW E, IsSequence(E), SetLog(i, n, E)
    PROVE  LogsOK' /\ DiskFollowsLog'
<1> DEFINE new == SubSeq(log[i], 1, n) \o E
           cnt == Len(log[i]) - n
<1>1. IsSequence(log[i]) /\ plog[i] = log[i] /\ db[i] = log[i]
  <2>1. log[i] = [k \in DOMAIN log[i] |-> log[i][k]]
    BY DEF LogsOK, IsSequence
  <2> QED BY <2>1 DEF LogsOK, DiskFollowsLog
<1>2. /\ IsSequence(new)
      /\ PopAndConcat(plog[i], cnt, E) = new
      /\ Flush(db[i], plog[i], cnt, E) = new
  BY <1>1, FlushFollows
<1>3. /\ DOMAIN log' = Servers /\ DOMAIN plog' = Servers /\ DOMAIN db' = Servers
      /\ log'[i] = new /\ plog'[i] = PopAndConcat(plog[i], cnt, E)
      /\ db'[i] = Flush(db[i], plog[i], cnt, E)
      /\ \A j \in Servers \ {i} : log'[j] = log[j] /\ plog'[j] = plog[j] /\ db'[j] = db[j]
  BY DEF SetLog, LogsOK
<1> HIDE DEF new, cnt
<1>4. \A j \in Servers : IsSequence(log'[j])
  BY <1>2, <1>3 DEF LogsOK
<1>5. ASSUME NEW j \in Servers
      PROVE  plog'[j] = log'[j] /\ db'[j] = [k \in DOMAIN log'[j] |-> log'[j][k]]
  <2>1. CASE j = i
    <3>1. new = [k \in DOMAIN new |-> new[k]]
      BY <1>2 DEF IsSequence
    <3> QED BY <1>2, <1>3, <2>1, <3>1
  <2>2. CASE j # i
    BY <1>3, <2>2 DEF DiskFollowsLog
  <2> QED BY <2>1, <2>2
<1> QED BY <1>3, <1>4, <1>5 DEF LogsOK, DiskFollowsLog, IsSequence

LEMMA SameLogsFollow ==
    ASSUME LogsOK, DiskFollowsLog, UNCHANGED logVars
    PROVE  LogsOK' /\ DiskFollowsLog'
BY DEF LogsOK, DiskFollowsLog, logVars, IsSequence

\* What is on the connections afterwards was on one before, or is m.
LEMMA ReplyAdds ==
    ASSUME NetOK, NEW c \in DOMAIN net, NEW ctx, NEW from, NEW to, NEW m,
           Send(Taken(c), ctx, from, to, m)
    PROVE  \A d, x : OnConnection(net', d, x) => x = m \/ \E e : OnConnection(net, e, x)
<1>1. /\ IsNetwork(Taken(c))
      /\ \A d, x : OnConnection(Taken(c), d, x) => OnConnection(net, d, x)
  BY TakenIsThere DEF NetOK
<1>2. \A d, x : OnConnection(net', d, x) =>
         OnConnection(Taken(c), d, x) \/ (d = Out(ctx, from, to) /\ x = m)
  BY <1>1, SendAdds
<1> QED BY <1>1, <1>2

LEMMA LogReplyOK ==
    ASSUME NetOK, LogNetOK, NEW c \in DOMAIN net, NEW ctx, NEW from, NEW to, NEW m,
           Send(Taken(c), ctx, from, to, m), LogMessageOK(m)
    PROVE  LogNetOK'
BY ReplyAdds DEF LogNetOK

LEMMA LogSendOK ==
    ASSUME NetOK, LogNetOK, NEW ctx, NEW from, NEW to, NEW m,
           Send(net, ctx, from, to, m), LogMessageOK(m)
    PROVE  LogNetOK'
BY SendAdds DEF NetOK, LogNetOK

LEMMA LogTakenOK ==
    ASSUME NetOK, LogNetOK, NEW c \in DOMAIN net, net' = Taken(c)
    PROVE  LogNetOK'
BY TakenIsThere DEF NetOK, LogNetOK

LEMMA HandleMsgFollows ==
    ASSUME IInv, DInv, NEW i \in Servers, handleMsg(i)
    PROVE  DInv'
<1>1. PICK c \in Arriving(i) :
        \/ HandleRequestVoteRequest(i, c) \/ HandleRequestVoteResponse(i, c)
        \/ RejectAppendEntries(i, c) \/ AcceptAppendEntries(i, c)
        \/ HandleAppendEntriesResponse(i, c) \/ LeaderAppends(i, c) \/ RedirectClient(i, c)
  BY DEF handleMsg
<1> DEFINE m == Head(net[c])
<1>2. c \in DOMAIN net /\ NetOK /\ LogNetOK
  BY DEF Arriving, IInv, DInv
<1>3. OnConnection(net, c, m) /\ LogMessageOK(m)
  BY <1>2, TakenIsThere DEF NetOK, LogNetOK
<1>4. ASSUME UNCHANGED <<logVars, nextIndex>>, LogNetOK' PROVE DInv'
  BY <1>4, SameLogsFollow DEF DInv, NextOK
<1>5. CASE HandleRequestVoteRequest(i, c)
  <2> DEFINE u == UpdateTerm(i, m)
             a == [mtype |-> "rvp", mterm |-> u.term, mvoteGranted |-> Grants(i, u, m),
                   msource |-> i]
  <2>1. Send(Taken(c), "handle", i, m.msource, a) /\ LogMessageOK(a)
    BY <1>5 DEF HandleRequestVoteRequest, LogMessageOK
  <2>2. LogNetOK'
    BY <1>2, <2>1, LogReplyOK
  <2> QED BY <1>4, <1>5, <2>2 DEF HandleRequestVoteRequest, leaderVars
<1>6. CASE HandleRequestVoteResponse(i, c)
  BY <1>2, <1>4, <1>6, LogTakenOK DEF HandleRequestVoteResponse, leaderVars
<1>7. CASE RejectAppendEntries(i, c)
  <2> DEFINE a == [mtype |-> "app", mterm |-> FollowSender(i, m).term, msuccess |-> FALSE,
                   mmatchIndex |-> 0, msource |-> i]
  <2>1. Send(Taken(c), "handle", i, m.msource, a) /\ LogMessageOK(a)
    BY <1>7 DEF RejectAppendEntries, LogMessageOK
  <2>2. LogNetOK'
    BY <1>2, <2>1, LogReplyOK
  <2> QED BY <1>4, <1>7, <2>2 DEF RejectAppendEntries, leaderVars
<1>8. CASE AcceptAppendEntries(i, c)
  <2> DEFINE a == [mtype |-> "app", mterm |-> FollowSender(i, m).term, msuccess |-> TRUE,
                   mmatchIndex |-> m.mprevLogIndex + Len(m.mentries), msource |-> i]
  <2>1. IsSequence(log[i]) /\ IsSequence(m.mentries)
    BY <1>3, <1>8 DEF AcceptAppendEntries, LogMessageOK, DInv, LogsOK
  <2>2. Len(log[i]) \in Nat /\ Len(m.mentries) \in Nat
    BY <2>1 DEF IsSequence
  <2>3. m.mprevLogIndex \in 0..Len(log[i])
    BY <1>8, <2>2 DEF AcceptAppendEntries, Acceptable, LogOK
  <2>4. LogsOK' /\ DiskFollowsLog'
    BY <1>8, <2>1, <2>3, SetLogFollows DEF AcceptAppendEntries, DInv
  <2>5. Send(Taken(c), "handle", i, m.msource, a)
    BY <1>8 DEF AcceptAppendEntries
  <2>6. LogMessageOK(a)
    BY <2>2, <2>3 DEF LogMessageOK
  <2>7. LogNetOK'
    BY <1>2, <2>5, <2>6, LogReplyOK
  <2>8. NextOK'
    BY <1>8 DEF AcceptAppendEntries, leaderVars, DInv, NextOK
  <2> QED BY <2>4, <2>7, <2>8 DEF DInv
<1>9. CASE HandleAppendEntriesResponse(i, c)
  <2>1. m.msuccess => m.mmatchIndex \in Nat
    BY <1>3, <1>9 DEF HandleAppendEntriesResponse, LogMessageOK
  <2>2. \A n \in Nat \ {0} : LargerOf(n - 1, 1) \in Nat \ {0}
    BY DEF LargerOf
  <2> DEFINE j == m.msource
             stale == m.mterm < UpdateTerm(i, m).term
             v == IF stale THEN nextIndex[i][j]
                  ELSE IF m.msuccess THEN m.mmatchIndex + 1 ELSE LargerOf(nextIndex[i][j] - 1, 1)
  <2>3. NextOK'
    <3>1. j \in Servers
      BY <1>2, <1>3, <1>9 DEF HandleAppendEntriesResponse, NetOK, MessageOK
    <3>2. nextIndex[i][j] \in Nat \ {0}
      BY <3>1 DEF DInv, NextOK
    <3>3. v \in Nat \ {0}
      BY <2>1, <2>2, <3>2
    <3>4. nextIndex' = [nextIndex EXCEPT ![i][j] = v]
      BY <1>9 DEF HandleAppendEntriesResponse
    <3> HIDE DEF v, j
    <3> QED BY <3>1, <3>3, <3>4 DEF DInv, NextOK
  <2>4. LogNetOK' /\ UNCHANGED logVars
    BY <1>2, <1>9, LogTakenOK DEF HandleAppendEntriesResponse
  <2> QED BY <2>3, <2>4, SameLogsFollow DEF DInv
<1>10. CASE LeaderAppends(i, c)
  <2> DEFINE entry == [term |-> currentTerm[i], cmd |-> m.mcmd, client |-> m.msource]
  <2>1. IsSequence(log[i]) /\ Len(log[i]) \in 0..Len(log[i])
    BY DEF DInv, LogsOK, IsSequence
  <2>2. <<entry>> \in Seq({entry})
    OBVIOUS
  <2>3. IsSequence(<<entry>>) /\ SetLog(i, Len(log[i]), <<entry>>)
    BY <1>10, <2>2 DEF LeaderAppends, IsSequence
  <2>4. LogsOK' /\ DiskFollowsLog'
    BY <2>1, <2>3, SetLogFollows DEF DInv
  <2>5. LogNetOK' /\ NextOK'
    BY <1>2, <1>10, LogTakenOK DEF LeaderAppends, leaderVars, DInv, NextOK
  <2> QED BY <2>4, <2>5 DEF DInv
<1>11. CASE RedirectClient(i, c)
  <2> DEFINE a == [mtype |-> "response", type |-> m.mcmd.type, msuccess |-> FALSE,
                   idx |-> m.mcmd.idx, key |-> m.mcmd.key, value |-> Nil,
                   mleaderHint |-> leader[i]]
  <2>1. Send(Taken(c), "handle", i, m.msource, a) /\ LogMessageOK(a)
    BY <1>11 DEF RedirectClient, Send, LogMessageOK
  <2>2. LogNetOK'
    BY <1>2, <2>1, LogReplyOK
  <2> QED BY <1>4, <1>11, <2>2 DEF RedirectClient, leaderVars
<1> QED BY <1>1, <1>5, <1>6, <1>7, <1>8, <1>9, <1>10, <1>11

LEMMA OtherServerStepFollows ==
    ASSUME IInv, DInv, NEW i \in Servers,
           \/ serverRequestVoteLoop(i) \/ requestVoteLoop(i) \/ serverAppendEntriesLoop(i)
           \/ appendEntriesLoop(i) \/ serverAdvanceCommitIndexLoop(i) \/ applyLoop(i)
           \/ serverBecomeLeaderLoop(i)
    PROVE  DInv'
<1>1. NetOK /\ LogNetOK /\ UNCHANGED logVars
  BY DEF IInv, DInv, serverRequestVoteLoop, requestVoteLoop, serverAppendEntriesLoop,
         appendEntriesLoop, serverAdvanceCommitIndexLoop, applyLoop, serverBecomeLeaderLoop
<1>2. ASSUME UNCHANGED nextIndex, LogNetOK' PROVE DInv'
  BY <1>1, <1>2, SameLogsFollow DEF DInv, NextOK
<1>3. ASSUME UNCHANGED net PROVE LogNetOK'
  BY <1>1, <1>3 DEF LogNetOK
<1>4. CASE serverRequestVoteLoop(i) \/ serverAppendEntriesLoop(i) \/ serverAdvanceCommitIndexLoop(i)
  BY <1>2, <1>3, <1>4
     DEF serverRequestVoteLoop, serverAppendEntriesLoop, serverAdvanceCommitIndexLoop, leaderVars
<1>5. CASE requestVoteLoop(i)
  <2> DEFINE a == [mtype |-> "rvq", mterm |-> currentTerm[i], mlastLogTerm |-> LastTerm(log[i]),
                   mlastLogIndex |-> Len(log[i]), msource |-> i]
  <2>1. Send(net, "vote", i, voteIdx[i], a) /\ LogMessageOK(a)
    BY <1>5 DEF requestVoteLoop, LogMessageOK
  <2>2. LogNetOK'
    BY <1>1, <2>1, LogSendOK
  <2> QED BY <1>2, <1>5, <2>2 DEF requestVoteLoop, leaderVars
<1>6. CASE appendEntriesLoop(i)
  <2> DEFINE a == AppendEntriesMessage(i, appendIdx[i])
             prev == nextIndex[i][appendIdx[i]] - 1
  <2>1. IsSequence(a.mentries) /\ a.mtype = "apq"
    <3>1. PICK S : log[i] \in Seq(S)
      BY DEF DInv, LogsOK, IsSequence
    <3>2. prev \in Nat
      BY <1>6 DEF appendEntriesLoop, DInv, NextOK
    <3>3. SubSeq(log[i], prev + 1, Len(log[i])) \in Seq(S)
      BY <3>1, <3>2
    <3> QED BY <3>3 DEF AppendEntriesMessage, IsSequence
  <2>2. LogMessageOK(a)
    BY <2>1 DEF LogMessageOK
  <2>3. Send(net, "append", i, appendIdx[i], a) \/ UNCHANGED net
    BY <1>6 DEF appendEntriesLoop
  <2>4. LogNetOK'
    BY <1>1, <1>3, <2>2, <2>3, LogSendOK
  <2> QED BY <1>2, <1>6, <2>4 DEF appendEntriesLoop, leaderVars
<1>7. CASE applyLoop(i)
  <2>1. PICK m : m.mtype = "response" /\ \E to : Send(net, "apply", i, to, m)
    BY <1>7 DEF applyLoop, Send
  <2>2. LogNetOK'
    BY <1>1, <2>1, LogSendOK DEF LogMessageOK
  <2> QED BY <1>2, <1>7, <2>2 DEF applyLoop, leaderVars
<1>8. CASE serverBecomeLeaderLoop(i)
  <2>1. Len(log[i]) + 1 \in Nat \ {0}
    BY DEF DInv, LogsOK, IsSequence
  <2>2. NextOK'
    BY <1>8, <2>1 DEF serverBecomeLeaderLoop, DInv, NextOK
  <2>3. LogNetOK'
    BY <1>3, <1>8 DEF serverBecomeLeaderLoop
  <2> QED BY <1>1, <2>2, <2>3, SameLogsFollow DEF DInv
<1> QED BY <1>4, <1>5, <1>6, <1>7, <1>8

LEMMA NextDInv == IInv /\ DInv /\ [Next]_vars => DInv'
<1> SUFFICES ASSUME IInv, DInv, [Next]_vars PROVE DInv'
  OBVIOUS
<1>1. NetOK /\ LogNetOK
  BY DEF IInv, DInv
<1>2. ASSUME UNCHANGED <<logVars, nextIndex>>, LogNetOK' PROVE DInv'
  BY <1>2, SameLogsFollow DEF DInv, NextOK
<1>3. ASSUME NEW i \in Servers, ServerNext(i) PROVE DInv'
  BY <1>3, HandleMsgFollows, OtherServerStepFollows DEF ServerNext
<1>4. ASSUME NEW i \in Clients, ClientNext(i) PROVE DInv'
  <2>1. UNCHANGED <<logVars, nextIndex>>
    BY <1>4 DEF ClientNext, clientLoop, sndReq, rcvResp, clientTimeout, leaderVars
  <2>2. LogNetOK'
    <3>1. CASE clientLoop(i) \/ clientTimeout(i)
      BY <1>1, <3>1 DEF clientLoop, clientTimeout, LogNetOK
    <3>2. CASE sndReq(i)
      <4>1. PICK m : m.mtype = "request" /\ \E to : Send(net, "client", i, to, m)
        BY <3>2 DEF sndReq
      <4> QED BY <1>1, <4>1, LogSendOK DEF LogMessageOK
    <3>3. CASE rcvResp(i)
      <4>1. PICK d \in DOMAIN net : net' = Taken(d)
        BY <3>3 DEF rcvResp, Arriving
      <4> QED BY <1>1, <4>1, LogTakenOK
    <3> QED BY <1>4, <3>1, <3>2, <3>3 DEF ClientNext
  <2> QED BY <1>2, <2>1, <2>2
<1>5. ASSUME NEW r \in Breakable, ConnectionBreaks(r) PROVE DInv'
  <2>1. LogNetOK'
    BY <1>1, <1>5, BreakLoses DEF NetOK, LogNetOK
  <2> QED BY <1>2, <1>5, <2>1 DEF ConnectionBreaks, leaderVars
<1>6. CASE UNCHANGED vars
  <2>1. UNCHANGED <<logVars, nextIndex, net>>
    BY <1>6 DEF vars, leaderVars
  <2> QED BY <1>1, <1>2, <2>1 DEF LogNetOK
<1> QED BY <1>3, <1>4, <1>5, <1>6 DEF Next

LEMMA InitDInv == Init => DInv
<1> SUFFICES ASSUME Init PROVE DInv
  OBVIOUS
<1>1. \A i \in Servers : log[i] = <<>> /\ plog[i] = <<>> /\ db[i] = <<>>
  BY DEF Init
<1>2. <<>> \in Seq({}) /\ <<>> = [n \in DOMAIN <<>> |-> <<>>[n]]
  OBVIOUS
<1>3. LogsOK /\ DiskFollowsLog
  BY <1>1, <1>2 DEF Init, LogsOK, IsSequence, DiskFollowsLog
<1>4. LogNetOK
  BY DEF Init, LogNetOK, OnConnection
<1>5. NextOK
  BY DEF Init, NextOK
<1> QED BY <1>3, <1>4, <1>5 DEF DInv

\* What is on the disk of a server is its log, whichever sections truncate and
\* append, for logs of any length.
THEOREM DiskIsLog == Spec => []DiskFollowsLog
<1>1. Init => IInv /\ DInv
  BY InitIInv, InitDInv
<1>2. IInv /\ DInv /\ [Next]_vars => (IInv /\ DInv)'
  BY NextIInv, NextDInv
<1>3. IInv /\ DInv => DiskFollowsLog
  BY DEF DInv
<1> QED BY <1>1, <1>2, <1>3, PTL DEF Spec

-----------------------------------------------------------------------------
(* The history.  That leaders have what was committed cannot be said of the     *)
(* state alone: servers forget their votes, the logs they had and what they      *)
(* have acknowledged.  The invariant says that there is a history, of the logs   *)
(* of the leaders of all terms and of what each server accepted and voted in      *)
(* each, which is in order (HistoryOK) and which the state follows (Follows).    *)
(* A step that elects, appends, accepts or votes goes on to another history.      *)

\* What clients may ask of a server, and what its log holds.
Cmds == {[idx |-> n, type |-> r.type, key |-> r.key, value |-> r.value] :
            n \in Nat \ {0}, r \in Commands}
Entries == [term : Nat, cmd : Cmds, client : Clients]

\* What the past leaves behind, by term: whether it has had a leader, which server
\* that is, its log when it was elected (the first base entries) and since; what
\* each server has accepted, how many entries in each term (-1: nothing), the last
\* term it accepted in, whom it voted for and the last such term when it did.
Histories ==
    [elected : SUBSET Nat, head : [Nat -> Servers \cup {Nil}],
     log : [Nat -> Seq(Entries)], base : [Nat -> Nat],
     accepted : [Servers -> [Nat -> Nat \cup {-1}]], last : [Servers -> Nat],
     vote : [Servers -> [Nat -> Servers \cup {Nil}]], seen : [Servers -> [Nat -> Nat]]]

Agree(p, q, n) == n <= Len(p) /\ n <= Len(q) /\ \A k \in 1..n : p[k] = q[k]

\* The log of a leader is made of prefixes of the logs of earlier ones.
LogsMatch(h) ==
    /\ 0 \in h.elected /\ h.log[0] = <<>>
    /\ \A t \in h.elected :
          /\ h.base[t] <= Len(h.log[t])
          /\ \A k \in 1..Len(h.log[t]) :
                LET s == h.log[t][k].term
                IN /\ s \in h.elected
                   /\ IF k <= h.base[t] THEN s < t ELSE s = t
                   /\ Agree(h.log[t], h.log[s], k)

\* What is accepted in a term is a prefix of the log of its leader, with all of what
\* the leader was elected with.
AcceptsOK(h, T) ==
    /\ \A v \in Servers, t \in Nat :
          h.accepted[v][t] # -1 =>
             /\ t \in h.elected /\ t <= h.last[v]
             /\ h.base[t] <= h.accepted[v][t] /\ h.accepted[v][t] <= Len(h.log[t])
    /\ \A v \in Servers : h.accepted[v][h.last[v]] # -1 /\ h.last[v] <= T[v]

\* Votes of a term come from servers that have reached it; a leader has a quorum.
VotesOK(h, T) ==
    /\ \A v \in Servers, t \in Nat :
          h.vote[v][t] # Nil =>
             /\ t <= T[v]
             /\ t \notin h.elected =>
                  /\ h.seen[v][t] < t /\ h.accepted[v][h.seen[v][t]] # -1
                  /\ \A b \in Nat : h.seen[v][t] < b /\ b < t => h.accepted[v][b] = -1
    /\ \A t \in h.elected \ {0} :
          \E Q \in SUBSET Servers :
             IsQuorum(Q) /\ \A v \in Q : h.vote[v][t] # Nil /\ h.vote[v][t] = h.head[t]
    /\ h.head[0] = Nil

\* A quorum has accepted the first n entries of the log of term s, or may still.
Choosable(h, T, s, n) ==
    \E Q \in SUBSET Servers :
       IsQuorum(Q) /\ \A v \in Q : h.accepted[v][s] >= n \/ T[v] <= s

\* Later leaders were elected with all that may be chosen in an earlier term.
LaterHave(h, T) ==
    \A s, t \in h.elected : \A n \in 1..Len(h.log[s]) :
       s < t /\ h.log[s][n].term = s /\ Choosable(h, T, s, n) =>
          n <= h.base[t] /\ Agree(h.log[t], h.log[s], n)

HistoryOK(h, T) ==
    /\ h \in Histories /\ T \in [Servers -> Nat]
    /\ LogsMatch(h) /\ AcceptsOK(h, T) /\ VotesOK(h, T) /\ LaterHave(h, T)

\* A log q is at least as up to date as that of v when v voted in term t.
UpToDateWith(q, h, v, t) ==
    LET a == h.seen[v][t]
        n == h.accepted[v][a]
        s == IF n = 0 THEN 0 ELSE h.log[a][n].term
    IN s < LastTerm(q) \/ (s = LastTerm(q) /\ n <= Len(q))

-----------------------------------------------------------------------------
(* Logs of leaders *)

LEMMA AgreeRules ==
    ASSUME NEW p \in Seq(Entries), NEW q \in Seq(Entries), NEW n \in Nat, Agree(p, q, n)
    PROVE  /\ Agree(q, p, n)
           /\ \A k \in Nat : k <= n => Agree(p, q, k)
           /\ \A r \in Seq(Entries), k \in Nat : k <= n /\ Agree(q, r, k) => Agree(p, r, k)
BY DEF Agree

LEMMA LogTypes ==
    ASSUME NEW h \in Histories
    PROVE  /\ h.elected \subseteq Nat
           /\ \A t \in Nat : /\ h.log[t] \in Seq(Entries) /\ Len(h.log[t]) \in Nat
                             /\ h.base[t] \in Nat
                             /\ \A k \in 1..Len(h.log[t]) :
                                   h.log[t][k] \in Entries /\ h.log[t][k].term \in Nat
           /\ \A v \in Servers : h.last[v] \in Nat
           /\ \A v \in Servers, t \in Nat : h.accepted[v][t] \in Nat \cup {-1} /\ h.seen[v][t] \in Nat
<1>1. /\ h.elected \subseteq Nat /\ h.log \in [Nat -> Seq(Entries)] /\ h.base \in [Nat -> Nat]
      /\ h.last \in [Servers -> Nat] /\ h.accepted \in [Servers -> [Nat -> Nat \cup {-1}]]
      /\ h.seen \in [Servers -> [Nat -> Nat]]
  BY DEF Histories
<1>2. \A e \in Entries : e.term \in Nat
  BY DEF Entries
<1>3. \A q \in Seq(Entries) : Len(q) \in Nat /\ \A k \in 1..Len(q) : q[k] \in Entries
  OBVIOUS
<1>4. ASSUME NEW t \in Nat
      PROVE  /\ h.log[t] \in Seq(Entries) /\ Len(h.log[t]) \in Nat /\ h.base[t] \in Nat
             /\ \A k \in 1..Len(h.log[t]) : h.log[t][k] \in Entries /\ h.log[t][k].term \in Nat
  <2>1. h.log[t] \in Seq(Entries) /\ h.base[t] \in Nat
    BY <1>1
  <2> QED BY <2>1, <1>2, <1>3
<1>5. ASSUME NEW v \in Servers, NEW t \in Nat
      PROVE  h.accepted[v][t] \in Nat \cup {-1} /\ h.seen[v][t] \in Nat
  <2>1. h.accepted[v] \in [Nat -> Nat \cup {-1}] /\ h.seen[v] \in [Nat -> Nat]
    BY <1>1
  <2> QED BY <2>1
<1> QED BY <1>1, <1>4, <1>5

\* An entry of term s is past what the leader of s was elected with.
LEMMA TermOfEntry ==
    ASSUME NEW h \in Histories, LogsMatch(h), NEW t \in h.elected, NEW n \in 1..Len(h.log[t])
    PROVE  LET s == h.log[t][n].term
           IN /\ s \in h.elected /\ s \in Nat \ {0} /\ s <= t
              /\ Agree(h.log[t], h.log[s], n) /\ h.base[s] < n
<1> DEFINE s == h.log[t][n].term
<1>1. /\ s \in h.elected /\ s \in Nat /\ t \in Nat /\ n \in Nat /\ Agree(h.log[t], h.log[s], n)
      /\ s <= t /\ h.base[t] \in Nat
  <2>1. s \in h.elected /\ Agree(h.log[t], h.log[s], n)
        /\ IF n <= h.base[t] THEN s < t ELSE s = t
    <3>1. \A k \in 1..Len(h.log[t]) :
             LET r == h.log[t][k].term
             IN /\ r \in h.elected
                /\ IF k <= h.base[t] THEN r < t ELSE r = t
                /\ Agree(h.log[t], h.log[r], k)
      BY DEF LogsMatch
    <3> QED BY <3>1
  <2>2. t \in Nat /\ s \in Nat /\ n \in Nat /\ h.base[t] \in Nat
    <3> HIDE DEF s
    <3>1. t \in Nat /\ s \in Nat
      BY <2>1, LogTypes
    <3>2. h.base[t] \in Nat
      BY <3>1, LogTypes
    <3> QED BY <3>1, <3>2
  <2> HIDE DEF s
  <2> QED BY <2>1, <2>2
<1>2. n \in 1..Len(h.log[s]) /\ h.log[s][n].term = s
  BY <1>1, LogTypes DEF Agree
<1>3. h.base[s] < n
  <2>1. h.base[s] \in Nat
    BY <1>1, LogTypes
  <2>2. n <= h.base[s] => h.log[s][n].term < s
    BY <1>1, <1>2 DEF LogsMatch
  <2> HIDE DEF s
  <2> QED BY <1>1, <1>2, <2>1, <2>2
<1>4. s # 0
  <2>1. Len(h.log[0]) = 0
    BY DEF LogsMatch
  <2> HIDE DEF s
  <2> QED BY <1>2, <2>1
<1> QED BY <1>1, <1>3, <1>4

\* The terms of a log never decrease.
LEMMA TermsGrow ==
    ASSUME NEW h \in Histories, LogsMatch(h), NEW t \in h.elected,
           NEW n \in 1..Len(h.log[t]), NEW k \in 1..n
    PROVE  h.log[t][k].term <= h.log[t][n].term
<1> DEFINE s == h.log[t][n].term
<1>1. s \in h.elected /\ Agree(h.log[t], h.log[s], n)
  BY TermOfEntry
<1>2. k \in 1..Len(h.log[s]) /\ h.log[t][k] = h.log[s][k] /\ s \in Nat /\ t \in Nat
  BY <1>1, LogTypes DEF Agree
<1>3. h.log[s][k].term <= s
  BY <1>1, <1>2, TermOfEntry
<1> QED BY <1>2, <1>3

\* Logs with an entry of the same index and term are the same up to it.
LEMMA SameEntry ==
    ASSUME NEW h \in Histories, LogsMatch(h), NEW t \in h.elected, NEW u \in h.elected,
           NEW n \in 1..Len(h.log[t]), n \in 1..Len(h.log[u]),
           h.log[t][n].term = h.log[u][n].term
    PROVE  Agree(h.log[t], h.log[u], n)
<1> DEFINE s == h.log[t][n].term
<1>1. s \in Nat /\ t \in Nat /\ u \in Nat /\ n \in Nat
  <2>1. s \in h.elected
    BY TermOfEntry
  <2> QED BY <2>1, LogTypes
<1>2. Agree(h.log[t], h.log[s], n) /\ Agree(h.log[u], h.log[s], n)
  BY TermOfEntry
<1>3. /\ h.log[s] \in Seq(Entries) /\ h.log[t] \in Seq(Entries) /\ h.log[u] \in Seq(Entries)
  BY <1>1, LogTypes
<1> HIDE DEF s
<1>4. Agree(h.log[s], h.log[u], n)
  BY <1>1, <1>2, <1>3, AgreeRules
<1> QED BY <1>1, <1>2, <1>3, <1>4, AgreeRules

-----------------------------------------------------------------------------
(* What a step adds to the history *)

\* v votes for i in term t.
VoteStep(h, g, v, t, i) ==
    /\ g \in Histories
    /\ g.elected = h.elected /\ g.head = h.head /\ g.log = h.log /\ g.base = h.base
    /\ g.accepted = h.accepted /\ g.last = h.last
    /\ g.vote[v][t] = i /\ g.seen[v][t] = h.last[v]
    /\ \A w \in Servers, u \in Nat : w # v \/ u # t =>
          g.vote[w][u] = h.vote[w][u] /\ g.seen[w][u] = h.seen[w][u]

\* i is elected in term t with log q.
ElectStep(h, g, i, t, q) ==
    /\ g \in Histories
    /\ g.elected = h.elected \cup {t} /\ g.vote = h.vote /\ g.seen = h.seen
    /\ g.head[t] = i /\ g.log[t] = q /\ g.base[t] = Len(q)
    /\ \A u \in Nat : u # t => /\ g.head[u] = h.head[u] /\ g.log[u] = h.log[u]
                              /\ g.base[u] = h.base[u]
    /\ g.accepted[i][t] = Len(q) /\ g.last[i] = t
    /\ \A w \in Servers, u \in Nat : w # i \/ u # t => g.accepted[w][u] = h.accepted[w][u]
    /\ \A w \in Servers : w # i => g.last[w] = h.last[w]

\* i, the leader of term t, appends e to its log.
AppendStep(h, g, i, t, e) ==
    /\ g \in Histories
    /\ g.elected = h.elected /\ g.head = h.head /\ g.base = h.base
    /\ g.last = h.last /\ g.vote = h.vote /\ g.seen = h.seen
    /\ g.log[t] = Append(h.log[t], e)
    /\ \A u \in Nat : u # t => g.log[u] = h.log[u]
    /\ g.accepted[i][t] = h.accepted[i][t] + 1
    /\ \A w \in Servers, u \in Nat : w # i \/ u # t => g.accepted[w][u] = h.accepted[w][u]

\* v accepts the first n entries of the log of term t.
AcceptStep(h, g, v, t, n) ==
    /\ g \in Histories
    /\ g.elected = h.elected /\ g.head = h.head /\ g.log = h.log /\ g.base = h.base
    /\ g.vote = h.vote /\ g.seen = h.seen
    /\ g.accepted[v][t] = n /\ g.last[v] = t
    /\ \A w \in Servers, u \in Nat : w # v \/ u # t => g.accepted[w][u] = h.accepted[w][u]
    /\ \A w \in Servers : w # v => g.last[w] = h.last[w]

LEMMA IsHistory ==
    ASSUME NEW E \in SUBSET Nat, NEW H \in [Nat -> Servers \cup {Nil}],
           NEW L \in [Nat -> Seq(Entries)], NEW B \in [Nat -> Nat],
           NEW A \in [Servers -> [Nat -> Nat \cup {-1}]], NEW W \in [Servers -> Nat],
           NEW V \in [Servers -> [Nat -> Servers \cup {Nil}]], NEW S \in [Servers -> [Nat -> Nat]]
    PROVE  [elected |-> E, head |-> H, log |-> L, base |-> B, accepted |-> A, last |-> W,
            vote |-> V, seen |-> S] \in Histories
BY DEF Histories

LEMMA HistoryFields ==
    ASSUME NEW h \in Histories
    PROVE  /\ h.elected \in SUBSET Nat /\ h.head \in [Nat -> Servers \cup {Nil}]
           /\ h.log \in [Nat -> Seq(Entries)] /\ h.base \in [Nat -> Nat]
           /\ h.accepted \in [Servers -> [Nat -> Nat \cup {-1}]] /\ h.last \in [Servers -> Nat]
           /\ h.vote \in [Servers -> [Nat -> Servers \cup {Nil}]]
           /\ h.seen \in [Servers -> [Nat -> Nat]]
BY DEF Histories

\* An update of one entry of a function of two arguments.
LEMMA UpdateTwice ==
    ASSUME NEW D, NEW E, NEW R, NEW f \in [D -> [E -> R]], NEW a \in D, NEW b \in E, NEW x \in R
    PROVE  /\ [f EXCEPT ![a][b] = x] \in [D -> [E -> R]]
           /\ [f EXCEPT ![a][b] = x][a][b] = x
           /\ \A c \in D, d \in E :
                 c # a \/ d # b => [f EXCEPT ![a][b] = x][c][d] = f[c][d]
<1> DEFINE g == [f EXCEPT ![a][b] = x]
<1>1. /\ DOMAIN g = D /\ g[a] = [f[a] EXCEPT ![b] = x] /\ \A c \in D : c # a => g[c] = f[c]
      /\ g = [c \in D |-> g[c]]
  OBVIOUS
<1> HIDE DEF g
<1>2. f[a] \in [E -> R]
  OBVIOUS
<1>3. g[a] \in [E -> R] /\ g[a][b] = x /\ \A d \in E : d # b => g[a][d] = f[a][d]
  BY <1>1, <1>2
<1>4. \A c \in D : g[c] \in [E -> R]
  <2> TAKE c \in D
  <2>1. f[c] \in [E -> R]
    OBVIOUS
  <2> QED BY <1>1, <1>3, <2>1
<1>5. g \in [D -> [E -> R]]
  BY <1>1, <1>4
<1>6. ASSUME NEW c \in D, NEW d \in E, c # a \/ d # b PROVE g[c][d] = f[c][d]
  BY <1>1, <1>3, <1>6
<1>7. /\ g \in [D -> [E -> R]] /\ g[a][b] = x
      /\ \A c \in D, d \in E : c # a \/ d # b => g[c][d] = f[c][d]
  BY <1>3, <1>5, <1>6
<1> QED BY <1>7 DEF g

LEMMA VoteStepExists ==
    ASSUME NEW h \in Histories, NEW v \in Servers, NEW t \in Nat, NEW i \in Servers
    PROVE  \E g : VoteStep(h, g, v, t, i)
<1>2. PICK y \in Nat : y = h.last[v]
  BY HistoryFields
<1> DEFINE V == [h.vote EXCEPT ![v][t] = i]
           S == [h.seen EXCEPT ![v][t] = y]
<1>1. V \in [Servers -> [Nat -> Servers \cup {Nil}]]
      /\ V[v][t] = i
      /\ \A w \in Servers, u \in Nat : w # v \/ u # t => V[w][u] = h.vote[w][u]
  <2>1. h.vote \in [Servers -> [Nat -> Servers \cup {Nil}]] /\ i \in Servers \cup {Nil}
    BY HistoryFields
  <2> QED BY <2>1, UpdateTwice
<1>3. S \in [Servers -> [Nat -> Nat]] /\ S[v][t] = y
         /\ \A w \in Servers, u \in Nat : w # v \/ u # t => S[w][u] = h.seen[w][u]
  <2>1. h.seen \in [Servers -> [Nat -> Nat]]
    BY HistoryFields
  <2> QED BY <1>2, <2>1
<1> HIDE DEF V, S
<1> DEFINE g == [elected |-> h.elected, head |-> h.head, log |-> h.log, base |-> h.base,
                 accepted |-> h.accepted, last |-> h.last, vote |-> V, seen |-> S]
<1>4. g \in Histories
  BY <1>1, <1>3, HistoryFields, IsHistory
<1>5. VoteStep(h, g, v, t, i)
  BY <1>1, <1>2, <1>3, <1>4 DEF VoteStep
<1> QED BY <1>5

LEMMA ElectStepExists ==
    ASSUME NEW h \in Histories, NEW i \in Servers, NEW t \in Nat, NEW q \in Seq(Entries)
    PROVE  \E g : ElectStep(h, g, i, t, q)
<1>1. PICK n \in Nat : n = Len(q)
  OBVIOUS
<1> DEFINE H == [h.head EXCEPT ![t] = i]
           L == [h.log EXCEPT ![t] = q]
           B == [h.base EXCEPT ![t] = n]
           A == [h.accepted EXCEPT ![i][t] = n]
           W == [h.last EXCEPT ![i] = t]
<1>2. H \in [Nat -> Servers \cup {Nil}] /\ H[t] = i /\ \A u \in Nat : u # t => H[u] = h.head[u]
  <2>1. h.head \in [Nat -> Servers \cup {Nil}]
    BY HistoryFields
  <2> QED BY <2>1
<1>3. L \in [Nat -> Seq(Entries)] /\ L[t] = q /\ \A u \in Nat : u # t => L[u] = h.log[u]
  <2>1. h.log \in [Nat -> Seq(Entries)]
    BY HistoryFields
  <2> QED BY <2>1
<1>4. B \in [Nat -> Nat] /\ B[t] = n /\ \A u \in Nat : u # t => B[u] = h.base[u]
  <2>1. h.base \in [Nat -> Nat]
    BY HistoryFields
  <2> QED BY <2>1
<1>5. A \in [Servers -> [Nat -> Nat \cup {-1}]]
      /\ A[i][t] = n
      /\ \A w \in Servers, u \in Nat : w # i \/ u # t => A[w][u] = h.accepted[w][u]
  <2>1. h.accepted \in [Servers -> [Nat -> Nat \cup {-1}]] /\ n \in Nat \cup {-1}
    BY HistoryFields
  <2> QED BY <2>1, UpdateTwice
<1>6. W \in [Servers -> Nat] /\ W[i] = t /\ \A w \in Servers : w # i => W[w] = h.last[w]
  <2>1. h.last \in [Servers -> Nat]
    BY HistoryFields
  <2> QED BY <2>1
<1> HIDE DEF H, L, B, A, W
<1> DEFINE g == [elected |-> h.elected \cup {t}, head |-> H, log |-> L, base |-> B,
                 accepted |-> A, last |-> W, vote |-> h.vote, seen |-> h.seen]
<1>7. g \in Histories
  <2>1. /\ h.elected \cup {t} \in SUBSET Nat
        /\ h.vote \in [Servers -> [Nat -> Servers \cup {Nil}]]
        /\ h.seen \in [Servers -> [Nat -> Nat]]
    BY HistoryFields
  <2> QED BY <1>2, <1>3, <1>4, <1>5, <1>6, <2>1, IsHistory
<1>8. ElectStep(h, g, i, t, q)
  BY <1>1, <1>2, <1>3, <1>4, <1>5, <1>6, <1>7 DEF ElectStep
<1> QED BY <1>8

LEMMA AppendStepExists ==
    ASSUME NEW h \in Histories, NEW i \in Servers, NEW t \in Nat, NEW e \in Entries
    PROVE  \E g : AppendStep(h, g, i, t, e)
<1>1. h.log[t] \in Seq(Entries) /\ h.accepted[i][t] \in Nat \cup {-1}
  BY LogTypes
<1>2. PICK q \in Seq(Entries) : q = Append(h.log[t], e)
  <2>1. Append(h.log[t], e) \in Seq(Entries)
    BY <1>1
  <2> QED BY <2>1
<1>3. PICK n \in Nat : n = h.accepted[i][t] + 1
  BY <1>1
<1> DEFINE L == [h.log EXCEPT ![t] = q]
           A == [h.accepted EXCEPT ![i][t] = n]
<1>4. L \in [Nat -> Seq(Entries)] /\ L[t] = q /\ \A u \in Nat : u # t => L[u] = h.log[u]
  <2>1. h.log \in [Nat -> Seq(Entries)]
    BY HistoryFields
  <2> QED BY <2>1
<1>5. A \in [Servers -> [Nat -> Nat \cup {-1}]]
      /\ A[i][t] = n
      /\ \A w \in Servers, u \in Nat : w # i \/ u # t => A[w][u] = h.accepted[w][u]
  <2>1. h.accepted \in [Servers -> [Nat -> Nat \cup {-1}]] /\ n \in Nat \cup {-1}
    BY HistoryFields
  <2> QED BY <2>1, UpdateTwice
<1> HIDE DEF L, A
<1> DEFINE g == [elected |-> h.elected, head |-> h.head, log |-> L, base |-> h.base,
                 accepted |-> A, last |-> h.last, vote |-> h.vote, seen |-> h.seen]
<1>6. g \in Histories
  BY <1>4, <1>5, HistoryFields, IsHistory
<1>7. AppendStep(h, g, i, t, e)
  BY <1>2, <1>3, <1>4, <1>5, <1>6 DEF AppendStep
<1> QED BY <1>7

LEMMA AcceptStepExists ==
    ASSUME NEW h \in Histories, NEW v \in Servers, NEW t \in Nat, NEW n \in Nat
    PROVE  \E g : AcceptStep(h, g, v, t, n)
<1> DEFINE A == [h.accepted EXCEPT ![v][t] = n]
           W == [h.last EXCEPT ![v] = t]
<1>1. A \in [Servers -> [Nat -> Nat \cup {-1}]]
      /\ A[v][t] = n
      /\ \A w \in Servers, u \in Nat : w # v \/ u # t => A[w][u] = h.accepted[w][u]
  <2>1. h.accepted \in [Servers -> [Nat -> Nat \cup {-1}]] /\ n \in Nat \cup {-1}
    BY HistoryFields
  <2> QED BY <2>1, UpdateTwice
<1>2. W \in [Servers -> Nat] /\ W[v] = t /\ \A w \in Servers : w # v => W[w] = h.last[w]
  <2>1. h.last \in [Servers -> Nat]
    BY HistoryFields
  <2> QED BY <2>1
<1> HIDE DEF A, W
<1> DEFINE g == [elected |-> h.elected, head |-> h.head, log |-> h.log, base |-> h.base,
                 accepted |-> A, last |-> W, vote |-> h.vote, seen |-> h.seen]
<1>3. g \in Histories
  BY <1>1, <1>2, HistoryFields, IsHistory
<1>4. AcceptStep(h, g, v, t, n)
  BY <1>1, <1>2, <1>3 DEF AcceptStep
<1> QED BY <1>4

-----------------------------------------------------------------------------
(* Every step keeps the history in order *)

\* Servers that reach later terms can only accept less.
LEMMA TermsRiseKeeps ==
    ASSUME NEW h, NEW T, HistoryOK(h, T), NEW U \in [Servers -> Nat],
           \A v \in Servers : T[v] <= U[v]
    PROVE  HistoryOK(h, U)
<1>1. h \in Histories /\ T \in [Servers -> Nat] /\ LogsMatch(h)
  BY DEF HistoryOK
<1>2. AcceptsOK(h, U)
  <2>1. \A v \in Servers : h.last[v] <= U[v]
    BY <1>1, LogTypes DEF HistoryOK, AcceptsOK
  <2> QED BY <2>1 DEF HistoryOK, AcceptsOK
<1>3. VotesOK(h, U)
  <2>1. \A v \in Servers, t \in Nat : t <= T[v] => t <= U[v]
    BY <1>1
  <2> QED BY <2>1 DEF HistoryOK, VotesOK
<1>4. \A s \in Nat : \A n : Choosable(h, U, s, n) => Choosable(h, T, s, n)
  <2>1. \A v \in Servers, s \in Nat : U[v] <= s => T[v] <= s
    BY <1>1
  <2> QED BY <2>1 DEF Choosable
<1>5. LaterHave(h, U)
  BY <1>1, <1>4, LogTypes DEF HistoryOK, LaterHave
<1> QED BY <1>1, <1>2, <1>3, <1>5 DEF HistoryOK

\* A server votes in its term, in which it has accepted nothing unless the term has
\* a leader already.
LEMMA VoteKeepsHistory ==
    ASSUME NEW h, NEW T, HistoryOK(h, T), NEW v \in Servers, NEW i \in Servers,
           NEW t \in Nat, T[v] = t, h.vote[v][t] = Nil, NEW g, VoteStep(h, g, v, t, i)
    PROVE  HistoryOK(g, T)
<1>1. h \in Histories /\ T \in [Servers -> Nat]
  BY DEF HistoryOK
<1>2. /\ g \in Histories
      /\ g.elected = h.elected /\ g.head = h.head /\ g.log = h.log /\ g.base = h.base
      /\ g.accepted = h.accepted /\ g.last = h.last
      /\ g.vote[v][t] = i /\ g.seen[v][t] = h.last[v]
      /\ \A w \in Servers, u \in Nat : w # v \/ u # t =>
            g.vote[w][u] = h.vote[w][u] /\ g.seen[w][u] = h.seen[w][u]
  BY DEF VoteStep
<1>4. LogsMatch(g) /\ AcceptsOK(g, T) /\ LaterHave(g, T)
  BY <1>2 DEF HistoryOK, LogsMatch, AcceptsOK, LaterHave, Choosable
<1>5. VotesOK(g, T)
  <2>1. ASSUME t \notin h.elected
        PROVE  /\ h.last[v] < t /\ h.accepted[v][h.last[v]] # -1
               /\ \A b \in Nat : h.last[v] < b /\ b < t => h.accepted[v][b] = -1
    <3>1. h.last[v] \in Nat /\ h.last[v] <= t /\ h.accepted[v][h.last[v]] # -1
      BY <1>1, LogTypes DEF HistoryOK, AcceptsOK
    <3>2. h.last[v] \in h.elected
      BY <3>1 DEF HistoryOK, AcceptsOK
    <3>3. \A b \in Nat : h.last[v] < b => h.accepted[v][b] = -1
      BY <3>1 DEF HistoryOK, AcceptsOK
    <3> QED BY <1>1, <2>1, <3>1, <3>2, <3>3
  <2>2. ASSUME NEW w \in Servers, NEW u \in Nat, g.vote[w][u] # Nil
        PROVE  /\ u <= T[w]
               /\ u \notin g.elected =>
                    /\ g.seen[w][u] < u /\ g.accepted[w][g.seen[w][u]] # -1
                    /\ \A b \in Nat : g.seen[w][u] < b /\ b < u => g.accepted[w][b] = -1
    <3>1. CASE w = v /\ u = t
      BY <1>1, <1>2, <2>1, <3>1
    <3>2. CASE ~(w = v /\ u = t)
      <4>1. /\ u <= T[w]
            /\ u \notin h.elected =>
                 /\ h.seen[w][u] < u /\ h.accepted[w][h.seen[w][u]] # -1
                 /\ \A b \in Nat : h.seen[w][u] < b /\ b < u => h.accepted[w][b] = -1
        <5>1. VotesOK(h, T) /\ h.vote[w][u] # Nil
          BY <1>2, <2>2, <3>2 DEF HistoryOK
        <5> QED BY <5>1 DEF VotesOK
      <4> QED BY <1>2, <3>2, <4>1
    <3> QED BY <3>1, <3>2
  <2>3. ASSUME NEW u \in h.elected \ {0}
        PROVE  \E Q \in SUBSET Servers :
                  IsQuorum(Q) /\ \A w \in Q : g.vote[w][u] # Nil /\ g.vote[w][u] = g.head[u]
    <3>1. PICK Q \in SUBSET Servers :
             IsQuorum(Q) /\ \A w \in Q : h.vote[w][u] # Nil /\ h.vote[w][u] = h.head[u]
      <4>1. VotesOK(h, T)
        BY DEF HistoryOK
      <4> QED BY <4>1 DEF VotesOK
    <3>2. \A w \in Q : g.vote[w][u] = h.vote[w][u]
      <4>1. u \in Nat
        BY <1>1, LogTypes
      <4>2. \A w \in Q : w # v \/ u # t
        BY <3>1
      <4> QED BY <1>2, <3>1, <4>1, <4>2
    <3> QED BY <1>2, <3>1, <3>2
  <2>4. g.head[0] = Nil
    BY <1>2 DEF HistoryOK, VotesOK
  <2> QED BY <1>2, <2>2, <2>3, <2>4 DEF VotesOK
<1> QED BY <1>1, <1>2, <1>4, <1>5 DEF HistoryOK

\* A server accepts more of the log of the leader of its term.
LEMMA AcceptKeepsHistory ==
    ASSUME NEW h, NEW T, HistoryOK(h, T), NEW v \in Servers, NEW n \in Nat,
           NEW t \in Nat, T[v] = t, t \in h.elected, h.base[t] <= n, n <= Len(h.log[t]),
           h.accepted[v][t] <= n, NEW g, AcceptStep(h, g, v, t, n)
    PROVE  HistoryOK(g, T)
<1>1. h \in Histories /\ T \in [Servers -> Nat]
  BY DEF HistoryOK
<1>2. /\ g \in Histories
      /\ g.elected = h.elected /\ g.head = h.head /\ g.log = h.log /\ g.base = h.base
      /\ g.vote = h.vote /\ g.seen = h.seen
      /\ g.accepted[v][t] = n /\ g.last[v] = t
      /\ \A w \in Servers, u \in Nat : w # v \/ u # t => g.accepted[w][u] = h.accepted[w][u]
      /\ \A w \in Servers : w # v => g.last[w] = h.last[w]
  BY DEF AcceptStep
<1>4. LogsMatch(g)
  BY <1>2 DEF HistoryOK, LogsMatch
<1>5. h.last[v] \in Nat /\ h.last[v] <= t
  BY <1>1, LogTypes DEF HistoryOK, AcceptsOK
<1>6. AcceptsOK(g, T)
  <2>1. ASSUME NEW w \in Servers, NEW u \in Nat, g.accepted[w][u] # -1
        PROVE  /\ u \in g.elected /\ u <= g.last[w]
               /\ g.base[u] <= g.accepted[w][u] /\ g.accepted[w][u] <= Len(g.log[u])
    <3>1. CASE w = v /\ u = t
      BY <1>1, <1>2, <3>1
    <3>2. CASE w # v
      <4>1. AcceptsOK(h, T) /\ h.accepted[w][u] # -1
        BY <1>2, <2>1, <3>2 DEF HistoryOK
      <4>2. /\ u \in h.elected /\ u <= h.last[w]
            /\ h.base[u] <= h.accepted[w][u] /\ h.accepted[w][u] <= Len(h.log[u])
        BY <4>1 DEF AcceptsOK
      <4> QED BY <1>2, <3>2, <4>2
    <3>3. CASE w = v /\ u # t
      <4>1. /\ u \in h.elected /\ u <= h.last[v]
            /\ h.base[u] <= h.accepted[v][u] /\ h.accepted[v][u] <= Len(h.log[u])
        <5>1. AcceptsOK(h, T) /\ h.accepted[v][u] # -1
          BY <1>2, <2>1, <3>3 DEF HistoryOK
        <5> QED BY <5>1 DEF AcceptsOK
      <4> QED BY <1>1, <1>2, <1>5, <3>3, <4>1
    <3> QED BY <3>1, <3>2, <3>3
  <2>2. ASSUME NEW w \in Servers PROVE g.accepted[w][g.last[w]] # -1 /\ g.last[w] <= T[w]
    <3>1. CASE w = v
      BY <1>1, <1>2, <3>1
    <3>2. CASE w # v
      <4>1. h.last[w] \in Nat
        BY <1>1, LogTypes
      <4>2. AcceptsOK(h, T)
        BY DEF HistoryOK
      <4>3. h.accepted[w][h.last[w]] # -1 /\ h.last[w] <= T[w]
        BY <4>2 DEF AcceptsOK
      <4> QED BY <1>2, <3>2, <4>1, <4>3
    <3> QED BY <3>1, <3>2
  <2> QED BY <2>1, <2>2 DEF AcceptsOK
<1>7. VotesOK(g, T)
  <2>1. ASSUME NEW w \in Servers, NEW u \in Nat, g.vote[w][u] # Nil
        PROVE  /\ u <= T[w]
               /\ u \notin g.elected =>
                    /\ g.seen[w][u] < u /\ g.accepted[w][g.seen[w][u]] # -1
                    /\ \A b \in Nat : g.seen[w][u] < b /\ b < u => g.accepted[w][b] = -1
    <3>1. /\ u <= T[w]
          /\ u \notin h.elected =>
               /\ h.seen[w][u] < u /\ h.accepted[w][h.seen[w][u]] # -1
               /\ \A b \in Nat : h.seen[w][u] < b /\ b < u => h.accepted[w][b] = -1
      <4>1. VotesOK(h, T) /\ h.vote[w][u] # Nil
        BY <1>2, <2>1 DEF HistoryOK
      <4> QED BY <4>1 DEF VotesOK
    <3>2. \A b \in Nat : b < u => g.accepted[w][b] = h.accepted[w][b]
      BY <1>1, <1>2, <3>1
    <3>3. h.seen[w][u] \in Nat
      BY <1>1, LogTypes
    <3> QED BY <1>2, <3>1, <3>2, <3>3
  <2> QED BY <1>2, <2>1 DEF HistoryOK, VotesOK
<1>8. \A s \in Nat, k \in Nat : Choosable(g, T, s, k) => Choosable(h, T, s, k)
  <2>1. \A w \in Servers, s \in Nat, k \in Nat :
           g.accepted[w][s] >= k \/ T[w] <= s => h.accepted[w][s] >= k \/ T[w] <= s
    BY <1>1, <1>2
  <2> QED BY <2>1 DEF Choosable
<1>9. LaterHave(g, T)
  <2>1. \A s \in h.elected : \A k \in 1..Len(h.log[s]) : s \in Nat /\ k \in Nat
    BY <1>1, LogTypes
  <2> QED BY <1>2, <1>8, <2>1 DEF HistoryOK, LaterHave
<1> QED BY <1>1, <1>2, <1>4, <1>6, <1>7, <1>9 DEF HistoryOK

\* The leader of a term appends to its log.  No entry it appends may be chosen once
\* a later term has a leader: a quorum has left the term behind.
LEMMA AppendKeepsHistory ==
    ASSUME NEW h, NEW T, HistoryOK(h, T), NEW i \in Servers, NEW t \in Nat, T[i] = t,
           t \in h.elected, h.head[t] = i, h.last[i] = t, h.accepted[i][t] = Len(h.log[t]),
           NEW e \in Entries, e.term = t, NEW g, AppendStep(h, g, i, t, e)
    PROVE  HistoryOK(g, T)
<1>1. h \in Histories /\ T \in [Servers -> Nat] /\ LogsMatch(h)
  BY DEF HistoryOK
<1>2. /\ g \in Histories
      /\ g.elected = h.elected /\ g.head = h.head /\ g.base = h.base
      /\ g.last = h.last /\ g.vote = h.vote /\ g.seen = h.seen
      /\ g.log[t] = Append(h.log[t], e)
      /\ \A u \in Nat : u # t => g.log[u] = h.log[u]
      /\ g.accepted[i][t] = h.accepted[i][t] + 1
      /\ \A w \in Servers, u \in Nat : w # i \/ u # t => g.accepted[w][u] = h.accepted[w][u]
  BY DEF AppendStep
<1>3. PICK L \in Nat : L = Len(h.log[t])
  BY <1>1, LogTypes
<1>4. /\ Len(g.log[t]) = L + 1 /\ g.log[t][L + 1] = e
      /\ \A k \in 1..L : g.log[t][k] = h.log[t][k]
  <2>1. h.log[t] \in Seq(Entries) /\ g.log[t] = Append(h.log[t], e)
    BY <1>1, <1>2, LogTypes
  <2>2. \A s \in Seq(Entries) : /\ Len(Append(s, e)) = Len(s) + 1
                                /\ Append(s, e)[Len(s) + 1] = e
                                /\ \A k \in 1..Len(s) : Append(s, e)[k] = s[k]
    OBVIOUS
  <2> QED BY <1>3, <2>1, <2>2
<1>5. \A u \in h.elected : /\ u \in Nat /\ Len(h.log[u]) \in Nat /\ Len(g.log[u]) \in Nat
                           /\ h.base[u] \in Nat
  BY <1>1, <1>2, LogTypes
<1>6. ASSUME NEW u \in h.elected, NEW k \in 1..Len(h.log[u])
      PROVE  k \in 1..Len(g.log[u]) /\ g.log[u][k] = h.log[u][k]
  <2>1. CASE u = t
    BY <1>3, <1>4, <2>1
  <2>2. CASE u # t
    BY <1>2, <1>5, <2>2
  <2> QED BY <2>1, <2>2
<1>7. ASSUME NEW u \in h.elected, NEW s \in h.elected, NEW k, Agree(h.log[u], h.log[s], k),
             k \in Nat
      PROVE  Agree(g.log[u], g.log[s], k)
  <2>1. k <= Len(g.log[u]) /\ k <= Len(g.log[s])
    <3>1. \A x \in h.elected : Len(h.log[x]) <= Len(g.log[x])
      <4> TAKE x \in h.elected
      <4>1. CASE x = t
        BY <1>3, <1>4, <4>1
      <4>2. CASE x # t
        BY <1>2, <1>5, <4>2
      <4> QED BY <4>1, <4>2
    <3>2. k <= Len(h.log[u]) /\ k <= Len(h.log[s])
      BY <1>7 DEF Agree
    <3>3. /\ Len(h.log[u]) \in Nat /\ Len(g.log[u]) \in Nat /\ Len(h.log[u]) <= Len(g.log[u])
          /\ Len(h.log[s]) \in Nat /\ Len(g.log[s]) \in Nat /\ Len(h.log[s]) <= Len(g.log[s])
      BY <1>5, <3>1
    <3>4. \A a, b, d \in Nat : d <= a /\ a <= b => d <= b
      OBVIOUS
    <3>5. k \in Nat
      BY <1>7
    <3> QED BY <3>2, <3>3, <3>4, <3>5, Zenon
  <2>2. ASSUME NEW n \in 1..k PROVE g.log[u][n] = g.log[s][n]
    <3>1. n \in 1..Len(h.log[u]) /\ n \in 1..Len(h.log[s]) /\ h.log[u][n] = h.log[s][n]
      BY <1>5, <1>7 DEF Agree
    <3> QED BY <1>6, <3>1
  <2> QED BY <2>1, <2>2 DEF Agree
<1>8. LogsMatch(g)
  <2>1. 0 \in g.elected /\ g.log[0] = <<>>
    <3>1. h.head[0] = Nil
      BY DEF HistoryOK, VotesOK
    <3>2. t # 0
      BY <3>1, ServersAreNot0
    <3> QED BY <1>1, <1>2, <3>2 DEF LogsMatch
  <2>2. ASSUME NEW u \in h.elected PROVE h.base[u] <= Len(g.log[u])
    <3>1. h.base[u] <= Len(h.log[u])
      BY <1>1 DEF LogsMatch
    <3>2. CASE u = t
      BY <1>3, <1>4, <1>5, <3>1, <3>2
    <3>3. CASE u # t
      BY <1>2, <1>5, <3>1, <3>3
    <3> QED BY <3>2, <3>3
  <2>3. ASSUME NEW u \in h.elected, NEW k \in 1..Len(g.log[u])
        PROVE  LET s == g.log[u][k].term
               IN /\ s \in h.elected
                  /\ IF k <= h.base[u] THEN s < u ELSE s = u
                  /\ Agree(g.log[u], g.log[s], k)
    <3>1. CASE k \in 1..Len(h.log[u])
      <4>1. g.log[u][k] = h.log[u][k]
        BY <1>6, <3>1
      <4>2. PICK s \in h.elected :
               /\ s = h.log[u][k].term /\ IF k <= h.base[u] THEN s < u ELSE s = u
               /\ Agree(h.log[u], h.log[s], k)
        <5>1. \A m \in 1..Len(h.log[u]) :
                 LET r == h.log[u][m].term
                 IN /\ r \in h.elected
                    /\ IF m <= h.base[u] THEN r < u ELSE r = u
                    /\ Agree(h.log[u], h.log[r], m)
          BY <1>1 DEF LogsMatch
        <5> QED BY <3>1, <5>1
      <4>3. Agree(g.log[u], g.log[s], k)
        BY <1>7, <4>2, k \in Nat
      <4>4. g.log[u][k].term = s
        BY <4>1, <4>2
      <4> QED BY <4>2, <4>3, <4>4
    <3>2. CASE ~(k \in 1..Len(h.log[u]))
      <4>1. u = t /\ k = L + 1
        <5>1. u = t
          BY <1>2, <1>5, <3>2
        <5>2. k \in 1..L + 1 /\ ~(k \in 1..L)
          BY <5>1, <1>3, <1>4, <3>2
        <5> QED BY <1>3, <5>1, <5>2
      <4>2. g.log[u][k].term = t
        BY <1>4, <4>1
      <4>3. ~(k <= h.base[u])
        <5>1. h.base[t] <= L
          BY <1>1, <1>3 DEF LogsMatch
        <5> QED BY <1>5, <4>1, <5>1
      <4>4. Agree(g.log[t], g.log[t], k)
        BY <1>4, <4>1 DEF Agree
      <4> QED BY <4>1, <4>2, <4>3, <4>4
    <3> QED BY <3>1, <3>2
  <2> QED BY <1>2, <2>1, <2>2, <2>3 DEF LogsMatch
<1>9. AcceptsOK(g, T)
  <2>1. ASSUME NEW w \in Servers, NEW u \in Nat, g.accepted[w][u] # -1
        PROVE  /\ u \in g.elected /\ u <= g.last[w]
               /\ g.base[u] <= g.accepted[w][u] /\ g.accepted[w][u] <= Len(g.log[u])
    <3>1. CASE w = i /\ u = t
      <4>1. h.base[t] <= L
        BY <1>1, <1>3 DEF LogsMatch
      <4> QED BY <1>2, <1>3, <1>4, <1>5, <3>1, <4>1
    <3>2. CASE ~(w = i /\ u = t)
      <4>1. g.accepted[w][u] = h.accepted[w][u]
        BY <1>2, <3>2
      <4>2. /\ u \in h.elected /\ u <= h.last[w]
            /\ h.base[u] <= h.accepted[w][u] /\ h.accepted[w][u] <= Len(h.log[u])
        <5>1. AcceptsOK(h, T) /\ h.accepted[w][u] # -1
          BY <2>1, <4>1 DEF HistoryOK
        <5> QED BY <5>1 DEF AcceptsOK
      <4>3. h.accepted[w][u] \in Nat \cup {-1}
        BY <1>1, LogTypes
      <4>4. CASE u = t
        BY <1>2, <1>3, <1>4, <4>1, <4>2, <4>3, <4>4
      <4>5. CASE u # t
        BY <1>2, <4>1, <4>2, <4>5
      <4> QED BY <4>4, <4>5
    <3> QED BY <3>1, <3>2
  <2>2. ASSUME NEW w \in Servers PROVE g.accepted[w][g.last[w]] # -1 /\ g.last[w] <= T[w]
    <3>1. h.accepted[w][h.last[w]] # -1 /\ h.last[w] <= T[w]
      <4>1. AcceptsOK(h, T)
        BY DEF HistoryOK
      <4> QED BY <4>1 DEF AcceptsOK
    <3>2. CASE w = i
      BY <1>2, <1>3, <3>1, <3>2
    <3>3. CASE w # i
      <4>1. h.last[w] \in Nat
        BY <1>1, LogTypes
      <4> QED BY <1>2, <3>1, <3>3, <4>1
    <3> QED BY <3>2, <3>3
  <2> QED BY <2>1, <2>2 DEF AcceptsOK
<1>10. VotesOK(g, T)
  <2>1. ASSUME NEW w \in Servers, NEW u \in Nat, g.vote[w][u] # Nil
        PROVE  /\ u <= T[w]
               /\ u \notin g.elected =>
                    /\ g.seen[w][u] < u /\ g.accepted[w][g.seen[w][u]] # -1
                    /\ \A b \in Nat : g.seen[w][u] < b /\ b < u => g.accepted[w][b] = -1
    <3>1. /\ u <= T[w]
          /\ u \notin h.elected =>
               /\ h.seen[w][u] < u /\ h.accepted[w][h.seen[w][u]] # -1
               /\ \A b \in Nat : h.seen[w][u] < b /\ b < u => h.accepted[w][b] = -1
      <4>1. VotesOK(h, T) /\ h.vote[w][u] # Nil
        BY <1>2, <2>1 DEF HistoryOK
      <4> QED BY <4>1 DEF VotesOK
    <3>2. \A b \in Nat : b < u => g.accepted[w][b] = h.accepted[w][b]
      BY <1>1, <1>2, <3>1
    <3>3. h.seen[w][u] \in Nat
      BY <1>1, LogTypes
    <3> QED BY <1>2, <3>1, <3>2, <3>3
  <2> QED BY <1>2, <2>1, SMTT(30) DEF HistoryOK, VotesOK
<1>11. ASSUME NEW s \in h.elected, NEW n \in Nat, s # t, Choosable(g, T, s, n)
       PROVE  Choosable(h, T, s, n)
  <2>1. \A w \in Servers : g.accepted[w][s] = h.accepted[w][s]
    BY <1>2, <1>5, <1>11
  <2> QED BY <1>11, <2>1 DEF Choosable
<1>12. LaterHave(g, T)
  <2> SUFFICES ASSUME NEW s \in h.elected, NEW u \in h.elected, NEW n \in 1..Len(g.log[s]),
                      s < u, g.log[s][n].term = s, Choosable(g, T, s, n)
               PROVE  n <= h.base[u] /\ Agree(g.log[u], g.log[s], n)
    BY <1>2 DEF LaterHave
  <2>1. n \in Nat
    BY <1>5
  <2>2. ASSUME n \in 1..Len(h.log[s]), Choosable(h, T, s, n)
        PROVE  n <= h.base[u] /\ Agree(g.log[u], g.log[s], n)
    <3>1. h.log[s][n].term = s
      BY <1>6, <2>2
    <3>2. n <= h.base[u] /\ Agree(h.log[u], h.log[s], n)
      BY <2>2, <3>1 DEF HistoryOK, LaterHave
    <3> QED BY <1>7, <2>1, <3>2
  <2>3. CASE s # t
    BY <1>2, <1>5, <1>11, <2>1, <2>2, <2>3
  <2>4. CASE s = t
    <3>1. PICK Q \in SUBSET Servers :
             IsQuorum(Q) /\ \A w \in Q : g.accepted[w][t] >= n \/ T[w] <= t
      BY <2>4 DEF Choosable
    <3>2. PICK R \in SUBSET Servers :
             IsQuorum(R) /\ \A w \in R : h.vote[w][u] # Nil
      <4>1. u \in h.elected \ {0}
        BY <1>5
      <4> QED BY <4>1 DEF HistoryOK, VotesOK
    <3>3. PICK w \in Servers : w \in Q /\ w \in R
      BY <3>1, <3>2, QuorumsMeet
    <3>4. u <= T[w] /\ T[w] \in Nat
      BY <1>1, <1>5, <3>2, <3>3 DEF HistoryOK, VotesOK
    <3>5. w # i /\ g.accepted[w][t] >= n
      BY <1>5, <2>4, <3>1, <3>3, <3>4
    <3>6. h.accepted[w][t] >= n /\ h.accepted[w][t] \in Nat
      <4>1. h.accepted[w][t] \in Nat \cup {-1}
        BY <1>1, LogTypes
      <4> QED BY <1>2, <2>1, <3>5, <4>1
    <3>7. h.accepted[w][t] <= L
      BY <1>3, <3>6 DEF HistoryOK, AcceptsOK
    <3>8. n \in 1..Len(h.log[s])
      BY <1>3, <2>1, <2>4, <3>6, <3>7
    <3>9. Choosable(h, T, s, n)
      <4>1. ASSUME NEW x \in Q PROVE h.accepted[x][t] >= n \/ T[x] <= t
        <5>1. CASE x = i
          BY <5>1
        <5>2. CASE x # i
          BY <1>2, <3>1, <5>2
        <5> QED BY <5>1, <5>2
      <4> QED BY <2>4, <3>1, <4>1 DEF Choosable
    <3> QED BY <2>2, <3>8, <3>9
  <2> QED BY <2>3, <2>4
<1> QED BY <1>1, <1>2, <1>8, <1>9, <1>10, <1>12 DEF HistoryOK

\* A new leader has the votes of a quorum, each from a server whose log before the
\* term was no more up to date than that of the leader.  Hence what an earlier term
\* may choose is in the log of the new leader: a voter that has accepted it has it
\* still, because the leaders it has followed since had it, and the log of the new
\* leader is either longer than the voter's in the same term or ends in a later
\* term, whose leader had it.
LEMMA ElectKeepsHistory ==
    ASSUME NEW h, NEW T, HistoryOK(h, T), NEW i \in Servers, NEW t \in Nat \ {0}, T[i] = t,
           t \notin h.elected, NEW q \in Seq(Entries), Len(q) = h.accepted[i][h.last[i]],
           Agree(q, h.log[h.last[i]], Len(q)),
           NEW Q \in SUBSET Servers, IsQuorum(Q),
           \A v \in Q : h.vote[v][t] = i /\ UpToDateWith(q, h, v, t),
           NEW g, ElectStep(h, g, i, t, q)
    PROVE  HistoryOK(g, T)
<1>1. h \in Histories /\ T \in [Servers -> Nat] /\ LogsMatch(h)
  BY DEF HistoryOK
<1>2. /\ g \in Histories
      /\ g.elected = h.elected \cup {t} /\ g.vote = h.vote /\ g.seen = h.seen
      /\ g.head[t] = i /\ g.log[t] = q /\ g.base[t] = Len(q)
      /\ \A u \in Nat : u # t => /\ g.head[u] = h.head[u] /\ g.log[u] = h.log[u]
                                /\ g.base[u] = h.base[u]
      /\ g.accepted[i][t] = Len(q) /\ g.last[i] = t
      /\ \A w \in Servers, u \in Nat : w # i \/ u # t => g.accepted[w][u] = h.accepted[w][u]
      /\ \A w \in Servers : w # i => g.last[w] = h.last[w]
  BY DEF ElectStep
<1>3. /\ h.elected \subseteq Nat
      /\ \A u \in h.elected : /\ u \in Nat /\ u # t
                              /\ g.head[u] = h.head[u] /\ g.log[u] = h.log[u] /\ g.base[u] = h.base[u]
                              /\ h.log[u] \in Seq(Entries) /\ Len(h.log[u]) \in Nat /\ h.base[u] \in Nat
  BY <1>1, <1>2, LogTypes
<1>4. PICK a \in h.elected : a = h.last[i] /\ a < t
  <2>1. h.last[i] \in Nat /\ h.last[i] <= t /\ h.accepted[i][h.last[i]] # -1
    BY <1>1, LogTypes DEF HistoryOK, AcceptsOK
  <2>2. h.last[i] \in h.elected
    BY <2>1 DEF HistoryOK, AcceptsOK
  <2> QED BY <2>1, <2>2
<1>5. PICK m \in Nat : m = Len(q)
  OBVIOUS
<1>6. \A k \in 1..m : k \in 1..Len(h.log[a]) /\ q[k] = h.log[a][k]
  <2>1. Agree(q, h.log[a], m)
    BY <1>4, <1>5
  <2>2. Len(h.log[a]) \in Nat
    BY <1>3
  <2> QED BY <2>1, <2>2 DEF Agree
\* The log of the new leader is made of prefixes of earlier logs.
<1>7. ASSUME NEW k \in 1..m
      PROVE  LET s == q[k].term
             IN /\ s \in h.elected /\ s \in Nat \ {0} /\ s < t
                /\ Agree(q, h.log[s], k) /\ h.base[s] < k
  <2>1. k \in 1..Len(h.log[a]) /\ q[k].term = h.log[a][k].term
    BY <1>6
  <2>2. PICK s \in h.elected : /\ s = h.log[a][k].term /\ s \in Nat \ {0} /\ s <= a
                                /\ Agree(h.log[a], h.log[s], k) /\ h.base[s] < k
    BY <1>1, <2>1, TermOfEntry
  <2>3. Agree(q, h.log[s], k)
    <3>1. Agree(q, h.log[a], k)
      BY <1>3, <1>5, <1>6 DEF Agree
    <3>2. k \in Nat /\ h.log[a] \in Seq(Entries) /\ h.log[s] \in Seq(Entries)
      <4>1. \A r \in h.elected : h.log[r] \in Seq(Entries)
        BY <1>3, Zenon
      <4> QED BY <4>1
    <3>3. \A r \in Seq(Entries), n \in Nat : n <= k /\ Agree(h.log[a], r, n) => Agree(q, r, n)
      BY <1>5, <3>1, <3>2, AgreeRules
    <3>4. Agree(h.log[a], h.log[s], k) /\ k <= k
      BY <2>2, <3>2
    <3> QED BY <3>2, <3>3, <3>4
  <2>4. s < t
    <3>1. \A u \in h.elected : u <= a => u < t
      BY <1>3, <1>4
    <3> QED BY <2>2, <3>1
  <2>5. q[k].term = s
    BY <2>1, <2>2
  <2> QED BY <2>2, <2>3, <2>4, <2>5
<1>8. LogsMatch(g)
  <2>1. 0 \in g.elected /\ g.log[0] = <<>>
    BY <1>2, <1>3 DEF HistoryOK, LogsMatch
  <2>2. ASSUME NEW u \in h.elected
        PROVE  /\ g.base[u] <= Len(g.log[u])
               /\ \A k \in 1..Len(g.log[u]) :
                     LET s == g.log[u][k].term
                     IN /\ s \in g.elected
                        /\ IF k <= g.base[u] THEN s < u ELSE s = u
                        /\ Agree(g.log[u], g.log[s], k)
    <3>1. h.base[u] <= Len(h.log[u])
      BY <1>1 DEF LogsMatch
    <3>2. ASSUME NEW k \in 1..Len(h.log[u])
          PROVE  LET s == h.log[u][k].term
                 IN /\ s \in g.elected
                    /\ IF k <= h.base[u] THEN s < u ELSE s = u
                    /\ Agree(h.log[u], g.log[s], k)
      <4>1. PICK s \in h.elected : /\ s = h.log[u][k].term
                                   /\ IF k <= h.base[u] THEN s < u ELSE s = u
                                   /\ Agree(h.log[u], h.log[s], k)
        BY <1>1 DEF LogsMatch
      <4>2. g.log[s] = h.log[s] /\ s \in g.elected
        BY <1>2, <1>3, <4>1
      <4>3. Agree(h.log[u], g.log[s], k)
        BY <4>1, <4>2
      <4> QED BY <4>1, <4>2, <4>3
    <3>3. g.base[u] = h.base[u] /\ g.log[u] = h.log[u]
      BY <1>3
    <3> QED BY <3>1, <3>2, <3>3
  <2>3. /\ g.base[t] <= Len(g.log[t])
        /\ \A k \in 1..Len(g.log[t]) :
              LET s == g.log[t][k].term
              IN /\ s \in g.elected
                 /\ IF k <= g.base[t] THEN s < t ELSE s = t
                 /\ Agree(g.log[t], g.log[s], k)
    <3>1. ASSUME NEW k \in 1..m
          PROVE  LET s == q[k].term
                 IN s \in g.elected /\ s < t /\ k <= m /\ Agree(q, g.log[s], k)
      <4>1. PICK s \in h.elected : s = q[k].term /\ s < t /\ Agree(q, h.log[s], k)
        BY <1>7
      <4>2. g.log[s] = h.log[s] /\ s \in g.elected
        BY <1>2, <1>3, <4>1
      <4>3. Agree(q, g.log[s], k)
        BY <4>1, <4>2
      <4>4. k <= m
        BY <1>5
      <4> QED BY <4>1, <4>2, <4>3, <4>4
    <3>2. g.log[t] = q /\ g.base[t] = m /\ m \in Nat /\ Len(q) = m
      BY <1>2, <1>5
    <3> QED BY <3>1, <3>2
  <2>4. ASSUME NEW u \in g.elected
        PROVE  /\ g.base[u] <= Len(g.log[u])
               /\ \A k \in 1..Len(g.log[u]) :
                     LET s == g.log[u][k].term
                     IN /\ s \in g.elected
                        /\ IF k <= g.base[u] THEN s < u ELSE s = u
                        /\ Agree(g.log[u], g.log[s], k)
    <3>1. CASE u = t
      BY <2>3, <3>1
    <3>2. CASE u # t
      <4>1. u \in h.elected
        BY <1>2, <3>2
      <4> QED BY <2>2, <4>1
    <3> QED BY <3>1, <3>2
  <2> QED BY <2>1, <2>4 DEF LogsMatch
<1>9. AcceptsOK(g, T)
  <2>1. ASSUME NEW w \in Servers, NEW u \in Nat, g.accepted[w][u] # -1
        PROVE  /\ u \in g.elected /\ u <= g.last[w]
               /\ g.base[u] <= g.accepted[w][u] /\ g.accepted[w][u] <= Len(g.log[u])
    <3>1. CASE w = i /\ u = t
      BY <1>2, <1>5, <3>1
    <3>2. CASE ~(w = i /\ u = t)
      <4>1. g.accepted[w][u] = h.accepted[w][u]
        BY <1>2, <3>2
      <4>2. /\ u \in h.elected /\ u <= h.last[w]
            /\ h.base[u] <= h.accepted[w][u] /\ h.accepted[w][u] <= Len(h.log[u])
        <5>1. AcceptsOK(h, T) /\ h.accepted[w][u] # -1
          BY <2>1, <4>1 DEF HistoryOK
        <5> QED BY <5>1 DEF AcceptsOK
      <4>3. u <= g.last[w]
        BY <1>2, <1>3, <1>4, <4>2
      <4> QED BY <1>2, <1>3, <4>1, <4>2, <4>3
    <3> QED BY <3>1, <3>2
  <2>2. ASSUME NEW w \in Servers PROVE g.accepted[w][g.last[w]] # -1 /\ g.last[w] <= T[w]
    <3>1. h.accepted[w][h.last[w]] # -1 /\ h.last[w] <= T[w]
      <4>1. AcceptsOK(h, T)
        BY DEF HistoryOK
      <4> QED BY <4>1 DEF AcceptsOK
    <3>2. CASE w = i
      BY <1>2, <1>5, <3>2
    <3>3. CASE w # i
      <4>1. h.last[w] \in Nat
        BY <1>1, LogTypes
      <4> QED BY <1>2, <3>1, <3>3, <4>1
    <3> QED BY <3>2, <3>3
  <2> QED BY <2>1, <2>2 DEF AcceptsOK
<1>10. VotesOK(g, T)
  <2>1. ASSUME NEW w \in Servers, NEW u \in Nat, g.vote[w][u] # Nil
        PROVE  /\ u <= T[w]
               /\ u \notin g.elected =>
                    /\ g.seen[w][u] < u /\ g.accepted[w][g.seen[w][u]] # -1
                    /\ \A b \in Nat : g.seen[w][u] < b /\ b < u => g.accepted[w][b] = -1
    <3>1. /\ u <= T[w]
          /\ u \notin h.elected =>
               /\ h.seen[w][u] < u /\ h.accepted[w][h.seen[w][u]] # -1
               /\ \A b \in Nat : h.seen[w][u] < b /\ b < u => h.accepted[w][b] = -1
      <4>1. VotesOK(h, T) /\ h.vote[w][u] # Nil
        BY <1>2, <2>1 DEF HistoryOK
      <4> QED BY <4>1 DEF VotesOK
    <3>2. \A b \in Nat : b < u => g.accepted[w][b] = h.accepted[w][b]
      BY <1>1, <1>2, <3>1, SMTT(30)
    <3>3. h.seen[w][u] \in Nat
      BY <1>1, LogTypes
    <3> QED BY <1>2, <3>1, <3>2, <3>3
  <2>2. ASSUME NEW u \in g.elected \ {0}
        PROVE  \E R \in SUBSET Servers :
                  IsQuorum(R) /\ \A w \in R : g.vote[w][u] # Nil /\ g.vote[w][u] = g.head[u]
    <3>1. CASE u = t
      BY <1>2, <3>1, ServersAreNot0
    <3>2. CASE u # t
      <4>1. u \in h.elected \ {0} /\ g.head[u] = h.head[u] /\ VotesOK(h, T)
        BY <1>2, <1>3, <3>2 DEF HistoryOK
      <4>2. PICK R \in SUBSET Servers :
               IsQuorum(R) /\ \A w \in R : h.vote[w][u] # Nil /\ h.vote[w][u] = h.head[u]
        BY <4>1 DEF VotesOK
      <4> QED BY <1>2, <4>1, <4>2
    <3> QED BY <3>1, <3>2
  <2>3. g.head[0] = Nil
    BY <1>2 DEF HistoryOK, VotesOK
  <2> QED BY <2>1, <2>2, <2>3 DEF VotesOK
<1>11. ASSUME NEW s \in h.elected, NEW n \in Nat, Choosable(g, T, s, n)
       PROVE  Choosable(h, T, s, n)
  <2>1. \A w \in Servers : g.accepted[w][s] = h.accepted[w][s]
    BY <1>2, <1>3
  <2> QED BY <1>11, <2>1 DEF Choosable
\* The heart of the matter: the new leader has what may be chosen.
<1>12. ASSUME NEW s \in h.elected, NEW n \in 1..Len(h.log[s]), s < t,
              h.log[s][n].term = s, Choosable(h, T, s, n)
       PROVE  n <= m /\ Agree(q, h.log[s], n)
  <2>1. PICK R \in SUBSET Servers :
           IsQuorum(R) /\ \A w \in R : h.accepted[w][s] >= n \/ T[w] <= s
    BY <1>12 DEF Choosable
  <2>2. PICK v \in Servers : v \in Q /\ v \in R
    BY <2>1, QuorumsMeet
  <2>3. PICK b \in Nat : b = h.seen[v][t]
    BY <1>1, LogTypes
  <2>4. PICK x \in Nat \cup {-1} : x = h.accepted[v][b]
    BY <1>1, LogTypes
  <2>5. /\ t <= T[v] /\ b < t /\ x # -1
        /\ \A c \in Nat : b < c /\ c < t => h.accepted[v][c] = -1
    <3>1. VotesOK(h, T) /\ t \in Nat /\ t \notin h.elected /\ h.vote[v][t] # Nil
      BY <2>2, ServersAreNot0 DEF HistoryOK
    <3>2. /\ t <= T[v] /\ h.seen[v][t] < t /\ h.accepted[v][h.seen[v][t]] # -1
          /\ \A c \in Nat : h.seen[v][t] < c /\ c < t => h.accepted[v][c] = -1
      BY <3>1 DEF VotesOK
    <3> QED BY <2>3, <2>4, <3>2
  <2>6. s \in Nat /\ n \in Nat /\ h.accepted[v][s] >= n /\ h.accepted[v][s] \in Nat
    <3>1. h.accepted[v][s] >= n
      BY <1>1, <1>3, <1>12, <2>1, <2>2, <2>5
    <3> QED BY <1>1, <1>3, <3>1, LogTypes
  <2>7. s <= b
    BY <1>12, <2>5, <2>6
  <2>8. b \in h.elected /\ h.base[b] <= x /\ x <= Len(h.log[b])
    BY <2>4, <2>5 DEF HistoryOK, AcceptsOK
  \* The voter still had the entries when it voted.
  <2>9. n <= x /\ Agree(h.log[b], h.log[s], n)
    <3>1. CASE s = b
      BY <1>12, <2>4, <2>6, <3>1 DEF Agree
    <3>2. CASE s # b
      <4>1. s < b
        BY <2>6, <2>7, <3>2
      <4>2. n <= h.base[b] /\ Agree(h.log[b], h.log[s], n)
        BY <1>12, <2>8, <4>1 DEF HistoryOK, LaterHave
      <4> QED BY <1>3, <2>5, <2>6, <2>8, <4>2
    <3> QED BY <3>1, <3>2
  <2>10. x \in 1..Len(h.log[b]) /\ n \in 1..x
    BY <1>3, <2>6, <2>8, <2>9
  <2>11. PICK y \in Nat : y = h.log[b][x].term
    <3>1. h \in Histories /\ b \in Nat
      BY <1>1, <1>3, <2>8
    <3>2. h.log[b][x].term \in Nat
      BY <2>10, <3>1, LogTypes
    <3> QED BY <3>2
  <2>12. s <= y
    <3>1. h.log[b][n].term <= y
      BY <1>1, <2>8, <2>10, <2>11, TermsGrow
    <3>2. h.log[b][n] = h.log[s][n]
      BY <2>9, <2>10 DEF Agree
    <3> QED BY <1>12, <3>1, <3>2
  <2>13. y \in h.elected /\ y # 0 /\ Agree(h.log[b], h.log[y], x)
    BY <1>1, <2>8, <2>10, <2>11, TermOfEntry
  <2>14. y < LastTerm(q) \/ (y = LastTerm(q) /\ x <= m)
    <3>1. UpToDateWith(q, h, v, t) /\ x # 0
      BY <2>2, <2>10
    <3> QED BY <1>5, <2>3, <2>4, <2>11, <3>1 DEF UpToDateWith
  <2>15. m # 0 /\ LastTerm(q) = q[m].term
    <3>1. CASE m = 0
      <4>1. q = <<>>
        BY <1>5, <3>1
      <4> QED BY <2>11, <2>13, <2>14, <4>1 DEF LastTerm
    <3>2. CASE m # 0
      <4>1. q # <<>>
        BY <1>5, <3>2
      <4> QED BY <1>5, <3>2, <4>1 DEF LastTerm
    <3> QED BY <3>1, <3>2
  <2>16. PICK z \in h.elected : /\ z = q[m].term /\ z < t
                                /\ Agree(q, h.log[z], m) /\ h.base[z] < m
    <3>1. m \in 1..m
      BY <1>5, <2>15
    <3> QED BY <1>7, <3>1
  <2>17. /\ h.log[s] \in Seq(Entries) /\ h.log[b] \in Seq(Entries)
         /\ h.log[z] \in Seq(Entries) /\ h.base[z] \in Nat
    BY <1>3, <2>8, <2>16
  <2>18. CASE y = z
    <3>1. x \in Nat /\ n <= x /\ x <= m
      <4>1. y = LastTerm(q)
        BY <2>15, <2>16, <2>18
      <4>2. x <= m
        BY <2>11, <2>14, <4>1
      <4>3. x \in Nat
        BY <2>4, <2>5
      <4> QED BY <2>9, <4>2, <4>3
    <3>2. n <= m
      BY <2>6, <3>1
    <3>3. Agree(h.log[z], h.log[b], x)
      <4>1. Agree(h.log[b], h.log[z], x)
        BY <2>13, <2>18
      <4> QED BY <2>17, <3>1, <4>1, AgreeRules
    <3>4. Agree(q, h.log[z], n) /\ Agree(h.log[z], h.log[b], n)
      <4>1. Agree(q, h.log[z], n)
        BY <2>6, <2>16, <2>17, <3>2, AgreeRules
      <4> QED BY <2>6, <2>17, <3>1, <3>3, <4>1, AgreeRules
    <3>5. Agree(q, h.log[b], n)
      <4>1. n <= n
        BY <2>6
      <4> QED BY <2>6, <2>17, <3>4, <4>1, AgreeRules
    <3>6. Agree(q, h.log[s], n)
      <4>1. n <= n
        BY <2>6
      <4> QED BY <2>6, <2>9, <2>17, <3>5, <4>1, AgreeRules
    <3> QED BY <3>2, <3>6
  <2>19. CASE y # z
    <3>1. s < z
      <4>1. LastTerm(q) = z
        BY <2>15, <2>16
      <4>2. y < z
        BY <2>14, <2>19, <4>1
      <4>3. z \in Nat /\ y \in Nat /\ s \in Nat /\ s <= y
        BY <1>3, <2>6, <2>11, <2>12, <2>16
      <4> QED BY <4>2, <4>3
    <3>2. n <= h.base[z] /\ Agree(h.log[z], h.log[s], n)
      BY <1>12, <2>16, <3>1 DEF HistoryOK, LaterHave
    <3>3. n <= m
      <4>1. PICK w \in Nat : w = h.base[z]
        BY <2>17
      <4>2. n <= w /\ w < m
        BY <2>16, <3>2, <4>1
      <4> QED BY <1>5, <2>6, <4>2
    <3>4. Agree(q, h.log[z], n)
      BY <2>6, <2>16, <2>17, <3>3, AgreeRules
    <3>5. Agree(q, h.log[s], n)
      <4>1. n <= n
        BY <2>6
      <4> QED BY <2>6, <2>17, <3>2, <3>4, <4>1, AgreeRules
    <3> QED BY <3>3, <3>5
  <2> QED BY <2>18, <2>19
<1>13. LaterHave(g, T)
  <2> SUFFICES ASSUME NEW s \in g.elected, NEW u \in g.elected, NEW n \in 1..Len(g.log[s]),
                      s < u, g.log[s][n].term = s, Choosable(g, T, s, n)
               PROVE  n <= g.base[u] /\ Agree(g.log[u], g.log[s], n)
    BY DEF LaterHave
  <2>1. CASE s = t
    <3>1. n \in 1..m /\ q[n].term = t
      BY <1>2, <1>5, <2>1
    <3> QED BY <1>7, <3>1
  <2>2. CASE s # t
    <3>1. s \in h.elected /\ n \in 1..Len(h.log[s]) /\ h.log[s][n].term = s /\ n \in Nat
          /\ g.log[s] = h.log[s]
      BY <1>2, <1>3, <2>2
    <3>2. Choosable(h, T, s, n)
      BY <1>11, <3>1
    <3>3. CASE u = t
      BY <1>2, <1>5, <1>12, <3>1, <3>2, <3>3
    <3>4. CASE u # t
      <4>1. u \in h.elected /\ g.log[u] = h.log[u] /\ g.base[u] = h.base[u]
        BY <1>2, <1>3, <3>4
      <4> QED BY <3>1, <3>2, <4>1 DEF HistoryOK, LaterHave
    <3> QED BY <3>3, <3>4
  <2> QED BY <2>1, <2>2
<1> QED BY <1>1, <1>2, <1>8, <1>9, <1>10, <1>13 DEF HistoryOK

-----------------------------------------------------------------------------
(* Servers *)

\* The log of a server is what it has accepted last.
LogFollows(h, i) ==
    /\ log[i] \in Seq(Entries)
    /\ Len(log[i]) = h.accepted[i][h.last[i]]
    /\ Agree(log[i], h.log[h.last[i]], Len(log[i]))

Leads(h, i) ==
    state[i] = "leader" =>
       /\ currentTerm[i] \in h.elected /\ h.head[currentTerm[i]] = i
       /\ h.last[i] = currentTerm[i] /\ Len(log[i]) = Len(h.log[currentTerm[i]])

\* A quorum has accepted the first n entries of the log of term s, the last of them
\* of that term: they are committed.
Chosen(h, s, n) ==
    /\ s \in h.elected /\ n \in 1..Len(h.log[s]) /\ h.log[s][n].term = s
    /\ \E Q \in SUBSET Servers : IsQuorum(Q) /\ \A v \in Q : h.accepted[v][s] >= n

\* c entries at the start of the log of term t, of n entries, are committed.
CommitAt(h, t, c, n) ==
    /\ c \in Nat
    /\ c # 0 => \E s \in h.elected : \E k \in 1..Len(h.log[s]) :
                   /\ s <= t /\ Chosen(h, s, k) /\ c <= k /\ c <= n
                   /\ Agree(h.log[t], h.log[s], c)

Commits(h, i) ==
    /\ CommitAt(h, h.last[i], commitIndex[i], Len(log[i]))
    /\ CommitAt(h, h.last[i], newCommitIndex[i], Len(log[i]))

\* What a leader knows of the others.
Knows(h, i) ==
    /\ matchIndex[i] \in [Servers -> Nat]
    /\ state[i] = "leader" =>
         /\ \A j \in Servers :
               /\ nextIndex[i][j] <= Len(log[i]) + 1
               /\ matchIndex[i][j] = 0 \/ matchIndex[i][j] <= h.accepted[j][currentTerm[i]]
         /\ \A x \in {commitIndex[i], newCommitIndex[i]} :
               x <= h.base[currentTerm[i]]
               \/ IsQuorum({i} \cup {k \in Servers : matchIndex[i][k] >= x})

ServerOK(h, i) == LogFollows(h, i) /\ Leads(h, i) /\ Commits(h, i) /\ Knows(h, i)

\* A leader of the past is not a candidate of its term again.  Votes are in the
\* history as servers gave them and candidates hold them.
RolesFollow(h) ==
    /\ \A i \in Servers : currentTerm[i] > 0 /\ h.vote[i][currentTerm[i]] = votedFor[i]
    /\ \A t \in h.elected \ {0} :
          /\ t <= currentTerm[h.head[t]]
          /\ t = currentTerm[h.head[t]] => state[h.head[t]] # "candidate"
    /\ \A i, v \in Servers, t \in Nat :
          /\ Holds(v, i, t) => h.vote[v][t] = i
          /\ h.vote[v][t] = i => t <= currentTerm[i]
    /\ \A i, v \in Servers :
          state[i] = "candidate" /\ h.vote[v][currentTerm[i]] = i /\ currentTerm[i] \notin h.elected =>
             UpToDateWith(log[i], h, v, currentTerm[i])

-----------------------------------------------------------------------------
(* Messages *)

\* How far the entries of an append request, or those acknowledged, reach.
IsAck(m) == m.mtype = "app" /\ m.msuccess
Reach(m) == IF m.mtype = "apq" THEN m.mprevLogIndex + Len(m.mentries) ELSE m.mmatchIndex
Carries(m) == m.mtype = "apq" \/ IsAck(m)

VoteRequestOK(m) ==
    m.mtype = "rvq" =>
       /\ m.mterm <= currentTerm[m.msource]
       /\ state[m.msource] = "candidate" /\ m.mterm = currentTerm[m.msource] =>
            m.mlastLogTerm = LastTerm(log[m.msource]) /\ m.mlastLogIndex = Len(log[m.msource])

\* Message m on route r.
AppendRequestOK(h, r, m) ==
    m.mtype = "apq" =>
       LET t == m.mterm
       IN /\ t \in h.elected /\ h.head[t] = m.msource
          /\ r = <<"append", m.msource, r[3]>> /\ r[3] \in Servers \ {m.msource}
          /\ m.mprevLogIndex \in Nat /\ m.mentries \in Seq(Entries)
          /\ h.base[t] <= Reach(m) /\ Reach(m) <= Len(h.log[t])
          /\ \A k \in 1..Len(m.mentries) : m.mentries[k] = h.log[t][m.mprevLogIndex + k]
          /\ m.mprevLogTerm = IF m.mprevLogIndex > 0 THEN h.log[t][m.mprevLogIndex].term ELSE 0
          /\ h.accepted[r[3]][t] <= Reach(m)
          /\ CommitAt(h, t, m.mcommitIndex, Reach(m))

AckOK(h, r, m) ==
    IsAck(m) =>
       /\ r = <<"handle", m.msource, r[3]>> /\ r[3] \in Servers
       /\ m.mmatchIndex \in Nat /\ m.mmatchIndex <= h.accepted[m.msource][m.mterm]
       /\ state[r[3]] = "leader" /\ currentTerm[r[3]] = m.mterm =>
            matchIndex[r[3]][m.msource] <= m.mmatchIndex

MsgOK(h, r, m) == VoteRequestOK(m) /\ AppendRequestOK(h, r, m) /\ AckOK(h, r, m)

MessagesOK(h) == \A c, m : OnConnection(net, c, m) => MsgOK(h, c[1], m)

\* x is before y on the way from one context to another.
Before(n, x, y) ==
    \E c, d \in DOMAIN n : \E p \in DOMAIN n[c], q \in DOMAIN n[d] :
       /\ n[c][p] = x /\ n[d][q] = y /\ c[1] = d[1]
       /\ (c = d /\ p < q) \/ (c[2] = "old" /\ d[2] = "new")

\* Requests of a leader, and the answers to them, reach ever further.
Ordered(x, y) ==
    Carries(x) /\ Carries(y) /\ x.mtype = y.mtype /\ x.mterm = y.mterm => Reach(x) <= Reach(y)

InOrder == \A x, y : Before(net, x, y) => Ordered(x, y)

ConnectionsOK(n) == \A c \in DOMAIN n : c = <<c[1], c[2]>> /\ c[2] \in {"old", "new"}

NetworkOK(h) == MessagesOK(h) /\ InOrder /\ ConnectionsOK(net)

Follows(h) ==
    /\ HistoryOK(h, currentTerm)
    /\ \A i \in Servers : ServerOK(h, i)
    /\ RolesFollow(h)
    /\ NetworkOK(h)

-----------------------------------------------------------------------------
(* The order of messages *)

LEMMA SequenceOf ==
    ASSUME NEW n, IsNetwork(n), NEW c \in DOMAIN n
    PROVE  /\ Len(n[c]) \in Nat \ {0} /\ DOMAIN n[c] = 1..Len(n[c]) /\ Head(n[c]) = n[c][1]
           /\ \E S : n[c] \in Seq(S)
<1>1. PICK S : n[c] \in Seq(S) /\ n[c] # <<>>
  BY DEF IsNetwork
<1> QED BY <1>1

LEMMA TakenIs ==
    ASSUME IsNetwork(net), NEW c \in DOMAIN net
    PROVE  /\ DOMAIN Taken(c) \subseteq DOMAIN net
           /\ \A d \in DOMAIN Taken(c) : d # c => Taken(c)[d] = net[d]
           /\ c \in DOMAIN Taken(c) =>
                 /\ DOMAIN Taken(c)[c] = 1..Len(net[c]) - 1
                 /\ \A k \in 1..Len(net[c]) - 1 : Taken(c)[c][k] = net[c][k + 1]
<1>1. PICK S : net[c] \in Seq(S) /\ net[c] # <<>>
  BY DEF IsNetwork
<1>2. CASE Len(net[c]) > 1
  <2>1. /\ Tail(net[c]) \in Seq(S) /\ Len(Tail(net[c])) = Len(net[c]) - 1
        /\ \A k \in 1..Len(net[c]) - 1 : Tail(net[c])[k] = net[c][k + 1]
    BY <1>1, <1>2
  <2>2. DOMAIN Tail(net[c]) = 1..Len(net[c]) - 1
    BY <2>1
  <2>3. /\ DOMAIN Taken(c) = DOMAIN net
        /\ \A d \in DOMAIN net : Taken(c)[d] = IF d = c THEN Tail(net[c]) ELSE net[d]
    BY <1>2 DEF Taken
  <2> QED BY <2>1, <2>2, <2>3
<1>3. CASE ~(Len(net[c]) > 1)
  <2>1. /\ DOMAIN Taken(c) = DOMAIN net \ {c}
        /\ \A d \in DOMAIN net \ {c} : Taken(c)[d] = net[d]
    BY <1>3 DEF Taken
  <2> QED BY <2>1
<1> QED BY <1>2, <1>3

\* Taking a message changes the order of no two others.
LEMMA TakenOrder ==
    ASSUME IsNetwork(net), NEW c \in DOMAIN net, NEW x, NEW y, Before(Taken(c), x, y)
    PROVE  Before(net, x, y)
<1>1. PICK d, e \in DOMAIN Taken(c) : \E p \in DOMAIN Taken(c)[d], q \in DOMAIN Taken(c)[e] :
         /\ Taken(c)[d][p] = x /\ Taken(c)[e][q] = y /\ d[1] = e[1]
         /\ (d = e /\ p < q) \/ (d[2] = "old" /\ e[2] = "new")
  BY DEF Before
<1>2. PICK p \in DOMAIN Taken(c)[d], q \in DOMAIN Taken(c)[e] :
         /\ Taken(c)[d][p] = x /\ Taken(c)[e][q] = y /\ d[1] = e[1]
         /\ (d = e /\ p < q) \/ (d[2] = "old" /\ e[2] = "new")
  BY <1>1
<1>3. d \in DOMAIN net /\ e \in DOMAIN net
  BY <1>1, TakenIs
<1>4. PICK L \in Nat : L = Len(net[c]) /\ DOMAIN net[c] = 1..L
  BY SequenceOf
<1>5. c \in DOMAIN Taken(c) =>
         /\ DOMAIN Taken(c)[c] = 1..L - 1
         /\ \A k \in 1..L - 1 : k + 1 \in DOMAIN net[c] /\ Taken(c)[c][k] = net[c][k + 1]
  BY <1>4, TakenIs
<1>6. PICK s \in DOMAIN net[d] : net[d][s] = x /\ (s = IF d = c THEN p + 1 ELSE p)
  <2>1. CASE d = c
    BY <1>1, <1>2, <1>5, <2>1
  <2>2. CASE d # c
    BY <1>1, <1>2, <2>2, TakenIs
  <2> QED BY <2>1, <2>2
<1>7. PICK r \in DOMAIN net[e] : net[e][r] = y /\ (r = IF e = c THEN q + 1 ELSE q)
  <2>1. CASE e = c
    BY <1>1, <1>2, <1>5, <2>1
  <2>2. CASE e # c
    BY <1>1, <1>2, <2>2, TakenIs
  <2> QED BY <2>1, <2>2
<1>8. d = e /\ p < q => s < r
  <2>1. CASE d = c
    BY <1>1, <1>2, <1>5, <1>6, <1>7, <2>1
  <2>2. CASE d # c
    BY <1>6, <1>7, <2>2
  <2> QED BY <2>1, <2>2
<1> QED BY <1>2, <1>3, <1>6, <1>7, <1>8 DEF Before

\* A message of the leader's exchange that a reader takes is before all others of its
\* route, kind and term that are left, unless it overtakes one.
LEMMA TakenFirst ==
    ASSUME IsNetwork(net), ConnectionsOK(net), NEW c \in DOMAIN net, ~Overtakes(c),
           NEW d, NEW y, OnConnection(Taken(c), d, y), d[1] = c[1],
           Head(net[c]).mtype \in {"apq", "app"},
           y.mtype = Head(net[c]).mtype, y.mterm = Head(net[c]).mterm
    PROVE  Before(net, Head(net[c]), y)
<1>1. 1 \in DOMAIN net[c] /\ net[c][1] = Head(net[c])
  BY SequenceOf
<1>2. d \in DOMAIN Taken(c) /\ d \in DOMAIN net
  BY TakenIs DEF OnConnection
<1>3. PICK k \in DOMAIN Taken(c)[d] : Taken(c)[d][k] = y
  BY DEF OnConnection
<1>4. CASE d = c
  <2>1. PICK L \in Nat : L = Len(net[c]) /\ DOMAIN net[c] = 1..L
    BY SequenceOf
  <2>2. k \in 1..L - 1 /\ y = net[c][k + 1]
    BY <1>2, <1>3, <1>4, <2>1, TakenIs
  <2>3. k + 1 \in DOMAIN net[c] /\ 1 < k + 1
    BY <2>1, <2>2
  <2> QED BY <1>1, <2>2, <2>3 DEF Before
<1>5. CASE d # c
  <2>1. k \in DOMAIN net[d] /\ net[d][k] = y
    BY <1>2, <1>3, <1>5, TakenIs
  <2>2. c[2] = "old" /\ d[2] = "new"
    <3>1. c = <<c[1], c[2]>> /\ d = <<c[1], d[2]>> /\ {c[2], d[2]} \subseteq {"old", "new"}
      BY <1>2 DEF ConnectionsOK
    <3>2. ~(c[2] = "new" /\ d[2] = "old")
      <4>1. SUFFICES ASSUME c[2] = "new", d[2] = "old" PROVE FALSE
        OBVIOUS
      <4>2. d = <<c[1], "old">> /\ On(net, <<c[1], "old">>) = net[d]
        BY <1>2, <3>1, <4>1 DEF On
      <4>3. k \in DOMAIN On(net, <<c[1], "old">>) /\ net[<<c[1], "old">>][k] = y
        BY <2>1, <4>2
      <4> QED BY <4>1, <4>3 DEF Overtakes
    <3> QED BY <1>2, <1>5, <3>1, <3>2
  <2> QED BY <1>1, <1>2, <2>1, <2>2 DEF Before
<1> QED BY <1>4, <1>5

LEMMA TakenConnections ==
    ASSUME IsNetwork(net), ConnectionsOK(net), NEW c \in DOMAIN net
    PROVE  ConnectionsOK(Taken(c))
BY TakenIs DEF ConnectionsOK

\* Network N is network n with m behind the L messages of connection c.
IsAppended(N, n, c, m, L) ==
    /\ L \in Nat
    /\ DOMAIN N = DOMAIN n \cup {c}
    /\ \A d \in DOMAIN n : d # c => N[d] = n[d]
    /\ DOMAIN N[c] = 1..L + 1 /\ N[c][L + 1] = m
    /\ \A k \in 1..L : c \in DOMAIN n /\ k \in DOMAIN n[c] /\ N[c][k] = n[c][k]

LEMMA WriteIs ==
    ASSUME NEW n, IsNetwork(n), NEW ctx, NEW from, NEW to, NEW m, Write(n, ctx, from, to, m)
    PROVE  IsAppended(net', n, Out(ctx, from, to), m, Len(On(n, Out(ctx, from, to))))
<1> DEFINE c == Out(ctx, from, to)
           q == On(n, c)
<1>1. \E S : q \in Seq(S)
  BY DEF IsNetwork, On
<1>2. PICK S : q \in Seq(S)
  BY <1>1
<1>3. /\ DOMAIN net' = DOMAIN n \cup {c}
      /\ net'[c] = Append(q, m)
      /\ \A d \in DOMAIN n \ {c} : net'[d] = n[d]
  BY DEF Write
<1> DEFINE T == S \cup {m}
<1>4. q \in Seq(T) /\ m \in T
  BY <1>2
<1> HIDE DEF T
<1>5. /\ DOMAIN Append(q, m) = 1..Len(q) + 1 /\ Len(q) \in Nat
      /\ \A k \in 1..Len(q) : Append(q, m)[k] = q[k]
      /\ Append(q, m)[Len(q) + 1] = m
  BY <1>4
<1>6. ASSUME NEW k \in 1..Len(q) PROVE c \in DOMAIN n /\ k \in DOMAIN n[c] /\ q[k] = n[c][k]
  <2>1. q # <<>>
    BY <1>2
  <2>2. c \in DOMAIN n /\ q = n[c]
    BY <2>1 DEF On
  <2>3. DOMAIN q = 1..Len(q)
    BY <1>2
  <2> QED BY <2>2, <2>3
<1> QED BY <1>3, <1>5, <1>6 DEF IsAppended

\* A message that is sent is after those of its route.
LEMMA WriteOrder ==
    ASSUME NEW n, IsNetwork(n), NEW ctx, NEW from, NEW to, NEW m, Write(n, ctx, from, to, m),
           NEW x, NEW y, Before(net', x, y)
    PROVE  \/ Before(n, x, y)
           \/ y = m /\ \E d : d[1] = <<ctx, from, to>> /\ OnConnection(n, d, x)
<1>1. PICK c : c = Out(ctx, from, to) /\ c[1] = <<ctx, from, to>> /\ c[2] = "new"
  <2>1. Out(ctx, from, to)[1] = <<ctx, from, to>> /\ Out(ctx, from, to)[2] = "new"
    BY DEF Out
  <2> QED BY <2>1
<1>2. PICK L \in Nat :
         /\ DOMAIN net' = DOMAIN n \cup {c}
         /\ \A d \in DOMAIN n : d # c => net'[d] = n[d]
         /\ DOMAIN net'[c] = 1..L + 1 /\ net'[c][L + 1] = m
         /\ \A k \in 1..L : c \in DOMAIN n /\ k \in DOMAIN n[c] /\ net'[c][k] = n[c][k]
  <2>1. IsAppended(net', n, Out(ctx, from, to), m, Len(On(n, Out(ctx, from, to))))
    BY WriteIs
  <2>2. PICK L : IsAppended(net', n, c, m, L)
    BY <1>1, <2>1
  <2> QED BY <2>2 DEF IsAppended
<1>3. PICK N : N = net'
  OBVIOUS
<1>4. PICK d, e \in DOMAIN N : \E p \in DOMAIN N[d], q \in DOMAIN N[e] :
         /\ N[d][p] = x /\ N[e][q] = y /\ d[1] = e[1]
         /\ (d = e /\ p < q) \/ (d[2] = "old" /\ e[2] = "new")
  BY <1>3 DEF Before
<1>5. PICK p \in DOMAIN N[d], q \in DOMAIN N[e] :
         /\ N[d][p] = x /\ N[e][q] = y /\ d[1] = e[1]
         /\ (d = e /\ p < q) \/ (d[2] = "old" /\ e[2] = "new")
  BY <1>4
<1>6. d \in DOMAIN n /\ p \in DOMAIN n[d] /\ n[d][p] = x
  <2>1. CASE d = c
    <3>1. d = e /\ p < q
      BY <1>1, <1>5, <2>1
    <3>2. p \in 1..L
      BY <1>2, <1>3, <1>5, <2>1, <3>1
    <3> QED BY <1>2, <1>3, <1>5, <2>1, <3>2
  <2>2. CASE d # c
    BY <1>2, <1>3, <1>5, <2>2
  <2> QED BY <2>1, <2>2
<1>7. CASE e = c /\ q = L + 1
  <2>1. y = m
    BY <1>2, <1>3, <1>5, <1>7
  <2>2. d[1] = <<ctx, from, to>>
    BY <1>1, <1>5, <1>7
  <2> QED BY <1>6, <2>1, <2>2 DEF OnConnection
<1>8. CASE ~(e = c /\ q = L + 1)
  <2>1. e \in DOMAIN n /\ q \in DOMAIN n[e] /\ n[e][q] = y
    <3>1. CASE e = c
      <4>1. q \in 1..L
        BY <1>2, <1>3, <1>5, <1>8, <3>1
      <4> QED BY <1>2, <1>3, <1>5, <3>1, <4>1
    <3>2. CASE e # c
      BY <1>2, <1>3, <1>5, <3>2
    <3> QED BY <3>1, <3>2
  <2> QED BY <1>5, <1>6, <2>1 DEF Before
<1> QED BY <1>7, <1>8

LEMMA WriteConnections ==
    ASSUME NEW n, IsNetwork(n), ConnectionsOK(n), NEW ctx, NEW from, NEW to, NEW m,
           Write(n, ctx, from, to, m)
    PROVE  ConnectionsOK(net')
<1>1. DOMAIN net' = DOMAIN n \cup {Out(ctx, from, to)}
  BY WriteIs DEF IsAppended
<1>2. Out(ctx, from, to) = <<Out(ctx, from, to)[1], Out(ctx, from, to)[2]>>
      /\ Out(ctx, from, to)[2] = "new"
  BY DEF Out
<1> QED BY <1>1, <1>2 DEF ConnectionsOK

\* A connection that breaks is the only one of its route, and what is left of it
\* stays in order.
LEMMA BreakOrder ==
    ASSUME IsNetwork(net), ConnectionsOK(net), NEW r, ConnectionBreaks(r)
    PROVE  /\ \A d, m : OnConnection(net', d, m) =>
                 \E e : e[1] = d[1] /\ OnConnection(net, e, m)
           /\ \A x, y : Before(net', x, y) => Before(net, x, y)
           /\ ConnectionsOK(net')
<1>1. PICK c, old : c = <<r, "new">> /\ old = <<r, "old">>
  OBVIOUS
<1>2. c \in DOMAIN net /\ old \notin DOMAIN net /\ c[1] = old[1]
  BY <1>1 DEF ConnectionBreaks
<1>3. PICK n \in Nat : n <= Len(net[c])
         /\ \/ DOMAIN net' = DOMAIN net \ {c} /\ \A d \in DOMAIN net \ {c} : net'[d] = net[d]
            \/ /\ DOMAIN net' = (DOMAIN net \ {c}) \cup {old}
               /\ \A d \in DOMAIN net \ {c} : net'[d] = net[d]
               /\ DOMAIN net'[old] = 1..n /\ DOMAIN net[c] = 1..Len(net[c])
               /\ \A k \in 1..n : net'[old][k] = net[c][k]
  <2> DEFINE rest == DOMAIN net \ {c}
  <2>1. CASE net' = [d \in rest |-> net[d]]
    <3>1. DOMAIN net' = DOMAIN net \ {c} /\ \A d \in DOMAIN net \ {c} : net'[d] = net[d]
      BY <2>1
    <3>2. 0 <= Len(net[c])
      BY <1>2, SequenceOf
    <3> QED BY <3>1, <3>2
  <2>2. ASSUME NEW n \in 1..Len(net[c]),
               net' = [d \in rest \cup {old} |-> IF d = old THEN SubSeq(net[c], 1, n) ELSE net[d]]
        PROVE  \E k \in Nat : /\ k <= Len(net[c]) /\ DOMAIN net' = rest \cup {old}
                              /\ \A d \in rest : net'[d] = net[d]
                              /\ DOMAIN net'[old] = 1..k /\ DOMAIN net[c] = 1..Len(net[c])
                              /\ \A j \in 1..k : net'[old][j] = net[c][j]
    <3>1. PICK S : net[c] \in Seq(S)
      BY <1>2 DEF IsNetwork
    <3>2. /\ DOMAIN SubSeq(net[c], 1, n) = 1..n /\ DOMAIN net[c] = 1..Len(net[c])
          /\ \A k \in 1..n : SubSeq(net[c], 1, n)[k] = net[c][k]
          /\ n \in Nat /\ n <= Len(net[c])
      BY <2>2, <3>1
    <3>3. /\ DOMAIN net' = rest \cup {old} /\ net'[old] = SubSeq(net[c], 1, n)
          /\ \A d \in rest : net'[d] = net[d]
      BY <1>2, <2>2
    <3> QED BY <3>2, <3>3
  <2>3. \/ net' = [d \in rest |-> net[d]]
        \/ \E n \in 1..Len(net[c]) :
              net' = [d \in rest \cup {old} |-> IF d = old THEN SubSeq(net[c], 1, n) ELSE net[d]]
    BY <1>1 DEF ConnectionBreaks
  <2> QED BY <2>1, <2>2, <2>3
<1>4. PICK N : N = net'
  OBVIOUS
<1>5. ASSUME NEW d \in DOMAIN N, NEW k \in DOMAIN N[d]
      PROVE  LET e == IF d = old THEN c ELSE d
             IN e \in DOMAIN net /\ k \in DOMAIN net[e] /\ net[e][k] = N[d][k] /\ e[1] = d[1]
  <2>1. CASE d = old
    <3>1. k \in 1..n /\ Len(net[c]) \in Nat
      BY <1>2, <1>3, <1>4, <2>1, SequenceOf
    <3>2. k \in DOMAIN net[c] /\ net[c][k] = N[d][k]
      BY <1>2, <1>3, <1>4, <2>1, <3>1
    <3> QED BY <1>2, <2>1, <3>2
  <2>2. CASE d # old
    BY <1>2, <1>3, <1>4, <2>2
  <2> QED BY <2>1, <2>2
<1>6. ASSUME NEW d, NEW m, OnConnection(N, d, m)
      PROVE  \E e : e[1] = d[1] /\ OnConnection(net, e, m)
  BY <1>5, <1>6 DEF OnConnection
<1>7. \A d \in DOMAIN N : d # c
  BY <1>1, <1>2, <1>3, <1>4
<1>8. ASSUME NEW x, NEW y, Before(N, x, y) PROVE Before(net, x, y)
  <2>1. PICK d, e \in DOMAIN N : \E p \in DOMAIN N[d], q \in DOMAIN N[e] :
           /\ N[d][p] = x /\ N[e][q] = y /\ d[1] = e[1]
           /\ (d = e /\ p < q) \/ (d[2] = "old" /\ e[2] = "new")
    BY <1>8 DEF Before
  <2>2. PICK p \in DOMAIN N[d], q \in DOMAIN N[e] :
           /\ N[d][p] = x /\ N[e][q] = y /\ d[1] = e[1]
           /\ (d = e /\ p < q) \/ (d[2] = "old" /\ e[2] = "new")
    BY <2>1
  <2>3. d[2] = "old" /\ e[2] = "new" => d # old /\ e # old
    <3>1. ASSUME d[2] = "old", e[2] = "new", d = old PROVE FALSE
      <4>1. e # old
        BY <1>1, <3>1
      <4>2. e \in DOMAIN net
        BY <1>3, <1>4, <4>1
      <4>3. e = <<e[1], e[2]>>
        BY <4>2 DEF ConnectionsOK
      <4>4. e = c
        BY <1>1, <2>2, <3>1, <4>3
      <4> QED BY <1>7, <4>4
    <3> QED BY <1>1, <3>1
  <2>4. CASE d = e /\ p < q
    BY <1>5, <2>2, <2>4 DEF Before
  <2>5. CASE d[2] = "old" /\ e[2] = "new"
    BY <1>5, <2>2, <2>3, <2>5 DEF Before
  <2> QED BY <2>2, <2>4, <2>5
<1>9. ConnectionsOK(N)
  <2>1. old = <<old[1], old[2]>> /\ old[2] = "old"
    BY <1>1
  <2> QED BY <1>3, <1>4, <2>1 DEF ConnectionsOK
<1> QED BY <1>4, <1>6, <1>8, <1>9

-----------------------------------------------------------------------------
(* What stays as the history goes on *)

\* g continues h, the history of servers in terms T.
Grows(h, g, T) ==
    /\ h \in Histories /\ g \in Histories /\ h.elected \subseteq g.elected
    /\ \A t \in h.elected :
          /\ g.head[t] = h.head[t] /\ g.base[t] = h.base[t]
          /\ Len(h.log[t]) <= Len(g.log[t])
          /\ \A k \in 1..Len(h.log[t]) : g.log[t][k] = h.log[t][k]
    /\ \A v \in Servers, t \in Nat :
          /\ h.accepted[v][t] <= g.accepted[v][t]
          /\ t < T[v] => g.accepted[v][t] = h.accepted[v][t]
          /\ h.vote[v][t] # Nil => g.vote[v][t] = h.vote[v][t] /\ g.seen[v][t] = h.seen[v][t]

LEMMA AcceptedIsInt ==
    ASSUME NEW h \in Histories, NEW v \in Servers, NEW t \in Nat
    PROVE  h.accepted[v][t] \in Int /\ h.accepted[v][t] >= -1
BY LogTypes

LEMMA SameGrows ==
    ASSUME NEW h, NEW T, h \in Histories
    PROVE  Grows(h, h, T)
<1>1. \A t \in h.elected : Len(h.log[t]) \in Nat
  BY LogTypes
<1>2. \A v \in Servers, t \in Nat : h.accepted[v][t] \in Int
  BY AcceptedIsInt
<1> QED BY <1>1, <1>2 DEF Grows

LEMMA VoteGrows ==
    ASSUME NEW h, NEW g, NEW T, h \in Histories, NEW v \in Servers, NEW t \in Nat, NEW i \in Servers,
           h.vote[v][t] = Nil, VoteStep(h, g, v, t, i)
    PROVE  Grows(h, g, T)
<1>1. \A u \in h.elected : Len(h.log[u]) \in Nat
  BY LogTypes
<1>2. \A w \in Servers, u \in Nat : h.accepted[w][u] \in Int
  BY AcceptedIsInt
<1>3. \A w \in Servers, u \in Nat : h.vote[w][u] # Nil =>
         g.vote[w][u] = h.vote[w][u] /\ g.seen[w][u] = h.seen[w][u]
  BY DEF VoteStep
<1> QED BY <1>1, <1>2, <1>3 DEF Grows, VoteStep

LEMMA ElectGrows ==
    ASSUME NEW h, NEW g, NEW T, HistoryOK(h, T), NEW i \in Servers, NEW t \in Nat, T[i] = t,
           t \notin h.elected, NEW q \in Seq(Entries), ElectStep(h, g, i, t, q)
    PROVE  Grows(h, g, T)
<1>1. h \in Histories /\ h.elected \subseteq Nat
  BY LogTypes DEF HistoryOK
<1>2. \A u \in h.elected : /\ Len(h.log[u]) \in Nat /\ g.head[u] = h.head[u]
                           /\ g.log[u] = h.log[u] /\ g.base[u] = h.base[u]
  BY <1>1, LogTypes DEF ElectStep
<1>3. ASSUME NEW w \in Servers, NEW u \in Nat
      PROVE  /\ h.accepted[w][u] <= g.accepted[w][u]
             /\ u < T[w] => g.accepted[w][u] = h.accepted[w][u]
  <2>1. h.accepted[w][u] \in Int
    BY <1>1, AcceptedIsInt
  <2>2. CASE w = i /\ u = t
    <3>1. h.accepted[w][u] = -1
      BY <2>2 DEF HistoryOK, AcceptsOK
    <3>2. g.accepted[w][u] = Len(q) /\ Len(q) \in Nat
      BY <2>2 DEF ElectStep
    <3> QED BY <2>2, <3>1, <3>2
  <2>3. CASE ~(w = i /\ u = t)
    <3>1. g.accepted[w][u] = h.accepted[w][u]
      BY <2>3 DEF ElectStep
    <3> QED BY <2>1, <3>1
  <2> QED BY <2>2, <2>3
<1> QED BY <1>1, <1>2, <1>3 DEF Grows, ElectStep

LEMMA AppendGrows ==
    ASSUME NEW h, NEW g, NEW T, h \in Histories, NEW i \in Servers, NEW t \in Nat, T[i] = t,
           NEW e \in Entries, AppendStep(h, g, i, t, e)
    PROVE  Grows(h, g, T)
<1>1. \A u \in Nat : Len(h.log[u]) \in Nat /\ h.log[u] \in Seq(Entries)
  BY LogTypes
<1>2. h.elected \subseteq Nat
  BY LogTypes
<1>3. ASSUME NEW u \in Nat
      PROVE  /\ Len(h.log[u]) <= Len(g.log[u])
             /\ \A k \in 1..Len(h.log[u]) : g.log[u][k] = h.log[u][k]
  <2>1. CASE u = t
    <3>1. g.log[u] = Append(h.log[u], e)
      BY <2>1 DEF AppendStep
    <3> QED BY <1>1, <3>1
  <2>2. CASE u # t
    <3>1. g.log[u] = h.log[u]
      BY <2>2 DEF AppendStep
    <3> QED BY <1>1, <3>1
  <2> QED BY <2>1, <2>2
<1>4. ASSUME NEW w \in Servers, NEW u \in Nat
      PROVE  /\ h.accepted[w][u] <= g.accepted[w][u]
             /\ u < T[w] => g.accepted[w][u] = h.accepted[w][u]
  <2>1. h.accepted[w][u] \in Int
    BY AcceptedIsInt
  <2>2. CASE w = i /\ u = t
    <3>1. g.accepted[w][u] = h.accepted[w][u] + 1
      BY <2>2 DEF AppendStep
    <3> QED BY <2>1, <2>2, <3>1
  <2>3. CASE ~(w = i /\ u = t)
    <3>1. g.accepted[w][u] = h.accepted[w][u]
      BY <2>3 DEF AppendStep
    <3> QED BY <2>1, <3>1
  <2> QED BY <2>2, <2>3
<1> QED BY <1>2, <1>3, <1>4 DEF Grows, AppendStep

LEMMA AcceptGrows ==
    ASSUME NEW h, NEW g, NEW T, h \in Histories, NEW v \in Servers, NEW t \in Nat, T[v] = t,
           NEW n \in Nat, h.accepted[v][t] <= n, AcceptStep(h, g, v, t, n)
    PROVE  Grows(h, g, T)
<1>1. \A u \in h.elected : Len(h.log[u]) \in Nat
  BY LogTypes
<1>2. ASSUME NEW w \in Servers, NEW u \in Nat
      PROVE  /\ h.accepted[w][u] <= g.accepted[w][u]
             /\ u < T[w] => g.accepted[w][u] = h.accepted[w][u]
  <2>1. h.accepted[w][u] \in Int
    BY AcceptedIsInt
  <2>2. CASE w = v /\ u = t
    BY <2>1, <2>2 DEF AcceptStep
  <2>3. CASE ~(w = v /\ u = t)
    <3>1. g.accepted[w][u] = h.accepted[w][u]
      BY <2>3 DEF AcceptStep
    <3> QED BY <2>1, <3>1
  <2> QED BY <2>2, <2>3
<1> QED BY <1>1, <1>2 DEF Grows, AcceptStep

LEMMA AgreeGrows ==
    ASSUME NEW h, NEW g, NEW T, Grows(h, g, T), NEW t \in h.elected, NEW n \in Nat
    PROVE  /\ \A q : Agree(q, h.log[t], n) => Agree(q, g.log[t], n)
           /\ \A s \in h.elected : Agree(h.log[s], h.log[t], n) => Agree(g.log[s], g.log[t], n)
<1>1. ASSUME NEW s \in h.elected, n <= Len(h.log[s])
      PROVE  n <= Len(g.log[s]) /\ \A k \in 1..n : g.log[s][k] = h.log[s][k]
  <2>1. /\ Len(h.log[s]) <= Len(g.log[s]) /\ Len(h.log[s]) \in Nat /\ Len(g.log[s]) \in Nat
        /\ \A k \in 1..Len(h.log[s]) : g.log[s][k] = h.log[s][k]
    BY LogTypes DEF Grows
  <2> QED BY <1>1, <2>1
<1>2. ASSUME NEW q, Agree(q, h.log[t], n) PROVE Agree(q, g.log[t], n)
  BY <1>1, <1>2 DEF Agree
<1>3. ASSUME NEW s \in h.elected, Agree(h.log[s], h.log[t], n) PROVE Agree(g.log[s], g.log[t], n)
  BY <1>1, <1>3 DEF Agree
<1> QED BY <1>2, <1>3

LEMMA ChosenGrows ==
    ASSUME NEW h, NEW g, NEW T, Grows(h, g, T), NEW s, NEW n, Chosen(h, s, n)
    PROVE  Chosen(g, s, n)
<1>1. /\ s \in h.elected /\ n \in 1..Len(h.log[s]) /\ h.log[s][n].term = s
  BY DEF Chosen
<1>2. s \in Nat /\ Len(h.log[s]) \in Nat /\ Len(g.log[s]) \in Nat /\ Len(h.log[s]) <= Len(g.log[s])
      /\ g.log[s][n] = h.log[s][n] /\ s \in g.elected
  BY <1>1, LogTypes DEF Grows
<1>3. PICK Q \in SUBSET Servers : IsQuorum(Q) /\ \A v \in Q : h.accepted[v][s] >= n
  BY DEF Chosen
<1>4. ASSUME NEW v \in Q PROVE g.accepted[v][s] >= n
  <2>1. h.accepted[v][s] \in Int /\ g.accepted[v][s] \in Int
    BY <1>2, AcceptedIsInt DEF Grows
  <2>2. h.accepted[v][s] <= g.accepted[v][s]
    BY <1>2 DEF Grows
  <2> QED BY <1>1, <1>2, <1>3, <2>1, <2>2
<1>5. n \in 1..Len(g.log[s])
  BY <1>1, <1>2
<1> QED BY <1>1, <1>2, <1>3, <1>4, <1>5 DEF Chosen

LEMMA CommitAtGrows ==
    ASSUME NEW h, NEW g, NEW T, Grows(h, g, T), NEW t \in h.elected, NEW c,
           NEW n \in Nat, NEW k \in Nat, n <= k, CommitAt(h, t, c, n)
    PROVE  CommitAt(g, t, c, k)
<1>1. CASE c = 0
  BY <1>1 DEF CommitAt
<1>2. CASE c # 0
  <2>1. PICK s \in h.elected : \E j \in 1..Len(h.log[s]) :
           /\ s <= t /\ Chosen(h, s, j) /\ c <= j /\ c <= n
           /\ Agree(h.log[t], h.log[s], c)
    BY <1>2 DEF CommitAt
  <2>2. PICK j \in 1..Len(h.log[s]) :
           /\ s <= t /\ Chosen(h, s, j) /\ c <= j /\ c <= n
           /\ Agree(h.log[t], h.log[s], c)
    BY <2>1
  <2>3. c \in Nat
    BY DEF CommitAt
  <2>4. Chosen(g, s, j) /\ Agree(g.log[t], g.log[s], c)
    BY <2>2, <2>3, ChosenGrows, AgreeGrows
  <2>5. s \in g.elected /\ j \in 1..Len(g.log[s])
    BY <2>4 DEF Chosen
  <2> QED BY <2>2, <2>3, <2>4, <2>5 DEF CommitAt
<1> QED BY <1>1, <1>2

LEMMA UpToDateStays ==
    ASSUME NEW h, NEW g, NEW T, HistoryOK(h, T), Grows(h, g, T), NEW v \in Servers, NEW t \in Nat,
           h.vote[v][t] # Nil, t \notin h.elected, NEW q, UpToDateWith(q, h, v, t)
    PROVE  UpToDateWith(q, g, v, t)
<1>1. h \in Histories /\ g.seen[v][t] = h.seen[v][t] /\ T[v] \in Nat
  BY DEF Grows, HistoryOK
<1>2. PICK a \in Nat : a = h.seen[v][t]
  BY <1>1, LogTypes
<1>3. t <= T[v] /\ a < t /\ h.accepted[v][a] # -1
  BY <1>2 DEF HistoryOK, VotesOK
<1>4. PICK n \in Int : n = h.accepted[v][a]
  BY <1>1, LogTypes
<1>5. g.accepted[v][a] = n
  BY <1>1, <1>3, <1>4 DEF Grows
<1>6. a \in h.elected /\ n \in Nat /\ n <= Len(h.log[a]) /\ Len(h.log[a]) \in Nat
  BY <1>1, <1>3, <1>4, LogTypes DEF HistoryOK, AcceptsOK
<1>7. n # 0 => g.log[a][n] = h.log[a][n]
  <2>1. n # 0 => n \in 1..Len(h.log[a])
    BY <1>6
  <2> QED BY <1>6, <2>1 DEF Grows
<1> QED BY <1>1, <1>2, <1>4, <1>5, <1>7 DEF UpToDateWith

\* What is committed is in the log of every later leader.
LEMMA ChosenLater ==
    ASSUME NEW h, NEW T, HistoryOK(h, T), NEW s, NEW k, Chosen(h, s, k), NEW t \in h.elected, s < t
    PROVE  k <= h.base[t] /\ Agree(h.log[t], h.log[s], k)
<1>1. Choosable(h, T, s, k)
  BY DEF Chosen, Choosable
<1> QED BY <1>1 DEF Chosen, HistoryOK, LaterHave

\* It stays committed in the log of a server that moves on to a later leader.
LEMMA CommitMoves ==
    ASSUME NEW h, NEW T, HistoryOK(h, T), NEW a \in h.elected, NEW t \in h.elected, a <= t,
           NEW c, NEW n \in Nat, CommitAt(h, a, c, n), NEW k \in Nat, h.base[t] <= k,
           a = t => n <= k
    PROVE  CommitAt(h, t, c, k)
<1>1. CASE c = 0
  BY <1>1 DEF CommitAt
<1>2. CASE c # 0
  <2>1. PICK s \in h.elected : \E j \in 1..Len(h.log[s]) :
           /\ s <= a /\ Chosen(h, s, j) /\ c <= j /\ c <= n
           /\ Agree(h.log[a], h.log[s], c)
    BY <1>2 DEF CommitAt
  <2>2. PICK j \in 1..Len(h.log[s]) :
           /\ s <= a /\ Chosen(h, s, j) /\ c <= j /\ c <= n
           /\ Agree(h.log[a], h.log[s], c)
    BY <2>1
  <2>3. c \in Nat /\ h \in Histories
    BY DEF CommitAt, HistoryOK
  <2>4. a \in Nat /\ t \in Nat /\ s \in Nat /\ h.base[t] \in Nat /\ j \in Nat
        /\ h.log[t] \in Seq(Entries) /\ h.log[s] \in Seq(Entries)
    <3>1. a \in Nat /\ t \in Nat /\ s \in Nat
      BY <2>3, LogTypes
    <3>2. j \in Nat
      OBVIOUS
    <3> QED BY <2>3, <3>1, <3>2, LogTypes
  <2>5. CASE s = t
    <3>1. a = t
      BY <2>2, <2>4, <2>5
    <3>2. c <= k
      BY <2>2, <2>3, <3>1
    <3> QED BY <2>2, <2>3, <3>1, <3>2 DEF CommitAt
  <2>6. CASE s # t
    <3>1. s < t
      BY <2>2, <2>4, <2>6
    <3>2. j <= h.base[t] /\ Agree(h.log[t], h.log[s], j)
      BY <2>2, <3>1, ChosenLater
    <3>3. Agree(h.log[t], h.log[s], c)
      BY <2>2, <2>3, <2>4, <3>2, AgreeRules
    <3>4. s <= t /\ c <= k
      BY <2>2, <2>3, <2>4, <3>1, <3>2
    <3> QED BY <2>2, <2>3, <3>3, <3>4 DEF CommitAt
  <2> QED BY <2>5, <2>6
<1> QED BY <1>1, <1>2

-----------------------------------------------------------------------------
(* What a step leaves as it is *)

LEMMA ServerFacts ==
    ASSUME NEW h, HistoryOK(h, currentTerm), NEW i \in Servers, LogFollows(h, i)
    PROVE  /\ h \in Histories /\ h.last[i] \in h.elected /\ h.last[i] \in Nat
           /\ currentTerm[i] \in Nat /\ h.last[i] <= currentTerm[i]
           /\ log[i] \in Seq(Entries) /\ Len(log[i]) \in Nat
           /\ h.base[h.last[i]] <= Len(log[i]) /\ Len(log[i]) <= Len(h.log[h.last[i]])
           /\ Len(log[i]) = h.accepted[i][h.last[i]]
<1>1. h \in Histories /\ currentTerm \in [Servers -> Nat]
  BY DEF HistoryOK
<1>2. h.last[i] \in Nat
  BY <1>1, LogTypes
<1>3. h.accepted[i][h.last[i]] # -1 /\ h.last[i] <= currentTerm[i]
  BY DEF HistoryOK, AcceptsOK
<1>4. /\ h.last[i] \in h.elected
      /\ h.base[h.last[i]] <= h.accepted[i][h.last[i]]
      /\ h.accepted[i][h.last[i]] <= Len(h.log[h.last[i]])
  BY <1>2, <1>3 DEF HistoryOK, AcceptsOK
<1>5. log[i] \in Seq(Entries) /\ Len(log[i]) = h.accepted[i][h.last[i]]
  BY DEF LogFollows
<1> QED BY <1>1, <1>2, <1>3, <1>4, <1>5

\* Nothing of what h says of server j changes.
Keeps(h, g, j) ==
    /\ log'[j] = log[j] /\ commitIndex'[j] = commitIndex[j]
    /\ newCommitIndex'[j] = newCommitIndex[j]
    /\ matchIndex'[j] = matchIndex[j] /\ nextIndex'[j] = nextIndex[j]
    /\ g.last[j] = h.last[j] /\ g.accepted[j][h.last[j]] = h.accepted[j][h.last[j]]
    /\ state'[j] = "leader" =>
         /\ state[j] = "leader" /\ currentTerm'[j] = currentTerm[j]
         /\ Len(g.log[currentTerm[j]]) = Len(h.log[currentTerm[j]])

LEMMA KeepsServer ==
    ASSUME NEW h, NEW g, NEW T, HistoryOK(h, currentTerm), Grows(h, g, T),
           NEW j \in Servers, ServerOK(h, j), Keeps(h, g, j)
    PROVE  ServerOK(g, j)'
<1>1. PICK a \in h.elected : a = h.last[j] /\ a \in Nat
  BY ServerFacts DEF ServerOK
<1>2. PICK L \in Nat : L = Len(log[j])
  BY ServerFacts DEF ServerOK
<1>3. LogFollows(g, j)'
  <2>1. log[j] \in Seq(Entries) /\ L = h.accepted[j][a] /\ Agree(log[j], h.log[a], L)
    BY <1>1, <1>2 DEF ServerOK, LogFollows
  <2>2. Agree(log[j], g.log[a], L)
    BY <1>2, <2>1, AgreeGrows
  <2> QED BY <1>1, <1>2, <2>1, <2>2 DEF LogFollows, Keeps
<1>4. Leads(g, j)'
  BY <1>1 DEF ServerOK, Leads, Keeps, Grows
<1>5. Commits(g, j)'
  <2>1. CommitAt(h, a, commitIndex[j], L) /\ CommitAt(h, a, newCommitIndex[j], L)
    BY <1>1, <1>2 DEF ServerOK, Commits
  <2>2. L <= L
    OBVIOUS
  <2>3. CommitAt(g, a, commitIndex[j], L) /\ CommitAt(g, a, newCommitIndex[j], L)
    BY <1>1, <1>2, <2>1, <2>2, CommitAtGrows
  <2>4. /\ g.last[j] = a /\ commitIndex'[j] = commitIndex[j] /\ newCommitIndex'[j] = newCommitIndex[j]
        /\ Len(log'[j]) = L
    BY <1>1, <1>2 DEF Keeps
  <2> QED BY <2>3, <2>4 DEF Commits
<1>6. Knows(g, j)'
  <2>1. matchIndex'[j] = matchIndex[j] /\ nextIndex'[j] = nextIndex[j] /\ log'[j] = log[j]
        /\ commitIndex'[j] = commitIndex[j] /\ newCommitIndex'[j] = newCommitIndex[j]
        /\ matchIndex[j] \in [Servers -> Nat]
    BY DEF Keeps, ServerOK, Knows
  <2>2. CASE state'[j] = "leader"
    <3>1. state[j] = "leader" /\ currentTerm'[j] = currentTerm[j]
      BY <2>2 DEF Keeps
    <3>2. PICK t \in h.elected : t = currentTerm[j] /\ t \in Nat /\ g.base[t] = h.base[t]
      <4>1. currentTerm[j] \in h.elected /\ currentTerm[j] \in Nat
        BY <3>1, ServerFacts DEF ServerOK, Leads
      <4> QED BY <4>1 DEF Grows
    <3>3. ASSUME NEW k \in Servers
          PROVE  matchIndex[j][k] = 0 \/ matchIndex[j][k] <= g.accepted[k][t]
      <4>1. matchIndex[j][k] = 0 \/ matchIndex[j][k] <= h.accepted[k][t]
        BY <2>2, <3>1, <3>2 DEF ServerOK, Knows
      <4>2. h.accepted[k][t] <= g.accepted[k][t] /\ h.accepted[k][t] \in Int
            /\ g.accepted[k][t] \in Int /\ matchIndex[j][k] \in Nat
        BY <2>1, <3>2, AcceptedIsInt DEF Grows
      <4> QED BY <4>1, <4>2
    <3>4. ASSUME NEW k \in Servers PROVE nextIndex[j][k] <= Len(log[j]) + 1
      BY <3>1 DEF ServerOK, Knows
    <3>5. ASSUME NEW x \in {commitIndex[j], newCommitIndex[j]}
          PROVE  x <= g.base[t] \/ IsQuorum({j} \cup {k \in Servers : matchIndex[j][k] >= x})
      BY <3>1, <3>2 DEF ServerOK, Knows
    <3> QED BY <2>1, <3>1, <3>2, <3>3, <3>4, <3>5 DEF Knows, IsQuorum
  <2>3. CASE state'[j] # "leader"
    BY <2>1, <2>3 DEF Knows
  <2> QED BY <2>2, <2>3
<1> QED BY <1>3, <1>4, <1>5, <1>6 DEF ServerOK

\* Servers follow others or reach later terms, and nobody votes.
QuietRoles ==
    \A j \in Servers :
       \/ /\ currentTerm'[j] = currentTerm[j] /\ votedFor'[j] = votedFor[j]
          /\ state'[j] \in {state[j], "follower"}
       \/ currentTerm'[j] > currentTerm[j] /\ votedFor'[j] = Nil /\ state'[j] = "follower"

TermsRise ==
    /\ currentTerm' \in [Servers -> Nat]
    /\ \A j \in Servers : currentTerm[j] <= currentTerm'[j]

\* A vote of a server is of a term it has reached.
LEMMA NoVoteYet ==
    ASSUME NEW h, NEW T, HistoryOK(h, T), NEW v \in Servers, NEW t \in Nat, T[v] < t
    PROVE  h.vote[v][t] = Nil
<1>1. T[v] \in Nat
  BY DEF HistoryOK
<1> QED BY <1>1 DEF HistoryOK, VotesOK

LEMMA HeadIsServer ==
    ASSUME NEW h, NEW T, HistoryOK(h, T), NEW t \in h.elected \ {0}
    PROVE  h.head[t] \in Servers
<1>1. t \in Nat
  BY LogTypes DEF HistoryOK
<1>2. h.head[t] \in Servers \cup {Nil}
  BY <1>1, HistoryFields DEF HistoryOK
<1>3. PICK Q \in SUBSET Servers :
         IsQuorum(Q) /\ \A v \in Q : h.vote[v][t] # Nil /\ h.vote[v][t] = h.head[t]
  BY DEF HistoryOK, VotesOK
<1>4. \E v \in Servers : v \in Q
  BY <1>3, QuorumsMeet
<1> QED BY <1>2, <1>3, <1>4

LEMMA QuietRolesFollow ==
    ASSUME NEW h, NEW g, HistoryOK(h, currentTerm), RolesFollow(h), QuietRoles, TermsRise,
           Grows(h, g, currentTerm'), g.elected = h.elected, g.vote = h.vote,
           \A k, i \in Servers, t \in Nat : Holds(k, i, t)' => Holds(k, i, t) \/ h.vote[k][t] = i,
           \A j \in Servers : state'[j] = "candidate" => log'[j] = log[j]
    PROVE  RolesFollow(g)'
<1>1. /\ \A i \in Servers : currentTerm[i] > 0 /\ h.vote[i][currentTerm[i]] = votedFor[i]
      /\ \A t \in h.elected \ {0} :
            /\ t <= currentTerm[h.head[t]]
            /\ t = currentTerm[h.head[t]] => state[h.head[t]] # "candidate"
      /\ \A i, v \in Servers, t \in Nat :
            /\ Holds(v, i, t) => h.vote[v][t] = i
            /\ h.vote[v][t] = i => t <= currentTerm[i]
      /\ \A i, v \in Servers :
            state[i] = "candidate" /\ h.vote[v][currentTerm[i]] = i /\ currentTerm[i] \notin h.elected =>
               UpToDateWith(log[i], h, v, currentTerm[i])
  BY DEF RolesFollow
<1>2. /\ \A j \in Servers : /\ currentTerm[j] \in Nat /\ currentTerm'[j] \in Nat
                            /\ currentTerm[j] <= currentTerm'[j]
      /\ h.elected \subseteq Nat
  BY LogTypes DEF TermsRise, HistoryOK
<1>3. ASSUME NEW i \in Servers
      PROVE  currentTerm'[i] > 0 /\ g.vote[i][currentTerm'[i]] = votedFor'[i]
  <2>1. CASE currentTerm'[i] = currentTerm[i] /\ votedFor'[i] = votedFor[i]
    BY <1>1, <2>1
  <2>2. CASE currentTerm'[i] > currentTerm[i] /\ votedFor'[i] = Nil
    <3>1. h.vote[i][currentTerm'[i]] = Nil
      BY <1>2, <2>2, NoVoteYet
    <3> QED BY <1>1, <1>2, <2>2, <3>1
  <2> QED BY <2>1, <2>2 DEF QuietRoles
<1>4. ASSUME NEW t \in g.elected \ {0}
      PROVE  /\ t <= currentTerm'[g.head[t]]
             /\ t = currentTerm'[g.head[t]] => state'[g.head[t]] # "candidate"
  <2>1. t \in Nat /\ t \in h.elected \ {0} /\ g.head[t] = h.head[t] /\ h.head[t] \in Servers
    BY <1>2, HeadIsServer DEF Grows
  <2>2. PICK j \in Servers : j = g.head[t]
    BY <2>1
  <2>3. t <= currentTerm[j] /\ (t = currentTerm[j] => state[j] # "candidate")
    BY <1>1, <2>1, <2>2
  <2> QED BY <1>2, <2>1, <2>2, <2>3 DEF QuietRoles
<1>5. ASSUME NEW i \in Servers, NEW v \in Servers, NEW t \in Nat
      PROVE  /\ Holds(v, i, t)' => g.vote[v][t] = i
             /\ g.vote[v][t] = i => t <= currentTerm'[i]
  <2>1. g.vote[v][t] = i => t <= currentTerm'[i]
    <3>1. h.vote[v][t] = i => t <= currentTerm[i]
      BY <1>1
    <3> QED BY <1>2, <3>1
  <2>2. Holds(v, i, t)' => g.vote[v][t] = i
    BY <1>1
  <2> QED BY <2>1, <2>2
<1>6. ASSUME NEW i \in Servers, NEW v \in Servers, state'[i] = "candidate",
             g.vote[v][currentTerm'[i]] = i, currentTerm'[i] \notin g.elected
      PROVE  UpToDateWith(log'[i], g, v, currentTerm'[i])
  <2>1. state[i] = "candidate" /\ currentTerm'[i] = currentTerm[i] /\ log'[i] = log[i]
    BY <1>6 DEF QuietRoles
  <2>2. UpToDateWith(log[i], h, v, currentTerm[i])
    BY <1>1, <1>6, <2>1
  <2>3. h.vote[v][currentTerm[i]] # Nil
    BY <1>6, <2>1, ServersAreNot0
  <2>4. HistoryOK(h, currentTerm')
    BY TermsRiseKeeps DEF TermsRise
  <2>5. UpToDateWith(log[i], g, v, currentTerm[i])
    BY <1>2, <1>6, <2>1, <2>2, <2>3, <2>4, UpToDateStays
  <2> QED BY <2>1, <2>5
<1> QED BY <1>3, <1>4, <1>5, <1>6 DEF RolesFollow

-----------------------------------------------------------------------------
(* Messages that stay, and those that are added *)

\* What is on the network afterwards was there in n, a part of it, or is message a,
\* new on route r.
NetAdds(n, r, a) ==
    /\ \A c, m : OnConnection(n, c, m) => OnConnection(net, c, m)
    /\ \A c, m : OnConnection(net', c, m) =>
          \/ \E e : e[1] = c[1] /\ OnConnection(n, e, m)
          \/ c[1] = r /\ m = a
    /\ \A x, y : Before(net', x, y) =>
          \/ Before(net, x, y)
          \/ y = a /\ \E e : e[1] = r /\ OnConnection(n, e, x)
    /\ ConnectionsOK(net')

LEMMA TakenNet ==
    ASSUME IsNetwork(net), ConnectionsOK(net), NEW c \in DOMAIN net, net' = Taken(c), NEW r, NEW a
    PROVE  NetAdds(Taken(c), r, a)
<1>1. \A d, m : OnConnection(Taken(c), d, m) => OnConnection(net, d, m)
  BY TakenIsThere
<1>2. \A x, y : Before(Taken(c), x, y) => Before(net, x, y)
  BY TakenOrder
<1>3. ConnectionsOK(Taken(c))
  BY TakenConnections
<1> QED BY <1>1, <1>2, <1>3 DEF NetAdds

LEMMA ReplyNet ==
    ASSUME IsNetwork(net), ConnectionsOK(net), NEW c \in DOMAIN net,
           NEW ctx, NEW from, NEW to, NEW a, Send(Taken(c), ctx, from, to, a)
    PROVE  NetAdds(Taken(c), <<ctx, from, to>>, a)
<1>1. \A d, m : OnConnection(Taken(c), d, m) => OnConnection(net, d, m)
  BY TakenIsThere
<1>2. IsNetwork(Taken(c))
  BY TakenIsThere
<1>3. \A x, y : Before(Taken(c), x, y) => Before(net, x, y)
  BY TakenOrder
<1>4. ConnectionsOK(Taken(c))
  BY TakenConnections
<1>5. CASE net' = Taken(c)
  BY <1>5, TakenNet
<1>6. CASE Write(Taken(c), ctx, from, to, a)
  <2>1. \A d, m : OnConnection(net', d, m) =>
           OnConnection(Taken(c), d, m) \/ (d = Out(ctx, from, to) /\ m = a)
    BY <1>2, <1>6, WriteAdds
  <2>2. Out(ctx, from, to)[1] = <<ctx, from, to>>
    BY DEF Out
  <2>3. \A d, m : OnConnection(net', d, m) =>
           \/ \E e : e[1] = d[1] /\ OnConnection(Taken(c), e, m)
           \/ d[1] = <<ctx, from, to>> /\ m = a
    BY <2>1, <2>2
  <2>4. \A x, y : Before(net', x, y) =>
           \/ Before(Taken(c), x, y)
           \/ y = a /\ \E e : e[1] = <<ctx, from, to>> /\ OnConnection(Taken(c), e, x)
    BY <1>2, <1>6, WriteOrder
  <2>5. ConnectionsOK(net')
    BY <1>2, <1>4, <1>6, WriteConnections
  <2> QED BY <1>1, <1>3, <2>3, <2>4, <2>5 DEF NetAdds
<1> QED BY <1>5, <1>6 DEF Send

LEMMA SameNet ==
    ASSUME ConnectionsOK(net), net' = net, NEW r, NEW a
    PROVE  NetAdds(net, r, a)
BY DEF NetAdds

LEMMA SendNet ==
    ASSUME IsNetwork(net), ConnectionsOK(net),
           NEW ctx, NEW from, NEW to, NEW a, Send(net, ctx, from, to, a)
    PROVE  NetAdds(net, <<ctx, from, to>>, a)
<1>1. CASE net' = net
  BY <1>1, SameNet
<1>2. CASE Write(net, ctx, from, to, a)
  <2>1. \A d, m : OnConnection(net', d, m) =>
           OnConnection(net, d, m) \/ (d = Out(ctx, from, to) /\ m = a)
    BY <1>2, WriteAdds
  <2>2. Out(ctx, from, to)[1] = <<ctx, from, to>>
    BY DEF Out
  <2>3. \A d, m : OnConnection(net', d, m) =>
           \/ \E e : e[1] = d[1] /\ OnConnection(net, e, m)
           \/ d[1] = <<ctx, from, to>> /\ m = a
    BY <2>1, <2>2
  <2>4. \A x, y : Before(net', x, y) =>
           \/ Before(net, x, y)
           \/ y = a /\ \E e : e[1] = <<ctx, from, to>> /\ OnConnection(net, e, x)
    BY <1>2, WriteOrder
  <2>5. ConnectionsOK(net')
    BY <1>2, WriteConnections
  <2> QED BY <2>3, <2>4, <2>5 DEF NetAdds
<1> QED BY <1>1, <1>2 DEF Send

LEMMA BreakNet ==
    ASSUME IsNetwork(net), ConnectionsOK(net), NEW b, ConnectionBreaks(b), NEW r, NEW a
    PROVE  NetAdds(net, r, a)
BY BreakOrder DEF NetAdds

LEMMA NetworkKept ==
    ASSUME NEW g, NEW n, NEW r, NEW a, InOrder, NetAdds(n, r, a),
           \A e, m : OnConnection(n, e, m) => MsgOK(g, e[1], m)',
           MsgOK(g, r, a)',
           \A e, x : e[1] = r /\ OnConnection(n, e, x) => Ordered(x, a)
    PROVE  NetworkOK(g)'
<1>1. ASSUME NEW c, NEW m, OnConnection(net', c, m) PROVE MsgOK(g, c[1], m)'
  <2>1. CASE \E e : e[1] = c[1] /\ OnConnection(n, e, m)
    BY <2>1
  <2>2. CASE c[1] = r /\ m = a
    BY <2>2
  <2> QED BY <1>1, <2>1, <2>2 DEF NetAdds
<1>2. ASSUME NEW x, NEW y, Before(net', x, y) PROVE Ordered(x, y)
  BY <1>2 DEF NetAdds, InOrder
<1>3. MessagesOK(g)'
  BY <1>1 DEF MessagesOK
<1>4. InOrder'
  BY <1>2 DEF InOrder
<1> QED BY <1>3, <1>4 DEF NetworkOK, NetAdds

\* A message that asks or tells nothing of logs.
LEMMA PlainMessage ==
    ASSUME NEW h, NEW r, NEW a, a.mtype # "rvq", ~Carries(a)
    PROVE  MsgOK(h, r, a) /\ MsgOK(h, r, a)' /\ \A x : Ordered(x, a)
BY DEF MsgOK, VoteRequestOK, AppendRequestOK, AckOK, Carries, Ordered, IsAck

\* New candidacies are of new terms, and candidates keep their logs.
CandidatesStay ==
    \A j \in Servers :
       state'[j] = "candidate" /\ currentTerm'[j] = currentTerm[j] =>
          state[j] = "candidate" /\ log'[j] = log[j]

LEMMA OldMessage ==
    ASSUME NEW h, NEW g, NEW T, NEW r, NEW m, MsgOK(h, r, m), MessageOK(m), Grows(h, g, T),
           currentTerm \in [Servers -> Nat], TermsRise, CandidatesStay,
           m.mtype = "apq" => g.accepted[r[3]][m.mterm] <= Reach(m),
           IsAck(m) /\ state'[r[3]] = "leader" /\ currentTerm'[r[3]] = m.mterm =>
              matchIndex'[r[3]][m.msource] <= m.mmatchIndex
    PROVE  MsgOK(g, r, m)'
<1>1. VoteRequestOK(m)'
  <2> SUFFICES ASSUME m.mtype = "rvq"
               PROVE  /\ m.mterm <= currentTerm'[m.msource]
                      /\ state'[m.msource] = "candidate" /\ m.mterm = currentTerm'[m.msource] =>
                            m.mlastLogTerm = LastTerm(log'[m.msource])
                            /\ m.mlastLogIndex = Len(log'[m.msource])
    BY DEF VoteRequestOK, LastTerm
  <2>1. m.mterm \in Nat /\ m.msource \in Servers
    BY DEF MessageOK
  <2>2. PICK j \in Servers : j = m.msource
    BY <2>1
  <2>3. m.mterm <= currentTerm[j] /\ currentTerm[j] \in Nat /\ currentTerm'[j] \in Nat
        /\ currentTerm[j] <= currentTerm'[j]
    BY <2>2 DEF MsgOK, VoteRequestOK, TermsRise
  <2>4. m.mterm <= currentTerm'[j] /\ (m.mterm = currentTerm'[j] => currentTerm'[j] = currentTerm[j])
    BY <2>1, <2>3
  <2> QED BY <2>2, <2>4 DEF MsgOK, VoteRequestOK, CandidatesStay
<1>2. AppendRequestOK(g, r, m)'
  <2> SUFFICES ASSUME m.mtype = "apq"
               PROVE  AppendRequestOK(g, r, m)
    BY DEF AppendRequestOK, CommitAt, Chosen
  <2>1. PICK t \in h.elected : t = m.mterm
    BY DEF MsgOK, AppendRequestOK
  <2>2. /\ h.head[t] = m.msource
        /\ r = <<"append", m.msource, r[3]>> /\ r[3] \in Servers \ {m.msource}
        /\ m.mprevLogIndex \in Nat /\ m.mentries \in Seq(Entries)
        /\ h.base[t] <= Reach(m) /\ Reach(m) <= Len(h.log[t])
        /\ \A k \in 1..Len(m.mentries) : m.mentries[k] = h.log[t][m.mprevLogIndex + k]
        /\ m.mprevLogTerm = IF m.mprevLogIndex > 0 THEN h.log[t][m.mprevLogIndex].term ELSE 0
        /\ CommitAt(h, t, m.mcommitIndex, Reach(m))
    BY <2>1 DEF MsgOK, AppendRequestOK
  <2>3. /\ t \in g.elected /\ g.head[t] = h.head[t] /\ g.base[t] = h.base[t]
        /\ Len(h.log[t]) <= Len(g.log[t]) /\ Len(h.log[t]) \in Nat /\ Len(g.log[t]) \in Nat
        /\ \A k \in 1..Len(h.log[t]) : g.log[t][k] = h.log[t][k]
    BY LogTypes DEF Grows
  <2>4. PICK p \in Nat : p = m.mprevLogIndex
    BY <2>2
  <2>5. PICK E \in Nat : E = Len(m.mentries)
    BY <2>2
  <2>6. Reach(m) = p + E
    BY <2>4, <2>5 DEF Reach
  <2>7. p + E <= Len(h.log[t]) /\ h.base[t] <= p + E
    BY <2>2, <2>6
  <2>8. ASSUME NEW k \in 1..E PROVE m.mentries[k] = g.log[t][p + k]
    <3>1. p + k \in 1..Len(h.log[t])
      BY <2>3, <2>7
    <3>2. m.mentries[k] = h.log[t][p + k]
      BY <2>2, <2>4, <2>5
    <3> QED BY <2>3, <3>1, <3>2
  <2>9. m.mprevLogTerm = IF p > 0 THEN g.log[t][p].term ELSE 0
    <3>1. p > 0 => p \in 1..Len(h.log[t])
      BY <2>3, <2>7
    <3> QED BY <2>2, <2>3, <2>4, <3>1
  <2>10. CommitAt(g, t, m.mcommitIndex, Reach(m))
    <3>1. p + E \in Nat /\ p + E <= p + E
      OBVIOUS
    <3> QED BY <2>2, <2>6, <3>1, CommitAtGrows
  <2>11. Reach(m) <= Len(g.log[t])
    BY <2>3, <2>6, <2>7
  <2> QED BY <2>1, <2>2, <2>3, <2>4, <2>5, <2>8, <2>9, <2>10, <2>11 DEF AppendRequestOK
<1>3. AckOK(g, r, m)'
  <2> SUFFICES ASSUME IsAck(m)
               PROVE  /\ r = <<"handle", m.msource, r[3]>> /\ r[3] \in Servers
                      /\ m.mmatchIndex \in Nat /\ m.mmatchIndex <= g.accepted[m.msource][m.mterm]
    BY DEF AckOK
  <2>1. /\ r = <<"handle", m.msource, r[3]>> /\ r[3] \in Servers
        /\ m.mmatchIndex \in Nat /\ m.mmatchIndex <= h.accepted[m.msource][m.mterm]
    BY DEF MsgOK, AckOK
  <2>2. m.mterm \in Nat /\ m.msource \in Servers
    BY DEF MessageOK, IsAck
  <2>3. /\ h.accepted[m.msource][m.mterm] <= g.accepted[m.msource][m.mterm]
        /\ h.accepted[m.msource][m.mterm] \in Int /\ g.accepted[m.msource][m.mterm] \in Int
    BY <2>2, AcceptedIsInt DEF Grows
  <2> QED BY <2>1, <2>3
<1> QED BY <1>1, <1>2, <1>3 DEF MsgOK

-----------------------------------------------------------------------------
(* Steps that touch neither logs nor indexes *)

LEMMA QuietTermsRise ==
    ASSUME RolesOK, RolesOK', QuietRoles
    PROVE  TermsRise
<1>1. \A j \in Servers : currentTerm[j] \in Nat /\ currentTerm'[j] \in Nat
  BY DEF RolesOK
<1> QED BY <1>1 DEF RolesOK, TermsRise, QuietRoles

LEMMA QuietStep ==
    ASSUME IInv, IInv', NEW h, Follows(h), QuietRoles,
           \A k, i \in Servers, t \in Nat : Holds(k, i, t)' => Holds(k, i, t) \/ h.vote[k][t] = i,
           UNCHANGED <<log, nextIndex, matchIndex, commitIndex, newCommitIndex>>,
           NEW n, NEW r, NEW a, NetAdds(n, r, a), MsgOK(h, r, a)',
           \A e, x : e[1] = r /\ OnConnection(n, e, x) => Ordered(x, a)
    PROVE  Follows(h)'
<1>1. TermsRise /\ currentTerm \in [Servers -> Nat]
  BY QuietTermsRise DEF IInv, RolesOK
<1>2. h \in Histories
  BY DEF Follows, HistoryOK
<1>3. Grows(h, h, currentTerm')
  BY <1>2, SameGrows
<1>4. HistoryOK(h, currentTerm')
  BY <1>1, TermsRiseKeeps DEF Follows, TermsRise
<1>5. ASSUME NEW j \in Servers PROVE ServerOK(h, j)'
  <2>1. currentTerm[j] \in Nat
    BY <1>1
  <2>2. state'[j] = "leader" => state[j] = "leader" /\ currentTerm'[j] = currentTerm[j]
    BY <2>1 DEF QuietRoles
  <2>3. Keeps(h, h, j)
    BY <2>2 DEF Keeps
  <2> QED BY <1>3, <2>3, KeepsServer DEF Follows
<1>6. RolesFollow(h)'
  BY <1>1, <1>3, QuietRolesFollow DEF Follows
<1>7. NetworkOK(h)'
  <2>1. CandidatesStay
    BY <1>1 DEF CandidatesStay, QuietRoles
  <2>2. ASSUME NEW e, NEW m, OnConnection(n, e, m) PROVE MsgOK(h, e[1], m)'
    <3>1. OnConnection(net, e, m)
      BY <2>2 DEF NetAdds
    <3>2. MsgOK(h, e[1], m) /\ MessageOK(m)
      BY <3>1 DEF Follows, NetworkOK, MessagesOK, IInv, NetOK
    <3>3. m.mtype = "apq" => h.accepted[e[1][3]][m.mterm] <= Reach(m)
      BY <3>2 DEF MsgOK, AppendRequestOK
    <3>4. IsAck(m) /\ state'[e[1][3]] = "leader" /\ currentTerm'[e[1][3]] = m.mterm =>
             matchIndex'[e[1][3]][m.msource] <= m.mmatchIndex
      BY <1>1, <3>2 DEF MsgOK, AckOK, QuietRoles
    <3> QED BY <1>1, <1>3, <2>1, <3>2, <3>3, <3>4, OldMessage
  <2> QED BY <2>2, NetworkKept DEF Follows, NetworkOK
<1> QED BY <1>4, <1>5, <1>6, <1>7 DEF Follows

LEMMA UpdateTermQuiet ==
    ASSUME RolesOK, NEW i \in Servers, NEW m, m.mterm \in Nat, SetRole(i, UpdateTerm(i, m))
    PROVE  QuietRoles
<1>1. \A j \in Servers \ {i} : /\ currentTerm'[j] = currentTerm[j] /\ state'[j] = state[j]
                              /\ votedFor'[j] = votedFor[j]
  BY DEF RolesOK, SetRole
<1>2. LET u == UpdateTerm(i, m)
      IN currentTerm'[i] = u.term /\ state'[i] = u.state /\ votedFor'[i] = u.votedFor
  BY DEF RolesOK, SetRole
<1>3. \/ currentTerm'[i] = currentTerm[i] /\ votedFor'[i] = votedFor[i] /\ state'[i] = state[i]
      \/ currentTerm'[i] > currentTerm[i] /\ votedFor'[i] = Nil /\ state'[i] = "follower"
  BY <1>2 DEF UpdateTerm
<1> QED BY <1>1, <1>3 DEF QuietRoles

\* Following the sender keeps the term and the vote, and no candidacy of its term.
LEMMA FollowSenderIs ==
    ASSUME NEW i \in Servers, NEW m
    PROVE  LET u == UpdateTerm(i, m)
               w == FollowSender(i, m)
           IN /\ w.term = u.term /\ w.votedFor = u.votedFor
              /\ w.state \in {u.state, "follower"}
              /\ ~(m.mterm < u.term) => w.state # "candidate"
              /\ ~(m.mterm < u.term) => w.state = IF u.state = "candidate" THEN "follower" ELSE u.state
<1> DEFINE u == UpdateTerm(i, m)
<1>1. u = [term |-> u.term, state |-> u.state, votedFor |-> u.votedFor, leader |-> u.leader]
  BY DEF UpdateTerm
<1>2. CASE m.mterm < u.term
  BY <1>2 DEF FollowSender
<1>3. CASE ~(m.mterm < u.term)
  <2>1. FollowSender(i, m) =
           [term |-> u.term, state |-> IF u.state = "candidate" THEN "follower" ELSE u.state,
            votedFor |-> u.votedFor, leader |-> m.msource]
    BY <1>1, <1>3 DEF FollowSender
  <2> QED BY <2>1, <1>3
<1> QED BY <1>2, <1>3

LEMMA FollowSenderQuiet ==
    ASSUME RolesOK, NEW i \in Servers, NEW m, m.mterm \in Nat, SetRole(i, FollowSender(i, m))
    PROVE  QuietRoles
<1>1. \A j \in Servers \ {i} : /\ currentTerm'[j] = currentTerm[j] /\ state'[j] = state[j]
                              /\ votedFor'[j] = votedFor[j]
  BY DEF RolesOK, SetRole
<1>2. LET w == FollowSender(i, m)
      IN currentTerm'[i] = w.term /\ state'[i] = w.state /\ votedFor'[i] = w.votedFor
  BY DEF RolesOK, SetRole
<1>3. LET u == UpdateTerm(i, m)
      IN \/ u.term = currentTerm[i] /\ u.votedFor = votedFor[i] /\ u.state = state[i]
         \/ u.term > currentTerm[i] /\ u.votedFor = Nil /\ u.state = "follower"
  BY DEF UpdateTerm
<1>4. \/ currentTerm'[i] = currentTerm[i] /\ votedFor'[i] = votedFor[i]
         /\ state'[i] \in {state[i], "follower"}
      \/ currentTerm'[i] > currentTerm[i] /\ votedFor'[i] = Nil /\ state'[i] = "follower"
  BY <1>2, <1>3, FollowSenderIs
<1> QED BY <1>1, <1>4 DEF QuietRoles

LEMMA SameRolesQuiet ==
    ASSUME UNCHANGED roleVars
    PROVE  QuietRoles
BY DEF roleVars, QuietRoles

LEMMA HoldsKept ==
    ASSUME RolesOK, QuietRoles, votesGranted' = votesGranted,
           NEW n, NEW r, NEW a, NetAdds(n, r, a), ~IsGrant(a)
    PROVE  \A k, i \in Servers, t \in Nat : Holds(k, i, t)' => Holds(k, i, t)
<1> SUFFICES ASSUME NEW k \in Servers, NEW i \in Servers, NEW t \in Nat, Holds(k, i, t)'
             PROVE  Holds(k, i, t)
  OBVIOUS
<1>1. CASE InFlight(k, i, t)'
  <2>1. PICK c, m : /\ OnConnection(net', c, m) /\ Dest(c) = i
                    /\ IsGrant(m) /\ m.msource = k /\ m.mterm = t
    BY <1>1 DEF InFlight
  <2>2. PICK e : e[1] = c[1] /\ OnConnection(n, e, m)
    BY <2>1 DEF NetAdds
  <2>3. OnConnection(net, e, m) /\ Dest(e) = i
    BY <2>1, <2>2 DEF NetAdds, Dest
  <2> QED BY <2>1, <2>3 DEF Holds, InFlight
<1>2. CASE ~InFlight(k, i, t)'
  <2>1. Campaigns(i)' /\ currentTerm'[i] = t /\ k \in votesGranted[i]
    BY <1>2 DEF Holds
  <2>2. Campaigns(i) /\ currentTerm[i] = t
    BY <2>1 DEF QuietRoles, Campaigns
  <2> QED BY <2>1, <2>2 DEF Holds
<1> QED BY <1>1, <1>2

\* A message that arrives.
LEMMA ArrivingIs ==
    ASSUME IInv, NEW h, Follows(h), NEW i, NEW c \in Arriving(i)
    PROVE  /\ c \in DOMAIN net /\ Dest(c) = i /\ c[1][3] = i
           /\ OnConnection(net, c, Head(net[c])) /\ MsgOK(h, c[1], Head(net[c]))
           /\ MessageOK(Head(net[c]))
           /\ IsNetwork(net) /\ ConnectionsOK(net) /\ RolesOK
<1>1. c \in DOMAIN net /\ Dest(c) = i /\ IsNetwork(net)
  BY DEF Arriving, IInv, NetOK
<1>2. OnConnection(net, c, Head(net[c]))
  BY <1>1, TakenIsThere
<1> QED BY <1>1, <1>2 DEF IInv, NetOK, Follows, NetworkOK, MessagesOK, Dest

LEMMA RejectAppendEntriesFollows ==
    ASSUME IInv, IInv', NEW h, Follows(h), NEW i \in Servers, NEW c \in Arriving(i),
           RejectAppendEntries(i, c)
    PROVE  Follows(h)'
<1> DEFINE m == Head(net[c])
           u == FollowSender(i, m)
           a == [mtype |-> "app", mterm |-> u.term, msuccess |-> FALSE,
                 mmatchIndex |-> 0, msource |-> i]
<1>1. c \in DOMAIN net /\ IsNetwork(net) /\ ConnectionsOK(net) /\ RolesOK /\ MessageOK(m)
  BY ArrivingIs
<1>2. m.mterm \in Nat /\ SetRole(i, u)
  BY <1>1 DEF RejectAppendEntries, MessageOK
<1>3. QuietRoles
  BY <1>1, <1>2, FollowSenderQuiet
<1>4. Send(Taken(c), "handle", i, m.msource, a)
      /\ votesGranted' = votesGranted
      /\ UNCHANGED <<log, nextIndex, matchIndex, commitIndex, newCommitIndex>>
  BY DEF RejectAppendEntries, logVars, leaderVars, commitVars, loopVars
<1>5. a.mtype # "rvq" /\ ~Carries(a) /\ ~IsGrant(a)
  BY DEF Carries, IsAck, IsGrant
<1> HIDE DEF a, m
<1>6. PICK b, r : b = a /\ r = <<"handle", i, m.msource>>
  OBVIOUS
<1>7. NetAdds(Taken(c), r, b)
  BY <1>1, <1>4, <1>6, ReplyNet
<1>8. \A k, j \in Servers, t \in Nat : Holds(k, j, t)' => Holds(k, j, t)
  BY <1>1, <1>3, <1>4, <1>5, <1>6, <1>7, HoldsKept
<1>9. MsgOK(h, r, b)' /\ \A x : Ordered(x, b)
  BY <1>5, <1>6, PlainMessage
<1> QED BY <1>3, <1>4, <1>7, <1>8, <1>9, QuietStep

LEMMA RedirectClientFollows ==
    ASSUME IInv, IInv', NEW h, Follows(h), NEW i \in Servers, NEW c \in Arriving(i),
           RedirectClient(i, c)
    PROVE  Follows(h)'
<1> DEFINE m == Head(net[c])
           a == [mtype |-> "response", type |-> m.mcmd.type, msuccess |-> FALSE,
                 idx |-> m.mcmd.idx, key |-> m.mcmd.key, value |-> Nil,
                 mleaderHint |-> leader[i]]
<1>1. c \in DOMAIN net /\ IsNetwork(net) /\ ConnectionsOK(net) /\ RolesOK
  BY ArrivingIs
<1>2. QuietRoles
  BY SameRolesQuiet DEF RedirectClient
<1>3. Send(Taken(c), "handle", i, m.msource, a)
      /\ votesGranted' = votesGranted
      /\ UNCHANGED <<log, nextIndex, matchIndex, commitIndex, newCommitIndex>>
  BY DEF RedirectClient, Send, logVars, leaderVars, commitVars, loopVars
<1>4. a.mtype # "rvq" /\ ~Carries(a) /\ ~IsGrant(a)
  BY DEF Carries, IsAck, IsGrant
<1> HIDE DEF a, m
<1>5. PICK b, r : b = a /\ r = <<"handle", i, m.msource>>
  OBVIOUS
<1>6. NetAdds(Taken(c), r, b)
  BY <1>1, <1>3, <1>5, ReplyNet
<1>7. \A k, j \in Servers, t \in Nat : Holds(k, j, t)' => Holds(k, j, t)
  BY <1>1, <1>2, <1>3, <1>4, <1>5, <1>6, HoldsKept
<1>8. MsgOK(h, r, b)' /\ \A x : Ordered(x, b)
  BY <1>4, <1>5, PlainMessage
<1> QED BY <1>2, <1>3, <1>6, <1>7, <1>8, QuietStep

LEMMA HandleRequestVoteResponseFollows ==
    ASSUME IInv, IInv', NEW h, Follows(h), NEW i \in Servers, NEW c \in Arriving(i),
           HandleRequestVoteResponse(i, c)
    PROVE  Follows(h)'
<1> DEFINE m == Head(net[c])
           u == UpdateTerm(i, m)
           counted == m.mterm = u.term /\ m.mvoteGranted
           a == [mtype |-> "none"]
<1>1. /\ c \in DOMAIN net /\ IsNetwork(net) /\ ConnectionsOK(net) /\ RolesOK /\ MessageOK(m)
      /\ Dest(c) = i /\ OnConnection(net, c, m) /\ m.mtype = "rvp"
  BY ArrivingIs DEF HandleRequestVoteResponse
<1>2. m.mterm \in Nat /\ m.msource \in Servers /\ SetRole(i, u)
  BY <1>1 DEF HandleRequestVoteResponse, MessageOK
<1>3. QuietRoles
  BY <1>1, <1>2, UpdateTermQuiet
<1>4. /\ net' = Taken(c)
      /\ UNCHANGED <<log, nextIndex, matchIndex, commitIndex, newCommitIndex>>
      /\ \A j \in Servers \ {i} : votesGranted'[j] = votesGranted[j]
      /\ votesGranted'[i] = IF counted THEN votesGranted[i] \cup {m.msource} ELSE votesGranted[i]
  BY <1>1 DEF HandleRequestVoteResponse, logVars, leaderVars, commitVars, loopVars, RolesOK
<1>5. a.mtype # "rvq" /\ ~Carries(a)
  BY DEF Carries, IsAck
<1> HIDE DEF a
<1>6. NetAdds(Taken(c), <<>>, a)
  BY <1>1, <1>4, TakenNet
<1>7. ASSUME NEW k \in Servers, NEW j \in Servers, NEW t \in Nat, Holds(k, j, t)'
      PROVE  Holds(k, j, t)
  <2>1. CASE InFlight(k, j, t)'
    <3>1. \A d, x : OnConnection(net', d, x) => OnConnection(net, d, x)
      BY <1>1, <1>4, TakenIsThere
    <3> QED BY <2>1, <3>1 DEF Holds, InFlight
  <2>2. CASE ~InFlight(k, j, t)'
    <3>1. Campaigns(j)' /\ currentTerm'[j] = t /\ k \in votesGranted'[j]
      BY <1>7, <2>2 DEF Holds
    <3>2. Campaigns(j) /\ currentTerm[j] = t
      BY <1>3, <3>1 DEF QuietRoles, Campaigns
    <3>3. CASE k \in votesGranted[j]
      BY <3>2, <3>3 DEF Holds
    <3>4. CASE k \notin votesGranted[j]
      <4>1. j = i /\ counted /\ k = m.msource
        BY <1>4, <3>1, <3>4
      <4>2. m.mterm = t
        BY <1>2, <3>1, <4>1, <1>1 DEF SetRole, RolesOK
      <4> QED BY <1>1, <4>1, <4>2 DEF Holds, InFlight, IsGrant
    <3> QED BY <3>3, <3>4
  <2> QED BY <2>1, <2>2
<1>8. MsgOK(h, <<>>, a)' /\ \A x : Ordered(x, a)
  BY <1>5, PlainMessage
<1> QED BY <1>3, <1>4, <1>6, <1>7, <1>8, QuietStep

\* Sections and clients' steps that change nothing but the network, if they do.
LEMMA IdleFollows ==
    ASSUME IInv, IInv', NEW h, Follows(h),
           UNCHANGED <<roleVars, votesGranted, log, leaderVars, commitIndex, newCommitIndex>>,
           NEW n, NEW r, NEW a, NetAdds(n, r, a), ~IsGrant(a), MsgOK(h, r, a)',
           \A e, x : e[1] = r /\ OnConnection(n, e, x) => Ordered(x, a)
    PROVE  Follows(h)'
<1>1. QuietRoles
  BY SameRolesQuiet
<1>2. \A k, j \in Servers, t \in Nat : Holds(k, j, t)' => Holds(k, j, t)
  BY <1>1, HoldsKept DEF IInv
<1>3. UNCHANGED <<log, nextIndex, matchIndex, commitIndex, newCommitIndex>>
  BY DEF leaderVars
<1> QED BY <1>1, <1>2, <1>3, QuietStep

\* The same when the message added, if any, tells nothing of logs.
LEMMA PlainFollows ==
    ASSUME IInv, IInv', NEW h, Follows(h),
           UNCHANGED <<roleVars, votesGranted, log, leaderVars, commitIndex, newCommitIndex>>,
           NEW n, NEW r, NEW a, NetAdds(n, r, a), a.mtype \in {"request", "response", "none"}
    PROVE  Follows(h)'
<1>1. ~IsGrant(a) /\ MsgOK(h, r, a)' /\ \A x : Ordered(x, a)
  <2>1. a.mtype # "rvq" /\ ~Carries(a) /\ ~IsGrant(a)
    BY DEF Carries, IsAck, IsGrant
  <2> QED BY <2>1, PlainMessage
<1> QED BY <1>1, IdleFollows

LEMMA ClientFollows ==
    ASSUME IInv, IInv', NEW h, Follows(h), NEW i \in Clients, ClientNext(i)
    PROVE  Follows(h)'
<1>1. IsNetwork(net) /\ ConnectionsOK(net)
  BY DEF IInv, NetOK, Follows, NetworkOK
<1>2. UNCHANGED <<roleVars, votesGranted, log, leaderVars, commitIndex, newCommitIndex>>
  BY DEF ClientNext, clientLoop, sndReq, rcvResp, clientTimeout, logVars, commitVars, loopVars
<1> DEFINE a == [mtype |-> "none"]
<1>3. a.mtype = "none"
  OBVIOUS
<1> HIDE DEF a
<1>4. CASE clientLoop(i) \/ clientTimeout(i)
  <2>1. NetAdds(net, <<>>, a)
    BY <1>1, <1>4, SameNet DEF clientLoop, clientTimeout
  <2> QED BY <1>2, <1>3, <2>1, PlainFollows
<1>5. CASE sndReq(i)
  <2>1. PICK m, to : m.mtype = "request" /\ Send(net, "client", i, to, m)
    BY <1>5 DEF sndReq
  <2>2. NetAdds(net, <<"client", i, to>>, m)
    BY <1>1, <2>1, SendNet
  <2> QED BY <1>2, <2>1, <2>2, PlainFollows
<1>6. CASE rcvResp(i)
  <2>1. PICK d \in DOMAIN net : net' = Taken(d)
    BY <1>6 DEF rcvResp, Arriving
  <2>2. NetAdds(Taken(d), <<>>, a)
    BY <1>1, <2>1, TakenNet
  <2> QED BY <1>2, <1>3, <2>2, PlainFollows
<1> QED BY <1>4, <1>5, <1>6 DEF ClientNext

LEMMA BreakFollows ==
    ASSUME IInv, IInv', NEW h, Follows(h), NEW b \in Breakable, ConnectionBreaks(b)
    PROVE  Follows(h)'
<1>1. IsNetwork(net) /\ ConnectionsOK(net)
  BY DEF IInv, NetOK, Follows, NetworkOK
<1>2. UNCHANGED <<roleVars, votesGranted, log, leaderVars, commitIndex, newCommitIndex>>
  BY DEF ConnectionBreaks, logVars, commitVars, loopVars
<1> DEFINE a == [mtype |-> "none"]
<1>3. a.mtype = "none"
  OBVIOUS
<1> HIDE DEF a
<1>4. NetAdds(net, <<>>, a)
  BY <1>1, BreakNet
<1> QED BY <1>2, <1>3, <1>4, PlainFollows

LEMMA StutterFollows ==
    ASSUME IInv, IInv', NEW h, Follows(h), UNCHANGED vars
    PROVE  Follows(h)'
<1>1. ConnectionsOK(net) /\ net' = net
  BY DEF Follows, NetworkOK, vars
<1>2. UNCHANGED <<roleVars, votesGranted, log, leaderVars, commitIndex, newCommitIndex>>
  BY DEF vars, logVars, commitVars, loopVars
<1> DEFINE a == [mtype |-> "none"]
<1>3. a.mtype = "none"
  OBVIOUS
<1> HIDE DEF a
<1>4. NetAdds(net, <<>>, a)
  BY <1>1, SameNet
<1> QED BY <1>2, <1>3, <1>4, PlainFollows

LEMMA serverAppendEntriesLoopFollows ==
    ASSUME IInv, IInv', NEW h, Follows(h), NEW i \in Servers, serverAppendEntriesLoop(i)
    PROVE  Follows(h)'
<1>1. ConnectionsOK(net) /\ net' = net
  BY DEF Follows, NetworkOK, serverAppendEntriesLoop
<1>2. UNCHANGED <<roleVars, votesGranted, log, leaderVars, commitIndex, newCommitIndex>>
  BY DEF serverAppendEntriesLoop, logVars, commitVars, loopVars
<1> DEFINE a == [mtype |-> "none"]
<1>3. a.mtype = "none"
  OBVIOUS
<1> HIDE DEF a
<1>4. NetAdds(net, <<>>, a)
  BY <1>1, SameNet
<1> QED BY <1>2, <1>3, <1>4, PlainFollows

LEMMA requestVoteLoopFollows ==
    ASSUME IInv, IInv', NEW h, Follows(h), NEW i \in Servers, requestVoteLoop(i)
    PROVE  Follows(h)'
<1> DEFINE a == [mtype |-> "rvq", mterm |-> currentTerm[i], mlastLogTerm |-> LastTerm(log[i]),
                 mlastLogIndex |-> Len(log[i]), msource |-> i]
<1>1. IsNetwork(net) /\ ConnectionsOK(net)
  BY DEF IInv, NetOK, Follows, NetworkOK
<1>2. UNCHANGED <<roleVars, votesGranted, log, leaderVars, commitIndex, newCommitIndex>>
      /\ Send(net, "vote", i, voteIdx[i], a)
  BY DEF requestVoteLoop, logVars, commitVars, loopVars
<1>3. ~IsGrant(a) /\ ~Carries(a)
  BY DEF IsGrant, Carries, IsAck
<1>4. VoteRequestOK(a)
  <2>1. currentTerm[i] <= currentTerm[i]
    BY DEF IInv, RolesOK
  <2> QED BY <2>1 DEF VoteRequestOK
<1> HIDE DEF a
<1>5. PICK b, r : b = a /\ r = <<"vote", i, voteIdx[i]>>
  OBVIOUS
<1>6. VoteRequestOK(b)'
  BY <1>2, <1>4, <1>5 DEF VoteRequestOK, LastTerm, roleVars
<1>7. MsgOK(h, r, b)' /\ \A x : Ordered(x, b)
  BY <1>3, <1>5, <1>6 DEF MsgOK, AppendRequestOK, AckOK, Carries, Ordered
<1>8. NetAdds(net, r, b)
  BY <1>1, <1>2, <1>5, SendNet
<1> QED BY <1>2, <1>3, <1>5, <1>7, <1>8, IdleFollows

-----------------------------------------------------------------------------
(* Votes *)

\* What the candidate's log is compared with is that of the voter.
LEMMA VoterLog ==
    ASSUME NEW h, HistoryOK(h, currentTerm), NEW v \in Servers, LogFollows(h, v),
           NEW t \in Nat, NEW j \in Servers, NEW g, VoteStep(h, g, v, t, j), NEW q,
           \/ LastTerm(log[v]) < LastTerm(q)
           \/ LastTerm(log[v]) = LastTerm(q) /\ Len(log[v]) <= Len(q)
    PROVE  UpToDateWith(q, g, v, t)
<1>1. PICK a \in Nat : a = h.last[v] /\ g.seen[v][t] = a /\ g.accepted = h.accepted /\ g.log = h.log
  BY ServerFacts DEF VoteStep
<1>2. PICK n \in Nat : n = Len(log[v]) /\ n = g.accepted[v][a]
  BY <1>1, ServerFacts
<1>3. LastTerm(log[v]) = IF n = 0 THEN 0 ELSE g.log[a][n].term
  <2> DEFINE L == log[v]
  <2>0. L \in Seq(Entries) /\ n = Len(L)
    BY <1>2, ServerFacts
  <2> HIDE DEF L
  <2>1. CASE n = 0
    <3>1. L = <<>>
      <4>1. \A e \in Seq(Entries) : Len(e) = 0 => e = <<>>
        OBVIOUS
      <4> QED BY <2>0, <2>1, <4>1
    <3>2. log[v] = <<>>
      BY <3>1 DEF L
    <3> QED BY <2>1, <3>2 DEF LastTerm
  <2>2. CASE n # 0
    <3>0. L # <<>> /\ n \in 1..Len(L)
      BY <2>0, <2>2
    <3>1. log[v] # <<>> /\ n \in 1..Len(log[v])
      BY <3>0 DEF L
    <3>2. log[v][n] = h.log[a][n]
      BY <1>1, <1>2, <3>1 DEF LogFollows, Agree
    <3> QED BY <1>1, <1>2, <2>2, <3>1, <3>2 DEF LastTerm
  <2> QED BY <2>1, <2>2
<1> QED BY <1>1, <1>2, <1>3 DEF UpToDateWith

LEMMA VoteRolesFollow ==
    ASSUME NEW h, HistoryOK(h, currentTerm), RolesFollow(h), TermsRise,
           NEW v \in Servers, NEW j \in Servers, NEW t \in Nat,
           currentTerm'[v] = t, votedFor'[v] = j, h.vote[v][t] = Nil,
           NEW g, VoteStep(h, g, v, t, j),
           \A i \in Servers \ {v} : /\ currentTerm'[i] = currentTerm[i]
                                    /\ votedFor'[i] = votedFor[i] /\ state'[i] = state[i],
           t = currentTerm[v] /\ state'[v] = "candidate" => state[v] = "candidate",
           log' = log,
           \A k, i \in Servers, u \in Nat :
              Holds(k, i, u)' => Holds(k, i, u) \/ (k = v /\ i = j /\ u = t),
           t <= currentTerm'[j],
           state'[j] = "candidate" /\ currentTerm'[j] = t /\ t \notin h.elected =>
              UpToDateWith(log[j], g, v, t)
    PROVE  RolesFollow(g)'
<1>1. /\ \A i \in Servers : currentTerm[i] > 0 /\ h.vote[i][currentTerm[i]] = votedFor[i]
      /\ \A u \in h.elected \ {0} :
            /\ u <= currentTerm[h.head[u]]
            /\ u = currentTerm[h.head[u]] => state[h.head[u]] # "candidate"
      /\ \A i, w \in Servers, u \in Nat :
            /\ Holds(w, i, u) => h.vote[w][u] = i
            /\ h.vote[w][u] = i => u <= currentTerm[i]
      /\ \A i, w \in Servers :
            state[i] = "candidate" /\ h.vote[w][currentTerm[i]] = i /\ currentTerm[i] \notin h.elected =>
               UpToDateWith(log[i], h, w, currentTerm[i])
  BY DEF RolesFollow
<1>2. /\ \A i \in Servers : /\ currentTerm[i] \in Nat /\ currentTerm'[i] \in Nat
                            /\ currentTerm[i] <= currentTerm'[i]
      /\ h.elected \subseteq Nat /\ h \in Histories
  BY LogTypes DEF TermsRise, HistoryOK
<1>3. /\ g.elected = h.elected /\ g.head = h.head /\ g.vote[v][t] = j
      /\ \A w \in Servers, u \in Nat : w # v \/ u # t =>
            g.vote[w][u] = h.vote[w][u] /\ g.seen[w][u] = h.seen[w][u]
  BY DEF VoteStep
<1>4. Grows(h, g, currentTerm')
  BY <1>2, VoteGrows
<1>5. ASSUME NEW i \in Servers
      PROVE  currentTerm'[i] > 0 /\ g.vote[i][currentTerm'[i]] = votedFor'[i]
  <2>1. currentTerm'[i] > 0
    BY <1>1, <1>2
  <2>2. CASE i = v
    BY <1>3, <2>1, <2>2
  <2>3. CASE i # v
    BY <1>1, <1>2, <1>3, <2>1, <2>3
  <2> QED BY <2>2, <2>3
<1>6. ASSUME NEW u \in g.elected \ {0}
      PROVE  /\ u <= currentTerm'[g.head[u]]
             /\ u = currentTerm'[g.head[u]] => state'[g.head[u]] # "candidate"
  <2>1. u \in Nat /\ u \in h.elected \ {0} /\ g.head[u] = h.head[u] /\ h.head[u] \in Servers
    BY <1>2, <1>3, HeadIsServer
  <2>2. PICK i \in Servers : i = g.head[u]
    BY <2>1
  <2>3. u <= currentTerm[i] /\ (u = currentTerm[i] => state[i] # "candidate")
    BY <1>1, <2>1, <2>2
  <2>4. CASE i = v
    BY <1>2, <2>1, <2>2, <2>3, <2>4
  <2>5. CASE i # v
    BY <1>2, <2>1, <2>2, <2>3, <2>5
  <2> QED BY <2>4, <2>5
<1>7. ASSUME NEW i \in Servers, NEW w \in Servers, NEW u \in Nat
      PROVE  /\ Holds(w, i, u)' => g.vote[w][u] = i
             /\ g.vote[w][u] = i => u <= currentTerm'[i]
  <2>1. CASE w = v /\ u = t
    <3>1. ~Holds(w, i, u)
      BY <1>1, <2>1, ServersAreNot0
    <3> QED BY <1>3, <2>1, <3>1
  <2>2. CASE ~(w = v /\ u = t)
    <3>1. g.vote[w][u] = h.vote[w][u]
      BY <1>3, <2>2
    <3>2. Holds(w, i, u)' => h.vote[w][u] = i
      BY <1>1, <2>2
    <3>3. h.vote[w][u] = i => u <= currentTerm[i]
      BY <1>1
    <3> QED BY <1>2, <3>1, <3>2, <3>3
  <2> QED BY <2>1, <2>2
<1>8. ASSUME NEW i \in Servers, NEW w \in Servers, state'[i] = "candidate",
             g.vote[w][currentTerm'[i]] = i, currentTerm'[i] \notin g.elected
      PROVE  UpToDateWith(log'[i], g, w, currentTerm'[i])
  <2>1. CASE w = v /\ currentTerm'[i] = t
    <3>1. i = j
      BY <1>3, <1>8, <2>1
    <3> QED BY <1>3, <1>8, <2>1, <3>1
  <2>2. CASE ~(w = v /\ currentTerm'[i] = t)
    <3>1. h.vote[w][currentTerm'[i]] = i
      BY <1>2, <1>3, <1>8, <2>2
    <3>2. currentTerm'[i] = currentTerm[i]
      <4>1. currentTerm'[i] <= currentTerm[i]
        BY <1>1, <1>2, <3>1
      <4> QED BY <1>2, <4>1
    <3>3. state[i] = "candidate"
      BY <1>8, <3>2
    <3>4. UpToDateWith(log[i], h, w, currentTerm[i])
      BY <1>1, <1>3, <1>8, <3>1, <3>2, <3>3
    <3>5. HistoryOK(h, currentTerm')
      BY TermsRiseKeeps DEF TermsRise
    <3>6. h.vote[w][currentTerm[i]] # Nil
      BY <3>1, <3>2, ServersAreNot0
    <3>7. UpToDateWith(log[i], g, w, currentTerm[i])
      BY <1>2, <1>3, <1>4, <1>8, <3>2, <3>4, <3>5, <3>6, UpToDateStays
    <3> QED BY <3>2, <3>7
  <2> QED BY <2>1, <2>2
<1> QED BY <1>5, <1>6, <1>7, <1>8 DEF RolesFollow

\* v votes for j.
LEMMA VoteFollows ==
    ASSUME IInv, IInv', NEW h, Follows(h), NEW g, RolesFollow(g)', TermsRise,
           NEW v \in Servers, NEW j \in Servers, NEW t \in Nat,
           currentTerm'[v] = t, h.vote[v][t] = Nil, VoteStep(h, g, v, t, j),
           CandidatesStay,
           \A i \in Servers : state'[i] = "leader" =>
              state[i] = "leader" /\ currentTerm'[i] = currentTerm[i],
           UNCHANGED <<log, nextIndex, matchIndex, commitIndex, newCommitIndex>>,
           NEW n, NEW r, NEW a, NetAdds(n, r, a), a.mtype \in {"rvp", "none"}
    PROVE  Follows(g)'
<1>1. h \in Histories /\ currentTerm \in [Servers -> Nat]
  BY DEF Follows, HistoryOK
<1>2. Grows(h, g, currentTerm')
  BY <1>1, VoteGrows
<1>3. HistoryOK(g, currentTerm')
  <2>1. HistoryOK(h, currentTerm')
    BY TermsRiseKeeps DEF Follows, TermsRise
  <2> QED BY <2>1, VoteKeepsHistory
<1>4. g.accepted = h.accepted /\ g.last = h.last /\ g.log = h.log
  BY DEF VoteStep
<1>5. ASSUME NEW i \in Servers PROVE ServerOK(g, i)'
  <2>1. Keeps(h, g, i)
    BY <1>4 DEF Keeps
  <2> QED BY <1>2, <2>1, KeepsServer DEF Follows
<1>6. NetworkOK(g)'
  <2>1. ASSUME NEW e, NEW m, OnConnection(n, e, m) PROVE MsgOK(g, e[1], m)'
    <3>1. OnConnection(net, e, m)
      BY <2>1 DEF NetAdds
    <3>2. MsgOK(h, e[1], m) /\ MessageOK(m)
      BY <3>1 DEF Follows, NetworkOK, MessagesOK, IInv, NetOK
    <3>3. m.mtype = "apq" => g.accepted[e[1][3]][m.mterm] <= Reach(m)
      BY <1>4, <3>2 DEF MsgOK, AppendRequestOK
    <3>4. IsAck(m) /\ state'[e[1][3]] = "leader" /\ currentTerm'[e[1][3]] = m.mterm =>
             matchIndex'[e[1][3]][m.msource] <= m.mmatchIndex
      BY <3>2 DEF MsgOK, AckOK
    <3> QED BY <1>1, <1>2, <3>2, <3>3, <3>4, OldMessage
  <2>2. MsgOK(g, r, a)' /\ \A x : Ordered(x, a)
    <3>1. a.mtype # "rvq" /\ ~Carries(a)
      BY DEF Carries, IsAck
    <3> QED BY <3>1, PlainMessage
  <2> QED BY <2>1, <2>2, NetworkKept DEF Follows, NetworkOK
<1> QED BY <1>3, <1>5, <1>6 DEF Follows

LEMMA serverRequestVoteLoopFollows ==
    ASSUME IInv, IInv', NEW h, Follows(h), NEW i \in Servers, serverRequestVoteLoop(i)
    PROVE  \E g : Follows(g)'
<1>1. PICK t \in Nat : t = currentTerm[i] + 1
  BY DEF IInv, RolesOK
<1>2. /\ currentTerm'[i] = t /\ state'[i] = "candidate"
      /\ votedFor'[i] = i /\ votesGranted'[i] = {i}
      /\ \A j \in Servers \ {i} :
            /\ currentTerm'[j] = currentTerm[j] /\ state'[j] = state[j]
            /\ votedFor'[j] = votedFor[j] /\ votesGranted'[j] = votesGranted[j]
      /\ net' = net
      /\ UNCHANGED <<log, nextIndex, matchIndex, commitIndex, newCommitIndex>>
  BY <1>1 DEF serverRequestVoteLoop, SetRole, IInv, RolesOK, logVars, leaderVars, commitVars
<1>3. HistoryOK(h, currentTerm) /\ h \in Histories /\ currentTerm \in [Servers -> Nat]
  BY DEF Follows, HistoryOK
<1>4. TermsRise
  BY <1>1, <1>2, <1>3 DEF TermsRise, IInv, RolesOK
<1>5. h.vote[i][t] = Nil
  BY <1>1, <1>3, NoVoteYet
<1>6. PICK g : VoteStep(h, g, i, t, i)
  BY <1>3, VoteStepExists
<1>7. UpToDateWith(log[i], g, i, t)
  <2>1. LogFollows(h, i) /\ Len(log[i]) <= Len(log[i])
    BY <1>3, ServerFacts DEF Follows, ServerOK
  <2> QED BY <1>3, <1>6, <2>1, VoterLog
<1>8. \A k, j \in Servers, u \in Nat :
         Holds(k, j, u)' => Holds(k, j, u) \/ (k = i /\ j = i /\ u = t)
  BY <1>2 DEF Holds, InFlight, Campaigns
<1>9. RolesFollow(g)'
  <2>1. t <= currentTerm'[i] /\ t # currentTerm[i]
    BY <1>1, <1>2, <1>3
  <2> QED BY <1>2, <1>3, <1>4, <1>5, <1>6, <1>7, <1>8, <2>1, VoteRolesFollow DEF Follows
<1>10. CandidatesStay
  <2>1. currentTerm'[i] # currentTerm[i]
    BY <1>1, <1>2, <1>3
  <2> QED BY <1>2, <2>1 DEF CandidatesStay
<1> DEFINE a == [mtype |-> "none"]
<1>11. a.mtype = "none"
  OBVIOUS
<1> HIDE DEF a
<1>12. NetAdds(net, <<>>, a)
  BY <1>2, SameNet DEF Follows, NetworkOK
<1>13. \A j \in Servers : state'[j] = "leader" =>
          state[j] = "leader" /\ currentTerm'[j] = currentTerm[j]
  BY <1>2
<1>14. Follows(g)'
  BY <1>2, <1>4, <1>5, <1>6, <1>9, <1>10, <1>11, <1>12, <1>13, VoteFollows
<1> QED BY <1>14

\* A vote is new unless it repeats one given for the same request.
LEMMA HandleRequestVoteRequestFollows ==
    ASSUME IInv, IInv', NEW h, Follows(h), NEW i \in Servers, NEW c \in Arriving(i),
           HandleRequestVoteRequest(i, c)
    PROVE  \E g : Follows(g)'
<1> DEFINE M == Head(net[c])
           u == UpdateTerm(i, M)
           grant == Grants(i, u, M)
           A == [mtype |-> "rvp", mterm |-> u.term, mvoteGranted |-> grant, msource |-> i]
<1>1. /\ c \in DOMAIN net /\ IsNetwork(net) /\ ConnectionsOK(net) /\ RolesOK /\ MessageOK(M)
      /\ MsgOK(h, c[1], M) /\ M.mtype = "rvq"
  BY ArrivingIs DEF HandleRequestVoteRequest
<1>2. M.mterm \in Nat /\ M.msource \in Servers
  BY <1>1 DEF MessageOK
<1>3. PICK j \in Servers : j = M.msource
  BY <1>2
<1>4. /\ Send(Taken(c), "handle", i, j, A)
      /\ SetRole(i, IF grant THEN [u EXCEPT !.votedFor = j] ELSE u)
      /\ votesGranted' = votesGranted
      /\ UNCHANGED <<log, nextIndex, matchIndex, commitIndex, newCommitIndex>>
  BY <1>3 DEF HandleRequestVoteRequest, logVars, leaderVars, commitVars, loopVars
<1>5. PICK t \in Nat : t = u.term
  BY <1>1, <1>2, UpdateTermDemotes DEF Demotion
<1>6. \/ t = currentTerm[i] /\ u.votedFor = votedFor[i] /\ u.state = state[i]
      \/ t > currentTerm[i] /\ u.votedFor = Nil /\ u.state = "follower"
  BY <1>5 DEF UpdateTerm
<1>7. /\ currentTerm'[i] = t /\ state'[i] = u.state
      /\ votedFor'[i] = IF grant THEN j ELSE u.votedFor
      /\ \A k \in Servers \ {i} : /\ currentTerm'[k] = currentTerm[k] /\ state'[k] = state[k]
                                  /\ votedFor'[k] = votedFor[k]
  <2>1. u = [term |-> u.term, state |-> u.state, votedFor |-> u.votedFor, leader |-> u.leader]
    BY DEF UpdateTerm
  <2>2. CASE grant
    <3>1. [u EXCEPT !.votedFor = j] = [term |-> u.term, state |-> u.state, votedFor |-> j,
                                       leader |-> u.leader]
      BY <2>1
    <3> QED BY <1>1, <1>4, <1>5, <2>2, <3>1 DEF SetRole, RolesOK
  <2>3. CASE ~grant
    BY <1>1, <1>4, <1>5, <2>1, <2>3 DEF SetRole, RolesOK
  <2> QED BY <2>2, <2>3
<1>8. grant => /\ M.mterm = t /\ u.votedFor \in {Nil, j}
               /\ \/ M.mlastLogTerm > LastTerm(log[i])
                  \/ M.mlastLogTerm = LastTerm(log[i]) /\ M.mlastLogIndex >= Len(log[i])
  BY <1>3, <1>5 DEF Grants, UpToDate
<1>9. A.mtype = "rvp" /\ A.mterm = t /\ A.msource = i /\ (IsGrant(A) => grant)
  BY <1>5 DEF IsGrant
<1>10. HistoryOK(h, currentTerm) /\ h \in Histories /\ currentTerm \in [Servers -> Nat]
       /\ RolesFollow(h)
  BY DEF Follows, HistoryOK
<1> HIDE DEF u, grant, A
<1>11. PICK b, r : b = A /\ r = <<"handle", i, j>>
  OBVIOUS
<1>12. NetAdds(Taken(c), r, b)
  BY <1>1, <1>4, <1>11, ReplyNet
\* What is held afterwards was held before, or it is the vote of this step.
<1>13. ASSUME NEW k \in Servers, NEW d \in Servers, NEW s \in Nat, Holds(k, d, s)',
              ~Holds(k, d, s)
       PROVE  grant /\ k = i /\ d = j /\ s = t
  <2>1. CASE InFlight(k, d, s)'
    <3>1. PICK e, x : /\ OnConnection(net', e, x) /\ Dest(e) = d
                      /\ IsGrant(x) /\ x.msource = k /\ x.mterm = s
      BY <2>1 DEF InFlight
    <3>2. CASE e[1] = r /\ x = b
      BY <1>9, <1>11, <3>1, <3>2 DEF Dest
    <3>3. CASE \E f : f[1] = e[1] /\ OnConnection(Taken(c), f, x)
      <4>1. \E f : f[1] = e[1] /\ OnConnection(net, f, x)
        BY <1>12, <3>3 DEF NetAdds
      <4>2. InFlight(k, d, s)
        BY <3>1, <4>1 DEF InFlight, Dest
      <4> QED BY <1>13, <4>2 DEF Holds
    <3> QED BY <1>12, <3>1, <3>2, <3>3 DEF NetAdds
  <2>2. CASE ~InFlight(k, d, s)'
    <3>1. Campaigns(d)' /\ currentTerm'[d] = s /\ k \in votesGranted[d]
      BY <1>4, <1>13, <2>2 DEF Holds
    <3>2. Campaigns(d) /\ currentTerm[d] = s
      <4>1. CASE d = i
        BY <1>6, <1>7, <3>1, <4>1 DEF Campaigns
      <4>2. CASE d # i
        BY <1>7, <3>1, <4>2 DEF Campaigns
      <4> QED BY <4>1, <4>2
    <3> QED BY <1>13, <3>1, <3>2 DEF Holds
  <2> QED BY <2>1, <2>2
<1>14. CASE grant /\ u.votedFor = Nil
  <2>1. h.vote[i][t] = Nil
    <3>1. CASE t = currentTerm[i] /\ votedFor[i] = Nil
      BY <1>10, <3>1 DEF RolesFollow
    <3>2. CASE t > currentTerm[i]
      BY <1>10, <3>2, NoVoteYet
    <3> QED BY <1>6, <1>14, <3>1, <3>2
  <2>2. PICK g : VoteStep(h, g, i, t, j)
    BY <1>10, VoteStepExists
  <2>3. TermsRise
    <3>1. \A k \in Servers : currentTerm[k] <= currentTerm'[k]
      BY <1>6, <1>7, <1>10
    <3> QED BY <3>1 DEF TermsRise, IInv, RolesOK
  <2>4. t <= currentTerm[j]
    BY <1>1, <1>3, <1>8, <1>14 DEF MsgOK, VoteRequestOK
  <2>5. t <= currentTerm'[j]
    BY <1>10, <2>3, <2>4 DEF TermsRise
  <2>6. ASSUME state'[j] = "candidate", currentTerm'[j] = t
        PROVE  UpToDateWith(log[j], g, i, t)
    <3>1. state[j] = "candidate" /\ currentTerm[j] = t
      BY <1>6, <1>7, <1>10, <2>6
    <3>2. M.mlastLogTerm = LastTerm(log[j]) /\ M.mlastLogIndex = Len(log[j])
      BY <1>1, <1>3, <1>8, <1>14, <3>1 DEF MsgOK, VoteRequestOK
    <3>3. LogFollows(h, i) /\ LogFollows(h, j)
      BY DEF Follows, ServerOK
    <3>4. Len(log[i]) \in Nat /\ Len(log[j]) \in Nat
          /\ LastTerm(log[i]) \in Nat /\ LastTerm(log[j]) \in Nat
      <4>1. \A q \in Seq(Entries) : Len(q) \in Nat /\ LastTerm(q) \in Nat
        <5> TAKE q \in Seq(Entries)
        <5>1. CASE q = <<>>
          BY <5>1 DEF LastTerm
        <5>2. CASE q # <<>>
          <6>1. Len(q) \in 1..Len(q)
            BY <5>2
          <6>2. q[Len(q)] \in Entries
            BY <6>1
          <6> QED BY <5>2, <6>2 DEF LastTerm, Entries
        <5> QED BY <5>1, <5>2
      <4> QED BY <3>3, <4>1 DEF LogFollows
    <3>5. \/ LastTerm(log[i]) < LastTerm(log[j])
          \/ LastTerm(log[i]) = LastTerm(log[j]) /\ Len(log[i]) <= Len(log[j])
      BY <1>8, <1>14, <3>2, <3>4
    <3> QED BY <1>10, <2>2, <3>3, <3>5, VoterLog
  <2>7. RolesFollow(g)'
    <3>1. t = currentTerm[i] /\ state'[i] = "candidate" => state[i] = "candidate"
      BY <1>6, <1>7
    <3>2. \A k, d \in Servers, s \in Nat :
             Holds(k, d, s)' => Holds(k, d, s) \/ (k = i /\ d = j /\ s = t)
      BY <1>13
    <3>3. votedFor'[i] = j /\ log' = log
      BY <1>4, <1>7, <1>14
    <3> QED BY <1>7, <1>10, <2>1, <2>2, <2>3, <2>5, <2>6, <3>1, <3>2, <3>3, VoteRolesFollow
  <2>8. CandidatesStay
    BY <1>4, <1>6, <1>7 DEF CandidatesStay
  <2>9. \A k \in Servers : state'[k] = "leader" =>
           state[k] = "leader" /\ currentTerm'[k] = currentTerm[k]
    BY <1>6, <1>7
  <2>10. Follows(g)'
    BY <1>4, <1>7, <1>9, <1>11, <1>12, <2>1, <2>2, <2>3, <2>7, <2>8, <2>9, VoteFollows
  <2> QED BY <2>10
<1>15. CASE ~(grant /\ u.votedFor = Nil)
  <2>1. QuietRoles
    <3>1. \/ /\ currentTerm'[i] = currentTerm[i] /\ votedFor'[i] = votedFor[i]
             /\ state'[i] = state[i]
          \/ currentTerm'[i] > currentTerm[i] /\ votedFor'[i] = Nil /\ state'[i] = "follower"
      BY <1>6, <1>7, <1>8, <1>15
    <3> QED BY <1>7, <3>1 DEF QuietRoles
  <2>2. ASSUME NEW k \in Servers, NEW d \in Servers, NEW s \in Nat, Holds(k, d, s)'
        PROVE  Holds(k, d, s) \/ h.vote[k][s] = d
    <3>1. CASE grant /\ k = i /\ d = j /\ s = t
      <4>1. t = currentTerm[i] /\ votedFor[i] = j
        BY <1>6, <1>8, <1>15, <3>1, ServersAreNot0
      <4> QED BY <1>10, <3>1, <4>1 DEF RolesFollow
    <3> QED BY <1>13, <2>2, <3>1
  <2>3. MsgOK(h, r, b)' /\ \A x : Ordered(x, b)
    <3>1. b.mtype # "rvq" /\ ~Carries(b)
      BY <1>9, <1>11 DEF Carries, IsAck
    <3> QED BY <3>1, PlainMessage
  <2>4. Follows(h)'
    BY <1>4, <1>12, <2>1, <2>2, <2>3, QuietStep
  <2> QED BY <2>4
<1> QED BY <1>14, <1>15

-----------------------------------------------------------------------------
(* Sections of leaders *)

LEMMA LeastOf ==
    ASSUME NEW S \in SUBSET Nat, S # {}
    PROVE  \E n \in S : \A k \in S : n <= k
<1>1. PICK x \in S : \A y \in S : ~(<<y, x>> \in OpToRel(<, Nat))
  BY NatLessThanWellFounded, WFMin
<1>2. ASSUME NEW y \in S PROVE x <= y
  <2>1. ~(y < x)
    BY <1>1 DEF OpToRel
  <2> QED BY <2>1
<1> QED BY <1>2

LEMMA GreatestOf ==
    ASSUME NEW L \in Nat, NEW S \in SUBSET (1..L), S # {}
    PROVE  \E n \in S : \A k \in S : k <= n
<1> DEFINE R == {k \in Nat : L - k \in S}
<1>1. R # {}
  <2>1. PICK k \in S : TRUE
    OBVIOUS
  <2>2. k \in 1..L /\ L - k \in Nat /\ L - (L - k) = k
    OBVIOUS
  <2> QED BY <2>2
<1>2. PICK n \in R : \A k \in R : n <= k
  BY <1>1, LeastOf
<1>3. L - n \in S
  BY <1>2
<1>4. ASSUME NEW k \in S PROVE k <= L - n
  <2>1. k \in 1..L /\ L - k \in Nat /\ L - (L - k) = k
    OBVIOUS
  <2>2. n <= L - k
    BY <1>2, <2>1
  <2> QED BY <1>2, <2>1, <2>2
<1> QED BY <1>3, <1>4

LEMMA PeerIsOther ==
    ASSUME NEW i \in Servers, NEW n
    PROVE  NextPeer(i, n) # i
<1> DEFINE later == {j \in Servers \ {i} : j > n}
<1>1. CASE later = {}
  BY <1>1, ServersAreNot0 DEF NextPeer, Nil
<1>2. CASE later # {}
  <2>1. \E j \in later : \A k \in later : j <= k
    BY <1>2, LeastOf, ServersAreNot0
  <2>2. (CHOOSE j \in later : \A k \in later : j <= k) \in later
    BY <2>1
  <2>3. NextPeer(i, n) \in later
    BY <1>2, <2>2 DEF NextPeer
  <2> QED BY <2>3
<1> QED BY <1>1, <1>2

LEMMA FindMaxAgreeIndexIs ==
    ASSUME NEW q, Len(q) \in Nat, NEW i, NEW match
    PROVE  LET n == FindMaxAgreeIndex(q, i, match)
           IN \/ /\ n = Nil
                 /\ \A k \in 1..Len(q) : ~IsQuorum({i} \cup {j \in Servers : match[j] >= k})
              \/ /\ n \in 1..Len(q) /\ IsQuorum({i} \cup {j \in Servers : match[j] >= n})
                 /\ \A k \in 1..Len(q) :
                       IsQuorum({i} \cup {j \in Servers : match[j] >= k}) => k <= n
<1> DEFINE agreed == {n \in 1..Len(q) : IsQuorum({i} \cup {k \in Servers : match[k] >= n})}
<1>1. CASE agreed = {}
  BY <1>1 DEF FindMaxAgreeIndex
<1>2. CASE agreed # {}
  <2>1. agreed \subseteq 1..Len(q)
    OBVIOUS
  <2>2. \E n \in agreed : \A k \in agreed : k <= n
    BY <1>2, <2>1, GreatestOf
  <2>3. PICK n : n = FindMaxAgreeIndex(q, i, match) /\ n \in agreed /\ \A k \in agreed : k <= n
    BY <1>2, <2>2 DEF FindMaxAgreeIndex
  <2> QED BY <2>3
<1> QED BY <1>1, <1>2

LEMMA QuorumSuperset ==
    ASSUME NEW Q, NEW R \in SUBSET Servers, Q \subseteq R, IsQuorum(Q)
    PROVE  IsQuorum(R)
<1>1. IsFiniteSet(Servers)
  BY FS_Interval, RaftAssumption DEF Servers
<1>2. IsFiniteSet(R)
  BY <1>1, FS_Subset
<1>3. /\ Cardinality(Q) <= Cardinality(R) /\ IsFiniteSet(Q)
  BY <1>2, FS_Subset
<1>4. Cardinality(Q) \in Nat /\ Cardinality(R) \in Nat
  BY <1>2, <1>3, FS_CardinalityType
<1> QED BY <1>3, <1>4, RaftAssumption DEF IsQuorum

\* No server sends requests to itself.
IndexesOK ==
    /\ DOMAIN commitIndex = Servers /\ DOMAIN newCommitIndex = Servers
    /\ DOMAIN matchIndex = Servers /\ DOMAIN appendIdx = Servers
    /\ \A i \in Servers : appendIdx[i] # i

LEMMA InitIndexesOK == Init => IndexesOK
BY ServersAreNot0 DEF Init, IndexesOK, Nil

LEMMA NextIndexesOK == IndexesOK /\ [Next]_vars => IndexesOK'
<1> SUFFICES ASSUME IndexesOK, [Next]_vars PROVE IndexesOK'
  OBVIOUS
<1>1. ASSUME UNCHANGED <<commitIndex, newCommitIndex, matchIndex, appendIdx>> PROVE IndexesOK'
  BY <1>1 DEF IndexesOK
<1>2. ASSUME NEW i \in Servers, ServerNext(i) PROVE IndexesOK'
  <2>1. ASSUME NEW n, n # i, appendIdx' = [appendIdx EXCEPT ![i] = n],
               UNCHANGED <<commitIndex, newCommitIndex, matchIndex>>
        PROVE  IndexesOK'
    BY <2>1 DEF IndexesOK
  <2>2. CASE serverAppendEntriesLoop(i)
    BY <2>1, <2>2, PeerIsOther DEF serverAppendEntriesLoop, commitVars, leaderVars
  <2>3. CASE appendEntriesLoop(i)
    <3>1. UNCHANGED <<commitIndex, newCommitIndex, matchIndex>> /\ 0 # i
      BY <2>3, ServersAreNot0 DEF Nil, appendEntriesLoop, commitVars, leaderVars
    <3>2. CASE appendIdx' = [appendIdx EXCEPT ![i] = NextPeer(i, @)]
      BY <2>1, <3>1, <3>2, PeerIsOther
    <3>3. CASE appendIdx' = [appendIdx EXCEPT ![i] = 0]
      BY <2>1, <3>1, <3>3
    <3> QED BY <2>3, <3>2, <3>3 DEF appendEntriesLoop
  <2>4. CASE handleMsg(i)
    <3>1. appendIdx' = appendIdx /\ newCommitIndex' = newCommitIndex
          /\ DOMAIN commitIndex' = DOMAIN commitIndex /\ DOMAIN matchIndex' = DOMAIN matchIndex
      BY <2>4 DEF handleMsg, HandleRequestVoteRequest, HandleRequestVoteResponse,
         RejectAppendEntries, AcceptAppendEntries, HandleAppendEntriesResponse, LeaderAppends,
         RedirectClient, loopVars, commitVars, leaderVars
    <3> QED BY <3>1 DEF IndexesOK
  <2>5. CASE \/ serverRequestVoteLoop(i) \/ requestVoteLoop(i) \/ serverAdvanceCommitIndexLoop(i)
             \/ applyLoop(i) \/ serverBecomeLeaderLoop(i)
    <3>1. appendIdx' = appendIdx /\ DOMAIN newCommitIndex' = DOMAIN newCommitIndex
          /\ DOMAIN commitIndex' = DOMAIN commitIndex /\ DOMAIN matchIndex' = DOMAIN matchIndex
      BY <2>5 DEF serverRequestVoteLoop, requestVoteLoop, serverAdvanceCommitIndexLoop,
         applyLoop, serverBecomeLeaderLoop, loopVars, commitVars, leaderVars
    <3> QED BY <3>1 DEF IndexesOK
  <2> QED BY <1>2, <2>2, <2>3, <2>4, <2>5 DEF ServerNext
<1>3. ASSUME NEW c \in Clients, ClientNext(c) PROVE IndexesOK'
  BY <1>1, <1>3 DEF ClientNext, clientLoop, sndReq, rcvResp, clientTimeout, loopVars, commitVars,
                    leaderVars
<1>4. ASSUME NEW r \in Breakable, ConnectionBreaks(r) PROVE IndexesOK'
  BY <1>1, <1>4 DEF ConnectionBreaks, loopVars, commitVars, leaderVars
<1>5. CASE UNCHANGED vars
  BY <1>1, <1>5 DEF vars, loopVars, commitVars, leaderVars
<1> QED BY <1>2, <1>3, <1>4, <1>5 DEF Next

\* What a leader's log is.
LEMMA LeaderFacts ==
    ASSUME NEW h, Follows(h), NEW i \in Servers, state[i] = "leader"
    PROVE  /\ h \in Histories /\ LogsMatch(h) /\ currentTerm[i] \in h.elected /\ currentTerm[i] \in Nat
           /\ h.head[currentTerm[i]] = i /\ h.last[i] = currentTerm[i]
           /\ log[i] \in Seq(Entries) /\ Len(log[i]) \in Nat
           /\ Len(log[i]) = Len(h.log[currentTerm[i]])
           /\ h.accepted[i][currentTerm[i]] = Len(log[i])
           /\ \A k \in 1..Len(log[i]) : log[i][k] = h.log[currentTerm[i]][k]
           /\ h.base[currentTerm[i]] <= Len(log[i])
<1>1. HistoryOK(h, currentTerm) /\ ServerOK(h, i)
  BY DEF Follows
<1>2. LogFollows(h, i) /\ Leads(h, i)
  BY <1>1 DEF ServerOK
<1>3. /\ currentTerm[i] \in h.elected /\ h.head[currentTerm[i]] = i
      /\ h.last[i] = currentTerm[i] /\ Len(log[i]) = Len(h.log[currentTerm[i]])
  BY <1>2 DEF Leads
<1>4. \A k \in 1..Len(log[i]) : log[i][k] = h.log[currentTerm[i]][k]
  BY <1>2, <1>3 DEF LogFollows, Agree
<1> QED BY <1>1, <1>2, <1>3, <1>4, ServerFacts DEF HistoryOK

\* What is sent of a log.
LEMMA RestOfLog ==
    ASSUME NEW q \in Seq(Entries), NEW p \in Nat, p <= Len(q)
    PROVE  LET E == SubSeq(q, p + 1, Len(q))
           IN /\ E \in Seq(Entries) /\ Len(E) = Len(q) - p
              /\ \A k \in 1..Len(q) - p : E[k] = q[p + k]
<1>1. PICK L \in Nat : L = Len(q)
  OBVIOUS
<1>2. \A k \in (p + 1)..L : q[k] \in Entries
  BY <1>1
<1> DEFINE E == SubSeq(q, p + 1, L)
<1>3. E \in Seq(Entries)
  BY <1>1, <1>2
<1>4. Len(E) = L - p
  BY <1>1
<1>5. ASSUME NEW k \in 1..L - p PROVE E[k] = q[p + k]
  BY <1>1
<1> QED BY <1>1, <1>3, <1>4, <1>5

LEMMA appendEntriesLoopFollows ==
    ASSUME IInv, IInv', DInv, IndexesOK, NEW h, Follows(h), NEW i \in Servers, appendEntriesLoop(i)
    PROVE  Follows(h)'
<1>1. IsNetwork(net) /\ ConnectionsOK(net)
  BY DEF IInv, NetOK, Follows, NetworkOK
<1>2. UNCHANGED <<roleVars, votesGranted, log, leaderVars, commitIndex, newCommitIndex>>
  BY DEF appendEntriesLoop, logVars, commitVars
<1>3. CASE net' = net
  <2> DEFINE a == [mtype |-> "none"]
  <2>1. a.mtype = "none"
    OBVIOUS
  <2> HIDE DEF a
  <2>2. NetAdds(net, <<>>, a)
    BY <1>1, <1>3, SameNet
  <2> QED BY <1>2, <2>1, <2>2, PlainFollows
<1>4. CASE state[i] = "leader" /\ Send(net, "append", i, appendIdx[i],
                                       AppendEntriesMessage(i, appendIdx[i]))
  <2>1. PICK j \in Servers \ {i} : j = appendIdx[i]
    BY DEF appendEntriesLoop, IndexesOK
  <2>2. PICK t \in h.elected : t = currentTerm[i] /\ t \in Nat
    BY <1>4, LeaderFacts
  <2>3. PICK L \in Nat : L = Len(log[i])
    BY <1>4, LeaderFacts
  <2>4. /\ h \in Histories /\ h.head[t] = i /\ h.last[i] = t /\ log[i] \in Seq(Entries)
        /\ L = Len(h.log[t]) /\ h.base[t] <= L
        /\ \A k \in 1..L : log[i][k] = h.log[t][k]
    BY <1>4, <2>2, <2>3, LeaderFacts
  <2>5. PICK p \in Nat : p = nextIndex[i][j] - 1 /\ p <= L
    <3>1. nextIndex[i][j] \in Nat \ {0}
      BY DEF DInv, NextOK
    <3>2. nextIndex[i][j] <= L + 1
      BY <1>4, <2>3 DEF Follows, ServerOK, Knows
    <3> QED BY <3>1, <3>2
  <2>6. PICK E \in Seq(Entries) : /\ E = SubSeq(log[i], p + 1, L) /\ Len(E) = L - p
                                  /\ \A k \in 1..L - p : E[k] = log[i][p + k]
    <3>1. log[i] \in Seq(Entries) /\ p <= Len(log[i])
      BY <2>3, <2>4, <2>5
    <3> QED BY <2>3, <3>1, RestOfLog
  <2> DEFINE A == [mtype |-> "apq", mterm |-> t, mprevLogIndex |-> p,
                   mprevLogTerm |-> IF p > 0 THEN log[i][p].term ELSE 0,
                   mentries |-> E, mcommitIndex |-> commitIndex[i], msource |-> i]
  <2>7. Send(net, "append", i, j, A)
    <3>1. AppendEntriesMessage(i, j) = A
      BY <2>2, <2>3, <2>5, <2>6 DEF AppendEntriesMessage
    <3> HIDE DEF A
    <3> QED BY <1>4, <2>1, <3>1
  <2>8. PICK a : a = A
    OBVIOUS
  <2>9. PICK r : r = <<"append", i, j>> /\ r[3] = j
    <3>1. <<"append", i, j>>[3] = j
      OBVIOUS
    <3> QED BY <3>1
  <2>10. /\ a.mtype = "apq" /\ a.mterm = t /\ a.mprevLogIndex = p
         /\ a.mprevLogTerm = IF p > 0 THEN log[i][p].term ELSE 0
         /\ a.mentries = E /\ a.mcommitIndex = commitIndex[i] /\ a.msource = i
    BY <2>8
  <2>11. NetAdds(net, r, a)
    BY <1>1, <2>7, <2>8, <2>9, SendNet
  <2> HIDE DEF A
  <2>12. Reach(a) = L
    <3>1. p + (L - p) = L
      BY <2>5
    <3> QED BY <2>6, <2>10, <3>1 DEF Reach
  <2>13. AppendRequestOK(h, r, a)
    <3>1. \A k \in 1..Len(E) : E[k] = h.log[t][p + k]
      <4> TAKE k \in 1..Len(E)
      <4>0. p <= L /\ Len(E) = L - p
        BY <2>5, <2>6
      <4>1. k \in 1..L - p /\ p + k \in 1..L
        BY <4>0
      <4> QED BY <2>4, <2>6, <4>1
    <3>2. p > 0 => log[i][p] = h.log[t][p]
      <4>1. p > 0 => p \in 1..L
        BY <2>5
      <4> QED BY <2>4, <4>1
    <3>3. h.accepted[j][t] <= L
      <4>1. h.accepted[j][t] \in Int
        BY <2>2, <2>4, AcceptedIsInt
      <4>2. h.accepted[j][t] # -1 => h.accepted[j][t] <= L
        BY <2>2, <2>4 DEF Follows, HistoryOK, AcceptsOK
      <4> QED BY <4>1, <4>2
    <3>4. CommitAt(h, t, commitIndex[i], L)
      BY <2>3, <2>4 DEF Follows, ServerOK, Commits
    <3>5. L <= Len(h.log[t])
      BY <2>4
    <3> QED BY <2>2, <2>4, <2>9, <2>10, <2>12, <3>1, <3>2, <3>3, <3>4, <3>5 DEF AppendRequestOK
  <2>14. MsgOK(h, r, a)' /\ ~IsGrant(a)
    <3>1. AppendRequestOK(h, r, a)'
      BY <2>13 DEF AppendRequestOK, CommitAt, Chosen, Reach
    <3> QED BY <2>10, <3>1 DEF MsgOK, VoteRequestOK, AckOK, IsAck, IsGrant
  <2>15. ASSUME NEW e, NEW x, e[1] = r, OnConnection(net, e, x)
         PROVE  Ordered(x, a)
    <3> SUFFICES ASSUME Carries(x), x.mtype = "apq", x.mterm = t PROVE Reach(x) <= L
      BY <2>10, <2>12 DEF Ordered
    <3>1. MsgOK(h, r, x)
      BY <2>15 DEF Follows, NetworkOK, MessagesOK
    <3> QED BY <2>4, <3>1 DEF MsgOK, AppendRequestOK
  <2> QED BY <1>2, <2>11, <2>14, <2>15, IdleFollows
<1> QED BY <1>3, <1>4 DEF appendEntriesLoop, Send

\* What a section of server i does to indexes.
LEMMA IndexStep ==
    ASSUME IInv, IInv', NEW h, Follows(h), NEW i \in Servers,
           UNCHANGED <<roleVars, votesGranted, log, leaderVars>>,
           \A j \in Servers \ {i} : /\ commitIndex'[j] = commitIndex[j]
                                    /\ newCommitIndex'[j] = newCommitIndex[j],
           Commits(h, i)', Knows(h, i)',
           NEW n, NEW r, NEW a, NetAdds(n, r, a), a.mtype \in {"response", "none"}
    PROVE  Follows(h)'
<1>1. QuietRoles
  BY SameRolesQuiet
<1>2. TermsRise /\ currentTerm \in [Servers -> Nat]
  BY <1>1, QuietTermsRise DEF IInv, RolesOK
<1>3. h \in Histories
  BY DEF Follows, HistoryOK
<1>4. Grows(h, h, currentTerm')
  BY <1>3, SameGrows
<1>5. HistoryOK(h, currentTerm')
  BY <1>2, TermsRiseKeeps DEF Follows, TermsRise
<1>6. ~IsGrant(a) /\ MsgOK(h, r, a)' /\ \A x : Ordered(x, a)
  <2>1. a.mtype # "rvq" /\ ~Carries(a) /\ ~IsGrant(a)
    BY DEF Carries, IsAck, IsGrant
  <2> QED BY <2>1, PlainMessage
<1>7. \A k, j \in Servers, t \in Nat : Holds(k, j, t)' => Holds(k, j, t)
  BY <1>1, <1>6, HoldsKept DEF IInv
<1>8. ASSUME NEW j \in Servers PROVE ServerOK(h, j)'
  <2>1. UNCHANGED <<log, state, currentTerm, matchIndex, nextIndex>>
    BY DEF roleVars, leaderVars
  <2>2. CASE j = i
    <3>1. LogFollows(h, i)' /\ Leads(h, i)'
      BY <2>1 DEF Follows, ServerOK, LogFollows, Leads
    <3> QED BY <2>2, <3>1 DEF ServerOK
  <2>3. CASE j # i
    <3>1. Keeps(h, h, j)
      BY <2>1, <2>3 DEF Keeps
    <3> QED BY <1>4, <3>1, KeepsServer DEF Follows
  <2> QED BY <2>2, <2>3
<1>9. RolesFollow(h)'
  BY <1>1, <1>2, <1>4, <1>7, QuietRolesFollow DEF Follows
<1>10. NetworkOK(h)'
  <2>1. CandidatesStay
    BY DEF CandidatesStay, roleVars
  <2>2. ASSUME NEW e, NEW m, OnConnection(n, e, m) PROVE MsgOK(h, e[1], m)'
    <3>1. OnConnection(net, e, m)
      BY <2>2 DEF NetAdds
    <3>2. MsgOK(h, e[1], m) /\ MessageOK(m)
      BY <3>1 DEF Follows, NetworkOK, MessagesOK, IInv, NetOK
    <3>3. m.mtype = "apq" => h.accepted[e[1][3]][m.mterm] <= Reach(m)
      BY <3>2 DEF MsgOK, AppendRequestOK
    <3>4. IsAck(m) /\ state'[e[1][3]] = "leader" /\ currentTerm'[e[1][3]] = m.mterm =>
             matchIndex'[e[1][3]][m.msource] <= m.mmatchIndex
      BY <3>2 DEF MsgOK, AckOK, roleVars, leaderVars
    <3> QED BY <1>2, <1>4, <2>1, <3>2, <3>3, <3>4, OldMessage
  <2> QED BY <1>6, <2>2, NetworkKept DEF Follows, NetworkOK
<1> QED BY <1>5, <1>8, <1>9, <1>10 DEF Follows

\* What a quorum is known to hold of the leader's own entries is committed.
LEMMA serverAdvanceCommitIndexLoopFollows ==
    ASSUME IInv, IInv', NEW h, Follows(h), NEW i \in Servers, serverAdvanceCommitIndexLoop(i),
           IndexesOK
    PROVE  Follows(h)'
<1>1. /\ UNCHANGED <<roleVars, votesGranted, log, leaderVars>> /\ net' = net
      /\ commitIndex' = commitIndex /\ state[i] = "leader"
      /\ NextCommitIndex(i) > commitIndex[i] /\ newCommitIndex'[i] = NextCommitIndex(i)
      /\ \A j \in Servers \ {i} : newCommitIndex'[j] = newCommitIndex[j]
  BY DEF serverAdvanceCommitIndexLoop, logVars, commitVars, IndexesOK
<1>2. PICK t \in h.elected : t = currentTerm[i] /\ t \in Nat
  BY <1>1, LeaderFacts
<1>3. PICK L \in Nat : L = Len(log[i])
  BY <1>1, LeaderFacts
<1>4. /\ h \in Histories /\ h.head[t] = i /\ h.last[i] = t /\ log[i] \in Seq(Entries)
      /\ L = Len(h.log[t]) /\ h.accepted[i][t] = L
      /\ \A k \in 1..L : log[i][k] = h.log[t][k]
  BY <1>1, <1>2, <1>3, LeaderFacts
<1>5. ServerOK(h, i) /\ commitIndex[i] \in Nat
  BY DEF Follows, ServerOK, Commits, CommitAt
<1>6. PICK n : /\ n = NextCommitIndex(i) /\ n \in 1..L /\ log[i][n].term = t
               /\ IsQuorum({i} \cup {k \in Servers : matchIndex[i][k] >= n})
  <2>1. ~(NextCommitIndex(i) = commitIndex[i])
    BY <1>1, <1>5
  <2>2. /\ NextCommitIndex(i) = FindMaxAgreeIndex(log[i], i, matchIndex[i])
        /\ FindMaxAgreeIndex(log[i], i, matchIndex[i]) # Nil
        /\ log[i][FindMaxAgreeIndex(log[i], i, matchIndex[i])].term = t
    BY <1>2, <2>1 DEF NextCommitIndex
  <2>3. PICK n : n = FindMaxAgreeIndex(log[i], i, matchIndex[i])
    OBVIOUS
  <2>4. n \in 1..Len(log[i]) /\ IsQuorum({i} \cup {k \in Servers : matchIndex[i][k] >= n})
    <3>1. Len(log[i]) \in Nat
      BY <1>3
    <3> QED BY <2>2, <2>3, <3>1, FindMaxAgreeIndexIs
  <2> QED BY <1>3, <2>2, <2>3, <2>4
<1>7. Chosen(h, t, n)
  <2> DEFINE Q == {i} \cup {k \in Servers : matchIndex[i][k] >= n}
  <2>1. Q \in SUBSET Servers
    OBVIOUS
  <2>2. ASSUME NEW v \in Q PROVE h.accepted[v][t] >= n
    <3>1. CASE v = i
      BY <1>4, <1>6, <3>1
    <3>2. CASE v # i
      <4>1. v \in Servers /\ matchIndex[i][v] >= n /\ matchIndex[i][v] \in Nat
        BY <1>5, <2>2, <3>2 DEF ServerOK, Knows
      <4>2. matchIndex[i][v] = 0 \/ matchIndex[i][v] <= h.accepted[v][t]
        BY <1>1, <1>2, <1>5, <4>1 DEF ServerOK, Knows
      <4>3. h.accepted[v][t] \in Int
        BY <1>2, <1>4, <4>1, AcceptedIsInt
      <4> QED BY <1>6, <4>1, <4>2, <4>3
    <3> QED BY <3>1, <3>2
  <2>3. h.log[t][n].term = t
    BY <1>4, <1>6
  <2> HIDE DEF Q
  <2>4. IsQuorum(Q)
    BY <1>6 DEF Q
  <2> QED BY <1>4, <1>6, <2>1, <2>2, <2>3, <2>4 DEF Chosen
<1>8. CommitAt(h, t, n, L)
  <2>1. Agree(h.log[t], h.log[t], n) /\ n \in Nat /\ n <= n /\ n <= L /\ t <= t
    BY <1>2, <1>4, <1>6 DEF Agree
  <2>2. n \in 1..Len(h.log[t])
    BY <1>4, <1>6
  <2> QED BY <1>7, <2>1, <2>2 DEF CommitAt
<1>9. CommitAt(h, t, commitIndex[i], L)
  BY <1>3, <1>4, <1>5 DEF ServerOK, Commits
<1>10. Commits(h, i)'
  <2>1. /\ commitIndex'[i] = commitIndex[i] /\ newCommitIndex'[i] = n /\ Len(log'[i]) = L
    BY <1>1, <1>3, <1>6
  <2> QED BY <1>4, <1>8, <1>9, <2>1 DEF Commits
<1>11. Knows(h, i)'
  <2>1. /\ commitIndex'[i] = commitIndex[i] /\ newCommitIndex'[i] = n
        /\ UNCHANGED <<log, state, currentTerm, matchIndex, nextIndex>>
    BY <1>1, <1>6 DEF roleVars, leaderVars
  <2> QED BY <1>5, <1>6, <2>1 DEF ServerOK, Knows, IsQuorum
<1> DEFINE a == [mtype |-> "none"]
<1>12. a.mtype = "none"
  OBVIOUS
<1> HIDE DEF a
<1>13. NetAdds(net, <<>>, a)
  BY <1>1, SameNet DEF Follows, NetworkOK
<1> QED BY <1>1, <1>10, <1>11, <1>12, <1>13, IndexStep

LEMMA CommitLess ==
    ASSUME NEW h \in Histories, NEW t \in h.elected, NEW d, NEW n \in Nat, CommitAt(h, t, d, n),
           NEW c \in Nat, c <= d
    PROVE  CommitAt(h, t, c, n)
<1> SUFFICES ASSUME c # 0 PROVE CommitAt(h, t, c, n)
  BY DEF CommitAt
<1>1. d \in Nat /\ d # 0
  BY DEF CommitAt
<1>2. PICK s \in h.elected : \E k \in 1..Len(h.log[s]) :
         /\ s <= t /\ Chosen(h, s, k) /\ d <= k /\ d <= n /\ Agree(h.log[t], h.log[s], d)
  BY <1>1 DEF CommitAt
<1>3. PICK k \in 1..Len(h.log[s]) :
         /\ s <= t /\ Chosen(h, s, k) /\ d <= k /\ d <= n /\ Agree(h.log[t], h.log[s], d)
  BY <1>2
<1>4. c <= k /\ c <= n
  BY <1>1, <1>3
<1>5. Agree(h.log[t], h.log[s], c)
  <2>1. h.log[t] \in Seq(Entries) /\ h.log[s] \in Seq(Entries)
    BY LogTypes
  <2> QED BY <1>1, <1>3, <2>1, AgreeRules
<1> QED BY <1>3, <1>4, <1>5 DEF CommitAt

\* The entries applied are among those committed.
LEMMA applyLoopFollows ==
    ASSUME IInv, IInv', NEW h, Follows(h), NEW i \in Servers, applyLoop(i), IndexesOK
    PROVE  Follows(h)'
<1> DEFINE entry == log[i][commitIndex[i] + 1]
           newSm == ApplyLogEntry(entry, sm[i])
           A == [mtype |-> "response", type |-> entry.cmd.type, msuccess |-> TRUE,
                 idx |-> entry.cmd.idx, key |-> entry.cmd.key,
                 value |-> IF entry.cmd.key \in DOMAIN newSm THEN newSm[entry.cmd.key] ELSE Nil,
                 mleaderHint |-> i]
<1>1. /\ UNCHANGED <<roleVars, votesGranted, log, leaderVars>> /\ newCommitIndex' = newCommitIndex
      /\ commitIndex[i] < newCommitIndex[i] /\ commitIndex'[i] = commitIndex[i] + 1
      /\ \A j \in Servers \ {i} : commitIndex'[j] = commitIndex[j]
      /\ Write(net, "apply", i, entry.client, A)
  BY DEF applyLoop, Applying, logVars, loopVars, IndexesOK
<1>2. ServerOK(h, i) /\ HistoryOK(h, currentTerm) /\ IsNetwork(net) /\ ConnectionsOK(net)
  BY DEF Follows, NetworkOK, IInv, NetOK
<1>3. PICK L \in Nat : L = Len(log[i])
  BY <1>2, ServerFacts DEF ServerOK
<1>4. PICK t \in h.elected : t = h.last[i]
  BY <1>2, ServerFacts DEF ServerOK
<1>5. CommitAt(h, t, newCommitIndex[i], L) /\ commitIndex[i] \in Nat /\ newCommitIndex[i] \in Nat
  BY <1>2, <1>3, <1>4 DEF ServerOK, Commits, CommitAt
<1>6. PICK c \in Nat : c = commitIndex[i] + 1
  BY <1>5
<1>7. PICK d \in Nat : d = newCommitIndex[i] /\ c <= d
  BY <1>1, <1>5, <1>6
<1>8. CommitAt(h, t, c, L)
  BY <1>2, <1>5, <1>7, CommitLess DEF HistoryOK
<1>9. Commits(h, i)'
  <2>1. commitIndex'[i] = c /\ newCommitIndex'[i] = d /\ Len(log'[i]) = L
    BY <1>1, <1>3, <1>6, <1>7
  <2> QED BY <1>4, <1>5, <1>7, <1>8, <2>1 DEF Commits
<1>10. Knows(h, i)'
  <2>1. /\ commitIndex'[i] = c /\ newCommitIndex'[i] = d /\ d = newCommitIndex[i]
        /\ UNCHANGED <<log, state, currentTerm, matchIndex, nextIndex>>
        /\ matchIndex[i] \in [Servers -> Nat]
    BY <1>1, <1>2, <1>6, <1>7 DEF roleVars, leaderVars, ServerOK, Knows
  <2>2. ASSUME state[i] = "leader"
        PROVE  \A x \in {c, d} : x <= h.base[currentTerm[i]]
                                 \/ IsQuorum({i} \cup {k \in Servers : matchIndex[i][k] >= x})
    <3>1. d <= h.base[currentTerm[i]] \/ IsQuorum({i} \cup {k \in Servers : matchIndex[i][k] >= d})
      BY <1>2, <1>7, <2>2 DEF ServerOK, Knows
    <3>2. CASE d <= h.base[currentTerm[i]]
      <4>1. h.base[currentTerm[i]] \in Nat
        BY <1>2, LogTypes DEF HistoryOK
      <4> QED BY <1>7, <3>2, <4>1
    <3>3. CASE IsQuorum({i} \cup {k \in Servers : matchIndex[i][k] >= d})
      <4>1. {i} \cup {k \in Servers : matchIndex[i][k] >= d}
               \subseteq {i} \cup {k \in Servers : matchIndex[i][k] >= c}
        BY <1>7, <2>1
      <4>2. {i} \cup {k \in Servers : matchIndex[i][k] >= c} \in SUBSET Servers
        OBVIOUS
      <4>3. IsQuorum({i} \cup {k \in Servers : matchIndex[i][k] >= c})
        BY <3>3, <4>1, <4>2, QuorumSuperset
      <4> QED BY <3>3, <4>3
    <3> QED BY <3>1, <3>2, <3>3
  <2> QED BY <1>2, <2>1, <2>2 DEF ServerOK, Knows, IsQuorum
<1>11. A.mtype = "response"
  OBVIOUS
<1> HIDE DEF A, entry
<1>12. PICK b, r : b = A /\ r = <<"apply", i, entry.client>>
  OBVIOUS
<1>13. NetAdds(net, r, b)
  BY <1>1, <1>2, <1>12, SendNet DEF Send
<1> QED BY <1>1, <1>9, <1>10, <1>11, <1>12, <1>13, IndexStep

-----------------------------------------------------------------------------
(* Elections *)

\* A candidate with a quorum of votes is the first leader of its term.
LEMMA ElectedFirst ==
    ASSUME IInv, NEW h, Follows(h), NEW i \in Servers, state[i] = "candidate",
           IsQuorum(votesGranted[i])
    PROVE  /\ currentTerm[i] \notin h.elected
           /\ \A v \in votesGranted[i] : /\ h.vote[v][currentTerm[i]] = i
                                         /\ UpToDateWith(log[i], h, v, currentTerm[i])
<1>1. PICK t \in Nat : t = currentTerm[i] /\ t # 0
  BY DEF Follows, RolesFollow, IInv, RolesOK
<1>2. votesGranted[i] \in SUBSET Servers
  BY DEF IInv, RolesOK
<1>3. ASSUME NEW v \in votesGranted[i] PROVE h.vote[v][t] = i
  <2>1. Holds(v, i, t)
    BY <1>1 DEF Holds, Campaigns
  <2> QED BY <1>2, <2>1 DEF Follows, RolesFollow
<1>4. t \notin h.elected
  <2> SUFFICES ASSUME t \in h.elected PROVE FALSE
    OBVIOUS
  <2>1. PICK Q \in SUBSET Servers :
           IsQuorum(Q) /\ \A v \in Q : h.vote[v][t] # Nil /\ h.vote[v][t] = h.head[t]
    BY <1>1 DEF Follows, HistoryOK, VotesOK
  <2>2. PICK k \in Servers : k \in Q /\ k \in votesGranted[i]
    BY <1>2, <2>1, QuorumsMeet
  <2>3. h.head[t] = i
    BY <1>3, <2>1, <2>2
  <2>4. t = currentTerm[h.head[t]] => state[h.head[t]] # "candidate"
    BY <1>1 DEF Follows, RolesFollow
  <2> QED BY <1>1, <2>3, <2>4
<1>5. ASSUME NEW v \in votesGranted[i] PROVE UpToDateWith(log[i], h, v, t)
  <2>1. v \in Servers /\ h.vote[v][t] = i
    BY <1>2, <1>3
  <2> QED BY <1>1, <1>4, <2>1 DEF Follows, RolesFollow
<1> QED BY <1>1, <1>3, <1>4, <1>5

LEMMA serverBecomeLeaderLoopFollows ==
    ASSUME IInv, IInv', DInv, IndexesOK, NEW h, Follows(h), NEW i \in Servers,
           serverBecomeLeaderLoop(i)
    PROVE  \E g : Follows(g)'
<1>1. /\ state[i] = "candidate" /\ IsQuorum(votesGranted[i]) /\ state'[i] = "leader"
      /\ \A j \in Servers \ {i} : /\ state'[j] = state[j] /\ nextIndex'[j] = nextIndex[j]
                                  /\ matchIndex'[j] = matchIndex[j]
      /\ nextIndex'[i] = [j \in Servers |-> Len(log[i]) + 1]
      /\ matchIndex'[i] = [j \in Servers |-> 0]
      /\ UNCHANGED <<currentTerm, votedFor, votesGranted, log, commitIndex, newCommitIndex, net>>
  BY DEF serverBecomeLeaderLoop, IInv, RolesOK, DInv, NextOK, IndexesOK, logVars, commitVars, loopVars
<1>2. HistoryOK(h, currentTerm) /\ h \in Histories /\ currentTerm \in [Servers -> Nat] /\ RolesFollow(h)
  BY DEF Follows, HistoryOK
<1>3. PICK t \in Nat \ {0} : t = currentTerm[i]
  BY <1>2 DEF RolesFollow
<1>4. PICK q \in Seq(Entries) : q = log[i]
  BY <1>2, ServerFacts DEF Follows, ServerOK
<1>5. PICK L \in Nat : L = Len(q)
  OBVIOUS
<1>6. PICK a \in h.elected : a = h.last[i] /\ a <= t /\ a \in Nat
  BY <1>2, <1>3, ServerFacts DEF Follows, ServerOK
<1>7. L = h.accepted[i][a] /\ Agree(q, h.log[a], L)
  BY <1>4, <1>5, <1>6 DEF Follows, ServerOK, LogFollows
<1>8. t \notin h.elected
  BY <1>1, <1>3, ElectedFirst
<1>9. PICK g : ElectStep(h, g, i, t, q)
  BY <1>2, ElectStepExists
<1>10. HistoryOK(g, currentTerm)
  <2>1. PICK Q \in SUBSET Servers : Q = votesGranted[i]
    BY DEF IInv, RolesOK
  <2>2. IsQuorum(Q) /\ \A v \in Q : h.vote[v][t] = i /\ UpToDateWith(q, h, v, t)
    BY <1>1, <1>3, <1>4, <2>1, ElectedFirst
  <2>3. Len(q) = h.accepted[i][h.last[i]] /\ Agree(q, h.log[h.last[i]], Len(q))
    BY <1>5, <1>6, <1>7
  <2> QED BY <1>2, <1>3, <1>8, <1>9, <2>2, <2>3, ElectKeepsHistory
<1>11. Grows(h, g, currentTerm)
  BY <1>2, <1>3, <1>8, <1>9, ElectGrows
<1>12. /\ g.elected = h.elected \cup {t} /\ g.vote = h.vote /\ g.head[t] = i /\ g.log[t] = q
       /\ g.base[t] = L /\ g.accepted[i][t] = L /\ g.last[i] = t
       /\ \A u \in Nat : u # t => /\ g.head[u] = h.head[u] /\ g.log[u] = h.log[u]
       /\ \A w \in Servers, u \in Nat : w # i \/ u # t => g.accepted[w][u] = h.accepted[w][u]
       /\ \A w \in Servers : w # i => g.last[w] = h.last[w]
  BY <1>5, <1>9 DEF ElectStep
<1>13. ASSUME NEW j \in Servers PROVE ServerOK(g, j)'
  <2>1. CASE j # i
    <3>1. h.last[j] \in Nat
      BY <1>2, LogTypes
    <3>2. state[j] = "leader" => Len(g.log[currentTerm[j]]) = Len(h.log[currentTerm[j]])
      <4>1. state[j] = "leader" => currentTerm[j] \in h.elected /\ currentTerm[j] \in Nat
        BY <1>2 DEF Follows, ServerOK, Leads
      <4> QED BY <1>8, <1>12, <4>1
    <3>3. Keeps(h, g, j)
      BY <1>1, <1>12, <2>1, <3>1, <3>2 DEF Keeps
    <3> QED BY <1>2, <1>11, <3>3, KeepsServer DEF Follows
  <2>2. CASE j = i
    <3>1. Agree(q, q, L)
      BY <1>5 DEF Agree
    <3>2. LogFollows(g, i)'
      BY <1>1, <1>4, <1>5, <1>12, <3>1 DEF LogFollows
    <3>3. Leads(g, i)'
      BY <1>1, <1>3, <1>4, <1>5, <1>12 DEF Leads
    <3>4. ASSUME NEW c, CommitAt(h, a, c, L) PROVE CommitAt(g, t, c, L) /\ c <= L
      <4>1. a \in g.elected /\ t \in g.elected /\ L <= L /\ a # t
        BY <1>6, <1>8, <1>12
      <4>2. CommitAt(g, a, c, L)
        BY <1>6, <1>11, <3>4, <4>1, CommitAtGrows
      <4>3. CommitAt(g, t, c, L)
        BY <1>6, <1>10, <1>12, <4>1, <4>2, CommitMoves
      <4> QED BY <3>4, <4>3 DEF CommitAt
    <3>5. CommitAt(h, a, commitIndex[i], L) /\ CommitAt(h, a, newCommitIndex[i], L)
      BY <1>4, <1>5, <1>6 DEF Follows, ServerOK, Commits
    <3>6. Commits(g, i)'
      <4>1. /\ CommitAt(g, t, commitIndex[i], L) /\ CommitAt(g, t, newCommitIndex[i], L)
        BY <3>4, <3>5
      <4>2. /\ commitIndex'[i] = commitIndex[i] /\ newCommitIndex'[i] = newCommitIndex[i]
            /\ Len(log'[i]) = L
        BY <1>1, <1>4, <1>5
      <4> QED BY <1>12, <4>1, <4>2 DEF Commits
    <3>7. Knows(g, i)'
      <4>1. commitIndex[i] <= g.base[t] /\ newCommitIndex[i] <= g.base[t]
        BY <1>12, <3>4, <3>5
      <4>2. matchIndex'[i] \in [Servers -> Nat]
            /\ \A k \in Servers : matchIndex'[i][k] = 0 /\ nextIndex'[i][k] = L + 1
        BY <1>1, <1>4, <1>5
      <4>3. \A k \in Servers : nextIndex'[i][k] <= Len(log'[i]) + 1
        BY <1>1, <1>4, <1>5, <4>2
      <4>4. commitIndex'[i] = commitIndex[i] /\ newCommitIndex'[i] = newCommitIndex[i]
            /\ currentTerm'[i] = t
        BY <1>1, <1>3
      <4> QED BY <4>1, <4>2, <4>3, <4>4 DEF Knows
    <3> QED BY <2>2, <3>2, <3>3, <3>6, <3>7 DEF ServerOK
  <2> QED BY <2>1, <2>2
<1>14. RolesFollow(g)'
  <2>1. ASSUME NEW j \in Servers
        PROVE  currentTerm'[j] > 0 /\ g.vote[j][currentTerm'[j]] = votedFor'[j]
    BY <1>1, <1>2, <1>12 DEF RolesFollow
  <2>2. ASSUME NEW u \in g.elected \ {0}
        PROVE  /\ u <= currentTerm'[g.head[u]]
               /\ u = currentTerm'[g.head[u]] => state'[g.head[u]] # "candidate"
    <3>1. CASE u = t
      BY <1>1, <1>3, <1>12, <3>1
    <3>2. CASE u # t
      <4>1. u \in h.elected \ {0} /\ u \in Nat /\ g.head[u] = h.head[u] /\ h.head[u] \in Servers
        BY <1>2, <1>12, <3>2, LogTypes, HeadIsServer
      <4>2. PICK j \in Servers : j = g.head[u]
        BY <4>1
      <4>3. u <= currentTerm[j] /\ (u = currentTerm[j] => state[j] # "candidate")
        BY <1>2, <4>1, <4>2 DEF RolesFollow
      <4> QED BY <1>1, <4>2, <4>3
    <3> QED BY <3>1, <3>2
  <2>3. ASSUME NEW j \in Servers, NEW v \in Servers, NEW u \in Nat
        PROVE  /\ Holds(v, j, u)' => g.vote[v][u] = j
               /\ g.vote[v][u] = j => u <= currentTerm'[j]
    <3>1. Campaigns(j)' => Campaigns(j)
      BY <1>1 DEF Campaigns
    <3>2. Holds(v, j, u)' => Holds(v, j, u)
      BY <1>1, <3>1 DEF Holds, InFlight
    <3> QED BY <1>1, <1>2, <1>12, <3>2 DEF RolesFollow
  <2>4. ASSUME NEW j \in Servers, NEW v \in Servers, state'[j] = "candidate",
               g.vote[v][currentTerm'[j]] = j, currentTerm'[j] \notin g.elected
        PROVE  UpToDateWith(log'[j], g, v, currentTerm'[j])
    <3>1. state[j] = "candidate" /\ currentTerm'[j] = currentTerm[j] /\ log'[j] = log[j]
          /\ h.vote[v][currentTerm[j]] = j /\ currentTerm[j] \notin h.elected
      BY <1>1, <1>12, <2>4
    <3>2. UpToDateWith(log[j], h, v, currentTerm[j])
      BY <1>2, <3>1 DEF RolesFollow
    <3>3. h.vote[v][currentTerm[j]] # Nil /\ currentTerm[j] \in Nat
      BY <1>2, <3>1, ServersAreNot0
    <3>4. UpToDateWith(log[j], g, v, currentTerm[j])
      BY <1>2, <1>11, <3>1, <3>2, <3>3, UpToDateStays
    <3> QED BY <3>1, <3>4
  <2> QED BY <2>1, <2>2, <2>3, <2>4 DEF RolesFollow
<1>15. NetworkOK(g)'
  <2>1. TermsRise /\ CandidatesStay
    <3>1. \A j \in Servers : currentTerm[j] <= currentTerm[j]
      BY <1>2
    <3> QED BY <1>1, <1>2, <3>1 DEF TermsRise, CandidatesStay
  <2> DEFINE b == [mtype |-> "none"]
  <2>2. b.mtype # "rvq" /\ ~Carries(b)
    BY DEF Carries, IsAck
  <2> HIDE DEF b
  <2>3. NetAdds(net, <<>>, b)
    BY <1>1, SameNet DEF Follows, NetworkOK
  <2>4. ASSUME NEW e, NEW m, OnConnection(net, e, m) PROVE MsgOK(g, e[1], m)'
    <3>1. MsgOK(h, e[1], m) /\ MessageOK(m)
      BY <2>4 DEF Follows, NetworkOK, MessagesOK, IInv, NetOK
    <3>2. m.mtype = "apq" => g.accepted[e[1][3]][m.mterm] <= Reach(m)
      <4> SUFFICES ASSUME m.mtype = "apq" PROVE g.accepted[e[1][3]][m.mterm] <= Reach(m)
        OBVIOUS
      <4>1. /\ m.mterm \in h.elected /\ m.mterm \in Nat /\ e[1][3] \in Servers
            /\ h.accepted[e[1][3]][m.mterm] <= Reach(m)
        BY <1>2, <3>1, LogTypes DEF MsgOK, AppendRequestOK
      <4> QED BY <1>8, <1>12, <4>1
    <3>3. IsAck(m) /\ state'[e[1][3]] = "leader" /\ currentTerm'[e[1][3]] = m.mterm =>
             matchIndex'[e[1][3]][m.msource] <= m.mmatchIndex
      <4> SUFFICES ASSUME IsAck(m), state'[e[1][3]] = "leader", currentTerm'[e[1][3]] = m.mterm
                   PROVE  matchIndex'[e[1][3]][m.msource] <= m.mmatchIndex
        OBVIOUS
      <4>1. e[1][3] \in Servers /\ m.mmatchIndex \in Nat /\ m.msource \in Servers
        BY <3>1 DEF MsgOK, AckOK, MessageOK, IsAck
      <4>2. CASE e[1][3] = i
        BY <1>1, <4>1, <4>2
      <4>3. CASE e[1][3] # i
        <5>1. PICK k \in Servers : k = e[1][3] /\ k # i
          BY <4>1, <4>3
        <5>2. state[k] = "leader" /\ currentTerm[k] = m.mterm /\ matchIndex'[k] = matchIndex[k]
          BY <1>1, <5>1
        <5> QED BY <3>1, <5>1, <5>2 DEF MsgOK, AckOK
      <4> QED BY <4>2, <4>3
    <3> QED BY <1>2, <1>11, <2>1, <3>1, <3>2, <3>3, OldMessage
  <2> QED BY <2>2, <2>3, <2>4, NetworkKept, PlainMessage DEF Follows, NetworkOK
<1>16. HistoryOK(g, currentTerm')
  BY <1>1, <1>10
<1> QED BY <1>13, <1>14, <1>15, <1>16 DEF Follows

-----------------------------------------------------------------------------
(* Acknowledgements *)

\* The acknowledgements of a server that are still to come reach at least as far.
LEMMA LaterAck ==
    ASSUME IInv, NEW h, Follows(h), NEW i, NEW c \in Arriving(i), ~Overtakes(c), NEW e, NEW x,
           IsAck(Head(net[c])), IsAck(x), OnConnection(Taken(c), e, x),
           x.mterm = Head(net[c]).mterm, x.msource = Head(net[c]).msource, e[1][3] = i
    PROVE  Head(net[c]).mmatchIndex <= x.mmatchIndex
<1> DEFINE m == Head(net[c])
<1>1. /\ c \in DOMAIN net /\ c[1][3] = i /\ IsNetwork(net) /\ ConnectionsOK(net)
      /\ MsgOK(h, c[1], m)
  BY ArrivingIs
<1>2. c[1] = <<"handle", m.msource, i>>
  BY <1>1 DEF MsgOK, AckOK
<1>3. OnConnection(net, e, x)
  BY <1>1, TakenIsThere
<1>4. MsgOK(h, e[1], x)
  BY <1>3 DEF Follows, NetworkOK, MessagesOK
<1>5. e[1] = <<"handle", m.msource, i>>
  BY <1>4 DEF MsgOK, AckOK
<1>6. m.mtype = "app" /\ x.mtype = "app" /\ Carries(m) /\ Carries(x)
  BY DEF IsAck, Carries
<1>7. e[1] = c[1] /\ m.mtype \in {"apq", "app"} /\ x.mtype = m.mtype /\ x.mterm = m.mterm
  BY <1>2, <1>5, <1>6
<1>8. Before(net, m, x)
  BY <1>1, <1>7, TakenFirst
<1>9. Ordered(m, x)
  BY <1>8 DEF Follows, NetworkOK, InOrder
<1> QED BY <1>6, <1>9 DEF Ordered, Reach

\* A leader takes an acknowledgement for what its sender has accepted.
LEMMA HandleAppendEntriesResponseFollows ==
    ASSUME IInv, IInv', DInv, DInv', IndexesOK, NEW h, Follows(h), NEW i \in Servers,
           NEW c \in Arriving(i), ~Overtakes(c), HandleAppendEntriesResponse(i, c)
    PROVE  Follows(h)'
<1> DEFINE m == Head(net[c])
           u == UpdateTerm(i, m)
           stale == m.mterm < u.term
<1>1. /\ c \in DOMAIN net /\ IsNetwork(net) /\ ConnectionsOK(net) /\ RolesOK /\ MessageOK(m)
      /\ MsgOK(h, c[1], m) /\ c[1][3] = i /\ m.mtype = "app" /\ LogMessageOK(m)
  BY ArrivingIs, TakenIsThere DEF HandleAppendEntriesResponse, DInv, LogNetOK
<1>2. m.mterm \in Nat /\ SetRole(i, u) /\ m.msource \in Servers
  BY <1>1 DEF HandleAppendEntriesResponse, MessageOK
<1>3. QuietRoles
  BY <1>1, <1>2, UpdateTermQuiet
<1>4. PICK j \in Servers : j = m.msource
  BY <1>2
<1>5. /\ net' = Taken(c) /\ votesGranted' = votesGranted
      /\ UNCHANGED <<log, commitIndex, newCommitIndex>>
      /\ \A k \in Servers \ {i} : nextIndex'[k] = nextIndex[k] /\ matchIndex'[k] = matchIndex[k]
      /\ \A k \in Servers \ {j} : /\ nextIndex'[i][k] = nextIndex[i][k]
                                  /\ matchIndex'[i][k] = matchIndex[i][k]
      /\ nextIndex'[i][j] = IF stale THEN nextIndex[i][j]
                            ELSE IF m.msuccess THEN m.mmatchIndex + 1
                            ELSE LargerOf(nextIndex[i][j] - 1, 1)
      /\ matchIndex'[i][j] = IF stale \/ ~m.msuccess THEN matchIndex[i][j] ELSE m.mmatchIndex
      /\ DOMAIN matchIndex'[i] = Servers
  <2>1. nextIndex[i] \in [Servers -> Nat \ {0}] /\ matchIndex[i] \in [Servers -> Nat]
        /\ DOMAIN nextIndex = Servers /\ DOMAIN matchIndex = Servers
    BY DEF DInv, NextOK, Follows, ServerOK, Knows, IndexesOK
  <2>2. /\ net' = Taken(c) /\ votesGranted' = votesGranted
        /\ UNCHANGED <<log, commitIndex, newCommitIndex>>
        /\ nextIndex' = [nextIndex EXCEPT ![i][j] =
              IF stale THEN @ ELSE IF m.msuccess THEN m.mmatchIndex + 1 ELSE LargerOf(@ - 1, 1)]
        /\ matchIndex' = [matchIndex EXCEPT ![i][j] =
              IF stale \/ ~m.msuccess THEN @ ELSE m.mmatchIndex]
    BY <1>4 DEF HandleAppendEntriesResponse, logVars, commitVars, loopVars
  <2> HIDE DEF m, u, stale
  <2> QED BY <2>1, <2>2
<1>6. HistoryOK(h, currentTerm) /\ h \in Histories /\ currentTerm \in [Servers -> Nat]
  BY DEF Follows, HistoryOK
<1>7. TermsRise
  BY <1>3, QuietTermsRise DEF IInv
<1>8. Grows(h, h, currentTerm')
  BY <1>6, SameGrows
<1>9. HistoryOK(h, currentTerm')
  BY <1>6, <1>7, TermsRiseKeeps DEF TermsRise
<1>10. state'[i] = "leader" =>
          state[i] = "leader" /\ currentTerm'[i] = currentTerm[i] /\ u.term = currentTerm[i]
  BY <1>1, <1>2 DEF UpdateTerm, SetRole, RolesOK
<1>11. \A k \in Servers : matchIndex[i][k] \in Nat
  BY DEF Follows, ServerOK, Knows
\* What a leader learns.
<1>12. ASSUME state'[i] = "leader", ~stale, m.msuccess
       PROVE  /\ m.mterm = currentTerm[i] /\ IsAck(m) /\ m.mmatchIndex \in Nat
              /\ m.mmatchIndex <= h.accepted[j][currentTerm[i]]
              /\ matchIndex[i][j] <= m.mmatchIndex
  <2>1. m.mterm = currentTerm[i]
    <3>1. u.term >= m.mterm /\ u.term \in Nat
      BY <1>1, <1>2, UpdateTermDemotes DEF Demotion
    <3> QED BY <1>2, <1>10, <1>12, <3>1
  <2>2. IsAck(m)
    BY <1>1, <1>12 DEF IsAck
  <2> QED BY <1>1, <1>4, <1>10, <1>12, <2>1, <2>2 DEF MsgOK, AckOK
<1>13. m.msuccess => m.mmatchIndex \in Nat
  BY <1>1 DEF LogMessageOK
<1> HIDE DEF stale
<1>14. ServerOK(h, i)'
  <2>1. LogFollows(h, i)' /\ Commits(h, i)' /\ Leads(h, i)'
    <3>1. LogFollows(h, i)' /\ Commits(h, i)'
      BY <1>5 DEF Follows, ServerOK, LogFollows, Commits
    <3>2. Leads(h, i)'
      BY <1>5, <1>10 DEF Follows, ServerOK, Leads
    <3> QED BY <3>1, <3>2
  <2>2. \A k \in Servers : matchIndex'[i][k] \in Nat
    BY <1>5, <1>11, <1>13
  <2>3. matchIndex'[i] \in [Servers -> Nat]
    <3>1. matchIndex'[i] = [k \in Servers |-> matchIndex'[i][k]]
      <4>1. matchIndex[i] \in [Servers -> Nat] /\ DOMAIN matchIndex = Servers
        BY DEF Follows, ServerOK, Knows, IndexesOK
      <4>2. \E n : matchIndex' = [matchIndex EXCEPT ![i][j] = n]
        BY <1>4 DEF HandleAppendEntriesResponse
      <4> QED BY <4>1, <4>2
    <3> QED BY <2>2, <3>1
  <2>4. ASSUME state'[i] = "leader"
        PROVE  /\ \A k \in Servers :
                     /\ nextIndex'[i][k] <= Len(log[i]) + 1
                     /\ matchIndex'[i][k] = 0 \/ matchIndex'[i][k] <= h.accepted[k][currentTerm[i]]
               /\ \A x \in {commitIndex[i], newCommitIndex[i]} :
                     x <= h.base[currentTerm[i]]
                     \/ IsQuorum({i} \cup {k \in Servers : matchIndex'[i][k] >= x})
    <3>1. PICK t \in h.elected : t = currentTerm[i] /\ t \in Nat
      BY <1>10, <2>4, LeaderFacts
    <3>2. PICK L \in Nat : L = Len(log[i]) /\ L = Len(h.log[t])
      BY <1>10, <2>4, <3>1, LeaderFacts
    <3>3. /\ \A k \in Servers :
                /\ nextIndex[i][k] <= L + 1
                /\ matchIndex[i][k] = 0 \/ matchIndex[i][k] <= h.accepted[k][t]
          /\ \A x \in {commitIndex[i], newCommitIndex[i]} :
                x <= h.base[t] \/ IsQuorum({i} \cup {k \in Servers : matchIndex[i][k] >= x})
      BY <1>10, <2>4, <3>1, <3>2 DEF Follows, ServerOK, Knows
    <3>4. ~stale /\ m.msuccess => /\ m.mmatchIndex \in Nat /\ m.mmatchIndex <= h.accepted[j][t]
                                  /\ matchIndex[i][j] <= m.mmatchIndex /\ m.mmatchIndex <= L
      <4>1. h.accepted[j][t] \in Int
        BY <1>6, <3>1, AcceptedIsInt
      <4>2. h.accepted[j][t] # -1 => h.accepted[j][t] <= L
        BY <1>6, <3>1, <3>2 DEF HistoryOK, AcceptsOK
      <4> QED BY <1>12, <2>4, <3>1, <4>1, <4>2
    <3>5. nextIndex[i][j] \in Nat \ {0}
      BY DEF DInv, NextOK
    <3>6. nextIndex'[i][j] <= L + 1
      <4>1. CASE stale \/ m.msuccess
        BY <1>5, <3>3, <3>4, <4>1
      <4>2. CASE ~stale /\ ~m.msuccess
        <5>1. nextIndex'[i][j] = LargerOf(nextIndex[i][j] - 1, 1)
          BY <1>5, <4>2
        <5>2. nextIndex[i][j] <= L + 1
          BY <3>3
        <5> QED BY <3>2, <3>5, <5>1, <5>2 DEF LargerOf
      <4> QED BY <4>1, <4>2
    <3>7. matchIndex'[i][j] = 0 \/ matchIndex'[i][j] <= h.accepted[j][t]
      BY <1>5, <3>3, <3>4
    <3>8. matchIndex[i][j] <= matchIndex'[i][j]
      BY <1>5, <1>11, <3>4
    <3>9. ASSUME NEW x \in {commitIndex[i], newCommitIndex[i]}
          PROVE  x <= h.base[t] \/ IsQuorum({i} \cup {k \in Servers : matchIndex'[i][k] >= x})
      <4>1. CASE x <= h.base[t]
        BY <4>1
      <4>2. CASE IsQuorum({i} \cup {k \in Servers : matchIndex[i][k] >= x})
        <5>1. x \in Nat
          BY DEF Follows, ServerOK, Commits, CommitAt
        <5>2. \A k \in Servers : matchIndex[i][k] >= x => matchIndex'[i][k] >= x
          BY <1>5, <1>11, <2>2, <3>8, <5>1
        <5>3. {i} \cup {k \in Servers : matchIndex[i][k] >= x}
                 \subseteq {i} \cup {k \in Servers : matchIndex'[i][k] >= x}
          BY <5>2
        <5>4. {i} \cup {k \in Servers : matchIndex'[i][k] >= x} \in SUBSET Servers
          OBVIOUS
        <5> QED BY <4>2, <5>3, <5>4, QuorumSuperset
      <4> QED BY <3>3, <4>1, <4>2
    <3>10. ASSUME NEW k \in Servers
           PROVE  /\ nextIndex'[i][k] <= L + 1
                  /\ matchIndex'[i][k] = 0 \/ matchIndex'[i][k] <= h.accepted[k][t]
      BY <1>5, <3>3, <3>6, <3>7
    <3> QED BY <3>1, <3>2, <3>9, <3>10
  <2>5. Knows(h, i)'
    <3>1. CASE state'[i] = "leader"
      <4>1. currentTerm'[i] = currentTerm[i] /\ log'[i] = log[i] /\ commitIndex'[i] = commitIndex[i]
            /\ newCommitIndex'[i] = newCommitIndex[i]
        BY <1>5, <1>10, <3>1
      <4> QED BY <2>3, <2>4, <3>1, <4>1 DEF Knows, IsQuorum
    <3>2. CASE state'[i] # "leader"
      BY <2>3, <3>2 DEF Knows
    <3> QED BY <3>1, <3>2
  <2> QED BY <2>1, <2>5 DEF ServerOK
<1>15. ASSUME NEW k \in Servers PROVE ServerOK(h, k)'
  <2>1. CASE k = i
    BY <1>14, <2>1
  <2>2. CASE k # i
    <3>1. currentTerm[k] \in Nat
      BY <1>6
    <3>2. state'[k] = "leader" => state[k] = "leader" /\ currentTerm'[k] = currentTerm[k]
      BY <1>3, <3>1 DEF QuietRoles
    <3>3. Keeps(h, h, k)
      BY <1>5, <2>2, <3>2 DEF Keeps
    <3> QED BY <1>6, <1>8, <3>3, KeepsServer DEF Follows
  <2> QED BY <2>1, <2>2
<1> DEFINE a == [mtype |-> "none"]
<1>16. a.mtype # "rvq" /\ ~Carries(a) /\ ~IsGrant(a)
  BY DEF Carries, IsAck, IsGrant
<1> HIDE DEF a
<1>17. NetAdds(Taken(c), <<>>, a)
  BY <1>1, <1>5, TakenNet
<1>18. RolesFollow(h)'
  <2>1. \A k, d \in Servers, t \in Nat : Holds(k, d, t)' => Holds(k, d, t)
    BY <1>1, <1>3, <1>5, <1>16, <1>17, HoldsKept
  <2> QED BY <1>3, <1>5, <1>6, <1>7, <1>8, <2>1, QuietRolesFollow DEF Follows
<1>19. NetworkOK(h)'
  <2>1. CandidatesStay
    BY <1>3, <1>5, <1>6 DEF CandidatesStay, QuietRoles
  <2>2. ASSUME NEW e, NEW x, OnConnection(Taken(c), e, x) PROVE MsgOK(h, e[1], x)'
    <3>1. OnConnection(net, e, x)
      BY <2>2, <1>17 DEF NetAdds
    <3>2. MsgOK(h, e[1], x) /\ MessageOK(x)
      BY <3>1 DEF Follows, NetworkOK, MessagesOK, IInv, NetOK
    <3>3. x.mtype = "apq" => h.accepted[e[1][3]][x.mterm] <= Reach(x)
      BY <3>2 DEF MsgOK, AppendRequestOK
    <3>4. ASSUME IsAck(x), state'[e[1][3]] = "leader", currentTerm'[e[1][3]] = x.mterm
          PROVE  matchIndex'[e[1][3]][x.msource] <= x.mmatchIndex
      <4>1. PICK k \in Servers : k = e[1][3]
        BY <3>2, <3>4 DEF MsgOK, AckOK
      <4>2. PICK s \in Servers : s = x.msource
        BY <3>2, <3>4 DEF MessageOK, IsAck
      <4>3. state[k] = "leader" /\ currentTerm[k] = x.mterm
        <5>1. currentTerm[k] \in Nat
          BY <1>6
        <5> QED BY <1>3, <3>4, <4>1, <5>1 DEF QuietRoles
      <4>4. matchIndex[k][s] <= x.mmatchIndex
        BY <3>2, <3>4, <4>1, <4>2, <4>3 DEF MsgOK, AckOK
      <4>5. CASE k = i /\ s = j /\ ~stale /\ m.msuccess
        <5>1. IsAck(m) /\ x.mterm = m.mterm
          BY <1>12, <3>4, <4>1, <4>3, <4>5
        <5>2. m.mmatchIndex <= x.mmatchIndex
          BY <1>4, <2>2, <3>4, <4>1, <4>2, <4>5, <5>1, LaterAck
        <5> QED BY <1>5, <4>1, <4>2, <4>5, <5>2
      <4>6. CASE ~(k = i /\ s = j /\ ~stale /\ m.msuccess)
        <5>1. matchIndex'[k][s] = matchIndex[k][s]
          BY <1>5, <4>6
        <5> QED BY <4>1, <4>2, <4>4, <5>1
      <4> QED BY <4>5, <4>6
    <3> QED BY <1>6, <1>7, <1>8, <2>1, <3>2, <3>3, <3>4, OldMessage
  <2> QED BY <1>16, <1>17, <2>2, NetworkKept, PlainMessage DEF Follows, NetworkOK
<1> QED BY <1>9, <1>15, <1>18, <1>19 DEF Follows

-----------------------------------------------------------------------------
(* Entries accepted *)

\* What the log becomes when it is cut after an entry that the leader also has.
\* Log s has n entries, those of l.
IsPrefixOf(s, l, n) == s \in Seq(Entries) /\ Len(s) = n /\ Agree(s, l, n)

LEMMA AcceptedLog ==
    ASSUME NEW h \in Histories, LogsMatch(h), NEW t \in h.elected, NEW a \in h.elected,
           NEW q \in Seq(Entries), Agree(q, h.log[a], Len(q)), NEW p \in Nat,
           p = 0 \/ (p \in 1..Len(q) /\ p <= Len(h.log[t]) /\ q[p].term = h.log[t][p].term),
           NEW E \in Seq(Entries), p + Len(E) <= Len(h.log[t]),
           \A k \in 1..Len(E) : E[k] = h.log[t][p + k]
    PROVE  IsPrefixOf(SubSeq(q, 1, p) \o E, h.log[t], p + Len(E))
<1>1. PICK n \in Nat : n = Len(E)
  OBVIOUS
<1>2. p <= Len(q) /\ \A k \in 1..p : q[k] = h.log[t][k]
  <2>1. CASE p = 0
    BY <2>1
  <2>2. CASE p # 0
    <3>1. p \in 1..Len(q) /\ p \in 1..Len(h.log[t]) /\ q[p].term = h.log[t][p].term
      BY <2>2, LogTypes
    <3>2. p \in 1..Len(h.log[a]) /\ q[p] = h.log[a][p] /\ \A k \in 1..p : q[k] = h.log[a][k]
      BY <3>1, LogTypes DEF Agree
    <3>3. Agree(h.log[a], h.log[t], p)
      BY <3>1, <3>2, SameEntry
    <3>4. \A k \in 1..p : h.log[a][k] = h.log[t][k]
      BY <3>3 DEF Agree
    <3> QED BY <3>1, <3>2, <3>4
  <2> QED BY <2>1, <2>2
<1>3. PICK r : r = SubSeq(q, 1, p)
  OBVIOUS
<1>4. r \in Seq(Entries) /\ Len(r) = p /\ \A k \in 1..p : r[k] = q[k]
  BY <1>2, <1>3
<1>5. PICK s : s = r \o E
  OBVIOUS
<1>6. s \in Seq(Entries) /\ Len(s) = p + n /\ \A k \in 1..p + n : s[k] = IF k <= p THEN r[k] ELSE E[k - p]
  <2>1. \A x, y \in Seq(Entries) :
           /\ x \o y \in Seq(Entries) /\ Len(x \o y) = Len(x) + Len(y)
           /\ \A k \in 1..Len(x) + Len(y) : (x \o y)[k] = IF k <= Len(x) THEN x[k] ELSE y[k - Len(x)]
    OBVIOUS
  <2> QED BY <1>1, <1>4, <1>5, <2>1
<1>7. \A k \in 1..p + n : s[k] = h.log[t][k]
  <2> SUFFICES ASSUME NEW k \in 1..p + n PROVE s[k] = h.log[t][k]
    OBVIOUS
  <2>1. CASE k <= p
    <3>1. k \in 1..p /\ s[k] = r[k]
      BY <1>6, <2>1
    <3> QED BY <1>2, <1>4, <3>1
  <2>2. CASE k > p
    <3>1. k - p \in 1..n /\ p + (k - p) = k
      BY <1>1, <2>2
    <3>2. s[k] = E[k - p]
      <4>1. ~(k <= p)
        BY <2>2
      <4> QED BY <1>6, <4>1
    <3>3. E[k - p] = h.log[t][p + (k - p)]
      BY <1>1, <3>1
    <3> QED BY <3>1, <3>2, <3>3
  <2> QED BY <2>1, <2>2
<1>8. Agree(s, h.log[t], p + n)
  BY <1>1, <1>6, <1>7 DEF Agree
<1> QED BY <1>1, <1>3, <1>5, <1>6, <1>8 DEF IsPrefixOf

\* Requests of a term that are still to come to a server reach at least as far.
LEMMA LaterRequest ==
    ASSUME IInv, NEW h, Follows(h), NEW i, NEW c \in Arriving(i), ~Overtakes(c), NEW e, NEW x,
           Head(net[c]).mtype = "apq", x.mtype = "apq", OnConnection(Taken(c), e, x),
           x.mterm = Head(net[c]).mterm, e[1][3] = i
    PROVE  Reach(Head(net[c])) <= Reach(x)
<1> DEFINE m == Head(net[c])
<1>1. /\ c \in DOMAIN net /\ c[1][3] = i /\ IsNetwork(net) /\ ConnectionsOK(net)
      /\ MsgOK(h, c[1], m)
  BY ArrivingIs
<1>2. c[1] = <<"append", m.msource, i>> /\ h.head[m.mterm] = m.msource
  BY <1>1 DEF MsgOK, AppendRequestOK
<1>3. OnConnection(net, e, x)
  BY <1>1, TakenIsThere
<1>4. MsgOK(h, e[1], x)
  BY <1>3 DEF Follows, NetworkOK, MessagesOK
<1>5. e[1] = <<"append", m.msource, i>>
  BY <1>2, <1>4 DEF MsgOK, AppendRequestOK
<1>6. Before(net, m, x)
  BY <1>1, <1>2, <1>5, TakenFirst
<1>7. Ordered(m, x)
  BY <1>6 DEF Follows, NetworkOK, InOrder
<1> QED BY <1>7 DEF Ordered, Carries

\* What i finds in a request that it accepts.
LEMMA AcceptedRequest ==
    ASSUME IInv, DInv, IndexesOK, NEW h, Follows(h), NEW i \in Servers, NEW c \in Arriving(i),
           AcceptAppendEntries(i, c)
    PROVE  LET m == Head(net[c])
           IN /\ m.mtype = "apq" /\ m.mterm \in h.elected /\ m.mterm \in Nat /\ m.msource \in Servers
              /\ QuietRoles /\ currentTerm'[i] = m.mterm /\ state'[i] = "follower"
              /\ m.msource # i /\ h.head[m.mterm] = m.msource
              /\ Reach(m) \in Nat /\ Reach(m) <= Len(h.log[m.mterm]) /\ h.base[m.mterm] <= Reach(m)
              /\ h.accepted[i][m.mterm] <= Reach(m)
              /\ CommitAt(h, m.mterm, m.mcommitIndex, Reach(m))
              /\ log'[i] \in Seq(Entries) /\ Len(log'[i]) = Reach(m)
              /\ Agree(log'[i], h.log[m.mterm], Reach(m))
              /\ commitIndex'[i] \in {commitIndex[i], m.mcommitIndex}
              /\ \A j \in Servers \ {i} : log'[j] = log[j] /\ commitIndex'[j] = commitIndex[j]
              /\ UNCHANGED <<votesGranted, newCommitIndex, nextIndex, matchIndex>>
<1> DEFINE m == Head(net[c])
           u == FollowSender(i, m)
<1>1. /\ c \in DOMAIN net /\ RolesOK /\ MessageOK(m) /\ MsgOK(h, c[1], m) /\ c[1][3] = i
  BY ArrivingIs
<1>2. m.mtype = "apq" /\ SetRole(i, u) /\ ~Rejects(i, u, m) /\ Acceptable(i, u, m)
  BY DEF AcceptAppendEntries
<1>3. m.mterm \in Nat /\ m.msource \in Servers
  BY <1>1, <1>2 DEF MessageOK
<1>4. QuietRoles
  BY <1>1, <1>2, <1>3, FollowSenderQuiet
<1>5. u.term = m.mterm /\ u.state = "follower" /\ LogOK(i, m)
  <2>1. u.term \in Nat /\ u.term >= m.mterm
    <3>1. u.term = UpdateTerm(i, m).term
      BY FollowSenderIs
    <3>2. UpdateTerm(i, m).term \in Nat /\ UpdateTerm(i, m).term >= m.mterm
      BY <1>1, <1>3, UpdateTermDemotes DEF Demotion
    <3> QED BY <3>1, <3>2
  <2>2. ~(m.mterm < u.term)
    BY <1>2 DEF Rejects
  <2>3. u.state = "follower" /\ LogOK(i, m)
    BY <1>2 DEF Acceptable
  <2> HIDE DEF u, m
  <2> QED BY <1>3, <2>1, <2>2, <2>3
<1>6. currentTerm'[i] = m.mterm /\ state'[i] = "follower"
  BY <1>1, <1>2, <1>5 DEF SetRole, RolesOK
<1>7. /\ log'[i] = SubSeq(log[i], 1, m.mprevLogIndex) \o m.mentries
      /\ commitIndex'[i] = LargerOf(commitIndex[i], m.mcommitIndex)
      /\ \A j \in Servers \ {i} : log'[j] = log[j] /\ commitIndex'[j] = commitIndex[j]
      /\ UNCHANGED <<votesGranted, newCommitIndex, nextIndex, matchIndex>>
  <2>1. DOMAIN log = Servers /\ DOMAIN commitIndex = Servers
    BY DEF DInv, LogsOK, IndexesOK
  <2>2. /\ log' = [log EXCEPT ![i] = SubSeq(@, 1, m.mprevLogIndex) \o m.mentries]
        /\ commitIndex' = [commitIndex EXCEPT ![i] = LargerOf(@, m.mcommitIndex)]
        /\ UNCHANGED <<votesGranted, newCommitIndex, nextIndex, matchIndex>>
    BY DEF AcceptAppendEntries, SetLog, leaderVars, loopVars
  <2> HIDE DEF m, u
  <2> QED BY <2>1, <2>2
<1>8. commitIndex'[i] \in {commitIndex[i], m.mcommitIndex}
  BY <1>7 DEF LargerOf
<1>9. PICK t \in h.elected : t = m.mterm
  BY <1>1, <1>2 DEF MsgOK, AppendRequestOK
<1>10. /\ h.head[t] = m.msource /\ i \in Servers \ {m.msource}
       /\ m.mprevLogIndex \in Nat /\ m.mentries \in Seq(Entries)
       /\ h.base[t] <= Reach(m) /\ Reach(m) <= Len(h.log[t])
       /\ \A k \in 1..Len(m.mentries) : m.mentries[k] = h.log[t][m.mprevLogIndex + k]
       /\ m.mprevLogTerm = IF m.mprevLogIndex > 0 THEN h.log[t][m.mprevLogIndex].term ELSE 0
       /\ h.accepted[i][t] <= Reach(m) /\ CommitAt(h, t, m.mcommitIndex, Reach(m))
  BY <1>1, <1>2, <1>9 DEF MsgOK, AppendRequestOK
<1>11. /\ h \in Histories /\ LogsMatch(h) /\ HistoryOK(h, currentTerm) /\ LogFollows(h, i)
  BY DEF Follows, HistoryOK, ServerOK
<1>12. PICK p \in Nat : p = m.mprevLogIndex
  BY <1>10
<1>13. PICK E \in Seq(Entries) : E = m.mentries
  BY <1>10
<1>14. PICK q \in Seq(Entries) : q = log[i] /\ Agree(q, h.log[h.last[i]], Len(q))
  BY <1>11 DEF LogFollows
<1>15. Reach(m) = p + Len(E) /\ Len(E) \in Nat /\ Len(h.log[t]) \in Nat
  BY <1>2, <1>11, <1>12, <1>13, LogTypes DEF Reach
<1>16. p = 0 \/ (p \in 1..Len(q) /\ p <= Len(h.log[t]) /\ q[p].term = h.log[t][p].term)
  <2>1. p = 0 \/ (p \in 1..Len(q) /\ m.mprevLogTerm = q[p].term)
    BY <1>5, <1>12, <1>14 DEF LogOK
  <2>2. p <= Len(h.log[t])
    BY <1>10, <1>15
  <2>3. p > 0 => m.mprevLogTerm = h.log[t][p].term
    BY <1>10, <1>12
  <2> QED BY <1>12, <2>1, <2>2, <2>3
<1>17. h.last[i] \in h.elected
  BY <1>11, ServerFacts
<1>18. IsPrefixOf(SubSeq(q, 1, p) \o E, h.log[t], p + Len(E))
  <2>1. p + Len(E) <= Len(h.log[t]) /\ \A k \in 1..Len(E) : E[k] = h.log[t][p + k]
    BY <1>10, <1>12, <1>13, <1>15
  <2> QED BY <1>11, <1>14, <1>16, <1>17, <2>1, AcceptedLog
<1>19. /\ log'[i] \in Seq(Entries) /\ Len(log'[i]) = Reach(m) /\ Agree(log'[i], h.log[t], Reach(m))
  <2>1. log'[i] = SubSeq(q, 1, p) \o E
    BY <1>7, <1>12, <1>13, <1>14
  <2> QED BY <1>15, <1>18, <2>1 DEF IsPrefixOf
<1>20. Reach(m) \in Nat
  BY <1>15
<1> HIDE DEF m, u
<1>21. /\ m.mtype = "apq" /\ m.mterm \in h.elected /\ m.mterm \in Nat /\ m.msource \in Servers
       /\ QuietRoles /\ currentTerm'[i] = m.mterm /\ state'[i] = "follower"
       /\ m.msource # i /\ h.head[m.mterm] = m.msource
  BY <1>2, <1>3, <1>4, <1>6, <1>9, <1>10
<1>22. /\ Reach(m) \in Nat /\ Reach(m) <= Len(h.log[m.mterm]) /\ h.base[m.mterm] <= Reach(m)
       /\ h.accepted[i][m.mterm] <= Reach(m)
       /\ CommitAt(h, m.mterm, m.mcommitIndex, Reach(m))
       /\ log'[i] \in Seq(Entries) /\ Len(log'[i]) = Reach(m)
       /\ Agree(log'[i], h.log[m.mterm], Reach(m))
  BY <1>9, <1>10, <1>19, <1>20
<1> QED BY <1>7, <1>8, <1>21, <1>22 DEF m

\* A server accepts entries of the leader of its term.
LEMMA AcceptAppendEntriesFollows ==
    ASSUME IInv, IInv', DInv, IndexesOK, NEW h, Follows(h), NEW i \in Servers,
           NEW c \in Arriving(i), ~Overtakes(c), AcceptAppendEntries(i, c)
    PROVE  \E g : Follows(g)'
<1>1. PICK m : m = Head(net[c])
  OBVIOUS
<1>2. PICK t \in h.elected : t = m.mterm /\ t \in Nat
  BY <1>1, AcceptedRequest
<1>3. PICK N \in Nat : N = Reach(m)
  BY <1>1, AcceptedRequest
<1>4. /\ m.mtype = "apq" /\ m.msource \in Servers /\ h.head[t] = m.msource /\ m.msource # i
      /\ QuietRoles /\ currentTerm'[i] = t /\ state'[i] = "follower"
      /\ N <= Len(h.log[t]) /\ h.base[t] <= N /\ h.accepted[i][t] <= N
      /\ CommitAt(h, t, m.mcommitIndex, N)
      /\ log'[i] \in Seq(Entries) /\ Len(log'[i]) = N /\ Agree(log'[i], h.log[t], N)
      /\ commitIndex'[i] \in {commitIndex[i], m.mcommitIndex}
      /\ \A j \in Servers \ {i} : log'[j] = log[j] /\ commitIndex'[j] = commitIndex[j]
      /\ UNCHANGED <<votesGranted, newCommitIndex, nextIndex, matchIndex>>
  BY <1>1, <1>2, <1>3, AcceptedRequest
<1>5. /\ c \in DOMAIN net /\ c[1][3] = i /\ IsNetwork(net) /\ ConnectionsOK(net) /\ RolesOK
  BY ArrivingIs
<1>6. HistoryOK(h, currentTerm) /\ h \in Histories /\ currentTerm \in [Servers -> Nat]
  BY DEF Follows, HistoryOK
<1>7. TermsRise
  BY <1>4, QuietTermsRise DEF IInv
<1>8. HistoryOK(h, currentTerm')
  BY <1>6, <1>7, TermsRiseKeeps DEF TermsRise
<1>9. PICK g : AcceptStep(h, g, i, t, N)
  BY <1>2, <1>6, AcceptStepExists
<1>10. HistoryOK(g, currentTerm')
  <2>1. PICK T : T = currentTerm'
    OBVIOUS
  <2>2. HistoryOK(h, T) /\ T[i] = t
    BY <1>4, <1>8, <2>1
  <2>3. HistoryOK(g, T)
    BY <1>2, <1>4, <1>9, <2>2, AcceptKeepsHistory
  <2> QED BY <2>1, <2>3
<1>11. Grows(h, g, currentTerm')
  BY <1>2, <1>4, <1>6, <1>9, AcceptGrows
<1>12. /\ g.elected = h.elected /\ g.head = h.head /\ g.log = h.log /\ g.base = h.base
       /\ g.vote = h.vote /\ g.accepted[i][t] = N /\ g.last[i] = t
       /\ \A w \in Servers, u \in Nat : w # i \/ u # t => g.accepted[w][u] = h.accepted[w][u]
       /\ \A w \in Servers : w # i => g.last[w] = h.last[w]
  BY <1>9 DEF AcceptStep
<1>13. PICK a \in h.elected : a = h.last[i] /\ a \in Nat /\ a <= t
  <2>1. h.last[i] \in h.elected /\ h.last[i] \in Nat /\ currentTerm[i] \in Nat
        /\ h.last[i] <= currentTerm[i]
    BY <1>6, ServerFacts DEF Follows, ServerOK
  <2>2. currentTerm[i] <= t
    BY <1>4, <1>7 DEF TermsRise
  <2> QED BY <1>2, <2>1, <2>2
<1>14. PICK L \in Nat : L = Len(log[i]) /\ L = h.accepted[i][a]
  BY <1>6, <1>13, ServerFacts DEF Follows, ServerOK
\* The server that accepts.
<1>15. ServerOK(g, i)'
  <2>1. LogFollows(g, i)'
    BY <1>4, <1>12 DEF LogFollows
  <2>2. Leads(g, i)'
    BY <1>4 DEF Leads
  <2>3. ASSUME NEW d, CommitAt(h, a, d, L) PROVE CommitAt(g, t, d, N)
    <3>1. CommitAt(g, a, d, L)
      <4>1. L <= L
        OBVIOUS
      <4> QED BY <1>11, <2>3, <4>1, CommitAtGrows
    <3>2. a = t => L <= N
      BY <1>4, <1>14
    <3>3. h.base[t] <= N /\ g.base[t] <= N /\ a \in g.elected /\ t \in g.elected
      BY <1>4, <1>12
    <3> QED BY <1>10, <1>13, <3>1, <3>2, <3>3, CommitMoves
  <2>4. CommitAt(h, a, commitIndex[i], L) /\ CommitAt(h, a, newCommitIndex[i], L)
    BY <1>13, <1>14 DEF Follows, ServerOK, Commits
  <2>5. CommitAt(g, t, m.mcommitIndex, N)
    <3>1. N <= N
      OBVIOUS
    <3> QED BY <1>4, <1>11, <3>1, CommitAtGrows
  <2>6. CommitAt(g, t, commitIndex'[i], N) /\ CommitAt(g, t, newCommitIndex'[i], N)
    <3>1. newCommitIndex'[i] = newCommitIndex[i]
      BY <1>4
    <3>2. commitIndex'[i] = commitIndex[i] \/ commitIndex'[i] = m.mcommitIndex
      BY <1>4
    <3> QED BY <2>3, <2>4, <2>5, <3>1, <3>2
  <2>7. Commits(g, i)'
    <3>1. g.last[i] = t /\ Len(log'[i]) = N
      BY <1>4, <1>12
    <3> QED BY <2>6, <3>1 DEF Commits
  <2>8. Knows(g, i)'
    <3>1. matchIndex'[i] \in [Servers -> Nat]
      BY <1>4 DEF Follows, ServerOK, Knows
    <3> QED BY <1>4, <3>1 DEF Knows
  <2> QED BY <2>1, <2>2, <2>7, <2>8 DEF ServerOK
<1>16. ASSUME NEW j \in Servers PROVE ServerOK(g, j)'
  <2>1. CASE j = i
    BY <1>15, <2>1
  <2>2. CASE j # i
    <3>1. currentTerm[j] \in Nat /\ h.last[j] \in Nat
      BY <1>6, LogTypes
    <3>2. state'[j] = "leader" => state[j] = "leader" /\ currentTerm'[j] = currentTerm[j]
      BY <1>4, <3>1 DEF QuietRoles
    <3>3. Keeps(h, g, j)
      BY <1>4, <1>12, <2>2, <3>1, <3>2 DEF Keeps
    <3> QED BY <1>6, <1>11, <3>3, KeepsServer DEF Follows
  <2> QED BY <2>1, <2>2
<1> DEFINE A == [mtype |-> "app", mterm |-> t, msuccess |-> TRUE, mmatchIndex |-> N, msource |-> i]
<1>17. Send(Taken(c), "handle", i, m.msource, A)
  <2>1. FollowSender(i, m).term = t
    <3>1. SetRole(i, FollowSender(i, m))
      BY <1>1 DEF AcceptAppendEntries
    <3> QED BY <1>4, <1>5, <3>1 DEF SetRole, RolesOK
  <2>2. N = m.mprevLogIndex + Len(m.mentries)
    BY <1>3, <1>4 DEF Reach
  <2> QED BY <1>1, <2>1, <2>2 DEF AcceptAppendEntries
<1>18. /\ A.mtype = "app" /\ IsAck(A) /\ Reach(A) = N /\ A.mterm = t /\ A.msource = i
       /\ A.mmatchIndex = N /\ ~IsGrant(A)
  BY DEF IsAck, Reach, IsGrant
<1> HIDE DEF A
<1>19. PICK b : b = A
  OBVIOUS
<1>20. PICK r : r = <<"handle", i, m.msource>> /\ r[3] = m.msource
  <2>1. <<"handle", i, m.msource>>[3] = m.msource
    OBVIOUS
  <2> QED BY <2>1
<1>21. NetAdds(Taken(c), r, b)
  BY <1>5, <1>17, <1>19, <1>20, ReplyNet
<1>22. \A j \in Servers : state'[j] = "candidate" => log'[j] = log[j]
  BY <1>4
<1>23. RolesFollow(g)'
  <2>1. \A k, d \in Servers, u \in Nat : Holds(k, d, u)' => Holds(k, d, u)
    BY <1>4, <1>5, <1>18, <1>19, <1>21, HoldsKept
  <2> QED BY <1>4, <1>6, <1>7, <1>11, <1>12, <1>22, <2>1, QuietRolesFollow DEF Follows
<1>24. NetworkOK(g)'
  <2>1. CandidatesStay
    BY <1>4, <1>6, <1>22 DEF CandidatesStay, QuietRoles
  <2>2. ASSUME NEW e, NEW x, OnConnection(Taken(c), e, x) PROVE MsgOK(g, e[1], x)'
    <3>1. OnConnection(net, e, x)
      BY <2>2, <1>21 DEF NetAdds
    <3>2. MsgOK(h, e[1], x) /\ MessageOK(x)
      BY <3>1 DEF Follows, NetworkOK, MessagesOK, IInv, NetOK
    <3>3. ASSUME x.mtype = "apq" PROVE g.accepted[e[1][3]][x.mterm] <= Reach(x)
      <4>1. /\ x.mterm \in h.elected /\ x.mterm \in Nat /\ e[1][3] \in Servers
            /\ h.accepted[e[1][3]][x.mterm] <= Reach(x)
        BY <1>6, <3>2, <3>3, LogTypes DEF MsgOK, AppendRequestOK
      <4>2. CASE e[1][3] = i /\ x.mterm = t
        <5>1. Reach(m) <= Reach(x)
          BY <1>1, <1>2, <1>4, <2>2, <3>3, <4>2, LaterRequest
        <5> QED BY <1>3, <1>12, <4>2, <5>1
      <4>3. CASE ~(e[1][3] = i /\ x.mterm = t)
        BY <1>12, <4>1, <4>3
      <4> QED BY <4>2, <4>3
    <3>4. ASSUME IsAck(x), state'[e[1][3]] = "leader", currentTerm'[e[1][3]] = x.mterm
          PROVE  matchIndex'[e[1][3]][x.msource] <= x.mmatchIndex
      <4>1. PICK k \in Servers : k = e[1][3]
        BY <3>2, <3>4 DEF MsgOK, AckOK
      <4>2. state[k] = "leader" /\ currentTerm[k] = x.mterm
        <5>1. currentTerm[k] \in Nat
          BY <1>6
        <5> QED BY <1>4, <3>4, <4>1, <5>1 DEF QuietRoles
      <4>3. matchIndex[k][x.msource] <= x.mmatchIndex
        BY <3>2, <3>4, <4>1, <4>2 DEF MsgOK, AckOK
      <4> QED BY <1>4, <4>1, <4>3
    <3> QED BY <1>6, <1>7, <1>11, <2>1, <3>2, <3>3, <3>4, OldMessage
  <2>3. MsgOK(g, r, b)'
    <3>1. b.mtype = "app" /\ b.mterm = t /\ b.msource = i /\ b.mmatchIndex = N
      BY <1>18, <1>19
    <3>2. r = <<"handle", b.msource, r[3]>> /\ r[3] \in Servers
      BY <1>4, <1>20, <3>1
    <3>3. PICK k \in Servers : k = r[3]
      BY <3>2
    <3>4. state'[k] = "leader" /\ currentTerm'[k] = t => matchIndex'[k][i] <= N
      <4> SUFFICES ASSUME state'[k] = "leader", currentTerm'[k] = t PROVE matchIndex'[k][i] <= N
        OBVIOUS
      <4>1. currentTerm[k] \in Nat
        BY <1>6
      <4>2. state[k] = "leader" /\ currentTerm[k] = t
        BY <1>4, <4>1 DEF QuietRoles
      <4>3. matchIndex[k][i] \in Nat
            /\ (matchIndex[k][i] = 0 \/ matchIndex[k][i] <= h.accepted[i][t])
        BY <4>2 DEF Follows, ServerOK, Knows
      <4>4. h.accepted[i][t] \in Int
        BY <1>2, <1>6, AcceptedIsInt
      <4>5. matchIndex[k][i] <= N
        BY <1>4, <4>3, <4>4
      <4> QED BY <1>4, <4>5
    <3>5. N <= g.accepted[i][t]
      BY <1>12
    <3>6. AckOK(g, r, b)'
      BY <3>1, <3>2, <3>3, <3>4, <3>5 DEF AckOK
    <3>7. VoteRequestOK(b)' /\ AppendRequestOK(g, r, b)'
      BY <3>1 DEF VoteRequestOK, AppendRequestOK
    <3> QED BY <3>6, <3>7 DEF MsgOK
  <2>4. ASSUME NEW e, NEW x, e[1] = r, OnConnection(Taken(c), e, x) PROVE Ordered(x, b)
    <3> SUFFICES ASSUME Carries(x), x.mtype = b.mtype, x.mterm = b.mterm PROVE Reach(x) <= Reach(b)
      BY DEF Ordered
    <3>1. x.mtype = "app" /\ x.mterm = t /\ IsAck(x)
      BY <1>18, <1>19 DEF Carries
    <3>2. OnConnection(net, e, x)
      BY <2>4, <1>21 DEF NetAdds
    <3>3. MsgOK(h, r, x)
      BY <2>4, <3>2 DEF Follows, NetworkOK, MessagesOK
    <3>4. r = <<"handle", x.msource, r[3]>> /\ x.mmatchIndex \in Nat
          /\ x.mmatchIndex <= h.accepted[x.msource][x.mterm]
      BY <3>1, <3>3 DEF MsgOK, AckOK
    <3>5. x.msource = i
      BY <1>20, <3>4
    <3>6. h.accepted[i][t] \in Int
      BY <1>2, <1>6, AcceptedIsInt
    <3>7. x.mmatchIndex <= N
      BY <1>4, <3>1, <3>4, <3>5, <3>6
    <3> QED BY <1>18, <1>19, <3>1, <3>7 DEF Reach
  <2> QED BY <1>21, <2>2, <2>3, <2>4, NetworkKept DEF Follows, NetworkOK
<1> QED BY <1>10, <1>16, <1>23, <1>24 DEF Follows

-----------------------------------------------------------------------------
(* What clients ask *)

\* An answer or a command of client c of request number n: of a past one, or of
\* the one it is at.
AnswerOK(c, n, type, key) ==
    n \in 1..reqIdx[c] /\ (n = reqIdx[c] => type = req[c].type /\ key = req[c].key)

AsksOK(c, x) == c \in Clients /\ x \in Cmds /\ AnswerOK(c, x.idx, x.type, x.key)

RequestOK(r, m) ==
    /\ m.mtype = "request" => AsksOK(m.msource, m.mcmd)
    /\ m.mtype = "response" => r[3] \in Clients /\ AnswerOK(r[3], m.idx, m.type, m.key)
    /\ m.mtype = "apq" =>
          \A k \in 1..Len(m.mentries) : AsksOK(m.mentries[k].client, m.mentries[k].cmd)

ClientsOK ==
    /\ DOMAIN pc = Clients /\ DOMAIN req = Clients /\ DOMAIN reqIdx = Clients
    /\ \A c \in Clients :
          /\ reqIdx[c] \in Nat
          /\ reqIdx[c] > 0 => req[c] \in Commands
          /\ pc[c] # "clientLoop" => reqIdx[c] > 0

EntriesOK == \A i \in Servers : \A k \in 1..Len(log[i]) : AsksOK(log[i][k].client, log[i][k].cmd)

RequestsOK ==
    ClientsOK /\ EntriesOK /\ \A c, m : OnConnection(net, c, m) => RequestOK(c[1], m)

LEMMA InitRequestsOK == Init => RequestsOK
<1> SUFFICES ASSUME Init PROVE RequestsOK
  OBVIOUS
<1>1. ClientsOK
  BY DEF Init, ClientsOK
<1>2. EntriesOK
  BY DEF Init, EntriesOK
<1>3. DOMAIN net = {}
  BY DEF Init
<1> QED BY <1>1, <1>2, <1>3 DEF RequestsOK, OnConnection

\* What was asked stays asked.
LEMMA RequestsKept ==
    ASSUME RequestsOK, ClientsOK', NEW n, NEW r, NEW a, NetAdds(n, r, a),
           \A c \in Clients : \/ reqIdx'[c] = reqIdx[c] /\ req'[c] = req[c]
                              \/ reqIdx'[c] = reqIdx[c] + 1,
           RequestOK(r, a),
           \A i \in Servers : \A k \in 1..Len(log'[i]) : AsksOK(log'[i][k].client, log'[i][k].cmd)
    PROVE  RequestsOK'
<1>1. ASSUME NEW c \in Clients, NEW k, NEW type, NEW key, AnswerOK(c, k, type, key)
      PROVE  AnswerOK(c, k, type, key)'
  BY <1>1 DEF AnswerOK, RequestsOK, ClientsOK
<1>2. ASSUME NEW c, NEW x, AsksOK(c, x) PROVE AsksOK(c, x)'
  BY <1>1, <1>2 DEF AsksOK
<1>3. ASSUME NEW s, NEW m, RequestOK(s, m) PROVE RequestOK(s, m)'
  BY <1>1, <1>2, <1>3 DEF RequestOK
<1>4. EntriesOK'
  <2> SUFFICES ASSUME NEW i \in Servers, NEW k \in 1..Len(log'[i])
               PROVE  AsksOK(log[i][k].client, log[i][k].cmd)'
    BY DEF EntriesOK
  <2>1. PICK c, x : c = log'[i][k].client /\ x = log'[i][k].cmd
    OBVIOUS
  <2>2. AsksOK(c, x)
    BY <2>1
  <2>3. AsksOK(c, x)'
    BY <1>2, <2>2
  <2> QED BY <2>1, <2>3 DEF AsksOK, AnswerOK
<1>5. ASSUME NEW c, NEW m, OnConnection(net', c, m) PROVE RequestOK(c[1], m)'
  <2>1. CASE \E e : e[1] = c[1] /\ OnConnection(n, e, m)
    <3>1. PICK e : e[1] = c[1] /\ OnConnection(n, e, m)
      BY <2>1
    <3>2. RequestOK(e[1], m)
      BY <3>1 DEF NetAdds, RequestsOK
    <3>3. RequestOK(e[1], m)'
      BY <1>3, <3>2
    <3> QED BY <3>1, <3>3
  <2>2. CASE c[1] = r /\ m = a
    <3>1. RequestOK(r, a)'
      BY <1>3
    <3> QED BY <2>2, <3>1
  <2> QED BY <1>5, <2>1, <2>2 DEF NetAdds
<1>6. \A c, m : OnConnection(net, c, m)' => RequestOK(c[1], m)'
  <2>1. ASSUME NEW c, NEW m, OnConnection(net, c, m)' PROVE OnConnection(net', c, m)
    BY <2>1 DEF OnConnection
  <2> QED BY <1>5, <2>1
<1> QED BY <1>4, <1>6 DEF RequestsOK

\* The same for the steps of servers.
LEMMA ServerRequestsKept ==
    ASSUME RequestsOK, UNCHANGED clientVars, NEW n, NEW r, NEW a, NetAdds(n, r, a),
           RequestOK(r, a),
           \A i \in Servers : \A k \in 1..Len(log'[i]) : AsksOK(log'[i][k].client, log'[i][k].cmd)
    PROVE  RequestsOK'
<1>1. ClientsOK'
  BY DEF RequestsOK, ClientsOK, clientVars
<1>2. \A c \in Clients : reqIdx'[c] = reqIdx[c] /\ req'[c] = req[c]
  BY DEF clientVars
<1> QED BY <1>1, <1>2, RequestsKept

\* Of a message that asks and answers nothing.
LEMMA NoRequest ==
    ASSUME NEW r, NEW a, a.mtype \notin {"request", "response", "apq"}
    PROVE  RequestOK(r, a)
BY DEF RequestOK

LEMMA PlainRequests ==
    ASSUME RequestsOK, UNCHANGED clientVars, log' = log, NEW n, NEW r, NEW a, NetAdds(n, r, a),
           a.mtype \notin {"request", "response", "apq"}
    PROVE  RequestsOK'
<1>1. RequestOK(r, a)
  BY NoRequest
<1>2. \A i \in Servers : \A k \in 1..Len(log'[i]) : AsksOK(log'[i][k].client, log'[i][k].cmd)
  BY DEF RequestsOK, EntriesOK
<1> QED BY <1>1, <1>2, ServerRequestsKept

\* The sections that only change the roles and indexes of a server, and messages
\* that are only read.
LEMMA RequestsStay ==
    ASSUME RequestsOK, IsNetwork(net), ConnectionsOK(net), UNCHANGED clientVars, log' = log,
           net' = net \/ (\E c \in DOMAIN net : net' = Taken(c)) \/ \E b : ConnectionBreaks(b)
    PROVE  RequestsOK'
<1> DEFINE a == [mtype |-> "none"]
<1>1. a.mtype \notin {"request", "response", "apq"}
  OBVIOUS
<1> HIDE DEF a
<1>2. CASE net' = net
  BY <1>1, <1>2, SameNet, PlainRequests
<1>3. CASE \E c \in DOMAIN net : net' = Taken(c)
  BY <1>1, <1>3, TakenNet, PlainRequests
<1>4. CASE \E b : ConnectionBreaks(b)
  BY <1>1, <1>4, BreakNet, PlainRequests
<1> QED BY <1>2, <1>3, <1>4

LEMMA ClientRequests ==
    ASSUME RequestsOK, IsNetwork(net), ConnectionsOK(net), NEW c \in Clients, ClientNext(c)
    PROVE  RequestsOK'
<1> DEFINE a == [mtype |-> "none"]
<1>1. a.mtype \notin {"request", "response", "apq"}
  OBVIOUS
<1>2. RequestOK(<<>>, a)
  BY <1>1, NoRequest
<1> HIDE DEF a
<1>3. /\ log' = log
      /\ \A i \in Servers : \A k \in 1..Len(log'[i]) : AsksOK(log'[i][k].client, log'[i][k].cmd)
  <2>1. log' = log
    BY DEF ClientNext, clientLoop, sndReq, rcvResp, clientTimeout, logVars
  <2> QED BY <2>1 DEF RequestsOK, EntriesOK
<1>4. DOMAIN pc = Clients /\ DOMAIN req = Clients /\ DOMAIN reqIdx = Clients /\ reqIdx[c] \in Nat
  BY DEF RequestsOK, ClientsOK
<1>5. CASE clientLoop(c)
  <2>1. ClientsOK'
    BY <1>5 DEF clientLoop, RequestsOK, ClientsOK
  <2>2. NetAdds(net, <<>>, a)
    BY <1>5, SameNet DEF clientLoop
  <2>3. \A d \in Clients : \/ reqIdx'[d] = reqIdx[d] /\ req'[d] = req[d]
                           \/ reqIdx'[d] = reqIdx[d] + 1
    BY <1>4, <1>5 DEF clientLoop
  <2> QED BY <1>2, <1>3, <2>1, <2>2, <2>3, RequestsKept
<1>6. CASE sndReq(c)
  <2>1. ClientsOK' /\ reqIdx' = reqIdx /\ req' = req
    BY <1>6 DEF sndReq, RequestsOK, ClientsOK
  <2>2. reqIdx[c] \in Nat \ {0} /\ req[c] \in Commands
    BY <1>6 DEF sndReq, RequestsOK, ClientsOK
  <2> DEFINE x == [idx |-> reqIdx[c], type |-> req[c].type, key |-> req[c].key,
                   value |-> req[c].value]
             m == [mtype |-> "request", msource |-> c, mcmd |-> x]
  <2>3. x \in Cmds
    BY <2>2 DEF Cmds
  <2>4. AnswerOK(c, x.idx, x.type, x.key)
    BY <2>2 DEF AnswerOK
  <2>5. AsksOK(c, x)
    BY <2>3, <2>4 DEF AsksOK
  <2>6. PICK to : Send(net, "client", c, to, m)
    BY <1>6 DEF sndReq
  <2>7. \A r : RequestOK(r, m)
    <3>1. m.mtype = "request" /\ m.msource = c /\ m.mcmd = x
      OBVIOUS
    <3> HIDE DEF m, x
    <3> QED BY <2>5, <3>1 DEF RequestOK
  <2> HIDE DEF m, x
  <2>8. PICK y, r : y = m /\ r = <<"client", c, to>>
    OBVIOUS
  <2>9. NetAdds(net, r, y)
    BY <2>6, <2>8, SendNet
  <2> QED BY <1>3, <2>1, <2>7, <2>8, <2>9, RequestsKept
<1>7. CASE rcvResp(c)
  <2>1. PICK d \in DOMAIN net : net' = Taken(d)
    BY <1>7 DEF rcvResp, Arriving
  <2>2. NetAdds(Taken(d), <<>>, a)
    BY <2>1, TakenNet
  <2>3. /\ pc[c] = "rcvResp" /\ reqIdx' = reqIdx /\ req' = req
        /\ \E p : pc' = pc \/ pc' = [pc EXCEPT ![c] = p]
    BY <1>7 DEF rcvResp
  <2>4. ClientsOK'
    BY <2>3 DEF RequestsOK, ClientsOK
  <2> QED BY <1>2, <1>3, <2>2, <2>3, <2>4, RequestsKept
<1>8. CASE clientTimeout(c)
  <2>1. ClientsOK' /\ reqIdx' = reqIdx /\ req' = req /\ net' = net
    BY <1>8 DEF clientTimeout, RequestsOK, ClientsOK
  <2>2. NetAdds(net, <<>>, a)
    BY <2>1, SameNet
  <2> QED BY <1>2, <1>3, <2>1, <2>2, RequestsKept
<1> QED BY <1>5, <1>6, <1>7, <1>8 DEF ClientNext

LEMMA EntryOfCut ==
    ASSUME NEW q \in Seq(Entries), NEW p \in Nat, p <= Len(q), NEW E \in Seq(Entries)
    PROVE  LET new == SubSeq(q, 1, p) \o E
           IN /\ new \in Seq(Entries) /\ Len(new) = p + Len(E)
              /\ \A k \in 1..Len(new) : \/ k <= p /\ k \in 1..Len(q) /\ new[k] = q[k]
                                        \/ k > p /\ k - p \in 1..Len(E) /\ new[k] = E[k - p]
<1>1. PICK r : r = SubSeq(q, 1, p)
  OBVIOUS
<1>2. r \in Seq(Entries) /\ Len(r) = p /\ \A k \in 1..p : r[k] = q[k]
  BY <1>1
<1>3. PICK s, n : s = r \o E /\ n = Len(E)
  OBVIOUS
<1>4. s \in Seq(Entries) /\ Len(s) = p + n /\ n \in Nat
      /\ \A k \in 1..p + n : s[k] = IF k <= p THEN r[k] ELSE E[k - p]
  <2>1. \A x, y \in Seq(Entries) :
           /\ x \o y \in Seq(Entries) /\ Len(x \o y) = Len(x) + Len(y)
           /\ \A k \in 1..Len(x) + Len(y) : (x \o y)[k] = IF k <= Len(x) THEN x[k] ELSE y[k - Len(x)]
    OBVIOUS
  <2> QED BY <1>2, <1>3, <2>1
<1>5. ASSUME NEW k \in 1..p + n
      PROVE  \/ k <= p /\ k \in 1..Len(q) /\ s[k] = q[k]
             \/ k > p /\ k - p \in 1..n /\ s[k] = E[k - p]
  <2>1. CASE k <= p
    <3>1. k \in 1..p /\ k \in 1..Len(q)
      BY <2>1
    <3> QED BY <1>2, <1>4, <2>1, <3>1
  <2>2. CASE k > p
    BY <1>4, <2>2
  <2> QED BY <2>1, <2>2
<1> QED BY <1>1, <1>3, <1>4, <1>5

LEMMA AcceptRequests ==
    ASSUME IInv, DInv, RequestsOK, NEW h, Follows(h), NEW i \in Servers, NEW c \in Arriving(i),
           AcceptAppendEntries(i, c)
    PROVE  RequestsOK'
<1> DEFINE m == Head(net[c])
           u == FollowSender(i, m)
           A == [mtype |-> "app", mterm |-> u.term, msuccess |-> TRUE,
                 mmatchIndex |-> m.mprevLogIndex + Len(m.mentries), msource |-> i]
<1>1. /\ c \in DOMAIN net /\ MsgOK(h, c[1], m) /\ IsNetwork(net) /\ ConnectionsOK(net)
      /\ OnConnection(net, c, m)
  BY ArrivingIs
<1>2. m.mtype = "apq" /\ LogOK(i, m)
  BY DEF AcceptAppendEntries, Acceptable
<1>3. PICK q \in Seq(Entries) : q = log[i]
  BY DEF Follows, ServerOK, LogFollows
<1>4. PICK p \in Nat : p = m.mprevLogIndex
  BY <1>1, <1>2 DEF MsgOK, AppendRequestOK
<1>5. PICK E \in Seq(Entries) : E = m.mentries
  BY <1>1, <1>2 DEF MsgOK, AppendRequestOK
<1>6. p <= Len(q)
  BY <1>2, <1>3, <1>4 DEF LogOK
<1>7. /\ log'[i] = SubSeq(q, 1, p) \o E /\ \A j \in Servers \ {i} : log'[j] = log[j]
      /\ clientVars' = clientVars
  <2>1. DOMAIN log = Servers
    BY DEF DInv, LogsOK
  <2>2. log' = [log EXCEPT ![i] = SubSeq(@, 1, m.mprevLogIndex) \o m.mentries]
        /\ clientVars' = clientVars
    BY DEF AcceptAppendEntries, SetLog
  <2> HIDE DEF m
  <2> QED BY <1>3, <1>4, <1>5, <2>1, <2>2
<1>8. PICK s : s = SubSeq(q, 1, p) \o E
  OBVIOUS
<1>9. \A k \in 1..Len(s) : \/ k <= p /\ k \in 1..Len(q) /\ s[k] = q[k]
                           \/ k > p /\ k - p \in 1..Len(E) /\ s[k] = E[k - p]
  BY <1>6, <1>8, EntryOfCut
<1>10. ASSUME NEW j \in Servers, NEW k \in 1..Len(log'[j])
       PROVE  AsksOK(log'[j][k].client, log'[j][k].cmd)
  <2>1. CASE j = i
    <3>1. k \in 1..Len(s) /\ log'[j][k] = s[k]
      BY <1>7, <1>8, <2>1
    <3>2. \A n \in 1..Len(q) : AsksOK(q[n].client, q[n].cmd)
      BY <1>3 DEF RequestsOK, EntriesOK
    <3>3. \A n \in 1..Len(E) : AsksOK(E[n].client, E[n].cmd)
      <4>1. RequestOK(c[1], m)
        BY <1>1 DEF RequestsOK
      <4> QED BY <1>2, <1>5, <4>1 DEF RequestOK
    <3> QED BY <1>9, <3>1, <3>2, <3>3
  <2>2. CASE j # i
    BY <1>7, <2>2 DEF RequestsOK, EntriesOK
  <2> QED BY <2>1, <2>2
<1>11. Send(Taken(c), "handle", i, m.msource, A)
  BY DEF AcceptAppendEntries
<1>12. A.mtype = "app"
  OBVIOUS
<1> HIDE DEF A, m, u
<1>13. PICK a, r : a = A /\ r = <<"handle", i, m.msource>>
  OBVIOUS
<1>14. NetAdds(Taken(c), r, a)
  BY <1>1, <1>11, <1>13, ReplyNet
<1>15. RequestOK(r, a)
  BY <1>12, <1>13, NoRequest
<1> QED BY <1>7, <1>10, <1>14, <1>15, ServerRequestsKept

\* The entry a leader appends is what a client asked.
LEMMA EntryAppended ==
    ASSUME IInv, DInv, RequestsOK, NEW h, Follows(h), NEW i \in Servers, NEW c \in Arriving(i),
           LeaderAppends(i, c)
    PROVE  \E e \in Entries :
              /\ AsksOK(e.client, e.cmd) /\ e.term = currentTerm[i]
              /\ log'[i] = Append(log[i], e) /\ \A j \in Servers \ {i} : log'[j] = log[j]
<1> DEFINE m == Head(net[c])
           E == [term |-> currentTerm[i], cmd |-> m.mcmd, client |-> m.msource]
<1>1. c \in DOMAIN net /\ OnConnection(net, c, m) /\ m.mtype = "request" /\ state[i] = "leader"
  BY ArrivingIs DEF LeaderAppends
<1>2. AsksOK(m.msource, m.mcmd)
  BY <1>1 DEF RequestsOK, RequestOK
<1>3. currentTerm[i] \in Nat
  BY DEF IInv, RolesOK
<1>4. E \in Entries /\ E.client = m.msource /\ E.cmd = m.mcmd /\ E.term = currentTerm[i]
  BY <1>2, <1>3 DEF Entries, AsksOK
<1>5. log' = [log EXCEPT ![i] = SubSeq(@, 1, Len(log[i])) \o <<E>>]
  BY DEF LeaderAppends, SetLog
<1> HIDE DEF E, m
<1>6. PICK e \in Entries : e = E
  BY <1>4
<1>7. PICK q \in Seq(Entries) : q = log[i]
  BY DEF Follows, ServerOK, LogFollows
<1>8. SubSeq(q, 1, Len(q)) \o <<e>> = Append(q, e)
  <2>1. SubSeq(q, 1, Len(q)) = q
    OBVIOUS
  <2>2. q \o <<e>> = Append(q, e)
    OBVIOUS
  <2> QED BY <2>1, <2>2
<1>9. DOMAIN log = Servers
  BY DEF DInv, LogsOK
<1>10. log'[i] = Append(log[i], e) /\ \A j \in Servers \ {i} : log'[j] = log[j]
  BY <1>5, <1>6, <1>7, <1>8, <1>9
<1> QED BY <1>2, <1>4, <1>6, <1>10

LEMMA LeaderRequests ==
    ASSUME IInv, DInv, RequestsOK, NEW h, Follows(h), NEW i \in Servers, NEW c \in Arriving(i),
           LeaderAppends(i, c)
    PROVE  RequestsOK'
<1>1. PICK e \in Entries :
         /\ AsksOK(e.client, e.cmd)
         /\ log'[i] = Append(log[i], e) /\ \A j \in Servers \ {i} : log'[j] = log[j]
  BY EntryAppended
<1>2. ASSUME NEW j \in Servers, NEW k \in 1..Len(log'[j])
      PROVE  AsksOK(log'[j][k].client, log'[j][k].cmd)
  <2>1. CASE j = i
    <3>1. PICK q \in Seq(Entries) : q = log[i]
      BY DEF Follows, ServerOK, LogFollows
    <3>2. k \in 1..Len(Append(q, e)) /\ log'[j][k] = Append(q, e)[k]
      BY <1>1, <2>1, <3>1
    <3>3. (k \in 1..Len(q) /\ Append(q, e)[k] = q[k]) \/ Append(q, e)[k] = e
      BY <3>2
    <3>4. \A n \in 1..Len(q) : AsksOK(q[n].client, q[n].cmd)
      BY <3>1 DEF RequestsOK, EntriesOK
    <3> QED BY <1>1, <3>2, <3>3, <3>4
  <2>2. CASE j # i
    BY <1>1, <2>2 DEF RequestsOK, EntriesOK
  <2> QED BY <2>1, <2>2
<1>3. c \in DOMAIN net /\ IsNetwork(net) /\ ConnectionsOK(net) /\ net' = Taken(c)
      /\ clientVars' = clientVars
  BY ArrivingIs DEF LeaderAppends
<1> DEFINE a == [mtype |-> "none"]
<1>4. a.mtype \notin {"request", "response", "apq"}
  OBVIOUS
<1> HIDE DEF a
<1>5. NetAdds(Taken(c), <<>>, a) /\ RequestOK(<<>>, a)
  BY <1>3, <1>4, TakenNet, NoRequest
<1> QED BY <1>2, <1>3, <1>5, ServerRequestsKept

LEMMA RedirectRequests ==
    ASSUME IInv, RequestsOK, NEW h, Follows(h), NEW i \in Servers, NEW c \in Arriving(i),
           RedirectClient(i, c)
    PROVE  RequestsOK'
<1> DEFINE m == Head(net[c])
           A == [mtype |-> "response", type |-> m.mcmd.type, msuccess |-> FALSE,
                 idx |-> m.mcmd.idx, key |-> m.mcmd.key, value |-> Nil,
                 mleaderHint |-> leader[i]]
<1>1. c \in DOMAIN net /\ OnConnection(net, c, m) /\ IsNetwork(net) /\ ConnectionsOK(net)
      /\ m.mtype = "request" /\ Send(Taken(c), "handle", i, m.msource, A)
      /\ clientVars' = clientVars /\ log' = log
  BY ArrivingIs DEF RedirectClient, Send, logVars
<1>2. AsksOK(m.msource, m.mcmd)
  BY <1>1 DEF RequestsOK, RequestOK
<1>3. A.mtype = "response" /\ A.idx = m.mcmd.idx /\ A.type = m.mcmd.type /\ A.key = m.mcmd.key
  OBVIOUS
<1> HIDE DEF A, m
<1>4. PICK a : a = A
  OBVIOUS
<1>5. PICK r : r = <<"handle", i, m.msource>> /\ r[3] = m.msource
  <2>1. <<"handle", i, m.msource>>[3] = m.msource
    OBVIOUS
  <2> QED BY <2>1
<1>6. NetAdds(Taken(c), r, a)
  BY <1>1, <1>4, <1>5, ReplyNet
<1>7. RequestOK(r, a)
  BY <1>2, <1>3, <1>4, <1>5 DEF RequestOK, AsksOK
<1>8. \A j \in Servers : \A k \in 1..Len(log'[j]) : AsksOK(log'[j][k].client, log'[j][k].cmd)
  BY <1>1 DEF RequestsOK, EntriesOK
<1> QED BY <1>1, <1>6, <1>7, <1>8, ServerRequestsKept

LEMMA RepliesRequests ==
    ASSUME IInv, RequestsOK, NEW h, Follows(h), NEW i \in Servers, NEW c \in Arriving(i),
           HandleRequestVoteRequest(i, c) \/ RejectAppendEntries(i, c)
    PROVE  RequestsOK'
<1>1. c \in DOMAIN net /\ IsNetwork(net) /\ ConnectionsOK(net)
  BY ArrivingIs
<1>2. \E a, to : /\ a.mtype \in {"rvp", "app"} /\ Send(Taken(c), "handle", i, to, a)
                 /\ clientVars' = clientVars /\ log' = log
  <2>1. CASE HandleRequestVoteRequest(i, c)
    <3> DEFINE m == Head(net[c])
               a == [mtype |-> "rvp", mterm |-> UpdateTerm(i, m).term,
                     mvoteGranted |-> Grants(i, UpdateTerm(i, m), m), msource |-> i]
    <3>1. Send(Taken(c), "handle", i, m.msource, a) /\ clientVars' = clientVars /\ log' = log
      BY <2>1 DEF HandleRequestVoteRequest, logVars
    <3>2. a.mtype = "rvp"
      OBVIOUS
    <3> HIDE DEF a, m
    <3> QED BY <3>1, <3>2
  <2>2. CASE RejectAppendEntries(i, c)
    <3> DEFINE m == Head(net[c])
               a == [mtype |-> "app", mterm |-> FollowSender(i, m).term, msuccess |-> FALSE,
                     mmatchIndex |-> 0, msource |-> i]
    <3>1. Send(Taken(c), "handle", i, m.msource, a) /\ clientVars' = clientVars /\ log' = log
      BY <2>2 DEF RejectAppendEntries, logVars
    <3>2. a.mtype = "app"
      OBVIOUS
    <3> HIDE DEF a, m
    <3> QED BY <3>1, <3>2
  <2> QED BY <2>1, <2>2
<1>3. PICK a, to : /\ a.mtype \in {"rvp", "app"} /\ Send(Taken(c), "handle", i, to, a)
                   /\ clientVars' = clientVars /\ log' = log
  BY <1>2
<1>4. PICK r : r = <<"handle", i, to>>
  OBVIOUS
<1>5. NetAdds(Taken(c), r, a)
  BY <1>1, <1>3, <1>4, ReplyNet
<1> QED BY <1>3, <1>5, PlainRequests

LEMMA RequestEntries ==
    ASSUME IInv, DInv, RequestsOK, NEW h, Follows(h), NEW i \in Servers, appendEntriesLoop(i)
    PROVE  RequestsOK'
<1>1. /\ IsNetwork(net) /\ ConnectionsOK(net) /\ clientVars' = clientVars /\ log' = log
      /\ appendIdx[i] \in Servers
  BY DEF appendEntriesLoop, logVars, IInv, NetOK, Follows, NetworkOK
<1>2. CASE net' = net
  BY <1>1, <1>2, RequestsStay
<1>3. CASE state[i] = "leader" /\ Send(net, "append", i, appendIdx[i],
                                       AppendEntriesMessage(i, appendIdx[i]))
  <2>1. PICK j \in Servers : j = appendIdx[i]
    BY <1>1
  <2>2. PICK q \in Seq(Entries) : q = log[i]
    BY DEF Follows, ServerOK, LogFollows
  <2>3. PICK p \in Nat : p = nextIndex[i][j] - 1 /\ p <= Len(q)
    <3>1. nextIndex[i][j] \in Nat \ {0}
      BY DEF DInv, NextOK
    <3>2. nextIndex[i][j] <= Len(q) + 1
      BY <1>3, <2>2 DEF Follows, ServerOK, Knows
    <3> QED BY <3>1, <3>2
  <2>4. PICK E \in Seq(Entries) : /\ E = SubSeq(q, p + 1, Len(q)) /\ Len(E) = Len(q) - p
                                  /\ \A k \in 1..Len(q) - p : E[k] = q[p + k]
    BY <2>3, RestOfLog
  <2>5. PICK a : a = AppendEntriesMessage(i, j)
    OBVIOUS
  <2>6. a.mtype = "apq" /\ a.mentries = E
    BY <2>2, <2>3, <2>4, <2>5 DEF AppendEntriesMessage
  <2>7. \A k \in 1..Len(E) : AsksOK(E[k].client, E[k].cmd)
    <3> TAKE k \in 1..Len(E)
    <3>0. Len(q) \in Nat /\ p <= Len(q) /\ Len(E) = Len(q) - p
      BY <2>3, <2>4
    <3>1. k \in 1..Len(q) - p /\ p + k \in 1..Len(q)
      BY <3>0
    <3> QED BY <2>2, <2>4, <3>1 DEF RequestsOK, EntriesOK
  <2>8. PICK r : r = <<"append", i, j>>
    OBVIOUS
  <2>9. NetAdds(net, r, a)
    BY <1>1, <1>3, <2>1, <2>5, <2>8, SendNet
  <2>10. RequestOK(r, a)
    BY <2>6, <2>7 DEF RequestOK
  <2>11. \A k \in Servers : \A n \in 1..Len(log'[k]) : AsksOK(log'[k][n].client, log'[k][n].cmd)
    BY <1>1 DEF RequestsOK, EntriesOK
  <2> QED BY <1>1, <2>9, <2>10, <2>11, ServerRequestsKept
<1> QED BY <1>2, <1>3 DEF appendEntriesLoop, Send

\* An answer is that to the command applied.
LEMMA ApplyRequests ==
    ASSUME IInv, RequestsOK, NEW h, Follows(h), NEW i \in Servers, applyLoop(i)
    PROVE  RequestsOK'
<1> DEFINE entry == log[i][commitIndex[i] + 1]
           newSm == ApplyLogEntry(entry, sm[i])
           A == [mtype |-> "response", type |-> entry.cmd.type, msuccess |-> TRUE,
                 idx |-> entry.cmd.idx, key |-> entry.cmd.key,
                 value |-> IF entry.cmd.key \in DOMAIN newSm THEN newSm[entry.cmd.key] ELSE Nil,
                 mleaderHint |-> i]
<1>1. /\ IsNetwork(net) /\ ConnectionsOK(net) /\ clientVars' = clientVars /\ log' = log
      /\ commitIndex[i] < Len(log[i]) /\ Write(net, "apply", i, entry.client, A)
  BY DEF applyLoop, logVars, IInv, NetOK, Follows, NetworkOK
<1>2. commitIndex[i] \in Nat /\ Len(log[i]) \in Nat
  <2>1. ServerOK(h, i) /\ HistoryOK(h, currentTerm)
    BY DEF Follows
  <2> QED BY <2>1, ServerFacts DEF ServerOK, Commits, CommitAt
<1>3. commitIndex[i] + 1 \in 1..Len(log[i])
  BY <1>1, <1>2
<1>4. AsksOK(entry.client, entry.cmd)
  BY <1>3 DEF RequestsOK, EntriesOK
<1>5. /\ A.mtype = "response" /\ A.idx = entry.cmd.idx /\ A.type = entry.cmd.type
      /\ A.key = entry.cmd.key
  OBVIOUS
<1> HIDE DEF A, entry
<1>6. PICK a : a = A
  OBVIOUS
<1>7. PICK r : r = <<"apply", i, entry.client>> /\ r[3] = entry.client
  <2>1. <<"apply", i, entry.client>>[3] = entry.client
    OBVIOUS
  <2> QED BY <2>1
<1>8. NetAdds(net, r, a)
  BY <1>1, <1>6, <1>7, SendNet DEF Send
<1>9. RequestOK(r, a)
  BY <1>4, <1>5, <1>6, <1>7 DEF RequestOK, AsksOK
<1>10. \A j \in Servers : \A k \in 1..Len(log'[j]) : AsksOK(log'[j][k].client, log'[j][k].cmd)
  BY <1>1 DEF RequestsOK, EntriesOK
<1> QED BY <1>1, <1>8, <1>9, <1>10, ServerRequestsKept

LEMMA VoteRequests ==
    ASSUME IInv, RequestsOK, NEW h, Follows(h), NEW i \in Servers, requestVoteLoop(i)
    PROVE  RequestsOK'
<1> DEFINE A == [mtype |-> "rvq", mterm |-> currentTerm[i], mlastLogTerm |-> LastTerm(log[i]),
                 mlastLogIndex |-> Len(log[i]), msource |-> i]
<1>1. /\ IsNetwork(net) /\ ConnectionsOK(net) /\ clientVars' = clientVars /\ log' = log
      /\ Send(net, "vote", i, voteIdx[i], A)
  BY DEF requestVoteLoop, logVars, IInv, NetOK, Follows, NetworkOK
<1>2. A.mtype = "rvq"
  OBVIOUS
<1> HIDE DEF A
<1>3. PICK a, r : a = A /\ r = <<"vote", i, voteIdx[i]>>
  OBVIOUS
<1>4. NetAdds(net, r, a)
  BY <1>1, <1>3, SendNet
<1> QED BY <1>1, <1>2, <1>3, <1>4, PlainRequests

LEMMA NextRequests ==
    ASSUME IInv, DInv, RequestsOK, NEW h, Follows(h), [Next]_vars
    PROVE  RequestsOK'
<1>1. IsNetwork(net) /\ ConnectionsOK(net)
  BY DEF IInv, NetOK, Follows, NetworkOK
<1>2. ASSUME NEW i \in Servers, NEW c \in Arriving(i),
             \/ HandleRequestVoteRequest(i, c) \/ HandleRequestVoteResponse(i, c)
             \/ RejectAppendEntries(i, c) \/ AcceptAppendEntries(i, c)
             \/ HandleAppendEntriesResponse(i, c) \/ LeaderAppends(i, c) \/ RedirectClient(i, c)
      PROVE  RequestsOK'
  <2>1. c \in DOMAIN net
    BY ArrivingIs
  <2>2. CASE HandleRequestVoteResponse(i, c) \/ HandleAppendEntriesResponse(i, c)
    <3>1. clientVars' = clientVars /\ log' = log /\ net' = Taken(c)
      BY <2>2 DEF HandleRequestVoteResponse, HandleAppendEntriesResponse, logVars
    <3> QED BY <1>1, <2>1, <3>1, RequestsStay
  <2>3. CASE HandleRequestVoteRequest(i, c) \/ RejectAppendEntries(i, c)
    BY <2>3, RepliesRequests
  <2> QED BY <1>2, <2>2, <2>3, AcceptRequests, LeaderRequests, RedirectRequests
<1>3. ASSUME NEW i \in Servers,
             \/ serverRequestVoteLoop(i) \/ serverAppendEntriesLoop(i)
             \/ serverAdvanceCommitIndexLoop(i) \/ serverBecomeLeaderLoop(i)
      PROVE  RequestsOK'
  <2>1. clientVars' = clientVars /\ log' = log /\ net' = net
    BY <1>3 DEF serverRequestVoteLoop, serverAppendEntriesLoop, serverAdvanceCommitIndexLoop,
                serverBecomeLeaderLoop, logVars
  <2> QED BY <1>1, <2>1, RequestsStay
<1>4. ASSUME NEW i \in Servers, ServerNext(i) PROVE RequestsOK'
  BY <1>2, <1>3, <1>4, VoteRequests, RequestEntries, ApplyRequests DEF ServerNext, handleMsg
<1>5. ASSUME NEW b \in Breakable, ConnectionBreaks(b) PROVE RequestsOK'
  <2>1. clientVars' = clientVars /\ log' = log
    BY <1>5 DEF ConnectionBreaks, logVars
  <2> QED BY <1>1, <1>5, <2>1, RequestsStay
<1>6. CASE UNCHANGED vars
  <2>1. clientVars' = clientVars /\ log' = log /\ net' = net
    BY <1>6 DEF vars, logVars
  <2> QED BY <1>1, <2>1, RequestsStay
<1> QED BY <1>1, <1>4, <1>5, <1>6, ClientRequests DEF Next

-----------------------------------------------------------------------------
(* Entries appended *)

LEMMA LeaderAppendsFollows ==
    ASSUME IInv, IInv', DInv, RequestsOK, NEW h, Follows(h), NEW i \in Servers,
           NEW c \in Arriving(i), LeaderAppends(i, c)
    PROVE  \E g : Follows(g)'
<1>1. /\ c \in DOMAIN net /\ IsNetwork(net) /\ ConnectionsOK(net) /\ net' = Taken(c)
      /\ state[i] = "leader"
      /\ UNCHANGED <<roleVars, votesGranted, leaderVars, commitIndex, newCommitIndex>>
  BY ArrivingIs DEF LeaderAppends, commitVars, loopVars
<1>2. HistoryOK(h, currentTerm) /\ h \in Histories /\ currentTerm \in [Servers -> Nat]
  BY DEF Follows, HistoryOK
<1>3. PICK t \in h.elected : t = currentTerm[i] /\ t \in Nat
  BY <1>1, LeaderFacts
<1>4. PICK L \in Nat : L = Len(log[i])
  BY <1>1, LeaderFacts
<1>5. PICK q \in Seq(Entries) : q = log[i]
  BY <1>1, LeaderFacts
<1>6. PICK p \in Seq(Entries) : p = h.log[t]
  BY <1>2, <1>3, LogTypes
<1>7. /\ h.head[t] = i /\ h.last[i] = t /\ L = Len(q) /\ L = Len(p) /\ h.accepted[i][t] = L
      /\ \A k \in 1..L : q[k] = p[k]
  BY <1>1, <1>3, <1>4, <1>5, <1>6, LeaderFacts
<1>8. PICK e \in Entries : /\ e.term = t /\ log'[i] = Append(q, e)
                           /\ \A j \in Servers \ {i} : log'[j] = log[j]
  BY <1>3, <1>5, EntryAppended
<1>9. PICK g : AppendStep(h, g, i, t, e)
  BY <1>2, <1>3, AppendStepExists
<1>10. HistoryOK(g, currentTerm')
  <2>1. HistoryOK(g, currentTerm)
    BY <1>2, <1>3, <1>6, <1>7, <1>8, <1>9, AppendKeepsHistory
  <2> QED BY <1>1, <2>1 DEF roleVars
<1>11. Grows(h, g, currentTerm')
  <2>1. Grows(h, g, currentTerm)
    BY <1>2, <1>3, <1>8, <1>9, AppendGrows
  <2> QED BY <1>1, <2>1 DEF roleVars
<1>12. /\ g.elected = h.elected /\ g.head = h.head /\ g.base = h.base /\ g.last = h.last
       /\ g.vote = h.vote /\ g.log[t] = Append(p, e) /\ g.accepted[i][t] = L + 1
       /\ \A u \in Nat : u # t => g.log[u] = h.log[u]
       /\ \A w \in Servers, u \in Nat : w # i \/ u # t => g.accepted[w][u] = h.accepted[w][u]
  BY <1>6, <1>7, <1>9 DEF AppendStep
<1>13. UNCHANGED <<state, currentTerm, matchIndex, nextIndex>>
  BY <1>1 DEF roleVars, leaderVars
<1>14. QuietRoles
  BY <1>1, SameRolesQuiet
<1>15. TermsRise
  BY <1>14, QuietTermsRise DEF IInv
\* The leader.
<1>16. ServerOK(g, i)'
  <2>1. /\ Append(q, e) \in Seq(Entries) /\ Len(Append(q, e)) = L + 1 /\ Len(Append(p, e)) = L + 1
        /\ Agree(Append(q, e), Append(p, e), L + 1)
    <3>1. \A x \in Seq(Entries) :
             /\ Append(x, e) \in Seq(Entries) /\ Len(Append(x, e)) = Len(x) + 1
             /\ \A k \in 1..Len(x) + 1 : Append(x, e)[k] = IF k <= Len(x) THEN x[k] ELSE e
      OBVIOUS
    <3>2. \A k \in 1..L + 1 : Append(q, e)[k] = Append(p, e)[k]
      <4> TAKE k \in 1..L + 1
      <4>1. /\ Append(q, e)[k] = IF k <= L THEN q[k] ELSE e
            /\ Append(p, e)[k] = IF k <= L THEN p[k] ELSE e
        BY <1>7, <3>1
      <4>2. k <= L => q[k] = p[k]
        BY <1>7
      <4> QED BY <4>1, <4>2
    <3>3. Len(Append(q, e)) = L + 1 /\ Len(Append(p, e)) = L + 1 /\ Append(q, e) \in Seq(Entries)
      BY <1>7, <3>1
    <3> QED BY <3>2, <3>3 DEF Agree
  <2>2. LogFollows(g, i)'
    BY <1>7, <1>8, <1>12, <2>1 DEF LogFollows
  <2>3. Leads(g, i)'
    BY <1>3, <1>7, <1>8, <1>12, <1>13, <2>1 DEF Leads
  <2>4. Commits(g, i)'
    <3>1. CommitAt(h, t, commitIndex[i], L) /\ CommitAt(h, t, newCommitIndex[i], L)
      BY <1>4, <1>7 DEF Follows, ServerOK, Commits
    <3>2. L <= L + 1 /\ L + 1 \in Nat
      OBVIOUS
    <3>3. CommitAt(g, t, commitIndex[i], L + 1) /\ CommitAt(g, t, newCommitIndex[i], L + 1)
      BY <1>11, <3>1, <3>2, CommitAtGrows
    <3>4. commitIndex'[i] = commitIndex[i] /\ newCommitIndex'[i] = newCommitIndex[i]
          /\ Len(log'[i]) = L + 1 /\ g.last[i] = t
      BY <1>1, <1>7, <1>8, <1>12, <2>1
    <3> QED BY <3>3, <3>4 DEF Commits
  <2>5. Knows(g, i)'
    <3>1. /\ matchIndex[i] \in [Servers -> Nat]
          /\ \A j \in Servers :
                /\ nextIndex[i][j] <= L + 1
                /\ matchIndex[i][j] = 0 \/ matchIndex[i][j] <= h.accepted[j][t]
          /\ \A x \in {commitIndex[i], newCommitIndex[i]} :
                x <= h.base[t] \/ IsQuorum({i} \cup {k \in Servers : matchIndex[i][k] >= x})
      BY <1>1, <1>3, <1>4 DEF Follows, ServerOK, Knows
    <3>2. ASSUME NEW j \in Servers
          PROVE  /\ nextIndex[i][j] <= L + 1 + 1
                 /\ matchIndex[i][j] = 0 \/ matchIndex[i][j] <= g.accepted[j][t]
      <4>1. nextIndex[i][j] \in Nat
        BY DEF DInv, NextOK
      <4>2. h.accepted[j][t] \in Int /\ g.accepted[j][t] \in Int
        <5>1. h \in Histories /\ g \in Histories
          BY <1>11 DEF Grows
        <5> QED BY <1>3, <5>1, AcceptedIsInt
      <4>3. h.accepted[j][t] <= g.accepted[j][t]
        BY <1>3, <1>11 DEF Grows
      <4>4. matchIndex[i][j] \in Nat
        BY <3>1
      <4> QED BY <3>1, <4>1, <4>2, <4>3, <4>4
    <3>3. /\ currentTerm'[i] = t /\ matchIndex'[i] = matchIndex[i] /\ nextIndex'[i] = nextIndex[i]
          /\ commitIndex'[i] = commitIndex[i] /\ newCommitIndex'[i] = newCommitIndex[i]
          /\ Len(log'[i]) = L + 1 /\ g.base[t] = h.base[t]
      BY <1>1, <1>3, <1>8, <1>12, <1>13, <2>1
    <3> QED BY <3>1, <3>2, <3>3 DEF Knows, IsQuorum
  <2> QED BY <2>2, <2>3, <2>4, <2>5 DEF ServerOK
<1>17. ASSUME NEW j \in Servers PROVE ServerOK(g, j)'
  <2>1. CASE j = i
    BY <1>16, <2>1
  <2>2. CASE j # i
    <3>1. h.last[j] \in Nat
      BY <1>2, LogTypes
    <3>2. state[j] = "leader" => Len(g.log[currentTerm[j]]) = Len(h.log[currentTerm[j]])
      <4> SUFFICES ASSUME state[j] = "leader" PROVE currentTerm[j] \in Nat /\ currentTerm[j] # t
        BY <1>12
      <4>1. currentTerm[j] \in Nat /\ h.head[currentTerm[j]] = j
        BY LeaderFacts
      <4> QED BY <1>7, <2>2, <4>1
    <3>3. Keeps(h, g, j)
      BY <1>1, <1>8, <1>12, <1>13, <2>2, <3>1, <3>2 DEF Keeps
    <3> QED BY <1>2, <1>11, <3>3, KeepsServer DEF Follows
  <2> QED BY <2>1, <2>2
<1> DEFINE a == [mtype |-> "none"]
<1>18. a.mtype # "rvq" /\ ~Carries(a) /\ ~IsGrant(a)
  BY DEF Carries, IsAck, IsGrant
<1> HIDE DEF a
<1>19. NetAdds(Taken(c), <<>>, a)
  BY <1>1, TakenNet
<1>20. \A j \in Servers : state'[j] = "candidate" => log'[j] = log[j]
  BY <1>1, <1>8, <1>13
<1>21. RolesFollow(g)'
  <2>1. \A k, d \in Servers, u \in Nat : Holds(k, d, u)' => Holds(k, d, u)
    BY <1>1, <1>14, <1>18, <1>19, HoldsKept DEF IInv
  <2> QED BY <1>2, <1>11, <1>12, <1>14, <1>15, <1>20, <2>1, QuietRolesFollow DEF Follows
<1>22. NetworkOK(g)'
  <2>1. CandidatesStay
    BY <1>13, <1>20 DEF CandidatesStay
  <2>2. ASSUME NEW d, NEW x, OnConnection(Taken(c), d, x) PROVE MsgOK(g, d[1], x)'
    <3>1. OnConnection(net, d, x)
      BY <2>2, <1>19 DEF NetAdds
    <3>2. MsgOK(h, d[1], x) /\ MessageOK(x)
      BY <3>1 DEF Follows, NetworkOK, MessagesOK, IInv, NetOK
    <3>3. ASSUME x.mtype = "apq" PROVE g.accepted[d[1][3]][x.mterm] <= Reach(x)
      <4>1. /\ x.mterm \in h.elected /\ x.mterm \in Nat /\ h.head[x.mterm] = x.msource
            /\ d[1][3] \in Servers \ {x.msource} /\ h.accepted[d[1][3]][x.mterm] <= Reach(x)
        BY <1>2, <3>2, <3>3, LogTypes DEF MsgOK, AppendRequestOK
      <4>2. d[1][3] # i \/ x.mterm # t
        BY <1>7, <4>1
      <4> QED BY <1>12, <4>1, <4>2
    <3>4. IsAck(x) /\ state'[d[1][3]] = "leader" /\ currentTerm'[d[1][3]] = x.mterm =>
             matchIndex'[d[1][3]][x.msource] <= x.mmatchIndex
      BY <1>13, <3>2 DEF MsgOK, AckOK
    <3> QED BY <1>2, <1>11, <1>15, <2>1, <3>2, <3>3, <3>4, OldMessage
  <2> QED BY <1>18, <1>19, <2>2, NetworkKept, PlainMessage DEF Follows, NetworkOK
<1> QED BY <1>10, <1>17, <1>21, <1>22 DEF Follows

-----------------------------------------------------------------------------
(* The whole system *)

\* At first nothing was accepted but the empty log, that of term 0.
LEMMA InitFollows == Init => \E h : Follows(h)
<1> SUFFICES ASSUME Init PROVE \E h : Follows(h)
  OBVIOUS
<1> DEFINE H == [elected |-> {0}, head |-> [t \in Nat |-> Nil], log |-> [t \in Nat |-> <<>>],
                 base |-> [t \in Nat |-> 0],
                 accepted |-> [v \in Servers |-> [t \in Nat |-> IF t = 0 THEN 0 ELSE -1]],
                 last |-> [v \in Servers |-> 0], vote |-> [v \in Servers |-> [t \in Nat |-> Nil]],
                 seen |-> [v \in Servers |-> [t \in Nat |-> 0]]]
<1>1. H \in Histories
  <2>1. H.log \in [Nat -> Seq(Entries)]
    <3>1. <<>> \in Seq(Entries)
      OBVIOUS
    <3> QED BY <3>1
  <2>2. H.accepted \in [Servers -> [Nat -> Nat \cup {-1}]]
    OBVIOUS
  <2>3. H.vote \in [Servers -> [Nat -> Servers \cup {Nil}]] /\ H.head \in [Nat -> Servers \cup {Nil}]
    OBVIOUS
  <2>4. /\ H.elected \in SUBSET Nat /\ H.base \in [Nat -> Nat] /\ H.last \in [Servers -> Nat]
        /\ H.seen \in [Servers -> [Nat -> Nat]]
    OBVIOUS
  <2>5. H = [elected |-> H.elected, head |-> H.head, log |-> H.log, base |-> H.base,
             accepted |-> H.accepted, last |-> H.last, vote |-> H.vote, seen |-> H.seen]
    OBVIOUS
  <2> HIDE DEF H
  <2> QED BY <2>1, <2>2, <2>3, <2>4, <2>5 DEF Histories
<1>2. /\ H.elected = {0} /\ \A t \in Nat : H.log[t] = <<>> /\ H.base[t] = 0 /\ H.head[t] = Nil
      /\ \A v \in Servers : H.last[v] = 0
      /\ \A v \in Servers, t \in Nat : /\ H.accepted[v][t] = IF t = 0 THEN 0 ELSE -1
                                       /\ H.vote[v][t] = Nil
  OBVIOUS
<1> HIDE DEF H
<1>3. PICK h \in Histories : h = H
  BY <1>1
<1>4. /\ h.elected = {0} /\ \A t \in Nat : h.log[t] = <<>> /\ h.base[t] = 0 /\ h.head[t] = Nil
      /\ \A v \in Servers : h.last[v] = 0
      /\ \A v \in Servers, t \in Nat : /\ h.accepted[v][t] = IF t = 0 THEN 0 ELSE -1
                                       /\ h.vote[v][t] = Nil
  BY <1>2, <1>3
<1>5. \A i \in Servers : /\ currentTerm[i] = 1 /\ votedFor[i] = Nil /\ state[i] = "follower"
                         /\ log[i] = <<>> /\ commitIndex[i] = 0 /\ newCommitIndex[i] = 0
                         /\ matchIndex[i] \in [Servers -> Nat]
  BY DEF Init
<1>6. currentTerm \in [Servers -> Nat] /\ DOMAIN net = {}
  BY DEF Init
<1>7. Len(<<>>) = 0 /\ \A k \in 1..0 : FALSE
  OBVIOUS
<1>8. HistoryOK(h, currentTerm)
  <2>1. LogsMatch(h)
    BY <1>4, <1>7 DEF LogsMatch
  <2>2. AcceptsOK(h, currentTerm)
    BY <1>4, <1>5, <1>7 DEF AcceptsOK
  <2>3. VotesOK(h, currentTerm)
    BY <1>4 DEF VotesOK
  <2>4. LaterHave(h, currentTerm)
    BY <1>4 DEF LaterHave
  <2> QED BY <1>6, <2>1, <2>2, <2>3, <2>4 DEF HistoryOK
<1>9. ASSUME NEW i \in Servers PROVE ServerOK(h, i)
  <2>1. h.last[i] = 0 /\ h.accepted[i][0] = 0 /\ h.log[0] = <<>> /\ log[i] = <<>>
    BY <1>4, <1>5
  <2>2. <<>> \in Seq(Entries) /\ Agree(<<>>, <<>>, 0)
    BY DEF Agree
  <2>3. LogFollows(h, i)
    BY <1>7, <2>1, <2>2 DEF LogFollows
  <2>4. Leads(h, i) /\ Knows(h, i)
    BY <1>5 DEF Leads, Knows
  <2>5. Commits(h, i)
    BY <1>5 DEF Commits, CommitAt
  <2> QED BY <2>3, <2>4, <2>5 DEF ServerOK
<1>10. RolesFollow(h)
  <2>1. \A i, v \in Servers, t \in Nat : ~Holds(v, i, t) /\ h.vote[v][t] # i
    BY <1>4, <1>5, <1>6, ServersAreNot0 DEF Holds, InFlight, Campaigns, OnConnection
  <2> QED BY <1>4, <1>5, <2>1 DEF RolesFollow
<1>11. NetworkOK(h)
  BY <1>6 DEF NetworkOK, MessagesOK, OnConnection, InOrder, Before, ConnectionsOK
<1> QED BY <1>8, <1>9, <1>10, <1>11 DEF Follows

LEMMA NextFollows ==
    ASSUME ~overtaken', IInv, IInv', DInv, DInv', IndexesOK, RequestsOK, NEW h, Follows(h), [Next]_vars
    PROVE  \E g : Follows(g)'
<1>1. ASSUME NEW i \in Servers, handleMsg(i) PROVE \E g : Follows(g)'
  <2>1. PICK c \in Arriving(i) :
           /\ \/ HandleRequestVoteRequest(i, c) \/ HandleRequestVoteResponse(i, c)
              \/ RejectAppendEntries(i, c) \/ AcceptAppendEntries(i, c)
              \/ HandleAppendEntriesResponse(i, c) \/ LeaderAppends(i, c) \/ RedirectClient(i, c)
           /\ ~Overtakes(c)
    BY <1>1 DEF handleMsg
  <2>2. CASE HandleRequestVoteResponse(i, c) \/ RejectAppendEntries(i, c)
             \/ HandleAppendEntriesResponse(i, c) \/ RedirectClient(i, c)
    BY <2>1, <2>2, HandleRequestVoteResponseFollows, RejectAppendEntriesFollows,
       HandleAppendEntriesResponseFollows, RedirectClientFollows
  <2>3. CASE HandleRequestVoteRequest(i, c)
    BY <2>3, HandleRequestVoteRequestFollows
  <2>4. CASE AcceptAppendEntries(i, c)
    BY <2>1, <2>4, AcceptAppendEntriesFollows
  <2>5. CASE LeaderAppends(i, c)
    BY <2>5, LeaderAppendsFollows
  <2> QED BY <2>1, <2>2, <2>3, <2>4, <2>5
<1>2. ASSUME NEW i \in Servers, ServerNext(i) PROVE \E g : Follows(g)'
  <2>1. CASE serverAppendEntriesLoop(i) \/ requestVoteLoop(i) \/ appendEntriesLoop(i)
             \/ serverAdvanceCommitIndexLoop(i) \/ applyLoop(i)
    BY <2>1, serverAppendEntriesLoopFollows, requestVoteLoopFollows, appendEntriesLoopFollows,
       serverAdvanceCommitIndexLoopFollows, applyLoopFollows
  <2>2. CASE serverRequestVoteLoop(i)
    BY <2>2, serverRequestVoteLoopFollows
  <2>3. CASE serverBecomeLeaderLoop(i)
    BY <2>3, serverBecomeLeaderLoopFollows
  <2> QED BY <1>1, <1>2, <2>1, <2>2, <2>3 DEF ServerNext
<1>3. ASSUME NEW i \in Clients, ClientNext(i) PROVE \E g : Follows(g)'
  BY <1>3, ClientFollows
<1>4. ASSUME NEW b \in Breakable, ConnectionBreaks(b) PROVE \E g : Follows(g)'
  BY <1>4, BreakFollows
<1>5. CASE UNCHANGED vars
  BY <1>5, StutterFollows
<1> QED BY <1>2, <1>3, <1>4, <1>5 DEF Next

\* The inductive invariant: the state is what some history leaves behind.
HInv == IInv /\ DInv /\ IndexesOK /\ RequestsOK /\ \E h : Follows(h)

LEMMA InitHInv == Init => HInv
BY InitIInv, InitDInv, InitIndexesOK, InitRequestsOK, InitFollows DEF HInv

LEMMA NextHInv ==
    ASSUME HInv, [Next]_vars, ~overtaken'
    PROVE  HInv'
<1>1. IInv /\ DInv /\ IndexesOK /\ RequestsOK
  BY DEF HInv
<1>2. PICK h : Follows(h)
  BY DEF HInv
<1>3. IInv' /\ DInv' /\ IndexesOK'
  BY <1>1, NextIInv, NextDInv, NextIndexesOK
<1>4. RequestsOK'
  BY <1>1, <1>2, NextRequests
<1>5. \E g : Follows(g)'
  BY <1>1, <1>2, <1>3, NextFollows
<1> QED BY <1>3, <1>4, <1>5 DEF HInv

\* What has been overtaken stays so.
LEMMA OvertakenStays == [Next]_vars /\ ~overtaken' => ~overtaken
BY DEF Next, ServerNext, ClientNext, handleMsg, vars

\* The invariant holds until a message of a leader, or an answer to one, overtakes an
\* earlier one.
LEMMA UntilOvertaken == Spec => [](~overtaken => HInv)
<1>1. Init => HInv
  BY InitHInv
<1>2. (~overtaken => HInv) /\ [Next]_vars => (~overtaken' => HInv')
  BY NextHInv, OvertakenStays
<1> QED BY <1>1, <1>2, PTL DEF Spec

-----------------------------------------------------------------------------
(* What the servers promise *)

\* No two servers commit different entries, and none commits more than it has.
CommittedAgree ==
    /\ \A i \in Servers : commitIndex[i] <= Len(log[i])
    /\ \A i, j \in Servers : \A k \in 1..commitIndex[i] \cap 1..commitIndex[j] : log[i][k] = log[j][k]

\* What is committed in the log of a term is in those of later ones.
LEMMA CommittedLater ==
    ASSUME NEW h, NEW T, HistoryOK(h, T), NEW a \in h.elected, NEW t \in h.elected, a <= t,
           NEW c, NEW n, CommitAt(h, a, c, n)
    PROVE  Agree(h.log[t], h.log[a], c)
<1>1. h \in Histories /\ a \in Nat /\ t \in Nat /\ c \in Nat
  BY LogTypes DEF HistoryOK, CommitAt
<1>2. h.log[a] \in Seq(Entries) /\ h.log[t] \in Seq(Entries)
  BY <1>1, LogTypes
<1>3. CASE c = 0
  BY <1>2, <1>3 DEF Agree
<1>4. CASE c # 0
  <2>1. PICK s \in h.elected : \E k \in 1..Len(h.log[s]) :
           /\ s <= a /\ Chosen(h, s, k) /\ c <= k /\ c <= n /\ Agree(h.log[a], h.log[s], c)
    BY <1>4 DEF CommitAt
  <2>2. PICK k \in 1..Len(h.log[s]) :
           /\ s <= a /\ Chosen(h, s, k) /\ c <= k /\ c <= n /\ Agree(h.log[a], h.log[s], c)
    BY <2>1
  <2>3. s \in Nat /\ h.log[s] \in Seq(Entries) /\ Agree(h.log[s], h.log[a], c)
    <3>1. s \in Nat /\ h.log[s] \in Seq(Entries)
      BY <1>1, LogTypes
    <3> QED BY <1>1, <1>2, <2>2, <3>1, AgreeRules
  <2>4. Agree(h.log[t], h.log[s], c)
    <3>1. CASE s = t
      <4>1. a = t
        BY <1>1, <2>2, <2>3, <3>1
      <4> QED BY <2>2, <4>1
    <3>2. CASE s # t
      <4>1. s < t
        BY <1>1, <2>2, <2>3, <3>2
      <4>2. Agree(h.log[t], h.log[s], k)
        BY <2>2, <4>1, ChosenLater
      <4>3. k \in Nat
        OBVIOUS
      <4> QED BY <1>1, <1>2, <2>2, <2>3, <4>2, <4>3, AgreeRules
    <3> QED BY <3>1, <3>2
  <2> QED BY <1>1, <1>2, <2>3, <2>4, AgreeRules
<1> QED BY <1>3, <1>4

\* What is known of a server in a state that follows h.
LEMMA CommitFacts ==
    ASSUME NEW h, Follows(h), NEW i \in Servers
    PROVE  /\ HistoryOK(h, currentTerm) /\ h \in Histories /\ h.last[i] \in h.elected
           /\ h.last[i] \in Nat /\ currentTerm[i] \in Nat /\ h.last[i] <= currentTerm[i]
           /\ Len(log[i]) \in Nat /\ DOMAIN log[i] = 1..Len(log[i])
           /\ \A k \in 1..Len(log[i]) : log[i][k] = h.log[h.last[i]][k]
           /\ CommitAt(h, h.last[i], commitIndex[i], Len(log[i]))
           /\ CommitAt(h, h.last[i], newCommitIndex[i], Len(log[i]))
           /\ commitIndex[i] \in Nat /\ newCommitIndex[i] \in Nat
           /\ commitIndex[i] <= Len(log[i]) /\ newCommitIndex[i] <= Len(log[i])
<1>1. HistoryOK(h, currentTerm) /\ LogFollows(h, i) /\ Commits(h, i)
  BY DEF Follows, ServerOK
<1>2. /\ h \in Histories /\ h.last[i] \in h.elected /\ h.last[i] \in Nat
      /\ currentTerm[i] \in Nat /\ h.last[i] <= currentTerm[i]
      /\ log[i] \in Seq(Entries) /\ Len(log[i]) \in Nat
  BY <1>1, ServerFacts
<1>3. DOMAIN log[i] = 1..Len(log[i])
  BY <1>2
<1>4. \A k \in 1..Len(log[i]) : log[i][k] = h.log[h.last[i]][k]
  BY <1>1 DEF LogFollows, Agree
<1>5. /\ CommitAt(h, h.last[i], commitIndex[i], Len(log[i]))
      /\ CommitAt(h, h.last[i], newCommitIndex[i], Len(log[i]))
  BY <1>1 DEF Commits
<1>6. /\ commitIndex[i] \in Nat /\ newCommitIndex[i] \in Nat
      /\ commitIndex[i] <= Len(log[i]) /\ newCommitIndex[i] <= Len(log[i])
  BY <1>2, <1>5 DEF CommitAt
<1> QED BY <1>1, <1>2, <1>3, <1>4, <1>5, <1>6

LEMMA FollowsLeaderCompleteness ==
    ASSUME NEW h, Follows(h)
    PROVE  LeaderCompleteness
<1> SUFFICES ASSUME NEW i \in Servers, NEW j \in Servers, state[j] = "leader",
                    currentTerm[j] >= currentTerm[i],
                    NEW k \in 1..commitIndex[i] \cap DOMAIN log[i]
             PROVE  k \in DOMAIN log[j] /\ log[j][k] = log[i][k]
  BY DEF LeaderCompleteness
<1>1. PICK a \in h.elected : a = h.last[i] /\ a \in Nat /\ a <= currentTerm[i]
  BY CommitFacts
<1>2. PICK t \in h.elected : t = currentTerm[j] /\ t \in Nat
  BY LeaderFacts
<1>3. a <= t /\ HistoryOK(h, currentTerm) /\ commitIndex[i] \in Nat /\ currentTerm[i] \in Nat
  <2>1. currentTerm[i] \in Nat /\ HistoryOK(h, currentTerm) /\ commitIndex[i] \in Nat
    BY CommitFacts
  <2> QED BY <1>1, <1>2, <2>1
<1>4. Agree(h.log[t], h.log[a], commitIndex[i])
  BY <1>1, <1>3, CommitFacts, CommittedLater
<1>5. k \in 1..Len(log[i]) /\ k \in 1..commitIndex[i]
  BY CommitFacts
<1>6. log[i][k] = h.log[a][k]
  BY <1>1, <1>5, CommitFacts
<1>7. k <= Len(h.log[t]) /\ h.log[t][k] = h.log[a][k]
  <2>1. commitIndex[i] <= Len(h.log[t]) /\ h.log[t][k] = h.log[a][k] /\ Len(h.log[t]) \in Nat
    BY <1>2, <1>4, <1>5, CommitFacts, LogTypes DEF Agree
  <2> QED BY <1>3, <1>5, <2>1
<1>8. k \in 1..Len(log[j])
  <2>1. Len(log[j]) = Len(h.log[t]) /\ Len(log[j]) \in Nat
    BY <1>2, LeaderFacts
  <2> QED BY <1>5, <1>7, <2>1
<1>9. log[j][k] = h.log[t][k]
  BY <1>2, <1>8, LeaderFacts
<1> QED BY <1>6, <1>7, <1>8, <1>9, CommitFacts

LEMMA FollowsCommittedAgree ==
    ASSUME NEW h, Follows(h)
    PROVE  CommittedAgree
<1>1. ASSUME NEW i \in Servers, NEW j \in Servers, h.last[i] <= h.last[j], NEW k \in Nat \ {0},
             k <= commitIndex[i], k <= commitIndex[j]
      PROVE  log[i][k] = log[j][k]
  <2>1. PICK a \in h.elected : a = h.last[i] /\ a \in Nat
    BY CommitFacts
  <2>2. PICK t \in h.elected : t = h.last[j] /\ t \in Nat
    BY CommitFacts
  <2>3. k \in 1..Len(log[i]) /\ k \in 1..Len(log[j]) /\ k \in 1..commitIndex[i]
    BY <1>1, CommitFacts
  <2>4. Agree(h.log[t], h.log[a], commitIndex[i])
    BY <1>1, <2>1, <2>2, CommitFacts, CommittedLater
  <2>5. h.log[t][k] = h.log[a][k]
    BY <2>3, <2>4 DEF Agree
  <2> QED BY <2>1, <2>2, <2>3, <2>5, CommitFacts
<1>2. \A i \in Servers : /\ h.last[i] \in Nat /\ commitIndex[i] \in Nat
                         /\ commitIndex[i] <= Len(log[i])
  BY CommitFacts
<1>3. ASSUME NEW i \in Servers, NEW j \in Servers, NEW k \in 1..commitIndex[i] \cap 1..commitIndex[j]
      PROVE  log[i][k] = log[j][k]
  <2>1. k \in Nat \ {0} /\ k <= commitIndex[i] /\ k <= commitIndex[j]
    BY <1>2
  <2>2. h.last[i] <= h.last[j] \/ h.last[j] <= h.last[i]
    BY <1>2
  <2> QED BY <1>1, <2>1, <2>2
<1> QED BY <1>2, <1>3 DEF CommittedAgree

\* The assertions about a request to append entries.
LEMMA RequestAcceptable ==
    ASSUME IInv, NEW h, Follows(h), NEW c \in DOMAIN net,
           Head(net[c]).mtype = "apq"
    PROVE  LET m == Head(net[c])
               i == Dest(c)
           IN Rejects(i, FollowSender(i, m), m) \/ Acceptable(i, FollowSender(i, m), m)
<1> DEFINE m == Head(net[c])
           u == FollowSender(Dest(c), m)
<1>1. c \in Arriving(Dest(c))
  BY DEF Arriving
<1>2. MsgOK(h, c[1], m) /\ MessageOK(m) /\ RolesOK /\ c[1][3] = Dest(c)
  BY <1>1, ArrivingIs
<1>3. PICK i \in Servers : i = Dest(c)
  BY <1>2 DEF MsgOK, AppendRequestOK
<1>4. m.mterm \in Nat /\ m.msource \in Servers
  BY <1>2 DEF MessageOK
<1>5. /\ m.mterm \in h.elected /\ h.head[m.mterm] = m.msource /\ i # m.msource
      /\ m.mprevLogIndex \in Nat /\ m.mentries \in Seq(Entries)
      /\ CommitAt(h, m.mterm, m.mcommitIndex, Reach(m))
  BY <1>2, <1>3 DEF MsgOK, AppendRequestOK
<1>6. m.mcommitIndex <= m.mprevLogIndex + Len(m.mentries)
  <2>1. Reach(m) = m.mprevLogIndex + Len(m.mentries)
    BY DEF Reach
  <2>2. m.mprevLogIndex + Len(m.mentries) \in Nat
    BY <1>5
  <2>3. m.mcommitIndex = 0 \/ m.mcommitIndex <= Reach(m)
    BY <1>5 DEF CommitAt
  <2> HIDE DEF m
  <2> QED BY <2>1, <2>2, <2>3
<1>7. SUFFICES ASSUME ~Rejects(i, u, m) PROVE Acceptable(i, u, m)
  BY <1>3
<1>8. ~(m.mterm < u.term) /\ (u.state = "follower" => LogOK(i, m))
  BY <1>7 DEF Rejects
<1>9. u.state = "follower"
  <2>1. PICK w : w = UpdateTerm(i, m)
    OBVIOUS
  <2>2. u.term = w.term /\ ~(m.mterm < w.term)
        /\ u.state = IF w.state = "candidate" THEN "follower" ELSE w.state
    BY <1>3, <1>8, <2>1, FollowSenderIs
  <2>3. SUFFICES ASSUME w.state = "leader" PROVE FALSE
    <3>1. w.state \in {"follower", "candidate", "leader"}
      BY <1>2, <1>4, <2>1, UpdateTermDemotes DEF Demotion
    <3> QED BY <2>2, <3>1
  <2>4. state[i] = "leader" /\ w.term = currentTerm[i] /\ ~(m.mterm > currentTerm[i])
    BY <2>1, <2>3 DEF UpdateTerm
  <2>5. m.mterm = currentTerm[i]
    <3>1. currentTerm[i] \in Nat
      BY <1>2 DEF RolesOK
    <3> HIDE DEF m, u
    <3> QED BY <1>4, <2>2, <2>4, <3>1
  <2>6. h.head[currentTerm[i]] = i
    BY <2>4, LeaderFacts
  <2> QED BY <1>5, <2>5, <2>6
<1> QED BY <1>6, <1>8, <1>9 DEF Acceptable

\* The assertion of AServerAdvanceCommitIndex.
LEMMA CommitGoesOn ==
    ASSUME NEW h, Follows(h), NEW i \in Servers, state[i] = "leader"
    PROVE  NextCommitIndex(i) >= commitIndex[i]
<1>1. PICK t \in h.elected : t = currentTerm[i] /\ t \in Nat
  BY LeaderFacts
<1>2. PICK L \in Nat : L = Len(log[i])
  BY LeaderFacts
<1>3. /\ h \in Histories /\ LogsMatch(h) /\ L = Len(h.log[t])
      /\ \A k \in 1..L : log[i][k] = h.log[t][k]
  BY <1>1, <1>2, LeaderFacts
<1>4. PICK x \in Nat : x = commitIndex[i] /\ x <= L
  BY <1>2, CommitFacts
<1>5. x <= h.base[t] \/ IsQuorum({i} \cup {k \in Servers : matchIndex[i][k] >= x})
  BY <1>1, <1>4 DEF Follows, ServerOK, Knows
<1>6. PICK n : n = FindMaxAgreeIndex(log[i], i, matchIndex[i])
  OBVIOUS
<1>7. NextCommitIndex(i) = IF n # Nil /\ log[i][n].term = t THEN n ELSE x
  BY <1>1, <1>4, <1>6 DEF NextCommitIndex
<1>8. CASE ~(n # Nil /\ log[i][n].term = t)
  BY <1>4, <1>7, <1>8
<1>9. CASE n # Nil /\ log[i][n].term = t
  <2>1. n \in 1..L /\ \A k \in 1..L :
           IsQuorum({i} \cup {j \in Servers : matchIndex[i][j] >= k}) => k <= n
    <3>1. Len(log[i]) \in Nat
      BY <1>2
    <3> QED BY <1>2, <1>6, <1>9, <3>1, FindMaxAgreeIndexIs
  <2>2. h.log[t][n].term = t
    BY <1>3, <1>9, <2>1
  <2>3. n > h.base[t] /\ h.base[t] \in Nat
    <3>1. h.base[t] \in Nat
      BY <1>1, <1>3, LogTypes
    <3>2. n <= h.base[t] => h.log[t][n].term < t
      BY <1>3, <2>1 DEF LogsMatch
    <3> QED BY <1>1, <2>1, <2>2, <3>1, <3>2
  <2>4. x <= n
    <3>1. CASE x <= h.base[t]
      BY <2>1, <2>3, <3>1
    <3>2. CASE IsQuorum({i} \cup {k \in Servers : matchIndex[i][k] >= x})
      <4>1. x = 0 \/ x \in 1..L
        BY <1>4
      <4> QED BY <2>1, <3>2, <4>1
    <3> QED BY <1>5, <3>1, <3>2
  <2> QED BY <1>4, <1>7, <1>9, <2>1, <2>4
<1> QED BY <1>8, <1>9

LEMMA FollowsAssertions ==
    ASSUME IInv, RequestsOK, NEW h, Follows(h)
    PROVE  AssertionsHold
<1>1. ASSUME NEW c \in DOMAIN net, Head(net[c]).mtype = "response"
      PROVE  LET m == Head(net[c])
                 i == Dest(c)
             IN m.idx = reqIdx[i] => m.type = req[i].type /\ m.key = req[i].key
  <2>1. IsNetwork(net)
    BY DEF IInv, NetOK
  <2>2. OnConnection(net, c, Head(net[c]))
    BY <2>1, TakenIsThere
  <2>3. RequestOK(c[1], Head(net[c]))
    BY <2>2 DEF RequestsOK
  <2> QED BY <1>1, <2>3 DEF RequestOK, AnswerOK, Dest
<1>2. ASSUME NEW c \in DOMAIN net
      PROVE  LET m == Head(net[c])
                 i == Dest(c)
             IN CASE m.mtype = "apq" ->
                       Rejects(i, FollowSender(i, m), m) \/ Acceptable(i, FollowSender(i, m), m)
                  [] m.mtype = "response" ->
                       m.idx = reqIdx[i] => m.type = req[i].type /\ m.key = req[i].key
                  [] OTHER -> TRUE
  <2>1. CASE Head(net[c]).mtype = "apq"
    BY <1>2, <2>1, RequestAcceptable
  <2>2. CASE Head(net[c]).mtype = "response"
    BY <1>1, <2>2
  <2>3. CASE Head(net[c]).mtype \notin {"apq", "response"}
    BY <2>3
  <2> QED BY <2>1, <2>2, <2>3
<1>3. ASSUME NEW i \in Servers
      PROVE  /\ state[i] = "leader" /\ ~Applying(i) => NextCommitIndex(i) >= commitIndex[i]
             /\ Applying(i) => commitIndex[i] < Len(log[i])
  <2>1. Applying(i) => commitIndex[i] < Len(log[i])
    BY CommitFacts DEF Applying
  <2> QED BY <2>1, CommitGoesOn
<1> QED BY <1>2, <1>3 DEF AssertionsHold

\* LeaderCompleteness: every leader has what servers of its term or earlier ones have
\* committed, in every behaviour as long as no append request or answer to one has
\* overtaken an earlier one of its route and term.  After that the code breaks it
\* (Raft_overtake.cfg).
THEOREM LeadersComplete == Spec => [](~overtaken => LeaderCompleteness)
<1>1. HInv => LeaderCompleteness
  BY FollowsLeaderCompleteness DEF HInv
<1> QED BY <1>1, UntilOvertaken, PTL

\* AssertionsHold: no assertion of handleMsg, AServerAdvanceCommitIndex or AClient
\* fails, whatever is lost, delayed or answered late, and whatever else overtakes, until
\* such an overtaking.
THEOREM NoAssertionFails == Spec => [](~overtaken => AssertionsHold)
<1>1. HInv => AssertionsHold
  BY FollowsAssertions DEF HInv
<1> QED BY <1>1, UntilOvertaken, PTL

\* Entries of one term at one place of two logs have the same entries before them,
\* whatever was truncated on the way: what handleMsg relies on when it compares
\* only the term of the entry before those it is sent.
LogMatching ==
    \A i, j \in Servers : \A k \in DOMAIN log[i] \cap DOMAIN log[j] :
        log[i][k].term = log[j][k].term => \A n \in 1..k : log[i][n] = log[j][n]

LEMMA FollowsLogMatching ==
    ASSUME NEW h, Follows(h)
    PROVE  LogMatching
<1> SUFFICES ASSUME NEW i \in Servers, NEW j \in Servers,
                    NEW k \in DOMAIN log[i] \cap DOMAIN log[j],
                    log[i][k].term = log[j][k].term, NEW n \in 1..k
             PROVE  log[i][n] = log[j][n]
  BY DEF LogMatching
<1>1. ASSUME NEW v \in Servers, k \in DOMAIN log[v]
      PROVE  log[v][n] = h.log[log[v][k].term][n]
  <2>1. /\ k \in 1..Len(log[v]) /\ k \in Nat /\ Len(log[v]) \in Nat
        /\ h.last[v] \in h.elected /\ LogsMatch(h)
        /\ \A m \in 1..Len(log[v]) : log[v][m] = h.log[h.last[v]][m]
    <3>1. /\ HistoryOK(h, currentTerm) /\ h.last[v] \in h.elected
          /\ Len(log[v]) \in Nat /\ DOMAIN log[v] = 1..Len(log[v])
          /\ \A m \in 1..Len(log[v]) : log[v][m] = h.log[h.last[v]][m]
      BY CommitFacts
    <3>2. LogsMatch(h)
      BY <3>1 DEF HistoryOK
    <3> QED BY <1>1, <3>1, <3>2
  <2>2. k \in 1..Len(h.log[h.last[v]]) /\ log[v][k] = h.log[h.last[v]][k]
    <3>1. HistoryOK(h, currentTerm) /\ LogFollows(h, v)
      BY DEF Follows, ServerOK
    <3>2. Len(log[v]) <= Len(h.log[h.last[v]]) /\ h \in Histories /\ h.last[v] \in Nat
      BY <3>1, ServerFacts
    <3>3. Len(h.log[h.last[v]]) \in Nat
      BY <3>2, LogTypes
    <3> QED BY <2>1, <3>2, <3>3
  <2>3. Agree(h.log[h.last[v]], h.log[log[v][k].term], k)
    BY <2>1, <2>2 DEF LogsMatch
  <2>4. n \in 1..Len(log[v])
    BY <2>1
  <2> QED BY <2>1, <2>3, <2>4 DEF Agree
<1> QED BY <1>1

\* Logs that agree on the term of an entry agree up to there, until an append request or
\* an answer to one overtakes an earlier one.
THEOREM LogsMatchUp == Spec => [](~overtaken => LogMatching)
<1>1. HInv => LogMatching
  BY FollowsLogMatching DEF HInv
<1> QED BY <1>1, UntilOvertaken, PTL

\* No entry that a server has applied is another one elsewhere, until an append request
\* or an answer to one overtakes an earlier one.
THEOREM CommittedOnce == Spec => [](~overtaken => CommittedAgree)
<1>1. HInv => CommittedAgree
  BY FollowsCommittedAgree DEF HInv
<1> QED BY <1>1, UntilOvertaken, PTL

-----------------------------------------------------------------------------
(* The store *)

\* What store s has under a key.
ValueOf(s, key) == IF key \in DOMAIN s THEN s[key] ELSE Nil

\* The first n entries of log q that put a value under key, and the last such value.
PutsIn(q, key, n) == {k \in 1..n : q[k].cmd.type = "put" /\ q[k].cmd.key = key}

LastValue(q, P) ==
    IF P = {} THEN Nil ELSE q[CHOOSE k \in P : \A l \in P : l <= k].cmd.value

ValueIn(q, key, n) == LastValue(q, PutsIn(q, key, n))

LEMMA LastPut ==
    ASSUME NEW q, NEW key, NEW n \in Nat, NEW k \in PutsIn(q, key, n),
           \A l \in PutsIn(q, key, n) : l <= k
    PROVE  ValueIn(q, key, n) = q[k].cmd.value
<1> DEFINE P == PutsIn(q, key, n)
           c == CHOOSE x \in P : \A l \in P : l <= x
<1>1. c \in P /\ \A l \in P : l <= c
  OBVIOUS
<1>2. P \subseteq Nat
  BY DEF PutsIn
<1>3. c = k
  <2>1. c \in Nat /\ k \in Nat /\ c <= k /\ k <= c
    BY <1>1, <1>2
  <2> QED BY <2>1
<1> HIDE DEF c
<1>4. P # {}
  OBVIOUS
<1> QED BY <1>3, <1>4 DEF ValueIn, LastValue, c

LEMMA LastPutExists ==
    ASSUME NEW q, NEW key, NEW n \in Nat, PutsIn(q, key, n) # {}
    PROVE  \E k \in PutsIn(q, key, n) : \A l \in PutsIn(q, key, n) : l <= k
<1>1. PutsIn(q, key, n) \subseteq 1..n
  BY DEF PutsIn
<1> QED BY <1>1, GreatestOf

\* The value depends on the first n entries only.
LEMMA SameValue ==
    ASSUME NEW q, NEW r, NEW key, NEW n \in Nat, \A k \in 1..n : q[k] = r[k]
    PROVE  ValueIn(q, key, n) = ValueIn(r, key, n)
<1>1. PutsIn(q, key, n) = PutsIn(r, key, n)
  BY DEF PutsIn
<1>2. CASE PutsIn(q, key, n) = {}
  BY <1>1, <1>2 DEF ValueIn, LastValue
<1>3. CASE PutsIn(q, key, n) # {}
  <2>1. PICK k \in PutsIn(q, key, n) : \A l \in PutsIn(q, key, n) : l <= k
    BY <1>3, LastPutExists
  <2>2. ValueIn(q, key, n) = q[k].cmd.value
    BY <2>1, LastPut
  <2>3. ValueIn(r, key, n) = r[k].cmd.value
    <3>1. k \in PutsIn(r, key, n) /\ \A l \in PutsIn(r, key, n) : l <= k
      BY <1>1, <2>1
    <3> QED BY <3>1, LastPut
  <2>4. k \in 1..n
    BY DEF PutsIn
  <2> QED BY <2>2, <2>3, <2>4
<1> QED BY <1>2, <1>3

\* One more entry.
LEMMA NextValue ==
    ASSUME NEW q, NEW key, NEW n \in Nat
    PROVE  ValueIn(q, key, n + 1) =
              IF q[n + 1].cmd.type = "put" /\ q[n + 1].cmd.key = key THEN q[n + 1].cmd.value
              ELSE ValueIn(q, key, n)
<1>1. CASE q[n + 1].cmd.type = "put" /\ q[n + 1].cmd.key = key
  <2>1. n + 1 \in PutsIn(q, key, n + 1) /\ \A l \in PutsIn(q, key, n + 1) : l <= n + 1
    BY <1>1 DEF PutsIn
  <2> QED BY <1>1, <2>1, LastPut
<1>2. CASE ~(q[n + 1].cmd.type = "put" /\ q[n + 1].cmd.key = key)
  <2>1. PutsIn(q, key, n + 1) = PutsIn(q, key, n)
    <3>1. \A k \in 1..n + 1 : k \in 1..n \/ k = n + 1
      OBVIOUS
    <3>2. 1..n \subseteq 1..n + 1
      OBVIOUS
    <3> QED BY <1>2, <3>1, <3>2 DEF PutsIn
  <2>2. ValueIn(q, key, n + 1) = ValueIn(q, key, n)
    BY <2>1 DEF ValueIn
  <2> QED BY <1>2, <2>2
<1> QED BY <1>1, <1>2

LEMMA NoEntriesNoValue ==
    ASSUME NEW q, NEW key
    PROVE  ValueIn(q, key, 0) = Nil
BY DEF ValueIn, LastValue, PutsIn

LEMMA EntryApplied ==
    ASSUME NEW e, NEW s, NEW key
    PROVE  ValueOf(ApplyLogEntry(e, s), key) =
              IF e.cmd.type = "put" /\ e.cmd.key = key THEN e.cmd.value ELSE ValueOf(s, key)
BY DEF ValueOf, ApplyLogEntry, Overlay

\* f is what the recursion of ApplyLog says of the stores after each entry.
IsStores(f, q, b, s, last) ==
    f = [k \in b..last |-> IF k < b + 1 THEN s ELSE ApplyLogEntry(q[k], f[k - 1])]

\* The recursion of ApplyLog has a solution.
LEMMA StoresExist ==
    ASSUME NEW q, NEW b \in Nat, NEW s, NEW last \in Nat, b <= last
    PROVE  \E f : IsStores(f, q, b, s, last)
<1> DEFINE Solved(f, n) ==
              f = [k \in b..b + n |-> IF k < b + 1 THEN s ELSE ApplyLogEntry(q[k], f[k - 1])]
           Bad == {n \in Nat : ~\E f : Solved(f, n)}
<1>1. SUFFICES ASSUME Bad # {} PROVE FALSE
  <2>1. PICK m \in Nat : last = b + m
    <3>1. last - b \in Nat /\ last = b + (last - b)
      OBVIOUS
    <3> QED BY <3>1
  <2>2. SUFFICES ASSUME Bad = {} PROVE \E f : Solved(f, m)
    BY <2>1 DEF IsStores
  <2> QED BY <2>2
<1>2. PICK n \in Bad : \A k \in Bad : n <= k
  BY <1>1, LeastOf
<1>3. CASE n = 0
  <2> DEFINE f == [k \in b..b |-> s]
  <2>1. Solved(f, 0)
    <3>1. b + 0 = b /\ \A k \in b..b : k < b + 1
      OBVIOUS
    <3> QED BY <3>1
  <2> QED BY <1>3, <2>1
<1>4. CASE n # 0
  <2>1. n - 1 \in Nat /\ ~(n <= n - 1)
    BY <1>4
  <2>2. PICK f : Solved(f, n - 1)
    BY <1>2, <2>1
  <2> DEFINE g == [k \in b..b + n |-> IF k = b + n THEN ApplyLogEntry(q[k], f[k - 1]) ELSE f[k]]
  <2>3. ASSUME NEW k \in b..b + n
        PROVE  g[k] = IF k < b + 1 THEN s ELSE ApplyLogEntry(q[k], g[k - 1])
    <3>1. CASE k = b + n
      <4>1. k - 1 \in b..b + n /\ k - 1 # b + n /\ ~(k < b + 1)
        BY <2>1, <3>1
      <4> QED BY <3>1, <4>1
    <3>2. CASE k # b + n
      <4>1. k \in b..b + (n - 1) /\ g[k] = f[k]
        BY <2>1, <3>2
      <4>2. f[k] = IF k < b + 1 THEN s ELSE ApplyLogEntry(q[k], f[k - 1])
        BY <2>2, <4>1
      <4>3. CASE k < b + 1
        BY <4>1, <4>2, <4>3
      <4>4. CASE ~(k < b + 1)
        <5>1. k - 1 \in b..b + n /\ k - 1 # b + n
          BY <4>1, <4>4
        <5> QED BY <4>1, <4>2, <4>4, <5>1
      <4> QED BY <4>3, <4>4
    <3> QED BY <3>1, <3>2
  <2>4. Solved(g, n)
    <3>1. g = [k \in b..b + n |-> g[k]]
      OBVIOUS
    <3> HIDE DEF g
    <3> QED BY <2>3, <3>1
  <2> QED BY <2>4
<1> QED BY <1>3, <1>4

\* Entries b + 1 to n applied to a store that has the first b of them.
LEMMA LogApplied ==
    ASSUME NEW q, NEW b \in Nat, NEW n \in Nat, NEW s,
           \A key : ValueOf(s, key) = ValueIn(q, key, b)
    PROVE  \A key : ValueOf(ApplyLog(q, b + 1, n, s), key) = ValueIn(q, key, LargerOf(b, n))
<1> DEFINE f == CHOOSE x : x = [k \in b..LargerOf(b, n) |->
                     IF k < b + 1 THEN s ELSE ApplyLogEntry(q[k], x[k - 1])]
<1>1. LargerOf(b, n) \in Nat /\ LargerOf(b, n) >= b
  BY DEF LargerOf
<1>2. ApplyLog(q, b + 1, n, s) = f[LargerOf(b, n)]
  <2>1. b + 1 - 1 = b
    OBVIOUS
  <2> QED BY <2>1 DEF ApplyLog
<1>3. PICK m \in Nat : LargerOf(b, n) = b + m
  <2>1. LargerOf(b, n) - b \in Nat /\ LargerOf(b, n) = b + (LargerOf(b, n) - b)
    BY <1>1
  <2> QED BY <2>1
<1>4. f = [k \in b..LargerOf(b, n) |-> IF k < b + 1 THEN s ELSE ApplyLogEntry(q[k], f[k - 1])]
  <2>1. b <= LargerOf(b, n)
    BY <1>1
  <2> DEFINE g == CHOOSE x : IsStores(x, q, b, s, LargerOf(b, n))
  <2>2. IsStores(g, q, b, s, LargerOf(b, n))
    <3> HIDE DEF f
    <3>1. \E x : IsStores(x, q, b, s, LargerOf(b, n))
      BY <1>1, <2>1, StoresExist
    <3> QED BY <3>1
  <2>3. f = g
    BY Zenon DEF IsStores
  <2> HIDE DEF f, g
  <2> QED BY <2>2, <2>3 DEF IsStores
<1> HIDE DEF f
<1>5. \A k \in b..b + m : f[k] = IF k < b + 1 THEN s ELSE ApplyLogEntry(q[k], f[k - 1])
  BY <1>3, <1>4
<1> DEFINE Bad == {k \in Nat : k <= m /\ ~\A key : ValueOf(f[b + k], key) = ValueIn(q, key, b + k)}
<1>6. Bad = {}
  <2>1. SUFFICES ASSUME Bad # {} PROVE FALSE
    OBVIOUS
  <2>2. PICK k \in Bad : \A x \in Bad : k <= x
    BY <2>1, LeastOf
  <2>3. k \in Nat /\ k <= m /\ b + k \in b..b + m
    BY <2>2
  <2>4. CASE k = 0
    <3>1. f[b + k] = s /\ b + k = b
      BY <1>5, <2>3, <2>4
    <3> QED BY <3>1
  <2>5. CASE k # 0
    <3>1. k - 1 \in Nat /\ k - 1 <= m /\ ~(k <= k - 1) /\ b + (k - 1) = b + k - 1
      BY <2>3, <2>5
    <3>2. PICK c \in Nat : c = b + k - 1 /\ b + k = c + 1
      BY <2>3, <2>5
    <3>3. \A key : ValueOf(f[c], key) = ValueIn(q, key, c)
      BY <2>2, <3>1, <3>2
    <3>4. f[c + 1] = ApplyLogEntry(q[c + 1], f[c])
      <4>1. c + 1 \in b..b + m /\ ~(c + 1 < b + 1) /\ c + 1 - 1 = c
        BY <2>3, <2>5, <3>2
      <4> QED BY <1>5, <4>1
    <3>5. \A key : ValueOf(f[c + 1], key) = ValueIn(q, key, c + 1)
      BY <3>3, <3>4, NextValue, EntryApplied
    <3> QED BY <2>2, <3>2, <3>5
  <2> QED BY <2>4, <2>5
<1>7. \A key : ValueOf(f[b + m], key) = ValueIn(q, key, b + m)
  BY <1>6
<1> HIDE DEF Bad
<1> QED BY <1>2, <1>3, <1>7

-----------------------------------------------------------------------------
(* What is committed stays *)

CommitsGrow ==
    \A i \in Servers :
       /\ commitIndex[i] \in Nat /\ commitIndex'[i] \in Nat /\ commitIndex[i] <= commitIndex'[i]
       /\ \A k \in 1..commitIndex[i] : log'[i][k] = log[i][k]

\* A request that is accepted replaces no committed entry.
LEMMA AcceptKeepsCommits ==
    ASSUME IInv, DInv, IndexesOK, NEW h, Follows(h), NEW i \in Servers, NEW c \in Arriving(i),
           AcceptAppendEntries(i, c), commitIndex'[i] <= Len(log'[i])
    PROVE  /\ CommitsGrow
           /\ Head(net[c]).mcommitIndex \in Nat
           /\ commitIndex'[i] = LargerOf(commitIndex[i], Head(net[c]).mcommitIndex)
           /\ \A j \in Servers \ {i} : log'[j] = log[j] /\ commitIndex'[j] = commitIndex[j]
<1>1. PICK m : m = Head(net[c])
  OBVIOUS
<1>2. PICK t \in h.elected : t = m.mterm /\ t \in Nat
  BY <1>1, AcceptedRequest
<1>3. /\ QuietRoles /\ currentTerm'[i] = t /\ Reach(m) \in Nat
      /\ CommitAt(h, t, m.mcommitIndex, Reach(m))
      /\ Len(log'[i]) = Reach(m) /\ Agree(log'[i], h.log[t], Reach(m))
      /\ \A j \in Servers \ {i} : log'[j] = log[j] /\ commitIndex'[j] = commitIndex[j]
  BY <1>1, <1>2, AcceptedRequest
<1>4. m.mcommitIndex \in Nat
  BY <1>3 DEF CommitAt
<1>5. commitIndex'[i] = LargerOf(commitIndex[i], m.mcommitIndex)
  <2>1. commitIndex' = [commitIndex EXCEPT ![i] = LargerOf(@, m.mcommitIndex)]
    BY <1>1 DEF AcceptAppendEntries
  <2> QED BY <2>1 DEF IndexesOK
<1>6. \A j \in Servers : commitIndex[j] \in Nat
  BY CommitFacts
<1>7. commitIndex'[i] \in Nat /\ commitIndex[i] <= commitIndex'[i]
  BY <1>4, <1>5, <1>6 DEF LargerOf
<1>8. PICK a \in h.elected : a = h.last[i] /\ a \in Nat
  BY CommitFacts
<1>9. a <= t
  <2>1. currentTerm[i] \in Nat /\ a <= currentTerm[i]
    BY <1>8, CommitFacts
  <2>2. currentTerm[i] <= t
    BY <1>2, <1>3, <2>1 DEF QuietRoles
  <2> QED BY <1>2, <1>8, <2>1, <2>2
<1>10. Agree(h.log[t], h.log[a], commitIndex[i])
  BY <1>8, <1>9, CommitFacts, CommittedLater
<1>11. ASSUME NEW k \in 1..commitIndex[i] PROVE log'[i][k] = log[i][k]
  <2>1. k \in 1..Reach(m)
    BY <1>3, <1>6, <1>7
  <2>2. log'[i][k] = h.log[t][k]
    BY <1>3, <2>1 DEF Agree
  <2>3. h.log[t][k] = h.log[a][k]
    BY <1>10 DEF Agree
  <2>4. k \in 1..Len(log[i])
    BY CommitFacts
  <2>5. log[i][k] = h.log[a][k]
    BY <1>8, <2>4, CommitFacts
  <2> QED BY <2>2, <2>3, <2>5
<1>12. CommitsGrow
  <2>1. ASSUME NEW j \in Servers
        PROVE  /\ commitIndex[j] \in Nat /\ commitIndex'[j] \in Nat /\ commitIndex[j] <= commitIndex'[j]
               /\ \A k \in 1..commitIndex[j] : log'[j][k] = log[j][k]
    <3>1. CASE j = i
      BY <1>6, <1>7, <1>11, <3>1
    <3>2. CASE j # i
      BY <1>3, <1>6, <3>2
    <3> QED BY <3>1, <3>2
  <2> QED BY <2>1 DEF CommitsGrow
<1> QED BY <1>1, <1>3, <1>4, <1>5, <1>12

\* The other steps that touch logs and commit indexes, and those that do not.
LEMMA AppendKeepsCommits ==
    ASSUME IInv, DInv, RequestsOK, NEW h, Follows(h), NEW i \in Servers, NEW c \in Arriving(i),
           LeaderAppends(i, c)
    PROVE  CommitsGrow
<1>1. PICK e \in Entries : /\ log'[i] = Append(log[i], e)
                           /\ \A j \in Servers \ {i} : log'[j] = log[j]
  BY EntryAppended
<1>2. commitIndex' = commitIndex
  BY DEF LeaderAppends, commitVars
<1>3. ASSUME NEW j \in Servers
      PROVE  commitIndex[j] \in Nat /\ \A k \in 1..commitIndex[j] : log'[j][k] = log[j][k]
  <2>1. commitIndex[j] \in Nat /\ commitIndex[j] <= Len(log[j]) /\ Len(log[j]) \in Nat
    BY CommitFacts
  <2>2. CASE j = i
    <3>1. PICK q \in Seq(Entries) : q = log[i]
      BY DEF Follows, ServerOK, LogFollows
    <3>2. \A k \in 1..Len(q) : Append(q, e)[k] = q[k]
      OBVIOUS
    <3>3. \A k \in 1..commitIndex[j] : k \in 1..Len(q)
      BY <2>1, <2>2, <3>1
    <3> QED BY <1>1, <2>1, <2>2, <3>1, <3>2, <3>3
  <2>3. CASE j # i
    BY <1>1, <2>1, <2>3
  <2> QED BY <2>2, <2>3
<1> QED BY <1>2, <1>3 DEF CommitsGrow

LEMMA ApplyKeepsCommits ==
    ASSUME NEW h, Follows(h), IndexesOK, NEW i \in Servers, applyLoop(i)
    PROVE  /\ CommitsGrow /\ log' = log /\ commitIndex'[i] = commitIndex[i] + 1
           /\ \A j \in Servers \ {i} : commitIndex'[j] = commitIndex[j]
<1>1. log' = log /\ commitIndex' = [commitIndex EXCEPT ![i] = commitIndex[i] + 1]
  BY DEF applyLoop, logVars
<1>2. /\ commitIndex'[i] = commitIndex[i] + 1
      /\ \A j \in Servers \ {i} : commitIndex'[j] = commitIndex[j]
  BY <1>1 DEF IndexesOK
<1>3. \A j \in Servers : commitIndex[j] \in Nat
  BY CommitFacts
<1>4. \A j \in Servers : commitIndex'[j] \in Nat /\ commitIndex[j] <= commitIndex'[j]
  BY <1>2, <1>3
<1> QED BY <1>1, <1>2, <1>3, <1>4 DEF CommitsGrow

LEMMA SameCommits ==
    ASSUME NEW h, Follows(h), log' = log, commitIndex' = commitIndex
    PROVE  CommitsGrow
<1>1. \A j \in Servers : commitIndex[j] \in Nat
  BY CommitFacts
<1> QED BY <1>1 DEF CommitsGrow

-----------------------------------------------------------------------------
(* What the servers store and what clients are sent *)

\* A store is what the committed entries make of it.
StoresOK ==
    /\ DOMAIN sm = Servers
    /\ \A i \in Servers : \A key : ValueOf(sm[i], key) = ValueIn(log[i], key, commitIndex[i])

\* m is the result of a committed command of client c.
IsResult(c, m) ==
    \E i \in Servers : \E k \in 1..commitIndex[i] :
       /\ log[i][k].client = c /\ log[i][k].cmd.idx = m.idx
       /\ m.value = ValueIn(log[i], log[i][k].cmd.key, k)

\* Message m on route r.
SentOK(r, m) ==
    /\ r[3] \in Clients => m.mtype = "response"
    /\ m.mtype = "apq" => /\ m.msource \in Servers /\ m.mcommitIndex \in Nat
                          /\ m.mcommitIndex <= commitIndex[m.msource]
    /\ m.mtype = "response" => /\ m.mleaderHint \in Servers \cup {Nil}
                               /\ m.msuccess => IsResult(r[3], m)

SentAllOK == \A c, m : OnConnection(net, c, m) => SentOK(c[1], m)

ClientsKnow ==
    /\ DOMAIN answered = Clients /\ DOMAIN server = Clients
    /\ \A c \in Clients : server[c] \in Servers \cup {Nil}

SInv == StoresOK /\ SentAllOK /\ ClientsKnow

LEMMA SentStays ==
    ASSUME CommitsGrow, NEW r, NEW m, SentOK(r, m)
    PROVE  SentOK(r, m)'
<1>1. ASSUME NEW c, IsResult(c, m) PROVE IsResult(c, m)'
  <2>0. PICK i \in Servers : \E k \in 1..commitIndex[i] :
           /\ log[i][k].client = c /\ log[i][k].cmd.idx = m.idx
           /\ m.value = ValueIn(log[i], log[i][k].cmd.key, k)
    BY <1>1 DEF IsResult
  <2>1. PICK k \in 1..commitIndex[i] :
           /\ log[i][k].client = c /\ log[i][k].cmd.idx = m.idx
           /\ m.value = ValueIn(log[i], log[i][k].cmd.key, k)
    BY <2>0
  <2>2. k \in Nat /\ k \in 1..commitIndex'[i] /\ \A n \in 1..k : n \in 1..commitIndex[i]
    BY DEF CommitsGrow
  <2>3. \A n \in 1..k : log'[i][n] = log[i][n]
    BY <2>2 DEF CommitsGrow
  <2>4. log'[i][k] = log[i][k]
    BY DEF CommitsGrow
  <2>5. \A key : ValueIn(log'[i], key, k) = ValueIn(log[i], key, k)
    BY <2>2, <2>3, SameValue
  <2>6. /\ log'[i][k].client = c /\ log'[i][k].cmd.idx = m.idx
        /\ m.value = ValueIn(log'[i], log'[i][k].cmd.key, k)
    BY <2>1, <2>4, <2>5
  <2> QED BY <2>2, <2>6 DEF IsResult
<1>2. ASSUME m.mtype = "apq" PROVE m.mcommitIndex <= commitIndex'[m.msource]
  BY <1>2 DEF SentOK, CommitsGrow
<1> QED BY <1>1, <1>2 DEF SentOK

\* One message more.
LEMMA SentAdds ==
    ASSUME SentAllOK, CommitsGrow, NEW n, NEW r, NEW a, NetAdds(n, r, a), SentOK(r, a)'
    PROVE  SentAllOK'
<1>1. ASSUME NEW c, NEW m, OnConnection(net', c, m) PROVE SentOK(c[1], m)'
  <2>1. CASE \E e : e[1] = c[1] /\ OnConnection(n, e, m)
    <3>1. PICK e : e[1] = c[1] /\ OnConnection(n, e, m)
      BY <2>1
    <3>2. SentOK(e[1], m)
      BY <3>1 DEF NetAdds, SentAllOK
    <3>3. SentOK(e[1], m)'
      BY <3>2, SentStays
    <3> QED BY <3>1, <3>3
  <2>2. CASE c[1] = r /\ m = a
    BY <2>2
  <2> QED BY <1>1, <2>1, <2>2 DEF NetAdds
<1>2. \A c, m : OnConnection(net, c, m)' => SentOK(c[1], m)'
  <2>1. ASSUME NEW c, NEW m, OnConnection(net, c, m)' PROVE OnConnection(net', c, m)
    BY <2>1 DEF OnConnection
  <2> QED BY <1>1, <2>1
<1> QED BY <1>2 DEF SentAllOK

\* A message between servers, or to a server.
LEMMA PlainSent ==
    ASSUME NEW r, NEW a, a.mtype \notin {"apq", "response"}, r[3] \in Servers
    PROVE  SentOK(r, a)'
<1>1. r[3] \notin Clients
  BY RaftAssumption DEF Servers
<1> QED BY <1>1 DEF SentOK

LEMMA StoresStay ==
    ASSUME StoresOK, CommitsGrow, sm' = sm, commitIndex' = commitIndex
    PROVE  StoresOK'
<1>1. ASSUME NEW i \in Servers, NEW key
      PROVE  ValueIn(log'[i], key, commitIndex[i]) = ValueIn(log[i], key, commitIndex[i])
  <2>1. commitIndex[i] \in Nat /\ \A k \in 1..commitIndex[i] : log'[i][k] = log[i][k]
    BY DEF CommitsGrow
  <2> QED BY <2>1, SameValue
<1> QED BY <1>1 DEF StoresOK

\* The reply of a section of handleMsg to another server.
LEMMA ReplySent ==
    ASSUME SentAllOK, CommitsGrow, IsNetwork(net), ConnectionsOK(net), NEW c \in DOMAIN net,
           NEW i, NEW to \in Servers, NEW a, a.mtype \in {"rvp", "app"},
           Send(Taken(c), "handle", i, to, a)
    PROVE  SentAllOK'
<1>1. PICK r : r = <<"handle", i, to>> /\ r[3] = to
  <2>1. <<"handle", i, to>>[3] = to
    OBVIOUS
  <2> QED BY <2>1
<1>2. NetAdds(Taken(c), r, a)
  BY <1>1, ReplyNet
<1>3. SentOK(r, a)'
  BY <1>1, PlainSent
<1> QED BY <1>2, <1>3, SentAdds

\* Steps that only read messages, or none.
LEMMA SentRead ==
    ASSUME SentAllOK, CommitsGrow, IsNetwork(net), ConnectionsOK(net),
           net' = net \/ (\E c \in DOMAIN net : net' = Taken(c)) \/ \E b : ConnectionBreaks(b)
    PROVE  SentAllOK'
<1>1. PICK s : s \in Servers
  BY RaftAssumption, 1 \in 1..NumServers DEF Servers
<1>2. PICK r : r = <<"none", "none", s>> /\ r[3] = s
  <2>1. <<"none", "none", s>>[3] = s
    OBVIOUS
  <2> QED BY <2>1
<1> DEFINE A == [mtype |-> "none"]
<1>3. A.mtype \notin {"apq", "response"}
  OBVIOUS
<1> HIDE DEF A
<1>4. PICK a : a = A
  OBVIOUS
<1>5. SentOK(r, a)'
  BY <1>1, <1>2, <1>3, <1>4, PlainSent
<1>6. CASE net' = net
  BY <1>5, <1>6, SameNet, SentAdds
<1>7. CASE \E c \in DOMAIN net : net' = Taken(c)
  BY <1>5, <1>7, TakenNet, SentAdds
<1>8. CASE \E b : ConnectionBreaks(b)
  BY <1>5, <1>8, BreakNet, SentAdds
<1> QED BY <1>6, <1>7, <1>8

LEMMA AcceptStores ==
    ASSUME IInv, DInv, IndexesOK, StoresOK, NEW h, Follows(h), NEW i \in Servers,
           NEW c \in Arriving(i), AcceptAppendEntries(i, c), commitIndex'[i] <= Len(log'[i])
    PROVE  StoresOK'
<1>1. PICK m : m = Head(net[c])
  OBVIOUS
<1>2. /\ CommitsGrow /\ m.mcommitIndex \in Nat
      /\ commitIndex'[i] = LargerOf(commitIndex[i], m.mcommitIndex)
      /\ \A j \in Servers \ {i} : log'[j] = log[j] /\ commitIndex'[j] = commitIndex[j]
  BY <1>1, AcceptKeepsCommits
<1>3. PICK b \in Nat : b = commitIndex[i]
  BY <1>2 DEF CommitsGrow
<1>4. PICK n \in Nat : n = m.mcommitIndex
  BY <1>2
<1>5. DOMAIN log = Servers /\ DOMAIN sm = Servers
  BY DEF DInv, LogsOK, StoresOK
<1>6. sm' = [sm EXCEPT ![i] = ApplyLog(log'[i], b + 1, n, sm[i])]
  <2>1. log' = [log EXCEPT ![i] = SubSeq(@, 1, m.mprevLogIndex) \o m.mentries]
    BY <1>1 DEF AcceptAppendEntries, SetLog
  <2>2. log'[i] = SubSeq(log[i], 1, m.mprevLogIndex) \o m.mentries
    BY <1>5, <2>1
  <2>3. sm' = [sm EXCEPT ![i] = ApplyLog(SubSeq(log[i], 1, m.mprevLogIndex) \o m.mentries,
                                        commitIndex[i] + 1, m.mcommitIndex, @)]
    BY <1>1 DEF AcceptAppendEntries
  <2> QED BY <1>3, <1>4, <2>2, <2>3
<1>7. \A key : ValueOf(sm[i], key) = ValueIn(log'[i], key, b)
  <2>1. \A k \in 1..b : log'[i][k] = log[i][k]
    BY <1>2, <1>3 DEF CommitsGrow
  <2>2. \A key : ValueIn(log'[i], key, b) = ValueIn(log[i], key, b)
    BY <2>1, SameValue
  <2> QED BY <1>3, <2>2 DEF StoresOK
<1>8. \A key : ValueOf(sm'[i], key) = ValueIn(log'[i], key, commitIndex'[i])
  <2>1. sm'[i] = ApplyLog(log'[i], b + 1, n, sm[i])
    BY <1>5, <1>6
  <2>2. \A key : ValueOf(ApplyLog(log'[i], b + 1, n, sm[i]), key) =
                 ValueIn(log'[i], key, LargerOf(b, n))
    BY <1>7, LogApplied
  <2> QED BY <1>2, <1>3, <1>4, <2>1, <2>2
<1>9. DOMAIN sm' = Servers /\ \A j \in Servers \ {i} : sm'[j] = sm[j]
  BY <1>5, <1>6
<1>10. ASSUME NEW j \in Servers, NEW key
       PROVE  ValueOf(sm'[j], key) = ValueIn(log'[j], key, commitIndex'[j])
  <2>1. CASE j = i
    BY <1>8, <2>1
  <2>2. CASE j # i
    BY <1>2, <1>9, <2>2 DEF StoresOK
  <2> QED BY <2>1, <2>2
<1> QED BY <1>9, <1>10 DEF StoresOK

LEMMA ApplyStores ==
    ASSUME IInv, IndexesOK, RequestsOK, SInv, NEW h, Follows(h), NEW i \in Servers, applyLoop(i)
    PROVE  StoresOK' /\ SentAllOK'
<1> DEFINE b == commitIndex[i]
           entry == log[i][b + 1]
           newSm == ApplyLogEntry(entry, sm[i])
           A == [mtype |-> "response", type |-> entry.cmd.type, msuccess |-> TRUE,
                 idx |-> entry.cmd.idx, key |-> entry.cmd.key,
                 value |-> IF entry.cmd.key \in DOMAIN newSm THEN newSm[entry.cmd.key] ELSE Nil,
                 mleaderHint |-> i]
<1>1. /\ CommitsGrow /\ log' = log /\ commitIndex'[i] = b + 1
      /\ \A j \in Servers \ {i} : commitIndex'[j] = commitIndex[j]
  BY ApplyKeepsCommits
<1>2. b \in Nat /\ b + 1 \in 1..Len(log[i])
  <2>1. b \in Nat /\ Len(log[i]) \in Nat /\ b < Len(log[i])
    BY CommitFacts DEF applyLoop
  <2> QED BY <2>1
<1>3. /\ Write(net, "apply", i, entry.client, A) /\ sm' = [sm EXCEPT ![i] = newSm]
      /\ IsNetwork(net) /\ ConnectionsOK(net)
  BY DEF applyLoop, IInv, NetOK, Follows, NetworkOK
<1>4. DOMAIN sm = Servers /\ StoresOK /\ SentAllOK
  BY DEF SInv, StoresOK
<1>5. \A key : ValueOf(newSm, key) = ValueIn(log[i], key, b + 1)
  <2>1. \A key : ValueOf(sm[i], key) = ValueIn(log[i], key, b)
    BY <1>4 DEF StoresOK
  <2> QED BY <1>2, <2>1, NextValue, EntryApplied
<1>6. StoresOK'
  <2>1. DOMAIN sm' = Servers /\ sm'[i] = newSm /\ \A j \in Servers \ {i} : sm'[j] = sm[j]
    BY <1>3, <1>4
  <2>2. ASSUME NEW j \in Servers, NEW key
        PROVE  ValueOf(sm'[j], key) = ValueIn(log'[j], key, commitIndex'[j])
    <3>1. CASE j = i
      BY <1>1, <1>5, <2>1, <3>1
    <3>2. CASE j # i
      BY <1>1, <1>4, <2>1, <3>2 DEF StoresOK
    <3> QED BY <3>1, <3>2
  <2> QED BY <2>1, <2>2 DEF StoresOK
<1>7. /\ A.mtype = "response" /\ A.mleaderHint = i /\ A.idx = entry.cmd.idx
      /\ A.value = ValueOf(newSm, entry.cmd.key)
  BY DEF ValueOf
<1> HIDE DEF A, newSm
<1>8. PICK a : a = A
  OBVIOUS
<1>9. PICK r : r = <<"apply", i, entry.client>> /\ r[3] = entry.client
  <2>1. <<"apply", i, entry.client>>[3] = entry.client
    OBVIOUS
  <2> QED BY <2>1
<1>10. IsResult(r[3], a)'
  <2>1. b + 1 \in 1..commitIndex'[i]
    BY <1>1, <1>2
  <2>2. /\ log'[i][b + 1].client = r[3] /\ log'[i][b + 1].cmd.idx = a.idx
        /\ a.value = ValueIn(log'[i], log'[i][b + 1].cmd.key, b + 1)
    BY <1>1, <1>5, <1>7, <1>8, <1>9
  <2> HIDE DEF entry, b
  <2> QED BY <2>1, <2>2 DEF IsResult
<1>11. SentOK(r, a)'
  BY <1>7, <1>8, <1>10 DEF SentOK
<1>12. NetAdds(net, r, a)
  BY <1>3, <1>8, <1>9, SendNet DEF Send
<1>13. SentAllOK'
  BY <1>1, <1>4, <1>11, <1>12, SentAdds
<1> QED BY <1>6, <1>13

LEMMA InitSInv == Init => SInv
<1> SUFFICES ASSUME Init PROVE SInv
  OBVIOUS
<1>1. StoresOK
  <2>1. ASSUME NEW i \in Servers, NEW key
        PROVE  ValueOf(sm[i], key) = ValueIn(log[i], key, commitIndex[i])
    <3>1. sm[i] = <<>> /\ commitIndex[i] = 0 /\ DOMAIN <<>> = {}
      BY DEF Init
    <3>2. ValueOf(sm[i], key) = Nil
      BY <3>1 DEF ValueOf
    <3> QED BY <3>1, <3>2, NoEntriesNoValue
  <2>2. DOMAIN sm = Servers
    BY DEF Init
  <2> QED BY <2>1, <2>2 DEF StoresOK
<1>2. SentAllOK
  BY DEF Init, SentAllOK, OnConnection
<1>3. ClientsKnow
  BY DEF Init, ClientsKnow
<1> QED BY <1>1, <1>2, <1>3 DEF SInv

LEMMA RedirectSent ==
    ASSUME IInv, RequestsOK, SentAllOK, CommitsGrow, NEW h, Follows(h), NEW i \in Servers,
           NEW c \in Arriving(i), RedirectClient(i, c)
    PROVE  SentAllOK'
<1> DEFINE m == Head(net[c])
           A == [mtype |-> "response", type |-> m.mcmd.type, msuccess |-> FALSE,
                 idx |-> m.mcmd.idx, key |-> m.mcmd.key, value |-> Nil,
                 mleaderHint |-> leader[i]]
<1>1. /\ c \in DOMAIN net /\ IsNetwork(net) /\ ConnectionsOK(net)
      /\ Send(Taken(c), "handle", i, m.msource, A)
  BY ArrivingIs DEF RedirectClient, Send
<1>2. A.mtype = "response" /\ A.msuccess = FALSE /\ A.mleaderHint = leader[i]
  OBVIOUS
<1> HIDE DEF A, m
<1>3. PICK a, r : a = A /\ r = <<"handle", i, m.msource>>
  OBVIOUS
<1>4. leader[i] \in Servers \cup {Nil}
  BY DEF IInv, RolesOK
<1>5. SentOK(r, a)'
  BY <1>2, <1>3, <1>4 DEF SentOK
<1>6. NetAdds(Taken(c), r, a)
  BY <1>1, <1>3, ReplyNet
<1> QED BY <1>5, <1>6, SentAdds

LEMMA HandleSent ==
    ASSUME IInv, DInv, IndexesOK, RequestsOK, SInv, NEW h, Follows(h), CommittedAgree',
           NEW i \in Servers, NEW c \in Arriving(i),
             \/ HandleRequestVoteRequest(i, c) \/ HandleRequestVoteResponse(i, c)
             \/ RejectAppendEntries(i, c) \/ AcceptAppendEntries(i, c)
             \/ HandleAppendEntriesResponse(i, c) \/ LeaderAppends(i, c) \/ RedirectClient(i, c)
    PROVE  StoresOK' /\ SentAllOK' /\ CommitsGrow /\ clientVars' = clientVars
<1>1. c \in DOMAIN net /\ IsNetwork(net) /\ ConnectionsOK(net) /\ MessageOK(Head(net[c]))
  BY ArrivingIs
<1>2. StoresOK /\ SentAllOK
  BY DEF SInv
<1>3. CASE HandleRequestVoteRequest(i, c)
  <2> DEFINE m == Head(net[c])
             A == [mtype |-> "rvp", mterm |-> UpdateTerm(i, m).term,
                   mvoteGranted |-> Grants(i, UpdateTerm(i, m), m), msource |-> i]
  <2>1. /\ m.mtype = "rvq" /\ Send(Taken(c), "handle", i, m.msource, A) /\ clientVars' = clientVars
        /\ log' = log /\ commitIndex' = commitIndex /\ sm' = sm
    BY <1>3 DEF HandleRequestVoteRequest, logVars, commitVars
  <2>2. A.mtype = "rvp"
    OBVIOUS
  <2>3. CommitsGrow
    BY <2>1, SameCommits
  <2> HIDE DEF A, m
  <2>4. PICK a, to : a = A /\ to = m.msource /\ to \in Servers
    BY <1>1, <2>1 DEF MessageOK, m
  <2> QED BY <1>1, <1>2, <2>1, <2>2, <2>3, <2>4, ReplySent, StoresStay
<1>4. CASE RejectAppendEntries(i, c)
  <2> DEFINE m == Head(net[c])
             A == [mtype |-> "app", mterm |-> FollowSender(i, m).term, msuccess |-> FALSE,
                   mmatchIndex |-> 0, msource |-> i]
  <2>1. /\ m.mtype = "apq" /\ Send(Taken(c), "handle", i, m.msource, A) /\ clientVars' = clientVars
        /\ log' = log /\ commitIndex' = commitIndex /\ sm' = sm
    BY <1>4 DEF RejectAppendEntries, logVars, commitVars
  <2>2. A.mtype = "app"
    OBVIOUS
  <2>3. CommitsGrow
    BY <2>1, SameCommits
  <2> HIDE DEF A, m
  <2>4. PICK a, to : a = A /\ to = m.msource /\ to \in Servers
    BY <1>1, <2>1 DEF MessageOK, m
  <2> QED BY <1>1, <1>2, <2>1, <2>2, <2>3, <2>4, ReplySent, StoresStay
<1>5. CASE AcceptAppendEntries(i, c)
  <2> DEFINE m == Head(net[c])
             A == [mtype |-> "app", mterm |-> FollowSender(i, m).term, msuccess |-> TRUE,
                   mmatchIndex |-> m.mprevLogIndex + Len(m.mentries), msource |-> i]
  <2>1. m.mtype = "apq" /\ Send(Taken(c), "handle", i, m.msource, A) /\ clientVars' = clientVars
    BY <1>5 DEF AcceptAppendEntries
  <2>2. A.mtype = "app"
    OBVIOUS
  <2>3. commitIndex'[i] <= Len(log'[i])
    BY DEF CommittedAgree
  <2>4. CommitsGrow /\ StoresOK'
    BY <1>2, <1>5, <2>3, AcceptKeepsCommits, AcceptStores
  <2> HIDE DEF A, m
  <2>5. PICK a, to : a = A /\ to = m.msource /\ to \in Servers
    BY <1>1, <2>1 DEF MessageOK, m
  <2> QED BY <1>1, <1>2, <2>1, <2>2, <2>4, <2>5, ReplySent
<1>6. CASE HandleRequestVoteResponse(i, c) \/ HandleAppendEntriesResponse(i, c)
  <2>1. /\ clientVars' = clientVars /\ net' = Taken(c)
        /\ log' = log /\ commitIndex' = commitIndex /\ sm' = sm
    BY <1>6 DEF HandleRequestVoteResponse, HandleAppendEntriesResponse, logVars, commitVars
  <2>2. CommitsGrow
    BY <2>1, SameCommits
  <2> QED BY <1>1, <1>2, <2>1, <2>2, SentRead, StoresStay
<1>7. CASE LeaderAppends(i, c)
  <2>1. clientVars' = clientVars /\ net' = Taken(c) /\ commitIndex' = commitIndex /\ sm' = sm
    BY <1>7 DEF LeaderAppends, commitVars
  <2>2. CommitsGrow
    BY <1>7, AppendKeepsCommits
  <2> QED BY <1>1, <1>2, <2>1, <2>2, SentRead, StoresStay
<1>8. CASE RedirectClient(i, c)
  <2>1. /\ clientVars' = clientVars
        /\ log' = log /\ commitIndex' = commitIndex /\ sm' = sm
    BY <1>8 DEF RedirectClient, logVars, commitVars
  <2>2. CommitsGrow
    BY <2>1, SameCommits
  <2> QED BY <1>2, <1>8, <2>1, <2>2, RedirectSent, StoresStay
<1> QED BY <1>3, <1>4, <1>5, <1>6, <1>7, <1>8

LEMMA RequestSent ==
    ASSUME IInv, SInv, NEW h, Follows(h), NEW i \in Servers,
           requestVoteLoop(i) \/ appendEntriesLoop(i), NextOK, IndexesOK
    PROVE  StoresOK' /\ SentAllOK' /\ CommitsGrow /\ clientVars' = clientVars
<1>1. IsNetwork(net) /\ ConnectionsOK(net) /\ StoresOK /\ SentAllOK
  BY DEF IInv, NetOK, Follows, NetworkOK, SInv
<1>2. /\ clientVars' = clientVars /\ log' = log /\ commitIndex' = commitIndex /\ sm' = sm
  BY DEF requestVoteLoop, appendEntriesLoop, logVars, commitVars
<1>3. CommitsGrow /\ StoresOK'
  BY <1>1, <1>2, SameCommits, StoresStay
<1>4. ASSUME NEW ctx, NEW to \in Servers, NEW a, a.mtype # "response",
             a.mtype = "apq" => a.msource = i /\ a.mcommitIndex = commitIndex[i],
             Send(net, ctx, i, to, a)
      PROVE  SentAllOK'
  <2>1. PICK r : r = <<ctx, i, to>> /\ r[3] = to
    <3>1. <<ctx, i, to>>[3] = to
      OBVIOUS
    <3> QED BY <3>1
  <2>2. r[3] \notin Clients
    BY <2>1, RaftAssumption DEF Servers
  <2>3. SentOK(r, a)'
    BY <1>3, <1>4, <2>2 DEF SentOK, CommitsGrow
  <2>4. NetAdds(net, r, a)
    BY <1>1, <1>4, <2>1, SendNet
  <2> QED BY <1>1, <1>3, <2>3, <2>4, SentAdds
<1>5. CASE requestVoteLoop(i)
  <2> DEFINE A == [mtype |-> "rvq", mterm |-> currentTerm[i], mlastLogTerm |-> LastTerm(log[i]),
                   mlastLogIndex |-> Len(log[i]), msource |-> i]
  <2>1. voteIdx[i] \in Servers /\ Send(net, "vote", i, voteIdx[i], A)
    BY <1>5 DEF requestVoteLoop
  <2>2. A.mtype = "rvq"
    OBVIOUS
  <2> HIDE DEF A
  <2>3. SentAllOK'
    BY <1>4, <2>1, <2>2
  <2> QED BY <1>2, <1>3, <2>3
<1>6. CASE appendEntriesLoop(i)
  <2>1. CASE net' = net
    BY <1>1, <1>2, <1>3, <2>1, SentRead
  <2>2. CASE Send(net, "append", i, appendIdx[i], AppendEntriesMessage(i, appendIdx[i]))
    <3>1. PICK j \in Servers : j = appendIdx[i]
      BY <1>6 DEF appendEntriesLoop
    <3>2. PICK a : a = AppendEntriesMessage(i, j)
      OBVIOUS
    <3>3. a.mtype = "apq" /\ a.msource = i /\ a.mcommitIndex = commitIndex[i]
      BY <3>2 DEF AppendEntriesMessage
    <3>4. SentAllOK'
      BY <1>4, <2>2, <3>1, <3>2, <3>3
    <3> QED BY <1>2, <1>3, <3>4
  <2> QED BY <1>6, <2>1, <2>2 DEF appendEntriesLoop
<1> QED BY <1>5, <1>6

LEMMA QuietSent ==
    ASSUME IInv, SInv, NEW h, Follows(h), UNCHANGED <<log, commitIndex, sm>>,
           net' = net \/ (\E c \in DOMAIN net : net' = Taken(c)) \/ \E b : ConnectionBreaks(b)
    PROVE  StoresOK' /\ SentAllOK' /\ CommitsGrow
<1>1. IsNetwork(net) /\ ConnectionsOK(net) /\ StoresOK /\ SentAllOK
  BY DEF IInv, NetOK, Follows, NetworkOK, SInv
<1>2. CommitsGrow
  BY SameCommits
<1> QED BY <1>1, <1>2, StoresStay, SentRead

\* A client reads the answer to a command of its own.
LEMMA AnswerIs ==
    ASSUME IInv, SInv, NEW c \in Clients, NEW d \in Arriving(c)
    PROVE  /\ d \in DOMAIN net /\ Head(net[d]).mtype = "response"
           /\ Head(net[d]).mleaderHint \in Servers \cup {Nil}
           /\ Head(net[d]).msuccess => IsResult(c, Head(net[d]))
<1>1. d \in DOMAIN net /\ d[1][3] = c
  BY DEF Arriving, Dest
<1>2. OnConnection(net, d, Head(net[d]))
  BY <1>1, TakenIsThere DEF IInv, NetOK
<1> QED BY <1>1, <1>2 DEF SInv, SentAllOK, SentOK

LEMMA ClientSent ==
    ASSUME IInv, SInv, NEW h, Follows(h), NEW c \in Clients, ClientNext(c)
    PROVE  SInv' /\ log' = log /\ commitIndex' = commitIndex
<1>1. log' = log /\ commitIndex' = commitIndex /\ sm' = sm
  BY DEF ClientNext, clientLoop, sndReq, rcvResp, clientTimeout, logVars, commitVars
<1>2. IsNetwork(net) /\ ConnectionsOK(net) /\ StoresOK /\ SentAllOK /\ ClientsKnow
  BY DEF IInv, NetOK, Follows, NetworkOK, SInv
<1>3. CASE clientLoop(c)
  <2>1. UNCHANGED <<net, server, answered>>
    BY <1>3 DEF clientLoop
  <2> QED BY <1>1, <1>2, <2>1, QuietSent DEF SInv, ClientsKnow
<1>4. CASE clientTimeout(c)
  <2>1. UNCHANGED <<net, answered>> /\ server' = [server EXCEPT ![c] = Nil]
    BY <1>4 DEF clientTimeout
  <2> QED BY <1>1, <1>2, <2>1, QuietSent DEF SInv, ClientsKnow
<1>5. CASE rcvResp(c)
  <2>1. PICK d \in Arriving(c) :
           /\ net' = Taken(d)
           /\ server' \in {server, [server EXCEPT ![c] = Head(net[d]).mleaderHint]}
           /\ \E s : answered' \in {answered, [answered EXCEPT ![c] = s]}
    BY <1>5 DEF rcvResp
  <2>2. d \in DOMAIN net /\ Head(net[d]).mleaderHint \in Servers \cup {Nil}
    BY AnswerIs
  <2>3. ClientsKnow'
    BY <1>2, <2>1, <2>2 DEF ClientsKnow
  <2> QED BY <1>1, <2>1, <2>2, <2>3, QuietSent DEF SInv
<1>6. CASE sndReq(c)
  <2> DEFINE A == [mtype |-> "request", msource |-> c,
                   mcmd |-> [idx |-> reqIdx[c], type |-> req[c].type,
                             key |-> req[c].key, value |-> req[c].value]]
  <2>1. PICK s \in IF server[c] = Nil THEN Contacts ELSE {server[c]} :
           server' = [server EXCEPT ![c] = s] /\ Send(net, "client", c, s, A)
    BY <1>6 DEF sndReq
  <2>2. s \in Servers
    <3>1. server[c] \in Servers \cup {Nil}
      BY <1>2 DEF ClientsKnow
    <3> QED BY <2>1, <3>1, RaftAssumption
  <2>3. A.mtype = "request"
    OBVIOUS
  <2> HIDE DEF A
  <2>4. PICK a : a = A
    OBVIOUS
  <2>5. PICK r : r = <<"client", c, s>> /\ r[3] = s
    <3>1. <<"client", c, s>>[3] = s
      OBVIOUS
    <3> QED BY <3>1
  <2>6. SentOK(r, a)'
    BY <2>2, <2>3, <2>4, <2>5, PlainSent
  <2>7. NetAdds(net, r, a)
    BY <1>2, <2>1, <2>4, <2>5, SendNet
  <2>8. CommitsGrow
    BY <1>1, SameCommits
  <2>9. SentAllOK' /\ StoresOK'
    BY <1>1, <1>2, <2>6, <2>7, <2>8, SentAdds, StoresStay
  <2>10. answered' = answered
    BY <1>6 DEF sndReq
  <2> QED BY <1>1, <1>2, <2>1, <2>2, <2>9, <2>10 DEF SInv, ClientsKnow
<1> QED BY <1>3, <1>4, <1>5, <1>6 DEF ClientNext

LEMMA ServerSent ==
    ASSUME IInv, DInv, IndexesOK, RequestsOK, SInv, NEW h, Follows(h), CommittedAgree',
           NEW i \in Servers, ServerNext(i)
    PROVE  SInv' /\ CommitsGrow /\ clientVars' = clientVars
<1>1. ASSUME StoresOK', SentAllOK', clientVars' = clientVars PROVE SInv'
  BY <1>1 DEF SInv, ClientsKnow, clientVars
<1>2. CASE handleMsg(i)
  <2>1. PICK c \in Arriving(i) :
             \/ HandleRequestVoteRequest(i, c) \/ HandleRequestVoteResponse(i, c)
             \/ RejectAppendEntries(i, c) \/ AcceptAppendEntries(i, c)
             \/ HandleAppendEntriesResponse(i, c) \/ LeaderAppends(i, c) \/ RedirectClient(i, c)
    BY <1>2 DEF handleMsg
  <2>2. StoresOK' /\ SentAllOK' /\ CommitsGrow /\ clientVars' = clientVars
    BY <2>1, HandleSent
  <2> QED BY <1>1, <2>2
<1>3. CASE requestVoteLoop(i) \/ appendEntriesLoop(i)
  <2>1. NextOK
    BY DEF DInv
  <2> QED BY <1>1, <1>3, <2>1, RequestSent
<1>4. CASE applyLoop(i)
  <2>1. StoresOK' /\ SentAllOK' /\ CommitsGrow
    BY <1>4, ApplyStores, ApplyKeepsCommits
  <2>2. clientVars' = clientVars
    BY <1>4 DEF applyLoop
  <2> QED BY <1>1, <2>1, <2>2
<1>5. CASE \/ serverRequestVoteLoop(i) \/ serverAppendEntriesLoop(i)
           \/ serverAdvanceCommitIndexLoop(i) \/ serverBecomeLeaderLoop(i)
  <2>1. clientVars' = clientVars /\ net' = net /\ UNCHANGED <<log, commitIndex, sm>>
    BY <1>5 DEF serverRequestVoteLoop, serverAppendEntriesLoop, serverAdvanceCommitIndexLoop,
                serverBecomeLeaderLoop, logVars, commitVars
  <2> QED BY <1>1, <2>1, QuietSent
<1> QED BY <1>2, <1>3, <1>4, <1>5 DEF ServerNext

LEMMA NextSInv ==
    ASSUME IInv, DInv, IndexesOK, RequestsOK, SInv, NEW h, Follows(h), CommittedAgree', [Next]_vars
    PROVE  SInv'
<1>1. ASSUME NEW b \in Breakable, ConnectionBreaks(b) PROVE SInv'
  <2>1. clientVars' = clientVars /\ UNCHANGED <<log, commitIndex, sm>>
    BY <1>1 DEF ConnectionBreaks, logVars, commitVars
  <2> QED BY <1>1, <2>1, QuietSent DEF SInv, ClientsKnow, clientVars
<1>2. CASE UNCHANGED vars
  <2>1. clientVars' = clientVars /\ net' = net /\ UNCHANGED <<log, commitIndex, sm>>
    BY <1>2 DEF vars, logVars, commitVars
  <2> QED BY <2>1, QuietSent DEF SInv, ClientsKnow, clientVars
<1> QED BY <1>1, <1>2, ServerSent, ClientSent DEF Next

-----------------------------------------------------------------------------
(* The single copy *)

\* A server that has committed most.
LEMMA MostCommitted ==
    ASSUME NEW C, \A i \in Servers : C[i] \in Nat
    PROVE  \E i \in Servers : \A j \in Servers : C[j] <= C[i]
<1> DEFINE Has(n) == \E i \in 1..n : \A j \in 1..n : C[j] <= C[i]
           Bad == {n \in Nat : n \in 1..NumServers /\ ~Has(n)}
<1>1. NumServers \in Nat /\ NumServers \in 1..NumServers
  BY RaftAssumption
<1>2. SUFFICES ASSUME Bad # {} PROVE FALSE
  <2>1. SUFFICES ASSUME Bad = {} PROVE Has(NumServers)
    BY DEF Servers
  <2> QED BY <1>1, <2>1
<1>3. PICK n \in Bad : \A k \in Bad : n <= k
  BY <1>2, LeastOf
<1>4. n \in 1..NumServers /\ ~Has(n)
  BY <1>3
<1>5. CASE n = 1
  <2>1. C[1] \in Nat /\ \A j \in 1..1 : j = 1
    BY <1>4, <1>5 DEF Servers
  <2>2. 1 \in 1..1 /\ \A j \in 1..1 : C[j] <= C[1]
    BY <2>1
  <2> QED BY <1>4, <1>5, <2>2
<1>6. CASE n # 1
  <2>1. n - 1 \in 1..NumServers /\ n - 1 \in Nat /\ ~(n <= n - 1)
    BY <1>1, <1>4, <1>6
  <2>2. PICK i \in 1..n - 1 : \A j \in 1..n - 1 : C[j] <= C[i]
    BY <1>3, <2>1
  <2>3. \A j \in 1..n : C[j] \in Nat /\ (j \in 1..n - 1 \/ j = n)
    BY <1>4, <1>1 DEF Servers
  <2>4. i \in 1..n /\ n \in 1..n
    BY <1>4, <2>1
  <2>5. CASE C[n] <= C[i]
    BY <1>4, <2>2, <2>3, <2>4, <2>5
  <2>6. CASE ~(C[n] <= C[i])
    <3>1. \A j \in 1..n : C[j] <= C[n]
      BY <2>2, <2>3, <2>4, <2>6
    <3> QED BY <1>4, <2>4, <3>1
  <2> QED BY <2>5, <2>6
<1> QED BY <1>5, <1>6

\* It does not matter whose committed prefix the history is taken from.
LEMMA LongestPrefix ==
    ASSUME NEW L, NEW C,
           \A i \in Servers : L[i] \in Seq(Entries) /\ C[i] \in Nat /\ C[i] <= Len(L[i]),
           \A i, j \in Servers : \A k \in 1..C[i] \cap 1..C[j] : L[i][k] = L[j][k],
           NEW i \in Servers, \A j \in Servers : C[j] <= C[i],
           NEW x \in Servers, \A j \in Servers : C[j] <= C[x]
    PROVE  SubSeq(L[x], 1, C[x]) = SubSeq(L[i], 1, C[i])
<1>1. PICK n \in Nat : n = C[i]
  OBVIOUS
<1>2. C[x] = n
  <2>1. C[x] \in Nat /\ C[x] <= C[i] /\ C[i] <= C[x]
    OBVIOUS
  <2> QED BY <1>1, <2>1
<1>3. PICK p \in Seq(Entries) : p = L[i] /\ n <= Len(p)
  BY <1>1
<1>4. PICK q \in Seq(Entries) : q = L[x] /\ n <= Len(q)
  BY <1>2
<1>5. \A k \in 1..n : q[k] = p[k]
  BY <1>1, <1>2, <1>3, <1>4
<1>6. SubSeq(q, 1, n) = SubSeq(p, 1, n)
  BY <1>3, <1>4, <1>5
<1> QED BY <1>1, <1>2, <1>3, <1>4, <1>6

\* What the state says of the history.
HistoryIsOK ==
    CommittedAgree /\ \A i \in Servers : log[i] \in Seq(Entries) /\ commitIndex[i] \in Nat

Most(i) == \A j \in Servers : commitIndex[j] <= commitIndex[i]

LEMMA FollowsHistoryIs == ASSUME NEW h, Follows(h) PROVE HistoryIsOK
<1>1. \A i \in Servers : log[i] \in Seq(Entries) /\ commitIndex[i] \in Nat
  BY CommitFacts DEF Follows, ServerOK, LogFollows
<1> QED BY <1>1, FollowsCommittedAgree DEF HistoryIsOK

HistoryFrom ==
    \A i \in Servers : Most(i) => History = SubSeq(log[i], 1, commitIndex[i])

LEMMA HistoryIs == HistoryIsOK => HistoryFrom
<1> SUFFICES ASSUME HistoryIsOK, NEW i \in Servers, Most(i)
             PROVE  History = SubSeq(log[i], 1, commitIndex[i])
  BY DEF HistoryFrom
<1> DEFINE c == CHOOSE y \in Servers : \A j \in Servers : commitIndex[j] <= commitIndex[y]
<1>1. c \in Servers /\ \A j \in Servers : commitIndex[j] <= commitIndex[c]
  BY DEF Most
<1>2. History = Committed(c)
  BY DEF History
<1> HIDE DEF c
<1>3. Committed(c) = SubSeq(log[c], 1, commitIndex[c])
  BY <1>1 DEF Committed, HistoryIsOK, CommittedAgree
<1>4. SubSeq(log[c], 1, commitIndex[c]) = SubSeq(log[i], 1, commitIndex[i])
  BY <1>1, LongestPrefix DEF HistoryIsOK, CommittedAgree, Most
<1> QED BY <1>2, <1>3, <1>4

LEMMA SomeMost == ASSUME HistoryIsOK PROVE \E i \in Servers : Most(i)
BY MostCommitted DEF HistoryIsOK, Most

\* The history has what every server has committed.
LEMMA InHistory ==
    ASSUME HistoryIsOK, NEW s \in Servers, NEW k \in 1..commitIndex[s]
    PROVE  k \in 1..Len(History) /\ History[k] = log[s][k]
<1>1. PICK i \in Servers : Most(i)
  BY SomeMost
<1>2. History = SubSeq(log[i], 1, commitIndex[i])
  BY <1>1, HistoryIs DEF HistoryFrom
<1>3. PICK n \in Nat : n = commitIndex[i]
  BY DEF HistoryIsOK
<1>4. PICK q \in Seq(Entries) : q = log[i] /\ n <= Len(q)
  BY <1>3 DEF HistoryIsOK, CommittedAgree
<1>5. Len(SubSeq(q, 1, n)) = n /\ \A m \in 1..n : SubSeq(q, 1, n)[m] = q[m]
  BY <1>4
<1>6. k \in 1..n
  <2>1. commitIndex[s] <= n /\ commitIndex[s] \in Nat
    BY <1>1, <1>3 DEF Most, HistoryIsOK
  <2> QED BY <2>1
<1>7. log[i][k] = log[s][k]
  BY <1>3, <1>6 DEF HistoryIsOK, CommittedAgree
<1> QED BY <1>2, <1>3, <1>4, <1>5, <1>6, <1>7

\* Nobody commits more than had been committed.
LEMMA HistoryStays ==
    ASSUME HistoryIsOK, HistoryFrom, (HistoryIsOK /\ HistoryFrom)', CommitsGrow,
           NEW i \in Servers, Most(i), \A j \in Servers : commitIndex'[j] <= commitIndex[i]
    PROVE  History' = History
<1>1. PICK n \in Nat : n = commitIndex[i]
  BY DEF HistoryIsOK
<1>2. commitIndex'[i] = n
  <2>1. commitIndex'[i] \in Nat /\ n <= commitIndex'[i] /\ commitIndex'[i] <= n
    BY <1>1 DEF CommitsGrow
  <2> QED BY <2>1
<1>3. Most(i)'
  BY <1>1, <1>2 DEF Most
<1>4. PICK q \in Seq(Entries) : q = log[i] /\ n <= Len(q)
  BY <1>1 DEF HistoryIsOK, CommittedAgree
<1>5. PICK p \in Seq(Entries) : p = log'[i] /\ n <= Len(p)
  BY <1>2 DEF HistoryIsOK, CommittedAgree
<1>6. \A k \in 1..n : p[k] = q[k]
  BY <1>1, <1>4, <1>5 DEF CommitsGrow
<1>7. SubSeq(p, 1, n) = SubSeq(q, 1, n)
  BY <1>4, <1>5, <1>6
<1>8. History = SubSeq(q, 1, n)
  BY <1>1, <1>4 DEF HistoryFrom
<1>9. History' = SubSeq(p, 1, n)
  BY <1>2, <1>3, <1>5 DEF HistoryFrom
<1> QED BY <1>7, <1>8, <1>9

\* A server commits one more than had been committed: the command is executed.
LEMMA HistoryGrows ==
    ASSUME HistoryIsOK, HistoryFrom, (HistoryIsOK /\ HistoryFrom)', NEW s \in Servers,
           \A j \in Servers : commitIndex[j] <= commitIndex[s],
           log' = log, commitIndex'[s] = commitIndex[s] + 1,
           \A j \in Servers \ {s} : commitIndex'[j] = commitIndex[j]
    PROVE  /\ Len(History') = Len(History) + 1
           /\ SubSeq(History', 1, Len(History)) = History
<1>1. PICK n \in Nat : n = commitIndex[s]
  BY DEF HistoryIsOK
<1>2. Most(s) /\ Most(s)'
  <2>1. \A j \in Servers : commitIndex[j] \in Nat
    BY DEF HistoryIsOK
  <2>2. \A j \in Servers : commitIndex'[j] <= commitIndex'[s]
    BY <1>1, <2>1
  <2> QED BY <2>2 DEF Most
<1>3. PICK q \in Seq(Entries) : q = log[s] /\ n + 1 <= Len(q)
  <2>1. log'[s] = log[s] /\ commitIndex'[s] = n + 1
    BY <1>1
  <2> QED BY <2>1 DEF HistoryIsOK, CommittedAgree
<1>4. History = SubSeq(q, 1, n) /\ History' = SubSeq(q, 1, n + 1)
  BY <1>1, <1>2, <1>3 DEF HistoryFrom
<1>5. Len(SubSeq(q, 1, n)) = n /\ Len(SubSeq(q, 1, n + 1)) = n + 1
  BY <1>3
<1>6. SubSeq(SubSeq(q, 1, n + 1), 1, n) = SubSeq(q, 1, n)
  BY <1>3
<1> QED BY <1>4, <1>5, <1>6

\* What a step of a server makes of the history.
LEMMA ServerHistory ==
    ASSUME IInv, DInv, IndexesOK, RequestsOK, SInv, NEW h, Follows(h),
           HistoryIsOK, HistoryFrom, (HistoryIsOK /\ HistoryFrom)', NEW s \in Servers, ServerNext(s)
    PROVE  (Store!Execute \/ History' = History) /\ Answers' = Answers
<1>1. CommitsGrow /\ Answers' = Answers
  <2>1. CommittedAgree'
    BY DEF HistoryIsOK
  <2>2. CommitsGrow /\ clientVars' = clientVars
    BY <2>1, ServerSent
  <2> QED BY <2>2 DEF Answers, clientVars
<1>2. PICK i \in Servers : Most(i)
  BY SomeMost
<1>3. \A j \in Servers : commitIndex[j] \in Nat /\ commitIndex[j] <= commitIndex[i]
  BY <1>2 DEF HistoryIsOK, Most
<1>4. CASE applyLoop(s)
  <2>1. /\ log' = log /\ commitIndex'[s] = commitIndex[s] + 1
        /\ \A j \in Servers \ {s} : commitIndex'[j] = commitIndex[j]
    BY <1>4, ApplyKeepsCommits
  <2>2. CASE commitIndex[s] = commitIndex[i]
    <3>1. \A j \in Servers : commitIndex[j] <= commitIndex[s]
      BY <1>3, <2>2
    <3>2. /\ Len(History') = Len(History) + 1
          /\ SubSeq(History', 1, Len(History)) = History
      BY <2>1, <3>1, HistoryGrows
    <3>3. Store!Execute
      BY <1>1, <3>2 DEF Store!Execute
    <3> QED BY <1>1, <3>3
  <2>3. CASE commitIndex[s] # commitIndex[i]
    <3>1. commitIndex[s] + 1 <= commitIndex[i]
      BY <1>3, <2>3
    <3>2. \A j \in Servers : commitIndex'[j] <= commitIndex[i]
      BY <1>3, <2>1, <3>1
    <3>3. History' = History
      BY <1>1, <1>2, <3>2, HistoryStays
    <3> QED BY <1>1, <3>3
  <2> QED BY <2>2, <2>3
<1>5. CASE \E c \in Arriving(s) : AcceptAppendEntries(s, c)
  <2>1. PICK c \in Arriving(s) : AcceptAppendEntries(s, c)
    BY <1>5
  <2>2. PICK m : m = Head(net[c])
    OBVIOUS
  <2>3. commitIndex'[s] <= Len(log'[s])
    BY DEF HistoryIsOK, CommittedAgree
  <2>4. /\ m.mcommitIndex \in Nat /\ commitIndex'[s] = LargerOf(commitIndex[s], m.mcommitIndex)
        /\ \A j \in Servers \ {s} : commitIndex'[j] = commitIndex[j]
    BY <2>1, <2>2, <2>3, AcceptKeepsCommits
  <2>5. m.mcommitIndex <= commitIndex[i]
    <3>1. OnConnection(net, c, m)
      BY <2>1, <2>2, ArrivingIs
    <3>2. SentOK(c[1], m)
      BY <3>1 DEF SInv, SentAllOK
    <3>3. m.mtype = "apq"
      BY <2>1, <2>2 DEF AcceptAppendEntries
    <3>4. m.msource \in Servers /\ m.mcommitIndex <= commitIndex[m.msource]
      BY <3>2, <3>3 DEF SentOK
    <3> QED BY <1>3, <2>4, <3>4
  <2>6. \A j \in Servers : commitIndex'[j] <= commitIndex[i]
    BY <1>3, <2>4, <2>5 DEF LargerOf
  <2>7. History' = History
    BY <1>1, <1>2, <2>6, HistoryStays
  <2> QED BY <1>1, <2>7
<1>6. CASE ~applyLoop(s) /\ ~\E c \in Arriving(s) : AcceptAppendEntries(s, c)
  <2>1. commitIndex' = commitIndex
    BY <1>6 DEF ServerNext, handleMsg, HandleRequestVoteRequest, HandleRequestVoteResponse,
         RejectAppendEntries, HandleAppendEntriesResponse, LeaderAppends, RedirectClient,
         serverRequestVoteLoop, requestVoteLoop, serverAppendEntriesLoop, appendEntriesLoop,
         serverAdvanceCommitIndexLoop, serverBecomeLeaderLoop, commitVars
  <2>2. \A j \in Servers : commitIndex'[j] <= commitIndex[i]
    BY <1>3, <2>1
  <2>3. History' = History
    BY <1>1, <1>2, <2>2, HistoryStays
  <2> QED BY <1>1, <2>3
<1> QED BY <1>4, <1>5, <1>6

\* The value of a committed command is the one the single copy gives.
LEMMA ResultInHistory ==
    ASSUME HistoryIsOK, NEW c, NEW m, IsResult(c, m)
    PROVE  \E k \in 1..Len(History) :
              /\ History[k].client = c /\ History[k].cmd.idx = m.idx
              /\ m.value = Store!ValueAt(History[k].cmd.key, k)
<1>1. PICK i \in Servers : \E k \in 1..commitIndex[i] :
         /\ log[i][k].client = c /\ log[i][k].cmd.idx = m.idx
         /\ m.value = ValueIn(log[i], log[i][k].cmd.key, k)
  BY DEF IsResult
<1>2. PICK k \in 1..commitIndex[i] :
         /\ log[i][k].client = c /\ log[i][k].cmd.idx = m.idx
         /\ m.value = ValueIn(log[i], log[i][k].cmd.key, k)
  BY <1>1
<1>3. k \in 1..Len(History) /\ History[k] = log[i][k]
  BY InHistory
<1>4. commitIndex[i] \in Nat /\ k \in Nat
  BY DEF HistoryIsOK
<1>5. \A n \in 1..k : History[n] = log[i][n]
  <2>1. \A n \in 1..k : n \in 1..commitIndex[i]
    BY <1>4
  <2> QED BY <2>1, InHistory
<1>6. \A key : ValueIn(History, key, k) = ValueIn(log[i], key, k)
  BY <1>4, <1>5, SameValue
<1>7. \A key : Store!ValueAt(key, k) = ValueIn(History, key, k)
  BY DEF Store!ValueAt, Store!PutsBefore, ValueIn, LastValue, PutsIn
<1> QED BY <1>2, <1>3, <1>6, <1>7

LEMMA ClientHistory ==
    ASSUME IInv, SInv, HistoryIsOK, NEW c \in Clients, ClientNext(c)
    PROVE  (Store!Answer \/ Answers' = Answers) /\ History' = History
<1>1. History' = History
  <2>1. log' = log /\ commitIndex' = commitIndex
    BY DEF ClientNext, clientLoop, sndReq, rcvResp, clientTimeout, logVars, commitVars
  <2> QED BY <2>1 DEF History, Committed
<1>2. CASE answered' = answered
  BY <1>1, <1>2 DEF Answers
<1>3. CASE answered' # answered
  <2>1. rcvResp(c)
    BY <1>3 DEF ClientNext, clientLoop, sndReq, clientTimeout
  <2>2. PICK d \in Arriving(c) :
           /\ Head(net[d]).msuccess
           /\ answered' = [answered EXCEPT ![c] = @ \cup {Head(net[d])}]
    BY <1>3, <2>1 DEF rcvResp
  <2>3. PICK m : m = Head(net[d])
    OBVIOUS
  <2>4. IsResult(c, m)
    BY <2>2, <2>3, AnswerIs
  <2>5. PICK k \in 1..Len(History) :
           /\ History[k].client = c /\ History[k].cmd.idx = m.idx
           /\ m.value = Store!ValueAt(History[k].cmd.key, k)
    BY <2>4, ResultInHistory
  <2>6. DOMAIN answered = Clients
    BY DEF SInv, ClientsKnow
  <2>7. \A e \in Clients : answered'[e] = IF e = c THEN answered[e] \cup {m} ELSE answered[e]
    BY <2>2, <2>3, <2>6
  <2>8. Answers' = Answers \cup {[client |-> c, idx |-> m.idx, value |-> m.value]}
    <3> DEFINE A(e, r) == [client |-> e, idx |-> r.idx, value |-> r.value]
    <3>1. \A x : x \in Answers <=> \E e \in Clients : \E r \in answered[e] : x = A(e, r)
      BY DEF Answers
    <3>2. \A x : x \in Answers' <=> \E e \in Clients : \E r \in answered'[e] : x = A(e, r)
      BY DEF Answers
    <3> HIDE DEF A
    <3>3. \A x : x \in Answers' <=> x \in Answers \/ x = A(c, m)
      BY <2>7, <3>1, <3>2
    <3>4. Answers' = Answers \cup {A(c, m)}
      BY <3>3
    <3> QED BY <3>4 DEF A
  <2>9. Answers' = Answers \cup {[client |-> History[k].client, idx |-> History[k].cmd.idx,
                                  value |-> Store!ValueAt(History[k].cmd.key, k)]}
    BY <2>5, <2>8
  <2>10. Store!Answer
    BY <1>1, <2>9 DEF Store!Answer
  <2> QED BY <1>1, <2>10
<1> QED BY <1>2, <1>3

LEMMA HistoryStep ==
    ASSUME HInv, SInv, HistoryIsOK, HistoryFrom, (HistoryIsOK /\ HistoryFrom)', [Next]_vars
    PROVE  [Store!Next]_<<History, Answers>>
<1>1. IInv /\ DInv /\ IndexesOK /\ RequestsOK
  BY DEF HInv
<1>2. PICK h : Follows(h)
  BY DEF HInv
<1>3. ASSUME NEW s \in Servers, ServerNext(s) PROVE [Store!Next]_<<History, Answers>>
  <2>1. (Store!Execute \/ History' = History) /\ Answers' = Answers
    BY <1>1, <1>2, <1>3, ServerHistory
  <2> QED BY <2>1 DEF Store!Next
<1>4. ASSUME NEW c \in Clients, ClientNext(c) PROVE [Store!Next]_<<History, Answers>>
  <2>1. (Store!Answer \/ Answers' = Answers) /\ History' = History
    BY <1>1, <1>4, ClientHistory
  <2> QED BY <2>1 DEF Store!Next
<1>5. ASSUME UNCHANGED <<log, commitIndex, answered>> PROVE UNCHANGED <<History, Answers>>
  BY <1>5 DEF History, Committed, Answers
<1>6. ASSUME NEW b \in Breakable, ConnectionBreaks(b) PROVE UNCHANGED <<History, Answers>>
  BY <1>5, <1>6 DEF ConnectionBreaks, logVars, commitVars, clientVars
<1>7. CASE UNCHANGED vars
  BY <1>5, <1>7 DEF vars, logVars, commitVars, clientVars
<1> QED BY <1>3, <1>4, <1>6, <1>7 DEF Next

LEMMA InitHistory == Init => Store!Init
<1> SUFFICES ASSUME Init PROVE Store!Init
  OBVIOUS
<1>1. HistoryIsOK /\ HistoryFrom
  BY InitHInv, FollowsHistoryIs, HistoryIs DEF HInv
<1>2. PICK i \in Servers : Most(i)
  BY <1>1, SomeMost
<1>3. History = SubSeq(log[i], 1, commitIndex[i]) /\ log[i] = <<>> /\ commitIndex[i] = 0
  BY <1>1, <1>2 DEF HistoryFrom, Init
<1>4. History = <<>>
  BY <1>3
<1>5. \A c \in Clients : answered[c] = {}
  BY DEF Init
<1>6. Answers = {}
  BY <1>5 DEF Answers
<1> QED BY <1>4, <1>6 DEF Store!Init

\* The store is a single copy for its clients until such an overtaking: every step up
\* to there is one of the abstract store, or changes nothing in it.
SingleCopyUntilOvertaken ==
    Store!Init /\ [][~overtaken' => Store!Next]_<<History, Answers>>

\* To its clients the replicated store is one store.  Elections and truncations neither
\* lose nor reorder committed commands, applyLoop and handleMsg give every store the
\* same contents, and each answer that a client takes is the value its command has in
\* the one history.
THEOREM ImplementsSingleCopy == Spec => SingleCopyUntilOvertaken
<1>1. Init => HInv /\ SInv /\ Store!Init
  BY InitHInv, InitSInv, InitHistory
<1>2. HInv => HistoryIsOK /\ HistoryFrom
  BY FollowsHistoryIs, HistoryIs DEF HInv
<1>3. (HInv => HistoryIsOK /\ HistoryFrom)'
  BY <1>2, PTL
<1>4. ASSUME HInv, SInv, (HistoryIsOK /\ HistoryFrom)', [Next]_vars PROVE SInv'
  <2>1. CommittedAgree'
    BY <1>4 DEF HistoryIsOK
  <2> QED BY <1>4, <2>1, NextSInv DEF HInv
<1>5. (~overtaken => HInv /\ SInv) /\ [Next]_vars => (~overtaken' => HInv' /\ SInv')
  BY <1>3, <1>4, NextHInv, OvertakenStays
<1>6. (~overtaken => HInv /\ SInv) /\ [Next]_vars
        => [~overtaken' => Store!Next]_<<History, Answers>>
  <2> SUFFICES ASSUME ~overtaken => HInv /\ SInv, [Next]_vars, ~overtaken'
               PROVE  [Store!Next]_<<History, Answers>>
    OBVIOUS
  <2>1. HInv /\ SInv /\ HInv'
    BY NextHInv, OvertakenStays
  <2>2. HistoryIsOK /\ HistoryFrom /\ (HistoryIsOK /\ HistoryFrom)'
    BY <1>2, <1>3, <2>1
  <2> QED BY <2>1, <2>2, HistoryStep
<1> QED BY <1>1, <1>5, <1>6, PTL DEF Spec, SingleCopyUntilOvertaken

\* RefinesSingleCopy: in a behaviour in which no such message overtakes another, for
\* instance because no connection between servers breaks, the store is a single copy.
COROLLARY SingleCopyWithoutOvertaking == Spec /\ []~overtaken => RefinesSingleCopy
<1>1. ~overtaken' /\ [~overtaken' => Store!Next]_<<History, Answers>>
        => [Store!Next]_<<History, Answers>>
  OBVIOUS
<1> QED BY <1>1, ImplementsSingleCopy, PTL
        DEF SingleCopyUntilOvertaken, RefinesSingleCopy, Store!Spec
=============================================================================
