------------------------- MODULE TCPMailboxesProofs -------------------------
(***************************************************************************)
(* Proofs for TCPMailboxes, for any senders, bounds, channel sizes,        *)
(* faults and closings: until an abort leaves a PreCommit running, only    *)
(* committed batches enter, none of them is lost, and every exchange       *)
(* starts with its begin; without faults the mailbox implements a          *)
(* reliable FIFO link.                                                     *)
(*                                                                         *)
(* The invariant of the first two says of a connection which batch its     *)
(* handler holds once it has read the records that are on the stream       *)
(* (Ends), and of the sender what that batch is in each of its phases.     *)
(***************************************************************************)
EXTENDS TCPMailboxes, TLAPS, WellFoundedInduction

\* What is on a stream to the local end.
Record == [tag : {"begin", "preCommit", "commit"}] \cup [tag : {"value"}, value : Message]

\* What is on a stream to the remote end.
Answer == {"preCommit", "commit"}

\* A connection.
LinkRecord == [in : Seq(Record), out : Seq(Answer), open : BOOLEAN,
               pc : {"loop", "enqueue", "dead"}, hasBegun : BOOLEAN,
               localBuffer : Seq(Message)]

\* The remote ends and the connections, their sequences included.
MailboxTypes ==
    /\ phase \in [Sender -> Phase]
    /\ conn \in [Sender -> Nat]
    /\ dialled \in [Sender -> Nat]
    /\ resendBuffer \in [Sender -> Seq(Message)]
    /\ link \in [Sender -> [Conn -> LinkRecord]]
    /\ committed \in [Sender -> Seq(Seq(Message))]
    /\ delivered \in [Sender -> Seq(Seq(Message))]

\* The records of l after the first k, up to the n-th, are the values of b that
\* follow its first p.
Spells(l, k, n, b, p) ==
    /\ Len(b) = p + (n - k)
    /\ \A i \in (k + 1)..n : l.in[i].tag = "value" /\ l.in[i].value = b[p + (i - k)]

\* The handler of l holds the batch b once it has read the first n records: they
\* begin it, or go on with what it holds.
BeginsAt(l, k, n, b) == l.in[k].tag = "begin" /\ Spells(l, k, n, b, 0)

\* The handler goes on with what it holds.
Continues(l, n, b) ==
    /\ l.pc = "loop"
    /\ Spells(l, 0, n, b, Len(l.localBuffer))
    /\ \A i \in 1..Len(l.localBuffer) : b[i] = l.localBuffer[i]

\* The handler of l holds b once it has read the first n records.
Ends(l, n, b) == (\E k \in 1..n : BeginsAt(l, k, n, b)) \/ Continues(l, n, b)

LastTag(l) == l.in[Len(l.in)].tag

\* A precommit or commit record is the last on its stream.  A batch that a handler
\* has acknowledged, or that a commit record on the way makes it acknowledge, was sent.
LinkOK(l, sent) ==
    /\ \A i \in 1..Len(l.in) : l.in[i].tag \in {"preCommit", "commit"} => i = Len(l.in)
    /\ l.in # <<>> /\ LastTag(l) = "commit" /\ l.pc # "dead" =>
         l.pc = "loop" /\ \E b \in sent : Ends(l, Len(l.in) - 1, b)
    /\ l.pc = "enqueue" => l.localBuffer \in sent

\* The sender has not asked for an answer since it began the exchange.
Uncommitted(l) == l.in # <<>> => LastTag(l) \in {"begin", "value"}

\* The connection in use, in each phase of a sender whose section has written b.
CurrentOK(l, ph, b, entered) ==
    /\ ph = "idle" => l.out = <<>> /\ Uncommitted(l)
    /\ ph = "open" => /\ l.out = <<>> /\ Uncommitted(l)
                      /\ l.pc = "dead" \/ Ends(l, Len(l.in), b)
    /\ ph = "preCommit" =>
         \/ l.pc = "dead" /\ l.out = <<>>
         \/ /\ l.in # <<>> /\ LastTag(l) = "preCommit" /\ l.out = <<>>
            /\ Ends(l, Len(l.in) - 1, b)
         \/ l.in = <<>> /\ l.pc = "loop" /\ l.localBuffer = b /\ Len(l.out) <= 1
    /\ ph = "ready" => /\ l.in = <<>> /\ l.out = <<>>
                       /\ l.pc = "dead" \/ (l.pc = "loop" /\ l.localBuffer = b)
    /\ ph = "commitWait" =>
         \/ l.pc = "dead" /\ l.out = <<>>
         \/ /\ l.in # <<>> /\ LastTag(l) = "commit" /\ l.out = <<>> /\ l.pc = "loop"
            /\ Ends(l, Len(l.in) - 1, b)
         \/ /\ l.in = <<>> /\ Len(l.out) = 1
            /\ b \in entered \/ (l.pc = "enqueue" /\ l.localBuffer = b)

\* What the remote end keeps, in each phase.
PhaseOK(s) ==
    /\ phase[s] \in {"open", "preCommit", "ready", "commitWait"} => conn[s] # 0
    /\ phase[s] \in {"failed", "resend", "closed"} => conn[s] = 0
    /\ phase[s] \in {"open", "preCommit", "ready", "commitWait", "resend"} => resendBuffer[s] # <<>>
    /\ phase[s] = "idle" => resendBuffer[s] = <<>>
    /\ phase[s] \in Committing =>
        committed[s] # <<>> /\ committed[s][Len(committed[s])] = resendBuffer[s]

\* CommittedIsKept, for s.
Kept(s) ==
    \A i \in DOMAIN committed[s] :
        \/ i = Len(committed[s]) /\ phase[s] \in Committing
        \/ committed[s][i] \in ToSet(delivered[s])
        \/ \E c \in Conn : link[s][c].pc = "enqueue" /\ link[s][c].localBuffer = committed[s][i]

\* The inductive invariant, for s.
SenderInv(s) ==
    /\ dialled[s] \in 0..(2 * MaxFaults + 1) /\ conn[s] \in 0..dialled[s]
    /\ \A c \in Conn : c > dialled[s] => link[s][c] = NoLink
    /\ \A c \in Conn : LinkOK(link[s][c], ToSet(committed[s]))
    /\ PhaseOK(s)
    /\ conn[s] # 0 =>
        CurrentOK(link[s][conn[s]], phase[s], resendBuffer[s], ToSet(delivered[s]))
    /\ Kept(s)
    /\ ToSet(delivered[s]) \subseteq ToSet(committed[s])
    /\ \A i \in DOMAIN committed[s] : committed[s][i] # <<>>

\* The inductive invariant of the safety properties.
SendersInv == \A s \in Sender : SenderInv(s)

\* The handler of l has seen the begin of the exchange it is in, unless nothing of one
\* is left; the next exchange starts with one.
BegunOK(l) ==
    /\ l.pc = "loop" /\ l.localBuffer # <<>> => l.hasBegun
    /\ l.pc = "loop" /\ l.in # <<>> /\ l.in[1].tag # "begin" => l.hasBegun
    /\ l.pc = "enqueue" /\ l.in # <<>> => l.in[1].tag = "begin"

\* The inductive invariant of ExchangesBegin, with SendersInv.
BegunInv == \A s \in Sender, c \in Conn : BegunOK(link[s][c])

\* The local end.  No empty batch is in the channel.
LocalTypes ==
    /\ msgChannel \in Seq(Seq(Message))
    /\ readBacklog \in Seq(Message)
    /\ readsInProgress \in Seq(Message)
    /\ faults \in Nat
    /\ \A i \in 1..Len(msgChannel) : msgChannel[i] # <<>>

\* Of the batches of a sender, only the last that it was told to commit may be under way.
Pending(sent, entered) == Len(sent) = Len(entered) + 1

\* The batches of a sender have entered in the order of its commits.
InOrder(sent, entered) ==
    /\ Pending(sent, entered) \/ Len(sent) = Len(entered)
    /\ \A i \in 1..Len(entered) : entered[i] = sent[i]

\* It is on the first connection, and enters from there if the handler still serves it.
FirstOK(l, ph, sent, entered) ==
    /\ l.pc = "enqueue" => Pending(sent, entered) /\ l.localBuffer = sent[Len(sent)]
    /\ l.pc = "loop" /\ l.in # <<>> /\ LastTag(l) = "commit" =>
        /\ Pending(sent, entered) /\ ph \in Committing
        /\ Ends(l, Len(l.in) - 1, sent[Len(sent)])

\* The sender has not been told that it entered.
PendingOK(ph, cn, ls) ==
    \/ ls[1].pc = "enqueue" \/ ph = "resend"
    \/ ph = "commitWait" /\ ls[cn].out = <<>>

\* A connection that was opened when the local end was closing brings nothing.
LateOK(l) == l.pc # "enqueue" /\ l.localBuffer = <<>> /\ l.out = <<>>

\* A sender uses one connection as long as the local end is open.
OpenOK(ph, cn, d, ls) ==
    /\ d <= 1
    /\ cn = 0 => d = 0 \/ ph = "closed"
    /\ cn # 0 => ls[cn].pc # "dead" /\ ls[cn].open

\* A sender without faults: ph, cn and d are its phase, connection and dials, ls its
\* connections, cl the state of the local end.
Calm(ph, cn, d, ls, cl, sent, entered) ==
    /\ cl = "open" => OpenOK(ph, cn, d, ls)
    /\ \A c \in Conn : c >= 2 => LateOK(ls[c])
    /\ cn >= 2 => ph # "ready"
    /\ ph = "resend" => d >= 1
    /\ InOrder(sent, entered)
    /\ Pending(sent, entered) => PendingOK(ph, cn, ls)
    /\ FirstOK(ls[1], ph, sent, entered)

\* The same, of the current state.
WithoutFaults(s) ==
    Calm(phase[s], conn[s], dialled[s], link[s], closing, committed[s], delivered[s])

\* The inductive invariant of the refinement, with SendersInv.
FaultFreeInv == faults = 0 => \A s \in Sender : WithoutFaults(s)

-----------------------------------------------------------------------------
(* Sequences *)

\* The elements of a longer sequence.
LEMMA ToSetAppend ==
    ASSUME NEW S, NEW q \in Seq(S), NEW x \in S
    PROVE  ToSet(Append(q, x)) = ToSet(q) \cup {x}
<1>1. /\ DOMAIN Append(q, x) = DOMAIN q \cup {Len(q) + 1}
      /\ Append(q, x)[Len(q) + 1] = x
      /\ \A i \in DOMAIN q : Append(q, x)[i] = q[i]
  OBVIOUS
<1> QED
  BY <1>1, Zenon DEF ToSet

\* Short sequences.
LEMMA AppendTo ==
    ASSUME NEW S, NEW q \in Seq(S), NEW y \in S
    PROVE  Append(q, y) \in Seq(S) /\ Append(q, y) # <<>>
<1>1. Len(Append(q, y)) # 0 /\ Len(<<>>) = 0
  OBVIOUS
<1>2. Append(q, y) # <<>>
  BY <1>1, Zenon
<1> QED
  BY <1>2

\* Appending to at most one element.
LEMMA AppendToOne ==
    ASSUME NEW S, NEW x \in S, NEW y \in S
    PROVE  Append(<<x>>, y) = <<x, y>> /\ Append(<<>>, y) = <<y>>
<1> DEFINE a == Append(<<x>>, y)
<1> DEFINE b == <<x, y>>
<1>1. a \in Seq(S) /\ Len(a) = 2 /\ a[1] = x /\ a[2] = y
  <2>1. <<x>> \in Seq(S) /\ Len(<<x>>) = 1 /\ <<x>>[1] = x
    OBVIOUS
  <2> QED
    BY <2>1
<1>2. b \in Seq(S) /\ Len(b) = 2 /\ b[1] = x /\ b[2] = y
  OBVIOUS
<1>3. Append(<<>>, y) = <<y>>
  OBVIOUS
<1> HIDE DEF a, b
<1>4. \A i \in 1..2 : a[i] = b[i]
  <2>1. \A i \in 1..2 : i = 1 \/ i = 2
    OBVIOUS
  <2> QED
    BY <1>1, <1>2, <2>1
<1>5. a = b
  BY <1>1, <1>2, <1>4
<1> QED
  BY <1>3, <1>5 DEF a, b

\* What taking the first record off a stream leaves.
LEMMA TailIs ==
    ASSUME NEW S, NEW q \in Seq(S), q # <<>>
    PROVE  /\ Tail(q) \in Seq(S) /\ Len(Tail(q)) = Len(q) - 1 /\ Len(q) \in Nat /\ Len(q) >= 1
           /\ Head(q) = q[1]
           /\ \A i \in 1..(Len(q) - 1) : Tail(q)[i] = q[i + 1]
  OBVIOUS

\* The place before the last one.
LEMMA Before ==
    \A n \in Nat : n >= 1 /\ n # 1 => n - 1 \in 1..(n - 1) /\ n - 1 \in 1..n /\ (n - 1) + 1 = n
  OBVIOUS

-----------------------------------------------------------------------------
(* Streams *)

\* A longer stream spells a longer batch.
LEMMA SpellsMore ==
    ASSUME NEW l \in LinkRecord, NEW k \in LinkRecord, NEW n \in 0..Len(l.in), NEW j \in 0..n,
           NEW b \in Seq(Message), NEW m \in Message, NEW p \in Nat, Spells(l, j, n, b, p),
           \A i \in 1..n : k.in[i] = l.in[i],
           k.in[n + 1].tag = "value", k.in[n + 1].value = m
    PROVE  Spells(k, j, n + 1, Append(b, m), p)
<1> DEFINE d == Append(b, m)
<1>1. n \in Nat /\ j \in Nat /\ Len(b) = p + (n - j)
  BY DEF Spells, LinkRecord
<1>2. /\ Len(d) = p + ((n + 1) - j) /\ d[p + ((n + 1) - j)] = m
      /\ \A i \in 1..(p + (n - j)) : d[i] = b[i]
  BY <1>1
<1> HIDE DEF d
<1>3. ASSUME NEW i \in (j + 1)..(n + 1)
      PROVE  k.in[i].tag = "value" /\ k.in[i].value = d[p + (i - j)]
  <2>1. CASE i = n + 1
    BY <1>2, <2>1
  <2>2. CASE i # n + 1
    <3>1. i \in (j + 1)..n /\ i \in 1..n /\ p + (i - j) \in 1..(p + (n - j))
      BY <1>1, <2>2
    <3>2. k.in[i] = l.in[i] /\ d[p + (i - j)] = b[p + (i - j)]
      BY <1>2, <3>1
    <3> QED
      BY <3>1, <3>2 DEF Spells
  <2> QED
    BY <2>1, <2>2
<1> QED
  BY <1>2, <1>3 DEF Spells, d

\* Writing a value to a stream: it is the next of the exchange at its end.
LEMMA AppendValue ==
    ASSUME NEW l \in LinkRecord, NEW b \in Seq(Message), NEW m \in Message,
           Ends(l, Len(l.in), b), NEW k \in LinkRecord,
           k.in = l.in \o <<Value(m)>>, k.pc = l.pc, k.localBuffer = l.localBuffer
    PROVE  Ends(k, Len(k.in), Append(b, m))
<1> DEFINE n == Len(l.in)
<1>0. n \in Nat /\ Len(b) \in Nat /\ Len(l.localBuffer) \in Nat
  BY DEF LinkRecord
<1>1. /\ Len(k.in) = n + 1
      /\ \A i \in 1..n : k.in[i] = l.in[i]
      /\ k.in[n + 1].tag = "value" /\ k.in[n + 1].value = m
  BY DEF LinkRecord, Value
<1>2. ASSUME NEW j \in 1..n, BeginsAt(l, j, n, b) PROVE Ends(k, n + 1, Append(b, m))
  <2>1. j \in 0..n /\ j \in 1..(n + 1) /\ 0 \in Nat /\ n \in 0..Len(l.in)
    BY <1>0
  <2>2. Spells(k, j, n + 1, Append(b, m), 0)
    BY <1>1, <1>2, <2>1, SpellsMore DEF BeginsAt
  <2> QED
    BY <1>1, <1>2, <2>1, <2>2 DEF Ends, BeginsAt
<1>3. ASSUME Continues(l, n, b) PROVE Ends(k, n + 1, Append(b, m))
  <2>1. 0 \in 0..n /\ n \in 0..Len(l.in)
    BY <1>0
  <2>2. Spells(k, 0, n + 1, Append(b, m), Len(k.localBuffer))
    BY <1>0, <1>1, <1>3, <2>1, SpellsMore DEF Continues
  <2>3. Len(l.localBuffer) =< Len(b)
    <3>1. Len(b) = Len(l.localBuffer) + (n - 0)
      BY <1>3 DEF Continues, Spells
    <3> HIDE DEF n
    <3> QED
      BY <1>0, <3>1
  <2>4. \A i \in 1..Len(l.localBuffer) : Append(b, m)[i] = b[i]
    BY <1>0, <2>3
  <2>5. \A i \in 1..Len(k.localBuffer) : Append(b, m)[i] = k.localBuffer[i]
    BY <1>3, <2>4 DEF Continues
  <2> QED
    BY <1>3, <2>2, <2>5 DEF Ends, Continues
<1> QED
  BY <1>1, <1>2, <1>3 DEF Ends

\* Writing a whole exchange.
LEMMA BeginBatch ==
    ASSUME NEW l \in LinkRecord, NEW b \in Seq(Message), NEW k \in 1..Len(l.in),
           l.in[k].tag = "begin", k + Len(b) =< Len(l.in),
           \A i \in 1..Len(b) : l.in[k + i].tag = "value" /\ l.in[k + i].value = b[i]
    PROVE  Ends(l, k + Len(b), b)
<1>1. Len(b) \in Nat /\ k \in Nat /\ k \in 1..(k + Len(b))
  BY DEF LinkRecord
<1>2. ASSUME NEW i \in (k + 1)..(k + Len(b))
      PROVE  l.in[i].tag = "value" /\ l.in[i].value = b[0 + (i - k)]
  <2>1. i - k \in 1..Len(b) /\ k + (i - k) = i /\ 0 + (i - k) = i - k
    BY <1>1
  <2> QED
    BY <2>1
<1>3. Spells(l, k, k + Len(b), b, 0)
  BY <1>1, <1>2 DEF Spells
<1> QED
  BY <1>1, <1>3 DEF Ends, BeginsAt

\* Writing the first value of an exchange.
LEMMA BeginValue ==
    ASSUME NEW l \in LinkRecord, NEW m \in Message, NEW k \in LinkRecord,
           k.in = l.in \o <<Begin, Value(m)>>
    PROVE  Ends(k, Len(k.in), <<m>>)
<1> DEFINE n == Len(l.in)
<1>1. /\ n \in Nat /\ Len(k.in) = n + 2
      /\ k.in[n + 1].tag = "begin"
      /\ k.in[n + 2].tag = "value" /\ k.in[n + 2].value = m
  BY DEF LinkRecord, Value, Begin
<1> HIDE DEF n
<1>2. Len(<<m>>) = 1 /\ <<m>>[1] = m /\ <<m>> \in Seq(Message)
  OBVIOUS
<1>3. /\ n + 1 \in 1..Len(k.in) /\ (n + 1) + Len(<<m>>) = Len(k.in)
      /\ (n + 1) + Len(<<m>>) =< Len(k.in)
      /\ \A i \in 1..Len(<<m>>) : i = 1 /\ (n + 1) + i = n + 2
  BY <1>1, <1>2
<1>4. \A i \in 1..Len(<<m>>) :
         k.in[(n + 1) + i].tag = "value" /\ k.in[(n + 1) + i].value = <<m>>[i]
  BY <1>1, <1>2, <1>3
<1> QED
  BY <1>1, <1>2, <1>3, <1>4, BeginBatch

\* What is written later changes nothing.
LEMMA EndsBefore ==
    ASSUME NEW l \in LinkRecord, NEW b, NEW n \in 0..Len(l.in), Ends(l, n, b),
           NEW k \in LinkRecord, \A i \in 1..n : k.in[i] = l.in[i],
           k.pc = l.pc, k.localBuffer = l.localBuffer
    PROVE  Ends(k, n, b)
<1>0. n \in Nat
  BY DEF LinkRecord
<1>1. \A p : \A j \in 0..n : Spells(l, j, n, b, p) => Spells(k, j, n, b, p)
  <2> SUFFICES ASSUME NEW j \in 0..n, NEW p, Spells(l, j, n, b, p) PROVE Spells(k, j, n, b, p)
    OBVIOUS
  <2>1. \A i \in (j + 1)..n : i \in 1..n
    BY <1>0
  <2> QED
    BY <2>1 DEF Spells
<1>2. \A j \in 1..n : j \in 0..n
  BY <1>0
<1>3. 0 \in 0..n
  BY <1>0
<1> QED
  BY <1>1, <1>2, <1>3 DEF Ends, BeginsAt, Continues

\* The handler has read nothing more: it holds the batch.
LEMMA EndsHere ==
    ASSUME NEW l \in LinkRecord, NEW b \in Seq(Message)
    PROVE  Ends(l, 0, b) <=> l.localBuffer = b /\ l.pc = "loop"
<1>1. l.localBuffer \in Seq(Message)
  BY DEF LinkRecord
<1>2. Ends(l, 0, b) <=> Continues(l, 0, b)
  BY DEF Ends
<1>3. Spells(l, 0, 0, b, Len(l.localBuffer)) <=> Len(b) = Len(l.localBuffer)
  BY <1>1 DEF Spells
<1>4. Continues(l, 0, b) => l.localBuffer = b
  BY <1>1, <1>3 DEF Continues
<1> QED
  BY <1>2, <1>3, <1>4 DEF Continues

\* Reading the first record of a stream.
LEMMA ReadHead ==
    ASSUME NEW l \in LinkRecord, NEW b \in Seq(Message), NEW n \in 1..Len(l.in), Ends(l, n, b),
           l.pc = "loop", NEW k \in LinkRecord, k.in = Tail(l.in), k.pc = "loop",
           \/ l.in[1].tag = "begin" /\ k.localBuffer = <<>>
           \/ l.in[1].tag = "value" /\ k.localBuffer = Append(l.localBuffer, l.in[1].value)
    PROVE  Ends(k, n - 1, b)
<1>0. /\ l.in \in Seq(Record) /\ l.in # <<>> /\ l.localBuffer \in Seq(Message)
      /\ n \in Nat /\ Len(b) \in Nat
  BY DEF LinkRecord
<1>1. /\ Len(k.in) = Len(l.in) - 1 /\ Len(l.in) \in Nat /\ Len(l.in) >= 1
      /\ \A i \in 1..(Len(l.in) - 1) : k.in[i] = l.in[i + 1]
  BY <1>0, TailIs
<1>2. ASSUME NEW j \in 1..n, NEW p \in Nat, Spells(l, j, n, b, p)
      PROVE  Spells(k, j - 1, n - 1, b, p)
  <2>1. j \in Nat /\ Len(b) = p + (n - j)
    BY <1>0, <1>2 DEF Spells
  <2>2. ASSUME NEW i \in j..(n - 1)
        PROVE  k.in[i].tag = "value" /\ k.in[i].value = b[p + (i - (j - 1))]
    <3>1. i + 1 \in (j + 1)..n /\ i \in 1..(Len(l.in) - 1) /\ p + ((i + 1) - j) = p + (i - (j - 1))
      <4>1. i \in Int /\ j <= i /\ i <= n - 1 /\ n <= Len(l.in) /\ 1 <= j
        BY <1>0, <1>1, <2>1
      <4>2. i + 1 \in (j + 1)..n
        BY <1>0, <2>1, <4>1
      <4>3. i \in 1..(Len(l.in) - 1)
        BY <1>0, <1>1, <2>1, <4>1
      <4>4. p + ((i + 1) - j) = p + (i - (j - 1))
        BY <2>1, <4>1
      <4> QED
        BY <4>2, <4>3, <4>4
    <3>2. k.in[i] = l.in[i + 1]
      BY <1>1, <3>1
    <3> QED
      BY <1>2, <3>1, <3>2 DEF Spells
  <2>3. Len(b) = p + ((n - 1) - (j - 1)) /\ (j - 1) + 1 = j
    BY <1>0, <2>1
  <2> QED
    BY <2>2, <2>3 DEF Spells
<1>3. ASSUME NEW j \in 1..n, BeginsAt(l, j, n, b) PROVE Ends(k, n - 1, b)
  <2>1. Spells(k, j - 1, n - 1, b, 0)
    BY <1>2, <1>3 DEF BeginsAt
  <2>2. CASE j = 1
    <3>1. k.localBuffer = <<>> /\ Len(<<>>) = 0 /\ j - 1 = 0
      BY <1>3, <2>2 DEF BeginsAt
    <3>2. \A i \in 1..Len(k.localBuffer) : b[i] = k.localBuffer[i]
      BY <3>1
    <3> QED
      BY <2>1, <3>1, <3>2 DEF Ends, Continues
  <2>3. CASE j # 1
    <3>1. j - 1 \in 1..(n - 1) /\ j - 1 \in 1..(Len(l.in) - 1) /\ (j - 1) + 1 = j
      BY <1>0, <1>1, <2>3
    <3>2. k.in[j - 1].tag = "begin"
      BY <1>1, <1>3, <3>1 DEF BeginsAt
    <3> QED
      BY <2>1, <3>1, <3>2 DEF Ends, BeginsAt
  <2> QED
    BY <2>2, <2>3
<1>4. ASSUME Continues(l, n, b) PROVE Ends(k, n - 1, b)
  <2> DEFINE p == Len(l.localBuffer)
  <2>0. p \in Nat /\ Len(b) = p + n
    BY <1>0, <1>4 DEF Continues, Spells
  <2>1. l.in[1].tag = "value" /\ l.in[1].value = b[p + 1]
    <3>1. 1 \in (0 + 1)..n /\ p + (1 - 0) = p + 1
      BY <1>0, <2>0
    <3> QED
      BY <1>4, <3>1 DEF Continues, Spells
  <2>2. k.localBuffer = Append(l.localBuffer, b[p + 1])
    BY <2>1
  <2>3. Len(k.localBuffer) = p + 1 /\ \A i \in 1..(p + 1) : k.localBuffer[i] = b[i]
    BY <1>0, <1>4, <2>2 DEF Continues
  <2>4. Spells(l, 1, n, b, p + 1)
    <3>1. Len(b) = (p + 1) + (n - 1)
      BY <1>0, <2>0
    <3>2. ASSUME NEW i \in (1 + 1)..n
          PROVE  l.in[i].tag = "value" /\ l.in[i].value = b[(p + 1) + (i - 1)]
      <4>1. i \in (0 + 1)..n /\ (p + 1) + (i - 1) = p + (i - 0)
        BY <1>0, <2>0
      <4> QED
        BY <1>4, <4>1 DEF Continues, Spells
    <3> QED
      BY <3>1, <3>2 DEF Spells
  <2>5. 1 \in 1..n /\ p + 1 \in Nat /\ 1 - 1 = 0
    BY <1>0, <2>0
  <2>6. Spells(k, 0, n - 1, b, p + 1)
    BY <1>2, <2>4, <2>5
  <2> QED
    BY <2>3, <2>6 DEF Ends, Continues
<1> QED
  BY <1>3, <1>4 DEF Ends

-----------------------------------------------------------------------------
(* The handler of a connection *)

\* Reading the begin or a value of an exchange, the rest of which is on its way.
LEMMA HandlerReads ==
    ASSUME NEW l \in LinkRecord, NEW k \in LinkRecord, NEW sent, NEW b \in Seq(Message),
           NEW ph \in Phase, NEW entered, sent \subseteq Seq(Message),
           l.pc = "loop", l.in # <<>>, k.in = Tail(l.in), k.pc = "loop", k.out = l.out,
           \/ l.in[1].tag = "begin" /\ k.localBuffer = <<>>
           \/ l.in[1].tag = "value" /\ k.localBuffer = Append(l.localBuffer, l.in[1].value)
    PROVE  /\ LinkOK(l, sent) => LinkOK(k, sent)
           /\ CurrentOK(l, ph, b, entered) => CurrentOK(k, ph, b, entered)
<1> DEFINE n == Len(l.in)
<1>1. /\ n \in Nat /\ n >= 1 /\ Len(k.in) = n - 1
      /\ \A i \in 1..(n - 1) : k.in[i] = l.in[i + 1]
  BY TailIs DEF LinkRecord
<1>2. \A c \in Seq(Message) : Ends(l, n, c) => Ends(k, n - 1, c)
  <2>1. n \in 1..Len(l.in)
    BY <1>1
  <2> QED
    BY <2>1, ReadHead
<1>3. \A c \in Seq(Message) : n # 1 /\ Ends(l, n - 1, c) => Ends(k, (n - 1) - 1, c)
  <2>1. n # 1 => n - 1 \in 1..Len(l.in)
    BY <1>1, Before
  <2> QED
    BY <2>1, ReadHead
<1>4. k.in # <<>> => LastTag(k) = LastTag(l)
  <2>1. k.in # <<>> => Len(k.in) # 0
    <3>1. k.in \in Seq(Record)
      BY DEF LinkRecord
    <3>2. \A q \in Seq(Record) : Len(q) = 0 => q = <<>>
      OBVIOUS
    <3> QED
      BY <3>1, <3>2, Zenon
  <2>2. n # 1 => n - 1 \in 1..(n - 1) /\ (n - 1) + 1 = n
    BY <1>1, Before
  <2> QED
    BY <1>1, <2>1, <2>2 DEF LastTag
<1>5. LastTag(l) \notin {"begin", "value"} => n # 1 /\ k.in # <<>>
  <2>1. n # 1 => Len(k.in) # 0
    BY <1>1
  <2> QED
    BY <2>1 DEF LastTag
<1>6. ASSUME LinkOK(l, sent) PROVE LinkOK(k, sent)
  <2>1. ASSUME NEW i \in 1..Len(k.in), k.in[i].tag \in {"preCommit", "commit"} PROVE i = Len(k.in)
    <3>1. i \in 1..(n - 1) /\ i + 1 \in 1..Len(l.in)
      BY <1>1
    <3>2. i + 1 = n
      BY <1>1, <1>6, <2>1, <3>1 DEF LinkOK
    <3> QED
      BY <1>1, <3>2
  <2>2. ASSUME k.in # <<>>, LastTag(k) = "commit"
        PROVE  \E c \in sent : Ends(k, Len(k.in) - 1, c)
    <3>1. PICK c \in sent : Ends(l, n - 1, c)
      BY <1>4, <1>6, <2>2 DEF LinkOK
    <3>2. Ends(k, (n - 1) - 1, c)
      BY <1>3, <1>4, <1>5, <2>2, <3>1
    <3> QED
      BY <1>1, <3>2
  <2> QED
    BY <2>1, <2>2 DEF LinkOK
<1>7. ASSUME CurrentOK(l, ph, b, entered) PROVE CurrentOK(k, ph, b, entered)
  <2>1. ph # "ready"
    BY <1>7 DEF CurrentOK
  <2>2. ph = "idle" => k.out = <<>> /\ Uncommitted(k)
    BY <1>4, <1>7 DEF CurrentOK, Uncommitted
  <2>3. ph = "open" => k.out = <<>> /\ Uncommitted(k) /\ Ends(k, Len(k.in), b)
    BY <1>1, <1>2, <1>4, <1>7 DEF CurrentOK, Uncommitted
  <2>4. ph = "preCommit" =>
          k.in # <<>> /\ LastTag(k) = "preCommit" /\ k.out = <<>> /\ Ends(k, Len(k.in) - 1, b)
    BY <1>1, <1>3, <1>4, <1>5, <1>7 DEF CurrentOK
  <2>5. ph = "commitWait" =>
          k.in # <<>> /\ LastTag(k) = "commit" /\ k.out = <<>> /\ Ends(k, Len(k.in) - 1, b)
    BY <1>1, <1>3, <1>4, <1>5, <1>7 DEF CurrentOK
  <2> QED
    BY <2>1, <2>2, <2>3, <2>4, <2>5 DEF CurrentOK
<1> QED
  BY <1>6, <1>7

\* A handler that is gone, with the records that it has not read.
LEMMA HandlerDies ==
    ASSUME NEW l \in LinkRecord, NEW k \in LinkRecord, NEW sent, NEW b, NEW ph, NEW entered,
           l.pc = "loop", k.pc = "dead",
           \/ k.in = <<>> /\ k.out = <<>>
           \/ l.in # <<>> /\ k.in = Tail(l.in) /\ k.out = l.out
    PROVE  /\ LinkOK(l, sent) => LinkOK(k, sent)
           /\ CurrentOK(l, ph, b, entered) => CurrentOK(k, ph, b, entered)
<1>1. CASE k.in = <<>> /\ k.out = <<>>
  BY <1>1 DEF LinkOK, CurrentOK, Uncommitted
<1>2. CASE l.in # <<>> /\ k.in = Tail(l.in) /\ k.out = l.out
  <2> DEFINE n == Len(l.in)
  <2>1. /\ n \in Nat /\ n >= 1 /\ Len(k.in) = n - 1
        /\ \A i \in 1..(n - 1) : k.in[i] = l.in[i + 1]
    BY <1>2, TailIs DEF LinkRecord
  <2>2. k.in # <<>> => LastTag(k) = LastTag(l)
    <3>1. k.in # <<>> => Len(k.in) # 0
      BY DEF LinkRecord
    <3>2. n # 1 => n - 1 \in 1..(n - 1) /\ (n - 1) + 1 = n
      BY <2>1, Before
    <3> QED
      BY <2>1, <3>1, <3>2 DEF LastTag
  <2>3. ASSUME LinkOK(l, sent), NEW i \in 1..Len(k.in), k.in[i].tag \in {"preCommit", "commit"}
        PROVE  i = Len(k.in)
    <3>1. i \in 1..(n - 1) /\ i + 1 \in 1..Len(l.in)
      BY <2>1
    <3>2. i + 1 = n
      BY <2>1, <2>3, <3>1 DEF LinkOK
    <3> QED
      BY <2>1, <3>2
  <2> QED
    BY <1>2, <2>2, <2>3 DEF LinkOK, CurrentOK, Uncommitted
<1> QED
  BY <1>1, <1>2

\* Reading the PreCommit of an exchange, and answering it or not.
LEMMA HandlerAnswers ==
    ASSUME NEW l \in LinkRecord, NEW k \in LinkRecord, NEW sent, NEW b \in Seq(Message),
           NEW ph, NEW entered,
           l.pc = "loop", l.in # <<>>, l.in[1].tag = "preCommit",
           k.in = Tail(l.in), k.pc = "loop", k.localBuffer = l.localBuffer,
           k.out = l.out \/ k.out = Append(l.out, "preCommit"),
           LinkOK(l, sent)
    PROVE  /\ LinkOK(k, sent)
           /\ CurrentOK(l, ph, b, entered) => CurrentOK(k, ph, b, entered)
<1>1. Len(l.in) = 1 /\ LastTag(l) = "preCommit"
  <2>1. 1 \in 1..Len(l.in)
    BY DEF LinkRecord
  <2> QED
    BY <2>1 DEF LinkOK, LastTag
<1>2. k.in = <<>>
  BY <1>1 DEF LinkRecord
<1>3. LinkOK(k, sent)
  BY <1>2 DEF LinkOK
<1>4. ASSUME CurrentOK(l, ph, b, entered) PROVE CurrentOK(k, ph, b, entered)
  <2>1. ph \notin {"idle", "open", "ready", "commitWait"}
    BY <1>1, <1>4 DEF CurrentOK, Uncommitted
  <2>2. ph = "preCommit" => l.out = <<>> /\ Ends(l, 0, b)
    BY <1>1, <1>4 DEF CurrentOK
  <2>3. Len(Append(<<>>, "preCommit")) = 1 /\ Len(<<>>) = 0
    OBVIOUS
  <2>4. ph = "preCommit" => l.localBuffer = b /\ Len(k.out) <= 1
    BY <2>2, <2>3, EndsHere
  <2> QED
    BY <1>2, <2>1, <2>4 DEF CurrentOK
<1> QED
  BY <1>3, <1>4

\* Reading the commit record of an exchange: the batch is one that was committed.
LEMMA HandlerCommits ==
    ASSUME NEW l \in LinkRecord, NEW k \in LinkRecord, NEW sent \in SUBSET Seq(Message),
           NEW b \in Seq(Message), NEW ph, NEW entered,
           l.pc = "loop", l.in # <<>>, l.in[1].tag = "commit",
           k.in = Tail(l.in), k.pc = "enqueue", k.localBuffer = l.localBuffer,
           k.out = Append(l.out, "commit"), LinkOK(l, sent)
    PROVE  /\ LinkOK(k, sent)
           /\ CurrentOK(l, ph, b, entered) => CurrentOK(k, ph, b, entered)
<1>1. Len(l.in) = 1 /\ LastTag(l) = "commit"
  <2>1. 1 \in 1..Len(l.in)
    BY DEF LinkRecord
  <2> QED
    BY <2>1 DEF LinkOK, LastTag
<1>2. k.in = <<>>
  BY <1>1, SMTT(30) DEF LinkRecord
<1>3. LinkOK(k, sent)
  <2>1. PICK c \in sent : Ends(l, 0, c)
    BY <1>1 DEF LinkOK
  <2>2. l.localBuffer = c
    BY <2>1, EndsHere
  <2> QED
    BY <1>2, <2>2 DEF LinkOK
<1>4. ASSUME CurrentOK(l, ph, b, entered) PROVE CurrentOK(k, ph, b, entered)
  <2>1. ph \notin {"idle", "open", "ready", "preCommit"}
    BY <1>1, <1>4 DEF CurrentOK, Uncommitted
  <2>2. ph = "commitWait" => l.out = <<>> /\ Ends(l, 0, b)
    BY <1>1, <1>4 DEF CurrentOK
  <2>3. Len(Append(<<>>, "commit")) = 1
    OBVIOUS
  <2>4. ph = "commitWait" => l.localBuffer = b /\ Len(k.out) = 1
    BY <2>2, <2>3, EndsHere
  <2> QED
    BY <1>2, <2>1, <2>4 DEF CurrentOK
<1> QED
  BY <1>3, <1>4

\* The batch has entered the channel; the handler goes on with the next exchange.
LEMMA HandlerGoesOn ==
    ASSUME NEW l \in LinkRecord, NEW k \in LinkRecord, NEW sent, NEW b, NEW ph,
           NEW entered, NEW after, entered \subseteq after,
           l.pc = "enqueue", k.pc = "loop", k.in = l.in, k.out = l.out,
           l.localBuffer \in after, LinkOK(l, sent)
    PROVE  /\ LinkOK(k, sent)
           /\ CurrentOK(l, ph, b, entered) => CurrentOK(k, ph, b, after)
<1>1. \A n, c : Ends(l, n, c) => Ends(k, n, c)
  BY DEF Ends, Continues, BeginsAt, Spells
<1> QED
  BY <1>1 DEF LinkOK, CurrentOK, LastTag, Uncommitted

-----------------------------------------------------------------------------
(* The steps of the handlers *)

\* A step concerns one sender.
LEMMA OtherSenders ==
    ASSUME SendersInv, NEW s \in Sender, SenderInv(s)',
           \A t \in Sender : t # s =>
              /\ phase'[t] = phase[t] /\ conn'[t] = conn[t] /\ dialled'[t] = dialled[t]
              /\ resendBuffer'[t] = resendBuffer[t] /\ link'[t] = link[t]
              /\ committed'[t] = committed[t] /\ delivered'[t] = delivered[t]
    PROVE  SendersInv'
<1> SUFFICES ASSUME NEW t \in Sender, t # s PROVE SenderInv(t)'
  BY DEF SendersInv
<1>1. SenderInv(t)
  BY DEF SendersInv
<1>2. PhaseOK(t)' /\ Kept(t)'
  BY <1>1 DEF SenderInv, PhaseOK, Kept
<1> QED
  BY <1>1, <1>2 DEF SenderInv

\* One link changes.
LEMMA OneLink ==
    ASSUME MailboxTypes, NEW s \in Sender, NEW c \in Conn, NEW k \in LinkRecord,
           link' = [link EXCEPT ![s][c] = k]
    PROVE  /\ link' \in [Sender -> [Conn -> LinkRecord]]
           /\ link'[s][c] = k
           /\ \A d \in Conn : d # c => link'[s][d] = link[s][d]
           /\ \A t \in Sender : t # s => link'[t] = link[t]
  BY DEF MailboxTypes

\* A step of a handler that has not acknowledged a commit.
LEMMA HandlerStepKeeps ==
    ASSUME MailboxTypes, SendersInv, NEW s \in Sender, NEW c \in Conn, NEW k \in LinkRecord,
           link' = [link EXCEPT ![s][c] = k], UNCHANGED <<remotes, history>>,
           link[s][c].pc = "loop",
           LinkOK(k, ToSet(committed[s])),
           c = conn[s] /\ CurrentOK(link[s][c], phase[s], resendBuffer[s], ToSet(delivered[s]))
             => CurrentOK(k, phase[s], resendBuffer[s], ToSet(delivered[s]))
    PROVE  MailboxTypes' /\ SendersInv'
<1>1. /\ phase' = phase /\ conn' = conn /\ dialled' = dialled /\ resendBuffer' = resendBuffer
      /\ committed' = committed /\ delivered' = delivered
  BY DEF remotes, history
<1>2. MailboxTypes'
  BY <1>1, OneLink DEF MailboxTypes
<1>3. SenderInv(s)'
  <2>1. SenderInv(s)
    BY DEF SendersInv
  <2>2. c \in 1..dialled[s] \/ link[s][c] = NoLink
    BY <2>1 DEF SenderInv, Conn
  <2>3. ~(c > dialled[s])
    BY <2>1, <2>2 DEF SenderInv, NoLink
  <2>4. \A d \in Conn : d > dialled'[s] => link'[s][d] = NoLink
    BY <1>1, <2>1, <2>3, OneLink DEF SenderInv
  <2>5. \A d \in Conn : LinkOK(link'[s][d], ToSet(committed'[s]))
    BY <1>1, <2>1, OneLink DEF SenderInv
  <2>6. conn'[s] # 0 =>
          CurrentOK(link'[s][conn'[s]], phase'[s], resendBuffer'[s], ToSet(delivered'[s]))
    <3>1. conn[s] # 0 => conn[s] \in Conn
      BY <2>1, BoundAssumption DEF SenderInv, Conn, MailboxTypes
    <3> QED
      BY <1>1, <2>1, <3>1, OneLink DEF SenderInv
  <2>7. Kept(s)'
    <3>1. \A d \in Conn : link[s][d].pc = "enqueue" => link'[s][d] = link[s][d]
      BY OneLink
    <3> QED
      BY <1>1, <2>1, <3>1 DEF SenderInv, Kept
  <2> QED
    BY <1>1, <2>1, <2>4, <2>5, <2>6, <2>7 DEF SenderInv, PhaseOK
<1>4. SendersInv'
  BY <1>1, <1>3, OtherSenders, OneLink
<1> QED
  BY <1>2, <1>4

\* The batches that were committed are batches.
LEMMA BatchesSent ==
    ASSUME MailboxTypes, NEW s \in Sender
    PROVE  ToSet(committed[s]) \subseteq Seq(Message)
<1>1. committed[s] \in Seq(Seq(Message))
  BY DEF MailboxTypes
<1> QED
  BY <1>1 DEF ToSet

\* A connection that is not open yet, and one off which a record was taken.
LEMMA NoLinkIs ==
    NoLink \in LinkRecord /\ NoLink.in = <<>> /\ NoLink.out = <<>> /\ NoLink.pc = "dead"
  BY DEF NoLink, LinkRecord

\* What ReadLink returns.
LEMMA ReadLinkIs ==
    ASSUME MailboxTypes, NEW s \in Sender, NEW c \in Conn, link[s][c].in # <<>>
    PROVE  LET l == link[s][c]
               k == ReadLink(s, c)
           IN  /\ k \in LinkRecord /\ k.in = Tail(l.in) /\ k.pc = l.pc /\ k.out = l.out
               /\ k.localBuffer = l.localBuffer
<1> DEFINE l == link[s][c]
<1>1. l \in LinkRecord
  BY DEF MailboxTypes
<1>2. Tail(l.in) \in Seq(Record)
  BY <1>1 DEF LinkRecord
<1> QED
  BY <1>1, <1>2 DEF ReadLink, LinkRecord

\* The handlers keep the invariant, short of passing a batch on.
LEMMA HandlerKeeps ==
    ASSUME MailboxTypes, SendersInv, NEW s \in Sender, NEW c \in Conn,
           \/ HandleBegin(s, c) \/ HandleValue(s, c) \/ HandlePreCommit(s, c)
           \/ HandleCommit(s, c) \/ HandlerReturns(s, c)
    PROVE  MailboxTypes' /\ SendersInv'
<1> DEFINE l == link[s][c]
<1> DEFINE sent == ToSet(committed[s])
<1>1. /\ l \in LinkRecord /\ LinkOK(l, sent) /\ sent \subseteq Seq(Message)
      /\ resendBuffer[s] \in Seq(Message) /\ phase[s] \in Phase
  BY BatchesSent DEF MailboxTypes, SendersInv, SenderInv
<1>2. /\ l.in \in Seq(Record) /\ l.out \in Seq(Answer) /\ l.localBuffer \in Seq(Message)
      /\ Append(l.out, "preCommit") \in Seq(Answer) /\ Append(l.out, "commit") \in Seq(Answer)
      /\ <<>> \in Seq(Message)
      /\ \A m \in Message : Append(l.localBuffer, m) \in Seq(Message)
  BY <1>1 DEF LinkRecord, Answer
<1>3. l.in # <<>> => /\ Tail(l.in) \in Seq(Record) /\ Head(l.in) = l.in[1] /\ l.in[1] \in Record
  BY <1>2
<1>4. CASE HandleBegin(s, c)
  <2> DEFINE k == [ReadLink(s, c) EXCEPT !.localBuffer = <<>>, !.hasBegun = TRUE]
  <2>1. /\ l.pc = "loop" /\ l.in # <<>> /\ l.in[1].tag = "begin"
        /\ link' = [link EXCEPT ![s][c] = k] /\ UNCHANGED <<remotes, history>>
    BY <1>3, <1>4 DEF HandleBegin, Reads
  <2>2. /\ k \in LinkRecord /\ k.in = Tail(l.in) /\ k.pc = "loop" /\ k.out = l.out
        /\ k.localBuffer = <<>>
    BY <1>1, <1>2, <1>3, <2>1, ReadLinkIs DEF LinkRecord
  <2> HIDE DEF k
  <2> QED
    BY <1>1, <2>1, <2>2, HandlerReads, HandlerStepKeeps
<1>5. CASE HandleValue(s, c)
  <2>1. l.pc = "loop" /\ l.in # <<>> /\ l.in[1].tag = "value" /\ UNCHANGED <<remotes, history>>
    BY <1>3, <1>5 DEF HandleValue, Reads
  <2>2. l.in[1].value \in Message
    BY <1>3, <2>1 DEF Record
  <2>3. CASE closing = "open"
    <3> DEFINE k == [ReadLink(s, c) EXCEPT !.localBuffer = Append(@, Head(l.in).value)]
    <3>1. link' = [link EXCEPT ![s][c] = k]
      BY <1>5, <2>3 DEF HandleValue
    <3>2. /\ k \in LinkRecord /\ k.in = Tail(l.in) /\ k.pc = "loop" /\ k.out = l.out
          /\ k.localBuffer = Append(l.localBuffer, l.in[1].value)
      BY <1>1, <1>2, <1>3, <2>1, <2>2, ReadLinkIs DEF LinkRecord
    <3> HIDE DEF k
    <3> QED
      BY <1>1, <2>1, <3>1, <3>2, HandlerReads, HandlerStepKeeps
  <2>4. CASE closing # "open"
    <3> DEFINE k == [ReadLink(s, c) EXCEPT !.pc = "dead"]
    <3>1. link' = [link EXCEPT ![s][c] = k]
      BY <1>5, <2>4 DEF HandleValue
    <3>2. /\ k \in LinkRecord /\ k.in = Tail(l.in) /\ k.pc = "dead" /\ k.out = l.out
      BY <1>1, <1>2, <1>3, <2>1, ReadLinkIs DEF LinkRecord
    <3> HIDE DEF k
    <3> QED
      BY <1>1, <2>1, <3>1, <3>2, HandlerDies, HandlerStepKeeps
  <2> QED
    BY <2>3, <2>4
<1>6. CASE HandlePreCommit(s, c)
  <2> DEFINE k == IF closing = "open" THEN [ReadLink(s, c) EXCEPT !.out = Append(@, "preCommit")]
                  ELSE ReadLink(s, c)
  <2>1. /\ l.pc = "loop" /\ l.in # <<>> /\ l.in[1].tag = "preCommit"
        /\ link' = [link EXCEPT ![s][c] = k] /\ UNCHANGED <<remotes, history>>
    BY <1>3, <1>6 DEF HandlePreCommit, Reads
  <2>2. /\ k \in LinkRecord /\ k.in = Tail(l.in) /\ k.pc = "loop" /\ k.localBuffer = l.localBuffer
        /\ k.out = l.out \/ k.out = Append(l.out, "preCommit")
    BY <1>1, <1>2, <1>3, <2>1, ReadLinkIs DEF LinkRecord
  <2> HIDE DEF k
  <2> QED
    BY <1>1, <2>1, <2>2, HandlerAnswers, HandlerStepKeeps
<1>7. CASE HandleCommit(s, c)
  <2> DEFINE k == [ReadLink(s, c) EXCEPT !.out = Append(@, "commit"), !.pc = "enqueue"]
  <2>1. /\ l.pc = "loop" /\ l.in # <<>> /\ l.in[1].tag = "commit"
        /\ link' = [link EXCEPT ![s][c] = k] /\ UNCHANGED <<remotes, history>>
    BY <1>3, <1>7 DEF HandleCommit, Reads
  <2>2. /\ k \in LinkRecord /\ k.in = Tail(l.in) /\ k.pc = "enqueue" /\ k.localBuffer = l.localBuffer
        /\ k.out = Append(l.out, "commit")
    BY <1>1, <1>2, <1>3, <2>1, ReadLinkIs DEF LinkRecord
  <2> HIDE DEF k
  <2> QED
    BY <1>1, <2>1, <2>2, HandlerCommits, HandlerStepKeeps
<1>8. CASE HandlerReturns(s, c)
  <2> DEFINE k == [NoLink EXCEPT !.open = l.open]
  <2>1. /\ l.pc = "loop" /\ link' = [link EXCEPT ![s][c] = k] /\ UNCHANGED <<remotes, history>>
    BY <1>8 DEF HandlerReturns
  <2>2. k \in LinkRecord /\ k.in = <<>> /\ k.out = <<>> /\ k.pc = "dead"
    BY <1>1, NoLinkIs DEF LinkRecord
  <2> HIDE DEF k
  <2> QED
    BY <1>1, <2>1, <2>2, HandlerDies, HandlerStepKeeps
<1> QED
  BY <1>4, <1>5, <1>6, <1>7, <1>8

\* The batch that a handler has acknowledged enters the channel.
LEMMA EnqueueKeeps ==
    ASSUME MailboxTypes, SendersInv, NEW s \in Sender, NEW c \in Conn, HandlerEnqueues(s, c)
    PROVE  MailboxTypes' /\ SendersInv'
<1> DEFINE l == link[s][c]
<1> DEFINE k == [l EXCEPT !.pc = "loop", !.localBuffer = <<>>, !.hasBegun = FALSE]
<1> DEFINE batch == l.localBuffer
<1>1. /\ l \in LinkRecord /\ LinkOK(l, ToSet(committed[s])) /\ SenderInv(s)
      /\ delivered[s] \in Seq(Seq(Message))
  BY DEF MailboxTypes, SendersInv, SenderInv
<1>2. l.pc = "enqueue" /\ link' = [link EXCEPT ![s][c] = k]
  BY <1>1 DEF HandlerEnqueues
<1>3. /\ phase' = phase /\ conn' = conn /\ dialled' = dialled /\ resendBuffer' = resendBuffer
      /\ committed' = committed
  BY DEF HandlerEnqueues, remotes
<1>4. batch \in ToSet(committed[s]) /\ batch # <<>> /\ batch \in Seq(Message)
  BY <1>1, <1>2 DEF LinkOK, SenderInv, ToSet, LinkRecord
<1>5. delivered' = [delivered EXCEPT ![s] = Append(delivered[s], batch)]
  BY <1>4 DEF HandlerEnqueues
<1>6. ToSet(delivered'[s]) = ToSet(delivered[s]) \cup {batch}
  BY <1>1, <1>4, <1>5, ToSetAppend DEF MailboxTypes
<1>7. k \in LinkRecord /\ k.pc = "loop" /\ k.in = l.in /\ k.out = l.out
  <2>1. <<>> \in Seq(Message)
    OBVIOUS
  <2> QED
    BY <1>1, <2>1 DEF LinkRecord
<1>8. delivered' \in [Sender -> Seq(Seq(Message))]
  BY <1>1, <1>4, <1>5 DEF MailboxTypes
<1>9. MailboxTypes'
  BY <1>2, <1>3, <1>7, <1>8, OneLink DEF MailboxTypes
<1> HIDE DEF k
<1>10. /\ LinkOK(k, ToSet(committed[s]))
       /\ CurrentOK(l, phase[s], resendBuffer[s], ToSet(delivered[s]))
            => CurrentOK(k, phase[s], resendBuffer[s], ToSet(delivered'[s]))
  <2>1. ToSet(delivered[s]) \subseteq ToSet(delivered'[s]) /\ batch \in ToSet(delivered'[s])
    BY <1>6
  <2> QED
    BY <1>1, <1>2, <1>7, <2>1, HandlerGoesOn
<1>12. SenderInv(s)'
  <2>1. ~(c > dialled[s])
    BY <1>1, <1>2 DEF SenderInv, NoLink
  <2>2. \A d \in Conn : d > dialled'[s] => link'[s][d] = NoLink
    BY <1>1, <1>2, <1>3, <1>7, <2>1, OneLink DEF SenderInv
  <2>3. \A d \in Conn : LinkOK(link'[s][d], ToSet(committed'[s]))
    BY <1>1, <1>2, <1>3, <1>7, <1>10, OneLink DEF SenderInv
  <2>4. \A d \in Conn : CurrentOK(link[s][d], phase[s], resendBuffer[s], ToSet(delivered[s])) =>
                        CurrentOK(link'[s][d], phase[s], resendBuffer[s], ToSet(delivered'[s]))
    <3>1. \A r, ph, b : CurrentOK(r, ph, b, ToSet(delivered[s])) =>
                        CurrentOK(r, ph, b, ToSet(delivered'[s]))
      BY <1>6 DEF CurrentOK
    <3> QED
      BY <1>2, <1>7, <1>10, <3>1, OneLink
  <2>5. conn'[s] # 0 =>
          CurrentOK(link'[s][conn'[s]], phase'[s], resendBuffer'[s], ToSet(delivered'[s]))
    <3>1. conn[s] # 0 => conn[s] \in Conn
      BY <1>1, BoundAssumption DEF SenderInv, Conn, MailboxTypes
    <3> QED
      BY <1>1, <1>3, <2>4, <3>1 DEF SenderInv
  <2>6. Kept(s)'
    <3>1. \A d \in Conn : d # c => link'[s][d] = link[s][d]
      BY <1>2, <1>7, OneLink
    <3> QED
      BY <1>1, <1>3, <1>6, <3>1 DEF SenderInv, Kept
  <2> QED
    BY <1>1, <1>3, <1>4, <1>6, <2>2, <2>3, <2>5, <2>6 DEF SenderInv, PhaseOK
<1>13. \A t \in Sender : t # s => delivered'[t] = delivered[t]
  BY <1>5 DEF MailboxTypes
<1>14. SendersInv'
  BY <1>2, <1>3, <1>7, <1>12, <1>13, OtherSenders, OneLink
<1> QED
  BY <1>9, <1>14

\* Steps of the local end, and none.
LEMMA LocalKeeps ==
    ASSUME MailboxTypes, SendersInv, UNCHANGED <<remotes, link, history>>
    PROVE  MailboxTypes' /\ SendersInv'
<1>1. /\ phase' = phase /\ conn' = conn /\ dialled' = dialled /\ resendBuffer' = resendBuffer
      /\ committed' = committed /\ delivered' = delivered /\ link' = link
  BY DEF remotes, history
<1>2. ASSUME NEW s \in Sender PROVE SenderInv(s)'
  <2>1. SenderInv(s)
    BY DEF SendersInv
  <2>2. PhaseOK(s)' /\ Kept(s)'
    BY <1>1, <2>1 DEF SenderInv, PhaseOK, Kept
  <2> QED
    BY <1>1, <2>1, <2>2 DEF SenderInv
<1> QED
  BY <1>1, <1>2 DEF SendersInv, MailboxTypes

-----------------------------------------------------------------------------
(* The steps of the remote ends *)

\* A step of a sender, in parts.
LEMMA RemoteKeeps ==
    ASSUME MailboxTypes, SendersInv, NEW s \in Sender,
           NEW ph \in Phase, NEW cn, NEW d, NEW b \in Seq(Message), NEW q \in Seq(Seq(Message)),
           phase' = [phase EXCEPT ![s] = ph], conn' = [conn EXCEPT ![s] = cn],
           dialled' = [dialled EXCEPT ![s] = d], resendBuffer' = [resendBuffer EXCEPT ![s] = b],
           committed' = [committed EXCEPT ![s] = q], delivered' = delivered,
           link' \in [Sender -> [Conn -> LinkRecord]],
           \A t \in Sender : t # s => link'[t] = link[t],
           d \in 0..(2 * MaxFaults + 1), cn \in 0..d,
           \A c \in Conn : c > d => link'[s][c] = NoLink,
           \A c \in Conn : LinkOK(link'[s][c], ToSet(q)),
           PhaseOK(s)', cn # 0 => CurrentOK(link'[s][cn], ph, b, ToSet(delivered[s])),
           Kept(s)', ToSet(delivered[s]) \subseteq ToSet(q), \A i \in DOMAIN q : q[i] # <<>>
    PROVE  MailboxTypes' /\ SendersInv'
<1>1. /\ phase'[s] = ph /\ conn'[s] = cn /\ dialled'[s] = d /\ resendBuffer'[s] = b
      /\ committed'[s] = q
      /\ \A t \in Sender : t # s =>
            /\ phase'[t] = phase[t] /\ conn'[t] = conn[t] /\ dialled'[t] = dialled[t]
            /\ resendBuffer'[t] = resendBuffer[t] /\ committed'[t] = committed[t]
  BY DEF MailboxTypes
<1>2. MailboxTypes'
  <2>1. d \in Nat /\ cn \in Nat
    BY BoundAssumption
  <2> QED
    BY <2>1 DEF MailboxTypes
<1>3. SenderInv(s)'
  BY <1>1 DEF SenderInv
<1> QED
  BY <1>1, <1>2, <1>3, OtherSenders

\* A committed batch stays where it is.
LEMMA KeptStays ==
    ASSUME NEW s \in Sender, Kept(s), committed'[s] = committed[s], delivered' = delivered,
           \A c \in Conn : link[s][c].pc = "enqueue" =>
              link'[s][c].pc = "enqueue" /\ link'[s][c].localBuffer = link[s][c].localBuffer,
           phase'[s] \in Committing \/ phase[s] \notin Committing
    PROVE  Kept(s)'
  BY DEF Kept

\* The streams of a connection tell what LinkOK says.
LEMMA LinkSame ==
    \A l, k, sent : k.in = l.in /\ k.pc = l.pc /\ k.localBuffer = l.localBuffer /\ LinkOK(l, sent)
                      => LinkOK(k, sent)
<1> SUFFICES ASSUME NEW l, NEW k, NEW sent, k.in = l.in, k.pc = l.pc,
                    k.localBuffer = l.localBuffer, LinkOK(l, sent)
             PROVE  LinkOK(k, sent)
  OBVIOUS
<1>1. \A n, b : Ends(l, n, b) => Ends(k, n, b)
  BY DEF Ends, BeginsAt, Continues, Spells
<1> QED
  BY <1>1 DEF LinkOK, LastTag

\* The connection of a sender, and its other ones.
LEMMA OwnLink ==
    ASSUME MailboxTypes, SendersInv, NEW s \in Sender
    PROVE  /\ SenderInv(s) /\ PhaseOK(s) /\ Kept(s)
           /\ conn[s] # 0 => /\ conn[s] \in Conn /\ link[s][conn[s]] \in LinkRecord
                             /\ LinkOK(link[s][conn[s]], ToSet(committed[s]))
                             /\ CurrentOK(link[s][conn[s]], phase[s], resendBuffer[s],
                                          ToSet(delivered[s]))
           /\ resendBuffer[s] \in Seq(Message) /\ committed[s] \in Seq(Seq(Message))
           /\ phase[s] \in Phase
           /\ phase = [phase EXCEPT ![s] = phase[s]] /\ conn = [conn EXCEPT ![s] = conn[s]]
           /\ dialled = [dialled EXCEPT ![s] = dialled[s]]
           /\ resendBuffer = [resendBuffer EXCEPT ![s] = resendBuffer[s]]
           /\ committed = [committed EXCEPT ![s] = committed[s]]
<1>1. SenderInv(s)
  BY DEF SendersInv
<1>2. conn[s] # 0 => conn[s] \in Conn
  BY <1>1, BoundAssumption DEF SenderInv, Conn, MailboxTypes
<1>3. /\ phase = [phase EXCEPT ![s] = phase[s]] /\ conn = [conn EXCEPT ![s] = conn[s]]
      /\ dialled = [dialled EXCEPT ![s] = dialled[s]]
      /\ resendBuffer = [resendBuffer EXCEPT ![s] = resendBuffer[s]]
      /\ committed = [committed EXCEPT ![s] = committed[s]]
  BY DEF MailboxTypes
<1> QED
  BY <1>1, <1>2, <1>3 DEF SenderInv, MailboxTypes

\* A step that changes the link in use, but not what its handler does.
LEMMA LinkStep ==
    ASSUME MailboxTypes, SendersInv, NEW s \in Sender, NEW c \in Conn, NEW k \in LinkRecord,
           link' = [link EXCEPT ![s][c] = k], c = conn[s],
           k.pc = link[s][c].pc, k.localBuffer = link[s][c].localBuffer
    PROVE  /\ link' \in [Sender -> [Conn -> LinkRecord]] /\ link'[s][c] = k
           /\ \A t \in Sender : t # s => link'[t] = link[t]
           /\ \A d \in Conn : d # c => link'[s][d] = link[s][d]
           /\ \A d \in Conn : d > dialled[s] => link'[s][d] = NoLink
           /\ \A d \in Conn : link[s][d].pc = "enqueue" =>
                link'[s][d].pc = "enqueue" /\ link'[s][d].localBuffer = link[s][d].localBuffer
           /\ \A sent : LinkOK(k, sent) /\ (\A d \in Conn : LinkOK(link[s][d], sent)) =>
                \A d \in Conn : LinkOK(link'[s][d], sent)
<1>1. /\ link' \in [Sender -> [Conn -> LinkRecord]] /\ link'[s][c] = k
      /\ \A t \in Sender : t # s => link'[t] = link[t]
      /\ \A d \in Conn : d # c => link'[s][d] = link[s][d]
  BY OneLink, ZenonT(60)
<1>2. ~(c > dialled[s])
  BY BoundAssumption DEF SendersInv, SenderInv, MailboxTypes
<1>3. \A d \in Conn : d > dialled[s] => link'[s][d] = NoLink
  BY <1>1, <1>2 DEF SendersInv, SenderInv
<1> QED
  BY <1>1, <1>3

\* An end that gives its connection up.
LEMMA GivesUp ==
    ASSUME MailboxTypes, SendersInv, NEW s \in Sender, conn[s] # 0, NEW ph \in Phase,
           phase' = [phase EXCEPT ![s] = ph], Disconnect(s),
           UNCHANGED <<dialled, resendBuffer, committed, delivered>>,
           PhaseOK(s)', ph \in Committing \/ phase[s] \notin Committing
    PROVE  MailboxTypes' /\ SendersInv'
<1> DEFINE c == conn[s]
<1> DEFINE k == [link[s][c] EXCEPT !.open = FALSE]
<1>1. c \in Conn /\ link[s][c] \in LinkRecord /\ SenderInv(s) /\ Kept(s)
  BY OwnLink
<1>2. /\ k \in LinkRecord /\ k.pc = link[s][c].pc /\ k.localBuffer = link[s][c].localBuffer
      /\ k.in = link[s][c].in
  BY <1>1 DEF LinkRecord
<1>3. link' = [link EXCEPT ![s][c] = k] /\ conn' = [conn EXCEPT ![s] = 0]
  BY <1>1 DEF Disconnect, MailboxTypes
<1> HIDE DEF k
<1>4. LinkOK(k, ToSet(committed[s]))
  BY <1>1, <1>2, LinkSame DEF SenderInv
<1>5. \A d \in Conn : LinkOK(link'[s][d], ToSet(committed[s]))
  BY <1>1, <1>2, <1>3, <1>4, LinkStep DEF SenderInv
<1>6. Kept(s)'
  <2>1. committed'[s] = committed[s] /\ delivered' = delivered
    OBVIOUS
  <2>2. phase'[s] = ph
    BY DEF MailboxTypes
  <2> QED
    BY <1>1, <1>2, <1>3, <2>1, <2>2, LinkStep, KeptStays
<1>7. 0 \in 0..dialled[s]
  BY DEF MailboxTypes
<1>8. /\ dialled' = [dialled EXCEPT ![s] = dialled[s]]
      /\ resendBuffer' = [resendBuffer EXCEPT ![s] = resendBuffer[s]]
      /\ committed' = [committed EXCEPT ![s] = committed[s]] /\ delivered' = delivered
  BY OwnLink
<1>9. /\ dialled[s] \in 0..(2 * MaxFaults + 1) /\ ToSet(delivered[s]) \subseteq ToSet(committed[s])
      /\ \A i \in DOMAIN committed[s] : committed[s][i] # <<>>
  BY <1>1 DEF SenderInv
<1>10. resendBuffer[s] \in Seq(Message) /\ committed[s] \in Seq(Seq(Message))
  BY OwnLink
<1>11. /\ link' \in [Sender -> [Conn -> LinkRecord]]
       /\ \A t \in Sender : t # s => link'[t] = link[t]
       /\ \A d \in Conn : d > dialled[s] => link'[s][d] = NoLink
  BY <1>1, <1>2, <1>3, LinkStep
<1> QED
  BY <1>3, <1>5, <1>6, <1>7, <1>8, <1>9, <1>10, <1>11, RemoteKeeps

\* Steps that fail on a connection or leave the links alone.
LEMMA FailuresKeep ==
    ASSUME MailboxTypes, SendersInv, NEW s \in Sender,
           WriteValueFails(s) \/ PreCommitFails(s) \/ CommitFails(s)
    PROVE  MailboxTypes' /\ SendersInv'
<1>0. PhaseOK(s) /\ conn[s] \in Nat
  BY OwnLink DEF MailboxTypes
<1>1. CASE WriteValueFails(s) \/ PreCommitFails(s)
  <2>1. /\ conn[s] # 0 /\ phase' = [phase EXCEPT ![s] = "failed"] /\ Disconnect(s)
        /\ UNCHANGED <<dialled, resendBuffer, committed, delivered>>
        /\ phase[s] \notin Committing
    BY <1>0, <1>1 DEF WriteValueFails, PreCommitFails, PhaseOK, history, Committing
  <2>2. phase'[s] = "failed" /\ conn'[s] = 0
    BY <2>1 DEF MailboxTypes, Disconnect
  <2>3. PhaseOK(s)'
    BY <2>2 DEF PhaseOK, Committing
  <2>4. "failed" \in Phase
    BY DEF Phase
  <2> QED
    BY <2>1, <2>3, <2>4, GivesUp
<1>2. CASE CommitFails(s)
  <2>1. /\ conn[s] # 0 /\ phase' = [phase EXCEPT ![s] = "resend"] /\ Disconnect(s)
        /\ UNCHANGED <<dialled, resendBuffer, committed, delivered>>
        /\ phase[s] \in Committing /\ phase[s] = "commitWait"
    BY <1>0, <1>2 DEF CommitFails, PhaseOK, history, Committing
  <2>2. phase'[s] = "resend" /\ conn'[s] = 0
    BY <2>1 DEF MailboxTypes, Disconnect
  <2>3. PhaseOK(s)'
    BY <1>0, <2>1, <2>2 DEF PhaseOK, Committing
  <2>4. "resend" \in Phase /\ "resend" \in Committing
    BY DEF Phase, Committing
  <2> QED
    BY <2>1, <2>3, <2>4, GivesUp
<1> QED
  BY <1>1, <1>2

\* Abort and Close leave no section behind.
LEMMA EndsSection ==
    ASSUME MailboxTypes, SendersInv, NEW s \in Sender, Abort(s) \/ CloseRemote(s)
    PROVE  MailboxTypes' /\ SendersInv'
<1>0. /\ SenderInv(s) /\ PhaseOK(s) /\ Kept(s) /\ conn[s] \in Nat
      /\ committed[s] \in Seq(Seq(Message)) /\ resendBuffer[s] \in Seq(Message)
  BY OwnLink DEF MailboxTypes
<1>1. CASE Abort(s)
  <2>1. /\ phase[s] \in {"open", "ready", "failed"}
        /\ phase' = [phase EXCEPT ![s] = "idle"] /\ resendBuffer' = [resendBuffer EXCEPT ![s] = <<>>]
        /\ UNCHANGED <<conn, dialled, link, committed, delivered>>
    BY <1>1 DEF Abort, history
  <2>2. phase'[s] = "idle" /\ resendBuffer'[s] = <<>>
    BY <2>1 DEF MailboxTypes
  <2>3. PhaseOK(s)'
    BY <2>2 DEF PhaseOK, Committing
  <2>4. Kept(s)'
    <3>1. phase[s] \notin Committing
      BY <2>1 DEF Committing
    <3> QED
      BY <1>0, <2>1, <3>1, KeptStays
  <2>5. conn[s] # 0 => CurrentOK(link[s][conn[s]], "idle", <<>>, ToSet(delivered[s]))
    <3>1. conn[s] # 0 => phase[s] \in {"open", "ready"}
      BY <1>0, <2>1 DEF PhaseOK
    <3> QED
      BY <2>1, <3>1, OwnLink DEF CurrentOK, Uncommitted
  <2>6. /\ dialled[s] \in 0..(2 * MaxFaults + 1) /\ conn[s] \in 0..dialled[s]
        /\ \A c \in Conn : c > dialled[s] => link'[s][c] = NoLink
        /\ \A c \in Conn : LinkOK(link'[s][c], ToSet(committed[s]))
        /\ ToSet(delivered[s]) \subseteq ToSet(committed[s])
        /\ \A i \in DOMAIN committed[s] : committed[s][i] # <<>>
    BY <1>0, <2>1 DEF SenderInv
  <2>7. /\ conn' = [conn EXCEPT ![s] = conn[s]] /\ dialled' = [dialled EXCEPT ![s] = dialled[s]]
        /\ committed' = [committed EXCEPT ![s] = committed[s]] /\ delivered' = delivered
    BY <2>1, OwnLink
  <2>8. "idle" \in Phase /\ <<>> \in Seq(Message)
    BY DEF Phase
  <2>9. /\ link' \in [Sender -> [Conn -> LinkRecord]]
        /\ \A t \in Sender : t # s => link'[t] = link[t]
    BY <2>1 DEF MailboxTypes
  <2>10. conn[s] # 0 => CurrentOK(link'[s][conn[s]], "idle", <<>>, ToSet(delivered[s]))
    BY <2>1, <2>5
  <2> QED
    BY <1>0, <2>1, <2>3, <2>4, <2>6, <2>7, <2>8, <2>9, <2>10, RemoteKeeps
<1>2. CASE CloseRemote(s)
  <2>1. /\ phase[s] = "idle" /\ phase' = [phase EXCEPT ![s] = "closed"]
        /\ UNCHANGED <<resendBuffer, dialled, committed, delivered>>
    BY <1>2 DEF CloseRemote, history
  <2>2. phase'[s] = "closed"
    BY <2>1 DEF MailboxTypes
  <2>3. "closed" \in Phase /\ "idle" \notin Committing
    BY DEF Phase, Committing
  <2>4. CASE conn[s] # 0
    <3>1. Disconnect(s)
      BY <1>2, <2>4 DEF CloseRemote
    <3>2. conn'[s] = 0
      BY <3>1 DEF Disconnect, MailboxTypes
    <3>3. PhaseOK(s)'
      BY <2>2, <3>2 DEF PhaseOK, Committing
    <3> QED
      BY <2>1, <2>3, <2>4, <3>1, <3>3, GivesUp
  <2>5. CASE conn[s] = 0
    <3>1. conn' = conn /\ link' = link
      BY <1>2, <2>5 DEF CloseRemote
    <3>2. PhaseOK(s)'
      BY <2>2, <2>5, <3>1 DEF PhaseOK, Committing
    <3>3. Kept(s)'
      BY <1>0, <2>1, <2>3, <3>1, KeptStays
    <3>4. /\ dialled[s] \in 0..(2 * MaxFaults + 1) /\ 0 \in 0..dialled[s]
          /\ \A c \in Conn : c > dialled[s] => link'[s][c] = NoLink
          /\ \A c \in Conn : LinkOK(link'[s][c], ToSet(committed[s]))
          /\ ToSet(delivered[s]) \subseteq ToSet(committed[s])
          /\ \A i \in DOMAIN committed[s] : committed[s][i] # <<>>
      BY <1>0, <2>5, <3>1 DEF SenderInv
    <3>5. /\ conn' = [conn EXCEPT ![s] = 0] /\ dialled' = [dialled EXCEPT ![s] = dialled[s]]
          /\ resendBuffer' = [resendBuffer EXCEPT ![s] = resendBuffer[s]]
          /\ committed' = [committed EXCEPT ![s] = committed[s]] /\ delivered' = delivered
      BY <2>1, <2>5, <3>1, OwnLink
    <3>6. /\ link' \in [Sender -> [Conn -> LinkRecord]]
          /\ \A t \in Sender : t # s => link'[t] = link[t]
      BY <3>1 DEF MailboxTypes
    <3> QED
      BY <1>0, <2>1, <2>3, <3>2, <3>3, <3>4, <3>5, <3>6, RemoteKeeps
  <2> QED
    BY <2>4, <2>5
<1> QED
  BY <1>1, <1>2

\* A step on the connection in use.
LEMMA UsesConnection ==
    ASSUME MailboxTypes, SendersInv, NEW s \in Sender, conn[s] # 0, NEW k \in LinkRecord,
           NEW ph \in Phase, NEW b \in Seq(Message), NEW q \in Seq(Seq(Message)),
           link' = [link EXCEPT ![s][conn[s]] = k],
           k.pc = link[s][conn[s]].pc, k.localBuffer = link[s][conn[s]].localBuffer,
           phase' = [phase EXCEPT ![s] = ph], resendBuffer' = [resendBuffer EXCEPT ![s] = b],
           committed' = [committed EXCEPT ![s] = q], UNCHANGED <<conn, dialled, delivered>>,
           ToSet(committed[s]) \subseteq ToSet(q), \A i \in DOMAIN q : q[i] # <<>>,
           LinkOK(k, ToSet(q)), CurrentOK(k, ph, b, ToSet(delivered[s])), PhaseOK(s)', Kept(s)'
    PROVE  MailboxTypes' /\ SendersInv'
<1>1. conn[s] \in Conn /\ SenderInv(s)
  BY OwnLink
<1>2. \A d \in Conn : LinkOK(link[s][d], ToSet(q))
  <2>1. \A d \in Conn : LinkOK(link[s][d], ToSet(committed[s]))
    BY <1>1 DEF SenderInv
  <2> QED
    BY <2>1 DEF LinkOK
<1>3. /\ link' \in [Sender -> [Conn -> LinkRecord]] /\ link'[s][conn[s]] = k
      /\ \A t \in Sender : t # s => link'[t] = link[t]
      /\ \A d \in Conn : d > dialled[s] => link'[s][d] = NoLink
      /\ \A d \in Conn : LinkOK(link'[s][d], ToSet(q))
  BY <1>1, <1>2, LinkStep
<1>4. /\ conn' = [conn EXCEPT ![s] = conn[s]] /\ dialled' = [dialled EXCEPT ![s] = dialled[s]]
      /\ delivered' = delivered
  BY OwnLink
<1>5. /\ dialled[s] \in 0..(2 * MaxFaults + 1) /\ conn[s] \in 0..dialled[s]
      /\ ToSet(delivered[s]) \subseteq ToSet(q)
  BY <1>1 DEF SenderInv
<1>6. conn[s] # 0 => CurrentOK(link'[s][conn[s]], ph, b, ToSet(delivered[s]))
  BY <1>3
<1> QED
  BY <1>3, <1>4, <1>5, <1>6, RemoteKeeps

\* Writing a record to the connection in use.
LEMMA Writing ==
    ASSUME NEW l \in LinkRecord, NEW r \in Record
    PROVE  LET k == [l EXCEPT !.in = @ \o <<r>>] IN
           /\ k \in LinkRecord /\ k.pc = l.pc /\ k.localBuffer = l.localBuffer /\ k.out = l.out
           /\ Len(k.in) = Len(l.in) + 1 /\ Len(l.in) \in Nat /\ k.in # <<>>
           /\ \A i \in 1..Len(l.in) : k.in[i] = l.in[i]
           /\ LastTag(k) = r.tag
<1> DEFINE k == [l EXCEPT !.in = @ \o <<r>>]
<1>1. l.in \in Seq(Record) /\ l.in \o <<r>> \in Seq(Record)
  BY DEF LinkRecord
<1>2. /\ k \in LinkRecord /\ k.pc = l.pc /\ k.localBuffer = l.localBuffer /\ k.out = l.out
      /\ k.in = l.in \o <<r>>
  BY <1>1 DEF LinkRecord
<1> HIDE DEF k
<1>3. /\ Len(k.in) = Len(l.in) + 1 /\ Len(l.in) \in Nat /\ k.in # <<>>
      /\ k.in[Len(l.in) + 1] = r
      /\ \A i \in 1..Len(l.in) : k.in[i] = l.in[i]
  BY <1>1, <1>2
<1> QED
  BY <1>2, <1>3 DEF LastTag, k

\* A precommit record ends the values of the section.
LEMMA PreCommitKeeps ==
    ASSUME MailboxTypes, SendersInv, NEW s \in Sender, PreCommit(s)
    PROVE  MailboxTypes' /\ SendersInv'
<1> DEFINE l == link[s][conn[s]]
<1> DEFINE k == [l EXCEPT !.in = @ \o <<PreCommitTag>>]
<1> DEFINE b == resendBuffer[s]
<1>1. /\ phase[s] = "open" /\ phase' = [phase EXCEPT ![s] = "preCommit"]
      /\ UNCHANGED <<conn, resendBuffer, dialled, committed, delivered>>
      /\ link' = [link EXCEPT ![s][conn[s]] = k]
  BY DEF PreCommit, Sent, history
<1>2. /\ conn[s] # 0 /\ conn[s] \in Conn /\ l \in LinkRecord /\ LinkOK(l, ToSet(committed[s]))
      /\ CurrentOK(l, "open", b, ToSet(delivered[s])) /\ PhaseOK(s) /\ Kept(s) /\ SenderInv(s)
      /\ b \in Seq(Message) /\ committed[s] \in Seq(Seq(Message))
  BY <1>1, OwnLink DEF PhaseOK
<1>3. PreCommitTag \in Record /\ PreCommitTag.tag = "preCommit"
  BY DEF PreCommitTag, Record
<1>4. /\ k \in LinkRecord /\ k.pc = l.pc /\ k.localBuffer = l.localBuffer /\ k.out = l.out
      /\ Len(k.in) = Len(l.in) + 1 /\ Len(l.in) \in Nat /\ k.in # <<>>
      /\ \A i \in 1..Len(l.in) : k.in[i] = l.in[i]
      /\ LastTag(k) = "preCommit"
  BY <1>2, <1>3, Writing
<1> HIDE DEF k
<1>5. \A i \in 1..Len(l.in) : l.in[i].tag \notin {"preCommit", "commit"}
  BY <1>2 DEF CurrentOK, LinkOK, Uncommitted, LastTag
<1>6. LinkOK(k, ToSet(committed[s]))
  <2>1. \A i \in 1..Len(k.in) : i = Len(k.in) \/ i \in 1..Len(l.in)
    BY <1>4
  <2> QED
    BY <1>2, <1>4, <1>5, <2>1 DEF LinkOK
<1>7. CurrentOK(k, "preCommit", b, ToSet(delivered[s]))
  <2>1. CASE l.pc = "dead"
    BY <1>2, <1>4, <2>1 DEF CurrentOK
  <2>2. CASE Ends(l, Len(l.in), b)
    <3>1. Len(l.in) \in 0..Len(l.in) /\ Len(k.in) - 1 = Len(l.in)
      BY <1>4
    <3>2. Ends(k, Len(k.in) - 1, b)
      BY <1>2, <1>4, <2>2, <3>1, EndsBefore
    <3> QED
      BY <1>2, <1>4, <3>2 DEF CurrentOK
  <2> QED
    BY <1>2, <2>1, <2>2 DEF CurrentOK
<1>8. phase'[s] = "preCommit"
  BY <1>1 DEF MailboxTypes
<1>9. PhaseOK(s)'
  BY <1>1, <1>2, <1>8 DEF PhaseOK, Committing
<1>10. Kept(s)'
  <2>1. phase[s] \notin Committing
    BY <1>1 DEF Committing
  <2> QED
    BY <1>1, <1>2, <1>4, <2>1, LinkStep, KeptStays
<1>11. /\ resendBuffer' = [resendBuffer EXCEPT ![s] = b]
       /\ committed' = [committed EXCEPT ![s] = committed[s]]
       /\ \A i \in DOMAIN committed[s] : committed[s][i] # <<>>
  BY <1>1, <1>2, OwnLink DEF SenderInv
<1>12. "preCommit" \in Phase
  BY DEF Phase
<1> QED
  BY <1>1, <1>2, <1>4, <1>6, <1>7, <1>9, <1>10, <1>11, <1>12, UsesConnection

\* The answer to a PreCommit, and the one to a Commit.
LEMMA AckedKeeps ==
    ASSUME MailboxTypes, SendersInv, NEW s \in Sender, PreCommitAcked(s) \/ CommitAcked(s)
    PROVE  MailboxTypes' /\ SendersInv'
<1> DEFINE l == link[s][conn[s]]
<1> DEFINE k == [l EXCEPT !.out = Tail(@)]
<1> DEFINE b == resendBuffer[s]
<1>1. /\ phase[s] \in {"preCommit", "commitWait"} /\ l.out # <<>>
      /\ link' = [link EXCEPT ![s][conn[s]] = k]
      /\ UNCHANGED <<conn, dialled, committed, delivered>>
  <2>1. \A c \in Conn : [link EXCEPT ![s][c].out = Tail(@)] = [link EXCEPT ![s][c] = [link[s][c] EXCEPT !.out = Tail(@)]]
    BY DEF MailboxTypes
  <2>2. phase[s] \in {"preCommit", "commitWait"}
    BY DEF PreCommitAcked, CommitAcked
  <2>3. conn[s] \in Conn
    BY <2>2, OwnLink DEF PhaseOK
  <2> QED
    BY <2>1, <2>2, <2>3 DEF PreCommitAcked, CommitAcked, Answered, history
<1>2. /\ conn[s] # 0 /\ conn[s] \in Conn /\ l \in LinkRecord /\ LinkOK(l, ToSet(committed[s]))
      /\ CurrentOK(l, phase[s], b, ToSet(delivered[s])) /\ PhaseOK(s) /\ Kept(s) /\ SenderInv(s)
      /\ b \in Seq(Message) /\ committed[s] \in Seq(Seq(Message))
  BY <1>1, OwnLink DEF PhaseOK
<1>3. /\ k \in LinkRecord /\ k.pc = l.pc /\ k.localBuffer = l.localBuffer /\ k.in = l.in
      /\ Len(l.out) <= 1 => k.out = <<>>
  <2>1. l.out \in Seq(Answer) /\ Tail(l.out) \in Seq(Answer)
    BY <1>1, <1>2 DEF LinkRecord
  <2>2. Len(l.out) <= 1 => Tail(l.out) = <<>>
    BY <1>1, <2>1
  <2> QED
    BY <1>2, <2>1, <2>2 DEF LinkRecord
<1> HIDE DEF k
<1>4. LinkOK(k, ToSet(committed[s]))
  BY <1>2, <1>3, LinkSame
<1>5. \A i \in DOMAIN committed[s] : committed[s][i] # <<>>
  BY <1>2 DEF SenderInv
<1>6. committed' = [committed EXCEPT ![s] = committed[s]]
  BY <1>1, OwnLink
<1>7. CASE PreCommitAcked(s)
  <2>1. /\ phase[s] = "preCommit" /\ phase' = [phase EXCEPT ![s] = "ready"]
        /\ resendBuffer' = [resendBuffer EXCEPT ![s] = b]
    BY <1>7, OwnLink DEF PreCommitAcked
  <2>2. CurrentOK(k, "ready", b, ToSet(delivered[s]))
    BY <1>1, <1>2, <1>3, <2>1 DEF CurrentOK
  <2>3. phase'[s] = "ready" /\ resendBuffer'[s] = b
    BY <2>1 DEF MailboxTypes
  <2>4. PhaseOK(s)'
    BY <1>1, <1>2, <2>1, <2>3 DEF PhaseOK, Committing
  <2>5. Kept(s)'
    <3>1. phase[s] \notin Committing
      BY <2>1 DEF Committing
    <3> QED
      BY <1>1, <1>2, <1>3, <3>1, LinkStep, KeptStays
  <2>6. "ready" \in Phase
    BY DEF Phase
  <2> QED
    BY <1>1, <1>2, <1>3, <1>4, <1>5, <1>6, <2>1, <2>2, <2>4, <2>5, <2>6, UsesConnection
<1>8. CASE CommitAcked(s)
  <2>1. /\ phase[s] = "commitWait" /\ phase' = [phase EXCEPT ![s] = "idle"]
        /\ resendBuffer' = [resendBuffer EXCEPT ![s] = <<>>]
    BY <1>8 DEF CommitAcked
  <2>2. /\ l.in = <<>> /\ Len(l.out) = 1
        /\ b \in ToSet(delivered[s]) \/ (l.pc = "enqueue" /\ l.localBuffer = b)
    BY <1>1, <1>2, <2>1 DEF CurrentOK
  <2>3. CurrentOK(k, "idle", <<>>, ToSet(delivered[s]))
    BY <1>3, <2>2 DEF CurrentOK, Uncommitted
  <2>4. phase'[s] = "idle" /\ resendBuffer'[s] = <<>>
    BY <2>1 DEF MailboxTypes
  <2>5. PhaseOK(s)'
    BY <2>4 DEF PhaseOK, Committing
  <2>6. Kept(s)'
    <3>1. committed[s][Len(committed[s])] = b
      BY <1>2, <2>1 DEF PhaseOK, Committing
    <3>2. \A d \in Conn : link[s][d].pc = "enqueue" =>
             link'[s][d].pc = "enqueue" /\ link'[s][d].localBuffer = link[s][d].localBuffer
      BY <1>1, <1>2, <1>3, LinkStep
    <3>3. committed'[s] = committed[s] /\ delivered'[s] = delivered[s] /\ Kept(s)
      BY <1>1, <1>2
    <3>4. ASSUME NEW i \in DOMAIN committed[s]
          PROVE  \/ committed[s][i] \in ToSet(delivered[s])
                 \/ \E d \in Conn : link'[s][d].pc = "enqueue"
                                  /\ link'[s][d].localBuffer = committed[s][i]
      <4>1. CASE i = Len(committed[s])
        <5>1. l.pc = "enqueue" => /\ link'[s][conn[s]].pc = "enqueue"
                                  /\ link'[s][conn[s]].localBuffer = l.localBuffer
          BY <1>1, <1>2, <3>2
        <5> QED
          BY <1>1, <1>2, <2>2, <3>1, <4>1, <5>1
      <4>2. CASE i # Len(committed[s])
        BY <3>2, <3>3, <4>2 DEF Kept
      <4> QED
        BY <4>1, <4>2
    <3> QED
      BY <3>3, <3>4 DEF Kept
  <2>7. "idle" \in Phase /\ <<>> \in Seq(Message)
    BY DEF Phase
  <2> QED
    BY <1>1, <1>2, <1>3, <1>4, <1>5, <1>6, <2>1, <2>3, <2>5, <2>6, <2>7, UsesConnection
<1> QED
  BY <1>7, <1>8

\* A commit record commits what the handler holds.
LEMMA CommitKeeps ==
    ASSUME MailboxTypes, SendersInv, NEW s \in Sender, Commit(s)
    PROVE  MailboxTypes' /\ SendersInv'
<1> DEFINE l == link[s][conn[s]]
<1> DEFINE k == [l EXCEPT !.in = @ \o <<CommitTag>>]
<1> DEFINE b == resendBuffer[s]
<1> DEFINE q == Append(committed[s], b)
<1>1. /\ phase[s] = "ready" /\ phase' = [phase EXCEPT ![s] = "commitWait"]
      /\ UNCHANGED <<conn, resendBuffer, dialled, delivered>>
      /\ link' = [link EXCEPT ![s][conn[s]] = k] /\ committed' = [committed EXCEPT ![s] = q]
  BY DEF Commit, Sent
<1>2. /\ conn[s] # 0 /\ conn[s] \in Conn /\ l \in LinkRecord
      /\ CurrentOK(l, "ready", b, ToSet(delivered[s])) /\ PhaseOK(s) /\ Kept(s) /\ SenderInv(s)
      /\ b \in Seq(Message) /\ committed[s] \in Seq(Seq(Message)) /\ b # <<>>
  BY <1>1, OwnLink DEF PhaseOK
<1>3. CommitTag \in Record /\ CommitTag.tag = "commit"
  BY DEF CommitTag, Record
<1>4. /\ k \in LinkRecord /\ k.pc = l.pc /\ k.localBuffer = l.localBuffer /\ k.out = l.out
      /\ Len(k.in) = Len(l.in) + 1 /\ Len(l.in) \in Nat /\ k.in # <<>>
      /\ LastTag(k) = "commit"
  BY <1>2, <1>3, Writing
<1> HIDE DEF k
<1>5. /\ q \in Seq(Seq(Message)) /\ ToSet(q) = ToSet(committed[s]) \cup {b}
      /\ Len(q) = Len(committed[s]) + 1 /\ q # <<>> /\ q[Len(q)] = b
      /\ \A i \in DOMAIN q : i # Len(q) => i \in DOMAIN committed[s] /\ q[i] = committed[s][i]
  <2>1. ToSet(q) = ToSet(committed[s]) \cup {b}
    BY <1>2, ToSetAppend
  <2>2. q \in Seq(Seq(Message)) /\ Len(q) = Len(committed[s]) + 1 /\ q # <<>> /\ q[Len(q)] = b
    BY <1>2
  <2>3. \A i \in DOMAIN q : i # Len(q) => i \in DOMAIN committed[s] /\ q[i] = committed[s][i]
    <3>1. /\ DOMAIN q = DOMAIN committed[s] \cup {Len(committed[s]) + 1}
          /\ \A i \in DOMAIN committed[s] : q[i] = committed[s][i]
      BY <1>2
    <3> QED
      BY <2>2, <3>1
  <2> QED
    BY <2>1, <2>2, <2>3
<1> HIDE DEF q
<1>6. Len(k.in) = 1 /\ l.out = <<>> /\ (l.pc = "dead" \/ Ends(k, 0, b))
  <2>1. l.in = <<>> /\ l.out = <<>> /\ (l.pc = "dead" \/ (l.pc = "loop" /\ l.localBuffer = b))
    BY <1>2 DEF CurrentOK
  <2>2. l.pc # "dead" => Ends(k, 0, b)
    BY <1>2, <1>4, <2>1, EndsHere
  <2> QED
    BY <1>4, <2>1, <2>2
<1>7. LinkOK(k, ToSet(q))
  <2>1. k.pc # "dead" => k.pc = "loop" /\ Ends(k, Len(k.in) - 1, b) /\ b \in ToSet(q)
    BY <1>2, <1>4, <1>5, <1>6 DEF CurrentOK
  <2>2. \A i \in 1..Len(k.in) : i = Len(k.in)
    BY <1>6
  <2> QED
    BY <2>1, <2>2 DEF LinkOK
<1>8. CurrentOK(k, "commitWait", b, ToSet(delivered[s]))
  BY <1>2, <1>4, <1>6 DEF CurrentOK
<1>9. phase'[s] = "commitWait" /\ committed'[s] = q /\ resendBuffer'[s] = b
  BY <1>1 DEF MailboxTypes
<1>10. PhaseOK(s)'
  BY <1>1, <1>2, <1>5, <1>9 DEF PhaseOK, Committing
<1>11. Kept(s)'
  <2>1. phase[s] \notin Committing /\ phase'[s] \in Committing
    BY <1>1, <1>9 DEF Committing
  <2>2. \A d \in Conn : link[s][d].pc = "enqueue" =>
           link'[s][d].pc = "enqueue" /\ link'[s][d].localBuffer = link[s][d].localBuffer
    BY <1>1, <1>2, <1>4, LinkStep
  <2>3. ASSUME NEW i \in DOMAIN q, i # Len(q)
        PROVE  \/ q[i] \in ToSet(delivered[s])
               \/ \E d \in Conn : link'[s][d].pc = "enqueue" /\ link'[s][d].localBuffer = q[i]
    <3>1. i \in DOMAIN committed[s] /\ q[i] = committed[s][i]
      BY <1>5, <2>3
    <3> QED
      BY <1>2, <2>1, <2>2, <3>1 DEF Kept
  <2> QED
    BY <1>1, <1>9, <2>1, <2>3 DEF Kept
<1>12. /\ resendBuffer' = [resendBuffer EXCEPT ![s] = b] /\ ToSet(committed[s]) \subseteq ToSet(q)
       /\ \A i \in DOMAIN q : q[i] # <<>>
  BY <1>1, <1>2, <1>5, OwnLink DEF SenderInv
<1>13. "commitWait" \in Phase
  BY DEF Phase
<1> QED
  BY <1>1, <1>2, <1>4, <1>5, <1>7, <1>8, <1>10, <1>11, <1>12, <1>13, UsesConnection

\* A step that opens a connection.
LEMMA OpensConnection ==
    ASSUME MailboxTypes, SendersInv, NEW s \in Sender, NEW c \in Conn, NEW k \in LinkRecord,
           NEW ph \in Phase, NEW b \in Seq(Message), c = dialled[s] + 1,
           link' = [link EXCEPT ![s][c] = k], conn' = [conn EXCEPT ![s] = c],
           dialled' = [dialled EXCEPT ![s] = c],
           phase' = [phase EXCEPT ![s] = ph], resendBuffer' = [resendBuffer EXCEPT ![s] = b],
           UNCHANGED <<committed, delivered>>,
           LinkOK(k, ToSet(committed[s])), CurrentOK(k, ph, b, ToSet(delivered[s])), PhaseOK(s)',
           ph \in Committing \/ phase[s] \notin Committing
    PROVE  MailboxTypes' /\ SendersInv'
<1>1. SenderInv(s) /\ Kept(s) /\ dialled[s] \in Nat
  BY OwnLink DEF MailboxTypes
<1>2. c \in 0..(2 * MaxFaults + 1) /\ c \in 0..c /\ c > dialled[s] /\ c # 0
  BY <1>1, BoundAssumption DEF Conn
<1>3. /\ link' \in [Sender -> [Conn -> LinkRecord]] /\ link'[s][c] = k
      /\ \A d \in Conn : d # c => link'[s][d] = link[s][d]
      /\ \A t \in Sender : t # s => link'[t] = link[t]
  BY OneLink, ZenonT(60)
<1>4. /\ \A d \in Conn : d > c => link'[s][d] = NoLink
      /\ \A d \in Conn : LinkOK(link'[s][d], ToSet(committed[s]))
  <2>1. \A d \in Conn : d > c => d > dialled[s] /\ d # c
    BY <1>1, <1>2, BoundAssumption DEF Conn
  <2> QED
    BY <1>1, <1>3, <2>1 DEF SenderInv
<1>5. Kept(s)'
  <2>1. link[s][c].pc # "enqueue"
    BY <1>1, <1>2, NoLinkIs DEF SenderInv
  <2>2. phase'[s] = ph
    BY DEF MailboxTypes
  <2> QED
    BY <1>1, <1>3, <2>1, <2>2, KeptStays
<1>6. committed' = [committed EXCEPT ![s] = committed[s]] /\ committed[s] \in Seq(Seq(Message))
  BY OwnLink
<1>7. /\ ToSet(delivered[s]) \subseteq ToSet(committed[s])
      /\ \A i \in DOMAIN committed[s] : committed[s][i] # <<>>
  BY <1>1 DEF SenderInv
<1>8. CurrentOK(link'[s][c], ph, b, ToSet(delivered[s]))
  BY <1>3
<1> QED
  BY <1>2, <1>3, <1>4, <1>5, <1>6, <1>7, <1>8, RemoteKeeps

\* Writing values keeps a stream free of other records.
LEMMA WritingValues ==
    ASSUME NEW l \in LinkRecord, NEW msgs \in Seq(Record), msgs # <<>>,
           \A i \in 1..Len(msgs) : msgs[i].tag \in {"begin", "value"},
           NEW sent, LinkOK(l, sent), Uncommitted(l)
    PROVE  LET k == [l EXCEPT !.in = @ \o msgs] IN
           /\ k \in LinkRecord /\ k.pc = l.pc /\ k.localBuffer = l.localBuffer /\ k.out = l.out
           /\ k.in = l.in \o msgs /\ Uncommitted(k) /\ LinkOK(k, sent)
<1> DEFINE k == [l EXCEPT !.in = @ \o msgs]
<1>1. l.in \in Seq(Record) /\ l.in \o msgs \in Seq(Record)
  BY DEF LinkRecord
<1>2. /\ k \in LinkRecord /\ k.pc = l.pc /\ k.localBuffer = l.localBuffer /\ k.out = l.out
      /\ k.in = l.in \o msgs
  BY <1>1 DEF LinkRecord
<1> HIDE DEF k
<1>3. \A i \in 1..Len(l.in) : l.in[i].tag \notin {"preCommit", "commit"}
  <2>1. Len(l.in) \in Nat /\ l.in # <<>> => Len(l.in) \in 1..Len(l.in)
    BY <1>1
  <2> QED
    BY <2>1 DEF LinkOK, Uncommitted, LastTag
<1>4. ASSUME NEW i \in 1..Len(k.in) PROVE k.in[i].tag \notin {"preCommit", "commit"}
  <2>1. CASE i \in 1..Len(l.in)
    <3>1. k.in[i] = l.in[i]
      BY <1>1, <1>2, <2>1
    <3> QED
      BY <1>3, <2>1, <3>1
  <2>2. CASE i \notin 1..Len(l.in)
    <3>1. i - Len(l.in) \in 1..Len(msgs) /\ k.in[i] = msgs[i - Len(l.in)]
      BY <1>1, <1>2, <2>2
    <3> QED
      BY <3>1
  <2> QED
    BY <2>1, <2>2
<1>5. Len(k.in) \in 1..Len(k.in) /\ k.in # <<>> /\ k.in[Len(k.in)] \in Record
  BY <1>1, <1>2
<1>6. LastTag(k) \in {"begin", "value"}
  BY <1>4, <1>5 DEF LastTag, Record
<1> QED
  BY <1>2, <1>4, <1>6 DEF Uncommitted, LinkOK, k

\* A connection that has just been accepted.
LEMMA FreshLink ==
    LET l == [NoLink EXCEPT !.open = TRUE, !.pc = "loop"] IN
    /\ l \in LinkRecord /\ l.in = <<>> /\ l.out = <<>> /\ l.pc = "loop"
    /\ \A sent : LinkOK(l, sent)
    /\ Uncommitted(l)
<1> DEFINE l == [NoLink EXCEPT !.open = TRUE, !.pc = "loop"]
<1>1. l \in LinkRecord /\ l.in = <<>> /\ l.out = <<>> /\ l.pc = "loop"
  BY NoLinkIs DEF LinkRecord
<1> HIDE DEF l
<1>2. \A i : i \notin 1..Len(l.in)
  BY <1>1
<1>3. (\A sent : LinkOK(l, sent)) /\ Uncommitted(l)
  BY <1>1, <1>2 DEF LinkOK, Uncommitted
<1> QED
  BY <1>1, <1>3 DEF l

\* A value goes on with the section, or begins one.
LEMMA WriteKeeps ==
    ASSUME MailboxTypes, SendersInv, NEW s \in Sender, WriteValue(s)
    PROVE  MailboxTypes' /\ SendersInv'
<1> DEFINE m == <<s, Len(committed[s]) + 1, Len(resendBuffer[s]) + 1>>
<1> DEFINE msgs == Append(IF phase[s] = "idle" THEN <<Begin>> ELSE <<>>, Value(m))
<1> DEFINE b == Append(resendBuffer[s], m)
<1>1. /\ phase[s] \in {"idle", "open"} /\ m \in Message
      /\ phase' = [phase EXCEPT ![s] = "open"] /\ resendBuffer' = [resendBuffer EXCEPT ![s] = b]
      /\ UNCHANGED <<committed, delivered>>
  BY DEF WriteValue, history, MailboxTypes
<1>2. PICK c \in Conn : /\ Connected(s, c)
                        /\ conn' = [conn EXCEPT ![s] = c]
                        /\ link' = [link EXCEPT ![s][c] = Sent(s, c, msgs)]
  BY DEF WriteValue
<1>3. /\ PhaseOK(s) /\ SenderInv(s) /\ Kept(s) /\ resendBuffer[s] \in Seq(Message)
      /\ committed[s] \in Seq(Seq(Message)) /\ conn[s] \in Nat
  BY OwnLink DEF MailboxTypes
<1> HIDE DEF m
<1>4. /\ msgs \in Seq(Record) /\ msgs # <<>>
      /\ \A i \in 1..Len(msgs) : msgs[i].tag \in {"begin", "value"}
  <2>1. /\ Begin \in Record /\ Begin.tag = "begin"
        /\ Value(m) \in Record /\ Value(m).tag = "value"
    BY <1>1 DEF Begin, Value, Record
  <2>2. Append(<<Begin>>, Value(m)) = <<Begin, Value(m)>> /\ Append(<<>>, Value(m)) = <<Value(m)>>
    BY <2>1, AppendToOne
  <2>3. /\ <<Begin, Value(m)>> \in Seq(Record) /\ <<Value(m)>> \in Seq(Record)
        /\ \A i \in 1..2 : <<Begin, Value(m)>>[i].tag \in {"begin", "value"}
        /\ \A i \in 1..1 : <<Value(m)>>[i].tag \in {"begin", "value"}
    BY <2>1
  <2>4. Len(<<Begin, Value(m)>>) = 2 /\ Len(<<Value(m)>>) = 1
    OBVIOUS
  <2> QED
    BY <2>2, <2>3, <2>4
<1>5. b \in Seq(Message) /\ b # <<>>
  BY <1>1, <1>3, AppendTo
<1>6. phase'[s] = "open" /\ resendBuffer'[s] = b /\ conn'[s] = c
  BY <1>1, <1>2 DEF MailboxTypes
<1>7. PhaseOK(s)'
  BY <1>5, <1>6, BoundAssumption DEF PhaseOK, Committing, Conn
<1>8. "open" \in Phase /\ phase[s] \notin Committing
  BY <1>1 DEF Phase, Committing
<1>9. ASSUME NEW l \in LinkRecord, NEW k \in LinkRecord, k.in = l.in \o msgs, k.pc = l.pc,
             k.localBuffer = l.localBuffer, l.out = <<>>, k.out = l.out, Uncommitted(k),
             phase[s] = "open" => l.pc = "dead" \/ Ends(l, Len(l.in), resendBuffer[s])
      PROVE  CurrentOK(k, "open", b, ToSet(delivered[s]))
  <2>1. CASE phase[s] = "idle"
    <3>1. msgs = <<Begin, Value(m)>>
      <4>1. Begin \in Record /\ Value(m) \in Record
        BY <1>1 DEF Begin, Value, Record
      <4> QED
        BY <2>1, <4>1, AppendToOne
    <3>2. b = <<m>>
      BY <1>1, <1>3, <2>1, AppendToOne DEF PhaseOK
    <3>3. Ends(k, Len(k.in), b)
      BY <1>1, <1>9, <3>1, <3>2, BeginValue
    <3> QED
      BY <1>9, <3>3 DEF CurrentOK
  <2>2. CASE phase[s] = "open"
    <3>1. msgs = <<Value(m)>>
      BY <2>2
    <3>2. l.pc = "dead" \/ Ends(k, Len(k.in), b)
      BY <1>1, <1>3, <1>9, <2>2, <3>1, AppendValue
    <3> QED
      BY <1>9, <3>2 DEF CurrentOK
  <2> QED
    BY <1>1, <2>1, <2>2
<1> HIDE DEF msgs, b
<1>10. CASE conn[s] # 0
  <2> DEFINE l == link[s][c]
  <2> DEFINE k == [l EXCEPT !.in = @ \o msgs]
  <2>1. c = conn[s] /\ dialled' = dialled /\ conn' = conn /\ link' = [link EXCEPT ![s][c] = k]
    BY <1>2, <1>10, OwnLink DEF Connected, Sent
  <2>2. /\ l \in LinkRecord /\ LinkOK(l, ToSet(committed[s]))
        /\ CurrentOK(l, phase[s], resendBuffer[s], ToSet(delivered[s]))
    BY <1>10, <2>1, OwnLink
  <2>3. /\ l.out = <<>> /\ Uncommitted(l)
        /\ phase[s] = "open" => l.pc = "dead" \/ Ends(l, Len(l.in), resendBuffer[s])
    BY <1>1, <2>2 DEF CurrentOK
  <2>4. /\ k \in LinkRecord /\ k.pc = l.pc /\ k.localBuffer = l.localBuffer /\ k.out = l.out
        /\ k.in = l.in \o msgs /\ Uncommitted(k) /\ LinkOK(k, ToSet(committed[s]))
    BY <1>4, <2>2, <2>3, WritingValues
  <2> HIDE DEF k
  <2>5. CurrentOK(k, "open", b, ToSet(delivered[s]))
    BY <1>9, <2>2, <2>3, <2>4
  <2>6. Kept(s)'
    BY <1>1, <1>3, <1>8, <2>1, <2>4, LinkStep, KeptStays
  <2>7. /\ committed' = [committed EXCEPT ![s] = committed[s]]
        /\ \A i \in DOMAIN committed[s] : committed[s][i] # <<>>
    BY <1>1, <1>3, OwnLink DEF SenderInv
  <2> QED
    BY <1>1, <1>3, <1>5, <1>7, <1>8, <1>10, <2>1, <2>4, <2>5, <2>6, <2>7, UsesConnection
<1>11. CASE conn[s] = 0
  <2> DEFINE l == [NoLink EXCEPT !.open = TRUE, !.pc = "loop"]
  <2> DEFINE k == [l EXCEPT !.in = @ \o msgs]
  <2>0. c # 0 /\ phase[s] = "idle"
    BY <1>1, <1>3, <1>11, BoundAssumption DEF Conn, PhaseOK
  <2>1. /\ c = dialled[s] + 1 /\ dialled' = [dialled EXCEPT ![s] = c]
        /\ link' = [link EXCEPT ![s][c] = k]
    BY <1>2, <1>11, <2>0 DEF Connected, Sent
  <2>2. /\ l \in LinkRecord /\ l.in = <<>> /\ l.out = <<>> /\ l.pc = "loop"
        /\ LinkOK(l, ToSet(committed[s])) /\ Uncommitted(l)
    BY FreshLink
  <2> HIDE DEF l
  <2>3. /\ k \in LinkRecord /\ k.pc = l.pc /\ k.localBuffer = l.localBuffer /\ k.out = l.out
        /\ k.in = l.in \o msgs /\ Uncommitted(k) /\ LinkOK(k, ToSet(committed[s]))
    BY <1>4, <2>2, WritingValues
  <2> HIDE DEF k
  <2>4. CurrentOK(k, "open", b, ToSet(delivered[s]))
    BY <1>9, <2>0, <2>2, <2>3
  <2> QED
    BY <1>1, <1>2, <1>5, <1>7, <1>8, <2>1, <2>3, <2>4, OpensConnection
<1> QED
  BY <1>10, <1>11

\* What Resend writes: the whole exchange.
LEMMA WholeExchange ==
    ASSUME NEW b \in Seq(Message)
    PROVE  LET msgs == <<Begin>> \o [i \in 1 .. Len(b) |-> Value(b[i])] \o <<CommitTag>> IN
           /\ msgs \in Seq(Record) /\ Len(msgs) = Len(b) + 2
           /\ msgs[1].tag = "begin" /\ msgs[Len(b) + 2].tag = "commit"
           /\ \A i \in 1..Len(b) : msgs[1 + i].tag = "value" /\ msgs[1 + i].value = b[i]
<1> DEFINE f == [i \in 1 .. Len(b) |-> Value(b[i])]
<1> DEFINE g == <<Begin>> \o f
<1> DEFINE msgs == g \o <<CommitTag>>
<1>0. Len(b) \in Nat
  OBVIOUS
<1>1. /\ Begin \in Record /\ Begin.tag = "begin"
      /\ CommitTag \in Record /\ CommitTag.tag = "commit"
      /\ \A m \in Message : Value(m) \in Record /\ Value(m).tag = "value" /\ Value(m).value = m
  BY DEF Begin, CommitTag, Value, Record
<1>2. \A i \in 1..Len(b) : b[i] \in Message
  OBVIOUS
<1> HIDE DEF Record
<1>3. f \in Seq(Record) /\ Len(f) = Len(b) /\ \A i \in 1..Len(b) : f[i] = Value(b[i])
  BY <1>0, <1>1, <1>2
<1> HIDE DEF f
<1>4. /\ g \in Seq(Record) /\ Len(g) = Len(b) + 1 /\ g[1] = Begin
      /\ \A i \in 1..Len(b) : g[1 + i] = f[i]
  BY <1>0, <1>1, <1>3
<1> HIDE DEF g
<1>5. msgs \in Seq(Record) /\ Len(msgs) = Len(b) + 2
  BY <1>0, <1>1, <1>4
<1>6. msgs[Len(b) + 2] = CommitTag
  BY <1>0, <1>1, <1>4
<1>7. \A i \in 1..(Len(b) + 1) : msgs[i] = g[i]
  BY <1>0, <1>1, <1>4
<1> HIDE DEF msgs
<1>8. msgs[1] = Begin
  BY <1>0, <1>4, <1>7
<1>9. \A i \in 1..Len(b) : msgs[1 + i] = Value(b[i])
  BY <1>0, <1>3, <1>4, <1>7
<1>10. \A i \in 1..Len(b) : msgs[1 + i].tag = "value" /\ msgs[1 + i].value = b[i]
  BY <1>1, <1>2, <1>9
<1> QED
  BY <1>1, <1>5, <1>6, <1>8, <1>10 DEF msgs, g, f

\* A new connection gets the whole exchange at once.
LEMMA ResendKeeps ==
    ASSUME MailboxTypes, SendersInv, NEW s \in Sender, Resend(s)
    PROVE  MailboxTypes' /\ SendersInv'
<1> DEFINE b == resendBuffer[s]
<1> DEFINE msgs == <<Begin>> \o [i \in 1 .. Len(b) |-> Value(b[i])] \o <<CommitTag>>
<1> DEFINE l == [NoLink EXCEPT !.open = TRUE, !.pc = "loop"]
<1> DEFINE k == [l EXCEPT !.in = @ \o msgs]
<1>1. /\ phase[s] = "resend" /\ phase' = [phase EXCEPT ![s] = "commitWait"]
      /\ UNCHANGED <<resendBuffer, committed, delivered>>
  BY DEF Resend, history
<1>2. PICK c \in Conn : /\ Connected(s, c) /\ conn' = [conn EXCEPT ![s] = c]
                        /\ link' = [link EXCEPT ![s][c] = Sent(s, c, msgs)]
  BY DEF Resend
<1>3. /\ PhaseOK(s) /\ SenderInv(s) /\ Kept(s) /\ b \in Seq(Message)
      /\ committed[s] \in Seq(Seq(Message)) /\ conn[s] = 0 /\ b # <<>>
      /\ committed[s] # <<>> /\ committed[s][Len(committed[s])] = b
      /\ resendBuffer' = [resendBuffer EXCEPT ![s] = b]
  BY <1>1, OwnLink DEF PhaseOK, Committing
<1>4. b \in ToSet(committed[s])
  <2>1. Len(committed[s]) \in DOMAIN committed[s]
    BY <1>3
  <2> QED
    BY <1>3, <2>1, Zenon DEF ToSet
<1> DEFINE n == Len(b)
<1>5. /\ msgs \in Seq(Record) /\ Len(msgs) = n + 2
      /\ msgs[1].tag = "begin" /\ msgs[n + 2].tag = "commit"
      /\ \A i \in 1..n : msgs[1 + i].tag = "value" /\ msgs[1 + i].value = b[i]
  BY <1>3, WholeExchange
<1>6. c # 0 /\ c = dialled[s] + 1 /\ dialled' = [dialled EXCEPT ![s] = c]
  BY <1>2, <1>3, BoundAssumption DEF Connected, Conn
<1>7. link' = [link EXCEPT ![s][c] = k]
  BY <1>2, <1>3, <1>6 DEF Sent
<1>8. l \in LinkRecord /\ l.in = <<>> /\ l.out = <<>> /\ l.pc = "loop"
  BY FreshLink
<1> HIDE DEF l, msgs
<1>9. k \in LinkRecord /\ k.pc = "loop" /\ k.out = <<>> /\ k.in = msgs
  <2>1. l.in \o msgs = msgs
    BY <1>5, <1>8
  <2> QED
    BY <1>5, <1>8, <2>1 DEF LinkRecord
<1> HIDE DEF k
<1>10. n \in Nat
  BY <1>3
<1>11. Ends(k, n + 1, b)
  <2>1. 1 \in 1..Len(k.in) /\ 1 + n =< Len(k.in) /\ 1 + n = n + 1
    BY <1>5, <1>9, <1>10
  <2> QED
    BY <1>3, <1>5, <1>9, <2>1, BeginBatch
<1>12. k.in # <<>> /\ LastTag(k) = "commit" /\ Len(k.in) - 1 = n + 1
  <2>1. Len(k.in) = n + 2 /\ Len(<<>>) = 0
    BY <1>5, <1>9
  <2> QED
    BY <1>5, <1>9, <1>10, <2>1 DEF LastTag
<1>13. LinkOK(k, ToSet(committed[s]))
  <2>1. ASSUME NEW i \in 1..Len(k.in), k.in[i].tag \in {"preCommit", "commit"}
        PROVE  i = Len(k.in)
    <3>1. i = 1 \/ i = n + 2 \/ (i - 1 \in 1..n /\ 1 + (i - 1) = i)
      BY <1>5, <1>9, <1>10
    <3> QED
      BY <1>5, <1>9, <2>1, <3>1
  <2> QED
    BY <1>4, <1>9, <1>11, <1>12, <2>1 DEF LinkOK
<1>14. CurrentOK(k, "commitWait", b, ToSet(delivered[s]))
  BY <1>9, <1>11, <1>12 DEF CurrentOK
<1>15. phase'[s] = "commitWait" /\ resendBuffer'[s] = b /\ conn'[s] = c
  BY <1>1, <1>2 DEF MailboxTypes
<1>16. PhaseOK(s)'
  BY <1>1, <1>3, <1>6, <1>15 DEF PhaseOK, Committing
<1>17. "commitWait" \in Phase /\ "commitWait" \in Committing
  BY DEF Phase, Committing
<1> HIDE DEF b
<1> QED
  BY <1>1, <1>2, <1>3, <1>6, <1>7, <1>9, <1>13, <1>14, <1>16, <1>17, OpensConnection

-----------------------------------------------------------------------------
(* The invariant *)

\* The invariant holds at first.
LEMMA MailboxInit == Init => MailboxTypes /\ SendersInv
<1> SUFFICES ASSUME Init PROVE MailboxTypes /\ SendersInv
  OBVIOUS
<1>1. <<>> \in Seq(Message) /\ <<>> \in Seq(Seq(Message)) /\ "idle" \in Phase
  BY DEF Phase
<1>2. MailboxTypes
  BY <1>1, NoLinkIs DEF Init, MailboxTypes
<1>3. ASSUME NEW s \in Sender PROVE SenderInv(s)
  <2>1. /\ phase[s] = "idle" /\ conn[s] = 0 /\ resendBuffer[s] = <<>> /\ dialled[s] = 0
        /\ \A c \in Conn : link[s][c] = NoLink
        /\ committed[s] = <<>> /\ delivered[s] = <<>>
    BY <1>3 DEF Init
  <2>2. 0 \in 0..(2 * MaxFaults + 1) /\ 0 \in 0..0
    BY BoundAssumption
  <2>3. DOMAIN committed[s] = {}
    BY <2>1
  <2>4. ToSet(delivered[s]) = {}
    <3>1. DOMAIN delivered[s] = {}
      BY <2>1
    <3> QED
      BY <3>1, Zenon DEF ToSet
  <2>5. \A sent : LinkOK(NoLink, sent)
    <3>1. \A i : i \notin 1..Len(NoLink.in)
      BY NoLinkIs
    <3> QED
      BY <3>1, NoLinkIs DEF LinkOK
  <2>6. PhaseOK(s)
    BY <2>1 DEF PhaseOK, Committing
  <2>7. Kept(s)
    BY <2>3 DEF Kept
  <2> QED
    BY <2>1, <2>2, <2>3, <2>4, <2>5, <2>6, <2>7 DEF SenderInv
<1> QED
  BY <1>2, <1>3 DEF SendersInv

\* Every step keeps it.
LEMMA MailboxStep ==
    MailboxTypes /\ SendersInv /\ [Undisturbed]_vars => MailboxTypes' /\ SendersInv'
<1> SUFFICES ASSUME MailboxTypes, SendersInv, [Undisturbed]_vars PROVE MailboxTypes' /\ SendersInv'
  OBVIOUS
<1>1. ASSUME NEW s \in Sender,
             \/ WriteValue(s) \/ WriteValueFails(s) \/ Abort(s) \/ RemoteStep(s) \/ CloseRemote(s)
             \/ \E c \in Conn : HandlerStep(s, c) \/ HandlerReturns(s, c)
      PROVE  MailboxTypes' /\ SendersInv'
  <2>1. CASE WriteValue(s)
    BY <2>1, WriteKeeps
  <2>2. CASE WriteValueFails(s) \/ PreCommitFails(s) \/ CommitFails(s)
    BY <2>2, FailuresKeep
  <2>3. CASE Abort(s) \/ CloseRemote(s)
    BY <2>3, EndsSection
  <2>4. CASE PreCommit(s)
    BY <2>4, PreCommitKeeps
  <2>5. CASE PreCommitAcked(s) \/ CommitAcked(s)
    BY <2>5, AckedKeeps
  <2>6. CASE Commit(s)
    BY <2>6, CommitKeeps
  <2>7. CASE Resend(s)
    BY <2>7, ResendKeeps
  <2>8. ASSUME NEW c \in Conn, HandlerStep(s, c) \/ HandlerReturns(s, c)
        PROVE  MailboxTypes' /\ SendersInv'
    <3>1. CASE HandlerEnqueues(s, c)
      BY <3>1, EnqueueKeeps
    <3>2. CASE ~HandlerEnqueues(s, c)
      BY <2>8, <3>2, HandlerKeeps DEF HandlerStep
    <3> QED
      BY <3>1, <3>2
  <2> QED
    BY <1>1, <2>1, <2>2, <2>3, <2>4, <2>5, <2>6, <2>7, <2>8 DEF RemoteStep
<1>2. CASE UNCHANGED <<remotes, link, history>>
  BY <1>2, LocalKeeps
<1>3. CASE ReadValue \/ LocalAbort \/ LocalCommit \/ Close
  BY <1>3, LocalKeeps DEF ReadValue, LocalAbort, LocalCommit, Close
<1>4. CASE UNCHANGED vars
  BY <1>4, LocalKeeps DEF vars
<1> QED
  BY <1>1, <1>3, <1>4 DEF Undisturbed, DialFails

-----------------------------------------------------------------------------
(* Exchanges begin *)

\* A step that changes one connection.
LEMMA BegunFrame ==
    ASSUME MailboxTypes, BegunInv, NEW s \in Sender, NEW c \in Conn, NEW k \in LinkRecord,
           link' = [link EXCEPT ![s][c] = k], BegunOK(k)
    PROVE  BegunInv'
<1>1. /\ link'[s][c] = k
      /\ \A d \in Conn : d # c => link'[s][d] = link[s][d]
      /\ \A t \in Sender : t # s => link'[t] = link[t]
  BY OneLink
<1> QED
  BY <1>1 DEF BegunInv

\* Records are written behind others of an exchange, behind a begin, or for a handler that
\* holds a part of the exchange.
LEMMA AppendBegun ==
    ASSUME NEW l \in LinkRecord, BegunOK(l), NEW msgs \in Seq(Record), msgs # <<>>,
           l.in = <<>> => \/ msgs[1].tag = "begin" \/ l.pc = "dead"
                          \/ l.pc = "loop" /\ l.localBuffer # <<>>
    PROVE  LET k == [l EXCEPT !.in = @ \o msgs] IN k \in LinkRecord /\ BegunOK(k)
<1> DEFINE k == [l EXCEPT !.in = @ \o msgs]
<1>1. l.in \in Seq(Record) /\ l.in \o msgs \in Seq(Record)
  BY DEF LinkRecord
<1>2. /\ k \in LinkRecord /\ k.in = l.in \o msgs /\ k.pc = l.pc
      /\ k.localBuffer = l.localBuffer /\ k.hasBegun = l.hasBegun
  BY <1>1 DEF LinkRecord
<1> HIDE DEF k
<1>3. l.in = <<>> => k.in[1] = msgs[1]
  BY <1>2
<1>4. l.in # <<>> => k.in[1] = l.in[1]
  BY <1>1, <1>2
<1>5. BegunOK(k)
  BY <1>2, <1>3, <1>4 DEF BegunOK
<1> QED
  BY <1>2, <1>5 DEF k

\* The handlers keep it.
LEMMA HandlerBegun ==
    ASSUME MailboxTypes, SendersInv, BegunInv, NEW s \in Sender, NEW c \in Conn,
           HandlerStep(s, c) \/ HandlerReturns(s, c)
    PROVE  BegunInv'
<1> DEFINE l == link[s][c]
<1>1. l \in LinkRecord /\ BegunOK(l) /\ LinkOK(l, ToSet(committed[s]))
  BY DEF MailboxTypes, BegunInv, SendersInv, SenderInv
<1>2. CASE HandlerReturns(s, c)
  <2> DEFINE k == [NoLink EXCEPT !.open = l.open]
  <2>1. k \in LinkRecord /\ k.pc = "dead"
    BY <1>1, NoLinkIs DEF LinkRecord
  <2>2. link' = [link EXCEPT ![s][c] = k]
    BY <1>2 DEF HandlerReturns
  <2> HIDE DEF k
  <2> QED
    BY <2>1, <2>2, BegunFrame DEF BegunOK
<1>3. CASE HandlerEnqueues(s, c)
  <2> DEFINE k == [l EXCEPT !.pc = "loop", !.localBuffer = <<>>, !.hasBegun = FALSE]
  <2>1. <<>> \in Seq(Message)
    OBVIOUS
  <2>2. k \in LinkRecord /\ k.in = l.in /\ k.localBuffer = <<>> /\ k.pc = "loop"
    BY <1>1, <2>1 DEF LinkRecord
  <2>3. link' = [link EXCEPT ![s][c] = k] /\ l.pc = "enqueue"
    BY <1>3 DEF HandlerEnqueues
  <2> HIDE DEF k
  <2> QED
    BY <1>1, <2>2, <2>3, BegunFrame DEF BegunOK
<1>4. ASSUME HandleBegin(s, c) \/ HandleValue(s, c) \/ HandlePreCommit(s, c) \/ HandleCommit(s, c)
      PROVE  BegunInv'
  <2>1. l.pc = "loop" /\ l.in # <<>> /\ Head(l.in) = l.in[1]
    BY <1>1, <1>4, TailIs
       DEF HandleBegin, HandleValue, HandlePreCommit, HandleCommit, Reads, LinkRecord
  <2> DEFINE r == ReadLink(s, c)
  <2>2. /\ r \in LinkRecord /\ r.in = Tail(l.in) /\ r.pc = l.pc /\ r.out = l.out
        /\ r.localBuffer = l.localBuffer /\ r.hasBegun = l.hasBegun
    BY <1>1, <2>1, ReadLinkIs DEF ReadLink, LinkRecord
  <2>3. l.in[1].tag # "begin" => l.hasBegun
    BY <1>1, <2>1 DEF BegunOK
  <2> HIDE DEF r
  <2>4. CASE HandleBegin(s, c)
    <3> DEFINE k == [r EXCEPT !.localBuffer = <<>>, !.hasBegun = TRUE]
    <3>1. k \in LinkRecord /\ k.pc = "loop" /\ k.hasBegun
      <4>1. <<>> \in Seq(Message)
        OBVIOUS
      <4> QED
        BY <2>1, <2>2, <4>1 DEF LinkRecord
    <3>2. link' = [link EXCEPT ![s][c] = k]
      BY <2>4 DEF HandleBegin, r
    <3> HIDE DEF k
    <3> QED
      BY <3>1, <3>2, BegunFrame DEF BegunOK
  <2>5. CASE HandleValue(s, c)
    <3>1. l.in[1].tag = "value" /\ l.in[1] \in Record
      BY <1>1, <2>1, <2>5 DEF HandleValue, Reads, LinkRecord
    <3>2. CASE closing = "open"
      <4> DEFINE k == [r EXCEPT !.localBuffer = Append(@, Head(l.in).value)]
      <4>1. Append(l.localBuffer, l.in[1].value) \in Seq(Message)
        BY <1>1, <3>1 DEF LinkRecord, Record
      <4>2. k \in LinkRecord /\ k.pc = "loop" /\ k.hasBegun
        BY <2>1, <2>2, <2>3, <3>1, <4>1 DEF LinkRecord
      <4>3. link' = [link EXCEPT ![s][c] = k]
        BY <2>5, <3>2 DEF HandleValue, r
      <4> HIDE DEF k
      <4> QED
        BY <4>2, <4>3, BegunFrame DEF BegunOK
    <3>3. CASE closing # "open"
      <4> DEFINE k == [r EXCEPT !.pc = "dead"]
      <4>1. k \in LinkRecord /\ k.pc = "dead"
        BY <2>2 DEF LinkRecord
      <4>2. link' = [link EXCEPT ![s][c] = k]
        BY <2>5, <3>3 DEF HandleValue, r
      <4> HIDE DEF k
      <4> QED
        BY <4>1, <4>2, BegunFrame DEF BegunOK
    <3> QED
      BY <3>2, <3>3
  <2>6. CASE HandlePreCommit(s, c)
    <3>1. l.in[1].tag = "preCommit"
      BY <2>1, <2>6 DEF HandlePreCommit, Reads
    <3>2. PICK k \in {r, [r EXCEPT !.out = Append(@, "preCommit")]} : link' = [link EXCEPT ![s][c] = k]
      BY <2>6 DEF HandlePreCommit, r
    <3>3. k \in LinkRecord /\ k.pc = "loop" /\ k.hasBegun
      <4>1. r.out \in Seq(Answer) /\ Append(r.out, "preCommit") \in Seq(Answer)
        BY <2>2 DEF LinkRecord, Answer
      <4> QED
        BY <2>1, <2>2, <2>3, <3>1, <4>1 DEF LinkRecord
    <3> QED
      BY <3>2, <3>3, BegunFrame DEF BegunOK
  <2>7. CASE HandleCommit(s, c)
    <3> DEFINE k == [r EXCEPT !.out = Append(@, "commit"), !.pc = "enqueue"]
    <3>1. r.out \in Seq(Answer) /\ Append(r.out, "commit") \in Seq(Answer)
      BY <2>2 DEF LinkRecord, Answer
    <3>2. k \in LinkRecord /\ k.pc = "enqueue" /\ k.in = Tail(l.in)
      BY <2>2, <3>1 DEF LinkRecord
    <3>3. link' = [link EXCEPT ![s][c] = k]
      BY <2>7 DEF HandleCommit, r
    <3> HIDE DEF k
    <3>4. k.in = <<>>
      <4>1. l.in \in Seq(Record) /\ l.in[1].tag = "commit" /\ 1 \in 1..Len(l.in)
        BY <1>1, <2>1, <2>7 DEF HandleCommit, Reads, LinkRecord
      <4>2. Len(l.in) = 1
        BY <1>1, <4>1 DEF LinkOK
      <4>3. Len(Tail(l.in)) = 0 /\ Tail(l.in) \in Seq(Record)
        BY <2>1, <4>1, <4>2
      <4>4. \A q \in Seq(Record) : Len(q) = 0 => q = <<>>
        OBVIOUS
      <4> QED
        BY <3>2, <4>3, <4>4
    <3> QED
      BY <3>2, <3>3, <3>4, BegunFrame DEF BegunOK
  <2> QED
    BY <1>4, <2>4, <2>5, <2>6, <2>7
<1> QED
  BY <1>2, <1>3, <1>4 DEF HandlerStep

\* The remote ends keep it.
LEMMA RemoteBegun ==
    ASSUME MailboxTypes, SendersInv, BegunInv, NEW s \in Sender,
           \/ WriteValue(s) \/ WriteValueFails(s) \/ Abort(s) \/ RemoteStep(s) \/ CloseRemote(s)
    PROVE  BegunInv'
<1> DEFINE c == conn[s]
<1> DEFINE l == link[s][c]
<1> DEFINE f == [NoLink EXCEPT !.open = TRUE, !.pc = "loop"]
<1> DEFINE b == resendBuffer[s]
<1>1. /\ c # 0 => /\ c \in Conn /\ l \in LinkRecord /\ BegunOK(l)
                  /\ CurrentOK(l, phase[s], b, ToSet(delivered[s]))
      /\ PhaseOK(s) /\ b \in Seq(Message) /\ conn[s] \in Nat
  BY OwnLink DEF BegunInv, MailboxTypes
<1>2. f \in LinkRecord /\ f.in = <<>> /\ f.pc = "loop" /\ BegunOK(f)
  <2>1. f.localBuffer = <<>>
    BY DEF NoLink
  <2> QED
    BY <2>1, FreshLink DEF BegunOK
<1> HIDE DEF f
<1>3. CASE UNCHANGED link
  BY <1>3 DEF BegunInv
<1>4. CASE c # 0 /\ Disconnect(s)
  <2> DEFINE k == [l EXCEPT !.open = FALSE]
  <2>1. k \in LinkRecord /\ BegunOK(k)
    BY <1>1, <1>4 DEF LinkRecord, BegunOK
  <2>2. link' = [link EXCEPT ![s][c] = k]
    BY <1>1, <1>4 DEF Disconnect, MailboxTypes
  <2> HIDE DEF k
  <2> QED
    BY <1>1, <1>4, <2>1, <2>2, BegunFrame
<1>5. CASE PreCommitAcked(s) \/ CommitAcked(s)
  <2> DEFINE k == [l EXCEPT !.out = Tail(@)]
  <2>1. c # 0 /\ l.out # <<>>
    BY <1>1, <1>5 DEF PreCommitAcked, CommitAcked, Answered, PhaseOK
  <2>2. l.out \in Seq(Answer) /\ Tail(l.out) \in Seq(Answer)
    BY <1>1, <2>1 DEF LinkRecord
  <2>3. k \in LinkRecord /\ BegunOK(k)
    BY <1>1, <2>1, <2>2 DEF LinkRecord, BegunOK
  <2>4. link' = [link EXCEPT ![s][c] = k]
    BY <1>5 DEF PreCommitAcked, CommitAcked
  <2> HIDE DEF k
  <2> QED
    BY <1>1, <2>1, <2>3, <2>4, BegunFrame
<1>6. ASSUME phase[s] = "open", l.in = <<>>
      PROVE  l.pc = "dead" \/ (l.pc = "loop" /\ l.localBuffer # <<>>)
  <2>1. c # 0 /\ b # <<>>
    BY <1>1, <1>6 DEF PhaseOK
  <2>2. l.pc = "dead" \/ Ends(l, 0, b)
    BY <1>1, <1>6, <2>1 DEF CurrentOK
  <2> QED
    BY <1>1, <2>1, <2>2, EndsHere
<1>7. ASSUME NEW r \in Record, c # 0, link' = [link EXCEPT ![s][c] = [l EXCEPT !.in = @ \o <<r>>]],
             \/ phase[s] = "open"
             \/ l.pc = "dead" \/ (l.pc = "loop" /\ l.localBuffer # <<>>)
      PROVE  BegunInv'
  <2> DEFINE k == [l EXCEPT !.in = @ \o <<r>>]
  <2>1. <<r>> \in Seq(Record) /\ <<r>> # <<>>
    OBVIOUS
  <2>2. k \in LinkRecord /\ BegunOK(k)
    BY <1>1, <1>6, <1>7, <2>1, AppendBegun
  <2> HIDE DEF k
  <2> QED
    BY <1>1, <1>7, <2>2, BegunFrame DEF k
<1>8. CASE PreCommit(s)
  <2>1. phase[s] = "open" /\ c # 0 /\ PreCommitTag \in Record
    BY <1>1, <1>8 DEF PreCommit, PhaseOK, PreCommitTag, Record
  <2>2. link' = [link EXCEPT ![s][c] = [l EXCEPT !.in = @ \o <<PreCommitTag>>]]
    BY <1>8 DEF PreCommit, Sent
  <2> QED
    BY <1>7, <2>1, <2>2
<1>9. CASE Commit(s)
  <2>1. phase[s] = "ready" /\ c # 0 /\ b # <<>>
    BY <1>1, <1>9 DEF Commit, PhaseOK
  <2>2. l.pc = "dead" \/ (l.pc = "loop" /\ l.localBuffer # <<>>)
    BY <1>1, <2>1 DEF CurrentOK
  <2>3. CommitTag \in Record
    BY DEF CommitTag, Record
  <2>4. link' = [link EXCEPT ![s][c] = [l EXCEPT !.in = @ \o <<CommitTag>>]]
    BY <1>9 DEF Commit, Sent
  <2> QED
    BY <1>7, <2>1, <2>2, <2>3, <2>4
<1>10. ASSUME NEW d \in Conn, NEW msgs \in Seq(Record), msgs # <<>>, msgs[1].tag = "begin",
              link' = [link EXCEPT ![s][d] = Sent(s, d, msgs)]
       PROVE  BegunInv'
  <2>1. CASE d = c
    <3> DEFINE k == [l EXCEPT !.in = @ \o msgs]
    <3>1. c # 0
      BY <2>1, BoundAssumption DEF Conn
    <3>2. k \in LinkRecord /\ BegunOK(k)
      BY <1>1, <1>10, <3>1, AppendBegun
    <3>3. link' = [link EXCEPT ![s][d] = k]
      BY <1>10, <2>1 DEF Sent
    <3> HIDE DEF k
    <3> QED
      BY <3>2, <3>3, BegunFrame
  <2>2. CASE d # c
    <3> DEFINE k == [f EXCEPT !.in = @ \o msgs]
    <3>1. k \in LinkRecord /\ BegunOK(k)
      BY <1>2, <1>10, AppendBegun
    <3>2. link' = [link EXCEPT ![s][d] = k]
      BY <1>10, <2>2 DEF Sent, f
    <3> HIDE DEF k
    <3> QED
      BY <3>1, <3>2, BegunFrame
  <2> QED
    BY <2>1, <2>2
<1>11. CASE Resend(s)
  <2> DEFINE msgs == <<Begin>> \o [i \in 1 .. Len(b) |-> Value(b[i])] \o <<CommitTag>>
  <2>1. msgs \in Seq(Record) /\ Len(msgs) = Len(b) + 2 /\ msgs[1].tag = "begin"
    BY <1>1, WholeExchange
  <2>2. \E d \in Conn : link' = [link EXCEPT ![s][d] = Sent(s, d, msgs)]
    BY <1>11 DEF Resend
  <2> HIDE DEF msgs
  <2>3. msgs # <<>>
    <3>1. Len(<<>>) = 0 /\ Len(b) \in Nat
      BY <1>1
    <3> QED
      BY <2>1, <3>1
  <2> QED
    BY <1>10, <2>1, <2>2, <2>3
<1>12. CASE WriteValue(s)
  <2> DEFINE m == <<s, Len(committed[s]) + 1, Len(resendBuffer[s]) + 1>>
  <2> DEFINE msgs == Append(IF phase[s] = "idle" THEN <<Begin>> ELSE <<>>, Value(m))
  <2>1. phase[s] \in {"idle", "open"} /\ m \in Message
    BY <1>12 DEF WriteValue
  <2>2. PICK d \in Conn : Connected(s, d) /\ link' = [link EXCEPT ![s][d] = Sent(s, d, msgs)]
    BY <1>12 DEF WriteValue
  <2> HIDE DEF m
  <2>3. Begin \in Record /\ Begin.tag = "begin" /\ Value(m) \in Record
    BY <2>1 DEF Begin, Value, Record
  <2>4. CASE phase[s] = "idle"
    <3>1. msgs = <<Begin, Value(m)>>
      BY <2>3, <2>4, AppendToOne
    <3>2. msgs \in Seq(Record) /\ msgs # <<>> /\ msgs[1] = Begin
      <4> HIDE DEF msgs
      <4>1. Len(msgs) = 2 /\ Len(<<>>) = 0 /\ msgs[1] = Begin /\ msgs \in Seq(Record)
        BY <2>3, <3>1
      <4> QED
        BY <4>1
    <3> HIDE DEF msgs
    <3> QED
      BY <1>10, <2>2, <2>3, <3>2
  <2>5. CASE phase[s] = "open"
    <3>1. msgs = <<Value(m)>>
      BY <2>5
    <3>2. c # 0 /\ d = c
      BY <1>1, <2>2, <2>5 DEF PhaseOK, Connected
    <3> HIDE DEF msgs
    <3> QED
      BY <1>7, <2>2, <2>3, <2>5, <3>1, <3>2 DEF Sent
  <2> QED
    BY <2>1, <2>4, <2>5
<1>13. WriteValueFails(s) \/ PreCommitFails(s) \/ CommitFails(s) => c # 0 /\ Disconnect(s)
  BY <1>1 DEF WriteValueFails, PreCommitFails, CommitFails, PhaseOK
<1>14. CloseRemote(s) => (c # 0 /\ Disconnect(s)) \/ UNCHANGED link
  BY DEF CloseRemote
<1>15. Abort(s) => UNCHANGED link
  BY DEF Abort
<1> QED
  BY <1>3, <1>4, <1>5, <1>8, <1>9, <1>11, <1>12, <1>13, <1>14, <1>15 DEF RemoteStep

\* The invariant holds at first.
LEMMA BegunInit == Init => BegunInv
<1>1. BegunOK(NoLink)
  BY NoLinkIs DEF BegunOK
<1> QED
  BY <1>1 DEF Init, BegunInv

\* Every step keeps it.
LEMMA BegunStep ==
    MailboxTypes /\ SendersInv /\ BegunInv /\ [Undisturbed]_vars => BegunInv'
<1> SUFFICES ASSUME MailboxTypes, SendersInv, BegunInv, [Undisturbed]_vars PROVE BegunInv'
  OBVIOUS
<1>1. CASE UNCHANGED link
  BY <1>1 DEF BegunInv
<1>2. ReadValue \/ LocalAbort \/ LocalCommit \/ Close \/ UNCHANGED vars => UNCHANGED link
  BY DEF ReadValue, LocalAbort, LocalCommit, Close, vars
<1> QED
  BY <1>1, <1>2, HandlerBegun, RemoteBegun DEF Undisturbed, DialFails

\* What ExchangesBegin says.
LEMMA BegunImplies == MailboxTypes /\ BegunInv => ExchangesBegin
<1> SUFFICES ASSUME MailboxTypes, BegunInv, NEW s \in Sender, NEW c \in Conn,
                    Reads(s, c, "value") \/ Reads(s, c, "preCommit") \/ Reads(s, c, "commit")
             PROVE  link[s][c].hasBegun
  BY DEF ExchangesBegin
<1>1. link[s][c].in \in Seq(Record) /\ link[s][c].in # <<>> /\ link[s][c].pc = "loop"
  BY DEF MailboxTypes, LinkRecord, Reads
<1>2. Head(link[s][c].in) = link[s][c].in[1]
  BY <1>1
<1> QED
  BY <1>1, <1>2 DEF BegunInv, BegunOK, Reads

-----------------------------------------------------------------------------
(* Until a section leaves a PreCommit running *)

\* Nothing has panicked, and no PreCommit runs that its section has given up.
Alone == panicked = FALSE /\ stray = [s \in Sender |-> <<>>]

\* The invariant of the remote ends and connections.
MailboxInv == MailboxTypes /\ SendersInv /\ BegunInv /\ Alone

\* What an abandoned PreCommit does, and all that only one makes possible, does not
\* happen before there is one.
LEMMA NobodyDisturbs ==
    MailboxInv /\ [Next]_vars /\ ~abandoned'
        => [Undisturbed]_vars /\ UNCHANGED <<stray, panicked>>
<1> SUFFICES ASSUME MailboxInv, [Next]_vars, ~abandoned'
             PROVE  [Undisturbed]_vars /\ UNCHANGED <<stray, panicked>>
  OBVIOUS
<1>1. CASE UNCHANGED vars
  BY <1>1 DEF vars, strays
<1>2. CASE Undisturbed
  <2>1. ASSUME NEW s \in Sender,
               WriteValue(s) \/ WriteValueFails(s) \/ DialFails(s) \/ Abort(s) \/ CloseRemote(s)
        PROVE  UNCHANGED strays
    BY <2>1 DEF WriteValue, WriteValueFails, DialFails, Abort, CloseRemote, vars
  <2>2. ASSUME NEW s \in Sender, RemoteStep(s) PROVE UNCHANGED strays
    BY <2>2 DEF RemoteStep, PreCommit, PreCommitAcked, PreCommitFails, Commit, CommitAcked,
                CommitFails, Resend
  <2>3. ASSUME NEW s \in Sender, NEW c \in Conn, HandlerStep(s, c) \/ HandlerReturns(s, c)
        PROVE  UNCHANGED strays
    BY <2>3 DEF HandlerStep, HandlerReturns, HandleBegin, HandleValue, HandlePreCommit,
                HandleCommit, HandlerEnqueues
  <2>4. ReadValue \/ LocalAbort \/ LocalCommit \/ Close => UNCHANGED strays
    BY DEF ReadValue, LocalAbort, LocalCommit, Close
  <2>5. UNCHANGED strays
    BY <1>2, <2>1, <2>2, <2>3, <2>4 DEF Undisturbed
  <2> QED
    BY <1>2, <2>5 DEF strays
<1>3. ASSUME NEW s \in Sender PROVE ~Abandon(s) /\ ~StrayStep(s) /\ ~ConnIsNil(s) /\ ~CommitLoses(s)
  <2>1. stray[s] = <<>> /\ DOMAIN stray[s] = {}
    BY DEF MailboxInv, Alone
  <2>2. PhaseOK(s)
    BY DEF MailboxInv, SendersInv, SenderInv
  <2>3. ~Abandon(s)
    BY DEF Abandon
  <2>4. ~StrayStep(s)
    BY <2>1 DEF StrayStep
  <2>5. ~ConnIsNil(s)
    BY <2>1, <2>2 DEF ConnIsNil, PhaseOK
  <2>6. ~CommitLoses(s)
    BY <2>1, <2>2 DEF CommitLoses, PhaseOK
  <2> QED
    BY <2>3, <2>4, <2>5, <2>6
<1>4. ASSUME NEW s \in Sender, NEW c \in Conn PROVE ~HandlerPanics(s, c)
  BY BegunImplies DEF HandlerPanics, ExchangesBegin, MailboxInv
<1> QED
  BY <1>1, <1>2, <1>3, <1>4 DEF Next, Disturbed, Done

\* Once a PreCommit was abandoned, that stays so; it is also a fault.
LEMMA AbandonedStays ==
    [Next]_vars => \/ abandoned' = abandoned
                   \/ \E s \in Sender : Abandon(s)
<1> SUFFICES ASSUME [Next]_vars PROVE abandoned' = abandoned \/ \E s \in Sender : Abandon(s)
  OBVIOUS
<1>1. UNCHANGED strays => abandoned' = abandoned
  BY DEF strays
<1>2. UNCHANGED vars => abandoned' = abandoned
  BY DEF vars, strays
<1>3. Panic => abandoned' = abandoned
  BY DEF Panic
<1>4. ASSUME NEW s \in Sender,
             WriteValue(s) \/ WriteValueFails(s) \/ DialFails(s) \/ Abort(s) \/ CloseRemote(s)
      PROVE  UNCHANGED strays
  BY <1>4 DEF WriteValue, WriteValueFails, DialFails, Abort, CloseRemote, vars
<1>5. ASSUME NEW s \in Sender, RemoteStep(s) PROVE UNCHANGED strays
  BY <1>5 DEF RemoteStep, PreCommit, PreCommitAcked, PreCommitFails, Commit, CommitAcked,
              CommitFails, Resend
<1>6. ASSUME NEW s \in Sender, NEW c \in Conn, HandlerStep(s, c) \/ HandlerReturns(s, c)
      PROVE  UNCHANGED strays
  BY <1>6 DEF HandlerStep, HandlerReturns, HandleBegin, HandleValue, HandlePreCommit,
              HandleCommit, HandlerEnqueues
<1>7. ReadValue \/ LocalAbort \/ LocalCommit \/ Close => UNCHANGED strays
  BY DEF ReadValue, LocalAbort, LocalCommit, Close
<1>8. ASSUME NEW s \in Sender, StrayStep(s) PROVE abandoned' = abandoned
  BY <1>3, <1>8 DEF StrayStep, StraySends, StrayAcked, StrayFails
<1>9. ASSUME NEW s \in Sender, ConnIsNil(s) PROVE abandoned' = abandoned
  BY <1>3, <1>9 DEF ConnIsNil
<1>10. ASSUME NEW s \in Sender, CommitLoses(s) PROVE abandoned' = abandoned
  BY <1>1, <1>10 DEF CommitLoses
<1>11. ASSUME NEW s \in Sender, NEW c \in Conn, HandlerPanics(s, c) PROVE abandoned' = abandoned
  BY <1>3, <1>11 DEF HandlerPanics
<1>12. Undisturbed => abandoned' = abandoned
  BY <1>1, <1>4, <1>5, <1>6, <1>7 DEF Undisturbed
<1> QED
  BY <1>2, <1>8, <1>9, <1>10, <1>11, <1>12 DEF Next, Disturbed, Done

\* The invariant of the remote ends and connections, until then.
LEMMA MailboxInvariant == Spec => [](~abandoned => MailboxInv)
<1>1. Init => MailboxInv
  BY MailboxInit, BegunInit DEF MailboxInv, Alone, Init
<1>2. ASSUME ~abandoned => MailboxInv, [Next]_vars, ~abandoned' PROVE MailboxInv'
  <2>1. ~abandoned
    BY <1>2, AbandonedStays DEF Abandon
  <2>2. [Undisturbed]_vars /\ UNCHANGED <<stray, panicked>>
    BY <1>2, <2>1, NobodyDisturbs
  <2>3. MailboxTypes' /\ SendersInv' /\ BegunInv'
    BY <1>2, <2>1, <2>2, MailboxStep, BegunStep DEF MailboxInv
  <2> QED
    BY <1>2, <2>1, <2>2, <2>3 DEF MailboxInv, Alone
<1> QED
  BY <1>1, <1>2, PTL DEF Spec

\* Only what the sender was told to commit enters the mailbox (handleConn passes on no
\* message of an aborted attempt), whatever breaks or is closed, until a section leaves a
\* PreCommit running.
THEOREM ArrivesOnlyIfCommitted == Spec => [](~abandoned => OnlyCommittedArrives)
<1>1. MailboxInv => OnlyCommittedArrives
  BY DEF MailboxInv, SendersInv, SenderInv, OnlyCommittedArrives
<1> QED
  BY <1>1, MailboxInvariant, PTL

\* After Commit of a remote end has returned, the batch is in the mailbox or held by a
\* handler that has acknowledged it, whatever breaks or is closed, until a section leaves
\* a PreCommit running.
THEOREM CommittedIsNeverLost == Spec => [](~abandoned => CommittedIsKept)
<1>1. MailboxInv => CommittedIsKept
  BY DEF MailboxInv, SendersInv, SenderInv, Kept, CommittedIsKept
<1> QED
  BY <1>1, MailboxInvariant, PTL

\* The panic of handleConn at a record that no begin precedes ("a correct TCP mailbox
\* exchange must always start with tcpMailboxBegin") is reached only if a section has left
\* a PreCommit running.
THEOREM NoExchangeWithoutBegin == Spec => [](~abandoned => ExchangesBegin)
<1>1. MailboxInv => ExchangesBegin
  BY BegunImplies DEF MailboxInv
<1> QED
  BY <1>1, MailboxInvariant, PTL

-----------------------------------------------------------------------------
(* Flattening a sequence of batches *)

\* Induction, for a set of numbers.
LEMMA SetInduction ==
    ASSUME NEW S, 0 \in S, \A n \in Nat : n \in S => n + 1 \in S
    PROVE  Nat \subseteq S
<1> DEFINE B == Nat \ S
<1> DEFINE R == {ss \in Nat \X Nat : ss[1] < ss[2]}
<1> SUFFICES ASSUME B # {} PROVE FALSE
  OBVIOUS
<1>1. IsWellFoundedOn(R, Nat)
  BY NatLessThanWellFounded DEF OpToRel
<1>2. PICK n \in B : \A m \in B : ~(<<m, n>> \in R)
  <2> HIDE DEF R
  <2> QED
    BY <1>1, WFMin
<1>3. n \in Nat /\ n # 0 /\ n - 1 \in Nat /\ n - 1 < n /\ (n - 1) + 1 = n
  BY <1>2
<1>4. n - 1 \in B
  BY <1>2, <1>3
<1> QED
  BY <1>2, <1>3, <1>4

\* f is the recursive function of FlattenSeq(q), up to n.
Flattens(f, q, n) ==
    f = [i \in 1..n |-> IF i = 1 THEN q[i] ELSE f[i - 1] \o q[i]]

\* Its values.
LEMMA FlattenValues ==
    ASSUME NEW f, NEW q, NEW n, Flattens(f, q, n)
    PROVE  \A i \in 1..n : f[i] = IF i = 1 THEN q[i] ELSE f[i - 1] \o q[i]
<1> DEFINE g == [i \in 1..n |-> IF i = 1 THEN q[i] ELSE f[i - 1] \o q[i]]
<1>1. f = g
  BY DEF Flattens
<1>2. \A i \in 1..n : g[i] = IF i = 1 THEN q[i] ELSE f[i - 1] \o q[i]
  OBVIOUS
<1> HIDE DEF g
<1> QED
  BY <1>1, <1>2

\* There is such a function, by induction on n.
LEMMA FlattenExists ==
    ASSUME NEW q, NEW n \in Nat
    PROVE  \E f : Flattens(f, q, n)
<1> DEFINE S == {k \in Nat : \E f : Flattens(f, q, k)}
<1>1. 0 \in S
  <2> DEFINE f == [i \in 1..0 |-> q[i]]
  <2>1. f = [i \in 1..0 |-> IF i = 1 THEN q[i] ELSE f[i - 1] \o q[i]]
    OBVIOUS
  <2> HIDE DEF f
  <2>2. Flattens(f, q, 0)
    BY <2>1 DEF Flattens
  <2> QED
    BY <2>2
<1>2. ASSUME NEW k \in Nat, k \in S PROVE k + 1 \in S
  <2>1. PICK f : \A i \in 1..k : f[i] = IF i = 1 THEN q[i] ELSE f[i - 1] \o q[i]
    BY <1>2, FlattenValues
  <2> DEFINE g == [i \in 1..(k + 1) |-> IF i = 1 THEN q[i] ELSE f[i - 1] \o q[i]]
  <2>2. \A i \in 1..(k + 1) : i # 1 => i - 1 \in 1..k /\ i - 1 \in 1..(k + 1)
    OBVIOUS
  <2>3. \A i \in 1..k : g[i] = f[i]
    BY <2>1
  <2>4. \A i \in 1..(k + 1) : i # 1 => g[i - 1] = f[i - 1]
    <3> HIDE DEF g
    <3> QED
      BY <2>2, <2>3
  <2>5. g = [i \in 1..(k + 1) |-> IF i = 1 THEN q[i] ELSE g[i - 1] \o q[i]]
    <3> DEFINE h(i) == IF i = 1 THEN q[i] ELSE g[i - 1] \o q[i]
    <3>1. \A i \in 1..(k + 1) : g[i] = h(i)
      BY <2>4
    <3> QED
      BY <3>1
  <2> HIDE DEF g
  <2>6. Flattens(g, q, k + 1)
    BY <2>5 DEF Flattens
  <2> QED
    BY <2>6
<1> HIDE DEF S
<1>3. n \in S
  BY <1>1, <1>2, SetInduction
<1> QED
  BY <1>3 DEF S

\* FlattenSeq is the last value of such a function.
LEMMA FlattenIs ==
    ASSUME NEW q, Len(q) \in Nat, Len(q) # 0
    PROVE  \E f : Flattens(f, q, Len(q)) /\ FlattenSeq(q) = f[Len(q)]
<1>1. FlattenSeq(q) = (CHOOSE f : Flattens(f, q, Len(q)))[Len(q)]
  BY DEF FlattenSeq, Flattens
<1>2. \E f : Flattens(f, q, Len(q))
  BY FlattenExists
<1>3. Flattens(CHOOSE f : Flattens(f, q, Len(q)), q, Len(q))
  BY <1>2
<1> QED
  BY <1>1, <1>3

\* Its values, one from the other.
FlattensOn(f, q, n) ==
    /\ n # 0 => f[1] = q[1]
    /\ \A i \in 1..n : i + 1 \in 1..n => f[i + 1] = f[i] \o q[i + 1]

LEMMA FlattensAt ==
    ASSUME NEW f, NEW q, NEW n \in Nat, Flattens(f, q, n)
    PROVE  FlattensOn(f, q, n)
<1>1. \A i \in 1..n : f[i] = IF i = 1 THEN q[i] ELSE f[i - 1] \o q[i]
  BY FlattenValues
<1>2. n # 0 => 1 \in 1..n
  OBVIOUS
<1>3. \A i \in 1..n : i + 1 \in 1..n => i + 1 # 1 /\ (i + 1) - 1 = i
  OBVIOUS
<1>4. n # 0 => f[1] = q[1]
  BY <1>1, <1>2
<1>5. ASSUME NEW i \in 1..n, i + 1 \in 1..n PROVE f[i + 1] = f[i] \o q[i + 1]
  <2>1. f[i + 1] = IF i + 1 = 1 THEN q[i + 1] ELSE f[(i + 1) - 1] \o q[i + 1]
    BY <1>1, <1>5
  <2> QED
    BY <1>3, <1>5, <2>1
<1> QED
  BY <1>4, <1>5 DEF FlattensOn

\* The laws of concatenation.
LEMMA ConcatAssoc ==
    ASSUME NEW T, NEW a \in Seq(T), NEW b \in Seq(T), NEW c \in Seq(T)
    PROVE  (a \o b) \o c = a \o (b \o c) /\ a \o <<>> = a /\ <<>> \o a = a
<1> DEFINE p == (a \o b) \o c
<1> DEFINE r == a \o (b \o c)
<1>1. /\ p \in Seq(T) /\ Len(p) = Len(a) + Len(b) + Len(c)
      /\ r \in Seq(T) /\ Len(r) = Len(a) + Len(b) + Len(c)
  OBVIOUS
<1>2. ASSUME NEW i \in 1..(Len(a) + Len(b) + Len(c)) PROVE p[i] = r[i]
  OBVIOUS
<1>3. p = r
  <2> HIDE DEF p, r
  <2> QED
    BY <1>1, <1>2
<1> QED
  BY <1>3

\* Concatenation keeps the type.
LEMMA ConcatType ==
    ASSUME NEW T, NEW a \in Seq(T), NEW b \in Seq(T)
    PROVE  a \o b \in Seq(T)
  OBVIOUS

\* Flattening one more batch, at the end.
LEMMA FlattenAppend ==
    ASSUME NEW T, NEW q \in Seq(Seq(T)), NEW b \in Seq(T)
    PROVE  FlattenSeq(Append(q, b)) = FlattenSeq(q) \o b
<1> DEFINE d == Append(q, b)
<1> DEFINE n == Len(q)
<1>1. /\ d \in Seq(Seq(T)) /\ Len(d) = n + 1 /\ n \in Nat /\ d[n + 1] = b
      /\ \A i \in 1..n : d[i] = q[i]
  OBVIOUS
<1> HIDE DEF d, n
<1>0. n + 1 \in Nat /\ n + 1 # 0
  BY <1>1
<1>2. PICK g : Flattens(g, d, n + 1) /\ FlattenSeq(d) = g[n + 1]
  BY <1>0, <1>1, FlattenIs DEF n
<1>5. FlattensOn(g, d, n + 1)
  BY <1>0, <1>2, FlattensAt
<1>3. CASE n = 0
  <2>1. FlattenSeq(q) = q /\ q = <<>>
    BY <1>3 DEF FlattenSeq, n
  <2>2. g[1] = d[1]
    BY <1>0, <1>5 DEF FlattensOn
  <2>3. FlattenSeq(d) = b
    BY <1>1, <1>2, <1>3, <2>2
  <2>4. <<>> \o b = b
    BY ConcatAssoc
  <2> QED
    BY <2>1, <2>3, <2>4 DEF d
<1>4. CASE n # 0
  <2>1. PICK f : Flattens(f, q, n) /\ FlattenSeq(q) = f[n]
    BY <1>1, <1>4, FlattenIs DEF n
  <2>0. FlattensOn(f, q, n)
    BY <1>1, <2>1, FlattensAt
  <2> DEFINE S == {k \in Nat : k + 1 \in 1..n => g[k + 1] = f[k + 1]}
  <2>2. 0 \in S
    <3>1. f[1] = q[1] /\ g[1] = d[1]
      <4>1. f[1] = q[1]
        BY <1>4, <2>0 DEF FlattensOn
      <4>2. g[1] = d[1]
        BY <1>0, <1>5 DEF FlattensOn
      <4> QED
        BY <4>1, <4>2
    <3>2. 1 \in 1..n /\ 0 + 1 = 1
      BY <1>1, <1>4
    <3> QED
      BY <1>1, <3>1, <3>2
  <2>3. ASSUME NEW k \in Nat, k \in S PROVE k + 1 \in S
    <3> SUFFICES ASSUME (k + 1) + 1 \in 1..n PROVE g[(k + 1) + 1] = f[(k + 1) + 1]
      OBVIOUS
    <3>1. k + 1 \in 1..n /\ k + 1 \in 1..(n + 1) /\ (k + 1) + 1 \in 1..(n + 1)
      BY <1>1
    <3>2. f[(k + 1) + 1] = f[k + 1] \o q[(k + 1) + 1]
      BY <2>0, <3>1 DEF FlattensOn
    <3>3. g[(k + 1) + 1] = g[k + 1] \o d[(k + 1) + 1]
      BY <1>5, <3>1 DEF FlattensOn
    <3> QED
      BY <1>1, <2>3, <3>1, <3>2, <3>3
  <2> HIDE DEF S
  <2>4. n - 1 \in S
    <3>1. n - 1 \in Nat
      BY <1>1, <1>4
    <3> QED
      BY <2>2, <2>3, <3>1, SetInduction
  <2>5. (n - 1) + 1 = n /\ n \in 1..n /\ n \in 1..(n + 1) /\ n + 1 \in 1..(n + 1)
    BY <1>1, <1>4
  <2>6. g[n] = f[n]
    BY <2>4, <2>5 DEF S
  <2>7. g[n + 1] = g[n] \o d[n + 1]
    BY <1>5, <2>5 DEF FlattensOn
  <2>8. d[n + 1] = b
    BY <1>1
  <2>9. FlattenSeq(d) = FlattenSeq(q) \o b
    BY <1>2, <2>1, <2>6, <2>7, <2>8
  <2> QED
    BY <2>9 DEF d
<1> QED
  BY <1>3, <1>4

\* Flattening one batch less, at the front.
LEMMA FlattenTail ==
    ASSUME NEW T, NEW q \in Seq(Seq(T)), q # <<>>
    PROVE  /\ FlattenSeq(Tail(q)) \in Seq(T)
           /\ FlattenSeq(q) = Head(q) \o FlattenSeq(Tail(q))
<1>9. \A x, y, z \in Seq(T) : (x \o y) \o z = x \o (y \o z)
  BY ConcatAssoc, SMTT(30)
<1> DEFINE t == Tail(q)
<1> DEFINE h == Head(q)
<1> DEFINE n == Len(t)
<1>1. /\ t \in Seq(Seq(T)) /\ Len(q) = n + 1 /\ n \in Nat /\ h = q[1] /\ h \in Seq(T)
      /\ \A i \in 1..n : t[i] = q[i + 1] /\ t[i] \in Seq(T)
  <2>1. t \in Seq(Seq(T)) /\ n = Len(q) - 1 /\ Len(q) \in Nat /\ Len(q) >= 1 /\ h = q[1]
    BY TailIs
  <2>2. \A i \in 1..n : t[i] = q[i + 1]
    BY TailIs
  <2>3. q[1] \in Seq(T) /\ \A i \in 1..n : t[i] \in Seq(T)
    <3> HIDE DEF t
    <3> QED
      BY <2>1
  <2> HIDE DEF t, h, n
  <2> QED
    BY <2>1, <2>2, <2>3
<1> HIDE DEF t, h, n
<1>0. n + 1 \in Nat /\ n + 1 # 0
  BY <1>1
<1>2. PICK g : Flattens(g, q, n + 1) /\ FlattenSeq(q) = g[n + 1]
  BY <1>0, <1>1, FlattenIs
<1>3. /\ g[1] = q[1]
      /\ \A i \in 1..(n + 1) : i + 1 \in 1..(n + 1) => g[i + 1] = g[i] \o q[i + 1]
  <2>1. FlattensOn(g, q, n + 1)
    BY <1>0, <1>2, FlattensAt
  <2> QED
    BY <1>0, <2>1 DEF FlattensOn
<1>4. CASE n = 0
  <2>1. FlattenSeq(t) = t /\ t = <<>>
    BY <1>1, <1>4 DEF FlattenSeq, n
  <2>2. <<>> \in Seq(T) /\ h \o <<>> = h
    BY <1>1, ConcatAssoc
  <2> QED
    BY <1>1, <1>2, <1>3, <1>4, <2>1, <2>2 DEF t, h
<1>5. CASE n # 0
  <2>1. PICK f : Flattens(f, t, n) /\ FlattenSeq(t) = f[n]
    BY <1>1, <1>5, FlattenIs DEF n
  <2>0. /\ f[1] = t[1]
        /\ \A i \in 1..n : i + 1 \in 1..n => f[i + 1] = f[i] \o t[i + 1]
    <3>1. n \in Nat /\ n # 0 /\ Flattens(f, t, n)
      BY <1>1, <1>5, <2>1
    <3>2. FlattensOn(f, t, n)
      BY <3>1, FlattensAt
    <3> QED
      BY <3>1, <3>2 DEF FlattensOn
  <2> DEFINE S == {k \in Nat : k + 1 \in 1..n => /\ f[k + 1] \in Seq(T)
                                                 /\ g[(k + 1) + 1] = h \o f[k + 1]}
  <2>2. 0 \in S
    <3>1. 1 \in 1..n /\ 0 + 1 = 1 /\ 1 \in 1..(n + 1) /\ 1 + 1 \in 1..(n + 1)
      BY <1>1, <1>5
    <3>2. g[1 + 1] = g[1] \o q[1 + 1]
      BY <1>3, <3>1
    <3> QED
      BY <1>1, <1>3, <2>0, <3>1, <3>2
  <2>3. ASSUME NEW k \in Nat, k \in S PROVE k + 1 \in S
    <3> SUFFICES ASSUME (k + 1) + 1 \in 1..n
                 PROVE  /\ f[(k + 1) + 1] \in Seq(T)
                        /\ g[((k + 1) + 1) + 1] = h \o f[(k + 1) + 1]
      OBVIOUS
    <3>1. /\ k + 1 \in 1..n /\ (k + 1) + 1 \in 1..(n + 1) /\ ((k + 1) + 1) + 1 \in 1..(n + 1)
      BY <1>1
    <3>2. f[(k + 1) + 1] = f[k + 1] \o t[(k + 1) + 1]
      BY <2>0, <3>1
    <3>3. g[((k + 1) + 1) + 1] = g[(k + 1) + 1] \o q[((k + 1) + 1) + 1]
      BY <1>3, <3>1
    <3>4. f[k + 1] \in Seq(T) /\ g[(k + 1) + 1] = h \o f[k + 1]
      BY <2>3, <3>1
    <3>5. t[(k + 1) + 1] \in Seq(T) /\ t[(k + 1) + 1] = q[((k + 1) + 1) + 1]
      BY <1>1
    <3>6. f[(k + 1) + 1] \in Seq(T)
      BY <3>2, <3>4, <3>5
    <3>7. (h \o f[k + 1]) \o t[(k + 1) + 1] = h \o (f[k + 1] \o t[(k + 1) + 1])
      BY <1>1, <1>9, <3>4, <3>5, ZenonT(60)
    <3>8. g[((k + 1) + 1) + 1] = (h \o f[k + 1]) \o t[(k + 1) + 1]
      BY <3>3, <3>4, <3>5
    <3> QED
      BY <3>2, <3>6, <3>7, <3>8
  <2> HIDE DEF S
  <2>4. n - 1 \in S
    <3>1. n - 1 \in Nat
      BY <1>1, <1>5
    <3> QED
      BY <2>2, <2>3, <3>1, SetInduction
  <2>5. (n - 1) + 1 = n /\ n \in 1..n
    BY <1>1, <1>5
  <2>6. f[n] \in Seq(T) /\ g[n + 1] = h \o f[n]
    BY <2>4, <2>5 DEF S
  <2> QED
    BY <1>2, <2>1, <2>6 DEF t, h
<1> QED
  BY <1>4, <1>5

\* The messages of the batches.
LEMMA FlattenType ==
    ASSUME NEW T, NEW q \in Seq(Seq(T))
    PROVE  FlattenSeq(q) \in Seq(T)
<1>1. CASE q = <<>>
  BY <1>1 DEF FlattenSeq
<1>2. CASE q # <<>>
  <2>1. Head(q) \in Seq(T)
    BY <1>2
  <2> QED
    BY <1>2, <2>1, FlattenTail, ConcatType
<1> QED
  BY <1>1, <1>2

-----------------------------------------------------------------------------
(* Without faults *)

\* Senders that a step does not touch.
LEMMA OthersCalm ==
    ASSUME FaultFreeInv, faults = 0, NEW s \in Sender, WithoutFaults(s)',
           closing' = "open" => closing = "open",
           \A t \in Sender : t # s =>
              /\ phase'[t] = phase[t] /\ conn'[t] = conn[t] /\ dialled'[t] = dialled[t]
              /\ link'[t] = link[t]
              /\ committed'[t] = committed[t] /\ delivered'[t] = delivered[t]
    PROVE  FaultFreeInv'
<1> SUFFICES ASSUME NEW t \in Sender, t # s PROVE WithoutFaults(t)'
  BY DEF FaultFreeInv
<1>1. WithoutFaults(t)
  BY DEF FaultFreeInv
<1> QED
  BY <1>1 DEF WithoutFaults, Calm

\* The first connection and the later ones.
LEMMA FirstConn == 1 \in Conn /\ \A c \in Conn : c \in Nat /\ (c = 1 \/ c >= 2)
  BY BoundAssumption DEF Conn

\* A step that changes the connection c of s.
LEMMA CalmLink ==
    ASSUME MailboxTypes, SendersInv, FaultFreeInv, faults = 0, NEW s \in Sender, NEW c \in Conn,
           NEW k \in LinkRecord, link' = [link EXCEPT ![s][c] = k],
           NEW ph, NEW cn, NEW d,
           phase' = [phase EXCEPT ![s] = ph], conn' = [conn EXCEPT ![s] = cn],
           dialled' = [dialled EXCEPT ![s] = d], UNCHANGED <<closing, committed, delivered>>,
           closing = "open" => OpenOK(ph, cn, d, link'[s]),
           c >= 2 => LateOK(k),
           cn >= 2 => ph # "ready",
           ph = "resend" => d >= 1,
           Pending(committed[s], delivered[s]) => PendingOK(ph, cn, link'[s]),
           c = 1 => FirstOK(k, ph, committed[s], delivered[s]),
           c # 1 /\ phase[s] \in Committing => ph \in Committing
    PROVE  FaultFreeInv'
<1>1. WithoutFaults(s)
  BY DEF FaultFreeInv
<1>2. /\ link'[s][c] = k
      /\ \A e \in Conn : e # c => link'[s][e] = link[s][e]
      /\ \A t \in Sender : t # s => link'[t] = link[t]
  BY OneLink
<1>3. phase'[s] = ph /\ conn'[s] = cn /\ dialled'[s] = d
  BY DEF MailboxTypes
<1>4. \A e \in Conn : e >= 2 => LateOK(link'[s][e])
  BY <1>1, <1>2 DEF WithoutFaults, Calm
<1>5. FirstOK(link'[s][1], ph, committed[s], delivered[s])
  <2>1. CASE c = 1
    BY <1>2, <2>1
  <2>2. CASE c # 1
    BY <1>1, <1>2, <2>2, FirstConn DEF WithoutFaults, Calm, FirstOK
  <2> QED
    BY <2>1, <2>2
<1>6. WithoutFaults(s)'
  BY <1>1, <1>3, <1>4, <1>5 DEF WithoutFaults, Calm
<1> QED
  BY <1>2, <1>6, OthersCalm DEF MailboxTypes

\* A step of a handler that has not acknowledged a commit.
LEMMA CalmHandler ==
    ASSUME MailboxTypes, SendersInv, FaultFreeInv, faults = 0, NEW s \in Sender, NEW c \in Conn,
           NEW k \in LinkRecord, link' = [link EXCEPT ![s][c] = k],
           UNCHANGED <<remotes, closing, history>>, link[s][c].pc = "loop",
           closing = "open" /\ c = conn[s] => k.pc # "dead" /\ k.open,
           c >= 2 => LateOK(k),
           k.out = link[s][c].out \/ k.out = <<>> \/ (c = conn[s] => phase[s] # "commitWait")
             \/ (c = 1 /\ k.pc = "enqueue"),
           c = 1 => FirstOK(k, phase[s], committed[s], delivered[s])
    PROVE  FaultFreeInv'
<1>1. /\ WithoutFaults(s) /\ phase' = phase /\ conn' = conn /\ dialled' = dialled
      /\ committed' = committed /\ delivered' = delivered
  BY DEF FaultFreeInv, remotes, history
<1>2. /\ link'[s][c] = k
      /\ \A e \in Conn : e # c => link'[s][e] = link[s][e]
  BY OneLink, ZenonT(60)
<1>3. conn[s] \in Nat /\ (conn[s] # 0 => conn[s] \in Conn)
  BY OwnLink DEF MailboxTypes
<1>4. closing = "open" => OpenOK(phase[s], conn[s], dialled[s], link'[s])
  BY <1>1, <1>2, <1>3 DEF WithoutFaults, Calm, OpenOK
<1>5. Pending(committed[s], delivered[s]) => PendingOK(phase[s], conn[s], link'[s])
  <2> SUFFICES ASSUME Pending(committed[s], delivered[s])
               PROVE  PendingOK(phase[s], conn[s], link'[s])
    OBVIOUS
  <2>1. PendingOK(phase[s], conn[s], link[s])
    BY <1>1 DEF WithoutFaults, Calm
  <2>2. CASE link[s][1].pc = "enqueue" \/ phase[s] = "resend"
    BY <1>2, <2>2, FirstConn DEF PendingOK
  <2>3. CASE phase[s] = "commitWait" /\ link[s][conn[s]].out = <<>>
    <3>1. conn[s] \in Conn
      BY <1>3, <2>3, OwnLink DEF PhaseOK
    <3> QED
      BY <1>2, <2>3, <3>1 DEF PendingOK
  <2> QED
    BY <2>1, <2>2, <2>3 DEF PendingOK
<1>6. /\ phase' = [phase EXCEPT ![s] = phase[s]] /\ conn' = [conn EXCEPT ![s] = conn[s]]
      /\ dialled' = [dialled EXCEPT ![s] = dialled[s]]
  BY <1>1, OwnLink
<1>7. /\ conn[s] >= 2 => phase[s] # "ready"
      /\ phase[s] = "resend" => dialled[s] >= 1
  BY <1>1 DEF WithoutFaults, Calm
<1>8. UNCHANGED <<closing, committed, delivered>>
  BY <1>1
<1> QED
  BY <1>4, <1>5, <1>6, <1>7, <1>8, CalmLink

\* A connection that was opened when the local end was closing carries no commit record
\* that is read.
LEMMA LateLinks ==
    ASSUME MailboxTypes, SendersInv, FaultFreeInv, faults = 0, NEW s \in Sender, NEW c \in Conn,
           c >= 2
    PROVE  /\ LateOK(link[s][c])
           /\ closing = "open" => link[s][c].pc = "dead"
           /\ link[s][c].pc = "loop" /\ link[s][c].in # <<>> =>
                link[s][c].in[1].tag # "commit"
<1> DEFINE l == link[s][c]
<1>1. WithoutFaults(s) /\ SenderInv(s) /\ l \in LinkRecord
  BY DEF FaultFreeInv, SendersInv, MailboxTypes
<1>2. LateOK(l)
  BY <1>1 DEF WithoutFaults, Calm
<1>3. ASSUME closing = "open" PROVE l.pc = "dead"
  <2>1. dialled[s] <= 1 /\ dialled[s] \in Nat /\ c \in Nat
    BY <1>1, <1>3, FirstConn DEF WithoutFaults, Calm, OpenOK, MailboxTypes
  <2>2. c > dialled[s]
    BY <2>1
  <2> QED
    BY <1>1, <2>2, NoLinkIs DEF SenderInv
<1>4. ASSUME l.pc = "loop", l.in # <<>>, l.in[1].tag = "commit" PROVE FALSE
  <2>1. LinkOK(l, ToSet(committed[s])) /\ l.in \in Seq(Record)
    BY <1>1 DEF SenderInv, LinkRecord
  <2>2. 1 \in 1..Len(l.in)
    BY <1>4, <2>1
  <2>3. Len(l.in) = 1
    BY <1>4, <2>1, <2>2 DEF LinkOK
  <2>4. PICK b \in ToSet(committed[s]) : Ends(l, 0, b)
    BY <1>4, <2>1, <2>3 DEF LinkOK, LastTag
  <2>5. b \in Seq(Message) /\ b # <<>>
    <3>1. PICK i \in DOMAIN committed[s] : b = committed[s][i]
      BY <2>4, Zenon DEF ToSet
    <3>2. b # <<>>
      BY <1>1, <3>1 DEF SenderInv
    <3> QED
      BY <2>4, <3>2, BatchesSent
  <2>6. l.localBuffer = b
    BY <1>1, <2>4, <2>5, EndsHere
  <2> QED
    BY <1>2, <2>5, <2>6 DEF LateOK
<1> QED
  BY <1>2, <1>3, <1>4

\* The batch under way, as its sender and its connection know it.
LEMMA LastBatch ==
    ASSUME MailboxTypes, SendersInv, NEW s \in Sender, Pending(committed[s], delivered[s])
    PROVE  LET b == committed[s][Len(committed[s])] IN b \in Seq(Message) /\ b # <<>>
<1>1. /\ committed[s] \in Seq(Seq(Message)) /\ delivered[s] \in Seq(Seq(Message))
      /\ SenderInv(s)
  BY DEF MailboxTypes, SendersInv
<1>2. Len(committed[s]) \in DOMAIN committed[s]
  BY <1>1 DEF Pending
<1> QED
  BY <1>1, <1>2 DEF SenderInv

\* The handlers keep the invariant, short of passing a batch on.
LEMMA HandlerCalm ==
    ASSUME MailboxTypes, SendersInv, FaultFreeInv, faults = 0, NEW s \in Sender, NEW c \in Conn,
           \/ HandleBegin(s, c) \/ HandleValue(s, c) \/ HandlePreCommit(s, c)
           \/ HandleCommit(s, c) \/ HandlerReturns(s, c)
    PROVE  FaultFreeInv'
<1> DEFINE l == link[s][c]
<1>1. /\ l \in LinkRecord /\ LinkOK(l, ToSet(committed[s])) /\ WithoutFaults(s)
      /\ c = conn[s] => CurrentOK(l, phase[s], resendBuffer[s], ToSet(delivered[s]))
      /\ c # 0
  <2>1. c # 0 /\ SenderInv(s) /\ WithoutFaults(s)
    BY FirstConn DEF FaultFreeInv, SendersInv
  <2> QED
    BY <2>1 DEF MailboxTypes, SenderInv
<1>2. /\ l.in \in Seq(Record) /\ l.out \in Seq(Answer) /\ l.localBuffer \in Seq(Message)
      /\ Append(l.out, "preCommit") \in Seq(Answer) /\ Append(l.out, "commit") \in Seq(Answer)
      /\ <<>> \in Seq(Message)
      /\ \A m \in Message : Append(l.localBuffer, m) \in Seq(Message)
  BY <1>1 DEF LinkRecord, Answer
<1>3. l.in # <<>> => /\ Tail(l.in) \in Seq(Record) /\ Head(l.in) = l.in[1] /\ l.in[1] \in Record
  BY <1>2
<1>4. l.pc = "loop" /\ UNCHANGED <<remotes, closing, history>>
  BY DEF HandleBegin, HandleValue, HandlePreCommit, HandleCommit, HandlerReturns, Reads
<1>5. c = 1 => FirstOK(l, phase[s], committed[s], delivered[s])
  BY <1>1 DEF WithoutFaults, Calm
<1>6. closing = "open" /\ c = conn[s] => l.open
  BY <1>1 DEF WithoutFaults, Calm, OpenOK
<1>7. l.in # <<>> =>
        /\ ReadLink(s, c) \in LinkRecord /\ ReadLink(s, c).in = Tail(l.in)
        /\ ReadLink(s, c).pc = "loop" /\ ReadLink(s, c).out = l.out
        /\ ReadLink(s, c).localBuffer = l.localBuffer /\ ReadLink(s, c).open = l.open
  BY <1>1, <1>3, <1>4 DEF ReadLink, LinkRecord
<1>8. ASSUME NEW k \in LinkRecord, l.in # <<>>, k.in = Tail(l.in), k.pc = "loop",
             \/ l.in[1].tag = "begin" /\ k.localBuffer = <<>>
             \/ l.in[1].tag = "value" /\ k.localBuffer = Append(l.localBuffer, l.in[1].value),
             c = 1
      PROVE  FirstOK(k, phase[s], committed[s], delivered[s])
  <2> DEFINE n == Len(l.in) - 1
  <2> DEFINE b == committed[s][Len(committed[s])]
  <2>1. /\ Len(k.in) = Len(l.in) - 1 /\ Len(l.in) \in Nat /\ Len(l.in) >= 1
        /\ \A i \in 1..(Len(l.in) - 1) : k.in[i] = l.in[i + 1]
    BY <1>2, <1>8, TailIs
  <2> SUFFICES ASSUME k.in # <<>>, LastTag(k) = "commit"
               PROVE  /\ Pending(committed[s], delivered[s]) /\ phase[s] \in Committing
                      /\ Ends(k, Len(k.in) - 1, b)
    BY <1>8 DEF FirstOK
  <2>2. k.in \in Seq(Record)
    BY <1>8 DEF LinkRecord
  <2>3. Len(k.in) # 0
    BY <2>2
  <2>4. n \in 1..(Len(l.in) - 1) /\ n + 1 = Len(l.in) /\ n \in 1..Len(l.in) /\ Len(k.in) = n
    BY <2>1, <2>3, SMTT(30)
  <2>5. LastTag(l) = "commit"
    BY <2>1, <2>4 DEF LastTag
  <2>6. /\ Pending(committed[s], delivered[s]) /\ phase[s] \in Committing /\ Ends(l, n, b)
    BY <1>4, <1>5, <1>8, <2>5 DEF FirstOK
  <2>7. b \in Seq(Message)
    BY <2>6, LastBatch
  <2> HIDE DEF n, b
  <2>8. Ends(k, n - 1, b)
    BY <1>1, <1>4, <1>8, <2>4, <2>6, <2>7, ReadHead
  <2> QED
    BY <2>4, <2>6, <2>8 DEF b
<1>9. CASE HandleBegin(s, c)
  <2> DEFINE k == [ReadLink(s, c) EXCEPT !.localBuffer = <<>>, !.hasBegun = TRUE]
  <2>1. /\ l.in # <<>> /\ Head(l.in).tag = "begin" /\ link' = [link EXCEPT ![s][c] = k]
    BY <1>9 DEF HandleBegin, Reads
  <2>2. /\ k \in LinkRecord /\ k.in = Tail(l.in) /\ k.out = l.out /\ k.pc = "loop"
        /\ k.localBuffer = <<>> /\ k.open = l.open
    BY <1>2, <1>7, <2>1 DEF LinkRecord
  <2> HIDE DEF k
  <2>3. c = 1 => FirstOK(k, phase[s], committed[s], delivered[s])
    BY <1>3, <1>8, <2>1, <2>2
  <2>4. c >= 2 => LateOK(k)
    BY <2>2, LateLinks DEF LateOK
  <2> QED
    BY <1>4, <1>6, <2>1, <2>2, <2>3, <2>4, CalmHandler
<1>10. CASE HandleValue(s, c)
  <2>1. l.in # <<>> /\ Head(l.in).tag = "value" /\ l.in[1].tag = "value" /\ l.in[1] \in Record
    BY <1>3, <1>10 DEF HandleValue, Reads
  <2>2. CASE closing = "open"
    <3> DEFINE k == [ReadLink(s, c) EXCEPT !.localBuffer = Append(@, Head(l.in).value)]
    <3>1. link' = [link EXCEPT ![s][c] = k]
      BY <1>10, <2>2 DEF HandleValue
    <3>2. l.in[1].value \in Message
      BY <2>1 DEF Record
    <3>3. /\ k \in LinkRecord /\ k.in = Tail(l.in) /\ k.out = l.out /\ k.pc = "loop"
          /\ k.localBuffer = Append(l.localBuffer, l.in[1].value) /\ k.open = l.open
      BY <1>2, <1>3, <1>7, <2>1, <3>2 DEF LinkRecord
    <3> HIDE DEF k
    <3>4. c = 1 => FirstOK(k, phase[s], committed[s], delivered[s])
      BY <1>8, <2>1, <3>3
    <3>5. ~(c >= 2)
      BY <1>4, <2>2, LateLinks
    <3> QED
      BY <1>4, <1>6, <3>1, <3>3, <3>4, <3>5, CalmHandler
  <2>3. CASE closing # "open"
    <3> DEFINE k == [ReadLink(s, c) EXCEPT !.pc = "dead"]
    <3>1. link' = [link EXCEPT ![s][c] = k]
      BY <1>10, <2>3 DEF HandleValue
    <3>2. /\ k \in LinkRecord /\ k.out = l.out /\ k.pc = "dead" /\ k.localBuffer = l.localBuffer
      BY <1>7, <2>1 DEF LinkRecord
    <3> HIDE DEF k
    <3>3. FirstOK(k, phase[s], committed[s], delivered[s])
      BY <3>2 DEF FirstOK
    <3>4. c >= 2 => LateOK(k)
      BY <3>2, LateLinks DEF LateOK
    <3> QED
      BY <1>4, <2>3, <3>1, <3>2, <3>3, <3>4, CalmHandler
  <2> QED
    BY <2>2, <2>3
<1>11. ASSUME l.in # <<>>, l.in[1].tag \in {"preCommit", "commit"}
       PROVE  Len(l.in) = 1 /\ Tail(l.in) = <<>> /\ LastTag(l) = l.in[1].tag
  <2>1. 1 \in 1..Len(l.in)
    BY <1>2, <1>11
  <2>2. Len(l.in) = 1
    BY <1>1, <1>11, <2>1 DEF LinkOK
  <2>3. Len(Tail(l.in)) = 0 /\ Tail(l.in) \in Seq(Record)
    BY <1>2, <1>11, <2>2, TailIs
  <2>4. \A q \in Seq(Record) : Len(q) = 0 => q = <<>>
    OBVIOUS
  <2> QED
    BY <2>2, <2>3, <2>4 DEF LastTag
<1>12. CASE HandlePreCommit(s, c)
  <2>1. /\ l.in # <<>> /\ l.in[1].tag = "preCommit" /\ Tail(l.in) = <<>>
        /\ LastTag(l) = "preCommit"
    BY <1>3, <1>11, <1>12 DEF HandlePreCommit, Reads
  <2>2. c = conn[s] => phase[s] # "commitWait"
    BY <1>1, <1>4, <2>1 DEF CurrentOK
  <2> DEFINE r == ReadLink(s, c)
  <2>3. PICK k \in {r, [r EXCEPT !.out = Append(@, "preCommit")]} :
           /\ link' = [link EXCEPT ![s][c] = k]
           /\ closing # "open" => k = r
    BY <1>12 DEF HandlePreCommit
  <2>4. /\ k \in LinkRecord /\ k.pc = "loop" /\ k.in = <<>> /\ k.open = l.open
        /\ k.localBuffer = l.localBuffer /\ (closing # "open" => k.out = l.out)
    BY <1>2, <1>7, <2>1, <2>3 DEF LinkRecord
  <2>5. FirstOK(k, phase[s], committed[s], delivered[s])
    BY <2>4 DEF FirstOK
  <2>6. c >= 2 => LateOK(k)
    BY <1>4, <2>4, LateLinks DEF LateOK
  <2> QED
    BY <1>4, <1>6, <2>2, <2>3, <2>4, <2>5, <2>6, CalmHandler
<1>13. CASE HandleCommit(s, c)
  <2>1. /\ l.in # <<>> /\ l.in[1].tag = "commit" /\ Tail(l.in) = <<>> /\ Len(l.in) = 1
        /\ LastTag(l) = "commit"
    BY <1>3, <1>11, <1>13 DEF HandleCommit, Reads
  <2>2. c = 1
    BY <1>4, <2>1, FirstConn, LateLinks
  <2> DEFINE k == [ReadLink(s, c) EXCEPT !.out = Append(@, "commit"), !.pc = "enqueue"]
  <2>3. link' = [link EXCEPT ![s][c] = k]
    BY <1>13 DEF HandleCommit
  <2>4. k \in LinkRecord /\ k.pc = "enqueue" /\ k.localBuffer = l.localBuffer /\ k.open = l.open
    BY <1>2, <1>7, <2>1 DEF LinkRecord
  <2> HIDE DEF k
  <2> DEFINE b == committed[s][Len(committed[s])]
  <2>5. Pending(committed[s], delivered[s]) /\ Ends(l, 0, b)
    BY <1>4, <1>5, <2>1, <2>2 DEF FirstOK
  <2>6. l.localBuffer = b
    BY <1>1, <2>5, LastBatch, EndsHere
  <2>7. FirstOK(k, phase[s], committed[s], delivered[s])
    BY <2>4, <2>5, <2>6 DEF FirstOK
  <2>8. ~(c >= 2)
    BY <2>2
  <2> QED
    BY <1>4, <1>6, <2>2, <2>3, <2>4, <2>7, <2>8, CalmHandler
<1>14. CASE HandlerReturns(s, c)
  <2> DEFINE k == [NoLink EXCEPT !.open = l.open]
  <2>1. link' = [link EXCEPT ![s][c] = k] /\ (closing = "open" => ~l.open)
    BY <1>14 DEF HandlerReturns
  <2>2. k \in LinkRecord /\ k.out = <<>> /\ k.pc = "dead" /\ k.localBuffer = <<>>
    BY <1>1, <1>2, NoLinkIs DEF LinkRecord, NoLink
  <2> HIDE DEF k
  <2>3. FirstOK(k, phase[s], committed[s], delivered[s]) /\ LateOK(k)
    BY <2>2 DEF FirstOK, LateOK
  <2> QED
    BY <1>4, <1>6, <2>1, <2>2, <2>3, CalmHandler
<1> QED
  BY <1>9, <1>10, <1>12, <1>13, <1>14

\* The batch that a handler has acknowledged is the one under way.
LEMMA EnqueueCalm ==
    ASSUME MailboxTypes, SendersInv, FaultFreeInv, faults = 0, NEW s \in Sender, NEW c \in Conn,
           HandlerEnqueues(s, c)
    PROVE  /\ FaultFreeInv' /\ Pending(committed[s], delivered[s])
           /\ link[s][c].localBuffer = committed[s][Len(committed[s])]
           /\ link[s][c].localBuffer # <<>> /\ link[s][c].localBuffer \in Seq(Message)
           /\ delivered' = [delivered EXCEPT ![s] = Append(@, link[s][c].localBuffer)]
<1> DEFINE l == link[s][c]
<1> DEFINE b == l.localBuffer
<1> DEFINE sent == committed[s]
<1> DEFINE entered == delivered[s]
<1> DEFINE after == Append(entered, b)
<1> DEFINE k == [l EXCEPT !.pc = "loop", !.localBuffer = <<>>, !.hasBegun = FALSE]
<1>1. /\ l.pc = "enqueue" /\ link' = [link EXCEPT ![s][c] = k]
      /\ UNCHANGED <<phase, conn, dialled, closing, committed>>
  BY DEF HandlerEnqueues, remotes
<1>2. /\ WithoutFaults(s) /\ l \in LinkRecord /\ LinkOK(l, ToSet(sent))
      /\ sent \in Seq(Seq(Message)) /\ entered \in Seq(Seq(Message))
  BY DEF FaultFreeInv, SendersInv, SenderInv, MailboxTypes
<1>3. c = 1
  BY <1>1, FirstConn, LateLinks DEF LateOK
<1>4. Pending(sent, entered) /\ b = sent[Len(sent)]
  BY <1>1, <1>2, <1>3 DEF WithoutFaults, Calm, FirstOK
<1>5. b # <<>> /\ b \in Seq(Message)
  BY <1>4, LastBatch
<1>6. delivered' = [delivered EXCEPT ![s] = after]
  BY <1>5 DEF HandlerEnqueues
<1>7. k \in LinkRecord /\ k.out = l.out /\ k.in = l.in /\ k.pc = "loop" /\ k.open = l.open
  <2>1. <<>> \in Seq(Message)
    OBVIOUS
  <2> QED
    BY <1>2, <2>1 DEF LinkRecord
<1> HIDE DEF k
<1>8. /\ link'[s][c] = k
      /\ \A e \in Conn : e # c => link'[s][e] = link[s][e]
      /\ \A t \in Sender : t # s => link'[t] = link[t]
  BY <1>1, <1>7, OneLink
<1>9. /\ Len(after) = Len(entered) + 1 /\ Len(sent) = Len(entered) + 1 /\ Len(entered) \in Nat
      /\ \A i \in 1..Len(after) : after[i] = sent[i]
  <2>1. \A i \in 1..Len(entered) : entered[i] = sent[i]
    BY <1>2 DEF WithoutFaults, Calm, InOrder
  <2>2. /\ Len(after) = Len(entered) + 1 /\ Len(entered) \in Nat /\ after[Len(entered) + 1] = b
        /\ \A i \in 1..Len(entered) : after[i] = entered[i]
    BY <1>2, <1>5
  <2>3. Len(sent) = Len(entered) + 1
    BY <1>4 DEF Pending
  <2> HIDE DEF after, entered, sent
  <2> QED
    BY <1>4, <2>1, <2>2, <2>3
<1> HIDE DEF after
<1>10. InOrder(sent, after) /\ ~Pending(sent, after)
  BY <1>9 DEF InOrder, Pending
<1>11. FirstOK(k, phase[s], sent, after)
  BY <1>1, <1>2, <1>7 DEF FirstOK, LinkOK, LastTag
<1>12. \A e \in Conn : e >= 2 => LateOK(link'[s][e])
  <2> SUFFICES ASSUME NEW e \in Conn, e >= 2 PROVE LateOK(link'[s][e])
    OBVIOUS
  <2>1. e # c
    BY <1>3
  <2>2. LateOK(link[s][e])
    BY <1>2 DEF WithoutFaults, Calm
  <2> QED
    BY <1>8, <2>1, <2>2
<1>13. closing = "open" => OpenOK(phase[s], conn[s], dialled[s], link'[s])
  <2>1. conn[s] # 0 => conn[s] \in Conn
    BY OwnLink
  <2> QED
    BY <1>1, <1>2, <1>7, <1>8, <2>1 DEF WithoutFaults, Calm, OpenOK
<1>14. delivered'[s] = after
  BY <1>6 DEF MailboxTypes
<1>15. WithoutFaults(s)'
  BY <1>1, <1>2, <1>3, <1>8, <1>10, <1>11, <1>12, <1>13, <1>14 DEF WithoutFaults, Calm
<1>16. FaultFreeInv'
  BY <1>1, <1>6, <1>8, <1>15, OthersCalm DEF MailboxTypes
<1> QED
  BY <1>4, <1>5, <1>6, <1>16 DEF after

\* A sender that gives up its connection because of Close, or closes it.
LEMMA DisconnectCalm ==
    ASSUME MailboxTypes, SendersInv, FaultFreeInv, faults = 0, faults' = 0, NEW s \in Sender,
           \/ WriteValueFails(s) \/ PreCommitFails(s) \/ CommitFails(s)
           \/ CloseRemote(s) /\ conn[s] # 0
    PROVE  FaultFreeInv'
<1> DEFINE c == conn[s]
<1> DEFINE l == link[s][c]
<1> DEFINE k == [l EXCEPT !.open = FALSE]
<1>1. /\ c # 0 /\ Disconnect(s) /\ UNCHANGED <<dialled, closing, committed, delivered>>
      /\ CloseRemote(s) \/ Broken(s)
  BY OwnLink DEF WriteValueFails, PreCommitFails, CommitFails, CloseRemote, history, PhaseOK
<1>2. PICK ph \in {"failed", "resend", "closed"} :
         /\ phase' = [phase EXCEPT ![s] = ph]
         /\ phase[s] \in Committing <=> ph = "resend"
         /\ phase[s] = "commitWait" => ph = "resend"
         /\ CloseRemote(s) => ph = "closed"
         /\ phase[s] # "resend"
  <2>1. CASE WriteValueFails(s)
    BY <2>1 DEF WriteValueFails, Committing, CloseRemote
  <2>2. CASE PreCommitFails(s)
    BY <2>2 DEF PreCommitFails, Committing, CloseRemote
  <2>3. CASE CommitFails(s)
    BY <2>3 DEF CommitFails, Committing, CloseRemote
  <2>4. CASE CloseRemote(s)
    BY <2>4 DEF Committing, CloseRemote
  <2> QED
    BY <2>1, <2>2, <2>3, <2>4
<1>3. /\ c \in Conn /\ l \in LinkRecord /\ WithoutFaults(s) /\ c \in 0..dialled[s]
      /\ dialled[s] \in Nat /\ c \in Nat
  BY <1>1, OwnLink DEF FaultFreeInv, SenderInv, MailboxTypes
<1>4. k \in LinkRecord /\ k.in = l.in /\ k.out = l.out /\ k.pc = l.pc /\ k.localBuffer = l.localBuffer
  BY <1>3 DEF LinkRecord
<1>5. link' = [link EXCEPT ![s][c] = k] /\ conn' = [conn EXCEPT ![s] = 0]
  BY <1>1, <1>3 DEF Disconnect, MailboxTypes
<1> HIDE DEF k
<1>6. link'[s][c] = k /\ \A e \in Conn : e # c => link'[s][e] = link[s][e]
  BY <1>3, <1>4, <1>5, OneLink
<1>7. closing = "open" => OpenOK(ph, 0, dialled[s], link'[s])
  <2>1. CASE CloseRemote(s)
    BY <1>2, <1>3, <2>1 DEF WithoutFaults, Calm, OpenOK
  <2>2. CASE Broken(s)
    <3>1. l.pc = "dead" \/ closing # "open"
      BY <2>2 DEF Broken
    <3> QED
      BY <1>1, <1>3, <3>1 DEF WithoutFaults, Calm, OpenOK
  <2> QED
    BY <1>1, <2>1, <2>2
<1>8. c >= 2 => LateOK(k)
  BY <1>3, <1>4, LateLinks DEF LateOK
<1>9. dialled[s] >= 1
  BY <1>1, <1>3
<1>10. Pending(committed[s], delivered[s]) => PendingOK(ph, 0, link'[s])
  <2> SUFFICES ASSUME Pending(committed[s], delivered[s]) PROVE PendingOK(ph, 0, link'[s])
    OBVIOUS
  <2>1. PendingOK(phase[s], conn[s], link[s])
    BY <1>3 DEF WithoutFaults, Calm
  <2>2. link[s][1].pc = "enqueue" => link'[s][1].pc = "enqueue"
    BY <1>4, <1>6, FirstConn
  <2> QED
    BY <1>2, <2>1, <2>2 DEF PendingOK
<1>11. c = 1 => FirstOK(k, ph, committed[s], delivered[s])
  <2> SUFFICES ASSUME c = 1 PROVE FirstOK(k, ph, committed[s], delivered[s])
    OBVIOUS
  <2>1. FirstOK(l, phase[s], committed[s], delivered[s])
    BY <1>3 DEF WithoutFaults, Calm
  <2>2. \A n, b : Ends(l, n, b) => Ends(k, n, b)
    <3>1. \A j, n, b, p : Spells(l, j, n, b, p) => Spells(k, j, n, b, p)
      BY <1>4 DEF Spells
    <3>2. \A j, n, b : BeginsAt(l, j, n, b) => BeginsAt(k, j, n, b)
      BY <1>4, <3>1 DEF BeginsAt
    <3>3. \A n, b : Continues(l, n, b) => Continues(k, n, b)
      BY <1>4, <3>1 DEF Continues
    <3> QED
      BY <3>2, <3>3 DEF Ends
  <2>3. ph \in Committing <=> ph = "resend"
    BY <1>2 DEF Committing
  <2> QED
    BY <1>2, <1>4, <2>1, <2>2, <2>3 DEF FirstOK, LastTag
<1>12. /\ dialled' = [dialled EXCEPT ![s] = dialled[s]]
       /\ UNCHANGED <<closing, committed, delivered>>
       /\ phase[s] \in Committing => ph \in Committing
  BY <1>1, <1>2, OwnLink DEF Committing
<1> QED
  BY <1>2, <1>3, <1>4, <1>5, <1>7, <1>8, <1>9, <1>10, <1>11, <1>12, CalmLink

\* A section that ends without a commit changes no connection.
LEMMA AbortCalm ==
    ASSUME MailboxTypes, SendersInv, FaultFreeInv, faults = 0, NEW s \in Sender,
           Abort(s) \/ (CloseRemote(s) /\ conn[s] = 0)
    PROVE  FaultFreeInv'
<1>1. /\ UNCHANGED <<conn, dialled, link, closing, committed, delivered>>
      /\ phase[s] \notin Committing /\ phase[s] # "closed"
  BY DEF Abort, CloseRemote, history, Committing
<1>2. PICK ph \in {"idle", "closed"} : phase' = [phase EXCEPT ![s] = ph]
  BY DEF Abort, CloseRemote
<1>3. WithoutFaults(s)
  BY DEF FaultFreeInv
<1>4. phase'[s] = ph
  BY <1>2 DEF MailboxTypes
<1>5. WithoutFaults(s)'
  BY <1>1, <1>3, <1>4 DEF WithoutFaults, Calm, OpenOK, PendingOK, FirstOK, Committing
<1> QED
  BY <1>1, <1>2, <1>5, OthersCalm DEF MailboxTypes

\* An acknowledgement comes on the first connection.
LEMMA AckedCalm ==
    ASSUME MailboxTypes, SendersInv, FaultFreeInv, faults = 0, NEW s \in Sender,
           PreCommitAcked(s) \/ CommitAcked(s)
    PROVE  FaultFreeInv'
<1>0. PICK c \in Conn : c = conn[s] /\ c # 0
  BY OwnLink DEF PreCommitAcked, CommitAcked, PhaseOK
<1> DEFINE l == link[s][c]
<1> DEFINE k == [l EXCEPT !.out = Tail(@)]
<1>1. /\ c # 0 /\ l.out # <<>> /\ link' = [link EXCEPT ![s][c] = k]
      /\ UNCHANGED <<conn, dialled, closing, committed, delivered>>
  BY <1>0 DEF PreCommitAcked, CommitAcked, Answered, history
<1>2. /\ c \in Conn /\ l \in LinkRecord /\ WithoutFaults(s)
      /\ CurrentOK(l, phase[s], resendBuffer[s], ToSet(delivered[s]))
  BY <1>0, <1>1, OwnLink DEF FaultFreeInv
<1>3. /\ k \in LinkRecord /\ k.in = l.in /\ k.pc = l.pc /\ k.localBuffer = l.localBuffer
      /\ k.open = l.open
  <2>1. Tail(l.out) \in Seq(Answer)
    BY <1>1, <1>2 DEF LinkRecord
  <2> QED
    BY <1>2, <2>1 DEF LinkRecord
<1>4. c = 1
  BY <1>0, <1>1, <1>2, FirstConn, LateLinks DEF LateOK
<1> HIDE DEF k
<1>5. PICK ph \in {"ready", "idle"} :
         /\ phase' = [phase EXCEPT ![s] = ph]
         /\ \/ phase[s] = "preCommit" /\ ph = "ready"
            \/ phase[s] = "commitWait" /\ ph = "idle"
  BY DEF PreCommitAcked, CommitAcked
<1>6. link'[s][c] = k /\ \A e \in Conn : e # c => link'[s][e] = link[s][e]
  BY <1>1, <1>2, <1>3, OneLink
<1>7. closing = "open" => OpenOK(ph, c, dialled[s], link'[s])
  BY <1>0, <1>1, <1>2, <1>3, <1>6 DEF WithoutFaults, Calm, OpenOK
<1>8. Pending(committed[s], delivered[s]) => PendingOK(ph, c, link'[s])
  <2>1. Pending(committed[s], delivered[s]) => PendingOK(phase[s], c, link[s])
    BY <1>0, <1>2 DEF WithoutFaults, Calm
  <2> QED
    BY <1>1, <1>3, <1>4, <1>5, <1>6, <2>1 DEF PendingOK
<1>9. FirstOK(k, ph, committed[s], delivered[s])
  <2>1. FirstOK(l, phase[s], committed[s], delivered[s])
    BY <1>2, <1>4 DEF WithoutFaults, Calm
  <2>2. phase[s] = "commitWait" => l.in = <<>>
    BY <1>1, <1>2 DEF CurrentOK
  <2>3. phase[s] = "preCommit" => phase[s] \notin Committing
    BY DEF Committing
  <2> QED
    BY <1>3, <1>5, <2>1, <2>2, <2>3 DEF FirstOK, LastTag
<1>10. PICK d \in Nat : d = dialled[s]
  BY DEF MailboxTypes
<1>11. conn' = [conn EXCEPT ![s] = c] /\ dialled' = [dialled EXCEPT ![s] = d]
  <2>1. conn' = conn /\ dialled' = dialled
    BY <1>1
  <2> QED
    BY <1>0, <1>10, <2>1, OwnLink
<1>12. UNCHANGED <<closing, committed, delivered>> /\ ~(c >= 2) /\ ph # "resend"
  BY <1>1, <1>4, <1>5
<1>13. closing = "open" => OpenOK(ph, c, d, link'[s])
  BY <1>7, <1>10
<1>14. k \in LinkRecord /\ link' = [link EXCEPT ![s][c] = k] /\ phase' = [phase EXCEPT ![s] = ph]
  BY <1>1, <1>3, <1>5
<1> HIDE DEF l
<1> QED
  BY <1>4, <1>8, <1>9, <1>11, <1>12, <1>13, <1>14, CalmLink

\* What is on a stream after records were written to it.
LEMMA WritingMany ==
    ASSUME NEW l \in LinkRecord, NEW msgs \in Seq(Record), msgs # <<>>
    PROVE  LET k == [l EXCEPT !.in = @ \o msgs] IN
           /\ k \in LinkRecord /\ k.pc = l.pc /\ k.localBuffer = l.localBuffer /\ k.out = l.out
           /\ k.open = l.open /\ k.in # <<>> /\ LastTag(k) = msgs[Len(msgs)].tag
<1> DEFINE k == [l EXCEPT !.in = @ \o msgs]
<1>1. l.in \in Seq(Record) /\ l.in \o msgs \in Seq(Record)
  BY DEF LinkRecord
<1>2. /\ k \in LinkRecord /\ k.pc = l.pc /\ k.localBuffer = l.localBuffer /\ k.out = l.out
      /\ k.open = l.open /\ k.in = l.in \o msgs
  BY <1>1 DEF LinkRecord
<1> HIDE DEF k
<1>3. Len(msgs) \in Nat /\ Len(msgs) # 0 /\ Len(l.in) \in Nat
  BY <1>1
<1>4. Len(k.in) = Len(l.in) + Len(msgs) /\ k.in[Len(l.in) + Len(msgs)] = msgs[Len(msgs)]
  BY <1>1, <1>2, <1>3
<1>5. k.in # <<>>
  <2>1. Len(k.in) # 0 /\ Len(<<>>) = 0
    BY <1>3, <1>4
  <2> QED
    BY <2>1, Zenon
<1> QED
  BY <1>2, <1>4, <1>5 DEF LastTag, k

\* A sender writes to its connection, before it commits.
LEMMA SendsCalm ==
    ASSUME MailboxTypes, SendersInv, FaultFreeInv, faults = 0, NEW s \in Sender,
           NEW c \in Conn, c = conn[s], NEW k \in LinkRecord, link' = [link EXCEPT ![s][c] = k],
           k.pc = link[s][c].pc, k.localBuffer = link[s][c].localBuffer,
           k.out = link[s][c].out, k.open = link[s][c].open,
           LastTag(k) # "commit",
           NEW ph \in {"open", "preCommit"}, phase' = [phase EXCEPT ![s] = ph],
           phase[s] \notin Committing, phase[s] # "closed",
           UNCHANGED <<conn, dialled, closing, committed, delivered>>
    PROVE  FaultFreeInv'
<1>1. WithoutFaults(s) /\ c # 0
  BY FirstConn DEF FaultFreeInv
<1>2. link'[s][c] = k /\ \A e \in Conn : e # c => link'[s][e] = link[s][e]
  BY <1>1, OneLink
<1>3. closing = "open" => OpenOK(ph, c, dialled[s], link'[s])
  BY <1>1, <1>2 DEF WithoutFaults, Calm, OpenOK
<1>4. c >= 2 => LateOK(k)
  BY <1>1, LateLinks DEF LateOK
<1>5. Pending(committed[s], delivered[s]) => PendingOK(ph, c, link'[s])
  <2>1. link[s][1].pc = "enqueue" => link'[s][1].pc = "enqueue"
    BY <1>2, FirstConn
  <2> QED
    BY <1>1, <2>1 DEF WithoutFaults, Calm, PendingOK, Committing
<1>6. FirstOK(link'[s][1], ph, committed[s], delivered[s])
  <2>1. CASE c = 1
    BY <1>1, <1>2, <2>1 DEF WithoutFaults, Calm, FirstOK
  <2>2. CASE c # 1
    BY <1>1, <1>2, <2>2, FirstConn DEF WithoutFaults, Calm, FirstOK
  <2> QED
    BY <2>1, <2>2
<1>7. \A e \in Conn : e >= 2 => LateOK(link'[s][e])
  BY <1>1, <1>2, <1>4 DEF WithoutFaults, Calm
<1>8. phase'[s] = ph /\ \A t \in Sender : t # s => phase'[t] = phase[t] /\ link'[t] = link[t]
  BY OneLink DEF MailboxTypes
<1>9. WithoutFaults(s)'
  BY <1>1, <1>3, <1>5, <1>6, <1>7, <1>8 DEF WithoutFaults, Calm
<1> QED
  BY <1>8, <1>9, OthersCalm

\* A sender opens a connection, its first as long as the local end is open.
LEMMA OpensCalm ==
    ASSUME MailboxTypes, SendersInv, FaultFreeInv, faults = 0, NEW s \in Sender, conn[s] = 0,
           NEW c \in Conn, c = dialled[s] + 1,
           NEW k \in LinkRecord, link' = [link EXCEPT ![s][c] = k],
           k.pc = "loop", k.localBuffer = <<>>, k.out = <<>>, k.open,
           conn' = [conn EXCEPT ![s] = c], dialled' = [dialled EXCEPT ![s] = c],
           NEW ph, phase' = [phase EXCEPT ![s] = ph],
           \/ phase[s] = "idle" /\ ph = "open" /\ LastTag(k) # "commit"
           \/ phase[s] = "resend" /\ ph = "commitWait",
           UNCHANGED <<closing, committed, delivered>>
    PROVE  FaultFreeInv'
<1>1. /\ WithoutFaults(s) /\ dialled[s] \in Nat /\ c \in Nat /\ c # 0 /\ c > dialled[s]
      /\ link[s][c] = NoLink
  <2>1. WithoutFaults(s) /\ SenderInv(s) /\ dialled[s] \in Nat
    BY OwnLink DEF FaultFreeInv, MailboxTypes
  <2>2. c \in Nat /\ c # 0 /\ c > dialled[s]
    BY <2>1
  <2> QED
    BY <2>1, <2>2 DEF SenderInv
<1>2. link'[s][c] = k /\ \A e \in Conn : e # c => link'[s][e] = link[s][e]
  <2>1. link' = [link EXCEPT ![s][c] = k]
    OBVIOUS
  <2> QED
    BY <2>1 DEF MailboxTypes
<1>3. closing = "open" => phase[s] = "idle" /\ c = 1
  BY <1>1 DEF WithoutFaults, Calm, OpenOK
<1>4. phase[s] = "resend" => c # 1
  BY <1>1 DEF WithoutFaults, Calm
<1>5. closing = "open" => OpenOK(ph, c, c, link'[s])
  BY <1>1, <1>2, <1>3 DEF OpenOK
<1>6. Pending(committed[s], delivered[s]) => PendingOK(ph, c, link'[s])
  <2> SUFFICES ASSUME Pending(committed[s], delivered[s]) PROVE PendingOK(ph, c, link'[s])
    OBVIOUS
  <2>1. PendingOK(phase[s], conn[s], link[s])
    BY <1>1 DEF WithoutFaults, Calm
  <2>2. link[s][1].pc = "enqueue" => link'[s][1].pc = "enqueue"
    BY <1>1, <1>2, FirstConn, NoLinkIs
  <2> QED
    BY <1>2, <2>1, <2>2 DEF PendingOK
<1>7. c = 1 => FirstOK(k, ph, committed[s], delivered[s])
  BY <1>4 DEF FirstOK
<1>8. /\ LateOK(k) /\ ph # "ready" /\ ph # "resend"
      /\ phase[s] \in Committing => ph \in Committing
  BY DEF LateOK, Committing
<1> QED
  BY <1>5, <1>6, <1>7, <1>8, CalmLink

\* The link that Sent returns.
LEMMA SentIs ==
    ASSUME MailboxTypes, SendersInv, NEW s \in Sender, NEW c \in Conn,
           NEW msgs \in Seq(Record), msgs # <<>>
    PROVE  LET k == Sent(s, c, msgs)
               l == link[s][c]
           IN  /\ k \in LinkRecord /\ LastTag(k) = msgs[Len(msgs)].tag
               /\ c = conn[s] => /\ k.pc = l.pc /\ k.localBuffer = l.localBuffer
                                 /\ k.out = l.out /\ k.open = l.open
               /\ c # conn[s] => /\ k.pc = "loop" /\ k.localBuffer = <<>>
                                 /\ k.out = <<>> /\ k.open
<1> DEFINE f == [NoLink EXCEPT !.open = TRUE, !.pc = "loop"]
<1>1. CASE c = conn[s]
  <2> DEFINE k == [link[s][c] EXCEPT !.in = @ \o msgs]
  <2>1. /\ k \in LinkRecord /\ LastTag(k) = msgs[Len(msgs)].tag
        /\ k.pc = link[s][c].pc /\ k.localBuffer = link[s][c].localBuffer
        /\ k.out = link[s][c].out /\ k.open = link[s][c].open
    <3>1. link[s][c] \in LinkRecord
      BY DEF MailboxTypes
    <3> QED
      BY <3>1, WritingMany
  <2>2. Sent(s, c, msgs) = k
    BY <1>1 DEF Sent
  <2> HIDE DEF k
  <2> QED
    BY <1>1, <2>1, <2>2
<1>2. CASE c # conn[s]
  <2> DEFINE k == [f EXCEPT !.in = @ \o msgs]
  <2>1. f \in LinkRecord /\ f.out = <<>> /\ f.pc = "loop" /\ f.localBuffer = <<>> /\ f.open
    BY FreshLink DEF NoLink
  <2>2. Sent(s, c, msgs) = k
    BY <1>2 DEF Sent
  <2> HIDE DEF f
  <2>3. /\ k \in LinkRecord /\ LastTag(k) = msgs[Len(msgs)].tag
        /\ k.pc = "loop" /\ k.localBuffer = <<>> /\ k.out = <<>> /\ k.open
    BY <2>1, WritingMany
  <2> HIDE DEF k
  <2> QED
    BY <1>2, <2>2, <2>3
<1> QED
  BY <1>1, <1>2

\* A value is written to the first connection, or to one that will bring nothing.
LEMMA WriteCalm ==
    ASSUME MailboxTypes, SendersInv, FaultFreeInv, faults = 0, NEW s \in Sender, WriteValue(s)
    PROVE  FaultFreeInv'
<1> DEFINE m == <<s, Len(committed[s]) + 1, Len(resendBuffer[s]) + 1>>
<1> DEFINE msgs == Append(IF phase[s] = "idle" THEN <<Begin>> ELSE <<>>, Value(m))
<1>1. /\ phase[s] \in {"idle", "open"} /\ m \in Message /\ phase' = [phase EXCEPT ![s] = "open"]
      /\ UNCHANGED <<closing, committed, delivered>>
  BY DEF WriteValue, history
<1>2. PICK c \in Conn : /\ Connected(s, c) /\ conn' = [conn EXCEPT ![s] = c]
                        /\ link' = [link EXCEPT ![s][c] = Sent(s, c, msgs)]
  BY DEF WriteValue
<1> HIDE DEF m
<1>3. msgs \in Seq(Record) /\ msgs # <<>> /\ msgs[Len(msgs)].tag # "commit"
  <2>1. Begin \in Record /\ Value(m) \in Record /\ Value(m).tag = "value"
    BY <1>1 DEF Begin, Value, Record
  <2>2. \A p \in Seq(Record) : LET q == Append(p, Value(m)) IN
           q \in Seq(Record) /\ q # <<>> /\ q[Len(q)] = Value(m)
    <3> SUFFICES ASSUME NEW p \in Seq(Record)
                 PROVE  LET q == Append(p, Value(m)) IN
                        q \in Seq(Record) /\ q # <<>> /\ q[Len(q)] = Value(m)
      OBVIOUS
    <3>1. Append(p, Value(m)) # <<>>
      BY <2>1, AppendTo
    <3> QED
      BY <2>1, <3>1
  <2>3. <<Begin>> \in Seq(Record) /\ <<>> \in Seq(Record)
    BY <2>1
  <2> QED
    BY <2>1, <2>2, <2>3
<1> HIDE DEF msgs
<1>4. PhaseOK(s) /\ c # 0
  BY OwnLink, FirstConn
<1> DEFINE k == Sent(s, c, msgs)
<1>7. /\ k \in LinkRecord /\ LastTag(k) # "commit" /\ link' = [link EXCEPT ![s][c] = k]
      /\ c = conn[s] => /\ k.pc = link[s][c].pc /\ k.localBuffer = link[s][c].localBuffer
                        /\ k.out = link[s][c].out /\ k.open = link[s][c].open
      /\ c # conn[s] => k.pc = "loop" /\ k.localBuffer = <<>> /\ k.out = <<>> /\ k.open
  BY <1>2, <1>3, SentIs
<1> HIDE DEF k
<1>5. CASE conn[s] # 0
  <2>1. c = conn[s] /\ UNCHANGED <<conn, dialled>>
    BY <1>2, <1>5, OwnLink DEF Connected
  <2>2. phase[s] \notin Committing /\ phase[s] # "closed"
    BY <1>1 DEF Committing
  <2>3. UNCHANGED <<conn, dialled, closing, committed, delivered>>
    BY <1>1, <2>1
  <2> QED
    BY <1>1, <1>7, <2>1, <2>2, <2>3, SendsCalm
<1>6. CASE conn[s] = 0
  <2>1. phase[s] = "idle"
    BY <1>1, <1>4, <1>6 DEF PhaseOK
  <2>2. c = dialled[s] + 1 /\ dialled' = [dialled EXCEPT ![s] = c]
    BY <1>2, <1>4, <1>6 DEF Connected
  <2> QED
    BY <1>1, <1>2, <1>4, <1>6, <1>7, <2>1, <2>2, OpensCalm, ZenonT(60)
<1> QED
  BY <1>5, <1>6

\* Without faults a batch is sent again only if the local end is closing.
LEMMA ResendCalm ==
    ASSUME MailboxTypes, SendersInv, FaultFreeInv, faults = 0, NEW s \in Sender, Resend(s)
    PROVE  FaultFreeInv'
<1> DEFINE b == resendBuffer[s]
<1> DEFINE msgs == <<Begin>> \o [i \in 1 .. Len(b) |-> Value(b[i])] \o <<CommitTag>>
<1>1. /\ phase[s] = "resend" /\ phase' = [phase EXCEPT ![s] = "commitWait"]
      /\ UNCHANGED <<closing, committed, delivered>>
  BY DEF Resend, history
<1>2. PICK c \in Conn : /\ Connected(s, c) /\ conn' = [conn EXCEPT ![s] = c]
                        /\ link' = [link EXCEPT ![s][c] = Sent(s, c, msgs)]
  BY DEF Resend
<1>3. conn[s] = 0 /\ c # 0 /\ b \in Seq(Message)
  BY <1>1, OwnLink, FirstConn DEF PhaseOK
<1>4. msgs \in Seq(Record) /\ Len(msgs) = Len(b) + 2
  BY <1>3, WholeExchange
<1> HIDE DEF msgs
<1>5. msgs # <<>>
  <2>1. Len(<<>>) = 0 /\ Len(b) \in Nat
    BY <1>3
  <2> QED
    BY <1>4, <2>1
<1>6. c = dialled[s] + 1 /\ dialled' = [dialled EXCEPT ![s] = c]
  BY <1>2, <1>3 DEF Connected
<1> DEFINE k == Sent(s, c, msgs)
<1>7. /\ k \in LinkRecord /\ link' = [link EXCEPT ![s][c] = k]
      /\ k.pc = "loop" /\ k.localBuffer = <<>> /\ k.out = <<>> /\ k.open
  BY <1>2, <1>3, <1>4, <1>5, SentIs
<1> HIDE DEF k
<1> QED
  BY <1>1, <1>2, <1>3, <1>6, <1>7, OpensCalm

\* A precommit record commits nothing.
LEMMA PreCommitCalm ==
    ASSUME MailboxTypes, SendersInv, FaultFreeInv, faults = 0, NEW s \in Sender, PreCommit(s)
    PROVE  FaultFreeInv'
<1>1. /\ phase[s] = "open" /\ phase' = [phase EXCEPT ![s] = "preCommit"]
      /\ link' = [link EXCEPT ![s][conn[s]] = Sent(s, conn[s], <<PreCommitTag>>)]
      /\ UNCHANGED <<conn, dialled, closing, committed, delivered>>
  BY DEF PreCommit, history
<1>2. /\ <<PreCommitTag>> \in Seq(Record) /\ <<PreCommitTag>> # <<>>
      /\ <<PreCommitTag>>[Len(<<PreCommitTag>>)].tag # "commit"
  <2>1. PreCommitTag \in Record /\ PreCommitTag.tag # "commit"
    BY DEF PreCommitTag, Record
  <2> QED
    BY <2>1
<1>3. conn[s] # 0 /\ phase[s] \notin Committing
  BY <1>1, OwnLink DEF PhaseOK, Committing
<1>4. conn[s] \in Conn
  BY <1>3, OwnLink
<1>5. PICK c \in Conn : c = conn[s]
  BY <1>4
<1> DEFINE k == Sent(s, c, <<PreCommitTag>>)
<1>6. /\ k \in LinkRecord /\ LastTag(k) # "commit" /\ k.pc = link[s][c].pc
      /\ k.localBuffer = link[s][c].localBuffer
      /\ k.out = link[s][c].out /\ k.open = link[s][c].open
  BY <1>2, <1>5, SentIs
<1>7. link' = [link EXCEPT ![s][c] = k]
  BY <1>1, <1>5
<1> HIDE DEF k
<1> QED
  BY <1>1, <1>3, <1>5, <1>6, <1>7, SendsCalm

\* A commit puts a batch under way, on the first connection; nothing was under way before.
LEMMA CommitCalm ==
    ASSUME MailboxTypes, SendersInv, FaultFreeInv, faults = 0, NEW s \in Sender, Commit(s)
    PROVE  /\ FaultFreeInv' /\ Len(committed[s]) = Len(delivered[s])
           /\ committed' = [committed EXCEPT ![s] = Append(@, resendBuffer[s])]
           /\ resendBuffer[s] \in Seq(Message)
<1> DEFINE c == conn[s]
<1> DEFINE l == link[s][c]
<1> DEFINE k == [l EXCEPT !.in = @ \o <<CommitTag>>]
<1> DEFINE b == resendBuffer[s]
<1> DEFINE sent == committed[s]
<1> DEFINE entered == delivered[s]
<1> DEFINE q == Append(sent, b)
<1>1. /\ phase[s] = "ready" /\ phase' = [phase EXCEPT ![s] = "commitWait"]
      /\ UNCHANGED <<conn, dialled, closing, delivered>>
      /\ link' = [link EXCEPT ![s][c] = k] /\ committed' = [committed EXCEPT ![s] = q]
  BY DEF Commit, Sent
<1>2. /\ c # 0 /\ c \in Conn /\ l \in LinkRecord /\ WithoutFaults(s) /\ b \in Seq(Message)
      /\ CurrentOK(l, "ready", b, ToSet(entered))
      /\ sent \in Seq(Seq(Message)) /\ entered \in Seq(Seq(Message))
  BY <1>1, OwnLink DEF FaultFreeInv, PhaseOK, MailboxTypes
<1>3. c = 1
  BY <1>1, <1>2, FirstConn DEF WithoutFaults, Calm
<1>4. l.in = <<>> /\ l.out = <<>> /\ (l.pc = "dead" \/ (l.pc = "loop" /\ l.localBuffer = b))
  BY <1>2 DEF CurrentOK
<1>5. Len(sent) = Len(entered) /\ \A i \in 1..Len(entered) : entered[i] = sent[i]
  <2>1. ~PendingOK(phase[s], c, link[s])
    BY <1>1, <1>3, <1>4 DEF PendingOK
  <2> QED
    BY <1>2, <2>1 DEF WithoutFaults, Calm, InOrder
<1>6. /\ k \in LinkRecord /\ k.pc = l.pc /\ k.localBuffer = l.localBuffer /\ k.out = l.out
      /\ k.open = l.open /\ Len(k.in) = 1
  <2>1. CommitTag \in Record /\ <<CommitTag>> \in Seq(Record) /\ Len(<<CommitTag>>) = 1
        /\ <<>> \o <<CommitTag>> = <<CommitTag>>
    BY DEF CommitTag, Record
  <2> QED
    BY <1>2, <1>4, <2>1 DEF LinkRecord
<1> HIDE DEF k
<1>7. /\ link'[s][c] = k
      /\ \A e \in Conn : e # c => link'[s][e] = link[s][e]
      /\ \A t \in Sender : t # s => link'[t] = link[t]
  BY <1>1, <1>2, <1>6, OneLink
<1>8. /\ Len(q) = Len(entered) + 1 /\ q[Len(q)] = b
      /\ \A i \in 1..Len(entered) : entered[i] = q[i]
  <2>1. /\ Len(q) = Len(sent) + 1 /\ q[Len(sent) + 1] = b
        /\ \A i \in 1..Len(sent) : q[i] = sent[i]
    BY <1>2
  <2> HIDE DEF q, sent, entered
  <2> QED
    BY <1>5, <2>1
<1> HIDE DEF q
<1>9. Pending(q, entered) /\ InOrder(q, entered)
  BY <1>8 DEF Pending, InOrder
<1>10. FirstOK(k, "commitWait", q, entered)
  <2>1. k.pc = "loop" => Ends(k, 0, b)
    BY <1>2, <1>4, <1>6, EndsHere
  <2> QED
    BY <1>4, <1>6, <1>8, <1>9, <2>1 DEF FirstOK, Committing
<1>11. PendingOK("commitWait", c, link'[s])
  BY <1>4, <1>6, <1>7 DEF PendingOK
<1>12. \A e \in Conn : e >= 2 => LateOK(link'[s][e])
  <2> SUFFICES ASSUME NEW e \in Conn, e >= 2 PROVE LateOK(link'[s][e])
    OBVIOUS
  <2>1. e # c
    BY <1>3
  <2>2. LateOK(link[s][e])
    BY <1>2 DEF WithoutFaults, Calm
  <2> QED
    BY <1>7, <2>1, <2>2
<1>13. closing = "open" => OpenOK("commitWait", c, dialled[s], link'[s])
  BY <1>1, <1>2, <1>6, <1>7 DEF WithoutFaults, Calm, OpenOK
<1>14. phase'[s] = "commitWait" /\ committed'[s] = q
  BY <1>1 DEF MailboxTypes
<1>15. WithoutFaults(s)'
  BY <1>1, <1>3, <1>7, <1>9, <1>10, <1>11, <1>12, <1>13, <1>14 DEF WithoutFaults, Calm
<1>16. FaultFreeInv'
  BY <1>1, <1>7, <1>15, OthersCalm DEF MailboxTypes
<1> QED
  BY <1>1, <1>2, <1>5, <1>16 DEF q

-----------------------------------------------------------------------------
(* The steps of the system *)

\* The local end at first.
LEMMA LocalTypesInit == Init => LocalTypes
<1>1. <<>> \in Seq(Message) /\ <<>> \in Seq(Seq(Message)) /\ 0 \in Nat /\ Len(<<>>) = 0
  OBVIOUS
<1> QED
  BY <1>1 DEF Init, LocalTypes

\* A batch that enters the channel is not empty.
LEMMA EnqueueTypes ==
    ASSUME MailboxTypes, LocalTypes, NEW s \in Sender, NEW c \in Conn, HandlerEnqueues(s, c)
    PROVE  LocalTypes'
<1> DEFINE b == link[s][c].localBuffer
<1>1. b \in Seq(Message)
  BY DEF MailboxTypes, LinkRecord
<1>2. UNCHANGED <<readBacklog, readsInProgress, faults>>
  BY DEF HandlerEnqueues
<1>3. CASE b = <<>>
  <2>1. UNCHANGED msgChannel
    BY <1>3 DEF HandlerEnqueues
  <2> QED
    BY <1>2, <2>1 DEF LocalTypes
<1>4. CASE b # <<>>
  <2>1. msgChannel' = Append(msgChannel, b)
    BY <1>4 DEF HandlerEnqueues
  <2>2. /\ msgChannel' \in Seq(Seq(Message)) /\ Len(msgChannel') = Len(msgChannel) + 1
        /\ Len(msgChannel) \in Nat /\ msgChannel'[Len(msgChannel) + 1] = b
        /\ \A i \in 1..Len(msgChannel) : msgChannel'[i] = msgChannel[i]
    BY <1>1, <2>1 DEF LocalTypes
  <2>3. \A i \in 1..Len(msgChannel') : i \in 1..Len(msgChannel) \/ i = Len(msgChannel) + 1
    BY <2>2
  <2> QED
    BY <1>2, <1>4, <2>2, <2>3 DEF LocalTypes
<1> QED
  BY <1>3, <1>4

\* A read takes a message of the backlog, or of a batch that is not empty.
LEMMA ReadTypes ==
    ASSUME LocalTypes, ReadValue
    PROVE  LocalTypes'
<1>1. UNCHANGED faults
  BY DEF ReadValue
<1>2. CASE readBacklog # <<>>
  <2>1. /\ readsInProgress' = Append(readsInProgress, Head(readBacklog))
        /\ readBacklog' = Tail(readBacklog) /\ UNCHANGED msgChannel
    BY <1>2 DEF ReadValue
  <2>2. Head(readBacklog) \in Message /\ Tail(readBacklog) \in Seq(Message)
    BY <1>2 DEF LocalTypes
  <2>3. readsInProgress' \in Seq(Message)
    BY <2>1, <2>2, AppendTo DEF LocalTypes
  <2> QED
    BY <1>1, <2>1, <2>2, <2>3 DEF LocalTypes
<1>3. CASE readBacklog = <<>>
  <2> DEFINE b == Head(msgChannel)
  <2>1. /\ msgChannel # <<>> /\ readsInProgress' = Append(readsInProgress, b[1])
        /\ readBacklog' = Tail(b) /\ msgChannel' = Tail(msgChannel)
    BY <1>3 DEF ReadValue
  <2>2. /\ Tail(msgChannel) \in Seq(Seq(Message)) /\ Len(Tail(msgChannel)) = Len(msgChannel) - 1
        /\ Len(msgChannel) \in Nat /\ Len(msgChannel) >= 1 /\ b = msgChannel[1]
        /\ \A i \in 1..(Len(msgChannel) - 1) : Tail(msgChannel)[i] = msgChannel[i + 1]
    BY <2>1, TailIs DEF LocalTypes
  <2>3. 1 \in 1..Len(msgChannel)
    BY <2>2
  <2>4. b \in Seq(Message) /\ b # <<>>
    <3>1. msgChannel[1] \in Seq(Message)
      BY <2>3 DEF LocalTypes
    <3>2. msgChannel[1] # <<>>
      BY <2>3 DEF LocalTypes
    <3> QED
      BY <2>2, <3>1, <3>2
  <2>5. b[1] \in Message /\ Tail(b) \in Seq(Message)
    BY <2>4
  <2>6. readsInProgress' \in Seq(Message)
    BY <2>1, <2>5, AppendTo DEF LocalTypes
  <2>7. \A i \in 1..Len(Tail(msgChannel)) : Tail(msgChannel)[i] # <<>>
    <3>1. \A i \in 1..(Len(msgChannel) - 1) : i + 1 \in 1..Len(msgChannel)
      BY <2>2
    <3>2. \A i \in 1..(Len(msgChannel) - 1) : msgChannel[i + 1] # <<>>
      BY <3>1 DEF LocalTypes
    <3> QED
      BY <2>2, <3>2
  <2> QED
    BY <1>1, <2>1, <2>2, <2>5, <2>6, <2>7 DEF LocalTypes
<1> QED
  BY <1>2, <1>3

\* What the steps leave alone.
LEMMA Frames ==
    ASSUME [Undisturbed]_vars
    PROVE  /\ UNCHANGED faults \/ \E s \in Sender : Broken(s)
           /\ UNCHANGED closing \/ Close
           /\ \/ UNCHANGED msgChannel \/ ReadValue
              \/ \E s \in Sender, c \in Conn : HandlerEnqueues(s, c)
           /\ \/ UNCHANGED local \/ ReadValue \/ LocalAbort \/ LocalCommit
              \/ \E s \in Sender, c \in Conn : HandlerEnqueues(s, c)
           /\ \/ UNCHANGED <<local, history>> \/ ReadValue \/ LocalAbort \/ LocalCommit
              \/ (\E s \in Sender : Commit(s))
              \/ \E s \in Sender, c \in Conn : HandlerEnqueues(s, c)
<1> DEFINE Quiet == UNCHANGED <<closing, local, faults, history>>
<1>1. ASSUME NEW s \in Sender, WriteValue(s) \/ Abort(s) \/ CloseRemote(s) PROVE Quiet
  BY <1>1 DEF WriteValue, Abort, CloseRemote
<1>2. ASSUME NEW s \in Sender, PreCommit(s) \/ PreCommitAcked(s) \/ CommitAcked(s) \/ Resend(s)
      PROVE  Quiet
  BY <1>2 DEF PreCommit, PreCommitAcked, CommitAcked, Resend
<1>3. ASSUME NEW s \in Sender, NEW c \in Conn, HandlerReturns(s, c) \/ HandlerStep(s, c),
             ~HandlerEnqueues(s, c)
      PROVE  Quiet
  BY <1>3 DEF HandlerReturns, HandlerStep, HandleBegin, HandleValue, HandlePreCommit, HandleCommit
<1>4. ASSUME NEW s \in Sender, WriteValueFails(s) \/ PreCommitFails(s) \/ CommitFails(s)
      PROVE  Broken(s) /\ UNCHANGED <<closing, local, history>>
  BY <1>4 DEF WriteValueFails, PreCommitFails, CommitFails
<1>5. ASSUME NEW s \in Sender, Commit(s) PROVE UNCHANGED <<closing, local, faults>>
  BY <1>5 DEF Commit
<1>6. ASSUME NEW s \in Sender, NEW c \in Conn, HandlerEnqueues(s, c)
      PROVE  UNCHANGED <<closing, faults>>
  BY <1>6 DEF HandlerEnqueues
<1>7. ReadValue => UNCHANGED <<closing, faults>>
  BY DEF ReadValue
<1>8. LocalAbort \/ LocalCommit => UNCHANGED <<closing, faults, msgChannel>>
  BY DEF LocalAbort, LocalCommit
<1>9. Close => UNCHANGED <<local, faults, history>>
  BY DEF Close
<1>10. UNCHANGED vars => Quiet
  BY DEF vars
<1>11. Quiet => UNCHANGED closing /\ UNCHANGED faults /\ UNCHANGED local
                /\ UNCHANGED msgChannel /\ UNCHANGED <<local, history>>
  BY DEF local
<1>12. UNCHANGED local => UNCHANGED msgChannel
  BY DEF local
<1> HIDE DEF Quiet
<1>13. CASE Quiet
  BY <1>11, <1>13
<1>14. CASE \E s \in Sender : WriteValueFails(s) \/ PreCommitFails(s) \/ CommitFails(s)
  BY <1>4, <1>12, <1>14
<1>15. CASE \E s \in Sender : Commit(s)
  BY <1>5, <1>12, <1>15
<1>16. CASE \E s \in Sender, c \in Conn : HandlerEnqueues(s, c)
  BY <1>6, <1>16
<1>17. CASE ReadValue \/ LocalAbort \/ LocalCommit \/ Close
  BY <1>7, <1>8, <1>9, <1>12, <1>17
<1> QED
  BY <1>1, <1>2, <1>3, <1>10, <1>13, <1>14, <1>15, <1>16, <1>17 DEF Undisturbed, DialFails, RemoteStep

\* The faults are only counted up.
LEMMA FaultsCount ==
    ASSUME LocalTypes, [Undisturbed]_vars
    PROVE  faults' \in Nat /\ (faults' = 0 => faults = 0)
<1>1. \A s \in Sender : Broken(s) => faults' \in Nat /\ (faults' = 0 => faults = 0)
  BY DEF Broken, LocalTypes
<1>2. \/ UNCHANGED faults
      \/ \E s \in Sender : Broken(s)
  BY Frames
<1> QED
  BY <1>1, <1>2 DEF LocalTypes

\* Every step keeps the types of the local end.
LEMMA LocalTypesStep ==
    MailboxTypes /\ LocalTypes /\ [Undisturbed]_vars => LocalTypes'
<1> SUFFICES ASSUME MailboxTypes, LocalTypes, [Undisturbed]_vars PROVE LocalTypes'
  OBVIOUS
<1>1. CASE UNCHANGED local
  BY <1>1, FaultsCount DEF local, LocalTypes
<1>2. CASE \E s \in Sender, c \in Conn : HandlerEnqueues(s, c)
  BY <1>2, EnqueueTypes
<1>3. CASE ReadValue
  BY <1>3, ReadTypes
<1>4. CASE LocalAbort \/ LocalCommit
  <2>1. /\ readsInProgress' = <<>> /\ UNCHANGED <<msgChannel, faults>>
        /\ readBacklog' = readsInProgress \o readBacklog \/ UNCHANGED readBacklog
    BY <1>4 DEF LocalAbort, LocalCommit
  <2>2. readsInProgress \o readBacklog \in Seq(Message) /\ <<>> \in Seq(Message)
    BY ConcatType DEF LocalTypes
  <2> QED
    BY <2>1, <2>2 DEF LocalTypes
<1>5. \/ UNCHANGED local \/ (\E s \in Sender, c \in Conn : HandlerEnqueues(s, c))
      \/ ReadValue \/ LocalAbort \/ LocalCommit
  BY Frames
<1> QED
  BY <1>1, <1>2, <1>3, <1>4, <1>5

\* The invariant holds at first.
LEMMA FaultFreeInit == Init => FaultFreeInv
<1> SUFFICES ASSUME Init, NEW s \in Sender PROVE WithoutFaults(s)
  BY DEF FaultFreeInv
<1>1. /\ phase[s] = "idle" /\ conn[s] = 0 /\ dialled[s] = 0
      /\ committed[s] = <<>> /\ delivered[s] = <<>> /\ \A c \in Conn : link[s][c] = NoLink
  BY DEF Init
<1>2. InOrder(<<>>, <<>>) /\ ~Pending(<<>>, <<>>)
  <2>1. Len(<<>>) = 0 /\ 1..0 = {}
    OBVIOUS
  <2> QED
    BY <2>1 DEF InOrder, Pending
<1>3. link[s][1] = NoLink /\ FirstOK(NoLink, "idle", <<>>, <<>>) /\ LateOK(NoLink)
  <2>1. NoLink.pc = "dead" /\ NoLink.localBuffer = <<>> /\ NoLink.out = <<>>
    BY DEF NoLink
  <2>2. FirstOK(NoLink, "idle", <<>>, <<>>)
    BY <2>1 DEF FirstOK
  <2>3. LateOK(NoLink)
    BY <2>1 DEF LateOK
  <2> QED
    BY <1>1, <2>2, <2>3, FirstConn
<1>4. OpenOK("idle", 0, 0, link[s])
  BY DEF OpenOK
<1> QED
  BY <1>1, <1>2, <1>3, <1>4 DEF WithoutFaults, Calm

\* Every step keeps it.
LEMMA FaultFreeStep ==
    MailboxTypes /\ SendersInv /\ LocalTypes /\ FaultFreeInv /\ [Undisturbed]_vars => FaultFreeInv'
<1> SUFFICES ASSUME MailboxTypes, SendersInv, LocalTypes, FaultFreeInv, [Undisturbed]_vars, faults' = 0
             PROVE  FaultFreeInv'
  BY DEF FaultFreeInv
<1>1. faults = 0
  BY FaultsCount
<1>2. CASE UNCHANGED <<remotes, link, history>> /\ (closing' = "open" => closing = "open")
  BY <1>1, <1>2 DEF FaultFreeInv, WithoutFaults, Calm, remotes, history
<1>3. ReadValue \/ LocalAbort \/ LocalCommit \/ Close \/ UNCHANGED vars
        => UNCHANGED <<remotes, link, history>> /\ (closing' = "open" => closing = "open")
  BY DEF ReadValue, LocalAbort, LocalCommit, Close, vars
<1>4. ASSUME NEW s \in Sender, CloseRemote(s) PROVE FaultFreeInv'
  BY <1>1, <1>4, AbortCalm, DisconnectCalm
<1>5. ASSUME NEW s \in Sender, RemoteStep(s) PROVE FaultFreeInv'
  BY <1>1, <1>5, PreCommitCalm, AckedCalm, DisconnectCalm, CommitCalm, ResendCalm
     DEF RemoteStep
<1>6. ASSUME NEW s \in Sender, NEW c \in Conn, HandlerStep(s, c) \/ HandlerReturns(s, c)
      PROVE  FaultFreeInv'
  BY <1>1, <1>6, HandlerCalm, EnqueueCalm DEF HandlerStep
<1>7. ASSUME NEW s \in Sender, WriteValue(s) \/ WriteValueFails(s) \/ Abort(s)
      PROVE  FaultFreeInv'
  BY <1>1, <1>7, WriteCalm, DisconnectCalm, AbortCalm
<1> QED
  BY <1>2, <1>3, <1>4, <1>5, <1>6, <1>7 DEF Undisturbed, DialFails

-----------------------------------------------------------------------------
(* The mailbox implements a reliable link, as long as there are no faults *)

\* The batches under way: the last one or none.
LEMMA SubSeqOne ==
    ASSUME NEW T, NEW q \in Seq(T), NEW n \in Nat
    PROVE  /\ Len(q) = n => SubSeq(q, n + 1, Len(q)) = <<>>
           /\ Len(q) = n + 1 => SubSeq(q, n + 1, Len(q)) = <<q[n + 1]>>
<1>1. CASE Len(q) = n
  <2>1. SubSeq(q, n + 1, Len(q)) \in Seq(T) /\ Len(SubSeq(q, n + 1, Len(q))) = 0
    BY <1>1
  <2>2. \A z \in Seq(T) : Len(z) = 0 => z = <<>>
    OBVIOUS
  <2> QED
    BY <1>1, <2>1, <2>2
<1>2. CASE Len(q) = n + 1
  <2> DEFINE a == SubSeq(q, n + 1, Len(q))
  <2> DEFINE b == <<q[n + 1]>>
  <2>1. a \in Seq(T) /\ Len(a) = 1 /\ a[1] = q[n + 1]
    BY <1>2
  <2>2. b \in Seq(T) /\ Len(b) = 1 /\ b[1] = q[n + 1]
    BY <1>2
  <2>3. \A i \in 1..1 : i = 1
    OBVIOUS
  <2> HIDE DEF a, b
  <2>4. a = b
    BY <2>1, <2>2, <2>3
  <2> QED
    BY <1>2, <2>4 DEF a, b
<1> QED
  BY <1>1, <1>2

\* What is left of a sequence after its first part was taken off.
LEMMA SubSeqRest ==
    ASSUME NEW T, NEW a \in Seq(T), NEW b \in Seq(T)
    PROVE  SubSeq(a \o b, Len(a) + 1, Len(a \o b)) = b
<1> DEFINE r == SubSeq(a \o b, Len(a) + 1, Len(a \o b))
<1>1. a \o b \in Seq(T) /\ Len(a \o b) = Len(a) + Len(b) /\ Len(a) \in Nat /\ Len(b) \in Nat
  OBVIOUS
<1>2. r \in Seq(T) /\ Len(r) = Len(b)
  BY <1>1
<1>3. \A i \in 1..Len(b) : r[i] = (a \o b)[Len(a) + i]
  BY <1>1
<1>4. \A i \in 1..Len(b) : (a \o b)[Len(a) + i] = b[i]
  OBVIOUS
<1> HIDE DEF r
<1>5. r = b
  BY <1>2, <1>3, <1>4
<1> QED
  BY <1>5 DEF r

\* Moving one element from one sequence to the other.
LEMMA ConcatAppend ==
    ASSUME NEW T, NEW a \in Seq(T), NEW b \in Seq(T), b # <<>>
    PROVE  Append(a, Head(b)) \o Tail(b) = a \o b
<1> DEFINE l == Append(a, Head(b)) \o Tail(b)
<1> DEFINE r == a \o b
<1> DEFINE h == Head(b)
<1>1. /\ h \in T /\ h = b[1] /\ Tail(b) \in Seq(T) /\ Len(Tail(b)) = Len(b) - 1
      /\ Len(b) >= 1 /\ Len(a) \in Nat /\ Len(b) \in Nat
      /\ \A i \in 1..(Len(b) - 1) : Tail(b)[i] = b[i + 1]
  OBVIOUS
<1>2. r \in Seq(T) /\ Len(r) = Len(a) + Len(b)
      /\ \A i \in 1..Len(r) : r[i] = IF i <= Len(a) THEN a[i] ELSE b[i - Len(a)]
  OBVIOUS
<1> DEFINE p == Append(a, h)
<1>3. p \in Seq(T) /\ Len(p) = Len(a) + 1 /\ p[Len(a) + 1] = h /\ \A i \in 1..Len(a) : p[i] = a[i]
  BY <1>1
<1> HIDE DEF p
<1>4. l \in Seq(T) /\ Len(l) = Len(a) + Len(b)
      /\ \A i \in 1..Len(l) : l[i] = IF i <= Len(p) THEN p[i] ELSE Tail(b)[i - Len(p)]
  <2>1. l = p \o Tail(b)
    BY DEF p
  <2>2. \A x, y \in Seq(T) :
          /\ x \o y \in Seq(T) /\ Len(x \o y) = Len(x) + Len(y)
          /\ \A i \in 1..Len(x \o y) : (x \o y)[i] = IF i <= Len(x) THEN x[i] ELSE y[i - Len(x)]
    OBVIOUS
  <2> DEFINE t == Tail(b)
  <2>3. t \in Seq(T) /\ Len(t) = Len(b) - 1
    BY <1>1
  <2> HIDE DEF l, t
  <2>4. /\ p \o t \in Seq(T) /\ Len(p \o t) = Len(a) + Len(b)
        /\ \A i \in 1..Len(p \o t) :
             (p \o t)[i] = IF i <= Len(p) THEN p[i] ELSE t[i - Len(p)]
    <3>1. Len(p \o t) = Len(p) + Len(t)
      BY <1>3, <2>2, <2>3
    <3>2. Len(p) + Len(t) = Len(a) + Len(b)
      BY <1>1, <1>3, <2>3
    <3> QED
      BY <1>3, <2>2, <2>3, <3>1, <3>2
  <2> QED
    BY <2>1, <2>4 DEF t
<1> HIDE DEF l, r, h
<1>5. ASSUME NEW i \in 1..(Len(a) + Len(b)) PROVE l[i] = r[i]
  <2>1. CASE i <= Len(a)
    BY <1>2, <1>3, <1>4, <2>1
  <2>2. CASE i = Len(a) + 1
    BY <1>1, <1>2, <1>3, <1>4, <2>2
  <2>3. CASE i > Len(a) + 1
    <3>1. l[i] = Tail(b)[i - (Len(a) + 1)]
      BY <1>1, <1>3, <1>4, <2>3
    <3>2. i - (Len(a) + 1) \in 1..(Len(b) - 1) /\ (i - (Len(a) + 1)) + 1 = i - Len(a)
      BY <1>1, <2>3
    <3>3. r[i] = b[i - Len(a)]
      BY <1>1, <1>2, <2>3
    <3> QED
      BY <1>1, <3>1, <3>2, <3>3
  <2> QED
    BY <1>1, <2>1, <2>2, <2>3
<1>6. l = r
  BY <1>2, <1>4, <1>5
<1> QED
  BY <1>6 DEF l, r, h

\* The batches of a sender under way, and the messages in the mailbox.
UnderWay(sent, entered) == SubSeq(sent, Len(entered) + 1, Len(sent))

\* transit and queue of the link.
Transit == [s \in Sender |-> UnderWay(committed[s], delivered[s])]
Queue == readsInProgress \o readBacklog \o FlattenSeq(msgChannel)

\* At most one batch of a sender is under way, its last.
LEMMA OneUnderWay ==
    ASSUME NEW sent \in Seq(Seq(Message)), NEW entered \in Seq(Seq(Message))
    PROVE  /\ Pending(sent, entered) => UnderWay(sent, entered) = <<sent[Len(sent)]>>
           /\ Len(sent) = Len(entered) => UnderWay(sent, entered) = <<>>
<1> DEFINE n == Len(entered)
<1>1. n \in Nat
  OBVIOUS
<1> HIDE DEF n
<1>2. /\ Len(sent) = n => SubSeq(sent, n + 1, Len(sent)) = <<>>
      /\ Len(sent) = n + 1 => SubSeq(sent, n + 1, Len(sent)) = <<sent[n + 1]>>
  BY <1>1, SubSeqOne
<1> QED
  BY <1>2 DEF n, UnderWay, Pending

\* Commit is Send of the link.
LEMMA CommitSends ==
    ASSUME MailboxTypes, SendersInv, FaultFreeInv, faults = 0, NEW s \in Sender, Commit(s)
    PROVE  Link!Next
<1> DEFINE b == resendBuffer[s]
<1>1. /\ Len(committed[s]) = Len(delivered[s]) /\ b \in Seq(Message)
      /\ committed' = [committed EXCEPT ![s] = Append(@, b)]
      /\ committed[s] \in Seq(Seq(Message)) /\ delivered[s] \in Seq(Seq(Message))
  BY CommitCalm DEF MailboxTypes
<1>2. UNCHANGED <<delivered, local>>
  BY DEF Commit
<1>3. /\ committed'[s] = Append(committed[s], b) /\ delivered'[s] = delivered[s]
      /\ \A t \in Sender : t # s => committed'[t] = committed[t] /\ delivered'[t] = delivered[t]
  BY <1>1, <1>2 DEF MailboxTypes
<1>4. UnderWay(committed[s], delivered[s]) = <<>>
  BY <1>1, OneUnderWay
<1>5. UnderWay(committed'[s], delivered'[s]) = <<b>>
  <2>1. /\ Append(committed[s], b) \in Seq(Seq(Message))
        /\ Len(Append(committed[s], b)) = Len(committed[s]) + 1
        /\ Append(committed[s], b)[Len(committed[s]) + 1] = b
    BY <1>1
  <2> DEFINE q == Append(committed[s], b)
  <2> HIDE DEF q
  <2>2. Pending(q, delivered[s]) /\ q \in Seq(Seq(Message)) /\ q[Len(q)] = b
    BY <1>1, <2>1 DEF Pending, q
  <2>3. UnderWay(q, delivered[s]) = <<b>>
    BY <1>1, <2>2, OneUnderWay
  <2> QED
    BY <1>3, <2>3 DEF q
<1>6. Transit'[s] = <<b>> /\ Transit[s] = <<>> /\ \A t \in Sender : t # s => Transit'[t] = Transit[t]
  BY <1>3, <1>4, <1>5 DEF Transit
<1>7. Transit' = [Transit EXCEPT ![s] = Append(@, b)]
  <2>1. Append(<<>>, b) = <<b>>
    BY <1>1, AppendToOne
  <2> QED
    BY <1>6, <2>1 DEF Transit
<1>8. Transit'[s] # <<>> /\ Transit'[s][Len(Transit'[s])] = b
  BY <1>6
<1>9. UNCHANGED Queue
  BY <1>2 DEF Queue, local
<1>10. \E t \in Sender : /\ Transit'[t] # <<>>
                         /\ Transit' = [Transit EXCEPT ![t] = Append(@, Transit'[t][Len(Transit'[t])])]
                         /\ UNCHANGED Queue
  BY <1>7, <1>8, <1>9
<1> QED
  BY <1>10 DEF Link!Next, Link!Send, UnderWay, Transit, Queue

\* Passing a batch on is Deliver of the link.
LEMMA EnqueueDelivers ==
    ASSUME MailboxTypes, SendersInv, LocalTypes, FaultFreeInv, faults = 0,
           NEW s \in Sender, NEW c \in Conn, HandlerEnqueues(s, c)
    PROVE  Link!Next
<1> DEFINE b == link[s][c].localBuffer
<1> DEFINE sent == committed[s]
<1> DEFINE entered == delivered[s]
<1>1. /\ Pending(sent, entered) /\ b = sent[Len(sent)] /\ b # <<>> /\ b \in Seq(Message)
      /\ delivered' = [delivered EXCEPT ![s] = Append(@, b)]
      /\ sent \in Seq(Seq(Message)) /\ entered \in Seq(Seq(Message))
  BY EnqueueCalm DEF MailboxTypes
<1>2. /\ UNCHANGED <<committed, readBacklog, readsInProgress>>
      /\ msgChannel' = Append(msgChannel, b)
  BY <1>1 DEF HandlerEnqueues
<1>3. /\ committed'[s] = sent /\ delivered'[s] = Append(entered, b)
      /\ \A t \in Sender : t # s => committed'[t] = committed[t] /\ delivered'[t] = delivered[t]
  BY <1>1, <1>2 DEF MailboxTypes
<1> HIDE DEF b, sent, entered
<1>4. UnderWay(sent, entered) = <<b>>
  BY <1>1, OneUnderWay
<1>5. UnderWay(sent, Append(entered, b)) = <<>>
  <2>1. Append(entered, b) \in Seq(Seq(Message)) /\ Len(Append(entered, b)) = Len(sent)
    BY <1>1 DEF Pending
  <2> QED
    BY <1>1, <2>1, OneUnderWay
<1>6. Transit'[s] = <<>> /\ Transit[s] = <<b>> /\ \A t \in Sender : t # s => Transit'[t] = Transit[t]
  BY <1>3, <1>4, <1>5 DEF Transit, sent, entered
<1>7. Head(<<b>>) = b /\ Tail(<<b>>) = <<>> /\ <<b>> # <<>>
  <2>1. <<b>> \in Seq(Seq(Message)) /\ Len(<<b>>) = 1 /\ <<b>>[1] = b
    BY <1>1
  <2>2. Head(<<b>>) = b /\ <<b>> # <<>>
    BY <2>1
  <2>3. Tail(<<b>>) \in Seq(Seq(Message)) /\ Len(Tail(<<b>>)) = 0
    BY <2>1
  <2>4. \A z \in Seq(Seq(Message)) : Len(z) = 0 => z = <<>>
    OBVIOUS
  <2> QED
    BY <2>2, <2>3, <2>4
<1>8. Transit' = [Transit EXCEPT ![s] = Tail(@)]
  BY <1>6, <1>7 DEF Transit
<1>9. Queue' = Queue \o Head(Transit[s])
  <2> DEFINE a == readsInProgress \o readBacklog
  <2> DEFINE f == FlattenSeq(msgChannel)
  <2>1. a \in Seq(Message) /\ f \in Seq(Message)
    BY ConcatType, FlattenType DEF LocalTypes
  <2>2. FlattenSeq(Append(msgChannel, b)) = f \o b
    BY <1>1, FlattenAppend DEF LocalTypes
  <2>3. Queue' = a \o (f \o b) /\ Queue = a \o f
    BY <1>2, <2>2 DEF Queue
  <2> HIDE DEF a, f
  <2>4. (a \o f) \o b = a \o (f \o b)
    <3>1. \A x, y, z \in Seq(Message) : (x \o y) \o z = x \o (y \o z)
      BY ConcatAssoc
    <3> QED
      BY <1>1, <2>1, <3>1
  <2> QED
    BY <1>6, <1>7, <2>3, <2>4
<1>10. \E t \in Sender : /\ Transit[t] # <<>> /\ Queue' = Queue \o Head(Transit[t])
                         /\ Transit' = [Transit EXCEPT ![t] = Tail(@)]
  BY <1>6, <1>7, <1>8, <1>9
<1> QED
  BY <1>10 DEF Link!Next, Link!Deliver, UnderWay, Transit, Queue

\* The commit of the reader is Receive of what it has read.
LEMMA LocalCommitReceives ==
    ASSUME LocalTypes, LocalCommit
    PROVE  Link!Next
<1> DEFINE r == readsInProgress
<1> DEFINE f == FlattenSeq(msgChannel)
<1>1. /\ r # <<>> /\ readsInProgress' = <<>>
      /\ UNCHANGED <<msgChannel, readBacklog, committed, delivered>>
  BY DEF LocalCommit, history
<1>2. r \in Seq(Message) /\ readBacklog \in Seq(Message) /\ f \in Seq(Message)
  BY FlattenType DEF LocalTypes
<1> DEFINE b == readBacklog \o f
<1>3. b \in Seq(Message)
  BY <1>2, ConcatType
<1>4. Queue = r \o b /\ Queue' = b
  <2>1. Queue = (r \o readBacklog) \o f /\ Queue' = (<<>> \o readBacklog) \o f
    BY <1>1 DEF Queue
  <2> HIDE DEF r, f
  <2>2. (r \o readBacklog) \o f = r \o (readBacklog \o f) /\ <<>> \o readBacklog = readBacklog
    BY <1>2, ConcatAssoc
  <2> QED
    BY <2>1, <2>2
<1> HIDE DEF b, f
<1>5. SubSeq(r \o b, Len(r) + 1, Len(r \o b)) = b
  BY <1>2, <1>3, SubSeqRest
<1>6. Len(r) \in 1..Len(r \o b)
  <2>1. Len(r) # 0
    BY <1>1, <1>2
  <2>2. Len(r \o b) = Len(r) + Len(b) /\ Len(r) \in Nat /\ Len(b) \in Nat
    BY <1>2, <1>3
  <2> QED
    BY <2>1, <2>2
<1>7. UNCHANGED Transit
  BY <1>1 DEF Transit
<1>8. \E n \in 1..Len(Queue) : Queue' = SubSeq(Queue, n + 1, Len(Queue)) /\ UNCHANGED Transit
  BY <1>4, <1>5, <1>6, <1>7
<1> QED
  BY <1>8 DEF Link!Next, Link!Receive, UnderWay, Transit, Queue

\* A read and an abort of the reader only move messages inside the queue.
LEMMA ReadsStutter ==
    ASSUME LocalTypes, ReadValue \/ LocalAbort
    PROVE  UNCHANGED Link!vars
<1> DEFINE r == readsInProgress
<1> DEFINE f == FlattenSeq(msgChannel)
<1>1. UNCHANGED <<committed, delivered>>
  BY DEF ReadValue, LocalAbort, history
<1>2. /\ r \in Seq(Message) /\ readBacklog \in Seq(Message) /\ f \in Seq(Message)
      /\ r \o readBacklog \in Seq(Message) /\ <<>> \in Seq(Message)
  BY FlattenType, ConcatType DEF LocalTypes
<1>3. CASE LocalAbort
  <2>1. Queue = (r \o readBacklog) \o f /\ Queue' = (<<>> \o (r \o readBacklog)) \o f
    BY <1>3 DEF LocalAbort, Queue
  <2>2. <<>> \o (r \o readBacklog) = r \o readBacklog
    BY <1>2, ConcatAssoc
  <2>3. UNCHANGED Queue
    BY <2>1, <2>2
  <2> QED
    BY <1>1, <2>3 DEF Link!vars, Queue
<1>4. CASE ReadValue /\ readBacklog # <<>>
  <2>1. Queue' = (Append(r, Head(readBacklog)) \o Tail(readBacklog)) \o f
    BY <1>4 DEF ReadValue, Queue
  <2>2. Append(r, Head(readBacklog)) \o Tail(readBacklog) = r \o readBacklog
    BY <1>2, <1>4, ConcatAppend
  <2>3. UNCHANGED Queue
    BY <2>1, <2>2 DEF Queue
  <2> QED
    BY <1>1, <2>3 DEF Link!vars, Queue
<1>5. CASE ReadValue /\ readBacklog = <<>>
  <2> DEFINE b == Head(msgChannel)
  <2> DEFINE g == FlattenSeq(Tail(msgChannel))
  <2>1. /\ msgChannel # <<>> /\ readsInProgress' = Append(r, b[1])
        /\ readBacklog' = Tail(b) /\ msgChannel' = Tail(msgChannel)
    BY <1>5 DEF ReadValue
  <2>2. g \in Seq(Message) /\ f = b \o g
    BY <2>1, FlattenTail DEF LocalTypes
  <2>3. b \in Seq(Message) /\ b # <<>>
    <3>1. b = msgChannel[1] /\ 1 \in 1..Len(msgChannel)
      BY <2>1, TailIs DEF LocalTypes
    <3>2. msgChannel[1] \in Seq(Message) /\ msgChannel[1] # <<>>
      BY <3>1 DEF LocalTypes
    <3> QED
      BY <3>1, <3>2
  <2>4. Queue' = (Append(r, b[1]) \o Tail(b)) \o g /\ Queue = (r \o <<>>) \o (b \o g)
    BY <1>5, <2>1, <2>2 DEF Queue
  <2> HIDE DEF b, g
  <2>5. Append(r, b[1]) \o Tail(b) = r \o b
    <3>1. Head(b) = b[1]
      BY <2>3
    <3> QED
      BY <1>2, <2>3, <3>1, ConcatAppend
  <2>6. r \o <<>> = r /\ (r \o b) \o g = r \o (b \o g)
    BY <1>2, <2>2, <2>3, ConcatAssoc
  <2>7. UNCHANGED Queue
    BY <2>4, <2>5, <2>6
  <2> QED
    BY <1>1, <2>7 DEF Link!vars, Queue
<1> QED
  BY <1>3, <1>4, <1>5

\* The step of IsReliableLink.
LinkOrFault == faults' = 0 => [Link!Next]_Link!vars

\* Every step of the mailbox is one of the link, or stutters there.
LEMMA LinkNext ==
    MailboxTypes /\ SendersInv /\ LocalTypes /\ FaultFreeInv /\ [Undisturbed]_vars => LinkOrFault
<1> SUFFICES ASSUME MailboxTypes, SendersInv, LocalTypes, FaultFreeInv, [Undisturbed]_vars, faults' = 0
             PROVE  [Link!Next]_Link!vars
  BY DEF LinkOrFault
<1>1. faults = 0
  BY FaultsCount
<1>2. CASE UNCHANGED <<local, history>>
  BY <1>2 DEF Link!vars, local, history
<1>3. CASE \E s \in Sender : Commit(s)
  BY <1>1, <1>3, CommitSends
<1>4. CASE \E s \in Sender, c \in Conn : HandlerEnqueues(s, c)
  BY <1>1, <1>4, EnqueueDelivers
<1>5. CASE LocalCommit
  BY <1>5, LocalCommitReceives
<1>6. CASE ReadValue \/ LocalAbort
  BY <1>6, ReadsStutter
<1>7. \/ UNCHANGED <<local, history>> \/ (\E s \in Sender : Commit(s))
      \/ (\E s \in Sender, c \in Conn : HandlerEnqueues(s, c))
      \/ LocalCommit \/ ReadValue \/ LocalAbort
  BY Frames
<1> QED
  BY <1>2, <1>3, <1>4, <1>5, <1>6, <1>7

\* The mailbox starts as the link does.
LEMMA LinkInit == Init => Link!Init
<1> SUFFICES ASSUME Init PROVE Link!Init
  OBVIOUS
<1>1. \A s \in Sender : committed[s] = <<>> /\ delivered[s] = <<>>
  BY DEF Init
<1>2. SubSeq(<<>>, Len(<<>>) + 1, Len(<<>>)) = <<>>
  <2>1. <<>> \in Seq(Seq(Message)) /\ Len(<<>>) = 0 /\ 0 \in Nat
    OBVIOUS
  <2> QED
    BY <2>1, SubSeqOne
<1>3. FlattenSeq(<<>>) = <<>> /\ <<>> \o <<>> = <<>>
  BY DEF FlattenSeq
<1> QED
  BY <1>1, <1>2, <1>3 DEF Init, Link!Init

\* A PreCommit is abandoned because of a fault.
Counts == abandoned => faults # 0

\* The faults were counted up.
LEMMA AbandonedCounts == Spec => [](faults \in Nat /\ abandoned \in BOOLEAN /\ Counts)
<1> DEFINE Counted == faults \in Nat /\ abandoned \in BOOLEAN /\ Counts
<1>1. Init => Counted
  <2>1. Init => faults = 0 /\ abandoned = FALSE
    BY DEF Init
  <2>2. faults = 0 => faults \in Nat
    OBVIOUS
  <2>3. abandoned = FALSE => abandoned \in BOOLEAN /\ ~abandoned
    OBVIOUS
  <2> QED
    BY <2>1, <2>2, <2>3, Zenon DEF Counts
<1>2. ASSUME Counted, [Next]_vars PROVE Counted'
  <2>1. \A s \in Sender : Broken(s) => faults' \in {faults, faults + 1}
    BY DEF Broken
  <2>2. [Undisturbed]_vars => faults' \in {faults, faults + 1}
    BY <2>1, Frames
  <2>3. Panic => faults' = faults
    BY DEF Panic
  <2>4. ASSUME NEW s \in Sender, StrayStep(s) PROVE faults' \in {faults, faults + 1}
    BY <2>1, <2>3, <2>4 DEF StrayStep, StraySends, StrayAcked, StrayFails, StrayBroken
  <2>5. ASSUME NEW s \in Sender, ConnIsNil(s) \/ CommitLoses(s) PROVE faults' = faults
    BY <2>3, <2>5 DEF ConnIsNil, CommitLoses
  <2>6. ASSUME NEW s \in Sender, NEW c \in Conn, HandlerPanics(s, c) PROVE faults' = faults
    BY <2>3, <2>6 DEF HandlerPanics
  <2>7. ASSUME NEW s \in Sender, Abandon(s) PROVE faults' = faults + 1 /\ abandoned' = TRUE
    BY <2>7 DEF Abandon
  <2>8. faults' \in {faults, faults + 1}
    BY <1>2, <2>2, <2>4, <2>5, <2>6, <2>7 DEF Next, Disturbed, Done
  <2>9. CASE abandoned' = abandoned
    <3>1. abandoned' => faults # 0
      BY <1>2, <2>9 DEF Counts
    <3>2. faults' \in Nat /\ (faults # 0 => faults' # 0)
      BY <1>2, <2>8
    <3> QED
      BY <1>2, <2>9, <3>1, <3>2 DEF Counts
  <2>10. CASE \E s \in Sender : Abandon(s)
    <3>1. faults' = faults + 1 /\ abandoned' = TRUE
      BY <2>7, <2>10
    <3>2. faults' \in Nat /\ faults' # 0
      BY <1>2, <3>1
    <3> QED
      BY <3>1, <3>2 DEF Counts
  <2> QED
    BY <1>2, <2>9, <2>10, AbandonedStays
<1> QED
  BY <1>1, <1>2, PTL DEF Spec

\* Until the first fault the mailbox implements the reliable link of its documentation:
\* a batch enters exactly once, as a whole and in order, and an abort of the reader in the
\* middle of a batch puts back exactly what it took.
THEOREM ImplementsReliableLink == Spec => IsReliableLink
<1>1. Init => Link!Init
  BY LinkInit
<1>2. ASSUME MailboxInv, LocalTypes, FaultFreeInv, [Next]_vars, ~abandoned'
      PROVE  (LocalTypes /\ FaultFreeInv)' /\ LinkOrFault
  <2>1. [Undisturbed]_vars
    BY <1>2, NobodyDisturbs
  <2> QED
    BY <1>2, <2>1, LocalTypesStep, FaultFreeStep, LinkNext DEF MailboxInv
<1>3. [Next]_vars /\ ~abandoned' => ~abandoned
  BY AbandonedStays DEF Abandon
<1>4. Spec => [](~abandoned => LocalTypes /\ FaultFreeInv)
  BY <1>2, <1>3, LocalTypesInit, FaultFreeInit, MailboxInvariant, PTL DEF Spec
<1>5. Spec => []Counts
  BY AbandonedCounts, PTL
<1>6. ASSUME Counts', ~abandoned => MailboxInv /\ LocalTypes /\ FaultFreeInv, [Next]_vars
      PROVE  faults' = 0 => [Link!Next]_Link!vars
  BY <1>2, <1>3, <1>6 DEF Counts, LinkOrFault
<1> QED
  BY <1>1, <1>4, <1>5, <1>6, MailboxInvariant, PTL DEF Spec, IsReliableLink

-----------------------------------------------------------------------------
(* The types *)

\* What the types above leave open.
Bounds ==
    /\ faults <= MaxFaults
    /\ Len(msgChannel) <= ChanSize
    /\ closing \in {"open", "closing", "done"}

\* The bounds hold at first.
LEMMA BoundsInit == Init => Bounds
<1>1. 0 <= MaxFaults /\ Len(<<>>) <= ChanSize
  BY BoundAssumption, SizeAssumption
<1> QED
  BY <1>1 DEF Init, Bounds

\* Every step keeps them.
LEMMA BoundsStep == MailboxTypes /\ LocalTypes /\ Bounds /\ [Undisturbed]_vars => Bounds'
<1> SUFFICES ASSUME MailboxTypes, LocalTypes, Bounds, [Undisturbed]_vars PROVE Bounds'
  OBVIOUS
<1>1. faults' <= MaxFaults
  <2>1. \A s \in Sender : Broken(s) => faults' <= MaxFaults
    BY BoundAssumption DEF Broken, LocalTypes, Bounds
  <2>2. UNCHANGED faults \/ \E s \in Sender : Broken(s)
    BY Frames
  <2> QED
    BY <2>1, <2>2 DEF Bounds
<1>2. Len(msgChannel') <= ChanSize
  <2>1. CASE UNCHANGED msgChannel
    BY <2>1 DEF Bounds
  <2>2. ASSUME NEW s \in Sender, NEW c \in Conn, HandlerEnqueues(s, c)
        PROVE  Len(msgChannel') <= ChanSize
    <3> DEFINE b == link[s][c].localBuffer
    <3>1. b \in Seq(Message)
      BY DEF MailboxTypes, LinkRecord
    <3>2. UNCHANGED msgChannel \/ (Len(msgChannel) < ChanSize /\ msgChannel' = Append(msgChannel, b))
      BY <2>2 DEF HandlerEnqueues
    <3> HIDE DEF b
    <3>3. Len(Append(msgChannel, b)) = Len(msgChannel) + 1 /\ Len(msgChannel) \in Nat
      BY <3>1 DEF LocalTypes
    <3> QED
      BY <3>2, <3>3, SizeAssumption DEF Bounds
  <2>3. CASE ReadValue
    <3>1. UNCHANGED msgChannel \/ (msgChannel # <<>> /\ msgChannel' = Tail(msgChannel))
      BY <2>3 DEF ReadValue
    <3>2. msgChannel # <<>> => /\ Len(Tail(msgChannel)) = Len(msgChannel) - 1
                               /\ Len(msgChannel) \in Nat
      BY DEF LocalTypes
    <3> QED
      BY <3>1, <3>2, SizeAssumption DEF Bounds
  <2>4. UNCHANGED msgChannel \/ ReadValue \/ \E s \in Sender, c \in Conn : HandlerEnqueues(s, c)
    BY Frames
  <2> QED
    BY <2>1, <2>2, <2>3, <2>4
<1>3. closing' \in {"open", "closing", "done"}
  <2>1. CASE Close
    BY <2>1 DEF Close
  <2>2. UNCHANGED closing \/ Close
    BY Frames
  <2> QED
    BY <2>1, <2>2 DEF Bounds
<1> QED
  BY <1>1, <1>2, <1>3 DEF Bounds

\* The invariants imply the types.
LEMMA TypesHold ==
    MailboxTypes /\ SendersInv /\ Alone /\ abandoned \in BOOLEAN /\ LocalTypes /\ Bounds => TypeOK
<1> SUFFICES ASSUME MailboxTypes, SendersInv, Alone, abandoned \in BOOLEAN, LocalTypes, Bounds
             PROVE  TypeOK
  OBVIOUS
<1>1. \A q \in Seq(Message) : ToSet(q) \subseteq Message
  <2>1. \A q \in Seq(Message) : \A i \in DOMAIN q : q[i] \in Message
    OBVIOUS
  <2> QED
    BY <2>1, Zenon DEF ToSet
<1>2. \A s \in Sender : dialled[s] \in Conn \cup {0} /\ conn[s] \in Conn \cup {0}
  BY BoundAssumption DEF SendersInv, SenderInv, Conn
<1>3. ASSUME NEW s \in Sender, NEW c \in Conn
      PROVE  /\ link[s][c].pc \in {"loop", "enqueue", "dead"} /\ link[s][c].open \in BOOLEAN
             /\ link[s][c].hasBegun \in BOOLEAN /\ ToSet(link[s][c].localBuffer) \subseteq Message
  <2>1. link[s][c] \in LinkRecord
    BY DEF MailboxTypes
  <2> QED
    BY <1>1, <2>1 DEF LinkRecord
<1>4. \A s \in Sender : ToSet(resendBuffer[s]) \subseteq Message
  BY <1>1 DEF MailboxTypes
<1>5. \A i \in DOMAIN msgChannel : ToSet(msgChannel[i]) \subseteq Message
  <2>1. \A i \in DOMAIN msgChannel : msgChannel[i] \in Seq(Message)
    BY DEF LocalTypes
  <2> QED
    BY <1>1, <2>1
<1>6. faults \in 0..MaxFaults
  BY BoundAssumption DEF LocalTypes, Bounds
<1>7. ToSet(readBacklog) \subseteq Message /\ ToSet(readsInProgress) \subseteq Message
  BY <1>1 DEF LocalTypes
<1>8. conn \in [Sender -> Conn \cup {0}] /\ dialled \in [Sender -> Conn \cup {0}]
  BY <1>2 DEF MailboxTypes
<1>9. stray \in [Sender -> Seq(Conn \cup {0})]
  BY DEF Alone
<1> QED
  BY <1>3, <1>4, <1>5, <1>6, <1>7, <1>8, <1>9 DEF TypeOK, MailboxTypes, Bounds, Alone

\* The state of the mailbox is of its type and the channel never over receiveChanSize,
\* until a section leaves a PreCommit running.
THEOREM TypeCorrect == Spec => [](~abandoned => TypeOK)
<1>1. ASSUME MailboxInv, LocalTypes, Bounds, [Next]_vars, ~abandoned'
      PROVE  (LocalTypes /\ Bounds)'
  <2>1. [Undisturbed]_vars
    BY <1>1, NobodyDisturbs
  <2> QED
    BY <1>1, <2>1, LocalTypesStep, BoundsStep DEF MailboxInv
<1>2. [Next]_vars /\ ~abandoned' => ~abandoned
  BY AbandonedStays DEF Abandon
<1>3. Spec => [](~abandoned => LocalTypes /\ Bounds)
  BY <1>1, <1>2, MailboxInvariant, LocalTypesInit, BoundsInit, PTL DEF Spec
<1>4. MailboxInv /\ abandoned \in BOOLEAN /\ LocalTypes /\ Bounds => TypeOK
  BY TypesHold DEF MailboxInv
<1>5. Spec => [](abandoned \in BOOLEAN)
  BY AbandonedCounts, PTL
<1> QED
  BY <1>3, <1>4, <1>5, MailboxInvariant, PTL
=============================================================================
