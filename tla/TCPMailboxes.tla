---------------------------- MODULE TCPMailboxes ----------------------------
(***************************************************************************)
(* A mailbox of distsys/resources/tcpmailboxes.go: the end that reads it   *)
(* (tcpMailboxesLocal) in one archetype, and the ends that write to it     *)
(* (tcpMailboxesRemote) in others, over TCP connections.                   *)
(*                                                                         *)
(* A connection is a pair of FIFO streams, served at the local end by a    *)
(* goroutine of its own (handleConn).  A remote end that meets an error or *)
(* a timeout closes its connection and forgets it; the goroutine may then  *)
(* still see what was sent before, or lose any rest of it.  A message is   *)
(* <<sender, section, index>>: the index-th that the sender writes in its  *)
(* section-th critical section.  Vector clocks are left out.               *)
(*                                                                         *)
(* The remote ends are elements of a map that gives a section up at the    *)
(* first element whose PreCommit fails: the goroutine of the PreCommit of  *)
(* another one then goes on by itself (stray) while the next sections use  *)
(* the same connection.                                                    *)
(***************************************************************************)
EXTENDS Naturals, Sequences, SequencesExt

CONSTANTS
    Sender,       \* the archetypes with a remote end of this mailbox
    ChanSize,     \* config.receiveChanSize
    MaxSections,  \* bound: committed sections of a sender
    MaxValues,    \* bound: messages of a section
    MaxInFlight,  \* bound: records on a connection that handleConn has not read
    MaxFaults,    \* bound: spurious timeouts and network errors, here or of other elements
    MayClose      \* whether the ends may be closed

ASSUME SizeAssumption == ChanSize \in Nat \ {0}
ASSUME BoundAssumption ==
    /\ {MaxSections, MaxValues, MaxInFlight} \subseteq Nat \ {0}
    /\ MaxFaults \in Nat
ASSUME MayCloseAssumption == MayClose \in BOOLEAN

VARIABLES
    phase,         \* per sender: what its remote end is doing
    conn,          \* per sender: res.conn, the number of its connection (0: nil)
    resendBuffer,  \* per sender: the messages of the section
    dialled,       \* per sender: how many connections it has opened
    link,          \* per connection: its streams and its handleConn
    closing,       \* the local end: "open", "closing" or "done"
    msgChannel, readBacklog, readsInProgress,
    faults,        \* how many faults have happened
    stray,         \* per sender: for each PreCommit that a section left running, the connection
                   \* that it waits on (0: it has sent nothing yet)
    abandoned,     \* history: whether a section has left a PreCommit running
    panicked,      \* whether a goroutine of an end has panicked; the program is then over
    committed,     \* history, per sender: the batches it was told to commit
    delivered      \* history, per sender: its batches that entered msgChannel

remotes == <<phase, conn, resendBuffer, dialled>>
local == <<msgChannel, readBacklog, readsInProgress>>
strays == <<stray, abandoned, panicked>>
history == <<committed, delivered>>
vars == <<remotes, link, closing, local, faults, strays, history>>

Phase == {"idle", "open", "preCommit", "ready", "failed", "commitWait", "resend", "closed"}
Committing == {"commitWait", "resend"}
\* The numbers of a sender's connections: an abandoned PreCommit may cost two of them.
Conn == 1 .. 2 * MaxFaults + 1
Message == Sender \X (1 .. MaxSections) \X (1 .. MaxValues)

\* A connection before it is opened, and what the remote end may send on it.
NoLink == [in |-> <<>>, out |-> <<>>, open |-> FALSE,
           pc |-> "dead", hasBegun |-> FALSE, localBuffer |-> <<>>]
Begin == [tag |-> "begin"]
Value(m) == [tag |-> "value", value |-> m]
PreCommitTag == [tag |-> "preCommit"]
CommitTag == [tag |-> "commit"]

Init ==
    /\ phase = [s \in Sender |-> "idle"]
    /\ conn = [s \in Sender |-> 0]
    /\ resendBuffer = [s \in Sender |-> <<>>]
    /\ dialled = [s \in Sender |-> 0]
    /\ link = [s \in Sender |-> [c \in Conn |-> NoLink]]
    /\ closing = "open"
    /\ msgChannel = <<>>
    /\ readBacklog = <<>>
    /\ readsInProgress = <<>>
    /\ faults = 0
    /\ stray = [s \in Sender |-> <<>>]
    /\ abandoned = FALSE
    /\ panicked = FALSE
    /\ committed = [s \in Sender |-> <<>>]
    /\ delivered = [s \in Sender |-> <<>>]

-----------------------------------------------------------------------------
(* The remote end *)

\* ensureConnection: the connection in use, or a new one if the local end listens.
Connected(s, c) ==
    IF conn[s] # 0
    THEN c = conn[s] /\ UNCHANGED dialled
    ELSE /\ closing # "done"
         /\ c = dialled[s] + 1
         /\ c \in Conn
         /\ abandoned \/ c <= MaxFaults + 1
         /\ dialled' = [dialled EXCEPT ![s] = c]

\* The link c of s after its remote end has sent msgs on it.
Sent(s, c, msgs) ==
    LET l == IF c = conn[s] THEN link[s][c]
             ELSE [NoLink EXCEPT !.open = TRUE, !.pc = "loop"]
    IN [l EXCEPT !.in = @ \o msgs]

\* The remote end meets an error on its connection: the goroutine at the other end is
\* gone or does not answer because of Close, or there was a fault.
Broken(s) ==
    \/ (link[s][conn[s]].pc = "dead" \/ closing # "open") /\ UNCHANGED faults
    \/ faults < MaxFaults /\ faults' = faults + 1

\* The next answer on link c of s is of the given kind.
Answered(s, c, kind) == c # 0 /\ link[s][c].out # <<>> /\ Head(link[s][c].out) = kind

\* Close and forget the connection.
Disconnect(s) ==
    /\ conn' = [conn EXCEPT ![s] = 0]
    /\ link' = [link EXCEPT ![s][conn[s]].open = FALSE]

\* Mutant: the values of an aborted attempt are not cut off by a new Begin.
WriteValueContinues(s) ==
    LET m == <<s, Len(committed[s]) + 1, Len(resendBuffer[s]) + 1>>
        begin == IF conn[s] = 0 THEN <<Begin>> ELSE <<>> IN
    /\ phase[s] \in {"idle", "open"}
    /\ m \in Message
    /\ \E c \in Conn :
        /\ Connected(s, c)
        /\ conn' = [conn EXCEPT ![s] = c]
        /\ link' = [link EXCEPT ![s][c] = Sent(s, c, Append(begin, Value(m)))]
        /\ Len(link'[s][c].in) <= MaxInFlight
    /\ phase' = [phase EXCEPT ![s] = "open"]
    /\ resendBuffer' = [resendBuffer EXCEPT ![s] = Append(@, m)]
    /\ UNCHANGED <<closing, local, faults, history, strays>>

WriteValue(s) ==
    LET m == <<s, Len(committed[s]) + 1, Len(resendBuffer[s]) + 1>>
        begin == IF phase[s] = "idle" THEN <<Begin>> ELSE <<>> IN
    /\ phase[s] \in {"idle", "open"}
    /\ m \in Message
    /\ \E c \in Conn :
        /\ Connected(s, c)
        /\ conn' = [conn EXCEPT ![s] = c]
        /\ link' = [link EXCEPT ![s][c] = Sent(s, c, Append(begin, Value(m)))]
        /\ Len(link'[s][c].in) <= MaxInFlight
    /\ phase' = [phase EXCEPT ![s] = "open"]
    /\ resendBuffer' = [resendBuffer EXCEPT ![s] = Append(@, m)]
    /\ UNCHANGED <<closing, local, faults, history, strays>>

\* There is no connection and none can be opened: WriteValue returns an error, Commit
\* tries again.
DialFails(s) ==
    /\ conn[s] = 0
    /\ phase[s] \in {"idle", "resend"}
    /\ UNCHANGED vars

\* An Encode of WriteValue fails: the section will be aborted.
WriteValueFails(s) ==
    /\ phase[s] \in {"idle", "open"}
    /\ conn[s] # 0
    /\ Broken(s)
    /\ Disconnect(s)
    /\ phase' = [phase EXCEPT ![s] = "failed"]
    /\ UNCHANGED <<resendBuffer, dialled, closing, local, history, strays>>

PreCommit(s) ==
    /\ phase[s] = "open"
    /\ conn[s] # 0
    /\ phase' = [phase EXCEPT ![s] = "preCommit"]
    /\ link' = [link EXCEPT ![s][conn[s]] = Sent(s, conn[s], <<PreCommitTag>>)]
    /\ UNCHANGED <<conn, resendBuffer, dialled, closing, local, faults, history, strays>>

\* The goroutine of PreCommit reads the acknowledgement.
PreCommitAcked(s) ==
    /\ phase[s] = "preCommit"
    /\ Answered(s, conn[s], "preCommit")
    /\ link' = [link EXCEPT ![s][conn[s]].out = Tail(@)]
    /\ phase' = [phase EXCEPT ![s] = "ready"]
    /\ UNCHANGED <<conn, resendBuffer, dialled, closing, local, faults, history, strays>>

PreCommitFails(s) ==
    /\ phase[s] = "preCommit"
    /\ conn[s] # 0
    /\ Broken(s)
    /\ Disconnect(s)
    /\ phase' = [phase EXCEPT ![s] = "failed"]
    /\ UNCHANGED <<resendBuffer, dialled, closing, local, history, strays>>

\* The section aborts because of this resource or of another one.  (Abandon is the abort
\* that meets a PreCommit which still runs.)
Abort(s) ==
    /\ phase[s] \in {"open", "ready", "failed"}
    /\ phase' = [phase EXCEPT ![s] = "idle"]
    /\ resendBuffer' = [resendBuffer EXCEPT ![s] = <<>>]
    /\ UNCHANGED <<conn, dialled, link, closing, local, faults, history, strays>>

\* Commit, and its goroutine sends the commit record and the clock.
Commit(s) ==
    /\ phase[s] = "ready"
    /\ conn[s] # 0
    /\ phase' = [phase EXCEPT ![s] = "commitWait"]
    /\ committed' = [committed EXCEPT ![s] = Append(@, resendBuffer[s])]
    /\ link' = [link EXCEPT ![s][conn[s]] = Sent(s, conn[s], <<CommitTag>>)]
    /\ UNCHANGED <<conn, resendBuffer, dialled, closing, local, faults, delivered, strays>>

CommitAcked(s) ==
    /\ phase[s] = "commitWait"
    /\ Answered(s, conn[s], "commit")
    /\ link' = [link EXCEPT ![s][conn[s]].out = Tail(@)]
    /\ phase' = [phase EXCEPT ![s] = "idle"]
    /\ resendBuffer' = [resendBuffer EXCEPT ![s] = <<>>]
    /\ UNCHANGED <<conn, dialled, closing, local, faults, history, strays>>

\* Mutant: an error in Commit ends it as if it had been acknowledged.
CommitGivesUp(s) ==
    /\ phase[s] = "commitWait"
    /\ conn[s] # 0
    /\ Broken(s)
    /\ Disconnect(s)
    /\ phase' = [phase EXCEPT ![s] = "idle"]
    /\ resendBuffer' = [resendBuffer EXCEPT ![s] = <<>>]
    /\ UNCHANGED <<dialled, closing, local, history, strays>>

\* The commit record cannot be sent, or is not answered in time.
CommitFails(s) ==
    /\ phase[s] = "commitWait"
    /\ conn[s] # 0
    /\ Broken(s)
    /\ Disconnect(s)
    /\ phase' = [phase EXCEPT ![s] = "resend"]
    /\ UNCHANGED <<resendBuffer, dialled, closing, local, history, strays>>

\* resend on a new connection, then the commit record again.  (A resend that breaks off
\* is a connection without a commit record: it has no effect.)
Resend(s) ==
    /\ phase[s] = "resend"
    /\ \E c \in Conn :
        /\ Connected(s, c)
        /\ conn' = [conn EXCEPT ![s] = c]
        /\ link' = [link EXCEPT ![s][c] =
             Sent(s, c, <<Begin>> \o [i \in 1 .. Len(resendBuffer[s]) |-> Value(resendBuffer[s][i])]
                          \o <<CommitTag>>)]
    /\ phase' = [phase EXCEPT ![s] = "commitWait"]
    /\ UNCHANGED <<resendBuffer, closing, local, faults, history, strays>>

\* Close of the remote end.
CloseRemote(s) ==
    /\ MayClose
    /\ phase[s] = "idle"
    /\ phase' = [phase EXCEPT ![s] = "closed"]
    /\ IF conn[s] # 0 THEN Disconnect(s) ELSE UNCHANGED <<conn, link>>
    /\ UNCHANGED <<resendBuffer, dialled, closing, local, faults, history, strays>>

-----------------------------------------------------------------------------
(* An abandoned PreCommit.  It shares res.conn with the sections that follow, and both   *)
(* call Close on it: whoever comes second finds nil.  (If it sends its record in the     *)
(* middle of a value the handler drops the connection, as after a fault.)                *)

Panic == panicked' = TRUE /\ UNCHANGED <<remotes, link, closing, local, faults, stray, abandoned, history>>

\* The PreCommit of another element fails, and the section aborts while the one of s has
\* not sent its record yet, or waits for the answer.
Abandon(s) ==
    /\ phase[s] = "open" \/ (phase[s] = "preCommit" /\ conn[s] # 0)
    /\ faults < MaxFaults
    /\ closing = "open"
    /\ faults' = faults + 1
    /\ abandoned' = TRUE
    /\ stray' = [stray EXCEPT ![s] = Append(@, IF phase[s] = "open" THEN 0 ELSE conn[s])]
    /\ phase' = [phase EXCEPT ![s] = "idle"]
    /\ resendBuffer' = [resendBuffer EXCEPT ![s] = <<>>]
    /\ UNCHANGED <<conn, dialled, link, closing, local, panicked, history>>

\* It sends its record on whichever connection is in use by then.
StraySends(s, i) ==
    /\ stray[s][i] = 0
    /\ phase[s] # "closed"
    /\ IF conn[s] = 0
       THEN Panic
       ELSE /\ link' = [link EXCEPT ![s][conn[s]] = Sent(s, conn[s], <<PreCommitTag>>)]
            /\ Len(link'[s][conn[s]].in) <= MaxInFlight + 1
            /\ stray' = [stray EXCEPT ![s][i] = conn[s]]
            /\ UNCHANGED <<remotes, closing, local, faults, abandoned, panicked, history>>

StrayAcked(s, i) ==
    /\ Answered(s, stray[s][i], "preCommit")
    /\ link' = [link EXCEPT ![s][stray[s][i]].out = Tail(@)]
    /\ stray' = [stray EXCEPT ![s] = RemoveAt(@, i)]
    /\ UNCHANGED <<remotes, closing, local, faults, abandoned, panicked, history>>

\* It waits on a connection that was closed, takes the answer of a Commit, or meets an
\* error.
StrayBroken(s, i) ==
    LET c == stray[s][i] IN
    /\ c # 0
    /\ \/ c # conn[s] /\ UNCHANGED faults
       \/ Answered(s, c, "commit") /\ UNCHANGED faults
       \/ c = conn[s] /\ Broken(s)

\* It closes whichever connection is in use by then.
StrayFails(s, i) ==
    /\ StrayBroken(s, i)
    /\ conn[s] # 0 \/ phase[s] = "closed"
    /\ stray' = [stray EXCEPT ![s] = RemoveAt(@, i)]
    /\ IF conn[s] # 0 THEN Disconnect(s) ELSE UNCHANGED <<conn, link>>
    /\ UNCHANGED <<phase, resendBuffer, dialled, closing, local, abandoned, panicked, history>>

\* res.conn is nil when an abandoned PreCommit closes it, or because one has closed it: in
\* PreCommit, Commit, or an error of a WriteValue or PreCommit under way.
ConnIsNil(s) ==
    /\ \/ /\ conn[s] = 0
          /\ \/ phase[s] \in {"preCommit", "ready"}
             \/ phase[s] = "open" /\ resendBuffer[s] # <<>>
             \/ phase[s] # "closed" /\ \E i \in DOMAIN stray[s] : StrayBroken(s, i)
       \/ phase[s] \in {"idle", "open"} /\ \E i \in DOMAIN stray[s] : StrayBroken(s, i)
    /\ Panic

\* Commit finds the connection closed, or takes the answer of an abandoned PreCommit,
\* which has another type.
CommitLoses(s) ==
    /\ phase[s] = "commitWait"
    /\ \/ conn[s] = 0 /\ UNCHANGED <<conn, link>>
       \/ Answered(s, conn[s], "preCommit") /\ stray[s] # <<>> /\ Disconnect(s)
    /\ phase' = [phase EXCEPT ![s] = "resend"]
    /\ UNCHANGED <<resendBuffer, dialled, closing, local, faults, strays, history>>

-----------------------------------------------------------------------------
(* handleConn *)

\* The handler of link c of s takes a record with the given tag off the stream.
Reads(s, c, tag) ==
    /\ link[s][c].pc = "loop"
    /\ link[s][c].in # <<>>
    /\ Head(link[s][c].in).tag = tag

\* The link after the handler has read a record.
ReadLink(s, c) == [link[s][c] EXCEPT !.in = Tail(@)]

HandleBegin(s, c) ==
    /\ Reads(s, c, "begin")
    /\ link' = [link EXCEPT ![s][c] =
         [ReadLink(s, c) EXCEPT !.localBuffer = <<>>, !.hasBegun = TRUE]]
    /\ UNCHANGED <<remotes, closing, local, faults, history, strays>>

\* When the local end is closing the value stays undecoded; decoding it as a tag fails.
HandleValue(s, c) ==
    /\ Reads(s, c, "value")
    /\ link[s][c].hasBegun
    /\ link' = [link EXCEPT ![s][c] =
         IF closing = "open"
         THEN [ReadLink(s, c) EXCEPT !.localBuffer = Append(@, Head(link[s][c].in).value)]
         ELSE [ReadLink(s, c) EXCEPT !.pc = "dead"]]
    /\ UNCHANGED <<remotes, closing, local, faults, history, strays>>

HandlePreCommit(s, c) ==
    /\ Reads(s, c, "preCommit")
    /\ link[s][c].hasBegun
    /\ link' = [link EXCEPT ![s][c] =
         IF closing = "open"
         THEN [ReadLink(s, c) EXCEPT !.out = Append(@, "preCommit")]
         ELSE ReadLink(s, c)]
    /\ UNCHANGED <<remotes, closing, local, faults, history, strays>>

\* Acknowledge the commit; HandlerEnqueues follows.
HandleCommit(s, c) ==
    /\ Reads(s, c, "commit")
    /\ link[s][c].hasBegun
    /\ link' = [link EXCEPT ![s][c] =
         [ReadLink(s, c) EXCEPT !.out = Append(@, "commit"), !.pc = "enqueue"]]
    /\ UNCHANGED <<remotes, closing, local, faults, history, strays>>

\* Mutant: the batch is dropped when the channel is full.
HandlerDropsWhenFull(s, c) ==
    /\ link[s][c].pc = "enqueue"
    /\ LET l == link[s][c] IN
        IF Len(msgChannel) < ChanSize
        THEN /\ msgChannel' = Append(msgChannel, l.localBuffer)
             /\ delivered' = [delivered EXCEPT ![s] = Append(@, l.localBuffer)]
        ELSE UNCHANGED <<msgChannel, delivered>>
    /\ link' = [link EXCEPT ![s][c] = [@ EXCEPT !.pc = "loop", !.localBuffer = <<>>, !.hasBegun = FALSE]]
    /\ UNCHANGED <<remotes, closing, readBacklog, readsInProgress, faults, committed, strays>>

\* "a correct TCP mailbox exchange must always start with tcpMailboxBegin"
HandlerPanics(s, c) ==
    /\ Reads(s, c, "value") \/ Reads(s, c, "preCommit") \/ Reads(s, c, "commit")
    /\ ~link[s][c].hasBegun
    /\ Panic

\* The handler passes the batch on, once there is room in msgChannel.
HandlerEnqueues(s, c) ==
    /\ link[s][c].pc = "enqueue"
    /\ LET batch == link[s][c].localBuffer IN
        IF batch # <<>>
        THEN /\ Len(msgChannel) < ChanSize
             /\ msgChannel' = Append(msgChannel, batch)
             /\ delivered' = [delivered EXCEPT ![s] = Append(@, batch)]
        ELSE UNCHANGED <<msgChannel, delivered>>
    /\ link' = [link EXCEPT ![s][c] = [@ EXCEPT !.pc = "loop", !.localBuffer = <<>>, !.hasBegun = FALSE]]
    /\ UNCHANGED <<remotes, closing, readBacklog, readsInProgress, faults, committed, strays>>

\* The handler sees an error or the end of the stream, or that the local end is done.
HandlerReturns(s, c) ==
    /\ link[s][c].pc = "loop"
    /\ ~link[s][c].open \/ closing = "done"
    /\ link' = [link EXCEPT ![s][c] = [NoLink EXCEPT !.open = link[s][c].open]]
    /\ UNCHANGED <<remotes, closing, local, faults, history, strays>>

-----------------------------------------------------------------------------
(* The local end; after Close its archetype uses it no more *)

ReadValue ==
    /\ closing = "open"
    /\ \/ /\ readBacklog # <<>>
          /\ readsInProgress' = Append(readsInProgress, Head(readBacklog))
          /\ readBacklog' = Tail(readBacklog)
          /\ UNCHANGED msgChannel
       \/ /\ readBacklog = <<>>
          /\ msgChannel # <<>>
          /\ readsInProgress' = Append(readsInProgress, Head(msgChannel)[1])
          /\ readBacklog' = Tail(Head(msgChannel))
          /\ msgChannel' = Tail(msgChannel)
    /\ UNCHANGED <<remotes, link, closing, faults, history, strays>>

\* Mutant: the reads in progress are put back behind the backlog.
LocalAbortAppends ==
    /\ closing = "open"
    /\ readsInProgress # <<>>
    /\ readBacklog' = readBacklog \o readsInProgress
    /\ readsInProgress' = <<>>
    /\ UNCHANGED <<remotes, link, closing, msgChannel, faults, history, strays>>

LocalAbort ==
    /\ closing = "open"
    /\ readsInProgress # <<>>
    /\ readBacklog' = readsInProgress \o readBacklog
    /\ readsInProgress' = <<>>
    /\ UNCHANGED <<remotes, link, closing, msgChannel, faults, history, strays>>

LocalCommit ==
    /\ closing = "open"
    /\ readsInProgress # <<>>
    /\ readsInProgress' = <<>>
    /\ UNCHANGED <<remotes, link, closing, msgChannel, readBacklog, faults, history, strays>>

\* Close: refuse new work, and after a while close the listener and the connections.  (As
\* a bound, not after a PreCommit was abandoned, nor is one abandoned after it.)
Close ==
    /\ MayClose
    /\ ~abandoned
    /\ \/ closing = "open" /\ closing' = "closing"
       \/ closing = "closing" /\ closing' = "done"
    /\ UNCHANGED <<remotes, link, local, faults, history, strays>>

-----------------------------------------------------------------------------
RemoteStep(s) ==
    \/ PreCommit(s) \/ PreCommitAcked(s) \/ PreCommitFails(s)
    \/ Commit(s) \/ CommitAcked(s) \/ CommitFails(s) \/ Resend(s)

HandlerStep(s, c) ==
    \/ HandleBegin(s, c) \/ HandleValue(s, c) \/ HandlePreCommit(s, c) \/ HandleCommit(s, c)
    \/ HandlerEnqueues(s, c)

StrayStep(s) ==
    \E i \in DOMAIN stray[s] : StraySends(s, i) \/ StrayAcked(s, i) \/ StrayFails(s, i)

\* Every sender has used up its bound or is closed, and no section is under way.
Done ==
    /\ \/ panicked
       \/ \A s \in Sender :
            phase[s] = "closed" \/ (phase[s] = "idle" /\ Len(committed[s]) = MaxSections)
    /\ UNCHANGED vars

\* A step as long as no section has left a PreCommit running.
Undisturbed ==
    \/ \E s \in Sender :
        \/ WriteValue(s) \/ WriteValueFails(s) \/ DialFails(s) \/ Abort(s) \/ RemoteStep(s) \/ CloseRemote(s)
        \/ \E c \in Conn : HandlerStep(s, c) \/ HandlerReturns(s, c)
    \/ ReadValue \/ LocalAbort \/ LocalCommit \/ Close

\* The steps of an abandoned PreCommit, and those that only one makes possible.
Disturbed ==
    \E s \in Sender :
        \/ Abandon(s) \/ StrayStep(s) \/ ConnIsNil(s) \/ CommitLoses(s)
        \/ \E c \in Conn : HandlerPanics(s, c)

Next == (~panicked /\ (Undisturbed \/ Disturbed)) \/ Done

Spec == Init /\ [][Next]_vars

\* The goroutines of Commit and the handlers go on; the reading archetype keeps reading,
\* and a section that it can always retry commits in the end (one that aborts for ever
\* never frees the channel).
FairSpec ==
    /\ Spec
    /\ \A s \in Sender :
        /\ WF_vars(~panicked /\ (CommitAcked(s) \/ CommitLoses(s) \/ Resend(s)))
        /\ \A c \in Conn : WF_vars(~panicked /\ HandlerStep(s, c))
    /\ WF_vars(~panicked /\ ReadValue)
    /\ SF_vars(~panicked /\ LocalCommit)

-----------------------------------------------------------------------------
(* Properties *)

TypeOK ==
    /\ phase \in [Sender -> Phase]
    /\ conn \in [Sender -> Conn \union {0}]
    /\ dialled \in [Sender -> Conn \union {0}]
    /\ closing \in {"open", "closing", "done"}
    /\ faults \in 0 .. MaxFaults
    /\ stray \in [Sender -> Seq(Conn \union {0})]
    /\ {abandoned, panicked} \subseteq BOOLEAN
    /\ \A s \in Sender :
        /\ ToSet(resendBuffer[s]) \subseteq Message
        /\ \A c \in Conn :
            /\ link[s][c].pc \in {"loop", "enqueue", "dead"}
            /\ link[s][c].open \in BOOLEAN
            /\ link[s][c].hasBegun \in BOOLEAN
            /\ ToSet(link[s][c].localBuffer) \subseteq Message
    /\ Len(msgChannel) <= ChanSize
    /\ \A i \in DOMAIN msgChannel : ToSet(msgChannel[i]) \subseteq Message
    /\ ToSet(readBacklog) \subseteq Message
    /\ ToSet(readsInProgress) \subseteq Message

\* handleConn panics on a record of an exchange that did not start with a Begin
\* ("a correct TCP mailbox exchange must always start with tcpMailboxBegin").
ExchangesBegin ==
    \A s \in Sender, c \in Conn :
        (Reads(s, c, "value") \/ Reads(s, c, "preCommit") \/ Reads(s, c, "commit"))
            => link[s][c].hasBegun

\* Only what the sender was told to commit enters the mailbox, and always a whole
\* section: never a message of an attempt that was aborted, even when connections break.
OnlyCommittedArrives ==
    \A s \in Sender : ToSet(delivered[s]) \subseteq ToSet(committed[s])

\* Once Commit has returned, the batch is in the mailbox, or a handler that has
\* acknowledged it is about to put it there: broken connections and Close lose nothing.
CommittedIsKept ==
    \A s \in Sender : \A i \in DOMAIN committed[s] :
        \/ i = Len(committed[s]) /\ phase[s] \in Committing
        \/ committed[s][i] \in ToSet(delivered[s])
        \/ \E c \in Conn : link[s][c].pc = "enqueue" /\ link[s][c].localBuffer = committed[s][i]

\* As long as there are no faults the mailbox implements the reliable FIFO link of its
\* documentation: aborts of senders, aborts of the reader in the middle of a batch and
\* Close change nothing.
Link == INSTANCE ReliableMailbox WITH
    transit <- [s \in Sender |-> SubSeq(committed[s], Len(delivered[s]) + 1, Len(committed[s]))],
    queue <- readsInProgress \o readBacklog \o FlattenSeq(msgChannel)
IsReliableLink == Link!Init /\ [][faults' = 0 => [Link!Next]_Link!vars]_vars

\* No batch enters the mailbox twice.
DeliveredOnce ==
    \A s \in Sender : \A i, j \in DOMAIN delivered[s] : delivered[s][i] = delivered[s][j] => i = j

\* A Commit ends and its batch arrives, once the faults are over, unless the local end
\* is closed first.
CommitEnds ==
    \A s \in Sender : \A k \in 1 .. MaxSections :
        Len(committed[s]) >= k
            ~> \/ closing # "open" \/ panicked
               \/ /\ Len(committed[s]) >= k
                  /\ committed[s][k] \in ToSet(delivered[s])
                  /\ Len(committed[s]) > k \/ phase[s] \notin Committing
=============================================================================
