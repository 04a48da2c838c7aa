-------------------------- MODULE ReliableMailbox ---------------------------
(***************************************************************************)
(* What a mailbox promises: the mapping macro LimitedBufferReliableFIFOLink *)
(* of the mailboxes' documentation, for one reader and several senders.  A *)
(* critical section of a sender sends a batch of messages, which enters    *)
(* the queue as a whole, exactly once and in the order of the sender's     *)
(* sections; a critical section of the reader takes messages off the front.*)
(***************************************************************************)
EXTENDS Naturals, Sequences

CONSTANTS Sender

VARIABLES
    transit,   \* per sender: the batches sent that are not in the queue yet
    queue

vars == <<transit, queue>>

Init ==
    /\ transit = [s \in Sender |-> <<>>]
    /\ queue = <<>>

Send(s, batch) ==
    /\ transit' = [transit EXCEPT ![s] = Append(@, batch)]
    /\ UNCHANGED queue

Deliver(s) ==
    /\ transit[s] # <<>>
    /\ queue' = queue \o Head(transit[s])
    /\ transit' = [transit EXCEPT ![s] = Tail(@)]

Receive(n) ==
    /\ queue' = SubSeq(queue, n + 1, Len(queue))
    /\ UNCHANGED transit

\* The batch that a step of Send appends.
Next ==
    \/ \E s \in Sender :
        \/ /\ transit'[s] # <<>>
           /\ Send(s, transit'[s][Len(transit'[s])])
        \/ Deliver(s)
    \/ \E n \in 1 .. Len(queue) : Receive(n)

Spec == Init /\ [][Next]_vars
=============================================================================
