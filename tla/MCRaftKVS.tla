------------------------------ MODULE MCRaftKVS ------------------------------
(* Small instances of RaftKVS. *)
EXTENDS RaftKVS

put(v) == [type |-> "put", key |-> "k", value |-> v]

OnePut == {put("a")}
Relay == <<{2}, {3}, {}>>
Contest == <<{2}, {2, 3}, {}>>
Wary == {<<3, 1>>}
NoRoutes == {}
RequestRoute == {<<"client", 19, 1>>}
AppendRoute == {<<"append", 1, 2>>}

\* Has client c asked all it may?
Finished(c) == pc[c] = "clientLoop" /\ reqIdx[c] = MaxRequests

\* What some step may still read.  Votes are read by candidates and the indexes by
\* leaders, who set them anew; a client that waits for an answer sets its server
\* before it reads it; the hint in an answer that was read is in server.
LiveView ==
    <<roleVars, logVars, commitVars, becomeLeaderCh, voteIdx, appendIdx, pc, req, reqIdx, net, overtaken,
      [i \in Servers |-> IF state[i] = "candidate" THEN votesGranted[i] ELSE {}],
      [i \in Servers |-> IF state[i] = "leader" THEN <<nextIndex[i], matchIndex[i]>> ELSE <<>>],
      [i \in Servers |-> LargerOf(newCommitIndex[i], commitIndex[i])],
      [c \in Clients |-> IF pc[c] = "rcvResp" \/ Finished(c) THEN Nil ELSE server[c]],
      [c \in Clients |-> IF Finished(c) THEN 0 ELSE sends[c]],
      Answers>>
=============================================================================
