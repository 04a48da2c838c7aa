--------------------------- MODULE SingleCopyStore ---------------------------
(***************************************************************************)
(* What a client of the replicated key-value store may rely on: there is    *)
(* one history of commands, it only grows, and every answer is the result   *)
(* of a command in it, computed from the commands before it.                *)
(***************************************************************************)
EXTENDS Naturals, Sequences

CONSTANT NoValue

VARIABLES commands,   \* the history: records with cmd and client
          answers     \* the results clients have been given

\* The positions up to n that put a value under key.
PutsBefore(key, n) ==
    {k \in 1..n : commands[k].cmd.type = "put" /\ commands[k].cmd.key = key}

\* The value under key after the first n commands.
ValueAt(key, n) ==
    IF PutsBefore(key, n) = {} THEN NoValue
    ELSE commands[CHOOSE k \in PutsBefore(key, n) :
                      \A l \in PutsBefore(key, n) : l <= k].cmd.value

Init == commands = <<>> /\ answers = {}

Execute ==
    /\ Len(commands') = Len(commands) + 1
    /\ SubSeq(commands', 1, Len(commands)) = commands
    /\ UNCHANGED answers

\* The same command may be in the history twice, after a retry.
Answer ==
    /\ \E k \in 1..Len(commands) :
          LET cmd == commands[k].cmd
          IN answers' = answers \cup
                {[client |-> commands[k].client, idx |-> cmd.idx, value |-> ValueAt(cmd.key, k)]}
    /\ UNCHANGED commands

Next == Execute \/ Answer

Spec == Init /\ [][Next]_<<commands, answers>>
=============================================================================
