--------------------------- MODULE MCTCPMailboxes ---------------------------
(* Instances of TCPMailboxes for TLC. *)
EXTENDS TCPMailboxes

CONSTANTS s1, s2   \* senders
=============================================================================
