------------------------------- MODULE MCPipe -------------------------------
(* Small instances of Pipe. *)
EXTENDS Pipe

CONSTANTS p1, p2, p3

MCProcess == {p1, p2, p3}

=============================================================================
