-------------------------------- MODULE Wire --------------------------------
(***************************************************************************)
(* One NNTP session seen from the client: the commands it has written and  *)
(* the server has not finished answering, and the parts of replies the     *)
(* server has sent and the client has not read.  The server is external:   *)
(* it answers strictly in order, a status line first and, after the status *)
(* of a multi-line reply, the body; it may stop answering or close the     *)
(* connection at any point.                                                *)
(***************************************************************************)
EXTENDS Sequences

VARIABLES cmds,     \* <<[for, part]>>: part "line" or "body" is due next
          stream,   \* <<[for, kind]>>: unread parts of replies
          alive     \* the server has not closed the connection

wireVars == <<cmds, stream, alive>>

\* A session that was just opened.
FreshWire == cmds = <<>> /\ stream = <<>> /\ alive = TRUE

\* The client opens another session in the place of this one.
OpenWire == cmds' = <<>> /\ stream' = <<>> /\ alive' = TRUE

\* The client writes a command: a server that closed never sees it.
WriteCmd(r) ==
    cmds' = IF alive THEN Append(cmds, [for |-> r, part |-> "line"]) ELSE cmds

\* The server sends the next part it owes; multi: kinds followed by a body.
SendPart(kinds, multi) ==
    /\ alive
    /\ cmds # <<>>
    /\ LET r == Head(cmds).for
       IN  \/ /\ Head(cmds).part = "line"
              /\ \E k \in kinds :
                    /\ stream' = Append(stream, [for |-> r, kind |-> k])
                    /\ cmds' = IF k \in multi
                               THEN <<[for |-> r, part |-> "body"]>> \o Tail(cmds)
                               ELSE Tail(cmds)
           \/ /\ Head(cmds).part = "body"
              /\ stream' = Append(stream, [for |-> r, kind |-> "body"])
              /\ cmds' = Tail(cmds)
    /\ alive' = alive

\* The server closes: what it has sent can still be read, the rest never comes.
ServerClose ==
    /\ alive
    /\ alive' = FALSE
    /\ cmds' = <<>>
    /\ stream' = stream

\* The client takes the next part off the stream.
TakePart ==
    /\ stream # <<>>
    /\ stream' = Tail(stream)
    /\ UNCHANGED <<cmds, alive>>
=============================================================================
