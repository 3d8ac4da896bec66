--------------------------- MODULE MCRequestReply ---------------------------
(* RequestReply for model checking: a client, and two actors that may call   *)
(* one another and themselves while they handle its message.                 *)
EXTENDS RequestReply, TLC

CONSTANTS u, a, b

MCClients == {u}
MCActors == {a, b}
MCOps == (u :> {"request", "askContext", "shutdown"})
         @@ (a :> {"ask", "forward"}) @@ (b :> {"request"})

=============================================================================
