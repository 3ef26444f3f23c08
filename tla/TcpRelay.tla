------------------------------ MODULE TcpRelay ------------------------------
(***************************************************************************)
(* What zdtun promises about one TCP connection it relays: two byte pipes. *)
(* The server gets the client's bytes in order and once; the client is     *)
(* only told that a byte arrived after the server was given it, for as     *)
(* long as there is a server; the client gets the server's bytes in order, *)
(* and the end of the stream only after all of them.                       *)
(*                                                                         *)
(* One thing breaks the second pipe: with a scaled window, a server that   *)
(* has a whole first window of bytes ready before the client's first ACK   *)
(* may have the rest cut.                                                  *)
(***************************************************************************)
EXTENDS Naturals, Sequences

CONSTANTS
  FirstWindow, \* a number: the client's first window, in bytes
  Scaled       \* a Boolean: the client's windows are scaled

VARIABLES
  to_server,   \* the client's bytes the server got, by position in the stream
  acked,       \* how many of them the client was told arrived
  offered,     \* the server's bytes that arrived at the relay
  to_client,   \* how many of them the client got
  ended,       \* the client was told that there are no more
  cut,         \* some may be lost, and the end told too early or never
  server_gone  \* the server closed and zdtun knows it

relay_vars == <<to_server, acked, offered, to_client, ended, cut, server_gone>>

Init ==
  /\ to_server = <<>>
  /\ acked = 0 /\ offered = 0 /\ to_client = 0
  /\ ended = FALSE /\ cut = FALSE /\ server_gone = FALSE

(* Some more bytes reach the server, the next ones of the stream.           *)
Upload ==
  /\ ~server_gone
  /\ Len(to_server') > Len(to_server)
  /\ to_server' = [i \in 1 .. Len(to_server') |-> i - 1]
  /\ acked' >= acked /\ acked' <= Len(to_server')
  /\ UNCHANGED <<offered, to_client, ended, cut, server_gone>>

Acknowledge ==
  /\ acked' > acked
  /\ ~server_gone => acked' <= Len(to_server)
  /\ UNCHANGED <<to_server, offered, to_client, ended, cut, server_gone>>

Offer ==
  /\ ~server_gone
  /\ offered' = offered + 1
  /\ UNCHANGED <<to_server, acked, to_client, ended, cut, server_gone>>

Download ==
  /\ to_client' > to_client /\ to_client' <= offered
  /\ ~ended
  /\ UNCHANGED <<to_server, acked, offered, ended, cut, server_gone>>

(* At least the first window arrives.                                       *)
Cut ==
  /\ Scaled /\ ~cut /\ cut' = TRUE
  /\ ~ended
  /\ to_client' >= to_client /\ to_client' >= FirstWindow /\ to_client' <= offered
  /\ UNCHANGED <<to_server, acked, offered, ended, server_gone>>

End ==
  /\ ~server_gone /\ server_gone' = TRUE
  /\ \/ ended' = TRUE /\ (to_client = offered \/ cut)
     \/ ended' = ended /\ cut
  /\ UNCHANGED <<to_server, acked, offered, to_client, cut>>

Next == Upload \/ Acknowledge \/ Offer \/ Download \/ Cut \/ End

Spec == Init /\ [][Next]_relay_vars
=============================================================================
