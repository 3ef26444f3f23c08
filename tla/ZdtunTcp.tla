------------------------------ MODULE ZdtunTcp ------------------------------
(***************************************************************************)
(* The data phase of one TCP connection of zdtun.c, after the SYN+ACK.     *)
(* The client is a TCP stack behind the tun device: what it writes waits   *)
(* in the device's queue, what zdtun writes reaches it at once.  The       *)
(* packet loop turns to the socket only when select() saw the device       *)
(* empty; packets may arrive between the two.  Payload bytes are their     *)
(* positions in the stream; sequence numbers go round a small SeqMod (2^32 *)
(* in the code) from a start next to the wrap.  The window of a packet     *)
(* counts units of 2^window_scale bytes, but that of the SYN counts bytes  *)
(* (RFC 7323); zdtun shifts both, and so overrates the client's window     *)
(* until its first ACK.  recv() takes bytes for good: zdtun never resends. *)
(*                                                                         *)
(* Losing the connection (resets, refused packets) is the matter of Zdtun. *)
(***************************************************************************)
EXTENDS Integers, Sequences

CONSTANTS
  ClientBytes, ServerBytes, \* length of the two streams
  Mss,                      \* conn->tcp.mss: most payload bytes of a packet
  ClientBuffer,             \* the client's receive buffer, the SYN's window
  Unit,                     \* 2^conn->tcp.window_scale
  SeqMod, ClientIsn, ZdtunIsn,
  MaxTun,                   \* bound: packets waiting in the tun device
  Clients                   \* the kinds of clients: patient and hasty ones

ASSUME TcpAssumption ==
  /\ ClientBytes \in Nat /\ ServerBytes \in Nat /\ MaxTun \in Nat \ {0}
  /\ Mss \in Nat \ {0} /\ ClientBuffer \in Nat \ {0} /\ Unit \in Nat \ {0}
  /\ SeqMod \in Nat /\ SeqMod > 2 * (ClientBytes + 2)
  /\ SeqMod > 2 * (ServerBytes + ClientBuffer * Unit + Unit)
  /\ ClientIsn \in 0 .. (SeqMod - 1) /\ ZdtunIsn \in 0 .. (SeqMod - 1)
  /\ Clients \subseteq {"patient", "hasty"}

VARIABLES
  \* the client
  snd_una, snd_nxt, \* positions in its stream: acknowledged, sent; FIN is one
  rcv_nxt, unread,  \* server bytes it received, and those not read by the app
  edge,             \* the right edge it offered: it takes the bytes below
  fin_rcvd,         \* it got the FIN of zdtun
  told,             \* the <<ack, window>> of its last packet, or <<-1, 0>> if
                    \* it owes an ACK: of the SYN+ACK, or of refused bytes
  client,           \* its kind: a hasty one closes before all it sent is
                    \* acknowledged, and its timer resends what is not
  tun,              \* packets waiting in the tun device
  \* the connection of zdtun
  client_seq, zdtun_seq, window_size, \* modulo SeqMod
  tx_queue,         \* bytes waiting for the server; its length is tx_queue_size
  selectable,       \* FD_ISSET(sock, all_fds)
  sock,             \* sock # INVALID_SOCKET
  shut,             \* shutdown(sock, SHUT_WR) was called
  client_closed, fin_ack_sent,
  open,             \* status < CONN_STATUS_CLOSED
  taken,            \* bytes recv() took from the server's socket
  guessed,          \* history: window_size is still that of the shifted SYN
  filled,           \* history: under that guess zdtun used up the SYN's window
  ready,            \* what select() reported of the socket: "none", "read", "write"
  \* the server
  srv_sent,         \* bytes it sent: those above taken wait in the socket
  srv_closed,       \* it closed its end
  srv_got           \* the client's bytes it got

client_vars == <<snd_una, snd_nxt, rcv_nxt, unread, edge, fin_rcvd>>
conn_vars == <<client_seq, zdtun_seq, window_size, tx_queue, selectable, sock, shut,
               client_closed, fin_ack_sent, open, taken, guessed, filled>>
server_vars == <<srv_sent, srv_closed, srv_got>>
vars == <<client, client_vars, told, tun, conn_vars, ready, server_vars>>

Least(a, b) == IF a < b THEN a ELSE b
ClientWire(pos) == (ClientIsn + pos) % SeqMod
ZdtunWire(pos) == (ZdtunIsn + pos) % SeqMod
FinSent == snd_nxt > ClientBytes

Window == edge - rcv_nxt
Room == IF Window > ClientBuffer - unread THEN Window ELSE ClientBuffer - unread

(* The window field of the client's next packet: the room it has, rounded   *)
(* up to units; the edge that it offered never moves back.                  *)
Units(bytes) == (bytes + Unit - 1) \div Unit
Offered == Units(Room)

(* zdtun has seen the SYN and sent the SYN+ACK, which the client got.       *)
Init ==
  /\ client \in Clients
  /\ snd_una = 0 /\ snd_nxt = 0 /\ rcv_nxt = 0 /\ unread = 0
  /\ edge = ClientBuffer /\ fin_rcvd = FALSE /\ told = <<-1, 0>> /\ tun = <<>>
  /\ client_seq = ClientWire(0) /\ zdtun_seq = ZdtunWire(0)
  /\ window_size = ClientBuffer * Unit
  /\ tx_queue = <<>> /\ selectable = TRUE /\ sock = TRUE /\ shut = FALSE
  /\ client_closed = FALSE /\ fin_ack_sent = FALSE /\ open = TRUE
  /\ taken = 0 /\ guessed = (Unit # 1) /\ filled = FALSE
  /\ ready = "none"
  /\ srv_sent = 0 /\ srv_closed = FALSE /\ srv_got = <<>>

-----------------------------------------------------------------------------
(* The client. *)

(* A packet of the client at position pos, with len payload bytes.          *)
Packet(pos, len, fin) ==
  [seq |-> (ClientIsn + pos + SeqMod) % SeqMod, pos |-> pos, len |-> len, fin |-> fin,
   ack |-> ZdtunWire(rcv_nxt), win |-> Offered]

Sends(pos, len, fin) ==
  /\ Len(tun) < MaxTun
  /\ tun' = Append(tun, Packet(pos, len, fin))
  /\ told' = <<rcv_nxt, Offered>> /\ edge' = rcv_nxt + Offered * Unit
  /\ snd_nxt' = IF pos + len + (IF fin THEN 1 ELSE 0) > snd_nxt
                THEN pos + len + (IF fin THEN 1 ELSE 0) ELSE snd_nxt
  /\ UNCHANGED <<snd_una, rcv_nxt, unread, fin_rcvd, conn_vars, ready, server_vars>>

ClientSend ==
  \E len \in 1 .. Mss :
    /\ snd_nxt + len <= ClientBytes
    /\ Sends(snd_nxt, len, FALSE)

(* The last packet.  A hasty client sends its FIN as soon as it can, with   *)
(* the last bytes and the news about its window.                            *)
ClientFin ==
  \E len \in 0 .. Mss :
    /\ ~FinSent /\ snd_nxt + len = ClientBytes
    /\ client = "hasty" \/ (len = 0 /\ snd_una = snd_nxt /\ told = <<rcv_nxt, Offered>>)
    /\ Sends(snd_nxt, len, TRUE)

(* The oldest bytes that are not acknowledged, as many as fit in a packet.  *)
ClientRetransmit ==
  /\ client = "hasty" /\ snd_una < snd_nxt
  /\ \/ LET len == Least(Mss, Least(snd_nxt, ClientBytes) - snd_una)
        IN  len > 0 /\ Sends(snd_una, len, FALSE)
     \/ FinSent /\ snd_una >= ClientBytes /\ Sends(ClientBytes, 0, TRUE)

(* An ACK tells what the client received and the room it has.               *)
ClientAck ==
  /\ told # <<rcv_nxt, Offered>>
  /\ Sends(snd_nxt, 0, FALSE)

ClientRead ==
  /\ unread > 0
  /\ unread' = 0
  /\ UNCHANGED <<snd_una, snd_nxt, rcv_nxt, edge, fin_rcvd, told, tun, conn_vars, ready,
                 server_vars>>

(* An acknowledgment of zdtun: the position it stands for, if it is one of  *)
(* those in flight.                                                         *)
Acknowledged(seq) ==
  IF \E pos \in snd_una .. snd_nxt : ClientWire(pos) = seq
  THEN CHOOSE pos \in snd_una .. snd_nxt : ClientWire(pos) = seq
  ELSE snd_una

-----------------------------------------------------------------------------
(* The server. *)

ServerSend ==
  /\ sock /\ ~srv_closed /\ srv_sent < ServerBytes
  /\ srv_sent' = srv_sent + 1
  /\ UNCHANGED <<client_vars, told, tun, conn_vars, ready, srv_closed, srv_got>>

ServerClose ==
  /\ sock /\ ~srv_closed
  /\ srv_closed' = TRUE
  /\ UNCHANGED <<client_vars, told, tun, conn_vars, ready, srv_sent, srv_got>>

Readable == sock /\ selectable /\ (srv_sent > taken \/ srv_closed)

(* Keep-alives probe a connection where nothing has moved for hours.        *)
ClientKeepAlive ==
  /\ snd_una = snd_nxt /\ ~FinSent /\ ~fin_rcvd /\ tun = <<>> /\ ~Readable
  /\ told = <<rcv_nxt, Offered>>
  /\ Sends(snd_nxt - 1, 0, FALSE)

-----------------------------------------------------------------------------
(* A packet from the tun device: handle_tcp_fwd. *)

is_keep_alive(pkt) == (pkt.seq + 1) % SeqMod = client_seq

in_sequence_unqueued(pkt) == pkt.seq = client_seq

in_sequence(pkt) == pkt.seq = (client_seq + Len(tx_queue)) % SeqMod

Payload(pkt) == [i \in 1 .. pkt.len |-> pkt.pos + i - 1]

AckClient(seq) == snd_una' = Acknowledged(seq)

in_flight_ignored(ack) == 0

in_flight(ack) ==
  IF zdtun_seq >= ack THEN zdtun_seq - ack ELSE (SeqMod - 1) - ack + zdtun_seq + 1

(* FIN+ACK: the server is told, the packet is acknowledged.                 *)
forward_fin(pkt) ==
  LET seq == (client_seq + pkt.len + 1) % SeqMod IN
  /\ client_seq' = seq
  /\ AckClient(seq)
  /\ client_closed' = TRUE
  /\ shut' = (shut \/ sock)
  /\ open' = sock
  /\ tx_queue' = IF sock THEN tx_queue ELSE <<>>
  /\ UNCHANGED <<window_size, guessed, selectable, srv_got>>

forward_ack_unselectable(pkt) ==
  /\ IF sock /\ ~is_keep_alive(pkt)
     THEN window_size' = (pkt.win * Unit - in_flight(pkt.ack)) % SeqMod /\ guessed' = FALSE
     ELSE UNCHANGED <<window_size, guessed>>
  /\ UNCHANGED selectable
  /\ IF sock
     THEN /\ tx_queue' = tx_queue \o Payload(pkt)
          /\ IF is_keep_alive(pkt) THEN AckClient(client_seq) ELSE UNCHANGED snd_una
          /\ UNCHANGED client_seq
     ELSE LET seq == (client_seq + pkt.len) % SeqMod
          IN  /\ client_seq' = seq
              /\ IF pkt.len > 0 THEN AckClient(seq) ELSE UNCHANGED snd_una
              /\ UNCHANGED tx_queue
  /\ UNCHANGED <<shut, client_closed, open, srv_got>>

(* A keep-alive is acknowledged; an ACK updates the window and makes the    *)
(* socket selectable again.  Then payload is queued for the server, or only *)
(* acknowledged when the server is gone.                                    *)
forward_ack(pkt) ==
  /\ IF sock /\ ~is_keep_alive(pkt)
     THEN LET window == (pkt.win * Unit - in_flight(pkt.ack)) % SeqMod
          IN  /\ window_size' = window /\ guessed' = FALSE
              /\ selectable' = (selectable \/ window > 0)
     ELSE UNCHANGED <<window_size, guessed, selectable>>
  /\ IF sock
     THEN /\ tx_queue' = tx_queue \o Payload(pkt)
          /\ IF is_keep_alive(pkt) THEN AckClient(client_seq) ELSE UNCHANGED snd_una
          /\ UNCHANGED client_seq
     ELSE LET seq == (client_seq + pkt.len) % SeqMod
          IN  /\ client_seq' = seq
              /\ IF pkt.len > 0 THEN AckClient(seq) ELSE UNCHANGED snd_una
              /\ UNCHANGED tx_queue
  /\ UNCHANGED <<shut, client_closed, open, srv_got>>

handle_tcp_fwd ==
  /\ tun # <<>> /\ ready = "none"
  /\ tun' = Tail(tun)
  /\ LET pkt == Head(tun)
     IN  IF open /\ (is_keep_alive(pkt) \/ in_sequence(pkt))
         THEN IF pkt.fin THEN forward_fin(pkt) ELSE forward_ack(pkt)
         ELSE UNCHANGED <<client_seq, snd_una, window_size, guessed, selectable, tx_queue,
                          shut, client_closed, open, srv_got>>
  /\ UNCHANGED <<snd_nxt, rcv_nxt, unread, edge, fin_rcvd, told, zdtun_seq, sock,
                 fin_ack_sent, taken, filled, ready, srv_sent, srv_closed>>

-----------------------------------------------------------------------------
(* A socket event: select() finds nothing in the tun device, and            *)
(* zdtun_handle_fd looks at the read event first.                           *)

select ==
  /\ open /\ tun = <<>> /\ ready = "none"
  /\ \/ Readable /\ ready' = "read"
     \/ ~Readable /\ sock /\ tx_queue # <<>> /\ ready' = "write"
  /\ UNCHANGED <<client_vars, told, tun, conn_vars, server_vars>>

(* recv() = 0, from a closed server or because no byte was asked for.  The  *)
(* client takes the FIN if it is next after the bytes it has.               *)
server_closed ==
  /\ fin_rcvd' = (fin_rcvd \/ taken = rcv_nxt) /\ fin_ack_sent' = TRUE
  /\ zdtun_seq' = IF fin_ack_sent THEN zdtun_seq ELSE (zdtun_seq + 1) % SeqMod
  /\ sock' = FALSE /\ selectable' = FALSE
  /\ open' = ~client_closed
  /\ tx_queue' = IF client_closed THEN <<>> ELSE tx_queue
  /\ UNCHANGED <<rcv_nxt, unread, told, window_size, taken, filled>>

(* The client keeps the bytes that are next in the stream and inside its    *)
(* window; of anything else it only repeats what it expects.                *)
client_takes(len) ==
  LET kept == IF taken = rcv_nxt THEN Least(len, Window) ELSE 0 IN
  /\ rcv_nxt' = rcv_nxt + kept /\ unread' = unread + kept
  /\ told' = IF kept = len THEN told ELSE <<-1, 0>>

server_data_selectable(len) ==
  /\ taken' = taken + len
  /\ zdtun_seq' = (zdtun_seq + len) % SeqMod
  /\ window_size' = window_size - len
  /\ filled' = (filled \/ (guessed /\ taken + len >= ClientBuffer))
  /\ client_takes(len)
  /\ UNCHANGED <<selectable, fin_rcvd, fin_ack_sent, sock, open, tx_queue>>

(* The bytes taken from the socket go to the client in one packet; a full   *)
(* window ends the reading.                                                 *)
server_data(len) ==
  /\ taken' = taken + len
  /\ zdtun_seq' = (zdtun_seq + len) % SeqMod
  /\ window_size' = window_size - len
  /\ selectable' = (window_size # len)
  /\ filled' = (filled \/ (guessed /\ taken + len >= ClientBuffer))
  /\ client_takes(len)
  /\ UNCHANGED <<fin_rcvd, fin_ack_sent, sock, open, tx_queue>>

handle_tcp_reply_whole_mss ==
  /\ ready = "read" /\ ready' = "none"
  /\ LET len == Least(Mss, srv_sent - taken)
     IN  IF len = 0 THEN server_closed ELSE server_data(len)
  /\ UNCHANGED <<snd_una, snd_nxt, edge, tun, client_seq, shut, client_closed, guessed,
                 server_vars>>

handle_tcp_reply ==
  /\ ready = "read" /\ ready' = "none"
  /\ LET to_recv == Least(window_size, Mss)
         len == Least(to_recv, srv_sent - taken)
     IN  IF len = 0 THEN server_closed ELSE server_data(len)
  /\ UNCHANGED <<snd_una, snd_nxt, edge, tun, client_seq, shut, client_closed, guessed,
                 server_vars>>

send_partial_ackall(n) ==
  LET seq == (client_seq + Len(tx_queue)) % SeqMod IN
  /\ srv_got' = srv_got \o SubSeq(tx_queue, 1, n)
  /\ tx_queue' = SubSeq(tx_queue, n + 1, Len(tx_queue))
  /\ client_seq' = seq
  /\ AckClient(seq)
  /\ UNCHANGED <<open, sock>>

(* send() takes the first n bytes of the queue: they are acknowledged.      *)
send_partial(n) ==
  LET seq == (client_seq + n) % SeqMod IN
  /\ srv_got' = srv_got \o SubSeq(tx_queue, 1, n)
  /\ tx_queue' = SubSeq(tx_queue, n + 1, Len(tx_queue))
  /\ client_seq' = seq
  /\ AckClient(seq)
  /\ UNCHANGED <<open, sock>>

(* The server takes a prefix of the queue and the client is told; once the  *)
(* sending side is shut down send() fails and the connection is closed.     *)
handle_queued_tcp_data ==
  /\ ready = "write" /\ ready' = "none"
  /\ IF shut
     THEN /\ open' = FALSE /\ sock' = FALSE /\ tx_queue' = <<>>
          /\ UNCHANGED <<client_seq, snd_una, srv_got>>
     ELSE \E n \in 1 .. Len(tx_queue) : send_partial(n)
  /\ UNCHANGED <<snd_nxt, rcv_nxt, unread, edge, fin_rcvd, told, tun, zdtun_seq, window_size,
                 selectable, shut, client_closed, fin_ack_sent, taken, guessed, filled,
                 srv_sent, srv_closed>>

Next ==
  /\ \/ ClientSend \/ ClientFin \/ ClientRetransmit \/ ClientKeepAlive
     \/ ClientAck \/ ClientRead
     \/ ServerSend \/ ServerClose
     \/ handle_tcp_fwd \/ select \/ handle_tcp_reply \/ handle_queued_tcp_data
  /\ UNCHANGED client

Spec == Init /\ [][Next]_vars

(* The packet loop serves whatever select() reports, and drains the tun     *)
(* device faster than a client with one timer per connection fills it.  The *)
(* client reads what it received, tells its window, and resends what is not *)
(* acknowledged.                                                            *)
FairSpec ==
  /\ Spec
  /\ WF_vars(handle_tcp_fwd /\ UNCHANGED client)
  /\ SF_vars(select /\ UNCHANGED client)
  /\ WF_vars(handle_tcp_reply /\ UNCHANGED client)
  /\ WF_vars(handle_queued_tcp_data /\ UNCHANGED client)
  /\ WF_vars(ClientRead /\ UNCHANGED client)
  /\ WF_vars(ClientAck /\ UNCHANGED client)
  /\ WF_vars(ClientRetransmit /\ UNCHANGED client)

-----------------------------------------------------------------------------
TypeOK ==
  /\ client \in Clients
  /\ snd_una \in 0 .. (ClientBytes + 1) /\ snd_nxt \in snd_una .. (ClientBytes + 1)
  /\ taken \in 0 .. srv_sent /\ rcv_nxt \in 0 .. taken /\ unread \in 0 .. rcv_nxt
  /\ edge \in rcv_nxt .. (rcv_nxt + Units(ClientBuffer) * Unit)
  /\ told \in (-1 .. ServerBytes) \X (0 .. Units(ClientBuffer))
  /\ Len(tun) <= MaxTun
  /\ client_seq \in 0 .. (SeqMod - 1) /\ zdtun_seq \in 0 .. (SeqMod - 1)
  /\ window_size \in 0 .. (SeqMod - 1)
  /\ {selectable, sock, shut, client_closed, fin_ack_sent, open, fin_rcvd, srv_closed,
      guessed, filled} \subseteq BOOLEAN
  /\ srv_sent \in 0 .. ServerBytes

(* Once an ACK told zdtun the client's window, it never thinks that the     *)
(* client can take more than it can, whatever updates are still on their    *)
(* way and wherever the sequence numbers wrap; and no byte it took from the *)
(* server ever falls outside the client's window.  Except after it used up  *)
(* the window of the SYN before that ACK: then it went by 2^window_scale    *)
(* times that window (zdtun.c:1241).                                        *)
WindowSound ==
  sock /\ ~filled => /\ taken = rcv_nxt
                     /\ zdtun_seq = ZdtunWire(rcv_nxt)
                     /\ ~guessed => window_size <= Window

Patient == client = "patient"

Relay == INSTANCE TcpRelay WITH
  FirstWindow <- ClientBuffer, Scaled <- Unit # 1,
  to_server <- IF Patient THEN srv_got ELSE <<>>,
  acked <- IF Patient THEN Least(snd_una, ClientBytes) ELSE 0,
  offered <- srv_sent, to_client <- rcv_nxt, ended <- fin_rcvd, cut <- filled,
  server_gone <- IF Patient THEN ~sock ELSE fin_rcvd

(* The connection of a patient client is the two byte pipes of TcpRelay,    *)
(* and so is the download of a hasty one: recv() = 0 is taken for the       *)
(* server's close, but the client gets a FIN only after every byte, never   *)
(* because its window was 0 and no byte was asked for.  The download, not   *)
(* the upload, loses this once it is cut: when the shifted window of the    *)
(* SYN let zdtun use up the client's first window before the first ACK.     *)
Relayed == Relay!Spec

(* Whatever the server sends reaches the client: a socket taken out of      *)
(* all_fds for a zero window is put back when the client reads.  Unless the *)
(* download was cut.                                                        *)
Downloads == Patient /\ rcv_nxt < srv_sent ~> rcv_nxt = srv_sent \/ filled

(* Whatever the client sends is acknowledged, as long as the server listens *)
(* and zdtun does not take a download that was cut for ended.               *)
Uploads == Patient /\ snd_una < snd_nxt ~> snd_una = snd_nxt \/ srv_closed \/ filled

-----------------------------------------------------------------------------
(* What the code says of itself, and does not keep. *)

(* "ACK the sent packets" (handle_queued_tcp_data): an acknowledged byte    *)
(* was given to the server, while there is one.                             *)
AckedWasSent == sock => Len(srv_got) >= Least(snd_una, ClientBytes)

(* "Half close the socket to possibly signal the remote server" (the FIN of *)
(* handle_tcp_fwd): the client's close does not end the connection while    *)
(* the server is there.                                                     *)
HalfCloseOnly == srv_closed \/ open

(* "ignoring out of sequence data" (handle_tcp_fwd): the server gets the    *)
(* stream of the client, each byte once.                                    *)
StreamOnce == \A i \in DOMAIN srv_got : srv_got[i] = i - 1

(* "scaled client window size" (window_size, zdtun.c:116): what zdtun takes *)
(* from the server the client can take.                                     *)
NothingLost == sock => taken = rcv_nxt

(* "stop receiving updates for the socket, until the TCP window is updated" *)
(* (handle_tcp_reply): what the server sends reaches a client with room.    *)
WindowReopens == \A n \in 1 .. ServerBytes : srv_sent >= n ~> rcv_nxt >= n

(* "The server may have closed the connection while the client is still     *)
(* sending data. We should still ACK this data" (handle_tcp_fwd).           *)
StillAcked == \A n \in 1 .. ClientBytes : snd_nxt >= n ~> snd_una >= n
=============================================================================
