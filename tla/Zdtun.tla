------------------------------- MODULE Zdtun -------------------------------
(***************************************************************************)
(* The connection table of zdtun.c, the user-space TCP/UDP/ICMP proxy that *)
(* the packet loop of vpnrelay.c drives.  One action is one call of the    *)
(* zdtun API (zdtun_lookup, zdtun_forward, zdtun_conn_close,               *)
(* zdtun_purge_expired, zdtun_finalize), or the visit that                 *)
(* zdtun_handle_fd pays to one connection: the loop is single threaded and *)
(* the visits touch disjoint connections.                                  *)
(*                                                                         *)
(* What the network, the kernel and the client do is nondeterministic: a   *)
(* socket may fail to open, a connect, send or recv may fail, the tun      *)
(* device may refuse a packet.  A socket is identified with the connection *)
(* that owns it; FD_SET on all_fds / write_fds is the pair of flags rd/wr. *)
(***************************************************************************)
EXTENDS Integers, FiniteSets

CONSTANTS
  Tuples,               \* the 5-tuples the client uses
  TCP, UDP,             \* those of each protocol; the others are ICMP echo ids
  DNS,                  \* the UDP ones whose destination port is 53
  Port,                 \* udp_mapping_key: the client source port of a tuple
  MaxNumSockets,        \* MAX_NUM_SOCKETS (128)
  NumSocketsAfterPurge, \* NUM_SOCKETS_AFTER_PURGE (96)
  Timeout,              \* {TCP,UDP,ICMP}_TIMEOUT_SEC of a tuple, in ticks
  QueryWrap             \* 2^8: pending_queries is a u_int8_t

ICMP == Tuples \ (TCP \cup UDP)
Ports == {Port[t] : t \in Tuples}

ASSUME TuplesAssumption ==
  /\ IsFiniteSet(Tuples)
  /\ TCP \subseteq Tuples /\ UDP \subseteq Tuples /\ TCP \cap UDP = {}
  /\ DNS \subseteq UDP
  /\ Port \in [Tuples -> Nat]
ASSUME LimitsAssumption ==
  /\ MaxNumSockets \in Nat \ {0}
  /\ NumSocketsAfterPurge \in 0 .. (MaxNumSockets - 1)
  /\ Timeout \in [Tuples -> Nat \ {0}]
  /\ QueryWrap \in Nat \ {0}

VARIABLES
  conn,             \* conn_table: the connection of each 5-tuple, NoConn if none
  num_open_sockets, \* stats.num_open_sockets
  udp_mappings,     \* client UDP port -> num_uses, 0 when it has no mapping
  due,              \* history: on_connection_open minus on_connection_close calls
  alive             \* between zdtun_init and zdtun_finalize

vars == <<conn, num_open_sockets, udp_mappings, due, alive>>

-----------------------------------------------------------------------------
(* A connection.  "CLOSED" stands for CONN_STATUS_CLOSED and every error    *)
(* status above it: the code only ever tests status >= CONN_STATUS_CLOSED.  *)
(* "NONE" is a tuple without an entry in conn_table.                        *)

Statuses == {"NONE", "NEW", "CONNECTING", "CONNECTED", "CLOSED"}

Connections(t) ==
  [status: Statuses,
   sock: BOOLEAN,                    \* sock # INVALID_SOCKET
   rd: BOOLEAN, wr: BOOLEAN,         \* its bits in all_fds and write_fds
   proxied: BOOLEAN,                 \* proxy_mode = PROXY_SOCKS5
   established: BOOLEAN,             \* socks5_status = SOCKS5_ESTABLISHED
   queued: BOOLEAN,                  \* tx_queue # NULL
   fin_ack_sent: BOOLEAN,
   client_closed: BOOLEAN,
   syn_acks: 0 .. 2,                 \* history: SYN+ACKs the client accepted, up to 2
   pending_queries: 0 .. (QueryWrap - 1),
   idle: 0 .. Timeout[t]]            \* now - tstamp, up to the timeout

NewConn ==
  [status |-> "NEW", sock |-> FALSE, rd |-> FALSE, wr |-> FALSE,
   proxied |-> FALSE, established |-> FALSE, queued |-> FALSE,
   fin_ack_sent |-> FALSE, client_closed |-> FALSE,
   syn_acks |-> 0, pending_queries |-> 0, idle |-> 0]

NoConn == [NewConn EXCEPT !.status = "NONE"]

Open(k) == k.status \in {"NEW", "CONNECTING", "CONNECTED"}
Live == {t \in Tuples : conn[t].status # "NONE"}
Sockets == {t \in Tuples : conn[t].sock}

Init ==
  /\ conn = [t \in Tuples |-> NoConn]
  /\ num_open_sockets = 0
  /\ udp_mappings = [p \in Ports |-> 0]
  /\ due = [t \in Tuples |-> 0]
  /\ alive = TRUE

-----------------------------------------------------------------------------
(* A handler works on one connection k and on what it shares with the       *)
(* others: the count of open sockets, the uses of its UDP mapping, and the  *)
(* close callbacks due.  The operators below take such a context and return *)
(* the set of contexts the C function may leave.                            *)

Context(t) == [k |-> conn[t], open |-> num_open_sockets,
               uses |-> udp_mappings[Port[t]], due |-> due[t]]

Leaves(t, outcomes) ==
  \E c \in outcomes :
    /\ conn' = [conn EXCEPT ![t] = c.k]
    /\ num_open_sockets' = c.open
    /\ udp_mappings' = [udp_mappings EXCEPT ![Port[t]] = c.uses]
    /\ due' = [due EXCEPT ![t] = c.due]

With(c, k) == [k |-> k, open |-> c.open, uses |-> c.uses, due |-> c.due]

open_socket(c) ==
  [With(c, [c.k EXCEPT !.sock = TRUE, !.rd = TRUE]) EXCEPT !.open = @ + 1]

(* Faults seeded by the mutants: no test for INVALID_SOCKET; write_fds kept.*)
close_socket_unguarded(c) ==
  [With(c, [c.k EXCEPT !.sock = FALSE, !.rd = FALSE, !.wr = FALSE]) EXCEPT !.open = @ - 1]
close_socket_writable(c) ==
  IF c.k.sock
  THEN [With(c, [c.k EXCEPT !.sock = FALSE, !.rd = FALSE]) EXCEPT !.open = @ - 1]
  ELSE c

close_socket(c) ==
  IF c.k.sock
  THEN [With(c, [c.k EXCEPT !.sock = FALSE, !.rd = FALSE, !.wr = FALSE])
          EXCEPT !.open = @ - 1]
  ELSE c

unmap_never(t, c) == c \* fault: the mapping is never given back

(* The mapping of the client port loses a use whether or not this           *)
(* connection was ever bound to it.                                         *)
unmap(t, c) ==
  IF t \in UDP /\ c.uses > 0 THEN [c EXCEPT !.uses = @ - 1] ELSE c

(* Fault: the queue of a closed connection is not freed.                    *)
closed_queue_kept(t, c, rst) ==
  LET d == close_socket(unmap(t, c)) IN
  IF ~Open(c.k) THEN c
  ELSE [With(d, [d.k EXCEPT !.status = "CLOSED", !.idle = 0]) EXCEPT !.due = @ - 1]

(* zdtun_conn_close, for an accepted and for a refused RST.  A refused RST  *)
(* closes the connection from within send_to_client (fin_ack_sent set), and *)
(* the outer call then goes on: on_connection_close runs twice.             *)
closed(t, c, rst) ==
  LET d == close_socket(unmap(t, c))
      refused == t \in TCP /\ ~c.k.fin_ack_sent /\ ~rst
  IN  IF ~Open(c.k) THEN c
      ELSE [With(d, [d.k EXCEPT !.status = "CLOSED", !.queued = FALSE,
                                !.fin_ack_sent = @ \/ refused, !.idle = 0])
              EXCEPT !.due = @ - (IF refused THEN 2 ELSE 1)]

zdtun_conn_close(t, c) == {closed(t, c, rst) : rst \in BOOLEAN}

(* send_to_client when the client refuses the packet.                       *)
client_error(t, c) ==
  closed(t, With(c, [c.k EXCEPT !.fin_ack_sent = @ \/ t \in TCP]), TRUE)

send_to_client(t, c) == {c, client_error(t, c)}

touch(c) == With(c, [c.k EXCEPT !.idle = 0])

-----------------------------------------------------------------------------
(* Forwarding a packet of the client. *)

send_syn_ack(t, c) ==
  {With(c, [c.k EXCEPT !.syn_acks = IF @ < 2 THEN @ + 1 ELSE 2]),
   client_error(t, c)}

(* Fault: the connected socket stays in write_fds.                          *)
tcp_socket_syn_writable(t, c) ==
  LET d == With(c, [c.k EXCEPT !.status = "CONNECTED"])
  IN  IF c.k.proxied THEN {d} \cup zdtun_conn_close(t, d)
                     ELSE send_syn_ack(t, d)

(* The server accepted the connection: SYN+ACK the client, or first greet   *)
(* the SOCKS5 proxy (socks5_connect).                                       *)
tcp_socket_syn(t, c) ==
  LET d == With(c, [c.k EXCEPT !.status = "CONNECTED", !.wr = FALSE])
  IN  IF c.k.proxied THEN {d} \cup zdtun_conn_close(t, d)
                     ELSE send_syn_ack(t, d)

(* No socket: the status is assigned, nothing is closed or called back.     *)
no_socket(c) == With(c, [c.k EXCEPT !.status = "CLOSED", !.idle = 0])

(* The first packet of a TCP connection: socket(), then connect() that      *)
(* fails, is in progress or is done.                                        *)
tcp_connect(t, c) ==
  LET d == open_socket(c)
  IN  {no_socket(c)} \cup
      (IF c.open >= MaxNumSockets THEN {}
       ELSE zdtun_conn_close(t, d)
            \cup {With(d, [d.k EXCEPT !.status = "CONNECTING", !.wr = TRUE])}
            \cup tcp_socket_syn(t, d))

socks5_in_progress(k) == k.proxied /\ ~k.established

(* FIN+ACK: the ACK is sent, and the connection ends if the server's socket *)
(* is gone already.                                                         *)
client_fin(t, c) ==
  LET d == With(c, [c.k EXCEPT !.client_closed = TRUE])
  IN  IF c.k.sock THEN send_to_client(t, d)
      ELSE zdtun_conn_close(t, d) \cup {client_error(t, d)}

(* An ACK makes the socket selectable again when it opens the window.       *)
ack_window(c) ==
  IF c.k.sock THEN {c, With(c, [c.k EXCEPT !.rd = TRUE])} ELSE {c}

(* A keep-alive is answered for as long as the server's socket is there.    *)
keep_alive(t, c) == IF c.k.sock THEN send_to_client(t, c) ELSE {c}

(* Payload: queued for the server, with the failure of its allocation, or   *)
(* only acknowledged when the server's socket is gone.                      *)
client_data(t, c) ==
  IF c.k.sock
  THEN {With(c, [c.k EXCEPT !.queued = TRUE, !.wr = TRUE])}
       \cup zdtun_conn_close(t, c)
  ELSE send_to_client(t, c)

Segments == {"URG", "STALE", "RST", "FIN", "ACK", "KEEPALIVE"}

(* STALE is out of sequence; an ACK or a keep-alive may carry payload.      *)
handle_tcp_fwd(t, c, seg) ==
  IF seg = "URG" THEN zdtun_conn_close(t, c)
  ELSE IF c.k.status = "CONNECTING" THEN {c}
  ELSE IF c.k.status = "NEW" THEN tcp_connect(t, c)
  ELSE IF seg = "STALE" THEN {c}
  ELSE IF socks5_in_progress(c.k) THEN zdtun_conn_close(t, c)
  ELSE IF seg = "RST" THEN zdtun_conn_close(t, c)
  ELSE IF seg = "FIN" THEN client_fin(t, c)
  ELSE UNION {{d} \cup (IF Open(d.k) THEN client_data(t, d) ELSE {}) :
                d \in IF seg = "ACK" THEN ack_window(c) ELSE keep_alive(t, c)}

(* bind_and_connect_udp: any of its system calls may fail and close the     *)
(* connection; otherwise the port mapping is created or gains a use.        *)
bind_and_connect_udp(t, c) ==
  zdtun_conn_close(t, c)
  \cup {[With(c, [c.k EXCEPT !.status = "CONNECTED"]) EXCEPT !.uses = @ + 1]}

(* send(): its failure closes the connection; a DNS request is counted.     *)
udp_send(t, c) ==
  zdtun_conn_close(t, c) \cup {c} \cup
  (IF t \in DNS
   THEN {With(c, [c.k EXCEPT !.pending_queries = IF @ + 1 = QueryWrap THEN 0 ELSE @ + 1])}
   ELSE {})

(* A failed open_socket returns -1 and the caller closes the connection.    *)
handle_udp_fwd(t, c) ==
  IF c.k.status = "NEW"
  THEN zdtun_conn_close(t, c) \cup
       (IF c.open >= MaxNumSockets THEN {}
        ELSE UNION {IF Open(d.k) THEN udp_send(t, d) ELSE {d} :
                      d \in bind_and_connect_udp(t, open_socket(c))})
  ELSE udp_send(t, c)

(* Fault: the status is set before the socket is known to be open.          *)
handle_icmp_fwd_unchecked(t, c) ==
  LET o == IF c.open < MaxNumSockets THEN open_socket(c) ELSE c
      d == With(o, [o.k EXCEPT !.status = "CONNECTED"])
  IN  {IF c.k.status = "NEW" THEN d ELSE c} \cup zdtun_conn_close(t, d)

handle_icmp_fwd(t, c) ==
  LET o == open_socket(c)
      d == IF c.k.status = "NEW" THEN With(o, [o.k EXCEPT !.status = "CONNECTED"]) ELSE c
      sendto == {d} \cup zdtun_conn_close(t, d)
  IN  IF c.k.status # "NEW" THEN sendto
      ELSE {no_socket(c)} \cup (IF c.open >= MaxNumSockets THEN {} ELSE sendto)

(* zdtun_forward, with the zdtun_conn_close(ERROR) its caller adds when it  *)
(* fails: every failure but a failed UDP socket has closed already.         *)
zdtun_forward(t) ==
  /\ alive
  /\ Open(conn[t])
  /\ \/ t \in TCP /\ \E seg \in Segments :
                       Leaves(t, {touch(c) : c \in handle_tcp_fwd(t, Context(t), seg)})
     \/ t \in UDP /\ Leaves(t, {touch(c) : c \in handle_udp_fwd(t, Context(t))})
     \/ t \in ICMP /\ Leaves(t, {touch(c) : c \in handle_icmp_fwd(t, Context(t))})
  /\ UNCHANGED alive

(* zdtun_conn_proxy: run_vpn picks the proxy before the first packet of a   *)
(* TCP connection is forwarded.                                             *)
zdtun_conn_proxy(t) ==
  /\ alive
  /\ t \in TCP /\ conn[t].status = "NEW" /\ ~conn[t].proxied
  /\ conn' = [conn EXCEPT ![t].proxied = TRUE]
  /\ UNCHANGED <<num_open_sockets, udp_mappings, due, alive>>

(* run_vpn closes a blocked DNS query after it spoofed the reply.           *)
close_spoofed_dns(t) ==
  /\ alive
  /\ t \in UDP /\ conn[t].status = "NEW"
  /\ Leaves(t, zdtun_conn_close(t, Context(t)))
  /\ UNCHANGED alive

-----------------------------------------------------------------------------
(* A socket is ready. *)

(* Fault: the client's earlier FIN is forgotten.                            *)
server_closed_half(t, c) ==
  {close_socket(With(d, [d.k EXCEPT !.fin_ack_sent = TRUE])) :
     d \in IF c.k.fin_ack_sent THEN {c} ELSE send_to_client(t, c)}

(* recv() = 0: the server closed, or the socket was read with no window.    *)
server_closed(t, c) ==
  LET sent == IF c.k.fin_ack_sent THEN {c} ELSE send_to_client(t, c)
      half(d) == close_socket(With(d, [d.k EXCEPT !.fin_ack_sent = TRUE]))
  IN  UNION {IF d.k.client_closed THEN zdtun_conn_close(t, half(d)) ELSE {half(d)} :
               d \in sent}

(* A message of the SOCKS5 proxy: the handshake fails, goes on, or ends and *)
(* the client gets its SYN+ACK.  The proxy says nothing before it is        *)
(* greeted, which is when the connection becomes CONNECTED.                 *)
handle_socks5_reply(t, c) ==
  zdtun_conn_close(t, c) \cup
  (IF c.k.status = "CONNECTING" THEN {}
   ELSE {c} \cup send_syn_ack(t, With(c, [c.k EXCEPT !.established = TRUE])))

(* Data of the server goes to the client; the socket stops being selectable *)
(* when that fills the client's window.                                     *)
server_data(t, c) ==
  send_to_client(t, c) \cup {With(c, [c.k EXCEPT !.rd = FALSE])}

handle_tcp_reply(t, c) ==
  zdtun_conn_close(t, c)
  \cup server_closed(t, c)
  \cup (IF socks5_in_progress(c.k) THEN handle_socks5_reply(t, c)
                                   ELSE server_data(t, c))

(* Fault: no test for pending_queries > 0.                                  *)
check_dns_purge_unguarded(t, c) ==
  LET d == With(c, [c.k EXCEPT !.pending_queries = @ - 1])
  IN  IF d.k.pending_queries = 0 THEN zdtun_conn_close(t, d) ELSE {d}

(* A DNS response: the connection is closed once no query is pending.       *)
check_dns_purge(t, c) ==
  LET d == With(c, [c.k EXCEPT !.pending_queries = @ - 1])
  IN  IF t \notin DNS \/ c.k.pending_queries = 0 THEN {c}
      ELSE IF c.k.pending_queries = 1 THEN zdtun_conn_close(t, d) ELSE {d}

handle_udp_reply(t, c) ==
  zdtun_conn_close(t, c)
  \cup {client_error(t, c), touch(c)}
  \cup check_dns_purge(t, touch(c))

handle_icmp_reply(t, c) ==
  zdtun_conn_close(t, c) \cup send_to_client(t, touch(c))

(* send() of the queue: an error, EAGAIN, a part of it, or all of it.       *)
handle_queued_tcp_data(t, c) ==
  zdtun_conn_close(t, c) \cup send_to_client(t, c)
  \cup send_to_client(t, With(c, [c.k EXCEPT !.queued = FALSE, !.wr = FALSE]))

handle_tcp_connect_async(t, c) ==
  zdtun_conn_close(t, c) \cup {touch(d) : d \in tcp_socket_syn(t, c)}

(* A readable socket is read, whatever the connection's status; a writable  *)
(* one that is not readable has its queue sent or its connect completed.    *)
zdtun_handle_fd(t) ==
  /\ alive
  /\ conn[t].sock
  /\ \/ /\ conn[t].rd
        /\ \/ t \in TCP /\ Leaves(t, {touch(c) : c \in handle_tcp_reply(t, Context(t))})
           \/ t \in UDP /\ Leaves(t, handle_udp_reply(t, Context(t)))
           \/ t \in ICMP /\ Leaves(t, handle_icmp_reply(t, Context(t)))
     \/ /\ conn[t].wr /\ t \in TCP
        /\ IF conn[t].queued
           THEN Leaves(t, handle_queued_tcp_data(t, Context(t)))
           ELSE Leaves(t, handle_tcp_connect_async(t, Context(t)))
  /\ UNCHANGED alive

-----------------------------------------------------------------------------
(* Destroying connections. *)

(* Fault: the sockets of destroyed connections stay counted.                *)
destroy_uncounted(doomed, refused) ==
  [conn |-> [t \in Tuples |-> IF t \in doomed THEN NoConn ELSE conn[t]],
   open |-> num_open_sockets, mappings |-> udp_mappings, due |-> due]

(* destroy_conn of every member of doomed; the client refuses the RST of    *)
(* those in refused.                                                        *)
destroy(doomed, refused) ==
  LET ending == {t \in doomed : Open(conn[t])}
      unmapped(p) == Cardinality({t \in ending \cap UDP : Port[t] = p})
      twice(t) == t \in TCP \cap refused /\ ~conn[t].fin_ack_sent
  IN  [conn |-> [t \in Tuples |-> IF t \in doomed THEN NoConn ELSE conn[t]],
       open |-> num_open_sockets - Cardinality(doomed \cap Sockets),
       mappings |-> [p \in Ports |-> IF udp_mappings[p] > unmapped(p)
                                     THEN udp_mappings[p] - unmapped(p) ELSE 0],
       due |-> [t \in Tuples |-> IF t \notin ending THEN due[t]
                                 ELSE due[t] - (IF twice(t) THEN 2 ELSE 1)]]

Expired_not_tcp == \* fault: TCP connections have no idle timeout
  {t \in Live : conn[t].status = "CLOSED" \/ (t \notin TCP /\ conn[t].idle >= Timeout[t])}

Expired == {t \in Live : conn[t].status = "CLOSED" \/ conn[t].idle >= Timeout[t]}

(* What the second loop of zdtun_purge_expired may take among `rest`, the   *)
(* connections that did not expire: the oldest ones, in any order between   *)
(* equal timestamps, and whether or not they have a socket.                 *)
Oldest(rest, n) ==
  IF n < MaxNumSockets THEN {{}}
  ELSE LET want == n - NumSocketsAfterPurge
       IN  {forced \in SUBSET rest :
              /\ Cardinality(forced) = IF Cardinality(rest) < want
                                       THEN Cardinality(rest) ELSE want
              /\ \A f \in forced, g \in rest \ forced : conn[f].idle >= conn[g].idle}

(* The states zdtun_purge_expired may leave; gone is the connection that    *)
(* zdtun_lookup destroyed before it called it.                              *)
Purged(gone) ==
  UNION {{destroy(gone \cup Expired \cup forced, refused) : refused \in SUBSET Live} :
           forced \in Oldest(Live \ (gone \cup Expired),
                             num_open_sockets
                               - Cardinality((gone \cup Expired) \cap Sockets))}

zdtun_purge_expired ==
  /\ alive
  /\ \E s \in Purged({}) :
       /\ conn' = s.conn /\ num_open_sockets' = s.open
       /\ udp_mappings' = s.mappings /\ due' = s.due
  /\ UNCHANGED alive

(* Fault: the closed connection is returned to the caller and used again.   *)
zdtun_lookup_revived(t) ==
  /\ alive /\ conn[t].status = "CLOSED"
  /\ conn' = [conn EXCEPT ![t].status = "NEW"]
  /\ UNCHANGED <<num_open_sockets, udp_mappings, due, alive>>

(* A closed connection is never returned: it is destroyed first.            *)
zdtun_lookup(t) ==
  /\ alive
  /\ conn[t].status = "CLOSED"
  /\ conn' = [conn EXCEPT ![t] = NoConn]
  /\ UNCHANGED <<num_open_sockets, udp_mappings, due, alive>>

(* zdtun_lookup with create: a full socket table is purged, then            *)
(* on_connection_open accepts the connection or rejects it.                 *)
zdtun_lookup_create(t) ==
  /\ alive
  /\ ~Open(conn[t])
  /\ \E s \in IF num_open_sockets >= MaxNumSockets
              THEN Purged({t} \cap Live) ELSE {destroy({t}, {})} :
       \/ /\ conn' = [s.conn EXCEPT ![t] = NewConn] \* accepted
          /\ due' = [s.due EXCEPT ![t] = 1]
          /\ num_open_sockets' = s.open /\ udp_mappings' = s.mappings
       \/ /\ conn' = s.conn /\ due' = s.due         \* rejected
          /\ num_open_sockets' = s.open /\ udp_mappings' = s.mappings
  /\ UNCHANGED alive

zdtun_finalize ==
  /\ alive
  /\ \E refused \in SUBSET Live :
       LET s == destroy(Live, refused)
       IN  /\ conn' = s.conn /\ num_open_sockets' = s.open
           /\ udp_mappings' = s.mappings /\ due' = s.due
  /\ alive' = FALSE

(* run_vpn starts again with a new zdtun_t.                                 *)
zdtun_init ==
  /\ ~alive
  /\ conn' = [t \in Tuples |-> NoConn]
  /\ num_open_sockets' = 0
  /\ udp_mappings' = [p \in Ports |-> 0]
  /\ due' = [t \in Tuples |-> 0]
  /\ alive' = TRUE

(* The monotonic clock (zdtun_now), in ticks.                               *)
Tick ==
  /\ alive
  /\ conn' = [t \in Tuples |->
                IF Open(conn[t]) /\ conn[t].idle < Timeout[t]
                THEN [conn[t] EXCEPT !.idle = @ + 1] ELSE conn[t]]
  /\ UNCHANGED <<num_open_sockets, udp_mappings, due, alive>>

Next ==
  \/ \E t \in Tuples :
       \/ zdtun_lookup(t)
       \/ zdtun_lookup_create(t)
       \/ zdtun_conn_proxy(t)
       \/ zdtun_forward(t)
       \/ close_spoofed_dns(t)
       \/ zdtun_handle_fd(t)
  \/ zdtun_purge_expired
  \/ zdtun_finalize
  \/ zdtun_init
  \/ Tick

Spec == Init /\ [][Next]_vars

(* run_vpn purges every PERIODIC_PURGE_TIMEOUT_MS and at most blocks for    *)
(* SELECT_TIMEOUT_MS: the purge always comes, and time passes.  Nothing     *)
(* makes the client or a server act, and a busy tun device may keep         *)
(* zdtun_handle_fd waiting.                                                 *)
FairSpec == Spec /\ WF_vars(zdtun_purge_expired) /\ WF_vars(Tick)

-----------------------------------------------------------------------------
(* Properties. *)

TypeOK ==
  /\ conn = [t \in Tuples |-> conn[t]]
  /\ \A t \in Tuples : conn[t] \in Connections(t)
  /\ num_open_sockets \in Nat
  /\ udp_mappings \in [Ports -> Nat]
  /\ due \in [Tuples -> Int]
  /\ alive \in BOOLEAN

(* The counter that limits the sockets is exact, over every path that opens *)
(* or closes one, and never passes MAX_NUM_SOCKETS: a drift either way      *)
(* would end up refusing every new connection or overflowing select's sets. *)
SocketAccounting ==
  /\ num_open_sockets = Cardinality(Sockets)
  /\ num_open_sockets <= MaxNumSockets

(* The sets select waits on agree with the work there is to do: a socket is *)
(* waited on for writing exactly while it connects or has queued data, no   *)
(* closed socket stays in a set, and a UDP or ICMP socket is always read.   *)
SelectSets ==
  \A t \in Tuples :
    LET k == conn[t] IN
    /\ k.wr <=> k.sock /\ (k.status = "CONNECTING" \/ k.queued)
    /\ k.rd => k.sock
    /\ k.sock => Open(k) /\ k.status # "NEW" /\ (k.rd \/ t \in TCP)
    /\ k.status \in {"CONNECTING", "CONNECTED"} /\ t \notin TCP => k.sock

(* A TCP connection that lost its server socket is half closed: the client  *)
(* got the FIN+ACK (or refused it) and has not closed, or the connection is *)
(* over.  handle_tcp_fwd and handle_tcp_reply each see one of the two ends  *)
(* and must agree, in either order, on who terminates the connection.       *)
HalfClosed ==
  \A t \in TCP :
    LET k == conn[t] IN
    Open(k) => /\ k.fin_ack_sent => ~k.sock /\ ~k.client_closed
               /\ k.status = "CONNECTED" /\ ~k.sock => k.fin_ack_sent

(* The client of an open connection got one SYN+ACK if and only if the      *)
(* server, or the SOCKS5 proxy after its handshake, accepted the connection.*)
SynAckOnce ==
  \A t \in TCP :
    Open(conn[t]) =>
      conn[t].syn_acks = IF conn[t].status = "CONNECTED"
                            /\ ~socks5_in_progress(conn[t]) THEN 1 ELSE 0

(* on_connection_close is where the user frees user_data: it has not run    *)
(* for any connection that a lookup, an iteration or an fd can still reach. *)
UserDataAlive ==
  \A t \in Tuples : Open(conn[t]) => due[t] = 1

(* A mapping is only kept for connections bound to it: it has no more uses  *)
(* than open connections from its port, so it goes away with the last one.  *)
MappingNotLeaked ==
  \A p \in Ports :
    udp_mappings[p] <= Cardinality({t \in UDP : Port[t] = p /\ conn[t].status = "CONNECTED"})

(* Nothing revives a closed connection: it waits unchanged, without socket  *)
(* or queue, to be destroyed, and only a lookup may put a new one there.    *)
ClosedIsFinal ==
  [][\A t \in Tuples :
       conn[t].status = "CLOSED" =>
         conn'[t] \in {conn[t], NoConn, NewConn} /\ ~conn[t].sock /\ ~conn[t].queued]_vars

(* No connection is kept for ever once it is closed, with or without its    *)
(* callback, or once neither peer sends anything: it is destroyed, unless a *)
(* packet comes in time.                                                    *)
Reclaimed ==
  \A t \in Tuples :
    conn[t].status = "CLOSED" \/ conn[t].idle > 0
      ~> conn[t].status # "CLOSED" /\ conn[t].idle = 0

-----------------------------------------------------------------------------
(* What the comments say and the code does not do. *)

(* zdtun.h: on_connection_close is "Called whenever a connection is closed" *)
(* - at least once.                                                         *)
CallbackCalled == \A t \in Tuples : ~Open(conn[t]) => due[t] <= 0

(* - and, as it is where user_data is freed, at most once.                  *)
CallbackCalledOnce == \A t \in Tuples : due[t] >= 0

(* bind_and_connect_udp: a connection with the source port of an existing   *)
(* one reuses its local port, so the mapping outlives every bound one.      *)
MappingKept ==
  \A t \in UDP : conn[t].status = "CONNECTED" => udp_mappings[Port[t]] > 0

(* handle_tcp_reply: "The client communication can still go on" after the   *)
(* server closed; handle_tcp_fwd ignores the client while CONNECTING.       *)
ClientCanGoOn ==
  \A t \in TCP : conn[t].status = "CONNECTING" => conn[t].sock

(* NUM_SOCKETS_AFTER_PURGE is what a forced purge leaves open.              *)
PurgeMakesRoom ==
  [][zdtun_purge_expired /\ num_open_sockets >= MaxNumSockets
       => num_open_sockets' <= NumSocketsAfterPurge]_vars
=============================================================================
