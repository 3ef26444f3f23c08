---------------------------- MODULE ZdtunProofs ----------------------------
(***************************************************************************)
(* Proofs about Zdtun for any set of tuples, any limits and any timeouts,  *)
(* in three parts: the types and the socket counter; the state machine of  *)
(* each connection; the UDP mappings.                                      *)
(*                                                                         *)
(* A handler works on a context, so the argument is made once per handler: *)
(* Fit says that a context agrees with `others`, the number of sockets of  *)
(* the other connections.  Every handler keeps it, and the count of all    *)
(* the sockets follows from the one connection that the step changed.      *)
(***************************************************************************)
EXTENDS Zdtun, FiniteSetTheorems, TLAPS

Count(b) == IF b THEN 1 ELSE 0

Contexts(t) == [k: Connections(t), open: Nat, uses: Nat, due: Int]

(* What closed may be given: the socket is open while the connection is.    *)
Loose(t, c, others) ==
  /\ c \in Contexts(t)
  /\ c.open = others + Count(c.k.sock)
  /\ c.open <= MaxNumSockets
  /\ c.k.sock => Open(c.k)

(* What a handler is given and leaves: a NEW connection has no socket yet.  *)
Fit(t, c, others) ==
  /\ Loose(t, c, others)
  /\ c.k.sock => c.k.status # "NEW"
  /\ c.k.status # "NONE"

LEMMA UnmapLoose ==
  ASSUME NEW t \in Tuples, NEW others \in Nat, NEW c, Loose(t, c, others)
  PROVE  Loose(t, unmap(t, c), others) /\ unmap(t, c).k = c.k
BY DEF Loose, unmap, Contexts

LEMMA CloseSocketLoose ==
  ASSUME NEW t \in Tuples, NEW others \in Nat, NEW c, Loose(t, c, others)
  PROVE  /\ Loose(t, close_socket(c), others)
         /\ ~close_socket(c).k.sock
         /\ close_socket(c).k.status = c.k.status
<1>1. CASE c.k.sock
  <2> DEFINE k == [c.k EXCEPT !.sock = FALSE, !.rd = FALSE, !.wr = FALSE]
  <2>1. k \in Connections(t) /\ ~k.sock /\ k.status = c.k.status
    BY DEF Loose, Contexts, Connections
  <2>2. close_socket(c) = [k |-> k, open |-> c.open - 1, uses |-> c.uses, due |-> c.due]
    BY <1>1 DEF close_socket, With
  <2> HIDE DEF k
  <2>3. Count(c.k.sock) = 1 /\ Count(k.sock) = 0
    BY <1>1, <2>1 DEF Count
  <2>4. c.open \in Nat /\ c.uses \in Nat /\ c.due \in Int
    BY DEF Loose, Contexts
  <2>5. c.open - 1 = others /\ c.open <= MaxNumSockets
    BY <2>3, <2>4 DEF Loose
  <2> QED BY <2>1, <2>2, <2>3, <2>4, <2>5, LimitsAssumption DEF Loose, Contexts
<1>2. CASE ~c.k.sock
  BY <1>2 DEF close_socket, Loose
<1> QED BY <1>1, <1>2

(* The close of a connection, whatever its state, leaves it without socket. *)
LEMMA ClosedFit ==
  ASSUME NEW t \in Tuples, NEW others \in Nat, NEW c, Loose(t, c, others),
         c.k.status # "NONE", NEW rst \in BOOLEAN
  PROVE  Fit(t, closed(t, c, rst), others)
<1> DEFINE d == close_socket(unmap(t, c))
           refused == t \in TCP /\ ~c.k.fin_ack_sent /\ ~rst
           fin == d.k.fin_ack_sent \/ refused
           k == [d.k EXCEPT !.status = "CLOSED", !.queued = FALSE,
                            !.fin_ack_sent = fin, !.idle = 0]
<1>1. Loose(t, d, others) /\ ~d.k.sock
  BY UnmapLoose, CloseSocketLoose
<1>2. CASE ~Open(c.k)
  BY <1>2 DEF closed, Fit, Loose, Open
<1>3. CASE Open(c.k)
  <2>1. closed(t, c, rst) =
          [k |-> k, open |-> d.open, uses |-> d.uses,
           due |-> d.due - (IF refused THEN 2 ELSE 1)]
    BY <1>3 DEF closed, With
  <2>a. fin \in BOOLEAN
    OBVIOUS
  <2> HIDE DEF d, fin
  <2>2. k \in Connections(t) /\ ~k.sock /\ k.status = "CLOSED"
    <3>1. d.k \in Connections(t) /\ ~d.k.sock
      BY <1>1 DEF Loose, Contexts
    <3>2. 0 \in 0 .. Timeout[t] /\ "CLOSED" \in Statuses
      BY LimitsAssumption DEF Statuses
    <3> QED BY <2>a, <3>1, <3>2 DEF Connections
  <2> HIDE DEF k, refused
  <2> QED BY <1>1, <2>1, <2>2 DEF Fit, Loose, Contexts, Count
<1> QED BY <1>2, <1>3

LEMMA CloseFit ==
  ASSUME NEW t \in Tuples, NEW others \in Nat, NEW c, Loose(t, c, others),
         c.k.status # "NONE", NEW d \in zdtun_conn_close(t, c)
  PROVE  Fit(t, d, others)
BY ClosedFit DEF zdtun_conn_close

(* Fields of a connection that no socket count depends on may change.       *)
LEMMA WithLoose ==
  ASSUME NEW t \in Tuples, NEW others \in Nat, NEW c, Loose(t, c, others),
         NEW k \in Connections(t), k.sock = c.k.sock, k.sock => Open(k)
  PROVE  Loose(t, With(c, k), others) /\ With(c, k).k = k
BY DEF Loose, With, Contexts

LEMMA ClientErrorFit ==
  ASSUME NEW t \in Tuples, NEW others \in Nat, NEW c, Loose(t, c, others),
         c.k.status # "NONE"
  PROVE  Fit(t, client_error(t, c), others)
<1> DEFINE k == [c.k EXCEPT !.fin_ack_sent = @ \/ t \in TCP]
<1>1. /\ k \in Connections(t) /\ k.sock = c.k.sock /\ k.status = c.k.status
      /\ k.sock => Open(k)
  BY DEF Loose, Contexts, Connections, Open
<1> HIDE DEF k
<1>2. Loose(t, With(c, k), others) /\ With(c, k).k.status # "NONE"
  BY <1>1, WithLoose
<1>3. client_error(t, c) = closed(t, With(c, k), TRUE)
  BY DEF client_error, k
<1> QED BY <1>2, <1>3, ClosedFit

LEMMA WithFit ==
  ASSUME NEW t \in Tuples, NEW others \in Nat, NEW c, Fit(t, c, others),
         NEW k \in Connections(t), k.sock = c.k.sock, k.status = c.k.status
  PROVE  Fit(t, With(c, k), others)
BY WithLoose DEF Fit, Loose, Open

LEMMA ConnectedFit ==
  ASSUME NEW t \in Tuples, NEW others \in Nat, NEW c, Loose(t, c, others),
         NEW k \in Connections(t), k.sock = c.k.sock,
         k.status \in {"CONNECTING", "CONNECTED"}
  PROVE  Fit(t, With(c, k), others)
BY WithLoose DEF Fit, Open

LEMMA FitParts ==
  ASSUME NEW t \in Tuples, NEW others \in Nat, NEW c, Fit(t, c, others)
  PROVE  Loose(t, c, others) /\ c.k.status # "NONE" /\ c.k \in Connections(t)
BY DEF Fit, Loose, Contexts

LEMMA SendToClientFit ==
  ASSUME NEW t \in Tuples, NEW others \in Nat, NEW c, Fit(t, c, others),
         NEW d \in send_to_client(t, c)
  PROVE  Fit(t, d, others)
BY FitParts, ClientErrorFit DEF send_to_client

LEMMA TouchFit ==
  ASSUME NEW t \in Tuples, NEW others \in Nat, NEW c, Fit(t, c, others)
  PROVE  Fit(t, touch(c), others)
<1> DEFINE k == [c.k EXCEPT !.idle = 0]
<1>1. k \in Connections(t) /\ k.sock = c.k.sock /\ k.status = c.k.status
  <2>1. 0 \in 0 .. Timeout[t]
    BY LimitsAssumption
  <2>2. c.k \in Connections(t)
    BY FitParts
  <2> QED BY <2>1, <2>2 DEF Connections
<1> QED BY <1>1, WithFit DEF touch

(* A socket is opened below the limit, for a connection without one.        *)
LEMMA OpenSocketLoose ==
  ASSUME NEW t \in Tuples, NEW others \in Nat, NEW c, Fit(t, c, others),
         c.k.status = "NEW", c.open < MaxNumSockets
  PROVE  /\ Loose(t, open_socket(c), others)
         /\ open_socket(c).k.sock
         /\ open_socket(c).k.status = "NEW"
         /\ open_socket(c).k \in Connections(t)
<1> DEFINE k == [c.k EXCEPT !.sock = TRUE, !.rd = TRUE]
<1>1. k \in Connections(t) /\ k.sock /\ k.status = "NEW"
  BY ZenonT(60), FitParts DEF Connections
<1>2. open_socket(c) = [k |-> k, open |-> c.open + 1, uses |-> c.uses, due |-> c.due]
  BY DEF open_socket, With
<1> HIDE DEF k
<1>3. Count(c.k.sock) = 0 /\ Count(k.sock) = 1
  BY <1>1 DEF Fit, Count
<1>4. c.open \in Nat /\ c.uses \in Nat /\ c.due \in Int
  BY DEF Fit, Loose, Contexts
<1>5. c.open + 1 = others + 1 /\ c.open + 1 <= MaxNumSockets
  BY <1>3, <1>4, LimitsAssumption DEF Fit, Loose
<1>6. open_socket(c) \in Contexts(t)
  BY <1>1, <1>2, <1>4 DEF Contexts
<1>7. open_socket(c).open = others + Count(k.sock)
  BY <1>2, <1>3, <1>5
<1>8. open_socket(c).k = k /\ open_socket(c).open <= MaxNumSockets
  BY <1>2, <1>5
<1> QED BY <1>1, <1>6, <1>7, <1>8 DEF Loose, Open

LEMMA NoSocketFit ==
  ASSUME NEW t \in Tuples, NEW others \in Nat, NEW c, Fit(t, c, others),
         c.k.status = "NEW"
  PROVE  Fit(t, no_socket(c), others)
<1> DEFINE k == [c.k EXCEPT !.status = "CLOSED", !.idle = 0]
<1>1. k \in Connections(t) /\ k.sock = c.k.sock /\ k.status = "CLOSED" /\ ~k.sock
  <2>1. 0 \in 0 .. Timeout[t] /\ "CLOSED" \in Statuses
    BY LimitsAssumption DEF Statuses
  <2> QED BY ZenonT(60), <2>1, FitParts DEF Connections, Fit
<1> HIDE DEF k
<1>2. Loose(t, With(c, k), others) /\ With(c, k).k = k
  BY <1>1, WithLoose, FitParts
<1>3. no_socket(c) = With(c, k)
  BY DEF no_socket, k
<1> QED BY <1>1, <1>2, <1>3 DEF Fit

-----------------------------------------------------------------------------
(* Forwarding. *)

LEMMA SendSynAckFit ==
  ASSUME NEW t \in Tuples, NEW others \in Nat, NEW c, Fit(t, c, others),
         NEW d \in send_syn_ack(t, c)
  PROVE  Fit(t, d, others)
<1> DEFINE k == [c.k EXCEPT !.syn_acks = IF @ < 2 THEN @ + 1 ELSE 2]
<1>1. k \in Connections(t) /\ k.sock = c.k.sock /\ k.status = c.k.status
  <2>1. c.k.syn_acks \in 0 .. 2
    BY FitParts DEF Connections
  <2>2. (IF c.k.syn_acks < 2 THEN c.k.syn_acks + 1 ELSE 2) \in 0 .. 2
    BY <2>1
  <2> QED BY <2>2, FitParts DEF Connections
<1>2. Fit(t, With(c, k), others)
  BY <1>1, WithFit
<1> QED BY <1>2, FitParts, ClientErrorFit DEF send_syn_ack

LEMMA TcpSocketSynFit ==
  ASSUME NEW t \in Tuples, NEW others \in Nat, NEW c, Loose(t, c, others),
         c.k \in Connections(t), NEW d \in tcp_socket_syn(t, c)
  PROVE  Fit(t, d, others)
<1> DEFINE k == [c.k EXCEPT !.status = "CONNECTED", !.wr = FALSE]
<1>1. k \in Connections(t) /\ k.sock = c.k.sock /\ k.status = "CONNECTED"
  BY DEF Connections, Statuses
<1> HIDE DEF k
<1>2. Fit(t, With(c, k), others)
  BY <1>1, ConnectedFit
<1>3. d \in {With(c, k)} \cup zdtun_conn_close(t, With(c, k)) \cup send_syn_ack(t, With(c, k))
  BY DEF tcp_socket_syn, k
<1> QED BY <1>2, <1>3, FitParts, CloseFit, SendSynAckFit

LEMMA TcpConnectFit ==
  ASSUME NEW t \in Tuples, NEW others \in Nat, NEW c, Fit(t, c, others),
         c.k.status = "NEW", NEW d \in tcp_connect(t, c)
  PROVE  Fit(t, d, others)
<1>1. CASE d = no_socket(c)
  BY <1>1, NoSocketFit
<1>2. CASE c.open < MaxNumSockets
  <2> DEFINE o == open_socket(c)
             k == [o.k EXCEPT !.status = "CONNECTING", !.wr = TRUE]
  <2>1. Loose(t, o, others) /\ o.k.status # "NONE" /\ o.k \in Connections(t)
    BY <1>2, OpenSocketLoose
  <2>2. k \in Connections(t) /\ k.sock = o.k.sock /\ k.status = "CONNECTING"
    <3> HIDE DEF o
    <3> QED BY <2>1 DEF Connections, Statuses
  <2>3. Fit(t, With(o, k), others)
    BY <2>1, <2>2, ConnectedFit
  <2>4. d \in {no_socket(c), With(o, k)} \cup zdtun_conn_close(t, o) \cup tcp_socket_syn(t, o)
    BY DEF tcp_connect
  <2> QED BY <2>1, <2>3, <2>4, <1>1, CloseFit, TcpSocketSynFit
<1> QED
  <2>1. c.open \in Nat /\ MaxNumSockets \in Nat
    BY FitParts, LimitsAssumption DEF Loose, Contexts
  <2> QED BY <2>1, <1>1, <1>2 DEF tcp_connect

LEMMA ClientFinFit ==
  ASSUME NEW t \in Tuples, NEW others \in Nat, NEW c, Fit(t, c, others),
         NEW d \in client_fin(t, c)
  PROVE  Fit(t, d, others)
<1> DEFINE k == [c.k EXCEPT !.client_closed = TRUE]
<1>1. k \in Connections(t) /\ k.sock = c.k.sock /\ k.status = c.k.status
  BY ZenonT(60), FitParts DEF Connections
<1>2. Fit(t, With(c, k), others)
  BY <1>1, WithFit
<1>3. d \in send_to_client(t, With(c, k)) \cup zdtun_conn_close(t, With(c, k))
  BY DEF client_fin, send_to_client
<1> QED BY <1>2, <1>3, FitParts, CloseFit, SendToClientFit

LEMMA AckWindowFit ==
  ASSUME NEW t \in Tuples, NEW others \in Nat, NEW c, Fit(t, c, others),
         NEW d \in ack_window(c)
  PROVE  Fit(t, d, others)
<1> DEFINE k == [c.k EXCEPT !.rd = TRUE]
<1>1. k \in Connections(t) /\ k.sock = c.k.sock /\ k.status = c.k.status
  BY ZenonT(60), FitParts DEF Connections
<1>2. Fit(t, With(c, k), others)
  BY <1>1, WithFit
<1> QED BY <1>2 DEF ack_window

LEMMA ClientDataFit ==
  ASSUME NEW t \in Tuples, NEW others \in Nat, NEW c, Fit(t, c, others),
         NEW d \in client_data(t, c)
  PROVE  Fit(t, d, others)
<1> DEFINE k == [c.k EXCEPT !.queued = TRUE, !.wr = TRUE]
<1>1. k \in Connections(t) /\ k.sock = c.k.sock /\ k.status = c.k.status
  BY ZenonT(60), FitParts DEF Connections
<1>2. Fit(t, With(c, k), others)
  BY <1>1, WithFit
<1> QED BY <1>2, FitParts, CloseFit, SendToClientFit DEF client_data

LEMMA TcpFwdFit ==
  ASSUME NEW t \in Tuples, NEW others \in Nat, NEW c, Fit(t, c, others),
         NEW seg \in Segments, NEW d \in handle_tcp_fwd(t, c, seg)
  PROVE  Fit(t, d, others)
<1> DEFINE acked == IF seg = "ACK" THEN ack_window(c) ELSE keep_alive(t, c)
           carried == UNION {{e} \cup (IF Open(e.k) THEN client_data(t, e) ELSE {}) :
                               e \in acked}
<1>1. \A e \in acked : Fit(t, e, others)
  BY AckWindowFit, SendToClientFit DEF keep_alive
<1>2. \A e \in acked : \A f \in client_data(t, e) : Fit(t, f, others)
  BY <1>1, ClientDataFit
<1>3. CASE d \in zdtun_conn_close(t, c) \cup {c} \cup client_fin(t, c)
  BY <1>3, FitParts, CloseFit, ClientFinFit
<1>4. CASE c.k.status = "NEW" /\ d \in tcp_connect(t, c)
  BY <1>4, TcpConnectFit
<1>5. CASE d \in carried
  <2> HIDE DEF acked
  <2>1. PICK e \in acked : d = e \/ d \in client_data(t, e)
    BY <1>5
  <2> QED BY <1>1, <1>2, <2>1
<1>6. \/ d \in zdtun_conn_close(t, c) \cup {c} \cup client_fin(t, c)
      \/ c.k.status = "NEW" /\ d \in tcp_connect(t, c)
      \/ d \in carried
  <2>1. \/ handle_tcp_fwd(t, c, seg) \in
              {zdtun_conn_close(t, c), {c}, client_fin(t, c), carried}
        \/ c.k.status = "NEW" /\ handle_tcp_fwd(t, c, seg) = tcp_connect(t, c)
    BY Zenon DEF handle_tcp_fwd
  <2> HIDE DEF carried
  <2> QED BY <2>1
<1> QED BY <1>3, <1>4, <1>5, <1>6

LEMMA BindFit ==
  ASSUME NEW t \in Tuples, NEW others \in Nat, NEW c, Loose(t, c, others),
         c.k.status # "NONE", c.k \in Connections(t), NEW d \in bind_and_connect_udp(t, c)
  PROVE  Fit(t, d, others)
<1> DEFINE k == [c.k EXCEPT !.status = "CONNECTED"]
<1>1. k \in Connections(t) /\ k.sock = c.k.sock /\ k.status = "CONNECTED"
  BY DEF Connections, Statuses
<1> HIDE DEF k
<1> DEFINE e == With(c, k)
<1>2. Fit(t, e, others) /\ e \in Contexts(t)
  BY <1>1, ConnectedFit DEF Fit, Loose
<1>3. d \in zdtun_conn_close(t, c) \/ d = [e EXCEPT !.uses = @ + 1]
  BY DEF bind_and_connect_udp, k
<1>4. Fit(t, [e EXCEPT !.uses = @ + 1], others)
  <2> HIDE DEF e
  <2> QED BY <1>2 DEF Fit, Loose, Contexts
<1> QED BY <1>3, <1>4, CloseFit

LEMMA UdpSendFit ==
  ASSUME NEW t \in Tuples, NEW others \in Nat, NEW c, Fit(t, c, others),
         NEW d \in udp_send(t, c)
  PROVE  Fit(t, d, others)
<1> DEFINE q == IF c.k.pending_queries + 1 = QueryWrap THEN 0 ELSE c.k.pending_queries + 1
           k == [c.k EXCEPT !.pending_queries = q]
<1>1. q \in 0 .. (QueryWrap - 1)
  <2>1. c.k.pending_queries \in 0 .. (QueryWrap - 1)
    BY FitParts DEF Connections
  <2> QED BY <2>1, LimitsAssumption
<1>2. d \in zdtun_conn_close(t, c) \cup {c, With(c, k)}
  BY DEF udp_send
<1> HIDE DEF q
<1>3. k \in Connections(t) /\ k.sock = c.k.sock /\ k.status = c.k.status
  <2>1. c.k \in Connections(t)
    BY FitParts
  <2> QED BY <1>1, <2>1 DEF Connections
<1>4. Fit(t, With(c, k), others)
  BY <1>3, WithFit
<1> QED BY <1>2, <1>4, FitParts, CloseFit

LEMMA UdpFwdFit ==
  ASSUME NEW t \in Tuples, NEW others \in Nat, NEW c, Fit(t, c, others),
         NEW d \in handle_udp_fwd(t, c)
  PROVE  Fit(t, d, others)
<1>1. CASE d \in udp_send(t, c) \cup zdtun_conn_close(t, c)
  BY <1>1, FitParts, UdpSendFit, CloseFit
<1>2. CASE /\ c.k.status = "NEW" /\ c.open < MaxNumSockets
           /\ \E e \in bind_and_connect_udp(t, open_socket(c)) :
                d = e \/ d \in udp_send(t, e)
  <2>1. \A e \in bind_and_connect_udp(t, open_socket(c)) : Fit(t, e, others)
    BY <1>2, OpenSocketLoose, BindFit
  <2> QED BY <1>2, <2>1, UdpSendFit
<1>3. c.open \in Nat /\ MaxNumSockets \in Nat
  BY FitParts, LimitsAssumption DEF Loose, Contexts
<1> QED BY <1>1, <1>2, <1>3 DEF handle_udp_fwd

LEMMA IcmpFwdFit ==
  ASSUME NEW t \in Tuples, NEW others \in Nat, NEW c, Fit(t, c, others),
         NEW d \in handle_icmp_fwd(t, c)
  PROVE  Fit(t, d, others)
<1>1. CASE c.k.status # "NEW"
  BY <1>1, FitParts, CloseFit DEF handle_icmp_fwd
<1>2. CASE c.k.status = "NEW" /\ d = no_socket(c)
  BY <1>2, NoSocketFit
<1>3. CASE c.k.status = "NEW" /\ c.open < MaxNumSockets
  <2> DEFINE o == open_socket(c)
             k == [o.k EXCEPT !.status = "CONNECTED"]
  <2>1. Loose(t, o, others) /\ o.k \in Connections(t)
    BY <1>3, OpenSocketLoose
  <2>2. k \in Connections(t) /\ k.sock = o.k.sock /\ k.status = "CONNECTED"
    <3> HIDE DEF o
    <3> QED BY <2>1 DEF Connections, Statuses
  <2>3. Fit(t, With(o, k), others)
    BY <2>1, <2>2, ConnectedFit
  <2>4. d \in {no_socket(c), With(o, k)} \cup zdtun_conn_close(t, With(o, k))
    BY <1>3 DEF handle_icmp_fwd
  <2> QED BY <1>2, <1>3, <2>3, <2>4, FitParts, CloseFit
<1>4. c.open \in Nat /\ MaxNumSockets \in Nat
  BY FitParts, LimitsAssumption DEF Loose, Contexts
<1> QED BY <1>1, <1>2, <1>3, <1>4 DEF handle_icmp_fwd

-----------------------------------------------------------------------------
(* Socket events. *)

LEMMA ServerClosedFit ==
  ASSUME NEW t \in Tuples, NEW others \in Nat, NEW c, Fit(t, c, others),
         NEW d \in server_closed(t, c)
  PROVE  Fit(t, d, others)
<1> DEFINE fin(e) == [e.k EXCEPT !.fin_ack_sent = TRUE]
           half(e) == close_socket(With(e, fin(e)))
           sent == IF c.k.fin_ack_sent THEN {c} ELSE send_to_client(t, c)
<1>1. ASSUME NEW e \in sent PROVE Fit(t, half(e), others)
  <2>1. Fit(t, e, others)
    BY SendToClientFit
  <2>2. e.k \in Connections(t)
    BY <2>1, FitParts
  <2>3. fin(e) \in Connections(t) /\ fin(e).sock = e.k.sock /\ fin(e).status = e.k.status
    BY <2>2 DEF Connections
  <2> HIDE DEF fin
  <2>4. Fit(t, With(e, fin(e)), others)
    BY <2>1, <2>3, WithFit
  <2> QED BY <2>4, CloseSocketLoose DEF Fit
<1>2. PICK e \in sent : d = half(e) \/ d \in zdtun_conn_close(t, half(e))
  BY DEF server_closed
<1> QED BY <1>1, <1>2, FitParts, CloseFit

LEMMA TcpReplyFit ==
  ASSUME NEW t \in Tuples, NEW others \in Nat, NEW c, Fit(t, c, others),
         NEW d \in handle_tcp_reply(t, c)
  PROVE  Fit(t, d, others)
<1> DEFINE est == [c.k EXCEPT !.established = TRUE]
           off == [c.k EXCEPT !.rd = FALSE]
<1>1. /\ est \in Connections(t) /\ est.sock = c.k.sock /\ est.status = c.k.status
      /\ off \in Connections(t) /\ off.sock = c.k.sock /\ off.status = c.k.status
  BY ZenonT(60), FitParts DEF Connections
<1>2. Fit(t, With(c, est), others) /\ Fit(t, With(c, off), others)
  BY <1>1, WithFit
<1>3. \A e \in handle_socks5_reply(t, c) : Fit(t, e, others)
  BY <1>2, FitParts, CloseFit, SendSynAckFit DEF handle_socks5_reply
<1>4. \A e \in server_data(t, c) : Fit(t, e, others)
  BY <1>2, SendToClientFit DEF server_data
<1> QED BY <1>3, <1>4, FitParts, CloseFit, ServerClosedFit DEF handle_tcp_reply

LEMMA UdpReplyFit ==
  ASSUME NEW t \in Tuples, NEW others \in Nat, NEW c, Fit(t, c, others),
         NEW d \in handle_udp_reply(t, c)
  PROVE  Fit(t, d, others)
<1> DEFINE e == touch(c)
           k == [e.k EXCEPT !.pending_queries = @ - 1]
<1>1. Fit(t, e, others) /\ e.k \in Connections(t)
  BY TouchFit, FitParts
<1> HIDE DEF e
<1>2. ASSUME e.k.pending_queries # 0 PROVE Fit(t, With(e, k), others)
  <2>1. e.k.pending_queries - 1 \in 0 .. (QueryWrap - 1)
    BY <1>1, <1>2, LimitsAssumption DEF Connections
  <2>2. k \in Connections(t) /\ k.sock = e.k.sock /\ k.status = e.k.status
    BY <1>1, <2>1 DEF Connections
  <2> QED BY <1>1, <2>2, WithFit
<1>3. \A f \in check_dns_purge(t, e) : Fit(t, f, others)
  BY <1>1, <1>2, FitParts, CloseFit DEF check_dns_purge
<1> QED BY <1>1, <1>3, FitParts, CloseFit, ClientErrorFit DEF handle_udp_reply, e

LEMMA IcmpReplyFit ==
  ASSUME NEW t \in Tuples, NEW others \in Nat, NEW c, Fit(t, c, others),
         NEW d \in handle_icmp_reply(t, c)
  PROVE  Fit(t, d, others)
BY FitParts, CloseFit, TouchFit, SendToClientFit DEF handle_icmp_reply

LEMMA QueuedDataFit ==
  ASSUME NEW t \in Tuples, NEW others \in Nat, NEW c, Fit(t, c, others),
         NEW d \in handle_queued_tcp_data(t, c)
  PROVE  Fit(t, d, others)
<1> DEFINE k == [c.k EXCEPT !.queued = FALSE, !.wr = FALSE]
<1>1. k \in Connections(t) /\ k.sock = c.k.sock /\ k.status = c.k.status
  BY ZenonT(60), FitParts DEF Connections
<1>2. Fit(t, With(c, k), others)
  BY <1>1, WithFit
<1> QED BY <1>2, FitParts, CloseFit, SendToClientFit DEF handle_queued_tcp_data

LEMMA ConnectAsyncFit ==
  ASSUME NEW t \in Tuples, NEW others \in Nat, NEW c, Fit(t, c, others),
         NEW d \in handle_tcp_connect_async(t, c)
  PROVE  Fit(t, d, others)
BY FitParts, CloseFit, TouchFit, TcpSocketSynFit DEF handle_tcp_connect_async

-----------------------------------------------------------------------------
(* The inductive invariant: the types, the exact count, and that only a     *)
(* connecting or connected connection has a socket (else open_socket would  *)
(* count a second socket for the same connection).                          *)

SocketsOf(cn) == {t \in Tuples : cn[t].sock}

Consistent(cn, n, m, du) ==
  /\ cn = [t \in Tuples |-> cn[t]]
  /\ \A t \in Tuples : cn[t] \in Connections(t)
  /\ \A t \in Tuples : cn[t].sock => cn[t].status \in {"CONNECTING", "CONNECTED"}
  /\ n = Cardinality(SocketsOf(cn))
  /\ n <= MaxNumSockets
  /\ m \in [Ports -> Nat]
  /\ du \in [Tuples -> Int]

IInv == Consistent(conn, num_open_sockets, udp_mappings, due) /\ alive \in BOOLEAN

LEMMA SocketsFinite ==
  ASSUME NEW cn
  PROVE  IsFiniteSet(SocketsOf(cn)) /\ Cardinality(SocketsOf(cn)) \in Nat
<1>1. SocketsOf(cn) \in SUBSET Tuples
  BY DEF SocketsOf
<1> QED BY <1>1, TuplesAssumption, FS_Subset, FS_CardinalityType

LEMMA IInvImplies == IInv => TypeOK /\ SocketAccounting
BY SocketsFinite DEF IInv, Consistent, TypeOK, SocketAccounting, SocketsOf, Sockets

LEMMA NewConnType ==
  ASSUME NEW t \in Tuples
  PROVE  /\ NewConn \in Connections(t) /\ NoConn \in Connections(t)
         /\ ~NewConn.sock /\ ~NoConn.sock
         /\ NewConn.status = "NEW" /\ NoConn.status = "NONE"
<1>1. 0 \in 0 .. Timeout[t] /\ 0 \in 0 .. (QueryWrap - 1) /\ 0 \in 0 .. 2
  BY LimitsAssumption
<1>2. NewConn \in Connections(t)
  BY <1>1 DEF NewConn, Connections, Statuses
<1>3. NoConn \in Connections(t)
  BY <1>2 DEF NoConn, NewConn, Connections, Statuses
<1> QED BY <1>2, <1>3 DEF NewConn, NoConn

LEMMA ContextFit ==
  ASSUME IInv, NEW t \in Tuples, conn[t].status # "NONE"
  PROVE  Fit(t, Context(t), Cardinality(Sockets \ {t}))
<1>1. /\ conn[t] \in Connections(t) /\ due[t] \in Int /\ udp_mappings[Port[t]] \in Nat
      /\ num_open_sockets \in Nat /\ num_open_sockets <= MaxNumSockets
      /\ num_open_sockets = Cardinality(Sockets)
      /\ conn[t].sock => conn[t].status \in {"CONNECTING", "CONNECTED"}
  BY SocketsFinite DEF IInv, Consistent, Ports, SocketsOf, Sockets
<1>2. Context(t) \in Contexts(t) /\ Context(t).k = conn[t] /\ Context(t).open = num_open_sockets
  BY <1>1 DEF Context, Contexts
<1>3. IsFiniteSet(Sockets) /\ Cardinality(Sockets) \in Nat
  BY SocketsFinite DEF Sockets, SocketsOf
<1>4. num_open_sockets = Cardinality(Sockets \ {t}) + Count(conn[t].sock)
  <2>1. t \in Sockets <=> conn[t].sock
    BY DEF Sockets
  <2>2. Cardinality(Sockets \ {t}) = IF t \in Sockets THEN Cardinality(Sockets) - 1
                                                      ELSE Cardinality(Sockets)
    BY <1>3, FS_RemoveElement
  <2> QED BY <1>1, <1>3, <2>1, <2>2 DEF Count
<1> QED BY <1>1, <1>2, <1>4 DEF Fit, Loose, Open

(* A handler that keeps contexts fit keeps the invariant.                   *)
LEMMA LeavesIInv ==
  ASSUME IInv, NEW t \in Tuples, NEW outcomes, Leaves(t, outcomes), alive' \in BOOLEAN,
         \A c \in outcomes : Fit(t, c, Cardinality(Sockets \ {t}))
  PROVE  IInv'
<1> DEFINE others == Cardinality(Sockets \ {t})
<1>1. PICK c \in outcomes :
        /\ conn' = [conn EXCEPT ![t] = c.k]
        /\ num_open_sockets' = c.open
        /\ udp_mappings' = [udp_mappings EXCEPT ![Port[t]] = c.uses]
        /\ due' = [due EXCEPT ![t] = c.due]
  BY DEF Leaves
<1>2. Fit(t, c, others)
  OBVIOUS
<1>3. /\ c.k \in Connections(t) /\ c.open \in Nat /\ c.uses \in Nat /\ c.due \in Int
      /\ c.open = others + Count(c.k.sock) /\ c.open <= MaxNumSockets
      /\ c.k.sock => c.k.status \in {"CONNECTING", "CONNECTED"}
  BY <1>2 DEF Fit, Loose, Contexts, Open
<1>4. conn' = [u \in Tuples |-> conn'[u]]
  BY <1>1 DEF IInv, Consistent
<1>5. \A u \in Tuples : /\ conn'[u] \in Connections(u)
                        /\ conn'[u].sock => conn'[u].status \in {"CONNECTING", "CONNECTED"}
  BY <1>1, <1>3 DEF IInv, Consistent
<1>6. num_open_sockets' = Cardinality(SocketsOf(conn'))
  <2>0. IsFiniteSet(Sockets)
    BY SocketsFinite DEF Sockets, SocketsOf
  <2>1. IsFiniteSet(Sockets \ {t}) /\ others = Cardinality(Sockets \ {t})
    BY <2>0, FS_RemoveElement
  <2>2. SocketsOf(conn') = IF c.k.sock THEN (Sockets \ {t}) \cup {t} ELSE Sockets \ {t}
    BY <1>1 DEF SocketsOf, Sockets, IInv, Consistent
  <2>3. Cardinality((Sockets \ {t}) \cup {t}) = others + 1
    BY <2>1, FS_AddElement
  <2>4. others \in Nat
    BY <2>1, FS_CardinalityType
  <2> HIDE DEF others
  <2>5. CASE c.k.sock
    BY <1>1, <1>3, <2>2, <2>3, <2>4, <2>5 DEF Count
  <2>6. CASE ~c.k.sock
    <3>1. Count(c.k.sock) = 0
      BY <2>6 DEF Count
    <3>2. num_open_sockets' = others
      BY <1>1, <1>3, <2>4, <3>1
    <3>3. SocketsOf(conn') = Sockets \ {t}
      BY <2>2, <2>6
    <3> QED BY <2>1, <3>2, <3>3
  <2> QED BY <2>5, <2>6
<1>7. udp_mappings' \in [Ports -> Nat] /\ due' \in [Tuples -> Int]
  BY <1>1, <1>3 DEF IInv, Consistent
<1> QED BY <1>1, <1>3, <1>4, <1>5, <1>6, <1>7 DEF IInv, Consistent

LEMMA DestroyConsistent ==
  ASSUME IInv, NEW D \in SUBSET Tuples, NEW R
  PROVE  LET s == destroy(D, R) IN Consistent(s.conn, s.open, s.mappings, s.due)
<1> DEFINE s == destroy(D, R)
           cn == [t \in Tuples |-> IF t \in D THEN NoConn ELSE conn[t]]
           lost(p) == Cardinality({t \in {u \in D : Open(conn[u])} \cap UDP : Port[t] = p})
<1>1. /\ s.conn = cn
      /\ s.open = num_open_sockets - Cardinality(D \cap Sockets)
      /\ s.mappings = [p \in Ports |-> IF udp_mappings[p] > lost(p)
                                       THEN udp_mappings[p] - lost(p) ELSE 0]
      /\ s.due \in [Tuples -> Int]
  <2>1. \A t \in Tuples : due[t] \in Int
    BY DEF IInv, Consistent
  <2> QED BY <2>1 DEF destroy
<1>2. cn = [t \in Tuples |-> cn[t]]
  OBVIOUS
<1>3. \A t \in Tuples : /\ cn[t] \in Connections(t)
                        /\ cn[t].sock => cn[t].status \in {"CONNECTING", "CONNECTED"}
  BY NewConnType DEF IInv, Consistent
<1>4. s.open = Cardinality(SocketsOf(cn)) /\ s.open <= MaxNumSockets
  <2>1. SocketsOf(cn) = Sockets \ D
    BY NewConnType DEF SocketsOf, Sockets
  <2>2. IsFiniteSet(Sockets) /\ Cardinality(Sockets) \in Nat
    BY SocketsFinite DEF Sockets, SocketsOf
  <2>3. Cardinality(Sockets \ D) = Cardinality(Sockets) - Cardinality(Sockets \cap D)
    BY <2>2, FS_Difference
  <2>4. IsFiniteSet(Sockets \cap D) /\ Cardinality(Sockets \cap D) \in Nat
    BY <2>2, FS_Intersection, FS_CardinalityType
  <2>5. Sockets \cap D = D \cap Sockets
    OBVIOUS
  <2>6. num_open_sockets = Cardinality(Sockets) /\ num_open_sockets <= MaxNumSockets
    BY DEF IInv, Consistent, Sockets, SocketsOf
  <2>7. s.open = num_open_sockets - Cardinality(D \cap Sockets)
    BY <1>1
  <2> HIDE DEF s, cn
  <2> QED BY <2>1, <2>2, <2>3, <2>4, <2>5, <2>6, <2>7, LimitsAssumption
<1>5. s.mappings \in [Ports -> Nat]
  <2>1. ASSUME NEW p \in Ports PROVE lost(p) \in Nat
    <3>1. {t \in {u \in D : Open(conn[u])} \cap UDP : Port[t] = p} \in SUBSET Tuples
      OBVIOUS
    <3> QED BY <3>1, TuplesAssumption, FS_Subset, FS_CardinalityType
  <2>2. \A p \in Ports : udp_mappings[p] \in Nat
    BY DEF IInv, Consistent
  <2> HIDE DEF lost
  <2> QED BY <1>1, <2>1, <2>2
<1> HIDE DEF s, cn
<1>6. Consistent(s.conn, s.open, s.mappings, s.due)
  BY <1>1, <1>2, <1>3, <1>4, <1>5 DEF Consistent
<1> QED BY <1>6 DEF s

(* Every state a purge leaves comes from destroying some connections.       *)
LEMMA PurgedConsistent ==
  ASSUME IInv, NEW gone \in SUBSET Tuples, NEW s \in Purged(gone)
  PROVE  /\ Consistent(s.conn, s.open, s.mappings, s.due)
         /\ \A t \in Tuples : s.conn[t].sock => conn[t].sock
<1>1. PICK R \in SUBSET Live,
           F \in Oldest(Live \ (gone \cup Expired),
                        num_open_sockets - Cardinality((gone \cup Expired) \cap Sockets)) :
        s = destroy(gone \cup Expired \cup F, R)
  BY DEF Purged
<1>2. F \in SUBSET Tuples
  BY DEF Oldest, Live
<1>3. gone \cup Expired \cup F \in SUBSET Tuples
  BY <1>2 DEF Expired, Live
<1>4. \A t \in Tuples : s.conn[t].sock => conn[t].sock
  BY <1>1, NewConnType DEF destroy
<1> QED BY <1>1, <1>3, <1>4, DestroyConsistent

LEMMA AcceptedConsistent ==
  ASSUME NEW cn, NEW n, NEW m, NEW du, Consistent(cn, n, m, du),
         NEW t \in Tuples, ~cn[t].sock, NEW k, NEW x \in Int,
         k = NewConn \/ k = NoConn
  PROVE  Consistent([cn EXCEPT ![t] = k], n, m, [du EXCEPT ![t] = x])
<1> DEFINE cm == [cn EXCEPT ![t] = k]
<1>1. cm = [u \in Tuples |-> cm[u]]
  BY DEF Consistent
<1>2. \A u \in Tuples : /\ cm[u] \in Connections(u)
                        /\ cm[u].sock => cm[u].status \in {"CONNECTING", "CONNECTED"}
  BY NewConnType DEF Consistent
<1>3. SocketsOf(cm) = SocketsOf(cn)
  BY NewConnType DEF SocketsOf, Consistent
<1>4. [du EXCEPT ![t] = x] \in [Tuples -> Int]
  BY DEF Consistent
<1> HIDE DEF cm
<1>5. Consistent(cm, n, m, [du EXCEPT ![t] = x])
  BY <1>1, <1>2, <1>3, <1>4 DEF Consistent
<1> QED BY <1>5 DEF cm

-----------------------------------------------------------------------------

LEMMA InitIInv == Init => IInv
<1> SUFFICES ASSUME Init PROVE IInv
  OBVIOUS
<1>1. SocketsOf(conn) = {}
  BY NewConnType DEF Init, SocketsOf
<1>2. num_open_sockets = Cardinality(SocketsOf(conn)) /\ num_open_sockets <= MaxNumSockets
  BY <1>1, FS_EmptySet, LimitsAssumption DEF Init
<1>3. /\ conn = [t \in Tuples |-> conn[t]]
      /\ \A t \in Tuples : /\ conn[t] \in Connections(t)
                           /\ conn[t].sock => conn[t].status \in {"CONNECTING", "CONNECTED"}
  BY NewConnType DEF Init
<1>4. udp_mappings \in [Ports -> Nat] /\ due \in [Tuples -> Int] /\ alive \in BOOLEAN
  BY DEF Init
<1> QED BY <1>2, <1>3, <1>4 DEF IInv, Consistent

LEMMA ForwardIInv ==
  ASSUME IInv, NEW t \in Tuples, zdtun_forward(t)
  PROVE  IInv'
<1> DEFINE c == Context(t)
<1>1. Fit(t, c, Cardinality(Sockets \ {t})) /\ Cardinality(Sockets \ {t}) \in Nat
  <2>1. conn[t].status # "NONE"
    BY DEF zdtun_forward, Open
  <2>2. IsFiniteSet(Sockets)
    BY SocketsFinite DEF Sockets, SocketsOf
  <2> QED BY <2>1, <2>2, ContextFit, FS_RemoveElement, FS_CardinalityType
<1>2. alive' \in BOOLEAN
  BY DEF zdtun_forward, IInv
<1> HIDE DEF c
<1>3. ASSUME NEW seg \in Segments, Leaves(t, {touch(d) : d \in handle_tcp_fwd(t, c, seg)})
      PROVE  IInv'
  <2>1. \A e \in {touch(d) : d \in handle_tcp_fwd(t, c, seg)} :
          Fit(t, e, Cardinality(Sockets \ {t}))
    BY <1>1, TcpFwdFit, TouchFit
  <2> QED BY <1>2, <1>3, <2>1, LeavesIInv
<1>4. ASSUME Leaves(t, {touch(d) : d \in handle_udp_fwd(t, c)}) PROVE IInv'
  <2>1. \A e \in {touch(d) : d \in handle_udp_fwd(t, c)} :
          Fit(t, e, Cardinality(Sockets \ {t}))
    BY <1>1, UdpFwdFit, TouchFit
  <2> QED BY <1>2, <1>4, <2>1, LeavesIInv
<1>5. ASSUME Leaves(t, {touch(d) : d \in handle_icmp_fwd(t, c)}) PROVE IInv'
  <2>1. \A e \in {touch(d) : d \in handle_icmp_fwd(t, c)} :
          Fit(t, e, Cardinality(Sockets \ {t}))
    BY <1>1, IcmpFwdFit, TouchFit
  <2> QED BY <1>2, <1>5, <2>1, LeavesIInv
<1> QED BY <1>3, <1>4, <1>5 DEF zdtun_forward, c

LEMMA HandleFdIInv ==
  ASSUME IInv, NEW t \in Tuples, zdtun_handle_fd(t)
  PROVE  IInv'
<1> DEFINE c == Context(t)
<1>1. Fit(t, c, Cardinality(Sockets \ {t})) /\ Cardinality(Sockets \ {t}) \in Nat
  <2>1. conn[t].status # "NONE"
    BY DEF zdtun_handle_fd, IInv, Consistent
  <2>2. IsFiniteSet(Sockets)
    BY SocketsFinite DEF Sockets, SocketsOf
  <2> QED BY <2>1, <2>2, ContextFit, FS_RemoveElement, FS_CardinalityType
<1>2. alive' \in BOOLEAN
  BY DEF zdtun_handle_fd, IInv
<1> HIDE DEF c
<1>3. \A e \in {touch(d) : d \in handle_tcp_reply(t, c)} : Fit(t, e, Cardinality(Sockets \ {t}))
  BY <1>1, TcpReplyFit, TouchFit
<1>4. \A e \in handle_udp_reply(t, c) : Fit(t, e, Cardinality(Sockets \ {t}))
  BY <1>1, UdpReplyFit
<1>5. \A e \in handle_icmp_reply(t, c) : Fit(t, e, Cardinality(Sockets \ {t}))
  BY <1>1, IcmpReplyFit
<1>6. \A e \in handle_queued_tcp_data(t, c) : Fit(t, e, Cardinality(Sockets \ {t}))
  BY <1>1, QueuedDataFit
<1>7. \A e \in handle_tcp_connect_async(t, c) : Fit(t, e, Cardinality(Sockets \ {t}))
  BY <1>1, ConnectAsyncFit
<1>8. \/ Leaves(t, {touch(d) : d \in handle_tcp_reply(t, c)})
      \/ Leaves(t, handle_udp_reply(t, c))
      \/ Leaves(t, handle_icmp_reply(t, c))
      \/ Leaves(t, handle_queued_tcp_data(t, c))
      \/ Leaves(t, handle_tcp_connect_async(t, c))
  BY Zenon DEF zdtun_handle_fd, c
<1> QED BY <1>2, <1>3, <1>4, <1>5, <1>6, <1>7, <1>8, LeavesIInv

LEMMA LookupCreateIInv ==
  ASSUME IInv, NEW t \in Tuples, zdtun_lookup_create(t)
  PROVE  IInv'
<1>1. ~conn[t].sock
  BY DEF zdtun_lookup_create, IInv, Consistent, Open
<1>2. PICK s \in IF num_open_sockets >= MaxNumSockets
                 THEN Purged({t} \cap Live) ELSE {destroy({t}, {})} :
        \/ /\ conn' = [s.conn EXCEPT ![t] = NewConn] /\ due' = [s.due EXCEPT ![t] = 1]
           /\ num_open_sockets' = s.open /\ udp_mappings' = s.mappings
        \/ /\ conn' = s.conn /\ due' = s.due
           /\ num_open_sockets' = s.open /\ udp_mappings' = s.mappings
  BY Zenon DEF zdtun_lookup_create
<1>3. Consistent(s.conn, s.open, s.mappings, s.due) /\ ~s.conn[t].sock
  <2>1. CASE s \in Purged({t} \cap Live)
    BY <1>1, <2>1, PurgedConsistent
  <2>2. CASE s = destroy({t}, {})
    <3>1. ~s.conn[t].sock
      BY <2>2, NewConnType DEF destroy
    <3> QED BY <2>2, <3>1, DestroyConsistent
  <2> QED BY <2>1, <2>2
<1>4. alive' \in BOOLEAN
  BY DEF zdtun_lookup_create, IInv
<1>5. Consistent([s.conn EXCEPT ![t] = NewConn], s.open, s.mappings, [s.due EXCEPT ![t] = 1])
  <2>1. 1 \in Int
    OBVIOUS
  <2> QED BY <1>3, <2>1, AcceptedConsistent, Zenon
<1> QED BY <1>2, <1>3, <1>4, <1>5 DEF IInv

(* Tick and zdtun_conn_proxy change no field the count depends on.          *)
LEMMA SameSocketsIInv ==
  ASSUME IInv,
         conn' = [t \in Tuples |-> conn'[t]],
         \A t \in Tuples : /\ conn'[t] \in Connections(t)
                           /\ conn'[t].sock = conn[t].sock
                           /\ conn'[t].status = conn[t].status,
         UNCHANGED <<num_open_sockets, udp_mappings, due, alive>>
  PROVE  IInv'
<1>1. SocketsOf(conn') = SocketsOf(conn)
  BY DEF SocketsOf
<1> QED BY <1>1 DEF IInv, Consistent

LEMMA TickIInv == ASSUME IInv, Tick PROVE IInv'
<1>1. ASSUME NEW t \in Tuples, conn[t].idle < Timeout[t]
      PROVE  /\ [conn[t] EXCEPT !.idle = @ + 1] \in Connections(t)
             /\ [conn[t] EXCEPT !.idle = @ + 1].sock = conn[t].sock
             /\ [conn[t] EXCEPT !.idle = @ + 1].status = conn[t].status
  <2>1. conn[t] \in Connections(t)
    BY DEF IInv, Consistent
  <2>2. conn[t].idle + 1 \in 0 .. Timeout[t]
    BY <1>1, <2>1, LimitsAssumption DEF Connections
  <2> QED BY <2>1, <2>2 DEF Connections
<1>2. \A t \in Tuples : /\ conn'[t] \in Connections(t)
                        /\ conn'[t].sock = conn[t].sock
                        /\ conn'[t].status = conn[t].status
  BY <1>1 DEF Tick, IInv, Consistent
<1> QED BY <1>2, SameSocketsIInv DEF Tick

LEMMA ProxyIInv == ASSUME IInv, NEW t \in Tuples, zdtun_conn_proxy(t) PROVE IInv'
<1> DEFINE k == [conn[t] EXCEPT !.proxied = TRUE]
<1>1. conn[t] \in Connections(t)
  BY DEF IInv, Consistent
<1>2. k \in Connections(t) /\ k.sock = conn[t].sock /\ k.status = conn[t].status
  BY <1>1 DEF Connections
<1>3. conn' = [conn EXCEPT ![t] = k]
  BY DEF zdtun_conn_proxy
<1> HIDE DEF k
<1>4. \A u \in Tuples : /\ conn'[u] \in Connections(u)
                        /\ conn'[u].sock = conn[u].sock
                        /\ conn'[u].status = conn[u].status
  BY <1>2, <1>3 DEF IInv, Consistent
<1>5. conn' = [u \in Tuples |-> conn'[u]]
  BY <1>3 DEF IInv, Consistent
<1> QED BY <1>4, <1>5, SameSocketsIInv DEF zdtun_conn_proxy

LEMMA NextIInv == IInv /\ [Next]_vars => IInv'
<1> SUFFICES ASSUME IInv, [Next]_vars PROVE IInv'
  OBVIOUS
<1>1. ASSUME NEW t \in Tuples, zdtun_lookup(t) PROVE IInv'
  <2>1. ~conn[t].sock
    BY <1>1 DEF zdtun_lookup, IInv, Consistent
  <2>2. Consistent([conn EXCEPT ![t] = NoConn], num_open_sockets, udp_mappings,
                   [due EXCEPT ![t] = due[t]])
    <3>1. due[t] \in Int
      BY DEF IInv, Consistent
    <3> QED BY <2>1, <3>1, AcceptedConsistent, Zenon DEF IInv
  <2>3. [due EXCEPT ![t] = due[t]] = due
    BY DEF IInv, Consistent
  <2> QED BY <1>1, <2>2, <2>3 DEF zdtun_lookup, IInv
<1>2. ASSUME NEW t \in Tuples, zdtun_lookup_create(t) PROVE IInv'
  BY <1>2, LookupCreateIInv
<1>3. ASSUME NEW t \in Tuples, zdtun_conn_proxy(t) PROVE IInv'
  BY <1>3, ProxyIInv
<1>4. ASSUME NEW t \in Tuples, zdtun_forward(t) PROVE IInv'
  BY <1>4, ForwardIInv
<1>5. ASSUME NEW t \in Tuples, close_spoofed_dns(t) PROVE IInv'
  <2>1. IsFiniteSet(Sockets)
    BY SocketsFinite DEF Sockets, SocketsOf
  <2>2. Cardinality(Sockets \ {t}) \in Nat
    BY <2>1, FS_RemoveElement, FS_CardinalityType
  <2>3. Fit(t, Context(t), Cardinality(Sockets \ {t}))
    BY <1>5, ContextFit DEF close_spoofed_dns
  <2>4. \A c \in zdtun_conn_close(t, Context(t)) : Fit(t, c, Cardinality(Sockets \ {t}))
    BY <2>2, <2>3, FitParts, CloseFit
  <2> QED BY <1>5, <2>4, LeavesIInv DEF close_spoofed_dns, IInv
<1>6. ASSUME NEW t \in Tuples, zdtun_handle_fd(t) PROVE IInv'
  BY <1>6, HandleFdIInv
<1>7. ASSUME zdtun_purge_expired PROVE IInv'
  <2>1. PICK s \in Purged({}) : /\ conn' = s.conn /\ num_open_sockets' = s.open
                                /\ udp_mappings' = s.mappings /\ due' = s.due
    BY <1>7 DEF zdtun_purge_expired
  <2>2. Consistent(s.conn, s.open, s.mappings, s.due)
    BY PurgedConsistent
  <2> QED BY <1>7, <2>1, <2>2 DEF zdtun_purge_expired, IInv
<1>8. ASSUME zdtun_finalize PROVE IInv'
  <2>1. PICK R \in SUBSET Live :
          LET s == destroy(Live, R)
          IN  /\ conn' = s.conn /\ num_open_sockets' = s.open
              /\ udp_mappings' = s.mappings /\ due' = s.due
    BY <1>8 DEF zdtun_finalize
  <2>2. Live \in SUBSET Tuples
    BY DEF Live
  <2> QED BY <1>8, <2>1, <2>2, DestroyConsistent DEF zdtun_finalize, IInv
<1>9. ASSUME zdtun_init PROVE IInv'
  <2>1. SocketsOf(conn') = {}
    BY <1>9, NewConnType DEF zdtun_init, SocketsOf
  <2>2. /\ num_open_sockets' = Cardinality(SocketsOf(conn'))
        /\ num_open_sockets' <= MaxNumSockets
    BY <1>9, <2>1, FS_EmptySet, LimitsAssumption DEF zdtun_init
  <2>3. /\ conn' = [t \in Tuples |-> conn'[t]]
        /\ \A t \in Tuples :
             /\ conn'[t] \in Connections(t)
             /\ conn'[t].sock => conn'[t].status \in {"CONNECTING", "CONNECTED"}
    BY <1>9, NewConnType DEF zdtun_init
  <2>4. udp_mappings' \in [Ports -> Nat] /\ due' \in [Tuples -> Int] /\ alive' \in BOOLEAN
    BY <1>9 DEF zdtun_init
  <2> QED BY <2>2, <2>3, <2>4 DEF IInv, Consistent
<1>10. ASSUME Tick PROVE IInv'
  BY <1>10, TickIInv
<1>11. CASE UNCHANGED vars
  BY <1>11 DEF vars, IInv, Consistent, SocketsOf
<1> QED BY <1>1, <1>2, <1>3, <1>4, <1>5, <1>6, <1>7, <1>8, <1>9, <1>10, <1>11 DEF Next

(* zdtun.c never opens a socket past its limit, and its counter of open     *)
(* sockets equals the number of connections that have one, in every state:  *)
(* no path closes a socket twice in the counter or forgets one.             *)
THEOREM SocketAccountingSafe == Spec => []SocketAccounting
<1>1. Init => IInv
  BY InitIInv
<1>2. IInv /\ [Next]_vars => IInv'
  BY NextIInv
<1>3. IInv => SocketAccounting
  BY IInvImplies
<1> QED BY <1>1, <1>2, <1>3, PTL DEF Spec

(* The connection table, the counters and the mappings keep their types:    *)
(* no use count of a mapping and no idle time ever leaves its range.        *)
THEOREM TypeSafe == Spec => []TypeOK
<1>1. Init => IInv
  BY InitIInv
<1>2. IInv /\ [Next]_vars => IInv'
  BY NextIInv
<1>3. IInv => TypeOK
  BY IInvImplies
<1> QED BY <1>1, <1>2, <1>3, PTL DEF Spec
-----------------------------------------------------------------------------
(***************************************************************************)
(* Proofs about the state machine of each connection of Zdtun, for any set *)
(* of tuples, limits and timeouts: what select waits on, half closing, the *)
(* SYN+ACK, the callbacks and the finality of a close.                     *)
(*                                                                         *)
(* Unlike the socket count, none of this depends on other connections, so  *)
(* the invariant is Sound, a statement on one connection, together with    *)
(* the callback still due to it while it is open.  As above each           *)
(* C function has a lemma on the context that it leaves.                   *)
(***************************************************************************)

InProgress == {"CONNECTING", "CONNECTED"}

(* What the sets of select say of a socket.                                 *)
Waits(t, k) ==
  /\ k.wr <=> k.sock /\ (k.status = "CONNECTING" \/ k.queued)
  /\ k.rd => k.sock
  /\ k.sock => k.status \in InProgress /\ (k.rd \/ t \in TCP)
  /\ t \notin TCP => /\ k.status \in InProgress => k.sock
                     /\ k.status # "CONNECTING" /\ ~k.queued

(* How far a TCP connection is with its client.                             *)
Shaken(k) ==
  /\ k.fin_ack_sent => ~k.sock /\ ~k.client_closed
  /\ k.status = "CONNECTED" /\ ~k.sock => k.fin_ack_sent
  /\ k.syn_acks = IF k.status = "CONNECTED" /\ ~socks5_in_progress(k) THEN 1 ELSE 0

(* A connection that has not come to CONNECTED has no queue and no session  *)
(* with the proxy; a new one has exchanged nothing.                         *)
Early(k) ==
  /\ k.status \in {"NEW", "CONNECTING"} => ~k.queued /\ ~k.established
  /\ k.status = "NEW" => ~k.fin_ack_sent /\ ~k.client_closed

Sound(t, k) ==
  /\ Waits(t, k)
  /\ Open(k) => Early(k) /\ (t \in TCP => Shaken(k))
  /\ k.status = "CLOSED" => ~k.queued

Shape(t) == [k: Connections(t), open: Int, uses: Int, due: Int]

Good(t, c) ==
  /\ c \in Shape(t)
  /\ Sound(t, c.k)
  /\ Open(c.k) => c.due = 1

(* What zdtun_conn_close may be given: in the middle of a handler the       *)
(* connection need not be Sound.                                            *)
Closable(t, c) ==
  /\ c \in Shape(t)
  /\ c.k.rd => c.k.sock
  /\ c.k.wr => c.k.sock

LEMMA GoodClosable ==
  ASSUME NEW t \in Tuples, NEW c, Good(t, c)
  PROVE  Closable(t, c) /\ c.k \in Connections(t)
BY DEF Good, Closable, Sound, Waits, Shape

LEMMA UnmapShape ==
  ASSUME NEW t \in Tuples, NEW c \in Shape(t)
  PROVE  unmap(t, c) \in Shape(t) /\ unmap(t, c).k = c.k /\ unmap(t, c).due = c.due
BY DEF Shape, unmap

LEMMA CloseSocketShape ==
  ASSUME NEW t \in Tuples, NEW c \in Shape(t)
  PROVE  /\ close_socket(c) \in Shape(t)
         /\ close_socket(c).due = c.due
         /\ close_socket(c).k = IF c.k.sock
                                THEN [c.k EXCEPT !.sock = FALSE, !.rd = FALSE, !.wr = FALSE]
                                ELSE c.k
<1> DEFINE k == [c.k EXCEPT !.sock = FALSE, !.rd = FALSE, !.wr = FALSE]
<1>1. k \in Connections(t)
  BY DEF Shape, Connections
<1> HIDE DEF k
<1>2. close_socket(c) =
        IF c.k.sock
        THEN [k |-> k, open |-> c.open - 1, uses |-> c.uses, due |-> c.due] ELSE c
  BY DEF close_socket, With, k
<1>3. c.open - 1 \in Int
  BY DEF Shape
<1> QED BY <1>1, <1>2, <1>3 DEF Shape, k

(* A closed connection is Sound, whatever it was when the close began.      *)
LEMMA ClosedGood ==
  ASSUME NEW t \in Tuples, NEW c, Closable(t, c), NEW rst \in BOOLEAN,
         Open(c.k) \/ Good(t, c)
  PROVE  Good(t, closed(t, c, rst)) /\ ~Open(closed(t, c, rst).k)
<1>1. CASE ~Open(c.k)
  BY <1>1 DEF closed
<1>2. CASE Open(c.k)
  <2> DEFINE d == close_socket(unmap(t, c))
             refused == t \in TCP /\ ~c.k.fin_ack_sent /\ ~rst
             fin == d.k.fin_ack_sent \/ refused
             k == [d.k EXCEPT !.status = "CLOSED", !.queued = FALSE,
                              !.fin_ack_sent = fin, !.idle = 0]
  <2>1. d \in Shape(t) /\ ~d.k.sock /\ ~d.k.rd /\ ~d.k.wr
    <3>1. c \in Shape(t) /\ c.k \in Connections(t)
      BY DEF Closable, Shape
    <3>2. /\ unmap(t, c) \in Shape(t) /\ unmap(t, c).k = c.k
      BY <3>1, UnmapShape
    <3>3. /\ d \in Shape(t)
          /\ d.k = IF c.k.sock
                   THEN [c.k EXCEPT !.sock = FALSE, !.rd = FALSE, !.wr = FALSE] ELSE c.k
      BY <3>2, CloseSocketShape
    <3> HIDE DEF d
    <3> QED BY <3>1, <3>3 DEF Closable, Connections
  <2>2. closed(t, c, rst) =
          [k |-> k, open |-> d.open, uses |-> d.uses,
           due |-> d.due - (IF refused THEN 2 ELSE 1)]
    BY <1>2 DEF closed, With
  <2>3. fin \in BOOLEAN
    OBVIOUS
  <2> HIDE DEF d, fin
  <2>4. /\ k \in Connections(t) /\ ~k.sock /\ ~k.rd /\ ~k.wr /\ ~k.queued
        /\ k.status = "CLOSED"
    <3>1. 0 \in 0 .. Timeout[t] /\ "CLOSED" \in Statuses
      BY LimitsAssumption DEF Statuses
    <3>2. d.k \in Connections(t)
      BY <2>1 DEF Shape
    <3> QED BY <2>1, <2>3, <3>1, <3>2 DEF Connections
  <2> HIDE DEF k, refused
  <2>5. closed(t, c, rst) \in Shape(t)
    <3>1. d.open \in Int /\ d.uses \in Int /\ d.due - (IF refused THEN 2 ELSE 1) \in Int
      BY <2>1 DEF Shape
    <3> QED BY <2>2, <2>4, <3>1 DEF Shape
  <2>6. Sound(t, k) /\ ~Open(k)
    BY <2>4 DEF Sound, Waits, Open, InProgress
  <2> QED BY <2>2, <2>5, <2>6 DEF Good
<1> QED BY <1>1, <1>2

LEMMA CloseGood ==
  ASSUME NEW t \in Tuples, NEW c, Closable(t, c), Open(c.k) \/ Good(t, c),
         NEW d \in zdtun_conn_close(t, c)
  PROVE  Good(t, d) /\ ~Open(d.k)
BY ClosedGood DEF zdtun_conn_close

(* A handler that only changes the connection.                              *)
LEMMA WithShape ==
  ASSUME NEW t \in Tuples, NEW c \in Shape(t), NEW k \in Connections(t)
  PROVE  With(c, k) \in Shape(t) /\ With(c, k).k = k /\ With(c, k).due = c.due
BY DEF With, Shape

LEMMA WithGood ==
  ASSUME NEW t \in Tuples, NEW c \in Shape(t), c.due = 1,
         NEW k \in Connections(t), Sound(t, k)
  PROVE  Good(t, With(c, k))
BY WithShape DEF Good

LEMMA ClientErrorGood ==
  ASSUME NEW t \in Tuples, NEW c, Closable(t, c), Open(c.k)
  PROVE  Good(t, client_error(t, c)) /\ ~Open(client_error(t, c).k)
<1> DEFINE k == [c.k EXCEPT !.fin_ack_sent = @ \/ t \in TCP]
<1>1. c \in Shape(t) /\ c.k \in Connections(t)
  BY DEF Closable, Shape
<1>2. /\ k \in Connections(t) /\ k.status = c.k.status
      /\ k.rd = c.k.rd /\ k.wr = c.k.wr /\ k.sock = c.k.sock
  BY <1>1 DEF Connections
<1>3. client_error(t, c) = closed(t, With(c, k), TRUE)
  BY DEF client_error
<1> HIDE DEF k
<1>4. Closable(t, With(c, k)) /\ Open(With(c, k).k)
  BY <1>1, <1>2, WithShape DEF Closable, Open
<1> QED BY <1>3, <1>4, ClosedGood

LEMMA SendToClientGood ==
  ASSUME NEW t \in Tuples, NEW c, Good(t, c), Open(c.k), NEW d \in send_to_client(t, c)
  PROVE  Good(t, d) /\ (d = c \/ ~Open(d.k))
BY GoodClosable, ClientErrorGood DEF send_to_client

(* Time and activity.                                                       *)
LEMMA IdleSound ==
  ASSUME NEW t \in Tuples, NEW k \in Connections(t), Sound(t, k),
         NEW i \in 0 .. Timeout[t]
  PROVE  LET e == [k EXCEPT !.idle = i] IN
         e \in Connections(t) /\ Sound(t, e) /\ e.status = k.status
<1> DEFINE e == [k EXCEPT !.idle = i]
<1>1. /\ e \in Connections(t)
      /\ e.status = k.status /\ e.sock = k.sock /\ e.rd = k.rd /\ e.wr = k.wr
      /\ e.proxied = k.proxied /\ e.established = k.established /\ e.queued = k.queued
      /\ e.fin_ack_sent = k.fin_ack_sent /\ e.client_closed = k.client_closed
      /\ e.syn_acks = k.syn_acks
  BY DEF Connections
<1> HIDE DEF e
<1>2. Sound(t, e)
  BY <1>1 DEF Sound, Waits, Early, Shaken, Open, socks5_in_progress
<1> QED BY <1>1, <1>2 DEF e

LEMMA TouchGood ==
  ASSUME NEW t \in Tuples, NEW c, Good(t, c)
  PROVE  Good(t, touch(c)) /\ touch(c).k.status = c.k.status
<1> DEFINE k == [c.k EXCEPT !.idle = 0]
<1>1. 0 \in 0 .. Timeout[t]
  BY LimitsAssumption
<1>2. c \in Shape(t) /\ c.k \in Connections(t)
  BY DEF Good, Shape
<1>3. k \in Connections(t) /\ Sound(t, k) /\ k.status = c.k.status
  BY <1>1, <1>2, IdleSound DEF Good
<1> HIDE DEF k
<1>4. touch(c) = With(c, k)
  BY DEF touch, k
<1> QED BY <1>2, <1>3, <1>4, WithShape DEF Good, Open

LEMMA OpenSocketShape ==
  ASSUME NEW t \in Tuples, NEW c \in Shape(t)
  PROVE  /\ open_socket(c) \in Shape(t)
         /\ open_socket(c).k = [c.k EXCEPT !.sock = TRUE, !.rd = TRUE]
         /\ open_socket(c).k \in Connections(t)
         /\ open_socket(c).due = c.due
<1> DEFINE k == [c.k EXCEPT !.sock = TRUE, !.rd = TRUE]
<1>1. k \in Connections(t)
  BY DEF Shape, Connections
<1> HIDE DEF k
<1>2. open_socket(c) = [k |-> k, open |-> c.open + 1, uses |-> c.uses, due |-> c.due]
  BY DEF open_socket, With, k
<1>3. c.open + 1 \in Int
  BY DEF Shape
<1> QED BY <1>1, <1>2, <1>3 DEF Shape, k

LEMMA NoSocketGood ==
  ASSUME NEW t \in Tuples, NEW c, Good(t, c), c.k.status = "NEW"
  PROVE  Good(t, no_socket(c))
<1> DEFINE k == [c.k EXCEPT !.status = "CLOSED", !.idle = 0]
<1>1. c \in Shape(t) /\ c.k \in Connections(t) /\ Sound(t, c.k)
  BY DEF Good, Shape
<1>2. k \in Connections(t) /\ Sound(t, k) /\ ~Open(k)
  <2>1. 0 \in 0 .. Timeout[t] /\ "CLOSED" \in Statuses
    BY LimitsAssumption DEF Statuses
  <2>2. /\ k \in Connections(t) /\ k.status = "CLOSED" /\ k.sock = c.k.sock /\ k.rd = c.k.rd
        /\ k.wr = c.k.wr /\ k.queued = c.k.queued
    BY <1>1, <2>1 DEF Connections
  <2> HIDE DEF k
  <2> QED BY <1>1, <2>2 DEF Sound, Waits, Early, Open, InProgress
<1> HIDE DEF k
<1> QED BY <1>1, <1>2, WithShape DEF no_socket, k, Good

-----------------------------------------------------------------------------
(* Forwarding. *)

LEMMA SendSynAckGood ==
  ASSUME NEW t \in Tuples, NEW c \in Shape(t), Closable(t, c), Open(c.k), c.due = 1,
         c.k.syn_acks = 0, Sound(t, [c.k EXCEPT !.syn_acks = 1]),
         NEW d \in send_syn_ack(t, c)
  PROVE  Good(t, d)
<1> DEFINE k == [c.k EXCEPT !.syn_acks = 1]
<1>1. k \in Connections(t)
  BY DEF Shape, Connections
<1>2. [c.k EXCEPT !.syn_acks = IF @ < 2 THEN @ + 1 ELSE 2] = k
  <2>1. (IF c.k.syn_acks < 2 THEN c.k.syn_acks + 1 ELSE 2) = 1
    OBVIOUS
  <2> QED BY <2>1
<1>3. d \in {With(c, k), client_error(t, c)}
  BY <1>2 DEF send_syn_ack
<1> HIDE DEF k
<1>4. Sound(t, k)
  BY DEF k
<1> QED BY <1>1, <1>3, <1>4, WithGood, ClientErrorGood

(* The connect succeeded: what the context must be like for that.           *)
Connecting(t, c) ==
  /\ c \in Shape(t) /\ c.due = 1
  /\ c.k.sock /\ c.k.status \in {"NEW", "CONNECTING"}
  /\ ~c.k.queued /\ ~c.k.established /\ ~c.k.fin_ack_sent /\ c.k.syn_acks = 0

LEMMA TcpSocketSynGood ==
  ASSUME NEW t \in TCP, NEW c, Connecting(t, c), NEW d \in tcp_socket_syn(t, c)
  PROVE  Good(t, d)
<1> DEFINE k == [c.k EXCEPT !.status = "CONNECTED", !.wr = FALSE]
           l == [k EXCEPT !.syn_acks = 1]
<1>0. t \in Tuples /\ c \in Shape(t) /\ c.k \in Connections(t) /\ c.due = 1
  BY TuplesAssumption DEF Connecting, Shape
<1>1. /\ k \in Connections(t) /\ k.status = "CONNECTED" /\ k.sock /\ ~k.wr
      /\ ~k.queued /\ ~k.established /\ ~k.fin_ack_sent /\ k.syn_acks = 0
      /\ k.proxied = c.k.proxied
  BY <1>0 DEF Connecting, Connections, Statuses
<1> HIDE DEF k
<1>2. /\ With(c, k) \in Shape(t) /\ With(c, k).k = k /\ With(c, k).due = 1
      /\ Closable(t, With(c, k)) /\ Open(k)
  BY <1>0, <1>1, WithShape DEF Closable, Open
<1>3. CASE c.k.proxied
  <2>1. Sound(t, k)
    BY <1>1, <1>3 DEF Sound, Waits, Early, Shaken, Open, InProgress, socks5_in_progress
  <2>2. Good(t, With(c, k))
    BY <1>0, <1>1, <2>1, WithGood
  <2>3. d \in {With(c, k)} \cup zdtun_conn_close(t, With(c, k))
    BY <1>3 DEF tcp_socket_syn, k
  <2> QED BY <1>0, <1>2, <2>2, <2>3, CloseGood
<1>4. CASE ~c.k.proxied
  <2>1. /\ l.status = "CONNECTED" /\ l.sock /\ ~l.wr /\ ~l.queued /\ ~l.fin_ack_sent
        /\ l.syn_acks = 1 /\ l.proxied = k.proxied
    BY <1>1 DEF Connections
  <2>2. Sound(t, l)
    <3> HIDE DEF l
    <3> QED
      BY <1>1, <1>4, <2>1
         DEF Sound, Waits, Early, Shaken, Open, InProgress, socks5_in_progress
  <2>3. d \in send_syn_ack(t, With(c, k))
    BY <1>1, <1>4 DEF tcp_socket_syn, k
  <2> QED BY <1>0, <1>1, <1>2, <2>2, <2>3, SendSynAckGood
<1> QED BY <1>3, <1>4

LEMMA TcpConnectGood ==
  ASSUME NEW t \in TCP, NEW c, Good(t, c), c.k.status = "NEW",
         NEW d \in tcp_connect(t, c)
  PROVE  Good(t, d)
<1> DEFINE o == open_socket(c)
           k == [o.k EXCEPT !.status = "CONNECTING", !.wr = TRUE]
<1>0. /\ t \in Tuples /\ c \in Shape(t) /\ c.k \in Connections(t) /\ Sound(t, c.k)
      /\ c.due = 1
  BY TuplesAssumption DEF Good, Shape, Open
<1>1. /\ o \in Shape(t) /\ o.k \in Connections(t) /\ o.due = 1
      /\ o.k = [c.k EXCEPT !.sock = TRUE, !.rd = TRUE]
  BY <1>0, OpenSocketShape
<1>2. d \in {no_socket(c), With(o, k)} \cup zdtun_conn_close(t, o) \cup tcp_socket_syn(t, o)
  BY DEF tcp_connect
<1> HIDE DEF o
<1>3. Connecting(t, o) /\ o.k.rd /\ o.k.status = "NEW"
  BY <1>0, <1>1 DEF Connecting, Connections, Sound, Early, Shaken, Open
<1>4. Closable(t, o) /\ Open(o.k)
  BY <1>1, <1>3 DEF Closable, Connecting, Open
<1>5. Good(t, With(o, k))
  <2>1. /\ k \in Connections(t) /\ k.status = "CONNECTING" /\ k.wr /\ k.sock
        /\ ~k.queued /\ ~k.established /\ ~k.fin_ack_sent /\ k.syn_acks = 0
    BY <1>1, <1>3 DEF Connecting, Connections, Statuses
  <2> HIDE DEF k
  <2>2. Sound(t, k)
    BY <2>1 DEF Sound, Waits, Early, Shaken, Open, InProgress
  <2> QED BY <1>0, <1>1, <2>1, <2>2, WithGood
<1> HIDE DEF k
<1> QED BY <1>0, <1>2, <1>3, <1>4, <1>5, NoSocketGood, CloseGood, TcpSocketSynGood

LEMMA ClientFinGood ==
  ASSUME NEW t \in TCP, NEW c, Good(t, c), c.k.status = "CONNECTED",
         NEW d \in client_fin(t, c)
  PROVE  Good(t, d)
<1> DEFINE k == [c.k EXCEPT !.client_closed = TRUE]
<1>0. /\ t \in Tuples /\ c \in Shape(t) /\ c.k \in Connections(t) /\ Sound(t, c.k)
      /\ c.due = 1 /\ Closable(t, c)
  BY TuplesAssumption, GoodClosable DEF Good, Shape, Open
<1>1. /\ k \in Connections(t) /\ k.status = "CONNECTED"
      /\ k.sock = c.k.sock /\ k.rd = c.k.rd /\ k.wr = c.k.wr /\ k.queued = c.k.queued
      /\ k.fin_ack_sent = c.k.fin_ack_sent /\ k.syn_acks = c.k.syn_acks
      /\ k.proxied = c.k.proxied /\ k.established = c.k.established
  BY <1>0 DEF Connections
<1>2. d \in IF c.k.sock THEN send_to_client(t, With(c, k))
            ELSE zdtun_conn_close(t, With(c, k)) \cup {client_error(t, With(c, k))}
  BY DEF client_fin
<1> HIDE DEF k
<1>3. With(c, k).k = k /\ Closable(t, With(c, k)) /\ Open(k)
  BY <1>0, <1>1, WithShape DEF Closable, Open
<1>4. CASE c.k.sock
  <2>1. Sound(t, k)
    BY <1>0, <1>1, <1>4 DEF Sound, Waits, Early, Shaken, Open, socks5_in_progress
  <2>2. Good(t, With(c, k))
    BY <1>0, <1>1, <2>1, WithGood
  <2> QED BY <1>0, <1>2, <1>3, <1>4, <2>2, SendToClientGood
<1>5. CASE ~c.k.sock
  BY <1>0, <1>2, <1>3, <1>5, CloseGood, ClientErrorGood
<1> QED BY <1>4, <1>5

LEMMA AckWindowGood ==
  ASSUME NEW t \in TCP, NEW c, Good(t, c), c.k.status = "CONNECTED",
         NEW d \in ack_window(c)
  PROVE  Good(t, d) /\ d.k.status = "CONNECTED" /\ socks5_in_progress(d.k) = socks5_in_progress(c.k)
<1> DEFINE k == [c.k EXCEPT !.rd = TRUE]
<1>0. /\ t \in Tuples /\ c \in Shape(t) /\ c.k \in Connections(t) /\ Sound(t, c.k)
      /\ c.due = 1
  BY TuplesAssumption DEF Good, Shape, Open
<1>1. /\ k \in Connections(t) /\ k.status = "CONNECTED" /\ k.rd
      /\ k.sock = c.k.sock /\ k.wr = c.k.wr /\ k.queued = c.k.queued
      /\ k.fin_ack_sent = c.k.fin_ack_sent /\ k.syn_acks = c.k.syn_acks
      /\ k.proxied = c.k.proxied /\ k.established = c.k.established
      /\ k.client_closed = c.k.client_closed
  BY <1>0 DEF Connections
<1>2. d = c \/ (c.k.sock /\ d = With(c, k))
  BY DEF ack_window
<1> HIDE DEF k
<1>3. c.k.sock => Sound(t, k)
  BY <1>0, <1>1 DEF Sound, Waits, Early, Shaken, Open, socks5_in_progress, InProgress
<1>4. c.k.sock => Good(t, With(c, k))
  BY <1>0, <1>1, <1>3, WithGood
<1>5. With(c, k).k = k
  BY <1>0, <1>1, WithShape
<1> QED BY <1>1, <1>2, <1>4, <1>5 DEF socks5_in_progress

LEMMA ClientDataGood ==
  ASSUME NEW t \in TCP, NEW c, Good(t, c), c.k.status = "CONNECTED",
         NEW d \in client_data(t, c)
  PROVE  Good(t, d)
<1> DEFINE k == [c.k EXCEPT !.queued = TRUE, !.wr = TRUE]
<1>0. /\ t \in Tuples /\ c \in Shape(t) /\ c.k \in Connections(t) /\ Sound(t, c.k)
      /\ c.due = 1 /\ Closable(t, c) /\ Open(c.k)
  BY TuplesAssumption, GoodClosable DEF Good, Shape, Open
<1>1. /\ k \in Connections(t) /\ k.status = "CONNECTED" /\ k.wr /\ k.queued
      /\ k.sock = c.k.sock /\ k.rd = c.k.rd
      /\ k.fin_ack_sent = c.k.fin_ack_sent /\ k.syn_acks = c.k.syn_acks
      /\ k.proxied = c.k.proxied /\ k.established = c.k.established
      /\ k.client_closed = c.k.client_closed
  BY <1>0 DEF Connections
<1>2. \/ c.k.sock /\ d = With(c, k)
      \/ d \in zdtun_conn_close(t, c) \cup send_to_client(t, c)
  BY DEF client_data
<1> HIDE DEF k
<1>3. c.k.sock => Sound(t, k)
  BY <1>0, <1>1 DEF Sound, Waits, Early, Shaken, Open, socks5_in_progress, InProgress
<1>4. c.k.sock => Good(t, With(c, k))
  BY <1>0, <1>1, <1>3, WithGood
<1> QED BY <1>0, <1>2, <1>4, CloseGood, SendToClientGood

LEMMA TcpFwdGood ==
  ASSUME NEW t \in TCP, NEW c, Good(t, c), Open(c.k), NEW seg \in Segments,
         NEW d \in handle_tcp_fwd(t, c, seg)
  PROVE  Good(t, d)
<1> DEFINE acked == IF seg = "ACK" THEN ack_window(c) ELSE keep_alive(t, c)
           carried == UNION {{e} \cup (IF Open(e.k) THEN client_data(t, e) ELSE {}) :
                               e \in acked}
<1>0. t \in Tuples /\ Closable(t, c)
  BY TuplesAssumption, GoodClosable
<1>1. CASE d \in zdtun_conn_close(t, c) \cup {c}
  BY <1>0, <1>1, CloseGood
<1>2. CASE c.k.status = "NEW" /\ d \in tcp_connect(t, c)
  BY <1>2, TcpConnectGood
<1>3. CASE c.k.status = "CONNECTED" /\ d \in client_fin(t, c)
  BY <1>3, ClientFinGood
<1>4. CASE c.k.status = "CONNECTED" /\ d \in carried
  <2>1. \A e \in acked : Good(t, e) /\ (Open(e.k) => e.k.status = "CONNECTED")
    BY <1>0, <1>4, AckWindowGood, SendToClientGood DEF keep_alive
  <2> HIDE DEF acked
  <2>2. PICK e \in acked : d = e \/ (Open(e.k) /\ d \in client_data(t, e))
    BY <1>4
  <2> QED BY <2>1, <2>2, ClientDataGood
<1>5. \/ d \in zdtun_conn_close(t, c) \cup {c}
      \/ c.k.status = "NEW" /\ d \in tcp_connect(t, c)
      \/ c.k.status = "CONNECTED" /\ d \in client_fin(t, c)
      \/ c.k.status = "CONNECTED" /\ d \in carried
  <2>1. \/ handle_tcp_fwd(t, c, seg) \in {zdtun_conn_close(t, c), {c}}
        \/ c.k.status = "NEW" /\ handle_tcp_fwd(t, c, seg) = tcp_connect(t, c)
        \/ /\ ~(c.k.status = "CONNECTING") /\ ~(c.k.status = "NEW")
           /\ handle_tcp_fwd(t, c, seg) \in {client_fin(t, c), carried}
    BY Zenon DEF handle_tcp_fwd
  <2> HIDE DEF carried
  <2> QED BY <2>1 DEF Open
<1> QED BY <1>1, <1>2, <1>3, <1>4, <1>5

LEMMA UdpSendGood ==
  ASSUME NEW t \in UDP, NEW c, Good(t, c), c.k.status = "CONNECTED",
         NEW d \in udp_send(t, c)
  PROVE  Good(t, d)
<1> DEFINE q == IF c.k.pending_queries + 1 = QueryWrap THEN 0 ELSE c.k.pending_queries + 1
           k == [c.k EXCEPT !.pending_queries = q]
<1>0. /\ t \in Tuples /\ c \in Shape(t) /\ c.k \in Connections(t) /\ Sound(t, c.k)
      /\ c.due = 1 /\ Closable(t, c) /\ t \notin TCP
  BY TuplesAssumption, GoodClosable DEF Good, Shape, Open
<1>1. q \in 0 .. (QueryWrap - 1)
  <2>1. c.k.pending_queries \in 0 .. (QueryWrap - 1)
    BY <1>0 DEF Connections
  <2> QED BY <2>1, LimitsAssumption
<1>2. d \in zdtun_conn_close(t, c) \cup {c, With(c, k)}
  BY DEF udp_send
<1> HIDE DEF q
<1>3. /\ k \in Connections(t) /\ k.status = "CONNECTED" /\ k.sock = c.k.sock
      /\ k.rd = c.k.rd /\ k.wr = c.k.wr /\ k.queued = c.k.queued
  BY <1>0, <1>1 DEF Connections
<1> HIDE DEF k
<1>4. Sound(t, k)
  BY <1>0, <1>3 DEF Sound, Waits, Early, Open
<1> QED BY <1>0, <1>2, <1>3, <1>4, WithGood, CloseGood

(* A socket that is bound and connected at once, for UDP and ICMP.          *)
LEMMA OpenedGood ==
  ASSUME NEW t \in Tuples, t \notin TCP, NEW c, Good(t, c), c.k.status = "NEW"
  PROVE  LET o == open_socket(c)
             k == [o.k EXCEPT !.status = "CONNECTED"]
         IN  /\ Closable(t, o) /\ o.k.status = "NEW"
             /\ k \in Connections(t) /\ k.status = "CONNECTED" /\ Sound(t, k)
             /\ o \in Shape(t) /\ o.due = 1
<1> DEFINE o == open_socket(c)
           k == [o.k EXCEPT !.status = "CONNECTED"]
<1>0. c \in Shape(t) /\ c.k \in Connections(t) /\ Sound(t, c.k) /\ c.due = 1
  BY DEF Good, Shape, Open
<1>1. /\ o \in Shape(t) /\ o.k \in Connections(t) /\ o.due = 1
      /\ o.k = [c.k EXCEPT !.sock = TRUE, !.rd = TRUE]
  BY <1>0, OpenSocketShape
<1> HIDE DEF o
<1>2. /\ o.k.sock /\ o.k.rd /\ o.k.status = "NEW" /\ o.k.queued = c.k.queued
      /\ o.k.wr = c.k.wr
  BY <1>0, <1>1 DEF Connections
<1>3. /\ k \in Connections(t) /\ k.sock /\ k.rd /\ k.status = "CONNECTED"
      /\ k.queued = c.k.queued /\ k.wr = c.k.wr
  BY <1>1, <1>2 DEF Connections, Statuses
<1> HIDE DEF k
<1>4. Sound(t, k)
  BY <1>0, <1>3 DEF Sound, Waits, Early, Open, InProgress
<1> QED BY <1>1, <1>2, <1>3, <1>4 DEF Closable, o, k

LEMMA UdpFwdGood ==
  ASSUME NEW t \in UDP, NEW c, Good(t, c), Open(c.k), NEW d \in handle_udp_fwd(t, c)
  PROVE  Good(t, d)
<1>0. /\ t \in Tuples /\ Closable(t, c) /\ t \notin TCP
      /\ c.k.status \in {"NEW", "CONNECTED"}
  BY TuplesAssumption, GoodClosable DEF Good, Sound, Waits, Open
<1>1. CASE c.k.status = "CONNECTED"
  <2>1. d \in udp_send(t, c)
    BY <1>1 DEF handle_udp_fwd
  <2> QED BY <1>1, <2>1, UdpSendGood
<1>2. CASE c.k.status = "NEW"
  <2> DEFINE o == open_socket(c)
             k == [o.k EXCEPT !.status = "CONNECTED"]
             b == [With(o, k) EXCEPT !.uses = @ + 1]
  <2>1. /\ Closable(t, o) /\ o.k.status = "NEW"
        /\ k \in Connections(t) /\ k.status = "CONNECTED" /\ Sound(t, k)
        /\ o \in Shape(t) /\ o.due = 1
    BY <1>0, <1>2, OpenedGood
  <2>2. \/ d \in zdtun_conn_close(t, c)
        \/ \E e \in zdtun_conn_close(t, o) \cup {b} :
             d = e \/ (Open(e.k) /\ d \in udp_send(t, e))
    <3>1. bind_and_connect_udp(t, o) = zdtun_conn_close(t, o) \cup {b}
      BY DEF bind_and_connect_udp
    <3> HIDE DEF b, k
    <3>2. \/ d \in zdtun_conn_close(t, c)
          \/ d \in UNION {IF Open(e.k) THEN udp_send(t, e) ELSE {e} :
                            e \in bind_and_connect_udp(t, o)}
      BY <1>2 DEF handle_udp_fwd
    <3> HIDE DEF o
    <3>3. ASSUME NEW e \in bind_and_connect_udp(t, o),
                 d \in IF Open(e.k) THEN udp_send(t, e) ELSE {e}
          PROVE  d = e \/ (Open(e.k) /\ d \in udp_send(t, e))
      BY <3>3
    <3> QED BY <3>1, <3>2, <3>3
  <2> HIDE DEF o, k
  <2>3. Good(t, b) /\ b.k.status = "CONNECTED"
    <3>1. b = [k |-> k, open |-> o.open, uses |-> o.uses + 1, due |-> o.due]
      BY DEF With
    <3>2. b \in Shape(t)
      BY <2>1, <3>1 DEF Shape
    <3> QED BY <2>1, <3>1, <3>2 DEF Good
  <2> HIDE DEF b
  <2>4. Open(o.k)
    BY <2>1 DEF Open
  <2>5. \A e \in zdtun_conn_close(t, o) : Good(t, e) /\ ~Open(e.k)
    BY <1>0, <2>1, <2>4, CloseGood
  <2>6. \A e \in zdtun_conn_close(t, c) : Good(t, e)
    BY <1>0, CloseGood
  <2> QED BY <2>2, <2>3, <2>5, <2>6, UdpSendGood
<1> QED BY <1>0, <1>1, <1>2

LEMMA IcmpFwdGood ==
  ASSUME NEW t \in ICMP, NEW c, Good(t, c), Open(c.k), NEW d \in handle_icmp_fwd(t, c)
  PROVE  Good(t, d)
<1>0. t \in Tuples /\ Closable(t, c) /\ t \notin TCP
  BY GoodClosable DEF ICMP
<1>1. CASE c.k.status # "NEW"
  <2>1. d \in {c} \cup zdtun_conn_close(t, c)
    BY <1>1 DEF handle_icmp_fwd
  <2> QED BY <1>0, <2>1, CloseGood
<1>2. CASE c.k.status = "NEW"
  <2> DEFINE o == open_socket(c)
             k == [o.k EXCEPT !.status = "CONNECTED"]
  <2>1. /\ k \in Connections(t) /\ k.status = "CONNECTED" /\ Sound(t, k)
        /\ o \in Shape(t) /\ o.due = 1
    BY <1>0, <1>2, OpenedGood
  <2>2. d \in {no_socket(c), With(o, k)} \cup zdtun_conn_close(t, With(o, k))
    BY <1>2 DEF handle_icmp_fwd
  <2> HIDE DEF o, k
  <2>3. Good(t, With(o, k))
    BY <1>0, <2>1, WithGood
  <2> QED BY <1>0, <1>2, <2>2, <2>3, NoSocketGood, CloseGood, GoodClosable
<1> QED BY <1>1, <1>2

-----------------------------------------------------------------------------
(* Socket events: the connection has its socket.                            *)

LEMMA ServerClosedGood ==
  ASSUME NEW t \in TCP, NEW c, Good(t, c), c.k.sock, NEW d \in server_closed(t, c)
  PROVE  Good(t, d)
<1> DEFINE sent == IF c.k.fin_ack_sent THEN {c} ELSE send_to_client(t, c)
           half(e) == close_socket(With(e, [e.k EXCEPT !.fin_ack_sent = TRUE]))
<1>0. t \in Tuples /\ Open(c.k)
  BY TuplesAssumption DEF Good, Sound, Waits, Open, InProgress
<1>1. \A e \in sent : Good(t, e) /\ (e = c \/ ~Open(e.k))
  BY <1>0, SendToClientGood
<1>2. PICK e \in sent :
        d \in IF e.k.client_closed THEN zdtun_conn_close(t, half(e)) ELSE {half(e)}
  BY DEF server_closed
<1> HIDE DEF sent
<1> DEFINE m == [e.k EXCEPT !.fin_ack_sent = TRUE]
           n == half(e)
<1>3. /\ e \in Shape(t) /\ e.k \in Connections(t) /\ Sound(t, e.k)
      /\ e.k.rd => e.k.sock
      /\ e.k.wr => e.k.sock
  BY <1>0, <1>1, GoodClosable DEF Good, Closable
<1>4. /\ m \in Connections(t) /\ m.fin_ack_sent /\ m.status = e.k.status
      /\ m.sock = e.k.sock /\ m.rd = e.k.rd /\ m.wr = e.k.wr /\ m.queued = e.k.queued
      /\ m.syn_acks = e.k.syn_acks /\ m.proxied = e.k.proxied
      /\ m.established = e.k.established /\ m.client_closed = e.k.client_closed
  BY <1>3 DEF Connections
<1> HIDE DEF m, n, half
<1>5. With(e, m) \in Shape(t) /\ With(e, m).k = m /\ With(e, m).due = e.due
  BY <1>0, <1>3, <1>4, WithShape
<1>6. n = close_socket(With(e, m))
  BY DEF m, n, half
<1>7. /\ n \in Shape(t) /\ n.due = e.due /\ n.k \in Connections(t)
      /\ m.sock => n.k = [m EXCEPT !.sock = FALSE, !.rd = FALSE, !.wr = FALSE]
      /\ ~m.sock => n.k = m
  <2> DEFINE w == With(e, m)
  <2>1. w \in Shape(t) /\ w.k = m /\ w.due = e.due
    BY <1>5
  <2> HIDE DEF w
  <2>2. /\ close_socket(w) \in Shape(t) /\ close_socket(w).due = w.due
        /\ close_socket(w).k =
             IF w.k.sock THEN [w.k EXCEPT !.sock = FALSE, !.rd = FALSE, !.wr = FALSE]
             ELSE w.k
    BY <1>0, <2>1, CloseSocketShape
  <2>3. n = close_socket(w)
    BY <1>6 DEF w
  <2> QED BY <2>1, <2>2, <2>3 DEF Shape
<1>8. /\ n.k \in Connections(t) /\ n.k.fin_ack_sent /\ n.k.status = e.k.status
      /\ ~n.k.sock /\ ~n.k.rd /\ ~n.k.wr /\ n.k.queued = e.k.queued
      /\ n.k.syn_acks = e.k.syn_acks /\ n.k.proxied = e.k.proxied
      /\ n.k.established = e.k.established /\ n.k.client_closed = e.k.client_closed
  <2>1. CASE m.sock
    <3>1. m \in Connections(t)
      BY <1>4
    <3>2. n.k = [m EXCEPT !.sock = FALSE, !.rd = FALSE, !.wr = FALSE]
      BY <1>7, <2>1
    <3>3. /\ n.k.fin_ack_sent = m.fin_ack_sent /\ n.k.status = m.status
          /\ ~n.k.sock /\ ~n.k.rd /\ ~n.k.wr /\ n.k.queued = m.queued
          /\ n.k.syn_acks = m.syn_acks /\ n.k.proxied = m.proxied
          /\ n.k.established = m.established /\ n.k.client_closed = m.client_closed
      BY <3>1, <3>2 DEF Connections
    <3> QED BY <1>4, <1>7, <3>3
  <2>2. CASE ~m.sock
    BY <1>3, <1>4, <1>7, <2>2 DEF Connections
  <2> QED BY <2>1, <2>2
<1>9. Closable(t, n)
  BY <1>7, <1>8 DEF Closable
<1>10. ~Open(n.k) => Good(t, n)
  BY <1>3, <1>7, <1>8 DEF Good, Sound, Waits, Open, InProgress
<1>11. ~n.k.client_closed => Good(t, n)
  <2>1. CASE e = c /\ ~n.k.client_closed
    <3>1. Sound(t, n.k)
      BY <1>0, <1>3, <1>8, <2>1
         DEF Sound, Waits, Early, Shaken, Open, InProgress, socks5_in_progress
    <3> QED BY <1>0, <1>7, <2>1, <3>1 DEF Good
  <2>2. CASE ~Open(e.k)
    BY <1>8, <1>10, <2>2 DEF Open
  <2> QED BY <1>1, <2>1, <2>2
<1>12. d \in IF n.k.client_closed THEN zdtun_conn_close(t, n) ELSE {n}
  <2>1. e.k.client_closed = n.k.client_closed
    BY <1>8
  <2> QED BY <1>2, <2>1 DEF n
<1> QED BY <1>0, <1>9, <1>10, <1>11, <1>12, CloseGood

LEMMA Socks5ReplyGood ==
  ASSUME NEW t \in TCP, NEW c, Good(t, c), c.k.sock, socks5_in_progress(c.k),
         NEW d \in handle_socks5_reply(t, c)
  PROVE  Good(t, d)
<1> DEFINE k == [c.k EXCEPT !.established = TRUE]
           l == [k EXCEPT !.syn_acks = 1]
<1>0. /\ t \in Tuples /\ c \in Shape(t) /\ c.k \in Connections(t) /\ Sound(t, c.k)
      /\ Open(c.k) /\ c.due = 1 /\ Closable(t, c) /\ c.k.status \in InProgress
  BY TuplesAssumption, GoodClosable DEF Good, Shape, Sound, Waits, Open, InProgress
<1>1. \/ d \in {c} \cup zdtun_conn_close(t, c)
      \/ c.k.status = "CONNECTED" /\ d \in send_syn_ack(t, With(c, k))
  BY <1>0 DEF handle_socks5_reply, InProgress
<1>2. CASE c.k.status = "CONNECTED" /\ d \in send_syn_ack(t, With(c, k))
  <2>1. /\ k \in Connections(t) /\ k.status = "CONNECTED"
        /\ k.sock /\ k.rd = c.k.rd /\ k.wr = c.k.wr /\ k.queued = c.k.queued
        /\ k.fin_ack_sent = c.k.fin_ack_sent /\ k.syn_acks = c.k.syn_acks
        /\ k.established
    BY <1>0, <1>2 DEF Connections
  <2>2. /\ l.status = "CONNECTED" /\ l.sock /\ l.rd = c.k.rd /\ l.wr = c.k.wr
        /\ l.queued = c.k.queued /\ l.fin_ack_sent = c.k.fin_ack_sent
        /\ l.syn_acks = 1 /\ l.established
    <3> HIDE DEF k
    <3> QED BY <2>1 DEF Connections
  <2>3. c.k.syn_acks = 0 /\ ~c.k.fin_ack_sent
    BY <1>0, <1>2 DEF Sound, Shaken
  <2> HIDE DEF l
  <2>4. Sound(t, l)
    BY <1>0, <1>2, <2>2, <2>3
       DEF Sound, Waits, Early, Shaken, Open, InProgress, socks5_in_progress
  <2> HIDE DEF k
  <2>5. /\ With(c, k) \in Shape(t) /\ With(c, k).k = k /\ With(c, k).due = 1
        /\ Closable(t, With(c, k)) /\ Open(k)
    BY <1>0, <2>1, WithShape DEF Closable, Open
  <2> QED BY <1>0, <1>2, <2>1, <2>3, <2>4, <2>5, SendSynAckGood DEF l
<1> QED BY <1>0, <1>1, <1>2, CloseGood

LEMMA ServerDataGood ==
  ASSUME NEW t \in TCP, NEW c, Good(t, c), c.k.sock, NEW d \in server_data(t, c)
  PROVE  Good(t, d)
<1> DEFINE k == [c.k EXCEPT !.rd = FALSE]
<1>0. /\ t \in Tuples /\ c \in Shape(t) /\ c.k \in Connections(t) /\ Sound(t, c.k)
      /\ Open(c.k) /\ c.due = 1
  BY TuplesAssumption DEF Good, Shape, Sound, Waits, Open, InProgress
<1>1. /\ k \in Connections(t) /\ k.status = c.k.status /\ ~k.rd
      /\ k.sock = c.k.sock /\ k.wr = c.k.wr /\ k.queued = c.k.queued
      /\ k.fin_ack_sent = c.k.fin_ack_sent /\ k.syn_acks = c.k.syn_acks
      /\ k.proxied = c.k.proxied /\ k.established = c.k.established
      /\ k.client_closed = c.k.client_closed
  BY <1>0 DEF Connections
<1> HIDE DEF k
<1>2. Sound(t, k)
  BY <1>0, <1>1 DEF Sound, Waits, Early, Shaken, Open, InProgress, socks5_in_progress
<1>3. Good(t, With(c, k))
  BY <1>0, <1>1, <1>2, WithGood
<1>4. d \in send_to_client(t, c) \cup {With(c, k)}
  BY DEF server_data, k
<1> QED BY <1>0, <1>3, <1>4, SendToClientGood

LEMMA TcpReplyGood ==
  ASSUME NEW t \in TCP, NEW c, Good(t, c), c.k.sock, NEW d \in handle_tcp_reply(t, c)
  PROVE  Good(t, d)
<1>1. t \in Tuples /\ Closable(t, c)
  BY TuplesAssumption, GoodClosable
<1>2. \/ d \in zdtun_conn_close(t, c) \cup server_closed(t, c)
      \/ socks5_in_progress(c.k) /\ d \in handle_socks5_reply(t, c)
      \/ d \in server_data(t, c)
  BY DEF handle_tcp_reply
<1> QED BY <1>1, <1>2, CloseGood, ServerClosedGood, Socks5ReplyGood, ServerDataGood

LEMMA DnsPurgeGood ==
  ASSUME NEW t \in UDP, NEW c, Good(t, c), c.k.status = "CONNECTED",
         NEW d \in check_dns_purge(t, c)
  PROVE  Good(t, d)
<1> DEFINE q == c.k.pending_queries - 1
           k == [c.k EXCEPT !.pending_queries = q]
<1>0. /\ t \in Tuples /\ c \in Shape(t) /\ c.k \in Connections(t) /\ Sound(t, c.k)
      /\ c.due = 1 /\ Closable(t, c) /\ t \notin TCP
  BY TuplesAssumption, GoodClosable DEF Good, Shape, Open
<1>1. CASE c.k.pending_queries = 0 \/ t \notin DNS
  <2>1. d = c
    BY <1>1 DEF check_dns_purge
  <2> QED BY <2>1
<1>2. CASE c.k.pending_queries # 0 /\ t \in DNS
  <2>1. q \in 0 .. (QueryWrap - 1)
    <3>1. c.k.pending_queries \in 0 .. (QueryWrap - 1)
      BY <1>0 DEF Connections
    <3> QED BY <1>2, <3>1, LimitsAssumption
  <2>2. d \in {With(c, k)} \cup zdtun_conn_close(t, With(c, k))
    BY <1>2 DEF check_dns_purge
  <2> HIDE DEF q
  <2>3. /\ k \in Connections(t) /\ k.status = "CONNECTED" /\ k.sock = c.k.sock
        /\ k.rd = c.k.rd /\ k.wr = c.k.wr /\ k.queued = c.k.queued
    BY <1>0, <2>1 DEF Connections
  <2> HIDE DEF k
  <2>4. Sound(t, k)
    BY <1>0, <2>3 DEF Sound, Waits, Early, Open
  <2>5. Good(t, With(c, k))
    BY <1>0, <2>3, <2>4, WithGood
  <2> QED BY <1>0, <2>2, <2>5, CloseGood, GoodClosable
<1> QED BY <1>1, <1>2

LEMMA UdpReplyGood ==
  ASSUME NEW t \in UDP, NEW c, Good(t, c), c.k.sock, NEW d \in handle_udp_reply(t, c)
  PROVE  Good(t, d)
<1>0. /\ t \in Tuples /\ Closable(t, c) /\ Open(c.k) /\ c.k.status = "CONNECTED"
  BY TuplesAssumption, GoodClosable DEF Good, Sound, Waits, Open, InProgress
<1>1. Good(t, touch(c)) /\ touch(c).k.status = "CONNECTED"
  BY <1>0, TouchGood
<1>2. d \in zdtun_conn_close(t, c) \cup {client_error(t, c), touch(c)}
           \cup check_dns_purge(t, touch(c))
  BY DEF handle_udp_reply
<1> QED BY <1>0, <1>1, <1>2, CloseGood, ClientErrorGood, DnsPurgeGood

LEMMA IcmpReplyGood ==
  ASSUME NEW t \in ICMP, NEW c, Good(t, c), c.k.sock, NEW d \in handle_icmp_reply(t, c)
  PROVE  Good(t, d)
<1>0. /\ t \in Tuples /\ Closable(t, c) /\ Open(c.k)
  BY GoodClosable DEF Good, Sound, Waits, Open, InProgress, ICMP
<1>1. Good(t, touch(c)) /\ Open(touch(c).k)
  BY <1>0, TouchGood DEF Open
<1> QED BY <1>0, <1>1, CloseGood, SendToClientGood DEF handle_icmp_reply

LEMMA QueuedDataGood ==
  ASSUME NEW t \in TCP, NEW c, Good(t, c), c.k.sock, c.k.queued,
         NEW d \in handle_queued_tcp_data(t, c)
  PROVE  Good(t, d)
<1> DEFINE k == [c.k EXCEPT !.queued = FALSE, !.wr = FALSE]
<1>0. /\ t \in Tuples /\ c \in Shape(t) /\ c.k \in Connections(t) /\ Sound(t, c.k)
      /\ Closable(t, c) /\ Open(c.k) /\ c.due = 1 /\ c.k.status = "CONNECTED"
  BY TuplesAssumption, GoodClosable
     DEF Good, Shape, Sound, Waits, Early, Open, InProgress
<1>1. /\ k \in Connections(t) /\ k.status = c.k.status /\ ~k.wr /\ ~k.queued
      /\ k.sock = c.k.sock /\ k.rd = c.k.rd
      /\ k.fin_ack_sent = c.k.fin_ack_sent /\ k.syn_acks = c.k.syn_acks
      /\ k.proxied = c.k.proxied /\ k.established = c.k.established
      /\ k.client_closed = c.k.client_closed
  BY <1>0 DEF Connections
<1>2. d \in zdtun_conn_close(t, c) \cup send_to_client(t, c) \cup send_to_client(t, With(c, k))
  BY DEF handle_queued_tcp_data
<1> HIDE DEF k
<1>3. Sound(t, k)
  BY <1>0, <1>1 DEF Sound, Waits, Early, Shaken, Open, InProgress, socks5_in_progress
<1>4. Good(t, With(c, k)) /\ Open(With(c, k).k)
  BY <1>0, <1>1, <1>3, WithGood, WithShape DEF Open
<1> QED BY <1>0, <1>2, <1>4, CloseGood, SendToClientGood

LEMMA ConnectAsyncGood ==
  ASSUME NEW t \in TCP, NEW c, Good(t, c), c.k.sock, c.k.wr, ~c.k.queued,
         NEW d \in handle_tcp_connect_async(t, c)
  PROVE  Good(t, d)
<1>0. t \in Tuples /\ Closable(t, c) /\ Connecting(t, c)
  BY TuplesAssumption, GoodClosable
     DEF Good, Sound, Waits, Early, Shaken, Open, InProgress, Connecting
<1>1. d \in zdtun_conn_close(t, c) \cup {touch(e) : e \in tcp_socket_syn(t, c)}
  BY DEF handle_tcp_connect_async
<1>2. \A e \in tcp_socket_syn(t, c) : Good(t, touch(e))
  BY <1>0, TcpSocketSynGood, TouchGood
<1> QED BY <1>0, <1>1, <1>2, CloseGood

-----------------------------------------------------------------------------
(* From the context back to the table. The types come from IInv.            *)

SInv == \A t \in Tuples : Sound(t, conn[t]) /\ (Open(conn[t]) => due[t] = 1)

LEMMA NewConnSound ==
  ASSUME NEW t \in Tuples
  PROVE  Sound(t, NoConn) /\ Sound(t, NewConn) /\ ~Open(NoConn)
BY DEF NoConn, NewConn, Sound, Waits, Early, Shaken, Open, InProgress

LEMMA ContextGood ==
  ASSUME IInv, SInv, NEW t \in Tuples
  PROVE  Good(t, Context(t)) /\ Context(t).k = conn[t]
<1>1. Port[t] \in Ports
  BY DEF Ports
<1>2. Context(t) \in Shape(t)
  BY <1>1, IInvImplies DEF TypeOK, Context, Shape
<1> QED BY <1>2 DEF Context, Good, SInv

LEMMA LeavesSInv ==
  ASSUME IInv, SInv, NEW t \in Tuples, NEW S, Leaves(t, S), \A c \in S : Good(t, c)
  PROVE  SInv'
<1>1. PICK c \in S : conn' = [conn EXCEPT ![t] = c.k] /\ due' = [due EXCEPT ![t] = c.due]
  BY DEF Leaves
<1>2. Good(t, c)
  BY <1>1
<1>3. conn'[t] = c.k /\ due'[t] = c.due
  BY <1>1 DEF IInv, Consistent
<1>4. \A u \in Tuples \ {t} : conn'[u] = conn[u] /\ due'[u] = due[u]
  BY <1>1 DEF IInv, Consistent
<1> QED BY <1>2, <1>3, <1>4 DEF SInv, Good

LEMMA DestroySound ==
  ASSUME IInv, SInv, NEW D, NEW R, NEW t \in Tuples
  PROVE  LET s == destroy(D, R) IN
         /\ Sound(t, s.conn[t]) /\ (Open(s.conn[t]) => s.due[t] = 1)
         /\ s.conn[t] \in {conn[t], NoConn}
<1> DEFINE s == destroy(D, R)
<1>1. /\ s.conn[t] = IF t \in D THEN NoConn ELSE conn[t]
      /\ t \notin D => s.due[t] = due[t]
  BY DEF destroy
<1> HIDE DEF s
<1>2. /\ Sound(t, s.conn[t]) /\ (Open(s.conn[t]) => s.due[t] = 1)
      /\ s.conn[t] \in {conn[t], NoConn}
  BY <1>1, NewConnSound DEF SInv
<1> QED BY <1>2 DEF s

LEMMA PurgedSound ==
  ASSUME IInv, SInv, NEW gone, NEW s \in Purged(gone), NEW t \in Tuples
  PROVE  /\ Sound(t, s.conn[t]) /\ (Open(s.conn[t]) => s.due[t] = 1)
         /\ s.conn[t] \in {conn[t], NoConn}
<1>1. \E D, R : s = destroy(D, R)
  BY DEF Purged
<1> QED BY <1>1, DestroySound

LEMMA ForwardSInv ==
  ASSUME IInv, SInv, NEW t \in Tuples, zdtun_forward(t)
  PROVE  SInv'
<1> DEFINE c == Context(t)
<1>1. Good(t, c) /\ Open(c.k)
  BY ContextGood DEF zdtun_forward
<1> HIDE DEF c
<1>2. ASSUME t \in TCP, NEW seg \in Segments,
             Leaves(t, {touch(d) : d \in handle_tcp_fwd(t, c, seg)})
      PROVE  SInv'
  <2>1. \A e \in {touch(d) : d \in handle_tcp_fwd(t, c, seg)} : Good(t, e)
    BY <1>1, <1>2, TcpFwdGood, TouchGood
  <2> QED BY <1>2, <2>1, LeavesSInv
<1>3. ASSUME t \in UDP, Leaves(t, {touch(d) : d \in handle_udp_fwd(t, c)}) PROVE SInv'
  <2>1. \A e \in {touch(d) : d \in handle_udp_fwd(t, c)} : Good(t, e)
    BY <1>1, <1>3, UdpFwdGood, TouchGood
  <2> QED BY <1>3, <2>1, LeavesSInv
<1>4. ASSUME t \in ICMP, Leaves(t, {touch(d) : d \in handle_icmp_fwd(t, c)}) PROVE SInv'
  <2>1. \A e \in {touch(d) : d \in handle_icmp_fwd(t, c)} : Good(t, e)
    BY <1>1, <1>4, IcmpFwdGood, TouchGood
  <2> QED BY <1>4, <2>1, LeavesSInv
<1> QED BY <1>2, <1>3, <1>4 DEF zdtun_forward, c

LEMMA HandleFdSInv ==
  ASSUME IInv, SInv, NEW t \in Tuples, zdtun_handle_fd(t)
  PROVE  SInv'
<1> DEFINE c == Context(t)
<1>1. Good(t, c) /\ c.k = conn[t] /\ c.k.sock
  BY ContextGood DEF zdtun_handle_fd
<1>2. \/ t \in TCP /\ Leaves(t, {touch(d) : d \in handle_tcp_reply(t, c)})
      \/ t \in UDP /\ Leaves(t, handle_udp_reply(t, c))
      \/ t \in ICMP /\ Leaves(t, handle_icmp_reply(t, c))
      \/ /\ t \in TCP /\ conn[t].queued /\ Leaves(t, handle_queued_tcp_data(t, c))
      \/ /\ t \in TCP /\ ~conn[t].queued /\ conn[t].wr
         /\ Leaves(t, handle_tcp_connect_async(t, c))
  BY Zenon DEF zdtun_handle_fd, c
<1> HIDE DEF c
<1>3. t \in TCP => \A e \in {touch(d) : d \in handle_tcp_reply(t, c)} : Good(t, e)
  BY <1>1, TcpReplyGood, TouchGood
<1>4. t \in UDP => \A e \in handle_udp_reply(t, c) : Good(t, e)
  BY <1>1, UdpReplyGood
<1>5. t \in ICMP => \A e \in handle_icmp_reply(t, c) : Good(t, e)
  BY <1>1, IcmpReplyGood
<1>6. t \in TCP /\ conn[t].queued => \A e \in handle_queued_tcp_data(t, c) : Good(t, e)
  BY <1>1, QueuedDataGood
<1>7. t \in TCP /\ ~conn[t].queued /\ conn[t].wr =>
        \A e \in handle_tcp_connect_async(t, c) : Good(t, e)
  BY <1>1, ConnectAsyncGood
<1> QED BY <1>2, <1>3, <1>4, <1>5, <1>6, <1>7, LeavesSInv

LEMMA LookupCreateSInv ==
  ASSUME IInv, SInv, NEW t \in Tuples, zdtun_lookup_create(t)
  PROVE  SInv'
<1>1. PICK s \in IF num_open_sockets >= MaxNumSockets
                 THEN Purged({t} \cap Live) ELSE {destroy({t}, {})} :
        \/ conn' = [s.conn EXCEPT ![t] = NewConn] /\ due' = [s.due EXCEPT ![t] = 1]
        \/ conn' = s.conn /\ due' = s.due
  BY Zenon DEF zdtun_lookup_create
<1>2. s \in Purged({t} \cap Live) \/ s = destroy({t}, {})
  OBVIOUS
<1>3. \A u \in Tuples : Sound(u, s.conn[u]) /\ (Open(s.conn[u]) => s.due[u] = 1)
  BY <1>2, PurgedSound, DestroySound
<1>4. DOMAIN s.conn = Tuples /\ DOMAIN s.due = Tuples
  <2>1. \E D, R : s = destroy(D, R)
    BY <1>2 DEF Purged
  <2> QED BY <2>1 DEF destroy
<1>5. CASE conn' = [s.conn EXCEPT ![t] = NewConn] /\ due' = [s.due EXCEPT ![t] = 1]
  <2>1. conn'[t] = NewConn /\ due'[t] = 1
    BY <1>4, <1>5
  <2>2. \A u \in Tuples \ {t} : conn'[u] = s.conn[u] /\ due'[u] = s.due[u]
    BY <1>4, <1>5
  <2> QED BY <1>3, <2>1, <2>2, NewConnSound DEF SInv
<1>6. CASE conn' = s.conn /\ due' = s.due
  BY <1>3, <1>6 DEF SInv
<1> QED BY <1>1, <1>5, <1>6

LEMMA TickSInv == ASSUME IInv, SInv, Tick PROVE SInv'
<1> SUFFICES ASSUME NEW t \in Tuples
             PROVE  Sound(t, conn'[t]) /\ (Open(conn'[t]) => due'[t] = 1)
  BY DEF SInv
<1>1. conn[t] \in Connections(t) /\ Sound(t, conn[t]) /\ (Open(conn[t]) => due[t] = 1)
  BY DEF IInv, Consistent, SInv
<1>2. CASE Open(conn[t]) /\ conn[t].idle < Timeout[t]
  <2>1. conn[t].idle + 1 \in 0 .. Timeout[t]
    BY <1>1, <1>2, LimitsAssumption DEF Connections
  <2>2. conn'[t] = [conn[t] EXCEPT !.idle = conn[t].idle + 1]
    BY <1>2 DEF Tick
  <2> QED BY <1>1, <1>2, <2>1, <2>2, IdleSound DEF Tick
<1>3. CASE ~(Open(conn[t]) /\ conn[t].idle < Timeout[t])
  BY <1>1, <1>3 DEF Tick
<1> QED BY <1>2, <1>3

LEMMA ProxySInv == ASSUME IInv, SInv, NEW t \in Tuples, zdtun_conn_proxy(t) PROVE SInv'
<1> DEFINE k == [conn[t] EXCEPT !.proxied = TRUE]
<1>1. conn[t] \in Connections(t) /\ Sound(t, conn[t]) /\ (Open(conn[t]) => due[t] = 1)
  BY DEF IInv, Consistent, SInv
<1>2. /\ k.status = "NEW" /\ conn[t].status = "NEW"
      /\ k.sock = conn[t].sock /\ k.rd = conn[t].rd /\ k.wr = conn[t].wr
      /\ k.queued = conn[t].queued /\ k.established = conn[t].established
      /\ k.fin_ack_sent = conn[t].fin_ack_sent /\ k.client_closed = conn[t].client_closed
      /\ k.syn_acks = conn[t].syn_acks
  BY <1>1 DEF Connections, zdtun_conn_proxy
<1>3. conn'[t] = k /\ \A u \in Tuples \ {t} : conn'[u] = conn[u]
  BY DEF zdtun_conn_proxy, IInv, Consistent
<1> HIDE DEF k
<1>4. Sound(t, k)
  BY <1>1, <1>2 DEF Sound, Waits, Early, Shaken, Open, InProgress
<1> QED BY <1>1, <1>2, <1>3, <1>4 DEF SInv, Open, zdtun_conn_proxy

LEMMA NextSInv == IInv /\ SInv /\ [Next]_vars => SInv'
<1> SUFFICES ASSUME IInv, SInv, [Next]_vars PROVE SInv'
  OBVIOUS
<1>1. ASSUME NEW t \in Tuples, zdtun_lookup(t) PROVE SInv'
  <2>1. conn'[t] = NoConn /\ \A u \in Tuples \ {t} : conn'[u] = conn[u]
    BY <1>1 DEF zdtun_lookup, IInv, Consistent
  <2> QED BY <1>1, <2>1, NewConnSound DEF zdtun_lookup, SInv
<1>2. ASSUME NEW t \in Tuples, zdtun_lookup_create(t) PROVE SInv'
  BY <1>2, LookupCreateSInv
<1>3. ASSUME NEW t \in Tuples, zdtun_conn_proxy(t) PROVE SInv'
  BY <1>3, ProxySInv
<1>4. ASSUME NEW t \in Tuples, zdtun_forward(t) PROVE SInv'
  BY <1>4, ForwardSInv
<1>5. ASSUME NEW t \in Tuples, close_spoofed_dns(t) PROVE SInv'
  <2>1. Good(t, Context(t))
    BY ContextGood
  <2>2. \A c \in zdtun_conn_close(t, Context(t)) : Good(t, c)
    BY <2>1, GoodClosable, CloseGood
  <2> QED BY <1>5, <2>2, LeavesSInv DEF close_spoofed_dns
<1>6. ASSUME NEW t \in Tuples, zdtun_handle_fd(t) PROVE SInv'
  BY <1>6, HandleFdSInv
<1>7. ASSUME zdtun_purge_expired PROVE SInv'
  <2>1. PICK s \in Purged({}) : conn' = s.conn /\ due' = s.due
    BY <1>7 DEF zdtun_purge_expired
  <2> QED BY <2>1, PurgedSound DEF SInv
<1>8. ASSUME zdtun_finalize PROVE SInv'
  <2>1. PICK R \in SUBSET Live :
          conn' = destroy(Live, R).conn /\ due' = destroy(Live, R).due
    BY <1>8 DEF zdtun_finalize
  <2> QED BY <2>1, DestroySound DEF SInv
<1>9. ASSUME zdtun_init PROVE SInv'
  BY <1>9, NewConnSound DEF zdtun_init, SInv
<1>10. ASSUME Tick PROVE SInv'
  BY <1>10, TickSInv
<1>11. CASE UNCHANGED vars
  BY <1>11 DEF vars, SInv
<1> QED BY <1>1, <1>2, <1>3, <1>4, <1>5, <1>6, <1>7, <1>8, <1>9, <1>10, <1>11 DEF Next

LEMMA SpecSInv == Spec => [](IInv /\ SInv)
<1>1. Init => IInv /\ SInv
  BY InitIInv, NewConnSound DEF Init, SInv
<1> QED BY <1>1, NextIInv, NextSInv, PTL DEF Spec

-----------------------------------------------------------------------------

(* What select waits on is what there is to do: after any handler, failure  *)
(* or purge, a socket is in write_fds exactly while it connects or has data *)
(* queued, and no closed one is in a set.                                  *)
THEOREM SelectSetsSafe == Spec => []SelectSets
<1>1. IInv /\ SInv => SelectSets
  <2> SUFFICES ASSUME IInv, SInv, NEW t \in Tuples
               PROVE  LET k == conn[t] IN
                      /\ k.wr <=> k.sock /\ (k.status = "CONNECTING" \/ k.queued)
                      /\ k.rd => k.sock
                      /\ k.sock => Open(k) /\ k.status # "NEW" /\ (k.rd \/ t \in TCP)
                      /\ k.status \in {"CONNECTING", "CONNECTED"} /\ t \notin TCP => k.sock
    BY DEF SelectSets
  <2> QED BY DEF SInv, Sound, Waits, Open, InProgress
<1> QED BY <1>1, SpecSInv, PTL

(* Whichever of the client and the server closes first, handle_tcp_fwd and  *)
(* handle_tcp_reply agree on who terminates the connection.                 *)
THEOREM HalfClosedSafe == Spec => []HalfClosed
<1>1. IInv /\ SInv => HalfClosed
  BY TuplesAssumption DEF SInv, Sound, Shaken, HalfClosed
<1> QED BY <1>1, SpecSInv, PTL

(* The client has its one SYN+ACK when the server has accepted, directly or *)
(* through the SOCKS5 proxy.                                               *)
THEOREM SynAckOnceSafe == Spec => []SynAckOnce
<1>1. IInv /\ SInv => SynAckOnce
  BY TuplesAssumption DEF SInv, Sound, Shaken, SynAckOnce
<1> QED BY <1>1, SpecSInv, PTL

(* The user data of a connection that can still be reached is not freed.    *)
THEOREM UserDataSafe == Spec => []UserDataAlive
<1>1. IInv /\ SInv => UserDataAlive
  BY DEF SInv, UserDataAlive
<1> QED BY <1>1, SpecSInv, PTL

-----------------------------------------------------------------------------
(* A step leaves a closed connection as it is, or takes it from the table.  *)
Final(t) ==
  conn[t].status = "CLOSED" =>
    conn'[t] \in {conn[t], NoConn, NewConn} /\ ~conn[t].sock /\ ~conn[t].queued

(* A step on one connection, which is not closed.                           *)
LEMMA OneFinal ==
  ASSUME IInv, SInv, NEW u \in Tuples, conn[u].status # "CLOSED",
         NEW k, conn' = [conn EXCEPT ![u] = k], NEW t \in Tuples
  PROVE  Final(t)
<1>1. t # u => conn'[t] = conn[t]
  BY DEF IInv, Consistent
<1> QED BY <1>1 DEF Final, SInv, Sound, Waits, InProgress

LEMMA SameFinal ==
  ASSUME SInv, NEW t \in Tuples, conn'[t] \in {conn[t], NoConn, NewConn}
  PROVE  Final(t)
BY DEF Final, SInv, Sound, Waits, InProgress

LEMMA StepFinal ==
  ASSUME IInv, SInv, Next, NEW t \in Tuples
  PROVE  Final(t)
<1>1. ASSUME NEW u \in Tuples, zdtun_lookup(u) PROVE Final(t)
  <2>1. conn'[t] \in {conn[t], NoConn}
    BY <1>1 DEF zdtun_lookup, IInv, Consistent
  <2> QED BY <2>1, SameFinal
<1>2. ASSUME NEW u \in Tuples, zdtun_lookup_create(u) PROVE Final(t)
  <2>1. PICK s \in IF num_open_sockets >= MaxNumSockets
                   THEN Purged({u} \cap Live) ELSE {destroy({u}, {})} :
          conn' = [s.conn EXCEPT ![u] = NewConn] \/ conn' = s.conn
    BY <1>2, Zenon DEF zdtun_lookup_create
  <2>2. s.conn[t] \in {conn[t], NoConn}
    BY PurgedSound, DestroySound
  <2>3. conn'[t] \in {s.conn[t], NewConn}
    <3>1. \E D, R : s = destroy(D, R)
      BY DEF Purged
    <3>2. DOMAIN s.conn = Tuples
      BY <3>1 DEF destroy
    <3> QED BY <2>1, <3>2
  <2> QED BY <2>2, <2>3, SameFinal
<1>3. ASSUME NEW u \in Tuples, zdtun_conn_proxy(u) PROVE Final(t)
  <2>1. conn[u].status # "CLOSED"
    BY <1>3 DEF zdtun_conn_proxy
  <2>2. \E k : conn' = [conn EXCEPT ![u] = k]
    BY <1>3 DEF zdtun_conn_proxy
  <2> QED BY <2>1, <2>2, OneFinal
<1>4. ASSUME NEW u \in Tuples,
             zdtun_forward(u) \/ close_spoofed_dns(u) \/ zdtun_handle_fd(u)
      PROVE  Final(t)
  <2>1. conn[u].status # "CLOSED"
    BY <1>4 DEF zdtun_forward, close_spoofed_dns, zdtun_handle_fd, Open,
                SInv, Sound, Waits, InProgress
  <2>2. \E S : Leaves(u, S)
    BY <1>4, Zenon DEF zdtun_forward, close_spoofed_dns, zdtun_handle_fd
  <2>3. \E k : conn' = [conn EXCEPT ![u] = k]
    BY <2>2 DEF Leaves
  <2> QED BY <2>1, <2>3, OneFinal
<1>5. ASSUME zdtun_purge_expired \/ zdtun_finalize PROVE Final(t)
  <2>1. \E D, R : conn' = destroy(D, R).conn
    BY <1>5 DEF zdtun_purge_expired, zdtun_finalize, Purged
  <2> QED BY <2>1, DestroySound, SameFinal
<1>6. CASE zdtun_init \/ Tick
  <2>1. conn[t].status = "CLOSED" => conn'[t] \in {conn[t], NoConn}
    BY <1>6 DEF zdtun_init, Tick, Open
  <2> QED BY <2>1, SameFinal DEF Final
<1> QED BY <1>1, <1>2, <1>3, <1>4, <1>5, <1>6 DEF Next

(* Once closed, a connection has neither socket nor queue, and no packet,   *)
(* event or timer changes it: it is only destroyed.                         *)
THEOREM ClosedFinal == Spec => ClosedIsFinal
<1>1. IInv /\ SInv /\ [Next]_vars =>
        [\A t \in Tuples :
           conn[t].status = "CLOSED" =>
             conn'[t] \in {conn[t], NoConn, NewConn} /\ ~conn[t].sock /\ ~conn[t].queued]_vars
  BY StepFinal DEF Final
<1> QED BY <1>1, SpecSInv, PTL DEF Spec, ClosedIsFinal
-----------------------------------------------------------------------------
(***************************************************************************)
(* Proof that no UDP mapping of Zdtun outlives the connections bound to    *)
(* it, for any set of tuples, limits and timeouts.                         *)
(*                                                                         *)
(* A handler works on one tuple, so the argument is about a context and    *)
(* `others`, the number of other connections bound to the same port: a     *)
(* mapping has at most one use more, and only if this one is bound too     *)
(* (Mapped). Connections of other protocols leave the uses alone.          *)
(***************************************************************************)

-----------------------------------------------------------------------------
(* TCP and ICMP: the mappings are left alone.                               *)

LEMMA ClosedUses ==
  ASSUME NEW t \in Tuples \ UDP, NEW c, NEW rst \in BOOLEAN
  PROVE  closed(t, c, rst).uses = c.uses
<1>1. unmap(t, c) = c
  BY DEF unmap
<1>2. close_socket(c).uses = c.uses
  BY DEF close_socket, With
<1> QED BY <1>1, <1>2 DEF closed, With

LEMMA CloseUses ==
  ASSUME NEW t \in Tuples \ UDP, NEW c, NEW d \in zdtun_conn_close(t, c)
  PROVE  d.uses = c.uses
BY ClosedUses DEF zdtun_conn_close

LEMMA WithUses ==
  ASSUME NEW c, NEW k
  PROVE  With(c, k).uses = c.uses
BY DEF With

LEMMA ClientErrorUses ==
  ASSUME NEW t \in Tuples \ UDP, NEW c
  PROVE  client_error(t, c).uses = c.uses
<1> DEFINE k == [c.k EXCEPT !.fin_ack_sent = @ \/ t \in TCP]
<1>1. client_error(t, c) = closed(t, With(c, k), TRUE)
  BY DEF client_error
<1> DEFINE w == With(c, k)
<1>2. w.uses = c.uses
  BY WithUses
<1> HIDE DEF w
<1>3. closed(t, w, TRUE).uses = w.uses
  BY ClosedUses
<1> QED BY <1>1, <1>2, <1>3 DEF w

LEMMA SendUses ==
  ASSUME NEW t \in Tuples \ UDP, NEW c, NEW d \in send_to_client(t, c)
  PROVE  d.uses = c.uses
BY ClientErrorUses DEF send_to_client

LEMMA SynAckUses ==
  ASSUME NEW t \in Tuples \ UDP, NEW c, NEW d \in send_syn_ack(t, c)
  PROVE  d.uses = c.uses
BY ClientErrorUses, WithUses DEF send_syn_ack

LEMMA TcpSocketSynUses ==
  ASSUME NEW t \in Tuples \ UDP, NEW c, NEW d \in tcp_socket_syn(t, c)
  PROVE  d.uses = c.uses
BY CloseUses, SynAckUses, WithUses DEF tcp_socket_syn

LEMMA OpenSocketUses ==
  ASSUME NEW c
  PROVE  open_socket(c).uses = c.uses
BY DEF open_socket, With

LEMMA NoSocketUses ==
  ASSUME NEW c
  PROVE  no_socket(c).uses = c.uses
BY WithUses DEF no_socket

LEMMA TcpConnectUses ==
  ASSUME NEW t \in Tuples \ UDP, NEW c, NEW d \in tcp_connect(t, c)
  PROVE  d.uses = c.uses
<1> DEFINE o == open_socket(c)
           k == [o.k EXCEPT !.status = "CONNECTING", !.wr = TRUE]
<1>1. d \in {no_socket(c), With(o, k)} \cup zdtun_conn_close(t, o) \cup tcp_socket_syn(t, o)
  BY DEF tcp_connect
<1>2. o.uses = c.uses
  BY OpenSocketUses
<1> HIDE DEF o, k
<1> QED BY <1>1, <1>2, NoSocketUses, WithUses, CloseUses, TcpSocketSynUses

LEMMA ClientDataUses ==
  ASSUME NEW t \in Tuples \ UDP, NEW c, NEW d \in client_data(t, c)
  PROVE  d.uses = c.uses
BY WithUses, CloseUses, SendUses DEF client_data

LEMMA ClientFinUses ==
  ASSUME NEW t \in Tuples \ UDP, NEW c, NEW d \in client_fin(t, c)
  PROVE  d.uses = c.uses
BY WithUses, CloseUses, SendUses, ClientErrorUses DEF client_fin

LEMMA TcpFwdUses ==
  ASSUME NEW t \in Tuples \ UDP, NEW c, NEW seg, NEW d \in handle_tcp_fwd(t, c, seg)
  PROVE  d.uses = c.uses
<1> DEFINE acked == IF seg = "ACK" THEN ack_window(c) ELSE keep_alive(t, c)
           carried == UNION {{e} \cup (IF Open(e.k) THEN client_data(t, e) ELSE {}) :
                               e \in acked}
<1>1. \A e \in acked : e.uses = c.uses
  BY SendUses, WithUses DEF keep_alive, ack_window
<1>2. \/ handle_tcp_fwd(t, c, seg) \in
            {zdtun_conn_close(t, c), {c}, client_fin(t, c), tcp_connect(t, c)}
      \/ handle_tcp_fwd(t, c, seg) = carried
  BY Zenon DEF handle_tcp_fwd
<1>3. ASSUME d \in carried PROVE d.uses = c.uses
  <2> HIDE DEF acked
  <2>1. PICK e \in acked : d = e \/ d \in client_data(t, e)
    BY <1>3
  <2> QED BY <1>1, <2>1, ClientDataUses
<1> HIDE DEF carried
<1> QED BY <1>2, <1>3, CloseUses, ClientFinUses, TcpConnectUses

LEMMA IcmpFwdUses ==
  ASSUME NEW t \in Tuples \ UDP, NEW c, NEW d \in handle_icmp_fwd(t, c)
  PROVE  d.uses = c.uses
<1> DEFINE o == open_socket(c)
           k == [o.k EXCEPT !.status = "CONNECTED"]
<1>1. \/ d \in {no_socket(c), With(o, k), c}
      \/ d \in zdtun_conn_close(t, With(o, k)) \cup zdtun_conn_close(t, c)
  BY DEF handle_icmp_fwd
<1>2. o.uses = c.uses
  BY OpenSocketUses
<1> HIDE DEF o, k
<1> QED BY <1>1, <1>2, NoSocketUses, WithUses, CloseUses

LEMMA TcpReplyUses ==
  ASSUME NEW t \in Tuples \ UDP, NEW c, NEW d \in handle_tcp_reply(t, c)
  PROVE  d.uses = c.uses
<1>1. ASSUME NEW e \in server_closed(t, c) PROVE e.uses = c.uses
  <2> DEFINE sent == IF c.k.fin_ack_sent THEN {c} ELSE send_to_client(t, c)
             half(f) == close_socket(With(f, [f.k EXCEPT !.fin_ack_sent = TRUE]))
  <2>1. PICK f \in sent :
          e \in IF f.k.client_closed THEN zdtun_conn_close(t, half(f)) ELSE {half(f)}
    BY <1>1 DEF server_closed
  <2>2. f.uses = c.uses
    BY SendUses
  <2>3. half(f).uses = f.uses
    BY DEF close_socket, With
  <2> HIDE DEF half, sent
  <2> QED BY <2>1, <2>2, <2>3, CloseUses
<1>2. ASSUME NEW e \in handle_socks5_reply(t, c) PROVE e.uses = c.uses
  BY <1>2, CloseUses, SynAckUses, WithUses DEF handle_socks5_reply
<1>3. ASSUME NEW e \in server_data(t, c) PROVE e.uses = c.uses
  BY <1>3, SendUses, WithUses DEF server_data
<1> QED BY <1>1, <1>2, <1>3, CloseUses DEF handle_tcp_reply

LEMMA TouchUses ==
  ASSUME NEW c
  PROVE  touch(c).uses = c.uses
BY WithUses DEF touch

LEMMA OtherRepliesUses ==
  ASSUME NEW t \in Tuples \ UDP, NEW c,
         NEW d \in handle_icmp_reply(t, c) \cup handle_queued_tcp_data(t, c)
                     \cup handle_tcp_connect_async(t, c)
  PROVE  d.uses = c.uses
<1>1. CASE d \in handle_icmp_reply(t, c)
  BY <1>1, CloseUses, SendUses, TouchUses DEF handle_icmp_reply
<1>2. CASE d \in handle_queued_tcp_data(t, c)
  BY <1>2, CloseUses, SendUses, WithUses DEF handle_queued_tcp_data
<1>3. CASE d \in handle_tcp_connect_async(t, c)
  BY <1>3, CloseUses, TcpSocketSynUses, TouchUses DEF handle_tcp_connect_async
<1> QED BY <1>1, <1>2, <1>3

-----------------------------------------------------------------------------
(* UDP: bind_and_connect_udp adds a use and the close takes one.            *)

Mapped(t, c, others) ==
  /\ c \in Shape(t) /\ c.uses \in Nat
  /\ c.uses <= others + Count(c.k.status = "CONNECTED")

LEMMA ClosedMapped ==
  ASSUME NEW t \in UDP, NEW others \in Nat, NEW c, Mapped(t, c, others),
         NEW rst \in BOOLEAN, Closable(t, c), Open(c.k)
  PROVE  Mapped(t, closed(t, c, rst), others)
<1> DEFINE u == unmap(t, c)
           d == closed(t, c, rst)
<1>1. t \in Tuples /\ c \in Shape(t) /\ c.uses \in Nat
  BY TuplesAssumption DEF Mapped
<1>2. Good(t, d) /\ ~Open(d.k)
  BY <1>1, ClosedGood
<1>3. u.uses = IF c.uses > 0 THEN c.uses - 1 ELSE c.uses
  BY <1>1 DEF unmap, Shape
<1>4. d.uses = u.uses
  <2> HIDE DEF u
  <2>1. close_socket(u).uses = u.uses
    BY DEF close_socket, With
  <2> HIDE DEF d
  <2>2. d = [With(close_socket(u), [close_socket(u).k EXCEPT
                    !.status = "CLOSED", !.queued = FALSE,
                    !.fin_ack_sent = @ \/ (t \in TCP /\ ~c.k.fin_ack_sent /\ ~rst),
                    !.idle = 0])
               EXCEPT !.due = @ - (IF t \in TCP /\ ~c.k.fin_ack_sent /\ ~rst THEN 2 ELSE 1)]
    BY DEF closed, d, u
  <2> QED BY <2>1, <2>2 DEF With
<1> HIDE DEF d, u
<1>5. c.uses <= others + 1
  BY <1>1 DEF Mapped, Count
<1>6. d.uses \in Nat /\ d.uses <= others
  BY <1>1, <1>3, <1>4, <1>5
<1>7. d.k.status # "CONNECTED" /\ d \in Shape(t)
  BY <1>2 DEF Open, Good
<1>8. Mapped(t, d, others)
  BY <1>6, <1>7 DEF Mapped, Count
<1> QED BY <1>8 DEF d

LEMMA CloseMapped ==
  ASSUME NEW t \in UDP, NEW others \in Nat, NEW c, Mapped(t, c, others),
         Closable(t, c), Open(c.k), NEW d \in zdtun_conn_close(t, c)
  PROVE  Mapped(t, d, others)
BY ClosedMapped DEF zdtun_conn_close

LEMMA WithMapped ==
  ASSUME NEW t \in UDP, NEW others \in Nat, NEW c, Mapped(t, c, others),
         NEW k \in Connections(t), k.status = c.k.status
  PROVE  Mapped(t, With(c, k), others)
<1>1. With(c, k) \in Shape(t) /\ With(c, k).k = k /\ With(c, k).uses = c.uses
  BY TuplesAssumption, WithShape, WithUses DEF Mapped
<1> QED BY <1>1 DEF Mapped

LEMMA ClientErrorMapped ==
  ASSUME NEW t \in UDP, NEW others \in Nat, NEW c, Mapped(t, c, others),
         Closable(t, c), Open(c.k)
  PROVE  Mapped(t, client_error(t, c), others)
<1> DEFINE k == [c.k EXCEPT !.fin_ack_sent = @ \/ t \in TCP]
           w == With(c, k)
<1>1. c \in Shape(t) /\ c.k \in Connections(t) /\ t \in Tuples
  BY TuplesAssumption DEF Closable, Shape
<1>2. /\ k \in Connections(t) /\ k.status = c.k.status
      /\ k.rd = c.k.rd /\ k.wr = c.k.wr /\ k.sock = c.k.sock
  BY <1>1 DEF Connections
<1>3. client_error(t, c) = closed(t, w, TRUE)
  BY DEF client_error
<1> HIDE DEF k
<1>4. Closable(t, w) /\ Open(w.k) /\ Mapped(t, w, others)
  BY <1>1, <1>2, WithShape, WithMapped DEF Closable, Open
<1> HIDE DEF w
<1> QED BY <1>3, <1>4, ClosedMapped

LEMMA TouchMapped ==
  ASSUME NEW t \in UDP, NEW others \in Nat, NEW c, Mapped(t, c, others)
  PROVE  Mapped(t, touch(c), others)
<1> DEFINE k == [c.k EXCEPT !.idle = 0]
<1>1. t \in Tuples /\ c.k \in Connections(t)
  BY TuplesAssumption DEF Mapped, Shape
<1>2. k \in Connections(t) /\ k.status = c.k.status
  <2>1. 0 \in 0 .. Timeout[t]
    BY <1>1, LimitsAssumption
  <2> QED BY <1>1, <2>1 DEF Connections
<1> QED BY <1>2, WithMapped DEF touch

LEMMA UdpSendMapped ==
  ASSUME NEW t \in UDP, NEW others \in Nat, NEW c, Mapped(t, c, others), Good(t, c),
         Open(c.k), NEW d \in udp_send(t, c)
  PROVE  Mapped(t, d, others)
<1> DEFINE q == IF c.k.pending_queries + 1 = QueryWrap THEN 0 ELSE c.k.pending_queries + 1
           k == [c.k EXCEPT !.pending_queries = q]
<1>0. t \in Tuples /\ c.k \in Connections(t) /\ Closable(t, c)
  BY TuplesAssumption, GoodClosable
<1>1. q \in 0 .. (QueryWrap - 1)
  <2>1. c.k.pending_queries \in 0 .. (QueryWrap - 1)
    BY <1>0 DEF Connections
  <2> QED BY <2>1, LimitsAssumption
<1>2. d \in zdtun_conn_close(t, c) \cup {c, With(c, k)}
  BY DEF udp_send
<1> HIDE DEF q
<1>3. k \in Connections(t) /\ k.status = c.k.status
  BY <1>0, <1>1 DEF Connections
<1> HIDE DEF k
<1> QED BY <1>0, <1>2, <1>3, WithMapped, CloseMapped

LEMMA UdpFwdMapped ==
  ASSUME NEW t \in UDP, NEW others \in Nat, NEW c, Mapped(t, c, others), Good(t, c),
         Open(c.k), NEW d \in handle_udp_fwd(t, c)
  PROVE  Mapped(t, d, others)
<1>0. /\ t \in Tuples /\ Closable(t, c) /\ t \notin TCP /\ c \in Shape(t)
  BY TuplesAssumption, GoodClosable DEF Good
<1>1. CASE c.k.status # "NEW"
  <2>1. d \in udp_send(t, c)
    BY <1>1 DEF handle_udp_fwd
  <2> QED BY <2>1, UdpSendMapped
<1>2. CASE c.k.status = "NEW"
  <2> DEFINE o == open_socket(c)
             k == [o.k EXCEPT !.status = "CONNECTED"]
             b == [With(o, k) EXCEPT !.uses = @ + 1]
  <2>1. /\ Closable(t, o) /\ o.k.status = "NEW"
        /\ k \in Connections(t) /\ k.status = "CONNECTED" /\ Sound(t, k)
        /\ o \in Shape(t) /\ o.due = 1
    BY <1>0, <1>2, OpenedGood
  <2>2. o.uses = c.uses
    BY OpenSocketUses
  <2>3. \/ d \in zdtun_conn_close(t, c)
        \/ \E e \in zdtun_conn_close(t, o) \cup {b} :
             d = e \/ (Open(e.k) /\ d \in udp_send(t, e))
    <3>1. bind_and_connect_udp(t, o) = zdtun_conn_close(t, o) \cup {b}
      BY DEF bind_and_connect_udp
    <3> HIDE DEF b, k
    <3>2. \/ d \in zdtun_conn_close(t, c)
          \/ d \in UNION {IF Open(e.k) THEN udp_send(t, e) ELSE {e} :
                            e \in bind_and_connect_udp(t, o)}
      BY <1>2 DEF handle_udp_fwd
    <3> HIDE DEF o
    <3>3. ASSUME NEW e \in bind_and_connect_udp(t, o),
                 d \in IF Open(e.k) THEN udp_send(t, e) ELSE {e}
          PROVE  d = e \/ (Open(e.k) /\ d \in udp_send(t, e))
      BY <3>3
    <3> QED BY <3>1, <3>2, <3>3
  <2> HIDE DEF o, k
  <2>4. Mapped(t, o, others) /\ Open(o.k) /\ c.uses \in Nat /\ c.uses <= others
    BY <1>2, <2>1, <2>2 DEF Mapped, Open, Count
  <2>5. Good(t, b) /\ Mapped(t, b, others) /\ Open(b.k)
    <3>1. b = [k |-> k, open |-> o.open, uses |-> o.uses + 1, due |-> o.due]
      BY DEF With
    <3>2. b \in Shape(t)
      BY <2>1, <3>1 DEF Shape
    <3>3. b.uses = c.uses + 1 /\ b.k = k /\ b.due = 1
      BY <2>1, <2>2, <3>1
    <3> HIDE DEF b
    <3> QED BY <2>1, <2>4, <3>2, <3>3 DEF Good, Mapped, Open, Count
  <2> HIDE DEF b
  <2>6. \A e \in zdtun_conn_close(t, o) : Mapped(t, e, others) /\ ~Open(e.k)
    BY <1>0, <2>1, <2>4, CloseMapped, CloseGood
  <2>7. \A e \in zdtun_conn_close(t, c) : Mapped(t, e, others)
    BY <1>0, CloseMapped
  <2> QED BY <2>3, <2>5, <2>6, <2>7, UdpSendMapped
<1> QED BY <1>1, <1>2

LEMMA UdpReplyMapped ==
  ASSUME NEW t \in UDP, NEW others \in Nat, NEW c, Mapped(t, c, others), Good(t, c),
         Open(c.k), NEW d \in handle_udp_reply(t, c)
  PROVE  Mapped(t, d, others)
<1> DEFINE e == touch(c)
           q == e.k.pending_queries - 1
           k == [e.k EXCEPT !.pending_queries = q]
<1>0. t \in Tuples /\ Closable(t, c)
  BY TuplesAssumption, GoodClosable
<1>1. Good(t, e) /\ Mapped(t, e, others) /\ Open(e.k) /\ e.k \in Connections(t) /\ Closable(t, e)
  BY <1>0, TouchGood, TouchMapped, GoodClosable DEF Open
<1>2. \/ d \in zdtun_conn_close(t, c) \cup {client_error(t, c), e}
      \/ /\ e.k.pending_queries # 0
         /\ d \in {With(e, k)} \cup zdtun_conn_close(t, With(e, k))
  <2> HIDE DEF e
  <2>1. d \in zdtun_conn_close(t, c) \cup {client_error(t, c), e} \cup check_dns_purge(t, e)
    BY DEF handle_udp_reply, e
  <2> QED BY <2>1 DEF check_dns_purge
<1> HIDE DEF e
<1>3. ASSUME e.k.pending_queries # 0
      PROVE  Mapped(t, With(e, k), others) /\ Closable(t, With(e, k)) /\ Open(With(e, k).k)
  <2>1. q \in 0 .. (QueryWrap - 1)
    <3>1. e.k.pending_queries \in 0 .. (QueryWrap - 1)
      BY <1>1 DEF Connections
    <3> QED BY <1>3, <3>1, LimitsAssumption
  <2> HIDE DEF q
  <2>2. /\ k \in Connections(t) /\ k.status = e.k.status
        /\ k.rd = e.k.rd /\ k.wr = e.k.wr /\ k.sock = e.k.sock
    BY <1>1, <2>1 DEF Connections
  <2> HIDE DEF k
  <2> QED BY <1>0, <1>1, <2>2, WithMapped, WithShape DEF Closable, Open
<1> HIDE DEF k
<1> QED BY <1>0, <1>1, <1>2, <1>3, CloseMapped, ClientErrorMapped

-----------------------------------------------------------------------------
(* From the context back to the table.                                      *)

BoundTo(p, cn) == {t \in UDP : Port[t] = p /\ cn[t].status = "CONNECTED"}

LEMMA BoundFinite ==
  ASSUME NEW p, NEW cn
  PROVE  IsFiniteSet(BoundTo(p, cn)) /\ Cardinality(BoundTo(p, cn)) \in Nat
BY TuplesAssumption, FS_Subset, FS_CardinalityType DEF BoundTo

LEMMA LeavesMapped ==
  ASSUME IInv, MappingNotLeaked, NEW t \in Tuples, NEW S, Leaves(t, S),
         t \in UDP =>
           \A c \in S : Mapped(t, c, Cardinality(BoundTo(Port[t], conn) \ {t})),
         t \notin UDP => \A c \in S : c.uses = udp_mappings[Port[t]]
  PROVE  MappingNotLeaked'
<1> DEFINE B(p) == BoundTo(p, conn)
<1>0. Port[t] \in Ports /\ \A p \in Ports : udp_mappings[p] <= Cardinality(B(p))
  BY DEF Ports, MappingNotLeaked, BoundTo
<1>1. PICK c \in S : /\ conn' = [conn EXCEPT ![t] = c.k]
                     /\ udp_mappings' = [udp_mappings EXCEPT ![Port[t]] = c.uses]
  BY DEF Leaves
<1>2. /\ conn'[t] = c.k
      /\ \A u \in Tuples \ {t} : conn'[u] = conn[u]
      /\ udp_mappings'[Port[t]] = c.uses
      /\ \A p \in Ports \ {Port[t]} : udp_mappings'[p] = udp_mappings[p]
  BY <1>0, <1>1 DEF IInv, Consistent
<1>3. ASSUME NEW p \in Ports
      PROVE  udp_mappings'[p] <= Cardinality(BoundTo(p, conn'))
  <2>1. CASE p # Port[t]
    <3>1. BoundTo(p, conn') = B(p)
      BY <1>2, <2>1, TuplesAssumption DEF BoundTo
    <3> QED BY <1>0, <1>2, <2>1, <3>1
  <2>2. CASE p = Port[t] /\ t \notin UDP
    <3>1. BoundTo(p, conn') = B(p)
      BY <1>2, <2>2, TuplesAssumption DEF BoundTo
    <3> QED BY <1>0, <1>2, <2>2, <3>1
  <2>3. CASE p = Port[t] /\ t \in UDP
    <3> DEFINE R == B(p) \ {t}
    <3>1. Mapped(t, c, Cardinality(R))
      BY <2>3
    <3>2. IsFiniteSet(R) /\ Cardinality(R) \in Nat /\ t \notin R
      BY BoundFinite, FS_RemoveElement, FS_CardinalityType, FS_Subset
    <3>3. CASE c.k.status = "CONNECTED"
      <4>1. BoundTo(p, conn') = R \cup {t}
        BY <1>2, <2>3, <3>3, TuplesAssumption DEF BoundTo
      <4>2. Cardinality(R \cup {t}) = Cardinality(R) + 1
        BY <3>2, FS_AddElement
      <4> HIDE DEF R
      <4> QED BY <1>2, <2>3, <3>1, <3>3, <4>1, <4>2 DEF Mapped, Count
    <3>4. CASE c.k.status # "CONNECTED"
      <4>1. BoundTo(p, conn') = R
        BY <1>2, <2>3, <3>4, TuplesAssumption DEF BoundTo
      <4> HIDE DEF R
      <4> QED BY <1>2, <2>3, <3>1, <3>2, <3>4, <4>1 DEF Mapped, Count
    <3> QED BY <3>3, <3>4
  <2> QED BY <2>1, <2>2, <2>3
<1> QED BY <1>3 DEF MappingNotLeaked, BoundTo

LEMMA ContextMapped ==
  ASSUME IInv, SInv, MappingNotLeaked, NEW t \in UDP
  PROVE  /\ Cardinality(BoundTo(Port[t], conn) \ {t}) \in Nat
         /\ Mapped(t, Context(t), Cardinality(BoundTo(Port[t], conn) \ {t}))
<1> DEFINE B == BoundTo(Port[t], conn)
<1>0. t \in Tuples /\ Port[t] \in Ports
  BY TuplesAssumption DEF Ports
<1>1. IsFiniteSet(B) /\ Cardinality(B) \in Nat
  BY BoundFinite
<1>2. Cardinality(B \ {t}) \in Nat
  BY <1>1, FS_RemoveElement, FS_CardinalityType
<1>3. Cardinality(B \ {t}) = IF t \in B THEN Cardinality(B) - 1 ELSE Cardinality(B)
  BY <1>1, FS_RemoveElement
<1>4. t \in B <=> conn[t].status = "CONNECTED"
  BY DEF BoundTo
<1>5. udp_mappings[Port[t]] \in Nat /\ udp_mappings[Port[t]] <= Cardinality(B)
  BY <1>0 DEF IInv, Consistent, MappingNotLeaked, BoundTo
<1>6. /\ Context(t) \in Shape(t) /\ Context(t).k = conn[t]
      /\ Context(t).uses = udp_mappings[Port[t]]
  BY <1>0, ContextGood DEF Good, Context
<1> HIDE DEF B
<1>7. Mapped(t, Context(t), Cardinality(B \ {t}))
  BY <1>1, <1>3, <1>4, <1>5, <1>6 DEF Mapped, Count
<1> QED BY <1>2, <1>7 DEF B

(* A destroyed connection that was bound takes its use along.               *)
LEMMA DestroyMapped ==
  ASSUME IInv, MappingNotLeaked, NEW D, NEW R, NEW p \in Ports
  PROVE  LET s == destroy(D, R) IN s.mappings[p] <= Cardinality(BoundTo(p, s.conn))
<1> DEFINE s == destroy(D, R)
           B == BoundTo(p, conn)
           E == {t \in {u \in D : Open(conn[u])} \cap UDP : Port[t] = p}
<1>1. s.mappings[p] = IF udp_mappings[p] > Cardinality(E)
                      THEN udp_mappings[p] - Cardinality(E) ELSE 0
  BY DEF destroy
<1>2. \A t \in Tuples : s.conn[t] = IF t \in D THEN NoConn ELSE conn[t]
  BY DEF destroy
<1> HIDE DEF s
<1>3. BoundTo(p, s.conn) = B \ D
  BY <1>2, NewConnType, TuplesAssumption DEF BoundTo
<1>4. B \cap D \subseteq E
  BY DEF BoundTo, Open
<1>5. /\ IsFiniteSet(B) /\ Cardinality(B) \in Nat
      /\ IsFiniteSet(E) /\ Cardinality(E) \in Nat
  BY BoundFinite, TuplesAssumption, FS_Subset, FS_CardinalityType
<1> HIDE DEF E
<1>6. /\ Cardinality(B \cap D) <= Cardinality(E)
      /\ IsFiniteSet(B \cap D) /\ Cardinality(B \cap D) \in Nat
  BY <1>4, <1>5, FS_Subset, FS_CardinalityType
<1>7. /\ Cardinality(B \ D) = Cardinality(B) - Cardinality(B \cap D)
      /\ Cardinality(B \ D) \in Nat
  BY <1>5, FS_Difference, FS_CardinalityType
<1>8. udp_mappings[p] \in Nat /\ udp_mappings[p] <= Cardinality(B)
  BY DEF IInv, Consistent, MappingNotLeaked, BoundTo
<1> HIDE DEF B
<1>9. s.mappings[p] <= Cardinality(BoundTo(p, s.conn))
  BY <1>1, <1>3, <1>5, <1>6, <1>7, <1>8
<1> QED BY <1>9 DEF s

LEMMA PurgedMapped ==
  ASSUME IInv, MappingNotLeaked, NEW gone, NEW s \in Purged(gone), NEW p \in Ports
  PROVE  s.mappings[p] <= Cardinality(BoundTo(p, s.conn))
<1>1. \E D, R : s = destroy(D, R)
  BY DEF Purged
<1> QED BY <1>1, DestroyMapped

(* Steps that bind no connection and unbind none.                           *)
LEMMA SameBound ==
  ASSUME MappingNotLeaked, UNCHANGED udp_mappings,
         \A t \in UDP : conn'[t].status = "CONNECTED" <=> conn[t].status = "CONNECTED"
  PROVE  MappingNotLeaked'
<1>1. \A p \in Ports : BoundTo(p, conn') = BoundTo(p, conn)
  BY DEF BoundTo
<1>2. \A p \in Ports : udp_mappings[p] <= Cardinality(BoundTo(p, conn))
  BY DEF MappingNotLeaked, BoundTo
<1>3. \A p \in Ports : udp_mappings'[p] <= Cardinality(BoundTo(p, conn'))
  BY <1>1, <1>2
<1> QED BY <1>3 DEF MappingNotLeaked, BoundTo

LEMMA ForwardMapped ==
  ASSUME IInv, SInv, MappingNotLeaked, NEW t \in Tuples, zdtun_forward(t)
  PROVE  MappingNotLeaked'
<1> DEFINE c == Context(t)
           n == Cardinality(BoundTo(Port[t], conn) \ {t})
<1>1. Good(t, c) /\ Open(c.k) /\ c.uses = udp_mappings[Port[t]]
  BY ContextGood DEF zdtun_forward, Context
<1>2. t \in UDP => n \in Nat /\ Mapped(t, c, n)
  BY ContextMapped
<1> HIDE DEF c, n
<1>3. ASSUME t \in TCP, NEW seg \in Segments,
             Leaves(t, {touch(d) : d \in handle_tcp_fwd(t, c, seg)})
      PROVE  MappingNotLeaked'
  <2>0. t \in Tuples \ UDP
    BY <1>3, TuplesAssumption
  <2>1. \A e \in {touch(d) : d \in handle_tcp_fwd(t, c, seg)} : e.uses = c.uses
    BY <2>0, TcpFwdUses, TouchUses
  <2> QED BY <1>1, <1>3, <2>0, <2>1, LeavesMapped
<1>4. ASSUME t \in UDP, Leaves(t, {touch(d) : d \in handle_udp_fwd(t, c)})
      PROVE  MappingNotLeaked'
  <2>1. \A e \in {touch(d) : d \in handle_udp_fwd(t, c)} : Mapped(t, e, n)
    BY <1>1, <1>2, <1>4, UdpFwdMapped, TouchMapped
  <2> QED BY <1>4, <2>1, LeavesMapped DEF n
<1>5. ASSUME t \in ICMP, Leaves(t, {touch(d) : d \in handle_icmp_fwd(t, c)})
      PROVE  MappingNotLeaked'
  <2>0. t \in Tuples \ UDP
    BY <1>5 DEF ICMP
  <2>1. \A e \in {touch(d) : d \in handle_icmp_fwd(t, c)} : e.uses = c.uses
    BY <2>0, IcmpFwdUses, TouchUses
  <2> QED BY <1>1, <1>5, <2>0, <2>1, LeavesMapped
<1> QED BY <1>3, <1>4, <1>5 DEF zdtun_forward, c

LEMMA HandleFdMapped ==
  ASSUME IInv, SInv, MappingNotLeaked, NEW t \in Tuples, zdtun_handle_fd(t)
  PROVE  MappingNotLeaked'
<1> DEFINE c == Context(t)
           n == Cardinality(BoundTo(Port[t], conn) \ {t})
<1>1. Good(t, c) /\ Open(c.k) /\ c.uses = udp_mappings[Port[t]]
  BY ContextGood DEF zdtun_handle_fd, Context, Good, Sound, Waits, InProgress, Open
<1>2. t \in UDP => n \in Nat /\ Mapped(t, c, n)
  BY ContextMapped
<1>3. \/ t \in TCP /\ Leaves(t, {touch(d) : d \in handle_tcp_reply(t, c)})
      \/ t \in UDP /\ Leaves(t, handle_udp_reply(t, c))
      \/ t \in ICMP /\ Leaves(t, handle_icmp_reply(t, c))
      \/ t \in TCP /\ Leaves(t, handle_queued_tcp_data(t, c))
      \/ t \in TCP /\ Leaves(t, handle_tcp_connect_async(t, c))
  BY Zenon DEF zdtun_handle_fd, c
<1> HIDE DEF c, n
<1>4. CASE t \in UDP /\ Leaves(t, handle_udp_reply(t, c))
  <2>1. \A e \in handle_udp_reply(t, c) : Mapped(t, e, n)
    BY <1>1, <1>2, <1>4, UdpReplyMapped
  <2> QED BY <1>4, <2>1, LeavesMapped DEF n
<1>5. CASE t \notin UDP
  <2>1. t \in Tuples \ UDP
    BY <1>5
  <2>2. \A e \in {touch(d) : d \in handle_tcp_reply(t, c)} : e.uses = c.uses
    BY <2>1, TcpReplyUses, TouchUses
  <2>3. \A e \in handle_icmp_reply(t, c) \cup handle_queued_tcp_data(t, c)
                   \cup handle_tcp_connect_async(t, c) : e.uses = c.uses
    BY <2>1, OtherRepliesUses
  <2>4. PICK S : /\ Leaves(t, S)
                 /\ S = {touch(d) : d \in handle_tcp_reply(t, c)}
                    \/ S \in {handle_icmp_reply(t, c), handle_queued_tcp_data(t, c),
                              handle_tcp_connect_async(t, c)}
    BY <1>3, <1>5
  <2>5. \A e \in S : e.uses = udp_mappings[Port[t]]
    BY <1>1, <2>2, <2>3, <2>4
  <2> QED BY <2>1, <2>4, <2>5, LeavesMapped
<1>6. t \in TCP \cup ICMP => t \notin UDP
  BY TuplesAssumption DEF ICMP
<1> QED BY <1>3, <1>4, <1>5, <1>6

LEMMA LookupCreateMapped ==
  ASSUME IInv, SInv, MappingNotLeaked, NEW t \in Tuples, zdtun_lookup_create(t)
  PROVE  MappingNotLeaked'
<1>1. PICK s \in IF num_open_sockets >= MaxNumSockets
                 THEN Purged({t} \cap Live) ELSE {destroy({t}, {})} :
        /\ conn' = [s.conn EXCEPT ![t] = NewConn] \/ conn' = s.conn
        /\ udp_mappings' = s.mappings
  BY Zenon DEF zdtun_lookup_create
<1>2. s \in Purged({t} \cap Live) \/ s = destroy({t}, {})
  OBVIOUS
<1>3. \A p \in Ports : s.mappings[p] <= Cardinality(BoundTo(p, s.conn))
  BY <1>2, PurgedMapped, DestroyMapped
<1>4. DOMAIN s.conn = Tuples
  <2>1. \E D, R : s = destroy(D, R)
    BY <1>2 DEF Purged
  <2> QED BY <2>1 DEF destroy
<1>5. s.conn[t].status # "CONNECTED"
  <2>1. ~Open(conn[t])
    BY DEF zdtun_lookup_create
  <2>2. s.conn[t] \in {conn[t], NoConn}
    BY <1>2, PurgedSound, DestroySound
  <2> QED BY <2>1, <2>2, NewConnSound DEF Open
<1>6. \A u \in UDP : conn'[u].status = "CONNECTED" <=> s.conn[u].status = "CONNECTED"
  BY <1>1, <1>4, <1>5, NewConnType, TuplesAssumption
<1>7. \A p \in Ports : BoundTo(p, conn') = BoundTo(p, s.conn)
  BY <1>6 DEF BoundTo
<1>8. \A p \in Ports : udp_mappings'[p] <= Cardinality(BoundTo(p, conn'))
  BY <1>1, <1>3, <1>7
<1> QED BY <1>8 DEF MappingNotLeaked, BoundTo

LEMMA StepMapped == IInv /\ SInv /\ MappingNotLeaked /\ [Next]_vars => MappingNotLeaked'
<1> SUFFICES ASSUME IInv, SInv, MappingNotLeaked, [Next]_vars PROVE MappingNotLeaked'
  OBVIOUS
<1>0. \A t \in Tuples : conn[t] \in Connections(t)
  BY DEF IInv, Consistent
<1>1. ASSUME NEW t \in Tuples, zdtun_lookup(t) PROVE MappingNotLeaked'
  <2>1. /\ conn'[t] = NoConn /\ conn[t].status = "CLOSED" /\ UNCHANGED udp_mappings
        /\ \A u \in Tuples \ {t} : conn'[u] = conn[u]
    BY <1>1 DEF zdtun_lookup, IInv, Consistent
  <2> QED BY <2>1, NewConnType, TuplesAssumption, SameBound
<1>2. ASSUME NEW t \in Tuples, zdtun_lookup_create(t) PROVE MappingNotLeaked'
  BY <1>2, LookupCreateMapped
<1>3. ASSUME NEW t \in Tuples, zdtun_conn_proxy(t) PROVE MappingNotLeaked'
  <2>1. /\ t \in TCP /\ UNCHANGED udp_mappings
        /\ \A u \in Tuples \ {t} : conn'[u] = conn[u]
    BY <1>3 DEF zdtun_conn_proxy, IInv, Consistent
  <2> QED BY <2>1, TuplesAssumption, SameBound
<1>4. ASSUME NEW t \in Tuples, zdtun_forward(t) PROVE MappingNotLeaked'
  BY <1>4, ForwardMapped
<1>5. ASSUME NEW t \in Tuples, close_spoofed_dns(t) PROVE MappingNotLeaked'
  <2> DEFINE n == Cardinality(BoundTo(Port[t], conn) \ {t})
  <2>1. t \in UDP /\ Open(Context(t).k) /\ Leaves(t, zdtun_conn_close(t, Context(t)))
    BY <1>5 DEF close_spoofed_dns, Context, Open
  <2>2. n \in Nat /\ Mapped(t, Context(t), n) /\ Closable(t, Context(t))
    BY <2>1, ContextMapped, ContextGood, GoodClosable
  <2> HIDE DEF n
  <2>3. \A c \in zdtun_conn_close(t, Context(t)) : Mapped(t, c, n)
    BY <2>1, <2>2, CloseMapped
  <2> QED BY <2>1, <2>3, LeavesMapped DEF n
<1>6. ASSUME NEW t \in Tuples, zdtun_handle_fd(t) PROVE MappingNotLeaked'
  BY <1>6, HandleFdMapped
<1>7. ASSUME zdtun_purge_expired PROVE MappingNotLeaked'
  <2>1. PICK s \in Purged({}) : conn' = s.conn /\ udp_mappings' = s.mappings
    BY <1>7 DEF zdtun_purge_expired
  <2>2. \A p \in Ports : udp_mappings'[p] <= Cardinality(BoundTo(p, conn'))
    BY <2>1, PurgedMapped
  <2> QED BY <2>2 DEF MappingNotLeaked, BoundTo
<1>8. ASSUME zdtun_finalize PROVE MappingNotLeaked'
  <2>1. PICK R \in SUBSET Live :
          conn' = destroy(Live, R).conn /\ udp_mappings' = destroy(Live, R).mappings
    BY <1>8 DEF zdtun_finalize
  <2>2. \A p \in Ports : udp_mappings'[p] <= Cardinality(BoundTo(p, conn'))
    BY <2>1, DestroyMapped
  <2> QED BY <2>2 DEF MappingNotLeaked, BoundTo
<1>9. ASSUME zdtun_init PROVE MappingNotLeaked'
  <2>1. \A p \in Ports : udp_mappings'[p] = 0
    BY <1>9 DEF zdtun_init
  <2>2. \A p \in Ports : udp_mappings'[p] <= Cardinality(BoundTo(p, conn'))
    BY <2>1, BoundFinite
  <2> QED BY <2>2 DEF MappingNotLeaked, BoundTo
<1>10. ASSUME Tick PROVE MappingNotLeaked'
  <2>1. \A t \in Tuples : conn'[t].status = conn[t].status
    BY <1>0, <1>10 DEF Tick, Connections
  <2> QED BY <1>10, <2>1, TuplesAssumption, SameBound DEF Tick
<1>11. CASE UNCHANGED vars
  BY <1>11 DEF vars, MappingNotLeaked
<1> QED BY <1>1, <1>2, <1>3, <1>4, <1>5, <1>6, <1>7, <1>8, <1>9, <1>10, <1>11 DEF Next

(* A UDP mapping has no more uses than open connections from its port, over *)
(* every failure of bind_and_connect_udp and every way a connection ends:   *)
(* it is gone with the last of them.                                       *)
THEOREM MappingSafe == Spec => []MappingNotLeaked
<1>1. Init => MappingNotLeaked
  <2> SUFFICES ASSUME Init PROVE MappingNotLeaked
    OBVIOUS
  <2>1. \A p \in Ports : udp_mappings[p] <= Cardinality(BoundTo(p, conn))
    BY BoundFinite DEF Init
  <2> QED BY <2>1 DEF MappingNotLeaked, BoundTo
<1> QED BY <1>1, SpecSInv, StepMapped, PTL DEF Spec
=============================================================================
