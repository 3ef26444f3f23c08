--------------------------- MODULE ZdtunTcpProofs ---------------------------
(***************************************************************************)
(* Proofs about ZdtunTcp for streams, packets, buffers and device queues   *)
(* of any length, window scales and any initial sequence numbers: the      *)
(* types, that zdtun sends no more than the client can take unless it used *)
(* up the window of the SYN before the first ACK, and that the connection  *)
(* implements the byte pipes of TcpRelay.                                  *)
(*                                                                         *)
(* Each packet that waits in the tun device tells a right edge, the last   *)
(* byte its sender would take.  Edges only grow: zdtun respects that of    *)
(* the last packet it took, which is no later than the ones of the packets *)
(* that wait, in their order, and these are no later than the client's.    *)
(* Before it took any, the edge of the SYN stands for it.                  *)
(*                                                                         *)
(* The stream of a patient client lies, in order, in what the server got,  *)
(* in the transmit queue and in the packets that wait.                     *)
(***************************************************************************)
EXTENDS ZdtunTcp, TLAPS

Packets == [seq: Int, pos: Int, len: Nat, fin: BOOLEAN, ack: Int,
            win: 0 .. Units(ClientBuffer)]

Typed ==
  /\ TypeOK
  /\ tun \in Seq(Packets) /\ tx_queue \in Seq(Int) /\ srv_got \in Seq(Int)
  /\ ready \in {"none", "read", "write"}

(* The right edge of a packet, relative to what the client received: zdtun  *)
(* counts back from what it has sent by what is in flight.                  *)
Edge(pkt) == pkt.win * Unit - in_flight(pkt.ack)

Acked(pkt) == \E r \in 0 .. rcv_nxt : pkt.ack = ZdtunWire(r)

(* What zdtun may count on, relative to what the client received: by the    *)
(* SYN's window, while it thinks it is wider; then by its own.              *)
Floor == IF guessed THEN ClientBuffer - rcv_nxt ELSE window_size

Edges ==
  /\ \A i \in DOMAIN tun : Acked(tun[i])
  /\ \A i \in DOMAIN tun : Floor <= Edge(tun[i]) /\ Edge(tun[i]) <= Window
  /\ \A i, j \in DOMAIN tun : i <= j => Edge(tun[i]) <= Edge(tun[j])

WInv ==
  sock /\ ~filled => /\ WindowSound /\ Edges
                     /\ Floor <= Window
                     /\ guessed => 0 < Floor /\ Floor <= window_size

-----------------------------------------------------------------------------
(* Sequence numbers.                                                        *)

LEMMA Modulo ==
  ASSUME NEW M \in Nat \ {0}, NEW a \in Int
  PROVE  a % M \in 0 .. (M - 1)
OBVIOUS

LEMMA Rest ==
  ASSUME NEW M \in Nat \ {0}, NEW r \in 0 .. (M - 1)
  PROVE  r % M = r /\ (r + M) % M = r /\ ((r + M) + M) % M = r /\ (r - M) % M = r
<1>1. /\ r = M * 0 + r /\ r + M = M * 1 + r /\ (r + M) + M = M * 2 + r
      /\ r - M = M * (-1) + r
  OBVIOUS
<1>2. \A a, q \in Int : a = M * q + r => a % M = r
  OBVIOUS
<1>3. r % M = r
  BY <1>1, <1>2
<1>4. (r + M) % M = r
  BY <1>1, <1>2
<1>5. ((r + M) + M) % M = r
  BY <1>1, <1>2
<1>6. (r - M) % M = r
  BY <1>1, <1>2
<1> QED BY <1>3, <1>4, <1>5, <1>6

LEMMA ClientConstants ==
  /\ SeqMod \in Nat \ {0} /\ ClientBytes \in Nat /\ SeqMod > ClientBytes + 3
  /\ ClientIsn \in 0 .. (SeqMod - 1)
<1>1. ClientBytes \in Nat /\ SeqMod \in Nat /\ SeqMod > 2 * (ClientBytes + 2)
  BY TcpAssumption
<1>2. SeqMod > ClientBytes + 3 /\ SeqMod # 0
  BY <1>1
<1> QED BY <1>1, <1>2, TcpAssumption

(* A sequence number that went past either end of the circle once.          *)
Turn(x) == IF x < 0 THEN x + SeqMod ELSE IF x < SeqMod THEN x ELSE x - SeqMod

LEMMA Turned ==
  ASSUME NEW x \in Int, -1 <= x, x < 2 * SeqMod
  PROVE  x % SeqMod = Turn(x) /\ (x + SeqMod) % SeqMod = Turn(x) /\ Turn(x) \in 0 .. (SeqMod - 1)
<1> DEFINE t == Turn(x)
<1>0. SeqMod \in Nat \ {0}
  BY ClientConstants
<1>1. /\ t \in 0 .. (SeqMod - 1)
      /\ x = t \/ x = t + SeqMod \/ x = t - SeqMod
      /\ x + SeqMod = t \/ x + SeqMod = t + SeqMod \/ x + SeqMod = (t + SeqMod) + SeqMod
  BY <1>0 DEF Turn
<1> HIDE DEF t
<1>2. /\ t % SeqMod = t /\ (t + SeqMod) % SeqMod = t
      /\ ((t + SeqMod) + SeqMod) % SeqMod = t /\ (t - SeqMod) % SeqMod = t
  BY <1>0, <1>1, Rest
<1>3. x % SeqMod = t /\ (x + SeqMod) % SeqMod = t
  BY <1>1, <1>2
<1> QED BY <1>1, <1>3 DEF t

LEMMA Constants ==
  /\ SeqMod \in Nat \ {0}
  /\ ServerBytes \in Nat /\ ClientBytes \in Nat /\ ClientBuffer \in Nat \ {0}
  /\ Mss \in Nat \ {0} /\ MaxTun \in Nat \ {0} /\ Unit \in Nat \ {0}
  /\ ServerBytes < SeqMod
  /\ ZdtunIsn \in 0 .. (SeqMod - 1) /\ ClientIsn \in 0 .. (SeqMod - 1)
<1>1. /\ ServerBytes \in Nat /\ ClientBuffer \in Nat \ {0} /\ Unit \in Nat \ {0} /\ SeqMod \in Nat
      /\ SeqMod > 2 * (ServerBytes + ClientBuffer * Unit + Unit)
  BY TcpAssumption
<1>2. ClientBuffer * Unit \in Nat
  BY <1>1
<1>3. ServerBytes < SeqMod /\ SeqMod # 0
  BY <1>1, <1>2
<1> QED BY <1>1, <1>3, TcpAssumption

(* The sequence numbers of what zdtun sends wrap once at most.              *)
LEMMA WireIs ==
  ASSUME NEW r \in 0 .. ServerBytes
  PROVE  /\ ZdtunWire(r) = IF ZdtunIsn + r < SeqMod THEN ZdtunIsn + r
                           ELSE ZdtunIsn + r - SeqMod
         /\ ZdtunWire(r) \in 0 .. (SeqMod - 1)
<1>0. /\ SeqMod \in Nat \ {0} /\ ZdtunIsn \in 0 .. (SeqMod - 1) /\ r \in 0 .. ServerBytes
      /\ ServerBytes \in Nat /\ ServerBytes < SeqMod
  BY Constants
<1>1. ZdtunIsn + r \in Int /\ -1 <= ZdtunIsn + r /\ ZdtunIsn + r < 2 * SeqMod
  BY <1>0
<1>2. ZdtunWire(r) = Turn(ZdtunIsn + r) /\ Turn(ZdtunIsn + r) \in 0 .. (SeqMod - 1)
  BY <1>1, Turned DEF ZdtunWire
<1> QED BY <1>0, <1>2 DEF Turn

LEMMA WireAdd ==
  ASSUME NEW r \in 0 .. ServerBytes, NEW n \in Nat, r + n <= ServerBytes
  PROVE  (ZdtunWire(r) + n) % SeqMod = ZdtunWire(r + n)
<1> DEFINE a == ZdtunWire(r)
           b == ZdtunWire(r + n)
<1>0. /\ SeqMod \in Nat \ {0} /\ ZdtunIsn \in 0 .. (SeqMod - 1) /\ r \in 0 .. ServerBytes
      /\ ServerBytes \in Nat /\ ServerBytes < SeqMod /\ r + n \in 0 .. ServerBytes
  BY Constants
<1>1. /\ a = IF ZdtunIsn + r < SeqMod THEN ZdtunIsn + r ELSE ZdtunIsn + r - SeqMod
      /\ a \in 0 .. (SeqMod - 1)
  BY WireIs
<1>2. /\ b = IF ZdtunIsn + (r + n) < SeqMod THEN ZdtunIsn + (r + n)
             ELSE ZdtunIsn + (r + n) - SeqMod
      /\ b \in 0 .. (SeqMod - 1)
  BY <1>0, WireIs
<1> HIDE DEF a, b
<1>3. a + n = b \/ a + n = b + SeqMod
  BY <1>0, <1>1, <1>2
<1>4. b % SeqMod = b /\ (b + SeqMod) % SeqMod = b
  BY <1>0, <1>2, Rest
<1> QED BY <1>3, <1>4 DEF a, b

(* zdtun's reckoning of what is in flight is exact, wherever it wraps.      *)
LEMMA Distance ==
  ASSUME NEW s \in 0 .. ServerBytes, NEW r \in 0 .. s, NEW z, z = ZdtunWire(s),
         NEW a, a = ZdtunWire(r)
  PROVE  (IF z >= a THEN z - a ELSE (SeqMod - 1) - a + z + 1) = s - r
<1>0. /\ SeqMod \in Nat \ {0} /\ ZdtunIsn \in 0 .. (SeqMod - 1)
      /\ ServerBytes \in Nat /\ ServerBytes < SeqMod
      /\ r \in 0 .. ServerBytes /\ s \in 0 .. ServerBytes /\ r <= s
  BY Constants
<1>1. /\ a = IF ZdtunIsn + r < SeqMod THEN ZdtunIsn + r ELSE ZdtunIsn + r - SeqMod
      /\ a \in 0 .. (SeqMod - 1)
  BY <1>0, WireIs
<1>2. /\ z = IF ZdtunIsn + s < SeqMod THEN ZdtunIsn + s ELSE ZdtunIsn + s - SeqMod
      /\ z \in 0 .. (SeqMod - 1)
  BY <1>0, WireIs
<1> QED BY <1>0, <1>1, <1>2

LEMMA InFlightIs ==
  ASSUME NEW s \in 0 .. ServerBytes, NEW r \in 0 .. s, zdtun_seq = ZdtunWire(s),
         NEW a, a = ZdtunWire(r)
  PROVE  in_flight(a) = s - r
BY Distance DEF in_flight

-----------------------------------------------------------------------------
(* Windows in units.                                                        *)

FullWindow == Units(ClientBuffer) * Unit

LEMMA Round ==
  ASSUME NEW U \in Nat \ {0}, NEW n \in Nat, NEW q, q = (n + U - 1) \div U
  PROVE  q \in Nat /\ n <= q * U /\ q * U < n + U
<1>1. q \in Nat
  OBVIOUS
<1>2. n + U - 1 = U * q + ((n + U - 1) % U) /\ (n + U - 1) % U \in 0 .. (U - 1)
  OBVIOUS
<1> QED BY <1>1, <1>2

LEMMA Times ==
  ASSUME NEW U \in Nat, NEW a \in Nat, NEW b \in Nat, a <= b
  PROVE  a * U \in Nat /\ a * U <= b * U
<1>1. a * U \in Nat
  OBVIOUS
<1>2. (b - a) * U \in Nat /\ b * U = a * U + (b - a) * U
  OBVIOUS
<1> QED BY <1>1, <1>2

LEMMA UnitsIs ==
  ASSUME NEW n \in Nat
  PROVE  Units(n) \in Nat /\ n <= Units(n) * Unit /\ Units(n) * Unit < n + Unit
BY Round, TcpAssumption DEF Units

LEMMA UnitsBound ==
  ASSUME NEW n \in Nat, n <= FullWindow
  PROVE  /\ Units(n) \in 0 .. Units(ClientBuffer)
         /\ n <= Units(n) * Unit /\ Units(n) * Unit <= FullWindow
<1> DEFINE q == Units(n)
           m == Units(ClientBuffer)
<1>1. q \in Nat /\ n <= q * Unit /\ q * Unit < n + Unit
  BY UnitsIs
<1>2. m \in Nat /\ Unit \in Nat \ {0}
  BY UnitsIs, TcpAssumption
<1> HIDE DEF q, m
<1>3. q <= m
  <2> SUFFICES ASSUME m + 1 <= q PROVE FALSE
    BY <1>1, <1>2
  <2>1. (m + 1) * Unit <= q * Unit /\ (m + 1) * Unit = m * Unit + Unit
    BY <1>1, <1>2, Times
  <2>2. q * Unit < m * Unit + Unit
    BY <1>1, <1>2 DEF FullWindow, m
  <2> QED BY <1>1, <1>2, <2>1, <2>2
<1>4. q * Unit <= m * Unit
  BY <1>1, <1>2, <1>3, Times
<1> QED BY <1>1, <1>2, <1>3, <1>4 DEF q, m, FullWindow

LEMMA Windows ==
  /\ ClientBuffer * Unit \in Nat /\ ClientBuffer <= ClientBuffer * Unit
  /\ FullWindow \in Nat /\ ClientBuffer <= FullWindow
  /\ ServerBytes + ClientBuffer * Unit < SeqMod
  /\ ServerBytes + FullWindow < SeqMod
<1>0. /\ ClientBuffer \in Nat \ {0} /\ Unit \in Nat \ {0} /\ SeqMod \in Nat /\ ServerBytes \in Nat
      /\ SeqMod > 2 * (ServerBytes + ClientBuffer * Unit + Unit)
  BY TcpAssumption
<1>1. ClientBuffer * Unit \in Nat /\ ClientBuffer <= ClientBuffer * Unit
  <2>1. ClientBuffer * 1 <= ClientBuffer * Unit
    BY <1>0, Times
  <2> QED BY <1>0, <2>1
<1>2. FullWindow \in Nat /\ ClientBuffer <= FullWindow /\ FullWindow < ClientBuffer + Unit
  BY <1>0, UnitsIs DEF FullWindow
<1> QED BY <1>0, <1>1, <1>2
-----------------------------------------------------------------------------
(* Packets that wait.                                                       *)

LEMMA SpaceOf ==
  ASSUME Typed, NEW i \in DOMAIN tun
  PROVE  tun[i].win * Unit \in 0 .. FullWindow
<1>1. tun \in Seq(Packets)
  BY DEF Typed
<1>2. tun[i] \in Packets
  BY <1>1
<1> DEFINE w == tun[i].win
           m == Units(ClientBuffer)
<1>3. w \in 0 .. m /\ m \in Nat
  BY <1>2, UnitsIs, Constants DEF Packets
<1> HIDE DEF w, m
<1>4. w * Unit \in Nat /\ w * Unit <= m * Unit
  BY <1>3, Times, Constants
<1> QED BY <1>4, Windows DEF w, m, FullWindow

LEMMA Numbers ==
  ASSUME Typed
  PROVE  /\ taken \in 0 .. ServerBytes /\ srv_sent \in 0 .. ServerBytes /\ taken <= srv_sent
         /\ rcv_nxt \in 0 .. ServerBytes /\ rcv_nxt <= taken
         /\ Window \in 0 .. FullWindow /\ edge \in Int
         /\ window_size \in 0 .. (SeqMod - 1) /\ Floor \in Int
         /\ ServerBytes \in Nat /\ Mss \in Nat \ {0} /\ SeqMod \in Nat \ {0}
         /\ ClientBuffer \in Nat \ {0} /\ FullWindow \in Nat /\ FullWindow < SeqMod
<1>1. /\ taken \in 0 .. srv_sent /\ rcv_nxt \in 0 .. taken /\ srv_sent \in 0 .. ServerBytes
      /\ edge \in rcv_nxt .. (rcv_nxt + FullWindow) /\ window_size \in 0 .. (SeqMod - 1)
  BY DEF Typed, TypeOK, FullWindow
<1>2. /\ ServerBytes \in Nat /\ Mss \in Nat \ {0} /\ SeqMod \in Nat \ {0}
      /\ ClientBuffer \in Nat \ {0} /\ FullWindow \in Nat /\ FullWindow < SeqMod
  BY Constants, Windows
<1>3. rcv_nxt \in Nat /\ window_size \in Nat /\ Window \in 0 .. FullWindow /\ edge \in Int
  BY <1>1, <1>2 DEF Window
<1>4. Floor \in Int
  BY <1>2, <1>3 DEF Floor
<1> QED BY <1>1, <1>2, <1>3, <1>4

LEMMA EdgeOf ==
  ASSUME Typed, sock, ~filled, WInv, NEW i \in DOMAIN tun
  PROVE  /\ Edge(tun[i]) \in Int /\ 0 <= Edge(tun[i]) /\ Edge(tun[i]) <= FullWindow
         /\ in_flight(tun[i].ack) \in Nat
<1>1. PICK r \in 0 .. rcv_nxt : tun[i].ack = ZdtunWire(r)
  BY DEF WInv, Edges, Acked
<1>2. rcv_nxt \in 0 .. ServerBytes
  BY Numbers
<1>3. zdtun_seq = ZdtunWire(rcv_nxt)
  BY DEF WInv, WindowSound
<1>4. in_flight(tun[i].ack) = rcv_nxt - r
  BY <1>1, <1>2, <1>3, InFlightIs
<1>5. tun[i].win * Unit \in 0 .. FullWindow
  BY SpaceOf
<1>6. Floor <= Edge(tun[i]) /\ 0 <= Floor
  <2>1. guessed => 0 < Floor
    BY DEF WInv
  <2>2. ~guessed => 0 <= Floor
    BY Numbers DEF Floor
  <2>3. Floor <= Edge(tun[i])
    BY DEF WInv, Edges
  <2> QED BY <2>1, <2>2, <2>3, Numbers
<1> DEFINE space == tun[i].win * Unit
<1>7. Edge(tun[i]) = space - (rcv_nxt - r)
  BY <1>4 DEF Edge
<1> HIDE DEF space
<1> QED BY <1>1, <1>2, <1>4, <1>5, <1>6, <1>7, Numbers DEF space

(* Whatever leaves the connection and the received bytes alone.             *)
LEMMA SameEdges ==
  ASSUME WInv, sock' => sock, filled' = filled,
         UNCHANGED <<tun, window_size, guessed, rcv_nxt, edge, zdtun_seq, taken>>
  PROVE  WInv'
BY DEF WInv, WindowSound, Edges, Edge, Acked, Floor, in_flight, Window, ZdtunWire

(* The window that a packet tells reaches as far as what was told before.   *)
LEMMA OfferedIs ==
  ASSUME Typed
  PROVE  /\ Offered \in 0 .. Units(ClientBuffer)
         /\ Window <= Offered * Unit /\ Offered * Unit \in 0 .. FullWindow
<1>1. unread \in Nat
  BY Numbers DEF Typed, TypeOK
<1>2. Room \in Nat /\ Room <= FullWindow /\ Window <= Room
  BY <1>1, Numbers, Windows DEF Room
<1> DEFINE n == Room
<1>3. n \in Nat /\ n <= FullWindow
  BY <1>2
<1> HIDE DEF n
<1>4. /\ Units(n) \in 0 .. Units(ClientBuffer)
      /\ n <= Units(n) * Unit /\ Units(n) * Unit <= FullWindow
  BY <1>3, UnitsBound
<1>5. Units(n) = Offered
  BY DEF Offered, n
<1>6. Offered * Unit \in Nat
  BY <1>4, <1>5, Times, Constants, UnitsIs
<1> QED BY <1>2, <1>4, <1>5, <1>6, Numbers DEF n

LEMMA SendsEdges ==
  ASSUME Typed, WInv, NEW pos, NEW len, NEW fin, Sends(pos, len, fin)
  PROVE  WInv'
<1> SUFFICES ASSUME sock', ~filled'
             PROVE  /\ WindowSound' /\ Edges' /\ Floor' <= Window'
                    /\ guessed' => 0 < Floor' /\ Floor' <= window_size'
  BY DEF WInv
<1> DEFINE p == Packet(pos, len, fin)
           n == Len(tun)
           w == Offered * Unit
<1>1. /\ sock /\ ~filled /\ edge' = rcv_nxt + w
      /\ UNCHANGED <<rcv_nxt, window_size, guessed, zdtun_seq, sock, taken>>
  BY DEF Sends, conn_vars
<1>2. /\ WindowSound /\ Edges /\ Floor <= Window
      /\ guessed => 0 < Floor /\ Floor <= window_size
  BY <1>1 DEF WInv
<1>3. tun' = Append(tun, p) /\ tun \in Seq(Packets)
  BY DEF Sends, Typed
<1>4. p.ack = ZdtunWire(rcv_nxt) /\ p.win * Unit = w
  BY DEF Packet
<1>5. w \in 0 .. FullWindow /\ Window <= w
  BY OfferedIs
<1> HIDE DEF w, p
<1>6. Window' = w /\ Floor' = Floor /\ w \in Int /\ rcv_nxt \in 0 .. ServerBytes
  <2>1. Window' = edge' - rcv_nxt
    BY <1>1 DEF Window
  <2>2. Floor' = Floor
    BY <1>1 DEF Floor
  <2> QED BY <1>1, <1>5, <2>1, <2>2, Numbers
<1>7. Edge(p) = w
  <2>1. in_flight(p.ack) = 0
    BY <1>2, <1>1, <1>4, <1>6, InFlightIs DEF WindowSound
  <2>2. Edge(p) = w - 0
    BY <1>4, <2>1 DEF Edge
  <2> QED BY <1>6, <2>2
<1>8. Acked(p)
  BY <1>4, <1>6 DEF Acked
<1>9. /\ n \in Nat /\ DOMAIN tun = 1 .. n /\ DOMAIN tun' = 1 .. (n + 1)
      /\ \A i \in 1 .. n : tun'[i] = tun[i]
      /\ tun'[n + 1] = p
  BY <1>3
<1> HIDE DEF n
<1>10. \A i \in DOMAIN tun' :
         /\ Edge(tun'[i]) = IF i = n + 1 THEN w ELSE Edge(tun[i])
         /\ Acked(tun'[i])
  BY <1>2, <1>7, <1>8, <1>9 DEF Edges
<1>11. \A i \in DOMAIN tun : Edge(tun[i]) \in Int /\ Edge(tun[i]) <= w
  <2>1. \A i \in DOMAIN tun : Edge(tun[i]) \in Int /\ Edge(tun[i]) <= Window
    BY <1>1, <1>2, EdgeOf DEF Edges
  <2> QED BY <1>5, <1>6, <2>1, Numbers
<1>12. Floor <= w
  BY <1>2, <1>5, <1>6, Numbers
<1>13. /\ \A i \in DOMAIN tun' : Acked(tun'[i])
       /\ \A i \in DOMAIN tun' : Floor <= Edge(tun'[i]) /\ Edge(tun'[i]) <= w
       /\ \A i, j \in DOMAIN tun' : i <= j => Edge(tun'[i]) <= Edge(tun'[j])
  BY <1>2, <1>6, <1>9, <1>10, <1>11, <1>12 DEF Edges
<1>14. \A i \in DOMAIN tun' : /\ (Acked(tun[i]))' <=> Acked(tun'[i])
                              /\ (Edge(tun[i]))' = Edge(tun'[i])
  BY <1>1 DEF Edge, Acked, in_flight, ZdtunWire
<1>15. Edges'
  BY <1>6, <1>13, <1>14 DEF Edges
<1>16. WindowSound'
  <2>1. ~guessed => window_size <= w
    BY <1>12 DEF Floor
  <2> QED BY <1>1, <1>2, <1>6, <2>1 DEF WindowSound, ZdtunWire
<1>17. Floor' <= Window'
  BY <1>6, <1>12
<1>18. guessed' => 0 < Floor' /\ Floor' <= window_size'
  BY <1>1, <1>2, <1>6
<1> QED BY <1>15, <1>16, <1>17, <1>18

LEMMA ReplyEdges ==
  ASSUME Typed, WInv, handle_tcp_reply
  PROVE  WInv'
<1> DEFINE len == Least(Least(window_size, Mss), srv_sent - taken)
<1>1. IF len = 0 THEN server_closed ELSE server_data(len)
  BY DEF handle_tcp_reply
<1>2. UNCHANGED <<tun, srv_sent, edge, guessed>>
  BY DEF handle_tcp_reply, server_vars
<1>3. /\ rcv_nxt \in 0 .. ServerBytes /\ srv_sent \in 0 .. ServerBytes
      /\ taken \in 0 .. ServerBytes /\ taken <= srv_sent
      /\ Window \in 0 .. FullWindow /\ window_size \in Nat /\ Floor \in Int
      /\ ServerBytes \in Nat /\ Mss \in Nat /\ FullWindow \in Nat /\ ClientBuffer \in Nat
  BY Numbers
<1>4. len \in Nat /\ len <= window_size /\ len <= srv_sent - taken
  BY <1>3 DEF Least
<1> HIDE DEF len
<1> SUFFICES ASSUME sock', ~filled'
             PROVE  /\ WindowSound' /\ Edges' /\ Floor' <= Window'
                    /\ guessed' => 0 < Floor' /\ Floor' <= window_size'
  BY DEF WInv
<1>5. /\ server_data(len) /\ sock /\ ~filled
      /\ guessed => ~(taken + len >= ClientBuffer)
  BY <1>1 DEF server_closed, server_data
<1>6. /\ WindowSound /\ Edges /\ Floor <= Window /\ taken = rcv_nxt
      /\ guessed => 0 < Floor /\ Floor <= window_size
  BY <1>5 DEF WInv, WindowSound
<1>7. len <= Floor
  BY <1>3, <1>4, <1>5, <1>6 DEF Floor
<1>8. Least(len, Window) = len
  BY <1>3, <1>4, <1>6, <1>7 DEF Least
<1>9. /\ rcv_nxt' = rcv_nxt + len /\ taken' = rcv_nxt + len
      /\ window_size' = window_size - len
      /\ zdtun_seq' = (zdtun_seq + len) % SeqMod
  BY <1>5, <1>6, <1>8 DEF server_data, client_takes
<1>10. rcv_nxt + len \in 0 .. ServerBytes
  BY <1>3, <1>4, <1>6
<1>11. zdtun_seq' = ZdtunWire(rcv_nxt + len)
  <2>1. zdtun_seq = ZdtunWire(rcv_nxt)
    BY <1>5, <1>6 DEF WindowSound
  <2>2. rcv_nxt + len <= ServerBytes /\ len \in Nat /\ rcv_nxt \in 0 .. ServerBytes
    BY <1>3, <1>4, <1>10
  <2>3. (ZdtunWire(rcv_nxt) + len) % SeqMod = ZdtunWire(rcv_nxt + len)
    BY <2>2, WireAdd
  <2> QED BY <1>9, <2>1, <2>3
<1>12. Window' = Window - len /\ Floor' = Floor - len
  <2>1. edge \in Int
    BY Numbers
  <2>2. Window = edge - rcv_nxt /\ Window' = edge - (rcv_nxt + len)
    BY <1>2, <1>9 DEF Window
  <2>3. Window' = Window - len
    BY <1>3, <1>4, <2>1, <2>2
  <2>4. Floor = (IF guessed THEN ClientBuffer - rcv_nxt ELSE window_size)
        /\ Floor' = (IF guessed THEN ClientBuffer - (rcv_nxt + len) ELSE window_size - len)
    BY <1>2, <1>9 DEF Floor
  <2>5. Floor' = Floor - len
    BY <1>3, <1>4, <2>4
  <2> QED BY <2>3, <2>5
<1>13. Floor' <= Window'
  BY <1>3, <1>4, <1>6, <1>12
<1>14. guessed' => 0 < Floor' /\ Floor' <= window_size'
  <2> SUFFICES ASSUME guessed PROVE 0 < Floor' /\ Floor' <= window_size'
    BY <1>2
  <2>1. Floor = ClientBuffer - rcv_nxt /\ ~(rcv_nxt + len >= ClientBuffer)
    BY <1>5, <1>6 DEF Floor
  <2>2. 0 < Floor - len /\ Floor - len <= window_size - len
    BY <1>3, <1>4, <1>6, <2>1
  <2> QED BY <1>9, <1>12, <2>2
<1>15. WindowSound'
  <2>1. ~guessed' => window_size' <= Window'
    BY <1>13 DEF Floor
  <2> QED BY <1>9, <1>11, <2>1 DEF WindowSound, ZdtunWire
<1>16. ASSUME NEW i \in DOMAIN tun
       PROVE  /\ Acked(tun[i])'
              /\ Edge(tun[i])' = Edge(tun[i]) - len
  <2>1. PICK r \in 0 .. rcv_nxt : tun[i].ack = ZdtunWire(r)
    BY <1>6 DEF Edges, Acked
  <2>2. r \in 0 .. (rcv_nxt + len)
    BY <1>3, <1>4, <2>1
  <2>3. Acked(tun[i])'
    BY <1>2, <1>9, <2>1, <2>2 DEF Acked, ZdtunWire
  <2>4. in_flight(tun[i].ack) = rcv_nxt - r
    BY <1>3, <1>5, <1>6, <2>1, InFlightIs DEF WindowSound
  <2>5. in_flight(tun[i].ack)' = (rcv_nxt + len) - r
    <3> DEFINE z == zdtun_seq'
               a == tun[i].ack
               s == rcv_nxt + len
    <3>0. /\ s \in 0 .. ServerBytes /\ r \in 0 .. s
          /\ z = ZdtunWire(s) /\ a = ZdtunWire(r)
      BY <1>10, <1>11, <2>1, <2>2
    <3>1. (IF z >= a THEN z - a ELSE (SeqMod - 1) - a + z + 1) = (rcv_nxt + len) - r
      <4>1. (IF z >= a THEN z - a ELSE (SeqMod - 1) - a + z + 1) = s - r
        <5> HIDE DEF z, a, s
        <5> QED BY <3>0, Distance
      <4> QED BY <4>1, Zenon
    <3>2. (tun[i].ack)' = a
      BY <1>2
    <3>3. in_flight(tun[i].ack)' = IF z >= a THEN z - a ELSE (SeqMod - 1) - a + z + 1
      BY <3>2, Zenon DEF in_flight
    <3> HIDE DEF z, a
    <3> QED BY <3>1, <3>3
  <2> DEFINE space == tun[i].win * Unit
  <2>6. space \in 0 .. FullWindow
    BY SpaceOf
  <2>7. Edge(tun[i]) = space - (rcv_nxt - r)
    BY <2>4 DEF Edge
  <2>8. Edge(tun[i])' = space - ((rcv_nxt + len) - r)
    BY <1>2, <2>5 DEF Edge
  <2> HIDE DEF space
  <2> QED BY <1>3, <1>4, <2>1, <2>3, <2>6, <2>7, <2>8
<1>17. \A i \in DOMAIN tun : Edge(tun[i]) \in Int
  BY <1>5, EdgeOf
<1>18. Edges'
  <2>1. \A i \in DOMAIN tun : Floor' <= Edge(tun[i])' /\ Edge(tun[i])' <= Window'
    BY <1>3, <1>4, <1>6, <1>12, <1>16, <1>17 DEF Edges
  <2>2. \A i, j \in DOMAIN tun : i <= j => Edge(tun[i])' <= Edge(tun[j])'
    BY <1>4, <1>6, <1>16, <1>17 DEF Edges
  <2> QED BY <1>2, <1>16, <2>1, <2>2 DEF Edges
<1> QED BY <1>13, <1>14, <1>15, <1>18

(* An ACK gives zdtun the right edge that it tells.                         *)
LEMMA TakenEdge ==
  ASSUME Typed, WInv, sock, ~filled, tun # <<>>, NEW h, h = tun[1]
  PROVE  /\ (h.win * Unit - in_flight(h.ack)) % SeqMod = Edge(h)
         /\ Edge(h) \in 0 .. FullWindow /\ Floor <= Edge(h)
<1>1. 1 \in DOMAIN tun
  BY DEF Typed
<1> DEFINE e == Edge(tun[1])
<1>2. e \in Int /\ 0 <= e /\ e <= FullWindow /\ Floor <= e
  BY <1>1, EdgeOf DEF WInv, Edges
<1> HIDE DEF e
<1>3. e \in 0 .. (SeqMod - 1) /\ SeqMod \in Nat \ {0} /\ e \in 0 .. FullWindow
  BY <1>2, Numbers
<1>4. e % SeqMod = e
  BY <1>3, Rest
<1> QED BY <1>2, <1>3, <1>4 DEF e, Edge

LEMMA ForwardEdges ==
  ASSUME Typed, WInv, handle_tcp_fwd
  PROVE  WInv'
<1> SUFFICES ASSUME sock', ~filled'
             PROVE  /\ WindowSound' /\ Edges' /\ Floor' <= Window'
                    /\ guessed' => 0 < Floor' /\ Floor' <= window_size'
  BY DEF WInv
<1> DEFINE h == Head(tun)
           n == Len(tun)
<1>1. /\ tun' = Tail(tun) /\ tun # <<>> /\ sock /\ ~filled
      /\ UNCHANGED <<rcv_nxt, edge, zdtun_seq, sock, taken>>
  BY DEF handle_tcp_fwd
<1>2. /\ n \in Nat \ {0} /\ DOMAIN tun = 1 .. n /\ h = tun[1]
      /\ DOMAIN tun' = 1 .. (n - 1)
      /\ \A i \in 1 .. (n - 1) : tun'[i] = tun[i + 1]
  BY <1>1 DEF Typed
<1>3. /\ WindowSound /\ Edges /\ Floor <= Window /\ taken = rcv_nxt
      /\ guessed => 0 < Floor /\ Floor <= window_size
  BY <1>1 DEF WInv, WindowSound
<1>4. /\ (h.win * Unit - in_flight(h.ack)) % SeqMod = Edge(h)
      /\ Edge(h) \in 0 .. FullWindow /\ Floor <= Edge(h)
  BY <1>1, <1>2, TakenEdge
<1>5. \A i \in 1 .. n : Edge(tun[i]) \in Int
  BY <1>1, <1>2, EdgeOf
<1>6. \/ window_size' = window_size /\ guessed' = guessed
      \/ window_size' = Edge(h) /\ guessed' = FALSE
  <2> HIDE DEF h
  <2> QED BY <1>4 DEF handle_tcp_fwd, forward_fin, forward_ack, h
<1> HIDE DEF h, n
<1>7. /\ Window \in Int /\ Floor \in Int /\ window_size \in Int /\ Edge(h) \in Int
      /\ Window' = Window
  <2>1. Window' = Window
    BY <1>1 DEF Window
  <2>2. Edge(h) \in Int
    BY <1>2, <1>5
  <2> QED BY <2>1, <2>2, Numbers
<1>8. Floor' = Floor \/ (Floor' = Edge(h) /\ guessed' = FALSE)
  BY <1>1, <1>6 DEF Floor
<1>9. Floor' <= Window /\ \A i \in 2 .. n : Floor' <= Edge(tun[i])
  <2>1. Edge(h) <= Window /\ \A i \in 2 .. n : Edge(h) <= Edge(tun[i])
    BY <1>2, <1>3 DEF Edges
  <2>2. Floor <= Window /\ \A i \in 2 .. n : Floor <= Edge(tun[i])
    BY <1>2, <1>3 DEF Edges
  <2> QED BY <1>8, <2>1, <2>2
<1>10. ASSUME NEW i \in 1 .. (n - 1)
       PROVE  /\ Acked(tun'[i])
              /\ Floor' <= Edge(tun'[i]) /\ Edge(tun'[i]) <= Window
  <2>1. i + 1 \in DOMAIN tun /\ i + 1 \in 2 .. n /\ tun'[i] = tun[i + 1]
    BY <1>2
  <2>2. Acked(tun[i + 1]) /\ Edge(tun[i + 1]) <= Window
    BY <1>3, <2>1 DEF Edges
  <2> QED BY <1>9, <2>1, <2>2
<1>11. ASSUME NEW i \in 1 .. (n - 1), NEW j \in 1 .. (n - 1), i <= j
       PROVE  Edge(tun'[i]) <= Edge(tun'[j])
  <2>1. /\ i + 1 \in DOMAIN tun /\ tun'[i] = tun[i + 1]
        /\ j + 1 \in DOMAIN tun /\ tun'[j] = tun[j + 1]
        /\ i + 1 <= j + 1
    BY <1>2, <1>11
  <2>2. Edge(tun[i + 1]) <= Edge(tun[j + 1])
    BY <1>3, <2>1 DEF Edges
  <2> QED BY <2>1, <2>2
<1>12. \A i \in DOMAIN tun' : /\ (Acked(tun[i]))' <=> Acked(tun'[i])
                              /\ (Edge(tun[i]))' = Edge(tun'[i])
  BY <1>1 DEF Edge, Acked, in_flight, ZdtunWire
<1>13. Edges'
  BY <1>2, <1>7, <1>10, <1>11, <1>12 DEF Edges
<1>14. WindowSound'
  <2>1. ~guessed' => window_size' <= Window'
    BY <1>7, <1>9 DEF Floor
  <2> QED BY <1>1, <1>3, <2>1 DEF WindowSound, ZdtunWire
<1>15. guessed' => 0 < Floor' /\ Floor' <= window_size'
  BY <1>1, <1>3, <1>6, <1>8 DEF Floor
<1> QED BY <1>7, <1>9, <1>13, <1>14, <1>15

-----------------------------------------------------------------------------
(* Every step keeps the edges.                                              *)

LEMMA NextEdges ==
  ASSUME Typed, WInv, [Next]_vars
  PROVE  WInv'
<1>1. CASE ClientSend
  <2> PICK len \in 1 .. Mss : Sends(snd_nxt, len, FALSE)
    BY <1>1 DEF ClientSend
  <2> QED BY SendsEdges
<1>2. CASE ClientFin
  <2> PICK len \in 0 .. Mss : Sends(snd_nxt, len, TRUE)
    BY <1>2 DEF ClientFin
  <2> QED BY SendsEdges
<1>3. CASE ClientRetransmit
  <2>1. CASE \E len : Sends(snd_una, len, FALSE)
    <3> PICK len : Sends(snd_una, len, FALSE)
      BY <2>1
    <3> QED BY SendsEdges
  <2>2. CASE Sends(ClientBytes, 0, TRUE)
    BY <2>2, SendsEdges
  <2> QED BY <1>3, <2>1, <2>2 DEF ClientRetransmit
<1>4. CASE ClientKeepAlive
  BY <1>4, SendsEdges DEF ClientKeepAlive
<1>5. CASE ClientAck
  BY <1>5, SendsEdges DEF ClientAck
<1>6. CASE ClientRead
  BY <1>6, SameEdges DEF ClientRead, conn_vars
<1>7. CASE ServerSend
  BY <1>7, SameEdges DEF ServerSend, client_vars, conn_vars
<1>8. CASE ServerClose
  BY <1>8, SameEdges DEF ServerClose, client_vars, conn_vars
<1>9. CASE handle_tcp_fwd
  BY <1>9, ForwardEdges
<1>10. CASE select
  BY <1>10, SameEdges DEF select, client_vars, conn_vars
<1>11. CASE handle_tcp_reply
  BY <1>11, ReplyEdges
<1>12. CASE handle_queued_tcp_data
  <2>1. /\ (sock' => sock) /\ filled' = filled
        /\ UNCHANGED <<tun, window_size, guessed, rcv_nxt, edge, zdtun_seq, taken>>
    BY <1>12 DEF handle_queued_tcp_data, send_partial
  <2> QED BY <2>1, SameEdges
<1>13. CASE UNCHANGED vars
  BY <1>13, SameEdges DEF vars, client_vars, conn_vars
<1> QED BY <1>1, <1>2, <1>3, <1>4, <1>5, <1>6, <1>7, <1>8, <1>9, <1>10, <1>11, <1>12,
           <1>13 DEF Next

-----------------------------------------------------------------------------
(* Types, part by part.                                                     *)

ClientTypes ==
  /\ client \in Clients
  /\ snd_una \in 0 .. (ClientBytes + 1) /\ snd_nxt \in snd_una .. (ClientBytes + 1)
  /\ told \in (-1 .. ServerBytes) \X (0 .. Units(ClientBuffer))
  /\ Len(tun) <= MaxTun /\ tun \in Seq(Packets)

CountTypes ==
  /\ taken \in 0 .. srv_sent /\ rcv_nxt \in 0 .. taken /\ unread \in 0 .. rcv_nxt
  /\ edge \in rcv_nxt .. (rcv_nxt + Units(ClientBuffer) * Unit)
  /\ srv_sent \in 0 .. ServerBytes

SeqTypes ==
  /\ client_seq \in 0 .. (SeqMod - 1) /\ zdtun_seq \in 0 .. (SeqMod - 1)
  /\ window_size \in 0 .. (SeqMod - 1)

QueueTypes ==
  /\ tx_queue \in Seq(Int) /\ srv_got \in Seq(Int)
  /\ ready \in {"none", "read", "write"}

Flags ==
  /\ selectable \in BOOLEAN /\ sock \in BOOLEAN /\ shut \in BOOLEAN
  /\ client_closed \in BOOLEAN /\ fin_ack_sent \in BOOLEAN /\ open \in BOOLEAN
  /\ fin_rcvd \in BOOLEAN /\ srv_closed \in BOOLEAN
  /\ guessed \in BOOLEAN /\ filled \in BOOLEAN

LEMMA PartsOfTyped ==
  ASSUME Typed
  PROVE  ClientTypes /\ CountTypes /\ SeqTypes /\ QueueTypes /\ Flags
<1>1. ClientTypes /\ CountTypes /\ SeqTypes /\ QueueTypes
  BY DEF Typed, TypeOK, ClientTypes, CountTypes, SeqTypes, QueueTypes
<1>2. Flags
  <2>1. {selectable, sock, shut, client_closed, fin_ack_sent, open, fin_rcvd, srv_closed,
         guessed, filled} \subseteq BOOLEAN
    BY DEF Typed, TypeOK
  <2> QED BY <2>1 DEF Flags
<1> QED BY <1>1, <1>2

LEMMA TypedOfParts ==
  ASSUME ClientTypes, CountTypes, SeqTypes, QueueTypes, Flags
  PROVE  Typed
<1>1. {selectable, sock, shut, client_closed, fin_ack_sent, open, fin_rcvd, srv_closed,
       guessed, filled} \subseteq BOOLEAN
  BY DEF Flags
<1> QED BY <1>1 DEF Typed, TypeOK, ClientTypes, CountTypes, SeqTypes, QueueTypes, Flags

LEMMA TypedOfPartsNext ==
  ASSUME ClientTypes', CountTypes', SeqTypes', QueueTypes', Flags'
  PROVE  Typed'
<1>1. ({selectable, sock, shut, client_closed, fin_ack_sent, open, fin_rcvd, srv_closed,
        guessed, filled} \subseteq BOOLEAN)'
  BY DEF Flags
<1> QED BY <1>1 DEF Typed, TypeOK, ClientTypes, CountTypes, SeqTypes, QueueTypes, Flags

LEMMA SendsTyped ==
  ASSUME Typed, NEW pos \in Int, NEW len \in Nat, NEW fin \in BOOLEAN,
         pos + len + (IF fin THEN 1 ELSE 0) <= ClientBytes + 1, Sends(pos, len, fin),
         client' = client
  PROVE  ClientTypes'
<1>1. ClientTypes /\ CountTypes
  BY PartsOfTyped
<1>2. rcv_nxt \in 0 .. ServerBytes /\ Offered \in 0 .. Units(ClientBuffer)
  BY Numbers, OfferedIs
<1>3. Packet(pos, len, fin) \in Packets
  <2>1. (ClientIsn + pos + SeqMod) % SeqMod \in Int
    BY Constants, Modulo
  <2>2. ZdtunWire(rcv_nxt) \in Int
    BY <1>2, WireIs
  <2> QED BY <1>2, <2>1, <2>2 DEF Packet, Packets
<1>4. tun' = Append(tun, Packet(pos, len, fin)) /\ Len(tun) < MaxTun /\ told' = <<rcv_nxt, Offered>>
      /\ snd_una' = snd_una
  BY DEF Sends
<1>5. tun' \in Seq(Packets) /\ Len(tun') <= MaxTun
  <2>1. tun \in Seq(Packets)
    BY <1>1 DEF ClientTypes
  <2> HIDE DEF Packet, Packets
  <2> QED BY <1>3, <1>4, <2>1, Constants
<1>6. snd_nxt' \in snd_una .. (ClientBytes + 1)
  <2>1. snd_una \in Nat /\ snd_nxt \in snd_una .. (ClientBytes + 1) /\ ClientBytes \in Nat
    BY <1>1, Constants DEF ClientTypes
  <2> DEFINE last == pos + len + (IF fin THEN 1 ELSE 0)
  <2>2. last \in Int /\ last <= ClientBytes + 1
    OBVIOUS
  <2>3. snd_nxt' = IF last > snd_nxt THEN last ELSE snd_nxt
    BY DEF Sends
  <2> HIDE DEF last
  <2> QED BY <2>1, <2>2, <2>3
<1> QED BY <1>1, <1>2, <1>4, <1>5, <1>6 DEF ClientTypes

LEMMA SendsKeepsTypes ==
  ASSUME Typed, NEW pos \in Int, NEW len \in Nat, NEW fin \in BOOLEAN,
         pos + len + (IF fin THEN 1 ELSE 0) <= ClientBytes + 1, Sends(pos, len, fin),
         client' = client
  PROVE  Typed'
<1>1. ClientTypes'
  BY SendsTyped
<1>2. ClientTypes /\ CountTypes /\ SeqTypes /\ QueueTypes /\ Flags
  BY PartsOfTyped
<1>3. UNCHANGED <<rcv_nxt, unread, fin_rcvd, conn_vars, ready, server_vars>>
  BY DEF Sends
<1>4. (SeqTypes /\ QueueTypes /\ Flags)'
  BY <1>2, <1>3 DEF SeqTypes, QueueTypes, Flags, conn_vars, server_vars
<1>5. CountTypes'
  <2> DEFINE w == Offered * Unit
  <2>1. edge' = rcv_nxt + w /\ w \in 0 .. FullWindow
    BY OfferedIs DEF Sends
  <2> HIDE DEF w
  <2>2. edge' \in rcv_nxt .. (rcv_nxt + FullWindow)
    BY <2>1, Numbers
  <2> QED BY <1>2, <1>3, <2>2 DEF CountTypes, FullWindow, conn_vars, server_vars
<1> QED BY <1>1, <1>4, <1>5, TypedOfPartsNext

LEMMA AckTyped ==
  ASSUME Typed, NEW seq, AckClient(seq)
  PROVE  snd_una' \in snd_una .. snd_nxt
<1>1. snd_una \in snd_una .. snd_nxt
  BY PartsOfTyped, Constants DEF ClientTypes
<1>2. Acknowledged(seq) \in snd_una .. snd_nxt
  BY <1>1 DEF Acknowledged
<1> QED BY <1>2 DEF AckClient

LEMMA ForwardTypes ==
  ASSUME Typed, handle_tcp_fwd, client' = client
  PROVE  ClientTypes' /\ CountTypes' /\ SeqTypes' /\ QueueTypes' /\ Flags'
<1> DEFINE h == Head(tun)
<1>0. ClientTypes /\ CountTypes /\ SeqTypes /\ QueueTypes /\ Flags
  BY PartsOfTyped
<1>1. /\ tun # <<>> /\ tun' = Tail(tun)
      /\ UNCHANGED <<snd_nxt, rcv_nxt, unread, edge, fin_rcvd, told, zdtun_seq, sock,
                     fin_ack_sent, taken, filled, ready, srv_sent, srv_closed>>
  BY DEF handle_tcp_fwd
<1>1b. /\ fin_rcvd' = fin_rcvd /\ sock' = sock /\ fin_ack_sent' = fin_ack_sent
       /\ srv_closed' = srv_closed /\ filled' = filled
  BY <1>1
<1>2. h \in Packets /\ tun' \in Seq(Packets) /\ Len(tun') <= MaxTun
  <2>1. tun \in Seq(Packets) /\ Len(tun) <= MaxTun
    BY <1>0 DEF ClientTypes
  <2> HIDE DEF Packets
  <2> QED BY <1>1, <2>1, Constants
<1>3. h.len \in Nat /\ h.pos \in Int /\ h.ack \in Int
  BY <1>2 DEF Packets
<1>3b. h.win * Unit \in Int
  <2>1. 1 \in DOMAIN tun /\ h = tun[1]
    BY <1>1 DEF Typed
  <2> HIDE DEF h
  <2> QED BY <2>1, SpaceOf, Windows
<1>4. Payload(h) \in Seq(Int)
  <2> HIDE DEF h
  <2> QED BY <1>3 DEF Payload
<1> HIDE DEF h
<1>5. client_seq \in Int /\ Len(tx_queue) \in Nat /\ zdtun_seq \in Int /\ SeqMod \in Nat \ {0}
  BY <1>0, Constants DEF SeqTypes, QueueTypes
<1>6. (h.win * Unit - in_flight(h.ack)) % SeqMod \in 0 .. (SeqMod - 1)
  <2>1. in_flight(h.ack) \in Int
    BY <1>3, <1>5 DEF in_flight
  <2>2. h.win * Unit - in_flight(h.ack) \in Int
    BY <1>3b, <2>1
  <2> QED BY <1>5, <2>2, Modulo
<1>7. /\ (client_seq + h.len) % SeqMod \in 0 .. (SeqMod - 1)
      /\ (client_seq + h.len + 1) % SeqMod \in 0 .. (SeqMod - 1)
  <2>1. client_seq + h.len \in Int /\ client_seq + h.len + 1 \in Int
    BY <1>3, <1>5
  <2> QED BY <1>5, <2>1, Modulo
<1>8. tx_queue \o Payload(h) \in Seq(Int) /\ <<>> \in Seq(Int)
  BY <1>0, <1>4 DEF QueueTypes
<1>9. ASSUME forward_fin(h)
      PROVE  snd_una' \in snd_una .. snd_nxt /\ SeqTypes' /\ QueueTypes' /\ Flags'
  <2>1. snd_una' \in snd_una .. snd_nxt
    BY <1>9, AckTyped DEF forward_fin
  <2>2. SeqTypes'
    BY <1>0, <1>1, <1>7, <1>9 DEF SeqTypes, forward_fin
  <2>3. QueueTypes'
    BY <1>0, <1>1, <1>8, <1>9 DEF QueueTypes, forward_fin
  <2>4. Flags'
    BY <1>0, <1>1b, <1>9 DEF Flags, forward_fin
  <2> QED BY <2>1, <2>2, <2>3, <2>4
<1>10. ASSUME forward_ack(h)
       PROVE  snd_una' \in snd_una .. snd_nxt /\ SeqTypes' /\ QueueTypes' /\ Flags'
  <2>1. snd_una' \in snd_una .. snd_nxt
    <3>1. snd_una \in snd_una .. snd_nxt
      BY <1>0, Constants DEF ClientTypes
    <3>2. snd_una' = snd_una \/ \E seq : AckClient(seq)
      BY <1>10, Zenon DEF forward_ack
    <3> QED BY <3>1, <3>2, AckTyped
  <2>2. SeqTypes'
    BY <1>0, <1>1, <1>6, <1>7, <1>10 DEF SeqTypes, forward_ack
  <2>3. QueueTypes'
    BY <1>0, <1>1, <1>8, <1>10 DEF QueueTypes, forward_ack
  <2>4. Flags'
    <3>1. selectable' \in BOOLEAN /\ guessed' \in BOOLEAN
      BY <1>0, <1>10 DEF Flags, forward_ack
    <3>2. shut' = shut /\ client_closed' = client_closed /\ open' = open
      BY <1>10 DEF forward_ack
    <3> QED BY <1>0, <1>1b, <3>1, <3>2 DEF Flags
  <2> QED BY <2>1, <2>2, <2>3, <2>4
<1>11. ASSUME UNCHANGED <<client_seq, snd_una, window_size, guessed, selectable, tx_queue,
                          shut, client_closed, open, srv_got>>
       PROVE  snd_una' \in snd_una .. snd_nxt /\ SeqTypes' /\ QueueTypes' /\ Flags'
  <2>1. snd_una' \in snd_una .. snd_nxt
    BY <1>0, <1>11, Constants DEF ClientTypes
  <2>2. SeqTypes' /\ QueueTypes'
    BY <1>0, <1>1, <1>11 DEF SeqTypes, QueueTypes
  <2>3. /\ selectable' = selectable /\ shut' = shut /\ client_closed' = client_closed
        /\ open' = open /\ guessed' = guessed
    BY <1>11
  <2>4. Flags'
    BY <1>0, <1>1b, <2>3 DEF Flags
  <2> QED BY <2>1, <2>2, <2>4
<1>12. snd_una' \in snd_una .. snd_nxt /\ SeqTypes' /\ QueueTypes' /\ Flags'
  <2>1. \/ forward_fin(h) \/ forward_ack(h)
        \/ UNCHANGED <<client_seq, snd_una, window_size, guessed, selectable, tx_queue,
                       shut, client_closed, open, srv_got>>
    BY Zenon DEF handle_tcp_fwd, h
  <2> QED BY <1>9, <1>10, <1>11, <2>1, Zenon
<1>13. ClientTypes'
  BY <1>0, <1>1, <1>2, <1>12, Constants DEF ClientTypes
<1>14. CountTypes'
  BY <1>0, <1>1 DEF CountTypes
<1> QED BY <1>12, <1>13, <1>14

LEMMA ReplyTypes ==
  ASSUME Typed, handle_tcp_reply, client' = client
  PROVE  ClientTypes' /\ CountTypes' /\ SeqTypes' /\ QueueTypes' /\ Flags'
<1> DEFINE len == Least(Least(window_size, Mss), srv_sent - taken)
<1>0. ClientTypes /\ CountTypes /\ SeqTypes /\ QueueTypes /\ Flags
  BY PartsOfTyped
<1>1. /\ IF len = 0 THEN server_closed ELSE server_data(len)
      /\ ready' = "none"
      /\ UNCHANGED <<snd_una, snd_nxt, edge, tun, client_seq, shut, client_closed, guessed,
                     srv_sent, srv_closed, srv_got>>
  BY DEF handle_tcp_reply, server_vars
<1>1b. /\ shut' = shut /\ client_closed' = client_closed /\ srv_closed' = srv_closed
       /\ guessed' = guessed
  BY <1>1
<1>2. /\ srv_sent \in 0 .. ServerBytes /\ taken \in 0 .. srv_sent /\ rcv_nxt \in 0 .. taken
      /\ unread \in 0 .. rcv_nxt /\ edge \in rcv_nxt .. (rcv_nxt + FullWindow)
      /\ window_size \in 0 .. (SeqMod - 1) /\ Mss \in Nat /\ SeqMod \in Nat \ {0}
      /\ ServerBytes \in Nat /\ FullWindow \in Nat /\ zdtun_seq \in Int
  BY <1>0, Constants, Windows DEF CountTypes, SeqTypes, FullWindow
<1>3. len \in Nat /\ len <= window_size /\ len <= srv_sent - taken
  BY <1>2 DEF Least
<1> HIDE DEF len
<1>4. ASSUME told' \in (-1 .. ServerBytes) \X (0 .. Units(ClientBuffer))
      PROVE  ClientTypes'
  BY <1>0, <1>1, <1>4 DEF ClientTypes
<1>5. CASE server_closed
  <2>1. (zdtun_seq + 1) % SeqMod \in 0 .. (SeqMod - 1)
    BY <1>2, Modulo
  <2>2. CountTypes'
    BY <1>0, <1>1, <1>5 DEF CountTypes, server_closed
  <2>3. SeqTypes'
    BY <1>0, <1>1, <1>5, <2>1 DEF SeqTypes, server_closed
  <2>4. QueueTypes'
    BY <1>0, <1>1, <1>5 DEF QueueTypes, server_closed
  <2>5. Flags'
    <3>1. (fin_rcvd \/ taken = rcv_nxt) \in BOOLEAN
      BY <1>0 DEF Flags
    <3> QED BY <1>0, <1>1b, <1>5, <3>1 DEF Flags, server_closed
  <2>6. ClientTypes'
    <3>1. told' = told
      BY <1>5 DEF server_closed
    <3> QED BY <1>0, <1>4, <3>1 DEF ClientTypes
  <2> QED BY <2>2, <2>3, <2>4, <2>5, <2>6
<1>6. CASE server_data(len)
  <2> DEFINE kept == IF taken = rcv_nxt THEN Least(len, Window) ELSE 0
  <2>1. kept \in Nat /\ kept <= len /\ kept <= Window /\ Window = edge - rcv_nxt
    BY <1>2, <1>3 DEF Least, Window
  <2>2. /\ rcv_nxt' = rcv_nxt + kept /\ unread' = unread + kept
        /\ taken' = taken + len
        /\ window_size' = window_size - len
        /\ zdtun_seq' = (zdtun_seq + len) % SeqMod
        /\ told' = IF kept = len THEN told ELSE <<-1, 0>>
    BY <1>6 DEF server_data, client_takes
  <2>3. /\ selectable' = (window_size # len)
        /\ filled' = (filled \/ (guessed /\ taken + len >= ClientBuffer))
        /\ fin_rcvd' = fin_rcvd /\ fin_ack_sent' = fin_ack_sent /\ sock' = sock
        /\ open' = open /\ tx_queue' = tx_queue
    BY <1>6 DEF server_data
  <2> HIDE DEF kept
  <2>4. CountTypes'
    <3>1. /\ taken + len \in 0 .. srv_sent /\ rcv_nxt + kept \in 0 .. (taken + len)
          /\ unread + kept \in 0 .. (rcv_nxt + kept)
          /\ edge \in (rcv_nxt + kept) .. ((rcv_nxt + kept) + FullWindow)
      BY <1>2, <1>3, <2>1
    <3> QED BY <1>1, <1>2, <2>2, <3>1 DEF CountTypes, FullWindow
  <2>5. SeqTypes'
    <3>1. (zdtun_seq + len) % SeqMod \in 0 .. (SeqMod - 1)
      BY <1>2, <1>3, Modulo
    <3> QED BY <1>0, <1>1, <1>2, <1>3, <2>2, <3>1 DEF SeqTypes
  <2>6. QueueTypes'
    BY <1>0, <1>1, <2>3 DEF QueueTypes
  <2>7. Flags'
    <3>1. /\ (window_size # len) \in BOOLEAN
          /\ (filled \/ (guessed /\ taken + len >= ClientBuffer)) \in BOOLEAN
      BY <1>0, Zenon DEF Flags
    <3> QED BY <1>0, <1>1b, <2>3, <3>1 DEF Flags
  <2>8. ClientTypes'
    <3>1. <<-1, 0>> \in (-1 .. ServerBytes) \X (0 .. Units(ClientBuffer))
      BY <1>2, UnitsIs, Constants
    <3> QED BY <1>0, <1>4, <2>2, <3>1 DEF ClientTypes
  <2> QED BY <2>4, <2>5, <2>6, <2>7, <2>8
<1> QED BY <1>1, <1>5, <1>6

LEMMA QueuedTypes ==
  ASSUME Typed, handle_queued_tcp_data, client' = client
  PROVE  ClientTypes' /\ CountTypes' /\ SeqTypes' /\ QueueTypes' /\ Flags'
<1>0. ClientTypes /\ CountTypes /\ SeqTypes /\ QueueTypes /\ Flags
  BY PartsOfTyped
<1>1. /\ ready' = "none"
      /\ UNCHANGED <<snd_nxt, rcv_nxt, unread, edge, fin_rcvd, told, tun, zdtun_seq,
                     window_size, selectable, shut, client_closed, fin_ack_sent, taken,
                     guessed, filled, srv_sent, srv_closed>>
  BY DEF handle_queued_tcp_data
<1>1b. /\ fin_rcvd' = fin_rcvd /\ selectable' = selectable /\ shut' = shut
       /\ client_closed' = client_closed /\ fin_ack_sent' = fin_ack_sent
       /\ srv_closed' = srv_closed /\ guessed' = guessed /\ filled' = filled
  BY <1>1
<1>2. CountTypes'
  BY <1>0, <1>1 DEF CountTypes
<1>3. CASE shut
  <2>1. open' = FALSE /\ sock' = FALSE /\ tx_queue' = <<>>
        /\ UNCHANGED <<client_seq, snd_una, srv_got>>
    BY <1>3 DEF handle_queued_tcp_data
  <2>2. ClientTypes' /\ SeqTypes'
    BY <1>0, <1>1, <2>1 DEF ClientTypes, SeqTypes
  <2>3. QueueTypes'
    BY <1>0, <1>1, <2>1 DEF QueueTypes
  <2>4. Flags'
    BY <1>0, <1>1b, <2>1 DEF Flags
  <2> QED BY <1>2, <2>2, <2>3, <2>4
<1>4. CASE ~shut
  <2>1. PICK n \in 1 .. Len(tx_queue) : send_partial(n)
    BY <1>4 DEF handle_queued_tcp_data
  <2>2. snd_una' \in snd_una .. snd_nxt
    BY <2>1, AckTyped DEF send_partial
  <2>3. ClientTypes'
    BY <1>0, <1>1, <2>2, Constants DEF ClientTypes
  <2>4. SeqTypes'
    <3>1. (client_seq + n) % SeqMod \in 0 .. (SeqMod - 1)
      <4>1. client_seq + n \in Int
        BY <1>0, Constants DEF SeqTypes, QueueTypes
      <4> QED BY <4>1, Constants, Modulo
    <3> QED BY <1>0, <1>1, <2>1, <3>1 DEF SeqTypes, send_partial
  <2>5. QueueTypes'
    <3>1. tx_queue \in Seq(Int) /\ srv_got \in Seq(Int) /\ Len(tx_queue) \in Nat
      BY <1>0 DEF QueueTypes
    <3>2. /\ SubSeq(tx_queue, 1, n) \in Seq(Int)
          /\ SubSeq(tx_queue, n + 1, Len(tx_queue)) \in Seq(Int)
      BY <3>1
    <3>3. tx_queue' \in Seq(Int) /\ srv_got' \in Seq(Int)
      BY <2>1, <3>1, <3>2 DEF send_partial
    <3> QED BY <1>1, <3>3 DEF QueueTypes
  <2>6. Flags'
    <3>1. open' = open /\ sock' = sock
      BY <2>1 DEF send_partial
    <3> QED BY <1>0, <1>1b, <3>1 DEF Flags
  <2> QED BY <1>2, <2>3, <2>4, <2>5, <2>6
<1> QED BY <1>3, <1>4

LEMMA RestTypes ==
  ASSUME Typed, client' = client, ClientRead \/ ServerSend \/ ServerClose \/ select
  PROVE  ClientTypes' /\ CountTypes' /\ SeqTypes' /\ QueueTypes' /\ Flags'
<1>0. ClientTypes /\ CountTypes /\ SeqTypes /\ QueueTypes /\ Flags
  BY PartsOfTyped
<1>1. UNCHANGED <<snd_una, snd_nxt, told, tun, conn_vars, rcv_nxt, edge, fin_rcvd, srv_got>>
  BY DEF ClientRead, ServerSend, ServerClose, select, client_vars, server_vars
<1>2. ClientTypes' /\ SeqTypes' /\ QueueTypes'
  <2>1. ready' \in {"none", "read", "write"}
    BY <1>0 DEF QueueTypes, ClientRead, ServerSend, ServerClose, select, server_vars
  <2> QED BY <1>0, <1>1, <2>1 DEF ClientTypes, SeqTypes, QueueTypes, conn_vars
<1>3. Flags'
  <2>1. srv_closed' \in BOOLEAN
    BY <1>0 DEF Flags, ClientRead, ServerSend, ServerClose, select, server_vars
  <2> QED BY <1>0, <1>1, <2>1 DEF Flags, conn_vars
<1>4. CountTypes'
  <2>1. \/ unread' = unread /\ srv_sent' = srv_sent
        \/ unread' = 0 /\ srv_sent' = srv_sent
        \/ unread' = unread /\ srv_sent < ServerBytes /\ srv_sent' = srv_sent + 1
    BY DEF ClientRead, ServerSend, ServerClose, select, client_vars, server_vars
  <2>2. taken' = taken
    BY <1>1 DEF conn_vars
  <2> QED BY <1>0, <1>1, <2>1, <2>2, Constants DEF CountTypes
<1> QED BY <1>2, <1>3, <1>4

LEMMA NextTyped ==
  ASSUME Typed, [Next]_vars
  PROVE  Typed'
<1>0. ClientTypes /\ CountTypes /\ SeqTypes /\ QueueTypes /\ Flags
  BY PartsOfTyped
<1>1. client' = client
  BY DEF Next, vars
<1>2. /\ snd_una \in Nat /\ snd_nxt \in Nat /\ snd_nxt <= ClientBytes + 1 /\ snd_una <= snd_nxt
      /\ ClientBytes \in Nat /\ Mss \in Nat
  BY <1>0, Constants DEF ClientTypes
<1>3. ASSUME NEW pos \in Int, NEW len \in Nat, Sends(pos, len, FALSE), pos + len <= ClientBytes + 1
      PROVE  Typed'
  <2>1. pos + len + (IF FALSE THEN 1 ELSE 0) <= ClientBytes + 1
    BY <1>2, <1>3
  <2> QED BY <1>1, <1>3, <2>1, SendsKeepsTypes
<1>4. ASSUME NEW pos \in Int, NEW len \in Nat, Sends(pos, len, TRUE), pos + len <= ClientBytes
      PROVE  Typed'
  <2>1. pos + len + (IF TRUE THEN 1 ELSE 0) <= ClientBytes + 1
    BY <1>2, <1>4
  <2> QED BY <1>1, <1>4, <2>1, SendsKeepsTypes
<1>5. CASE ClientSend
  <2> PICK len \in 1 .. Mss : snd_nxt + len <= ClientBytes /\ Sends(snd_nxt, len, FALSE)
    BY <1>5 DEF ClientSend
  <2>1. snd_nxt \in Int /\ len \in Nat /\ snd_nxt + len <= ClientBytes + 1
    BY <1>2
  <2> QED BY <1>3, <2>1, Zenon
<1>6. CASE ClientFin
  <2> PICK len \in 0 .. Mss : snd_nxt + len = ClientBytes /\ Sends(snd_nxt, len, TRUE)
    BY <1>6 DEF ClientFin
  <2>1. snd_nxt \in Int /\ len \in Nat /\ snd_nxt + len <= ClientBytes
    BY <1>2
  <2> QED BY <1>4, <2>1, Zenon
<1>7. CASE ClientRetransmit
  <2> DEFINE len == Least(Mss, Least(snd_nxt, ClientBytes) - snd_una)
  <2>1. ASSUME len > 0, Sends(snd_una, len, FALSE)
        PROVE  Typed'
    <3>1. snd_una \in Int /\ len \in Nat /\ snd_una + len <= ClientBytes + 1
      BY <1>2, <2>1 DEF Least
    <3> HIDE DEF len
    <3> QED BY <1>3, <2>1, <3>1, Zenon
  <2>2. CASE Sends(ClientBytes, 0, TRUE)
    <3>1. ClientBytes \in Int /\ 0 \in Nat /\ ClientBytes + 0 <= ClientBytes
      BY <1>2
    <3> QED BY <1>4, <2>2, <3>1, Zenon
  <2> QED BY <1>7, <2>1, <2>2 DEF ClientRetransmit
<1>8. CASE ClientKeepAlive
  <2>1. snd_nxt - 1 \in Int /\ 0 \in Nat /\ (snd_nxt - 1) + 0 <= ClientBytes + 1
    BY <1>2
  <2>2. Sends(snd_nxt - 1, 0, FALSE)
    BY <1>8 DEF ClientKeepAlive
  <2> QED BY <1>3, <2>1, <2>2, Zenon
<1>9. CASE ClientAck
  <2>1. snd_nxt \in Int /\ 0 \in Nat /\ snd_nxt + 0 <= ClientBytes + 1
    BY <1>2
  <2>2. Sends(snd_nxt, 0, FALSE)
    BY <1>9 DEF ClientAck
  <2> QED BY <1>3, <2>1, <2>2, Zenon
<1>10. CASE ClientRead \/ ServerSend \/ ServerClose \/ select
  BY <1>1, <1>10, RestTypes, TypedOfPartsNext
<1>11. CASE handle_tcp_fwd
  BY <1>1, <1>11, ForwardTypes, TypedOfPartsNext
<1>12. CASE handle_tcp_reply
  BY <1>1, <1>12, ReplyTypes, TypedOfPartsNext
<1>13. CASE handle_queued_tcp_data
  BY <1>1, <1>13, QueuedTypes, TypedOfPartsNext
<1>14. CASE UNCHANGED vars
  <2>1. (ClientTypes /\ CountTypes)'
    BY <1>0, <1>14 DEF ClientTypes, CountTypes, vars, client_vars, conn_vars, server_vars
  <2>2. (SeqTypes /\ QueueTypes)'
    BY <1>0, <1>14 DEF SeqTypes, QueueTypes, vars, conn_vars, server_vars
  <2>3. Flags'
    BY <1>0, <1>14 DEF Flags, vars, client_vars, conn_vars, server_vars
  <2> QED BY <2>1, <2>2, <2>3, TypedOfPartsNext
<1> QED BY <1>5, <1>6, <1>7, <1>8, <1>9, <1>10, <1>11, <1>12, <1>13, <1>14 DEF Next

LEMMA InitTyped ==
  ASSUME Init
  PROVE  Typed
<1>1. ZdtunWire(0) \in 0 .. (SeqMod - 1)
  BY Constants, WireIs
<1>2. ClientWire(0) \in 0 .. (SeqMod - 1)
  <2>1. ClientIsn + 0 \in Int
    BY Constants
  <2> QED BY <2>1, Constants, Modulo DEF ClientWire
<1>3. ClientTypes
  <2>1. <<>> \in Seq(Packets) /\ Len(<<>>) = 0
    OBVIOUS
  <2>2. <<-1, 0>> \in (-1 .. ServerBytes) \X (0 .. Units(ClientBuffer))
    BY UnitsIs, Constants
  <2> QED BY <2>1, <2>2, Constants DEF Init, ClientTypes
<1>4. CountTypes
  <2>1. ClientBuffer \in 0 .. (0 + FullWindow)
    BY Constants, Windows
  <2> QED BY <2>1, Constants DEF Init, CountTypes, FullWindow
<1>5. SeqTypes
  <2>1. ClientBuffer * Unit \in 0 .. (SeqMod - 1)
    BY Constants, Windows
  <2> QED BY <1>1, <1>2, <2>1 DEF Init, SeqTypes
<1>6. QueueTypes
  BY DEF Init, QueueTypes
<1>7. Flags
  BY DEF Init, Flags
<1> QED BY <1>3, <1>4, <1>5, <1>6, <1>7, TypedOfParts

LEMMA InitEdges ==
  ASSUME Init
  PROVE  WInv
<1>1. DOMAIN tun = {} /\ taken = 0 /\ rcv_nxt = 0 /\ edge = ClientBuffer
  BY DEF Init
<1>2. Edges
  BY <1>1 DEF Edges
<1>3. Window = ClientBuffer /\ window_size = ClientBuffer * Unit /\ ClientBuffer \in Nat \ {0}
  BY <1>1, Constants DEF Init, Window
<1>4. ~guessed => window_size = ClientBuffer
  <2>1. ~guessed => Unit = 1
    BY Zenon DEF Init
  <2> QED BY <1>3, <2>1
<1>5. WindowSound
  BY <1>1, <1>3, <1>4 DEF Init, WindowSound
<1>6. Floor = ClientBuffer /\ ClientBuffer <= window_size
  BY <1>1, <1>3, <1>4, Windows DEF Floor
<1> QED BY <1>2, <1>3, <1>5, <1>6 DEF WInv

-----------------------------------------------------------------------------
(* The sequence numbers, the window and the queue keep their types, for     *)
(* packets of handle_tcp_fwd in any order and any split of the streams.     *)
THEOREM TcpTypeSafe == Spec => []TypeOK
<1>1. Init => Typed
  BY InitTyped
<1>2. Typed /\ [Next]_vars => Typed'
  BY NextTyped
<1>3. Typed => TypeOK
  BY DEF Typed
<1> QED BY <1>1, <1>2, <1>3, PTL DEF Spec

(* The bytes that handle_tcp_reply takes never fall outside the client's    *)
(* window, and after its first ACK zdtun knows a window no wider than that, *)
(* unless zdtun used up the window of the SYN before: the updates that wait *)
(* in the tun device tell right edges that only grow, and the one in use is *)
(* the oldest.                                                              *)
THEOREM WindowSoundSafe == Spec => []WindowSound
<1>1. Init => Typed /\ WInv
  BY InitTyped, InitEdges
<1>2. Typed /\ WInv /\ [Next]_vars => (Typed /\ WInv)'
  BY NextTyped, NextEdges
<1>3. WInv => WindowSound
  BY DEF WInv, WindowSound
<1> QED BY <1>1, <1>2, <1>3, PTL DEF Spec

-----------------------------------------------------------------------------
(* The connection implements the byte pipes of TcpRelay.                    *)

(* What a socket event finds: bytes are asked for only when the window has  *)
(* room, so recv() = 0 is the server's close, unless the download was cut.  *)
Readiness ==
  /\ sock => ~fin_rcvd /\ open = TRUE
  /\ sock /\ ~filled /\ selectable => window_size > 0
  /\ ready = "read" => sock /\ selectable
  /\ ready = "write" => sock /\ tx_queue # <<>>

(* The position client_seq stands for.                                      *)
Mark == IF client_closed THEN ClientBytes + 1 ELSE Len(srv_got)
Start == Mark + Len(tx_queue)

Goes(pkt) == pkt.len > 0 \/ pkt.fin
Extent(pkt) == pkt.pos + pkt.len + (IF pkt.fin THEN 1 ELSE 0)

(* What a patient client sent is given to the server or waits, in order, in *)
(* the transmit queue; its FIN comes after all of it.                       *)
Stream ==
  /\ client_seq = ClientWire(Mark)
  /\ \A i \in DOMAIN srv_got : srv_got[i] = i - 1
  /\ \A i \in DOMAIN tx_queue : tx_queue[i] = Len(srv_got) + i - 1
  /\ Len(srv_got) + Len(tx_queue) <= ClientBytes /\ Start <= snd_nxt
  /\ Least(snd_una, ClientBytes) <= Len(srv_got)
  /\ FinSent => Len(srv_got) = ClientBytes
  /\ shut => client_closed
  /\ client_closed => FinSent

(* Its packets that wait are those of the rest of the stream, in order.     *)
WaitingAt(i, start) ==
  LET p == tun[i] IN
  /\ p.seq = (ClientIsn + p.pos + SeqMod) % SeqMod
  /\ -1 <= p.pos /\ Extent(p) <= snd_nxt
  /\ p.len > 0 => p.pos + p.len <= ClientBytes
  /\ p.fin => p.pos + p.len = ClientBytes
  /\ Goes(p) => start <= p.pos
  /\ \A j \in DOMAIN tun : i < j /\ Goes(tun[j]) => Extent(p) <= tun[j].pos

Waiting == \A i \in DOMAIN tun : WaitingAt(i, Start)

Pipe == Patient /\ sock => Stream /\ Waiting

-----------------------------------------------------------------------------
(* Readiness. *)

LEMMA ForwardReady ==
  ASSUME Typed, WInv, Readiness, handle_tcp_fwd
  PROVE  Readiness'
<1> DEFINE h == Head(tun)
<1>1. /\ ready = "none" /\ ready' = ready /\ sock' = sock /\ fin_rcvd' = fin_rcvd
      /\ tun # <<>> /\ filled' = filled
  BY DEF handle_tcp_fwd
<1> SUFFICES ASSUME sock
             PROVE  ~fin_rcvd' /\ open' = TRUE /\ (~filled /\ selectable' => window_size' > 0)
  BY <1>1 DEF Readiness
<1>2. ~fin_rcvd' /\ open = TRUE /\ (~filled /\ selectable => window_size > 0)
  BY <1>1 DEF Readiness
<1>3. h = tun[1]
  BY <1>1 DEF Typed
<1> HIDE DEF h
<1>4. CASE forward_fin(h)
  BY <1>2, <1>4 DEF forward_fin
<1>5. CASE forward_ack(h)
  <2> DEFINE window == (h.win * Unit - in_flight(h.ack)) % SeqMod
  <2>1. open' = open
    BY <1>5 DEF forward_ack
  <2>2. \/ window_size' = window /\ (selectable' => selectable \/ window > 0)
        \/ window_size' = window_size /\ selectable' = selectable
    BY <1>5 DEF forward_ack
  <2>3. ~filled /\ selectable => window > 0
    <3> SUFFICES ASSUME ~filled, selectable PROVE window > 0
      OBVIOUS
    <3>1. window = Edge(h) /\ Floor <= Edge(h) /\ Edge(h) \in Int
      BY <1>1, <1>3, TakenEdge, Windows
    <3>2. guessed => 0 < Floor
      BY DEF WInv
    <3>3. ~guessed => 0 < Floor
      BY <1>2 DEF Floor
    <3> HIDE DEF window
    <3> QED BY <3>1, <3>2, <3>3, Numbers
  <2> HIDE DEF window
  <2>4. ~filled /\ selectable' => window_size' > 0
    <3> SUFFICES ASSUME ~filled, selectable' PROVE window_size' > 0
      OBVIOUS
    <3>1. CASE window_size' = window /\ (selectable' => selectable \/ window > 0)
      <4>1. CASE selectable
        BY <2>3, <3>1, <4>1
      <4>2. CASE window > 0
        BY <3>1, <4>2
      <4> QED BY <3>1, <4>1, <4>2
    <3>2. CASE window_size' = window_size /\ selectable' = selectable
      <4>1. selectable
        BY <3>2, Zenon
      <4> QED BY <1>2, <3>2, <4>1
    <3> QED BY <2>2, <3>1, <3>2, Zenon
  <2> QED BY <1>2, <2>1, <2>4
<1>6. CASE UNCHANGED <<client_seq, snd_una, window_size, guessed, selectable, tx_queue,
                       shut, client_closed, open, srv_got>>
  BY <1>2, <1>6
<1> QED BY <1>4, <1>5, <1>6, Zenon DEF handle_tcp_fwd, h

LEMMA NextReady ==
  ASSUME Typed, WInv, Readiness, [Next]_vars
  PROVE  Readiness'
<1>0. ClientTypes /\ CountTypes /\ SeqTypes /\ QueueTypes /\ Flags
  BY PartsOfTyped
<1>1. CASE UNCHANGED <<fin_rcvd, conn_vars, ready>>
  BY <1>1 DEF Readiness, conn_vars
<1>2. CASE ClientSend \/ ClientFin \/ ClientRetransmit \/ ClientKeepAlive \/ ClientAck
  BY <1>1, <1>2 DEF ClientSend, ClientFin, ClientRetransmit, ClientKeepAlive, ClientAck, Sends
<1>3. CASE ClientRead \/ ServerSend \/ ServerClose \/ UNCHANGED vars
  BY <1>1, <1>3 DEF ClientRead, ServerSend, ServerClose, vars, client_vars
<1>4. CASE handle_tcp_fwd
  BY <1>4, ForwardReady
<1>5. CASE select
  <2>1. UNCHANGED <<fin_rcvd, conn_vars>>
    BY <1>5 DEF select, client_vars
  <2>2. \/ ready' = "read" /\ sock /\ selectable
        \/ ready' = "write" /\ sock /\ tx_queue # <<>>
    BY <1>5 DEF select, Readable
  <2> QED BY <2>1, <2>2 DEF Readiness, conn_vars
<1>6. CASE handle_tcp_reply
  <2> DEFINE len == Least(Least(window_size, Mss), srv_sent - taken)
  <2>1. ready' = "none" /\ IF len = 0 THEN server_closed ELSE server_data(len)
    BY <1>6 DEF handle_tcp_reply
  <2>2. len \in Nat /\ len <= window_size /\ window_size \in Nat
    BY Numbers DEF Least
  <2> HIDE DEF len
  <2>3. CASE server_closed
    BY <2>1, <2>3 DEF Readiness, server_closed
  <2>4. CASE server_data(len)
    <3>1. /\ fin_rcvd' = fin_rcvd /\ open' = open /\ sock' = sock
          /\ window_size' = window_size - len /\ selectable' = (window_size # len)
          /\ (filled => filled')
      BY <2>4 DEF server_data
    <3>2. selectable' => window_size # len
      BY <3>1, Zenon
    <3>3. selectable' => window_size' > 0
      BY <2>2, <3>1, <3>2
    <3> QED BY <2>1, <3>1, <3>3 DEF Readiness
  <2> QED BY <2>1, <2>3, <2>4
<1>7. CASE handle_queued_tcp_data
  <2>1. /\ ready' = "none" /\ fin_rcvd' = fin_rcvd /\ filled' = filled
        /\ window_size' = window_size /\ selectable' = selectable
        /\ sock' = FALSE \/ (sock' = sock /\ open' = open)
    BY <1>7 DEF handle_queued_tcp_data, send_partial
  <2> QED BY <2>1 DEF Readiness
<1> QED BY <1>2, <1>3, <1>4, <1>5, <1>6, <1>7 DEF Next

-----------------------------------------------------------------------------
(* Positions of the client's stream, the keep-alive's -1 and what follows   *)
(* the FIN included.                                                        *)

Positions == -1 .. (ClientBytes + 2)
LEMMA WireOf ==
  ASSUME NEW a \in Positions
  PROVE  /\ ClientWire(a) = Turn(ClientIsn + a) /\ ClientWire(a) \in 0 .. (SeqMod - 1)
         /\ (ClientIsn + a + SeqMod) % SeqMod = ClientWire(a)
<1>1. ClientIsn + a \in Int /\ -1 <= ClientIsn + a /\ ClientIsn + a < 2 * SeqMod
  BY ClientConstants DEF Positions
<1>2. ClientIsn + a + SeqMod = (ClientIsn + a) + SeqMod
  OBVIOUS
<1> QED BY <1>1, <1>2, Turned DEF ClientWire

LEMMA WireNext ==
  ASSUME NEW a \in Positions, NEW n \in Nat, a + n \in Positions
  PROVE  (ClientWire(a) + n) % SeqMod = ClientWire(a + n)
<1>1. /\ ClientWire(a) = Turn(ClientIsn + a) /\ ClientWire(a) \in 0 .. (SeqMod - 1)
      /\ ClientWire(a + n) = Turn(ClientIsn + (a + n))
  BY WireOf
<1>2. n <= ClientBytes + 3
  BY ClientConstants DEF Positions
<1>3. /\ ClientWire(a) + n \in Int /\ 0 <= ClientWire(a) + n /\ ClientWire(a) + n < 2 * SeqMod
  BY <1>1, <1>2, ClientConstants
<1>4. (ClientWire(a) + n) % SeqMod = Turn(ClientWire(a) + n)
  BY <1>3, Turned
<1>5. Turn(ClientWire(a) + n) = Turn(ClientIsn + (a + n))
  <2> DEFINE w == ClientWire(a)
  <2>1. w = Turn(ClientIsn + a)
    BY <1>1
  <2> HIDE DEF w
  <2>2. Turn(w + n) = Turn(ClientIsn + (a + n))
    BY <1>2, <2>1, ClientConstants DEF Turn, Positions
  <2> QED BY <2>2 DEF w
<1> QED BY <1>1, <1>4, <1>5

LEMMA WireSame ==
  ASSUME NEW a \in Positions, NEW b \in Positions, ClientWire(a) = ClientWire(b)
  PROVE  a = b
<1>1. Turn(ClientIsn + a) = Turn(ClientIsn + b)
  BY WireOf
<1> QED BY <1>1, ClientConstants DEF Turn, Positions

(* An acknowledgment moves the client to the position it stands for, or     *)
(* says nothing new.                                                        *)
LEMMA AckIs ==
  ASSUME Typed, NEW m \in 0 .. (ClientBytes + 1), AckClient(ClientWire(m))
  PROVE  snd_una' = m \/ snd_una' = snd_una
<1>1. /\ snd_una \in Nat /\ snd_nxt \in Nat /\ snd_nxt <= ClientBytes + 1
  BY PartsOfTyped, Constants DEF ClientTypes
<1>2. CASE \E pos \in snd_una .. snd_nxt : ClientWire(pos) = ClientWire(m)
  <2> DEFINE c == CHOOSE pos \in snd_una .. snd_nxt : ClientWire(pos) = ClientWire(m)
  <2>1. c \in snd_una .. snd_nxt /\ ClientWire(c) = ClientWire(m)
    BY <1>2
  <2>2. snd_una' = c
    BY <1>2 DEF AckClient, Acknowledged
  <2> HIDE DEF c
  <2>3. c \in Positions /\ m \in Positions
    BY <1>1, <2>1, ClientConstants DEF Positions
  <2> QED BY <2>1, <2>2, <2>3, WireSame
<1>3. CASE ~ \E pos \in snd_una .. snd_nxt : ClientWire(pos) = ClientWire(m)
  BY <1>3 DEF AckClient, Acknowledged
<1> QED BY <1>2, <1>3

-----------------------------------------------------------------------------
(* The stream of a patient client.                                          *)

LEMMA PipeNumbers ==
  ASSUME Typed, Stream
  PROVE  /\ Len(srv_got) \in Nat /\ Len(tx_queue) \in Nat /\ Mark \in Nat /\ Start \in Nat
         /\ Mark \in 0 .. (ClientBytes + 1) /\ Mark \in Positions
         /\ snd_una \in Nat /\ snd_nxt \in Nat /\ snd_nxt <= ClientBytes + 1
         /\ snd_una <= snd_nxt
         /\ client_closed => Len(tx_queue) = 0 /\ Len(srv_got) = ClientBytes
<1>1. Len(srv_got) \in Nat /\ Len(tx_queue) \in Nat
  BY PartsOfTyped DEF QueueTypes
<1>2. /\ snd_una \in Nat /\ snd_nxt \in Nat /\ snd_nxt <= ClientBytes + 1
      /\ snd_una <= snd_nxt
  BY PartsOfTyped, Constants DEF ClientTypes
<1>3. Len(srv_got) + Len(tx_queue) <= ClientBytes
  BY DEF Stream
<1>4. client_closed => Len(srv_got) = ClientBytes
  BY DEF Stream
<1> QED BY <1>1, <1>2, <1>3, <1>4, ClientConstants DEF Mark, Start, Positions

LEMMA WaitingNumbers ==
  ASSUME Typed, NEW i \in DOMAIN tun
  PROVE  /\ tun[i].pos \in Int /\ tun[i].len \in Nat /\ tun[i].fin \in BOOLEAN
         /\ Extent(tun[i]) \in Int
<1>1. tun \in Seq(Packets)
  BY PartsOfTyped DEF ClientTypes
<1>2. tun[i] \in Packets
  BY <1>1
<1> QED BY <1>2 DEF Packets, Extent

LEMMA SamePipe ==
  ASSUME Pipe, sock' => sock,
         UNCHANGED <<client, client_seq, srv_got, tx_queue, snd_una, snd_nxt, shut,
                     client_closed, tun>>
  PROVE  Pipe'
BY DEF Pipe, Patient, Stream, Waiting, WaitingAt, Mark, Start, FinSent, ClientWire, Extent, Goes

(* What a packet that the client sends must be.                             *)
Fits(pos, len, fin) ==
  /\ -1 <= pos /\ pos <= snd_nxt
  /\ len > 0 \/ fin => pos = snd_nxt
  /\ len > 0 => pos + len <= ClientBytes
  /\ fin => pos + len = ClientBytes /\ snd_una = ClientBytes

LEMMA SendsPipe ==
  ASSUME Typed, Pipe, NEW pos \in Int, NEW len \in Nat, NEW fin \in BOOLEAN,
         Fits(pos, len, fin), Sends(pos, len, fin), client' = client
  PROVE  Pipe'
<1> DEFINE p == Packet(pos, len, fin)
           n == Len(tun)
<1> SUFFICES ASSUME Patient', sock' PROVE (Stream /\ Waiting)'
  BY DEF Pipe
<1>1. /\ Patient /\ sock /\ Stream /\ Waiting
      /\ UNCHANGED <<client_seq, srv_got, tx_queue, snd_una, shut, client_closed>>
  BY DEF Pipe, Patient, Sends, conn_vars, server_vars
<1>2. /\ p.seq = (ClientIsn + pos + SeqMod) % SeqMod /\ p.pos = pos /\ p.len = len
      /\ p.fin = fin
  BY DEF Packet
<1>3. tun' = Append(tun, p) /\ tun \in Seq(Packets)
  BY DEF Sends, Typed
<1> HIDE DEF p
<1>4. /\ n \in Nat /\ DOMAIN tun = 1 .. n /\ DOMAIN tun' = 1 .. (n + 1)
      /\ \A i \in 1 .. n : tun'[i] = tun[i]
      /\ tun'[n + 1] = p
  BY <1>3
<1> HIDE DEF n
<1>5. Extent(p) = pos + len + (IF fin THEN 1 ELSE 0) /\ (Goes(p) <=> len > 0 \/ fin)
  BY <1>2 DEF Extent, Goes
<1>6. /\ Len(srv_got) \in Nat /\ Len(tx_queue) \in Nat /\ Start \in Nat /\ Mark \in Nat
      /\ snd_una \in Nat /\ snd_nxt \in Nat /\ snd_nxt <= ClientBytes + 1
      /\ Start <= snd_nxt /\ ClientBytes \in Nat
  BY <1>1, PipeNumbers, ClientConstants DEF Stream
<1>7. /\ snd_nxt' \in Int /\ snd_nxt <= snd_nxt' /\ Extent(p) <= snd_nxt'
      /\ (snd_nxt' > ClientBytes => snd_nxt > ClientBytes \/ fin)
  <2>1. snd_nxt' = IF Extent(p) > snd_nxt THEN Extent(p) ELSE snd_nxt
    BY <1>5 DEF Sends
  <2>2. Extent(p) \in Int
    BY <1>5
  <2>3. ~fin => Extent(p) <= ClientBytes \/ Extent(p) <= snd_nxt
    BY <1>5, <1>6 DEF Fits
  <2> QED BY <1>6, <2>1, <2>2, <2>3
<1>8. Stream'
  <2>1. FinSent' => Len(srv_got) = ClientBytes
    <3>1. CASE fin
      <4>1. snd_una = ClientBytes
        BY <3>1 DEF Fits
      <4>2. Len(srv_got) >= ClientBytes
        BY <1>1, <1>6, <4>1 DEF Stream, Least
      <4>3. Len(srv_got) + Len(tx_queue) <= ClientBytes
        BY <1>1 DEF Stream
      <4> QED BY <1>6, <4>2, <4>3
    <3>2. CASE ~fin
      <4>1. FinSent' => FinSent
        BY <1>7, <3>2 DEF FinSent
      <4> QED BY <1>1, <4>1 DEF Stream
    <3> QED BY <3>1, <3>2
  <2>2. Start <= snd_nxt'
    BY <1>6, <1>7
  <2>3. FinSent => FinSent'
    BY <1>6, <1>7 DEF FinSent
  <2>4. Mark' = Mark /\ Start' = Start
    BY <1>1 DEF Mark, Start
  <2> QED BY <1>1, <2>1, <2>2, <2>3, <2>4 DEF Stream, ClientWire
<1>9. ASSUME NEW i \in 1 .. (n + 1)
      PROVE  WaitingAt(i, Start)'
  <2>1. CASE i \in 1 .. n
    <3>1. WaitingAt(i, Start)
      BY <1>1, <1>4, <2>1 DEF Waiting
    <3>2. tun'[i] = tun[i] /\ i \in DOMAIN tun
      BY <1>4, <2>1
    <3>3. Extent(tun[i]) \in Int /\ Extent(tun[i]) <= snd_nxt
      BY <3>1, <3>2, WaitingNumbers DEF WaitingAt
    <3>4. Extent(tun[i]) <= snd_nxt'
      BY <1>6, <1>7, <3>3
    <3>5. ASSUME NEW j \in 1 .. (n + 1), i < j, Goes(tun'[j])
          PROVE  Extent(tun[i]) <= tun'[j].pos
      <4>1. CASE j \in 1 .. n
        BY <1>4, <3>1, <3>5, <4>1 DEF WaitingAt
      <4>2. CASE j = n + 1
        <5>1. pos = snd_nxt
          BY <1>4, <1>5, <3>5, <4>2 DEF Fits
        <5> QED BY <1>2, <1>4, <3>3, <4>2, <5>1
      <4> QED BY <1>4, <4>1, <4>2
    <3>6. Start' = Start
      BY <1>1 DEF Mark, Start
    <3> QED BY <1>4, <3>1, <3>2, <3>4, <3>5, <3>6 DEF WaitingAt, Extent, Goes
  <2>2. CASE i = n + 1
    <3>1. tun'[i] = p
      BY <1>4, <2>2
    <3>2. Goes(p) => Start <= p.pos
      BY <1>2, <1>5, <1>6 DEF Fits
    <3>3. \A j \in 1 .. (n + 1) : ~(i < j)
      BY <1>4, <2>2
    <3>4. Start' = Start
      BY <1>1 DEF Mark, Start
    <3>5. /\ -1 <= p.pos
          /\ p.len > 0 => p.pos + p.len <= ClientBytes
          /\ p.fin => p.pos + p.len = ClientBytes
      BY <1>2 DEF Fits
    <3> QED BY <1>2, <1>4, <1>7, <3>1, <3>2, <3>3, <3>4, <3>5 DEF WaitingAt, Extent, Goes
  <2> QED BY <1>4, <2>1, <2>2
<1>10. Waiting'
  BY <1>4, <1>9 DEF Waiting
<1> QED BY <1>8, <1>10

(* Taking the first packet leaves a wait for the rest of the stream.        *)
LEMMA TakesFirst ==
  ASSUME Typed, Waiting, tun # <<>>, tun' = Tail(tun), snd_nxt' = snd_nxt,
         Start' = Start \/ Start' = Extent(tun[1])
  PROVE  Waiting'
<1> DEFINE n == Len(tun)
<1>1. /\ n \in Nat \ {0} /\ DOMAIN tun = 1 .. n /\ DOMAIN tun' = 1 .. (n - 1)
      /\ \A i \in 1 .. (n - 1) : tun'[i] = tun[i + 1]
  BY DEF Typed
<1> HIDE DEF n
<1> SUFFICES ASSUME NEW i \in 1 .. (n - 1) PROVE WaitingAt(i, Start)'
  BY <1>1 DEF Waiting
<1>2. /\ i + 1 \in DOMAIN tun /\ tun'[i] = tun[i + 1] /\ 1 \in DOMAIN tun /\ 1 < i + 1
  BY <1>1
<1>3. WaitingAt(i + 1, Start) /\ WaitingAt(1, Start)
  BY <1>2 DEF Waiting
<1> DEFINE p == tun[i + 1]
<1>4. Goes(p) => Start' <= p.pos
  <2>1. Goes(p) => Start <= p.pos /\ Extent(tun[1]) <= p.pos
    BY <1>2, <1>3 DEF WaitingAt
  <2> HIDE DEF p
  <2> QED BY <2>1
<1>5. ASSUME NEW j \in 1 .. (n - 1), i < j, Goes(tun'[j])
      PROVE  Extent(p) <= tun'[j].pos
  <2>1. j + 1 \in DOMAIN tun /\ tun'[j] = tun[j + 1] /\ i + 1 < j + 1
    BY <1>1, <1>5
  <2> QED BY <1>3, <1>5, <2>1 DEF WaitingAt
<1>6. /\ p.seq = (ClientIsn + p.pos + SeqMod) % SeqMod
      /\ -1 <= p.pos /\ Extent(p) <= snd_nxt
      /\ p.len > 0 => p.pos + p.len <= ClientBytes
      /\ p.fin => p.pos + p.len = ClientBytes
  BY <1>3 DEF WaitingAt
<1> QED BY <1>1, <1>2, <1>4, <1>5, <1>6 DEF WaitingAt, Extent, Goes

(* The payload that handle_tcp_fwd queues is the next of the stream, and    *)
(* the FIN comes when all of it was given to the server.                    *)
LEMMA Accepted ==
  ASSUME Typed, Stream, Waiting, tun # <<>>, Goes(tun[1]),
         is_keep_alive(tun[1]) \/ in_sequence(tun[1])
  PROVE  tun[1].pos = Start /\ ~client_closed
<1> DEFINE p == tun[1]
<1>1. 1 \in DOMAIN tun
  BY DEF Typed
<1>2. /\ p.pos \in Int /\ p.len \in Nat /\ p.fin \in BOOLEAN
  BY <1>1, WaitingNumbers
<1>3. /\ p.seq = (ClientIsn + p.pos + SeqMod) % SeqMod
      /\ -1 <= p.pos /\ Start <= p.pos /\ p.pos <= ClientBytes
      /\ p.len > 0 => p.pos + p.len <= ClientBytes
      /\ p.fin => p.pos + p.len = ClientBytes
  <2>1. WaitingAt(1, Start)
    BY <1>1 DEF Waiting
  <2>2. /\ p.seq = (ClientIsn + p.pos + SeqMod) % SeqMod
        /\ -1 <= p.pos /\ Start <= p.pos
        /\ p.len > 0 => p.pos + p.len <= ClientBytes
        /\ p.fin => p.pos + p.len = ClientBytes
    BY <2>1 DEF WaitingAt
  <2>3. p.len > 0 \/ p.fin
    BY DEF Goes
  <2> HIDE DEF p
  <2>4. p.pos <= ClientBytes
    BY <1>2, <2>2, <2>3, ClientConstants
  <2> QED BY <2>2, <2>4
<1>4. /\ Mark \in Nat /\ Start \in Nat /\ Mark \in Positions /\ Start = Mark + Len(tx_queue)
      /\ Len(tx_queue) \in Nat
  BY PipeNumbers DEF Start
<1>5. /\ p.pos \in Positions /\ p.pos + 1 \in Positions /\ Start \in Positions
  <2> HIDE DEF p
  <2> QED BY SMTT(30), <1>2, <1>3, <1>4, ClientConstants DEF Positions
<1>6. p.seq = ClientWire(p.pos)
  BY <1>3, <1>5, WireOf
<1>7. ~is_keep_alive(p)
  <2> SUFFICES ASSUME is_keep_alive(p) PROVE FALSE
    OBVIOUS
  <2>1. (p.seq + 1) % SeqMod = ClientWire(p.pos + 1)
    BY <1>5, <1>6, WireNext
  <2>2. ClientWire(p.pos + 1) = ClientWire(Mark)
    BY <2>1 DEF is_keep_alive, Stream
  <2>3. p.pos + 1 = Mark
    BY <1>4, <1>5, <2>2, WireSame
  <2> QED BY <1>2, <1>3, <1>4, <2>3
<1>8. p.pos = Start
  <2>1. p.seq = (client_seq + Len(tx_queue)) % SeqMod
    BY <1>7 DEF in_sequence
  <2>2. (ClientWire(Mark) + Len(tx_queue)) % SeqMod = ClientWire(Start)
    BY <1>4, <1>5, WireNext
  <2>3. ClientWire(p.pos) = ClientWire(Start)
    BY <1>6, <2>1, <2>2 DEF Stream
  <2> QED BY <1>5, <2>3, WireSame
<1>9. ~client_closed
  BY <1>2, <1>3, <1>4, ClientConstants DEF Mark
<1> QED BY <1>8, <1>9

LEMMA ForwardPipe ==
  ASSUME Typed, Readiness, Pipe, handle_tcp_fwd, client' = client
  PROVE  Pipe'
<1> SUFFICES ASSUME Patient', sock' PROVE (Stream /\ Waiting)'
  BY DEF Pipe
<1> DEFINE p == tun[1]
<1>1. /\ tun # <<>> /\ tun' = Tail(tun) /\ sock /\ open = TRUE /\ Patient
      /\ UNCHANGED <<snd_nxt, sock>>
  BY DEF handle_tcp_fwd, Readiness, Patient
<1>2. Stream /\ Waiting
  BY <1>1 DEF Pipe
<1>3. /\ Len(srv_got) \in Nat /\ Len(tx_queue) \in Nat /\ Mark \in Nat /\ Start \in Nat
      /\ Mark \in 0 .. (ClientBytes + 1) /\ Start <= snd_nxt
      /\ snd_una \in Nat /\ snd_nxt \in Nat /\ snd_nxt <= ClientBytes + 1
      /\ client_closed => Len(tx_queue) = 0 /\ Len(srv_got) = ClientBytes
      /\ Start = Mark + Len(tx_queue) /\ ClientBytes \in Nat
  BY <1>2, PipeNumbers, ClientConstants DEF Stream, Start
<1>4. 1 \in DOMAIN tun /\ Head(tun) = p
  BY <1>1 DEF Typed
<1>5. p.pos \in Int /\ p.len \in Nat /\ p.fin \in BOOLEAN
  BY <1>4, WaitingNumbers
<1>6. /\ p.len > 0 => p.pos + p.len <= ClientBytes
      /\ p.fin => p.pos + p.len = ClientBytes
      /\ Extent(p) <= snd_nxt
  BY <1>2, <1>4 DEF Waiting, WaitingAt
<1>7. tx_queue \in Seq(Int) /\ srv_got \in Seq(Int)
  BY PartsOfTyped DEF QueueTypes
<1> DEFINE took == open /\ (is_keep_alive(p) \/ in_sequence(p))
<1>8. /\ ~took => UNCHANGED <<client_seq, snd_una, window_size, guessed, selectable, tx_queue,
                              shut, client_closed, open, srv_got>>
      /\ took /\ p.fin => forward_fin(p)
      /\ took /\ ~p.fin => forward_ack(p)
  BY <1>4 DEF handle_tcp_fwd
<1>9. took /\ Goes(p) => p.pos = Start /\ ~client_closed
  BY <1>1, <1>2, Accepted
<1> HIDE DEF took, p
<1>10. CASE ~took
  <2>1. UNCHANGED <<client_seq, snd_una, tx_queue, shut, client_closed, srv_got, snd_nxt>>
    BY <1>1, <1>8, <1>10
  <2>2. Stream'
    BY <1>2, <2>1 DEF Stream, Mark, Start, FinSent, ClientWire
  <2>3. Start' = Start
    BY <2>1 DEF Start, Mark
  <2> QED BY <1>1, <1>2, <2>2, <2>3, TakesFirst
<1>11. CASE took /\ p.fin
  <2>1. /\ client_seq' = (client_seq + p.len + 1) % SeqMod
        /\ client_closed' = TRUE /\ tx_queue' = tx_queue /\ srv_got' = srv_got
        /\ AckClient((client_seq + p.len + 1) % SeqMod)
    BY <1>1, <1>8, <1>11 DEF forward_fin
  <2>2. p.pos = Start /\ ~client_closed
    BY <1>9, <1>11 DEF Goes
  <2>3. /\ Extent(p) = ClientBytes + 1 /\ FinSent
    BY <1>3, <1>5, <1>6, <1>11 DEF Extent, FinSent
  <2>4. /\ Len(srv_got) = ClientBytes /\ Len(tx_queue) = 0 /\ Mark = ClientBytes
        /\ p.len = 0
    <3>1. Len(srv_got) = ClientBytes /\ Len(srv_got) + Len(tx_queue) <= ClientBytes
      BY <1>2, <2>3 DEF Stream
    <3>2. Len(tx_queue) = 0 /\ Mark = ClientBytes
      BY <1>3, <2>2, <3>1 DEF Mark
    <3> QED BY <1>3, <1>5, <1>6, <1>11, <2>2, <3>1, <3>2
  <2>5. Mark' = ClientBytes + 1 /\ Start' = ClientBytes + 1
    BY <1>3, <2>1, <2>4 DEF Mark, Start
  <2>6. client_seq' = ClientWire(Mark')
    <3>1. ClientBytes \in Positions /\ ClientBytes + 1 \in Positions
      BY ClientConstants DEF Positions
    <3>2. (ClientWire(ClientBytes) + 1) % SeqMod = ClientWire(ClientBytes + 1)
      BY <3>1, WireNext
    <3>3. client_seq \in Int /\ client_seq = ClientWire(ClientBytes)
      BY <1>2, <2>4, PartsOfTyped, Constants DEF Stream, SeqTypes
    <3>4. client_seq + p.len + 1 = client_seq + 1
      BY <2>4, <3>3
    <3> QED BY <2>1, <2>5, <3>2, <3>3, <3>4
  <2>7. Stream'
    <3>1. ClientWire(Mark)' = ClientWire(Mark')
      BY DEF ClientWire
    <3>2. FinSent'
      BY <1>1, <2>3 DEF FinSent
    <3>3. Start' <= snd_nxt'
      BY <1>1, <1>3, <2>3, <2>5 DEF FinSent
    <3>4. Least(snd_una, ClientBytes)' <= Len(srv_got')
      <4>1. snd_una' \in Int
        BY <1>3, <2>1, AckTyped
      <4> QED BY <1>3, <2>1, <2>4, <4>1 DEF Least
    <3> QED BY <1>2, <1>3, <2>1, <2>4, <2>6, <3>1, <3>2, <3>3, <3>4 DEF Stream
  <2>8. Start' = Extent(tun[1])
    BY <2>3, <2>5 DEF p
  <2> QED BY <1>1, <1>2, <2>7, <2>8, TakesFirst
<1>12. CASE took /\ ~p.fin
  <2>1. /\ tx_queue' = tx_queue \o Payload(p) /\ client_seq' = client_seq
        /\ snd_una' = snd_una \/ AckClient(client_seq)
        /\ UNCHANGED <<shut, client_closed, srv_got>>
    BY <1>1, <1>8, <1>12 DEF forward_ack
  <2>2. /\ Payload(p) \in Seq(Int) /\ Len(Payload(p)) = p.len
        /\ \A i \in 1 .. p.len : Payload(p)[i] = p.pos + i - 1
    BY <1>5 DEF Payload
  <2>3. /\ Len(tx_queue') = Len(tx_queue) + p.len
        /\ \A i \in 1 .. Len(tx_queue') :
             tx_queue'[i] = IF i <= Len(tx_queue) THEN tx_queue[i]
                            ELSE Payload(p)[i - Len(tx_queue)]
    BY <1>7, <2>1, <2>2
  <2>4. Mark' = Mark /\ Start' = Start + p.len
    <3>1. Mark' = Mark
      BY <2>1 DEF Mark
    <3> QED BY <1>3, <1>5, <2>3, <3>1 DEF Start
  <2>5. p.len > 0 => p.pos = Start /\ ~client_closed /\ Start = Len(srv_got) + Len(tx_queue)
    BY <1>3, <1>9, <1>12 DEF Goes, Mark
  <2>6. \A i \in DOMAIN tx_queue' : tx_queue'[i] = Len(srv_got) + i - 1
    <3> SUFFICES ASSUME NEW i \in 1 .. Len(tx_queue') PROVE tx_queue'[i] = Len(srv_got) + i - 1
      <4>1. DOMAIN tx_queue' = 1 .. Len(tx_queue')
        BY <1>7, <2>1, <2>2
      <4> QED BY <4>1
    <3>1. CASE i <= Len(tx_queue)
      <4>1. i \in DOMAIN tx_queue
        BY <1>3, <1>7, <3>1
      <4> QED BY <1>2, <2>3, <3>1, <4>1 DEF Stream
    <3>2. CASE i > Len(tx_queue)
      <4>1. i - Len(tx_queue) \in 1 .. p.len /\ p.len > 0
        BY <1>3, <1>5, <2>3, <3>2
      <4>2. tx_queue'[i] = p.pos + (i - Len(tx_queue)) - 1
        BY <1>3, <2>2, <2>3, <3>2, <4>1
      <4> QED BY <1>3, <1>5, <2>5, <4>1, <4>2
    <3> QED BY <1>3, <3>1, <3>2
  <2>7. /\ Len(srv_got) + Len(tx_queue') <= ClientBytes /\ Start' <= snd_nxt
    <3>1. Len(srv_got) + Len(tx_queue) <= ClientBytes
      BY <1>2 DEF Stream
    <3>2. Extent(p) = p.pos + p.len
      BY <1>5, <1>12 DEF Extent
    <3>3. CASE p.len = 0
      BY <1>3, <2>3, <2>4, <3>1, <3>3
    <3>4. CASE p.len > 0
      <4>1. p.pos + p.len <= ClientBytes /\ p.pos + p.len <= snd_nxt
        BY <1>6, <3>2, <3>4
      <4> QED BY SMTT(30), <1>3, <1>5, <2>3, <2>4, <2>5, <3>4, <4>1
    <3> QED BY <1>5, <3>3, <3>4
  <2>8. Least(snd_una', ClientBytes) <= Len(srv_got)
    <3>1. snd_una' = snd_una \/ snd_una' = Mark
      BY <1>2, <1>3, <2>1, AckIs DEF Stream
    <3>2. Least(snd_una, ClientBytes) <= Len(srv_got)
      BY <1>2 DEF Stream
    <3>3. Least(Mark, ClientBytes) <= Len(srv_got)
      BY <1>3 DEF Least, Mark
    <3> QED BY <3>1, <3>2, <3>3
  <2>9. Stream'
    <3>1. FinSent' <=> FinSent
      BY <1>1 DEF FinSent
    <3> QED BY <1>1, <1>2, <2>1, <2>4, <2>6, <2>7, <2>8, <3>1 DEF Stream, ClientWire, Least
  <2>10. Start' = Start \/ Start' = Extent(tun[1])
    <3>1. CASE p.len = 0
      BY <1>3, <2>4, <3>1
    <3>2. CASE p.len > 0
      <4>1. Extent(p) = p.pos + p.len
        BY <1>5, <1>12 DEF Extent
      <4> QED BY <1>3, <2>4, <2>5, <3>2, <4>1 DEF p
    <3> QED BY <1>5, <3>1, <3>2
  <2> QED BY <1>1, <1>2, <2>9, <2>10, TakesFirst
<1> QED BY <1>5, <1>10, <1>11, <1>12

LEMMA Joined ==
  ASSUME NEW s \in Seq(Int), NEW t \in Seq(Int), NEW k \in Nat, Len(t) = k
  PROVE  /\ Len(s \o t) = Len(s) + k /\ DOMAIN (s \o t) = 1 .. (Len(s) + k)
         /\ \A i \in 1 .. Len(s) : (s \o t)[i] = s[i]
         /\ \A i \in 1 .. k : (s \o t)[Len(s) + i] = t[i]
OBVIOUS

LEMMA QueuedPipe ==
  ASSUME Typed, Readiness, Pipe, handle_queued_tcp_data, client' = client
  PROVE  /\ Pipe'
         /\ Patient => /\ sock' = sock
                       /\ Len(srv_got') > Len(srv_got)
<1> SUFFICES ASSUME Patient
             PROVE  /\ sock' => (Stream /\ Waiting)'
                    /\ sock' = sock /\ Len(srv_got') > Len(srv_got)
  BY DEF Pipe, Patient
<1>1. /\ sock /\ tx_queue # <<>>
      /\ UNCHANGED <<snd_nxt, tun, shut, client_closed>>
  BY DEF handle_queued_tcp_data, Readiness
<1>2. Stream /\ Waiting
  BY <1>1 DEF Pipe
<1>3. /\ Len(srv_got) \in Nat /\ Len(tx_queue) \in Nat /\ Mark \in Nat /\ Start \in Nat
      /\ Mark \in 0 .. (ClientBytes + 1) /\ Mark \in Positions /\ Start <= snd_nxt
      /\ snd_una \in Nat /\ snd_nxt \in Nat /\ snd_nxt <= ClientBytes + 1
      /\ client_closed => Len(tx_queue) = 0 /\ Len(srv_got) = ClientBytes
      /\ Start = Mark + Len(tx_queue) /\ ClientBytes \in Nat
      /\ Len(srv_got) + Len(tx_queue) <= ClientBytes
  BY <1>2, PipeNumbers, ClientConstants DEF Stream, Start
<1>4. tx_queue \in Seq(Int) /\ srv_got \in Seq(Int)
  BY PartsOfTyped DEF QueueTypes
<1>5. Len(tx_queue) > 0 /\ ~client_closed /\ ~shut
  <2>1. Len(tx_queue) > 0
    BY <1>1, <1>4
  <2> QED BY <1>2, <1>3, <2>1 DEF Stream
<1>6. PICK k \in 1 .. Len(tx_queue) : send_partial(k)
  BY <1>5 DEF handle_queued_tcp_data
<1>7. /\ srv_got' = srv_got \o SubSeq(tx_queue, 1, k)
      /\ tx_queue' = SubSeq(tx_queue, k + 1, Len(tx_queue))
      /\ client_seq' = (client_seq + k) % SeqMod
      /\ AckClient((client_seq + k) % SeqMod)
      /\ sock' = sock
  BY <1>6 DEF send_partial
<1>8. /\ Len(srv_got') = Len(srv_got) + k
      /\ DOMAIN srv_got' = 1 .. Len(srv_got')
      /\ \A i \in 1 .. Len(srv_got) : srv_got'[i] = srv_got[i]
      /\ \A i \in 1 .. k : srv_got'[Len(srv_got) + i] = tx_queue[i]
  <2> DEFINE q == SubSeq(tx_queue, 1, k)
  <2>1. q \in Seq(Int) /\ Len(q) = k /\ k \in Nat
    BY <1>3, <1>4
  <2>2. \A i \in 1 .. k : q[i] = tx_queue[i]
    BY <1>3, <1>4
  <2>3. srv_got' = srv_got \o q
    BY <1>7
  <2> HIDE DEF q
  <2> QED BY SMTT(30), <1>4, <2>1, <2>2, <2>3, Joined
<1>9. /\ Len(tx_queue') = Len(tx_queue) - k
      /\ \A i \in 1 .. Len(tx_queue') : tx_queue'[i] = tx_queue[i + k]
      /\ DOMAIN tx_queue' = 1 .. Len(tx_queue')
  BY SMTT(30), <1>3, <1>4, <1>7
<1>10. Mark = Len(srv_got) /\ Mark' = Mark + k /\ Start' = Start
  <2>1. Mark = Len(srv_got) /\ Mark' = Mark + k
    BY <1>1, <1>5, <1>8 DEF Mark
  <2> QED BY <1>3, <1>9, <2>1 DEF Start
<1>11. Mark + k \in 0 .. (ClientBytes + 1) /\ Mark + k \in Positions
  BY <1>3, <1>10 DEF Positions
<1>12. client_seq' = ClientWire(Mark + k) /\ AckClient(ClientWire(Mark + k))
  <2>1. client_seq = ClientWire(Mark)
    BY <1>2 DEF Stream
  <2>2. (ClientWire(Mark) + k) % SeqMod = ClientWire(Mark + k)
    BY <1>3, <1>11, WireNext
  <2> QED BY <1>7, <2>1, <2>2
<1>13. \A i \in DOMAIN srv_got' : srv_got'[i] = i - 1
  <2> SUFFICES ASSUME NEW i \in 1 .. Len(srv_got') PROVE srv_got'[i] = i - 1
    BY <1>8
  <2>1. CASE i <= Len(srv_got)
    <3>1. i \in DOMAIN srv_got
      BY <1>3, <1>4, <2>1
    <3>2. srv_got[i] = i - 1
      BY <1>2, <3>1 DEF Stream
    <3> QED BY <1>8, <2>1, <3>2
  <2>2. CASE i > Len(srv_got)
    <3> DEFINE m == i - Len(srv_got)
    <3>1. m \in 1 .. k /\ m \in DOMAIN tx_queue /\ i = Len(srv_got) + m
      <4>1. i \in Int /\ i <= Len(srv_got) + k
        BY <1>3, <1>8
      <4>2. DOMAIN tx_queue = 1 .. Len(tx_queue)
        BY <1>4
      <4>3. m \in 1 .. k /\ i = Len(srv_got) + m
        BY <1>3, <2>2, <4>1
      <4> QED BY <1>3, <4>2, <4>3
    <3> HIDE DEF m
    <3>2. tx_queue[m] = Len(srv_got) + m - 1
      BY <1>2, <3>1 DEF Stream
    <3> QED BY <1>3, <1>8, <3>1, <3>2
  <2> QED BY <1>3, <2>1, <2>2
<1>14. \A i \in DOMAIN tx_queue' : tx_queue'[i] = Len(srv_got') + i - 1
  <2> SUFFICES ASSUME NEW i \in 1 .. Len(tx_queue') PROVE tx_queue'[i] = Len(srv_got') + i - 1
    BY <1>9
  <2>1. i + k \in DOMAIN tx_queue
    BY <1>3, <1>4, <1>9
  <2>2. tx_queue[i + k] = Len(srv_got) + (i + k) - 1
    BY <1>2, <2>1 DEF Stream
  <2> QED BY SMTT(30), <1>3, <1>8, <1>9, <2>2
<1>15. Least(snd_una', ClientBytes) <= Len(srv_got')
  <2>1. snd_una' = Mark + k \/ snd_una' = snd_una
    BY <1>11, <1>12, AckIs
  <2>2. Least(snd_una, ClientBytes) <= Len(srv_got)
    BY <1>2 DEF Stream
  <2> QED BY <1>3, <1>8, <1>10, <2>1, <2>2 DEF Least
<1>16. Stream'
  <2>1. FinSent' <=> FinSent
    BY <1>1 DEF FinSent
  <2>2. ~FinSent
    BY <1>2, <1>3, <1>5 DEF Stream
  <2>3. Len(srv_got') + Len(tx_queue') <= ClientBytes
    BY <1>3, <1>8, <1>9
  <2>4. ClientWire(Mark)' = ClientWire(Mark + k)
    BY <1>10 DEF ClientWire
  <2>5. ~client_closed' /\ ~shut' /\ Start' <= snd_nxt'
    BY <1>1, <1>3, <1>5, <1>10
  <2> QED BY <1>12, <1>13, <1>14, <1>15, <2>1, <2>2, <2>3, <2>4, <2>5 DEF Stream, Least
<1>17. Waiting'
  BY <1>1, <1>2, <1>10 DEF Waiting, WaitingAt, Extent, Goes
<1> QED BY <1>3, <1>7, <1>8, <1>16, <1>17

LEMMA NextPipe ==
  ASSUME Typed, Readiness, Pipe, [Next]_vars
  PROVE  Pipe'
<1>0. /\ snd_una \in Nat /\ snd_nxt \in Nat /\ snd_nxt <= ClientBytes + 1 /\ snd_una <= snd_nxt
      /\ ClientBytes \in Nat /\ Mss \in Nat
  BY PartsOfTyped, Constants DEF ClientTypes
<1>1. client' = client
  BY DEF Next, vars
<1>2. CASE ClientSend
  <2> PICK len \in 1 .. Mss : snd_nxt + len <= ClientBytes /\ Sends(snd_nxt, len, FALSE)
    BY <1>2 DEF ClientSend
  <2>1. Fits(snd_nxt, len, FALSE) /\ snd_nxt \in Int /\ len \in Nat
    BY <1>0 DEF Fits
  <2> QED BY <1>1, <2>1, SendsPipe
<1>3. CASE ClientFin
  <2>1. CASE Patient
    <3>1. PICK len \in 0 .. Mss :
            /\ snd_nxt + len = ClientBytes
            /\ client = "hasty" \/ (len = 0 /\ snd_una = snd_nxt /\ told = <<rcv_nxt, Offered>>)
            /\ Sends(snd_nxt, len, TRUE)
      BY <1>3 DEF ClientFin
    <3>2. len = 0 /\ snd_una = snd_nxt
      BY <2>1, <3>1 DEF Patient
    <3>3. Fits(snd_nxt, len, TRUE) /\ snd_nxt \in Int /\ len \in Nat
      BY <1>0, <3>1, <3>2 DEF Fits
    <3> QED BY <1>1, <3>1, <3>3, SendsPipe
  <2>2. CASE ~Patient
    BY <1>1, <2>2 DEF Pipe, Patient
  <2> QED BY <2>1, <2>2
<1>4. CASE ClientRetransmit
  BY <1>1, <1>4 DEF ClientRetransmit, Pipe, Patient
<1>5. CASE ClientKeepAlive
  <2>1. Fits(snd_nxt - 1, 0, FALSE) /\ snd_nxt - 1 \in Int
    BY <1>0 DEF Fits
  <2>2. Sends(snd_nxt - 1, 0, FALSE)
    BY <1>5 DEF ClientKeepAlive
  <2> QED BY <1>1, <2>1, <2>2, SendsPipe
<1>6. CASE ClientAck
  <2>1. Fits(snd_nxt, 0, FALSE) /\ snd_nxt \in Int
    BY <1>0 DEF Fits
  <2>2. Sends(snd_nxt, 0, FALSE)
    BY <1>6 DEF ClientAck
  <2> QED BY <1>1, <2>1, <2>2, SendsPipe
<1>7. CASE ClientRead
  BY <1>1, <1>7, SamePipe DEF ClientRead, conn_vars, server_vars
<1>8. CASE ServerSend \/ ServerClose \/ select
  BY <1>1, <1>8, SamePipe DEF ServerSend, ServerClose, select, client_vars, conn_vars, server_vars
<1>9. CASE handle_tcp_fwd
  BY <1>1, <1>9, ForwardPipe
<1>10. CASE handle_tcp_reply
  <2> DEFINE len == Least(Least(window_size, Mss), srv_sent - taken)
  <2>1. /\ UNCHANGED <<client_seq, srv_got, snd_una, snd_nxt, shut, client_closed, tun>>
        /\ IF len = 0 THEN server_closed ELSE server_data(len)
    BY <1>10 DEF handle_tcp_reply, server_vars
  <2> HIDE DEF len
  <2>2. CASE server_closed
    BY <2>2 DEF server_closed, Pipe
  <2>3. CASE server_data(len)
    <3>1. tx_queue' = tx_queue /\ sock' = sock
      BY <2>3 DEF server_data
    <3> QED BY <1>1, <2>1, <3>1, SamePipe
  <2> QED BY <2>1, <2>2, <2>3
<1>11. CASE handle_queued_tcp_data
  BY <1>1, <1>11, QueuedPipe
<1>12. CASE UNCHANGED vars
  BY <1>12, SamePipe DEF vars, client_vars, conn_vars, server_vars
<1> QED BY <1>2, <1>3, <1>4, <1>5, <1>6, <1>7, <1>8, <1>9, <1>10, <1>11, <1>12 DEF Next

-----------------------------------------------------------------------------
(* Only a scaled window is ever a guess.                                    *)

Scaling == Unit = 1 => ~guessed /\ ~filled

LEMMA InitScaling ==
  ASSUME Init
  PROVE  Scaling
BY DEF Init, Scaling

LEMMA NextScaling ==
  ASSUME Scaling, [Next]_vars
  PROVE  Scaling'
<1> SUFFICES ASSUME Unit = 1 PROVE ~guessed' /\ ~filled'
  BY DEF Scaling
<1>1. ~guessed /\ ~filled
  BY DEF Scaling
<1>2. CASE UNCHANGED <<guessed, filled>>
  BY <1>1, <1>2
<1>3. CASE ClientSend \/ ClientFin \/ ClientRetransmit \/ ClientKeepAlive \/ ClientAck
  BY <1>2, <1>3 DEF ClientSend, ClientFin, ClientRetransmit, ClientKeepAlive, ClientAck, Sends,
                    conn_vars
<1>4. CASE ClientRead \/ ServerSend \/ ServerClose \/ select \/ UNCHANGED vars
  BY <1>2, <1>4 DEF ClientRead, ServerSend, ServerClose, select, vars, conn_vars
<1>5. CASE handle_tcp_fwd
  BY <1>1, <1>5 DEF handle_tcp_fwd, forward_fin, forward_ack
<1>6. CASE handle_tcp_reply
  BY <1>1, <1>6 DEF handle_tcp_reply, server_closed, server_data
<1>7. CASE handle_queued_tcp_data
  BY <1>2, <1>7 DEF handle_queued_tcp_data
<1> QED BY <1>3, <1>4, <1>5, <1>6, <1>7 DEF Next

LEMMA InitRelay ==
  ASSUME Init
  PROVE  Readiness /\ Pipe /\ Relay!Init
<1>1. Readiness
  <2>1. ClientBuffer * Unit > 0
    BY Windows, Constants
  <2> QED BY <2>1 DEF Init, Readiness
<1>2. Pipe
  <2>1. Mark = 0 /\ Start = 0 /\ Least(snd_una, ClientBytes) = 0 /\ ~FinSent
    BY ClientConstants DEF Init, Mark, Start, Least, FinSent
  <2>2. Stream
    BY <2>1, ClientConstants DEF Init, Stream
  <2>3. Waiting
    BY DEF Init, Waiting
  <2> QED BY <2>2, <2>3 DEF Pipe
<1>3. Relay!Init
  BY ClientConstants DEF Init, Relay!Init, Least
<1> QED BY <1>1, <1>2, <1>3

LEMMA Consecutive ==
  ASSUME NEW s \in Seq(Int), \A i \in DOMAIN s : s[i] = i - 1
  PROVE  s = [i \in 1 .. Len(s) |-> i - 1]
<1>1. s \in [1 .. Len(s) -> Int] /\ DOMAIN s = 1 .. Len(s)
  OBVIOUS
<1>2. s = [i \in 1 .. Len(s) |-> s[i]]
  BY <1>1
<1> QED BY <1>1, <1>2

(* Every step of the connection is one of the pipes, or none.               *)
LEMMA NextRelay ==
  ASSUME Typed, WInv, Readiness, Scaling, Pipe, [Next]_vars
  PROVE  [Relay!Next]_(Relay!relay_vars)
<1> USE DEF Relay!Next, Relay!relay_vars
<1>0. /\ snd_una \in Nat /\ snd_nxt \in Nat /\ snd_nxt <= ClientBytes + 1 /\ snd_una <= snd_nxt
      /\ ClientBytes \in Nat /\ srv_got \in Seq(Int)
  BY PartsOfTyped, Constants DEF ClientTypes, QueueTypes
<1>0b. /\ rcv_nxt \in Nat /\ srv_sent \in Nat /\ taken \in Nat /\ rcv_nxt <= taken
       /\ taken <= srv_sent
  BY Numbers
<1>1. client' = client /\ (Patient' <=> Patient)
  BY DEF Next, vars, Patient
<1>2. CASE UNCHANGED <<snd_una, srv_got, srv_sent, rcv_nxt, fin_rcvd, filled, sock>>
  BY <1>1, <1>2 DEF Least
<1>3. CASE ClientSend \/ ClientFin \/ ClientRetransmit \/ ClientKeepAlive \/ ClientAck
  BY <1>2, <1>3 DEF ClientSend, ClientFin, ClientRetransmit, ClientKeepAlive, ClientAck, Sends,
                    conn_vars, server_vars
<1>4. CASE ClientRead \/ ServerClose \/ select \/ UNCHANGED vars
  BY <1>2, <1>4 DEF ClientRead, ServerClose, select, vars, client_vars, conn_vars, server_vars
<1>5. CASE ServerSend
  <2>1. /\ sock /\ ~fin_rcvd /\ srv_sent' = srv_sent + 1
        /\ UNCHANGED <<snd_una, srv_got, rcv_nxt, fin_rcvd, filled, sock>>
    BY <1>5 DEF ServerSend, Readiness, client_vars, conn_vars
  <2>2. Relay!Offer
    BY <1>1, <2>1 DEF Relay!Offer, Least
  <2> QED BY <2>2
<1>6. CASE handle_tcp_fwd
  <2>1. UNCHANGED <<srv_sent, rcv_nxt, fin_rcvd, filled, sock>> /\ Pipe' /\ Typed'
    BY <1>1, <1>6, ForwardPipe, NextTyped DEF handle_tcp_fwd
  <2>2. srv_got' = srv_got
    BY <1>6 DEF handle_tcp_fwd, forward_fin, forward_ack
  <2>3. snd_una <= snd_una' /\ snd_una' \in Nat
    <3>1. snd_una' = snd_una \/ \E seq : AckClient(seq)
      BY <1>6, Zenon DEF handle_tcp_fwd, forward_fin, forward_ack
    <3> QED BY <1>0, <3>1, AckTyped
  <2>4. CASE ~Patient
    BY <1>1, <2>1, <2>4
  <2>5. CASE Patient
    <3>1. sock => Least(snd_una', ClientBytes) <= Len(srv_got)
      BY <1>1, <2>1, <2>2, <2>5 DEF Pipe, Stream, Least
    <3>2. Least(snd_una, ClientBytes) <= Least(snd_una', ClientBytes)
      BY <1>0, <2>3 DEF Least
    <3>3. CASE Least(snd_una, ClientBytes) = Least(snd_una', ClientBytes)
      BY <1>1, <2>1, <2>2, <3>3 DEF Least
    <3>4. CASE Least(snd_una, ClientBytes) < Least(snd_una', ClientBytes)
      <4>1. Relay!Acknowledge
        BY <1>1, <2>1, <2>2, <2>5, <3>1, <3>4 DEF Relay!Acknowledge, Least
      <4> QED BY <4>1
    <3> QED BY <1>0, <2>3, <3>2, <3>3, <3>4 DEF Least
  <2> QED BY <2>4, <2>5
<1>7. CASE handle_tcp_reply
  <2> DEFINE len == Least(Least(window_size, Mss), srv_sent - taken)
             kept == IF taken = rcv_nxt THEN Least(len, Window) ELSE 0
  <2>1. /\ UNCHANGED <<snd_una, srv_got, srv_sent, guessed>> /\ ready = "read"
        /\ IF len = 0 THEN server_closed ELSE server_data(len)
    BY <1>7 DEF handle_tcp_reply, server_vars
  <2>2. sock /\ ~fin_rcvd /\ (~filled => window_size > 0)
    BY <2>1 DEF Readiness
  <2>3. ~filled => taken = rcv_nxt
    BY <2>2 DEF WInv, WindowSound
  <2>4. /\ len \in Nat /\ len <= window_size /\ len <= srv_sent - taken
        /\ ~filled /\ len = 0 => taken = srv_sent
    BY <1>0b, <2>2, Numbers DEF Least
  <2>5. /\ kept \in Nat /\ kept <= len
        /\ taken = rcv_nxt => kept = len \/ kept = Window
    BY <2>4, Numbers DEF Least
  <2> HIDE DEF len, kept
  <2>6. CASE len = 0
    <3>1. /\ fin_rcvd' = (taken = rcv_nxt) /\ sock' = FALSE /\ rcv_nxt' = rcv_nxt
          /\ filled' = filled
      BY <2>1, <2>2, <2>6 DEF server_closed
    <3>2. CASE ~filled
      <4>1. taken = rcv_nxt /\ rcv_nxt = srv_sent
        BY <2>3, <2>4, <2>6, <3>2
      <4>2. fin_rcvd' = TRUE
        BY <3>1, <4>1
      <4>3. Relay!End
        BY <1>1, <2>1, <2>2, <3>1, <4>1, <4>2 DEF Relay!End, Least
      <4> QED BY <4>3
    <3>3. CASE filled /\ taken = rcv_nxt
      <4>1. fin_rcvd' = TRUE
        BY <3>1, <3>3
      <4>2. Relay!End
        BY <1>1, <2>1, <2>2, <3>1, <3>3, <4>1 DEF Relay!End, Least
      <4> QED BY <4>2
    <3>5. CASE filled /\ Patient /\ taken # rcv_nxt
      <4>1. fin_rcvd' = FALSE /\ fin_rcvd = FALSE
        BY <2>2, <3>1, <3>5, PartsOfTyped DEF Flags
      <4>2. Relay!End
        BY <1>1, <2>1, <2>2, <3>1, <3>5, <4>1 DEF Relay!End, Least
      <4> QED BY <4>2
    <3>4. CASE filled /\ ~Patient /\ taken # rcv_nxt
      <4>1. fin_rcvd' = fin_rcvd
        BY <2>2, <3>1, <3>4, PartsOfTyped DEF Flags
      <4> QED BY <1>1, <2>1, <3>1, <3>4, <4>1
    <3> QED BY <3>2, <3>3, <3>4, <3>5
  <2>7. CASE len # 0
    <3>1. /\ fin_rcvd' = fin_rcvd /\ sock' = sock /\ rcv_nxt' = rcv_nxt + kept
          /\ filled' = (filled \/ (guessed /\ taken + len >= ClientBuffer))
      BY <2>1, <2>7 DEF server_data, client_takes, kept
    <3>2. rcv_nxt' >= rcv_nxt /\ rcv_nxt' <= srv_sent
      BY <1>0b, <2>4, <2>5, <3>1
    <3>3. CASE ~filled /\ filled'
      <4>1. guessed /\ taken + len >= ClientBuffer
        BY <3>1, <3>3
      <4>2. rcv_nxt' >= ClientBuffer
        <5>1. ClientBuffer - rcv_nxt <= Window
          BY <2>2, <3>3, <4>1 DEF WInv, Floor
        <5> QED BY <1>0b, <2>3, <2>4, <2>5, <3>1, <3>3, <4>1, <5>1, Numbers
      <4>3. Unit # 1
        BY <4>1 DEF Scaling
      <4>4. Relay!Cut
        BY <1>1, <2>1, <2>2, <3>1, <3>2, <3>3, <4>2, <4>3 DEF Relay!Cut, Least
      <4> QED BY <4>4
    <3>4. CASE filled' = filled /\ rcv_nxt' > rcv_nxt
      <4>1. Relay!Download
        BY <1>1, <2>1, <2>2, <3>1, <3>2, <3>4 DEF Relay!Download, Least
      <4> QED BY <4>1
    <3>5. CASE filled' = filled /\ rcv_nxt' = rcv_nxt
      BY <1>2, <2>1, <3>1, <3>5
    <3>6. filled' = filled \/ (~filled /\ filled')
      <4>1. filled \in BOOLEAN /\ filled' \in BOOLEAN
        BY NextTyped, PartsOfTyped DEF Typed, TypeOK
      <4> QED BY <3>1, <4>1
    <3> QED BY <1>0b, <2>5, <3>1, <3>3, <3>4, <3>5, <3>6
  <2> QED BY <2>6, <2>7
<1>8. CASE handle_queued_tcp_data
  <2>1. UNCHANGED <<srv_sent, rcv_nxt, fin_rcvd, filled>> /\ Pipe'
    BY <1>1, <1>8, QueuedPipe DEF handle_queued_tcp_data
  <2>2. CASE ~Patient
    BY <1>1, <2>1, <2>2
  <2>3. CASE Patient
    <3>1. sock /\ sock' = sock /\ Len(srv_got') > Len(srv_got)
      BY <1>1, <1>8, <2>3, QueuedPipe DEF handle_queued_tcp_data, Readiness
    <3>2. Stream'
      BY <1>1, <2>1, <2>3, <3>1 DEF Pipe
    <3>3. srv_got' \in Seq(Int)
      BY NextTyped, PartsOfTyped DEF Typed
    <3>4. srv_got' = [i \in 1 .. Len(srv_got') |-> i - 1]
      <4>1. \A i \in DOMAIN srv_got' : srv_got'[i] = i - 1
        BY <3>2 DEF Stream
      <4> QED BY <3>3, <4>1, Consecutive
    <3>5. Least(snd_una', ClientBytes) <= Len(srv_got')
      BY <3>2 DEF Stream, Least
    <3>6. Least(snd_una, ClientBytes) <= Least(snd_una', ClientBytes)
      <4>1. snd_una' = snd_una \/ \E seq : AckClient(seq)
        BY <1>8, Zenon DEF handle_queued_tcp_data, send_partial
      <4>2. snd_una <= snd_una' /\ snd_una' \in Nat
        BY <1>0, <4>1, AckTyped
      <4> QED BY <1>0, <4>2 DEF Least
    <3>7. Relay!Upload
      BY <1>1, <2>1, <2>3, <3>1, <3>4, <3>5, <3>6 DEF Relay!Upload, Least
    <3> QED BY <3>7
  <2> QED BY <2>2, <2>3
<1> QED BY <1>3, <1>4, <1>5, <1>6, <1>7, <1>8 DEF Next

(* zdtun keeps what TcpRelay promises: the server gets the client's bytes   *)
(* in order, once, before the client is told that it did; the client gets   *)
(* the server's, and the end of the stream only after all of them, unless   *)
(* zdtun used up a scaled client's first window before its first ACK; and   *)
(* even then it gets that window's bytes.                                   *)
THEOREM RelayImplemented == Spec => Relayed
<1>1. Init => Typed /\ WInv /\ Readiness /\ Scaling /\ Pipe /\ Relay!Init
  BY InitTyped, InitEdges, InitRelay, InitScaling
<1>2. Typed /\ WInv /\ Readiness /\ Scaling /\ Pipe /\ [Next]_vars
        => (Typed /\ WInv /\ Readiness /\ Scaling /\ Pipe)'
  BY NextTyped, NextEdges, NextReady, NextScaling, NextPipe
<1>3. Typed /\ WInv /\ Readiness /\ Scaling /\ Pipe /\ [Next]_vars
        => [Relay!Next]_(Relay!relay_vars)
  BY NextRelay
<1> QED BY <1>1, <1>2, <1>3, PTL DEF Spec, Relayed, Relay!Spec

(* A client that scales no window is never cut: zdtun never takes from its  *)
(* server what it cannot take.                                              *)
THEOREM UnscaledNothingLost ==
  ASSUME Unit = 1
  PROVE  Spec => [](NothingLost /\ ~filled)
<1>1. Init => Typed /\ WInv /\ Scaling
  BY InitTyped, InitEdges, InitScaling
<1>2. Typed /\ WInv /\ Scaling /\ [Next]_vars => (Typed /\ WInv /\ Scaling)'
  BY NextTyped, NextEdges, NextScaling
<1>3. WInv /\ Scaling => NothingLost /\ ~filled
  BY DEF WInv, WindowSound, Scaling, NothingLost
<1> QED BY <1>1, <1>2, <1>3, PTL DEF Spec
=============================================================================
