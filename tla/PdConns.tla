------------------------------ MODULE PdConns ------------------------------
(***************************************************************************)
(* The connection data of vpnrelay.c (pd_conn_t) and the way its changes   *)
(* leave the native side: new_conns and conns_updates collect pointers to  *)
(* the data that changed, pd_housekeeping sends their contents to Java     *)
(* from time to time and frees what was closed, and the updateConnections  *)
(* of CaptureService puts the batch into a bounded queue.                  *)
(*                                                                         *)
(* zdtun tells of a connection's birth, packets and close; Zdtun is the    *)
(* model of when.  A connection is named by its incr_id.  What Java shows  *)
(* of it is its traffic, whether it is blocked, and whether it is closed.  *)
(***************************************************************************)
EXTENDS Integers, Sequences, SequencesExt

CONSTANTS
  MaxConns,  \* bound: connections of a capture
  MaxBytes,  \* bound: traffic of a connection
  QueueSize, \* capacity of mPendingUpdates (32)
  Lists,     \* there are lists, which may block a connection
  JniFails   \* the JVM may fail to create an object of a dump

Ids == 0 .. (MaxConns - 1)

ASSUME PdConnsAssumption ==
  /\ MaxConns \in Nat /\ MaxBytes \in Nat
  /\ QueueSize \in Nat \ {0}
  /\ {Lists, JniFails} \subseteq BOOLEAN

VARIABLES
  data,            \* the pd_conn_t of each incr_id
  new_conns,       \* pd->new_conns: pointers, as incr_ids
  conns_updates,   \* pd->conns_updates
  new_conn_id,     \* pd->new_conn_id
  running,         \* the flag of the packet loop
  done,            \* pd_run returned
  mPendingUpdates, \* the batches on their way to mConnUpdateThread
  mQueueFull,      \* no batch is accepted any more
  sent,            \* history: what the last accepted batch said of each connection
  failed           \* history: the JVM made a dump fail

native_vars == <<data, new_conns, conns_updates, new_conn_id, running, done>>
java_vars == <<mPendingUpdates, mQueueFull, sent, failed>>
vars == <<native_vars, java_vars>>

-----------------------------------------------------------------------------
Views == [bytes: 0 .. MaxBytes, blocked: BOOLEAN, closed: BOOLEAN]

Unknown == [bytes |-> 0, blocked |-> FALSE, closed |-> FALSE]

NotSent == [Unknown EXCEPT !.bytes = -1]

(* What the lists may say of a connection.                                  *)
Verdicts == IF Lists THEN BOOLEAN ELSE {FALSE}

(* mem is the state of the allocation; to_purge goes with closed; lost says *)
(* that zdtun will never tell of the close.                                 *)
NoData == [mem |-> "none", pending |-> FALSE, lost |-> FALSE, view |-> Unknown]

Alive == {c \in Ids : data[c].mem = "alive"}
(* What zdtun_iter_connections visits: the open connections of zdtun.       *)
Active == {c \in Alive : ~data[c].lost /\ ~data[c].view.closed}

Init ==
  /\ data = [c \in Ids |-> NoData]
  /\ new_conns = <<>> /\ conns_updates = <<>>
  /\ new_conn_id = 0
  /\ running = TRUE /\ done = FALSE
  /\ mPendingUpdates = <<>> /\ mQueueFull = FALSE
  /\ sent = [c \in Ids |-> NotSent] /\ failed = FALSE

(* An item of a batch.                                                      *)
Item(c) == [id |-> c, view |-> data[c].view]

Items == [id: Ids, view: Views]
Batches == [new: Seq(Items), updates: Seq(Items)]

-----------------------------------------------------------------------------
(* The callbacks of zdtun.                                                  *)

handle_new_connection_in_front ==
  /\ running /\ new_conn_id < MaxConns
  /\ data' = [data EXCEPT ![new_conn_id] = [NoData EXCEPT !.mem = "alive", !.pending = TRUE]]
  /\ new_conns' = <<new_conn_id>> \o new_conns
  /\ new_conn_id' = new_conn_id + 1
  /\ UNCHANGED <<conns_updates, running, done, java_vars>>

(* pd_new_connection, which matches the lists against the address.          *)
handle_new_connection ==
  /\ running /\ new_conn_id < MaxConns
  /\ \E blocked \in Verdicts :
       data' = [data EXCEPT ![new_conn_id] =
         [NoData EXCEPT !.mem = "alive", !.pending = TRUE,
                 !.view = [Unknown EXCEPT !.blocked = blocked]]]
  /\ new_conns' = Append(new_conns, new_conn_id)
  /\ new_conn_id' = new_conn_id + 1
  /\ UNCHANGED <<conns_updates, running, done, java_vars>>

pd_notify_twice(c, view) ==
  /\ data' = [data EXCEPT ![c].pending = TRUE, ![c].view = view]
  /\ conns_updates' = IF c \in ToSet(conns_updates) THEN conns_updates
                      ELSE Append(conns_updates, c)

(* The data of c becomes view and Java will be told.                        *)
pd_notify_connection_update(c, view) ==
  /\ data' = [data EXCEPT ![c].pending = TRUE, ![c].view = view]
  /\ conns_updates' = IF data[c].pending THEN conns_updates ELSE Append(conns_updates, c)

(* A packet: it is accounted, or refused because the connection is blocked, *)
(* possibly since the host name that this packet carries.                   *)
pd_process_packet(c) ==
  /\ running /\ c \in Active
  /\ \E bytes \in {data[c].view.bytes, data[c].view.bytes + 1}, found \in Verdicts :
       /\ bytes <= MaxBytes
       /\ bytes = data[c].view.bytes => data[c].view.blocked \/ found
       /\ pd_notify_connection_update(c,
            [data[c].view EXCEPT !.bytes = bytes, !.blocked = data[c].view.blocked \/ found])
  /\ UNCHANGED <<new_conns, new_conn_id, running, done, java_vars>>

connection_closed_unnotified(c) ==
  /\ running /\ c \in Active
  /\ data' = [data EXCEPT ![c].view.closed = TRUE]
  /\ UNCHANGED <<new_conns, conns_updates, new_conn_id, running, done, java_vars>>

(* The last notification: it frees the data.                                *)
connection_closed(c) ==
  /\ running /\ c \in Active
  /\ pd_notify_connection_update(c, [data[c].view EXCEPT !.closed = TRUE])
  /\ UNCHANGED <<new_conns, new_conn_id, running, done, java_vars>>

(* No socket for the first packet of a connection: zdtun assigns the status *)
(* SOCKET_ERROR by hand, and the zdtun_conn_close of run_vpn finds the      *)
(* connection closed and calls nothing back.                                *)
zdtun_forward_socket_error(c) ==
  /\ running /\ c \in Active
  /\ data[c].view.bytes = 0 /\ ~data[c].view.blocked
  /\ data' = [data EXCEPT ![c].lost = TRUE]
  /\ UNCHANGED <<new_conns, conns_updates, new_conn_id, running, done, java_vars>>

-----------------------------------------------------------------------------
(* pd_housekeeping.                                                         *)

(* A new list changes whether an active connection is blocked.              *)
check_blocked_conn_cb(c) ==
  /\ Lists /\ running /\ c \in Active
  /\ pd_notify_connection_update(c, [data[c].view EXCEPT !.blocked = ~data[c].view.blocked])
  /\ UNCHANGED <<new_conns, new_conn_id, running, done, java_vars>>

Batch == [new |-> [i \in DOMAIN new_conns |-> Item(new_conns[i])],
          updates |-> [i \in DOMAIN conns_updates |-> Item(conns_updates[i])]]

updateConnections_unbounded(batch) ==
  /\ mPendingUpdates' = Append(mPendingUpdates, batch)
  /\ sent' = [c \in Ids |-> IF c \in ToSet(new_conns) \cup ToSet(conns_updates)
                            THEN data[c].view ELSE sent[c]]
  /\ UNCHANGED mQueueFull

updateConnections_lossy(batch) ==
  IF Len(mPendingUpdates) < QueueSize
  THEN /\ mPendingUpdates' = Append(mPendingUpdates, batch)
       /\ sent' = [c \in Ids |-> IF c \in ToSet(new_conns) \cup ToSet(conns_updates)
                                 THEN data[c].view ELSE sent[c]]
       /\ UNCHANGED mQueueFull
  ELSE mQueueFull' = TRUE /\ UNCHANGED <<mPendingUpdates, sent>>

(* CaptureService.updateConnections: a batch that finds the queue full is   *)
(* the last one that is tried.                                              *)
updateConnections(batch) ==
  IF mQueueFull THEN UNCHANGED <<mPendingUpdates, mQueueFull, sent>>
  ELSE IF Len(mPendingUpdates) < QueueSize
  THEN /\ mPendingUpdates' = Append(mPendingUpdates, batch)
       /\ sent' = [c \in Ids |-> IF c \in ToSet(new_conns) \cup ToSet(conns_updates)
                                 THEN data[c].view ELSE sent[c]]
       /\ UNCHANGED mQueueFull
  ELSE mQueueFull' = TRUE /\ UNCHANGED <<mPendingUpdates, sent>>

(* The JVM may fail at any item: the batch is dropped, and the items after  *)
(* it keep their pending_notification.                                      *)
Seen(n) == ToSet(SubSeq(new_conns \o conns_updates, 1, n))

conns_clear_still_pending(seen, free_all) ==
  /\ data' = [c \in Ids |->
       IF c \in ToSet(new_conns) \cup ToSet(conns_updates)
            /\ (free_all \/ data[c].view.closed)
       THEN [NoData EXCEPT !.mem = "freed", !.lost = data[c].lost] ELSE data[c]]
  /\ new_conns' = <<>> /\ conns_updates' = <<>>

conns_clear_unsent_kept(seen, free_all) ==
  /\ data' = [c \in Ids |->
       IF c \in ToSet(new_conns) \cup ToSet(conns_updates) /\ data[c].view.closed
       THEN [NoData EXCEPT !.mem = "freed", !.lost = data[c].lost]
       ELSE IF c \in seen THEN [data[c] EXCEPT !.pending = FALSE]
       ELSE data[c]]
  /\ new_conns' = <<>> /\ UNCHANGED conns_updates

(* conns_clear, after sendConnectionsDump looked at the items in seen: what *)
(* was closed is freed, at the end of the capture everything is.            *)
conns_clear(seen, free_all) ==
  /\ data' = [c \in Ids |->
       IF c \in ToSet(new_conns) \cup ToSet(conns_updates)
            /\ (free_all \/ data[c].view.closed)
       THEN [NoData EXCEPT !.mem = "freed", !.lost = data[c].lost]
       ELSE IF c \in seen THEN [data[c] EXCEPT !.pending = FALSE]
       ELSE data[c]]
  /\ new_conns' = <<>> /\ conns_updates' = <<>>

sendConnectionsDump(free_all) ==
  LET all == Len(new_conns) + Len(conns_updates) IN
  \/ /\ updateConnections(Batch)
     /\ conns_clear(Seen(all), free_all)
     /\ UNCHANGED failed
  \/ \E n \in 0 .. all :
       /\ JniFails
       /\ conns_clear(Seen(n), free_all)
       /\ failed' = TRUE
       /\ UNCHANGED <<mPendingUpdates, mQueueFull, sent>>

pd_housekeeping ==
  /\ running /\ new_conns \o conns_updates # <<>>
  /\ sendConnectionsDump(FALSE)
  /\ UNCHANGED <<new_conn_id, running, done>>

-----------------------------------------------------------------------------
(* The user, the system, or a full queue (through the handler).             *)
stopPacketLoop ==
  /\ running
  /\ running' = FALSE
  /\ UNCHANGED <<data, new_conns, conns_updates, new_conn_id, done, java_vars>>

(* The end of run_vpn: zdtun_finalize closes what is still open.            *)
zdtun_finalize ==
  /\ ~running /\ ~done
  /\ \E c \in Active :
       /\ \A d \in Active : c <= d
       /\ pd_notify_connection_update(c, [data[c].view EXCEPT !.closed = TRUE])
  /\ UNCHANGED <<new_conns, new_conn_id, running, done, java_vars>>

(* The end of pd_run: the last dump.                                        *)
pd_run_end ==
  /\ ~running /\ ~done /\ Active = {}
  /\ done' = TRUE
  /\ sendConnectionsDump(TRUE)
  /\ UNCHANGED <<new_conn_id, running>>

(* mConnUpdateThread takes a batch.                                         *)
take ==
  /\ mPendingUpdates # <<>>
  /\ mPendingUpdates' = Tail(mPendingUpdates)
  /\ UNCHANGED <<native_vars, mQueueFull, sent, failed>>

NativeStep ==
  \/ handle_new_connection
  \/ \E c \in Ids : pd_process_packet(c)
  \/ \E c \in Ids : connection_closed(c)
  \/ \E c \in Ids : zdtun_forward_socket_error(c)
  \/ \E c \in Ids : check_blocked_conn_cb(c)
  \/ pd_housekeeping
  \/ stopPacketLoop
  \/ zdtun_finalize
  \/ pd_run_end

Next == NativeStep \/ take

Spec == Init /\ [][Next]_vars

(* The loop does its housekeeping, and the end of the capture runs to its   *)
(* end.                                                                     *)
FairSpec ==
  /\ Spec
  /\ WF_vars(pd_housekeeping) /\ WF_vars(zdtun_finalize) /\ WF_vars(pd_run_end)

-----------------------------------------------------------------------------
Pointers == new_conns \o conns_updates

TypeOK ==
  /\ data \in [Ids -> [mem: {"none", "alive", "freed"}, pending: BOOLEAN,
                   lost: BOOLEAN, view: Views]]
  /\ new_conns \in Seq(Ids) /\ conns_updates \in Seq(Ids)
  /\ new_conn_id \in 0 .. MaxConns
  /\ {running, done, mQueueFull, failed} \subseteq BOOLEAN
  /\ Len(mPendingUpdates) <= QueueSize
  /\ sent \in [Ids -> Views \cup {NotSent}]

(* No array holds a pointer to freed data, or two pointers to the same, so  *)
(* that a dump reads nothing freed and frees nothing twice, even when the   *)
(* JVM fails half way through a dump.                                       *)
NoDangling ==
  /\ ToSet(Pointers) \subseteq {c \in Alive : data[c].pending}
  /\ \A i, j \in DOMAIN Pointers : Pointers[i] = Pointers[j] => i = j

(* Until it does, every connection whose pending_notification is set is in  *)
(* one of them: the flag cannot keep a later change from being sent.        *)
PendingKept == ~failed => {c \in Alive : data[c].pending} \subseteq ToSet(Pointers)

(* "Call this when the connection data has changed. The connection data     *)
(* will be sent to JAVA during the next sendConnectionsDump": a change that *)
(* Java was not told of is in one of the arrays.                            *)
ChangesPending ==
  ~mQueueFull /\ ~failed =>
    \A c \in Alive : data[c].view # sent[c] => c \in ToSet(Pointers)

(* So an array entry is made and taken away together with the flag, and     *)
(* nothing that changes is ever forgotten.                                  *)
NothingForgotten == PendingKept /\ ChangesPending

(* Data is only freed after Java was told that the connection is closed,    *)
(* and at the end of the capture none is left, but for the connections      *)
(* whose close zdtun did not tell.                                          *)
FreedTold ==
  ~failed =>
    /\ ~mQueueFull => \A c \in Ids : data[c].mem = "freed" => sent[c].closed \/ data[c].lost
    /\ done => Alive \subseteq {c \in Ids : data[c].lost}

(* The incr_ids of the new connections reach Java in order and without a    *)
(* gap, "stop receiving updates to avoid inconsistent incr_ids", and no     *)
(* connection is updated before it was sent.                                *)
NewIds(batches) ==
  FlattenSeq([b \in DOMAIN batches |-> [i \in DOMAIN batches[b].new |-> batches[b].new[i].id]])

InOrder ==
  LET queued == NewIds(mPendingUpdates)
      known == {c \in Ids : sent[c] # NotSent}
  IN  /\ \A c \in known : 0 .. c \subseteq known
      /\ \A i \in 1 .. (Len(queued) - 1) : queued[i + 1] = queued[i] + 1
      /\ queued # <<>> => known = 0 .. Last(queued)
      /\ ~mQueueFull => ToSet(conns_updates) \subseteq known

IdsInOrder == ~failed => InOrder

(* What is closed is freed.                                                 *)
ClosedFreed ==
  \A c \in Ids : c \in Alive /\ data[c].view.closed ~> data[c].mem = "freed" \/ failed

-----------------------------------------------------------------------------
(* "The connection data will be sent to JAVA during the next                *)
(* sendConnectionsDump", "Will free the data in sendConnectionsDump": with  *)
(* a JVM that may fail, and for a connection without a socket, too.         *)
FreedInTheEnd == done => Alive = {}

(* "assert(conn.incr_id == id)": with a JVM that may fail, too.             *)
NoGap == InOrder
=============================================================================
