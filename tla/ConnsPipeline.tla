--------------------------- MODULE ConnsPipeline ---------------------------
(***************************************************************************)
(* The way of a connection from the packet loop to the user interface:     *)
(* PdConns on the capture thread, the bounded queue mPendingUpdates, and   *)
(* mConnUpdateThread, which takes the batches to the ConnectionsRegister;  *)
(* and the end of a capture, when the capture thread puts a termination    *)
(* request behind the batches and joins the other thread.                  *)
(***************************************************************************)
EXTENDS PdConns

CONSTANTS
  Size, ResetAbove, Uids, Uid, \* those of the register
  Termination                  \* the Pair(null, null) of signalServicesTermination

ASSUME PipelineAssumption ==
  /\ Size \in Nat \ {0} /\ ResetAbove \in Nat
  /\ Uid \in [Ids -> Uids]
  /\ Termination \notin Batches

VARIABLES
  reg,     \* the register
  updater, \* mConnUpdateThread: "working" or "exited"
  capture, \* the capture thread: "native", "joining", "ended"
  interrupt \* of the capture thread: "none", "set", "taken"

pipeline_vars == <<vars, reg, updater, capture, interrupt>>

(* The connections that the register was given: those that were sent, but   *)
(* for the ones that are new in a batch of the queue.                       *)
Awaited ==
  {item.id : item \in UNION {ToSet(batch.new) : batch \in ToSet(mPendingUpdates) \ {Termination}}}
Given == {c \in Ids : sent[c] # NotSent} \ Awaited

(* The connections of the ring, oldest first.                               *)
Ring ==
  LET first == IF reg.mCurItems < Size THEN 0 ELSE reg.mTail
  IN  [i \in 1 .. reg.mCurItems |-> reg.mItemsRing[(first + (i - 1)) % Size]]

Register == INSTANCE ConnectionsRegister WITH
  MaxId <- MaxConns, MaxBatch <- MaxConns, MaxUpdates <- MaxConns, UserResets <- FALSE,
  next_id <- Cardinality(Given), recent <- Ring,
  received <- reg.mUntrackedItems + reg.mCurItems, stats_cut <- FALSE

PipelineInit ==
  /\ Init
  /\ reg = Register!Empty
  /\ updater = "working" /\ capture = "native" /\ interrupt = "none"

-----------------------------------------------------------------------------
(* The capture thread, in runPacketLoop.                                    *)
native ==
  /\ capture = "native"
  /\ NativeStep
  /\ UNCHANGED <<reg, updater, capture, interrupt>>

(* A full queue does not take the request.                                  *)
offer ==
  mPendingUpdates' = IF Len(mPendingUpdates) < QueueSize
                     THEN Append(mPendingUpdates, Termination) ELSE mPendingUpdates

signalServicesTermination ==
  /\ capture = "native" /\ done
  /\ capture' = "joining"
  /\ offer
  /\ UNCHANGED <<native_vars, mQueueFull, sent, failed, reg, updater, interrupt>>

(* An interrupt sends the request again.                                    *)
stopAndJoinThreads ==
  /\ capture = "joining"
  /\ \/ /\ updater = "exited"
        /\ capture' = "ended"
        /\ UNCHANGED <<vars, interrupt>>
     \/ /\ updater = "working" /\ interrupt = "set"
        /\ interrupt' = "taken"
        /\ offer
        /\ UNCHANGED <<native_vars, mQueueFull, sent, failed, capture>>
  /\ UNCHANGED <<reg, updater>>

(* The system destroys the service that stopService stopped; a queue that   *)
(* overran only stops the packet loop.                                      *)
onDestroy ==
  /\ ~running /\ capture # "ended" /\ interrupt = "none"
  /\ interrupt' = "set"
  /\ UNCHANGED <<vars, reg, updater, capture>>

(* mConnUpdateThread.                                                       *)
Shown(item) == [id |-> item.id,
                view |-> [bytes |-> item.view.bytes, blocked |-> item.view.blocked,
                          blacklisted |-> FALSE]]

apply_only_with_new(batch) ==
  IF batch.new = <<>> THEN reg
  ELSE Register!handle(reg,
         [new |-> [i \in DOMAIN batch.new |-> Shown(batch.new[i])],
          updates |-> [i \in DOMAIN batch.updates |-> Shown(batch.updates[i])]])

(* The malware flags are left to the runs of ConnectionsRegister.           *)
apply(batch) ==
  Register!handle(reg, [new |-> [i \in DOMAIN batch.new |-> Shown(batch.new[i])],
                        updates |-> [i \in DOMAIN batch.updates |-> Shown(batch.updates[i])]])

connUpdateWork_stopping ==
  /\ updater = "working" /\ capture # "native"
  /\ updater' = "exited"
  /\ UNCHANGED <<vars, reg, capture, interrupt>>

connUpdateWork ==
  /\ updater = "working" /\ mPendingUpdates # <<>>
  /\ mPendingUpdates' = Tail(mPendingUpdates)
  /\ LET item == Head(mPendingUpdates)
     IN  IF item = Termination
         THEN updater' = "exited" /\ UNCHANGED reg
         ELSE /\ reg' = IF Register!TooMany(apply(item)) THEN Register!reset(apply(item))
                        ELSE apply(item)
              /\ UNCHANGED updater
  /\ UNCHANGED <<native_vars, mQueueFull, sent, failed, capture, interrupt>>

PipelineNext ==
  native \/ signalServicesTermination \/ stopAndJoinThreads \/ onDestroy \/ connUpdateWork

PipelineSpec == PipelineInit /\ [][PipelineNext]_pipeline_vars

(* Both threads keep running; the loop does its housekeeping.               *)
PipelineFairSpec ==
  /\ PipelineSpec
  /\ WF_pipeline_vars(native /\ pd_housekeeping)
  /\ WF_pipeline_vars(native /\ zdtun_finalize)
  /\ WF_pipeline_vars(native /\ pd_run_end)
  /\ WF_pipeline_vars(signalServicesTermination)
  /\ WF_pipeline_vars(stopAndJoinThreads)
  /\ WF_pipeline_vars(connUpdateWork)

-----------------------------------------------------------------------------
InRing == {Register!getConn(reg, i) : i \in 0 .. (reg.mCurItems - 1)}
Queued == ToSet(mPendingUpdates) \ {Termination}

(* When nothing is queued the register shows exactly what the native side   *)
(* last said of each connection it still has; in particular an update       *)
(* always found the connection of its incr_id.  (Until the JVM fails.)      *)
ShownIsSent ==
  ~failed /\ Queued = {} => \A c \in InRing :
    c.id >= 0 /\ c.bytes = sent[c.id].bytes /\ c.block_accounted = sent[c.id].blocked

(* The register ends with the newest connection that was sent, and has no   *)
(* gap.                                                                     *)
NoGapShown ==
  ~failed => \A i \in 0 .. (reg.mCurItems - 2) :
    Register!getConn(reg, i + 1).id = Register!getConn(reg, i).id + 1

(* The updates thread does not exit with batches left to apply.             *)
NothingLeft == updater = "exited" => Queued = {}

-----------------------------------------------------------------------------
(* The parts in the whole.  The queue without the termination requests,     *)
(* which are behind the batches, is the one of PdConns: neither the updates *)
(* thread nor the end of a capture does anything to it that take does not.  *)
Batched ==
  [b \in {b \in DOMAIN mPendingUpdates : mPendingUpdates[b] # Termination} |-> mPendingUpdates[b]]

Native == INSTANCE PdConns WITH mPendingUpdates <- Batched

NativeKept == Native!Spec

(* The register gets what ConnectionsRegister expects, until the JVM fails: *)
(* the new connections of a batch go on where those before ended, a         *)
(* connection is updated after it was new, once in a batch, and never with  *)
(* less traffic than it shows.                                              *)
RegisterFed == Register!Init /\ [][failed \/ Register!Next]_(Register!vars)

(* So it shows the right counters.                                          *)
CountersAgree == ~failed => Register!CountersShown

-----------------------------------------------------------------------------
(* "Stops the running Service. The SERVICE_STATUS_STOPPED notification is   *)
(* sent asynchronously when mCaptureThread terminates" (stopService).       *)
StopEnds == ~running ~> capture = "ended"
=============================================================================
