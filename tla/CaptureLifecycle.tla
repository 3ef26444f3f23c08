-------------------------- MODULE CaptureLifecycle --------------------------
(***************************************************************************)
(* The life of captures: the instances of CaptureService that the system   *)
(* creates and destroys, their capture threads, the global flag running of *)
(* vpnrelay.c, and the main thread with its message queue, on which the    *)
(* status reaches MainActivity.  A thread is told by the number of its     *)
(* capture; what it does in the packet loop and how it joins the updates   *)
(* thread is in PdConns and ConnsPipeline.                                 *)
(***************************************************************************)
EXTENDS Integers, Sequences

CONSTANTS
  MaxStarts, \* bound: captures asked for
  Revokes    \* another app may take the VPN

ASSUME LifecycleAssumption == MaxStarts \in Nat /\ Revokes \in BOOLEAN

VARIABLES
  INSTANCE_,      \* the number of the newest service instance, 0 for null
  alive,          \* the instances that are not destroyed
  stopSelf,       \* those that asked the system to be stopped
  revoked,        \* those that lost the VPN
  mCaptureThread, \* by instance: its capture thread, 0 for null
  pc,             \* by capture: where its thread is
  owner,          \* by capture: the instance that started it
  asked,          \* captures asked for
  intents,        \* of these, the ones the service was not yet given
  running,
  main,           \* the messages of the main looper
  blocked,        \* the main thread is in waitForCaptureStop
  shown,          \* the status MainActivity shows
  mWasStarted

service_vars == <<INSTANCE_, alive, stopSelf, revoked, mCaptureThread>>
thread_vars == <<pc, owner>>
ui_vars == <<asked, intents, blocked, shown, mWasStarted>>
vars == <<service_vars, thread_vars, running, main, ui_vars>>

Captures == 1..MaxStarts

(* A thread: before runPacketLoop, in it before and after pd_run set the    *)
(* flag, in the packet loop, out of it with the VPN still open, then with   *)
(* the VPN closed, before and after it let mCaptureThread go.               *)
Places == {"none", "java", "jni", "pd_run", "loop", "left",
           "stopping", "clearing", "posting", "done"}
InNative == {"jni", "pd_run", "loop"}
HasVpn == InNative \cup {"java", "left"}

Init ==
  /\ INSTANCE_ = 0 /\ alive = {} /\ stopSelf = {} /\ revoked = {}
  /\ mCaptureThread = [s \in Captures |-> 0]
  /\ pc = [c \in Captures |-> "none"] /\ owner = [c \in Captures |-> 0]
  /\ asked = 0 /\ intents = 0 /\ running = FALSE /\ main = <<>>
  /\ blocked = FALSE /\ shown = "STOPPED" /\ mWasStarted = FALSE

isServiceActive == INSTANCE_ # 0 /\ mCaptureThread[INSTANCE_] # 0

(* The static method acts on the newest instance, whoever calls it.         *)
stopService ==
  IF INSTANCE_ = 0 THEN UNCHANGED <<running, stopSelf>>
  ELSE running' = FALSE /\ stopSelf' = stopSelf \cup {INSTANCE_}

-----------------------------------------------------------------------------
(* The capture thread.                                                      *)
At(c, place) == pc[c] = place
Goes(c, place) == pc' = [pc EXCEPT ![c] = place]

runPacketLoop(c) ==
  /\ At(c, "java") /\ Goes(c, "jni")
  /\ running' = TRUE
  /\ UNCHANGED <<stopSelf, mCaptureThread, main, blocked>>

pd_run(c) ==
  /\ At(c, "jni") /\ Goes(c, "pd_run")
  /\ running' = TRUE
  /\ UNCHANGED <<stopSelf, mCaptureThread, main, blocked>>

(* The file descriptor of the VPN is out of range.                          *)
invalid_fd(c) ==
  /\ At(c, "java") /\ Goes(c, "left")
  /\ UNCHANGED <<running, stopSelf, mCaptureThread, main, blocked>>

(* nDPI or zdtun cannot be initialised.                                     *)
pd_run_fails(c) ==
  /\ At(c, "pd_run") /\ Goes(c, "left")
  /\ UNCHANGED <<running, stopSelf, mCaptureThread, main, blocked>>

run_vpn(c) ==
  /\ At(c, "pd_run") /\ Goes(c, "loop")
  /\ main' = IF running THEN Append(main, "STARTED") ELSE main
  /\ UNCHANGED <<running, stopSelf, mCaptureThread, blocked>>

(* The flag is down, or select or the tun device fails.                     *)
leave_loop(c) ==
  /\ At(c, "loop") /\ Goes(c, "left")
  /\ UNCHANGED <<running, stopSelf, mCaptureThread, main, blocked>>

(* The VPN is closed and the other threads are joined.                      *)
close_fd(c) ==
  /\ At(c, "left") /\ Goes(c, "stopping")
  /\ UNCHANGED <<running, stopSelf, mCaptureThread, main, blocked>>

run_stopService(c) ==
  /\ At(c, "stopping") /\ Goes(c, "clearing")
  /\ stopService
  /\ UNCHANGED <<mCaptureThread, main, blocked>>

(* Mutant. Nobody is notified.                                              *)
signal_stopped_unheard(c) ==
  /\ At(c, "clearing") /\ Goes(c, "posting")
  /\ mCaptureThread' = [mCaptureThread EXCEPT ![owner[c]] = 0]
  /\ UNCHANGED <<running, stopSelf, main, blocked>>

(* Under mLock; the thread that waits wakes up and sees it.                 *)
signal_stopped(c) ==
  /\ At(c, "clearing") /\ Goes(c, "posting")
  /\ mCaptureThread' = [mCaptureThread EXCEPT ![owner[c]] = 0]
  /\ blocked' = (blocked /\ owner[c] # INSTANCE_)
  /\ UNCHANGED <<running, stopSelf, main>>

post_stopped(c) ==
  /\ At(c, "posting") /\ Goes(c, "done")
  /\ main' = Append(main, "notify")
  /\ UNCHANGED <<running, stopSelf, mCaptureThread, blocked>>

run(c) ==
  /\ \/ runPacketLoop(c) \/ invalid_fd(c) \/ pd_run(c) \/ pd_run_fails(c)
     \/ run_vpn(c) \/ leave_loop(c) \/ close_fd(c) \/ run_stopService(c)
     \/ signal_stopped(c) \/ post_stopped(c)
  /\ UNCHANGED <<INSTANCE_, alive, revoked, owner, asked, intents, shown,
                 mWasStarted>>

-----------------------------------------------------------------------------
(* The main thread, unless it waits for a capture to end.                   *)

(* CaptureHelper.startCapture; the system passes the intent on later and    *)
(* keeps a service that was asked for again.                                *)
startCapture ==
  /\ ~blocked /\ asked < MaxStarts
  /\ asked' = asked + 1 /\ intents' = intents + 1
  /\ IF isServiceActive
     THEN running' = FALSE
     ELSE UNCHANGED running
  /\ stopSelf' = stopSelf \ {INSTANCE_}
  /\ UNCHANGED <<INSTANCE_, alive, revoked, mCaptureThread, thread_vars, main,
                 blocked, shown, mWasStarted>>

(* A new instance if there is none, or the last one was destroyed.          *)
Instance == IF INSTANCE_ \in alive THEN INSTANCE_ ELSE INSTANCE_ + 1

abortStart ==
  /\ running' = FALSE /\ stopSelf' = stopSelf \cup {Instance}
  /\ main' = Append(main, "STOPPED")
  /\ UNCHANGED <<mCaptureThread, thread_vars>>

restart_unsupported == mCaptureThread[Instance] # 0 /\ abortStart

(* The set-up may fail too.                                                 *)
setup_failed == mCaptureThread[Instance] = 0 /\ abortStart

NewCapture == asked - intents + 1

start_thread ==
  /\ mCaptureThread' = [mCaptureThread EXCEPT ![Instance] = NewCapture]
  /\ Goes(NewCapture, "java")
  /\ owner' = [owner EXCEPT ![NewCapture] = Instance]
  /\ UNCHANGED <<running, stopSelf, main>>

(* Mutant. The capture thread of before is not looked at.                   *)
started_anyway == start_thread

started == mCaptureThread[Instance] = 0 /\ start_thread

onStartCommand ==
  /\ ~blocked /\ intents > 0
  /\ intents' = intents - 1
  /\ INSTANCE_' = Instance /\ alive' = alive \cup {Instance}
  /\ restart_unsupported \/ setup_failed \/ started
  /\ UNCHANGED <<revoked, asked, blocked, shown, mWasStarted>>

(* The user stops the capture; CaptureCtrl also waits for its end.          *)
stopCapture ==
  /\ ~blocked /\ isServiceActive
  /\ stopService
  /\ blocked' \in BOOLEAN
  /\ UNCHANGED <<INSTANCE_, alive, revoked, mCaptureThread, thread_vars, main,
                 asked, intents, shown, mWasStarted>>

onRevoke ==
  /\ Revokes /\ ~blocked /\ INSTANCE_ \in alive \ revoked
  /\ revoked' = revoked \cup {INSTANCE_}
  /\ stopService
  /\ UNCHANGED <<INSTANCE_, alive, mCaptureThread, thread_vars, main, ui_vars>>

(* The system destroys a stopped service that it is not bound to: it is, as *)
(* long as the VPN is up.                                                   *)
Bound(s) ==
  /\ s \notin revoked
  /\ \E c \in Captures : owner[c] = s /\ pc[c] \in HasVpn

onDestroy ==
  /\ ~blocked
  /\ \E s \in alive \cap stopSelf : ~Bound(s) /\ alive' = alive \ {s}
  /\ UNCHANGED <<INSTANCE_, stopSelf, revoked, mCaptureThread, thread_vars,
                 running, main, ui_vars>>

(* MainActivity's observer.  A capture that is still active when STOPPED    *)
(* arrives is stopped.                                                      *)
show_started ==
  /\ shown' = "STARTED" /\ mWasStarted' = TRUE
  /\ UNCHANGED <<running, stopSelf>>

(* Mutant. The observer only shows the status.                              *)
show_stopped_only ==
  /\ shown' = "STOPPED" /\ mWasStarted' = FALSE
  /\ UNCHANGED <<running, stopSelf>>

show_stopped ==
  /\ shown' = "STOPPED" /\ mWasStarted' = FALSE
  /\ IF mWasStarted /\ isServiceActive THEN stopService
     ELSE UNCHANGED <<running, stopSelf>>

(* run() posts a message whose handler posts the status.                    *)
main_looper ==
  /\ ~blocked /\ main # <<>>
  /\ LET task == Head(main) IN
     \/ /\ task = "notify"
        /\ main' = Append(Tail(main), "STOPPED")
        /\ UNCHANGED <<shown, mWasStarted, running, stopSelf>>
     \/ /\ task = "STARTED" /\ show_started
        /\ main' = Tail(main)
     \/ /\ task = "STOPPED" /\ show_stopped
        /\ main' = Tail(main)
  /\ UNCHANGED <<INSTANCE_, alive, revoked, mCaptureThread, thread_vars, asked,
                 intents, blocked>>

Next ==
  \/ \E c \in Captures : run(c)
  \/ startCapture \/ onStartCommand \/ stopCapture \/ onRevoke \/ onDestroy
  \/ main_looper

(* The threads run; the packet loop wakes up every SELECT_TIMEOUT and looks *)
(* at the flag; the system passes intents on.                               *)
Spec ==
  /\ Init /\ [][Next]_vars
  /\ \A c \in Captures :
       WF_vars((At(c, "loop") => ~running) /\ run(c))
  /\ WF_vars(main_looper) /\ WF_vars(onStartCommand)

-----------------------------------------------------------------------------
(* A revoked VPN is another matter: the system may destroy a service whose  *)
(* packet loop has not seen the flag, and the next capture raises it again. *)
NotRevoked == revoked = {}

(* Never two threads in the native code, which keeps the capture in global  *)
(* variables, over restarts, refused restarts and destroyed services.       *)
OneCapture ==
  NotRevoked => \A c, d \in Captures :
    (pc[c] \in InNative /\ pc[d] \in InNative) => c = d

(* When everything has come to rest the user interface shows whether there  *)
(* is a capture, although the STOPPED of one may pass the STARTED of the    *)
(* next: it then stops that one.                                            *)
AtRest ==
  /\ main = <<>> /\ ~blocked /\ intents = 0
  /\ \A c \in Captures :
       pc[c] \in {"none", "done"} \/ (At(c, "loop") /\ running)

StatusAgrees ==
  (AtRest /\ NotRevoked) =>
    (shown = "STARTED" <=> \E c \in Captures : At(c, "loop"))

(* A stop that reaches the packet loop ends the capture, and who waits for  *)
(* it wakes up: no restart that the main thread tries meanwhile raises the  *)
(* flag again before the loop has seen it.                                  *)
StopHeard ==
  \A c \in Captures :
    LET heard == At(c, "loop") /\ ~running
    IN  /\ heard ~> pc[c] = "done" \/ ~NotRevoked
        /\ heard /\ blocked ~> ~blocked \/ ~NotRevoked

-----------------------------------------------------------------------------
(* What the code does not keep.                                             *)

(* "The SERVICE_STATUS_STOPPED notification is sent asynchronously when     *)
(* mCaptureThread terminates": a stop of an active service ends its capture.*)
StopEnds == (INSTANCE_ \in stopSelf /\ isServiceActive) ~> ~isServiceActive
=============================================================================
