----------------------- MODULE CaptureLifecycleProofs -----------------------
(***************************************************************************)
(* Never two captures in the native code, and the status shown is right,   *)
(* for any number of starts.                                               *)
(*                                                                         *)
(* OneCapture is not inductive: a service instance may be destroyed and    *)
(* replaced while its capture thread still runs, and the new instance      *)
(* knows nothing of that thread.  The invariant says who knows a thread:   *)
(* until it lets it go, the instance that started it (Owned); and that     *)
(* this is the newest instance, not yet destroyed, as long as the VPN is   *)
(* up (Current), which is why the system keeps the service.                *)
(*                                                                         *)
(* StatusAgrees follows the messages on their way to the main thread       *)
(* (Shown).                                                                *)
(***************************************************************************)
EXTENDS CaptureLifecycle, TLAPS

Typed ==
  /\ INSTANCE_ \in 0..MaxStarts /\ alive \subseteq Captures
  /\ mCaptureThread \in [Captures -> 0..MaxStarts]
  /\ pc \in [Captures -> Places] /\ owner \in [Captures -> 0..MaxStarts]

(* There are at most as many instances as captures the service was given,   *)
(* and no thread before its intent.                                         *)
Counted ==
  /\ asked \in 0..MaxStarts /\ intents \in 0..asked
  /\ INSTANCE_ <= asked - intents
  /\ \A c \in Captures : c > asked - intents => pc[c] = "none"

Known(c) == pc[c] \notin {"none", "posting", "done"}

Owned ==
  \A c \in Captures :
    Known(c) => owner[c] \in Captures /\ mCaptureThread[owner[c]] = c

Up(c) == pc[c] \in HasVpn

Current ==
  NotRevoked => \A c \in Captures : Up(c) => owner[c] = INSTANCE_ /\ INSTANCE_ \in alive

IInv == Typed /\ Counted /\ Owned /\ Current

LEMMA ExceptTyped ==
  ASSUME NEW D, NEW R, NEW f \in [D -> R], NEW x, NEW y \in R
  PROVE  [f EXCEPT ![x] = y] \in [D -> R]
  OBVIOUS

LEMMA InitIInv == Init => IInv
<1> SUFFICES ASSUME Init PROVE IInv
  OBVIOUS
<1> USE LifecycleAssumption
<1>1. Typed
  BY DEF Init, Typed, Captures, Places
<1>2. Counted
  BY DEF Init, Counted, Captures
<1>3. Owned /\ Current
  BY DEF Init, Owned, Current, Known, Up, HasVpn, InNative
<1> QED
  BY <1>1, <1>2, <1>3 DEF IInv

(* The invariant holds of every state that has two native captures apart.   *)
LEMMA IInvOneCapture == IInv => OneCapture
<1> SUFFICES ASSUME IInv, NotRevoked, NEW c \in Captures, NEW d \in Captures,
                    pc[c] \in InNative, pc[d] \in InNative
             PROVE  c = d
  BY DEF OneCapture
<1>1. owner[c] = INSTANCE_ /\ owner[d] = INSTANCE_
  BY DEF IInv, Current, Up, HasVpn
<1>2. mCaptureThread[owner[c]] = c /\ mCaptureThread[owner[d]] = d
  BY DEF IInv, Owned, Known, InNative
<1> QED
  BY <1>1, <1>2

-----------------------------------------------------------------------------
(* A thread that goes on within the places of one kind, or leaves the VPN.  *)
LEMMA PassesOn ==
  ASSUME IInv, NEW c \in Captures, NEW place \in Places, Goes(c, place), Known(c),
         place \notin {"none", "java"}, place \in HasVpn => Up(c),
         UNCHANGED <<INSTANCE_, alive, revoked, mCaptureThread, owner, asked, intents>>
  PROVE  IInv'
<1> USE DEF IInv
<1>1. Typed'
  BY DEF Typed, Goes
<1>2. /\ pc' = [pc EXCEPT ![c] = place]
      /\ pc \in [Captures -> Places]
  BY DEF Typed, Goes
<1>3. Counted'
  BY <1>2 DEF Counted, Known
<1>4. Owned'
  <2> SUFFICES ASSUME NEW d \in Captures, Known(d)'
               PROVE  (owner[d] \in Captures /\ mCaptureThread[owner[d]] = d)'
    BY DEF Owned
  <2>1. Known(d)
    BY <1>2 DEF Known
  <2> QED
    BY <2>1 DEF Owned
<1>5. Current'
  <2> SUFFICES ASSUME NotRevoked, NEW d \in Captures, Up(d)'
               PROVE  (owner[d] = INSTANCE_ /\ INSTANCE_ \in alive)'
    BY DEF Current, NotRevoked
  <2>1. Up(d)
    BY <1>2 DEF Up
  <2> QED
    BY <2>1 DEF Current
<1> QED
  BY <1>1, <1>3, <1>4, <1>5

(* The instance forgets its thread, which is the only one it knew.          *)
LEMMA SignalIInv ==
  ASSUME IInv, NEW c \in Captures, signal_stopped(c),
         UNCHANGED <<INSTANCE_, alive, revoked, owner, asked, intents>>
  PROVE  IInv'
<1> USE DEF IInv
<1>1. /\ pc[c] = "clearing"
      /\ pc' = [pc EXCEPT ![c] = "posting"]
      /\ pc \in [Captures -> Places]
      /\ mCaptureThread' = [mCaptureThread EXCEPT ![owner[c]] = 0]
      /\ mCaptureThread \in [Captures -> 0..MaxStarts]
  BY DEF signal_stopped, At, Goes, Typed
<1>2. Typed'
  <2>1. pc' \in [Captures -> Places]
    BY <1>1 DEF Places
  <2>2. 0 \in 0..MaxStarts
    BY LifecycleAssumption
  <2>3. mCaptureThread' \in [Captures -> 0..MaxStarts]
    BY <1>1, <2>2, ExceptTyped
  <2> QED
    BY <2>1, <2>3 DEF Typed
<1>3. Counted'
  BY <1>1 DEF Counted
<1>4. Owned'
  <2> SUFFICES ASSUME NEW d \in Captures, Known(d)'
               PROVE  (owner[d] \in Captures /\ mCaptureThread[owner[d]] = d)'
    BY DEF Owned
  <2>1. d # c /\ Known(d) /\ Known(c)
    BY <1>1 DEF Known
  <2>2. owner[d] \in Captures /\ mCaptureThread[owner[d]] = d
    BY <2>1 DEF Owned
  <2>3. mCaptureThread[owner[c]] = c
    BY <2>1 DEF Owned
  <2>4. owner[d] # owner[c]
    BY <2>1, <2>2, <2>3
  <2> QED
    BY <1>1, <2>2, <2>4
<1>5. Current'
  <2> SUFFICES ASSUME NotRevoked, NEW d \in Captures, Up(d)'
               PROVE  (owner[d] = INSTANCE_ /\ INSTANCE_ \in alive)'
    BY DEF Current, NotRevoked
  <2>1. Up(d)
    BY <1>1 DEF Up, HasVpn, InNative
  <2> QED
    BY <2>1 DEF Current
<1> QED
  BY <1>2, <1>3, <1>4, <1>5

LEMMA RunIInv ==
  ASSUME IInv, NEW c \in Captures, run(c)
  PROVE  IInv'
<1> USE DEF run
<1>1. CASE runPacketLoop(c)
  BY <1>1, PassesOn DEF runPacketLoop, At, Known, Up, HasVpn, InNative, Places
<1>2. CASE pd_run(c)
  BY <1>2, PassesOn DEF pd_run, At, Known, Up, HasVpn, InNative, Places
<1>3. CASE pd_run_fails(c)
  BY <1>3, PassesOn DEF pd_run_fails, At, Known, Up, HasVpn, InNative, Places
<1>4. CASE run_vpn(c)
  BY <1>4, PassesOn DEF run_vpn, At, Known, Up, HasVpn, InNative, Places
<1>5. CASE leave_loop(c)
  BY <1>5, PassesOn DEF leave_loop, At, Known, Up, HasVpn, InNative, Places
<1>6. CASE close_fd(c)
  BY <1>6, PassesOn DEF close_fd, At, Known, HasVpn, InNative, Places
<1>7. CASE run_stopService(c)
  BY <1>7, PassesOn DEF run_stopService, At, Known, HasVpn, InNative, Places
<1>8. CASE signal_stopped(c)
  BY <1>8, SignalIInv
<1>9. CASE post_stopped(c)
  <2> USE DEF IInv
  <2>1. /\ pc[c] = "posting"
        /\ pc' = [pc EXCEPT ![c] = "done"]
        /\ pc \in [Captures -> Places]
        /\ UNCHANGED mCaptureThread
    BY <1>9 DEF post_stopped, At, Goes, Typed
  <2>2. Typed' /\ Counted'
    BY <2>1 DEF Typed, Counted, Places
  <2>3. Owned'
    BY <2>1 DEF Owned, Known
  <2>4. Current'
    BY <2>1 DEF Current, NotRevoked, Up, HasVpn, InNative
  <2> QED
    BY <2>2, <2>3, <2>4
<1>10. CASE invalid_fd(c)
  BY <1>10, PassesOn DEF invalid_fd, At, Known, Up, HasVpn, Places
<1> QED
  BY <1>1, <1>2, <1>3, <1>4, <1>5, <1>6, <1>7, <1>8, <1>9, <1>10

-----------------------------------------------------------------------------
(* An instance is only replaced when it was destroyed, and then no thread   *)
(* has the VPN; a thread is only started by an instance that knows of none. *)
LEMMA OnStartCommandIInv == ASSUME IInv, onStartCommand PROVE IInv'
<1> USE DEF IInv
<1>1. /\ intents > 0 /\ intents' = intents - 1
      /\ INSTANCE_' = Instance /\ alive' = alive \cup {Instance}
      /\ UNCHANGED <<revoked, asked>>
  BY DEF onStartCommand
<1>2. /\ Instance \in 1..(asked - intents + 1)
      /\ NewCapture \in 1..MaxStarts
      /\ asked - intents' = NewCapture /\ NewCapture = asked - intents + 1
  BY <1>1, LifecycleAssumption DEF Typed, Counted, Captures, Instance, NewCapture
<1>3. Instance \in Captures /\ NewCapture \in Captures
  BY <1>1, <1>2, LifecycleAssumption DEF Captures, Counted, NewCapture
<1>4. ASSUME NotRevoked, NEW c \in Captures, Up(c)
      PROVE  owner[c] = Instance /\ Instance \in alive
  BY <1>4 DEF Current, Instance
<1>5. CASE UNCHANGED <<mCaptureThread, thread_vars>>
  <2>1. UNCHANGED <<mCaptureThread, pc, owner>>
    BY <1>5 DEF thread_vars
  <2>2. Typed'
    BY <1>1, <1>3, <2>1 DEF Typed, Captures
  <2>3. Counted'
    <3>1. \A c \in Captures : c > NewCapture => c > asked - intents
      BY <1>2 DEF Captures, Counted
    <3>2. \A c \in Captures : c > NewCapture => pc'[c] = "none"
      BY <3>1, <2>1 DEF Counted
    <3> QED
      BY <1>1, <1>2, <3>2 DEF Counted
  <2>4. Owned'
    BY <2>1 DEF Owned, Known
  <2>5. Current'
    BY <1>1, <1>4, <2>1 DEF Current, NotRevoked, Up
  <2> QED
    BY <2>2, <2>3, <2>4, <2>5
<1>6. CASE started
  <2>1. /\ mCaptureThread[Instance] = 0
        /\ mCaptureThread' = [mCaptureThread EXCEPT ![Instance] = NewCapture]
        /\ pc' = [pc EXCEPT ![NewCapture] = "java"]
        /\ owner' = [owner EXCEPT ![NewCapture] = Instance]
    BY <1>6 DEF started, start_thread, Goes
  <2>2. /\ mCaptureThread \in [Captures -> 0..MaxStarts]
        /\ pc \in [Captures -> Places]
        /\ owner \in [Captures -> 0..MaxStarts]
    BY DEF Typed
  <2>3. Typed'
    <3>1. alive' \subseteq Captures /\ INSTANCE_' \in 0..MaxStarts
      BY <1>1, <1>3 DEF Typed, Captures
    <3>2. mCaptureThread' \in [Captures -> 0..MaxStarts]
      <4>1. NewCapture \in 0..MaxStarts
        BY <1>2, LifecycleAssumption
      <4> QED
        BY <2>1, <2>2, <4>1, ExceptTyped
    <3>3. pc' \in [Captures -> Places]
      BY <2>1, <2>2 DEF Places
    <3>4. owner' \in [Captures -> 0..MaxStarts]
      BY <1>3, <2>1, <2>2 DEF Captures
    <3> QED
      BY <3>1, <3>2, <3>3, <3>4 DEF Typed
  <2>4. Counted'
    <3>1. \A c \in Captures : c > NewCapture => c > asked - intents /\ c # NewCapture
      BY <1>2 DEF Captures, Counted
    <3>2. \A c \in Captures : c > NewCapture => pc'[c] = "none"
      BY <3>1, <2>1, <2>2 DEF Counted
    <3> QED
      BY <1>1, <1>2, <3>2 DEF Counted
  <2>5. Owned'
    <3> SUFFICES ASSUME NEW d \in Captures, Known(d)'
                 PROVE  (owner[d] \in Captures /\ mCaptureThread[owner[d]] = d)'
      BY DEF Owned
    <3>1. CASE d = NewCapture
      BY <3>1, <1>3, <2>1, <2>2
    <3>2. CASE d # NewCapture
      <4>1. Known(d)
        BY <3>2, <2>1, <2>2 DEF Known
      <4>2. owner[d] \in Captures /\ mCaptureThread[owner[d]] = d
        BY <4>1 DEF Owned
      <4>3. owner[d] # Instance
        BY <4>2, <2>1 DEF Captures
      <4> QED
        BY <3>2, <4>2, <4>3, <2>1, <2>2
    <3> QED
      BY <3>1, <3>2
  <2>6. Current'
    <3> SUFFICES ASSUME NotRevoked, NEW d \in Captures, Up(d)'
                 PROVE  (owner[d] = INSTANCE_ /\ INSTANCE_ \in alive)'
      BY <1>1 DEF Current, NotRevoked
    <3>1. CASE d = NewCapture
      BY <3>1, <1>1, <2>1, <2>2
    <3>2. CASE d # NewCapture
      <4>1. Up(d)
        BY <3>2, <2>1, <2>2 DEF Up
      <4> QED
        BY <3>2, <4>1, <1>1, <1>4, <2>1, <2>2
    <3> QED
      BY <3>1, <3>2
  <2> QED
    BY <2>3, <2>4, <2>5, <2>6
<1> QED
  BY <1>5, <1>6 DEF onStartCommand, restart_unsupported, setup_failed, abortStart

(* A service that is destroyed has no VPN.                                  *)
LEMMA OnDestroyIInv == ASSUME IInv, onDestroy PROVE IInv'
<1> USE DEF IInv
<1>1. PICK s \in alive \cap stopSelf : ~Bound(s) /\ alive' = alive \ {s}
  BY DEF onDestroy
<1>2. UNCHANGED <<INSTANCE_, revoked, mCaptureThread, pc, owner, asked, intents>>
  BY DEF onDestroy, thread_vars, ui_vars
<1>3. Typed' /\ Counted' /\ Owned'
  BY <1>1, <1>2 DEF Typed, Counted, Owned, Known
<1>4. Current'
  <2> SUFFICES ASSUME NotRevoked, NEW c \in Captures, Up(c)
               PROVE  owner[c] = INSTANCE_ /\ INSTANCE_ \in alive'
    BY <1>2 DEF Current, NotRevoked, Up
  <2>1. owner[c] = INSTANCE_ /\ INSTANCE_ \in alive
    BY DEF Current
  <2>2. owner[c] # s
    BY <1>1 DEF Bound, Up, NotRevoked
  <2> QED
    BY <1>1, <2>1, <2>2
<1> QED
  BY <1>3, <1>4

(* The user, the status and the losses of the VPN leave the threads alone.  *)
LEMMA OthersIInv ==
  ASSUME IInv, UNCHANGED <<INSTANCE_, alive, mCaptureThread, pc, owner>>,
         UNCHANGED revoked \/ revoked' # {},
         \/ UNCHANGED <<asked, intents>>
         \/ asked < MaxStarts /\ asked' = asked + 1 /\ intents' = intents + 1
  PROVE  IInv'
<1> USE DEF IInv
<1>1. Typed' /\ Owned'
  BY DEF Typed, Owned, Known
<1>2. Counted'
  BY LifecycleAssumption DEF Counted, Typed, Captures
<1>3. Current'
  BY DEF Current, NotRevoked, Up
<1> QED
  BY <1>1, <1>2, <1>3

LEMMA NextIInv == IInv /\ [Next]_vars => IInv'
<1> SUFFICES ASSUME IInv, [Next]_vars PROVE IInv'
  OBVIOUS
<1>1. ASSUME NEW c \in Captures, run(c) PROVE IInv'
  BY <1>1, RunIInv
<1>2. CASE startCapture
  BY <1>2, OthersIInv DEF startCapture, thread_vars
<1>3. CASE onStartCommand
  BY <1>3, OnStartCommandIInv
<1>4. CASE stopCapture
  BY <1>4, OthersIInv DEF stopCapture, thread_vars
<1>5. CASE onRevoke
  BY <1>5, OthersIInv DEF onRevoke, thread_vars, ui_vars
<1>6. CASE onDestroy
  BY <1>6, OnDestroyIInv
<1>7. CASE main_looper
  BY <1>7, OthersIInv DEF main_looper, thread_vars
<1>8. CASE UNCHANGED vars
  BY <1>8, OthersIInv DEF vars, service_vars, thread_vars, ui_vars
<1> QED
  BY <1>1, <1>2, <1>3, <1>4, <1>5, <1>6, <1>7, <1>8 DEF Next

(* The packet loop, whose state is global, is never run by two captures,    *)
(* however many are started, refused, stopped and destroyed, as long as no  *)
(* other app takes the VPN.                                                 *)
THEOREM OneCaptureSafe == Spec => []OneCapture
<1>1. Spec => []IInv
  BY InitIInv, NextIInv, PTL DEF Spec
<1> QED
  BY <1>1, IInvOneCapture, PTL

-----------------------------------------------------------------------------
(* What the user interface shows.                                           *)

Messages == {"STARTED", "STOPPED", "notify"}

Waits(message) == \E i \in DOMAIN main : main[i] = message

(* A thread that was in the packet loop and has not posted its end.         *)
Ends(c) == pc[c] \in {"loop", "left", "stopping", "clearing", "posting"}
Ending == (\E c \in Captures : Ends(c)) \/ Waits("notify")

(* A running capture is shown, or its STARTED waits: a STOPPED that finds   *)
(* it shown stops it.  What is shown, or waits to be, will be taken back:   *)
(* by a STOPPED behind it, or by one that is still to be posted.            *)
Shown ==
  /\ main \in Seq(Messages) /\ shown \in {"STARTED", "STOPPED"}
  /\ shown = "STARTED" => mWasStarted
  /\ NotRevoked => \A c \in Captures :
       At(c, "loop") /\ running => shown = "STARTED" \/ Waits("STARTED")
  /\ shown = "STARTED" => Ending \/ Waits("STOPPED")
  /\ \A i \in DOMAIN main : main[i] = "STARTED" =>
       Ending \/ \E j \in DOMAIN main : i < j /\ main[j] = "STOPPED"

LEMMA InitShown == Init => Shown
  BY DEF Init, Shown, At, NotRevoked

LEMMA ShownAgrees == Shown => StatusAgrees
<1> SUFFICES ASSUME Shown, AtRest, NotRevoked
             PROVE  shown = "STARTED" <=> \E c \in Captures : At(c, "loop")
  BY DEF StatusAgrees
<1>1. main = <<>> /\ \A message : ~Waits(message)
  BY DEF AtRest, Waits
<1>2. ASSUME shown = "STARTED" PROVE \E c \in Captures : At(c, "loop")
  <2>1. PICK c \in Captures : Ends(c)
    BY <1>1, <1>2 DEF Shown, Ending
  <2> QED
    BY <2>1 DEF AtRest, Ends
<1>3. ASSUME NEW c \in Captures, At(c, "loop") PROVE shown = "STARTED"
  BY <1>1, <1>3 DEF Shown, AtRest, At
<1> QED
  BY <1>2, <1>3

(* The queue is the same and no capture starts to run.                      *)
LEMMA QuietShown ==
  ASSUME Shown, UNCHANGED <<main, shown, mWasStarted>>, NotRevoked' => NotRevoked,
         \A c \in Captures : Ends(c) => Ends(c)',
         \A c \in Captures : NotRevoked /\ At(c, "loop")' /\ running' => At(c, "loop") /\ running
  PROVE  Shown'
<1>1. \A message : Waits(message)' <=> Waits(message)
  BY DEF Waits
<1>2. Ending => Ending'
  BY <1>1 DEF Ending
<1> QED
  BY <1>1, <1>2 DEF Shown

LEMMA Appended ==
  ASSUME NEW s \in Seq(Messages), NEW m \in Messages
  PROVE  /\ Append(s, m) \in Seq(Messages)
         /\ Len(s) \in Nat /\ DOMAIN s = 1..Len(s) /\ DOMAIN Append(s, m) = 1..(Len(s) + 1)
         /\ \A i \in 1..Len(s) : Append(s, m)[i] = s[i]
         /\ Append(s, m)[Len(s) + 1] = m
  OBVIOUS

(* A message is posted.                                                     *)
LEMMA PostShown ==
  ASSUME Shown, NEW m \in Messages, main' = Append(main, m), UNCHANGED <<shown, mWasStarted>>,
         NotRevoked' => NotRevoked,
         m = "STARTED" => Ending',
         Ending => Ending' \/ m = "STOPPED",
         \A c \in Captures : NotRevoked /\ At(c, "loop")' /\ running' =>
           (At(c, "loop") /\ running) \/ m = "STARTED"
  PROVE  Shown'
<1> DEFINE n == Len(main)
<1>1. /\ n \in Nat /\ DOMAIN main = 1..n /\ DOMAIN main' = 1..(n + 1)
      /\ \A i \in 1..n : main'[i] = main[i]
      /\ main'[n + 1] = m /\ main' \in Seq(Messages)
  BY Appended DEF Shown
<1> HIDE DEF n
<1>2. \A message : Waits(message) => Waits(message)'
  BY <1>1 DEF Waits
<1>3. Waits(m)'
  <2>1. n + 1 \in DOMAIN main'
    BY <1>1
  <2> QED
    BY <1>1, <2>1 DEF Waits
<1>4. ASSUME NEW i \in DOMAIN main', main'[i] = "STARTED"
      PROVE  Ending' \/ \E j \in DOMAIN main' : i < j /\ main'[j] = "STOPPED"
  <2>1. CASE i = n + 1
    BY <1>1, <1>4, <2>1
  <2>2. CASE i \in 1..n
    <3>1. Ending \/ \E j \in DOMAIN main : i < j /\ main[j] = "STOPPED"
      BY <1>1, <1>4, <2>2 DEF Shown
    <3>2. CASE Ending
      <4>1. n + 1 \in DOMAIN main' /\ i < n + 1
        BY <1>1, <2>2
      <4> QED
        BY <1>1, <3>2, <4>1
    <3>3. CASE \E j \in DOMAIN main : i < j /\ main[j] = "STOPPED"
      <4>1. PICK j \in 1..n : i < j /\ main[j] = "STOPPED"
        BY <1>1, <3>3
      <4>2. j \in DOMAIN main' /\ main'[j] = main[j]
        BY <1>1
      <4> QED
        BY <4>1, <4>2
    <3> QED
      BY <3>1, <3>2, <3>3
  <2> QED
    BY <1>1, <2>1, <2>2
<1>5. shown' = "STARTED" => Ending' \/ Waits("STOPPED")'
  BY <1>2, <1>3 DEF Shown
<1>6. NotRevoked' => \A c \in Captures :
        At(c, "loop")' /\ running' => shown' = "STARTED" \/ Waits("STARTED")'
  BY <1>2, <1>3 DEF Shown
<1> QED
  BY <1>1, <1>4, <1>5, <1>6 DEF Shown

LEMMA OneUp ==
  ASSUME IInv, NotRevoked, NEW c \in Captures, NEW d \in Captures, Up(c), Up(d)
  PROVE  c = d /\ INSTANCE_ # 0 /\ mCaptureThread[INSTANCE_] = c
<1>1. owner[c] = INSTANCE_ /\ owner[d] = INSTANCE_
  BY DEF IInv, Current
<1>2. /\ mCaptureThread[owner[c]] = c /\ mCaptureThread[owner[d]] = d
      /\ owner[c] \in Captures
  BY DEF IInv, Owned, Known, Up, HasVpn, InNative
<1> QED
  BY <1>1, <1>2, LifecycleAssumption DEF Captures

LEMMA RunShown ==
  ASSUME IInv, Shown, NEW c \in Captures, run(c)
  PROVE  Shown'
<1>1. /\ pc \in [Captures -> Places]
      /\ UNCHANGED <<revoked, shown, mWasStarted>>
      /\ NotRevoked' <=> NotRevoked
  BY DEF IInv, Typed, run, NotRevoked
<1>2. CASE runPacketLoop(c) \/ pd_run(c)
  <2>1. PICK place \in {"jni", "pd_run"} : pc' = [pc EXCEPT ![c] = place]
    BY <1>2 DEF runPacketLoop, pd_run, Goes
  <2>2. main' = main /\ Up(c) /\ ~At(c, "loop") /\ ~Ends(c)
    BY <1>2 DEF runPacketLoop, pd_run, At, Up, HasVpn, InNative, Ends
  <2>3. ASSUME NEW d \in Captures, NotRevoked, At(d, "loop")'
        PROVE  FALSE
    <3>1. At(d, "loop") /\ d # c
      BY <1>1, <2>1, <2>3 DEF At
    <3>2. Up(d)
      BY <3>1 DEF At, Up, HasVpn, InNative
    <3> QED
      BY <2>2, <2>3, <3>1, <3>2, OneUp
  <2>4. \A d \in Captures : Ends(d) => Ends(d)'
    BY <1>1, <2>1, <2>2 DEF Ends
  <2> QED
    BY <1>1, <2>2, <2>3, <2>4, QuietShown
<1>3. CASE \/ invalid_fd(c) \/ pd_run_fails(c) \/ leave_loop(c) \/ close_fd(c)
           \/ run_stopService(c) \/ signal_stopped(c)
  <2>1. PICK place \in {"left", "stopping", "clearing", "posting"} : pc' = [pc EXCEPT ![c] = place]
    BY <1>3 DEF invalid_fd, pd_run_fails, leave_loop, close_fd, run_stopService, signal_stopped, Goes
  <2>2. main' = main /\ (running' => running)
    BY <1>3 DEF invalid_fd, pd_run_fails, leave_loop, close_fd, run_stopService, signal_stopped,
                stopService
  <2>3. \A d \in Captures : Ends(d) => Ends(d)'
    BY <1>1, <2>1 DEF Ends
  <2>4. \A d \in Captures : At(d, "loop")' => At(d, "loop")
    BY <1>1, <2>1 DEF At
  <2> QED
    BY <1>1, <2>2, <2>3, <2>4, QuietShown
<1>4. CASE run_vpn(c)
  <2>1. pc' = [pc EXCEPT ![c] = "loop"] /\ running' = running
    BY <1>4 DEF run_vpn, Goes
  <2>2. \A d \in Captures : (Ends(d) => Ends(d)') /\ (d # c /\ At(d, "loop")' => At(d, "loop"))
    BY <1>1, <2>1 DEF Ends, At
  <2>3. CASE running
    <3>1. main' = Append(main, "STARTED") /\ "STARTED" \in Messages
      BY <1>4, <2>3 DEF run_vpn, Messages
    <3>2. Ends(c)'
      BY <1>1, <2>1 DEF Ends
    <3>3. Ending'
      BY <3>2 DEF Ending
    <3> QED
      BY <1>1, <3>1, <3>3, PostShown
  <2>4. CASE ~running
    <3>1. main' = main
      BY <1>4, <2>4 DEF run_vpn
    <3> QED
      BY <1>1, <2>1, <2>2, <2>4, <3>1, QuietShown
  <2> QED
    BY <2>3, <2>4
<1>5. CASE post_stopped(c)
  <2>1. /\ pc' = [pc EXCEPT ![c] = "done"] /\ running' = running
        /\ main' = Append(main, "notify") /\ "notify" \in Messages
    BY <1>5 DEF post_stopped, Goes, Messages
  <2>2. Ending'
    <3>1. main \in Seq(Messages)
      BY DEF Shown
    <3>2. Len(main) + 1 \in DOMAIN main' /\ main'[Len(main) + 1] = "notify"
      BY <2>1, <3>1, Appended
    <3> QED
      BY <3>2 DEF Ending, Waits
  <2>3. \A d \in Captures : At(d, "loop")' => At(d, "loop")
    BY <1>1, <2>1 DEF At
  <2> QED
    BY <1>1, <2>1, <2>2, <2>3, PostShown
<1> QED
  BY <1>2, <1>3, <1>4, <1>5 DEF run

LEMMA OnStartCommandShown ==
  ASSUME IInv, Shown, onStartCommand
  PROVE  Shown'
<1>1. /\ UNCHANGED <<revoked, shown, mWasStarted>> /\ (NotRevoked' <=> NotRevoked)
      /\ intents > 0
  BY DEF onStartCommand, NotRevoked
<1>2. CASE abortStart
  <2>1. /\ UNCHANGED pc /\ running' = FALSE
        /\ main' = Append(main, "STOPPED") /\ "STOPPED" \in Messages
    BY <1>2 DEF abortStart, thread_vars, Messages
  <2> QED
    BY <1>1, <2>1, PostShown DEF At
<1>3. CASE started
  <2>1. /\ pc' = [pc EXCEPT ![NewCapture] = "java"] /\ UNCHANGED <<running, main>>
        /\ pc \in [Captures -> Places]
    BY <1>3 DEF started, start_thread, Goes, IInv, Typed
  <2>2. NewCapture \in Captures /\ NewCapture > asked - intents
    BY <1>1, LifecycleAssumption DEF IInv, Counted, NewCapture, Captures
  <2>3. pc[NewCapture] = "none"
    BY <2>2 DEF IInv, Counted
  <2>4. \A d \in Captures : (Ends(d) => Ends(d)') /\ (At(d, "loop")' => At(d, "loop"))
    BY <2>1, <2>2, <2>3 DEF Ends, At
  <2> QED
    BY <1>1, <2>1, <2>4, QuietShown
<1> QED
  BY <1>2, <1>3 DEF onStartCommand, restart_unsupported, setup_failed

(* The user, the system and the losses of the VPN only take the flag down.  *)
LEMMA OthersShown ==
  ASSUME IInv, Shown, startCapture \/ stopCapture \/ onRevoke \/ onDestroy \/ UNCHANGED vars
  PROVE  Shown'
<1>1. UNCHANGED <<main, shown, mWasStarted, pc>> /\ (running' => running)
  BY DEF startCapture, stopCapture, onRevoke, onDestroy, vars, service_vars, thread_vars, ui_vars,
         stopService
<1>2. NotRevoked' => NotRevoked
  BY DEF startCapture, stopCapture, onRevoke, onDestroy, vars, service_vars, NotRevoked
<1> QED
  BY <1>1, <1>2, QuietShown DEF At, Ends

LEMMA Tailed ==
  ASSUME NEW s \in Seq(Messages), s # <<>>
  PROVE  /\ Tail(s) \in Seq(Messages) /\ Len(s) \in Nat \ {0} /\ DOMAIN s = 1..Len(s)
         /\ DOMAIN Tail(s) = 1..(Len(s) - 1) /\ Len(Tail(s)) = Len(s) - 1
         /\ \A i \in 1..(Len(s) - 1) : Tail(s)[i] = s[i + 1]
         /\ Head(s) = s[1]
  OBVIOUS

(* The main looper takes a message.                                         *)
LEMMA LooperShown ==
  ASSUME IInv, Shown, main_looper
  PROVE  Shown'
<1> DEFINE n == Len(main)
           t == Tail(main)
<1>1. /\ main # <<>> /\ UNCHANGED <<revoked, pc, INSTANCE_, mCaptureThread>>
      /\ (NotRevoked' <=> NotRevoked)
  BY DEF main_looper, thread_vars, NotRevoked
<1>2. /\ t \in Seq(Messages) /\ n \in Nat \ {0} /\ DOMAIN main = 1..n
      /\ DOMAIN t = 1..(n - 1) /\ Len(t) = n - 1
      /\ \A i \in 1..(n - 1) : t[i] = main[i + 1]
      /\ Head(main) = main[1]
  BY <1>1, Tailed DEF Shown
<1> HIDE DEF n, t
<1>3. ASSUME NEW i \in DOMAIN main, i # 1
      PROVE  i - 1 \in DOMAIN t /\ t[i - 1] = main[i]
  <2>1. i - 1 \in 1..(n - 1) /\ (i - 1) + 1 = i
    BY <1>2, <1>3
  <2> QED
    BY <1>2, <2>1
<1>4. \A c \in Captures : Ends(c)' <=> Ends(c)
  BY <1>1 DEF Ends
<1>5. \A c \in Captures : At(c, "loop")' <=> At(c, "loop")
  BY <1>1 DEF At
<1>6. CASE Head(main) = "notify"
  <2>1. /\ main' = Append(t, "STOPPED") /\ UNCHANGED <<shown, mWasStarted, running>>
    BY <1>6 DEF main_looper, t
  <2>2. /\ main' \in Seq(Messages) /\ DOMAIN main' = 1..n
        /\ \A i \in 1..(n - 1) : main'[i] = t[i]
        /\ main'[n] = "STOPPED"
    <3>1. "STOPPED" \in Messages /\ (n - 1) + 1 = n
      BY <1>2 DEF Messages
    <3> QED
      BY <1>2, <2>1, <3>1, Appended
  <2>3. Waits("STOPPED")'
    <3>1. n \in DOMAIN main'
      BY <1>2, <2>2
    <3> QED
      BY <2>2, <3>1 DEF Waits
  <2>4. Waits("STARTED") => Waits("STARTED")'
    <3> SUFFICES ASSUME NEW i \in DOMAIN main, main[i] = "STARTED" PROVE Waits("STARTED")'
      BY DEF Waits
    <3>1. i # 1
      BY <1>2, <1>6
    <3>2. i - 1 \in 1..(n - 1) /\ t[i - 1] = "STARTED"
      BY <1>2, <1>3, <3>1
    <3>3. i - 1 \in DOMAIN main' /\ main'[i - 1] = "STARTED"
      BY <1>2, <2>2, <3>2
    <3> QED
      BY <3>3 DEF Waits
  <2>5. \A i \in DOMAIN main' : main'[i] = "STARTED" =>
          \E j \in DOMAIN main' : i < j /\ main'[j] = "STOPPED"
    <3> SUFFICES ASSUME NEW i \in 1..n, main'[i] = "STARTED"
                 PROVE  n \in DOMAIN main' /\ i < n
      BY <2>2
    <3>1. i # n
      BY <2>2
    <3> QED
      BY <1>2, <2>2, <3>1
  <2> QED
    BY <1>1, <1>5, <2>1, <2>2, <2>3, <2>4, <2>5 DEF Shown
<1>7. ASSUME main' = t, NEW i \in DOMAIN main, NEW j \in DOMAIN main, i # 1, i < j
      PROVE  /\ i - 1 \in DOMAIN main' /\ j - 1 \in DOMAIN main' /\ i - 1 < j - 1
             /\ main'[i - 1] = main[i] /\ main'[j - 1] = main[j]
  <2>1. j # 1
    BY <1>2, <1>7
  <2> QED
    BY <1>2, <1>3, <1>7, <2>1
<1>8. ASSUME main' = t, NEW message, Head(main) # message
      PROVE  Waits(message) => Waits(message)'
  <2> SUFFICES ASSUME NEW i \in DOMAIN main, main[i] = message PROVE Waits(message)'
    BY DEF Waits
  <2>1. i # 1
    BY <1>2, <1>8
  <2>2. i - 1 \in DOMAIN main' /\ main'[i - 1] = message
    BY <1>3, <1>8, <2>1
  <2> QED
    BY <2>2 DEF Waits
<1>9. ASSUME main' = t, Head(main) # "notify"
      PROVE  /\ Ending => Ending'
             /\ \A i \in DOMAIN main' : main'[i] = "STARTED" =>
                  Ending' \/ \E j \in DOMAIN main' : i < j /\ main'[j] = "STOPPED"
  <2>1. Ending => Ending'
    BY <1>4, <1>8, <1>9 DEF Ending
  <2>2. ASSUME NEW i \in DOMAIN main', main'[i] = "STARTED", ~Ending'
        PROVE  \E j \in DOMAIN main' : i < j /\ main'[j] = "STOPPED"
    <3>1. i + 1 \in DOMAIN main /\ main[i + 1] = "STARTED" /\ i + 1 # 1 /\ (i + 1) - 1 = i
      BY <1>2, <1>9, <2>2
    <3>2. PICK j \in DOMAIN main : i + 1 < j /\ main[j] = "STOPPED"
      BY <2>1, <2>2, <3>1 DEF Shown
    <3>3. j - 1 \in DOMAIN main' /\ i < j - 1 /\ main'[j - 1] = "STOPPED"
      BY <1>7, <1>9, <3>1, <3>2
    <3> QED
      BY <3>3
  <2> QED
    BY <2>1, <2>2
<1>10. CASE Head(main) = "STARTED"
  <2>1. main' = t /\ shown' = "STARTED" /\ mWasStarted' = TRUE
    BY <1>10 DEF main_looper, show_started, t
  <2>2. Ending' \/ Waits("STOPPED")'
    <3>1. 1 \in DOMAIN main /\ main[1] = "STARTED"
      BY <1>2, <1>10
    <3>2. Ending \/ \E j \in DOMAIN main : 1 < j /\ main[j] = "STOPPED"
      BY <3>1 DEF Shown
    <3>3. Ending \/ Waits("STOPPED")
      BY <3>2 DEF Waits
    <3> QED
      BY <1>8, <1>9, <1>10, <2>1, <3>3
  <2> QED
    BY <1>2, <1>9, <1>10, <2>1, <2>2 DEF Shown
<1>11. CASE Head(main) = "STOPPED"
  <2>1. main' = t /\ shown' = "STOPPED" /\ show_stopped
    BY <1>11 DEF main_looper, show_stopped, t
  <2>2. ASSUME NotRevoked, NEW c \in Captures, At(c, "loop"), running'
        PROVE  Waits("STARTED")'
    <3>1. INSTANCE_ # 0 /\ mCaptureThread[INSTANCE_] = c /\ c # 0
      BY <2>2, OneUp, LifecycleAssumption DEF At, Up, HasVpn, InNative, Captures
    <3>2. isServiceActive
      BY <3>1 DEF isServiceActive
    <3>3. ~mWasStarted
      BY <2>1, <2>2, <3>1, <3>2 DEF show_stopped, stopService
    <3>4. running
      BY <2>1, <2>2, <3>3 DEF show_stopped
    <3>5. Waits("STARTED")
      BY <2>2, <3>3, <3>4 DEF Shown
    <3> QED
      BY <1>8, <1>11, <2>1, <3>5
  <2> QED
    BY <1>1, <1>2, <1>5, <1>9, <1>11, <2>1, <2>2 DEF Shown
<1> QED
  BY <1>6, <1>10, <1>11 DEF main_looper

LEMMA NextShown == IInv /\ Shown /\ [Next]_vars => Shown'
<1> SUFFICES ASSUME IInv, Shown, [Next]_vars PROVE Shown'
  OBVIOUS
<1>1. ASSUME NEW c \in Captures, run(c) PROVE Shown'
  BY <1>1, RunShown
<1>2. CASE onStartCommand
  BY <1>2, OnStartCommandShown
<1>3. CASE startCapture \/ stopCapture \/ onRevoke \/ onDestroy \/ UNCHANGED vars
  BY <1>3, OthersShown
<1>4. CASE main_looper
  BY <1>4, LooperShown
<1> QED
  BY <1>1, <1>2, <1>3, <1>4 DEF Next

(* When everything has come to rest, MainActivity shows whether there is a  *)
(* capture: it never misses one that runs, whose STARTED a late STOPPED of  *)
(* the one before would cover up, and never shows one that ended.           *)
THEOREM StatusAgreesSafe == Spec => []StatusAgrees
<1>1. Init => IInv /\ Shown
  BY InitIInv, InitShown
<1>2. IInv /\ Shown /\ [Next]_vars => (IInv /\ Shown)'
  BY NextIInv, NextShown
<1> QED
  BY <1>1, <1>2, ShownAgrees, PTL DEF Spec
=============================================================================
