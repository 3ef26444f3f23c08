----------------------- MODULE BlacklistsUpdateProofs -----------------------
(***************************************************************************)
(* The malware lists, for any number of lists, updates and captures: no    *)
(* file is written by two downloads at a time, Java shows the lists that   *)
(* the packet loop has, and the state stays well formed.                   *)
(*                                                                         *)
(* Paths makes the first one inductive: the file of a download is among    *)
(* activePaths.  Told does it for the second one: the last message of the  *)
(* native code that still waits says what the packet loop has, and when    *)
(* none waits Java already shows it.  For the types the count of pending   *)
(* tasks is the hard part: each callback that is still due, of a download, *)
(* in the queue or of the updater that goes through its lists, was counted *)
(* (Counted, Tallied).                                                     *)
(***************************************************************************)
EXTENDS BlacklistsUpdate, SequenceTheorems, FiniteSetTheorems, TLAPS

Threads == [pc : {"start", "lists", "reload"}, update : UpdateIds,
            todo : Seq(Lists)]
Tasks == [list : Lists, update : UpdateIds, at : {"fetch", "rename"}]
Messages == [kind : {"callback", "finalize", "loaded"},
             update : 0..MaxUpdates, lists : SUBSET Lists]

Typed ==
  /\ updates \in 0..MaxUpdates
  /\ updater \in [1..MaxCaptures -> {None} \cup Threads]
  /\ downloads \subseteq Tasks
  /\ main \in Seq(Messages)

Paths == \A d \in downloads : d.list \in activePaths

LoadedIn(content) == {l \in Lists : content[l] # 0}
NoneFrom(q, k) == \A i \in k..Len(q) : q[i].kind # "loaded"

ToldBy(q, shown, content) ==
  content # None =>
    \/ NoneFrom(q, 1) /\ shown = LoadedIn(content)
    \/ \E i \in 1..Len(q) :
         /\ q[i].kind = "loaded" /\ q[i].lists = LoadedIn(content)
         /\ NoneFrom(q, i + 1)

Told == ToldBy(main, loaded, bl)

IInv == Typed /\ Paths /\ OneDownloadPerFile /\ Told

LEMMA InitIInv == Init => IInv
<1> SUFFICES ASSUME Init PROVE IInv
  OBVIOUS
<1>1. Typed
  BY BlacklistsAssumption DEF Init, Typed
<1>2. Paths /\ OneDownloadPerFile /\ Told
  BY DEF Init, Paths, OneDownloadPerFile, Told, ToldBy
<1> QED
  BY <1>1, <1>2 DEF IInv

(* When no message of the native code waits, Told is LoadedShown.           *)
LEMMA IInvLoadedShown == IInv => LoadedShown
<1> SUFFICES ASSUME IInv, bl # None,
                    \A i \in DOMAIN main : main[i].kind # "loaded"
             PROVE  loaded = LoadedIn(bl)
  BY DEF LoadedShown, LoadedIn
<1>1. main \in Seq(Messages) /\ Told
  BY DEF IInv, Typed
<1>2. DOMAIN main = 1..Len(main)
  BY <1>1
<1> QED
  BY <1>1, <1>2 DEF Told, ToldBy

-----------------------------------------------------------------------------
(* What the queue of the main thread does to Told: a message that is not of *)
(* the native code comes, one that is comes, and the head is handled.       *)
LEMMA CallbackQueued ==
  ASSUME NEW q \in Seq(Messages), NEW shown, NEW content,
         ToldBy(q, shown, content), NEW m \in Messages, m.kind # "loaded"
  PROVE  ToldBy(Append(q, m), shown, content)
<1> DEFINE r == Append(q, m)
<1>1. /\ Len(q) \in Nat /\ Len(r) = Len(q) + 1
      /\ \A i \in 1..Len(q) : r[i] = q[i]
      /\ r[Len(q) + 1] = m
  BY AppendProperties
<1> HIDE DEF r
<1>2. ASSUME NEW k \in Nat \ {0}, NoneFrom(q, k) PROVE NoneFrom(r, k)
  BY <1>1, <1>2 DEF NoneFrom
<1>3. ASSUME content # None, NoneFrom(q, 1), shown = LoadedIn(content)
      PROVE  ToldBy(r, shown, content)
  BY <1>2, <1>3 DEF ToldBy
<1>4. ASSUME NEW i \in 1..Len(q), q[i].kind = "loaded",
             q[i].lists = LoadedIn(content), NoneFrom(q, i + 1)
      PROVE  ToldBy(r, shown, content)
  <2>1. i \in 1..Len(r) /\ r[i] = q[i] /\ i + 1 \in Nat \ {0}
    BY <1>1
  <2>2. NoneFrom(r, i + 1)
    BY <1>2, <1>4, <2>1
  <2> QED
    BY <1>4, <2>1, <2>2 DEF ToldBy
<1>5. ToldBy(r, shown, content)
  BY <1>3, <1>4 DEF ToldBy
<1> QED
  BY <1>5 DEF r

LEMMA LoadedQueued ==
  ASSUME NEW q \in Seq(Messages), NEW shown, NEW content,
         NEW m \in Messages, m.kind = "loaded", m.lists = LoadedIn(content)
  PROVE  ToldBy(Append(q, m), shown, content)
<1> DEFINE r == Append(q, m)
<1>1. Len(q) \in Nat /\ Len(r) = Len(q) + 1 /\ r[Len(q) + 1] = m
  BY AppendProperties
<1> HIDE DEF r
<1>2. Len(r) \in 1..Len(r) /\ r[Len(r)] = m /\ NoneFrom(r, Len(r) + 1)
  BY <1>1 DEF NoneFrom
<1>3. ToldBy(r, shown, content)
  BY <1>2 DEF ToldBy
<1> QED
  BY <1>3 DEF r

LEMMA HeadHandled ==
  ASSUME NEW q \in Seq(Messages), q # <<>>, NEW shown, NEW content,
         ToldBy(q, shown, content)
  PROVE  ToldBy(Tail(q),
                IF Head(q).kind = "loaded" THEN Head(q).lists ELSE shown, content)
<1> DEFINE r == Tail(q)
           now == IF Head(q).kind = "loaded" THEN Head(q).lists ELSE shown
<1>1. /\ Len(q) \in Nat /\ Len(q) > 0 /\ Len(r) = Len(q) - 1
      /\ \A i \in 1..Len(r) : r[i] = q[i + 1]
      /\ Head(q) = q[1]
  BY HeadTailProperties, EmptySeq, LenProperties
<1> HIDE DEF r
<1>2. ASSUME NEW k \in Nat \ {0}, NoneFrom(q, k + 1) PROVE NoneFrom(r, k)
  <2> SUFFICES ASSUME NEW i \in k..Len(r) PROVE r[i].kind # "loaded"
    BY DEF NoneFrom
  <2>1. i + 1 \in (k + 1)..Len(q) /\ r[i] = q[i + 1]
    BY <1>1
  <2> QED
    BY <1>2, <2>1 DEF NoneFrom
<1>3. ASSUME NoneFrom(q, 1), shown = LoadedIn(content)
      PROVE  ToldBy(r, now, content)
  <2>1. q[1].kind # "loaded" /\ NoneFrom(q, 2)
    BY <1>1, <1>3 DEF NoneFrom
  <2>2. now = shown /\ NoneFrom(r, 1)
    BY <1>1, <1>2, <2>1
  <2> QED
    BY <1>3, <2>2 DEF ToldBy
<1>4. ASSUME NEW i \in 1..Len(q), q[i].kind = "loaded",
             q[i].lists = LoadedIn(content), NoneFrom(q, i + 1)
      PROVE  ToldBy(r, now, content)
  <2>1. CASE i = 1
    BY <1>1, <1>2, <1>4, <2>1 DEF ToldBy
  <2>2. CASE i # 1
    <3>1. i - 1 \in 1..Len(r) /\ r[i - 1] = q[i] /\ (i - 1) + 1 = i
      BY <1>1, <2>2
    <3>2. NoneFrom(r, (i - 1) + 1)
      BY <1>2, <1>4, <3>1
    <3> QED
      BY <1>4, <3>1, <3>2 DEF ToldBy
  <2> QED
    BY <2>1, <2>2
<1>5. ToldBy(r, now, content)
  BY <1>3, <1>4 DEF ToldBy
<1> QED
  BY <1>5 DEF r

-----------------------------------------------------------------------------
LEMMA ExceptTyped ==
  ASSUME NEW D, NEW R, NEW f \in [D -> R], NEW x, NEW y \in R
  PROVE  [f EXCEPT ![x] = y] \in [D -> R]
  OBVIOUS

(* What is not about a thread, a download or a message.                     *)
LEMMA OthersIInv ==
  ASSUME IInv, UNCHANGED <<updates, updater, downloads, activePaths, main, loaded>>,
         bl' = bl \/ bl' = None
  PROVE  IInv'
  BY DEF IInv, Typed, Paths, OneDownloadPerFile, Told, ToldBy, LoadedIn, NoneFrom

(* The steps of an update thread that start no download.                    *)
LEMMA ThreadIInv ==
  ASSUME IInv, NEW s, NEW t \in {None} \cup Threads,
         updater' = [updater EXCEPT ![s] = t], updates' \in 0..MaxUpdates,
         UNCHANGED <<downloads, activePaths, main, loaded, bl>>
  PROVE  IInv'
<1> USE DEF IInv
<1>1. Typed'
  BY ExceptTyped DEF Typed
<1>2. (Paths /\ OneDownloadPerFile)'
  BY DEF Paths, OneDownloadPerFile
<1>3. Told'
  BY DEF Told, ToldBy, LoadedIn, NoneFrom
<1> QED
  BY <1>1, <1>2, <1>3

LEMMA StartIInv ==
  ASSUME IInv, NEW s, start_updater(s),
         UNCHANGED <<downloads, activePaths, main, loaded, bl>>
  PROVE  IInv'
<1>1. updates' \in 1..MaxUpdates
  BY BlacklistsAssumption DEF IInv, Typed, start_updater
<1>2. Thread("start", <<>>) \in Threads
  BY <1>1 DEF Thread, Threads, UpdateIds
<1>3. updates' \in 0..MaxUpdates
  BY <1>1
<1> QED
  BY <1>2, <1>3, ThreadIInv DEF start_updater

LEMMA UpdateIInv ==
  ASSUME IInv, NEW s \in 1..MaxCaptures, updateBlacklistsWork(s)
  PROVE  IInv'
<1>1. ASSUME updater[s] # None PROVE updater[s] \in Threads
  BY <1>1 DEF IInv, Typed
<1>2. updates \in 0..MaxUpdates /\ updater \in [1..MaxCaptures -> {None} \cup Threads]
  BY DEF IInv, Typed
<1>3. CASE update(s)
  <2>1. updater[s] \in Threads
    BY <1>1, <1>3 DEF update
  <2>2. UNCHANGED <<updates, downloads, activePaths, main, loaded, bl>>
    BY <1>3 DEF update, io_vars, native_vars
  <2>3. CASE update_skipped(s)
    <3> DEFINE t == [updater[s] EXCEPT !.pc = "reload"]
    <3>1. t \in Threads /\ updater' = [updater EXCEPT ![s] = t]
      BY <2>1, <2>3 DEF update_skipped, Threads
    <3> QED
      BY <3>1, <2>2, <1>2, ThreadIInv
  <2>4. CASE update_started(s)
    <3> DEFINE t == [updater[s] EXCEPT !.pc = "lists", !.todo = mLists]
    <3>1. t \in Threads /\ updater' = [updater EXCEPT ![s] = t]
      BY <2>1, <2>4, BlacklistsAssumption DEF update_started, Threads
    <3> QED
      BY <3>1, <2>2, <1>2, ThreadIInv
  <2> QED
    BY <1>3, <2>3, <2>4 DEF update
<1>4. CASE update_list(s)
  <2> DEFINE l == Head(updater[s].todo)
             t == [updater[s] EXCEPT !.todo = Tail(@)]
             u == updater[s].update
             new == [list |-> l, update |-> u, at |-> "fetch"]
  <2>1. updater[s] \in Threads /\ updater[s].todo # <<>>
    BY <1>1, <1>4 DEF update_list
  <2>2. l \in Lists /\ Tail(updater[s].todo) \in Seq(Lists)
    BY <2>1, HeadTailProperties DEF Threads
  <2>3. t \in Threads /\ updater' = [updater EXCEPT ![s] = t]
    BY <1>4, <2>1, <2>2 DEF update_list, Threads
  <2>4. UNCHANGED <<updates, main, loaded, bl>>
    BY <1>4 DEF update_list, native_vars
  <2>5. \/ UNCHANGED <<downloads, activePaths>>
        \/ /\ l \notin activePaths
           /\ activePaths' = activePaths \cup {l}
           /\ downloads' = downloads \cup {new}
    BY <1>4 DEF update_list, startDownload
  <2>6. CASE UNCHANGED <<downloads, activePaths>>
    BY <2>3, <2>4, <2>6, <1>2, ThreadIInv
  <2>7. CASE /\ l \notin activePaths
             /\ activePaths' = activePaths \cup {l}
             /\ downloads' = downloads \cup {new}
    <3> HIDE DEF t, l
    <3>1. new \in Tasks /\ new.list = l
      BY <2>1, <2>2 DEF Tasks, Threads
    <3>2. updater' \in [1..MaxCaptures -> {None} \cup Threads]
      BY <2>3, <1>2, ExceptTyped
    <3>3. Typed'
      BY <2>4, <2>7, <3>1, <3>2 DEF IInv, Typed
    <3> HIDE DEF new
    <3>4. (Paths /\ OneDownloadPerFile)'
      BY <2>7, <3>1 DEF IInv, Paths, OneDownloadPerFile
    <3>5. Told'
      BY <2>4 DEF IInv, Told, ToldBy, LoadedIn, NoneFrom
    <3> QED
      BY <3>3, <3>4, <3>5 DEF IInv
  <2> QED
    BY <2>5, <2>6, <2>7
<1>5. CASE update_lists_done(s)
  <2> DEFINE t == [updater[s] EXCEPT !.pc = "reload"]
  <2>1. t \in Threads /\ updater' = [updater EXCEPT ![s] = t]
    BY <1>1, <1>5 DEF update_lists_done, Threads
  <2>2. UNCHANGED <<updates, downloads, activePaths, main, loaded, bl>>
    BY <1>5 DEF update_lists_done, io_vars, native_vars
  <2> QED
    BY <2>1, <2>2, <1>2, ThreadIInv
<1>6. CASE reloadBlacklists(s)
  <2>1. /\ updater' = [updater EXCEPT ![s] = None]
        /\ UNCHANGED <<updates, downloads, activePaths, main, loaded, bl>>
    BY <1>6 DEF reloadBlacklists, io_vars, native_vars
  <2> QED
    BY <2>1, <1>2, ThreadIInv
<1> QED
  BY <1>3, <1>4, <1>5, <1>6 DEF updateBlacklistsWork

-----------------------------------------------------------------------------
(* The path of a download that ends was its own.                            *)
LEMMA EndIInv ==
  ASSUME IInv, NEW d \in downloads, end_download(d),
         UNCHANGED <<updates, updater, loaded, bl>>
  PROVE  IInv'
<1> USE DEF IInv
<1> DEFINE m == Message("callback", d.update, {})
<1>1. m \in Messages /\ m.kind # "loaded"
  BY DEF Typed, Tasks, Message, Messages, UpdateIds
<1>2. /\ main \in Seq(Messages) /\ main' = Append(main, m)
      /\ downloads' = downloads \ {d}
      /\ activePaths' = activePaths \ {d.list}
  BY DEF Typed, end_download
<1> HIDE DEF m
<1>3. main' \in Seq(Messages)
  BY <1>1, <1>2, AppendProperties
<1>4. Typed'
  BY <1>2, <1>3 DEF Typed
<1>5. (Paths /\ OneDownloadPerFile)'
  BY <1>2 DEF Paths, OneDownloadPerFile
<1>6. Told'
  BY <1>1, <1>2, CallbackQueued DEF Told, ToldBy, LoadedIn, NoneFrom
<1> QED
  BY <1>4, <1>5, <1>6

LEMMA DownloadIInv ==
  ASSUME IInv, NEW d \in downloads, manualDownload(d)
  PROVE  IInv'
<1>1. UNCHANGED <<updates, updater, loaded, bl>>
  BY DEF manualDownload, java_vars, native_vars
<1>2. CASE end_download(d)
  BY <1>1, <1>2, EndIInv
<1>3. CASE /\ downloads' = (downloads \ {d}) \cup {[d EXCEPT !.at = "rename"]}
           /\ UNCHANGED <<activePaths, main>>
  <2> DEFINE e == [d EXCEPT !.at = "rename"]
  <2>1. e \in Tasks /\ e.list = d.list
    BY DEF IInv, Typed, Tasks
  <2>2. downloads' = (downloads \ {d}) \cup {e}
    BY <1>3
  <2> HIDE DEF e
  <2>3. Typed'
    BY <1>1, <1>3, <2>1, <2>2 DEF IInv, Typed
  <2>4. (Paths /\ OneDownloadPerFile)'
    BY <1>3, <2>1, <2>2 DEF IInv, Paths, OneDownloadPerFile
  <2>5. Told'
    BY <1>1, <1>3 DEF IInv, Told, ToldBy, LoadedIn, NoneFrom
  <2> QED
    BY <2>3, <2>4, <2>5 DEF IInv
<1> QED
  BY <1>2, <1>3 DEF manualDownload

-----------------------------------------------------------------------------
(* The main thread handles the head of its queue.                           *)
LEMMA MainIInv == ASSUME IInv, main_looper PROVE IInv'
<1>1. /\ main \in Seq(Messages) /\ main # <<>>
      /\ ToldBy(main, loaded, bl)
      /\ Handle(Head(main))
  BY DEF IInv, Typed, Told, main_looper
<1>2. /\ Head(main) \in Messages /\ Tail(main) \in Seq(Messages)
  BY <1>1, HeadTailProperties
<1>3. UNCHANGED <<updates, updater, downloads, activePaths, bl>>
  BY DEF main_looper, io_vars, native_vars
<1> DEFINE m == Head(main)
           shown == IF m.kind = "loaded" THEN m.lists ELSE loaded
<1>4. ToldBy(Tail(main), shown, bl)
  BY <1>1, HeadHandled
<1>5. main' \in Seq(Messages) /\ ToldBy(main', loaded', bl)
  <2>1. CASE checkIfFinished(m) /\ main' = Tail(main)
    BY <1>2, <1>4, <2>1 DEF checkIfFinished
  <2>2. CASE /\ checkIfFinished(m)
             /\ main' = Append(Tail(main), Message("finalize", m.update, {}))
    <3> DEFINE f == Message("finalize", m.update, {})
    <3>1. f \in Messages /\ f.kind # "loaded"
      BY <1>2 DEF Message, Messages
    <3>2. ToldBy(Tail(main), loaded, bl) /\ loaded' = loaded
      BY <1>4, <2>2 DEF checkIfFinished
    <3> HIDE DEF f
    <3>3. main' = Append(Tail(main), f)
      BY <2>2 DEF f
    <3> QED
      BY <1>2, <3>1, <3>2, <3>3, CallbackQueued, AppendProperties
  <2>3. CASE finalizeUpdate(m)
    BY <1>2, <1>4, <2>3 DEF finalizeUpdate
  <2>4. CASE onNativeLoaded(m)
    BY <1>2, <1>4, <2>4 DEF onNativeLoaded
  <2> QED
    BY <1>1, <2>1, <2>2, <2>3, <2>4 DEF Handle, checkIfFinished
<1>6. Typed'
  BY <1>3, <1>5 DEF IInv, Typed
<1>7. (Paths /\ OneDownloadPerFile)'
  BY <1>3 DEF IInv, Paths, OneDownloadPerFile
<1>8. Told'
  BY <1>3, <1>5 DEF Told, ToldBy, LoadedIn, NoneFrom
<1> QED
  BY <1>6, <1>7, <1>8 DEF IInv

(* The packet loop takes the new lists and tells.                           *)
LEMMA UseIInv ==
  ASSUME IInv, use_new_blacklists,
         UNCHANGED <<updates, updater, downloads, activePaths, loaded>>
  PROVE  IInv'
<1> DEFINE m == Message("loaded", 0, LoadedIn(new_bl))
<1>1. main \in Seq(Messages) /\ main' = Append(main, m) /\ bl' = new_bl
  BY DEF IInv, Typed, use_new_blacklists, LoadedIn
<1>2. /\ m \in Messages /\ m.kind = "loaded"
      /\ m.lists = LoadedIn(new_bl)
  BY BlacklistsAssumption DEF Message, Messages, LoadedIn
<1> HIDE DEF m
<1>3. main' \in Seq(Messages) /\ ToldBy(Append(main, m), loaded, new_bl)
  BY <1>1, <1>2, LoadedQueued, AppendProperties
<1>4. Typed'
  BY <1>3 DEF IInv, Typed
<1>5. (Paths /\ OneDownloadPerFile)'
  BY DEF IInv, Paths, OneDownloadPerFile
<1>6. Told'
  BY <1>1, <1>3 DEF Told, ToldBy, LoadedIn, NoneFrom
<1> QED
  BY <1>4, <1>5, <1>6 DEF IInv

LEMMA NextIInv == IInv /\ [Next]_vars => IInv'
<1> SUFFICES ASSUME IInv, [Next]_vars PROVE IInv'
  OBVIOUS
<1>1. CASE onStartCommand
  <2>1. UNCHANGED <<downloads, activePaths, main, loaded, bl>>
    BY <1>1 DEF onStartCommand, io_vars
  <2>2. CASE start_updater(service')
    BY <2>1, <2>2, StartIInv
  <2>3. CASE UNCHANGED <<updater, updates>>
    BY <2>1, <2>3, OthersIInv
  <2> QED
    BY <1>1, <2>2, <2>3 DEF onStartCommand
<1>2. CASE checkBlacklistsUpdates
  BY <1>2, StartIInv DEF checkBlacklistsUpdates, io_vars, native_vars
<1>3. CASE requestBlacklistsUpdate
  BY <1>3, OthersIInv DEF requestBlacklistsUpdate, io_vars, native_vars
<1>4. CASE DayPasses
  BY <1>4, OthersIInv DEF DayPasses, io_vars, native_vars
<1>5. CASE Updaters
  BY <1>5, UpdateIInv DEF Updaters
<1>6. CASE Downloading
  BY <1>6, DownloadIInv DEF Downloading
<1>7. CASE main_looper
  BY <1>7, MainIInv
<1>8. CASE load_new_blacklists
  BY <1>8, OthersIInv DEF load_new_blacklists, java_vars, io_vars
<1>9. CASE pd_run
  <2>1. UNCHANGED <<updates, updater, downloads, activePaths, loaded>>
    BY <1>9 DEF pd_run, java_vars, io_vars
  <2>2. CASE UNCHANGED <<main, bl>>
    BY <2>1, <2>2, OthersIInv
  <2>3. CASE use_new_blacklists
    BY <2>1, <2>3, UseIInv
  <2> QED
    BY <1>9, <2>2, <2>3 DEF pd_run
<1>10. CASE pd_housekeeping
  <2>1. UNCHANGED <<updates, updater, downloads, activePaths, loaded>>
    BY <1>10 DEF pd_housekeeping, java_vars, io_vars
  <2>2. CASE housekeeping_use
    BY <2>1, <2>2, UseIInv DEF housekeeping_use
  <2>3. CASE housekeeping_reload
    BY <2>1, <2>3, OthersIInv DEF housekeeping_reload
  <2> QED
    BY <1>10, <2>2, <2>3 DEF pd_housekeeping
<1>11. CASE pd_run_end
  BY <1>11, OthersIInv DEF pd_run_end, java_vars, io_vars
<1>12. CASE onDestroy
  BY <1>12, OthersIInv DEF onDestroy, io_vars
<1>13. CASE UNCHANGED vars
  BY <1>13, OthersIInv DEF vars, java_vars, io_vars, native_vars
<1> QED
  BY <1>1, <1>2, <1>3, <1>4, <1>5, <1>6, <1>7, <1>8, <1>9, <1>10, <1>11, <1>12,
     <1>13
     DEF Next, Native

(* No list file is ever written by two downloads at a time, whatever        *)
(* updates overlap.                                                         *)
THEOREM OneDownloadSafe == Spec => []OneDownloadPerFile
<1>1. Spec => []IInv
  BY InitIInv, NextIInv, PTL DEF Spec
<1>2. IInv => OneDownloadPerFile
  BY DEF IInv
<1> QED
  BY <1>1, <1>2, PTL

(* What Java shows as loaded is what the packet loop matches against, once  *)
(* it was told, over reloads, captures and files that come and go.          *)
THEOREM LoadedShownSafe == Spec => []LoadedShown
<1>1. Spec => []IInv
  BY InitIInv, NextIInv, PTL DEF Spec
<1> QED
  BY <1>1, IInvLoadedShown, PTL
-----------------------------------------------------------------------------
(* The types.  What takes an invariant is the range of pendingTasks: each   *)
(* callback that is due was counted when its download started, and an       *)
(* update counts each list once at most.                                    *)
Callbacks(u, q) == {i \in 1..Len(q) : q[i].kind = "callback" /\ q[i].update = u}
Fetching(u) == {d \in downloads : d.update = u}

One(u, m) == IF m.kind = "callback" /\ m.update = u THEN 1 ELSE 0

Tally(t, n, p) ==
  /\ t.update <= n
  /\ t.pc = "start" => p[t.update] = 0
  /\ t.pc = "lists" => p[t.update] + Len(t.todo) <= Len(mLists)

Tallied(w, n, p) ==
  /\ \A s \in 1..MaxCaptures : w[s] # None => Tally(w[s], n, p)
  /\ \A s, r \in 1..MaxCaptures :
       w[s] # None /\ w[r] # None /\ w[s].update = w[r].update => s = r

Counted ==
  /\ IsFiniteSet(downloads)
  /\ pending \in [UpdateIds -> 0..Len(mLists)]
  /\ \A u \in UpdateIds :
       Cardinality(Fetching(u)) + Cardinality(Callbacks(u, main)) <= pending[u]
  /\ \A u \in UpdateIds : u > updates => pending[u] = 0
  /\ Tallied(updater, updates, pending)

LEMMA ListsCount ==
  /\ IsFiniteSet(Lists) /\ Cardinality(Lists) \in Nat
  /\ Len(mLists) \in Nat /\ Len(mLists) <= Cardinality(Lists)
<1>1. mLists \in Seq(Lists) /\ Len(mLists) \in Nat /\ DOMAIN mLists = 1..Len(mLists)
  BY BlacklistsAssumption
<1>2. IsFiniteSet(1..Len(mLists)) /\ Cardinality(1..Len(mLists)) = Len(mLists)
  <2>1. 1 \in Int /\ Len(mLists) \in Int
    BY <1>1
  <2>2. /\ IsFiniteSet(1..Len(mLists))
        /\ Cardinality(1..Len(mLists)) = IF 1 > Len(mLists) THEN 0 ELSE Len(mLists) - 1 + 1
    BY <2>1, FS_Interval, Zenon
  <2> QED BY <1>1, <2>2
<1>3. mLists \in Surjection(1..Len(mLists), Lists)
  BY <1>1 DEF Surjection, Lists, Range
<1>4. mLists \in Injection(1..Len(mLists), Lists)
  BY <1>1, BlacklistsAssumption DEF Injection, IsInjective
<1>5. IsFiniteSet(Lists)
  BY <1>2, <1>3, FS_Surjection
<1>6. Cardinality(1..Len(mLists)) <= Cardinality(Lists)
  BY <1>4, <1>5, FS_Injection
<1> QED
  BY <1>1, <1>2, <1>5, <1>6, FS_CardinalityType

LEMMA CallbacksFinite ==
  ASSUME NEW q \in Seq(Messages), NEW u
  PROVE  IsFiniteSet(Callbacks(u, q)) /\ Cardinality(Callbacks(u, q)) \in Nat
<1>1. Callbacks(u, q) \subseteq 1..Len(q) /\ Len(q) \in Nat
  BY DEF Callbacks
<1>2. IsFiniteSet(1..Len(q))
  BY <1>1, FS_Interval
<1> QED
  BY <1>1, <1>2, FS_Subset, FS_CardinalityType

LEMMA CallbackAppended ==
  ASSUME NEW q \in Seq(Messages), NEW u, NEW m
  PROVE  Cardinality(Callbacks(u, Append(q, m))) = Cardinality(Callbacks(u, q)) + One(u, m)
<1> DEFINE r == Append(q, m)
           n == Len(q)
<1>1. /\ n \in Nat /\ Len(r) = n + 1 /\ r[n + 1] = m
      /\ \A i \in 1..n : r[i] = q[i]
  BY AppendProperties
<1> HIDE DEF r, n
<1>2. Callbacks(u, r) = Callbacks(u, q) \cup {i \in {n + 1} : One(u, m) = 1}
  <2>1. \A i : i \in 1..Len(r) <=> i \in 1..n \/ i = n + 1
    BY <1>1
  <2> QED BY <1>1, <2>1 DEF Callbacks, One, n
<1>3. n + 1 \notin Callbacks(u, q)
  BY <1>1 DEF Callbacks, n
<1>4. IsFiniteSet(Callbacks(u, q)) /\ Cardinality(Callbacks(u, q)) \in Nat
  BY CallbacksFinite
<1>5. CASE One(u, m) = 1
  <2>1. Callbacks(u, r) = Callbacks(u, q) \cup {n + 1}
    BY <1>2, <1>5
  <2> QED BY <1>3, <1>4, <1>5, <2>1, FS_AddElement DEF r
<1>6. CASE One(u, m) # 1
  <2>1. Callbacks(u, r) = Callbacks(u, q) /\ One(u, m) = 0
    BY <1>2, <1>6 DEF One
  <2> QED BY <1>4, <2>1 DEF r
<1> QED
  BY <1>5, <1>6

LEMMA CallbackTaken ==
  ASSUME NEW q \in Seq(Messages), q # <<>>, NEW u
  PROVE  Cardinality(Callbacks(u, Tail(q))) + One(u, Head(q)) <= Cardinality(Callbacks(u, q))
<1> DEFINE r == Tail(q)
           S == Callbacks(u, q) \ {1}
           shift == [i \in Callbacks(u, r) |-> i + 1]
<1>1. /\ Len(q) \in Nat /\ Len(q) > 0 /\ Len(r) = Len(q) - 1
      /\ \A i \in 1..Len(r) : r[i] = q[i + 1]
      /\ Head(q) = q[1]
  BY HeadTailProperties, EmptySeq, LenProperties
<1> HIDE DEF r
<1>2. shift \in Injection(Callbacks(u, r), S)
  <2>1. ASSUME NEW i \in Callbacks(u, r) PROVE i + 1 \in S /\ i \in Nat
    <3>1. i \in 1..Len(r) /\ r[i].kind = "callback" /\ r[i].update = u
      BY DEF Callbacks
    <3>2. i + 1 \in 1..Len(q) /\ i + 1 # 1 /\ q[i + 1] = r[i] /\ i \in Nat
      BY <1>1, <3>1
    <3> QED BY <3>1, <3>2 DEF Callbacks
  <2>2. \A i, j \in Callbacks(u, r) : i + 1 = j + 1 => i = j
    BY <2>1
  <2> QED BY <2>1, <2>2 DEF Injection, IsInjective
<1>3. IsFiniteSet(Callbacks(u, q)) /\ Cardinality(Callbacks(u, q)) \in Nat
  BY CallbacksFinite
<1>4. /\ IsFiniteSet(S)
      /\ Cardinality(S) = IF 1 \in Callbacks(u, q) THEN Cardinality(Callbacks(u, q)) - 1
                          ELSE Cardinality(Callbacks(u, q))
  BY <1>3, FS_RemoveElement
<1>5. 1 \in Callbacks(u, q) <=> One(u, Head(q)) = 1
  BY <1>1 DEF Callbacks, One
<1>6. One(u, Head(q)) \in {0, 1}
  BY DEF One
<1>7. Cardinality(S) + One(u, Head(q)) = Cardinality(Callbacks(u, q))
  <2> HIDE DEF S
  <2> QED BY <1>3, <1>4, <1>5, <1>6
<1>8. IsFiniteSet(Callbacks(u, r)) /\ Cardinality(Callbacks(u, r)) <= Cardinality(S)
  BY <1>2, <1>4, FS_Injection
<1>9. Cardinality(Callbacks(u, r)) \in Nat /\ Cardinality(S) \in Nat
  BY <1>4, <1>8, FS_CardinalityType
<1> QED
  BY <1>3, <1>6, <1>7, <1>8, <1>9 DEF r
LEMMA CountedTypes ==
  ASSUME Typed, Counted
  PROVE  /\ updates \in 0..MaxUpdates /\ MaxUpdates \in Nat
         /\ updater \in [1..MaxCaptures -> {None} \cup Threads]
         /\ main \in Seq(Messages)
         /\ \A u \in UpdateIds :
              /\ pending[u] \in 0..Len(mLists)
              /\ IsFiniteSet(Fetching(u)) /\ Cardinality(Fetching(u)) \in Nat
              /\ Cardinality(Callbacks(u, main)) \in Nat
              /\ Cardinality(Fetching(u)) + Cardinality(Callbacks(u, main)) <= pending[u]
<1>1. ASSUME NEW u \in UpdateIds
      PROVE  /\ IsFiniteSet(Fetching(u)) /\ Cardinality(Fetching(u)) \in Nat
             /\ Cardinality(Callbacks(u, main)) \in Nat
  <2>1. Fetching(u) \subseteq downloads
    BY DEF Fetching
  <2> QED
    BY <2>1, FS_Subset, FS_CardinalityType, CallbacksFinite DEF Counted, Typed
<1> QED
  BY <1>1, BlacklistsAssumption DEF Typed, Counted

(* Steps that no count is about.                                            *)
LEMMA OthersCounted ==
  ASSUME Counted, UNCHANGED <<updates, updater, pending, downloads, main>>
  PROVE  Counted'
  BY DEF Counted, Fetching, Callbacks, Tallied, Tally

(* A message that is not a callback.                                        *)
LEMMA MessageCounted ==
  ASSUME Typed, Counted, NEW m, m.kind # "callback", main' = Append(main, m),
         UNCHANGED <<updates, updater, pending, downloads>>
  PROVE  Counted'
<1>1. ASSUME NEW u \in UpdateIds
      PROVE  (Cardinality(Fetching(u)) + Cardinality(Callbacks(u, main)) <= pending[u])'
  <2>1. One(u, m) = 0
    BY DEF One
  <2>2. Cardinality(Callbacks(u, Append(main, m))) = Cardinality(Callbacks(u, main)) + 0
    BY <2>1, CountedTypes, CallbackAppended
  <2>3. /\ Cardinality(Callbacks(u, main)) \in Nat
        /\ Cardinality(Fetching(u)) + Cardinality(Callbacks(u, main)) <= pending[u]
    BY CountedTypes
  <2>4. Callbacks(u, main)' = Callbacks(u, Append(main, m)) /\ Fetching(u)' = Fetching(u)
    BY DEF Callbacks, Fetching
  <2> QED BY <2>2, <2>3, <2>4
<1> QED
  BY <1>1 DEF Counted, Tallied, Tally

(* What a thread that another one changes keeps.                            *)
LEMMA StartTallied ==
  ASSUME NEW w \in [1..MaxCaptures -> {None} \cup Threads],
         NEW n \in Nat, NEW p \in [UpdateIds -> Nat],
         Tallied(w, n, p), NEW s, NEW t,
         t.pc = "start", t.update = n + 1, p[n + 1] = 0
  PROVE  Tallied([w EXCEPT ![s] = t], n + 1, p)
<1> DEFINE v == [w EXCEPT ![s] = t]
<1>1. ASSUME NEW r \in 1..MaxCaptures
      PROVE  IF r = s THEN v[r] = t ELSE v[r] = w[r]
  OBVIOUS
<1> HIDE DEF v
<1>2. ASSUME NEW r \in 1..MaxCaptures, w[r] # None
      PROVE  w[r].update \in Int /\ w[r].update <= n /\ Tally(w[r], n, p)
  <2>1. w[r] \in Threads
    BY <1>2
  <2> QED BY <1>2, <2>1 DEF Tallied, Tally, Threads, UpdateIds
<1>3. Tally(t, n + 1, p)
  BY DEF Tally
<1>4. \A r \in 1..MaxCaptures : v[r] # None => Tally(v[r], n + 1, p)
  <2> SUFFICES ASSUME NEW r \in 1..MaxCaptures, v[r] # None
               PROVE  Tally(v[r], n + 1, p)
    OBVIOUS
  <2>1. CASE r = s
    BY <1>1, <1>3, <2>1
  <2>2. CASE r # s
    <3>1. v[r] = w[r]
      BY <1>1, <2>2
    <3> QED BY <1>2, <3>1 DEF Tally
  <2> QED BY <2>1, <2>2
<1>5. ASSUME NEW r \in 1..MaxCaptures, NEW q \in 1..MaxCaptures,
             v[r] # None, v[q] # None, v[r].update = v[q].update
      PROVE  r = q
  <2>1. CASE r = s /\ q # s
    <3>1. v[r].update = n + 1 /\ v[q].update \in Int /\ v[q].update <= n
      BY <1>1, <1>2, <1>5, <2>1
    <3> QED BY <1>5, <3>1
  <2>2. CASE q = s /\ r # s
    <3>1. v[q].update = n + 1 /\ v[r].update \in Int /\ v[r].update <= n
      BY <1>1, <1>2, <1>5, <2>2
    <3> QED BY <1>5, <3>1
  <2>3. CASE r # s /\ q # s
    <3>1. v[r] = w[r] /\ v[q] = w[q]
      BY <1>1, <2>3
    <3> QED BY <1>5, <3>1 DEF Tallied
  <2> QED BY <2>1, <2>2, <2>3
<1> QED
  BY <1>4, <1>5 DEF Tallied, v

(* A new thread, with the next number.                                      *)
LEMMA StartCounted ==
  ASSUME Typed, Counted, NEW s, start_updater(s), UNCHANGED <<pending, downloads, main>>
  PROVE  Counted'
<1> DEFINE t == Thread("start", <<>>)
<1>1. /\ updates \in Nat /\ updates' = updates + 1 /\ updates' \in UpdateIds
      /\ updater' = [updater EXCEPT ![s] = t]
      /\ updater \in [1..MaxCaptures -> {None} \cup Threads]
      /\ t.pc = "start" /\ t.update = updates + 1
  BY CountedTypes DEF start_updater, UpdateIds, Thread
<1> HIDE DEF t
<1>2. pending[updates + 1] = 0
  BY <1>1 DEF Counted
<1>3. pending \in [UpdateIds -> Nat]
  BY ListsCount DEF Counted
<1>4. Tallied(updater, updates, pending)
  BY DEF Counted
<1>5. Tallied(updater', updates', pending)
  BY <1>1, <1>2, <1>3, <1>4, StartTallied
<1>6. \A u \in UpdateIds : u > updates' => pending[u] = 0
  <2>1. \A u \in UpdateIds : u \in Int
    BY DEF UpdateIds
  <2> QED BY <1>1, <2>1 DEF Counted
<1>7. \A u \in UpdateIds : UNCHANGED <<Fetching(u), Callbacks(u, main)>>
  BY DEF Fetching, Callbacks
<1> QED
  BY <1>5, <1>6, <1>7 DEF Counted

LEMMA ThreadTallied ==
  ASSUME NEW w \in [1..MaxCaptures -> {None} \cup Threads], NEW n, NEW p,
         Tallied(w, n, p), NEW s \in 1..MaxCaptures, w[s] # None,
         NEW t, t # None => t.update = w[s].update /\ Tally(t, n, p)
  PROVE  Tallied([w EXCEPT ![s] = t], n, p)
<1> DEFINE v == [w EXCEPT ![s] = t]
<1>1. ASSUME NEW r \in 1..MaxCaptures, v[r] # None
      PROVE  Tally(v[r], n, p) /\ w[r] # None /\ v[r].update = w[r].update
  <2>1. CASE r = s
    BY <1>1, <2>1
  <2>2. CASE r # s
    BY <1>1, <2>2 DEF Tallied
  <2> QED BY <2>1, <2>2
<1> HIDE DEF v
<1>2. ASSUME NEW r \in 1..MaxCaptures, NEW q \in 1..MaxCaptures,
             v[r] # None, v[q] # None, v[r].update = v[q].update
      PROVE  r = q
  BY <1>1, <1>2 DEF Tallied
<1> QED
  BY <1>1, <1>2 DEF Tallied, v

(* A thread that goes on, or ends.                                          *)
LEMMA ThreadCounted ==
  ASSUME Typed, Counted, NEW s \in 1..MaxCaptures, updater[s] # None,
         NEW t, updater' = [updater EXCEPT ![s] = t],
         t # None => t.update = updater[s].update /\ Tally(t, updates, pending),
         UNCHANGED <<updates, pending, downloads, main>>
  PROVE  Counted'
<1>1. /\ updater \in [1..MaxCaptures -> {None} \cup Threads]
      /\ Tallied(updater, updates, pending)
  BY CountedTypes DEF Counted
<1>2. Tallied(updater', updates, pending)
  BY <1>1, ThreadTallied
<1>3. \A u \in UpdateIds : UNCHANGED <<Fetching(u), Callbacks(u, main)>>
  BY DEF Fetching, Callbacks
<1> QED
  BY <1>2, <1>3 DEF Counted

(* A list of the update, that counts when it is downloaded.                 *)
LEMMA ListTallied ==
  ASSUME NEW w \in [1..MaxCaptures -> {None} \cup Threads], NEW n,
         NEW p, NEW q, Tallied(w, n, p),
         NEW s \in 1..MaxCaptures, w[s] # None,
         \A u \in UpdateIds : u # w[s].update => q[u] = p[u],
         NEW t, t.update = w[s].update, Tally(t, n, q)
  PROVE  Tallied([w EXCEPT ![s] = t], n, q)
<1> DEFINE v == [w EXCEPT ![s] = t]
<1>1. ASSUME NEW r \in 1..MaxCaptures, v[r] # None
      PROVE  Tally(v[r], n, q) /\ w[r] # None /\ v[r].update = w[r].update
  <2>1. CASE r = s
    BY <1>1, <2>1
  <2>2. CASE r # s
    <3>1. v[r] = w[r] /\ Tally(w[r], n, p) /\ w[r].update # w[s].update
      BY <1>1, <2>2 DEF Tallied
    <3>2. w[r] \in Threads
      BY <1>1, <3>1
    <3>3. q[w[r].update] = p[w[r].update]
      BY <3>1, <3>2 DEF Threads
    <3> QED BY <1>1, <3>1, <3>3 DEF Tally
  <2> QED BY <2>1, <2>2
<1> HIDE DEF v
<1>2. ASSUME NEW r \in 1..MaxCaptures, NEW x \in 1..MaxCaptures,
             v[r] # None, v[x] # None, v[r].update = v[x].update
      PROVE  r = x
  BY <1>1, <1>2 DEF Tallied
<1> QED
  BY <1>1, <1>2 DEF Tallied, v

LEMMA ListCounted ==
  ASSUME Typed, Counted, NEW s \in 1..MaxCaptures, update_list(s)
  PROVE  Counted'
<1> DEFINE t == [updater[s] EXCEPT !.todo = Tail(@)]
           v == updater[s].update
           l == Head(updater[s].todo)
           new == [list |-> l, update |-> v, at |-> "fetch"]
<1>1. /\ updater[s] # None /\ updater[s] \in Threads /\ updater[s].pc = "lists"
      /\ updater[s].todo \in Seq(Lists) /\ updater[s].todo # <<>>
      /\ updater' = [updater EXCEPT ![s] = t] /\ v \in UpdateIds
      /\ t.update = v /\ t.pc = "lists" /\ t.todo = Tail(updater[s].todo)
      /\ UNCHANGED <<updates, main>>
  BY CountedTypes DEF update_list, Threads
<1>2. Len(updater[s].todo) \in Nat /\ Len(t.todo) = Len(updater[s].todo) - 1
  BY <1>1, HeadTailProperties, EmptySeq, LenProperties
<1>3. /\ v <= updates /\ pending[v] + Len(updater[s].todo) <= Len(mLists)
      /\ pending[v] \in Nat /\ Len(mLists) \in Nat
  <2>1. Tally(updater[s], updates, pending)
    BY <1>1 DEF Counted, Tallied
  <2> QED BY <1>1, <2>1, CountedTypes, ListsCount DEF Tally
<1> HIDE DEF t, v, l, new
<1>4. CASE UNCHANGED <<pending, downloads>>
  <2>1. Tally(t, updates, pending)
    BY <1>1, <1>2, <1>3 DEF Tally
  <2>2. t.update = updater[s].update
    BY <1>1 DEF v
  <2> QED BY <1>1, <1>4, <2>1, <2>2, ThreadCounted
<1>5. CASE /\ pending' = [pending EXCEPT ![v] = @ + 1]
           /\ downloads' = downloads \/ downloads' = downloads \cup {new}
  <2>1. /\ pending \in [UpdateIds -> 0..Len(mLists)] /\ pending'[v] = pending[v] + 1
        /\ \A u \in UpdateIds : u # v => pending'[u] = pending[u]
    BY <1>1, <1>5 DEF Counted
  <2>2. pending'[v] + Len(t.todo) <= Len(mLists) /\ pending'[v] \in 0..Len(mLists)
    <3>1. Len(t.todo) \in Nat
      BY <1>1, HeadTailProperties
    <3> QED BY SMTT(30), <1>2, <1>3, <2>1, <3>1
  <2>3. pending' \in [UpdateIds -> 0..Len(mLists)]
    BY <1>5, <2>1, <2>2
  <2>4. IsFiniteSet(downloads')
    BY <1>5, FS_AddElement DEF Counted
  <2>5. ASSUME NEW u \in UpdateIds
        PROVE  (Cardinality(Fetching(u)) + Cardinality(Callbacks(u, main)) <= pending[u])'
    <3>1. /\ IsFiniteSet(Fetching(u)) /\ Cardinality(Fetching(u)) \in Nat
          /\ Cardinality(Callbacks(u, main)) \in Nat /\ pending[u] \in Nat
          /\ Cardinality(Fetching(u)) + Cardinality(Callbacks(u, main)) <= pending[u]
      BY CountedTypes, ListsCount
    <3>2. Callbacks(u, main)' = Callbacks(u, main)
      BY <1>1 DEF Callbacks
    <3>3. new.update = v
      BY DEF new
    <3>4. CASE u # v
      <4>1. Fetching(u)' = Fetching(u)
        BY <1>5, <3>3, <3>4 DEF Fetching
      <4> QED BY <2>1, <3>1, <3>2, <3>4, <4>1
    <3>5. CASE u = v
      <4>1. Fetching(u)' = Fetching(u) \/ Fetching(u)' = Fetching(u) \cup {new}
        BY <1>5, <3>3, <3>5 DEF Fetching
      <4>2. Cardinality(Fetching(u)') \in Nat
            /\ Cardinality(Fetching(u)') <= Cardinality(Fetching(u)) + 1
        <5>1. Cardinality(Fetching(u) \cup {new})
                = IF new \in Fetching(u) THEN Cardinality(Fetching(u))
                  ELSE Cardinality(Fetching(u)) + 1
          BY <3>1, FS_AddElement
        <5> QED BY <3>1, <4>1, <5>1
      <4> QED BY <2>1, <3>1, <3>2, <3>5, <4>2
    <3> QED BY <3>4, <3>5
  <2>6. \A u \in UpdateIds : u > updates' => pending'[u] = 0
    <3>1. ~(v > updates)
      BY <1>1, <1>3, CountedTypes DEF UpdateIds
    <3> QED BY <1>1, <2>1, <3>1 DEF Counted
  <2>7. Tallied(updater', updates', pending')
    <3>1. Tally(t, updates, pending')
      BY <1>1, <1>3, <2>2 DEF Tally
    <3>2. updater \in [1..MaxCaptures -> {None} \cup Threads] /\ Tallied(updater, updates, pending)
      BY CountedTypes DEF Counted
    <3>3. \A u \in UpdateIds : u # updater[s].update => pending'[u] = pending[u]
      BY <2>1 DEF v
    <3>4. t.update = updater[s].update
      BY <1>1 DEF v
    <3> QED BY <1>1, <3>1, <3>2, <3>3, <3>4, ListTallied
  <2> QED BY <2>3, <2>4, <2>5, <2>6, <2>7 DEF Counted
<1> QED
  BY <1>4, <1>5 DEF update_list, startDownload, l, v, new
LEMMA UpdateCounted ==
  ASSUME Typed, Counted, NEW s \in 1..MaxCaptures, updateBlacklistsWork(s)
  PROVE  Counted'
<1>1. updater \in [1..MaxCaptures -> {None} \cup Threads]
  BY CountedTypes
<1>2. CASE update(s)
  <2>1. /\ updater[s] # None /\ updater[s].pc = "start" /\ updater[s] \in Threads
        /\ UNCHANGED <<updates, pending, downloads, main>>
    BY <1>1, <1>2 DEF update, io_vars
  <2>2. Tally(updater[s], updates, pending)
    BY <2>1 DEF Counted, Tallied
  <2>3. CASE update_skipped(s)
    <3> DEFINE t == [updater[s] EXCEPT !.pc = "reload"]
    <3>1. /\ t.update = updater[s].update /\ t.pc = "reload"
          /\ updater' = [updater EXCEPT ![s] = t]
      BY <2>1, <2>3 DEF update_skipped, Threads
    <3> HIDE DEF t
    <3>2. Tally(t, updates, pending)
      BY <2>2, <3>1 DEF Tally
    <3> QED BY <2>1, <3>1, <3>2, ThreadCounted
  <2>4. CASE update_started(s)
    <3> DEFINE t == [updater[s] EXCEPT !.pc = "lists", !.todo = mLists]
    <3>1. /\ t.update = updater[s].update /\ t.pc = "lists" /\ t.todo = mLists
          /\ updater' = [updater EXCEPT ![s] = t]
      BY <2>1, <2>4 DEF update_started, Threads
    <3> HIDE DEF t
    <3>2. Tally(t, updates, pending)
      BY <2>1, <2>2, <3>1, ListsCount DEF Tally
    <3> QED BY <2>1, <3>1, <3>2, ThreadCounted
  <2> QED BY <1>2, <2>3, <2>4 DEF update
<1>3. CASE update_list(s)
  BY <1>3, ListCounted
<1>4. CASE update_lists_done(s)
  <2> DEFINE t == [updater[s] EXCEPT !.pc = "reload"]
  <2>1. /\ updater[s] # None /\ updater[s] \in Threads
        /\ UNCHANGED <<updates, pending, downloads, main>>
        /\ t.update = updater[s].update /\ t.pc = "reload"
        /\ updater' = [updater EXCEPT ![s] = t]
    BY <1>1, <1>4 DEF update_lists_done, io_vars, Threads
  <2> HIDE DEF t
  <2>2. Tally(updater[s], updates, pending)
    BY <2>1 DEF Counted, Tallied
  <2>3. Tally(t, updates, pending)
    BY <2>1, <2>2 DEF Tally
  <2> QED BY <2>1, <2>3, ThreadCounted
<1>5. CASE reloadBlacklists(s)
  <2>1. /\ updater[s] # None /\ updater' = [updater EXCEPT ![s] = None]
        /\ UNCHANGED <<updates, pending, downloads, main>>
    BY <1>5 DEF reloadBlacklists, io_vars
  <2> QED BY <2>1, ThreadCounted
<1> QED
  BY <1>2, <1>3, <1>4, <1>5 DEF updateBlacklistsWork

-----------------------------------------------------------------------------
(* What a download leaves, its callback takes over.                         *)
LEMMA EndCounted ==
  ASSUME Typed, Counted, NEW d \in downloads, end_download(d),
         UNCHANGED <<updates, updater, pending>>
  PROVE  Counted'
<1> DEFINE m == Message("callback", d.update, {})
<1>1. /\ m.kind = "callback" /\ m.update = d.update
      /\ main \in Seq(Messages) /\ main' = Append(main, m)
      /\ downloads' = downloads \ {d}
  BY DEF Typed, end_download, Message
<1> HIDE DEF m
<1>2. ASSUME NEW u \in UpdateIds
      PROVE  (Cardinality(Fetching(u)) + Cardinality(Callbacks(u, main)) <= pending[u])'
  <2>1. /\ IsFiniteSet(Fetching(u)) /\ Cardinality(Fetching(u)) \in Nat
        /\ Cardinality(Callbacks(u, main)) \in Nat /\ pending[u] \in Nat
        /\ Cardinality(Fetching(u)) + Cardinality(Callbacks(u, main)) <= pending[u]
    BY CountedTypes, ListsCount
  <2>2. Callbacks(u, main)' = Callbacks(u, Append(main, m)) /\ Fetching(u)' = Fetching(u) \ {d}
    BY <1>1 DEF Callbacks, Fetching
  <2>3. Cardinality(Callbacks(u, Append(main, m))) = Cardinality(Callbacks(u, main)) + One(u, m)
    BY <1>1, CallbackAppended
  <2>4. Cardinality(Fetching(u) \ {d})
          = IF d \in Fetching(u) THEN Cardinality(Fetching(u)) - 1 ELSE Cardinality(Fetching(u))
    BY <2>1, FS_RemoveElement
  <2>5. d \in Fetching(u) <=> One(u, m) = 1
    BY <1>1 DEF Fetching, One
  <2>6. One(u, m) \in {0, 1}
    BY DEF One
  <2>7. Cardinality(Fetching(u) \ {d}) + One(u, m) = Cardinality(Fetching(u))
    BY <2>1, <2>4, <2>5, <2>6
  <2>8. Cardinality(Fetching(u) \ {d}) \in Nat
    BY <2>1, FS_RemoveElement, FS_CardinalityType
  <2> QED BY <2>1, <2>2, <2>3, <2>6, <2>7, <2>8
<1>3. IsFiniteSet(downloads')
  BY <1>1, FS_RemoveElement DEF Counted
<1> QED
  BY <1>2, <1>3 DEF Counted

LEMMA DownloadCounted ==
  ASSUME Typed, Counted, NEW d \in downloads, manualDownload(d)
  PROVE  Counted'
<1>1. UNCHANGED <<updates, updater, pending>>
  BY DEF manualDownload, java_vars
<1>2. CASE end_download(d)
  BY <1>1, <1>2, EndCounted
<1>3. CASE /\ downloads' = (downloads \ {d}) \cup {[d EXCEPT !.at = "rename"]}
           /\ UNCHANGED <<activePaths, main>>
  <2> DEFINE e == [d EXCEPT !.at = "rename"]
  <2>1. e.update = d.update
    BY DEF Typed, Tasks
  <2>2. downloads' = (downloads \ {d}) \cup {e}
    BY <1>3
  <2> HIDE DEF e
  <2>3. ASSUME NEW u \in UpdateIds
        PROVE  (Cardinality(Fetching(u)) + Cardinality(Callbacks(u, main)) <= pending[u])'
    <3> DEFINE F == Fetching(u)
    <3>1. /\ IsFiniteSet(F) /\ Cardinality(F) \in Nat
          /\ Cardinality(Callbacks(u, main)) \in Nat /\ pending[u] \in Nat
          /\ Cardinality(F) + Cardinality(Callbacks(u, main)) <= pending[u]
      BY CountedTypes, ListsCount
    <3>2. Callbacks(u, main)' = Callbacks(u, main)
      BY <1>3 DEF Callbacks
    <3>3. \/ d \in F /\ Fetching(u)' = (F \ {d}) \cup {e}
          \/ Fetching(u)' = F
      BY <2>1, <2>2 DEF Fetching
    <3> HIDE DEF F
    <3>4. CASE d \in F /\ Fetching(u)' = (F \ {d}) \cup {e}
      <4> DEFINE G == F \ {d}
      <4>1. IsFiniteSet(G) /\ Cardinality(G) = Cardinality(F) - 1
        BY <3>1, <3>4, FS_RemoveElement
      <4> HIDE DEF G
      <4>2. IsFiniteSet(G \cup {e})
            /\ Cardinality(G \cup {e}) = IF e \in G THEN Cardinality(G) ELSE Cardinality(G) + 1
        BY <4>1, FS_AddElement
      <4>3. Cardinality(G) \in Nat
        BY <4>1, FS_CardinalityType
      <4>4. Cardinality(G \cup {e}) \in Nat /\ Cardinality(G \cup {e}) <= Cardinality(F)
        BY <3>1, <4>1, <4>2, <4>3
      <4>5. Fetching(u)' = G \cup {e}
        BY <3>4 DEF G
      <4> QED BY <1>1, <3>1, <3>2, <4>4, <4>5
    <3>5. CASE Fetching(u)' = F
      BY <1>1, <3>1, <3>2, <3>5
    <3> QED BY <3>3, <3>4, <3>5
  <2>4. IsFiniteSet(downloads')
    BY <2>2, FS_RemoveElement, FS_AddElement DEF Counted
  <2> QED BY <1>1, <2>3, <2>4 DEF Counted
<1> QED
  BY <1>2, <1>3 DEF manualDownload

(* A count that falls leaves what the threads count on.                     *)
LEMMA FallTallied ==
  ASSUME NEW w \in [1..MaxCaptures -> {None} \cup Threads], NEW n,
         NEW p \in [UpdateIds -> 0..Len(mLists)], Tallied(w, n, p),
         NEW q, \A u \in UpdateIds : q[u] \in 0..Len(mLists) /\ q[u] <= p[u]
  PROVE  Tallied(w, n, q)
<1>1. ASSUME NEW s \in 1..MaxCaptures, w[s] # None
      PROVE  Tally(w[s], n, q)
  <2>1. w[s] \in Threads
    BY <1>1
  <2>2. /\ w[s].update \in UpdateIds /\ Len(w[s].todo) \in Nat
        /\ Tally(w[s], n, p) /\ Len(mLists) \in Nat
    BY <1>1, <2>1, ListsCount DEF Threads, Tallied
  <2>3. /\ p[w[s].update] \in Nat /\ q[w[s].update] \in Nat
        /\ q[w[s].update] <= p[w[s].update]
    BY <2>2
  <2> QED BY <2>2, <2>3 DEF Tally
<1> QED
  BY <1>1 DEF Tallied

(* A callback counts down, and only one that was due does.                  *)
LEMMA MainCounted == ASSUME Typed, Counted, main_looper PROVE Counted'
<1> DEFINE m == Head(main)
<1>1. /\ main \in Seq(Messages) /\ main # <<>> /\ Handle(m)
      /\ UNCHANGED <<updates, updater, downloads>>
  BY DEF Typed, main_looper, io_vars
<1>2. m \in Messages /\ Tail(main) \in Seq(Messages)
  BY <1>1, HeadTailProperties
<1> HIDE DEF m
<1>3. ASSUME NEW u \in UpdateIds
      PROVE  /\ Cardinality(Callbacks(u, Tail(main))) \in Nat /\ One(u, m) \in {0, 1}
             /\ Cardinality(Fetching(u)) \in Nat
             /\ Cardinality(Fetching(u)) + Cardinality(Callbacks(u, Tail(main))) + One(u, m)
                  <= pending[u]
  <2>1. Cardinality(Callbacks(u, Tail(main))) \in Nat
    BY <1>2, CallbacksFinite
  <2>2. Cardinality(Callbacks(u, Tail(main))) + One(u, m) <= Cardinality(Callbacks(u, main))
    BY <1>1, CallbackTaken DEF m
  <2>3. One(u, m) \in {0, 1}
    BY DEF One
  <2>4. /\ Cardinality(Fetching(u)) \in Nat /\ Cardinality(Callbacks(u, main)) \in Nat
        /\ Cardinality(Fetching(u)) + Cardinality(Callbacks(u, main)) <= pending[u]
        /\ pending[u] \in Nat
    BY CountedTypes, ListsCount
  <2> QED BY <2>1, <2>2, <2>3, <2>4
<1>4. \A u \in UpdateIds : Fetching(u)' = Fetching(u)
  BY <1>1 DEF Fetching
<1>5. CASE UNCHANGED pending /\ main' = Tail(main)
  <2>1. ASSUME NEW u \in UpdateIds
        PROVE  (Cardinality(Fetching(u)) + Cardinality(Callbacks(u, main)) <= pending[u])'
    <3>1. Callbacks(u, main)' = Callbacks(u, Tail(main)) /\ pending[u] \in Nat
      <4>1. Callbacks(u, main)' = Callbacks(u, Tail(main))
        BY <1>5 DEF Callbacks
      <4> QED BY <4>1, CountedTypes, ListsCount
    <3>2. Cardinality(Fetching(u)) + Cardinality(Callbacks(u, Tail(main))) <= pending[u]
      BY <1>3, <3>1
    <3>3. Fetching(u)' = Fetching(u) /\ pending' = pending
      BY <1>4, <1>5
    <3> QED BY <3>1, <3>2, <3>3
  <2> QED BY <1>1, <1>5, <2>1 DEF Counted
<1>6. CASE checkIfFinished(m)
  <2> DEFINE v == m.update
             f == Message("finalize", v, {})
  <2>1. /\ m.kind = "callback" /\ pending' = [pending EXCEPT ![v] = @ - 1]
        /\ main' = Append(Tail(main), f) \/ main' = Tail(main)
    BY <1>6 DEF checkIfFinished
  <2>2. f.kind = "finalize"
    BY DEF Message
  <2>3. pending \in [UpdateIds -> 0..Len(mLists)] /\ Len(mLists) \in Nat
    BY ListsCount DEF Counted
  <2> HIDE DEF v, f
  <2>4. \A u \in UpdateIds : u # v => pending'[u] = pending[u]
    BY <2>1, <2>3
  <2>5. ASSUME NEW u \in UpdateIds PROVE pending'[u] = pending[u] - One(u, m)
    <3>1. CASE u = v
      <4>1. One(u, m) = 1
        BY <2>1, <3>1 DEF One, v
      <4>2. pending'[u] = pending[u] - 1
        BY <2>1, <2>3, <3>1
      <4> QED BY <4>1, <4>2
    <3>2. CASE u # v
      <4>1. One(u, m) = 0
        BY <3>2 DEF One, v
      <4> QED BY <2>3, <2>4, <3>2, <4>1
    <3> QED BY <3>1, <3>2
  <2>6. ASSUME NEW u \in UpdateIds
        PROVE  Cardinality(Callbacks(u, main)') = Cardinality(Callbacks(u, Tail(main)))
    <3>1. One(u, f) = 0
      BY <2>2 DEF One
    <3>2. Cardinality(Callbacks(u, Append(Tail(main), f))) = Cardinality(Callbacks(u, Tail(main))) + 0
      BY <1>2, <3>1, CallbackAppended
    <3>3. Cardinality(Callbacks(u, Tail(main))) \in Nat
      BY <1>3
    <3>4. Callbacks(u, main)' = Callbacks(u, main')
      BY DEF Callbacks
    <3>5. CASE main' = Append(Tail(main), f)
      <4>1. Callbacks(u, main)' = Callbacks(u, Append(Tail(main), f))
        BY <3>4, <3>5
      <4> QED BY <3>2, <3>3, <4>1
    <3>6. CASE main' = Tail(main)
      <4>1. Callbacks(u, main)' = Callbacks(u, Tail(main))
        BY <3>4, <3>6
      <4> QED BY <4>1
    <3> QED BY <2>1, <3>5, <3>6
  <2>7. ASSUME NEW u \in UpdateIds
        PROVE  /\ (Cardinality(Fetching(u)) + Cardinality(Callbacks(u, main)) <= pending[u])'
               /\ pending'[u] \in 0..Len(mLists) /\ pending'[u] <= pending[u]
    <3>1. /\ pending[u] \in Nat /\ pending[u] <= Len(mLists)
      BY <2>3
    <3>2. Cardinality(Fetching(u)') + Cardinality(Callbacks(u, main)') <= pending'[u]
      BY <1>3, <1>4, <2>5, <2>6, <3>1
    <3>3. pending'[u] = pending[u] - One(u, m) /\ pending'[u] >= 0
      BY <1>3, <2>5, <3>1
    <3>4. One(u, m) \in {0, 1} /\ Len(mLists) \in Nat
      BY <1>3, <2>3
    <3>5. pending'[u] \in 0..Len(mLists) /\ pending'[u] <= pending[u]
      BY <3>1, <3>3, <3>4
    <3>6. (Cardinality(Fetching(u)) + Cardinality(Callbacks(u, main)) <= pending[u])'
      BY <3>2
    <3> QED BY <3>5, <3>6
  <2>8. pending' \in [UpdateIds -> 0..Len(mLists)]
    BY <2>1, <2>3, <2>7
  <2>9. \A u \in UpdateIds : u > updates => pending'[u] = 0
    <3>1. \A u \in UpdateIds : u > updates => pending[u] = 0
      BY DEF Counted
    <3> QED BY <2>7, <3>1
  <2>10. Tallied(updater, updates, pending')
    BY <2>3, <2>7, FallTallied, CountedTypes DEF Counted
  <2> QED BY <1>1, <2>7, <2>8, <2>9, <2>10 DEF Counted
<1> QED
  BY <1>1, <1>5, <1>6 DEF Handle, finalizeUpdate, onNativeLoaded
-----------------------------------------------------------------------------
Flags ==
  {requested, mUpdateInProgress, mStopRequest, outdated,
   reload_blacklists_now, reload_in_progress} \subseteq BOOLEAN

Places ==
  /\ activePaths \subseteq Lists /\ loaded \subseteq Lists
  /\ \A d \in downloads : d.list \in Remote
  /\ service \in 0..MaxCaptures /\ loop \in Loops

Workers == [todo : Seq(Lists), got : Contents]

Data ==
  /\ files \in Contents
  /\ worker # None => worker \in Workers
  /\ new_bl = None \/ new_bl \in Contents
  /\ bl = None \/ bl \in Contents

TInv == IInv /\ Counted /\ Flags /\ Places /\ Data

LEMMA InitTInv == Init => TInv
<1> SUFFICES ASSUME Init PROVE TInv
  OBVIOUS
<1>1. IInv
  BY InitIInv
<1>2. Counted
  <2>1. IsFiniteSet(downloads) /\ pending \in [UpdateIds -> 0..Len(mLists)]
    BY ListsCount, FS_EmptySet DEF Init
  <2>2. ASSUME NEW u \in UpdateIds
        PROVE  Cardinality(Fetching(u)) + Cardinality(Callbacks(u, main)) <= pending[u]
    <3>1. Fetching(u) = {} /\ Callbacks(u, main) = {} /\ pending[u] = 0
      BY DEF Init, Fetching, Callbacks
    <3> QED BY <3>1, FS_EmptySet
  <2>3. Tallied(updater, updates, pending)
    BY DEF Init, Tallied
  <2>4. \A u \in UpdateIds : u > updates => pending[u] = 0
    BY DEF Init
  <2> QED BY <2>1, <2>2, <2>3, <2>4 DEF Counted
<1>3. Flags
  BY DEF Init, Flags
<1>4. Places
  BY BlacklistsAssumption DEF Init, Places, Loops
<1>5. Data
  BY BlacklistsAssumption DEF Init, Data, Contents
<1> QED
  BY <1>1, <1>2, <1>3, <1>4, <1>5 DEF TInv

LEMMA NextFlags == ASSUME Flags, [Next]_vars PROVE Flags'
<1> USE DEF Flags, java_vars, io_vars, flag_vars, native_vars
<1>1. CASE onStartCommand
  BY <1>1 DEF onStartCommand, set_reload_now
<1>2. CASE checkBlacklistsUpdates \/ requestBlacklistsUpdate \/ DayPasses
  BY <1>2 DEF checkBlacklistsUpdates, requestBlacklistsUpdate, DayPasses
<1>3. CASE Updaters
  BY <1>3 DEF Updaters, updateBlacklistsWork, update, update_skipped,
     update_started, update_list, update_lists_done, Finalized,
     reloadBlacklists, set_reload_now
<1>4. CASE Downloading
  BY <1>4 DEF Downloading, manualDownload
<1>5. CASE main_looper
  BY <1>5 DEF main_looper, Handle, checkIfFinished, finalizeUpdate,
     Finalized, onNativeLoaded
<1>6. CASE load_new_blacklists
  BY <1>6 DEF load_new_blacklists
<1>7. CASE Native
  BY <1>7 DEF Native, pd_run, begin_loading, pd_housekeeping,
     housekeeping_use, housekeeping_reload, pd_run_end
<1>8. CASE onDestroy
  BY <1>8 DEF onDestroy
<1>9. CASE UNCHANGED vars
  BY <1>9 DEF vars
<1> QED
  BY <1>1, <1>2, <1>3, <1>4, <1>5, <1>6, <1>7, <1>8, <1>9 DEF Next

LEMMA NextPlaces == ASSUME Typed, Places, [Next]_vars PROVE Places'
<1> USE DEF Places, java_vars, io_vars, flag_vars, native_vars
<1>1. CASE onStartCommand
  BY <1>1, BlacklistsAssumption DEF onStartCommand, Loops
<1>2. CASE checkBlacklistsUpdates \/ requestBlacklistsUpdate \/ DayPasses
  BY <1>2 DEF checkBlacklistsUpdates, requestBlacklistsUpdate, DayPasses
<1>3. CASE Updaters
  <2>1. PICK s \in 1..MaxCaptures : updateBlacklistsWork(s)
    BY <1>3 DEF Updaters
  <2>2. CASE update(s) \/ update_lists_done(s) \/ reloadBlacklists(s)
    BY <2>2 DEF update, update_lists_done, reloadBlacklists
  <2>3. CASE update_list(s)
    BY <2>3, BlacklistsAssumption DEF update_list, startDownload
  <2> QED BY <2>1, <2>2, <2>3 DEF updateBlacklistsWork
<1>4. CASE Downloading
  <2>1. PICK d \in downloads : manualDownload(d)
    BY <1>4 DEF Downloading
  <2>2. CASE end_download(d)
    BY <2>1, <2>2 DEF manualDownload, end_download
  <2>3. CASE /\ downloads' = (downloads \ {d}) \cup {[d EXCEPT !.at = "rename"]}
             /\ UNCHANGED <<activePaths, main>>
    <3>1. [d EXCEPT !.at = "rename"].list = d.list
      BY DEF Typed, Tasks
    <3> QED BY <2>1, <2>3, <3>1 DEF manualDownload
  <2> QED BY <2>1, <2>2, <2>3 DEF manualDownload
<1>5. CASE main_looper
  <2>1. Head(main) \in Messages
    BY <1>5, HeadTailProperties DEF Typed, main_looper
  <2>2. loaded' = loaded \/ loaded' = Head(main).lists
    BY <1>5 DEF main_looper, Handle, checkIfFinished, finalizeUpdate, onNativeLoaded
  <2> QED BY <1>5, <2>1, <2>2 DEF main_looper, Messages
<1>6. CASE load_new_blacklists
  BY <1>6 DEF load_new_blacklists
<1>7. CASE Native
  BY <1>7 DEF Native, pd_run, pd_housekeeping, pd_run_end, Loops
<1>8. CASE onDestroy
  BY <1>8 DEF onDestroy, Loops
<1>9. CASE UNCHANGED vars
  BY <1>9 DEF vars
<1> QED
  BY <1>1, <1>2, <1>3, <1>4, <1>5, <1>6, <1>7, <1>8, <1>9 DEF Next

LEMMA NextData == ASSUME Typed, Data, [Next]_vars PROVE Data'
<1> USE DEF Data, java_vars, io_vars, flag_vars, native_vars
<1>1. CASE onStartCommand
  BY <1>1 DEF onStartCommand
<1>2. CASE checkBlacklistsUpdates \/ requestBlacklistsUpdate \/ DayPasses
  BY <1>2 DEF checkBlacklistsUpdates, requestBlacklistsUpdate, DayPasses
<1>3. CASE Updaters
  BY <1>3 DEF Updaters, updateBlacklistsWork, update, update_list,
     update_lists_done, reloadBlacklists
<1>4. CASE Downloading
  <2>1. PICK d \in downloads : manualDownload(d)
    BY <1>4 DEF Downloading
  <2>2. d.update \in 0..MaxUpdates /\ 0 \in 0..MaxUpdates
    BY BlacklistsAssumption DEF Typed, Tasks, UpdateIds
  <2>3. files' \in Contents
    BY <2>1, <2>2, ExceptTyped DEF manualDownload, Contents
  <2> QED BY <2>1, <2>3 DEF manualDownload
<1>5. CASE main_looper
  BY <1>5 DEF main_looper
<1>6. CASE load_new_blacklists
  <2> DEFINE l == Head(worker.todo)
             got == [worker.got EXCEPT ![l] = files[l]]
  <2>1. worker \in Workers /\ worker.todo # <<>>
    BY <1>6 DEF load_new_blacklists
  <2>2. l \in Lists /\ Tail(worker.todo) \in Seq(Lists)
    BY <2>1, HeadTailProperties DEF Workers
  <2>3. files[l] \in 0..MaxUpdates
    BY <2>2 DEF Contents
  <2>4. got \in Contents
    BY <2>1, <2>3, ExceptTyped DEF Workers, Contents
  <2>5. worker' = [todo |-> Tail(worker.todo), got |-> got]
    BY <1>6 DEF load_new_blacklists
  <2> HIDE DEF l, got
  <2>6. worker' \in Workers /\ worker'.got \in Contents
    BY <2>2, <2>4, <2>5 DEF Workers
  <2> QED BY <1>6, <2>6 DEF load_new_blacklists
<1>7. CASE Native
  <2>1. Loading \in Workers
    BY BlacklistsAssumption DEF Loading, Workers, Contents
  <2>2. CASE pd_run
    BY <2>1, <2>2 DEF pd_run, use_new_blacklists
  <2>3. CASE pd_housekeeping
    BY <2>1, <2>3 DEF pd_housekeeping, housekeeping_use, housekeeping_reload,
       use_new_blacklists
  <2>4. CASE pd_run_end
    BY <2>4 DEF pd_run_end
  <2> QED BY <1>7, <2>2, <2>3, <2>4 DEF Native
<1>8. CASE onDestroy
  BY <1>8 DEF onDestroy
<1>9. CASE UNCHANGED vars
  BY <1>9 DEF vars
<1> QED
  BY <1>1, <1>2, <1>3, <1>4, <1>5, <1>6, <1>7, <1>8, <1>9 DEF Next

LEMMA NextCounted == ASSUME Typed, Counted, [Next]_vars PROVE Counted'
<1> USE DEF java_vars, io_vars, flag_vars, native_vars
<1>1. CASE onStartCommand
  <2>1. UNCHANGED <<pending, downloads, main>>
    BY <1>1 DEF onStartCommand
  <2>2. CASE start_updater(service')
    BY <2>1, <2>2, StartCounted
  <2>3. CASE UNCHANGED <<updater, updates>>
    BY <2>1, <2>3, OthersCounted
  <2> QED BY <1>1, <2>2, <2>3 DEF onStartCommand
<1>2. CASE checkBlacklistsUpdates
  BY <1>2, StartCounted DEF checkBlacklistsUpdates
<1>3. CASE requestBlacklistsUpdate \/ DayPasses
  BY <1>3, OthersCounted DEF requestBlacklistsUpdate, DayPasses
<1>4. CASE Updaters
  BY <1>4, UpdateCounted DEF Updaters
<1>5. CASE Downloading
  BY <1>5, DownloadCounted DEF Downloading
<1>6. CASE main_looper
  BY <1>6, MainCounted
<1>7. CASE load_new_blacklists \/ pd_run_end \/ onDestroy
  BY <1>7, OthersCounted DEF load_new_blacklists, pd_run_end, onDestroy
<1>8. ASSUME pd_run \/ pd_housekeeping PROVE Counted'
  <2>1. UNCHANGED <<updates, updater, pending, downloads>>
    BY <1>8 DEF pd_run, pd_housekeeping
  <2>2. CASE UNCHANGED main
    BY <2>1, <2>2, OthersCounted
  <2>3. CASE use_new_blacklists
    <3> DEFINE m == Message("loaded", 0, LoadedIn(new_bl))
    <3>1. m.kind # "callback" /\ main' = Append(main, m)
      BY <2>3 DEF use_new_blacklists, LoadedIn, Message
    <3> HIDE DEF m
    <3> QED BY <2>1, <3>1, MessageCounted
  <2> QED
    BY <1>8, <2>2, <2>3 DEF pd_run, pd_housekeeping, housekeeping_use,
       housekeeping_reload
<1>9. CASE UNCHANGED vars
  BY <1>9, OthersCounted DEF vars
<1> QED
  BY <1>1, <1>2, <1>3, <1>4, <1>5, <1>6, <1>7, <1>8, <1>9 DEF Next, Native

LEMMA TInvTypeOK == TInv => TypeOK
<1> SUFFICES ASSUME TInv PROVE TypeOK
  OBVIOUS
<1>1. Flags /\ Places /\ Data /\ Typed /\ Counted
  BY DEF TInv, IInv
<1>2. pending \in [UpdateIds -> 0..Cardinality(Lists)]
  <2>1. \A x \in 0..Len(mLists) : x \in 0..Cardinality(Lists)
    BY ListsCount
  <2> QED BY <1>1, <2>1 DEF Counted
<1>3. downloads \subseteq [list : Remote, update : UpdateIds, at : {"fetch", "rename"}]
  BY <1>1 DEF Places, Typed, Tasks
<1>4. \A s \in DOMAIN updater : updater[s] # None => updater[s] \in Threads
  BY <1>1 DEF Typed
<1> QED
  BY <1>1, <1>2, <1>3, <1>4 DEF TypeOK, Flags, Places, Data, Typed, Threads

(* The counts of pending tasks stay between zero and the lists, whatever    *)
(* updates overlap and whatever becomes of their downloads, and the state   *)
(* of the threads, tasks, files and lists in force is well formed.          *)
THEOREM BlacklistsTypeSafe == Spec => []TypeOK
<1>1. TInv /\ [Next]_vars => TInv'
  BY NextIInv, NextCounted, NextFlags, NextPlaces, NextData DEF TInv, IInv
<1> QED
  BY <1>1, InitTInv, TInvTypeOK, PTL DEF Spec
=============================================================================
