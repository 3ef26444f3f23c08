-------------------------- MODULE BlacklistsUpdate --------------------------
(***************************************************************************)
(* How a malware list gets from its web server into the packet loop:       *)
(* mBlacklistsUpdateThread of each service instance, the download pool,    *)
(* the main thread's message queue, the list files, the native reload flag *)
(* and the worker thread that parses the files, over several captures of   *)
(* one process.  A list's content is the number of the update that         *)
(* downloaded it; 0 is a file that is not there.  Memory never runs out.   *)
(***************************************************************************)
EXTENDS Integers, FiniteSets, SequencesExt

CONSTANTS
  mLists,      \* the lists, in the order of Blacklists and of bls_info
  Remote,      \* those that are downloaded: the url is not "manual" nor empty
  None,        \* no thread, no list
  MaxUpdates,  \* bound: update threads started, and asked for
  MaxCaptures  \* bound: service instances

Lists == Range(mLists)

ASSUME BlacklistsAssumption ==
  /\ mLists \in Seq(Lists) /\ Remote \subseteq Lists
  /\ \A i, j \in DOMAIN mLists : mLists[i] = mLists[j] => i = j
  /\ MaxUpdates \in Nat \ {0} /\ MaxCaptures \in Nat

VARIABLES
  requested,  \* mBlacklistsUpdateRequested of the service
  updater,    \* by service instance: mBlacklistsUpdateThread
  updates,    \* the update threads started
  mUpdateInProgress, mStopRequest,
  outdated,   \* mLastUpdateMonotonic is a day ago
  pending,    \* by update: pendingTasks
  downloads,  \* the tasks of the executor
  activePaths,
  main,       \* the messages of the main looper
  loaded,     \* the lists that Java shows as loaded
  files,      \* by list: the content of its file
  service,    \* the number of the service instance
  loop,       \* runPacketLoop, see Loops
  reload_blacklists_now, reload_in_progress,
  unread,     \* a reload was asked for and no loading began since
  worker,     \* load_new_blacklists: None, or what it still reads and has read
  new_bl, bl  \* None, or the content of each list

java_vars == <<requested, updater, updates, mUpdateInProgress,
               mStopRequest, outdated, pending>>
io_vars == <<downloads, activePaths, files>>
native_vars == <<loop, reload_in_progress, worker, new_bl, bl>>
flag_vars == <<reload_blacklists_now, unread>>
vars == <<java_vars, io_vars, main, loaded, service, flag_vars, native_vars>>

UpdateIds == 1..MaxUpdates
Loops == {"idle", "starting", "loading", "running", "joining"}
Contents == [Lists -> 0..MaxUpdates]
Thread(pc, todo) == [pc |-> pc, update |-> updates', todo |-> todo]

(* The files of an earlier process, if any, pass for those of update 1.     *)
Init ==
  /\ requested = FALSE /\ updates = 0
  /\ updater = [s \in 1..MaxCaptures |-> None]
  /\ mUpdateInProgress = FALSE /\ mStopRequest = FALSE
  /\ outdated = TRUE
  /\ pending = [u \in UpdateIds |-> 0]
  /\ downloads = {} /\ activePaths = {} /\ main = <<>> /\ loaded = {}
  /\ \E content \in {0, 1} : files = [l \in Lists |-> content]
  /\ service = 0 /\ loop = "idle"
  /\ reload_blacklists_now = FALSE /\ unread = FALSE
  /\ reload_in_progress = FALSE
  /\ worker = None /\ new_bl = None /\ bl = None

-----------------------------------------------------------------------------
(* Who starts an update: onStartCommand and the updates thread, at each     *)
(* batch; the user, in between.                                             *)
needsUpdate == outdated

set_reload_now == reload_blacklists_now' = TRUE /\ unread' = TRUE
begin_loading == reload_blacklists_now' = FALSE /\ unread' = FALSE

start_updater(s) ==
  /\ updates < MaxUpdates
  /\ updates' = updates + 1
  /\ updater' = [updater EXCEPT ![s] = Thread("start", <<>>)]

(* Mutant: Up to date lists are not loaded at the start.                    *)
onStartCommand_no_reload ==
  /\ loop = "idle" /\ service < MaxCaptures
  /\ service' = service + 1 /\ loop' = "starting"
  /\ requested' = FALSE
  /\ IF needsUpdate THEN start_updater(service')
     ELSE UNCHANGED <<updater, updates>>
  /\ UNCHANGED <<mUpdateInProgress, mStopRequest, outdated, pending, io_vars,
                 main, loaded, flag_vars, reload_in_progress, worker, new_bl,
                 bl>>

(* The reload of what is there, or the update that ends with one; the first *)
(* update is needed also when some list is not up to date.                  *)
onStartCommand ==
  /\ loop = "idle" /\ service < MaxCaptures
  /\ service' = service + 1 /\ loop' = "starting"
  /\ requested' = FALSE
  /\ \/ /\ start_updater(service')
        /\ UNCHANGED flag_vars
     \/ /\ ~needsUpdate
        /\ set_reload_now
        /\ UNCHANGED <<updater, updates>>
  /\ UNCHANGED <<mUpdateInProgress, mStopRequest, outdated, pending, io_vars,
                 main, loaded, reload_in_progress, worker, new_bl, bl>>

(* A batch for the updates thread; an empty one is sent with a request.     *)
checkBlacklistsUpdates ==
  /\ loop # "idle"
  /\ updater[service] = None /\ (requested \/ needsUpdate)
  /\ start_updater(service)
  /\ UNCHANGED <<requested, mUpdateInProgress, mStopRequest, outdated, pending,
                 io_vars, main, loaded, service, flag_vars, native_vars>>

requestBlacklistsUpdate ==
  /\ service > 0 /\ updates < MaxUpdates
  /\ requested' = TRUE
  /\ UNCHANGED <<updater, updates, mUpdateInProgress, mStopRequest, outdated,
                 pending, io_vars, main, loaded, service, flag_vars,
                 native_vars>>

(* BLACKLISTS_UPDATE_MILLIS pass, a day: longer than any download takes.    *)
DayPasses ==
  /\ updates < MaxUpdates
  /\ downloads = {} /\ main = <<>>
  /\ \A s \in DOMAIN updater : updater[s] = None
  /\ ~outdated /\ outdated' = TRUE
  /\ UNCHANGED <<requested, updater, updates, mUpdateInProgress,
                 mStopRequest, pending, io_vars, main, loaded, service,
                 flag_vars, native_vars>>

-----------------------------------------------------------------------------
(* The update thread: Blacklists.update, then reloadBlacklists.             *)
Finalized == mUpdateInProgress' = FALSE /\ outdated' = FALSE

update_skipped(s) ==
  /\ mUpdateInProgress
  /\ updater' = [updater EXCEPT ![s].pc = "reload"]
  /\ UNCHANGED <<mUpdateInProgress, mStopRequest>>

update_started(s) ==
  /\ ~mUpdateInProgress
  /\ mUpdateInProgress' = TRUE /\ mStopRequest' = FALSE
  /\ updater' = [updater EXCEPT ![s].pc = "lists", ![s].todo = mLists]

update(s) ==
  /\ updater[s] # None /\ updater[s].pc = "start"
  /\ requested' = IF s = service THEN FALSE ELSE requested
  /\ update_skipped(s) \/ update_started(s)
  /\ UNCHANGED <<updates, outdated, pending, io_vars, main, loaded,
                 service, flag_vars, native_vars>>

(* Mutant: Without the test of activePaths.                                 *)
startDownload_again(u, l) ==
  /\ activePaths' = activePaths \cup {l}
  /\ downloads' = downloads \cup {[list |-> l, update |-> u, at |-> "fetch"]}

(* A file that is being downloaded is left to that download, which does not *)
(* call this update back.                                                   *)
startDownload(u, l) ==
  IF l \in activePaths
  THEN UNCHANGED <<downloads, activePaths>>
  ELSE /\ activePaths' = activePaths \cup {l}
       /\ downloads' =
            downloads \cup {[list |-> l, update |-> u, at |-> "fetch"]}

update_list(s) ==
  /\ updater[s] # None /\ updater[s].pc = "lists"
  /\ ~mStopRequest /\ updater[s].todo # <<>>
  /\ updater' = [updater EXCEPT ![s].todo = Tail(@)]
  /\ LET l == Head(updater[s].todo) IN
       \/ /\ l \notin Remote
          /\ UNCHANGED <<pending, downloads, activePaths>>
       \/ /\ l \in Remote
          /\ pending' = [pending EXCEPT ![updater[s].update] = @ + 1]
          /\ startDownload(updater[s].update, l)
  /\ UNCHANGED <<requested, updates, mUpdateInProgress, mStopRequest,
                 outdated, files, main, loaded, service, flag_vars,
                 native_vars>>

update_lists_done(s) ==
  /\ updater[s] # None /\ updater[s].pc = "lists"
  /\ mStopRequest \/ updater[s].todo = <<>>
  /\ updater' = [updater EXCEPT ![s].pc = "reload"]
  /\ \/ pending[updater[s].update] = 0 /\ Finalized
     \/ /\ pending[updater[s].update] # 0
        /\ UNCHANGED <<mUpdateInProgress, outdated>>
  /\ UNCHANGED <<requested, updates, mStopRequest, pending,
                 io_vars, main, loaded, service, flag_vars,
                 native_vars>>

reloadBlacklists(s) ==
  /\ updater[s] # None /\ updater[s].pc = "reload"
  /\ set_reload_now
  /\ updater' = [updater EXCEPT ![s] = None]
  /\ UNCHANGED <<requested, updates, mUpdateInProgress, mStopRequest,
                 outdated, pending, io_vars, main, loaded, service,
                 native_vars>>

updateBlacklistsWork(s) ==
  update(s) \/ update_list(s) \/ update_lists_done(s) \/ reloadBlacklists(s)

-----------------------------------------------------------------------------
(* manualDownload on a thread of the pool: the old file is deleted before   *)
(* the new one gets its name, and either may be as far as it comes.         *)
Message(kind, u, ls) == [kind |-> kind, update |-> u, lists |-> ls]

(* Mutant: A download that fails calls nobody back.                         *)
end_download_silent(d) ==
  /\ downloads' = downloads \ {d}
  /\ activePaths' = activePaths \ {d.list}
  /\ main' = IF d.at = "fetch" THEN main
             ELSE Append(main, Message("callback", d.update, {}))

(* Mutant: A download calls back for its success and for its failure.       *)
end_download_both(d) ==
  /\ downloads' = downloads \ {d}
  /\ activePaths' = activePaths \ {d.list}
  /\ main' = main \o <<Message("callback", d.update, {}),
                       Message("callback", d.update, {})>>

(* The download ends, well or badly, and posts one of its callbacks.        *)
end_download(d) ==
  /\ downloads' = downloads \ {d}
  /\ activePaths' = activePaths \ {d.list}
  /\ main' = Append(main, Message("callback", d.update, {}))

manualDownload(d) ==
  /\ \/ /\ d.at = "fetch"
        /\ end_download(d)
        /\ UNCHANGED files
     \/ /\ d.at = "fetch"
        /\ downloads' = (downloads \ {d}) \cup {[d EXCEPT !.at = "rename"]}
        /\ files' = [files EXCEPT ![d.list] = 0]
        /\ UNCHANGED <<activePaths, main>>
     \/ /\ d.at = "rename"
        /\ end_download(d)
        /\ files' = [files EXCEPT ![d.list] = d.update]
     \/ /\ d.at = "rename"
        /\ end_download(d)
        /\ UNCHANGED files
  /\ UNCHANGED <<java_vars, loaded, service, flag_vars, native_vars>>

-----------------------------------------------------------------------------
(* The main thread: the callbacks of the downloads, the end of an update,   *)
(* what the native code loaded.                                             *)
(* The last callback posts the end of the update behind what is waiting.    *)
checkIfFinished(m) ==
  /\ m.kind = "callback"
  /\ pending' = [pending EXCEPT ![m.update] = @ - 1]
  /\ main' = IF pending'[m.update] <= 0
             THEN Append(Tail(main), Message("finalize", m.update, {}))
             ELSE Tail(main)
  /\ UNCHANGED <<mUpdateInProgress, outdated, loaded>>

finalizeUpdate(m) ==
  /\ m.kind = "finalize"
  /\ Finalized
  /\ main' = Tail(main)
  /\ UNCHANGED <<pending, loaded>>

(* Mutant: A list that is not loaded any more stays shown as loaded.        *)
onNativeLoaded_adds(m) ==
  /\ m.kind = "loaded"
  /\ loaded' = loaded \cup m.lists
  /\ mUpdateInProgress' = FALSE
  /\ main' = Tail(main)
  /\ UNCHANGED <<outdated, pending>>

onNativeLoaded(m) ==
  /\ m.kind = "loaded"
  /\ loaded' = m.lists
  /\ mUpdateInProgress' = FALSE
  /\ main' = Tail(main)
  /\ UNCHANGED <<outdated, pending>>

Handle(m) == checkIfFinished(m) \/ finalizeUpdate(m) \/ onNativeLoaded(m)

main_looper ==
  /\ main # <<>> /\ Handle(Head(main))
  /\ UNCHANGED <<requested, updater, updates, mStopRequest, io_vars,
                 service, flag_vars, native_vars>>

-----------------------------------------------------------------------------
(* load_new_blacklists, on the capture thread before it starts and on the   *)
(* worker later: each file as it is when its turn comes.                    *)
Loading == [todo |-> mLists, got |-> [l \in Lists |-> 0]]

load_new_blacklists ==
  /\ worker # None /\ worker.todo # <<>>
  /\ LET l == Head(worker.todo) IN
       worker' = [todo |-> Tail(worker.todo),
                  got |-> [worker.got EXCEPT ![l] = files[l]]]
  /\ new_bl' = IF worker'.todo = <<>> THEN worker'.got ELSE new_bl
  /\ UNCHANGED <<java_vars, io_vars, main, loaded, service,
                 flag_vars, loop, reload_in_progress, bl>>

reload_done == worker # None /\ worker.todo = <<>>

(* The list comes into force and Java is told which files it has.           *)
use_new_blacklists ==
  /\ worker' = None /\ new_bl' = None
  /\ bl' = new_bl
  /\ main' = Append(main, Message("loaded", 0, {l \in Lists : new_bl[l] # 0}))

pd_run ==
  /\ \/ /\ loop = "starting" /\ reload_blacklists_now
        /\ begin_loading
        /\ loop' = "loading" /\ worker' = Loading
        /\ UNCHANGED <<new_bl, bl, main>>
     \/ /\ loop = "starting" /\ ~reload_blacklists_now
        /\ loop' = "running"
        /\ UNCHANGED <<flag_vars, worker, new_bl, bl, main>>
     \/ /\ loop = "loading" /\ reload_done
        /\ loop' = "running"
        /\ use_new_blacklists
        /\ UNCHANGED flag_vars
  /\ UNCHANGED <<java_vars, io_vars, loaded, service, reload_in_progress>>

(* Mutant: The flag is reset when the worker is done, with what came since. *)
housekeeping_use_resets ==
  /\ reload_in_progress /\ reload_done
  /\ reload_in_progress' = FALSE
  /\ use_new_blacklists
  /\ reload_blacklists_now' = FALSE /\ UNCHANGED unread

housekeeping_use ==
  /\ reload_in_progress /\ reload_done
  /\ reload_in_progress' = FALSE
  /\ use_new_blacklists
  /\ UNCHANGED flag_vars

housekeeping_reload ==
  /\ ~reload_in_progress /\ reload_blacklists_now
  /\ begin_loading
  /\ reload_in_progress' = TRUE
  /\ worker' = Loading /\ new_bl' = None
  /\ UNCHANGED <<bl, main>>

(* The turns that send statistics or connections instead are stutters.      *)
pd_housekeeping ==
  /\ loop = "running"
  /\ housekeeping_use \/ housekeeping_reload
  /\ UNCHANGED <<java_vars, io_vars, loaded, service, loop>>

(* onDestroy stops the loop and the update; the loop joins the worker and   *)
(* frees the list in force.                                                 *)
onDestroy ==
  /\ loop = "running" /\ loop' = "joining"
  /\ mStopRequest' = TRUE
  /\ UNCHANGED <<requested, updater, updates, mUpdateInProgress,
                 outdated, pending, io_vars, main, loaded, service,
                 flag_vars, reload_in_progress, worker, new_bl, bl>>

pd_run_end ==
  /\ loop = "joining" /\ (reload_in_progress => reload_done)
  /\ loop' = "idle" /\ reload_in_progress' = FALSE
  /\ worker' = None /\ new_bl' = None /\ bl' = None
  /\ UNCHANGED <<java_vars, io_vars, main, loaded, service,
                 flag_vars>>

-----------------------------------------------------------------------------
Native == pd_run \/ pd_housekeeping \/ pd_run_end
Updaters == \E s \in 1..MaxCaptures : updateBlacklistsWork(s)
Downloading == \E d \in downloads : manualDownload(d)

Next ==
  \/ onStartCommand \/ checkBlacklistsUpdates \/ requestBlacklistsUpdate
  \/ DayPasses \/ Updaters \/ Downloading \/ main_looper
  \/ load_new_blacklists \/ Native \/ onDestroy

(* The threads run, a download has time-outs, and the packet loop wakes up  *)
(* at least every SELECT_TIMEOUT; nobody has to start, stop or ask.         *)
Spec ==
  /\ Init /\ [][Next]_vars
  /\ \A s \in 1..MaxCaptures : WF_vars(updateBlacklistsWork(s))
  /\ \A l \in Lists :
       WF_vars(\E d \in downloads : d.list = l /\ manualDownload(d))
  /\ WF_vars(main_looper) /\ WF_vars(load_new_blacklists) /\ WF_vars(Native)

-----------------------------------------------------------------------------
(* Types: among others, a count of pending tasks is never negative, nor     *)
(* more than the lists.                                                     *)
TypeOK ==
  /\ {requested, mUpdateInProgress, mStopRequest, outdated,
      reload_blacklists_now, reload_in_progress} \subseteq BOOLEAN
  /\ updates \in 0..MaxUpdates
  /\ \A s \in DOMAIN updater :
       updater[s] # None =>
         updater[s] \in [pc : {"start", "lists", "reload"}, update : UpdateIds,
                         todo : Seq(Lists)]
  /\ activePaths \cup loaded \subseteq Lists
  /\ pending \in [UpdateIds -> 0..Cardinality(Lists)]
  /\ downloads \subseteq [list : Remote, update : UpdateIds,
                          at : {"fetch", "rename"}]
  /\ files \in Contents /\ service \in 0..MaxCaptures
  /\ loop \in Loops
  /\ new_bl = None \/ new_bl \in Contents
  /\ bl = None \/ bl \in Contents

(* Two downloads never write the temporary file of one list at a time, even *)
(* when an update starts while the previous one still downloads: otherwise  *)
(* the file that is renamed is a mixture of both.                           *)
OneDownloadPerFile ==
  \A d, e \in downloads : d.list = e.list => d = e

(* When no message of the native code is on its way, Java shows as loaded   *)
(* the lists that the packet loop matches against, over reloads, captures   *)
(* and files that come and go.                                              *)
LoadedShown ==
  (bl # None /\ \A i \in DOMAIN main : main[i].kind # "loaded")
    => loaded = {l \in Lists : bl[l] # 0}

(* A reload that is asked for is never forgotten: a loading of the files    *)
(* begins after it, also when a worker is at it already, unless the capture *)
(* ends.                                                                    *)
ReloadServed == unread ~> (~unread \/ loop \in {"idle", "joining"})

(* An update ends: its last callback records the time, whatever became of   *)
(* the downloads, and the batches stop starting one update after the other, *)
(* although onNativeLoaded has let a second one begin, and a download that  *)
(* the other update started does not call it back.                          *)
UpdateRecorded == (mUpdateInProgress /\ outdated) ~> ~outdated

(* A capture gets its lists: whether the update at its start is made,       *)
(* skipped or not needed, they are loaded.                                  *)
CaptureLoads ==
  loop = "starting" ~> (bl # None \/ loop \in {"idle", "joining"})

-----------------------------------------------------------------------------
(* What the code does not keep.                                             *)

(* When everything has come to rest the packet loop has what was            *)
(* downloaded: the description of Blacklists says download, reload, load.   *)
AtRest ==
  /\ loop = "running" /\ ~reload_blacklists_now /\ ~reload_in_progress
  /\ updater[service] = None /\ downloads = {} /\ main = <<>>

DownloadedIsLoaded == (AtRest /\ bl # None) => bl = files

(* One update at a time: the downloads in progress are those of one.        *)
OneUpdate == \A d, e \in downloads : d.update = e.update
=============================================================================
