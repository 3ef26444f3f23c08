# Verification of the packet filter

TLA+ models of the capture core of this repository, an Android VPN filter
derived from PCAPdroid: the user-space proxy `zdtun`, the packet loop's
bookkeeping and verdicts in `vpnrelay.c`, and the Java side that starts it, feeds
it with lists and receives what it finds. The modules are checked with TLC on
small instances; each modelled component also has theorems, proved with TLAPS for
every instance.

Paths below are relative to `src/app/src/main/`: `jni/` is the native
library, `java/` stands for `java/com/emanuelef/remote_capture/`.

## The system

A capture has one native thread. `run_vpn` waits in `select` for the tun
device and for the sockets it opened on behalf of the apps. A packet of the tun
device is parsed, its connection looked up or created (`zdtun_lookup`), matched
against the lists, and either dropped or forwarded (`zdtun_forward`). When the
tun device is silent the sockets are served (`zdtun_handle_fd`), and every turn
ends with the housekeeping and, every 5 s, a purge. What changed about the
connections is sent to Java in batches every second.

| Component | State | Operations | Interacts with |
|---|---|---|---|
| zdtun connection table (`jni/zdtun.c`) | table by 5-tuple, open-socket count, select sets, UDP port mappings, per-connection status | `zdtun_lookup`, `zdtun_forward`, `zdtun_handle_fd`, `zdtun_conn_close`, `zdtun_conn_proxy`, `zdtun_purge_expired`, `zdtun_init/finalize` | calls back `send_client`, `on_connection_open/close` of vpnrelay |
| zdtun TCP relay (`jni/zdtun.c`) | sequence numbers, window, transmit queue, half-close flags | `handle_tcp_fwd`, `handle_tcp_reply`, `handle_queued_tcp_data` | the app's TCP stack through the tun device, the server through a socket |
| SOCKS5 client (`jni/socks5.c`) | handshake status | hello, user/password, connect | zdtun |
| native connection data (`jni/vpnrelay.c`) | `pd_conn_t`, `new_conns`, `conns_updates`, `pending_notification`, `to_purge` | `handle_new_connection`, `pd_process_packet`, `connection_closed`, `pd_housekeeping`, `sendConnectionsDump`, `conns_clear` | zdtun callbacks; JNI to `CaptureService.updateConnections` |
| verdicts and host cache (`jni/vpnrelay.c`, `jni/blacklist.c`, `jni/ip_lru.c`) | `to_block` and the flags it is made of, the lists in force and the slots `new_bl`, `new_wl`, `ip_to_host` | `pd_new_connection`, `process_ndpi_data`, `process_dns_reply`, `reload*` (Java threads), `pd_housekeeping` | Java list editors, the packet loop |
| malware lists (`java/Blacklists.java`, `java/Utils.java`, `java/CaptureService.java`, `jni/vpnrelay.c`) | the list files, `activePaths`, `mUpdateInProgress`, `pendingTasks`, `reload_blacklists_now`, the reload worker | `update`, `startDownload`, `checkIfFinished`, `load_new_blacklists`, `use_new_blacklists`, `onNativeLoaded` | update thread, download pool, main thread, worker thread, packet loop |
| update queue (`java/CaptureService.java`) | `mPendingUpdates` (32), `mQueueFull` | `updateConnections`, `signalServicesTermination`, `connUpdateWork` | capture thread, `mConnUpdateThread` |
| connections register (`java/ConnectionsRegister.java`) | a ring, counters, per-app statistics | `newConnections`, `connectionsUpdates`, `reset`, `resetAppsStats` | updates thread, user interface |
| capture life cycle (`java/CaptureService.java`, `CaptureHelper.java`, `activities/MainActivity.java`) | `INSTANCE`, `mCaptureThread`, `running`, the messages of the main looper, the status shown | start, stop, revoke, destroy, join | Android, capture thread, user interface |
| port map, uid resolver, log writer | small tables | add, find | packet loop |
| rules in Java (`java/model/`) | rules, grace periods | edit, store | lists |
| VPN reconnection, mitm receiver | network callbacks, a socket to the add-on | - | life cycle |
| user interface, device management (`mdm`), observers | Android widgets | - | everything, as a reader |

What is hard about them:

* **Callbacks that come back.** `send_client` may refuse a packet, and zdtun then
  closes the connection from within the function that was sending, sometimes
  from within its own close.
* **Two ends that close in either order**, with full windows, queued data and
  packets that are still in the tun device.
* **Counters at their limit**: the socket table, `pending_queries` (8 bits),
  the queue of 32 batches, the ring.
* **Pointers kept in arrays** to data that another part frees.
* **Partial failure**: sockets that do not open, JNI calls that fail half way.
* **The end of a capture**, when one thread asks another to stop through a
  queue that may be full, and the next capture may be on its way already.
* **Verdicts made of facts that come in any order**: the app, the address, the
  host name (from the cache, from DNS, from DPI) and five lists that change while
  connections live.
* **A reload in five hand-overs**: update thread, download pool, main thread,
  worker and packet loop, each with a flag that the next one reads.

What makes each part correct: the table's count and select sets are exact,
each callback is made exactly once and each connection is reclaimed; the relay
delivers both streams in order and complete, and takes no more from the server than
the client's window has room for; the
arrays never dangle and forget no change; the register shows what was last sent
and finds each connection by its id; what the lists in force match is blocked;
what Java shows as loaded is what the packet loop matches against; there is one
capture at a time, every stop ends and the status shown is right.

## Modules

| Module | Models | Its state and actions |
|---|---|---|
| `Zdtun` | the connection table | `conn` (the table), `num_open_sockets`, `udp_mappings`; history `due` (open minus close callbacks). One action per API call; `zdtun_handle_fd(t)` is the visit to one connection, as the visits touch disjoint connections. Each C function is an operator from a context (connection, socket count, mapping, callbacks due) to the set of contexts it may leave. |
| `MCZdtun` | instances | tuples as model values, all UDP tuples from one port |
| `ZdtunProofs` | theorems about `Zdtun`: types, socket count, each connection by itself, the UDP mappings | |
| `ZdtunTcp` | the data phase of one TCP connection | the app's TCP stack, the tun queue, zdtun's fields of the connection, the server; histories `guessed` (the window is still that of the SYN) and `filled` (zdtun used up the client's first window on that guess). `select` and the handler it leads to are two steps, so that packets arrive in between. |
| `TcpRelay` | what the relay promises | two byte pipes, one of which may be cut; `ZdtunTcp` implements it (property `Relayed`) |
| `ZdtunTcpProofs` | theorems about `ZdtunTcp`: types, windows, the refinement | |
| `PdConns` | connection data, notification arrays, dumps, the bounded queue | `data`, `new_conns`, `conns_updates`, `mPendingUpdates`, `mQueueFull`; histories `sent` (what Java was last told) and `failed` (a dump failed) |
| `PdConnsProofs` | theorems about `PdConns` | |
| `ConnectionsRegister` | the ring | the register is a record and each synchronized method an operator on it; histories of what was received |
| `MCConnectionsRegister` | instance | two apps |
| `ConnectionsRegisterProofs` | theorems about `ConnectionsRegister` | |
| `ConnsPipeline` | capture thread + queue + updates thread + register, and the end of a capture | extends `PdConns`, takes the register's operators by `INSTANCE`. The register is a variable of its own and its methods are applied batch by batch. |
| `MCConnsPipeline` | instance | one app |
| `ConnsPipelineProofs` | theorems about `ConnsPipeline` | extends `PdConnsProofs`, takes the lemmas of `ConnectionsRegisterProofs` by `INSTANCE` |
| `PdFirewall` | the verdict of a connection | `conns` (the fields of `pd_conn_t` that a verdict reads), `ip_to_host`, the globals `thischeck` and `domainopen`, `firewall` and `malware` with their slots; history `switched` (alive since the firewall was switched on). One action per event of the packet loop and per JNI function; a list is the set of what it matches. |
| `MCPdFirewall` | instance | two symmetric connections, one list of each kind of match |
| `PdFirewallProofs` | theorems about `PdFirewall` | |
| `BlacklistsUpdate` | a malware list from its server to the packet loop, over several captures | update threads by service instance, the tasks of the pool, the queue of the main looper, the files, the reload flag, the worker, `new_bl` and `bl`; history `unread` (a reload nobody began). A download's two steps (delete, rename) are apart, and so are the lists that the worker reads. |
| `MCBlacklistsUpdate` | instance | two lists |
| `BlacklistsUpdateProofs` | theorems about `BlacklistsUpdate` | |
| `CaptureLifecycle` | service instances, capture threads, the main thread, the system | `pc` and `owner` by capture, `mCaptureThread` by instance, `running`, `main`, `shown`. One action per step of the thread that another thread can see, and per callback of the service. |
| `CaptureLifecycleProofs` | theorems about `CaptureLifecycle` | |

Operators whose name continues that of another one (`close_socket_unguarded`
before `close_socket`) are the faults that the properties were tried
against; no specification uses them.

Abstractions. In `Zdtun` the error statuses are one `CLOSED`, as the code only
tests `status >= CONN_STATUS_CLOSED`; a socket is its connection; time is a
tick, and `idle` stops at the timeout; packets are the classes `handle_tcp_fwd`
tells apart. In `ZdtunTcp` a byte is its position in the stream and sequence numbers
go round a `SeqMod` of 20 instead of 2^32, starting next to the wrap. The window field
of a packet counts units of `Unit` bytes (2 to the window scale), rounded up from the
room the client has; the SYN's counts bytes, and `Init` shifts it too, as
`zdtun.c:1241` does. `recv()` takes bytes out of the socket (`taken`) whether or not
the client takes them (`client_takes`): it keeps the part inside its window and
answers the rest with an ACK. A hasty client resends its oldest bytes, as many as a packet
holds. In
`PdConns` a connection is its `incr_id` and its content is traffic, blocked and
closed; the dump period is left out (a dump may come at any turn). In
`PdFirewall` a host name is a model value that a list has or has not: the match of a
domain's suffixes is left out. In `BlacklistsUpdate` a file is the number of the
update that wrote it. The clients,
servers and the kernel are nondeterministic.

## Runs

| Run | Shows | Bounds |
|---|---|---|
| `zdtun_tcp` | `SocketAccounting`, `SelectSets`, `HalfClosed`, `SynAckOnce`, `UserDataAlive`, `ClosedIsFinal` | two TCP connections (direct or SOCKS5) and an ICMP one, a table of 2 sockets purged to 1: every new connection may meet a full table |
| `zdtun_udp` | `TypeOK`, `MappingNotLeaked`, liveness `Reclaimed` | two UDP connections on one source port, one of them DNS, `pending_queries` modulo 2, and a TCP one |
| `tcp_relay` | `TypeOK`, `WindowSound`, refinement `Relayed`, liveness `Downloads`, `Uploads` | 2 bytes up and 3 down, packets of 2, a client buffer of 2 and units of 2, so that zdtun first takes the window for 4; 2 packets in the tun device: the first window is overrun or not, the window closes and reopens, sends are partial, both sequence numbers wrap; a patient client and a hasty one |
| `register` | `TypeOK`, `ShowsRecent`, `FoundById`, `CountersShown` | ring of 2, batches of up to 3 and one update: partial eviction, a batch larger than the ring, updates of evicted connections, clearing by the user. The theorems hold for any number of updates in a batch |
| `conns` | `TypeOK`, `NoDangling`, `NothingForgotten`, `FreedTold`, `IdsInOrder`, liveness `ClosedFreed` | two connections, a queue of one batch (so that it overruns), lists that change, JNI failures at any item |
| `pipeline` | `ShownIsSent`, `NoGapShown`, `NothingLeft` | three connections, a queue of one batch, a ring of 3 that is reset above 2, a JVM that may fail at any item |
| `firewall` | `TypeOK`, `BlocklistEnforced`, `WhitelistEnforced`, action property `LiftedByLists` | two connections of an app, of netd or of nobody, lists that match an app and an address, a host or nothing, a malware list under which a block can be lifted and one under which it cannot, one address (so that the host cache evicts nothing: `FirewallTypeSafe` covers that), two changes: one list after another, or a list and a switch, with every order of names, packets and DNS replies in between |
| `blacklists` | `TypeOK`, `OneDownloadPerFile`, `LoadedShown`, liveness `ReloadServed`, `UpdateRecorded`, `CaptureLoads` | two lists, one of which is downloaded, two updates, two captures |
| `lifecycle` | `OneCapture`, `StatusAgrees`, liveness `StopHeard` | two captures asked for, with a revoked VPN |

A *patient* client sends its FIN when everything it sent is acknowledged and the
server is not done before; a *hasty* one may close and retransmit at any time. The
upload half of `Relayed`, `Downloads` and `Uploads` speak of the patient one, the
rest of both. `CountersShown` and `NothingForgotten` are conjunctions of what the
counters and the flag `pending_notification` have to satisfy.

The bounds are small because the properties relate one or two connections to
each other: two tuples that compete for a table of two sockets already overflow
it, one tuple more makes the forced purge choose; two connections are enough
for one to be freed while the other is pending, and three for a gap between two
that are shown. Two connections let the name of one, netd's or an app's, decide
on the other. Two updates overlap, and two captures let the end of one meet the
start of the next; a third one meets an earlier one in no new way, as a service has
one capture thread at most (the safety properties of `CaptureLifecycle` were also
checked with three, and `OneCapture` is proved for all). In `BlacklistsUpdate` a day
passes (`DayPasses`) only when nothing is under way, as a day is longer than any
download, and only before the last update of the bound, because an update that
is due and never comes would not be the code's doing.

### Disagreements between the code and its comments

Three runs each refute one statement that the code makes about itself:

| Run | Property | What happens |
|---|---|---|
| `tcp_acked_was_sent` | `AckedWasSent` | payload that comes with a FIN is acknowledged and never sent |
| `pipeline_stop_ends` | `StopEnds` (`ConnsPipeline`) | the termination request is dropped by a full queue and the capture thread waits for ever |
| `blacklists_downloaded_is_loaded` | `DownloadedIsLoaded` | the reload is asked for when the downloads were submitted, not when they ended: the downloaded lists are loaded by the next update or capture |

More of them are stated in the modules, each in the section on what the code
does not keep, and are not among the runs. To see one, name it in the
configuration of its module:

| Module | Definitions |
|---|---|
| `Zdtun` | `CallbackCalledOnce`: a refused RST closes a connection within its own close. `CallbackCalled`: a socket that cannot be opened. `MappingKept`: closing a UDP connection that was never bound takes the mapping of another. `ClientCanGoOn`: the server's FIN is read before the connect is completed. `PurgeMakesRoom`: blocked connections, with UDP tuples added. |
| `ZdtunTcp` | `HalfCloseOnly`, `StreamOnce`, `WindowReopens`, `StillAcked`: a hasty client. `NothingLost` (`zdtun.c:116` calls `window_size` the "scaled client window size"): a server that sends three bytes before the client's first ACK, as line 1241 shifts a window that is not scaled. |
| `PdConns` | `FreedInTheEnd`, `NoGap`: with `JniFails` |
| `PdFirewall` | `OpenedByOwnHost`: `thischeck` and `domainopen` are read by the check of the next connection. `WhitelistUnblocks`: `check_blocked_conn_cb` blocks a connection with one of the three flags missing, so that a new whitelist never unblocks. |
| `BlacklistsUpdate` | `OneUpdate`: `onNativeLoaded` lets a second update begin |
| `CaptureLifecycle` | `StopEnds`: a stop before `pd_run` sets `running` is lost |

The passing properties except what follows from those: `WindowSound`, the download
half of `Relayed`, `Downloads` and `Uploads` except the connections that were cut,
that is, where `filled` holds. `zdtun.c:1241` shifts the window of the SYN by its scale,
which counts bytes already (RFC 7323), so until the first ACK zdtun takes the client's
window for up to 2^scale times what it is. A server that has at least a first window
of bytes ready before that ACK has them all taken; what is beyond the window the client
drops and zdtun never resends, and the ACK of a full window leaves the socket
selectable with a window of 0, where `recv()` returns 0 and is taken for the server's
close (which drops a queued upload too). `UnscaledNothingLost` proves that a client
which scales no window is never cut.

`UserDataAlive` speaks of open connections, `MappingNotLeaked` of an upper bound, `IdsInOrder`,
`NothingForgotten`, `FreedTold`, `ShownIsSent` and `NoGapShown` hold until the JVM fails. `FreedTold` excepts the
connections whose socket could not be opened: zdtun never tells of their close
(`zdtun_forward_socket_error`), so their data may outlive the capture.
`BlocklistEnforced` and `WhitelistEnforced` except the connections that were alive
when the firewall was switched on (`nativeSetFirewallEnabled` looks at none) and
those that netd resolved before their app was known (`netd_block_missed`, which the
code reports). `OneCapture`, `StatusAgrees` and `StopHeard` hold until another app
takes the VPN: the system may then destroy a service whose thread is still in the
packet loop, and the next capture raises `running` again.

## Fairness

* `Zdtun!FairSpec`: `run_vpn` purges every 5 s and blocks for 250 ms at most, so
  `zdtun_purge_expired` and the clock are weakly fair. Clients and servers are
  not, nor is `zdtun_handle_fd`: a busy tun device may keep the sockets waiting.
* `ZdtunTcp!FairSpec`: the loop serves what `select` reports (weak fairness
  of the handlers) and drains the tun device faster than a client fills it, so
  that it finds the device empty again and again (strong fairness of `select`);
  the client reads, acknowledges (what it got, and again what it expects when it had to
  drop bytes) and retransmits.
* `PdConns!FairSpec`: the housekeeping runs on every turn of the loop, and the end of
  `run_vpn` runs to its end.
* `ConnsPipeline!PipelineFairSpec`: both threads keep running; `onDestroy` is the
  system's choice.
* `BlacklistsUpdate!Spec`: the update threads, the main looper, the worker and the
  packet loop (which wakes up at least every `SELECT_TIMEOUT`) keep running, and each
  download ends, well or badly, as its connection has time-outs. Starting and
  stopping captures and asking for updates is nobody's duty.
* `CaptureLifecycle!Spec`: each capture thread goes on, except that a packet loop
  whose flag is up need not end; the main looper runs, and the system passes an
  intent on. Nobody has to stop a capture, and the system need not destroy a service.

## Proofs

`ZdtunProofs` proves, for every set of tuples and all limits that satisfy
`TuplesAssumption` and `LimitsAssumption` of `Zdtun`:

* `TypeSafe`: `Spec => []TypeOK`;
* `SocketAccountingSafe`: `Spec => []SocketAccounting`.

`SocketAccounting` is not inductive alone: a handler that opened a second socket
for a connection, or closed one that is already closed, would break it, so the
invariant (`IInv`) adds `TypeOK` and says of every connection that a socket
belongs to an open one which is past NEW, the only status in which `open_socket` is
called. The argument is made once per C function, on the context the function
works on: `Loose` and `Fit` say that the context agrees with the number of
sockets of the *other* connections, and each lemma (`ClosedFit`, `TcpFwdFit`,
`UdpReplyFit`, ...) that the function keeps it. `LeavesIInv` carries that from the
context back to the table with the library's theorems about the cardinality of
finite sets, `DestroyConsistent` and `PurgedConsistent` do the same for the set of
connections that a purge destroys at once, and `NextIInv` has one case per action.

It proves also what a connection keeps by itself, from the same two assumptions: `SelectSetsSafe`, `HalfClosedSafe`, `SynAckOnceSafe`, `UserDataSafe`
(`Spec => []SelectSets` and so on) and the action property `ClosedFinal`
(`Spec => ClosedIsFinal`). None of them is inductive alone, and they are so
together: `Sound` joins what `select` waits on (`Waits`), how far the connection is
with its client (`Shaken`), and that nothing is queued and no proxy session exists
before CONNECTED (`Early`), without which the SYN+ACK of a socket that connects could
be a second one or leave the socket in `write_fds`. `Good` is `Sound` of a
context, with the one callback due while it is open. In the middle of a
handler a connection need not be `Sound`, and may still be closed there, so
`ClosedGood` asks for less (`Closable`).

Last comes `MappingSafe`: `Spec => []MappingNotLeaked`. A handler
sees the mapping of its port and one of the connections that share it, so `Mapped`
bounds the uses by the *other* bound connections plus this one; TCP and ICMP
handlers leave the uses alone, and `DestroyMapped` compares the connections a purge
unbinds with the uses it takes back.

`ZdtunTcpProofs` proves, for streams, packets, buffers and device queues of any
length, any window scale and any initial sequence numbers that satisfy `TcpAssumption`
(the sequence space is more than twice what a stream and a shifted buffer take):

* `TcpTypeSafe`: `Spec => []TypeOK`;
* `WindowSoundSafe`: `Spec => []WindowSound`;
* `RelayImplemented`: `Spec => Relayed`, the refinement of `TcpRelay`;
* `UnscaledNothingLost`: with `Unit = 1`, `Spec => [](NothingLost /\ ~filled)`.

`WindowSound` needs the packets that wait: each tells a right edge, and the edges
(`Edges`) grow along the device's queue, from zdtun's window to the client's. Before
the first ACK zdtun's window is no bound, and the edge of the SYN takes its place
(`Floor`): it stays above what zdtun took exactly as long as `filled` is false. Lemma
`Distance` is the arithmetic, that `in_flight` is exact wherever it wraps. The
refinement needs two more invariants. `Readiness`: a selectable socket has a window
of more than 0, which is again the growth of the edges, so `recv() = 0` is the server's
close and the client gets a FIN only after every byte, unless the download was cut. `Scaling`
(only a scaled window is ever guessed) lets the abstract cut happen to scaled clients only. `Pipe`, for a patient client:
what the server got, the transmit queue and the packets that wait are consecutive parts
of its stream (`Stream`, `Waiting`); `Accepted` shows that the two tests of
`handle_tcp_fwd`, modulo `SeqMod`, take payload at its position only, never as a
keep-alive, and `AckIs` that an acknowledgment is never of more than the server got.

`PdConnsProofs` proves, for any number of connections, any queue and any failure of
the JVM:

* `ConnsTypeSafe`: `Spec => []TypeOK`, with the bound of the queue;
* `NoDanglingSafe`, `NothingForgottenSafe`, `FreedToldSafe`: `Spec => []NoDangling`,
  `Spec => []NothingForgotten` and `Spec => []FreedTold`;
* `IdsInOrderSafe`: `Spec => []IdsInOrder`.

A dump empties both arrays at once, so its invariant (`IInv`) speaks of them as of
the set `Listed`, with `AppendSet` and `ConcatSet` between sequences and sets:
who is listed is alive, pending and listed once (`Arrays`), nobody exists before
`new_conn_id` reached it (`Fresh`). `FreedTold` needs `ClosedPending` besides: what
is closed stays pending until it is freed, also after the queue was found full and
Java is told no more, or the last dump could leave some behind. `IdsInOrder` is
about the ids in the queue, across batches. It becomes inductive with a number (`Ordered`):
all ids below it were handed over, the queued ones end there without a gap
(`EndsBelow`), and `new_conns` goes on from there (`Ahead`). What a dump and the updates
thread do to the ids of a queue of batches is in `NewIdsAppend` and `NewIdsTail`.

`ConnectionsRegisterProofs` proves, for a ring of any size, batches of any
length and any users, `RegisterTypeSafe`, `ShowsRecentSafe`, `FoundByIdSafe` and
`CountersShownSafe` (`Spec => []TypeOK` and so on). It reads the ring as a sequence,
`Conns`: from the tail on, round the end of the array. The invariant says that its shape
is that of a ring (`Shape`), that it ends with the number of connections ever added, so
that its ids have no gap (`EndsAt`), that each app's counter is the sum over the
connections it was counted for (`Covered`, `Exact`, over `SumOf`), and that `Conns` is the
history of what was received. The methods loop over a batch, so their lemmas
(`AddAllDoes`, `UpdatesDo`) go by induction over the number of items done. The induction
theorems of the library cannot be used here, so it is spelled out: the least
number for which a fact fails (`WFMin`, `NatLessThanWellFounded`) is neither 0 nor the
successor of one for which it holds.

`ConnsPipelineProofs` proves that the two components keep their promises
together: `NothingLeftSafe`, `NoGapShownSafe` and `ShownIsSentSafe`
(`PipelineSpec => []NothingLeft` and so on). Its assumption, `PipelineAssumption`, only says that the
ring has a size and that a termination request is not a batch. The queue is a row of
batches and then termination requests (`Plain`); every batch begins with the id that
the one before ended with (`Lined`), and the ring ends where the first one begins
(`ShownTo`), whence there is no gap. The last word about a connection is in the queue, or
nowhere in it, and then the ring shows it (`LastWord`, `ShownLatest`): a later batch never holds
older content. While the capture thread is native the invariants of
`PdConnsProofs` hold as they are; once it left, the queue loses its head or gets a
request and nothing else. The lemmas of the register are taken by `INSTANCE`, with
`RegisterAssumed` for its assumption.

Three more theorems say that the parts behave in the whole as their own modules
assume, so that what is proved of each alone is true of the app:

* `NativeKeptSafe`: `PipelineSpec => NativeKept`. With the batches of the queue for its
  queue (`Batched`), the whole implements `PdConns!Spec`: a batch that leaves is `take`,
  a termination request and the end of the capture thread are stuttering.
* `RegisterFedSafe`: `PipelineSpec => RegisterFed`. Until the JVM fails, each batch
  that the updates thread takes is a `Receive` of `ConnectionsRegister`, under a mapping
  (`Given`, `Ring`) that computes that module's histories from the queue and the ring:
  the new ids go on where those before ended, an update is of a connection that the
  register was given, once in a batch, and takes no traffic back.
* `CountersAgreeSafe`: `PipelineSpec => []CountersAgree`, the counters of the register
  in the whole, from the invariant of `ConnectionsRegisterProofs`.

The second needs what `ShownIsSent` does not: the traffic of a connection only
grows on its way. `Growing` compares any two items of the queue, the ring with every
item, and all of them with what was sent; `DataAhead` says that the native data is
never behind that while Java still takes batches. `GivenIs` is the count: the
connections sent, but for the ones that are new in the queue, are those below the id at
which the first batch begins. These three are proved and not among the runs; the runs of
`PdConns` and `ConnectionsRegister` check on their own what the theorems carry over.

`PdFirewallProofs` proves, for all connections, apps, addresses, hosts and
lists that satisfy `PdFirewallAssumption`:

* `FirewallTypeSafe`: `Spec => []TypeOK`, with the bound and the uniqueness of the host
  cache;
* `FirewallEnforcedSafe`, `FirewallWhitelistSafe`: `Spec => []BlocklistEnforced` and
  `Spec => []WhitelistEnforced`;
* `FirewallVerdictStays`: `Spec => LiftedByLists`.

The two enforcement properties are inductive together, over one connection
(`Enforced`): each function that judges has a lemma on what it keeps, what verdict
it gives and what it leaves alone, and a step either leaves match and verdict of
a connection as they are or judges it anew. The action property follows from the
same lemmas: all functions but the re-check only add to `to_block`.

`BlacklistsUpdateProofs` proves `BlacklistsTypeSafe`, `OneDownloadSafe` and
`LoadedShownSafe`, for any distinct lists, one update at least and any number of captures.
The types bound the number of callbacks an update still waits for
(`pending`): every callback that is still due, of a download, in the queue of the
main thread or of a list the updater has yet to go through, was counted (`Counted`,
`Tallied`), and the lists are distinct. `OneDownload` is inductive with `Paths`: the file of a download is in `activePaths`. `LoadedShown`
needs the queue of the main thread: the *last* message of the native code that still
waits says what the packet loop has, and when none waits Java already shows it
(`Told`); three lemmas say what the queue does to that (a message of another kind,
a message of the native code, the head leaves).

`CaptureLifecycleProofs` proves `OneCaptureSafe` and `StatusAgreesSafe`. An instance of the service does
not know the threads of the ones before it, so the invariant says who does:
until a thread lets `mCaptureThread` go, the instance that started it has it
there (`Owned`), and that is the newest instance, not destroyed, as long as the VPN
is up (`Current`), because the system is bound to it. Two threads in the native
code are then both the one of the newest instance. The second adds `Shown`, about the
queue of the main looper: a capture that runs is shown or its STARTED waits, and
whatever is shown or waits to be has a STOPPED behind it, or a thread or message that
will post one. A STOPPED that overtakes finds `isServiceActive` and takes the flag
down, which nothing raises again while that thread is in the native code.

Every safety invariant, action property and refinement that a run checks is
also stated by a theorem. Only model-checked: all liveness (`Reclaimed`, `Downloads`,
`Uploads`, `ClosedFreed`, `ReloadServed`, `UpdateRecorded`, `CaptureLoads`,
`StopHeard`), as the prover has neither fairness nor ENABLED; and that the
statements of the section on disagreements fail, which a counterexample shows.

## Not modelled

Parsing, header building, DPI (nDPI) and DNS parsing: what they find is an input of
`PdFirewall`. SOCKS5 at byte level; out of memory; how rules are stored, parsed and
matched (a domain against its suffixes, prefixes of addresses); the decryption
list; cancelled downloads; grace periods; the reconnection after a revoked VPN; root
captures and pcap files (the native dumper is commented out); the uid resolver; the
mitm add-on, whose protocol is outside of this repository; the Android user
interface and device management. Around the lists: `Blacklists.onNativeLoaded`
also adds a host to the malware whitelist, or removes it, and asks for its reload, as a
user's edit would (`PdFirewall` has that reload at any time, `BlacklistsUpdate` leaves
it out); `CaptureService.requestBlacklistsUpdate` wakes the updates thread with an empty
batch, which takes a place in the queue and which the register ignores
(`ConnsPipeline` has no empty batches); and
`PCAPdroid.refreshBlacklists`, which device management calls, replaces the object that
holds the set of lists, possibly during a capture (the lists are a constant of
`BlacklistsUpdate`, which therefore says nothing of a capture that spans such a call).
Most of the repository's lines are the vendored
nDPI and Android screens, so the mapped share of all lines stays small although the
capture core is covered: of `zdtun.c` and `vpnrelay.c` what is left is packet
building, checksums, logging, statistics and JNI set-up.

## Plan

Done: `Zdtun`, `ZdtunTcp` and `TcpRelay`, `ConnectionsRegister`, `PdConns`,
`ConnsPipeline`, `PdFirewall`, `BlacklistsUpdate`, `CaptureLifecycle`, and the proof
modules, the ones of the register and of the pipeline included. Next, in this order:

1. `Socks5`: the handshake, with `Zdtun`'s outcomes as its abstract
   specification.
2. `VpnReconnect` (network callbacks against its timeout) composed with
   `CaptureLifecycle`, and `Blocklist` (grace periods and the reload they post)
   with `PdFirewall`'s slots.
