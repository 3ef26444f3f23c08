----------------------------- MODULE PdFirewall -----------------------------
(***************************************************************************)
(* Which connections the packet loop blocks (vpnrelay.c): the verdict of a *)
(* new connection, what the DPI adds to it when it learns the host name,   *)
(* and the lists it is taken from.  The JNI functions, called by the main  *)
(* thread of the app, leave a new list in a slot (new_bl, new_wl); the     *)
(* packet loop takes it in pd_housekeeping and checks the active           *)
(* connections again.                                                      *)
(*                                                                         *)
(* A list (blacklist_t) is the set of the uids, addresses and hosts that   *)
(* match it.  In the malware lists of this program what matches is allowed *)
(* and what does not is blocked.                                           *)
(***************************************************************************)
EXTENDS Naturals, Sequences

CONSTANTS
  Conns,        \* the connections of the tunnel
  Apps,         \* uids of apps
  Netd,         \* UID_NETD, and UID_PHONE: they resolve names for the apps
  UidUnknown,   \* UID_UNKNOWN
  Ips, Hosts,
  Births,       \* the <<uid, is_dns>> a connection may have
  NoHost,       \* data->info is NULL
  Null,         \* no list
  Blocklists,   \* the lists the user may set, each a set of matches
  Whitelists,
  MalwareLists,
  MalwareWhitelists,
  MaxLru,       \* MAX_HOST_LRU_SIZE (256)
  MaxEdits      \* bound: lists and switches set by the user, reloads

Uids == Apps \union {Netd, UidUnknown}
Matches == Uids \union Ips \union Hosts

ASSUME PdFirewallAssumption ==
  /\ Netd \notin Apps /\ UidUnknown \notin Apps /\ Netd # UidUnknown
  /\ NoHost \notin Hosts
  /\ Births \subseteq Uids \X BOOLEAN
  /\ Blocklists \union Whitelists \subseteq SUBSET Matches
  /\ MalwareLists \union MalwareWhitelists \subseteq SUBSET Matches
  /\ Null \notin Blocklists \union Whitelists \union MalwareLists \union MalwareWhitelists
  /\ Ips # {}
  /\ MaxLru \in Nat \ {0} /\ MaxEdits \in Nat

VARIABLES
  conns,       \* the pd_conn_t of each connection
  ip_to_host,  \* pd->ip_to_host, the least recently used first
  thischeck,   \* the flags of the host check of a new connection
  domainopen,
  firewall,    \* pd->firewall
  malware,     \* pd->malware_detection
  edits,       \* number of changes so far
  switched     \* history: alive since the firewall was switched on

vars == <<conns, ip_to_host, thischeck, domainopen, firewall, malware, edits, switched>>

-----------------------------------------------------------------------------
(* new says that the connection is still in pd->new_conns, sent that a      *)
(* packet of it went out (sent_pkts # 0).                                  *)
Conn == [alive: BOOLEAN, new: BOOLEAN, sent: BOOLEAN, uid: Uids, ip: Ips, dns: BOOLEAN,
         info: Hosts \union {NoHost}, from_lru: BOOLEAN, whitelisted_app: BOOLEAN,
         blacklisted_internal: BOOLEAN, blacklisted_ip: BOOLEAN,
         blacklisted_domain: BOOLEAN, to_block: BOOLEAN, netd_block_missed: BOOLEAN]

NewConn(uid, ip, dns, host) ==
  [alive |-> TRUE, new |-> TRUE, sent |-> FALSE, uid |-> uid, ip |-> ip, dns |-> dns,
   info |-> host, from_lru |-> host # NoHost, whitelisted_app |-> FALSE,
   blacklisted_internal |-> FALSE, blacklisted_ip |-> FALSE,
   blacklisted_domain |-> FALSE, to_block |-> FALSE, netd_block_missed |-> FALSE]

NoConn == [NewConn(UidUnknown, CHOOSE ip \in Ips : TRUE, FALSE, NoHost)
             EXCEPT !.alive = FALSE, !.new = FALSE]

Active == {c \in Conns : conns[c].alive}

Init ==
  /\ conns = [c \in Conns |-> NoConn]
  /\ ip_to_host = <<>>
  /\ thischeck = FALSE /\ domainopen = FALSE
  /\ firewall \in [enabled: BOOLEAN, wl_enabled: {FALSE},
                   bl: {Null}, new_bl: {Null}, wl: {Null}, new_wl: {Null}]
  /\ malware \in [bl: MalwareLists \union {Null}, whitelist: {Null}, new_wl: {Null}]
  /\ edits = 0
  /\ switched = {}

(***************************************************************************)
(* The cache of host names: found or set, an entry becomes the newest.     *)
(***************************************************************************)
Cached(ip) == \E i \in DOMAIN ip_to_host : ip_to_host[i].ip = ip

At(ip) == CHOOSE i \in DOMAIN ip_to_host : ip_to_host[i].ip = ip

HostOf(ip) == IF Cached(ip) THEN ip_to_host[At(ip)].host ELSE NoHost

Others(ip) ==
  IF Cached(ip) THEN SubSeq(ip_to_host, 1, At(ip) - 1)
                       \o SubSeq(ip_to_host, At(ip) + 1, Len(ip_to_host))
  ELSE ip_to_host

Touched(ip, host) == Append(Others(ip), [ip |-> ip, host |-> host])

ip_lru_find(ip) ==
  ip_to_host' = IF Cached(ip) THEN Touched(ip, HostOf(ip)) ELSE ip_to_host

ip_lru_add_twice(ip, host) ==
  ip_to_host' = LET l == Append(ip_to_host, [ip |-> ip, host |-> host])
                IN IF Len(l) > MaxLru THEN Tail(l) ELSE l

ip_lru_add(ip, host) ==
  ip_to_host' = IF Len(Touched(ip, host)) > MaxLru
                THEN Tail(Touched(ip, host)) ELSE Touched(ip, host)

(* Only a query that was sent has a reply.                                  *)
process_dns_reply(c, ip, host) ==
  /\ conns[c].alive /\ conns[c].dns /\ conns[c].sent
  /\ ip_lru_add(ip, host)
  /\ UNCHANGED <<conns, thischeck, domainopen, firewall, malware, edits, switched>>

(***************************************************************************)
(* The verdicts.  d is the data of a connection, f the firewall.           *)
(***************************************************************************)
MatchesHost(list, d) == d.info # NoHost /\ d.info \in list

Blocklisted(f, d) ==
  f.bl # Null /\ (d.uid \in f.bl \/ d.ip \in f.bl \/ MatchesHost(f.bl, d))

Unspecified(d) == d.dns /\ d.uid \in {Netd, UidUnknown}

NotWhitelisted(f, d) ==
  f.wl_enabled /\ f.wl # Null /\ ~Unspecified(d) /\ d.uid \notin f.wl

check_whitelist_mode_block(f, d) ==
  [d EXCEPT !.to_block = \/ d.to_block
                         \/ f.enabled /\ NotWhitelisted(f, d)
                         \/ d.uid = UidUnknown]

check_blocked_conn_cb(f, d) ==
  check_whitelist_mode_block(f,
    [d EXCEPT !.to_block =
       \/ ~d.blacklisted_internal \/ ~d.blacklisted_ip \/ ~d.blacklisted_domain
       \/ f.enabled /\ Blocklisted(f, d)])

(* Only used when the malware whitelist is set.                             *)
check_blacklisted_conn_cb(f, whitelist, d) ==
  LET app == d.uid \in whitelist
      unip == d.blacklisted_ip /\ (app \/ d.ip \in whitelist)
      undomain == d.blacklisted_domain /\ (app \/ d.info \in whitelist)
      d1 == [d EXCEPT !.whitelisted_app = app,
                      !.blacklisted_ip = @ /\ ~unip,
                      !.blacklisted_domain = @ /\ ~undomain]
  IN IF (unip \/ undomain) /\ f.bl # Null THEN check_blocked_conn_cb(f, d1) ELSE d1

(* check_blacklisted_domain: does the malware list look at the host?  Does  *)
(* it allow it?                                                             *)
HostChecked(d) ==
  d.info # NoHost /\ malware.bl # Null /\ ~d.blacklisted_domain /\ ~d.whitelisted_app

HostAllowed(d) ==
  d.info \in malware.bl \/ (malware.whitelist # Null /\ d.info \in malware.whitelist)

check_blacklisted_domain_malware_only(d) ==
  LET bad == HostChecked(d) /\ ~HostAllowed(d)
  IN [d EXCEPT !.blacklisted_domain = @ \/ bad, !.to_block = @ \/ bad]

check_blacklisted_domain_anew(d) ==
  LET bad == HostChecked(d) /\ ~HostAllowed(d)
  IN [d EXCEPT !.blacklisted_domain = @ \/ bad,
               !.to_block = \/ bad
                            \/ firewall.enabled /\ firewall.bl # Null /\ MatchesHost(firewall.bl, d)]

check_blacklisted_domain(d) ==
  LET bad == HostChecked(d) /\ ~HostAllowed(d)
  IN [d EXCEPT !.blacklisted_domain = @ \/ bad,
               !.to_block = \/ @ \/ bad
                            \/ firewall.enabled /\ firewall.bl # Null /\ MatchesHost(firewall.bl, d)]

(* What check_blacklisted_domain leaves in the two flags.                   *)
domainopen_after(d, this) ==
  IF HostChecked(d) THEN HostAllowed(d) /\ this ELSE domainopen

thischeck_after(d, this) == this /\ ~(HostChecked(d) /\ HostAllowed(d))

-----------------------------------------------------------------------------
(* The address is checked unless the host of this connection (or a flag    *)
(* that another one left) opens it.                                        *)
check_ip(d, open) ==
  LET bad == /\ malware.bl # Null /\ ~d.whitelisted_app
             /\ d.ip \notin malware.bl /\ ~open
             /\ ~(malware.whitelist # Null /\ d.ip \in malware.whitelist)
  IN [d EXCEPT !.blacklisted_ip = @ \/ bad, !.to_block = @ \/ bad]

check_firewall(d) ==
  check_whitelist_mode_block(firewall,
    [d EXCEPT !.to_block =
       @ \/ (firewall.enabled /\ firewall.bl # Null
             /\ (d.ip \in firewall.bl \/ d.uid \in firewall.bl))])

(* A name was resolved by netd for the app that now connects to it: the     *)
(* pending connections of netd to that name become the app's.  netd_missed  *)
(* is the verdict that comes too late for them.                             *)
netd_missed_blocklist_only(uid, e) ==
  ~e.to_block /\ firewall.enabled /\ firewall.bl # Null /\ uid \in firewall.bl

netd_missed(uid, e) ==
  /\ ~e.to_block /\ firewall.enabled /\ firewall.bl # Null
  /\ uid \in firewall.bl \/ (firewall.wl_enabled /\ firewall.wl # Null /\ uid \notin firewall.wl)

netd_resolved(uid, host, e) ==
  IF host # NoHost /\ uid # UidUnknown
     /\ e.alive /\ e.new /\ e.uid = Netd /\ e.info = host
  THEN [e EXCEPT !.uid = uid, !.netd_block_missed = @ \/ netd_missed(uid, e)]
  ELSE e

pd_new_connection(c, uid, ip, dns) ==
  /\ ~conns[c].alive
  /\ LET host == HostOf(ip)
         whitelisted == malware.whitelist # Null /\ uid \in malware.whitelist
         d0 == [NewConn(uid, ip, dns, host) EXCEPT !.whitelisted_app = whitelisted]
         d1 == netd_resolved(uid, host, d0)
         this == thischeck \/ host # NoHost
         d2 == check_blacklisted_domain(d1)
         d3 == check_ip(d2, domainopen_after(d1, this))
     IN /\ conns' = [e \in Conns |-> IF e = c THEN check_firewall(d3)
                                     ELSE netd_resolved(uid, host, conns[e])]
        /\ thischeck' = thischeck_after(d1, this)
        /\ domainopen' = IF malware.bl # Null /\ ~whitelisted THEN FALSE
                         ELSE domainopen_after(d1, this)
  /\ ip_lru_find(ip)
  /\ UNCHANGED <<firewall, malware, edits, switched>>

(* The DPI looks at a packet: it may find the host, and the connection may  *)
(* be one the VPN itself does not let through (QUIC, a private DNS server,  *)
(* a DNS server that is not the internal one).  The packet goes out unless  *)
(* the connection is blocked now.                                          *)
Found(d, found) == found # NoHost /\ (d.info = NoHost \/ d.from_lru)

Learned(d, found) == [d EXCEPT !.info = found, !.from_lru = FALSE]

vpn_process_ndpi(d, internal) ==
  [d EXCEPT !.blacklisted_internal = @ \/ internal,
            !.to_block = @ \/ internal,
            !.sent = @ \/ ~(d.to_block \/ internal)]

process_ndpi_data(c, found, internal) ==
  /\ conns[c].alive
  /\ LET d == conns[c]
         d1 == IF Found(d, found) THEN Learned(d, found) ELSE d
         d2 == IF Found(d, found) THEN check_blacklisted_domain(d1) ELSE d
     IN /\ conns' = [conns EXCEPT ![c] = vpn_process_ndpi(d2, internal)]
        /\ thischeck' = IF Found(d, found) THEN thischeck_after(d1, thischeck) ELSE thischeck
        /\ domainopen' = IF Found(d, found) THEN domainopen_after(d1, thischeck) ELSE domainopen
  /\ UNCHANGED <<ip_to_host, firewall, malware, edits, switched>>

connection_closed(c) ==
  /\ conns[c].alive
  /\ conns' = [conns EXCEPT ![c] = NoConn]
  /\ switched' = switched \ {c}
  /\ UNCHANGED <<ip_to_host, thischeck, domainopen, firewall, malware, edits>>

(***************************************************************************)
(* pd_housekeeping takes the lists that wait in the slots, a blocklist     *)
(* before a whitelist.  dump says that the dump of the connections is due; *)
(* only if not may a malware list that was loaded (bl) be put to use.      *)
(***************************************************************************)
WhitelistLoaded(f) ==
  IF malware.new_wl = Null THEN conns
  ELSE [c \in Conns |-> IF conns[c].alive
                        THEN check_blacklisted_conn_cb(f, malware.new_wl, conns[c])
                        ELSE conns[c]]

FirewallLoaded(f) ==
  IF f.new_bl # Null THEN [f EXCEPT !.bl = f.new_bl, !.new_bl = Null]
  ELSE IF f.new_wl # Null THEN [f EXCEPT !.wl = f.new_wl, !.new_wl = Null]
  ELSE f

Checked(f, cs) ==
  IF f = firewall THEN cs
  ELSE [c \in Conns |-> IF cs[c].alive THEN check_blocked_conn_cb(f, cs[c]) ELSE cs[c]]

Dumped(dump, cs) == [c \in Conns |-> [cs[c] EXCEPT !.new = @ /\ ~dump]]

pd_housekeeping(dump, bl) ==
  /\ dump => bl = malware.bl
  /\ firewall' = FirewallLoaded(firewall)
  /\ conns' = Checked(firewall', Dumped(dump, WhitelistLoaded(firewall)))
  /\ malware' = [bl |-> bl, new_wl |-> Null,
                 whitelist |-> IF malware.new_wl # Null THEN malware.new_wl ELSE malware.whitelist]
  /\ edits' = IF bl = malware.bl THEN edits ELSE edits + 1
  /\ switched' = IF firewall' = firewall THEN switched ELSE {}
  /\ UNCHANGED <<ip_to_host, thischeck, domainopen>>

(***************************************************************************)
(* The JNI functions.  A slot that is still full refuses a new list.       *)
(***************************************************************************)
Edit == edits < MaxEdits /\ edits' = edits + 1

reloadBlocklist(list) ==
  /\ Edit
  /\ firewall' = IF firewall.new_bl # Null THEN firewall ELSE [firewall EXCEPT !.new_bl = list]
  /\ UNCHANGED <<conns, ip_to_host, thischeck, domainopen, malware, switched>>

reloadFirewallWhitelist(list) ==
  /\ Edit
  /\ firewall' = IF firewall.new_wl # Null THEN firewall
                 ELSE IF list = Null THEN [firewall EXCEPT !.wl_enabled = FALSE]
                 ELSE [firewall EXCEPT !.new_wl = list, !.wl_enabled = TRUE]
  /\ switched' = IF firewall'.wl_enabled /\ ~firewall.wl_enabled THEN Active ELSE switched
  /\ UNCHANGED <<conns, ip_to_host, thischeck, domainopen, malware>>

reloadMalwareWhitelist(list) ==
  /\ Edit
  /\ malware' = IF malware.new_wl # Null THEN malware ELSE [malware EXCEPT !.new_wl = list]
  /\ UNCHANGED <<conns, ip_to_host, thischeck, domainopen, firewall, switched>>

nativeSetFirewallEnabled(enabled) ==
  /\ Edit
  /\ firewall' = [firewall EXCEPT !.enabled = enabled]
  /\ switched' = IF enabled /\ ~firewall.enabled THEN Active ELSE switched
  /\ UNCHANGED <<conns, ip_to_host, thischeck, domainopen, malware>>

-----------------------------------------------------------------------------
housekeeping ==
  \E dump \in BOOLEAN, bl \in MalwareLists \union {malware.bl} :
    /\ bl = malware.bl \/ edits < MaxEdits
    /\ pd_housekeeping(dump, bl)

Next ==
  \/ \E c \in Conns :
       \/ \E b \in Births, ip \in Ips : pd_new_connection(c, b[1], ip, b[2])
       \/ \E found \in Hosts \union {NoHost}, internal \in BOOLEAN :
            process_ndpi_data(c, found, internal)
       \/ \E ip \in Ips, host \in Hosts : process_dns_reply(c, ip, host)
       \/ connection_closed(c)
  \/ housekeeping
  \/ \E list \in Blocklists : reloadBlocklist(list)
  \/ \E list \in Whitelists \union {Null} : reloadFirewallWhitelist(list)
  \/ \E list \in MalwareWhitelists : reloadMalwareWhitelist(list)
  \/ \E enabled \in BOOLEAN : nativeSetFirewallEnabled(enabled)

Spec == Init /\ [][Next]_vars

-----------------------------------------------------------------------------
(* The host cache: no more names than MAX_HOST_LRU_SIZE, one per address.  *)
CacheOK ==
  /\ ip_to_host \in Seq([ip: Ips, host: Hosts])
  /\ Len(ip_to_host) <= MaxLru
  /\ \A i, j \in DOMAIN ip_to_host : ip_to_host[i].ip = ip_to_host[j].ip => i = j

(* Shapes of the state: the data of a connection, the cache, the lists in  *)
(* force and in the slots.                                                 *)
TypeOK ==
  /\ conns \in [Conns -> Conn]
  /\ CacheOK
  /\ {thischeck, domainopen} \subseteq BOOLEAN
  /\ firewall \in [enabled: BOOLEAN, wl_enabled: BOOLEAN,
                   bl: Blocklists \union {Null}, new_bl: Blocklists \union {Null},
                   wl: Whitelists \union {Null}, new_wl: Whitelists \union {Null}]
  /\ malware \in [bl: MalwareLists \union {Null},
                  whitelist: MalwareWhitelists \union {Null},
                  new_wl: MalwareWhitelists \union {Null}]
  /\ edits \in 0 .. MaxEdits
  /\ switched \subseteq Conns

(* A connection that the blocklist in force matches, by app, address or    *)
(* host, is blocked, or is known as one that netd's name kept from being   *)
(* blocked: whatever the order in which the list, the host name, the app   *)
(* and a whitelist became known.  Only connections older than the last     *)
(* time the firewall was switched on escape, until the next list.          *)
BlocklistEnforced ==
  firewall.enabled =>
    \A c \in Active \ switched :
      Blocklisted(firewall, conns[c]) => conns[c].to_block \/ conns[c].netd_block_missed

(* In whitelist mode a connection of an app that the whitelist in force    *)
(* does not name is blocked, or known as missed; names that netd or nobody *)
(* asks for are exempt.                                                    *)
WhitelistEnforced ==
  firewall.enabled /\ firewall.bl # Null =>
    \A c \in Active \ switched :
      NotWhitelisted(firewall, conns[c]) => conns[c].to_block \/ conns[c].netd_block_missed

(* The verdict of a living connection is lifted by nothing but a new list; *)
(* no packet, no host name and no switch unblocks it.                      *)
Lifted(c) == conns[c].alive /\ conns[c].to_block /\ conns'[c].alive /\ ~conns'[c].to_block

LiftedByLists ==
  [][(\E c \in Conns : Lifted(c)) => firewall' # firewall \/ malware'.whitelist # malware.whitelist]_vars

-----------------------------------------------------------------------------
(* What the code says of itself, and does not keep. *)

(* "only true domainopen here. not in all use of domain check"             *)
(* (vpnrelay.c:1147): the address of a new connection is let through the   *)
(* malware check only by itself or by the host of that connection, not by  *)
(* what the check of another one left in thischeck and domainopen.         *)
IpAllowed(ip) == ip \in malware.bl \/ (malware.whitelist # Null /\ ip \in malware.whitelist)

OpenedByOwnHost ==
  [][malware.bl # Null =>
       \A c \in Conns :
         ~conns[c].alive /\ conns'[c].alive
           => \/ conns'[c].to_block \/ conns'[c].whitelisted_app
              \/ IpAllowed(conns'[c].ip) \/ HostAllowed(conns'[c])]_vars

(* "Check the active (blacklisted) connections to possibly whitelist (and  *)
(* unblock) them" (vpnrelay.c:2233).  check_blocked_conn_cb blocks what has *)
(* one of the three flags missing, so no malware whitelist ever unblocks.  *)
Blameless(f, d) ==
  /\ ~d.blacklisted_internal /\ ~d.blacklisted_ip /\ ~d.blacklisted_domain
  /\ ~Blocklisted(f, d) /\ ~NotWhitelisted(f, d) /\ d.uid # UidUnknown

WhitelistUnblocks ==
  [][malware.new_wl # Null /\ malware'.new_wl = Null =>
       \A c \in Conns : conns'[c].alive /\ Blameless(firewall', conns'[c]) => ~conns'[c].to_block]_vars
=============================================================================
