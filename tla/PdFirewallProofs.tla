-------------------------- MODULE PdFirewallProofs --------------------------
(***************************************************************************)
(* Proofs about PdFirewall for any connections, apps, addresses, hosts and *)
(* lists: the variables keep their types (the host cache is bounded and    *)
(* has one entry per address), and the blocklist and the whitelist in      *)
(* force are enforced.                                                     *)
(*                                                                         *)
(* Each function that judges a connection gets a lemma that says what it   *)
(* keeps: the type, the verdict it gives, and what it leaves alone.  The   *)
(* invariant is Enforced for one connection; a step either leaves its      *)
(* match and verdict, or judges it anew.                                   *)
(***************************************************************************)
EXTENDS PdFirewall, SequenceTheorems, TLAPS

(* The lists in force, as a record that both Blocklisted and               *)
(* NotWhitelisted can be asked about.                                      *)
Firewalls == [enabled: BOOLEAN, wl_enabled: BOOLEAN,
              bl: Blocklists \union {Null}, new_bl: Blocklists \union {Null},
              wl: Whitelists \union {Null}, new_wl: Whitelists \union {Null}]

Malwares == [bl: MalwareLists \union {Null},
             whitelist: MalwareWhitelists \union {Null},
             new_wl: MalwareWhitelists \union {Null}]

Stopped(d) == d.to_block \/ d.netd_block_missed

(* What f asks of a living connection with data d.                         *)
Enforced(f, d) ==
  f.enabled =>
    /\ Blocklisted(f, d) => Stopped(d)
    /\ f.bl # Null /\ NotWhitelisted(f, d) => Stopped(d)

(* -------------------------------------------------------- the host cache *)
Entries == [ip: Ips, host: Hosts]

LEMMA AtInDomain ==
  ASSUME NEW ip, Cached(ip)
  PROVE  At(ip) \in DOMAIN ip_to_host /\ ip_to_host[At(ip)].ip = ip
BY DEF Cached, At

LEMMA OthersOK ==
  ASSUME NEW ip \in Ips, CacheOK
  PROVE  /\ Others(ip) \in Seq(Entries)
         /\ Cached(ip) => Len(Others(ip)) = Len(ip_to_host) - 1
         /\ ~Cached(ip) => Others(ip) = ip_to_host
         /\ \A i, j \in 1 .. Len(Others(ip)) :
              Others(ip)[i].ip = Others(ip)[j].ip => i = j
         /\ \A i \in 1 .. Len(Others(ip)) : Others(ip)[i].ip # ip
<1>1. CASE ~Cached(ip)
  BY <1>1 DEF Others, CacheOK, Entries, Cached
<1>2. CASE Cached(ip)
  <2> DEFINE k == At(ip)  l == ip_to_host  n == Len(ip_to_host)
             a == SubSeq(l, 1, k - 1)  b == SubSeq(l, k + 1, n)
  <2>1. l \in Seq(Entries) /\ n \in Nat /\ DOMAIN l = 1 .. n
    BY DEF CacheOK, Entries
  <2>2. k \in 1 .. n /\ l[k].ip = ip
    BY <1>2, <2>1, AtInDomain
  <2>3. a \in Seq(Entries) /\ Len(a) = k - 1 /\ \A i \in 1 .. k - 1 : a[i] = l[i]
    BY <2>1, <2>2, SubSeqProperties
  <2>4. b \in Seq(Entries) /\ Len(b) = n - k /\ \A i \in 1 .. n - k : b[i] = l[k + i]
    BY SMTT(30), <2>1, <2>2, SubSeqProperties
  <2>5. Others(ip) = a \o b
    BY <1>2 DEF Others
  <2>7. \A i, j \in 1 .. n : l[i].ip = l[j].ip => i = j
    BY <2>1 DEF CacheOK
  <2> HIDE DEF k, a, b, l, n
  <2> DEFINE c == a \o b
  <2>b. /\ c \in Seq(Entries) /\ Len(c) = Len(a) + Len(b)
        /\ \A i \in 1 .. Len(a) + Len(b) :
             c[i] = IF i <= Len(a) THEN a[i] ELSE b[i - Len(a)]
    BY <2>3, <2>4, ConcatProperties
  <2> HIDE DEF c
  <2>c. Len(c) = n - 1
    BY <2>1, <2>2, <2>3, <2>4, <2>b
  <2>6. ASSUME NEW i \in 1 .. n - 1
        PROVE  c[i] = l[IF i < k THEN i ELSE i + 1]
    <3>1. CASE i < k
      BY <2>1, <2>2, <2>3, <2>4, <2>b, <3>1
    <3>2. CASE ~(i < k)
      <4>1. c[i] = b[i - (k - 1)] /\ i - (k - 1) \in 1 .. n - k
        BY <2>1, <2>2, <2>3, <2>4, <2>b, <3>2
      <4>2. k + (i - (k - 1)) = i + 1
        BY <2>1, <2>2
      <4> QED BY <2>4, <3>2, <4>1, <4>2
    <3> QED BY <3>1, <3>2
  <2>8. \A i \in 1 .. n - 1 : c[i].ip # ip
    BY <2>1, <2>2, <2>6, <2>7
  <2>9. ASSUME NEW i \in 1 .. n - 1, NEW j \in 1 .. n - 1, c[i].ip = c[j].ip
        PROVE  i = j
    BY <2>1, <2>2, <2>6, <2>7, <2>9
  <2> QED BY <1>2, <2>5, <2>b, <2>c, <2>8, <2>9 DEF c, n
<1> QED BY <1>1, <1>2

LEMMA TouchedOK ==
  ASSUME NEW ip \in Ips, NEW host \in Hosts, CacheOK
  PROVE  /\ Touched(ip, host) \in Seq(Entries)
         /\ Len(Touched(ip, host)) = (IF Cached(ip) THEN Len(ip_to_host) ELSE Len(ip_to_host) + 1)
         /\ \A i, j \in 1 .. Len(Touched(ip, host)) :
              Touched(ip, host)[i].ip = Touched(ip, host)[j].ip => i = j
<1> DEFINE o == Others(ip)  e == [ip |-> ip, host |-> host]  m == Len(o)
<1>1. /\ o \in Seq(Entries) /\ e \in Entries /\ m \in Nat
      /\ Len(ip_to_host) \in Nat
      /\ Cached(ip) => m = Len(ip_to_host) - 1
      /\ ~Cached(ip) => m = Len(ip_to_host)
  <2>1. /\ o \in Seq(Entries) /\ (Cached(ip) => m = Len(ip_to_host) - 1)
        /\ (~Cached(ip) => o = ip_to_host)
    BY OthersOK
  <2>2. ip_to_host \in Seq(Entries) /\ e \in Entries
    BY DEF CacheOK, Entries
  <2> HIDE DEF o, e
  <2> QED BY <2>1, <2>2, LenProperties
<1>2. /\ \A i, j \in 1 .. m : o[i].ip = o[j].ip => i = j
      /\ \A i \in 1 .. m : o[i].ip # ip
  BY OthersOK
<1>3. Touched(ip, host) = Append(o, e) /\ e.ip = ip
  BY DEF Touched
<1> HIDE DEF o, e
<1>4. /\ Append(o, e) \in Seq(Entries) /\ Len(Append(o, e)) = m + 1
      /\ \A i \in 1 .. m : Append(o, e)[i] = o[i]
      /\ Append(o, e)[m + 1] = e
  BY <1>1, AppendProperties
<1>5. \A i, j \in 1 .. m + 1 : Append(o, e)[i].ip = Append(o, e)[j].ip => i = j
  BY <1>1, <1>2, <1>3, <1>4
<1> QED BY <1>1, <1>3, <1>4, <1>5

LEMMA HostOfType ==
  ASSUME NEW ip, CacheOK
  PROVE  /\ HostOf(ip) \in Hosts \union {NoHost}
         /\ Cached(ip) => HostOf(ip) \in Hosts
<1>1. CASE Cached(ip)
  <2>1. ip_to_host \in Seq(Entries) /\ At(ip) \in DOMAIN ip_to_host
    BY <1>1, AtInDomain DEF CacheOK, Entries
  <2>2. ip_to_host[At(ip)] \in Entries
    BY <2>1
  <2> QED BY <1>1, <2>2 DEF HostOf, Entries
<1>2. CASE ~Cached(ip)
  BY <1>2 DEF HostOf
<1> QED BY <1>1, <1>2

LEMMA AddKeepsCache ==
  ASSUME NEW ip \in Ips, NEW host \in Hosts, CacheOK, ip_lru_add(ip, host)
  PROVE  CacheOK'
<1> DEFINE l == Touched(ip, host)
<1>1. /\ l \in Seq(Entries) /\ Len(l) \in 1 .. MaxLru + 1
      /\ \A i, j \in 1 .. Len(l) : l[i].ip = l[j].ip => i = j
  <2>1. /\ l \in Seq(Entries)
        /\ Len(l) = (IF Cached(ip) THEN Len(ip_to_host) ELSE Len(ip_to_host) + 1)
        /\ \A i, j \in 1 .. Len(l) : l[i].ip = l[j].ip => i = j
    BY TouchedOK
  <2>2. Len(ip_to_host) \in 0 .. MaxLru /\ (Cached(ip) => Len(ip_to_host) # 0)
    BY PdFirewallAssumption, LenProperties DEF CacheOK, Cached
  <2> HIDE DEF l
  <2> QED BY <2>1, <2>2, PdFirewallAssumption
<1>2. ip_to_host' = IF Len(l) > MaxLru THEN Tail(l) ELSE l
  BY DEF ip_lru_add
<1> HIDE DEF l
<1>3. CASE Len(l) > MaxLru
  <2>1. /\ Tail(l) \in Seq(Entries) /\ Len(Tail(l)) = Len(l) - 1
        /\ \A i \in 1 .. Len(Tail(l)) : Tail(l)[i] = l[i + 1]
    BY <1>1, HeadTailProperties
  <2>2. \A i, j \in 1 .. Len(Tail(l)) : Tail(l)[i].ip = Tail(l)[j].ip => i = j
    BY <1>1, <2>1
  <2> QED BY <1>1, <1>2, <1>3, <2>1, <2>2, PdFirewallAssumption DEF CacheOK, Entries
<1>4. CASE ~(Len(l) > MaxLru)
  BY <1>1, <1>2, <1>4, PdFirewallAssumption DEF CacheOK, Entries
<1> QED BY <1>3, <1>4

LEMMA FindKeepsCache ==
  ASSUME NEW ip \in Ips, CacheOK, ip_lru_find(ip)
  PROVE  CacheOK'
<1>1. CASE Cached(ip)
  <2>1. HostOf(ip) \in Hosts
    BY <1>1, HostOfType
  <2> DEFINE l == Touched(ip, HostOf(ip))
  <2>2. /\ l \in Seq(Entries) /\ Len(l) = Len(ip_to_host)
        /\ \A i, j \in 1 .. Len(l) : l[i].ip = l[j].ip => i = j
    BY <1>1, <2>1, TouchedOK
  <2>3. ip_to_host' = l
    BY <1>1 DEF ip_lru_find
  <2> HIDE DEF l
  <2> QED BY <2>2, <2>3 DEF CacheOK, Entries
<1>2. CASE ~Cached(ip)
  BY <1>2 DEF ip_lru_find, CacheOK
<1> QED BY <1>1, <1>2

(* ---------------------------------------------------------- the verdicts *)
(* What a list matches is the same for d and r.                            *)
SameMatch(d, r) ==
  /\ r.alive = d.alive /\ r.uid = d.uid /\ r.ip = d.ip
  /\ r.dns = d.dns /\ r.info = d.info

(* r was judged further than d: a verdict stays.                           *)
Further(d, r) ==
  /\ SameMatch(d, r)
  /\ r.netd_block_missed = d.netd_block_missed
  /\ d.to_block => r.to_block

LEMMA SameVerdict ==
  ASSUME NEW f, NEW d, NEW r, SameMatch(d, r)
  PROVE  /\ Blocklisted(f, r) <=> Blocklisted(f, d)
         /\ NotWhitelisted(f, r) <=> NotWhitelisted(f, d)
BY DEF SameMatch, Blocklisted, NotWhitelisted, MatchesHost, Unspecified

LEMMA FurtherEnforced ==
  ASSUME NEW f, NEW d, NEW r, Further(d, r), Enforced(f, d)
  PROVE  Enforced(f, r)
<1>1. SameMatch(d, r)
  BY DEF Further
<1>2. Stopped(d) => Stopped(r)
  BY DEF Further, Stopped
<1> QED BY <1>1, <1>2, SameVerdict DEF Enforced

LEMMA WhitelistModeBlocks ==
  ASSUME NEW f, NEW d \in Conn
  PROVE  /\ check_whitelist_mode_block(f, d) \in Conn
         /\ Further(d, check_whitelist_mode_block(f, d))
         /\ f.enabled /\ NotWhitelisted(f, d) => check_whitelist_mode_block(f, d).to_block
<1> DEFINE b == d.to_block \/ (f.enabled /\ NotWhitelisted(f, d)) \/ d.uid = UidUnknown
           r == [d EXCEPT !.to_block = b]
<1>1. b \in BOOLEAN /\ (d.to_block => b) /\ (f.enabled /\ NotWhitelisted(f, d) => b)
  OBVIOUS
<1>2. check_whitelist_mode_block(f, d) = r
  BY DEF check_whitelist_mode_block
<1> HIDE DEF b
<1> QED BY <1>1, <1>2 DEF Conn, Further, SameMatch

LEMMA BlockedConnEnforced ==
  ASSUME NEW f, NEW d \in Conn
  PROVE  /\ check_blocked_conn_cb(f, d) \in Conn
         /\ SameMatch(d, check_blocked_conn_cb(f, d))
         /\ Enforced(f, check_blocked_conn_cb(f, d))
<1> DEFINE b == \/ ~d.blacklisted_internal \/ ~d.blacklisted_ip \/ ~d.blacklisted_domain
                \/ f.enabled /\ Blocklisted(f, d)
           e == [d EXCEPT !.to_block = b]
           r == check_whitelist_mode_block(f, e)
<1>1. b \in BOOLEAN /\ (f.enabled /\ Blocklisted(f, d) => b)
  OBVIOUS
<1>2. check_blocked_conn_cb(f, d) = r
  BY DEF check_blocked_conn_cb
<1> HIDE DEF b
<1>3. e \in Conn /\ SameMatch(d, e) /\ e.to_block = b
  BY <1>1 DEF Conn, SameMatch
<1> HIDE DEF e
<1>4. /\ r \in Conn /\ Further(e, r)
      /\ f.enabled /\ NotWhitelisted(f, e) => r.to_block
  BY <1>3, WhitelistModeBlocks
<1> HIDE DEF r
<1>5. SameMatch(d, r)
  BY <1>3, <1>4 DEF SameMatch, Further
<1>6. Enforced(f, r)
  <2>1. SameMatch(e, r) /\ (e.to_block => r.to_block)
    BY <1>4 DEF Further
  <2>2. NotWhitelisted(f, r) <=> NotWhitelisted(f, e)
    BY <2>1, SameVerdict
  <2>3. Blocklisted(f, r) <=> Blocklisted(f, d)
    BY <1>5, SameVerdict
  <2> QED BY <1>1, <1>3, <1>4, <2>1, <2>2, <2>3 DEF Enforced, Stopped
<1> QED BY <1>2, <1>4, <1>5, <1>6

LEMMA BlacklistedConnEnforced ==
  ASSUME NEW f, NEW w, NEW d \in Conn
  PROVE  /\ check_blacklisted_conn_cb(f, w, d) \in Conn
         /\ SameMatch(d, check_blacklisted_conn_cb(f, w, d))
         /\ Enforced(f, d) => Enforced(f, check_blacklisted_conn_cb(f, w, d))
<1> DEFINE app == d.uid \in w
           unip == d.blacklisted_ip /\ (app \/ d.ip \in w)
           undomain == d.blacklisted_domain /\ (app \/ d.info \in w)
           i == d.blacklisted_ip /\ ~unip
           h == d.blacklisted_domain /\ ~undomain
           e == [d EXCEPT !.whitelisted_app = app, !.blacklisted_ip = i,
                          !.blacklisted_domain = h]
<1>1. /\ app \in BOOLEAN /\ i \in BOOLEAN /\ h \in BOOLEAN
  OBVIOUS
<1>2. check_blacklisted_conn_cb(f, w, d) =
        IF (unip \/ undomain) /\ f.bl # Null THEN check_blocked_conn_cb(f, e) ELSE e
  <2>1. [d EXCEPT !.whitelisted_app = app, !.blacklisted_ip = @ /\ ~unip,
                  !.blacklisted_domain = @ /\ ~undomain] = e
    BY DEF Conn
  <2> QED BY <2>1 DEF check_blacklisted_conn_cb
<1> HIDE DEF app, unip, undomain, i, h
<1>3. e \in Conn /\ Further(d, e)
  BY ZenonT(60), <1>1 DEF Conn, Further, SameMatch
<1> HIDE DEF e
<1>4. Enforced(f, d) => Enforced(f, e)
  BY <1>3, FurtherEnforced
<1>5. /\ check_blocked_conn_cb(f, e) \in Conn
      /\ SameMatch(e, check_blocked_conn_cb(f, e))
      /\ Enforced(f, check_blocked_conn_cb(f, e))
  BY <1>3, BlockedConnEnforced
<1> QED BY <1>2, <1>3, <1>4, <1>5 DEF Further, SameMatch

LEMMA DomainBlocks ==
  ASSUME NEW d \in Conn
  PROVE  /\ check_blacklisted_domain(d) \in Conn
         /\ Further(d, check_blacklisted_domain(d))
         /\ firewall.enabled /\ firewall.bl # Null /\ MatchesHost(firewall.bl, d)
              => check_blacklisted_domain(d).to_block
<1> DEFINE bad == HostChecked(d) /\ ~HostAllowed(d)
           h == d.blacklisted_domain \/ bad
           b == \/ d.to_block \/ bad
                \/ firewall.enabled /\ firewall.bl # Null /\ MatchesHost(firewall.bl, d)
<1>1. /\ h \in BOOLEAN /\ b \in BOOLEAN /\ (d.to_block => b)
      /\ (firewall.enabled /\ firewall.bl # Null /\ MatchesHost(firewall.bl, d) => b)
  OBVIOUS
<1>2. check_blacklisted_domain(d) = [d EXCEPT !.blacklisted_domain = h, !.to_block = b]
  BY DEF check_blacklisted_domain, Conn
<1> HIDE DEF h, b
<1> QED BY <1>1, <1>2 DEF Conn, Further, SameMatch

LEMMA IpFurther ==
  ASSUME NEW d \in Conn, NEW open
  PROVE  check_ip(d, open) \in Conn /\ Further(d, check_ip(d, open))
<1> DEFINE bad == /\ malware.bl # Null /\ ~d.whitelisted_app
                  /\ d.ip \notin malware.bl /\ ~open
                  /\ ~(malware.whitelist # Null /\ d.ip \in malware.whitelist)
           i == d.blacklisted_ip \/ bad
           b == d.to_block \/ bad
<1>1. i \in BOOLEAN /\ b \in BOOLEAN /\ (d.to_block => b)
  OBVIOUS
<1>2. check_ip(d, open) = [d EXCEPT !.blacklisted_ip = i, !.to_block = b]
  BY DEF check_ip, Conn
<1> HIDE DEF i, b
<1> QED BY <1>1, <1>2 DEF Conn, Further, SameMatch

LEMMA FirewallBlocks ==
  ASSUME NEW d \in Conn
  PROVE  /\ check_firewall(d) \in Conn
         /\ Further(d, check_firewall(d))
         /\ firewall.enabled /\ firewall.bl # Null /\ (d.ip \in firewall.bl \/ d.uid \in firewall.bl)
              => check_firewall(d).to_block
         /\ firewall.enabled /\ NotWhitelisted(firewall, d) => check_firewall(d).to_block
<1> DEFINE b == d.to_block \/ (firewall.enabled /\ firewall.bl # Null
                               /\ (d.ip \in firewall.bl \/ d.uid \in firewall.bl))
           e == [d EXCEPT !.to_block = b]
           r == check_whitelist_mode_block(firewall, e)
<1>1. /\ b \in BOOLEAN /\ (d.to_block => b)
      /\ firewall.enabled /\ firewall.bl # Null /\ (d.ip \in firewall.bl \/ d.uid \in firewall.bl) => b
  OBVIOUS
<1>2. check_firewall(d) = r
  BY DEF check_firewall, Conn
<1> HIDE DEF b
<1>3. e \in Conn /\ Further(d, e) /\ e.to_block = b
  BY <1>1 DEF Conn, Further, SameMatch
<1> HIDE DEF e
<1>4. /\ r \in Conn /\ Further(e, r)
      /\ firewall.enabled /\ NotWhitelisted(firewall, e) => r.to_block
  BY <1>3, WhitelistModeBlocks
<1> HIDE DEF r
<1>5. NotWhitelisted(firewall, e) <=> NotWhitelisted(firewall, d)
  BY <1>3, SameVerdict DEF Further
<1> QED BY <1>1, <1>2, <1>3, <1>4, <1>5 DEF Further, SameMatch

LEMMA NetdEnforced ==
  ASSUME NEW uid \in Uids, NEW host, NEW e \in Conn
  PROVE  /\ netd_resolved(uid, host, e) \in Conn
         /\ netd_resolved(uid, host, e).alive = e.alive
         /\ netd_resolved(uid, host, e).ip = e.ip
         /\ netd_resolved(uid, host, e).info = e.info
         /\ Enforced(firewall, e) => Enforced(firewall, netd_resolved(uid, host, e))
<1> DEFINE m == e.netd_block_missed \/ netd_missed(uid, e)
           r == [e EXCEPT !.uid = uid, !.netd_block_missed = m]
           resolved == host # NoHost /\ uid # UidUnknown
                         /\ e.alive /\ e.new /\ e.uid = Netd /\ e.info = host
<1>1. m \in BOOLEAN /\ (e.netd_block_missed => m) /\ (netd_missed(uid, e) => m)
  OBVIOUS
<1>2. netd_resolved(uid, host, e) = IF resolved THEN r ELSE e
  BY DEF netd_resolved, Conn
<1> HIDE DEF m, resolved
<1>3. /\ r \in Conn /\ r.uid = uid /\ r.netd_block_missed = m
      /\ r.alive = e.alive /\ r.ip = e.ip /\ r.info = e.info
      /\ r.to_block = e.to_block
  BY <1>1 DEF Conn
<1> HIDE DEF r
<1>4. ASSUME Enforced(firewall, e), firewall.enabled
      PROVE  /\ Blocklisted(firewall, r) => Stopped(r)
             /\ firewall.bl # Null /\ NotWhitelisted(firewall, r) => Stopped(r)
  <2>1. Stopped(e) => Stopped(r)
    BY <1>1, <1>3 DEF Stopped
  <2>2. Blocklisted(firewall, r) => Blocklisted(firewall, e) \/ (uid \in firewall.bl /\ firewall.bl # Null)
    BY <1>3 DEF Blocklisted, MatchesHost
  <2>3. firewall.bl # Null /\ uid \in firewall.bl => Stopped(r)
    BY <1>1, <1>3, <1>4 DEF Stopped, netd_missed
  <2>4. firewall.bl # Null /\ NotWhitelisted(firewall, r) => Stopped(r)
    BY <1>1, <1>3, <1>4 DEF Stopped, netd_missed, NotWhitelisted
  <2> QED BY <1>4, <2>1, <2>2, <2>3, <2>4 DEF Enforced
<1>5. Enforced(firewall, e) => Enforced(firewall, r)
  BY <1>4 DEF Enforced
<1> QED BY <1>2, <1>3, <1>5

(* ------------------------------------------------------- the invariant *)
(* Enforced for every connection that lived through no switching on.       *)
AllEnforced == \A c \in Active \ switched : Enforced(firewall, conns[c])

Inv == TypeOK /\ AllEnforced

(* TypeOK but for the cache.                                               *)
Types ==
  /\ conns \in [Conns -> Conn]
  /\ thischeck \in BOOLEAN /\ domainopen \in BOOLEAN
  /\ firewall \in Firewalls /\ malware \in Malwares
  /\ edits \in 0 .. MaxEdits
  /\ switched \subseteq Conns

LEMMA TypeParts == TypeOK <=> Types /\ CacheOK
BY DEF TypeOK, Types, Firewalls, Malwares

LEMMA InvIsBoth == AllEnforced => BlocklistEnforced /\ WhitelistEnforced
BY DEF AllEnforced, Enforced, Stopped, BlocklistEnforced, WhitelistEnforced

LEMMA NewConnType ==
  ASSUME NEW uid \in Uids, NEW ip \in Ips, NEW dns \in BOOLEAN,
         NEW host \in Hosts \union {NoHost}
  PROVE  NewConn(uid, ip, dns, host) \in Conn
<1> DEFINE l == host # NoHost
<1>1. l \in BOOLEAN
  OBVIOUS
<1> HIDE DEF l
<1>2. NewConn(uid, ip, dns, host) =
        [alive |-> TRUE, new |-> TRUE, sent |-> FALSE, uid |-> uid, ip |-> ip, dns |-> dns,
         info |-> host, from_lru |-> l, whitelisted_app |-> FALSE,
         blacklisted_internal |-> FALSE, blacklisted_ip |-> FALSE,
         blacklisted_domain |-> FALSE, to_block |-> FALSE, netd_block_missed |-> FALSE]
  BY DEF NewConn, l
<1> QED BY <1>1, <1>2 DEF Conn

LEMMA NoConnType == NoConn \in Conn /\ ~NoConn.alive
<1> DEFINE ip == CHOOSE ip \in Ips : TRUE
<1>1. ip \in Ips
  BY PdFirewallAssumption
<1>2. UidUnknown \in Uids
  BY DEF Uids
<1> HIDE DEF ip
<1>3. NewConn(UidUnknown, ip, FALSE, NoHost) \in Conn
  BY <1>1, <1>2, NewConnType
<1>4. NoConn = [NewConn(UidUnknown, ip, FALSE, NoHost) EXCEPT !.alive = FALSE, !.new = FALSE]
  BY DEF NoConn, ip
<1> QED BY <1>3, <1>4 DEF Conn

LEMMA InitInv == Init => Inv
<1> SUFFICES ASSUME Init PROVE Inv
  OBVIOUS
<1>1. conns \in [Conns -> Conn] /\ Active = {}
  BY NoConnType DEF Init, Active
<1>2. CacheOK
  BY PdFirewallAssumption, EmptySeq DEF Init, CacheOK
<1>3. firewall \in Firewalls /\ malware \in Malwares
  BY DEF Init, Firewalls, Malwares
<1>4. Types
  <2>1. thischeck = FALSE /\ domainopen = FALSE /\ edits = 0 /\ switched = {}
    BY DEF Init
  <2>2. 0 \in 0 .. MaxEdits
    BY PdFirewallAssumption
  <2> QED BY <1>1, <1>3, <2>1, <2>2 DEF Types
<1> QED BY <1>1, <1>2, <1>4, TypeParts DEF Inv, AllEnforced

(* A new connection: the host, the address, the app and the whitelist are  *)
(* all judged; the connections of netd to its host may become the app's.   *)
LEMMA NewConnectionInv ==
  ASSUME Inv, NEW c \in Conns, NEW uid \in Uids, NEW ip \in Ips, NEW dns \in BOOLEAN,
         pd_new_connection(c, uid, ip, dns)
  PROVE  Inv'
<1> DEFINE host == HostOf(ip)
           w == malware.whitelist # Null /\ uid \in malware.whitelist
           n == NewConn(uid, ip, dns, host)
           d0 == [n EXCEPT !.whitelisted_app = w]
           d1 == netd_resolved(uid, host, d0)
           this == thischeck \/ host # NoHost
           d2 == check_blacklisted_domain(d1)
           open == domainopen_after(d1, this)
           d3 == check_ip(d2, open)
           d4 == check_firewall(d3)
<1>0. Types /\ CacheOK /\ AllEnforced
  BY TypeParts DEF Inv
<1>1. /\ conns' = [e \in Conns |-> IF e = c THEN d4 ELSE netd_resolved(uid, host, conns[e])]
      /\ thischeck' = thischeck_after(d1, this)
      /\ domainopen' = IF malware.bl # Null /\ ~w THEN FALSE ELSE open
      /\ ip_lru_find(ip)
      /\ UNCHANGED <<firewall, malware, edits, switched>>
  BY DEF pd_new_connection
<1>2. CacheOK'
  BY <1>0, <1>1, FindKeepsCache
<1>3. host \in Hosts \union {NoHost}
  BY <1>0, HostOfType
<1>4. n \in Conn
  BY <1>3, NewConnType
<1>5. w \in BOOLEAN
  OBVIOUS
<1> HIDE DEF host, w, n
<1>6. d0 \in Conn
  BY <1>4, <1>5 DEF Conn
<1> HIDE DEF d0
<1>7. d1 \in Conn
  BY <1>6, NetdEnforced
<1>8. thischeck' \in BOOLEAN /\ domainopen' \in BOOLEAN
  <2>1. this \in BOOLEAN /\ domainopen \in BOOLEAN
    BY <1>0 DEF Types
  <2> HIDE DEF this, d1
  <2>2. thischeck_after(d1, this) \in BOOLEAN
    BY <2>1 DEF thischeck_after
  <2>3. open \in BOOLEAN
    BY <2>1 DEF domainopen_after
  <2> QED BY <1>1, <2>2, <2>3
<1> HIDE DEF d1, open
<1>9. /\ d2 \in Conn /\ Further(d1, d2)
      /\ firewall.enabled /\ firewall.bl # Null /\ MatchesHost(firewall.bl, d1) => d2.to_block
  BY <1>7, DomainBlocks
<1> HIDE DEF d2
<1>10. d3 \in Conn /\ Further(d2, d3)
  BY <1>9, IpFurther
<1> HIDE DEF d3
<1>11. /\ d4 \in Conn /\ Further(d3, d4)
       /\ firewall.enabled /\ firewall.bl # Null /\ (d3.ip \in firewall.bl \/ d3.uid \in firewall.bl)
            => d4.to_block
       /\ firewall.enabled /\ NotWhitelisted(firewall, d3) => d4.to_block
  BY <1>10, FirewallBlocks
<1> HIDE DEF d4
<1>12. Enforced(firewall, d4)
  <2>1. SameMatch(d1, d4) /\ SameMatch(d3, d4)
    BY <1>9, <1>10, <1>11 DEF Further, SameMatch
  <2>2. firewall.enabled /\ firewall.bl # Null /\ MatchesHost(firewall.bl, d1) => d4.to_block
    BY <1>9, <1>10, <1>11 DEF Further
  <2>3. firewall.enabled /\ Blocklisted(firewall, d1) => d4.to_block
    BY <1>11, <2>1, <2>2 DEF Blocklisted, SameMatch
  <2>4. Blocklisted(firewall, d4) <=> Blocklisted(firewall, d1)
    BY <2>1, SameVerdict
  <2>5. NotWhitelisted(firewall, d4) <=> NotWhitelisted(firewall, d3)
    BY <2>1, SameVerdict
  <2> QED BY <1>11, <2>3, <2>4, <2>5 DEF Enforced, Stopped
<1>13. \A e \in Conns : /\ netd_resolved(uid, host, conns[e]) \in Conn
                        /\ netd_resolved(uid, host, conns[e]).alive = conns[e].alive
                        /\ Enforced(firewall, conns[e])
                             => Enforced(firewall, netd_resolved(uid, host, conns[e]))
  BY <1>0, NetdEnforced DEF Types
<1>14. conns' \in [Conns -> Conn]
  BY <1>1, <1>11, <1>13
<1>15. Types'
  BY <1>0, <1>1, <1>8, <1>14 DEF Types
<1>16. ASSUME NEW e \in (Active \ switched)'
       PROVE  Enforced(firewall, conns[e])'
  <2>1. e \in Conns /\ conns'[e].alive /\ e \notin switched
    BY <1>1 DEF Active
  <2>2. CASE e = c
    BY <1>1, <1>12, <2>2 DEF Enforced, Blocklisted, NotWhitelisted, Stopped, MatchesHost, Unspecified
  <2>3. CASE e # c
    <3>1. conns'[e] = netd_resolved(uid, host, conns[e]) /\ e \in Active \ switched
      BY <1>1, <1>13, <2>1, <2>3 DEF Active
    <3>2. Enforced(firewall, conns'[e])
      BY <1>0, <1>13, <2>1, <3>1 DEF AllEnforced
    <3> QED BY <1>1, <3>2 DEF Enforced, Blocklisted, NotWhitelisted, Stopped, MatchesHost, Unspecified
  <2> QED BY <2>2, <2>3
<1> QED
  <2>1. AllEnforced'
    BY <1>16 DEF AllEnforced
  <2>2. TypeOK'
    BY <1>2, <1>15 DEF TypeOK, Types, Firewalls, Malwares
  <2> QED BY <2>1, <2>2 DEF Inv

(* What a step may do to the connections other than judge them.            *)
LEMMA StepKeepsEnforced ==
  ASSUME AllEnforced, firewall'.enabled => firewall.enabled \/ Active' \subseteq switched',
         firewall'.bl = firewall.bl, firewall'.wl = firewall.wl,
         firewall'.wl_enabled => firewall.wl_enabled \/ Active' \subseteq switched',
         \A c \in (Active \ switched)' :
            c \in Active \ switched /\ Enforced(firewall, conns'[c])
  PROVE  AllEnforced'
<1>1. SUFFICES ASSUME NEW c \in (Active \ switched)'
               PROVE  Enforced(firewall', conns'[c])
  BY DEF AllEnforced, Enforced, Blocklisted, NotWhitelisted, Stopped, MatchesHost, Unspecified
<1>2. Enforced(firewall, conns'[c])
  BY <1>1
<1> QED BY <1>1, <1>2 DEF Enforced, Blocklisted, NotWhitelisted

LEMMA VpnProcessNdpiFurther ==
  ASSUME NEW d \in Conn, NEW internal \in BOOLEAN
  PROVE  vpn_process_ndpi(d, internal) \in Conn /\ Further(d, vpn_process_ndpi(d, internal))
<1> DEFINE i == d.blacklisted_internal \/ internal
           b == d.to_block \/ internal
           n == d.sent \/ ~b
<1>1. i \in BOOLEAN /\ b \in BOOLEAN /\ n \in BOOLEAN /\ (d.to_block => b)
  OBVIOUS
<1>2. vpn_process_ndpi(d, internal) =
        [d EXCEPT !.blacklisted_internal = i, !.to_block = b, !.sent = n]
  BY DEF vpn_process_ndpi, Conn
<1> HIDE DEF i, b, n
<1> QED BY <1>1, <1>2 DEF Conn, Further, SameMatch

LEMMA NdpiDataInv ==
  ASSUME Inv, NEW c \in Conns, NEW found \in Hosts \union {NoHost}, NEW internal \in BOOLEAN,
         process_ndpi_data(c, found, internal)
  PROVE  Inv'
<1> DEFINE d == conns[c]
           learns == Found(d, found)
           d1 == IF learns THEN Learned(d, found) ELSE d
           d2 == IF learns THEN check_blacklisted_domain(d1) ELSE d
           r == vpn_process_ndpi(d2, internal)
<1>0. Types /\ CacheOK /\ AllEnforced
  BY TypeParts DEF Inv
<1>1. d \in Conn /\ d1 \in Conn
  BY ZenonT(60), <1>0 DEF Types, Conn, Learned
<1>2. d2 \in Conn
  BY <1>1, DomainBlocks
<1>3. /\ conns' = [conns EXCEPT ![c] = r]
      /\ thischeck' = IF learns THEN thischeck_after(d1, thischeck) ELSE thischeck
      /\ domainopen' = IF learns THEN domainopen_after(d1, thischeck) ELSE domainopen
      /\ UNCHANGED <<ip_to_host, firewall, malware, edits, switched>>
  BY DEF process_ndpi_data
<1>4. d2.alive = d.alive /\ (Enforced(firewall, d) => Enforced(firewall, d2))
  <2>1. CASE ~learns
    BY <2>1
  <2>2. CASE learns
    <3>1. /\ Further(d1, d2) /\ d1.alive = d.alive /\ d1.uid = d.uid /\ d1.ip = d.ip
          /\ d1.dns = d.dns /\ d1.to_block = d.to_block
          /\ d1.netd_block_missed = d.netd_block_missed
          /\ firewall.enabled /\ firewall.bl # Null /\ MatchesHost(firewall.bl, d1) => d2.to_block
      BY <1>1, <2>2, DomainBlocks DEF Conn, Learned
    <3> HIDE DEF d, d1, d2
    <3>2. SameMatch(d1, d2)
      BY <3>1 DEF Further
    <3>3. Stopped(d) => Stopped(d2)
      BY <3>1 DEF Stopped, Further
    <3>4. NotWhitelisted(firewall, d2) <=> NotWhitelisted(firewall, d)
      BY <3>1, <3>2 DEF NotWhitelisted, Unspecified, SameMatch
    <3>5. Blocklisted(firewall, d2) /\ firewall.enabled => Blocklisted(firewall, d) \/ d2.to_block
      BY <3>1, <3>2 DEF Blocklisted, MatchesHost, SameMatch
    <3>6. d2.alive = d.alive
      BY <3>1, <3>2 DEF SameMatch
    <3> QED BY <3>3, <3>4, <3>5, <3>6 DEF Enforced, Stopped
  <2> QED BY <2>1, <2>2
<1>8. thischeck' \in BOOLEAN /\ domainopen' \in BOOLEAN
  <2>1. thischeck \in BOOLEAN /\ domainopen \in BOOLEAN
    BY <1>0 DEF Types
  <2> HIDE DEF learns, d1
  <2> QED BY <1>3, <2>1 DEF thischeck_after, domainopen_after
<1> HIDE DEF d2, learns
<1>6. r \in Conn /\ Further(d2, r)
  BY <1>2, VpnProcessNdpiFurther
<1> HIDE DEF r
<1>7. r.alive = d.alive /\ (Enforced(firewall, d) => Enforced(firewall, r))
  BY <1>4, <1>6, FurtherEnforced DEF Further, SameMatch
<1>9. Types'
  BY <1>0, <1>3, <1>6, <1>8 DEF Types
<1>10. CacheOK'
  BY <1>0, <1>3 DEF CacheOK
<1>11. AllEnforced'
  <2>1. \A e \in (Active \ switched)' : e \in Active \ switched /\ Enforced(firewall, conns'[e])
    BY <1>0, <1>3, <1>7 DEF Active, Types, AllEnforced
  <2> QED BY <1>0, <1>3, <2>1, StepKeepsEnforced
<1> QED BY <1>9, <1>10, <1>11 DEF Inv, TypeOK, Types, Firewalls, Malwares

LEMMA DnsReplyInv ==
  ASSUME Inv, NEW c \in Conns, NEW ip \in Ips, NEW host \in Hosts,
         process_dns_reply(c, ip, host)
  PROVE  Inv'
<1>1. /\ ip_lru_add(ip, host)
      /\ UNCHANGED <<conns, thischeck, domainopen, firewall, malware, edits, switched>>
  BY DEF process_dns_reply
<1>2. Types /\ CacheOK /\ AllEnforced
  BY TypeParts DEF Inv
<1>3. CacheOK'
  BY <1>1, <1>2, AddKeepsCache
<1>4. Types' /\ Active' = Active
  BY <1>1, <1>2 DEF Types, Active
<1>5. AllEnforced'
  BY <1>1, <1>2, <1>4, StepKeepsEnforced DEF AllEnforced
<1> QED BY <1>3, <1>4, <1>5 DEF Inv, TypeOK, Types, Firewalls, Malwares

LEMMA ClosedInv ==
  ASSUME Inv, NEW c \in Conns, connection_closed(c)
  PROVE  Inv'
<1>1. /\ conns' = [conns EXCEPT ![c] = NoConn] /\ switched' = switched \ {c}
      /\ UNCHANGED <<ip_to_host, thischeck, domainopen, firewall, malware, edits>>
  BY DEF connection_closed
<1>2. Types /\ CacheOK /\ AllEnforced
  BY TypeParts DEF Inv
<1>3. Types' /\ Active' = Active \ {c}
  BY <1>1, <1>2, NoConnType DEF Types, Active
<1>4. CacheOK'
  BY <1>1, <1>2 DEF CacheOK
<1>5. AllEnforced'
  <2>1. \A e \in (Active \ switched)' : e \in Active \ switched /\ Enforced(firewall, conns'[e])
    BY <1>1, <1>2, <1>3 DEF Types, AllEnforced
  <2> QED BY <1>1, <1>2, <2>1, StepKeepsEnforced
<1> QED BY <1>3, <1>4, <1>5 DEF Inv, TypeOK, Types, Firewalls, Malwares

LEMMA FirewallLoadedType ==
  ASSUME NEW f \in Firewalls
  PROVE  FirewallLoaded(f) \in Firewalls
BY DEF Firewalls, FirewallLoaded

(* A list that was loaded makes every verdict anew; without one, the dump   *)
(* and the malware whitelist leave what is enforced.                       *)
LEMMA HousekeepingInv ==
  ASSUME Inv, NEW dump \in BOOLEAN, NEW bl \in MalwareLists \union {malware.bl},
         bl = malware.bl \/ edits < MaxEdits, pd_housekeeping(dump, bl)
  PROVE  Inv'
<1> DEFINE f == FirewallLoaded(firewall)
           w == WhitelistLoaded(firewall)
           u == Dumped(dump, w)
<1>0. Types /\ CacheOK /\ AllEnforced
  BY TypeParts DEF Inv
<1>1. /\ firewall' = f /\ conns' = Checked(f, u)
      /\ malware' = [bl |-> bl, new_wl |-> Null,
                     whitelist |-> IF malware.new_wl # Null THEN malware.new_wl
                                   ELSE malware.whitelist]
      /\ edits' = IF bl = malware.bl THEN edits ELSE edits + 1
      /\ switched' = IF f = firewall THEN switched ELSE {}
      /\ UNCHANGED <<ip_to_host, thischeck, domainopen>>
  BY DEF pd_housekeeping
<1>2. f \in Firewalls
  BY <1>0, FirewallLoadedType DEF Types
<1>3. malware' \in Malwares
  BY <1>0, <1>1 DEF Types, Malwares
<1>4. edits' \in 0 .. MaxEdits /\ switched' \subseteq Conns
  BY <1>0, <1>1, PdFirewallAssumption DEF Types
<1>5. ASSUME NEW c \in Conns
      PROVE  /\ w[c] \in Conn /\ SameMatch(conns[c], w[c])
             /\ c \in Active \ switched => Enforced(firewall, w[c])
  <2>1. conns[c] \in Conn
    BY <1>0 DEF Types
  <2>2. SameMatch(conns[c], conns[c])
    BY DEF SameMatch
  <2>3. CASE malware.new_wl = Null \/ ~conns[c].alive
    <3>1. w[c] = conns[c]
      BY <2>3 DEF WhitelistLoaded
    <3> QED BY <1>0, <2>1, <2>2, <3>1 DEF AllEnforced
  <2>4. CASE malware.new_wl # Null /\ conns[c].alive
    <3> DEFINE r == check_blacklisted_conn_cb(firewall, malware.new_wl, conns[c])
    <3>1. w[c] = r
      BY <2>4 DEF WhitelistLoaded
    <3>2. r \in Conn /\ SameMatch(conns[c], r) /\ (Enforced(firewall, conns[c]) => Enforced(firewall, r))
      BY <2>1, BlacklistedConnEnforced
    <3> QED BY <1>0, <3>1, <3>2 DEF AllEnforced
  <2> QED BY <2>3, <2>4
<1> HIDE DEF w, f
<1>6. ASSUME NEW c \in Conns
      PROVE  /\ u[c] \in Conn /\ SameMatch(conns[c], u[c])
             /\ c \in Active \ switched => Enforced(firewall, u[c])
  <2> DEFINE n == w[c].new /\ ~dump
             r == [w[c] EXCEPT !.new = n]
  <2>1. n \in BOOLEAN
    OBVIOUS
  <2>2. u[c] = r
    BY <1>5 DEF Dumped, Conn
  <2> HIDE DEF n
  <2>3. r \in Conn /\ Further(w[c], r)
    BY <1>5, <2>1 DEF Conn, Further, SameMatch
  <2> HIDE DEF r
  <2> QED BY <1>5, <2>2, <2>3, FurtherEnforced DEF Further, SameMatch
<1> HIDE DEF u
<1>7. ASSUME NEW c \in Conns
      PROVE  /\ conns'[c] \in Conn /\ conns'[c].alive = conns[c].alive
             /\ c \in (Active \ switched)' => Enforced(f, conns'[c])
  <2>1. CASE f = firewall
    <3>1. conns' = u /\ switched' = switched
      BY <1>1, <2>1 DEF Checked
    <3> QED BY <1>6, <2>1, <3>1 DEF SameMatch, Active
  <2>2. CASE f # firewall
    <3>1. conns'[c] = IF u[c].alive THEN check_blocked_conn_cb(f, u[c]) ELSE u[c]
      BY <1>1, <2>2 DEF Checked
    <3>2. u[c] \in Conn /\ u[c].alive = conns[c].alive
      BY <1>6 DEF SameMatch
    <3>3. /\ check_blocked_conn_cb(f, u[c]) \in Conn
          /\ check_blocked_conn_cb(f, u[c]).alive = u[c].alive
          /\ Enforced(f, check_blocked_conn_cb(f, u[c]))
      BY <3>2, BlockedConnEnforced DEF SameMatch
    <3> QED BY <3>1, <3>2, <3>3 DEF Active
  <2> QED BY <2>1, <2>2
<1>8. conns' \in [Conns -> Conn]
  <2>1. conns' = [c \in Conns |-> conns'[c]]
    BY <1>1 DEF Checked, u, Dumped
  <2> QED BY <1>7, <2>1
<1>9. Types'
  BY <1>0, <1>1, <1>2, <1>3, <1>4, <1>8 DEF Types
<1>10. CacheOK'
  BY <1>0, <1>1 DEF CacheOK
<1>11. AllEnforced'
  <2>1. \A c \in (Active \ switched)' : Enforced(f, conns'[c])
    BY <1>7 DEF Active
  <2> QED BY <1>1, <2>1 DEF AllEnforced, Enforced, Blocklisted, NotWhitelisted, Stopped,
                            MatchesHost, Unspecified
<1> QED BY <1>9, <1>10, <1>11 DEF Inv, TypeOK, Types, Firewalls, Malwares

(* The user's changes wait in a slot; switching on excepts the living.      *)
LEMMA UserInv ==
  ASSUME Inv,
         \/ \E list \in Blocklists : reloadBlocklist(list)
         \/ \E list \in Whitelists \union {Null} : reloadFirewallWhitelist(list)
         \/ \E list \in MalwareWhitelists : reloadMalwareWhitelist(list)
         \/ \E enabled \in BOOLEAN : nativeSetFirewallEnabled(enabled)
  PROVE  Inv'
<1>0. Types /\ CacheOK /\ AllEnforced
  BY TypeParts DEF Inv
<1>1. UNCHANGED <<conns, ip_to_host, thischeck, domainopen>> /\ Edit
  BY DEF reloadBlocklist, reloadFirewallWhitelist, reloadMalwareWhitelist, nativeSetFirewallEnabled
<1>2. /\ firewall' \in Firewalls /\ malware' \in Malwares
      /\ firewall'.bl = firewall.bl /\ firewall'.wl = firewall.wl
      /\ switched' = switched \/ switched' = Active
      /\ firewall'.enabled => firewall.enabled \/ switched' = Active
      /\ firewall'.wl_enabled => firewall.wl_enabled \/ switched' = Active
  <2>0. firewall \in Firewalls /\ malware \in Malwares
    BY <1>0 DEF Types
  <2>1. CASE \E list \in Blocklists : reloadBlocklist(list)
    BY <2>0, <2>1 DEF reloadBlocklist, Firewalls
  <2>2. CASE \E list \in Whitelists \union {Null} : reloadFirewallWhitelist(list)
    BY <2>0, <2>2 DEF reloadFirewallWhitelist, Firewalls
  <2>3. CASE \E list \in MalwareWhitelists : reloadMalwareWhitelist(list)
    BY <2>0, <2>3 DEF reloadMalwareWhitelist, Malwares
  <2>4. CASE \E enabled \in BOOLEAN : nativeSetFirewallEnabled(enabled)
    BY <2>0, <2>4 DEF nativeSetFirewallEnabled, Firewalls
  <2> QED BY <2>1, <2>2, <2>3, <2>4
<1>3. edits' \in 0 .. MaxEdits
  BY <1>0, <1>1, PdFirewallAssumption DEF Types, Edit
<1>4. Active' = Active
  BY <1>1 DEF Active
<1>5. Types'
  BY <1>0, <1>1, <1>2, <1>3 DEF Types, Active
<1>6. CacheOK'
  BY <1>0, <1>1 DEF CacheOK
<1>7. AllEnforced'
  <2>1. \A c \in (Active \ switched)' : c \in Active \ switched /\ Enforced(firewall, conns'[c])
    BY <1>0, <1>1, <1>2, <1>4 DEF AllEnforced
  <2> QED BY <1>0, <1>2, <1>4, <2>1, StepKeepsEnforced
<1> QED BY <1>5, <1>6, <1>7 DEF Inv, TypeOK, Types, Firewalls, Malwares

LEMMA StepInv == Inv /\ [Next]_vars => Inv'
<1> SUFFICES ASSUME Inv, [Next]_vars PROVE Inv'
  OBVIOUS
<1>1. ASSUME NEW c \in Conns, NEW b \in Births, NEW ip \in Ips,
             pd_new_connection(c, b[1], ip, b[2])
      PROVE  Inv'
  BY <1>1, NewConnectionInv, PdFirewallAssumption
<1>2. ASSUME NEW c \in Conns, NEW found \in Hosts \union {NoHost}, NEW internal \in BOOLEAN,
             process_ndpi_data(c, found, internal)
      PROVE  Inv'
  BY <1>2, NdpiDataInv
<1>3. ASSUME NEW c \in Conns, NEW ip \in Ips, NEW host \in Hosts,
             process_dns_reply(c, ip, host)
      PROVE  Inv'
  BY <1>3, DnsReplyInv
<1>4. ASSUME NEW c \in Conns, connection_closed(c)
      PROVE  Inv'
  BY <1>4, ClosedInv
<1>5. CASE housekeeping
  BY <1>5, HousekeepingInv DEF housekeeping
<1>6. CASE \/ \E list \in Blocklists : reloadBlocklist(list)
           \/ \E list \in Whitelists \union {Null} : reloadFirewallWhitelist(list)
           \/ \E list \in MalwareWhitelists : reloadMalwareWhitelist(list)
           \/ \E enabled \in BOOLEAN : nativeSetFirewallEnabled(enabled)
  BY <1>6, UserInv
<1>7. CASE UNCHANGED vars
  BY <1>7 DEF vars, Inv, TypeOK, CacheOK, AllEnforced, Active, Enforced, Blocklisted,
              NotWhitelisted, Stopped, MatchesHost, Unspecified
<1> QED BY <1>1, <1>2, <1>3, <1>4, <1>5, <1>6, <1>7 DEF Next

(* Every reachable state is well typed, and the host cache holds no more    *)
(* than MAX_HOST_LRU_SIZE names, one per address.                          *)
THEOREM FirewallTypeSafe == Spec => []TypeOK
<1>1. Inv => TypeOK
  BY DEF Inv
<1> QED BY <1>1, InitInv, StepInv, PTL DEF Spec

(* The blocklist in force is enforced on every living connection, in        *)
(* whatever order pd_new_connection, the DPI, the DNS replies, the lists of *)
(* the user and pd_housekeeping come.                                      *)
THEOREM FirewallEnforcedSafe == Spec => []BlocklistEnforced
<1>1. Inv => BlocklistEnforced
  BY InvIsBoth DEF Inv
<1> QED BY <1>1, InitInv, StepInv, PTL DEF Spec

(* The same for whitelist mode: check_whitelist_mode_block has blocked every *)
(* living connection that the whitelist in force does not let pass.         *)
THEOREM FirewallWhitelistSafe == Spec => []WhitelistEnforced
<1>1. Inv => WhitelistEnforced
  BY InvIsBoth DEF Inv
<1> QED BY <1>1, InitInv, StepInv, PTL DEF Spec

(* ------------------------------------------------------ verdicts that stay *)
(* A malware whitelist clears a flag, and check_blocked_conn_cb blocks what *)
(* misses one: the verdict stays.                                          *)
LEMMA BlacklistedConnNotLifted ==
  ASSUME NEW f, NEW w, NEW d \in Conn, d.to_block
  PROVE  check_blacklisted_conn_cb(f, w, d).to_block
<1> DEFINE app == d.uid \in w
           unip == d.blacklisted_ip /\ (app \/ d.ip \in w)
           undomain == d.blacklisted_domain /\ (app \/ d.info \in w)
           i == d.blacklisted_ip /\ ~unip
           h == d.blacklisted_domain /\ ~undomain
           e == [d EXCEPT !.whitelisted_app = app, !.blacklisted_ip = i,
                          !.blacklisted_domain = h]
           b == \/ ~e.blacklisted_internal \/ ~e.blacklisted_ip \/ ~e.blacklisted_domain
                \/ f.enabled /\ Blocklisted(f, e)
           g == [e EXCEPT !.to_block = b]
<1>1. check_blacklisted_conn_cb(f, w, d) =
        IF (unip \/ undomain) /\ f.bl # Null
        THEN check_whitelist_mode_block(f, g) ELSE e
  <2>1. [d EXCEPT !.whitelisted_app = app, !.blacklisted_ip = @ /\ ~unip,
                  !.blacklisted_domain = @ /\ ~undomain] = e
    BY DEF Conn
  <2> QED BY <2>1 DEF check_blacklisted_conn_cb, check_blocked_conn_cb
<1>2. /\ app \in BOOLEAN /\ i \in BOOLEAN /\ h \in BOOLEAN
      /\ unip => ~i
      /\ undomain => ~h
  OBVIOUS
<1> HIDE DEF app, unip, undomain, i, h
<1>3. e \in Conn /\ e.to_block /\ e.blacklisted_ip = i /\ e.blacklisted_domain = h
  BY ZenonT(60), <1>2 DEF Conn
<1>4. b \in BOOLEAN /\ (unip \/ undomain => b)
  BY <1>2, <1>3
<1> HIDE DEF e, b
<1>5. g \in Conn /\ g.to_block = b
  BY <1>3, <1>4 DEF Conn
<1> HIDE DEF g
<1>6. Further(g, check_whitelist_mode_block(f, g))
  BY <1>5, WhitelistModeBlocks
<1> QED BY <1>1, <1>3, <1>4, <1>5, <1>6 DEF Further

LEMMA HousekeepingNotLifted ==
  ASSUME Types, NEW dump \in BOOLEAN, NEW bl, pd_housekeeping(dump, bl),
         firewall' = firewall, NEW c \in Conns, conns[c].to_block
  PROVE  conns'[c].to_block
<1> DEFINE w == WhitelistLoaded(firewall)
<1>1. conns[c] \in Conn
  BY DEF Types
<1>2. w[c] \in Conn /\ w[c].to_block
  <2>1. w[c] = conns[c] \/ w[c] = check_blacklisted_conn_cb(firewall, malware.new_wl, conns[c])
    BY DEF WhitelistLoaded
  <2> HIDE DEF w
  <2> QED BY <1>1, <2>1, BlacklistedConnNotLifted, BlacklistedConnEnforced
<1>3. conns'[c] = [w[c] EXCEPT !.new = @ /\ ~dump]
  <2>1. firewall' = FirewallLoaded(firewall)
    BY DEF pd_housekeeping
  <2>2. conns' = Checked(firewall, Dumped(dump, w))
    BY DEF pd_housekeeping
  <2> HIDE DEF w
  <2> QED BY <2>2 DEF Checked, Dumped
<1> HIDE DEF w
<1> QED BY <1>2, <1>3 DEF Conn

LEMMA StepNotLifted ==
  ASSUME Inv, [Next]_vars, firewall' = firewall,
         NEW c \in Conns, conns[c].alive, conns[c].to_block, conns'[c].alive
  PROVE  conns'[c].to_block
<1>0. Types /\ conns[c] \in Conn /\ conns \in [Conns -> Conn]
  BY TypeParts DEF Inv, Types
<1>1. ASSUME NEW e \in Conns, NEW b \in Births, NEW ip \in Ips,
             pd_new_connection(e, b[1], ip, b[2])
      PROVE  conns'[c].to_block
  <2>1. c # e
    BY <1>1 DEF pd_new_connection
  <2>2. conns'[c] = netd_resolved(b[1], HostOf(ip), conns[c])
    BY <1>1, <2>1 DEF pd_new_connection
  <2> QED BY <1>0, <2>2 DEF netd_resolved, Conn
<1>2. ASSUME NEW e \in Conns, NEW found \in Hosts \union {NoHost}, NEW internal \in BOOLEAN,
             process_ndpi_data(e, found, internal)
      PROVE  conns'[c].to_block
  <2> DEFINE d == conns[e]
             d1 == IF Found(d, found) THEN Learned(d, found) ELSE d
             d2 == IF Found(d, found) THEN check_blacklisted_domain(d1) ELSE d
  <2>1. d1 \in Conn /\ d1.to_block = d.to_block
    BY <1>0 DEF Conn, Learned
  <2>2. d2 \in Conn /\ (d.to_block => d2.to_block)
    <3>1. check_blacklisted_domain(d1) \in Conn /\ Further(d1, check_blacklisted_domain(d1))
      BY <2>1, DomainBlocks
    <3> QED BY <1>0, <2>1, <3>1 DEF Further
  <2>3. conns' = [conns EXCEPT ![e] = vpn_process_ndpi(d2, internal)]
    BY <1>2 DEF process_ndpi_data
  <2> HIDE DEF d2
  <2>4. Further(d2, vpn_process_ndpi(d2, internal))
    BY <2>2, VpnProcessNdpiFurther
  <2> QED BY <1>0, <2>2, <2>3, <2>4 DEF Further
<1>3. ASSUME NEW e \in Conns, connection_closed(e)
      PROVE  conns'[c].to_block
  BY <1>0, <1>3, NoConnType DEF connection_closed
<1>4. CASE housekeeping
  BY <1>0, <1>4, HousekeepingNotLifted DEF housekeeping
<1>5. CASE UNCHANGED conns
  BY <1>5
<1> QED
  BY <1>1, <1>2, <1>3, <1>4, <1>5
  DEF Next, process_dns_reply, reloadBlocklist, reloadFirewallWhitelist,
      reloadMalwareWhitelist, nativeSetFirewallEnabled, vars

(* The verdict of a living connection is lifted by nothing but a new list:  *)
(* by check_blocked_conn_cb in pd_housekeeping, for a blocklist or a        *)
(* whitelist of the firewall.                                              *)
THEOREM FirewallVerdictStays == Spec => LiftedByLists
<1>1. Inv /\ [Next]_vars
        => [(\E c \in Conns : Lifted(c))
              => firewall' # firewall \/ malware'.whitelist # malware.whitelist]_vars
  BY StepNotLifted DEF Lifted
<1> QED BY <1>1, InitInv, StepInv, PTL DEF Spec, LiftedByLists
=============================================================================
