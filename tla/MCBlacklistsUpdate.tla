------------------------- MODULE MCBlacklistsUpdate -------------------------
(* Two lists, as each mode of the app has: one of domains, one of addresses. *)
EXTENDS BlacklistsUpdate
CONSTANTS domains, ips
MCLists == <<domains, ips>>
=============================================================================
