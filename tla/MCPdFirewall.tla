---------------------------- MODULE MCPdFirewall ----------------------------
(* One app beside netd and the unknown uid, small lists of each kind of    *)
(* match.                                                                  *)
EXTENDS PdFirewall, TLC

CONSTANTS c1, c2, a1, i1, h1

Symmetry == Permutations(Conns)

MCBirths == {<<a1, FALSE>>, <<Netd, TRUE>>, <<UidUnknown, FALSE>>}
MCBlocklists == {{}, {a1, i1}, {h1}}
MCWhitelists == {{}}
(* The empty one blocks every address and host: only then has a connection *)
(* all three flags, and a new list may lift its block.                     *)
MCMalwareLists == {{}, {i1}}
MCMalwareWhitelists == {{h1}}
=============================================================================
