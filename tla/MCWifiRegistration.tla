------------------------- MODULE MCWifiRegistration -------------------------
(* WifiRegistration with few registrations and proxies. *)
EXTENDS WifiRegistration, TLC

CONSTANTS x1, x2, x3, x4, u1, u2, y1, y2, z1, z2

Symmetric == Permutations(Proxy) \cup Permutations(Token) \cup Permutations(Path)
               \cup Permutations(Address)
=============================================================================
