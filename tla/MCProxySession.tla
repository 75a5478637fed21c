--------------------------- MODULE MCProxySession ---------------------------
(* Small instances of ProxySession for TLC. *)
EXTENDS ProxySession

CONSTANTS c1, c2, r1

=============================================================================
