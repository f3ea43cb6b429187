---------------------------- MODULE MCRouteStore ----------------------------
(* Two modules, so that a map can be half filled.                            *)
EXTENDS RouteStore
CONSTANTS m1, m2, h1, r1
MCMods == {m1, m2}
MCHosts == {h1}
MCReaders == {r1}
=============================================================================
