--------------------------- MODULE MCWebSocketHub ---------------------------
(***************************************************************************)
(* Small instances of WebSocketHub for TLC.                                *)
(***************************************************************************)
EXTENDS WebSocketHub, TLC

CONSTANTS c1, c2, u1

MCUserOf == (c1 :> u1) @@ (c2 :> u1)

Symmetry == Permutations(Clients) \cup Permutations(Rooms)

=============================================================================
