---------------------------- MODULE MCNbdServer -----------------------------
(***************************************************************************)
(* Bounds for the NBD server.  With the old handshake two clients send two *)
(* requests.  With the new one a client sends three, or two while the      *)
(* Redis connection breaks, or two clients are in the middle of the        *)
(* handshake or of a request together.                                     *)
(***************************************************************************)
EXTENDS NbdServer

Bound(clients, requests, redisBreaks) ==
    [clients |-> clients, requests |-> requests, breaks |-> redisBreaks]

CONSTANTS c1, c2

MCOldBounds == {Bound({c1, c2}, 2, 1)}
MCNewBounds == {Bound({c1}, 3, 0), Bound({c1}, 2, 1), Bound({c1, c2}, 1, 0)}
MCStoredBounds == {Bound({c1}, 1, 1)}
=============================================================================
