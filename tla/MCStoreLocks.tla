---------------------------- MODULE MCStoreLocks ----------------------------
(* Three goroutines, one request: one that issues tokens, one that rotates *)
(* and deletes them, and one that issues and reads.                        *)
EXTENDS StoreLocks, TLC

CONSTANTS a1, c1, c2, c3, client

MCAuthReqs == {a1}
MCCalls == {c1, c2, c3}
MCClients == {client}
MCUsedMethods ==
    c1 :> {"CreateAccessTokenSession", "CreateRefreshTokenSession"} @@
    c2 :> {"RotateRefreshToken", "DeleteRefreshTokenSession"} @@
    c3 :> {"CreateAccessTokenSession", "GetAccessTokenSession",
           "GetRefreshTokenSession", "SetTokenLifespans"}
=============================================================================
