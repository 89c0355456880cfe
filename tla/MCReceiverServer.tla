-------------------------- MODULE MCReceiverServer --------------------------
(* A small instance of ReceiverServer for TLC: a sender that asks and then    *)
(* uploads on one connection, one that only uploads, and a silent one.    *)
EXTENDS ReceiverServer, TLC

CONSTANTS c1, c2, c3, p1, p2, p3, friend, stranger

MCKinds == c1 :> {"discover", "ask", "links", "upload", "other"} @@ c2 :> {"upload"} @@ c3 :> {}
MCPeers == c1 :> {p1} @@ c2 :> {p2} @@ c3 :> {p1, p3}
MCCerts == c1 :> {friend, stranger} @@ c2 :> {} @@ c3 :> {}
MCRequests == c1 :> 2 @@ c2 :> 1 @@ c3 :> 0
=============================================================================
