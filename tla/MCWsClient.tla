----------------------------- MODULE MCWsClient -----------------------------
(* Three sockets: the current one and two replaced ones whose close events are
   still to come.  Two addresses (the page changes the assistant), two
   attempts before giving up, three waiters (the registered one, the one that
   replaces it, and one after that). *)
EXTENDS WsClient, TLC
CONSTANTS s1, s2, s3, u1, u2, w1, w2, w3

MCSockets == {s1, s2, s3}
MCUrls == {u1, u2}
MCWaiters == {w1, w2, w3}
=============================================================================
