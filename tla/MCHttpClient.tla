---------------------------- MODULE MCHttpClient ----------------------------
(* Three requests: one that refreshes, one that waits for it, and one that comes
   back when the refresh is over.  Five tokens: the first one, and more than
   there are requests to refresh it or logins to replace it between them. *)
EXTENDS HttpClient, TLC
CONSTANTS r1, r2, r3

MCRequests == {r1, r2, r3}
=============================================================================
