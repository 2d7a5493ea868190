----------------------------- MODULE HttpClient -----------------------------
(***************************************************************************)
(* The HTTP client of the pages (services/api/httpClient.js): requests     *)
(* that come back with 401 because the access token has expired, the one   *)
(* refresh that is made for all of them, the requests that wait for it,    *)
(* and what happens around it: logout, login, and the full page load that  *)
(* a failed refresh causes.                                                *)
(*                                                                         *)
(* Tokens are numbered in the order in which the server issues them; 0 is  *)
(* no token.  Requests are those that are not excepted from refreshing     *)
(* (shouldSkipTokenRefresh: login, registration, second factor).  The      *)
(* answer to a refresh is whatever a server may answer; this repository's  *)
(* own refuses each (README, "Findings").                                  *)
(*                                                                         *)
(* An operator named X_... before an operator X is X as a plausible slip   *)
(* would have it; no specification uses it but the checks of the           *)
(* properties (README, "Mutants").                                         *)
(***************************************************************************)
EXTENDS Naturals, FiniteSets

CONSTANTS
  Requests,       \* the calls of httpClient
  MaxTokens       \* bound: the access tokens the server issues

ASSUME RequestsAssumption == IsFiniteSet(Requests)
ASSUME MaxTokensAssumption == MaxTokens \in Nat \ {0}

VARIABLES
  access,         \* localStorage: token
  refresh,        \* localStorage has a refreshToken
  issued,         \* the last access token issued
  expired,        \* the last one that has expired: they do in the order of issue
  page,           \* the route; "leaving" once a full page load has been asked for
  isRefreshing,
  st,             \* where each request is; those in failedQueue are "waiting"
  retry,          \* its _retry mark
  carried,        \* the token it has been sent with, while it is on its way
  sends           \* how often it has been sent

storage == <<access, refresh>>
server == <<issued, expired>>
requests == <<st, retry, carried, sends>>
vars == <<storage, server, page, isRefreshing, requests>>

(* A request is repeated after the refresh of another one, or of its own. *)
MaxSends == Cardinality(Requests) + 1

Ended == {"resolved", "rejected", "gone"}
States == {"idle", "sent", "waiting", "refreshing"} \cup Ended

TypeOK ==
  /\ access \in 0..issued
  /\ refresh \in BOOLEAN
  /\ issued \in 1..MaxTokens
  /\ expired \in 0..issued
  /\ page \in {"app", "login", "embed", "leaving"}
  /\ isRefreshing \in BOOLEAN
  /\ st \in [Requests -> States]
  /\ retry \in [Requests -> BOOLEAN]
  /\ carried \in [Requests -> 0..issued]
  /\ sends \in [Requests -> 0..MaxSends]

(* A page of the application that somebody is logged in to, or a page embedded
   in another site, whose browser may have the tokens of a login or not. *)
Init ==
  /\ \/ page = "app" /\ access = 1 /\ refresh = TRUE
     \/ page = "embed" /\ \/ access = 1 /\ refresh = TRUE
                          \/ access = 0 /\ refresh = FALSE
  /\ issued = 1
  /\ expired = 0
  /\ isRefreshing = FALSE
  /\ st = [r \in Requests |-> "idle"]
  /\ retry = [r \in Requests |-> FALSE]
  /\ carried = [r \in Requests |-> 0]
  /\ sends = [r \in Requests |-> 0]
-----------------------------------------------------------------------------
In(state) == {r \in Requests : st[r] = state}

(* The requests rs get to a state.  One that is sent takes its token from
   localStorage, repetitions included (the request interceptor). *)
Move(rs, state) ==
  /\ st' = [r \in Requests |-> IF r \in rs THEN state ELSE st[r]]
  /\ carried' = [r \in Requests |->
        IF r \notin rs THEN carried[r] ELSE IF state = "sent" THEN access' ELSE 0]
  /\ sends' = [r \in Requests |->
        IF r \in rs /\ state = "sent" THEN sends[r] + 1 ELSE sends[r]]

(* storage.clearAuthData, redirectToLoginIfNeeded *)
SignOut ==
  /\ access' = 0 /\ refresh' = FALSE
  /\ page' = IF page \in {"embed", "login"} THEN page ELSE "leaving"

Accepted(r) == carried[r] > expired

Send(r) ==
  /\ st[r] = "idle" /\ page # "leaving"
  /\ UNCHANGED <<storage, server, page, isRefreshing, retry>>
  /\ Move({r}, "sent")

(* The answer, or an error that has nothing to do with the token. *)
Succeed(r) ==
  /\ st[r] = "sent" /\ Accepted(r)
  /\ Move({r}, "resolved")
  /\ UNCHANGED <<storage, server, page, isRefreshing, retry>>

Fail(r) ==
  /\ st[r] = "sent"
  /\ Move({r}, "rejected")
  /\ UNCHANGED <<storage, server, page, isRefreshing, retry>>

Unauthorized_NoRetryMark(r) ==
  /\ st[r] = "sent" /\ ~Accepted(r)
  /\ ~isRefreshing /\ refresh
  /\ isRefreshing' = TRUE
  /\ Move({r}, "refreshing")
  /\ UNCHANGED <<storage, server, page, retry>>

Unauthorized_EachRefreshes(r) ==
  /\ st[r] = "sent" /\ ~Accepted(r)
  /\ refresh
  /\ retry' = [retry EXCEPT ![r] = TRUE]
  /\ isRefreshing' = TRUE
  /\ Move({r}, "refreshing")
  /\ UNCHANGED <<storage, server, page>>

(* 401: the second one ends the request; while a refresh is in progress it waits
   for that; otherwise it refreshes, if there is a token to do it with.  Without
   one it ends and leaves isRefreshing set. *)
Unauthorized(r) ==
  /\ st[r] = "sent" /\ ~Accepted(r)
  /\ \/ /\ retry[r]
        /\ Move({r}, "rejected")
        /\ UNCHANGED <<storage, page, isRefreshing, retry>>
     \/ /\ ~retry[r] /\ isRefreshing
        /\ Move({r}, "waiting")
        /\ UNCHANGED <<storage, page, isRefreshing, retry>>
     \/ /\ ~retry[r] /\ ~isRefreshing
        /\ retry' = [retry EXCEPT ![r] = TRUE]
        /\ isRefreshing' = TRUE
        /\ \/ /\ ~refresh
              /\ SignOut
              /\ Move({r}, "rejected")
           \/ /\ refresh
              /\ Move({r}, "refreshing")
              /\ UNCHANGED <<storage, page>>
  /\ UNCHANGED server

RefreshSucceeds_ForgetsQueue(r) ==
  /\ st[r] = "refreshing"
  /\ issued < MaxTokens
  /\ issued' = issued + 1
  /\ access' = issued'
  /\ Move({r}, "sent")
  /\ isRefreshing' = FALSE
  /\ UNCHANGED <<refresh, expired, page, retry>>

(* The server issues a token: it is stored, and the waiting requests and the one
   that refreshed are sent again. *)
RefreshSucceeds(r) ==
  /\ st[r] = "refreshing"
  /\ issued < MaxTokens
  /\ issued' = issued + 1
  /\ access' = issued'
  /\ Move(In("waiting") \cup {r}, "sent")
  /\ isRefreshing' = FALSE
  /\ UNCHANGED <<refresh, expired, page, retry>>

RefreshFails_ForgetsQueue(r) ==
  /\ st[r] = "refreshing"
  /\ Move({r}, "rejected")
  /\ SignOut
  /\ isRefreshing' = FALSE
  /\ UNCHANGED <<server, retry>>

(* The server refuses the refresh token, or cannot be reached: all of them end
   with that error. *)
RefreshFails(r) ==
  /\ st[r] = "refreshing"
  /\ Move(In("waiting") \cup {r}, "rejected")
  /\ SignOut
  /\ isRefreshing' = FALSE
  /\ UNCHANGED <<server, retry>>

(* The page load that SignOut has asked for: the module starts anew. *)
Unload ==
  /\ page = "leaving"
  /\ page' = "login"
  /\ isRefreshing' = FALSE
  /\ Move({r \in Requests : st[r] \notin Ended \cup {"idle"}}, "gone")
  /\ UNCHANGED <<storage, server, retry>>

(* The user logs out and in; the page changes its route without a page load, so
   requests and a refresh in progress go on. *)
Logout ==
  /\ page = "app"
  /\ access' = 0 /\ refresh' = FALSE
  /\ page' = "login"
  /\ UNCHANGED <<server, isRefreshing, requests>>

Login ==
  /\ page = "login" /\ issued < MaxTokens
  /\ issued' = issued + 1
  /\ access' = issued' /\ refresh' = TRUE
  /\ page' = "app"
  /\ UNCHANGED <<expired, isRefreshing, requests>>

(* Half an hour has passed. *)
Expire ==
  /\ expired < issued
  /\ expired' = expired + 1
  /\ UNCHANGED <<storage, issued, page, isRefreshing, requests>>

Next ==
  \/ \E r \in Requests :
       \/ Send(r) \/ Succeed(r) \/ Fail(r) \/ Unauthorized(r)
       \/ RefreshSucceeds(r) \/ RefreshFails(r)
  \/ Unload \/ Logout \/ Login \/ Expire

Spec == Init /\ [][Next]_vars

(* The browser ends every HTTP call, with an answer or an error, and loads the
   page it was told to load.  Nobody has to send, to log in or out. *)
Fairness ==
  /\ \A r \in Requests :
       /\ WF_vars(Succeed(r) \/ Fail(r) \/ Unauthorized(r))
       /\ WF_vars(RefreshSucceeds(r) \/ RefreshFails(r))
  /\ WF_vars(Unload)

FairSpec == Spec /\ Fairness
-----------------------------------------------------------------------------
(* However many requests come back with 401, and whoever logs out or in
   meanwhile, there is one refresh at a time. *)
OneRefresh == \A r, s \in In("refreshing") : r = s

(* A refresh that has ended leaves nobody waiting for it: what came while it
   was in progress, repetitions included, has been sent again or rejected. *)
NobodyLeftBehind == In("waiting") # {} => isRefreshing

(* A server that refuses every token is not called in a loop: a request is sent
   once, and once more at most for each request that has made a refresh. *)
NoStorm == \A r \in Requests : sends[r] <= 1 + Cardinality({s \in Requests : retry[s]})

(* The code's way out of this discipline (httpClient.js 88-95): a 401 without a
   refresh token leaves isRefreshing set, and on a page that is not left for it
   every later request that gets a 401 waits for ever. *)
Abandoned == isRefreshing /\ In("refreshing") = {}

(* A request ends, whatever its own refresh, another's or a page load does to
   it, unless the client has been abandoned. *)
Settles ==
  \A r \in Requests :
    st[r] \in {"sent", "waiting", "refreshing"} ~> (st[r] \in Ended \/ Abandoned)
=============================================================================
