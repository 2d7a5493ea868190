-------------------------- MODULE HttpClientProofs --------------------------
(***************************************************************************)
(* HttpClient's invariants for any requests and any number of tokens.      *)
(*                                                                         *)
(* NoStorm is made inductive by counting only the refreshes that are over: *)
(* a refresh that succeeds is the only thing that sends a request again,   *)
(* and it adds its own request to Spent, for good.                         *)
(***************************************************************************)
EXTENDS HttpClient, FiniteSetTheorems, TLAPS

Marked == {s \in Requests : retry[s]}
Spent == {s \in Requests : retry[s] /\ st[s] # "refreshing"}

Typed ==
  /\ access \in 0..issued
  /\ refresh \in BOOLEAN
  /\ issued \in 1..MaxTokens
  /\ expired \in 0..issued
  /\ page \in {"app", "login", "embed", "leaving"}
  /\ isRefreshing \in BOOLEAN
  /\ st \in [Requests -> States]
  /\ retry \in [Requests -> BOOLEAN]
  /\ carried \in [Requests -> 0..issued]
  /\ sends \in [Requests -> Nat]

Flagged ==
  /\ OneRefresh
  /\ NobodyLeftBehind
  /\ In("refreshing") # {} => isRefreshing

Paid ==
  \A r \in Requests :
    /\ st[r] = "idle" => sends[r] = 0
    /\ st[r] = "refreshing" => retry[r]
    /\ sends[r] <= 1 + Cardinality(Spent)

IInv == Typed /\ Flagged /\ Paid

LEMMA Finite ==
  /\ IsFiniteSet(Spent) /\ IsFiniteSet(Marked) /\ IsFiniteSet(Requests)
  /\ Cardinality(Spent) \in Nat /\ Cardinality(Marked) \in Nat /\ Cardinality(Requests) \in Nat
  /\ Cardinality(Spent) <= Cardinality(Marked) /\ Cardinality(Marked) <= Cardinality(Requests)
<1>1. Spent \subseteq Marked /\ Marked \subseteq Requests
  BY DEF Spent, Marked
<1> QED
  BY <1>1, RequestsAssumption, FS_Subset, FS_CardinalityType

LEMMA Initial == Init => IInv
<1> SUFFICES ASSUME Init PROVE IInv
  OBVIOUS
<1>1. Typed
  <2>1. 0 \in 0..1 /\ 1 \in 0..1 /\ 1 \in 1..MaxTokens
    BY MaxTokensAssumption
  <2> QED
    BY <2>1 DEF Init, Typed, States
<1>2. Flagged
  BY DEF Init, Flagged, OneRefresh, NobodyLeftBehind, In
<1>3. Paid
  BY Finite DEF Init, Paid
<1> QED
  BY <1>1, <1>2, <1>3 DEF IInv

(* What the invariants say of the properties. *)
LEMMA Implied == IInv => TypeOK /\ OneRefresh /\ NobodyLeftBehind /\ NoStorm
<1> SUFFICES ASSUME IInv PROVE TypeOK /\ OneRefresh /\ NobodyLeftBehind /\ NoStorm
  OBVIOUS
<1>1. \A r \in Requests : sends[r] \in Nat /\ sends[r] <= 1 + Cardinality(Marked)
  BY Finite DEF IInv, Typed, Paid
<1>2. NoStorm
  BY <1>1 DEF NoStorm, Marked
<1>3. \A r \in Requests : sends[r] \in 0..MaxSends
  BY <1>1, Finite DEF MaxSends
<1>4. sends \in [Requests -> 0..MaxSends]
  BY <1>3 DEF IInv, Typed
<1> QED
  BY <1>2, <1>4 DEF IInv, Typed, TypeOK, Flagged

(* A step that repeats nothing and gives no mark back keeps the count. *)
LEMMA SpentGrows ==
  ASSUME Spent \subseteq Spent'
  PROVE  /\ Cardinality(Spent)' \in Nat
         /\ Cardinality(Spent) <= Cardinality(Spent)'
<1>1. IsFiniteSet(Spent')
  <2>1. Spent' \subseteq Requests
    BY DEF Spent
  <2> QED
    BY <2>1, RequestsAssumption, FS_Subset
<1> QED
  BY <1>1, FS_Subset, FS_CardinalityType

LEMMA Moving ==
  ASSUME IInv, NEW rs \in SUBSET Requests, NEW state \in States, Move(rs, state),
         issued' \in 1..MaxTokens, issued <= issued', access' \in 0..issued'
  PROVE  /\ st' \in [Requests -> States]
         /\ carried' \in [Requests -> 0..issued']
         /\ sends' \in [Requests -> Nat]
         /\ \A r \in Requests : st'[r] = IF r \in rs THEN state ELSE st[r]
         /\ state # "sent" => sends' = sends
<1>1. st' \in [Requests -> States] /\ \A r \in Requests : st'[r] = IF r \in rs THEN state ELSE st[r]
  BY DEF Move, IInv, Typed
<1>2. carried' \in [Requests -> 0..issued']
  <2>1. \A r \in Requests : carried[r] \in 0..issued'
    BY MaxTokensAssumption DEF IInv, Typed
  <2>2. 0 \in 0..issued'
    BY MaxTokensAssumption
  <2> QED
    BY <2>1, <2>2 DEF Move
<1>3. sends' \in [Requests -> Nat] /\ (state # "sent" => sends' = sends)
  BY DEF Move, IInv, Typed
<1> QED
  BY <1>1, <1>2, <1>3

LEMMA Quiet ==
  ASSUME IInv, sends' = sends, Spent \subseteq Spent',
         \A r \in Requests : st'[r] = "idle" => st[r] = "idle",
         \A r \in Requests : st'[r] = "refreshing" => retry'[r]
  PROVE  Paid'
<1>1. \A r \in Requests : sends[r] \in Nat /\ sends[r] <= 1 + Cardinality(Spent)
  BY DEF IInv, Typed, Paid
<1>2. \A r \in Requests : sends'[r] <= 1 + Cardinality(Spent)'
  BY <1>1, SpentGrows, Finite
<1> QED
  BY <1>2 DEF IInv, Paid

LEMMA SendStep == \A r \in Requests : IInv /\ Send(r) => IInv'
<1> SUFFICES ASSUME NEW r \in Requests, IInv, Send(r) PROVE IInv'
  OBVIOUS
<1>1. /\ st[r] = "idle" /\ Move({r}, "sent")
      /\ UNCHANGED <<access, refresh, issued, expired, page, isRefreshing, retry>>
  BY DEF Send, storage, server
<1>2. /\ st' \in [Requests -> States] /\ carried' \in [Requests -> 0..issued']
      /\ sends' \in [Requests -> Nat]
      /\ \A s \in Requests : st'[s] = IF s = r THEN "sent" ELSE st[s]
  BY <1>1, Moving, MaxTokensAssumption DEF IInv, Typed, States, Ended
<1>3. Typed'
  BY <1>1, <1>2 DEF IInv, Typed
<1>4. Flagged'
  BY <1>1, <1>2 DEF IInv, Flagged, OneRefresh, NobodyLeftBehind, In
<1>5. Paid'
  <2>1. Spent' = Spent
    BY <1>1, <1>2 DEF Spent
  <2>2. \A s \in Requests : sends'[s] = IF s = r THEN sends[s] + 1 ELSE sends[s]
    BY <1>1 DEF Move
  <2>3. sends[r] = 0
    BY <1>1 DEF IInv, Paid
  <2> QED
    BY <1>1, <1>2, <2>1, <2>2, <2>3, Finite DEF IInv, Paid
<1> QED
  BY <1>3, <1>4, <1>5 DEF IInv

LEMMA EndStep == \A r \in Requests : IInv /\ (Succeed(r) \/ Fail(r)) => IInv'
<1> SUFFICES ASSUME NEW r \in Requests, IInv, NEW state \in {"resolved", "rejected"},
                    st[r] = "sent", Move({r}, state),
                    UNCHANGED <<access, refresh, issued, expired, page, isRefreshing, retry>>
             PROVE  IInv'
  BY DEF Succeed, Fail, storage, server
<1>1. /\ st' \in [Requests -> States] /\ carried' \in [Requests -> 0..issued']
      /\ sends' = sends
      /\ \A s \in Requests : st'[s] = IF s = r THEN state ELSE st[s]
  BY Moving DEF IInv, Typed, States, Ended
<1>2. Typed'
  BY <1>1 DEF IInv, Typed
<1>3. Flagged'
  BY <1>1 DEF IInv, Flagged, OneRefresh, NobodyLeftBehind, In
<1>4. Paid'
  <2>1. Spent \subseteq Spent'
    BY <1>1 DEF Spent
  <2> QED
    BY <1>1, <2>1, Quiet DEF IInv, Paid
<1> QED
  BY <1>2, <1>3, <1>4 DEF IInv

LEMMA SignOutType ==
  ASSUME IInv, SignOut
  PROVE  access' = 0 /\ refresh' = FALSE /\ page' \in {"app", "login", "embed", "leaving"}
  BY DEF SignOut, IInv, Typed

LEMMA UnauthorizedStep == \A r \in Requests : IInv /\ Unauthorized(r) => IInv'
<1> SUFFICES ASSUME NEW r \in Requests, IInv, Unauthorized(r) PROVE IInv'
  OBVIOUS
<1>1. st[r] = "sent" /\ UNCHANGED <<issued, expired>>
  BY DEF Unauthorized, server
<1>2. PICK state \in {"rejected", "waiting", "refreshing"} : Move({r}, state)
  BY DEF Unauthorized
<1>3. /\ access' \in 0..issued' /\ refresh' \in BOOLEAN
      /\ page' \in {"app", "login", "embed", "leaving"}
  <2>1. 0 \in 0..issued
    BY DEF IInv, Typed
  <2> QED
    BY <1>1, <2>1, SignOutType DEF Unauthorized, storage, IInv, Typed
<1>4. /\ st' \in [Requests -> States] /\ carried' \in [Requests -> 0..issued']
      /\ sends' = sends
      /\ \A s \in Requests : st'[s] = IF s = r THEN state ELSE st[s]
  BY <1>1, <1>2, <1>3, Moving DEF IInv, Typed, States, Ended
<1>5. /\ retry' \in [Requests -> BOOLEAN] /\ isRefreshing' \in BOOLEAN
      /\ \A s \in Requests : retry[s] => retry'[s]
      /\ isRefreshing => isRefreshing'
      /\ state = "waiting" => isRefreshing'
      /\ state = "refreshing" => ~retry[r] /\ retry'[r] /\ ~isRefreshing /\ isRefreshing'
  <2>1. CASE retry[r] /\ Move({r}, "rejected") /\ UNCHANGED <<isRefreshing, retry>>
    <3>1. state = "rejected"
      BY <1>2, <1>4, <2>1 DEF Move, IInv, Typed
    <3> QED
      BY <2>1, <3>1 DEF IInv, Typed
  <2>2. CASE isRefreshing /\ Move({r}, "waiting") /\ UNCHANGED <<isRefreshing, retry>>
    <3>1. state = "waiting"
      BY <1>2, <1>4, <2>2 DEF Move, IInv, Typed
    <3> QED
      BY <2>2, <3>1 DEF IInv, Typed
  <2>3. CASE ~retry[r] /\ ~isRefreshing /\ retry' = [retry EXCEPT ![r] = TRUE] /\ isRefreshing' = TRUE
    BY <2>3 DEF IInv, Typed
  <2> QED
    BY <2>1, <2>2, <2>3 DEF Unauthorized
<1>6. Typed'
  BY <1>1, <1>3, <1>4, <1>5 DEF IInv, Typed
<1>7. Flagged'
  BY <1>4, <1>5 DEF IInv, Flagged, OneRefresh, NobodyLeftBehind, In
<1>8. Paid'
  <2>1. Spent \subseteq Spent'
    BY <1>1, <1>4, <1>5 DEF Spent, IInv, Flagged, In
  <2>2. \A s \in Requests : st'[s] = "refreshing" => retry'[s]
    BY <1>4, <1>5 DEF IInv, Paid
  <2> QED
    BY <1>4, <2>1, <2>2, Quiet
<1> QED
  BY <1>6, <1>7, <1>8 DEF IInv

LEMMA RefreshSucceedsStep == \A r \in Requests : IInv /\ RefreshSucceeds(r) => IInv'
<1> SUFFICES ASSUME NEW r \in Requests, IInv, RefreshSucceeds(r) PROVE IInv'
  OBVIOUS
<1> DEFINE rs == In("waiting") \cup {r}
<1>1. /\ st[r] = "refreshing" /\ issued < MaxTokens /\ issued' = issued + 1
      /\ access' = issued' /\ Move(rs, "sent") /\ isRefreshing' = FALSE
      /\ UNCHANGED <<refresh, expired, page, retry>>
  BY DEF RefreshSucceeds
<1>2. /\ issued' \in 1..MaxTokens /\ issued <= issued' /\ access' \in 0..issued'
      /\ expired' \in 0..issued'
  BY <1>1, MaxTokensAssumption DEF IInv, Typed
<1>3. /\ st' \in [Requests -> States] /\ carried' \in [Requests -> 0..issued']
      /\ sends' \in [Requests -> Nat]
      /\ \A s \in Requests : st'[s] = IF s \in rs THEN "sent" ELSE st[s]
  <2>1. rs \in SUBSET Requests /\ "sent" \in States
    BY DEF In, States
  <2> QED
    BY <1>1, <1>2, <2>1, Moving
<1>4. Typed'
  BY <1>1, <1>2, <1>3 DEF IInv, Typed
<1>5. \A s \in Requests : st'[s] # "waiting" /\ st'[s] # "refreshing"
  BY <1>1, <1>3 DEF IInv, Flagged, OneRefresh, In
<1>6. Flagged'
  BY <1>5 DEF Flagged, OneRefresh, NobodyLeftBehind, In
<1>7. Paid'
  <2>1. Spent' = Spent \cup {r} /\ r \notin Spent
    BY <1>1, <1>3, <1>5 DEF Spent, IInv, Flagged, OneRefresh, In, Paid
  <2>2. Cardinality(Spent)' = Cardinality(Spent) + 1
    BY <2>1, Finite, FS_AddElement
  <2>3. \A s \in Requests : sends'[s] = IF s \in rs THEN sends[s] + 1 ELSE sends[s]
    BY <1>1 DEF Move
  <2>4. \A s \in Requests : sends'[s] <= 1 + Cardinality(Spent)'
    BY <2>2, <2>3, Finite DEF IInv, Typed, Paid
  <2>5. \A s \in Requests : st'[s] = "idle" => sends'[s] = 0
    BY <1>3, <2>3 DEF IInv, Paid
  <2> QED
    BY <1>5, <2>4, <2>5 DEF Paid
<1> QED
  BY <1>4, <1>6, <1>7 DEF IInv

(* The steps that end several requests at once. *)
LEMMA EndingAll ==
  ASSUME IInv, NEW rs \in SUBSET Requests, NEW state \in Ended, Move(rs, state),
         \A s \in Requests : st[s] \in {"waiting", "refreshing"} => s \in rs,
         access' \in 0..issued, refresh' \in BOOLEAN, isRefreshing' \in BOOLEAN,
         page' \in {"app", "login", "embed", "leaving"},
         UNCHANGED <<issued, expired, retry>>
  PROVE  IInv'
<1>1. /\ st' \in [Requests -> States] /\ carried' \in [Requests -> 0..issued']
      /\ sends' = sends
      /\ \A s \in Requests : st'[s] = IF s \in rs THEN state ELSE st[s]
  BY Moving DEF IInv, Typed, States, Ended
<1>2. Typed'
  BY <1>1 DEF IInv, Typed
<1>3. \A s \in Requests : st'[s] # "waiting" /\ st'[s] # "refreshing"
  BY <1>1 DEF Ended
<1>4. Flagged'
  BY <1>3 DEF Flagged, OneRefresh, NobodyLeftBehind, In
<1>5. Spent \subseteq Spent'
  BY <1>3 DEF Spent
<1>6. Paid'
  BY <1>1, <1>3, <1>5, Quiet DEF Ended
<1> QED
  BY <1>2, <1>4, <1>6 DEF IInv

LEMMA RefreshFailsStep == \A r \in Requests : IInv /\ RefreshFails(r) => IInv'
<1> SUFFICES ASSUME NEW r \in Requests, IInv, RefreshFails(r) PROVE IInv'
  OBVIOUS
<1>1. /\ st[r] = "refreshing" /\ Move(In("waiting") \cup {r}, "rejected")
      /\ SignOut /\ isRefreshing' = FALSE /\ UNCHANGED <<issued, expired, retry>>
  BY DEF RefreshFails, server
<1>2. \A s \in Requests : st[s] \in {"waiting", "refreshing"} => s \in In("waiting") \cup {r}
  BY <1>1 DEF IInv, Flagged, OneRefresh, In
<1>3. In("waiting") \cup {r} \in SUBSET Requests /\ "rejected" \in Ended /\ 0 \in 0..issued
  BY DEF In, Ended, IInv, Typed
<1> QED
  BY <1>1, <1>2, <1>3, SignOutType, EndingAll

LEMMA UnloadStep == IInv /\ Unload => IInv'
<1> SUFFICES ASSUME IInv, Unload PROVE IInv'
  OBVIOUS
<1> DEFINE rs == {r \in Requests : st[r] \notin Ended \cup {"idle"}}
<1>1. /\ Move(rs, "gone") /\ page' = "login" /\ isRefreshing' = FALSE
      /\ UNCHANGED <<access, refresh, issued, expired, retry>>
  BY DEF Unload, storage, server
<1>2. \A s \in Requests : st[s] \in {"waiting", "refreshing"} => s \in rs
  BY DEF Ended
<1>3. rs \in SUBSET Requests /\ "gone" \in Ended
  BY DEF Ended
<1> QED
  BY <1>1, <1>2, <1>3, EndingAll DEF IInv, Typed

LEMMA SessionStep == IInv /\ (Logout \/ Login \/ Expire) => IInv'
<1> SUFFICES ASSUME IInv, Logout \/ Login \/ Expire PROVE IInv'
  OBVIOUS
<1>1. UNCHANGED <<isRefreshing, st, retry, carried, sends>>
  BY DEF Logout, Login, Expire, requests
<1>2. issued' \in 1..MaxTokens /\ issued <= issued' /\ expired' \in 0..issued'
  BY MaxTokensAssumption DEF Logout, Login, Expire, server, IInv, Typed
<1>3. /\ access' \in 0..issued' /\ refresh' \in BOOLEAN
      /\ page' \in {"app", "login", "embed", "leaving"}
  <2>1. CASE Logout
    <3>1. 0 \in 0..issued'
      BY <1>2
    <3> QED
      BY <2>1, <3>1 DEF Logout
  <2>2. CASE Login
    <3>1. issued' \in 0..issued'
      BY <1>2, MaxTokensAssumption
    <3> QED
      BY <2>2, <3>1 DEF Login
  <2>3. CASE Expire
    BY <2>3 DEF Expire, storage, IInv, Typed
  <2> QED
    BY <2>1, <2>2, <2>3
<1>4. \A r \in Requests : carried[r] \in 0..issued'
  BY <1>2, MaxTokensAssumption DEF IInv, Typed
<1>5. Typed'
  BY <1>1, <1>2, <1>3, <1>4 DEF IInv, Typed
<1>6. Flagged' /\ Paid'
  BY <1>1 DEF IInv, Flagged, OneRefresh, NobodyLeftBehind, In, Paid, Spent
<1> QED
  BY <1>5, <1>6 DEF IInv

LEMMA Inductive == IInv /\ [Next]_vars => IInv'
<1> SUFFICES ASSUME IInv, [Next]_vars PROVE IInv'
  OBVIOUS
<1>1. CASE Next
  BY <1>1, SendStep, EndStep, UnauthorizedStep, RefreshSucceedsStep, RefreshFailsStep,
     UnloadStep, SessionStep DEF Next
<1>2. CASE UNCHANGED vars
  BY <1>2 DEF vars, storage, server, requests, IInv, Typed, Flagged, OneRefresh,
              NobodyLeftBehind, In, Paid, Spent
<1> QED
  BY <1>1, <1>2

(* For any requests, logins and expiries (httpClient.js 60-124): one refresh at
   a time, nobody left behind by one that is over, and no request sent more
   often than refreshes have been made. *)
THEOREM Refreshing == Spec => [](TypeOK /\ OneRefresh /\ NobodyLeftBehind /\ NoStorm)
  BY Initial, Inductive, Implied, PTL DEF Spec
=============================================================================
