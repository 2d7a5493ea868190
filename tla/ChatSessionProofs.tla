------------------------- MODULE ChatSessionProofs -------------------------
(***************************************************************************)
(* What ChatSession keeps for any connections, any number of texts and any *)
(* faults.  HistoryOrdered is not inductive: where a handler stands in its *)
(* turn says whether it still owes the database a text or a reply, and     *)
(* Owed puts that into the counts.  A handler that hangs in the middle of  *)
(* a turn may have saved its reply, but it never goes on.                  *)
(*                                                                         *)
(* The second part shows that ChatSession implements ChatTurns while no    *)
(* page reconnects over a handler that still runs (OneSession).            *)
(***************************************************************************)
EXTENDS ChatSession, TLAPS

Unsaved(c) == IF pc[c] = "saving" THEN 1 ELSE 0
Unreplied(c) == IF pc[c] = "llm" /\ ~hung THEN 1 ELSE 0

Owed ==
  \A c \in Conns :
    /\ asked[c] + inbox[c] + Unsaved(c) <= texts[c]
    /\ replied[c] + Unreplied(c) <= asked[c]

IInv == TypeOK /\ EntryAlive /\ Owed

Links == [Conns -> {"none", "up", "down", "marked"}]

LEMMA Initial == Init => IInv
<1> SUFFICES ASSUME Init PROVE IInv
  OBVIOUS
<1>1. TypeOK
  <2>1. 0 \in 0..MaxTexts
    BY MaxTextsAssumption
  <2>2. /\ inbox \in [Conns -> 0..MaxTexts] /\ texts \in [Conns -> 0..MaxTexts]
        /\ asked \in [Conns -> 0..MaxTexts] /\ replied \in [Conns -> 0..MaxTexts]
    BY <2>1 DEF Init
  <2>3. active \in Conns \cup {None} /\ pc \in [Conns -> Steps]
    BY DEF Init, Steps
  <2>4. client \in [Conns -> {"new", "on", "off"}]
    BY DEF Init
  <2>5. link \in [Conns -> {"none", "up", "down", "marked"}]
    BY DEF Init
  <2>6. thinking \in [Conns -> BOOLEAN] /\ shown \in [Conns -> Nat] /\ hung \in BOOLEAN
    BY DEF Init
  <2> QED
    BY <2>2, <2>3, <2>4, <2>5, <2>6 DEF TypeOK
<1>2. EntryAlive
  BY DEF Init, EntryAlive
<1>3. Owed
  BY DEF Init, Owed, Unsaved, Unreplied
<1> QED
  BY <1>1, <1>2, <1>3 DEF IInv

(* How a step of a handler that fails or ends leaves the handler: it stands
   still, or it is at a place where it owes nothing. *)
Settled(c) ==
  \/ pc' = pc
  \/ \E s \in {"receive", "answering", "apologising", "ended"} : pc' = [pc EXCEPT ![c] = s]

LEMMA MarkedType == IInv => Marked \in Links
  BY DEF Marked, IInv, TypeOK, Links

LEMMA ApologiseEffect ==
  ASSUME IInv, NEW c \in Conns, Running(c), ~hung, Apologise(c)
  PROVE  /\ Settled(c) /\ Running(c)'
         /\ \/ hung' = TRUE
            \/ hung' = FALSE /\ pc'[c] \in {"receive", "apologising"}
         /\ link' \in Links /\ thinking' \in [Conns -> BOOLEAN]
<1>1. CASE SendsOrSkips
  BY <1>1 DEF Apologise, ShowIndicator, IInv, TypeOK, Settled, Running, Links
<1>2. CASE ~SendsOrSkips
  BY <1>2, MarkedType DEF Apologise, IInv, TypeOK, Settled, Running
<1> QED
  BY <1>1, <1>2

LEMMA NextTurnEffect ==
  ASSUME IInv, NEW c \in Conns, Running(c), ~hung, NextTurn(c)
  PROVE  /\ Settled(c) /\ Running(c)'
         /\ \/ hung' = TRUE
            \/ hung' = FALSE /\ pc'[c] \in {"receive", "apologising"}
         /\ link' \in Links /\ thinking' \in [Conns -> BOOLEAN]
<1>1. CASE link[c] = "marked"
  BY <1>1, ApologiseEffect DEF NextTurn
<1>2. CASE link[c] # "marked"
  BY <1>2 DEF NextTurn, IInv, TypeOK, Settled, Running, Links
<1> QED
  BY <1>1, <1>2

LEMMA EndEffect ==
  ASSUME IInv, NEW c \in Conns, NEW links \in Links, End(c, links)
  PROVE  /\ active' = None
         /\ Settled(c) /\ pc'[c] = "ended"
         /\ client' \in [Conns -> {"new", "on", "off"}]
         /\ link' \in Links
  BY DEF End, IInv, TypeOK, Links, Settled

(* The registry: its entry goes, or it stays and no handler but c's moves, which
   stays alive. *)
LEMMA EntryKept ==
  ASSUME IInv, NEW c \in Conns, Settled(c),
         active' = None \/ (active' = active /\ Running(c)')
  PROVE  EntryAlive'
  BY DEF IInv, EntryAlive, Running, Settled, TypeOK

(* The counts: with nothing saved, c's handler owes no more than before. *)
LEMMA CountsKept ==
  ASSUME IInv, NEW c \in Conns, Settled(c), ~hung, hung' \in BOOLEAN,
         inbox' = inbox \/ (inbox[c] > 0 /\ Read(c)),
         UNCHANGED <<texts, asked, replied>>
  PROVE  Owed'
<1> SUFFICES ASSUME NEW d \in Conns
             PROVE  /\ asked[d] + inbox'[d] + Unsaved(d)' <= texts[d]
                    /\ replied[d] + Unreplied(d)' <= asked[d]
  BY DEF Owed, Unsaved, Unreplied
<1>1. inbox'[d] \in Nat /\ inbox'[d] <= inbox[d]
  BY MaxTextsAssumption DEF IInv, TypeOK, Read
<1>2. Unsaved(d)' \in {0, 1} /\ Unreplied(d)' \in {0, 1}
  BY DEF Unsaved, Unreplied
<1>3. Unsaved(d)' = 1 => Unsaved(d) = 1
  BY DEF Unsaved, Settled, IInv, TypeOK
<1>4. Unreplied(d)' = 1 => Unreplied(d) = 1
  BY DEF Unreplied, Settled, IInv, TypeOK
<1>5. asked[d] \in Nat /\ inbox[d] \in Nat /\ texts[d] \in Nat /\ replied[d] \in Nat
  BY MaxTextsAssumption DEF IInv, TypeOK
<1>6. Unsaved(d) \in {0, 1} /\ Unreplied(d) \in {0, 1}
  BY DEF Unsaved, Unreplied
<1>7. /\ asked[d] + inbox[d] + Unsaved(d) <= texts[d]
      /\ replied[d] + Unreplied(d) <= asked[d]
  BY DEF IInv, Owed
<1> QED
  BY <1>1, <1>2, <1>3, <1>4, <1>5, <1>6, <1>7

LEMMA SettledType == \A c \in Conns : IInv /\ Settled(c) => pc' \in [Conns -> Steps]
  BY DEF IInv, TypeOK, Settled, Steps

LEMMA ConnectStep == \A c \in Conns : IInv /\ Connect(c) => IInv'
<1> SUFFICES ASSUME NEW c \in Conns, IInv, Connect(c) PROVE IInv'
  OBVIOUS
<1> DEFINE links == [link EXCEPT ![c] = "up"]
<1>1. links \in Links
  BY DEF Links, IInv, TypeOK
<1>2. ~hung /\ UNCHANGED <<inbox, texts, asked, replied, thinking, shown, hung>>
  BY DEF Connect, store, page
<1>3. CASE End(c, links)
  <2>1. /\ active' = None /\ Settled(c)
        /\ client' \in [Conns -> {"new", "on", "off"}] /\ link' \in Links
    BY <1>1, <1>3, EndEffect
  <2>2. EntryAlive'
    BY <2>1, EntryKept
  <2>3. Owed'
    BY <1>2, <2>1, CountsKept DEF IInv, TypeOK
  <2>4. TypeOK'
    BY <1>2, <2>1, SettledType DEF IInv, TypeOK, Links
  <2> QED
    BY <2>2, <2>3, <2>4 DEF IInv
<1>4. CASE /\ active' = c
           /\ pc' = [pc EXCEPT ![c] = "receive"]
           /\ client' = [client EXCEPT ![c] = "on"]
           /\ link' = links
  <2>1. Settled(c)
    BY <1>4 DEF Settled
  <2>2. EntryAlive'
    BY <1>4 DEF EntryAlive, Running, IInv, TypeOK
  <2>3. Owed'
    BY <1>2, <2>1, CountsKept DEF IInv, TypeOK
  <2>4. TypeOK'
    BY <1>1, <1>2, <1>4, <2>1, SettledType DEF IInv, TypeOK, Links
  <2> QED
    BY <2>2, <2>3, <2>4 DEF IInv
<1> QED
  BY <1>3, <1>4 DEF Connect

(* The client's own steps: a text more, or nobody there any more. *)
LEMMA ClientStep == \A c \in Conns : IInv /\ (Say(c) \/ Leave(c) \/ Detect(c)) => IInv'
<1> SUFFICES ASSUME NEW c \in Conns, IInv, Say(c) \/ Leave(c) \/ Detect(c) PROVE IInv'
  OBVIOUS
<1>1. EntryAlive'
  BY DEF Say, Leave, Detect, IInv, EntryAlive, Running
<1>2. CASE Say(c)
  <2>1. /\ texts' = [texts EXCEPT ![c] = @ + 1] /\ inbox' = [inbox EXCEPT ![c] = @ + 1]
        /\ texts[c] < MaxTexts
        /\ UNCHANGED <<active, pc, client, link, asked, replied, thinking, shown, hung>>
    BY <1>2 DEF Say, store, page
  <2>2. inbox[c] <= texts[c]
    BY MaxTextsAssumption DEF IInv, Owed, Unsaved, TypeOK
  <2>3. TypeOK'
    BY <2>1, <2>2, MaxTextsAssumption DEF IInv, TypeOK
  <2>4. Owed'
    BY <2>1, MaxTextsAssumption DEF IInv, TypeOK, Owed, Unsaved, Unreplied
  <2> QED
    BY <1>1, <2>3, <2>4 DEF IInv
<1>3. CASE Leave(c) \/ Detect(c)
  <2>1. TypeOK'
    BY <1>3 DEF Leave, Detect, IInv, TypeOK, store, page
  <2>2. Owed'
    BY <1>3 DEF Leave, Detect, IInv, Owed, Unsaved, Unreplied, store, page
  <2> QED
    BY <1>1, <2>1, <2>2 DEF IInv
<1> QED
  BY <1>2, <1>3

(* A step of c's handler that saves nothing, whichever way it goes. *)
LEMMA HandlerStep ==
  ASSUME IInv, NEW c \in Conns, ~hung, Settled(c),
         \/ active' = None
         \/ active' = active /\ Running(c)',
         client' \in [Conns -> {"new", "on", "off"}], link' \in Links,
         thinking' \in [Conns -> BOOLEAN], shown' \in [Conns -> Nat], hung' \in BOOLEAN,
         inbox' = inbox \/ (inbox[c] > 0 /\ Read(c)),
         UNCHANGED <<texts, asked, replied>>
  PROVE  IInv'
<1>1. inbox' \in [Conns -> 0..MaxTexts]
  BY MaxTextsAssumption DEF IInv, TypeOK, Read
<1>2. TypeOK'
  BY <1>1, SettledType DEF IInv, TypeOK, Links
<1> QED
  BY <1>2, EntryKept, CountsKept DEF IInv

LEMMA ReadingStep == \A c \in Conns : IInv /\ (Receive(c) \/ ReceiveDisconnect(c)) => IInv'
<1> SUFFICES ASSUME NEW c \in Conns, IInv, Receive(c) \/ ReceiveDisconnect(c) PROVE IInv'
  OBVIOUS
<1>1. /\ ~hung /\ hung \in BOOLEAN /\ pc[c] = "receive" /\ Running(c)
      /\ link \in Links /\ thinking \in [Conns -> BOOLEAN] /\ shown \in [Conns -> Nat]
      /\ client \in [Conns -> {"new", "on", "off"}]
  BY DEF Receive, ReceiveDisconnect, Running, IInv, TypeOK, Links
<1>2. CASE ReceiveDisconnect(c)
  <2>1. End(c, link) /\ UNCHANGED <<inbox, texts, asked, replied, thinking, shown, hung>>
    BY <1>2 DEF ReceiveDisconnect, store, page
  <2> QED
    BY <1>1, <2>1, EndEffect, HandlerStep
<1>3. CASE Receive(c)
  <2>1. inbox[c] > 0 /\ Read(c) /\ UNCHANGED <<texts, asked, replied, shown>>
    BY <1>3 DEF Receive, store
  <2>2. CASE SendRaisesDisconnect /\ End(c, Marked) /\ UNCHANGED <<thinking, hung>>
    BY <1>1, <2>1, <2>2, MarkedType, EndEffect, HandlerStep
  <2>3. CASE SendRaisesError /\ Apologise(c) /\ UNCHANGED <<active, client>>
    <3>1. hung' \in BOOLEAN
      BY <1>1, <2>3, ApologiseEffect
    <3> QED
      BY <1>1, <2>1, <2>3, <3>1, ApologiseEffect, HandlerStep
  <2>4. CASE /\ ShowIndicator(TRUE)
             /\ pc' = [pc EXCEPT ![c] = "saving"]
             /\ UNCHANGED <<active, client, link, hung>>
    <3>1. /\ inbox' = [inbox EXCEPT ![c] = @ - 1]
          /\ inbox' \in [Conns -> 0..MaxTexts]
      BY <2>1, MaxTextsAssumption DEF Read, IInv, TypeOK
    <3>2. TypeOK'
      BY <1>1, <2>1, <2>4, <3>1 DEF IInv, TypeOK, ShowIndicator, Steps
    <3>3. EntryAlive'
      BY <2>4 DEF IInv, TypeOK, EntryAlive, Running
    <3>4. Owed'
      BY <1>1, <2>1, <2>4, <3>1, MaxTextsAssumption
      DEF IInv, TypeOK, Owed, Unsaved, Unreplied
    <3> QED
      BY <3>2, <3>3, <3>4 DEF IInv
  <2> QED
    BY <1>3, <2>2, <2>3, <2>4 DEF Receive
<1> QED
  BY <1>2, <1>3

LEMMA SaveTextStep == \A c \in Conns : IInv /\ SaveText(c) => IInv'
<1> SUFFICES ASSUME NEW c \in Conns, IInv, SaveText(c) PROVE IInv'
  OBVIOUS
<1>1. /\ ~hung /\ pc[c] = "saving" /\ Running(c)
      /\ UNCHANGED <<active, client, inbox, texts, replied, shown>>
      /\ client \in [Conns -> {"new", "on", "off"}] /\ shown \in [Conns -> Nat]
  BY DEF SaveText, Running, IInv, TypeOK
<1>2. CASE Apologise(c) /\ UNCHANGED asked
  <2>1. hung' \in BOOLEAN
    BY <1>1, <1>2, ApologiseEffect
  <2> QED
    BY <1>1, <1>2, <2>1, ApologiseEffect, HandlerStep
<1>3. CASE /\ asked' = [asked EXCEPT ![c] = @ + 1]
           /\ pc' = [pc EXCEPT ![c] = "llm"]
           /\ UNCHANGED <<link, thinking, hung>>
  <2>1. asked[c] + inbox[c] + 1 <= texts[c] /\ replied[c] <= asked[c]
    BY <1>1, MaxTextsAssumption DEF IInv, TypeOK, Owed, Unsaved, Unreplied
  <2>2. TypeOK'
    BY <1>1, <1>3, <2>1, MaxTextsAssumption DEF IInv, TypeOK, Steps
  <2>3. EntryAlive'
    BY <1>1, <1>3 DEF IInv, TypeOK, EntryAlive, Running
  <2>4. Owed'
    BY <1>1, <1>3, <2>1, MaxTextsAssumption DEF IInv, TypeOK, Owed, Unsaved, Unreplied
  <2> QED
    BY <2>2, <2>3, <2>4 DEF IInv
<1> QED
  BY <1>2, <1>3 DEF SaveText

(* The reply is counted before the handler knows whether it can send it; a
   handler that hangs in sending it keeps its place. *)
LEMMA ReplyStep == \A c \in Conns : IInv /\ Reply(c) => IInv'
<1> SUFFICES ASSUME NEW c \in Conns, IInv, Reply(c) PROVE IInv'
  OBVIOUS
<1>1. /\ ~hung /\ pc[c] = "llm" /\ Running(c)
      /\ replied' = [replied EXCEPT ![c] = @ + 1]
      /\ UNCHANGED <<inbox, texts, asked, shown>>
  BY DEF Reply, Running
<1>2. /\ Settled(c)
      /\ active' = None \/ (active' = active /\ Running(c)')
      /\ hung' = TRUE \/ (hung' = FALSE /\ pc'[c] # "llm")
      /\ client' \in [Conns -> {"new", "on", "off"}]
      /\ link' \in Links /\ thinking' \in [Conns -> BOOLEAN]
  <2>1. CASE SendRaisesDisconnect /\ End(c, Marked) /\ UNCHANGED <<thinking, hung>>
    BY <1>1, <2>1, MarkedType, EndEffect DEF IInv, TypeOK
  <2>2. CASE SendRaisesError /\ Apologise(c) /\ UNCHANGED <<active, client>>
    BY <1>1, <2>2, ApologiseEffect DEF IInv, TypeOK
  <2>3. CASE /\ ShowIndicator(FALSE)
             /\ pc' = [pc EXCEPT ![c] = "answering"]
             /\ UNCHANGED <<active, client, link, hung>>
    BY <1>1, <2>3 DEF Settled, Running, ShowIndicator, IInv, TypeOK, Links
  <2> QED
    BY <2>1, <2>2, <2>3 DEF Reply
<1>3. replied[c] + 1 <= asked[c]
  BY <1>1 DEF IInv, Owed, Unreplied
<1>4. Owed'
  <2> SUFFICES ASSUME NEW d \in Conns
               PROVE  /\ asked[d] + inbox[d] + Unsaved(d)' <= texts[d]
                      /\ replied'[d] + Unreplied(d)' <= asked[d]
    BY <1>1 DEF Owed, Unsaved, Unreplied
  <2>1. asked[d] + inbox[d] + Unsaved(d)' <= texts[d]
    BY <1>1, <1>2 DEF IInv, Owed, Unsaved, Settled, TypeOK
  <2>2. CASE d = c
    <3>1. replied'[c] = replied[c] + 1 /\ Unreplied(c)' = 0
      BY <1>1, <1>2 DEF IInv, TypeOK, Unreplied
    <3> QED
      BY <1>3, <2>1, <2>2, <3>1, MaxTextsAssumption DEF IInv, TypeOK
  <2>3. CASE d # c
    <3>1. replied'[d] = replied[d] /\ pc'[d] = pc[d]
      BY <1>1, <1>2, <2>3 DEF IInv, TypeOK, Settled
    <3>2. replied[d] + Unreplied(d) <= asked[d]
      BY DEF IInv, Owed
    <3> QED
      BY <1>1, <2>1, <3>1, <3>2, MaxTextsAssumption DEF IInv, TypeOK, Unreplied
  <2> QED
    BY <2>2, <2>3
<1>5. EntryAlive'
  BY <1>2, EntryKept
<1>6. TypeOK'
  <2>1. replied[c] + 1 \in 0..MaxTexts
    BY <1>3, MaxTextsAssumption DEF IInv, TypeOK
  <2>2. replied' \in [Conns -> 0..MaxTexts]
    BY <1>1, <2>1 DEF IInv, TypeOK
  <2>3. pc' \in [Conns -> Steps] /\ active' \in Conns \cup {None} /\ hung' \in BOOLEAN
    BY <1>2, SettledType DEF IInv, TypeOK
  <2> QED
    BY <1>1, <1>2, <2>2, <2>3 DEF IInv, TypeOK, Links
<1> QED
  BY <1>4, <1>5, <1>6 DEF IInv

LEMMA ReplyFailsStep == \A c \in Conns : IInv /\ ReplyFails(c) => IInv'
<1> SUFFICES ASSUME NEW c \in Conns, IInv, ReplyFails(c) PROVE IInv'
  OBVIOUS
<1>1. /\ ~hung /\ Running(c) /\ Apologise(c)
      /\ UNCHANGED <<active, client, inbox, texts, asked, replied, shown>>
      /\ client \in [Conns -> {"new", "on", "off"}] /\ shown \in [Conns -> Nat]
  BY DEF ReplyFails, Running, store, IInv, TypeOK
<1>2. hung' \in BOOLEAN
  BY <1>1, ApologiseEffect
<1> QED
  BY <1>1, <1>2, ApologiseEffect, HandlerStep

(* Sending the reply or the apology saves nothing. *)
LEMMA SendingStep == \A c \in Conns : IInv /\ (Answer(c) \/ Apology(c)) => IInv'
<1> SUFFICES ASSUME NEW c \in Conns, IInv, Answer(c) \/ Apology(c) PROVE IInv'
  OBVIOUS
<1>1. /\ ~hung /\ hung \in BOOLEAN /\ Running(c) /\ UNCHANGED <<inbox, texts, asked, replied>>
      /\ client \in [Conns -> {"new", "on", "off"}] /\ thinking \in [Conns -> BOOLEAN]
  BY DEF Answer, Apology, Running, store, IInv, TypeOK
<1>2. ShowText \/ UNCHANGED shown => shown' \in [Conns -> Nat]
  BY DEF ShowText, IInv, TypeOK
<1>3. CASE (ShowText \/ UNCHANGED shown) /\ (NextTurn(c) \/ Apologise(c)) /\ UNCHANGED <<active, client>>
  <2>1. /\ Settled(c) /\ Running(c)' /\ hung' \in BOOLEAN
        /\ link' \in Links /\ thinking' \in [Conns -> BOOLEAN]
    BY <1>1, <1>3, NextTurnEffect, ApologiseEffect
  <2> QED
    BY <1>1, <1>2, <1>3, <2>1, HandlerStep
<1>4. CASE End(c, Marked) /\ UNCHANGED <<page, hung>>
  <2>1. UNCHANGED <<thinking, shown, hung>>
    BY <1>4 DEF page
  <2> QED
    BY <1>1, <1>2, <1>4, <2>1, MarkedType, EndEffect, HandlerStep
<1> QED
  BY <1>3, <1>4 DEF Answer, Apology

LEMMA Inductive == IInv /\ [Next]_vars => IInv'
<1> SUFFICES ASSUME IInv, [Next]_vars PROVE IInv'
  OBVIOUS
<1>1. CASE Next
  BY <1>1, ConnectStep, ClientStep, ReadingStep, SaveTextStep, ReplyStep, ReplyFailsStep,
     SendingStep DEF Next
<1>2. CASE UNCHANGED vars
  BY <1>2 DEF vars, world, store, page, IInv, TypeOK, EntryAlive, Owed, Unsaved, Unreplied,
              Running
<1> QED
  BY <1>1, <1>2

LEMMA OwedOrdered == IInv => HistoryOrdered
<1> SUFFICES ASSUME IInv, NEW c \in Conns
             PROVE  replied[c] <= asked[c] /\ asked[c] + inbox[c] <= texts[c]
  BY DEF HistoryOrdered
<1> QED
  BY MaxTextsAssumption DEF IInv, TypeOK, Owed, Unsaved, Unreplied

(* For any number of connections, texts and faults, with pages that reconnect
   whenever they like (websocket.py 72-241): the registry holds no dead handler,
   and a conversation in the database never has a reply before its question. *)
THEOREM Session == Spec => [](TypeOK /\ EntryAlive /\ HistoryOrdered)
<1>1. IInv => TypeOK /\ EntryAlive /\ HistoryOrdered
  BY OwedOrdered DEF IInv
<1> QED
  BY Initial, Inductive, <1>1, PTL DEF Spec
-----------------------------------------------------------------------------
(* What the page is promised of its turns.  While no page reconnects over a
   handler that still runs, the connection a page is on is the registered one,
   the server takes it for alive, no other handler runs, and the indicator is on
   exactly in the awaits between "@@@" and "###". *)
InTurn(c) == pc[c] \in {"saving", "llm"}

Attended(c) ==
  /\ active = c /\ link[c] = "up" /\ Running(c)
  /\ thinking[c] <=> InTurn(c)
  /\ \A d \in Conns \ {c} : client[d] # "on" /\ ~Running(d)

Fresh(c) == pc[c] = "none" /\ inbox[c] = 0 /\ thinking[c] = FALSE

OneSession ==
  \A c \in Conns : (client[c] = "on" => Attended(c)) /\ (client[c] = "new" => Fresh(c))

TInv == IInv /\ OneSession

(* The view of ChatTurns, with a connection and without one *)
LEMMA OnlineView ==
  ASSUME NEW c \in Conns, OneSession, client[c] = "on"
  PROVE  Online /\ Current = c
<1>1. \E d \in Conns : client[d] = "on"
  OBVIOUS
<1>2. Current \in Conns /\ client[Current] = "on"
  BY <1>1 DEF Current
<1> QED
  BY <1>1, <1>2 DEF OneSession, Attended, Online

LEMMA OnlineViewNext ==
  ASSUME NEW c \in Conns, OneSession', client'[c] = "on"
  PROVE  Online' /\ Current' = c
<1>1. \E d \in Conns : client'[d] = "on"
  OBVIOUS
<1>2. Current' \in Conns /\ client'[Current'] = "on"
  BY <1>1 DEF Current
<1> QED
  BY <1>1, <1>2 DEF OneSession, Attended, Online

LEMMA OfflineSteps ==
  ASSUME \A c \in Conns : client[c] # "on", \A c \in Conns : client'[c] # "on"
  PROVE  UNCHANGED Turns!vars
<1>1. Online = FALSE /\ Online' = FALSE
  BY DEF Online
<1>2. UNCHANGED (Online /\ thinking[Current])
  BY <1>1
<1>3. UNCHANGED (IF Online THEN Open(Current) ELSE 0)
  BY <1>1
<1> QED
  BY <1>1, <1>2, <1>3 DEF Turns!vars

(* What a handler's step leaves alone *)
Handler(c) ==
  \/ Receive(c) \/ ReceiveDisconnect(c) \/ SaveText(c) \/ Reply(c) \/ ReplyFails(c)
  \/ Answer(c) \/ Apology(c)

Shows == ShowIndicator(TRUE) \/ ShowIndicator(FALSE) \/ UNCHANGED thinking

LEMMA HandlerTouches ==
  ASSUME TInv, NEW c \in Conns, Handler(c)
  PROVE  /\ Running(c) /\ pc[c] # "none" /\ Shows
         /\ client'[c] \in {client[c], "off"}
         /\ \A d \in Conns \ {c} :
              pc'[d] = pc[d] /\ client'[d] = client[d] /\ inbox'[d] = inbox[d]
<1>1. Running(c) /\ pc[c] # "none"
  BY DEF Handler, Receive, ReceiveDisconnect, SaveText, Reply, ReplyFails, Answer, Apology, Running
<1>2. ASSUME NEW links, End(c, links)
      PROVE  /\ client'[c] \in {client[c], "off"}
             /\ \A d \in Conns \ {c} : pc'[d] = pc[d] /\ client'[d] = client[d]
  BY <1>2 DEF End, TInv, IInv, TypeOK
<1>3. ASSUME Apologise(c)
      PROVE  Shows /\ \A d \in Conns \ {c} : pc'[d] = pc[d]
  BY <1>3 DEF Apologise, Shows, TInv, IInv, TypeOK
<1>4. ASSUME NextTurn(c)
      PROVE  Shows /\ \A d \in Conns \ {c} : pc'[d] = pc[d]
  BY <1>3, <1>4 DEF NextTurn, Shows, TInv, IInv, TypeOK
<1>5. CASE Receive(c)
  BY <1>1, <1>2, <1>3, <1>5 DEF Receive, Read, Shows, TInv, IInv, TypeOK
<1>6. CASE ReceiveDisconnect(c)
  BY <1>1, <1>2, <1>6 DEF ReceiveDisconnect, page, Shows
<1>7. CASE SaveText(c) \/ ReplyFails(c)
  BY <1>1, <1>3, <1>7 DEF SaveText, ReplyFails, Shows, TInv, IInv, TypeOK
<1>8. CASE Reply(c)
  BY <1>1, <1>2, <1>3, <1>8 DEF Reply, Shows, TInv, IInv, TypeOK
<1>9. CASE Answer(c) \/ Apology(c)
  BY <1>1, <1>2, <1>3, <1>4, <1>9 DEF Answer, Apology, page, Shows
<1> QED
  BY <1>5, <1>6, <1>7, <1>8, <1>9 DEF Handler

(* A handler whose page has gone changes nothing that a page sees: no other is
   there. *)
LEMMA AwayStep ==
  ASSUME TInv, NEW c \in Conns, Handler(c), client[c] # "on"
  PROVE  OneSession' /\ UNCHANGED Turns!vars
<1>1. \A d \in Conns : client[d] # "on"
  BY HandlerTouches DEF TInv, OneSession, Attended
<1>2. \A d \in Conns : client'[d] # "on"
  BY <1>1, HandlerTouches
<1>3. \A d \in Conns : thinking'[d] = thinking[d]
  BY <1>1, HandlerTouches DEF Shows, ShowIndicator, Reaches
<1>4. ASSUME NEW d \in Conns, client'[d] = "new" PROVE Fresh(d)'
  <2>1. client[d] = "new" /\ d # c
    BY <1>4, HandlerTouches DEF TInv, OneSession, Fresh
  <2> QED
    BY <1>3, <2>1, HandlerTouches DEF TInv, OneSession, Fresh
<1> QED
  BY <1>1, <1>2, <1>4, OfflineSteps DEF OneSession

(* Over the connection a page is on, nothing the handler sends fails: a step of
   it moves the handler, its inbox and the page's indicator. *)
Moves(c, place, rest, on) ==
  /\ pc' = [pc EXCEPT ![c] = place]
  /\ inbox' = [inbox EXCEPT ![c] = rest]
  /\ thinking' = [thinking EXCEPT ![c] = on]
  /\ UNCHANGED <<active, client, link>>

LEMMA HereSends ==
  ASSUME TInv, NEW c \in Conns, client[c] = "on"
  PROVE  /\ SendsOrSkips /\ ~SendRaisesDisconnect /\ ~SendRaisesError
         /\ link[c] = "up"
         /\ \A on : ShowIndicator(on) => thinking' = [thinking EXCEPT ![c] = on]
<1>1. active = c /\ link[c] = "up"
  BY DEF TInv, OneSession, Attended
<1>2. \A on : ShowIndicator(on) => thinking' = [thinking EXCEPT ![c] = on]
  BY <1>1 DEF ShowIndicator, Reaches, TInv, IInv, TypeOK
<1> QED
  BY <1>1, <1>2, NoneAssumption DEF SendsOrSkips, SendRaisesDisconnect, SendRaisesError

LEMMA HereMoves ==
  ASSUME TInv, NEW c \in Conns, Handler(c), client[c] = "on"
  PROVE  \/ pc[c] = "receive" /\ inbox[c] > 0 /\ Moves(c, "saving", inbox[c] - 1, TRUE)
         \/ pc[c] = "saving" /\ Moves(c, "llm", inbox[c], TRUE)
         \/ /\ InTurn(c)
            /\ \E place \in {"answering", "apologising"} : Moves(c, place, inbox[c], FALSE)
         \/ ~InTurn(c) /\ Moves(c, "receive", inbox[c], FALSE)
<1>1. /\ SendsOrSkips /\ ~SendRaisesDisconnect /\ ~SendRaisesError /\ link[c] = "up"
      /\ \A on : ShowIndicator(on) => thinking' = [thinking EXCEPT ![c] = on]
  BY HereSends
<1>2. inbox = [inbox EXCEPT ![c] = inbox[c]] /\ thinking = [thinking EXCEPT ![c] = thinking[c]]
  BY DEF TInv, IInv, TypeOK
<1>3. /\ InTurn(c) => thinking[c] = TRUE
      /\ ~InTurn(c) => thinking[c] = FALSE
  <2>1. thinking[c] \in BOOLEAN
    BY DEF TInv, IInv, TypeOK
  <2>2. thinking[c] <=> InTurn(c)
    BY DEF TInv, OneSession, Attended
  <2> QED
    BY <2>1, <2>2
<1>4. Apologise(c) =>
        /\ pc' = [pc EXCEPT ![c] = "apologising"] /\ link' = link
        /\ thinking' = [thinking EXCEPT ![c] = FALSE]
  BY <1>1 DEF Apologise
<1>5. CASE Receive(c)
  BY <1>1, <1>5 DEF Receive, Read, Moves
<1>6. CASE ReceiveDisconnect(c)
  BY <1>1, <1>6 DEF ReceiveDisconnect
<1>7. CASE SaveText(c)
  <2>1. pc[c] = "saving" /\ InTurn(c) /\ UNCHANGED <<active, client, inbox>>
    BY <1>7 DEF SaveText, InTurn
  <2>2. CASE pc' = [pc EXCEPT ![c] = "llm"] /\ UNCHANGED <<link, thinking>>
    BY <1>2, <1>3, <2>1, <2>2 DEF Moves
  <2>3. CASE Apologise(c)
    BY <1>2, <1>4, <2>1, <2>3 DEF Moves
  <2> QED
    BY <1>7, <2>2, <2>3 DEF SaveText
<1>8. CASE Reply(c) \/ ReplyFails(c)
  <2>1. InTurn(c) /\ UNCHANGED inbox
    BY <1>8 DEF Reply, ReplyFails, InTurn
  <2>2. /\ UNCHANGED <<active, client>>
        /\ \/ Apologise(c)
           \/ /\ pc' = [pc EXCEPT ![c] = "answering"] /\ link' = link
              /\ thinking' = [thinking EXCEPT ![c] = FALSE]
    BY <1>1, <1>8 DEF Reply, ReplyFails
  <2> QED
    BY <1>2, <1>4, <2>1, <2>2 DEF Moves
<1>9. CASE Answer(c) \/ Apology(c)
  <2>1. ~InTurn(c) /\ UNCHANGED <<active, client, inbox>>
    BY <1>1, <1>9 DEF Answer, Apology, InTurn
  <2>2. pc' = [pc EXCEPT ![c] = "receive"] /\ UNCHANGED <<link, thinking>>
    BY <1>1, <1>9 DEF Answer, Apology, NextTurn, page
  <2> QED
    BY <1>2, <1>3, <2>1, <2>2 DEF Moves
<1> QED
  BY <1>5, <1>6, <1>7, <1>8, <1>9 DEF Handler

LEMMA MovesKeep ==
  ASSUME TInv, NEW c \in Conns, client[c] = "on", NEW rest, NEW on \in BOOLEAN,
         NEW place \in {"receive", "saving", "llm", "answering", "apologising"},
         on <=> place \in {"saving", "llm"},
         Moves(c, place, rest, on)
  PROVE  OneSession'
<1>1. /\ client' = client /\ active' = active /\ link' = link
      /\ pc'[c] = place /\ thinking'[c] = on
      /\ \A d \in Conns \ {c} :
           pc'[d] = pc[d] /\ inbox'[d] = inbox[d] /\ thinking'[d] = thinking[d]
  BY DEF Moves, TInv, IInv, TypeOK
<1>2. Attended(c)
  BY DEF TInv, OneSession
<1>3. Attended(c)'
  BY <1>1, <1>2 DEF Attended, Running, InTurn
<1>4. \A d \in Conns \ {c} : client'[d] # "on" /\ (client'[d] = "new" => Fresh(d)')
  BY <1>1, <1>2 DEF Attended, Fresh, TInv, OneSession
<1> QED
  BY <1>1, <1>3, <1>4 DEF OneSession

(* What ChatTurns sees of the connection c *)
LEMMA ViewOf ==
  ASSUME NEW c \in Conns, Online, Current = c, Online', Current' = c
  PROVE  /\ Online = TRUE /\ Online' = TRUE
         /\ (IF Online THEN Open(Current) ELSE 0) = Open(c)
         /\ (IF Online THEN Open(Current) ELSE 0)' = Open(c)'
<1>1. Online = TRUE /\ Online' = TRUE
  BY DEF Online
<1> QED
  BY <1>1

LEMMA HereStep ==
  ASSUME TInv, NEW c \in Conns, Handler(c), client[c] = "on"
  PROVE  OneSession' /\ [Turns!Next]_Turns!vars
<1>1. /\ pc \in [Conns -> Steps] /\ thinking \in [Conns -> BOOLEAN]
      /\ inbox[c] \in Nat /\ inbox \in [Conns -> 0..MaxTexts]
  BY MaxTextsAssumption DEF TInv, IInv, TypeOK
<1>2. OneSession'
  BY HereMoves, MovesKeep
<1>3. client'[c] = "on"
  BY HereMoves DEF Moves
<1>4. Online /\ Current = c /\ Online' /\ Current' = c /\ (thinking[c] <=> InTurn(c))
  BY <1>2, <1>3, OnlineView, OnlineViewNext DEF TInv, OneSession, Attended
<1>5. /\ UNCHANGED Online
      /\ (IF Online THEN Open(Current) ELSE 0) = Open(c)
      /\ (IF Online THEN Open(Current) ELSE 0)' = Open(c)'
      /\ InTurn(c) => (Online /\ thinking[Current]) = TRUE
      /\ ~InTurn(c) => (Online /\ thinking[Current]) = FALSE
      /\ thinking'[c] = TRUE => (Online /\ thinking[Current])' = TRUE
      /\ thinking'[c] = FALSE => (Online /\ thinking[Current])' = FALSE
  <2>1. /\ Online = TRUE /\ Online' = TRUE
        /\ (IF Online THEN Open(Current) ELSE 0) = Open(c)
        /\ (IF Online THEN Open(Current) ELSE 0)' = Open(c)'
    BY <1>4, ViewOf
  <2>2. /\ InTurn(c) => (Online /\ thinking[Current]) = TRUE
        /\ ~InTurn(c) => (Online /\ thinking[Current]) = FALSE
    BY <1>4
  <2>3. /\ thinking'[c] = TRUE => (Online /\ thinking[Current])' = TRUE
        /\ thinking'[c] = FALSE => (Online /\ thinking[Current])' = FALSE
    BY <1>4
  <2> QED
    BY <2>1, <2>2, <2>3
<1>6. CASE pc[c] = "receive" /\ inbox[c] > 0 /\ Moves(c, "saving", inbox[c] - 1, TRUE)
  <2>1. pc'[c] = "saving" /\ inbox'[c] = inbox[c] - 1 /\ thinking'[c] = TRUE
    BY <1>1, <1>6 DEF Moves
  <2>2. Open(c) > 0 /\ Open(c)' = Open(c)
    BY <1>1, <1>6, <2>1 DEF Open
  <2>3. ~InTurn(c)
    BY <1>6 DEF InTurn
  <2>4. (IF Online THEN Open(Current) ELSE 0) > 0 /\ UNCHANGED (IF Online THEN Open(Current) ELSE 0)
    BY <1>5, <2>2
  <2> QED
    BY <1>2, <1>4, <1>5, <2>1, <2>3, <2>4 DEF Turns!Next, Turns!Begin
<1>7. CASE /\ InTurn(c)
           /\ \E place \in {"answering", "apologising"} : Moves(c, place, inbox[c], FALSE)
  <2>1. /\ pc'[c] \in {"answering", "apologising"}
        /\ inbox'[c] = inbox[c] /\ thinking'[c] = FALSE
    BY <1>1, <1>7 DEF Moves
  <2>2. Open(c)' = Open(c) - 1
    BY <1>1, <1>7, <2>1 DEF Open, InTurn
  <2> QED
    BY <1>2, <1>4, <1>5, <1>7, <2>1, <2>2 DEF Turns!Next, Turns!End
<1>8. CASE pc[c] = "saving" /\ Moves(c, "llm", inbox[c], TRUE)
  <2>1. pc'[c] = "llm" /\ inbox'[c] = inbox[c] /\ thinking'[c] = TRUE
    BY <1>1, <1>8 DEF Moves
  <2>2. Open(c)' = Open(c)
    BY <1>8, <2>1 DEF Open
  <2>3. InTurn(c)
    BY <1>8 DEF InTurn
  <2> QED
    BY <1>2, <1>5, <2>1, <2>2, <2>3 DEF Turns!vars
<1>9. CASE ~InTurn(c) /\ Moves(c, "receive", inbox[c], FALSE)
  <2>1. pc'[c] = "receive" /\ inbox'[c] = inbox[c] /\ thinking'[c] = FALSE
    BY <1>1, <1>9 DEF Moves
  <2>2. Open(c)' = Open(c)
    BY <1>9, <2>1 DEF Open, InTurn
  <2> QED
    BY <1>2, <1>5, <1>9, <2>1, <2>2 DEF Turns!vars
<1> QED
  BY <1>2, <1>6, <1>7, <1>8, <1>9, HereMoves

(* A new connection, when no handler of an earlier one runs *)
LEMMA ConnectTurns ==
  ASSUME TInv, ~Overlap, NEW c \in Conns, Connect(c)
  PROVE  OneSession' /\ [Turns!Next]_Turns!vars
<1>1. /\ client[c] = "new" /\ Fresh(c)
      /\ \A d \in Conns : client[d] # "on" /\ ~Running(d)
      /\ inbox' = inbox /\ thinking' = thinking
  BY DEF Connect, TInv, OneSession, Running, page
<1>2. /\ pc \in [Conns -> Steps] /\ client \in [Conns -> {"new", "on", "off"}]
      /\ link \in Links
  BY DEF TInv, IInv, TypeOK, Links
<1>3. CASE End(c, [link EXCEPT ![c] = "up"])
  <2>1. /\ client'[c] = "off"
        /\ \A d \in Conns \ {c} : pc'[d] = pc[d] /\ client'[d] = client[d]
    BY <1>2, <1>3 DEF End
  <2>2. \A d \in Conns : client'[d] # "on"
    BY <1>1, <2>1
  <2>3. \A d \in Conns : client'[d] = "new" => Fresh(d)'
    BY <1>1, <2>1 DEF TInv, OneSession, Fresh
  <2> QED
    BY <1>1, <2>2, <2>3, OfflineSteps DEF OneSession
<1>4. CASE /\ active' = c
           /\ pc' = [pc EXCEPT ![c] = "receive"]
           /\ client' = [client EXCEPT ![c] = "on"]
           /\ link' = [link EXCEPT ![c] = "up"]
  <2>1. /\ client'[c] = "on" /\ link'[c] = "up" /\ pc'[c] = "receive"
        /\ inbox'[c] = 0 /\ thinking'[c] = FALSE
        /\ \A d \in Conns \ {c} : pc'[d] = pc[d] /\ client'[d] = client[d]
    BY <1>1, <1>2, <1>4 DEF Fresh, Links
  <2>2. Attended(c)'
    BY <1>1, <1>4, <2>1 DEF Attended, Running, InTurn
  <2>3. \A d \in Conns \ {c} : client'[d] # "on" /\ (client'[d] = "new" => Fresh(d)')
    BY <1>1, <2>1 DEF TInv, OneSession, Fresh
  <2>4. OneSession'
    BY <2>1, <2>2, <2>3 DEF OneSession
  <2>5. Online' /\ Current' = c
    BY <2>1, <2>4, OnlineViewNext
  <2>6. ~Online
    BY <1>1 DEF Online
  <2>7. (IF Online THEN Open(Current) ELSE 0)' = 0
    BY <2>1, <2>5 DEF Open
  <2>8. (Online /\ thinking[Current])' = FALSE
    BY <2>1, <2>5
  <2> QED
    BY <2>4, <2>5, <2>6, <2>7, <2>8 DEF Turns!Next, Turns!Connect
<1> QED
  BY <1>3, <1>4 DEF Connect

(* The client's own steps *)
LEMMA SayTurns ==
  ASSUME TInv, NEW c \in Conns, Say(c)
  PROVE  OneSession' /\ [Turns!Next]_Turns!vars
<1>1. /\ client[c] = "on" /\ inbox' = [inbox EXCEPT ![c] = @ + 1]
      /\ UNCHANGED <<active, pc, client, link, thinking>>
  BY DEF Say, page
<1>2. inbox \in [Conns -> 0..MaxTexts] /\ inbox[c] \in Nat
  BY MaxTextsAssumption DEF TInv, IInv, TypeOK
<1>3. OneSession'
  BY <1>1, <1>2 DEF TInv, OneSession, Attended, Fresh, Running, InTurn
<1>4. Online /\ Current = c /\ Online' /\ Current' = c
  BY <1>1, <1>3, OnlineView, OnlineViewNext DEF TInv
<1>5. Open(c)' = Open(c) + 1
  BY <1>1, <1>2 DEF Open
<1>6. UNCHANGED Online /\ UNCHANGED (Online /\ thinking[Current])
  BY <1>1, <1>4 DEF Online
<1> QED
  BY <1>3, <1>4, <1>5, <1>6 DEF Turns!Next, Turns!Ask

LEMMA LeaveTurns ==
  ASSUME TInv, NEW c \in Conns, Leave(c)
  PROVE  OneSession' /\ [Turns!Next]_Turns!vars
<1>1. client[c] = "on" /\ UNCHANGED <<active, pc, link, inbox, thinking>>
  BY DEF Leave, page
<1>2. client'[c] = "off" /\ \A d \in Conns \ {c} : client'[d] = client[d]
  BY DEF Leave, TInv, IInv, TypeOK
<1>3. \A d \in Conns : client'[d] # "on"
  BY <1>1, <1>2 DEF TInv, OneSession, Attended
<1>4. OneSession'
  BY <1>1, <1>2, <1>3 DEF TInv, OneSession, Fresh
<1>5. Online /\ Online' = FALSE
  BY <1>1, <1>3 DEF Online
<1>6. (IF Online THEN Open(Current) ELSE 0)' = 0
  BY <1>5
<1>7. (Online /\ thinking[Current])' = FALSE
  BY <1>5
<1> QED
  BY <1>4, <1>5, <1>6, <1>7 DEF Turns!Next, Turns!Drop

LEMMA DetectTurns ==
  ASSUME TInv, NEW c \in Conns, Detect(c)
  PROVE  OneSession' /\ UNCHANGED Turns!vars
<1>1. client[c] = "off" /\ UNCHANGED <<active, pc, client, inbox, thinking>>
  BY DEF Detect, page
<1>2. \A d \in Conns \ {c} : link'[d] = link[d]
  BY DEF Detect, TInv, IInv, TypeOK
<1>3. OneSession'
  BY <1>1, <1>2 DEF TInv, OneSession, Attended, Fresh, Running, InTurn
<1>4. UNCHANGED <<Online, Current>>
  BY <1>1 DEF Online, Current
<1>5. UNCHANGED (IF Online THEN Open(Current) ELSE 0)
  BY <1>1, <1>4 DEF Open
<1>6. UNCHANGED (Online /\ thinking[Current])
  BY <1>1, <1>4
<1> QED
  BY <1>3, <1>4, <1>5, <1>6 DEF Turns!vars

LEMMA StillSession == TInv /\ UNCHANGED vars => OneSession' /\ UNCHANGED Turns!vars
<1> SUFFICES ASSUME TInv, UNCHANGED vars PROVE OneSession' /\ UNCHANGED Turns!vars
  OBVIOUS
<1>1. UNCHANGED <<active, pc, client, link, inbox, thinking>>
  BY DEF vars, world, page
<1>2. OneSession'
  BY <1>1 DEF TInv, OneSession, Attended, Fresh, Running, InTurn
<1>3. UNCHANGED <<Online, Current>>
  BY <1>1 DEF Online, Current
<1>4. UNCHANGED (IF Online THEN Open(Current) ELSE 0)
  BY <1>1, <1>3 DEF Open
<1>5. UNCHANGED (Online /\ thinking[Current])
  BY <1>1, <1>3
<1> QED
  BY <1>2, <1>3, <1>4, <1>5 DEF Turns!vars

LEMMA TurnsStart == Init => TInv /\ Turns!Init
<1> SUFFICES ASSUME Init PROVE TInv /\ Turns!Init
  OBVIOUS
<1>1. \A c \in Conns : client[c] = "new" /\ Fresh(c)
  BY DEF Init, Fresh
<1>2. ~Online
  BY <1>1 DEF Online
<1> QED
  BY <1>1, <1>2, Initial DEF TInv, OneSession, Turns!Init

LEMMA TurnsStep ==
  ASSUME TInv, ~Overlap, [Next]_vars
  PROVE  TInv' /\ [Turns!Next]_Turns!vars
<1>1. IInv'
  BY Inductive DEF TInv
<1>2. ASSUME NEW c \in Conns, Handler(c) PROVE OneSession' /\ [Turns!Next]_Turns!vars
  BY <1>2, AwayStep, HereStep
<1>3. CASE Next
  <2>1. PICK c \in Conns :
          Connect(c) \/ Say(c) \/ Leave(c) \/ Detect(c) \/ Handler(c)
    BY <1>3 DEF Next, Handler
  <2> QED
    BY <1>1, <1>2, <2>1, ConnectTurns, SayTurns, LeaveTurns, DetectTurns DEF TInv
<1>4. CASE UNCHANGED vars
  BY <1>1, <1>4, StillSession DEF TInv
<1> QED
  BY <1>3, <1>4

(* While no page reconnects over a handler that still runs, and whatever fails in
   a turn (websocket.py 118-241): the server implements ChatTurns, on which the
   chat pages are built.  It begins a turn only for a question asked over the
   connection the page is on, one at a time, and ends it with an indicator that
   goes out. *)
THEOREM TurnsPromised ==
  ASSUME ~Overlap
  PROVE  Spec => Turns!Spec
<1>1. TInv /\ [Next]_vars => TInv' /\ [Turns!Next]_Turns!vars
  BY TurnsStep
<1> QED
  BY TurnsStart, <1>1, PTL DEF Spec, Turns!Spec
=============================================================================
