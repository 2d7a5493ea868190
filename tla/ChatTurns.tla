----------------------------- MODULE ChatTurns -----------------------------
(***************************************************************************)
(* What a chat page and the server (backend/routers/websocket.py) promise  *)
(* each other about questions and turns: the server answers them one after *)
(* the other, each between an "@@@" and a "###", over the connection they  *)
(* were asked on, and ends a turn it began while that connection stands.   *)
(* The page may ask while a turn runs; a connection that is gone takes its *)
(* questions and its turn with it.                                         *)
(*                                                                         *)
(* ChatSession implements it, with its handlers, database and failures;    *)
(* ChatPage takes the server's two actions from it, and its own steps are  *)
(* among the page's here.                                                  *)
(***************************************************************************)
EXTENDS Naturals

VARIABLES
  online,         \* the page and the server have a connection
  asked,          \* questions asked over it whose turn has not ended
  inTurn          \* "@@@" was sent, and "###" not yet

vars == <<online, asked, inTurn>>

Init == ~online /\ asked = 0 /\ inTurn = FALSE
-----------------------------------------------------------------------------
(* A question that waited for the connection goes out with it. *)
Connect ==
  /\ ~online
  /\ online' /\ asked' \in {0, 1} /\ inTurn' = FALSE

Ask ==
  /\ online
  /\ asked' = asked + 1
  /\ UNCHANGED <<online, inTurn>>

Drop ==
  /\ online
  /\ ~online' /\ asked' = 0 /\ inTurn' = FALSE

(* "@@@" *)
Begin ==
  /\ online /\ asked > 0 /\ ~inTurn
  /\ inTurn' = TRUE
  /\ UNCHANGED <<online, asked>>

(* "###", before the answer or the apology *)
End ==
  /\ online /\ inTurn
  /\ inTurn' = FALSE /\ asked' = asked - 1
  /\ UNCHANGED online

Next == Connect \/ Ask \/ Drop \/ Begin \/ End

Spec == Init /\ [][Next]_vars

(* A turn ends, or its connection does. *)
TurnsEnd == inTurn ~> ~inTurn
=============================================================================
