------------------------------ MODULE ChatLink ------------------------------
(***************************************************************************)
(* What useWSClient (frontend/chatbot_ui/src/services/ws/createWsClient.ts)*)
(* promises the page that uses it, without saying how: sockets, addresses, *)
(* attempts and timers are WsClient's.  There is one connection at a time  *)
(* and one status shown of it; replaced sockets only have their close      *)
(* event left, which changes the status shown and nothing else; of those   *)
(* who wait for the connection one is registered, and only that one learns *)
(* that it opens.                                                          *)
(***************************************************************************)
VARIABLES
  socket,         \* the current socket: "connecting", "open", "lost" (its close
                  \* event is to come) or "closed"
  lateClose,      \* the close events of replaced sockets, one or more, are to come
  shown,          \* status
  wanted,         \* there is an address to connect to
  registered,     \* one waits in waitUntilConntected and will be told
  orphaned        \* others wait there, and only time ends that

vars == <<socket, lateClose, shown, wanted, registered, orphaned>>
waits == <<registered, orphaned>>

Init ==
  /\ socket = "closed" /\ lateClose = FALSE /\ shown = "disconnected" /\ wanted = FALSE
  /\ registered = FALSE /\ orphaned = FALSE
-----------------------------------------------------------------------------
(* A new socket takes the place of the current one, whose close event then
   comes late. *)
Replace ==
  /\ lateClose' = (lateClose \/ socket # "closed")
  /\ socket' = "connecting" /\ shown' = "connecting"
  /\ wanted => wanted'
  /\ wanted' \in BOOLEAN
  /\ UNCHANGED waits

(* The page wants no connection any more. *)
Leave ==
  /\ lateClose' = (lateClose \/ socket # "closed")
  /\ socket' = "closed" /\ shown' = "disconnected"
  /\ wanted' = FALSE
  /\ UNCHANGED waits

(* Who is registered goes on. *)
Opens ==
  /\ socket = "connecting"
  /\ socket' = "open" /\ shown' = "connected"
  /\ registered' = FALSE
  /\ wanted' = wanted /\ UNCHANGED <<lateClose, orphaned>>

Lost ==
  /\ socket = "open"
  /\ socket' = "lost"
  /\ wanted' = wanted /\ UNCHANGED <<lateClose, shown, waits>>

Closes ==
  /\ socket \in {"connecting", "lost"}
  /\ socket' = "closed" /\ shown' = "disconnected"
  /\ wanted' = wanted /\ UNCHANGED <<lateClose, waits>>

(* The close event of a replaced socket says the same of the new one; another
   may have been replaced since. *)
LateCloses ==
  /\ lateClose
  /\ lateClose' \in BOOLEAN
  /\ shown' = "disconnected"
  /\ wanted' = wanted /\ UNCHANGED <<socket, waits>>

(* Who asks while there is no connection is registered; one who was registered
   fails, and takes the newcomer's registration along. *)
Wait ==
  /\ ~(socket = "open" /\ wanted)
  /\ registered' = ~registered
  /\ orphaned' = (orphaned \/ registered)
  /\ wanted' = wanted /\ UNCHANGED <<socket, lateClose, shown>>

(* Five seconds pass for one who waits: the registered one, or another, which
   ends the registration all the same. *)
GivesUp ==
  /\ registered' = FALSE
  /\ \/ registered /\ UNCHANGED orphaned
     \/ orphaned /\ orphaned' \in BOOLEAN /\ (registered => orphaned')
  /\ wanted' = wanted /\ UNCHANGED <<socket, lateClose, shown>>

Next == Replace \/ Leave \/ Opens \/ Lost \/ Closes \/ LateCloses \/ Wait \/ GivesUp

Spec == Init /\ [][Next]_vars
=============================================================================
