---------------------------- MODULE MCChatSession ----------------------------
(* Two connections of one customer, two texts on each: with Overlap the second
   is made while the first one's handler is still in a turn. *)
EXTENDS ChatSession, TLC
CONSTANTS c1, c2

TwoConns == {c1, c2}
=============================================================================
