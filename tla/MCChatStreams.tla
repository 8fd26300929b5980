--------------------------- MODULE MCChatStreams ---------------------------
(* Two questions of one conversation. *)
EXTENDS ChatStreams, TLC
CONSTANTS r1, r2, c1

OneConversation == r1 :> c1 @@ r2 :> c1
=============================================================================
