---------------------------- MODULE MCChatRooms ----------------------------
(* Two agents, the CEO and the founder in one conversation that is due for review
   after one message. *)
EXTENDS ChatRooms, TLC

AllScenarios == {{"founder"}, {"ceo_quits"}, {"no_ceo"}}
=============================================================================
