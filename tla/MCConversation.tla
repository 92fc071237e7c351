---------------------------- MODULE MCConversation ----------------------------
(* Instances of Conversation for TLC. *)
EXTENDS Conversation

CONSTANTS me, ann, bob, nobody

TheTwo == {me, ann}
TheThree == {me, ann, bob}
AnnVouched == {ann}
AnnAndBobVouched == {ann, bob}

HistoryKinds == {"file", "fleeting", "delete", "nuke", "cleared"}
WholeKinds   == {"spoiler", "edit", "delete", "poll", "vote", "sealed", "aside"}
SealedKinds  == {"file", "sealed"}
================================================================================
