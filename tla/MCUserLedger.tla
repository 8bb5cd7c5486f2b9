---------------------------- MODULE MCUserLedger ----------------------------
(* An instance of UserLedger for TLC.                                      *)
EXTENDS UserLedger

Message(u, i) == [user |-> u, info |-> i, isAnonymous |-> FALSE]

(* Ava links an offer, before the listener or while it is away, and is    *)
(* edited, created, corrected and deleted by hand; so is Bo, whose own     *)
(* message is anonymous.                                                   *)
MCTopic ==
  <<Message("ava", "linked"), [Message("bo", "linked") EXCEPT !.isAnonymous = TRUE]>>
=============================================================================
