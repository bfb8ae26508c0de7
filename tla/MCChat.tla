------------------------------- MODULE MCChat -------------------------------
(* Up to three messages of one conversation.                               *)
EXTENDS Chat

ThreeMessages == 1..3
=============================================================================
