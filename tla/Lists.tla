------------------------------- MODULE Lists -------------------------------
(* The part of a list that a filter lets through.  It is a function of the  *)
(* places rather than SelectSeq, of which the provers know no definition.   *)
EXTENDS Naturals, Sequences, FiniteSets

\* The elements of s at the places in I, in their order.
PickAt(s, I) ==
    LET upTo[n \in 0..Len(s)] == IF n = 0 THEN <<>>
                                 ELSE IF n \in I THEN Append(upTo[n - 1], s[n]) ELSE upTo[n - 1]
    IN  upTo[Len(s)]

Only(s, S)   == PickAt(s, {i \in DOMAIN s : s[i] \in S})
AllBut(s, S) == PickAt(s, {i \in DOMAIN s : s[i] \notin S})
=============================================================================
