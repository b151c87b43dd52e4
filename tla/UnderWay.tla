------------------------------ MODULE UnderWay ------------------------------
(***************************************************************************)
(* The requests a view has under way are a sequence, in the order in which *)
(* they began, and an answer comes from any place of it.  These are        *)
(* RemoveAt, ToSet and SetToSeqs of SequencesExt: Screens has an instance  *)
(* of each of seven views, and an instance carries through every proof all *)
(* the operators of the modules it extends, so the views extend the three  *)
(* they use.                                                               *)
(***************************************************************************)
EXTENDS Naturals, Sequences, FiniteSets

\* What is left under way when answer i has come.
Without(s, i) == SubSeq(s, 1, i - 1) \o SubSeq(s, i + 1, Len(s))

\* What a list holds.
Elements(s) == {s[i] : i \in DOMAIN s}

\* The orders in which a finite set can be listed.
Orders(S) ==
  LET places == 1 .. Cardinality(S)
  IN {f \in [places -> S] : \A i, j \in places : i # j => f[i] # f[j]}

=============================================================================
