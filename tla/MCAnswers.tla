----------------------------- MODULE MCAnswers -----------------------------
(***************************************************************************)
(* A small instance of Answers.                                            *)
(***************************************************************************)
EXTENDS Answers

\* A type code, no room, the sizes of numbers, and those of the texts with their terminators.
Rooms == {-6, 0} \cup {2 * n + 2 : n \in {0, 1, 2, 5, 10, 14}}
=============================================================================
