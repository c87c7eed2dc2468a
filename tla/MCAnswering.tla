---------------------------- MODULE MCAnswering -----------------------------
(***************************************************************************)
(* Instance of Answering for TLC: card numbers of four digits.  One is     *)
(* valid, one has a wrong digit, in one a 9 and a 0 changed places, which  *)
(* Luhn does not find, and one is too short.                               *)
(***************************************************************************)
EXTENDS Answering

MCContext == << Message("system", "line", << >>, ""),
                Message("user", "lines", << >>, "") >>

MCArguments == { <<9, 0, 7, 6>>, <<8, 0, 7, 6>>, <<0, 9, 7, 6>>, <<9, 0, 7>> }
=============================================================================
