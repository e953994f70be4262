---------------------------- MODULE VerifyContract ----------------------------
(***************************************************************************)
(* What `atl verify` promises whoever reads its exit code (error.rs and    *)
(* the README's table of exit codes), for one file and for a directory     *)
(* alike: the evidence is examined once, without a network; after that it  *)
(* can only gain acceptance; and the one answer is the code for where it   *)
(* stands.  SingleRun and BatchRun implement this.                         *)
(***************************************************************************)
EXTENDS Naturals

CONSTANT NoExit

VARIABLES standing, exit

vars == <<standing, exit>>

Standings == {"Unexamined", "Refuted", "Open", "Accepted", "Failed"}

(* What was accepted may still exit 2: something asked for was not done.   *)
Codes == [Refuted |-> {1}, Failed |-> {2}, Open |-> {3}, Accepted |-> {0, 2}]

Init == standing = "Unexamined" /\ exit = NoExit

Examine ==
  /\ exit = NoExit /\ standing = "Unexamined"
  /\ standing' \in Standings \ {"Unexamined"}
  /\ UNCHANGED exit

(* More evidence has come in.                                              *)
Complete ==
  /\ exit = NoExit /\ standing = "Open"
  /\ standing' = "Accepted"
  /\ UNCHANGED exit

(* An error before there is a verdict; one of atl-core's own exits 1.      *)
GiveUp ==
  /\ exit = NoExit /\ standing = "Unexamined"
  /\ exit' \in {1, 2}
  /\ UNCHANGED standing

Answer ==
  /\ exit = NoExit /\ standing # "Unexamined"
  /\ exit' \in Codes[standing]
  /\ UNCHANGED standing

Next == Examine \/ Complete \/ GiveUp \/ Answer

(* The caller gets an answer.                                              *)
Spec == Init /\ [][Next]_vars /\ <>(exit # NoExit)
=============================================================================
