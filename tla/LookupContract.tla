--------------------------- MODULE LookupContract ---------------------------
(***************************************************************************)
(* What a run of atl-cli may rely on when it looks a block up              *)
(* (net/bitcoin.rs, lookup_block): it asks about one height at a time and  *)
(* is given one of the answers there can be about that height, either as a *)
(* new answer or as the last corroborated one given about it before.       *)
(* Nothing else is ever remembered.                                        *)
(***************************************************************************)
CONSTANTS
  Heights,
  Possible,     \* the answers there can be, by height
  Nothing       \* no answer has been given

VARIABLES
  question,     \* the height last asked about
  open,         \* it waits for its answer
  answer,       \* what it was answered with
  remembered    \* the corroborated answers kept for reuse

vars == <<question, open, answer, remembered>>

Init ==
  /\ question \in Heights
  /\ ~open
  /\ answer = Nothing
  /\ remembered = {}

Ask(h) ==
  /\ ~open
  /\ question' = h
  /\ open'
  /\ answer' = Nothing
  /\ UNCHANGED remembered

(* A new answer; it is kept exactly if it is corroborated.                 *)
Answer(h) ==
  /\ open
  /\ question = h
  /\ ~open'
  /\ answer' \in Possible[h]
  /\ remembered' = IF answer'.kind = "Corroborated"
                   THEN {a \in remembered : a.header.height # h} \cup {answer'}
                   ELSE remembered
  /\ UNCHANGED question

(* The question is not put to anybody: the answer is the one remembered    *)
(* about that height, or that there is none.                               *)
AnswerAtOnce(h) ==
  /\ ~open
  /\ question' = h
  /\ \/ answer' \in {a \in remembered : a.header.height = h}
     \/ answer' \in {a \in Possible[h] : a.kind = "Unavailable"}
  /\ UNCHANGED <<open, remembered>>

Next == \E h \in Heights : Ask(h) \/ Answer(h) \/ AnswerAtOnce(h)

Spec == Init /\ [][Next]_vars
=============================================================================
