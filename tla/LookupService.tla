---------------------------- MODULE LookupService ----------------------------
(***************************************************************************)
(* The block lookup seen by the verification runs.  SingleRun and BatchRun *)
(* let the environment choose an answer from Verdicts' Lookups; here the   *)
(* lookup of net/bitcoin.rs is shown to give no other, its cache included, *)
(* so that what is checked of a run under that choice holds of the program *)
(* that looks blocks up.                                                   *)
(***************************************************************************)
EXTENDS BlockLookup

CONSTANTS NoHeader, Nothing

(* The runs do not look at a header's hash.                                *)
Judged(header) == [height |-> header.height, root |-> header.root, time |-> header.time]

Verdicts == INSTANCE Verdicts WITH
  Seconds <- Times,
  Blocks <- {Judged(b) : b \in Blocks},
  Instants <- {}, Unreadable <- Unnamed, NanosPerSecond <- 1, MaxNanos <- 0,
  NoProof <- Unnamed

(* The header an answer is read with (verify/online.rs): the first source's, *)
(* which for a corroborated answer is every source's.                      *)
Read(kind, R) ==
  [kind   |-> kind,
   header |-> IF kind \in {"Corroborated", "Uncorroborated"}
              THEN Judged((CHOOSE r \in R : TRUE).header) ELSE NoHeader]

AnswersAbout == [h \in Heights |-> Verdicts!Lookups(h)]

Contract == INSTANCE LookupContract WITH
  Possible   <- AnswersAbout,
  question   <- outcome.height,
  open       <- busy,
  answer     <- IF outcome.kind = "None" THEN Nothing
                ELSE Read(outcome.kind, outcome.reports),
  remembered <- {Read("Corroborated", e.reports) : e \in cache}

(* However its endpoints answer, the lookup is one of those the runs are   *)
(* checked with: every answer is about the height that was asked, a        *)
(* corroborated one is an existing block's, and one given without asking   *)
(* is the last corroborated answer about that height (lookup_block).       *)
LookupKeepsContract == Contract!Spec
=============================================================================
