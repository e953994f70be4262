---------------------------- MODULE MCFileMatching ----------------------------
(* Two files whose names differ in bytes that are not text, a receipt of   *)
(* each, and a receipt of the first one's receipt.                         *)
EXTENDS FileMatching

CONSTANTS doc, twin, doc_atl, twin_atl, doc_atl_atl

MCNames == {doc, twin, doc_atl, twin_atl, doc_atl_atl}

MCStem == [n \in MCNames |-> CASE n = doc_atl     -> doc
                               [] n = twin_atl    -> twin
                               [] n = doc_atl_atl -> doc_atl
                               [] n \in {doc, twin} -> NoStem]

MCLossy == [n \in MCNames |-> CASE n = twin     -> doc
                                [] n = twin_atl -> doc_atl
                                [] n \notin {twin, twin_atl} -> n]

Object(type, target) == [type |-> type, target |-> target, opens |-> TRUE]

Locked == [File EXCEPT !.opens = FALSE]

(* A link to a file, a directory, a dangling link, a pipe, an entry of     *)
(* unknown type, a file that does not open.                                *)
Odd == {Object("other", "file"), Object("dir", "dir"), Object("other", "error"),
        Object("other", "other"), Object("error", "error"), Locked}

(* Two plain files at most, or both pairs; what belongs to the first pair  *)
(* may be odd, alone or beside the second.                                 *)
MCLayouts ==
  LET plain(P) == [n \in MCNames |-> IF n \in P THEN File ELSE Absent]
      both == {doc, twin, doc_atl, twin_atl}
  IN {plain(P) : P \in {both} \cup {Q \in SUBSET MCNames : Cardinality(Q) <= 2}}
     \cup {[plain(P) EXCEPT ![n] = o] : P \in {{}, both}, n \in {doc, doc_atl}, o \in Odd}

(* It goes away, appears, is locked, or gives way to a directory.          *)
MCTurns == {Absent, File, Locked, Object("dir", "dir")}
=============================================================================
