------------------------------ MODULE Consistency ------------------------------
(***************************************************************************)
(* Comparing the receipts of a batch (verify/consistency.rs) and what both *)
(* renderers say of the comparison (output/human.rs, output/json.rs).      *)
(*                                                                         *)
(* A receipt is what the comparison reads of it: when the walk of the      *)
(* source directory yielded it (at), the file it is for, the log instance  *)
(* it names (genesis), the size of the tree it was issued from, and        *)
(* whether its own proof of consistency with the origin holds.  Without a  *)
(* super_proof it does not come here at all.                               *)
(***************************************************************************)
EXTENDS Naturals, Sequences, FiniteSets

Instances(receipts) == {r.genesis : r \in receipts}

(* A stable sort by tree size, within an instance.                         *)
Rank(receipts, r) ==
  1 + Cardinality({s \in receipts : /\ s.genesis = r.genesis
                                    /\ \/ s.size < r.size
                                       \/ s.size = r.size /\ s.at < r.at})

(* Where the receipts of an instance begin among all participants:         *)
(* instances are taken in the order of their identifiers.                  *)
Base(receipts, genesis) == Cardinality({s \in receipts : s.genesis < genesis})

Place(receipts, r) == Base(receipts, r.genesis) + Rank(receipts, r)

(* Neighbours within an instance, windows(2).                              *)
Windows(receipts) ==
  {w \in receipts \X receipts : /\ w[1].genesis = w[2].genesis
                               /\ Rank(receipts, w[2]) = Rank(receipts, w[1]) + 1}

(* atl-core's verify_cross_receipts: one genesis, and the proof of either  *)
(* receipt that the origin is a prefix of its tree.                        *)
HistoryConsistent(a, b) == a.genesis = b.genesis /\ a.holds /\ b.holds

(* Two receipts compared, by their places among the participants.          *)
CrossCheck(a, from, b, to) ==
  [from |-> from, to |-> to, consistent |-> HistoryConsistent(a, b)]

(* A mutant of CrossResults: places are counted within the instance.       *)
CrossResultsUnbased(receipts) ==
  {CrossCheck(w[1], Rank(receipts, w[1]), w[2], Rank(receipts, w[2])) : w \in Windows(receipts)}

(* A mutant of CrossResults: neighbours in the list, whatever their log.   *)
CrossResultsAll(receipts) ==
  {CrossCheck(w[1], Place(receipts, w[1]), w[2], Place(receipts, w[2])) :
     w \in {v \in receipts \X receipts : Place(receipts, v[2]) = Place(receipts, v[1]) + 1}}

CrossResults(receipts) ==
  {CrossCheck(w[1], Place(receipts, w[1]), w[2], Place(receipts, w[2])) : w \in Windows(receipts)}

(* verify_consistency.  genesis_super_root is a set of at most one: the    *)
(* instance, if there is one to name.                                      *)
VerifyConsistency(receipts) ==
  [log_instance_count |-> Cardinality(Instances(receipts)),
   genesis_super_root |-> IF Cardinality(Instances(receipts)) = 1
                          THEN Instances(receipts) ELSE {},
   participants |-> [place \in 1..Cardinality(receipts) |->
                       (CHOOSE r \in receipts : Place(receipts, r) = place).name],
   cross_results |-> CrossResults(receipts)]

IsConsistent(c) == \A check \in c.cross_results : check.consistent

SingleLogInstance(c) == c.log_instance_count <= 1

Checked(c) == c.cross_results # {}

-----------------------------------------------------------------------------
(* Rendered.                                                               *)

(* print_consistency: the headline and, unless nothing was compared,       *)
(* whether one instance is claimed and the comparisons.                    *)
HumanConsistency(c) ==
  [status |-> IF ~Checked(c) THEN "not_checked"
              ELSE IF IsConsistent(c) THEN "verified" ELSE "failed",
   same_instance |-> Checked(c) /\ IsConsistent(c) /\ SingleLogInstance(c),
   checks |-> c.cross_results]

(* ConsistencyJson, and CrossCheckJson with the names of the files.        *)
JsonConsistency(c) ==
  [status |-> IF Checked(c) THEN IF IsConsistent(c) THEN "verified" ELSE "failed"
              ELSE "not_checked",
   log_instances |-> c.log_instance_count,
   genesis_super_root |-> c.genesis_super_root,
   receipt_count |-> Len(c.participants),
   cross_checks_passed |-> Cardinality({check \in c.cross_results : check.consistent}),
   cross_checks |-> {[from_file |-> c.participants[check.from],
                      to_file |-> c.participants[check.to],
                      same_log_instance |-> check.consistent] : check \in c.cross_results}]
=============================================================================
