------------------------------ MODULE MCClcJobs ------------------------------
(* Instances of ClcJobs for TLC. Job ids are interchangeable: nothing compares *)
(* them, so runs that check invariants and properties of single steps are      *)
(* reduced by symmetry.                                                        *)
EXTENDS ClcJobs, TLC

JobSymmetry == Permutations(Jobs)
==============================================================================
