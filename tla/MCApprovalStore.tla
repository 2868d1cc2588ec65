--------------------------- MODULE MCApprovalStore ---------------------------
(* Small instances of ApprovalStore: two processes of any kind race on two   *)
(* requests and two or three identifiers, with rows that expire on the way.  *)
EXTENDS ApprovalStore, TLC

StoreSymmetry == Permutations(Proc) \cup Permutations(Request)
                    \cup Permutations(ApprovalId)
=============================================================================
