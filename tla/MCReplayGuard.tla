--------------------------- MODULE MCReplayGuard ---------------------------
(* Small instances of ReplayGuard.  Two envelopes carry the same nonce with  *)
(* different expiries; three envelopes with three nonces compete for two     *)
(* rows; one envelope is forged and one is dated too far in the future.      *)
EXTENDS ReplayGuard, TLC

MCTask == {"short", "reused", "other", "third", "forged", "future"}

MCFewTasks == {"short", "other"}

MCNonceOf == [t \in Task |-> CASE t \in {"short", "reused"} -> "n1"
                                 [] t = "other" -> "n2"
                                 [] OTHER -> "n3"]

MCIssuedAt == [t \in Task |-> CASE t = "reused" -> 1
                                  [] t = "future" -> 2
                                  [] OTHER -> 0]

MCExpiresAt == [t \in Task |-> CASE t = "short" -> 1
                                   [] t = "other" -> 2
                                   [] OTHER -> 3]

MCSignatureValid == [t \in Task |-> t # "forged"]

CallSymmetry == Permutations(Call)
=============================================================================
