------------------------------ MODULE MCGateway ------------------------------
(* Small instances of Gateway.  "ask" and "use" are the two submissions of   *)
(* one approval-gated request, "again" reuses the approval under a new       *)
(* nonce, "swap" presents it for another request; "read" needs no approval.  *)
EXTENDS Gateway, TLC

MCGatedTask == {"ask", "use", "again"}
MCMixedTask == {"ask", "use", "swap", "read", "banned", "forged"}

MCNonceOf == [t \in Task |-> CASE t = "ask" -> "n1"
                                 [] t \in {"use", "forged"} -> "n2"
                                 [] OTHER -> "n3"]

MCIssuedAt == [t \in Task |-> 0]

MCExpiresAt == [t \in Task |-> IF t = "use" THEN 1 ELSE 2]

MCSignatureValid == [t \in Task |-> t # "forged"]

MCRequestOf == [t \in Task |-> CASE t = "read" -> "q2"
                                   [] t = "swap" -> "q3"
                                   [] t = "banned" -> "q4"
                                   [] OTHER -> "q1"]

MCApprovalIdOf == [t \in Task |-> IF t \in {"use", "again", "swap", "forged"}
                                  THEN "i1" ELSE "none"]

MCPolicy == [q \in Request |-> CASE q = "q2" -> "allow"
                                  [] q = "q4" -> "deny"
                                  [] OTHER -> "require_approval"]

\* Bounds of the runs: at most one crash; no envelope presented twice; the clock
\* ticks only where the envelopes are those of the one approved request.
OneCrash == Cardinality({x \in Actor : gpc[x] = "crashed"}) <= 1
DistinctTasks == \A c, d \in Call : vtask[c] = vtask[d] => c = d

TicksForOneRequest ==
    clock > 0 => \A c \in Call : vtask[c] \notin MCMixedTask \ {"ask", "use"}

CallSymmetry == Permutations(Call)
=============================================================================
