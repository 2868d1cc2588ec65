------------------------- MODULE ApprovalStoreProofs -------------------------
(***************************************************************************)
(* Machine-checked proofs about ApprovalStore, for every set of processes, *)
(* requests and identifiers and for every capacity, lifetime and clock.    *)
(***************************************************************************)
EXTENDS ApprovalStore, FiniteSetTheorems, TLAPS

\* The arguments of a begun operation, and its clock, which is never ahead.
CallInv ==
    \A p \in Proc : apc[p] # "idle" =>
        /\ anow[p] <= clock
        /\ apc[p] \notin {"create", "list"} => aid[p] \in ApprovalId
        /\ apc[p] \notin {"list", "deny"} => areq[p] \in Request

\* What a table says about an identifier that was, or was not, issued.
FreshIds(rows) ==
    \A i \in ApprovalId :
        /\ rows[i].state = "absent" => rows[i] = Absent
        /\ rows[i].state # "absent" => rows[i].request \in Request /\ i \in issued
        /\ i \notin issued => /\ grants[i] = <<>>
                              /\ \A d \in decisions : d.id # i

\* A decision that was committed is still the row's, while there is one;
\* it is the only one, and an approved row has it.
DecisionsHold(rows) ==
    /\ \A d \in decisions : rows[d.id].state # "absent" =>
          /\ rows[d.id].request = d.request
          /\ rows[d.id].state \in IF d.decision = "approved"
                                  THEN {"approved", "consumed"} ELSE {"denied"}
    /\ \A i \in ApprovalId : rows[i].state = "approved" =>
          [id |-> i, decision |-> "approved", request |-> rows[i].request] \in decisions

\* A used approval's row says so, while there is one.
GrantsHold(rows) ==
    \A i \in ApprovalId :
        \/ grants[i] = <<>>
        \/ /\ Len(grants[i]) = 1
           /\ rows[i].state \in {"consumed", "absent"}

OneOpen(rows) ==
    \A i, j \in ApprovalId :
        (/\ rows[i].state \in {"pending", "approved"}
         /\ rows[j].state \in {"pending", "approved"}
         /\ rows[i].request = rows[j].request)
            => i = j

TableInv(rows) ==
    /\ rows \in [ApprovalId -> Row]
    /\ FreshIds(rows)
    /\ DecisionsHold(rows)
    /\ GrantsHold(rows)
    /\ OneOpen(rows)

\* The inductive invariant.
IInv ==
    /\ TypeOK
    /\ CallInv
    /\ TableInv(row)
    /\ DecisionsAgree
    /\ ConsumedWasApproved

-----------------------------------------------------------------------------

\* The invariant holds of the empty table.
LEMMA InitIInv == Init => IInv
  <1> SUFFICES ASSUME Init PROVE IInv
    OBVIOUS
  <1> USE ApprovalAssumption DEF Init
  <1>1. Absent \in Row /\ Absent.state = "absent"
    BY DEF Absent, Row, RowState
  <1>2. TypeOK
    BY <1>1 DEF TypeOK, Waiting, Outcome
  <1>3. CallInv
    BY DEF CallInv
  <1>4. TableInv(row)
    BY <1>1 DEF TableInv, FreshIds, DecisionsHold, GrantsHold, OneOpen
  <1>5. DecisionsAgree /\ ConsumedWasApproved
    BY DEF DecisionsAgree, ConsumedWasApproved
  <1>6. QED
    BY <1>2, <1>3, <1>4, <1>5 DEF IInv

\* Pruning with any clock keeps every fact about the table: a row that is
\* deleted stops being constrained.
LEMMA PruneKeeps ==
    ASSUME IInv, NEW n \in Nat
    PROVE  /\ TableInv(DeleteExpired(n))
           /\ \A i \in ApprovalId : \/ DeleteExpired(n)[i] = row[i]
                                    \/ DeleteExpired(n)[i] = Absent
  <1> DEFINE kept == DeleteExpired(n)
  <1>1. Absent \in Row /\ Absent.state = "absent"
    BY DEF Absent, Row, RowState
  <1>2. /\ kept \in [ApprovalId -> Row]
        /\ \A i \in ApprovalId : kept[i] = row[i] \/ kept[i] = Absent
    BY <1>1 DEF DeleteExpired, IInv, TypeOK
  <1>3. FreshIds(kept)
    BY <1>1, <1>2 DEF FreshIds, IInv, TableInv
  <1>4. DecisionsHold(kept)
    BY <1>1, <1>2 DEF DecisionsHold, IInv, TableInv, TypeOK, Decision
  <1>5. GrantsHold(kept)
    BY <1>1, <1>2 DEF GrantsHold, IInv, TableInv
  <1>6. OneOpen(kept)
    BY <1>1, <1>2 DEF OneOpen, IInv, TableInv
  <1>7. QED
    BY <1>2, <1>3, <1>4, <1>5, <1>6 DEF TableInv

\* A step that touches neither the table nor the histories, and only ends,
\* begins or advances operations, keeps the rest of the invariant.
LEMMA CallStep ==
    ASSUME IInv, TypeOK', CallInv', UNCHANGED <<row, issued, decisions, grants>>
    PROVE  IInv'
  BY DEF IInv, TableInv, FreshIds, DecisionsHold, GrantsHold, OneOpen,
         DecisionsAgree, ConsumedWasApproved, TypeOK

\* Ending an operation keeps the types and the facts about the others.
LEMMA EndKeeps ==
    ASSUME IInv, NEW p \in Proc, NEW o \in Outcome,
           NEW i \in ApprovalId \cup {"none"}, EndWith(p, o, i), clock' = clock
    PROVE  /\ apc' \in [Proc -> Waiting \cup {"idle", "confirm"}]
           /\ aid' \in [Proc -> ApprovalId \cup {"none"}]
           /\ areq' \in [Proc -> Request \cup {"none"}]
           /\ anow' \in [Proc -> Nat]
           /\ aout' \in [Proc -> Outcome]
           /\ CallInv'
  BY DEF IInv, TypeOK, EndWith, CallInv, Waiting

\* Same, for an operation that ends without any effect on the store.
LEMMA EndStep ==
    ASSUME IInv, NEW p \in Proc, NEW o \in Outcome, End(p, o),
           UNCHANGED <<clock, row, issued, decisions, grants>>
    PROVE  IInv'
  <1>1. EndWith(p, o, "none")
    BY DEF End
  <1>2. TypeOK' /\ CallInv'
    BY <1>1, EndKeeps DEF IInv, TypeOK
  <1>3. QED
    BY <1>2, CallStep

\* A step that replaces the table by one that satisfies the table invariant,
\* with the histories unchanged.
LEMMA TableStep ==
    ASSUME IInv, NEW p \in Proc, NEW i \in ApprovalId \cup {"none"},
           NEW o \in Outcome, EndWith(p, o, i),
           TableInv(row)',
           issued' \in SUBSET ApprovalId,
           UNCHANGED <<clock, decisions, grants>>
    PROVE  IInv'
  <1>1. TypeOK' /\ CallInv'
    BY EndKeeps DEF IInv, TypeOK, TableInv
  <1>2. DecisionsAgree' /\ ConsumedWasApproved'
    BY DEF IInv, DecisionsAgree, ConsumedWasApproved
  <1>3. QED
    BY <1>1, <1>2 DEF IInv

-----------------------------------------------------------------------------

\* Beginning an operation, for each of the five.
LEMMA BeginStep ==
    ASSUME IInv, NEW p \in Proc, BeginAny(p)
    PROVE  IInv'
  <1>1. ASSUME NEW op \in Waiting, NEW i \in ApprovalId \cup {"none"},
               NEW q \in Request \cup {"none"}, Begin(p, op, i, q),
               op \notin {"create", "list"} => i \in ApprovalId,
               op \notin {"list", "deny"} => q \in Request
        PROVE  IInv'
    <2>1. TypeOK'
      BY <1>1 DEF Begin, IInv, TypeOK, Outcome, storeVars, historyVars
    <2>2. CallInv'
      BY <1>1 DEF Begin, IInv, TypeOK, CallInv, storeVars, historyVars, Waiting
    <2>3. UNCHANGED <<row, issued, decisions, grants>>
      BY <1>1 DEF Begin, storeVars, historyVars
    <2>4. QED
      BY <2>1, <2>2, <2>3, CallStep
  <1>2. ASSUME BeginList(p) PROVE IInv'
    BY <1>1, <1>2 DEF BeginList, Waiting
  <1>3. ASSUME NEW q \in Request, BeginCreate(p, q) PROVE IInv'
    BY <1>1, <1>3 DEF BeginCreate, Waiting
  <1>4. ASSUME NEW i \in ApprovalId, BeginDeny(p, i) PROVE IInv'
    BY <1>1, <1>4 DEF BeginDeny, Waiting
  <1>5. ASSUME NEW i \in ApprovalId, NEW q \in Request, BeginConsume(p, i, q)
        PROVE IInv'
    BY <1>1, <1>5 DEF BeginConsume, Waiting
  <1>6. ASSUME NEW i \in ApprovalId, NEW q \in Request, BeginApprove(p, i, q)
        PROVE IInv'
    BY <1>1, <1>6 DEF BeginApprove, Waiting
  <1>7. QED
    BY <1>2, <1>3, <1>4, <1>5, <1>6 DEF BeginAny

\* Inserting a pending row for a request that has no open row left.
LEMMA CreateInsertsStep ==
    ASSUME IInv, NEW p \in Proc, CreateInserts(p)
    PROVE  IInv'
  <1> DEFINE kept == DeleteExpired(anow[p])
  <1>1. anow[p] \in Nat /\ areq[p] \in Request
    BY DEF CreateInserts, IInv, TypeOK, CallInv
  <1>2. PICK i \in ApprovalId \ issued :
            /\ row' = [kept EXCEPT ![i] = [state |-> "pending",
                                           request |-> areq[p],
                                           created |-> anow[p],
                                           expires |-> anow[p] + Ttl]]
            /\ issued' = issued \cup {i}
            /\ EndWith(p, "returned", i)
    BY DEF CreateInserts
  <1> DEFINE new == [state |-> "pending", request |-> areq[p],
                     created |-> anow[p], expires |-> anow[p] + Ttl]
  <1>3. TableInv(kept)
    BY <1>1, PruneKeeps
  <1>4. /\ OpenRows(kept, areq[p], anow[p]) = {}
        /\ UNCHANGED <<clock, decisions, grants>>
    BY DEF CreateInserts, historyVars
  <1>5. new \in Row /\ new.state = "pending" /\ new.request = areq[p]
    BY <1>1, ApprovalAssumption DEF Row, RowState
  <1>6. /\ row' \in [ApprovalId -> Row]
        /\ row'[i] = new
        /\ \A j \in ApprovalId : j # i => row'[j] = kept[j]
    BY <1>2, <1>3, <1>5 DEF TableInv
  \* A kept open row of the same request would be unexpired at this clock,
  \* and would have been returned.
  <1>7. \A j \in ApprovalId : kept[j].state \in {"pending", "approved"}
                                  => kept[j].request # areq[p]
    <2> SUFFICES ASSUME NEW j \in ApprovalId,
                        kept[j].state \in {"pending", "approved"},
                        kept[j].request = areq[p]
                 PROVE  FALSE
      OBVIOUS
    <2>1. kept[j] # Absent
      BY DEF Absent
    <2>2. kept[j].expires > anow[p]
      BY <2>1, <1>1 DEF DeleteExpired, IInv, TypeOK, Row
    <2>3. QED
      BY <1>4, <2>2 DEF OpenRows
  <1>8. FreshIds(row)'
    BY <1>1, <1>2, <1>3, <1>4, <1>5, <1>6 DEF TableInv, FreshIds
  <1>9. DecisionsHold(row)'
    BY <1>2, <1>3, <1>4, <1>5, <1>6
    DEF TableInv, FreshIds, DecisionsHold, IInv, TypeOK, Decision
  <1>10. GrantsHold(row)'
    BY <1>2, <1>3, <1>4, <1>5, <1>6 DEF TableInv, FreshIds, GrantsHold
  <1>11. OneOpen(row)'
    BY <1>3, <1>5, <1>6, <1>7 DEF TableInv, OneOpen
  <1>12. TableInv(row)'
    BY <1>6, <1>8, <1>9, <1>10, <1>11 DEF TableInv
  <1>13. issued' \in SUBSET ApprovalId /\ "returned" \in Outcome
    BY <1>2 DEF IInv, TypeOK, Outcome
  <1>14. QED
    BY <1>2, <1>4, <1>12, <1>13, TableStep

\* An operator's decision on a pending row, or its repetition.
LEMMA DecideStep ==
    ASSUME IInv, NEW p \in Proc, Decide(p)
    PROVE  IInv'
  <1> DEFINE i == aid[p]
  <1> DEFINE dec == DecisionOf(p)
  <1> DEFINE new == [id |-> i, decision |-> dec, request |-> row[i].request]
  <1>1. /\ i \in ApprovalId
        /\ row[i].state \in {"pending", dec}
        /\ row[i].state # "absent"
        /\ row' = [row EXCEPT ![i] = ReplaceState(row[i], dec)]
        /\ decisions' = decisions \cup {new}
        /\ EndWith(p, dec, i)
        /\ UNCHANGED <<clock, issued, grants>>
    BY DEF Decide, Decidable, Loaded, Undecided, IInv, CallInv, End
  <1>2. dec \in {"approved", "denied"} /\ dec \in Outcome
    BY DEF DecisionOf, Outcome
  <1>3. row[i] \in Row /\ row[i].request \in Request /\ i \in issued
    BY <1>1 DEF IInv, TypeOK, TableInv, FreshIds
  <1>4. new \in Decision
    BY <1>1, <1>2, <1>3 DEF Decision
  <1>5. /\ row' \in [ApprovalId -> Row]
        /\ row'[i].state = dec /\ row'[i].request = row[i].request
        /\ \A j \in ApprovalId : j # i => row'[j] = row[j]
    BY <1>1, <1>2, <1>3 DEF IInv, TypeOK, Row, RowState, ReplaceState
  <1>6. TypeOK' /\ CallInv'
    BY <1>1, <1>2, <1>4, <1>5, EndKeeps DEF IInv, TypeOK
  \* A decision already recorded for this row is this very decision.
  <1>7. \A d \in decisions : d.id = i => d = new
    <2> SUFFICES ASSUME NEW d \in decisions, d.id = i PROVE d = new
      OBVIOUS
    <2>1. d \in Decision
      BY DEF IInv, TypeOK
    <2>2. /\ row[i].request = d.request
          /\ row[i].state \in IF d.decision = "approved"
                              THEN {"approved", "consumed"} ELSE {"denied"}
      BY <1>1 DEF IInv, TableInv, DecisionsHold
    <2>3. d.decision = dec
      BY <1>1, <1>2, <2>1, <2>2 DEF Decision
    <2>4. QED
      BY <2>1, <2>2, <2>3 DEF Decision
  <1>8. FreshIds(row)'
    <2>1. FreshIds(row)
      BY DEF IInv, TableInv
    <2>2. new.id = i
      OBVIOUS
    <2>3. QED
      BY <1>1, <1>2, <1>3, <1>5, <2>1, <2>2 DEF FreshIds
  <1>9. DecisionsHold(row)'
    <2>1. DecisionsHold(row)
      BY DEF IInv, TableInv
    <2>2. \A d \in decisions' : d.id \in ApprovalId
      BY <1>6 DEF TypeOK, Decision
    <2>3. \A d \in decisions' : d.id = i => d = new
      BY <1>1, <1>7
    <2>4. new \in decisions'
      BY <1>1
    <2>5. \A d \in decisions' : d.id # i => d \in decisions
      BY <1>1
    <2>6. ASSUME NEW d \in decisions', row'[d.id].state # "absent"
          PROVE  /\ row'[d.id].request = d.request
                 /\ row'[d.id].state \in IF d.decision = "approved"
                                         THEN {"approved", "consumed"} ELSE {"denied"}
      <3>1. CASE d.id = i
        BY <3>1, <1>2, <1>5, <2>3
      <3>2. CASE d.id # i
        BY <3>2, <1>5, <2>1, <2>2, <2>5, <2>6 DEF DecisionsHold
      <3>3. QED
        BY <3>1, <3>2
    <2>7. ASSUME NEW j \in ApprovalId, row'[j].state = "approved"
          PROVE  [id |-> j, decision |-> "approved", request |-> row'[j].request]
                     \in decisions'
      <3>1. CASE j = i
        BY <3>1, <1>5, <2>4, <2>7
      <3>2. CASE j # i
        BY <3>2, <1>1, <1>5, <2>1, <2>7 DEF DecisionsHold
      <3>3. QED
        BY <3>1, <3>2
    <2>8. QED
      BY <2>6, <2>7 DEF DecisionsHold
  <1>10. GrantsHold(row)'
    BY <1>1, <1>2, <1>5 DEF IInv, TableInv, GrantsHold
  <1>11. OneOpen(row)'
    <2>1. \A j \in ApprovalId : row'[j].state \in {"pending", "approved"}
              => row[j].state \in {"pending", "approved"} /\ row'[j].request = row[j].request
      BY <1>1, <1>2, <1>5
    <2>2. QED
      BY <2>1 DEF IInv, TableInv, OneOpen
  <1>12. DecisionsAgree'
    BY <1>1, <1>7 DEF IInv, DecisionsAgree
  <1>13. ConsumedWasApproved'
    BY <1>1 DEF IInv, ConsumedWasApproved
  <1>14. QED
    BY <1>5, <1>6, <1>8, <1>9, <1>10, <1>11, <1>12, <1>13 DEF IInv, TableInv

\* Consuming an approved row, for the request it was approved for.
LEMMA ConsumeStep ==
    ASSUME IInv, NEW p \in Proc, Consume(p)
    PROVE  IInv'
  <1> DEFINE i == aid[p]
  <1>1. /\ i \in ApprovalId
        /\ areq[p] \in Request
        /\ row[i].state = "approved"
        /\ row[i].request = areq[p]
        /\ row' = [row EXCEPT ![i] = ReplaceState(row[i], "consumed")]
        /\ grants' = [grants EXCEPT ![i] = Append(grants[i], areq[p])]
        /\ EndWith(p, "consumed", i)
        /\ UNCHANGED <<clock, issued, decisions>>
    BY DEF Consume, Loaded, Matches, Consumable, IInv, CallInv, End
  <1>2. grants[i] = <<>>
    BY <1>1 DEF IInv, TableInv, GrantsHold
  <1>3. grants' = [grants EXCEPT ![i] = <<areq[p]>>]
    BY <1>1, <1>2
  <1>4. /\ grants' \in [ApprovalId -> Seq(Request)]
        /\ grants'[i] = <<areq[p]>>
        /\ \A j \in ApprovalId : j # i => grants'[j] = grants[j]
    <2>1. <<areq[p]>> \in Seq(Request)
      BY <1>1
    <2>2. grants \in [ApprovalId -> Seq(Request)]
      BY DEF IInv, TypeOK
    <2>3. QED
      BY <1>1, <1>3, <2>1, <2>2
  <1>5. row[i] \in Row /\ i \in issued
    BY <1>1 DEF IInv, TypeOK, TableInv, FreshIds
  <1>6. /\ row' \in [ApprovalId -> Row]
        /\ row'[i].state = "consumed" /\ row'[i].request = row[i].request
        /\ \A j \in ApprovalId : j # i => row'[j] = row[j]
    BY <1>1, <1>5 DEF IInv, TypeOK, Row, RowState, ReplaceState
  <1>7. TypeOK' /\ CallInv'
    <2>1. "consumed" \in Outcome
      BY DEF Outcome
    <2>2. QED
      BY <1>1, <1>4, <1>6, <2>1, EndKeeps DEF IInv, TypeOK
  <1>8. FreshIds(row)'
    BY <1>1, <1>4, <1>5, <1>6 DEF IInv, TableInv, FreshIds
  <1>9. DecisionsHold(row)'
    <2>1. DecisionsHold(row) /\ \A d \in decisions : d \in Decision
      BY DEF IInv, TableInv, TypeOK
    <2>2. QED
      BY <1>1, <1>6, <2>1 DEF DecisionsHold, Decision
  <1>10. GrantsHold(row)'
    <2>1. Len(grants'[i]) = 1 /\ row'[i].state \in {"consumed", "absent"}
      BY <1>4, <1>6
    <2>2. QED
      BY <1>4, <1>6, <2>1 DEF IInv, TableInv, GrantsHold
  <1>11. OneOpen(row)'
    BY <1>1, <1>6 DEF IInv, TableInv, OneOpen
  <1>12. ConsumedWasApproved'
    <2>1. [id |-> i, decision |-> "approved", request |-> areq[p]] \in decisions
      BY <1>1 DEF IInv, TableInv, DecisionsHold
    <2>2. QED
      BY <1>1, <1>4, <2>1 DEF IInv, ConsumedWasApproved
  <1>13. DecisionsAgree'
    BY <1>1 DEF IInv, DecisionsAgree
  <1>14. QED
    BY <1>6, <1>7, <1>8, <1>9, <1>10, <1>11, <1>12, <1>13 DEF IInv, TableInv

\* Every step keeps the inductive invariant.
LEMMA StepIInv == IInv /\ [Next]_asVars => IInv'
  <1> SUFFICES ASSUME IInv, [Next]_asVars PROVE IInv'
    OBVIOUS
  <1>1. ASSUME NEW p \in Proc, BeginAny(p) PROVE IInv'
    BY <1>1, BeginStep
  <1>2. ASSUME NEW p \in Proc, CreateReturnsExisting(p) PROVE IInv'
    <2>1. PICK i \in OpenRows(DeleteExpired(anow[p]), areq[p], anow[p]) :
              EndWith(p, "returned", i)
      BY <1>2 DEF CreateReturnsExisting
    <2>2. i \in ApprovalId /\ "returned" \in Outcome /\ anow[p] \in Nat
      BY <2>1 DEF OpenRows, Outcome, IInv, TypeOK
    <2>3. /\ row' = DeleteExpired(anow[p])
          /\ UNCHANGED <<clock, issued, decisions, grants>>
      BY <1>2 DEF CreateReturnsExisting, historyVars
    <2>4. TableInv(row)'
      BY <2>2, <2>3, PruneKeeps
      DEF TableInv, FreshIds, DecisionsHold, GrantsHold, OneOpen
    <2>5. QED
      BY <2>1, <2>2, <2>3, <2>4, TableStep DEF IInv, TypeOK
  <1>3. ASSUME NEW p \in Proc, CreateInserts(p) PROVE IInv'
    BY <1>3, CreateInsertsStep
  <1>4. ASSUME NEW p \in Proc, ListPending(p) PROVE IInv'
    <2>1. anow[p] \in Nat /\ "none" \in Outcome
      BY DEF IInv, TypeOK, Outcome
    <2>2. /\ row' = DeleteExpired(anow[p])
          /\ EndWith(p, "none", "none")
          /\ UNCHANGED <<clock, issued, decisions, grants>>
      BY <1>4 DEF ListPending, End, historyVars
    <2>3. TableInv(row)'
      BY <2>1, <2>2, PruneKeeps
      DEF TableInv, FreshIds, DecisionsHold, GrantsHold, OneOpen
    <2>4. QED
      BY <2>1, <2>2, <2>3, TableStep DEF IInv, TypeOK
  <1>5. ASSUME NEW p \in Proc, Inspect(p) \/ Confirm(p) PROVE IInv'
    <2>1. TypeOK'
      BY <1>5 DEF Inspect, Confirm, IInv, TypeOK, Waiting, storeVars, historyVars
    <2>2. CallInv'
      <3>1. CASE Inspect(p)
        BY <3>1 DEF Inspect, IInv, TypeOK, CallInv, storeVars, historyVars, Waiting
      <3>2. CASE Confirm(p)
        BY <3>2 DEF Confirm, IInv, TypeOK, CallInv, storeVars, historyVars, Waiting
      <3>3. QED
        BY <1>5, <3>1, <3>2
    <2>3. UNCHANGED <<row, issued, decisions, grants>>
      BY <1>5 DEF Inspect, Confirm, storeVars, historyVars
    <2>4. QED
      BY <2>1, <2>2, <2>3, CallStep
  <1>6. ASSUME NEW p \in Proc, Decide(p) PROVE IInv'
    BY <1>6, DecideStep
  <1>7. ASSUME NEW p \in Proc, Consume(p) PROVE IInv'
    BY <1>7, ConsumeStep
  <1>8. ASSUME NEW p \in Proc,
               \/ CreateFull(p) \/ ApproveAbandoned(p) \/ DecideRefused(p)
               \/ ConsumeRefused(p) \/ Unavailable(p) \/ Crash(p)
        PROVE IInv'
    <2>1. UNCHANGED <<clock, row, issued, decisions, grants>>
      BY <1>8 DEF CreateFull, ApproveAbandoned, DecideRefused, ConsumeRefused,
                  Unavailable, Crash, storeVars, historyVars
    <2>2. PICK o \in Outcome : End(p, o)
      BY <1>8 DEF CreateFull, ApproveAbandoned, DecideRefused, ConsumeRefused,
                  Unavailable, Crash, Outcome
    <2>3. QED
      BY <2>1, <2>2, EndStep
  <1>9. CASE Initialize
    <2>1. /\ row' = DeleteExpired(clock)
          /\ UNCHANGED <<clock, issued, apc, aid, areq, anow, aout, decisions, grants>>
          /\ clock \in Nat
      BY <1>9 DEF Initialize, callVars, historyVars, IInv, TypeOK
    <2>2. TableInv(row)'
      BY <2>1, PruneKeeps
      DEF TableInv, FreshIds, DecisionsHold, GrantsHold, OneOpen
    <2>3. TypeOK' /\ CallInv'
      BY <2>1, <2>2 DEF IInv, TypeOK, CallInv, TableInv
    <2>4. QED
      BY <2>1, <2>2, <2>3 DEF IInv, DecisionsAgree, ConsumedWasApproved
  <1>10. CASE Tick
    <2>1. TypeOK' /\ CallInv'
      BY <1>10 DEF Tick, IInv, TypeOK, CallInv, storeVars, callVars, historyVars
    <2>2. QED
      BY <1>10, <2>1, CallStep DEF Tick, storeVars, historyVars
  <1>11. CASE UNCHANGED asVars
    <2>1. TypeOK' /\ CallInv'
      BY <1>11 DEF asVars, IInv, TypeOK, CallInv, storeVars, callVars, historyVars
    <2>2. QED
      BY <1>11, <2>1, CallStep DEF asVars, storeVars, historyVars
  <1>12. QED
    BY <1>1, <1>2, <1>3, <1>4, <1>5, <1>6, <1>7, <1>8, <1>9, <1>10, <1>11
    DEF Next, Transact

-----------------------------------------------------------------------------

\* The store, the begun operations and the histories always have their types.
THEOREM TypeCorrect == Spec => []TypeOK
  <1>1. IInv => TypeOK
    BY DEF IInv
  <1>2. QED
    BY <1>1, InitIInv, StepIInv, PTL DEF Spec

\* consume succeeds at most once per approval, for any number of racing threads.
THEOREM Consumption == Spec => []ConsumedAtMostOnce
  <1>1. IInv => ConsumedAtMostOnce
    <2> SUFFICES ASSUME IInv, NEW i \in ApprovalId PROVE Len(grants[i]) <= 1
      BY DEF IInv, ConsumedAtMostOnce
    <2>1. CASE grants[i] = <<>>
      BY <2>1
    <2>2. CASE Len(grants[i]) = 1
      BY <2>2
    <2>3. QED
      BY <2>1, <2>2 DEF IInv, TableInv, GrantsHold
  <1>2. QED
    BY <1>1, InitIInv, StepIInv, PTL DEF Spec

\* consume succeeds only for the very request that an operator approved.
THEOREM Authorised == Spec => []ConsumedWasApproved
  <1>1. IInv => ConsumedWasApproved
    BY DEF IInv
  <1>2. QED
    BY <1>1, InitIInv, StepIInv, PTL DEF Spec

\* Opposite decisions on one approval are never both committed.
THEOREM Decisions == Spec => []DecisionsAgree
  <1>1. IInv => DecisionsAgree
    BY DEF IInv
  <1>2. QED
    BY <1>1, InitIInv, StepIInv, PTL DEF Spec

\* A request never has two usable approvals, whatever clocks create ran with.
THEOREM OneOpenApproval == Spec => []OneOpenApprovalPerRequest
  <1>1. IInv => OneOpenApprovalPerRequest
    BY DEF IInv, TableInv, OneOpen, OneOpenApprovalPerRequest
  <1>2. QED
    BY <1>1, InitIInv, StepIInv, PTL DEF Spec

-----------------------------------------------------------------------------

\* One step of the life of row i.
Lives(i) ==
    \/ row'[i] = row[i]
    \/ /\ row[i].state = "absent" /\ i \notin issued
       /\ row'[i].state = "pending"
    \/ /\ <<row[i].state, row'[i].state>> \in
              {<<"pending", "approved">>, <<"pending", "denied">>,
               <<"approved", "consumed">>}
       /\ row'[i] = ReplaceState(row[i], row'[i].state)
    \/ row'[i] = Absent /\ clock >= row[i].expires

\* A row that pruning with a clock that is not ahead deletes has expired.
LEMMA PruneLives ==
    ASSUME IInv, NEW n \in Nat, n <= clock, NEW i \in ApprovalId
    PROVE  \/ DeleteExpired(n)[i] = row[i]
           \/ DeleteExpired(n)[i] = Absent /\ clock >= row[i].expires
  BY DEF DeleteExpired, IInv, TypeOK, Row

\* Every change of a row is a step of its life cycle: forward, with the same
\* request, and out of the table only after it expired.
THEOREM LifeCycle == Spec => RowLifeCycle
  <1>1. IInv /\ [Next]_asVars => [\A i \in ApprovalId : Lives(i)]_asVars
    <2> SUFFICES ASSUME IInv, Next, NEW i \in ApprovalId PROVE Lives(i)
      OBVIOUS
    <2>1. CASE UNCHANGED row
      BY <2>1 DEF Lives
    <2>2. ASSUME NEW p \in Proc, CreateReturnsExisting(p) \/ ListPending(p)
          PROVE  Lives(i)
      <3>1. row' = DeleteExpired(anow[p]) /\ anow[p] \in Nat /\ anow[p] <= clock
        BY <2>2 DEF CreateReturnsExisting, ListPending, IInv, TypeOK, CallInv
      <3>2. QED
        BY <3>1, PruneLives DEF Lives
    <2>3. ASSUME NEW p \in Proc, CreateInserts(p) PROVE Lives(i)
      <3>1. anow[p] \in Nat /\ anow[p] <= clock
        BY <2>3 DEF CreateInserts, IInv, TypeOK, CallInv
      <3>2. PICK j \in ApprovalId \ issued :
                row' = [DeleteExpired(anow[p]) EXCEPT
                          ![j] = [state |-> "pending", request |-> areq[p],
                                  created |-> anow[p], expires |-> anow[p] + Ttl]]
        BY <2>3 DEF CreateInserts
      <3>3. CASE i = j
        <4>1. row[i].state = "absent"
          BY <3>3 DEF IInv, TableInv, FreshIds
        <4>2. row'[i].state = "pending"
          BY <3>2, <3>3 DEF DeleteExpired
        <4>3. QED
          BY <3>2, <3>3, <4>1, <4>2 DEF Lives
      <3>4. CASE i # j
        <4>1. row'[i] = DeleteExpired(anow[p])[i]
          BY <3>2, <3>4 DEF DeleteExpired
        <4>2. QED
          BY <3>1, <4>1, PruneLives DEF Lives
      <3>5. QED
        BY <3>3, <3>4
    <2>4. ASSUME NEW p \in Proc, Decide(p) PROVE Lives(i)
      <3>1. row \in [ApprovalId -> Row]
        BY DEF IInv, TypeOK
      <3>2. /\ row' = [row EXCEPT ![aid[p]] = ReplaceState(row[aid[p]], DecisionOf(p))]
            /\ row[aid[p]].state \in {"pending", DecisionOf(p)}
            /\ DecisionOf(p) \in {"approved", "denied"}
        BY <2>4 DEF Decide, Undecided, DecisionOf
      <3>3. CASE i # aid[p]
        BY <3>1, <3>2, <3>3 DEF Lives
      <3>4. CASE i = aid[p]
        <4>1. row'[i] = ReplaceState(row[i], DecisionOf(p)) /\ row[i] \in Row
          BY <3>1, <3>2, <3>4
        <4>2. row'[i].state = DecisionOf(p)
          BY <4>1 DEF ReplaceState
        <4>3. CASE row[i].state = "pending"
          BY <3>2, <4>1, <4>2, <4>3 DEF Lives
        <4>4. CASE row[i].state = DecisionOf(p)
          <5>1. ReplaceState(row[i], row[i].state) = row[i]
            BY <4>1 DEF ReplaceState, Row
          <5>2. QED
            BY <4>1, <4>4, <5>1 DEF Lives
        <4>5. QED
          BY <3>2, <3>4, <4>3, <4>4
      <3>5. QED
        BY <3>3, <3>4
    <2>5. ASSUME NEW p \in Proc, Consume(p) PROVE Lives(i)
      <3>1. /\ row \in [ApprovalId -> Row]
            /\ row' = [row EXCEPT ![aid[p]] = ReplaceState(row[aid[p]], "consumed")]
            /\ row[aid[p]].state = "approved"
        BY <2>5 DEF Consume, Consumable, IInv, TypeOK
      <3>2. CASE i # aid[p]
        BY <3>1, <3>2 DEF Lives
      <3>3. CASE i = aid[p]
        BY <3>1, <3>3 DEF Lives, ReplaceState
      <3>4. QED
        BY <3>2, <3>3
    <2>6. CASE Initialize
      BY <2>6, PruneLives DEF Initialize, Lives, IInv, TypeOK
    <2>7. QED
      BY <2>1, <2>2, <2>3, <2>4, <2>5, <2>6
      DEF Next, BeginAny, BeginList, BeginCreate, BeginDeny, BeginConsume,
          BeginApprove, Begin, Transact, CreateFull, Inspect, Confirm,
          ApproveAbandoned, DecideRefused, ConsumeRefused, Unavailable, Crash,
          Tick, storeVars
  <1>2. QED
    BY <1>1, InitIInv, StepIInv, PTL DEF Spec, RowLifeCycle, Lives

-----------------------------------------------------------------------------

\* The identifiers that have a row.
Present(rows) == {i \in ApprovalId : rows[i].state # "absent"}

SizeInv == IsFiniteSet(Present(row)) /\ Cardinality(Present(row)) <= MaxEntries

\* A table with no more rows than before is as bounded.
LEMMA FewerRows ==
    ASSUME SizeInv, NEW S, S \subseteq Present(row)
    PROVE  /\ IsFiniteSet(S) /\ Cardinality(S) \in Nat
           /\ Cardinality(S) <= MaxEntries
  <1>1. /\ IsFiniteSet(S)
        /\ Cardinality(S) <= Cardinality(Present(row))
    BY FS_Subset DEF SizeInv
  <1>2. Cardinality(S) \in Nat /\ Cardinality(Present(row)) \in Nat
    BY <1>1, FS_CardinalityType DEF SizeInv
  <1>3. QED
    BY <1>1, <1>2, ApprovalAssumption DEF SizeInv

\* Pruning adds no row.
LEMMA PrunePresent ==
    ASSUME IInv, NEW n \in Nat
    PROVE  Present(DeleteExpired(n)) \subseteq Present(row)
  <1>1. Absent.state = "absent"
    BY DEF Absent
  <1>2. QED
    BY <1>1, PruneKeeps DEF Present

\* An insertion below the capacity, and every other step, keeps the bound.
LEMMA SizeStep == IInv /\ SizeInv /\ [Next]_asVars => SizeInv'
  <1> SUFFICES ASSUME IInv, SizeInv, [Next]_asVars PROVE SizeInv'
    OBVIOUS
  <1>1. CASE Present(row') \subseteq Present(row)
    <2>1. IsFiniteSet(Present(row')) /\ Cardinality(Present(row')) <= MaxEntries
      BY <1>1, FewerRows
    <2>2. QED
      BY <2>1 DEF SizeInv, Present
  <1>2. CASE UNCHANGED row
    BY <1>1, <1>2
  <1>3. ASSUME NEW p \in Proc, CreateReturnsExisting(p) \/ ListPending(p)
        PROVE  SizeInv'
    <2>1. row' = DeleteExpired(anow[p]) /\ anow[p] \in Nat
      BY <1>3 DEF CreateReturnsExisting, ListPending, IInv, TypeOK
    <2>2. QED
      BY <2>1, PrunePresent, <1>1
  <1>4. ASSUME NEW p \in Proc, CreateInserts(p) PROVE SizeInv'
    <2> DEFINE kept == DeleteExpired(anow[p])
    <2>1. anow[p] \in Nat
      BY DEF IInv, TypeOK
    <2>2. PICK i \in ApprovalId \ issued :
              row' = [kept EXCEPT ![i] = [state |-> "pending", request |-> areq[p],
                                          created |-> anow[p],
                                          expires |-> anow[p] + Ttl]]
      BY <1>4 DEF CreateInserts
    <2>3. Present(row') \subseteq Present(kept) \cup {i}
      BY <2>2 DEF Present, DeleteExpired
    <2>4. /\ IsFiniteSet(Present(kept)) /\ Cardinality(Present(kept)) \in Nat
      BY <2>1, PrunePresent, FewerRows
    <2>5. ~(Cardinality(Present(kept)) >= MaxEntries)
      BY <1>4 DEF CreateInserts, Full, Present
    <2>6. /\ IsFiniteSet(Present(kept) \cup {i})
          /\ Cardinality(Present(kept) \cup {i}) = Cardinality(Present(kept)) + 1
      <3>1. i \notin Present(row)
        BY DEF Present, IInv, TableInv, FreshIds
      <3>2. i \notin Present(kept)
        BY <2>1, <3>1, PrunePresent
      <3>3. QED
        BY <2>4, <3>2, FS_AddElement
    <2>7. /\ IsFiniteSet(Present(row'))
          /\ Cardinality(Present(row')) \in Nat
          /\ Cardinality(Present(row')) <= Cardinality(Present(kept) \cup {i})
      BY <2>3, <2>6, FS_Subset, FS_CardinalityType
    <2>8. Cardinality(Present(row')) <= MaxEntries
      BY <2>4, <2>5, <2>6, <2>7, ApprovalAssumption
    <2>9. QED
      BY <2>7, <2>8 DEF SizeInv, Present
  <1>5. ASSUME NEW p \in Proc, Decide(p) \/ Consume(p) PROVE SizeInv'
    <2>1. PICK s : row' = [row EXCEPT ![aid[p]] = ReplaceState(row[aid[p]], s)]
      BY <1>5 DEF Decide, Consume
    <2>2. row \in [ApprovalId -> Row] /\ row[aid[p]].state # "absent"
      BY <1>5 DEF Decide, Decidable, Consume, Loaded, IInv, TypeOK
    <2>3. Present(row') \subseteq Present(row)
      BY <2>1, <2>2 DEF Present
    <2>4. QED
      BY <2>3, <1>1
  <1>6. CASE Initialize
    <2>1. row' = DeleteExpired(clock) /\ clock \in Nat
      BY <1>6 DEF Initialize, IInv, TypeOK
    <2>2. QED
      BY <2>1, PrunePresent, <1>1
  <1>7. QED
    BY <1>2, <1>3, <1>4, <1>5, <1>6
    DEF Next, BeginAny, BeginList, BeginCreate, BeginDeny, BeginConsume,
        BeginApprove, Begin, Transact, CreateFull, Inspect, Confirm,
        ApproveAbandoned, DecideRefused, ConsumeRefused, Unavailable, Crash,
        Tick, storeVars, asVars

\* The table never outgrows max_entries, for every capacity, even when create
\* runs with stale clocks: verify() never refuses a restart for its size.
THEOREM Bounded == Spec => []TableBounded
  <1>1. Init => SizeInv
    <2> SUFFICES ASSUME Init PROVE SizeInv
      OBVIOUS
    <2>1. Present(row) = {}
      BY DEF Init, Present, Absent
    <2>2. IsFiniteSet(Present(row)) /\ Cardinality(Present(row)) = 0
      BY <2>1, FS_EmptySet
    <2>3. QED
      BY <2>2, ApprovalAssumption DEF SizeInv
  <1>2. SizeInv => TableBounded
    BY DEF SizeInv, Present, TableBounded
  <1>3. QED
    BY <1>1, <1>2, InitIInv, StepIInv, SizeStep, PTL DEF Spec
=============================================================================
