---------------------------- MODULE GatewayProofs ----------------------------
(***************************************************************************)
(* Machine-checked proofs about Gateway, for any number of calls and       *)
(* operators, every policy and every set of envelopes.  What is proved of  *)
(* the replay guard and of the approval store alone is used here, for the  *)
(* gateway takes only their steps.                                         *)
(***************************************************************************)
EXTENDS Gateway, TLAPS

RGP == INSTANCE ReplayGuardProofs WITH MaxEntries <- MaxNonces
ASP == INSTANCE ApprovalStoreProofs WITH Proc <- Actor, MaxEntries <- MaxApprovals

-----------------------------------------------------------------------------
(* A step of a component is a step of the module about which theorems are    *)
(* proved.                                                                   *)

LEMMA SameGuardInit == RG!Init => RGP!Init
  BY DEF RG!Init, RGP!Init

LEMMA SameGuardStep == RG!Next => RGP!Next
  <1> SUFFICES ASSUME RG!Next PROVE RGP!Next
    OBVIOUS
  <1>1. \A s, n : RG!Unexpired(s, n) = RGP!Unexpired(s, n)
    BY DEF RG!Unexpired, RGP!Unexpired
  <1>2. \A s : RG!Cardinality(s) = RGP!Cardinality(s)
    BY DEF RG!Cardinality, RGP!Cardinality
  <1>3. \A s : RG!Full(s) <=> RGP!Full(s)
    BY <1>2 DEF RG!Full, RGP!Full
  <1>4. \A s, t : RG!Known(s, t) <=> RGP!Known(s, t)
    BY DEF RG!Known, RGP!Known
  <1>5. \A t : RG!RowFor(t) = RGP!RowFor(t)
    BY DEF RG!RowFor, RGP!RowFor
  <1>6. ASSUME NEW c \in Call, RG!Step(c) PROVE RGP!Step(c)
    <2>1. CASE RG!VerifyTask(c)
      BY <2>1 DEF RG!VerifyTask, RGP!VerifyTask, RG!Verifiable, RGP!Verifiable, RGP!Step
    <2>2. CASE RG!ReadNow(c)
      BY <2>2 DEF RG!ReadNow, RGP!ReadNow, RGP!Step
    <2>3. CASE RG!Accept(c)
      BY <1>1, <1>3, <1>4, <1>5, <2>3 DEF RG!Accept, RGP!Accept, RGP!Step
    <2>4. CASE RG!RejectReplay(c)
      BY <1>1, <1>4, <2>4 DEF RG!RejectReplay, RGP!RejectReplay, RGP!Step
    <2>5. CASE RG!RejectFull(c)
      BY <1>1, <1>3, <1>4, <2>5 DEF RG!RejectFull, RGP!RejectFull, RGP!Step
    <2>6. CASE RG!DatabaseUnavailable(c)
      BY <2>6 DEF RG!DatabaseUnavailable, RGP!DatabaseUnavailable, RGP!Step
    <2>7. QED
      BY <1>6, <2>1, <2>2, <2>3, <2>4, <2>5, <2>6 DEF RG!Step
  <1>7. ASSUME NEW c \in Call, RG!Crash(c) PROVE RGP!Crash(c)
    BY <1>7 DEF RG!Crash, RGP!Crash
  <1>8. CASE RG!Initialize
    BY <1>1, <1>8 DEF RG!Initialize, RGP!Initialize, RGP!Next
  <1>9. CASE RG!Tick
    BY <1>9 DEF RG!Tick, RGP!Tick, RGP!Next
  <1>10. QED
    BY <1>6, <1>7, <1>8, <1>9 DEF RG!Next, RGP!Next

LEMMA SameStoreInit == AS!Init => ASP!Init
  BY DEF AS!Init, ASP!Init, AS!Absent, ASP!Absent

LEMMA SameStoreStep == AS!Next => ASP!Next
  <1> SUFFICES ASSUME AS!Next PROVE ASP!Next
    OBVIOUS
  <1> USE DEF AS!storeVars, ASP!storeVars, AS!historyVars, ASP!historyVars, AS!callVars,
              ASP!callVars
  <1>1. \A n : AS!DeleteExpired(n) = ASP!DeleteExpired(n)
    BY DEF AS!DeleteExpired, ASP!DeleteExpired, AS!Absent, ASP!Absent
  <1>2. \A rows, q, n : AS!OpenRows(rows, q, n) = ASP!OpenRows(rows, q, n)
    BY DEF AS!OpenRows, ASP!OpenRows
  <1>3. \A s : AS!Cardinality(s) = ASP!Cardinality(s)
    BY DEF AS!Cardinality, ASP!Cardinality
  <1>4. \A rows : AS!Full(rows) <=> ASP!Full(rows)
    BY <1>3 DEF AS!Full, ASP!Full
  <1>5. \A p, o, i : AS!EndWith(p, o, i) <=> ASP!EndWith(p, o, i)
    BY DEF AS!EndWith, ASP!EndWith
  <1>6. \A p, o : AS!End(p, o) <=> ASP!End(p, o)
    BY <1>5 DEF AS!End, ASP!End
  <1>7. \A p : (AS!Loaded(p) <=> ASP!Loaded(p)) /\ (AS!Matches(p) <=> ASP!Matches(p))
    BY DEF AS!Loaded, ASP!Loaded, AS!Matches, ASP!Matches
  <1>8. \A r, s : AS!ReplaceState(r, s) = ASP!ReplaceState(r, s)
    BY DEF AS!ReplaceState, ASP!ReplaceState
  <1>9. \A p : AS!DecisionOf(p) = ASP!DecisionOf(p)
    BY DEF AS!DecisionOf, ASP!DecisionOf
  <1>10. \A p : (AS!Decidable(p) <=> ASP!Decidable(p)) /\ (AS!Undecided(p) <=> ASP!Undecided(p))
    BY <1>7 DEF AS!Decidable, ASP!Decidable, AS!Undecided, ASP!Undecided
  <1>11. \A p : AS!Consumable(p) <=> ASP!Consumable(p)
    BY DEF AS!Consumable, ASP!Consumable
  <1>12. ASSUME NEW p \in Actor, AS!BeginAny(p) PROVE ASP!BeginAny(p)
    <2>1. \A op, i, q : AS!Begin(p, op, i, q) <=> ASP!Begin(p, op, i, q)
      BY DEF AS!Begin, ASP!Begin
    <2>2. QED
      BY <1>12, <2>1 DEF AS!BeginAny, ASP!BeginAny, AS!BeginList, ASP!BeginList,
         AS!BeginCreate, ASP!BeginCreate, AS!BeginDeny, ASP!BeginDeny, AS!BeginConsume,
         ASP!BeginConsume, AS!BeginApprove, ASP!BeginApprove
  <1>13. ASSUME NEW p \in Actor, AS!Transact(p) PROVE ASP!Transact(p)
    <2>1. CASE AS!CreateReturnsExisting(p)
      BY <1>1, <1>2, <1>5, <2>1
         DEF AS!CreateReturnsExisting, ASP!CreateReturnsExisting, ASP!Transact
    <2>2. CASE AS!CreateInserts(p)
      BY <1>1, <1>2, <1>4, <1>5, <2>2 DEF AS!CreateInserts, ASP!CreateInserts, ASP!Transact
    <2>3. CASE AS!CreateFull(p)
      BY <1>1, <1>2, <1>4, <1>6, <2>3 DEF AS!CreateFull, ASP!CreateFull, ASP!Transact
    <2>4. CASE AS!ListPending(p)
      BY <1>1, <1>6, <2>4 DEF AS!ListPending, ASP!ListPending, ASP!Transact
    <2>5. CASE AS!Inspect(p)
      BY <1>7, <2>5 DEF AS!Inspect, ASP!Inspect, ASP!Transact
    <2>6. CASE AS!Confirm(p)
      BY <2>6 DEF AS!Confirm, ASP!Confirm, ASP!Transact
    <2>7. CASE AS!ApproveAbandoned(p)
      BY <1>6, <1>7, <2>7 DEF AS!ApproveAbandoned, ASP!ApproveAbandoned, ASP!Transact
    <2>8. CASE AS!Decide(p)
      BY <1>5, <1>8, <1>9, <1>10, <2>8 DEF AS!Decide, ASP!Decide, ASP!Transact
    <2>9. CASE AS!DecideRefused(p)
      BY <1>6, <1>9, <1>10, <2>9 DEF AS!DecideRefused, ASP!DecideRefused, ASP!Transact
    <2>10. CASE AS!Consume(p)
      BY <1>5, <1>7, <1>8, <1>11, <2>10 DEF AS!Consume, ASP!Consume, ASP!Transact
    <2>11. CASE AS!ConsumeRefused(p)
      BY <1>6, <1>7, <1>11, <2>11 DEF AS!ConsumeRefused, ASP!ConsumeRefused, ASP!Transact
    <2>12. CASE AS!Unavailable(p)
      BY <1>6, <2>12
         DEF AS!Unavailable, ASP!Unavailable, AS!Waiting, ASP!Waiting, ASP!Transact
    <2>13. QED
      BY <1>13, <2>1, <2>2, <2>3, <2>4, <2>5, <2>6, <2>7, <2>8, <2>9, <2>10, <2>11, <2>12
         DEF AS!Transact
  <1>14. ASSUME NEW p \in Actor, AS!Crash(p) PROVE ASP!Crash(p)
    BY <1>6, <1>14 DEF AS!Crash, ASP!Crash
  <1>15. CASE AS!Initialize
    BY <1>1, <1>15 DEF AS!Initialize, ASP!Initialize, ASP!Next
  <1>16. CASE AS!Tick
    BY <1>16 DEF AS!Tick, ASP!Tick, ASP!Next
  <1>17. QED
    BY <1>12, <1>13, <1>14, <1>15, <1>16 DEF AS!Next, ASP!Next

-----------------------------------------------------------------------------
(* The components keep their invariants *)

\* The event of an append in progress is one of the log's.
LedgerInv == AL!TypeOK /\ \A w \in Actor : lpc[w] # "idle" => levent[w] \in Event

Types ==
    /\ RGP!IInv
    /\ ASP!IInv
    /\ LedgerInv
    /\ gpc \in [Actor -> {"ready", "approval", "execute", "audit", "answered", "crashed"}]
    /\ gthen \in [Actor -> Answer \cup {"execute"}]
    /\ answer \in [Actor -> Answer]
    /\ executed \in SUBSET Call

\* What the types of the guard and of the store say about the envelopes and the
\* begun operations.
LEMMA ComponentTypes ==
    ASSUME Types
    PROVE  /\ clock \in Nat
           /\ vtask \in [Call -> Task] /\ DOMAIN vpc = Call
           /\ DOMAIN apc = Actor /\ DOMAIN aout = Actor /\ DOMAIN areq = Actor
           /\ aid \in [Actor -> ApprovalId \cup {"none"}]
           /\ DOMAIN anow = Actor /\ DOMAIN vnow = Call
           /\ DOMAIN grants = ApprovalId
  BY DEF Types, RGP!IInv, RGP!TypeOK, ASP!IInv, ASP!TypeOK

\* The gateway leaves the invariants of the guard and of the store to them.
LEMMA GuardKeeps ==
    ASSUME RGP!IInv, RG!Next \/ UNCHANGED <<clock, guardVars>> PROVE RGP!IInv'
  <1>1. [RGP!Next]_(RGP!rgVars)
    BY SameGuardStep DEF guardVars, RGP!rgVars
  <1>2. QED
    BY <1>1, RGP!StepIInv, GatewayAssumption

LEMMA StoreKeeps ==
    ASSUME ASP!IInv, AS!Next \/ UNCHANGED <<clock, approvalVars>> PROVE ASP!IInv'
  <1>1. [ASP!Next]_(ASP!asVars)
    BY SameStoreStep
       DEF approvalVars, ASP!asVars, ASP!storeVars, ASP!callVars, ASP!historyVars
  <1>2. QED
    BY <1>1, ASP!StepIInv, GatewayAssumption

\* What an append that begins, records, ends or dies with its process does.
LEMMA LedgerKeeps == LedgerInv /\ [AL!Next]_(AL!alVars) => LedgerInv'
  <1> SUFFICES ASSUME LedgerInv, [AL!Next]_(AL!alVars) PROVE LedgerInv'
    OBVIOUS
  <1> USE DEF LedgerInv, AL!TypeOK
  <1>1. ASSUME NEW w \in Actor, NEW e \in Event, AL!Begin(w, e) PROVE LedgerInv'
    BY <1>1 DEF AL!Begin
  <1>2. ASSUME NEW w \in Actor, AL!Record(w) PROVE LedgerInv'
    BY <1>2 DEF AL!Record
  <1>3. ASSUME NEW w \in Actor, AL!Succeed(w) \/ AL!Fail(w) PROVE LedgerInv'
    BY <1>3 DEF AL!Succeed, AL!Fail, AL!Return
  <1>4. ASSUME NEW dead \in SUBSET Actor, AL!Crash(dead) PROVE LedgerInv'
    BY <1>4 DEF AL!Crash
  <1>5. CASE UNCHANGED AL!alVars
    BY <1>5 DEF AL!alVars
  <1>6. QED
    BY <1>1, <1>2, <1>3, <1>4, <1>5 DEF AL!Next, AL!Write

\* The event that a handler appends is one of the log's events.
LEMMA AuditIsAppend ==
    ASSUME NEW x \in Actor, NEW status \in Status, NEW i \in ApprovalId \cup {"none"},
           NEW then, Audit(x, status, i, then)
    PROVE  AL!Next
  <1>1. [status |-> status, by |-> x, id |-> i] \in Event
    BY DEF Event
  <1>2. QED
    BY <1>1 DEF Audit, AL!Next

\* The gateway takes the components' own steps.
LEMMA TakesTheirSteps ==
    ASSUME Types, [Next]_vars
    PROVE  /\ RG!Next \/ UNCHANGED <<clock, guardVars>>
           /\ AS!Next \/ UNCHANGED <<clock, approvalVars>>
           /\ AL!Next \/ UNCHANGED ledgerVars
  <1> DEFINE Taken == /\ RG!Next \/ UNCHANGED <<clock, guardVars>>
                      /\ AS!Next \/ UNCHANGED <<clock, approvalVars>>
                      /\ AL!Next \/ UNCHANGED ledgerVars
  <1> SUFFICES Taken
    OBVIOUS
  <1> USE ComponentTypes, GatewayAssumption
  <1>1. ASSUME NEW c \in Call
        PROVE  /\ c \in Actor
               /\ SubmittedId(c) \in ApprovalId \cup {"none"}
               /\ RequestOf[vtask[c]] \in Request
    BY DEF Actor, SubmittedId
  <1>2. ASSUME NEW c \in Call, VerifyStep(c) PROVE Taken
    <2>1. RG!Next /\ UNCHANGED clock
      BY <1>2 DEF VerifyStep, RG!Next, RG!Step, RG!VerifyTask, RG!ReadNow, RG!Accept,
         RG!RejectReplay, RG!RejectFull, RG!DatabaseUnavailable
    <2>2. QED
      BY <1>2, <2>1 DEF VerifyStep
  <1>3. ASSUME NEW c \in Call,
               \/ NotVerified(c) \/ Deny(c) \/ ApprovalConsumed(c) \/ NotApproved(c)
               \/ Execute(c)
        PROVE  Taken
    <2>1. \E status \in Status, i \in ApprovalId \cup {"none"}, then \in Answer \cup {"execute"} :
              Audit(c, status, i, then)
      <3>1. "none" \in ApprovalId \cup {"none"} /\ aid[c] \in ApprovalId \cup {"none"}
        BY <1>1
      <3>2. QED
        BY <1>1, <1>3, <3>1
           DEF NotVerified, Deny, ApprovalConsumed, NotApproved, Execute, Status, Answer
    <2>2. AL!Next
      BY <1>1, <2>1, AuditIsAppend
    <2>3. UNCHANGED <<clock, guardVars, approvalVars>>
      BY <1>3 DEF NotVerified, Deny, ApprovalConsumed, NotApproved, Execute
    <2>4. QED
      BY <2>2, <2>3
  <1>4. ASSUME NEW c \in Call, Allow(c) PROVE Taken
    BY <1>4 DEF Allow
  <1>5. ASSUME NEW c \in Call, HandleApproval(c) PROVE Taken
    <2>1. AS!BeginAny(c) /\ UNCHANGED clock
      BY <1>1, <1>5 DEF HandleApproval, AS!BeginAny, AS!BeginCreate, AS!BeginConsume, AS!Begin
    <2>2. QED
      BY <1>1, <1>5, <2>1 DEF HandleApproval, AS!Next
  <1>6. ASSUME NEW x \in Actor, StoreStep(x) PROVE Taken
    <2>1. UNCHANGED clock
      BY <1>6 DEF StoreStep, AS!Transact, AS!CreateReturnsExisting, AS!CreateInserts,
         AS!CreateFull, AS!ListPending, AS!Inspect, AS!Confirm, AS!ApproveAbandoned, AS!Decide,
         AS!DecideRefused, AS!Consume, AS!ConsumeRefused, AS!Unavailable
    <2>2. QED
      BY <1>6, <2>1 DEF StoreStep, AS!Next
  <1>7. ASSUME NEW x \in Actor, AuditRecords(x) \/ AuditReturns(x) \/ AuditRaises(x) PROVE Taken
    BY <1>7 DEF AuditRecords, AuditReturns, AuditRaises, AL!Next, AL!Write
  <1>8. ASSUME NEW o \in Operator, OperatorBegins(o) PROVE Taken
    <2>1. AS!BeginAny(o) /\ UNCHANGED clock /\ o \in Actor
      BY <1>8 DEF OperatorBegins, AS!BeginAny, AS!BeginList, AS!BeginDeny, AS!BeginApprove,
         AS!Begin, Actor
    <2>2. QED
      BY <1>8, <2>1 DEF OperatorBegins, AS!Next
  <1>9. ASSUME NEW o \in Operator, OperatorEnds(o) PROVE Taken
    <2>1. o \in Actor /\ aid[o] \in ApprovalId \cup {"none"}
      BY DEF Actor
    <2>2. AL!Next \/ UNCHANGED ledgerVars
      <3>1. CASE Audit(o, "approval_approved", aid[o], "decided")
        BY <2>1, <3>1, AuditIsAppend DEF Status
      <3>2. CASE Audit(o, "approval_denied", aid[o], "decided")
        BY <2>1, <3>2, AuditIsAppend DEF Status
      <3>3. QED
        BY <1>9, <3>1, <3>2 DEF OperatorEnds
    <2>3. QED
      BY <1>9, <2>2 DEF OperatorEnds
  <1>10. ASSUME NEW x \in Actor, Crash(x) PROVE Taken
    <2>1. RG!Next \/ UNCHANGED <<clock, guardVars>>
      BY <1>10 DEF Crash, RG!Next
    <2>2. UNCHANGED clock
      BY <1>10 DEF Crash, RG!Crash
    <2>3. AS!Next \/ UNCHANGED <<clock, approvalVars>>
      BY <1>10, <2>2 DEF Crash, AS!Next
    <2>4. AL!Next
      <3>1. {x} \in SUBSET Actor
        OBVIOUS
      <3>2. QED
        BY <1>10, <3>1 DEF Crash, AL!Next
    <2>5. QED
      BY <2>1, <2>3, <2>4
  <1>11. CASE OpenReplayGuard
    BY <1>11 DEF OpenReplayGuard, RG!Next, RG!Initialize
  <1>12. CASE OpenApprovalStore
    BY <1>12 DEF OpenApprovalStore, AS!Next, AS!Initialize
  <1>13. CASE Tick
    BY <1>13 DEF Tick, RG!Next, AS!Next
  <1>14. CASE UNCHANGED vars
    BY <1>14 DEF vars
  <1>15. ASSUME NEW x \in Actor, (x \in Call /\ CallStep(x)) \/ (x \in Operator /\ OperatorStep(x))
         PROVE  Taken
    BY <1>2, <1>3, <1>4, <1>5, <1>6, <1>7, <1>8, <1>9, <1>15 DEF CallStep, OperatorStep
  <1>16. QED
    BY <1>10, <1>11, <1>12, <1>13, <1>14, <1>15 DEF Next, Actor

-----------------------------------------------------------------------------
(* The inductive invariant of the processor *)

OnRecord(e) == \E k \in 1..Len(ledger) : ledger[k] = e

\* The call's approval was consumed for its request.
Used(c) ==
    /\ Gated(c)
    /\ SubmittedId(c) \in ApprovalId /\ aid[c] = SubmittedId(c)
    /\ grants[SubmittedId(c)] # <<>> /\ grants[SubmittedId(c)][1] = RequestOf[vtask[c]]

\* Why a capability may run: its approval was used and that is on record, or none
\* is called for.
Permitted(c) ==
    \/ aout[c] = "consumed" /\ Recorded("approval_consumed", c, SubmittedId(c))
    \/ Decision(c) = "allow" /\ SubmittedId(c) = "none"

Admitted(c) ==
    /\ vpc[c] \in {"checked", "waiting", "accepted"} => SignatureValid[vtask[c]]
    /\ \/ gpc[c] \in {"approval", "execute"} \/ c \in executed \/ aout[c] # "none"
       => vpc[c] = "accepted"

\* Where a call is in _handle_approval.
InStore(c) ==
    /\ Gated(c)
    /\ \/ /\ SubmittedId(c) = "none"
          /\ \/ apc[c] = "create"
             \/ apc[c] = "idle" /\ aout[c] = "returned" /\ aid[c] \in ApprovalId
             \/ apc[c] = "idle" /\ aout[c] = "unavailable"
       \/ /\ SubmittedId(c) \in ApprovalId
          /\ \/ /\ apc[c] = "consume" /\ aout[c] = "none"
                /\ aid[c] = SubmittedId(c) /\ areq[c] = RequestOf[vtask[c]]
             \/ apc[c] = "idle" /\ aout[c] \in {"consumed", "pending", "refused", "unavailable"}

Handled(c) ==
    /\ gpc[c] = "ready" => aout[c] = "none" /\ c \notin executed
    /\ gpc[c] # "approval" => apc[c] = "idle"
    /\ gpc[c] = "approval" => InStore(c)
    /\ aout[c] = "consumed" => Used(c)
    /\ gpc[c] = "execute" \/ c \in executed => Permitted(c)
    /\ gpc[c] = "audit" /\ aout[c] = "consumed" => gthen[c] = "execute" \/ c \in executed
    /\ gpc[c] = "answered" /\ aout[c] = "consumed" => c \in executed \/ answer[c] = "error"

\* What is being recorded is what the call goes on with.
Auditing(c) ==
    gpc[c] = "audit" =>
        /\ gthen[c] \in {"completed", "failed", "denied"} =>
              levent[c] = [status |-> gthen[c], by |-> c, id |-> SubmittedId(c)]
        /\ gthen[c] = "approval_required" =>
              \E i \in ApprovalId :
                  levent[c] = [status |-> "approval_required", by |-> c, id |-> i]
        /\ gthen[c] = "unauthorized" =>
              levent[c] = [status |-> "denied", by |-> c, id |-> "none"]
        /\ gthen[c] = "execute" =>
              /\ aout[c] = "consumed"
              /\ levent[c] = [status |-> "approval_consumed", by |-> c, id |-> SubmittedId(c)]

Answered(c) ==
    /\ answer[c] \in {"completed", "failed", "denied"} => Recorded(answer[c], c, SubmittedId(c))
    /\ answer[c] = "approval_required" => \E i \in ApprovalId : Recorded("approval_required", c, i)
    /\ answer[c] = "unauthorized" => Recorded("denied", c, "none")

CallInv(c) == Admitted(c) /\ Handled(c) /\ Auditing(c) /\ Answered(c)

OneTaskPerApproval ==
    \A c, d \in Call :
        aout[c] = "consumed" /\ aout[d] = "consumed" /\ SubmittedId(c) = SubmittedId(d) => c = d

RecordedIsOnRecord == \A x \in Actor : lpc[x] = "recorded" => OnRecord(levent[x])

IInv ==
    /\ Types
    /\ RecordedIsOnRecord
    /\ OneTaskPerApproval
    /\ \A c \in Call : CallInv(c)

\* What is on record stays, and an append that recorded is on record.
LEMMA LedgerGrows ==
    ASSUME LedgerInv, RecordedIsOnRecord, AL!Next \/ UNCHANGED ledgerVars
    PROVE  /\ \A e : OnRecord(e) => OnRecord(e)'
           /\ RecordedIsOnRecord'
  <1> USE DEF LedgerInv, AL!TypeOK
  <1>1. CASE UNCHANGED ledger
    <2>1. \A e : OnRecord(e)' <=> OnRecord(e)
      BY <1>1 DEF OnRecord
    <2>2. \A x \in Actor : lpc'[x] = "recorded" => lpc[x] = "recorded" /\ levent'[x] = levent[x]
      <3>1. ASSUME NEW w \in Actor, NEW e \in Event, AL!Begin(w, e),
                   NEW x \in Actor, lpc'[x] = "recorded"
            PROVE  lpc[x] = "recorded" /\ levent'[x] = levent[x]
        BY <3>1 DEF AL!Begin
      <3>2. ASSUME NEW w \in Actor, AL!Record(w) PROVE FALSE
        BY <1>1, <3>2 DEF AL!Record
      <3>3. ASSUME NEW w \in Actor, AL!Succeed(w) \/ AL!Fail(w),
                   NEW x \in Actor, lpc'[x] = "recorded"
            PROVE  lpc[x] = "recorded" /\ levent'[x] = levent[x]
        BY <3>3 DEF AL!Succeed, AL!Fail, AL!Return
      <3>4. ASSUME NEW dead \in SUBSET Actor, AL!Crash(dead), NEW x \in Actor, lpc'[x] = "recorded"
            PROVE  lpc[x] = "recorded" /\ levent'[x] = levent[x]
        BY <3>4 DEF AL!Crash
      <3>5. QED
        BY <3>1, <3>2, <3>3, <3>4 DEF AL!Next, AL!Write, ledgerVars
    <2>3. QED
      BY <2>1, <2>2 DEF RecordedIsOnRecord
  <1>2. CASE \E w \in Actor : AL!Record(w)
    <2>1. PICK w \in Actor : AL!Record(w)
      BY <1>2
    <2>2. /\ ledger' = Append(ledger, levent[w]) /\ levent' = levent
          /\ levent[w] \in Event
          /\ \A x \in Actor : lpc'[x] = "recorded" => x = w \/ lpc[x] = "recorded"
      BY <2>1 DEF AL!Record
    <2>3. /\ Len(ledger') = Len(ledger) + 1
          /\ \A k \in 1..Len(ledger) : ledger'[k] = ledger[k]
          /\ ledger'[Len(ledger) + 1] = levent[w]
      BY <2>2
    <2>4. \A e : OnRecord(e) => OnRecord(e)'
      BY <2>3 DEF OnRecord
    <2>5. OnRecord(levent[w])'
      BY <2>2, <2>3 DEF OnRecord
    <2>6. QED
      BY <2>2, <2>4, <2>5 DEF RecordedIsOnRecord
  <1>3. QED
    BY <1>1, <1>2 DEF AL!Next, AL!Write, AL!Begin, AL!Succeed, AL!Fail, AL!Return, AL!Crash,
       ledgerVars

\* An approval that was used keeps its one use.
LEMMA GrantsKept ==
    ASSUME ASP!IInv, AS!Next \/ UNCHANGED <<clock, approvalVars>>
    PROVE  \A i \in ApprovalId : grants[i] # <<>> => grants'[i] = grants[i]
  <1>1. CASE UNCHANGED grants
    BY <1>1
  <1>2. ASSUME NEW p \in Actor, AS!Consume(p), NEW i \in ApprovalId, grants[i] # <<>>
        PROVE  grants'[i] = grants[i]
    <2>1. row[aid[p]].state = "approved" /\ DOMAIN grants = ApprovalId
      BY <1>2 DEF AS!Consume, AS!Consumable, ASP!IInv, ASP!TypeOK
    <2>2. row[i].state \in {"consumed", "absent"}
      BY <1>2 DEF ASP!IInv, ASP!TableInv, ASP!GrantsHold
    <2>3. aid[p] # i
      BY <2>1, <2>2
    <2>4. QED
      BY <1>2, <2>1, <2>3 DEF AS!Consume
  <1>3. QED
    BY <1>1, <1>2 DEF AS!Next, AS!BeginAny, AS!BeginCreate, AS!BeginConsume, AS!BeginList,
       AS!BeginDeny, AS!BeginApprove, AS!Begin, AS!Transact, AS!CreateReturnsExisting,
       AS!CreateInserts, AS!CreateFull, AS!ListPending, AS!Inspect, AS!Confirm,
       AS!ApproveAbandoned, AS!Decide, AS!DecideRefused, AS!ConsumeRefused, AS!Unavailable,
       AS!Crash, AS!Initialize, AS!Tick, AS!historyVars, approvalVars

\* Nobody else's step disturbs what is known of a call.
Undisturbed(c) ==
    /\ vpc'[c] = vpc[c] /\ gpc'[c] = gpc[c] /\ gthen'[c] = gthen[c] /\ answer'[c] = answer[c]
    /\ apc'[c] = apc[c] /\ aid'[c] = aid[c] /\ areq'[c] = areq[c] /\ aout'[c] = aout[c]
    /\ levent'[c] = levent[c]
    /\ c \in executed' <=> c \in executed

Growing ==
    /\ vtask' = vtask
    /\ \A e : OnRecord(e) => OnRecord(e)'
    /\ \A i \in ApprovalId : grants[i] # <<>> => grants'[i] = grants[i]

\* Records and uses are about the same envelope for ever.
LEMMA FactsStay ==
    ASSUME Growing, NEW c \in Call
    PROVE  /\ SubmittedId(c)' = SubmittedId(c) /\ Decision(c)' = Decision(c)
           /\ Gated(c)' <=> Gated(c)
           /\ \A status, x, i : Recorded(status, x, i) => Recorded(status, x, i)'
           /\ \A i \in ApprovalId : grants[i] # <<>> => grants'[i] = grants[i]
  BY DEF Growing, SubmittedId, Decision, Gated, Recorded, OnRecord

\* What is known of an undisturbed call stays.
LEMMA CallUndisturbed ==
    ASSUME NEW c \in Call, CallInv(c), Growing, Undisturbed(c) PROVE CallInv(c)'
  <1> USE FactsStay DEF Undisturbed, CallInv
  <1>1. Admitted(c)'
    BY DEF Admitted, Growing
  <1>2. Used(c) => Used(c)'
    BY DEF Used, Growing
  <1>3. Permitted(c) => Permitted(c)'
    BY DEF Permitted
  <1>4. InStore(c) => InStore(c)'
    BY DEF InStore, Growing
  <1>5. Handled(c)'
    BY <1>2, <1>3, <1>4 DEF Handled
  <1>6. Auditing(c)'
    BY DEF Auditing
  <1>7. Answered(c)'
    BY DEF Answered
  <1>8. QED
    BY <1>1, <1>5, <1>6, <1>7

-----------------------------------------------------------------------------
(* The steps of a call, each with what it makes true *)

\* What an audit event must say for what follows it.
Fits(c, status, i, then) ==
    /\ then \in {"completed", "failed", "denied"} => status = then /\ i = SubmittedId(c)
    /\ then = "approval_required" => status = "approval_required" /\ i \in ApprovalId
    /\ then = "unauthorized" => status = "denied" /\ i = "none"
    /\ then = "execute" =>
          aout[c] = "consumed" /\ status = "approval_consumed" /\ i = SubmittedId(c)

\* A handler that begins to audit is where its call may be.
LEMMA AuditBegins ==
    ASSUME Types, NEW c \in Call, CallInv(c), Growing,
           NEW status, NEW i, NEW then, Audit(c, status, i, then), Fits(c, status, i, then),
           UNCHANGED <<guardVars, approvalVars>>,
           apc[c] = "idle",
           \/ executed' = executed
           \/ executed' = executed \cup {c} /\ gpc[c] = "execute",
           aout[c] = "consumed" => then = "execute" \/ c \in executed'
    PROVE  CallInv(c)'
  <1> USE FactsStay DEF CallInv
  <1>1. /\ gpc'[c] = "audit" /\ gthen'[c] = then /\ answer' = answer
        /\ levent'[c] = [status |-> status, by |-> c, id |-> i]
    BY DEF Audit, Goto, AL!Begin, Types, LedgerInv, AL!TypeOK, Actor
  <1>2. /\ vpc' = vpc /\ vtask' = vtask /\ apc' = apc /\ aid' = aid /\ aout' = aout
        /\ grants' = grants
    BY DEF guardVars, approvalVars
  <1>3. Admitted(c)'
    BY <1>1, <1>2 DEF Admitted
  <1>4. Used(c) => Used(c)'
    BY <1>2 DEF Used
  <1>5. Permitted(c) => Permitted(c)'
    BY <1>2 DEF Permitted
  <1>6. Handled(c)'
    BY <1>1, <1>2, <1>4, <1>5 DEF Handled
  <1>7. Auditing(c)'
    BY <1>1, <1>2 DEF Auditing, Fits
  <1>8. Answered(c)'
    BY <1>1 DEF Answered
  <1>9. QED
    BY <1>3, <1>6, <1>7, <1>8

\* An envelope passes verify_task only with a valid signature.
LEMMA VerifyStepOwn ==
    ASSUME Types, NEW c \in Call, CallInv(c), Growing, VerifyStep(c) PROVE CallInv(c)'
  <1> USE FactsStay, ComponentTypes DEF CallInv, VerifyStep, approvalVars, ledgerVars, processorVars
  <1>1. vpc'[c] \in {"checked", "waiting", "accepted"} => SignatureValid[vtask[c]]
    BY DEF Admitted, RG!Step, RG!VerifyTask, RG!Verifiable, RG!ReadNow, RG!Accept,
       RG!RejectReplay, RG!RejectFull, RG!DatabaseUnavailable
  <1>2. vtask' = vtask
    BY DEF Growing
  <1>3. Admitted(c)'
    BY <1>1, <1>2 DEF Admitted, Handled
  <1>4. Handled(c)'
    BY DEF Handled
  <1>5. Auditing(c)'
    BY DEF Auditing
  <1>6. Answered(c)'
    BY DEF Answered
  <1>7. QED
    BY <1>3, <1>4, <1>5, <1>6

\* Each handler audits what it goes on with.
LEMMA BeginsToAudit ==
    ASSUME Types, NEW c \in Call, CallInv(c), Growing,
           \/ NotVerified(c) \/ Deny(c) \/ ApprovalConsumed(c) \/ NotApproved(c) \/ Execute(c)
    PROVE  CallInv(c)'
  <1> USE GatewayAssumption, ComponentTypes DEF CallInv
  <1>1. CASE NotVerified(c)
    <2>1. /\ UNCHANGED <<guardVars, approvalVars>> /\ executed' = executed
          /\ apc[c] = "idle" /\ aout[c] = "none"
      BY <1>1 DEF NotVerified, Handled
    <2>2. CASE Audit(c, "denied", "none", "unauthorized")
      BY <2>1, <2>2, AuditBegins DEF Fits
    <2>3. CASE Audit(c, "failed", "none", "unavailable")
      BY <2>1, <2>3, AuditBegins DEF Fits
    <2>4. QED
      BY <1>1, <2>2, <2>3 DEF NotVerified
  <1>2. CASE Deny(c)
    <2>1. /\ UNCHANGED <<guardVars, approvalVars>> /\ executed' = executed
          /\ apc[c] = "idle" /\ aout[c] = "none"
          /\ Audit(c, "denied", SubmittedId(c), "denied")
      BY <1>2 DEF Deny, Handled
    <2>2. QED
      BY <2>1, AuditBegins DEF Fits
  <1>3. CASE ApprovalConsumed(c)
    <2>1. /\ UNCHANGED <<guardVars, approvalVars>> /\ executed' = executed
          /\ apc[c] = "idle" /\ aout[c] = "consumed" /\ aid[c] = SubmittedId(c)
          /\ Audit(c, "approval_consumed", aid[c], "execute")
      BY <1>3 DEF ApprovalConsumed, Handled, Used
    <2>2. QED
      BY <2>1, AuditBegins DEF Fits
  <1>4. CASE NotApproved(c)
    <2>1. /\ UNCHANGED <<guardVars, approvalVars>> /\ executed' = executed
          /\ apc[c] = "idle" /\ InStore(c)
      BY <1>4 DEF NotApproved, Handled
    <2>2. CASE aout[c] = "returned" /\ Audit(c, "approval_required", aid[c], "approval_required")
      <3>1. aid[c] \in ApprovalId
        BY <2>1, <2>2 DEF InStore
      <3>2. QED
        BY <2>1, <2>2, <3>1, AuditBegins DEF Fits
    <2>3. CASE /\ aout[c] = "pending"
               /\ Audit(c, "approval_required", SubmittedId(c), "approval_required")
      <3>1. SubmittedId(c) \in ApprovalId
        BY <2>1, <2>3 DEF InStore
      <3>2. QED
        BY <2>1, <2>3, <3>1, AuditBegins DEF Fits
    <2>4. CASE aout[c] = "refused" /\ Audit(c, "denied", SubmittedId(c), "denied")
      BY <2>1, <2>4, AuditBegins DEF Fits
    <2>5. CASE aout[c] = "unavailable" /\ Audit(c, "failed", "none", "unavailable")
      BY <2>1, <2>5, AuditBegins DEF Fits
    <2>6. QED
      BY <1>4, <2>2, <2>3, <2>4, <2>5 DEF NotApproved
  <1>5. CASE Execute(c)
    <2>1. /\ UNCHANGED <<guardVars, approvalVars>> /\ executed' = executed \cup {c}
          /\ apc[c] = "idle" /\ gpc[c] = "execute"
      BY <1>5 DEF Execute, Handled
    <2>2. PICK status \in {"completed", "failed"} : Audit(c, status, SubmittedId(c), status)
      BY <1>5 DEF Execute
    <2>3. QED
      BY <2>1, <2>2, AuditBegins DEF Fits
  <1>6. QED
    BY <1>1, <1>2, <1>3, <1>4, <1>5

\* An allowed capability is about to run.
LEMMA AllowOwn ==
    ASSUME Types, NEW c \in Call, CallInv(c), Growing, Allow(c) PROVE CallInv(c)'
  <1> USE FactsStay DEF CallInv, Allow, guardVars, approvalVars
  <1>1. gpc'[c] = "execute"
    BY DEF Goto, Types, Actor
  <1>2. Admitted(c)'
    BY <1>1 DEF Admitted
  <1>3. Permitted(c)'
    BY DEF Permitted
  <1>4. Handled(c)'
    BY <1>1, <1>3 DEF Handled
  <1>5. Auditing(c)'
    BY <1>1 DEF Auditing
  <1>6. Answered(c)'
    BY DEF Answered
  <1>7. QED
    BY <1>2, <1>4, <1>5, <1>6

\* A gated call enters the store for its own request.
LEMMA HandleApprovalOwn ==
    ASSUME Types, NEW c \in Call, CallInv(c), Growing, HandleApproval(c) PROVE CallInv(c)'
  <1> USE FactsStay, ComponentTypes, GatewayAssumption DEF CallInv, HandleApproval, guardVars
  <1>1. /\ gpc'[c] = "approval" /\ Gated(c) /\ c \notin executed
        /\ vpc[c] = "accepted" /\ vpc' = vpc /\ vtask' = vtask
        /\ answer' = answer /\ executed' = executed
    BY DEF Goto, Types, Actor, Gated, Handled
  <1>2. /\ aout'[c] = "none"
        /\ SubmittedId(c) = "none" => apc'[c] = "create"
        /\ SubmittedId(c) # "none" =>
              apc'[c] = "consume" /\ aid'[c] = SubmittedId(c) /\ areq'[c] = RequestOf[vtask[c]]
    BY DEF AS!BeginCreate, AS!BeginConsume, AS!Begin, Actor
  <1>3. SubmittedId(c) \in ApprovalId \cup {"none"}
    BY DEF SubmittedId
  <1>4. Admitted(c)'
    BY <1>1, <1>2 DEF Admitted
  <1>5. InStore(c)'
    BY <1>1, <1>2, <1>3 DEF InStore
  <1>6. Handled(c)'
    BY <1>1, <1>2, <1>5 DEF Handled
  <1>7. Auditing(c)'
    BY <1>1 DEF Auditing
  <1>8. Answered(c)'
    BY <1>1 DEF Answered
  <1>9. QED
    BY <1>4, <1>6, <1>7, <1>8

\* What one transaction does to the outcome of its own operation: create answers
\* with an identifier, and consume uses an approval that nobody used before.
LEMMA TransactIs ==
    ASSUME Types, NEW c \in Actor, AS!Transact(c), apc[c] \in {"create", "consume"}
    PROVE  /\ apc'[c] = "idle"
           /\ apc[c] = "create" =>
                 \/ aout'[c] = "returned" /\ aid'[c] \in ApprovalId
                 \/ aout'[c] = "unavailable"
           /\ apc[c] = "consume" =>
                 \/ /\ aout'[c] = "consumed" /\ aid'[c] = aid[c]
                    /\ aid[c] \in ApprovalId /\ grants[aid[c]] = <<>>
                    /\ grants'[aid[c]] = <<areq[c]>>
                 \/ aout'[c] \in {"pending", "refused", "unavailable"}
  <1> USE ComponentTypes
  <1>1. \A o, i : AS!EndWith(c, o, i) => apc'[c] = "idle" /\ aout'[c] = o /\ aid'[c] = i
    BY DEF AS!EndWith
  <1>2. CASE AS!CreateReturnsExisting(c)
    BY <1>1, <1>2 DEF AS!CreateReturnsExisting, AS!OpenRows
  <1>3. CASE AS!CreateInserts(c)
    BY <1>1, <1>3 DEF AS!CreateInserts
  <1>4. CASE AS!CreateFull(c)
    BY <1>1, <1>4 DEF AS!CreateFull, AS!End
  <1>5. CASE AS!Consume(c)
    <2>1. /\ apc[c] = "consume" /\ row[aid[c]].state = "approved"
          /\ grants' = [grants EXCEPT ![aid[c]] = Append(@, areq[c])]
          /\ AS!EndWith(c, "consumed", aid[c])
      BY <1>5 DEF AS!Consume, AS!Consumable
    <2>2. aid[c] \in ApprovalId
      BY <2>1 DEF Types, ASP!IInv, ASP!CallInv
    <2>3. grants[aid[c]] = <<>>
      BY <2>1, <2>2 DEF Types, ASP!IInv, ASP!TableInv, ASP!GrantsHold
    <2>4. grants'[aid[c]] = Append(<<>>, areq[c])
      BY <2>1, <2>2, <2>3
    <2>5. grants'[aid[c]] = <<areq[c]>>
      BY <2>4
    <2>6. QED
      BY <1>1, <2>1, <2>2, <2>3, <2>5
  <1>6. CASE AS!ConsumeRefused(c)
    BY <1>1, <1>6 DEF AS!ConsumeRefused, AS!End
  <1>7. CASE AS!Unavailable(c)
    BY <1>1, <1>7 DEF AS!Unavailable, AS!End
  <1>8. QED
    BY <1>2, <1>3, <1>4, <1>5, <1>6, <1>7
       DEF AS!Transact, AS!ListPending, AS!Inspect, AS!Confirm, AS!ApproveAbandoned, AS!Decide,
           AS!DecideRefused

\* A capability does not run while its call is in the store.
LEMMA NotExecutedYet ==
    ASSUME NEW c \in Call, CallInv(c), apc[c] # "idle" PROVE c \notin executed
  <1>1. InStore(c)
    BY DEF CallInv, Handled
  <1>2. SUFFICES ASSUME Permitted(c) PROVE FALSE
    BY DEF CallInv, Handled
  <1>3. CASE aout[c] = "consumed"
    <2>1. SubmittedId(c) = "none" /\ SubmittedId(c) \in ApprovalId
      BY <1>1, <1>3 DEF InStore, CallInv, Handled, Used
    <2>2. QED
      BY <2>1, GatewayAssumption
  <1>4. QED
    BY <1>1, <1>2, <1>3 DEF Permitted, InStore, Gated

\* What the store answers a call is about its own request and approval.
LEMMA StoreStepOwn ==
    ASSUME Types, NEW c \in Call, CallInv(c), Growing, StoreStep(c) PROVE CallInv(c)'
  <1> USE FactsStay, ComponentTypes DEF CallInv, guardVars, processorVars
  <1>1. /\ gpc[c] = "approval" /\ gpc' = gpc /\ answer' = answer /\ executed' = executed
        /\ vpc' = vpc /\ vtask' = vtask /\ AS!Transact(c) /\ InStore(c) /\ c \in Actor
    BY DEF StoreStep, Handled, Actor
  <1>2. apc[c] \in {"create", "consume"}
    BY <1>1 DEF InStore, AS!Transact, AS!CreateReturnsExisting, AS!CreateInserts,
       AS!CreateFull, AS!ListPending, AS!Inspect, AS!Confirm, AS!ApproveAbandoned, AS!Decide,
       AS!DecideRefused, AS!Consume, AS!ConsumeRefused, AS!Unavailable, AS!Waiting
  <1>3. c \notin executed
    BY <1>2, NotExecutedYet
  <1>4. /\ apc'[c] = "idle"
        /\ apc[c] = "create" =>
              \/ aout'[c] = "returned" /\ aid'[c] \in ApprovalId
              \/ aout'[c] = "unavailable"
        /\ apc[c] = "consume" =>
              \/ /\ aout'[c] = "consumed" /\ aid'[c] = aid[c]
                 /\ aid[c] \in ApprovalId /\ grants[aid[c]] = <<>>
                 /\ grants'[aid[c]] = <<areq[c]>>
              \/ aout'[c] \in {"pending", "refused", "unavailable"}
    BY <1>1, <1>2, TransactIs
  <1>5. Admitted(c)'
    BY <1>1, <1>3 DEF Admitted
  <1>6. InStore(c)'
    BY <1>1, <1>2, <1>4 DEF InStore
  <1>7. ASSUME aout'[c] = "consumed" PROVE Used(c)'
    <2>1. apc[c] = "consume"
      BY <1>2, <1>4, <1>7
    <2>2. /\ Gated(c) /\ SubmittedId(c) \in ApprovalId /\ aid[c] = SubmittedId(c)
          /\ areq[c] = RequestOf[vtask[c]]
      BY <1>1, <2>1 DEF InStore
    <2>3. aid'[c] = aid[c] /\ grants'[aid[c]] = <<areq[c]>>
      BY <1>4, <1>7, <2>1
    <2>4. grants'[SubmittedId(c)] # <<>> /\ grants'[SubmittedId(c)][1] = RequestOf[vtask[c]]
      BY <2>2, <2>3
    <2>5. QED
      BY <1>1, <2>2, <2>3, <2>4 DEF Used
  <1>8. Handled(c)'
    BY <1>1, <1>3, <1>6, <1>7 DEF Handled
  <1>9. Auditing(c)'
    BY <1>1 DEF Auditing
  <1>10. Answered(c)'
    BY <1>1 DEF Answered
  <1>11. QED
    BY <1>5, <1>8, <1>9, <1>10

\* An append that returned is on record, so the call may go on or be answered.
LEMMA AuditReturnsOwn ==
    ASSUME Types, RecordedIsOnRecord, NEW c \in Call, CallInv(c), Growing, AuditReturns(c)
    PROVE  CallInv(c)'
  <1> USE FactsStay, ComponentTypes DEF CallInv, guardVars, approvalVars
  <1>1. /\ gpc[c] = "audit" /\ executed' = executed /\ c \in Actor
        /\ vpc' = vpc /\ vtask' = vtask /\ apc' = apc /\ aid' = aid /\ aout' = aout
        /\ grants' = grants
    BY DEF AuditReturns, Actor
  <1>2. OnRecord(levent[c])
    BY <1>1 DEF AuditReturns, AL!Succeed, RecordedIsOnRecord
  <1>3. \/ gthen[c] = "execute" /\ gpc'[c] = "execute" /\ answer' = answer
        \/ gthen[c] # "execute" /\ gpc'[c] = "answered" /\ answer'[c] = gthen[c]
    BY <1>1 DEF AuditReturns, Goto, Types
  <1>4. /\ gthen[c] \in {"completed", "failed", "denied"} => Recorded(gthen[c], c, SubmittedId(c))
        /\ gthen[c] = "approval_required" =>
              \E i \in ApprovalId : Recorded("approval_required", c, i)
        /\ gthen[c] = "unauthorized" => Recorded("denied", c, "none")
        /\ gthen[c] = "execute" =>
              aout[c] = "consumed" /\ Recorded("approval_consumed", c, SubmittedId(c))
    <2>1. ASSUME NEW status, NEW i, levent[c] = [status |-> status, by |-> c, id |-> i]
          PROVE  Recorded(status, c, i)
      BY <1>2, <2>1 DEF Recorded, OnRecord
    <2>2. QED
      BY <1>1, <2>1 DEF Auditing
  <1>5. Admitted(c)'
    <2>1. gthen[c] = "execute" => vpc[c] = "accepted"
      BY <1>4 DEF Admitted
    <2>2. QED
      BY <1>1, <1>3, <2>1 DEF Admitted
  <1>6. Used(c) => Used(c)'
    BY <1>1 DEF Used
  <1>7. Permitted(c) => Permitted(c)'
    BY <1>1 DEF Permitted
  <1>8. gthen[c] = "execute" => Permitted(c)
    BY <1>4 DEF Permitted
  <1>9. Handled(c)'
    BY <1>1, <1>3, <1>6, <1>7, <1>8 DEF Handled
  <1>10. Auditing(c)'
    BY <1>3 DEF Auditing
  <1>11. Answered(c)'
    <2>1. CASE answer' = answer
      BY <2>1 DEF Answered
    <2>2. CASE answer'[c] = gthen[c]
      BY <1>4, <2>2 DEF Answered
    <2>3. QED
      BY <1>3, <2>1, <2>2
  <1>12. QED
    BY <1>5, <1>9, <1>10, <1>11

\* An append that raised is answered as an error.
LEMMA AuditRaisesOwn ==
    ASSUME Types, NEW c \in Call, CallInv(c), Growing, AuditRaises(c) PROVE CallInv(c)'
  <1> USE FactsStay, ComponentTypes DEF CallInv, guardVars, approvalVars
  <1>1. /\ gpc[c] = "audit" /\ executed' = executed /\ c \in Actor
        /\ vpc' = vpc /\ vtask' = vtask /\ apc' = apc /\ aid' = aid /\ aout' = aout
        /\ grants' = grants
    BY DEF AuditRaises, Actor
  <1>2. gpc'[c] = "answered" /\ answer'[c] = "error"
    BY <1>1 DEF AuditRaises, Goto, Types
  <1>3. Admitted(c)'
    BY <1>1, <1>2 DEF Admitted
  <1>4. Used(c) => Used(c)'
    BY <1>1 DEF Used
  <1>5. Permitted(c) => Permitted(c)'
    BY <1>1 DEF Permitted
  <1>6. Handled(c)'
    BY <1>1, <1>2, <1>4, <1>5 DEF Handled
  <1>7. Auditing(c)'
    BY <1>2 DEF Auditing
  <1>8. Answered(c)'
    BY <1>2 DEF Answered
  <1>9. QED
    BY <1>3, <1>6, <1>7, <1>8

\* A call that dies has executed nothing that it was not permitted to.
LEMMA CrashOwn ==
    ASSUME Types, NEW c \in Call, CallInv(c), Growing, Crash(c) PROVE CallInv(c)'
  <1> USE FactsStay, ComponentTypes DEF CallInv
  <1>1. /\ gpc'[c] = "crashed" /\ executed' = executed /\ answer' = answer /\ vtask' = vtask
    BY DEF Crash, Goto, Types, Actor, Growing
  <1>2. \/ vpc' = vpc
        \/ vpc'[c] = "crashed" /\ vpc[c] \in {"checked", "waiting"}
    BY DEF Crash, RG!Crash, guardVars
  <1>3. /\ apc'[c] = "idle" /\ grants' = grants
        /\ \/ apc[c] # "idle" /\ aout'[c] = "none"
           \/ apc[c] = "idle" /\ aout'[c] = aout[c] /\ aid'[c] = aid[c]
    BY DEF Crash, AS!Crash, AS!End, AS!EndWith, AS!historyVars, approvalVars, Actor
  <1>4. apc[c] # "idle" => c \notin executed
    BY NotExecutedYet
  <1>5. Admitted(c)'
    BY <1>1, <1>2, <1>3 DEF Admitted
  <1>6. aout'[c] = "consumed" => Used(c)'
    BY <1>1, <1>3 DEF Handled, Used
  <1>7. c \in executed => Permitted(c)'
    BY <1>1, <1>3, <1>4 DEF Handled, Permitted
  <1>8. Handled(c)'
    BY <1>1, <1>3, <1>6, <1>7 DEF Handled
  <1>9. Auditing(c)'
    BY <1>1 DEF Auditing
  <1>10. Answered(c)'
    BY <1>1 DEF Answered
  <1>11. QED
    BY <1>5, <1>8, <1>9, <1>10

-----------------------------------------------------------------------------
(* Every step keeps the invariant *)

\* A handler that begins to audit disturbs no other call.
LEMMA AuditElsewhere ==
    ASSUME Types, NEW x \in Actor, NEW status, NEW i, NEW then, Audit(x, status, i, then),
           UNCHANGED <<guardVars, approvalVars>>, NEW c \in Call, c # x,
           c \in executed' <=> c \in executed
    PROVE  Undisturbed(c)
  BY DEF Audit, Goto, AL!Begin, Undisturbed, Types, LedgerInv, AL!TypeOK, guardVars, approvalVars

\* An operation on the store ends or begins for its own caller only.
LEMMA StoreElsewhere ==
    ASSUME Types, NEW x \in Actor, NEW c \in Call, c # x,
           AS!BeginAny(x) \/ AS!Transact(x) \/ AS!Crash(x)
    PROVE  apc'[c] = apc[c] /\ aid'[c] = aid[c] /\ areq'[c] = areq[c] /\ aout'[c] = aout[c]
  <1> USE ComponentTypes DEF AS!EndWith, AS!End
  <1>1. c \in Actor
    BY DEF Actor
  <1>2. CASE AS!BeginAny(x)
    BY <1>1, <1>2 DEF AS!BeginAny, AS!BeginCreate, AS!BeginConsume, AS!BeginList, AS!BeginDeny,
       AS!BeginApprove, AS!Begin
  <1>3. CASE AS!Transact(x)
    BY <1>1, <1>3 DEF AS!Transact, AS!CreateReturnsExisting, AS!CreateInserts, AS!CreateFull,
       AS!ListPending, AS!Inspect, AS!Confirm, AS!ApproveAbandoned, AS!Decide,
       AS!DecideRefused, AS!Consume, AS!ConsumeRefused, AS!Unavailable
  <1>4. CASE AS!Crash(x)
    BY <1>1, <1>4 DEF AS!Crash
  <1>5. QED
    BY <1>2, <1>3, <1>4

\* Nor does any other step of a handler, or its death.
LEMMA Elsewhere ==
    ASSUME Types, NEW x \in Actor, NEW c \in Call, c # x,
           \/ x \in Call /\ CallStep(x)
           \/ x \in Operator /\ OperatorStep(x)
           \/ Crash(x)
    PROVE  Undisturbed(c)
  <1> USE ComponentTypes
  <1>1. ASSUME x \in Call, VerifyStep(x) PROVE Undisturbed(c)
    BY <1>1 DEF VerifyStep, Undisturbed, approvalVars, ledgerVars, processorVars, RG!Step,
       RG!VerifyTask, RG!ReadNow, RG!Accept, RG!RejectReplay, RG!RejectFull,
       RG!DatabaseUnavailable
  <1>2. ASSUME x \in Call,
               \/ NotVerified(x) \/ Deny(x) \/ ApprovalConsumed(x) \/ NotApproved(x)
               \/ Execute(x)
        PROVE  Undisturbed(c)
    <2>1. /\ UNCHANGED <<guardVars, approvalVars>>
          /\ c \in executed' <=> c \in executed
          /\ \E status, i, then : Audit(x, status, i, then)
      BY <1>2 DEF NotVerified, Deny, ApprovalConsumed, NotApproved, Execute
    <2>2. QED
      BY <2>1, AuditElsewhere
  <1>3. ASSUME x \in Call, Allow(x) PROVE Undisturbed(c)
    BY <1>3 DEF Allow, Goto, Undisturbed, Types, guardVars, approvalVars, ledgerVars
  <1>4. ASSUME x \in Call, HandleApproval(x) PROVE Undisturbed(c)
    <2>1. AS!BeginAny(x)
      <3>1. RequestOf[vtask[x]] \in Request /\ SubmittedId(x) \in ApprovalId \cup {"none"}
        BY <1>4, GatewayAssumption DEF SubmittedId
      <3>2. QED
        BY <1>4, <3>1 DEF HandleApproval, AS!BeginAny
    <2>2. QED
      BY <1>4, <2>1, StoreElsewhere
         DEF HandleApproval, Goto, Undisturbed, Types, guardVars, ledgerVars
  <1>5. ASSUME StoreStep(x) PROVE Undisturbed(c)
    BY <1>5, StoreElsewhere DEF StoreStep, Undisturbed, guardVars, ledgerVars, processorVars
  <1>6. ASSUME AuditRecords(x) PROVE Undisturbed(c)
    BY <1>6 DEF AuditRecords, AL!Record, Undisturbed, guardVars, approvalVars, processorVars
  <1>7. ASSUME AuditReturns(x) \/ AuditRaises(x) PROVE Undisturbed(c)
    <2>1. c \in Actor /\ UNCHANGED <<guardVars, approvalVars, executed>>
      BY <1>7 DEF AuditReturns, AuditRaises, Actor
    <2>2. /\ DOMAIN levent = Actor /\ DOMAIN gpc = Actor /\ DOMAIN gthen = Actor
          /\ DOMAIN answer = Actor
      BY DEF Types, LedgerInv, AL!TypeOK
    <2>3. levent'[c] = levent[c]
      BY <1>7, <2>1, <2>2 DEF AuditReturns, AuditRaises, AL!Succeed, AL!Fail, AL!Return
    <2>4. gpc'[c] = gpc[c] /\ gthen'[c] = gthen[c] /\ answer'[c] = answer[c]
      BY <1>7, <2>1, <2>2 DEF AuditReturns, AuditRaises, Goto
    <2>5. QED
      BY <2>1, <2>3, <2>4 DEF Undisturbed, guardVars, approvalVars
  <1>8. ASSUME x \in Operator, OperatorBegins(x) PROVE Undisturbed(c)
    <2>1. AS!BeginAny(x)
      BY <1>8 DEF OperatorBegins, AS!BeginAny
    <2>2. QED
      BY <1>8, <2>1, StoreElsewhere
         DEF OperatorBegins, Goto, Undisturbed, Types, guardVars, ledgerVars
  <1>9. ASSUME x \in Operator, OperatorEnds(x) PROVE Undisturbed(c)
    <2>1. UNCHANGED <<guardVars, approvalVars, executed>>
      BY <1>9 DEF OperatorEnds
    <2>2. CASE \E status, i, then : Audit(x, status, i, then)
      BY <2>1, <2>2, AuditElsewhere
    <2>3. CASE /\ Goto(x, "answered") /\ UNCHANGED <<ledgerVars, gthen>>
               /\ answer' = [answer EXCEPT ![x] = IF aout[x] = "none" THEN "listed" ELSE "refused"]
      BY <2>1, <2>3 DEF Goto, Undisturbed, Types, guardVars, approvalVars, ledgerVars
    <2>4. QED
      BY <1>9, <2>2, <2>3 DEF OperatorEnds
  <1>10. ASSUME Crash(x) PROVE Undisturbed(c)
    <2>1. vpc'[c] = vpc[c]
      BY <1>10 DEF Crash, RG!Crash, guardVars
    <2>2. apc'[c] = apc[c] /\ aid'[c] = aid[c] /\ areq'[c] = areq[c] /\ aout'[c] = aout[c]
      BY <1>10, StoreElsewhere DEF Crash, approvalVars
    <2>3. /\ gpc'[c] = gpc[c] /\ gthen'[c] = gthen[c] /\ answer'[c] = answer[c]
          /\ levent'[c] = levent[c] /\ executed' = executed
      BY <1>10 DEF Crash, Goto, AL!Crash, Types, Actor
    <2>4. QED
      BY <2>1, <2>2, <2>3 DEF Undisturbed
  <1>11. QED
    BY <1>1, <1>2, <1>3, <1>4, <1>5, <1>6, <1>7, <1>8, <1>9, <1>10 DEF CallStep, OperatorStep

\* What everybody may count on after a step.
LEMMA Grows == ASSUME IInv, [Next]_vars PROVE Growing /\ RecordedIsOnRecord'
  <1>1. Types /\ LedgerInv /\ RecordedIsOnRecord /\ ASP!IInv
    BY DEF IInv, Types
  <1>2. /\ RG!Next \/ UNCHANGED <<clock, guardVars>>
        /\ AS!Next \/ UNCHANGED <<clock, approvalVars>>
        /\ AL!Next \/ UNCHANGED ledgerVars
    BY <1>1, TakesTheirSteps
  <1>3. vtask' = vtask
    BY <1>2 DEF RG!Next, RG!Step, RG!VerifyTask, RG!ReadNow, RG!Accept, RG!RejectReplay,
       RG!RejectFull, RG!DatabaseUnavailable, RG!Crash, RG!Initialize, RG!Tick, guardVars
  <1>4. QED
    BY <1>1, <1>2, <1>3, LedgerGrows, GrantsKept DEF Growing

\* Every step keeps what is known of every call.
LEMMA StepCalls == ASSUME IInv, [Next]_vars PROVE \A c \in Call : CallInv(c)'
  <1> SUFFICES ASSUME NEW c \in Call PROVE CallInv(c)'
    OBVIOUS
  <1>1. Types /\ RecordedIsOnRecord /\ CallInv(c) /\ Growing
    BY Grows DEF IInv
  <1>2. Undisturbed(c) => CallInv(c)'
    BY <1>1, CallUndisturbed
  <1>3. CASE CallStep(c)
    <2>1. CASE AuditRecords(c)
      <3>1. Undisturbed(c)
        BY <2>1 DEF AuditRecords, AL!Record, Undisturbed, guardVars, approvalVars, processorVars
      <3>2. QED
        BY <1>2, <3>1
    <2>2. QED
      BY <1>1, <1>3, <2>1, VerifyStepOwn, BeginsToAudit, AllowOwn, HandleApprovalOwn,
         StoreStepOwn, AuditReturnsOwn, AuditRaisesOwn DEF CallStep
  <1>4. CASE Crash(c)
    BY <1>1, <1>4, CrashOwn
  <1>5. ASSUME NEW x \in Actor, x # c,
               \/ x \in Call /\ CallStep(x)
               \/ x \in Operator /\ OperatorStep(x)
               \/ Crash(x)
        PROVE  CallInv(c)'
    BY <1>1, <1>2, <1>5, Elsewhere
  <1>6. CASE OpenReplayGuard \/ OpenApprovalStore \/ Tick \/ UNCHANGED vars
    <2>1. Undisturbed(c)
      BY <1>6 DEF OpenReplayGuard, OpenApprovalStore, Tick, RG!Initialize, AS!Initialize,
         RG!Tick, AS!callVars, Undisturbed, vars, guardVars, approvalVars, ledgerVars,
         processorVars, AS!Tick
    <2>2. QED
      BY <1>2, <2>1
  <1>7. \A o \in Operator : o # c /\ o \in Actor
    BY GatewayAssumption DEF Actor
  <1>8. QED
    BY <1>3, <1>4, <1>5, <1>6, <1>7 DEF Next, Actor

\* Two calls are never told that they consumed the same approval.
LEMMA StepOneTask == ASSUME IInv, [Next]_vars PROVE OneTaskPerApproval'
  <1>1. Types /\ OneTaskPerApproval /\ Growing /\ \A c \in Call : CallInv(c)
    BY Grows DEF IInv
  <1>2. \A c \in Call : SubmittedId(c)' = SubmittedId(c)
    BY <1>1, FactsStay
  <1>3. CASE \A c \in Call : aout'[c] = "consumed" => aout[c] = "consumed"
    BY <1>1, <1>2, <1>3 DEF OneTaskPerApproval
  <1>4. ASSUME NEW b \in Call, aout'[b] = "consumed", aout[b] # "consumed"
        PROVE  OneTaskPerApproval'
    <2>1. ~Undisturbed(b)
      BY <1>4 DEF Undisturbed
    <2>2. StoreStep(b)
      <3>1. \A x \in Actor :
               \/ x \in Call /\ CallStep(x)
               \/ x \in Operator /\ OperatorStep(x)
               \/ Crash(x)
               => x = b
        BY <1>1, <2>1, Elsewhere
      <3>2. ~(OpenReplayGuard \/ OpenApprovalStore \/ Tick \/ UNCHANGED vars)
        BY <1>4 DEF OpenReplayGuard, OpenApprovalStore, Tick, RG!Tick, AS!Initialize,
           AS!Tick, AS!callVars, vars, approvalVars
      <3>3. b \notin Operator
        BY GatewayAssumption
      <3>4. CallStep(b) \/ Crash(b)
        BY <3>1, <3>2, <3>3 DEF Next, Actor
      <3>5. ~Crash(b)
        BY <1>1, <1>4, ComponentTypes
           DEF Crash, AS!Crash, AS!End, AS!EndWith, approvalVars, Actor
      <3>6. ~HandleApproval(b)
        BY <1>1, <1>4, ComponentTypes
           DEF HandleApproval, AS!BeginCreate, AS!BeginConsume, AS!Begin, Actor
      <3>7. QED
        BY <1>4, <3>4, <3>5, <3>6 DEF CallStep, VerifyStep, NotVerified, Deny, Allow,
           ApprovalConsumed, NotApproved, Execute, AuditRecords, AuditReturns, AuditRaises,
           approvalVars
    <2>3. AS!Transact(b) /\ b \in Actor /\ InStore(b)
      BY <1>1, <2>2 DEF StoreStep, Actor, CallInv, Handled
    <2>4. apc[b] \in {"create", "consume"}
      BY <2>3 DEF InStore, AS!Transact, AS!CreateReturnsExisting, AS!CreateInserts,
         AS!CreateFull, AS!ListPending, AS!Inspect, AS!Confirm, AS!ApproveAbandoned, AS!Decide,
         AS!DecideRefused, AS!Consume, AS!ConsumeRefused, AS!Unavailable, AS!Waiting
    <2>5. apc[b] = "consume" /\ grants[aid[b]] = <<>>
      BY <1>1, <1>4, <2>3, <2>4, TransactIs
    <2>6. aid[b] = SubmittedId(b)
      BY <2>3, <2>5 DEF InStore
    <2>7. \A d \in Call : d # b /\ aout'[d] = "consumed" => aout[d] = "consumed"
      BY <1>1, <2>3, StoreElsewhere
    <2>8. \A d \in Call : d # b /\ aout'[d] = "consumed" => SubmittedId(d) # SubmittedId(b)
      BY <1>1, <2>5, <2>6, <2>7 DEF CallInv, Handled, Used
    <2>9. QED
      BY <1>1, <1>2, <2>7, <2>8 DEF OneTaskPerApproval
  <1>5. QED
    BY <1>3, <1>4

\* Every step keeps the components and the types of the processor.
LEMMA StepTypes == ASSUME IInv, [Next]_vars PROVE Types'
  <1>1. Types
    BY DEF IInv
  <1>2. /\ RG!Next \/ UNCHANGED <<clock, guardVars>>
        /\ AS!Next \/ UNCHANGED <<clock, approvalVars>>
        /\ AL!Next \/ UNCHANGED ledgerVars
    BY <1>1, TakesTheirSteps
  <1>3. RGP!IInv' /\ ASP!IInv'
    BY <1>1, <1>2, GuardKeeps, StoreKeeps DEF Types
  <1>4. LedgerInv'
    BY <1>1, <1>2, LedgerKeeps DEF Types, ledgerVars, AL!alVars
  <1> DEFINE Processor == /\ gpc \in [Actor -> {"ready", "approval", "execute", "audit",
                                                "answered", "crashed"}]
                          /\ gthen \in [Actor -> Answer \cup {"execute"}]
                          /\ answer \in [Actor -> Answer]
                          /\ executed \in SUBSET Call
  <1>5. Processor
    BY <1>1 DEF Types
  <1>6. ASSUME NEW x \in Actor, NEW status, NEW i, NEW then \in Answer \cup {"execute"},
               Audit(x, status, i, then), executed' \in SUBSET Call
        PROVE  Processor'
    BY <1>5, <1>6 DEF Audit, Goto
  <1>7. ASSUME NEW c \in Call, VerifyStep(c) \/ Allow(c) \/ HandleApproval(c) PROVE Processor'
    BY <1>5, <1>7 DEF VerifyStep, Allow, HandleApproval, Goto, processorVars
  <1>8. ASSUME NEW c \in Call,
               \/ NotVerified(c) \/ Deny(c) \/ ApprovalConsumed(c) \/ NotApproved(c)
               \/ Execute(c)
        PROVE  Processor'
    <2>1. /\ executed' \in SUBSET Call /\ c \in Actor
          /\ \E status, i : \E then \in Answer \cup {"execute"} : Audit(c, status, i, then)
      BY <1>5, <1>8 DEF NotVerified, Deny, ApprovalConsumed, NotApproved, Execute, Actor, Answer
    <2>2. QED
      BY <1>6, <2>1
  <1>9. ASSUME NEW x \in Actor, StoreStep(x) \/ AuditRecords(x) PROVE Processor'
    BY <1>5, <1>9 DEF StoreStep, AuditRecords, processorVars
  <1>10. ASSUME NEW x \in Actor, AuditReturns(x) \/ AuditRaises(x) PROVE Processor'
    BY <1>5, <1>10 DEF AuditReturns, AuditRaises, Goto, Answer
  <1>11. ASSUME NEW o \in Operator, OperatorBegins(o) PROVE Processor'
    BY <1>5, <1>11 DEF OperatorBegins, Goto
  <1>12. ASSUME NEW o \in Operator, OperatorEnds(o) PROVE Processor'
    <2>1. executed' \in SUBSET Call /\ o \in Actor
      BY <1>5, <1>12 DEF OperatorEnds, Actor
    <2>2. CASE \E status, i : Audit(o, status, i, "decided")
      BY <1>6, <2>1, <2>2 DEF Answer
    <2>3. CASE Goto(o, "answered") /\ UNCHANGED gthen
               /\ answer' = [answer EXCEPT ![o] = IF aout[o] = "none" THEN "listed" ELSE "refused"]
      BY <1>5, <2>1, <2>3 DEF Goto, Answer
    <2>4. QED
      BY <1>12, <2>2, <2>3 DEF OperatorEnds
  <1>13. ASSUME NEW x \in Actor, Crash(x) PROVE Processor'
    BY <1>5, <1>13 DEF Crash, Goto, Answer
  <1>14. ASSUME OpenReplayGuard \/ OpenApprovalStore \/ Tick \/ UNCHANGED vars
         PROVE  Processor'
    <2>1. UNCHANGED <<gpc, gthen, answer, executed>>
      BY <1>14 DEF OpenReplayGuard, OpenApprovalStore, Tick, vars, processorVars
    <2>2. QED
      BY <1>5, <2>1
  <1>15. ASSUME NEW x \in Actor, (x \in Call /\ CallStep(x)) \/ (x \in Operator /\ OperatorStep(x))
         PROVE  Processor'
    BY <1>7, <1>8, <1>9, <1>10, <1>11, <1>12, <1>15 DEF CallStep, OperatorStep
  <1>16. Processor'
    <2> HIDE DEF Processor
    <2>1. CASE \E x \in Actor : Crash(x)
      BY <1>13, <2>1
    <2>2. CASE \E c \in Call : CallStep(c)
      BY <1>15, <2>2 DEF Actor
    <2>3. CASE \E o \in Operator : OperatorStep(o)
      BY <1>15, <2>3 DEF Actor
    <2>4. QED
      BY <1>14, <2>1, <2>2, <2>3 DEF Next
  <1>17. QED
    BY <1>3, <1>4, <1>16 DEF Types

\* The invariant holds before any call, and every step keeps it.
LEMMA InitIInv == Init => IInv
  <1> SUFFICES ASSUME Init PROVE IInv
    OBVIOUS
  <1>1. RGP!IInv
    BY SameGuardInit, RGP!InitIInv, GatewayAssumption DEF Init
  <1>2. ASP!IInv
    BY SameStoreInit, ASP!InitIInv, GatewayAssumption DEF Init
  <1>3. LedgerInv
    BY DEF Init, AL!Init, LedgerInv, AL!TypeOK
  <1>4. Types
    BY <1>1, <1>2, <1>3 DEF Init, Types, Answer
  <1>5. /\ \A x \in Actor : /\ gpc[x] = "ready" /\ answer[x] = "none" /\ lpc[x] = "idle"
                            /\ apc[x] = "idle" /\ aout[x] = "none"
        /\ \A c \in Call : c \in Actor /\ vpc[c] = "idle"
        /\ executed = {}
    BY DEF Init, RG!Init, AS!Init, AL!Init, Actor
  <1>6. ASSUME NEW c \in Call PROVE CallInv(c)
    <2>1. /\ gpc[c] = "ready" /\ answer[c] = "none" /\ vpc[c] = "idle" /\ apc[c] = "idle"
          /\ aout[c] = "none" /\ executed = {}
      BY <1>5
    <2>2. QED
      BY <2>1 DEF CallInv, Admitted, Handled, Auditing, Answered
  <1>7. RecordedIsOnRecord /\ OneTaskPerApproval
    BY <1>5 DEF RecordedIsOnRecord, OneTaskPerApproval
  <1>8. QED
    BY <1>4, <1>6, <1>7 DEF IInv

LEMMA StepIInv == IInv /\ [Next]_vars => IInv'
  BY StepTypes, StepCalls, StepOneTask, Grows DEF IInv

LEMMA Invariant == Spec => []IInv
  BY InitIInv, StepIInv, PTL DEF Spec

-----------------------------------------------------------------------------
(* Theorems *)

\* A capability that needs approval runs only under an approval granted for this
\* very request, one approval runs one task, and its use is on record first: for
\* any number of calls and operators and wherever one of them dies.
THEOREM GatedExecution == Spec => []GatedExecutionIsApproved
  <1>1. IInv => GatedExecutionIsApproved
    <2> SUFFICES ASSUME IInv, NEW c \in executed, Gated(c)
                 PROVE  /\ [id |-> SubmittedId(c), decision |-> "approved",
                            request |-> RequestOf[vtask[c]]] \in decisions
                        /\ \A d \in executed \ {c} : SubmittedId(d) # SubmittedId(c)
                        /\ Recorded("approval_consumed", c, SubmittedId(c))
      BY DEF GatedExecutionIsApproved
    <2>1. c \in Call /\ executed \in SUBSET Call /\ Types
      BY DEF IInv, Types
    <2>2. Permitted(c) /\ Decision(c) # "allow"
      BY <2>1 DEF IInv, CallInv, Handled, Gated
    <2>3. aout[c] = "consumed" /\ Recorded("approval_consumed", c, SubmittedId(c))
      BY <2>2 DEF Permitted
    <2>4. Used(c)
      BY <2>1, <2>3 DEF IInv, CallInv, Handled
    <2>5. /\ SubmittedId(c) \in ApprovalId
          /\ grants[SubmittedId(c)] # <<>> /\ grants[SubmittedId(c)][1] = RequestOf[vtask[c]]
      BY <2>4 DEF Used
    <2>6. Len(grants[SubmittedId(c)]) = 1
      BY <2>1, <2>5 DEF Types, ASP!IInv, ASP!TableInv, ASP!GrantsHold
    <2>7. [id |-> SubmittedId(c), decision |-> "approved",
           request |-> grants[SubmittedId(c)][1]] \in decisions
      BY <2>1, <2>5, <2>6 DEF Types, ASP!IInv, ASP!ConsumedWasApproved
    <2>8. ASSUME NEW d \in executed \ {c} PROVE SubmittedId(d) # SubmittedId(c)
      <3>1. d \in Call /\ d # c /\ Permitted(d)
        BY <2>1 DEF IInv, CallInv, Handled
      <3>2. CASE aout[d] = "consumed"
        BY <2>1, <2>3, <3>1, <3>2 DEF IInv, OneTaskPerApproval
      <3>3. CASE SubmittedId(d) = "none"
        BY <2>5, <3>3, GatewayAssumption
      <3>4. QED
        BY <3>1, <3>2, <3>3 DEF Permitted
    <2>9. QED
      BY <2>3, <2>5, <2>7, <2>8
  <1>2. QED
    BY <1>1, Invariant, PTL

\* No capability runs for an envelope whose signature did not verify, whose
\* request the policy denies, or whose nonce another unexpired execution has.
THEOREM Admission == Spec => []ExecutionIsAdmitted
  <1>1. IInv => ExecutionIsAdmitted
    <2> SUFFICES ASSUME IInv, NEW c \in executed
                 PROVE  /\ SignatureValid[vtask[c]]
                        /\ Decision(c) # "deny"
                        /\ \A d \in executed \ {c} :
                              NonceOf[vtask[c]] = NonceOf[vtask[d]]
                                  => \/ clock >= ExpiresAt[vtask[c]]
                                     \/ clock >= ExpiresAt[vtask[d]]
      BY DEF ExecutionIsAdmitted
    <2>1. executed \in SUBSET Call /\ Types
      BY DEF IInv, Types
    <2>2. \A d \in executed : vpc[d] = "accepted" /\ SignatureValid[vtask[d]]
      BY <2>1 DEF IInv, CallInv, Admitted
    <2>3. Decision(c) # "deny"
      BY <2>1 DEF IInv, CallInv, Handled, Permitted, Used, Gated
    <2>4. \A d \in executed \ {c} :
             NonceOf[vtask[c]] = NonceOf[vtask[d]]
                 => clock >= ExpiresAt[vtask[c]] \/ clock >= ExpiresAt[vtask[d]]
      BY <2>1, <2>2 DEF Types, RGP!IInv, RGP!NoReplayWhileValid, RGP!SameNonce
    <2>5. QED
      BY <2>2, <2>3, <2>4
  <1>2. QED
    BY <1>1, Invariant, PTL

\* What a caller is told, but for an error, is in the audit log.
THEOREM Answers == Spec => []AnswerIsOnRecord
  <1>1. IInv => AnswerIsOnRecord
    BY DEF IInv, CallInv, Answered, AnswerIsOnRecord
  <1>2. QED
    BY <1>1, Invariant, PTL

\* A caller whose approval was used up and whose task did not run gets an error.
THEOREM LostApproval == Spec => []NoSilentlyLostApproval
  <1>1. IInv => NoSilentlyLostApproval
    BY DEF IInv, CallInv, Handled, NoSilentlyLostApproval
  <1>2. QED
    BY <1>1, Invariant, PTL

\* The replay guard, the approval store and the audit ledger run by their own
\* specifications inside the gateway.
THEOREM Components == Spec => KeepsComponents
  <1>1. Init => RG!Init /\ AS!Init /\ AL!Init
    BY DEF Init
  <1>2. IInv /\ [Next]_vars =>
            [RG!Next]_(RG!rgVars) /\ [AS!Next]_(AS!asVars) /\ [AL!Next]_(AL!alVars)
    BY TakesTheirSteps DEF IInv, RG!rgVars, AS!asVars, AS!storeVars, AS!callVars, AS!historyVars,
       AL!alVars, guardVars, approvalVars, ledgerVars
  <1>3. QED
    BY <1>1, <1>2, Invariant, PTL DEF Spec, KeepsComponents, RG!Spec, AS!Spec, AL!Spec
=============================================================================
