---------------------------- MODULE ApprovalStore ----------------------------
(***************************************************************************)
(* The local approval store (approvals.py): ApprovalStore and the          *)
(* systeme-local-approvals command line, used concurrently by gateway      *)
(* threads (create, consume) and operators (list, approve, deny) that      *)
(* share one SQLite database.                                              *)
(*                                                                         *)
(* Every operation reads the wall clock BEFORE it waits for the write lock *)
(* (BEGIN IMMEDIATE), so a process first begins an operation and later     *)
(* runs its transaction with a clock value that may be stale by then.      *)
(***************************************************************************)
EXTENDS Integers, FiniteSets, Sequences

CONSTANTS
    Proc,          \* threads and operators, one operation at a time each
    Request,       \* request fingerprints (request_hmac is injective)
    ApprovalId,    \* identifiers; secrets.token_urlsafe never repeats one
    MaxEntries,    \* max_entries
    Ttl,           \* ttl_seconds
    MaxClock       \* bound on the clock, for model checking

\* The constructor refuses max_entries < 1 and a ttl below 30 seconds.
ASSUME ApprovalAssumption ==
    /\ MaxEntries \in Nat \ {0}
    /\ Ttl \in Nat \ {0}
    /\ MaxClock \in Nat
    /\ "none" \notin Request
    /\ "none" \notin ApprovalId

VARIABLES
    clock,      \* the host's wall clock, assumed never to be set back
    row,        \* table approvals, by approval_id
    issued,     \* identifiers ever inserted
    apc,        \* the operation each process has begun, or "idle"
    aid,        \* its approval_id argument, or the id of the record it returned
    areq,       \* the request of its task argument
    anow,       \* its now_us
    aout,       \* how its last operation ended
    decisions,  \* history: decisions that _decide returned to an operator
    grants      \* history: the requests each approval was consumed for

storeVars == <<row, issued>>
callVars == <<apc, aid, areq, anow, aout>>
historyVars == <<decisions, grants>>
asVars == <<clock, storeVars, callVars, historyVars>>

RowState == {"absent", "pending", "approved", "denied", "consumed"}

Row == [state : RowState, request : Request \cup {"none"},
        created : Nat, expires : Nat]

Absent == [state |-> "absent", request |-> "none", created |-> 0, expires |-> 0]

\* "inspect", "confirm" and "approve" are the three phases of the command
\* line's approve; every other name is a begun operation of the store.
Waiting == {"create", "list", "inspect", "approve", "deny", "consume"}

Outcome == {"none", "returned", "approved", "denied", "consumed",
            "pending", "refused", "unavailable"}

Decision == [id : ApprovalId, decision : {"approved", "denied"}, request : Request]

TypeOK ==
    /\ clock \in Nat
    /\ row \in [ApprovalId -> Row]
    /\ issued \in SUBSET ApprovalId
    /\ apc \in [Proc -> Waiting \cup {"idle", "confirm"}]
    /\ aid \in [Proc -> ApprovalId \cup {"none"}]
    /\ areq \in [Proc -> Request \cup {"none"}]
    /\ anow \in [Proc -> Nat]
    /\ aout \in [Proc -> Outcome]
    /\ decisions \in SUBSET Decision
    /\ grants \in [ApprovalId -> Seq(Request)]

Init ==
    /\ clock = 0
    /\ row = [i \in ApprovalId |-> Absent]
    /\ issued = {}
    /\ apc = [p \in Proc |-> "idle"]
    /\ aid = [p \in Proc |-> "none"]
    /\ areq = [p \in Proc |-> "none"]
    /\ anow = [p \in Proc |-> 0]
    /\ aout = [p \in Proc |-> "none"]
    /\ decisions = {}
    /\ grants = [i \in ApprovalId |-> <<>>]

-----------------------------------------------------------------------------
(* Beginning an operation: its arguments, and its reading of the clock. *)

Begin(p, op, i, q) ==
    /\ apc[p] = "idle"
    /\ apc' = [apc EXCEPT ![p] = op]
    /\ aid' = [aid EXCEPT ![p] = i]
    /\ areq' = [areq EXCEPT ![p] = q]
    /\ anow' = [anow EXCEPT ![p] = clock]
    /\ aout' = [aout EXCEPT ![p] = "none"]
    /\ UNCHANGED <<clock, storeVars, historyVars>>

BeginCreate(p, q) == Begin(p, "create", "none", q)
BeginConsume(p, i, q) == Begin(p, "consume", i, q)
BeginList(p) == Begin(p, "list", "none", "none")
BeginDeny(p, i) == Begin(p, "deny", i, "none")

\* approve --task-file: verify_approval_task accepted the file, inspect begins.
BeginApprove(p, i, q) == Begin(p, "inspect", i, q)

-----------------------------------------------------------------------------
(* Transactions *)

\* Ends p's operation with the given outcome; its arguments are forgotten, and
\* aid holds the identifier of the record it returned.
EndWith(p, outcome, i) ==
    /\ apc' = [apc EXCEPT ![p] = "idle"]
    /\ aid' = [aid EXCEPT ![p] = i]
    /\ areq' = [areq EXCEPT ![p] = "none"]
    /\ anow' = [anow EXCEPT ![p] = 0]
    /\ aout' = [aout EXCEPT ![p] = outcome]

End(p, outcome) == EndWith(p, outcome, "none")

\* _delete_expired: DELETE ... WHERE expires_at_us <= now.
DeleteExpired(now) ==
    [i \in ApprovalId |-> IF row[i].expires <= now THEN Absent ELSE row[i]]

\* Mutant: only pending rows are reused.
OpenRowsPendingOnly(rows, q, now) ==
    {i \in ApprovalId : /\ rows[i].state = "pending"
                        /\ rows[i].request = q
                        /\ rows[i].expires > now}

\* The rows create may return instead of inserting one.
OpenRows(rows, q, now) ==
    {i \in ApprovalId : /\ rows[i].state \in {"pending", "approved"}
                        /\ rows[i].request = q
                        /\ rows[i].expires > now}

\* SELECT COUNT(*): denied and consumed rows count until they expire.
Full(rows) == Cardinality({i \in ApprovalId : rows[i].state # "absent"}) >= MaxEntries

\* create, when the newest open row of the same request is returned.
CreateReturnsExisting(p) ==
    /\ apc[p] = "create"
    /\ LET kept == DeleteExpired(anow[p])
           open == OpenRows(kept, areq[p], anow[p])
       IN  /\ \E i \in open :
                 /\ \A j \in open : kept[j].created <= kept[i].created
                 /\ EndWith(p, "returned", i)
           /\ row' = kept
    /\ UNCHANGED <<clock, issued, historyVars>>

\* create, when a new pending row is inserted (_new_stored).
CreateInserts(p) ==
    /\ apc[p] = "create"
    /\ LET kept == DeleteExpired(anow[p]) IN
        /\ OpenRows(kept, areq[p], anow[p]) = {}
        /\ ~Full(kept)
        /\ \E i \in ApprovalId \ issued :
              /\ row' = [kept EXCEPT ![i] = [state |-> "pending",
                                             request |-> areq[p],
                                             created |-> anow[p],
                                             expires |-> anow[p] + Ttl]]
              /\ issued' = issued \cup {i}
              /\ EndWith(p, "returned", i)
    /\ UNCHANGED <<clock, historyVars>>

\* create, when there is no room: refused, and the pruning rolled back.
CreateFull(p) ==
    /\ apc[p] = "create"
    /\ OpenRows(DeleteExpired(anow[p]), areq[p], anow[p]) = {}
    /\ Full(DeleteExpired(anow[p]))
    /\ End(p, "unavailable")
    /\ UNCHANGED <<clock, storeVars, historyVars>>

\* list_pending prunes before it reads.
ListPending(p) ==
    /\ apc[p] = "list"
    /\ row' = DeleteExpired(anow[p])
    /\ End(p, "none")
    /\ UNCHANGED <<clock, issued, historyVars>>

\* _load finds the row, and it has not expired at the caller's now.
Loaded(p) == row[aid[p]].state # "absent" /\ row[aid[p]].expires > anow[p]

\* Mutant: the comparison with the submitted request is lost.
MatchesAny(p) == TRUE

\* hmac.compare_digest of the stored and the submitted request.
Matches(p) == row[aid[p]].request = areq[p]

\* inspect shows the operator the request; nothing is written.
Inspect(p) ==
    /\ apc[p] = "inspect"
    /\ Loaded(p) /\ Matches(p)
    /\ apc' = [apc EXCEPT ![p] = "confirm"]
    /\ UNCHANGED <<clock, storeVars, aid, areq, anow, aout, historyVars>>

\* The operator typed the approval id (or --yes): approve begins, with a
\* reading of the clock of its own.
Confirm(p) ==
    /\ apc[p] = "confirm"
    /\ apc' = [apc EXCEPT ![p] = "approve"]
    /\ anow' = [anow EXCEPT ![p] = clock]
    /\ UNCHANGED <<clock, storeVars, aid, areq, aout, historyVars>>

\* inspect found no such row, or an expired or another one; or the operator
\* did not confirm.
ApproveAbandoned(p) ==
    /\ \/ apc[p] = "inspect" /\ ~(Loaded(p) /\ Matches(p))
       \/ apc[p] = "confirm"
    /\ End(p, "refused")
    /\ UNCHANGED <<clock, storeVars, historyVars>>

\* _replace_state: everything but the state is kept.
ReplaceState(r, s) ==
    [state |-> s, request |-> r.request, created |-> r.created, expires |-> r.expires]

DecisionOf(p) == IF apc[p] = "approve" THEN "approved" ELSE "denied"

\* _decide: found, unexpired, and the task (approve only) matches.
Decidable(p) == Loaded(p) /\ (apc[p] = "approve" => Matches(p))

\* Mutants: a decision may overwrite an earlier one.
UndecidedLax(p) == row[aid[p]].state \in {"pending", "approved", "denied"}

Undecided(p) == row[aid[p]].state = "pending"

\* _decide returns normally, whether it changed the row or the row already
\* was in the wanted state. decisions holds what operators confirmed and the store
\* committed: a crash after the commit, or an audit append that raises, leaves the row
\* decided although the command never reports it.
Decide(p) ==
    /\ apc[p] \in {"approve", "deny"}
    /\ Decidable(p)
    /\ Undecided(p) \/ row[aid[p]].state = DecisionOf(p)
    /\ row' = [row EXCEPT ![aid[p]] = ReplaceState(@, DecisionOf(p))]
    /\ decisions' = decisions \cup {[id |-> aid[p], decision |-> DecisionOf(p),
                                     request |-> row[aid[p]].request]}
    /\ EndWith(p, DecisionOf(p), aid[p])
    /\ UNCHANGED <<clock, issued, grants>>

DecideRefused(p) ==
    /\ apc[p] \in {"approve", "deny"}
    /\ ~(Decidable(p) /\ (Undecided(p) \/ row[aid[p]].state = DecisionOf(p)))
    /\ End(p, "refused")
    /\ UNCHANGED <<clock, storeVars, historyVars>>

\* Mutant: a consumed approval is accepted again.
ConsumableAgain(p) == row[aid[p]].state \in {"approved", "consumed"}

Consumable(p) == row[aid[p]].state = "approved"

\* consume marks the approval used and authorises the submitted task.
Consume(p) ==
    /\ apc[p] = "consume"
    /\ Loaded(p) /\ Matches(p) /\ Consumable(p)
    /\ row' = [row EXCEPT ![aid[p]] = ReplaceState(@, "consumed")]
    /\ grants' = [grants EXCEPT ![aid[p]] = Append(@, areq[p])]
    /\ EndWith(p, "consumed", aid[p])
    /\ UNCHANGED <<clock, issued, decisions>>

\* consume refused: still pending (the caller may ask again), or unusable.
ConsumeRefused(p) ==
    /\ apc[p] = "consume"
    /\ ~(Loaded(p) /\ Matches(p) /\ Consumable(p))
    /\ End(p, IF Loaded(p) /\ Matches(p) /\ row[aid[p]].state = "pending"
              THEN "pending" ELSE "refused")
    /\ UNCHANGED <<clock, storeVars, historyVars>>

\* sqlite3.DatabaseError or OSError (busy timeout, I/O): rolled back.
Unavailable(p) ==
    /\ apc[p] \in Waiting
    /\ End(p, "unavailable")
    /\ UNCHANGED <<clock, storeVars, historyVars>>

-----------------------------------------------------------------------------
(* The environment *)

\* A process dies in the middle of an operation, and is started again.
Crash(p) ==
    /\ apc[p] # "idle"
    /\ End(p, "none")
    /\ UNCHANGED <<clock, storeVars, historyVars>>

\* _initialize of a (re)starting process prunes with a clock read under the
\* write lock.
Initialize ==
    /\ row' = DeleteExpired(clock)
    /\ UNCHANGED <<clock, issued, callVars, historyVars>>

Tick ==
    /\ clock < MaxClock
    /\ clock' = clock + 1
    /\ UNCHANGED <<storeVars, callVars, historyVars>>

BeginAny(p) ==
    \/ BeginList(p)
    \/ \E q \in Request : BeginCreate(p, q)
    \/ \E i \in ApprovalId : BeginDeny(p, i)
    \/ \E i \in ApprovalId, q \in Request : BeginConsume(p, i, q) \/ BeginApprove(p, i, q)

Transact(p) ==
    \/ CreateReturnsExisting(p)
    \/ CreateInserts(p)
    \/ CreateFull(p)
    \/ ListPending(p)
    \/ Inspect(p)
    \/ Confirm(p)
    \/ ApproveAbandoned(p)
    \/ Decide(p)
    \/ DecideRefused(p)
    \/ Consume(p)
    \/ ConsumeRefused(p)
    \/ Unavailable(p)

Next ==
    \/ \E p \in Proc : BeginAny(p) \/ Transact(p) \/ Crash(p)
    \/ Initialize
    \/ Tick

Spec == Init /\ [][Next]_asVars

-----------------------------------------------------------------------------
(* Properties *)

\* An approval authorises at most one task, however many threads submit its id
\* at the same moment and whatever is pruned in between.
ConsumedAtMostOnce == \A i \in ApprovalId : Len(grants[i]) <= 1

\* consume succeeded for a request only if the store committed an operator's approval
\* of this id for this very request.
ConsumedWasApproved ==
    \A i \in ApprovalId : \A k \in 1..Len(grants[i]) :
        [id |-> i, decision |-> "approved", request |-> grants[i][k]] \in decisions

\* Of the opposite decisions of two operators on the same request at the same moment
\* one at most is committed; the other operator is never told that his succeeded.
DecisionsAgree ==
    \A d, e \in decisions : d.id = e.id => d = e

\* At most one approval per request can still lead to an execution: one
\* operator decision never leaves a second usable approval behind, even when
\* creations run with stale clocks.
OneOpenApprovalPerRequest ==
    \A i, j \in ApprovalId :
        (/\ row[i].state \in {"pending", "approved"}
         /\ row[j].state \in {"pending", "approved"}
         /\ row[i].request = row[j].request)
            => i = j

\* The table never outgrows max_entries, which verify() demands at each start.
TableBounded == Cardinality({i \in ApprovalId : row[i].state # "absent"}) <= MaxEntries

\* A row only moves forward, keeps its request, and leaves the table only after
\* it expired; an identifier that left the table never comes back.
RowLifeCycle ==
    [][\A i \in ApprovalId :
         \/ row'[i] = row[i]
         \/ /\ row[i].state = "absent" /\ i \notin issued
            /\ row'[i].state = "pending"
         \/ /\ <<row[i].state, row'[i].state>> \in
                   {<<"pending", "approved">>, <<"pending", "denied">>,
                    <<"approved", "consumed">>}
            /\ row'[i] = ReplaceState(row[i], row'[i].state)
         \/ row'[i] = Absent /\ clock >= row[i].expires]_asVars
=============================================================================
