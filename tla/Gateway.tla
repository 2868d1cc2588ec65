------------------------------- MODULE Gateway -------------------------------
(***************************************************************************)
(* The transport-neutral task processor (task_processor.py), composed with *)
(* the replay guard, the approval store, the policy and the audit log, and *)
(* the operators' command line (approvals.py, main).                       *)
(*                                                                         *)
(* Every received envelope is a call, run by a thread of its own; every    *)
(* invocation of the command line is an operator.  They interact only      *)
(* through the two databases and the log.  The log is the AuditLedger that *)
(* AuditLog implements: an append may fail before or after it recorded.    *)
(***************************************************************************)
EXTENDS Integers, Sequences, FiniteSets

CONSTANTS
    Call,              \* invocations of TaskProcessor.process
    Operator,          \* invocations of systeme-local-approvals
    Task, Nonce, NonceOf, IssuedAt, ExpiresAt, SignatureValid,
    Request,           \* what an approval is bound to
    ApprovalId,
    RequestOf,         \* the envelope's request: agent, capability, arguments
    ApprovalIdOf,      \* the envelope's approval_id, or "none"
    Policy,            \* the decision for the request's capability
    MaxNonces, MaxClockSkew, MaxTaskLifetime,
    MaxApprovals, Ttl,
    MaxClock

\* What the guard and the store assume of their parameters, and the envelopes.
ASSUME GatewayAssumption ==
    /\ NonceOf \in [Task -> Nonce]
    /\ IssuedAt \in [Task -> Nat] /\ ExpiresAt \in [Task -> Nat]
    /\ \A t \in Task : IssuedAt[t] < ExpiresAt[t]
    /\ SignatureValid \in [Task -> BOOLEAN]
    /\ MaxNonces \in Nat \ {0} /\ MaxClockSkew \in Nat /\ MaxTaskLifetime \in Nat
    /\ MaxApprovals \in Nat \ {0} /\ Ttl \in Nat \ {0} /\ MaxClock \in Nat
    /\ "none" \notin Request /\ "none" \notin ApprovalId
    /\ RequestOf \in [Task -> Request]
    /\ ApprovalIdOf \in [Task -> ApprovalId \cup {"none"}]
    /\ Policy \in [Request -> {"allow", "require_approval", "deny"}]
    /\ Call \cap Operator = {}

VARIABLES
    clock,
    seen, vpc, vtask, vnow,                              \* ReplayGuard
    row, issued, apc, aid, areq, anow, aout, decisions, grants,  \* ApprovalStore
    ledger, lpc, levent, lout,                           \* AuditLedger
    gpc,        \* where each call or operator is in its handler
    gthen,      \* what follows when the audit append in progress returns
    answer,     \* what the caller was told
    executed    \* history: calls whose capability was executed

Actor == Call \cup Operator

Status == {"denied", "failed", "completed", "approval_required",
           "approval_consumed", "approval_approved", "approval_denied"}

Event == [status : Status, by : Actor, id : ApprovalId \cup {"none"}]

NoEvent == [status |-> "none", by |-> "none", id |-> "none"]

RG == INSTANCE ReplayGuard WITH MaxEntries <- MaxNonces
AS == INSTANCE ApprovalStore WITH Proc <- Actor, MaxEntries <- MaxApprovals
AL == INSTANCE AuditLedger WITH Writer <- Actor

guardVars == <<seen, vpc, vtask, vnow>>
approvalVars == <<row, issued, apc, aid, areq, anow, aout, decisions, grants>>
ledgerVars == <<ledger, lpc, levent, lout>>
processorVars == <<gpc, gthen, answer, executed>>
vars == <<clock, guardVars, approvalVars, ledgerVars, processorVars>>

Answer == {"none", "unauthorized", "unavailable", "denied", "approval_required",
           "completed", "failed", "decided", "listed", "refused", "error"}

TypeOK ==
    /\ RG!TypeOK /\ AS!TypeOK /\ AL!TypeOK
    /\ gpc \in [Actor -> {"ready", "approval", "execute", "audit", "answered", "crashed"}]
    /\ gthen \in [Actor -> Answer \cup {"execute"}]
    /\ answer \in [Actor -> Answer]
    /\ executed \in SUBSET Call

Init ==
    /\ RG!Init /\ AS!Init /\ AL!Init
    /\ gpc = [x \in Actor |-> "ready"]
    /\ gthen = [x \in Actor |-> "none"]
    /\ answer = [x \in Actor |-> "none"]
    /\ executed = {}

-----------------------------------------------------------------------------

Goto(x, next) == gpc' = [gpc EXCEPT ![x] = next]

\* self._audit_log.append is called; when it returns, x goes on with "then".
Audit(x, status, i, then) ==
    /\ AL!Begin(x, [status |-> status, by |-> x, id |-> i])
    /\ gthen' = [gthen EXCEPT ![x] = then]
    /\ Goto(x, "audit")
    /\ UNCHANGED answer

Decision(c) == Policy[RequestOf[vtask[c]]]

SubmittedId(c) == ApprovalIdOf[vtask[c]]

(* process: _verify *)

\* One step of verify_task and check_and_mark.
VerifyStep(c) ==
    /\ gpc[c] = "ready"
    /\ RG!Step(c)
    /\ UNCHANGED <<approvalVars, ledgerVars, processorVars>>

\* ValueError: audited as denied, then 401.  ReplayGuardUnavailableError:
\* audited as failed, then 503.
NotVerified(c) ==
    /\ gpc[c] = "ready"
    /\ \/ vpc[c] = "rejected" /\ Audit(c, "denied", "none", "unauthorized")
       \/ vpc[c] = "unavailable" /\ Audit(c, "failed", "none", "unavailable")
    /\ UNCHANGED <<clock, guardVars, approvalVars, executed>>

(* process: the policy decision *)

\* Mutant: a denied task gives its nonce back.
DenyForgets(c) ==
    /\ gpc[c] = "ready" /\ vpc[c] = "accepted"
    /\ \/ Decision(c) = "deny"
       \/ Decision(c) = "allow" /\ SubmittedId(c) # "none"
    /\ Audit(c, "denied", SubmittedId(c), "denied")
    /\ seen' = {r \in seen : r.nonce # NonceOf[vtask[c]]}
    /\ UNCHANGED <<clock, vpc, vtask, vnow, approvalVars, executed>>

\* Denied by the policy, or an approval id where none is called for.
Deny(c) ==
    /\ gpc[c] = "ready" /\ vpc[c] = "accepted"
    /\ \/ Decision(c) = "deny"
       \/ Decision(c) = "allow" /\ SubmittedId(c) # "none"
    /\ Audit(c, "denied", SubmittedId(c), "denied")
    /\ UNCHANGED <<clock, guardVars, approvalVars, executed>>

\* Mutant: a capability the policy denies runs like one it allows.
AllowDenied(c) ==
    /\ gpc[c] = "ready" /\ vpc[c] = "accepted"
    /\ Decision(c) # "require_approval" /\ SubmittedId(c) = "none"
    /\ Goto(c, "execute")
    /\ UNCHANGED <<clock, guardVars, approvalVars, ledgerVars, gthen, answer, executed>>

\* Allowed by the policy.
Allow(c) ==
    /\ gpc[c] = "ready" /\ vpc[c] = "accepted"
    /\ Decision(c) = "allow" /\ SubmittedId(c) = "none"
    /\ Goto(c, "execute")
    /\ UNCHANGED <<clock, guardVars, approvalVars, ledgerVars, gthen, answer, executed>>

(* _handle_approval *)

\* create for a first submission, consume for one that names an approval.
HandleApproval(c) ==
    /\ gpc[c] = "ready" /\ vpc[c] = "accepted"
    /\ Decision(c) = "require_approval"
    /\ IF SubmittedId(c) = "none"
       THEN AS!BeginCreate(c, RequestOf[vtask[c]])
       ELSE AS!BeginConsume(c, SubmittedId(c), RequestOf[vtask[c]])
    /\ Goto(c, "approval")
    /\ UNCHANGED <<guardVars, ledgerVars, gthen, answer, executed>>

\* One step of the operation on the approval store.
StoreStep(x) ==
    /\ gpc[x] = "approval"
    /\ AS!Transact(x)
    /\ UNCHANGED <<guardVars, ledgerVars, processorVars>>

\* Mutant: the task is executed before its approval's use is on record.
ExecuteBeforeAudit(c) ==
    /\ gpc[c] = "approval" /\ apc[c] = "idle"
    /\ aout[c] = "consumed"
    /\ executed' = executed \cup {c}
    /\ Audit(c, "approval_consumed", aid[c], "completed")
    /\ UNCHANGED <<clock, guardVars, approvalVars>>

\* The approval is used up: on record first, executed afterwards.
ApprovalConsumed(c) ==
    /\ gpc[c] = "approval" /\ apc[c] = "idle"
    /\ aout[c] = "consumed"
    /\ Audit(c, "approval_consumed", aid[c], "execute")
    /\ UNCHANGED <<clock, guardVars, approvalVars, executed>>

\* Every other end of create or consume: _approval_required, _denied or
\* _raise_unavailable.
NotApproved(c) ==
    /\ gpc[c] = "approval" /\ apc[c] = "idle"
    /\ \/ aout[c] = "returned"
          /\ Audit(c, "approval_required", aid[c], "approval_required")
       \/ aout[c] = "pending"
          /\ Audit(c, "approval_required", SubmittedId(c), "approval_required")
       \/ aout[c] = "refused"
          /\ Audit(c, "denied", SubmittedId(c), "denied")
       \/ aout[c] = "unavailable"
          /\ Audit(c, "failed", "none", "unavailable")
    /\ UNCHANGED <<clock, guardVars, approvalVars, executed>>

(* _execute *)

\* The capability runs and completes or fails; either is then audited.
Execute(c) ==
    /\ gpc[c] = "execute"
    /\ executed' = executed \cup {c}
    /\ \E status \in {"completed", "failed"} : Audit(c, status, SubmittedId(c), status)
    /\ UNCHANGED <<clock, guardVars, approvalVars>>

(* AuditLog.append, for calls and operators *)

AuditRecords(x) ==
    /\ gpc[x] = "audit"
    /\ AL!Record(x)
    /\ UNCHANGED <<clock, guardVars, approvalVars, processorVars>>

\* append returns, and the handler goes on with what follows.
AuditReturns(x) ==
    /\ gpc[x] = "audit"
    /\ AL!Succeed(x)
    /\ IF gthen[x] = "execute"
       THEN Goto(x, "execute") /\ UNCHANGED answer
       ELSE Goto(x, "answered") /\ answer' = [answer EXCEPT ![x] = gthen[x]]
    /\ gthen' = [gthen EXCEPT ![x] = "none"]
    /\ UNCHANGED <<clock, guardVars, approvalVars, executed>>

\* Mutants: an audit failure does not change the answer; a failed append is
\* answered as a denial.
IgnoreAuditFailure(x) ==
    /\ gpc[x] = "audit"
    /\ AL!Fail(x)
    /\ IF gthen[x] = "execute"
       THEN Goto(x, "execute") /\ UNCHANGED answer
       ELSE Goto(x, "answered") /\ answer' = [answer EXCEPT ![x] = gthen[x]]
    /\ gthen' = [gthen EXCEPT ![x] = "none"]
    /\ UNCHANGED <<clock, guardVars, approvalVars, executed>>
DenyOnAuditFailure(x) ==
    /\ gpc[x] = "audit"
    /\ AL!Fail(x)
    /\ Goto(x, "answered")
    /\ answer' = [answer EXCEPT ![x] = "denied"]
    /\ gthen' = [gthen EXCEPT ![x] = "none"]
    /\ UNCHANGED <<clock, guardVars, approvalVars, executed>>

\* append raises: process does not catch an audit exception, so the caller gets
\* an error whatever was already done.
AuditRaises(x) ==
    /\ gpc[x] = "audit"
    /\ AL!Fail(x)
    /\ Goto(x, "answered")
    /\ answer' = [answer EXCEPT ![x] = "error"]
    /\ gthen' = [gthen EXCEPT ![x] = "none"]
    /\ UNCHANGED <<clock, guardVars, approvalVars, executed>>

-----------------------------------------------------------------------------
(* The command line *)

OperatorBegins(o) ==
    /\ gpc[o] = "ready"
    /\ \/ AS!BeginList(o)
       \/ \E i \in ApprovalId : AS!BeginDeny(o, i)
       \/ \E i \in ApprovalId, q \in Request : AS!BeginApprove(o, i, q)
    /\ Goto(o, "approval")
    /\ UNCHANGED <<guardVars, ledgerVars, gthen, answer, executed>>

\* A decision is audited after it took effect; anything else ends the command:
\* a list is printed, a refusal or an unavailable store is an error.
OperatorEnds(o) ==
    /\ gpc[o] = "approval" /\ apc[o] = "idle"
    /\ \/ aout[o] = "approved" /\ Audit(o, "approval_approved", aid[o], "decided")
       \/ aout[o] = "denied" /\ Audit(o, "approval_denied", aid[o], "decided")
       \/ /\ aout[o] \notin {"approved", "denied"}
          /\ Goto(o, "answered")
          /\ answer' = [answer EXCEPT ![o] = IF aout[o] = "none" THEN "listed" ELSE "refused"]
          /\ UNCHANGED <<ledgerVars, gthen>>
    /\ UNCHANGED <<clock, guardVars, approvalVars, executed>>

-----------------------------------------------------------------------------
(* The environment *)

\* The thread of a call, or an operator's process, dies where it is.
Crash(x) ==
    /\ gpc[x] \notin {"answered", "crashed"}
    /\ Goto(x, "crashed")
    /\ IF x \in Call /\ vpc[x] \in {"checked", "waiting"}
       THEN RG!Crash(x) ELSE UNCHANGED <<clock, guardVars>>
    /\ IF apc[x] # "idle" THEN AS!Crash(x) ELSE UNCHANGED approvalVars
    /\ AL!Crash({x})
    /\ gthen' = [gthen EXCEPT ![x] = "none"]
    /\ UNCHANGED <<answer, executed>>

\* A (re)starting gateway or command opens the two databases.
OpenReplayGuard ==
    RG!Initialize /\ UNCHANGED <<approvalVars, ledgerVars, processorVars>>

OpenApprovalStore ==
    AS!Initialize /\ UNCHANGED <<guardVars, ledgerVars, processorVars>>

Tick ==
    RG!Tick /\ AS!Tick /\ UNCHANGED <<ledgerVars, processorVars>>

CallStep(c) ==
    \/ VerifyStep(c)
    \/ NotVerified(c)
    \/ Deny(c)
    \/ Allow(c)
    \/ HandleApproval(c)
    \/ StoreStep(c)
    \/ ApprovalConsumed(c)
    \/ NotApproved(c)
    \/ Execute(c)
    \/ AuditRecords(c)
    \/ AuditReturns(c)
    \/ AuditRaises(c)

OperatorStep(o) ==
    \/ OperatorBegins(o)
    \/ StoreStep(o)
    \/ OperatorEnds(o)
    \/ AuditRecords(o)
    \/ AuditReturns(o)
    \/ AuditRaises(o)

Next ==
    \/ \E c \in Call : CallStep(c)
    \/ \E o \in Operator : OperatorStep(o)
    \/ \E x \in Actor : Crash(x)
    \/ OpenReplayGuard
    \/ OpenApprovalStore
    \/ Tick

Spec == Init /\ [][Next]_vars

-----------------------------------------------------------------------------
(* Properties *)

Gated(c) == Decision(c) = "require_approval"

Recorded(status, x, i) ==
    \E k \in 1..Len(ledger) : ledger[k] = [status |-> status, by |-> x, id |-> i]

\* A capability that needs approval runs only under an approval that an
\* operator granted for this very request, and one approval runs one task; its
\* use is on record before the capability runs, whatever fails afterwards.
GatedExecutionIsApproved ==
    \A c \in executed : Gated(c) =>
        /\ [id |-> SubmittedId(c), decision |-> "approved",
            request |-> RequestOf[vtask[c]]] \in decisions
        /\ \A d \in executed \ {c} : SubmittedId(d) # SubmittedId(c)
        /\ Recorded("approval_consumed", c, SubmittedId(c))

\* No capability runs for an envelope that was not admitted: the signature and
\* the policy held, and no other unexpired execution has its nonce.
ExecutionIsAdmitted ==
    \A c \in executed :
        /\ SignatureValid[vtask[c]]
        /\ Decision(c) # "deny"
        /\ \A d \in executed \ {c} :
              NonceOf[vtask[c]] = NonceOf[vtask[d]]
                  => \/ clock >= ExpiresAt[vtask[c]]
                     \/ clock >= ExpiresAt[vtask[d]]

\* What a caller is told is on record: no answer but an error is given for
\* something the audit log did not take.
AnswerIsOnRecord ==
    \A c \in Call :
        /\ answer[c] \in {"completed", "failed", "denied"}
               => Recorded(answer[c], c, SubmittedId(c))
        /\ answer[c] = "approval_required"
               => \E i \in ApprovalId : Recorded("approval_required", c, i)
        /\ answer[c] = "unauthorized" => Recorded("denied", c, "none")

\* A caller whose approval was used up is told so unless its task ran: an
\* approval is lost only to an error or a crash that the caller can see.
NoSilentlyLostApproval ==
    \A c \in Call :
        (apc[c] = "idle" /\ aout[c] = "consumed" /\ gpc[c] = "answered")
            => (c \in executed \/ answer[c] = "error")

\* Composed with the processor, the replay guard, the approval store and the
\* ledger still run by their own specifications, so that what is proved of them
\* holds of the gateway.
KeepsComponents == RG!Spec /\ AS!Spec /\ AL!Spec
=============================================================================
