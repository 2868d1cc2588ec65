--------------------------- MODULE C9Attestation ----------------------------
(***************************************************************************)
(* The C9 live cycle and its attestation: the authorization, the surface   *)
(* observation and the grant that an approval commits (c9_control_api.py,  *)
(* c9_live_cycle.py), the tool calls and operator confirmations that the   *)
(* coordinator then dates, and the offline commands that turn the dated    *)
(* documents into one attestation (c9_attestation.py).                     *)
(*                                                                         *)
(* Module Handoff has the coordinator in detail; here each of its          *)
(* operations only leaves its document.  What lies between two locks is    *)
(* kept: a call is executed, recorded, rendered, committed and recorded    *)
(* again in steps of its own, and a close is dated when it is called, not  *)
(* when it is carried out.  The offline commands read any files the        *)
(* operator names, while HEAD and the C8 tag may have moved; they take the *)
(* clock as their --correlated-at, --observed-at and --verified-at.        *)
(***************************************************************************)
EXTENDS Naturals, Sequences, FiniteSets, FiniteSetsExt

CONSTANTS
    Handoffs, Grants, Cycles,
    Heads, Tags,        \* what HEAD and the C8 tag may point at
    Head0, Tag0,        \* where they point at first
    ExactTags,          \* tags that carry an exact C8 seal
    Ancestor,           \* pairs <<tag, head>>: the tag's commit is an ancestor
    RuntimeTtl, AuthTtl, SurfaceTtl, StageTtl, ApprovalTtl, ExportTtl, MaxLive,
    OtherCycle,         \* a cycle of another day, which only a revocation names
    MaxTime, MaxCalls, MaxRecords,      \* bounds
    None

ASSUME C9Assumption ==
    /\ Head0 \in Heads /\ Tag0 \in ExactTags /\ ExactTags \subseteq Tags
    /\ <<Tag0, Head0>> \in Ancestor
    /\ {RuntimeTtl, AuthTtl, SurfaceTtl, StageTtl, ApprovalTtl, ExportTtl, MaxLive}
          \subseteq Nat \ {0}
    /\ None \notin Handoffs /\ None \notin Nat /\ None \notin [at : Nat]

VARIABLES
    now, head, tag,
    run,        \* the coordinator's process: its handoff and what it remembers
    doc,        \* documents of each handoff
    log,        \* audit records of the C9 tool, oldest first
    correlation, negative, revocation,   \* latest offline receipts
    final       \* the attestation

offline == <<correlation, negative, revocation, final>>
repository == <<head, tag>>
cycleVars == <<now, repository, run, doc, log, offline>>

Kinds == {"runtime", "stage", "admission", "execution", "work", "export", "claim",
          "chat", "close"}

\* Where the one call of the tool is that was executed.
CallStages == {"none", "executed", "recorded", "prepared", "committed", "rendered", "failed"}

\* lookups: calls on their way.
NoRun == [handoff |-> None, lookups |-> 0, terminal |-> FALSE, call |-> "none"]

CycleInit ==
    /\ now = 0 /\ head = Head0 /\ tag = Tag0
    /\ run = NoRun
    /\ doc = [h \in Handoffs |-> [k \in Kinds |-> None]]
    /\ log = <<>>
    /\ correlation = None /\ negative = None /\ revocation = None /\ final = None

In(t, w) == w.at <= t /\ t < w.to
Has(h, k) == doc[h][k] # None
Writes(h, k, d) == doc' = [doc EXCEPT ![h][k] = d]

-----------------------------------------------------------------------------
(* Start and stage *)

\* C9LocalAIRuntimeObservation
RuntimeObservation(c) == [cycle |-> c, at |-> now, to |-> now + RuntimeTtl]

\* Starting the coordinator verifies the observation of the local AI runtime.  Bound:
\* no handoff is begun after the correlation, whose records it cannot change.
StartCoordinator(h, c) ==
    /\ run = NoRun /\ correlation = None /\ \A k \in Kinds : ~Has(h, k)
    /\ run' = [run EXCEPT !.handoff = h]
    /\ Writes(h, "runtime", RuntimeObservation(c))
    /\ UNCHANGED <<now, repository, log, offline>>

\* C9HandoffStageReceipt
StageReceipt == [at |-> now, to |-> now + StageTtl]

\* C9HandoffCoordinator.stage, when the inference succeeds.
StageHandoff(h) ==
    /\ run.handoff = h /\ ~run.terminal /\ ~Has(h, "stage")
    /\ In(now, doc[h].runtime)
    /\ Writes(h, "stage", StageReceipt)
    /\ UNCHANGED <<now, repository, run, log, offline>>

-----------------------------------------------------------------------------
(* The grant: issue_c9_live_cycle_bundle and evaluate_c9_admission *)

\* _verified_c8_dependency: the exact C8 seal at its tag, an ancestor of HEAD.
Dependency ==
    IF tag \notin ExactTags THEN "seal"
    ELSE IF <<tag, head>> \notin Ancestor THEN "ancestry" ELSE "verified"

\* C9LiveCycleBundle.validate_bindings
BundleBound(b) ==
    /\ {b.auth.cycle, b.surface.cycle, b.runtime.cycle} = {b.grant.cycle}
    /\ b.grant.package = b.auth.package
    /\ In(b.grant.at, b.auth) /\ b.grant.to <= b.auth.to
    /\ In(b.grant.at, b.surface)

\* The last part of evaluate_c9_admission: the repository and the grant itself.
RepositoryAdmission(b, t) ==
    IF Dependency # "verified" THEN Dependency
    ELSE IF b.grant.tag # tag \/ b.grant.head # head THEN "seal"
    ELSE IF In(t, b.grant) THEN "ready" ELSE "grant"

\* evaluate_c9_admission, for a bundle read back with the audit key at hand.
\* The surface counts when the grant was issued, the rest at time t.
Admission(b, t) ==
    CASE ~BundleBound(b)               -> "binding"
      [] BundleBound(b) /\ ~In(t, b.auth)    -> "authorization"
      [] BundleBound(b) /\ In(t, b.auth) /\ ~In(t, b.runtime) -> "local_ai"
      [] OTHER -> RepositoryAdmission(b, t)

\* C9OperatorAuthorization and C9SurfaceObservation: approve makes both, for the
\* staged package and the cycle of the runtime observation.
Authorization(h) ==
    [cycle |-> doc[h].runtime.cycle, package |-> h, at |-> now, to |-> now + AuthTtl]
SurfaceObservation(h) ==
    [cycle |-> doc[h].runtime.cycle, at |-> now, to |-> now + SurfaceTtl]

GrantExpiry(h, approval) ==
    Min({now + MaxLive, approval, Authorization(h).to, doc[h].runtime.to})

\* C9LiveCycleGrant: it names HEAD and the C8 seal it was issued on.
NewGrant(h, g, expiry) ==
    [id |-> g, cycle |-> doc[h].runtime.cycle, package |-> h,
     tag |-> tag, head |-> head, at |-> now, to |-> expiry]

\* issue_c9_live_cycle_bundle
Bundle(h, g, expiry) ==
    [auth |-> Authorization(h), surface |-> SurfaceObservation(h),
     runtime |-> doc[h].runtime, grant |-> NewGrant(h, g, expiry)]

\* C9CombinedApproval and C9HandoffAdmission carry the bundle.
HandoffAdmission(h, bundle, approval) ==
    [handoff |-> h, bundle |-> bundle, at |-> now, approval |-> approval]

\* The control plane's approve and approve_handoff, with everything in order.
ApproveHandoff(h, g) ==
    LET approval == Min({now + ApprovalTtl, doc[h].stage.to})
        expiry == GrantExpiry(h, approval)
        bundle == Bundle(h, g, expiry)
    IN  /\ run.handoff = h /\ ~run.terminal
        /\ Has(h, "stage") /\ ~Has(h, "admission")
        /\ now < approval /\ now < expiry
        /\ In(now, doc[h].runtime)
        /\ Dependency = "verified"
        /\ Admission(bundle, now) = "ready"
        /\ Writes(h, "admission", HandoffAdmission(h, bundle, approval))
        /\ UNCHANGED <<now, repository, run, log, offline>>

\* There is one attempt of each: an approval, a confirmation or an export that fails
\* ends the handoff.
HandoffFails(h) ==
    /\ run.handoff = h /\ ~run.terminal /\ Has(h, "stage")
    /\ run' = [run EXCEPT !.terminal = TRUE]
    /\ UNCHANGED <<now, repository, doc, log, offline>>

Grant(h) == doc[h].admission.bundle.grant

-----------------------------------------------------------------------------
(* The tool call and its audit records *)

Live(h) == run.handoff = h /\ ~run.terminal /\ Has(h, "admission")
ToolEnabled(h) == Live(h) /\ run.call = "none" /\ In(now, Grant(h))
Appends(h, status) ==
    Len(log) < MaxRecords /\ log' = Append(log, [handoff |-> h, status |-> status, at |-> now])

RecordsOf(h, status) == {i \in DOMAIN log : log[i].handoff = h /\ log[i].status = status}

\* For the bound: the calls on their way, executed and recorded as failed.
Calls ==
    run.lookups + Cardinality({h \in Handoffs : Has(h, "execution")})
        + Cardinality(UNION {RecordsOf(h, "failed") : h \in Handoffs})

\* The registry lists the tool while it is enabled; each call that found it
\* there goes on to the task processor.
LookUp(h) ==
    /\ ToolEnabled(h)
    /\ Calls < MaxCalls
    /\ run' = [run EXCEPT !.lookups = @ + 1]
    /\ UNCHANGED <<now, repository, doc, log, offline>>

\* C9RichExecutionDescriptor
Execution == [at |-> now]

\* The first call executes.
Execute(h) ==
    /\ run.lookups > 0 /\ ToolEnabled(h)
    /\ run' = [run EXCEPT !.lookups = @ - 1, !.call = "executed"]
    /\ Writes(h, "execution", Execution)
    /\ UNCHANGED <<now, repository, log, offline>>

\* A call that is refused, because another came first or the grant has run out, and one
\* that fails are recorded as failed.  A failure ends the handoff (a forbidden surface,
\* a refused consumption), unless the call raises before it consumes anything.
ExecuteFails(h) ==
    /\ run.handoff = h /\ run.lookups > 0
    /\ \/ ~ToolEnabled(h) /\ run' = [run EXCEPT !.lookups = @ - 1]
       \/ \E terminal \in BOOLEAN :
             /\ ToolEnabled(h)
             /\ run' = [run EXCEPT !.lookups = @ - 1, !.call = "failed", !.terminal = terminal]
    /\ Appends(h, "failed")
    /\ UNCHANGED <<now, repository, doc, offline>>

CallProceeds(h, from, to) == run.handoff = h /\ run.call = from /\ run' = [run EXCEPT !.call = to]

\* Later the task processor records the result, whatever the time.
RecordExecution(h) ==
    /\ CallProceeds(h, "executed", "recorded")
    /\ Appends(h, "completed")
    /\ UNCHANGED <<now, repository, doc, offline>>

\* The rendering begins before the delivery expires (the clock is read before the
\* lock is waited for; a handoff that is live at the end of that wait was live at the
\* reading, so the rendering may as well begin there) ...
PrepareRender(h) ==
    /\ Live(h) /\ now < Grant(h).to
    /\ CallProceeds(h, "recorded", "prepared")
    /\ UNCHANGED <<now, repository, doc, log, offline>>

\* ... is committed whenever it is done ...
CommitRender(h) ==
    /\ Live(h)
    /\ CallProceeds(h, "prepared", "committed")
    /\ UNCHANGED <<now, repository, doc, log, offline>>

\* ... and recorded after that.
RecordRender(h) ==
    /\ CallProceeds(h, "committed", "rendered")
    /\ Appends(h, "render_completed")
    /\ UNCHANGED <<now, repository, doc, offline>>

\* The rendering is late or fails, or the call is cancelled before it has returned, also
\* after the commit, its record and the Work confirmation: the handoff is over.  That
\* this cannot be recorded is ignored.
RenderFails(h) ==
    /\ run.handoff = h /\ run.call \in {"recorded", "prepared", "committed", "rendered"}
    /\ run' = [run EXCEPT !.call = "failed", !.terminal = TRUE]
    /\ Appends(h, "render_failed") \/ UNCHANGED log
    /\ UNCHANGED <<now, repository, doc, offline>>

-----------------------------------------------------------------------------
(* Confirmations and close *)

\* C9RichConsumptionReceipt
WorkReceipt == [at |-> now]

\* confirm_rich_surface: within the approval, once the rendering is committed.
ConfirmWork(h) ==
    /\ Live(h) /\ run.call \in {"committed", "rendered"} /\ ~Has(h, "work")
    /\ now < doc[h].admission.approval
    /\ Writes(h, "work", WorkReceipt)
    /\ UNCHANGED <<now, repository, run, log, offline>>

\* Mutant: the export and the approval bound the Chat leg, the grant does not.
ChatDeadlineWithoutGrant(h) ==
    Min({doc[h].export.to, doc[h].admission.approval, doc[h].stage.to})

\* _chat_export_deadline
ChatDeadline(h) ==
    Min({doc[h].export.to, Grant(h).to, doc[h].admission.approval, doc[h].stage.to})

\* C9ChatExportDescriptor, C9ChatPickerClaimReceipt, C9ChatConfirmationReceipt
ChatExport == [at |-> now, to |-> now + ExportTtl]
PickerClaim == [at |-> now]
ChatConfirmation == [at |-> now]

PrepareChat(h) ==
    /\ Live(h) /\ Has(h, "work") /\ ~Has(h, "export")
    /\ now < Grant(h).to
    /\ Writes(h, "export", ChatExport)
    /\ UNCHANGED <<now, repository, run, log, offline>>

ClaimChat(h) ==
    /\ Live(h) /\ Has(h, "export") /\ ~Has(h, "claim")
    /\ now < ChatDeadline(h)
    /\ Writes(h, "claim", PickerClaim)
    /\ UNCHANGED <<now, repository, run, log, offline>>

ConfirmChat(h) ==
    /\ Live(h) /\ Has(h, "claim") /\ ~Has(h, "chat")
    /\ now < ChatDeadline(h)
    /\ Writes(h, "chat", ChatConfirmation)
    /\ UNCHANGED <<now, repository, run, log, offline>>

\* C9CoordinatorCloseReceipt says what had happened.
CloseReceipt(h, at) ==
    [at |-> at, staged |-> Has(h, "stage"), admissionRemoved |-> Has(h, "admission"),
     calls |-> IF Has(h, "execution") THEN 1 ELSE 0,
     proofs |-> IF Has(h, "work") THEN 1 ELSE 0, chatUsed |-> Has(h, "chat")]

\* A close that removed everything.  The control plane reads its date before it waits for
\* the coordinator's lock, outside its own: at any time since the coordinator started,
\* while confirmations dated later may get the lock first.  A tool call still on its way
\* is refused afterwards.
Close(h, at) ==
    /\ run.handoff = h /\ ~Has(h, "close")
    /\ at \in doc[h].runtime.at..now
    /\ run' = [run EXCEPT !.terminal = TRUE]
    /\ Writes(h, "close", CloseReceipt(h, at))
    /\ UNCHANGED <<now, repository, log, offline>>

\* A close that could not: nothing is allowed any more, and it is called again.
CloseFails(h) ==
    /\ run.handoff = h /\ ~Has(h, "close") /\ ~run.terminal
    /\ run' = [run EXCEPT !.terminal = TRUE]
    /\ UNCHANGED <<now, repository, doc, log, offline>>

\* The process ends, or dies without having closed.
Stop ==
    /\ run # NoRun
    /\ run' = NoRun
    /\ UNCHANGED <<now, repository, doc, log, offline>>

-----------------------------------------------------------------------------
(* The offline commands *)

\* Mutant: other records of the tool are not looked at.
OnlyCallPresent(h) ==
    /\ Cardinality(RecordsOf(h, "completed")) = 1
    /\ Cardinality(RecordsOf(h, "render_completed")) = 1
    /\ RecordsOf(h, "render_failed") = {}

\* The whole log has one completed call and its rendering, and no other record
\* of the tool.
OnlyCall(h) ==
    /\ Len(log) = 2
    /\ Cardinality(RecordsOf(h, "completed")) = 1
    /\ RecordsOf(h, "render_failed") = {}
    /\ Cardinality(RecordsOf(h, "render_completed")) = 1

\* C9RichAuditCorrelationReceipt
CorrelationReceipt(h) == [handoff |-> h, records |-> Len(log), at |-> now]

\* commit_rich_audit_correlation_receipt; the work receipt binds its execution.
Correlate(ha, hw) ==
    /\ correlation = None
    /\ Has(ha, "admission") /\ Has(hw, "work") /\ ha = hw
    /\ OnlyCall(ha)
    /\ \E i \in RecordsOf(ha, "completed"), j \in RecordsOf(ha, "render_completed") :
          /\ i < j
          /\ doc[ha].execution.at <= log[i].at /\ log[i].at <= log[j].at
          /\ log[j].at <= doc[hw].work.at /\ doc[hw].work.at <= now
    /\ correlation' = CorrelationReceipt(ha)
    /\ UNCHANGED <<now, repository, run, doc, log, negative, revocation, final>>

\* C9AutomatedNegativeSuiteEvidence: the HEAD that the suite has run on.
SuiteHead == head

\* C9NegativeTestReceipt, every check having its required outcome.
NegativeReceipt(h) ==
    [handoff |-> h, cycle |-> Grant(h).cycle, grant |-> Grant(h).id, head |-> SuiteHead, at |-> now]

\* run-negative: the suite passes on the checked-out HEAD.
RunNegative(h) ==
    /\ negative = None
    /\ Has(h, "admission") /\ Has(h, "close") /\ doc[h].close.at <= now
    /\ negative' = NegativeReceipt(h)
    /\ UNCHANGED <<now, repository, run, doc, log, correlation, revocation, final>>

\* C9RevocationReceipt: cycle and grant are the operator's words.
RevocationReceipt(h, c, g) == [handoff |-> h, cycle |-> c, grant |-> g, at |-> now]

\* commit-revocation
CommitRevocation(h, c, g) ==
    /\ revocation = None
    /\ Has(h, "close")
    /\ doc[h].close.staged /\ doc[h].close.admissionRemoved
    /\ doc[h].close.at <= now
    /\ revocation' = RevocationReceipt(h, c, g)
    /\ UNCHANGED <<now, repository, run, doc, log, correlation, negative, final>>

\* _verify_c8_dependency: the seal the grant was issued on, still exact.
SameDependency(g) == tag \in ExactTags /\ g.tag = tag

OneCycle(a) ==
    /\ {a.bundle.auth.cycle, a.bundle.surface.cycle, a.bundle.runtime.cycle,
        negative.cycle, revocation.cycle} = {a.bundle.grant.cycle}
    /\ {negative.grant, revocation.grant} = {a.bundle.grant.id}

\* The chronology of commit_final_attestation.
Chronology(hs, a, hw, hx, hc) ==
    LET positives == {doc[hw].work.at, doc[hx].export.at, doc[hx].claim.at, doc[hx].chat.at}
        grant == a.bundle.grant
    IN  /\ doc[hs].stage.at <= a.at
        /\ grant.at = a.at
        /\ doc[hx].export.at <= doc[hx].claim.at /\ doc[hx].claim.at <= doc[hx].chat.at
        /\ doc[hx].chat.at < doc[hx].export.to
        /\ \A t \in positives :
              a.at <= t /\ t < grant.to /\ t < a.approval /\ t < doc[hs].stage.to
        /\ Max(positives) <= doc[hc].close.at
        /\ doc[hc].close.at <= negative.at
        /\ negative.at <= revocation.at

\* _verify_c9_live_cycle_for_final: the documents are authentic and the runtime
\* observation was fresh when the grant was issued.
CycleVerified(b) == In(b.grant.at, b.runtime)

\* verify_rich_audit_correlation_receipt: it is of this admission and Work receipt.
CorrelationVerified(ha, hw) ==
    correlation.handoff = ha /\ hw = ha /\ doc[hw].work.at <= correlation.at

\* commit_final_attestation; hs, ha, hw, hx and hc are the handoffs that the files
\* given as stage, admission, work, Chat documents and close belong to.
FinalAccepts(hs, ha, hw, hx, hc) ==
    /\ Has(hs, "stage") /\ Has(ha, "admission") /\ Has(hw, "work")
    /\ Has(hx, "chat") /\ Has(hc, "close")
    /\ correlation # None /\ negative # None /\ revocation # None
    /\ LET a == doc[ha].admission
           grant == a.bundle.grant
       IN  /\ In(doc[hs].stage.at, a.bundle.runtime)
           /\ CorrelationVerified(ha, hw)
           /\ revocation.handoff = hc
           /\ doc[hc].close.staged /\ doc[hc].close.admissionRemoved
           /\ doc[hc].close.calls = 1 /\ doc[hc].close.proofs = 1 /\ doc[hc].close.chatUsed
           /\ CycleVerified(a.bundle)
           /\ SameDependency(grant)
           /\ head = grant.head /\ negative.head = head
           /\ OneCycle(a)
           /\ {ha, hx, hc, negative.handoff, revocation.handoff} = {hs}
           /\ grant.package = hs
           /\ Chronology(hs, a, hw, hx, hc)
           /\ revocation.at <= now /\ correlation.at <= now

\* C9FinalAttestation
Attestation(h) == [handoff |-> h, at |-> now, head |-> head]

CommitFinal(hs, ha, hw, hx, hc) ==
    /\ final = None
    /\ FinalAccepts(hs, ha, hw, hx, hc)
    /\ final' = Attestation(hs)
    /\ UNCHANGED <<now, repository, run, doc, log,
                   correlation, negative, revocation>>

-----------------------------------------------------------------------------
(* The environment *)

\* Bounds: the clock starts with the first coordinator, and nothing happens once there
\* is an attestation.
Tick ==
    /\ now < MaxTime /\ final = None
    /\ \E h \in Handoffs : Has(h, "runtime")
    /\ now' = now + 1
    /\ UNCHANGED <<repository, run, doc, log, offline>>

\* Only approvals, run-negative and the final verifier read HEAD and the tag, so a move
\* just before one of them stands for any earlier one, and one that no attestation can
\* follow, because no close counts a Chat confirmation, changes nothing.  Bound: only one
\* of the two is away from its place at a time.
RepositoryIsReadNext ==
    /\ final = None
    /\ \/ /\ run = NoRun /\ correlation # None /\ (negative = None \/ revocation # None)
          /\ \E h \in Handoffs : Has(h, "close") /\ doc[h].close.chatUsed
       \/ /\ run # NoRun /\ ~run.terminal
          /\ Has(run.handoff, "stage") /\ ~Has(run.handoff, "admission")

MoveHead ==
    /\ tag = Tag0 /\ RepositoryIsReadNext
    /\ head' \in Heads \ {head}
    /\ UNCHANGED <<now, tag, run, doc, log, offline>>

MoveTag ==
    /\ head = Head0 /\ RepositoryIsReadNext
    /\ tag' \in Tags \ {tag}
    /\ UNCHANGED <<now, head, run, doc, log, offline>>

\* The control plane's commands and the calls of the tool.
Coordinator(h) ==
    \/ \E c \in Cycles : StartCoordinator(h, c)
    \/ StageHandoff(h)
    \/ \E g \in Grants : ApproveHandoff(h, g)
    \/ HandoffFails(h)
    \/ LookUp(h) \/ Execute(h) \/ ExecuteFails(h) \/ RecordExecution(h)
    \/ PrepareRender(h) \/ CommitRender(h) \/ RecordRender(h) \/ RenderFails(h)
    \/ ConfirmWork(h) \/ PrepareChat(h) \/ ClaimChat(h) \/ ConfirmChat(h)
    \/ (\E at \in 0..now : Close(h, at)) \/ CloseFails(h)

\* The operator's commands, on whatever files.  Bounds: the correlation is the first
\* receipt (a later one finds more records); the others, which need a close, are made
\* once the coordinator's process has ended, as the written procedure says.  The code
\* does not ask for it, but after a close the process only adds records to the log.
Offline ==
    \/ \E ha, hw \in Handoffs : Correlate(ha, hw)
    \/ /\ correlation # None /\ run = NoRun
       /\ \/ \E h \in Handoffs : RunNegative(h)
          \/ \E h \in Handoffs, c \in Cycles \cup {OtherCycle}, g \in Grants :
                CommitRevocation(h, c, g)
          \/ \E hs, ha, hw, hx, hc \in Handoffs : CommitFinal(hs, ha, hw, hx, hc)

CycleNext ==
    \/ \E h \in Handoffs : Coordinator(h)
    \/ Stop \/ Offline \/ Tick \/ MoveHead \/ MoveTag

CycleSpec == CycleInit /\ [][CycleNext]_cycleVars

-----------------------------------------------------------------------------
(* Properties *)

\* When an attestation is committed, the audit log up to the correlation tells of
\* one call of the tool in all, for the attested handoff: its records are dated inside
\* the grant and the authorization, although they are written later than the checks of
\* the call, it was rendered, and no refused, failed or second call, of this or another
\* handoff, stands beside it.
OneCallAttested ==
    final # None =>
        LET grant == Grant(final.handoff)
        IN  \A i \in 1..correlation.records :
              /\ log[i].handoff = final.handoff
              /\ log[i].status \in {"completed", "render_completed"}
              /\ In(log[i].at, grant) /\ In(log[i].at, doc[final.handoff].admission.bundle.auth)

\* What the coordinator confirmed, closed and correlated can be attested: when
\* the offline receipts are of this handoff and in order, the final verifier
\* refuses only because HEAD or the C8 tag is not what the grant names, or because
\* the close was dated, before it waited for the coordinator, earlier than a
\* confirmation that it counts.
ConfirmedRunIsAttestable ==
    \A h \in Handoffs :
        (/\ Has(h, "chat") /\ Has(h, "close")
         /\ \A k \in {"work", "export", "claim", "chat"} : doc[h][k].at <= doc[h].close.at
         /\ \A r \in {correlation, negative, revocation} : r # None /\ r.handoff = h
         /\ negative.at <= revocation.at
         /\ revocation.cycle = Grant(h).cycle /\ revocation.grant = Grant(h).id
         /\ Grant(h).tag = tag /\ {head, negative.head} = {Grant(h).head})
        => FinalAccepts(h, h, h, h, h)

=============================================================================
