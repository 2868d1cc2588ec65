----------------------------- MODULE Custodian ------------------------------
(***************************************************************************)
(* One custody session of crates/operator-evidence-custodian: the session's *)
(* life cycle (session.rs), its staging directory and lease (staging.rs),  *)
(* reading, committing and sanitizing the staged source (source.rs,        *)
(* commitment.rs, sanitizer.rs), and the staged clean-up with its retention *)
(* (disposition.rs).                                                       *)
(*                                                                         *)
(* Memory is what the caller's process holds; disk is what a failure or a  *)
(* lost handle leaves behind.  Others may change the directory at any time *)
(* (Tamper), also in the middle of a clean-up call.  A commitment is the   *)
(* content it commits to.  Every check of a link or a permission is part   *)
(* of "the stage fails".  A stage is a step: that the caller may also move *)
(* the session between two stages of one call, not only between two calls, *)
(* gives the model more behaviours than the code has, never fewer.         *)
(***************************************************************************)
EXTENDS Integers

CONSTANTS
    Content,        \* contents of the staged source
    Sanitizable,    \* those the chosen sanitizer profile accepts
    MaxWindow,      \* MAX_RETENTION_WINDOW_SECONDS
    MaxFailures,    \* bound on the number of failing file operations
    MaxTamper       \* bound on the changes made by others

ASSUME CustodianAssumption ==
    /\ Sanitizable \subseteq Content /\ "none" \notin Content
    /\ MaxWindow \in Nat \ {0} /\ MaxFailures \in Nat /\ MaxTamper \in Nat

VARIABLES
    state,          \* CustodySession.state
    revision,       \* CustodySession.revision
    disk,           \* the staging root: [root, lock, extra, source]
    custody,        \* who holds the root and its lease: see Holders
    lease,          \* is a SessionLease held?
    committed,      \* SourceCommitmentReceipts the caller holds
    artifact,       \* the sanitized bytes: [where, from]
    plan,           \* the PreparedDisposition
    receipt,        \* the LogicalDispositionReceipt
    failures, tampered

vars == <<state, revision, disk, custody, lease, committed, artifact, plan,
          receipt, failures, tampered>>

SessionState == {"created", "collecting", "sealed", "retained", "aborted",
                 "expired", "disposed"}
SessionAction == {"begin_collection", "seal", "retain", "abort", "expire", "dispose"}
Progress == {"none", "prepared", "source_absent", "lease_absent", "root_absent",
             "artifact_overwritten", "session_disposed", "complete"}

\* Nobody yet, the caller, the plan it was moved into, or nobody any more.
Holders == {"none", "caller", "plan", "lost"}

\* No lock file, the one this session's lease made, or one that others put there.
Locks == {"none", "own", "foreign"}

\* checked: the call in progress has verified the source and has not removed it yet;
\* since (for the properties): how many changes others had made when it verified it.
NoPlan == [progress |-> "none", kind |-> "none", mode |-> "none", by |-> 0, source |-> "none",
           checked |-> FALSE, since |-> 0,
           sourceTried |-> FALSE, rootTried |-> FALSE, rootOpen |-> FALSE,
           reason |-> "none", deadlineMet |-> "none", overwritten |-> FALSE]
NoReceipt == [revision |-> 0, reason |-> "none", source |-> "none", overwritten |-> FALSE,
              deadlineMet |-> "none"]

TypeOK ==
    /\ state \in SessionState
    /\ revision \in Nat
    /\ disk \in [root : BOOLEAN, lock : Locks, extra : BOOLEAN,
                 source : Content \cup {"none"}]
    /\ custody \in Holders
    /\ lease \in BOOLEAN
    /\ committed \subseteq Content
    /\ artifact \in [where : {"none", "result", "plan", "retained", "overwritten"},
                     from : Content \cup {"none"}]
    /\ plan.progress \in Progress
    /\ failures \in 0..MaxFailures /\ tampered \in 0..MaxTamper

Init ==
    /\ state = "created" /\ revision = 0
    /\ disk = [root |-> FALSE, lock |-> "none", extra |-> FALSE, source |-> "none"]
    /\ custody = "none" /\ lease = FALSE
    /\ committed = {}
    /\ artifact = [where |-> "none", from |-> "none"]
    /\ plan = NoPlan
    /\ receipt = NoReceipt
    /\ failures = 0 /\ tampered = 0

memory == <<committed, artifact, plan, receipt>>
session == <<state, revision>>
bounds == <<failures, tampered>>

-----------------------------------------------------------------------------
(* The session *)

Transition(s, a) ==
    CASE s = "created" /\ a = "begin_collection"               -> "collecting"
      [] s \in {"created", "collecting"} /\ a = "abort"        -> "aborted"
      [] s \in {"created", "collecting"} /\ a = "expire"       -> "expired"
      [] s = "collecting" /\ a = "seal"                        -> "sealed"
      [] s = "sealed" /\ a = "retain"                          -> "retained"
      [] s \in {"sealed", "retained", "aborted", "expired"} /\ a = "dispose" -> "disposed"
      [] OTHER                                                 -> "invalid"

ApplyTo(a) ==
    /\ Transition(state, a) # "invalid"
    /\ state' = Transition(state, a)
    /\ revision' = revision + 1

\* The caller's own transitions: every action, retaining and disposing included,
\* whatever is on disk.  A clean-up call in progress borrows the session.
Apply(a) ==
    /\ ~plan.checked
    /\ ApplyTo(a)
    /\ UNCHANGED <<disk, custody, lease, memory, bounds>>

-----------------------------------------------------------------------------
(* The staging root and its lease *)

Fail == failures < MaxFailures /\ failures' = failures + 1

CreateRoot ==
    /\ state = "created" /\ custody = "none" /\ ~disk.root
    /\ disk' = [disk EXCEPT !.root = TRUE, !.lock = "own"]
    /\ custody' = "caller" /\ lease' = TRUE
    /\ UNCHANGED <<session, memory, bounds>>

\* The directory was made, then a check or the first lease failed: it stays, and
\* a second attempt finds that it exists already.
CreateRootFails ==
    /\ state = "created" /\ custody = "none" /\ ~disk.root
    /\ Fail
    /\ disk' = [disk EXCEPT !.root = TRUE]
    /\ custody' = "lost"
    /\ UNCHANGED <<session, lease, memory, tampered>>

\* The lock file is created anew or not at all.
AcquireLease ==
    /\ custody = "caller" /\ ~lease /\ state # "disposed"
    /\ disk.lock = "none"
    /\ disk' = [disk EXCEPT !.lock = "own"]
    /\ lease' = TRUE
    /\ UNCHANGED <<session, custody, memory, bounds>>

\* Dropping the lease removes the lock file, whoever made it.
DropLease ==
    /\ custody = "caller" /\ lease
    /\ lease' = FALSE
    /\ disk' = [disk EXCEPT !.lock = "none"]
    /\ UNCHANGED <<session, custody, memory, bounds>>

-----------------------------------------------------------------------------
(* Reading, committing and sanitizing *)

\* validate_controlled_custody: the lock file is the one the open lease made.
CustodyValid == lease /\ disk.root /\ disk.lock = "own"

\* The bounded, fingerprinted read gives the whole content or nothing.
CanRead(c) == state = "collecting" /\ CustodyValid /\ disk.source = c

Commit(c) ==
    /\ custody = "caller"
    /\ CanRead(c)
    /\ committed' = committed \cup {c}
    /\ UNCHANGED <<session, disk, custody, lease, artifact, plan, receipt, bounds>>

SourceMatches(c, r) == c = r

\* An earlier result the caller no longer wants is overwritten when it is dropped.
Sanitize(c, r) ==
    /\ custody = "caller"
    /\ CanRead(c)
    /\ r \in committed /\ SourceMatches(c, r)
    /\ c \in Sanitizable
    /\ artifact.where \in {"none", "result"}
    /\ artifact' = [where |-> "result", from |-> c]
    /\ UNCHANGED <<session, disk, custody, lease, committed, plan, receipt, bounds>>

-----------------------------------------------------------------------------
(* Preparing a disposition *)

\* prepare_disposition_staging: the directory holds the lock, the expected source
\* (or none) and nothing else.
StagingExact(expected) ==
    /\ CustodyValid
    /\ disk.source = expected
    /\ ~disk.extra

Prepared(kind, mode, by, source, reason) ==
    [NoPlan EXCEPT !.progress = "prepared", !.kind = kind, !.mode = mode, !.by = by,
                   !.source = source, !.rootOpen = TRUE, !.reason = reason]

\* RetentionDecision: dispose at once, or retain for 1..MaxWindow seconds.
Decisions == {<<"dispose_immediately", 0>>} \cup ({"retain_until"} \X (1..MaxWindow))

\* Mutant: any commitment is taken for the result's own.
ReceiptsAgreeAlways(r) == TRUE

\* The result was sanitized from the content this receipt commits to.
ReceiptsAgree(r) == artifact.from = r

PrepareSanitized(r, d) ==
    /\ custody = "caller" /\ artifact.where = "result" /\ r \in committed
    /\ state = "sealed" /\ ReceiptsAgree(r) /\ StagingExact(r)
    /\ plan' = Prepared("sanitized", d[1], d[2], r, "completed")
    /\ artifact' = [artifact EXCEPT !.where = "plan"]
    /\ custody' = "plan"
    /\ UNCHANGED <<session, disk, lease, committed, receipt, bounds>>

PrepareTerminal(source) ==
    /\ custody = "caller"
    /\ source \in committed \cup {"none"}
    /\ state \in {"aborted", "expired"} /\ StagingExact(source)
    /\ plan' = Prepared("terminal", "none", 0, source, state)
    /\ custody' = "plan"
    /\ UNCHANGED <<session, disk, lease, committed, artifact, receipt, bounds>>

\* Root, lease and result were moved into a call that refuses: they are dropped.
\* The lock goes, the directory and what it holds stay.
PrepareRefused ==
    /\ custody = "caller" /\ lease
    /\ \/ \E r \in committed :
            /\ artifact.where = "result"
            /\ state # "sealed" \/ ~ReceiptsAgree(r) \/ ~StagingExact(r)
            /\ artifact' = [artifact EXCEPT !.where = "overwritten"]
       \/ \E source \in committed \cup {"none"} :
            /\ state \notin {"aborted", "expired"} \/ ~StagingExact(source)
            /\ UNCHANGED artifact
    /\ custody' = "lost" /\ lease' = FALSE
    /\ disk' = [disk EXCEPT !.lock = "none"]
    /\ UNCHANGED <<session, committed, plan, receipt, bounds>>

-----------------------------------------------------------------------------
(* The stages of a disposition.  dispose and retain go through them until one *)
(* fails; the next call goes on from the stage that failed.                   *)

Advance(to) == plan' = [plan EXCEPT !.progress = to]

\* dispose refuses a plan that must be retained first.  retain is for that plan.
MayDispose == ~(plan.mode = "retain_until" /\ state = "sealed")
MayRetain == plan.mode = "retain_until" /\ receipt = NoReceipt
MayCleanUp == MayDispose \/ MayRetain

\* Mutant: only a plan that never had a source does without one.
SourceGoneNever == plan.source = "none"

\* The source is absent because this plan removed it, or was never there.
SourceGone == plan.source = "none" \/ (disk.source = "none" /\ plan.sourceTried)

\* Mutant: whatever has the source's name is removed.
SourceVerifiedByName == disk.source # "none"

\* It is still the source that was committed.
SourceVerified == disk.source = plan.source /\ state \in {"sealed", "aborted", "expired"}

\* The source is read by its path, compared with its commitment and closed.
VerifySource ==
    /\ plan.progress = "prepared" /\ ~plan.checked /\ MayCleanUp
    /\ ~SourceGone /\ SourceVerified
    /\ plan' = [plan EXCEPT !.checked = TRUE, !.since = tampered]
    /\ UNCHANGED <<session, disk, custody, lease, committed, artifact, receipt, bounds>>

SourceAlreadyGone ==
    /\ plan.progress = "prepared" /\ ~plan.checked /\ MayCleanUp
    /\ SourceGone
    /\ Advance("source_absent")
    /\ UNCHANGED <<session, disk, custody, lease, committed, artifact, receipt, bounds>>

Attempted(progress) ==
    plan' = [plan EXCEPT !.progress = progress, !.checked = FALSE, !.since = 0,
                         !.sourceTried = TRUE]

\* Then whatever has its name is removed.  If somebody else has removed it by now
\* the call fails, and the next one finds it absent.
RemoveSource ==
    /\ plan.checked
    /\ disk' = [disk EXCEPT !.source = "none"]
    /\ Attempted(IF disk.source = "none" THEN "prepared" ELSE "source_absent")
    /\ UNCHANGED <<session, custody, lease, committed, artifact, receipt, bounds>>

\* The removal reports a failure, before or after the file has gone.
RemoveSourceFails ==
    /\ plan.checked
    /\ Fail
    /\ Attempted("prepared")
    /\ disk' \in {disk, [disk EXCEPT !.source = "none"]}
    /\ UNCHANGED <<session, custody, lease, committed, artifact, receipt, tampered>>

\* A lease that is held removes the lock file, whoever made it, and is given up;
\* without one there must be no lock file.
ReleaseLease ==
    /\ plan.progress = "source_absent" /\ MayCleanUp
    /\ lease \/ disk.lock = "none"
    /\ Advance("lease_absent")
    /\ lease' = FALSE
    /\ disk' = [disk EXCEPT !.lock = "none"]
    /\ UNCHANGED <<session, custody, committed, artifact, receipt, bounds>>

\* The lock file cannot be removed, or is still seen afterwards: the lease stays.
ReleaseLeaseFails ==
    /\ plan.progress = "source_absent" /\ MayCleanUp
    /\ lease
    /\ Fail
    /\ disk' \in {disk, [disk EXCEPT !.lock = "none"]}
    /\ UNCHANGED <<session, custody, lease, memory, tampered>>

\* The lease is given up and others put a lock file there before the second look.
ReleaseLeaseRaced ==
    /\ plan.progress = "source_absent" /\ MayCleanUp
    /\ lease
    /\ tampered < MaxTamper /\ tampered' = tampered + 1
    /\ lease' = FALSE
    /\ disk' = [disk EXCEPT !.lock = "foreign"]
    /\ UNCHANGED <<session, custody, memory, failures>>

Empty == disk.lock = "none" /\ ~disk.extra /\ disk.source = "none"

\* Mutant: whatever is left in the directory goes with it.
RootRemovableAnyway == disk.root

\* The directory is there and empty.
RootRemovable == disk.root /\ Empty

\* An earlier attempt removed it and could not verify that.
RootGone == ~plan.rootOpen /\ plan.rootTried /\ ~disk.root

\* Its handle is closed before the first attempt to remove it.
RemoveRoot ==
    /\ plan.progress = "lease_absent" /\ MayCleanUp
    /\ RootRemovable \/ RootGone
    /\ disk' = [disk EXCEPT !.root = FALSE]
    /\ plan' = [plan EXCEPT !.progress = "root_absent", !.rootOpen = FALSE, !.rootTried = TRUE]
    /\ custody' = "none"
    /\ UNCHANGED <<session, lease, committed, artifact, receipt, bounds>>

RemoveRootFails ==
    /\ plan.progress = "lease_absent" /\ MayCleanUp
    /\ RootRemovable
    /\ Fail
    /\ plan' = [plan EXCEPT !.rootOpen = FALSE, !.rootTried = TRUE]
    /\ disk' \in {disk, [disk EXCEPT !.root = FALSE]}
    /\ UNCHANGED <<session, custody, lease, committed, artifact, receipt, tampered>>

OverwriteArtifact ==
    /\ plan.progress = "root_absent" /\ MayDispose
    /\ plan.kind = "sanitized" => artifact.where = "plan"
    /\ plan' = [plan EXCEPT !.progress = "artifact_overwritten",
                            !.overwritten = (plan.kind = "sanitized")]
    /\ artifact' = IF plan.kind = "sanitized" THEN [artifact EXCEPT !.where = "overwritten"]
                   ELSE artifact
    /\ UNCHANGED <<session, disk, custody, lease, committed, receipt, bounds>>

\* validate_dispose_state: the reason the plan was made for still holds.
DisposeStateValid ==
    <<state, plan.reason>> \in { <<"sealed", "completed">>, <<"retained", "retention_released">>,
                                 <<"aborted", "aborted">>, <<"expired", "expired">> }

DisposeSession ==
    /\ plan.progress = "artifact_overwritten" /\ MayDispose
    /\ DisposeStateValid
    /\ ApplyTo("dispose")
    /\ Advance("session_disposed")
    /\ UNCHANGED <<disk, custody, lease, committed, artifact, receipt, bounds>>

\* build_receipt states the three absences as facts: the stages have verified them.
BuildReceipt ==
    /\ plan.progress = "session_disposed" /\ MayDispose
    /\ receipt' = [revision |-> revision, reason |-> plan.reason, source |-> plan.source,
                   overwritten |-> plan.overwritten, deadlineMet |-> plan.deadlineMet]
    /\ Advance("complete")
    /\ UNCHANGED <<session, disk, custody, lease, committed, artifact, bounds>>

Retain ==
    /\ plan.progress = "root_absent" /\ MayRetain
    /\ state = "sealed"
    /\ ApplyTo("retain")
    /\ Advance("complete")
    /\ artifact' = [artifact EXCEPT !.where = "retained"]
    /\ UNCHANGED <<disk, custody, lease, committed, receipt, bounds>>

\* RetainedSanitization::prepare_disposition, before or after the deadline.
PrepareRelease(at) ==
    /\ artifact.where = "retained"
    /\ plan' = [NoPlan EXCEPT !.progress = "root_absent", !.kind = "sanitized",
                              !.mode = plan.mode, !.by = plan.by, !.source = plan.source,
                              !.reason = "retention_released",
                              !.deadlineMet = IF at <= plan.by THEN "met" ELSE "late"]
    /\ artifact' = [artifact EXCEPT !.where = "plan"]
    /\ UNCHANGED <<session, disk, custody, lease, committed, receipt, bounds>>

-----------------------------------------------------------------------------
(* Losing the handles, and others *)

\* The caller drops what it holds, or its process dies: what is in memory is gone.
\* Dropping the lease removes the lock file; a process that dies leaves it behind.
Lose ==
    /\ custody # "lost" /\ receipt = NoReceipt
    /\ custody' = "lost" /\ lease' = FALSE
    /\ disk' = disk \/ (lease /\ disk' = [disk EXCEPT !.lock = "none"])
    /\ artifact' = IF artifact.where = "none" THEN artifact
                   ELSE [artifact EXCEPT !.where = "overwritten"]
    /\ plan' = NoPlan
    /\ UNCHANGED <<session, committed, receipt, bounds>>

\* The source is staged once the root exists; later it, the lock or some other
\* file in the directory may change.
Stage(c) ==
    /\ disk.root /\ disk.source = "none" /\ state \in {"created", "collecting"}
    /\ custody = "caller"
    /\ disk' = [disk EXCEPT !.source = c]
    /\ UNCHANGED <<session, custody, lease, memory, bounds>>

Tamper ==
    /\ disk.root /\ tampered < MaxTamper
    /\ tampered' = tampered + 1
    /\ disk' \in { [disk EXCEPT !.source = c] : c \in Content \cup {"none"} }
                 \cup { [disk EXCEPT !.lock = l] : l \in {"none", "foreign"} }
                 \cup { [disk EXCEPT !.extra = ~disk.extra] }
    /\ UNCHANGED <<session, custody, lease, memory, failures>>

-----------------------------------------------------------------------------

\* What the caller of dispose or retain makes happen by calling again.
CleanUp ==
    \/ VerifySource \/ SourceAlreadyGone \/ RemoveSource \/ RemoveSourceFails
    \/ ReleaseLease \/ ReleaseLeaseFails \/ ReleaseLeaseRaced
    \/ RemoveRoot \/ RemoveRootFails \/ OverwriteArtifact \/ DisposeSession
    \/ BuildReceipt \/ Retain

Next ==
    \/ \E a \in SessionAction : Apply(a)
    \/ CreateRoot \/ CreateRootFails \/ AcquireLease \/ DropLease
    \/ \E c \in Content : Stage(c) \/ Commit(c) \/ \E r \in Content : Sanitize(c, r)
    \/ \E r \in Content, d \in Decisions : PrepareSanitized(r, d)
    \/ \E source \in Content \cup {"none"} : PrepareTerminal(source)
    \/ PrepareRefused
    \/ CleanUp
    \/ \E at \in 0..(MaxWindow + 1) : PrepareRelease(at)
    \/ Lose \/ Tamper

Spec == Init /\ [][Next]_vars

\* The caller calls a prepared disposition again until it completes.
FairSpec == Spec /\ WF_vars(CleanUp)

-----------------------------------------------------------------------------
(* Properties *)

Gone == ~disk.root /\ disk.lock = "none" /\ disk.source = "none"

\* What the documents say is absent is absent: from the stage root_absent on, for a
\* retained result and for a receipt (raw_source_absent, lease_absent and
\* staging_root_absent), nothing of the raw source, the lease and the staging root is
\* left, whatever failed on the way and however often the clean-up was resumed.
DocumentedAbsence ==
    \/ receipt # NoReceipt \/ artifact.where = "retained"
    \/ plan.progress \in {"root_absent", "artifact_overwritten", "session_disposed",
                          "complete"}
    => Gone

\* What docs/operator-evidence-session-lifecycle.md says of the session's states: it
\* is retained or disposed only after that absence.  The public apply does not look.
DisposedMeansGone == state \in {"retained", "disposed"} => Gone

\* What a receipt says happened: the session ended for its reason at its revision,
\* the sanitized bytes were overwritten if there were any, and lateness is told.
ReceiptIsTrue ==
    receipt # NoReceipt =>
        /\ state = "disposed" /\ receipt.revision = revision
        /\ artifact.where = (IF receipt.overwritten THEN "overwritten" ELSE artifact.where)
        /\ artifact.where \notin {"plan", "retained"}
        /\ receipt.overwritten <=> receipt.reason \in {"completed", "retention_released"}
        /\ receipt.deadlineMet # "none" <=> receipt.reason = "retention_released"

\* The sanitized bytes that are retained or disposed of under a commitment come
\* from the very content that was committed and is removed.
SanitizedFromCommitted ==
    plan.kind = "sanitized" => artifact.from = plan.source /\ artifact.from \in Sanitizable

\* Both: how a session ended is what its last document says.
DispositionIsTrue == ReceiptIsTrue /\ SanitizedFromCommitted

\* The custodian removes a source only in a call that has verified, in a session that
\* can no longer collect, the very content it holds a commitment of; what it removes
\* is that content, unless others changed the directory after it was verified.
OnlyCommittedIsRemoved ==
    [][disk.source # "none" /\ disk'.source = "none" /\ tampered' = tampered =>
          /\ plan.checked
          /\ plan.source \in committed
          /\ state \in {"sealed", "aborted", "expired"}
          /\ disk.source = plan.source \/ tampered > plan.since]_vars

\* Once prepared, a disposition that is called again until it succeeds ends,
\* unless someone interfered with the directory, the handles were lost, or the caller
\* moved the session by hand out of the state the plan was made for.
CleanUpCompletes ==
    plan.progress \notin {"none", "complete"} ~>
        \/ plan.progress \in {"none", "complete"} \/ tampered > 0
        \/ plan.progress # "session_disposed" /\ ~DisposeStateValid
=============================================================================
