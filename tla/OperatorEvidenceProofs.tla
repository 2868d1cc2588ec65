----------------------- MODULE OperatorEvidenceProofs -----------------------
(***************************************************************************)
(* Machine-checked proofs about the evidence an operator collects: the     *)
(* custody session of Custodian, and the live cycle and attestation of     *)
(* C9Attestation.  They hold for every set of contents, every sanitizer    *)
(* profile and retention window, any number of failures and of changes     *)
(* made by others; and for every set of handoffs, cycles and grants, all   *)
(* lifetimes and any movement of HEAD and the C8 tag.  The two modules     *)
(* share nothing: Init, Next and Spec are the custodian's.                 *)
(***************************************************************************)
EXTENDS Custodian, C9Attestation, TLAPS

-----------------------------------------------------------------------------
(* The custodian *)

Plans ==
    [progress : Progress, kind : {"none", "sanitized", "terminal"},
     mode : {"none", "dispose_immediately", "retain_until"}, by : Nat,
     source : Content \cup {"none"}, checked : BOOLEAN, since : Nat,
     sourceTried : BOOLEAN, rootTried : BOOLEAN, rootOpen : BOOLEAN,
     reason : {"none", "completed", "retention_released", "aborted", "expired"},
     deadlineMet : {"none", "met", "late"}, overwritten : BOOLEAN]

Receipts ==
    [revision : Nat, reason : {"none", "completed", "retention_released", "aborted", "expired"},
     source : Content \cup {"none"}, overwritten : BOOLEAN,
     deadlineMet : {"none", "met", "late"}]

\* The last stages of a clean-up: the staging root has been removed.
Late == {"root_absent", "artifact_overwritten", "session_disposed", "complete"}
Early == {"prepared", "source_absent", "lease_absent"}

\* A directory that is gone holds nothing; it is there for the caller and until its
\* removal is tried; from its removal on, nothing of the staging is left.
DiskInv ==
    /\ ~disk.root => disk.lock = "none" /\ disk.source = "none"
    /\ custody = "caller" \/ plan.progress \in {"prepared", "source_absent"} => disk.root
    /\ plan.progress \in Late => ~disk.root /\ custody \in {"none", "lost"}

\* A plan is made once the session no longer collects, and is the custody's holder
\* until the root is gone.
PlanInv ==
    /\ plan.progress = "none" <=> plan.kind = "none"
    /\ plan.progress = "none" => plan = NoPlan
    /\ custody = "caller" \/ custody = "lost" => plan.progress = "none"
    /\ plan.progress \in Early => custody = "plan"
    /\ plan.progress # "none" => state \notin {"created", "collecting"}
    /\ plan.source \in committed \cup {"none"}

\* Between verifying the source and removing it nothing but others can change it.
CheckInv ==
    plan.checked =>
        /\ plan.progress = "prepared" /\ plan.source # "none"
        /\ state \in {"sealed", "aborted", "expired"}
        /\ plan.since <= tampered
        /\ disk.source = plan.source \/ tampered > plan.since

\* Reason, kind and deadline of a plan belong together.
ReasonInv ==
    /\ plan.kind = "sanitized" <=> plan.reason \in {"completed", "retention_released"}
    /\ plan.mode = "retain_until" => plan.kind = "sanitized"
    /\ plan.deadlineMet # "none" <=> plan.reason = "retention_released"
    /\ plan.progress = "session_disposed" => state = "disposed"
    /\ plan.progress \in {"artifact_overwritten", "session_disposed"} =>
          plan.overwritten <=> plan.kind = "sanitized"
    /\ plan.progress = "complete" => state \in {"retained", "disposed"}

\* Where the sanitized bytes are follows from the plan.
ArtifactInv ==
    /\ artifact.where = "result" => artifact.from \in Sanitizable
    /\ artifact.where = "plan" =>
          plan.kind = "sanitized" /\ plan.progress \in Early \cup {"root_absent"}
    /\ artifact.where = "retained" =>
          /\ plan.kind = "sanitized" /\ plan.progress = "complete" /\ receipt = NoReceipt
    /\ plan.kind = "sanitized" /\ plan.progress \in Early \cup {"root_absent"} =>
          artifact.where = "plan"
    /\ plan.progress \in {"artifact_overwritten", "session_disposed"} =>
          artifact.where \notin {"plan", "retained"}
    /\ plan.progress \in {"artifact_overwritten", "session_disposed"} /\ plan.overwritten =>
          artifact.where = "overwritten"

\* A receipt is the last thing a session gives.
EndInv ==
    receipt # NoReceipt => plan.progress = "complete" /\ state = "disposed"

Types == TypeOK /\ plan \in Plans /\ receipt \in Receipts

\* The inductive invariant.
IInv ==
    /\ Types
    /\ DiskInv
    /\ PlanInv
    /\ CheckInv
    /\ ReasonInv
    /\ ArtifactInv
    /\ EndInv
    /\ DispositionIsTrue
-----------------------------------------------------------------------------

\* A plan whose source has been tried is a plan.
LEMMA AttemptedTyped ==
    ASSUME plan \in Plans, NEW p \in Progress, Attempted(p)
    PROVE  plan' \in Plans
  BY DEF Attempted, Plans

\* A session starts with nothing on disk, no plan and no receipt.
LEMMA InitIInv == Init => IInv
  <1> SUFFICES ASSUME Init PROVE IInv
    OBVIOUS
  <1> USE CustodianAssumption DEF Init
  <1>1. Types
    <2>1. plan \in Plans /\ receipt \in Receipts
      BY DEF Plans, Receipts, NoPlan, NoReceipt, Progress
    <2>2. failures \in 0..MaxFailures /\ tampered \in 0..MaxTamper /\ revision \in Nat
      OBVIOUS
    <2>3. artifact \in [where : {"none", "result", "plan", "retained", "overwritten"},
                       from : Content \cup {"none"}]
      OBVIOUS
    <2>4. TypeOK
      BY <2>1, <2>2, <2>3 DEF TypeOK, Plans, SessionState, Holders, Locks
    <2>5. QED
      BY <2>1, <2>4 DEF Types
  <1>2. DiskInv /\ PlanInv /\ CheckInv
    BY DEF DiskInv, PlanInv, CheckInv, NoPlan, Late, Early
  <1>3. ReasonInv /\ ArtifactInv /\ EndInv
    BY DEF ReasonInv, ArtifactInv, EndInv, NoPlan, NoReceipt, Late, Early
  <1>4. DispositionIsTrue
    BY DEF DispositionIsTrue, ReceiptIsTrue, SanitizedFromCommitted, NoPlan, NoReceipt
  <1>5. QED
    BY <1>1, <1>2, <1>3, <1>4 DEF IInv

\* A prepared disposition, and the one that releases what was retained, are plans.
LEMMA PreparedPlan ==
    ASSUME NEW kind \in {"sanitized", "terminal"},
           NEW mode \in {"none", "dispose_immediately", "retain_until"}, NEW by \in Nat,
           NEW source \in Content \cup {"none"},
           NEW reason \in {"completed", "aborted", "expired"}
    PROVE  Prepared(kind, mode, by, source, reason) \in Plans
  BY DEF Prepared, Plans, NoPlan, Progress

LEMMA ReleasedPlan ==
    ASSUME NEW mode \in {"none", "dispose_immediately", "retain_until"}, NEW by \in Nat,
           NEW source \in Content \cup {"none"}, NEW met \in {"met", "late"}
    PROVE  [NoPlan EXCEPT !.progress = "root_absent", !.kind = "sanitized",
                          !.mode = mode, !.by = by, !.source = source,
                          !.reason = "retention_released", !.deadlineMet = met] \in Plans
  BY DEF Plans, NoPlan, Progress

\* Every step keeps the invariant.  Under each action: the types, the disk and who
\* holds it, and what the plan, the sanitized bytes and the receipt say.
LEMMA StepIInv == IInv /\ [Next]_vars => IInv'
  <1> USE CustodianAssumption
      DEF IInv, Types, TypeOK, Locks, session, memory, bounds
  <1>1. ASSUME IInv, NEW a \in SessionAction, Apply(a) PROVE IInv'
    <2>1. TypeOK'
      BY <1>1 DEF Apply, ApplyTo, Transition, SessionAction,
          Plans, NoPlan, SessionState, Holders, Progress
    <2>2. (plan \in Plans /\ receipt \in Receipts)'
      BY <1>1 DEF Apply, ApplyTo, Transition, SessionAction
    <2>3. (DiskInv /\ PlanInv /\ CheckInv)'
      BY <1>1 DEF Apply, ApplyTo, Transition, SessionAction,
          DiskInv, PlanInv, CheckInv, ArtifactInv, Late, Early, NoPlan, Plans, Progress
    <2>4. (ReasonInv /\ ArtifactInv /\ EndInv /\ DispositionIsTrue)'
      BY <1>1 DEF Apply, ApplyTo, Transition, SessionAction,
          DiskInv, PlanInv, CheckInv, ReasonInv, ArtifactInv, EndInv,
          DispositionIsTrue, ReceiptIsTrue, SanitizedFromCommitted, Late, Early, NoPlan, NoReceipt, Plans
    <2>5. QED
      BY <2>1, <2>2, <2>3, <2>4
  <1>2. ASSUME IInv, CreateRoot PROVE IInv'
    <2>1. TypeOK'
      BY <1>2 DEF CreateRoot,
          Plans, NoPlan, SessionState, Holders, Progress
    <2>2. (plan \in Plans /\ receipt \in Receipts)'
      BY <1>2 DEF CreateRoot
    <2>3. (DiskInv /\ PlanInv /\ CheckInv)'
      BY <1>2 DEF CreateRoot,
          DiskInv, PlanInv, CheckInv, ArtifactInv, Late, Early, NoPlan, Plans, Progress
    <2>4. (ReasonInv /\ ArtifactInv /\ EndInv /\ DispositionIsTrue)'
      BY <1>2 DEF CreateRoot,
          DiskInv, PlanInv, CheckInv, ReasonInv, ArtifactInv, EndInv,
          DispositionIsTrue, ReceiptIsTrue, SanitizedFromCommitted, Late, Early, NoPlan, NoReceipt, Plans
    <2>5. QED
      BY <2>1, <2>2, <2>3, <2>4
  <1>3. ASSUME IInv, CreateRootFails PROVE IInv'
    <2>1. TypeOK'
      <3>1. failures' \in 0..MaxFailures /\ tampered' \in 0..MaxTamper
        BY <1>3 DEF CreateRootFails, Fail
      <3>2. QED
        BY <1>3, <3>1 DEF CreateRootFails, Plans, Holders
    <2>2. (plan \in Plans /\ receipt \in Receipts)'
      BY <1>3 DEF CreateRootFails, Fail
    <2>3. (DiskInv /\ PlanInv /\ CheckInv)'
      BY <1>3 DEF CreateRootFails, Fail,
          DiskInv, PlanInv, CheckInv, ArtifactInv, Late, Early, NoPlan, Plans, Progress
    <2>4. (ReasonInv /\ ArtifactInv /\ EndInv /\ DispositionIsTrue)'
      BY <1>3 DEF CreateRootFails, Fail,
          DiskInv, PlanInv, CheckInv, ReasonInv, ArtifactInv, EndInv,
          DispositionIsTrue, ReceiptIsTrue, SanitizedFromCommitted, Late, Early, NoPlan, NoReceipt, Plans
    <2>5. QED
      BY <2>1, <2>2, <2>3, <2>4
  <1>4. ASSUME IInv, AcquireLease PROVE IInv'
    <2>1. TypeOK'
      BY <1>4 DEF AcquireLease,
          Plans, NoPlan, SessionState, Holders, Progress
    <2>2. (plan \in Plans /\ receipt \in Receipts)'
      BY <1>4 DEF AcquireLease
    <2>3. (DiskInv /\ PlanInv /\ CheckInv)'
      BY <1>4 DEF AcquireLease,
          DiskInv, PlanInv, CheckInv, ArtifactInv, Late, Early, NoPlan, Plans, Progress
    <2>4. (ReasonInv /\ ArtifactInv /\ EndInv /\ DispositionIsTrue)'
      BY <1>4 DEF AcquireLease,
          DiskInv, PlanInv, CheckInv, ReasonInv, ArtifactInv, EndInv,
          DispositionIsTrue, ReceiptIsTrue, SanitizedFromCommitted, Late, Early, NoPlan, NoReceipt, Plans
    <2>5. QED
      BY <2>1, <2>2, <2>3, <2>4
  <1>5. ASSUME IInv, DropLease PROVE IInv'
    <2>1. TypeOK'
      <3>1. disk' \in [root : BOOLEAN, lock : Locks, extra : BOOLEAN,
                      source : Content \cup {"none"}]
        BY <1>5 DEF DropLease
      <3>2. QED
        BY <1>5, <3>1 DEF DropLease
    <2>2. (plan \in Plans /\ receipt \in Receipts)'
      BY <1>5 DEF DropLease
    <2>3. (DiskInv /\ PlanInv /\ CheckInv)'
      BY <1>5 DEF DropLease,
          DiskInv, PlanInv, CheckInv, ArtifactInv, Late, Early, NoPlan, Plans, Progress
    <2>4. (ReasonInv /\ ArtifactInv /\ EndInv /\ DispositionIsTrue)'
      BY <1>5 DEF DropLease,
          DiskInv, PlanInv, CheckInv, ReasonInv, ArtifactInv, EndInv,
          DispositionIsTrue, ReceiptIsTrue, SanitizedFromCommitted, Late, Early, NoPlan, NoReceipt, Plans
    <2>5. QED
      BY <2>1, <2>2, <2>3, <2>4
  <1>6. ASSUME IInv, NEW c \in Content, Stage(c) PROVE IInv'
    <2>1. TypeOK'
      BY <1>6 DEF Stage,
          Plans, NoPlan, SessionState, Holders, Progress
    <2>2. (plan \in Plans /\ receipt \in Receipts)'
      BY <1>6 DEF Stage
    <2>3. (DiskInv /\ PlanInv /\ CheckInv)'
      BY <1>6 DEF Stage,
          DiskInv, PlanInv, CheckInv, ArtifactInv, Late, Early, NoPlan, Plans, Progress
    <2>4. (ReasonInv /\ ArtifactInv /\ EndInv /\ DispositionIsTrue)'
      BY <1>6 DEF Stage,
          DiskInv, PlanInv, CheckInv, ReasonInv, ArtifactInv, EndInv,
          DispositionIsTrue, ReceiptIsTrue, SanitizedFromCommitted, Late, Early, NoPlan, NoReceipt, Plans
    <2>5. QED
      BY <2>1, <2>2, <2>3, <2>4
  <1>7. ASSUME IInv, NEW c \in Content, Commit(c) PROVE IInv'
    <2>1. TypeOK'
      BY <1>7 DEF Commit, CanRead,
          Plans, NoPlan, SessionState, Holders, Progress
    <2>2. (plan \in Plans /\ receipt \in Receipts)'
      BY <1>7 DEF Commit, CanRead
    <2>3. (DiskInv /\ PlanInv /\ CheckInv)'
      BY <1>7 DEF Commit, CanRead,
          DiskInv, PlanInv, CheckInv, ArtifactInv, Late, Early, NoPlan, Plans, Progress
    <2>4. (ReasonInv /\ ArtifactInv /\ EndInv /\ DispositionIsTrue)'
      BY <1>7 DEF Commit, CanRead,
          DiskInv, PlanInv, CheckInv, ReasonInv, ArtifactInv, EndInv,
          DispositionIsTrue, ReceiptIsTrue, SanitizedFromCommitted, Late, Early, NoPlan, NoReceipt, Plans
    <2>5. QED
      BY <2>1, <2>2, <2>3, <2>4
  <1>8. ASSUME IInv, NEW c \in Content, NEW r \in Content, Sanitize(c, r) PROVE IInv'
    <2>1. TypeOK'
      BY <1>8 DEF Sanitize, CanRead,
          Plans, NoPlan, SessionState, Holders, Progress
    <2>2. (plan \in Plans /\ receipt \in Receipts)'
      BY <1>8 DEF Sanitize, CanRead
    <2>3. (DiskInv /\ PlanInv /\ CheckInv)'
      BY <1>8 DEF Sanitize, CanRead,
          DiskInv, PlanInv, CheckInv, ArtifactInv, Late, Early, NoPlan, Plans, Progress
    <2>4. (ReasonInv /\ ArtifactInv /\ EndInv /\ DispositionIsTrue)'
      BY <1>8 DEF Sanitize, CanRead,
          DiskInv, PlanInv, CheckInv, ReasonInv, ArtifactInv, EndInv,
          DispositionIsTrue, ReceiptIsTrue, SanitizedFromCommitted, Late, Early, NoPlan, NoReceipt, Plans
    <2>5. QED
      BY <2>1, <2>2, <2>3, <2>4
  <1>9. ASSUME IInv, NEW r \in Content, NEW d \in Decisions, PrepareSanitized(r, d) PROVE IInv'
    <2>1. TypeOK'
      BY <1>9 DEF PrepareSanitized, Prepared, Decisions, StagingExact, CustodyValid, ReceiptsAgree,
          Plans, NoPlan, SessionState, Holders, Progress
    <2>2. (plan \in Plans /\ receipt \in Receipts)'
      <3>1. d[1] \in {"dispose_immediately", "retain_until"} /\ d[2] \in Nat
        BY <1>9 DEF Decisions
      <3>2. plan' \in Plans
        BY <1>9, <3>1, PreparedPlan DEF PrepareSanitized
      <3>3. QED
        BY <1>9, <3>2 DEF PrepareSanitized
    <2>3. (DiskInv /\ PlanInv /\ CheckInv)'
      BY <1>9 DEF PrepareSanitized, Prepared, Decisions, StagingExact, CustodyValid, ReceiptsAgree,
          DiskInv, PlanInv, CheckInv, ArtifactInv, Late, Early, NoPlan, Plans, Progress
    <2>4. (ReasonInv /\ ArtifactInv /\ EndInv /\ DispositionIsTrue)'
      BY <1>9 DEF PrepareSanitized, Prepared, Decisions, StagingExact, CustodyValid, ReceiptsAgree,
          DiskInv, PlanInv, CheckInv, ReasonInv, ArtifactInv, EndInv,
          DispositionIsTrue, ReceiptIsTrue, SanitizedFromCommitted, Late, Early, NoPlan, NoReceipt, Plans
    <2>5. QED
      BY <2>1, <2>2, <2>3, <2>4
  <1>10. ASSUME IInv, NEW source \in Content \cup {"none"}, PrepareTerminal(source) PROVE IInv'
    <2>1. TypeOK'
      BY <1>10 DEF PrepareTerminal, Prepared, StagingExact, CustodyValid,
          Plans, NoPlan, SessionState, Holders, Progress
    <2>2. (plan \in Plans /\ receipt \in Receipts)'
      BY <1>10, PreparedPlan DEF PrepareTerminal
    <2>3. (DiskInv /\ PlanInv /\ CheckInv)'
      BY <1>10 DEF PrepareTerminal, Prepared, StagingExact, CustodyValid,
          DiskInv, PlanInv, CheckInv, ArtifactInv, Late, Early, NoPlan, Plans, Progress
    <2>4. (ReasonInv /\ ArtifactInv /\ EndInv /\ DispositionIsTrue)'
      BY <1>10 DEF PrepareTerminal, Prepared, StagingExact, CustodyValid,
          DiskInv, PlanInv, CheckInv, ReasonInv, ArtifactInv, EndInv,
          DispositionIsTrue, ReceiptIsTrue, SanitizedFromCommitted, Late, Early, NoPlan, NoReceipt, Plans
    <2>5. QED
      BY <2>1, <2>2, <2>3, <2>4
  <1>11. ASSUME IInv, PrepareRefused PROVE IInv'
    <2>1. TypeOK'
      <3>1. artifact' \in [where : {"none", "result", "plan", "retained", "overwritten"},
                          from : Content \cup {"none"}]
        BY <1>11 DEF PrepareRefused
      <3>2. QED
        BY <1>11, <3>1 DEF PrepareRefused, Holders
    <2>2. (plan \in Plans /\ receipt \in Receipts)'
      BY <1>11 DEF PrepareRefused
    <2>3. (DiskInv /\ PlanInv /\ CheckInv)'
      BY <1>11 DEF PrepareRefused,
          DiskInv, PlanInv, CheckInv, ArtifactInv, Late, Early, NoPlan, Plans, Progress
    <2>4. (ReasonInv /\ ArtifactInv /\ EndInv /\ DispositionIsTrue)'
      BY <1>11 DEF PrepareRefused,
          DiskInv, PlanInv, CheckInv, ReasonInv, ArtifactInv, EndInv,
          DispositionIsTrue, ReceiptIsTrue, SanitizedFromCommitted, Late, Early, NoPlan, NoReceipt, Plans
    <2>5. QED
      BY <2>1, <2>2, <2>3, <2>4
  <1>12. ASSUME IInv, RemoveSource PROVE IInv'
    <2>1. TypeOK'
      BY <1>12 DEF RemoveSource, Attempted,
          Plans, NoPlan, SessionState, Holders, Progress
    <2>2. (plan \in Plans /\ receipt \in Receipts)'
      <3>1. /\ Attempted("prepared") \/ Attempted("source_absent")
            /\ receipt' = receipt /\ plan \in Plans /\ receipt \in Receipts
        BY <1>12 DEF RemoveSource
      <3>2. {"prepared", "source_absent"} \subseteq Progress
        BY DEF Progress
      <3>3. QED
        BY <3>1, <3>2, AttemptedTyped
    <2>3. (DiskInv /\ PlanInv /\ CheckInv)'
      BY <1>12 DEF RemoveSource, Attempted,
          DiskInv, PlanInv, CheckInv, ArtifactInv, Late, Early, NoPlan, Plans, Progress
    <2>4. (ReasonInv /\ ArtifactInv /\ EndInv /\ DispositionIsTrue)'
      BY <1>12 DEF RemoveSource, Attempted,
          DiskInv, PlanInv, CheckInv, ReasonInv, ArtifactInv, EndInv,
          DispositionIsTrue, ReceiptIsTrue, SanitizedFromCommitted, Late, Early, NoPlan, NoReceipt, Plans
    <2>5. QED
      BY <2>1, <2>2, <2>3, <2>4
  <1>13. ASSUME IInv, RemoveSourceFails PROVE IInv'
    <2>1. TypeOK'
      BY <1>13 DEF RemoveSourceFails, Attempted, Fail,
          Plans, NoPlan, SessionState, Holders, Progress
    <2>2. (plan \in Plans /\ receipt \in Receipts)'
      <3>1. Attempted("prepared") /\ receipt' = receipt /\ plan \in Plans /\ receipt \in Receipts
        BY <1>13 DEF RemoveSourceFails
      <3>2. "prepared" \in Progress
        BY DEF Progress
      <3>3. QED
        BY <3>1, <3>2, AttemptedTyped
    <2>3. (DiskInv /\ PlanInv /\ CheckInv)'
      BY <1>13 DEF RemoveSourceFails, Attempted, Fail,
          DiskInv, PlanInv, CheckInv, ArtifactInv, Late, Early, NoPlan, Plans, Progress
    <2>4. (ReasonInv /\ ArtifactInv /\ EndInv /\ DispositionIsTrue)'
      BY <1>13 DEF RemoveSourceFails, Attempted, Fail,
          DiskInv, PlanInv, CheckInv, ReasonInv, ArtifactInv, EndInv,
          DispositionIsTrue, ReceiptIsTrue, SanitizedFromCommitted, Late, Early, NoPlan, NoReceipt, Plans
    <2>5. QED
      BY <2>1, <2>2, <2>3, <2>4
  <1>14. ASSUME IInv, ReleaseLease PROVE IInv'
    <2>1. TypeOK'
      <3>1. disk' \in [root : BOOLEAN, lock : Locks, extra : BOOLEAN,
                      source : Content \cup {"none"}]
        BY <1>14 DEF ReleaseLease
      <3>2. plan'.progress \in Progress
        BY <1>14 DEF ReleaseLease, Advance, Plans, Progress
      <3>3. QED
        BY <1>14, <3>1, <3>2 DEF ReleaseLease
    <2>2. (plan \in Plans /\ receipt \in Receipts)'
      BY <1>14 DEF ReleaseLease, Advance,
          Plans, NoPlan, Progress
    <2>3. (DiskInv /\ PlanInv /\ CheckInv)'
      BY <1>14 DEF ReleaseLease, Advance,
          DiskInv, PlanInv, CheckInv, ArtifactInv, Late, Early, NoPlan, Plans, Progress
    <2>4. (ReasonInv /\ ArtifactInv /\ EndInv /\ DispositionIsTrue)'
      BY <1>14 DEF ReleaseLease, Advance,
          DiskInv, PlanInv, CheckInv, ReasonInv, ArtifactInv, EndInv,
          DispositionIsTrue, ReceiptIsTrue, SanitizedFromCommitted, Late, Early, NoPlan, NoReceipt, Plans
    <2>5. QED
      BY <2>1, <2>2, <2>3, <2>4
  <1>15. ASSUME IInv, ReleaseLeaseFails PROVE IInv'
    <2>1. TypeOK'
      <3>1. failures' \in 0..MaxFailures /\ tampered' \in 0..MaxTamper
        BY <1>15 DEF ReleaseLeaseFails, Fail
      <3>2. QED
        BY <1>15, <3>1 DEF ReleaseLeaseFails, Plans, Holders
    <2>2. (plan \in Plans /\ receipt \in Receipts)'
      BY <1>15 DEF ReleaseLeaseFails, Fail
    <2>3. (DiskInv /\ PlanInv /\ CheckInv)'
      BY <1>15 DEF ReleaseLeaseFails, Fail,
          DiskInv, PlanInv, CheckInv, ArtifactInv, Late, Early, NoPlan, Plans, Progress
    <2>4. (ReasonInv /\ ArtifactInv /\ EndInv /\ DispositionIsTrue)'
      BY <1>15 DEF ReleaseLeaseFails, Fail,
          DiskInv, PlanInv, CheckInv, ReasonInv, ArtifactInv, EndInv,
          DispositionIsTrue, ReceiptIsTrue, SanitizedFromCommitted, Late, Early, NoPlan, NoReceipt, Plans
    <2>5. QED
      BY <2>1, <2>2, <2>3, <2>4
  <1>16. ASSUME IInv, RemoveRoot PROVE IInv'
    <2>1. TypeOK'
      <3>1. disk' \in [root : BOOLEAN, lock : Locks, extra : BOOLEAN,
                       source : Content \cup {"none"}]
        BY <1>16 DEF RemoveRoot
      <3>2. plan'.progress \in Progress /\ custody' \in Holders
        BY <1>16 DEF RemoveRoot, Plans, Progress, Holders
      <3>3. QED
        BY <1>16, <3>1, <3>2 DEF RemoveRoot
    <2>2. (plan \in Plans /\ receipt \in Receipts)'
      BY <1>16 DEF RemoveRoot, RootRemovable, RootGone, Empty,
          Plans, NoPlan, Progress
    <2>3. (DiskInv /\ PlanInv /\ CheckInv)'
      BY <1>16 DEF RemoveRoot, RootRemovable, RootGone, Empty,
          DiskInv, PlanInv, CheckInv, ArtifactInv, Late, Early, NoPlan, Plans, Progress
    <2>4. (ReasonInv /\ ArtifactInv /\ EndInv /\ DispositionIsTrue)'
      BY <1>16 DEF RemoveRoot, RootRemovable, RootGone, Empty,
          DiskInv, PlanInv, CheckInv, ReasonInv, ArtifactInv, EndInv,
          DispositionIsTrue, ReceiptIsTrue, SanitizedFromCommitted, Late, Early, NoPlan, NoReceipt, Plans
    <2>5. QED
      BY <2>1, <2>2, <2>3, <2>4
  <1>17. ASSUME IInv, RemoveRootFails PROVE IInv'
    <2>1. TypeOK'
      <3>1. failures' \in 0..MaxFailures /\ tampered' \in 0..MaxTamper
        BY <1>17 DEF RemoveRootFails, Fail
      <3>2. QED
        BY <1>17, <3>1 DEF RemoveRootFails, Plans, Holders
    <2>2. (plan \in Plans /\ receipt \in Receipts)'
      BY <1>17 DEF RemoveRootFails, RootRemovable, Empty, Fail,
          Plans, NoPlan, Progress
    <2>3. (DiskInv /\ PlanInv /\ CheckInv)'
      BY <1>17 DEF RemoveRootFails, RootRemovable, Empty, Fail,
          DiskInv, PlanInv, CheckInv, ArtifactInv, Late, Early, NoPlan, Plans, Progress
    <2>4. (ReasonInv /\ ArtifactInv /\ EndInv /\ DispositionIsTrue)'
      BY <1>17 DEF RemoveRootFails, RootRemovable, Empty, Fail,
          DiskInv, PlanInv, CheckInv, ReasonInv, ArtifactInv, EndInv,
          DispositionIsTrue, ReceiptIsTrue, SanitizedFromCommitted, Late, Early, NoPlan, NoReceipt, Plans
    <2>5. QED
      BY <2>1, <2>2, <2>3, <2>4
  <1>18. ASSUME IInv, OverwriteArtifact PROVE IInv'
    <2>1. TypeOK'
      BY <1>18 DEF OverwriteArtifact,
          Plans, NoPlan, SessionState, Holders, Progress
    <2>2. (plan \in Plans /\ receipt \in Receipts)'
      <3>1. plan' \in Plans
        <4>1. "artifact_overwritten" \in Progress /\ (plan.kind = "sanitized") \in BOOLEAN
          BY DEF Progress
        <4>2. /\ plan \in Plans
              /\ plan' = [plan EXCEPT !.progress = "artifact_overwritten",
                                      !.overwritten = (plan.kind = "sanitized")]
          BY <1>18 DEF OverwriteArtifact
        <4>3. QED
          BY <4>1, <4>2 DEF Plans
      <3>2. QED
        BY <1>18, <3>1 DEF OverwriteArtifact
    <2>3. (DiskInv /\ PlanInv /\ CheckInv)'
      BY <1>18 DEF OverwriteArtifact,
          DiskInv, PlanInv, CheckInv, ArtifactInv, Late, Early, NoPlan, Plans, Progress
    <2>4. (ReasonInv /\ ArtifactInv /\ EndInv /\ DispositionIsTrue)'
      BY <1>18 DEF OverwriteArtifact,
          DiskInv, PlanInv, CheckInv, ReasonInv, ArtifactInv, EndInv,
          DispositionIsTrue, ReceiptIsTrue, SanitizedFromCommitted, Late, Early, NoPlan, NoReceipt, Plans
    <2>5. QED
      BY <2>1, <2>2, <2>3, <2>4
  <1>19. ASSUME IInv, DisposeSession PROVE IInv'
    <2>1. TypeOK'
      BY <1>19 DEF DisposeSession, ApplyTo, Transition, Advance, DisposeStateValid,
          Plans, NoPlan, SessionState, Holders, Progress
    <2>2. (plan \in Plans /\ receipt \in Receipts)'
      BY <1>19 DEF DisposeSession, ApplyTo, Transition, Advance, DisposeStateValid,
          Plans, NoPlan, Progress
    <2>3. (DiskInv /\ PlanInv /\ CheckInv)'
      BY <1>19 DEF DisposeSession, ApplyTo, Transition, Advance, DisposeStateValid,
          DiskInv, PlanInv, CheckInv, ArtifactInv, Late, Early, NoPlan, Plans, Progress
    <2>4. (ReasonInv /\ ArtifactInv /\ EndInv /\ DispositionIsTrue)'
      BY <1>19 DEF DisposeSession, ApplyTo, Transition, Advance, DisposeStateValid,
          DiskInv, PlanInv, CheckInv, ReasonInv, ArtifactInv, EndInv,
          DispositionIsTrue, ReceiptIsTrue, SanitizedFromCommitted, Late, Early, NoPlan, NoReceipt, Plans
    <2>5. QED
      BY <2>1, <2>2, <2>3, <2>4
  <1>20. ASSUME IInv, BuildReceipt PROVE IInv'
    <2>1. TypeOK'
      BY <1>20 DEF BuildReceipt, Advance,
          Plans, NoPlan, SessionState, Holders, Progress
    <2>2. (plan \in Plans /\ receipt \in Receipts)'
      BY <1>20 DEF BuildReceipt, Advance,
          Plans, NoPlan, Progress, Receipts
    <2>3. (DiskInv /\ PlanInv /\ CheckInv)'
      BY <1>20 DEF BuildReceipt, Advance,
          DiskInv, PlanInv, CheckInv, ArtifactInv, Late, Early, NoPlan, Plans, Progress
    <2>4. (ReasonInv /\ ArtifactInv /\ EndInv /\ DispositionIsTrue)'
      BY <1>20 DEF BuildReceipt, Advance,
          DiskInv, PlanInv, CheckInv, ReasonInv, ArtifactInv, EndInv,
          DispositionIsTrue, ReceiptIsTrue, SanitizedFromCommitted, Late, Early, NoPlan, NoReceipt, Plans
    <2>5. QED
      BY <2>1, <2>2, <2>3, <2>4
  <1>21. ASSUME IInv, Retain PROVE IInv'
    <2>1. TypeOK'
      BY <1>21 DEF Retain, MayRetain, ApplyTo, Transition, Advance,
          Plans, NoPlan, SessionState, Holders, Progress
    <2>2. (plan \in Plans /\ receipt \in Receipts)'
      BY <1>21 DEF Retain, MayRetain, ApplyTo, Transition, Advance,
          Plans, NoPlan, Progress
    <2>3. (DiskInv /\ PlanInv /\ CheckInv)'
      BY <1>21 DEF Retain, MayRetain, ApplyTo, Transition, Advance,
          DiskInv, PlanInv, CheckInv, ArtifactInv, Late, Early, NoPlan, Plans, Progress
    <2>4. (ReasonInv /\ ArtifactInv /\ EndInv /\ DispositionIsTrue)'
      BY <1>21 DEF Retain, MayRetain, ApplyTo, Transition, Advance,
          DiskInv, PlanInv, CheckInv, ReasonInv, ArtifactInv, EndInv,
          DispositionIsTrue, ReceiptIsTrue, SanitizedFromCommitted, Late, Early, NoPlan, NoReceipt, Plans
    <2>5. QED
      BY <2>1, <2>2, <2>3, <2>4
  <1>22. ASSUME IInv, NEW at \in 0..(MaxWindow + 1), PrepareRelease(at) PROVE IInv'
    <2>1. TypeOK'
      BY <1>22 DEF PrepareRelease,
          Plans, NoPlan, SessionState, Holders, Progress
    <2>2. (plan \in Plans /\ receipt \in Receipts)'
      <3>1. plan.mode \in {"none", "dispose_immediately", "retain_until"} /\ plan.by \in Nat
            /\ plan.source \in Content \cup {"none"}
        BY <1>22 DEF Plans
      <3>2. (IF at <= plan.by THEN "met" ELSE "late") \in {"met", "late"}
        OBVIOUS
      <3>3. QED
        BY <1>22, <3>1, <3>2, ReleasedPlan DEF PrepareRelease
    <2>3. (DiskInv /\ PlanInv /\ CheckInv)'
      BY <1>22 DEF PrepareRelease,
          DiskInv, PlanInv, CheckInv, ArtifactInv, Late, Early, NoPlan, Plans, Progress
    <2>4. (ReasonInv /\ ArtifactInv /\ EndInv /\ DispositionIsTrue)'
      BY <1>22 DEF PrepareRelease,
          DiskInv, PlanInv, CheckInv, ReasonInv, ArtifactInv, EndInv,
          DispositionIsTrue, ReceiptIsTrue, SanitizedFromCommitted, Late, Early, NoPlan, NoReceipt, Plans
    <2>5. QED
      BY <2>1, <2>2, <2>3, <2>4
  <1>23. ASSUME IInv, Lose PROVE IInv'
    <2>1. TypeOK'
      <3>1. disk' \in [root : BOOLEAN, lock : Locks, extra : BOOLEAN,
                       source : Content \cup {"none"}]
        BY <1>23 DEF Lose, Locks
      <3>2. artifact' \in [where : {"none", "result", "plan", "retained", "overwritten"},
                           from : Content \cup {"none"}]
        BY <1>23 DEF Lose
      <3>3. plan'.progress \in Progress /\ custody' \in Holders /\ lease' \in BOOLEAN
        BY <1>23 DEF Lose, NoPlan, Progress, Holders
      <3>4. QED
        BY <1>23, <3>1, <3>2, <3>3 DEF Lose
    <2>2. (plan \in Plans /\ receipt \in Receipts)'
      BY <1>23 DEF Lose,
          Plans, NoPlan, Progress
    <2>3. (DiskInv /\ PlanInv /\ CheckInv)'
      BY <1>23 DEF Lose,
          DiskInv, PlanInv, CheckInv, ArtifactInv, Late, Early, NoPlan, Plans, Progress
    <2>4. (ReasonInv /\ ArtifactInv /\ EndInv /\ DispositionIsTrue)'
      BY <1>23 DEF Lose,
          DiskInv, PlanInv, CheckInv, ReasonInv, ArtifactInv, EndInv,
          DispositionIsTrue, ReceiptIsTrue, SanitizedFromCommitted, Late, Early, NoPlan, NoReceipt, Plans
    <2>5. QED
      BY <2>1, <2>2, <2>3, <2>4
  <1>24. ASSUME IInv, Tamper PROVE IInv'
    <2>1. TypeOK'
      <3>1. failures' \in 0..MaxFailures /\ tampered' \in 0..MaxTamper
        BY <1>24 DEF Tamper
      <3>2. CASE \E c \in Content \cup {"none"} : disk' = [disk EXCEPT !.source = c]
        BY <1>24, <3>1, <3>2 DEF Tamper
      <3>3. CASE \E l \in {"none", "foreign"} : disk' = [disk EXCEPT !.lock = l]
        BY <1>24, <3>1, <3>3 DEF Tamper
      <3>4. CASE disk' = [disk EXCEPT !.extra = ~disk.extra]
        BY <1>24, <3>1, <3>4 DEF Tamper
      <3>5. QED
        BY <1>24, <3>2, <3>3, <3>4 DEF Tamper
    <2>2. (plan \in Plans /\ receipt \in Receipts)'
      BY <1>24 DEF Tamper
    <2>3. (DiskInv /\ PlanInv /\ CheckInv)'
      BY <1>24 DEF Tamper,
          DiskInv, PlanInv, CheckInv, ArtifactInv, Late, Early, NoPlan, Plans, Progress
    <2>4. (ReasonInv /\ ArtifactInv /\ EndInv /\ DispositionIsTrue)'
      BY <1>24 DEF Tamper,
          DiskInv, PlanInv, CheckInv, ReasonInv, ArtifactInv, EndInv,
          DispositionIsTrue, ReceiptIsTrue, SanitizedFromCommitted, Late, Early, NoPlan, NoReceipt, Plans
    <2>5. QED
      BY <2>1, <2>2, <2>3, <2>4
  <1>25. ASSUME IInv, VerifySource PROVE IInv'
    <2>1. TypeOK'
      BY <1>25 DEF VerifySource, SourceVerified, SourceGone,
          Plans, NoPlan, SessionState, Holders, Progress
    <2>2. (plan \in Plans /\ receipt \in Receipts)'
      <3>1. tampered \in Nat /\ plan \in Plans
        BY <1>25
      <3>2. plan' \in Plans
        BY <1>25, <3>1 DEF VerifySource, Plans
      <3>3. QED
        BY <1>25, <3>2 DEF VerifySource
    <2>3. (DiskInv /\ PlanInv /\ CheckInv)'
      BY <1>25 DEF VerifySource, SourceVerified, SourceGone,
          DiskInv, PlanInv, CheckInv, ArtifactInv, Late, Early, NoPlan, Plans, Progress
    <2>4. (ReasonInv /\ ArtifactInv /\ EndInv /\ DispositionIsTrue)'
      BY <1>25 DEF VerifySource, SourceVerified, SourceGone,
          DiskInv, PlanInv, CheckInv, ReasonInv, ArtifactInv, EndInv,
          DispositionIsTrue, ReceiptIsTrue, SanitizedFromCommitted, Late, Early, NoPlan, NoReceipt, Plans
    <2>5. QED
      BY <2>1, <2>2, <2>3, <2>4
  <1>26. ASSUME IInv, SourceAlreadyGone PROVE IInv'
    <2>1. TypeOK'
      BY <1>26 DEF SourceAlreadyGone, SourceGone, Advance,
          Plans, NoPlan, SessionState, Holders, Progress
    <2>2. (plan \in Plans /\ receipt \in Receipts)'
      BY <1>26 DEF SourceAlreadyGone, SourceGone, Advance,
          Plans, NoPlan, Progress
    <2>3. (DiskInv /\ PlanInv /\ CheckInv)'
      BY <1>26 DEF SourceAlreadyGone, SourceGone, Advance,
          DiskInv, PlanInv, CheckInv, ArtifactInv, Late, Early, NoPlan, Plans, Progress
    <2>4. (ReasonInv /\ ArtifactInv /\ EndInv /\ DispositionIsTrue)'
      BY <1>26 DEF SourceAlreadyGone, SourceGone, Advance,
          DiskInv, PlanInv, CheckInv, ReasonInv, ArtifactInv, EndInv,
          DispositionIsTrue, ReceiptIsTrue, SanitizedFromCommitted, Late, Early, NoPlan, NoReceipt, Plans
    <2>5. QED
      BY <2>1, <2>2, <2>3, <2>4
  <1>27. ASSUME IInv, ReleaseLeaseRaced PROVE IInv'
    <2>1. TypeOK'
      <3>1. failures' \in 0..MaxFailures /\ tampered' \in 0..MaxTamper
        BY <1>27 DEF ReleaseLeaseRaced
      <3>2. QED
        BY <1>27, <3>1 DEF ReleaseLeaseRaced, Plans, Holders
    <2>2. (plan \in Plans /\ receipt \in Receipts)'
      BY <1>27 DEF ReleaseLeaseRaced,
          Plans, NoPlan, Progress
    <2>3. (DiskInv /\ PlanInv /\ CheckInv)'
      BY <1>27 DEF ReleaseLeaseRaced,
          DiskInv, PlanInv, CheckInv, ArtifactInv, Late, Early, NoPlan, Plans, Progress
    <2>4. (ReasonInv /\ ArtifactInv /\ EndInv /\ DispositionIsTrue)'
      BY <1>27 DEF ReleaseLeaseRaced,
          DiskInv, PlanInv, CheckInv, ReasonInv, ArtifactInv, EndInv,
          DispositionIsTrue, ReceiptIsTrue, SanitizedFromCommitted, Late, Early, NoPlan, NoReceipt, Plans
    <2>5. QED
      BY <2>1, <2>2, <2>3, <2>4
  <1>28. ASSUME IInv, UNCHANGED vars PROVE IInv'
    BY <1>28 DEF vars, DiskInv, PlanInv, CheckInv, ReasonInv, ArtifactInv, EndInv, DispositionIsTrue,
        ReceiptIsTrue, SanitizedFromCommitted
  <1>29. QED
    BY <1>1, <1>2, <1>3, <1>4, <1>5, <1>6, <1>7, <1>8, <1>9, <1>10, <1>11, <1>12, <1>13,
       <1>14, <1>15, <1>16, <1>17, <1>18, <1>19, <1>20, <1>21, <1>22, <1>23, <1>24, <1>25, <1>26,
       <1>27, <1>28
    DEF Next, CleanUp

-----------------------------------------------------------------------------

\* The invariant holds in every behaviour of the custodian.
LEMMA Invariant == Spec => []IInv
  BY InitIInv, StepIInv, PTL DEF Spec

\* What a plan's progress, a retained result and a receipt say is absent is absent,
\* whatever failed and however often the clean-up was resumed: the root goes only when
\* it is empty, and nothing comes back into it.  It holds also of sessions that the
\* caller moves by hand.
THEOREM Disposal == Spec => []DocumentedAbsence
  <1>1. IInv => DocumentedAbsence
    BY DEF IInv, DiskInv, ArtifactInv, EndInv, DocumentedAbsence, Gone, Late
  <1>2. QED
    BY <1>1, Invariant, PTL

\* The receipt of a disposition says what happened, and the sanitized bytes that a
\* plan retains or overwrites come from the content whose commitment it names.
THEOREM Truth == Spec => []DispositionIsTrue
  <1>1. IInv => DispositionIsTrue
    BY DEF IInv
  <1>2. QED
    BY <1>1, Invariant, PTL

\* The custodian itself removes a source only in a call that verified the content it
\* holds a commitment of, once the session can no longer collect; another content only
\* if others put it there between the verification and the removal by name.
THEOREM Removal == Spec => OnlyCommittedIsRemoved
  <1> DEFINE Removed == disk.source # "none" /\ disk'.source = "none" /\ tampered' = tampered =>
                            /\ plan.checked
                            /\ plan.source \in committed
                            /\ state \in {"sealed", "aborted", "expired"}
                            /\ disk.source = plan.source \/ tampered > plan.since
  <1>1. IInv /\ [Next]_vars => [Removed]_vars
    <2> SUFFICES ASSUME IInv, Next PROVE Removed
      OBVIOUS
    <2>1. CASE RemoveSource \/ RemoveSourceFails
      BY <2>1 DEF RemoveSource, RemoveSourceFails, IInv, PlanInv, CheckInv
    <2>2. CASE Tamper
      BY <2>2 DEF Tamper, IInv, Types, TypeOK
    <2>3. CASE disk'.source = disk.source
      BY <2>3
    <2>4. ASSUME NEW c \in Content, Stage(c) PROVE Removed
      BY <2>4 DEF Stage
    <2>5. QED
      <3> USE DEF IInv, Types, TypeOK
      <3>1. CASE CreateRoot \/ CreateRootFails \/ AcquireLease \/ DropLease
        BY <3>1 DEF CreateRoot, CreateRootFails, AcquireLease, DropLease
      <3>2. CASE PrepareRefused \/ Lose \/ ReleaseLease \/ ReleaseLeaseFails
                 \/ ReleaseLeaseRaced \/ RemoveRoot \/ RemoveRootFails
        BY <3>2 DEF PrepareRefused, Lose, ReleaseLease, ReleaseLeaseFails, ReleaseLeaseRaced,
                    RemoveRoot, RemoveRootFails
      <3>3. QED
        BY <2>1, <2>2, <2>3, <2>4, <3>1, <3>2
        DEF Next, CleanUp, Apply, Commit, Sanitize, PrepareSanitized, PrepareTerminal,
            VerifySource, SourceAlreadyGone, OverwriteArtifact, DisposeSession, BuildReceipt,
            Retain, PrepareRelease
  <1>2. QED
    BY <1>1, Invariant, PTL DEF Spec, OnlyCommittedIsRemoved

-----------------------------------------------------------------------------
(* The C9 live cycle: what its documents say of each other *)

\* The audit records of the C9 tool.
LogRecord ==
    [handoff : Handoffs, at : Nat,
     status : {"completed", "failed", "render_completed", "render_failed"}]

\* What the coordinator's process remembers.
RunRecord ==
    [handoff : Handoffs \cup {None}, lookups : Nat, terminal : BOOLEAN, call : CallStages]

CycleTypeOK ==
    /\ now \in Nat /\ run \in RunRecord
    /\ DOMAIN doc = Handoffs /\ \A h \in Handoffs : DOMAIN doc[h] = Kinds
    /\ log \in Seq(LogRecord)

\* The call was executed and has not failed since.
Executed == {"executed", "recorded", "prepared", "committed", "rendered"}

\* What the running coordinator remembers of its handoff is on file.
RunIsSound(h) ==
    run.handoff = h =>
        /\ doc[h].runtime.at \in Nat /\ doc[h].runtime.to \in Nat
        /\ run.call \in Executed => Has(h, "execution")
        /\ Has(h, "execution") => run.call # "none"
        /\ Has(h, "close") => run.terminal

\* The package was staged while the runtime was valid.
StageIsSound(h) ==
    Has(h, "stage") =>
        /\ doc[h].stage.at \in Nat /\ doc[h].stage.at <= now /\ doc[h].stage.to \in Nat
        /\ In(doc[h].stage.at, doc[h].runtime)

\* The grant lies inside the approval, the authorization and the stage, and all it
\* was issued on is of one cycle.
AdmissionIsSound(h) ==
    Has(h, "admission") =>
        LET a == doc[h].admission
            b == a.bundle
        IN  /\ Has(h, "stage") /\ doc[h].stage.at <= a.at
            /\ a.at \in Nat /\ a.at <= now
            /\ a.approval \in Nat /\ a.approval <= doc[h].stage.to
            /\ b.grant.at = a.at /\ b.grant.to \in Nat /\ b.grant.to <= a.approval
            /\ b.auth.at \in Nat /\ b.auth.to \in Nat
            /\ b.auth.at <= b.grant.at /\ b.grant.to <= b.auth.to
            /\ b.runtime = doc[h].runtime /\ In(b.grant.at, b.runtime)
            /\ {b.auth.cycle, b.surface.cycle, b.runtime.cycle} = {b.grant.cycle}
            /\ b.grant.package = h /\ b.grant.tag \in ExactTags

\* The call was executed after the grant was issued.
ExecutionIsSound(h) ==
    Has(h, "execution") =>
        /\ Has(h, "admission")
        /\ doc[h].execution.at \in Nat /\ doc[h].execution.at <= now
        /\ Grant(h).at <= doc[h].execution.at

\* The Work proof is of an admitted call, within the approval.
WorkIsSound(h) ==
    Has(h, "work") =>
        /\ Has(h, "admission") /\ Has(h, "execution")
        /\ doc[h].work.at \in Nat /\ doc[h].work.at <= now
        /\ doc[h].admission.at <= doc[h].work.at
        /\ doc[h].work.at < doc[h].admission.approval

\* The three documents of the Chat leg follow each other within the grant.
ExportIsSound(h) ==
    Has(h, "export") =>
        /\ Has(h, "work")
        /\ doc[h].export.at \in Nat /\ doc[h].export.at <= now /\ doc[h].export.to \in Nat
        /\ doc[h].work.at <= doc[h].export.at /\ doc[h].export.at < Grant(h).to

\* The claim is of the export.
ClaimIsSound(h) ==
    Has(h, "claim") =>
        /\ Has(h, "export")
        /\ doc[h].claim.at \in Nat /\ doc[h].claim.at <= now
        /\ doc[h].export.at <= doc[h].claim.at /\ doc[h].claim.at < Grant(h).to

\* The Chat confirmation is of the claim, and the export had not expired.
ChatIsSound(h) ==
    Has(h, "chat") =>
        /\ Has(h, "claim")
        /\ doc[h].chat.at \in Nat /\ doc[h].chat.at <= now
        /\ doc[h].claim.at <= doc[h].chat.at
        /\ doc[h].chat.at < Grant(h).to /\ doc[h].chat.at < doc[h].export.to

\* The close receipt tells of every document there is: none came after it.
CloseIsSound(h) ==
    Has(h, "close") =>
        /\ doc[h].close.at \in Nat /\ doc[h].close.at <= now
        /\ Has(h, "stage") => doc[h].close.staged
        /\ Has(h, "admission") => doc[h].close.admissionRemoved
        /\ Has(h, "execution") => doc[h].close.calls = 1
        /\ Has(h, "work") => doc[h].close.proofs = 1
        /\ Has(h, "chat") => doc[h].close.chatUsed

HandoffIsSound(h) ==
    /\ RunIsSound(h) /\ StageIsSound(h) /\ AdmissionIsSound(h) /\ ExecutionIsSound(h)
    /\ WorkIsSound(h) /\ ExportIsSound(h) /\ ClaimIsSound(h) /\ ChatIsSound(h)
    /\ CloseIsSound(h)

\* The record tells of the handoff's call, between its execution and the Work proof.
RecordIsOfCall(r, h) ==
    /\ r.handoff = h /\ r.status \in {"completed", "render_completed"}
    /\ doc[h].execution.at <= r.at /\ r.at <= doc[h].work.at

\* The log up to the correlation is one call and its rendering.
CorrelationInv ==
    correlation # None =>
        LET h == correlation.handoff
        IN  /\ h \in Handoffs /\ Has(h, "work")
            /\ correlation.at \in Nat /\ correlation.at <= now
            /\ doc[h].work.at <= correlation.at
            /\ correlation.records = 2 /\ 2 <= Len(log)
            /\ \A i \in 1..2 : RecordIsOfCall(log[i], h)

\* The negative receipt is of a closed handoff and repeats its grant.
NegativeInv ==
    negative # None =>
        LET h == negative.handoff
        IN  /\ h \in Handoffs /\ Has(h, "admission") /\ Has(h, "close")
            /\ negative.cycle = Grant(h).cycle /\ negative.grant = Grant(h).id
            /\ negative.at \in Nat /\ doc[h].close.at <= negative.at

\* The revocation was not written in the future.
RevocationInv == revocation # None => revocation.at \in Nat /\ revocation.at <= now

\* The attested handoff is the correlated one, and its Work proof is inside the grant.
AttestationInv ==
    final # None =>
        /\ correlation # None /\ final.handoff = correlation.handoff
        /\ doc[final.handoff].work.at < Grant(final.handoff).to

OfflineInv == CorrelationInv /\ NegativeInv /\ RevocationInv /\ AttestationInv

CycleInv == CycleTypeOK /\ (\A h \in Handoffs : HandoffIsSound(h)) /\ OfflineInv

-----------------------------------------------------------------------------
(* Facts the steps share *)

LEMMA MinOfTwo ==
    ASSUME NEW a \in Nat, NEW b \in Nat
    PROVE  Min({a, b}) \in Nat /\ Min({a, b}) <= a /\ Min({a, b}) <= b
  <1>1. \E x \in {a, b} : \A y \in {a, b} : x <= y
    OBVIOUS
  <1>2. Min({a, b}) \in {a, b} /\ \A y \in {a, b} : Min({a, b}) <= y
    BY <1>1 DEF Min
  <1>3. QED
    BY <1>2

LEMMA MinOfFour ==
    ASSUME NEW a \in Nat, NEW b \in Nat, NEW c \in Nat, NEW d \in Nat
    PROVE  LET m == Min({a, b, c, d})
           IN  m \in Nat /\ m <= a /\ m <= b /\ m <= c /\ m <= d
  <1>1. \E x \in {a, b, c, d} : \A y \in {a, b, c, d} : x <= y
    <2>1. PICK x \in {a, b} : x <= a /\ x <= b
      OBVIOUS
    <2>2. PICK z \in {c, d} : z <= c /\ z <= d
      OBVIOUS
    <2>3. x <= z \/ z <= x
      OBVIOUS
    <2>4. QED
      BY <2>1, <2>2, <2>3
  <1>2. /\ Min({a, b, c, d}) \in {a, b, c, d}
        /\ \A y \in {a, b, c, d} : Min({a, b, c, d}) <= y
    BY <1>1 DEF Min
  <1>3. QED
    BY <1>2

\* The latest of several times is the one that none exceeds.
LEMMA MaxIsLast ==
    ASSUME NEW S \in SUBSET Nat, NEW m \in S, \A x \in S : x <= m
    PROVE  Max(S) = m
  <1>1. Max(S) \in S /\ \A y \in S : Max(S) >= y
    BY DEF Max
  <1>2. Max(S) <= m /\ m <= Max(S) /\ Max(S) \in Nat /\ m \in Nat
    BY <1>1
  <1>3. QED
    BY <1>2

\* A document is put in one place, and nothing else moves.
LEMMA WriteEffect ==
    ASSUME CycleTypeOK, NEW h \in Handoffs, NEW k \in Kinds, NEW d, Writes(h, k, d)
    PROVE  /\ DOMAIN doc' = Handoffs /\ \A g \in Handoffs : DOMAIN doc'[g] = Kinds
           /\ \A g \in Handoffs \ {h} : doc'[g] = doc[g]
           /\ \A j \in Kinds \ {k} : doc'[h][j] = doc[h][j]
           /\ doc'[h][k] = d
  BY DEF CycleTypeOK, Writes

\* The coordinator may go on, or end, without a document.
LEMMA RunKept ==
    ASSUME NEW h \in Handoffs, RunIsSound(h), doc'[h] = doc[h],
           run'.handoff = h => /\ run.handoff = h
                               /\ run'.call \in Executed => run.call \in Executed
                               /\ run.call # "none" => run'.call # "none"
                               /\ run.terminal => run'.terminal
    PROVE  RunIsSound(h)'
  BY DEF RunIsSound, Has

\* A handoff whose documents stay is as sound as it was.
LEMMA HandoffKept ==
    ASSUME CycleTypeOK, NEW h \in Handoffs, HandoffIsSound(h), doc'[h] = doc[h],
           now' \in Nat, now <= now', RunIsSound(h)'
    PROVE  HandoffIsSound(h)'
  <1>1. StageIsSound(h)'
    BY DEF CycleTypeOK, HandoffIsSound, StageIsSound, Has, In
  <1>2. AdmissionIsSound(h)'
    <2>1. \A t : t \in Nat /\ t <= now => t <= now'
      BY DEF CycleTypeOK
    <2>2. QED
      BY <2>1 DEF HandoffIsSound, AdmissionIsSound, Has, In
  <1>3. ExecutionIsSound(h)' /\ WorkIsSound(h)'
    BY DEF CycleTypeOK, HandoffIsSound, ExecutionIsSound, WorkIsSound, Has, Grant
  <1>4. ExportIsSound(h)' /\ ClaimIsSound(h)' /\ ChatIsSound(h)'
    BY DEF CycleTypeOK, HandoffIsSound, ExportIsSound, ClaimIsSound, ChatIsSound, Has, Grant
  <1>5. CloseIsSound(h)'
    BY DEF CycleTypeOK, HandoffIsSound, CloseIsSound, Has
  <1>6. QED
    BY <1>1, <1>2, <1>3, <1>5, <1>4 DEF HandoffIsSound

\* No step rewrites a document, or a record of the log, or turns back the clock.
KeepsRecords ==
    /\ now' \in Nat /\ now <= now'
    /\ \A h \in Handoffs, k \in Kinds : Has(h, k) => doc'[h][k] = doc[h][k]
    /\ Len(log) <= Len(log')
    /\ \A i \in 1..Len(log) : log'[i] = log[i]

\* So what the receipts say of them remains true.
LEMMA CorrelationKept ==
    ASSUME CycleInv, CycleTypeOK', KeepsRecords, correlation' = correlation
    PROVE  CorrelationInv'
  <1> SUFFICES ASSUME correlation # None  PROVE CorrelationInv'
    BY DEF CorrelationInv
  <1> DEFINE h == correlation.handoff
  <1>1. /\ h \in Handoffs /\ Has(h, "work")
        /\ correlation.at \in Nat /\ correlation.at <= now
        /\ doc[h].work.at <= correlation.at
        /\ correlation.records = 2 /\ 2 <= Len(log)
        /\ \A i \in 1..2 : RecordIsOfCall(log[i], h)
    BY DEF CycleInv, OfflineInv, CorrelationInv
  <1>2. Has(h, "execution")
    BY <1>1 DEF CycleInv, HandoffIsSound, WorkIsSound
  <1>3. /\ doc'[h].work = doc[h].work /\ Has(h, "work")'
        /\ doc'[h].execution = doc[h].execution
    BY <1>1, <1>2 DEF KeepsRecords, Kinds, Has
  <1>4. Len(log) \in Nat /\ Len(log') \in Nat /\ now \in Nat
    BY DEF CycleInv, CycleTypeOK
  <1>5. 2 <= Len(log') /\ \A i \in 1..2 : log'[i] = log[i]
    BY <1>1, <1>4 DEF KeepsRecords
  <1>6. correlation.at <= now'
    BY <1>1, <1>4 DEF KeepsRecords
  <1>7. \A i \in 1..2 : RecordIsOfCall(log[i], h)'
    BY <1>1, <1>3, <1>5 DEF RecordIsOfCall
  <1>8. QED
    BY <1>1, <1>3, <1>5, <1>6, <1>7 DEF CorrelationInv

LEMMA AttestationKept ==
    ASSUME CycleInv, KeepsRecords, UNCHANGED <<correlation, final>>
    PROVE  AttestationInv'
  <1> SUFFICES ASSUME final # None  PROVE AttestationInv'
    BY DEF AttestationInv
  <1> DEFINE h == final.handoff
  <1>1. correlation # None /\ h = correlation.handoff /\ doc[h].work.at < Grant(h).to
    BY DEF CycleInv, OfflineInv, AttestationInv
  <1>2. h \in Handoffs /\ Has(h, "work")
    BY <1>1 DEF CycleInv, OfflineInv, CorrelationInv
  <1>3. Has(h, "admission")
    BY <1>2 DEF CycleInv, HandoffIsSound, WorkIsSound
  <1>4. doc'[h].work = doc[h].work /\ doc'[h].admission = doc[h].admission
    BY <1>2, <1>3 DEF KeepsRecords, Kinds
  <1>5. QED
    BY <1>1, <1>4 DEF AttestationInv, Grant

LEMMA ReceiptsKept ==
    ASSUME CycleInv, KeepsRecords
    PROVE  /\ negative' = negative => NegativeInv'
           /\ revocation' = revocation => RevocationInv'
  <1>1. ASSUME negative' = negative, negative # None
        PROVE  NegativeInv'
    <2> DEFINE h == negative.handoff
    <2>1. /\ h \in Handoffs /\ Has(h, "admission") /\ Has(h, "close")
          /\ negative.cycle = Grant(h).cycle /\ negative.grant = Grant(h).id
          /\ negative.at \in Nat /\ doc[h].close.at <= negative.at
      BY <1>1 DEF CycleInv, OfflineInv, NegativeInv
    <2>2. doc'[h].admission = doc[h].admission /\ doc'[h].close = doc[h].close
      BY <2>1 DEF KeepsRecords, Kinds
    <2>3. QED
      BY <1>1, <2>1, <2>2 DEF NegativeInv, Has, Grant
  <1>2. negative' = negative => NegativeInv'
    BY <1>1 DEF NegativeInv
  <1>3. revocation' = revocation => RevocationInv'
    BY DEF CycleInv, OfflineInv, RevocationInv, KeepsRecords, CycleTypeOK
  <1>4. QED
    BY <1>2, <1>3

\* A step of the coordinator keeps the offline part of the invariant.
LEMMA OfflineKept ==
    ASSUME CycleInv, CycleTypeOK', KeepsRecords, UNCHANGED offline
    PROVE  OfflineInv'
  <1>1. CorrelationInv' /\ NegativeInv' /\ RevocationInv'
    BY CorrelationKept, ReceiptsKept DEF offline
  <1>2. AttestationInv'
    BY AttestationKept DEF offline
  <1>3. QED
    BY <1>1, <1>2 DEF OfflineInv

\* One step of the coordinator on its handoff.
LEMMA CoordinatorStep ==
    ASSUME CycleInv, CycleTypeOK', NEW h \in Handoffs, now' = now, UNCHANGED offline,
           run'.handoff = h,
           \A g \in Handoffs \ {h} : doc'[g] = doc[g],
           \A k \in Kinds : Has(h, k) => doc'[h][k] = doc[h][k],
           HandoffIsSound(h)',
           log' = log \/ \E r \in LogRecord : log' = Append(log, r)
    PROVE  CycleInv'
  <1>1. now \in Nat /\ log \in Seq(LogRecord)
    BY DEF CycleInv, CycleTypeOK
  <1>2. /\ Len(log) <= Len(log')
        /\ \A i \in 1..Len(log) : log'[i] = log[i]
    BY <1>1
  <1>3. KeepsRecords
    <2>1. ASSUME NEW g \in Handoffs, NEW k \in Kinds, Has(g, k)
          PROVE  doc'[g][k] = doc[g][k]
      BY <2>1
    <2>2. QED
      BY <1>1, <1>2, <2>1 DEF KeepsRecords
  <1>4. OfflineInv'
    BY <1>3, OfflineKept
  <1>5. ASSUME NEW g \in Handoffs
        PROVE  HandoffIsSound(g)'
    <2>1. CASE g = h
      BY <2>1
    <2>2. CASE g # h
      <3>1. RunIsSound(g)'
        BY <2>2 DEF RunIsSound
      <3>2. HandoffIsSound(g) /\ doc'[g] = doc[g] /\ now' \in Nat /\ now <= now' /\ CycleTypeOK
        BY <2>2, <1>1 DEF CycleInv
      <3>3. QED
        BY <3>1, <3>2, HandoffKept
    <2>3. QED
      BY <2>1, <2>2
  <1>6. QED
    BY <1>4, <1>5 DEF CycleInv

\* A document that was not there is written, and the log may grow.
LEMMA WritingStep ==
    ASSUME CycleInv, CycleTypeOK', NEW h \in Handoffs, NEW k \in Kinds, NEW d,
           Writes(h, k, d), ~Has(h, k), now' = now, UNCHANGED offline, run'.handoff = h,
           HandoffIsSound(h)',
           log' = log \/ \E r \in LogRecord : log' = Append(log, r)
    PROVE  CycleInv'
  <1>1. CycleTypeOK
    BY DEF CycleInv
  <1>2. /\ \A g \in Handoffs \ {h} : doc'[g] = doc[g]
        /\ \A j \in Kinds \ {k} : doc'[h][j] = doc[h][j]
    BY <1>1, WriteEffect
  <1>3. \A j \in Kinds : Has(h, j) => doc'[h][j] = doc[h][j]
    BY <1>2
  <1>4. QED
    BY <1>2, <1>3, CoordinatorStep

\* The coordinator changes what it remembers, and the log may grow.
LEMMA RememberingStep ==
    ASSUME CycleInv, CycleTypeOK', NEW h \in Handoffs, UNCHANGED <<now, doc, offline>>,
           run.handoff = h, run'.handoff = h,
           run'.call \in Executed => run.call \in Executed,
           run.call # "none" => run'.call # "none", run.terminal => run'.terminal,
           log' = log \/ \E r \in LogRecord : log' = Append(log, r)
    PROVE  CycleInv'
  <1>1. CycleTypeOK /\ HandoffIsSound(h) /\ now \in Nat
    BY DEF CycleInv, CycleTypeOK
  <1>2. RunIsSound(h)'
    BY <1>1, RunKept DEF HandoffIsSound
  <1>3. HandoffIsSound(h)'
    BY <1>1, <1>2, HandoffKept
  <1>4. QED
    BY <1>3, CoordinatorStep

\* The typing of a written document and of a changed run.
LEMMA TypeKept ==
    ASSUME CycleTypeOK, now' = now, run' \in RunRecord,
           doc' = doc \/ \E h \in Handoffs, k \in Kinds : \E d : Writes(h, k, d),
           log' = log \/ \E r \in LogRecord : log' = Append(log, r)
    PROVE  CycleTypeOK'
  <1>1. DOMAIN doc' = Handoffs /\ \A h \in Handoffs : DOMAIN doc'[h] = Kinds
    BY WriteEffect DEF CycleTypeOK
  <1>2. log' \in Seq(LogRecord)
    BY DEF CycleTypeOK
  <1>3. QED
    BY <1>1, <1>2 DEF CycleTypeOK

-----------------------------------------------------------------------------
(* The steps of the C9 live cycle *)

LEMMA CycleInitHolds == CycleInit => CycleInv
  <1> SUFFICES ASSUME CycleInit PROVE CycleInv
    OBVIOUS
  <1>1. CycleTypeOK
    BY DEF CycleInit, CycleTypeOK, RunRecord, CallStages, NoRun
  <1>2. \A h \in Handoffs, k \in Kinds : ~Has(h, k)
    BY DEF CycleInit, Has
  <1>3. ASSUME NEW h \in Handoffs
        PROVE  HandoffIsSound(h)
    <2>1. \A k \in Kinds : ~Has(h, k)
      BY <1>2
    <2>2. run.handoff # h
      BY C9Assumption DEF CycleInit, NoRun
    <2>3. QED
      BY <2>1, <2>2 DEF HandoffIsSound, RunIsSound, StageIsSound, AdmissionIsSound,
         ExecutionIsSound, WorkIsSound, ExportIsSound, ClaimIsSound, ChatIsSound, CloseIsSound, Kinds
  <1>4. OfflineInv
    BY DEF CycleInit, OfflineInv, CorrelationInv, NegativeInv, RevocationInv,
       AttestationInv
  <1>5. QED
    BY <1>1, <1>3, <1>4 DEF CycleInv

\* The coordinator starts on a handoff without documents.
LEMMA StartCoordinatorStep ==
    ASSUME CycleInv, NEW h \in Handoffs, NEW c \in Cycles, StartCoordinator(h, c)
    PROVE  CycleInv'
  <1> DEFINE d == [cycle |-> c, at |-> now, to |-> now + RuntimeTtl]
  <1>1. CycleTypeOK /\ now \in Nat /\ RuntimeTtl \in Nat /\ "runtime" \in Kinds
    BY C9Assumption DEF CycleInv, CycleTypeOK, Kinds
  <1>2. /\ Writes(h, "runtime", d) /\ \A k \in Kinds : ~Has(h, k)
        /\ run = NoRun /\ run' = [run EXCEPT !.handoff = h]
        /\ UNCHANGED <<now, log, offline>>
    BY DEF StartCoordinator, RuntimeObservation
  <1>3. run' = [NoRun EXCEPT !.handoff = h]
    BY <1>2
  <1>4. CycleTypeOK'
    <2>1. run' \in RunRecord
      BY <1>3 DEF NoRun, RunRecord, CallStages
    <2>2. \E g \in Handoffs, k \in Kinds : \E e : Writes(g, k, e)
      BY <1>1, <1>2
    <2>3. QED
      BY <1>1, <1>2, <2>1, <2>2, TypeKept
  <1>5. /\ \A j \in Kinds \ {"runtime"} : ~Has(h, j)'
        /\ doc'[h].runtime.at \in Nat /\ doc'[h].runtime.to \in Nat
    <2>1. doc'[h]["runtime"] = d /\ \A j \in Kinds \ {"runtime"} : doc'[h][j] = doc[h][j]
      BY <1>1, <1>2, WriteEffect
    <2>2. QED
      BY <1>1, <1>2, <2>1 DEF Has
  <1>6. HandoffIsSound(h)'
    <2>1. RunIsSound(h)'
      BY <1>3, <1>5 DEF RunIsSound, Executed, Kinds, NoRun
    <2>2. QED
      BY <1>5, <2>1 DEF HandoffIsSound, StageIsSound, AdmissionIsSound, ExecutionIsSound,
         WorkIsSound, ExportIsSound, ClaimIsSound, ChatIsSound, CloseIsSound, Kinds
  <1>7. run'.handoff = h
    BY <1>3 DEF NoRun
  <1>8. QED
    BY <1>1, <1>2, <1>4, <1>6, <1>7, WritingStep

\* A later document of a live handoff: what comes before it stays as it is.
LEMMA LaterWrite ==
    ASSUME CycleInv, NEW h \in Handoffs, NEW k \in Kinds \ {"runtime"}, NEW d,
           run.handoff = h, run' = run, ~run.terminal, UNCHANGED <<now, log, offline>>,
           Writes(h, k, d), ~Has(h, k),
           /\ k = "stage" => StageIsSound(h)'
           /\ k = "admission" => AdmissionIsSound(h)'
           /\ k = "work" => WorkIsSound(h)'
           /\ k = "export" => ExportIsSound(h)'
           /\ k = "claim" => ClaimIsSound(h)'
           /\ k = "chat" => ChatIsSound(h)',
           k \notin {"execution", "close"}
    PROVE  CycleInv'
  <1>1. CycleTypeOK /\ HandoffIsSound(h) /\ now \in Nat
    BY DEF CycleInv, CycleTypeOK
  <1>2. CycleTypeOK'
    BY <1>1, TypeKept DEF CycleTypeOK
  <1>3. \A j \in Kinds \ {k} : doc'[h][j] = doc[h][j]
    BY <1>1, WriteEffect
  <1>4. ~Has(h, "close") /\ ~Has(h, "close")'
    BY <1>1, <1>3 DEF HandoffIsSound, RunIsSound, Kinds, Has
  <1>5. RunIsSound(h)'
    <2>1. doc'[h].runtime = doc[h].runtime
      BY <1>3 DEF Kinds
    <2>2. Has(h, "execution") <=> Has(h, "execution")'
      BY <1>3 DEF Kinds, Has
    <2>3. QED
      BY <1>1, <1>4, <2>1, <2>2 DEF HandoffIsSound, RunIsSound
  <1>6. StageIsSound(h)'
    BY <1>1, <1>3 DEF HandoffIsSound, StageIsSound, Kinds, Has, In
  <1>7. AdmissionIsSound(h)'
    BY <1>1, <1>3 DEF HandoffIsSound, AdmissionIsSound, Kinds, Has, In
  <1>8. ExecutionIsSound(h)'
    BY <1>1, <1>3 DEF HandoffIsSound, ExecutionIsSound, Kinds, Has, Grant
  <1>9. WorkIsSound(h)'
    BY <1>1, <1>3 DEF HandoffIsSound, WorkIsSound, Kinds, Has
  <1>10. ExportIsSound(h)'
    BY <1>1, <1>3 DEF HandoffIsSound, ExportIsSound, WorkIsSound, Kinds, Has, Grant
  <1>11. ClaimIsSound(h)'
    BY <1>1, <1>3 DEF HandoffIsSound, ExportIsSound, ClaimIsSound, WorkIsSound, Kinds, Has, Grant
  <1>12. ChatIsSound(h)'
    BY <1>1, <1>3 DEF HandoffIsSound, ExportIsSound, ClaimIsSound, WorkIsSound, ChatIsSound,
                      Kinds, Has, Grant
  <1>13. CloseIsSound(h)'
    BY <1>4 DEF CloseIsSound
  <1>14. HandoffIsSound(h)'
    BY <1>5, <1>6, <1>7, <1>9, <1>10, <1>11, <1>12, <1>13, <1>8 DEF HandoffIsSound
  <1>15. QED
    BY <1>2, <1>14, WritingStep

\* stage
LEMMA StageHandoffStep ==
    ASSUME CycleInv, NEW h \in Handoffs, StageHandoff(h)
    PROVE  CycleInv'
  <1>1. /\ run.handoff = h /\ ~run.terminal /\ ~Has(h, "stage")
        /\ In(now, doc[h].runtime)
        /\ Writes(h, "stage", StageReceipt)
        /\ run' = run /\ UNCHANGED <<now, log, offline>>
    BY DEF StageHandoff
  <1>2. now \in Nat /\ StageTtl \in Nat /\ CycleTypeOK
    BY C9Assumption DEF CycleInv, CycleTypeOK
  <1>3. doc'[h].stage = StageReceipt /\ doc'[h].runtime = doc[h].runtime
    BY <1>1, <1>2, WriteEffect DEF Kinds
  <1>4. StageIsSound(h)'
    BY <1>1, <1>2, <1>3 DEF StageIsSound, StageReceipt, In
  <1>5. "stage" \in Kinds \ {"runtime"}
    BY DEF Kinds
  <1>6. QED
    BY <1>1, <1>4, <1>5, LaterWrite

\* evaluate_c9_admission is ready only for a bound bundle.
LEMMA ReadyMeansBound ==
    ASSUME NEW b, NEW t, Admission(b, t) = "ready"
    PROVE  BundleBound(b)
  BY DEF Admission

\* approve_handoff: the checks it makes are what makes the grant sound.
LEMMA ApproveHandoffStep ==
    ASSUME CycleInv, NEW h \in Handoffs, NEW g \in Grants, ApproveHandoff(h, g)
    PROVE  CycleInv'
  <1> DEFINE auth == Authorization(h)
             approval == Min({now + ApprovalTtl, doc[h].stage.to})
             expiry == GrantExpiry(h, approval)
             bundle == Bundle(h, g, expiry)
  <1>1. /\ run.handoff = h /\ ~run.terminal
        /\ Has(h, "stage") /\ ~Has(h, "admission")
        /\ In(now, doc[h].runtime)
        /\ Dependency = "verified"
        /\ Admission(bundle, now) = "ready"
        /\ Writes(h, "admission", HandoffAdmission(h, bundle, approval))
        /\ run' = run /\ UNCHANGED <<now, log, offline>>
    BY DEF ApproveHandoff
  <1>2. /\ now \in Nat /\ ApprovalTtl \in Nat /\ MaxLive \in Nat
        /\ auth.at = now /\ auth.to \in Nat /\ CycleTypeOK
    BY C9Assumption DEF CycleInv, CycleTypeOK, Authorization
  <1>3. /\ doc[h].stage.at \in Nat /\ doc[h].stage.at <= now /\ doc[h].stage.to \in Nat
        /\ doc[h].runtime.to \in Nat
    BY <1>1 DEF CycleInv, HandoffIsSound, StageIsSound, RunIsSound
  <1>4. approval \in Nat /\ approval <= doc[h].stage.to
    <2>1. now + ApprovalTtl \in Nat
      BY <1>2
    <2>2. QED
      BY <1>3, <2>1, MinOfTwo
  <1>5. expiry \in Nat /\ expiry <= approval /\ expiry <= auth.to
    <2> HIDE DEF approval
    <2>0. expiry = Min({now + MaxLive, approval, auth.to, doc[h].runtime.to})
      BY DEF GrantExpiry
    <2> HIDE DEF auth, expiry
    <2>1. now + MaxLive \in Nat
      BY <1>2
    <2>2. QED
      BY <1>2, <1>3, <1>4, <2>0, <2>1, MinOfFour
  <1>6. /\ doc'[h].admission = HandoffAdmission(h, bundle, approval)
        /\ doc'[h].stage = doc[h].stage /\ doc'[h].runtime = doc[h].runtime
    <2> HIDE DEF bundle, approval
    <2>1. QED
      BY <1>1, <1>2, WriteEffect DEF Kinds
  <1>7. BundleBound(bundle)
    BY <1>1, ReadyMeansBound
  <1>8. tag \in ExactTags
    BY <1>1 DEF Dependency
  <1>9. AdmissionIsSound(h)'
    <2> HIDE DEF expiry, approval
    <2>1. /\ bundle.auth = auth /\ bundle.runtime = doc[h].runtime
          /\ bundle.grant.package = h
          /\ bundle.grant.tag = tag /\ bundle.grant.at = now /\ bundle.grant.to = expiry
      BY DEF Bundle, NewGrant
    <2>2. {bundle.auth.cycle, bundle.surface.cycle, bundle.runtime.cycle} = {bundle.grant.cycle}
      BY <1>7 DEF BundleBound
    <2> HIDE DEF bundle, auth
    <2>3. /\ doc'[h].admission.bundle = bundle /\ doc'[h].admission.at = now
          /\ doc'[h].admission.approval = approval
      BY <1>6 DEF HandoffAdmission
    <2>4. now <= now' /\ auth.at <= now /\ auth.at \in Nat
      BY <1>1, <1>2
    <2>5. /\ Has(h, "stage")' /\ doc'[h].stage.at <= now /\ now <= now'
          /\ approval <= doc'[h].stage.to
      BY <1>1, <1>3, <1>4, <1>6, <2>4 DEF Has
    <2>6. bundle.runtime = doc'[h].runtime /\ In(bundle.grant.at, bundle.runtime)
      BY <1>1, <1>6, <2>1
    <2>7. QED
      BY <1>1, <1>2, <1>4, <1>5, <1>8, <2>1, <2>2, <2>3, <2>4, <2>5, <2>6
         DEF AdmissionIsSound, In
  <1>10. "admission" \in Kinds \ {"runtime"}
    BY DEF Kinds
  <1>11. QED
    <2> HIDE DEF bundle, approval
    <2>1. QED
      BY <1>1, <1>9, <1>10, LaterWrite

\* confirm_rich_surface
LEMMA ConfirmWorkStep ==
    ASSUME CycleInv, NEW h \in Handoffs, ConfirmWork(h)
    PROVE  CycleInv'
  <1>1. /\ run.handoff = h /\ ~run.terminal /\ Has(h, "admission")
        /\ run.call \in {"committed", "rendered"} /\ ~Has(h, "work") /\ now < doc[h].admission.approval
        /\ Writes(h, "work", WorkReceipt)
        /\ run' = run /\ UNCHANGED <<now, log, offline>>
    BY DEF ConfirmWork, Live
  <1>2. now \in Nat /\ CycleTypeOK /\ HandoffIsSound(h)
    BY DEF CycleInv, CycleTypeOK
  <1>3. /\ doc'[h].work = WorkReceipt
        /\ doc'[h].admission = doc[h].admission /\ doc'[h].execution = doc[h].execution
    BY <1>1, <1>2, WriteEffect DEF Kinds
  <1>4. Has(h, "execution") /\ doc[h].admission.at <= now
    BY <1>1, <1>2 DEF HandoffIsSound, RunIsSound, AdmissionIsSound, Executed
  <1>5. WorkIsSound(h)'
    BY <1>1, <1>2, <1>3, <1>4 DEF WorkIsSound, WorkReceipt, Has
  <1>6. "work" \in Kinds \ {"runtime"}
    BY DEF Kinds
  <1>7. QED
    BY <1>1, <1>5, <1>6, LaterWrite

\* prepare_chat
LEMMA PrepareChatStep ==
    ASSUME CycleInv, NEW h \in Handoffs, PrepareChat(h)
    PROVE  CycleInv'
  <1>1. /\ run.handoff = h /\ ~run.terminal /\ Has(h, "work") /\ ~Has(h, "export")
        /\ now < Grant(h).to
        /\ Writes(h, "export", ChatExport)
        /\ run' = run /\ UNCHANGED <<now, log, offline>>
    BY DEF PrepareChat, Live
  <1>2. now \in Nat /\ ExportTtl \in Nat /\ CycleTypeOK /\ HandoffIsSound(h)
    BY C9Assumption DEF CycleInv, CycleTypeOK
  <1>3. /\ doc'[h].export = ChatExport
        /\ doc'[h].admission = doc[h].admission /\ doc'[h].work = doc[h].work
    BY <1>1, <1>2, WriteEffect DEF Kinds
  <1>4. doc[h].work.at <= now
    BY <1>1, <1>2 DEF HandoffIsSound, WorkIsSound
  <1>5. ExportIsSound(h)'
    BY <1>1, <1>2, <1>3, <1>4 DEF ExportIsSound, ChatExport, Has, Grant
  <1>6. "export" \in Kinds \ {"runtime"}
    BY DEF Kinds
  <1>7. QED
    BY <1>1, <1>5, <1>6, LaterWrite

\* The deadline of the Chat leg is within the grant and the export.
LEMMA DeadlineFits ==
    ASSUME CycleInv, NEW h \in Handoffs, Has(h, "export"), now < ChatDeadline(h)
    PROVE  now < Grant(h).to /\ now < doc[h].export.to
  <1>1. HandoffIsSound(h) /\ now \in Nat
    BY DEF CycleInv, CycleTypeOK
  <1>2. Has(h, "work") /\ doc[h].export.to \in Nat
    BY <1>1 DEF HandoffIsSound, ExportIsSound
  <1>3. Has(h, "admission")
    BY <1>1, <1>2 DEF HandoffIsSound, WorkIsSound
  <1>4. Has(h, "stage") /\ Grant(h).to \in Nat /\ doc[h].admission.approval \in Nat
    BY <1>1, <1>3 DEF HandoffIsSound, AdmissionIsSound, Grant
  <1>5. doc[h].stage.to \in Nat
    BY <1>1, <1>4 DEF HandoffIsSound, StageIsSound
  <1>6. ChatDeadline(h) \in Nat /\ ChatDeadline(h) <= doc[h].export.to
                                /\ ChatDeadline(h) <= Grant(h).to
    BY <1>2, <1>4, <1>5, MinOfFour DEF ChatDeadline
  <1>7. QED
    BY <1>1, <1>2, <1>4, <1>6

\* claim_chat
LEMMA ClaimChatStep ==
    ASSUME CycleInv, NEW h \in Handoffs, ClaimChat(h)
    PROVE  CycleInv'
  <1>1. /\ run.handoff = h /\ ~run.terminal /\ Has(h, "export") /\ ~Has(h, "claim")
        /\ now < ChatDeadline(h)
        /\ Writes(h, "claim", PickerClaim)
        /\ run' = run /\ UNCHANGED <<now, log, offline>>
    BY DEF ClaimChat, Live
  <1>2. now \in Nat /\ CycleTypeOK /\ HandoffIsSound(h) /\ now < Grant(h).to
    BY <1>1, DeadlineFits DEF CycleInv, CycleTypeOK
  <1>3. /\ doc'[h].claim = PickerClaim
        /\ doc'[h].admission = doc[h].admission /\ doc'[h].export = doc[h].export
    BY <1>1, <1>2, WriteEffect DEF Kinds
  <1>4. doc[h].export.at <= now
    BY <1>1, <1>2 DEF HandoffIsSound, ExportIsSound
  <1>5. ClaimIsSound(h)'
    BY <1>1, <1>2, <1>3, <1>4 DEF ClaimIsSound, PickerClaim, Has, Grant
  <1>6. "claim" \in Kinds \ {"runtime"}
    BY DEF Kinds
  <1>7. QED
    BY <1>1, <1>5, <1>6, LaterWrite

\* confirm_chat
LEMMA ConfirmChatStep ==
    ASSUME CycleInv, NEW h \in Handoffs, ConfirmChat(h)
    PROVE  CycleInv'
  <1>1. /\ run.handoff = h /\ ~run.terminal /\ Has(h, "claim") /\ ~Has(h, "chat")
        /\ now < ChatDeadline(h)
        /\ Writes(h, "chat", ChatConfirmation)
        /\ run' = run /\ UNCHANGED <<now, log, offline>>
    BY DEF ConfirmChat, Live
  <1>2. now \in Nat /\ CycleTypeOK /\ HandoffIsSound(h)
    BY DEF CycleInv, CycleTypeOK
  <1>3. /\ doc'[h].chat = ChatConfirmation /\ doc'[h].claim = doc[h].claim
        /\ doc'[h].admission = doc[h].admission /\ doc'[h].export = doc[h].export
    BY <1>1, <1>2, WriteEffect DEF Kinds
  <1>4. doc[h].claim.at <= now /\ Has(h, "export")
    BY <1>1, <1>2 DEF HandoffIsSound, ClaimIsSound
  <1>5. now < Grant(h).to /\ now < doc[h].export.to
    BY <1>1, <1>4, DeadlineFits
  <1>6. ChatIsSound(h)'
    BY <1>1, <1>2, <1>3, <1>4, <1>5 DEF ChatIsSound, ChatConfirmation, Has, Grant
  <1>7. "chat" \in Kinds \ {"runtime"}
    BY DEF Kinds
  <1>8. QED
    BY <1>1, <1>6, <1>7, LaterWrite

\* A record that the coordinator appends for its handoff, at the time it does so.
LEMMA AppendEffect ==
    ASSUME CycleInv, NEW h \in Handoffs,
           NEW s \in {"completed", "failed", "render_completed", "render_failed"},
           Appends(h, s)
    PROVE  \E r \in LogRecord : /\ log' = Append(log, r)
                                /\ r.handoff = h /\ r.status = s /\ r.at = now
  BY DEF Appends, LogRecord, CycleInv, CycleTypeOK

\* A step that changes what the coordinator remembers of its calls, and may append a
\* record, is a step that keeps the invariant.
LEMMA CallStep ==
    ASSUME CycleInv, NEW h \in Handoffs, run.handoff = h, UNCHANGED <<now, doc, offline>>,
           NEW n \in Nat, NEW e \in BOOLEAN, NEW c \in CallStages,
           run' = [run EXCEPT !.lookups = n, !.terminal = e, !.call = c],
           c \in Executed => run.call \in Executed,
           run.call # "none" => c # "none", run.terminal => e,
           \/ log' = log
           \/ \E s \in {"completed", "failed", "render_completed", "render_failed"} : Appends(h, s)
    PROVE  CycleInv'
  <1>1. CycleTypeOK
    BY DEF CycleInv
  <1>2. run \in RunRecord
    BY <1>1 DEF CycleTypeOK
  <1>3. /\ run' \in RunRecord /\ run'.handoff = h
        /\ run'.terminal = e /\ run'.call = c
    BY <1>2 DEF RunRecord
  <1>4. log' = log \/ \E r \in LogRecord : log' = Append(log, r)
    BY AppendEffect
  <1>5. CycleTypeOK'
    BY <1>1, <1>3, <1>4, TypeKept
  <1>6. QED
    BY <1>3, <1>4, <1>5, RememberingStep

\* What the coordinator remembers is a record of its fields.
LEMMA RunTyped ==
    ASSUME CycleInv
    PROVE  /\ run \in RunRecord
           /\ run.lookups \in Nat /\ run.lookups + 1 \in Nat
           /\ run.lookups > 0 => run.lookups - 1 \in Nat
           /\ run.terminal \in BOOLEAN /\ run.call \in CallStages
  <1>1. /\ run \in RunRecord /\ run.lookups \in Nat
        /\ run.terminal \in BOOLEAN /\ run.call \in CallStages
    BY DEF CycleInv, CycleTypeOK, RunRecord
  <1>2. QED
    BY <1>1

\* An approval, a confirmation or an export fails, or a close does.
LEMMA FailingStep ==
    ASSUME CycleInv, NEW h \in Handoffs, HandoffFails(h) \/ CloseFails(h)
    PROVE  CycleInv'
  <1>1. /\ run.handoff = h /\ run' = [run EXCEPT !.terminal = TRUE]
        /\ UNCHANGED <<now, doc, log, offline>>
    BY DEF HandoffFails, CloseFails
  <1>2. run' = [run EXCEPT !.lookups = run.lookups, !.terminal = TRUE, !.call = run.call]
    BY <1>1, RunTyped DEF RunRecord
  <1>3. QED
    BY <1>1, <1>2, RunTyped, CallStep

\* The registry finds the tool.
LEMMA LookUpStep ==
    ASSUME CycleInv, NEW h \in Handoffs, LookUp(h)
    PROVE  CycleInv'
  <1>1. /\ run.handoff = h /\ run' = [run EXCEPT !.lookups = @ + 1]
        /\ UNCHANGED <<now, doc, log, offline>>
    BY DEF LookUp, ToolEnabled, Live
  <1>2. run' = [run EXCEPT !.lookups = run.lookups + 1, !.terminal = run.terminal,
                           !.call = run.call]
    BY <1>1, RunTyped DEF RunRecord
  <1>3. QED
    BY <1>1, <1>2, RunTyped, CallStep

\* The call that executes.
LEMMA ExecuteStep ==
    ASSUME CycleInv, NEW h \in Handoffs, Execute(h)
    PROVE  CycleInv'
  <1>1. /\ run.handoff = h /\ ~run.terminal /\ Has(h, "admission")
        /\ run.call = "none" /\ In(now, Grant(h)) /\ run.lookups > 0
        /\ run' = [run EXCEPT !.lookups = @ - 1, !.call = "executed"]
        /\ Writes(h, "execution", Execution)
        /\ UNCHANGED <<now, log, offline>>
    BY DEF Execute, ToolEnabled, Live
  <1>2. now \in Nat /\ CycleTypeOK /\ HandoffIsSound(h) /\ "execution" \in Kinds
    BY DEF CycleInv, CycleTypeOK, Kinds
  <1>3. run' \in RunRecord /\ run'.handoff = h /\ run'.call = "executed"
    BY <1>1, RunTyped DEF RunRecord, CallStages
  <1>4. CycleTypeOK'
    <2>1. \E g \in Handoffs, k \in Kinds : \E e : Writes(g, k, e)
      BY <1>1, <1>2
    <2>2. QED
      BY <1>1, <1>2, <1>3, <2>1, TypeKept
  <1>5. ~Has(h, "execution") /\ ~Has(h, "close")
    BY <1>1, <1>2 DEF HandoffIsSound, RunIsSound
  <1>6. doc'[h].execution = Execution /\ \A j \in Kinds \ {"execution"} : doc'[h][j] = doc[h][j]
    BY <1>1, <1>2, WriteEffect
  <1>7. Has(h, "execution")' /\ ~Has(h, "close")'
    BY <1>2, <1>5, <1>6, C9Assumption DEF Has, Execution, Kinds
  <1>8. RunIsSound(h)' /\ CloseIsSound(h)'
    <2>1. doc'[h].runtime = doc[h].runtime
      BY <1>6 DEF Kinds
    <2>2. QED
      BY <1>1, <1>2, <1>3, <1>7, <2>1 DEF HandoffIsSound, RunIsSound, CloseIsSound
  <1>9. StageIsSound(h)' /\ AdmissionIsSound(h)'
    BY <1>1, <1>2, <1>6 DEF HandoffIsSound, StageIsSound, AdmissionIsSound, Kinds, Has, In
  <1>10. ExecutionIsSound(h)'
    <2>1. doc'[h].admission = doc[h].admission /\ doc'[h].execution.at = now
      BY <1>6 DEF Kinds, Execution
    <2>2. QED
      BY <1>1, <1>2, <2>1 DEF ExecutionIsSound, Has, Grant, In
  <1>11. WorkIsSound(h)' /\ ExportIsSound(h)' /\ ClaimIsSound(h)' /\ ChatIsSound(h)'
    BY <1>1, <1>2, <1>6, <1>7 DEF HandoffIsSound, WorkIsSound, ExportIsSound, ClaimIsSound,
       ChatIsSound, Kinds, Has, Grant
  <1>12. HandoffIsSound(h)'
    BY <1>8, <1>9, <1>10, <1>11 DEF HandoffIsSound
  <1>13. QED
    BY <1>1, <1>2, <1>3, <1>4, <1>5, <1>12, WritingStep

\* A refused or failing call leaves a record.
LEMMA ExecuteFailsStep ==
    ASSUME CycleInv, NEW h \in Handoffs, ExecuteFails(h)
    PROVE  CycleInv'
  <1>1. /\ run.handoff = h /\ run.lookups > 0
        /\ Appends(h, "failed") /\ UNCHANGED <<now, doc, offline>>
    BY DEF ExecuteFails
  <1>2. CASE run' = [run EXCEPT !.lookups = @ - 1]
    <2>1. run' = [run EXCEPT !.lookups = run.lookups - 1, !.terminal = run.terminal,
                             !.call = run.call]
      BY <1>2, RunTyped DEF RunRecord
    <2>2. QED
      BY <1>1, <2>1, RunTyped, CallStep
  <1>3. ASSUME NEW e \in BOOLEAN, ToolEnabled(h),
               run' = [run EXCEPT !.lookups = @ - 1, !.call = "failed", !.terminal = e]
        PROVE  CycleInv'
    <2>1. run' = [run EXCEPT !.lookups = run.lookups - 1, !.terminal = e, !.call = "failed"]
      BY <1>3, RunTyped DEF RunRecord
    <2>2. ~run.terminal /\ "failed" \in CallStages /\ "failed" \notin Executed
      BY <1>3 DEF ToolEnabled, Live, CallStages, Executed
    <2>3. QED
      BY <1>1, <2>1, <2>2, RunTyped, CallStep
  <1>4. QED
    BY <1>2, <1>3 DEF ExecuteFails

\* The executed call goes from stage to stage, and its records are written.
LEMMA CallProceedsStep ==
    ASSUME CycleInv, NEW h \in Handoffs,
           RecordExecution(h) \/ PrepareRender(h) \/ CommitRender(h) \/ RecordRender(h)
    PROVE  CycleInv'
  <1>1. PICK from \in Executed, to \in Executed : CallProceeds(h, from, to)
    BY DEF RecordExecution, PrepareRender, CommitRender, RecordRender, Executed
  <1>2. /\ UNCHANGED <<now, doc, offline>>
        /\ \/ log' = log
           \/ \E s \in {"completed", "failed", "render_completed", "render_failed"} : Appends(h, s)
    BY DEF RecordExecution, PrepareRender, CommitRender, RecordRender
  <1>3. /\ run.handoff = h /\ run.call \in Executed /\ run' = [run EXCEPT !.call = to]
        /\ to \in CallStages /\ to # "none"
    BY <1>1 DEF CallProceeds, Executed, CallStages
  <1>4. run' = [run EXCEPT !.lookups = run.lookups, !.terminal = run.terminal, !.call = to]
    BY <1>3, RunTyped DEF RunRecord
  <1>5. QED
    BY <1>2, <1>3, <1>4, RunTyped, CallStep

\* The rendering fails.
LEMMA RenderFailsStep ==
    ASSUME CycleInv, NEW h \in Handoffs, RenderFails(h)
    PROVE  CycleInv'
  <1>1. /\ run.handoff = h /\ run' = [run EXCEPT !.call = "failed", !.terminal = TRUE]
        /\ Appends(h, "render_failed") \/ log' = log
        /\ UNCHANGED <<now, doc, offline>>
    BY DEF RenderFails
  <1>2. run' = [run EXCEPT !.lookups = run.lookups, !.terminal = TRUE, !.call = "failed"]
    BY <1>1, RunTyped DEF RunRecord
  <1>3. "failed" \in CallStages /\ "failed" \notin Executed
    BY DEF CallStages, Executed
  <1>4. \/ log' = log
        \/ \E s \in {"completed", "failed", "render_completed", "render_failed"} : Appends(h, s)
    BY <1>1
  <1>5. run.lookups \in Nat
    BY RunTyped
  <1>6. QED
    BY <1>1, <1>2, <1>3, <1>4, <1>5, CallStep

\* close: its receipt counts the documents there are, and nothing follows.  Its date is
\* some time since the coordinator started, perhaps before the last confirmation.
LEMMA CloseStep ==
    ASSUME CycleInv, NEW h \in Handoffs, NEW at \in 0..now, Close(h, at)
    PROVE  CycleInv'
  <1>1. /\ run.handoff = h /\ ~Has(h, "close")
        /\ run' = [run EXCEPT !.terminal = TRUE]
        /\ Writes(h, "close", CloseReceipt(h, at))
        /\ UNCHANGED <<now, log, offline>>
    BY DEF Close
  <1>2. /\ now \in Nat /\ CycleTypeOK /\ HandoffIsSound(h) /\ "close" \in Kinds
        /\ at \in Nat /\ at <= now
    BY DEF CycleInv, CycleTypeOK, Kinds
  <1>3. /\ run' \in RunRecord /\ run'.handoff = h /\ run'.terminal
        /\ run'.call = run.call
    BY <1>1, RunTyped DEF RunRecord
  <1>4. CycleTypeOK'
    <2>1. \E g \in Handoffs, k \in Kinds : \E e : Writes(g, k, e)
      BY <1>1, <1>2
    <2>2. QED
      BY <1>1, <1>2, <1>3, <2>1, TypeKept
  <1>5. doc'[h].close = CloseReceipt(h, at) /\ \A j \in Kinds \ {"close"} : doc'[h][j] = doc[h][j]
    BY <1>1, <1>2, WriteEffect
  <1>6. \A j \in Kinds \ {"close"} : Has(h, j)' <=> Has(h, j)
    BY <1>5 DEF Has
  <1>7. RunIsSound(h)'
    <2>1. doc'[h].runtime = doc[h].runtime /\ (Has(h, "execution")' <=> Has(h, "execution"))
      BY <1>5, <1>6 DEF Kinds
    <2>2. QED
      BY <1>1, <1>2, <1>3, <2>1 DEF HandoffIsSound, RunIsSound
  <1>8. CloseIsSound(h)'
    <2>1. /\ doc'[h].close.at = at
          /\ Has(h, "stage") => doc'[h].close.staged
          /\ Has(h, "admission") => doc'[h].close.admissionRemoved
          /\ Has(h, "execution") => doc'[h].close.calls = 1
          /\ Has(h, "work") => doc'[h].close.proofs = 1
          /\ Has(h, "chat") => doc'[h].close.chatUsed
      BY <1>5 DEF CloseReceipt
    <2>2. QED
      BY <1>1, <1>2, <1>6, <2>1 DEF CloseIsSound, Kinds
  <1>9. StageIsSound(h)' /\ AdmissionIsSound(h)'
    BY <1>1, <1>2, <1>5 DEF HandoffIsSound, StageIsSound, AdmissionIsSound, Kinds, Has, In
  <1>10. ExecutionIsSound(h)' /\ WorkIsSound(h)'
    BY <1>1, <1>2, <1>5 DEF HandoffIsSound, ExecutionIsSound, WorkIsSound, Kinds, Has, Grant
  <1>11. ExportIsSound(h)' /\ ClaimIsSound(h)' /\ ChatIsSound(h)'
    BY <1>1, <1>2, <1>5 DEF HandoffIsSound, ExportIsSound, ClaimIsSound, ChatIsSound,
       Kinds, Has, Grant
  <1>12. HandoffIsSound(h)'
    BY <1>7, <1>8, <1>9, <1>10, <1>11 DEF HandoffIsSound
  <1>13. QED
    BY <1>1, <1>2, <1>3, <1>4, <1>12, WritingStep

\* Steps that write no document of a handoff: the clock, the repository, the end of the process, and the offline commands.
LEMMA QuietStep ==
    ASSUME CycleInv, CycleTypeOK', now <= now', UNCHANGED <<doc, log>>,
           run' = run \/ run' = NoRun
    PROVE  /\ KeepsRecords
           /\ \A h \in Handoffs : HandoffIsSound(h)'
           /\ OfflineInv' => CycleInv'
           /\ UNCHANGED offline => CycleInv'
  <1>1. now' \in Nat /\ log \in Seq(LogRecord)
    BY DEF CycleInv, CycleTypeOK
  <1>2. KeepsRecords
    BY <1>1 DEF KeepsRecords
  <1>3. ASSUME NEW h \in Handoffs
        PROVE  HandoffIsSound(h)'
    <2>1. CycleTypeOK /\ HandoffIsSound(h)
      BY DEF CycleInv
    <2>2. RunIsSound(h)'
      <3>1. CASE run' = run
        BY <2>1, <3>1, RunKept DEF HandoffIsSound
      <3>2. CASE run' = NoRun
        <4>1. run'.handoff # h
          BY <3>2, C9Assumption DEF NoRun
        <4>2. QED
          BY <4>1 DEF RunIsSound
      <3>3. QED
        BY <3>1, <3>2
    <2>3. QED
      BY <1>1, <2>1, <2>2, HandoffKept
  <1>4. UNCHANGED offline => OfflineInv'
    BY <1>2, OfflineKept
  <1>5. QED
    BY <1>2, <1>3, <1>4 DEF CycleInv

LEMMA EnvironmentStep ==
    ASSUME CycleInv, Stop \/ Tick \/ MoveHead \/ MoveTag
    PROVE  CycleInv'
  <1>1. /\ now \in Nat /\ CycleTypeOK
        /\ log \in Seq(LogRecord)
    BY DEF CycleInv, CycleTypeOK
  <1>2. NoRun \in RunRecord
    BY DEF NoRun, RunRecord, CallStages
  <1>3. CASE Stop
    <2>1. run' = NoRun /\ UNCHANGED <<now, doc, log, offline>>
      BY <1>3 DEF Stop
    <2>2. CycleTypeOK'
      BY <1>1, <1>2, <2>1 DEF CycleTypeOK
    <2>3. QED
      BY <1>1, <2>1, <2>2, QuietStep
  <1>4. CASE Tick
    <2>1. now' = now + 1 /\ UNCHANGED <<run, doc, log, offline>>
      BY <1>4 DEF Tick
    <2>2. CycleTypeOK'
      BY <1>1, <2>1 DEF CycleTypeOK
    <2>3. QED
      BY <1>1, <2>1, <2>2, QuietStep
  <1>5. CASE MoveHead \/ MoveTag
    <2>1. UNCHANGED <<now, run, doc, log, offline>>
      BY <1>5 DEF MoveHead, MoveTag
    <2>2. CycleTypeOK'
      BY <1>1, <2>1 DEF CycleTypeOK
    <2>3. QED
      BY <1>1, <2>1, <2>2, QuietStep
  <1>6. QED
    BY <1>3, <1>4, <1>5

\* commit_rich_audit_correlation_receipt: of two records, the first is the call
\* and the second its rendering.
LEMMA CorrelateStep ==
    ASSUME CycleInv, NEW ha \in Handoffs, NEW hw \in Handoffs, Correlate(ha, hw),
           KeepsRecords, UNCHANGED <<now, doc, log>>
    PROVE  CorrelationInv'
  <1>1. /\ Has(ha, "work") /\ Len(log) = 2
        /\ correlation' = CorrelationReceipt(ha)
    BY DEF Correlate, OnlyCall
  <1>2. PICK i \in RecordsOf(ha, "completed"), j \in RecordsOf(ha, "render_completed") :
             /\ i < j /\ doc[ha].execution.at <= log[i].at /\ log[i].at <= log[j].at
             /\ log[j].at <= doc[ha].work.at /\ doc[ha].work.at <= now
    BY DEF Correlate
  <1>3. now \in Nat /\ log \in Seq(LogRecord)
    BY DEF CycleInv, CycleTypeOK
  <1>4. i \in 1..2 /\ j \in 1..2
    BY <1>1, <1>2, <1>3 DEF RecordsOf
  <1>5. i = 1 /\ j = 2
    BY <1>2, <1>4
  <1>6. /\ log[1].handoff = ha /\ log[1].status = "completed"
        /\ log[2].handoff = ha /\ log[2].status = "render_completed"
    BY <1>2, <1>5 DEF RecordsOf
  <1>7. /\ correlation'.handoff = ha /\ correlation'.records = 2 /\ correlation'.at = now
    BY <1>1 DEF CorrelationReceipt
  <1>8. \A n \in 1..2 : RecordIsOfCall(log[n], ha)
    <2>1. log[1] \in LogRecord /\ log[2] \in LogRecord
      BY <1>1, <1>3
    <2>2. log[1].at \in Nat /\ log[2].at \in Nat
      BY <2>1 DEF LogRecord
    <2>3. doc[ha].execution.at \in Nat /\ doc[ha].work.at \in Nat
      BY <1>1 DEF CycleInv, HandoffIsSound, WorkIsSound, ExecutionIsSound
    <2>4. /\ doc[ha].execution.at <= log[1].at /\ log[1].at <= doc[ha].work.at
          /\ doc[ha].execution.at <= log[2].at /\ log[2].at <= doc[ha].work.at
      BY <1>2, <1>5, <2>2, <2>3
    <2>5. RecordIsOfCall(log[1], ha) /\ RecordIsOfCall(log[2], ha)
      BY <1>6, <2>4 DEF RecordIsOfCall
    <2>6. \A n \in 1..2 : n = 1 \/ n = 2
      OBVIOUS
    <2>7. QED
      BY <2>5, <2>6
  <1>9. (\A n \in 1..2 : RecordIsOfCall(log[n], ha))'
    BY <1>8 DEF RecordIsOfCall
  <1>10. QED
    BY <1>1, <1>2, <1>3, <1>7, <1>9 DEF CorrelationInv, Has

LEMMA OfflineStep ==
    ASSUME CycleInv, Offline
    PROVE  CycleInv'
  <1>1. UNCHANGED <<now, run, doc, log>>
    BY DEF Offline, Correlate, RunNegative, CommitRevocation, CommitFinal
  <1>2. CycleTypeOK /\ now \in Nat
    BY DEF CycleInv, CycleTypeOK
  <1>3. CycleTypeOK'
    BY <1>1, <1>2 DEF CycleTypeOK
  <1>4. KeepsRecords /\ (OfflineInv' => CycleInv')
    BY <1>1, <1>2, <1>3, QuietStep
  <1>5. /\ correlation' = correlation => CorrelationInv'
        /\ negative' = negative => NegativeInv'
        /\ revocation' = revocation => RevocationInv'
        /\ UNCHANGED <<correlation, final>> => AttestationInv'
    BY <1>3, <1>4, CorrelationKept, ReceiptsKept, AttestationKept
  <1>6. CASE \E ha, hw \in Handoffs : Correlate(ha, hw)
    <2>1. PICK ha \in Handoffs, hw \in Handoffs : Correlate(ha, hw)
      BY <1>6
    <2>2. CorrelationInv'
      BY <1>1, <1>4, <2>1, CorrelateStep
    <2>3. correlation = None /\ UNCHANGED <<negative, revocation, final>>
      BY <2>1 DEF Correlate
    <2>4. AttestationInv'
      BY <2>3 DEF CycleInv, OfflineInv, AttestationInv
    <2>5. QED
      BY <1>4, <1>5, <2>2, <2>3, <2>4 DEF OfflineInv
  <1>7. CASE \E h \in Handoffs : RunNegative(h)
    <2>1. PICK h \in Handoffs : RunNegative(h)
      BY <1>7
    <2>2. /\ Has(h, "admission") /\ Has(h, "close") /\ doc[h].close.at <= now
          /\ negative' = NegativeReceipt(h)
          /\ UNCHANGED <<correlation, revocation, final>>
      BY <2>1 DEF RunNegative
    <2>3. /\ negative'.handoff = h /\ negative'.at = now
          /\ negative'.cycle = Grant(h).cycle /\ negative'.grant = Grant(h).id
      BY <2>2 DEF NegativeReceipt, SuiteHead
    <2>4. NegativeInv'
      BY <1>1, <1>2, <2>2, <2>3 DEF NegativeInv, Has, Grant
    <2>5. QED
      BY <1>4, <1>5, <2>2, <2>4 DEF OfflineInv
  <1>8. CASE \E h \in Handoffs, c \in Cycles \cup {OtherCycle}, g \in Grants :
                CommitRevocation(h, c, g)
    <2>1. /\ \E h \in Handoffs, c \in Cycles \cup {OtherCycle}, g \in Grants :
                revocation' = RevocationReceipt(h, c, g)
          /\ UNCHANGED <<correlation, negative, final>>
      BY <1>8 DEF CommitRevocation
    <2>2. RevocationInv'
      BY <1>1, <1>2, <2>1 DEF RevocationInv, RevocationReceipt
    <2>3. QED
      BY <1>4, <1>5, <2>1, <2>2 DEF OfflineInv
  <1>9. CASE \E hs, ha, hw, hx, hc \in Handoffs : CommitFinal(hs, ha, hw, hx, hc)
    <2>1. PICK hs \in Handoffs, ha \in Handoffs, hw \in Handoffs, hx \in Handoffs,
               hc \in Handoffs : CommitFinal(hs, ha, hw, hx, hc)
      BY <1>9
    <2>2. /\ FinalAccepts(hs, ha, hw, hx, hc) /\ final' = Attestation(hs)
          /\ UNCHANGED <<correlation, negative, revocation>>
      BY <2>1 DEF CommitFinal
    <2>3. correlation # None /\ correlation.handoff = ha /\ ha = hs
      BY <2>2 DEF FinalAccepts, CorrelationVerified
    <2>4. doc[hs].work.at < Grant(hs).to
      BY <2>2, <2>3 DEF FinalAccepts, CorrelationVerified, Chronology, Grant
    <2>5. AttestationInv'
      BY <1>1, <2>2, <2>3, <2>4 DEF AttestationInv, Attestation, Grant
    <2>6. QED
      BY <1>4, <1>5, <2>2, <2>5 DEF OfflineInv
  <1>10. QED
    BY <1>6, <1>7, <1>8, <1>9 DEF Offline

LEMMA CycleNextHolds == CycleInv /\ [CycleNext]_cycleVars => CycleInv'
  <1> SUFFICES ASSUME CycleInv, [CycleNext]_cycleVars PROVE CycleInv'
    OBVIOUS
  <1>1. ASSUME NEW h \in Handoffs, Coordinator(h)
        PROVE  CycleInv'
    BY <1>1, StartCoordinatorStep, StageHandoffStep, ApproveHandoffStep, FailingStep,
       LookUpStep, ExecuteStep, ExecuteFailsStep, CallProceedsStep, RenderFailsStep,
       ConfirmWorkStep, PrepareChatStep, ClaimChatStep, ConfirmChatStep, CloseStep
       DEF Coordinator
  <1>2. CASE UNCHANGED cycleVars
    <2>1. UNCHANGED <<now, run, doc, log, offline>> /\ now \in Nat /\ CycleTypeOK
      BY <1>2 DEF cycleVars, CycleInv, CycleTypeOK
    <2>2. CycleTypeOK'
      BY <2>1 DEF CycleTypeOK
    <2>3. QED
      BY <2>1, <2>2, QuietStep
  <1>3. QED
    BY <1>1, <1>2, EnvironmentStep, OfflineStep DEF CycleNext

\* Whatever is staged, called, refused, recorded late, restarted or closed, and in
\* whatever order: the documents of a handoff follow each other inside the windows the
\* runtime, the grant, the approval and the authorization gave it, the close receipt,
\* however it is dated, tells of all of them, and the correlation covers one call and
\* its rendering, recorded between the execution and the Work proof.
THEOREM CycleInvariant == CycleSpec => []CycleInv
  BY CycleInitHolds, CycleNextHolds, PTL DEF CycleSpec

-----------------------------------------------------------------------------
(* What an attestation is worth *)

\* OneCallAttested: whatever was called, refused, rendered or restarted before, a
\* committed attestation speaks of one admitted call.  The records of a call may be
\* written after its grant has run out; those of the attested one were not, because
\* the final verifier finds its Work proof, which follows them, inside the grant.
THEOREM AttestedCallIsTheOnlyOne == CycleSpec => []OneCallAttested
  <1>1. CycleInv => OneCallAttested
    <2> SUFFICES ASSUME CycleInv, final # None, NEW i \in 1..correlation.records
                 PROVE  /\ log[i].handoff = final.handoff
                        /\ log[i].status \in {"completed", "render_completed"}
                        /\ In(log[i].at, Grant(final.handoff))
                        /\ In(log[i].at, doc[final.handoff].admission.bundle.auth)
      BY DEF OneCallAttested
    <2> DEFINE h == final.handoff
    <2>1. correlation # None /\ h = correlation.handoff
      BY DEF CycleInv, OfflineInv, AttestationInv
    <2>2. /\ correlation.records = 2 /\ 2 <= Len(log) /\ h \in Handoffs /\ Has(h, "work")
          /\ \A n \in 1..2 : RecordIsOfCall(log[n], h)
      BY <2>1 DEF CycleInv, OfflineInv, CorrelationInv
    <2>3. i \in 1..2 /\ i \in 1..Len(log) /\ log[i] \in LogRecord
      BY <2>2 DEF CycleInv, CycleTypeOK
    <2>4. /\ log[i].handoff = h /\ log[i].status \in {"completed", "render_completed"}
          /\ doc[h].execution.at <= log[i].at /\ log[i].at <= doc[h].work.at
      BY <2>2, <2>3 DEF RecordIsOfCall
    <2>5. doc[h].work.at < Grant(h).to
      BY DEF CycleInv, OfflineInv, AttestationInv
    <2>6. /\ Has(h, "admission") /\ Has(h, "execution") /\ doc[h].work.at \in Nat
           /\ doc[h].execution.at \in Nat /\ Grant(h).at <= doc[h].execution.at
      BY <2>2 DEF CycleInv, HandoffIsSound, WorkIsSound, ExecutionIsSound
    <2>7. AdmissionIsSound(h)
      BY <2>2 DEF CycleInv, HandoffIsSound
    <2>8. log[i].at \in Nat
      BY <2>3 DEF LogRecord
    <2>9. Has(h, "admission") /\ In(log[i].at, Grant(h))
      <3>1. Grant(h).at \in Nat /\ Grant(h).to \in Nat
        BY <2>7, <2>6 DEF AdmissionIsSound, Grant
      <3>2. QED
        BY <2>4, <2>5, <2>8, <2>6, <3>1 DEF In
    <2>10. In(log[i].at, doc[h].admission.bundle.auth)
      <3> DEFINE b == doc[h].admission.bundle
      <3>1. /\ b.grant.to \in Nat /\ b.grant.at \in Nat
            /\ b.auth.at \in Nat /\ b.auth.to \in Nat
            /\ b.auth.at <= b.grant.at /\ b.grant.to <= b.auth.to
        BY <2>9, <2>7 DEF AdmissionIsSound
      <3>2. b.grant.at <= log[i].at /\ log[i].at < b.grant.to
        BY <2>9 DEF Grant, In
      <3> HIDE DEF b
      <3>3. b.auth.at <= log[i].at /\ log[i].at < b.auth.to
        BY <2>8, <3>1, <3>2
      <3>4. QED
        BY <3>3 DEF In, b
    <2>11. QED
      BY <2>4, <2>9, <2>10
  <1>2. QED
    BY <1>1, CycleInvariant, PTL

\* ConfirmedRunIsAttestable: the documents that the coordinator and the offline
\* commands leave of a confirmed, closed and correlated handoff pass every check of
\* the final verifier, unless the close was dated before a confirmation overtook it.
THEOREM ConfirmedRunPasses == CycleSpec => []ConfirmedRunIsAttestable
  <1>1. CycleInv => ConfirmedRunIsAttestable
    <2> SUFFICES ASSUME CycleInv, NEW h \in Handoffs,
                        Has(h, "chat"), Has(h, "close"),
                        \A k \in {"work", "export", "claim", "chat"} :
                           doc[h][k].at <= doc[h].close.at,
                        \A r \in {correlation, negative, revocation} : r # None /\ r.handoff = h,
                        negative.at <= revocation.at,
                        revocation.cycle = Grant(h).cycle, revocation.grant = Grant(h).id,
                        Grant(h).tag = tag, {head, negative.head} = {Grant(h).head}
                 PROVE  FinalAccepts(h, h, h, h, h)
      BY DEF ConfirmedRunIsAttestable
    <2> DEFINE a == doc[h].admission
               b == a.bundle
    <2>1. HandoffIsSound(h) /\ now \in Nat
      BY DEF CycleInv, CycleTypeOK
    <2>2. /\ Has(h, "claim")
          /\ doc[h].chat.at \in Nat /\ doc[h].claim.at <= doc[h].chat.at
          /\ doc[h].chat.at < Grant(h).to /\ doc[h].chat.at < doc[h].export.to
      BY <2>1 DEF HandoffIsSound, ChatIsSound
    <2>3. /\ Has(h, "export") /\ doc[h].claim.at \in Nat
          /\ doc[h].export.at <= doc[h].claim.at
      BY <2>1, <2>2 DEF HandoffIsSound, ClaimIsSound
    <2>4. /\ Has(h, "work") /\ doc[h].export.at \in Nat
          /\ doc[h].work.at <= doc[h].export.at
      BY <2>1, <2>3 DEF HandoffIsSound, ExportIsSound
    <2>5. /\ Has(h, "admission") /\ Has(h, "execution") /\ doc[h].work.at \in Nat
          /\ a.at <= doc[h].work.at
      BY <2>1, <2>4 DEF HandoffIsSound, WorkIsSound
    <2>6. /\ Has(h, "stage") /\ doc[h].stage.at <= a.at /\ a.at \in Nat
          /\ a.approval \in Nat /\ a.approval <= doc[h].stage.to
          /\ b.grant.at = a.at /\ b.grant.to \in Nat /\ b.grant.to <= a.approval
          /\ b.runtime = doc[h].runtime /\ In(b.grant.at, b.runtime)
          /\ {b.auth.cycle, b.surface.cycle, b.runtime.cycle} = {b.grant.cycle}
          /\ b.grant.package = h /\ b.grant.tag \in ExactTags
      BY <2>1, <2>5 DEF HandoffIsSound, AdmissionIsSound
    <2>7. doc[h].stage.to \in Nat /\ In(doc[h].stage.at, b.runtime)
      BY <2>1, <2>6 DEF HandoffIsSound, StageIsSound
    <2>8. /\ doc[h].close.at \in Nat /\ doc[h].chat.at <= doc[h].close.at
          /\ doc[h].close.staged /\ doc[h].close.admissionRemoved
          /\ doc[h].close.calls = 1 /\ doc[h].close.proofs = 1 /\ doc[h].close.chatUsed
      <3>1. doc[h].chat.at <= doc[h].close.at
        OBVIOUS
      <3>2. QED
        BY <2>1, <2>4, <2>5, <2>6, <3>1 DEF HandoffIsSound, CloseIsSound
    <2>9. /\ correlation # None /\ correlation.handoff = h
          /\ correlation.at \in Nat /\ correlation.at <= now
          /\ doc[h].work.at <= correlation.at
      BY DEF CycleInv, OfflineInv, CorrelationInv
    <2>10. /\ negative # None /\ negative.handoff = h
           /\ negative.cycle = b.grant.cycle /\ negative.grant = b.grant.id
           /\ doc[h].close.at <= negative.at
      BY DEF CycleInv, OfflineInv, NegativeInv, Grant
    <2>11. /\ revocation # None /\ revocation.handoff = h /\ revocation.at <= now
      BY DEF CycleInv, OfflineInv, RevocationInv
    <2>12. OneCycle(a)
      BY <2>6, <2>10 DEF OneCycle, Grant
    <2>13. Chronology(h, a, h, h, h)
      <3> DEFINE positives == {doc[h].work.at, doc[h].export.at, doc[h].claim.at, doc[h].chat.at}
      <3>1. positives \in SUBSET Nat /\ doc[h].chat.at \in positives
        BY <2>2, <2>3, <2>4, <2>5
      <3>2. \A t \in positives : a.at <= t /\ t <= doc[h].chat.at
        BY <2>2, <2>3, <2>4, <2>5, <2>6
      <3>3. Max(positives) = doc[h].chat.at
        <4> HIDE DEF positives
        <4>1. QED
          BY <3>1, <3>2, MaxIsLast
      <3>4. \A t \in positives :
               a.at <= t /\ t < b.grant.to /\ t < a.approval /\ t < doc[h].stage.to
        <4>1. doc[h].chat.at < b.grant.to
          BY <2>2 DEF Grant
        <4> HIDE DEF positives
        <4>2. QED
          BY <2>2, <2>6, <2>7, <3>1, <3>2, <4>1
      <3>5. QED
        BY <2>2, <2>3, <2>6, <2>8, <2>10, <3>3, <3>4 DEF Chronology
    <2>14. SameDependency(b.grant) /\ CycleVerified(b)
      BY <2>6 DEF SameDependency, CycleVerified, Grant
    <2>15. head = b.grant.head /\ negative.head = head
      BY DEF Grant
    <2>16. QED
      BY <2>4, <2>5, <2>6, <2>7, <2>8, <2>9, <2>10, <2>11, <2>12, <2>13, <2>14, <2>15
         DEF FinalAccepts, CorrelationVerified
  <1>2. QED
    BY <1>1, CycleInvariant, PTL
=============================================================================
