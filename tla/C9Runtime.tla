------------------------------ MODULE C9Runtime ------------------------------
(***************************************************************************)
(* The two parts of the C9 runtime side by side: AttachmentSecurity, whose *)
(* definitions are this module's, and the coordinator of Handoff, whose    *)
(* definitions are those of HC.  Handoff has the authority's leases as     *)
(* they look from the coordinator, so the two share no state.              *)
(***************************************************************************)
EXTENDS AttachmentSecurity

CONSTANTS ToolThread, CoordinatorLeaseTtl, CoordinatorApprovalTtl, ExportTtl, CoordinatorMaxClock

VARIABLES
    up, time, rec, staged, buffer, fixture, admission, execution, ended, receipt, stage, tool,
    export, exportUntil, claimed, directory, managerClosed, released, verified

HC == INSTANCE Handoff
    WITH Call <- ToolThread, LeaseTtl <- CoordinatorLeaseTtl,
         ApprovalTtl <- CoordinatorApprovalTtl, MaxClock <- CoordinatorMaxClock,
         clock <- time, leases <- staged, closed <- ended, call <- tool

ASSUME CoordinatorAssumption == HC!WellFormed

\* A close that has given its receipt leaves nothing of the handoff behind.
NothingLeftAfterClose == HC!NothingLeftAfterClose

\* The host gets the content as it was approved, once, or not at all.
DeliveredIsIntact == HC!DeliveredIsIntact

\* The Work proof and the chat's are earned, in this order.
ProofsAreEarned == HC!ProofsAreEarned

\* What lies on disk belongs to the running process.
FilesAreCurrent == HC!FilesAreCurrent
=============================================================================
