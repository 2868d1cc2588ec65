------------------------------- MODULE Handoff -------------------------------
(***************************************************************************)
(* The C9 handoff: C9HandoffCoordinator with its manual export, the local  *)
(* control plane that operators use, and the MCP tool call that carries    *)
(* the content to the host (c9_handoff_runtime, c9_control_api,            *)
(* mcp_runtime, start-up in main).                                         *)
(*                                                                         *)
(* A coordinator operation holds the coordinator's lock and is one action, *)
(* except stage, which runs the local AI under the lock and takes time.  A *)
(* tool call works without the lock between its sections.  A refusal that  *)
(* changes nothing is not an action.  A proof, a digest or a confirmation  *)
(* that comes from outside is right or wrong.  The observation of the      *)
(* host's capabilities, which the control plane renews just before the     *)
(* approval, only adds refusals and is left out.                           *)
(***************************************************************************)
EXTENDS ManualExport, FiniteSets, FiniteSetsExt

CONSTANTS
    Call,           \* tool calls
    LeaseTtl,       \* lifetime of the staged leases and manifests
    ApprovalTtl,    \* lifetime of the combined approval
    ExportTtl,      \* lifetime of the export
    MaxClock        \* bound on the clock

\* What is assumed of the constants.
WellFormed ==
    /\ LeaseTtl \in Nat \ {0} /\ ApprovalTtl \in Nat \ {0} /\ ExportTtl \in Nat \ {0}
    /\ MaxClock \in Nat

VARIABLES
    up,          \* the gateway runs
    clock,
    rec,         \* _record
    leases,      \* the leases of the two manifests in C9AttachmentSecurity
    buffer,      \* payloads of the pending delivery: "none", "live" or "zero"
    fixture,     \* files of the current fixture handle
    admission,   \* the admission file exists
    execution,   \* work-execution.json exists
    closed,
    receipt,     \* _close_receipt was given
    stage,       \* the control plane's stage command
    call         \* per tool call: control state and rendered result

core == <<leases, buffer, fixture, admission, execution>>
vars == <<manager, up, clock, rec, core, closed, receipt, stage, call>>

NoRecord ==
    [staged |-> FALSE, until |-> 0, terminal |-> FALSE,
     approvalAttempted |-> FALSE, approval |-> 0, grant |-> 0,
     executionAttempted |-> FALSE, executed |-> FALSE,
     pending |-> FALSE, prepared |-> FALSE, rendered |-> FALSE,
     workAttempted |-> FALSE, workConfirmed |-> FALSE,
     exportAttempted |-> FALSE, exported |-> FALSE, pickerClaimed |-> FALSE,
     chatAttempted |-> FALSE, chatConfirmed |-> FALSE]

NoLeases == [work |-> "none", chat |-> "none"]
NoStage == [pc |-> "idle", at |-> 0]
NoCall == [pc |-> "idle", result |-> "none"]

TypeOK ==
    /\ ManagerTypeOK
    /\ up \in BOOLEAN /\ clock \in 0..MaxClock
    /\ DOMAIN rec = DOMAIN NoRecord
    /\ \A f \in DOMAIN rec :
          rec[f] \in IF f \in {"until", "approval", "grant"} THEN Nat ELSE BOOLEAN
    /\ leases \in [{"work", "chat"} -> {"none", "active", "consumed", "ended"}]
    /\ buffer \in {"none", "live", "zero"}
    /\ fixture \in {"none", "present", "changed", "absent"}
    /\ admission \in BOOLEAN /\ execution \in BOOLEAN
    /\ closed \in BOOLEAN /\ receipt \in BOOLEAN
    /\ stage \in [pc : {"idle", "generated", "inferring", "cleaning"}, at : 0..MaxClock]
    /\ call \in [Call -> [pc : {"idle", "executed", "prepared", "built", "zeroing",
                                "committed", "failing", "content", "error"},
                          result : {"none", "intact", "zeroed"}]]

Init ==
    /\ export = "none" /\ exportUntil = 0 /\ claimed = FALSE /\ directory = "absent"
    /\ managerClosed = FALSE /\ released = 0 /\ verified = FALSE
    /\ up = TRUE /\ clock = 0
    /\ rec = NoRecord /\ leases = NoLeases /\ buffer = "none" /\ fixture = "none"
    /\ admission = FALSE /\ execution = FALSE
    /\ closed = FALSE /\ receipt = FALSE
    /\ stage = NoStage
    /\ call = [c \in Call |-> NoCall]

-----------------------------------------------------------------------------
(* Guards and pieces of the operations *)

\* stage holds the coordinator's lock while the local AI runs.
LockFree == up /\ stage.pc # "inferring"

\* _require_open
RequireOpen == LockFree /\ ~closed /\ ~rec.terminal

\* An operation on the staged handoff; the control plane's are serialised.
OpenRecord == RequireOpen /\ rec.staged
ControlRecord == OpenRecord /\ stage.pc = "idle"

\* fixture.cleanup
CleanFixture == fixture' = "absent"
CleanFixtureFails == fixture \in {"present", "changed"} /\ fixture' \in {fixture, "changed"}

\* cancel_all and close of the attachment authority
CancelLeases == [s \in DOMAIN leases |-> IF leases[s] = "active" THEN "ended" ELSE leases[s]]

Sets(fields) == rec' = [f \in DOMAIN rec |-> IF f \in fields THEN TRUE ELSE rec[f]]

-----------------------------------------------------------------------------
(* stage *)

\* The control plane writes the two files. A generation that fails removes what it
\* wrote; if that fails as well, part of a package of its own stays in the control
\* plane's state, which no handoff ever refers to.
GenerateFixture ==
    /\ up /\ stage.pc = "idle" /\ ~rec.staged
    /\ fixture' = "present"
    /\ stage' = [pc |-> "generated", at |-> clock]
    /\ UNCHANGED <<manager, up, clock, rec, leases, buffer, admission, execution,
                   closed, receipt, call>>

\* The coordinator is closed, or the local AI's runtime observation is stale.
StageRefused ==
    /\ stage.pc = "generated"
    /\ stage' = [stage EXCEPT !.pc = "cleaning"]
    /\ UNCHANGED <<manager, up, clock, rec, core, closed, receipt, call>>

\* The files are selected into leases and shown to the local AI.
StageBegins ==
    /\ stage.pc = "generated" /\ RequireOpen
    /\ leases' = [work |-> "active", chat |-> "none"]
    /\ stage' = [pc |-> "inferring", at |-> clock]
    /\ UNCHANGED <<manager, up, clock, rec, buffer, fixture, admission, execution,
                   closed, receipt, call>>

\* The AI named both nonces, in time and over unchanged files; the leases are
\* cloned for the chat.
StageEnds ==
    /\ stage.pc = "inferring"
    /\ clock < stage.at + LeaseTtl /\ fixture = "present"
    /\ leases' = [work |-> "active", chat |-> "active"]
    /\ rec' = [NoRecord EXCEPT !.staged = TRUE, !.until = stage.at + LeaseTtl]
    /\ stage' = NoStage
    /\ UNCHANGED <<manager, up, clock, buffer, fixture, admission, execution,
                   closed, receipt, call>>

StageFails ==
    /\ stage.pc = "inferring"
    /\ leases' = CancelLeases
    /\ CleanFixture \/ CleanFixtureFails
    /\ stage' = [stage EXCEPT !.pc = "cleaning"]
    /\ UNCHANGED <<manager, up, clock, rec, buffer, admission, execution,
                   closed, receipt, call>>

\* The control plane cleans the fixture of a stage that raised.
StageCleans ==
    /\ stage.pc = "cleaning"
    /\ CleanFixture \/ CleanFixtureFails
    /\ stage' = NoStage
    /\ UNCHANGED <<manager, up, clock, rec, leases, buffer, admission, execution,
                   closed, receipt, call>>

-----------------------------------------------------------------------------
(* approve_handoff *)

\* The grant ends with the combined approval or before it.  A metadata file is
\* written only where there is none.
ApproveHandoff ==
    /\ ControlRecord /\ ~rec.approvalAttempted
    /\ clock < rec.until /\ ~admission
    /\ LET until == Min({clock + ApprovalTtl, rec.until}) IN
       \E grant \in (clock + 1)..until :
          rec' = [rec EXCEPT !.approvalAttempted = TRUE, !.approval = until, !.grant = grant]
    /\ admission' = TRUE
    /\ UNCHANGED <<manager, up, clock, leases, buffer, fixture, execution,
                   closed, receipt, stage, call>>

\* Not confirmed, not bound, late, or not written: the handoff is over.
ApproveFails ==
    /\ ControlRecord /\ ~rec.approvalAttempted
    /\ Sets({"approvalAttempted", "terminal"})
    /\ leases' = CancelLeases
    /\ CleanFixture \/ CleanFixtureFails
    /\ admission' \in {admission, TRUE}
    /\ UNCHANGED <<manager, up, clock, buffer, execution, closed, receipt, stage, call>>

-----------------------------------------------------------------------------
(* The tool call: execute_rich_handoff in the task processor, then the      *)
(* rendering in call_tool                                                   *)

Goes(c, pc) == call' = [call EXCEPT ![c].pc = pc]

\* _tool_enabled
ToolEnabled == rec.approval > 0 /\ ~rec.executionAttempted /\ clock < rec.grant

\* The leases are consumed into the pending delivery, which is on record first.
ExecuteRich(c) ==
    /\ call[c].pc = "idle"
    /\ OpenRecord /\ ToolEnabled
    /\ leases.work = "active" /\ fixture = "present" /\ ~execution
    /\ leases' = [leases EXCEPT !.work = "consumed"]
    /\ buffer' = "live" /\ execution' = TRUE
    /\ Sets({"executionAttempted", "executed", "pending"})
    /\ Goes(c, "executed")
    /\ UNCHANGED <<manager, up, clock, fixture, admission, closed, receipt, stage>>

\* The consumption is refused, or its record is not written (an earlier process
\* may have left one) and the copied payloads are zeroed. A descriptor or a session
\* that is refused is so before the try: the attempt is spent, the handoff goes on.
ExecuteFails(c) ==
    /\ call[c].pc = "idle"
    /\ OpenRecord /\ ToolEnabled
    /\ \/ /\ Sets({"executionAttempted"})
          /\ UNCHANGED <<leases, execution>>
       \/ /\ leases' = [leases EXCEPT !.work = "ended"]
          /\ Sets({"executionAttempted", "terminal"})
          /\ UNCHANGED execution
       \/ /\ leases.work = "active" /\ fixture = "present"
          /\ leases' = [leases EXCEPT !.work = "consumed"]
          /\ execution' \in {execution, TRUE}
          /\ Sets({"executionAttempted", "terminal"})
    /\ Goes(c, "error")
    /\ UNCHANGED <<manager, up, clock, buffer, fixture, admission, closed, receipt, stage>>

\* A call for another surface than Work ends the handoff.
ExecuteOnChat(c) ==
    /\ call[c].pc = "idle" /\ OpenRecord
    /\ Sets({"terminal"})
    /\ Goes(c, "error")
    /\ UNCHANGED <<manager, up, clock, core, closed, receipt, stage>>

\* The processor's audit raises, or the call is cancelled before it prepares: the
\* pending delivery stays.
ResultLost(c) ==
    /\ call[c].pc = "executed"
    /\ Goes(c, "error")
    /\ UNCHANGED <<manager, up, clock, rec, core, closed, receipt, stage>>

\* _prepare_rich_render hands out the pending delivery once, ends it when it is
\* late, and raises otherwise. The call reads the clock before it waits for the lock:
\* the execution was inside the grant, so the reading may be inside it at any time.
PrepareRender(c) ==
    LET fresh == RequireOpen /\ rec.pending /\ ~rec.prepared /\ ~rec.rendered IN
    /\ call[c].pc = "executed" /\ LockFree
    /\ \/ /\ fresh
          /\ Sets({"prepared"})
          /\ Goes(c, "prepared")
          /\ UNCHANGED buffer
       \/ /\ fresh /\ clock >= rec.grant
          /\ buffer' = "zero"
          /\ rec' = [rec EXCEPT !.pending = FALSE, !.terminal = TRUE]
          /\ Goes(c, "error")
       \/ /\ ~fresh
          /\ Goes(c, "error")
          /\ UNCHANGED <<rec, buffer>>
    /\ UNCHANGED <<manager, up, clock, leases, fixture, admission, execution,
                   closed, receipt, stage>>

\* _build_mcp_result copies the payloads without the lock.
BuildResult(c) ==
    /\ call[c].pc = "prepared"
    /\ call' = [call EXCEPT ![c] = [pc |-> "built",
                   result |-> IF buffer = "live" THEN "intact" ELSE "zeroed"]]
    /\ UNCHANGED <<manager, up, clock, rec, core, closed, receipt, stage>>

\* The result is not built, is too large, or the call is cancelled or not
\* audited, before or after the commit.
RenderFails(c) ==
    /\ call[c].pc \in {"prepared", "built", "committed"}
    /\ Goes(c, "failing")
    /\ UNCHANGED <<manager, up, clock, rec, core, closed, receipt, stage>>

\* Mutant: only the execution is looked up.
MayCompleteExecuted == rec.executed

\* The tests of _complete_rich_render.
MayComplete ==
    RequireOpen /\ rec.executed /\ rec.pending /\ rec.prepared /\ ~rec.rendered

CommitRender(c) ==
    /\ call[c].pc = "built" /\ LockFree
    /\ IF MayComplete
       THEN /\ rec' = [rec EXCEPT !.pending = FALSE, !.prepared = FALSE, !.rendered = TRUE]
            /\ Goes(c, "zeroing")
       ELSE Goes(c, "failing") /\ UNCHANGED rec
    /\ UNCHANGED <<manager, up, clock, core, closed, receipt, stage>>

\* commit zeroes the payloads when the lock is free again.
ZeroCommitted(c) ==
    /\ call[c].pc = "zeroing"
    /\ buffer' = "zero"
    /\ Goes(c, "committed")
    /\ UNCHANGED <<manager, up, clock, rec, leases, fixture, admission, execution,
                   closed, receipt, stage>>

\* The rendering is on record: the content leaves the gateway.
ReturnContent(c) ==
    /\ call[c].pc = "committed"
    /\ Goes(c, "content")
    /\ UNCHANGED <<manager, up, clock, rec, core, closed, receipt, stage>>

\* _fail_rich_render, also after a commit, and whether the coordinator is open or
\* not; then the payloads are zeroed.
FailRender(c) ==
    /\ call[c].pc = "failing" /\ LockFree
    /\ rec' = [rec EXCEPT !.pending = FALSE, !.prepared = FALSE, !.rendered = FALSE,
                          !.terminal = TRUE]
    /\ buffer' = "zero"
    /\ Goes(c, "error")
    /\ UNCHANGED <<manager, up, clock, leases, fixture, admission, execution,
                   closed, receipt, stage>>

-----------------------------------------------------------------------------
(* confirm_rich_surface *)

ConfirmWork ==
    /\ ControlRecord /\ ~rec.workAttempted
    /\ rec.rendered /\ clock < rec.approval
    /\ Sets({"workAttempted", "workConfirmed"})
    /\ UNCHANGED <<manager, up, clock, core, closed, receipt, stage, call>>

\* Not rendered, wrong or late.
ConfirmWorkFails ==
    /\ ControlRecord /\ ~rec.workAttempted
    /\ Sets({"workAttempted", "terminal"})
    /\ UNCHANGED <<manager, up, clock, core, closed, receipt, stage, call>>

-----------------------------------------------------------------------------
(* prepare_native_chat_handoff *)

\* One attempt, after the confirmed Work proof.
MayPrepare ==
    ControlRecord /\ ~rec.exportAttempted /\ rec.approval > 0 /\ rec.workConfirmed

PrepareLate ==
    /\ MayPrepare /\ clock >= rec.grant
    /\ Sets({"exportAttempted"})
    /\ UNCHANGED <<manager, up, clock, core, closed, receipt, stage, call>>

\* Both packages are consumed, so the fixture is cleaned; when that raises, the
\* handoff is over although the export is there.
PrepareChat ==
    /\ MayPrepare /\ clock < rec.grant
    /\ leases.chat = "active" /\ fixture = "present"
    /\ Materialize(clock, ExportTtl)
    /\ leases' = [leases EXCEPT !.chat = "consumed"]
    /\ \/ CleanFixture /\ Sets({"exportAttempted", "exported"})
       \/ CleanFixtureFails /\ Sets({"exportAttempted", "exported", "terminal"})
    /\ UNCHANGED <<up, clock, buffer, admission, execution, closed, receipt, stage, call>>

\* The consumption is refused before the export, the export fails, or the
\* consumption is refused after it, with the export left to the manager.
PrepareChatFails ==
    /\ MayPrepare /\ clock < rec.grant
    /\ leases' = [leases EXCEPT !.chat = "ended"]
    /\ \/ UNCHANGED manager
       \/ MaterializeFails
       \/ Materialize(clock, ExportTtl)
    /\ Sets({"exportAttempted", "terminal"})
    /\ UNCHANGED <<up, clock, buffer, fixture, admission, execution,
                   closed, receipt, stage, call>>

-----------------------------------------------------------------------------
(* claim_native_chat_handoff_paths and confirm_native_chat_handoff *)

\* _chat_export_deadline
ChatDeadline == Min({exportUntil, rec.grant, rec.approval, rec.until})

\* cleanup for a reason other than completion, whether it works, fails or is
\* refused.
TryCleanup ==
    \/ MayCleanup /\ (CleanupRecord \/ CleanupRecordFails)
    \/ ~MayCleanup /\ UNCHANGED manager

ClaimChat ==
    /\ ControlRecord /\ rec.exported
    /\ \/ /\ clock >= ChatDeadline
          /\ Sets({"terminal"}) /\ TryCleanup
       \/ /\ clock < ChatDeadline
          /\ Sets({"pickerClaimed"}) /\ ClaimPaths(clock)
       \/ /\ clock < ChatDeadline
          /\ UNCHANGED rec /\ ClaimEnds(clock)
    /\ UNCHANGED <<up, clock, core, closed, receipt, stage, call>>

\* One attempt, even when nothing was claimed: the control plane asks only that an
\* export was requested, which the coordinator may have refused.
ConfirmUnclaimed ==
    /\ ControlRecord /\ ~rec.chatAttempted /\ ~rec.pickerClaimed
    /\ Sets({"chatAttempted"})
    /\ UNCHANGED <<manager, up, clock, core, closed, receipt, stage, call>>

\* A wrong claim receipt or a late proof ends the handoff; a wrong response in
\* time only ends the export.
ConfirmChatFails ==
    /\ ControlRecord /\ ~rec.chatAttempted /\ rec.pickerClaimed
    /\ \/ Sets({"chatAttempted", "terminal"})
       \/ clock < ChatDeadline /\ Sets({"chatAttempted"})
    /\ TryCleanup
    /\ UNCHANGED <<up, clock, core, closed, receipt, stage, call>>

\* Mutant: the cleanup receipt is not looked at.
IntegralAlways == TRUE

\* The removed export was still what was written.
Integral == VerifyRecord

\* A right and timely response counts only if the export could be removed and was
\* what was written until then.
ConfirmChat ==
    /\ ControlRecord /\ ~rec.chatAttempted /\ rec.pickerClaimed
    /\ clock < ChatDeadline
    /\ \/ /\ MayCleanup /\ CleanupRecord
          /\ Sets({"chatAttempted", IF Integral THEN "chatConfirmed" ELSE "terminal"})
       \/ /\ MayCleanup /\ CleanupRecordFails
          /\ Sets({"chatAttempted"})
    /\ UNCHANGED <<up, clock, core, closed, receipt, stage, call>>

-----------------------------------------------------------------------------
(* close: repeated until it has given its receipt *)

CloseCore ==
    /\ LockFree /\ ~receipt
    /\ closed' = TRUE
    /\ rec' = [rec EXCEPT !.pending = FALSE]
    /\ buffer' = IF rec.pending THEN "zero" ELSE buffer
    /\ leases' = CancelLeases

\* The export, the fixture or the admission file cannot be removed.
CloseFails ==
    /\ CloseCore
    /\ \/ CloseManagerFails /\ UNCHANGED <<fixture, admission>>
       \/ CloseManager /\ rec.staged /\ CleanFixtureFails /\ UNCHANGED admission
       \/ /\ CloseManager /\ admission /\ UNCHANGED admission
          /\ IF rec.staged THEN CleanFixture ELSE UNCHANGED fixture
    /\ UNCHANGED <<up, clock, execution, receipt, stage, call>>

Close ==
    /\ CloseCore
    /\ CloseManager
    /\ IF rec.staged THEN CleanFixture ELSE UNCHANGED fixture
    /\ admission' = FALSE
    /\ receipt' = TRUE
    /\ UNCHANGED <<up, clock, execution, stage, call>>

-----------------------------------------------------------------------------
(* The process and its environment *)

\* The process ends or dies: what is on disk remains, files of a fixture included.
Crash ==
    /\ up /\ up' = FALSE
    /\ NewManager
    /\ rec' = NoRecord /\ leases' = NoLeases /\ buffer' = "none" /\ fixture' = "none"
    /\ closed' = FALSE /\ receipt' = FALSE /\ stage' = NoStage
    /\ call' = [c \in Call |-> NoCall]
    /\ UNCHANGED <<clock, directory, admission, execution>>

\* Mutant: the manager does not look for directories of an earlier process.
StartKeepsOrphans ==
    /\ ~up /\ up' = TRUE
    /\ admission' = FALSE
    /\ UNCHANGED <<manager, clock, rec, leases, buffer, fixture, execution,
                   closed, receipt, stage, call>>

\* Start-up removes the admission file and the exports of earlier processes.
Start ==
    /\ ~up /\ up' = TRUE
    /\ admission' = FALSE
    /\ RemoveTree
    /\ UNCHANGED <<export, exportUntil, claimed, managerClosed, released, verified,
                   clock, rec, leases, buffer, fixture, execution,
                   closed, receipt, stage, call>>

\* An export that cannot be removed keeps the gateway down.
StartFails ==
    /\ ~up
    /\ admission' = FALSE
    /\ RemoveTreeFails
    /\ UNCHANGED <<export, exportUntil, claimed, managerClosed, released, verified,
                   up, clock, rec, leases, buffer, fixture, execution,
                   closed, receipt, stage, call>>

Tick ==
    /\ clock < MaxClock /\ clock' = clock + 1
    /\ UNCHANGED <<manager, up, rec, core, closed, receipt, stage, call>>

\* Somebody changes the exported files or the fixture's.
ChangeExport ==
    /\ Tamper
    /\ UNCHANGED <<up, clock, rec, core, closed, receipt, stage, call>>

ChangeFixture ==
    /\ fixture = "present" /\ fixture' = "changed"
    /\ UNCHANGED <<manager, up, clock, rec, leases, buffer, admission, execution,
                   closed, receipt, stage, call>>

Stage ==
    \/ GenerateFixture \/ StageRefused \/ StageBegins \/ StageEnds \/ StageFails
    \/ StageCleans

ToolCall(c) ==
    \/ ExecuteRich(c) \/ ExecuteFails(c) \/ ExecuteOnChat(c) \/ ResultLost(c)
    \/ PrepareRender(c) \/ BuildResult(c) \/ RenderFails(c) \/ CommitRender(c)
    \/ ZeroCommitted(c) \/ ReturnContent(c) \/ FailRender(c)

Control ==
    \/ ApproveHandoff \/ ApproveFails
    \/ ConfirmWork \/ ConfirmWorkFails
    \/ PrepareLate \/ PrepareChat \/ PrepareChatFails
    \/ ClaimChat \/ ConfirmUnclaimed \/ ConfirmChatFails \/ ConfirmChat

Next ==
    \/ Stage \/ Control
    \/ \E c \in Call : ToolCall(c)
    \/ CloseFails \/ Close
    \/ Crash \/ Start \/ StartFails
    \/ Tick \/ ChangeExport \/ ChangeFixture

Spec == Init /\ [][Next]_vars

-----------------------------------------------------------------------------
(* Properties *)

\* Once close has given its receipt, however often it failed before and whatever
\* calls were in flight, no lease is active, no pending delivery is left (a commit
\* that won the race zeroes its copy itself), no export, fixture or admission file
\* remains.  Two things are not the coordinator's to remove: an export that failed and
\* could not be removed either, which has no record and which only the next start
\* finds; and the fixture of a handoff that was never staged, whose files its caller
\* removes when staging raises.
NothingLeftAfterClose ==
    up /\ receipt =>
        /\ \A s \in DOMAIN leases : leases[s] # "active"
        /\ ~rec.pending
        /\ buffer = "live" => \E c \in Call : call[c].pc = "zeroing"
        /\ export # "active"
        /\ directory # "absent" => export = "none" /\ rec.exportAttempted
        /\ rec.staged => fixture = "absent"
        /\ ~admission

\* The host gets the content as it was approved or not at all: a close that zeroes
\* the payloads while the result is built is never followed by the delivery of
\* zeroes, the content leaves in one call, and no copy of it stays behind.
DeliveredIsIntact ==
    /\ \A c \in Call : call[c].pc \in {"zeroing", "committed", "content"} =>
          call[c].result = "intact" /\ rec.executed
    /\ Cardinality({c \in Call : call[c].pc = "content"}) <= 1
    /\ \A c \in Call : call[c].pc \in {"committed", "content"} => buffer = "zero"

\* The proof of the chat is earned: the Work proof came first, the paths were
\* given out exactly once, and the export was removed, integral, before the
\* confirmation; a Work proof whose rendering was taken back ended the handoff.
ProofsAreEarned ==
    /\ released <= 1
    /\ released > 0 => rec.workConfirmed
    /\ rec.chatConfirmed =>
          rec.workConfirmed /\ released = 1 /\ export = "terminal" /\ verified
    /\ rec.workConfirmed => rec.rendered \/ rec.terminal

\* What lies on disk belongs to the running process: an admission file or an export
\* of a process that died is never seen beside a handoff that was not approved or
\* not exported.
FilesAreCurrent ==
    up => /\ admission => rec.approvalAttempted
          /\ directory # "absent" => rec.exportAttempted
=============================================================================
