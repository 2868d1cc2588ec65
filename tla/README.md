# Formal models of Système Local Gateway

TLA+ models, model-checking configurations and machine-checked proofs for the
gateway in `src/systeme_local_gateway` and the Rust crates in `crates`. Each
definition is translated from the source; `PROJECT.json` gives, for every one,
the file and the lines it stands for.

## The system

A gateway receives signed task envelopes from agents (HTTP `POST /tasks`, or MCP
tool calls that are turned into envelopes), authenticates them, evaluates a local
policy, asks a human operator for an approval where the policy says so, runs the
capability, and records everything in an HMAC-chained log.

| Component | State it keeps | Operations | Talks to |
|---|---|---|---|
| Replay guard (`auth.py`) | SQLite table `seen_nonces` | `verify_task`, `check_and_mark`, start-up pruning | task processor; other gateway processes through the database |
| Approval store and command line (`approvals.py`) | SQLite table `approvals` | `create`, `list_pending`, `inspect`, `approve`, `deny`, `consume`, start-up pruning | task processor; operators; both through the database |
| Audit log and anchor (`audit.py`, `audit_anchor.py`) | two append-only files, two lock files, two process-wide locks | `append`, `verify`, `bootstrap_anchor` | every component that audits; the watchdog through the anchor's lock file |
| Task processor (`task_processor.py`, `policy.py`, `executor.py`, `main.py`) | none of its own | `process` | all of the above |
| MCP runtime (`mcp_runtime.py`, `mcp_tools.py`) | rate-limiter queue, concurrency limiter, prepared results | `call_tool`, `handle_http_request` | task processor, audit log, renderer |
| Docker sandbox (`sandbox.py`) | workspace snapshot, bounded buffers, container | `run` | executor |
| Provider event store (`providers/store.py`, `state_machine.py`) | conversations, turns, runs, events | `register_*`, `append_event`, `replay` | provider adapters |
| Provider context registry (`providers/context_store.py`) | accounts, projects, conversations, quotas, histories | `register_*`, `replace_*`, `append_quota` | provider adapters |
| Attachment authority (`c9_attachment_security.py`) | leases of sanitized bytes, purposes of manifests, closed flag | `select_file`, `create_outbound_manifest`, `approve_manifest`, `inspect_manifest_payloads`, `clone_manifest_leases`, `consume_manifest`, cancel, expire, `close` | C9 coordinator; the selected files |
| Attachments (`providers/attachment_*.py`) | committed manifests | `commit_*`, `verify_*` | C9 coordinator |
| Change seals (`c6_seal.py` … `c9_seal.py`) | a manifest, a seal and an annotated tag in the git history | create manifest, create seal, verify | git; the operator who edits, commits, moves HEAD and tags in between |
| C7 admission (`c7_work_admission.py`) | none: committed profile and policy, a grant | `evaluate_c7_prelive`, `verify_committed_c8_governance` | C8 live cycle, facade |
| C8 live cycle (`c8_live_cycle.py`, `c8_proof_check.py`, `main.py`) | documents in files; a facade that runs or not | authorize, observe, issue the grant, start, serve, check proofs, negative, revoke, commit-final | operators; the audit log |
| Admission and evidence of the earlier stages (`c0_*` … `c6_*`) | receipts and bundles in files | `commit_*`, `verify_*`, `evaluate_*` | operators' scripts |
| C9 coordinator and control plane (`c9_handoff_runtime.py`, `c9_control_api.py`) | the one handoff of a process, its pending delivery, admission and execution files | stage, approve, execute, render, confirm, export, claim, close | attachment authority, manual export, MCP runtime, operators |
| Manual export (`c9_manual_export.py`) | one directory with the approved files, its record | `materialize`, `claim_paths`, `cleanup`, `close` | C9 coordinator; the operator's file picker |
| C9 live cycle and attestation (`c9_live_cycle.py`, `c9_attestation.py`) | dated documents in files | authorize, observe, issue the grant, correlate, negative, revoke, commit-final | C9 coordinator, audit log, git, operators |
| C9 private state and control guard (`c9_private_state.py`, `c9_control_guard.py`) | private files | `atomic_write`, access checks | C9 coordinator |
| Audit watchdog (Rust) | none | verify a project's witness under the anchor's lock | audit anchor |
| Evidence custodian (Rust) | session, staging root, lease, commitments, sanitized bytes, a prepared disposition | session transitions, stage, commit, sanitize, prepare, dispose, retain, release | operators; whoever else writes to the directory |

### What is hard here

* **Clocks read before locks.** `check_and_mark` and every operation of the
  approval store read the wall clock, then wait up to five seconds for SQLite's
  write lock, and prune and decide with what they read.
* **Several processes on one database or file**: gateway threads, a second
  gateway, command lines, the watchdog.
* **Two stores, no common transaction**: an approval is consumed in SQLite and
  its use is then recorded in the log; a record is written to the log and its
  checkpoint then to the anchor. Any of these steps may fail, be cut short, or be
  the last one before a crash.
* **Callbacks without the lock**: the attachment authority hands bytes to a
  consumer or an inspector with its lock released, while other threads cancel,
  expire, close or consume the same leases and somebody writes to the file.
* **A result rendered without the lock**: the tool call copies the pending payloads
  while a close may zero them in place, and may be cancelled before or after its
  rendering is committed.
* **Clean-up that fails**: closing removes an export, a fixture and a file in turn;
  any of the removals may fail half way and is tried again later, or never.
* **Retries, duplicates and gaps**: provider events come again, late, out of order
  or altered, and the same turn may be submitted twice.
* **Loaded, thought about, written back**: a client of the registry replaces the
  version it loaded, or chooses a surface on a quota it loaded, after others wrote.
* **Documents in files**: every command of a live cycle reads the files it is
  given. They may be of different cycles, grants or handoffs, and their windows may
  have closed since. The facade is admitted once, at its start, and serves on.
* **A history that moves**: between making a seal and verifying it the branch is
  extended, squashed, checked out elsewhere or tagged again.
* **Clean-up in stages**: the custodian's disposition may fail before each stage and
  is called again, while the directory changes under it.
* **Capacity**: both tables refuse when full, and refuse to start when over-full.
* **Progress**: a call takes three locks and two databases in turn.

The full list, at the lines where each hazard bites, is `hazards` in
`PROJECT.json`; it also names the properties that cover each one.

## Modules

| Module | Models |
|---|---|
| `ReplayGuard` | `verify_task`, `SQLiteReplayGuard` |
| `ReplayGuardProofs` | proofs about it |
| `ApprovalStore` | `ApprovalStore` and the phases of its command line |
| `ApprovalStoreProofs` | proofs about it |
| `AuditLedger` | what `AuditLog.append` promises its callers (abstract) |
| `AuditLog` | `AuditLog` with `FileAuditAnchor`; implements `AuditLedger` |
| `AuditLogProofs` | proofs about it, the refinement included |
| `Gateway` | `TaskProcessor.process` and the command line's `main`, composed from `ReplayGuard`, `ApprovalStore` and `AuditLedger` with `INSTANCE` |
| `GatewayProofs` | proofs about it, from those of its components |
| `EventStore` | the run state machine and the provider store |
| `ContextPolicy` | `select_chatgpt_experience` as operators |
| `ContextStore` | `ProviderContextStore` and its clients; extends `ContextPolicy` |
| `ProviderStores` | the two stores side by side |
| `ProviderStoresProofs` | proofs about both |
| `AttachmentSecurity` | `C9AttachmentSecurity` |
| `ManualExport` | `C9ManualExportManager`, as sub-actions |
| `Handoff` | `C9HandoffCoordinator`, its control plane and the rendering of the tool call; extends `ManualExport` |
| `C9Runtime` | the authority and the coordinator side by side |
| `C9RuntimeProofs` | proofs about both |
| `Custodian` | one custody session of the Rust custodian |
| `GitHistory` | the git commands the seals run (external) |
| `ChangeSeal` | creation and verification of the C6 to C9 seals; extends `GitHistory` |
| `WorkAdmission` | `evaluate_c7_prelive` and the C8 governance check as operators |
| `C8LiveCycle` | the C8 commands, the facade and its calls, the proof check; extends `WorkAdmission` |
| `C9Attestation` | the C9 commands and the dated documents of the coordinator |
| `StageEvidenceProofs` | proofs about `C8LiveCycle` and `ChangeSeal` |
| `OperatorEvidenceProofs` | proofs about `Custodian` and `C9Attestation` |
| `MC…` | values of the constants, symmetry and bounds for TLC; `MCProviderStores`, `MCC9Runtime` and `MCStageEvidence` put two independent components in one run |

### ReplayGuard

State: the clock, the rows of `seen_nonces`, and per call its control state, its
envelope and the `now_us` it read. A call is three steps, because the code reads
shared state at three separate moments: `VerifyTask` (the tests of `verify_task`
on its own reading of the clock), `ReadNow` (the second reading, at the top of
`check_and_mark`) and one transaction, which ends in `Accept`, `RejectReplay`,
`RejectFull` or `DatabaseUnavailable`. The transaction is atomic (`BEGIN
IMMEDIATE` … `commit`), and every end but `Accept` rolls back, so that pruned rows
are back. `Initialize` is the pruning at start-up, `Crash` and `Tick` are the
environment.

### ApprovalStore

The table is a function from identifiers to rows, with `Absent` for no row. An
operation is `Begin…` (arguments and clock) followed by its transaction. `approve`
on the command line is three phases, `Inspect`, `Confirm` and `Decide`, with the
operator's confirmation between the first two and a second clock reading. Two
history variables record what the store committed: `decisions` (what operators
decided, for which request) and `grants` (what `consume` authorised). A crash after
the commit, or an audit append that raises after it, leaves a decided row that the
command never reported; the model counts the decision at the commit.

### AuditLog and AuditLedger

Two files of lines, each of which may end in a partial line; three locks, the
lock files with a timeout; a thread verifies, catches the anchor up if the log is
ahead, writes its record, and writes its checkpoint, in separate steps any of
which may fail. HMACs are ideal: the HMAC of a record is the sequence of audit ids
up to it. `_THREAD_LOCK` of `audit_anchor.py` is always taken under `_LOCK` and is
therefore never contended; it has no variable. `Restore` puts an older copy of the
log back or repairs a partial line. The watchdog is its lock. Each behaviour is one
deployment, with an anchor or without (`anchored`, chosen from `Anchoring` at the
start and never changed).

`AuditLedger` says what callers see: an append that returns recorded its event; an
append that raises may have recorded it; nothing recorded is lost.

### Gateway

A call is a thread in `process`, an operator an invocation of the command line.
Their steps are steps of the components (`RG!Step`, `AS!Transact`,
`AL!Record`, …) and the branches between them. An exception of `append` is caught
nowhere in `process`, so `AuditRaises` answers with an error at whichever append
it happens. `executed` is a history of the capabilities that ran.

### EventStore

`apply_lifecycle_event` is `Verdict` (how it ends, in the order of the code's
tests) and `Advance` (the state it returns); `ReplayRows` applies them to the rows of
a run one by one. Each operation of the store is one `BEGIN IMMEDIATE` transaction and
hence one action, `RegisterConversation`, `RegisterTurn`, `RegisterRun` or
`AppendEvent`, whose outcome (`ConversationAnswer` … `EventAnswer`) is again the
code's tests in the code's order. Callers may offer every record of the constants
at any moment, which includes repetition, gaps, reordering and conflicts.
`Interrupted` is a transaction that is rolled back, `Damage` a row altered behind
the store. A fingerprint is the record itself. `append_event` looks for a used
`event_id` before it replays, the state machine only after its tests of sequence and
time, so an event that reuses an id and leaves a gap is a conflict to one and a gap to
the other; `ReplayAgrees` says exactly where the two may differ.

### AttachmentSecurity

State: the leases, the manifests and their purposes, the approvals, the closed
flag, and per thread the call it is in. An operation is as many steps as it has
sections under the lock, because the code tests the closed flag without it, reads
and sanitizes files without it, and runs consumers and inspectors without it. The
time a caller gives is the clock when its call begins; `completed_at` adds how long
the callback took, as the code does with its monotonic clock. `version` counts the
writes to a file: a lease remembers the version it was read from, which stands for
the digest. `handed` and `receipts` are histories: the approvals under which the
bytes of a lease were given to a consumer, and the receipts returned.

### ManualExport and Handoff

One process admits one handoff, so `rec` is the coordinator's single
`_HandoffRecord`: what was attempted (each step is tried once), what succeeded, and
whether the record is terminal. The operations of the coordinator hold its lock and
are one action each, in two forms where the code has two: one that succeeds, and
one that fails and ends the handoff (`ApproveFails`, `ExecuteFails`, …; an execution
that raises before it consumes anything only spends its one attempt). `stage` is
the exception: it runs the local AI under the lock, so it begins and ends, and
everything that needs the lock waits (`LockFree`).

A tool call is a process of its own: it executes under the lock, prepares under the
lock, builds the result without it (`BuildResult` reads the payloads as they are at
that moment), commits under it, zeroes the payloads after it, and only then answers.
`RenderFails` is the exception or cancellation that may come between any two of
these, the commit and its audit included; `FailRender` is the abort.

`ManualExport` is the manager's state and its operations as sub-actions; the
coordinator calls it only under its own lock. `directory` is what is on disk:
absent, as written, or anything else. The leases are reduced to what
`AttachmentSecurity` promises of them (active, consumed, ended). A crash keeps the
disk and loses the rest; a start removes the admission file and the exports of
earlier processes, not `work-execution.json` and not the fixtures.

### ContextStore and ContextPolicy

`heads` are the rows of accounts, projects and conversations, `history` their
version tables. A write is one `BEGIN IMMEDIATE` transaction and one action, whose
outcome (`AnswerOfRegister`, `AnswerOfReplace`, `AnswerOfQuota`) is the code's tests
in the code's order. `Load` and `LoadLatestQuota` leave in the client what it read;
`Replace` expects the revision of that version, however old. `Open` is
`_initialize` with `_verify_semantic_integrity`, which holds every old version
against the current accounts and projects. `Alter` changes a row behind the store,
so that its fingerprint no longer matches. `SelectChatgptExperience` is the
decision of `context_policy`; the quota it is given is the client's.

### Custodian

`disk` is the staging root with its lock, its source and anything else in it;
`custody` says who holds the handles (the caller, the prepared plan, nobody);
`plan.progress` is the clean-up's in-memory progress, which
`docs/operator-evidence-retention-disposition.md` says is kept "for retry after a
typed failure". Each stage of `dispose` and `retain` is an action and has one that
fails, so that a clean-up can stop before every stage and be resumed. The source is
verified by its path and then removed by its name, in two steps (`VerifySource`,
`RemoveSource`), and `Tamper`, somebody else in the directory, may come between them.
The lock file is the session's own or a foreign one. `Apply` is the public
`CustodySession::apply` with every action, retaining and disposing included. `Lose`
is a dropped handle or a process that dies. A commitment is the committed content.

### GitHistory and ChangeSeal

Commits are immutable and numbered; a tree gives each of six paths its content. The
git commands are external and modelled from how the four seal tools call them. A
digest is the value it is the digest of. Creation (`CreateC6Seal` …
`CreateC9Manifest`, `CreateC9Seal`) and verification keep each tool's own
differences: C6 looks at the branch and leaves its seal out of the changed paths,
C9 generates its manifest from an attestation, repeats in it what the C8 seal says
(`C8Dependency`) and has a verifier of its own for the C8 seal. That verifier's file
loader is stricter than the C8 tool's (duplicate keys, NaN, files over 2 MiB, the
amount of git output), which concerns the form of files the model does not have; that
the two verifiers agree is therefore not claimed. Between two commands the operator edits, commits some of the changed
paths, checks out, squash-merges and tags.

### WorkAdmission and C8LiveCycle

A document is a record with what the final verifier compares: its cycle, its grant,
its time, the documents it was made from. The operator runs commands in any order
the files allow, with documents of another cycle or grant; `StartFacade` is the
admission in `main.py`, once per start, and `Call` is served for as long as the
facade runs, in or out of its grant. `CheckProof` reads a response file, which the
operator writes: it may name any completed record and any date the checks allow. The
record is found by its audit id; its own timestamp is not compared. `FinalAccepts` is
`commit_final_attestation`. The dates that commands take as options are the clock's,
and HEAD, the local policy and the tool snapshot are one throughout, so that the
comparisons of these always hold.

### C9Attestation

Where `Handoff` has the coordinator's locks, failures and files, this module has
the dates: each operation leaves one document, and tool calls leave records in the
audit log, refused, failed and raced ones too. A call executes, is recorded,
prepares, commits and records its rendering in steps of their own, so a record may be
dated after the grant, and a Work confirmation may come before the rendering's
record. `Close` has a date that was read before it waited for the coordinator's lock. `Correlate`, `RunNegative`,
`CommitRevocation` and `CommitFinal` read documents of whichever handoff the
operator names, after HEAD or the C8 tag may have moved. The coordinator reads HEAD
when it approves and not again before it executes, so a move in between shows
only in the offline commands.

## Runs

| Run | Question | Bounds |
|---|---|---|
| `ReplayGuard` | Is a valid envelope ever accepted twice, the table over-full? | 3 calls, 6 envelopes (same nonce twice, forged, future), 2 rows, clock 0–3 |
| `ReplayGuardRace` | Is the README's "two processes cannot both accept the same task" true? It is not (see Findings). | fewer envelopes |
| `ApprovalStore` | Is an approval used once, for what was approved, under any interleaving? | 2 processes, 2 requests, 3 identifiers, 2 rows, lifetime 1, clock 0–1 |
| `AuditLog` | With a restored log and failing writes: does the log break itself, is a loss noticed, does it implement `AuditLedger`, does a lock holder leave? | 3 threads of 2 processes, 2 records, both deployments |
| `Gateway` | Is gated work run only when approved, on record first, and answered truthfully? | 3 calls (first submission, use, reuse), 1 operator, 1 crash, still clock |
| `GatewayComponents` | Does the composition run each component by its own specification, and nothing that was not admitted? | 2 calls, 6 kinds of envelope, 1 operator, 1 crash, clock 0–1 |
| `ProviderStores` | Events: is a turn run once, a retry recognised, a history well formed? Registry: is no update lost, does the next start accept the store, is Work chosen on good grounds? | 4 conversations, 4 turns, 5 runs, up to 8 events, 1 damaged row; 2 clients, 14 versions of 4 records, 3 quotas, 1 altered row |
| `C9Runtime` | Authority: are bytes handed over at most once, callbacks undisturbed, leases ended together? Coordinator: does content leave intact or not at all, is a proof earned, does a close leave nothing? | 2 threads, 2 leases, 2 manifests, 2 files, 1 write, clock 0–1; 2 tool calls, leases 4, approval 3, export 2 ticks, clock 0–4, any number of crashes and failing removals |
| `Custodian` | Is what the documents call absent absent, is a receipt true, is only verified content removed, does a retried clean-up complete? | 2 contents, one of which the sanitizer refuses, 2 failures, 2 changes by others, every order of transitions |
| `CustodianByHand` | Is absence verified before every transition to retained or disposed, as the lifecycle document says? It is not (see Findings). | as `Custodian` |
| `StageEvidence` | Live cycle: does a final attestation fit the grant, the calls and the order it names, and does evidence stay acceptable? Seals: does a verified seal mean the reviewed tree, does a fresh seal verify and stay valid? | 1 cycle and reports of another, 2 grants, 2 bundle files, 2 calls, 4 profiles, clock 0–2; each of 4 stages, 3 new commits, 2 changed paths at a time (1 for C9) |
| `C9Attestation` | Does an attestation mean one admitted call and no other; can what the coordinator confirmed be attested? | 2 handoffs, 1 cycle and a revocation of another, 2 heads, 2 tags, 3 audit records, clock 0–2 |

`ProviderStores`, `C9Runtime` and `StageEvidence` each hold two components that share
no variable. A
behaviour of both is an interleaving of one of each, and each property is about one
of them, so one is explored while the other is still in its initial state.

Why the bounds suffice for the cases of interest: a nonce race needs two calls of one
envelope and one more transaction that prunes (three calls or a restart); two rows with
three nonces reach a full table; a double use needs two consumers and an operator; a
broken chain needs two writers, and a third thread of the same process exercises the
process-wide lock; three records give a checkpoint before, at and after an interrupted
append. A clock of expiry plus one tick separates "before", "at" and "after" expiry. In
`EventStore` every record has a near twin that differs in one field (a second run of a
turn, a run with a used key, a run with the provider identifier of another, an event
with a used id or sequence number), so that every test of the code decides something,
and a history of eight events goes through a tool call with its approval to the final
audit. In `AttachmentSecurity` two manifests can share a lease, a manifest can have two,
and a clone can be consumed beside its original; a file is written only after somebody
has read it (`ChangesAreSeen`), since a version that nobody remembers is compared with
nothing. In `Handoff` the three lifetimes differ, so that each of them is the first to
end in some behaviour, and the clock reaches all of them; one call can deliver and a
second can interfere. In the registry two accounts claim one account of the provider, an
account tries to move, to be older and to give its mapping up, and a conversation joins
a project and leaves it. A clean-up has five stages that touch the disk or the memory;
two failures and two changes put an interruption at each of them and a second after it.
A seal needs a covered commit and a seal commit; the third commit is the one that comes
after. In `C8LiveCycle` a call can come before, in and after its grant, and the
observation's age, the grant and the authorization end at different ticks. The mutants
in `PROJECT.json` (pruning one tick early, a bound off by one, a lost comparison, a flag
not tested again, …) are all caught inside these bounds.

The clock never goes back in the models; the code reads `datetime.now` and has no
defence against a clock that is set back.

Where the run does not check for deadlock, the system may stop for good. A closed
authority with every lease terminal has nothing left to do (`C9Runtime`). A custody
session ends with its receipt, and one whose handles are lost stays as it is
(`Custodian`). A live cycle ends with its attestation or when its clock bound is
reached (`StageEvidence`, `C9Attestation`). A history is full after `MaxNew` commits
(`StageEvidence`). A store whose altered rows make every start fail cannot be opened any
more (`ProviderStores`).

### Fairness

`AuditLog`: weak fairness of each thread's own steps. A running thread keeps running,
and the lock files' timeouts end every wait by themselves. Nothing is assumed of the
watchdog or of crashes. `HolderLeaves` does not claim that a thread waiting for
`_LOCK` gets it: a `threading.RLock` is not fair, and the code does not claim it is.

`Custodian`: weak fairness of the clean-up. The API returns the prepared
disposition to its caller on a typed failure so that it can be called again;
`CleanUpCompletes` says that a caller who does so is done in the end, unless someone
interferes with the directory or he moves the session by hand in between. Failures are bounded: a disk that fails for ever is
never cleaned.

### What the runs show

* One nonce is never accepted twice while its envelopes are valid; the stale clock
  of a waiting call only lets an already expired task in a second time.
* An approval is used at most once and only for the approved request; opposite
  decisions are never both committed; there is at most one usable
  approval per request.
* Appends never break the chain; after a crash between log and anchor the next
  operation repairs the lag; a lost acknowledged record is always detected when an
  anchor is configured; a holder of the locks leaves, also when the watchdog never
  gives the anchor's lock back.
* A gated capability runs only under an approval granted for its request, after
  the use of the approval is on record; what a caller is told is on record; an
  approval can be lost to an audit failure or a crash, but never silently
  (`docs/threat-model.md` names the missing common transaction as a residual
  limit).
* A turn, an idempotency key and a run of the provider belong to one stored run;
  what was accepted once is answered "duplicate" for ever; a stored history is one
  the state machine accepts, and its rows alone tell a legal story: a start, tool calls
  resolved once and after their approvals, an end with nothing pending, one final audit.
* A replacement in the registry supersedes the version its client had loaded. What
  `register` and `replace` let in, the checks of the next start never call corrupt,
  although they hold old versions against current parents. However stale its
  inputs, a decision for Work rests on an available account and its own recent,
  usable quota.
* The bytes of a lease reach a consumer at most once, also when manifests share it;
  nothing ends a lease under a running callback and no lease stays locked after
  one; the leases of a consumed manifest end together.
* The content of a handoff leaves in one tool call, as approved: a close that zeroes
  the payloads while the result is built makes the commit fail. The proof of the
  chat presupposes the proof of Work, one release of the paths, and an export that
  was removed unchanged. A close that gives
  its receipt has removed everything it knows of; the exception the run brings out
  is an export whose writing failed and whose removal failed too: it has no record,
  so that only the next start finds it. A `work-execution.json` of an earlier
  process makes the next execution fail for good, because a metadata file is never
  overwritten; the run contains these behaviours.
* What the custodian's clean-up, a retained result and a receipt say is absent is
  absent, whatever failed on the way, also when the caller moves the session by hand.
  A source is removed only in a call that verified the committed content; another
  content goes only if it was swapped in between the verification and the removal. The
  sanitized bytes come from the committed content. What a refused preparation or a
  process that dies leaves behind, the lock file included, has no recovery in the
  crate.
* A seal that verifies against the current tree means that HEAD has the reviewed
  content of every covered path and changes no unlisted one. A seal that was made and
  committed alone on its covered head verifies, and goes on verifying while its tag
  stands.
* A C8 attestation speaks of two distinct calls on record, dated inside their grant
  and authorization and in the order claimed; and it can be made after the windows
  closed (`docs/adr/0015`: "historical HMAC-bound evidence does not become false
  merely because that window later closes"). The date is that of the operator's
  response file (`c8_proof_check.py:187`). The same ADR asks that "A valid call must be
  proved to have occurred inside its grant window"; of the audit record, which has the
  call's real time, only the id, the capability, the status and the provider are
  compared (139-153). Whether the facade, which goes on serving after its grant,
  answered inside it therefore follows only where the response files are genuine, and
  `AttestationIsTrue` has that premise.
* A C9 attestation means that the audit log, up to the correlation, has one admitted
  and rendered call and no other. A handoff that was confirmed, closed and correlated
  is refused by the final verifier only when HEAD or the C8 tag is not the granted
  one, or when its close is dated before a confirmation. The latter is a race the
  model brings out: `c9_control_api.py:637` reads `closed_at` outside the control lock
  and before the coordinator's, so that a `confirm_chat` that reads its clock later
  may get the lock first, and `c9_attestation.py:1475` then refuses the run. But for
  it, the deadlines of the coordinator and of the verifier fit together.

### Findings

`ReplayGuardRace`: `README.md`, "Protection anti-rejeu persistante", says that two
processes that receive the same task at the same time cannot both accept it. A
call that read the clock before the task expired, and obtained the write lock only
after another transaction had pruned the expired row, accepts it again. The window
is the wait for the write lock (at most the busy timeout); both acceptances concern
a task that has expired by then for every other reader of the clock.

`CustodianByHand`: `docs/operator-evidence-session-lifecycle.md` says that "Raw source,
lease and controlled-root logical absence is verified before `sealed -> retained` or
any terminal `dispose` transition." The stages of a prepared disposition do so; the
public `CustodySession::apply` (`session.rs:230`) makes the same transitions for any
caller without looking at the staging root, as `tests/session_lifecycle.rs` does.

## Proofs

`tlapm` proves the theorems below for every value of the constants: any number of calls,
threads, processes, clients, operators, records and files, every capacity, lifetime and
clock bound. The only assumptions are the named `ASSUME`s of the modules
(`ReplayAssumption`, `ApprovalAssumption`, `GatewayAssumption`, `AuditAssumption`,
`RegistryAssumption`, `CoordinatorAssumption`, `C8Assumption`, …). They give the
constants their types, keep marker values such as `"none"` apart from identifiers
(`NoFileAssumption`: no file is not a tag), and say what the code's validated models
guarantee of the records offered (`EventStoreAssumption`: a terminal event has a
status). `C9Assumption` takes the lifetimes to be positive and the first HEAD to have
the exact C8 tag as an ancestor; `SealAssumption` says which stages there are. TLC
evaluates each on every run that uses it. `AttachmentSecurity` assumes in addition that
`Lease` is finite: the identifiers issued in one process are.

Two modules that share no variable may have their proofs in one module, under separate
headings: `ProviderStoresProofs`, `C9RuntimeProofs`, `OperatorEvidenceProofs` and
`StageEvidenceProofs`. To allow it, the specifications of `ChangeSeal` and
`C9Attestation` are named `SealSpec` and `CycleSpec`.

An invariant that matters is seldom inductive. Each proof module states one inductive
invariant as a conjunction of named parts, one lemma per action or group of actions
that preserves it, and the theorems as consequences.

* **ReplayGuardProofs.** `TypeCorrect`; `NoReplay`: `NoReplayWhileValid` is not
  inductive, since it says nothing of the table. The invariant `IInv` adds that the
  row of an accepted, unexpired envelope is in the table (`AcceptedIsRecorded`) and
  that a waiting call's clock is not ahead of the real one and before its
  envelope's expiry (`WaitingClockIsPast`): a transaction with a past clock cannot
  prune an unexpired row, and a second call finds it. `Bounded`: the table is
  finite, has one row per nonce and at most `MaxEntries` rows; the cardinality
  argument uses the finite-set theorems. `NeverForgotten` is an action property
  from the same invariant.
* **ApprovalStoreProofs.** `IInv` relates the table to the two histories:
  `FreshIds` (an identifier never issued has no decision and no grant),
  `DecisionsHold` (a reported decision is still the row's, and an approved row has
  one), `GrantsHold` (a used approval's row is consumed or gone), `OneOpen`, and
  `CallInv` (a begun operation's clock is not ahead). It is stated of an arbitrary
  table, `TableInv(rows)`, so that one lemma (`PruneKeeps`) shows that pruning keeps
  it, and each transaction is proved on the pruned table. From it: `TypeCorrect`,
  `Consumption`, `Authorised`, `Decisions`, `OneOpenApproval`, the action property
  `LifeCycle`, and `Bounded`, which adds that the identifiers with a row are finitely
  many and at most `MaxEntries`.
* **GatewayProofs.** The gateway takes only its components' steps
  (`TakesTheirSteps`), which gives `Components`: it runs the replay guard, the
  approval store and the ledger by their own specifications. The invariants proved
  of the guard and of the store alone therefore hold inside the gateway, and enter
  its own as instances (`RGP!IInv`, `ASP!IInv`) without being proved again. What is
  added ties a call's place in `process` to what the components hold for it: which
  approval it used, what it still has to record, what it may answer. From it
  `GatedExecution`, `Admission`, `Answers` and `LostApproval`.
* **AuditLogProofs.** `IInv` has a part for what an older copy of the log cannot
  touch, and one for what it can. `History` holds throughout: the checkpoints tell
  one history, and what a thread is about to anchor extends what is anchored. `Sound`
  holds until an older copy is put back: the chain, the fresh ids, a scan under the
  lock that is what the log holds, an anchor at most one record behind. Both rest on
  `Exclusive` (one thread past the log's lock file). That the HMAC of a record commits
  to all before it (`ChainCommits`) is an induction over the log, made by its least
  counterexample. `Integrity` follows from `Sound`; `Detection` from `History` and
  `ChainCommits`: a log that verifies against the last checkpoint contains every
  acknowledged record. `Implementation` is the refinement of `AuditLedger`, action by
  action: writing the line is what records the event, every return and failure is the
  caller's, and all else is invisible.
* **ProviderStoresProofs, the event store.** `AtMostOneRun`: the invariant adds `Owned`
  (a conversation has one row, and every stored turn lies in a conversation of its
  agent), so that the rows `register_run` reads are the ones the run names. `Retry`: the
  invariant adds `Accepted` (a stored turn's conversation would still take it, an
  event's run is there), so that no earlier test answers a repeated call before its own
  row is found. `HistoriesAreWellFormed` needs to know what replaying any number of rows
  gives. `ReplayRows` is a recursive function; that it exists, is unique and takes one
  more step for one more row (`ReplayOfAppend`) is shown by the least number of rows for
  which it would fail. `Rows` sorts by counting smaller sequence numbers;
  `NumberedIsSorted` gives its value for rows numbered without a gap. The invariant
  `Histories` says of every run that its rows are so numbered, replay without an error,
  are each legal after those before, and that the state they replay to remembers them
  (`Tracked`): the rows and their ids, how far the response has come, which tool calls
  are pending and which resolved, which approvals are open. A row the state machine
  takes keeps `Tracked` field by field (`RowsStep`, `StatusStep`, `ToolsStep`,
  `ApprovalsStep`), and is legal because of what `Tracked` says of the rows before it
  (`LatestRowIsLegal`). `StoreAgrees` then compares the answers of the store and of the
  state machine to every event that may come next.
* **ProviderStoresProofs, the registry.** `Versions`: an id has one head, the last of a
  gapless history with unshared revisions; `Agreement`: every recorded version agrees
  with the current accounts and projects, because a replacement keeps account, surface
  and creation (`HeadStays`); `Basis`: what a client loaded is on record. From them
  `Restart` (with a bijection between revisions and versions for the count that the
  start-up compares), the action property `NoneLost`, and, with a lemma about
  `select_chatgpt_experience` for arbitrary arguments (`SelectsRight`), `Justification`.
* **C9RuntimeProofs, the authority.** What a call knows about its leases stays true
  between its sections (`CallInv`), clones in progress are their call's own
  (`CloneInv`), and callbacks and locked leases are each other's (`OwnInv`), so that a
  lease is handed over under one approval (`HandInv`). From it `HandedOverOnce`,
  `Ownership` and `Together`.
* **C9RuntimeProofs, the coordinator.** `RecordInv` is the order in which the one
  record is filled; `ProcessInv` says that a process that is down or has staged
  nothing has no call in hand. `DeliveryInv` carries the argument about the payloads:
  one call has the delivery, from its execution to its answer, and the payloads are
  there exactly while it is pending or that call is about to zero them, so a second
  call, a close or a failed rendering cannot have zeroed what an answer was built
  from. `ExportInv` ties the manager's record and directory to the coordinator's
  record, and `CloseInv` is what a receipt left behind. One lemma (`SetsFields`) says
  what setting flags does to every field; one (`CleanupStep`) covers the clean-up of
  an export wherever it is called, one (`CloseCoreStep`) what every attempt to close
  does first. From it `CloseLeavesNothing`, `IntactOrNothing`, `ProofsEarned` and
  `FilesCurrent`.
* **OperatorEvidenceProofs, the custodian.** The stage of a clean-up determines what is
  left on the disk (`DiskInv`), who holds the custody (`PlanInv`), which reason and
  deadline belong together (`ReasonInv`) and where the sanitized bytes are
  (`ArtifactInv`), whatever failed, was changed by others or was applied by hand in
  between. From it `Disposal`, `Truth` and the action property `Removal`, which also
  needs that a verified source has only been changed by others since.
* **OperatorEvidenceProofs, the C9 live cycle.** `CycleInv` (`CycleInvariant`) says of
  every handoff (`HandoffIsSound`) that each of its documents was written after those
  it rests on and before their windows closed, that a close receipt, however it is
  dated, tells of all of them, and that the process which runs the handoff remembers
  what is on file; and of the offline documents, that each was made from the ones it
  names (`OfflineInv`), the correlation from two records between the execution and the
  Work proof. That these records lie in the grant is not invariant, since they are
  written late; it follows for an attested call because the final verifier finds its
  Work proof inside the grant. The
  correlation covers a prefix of the log, and the log only grows, so what the operator
  does later cannot add a call to it: `AttestedCallIsTheOnlyOne`.
  `ConfirmedRunPasses` goes through the checks of the final verifier one by one and
  finds each deadline implied by those the coordinator kept, given that the close is
  not dated before a confirmation.
* **StageEvidenceProofs, the C8 live cycle.** No command rewrites an authorization, a
  bundle, a proof or a served call (`Keeps`), so what was sound of a document when it
  was written stays so (`KeepingIsEnough`), and each command is left with what it adds.
  `BundleInv` is what a grant was issued on: the authorization on file, whose window
  contains the grant's, fresh observations, a supported and current profile; `ProofInv`,
  that an accepted proof names a completed record; `FinalInv`, that the attestation's
  documents are the ones on file, dated inside the grant in their order. From it `FinalIsTrue`. `EvidenceLasts`
  adds that the clock does not go back (`ClockIsMonotone`).
* **StageEvidenceProofs, the seals.** `HistoryInv`: a commit's parent is older than it,
  so ancestry, a recursive function over the commits, can be unfolded; HEAD and the tags
  name commits. `SealsInv`: every seal of the stage, in whichever commit or in the
  worktree, is `Genuine`, which is to say that create wrote it for the commit it covers;
  edits, commits and squash merges only carry seals from one tree to another
  (`EverySealIsGenuine`). Commits are never changed, so what a seal says of them stays
  true as the history grows. From it `CurrentVerificationIsReview`,
  `FreshSealsAreAccepted` and the action property `EvidenceOutlivesBranch`.

`TypeCorrect`, `RegistryTypeCorrect`, `NeverForgotten`, `LifeCycle`, `CycleInvariant`,
`EverySealIsGenuine` and the approval store's `Bounded` are stated by theorems only; the
other theorems state properties that a run checks on a small instance.

The proofs also changed the models. A `CASE` whose guards overlap has no fixed value
in TLA+, though TLC takes the first arm that is true; the refinement mapping of
`AuditLog` and the answers of `EventStore` and `AttachmentSecurity` relied on that
order and now state it. `ReplayAgrees` used to say that store and state machine always
give the same answer, which the proof attempt refuted for an event that reuses an id
and also leaves a gap or comes from before the run; the property now says what is true,
and the run offers such an event.

### Only model-checked

* Liveness (`HolderLeaves`, `CleanUpCompletes`): the proof system does not reason
  about fairness or `ENABLED`.

Every invariant and every action property of a passing run is also a theorem.
The induction theorems of the proof library take an operator as a parameter, which the
provers cannot instantiate; where a proof needs an induction over data it argues from a
least counterexample instead, which the library's `WFMin` gives.

## Plan

Done: replay guard, approval store, audit log, their composition, the two provider
stores, the attachment authority, the handoff with its export and rendering, the
custodian, the change seals, the C8 and C9 cycles up to their attestations; proofs
about all of these. Next:

1. **MCP runtime**: the rate limiter and the admission of a request, beside the
   rendering that `Handoff` has.
2. **Sandbox**: snapshot and manifest, bounded buffer, timeout against drain.

## Not modelled

HMAC, canonical JSON and redaction (ideal, or invisible to the properties);
database schema checks, file-type and permission checks (start-up validation);
parsing of image, PDF and text bytes; PowerShell scripts; the provider fakes. The
stages C0 to C6 are sequential commands that hold committed documents against fixed
digests and tables; they keep no state and meet nothing concurrent.

Outside the models as well, and known limits of the code: a wall clock that is set
back; an older replay database put back by hand (`docs/threat-model.md`).
`components` in `PROJECT.json` lists every part with its status and reason.
