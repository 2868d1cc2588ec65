------------------------------ MODULE AuditLog ------------------------------
(***************************************************************************)
(* The HMAC-chained audit log (audit.py) and its external anchor           *)
(* (audit_anchor.py).  Threads of several processes append, verify and     *)
(* bootstrap; each operation takes the process-wide lock _LOCK (no         *)
(* timeout), the lock file of the log (timeout), the lock file of the      *)
(* anchor (timeout; the watchdog takes it too), and then reads and writes  *)
(* the two files in separate steps, any of which may fail or be cut short. *)
(*                                                                         *)
(* HMACs are ideal: the HMAC of a record is the sequence of the audit ids  *)
(* up to it, which is what the chain commits to.                           *)
(***************************************************************************)
EXTENDS Integers, Sequences, SequencesExt

CONSTANTS
    Thread,
    Process,
    ProcessOf,       \* the process each thread belongs to
    Event,           \* projected events (project_audit_event)
    Anchoring,       \* is an anchor configured: the deployments considered
    AllowRestore,    \* may an older copy of the log be put back
    MaxRecords       \* bound on the number of records written

ASSUME AuditAssumption ==
    /\ ProcessOf \in [Thread -> Process]
    /\ Anchoring \subseteq BOOLEAN
    /\ AllowRestore \in BOOLEAN
    /\ MaxRecords \in Nat
    /\ "none" \notin Thread /\ "watchdog" \notin Thread
    /\ "none" \notin Event

VARIABLES
    log,          \* complete lines of the log
    torn,         \* the log ends with a partial line
    anchor,       \* complete lines of the anchor
    anchorTorn,   \* the anchor ends with a partial line
    nextId,       \* uuid4 never repeats: the next audit id
    threadLock,   \* holder of _LOCK in each process, or "none"
    fileLock,     \* holder of the log's lock file, or "none"
    anchorLock,   \* holder of the anchor's lock file, "watchdog" or "none"
    pc,           \* control state of each thread
    op,           \* its operation
    event,        \* the event it appends, or "none"
    scan,         \* the AuditVerification it works with: records, last_hmac
    out,          \* how its last append ended: "none", "ok" or "failed"
    acked,        \* history: HMACs of records whose append returned
    restored,     \* history: records were lost to an older copy of the log
    anchored      \* is an anchor configured

fileVars == <<log, torn, anchor, anchorTorn, nextId>>
lockVars == <<threadLock, fileLock, anchorLock>>
threadVars == <<pc, op, event, scan, out>>
vars == <<fileVars, lockVars, threadVars, acked, restored, anchored>>

\* A control state names the step the thread takes next.
PC == {"idle", "threadLock", "fileLock", "anchorLock",
       "verify", "catchUp", "write", "checkpoint", "return"}

Hmacs == Seq(Nat)
Record == [id : Nat, event : Event, prev : Hmacs]
Checkpoint == [records : Nat, last : Hmacs, prev : Nat]
NoScan == [records |-> 0, last |-> <<>>]

TypeOK ==
    /\ log \in Seq(Record)
    /\ anchor \in Seq(Checkpoint)
    /\ torn \in BOOLEAN /\ anchorTorn \in BOOLEAN
    /\ nextId \in Nat
    /\ threadLock \in [Process -> Thread \cup {"none"}]
    /\ fileLock \in Thread \cup {"none"}
    /\ anchorLock \in Thread \cup {"none", "watchdog"}
    /\ pc \in [Thread -> PC]
    /\ op \in [Thread -> {"none", "append", "verify", "bootstrap"}]
    /\ event \in [Thread -> Event \cup {"none"}]
    /\ scan \in [Thread -> [records : Nat, last : Hmacs]]
    /\ out \in [Thread -> {"none", "ok", "failed"}]
    /\ acked \in SUBSET Hmacs
    /\ restored \in BOOLEAN
    /\ anchored \in Anchoring

Init ==
    /\ log = <<>> /\ torn = FALSE
    /\ anchor = <<>> /\ anchorTorn = FALSE
    /\ nextId = 1
    /\ threadLock = [p \in Process |-> "none"]
    /\ fileLock = "none" /\ anchorLock = "none"
    /\ pc = [t \in Thread |-> "idle"]
    /\ op = [t \in Thread |-> "none"]
    /\ event = [t \in Thread |-> "none"]
    /\ scan = [t \in Thread |-> NoScan]
    /\ out = [t \in Thread |-> "none"]
    /\ acked = {}
    /\ restored = FALSE
    /\ anchored \in Anchoring

-----------------------------------------------------------------------------
(* Reading the two files *)

\* entry_hmac of a record.
EntryHmac(r) == Append(r.prev, r.id)

\* The HMAC of the n-th record; the genesis HMAC for n = 0.
HmacAt(l, n) == IF n = 0 THEN <<>> ELSE EntryHmac(l[n])

\* _scan_unlocked accepts the log: a final newline, an unbroken chain, no
\* duplicate audit id.
LogValid ==
    /\ ~torn
    /\ \A k \in 1..Len(log) : log[k].prev = HmacAt(log, k - 1)
    /\ \A j, k \in 1..Len(log) : log[j].id = log[k].id => j = k

\* FileAuditAnchor._verify_unlocked accepts the anchor.
AnchorValid ==
    /\ anchor # <<>>
    /\ ~anchorTorn
    /\ \A k \in 1..Len(anchor) : anchor[k].prev = k - 1
    /\ \A k \in 2..Len(anchor) : anchor[k - 1].records < anchor[k].records

LastCheckpoint == anchor[Len(anchor)]

\* Mutant: a log that is shorter than the anchor says is accepted.
MatchesAnchorIfLong ==
    LastCheckpoint.records <= Len(log)
        => HmacAt(log, LastCheckpoint.records) = LastCheckpoint.last

\* The log holds the record the last checkpoint names: neither a rollback nor
\* a divergence.
MatchesAnchor ==
    /\ LastCheckpoint.records <= Len(log)
    /\ HmacAt(log, LastCheckpoint.records) = LastCheckpoint.last

\* What verify() accepts.
Verifies == LogValid /\ (anchored => AnchorValid /\ MatchesAnchor)

-----------------------------------------------------------------------------
(* Starting an operation, taking the locks *)

Begin(t, o, e) ==
    /\ pc[t] = "idle"
    /\ pc' = [pc EXCEPT ![t] = "threadLock"]
    /\ op' = [op EXCEPT ![t] = o]
    /\ event' = [event EXCEPT ![t] = e]
    /\ out' = [out EXCEPT ![t] = "none"]
    /\ UNCHANGED <<fileVars, lockVars, scan, acked, restored, anchored>>

BeginAppend(t, e) == Begin(t, "append", e)
BeginVerify(t) == Begin(t, "verify", "none")

\* bootstrap_anchor refuses to run without a configured anchor.
BeginBootstrap(t) == anchored /\ Begin(t, "bootstrap", "none")

\* The with blocks end: t releases what it holds; out tells an append's end.
Leave(t, outcome) ==
    /\ pc' = [pc EXCEPT ![t] = "idle"]
    /\ op' = [op EXCEPT ![t] = "none"]
    /\ event' = [event EXCEPT ![t] = "none"]
    /\ scan' = [scan EXCEPT ![t] = NoScan]
    /\ out' = [out EXCEPT ![t] = IF op[t] = "append" THEN outcome ELSE "none"]
    /\ threadLock' = [p \in Process |->
                        IF threadLock[p] = t THEN "none" ELSE threadLock[p]]
    /\ fileLock' = IF fileLock = t THEN "none" ELSE fileLock
    /\ anchorLock' = IF anchorLock = t THEN "none" ELSE anchorLock

Goto(t, next) ==
    /\ pc' = [pc EXCEPT ![t] = next]
    /\ UNCHANGED <<op, event, out>>

\* with _LOCK: one thread of a process at a time.
TakeThreadLock(t) ==
    /\ pc[t] = "threadLock"
    /\ threadLock[ProcessOf[t]] = "none"
    /\ threadLock' = [threadLock EXCEPT ![ProcessOf[t]] = t]
    /\ Goto(t, "fileLock")
    /\ UNCHANGED <<fileVars, fileLock, anchorLock, scan, acked, restored, anchored>>

\* _process_lock: one process at a time.
TakeFileLock(t) ==
    /\ pc[t] = "fileLock"
    /\ fileLock = "none"
    /\ fileLock' = t
    /\ Goto(t, IF anchored THEN "anchorLock" ELSE "verify")
    /\ UNCHANGED <<fileVars, threadLock, anchorLock, scan, acked, restored, anchored>>

\* FileAuditAnchor.transaction: excludes the watchdog too.  Its own thread lock
\* is only ever taken under _LOCK and is free here.
TakeAnchorLock(t) ==
    /\ pc[t] = "anchorLock"
    /\ anchorLock = "none"
    /\ anchorLock' = t
    /\ Goto(t, "verify")
    /\ UNCHANGED <<fileVars, threadLock, fileLock, scan, acked, restored, anchored>>

\* Mutant: a contended lock file is waited for without a timeout.
WaitForever(t) == FALSE /\ UNCHANGED vars

\* A lock file stays contended until the timeout, or cannot be opened.
LockTimeout(t) ==
    /\ pc[t] \in {"fileLock", "anchorLock"}
    /\ Leave(t, "failed")
    /\ UNCHANGED <<fileVars, acked, restored, anchored>>

-----------------------------------------------------------------------------
(* Under the locks *)

\* What each operation demands of the two files: bootstrap an intact log and
\* an anchor that is still empty, the others everything verify() checks.
Acceptable(t) ==
    IF op[t] = "bootstrap" THEN LogValid /\ anchor = <<>> /\ ~anchorTorn
                           ELSE Verifies

\* Mutant: a log that is ahead of its anchor is left as it is.
NeverBehind(t) == FALSE

\* Must the anchor first be brought up to a log that is ahead of it?
Behind(t) == anchored /\ op[t] # "bootstrap" /\ LastCheckpoint.records < Len(log)

\* The verification succeeds, and the operation goes on with what it scanned.
Verify(t) ==
    /\ pc[t] = "verify"
    /\ Acceptable(t)
    /\ op[t] = "verify" => Behind(t)
    /\ scan' = [scan EXCEPT ![t] = [records |-> Len(log),
                                    last |-> HmacAt(log, Len(log))]]
    /\ Goto(t, CASE op[t] = "bootstrap" -> "checkpoint"
                 [] Behind(t) -> "catchUp"
                 [] OTHER -> "write")
    /\ UNCHANGED <<fileVars, lockVars, acked, restored, anchored>>

\* verify() with nothing to catch up returns.
VerifyReturns(t) ==
    /\ pc[t] = "verify" /\ op[t] = "verify"
    /\ Acceptable(t) /\ ~Behind(t)
    /\ Leave(t, "ok")
    /\ UNCHANGED <<fileVars, acked, restored, anchored>>

\* AuditIntegrityError, AuditAnchorError, or an unreadable file.
VerifyFails(t) ==
    /\ pc[t] = "verify"
    /\ Leave(t, "failed")
    /\ UNCHANGED <<fileVars, acked, restored, anchored>>

NewRecord(t) == [id |-> nextId, event |-> event[t], prev |-> scan[t].last]

\* Mutant: the log is opened for writing instead of appending.
RewriteLog(t) ==
    /\ pc[t] = "write"
    /\ nextId <= MaxRecords
    /\ log' = <<NewRecord(t)>>
    /\ nextId' = nextId + 1
    /\ scan' = [scan EXCEPT ![t] = [records |-> scan[t].records + 1,
                                    last |-> EntryHmac(NewRecord(t))]]
    /\ Goto(t, IF anchored THEN "checkpoint" ELSE "return")
    /\ UNCHANGED <<torn, anchor, anchorTorn, lockVars, acked, restored, anchored>>

\* The line is written and flushed; the fsync, and with an anchor the
\* checkpoint, come next.
WriteRecord(t) ==
    /\ pc[t] = "write"
    /\ nextId <= MaxRecords
    /\ log' = Append(log, NewRecord(t))
    /\ nextId' = nextId + 1
    /\ scan' = [scan EXCEPT ![t] = [records |-> scan[t].records + 1,
                                    last |-> EntryHmac(NewRecord(t))]]
    /\ Goto(t, IF anchored THEN "checkpoint" ELSE "return")
    /\ UNCHANGED <<torn, anchor, anchorTorn, lockVars, acked, restored, anchored>>

\* Without an anchor append returns after the fsync.
AppendReturns(t) ==
    /\ pc[t] = "return"
    /\ acked' = acked \cup {scan[t].last}
    /\ Leave(t, "ok")
    /\ UNCHANGED <<fileVars, restored, anchored>>

\* OSError while writing: nothing is written, or only part of the line.
WriteFails(t) ==
    /\ pc[t] = "write"
    /\ torn' \in {torn, TRUE}
    /\ Leave(t, "failed")
    /\ UNCHANGED <<log, nextId, anchor, anchorTorn, acked, restored, anchored>>

\* OSError of the fsync after a complete write: the record stays.
SyncFails(t) ==
    /\ pc[t] = "return" \/ (pc[t] = "checkpoint" /\ op[t] = "append")
    /\ Leave(t, "failed")
    /\ UNCHANGED <<fileVars, acked, restored, anchored>>

\* AuditAnchorTransaction.append verifies the anchor again and demands that
\* the count increases; bootstrap found the anchor empty.
MayCheckpoint(t) ==
    op[t] # "bootstrap" => AnchorValid /\ LastCheckpoint.records < scan[t].records

NewCheckpoint(t) ==
    [records |-> scan[t].records, last |-> scan[t].last, prev |-> Len(anchor)]

\* The checkpoint is written in full, and the re-verification accepts it.
AppendCheckpoint(t) ==
    /\ MayCheckpoint(t)
    /\ anchor' = Append(anchor, NewCheckpoint(t))
    /\ UNCHANGED anchorTorn

\* The anchor is brought up to the log before the append's own record.
CatchUp(t) ==
    /\ pc[t] = "catchUp" /\ op[t] = "append"
    /\ AppendCheckpoint(t)
    /\ Goto(t, "write")
    /\ UNCHANGED <<log, torn, nextId, lockVars, scan, acked, restored, anchored>>

\* The last checkpoint of the operation: it returns.
CheckpointReturns(t) ==
    /\ pc[t] = "checkpoint" \/ (pc[t] = "catchUp" /\ op[t] = "verify")
    /\ AppendCheckpoint(t)
    /\ acked' = IF op[t] = "append" THEN acked \cup {scan[t].last} ELSE acked
    /\ Leave(t, "ok")
    /\ UNCHANGED <<log, torn, nextId, restored, anchored>>

\* The anchor is refused, or nothing, part or all of the line is written before
\* an error: a short os.write is only noticed by the re-verification.
CheckpointFails(t) ==
    /\ pc[t] \in {"catchUp", "checkpoint"}
    /\ \/ UNCHANGED <<anchor, anchorTorn>>
       \/ MayCheckpoint(t) /\ anchorTorn' = TRUE /\ UNCHANGED anchor
       \/ AppendCheckpoint(t)
    /\ Leave(t, "failed")
    /\ UNCHANGED <<log, torn, nextId, acked, restored, anchored>>

-----------------------------------------------------------------------------
(* The environment *)

\* A process dies: its locks are released, its threads are gone.
Crash(p) ==
    LET dead == {t \in Thread : ProcessOf[t] = p} IN
    /\ pc' = [t \in Thread |-> IF t \in dead THEN "idle" ELSE pc[t]]
    /\ op' = [t \in Thread |-> IF t \in dead THEN "none" ELSE op[t]]
    /\ event' = [t \in Thread |-> IF t \in dead THEN "none" ELSE event[t]]
    /\ scan' = [t \in Thread |-> IF t \in dead THEN NoScan ELSE scan[t]]
    /\ out' = [t \in Thread |-> IF t \in dead THEN "none" ELSE out[t]]
    /\ threadLock' = [threadLock EXCEPT ![p] = "none"]
    /\ fileLock' = IF fileLock \in dead THEN "none" ELSE fileLock
    /\ anchorLock' = IF anchorLock \in dead THEN "none" ELSE anchorLock
    /\ UNCHANGED <<fileVars, acked, restored, anchored>>

\* The watchdog reads the anchor under its lock (crates/audit-watchdog).
WatchdogLocks ==
    /\ anchored /\ anchorLock = "none"
    /\ anchorLock' = "watchdog"
    /\ UNCHANGED <<fileVars, threadLock, fileLock, threadVars, acked, restored, anchored>>

WatchdogUnlocks ==
    /\ anchorLock = "watchdog"
    /\ anchorLock' = "none"
    /\ UNCHANGED <<fileVars, threadLock, fileLock, threadVars, acked, restored, anchored>>

\* Someone puts back an older copy of the log, or repairs a partial last line.
\* The anchor is on storage of its own and is left alone.
Restore(n) ==
    /\ AllowRestore /\ ~restored
    /\ n < Len(log) \/ torn
    /\ log' = SubSeq(log, 1, n)
    /\ torn' = FALSE
    /\ restored' = (n < Len(log))
    /\ UNCHANGED <<anchor, anchorTorn, nextId, lockVars, threadVars, acked, anchored>>

Step(t) ==
    \/ TakeThreadLock(t)
    \/ TakeFileLock(t)
    \/ TakeAnchorLock(t)
    \/ LockTimeout(t)
    \/ Verify(t)
    \/ VerifyReturns(t)
    \/ VerifyFails(t)
    \/ WriteRecord(t)
    \/ AppendReturns(t)
    \/ WriteFails(t)
    \/ SyncFails(t)
    \/ CatchUp(t)
    \/ CheckpointReturns(t)
    \/ CheckpointFails(t)

Start(t) ==
    \/ \E e \in Event : BeginAppend(t, e)
    \/ BeginVerify(t)
    \/ BeginBootstrap(t)

Next ==
    \/ \E t \in Thread : Start(t) \/ Step(t)
    \/ \E p \in Process : Crash(p)
    \/ WatchdogLocks
    \/ WatchdogUnlocks
    \/ \E n \in 0..Len(log) : Restore(n)

Spec == Init /\ [][Next]_vars

\* A running thread keeps running: it never waits for ever for a lock file.
FairSpec == Spec /\ \A t \in Thread : WF_vars(Step(t))

-----------------------------------------------------------------------------
(* Properties *)

\* Appends of several threads and processes, failures, partial checkpoints and
\* crashes between the two files never break the log on their own: unless a
\* line was cut short, verify() accepts what they leave behind, and the anchor
\* lags by at most the one record whose append was interrupted.
NeverBreaksItself ==
    (~restored /\ ~torn) =>
        /\ LogValid
        /\ (anchored /\ AnchorValid) =>
              /\ MatchesAnchor
              /\ Len(log) <= LastCheckpoint.records + 1

\* A record is acknowledged only once a checkpoint commits to it, and the
\* checkpoints tell one history: each one extends the one before.
AnchorTellsOneHistory ==
    /\ \A k \in 2..Len(anchor) : IsPrefix(anchor[k - 1].last, anchor[k].last)
    /\ (anchored /\ acked # {}) =>
           anchor # <<>> /\ \A h \in acked : IsPrefix(h, LastCheckpoint.last)

\* An acknowledged record that is no longer in the log is never overlooked: the
\* anchor keeps its one history, so that verify() refuses the log from then on,
\* even when the older copy was put back in the middle of another append.
LossIsDetected ==
    /\ AnchorTellsOneHistory
    /\ (anchored /\ \E h \in acked : \A k \in 1..Len(log) : EntryHmac(log[k]) # h)
           => ~Verifies

\* A thread that entered the log's critical section leaves it, even when the
\* watchdog never gives the anchor's lock back: the lock files time out.
HolderLeaves ==
    \A t \in Thread : pc[t] \notin {"idle", "threadLock"} ~> pc[t] = "idle"

\* The log implements the ledger its callers rely on.
Ledger == INSTANCE AuditLedger WITH
    Writer <- Thread,
    NoEvent <- "none",
    ledger <- [k \in 1..Len(log) |-> log[k].event],
    lpc <- [t \in Thread |->
              CASE op[t] # "append" -> "idle"
                [] op[t] = "append" /\ pc[t] \in {"checkpoint", "return"} -> "recorded"
                [] OTHER -> "pending"],
    levent <- event,
    lout <- out

\* Every append that returns an id recorded its event, in the order of the log,
\* and nothing recorded is lost or changed (AuditLedger), unless the operator puts
\* an older copy of the log back.
ImplementsLedger ==
    /\ Ledger!Init
    /\ [][Ledger!Next \/ \E n \in 0..Len(log) : Restore(n)]_(Ledger!alVars)
=============================================================================
