------------------------- MODULE AttachmentSecurity -------------------------
(***************************************************************************)
(* C9AttachmentSecurity (c9_attachment_security): one-use leases on the    *)
(* sanitized bytes of selected files, the manifests that group them, and   *)
(* the inspection and the consumption of a manifest by a callback.         *)
(*                                                                         *)
(* A public call checks that the authority is open and takes its time      *)
(* first, without the lock; each of its critical sections is one action,   *)
(* and the callbacks run between two of them.  The bytes of a lease are    *)
(* its source's version when it was read.  Digests are ideal: a manifest   *)
(* or an approval is offered as it was issued.                             *)
(***************************************************************************)
EXTENDS Integers, FiniteSets, FiniteSetsExt

CONSTANTS
    Thread,         \* threads that call the authority
    Lease,          \* lease identifiers
    Manifest,       \* manifest identifiers
    Source,         \* files that an operator may select
    LeaseTtl,       \* lifetimes that a caller may ask for
    ApprovalTtl,    \* lifetime of an approval
    MaxClock,       \* bound on the clock
    MaxChanges      \* bound on the changes of the sources

ASSUME SecurityAssumption ==
    /\ IsFiniteSet(Lease)    \* 64 hexadecimal digits
    /\ LeaseTtl \subseteq Nat \ {0}
    /\ ApprovalTtl \in Nat \ {0}
    /\ MaxClock \in Nat /\ MaxChanges \in Nat

VARIABLES
    clock,
    version,     \* Source -> the content of the file
    leases,      \* _leases, and _terminal with how each lease ended
    manifests,   \* the manifests issued so far
    purposes,    \* _manifest_purposes: the manifests of this authority
    approvals,   \* the approvals issued so far
    closed,      \* _closed
    call,        \* Thread -> the public call it is in
    handed,      \* history: Lease -> the approvals it was handed over under
    receipts     \* history: [approval, at] of each consumption receipt

vars == <<clock, version, leases, manifests, purposes, approvals, closed,
          call, handed, receipts>>

\* C9LeaseTerminalState
Terminal == {"consumed", "expired", "cancelled", "consumer_failed", "integrity_rejected"}

\* What an identifier that was not issued yet stands for.
NoLease == [source |-> "none", version |-> 0, until |-> 0, state |-> "absent",
            consuming |-> FALSE]
NoManifest == [leases |-> {}, at |-> -1, until |-> -1]

NoApproval == [manifest |-> "none", at |-> 0, until |-> 0]

NoCall == [pc |-> "idle", at |-> 0, started |-> 0, source |-> "none", version |-> 0, ttl |-> 0,
           leases |-> {}, manifest |-> "none", approval |-> NoApproval, clone |-> FALSE]

Section == {"idle", "insert", "create", "commit", "approve", "inspect", "inspecting",
            "clone", "unclone", "consume", "consuming", "expire"}

TypeOK ==
    /\ clock \in 0..MaxClock
    /\ version \in [Source -> 0..MaxChanges]
    /\ \A l \in Lease : leases[l] # NoLease =>
          /\ leases[l].source \in Source /\ leases[l].version \in 0..MaxChanges
          /\ leases[l].until \in Nat
          /\ leases[l].state \in {"active"} \cup Terminal
          /\ leases[l].consuming \in BOOLEAN
    /\ \A m \in Manifest : manifests[m] # NoManifest =>
          manifests[m].leases \subseteq Lease /\ manifests[m].until \in Nat
    /\ purposes \subseteq {m \in Manifest : manifests[m] # NoManifest}
    /\ closed \in BOOLEAN
    /\ \A t \in Thread : call[t].pc \in Section /\ call[t].leases \subseteq Lease
    /\ \A a \in approvals : manifests[a.manifest] # NoManifest /\ a.at < a.until
    /\ handed \in [Lease -> SUBSET approvals]

Init ==
    /\ clock = 0
    /\ version = [s \in Source |-> 0]
    /\ leases = [l \in Lease |-> NoLease]
    /\ manifests = [m \in Manifest |-> NoManifest]
    /\ purposes = {} /\ approvals = {} /\ receipts = {}
    /\ closed = FALSE
    /\ call = [t \in Thread |-> NoCall]
    /\ handed = [l \in Lease |-> {}]

-----------------------------------------------------------------------------
(* Leases *)

Active(l) == leases[l].state = "active"

\* _read_exact_file: content and fingerprint of the file; a file that cannot be
\* read as one regular file is a file that changed.
ReadExactFile(s) == version[s]

\* _verify_record: the source is still the one that was read.
Verified(ls) == \A l \in ls : ReadExactFile(leases[l].source) = leases[l].version

\* C9AttachmentLease, C9OutboundManifest, C9BoundApproval, C9ManifestConsumptionReceipt
NewLease(s, v, until) ==
    [source |-> s, version |-> v, until |-> until, state |-> "active", consuming |-> FALSE]

NewManifest(ls, at) ==
    [leases |-> ls, at |-> at, until |-> Min({leases[l].until : l \in ls})]

NewApproval(m, at) ==
    [manifest |-> m, at |-> at, until |-> Min({at + ApprovalTtl, manifests[m].until})]

NewReceipt(a, at) == [approval |-> a, at |-> at]

\* _cleanup: the bytes are overwritten and the lease becomes terminal.
Cleaned(l, state) == [leases[l] EXCEPT !.state = state, !.consuming = FALSE]

\* Mutant: only the leases whose own file changed are destroyed.
CleanUpChanged(ls, state) ==
    [l \in Lease |-> IF l \in ls /\ Active(l) /\ (state = "integrity_rejected" => ~Verified({l}))
                    THEN Cleaned(l, state) ELSE leases[l]]

\* The leases of ls that are still active end in the given state.
CleanUp(ls, state) == [l \in Lease |-> IF l \in ls /\ Active(l) THEN Cleaned(l, state)
                                                              ELSE leases[l]]

Consuming(ls, b) ==
    [l \in Lease |-> IF l \in ls /\ Active(l) THEN [leases[l] EXCEPT !.consuming = b]
                                            ELSE leases[l]]

\* Mutant: a lease may expire under a running callback.
ExpirableAnyway(l, at) == Active(l) /\ at >= leases[l].until

\* A lease that is past its time and in no callback.
Expirable(l, at) == Active(l) /\ ~leases[l].consuming /\ at >= leases[l].until

\* Mutant: a lease in a callback may be taken by another call.
UsableTwice(l, at) == Active(l) /\ at < leases[l].until

\* _active_record returns the record.
Usable(l, at) == Active(l) /\ ~leases[l].consuming /\ at < leases[l].until

\* Leases that a caller has been given: not the clones of a call in progress.
Known == {l \in Lease : leases[l] # NoLease /\ \A t \in Thread :
                           ~(call[t].clone /\ l \in call[t].leases)}

Enters(t, c) == call' = [call EXCEPT ![t] = c]
Moves(t, pc) == call' = [call EXCEPT ![t].pc = pc]
Leaves(t) == call' = [call EXCEPT ![t] = NoCall]

\* A callback starts: its time runs from here, on the monotonic clock.
Starts(t, pc) == call' = [call EXCEPT ![t].pc = pc, ![t].started = clock]

\* completed_at: the time that the caller gave, and how long the callback took;
\* the wait for the lock between the two is not counted.
Completed(t) == call[t].at + (clock - call[t].started)

\* A section refuses its leases: _active_record raises at one of them, after it
\* has ended that one if it is past its time.  A clone's call then removes its
\* clones.
RefusedAt(t, pc) ==
    /\ call[t].pc = pc
    /\ \E l \in call[t].leases :
          /\ ~Usable(l, call[t].at)
          /\ leases' = IF Expirable(l, call[t].at) THEN CleanUp({l}, "expired") ELSE leases
    /\ IF call[t].clone THEN Moves(t, "unclone") ELSE Leaves(t)
    /\ UNCHANGED <<clock, version, manifests, purposes, approvals, closed, handed, receipts>>

AllUsable(t) == \A l \in call[t].leases : Usable(l, call[t].at)

-----------------------------------------------------------------------------
(* select_file *)

\* The file is read, inspected and sanitized without the lock.
BeginSelect(t, s, ttl) ==
    /\ call[t] = NoCall /\ ~closed
    /\ Enters(t, [NoCall EXCEPT !.pc = "insert", !.at = clock, !.source = s,
                                !.version = ReadExactFile(s), !.ttl = ttl])
    /\ UNCHANGED <<clock, version, leases, manifests, purposes, approvals, closed, handed, receipts>>

InsertLease(t) ==
    /\ call[t].pc = "insert"
    /\ \/ closed /\ UNCHANGED leases
       \/ ~closed /\ \E l \in Lease :
             /\ leases[l] = NoLease
             /\ leases' = [leases EXCEPT ![l] =
                   NewLease(call[t].source, call[t].version, call[t].at + call[t].ttl)]
    /\ Leaves(t)
    /\ UNCHANGED <<clock, version, manifests, purposes, approvals, closed, handed, receipts>>

-----------------------------------------------------------------------------
(* create_outbound_manifest and approve_manifest *)

BeginCreate(t, ls) ==
    /\ call[t] = NoCall /\ ~closed
    /\ ls # {}
    /\ Enters(t, [NoCall EXCEPT !.pc = "create", !.at = clock, !.leases = ls])
    /\ UNCHANGED <<clock, version, leases, manifests, purposes, approvals, closed, handed, receipts>>

CheckLeases(t) ==
    /\ call[t].pc = "create" /\ AllUsable(t)
    /\ \/ Moves(t, "commit")
       \/ ~call[t].clone /\ Leaves(t)    \* the caller's turn is later than the manifest
    /\ UNCHANGED <<clock, version, leases, manifests, purposes, approvals, closed, handed, receipts>>

CommitManifest(t) ==
    /\ call[t].pc = "commit"
    /\ \/ /\ closed
          /\ IF call[t].clone THEN Moves(t, "unclone") ELSE Leaves(t)
          /\ UNCHANGED <<manifests, purposes>>
       \/ /\ ~closed
          /\ \E m \in Manifest :
                /\ manifests[m] = NoManifest
                /\ manifests' = [manifests EXCEPT ![m] = NewManifest(call[t].leases, call[t].at)]
                /\ purposes' = purposes \cup {m}
          /\ Leaves(t)
    /\ UNCHANGED <<clock, version, leases, approvals, closed, handed, receipts>>

\* The manifest is in its window when the call begins.
BeginApprove(t, m) ==
    /\ call[t] = NoCall /\ ~closed /\ manifests[m] # NoManifest
    /\ manifests[m].at <= clock /\ clock < manifests[m].until
    /\ Enters(t, [NoCall EXCEPT !.pc = "approve", !.at = clock, !.manifest = m,
                                !.leases = manifests[m].leases])
    /\ UNCHANGED <<clock, version, leases, manifests, purposes, approvals, closed, handed, receipts>>

ApproveManifest(t) ==
    /\ call[t].pc = "approve" /\ AllUsable(t)
    /\ approvals' = approvals \cup {NewApproval(call[t].manifest, call[t].at)}
    /\ Leaves(t)
    /\ UNCHANGED <<clock, version, leases, manifests, purposes, closed, handed, receipts>>

-----------------------------------------------------------------------------
(* inspect_manifest_payloads *)

BeginInspect(t, m) ==
    /\ call[t] = NoCall /\ ~closed /\ manifests[m] # NoManifest
    /\ manifests[m].at <= clock /\ clock < manifests[m].until
    /\ Enters(t, [NoCall EXCEPT !.pc = "inspect", !.at = clock, !.manifest = m,
                                !.leases = manifests[m].leases])
    /\ UNCHANGED <<clock, version, leases, manifests, purposes, approvals, closed, handed, receipts>>

\* The leases are locked for the callback, or destroyed when a source changed.
StartInspect(t) ==
    /\ call[t].pc = "inspect" /\ AllUsable(t)
    /\ \/ /\ Verified(call[t].leases)
          /\ leases' = Consuming(call[t].leases, TRUE)
          /\ Starts(t, "inspecting")
       \/ /\ ~Verified(call[t].leases)
          /\ leases' = CleanUp(call[t].leases, "integrity_rejected")
          /\ Leaves(t)
    /\ UNCHANGED <<clock, version, manifests, purposes, approvals, closed, handed, receipts>>

\* The inspector raised, or it returned: in time and over an unchanged source.
EndInspect(t) ==
    /\ call[t].pc = "inspecting"
    /\ \/ leases' = Consuming(call[t].leases, FALSE)
       \/ /\ Completed(t) >= manifests[call[t].manifest].until
          /\ leases' = CleanUp(call[t].leases, "expired")
       \/ /\ Completed(t) < manifests[call[t].manifest].until
          /\ ~Verified(call[t].leases)
          /\ leases' = CleanUp(call[t].leases, "integrity_rejected")
    /\ Leaves(t)
    /\ UNCHANGED <<clock, version, manifests, purposes, approvals, closed, handed, receipts>>

-----------------------------------------------------------------------------
(* clone_manifest_leases *)

BeginClone(t, m, ttl) ==
    /\ call[t] = NoCall /\ ~closed /\ manifests[m] # NoManifest
    /\ Enters(t, [NoCall EXCEPT !.pc = "clone", !.at = clock, !.manifest = m, !.ttl = ttl,
                                !.leases = manifests[m].leases])
    /\ UNCHANGED <<clock, version, leases, manifests, purposes, approvals, closed, handed, receipts>>

\* One clone per lease, none of which outlives any of them; the call goes on
\* with the manifest of the clones.
InsertClones(t, fresh) ==
    LET its == call[t].leases
        until == Min({call[t].at + call[t].ttl} \cup {leases[l].until : l \in its}) IN
    /\ \A l \in fresh : leases[l] = NoLease
    /\ \E of \in [fresh -> its] :
          /\ \A k, l \in fresh : of[k] = of[l] => k = l
          /\ leases' = [l \in Lease |-> IF l \in fresh
                           THEN NewLease(leases[of[l]].source, leases[of[l]].version, until)
                           ELSE leases[l]]
    /\ call' = [call EXCEPT ![t].pc = "create", ![t].leases = fresh, ![t].clone = TRUE]

CloneManifest(t) ==
    /\ call[t].pc = "clone"
    /\ \/ /\ call[t].manifest \notin purposes
          /\ Leaves(t) /\ UNCHANGED leases
       \/ /\ call[t].manifest \in purposes /\ AllUsable(t) /\ ~Verified(call[t].leases)
          /\ leases' = CleanUp(call[t].leases, "integrity_rejected")
          /\ Leaves(t)
       \/ /\ call[t].manifest \in purposes /\ AllUsable(t) /\ Verified(call[t].leases)
          /\ \E fresh \in SUBSET Lease : /\ Cardinality(fresh) = Cardinality(call[t].leases)
                                         /\ InsertClones(t, fresh)
    /\ UNCHANGED <<clock, version, manifests, purposes, approvals, closed, handed, receipts>>

\* The manifest of the clones was refused.
RemoveClones(t) ==
    /\ call[t].pc = "unclone"
    /\ leases' = CleanUp(call[t].leases, "cancelled")
    /\ Leaves(t)
    /\ UNCHANGED <<clock, version, manifests, purposes, approvals, closed, handed, receipts>>

-----------------------------------------------------------------------------
(* consume_manifest *)

\* A manifest past its time ends its leases in a section of its own; an
\* approval out of its window is refused without one.
BeginConsume(t, a) ==
    /\ call[t] = NoCall /\ ~closed
    /\ a.at <= clock
    /\ \/ clock >= manifests[a.manifest].until
       \/ clock < a.until
    /\ Enters(t, [NoCall EXCEPT
          !.pc = IF clock >= manifests[a.manifest].until THEN "expire" ELSE "consume",
          !.at = clock, !.manifest = a.manifest, !.approval = a,
          !.leases = manifests[a.manifest].leases])
    /\ UNCHANGED <<clock, version, leases, manifests, purposes, approvals, closed, handed, receipts>>

\* _expire_specific leaves a lease in a callback alone.
ExpireSpecific(t) ==
    /\ call[t].pc = "expire"
    /\ leases' = CleanUp({l \in call[t].leases : Active(l) /\ ~leases[l].consuming}, "expired")
    /\ Leaves(t)
    /\ UNCHANGED <<clock, version, manifests, purposes, approvals, closed, handed, receipts>>

StartConsume(t) ==
    /\ call[t].pc = "consume" /\ AllUsable(t)
    /\ \/ /\ Verified(call[t].leases)
          /\ leases' = Consuming(call[t].leases, TRUE)
          /\ handed' = [l \in Lease |-> IF l \in call[t].leases
                                        THEN handed[l] \cup {call[t].approval} ELSE handed[l]]
          /\ Starts(t, "consuming")
       \/ /\ ~Verified(call[t].leases)
          /\ leases' = CleanUp(call[t].leases, "integrity_rejected")
          /\ Leaves(t)
          /\ UNCHANGED handed
    /\ UNCHANGED <<clock, version, manifests, purposes, approvals, closed, receipts>>

ConsumerFails(t) ==
    /\ call[t].pc = "consuming"
    /\ leases' = CleanUp(call[t].leases, "consumer_failed")
    /\ Leaves(t)
    /\ UNCHANGED <<clock, version, manifests, purposes, approvals, closed, handed, receipts>>

\* How a consumption whose callback returned ends.
Outcome(t) ==
    IF \/ Completed(t) >= manifests[call[t].manifest].until
       \/ Completed(t) >= call[t].approval.until
    THEN "expired"
    ELSE IF ~Verified(call[t].leases) THEN "integrity_rejected"
    ELSE "consumed"

EndConsume(t) ==
    /\ call[t].pc = "consuming"
    /\ leases' = CleanUp(call[t].leases, Outcome(t))
    /\ receipts' = IF Outcome(t) = "consumed"
                   THEN receipts \cup {NewReceipt(call[t].approval, Completed(t))}
                   ELSE receipts
    /\ Leaves(t)
    /\ UNCHANGED <<clock, version, manifests, purposes, approvals, closed, handed>>

-----------------------------------------------------------------------------
(* cancel_lease, expire, cancel_all, close *)

CancelLease(l) ==
    /\ Active(l) /\ ~leases[l].consuming
    /\ leases' = CleanUp({l}, "cancelled")
    /\ UNCHANGED <<clock, version, manifests, purposes, approvals, closed, call, handed, receipts>>

ExpireAll ==
    /\ \E l \in Lease : Expirable(l, clock)
    /\ leases' = CleanUp({l \in Lease : Expirable(l, clock)}, "expired")
    /\ UNCHANGED <<clock, version, manifests, purposes, approvals, closed, call, handed, receipts>>

\* Refused as long as a callback runs.
NoCallback == \A l \in Lease : Active(l) => ~leases[l].consuming

CancelAll ==
    /\ NoCallback /\ \E l \in Lease : Active(l)
    /\ leases' = CleanUp(Lease, "cancelled")
    /\ UNCHANGED <<clock, version, manifests, purposes, approvals, closed, call, handed, receipts>>

Close ==
    /\ ~closed /\ NoCallback
    /\ leases' = CleanUp(Lease, "cancelled")
    /\ purposes' = {}
    /\ closed' = TRUE
    /\ UNCHANGED <<clock, version, manifests, approvals, call, handed, receipts>>

-----------------------------------------------------------------------------

Tick ==
    /\ clock < MaxClock /\ clock' = clock + 1
    /\ UNCHANGED <<version, leases, manifests, purposes, approvals, closed, call, handed, receipts>>

\* Somebody writes to a selected file.
ChangeSource(s) ==
    /\ MapThenSumSet(LAMBDA r : version[r], Source) < MaxChanges
    /\ version' = [version EXCEPT ![s] = @ + 1]
    /\ UNCHANGED <<clock, leases, manifests, purposes, approvals, closed, call, handed, receipts>>

Begin(t) ==
    \/ \E s \in Source, ttl \in LeaseTtl : BeginSelect(t, s, ttl)
    \/ \E ls \in SUBSET Known : BeginCreate(t, ls)
    \/ \E m \in Manifest : BeginApprove(t, m)
    \/ \E m \in Manifest : BeginInspect(t, m)
    \/ \E m \in Manifest, ttl \in LeaseTtl : BeginClone(t, m, ttl)
    \/ \E a \in approvals : BeginConsume(t, a)

Step(t) ==
    \/ InsertLease(t)
    \/ CheckLeases(t) \/ CommitManifest(t)
    \/ ApproveManifest(t)
    \/ StartInspect(t) \/ EndInspect(t)
    \/ CloneManifest(t) \/ RemoveClones(t)
    \/ ExpireSpecific(t) \/ StartConsume(t) \/ ConsumerFails(t) \/ EndConsume(t)
    \/ \E pc \in {"create", "approve", "inspect", "clone", "consume"} : RefusedAt(t, pc)

Next ==
    \/ \E t \in Thread : Begin(t) \/ Step(t)
    \/ \E l \in Known : CancelLease(l)
    \/ ExpireAll \/ CancelAll \/ Close
    \/ Tick
    \/ \E s \in Source : ChangeSource(s)

Spec == Init /\ [][Next]_vars

-----------------------------------------------------------------------------
(* Properties *)

InCallback(t) == call[t].pc \in {"inspecting", "consuming"}

\* The bytes of a lease are handed to a consumer at most once, under one
\* approval, whatever manifests and threads share the lease; and once the
\* callback has ended the lease is terminal, even if the consumption failed (this, not
\* the count of approvals, excludes a second hand-over under the same one).  A
\* consumption receipt tells of just that: within the approval, every lease of
\* the manifest was handed over under it, and is consumed.
HandedOverAtMostOnce ==
    /\ \A l \in Lease : Cardinality(handed[l]) <= 1
    /\ \A l \in Lease : handed[l] # {} /\ Active(l) =>
          \E t \in Thread : call[t].pc = "consuming" /\ l \in call[t].leases
    /\ \A r \in receipts :
          /\ r.approval.at <= r.at /\ r.at < r.approval.until
          /\ \A l \in manifests[r.approval.manifest].leases :
                leases[l].state = "consumed" /\ handed[l] = {r.approval}

\* A callback reads bytes that nobody cancels, expires, closes or hands to
\* another callback while it runs, and no lease stays locked without a callback,
\* which would keep close() from ever succeeding.  A closed authority owns no
\* bytes and no purpose, whatever calls were between two sections when it closed
\* (the comments in select_file and create_outbound_manifest).
CallbackOwnsItsLeases ==
    /\ \A t \in Thread : InCallback(t) =>
          \A l \in call[t].leases : Active(l) /\ leases[l].consuming
    /\ \A l \in Lease : Active(l) /\ leases[l].consuming =>
          Cardinality({t \in Thread : InCallback(t) /\ l \in call[t].leases}) = 1
    /\ closed => purposes = {} /\ \A l \in Lease : ~Active(l)

\* The leases of a manifest are handed over together and end the same way: one
\* changed file, one late answer or one failure ends them all.
EndTogether ==
    \A a \in approvals : \A k, l \in manifests[a.manifest].leases :
        a \in handed[k] => a \in handed[l] /\ leases[k].state = leases[l].state

=============================================================================
