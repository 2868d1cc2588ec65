-------------------------- MODULE C9RuntimeProofs ---------------------------
(***************************************************************************)
(* Machine-checked proofs about the two parts of the C9 runtime: about     *)
(* AttachmentSecurity, for any number of threads, leases, manifests and    *)
(* files, and about the coordinator of Handoff, for any number of tool     *)
(* calls; for every lifetime and with no bound on the clock but its limit. *)
(***************************************************************************)
EXTENDS C9Runtime, FiniteSetTheorems, TLAPS

(* The authority *)

LeaseFields == {"source", "version", "until", "state", "consuming"}
CallFields == {"pc", "at", "started", "source", "version", "ttl", "leases", "manifest",
               "approval", "clone"}

\* The sections of a call that was given a manifest, and those of a consumption.
OfManifest == {"approve", "inspect", "inspecting", "clone", "consume", "consuming", "expire"}
OfApproval == {"consume", "consuming", "expire"}

IsCall(c) ==
    /\ DOMAIN c = CallFields
    /\ c.pc \in Section
    /\ c.at \in 0..clock /\ c.started \in 0..clock
    /\ c.ttl \in Nat
    /\ c.leases \subseteq Lease
    /\ c.clone \in BOOLEAN

\* Every table has its keys and every record its fields; no time is in the future.
Types ==
    /\ clock \in Nat
    /\ closed \in BOOLEAN
    /\ DOMAIN leases = Lease
    /\ \A l \in Lease : /\ DOMAIN leases[l] = LeaseFields
                        /\ leases[l].state \in {"absent", "active"} \cup Terminal
                        /\ leases[l].until \in Nat
    /\ DOMAIN manifests = Manifest
    /\ \A m \in Manifest : manifests[m].leases \subseteq Lease
    /\ DOMAIN call = Thread
    /\ \A t \in Thread : IsCall(call[t])
    /\ handed \in [Lease -> SUBSET approvals]

\* What a call knows about its leases, its manifest and its approval stays true
\* between two of its sections.
CallInv ==
    \A t \in Thread :
        /\ call[t].clone => call[t].pc \in {"create", "commit", "unclone"}
        /\ call[t].pc = "unclone" => call[t].clone
        /\ \A l \in call[t].leases : leases[l] # NoLease
        /\ call[t].pc \in {"create", "commit"} => call[t].leases # {}
        /\ call[t].pc \in OfManifest =>
              /\ call[t].manifest \in Manifest
              /\ manifests[call[t].manifest] # NoManifest
              /\ call[t].leases = manifests[call[t].manifest].leases
        /\ call[t].pc \in OfApproval =>
              /\ call[t].approval \in approvals
              /\ call[t].approval.manifest = call[t].manifest
              /\ call[t].approval.at <= call[t].at

\* The clones of a call in progress are its own.
CloneInv ==
    \A t \in Thread : call[t].clone => \A l \in call[t].leases :
        /\ \A m \in Manifest : l \notin manifests[m].leases
        /\ \A u \in Thread : l \in call[u].leases => u = t

\* Manifests name leases, approvals name manifests, and a lease was handed over
\* under an approval of one of its manifests.
IssueInv ==
    /\ \A m \in Manifest : \A l \in manifests[m].leases : leases[l] # NoLease
    /\ \A m \in Manifest : manifests[m] # NoManifest =>
          manifests[m].leases # {} /\ manifests[m].until \in Nat
    /\ \A a \in approvals : /\ a.manifest \in Manifest /\ a.at \in Nat /\ a.until \in Nat
                            /\ manifests[a.manifest] # NoManifest
    /\ \A l \in Lease : \A a \in handed[l] : l \in manifests[a.manifest].leases

\* The callbacks and the locked leases are each other's, one callback per lease.
OwnInv ==
    /\ \A t \in Thread : InCallback(t) =>
          \A l \in call[t].leases : Active(l) /\ leases[l].consuming
    /\ \A l \in Lease : Active(l) /\ leases[l].consuming =>
          \E t \in Thread : InCallback(t) /\ l \in call[t].leases
    /\ \A t, u \in Thread : \A l \in call[t].leases :
          InCallback(t) /\ InCallback(u) /\ l \in call[u].leases => t = u
    /\ closed => purposes = {} /\ \A l \in Lease : ~Active(l)

\* A lease was handed over under one approval, the one of the consumption that
\* still has it if it is active.
HandInv ==
    /\ \A l \in Lease : \A a, b \in handed[l] : a = b
    /\ \A l \in Lease : handed[l] # {} /\ Active(l) =>
          \E t \in Thread : call[t].pc = "consuming" /\ l \in call[t].leases
    /\ \A t \in Thread : call[t].pc = "consuming" =>
          \A l \in call[t].leases : call[t].approval \in handed[l]

ReceiptInv ==
    \A r \in receipts :
        /\ r.approval \in approvals
        /\ r.approval.at <= r.at /\ r.at < r.approval.until
        /\ \A l \in manifests[r.approval.manifest].leases :
              leases[l].state = "consumed" /\ r.approval \in handed[l]

\* The inductive invariant.
IInv ==
    /\ Types
    /\ CallInv
    /\ CloneInv
    /\ IssueInv
    /\ OwnInv
    /\ HandInv
    /\ EndTogether
    /\ ReceiptInv
-----------------------------------------------------------------------------

\* An idle thread has no lease.
LEMMA IdleCall ==
    /\ NoCall.pc = "idle" /\ NoCall.at = 0 /\ NoCall.started = 0 /\ NoCall.ttl = 0
    /\ NoCall.leases = {} /\ NoCall.clone = FALSE
    /\ clock \in Nat => IsCall(NoCall)
  <1>1. NoCall.pc = "idle" /\ NoCall.at = 0 /\ NoCall.started = 0 /\ NoCall.ttl = 0
    BY DEF NoCall
  <1>2. NoCall.leases = {} /\ NoCall.clone = FALSE
    BY DEF NoCall
  <1>3. DOMAIN NoCall = CallFields
    BY DEF NoCall, CallFields
  <1>4. NoCall.pc \in Section
    BY <1>1 DEF Section
  <1>5. NoCall.clone \in BOOLEAN /\ NoCall.leases \subseteq Lease
    BY <1>2
  <1>6. QED
    BY <1>1, <1>2, <1>3, <1>4, <1>5 DEF IsCall

\* At the start nothing was issued and every thread is idle.
LEMMA InitIInv == Init => IInv
  <1> SUFFICES ASSUME Init PROVE IInv
    OBVIOUS
  <1> USE DEF Init, NoCall, NoLease, NoManifest
  <1>1. Types
    <2>1. DOMAIN leases = Lease /\ DOMAIN manifests = Manifest /\ DOMAIN call = Thread
      OBVIOUS
    <2>2. \A l \in Lease : /\ DOMAIN leases[l] = LeaseFields
                           /\ leases[l].state \in {"absent", "active"} \cup Terminal
                           /\ leases[l].until \in Nat
      BY DEF LeaseFields
    <2>3. \A t \in Thread : IsCall(call[t])
      BY IdleCall
    <2>4. handed \in [Lease -> SUBSET approvals]
      OBVIOUS
    <2>5. \A m \in Manifest : manifests[m].leases \subseteq Lease
      OBVIOUS
    <2>6. QED
      BY <2>1, <2>2, <2>3, <2>4, <2>5 DEF Types
  <1>2. CallInv /\ CloneInv /\ IssueInv
    BY DEF CallInv, CloneInv, IssueInv, OfManifest, OfApproval
  <1>3. OwnInv /\ HandInv /\ EndTogether /\ ReceiptInv
    BY DEF OwnInv, HandInv, EndTogether, ReceiptInv, InCallback, Active
  <1>4. QED
    BY <1>1, <1>2, <1>3 DEF IInv

-----------------------------------------------------------------------------
(* What the operators on the tables do *)

\* < on the naturals as a set of pairs,
LEMMA LessIsARelation == \A x, y \in Nat : x < y => <<x, y>> \in OpToRel(<, Nat)
  BY DEF OpToRel

\* which, like every well-founded relation, has minimal elements,
LEMMA Minimal ==
    ASSUME NEW R, IsWellFoundedOn(R, Nat), NEW S \in SUBSET Nat, S # {}
    PROVE  \E x \in S : \A y \in S : ~(<<y, x>> \in R)
  BY WFMin

\* so that Min chooses a member of the set.
LEMMA MinOf ==
    ASSUME NEW R, IsWellFoundedOn(R, Nat), \A x, y \in Nat : x < y => <<x, y>> \in R,
           NEW S \in SUBSET Nat, S # {}
    PROVE  Min(S) \in S
  <1>1. PICK x \in S : \A y \in S : ~(<<y, x>> \in R)
    BY Minimal
  <1>2. \A y \in S : x =< y
    <2> TAKE y \in S
    <2>1. ~(y < x)
      BY <1>1
    <2>2. QED
      BY <2>1
  <1>3. QED
    BY <1>2 DEF Min

\* The least of a set of naturals is one of them.
LEMMA MinNat ==
    ASSUME NEW S \in SUBSET Nat, S # {}
    PROVE  Min(S) \in S
  BY MinOf, LessIsARelation, NatLessThanWellFounded, Zenon

\* _cleanup ends the active leases of ls and leaves the others alone.
LEMMA CleanUpEnds ==
    ASSUME Types, NEW ls, NEW state \in Terminal, leases' = CleanUp(ls, state)
    PROVE  /\ DOMAIN leases' = Lease
           /\ \A l \in Lease :
                 /\ l \in ls /\ Active(l) =>
                       /\ DOMAIN leases'[l] = LeaseFields
                       /\ leases'[l].state = state
                       /\ leases'[l].until \in Nat
                       /\ leases'[l] # NoLease
                 /\ ~(l \in ls /\ Active(l)) => leases'[l] = leases[l]
  <1>1. ASSUME NEW l \in Lease, l \in ls, Active(l)
        PROVE  /\ DOMAIN leases'[l] = LeaseFields
               /\ leases'[l].state = state
               /\ leases'[l].until \in Nat
    BY <1>1 DEF Types, CleanUp, Cleaned, LeaseFields
  <1>2. ASSUME NEW l \in Lease, l \in ls, Active(l) PROVE leases'[l] # NoLease
    BY <1>1, <1>2 DEF NoLease, Terminal
  <1>3. QED
    BY <1>1, <1>2 DEF CleanUp

\* Locking and unlocking touches nothing else of a lease.
Locks(ls) == leases' = Consuming(ls, TRUE)
Unlocks(ls) == leases' = Consuming(ls, FALSE)

LEMMA LocksSets ==
    ASSUME Types, NEW ls, Locks(ls)
    PROVE  /\ DOMAIN leases' = Lease
           /\ \A l \in Lease :
                 /\ l \in ls /\ Active(l) =>
                       /\ DOMAIN leases'[l] = LeaseFields
                       /\ leases'[l].state = "active"
                       /\ leases'[l].until \in Nat
                       /\ leases'[l].consuming
                       /\ leases'[l] # NoLease
                 /\ ~(l \in ls /\ Active(l)) => leases'[l] = leases[l]
  <1>1. ASSUME NEW l \in Lease, l \in ls, Active(l)
        PROVE  /\ DOMAIN leases'[l] = LeaseFields
               /\ leases'[l].state = "active"
               /\ leases'[l].until \in Nat
               /\ leases'[l].consuming
    BY <1>1 DEF Types, Locks, Consuming, LeaseFields, Active
  <1>2. ASSUME NEW l \in Lease, l \in ls, Active(l) PROVE leases'[l] # NoLease
    BY <1>1, <1>2 DEF NoLease
  <1>3. QED
    BY <1>1, <1>2 DEF Locks, Consuming

LEMMA UnlocksSets ==
    ASSUME Types, NEW ls, Unlocks(ls)
    PROVE  /\ DOMAIN leases' = Lease
           /\ \A l \in Lease :
                 /\ l \in ls /\ Active(l) =>
                       /\ DOMAIN leases'[l] = LeaseFields
                       /\ leases'[l].state = "active"
                       /\ leases'[l].until \in Nat
                       /\ ~leases'[l].consuming
                       /\ leases'[l] # NoLease
                 /\ ~(l \in ls /\ Active(l)) => leases'[l] = leases[l]
  <1>1. ASSUME NEW l \in Lease, l \in ls, Active(l)
        PROVE  /\ DOMAIN leases'[l] = LeaseFields
               /\ leases'[l].state = "active"
               /\ leases'[l].until \in Nat
               /\ ~leases'[l].consuming
    BY <1>1 DEF Types, Unlocks, Consuming, LeaseFields, Active
  <1>2. ASSUME NEW l \in Lease, l \in ls, Active(l) PROVE leases'[l] # NoLease
    BY <1>1, <1>2 DEF NoLease
  <1>3. QED
    BY <1>1, <1>2 DEF Unlocks, Consuming

\* Leaving a call makes a thread idle; going on keeps what the call knows.
LEMMA LeavesIs ==
    ASSUME Types, NEW t \in Thread, Leaves(t)
    PROVE  /\ DOMAIN call' = Thread
           /\ call'[t] = NoCall
           /\ \A u \in Thread : u # t => call'[u] = call[u]
  BY DEF Types, Leaves

LEMMA MovesIs ==
    ASSUME Types, NEW t \in Thread, NEW pc, Moves(t, pc)
    PROVE  /\ DOMAIN call' = Thread
           /\ pc \in Section => IsCall(call'[t])
           /\ call'[t].pc = pc
           /\ call'[t].at = call[t].at /\ call'[t].started = call[t].started
           /\ call'[t].ttl = call[t].ttl
           /\ call'[t].leases = call[t].leases /\ call'[t].manifest = call[t].manifest
           /\ call'[t].approval = call[t].approval /\ call'[t].clone = call[t].clone
           /\ \A u \in Thread : u # t => call'[u] = call[u]
  <1>1. /\ DOMAIN call' = Thread
        /\ DOMAIN call'[t] = CallFields
        /\ call'[t].pc = pc
        /\ call'[t].at = call[t].at /\ call'[t].started = call[t].started
        /\ call'[t].ttl = call[t].ttl
        /\ call'[t].leases = call[t].leases /\ call'[t].manifest = call[t].manifest
        /\ call'[t].approval = call[t].approval /\ call'[t].clone = call[t].clone
        /\ \A u \in Thread : u # t => call'[u] = call[u]
    BY DEF Types, IsCall, Moves, CallFields
  <1>2. QED
    BY <1>1 DEF Types, IsCall

LEMMA StartsIs ==
    ASSUME Types, NEW t \in Thread, NEW pc, Starts(t, pc)
    PROVE  /\ DOMAIN call' = Thread
           /\ pc \in Section => IsCall(call'[t])
           /\ call'[t].pc = pc
           /\ call'[t].at = call[t].at /\ call'[t].started = clock
           /\ call'[t].leases = call[t].leases /\ call'[t].manifest = call[t].manifest
           /\ call'[t].approval = call[t].approval /\ call'[t].clone = call[t].clone
           /\ \A u \in Thread : u # t => call'[u] = call[u]
  <1>1. /\ DOMAIN call' = Thread
        /\ DOMAIN call'[t] = CallFields
        /\ call'[t].pc = pc
        /\ call'[t].at = call[t].at /\ call'[t].started = clock
        /\ call'[t].ttl = call[t].ttl
        /\ call'[t].leases = call[t].leases /\ call'[t].manifest = call[t].manifest
        /\ call'[t].approval = call[t].approval /\ call'[t].clone = call[t].clone
        /\ \A u \in Thread : u # t => call'[u] = call[u]
    BY DEF Types, IsCall, Starts, CallFields
  <1>2. QED
    BY <1>1 DEF Types, IsCall

-----------------------------------------------------------------------------
(* The kinds of steps *)

others == <<clock, manifests, approvals, handed, receipts>>

\* The leases that a step ends are in no callback.
EndsIdleLeases ==
    /\ DOMAIN leases' = Lease
    /\ \A l \in Lease : leases'[l] # leases[l] =>
          /\ Active(l) /\ ~leases[l].consuming
          /\ DOMAIN leases'[l] = LeaseFields
          /\ leases'[l].state \in Terminal /\ leases'[l].until \in Nat
          /\ leases'[l] # NoLease

\* A thread outside a callback goes on, or leaves its call.
GoesOn(t) ==
    /\ DOMAIN call' = Thread
    /\ \A u \in Thread : u # t => call'[u] = call[u]
    /\ ~InCallback(t)
    /\ \/ call'[t] = NoCall
       \/ /\ IsCall(call'[t])
          /\ \/ call[t].pc = "create" /\ call'[t].pc = "commit"
             \/ call[t].clone /\ call'[t].pc = "unclone"
          /\ call'[t].at = call[t].at /\ call'[t].started = call[t].started
          /\ call'[t].leases = call[t].leases /\ call'[t].clone = call[t].clone

\* A step that ends leases which no callback has, and at most moves a thread that
\* is in none, keeps the invariant.
LEMMA QuietStep ==
    ASSUME IInv, EndsIdleLeases, UNCHANGED others,
           UNCHANGED call \/ \E t \in Thread : GoesOn(t),
           \/ UNCHANGED <<purposes, closed>>
           \/ purposes' = {} /\ closed' \in BOOLEAN /\ \A l \in Lease : leases'[l].state # "active"
    PROVE  IInv'
  <1> USE DEF others, IInv
  <1>1. \A t \in Thread : \/ call'[t] = call[t]
                          \/ call'[t] = NoCall /\ ~InCallback(t)
                          \/ /\ IsCall(call'[t]) /\ ~InCallback(t)
                             /\ \/ call[t].pc = "create" /\ call'[t].pc = "commit"
                                \/ call[t].clone /\ call'[t].pc = "unclone"
                             /\ call'[t].at = call[t].at /\ call'[t].started = call[t].started
                             /\ call'[t].leases = call[t].leases
                             /\ call'[t].clone = call[t].clone
    BY IdleCall DEF GoesOn, Types
  <1>2. DOMAIN call' = Thread
    BY DEF GoesOn, Types
  <1>3. Types'
    <2>1. \A t \in Thread : IsCall(call[t])'
      BY <1>1, IdleCall DEF Types, IsCall
    <2>2. QED
      BY <1>2, <2>1 DEF Types, EndsIdleLeases
  <1>4. \A t \in Thread : call'[t].leases \subseteq call[t].leases
    BY <1>1, IdleCall
  <1>5. CallInv'
    BY <1>1, IdleCall DEF Types, IsCall, CallInv, EndsIdleLeases, OfManifest, OfApproval
  <1>6. CloneInv'
    BY <1>1, <1>4, IdleCall DEF Types, IsCall, CloneInv
  <1>7. IssueInv'
    BY DEF Types, IssueInv, EndsIdleLeases
  <1>8. \A t \in Thread : /\ InCallback(t)' <=> InCallback(t)
                          /\ InCallback(t) => call'[t] = call[t]
    BY <1>1, IdleCall DEF InCallback, CallInv
  <1>9. \A l \in Lease : Active(l)' => Active(l) /\ leases'[l] = leases[l]
    BY DEF EndsIdleLeases, Active, Terminal
  <1>10. \A l \in Lease : Active(l) /\ leases[l].consuming => leases'[l] = leases[l]
    BY DEF EndsIdleLeases
  <1>11. OwnInv'
    BY <1>4, <1>8, <1>9, <1>10 DEF Types, IsCall, OwnInv, Active
  <1>12. \A l \in Lease : handed[l] # {} => leases'[l] = leases[l]
    BY <1>10 DEF EndsIdleLeases, HandInv, OwnInv, InCallback
  <1>13. HandInv'
    BY <1>8, <1>9 DEF Types, IsCall, HandInv, InCallback
  <1>14. EndTogether' /\ ReceiptInv'
    BY <1>12 DEF Types, EndTogether, ReceiptInv, IssueInv
  <1>15. QED
    BY <1>3, <1>5, <1>6, <1>7, <1>11, <1>13, <1>14

\* A call begins outside the lock: it has no clone, and names what was issued.
LEMMA BeginStep ==
    ASSUME IInv, NEW t \in Thread, call[t] = NoCall,
           NEW c, Enters(t, c), UNCHANGED <<others, leases, purposes, closed>>,
           DOMAIN c = CallFields, c.at = clock, c.started = 0, c.ttl \in Nat, c.clone = FALSE,
           c.pc \in Section \ {"inspecting", "consuming", "unclone"}, c.leases \subseteq Lease,
           c.pc \in {"create", "commit"} => c.leases # {},
           \A l \in c.leases : /\ leases[l] # NoLease
                               /\ \A u \in Thread : call[u].clone => l \notin call[u].leases,
           c.pc \in OfManifest => /\ c.manifest \in Manifest
                                  /\ manifests[c.manifest] # NoManifest
                                  /\ c.leases = manifests[c.manifest].leases,
           c.pc \in OfApproval => /\ c.approval \in approvals
                                  /\ c.approval.manifest = c.manifest
                                  /\ c.approval.at <= c.at
    PROVE  IInv'
  <1> USE DEF others, IInv
  <1>1. /\ DOMAIN call' = Thread
        /\ call'[t] = c
        /\ \A u \in Thread : u # t => call'[u] = call[u]
    BY DEF Types, Enters
  <1>2. Types'
    <2>1. c.clone \in BOOLEAN
      OBVIOUS
    <2>2. IsCall(c)
      BY <2>1 DEF Types, IsCall
    <2>3. QED
      BY <1>1, <2>2 DEF Types, IsCall
  <1>3. CallInv'
    BY <1>1 DEF CallInv
  <1>4. CloneInv'
    BY <1>1 DEF CloneInv
  <1>5. IssueInv' /\ EndTogether' /\ ReceiptInv'
    BY DEF IssueInv, EndTogether, ReceiptInv
  <1>6. OwnInv'
    BY <1>1, IdleCall DEF OwnInv, InCallback, Active
  <1>7. HandInv'
    BY <1>1, IdleCall DEF HandInv, Active
  <1>8. QED
    BY <1>2, <1>3, <1>4, <1>5, <1>6, <1>7

\* A callback ends and takes all of its leases with it.  A receipt is given for a
\* consumption that ended in time with its leases consumed.
LEMMA EndCallbackStep ==
    ASSUME IInv, NEW t \in Thread, InCallback(t),
           NEW state \in Terminal, leases' = CleanUp(call[t].leases, state),
           Leaves(t), UNCHANGED <<clock, manifests, approvals, handed, purposes, closed>>,
           \/ UNCHANGED receipts
           \/ /\ state = "consumed" /\ call[t].pc = "consuming"
              /\ Completed(t) < call[t].approval.until
              /\ receipts' = receipts \cup {NewReceipt(call[t].approval, Completed(t))}
    PROVE  IInv'
  <1> USE DEF IInv
  <1>1. /\ DOMAIN leases' = Lease
        /\ \A l \in Lease :
              /\ l \in call[t].leases => /\ DOMAIN leases'[l] = LeaseFields
                                         /\ leases'[l].state = state
                                         /\ leases'[l].until \in Nat
                       /\ leases'[l].until \in Nat
                                         /\ leases'[l] # NoLease
                                         /\ Active(l)
              /\ l \notin call[t].leases => leases'[l] = leases[l]
    BY CleanUpEnds DEF OwnInv, Types, IsCall
  <1>2. /\ DOMAIN call' = Thread
        /\ call'[t] = NoCall
        /\ \A u \in Thread : u # t => call'[u] = call[u]
    BY LeavesIs
  <1>3. \A l \in call[t].leases : l \in Lease
    BY DEF Types, IsCall
  <1>4. Types'
    BY <1>1, <1>2, IdleCall DEF Types, IsCall
  <1>5. CallInv'
    BY <1>1, <1>2, IdleCall DEF Types, IsCall, CallInv, OfManifest, OfApproval
  <1>6. CloneInv' /\ IssueInv'
    BY <1>1, <1>2, IdleCall DEF Types, IsCall, CloneInv, IssueInv
  <1>7. \A u \in Thread : u # t /\ InCallback(u) =>
           \A l \in call[u].leases : l \notin call[t].leases
    BY DEF OwnInv
  <1>8. \A u \in Thread : InCallback(u)' <=> InCallback(u) /\ u # t
    BY <1>2, IdleCall DEF InCallback
  <1>9. \A l \in Lease : Active(l)' <=> Active(l) /\ l \notin call[t].leases
    BY <1>1 DEF Active, Terminal
  <1>10. OwnInv'
    <2>1. \A u \in Thread : InCallback(u)' =>
             \A l \in call'[u].leases : Active(l)' /\ leases'[l].consuming
      BY <1>1, <1>2, <1>7, <1>8, <1>9 DEF Types, IsCall, OwnInv
    <2>2. \A l \in Lease : Active(l)' /\ leases'[l].consuming =>
             \E u \in Thread : InCallback(u)' /\ l \in call'[u].leases
      BY <1>1, <1>2, <1>8, <1>9 DEF OwnInv
    <2>3. \A u, v \in Thread : \A l \in call'[u].leases :
             InCallback(u)' /\ InCallback(v)' /\ l \in call'[v].leases => u = v
      BY <1>2, <1>8 DEF OwnInv
    <2>4. closed' => purposes' = {} /\ \A l \in Lease : ~Active(l)'
      BY <1>9 DEF OwnInv
    <2>5. QED
      BY <2>1, <2>2, <2>3, <2>4 DEF OwnInv
  <1>11. HandInv'
    BY <1>1, <1>2, <1>7, <1>9, IdleCall DEF Types, IsCall, HandInv, InCallback
  <1>12. \A l \in Lease : \A a \in handed[l] : l \in call[t].leases =>
            /\ call[t].pc = "consuming"
            /\ a = call[t].approval
            /\ call[t].leases = manifests[a.manifest].leases
    BY <1>1, <1>7 DEF Types, HandInv, OwnInv, CallInv, InCallback, OfManifest, OfApproval
  <1>13. EndTogether'
    BY <1>1, <1>12 DEF Types, IssueInv, EndTogether
  <1>14. \A r \in receipts : \A l \in manifests[r.approval.manifest].leases :
            l \in Lease /\ l \notin call[t].leases
    BY <1>1 DEF Types, IssueInv, ReceiptInv, Active
  <1>15. ReceiptInv'
    <2>1. \A r \in receipts :
             /\ r.approval \in approvals
             /\ r.approval.at <= r.at /\ r.at < r.approval.until
             /\ \A l \in manifests[r.approval.manifest].leases :
                   leases'[l].state = "consumed" /\ r.approval \in handed[l]
      BY <1>1, <1>14 DEF ReceiptInv
    <2>2. ASSUME call[t].pc = "consuming", state = "consumed",
                 Completed(t) < call[t].approval.until,
                 NEW r, r = NewReceipt(call[t].approval, Completed(t))
          PROVE  /\ r.approval \in approvals
                 /\ r.approval.at <= r.at /\ r.at < r.approval.until
                 /\ \A l \in manifests[r.approval.manifest].leases :
                       leases'[l].state = "consumed" /\ r.approval \in handed[l]
      <3>1. r.approval = call[t].approval /\ r.at = Completed(t)
        BY <2>2 DEF NewReceipt
      <3>2. call[t].approval \in approvals /\ call[t].approval.at <= call[t].at
        BY <2>2 DEF CallInv, OfApproval
      <3>3. call[t].approval.at <= Completed(t)
        BY <3>2 DEF Types, IsCall, IssueInv, Completed
      <3>4. call[t].leases = manifests[call[t].approval.manifest].leases
        BY <2>2 DEF CallInv, OfApproval, OfManifest
      <3>5. \A l \in call[t].leases : leases'[l].state = "consumed" /\ call[t].approval \in handed[l]
        BY <1>1, <1>3, <2>2 DEF HandInv
      <3>6. QED
        BY <2>2, <3>1, <3>2, <3>3, <3>4, <3>5
    <2>3. QED
      BY <2>1, <2>2 DEF ReceiptInv
  <1>16. QED
    BY <1>4, <1>5, <1>6, <1>10, <1>11, <1>13, <1>15

\* The leases of a call are locked for its callback: they were in no callback and
\* were never handed over, and a consumption hands all of them over now.
LEMMA LockStep ==
    ASSUME IInv, NEW t \in Thread, AllUsable(t),
           Locks(call[t].leases),
           UNCHANGED <<clock, manifests, approvals, receipts, purposes, closed>>,
           \/ call[t].pc = "inspect" /\ Starts(t, "inspecting") /\ UNCHANGED handed
           \/ /\ call[t].pc = "consume" /\ Starts(t, "consuming")
              /\ handed' = [l \in Lease |-> IF l \in call[t].leases
                               THEN handed[l] \cup {call[t].approval} ELSE handed[l]]
    PROVE  IInv'
  <1> USE DEF IInv
  <1>1. /\ DOMAIN leases' = Lease
        /\ \A l \in Lease :
              /\ l \in call[t].leases => /\ DOMAIN leases'[l] = LeaseFields
                                         /\ leases'[l].state = "active"
                                         /\ leases'[l].until \in Nat
                       /\ leases'[l].until \in Nat
                                         /\ leases'[l].consuming
                                         /\ leases'[l] # NoLease
                                         /\ Active(l) /\ ~leases[l].consuming
              /\ l \notin call[t].leases => leases'[l] = leases[l]
    BY LocksSets DEF AllUsable, Usable
  <1>2. /\ DOMAIN call' = Thread
        /\ IsCall(call'[t])
        /\ \/ call[t].pc = "inspect" /\ call'[t].pc = "inspecting"
           \/ call[t].pc = "consume" /\ call'[t].pc = "consuming"
        /\ call'[t].at = call[t].at
        /\ call'[t].leases = call[t].leases /\ call'[t].manifest = call[t].manifest
        /\ call'[t].approval = call[t].approval /\ call'[t].clone = call[t].clone
        /\ \A u \in Thread : u # t => call'[u] = call[u]
    BY StartsIs, "inspecting" \in Section, "consuming" \in Section DEF Section
  <1>3. \A l \in call[t].leases : l \in Lease /\ handed[l] = {}
    BY <1>1 DEF Types, IsCall, HandInv, OwnInv, InCallback
  <1>4. /\ call[t].manifest \in Manifest
        /\ call[t].leases = manifests[call[t].manifest].leases
    BY <1>2 DEF CallInv, OfManifest
  <1>5. call[t].pc = "consume" => /\ call[t].approval \in approvals
                                  /\ call[t].approval.manifest = call[t].manifest
    BY DEF CallInv, OfApproval
  <1>6. /\ handed' \in [Lease -> SUBSET approvals]
        /\ \A l \in Lease : l \notin call[t].leases => handed'[l] = handed[l]
        /\ \A l \in call[t].leases :
              \/ call'[t].pc = "inspecting" /\ handed'[l] = {}
              \/ call'[t].pc = "consuming" /\ handed'[l] = {call[t].approval}
    BY <1>2, <1>3, <1>5, StartsIs DEF Types
  <1>7. Types'
    BY <1>1, <1>2, <1>6 DEF Types, IsCall
  <1>8. \A l \in Lease : /\ leases'[l].state = leases[l].state
                         /\ leases[l] # NoLease => leases'[l] # NoLease
    BY <1>1 DEF Active
  <1>9. CallInv'
    BY <1>2, <1>8 DEF Types, IsCall, CallInv, OfManifest, OfApproval
  <1>10. CloneInv'
    BY <1>2 DEF CloneInv
  <1>11. IssueInv'
    <2>1. \A m \in Manifest : \A l \in manifests[m].leases : leases'[l] # NoLease
      BY <1>8 DEF Types, IssueInv
    <2>2. \A l \in Lease : \A a \in handed'[l] : l \in manifests[a.manifest].leases
      BY <1>2, <1>4, <1>5, <1>6 DEF IssueInv
    <2>3. QED
      BY <2>1, <2>2 DEF IssueInv
  <1>12. \A u \in Thread : InCallback(u)' <=> InCallback(u) \/ u = t
    BY <1>2 DEF InCallback
  <1>13. \A u \in Thread : InCallback(u) => /\ u # t
                                            /\ \A l \in call[u].leases : l \notin call[t].leases
    BY <1>1, <1>2 DEF Types, IsCall, OwnInv, InCallback
  <1>14. \A l \in Lease : Active(l)' <=> Active(l)
    BY <1>1 DEF Active
  <1>15. OwnInv'
    <2>1. \A u \in Thread : InCallback(u)' =>
             \A l \in call'[u].leases : Active(l)' /\ leases'[l].consuming
      BY <1>1, <1>2, <1>3, <1>12, <1>13, <1>14 DEF Types, IsCall, OwnInv
    <2>2. \A l \in Lease : Active(l)' /\ leases'[l].consuming =>
             \E u \in Thread : InCallback(u)' /\ l \in call'[u].leases
      BY <1>1, <1>2, <1>12, <1>13, <1>14 DEF OwnInv
    <2>3. \A u, v \in Thread : \A l \in call'[u].leases :
             InCallback(u)' /\ InCallback(v)' /\ l \in call'[v].leases => u = v
      BY <1>2, <1>12, <1>13 DEF OwnInv
    <2>4. closed' => purposes' = {} /\ \A l \in Lease : ~Active(l)'
      BY <1>14 DEF OwnInv
    <2>5. QED
      BY <2>1, <2>2, <2>3, <2>4 DEF OwnInv
  <1>16. HandInv'
    <2>1. \A l \in Lease : \A a, b \in handed'[l] : a = b
      BY <1>3, <1>6 DEF HandInv
    <2>2. \A l \in Lease : handed'[l] # {} /\ Active(l)' =>
             \E u \in Thread : call'[u].pc = "consuming" /\ l \in call'[u].leases
      BY <1>2, <1>6, <1>14 DEF HandInv
    <2>3. \A u \in Thread : call'[u].pc = "consuming" =>
             \A l \in call'[u].leases : call'[u].approval \in handed'[l]
      BY <1>2, <1>3, <1>6, <1>13 DEF Types, IsCall, HandInv, InCallback
    <2>4. QED
      BY <2>1, <2>2, <2>3 DEF HandInv
  <1>17. EndTogether'
    <2> SUFFICES ASSUME NEW a \in approvals, NEW k \in manifests[a.manifest].leases,
                        NEW l \in manifests[a.manifest].leases, a \in handed'[k]
                 PROVE  a \in handed'[l] /\ leases'[k].state = leases'[l].state
      BY DEF EndTogether
    <2>1. k \in Lease /\ l \in Lease
      BY DEF Types, IssueInv
    <2>2. CASE k \in call[t].leases
      BY <1>1, <1>2, <1>4, <1>5, <1>6, <2>1, <2>2
    <2>3. CASE k \notin call[t].leases
      BY <1>3, <1>6, <1>8, <2>1, <2>3 DEF EndTogether
    <2>4. QED
      BY <2>2, <2>3
  <1>18. ReceiptInv'
    BY <1>3, <1>6, <1>8 DEF Types, IssueInv, ReceiptInv
  <1>19. QED
    BY <1>7, <1>9, <1>10, <1>11, <1>15, <1>16, <1>17, <1>18

\* An inspector raised: its leases are unlocked, and they were not handed over.
LEMMA UnlockStep ==
    ASSUME IInv, NEW t \in Thread, call[t].pc = "inspecting",
           Unlocks(call[t].leases), Leaves(t),
           UNCHANGED <<clock, manifests, approvals, handed, receipts, purposes, closed>>
    PROVE  IInv'
  <1> USE DEF IInv
  <1>1. /\ DOMAIN leases' = Lease
        /\ \A l \in Lease :
              /\ l \in call[t].leases => /\ DOMAIN leases'[l] = LeaseFields
                                         /\ leases'[l].state = "active"
                                         /\ leases'[l].until \in Nat
                       /\ leases'[l].until \in Nat
                                         /\ ~leases'[l].consuming
                                         /\ leases'[l] # NoLease
                                         /\ Active(l)
              /\ l \notin call[t].leases => leases'[l] = leases[l]
    BY UnlocksSets DEF OwnInv, InCallback
  <1>2. /\ DOMAIN call' = Thread
        /\ call'[t] = NoCall
        /\ \A u \in Thread : u # t => call'[u] = call[u]
    BY LeavesIs
  <1>3. Types'
    BY <1>1, <1>2, IdleCall DEF Types, IsCall
  <1>4. \A l \in Lease : /\ leases'[l].state = leases[l].state
                         /\ leases[l] # NoLease => leases'[l] # NoLease
    BY <1>1 DEF Active
  <1>5. CallInv'
    BY <1>2, <1>4, IdleCall DEF Types, IsCall, CallInv, OfManifest, OfApproval
  <1>6. CloneInv' /\ IssueInv'
    BY <1>2, <1>4, IdleCall DEF Types, IsCall, CloneInv, IssueInv
  <1>7. \A u \in Thread : InCallback(u)' <=> InCallback(u) /\ u # t
    BY <1>2, IdleCall DEF InCallback
  <1>8. \A u \in Thread : u # t /\ InCallback(u) =>
           \A l \in call[u].leases : l \notin call[t].leases
    BY DEF OwnInv, InCallback
  <1>9. \A l \in Lease : Active(l)' <=> Active(l)
    BY <1>1 DEF Active
  <1>10. OwnInv'
    <2>1. \A u \in Thread : InCallback(u)' =>
             \A l \in call'[u].leases : Active(l)' /\ leases'[l].consuming
      BY <1>1, <1>2, <1>7, <1>8, <1>9 DEF Types, IsCall, OwnInv
    <2>2. \A l \in Lease : Active(l)' /\ leases'[l].consuming =>
             \E u \in Thread : InCallback(u)' /\ l \in call'[u].leases
      BY <1>1, <1>2, <1>7, <1>9 DEF OwnInv
    <2>3. \A u, v \in Thread : \A l \in call'[u].leases :
             InCallback(u)' /\ InCallback(v)' /\ l \in call'[v].leases => u = v
      BY <1>2, <1>7 DEF OwnInv
    <2>4. closed' => purposes' = {} /\ \A l \in Lease : ~Active(l)'
      BY <1>9 DEF OwnInv
    <2>5. QED
      BY <2>1, <2>2, <2>3, <2>4 DEF OwnInv
  <1>11. HandInv'
    BY <1>1, <1>2, <1>8, <1>9, IdleCall DEF Types, IsCall, HandInv, InCallback
  <1>12. EndTogether' /\ ReceiptInv'
    BY <1>4 DEF Types, EndTogether, ReceiptInv, IssueInv
  <1>13. QED
    BY <1>3, <1>5, <1>6, <1>10, <1>11, <1>12

\* New leases are in no call, in no manifest and were never handed over.  A call
\* leaves with its lease, or goes on with its clones.
LEMMA InsertStep ==
    ASSUME IInv, NEW t \in Thread, ~InCallback(t), ~closed,
           NEW fresh \in SUBSET Lease, \A l \in fresh : leases[l] = NoLease,
           DOMAIN leases' = Lease,
           \A l \in fresh : /\ DOMAIN leases'[l] = LeaseFields
                            /\ leases'[l].state = "active" /\ ~leases'[l].consuming
                            /\ leases'[l] # NoLease /\ leases'[l].until \in Nat,
           \A l \in Lease \ fresh : leases'[l] = leases[l],
           DOMAIN call' = Thread, IsCall(call'[t]),
           \A u \in Thread : u # t => call'[u] = call[u],
           \/ call'[t] = NoCall
           \/ /\ call'[t].pc = "create" /\ call'[t].clone
              /\ call'[t].leases = fresh /\ fresh # {},
           UNCHANGED <<others, purposes, closed>>
    PROVE  IInv'
  <1> USE DEF IInv, others
  <1>1. \A l \in fresh : /\ ~Active(l)
                         /\ handed[l] = {}
                         /\ \A u \in Thread : l \notin call[u].leases
                         /\ \A m \in Manifest : l \notin manifests[m].leases
    <2>1. \A l \in fresh : ~Active(l)
      BY DEF NoLease, Active
    <2>2. QED
      BY <2>1 DEF Types, IsCall, CallInv, IssueInv
  <1>2. Types'
    BY DEF Types, IsCall
  <1>3. \A l \in Lease : leases[l] # NoLease => leases'[l] # NoLease
    OBVIOUS
  <1>4. CallInv'
    BY <1>3, IdleCall DEF Types, IsCall, CallInv, OfManifest, OfApproval
  <1>5. CloneInv'
    BY <1>1, IdleCall DEF CloneInv
  <1>6. IssueInv'
    BY <1>3 DEF Types, IssueInv
  <1>7. \A u \in Thread : /\ InCallback(u)' <=> InCallback(u)
                          /\ InCallback(u) => call'[u] = call[u]
    BY IdleCall DEF InCallback
  <1>8. \A l \in Lease : l \notin fresh => (Active(l)' <=> Active(l))
    BY DEF Active
  <1>9. OwnInv'
    <2>1. \A u \in Thread : InCallback(u)' =>
             \A l \in call'[u].leases : Active(l)' /\ leases'[l].consuming
      BY <1>1, <1>7, <1>8 DEF Types, IsCall, OwnInv
    <2>2. \A l \in Lease : Active(l)' /\ leases'[l].consuming =>
             \E u \in Thread : InCallback(u)' /\ l \in call'[u].leases
      BY <1>7, <1>8 DEF OwnInv
    <2>3. \A u, v \in Thread : \A l \in call'[u].leases :
             InCallback(u)' /\ InCallback(v)' /\ l \in call'[v].leases => u = v
      BY <1>7 DEF OwnInv
    <2>4. QED
      BY <2>1, <2>2, <2>3 DEF OwnInv
  <1>10. HandInv'
    BY <1>1, <1>7, <1>8 DEF Types, HandInv, InCallback
  <1>11. EndTogether' /\ ReceiptInv'
    BY <1>1 DEF Types, IssueInv, EndTogether, ReceiptInv
  <1>12. QED
    BY <1>2, <1>4, <1>5, <1>6, <1>9, <1>10, <1>11

\* A new manifest is no call's and no approval's yet.
LEMMA CommitStep ==
    ASSUME IInv, NEW t \in Thread, call[t].pc = "commit", ~closed, Leaves(t),
           NEW m \in Manifest, manifests[m] = NoManifest,
           manifests' = [manifests EXCEPT ![m] = NewManifest(call[t].leases, call[t].at)],
           UNCHANGED <<clock, leases, approvals, closed, handed, receipts>>
    PROVE  IInv'
  <1> USE DEF IInv
  <1>1. /\ DOMAIN call' = Thread
        /\ call'[t] = NoCall
        /\ \A u \in Thread : u # t => call'[u] = call[u]
    BY LeavesIs
  <1>2. /\ DOMAIN manifests' = Manifest
        /\ manifests'[m].leases = call[t].leases
        /\ \A n \in Manifest : n # m => manifests'[n] = manifests[n]
    BY DEF Types, NewManifest
  <1>3. manifests'[m] # NoManifest
    <2>1. manifests'[m].at = call[t].at /\ NoManifest.at = -1
      BY DEF Types, NewManifest, NoManifest
    <2>2. QED
      BY <2>1 DEF Types, IsCall
  <1>4. manifests'[m].leases # {} /\ manifests'[m].until \in Nat
    <2>1. call[t].leases # {} /\ call[t].leases \subseteq Lease
      BY DEF CallInv, Types, IsCall
    <2>2. {leases[l].until : l \in call[t].leases} \in SUBSET Nat
      BY <2>1 DEF Types
    <2>3. {leases[l].until : l \in call[t].leases} # {}
      BY <2>1
    <2>4. Min({leases[l].until : l \in call[t].leases}) \in Nat
      BY <2>2, <2>3, MinNat
    <2>5. QED
      BY <1>2, <2>1, <2>4 DEF Types, NewManifest
  <1>5. \A u \in Thread : call[u].pc \in OfManifest => call[u].manifest # m
    BY DEF CallInv
  <1>6. \A a \in approvals : manifests'[a.manifest] = manifests[a.manifest]
    BY <1>2 DEF IssueInv
  <1>7. Types'
    BY <1>1, <1>2, IdleCall DEF Types, IsCall
  <1>8. CallInv'
    BY <1>1, <1>2, <1>5, IdleCall DEF CallInv, OfManifest, OfApproval
  <1>9. CloneInv'
    BY <1>1, <1>2, IdleCall DEF CloneInv
  <1>10. IssueInv'
    BY <1>2, <1>3, <1>6, <1>4 DEF Types, IssueInv, CallInv
  <1>11. OwnInv'
    BY <1>1, IdleCall DEF OwnInv, InCallback, Active
  <1>12. HandInv'
    BY <1>1, IdleCall DEF HandInv, Active
  <1>13. EndTogether' /\ ReceiptInv'
    BY <1>6 DEF EndTogether, ReceiptInv
  <1>14. QED
    BY <1>7, <1>8, <1>9, <1>10, <1>11, <1>12, <1>13

\* A new approval is of an issued manifest; no lease was handed over under it,
\* or it is the approval that was given before.
LEMMA ApproveStep == ASSUME IInv, NEW t \in Thread, ApproveManifest(t) PROVE IInv'
  <1> USE DEF IInv
  <1> DEFINE a == NewApproval(call[t].manifest, call[t].at)
  <1>1. /\ DOMAIN call' = Thread
        /\ call'[t] = NoCall
        /\ \A u \in Thread : u # t => call'[u] = call[u]
    BY LeavesIs DEF ApproveManifest
  <1>2. /\ call[t].pc = "approve" /\ approvals' = approvals \cup {a}
        /\ UNCHANGED <<clock, version, leases, manifests, purposes, closed, handed, receipts>>
    BY DEF ApproveManifest
  <1>3. a.manifest = call[t].manifest /\ a.at = call[t].at
    BY DEF NewApproval
  <1>4. a.until \in Nat
    <2>1. call[t].at + ApprovalTtl \in Nat /\ manifests[call[t].manifest].until \in Nat
      BY <1>2, SecurityAssumption DEF Types, IsCall, CallInv, IssueInv, OfManifest
    <2>2. {call[t].at + ApprovalTtl, manifests[call[t].manifest].until} \in SUBSET Nat
      BY <2>1
    <2>3. Min({call[t].at + ApprovalTtl, manifests[call[t].manifest].until}) \in Nat
      BY <2>2, MinNat
    <2>4. QED
      BY <2>3 DEF NewApproval
  <1> HIDE DEF a
  <1>5. Types'
    BY <1>1, <1>2, IdleCall DEF Types, IsCall
  <1>6. CallInv'
    BY <1>1, <1>2, IdleCall DEF CallInv, OfManifest, OfApproval
  <1>7. CloneInv'
    BY <1>1, <1>2, IdleCall DEF CloneInv
  <1>8. IssueInv'
    BY <1>2, <1>3, <1>4 DEF IssueInv, CallInv, OfManifest, Types, IsCall
  <1>9. OwnInv' /\ HandInv'
    BY <1>1, <1>2, IdleCall DEF OwnInv, HandInv, InCallback, Active
  <1>10. EndTogether' /\ ReceiptInv'
    <2>1. \A b : ~(b \in approvals) => \A l \in Lease : b \notin handed[l]
      BY DEF Types
    <2>2. EndTogether'
      BY <1>2, <1>3, <2>1 DEF EndTogether, Types, CallInv, OfManifest
    <2>3. ReceiptInv'
      BY <1>2 DEF ReceiptInv
    <2>4. QED
      BY <2>2, <2>3
  <1>11. QED
    BY <1>5, <1>6, <1>7, <1>8, <1>9, <1>10

-----------------------------------------------------------------------------
(* The invariant *)

\* Every step keeps the invariant: each action is one of the kinds of steps above.
LEMMA StepIInv == IInv /\ [Next]_vars => IInv'
  <1> SUFFICES ASSUME IInv, [Next]_vars PROVE IInv'
    OBVIOUS
  <1>1. Types
    BY DEF IInv
  <1>2. ASSUME NEW t \in Thread, NEW s \in Source, NEW ttl \in LeaseTtl, BeginSelect(t, s, ttl)
        PROVE  IInv'
    <2> DEFINE c == [NoCall EXCEPT !.pc = "insert", !.at = clock, !.source = s,
                                   !.version = ReadExactFile(s), !.ttl = ttl]
    <2>1. /\ c.at = clock /\ c.started = 0 /\ c.ttl \in Nat
          /\ c.leases = {}
      BY SecurityAssumption DEF NoCall
    <2>2. c.clone = FALSE
      BY DEF NoCall
    <2>3. DOMAIN c = CallFields
      BY DEF NoCall, CallFields
    <2>4. /\ call[t] = NoCall /\ Enters(t, c)
          /\ UNCHANGED <<others, leases, purposes, closed>>
      BY <1>2 DEF BeginSelect, others
    <2>5. c.pc = "insert"
      BY DEF NoCall
    <2> HIDE DEF c
    <2>6. QED
      BY BeginStep, <2>1, <2>2, <2>3, <2>4, <2>5 DEF Section, OfManifest, OfApproval
  <1>3. ASSUME NEW t \in Thread, NEW ls \in SUBSET Known, BeginCreate(t, ls)
        PROVE  IInv'
    <2> DEFINE c == [NoCall EXCEPT !.pc = "create", !.at = clock, !.leases = ls]
    <2>1. /\ c.at = clock /\ c.started = 0 /\ c.ttl \in Nat
          /\ c.leases = ls
      BY SecurityAssumption DEF NoCall
    <2>2. c.clone = FALSE
      BY DEF NoCall
    <2>3. DOMAIN c = CallFields
      BY DEF NoCall, CallFields
    <2>4. /\ call[t] = NoCall /\ Enters(t, c)
          /\ UNCHANGED <<others, leases, purposes, closed>>
      BY <1>3 DEF BeginCreate, others
    <2>5. c.pc = "create"
      BY DEF NoCall
    <2> HIDE DEF c
    <2>6. /\ ls \subseteq Lease
          /\ \A l \in ls : /\ leases[l] # NoLease
                           /\ \A u \in Thread : call[u].clone => l \notin call[u].leases
          /\ ls # {}
      BY <1>3 DEF Known, BeginCreate
    <2>7. QED
      BY BeginStep, <2>1, <2>2, <2>3, <2>4, <2>5, <2>6 DEF Section, OfManifest, OfApproval
  <1>4. ASSUME NEW t \in Thread, NEW m \in Manifest, BeginApprove(t, m)
        PROVE  IInv'
    <2> DEFINE c == [NoCall EXCEPT !.pc = "approve", !.at = clock, !.manifest = m,
                                   !.leases = manifests[m].leases]
    <2>1. /\ c.at = clock /\ c.started = 0 /\ c.ttl \in Nat
          /\ c.leases = manifests[m].leases /\ c.manifest = m
      BY SecurityAssumption DEF NoCall
    <2>2. c.clone = FALSE
      BY DEF NoCall
    <2>3. DOMAIN c = CallFields
      BY DEF NoCall, CallFields
    <2>4. /\ call[t] = NoCall /\ Enters(t, c)
          /\ UNCHANGED <<others, leases, purposes, closed>>
      BY <1>4 DEF BeginApprove, others
    <2>5. c.pc = "approve"
      BY DEF NoCall
    <2> HIDE DEF c
    <2>6. /\ manifests[m].leases \subseteq Lease
          /\ \A l \in manifests[m].leases :
                /\ leases[l] # NoLease
                /\ \A u \in Thread : call[u].clone => l \notin call[u].leases
      BY DEF IInv, Types, IssueInv, CloneInv
    <2>7. manifests[m] # NoManifest
      BY <1>4 DEF BeginApprove
    <2>8. QED
      BY BeginStep, <2>1, <2>2, <2>3, <2>4, <2>5, <2>6, <2>7
         DEF Section, OfManifest, OfApproval
  <1>5. ASSUME NEW t \in Thread, NEW m \in Manifest, BeginInspect(t, m)
        PROVE  IInv'
    <2> DEFINE c == [NoCall EXCEPT !.pc = "inspect", !.at = clock, !.manifest = m,
                                   !.leases = manifests[m].leases]
    <2>1. /\ c.at = clock /\ c.started = 0 /\ c.ttl \in Nat
          /\ c.leases = manifests[m].leases /\ c.manifest = m
      BY SecurityAssumption DEF NoCall
    <2>2. c.clone = FALSE
      BY DEF NoCall
    <2>3. DOMAIN c = CallFields
      BY DEF NoCall, CallFields
    <2>4. /\ call[t] = NoCall /\ Enters(t, c)
          /\ UNCHANGED <<others, leases, purposes, closed>>
      BY <1>5 DEF BeginInspect, others
    <2>5. c.pc = "inspect"
      BY DEF NoCall
    <2> HIDE DEF c
    <2>6. /\ manifests[m].leases \subseteq Lease
          /\ \A l \in manifests[m].leases :
                /\ leases[l] # NoLease
                /\ \A u \in Thread : call[u].clone => l \notin call[u].leases
      BY DEF IInv, Types, IssueInv, CloneInv
    <2>7. manifests[m] # NoManifest
      BY <1>5 DEF BeginInspect
    <2>8. QED
      BY BeginStep, <2>1, <2>2, <2>3, <2>4, <2>5, <2>6, <2>7
         DEF Section, OfManifest, OfApproval
  <1>6. ASSUME NEW t \in Thread, NEW m \in Manifest, NEW ttl \in LeaseTtl, BeginClone(t, m, ttl)
        PROVE  IInv'
    <2> DEFINE c == [NoCall EXCEPT !.pc = "clone", !.at = clock, !.manifest = m, !.ttl = ttl,
                                   !.leases = manifests[m].leases]
    <2>1. /\ c.at = clock /\ c.started = 0 /\ c.ttl \in Nat
          /\ c.leases = manifests[m].leases /\ c.manifest = m
      BY SecurityAssumption DEF NoCall
    <2>2. c.clone = FALSE
      BY DEF NoCall
    <2>3. DOMAIN c = CallFields
      BY DEF NoCall, CallFields
    <2>4. /\ call[t] = NoCall /\ Enters(t, c)
          /\ UNCHANGED <<others, leases, purposes, closed>>
      BY <1>6 DEF BeginClone, others
    <2>5. c.pc = "clone"
      BY DEF NoCall
    <2> HIDE DEF c
    <2>6. /\ manifests[m].leases \subseteq Lease
          /\ \A l \in manifests[m].leases :
                /\ leases[l] # NoLease
                /\ \A u \in Thread : call[u].clone => l \notin call[u].leases
      BY DEF IInv, Types, IssueInv, CloneInv
    <2>7. manifests[m] # NoManifest
      BY <1>6 DEF BeginClone
    <2>8. QED
      BY BeginStep, <2>1, <2>2, <2>3, <2>4, <2>5, <2>6, <2>7
         DEF Section, OfManifest, OfApproval
  <1>7. ASSUME NEW t \in Thread, NEW a \in approvals, BeginConsume(t, a)
        PROVE  IInv'
    <2> DEFINE c == [NoCall EXCEPT
                      !.pc = IF clock >= manifests[a.manifest].until THEN "expire" ELSE "consume",
                      !.at = clock, !.manifest = a.manifest, !.approval = a,
                      !.leases = manifests[a.manifest].leases]
    <2>1. /\ c.at = clock /\ c.started = 0 /\ c.ttl \in Nat
          /\ c.leases = manifests[a.manifest].leases /\ c.manifest = a.manifest /\ c.approval = a
      BY SecurityAssumption DEF NoCall
    <2>2. c.clone = FALSE
      BY DEF NoCall
    <2>3. DOMAIN c = CallFields
      BY DEF NoCall, CallFields
    <2>4. /\ call[t] = NoCall /\ Enters(t, c)
          /\ UNCHANGED <<others, leases, purposes, closed>>
      BY <1>7 DEF BeginConsume, others
    <2>5. c.pc \in {"expire", "consume"}
      BY DEF NoCall
    <2> HIDE DEF c
    <2>6. /\ a.manifest \in Manifest /\ manifests[a.manifest] # NoManifest
          /\ manifests[a.manifest].leases \subseteq Lease
          /\ \A l \in manifests[a.manifest].leases :
                /\ leases[l] # NoLease
                /\ \A u \in Thread : call[u].clone => l \notin call[u].leases
      BY DEF IInv, Types, IssueInv, CloneInv
    <2>7. a.at <= clock
      BY <1>7 DEF BeginConsume
    <2>8. QED
      BY BeginStep, <2>1, <2>2, <2>3, <2>4, <2>5, <2>6, <2>7
         DEF Section, OfManifest, OfApproval
  <1>8. ASSUME NEW t \in Thread, InsertLease(t) PROVE IInv'
    <2>1. /\ call[t].pc = "insert" /\ Leaves(t) /\ UNCHANGED <<others, purposes, closed>>
      BY <1>8 DEF InsertLease, others
    <2>2. ~InCallback(t)
      BY <2>1 DEF InCallback
    <2>3. CASE UNCHANGED leases
      BY QuietStep, LeavesIs, <1>1, <2>1, <2>2, <2>3 DEF GoesOn, EndsIdleLeases, Types
    <2>4. CASE ~closed /\ \E l \in Lease :
                  /\ leases[l] = NoLease
                  /\ leases' = [leases EXCEPT ![l] =
                        NewLease(call[t].source, call[t].version, call[t].at + call[t].ttl)]
      <3>1. PICK l \in Lease :
                  /\ leases[l] = NoLease
                  /\ leases' = [leases EXCEPT ![l] =
                        NewLease(call[t].source, call[t].version, call[t].at + call[t].ttl)]
        BY <2>4
      <3>2. /\ DOMAIN leases' = Lease
            /\ DOMAIN leases'[l] = LeaseFields
            /\ leases'[l].state = "active" /\ ~leases'[l].consuming
            /\ leases'[l].until \in Nat
            /\ \A k \in Lease \ {l} : leases'[k] = leases[k]
        BY <1>1, <3>1 DEF Types, IsCall, NewLease, LeaseFields
      <3>3. leases'[l] # NoLease
        BY <3>2 DEF NoLease
      <3>4. {l} \in SUBSET Lease
        OBVIOUS
      <3>5. IsCall(call'[t]) /\ DOMAIN call' = Thread /\ call'[t] = NoCall
            /\ \A u \in Thread : u # t => call'[u] = call[u]
        BY <1>1, <2>1, LeavesIs, IdleCall DEF Types
      <3>6. leases[l] = NoLease /\ ~closed
        BY <2>4, <3>1
      <3>7. \A k \in {l} : /\ leases[k] = NoLease
                           /\ DOMAIN leases'[k] = LeaseFields
                           /\ leases'[k].state = "active" /\ ~leases'[k].consuming
                           /\ leases'[k] # NoLease /\ leases'[k].until \in Nat
        BY <3>2, <3>3, <3>6
      <3>8. DOMAIN leases' = Lease /\ \A k \in Lease \ {l} : leases'[k] = leases[k]
        BY <3>2
      <3>9. QED
        BY InsertStep, <2>1, <2>2, <3>4, <3>5, <3>6, <3>7, <3>8
    <2>5. QED
      BY <1>8, <2>3, <2>4 DEF InsertLease
  <1>9. ASSUME NEW t \in Thread, CheckLeases(t) PROVE IInv'
    <2>1. EndsIdleLeases /\ UNCHANGED <<others, purposes, closed>>
      BY <1>1, <1>9 DEF CheckLeases, EndsIdleLeases, others, Types
    <2>2. ~InCallback(t) /\ call[t].pc = "create"
      BY <1>9 DEF CheckLeases, InCallback
    <2>3. CASE Moves(t, "commit")
      <3>1. GoesOn(t)
        BY <1>1, <2>2, <2>3, MovesIs DEF GoesOn, Section
      <3>2. QED
        BY <2>1, <3>1, QuietStep
    <2>4. CASE Leaves(t)
      BY <1>1, <2>1, <2>2, <2>4, LeavesIs, QuietStep DEF GoesOn
    <2>5. QED
      BY <1>9, <2>3, <2>4 DEF CheckLeases
  <1>10. ASSUME NEW t \in Thread, CommitManifest(t) PROVE IInv'
    <2>1. CASE closed
      <3>1. EndsIdleLeases /\ UNCHANGED <<others, purposes, closed>> /\ ~InCallback(t)
        BY <1>1, <1>10, <2>1 DEF CommitManifest, EndsIdleLeases, others, Types, InCallback
      <3>2. GoesOn(t)
        BY <1>1, <1>10, <2>1, <3>1, LeavesIs, MovesIs DEF CommitManifest, GoesOn, Section
      <3>3. QED
        BY <3>1, <3>2, QuietStep
    <2>2. CASE ~closed
      BY <1>10, <2>2, CommitStep DEF CommitManifest
    <2>3. QED
      BY <2>1, <2>2
  <1>11. ASSUME NEW t \in Thread, ApproveManifest(t) PROVE IInv'
    BY <1>11, ApproveStep
  <1>12. ASSUME NEW t \in Thread, call[t].pc \in {"inspect", "consume", "clone"}, AllUsable(t),
                leases' = CleanUp(call[t].leases, "integrity_rejected"), Leaves(t),
                UNCHANGED <<others, purposes, closed>>
         PROVE  IInv'
    <2>1. EndsIdleLeases
      BY <1>1, <1>12, CleanUpEnds DEF EndsIdleLeases, AllUsable, Usable, Terminal
    <2>2. GoesOn(t)
      BY <1>1, <1>12, LeavesIs DEF GoesOn, InCallback
    <2>3. QED
      BY <1>12, <2>1, <2>2, QuietStep
  <1>13. ASSUME NEW t \in Thread, StartInspect(t) PROVE IInv'
    <2>1. CASE Verified(call[t].leases)
      BY <1>13, <2>1, LockStep DEF StartInspect, Locks
    <2>2. CASE ~Verified(call[t].leases)
      BY <1>12, <1>13, <2>2 DEF StartInspect, others
    <2>3. QED
      BY <2>1, <2>2
  <1>14. ASSUME NEW t \in Thread, EndInspect(t) PROVE IInv'
    <2>1. CASE leases' = Consuming(call[t].leases, FALSE)
      BY <1>14, <2>1, UnlockStep DEF EndInspect, Unlocks
    <2>2. ASSUME NEW state \in Terminal, leases' = CleanUp(call[t].leases, state) PROVE IInv'
      BY <1>14, <2>2, EndCallbackStep DEF EndInspect, InCallback
    <2>3. QED
      BY <1>14, <2>1, <2>2 DEF EndInspect, Terminal
  <1>15. ASSUME NEW t \in Thread, NEW fresh \in SUBSET Lease, InsertClones(t, fresh),
                call[t].pc = "clone", call[t].manifest \in purposes,
                Cardinality(fresh) = Cardinality(call[t].leases),
                UNCHANGED <<others, purposes, closed>>
         PROVE  IInv'
    <2>1. ~closed /\ ~InCallback(t)
      BY <1>15 DEF IInv, OwnInv, InCallback
    <2> DEFINE until == Min({call[t].at + call[t].ttl}
                               \cup {leases[l].until : l \in call[t].leases})
    <2>2. PICK of \in [fresh -> call[t].leases] :
             leases' = [l \in Lease |-> IF l \in fresh
                           THEN NewLease(leases[of[l]].source, leases[of[l]].version, until)
                           ELSE leases[l]]
      BY <1>15 DEF InsertClones
    <2>3. until \in Nat
      <3>1. call[t].at + call[t].ttl \in Nat /\ \A l \in call[t].leases : leases[l].until \in Nat
        BY <1>1 DEF Types, IsCall
      <3>2. {call[t].at + call[t].ttl} \cup {leases[l].until : l \in call[t].leases} \in SUBSET Nat
        BY <3>1
      <3>3. QED
        BY <3>2, MinNat
    <2> HIDE DEF until
    <2>4. /\ DOMAIN leases' = Lease
          /\ \A l \in fresh : /\ DOMAIN leases'[l] = LeaseFields /\ leases'[l].until = until
                              /\ leases'[l].state = "active" /\ ~leases'[l].consuming
          /\ \A l \in Lease \ fresh : leases'[l] = leases[l]
      BY <2>2 DEF NewLease, LeaseFields
    <2>5. \A l \in fresh : leases'[l] # NoLease
      BY <2>4 DEF NoLease
    <2>6. /\ call' = [call EXCEPT ![t].pc = "create", ![t].leases = fresh, ![t].clone = TRUE]
          /\ \A l \in fresh : leases[l] = NoLease
      BY <1>15 DEF InsertClones
    <2>7. /\ DOMAIN call' = Thread
          /\ \A u \in Thread : u # t => call'[u] = call[u]
      BY <1>1, <2>6 DEF Types
    <2>8. /\ DOMAIN call'[t] = CallFields
          /\ call'[t].pc = "create" /\ call'[t].clone = TRUE /\ call'[t].leases = fresh
          /\ call'[t].at = call[t].at /\ call'[t].started = call[t].started
          /\ call'[t].ttl = call[t].ttl
      BY <1>1, <2>6 DEF Types, IsCall, CallFields
    <2>9. call'[t].clone \in BOOLEAN /\ call'[t].pc \in Section
      BY <2>8 DEF Section
    <2>10. IsCall(call'[t])
      BY <1>1, <2>8, <2>9 DEF Types, IsCall
    <2>11. call'[t].clone
      BY <2>8
    <2>12. /\ call'[t].pc = "create" /\ call'[t].leases = fresh
      BY <2>8
    <2>13. fresh # {}
      <3>1. call[t].leases # {} /\ call[t].leases \subseteq Lease
        BY <1>15 DEF IInv, Types, IsCall, CallInv, IssueInv, OfManifest
      <3>2. IsFiniteSet(call[t].leases)
        BY <3>1, SecurityAssumption, FS_Subset
      <3>3. Cardinality(call[t].leases) # 0
        BY <3>1, <3>2, FS_EmptySet
      <3>4. QED
        BY <1>15, <3>3, FS_EmptySet
    <2>14. QED
      BY <1>15, <2>1, <2>4, <2>5, <2>6, <2>7, <2>10, <2>11, <2>12, <2>13, <2>3, InsertStep
  <1>16. ASSUME NEW t \in Thread, CloneManifest(t) PROVE IInv'
    <2>1. call[t].pc = "clone" /\ UNCHANGED <<others, purposes, closed>>
      BY <1>16 DEF CloneManifest, others
    <2>2. CASE Leaves(t) /\ UNCHANGED leases
      <3>1. EndsIdleLeases /\ GoesOn(t)
        BY <1>1, <2>1, <2>2, LeavesIs DEF EndsIdleLeases, Types, GoesOn, InCallback
      <3>2. QED
        BY <2>1, <3>1, QuietStep
    <2>3. QED
      BY <1>12, <1>15, <1>16, <2>1, <2>2 DEF CloneManifest
  <1>17. ASSUME NEW t \in Thread, RemoveClones(t) PROVE IInv'
    <2>1. /\ call[t].pc = "unclone" /\ Leaves(t) /\ UNCHANGED <<others, purposes, closed>>
          /\ leases' = CleanUp(call[t].leases, "cancelled")
      BY <1>17 DEF RemoveClones, others
    <2>2. \A l \in call[t].leases : Active(l) => ~leases[l].consuming
      BY <2>1 DEF IInv, Types, IsCall, CallInv, CloneInv, OwnInv, InCallback
    <2>3. EndsIdleLeases
      BY <1>1, <2>1, <2>2, CleanUpEnds DEF EndsIdleLeases, Terminal
    <2>4. GoesOn(t)
      BY <1>1, <2>1, LeavesIs DEF GoesOn, InCallback
    <2>5. QED
      BY <2>1, <2>3, <2>4, QuietStep
  <1>18. ASSUME NEW t \in Thread, ExpireSpecific(t) PROVE IInv'
    <2> DEFINE ls == {l \in call[t].leases : Active(l) /\ ~leases[l].consuming}
    <2>1. leases' = CleanUp(ls, "expired")
      BY <1>18 DEF ExpireSpecific
    <2>2. \A l \in ls : ~leases[l].consuming
      OBVIOUS
    <2> HIDE DEF ls
    <2>3. EndsIdleLeases
      BY <1>1, <2>1, <2>2, CleanUpEnds DEF EndsIdleLeases, Terminal
    <2>4. GoesOn(t) /\ UNCHANGED <<others, purposes, closed>>
      BY <1>1, <1>18, LeavesIs DEF ExpireSpecific, GoesOn, InCallback, others
    <2>5. QED
      BY <2>3, <2>4, QuietStep
  <1>19. ASSUME NEW t \in Thread, StartConsume(t) PROVE IInv'
    <2>1. CASE Verified(call[t].leases)
      BY <1>19, <2>1, LockStep DEF StartConsume, Locks
    <2>2. CASE ~Verified(call[t].leases)
      BY <1>12, <1>19, <2>2 DEF StartConsume, others
    <2>3. QED
      BY <2>1, <2>2
  <1>20. ASSUME NEW t \in Thread, ConsumerFails(t) PROVE IInv'
    BY <1>20, EndCallbackStep DEF ConsumerFails, InCallback, Terminal
  <1>21. ASSUME NEW t \in Thread, EndConsume(t) PROVE IInv'
    <2>1. /\ call[t].pc = "consuming" /\ Leaves(t)
          /\ leases' = CleanUp(call[t].leases, Outcome(t))
          /\ UNCHANGED <<clock, manifests, approvals, handed, purposes, closed>>
      BY <1>21 DEF EndConsume
    <2>2. Outcome(t) \in {"expired", "integrity_rejected", "consumed"}
      BY DEF Outcome
    <2>3. CASE Outcome(t) # "consumed"
      <3>1. UNCHANGED receipts
        BY <1>21, <2>3 DEF EndConsume
      <3>2. QED
        BY <2>1, <2>2, <3>1, EndCallbackStep DEF InCallback, Terminal
    <2>4. CASE Outcome(t) = "consumed"
      <3>1. ~(Completed(t) >= call[t].approval.until)
        BY <2>4 DEF Outcome
      <3>2. receipts' = receipts \cup {NewReceipt(call[t].approval, Completed(t))}
        BY <1>21, <2>4 DEF EndConsume
      <3>3. Completed(t) < call[t].approval.until
        BY <2>1, <3>1 DEF IInv, Types, IsCall, CallInv, IssueInv, OfApproval, Completed
      <3>4. QED
        BY <2>1, <2>4, <3>2, <3>3, EndCallbackStep DEF InCallback, Terminal
    <2>5. QED
      BY <2>3, <2>4
  <1>22. ASSUME NEW t \in Thread, NEW pc \in {"create", "approve", "inspect", "clone", "consume"},
                RefusedAt(t, pc)
         PROVE  IInv'
    <2>1. EndsIdleLeases
      <3>1. PICK l \in call[t].leases :
               leases' = IF Expirable(l, call[t].at) THEN CleanUp({l}, "expired") ELSE leases
        BY <1>22 DEF RefusedAt
      <3>2. CASE Expirable(l, call[t].at)
        <4>1. leases' = CleanUp({l}, "expired") /\ "expired" \in Terminal
          BY <3>1, <3>2 DEF Terminal
        <4>2. Active(l) /\ ~leases[l].consuming
          BY <3>2 DEF Expirable
        <4>3. QED
          BY <1>1, <4>1, <4>2, CleanUpEnds DEF EndsIdleLeases
      <3>3. CASE ~Expirable(l, call[t].at)
        BY <1>1, <3>1, <3>3 DEF EndsIdleLeases, Types
      <3>4. QED
        BY <3>2, <3>3
    <2>2. ~InCallback(t) /\ UNCHANGED <<others, purposes, closed>>
      BY <1>22 DEF RefusedAt, InCallback, others
    <2>3. GoesOn(t)
      BY <1>1, <1>22, <2>2, LeavesIs, MovesIs DEF RefusedAt, GoesOn, Section
    <2>4. QED
      BY <2>1, <2>2, <2>3, QuietStep
  <1>23. ASSUME NEW l \in Known, CancelLease(l) PROVE IInv'
    <2>1. EndsIdleLeases
      BY <1>1, <1>23, CleanUpEnds DEF CancelLease, EndsIdleLeases, Terminal
    <2>2. QED
      BY <1>23, <2>1, QuietStep DEF CancelLease, others
  <1>24. CASE ExpireAll
    <2>1. leases' = CleanUp({l \in Lease : Expirable(l, clock)}, "expired")
      BY <1>24 DEF ExpireAll
    <2>2. \A l \in Lease : leases'[l] # leases[l] => Expirable(l, clock)
      BY <2>1 DEF CleanUp
    <2>3. EndsIdleLeases
      BY <1>1, <2>1, <2>2, CleanUpEnds DEF EndsIdleLeases, Expirable, Terminal
    <2>4. QED
      BY <1>24, <2>3, QuietStep DEF ExpireAll, others
  <1>25. CASE CancelAll
    <2>1. EndsIdleLeases
      BY <1>1, <1>25, CleanUpEnds DEF CancelAll, NoCallback, EndsIdleLeases, Terminal
    <2>2. QED
      BY <1>25, <2>1, QuietStep DEF CancelAll, others
  <1>26. CASE Close
    <2>1. EndsIdleLeases
      BY <1>1, <1>26, CleanUpEnds DEF Close, NoCallback, EndsIdleLeases, Terminal
    <2>2. \A l \in Lease : leases'[l].state # "active"
      BY <1>1, <1>26, CleanUpEnds DEF Close, Active, Terminal
    <2>3. purposes' = {} /\ closed' \in BOOLEAN /\ UNCHANGED call /\ UNCHANGED others
      BY <1>26 DEF Close, others
    <2>4. QED
      BY <2>1, <2>2, <2>3, QuietStep
  <1>27. ASSUME clock' \in Nat, clock <= clock',
                UNCHANGED <<leases, manifests, purposes, approvals, closed, call, handed,
                receipts>>
         PROVE  IInv'
    <2>1. Types'
      <3>1. \A t \in Thread : IsCall(call[t])'
        BY <1>1, <1>27 DEF Types, IsCall
      <3>2. QED
        BY <1>1, <1>27, <3>1 DEF Types
    <2>2. (CallInv /\ CloneInv /\ IssueInv)'
      BY <1>27 DEF IInv, CallInv, CloneInv, IssueInv
    <2>3. (OwnInv /\ HandInv /\ EndTogether /\ ReceiptInv)'
      BY <1>27 DEF IInv, OwnInv, HandInv, EndTogether, ReceiptInv, InCallback, Active
    <2>4. QED
      BY <2>1, <2>2, <2>3 DEF IInv
  <1>28. CASE Tick
    BY <1>1, <1>27, <1>28 DEF Tick, Types
  <1>29. ASSUME NEW s \in Source, ChangeSource(s) PROVE IInv'
    BY <1>1, <1>27, <1>29 DEF ChangeSource, Types
  <1>30. CASE UNCHANGED vars
    BY <1>1, <1>27, <1>30 DEF vars, Types
  <1>31. ASSUME NEW t \in Thread, Begin(t) PROVE IInv'
    BY <1>2, <1>3, <1>4, <1>5, <1>6, <1>7, <1>31 DEF Begin
  <1>32. ASSUME NEW t \in Thread, Step(t) PROVE IInv'
    BY <1>8, <1>9, <1>10, <1>11, <1>13, <1>14, <1>16, <1>17, <1>18, <1>19, <1>20, <1>21,
       <1>22, <1>32 DEF Step
  <1>33. QED
    BY <1>23, <1>24, <1>25, <1>26, <1>28, <1>29, <1>30, <1>31, <1>32 DEF Next

LEMMA Invariant == Spec => []IInv
  BY InitIInv, StepIInv, PTL DEF Spec

\* The bytes of a lease are handed over at most once, under one approval, and a
\* receipt says what happened to every lease of its manifest.
THEOREM HandedOverOnce == Spec => []HandedOverAtMostOnce
  <1>1. IInv => HandedOverAtMostOnce
    <2> SUFFICES ASSUME IInv PROVE HandedOverAtMostOnce
      OBVIOUS
    <2>1. ASSUME NEW l \in Lease PROVE Cardinality(handed[l]) <= 1
      <3>1. CASE handed[l] = {}
        BY <3>1, FS_EmptySet
      <3>2. CASE handed[l] # {}
        <4>1. PICK a \in handed[l] : TRUE
          BY <3>2
        <4>2. handed[l] = {a}
          BY <4>1 DEF IInv, HandInv
        <4>3. Cardinality({a}) = 1
          BY FS_Singleton
        <4>4. QED
          BY <4>2, <4>3
      <3>3. QED
        BY <3>1, <3>2
    <2>2. ASSUME NEW r \in receipts, NEW l \in manifests[r.approval.manifest].leases
          PROVE  leases[l].state = "consumed" /\ handed[l] = {r.approval}
      BY DEF IInv, Types, IssueInv, HandInv, ReceiptInv
    <2>3. QED
      BY <2>1, <2>2 DEF IInv, HandInv, ReceiptInv, HandedOverAtMostOnce
  <1>2. QED
    BY <1>1, Invariant, PTL

\* While a callback runs its leases are locked for it alone; no lease is locked
\* without one; a closed authority has neither bytes nor purposes.
THEOREM Ownership == Spec => []CallbackOwnsItsLeases
  <1>1. IInv => CallbackOwnsItsLeases
    <2> SUFFICES ASSUME IInv PROVE CallbackOwnsItsLeases
      OBVIOUS
    <2>1. ASSUME NEW l \in Lease, Active(l), leases[l].consuming
          PROVE  Cardinality({t \in Thread : InCallback(t) /\ l \in call[t].leases}) = 1
      <3>1. PICK t \in Thread : InCallback(t) /\ l \in call[t].leases
        BY <2>1 DEF IInv, OwnInv
      <3>2. {u \in Thread : InCallback(u) /\ l \in call[u].leases} = {t}
        BY <3>1 DEF IInv, OwnInv
      <3>3. QED
        BY <3>2, FS_Singleton
    <2>2. QED
      BY <2>1 DEF IInv, OwnInv, CallbackOwnsItsLeases
  <1>2. QED
    BY <1>1, Invariant, PTL

\* The leases of a manifest are handed over together and end the same way.
THEOREM Together == Spec => []EndTogether
  <1>1. IInv => EndTogether
    BY DEF IInv
  <1>2. QED
    BY <1>1, Invariant, PTL

-----------------------------------------------------------------------------
(* The coordinator *)

\* The fields of the one handoff record and their types.
HandoffRecords ==
    [staged : BOOLEAN, until : Nat, terminal : BOOLEAN,
     approvalAttempted : BOOLEAN, approval : Nat, grant : Nat,
     executionAttempted : BOOLEAN, executed : BOOLEAN,
     pending : BOOLEAN, prepared : BOOLEAN, rendered : BOOLEAN,
     workAttempted : BOOLEAN, workConfirmed : BOOLEAN,
     exportAttempted : BOOLEAN, exported : BOOLEAN, pickerClaimed : BOOLEAN,
     chatAttempted : BOOLEAN, chatConfirmed : BOOLEAN]

\* A call that carries, or carried, the one pending delivery.
Busy == {"executed", "prepared", "built", "zeroing", "committed", "failing", "content"}

\* The order in which a handoff's record is filled.
RecordInv ==
    /\ rec \in HandoffRecords
    /\ ~rec.staged => rec = HC!NoRecord
    /\ rec.pending => rec.executed
    /\ rec.executed => rec.executionAttempted
    /\ rec.exported => rec.exportAttempted /\ rec.workConfirmed
    /\ rec.workConfirmed => rec.rendered \/ rec.terminal

\* A process that is down, or that has staged nothing, has no call in hand; a closed
\* coordinator has no delivery pending and no stage in progress.
ProcessInv ==
    /\ time \in Nat /\ stage.at \in Nat
    /\ ~up => ~rec.staged /\ stage.pc = "idle" /\ ~receipt
    /\ stage.pc # "idle" => ~rec.staged
    /\ ~rec.staged => buffer # "live" /\ \A c \in ToolThread : tool[c].pc = "idle"
    /\ receipt => ended
    /\ ended => ~rec.pending /\ stage.pc # "inferring"

\* One call has the delivery, and the payloads are there exactly while it is pending
\* or about to be zeroed.
DeliveryInv ==
    /\ tool \in [ToolThread -> [pc : Busy \cup {"idle", "error"},
                          result : {"none", "intact", "zeroed"}]]
    /\ \A c \in ToolThread : tool[c].pc \in Busy => rec.executed
    /\ \A c, d \in ToolThread : tool[c].pc \in Busy /\ tool[d].pc \in Busy => c = d
    /\ rec.pending => buffer = "live"
    /\ buffer = "live" => rec.pending \/ \E c \in ToolThread : tool[c].pc = "zeroing"
    /\ \A c \in ToolThread : tool[c].pc = "built" /\ rec.pending => tool[c].result = "intact"
    /\ \A c \in ToolThread : tool[c].pc \in {"zeroing", "committed", "content"} =>
          tool[c].result = "intact" /\ ~rec.pending
    /\ \A c \in ToolThread : tool[c].pc \in {"committed", "content"} => buffer = "zero"

\* The manager's record and directory follow the coordinator's record.
ExportInv ==
    /\ export \in {"none", "active", "terminal"}
    /\ claimed \in BOOLEAN
    /\ export # "none" => rec.exportAttempted
    /\ claimed => rec.exportAttempted /\ rec.workConfirmed
    /\ rec.pickerClaimed => claimed
    /\ released = IF claimed THEN 1 ELSE 0
    /\ export = "terminal" => directory = "absent"
    /\ managerClosed => export # "active"
    /\ rec.chatConfirmed =>
          rec.workConfirmed /\ claimed /\ export = "terminal" /\ verified

\* What a close that gave its receipt left behind.
CloseInv ==
    receipt =>
        /\ \A s \in DOMAIN staged : staged[s] # "active"
        /\ managerClosed
        /\ rec.staged => fixture = "absent"
        /\ ~admission

HandoffInv == RecordInv /\ ProcessInv /\ DeliveryInv /\ ExportInv /\ CloseInv /\ HC!FilesAreCurrent

-----------------------------------------------------------------------------

Flags == {"staged", "terminal", "approvalAttempted", "executionAttempted", "executed",
          "pending", "prepared", "rendered", "workAttempted", "workConfirmed",
          "exportAttempted", "exported", "pickerClaimed", "chatAttempted", "chatConfirmed"}

\* What setting some flags of the record does to each field.
SetEffect(F) ==
    /\ rec' \in HandoffRecords
    /\ rec'.until = rec.until /\ rec'.approval = rec.approval /\ rec'.grant = rec.grant
    /\ rec'.staged = IF "staged" \in F THEN TRUE ELSE rec.staged
    /\ rec'.terminal = IF "terminal" \in F THEN TRUE ELSE rec.terminal
    /\ rec'.approvalAttempted = IF "approvalAttempted" \in F THEN TRUE ELSE rec.approvalAttempted
    /\ rec'.executionAttempted = IF "executionAttempted" \in F THEN TRUE ELSE rec.executionAttempted
    /\ rec'.executed = IF "executed" \in F THEN TRUE ELSE rec.executed
    /\ rec'.pending = IF "pending" \in F THEN TRUE ELSE rec.pending
    /\ rec'.prepared = IF "prepared" \in F THEN TRUE ELSE rec.prepared
    /\ rec'.rendered = IF "rendered" \in F THEN TRUE ELSE rec.rendered
    /\ rec'.workAttempted = IF "workAttempted" \in F THEN TRUE ELSE rec.workAttempted
    /\ rec'.workConfirmed = IF "workConfirmed" \in F THEN TRUE ELSE rec.workConfirmed
    /\ rec'.exportAttempted = IF "exportAttempted" \in F THEN TRUE ELSE rec.exportAttempted
    /\ rec'.exported = IF "exported" \in F THEN TRUE ELSE rec.exported
    /\ rec'.pickerClaimed = IF "pickerClaimed" \in F THEN TRUE ELSE rec.pickerClaimed
    /\ rec'.chatAttempted = IF "chatAttempted" \in F THEN TRUE ELSE rec.chatAttempted
    /\ rec'.chatConfirmed = IF "chatConfirmed" \in F THEN TRUE ELSE rec.chatConfirmed

\* Sets does just that.
LEMMA SetsFields ==
    ASSUME rec \in HandoffRecords, NEW STATE F, F \subseteq Flags, HC!Sets(F)
    PROVE  SetEffect(F)
  <1>1. DOMAIN rec = Flags \cup {"until", "approval", "grant"}
    BY DEF HandoffRecords, Flags
  <1>2. rec' = [f \in DOMAIN rec |-> IF f \in F THEN TRUE ELSE rec[f]]
    BY DEF HC!Sets
  <1>3. /\ DOMAIN rec' = DOMAIN rec
        /\ \A f \in DOMAIN rec : rec'[f] = IF f \in F THEN TRUE ELSE rec[f]
    BY <1>2
  <1>4. "until" \notin F /\ "approval" \notin F /\ "grant" \notin F
    BY DEF Flags
  <1>5. rec'.until = rec.until /\ rec'.approval = rec.approval /\ rec'.grant = rec.grant
    BY <1>1, <1>3, <1>4
  <1>6. /\ rec'.staged = IF "staged" \in F THEN TRUE ELSE rec.staged
        /\ rec'.terminal = IF "terminal" \in F THEN TRUE ELSE rec.terminal
        /\ rec'.approvalAttempted = IF "approvalAttempted" \in F THEN TRUE ELSE rec.approvalAttempted
        /\ rec'.executionAttempted = IF "executionAttempted" \in F THEN TRUE ELSE rec.executionAttempted
        /\ rec'.executed = IF "executed" \in F THEN TRUE ELSE rec.executed
        /\ rec'.pending = IF "pending" \in F THEN TRUE ELSE rec.pending
        /\ rec'.prepared = IF "prepared" \in F THEN TRUE ELSE rec.prepared
        /\ rec'.rendered = IF "rendered" \in F THEN TRUE ELSE rec.rendered
        /\ rec'.workAttempted = IF "workAttempted" \in F THEN TRUE ELSE rec.workAttempted
        /\ rec'.workConfirmed = IF "workConfirmed" \in F THEN TRUE ELSE rec.workConfirmed
        /\ rec'.exportAttempted = IF "exportAttempted" \in F THEN TRUE ELSE rec.exportAttempted
        /\ rec'.exported = IF "exported" \in F THEN TRUE ELSE rec.exported
        /\ rec'.pickerClaimed = IF "pickerClaimed" \in F THEN TRUE ELSE rec.pickerClaimed
        /\ rec'.chatAttempted = IF "chatAttempted" \in F THEN TRUE ELSE rec.chatAttempted
        /\ rec'.chatConfirmed = IF "chatConfirmed" \in F THEN TRUE ELSE rec.chatConfirmed
    BY <1>1, <1>3 DEF Flags
  <1>7. rec' \in HandoffRecords
    BY <1>1, <1>2, <1>3, <1>5, <1>6 DEF HandoffRecords
  <1>8. QED
    BY <1>5, <1>6, <1>7 DEF SetEffect

\* A new fixture is written before anything is staged.
LEMMA GenerateFixtureStep ==
    ASSUME HandoffInv, HC!GenerateFixture
    PROVE  HandoffInv'
  BY DEF HC!GenerateFixture, HandoffInv, RecordInv, ProcessInv, DeliveryInv, ExportInv, CloseInv,
     HC!FilesAreCurrent, HC!manager

\* A stage that is refused only goes on to its clean-up.
LEMMA StageRefusedStep ==
    ASSUME HandoffInv, HC!StageRefused
    PROVE  HandoffInv'
  BY DEF HC!StageRefused, HandoffInv, RecordInv, ProcessInv, DeliveryInv, ExportInv, CloseInv,
     HC!FilesAreCurrent, HC!manager, HC!core

\* The lock is held from here until the local AI has answered.
LEMMA StageBeginsStep ==
    ASSUME HandoffInv, HC!StageBegins
    PROVE  HandoffInv'
  BY DEF HC!StageBegins, HandoffInv, RecordInv, ProcessInv, DeliveryInv, ExportInv, CloseInv,
     HC!FilesAreCurrent, HC!manager, HC!RequireOpen

\* The leases and the fixture go when the stage fails.
LEMMA StageFailsStep ==
    ASSUME HandoffInv, HC!StageFails
    PROVE  HandoffInv'
  BY DEF HC!StageFails, HandoffInv, RecordInv, ProcessInv, DeliveryInv, ExportInv, CloseInv,
     HC!FilesAreCurrent, HC!manager

\* The fixture of a failed stage is removed, or stays with nothing staged.
LEMMA StageCleansStep ==
    ASSUME HandoffInv, HC!StageCleans
    PROVE  HandoffInv'
  BY DEF HC!StageCleans, HandoffInv, RecordInv, ProcessInv, DeliveryInv, ExportInv, CloseInv,
     HC!FilesAreCurrent, HC!NoStage, HC!manager

\* A failed approval ends the handoff.
LEMMA ApproveFailsStep ==
    ASSUME HandoffInv, HC!ApproveFails
    PROVE  HandoffInv'
  <1>1. SetEffect({"approvalAttempted", "terminal"})
    BY SetsFields DEF HC!ApproveFails, HandoffInv, RecordInv, Flags
  <1>2. QED
    BY <1>1 DEF HC!ApproveFails, HandoffInv, RecordInv, ProcessInv, DeliveryInv, ExportInv,
       CloseInv,
       HC!FilesAreCurrent, HC!manager, HC!ControlRecord, HC!OpenRecord, HC!RequireOpen, SetEffect

\* The one execution makes the payloads, and its call has the delivery.
LEMMA ExecuteRichStep ==
    ASSUME HandoffInv, NEW c \in ToolThread, HC!ExecuteRich(c)
    PROVE  HandoffInv'
  <1>1. SetEffect({"executionAttempted", "executed", "pending"})
    BY SetsFields DEF HC!ExecuteRich, HandoffInv, RecordInv, Flags
  <1>2. QED
    BY <1>1 DEF HC!ExecuteRich, HandoffInv, RecordInv, ProcessInv, DeliveryInv, ExportInv,
       CloseInv,
       HC!FilesAreCurrent, Busy, HC!Goes, HC!ToolEnabled, HC!manager, HC!OpenRecord,
       HC!RequireOpen, SetEffect

\* A failed execution ends the handoff, or only its one attempt, with no delivery.
LEMMA ExecuteFailsStep ==
    ASSUME HandoffInv, NEW c \in ToolThread, HC!ExecuteFails(c)
    PROVE  HandoffInv'
  <1>1. \/ SetEffect({"executionAttempted"}) /\ UNCHANGED <<staged, execution>>
        \/ SetEffect({"executionAttempted", "terminal"})
    BY SetsFields DEF HC!ExecuteFails, HandoffInv, RecordInv, Flags
  <1>2. CASE SetEffect({"executionAttempted"}) /\ UNCHANGED <<staged, execution>>
    BY <1>2 DEF HC!ExecuteFails, HandoffInv, RecordInv, ProcessInv, DeliveryInv, ExportInv,
       CloseInv,
       HC!FilesAreCurrent, Busy, HC!Goes, HC!manager, HC!OpenRecord, HC!RequireOpen, SetEffect
  <1>3. CASE SetEffect({"executionAttempted", "terminal"})
    BY <1>3 DEF HC!ExecuteFails, HandoffInv, RecordInv, ProcessInv, DeliveryInv, ExportInv,
       CloseInv,
       HC!FilesAreCurrent, Busy, HC!Goes, HC!manager, HC!OpenRecord, HC!RequireOpen, SetEffect
  <1>4. QED
    BY <1>1, <1>2, <1>3

\* A call for another surface than Work ends the handoff.
LEMMA ExecuteOnChatStep ==
    ASSUME HandoffInv, NEW c \in ToolThread, HC!ExecuteOnChat(c)
    PROVE  HandoffInv'
  <1>1. SetEffect({"terminal"})
    BY SetsFields DEF HC!ExecuteOnChat, HandoffInv, RecordInv, Flags
  <1>2. QED
    BY <1>1 DEF HC!ExecuteOnChat, HandoffInv, RecordInv, ProcessInv, DeliveryInv, ExportInv,
       CloseInv,
       HC!FilesAreCurrent, Busy, HC!Goes, HC!manager, HC!core, HC!OpenRecord, SetEffect

\* A call may die between its execution and its rendering.
LEMMA ResultLostStep ==
    ASSUME HandoffInv, NEW c \in ToolThread, HC!ResultLost(c)
    PROVE  HandoffInv'
  BY DEF HC!ResultLost, HandoffInv, RecordInv, ProcessInv, DeliveryInv, ExportInv, CloseInv,
     HC!FilesAreCurrent, HC!Goes, HC!manager, HC!core

\* While the delivery is pending a call reads the payloads whole.
LEMMA BuildResultStep ==
    ASSUME HandoffInv, NEW c \in ToolThread, HC!BuildResult(c)
    PROVE  HandoffInv'
  BY DEF HC!BuildResult, HandoffInv, RecordInv, ProcessInv, DeliveryInv, ExportInv, CloseInv,
     HC!FilesAreCurrent, Busy, HC!manager, HC!core

\* A rendering that fails goes to its abort.
LEMMA RenderFailsStep ==
    ASSUME HandoffInv, NEW c \in ToolThread, HC!RenderFails(c)
    PROVE  HandoffInv'
  BY DEF HC!RenderFails, HandoffInv, RecordInv, ProcessInv, DeliveryInv, ExportInv, CloseInv,
     HC!FilesAreCurrent, Busy, HC!Goes, HC!manager, HC!core

\* The committed call zeroes the payloads.
LEMMA ZeroCommittedStep ==
    ASSUME HandoffInv, NEW c \in ToolThread, HC!ZeroCommitted(c)
    PROVE  HandoffInv'
  BY DEF HC!ZeroCommitted, HandoffInv, RecordInv, ProcessInv, DeliveryInv, ExportInv, CloseInv,
     HC!FilesAreCurrent, Busy, HC!Goes, HC!manager

\* The content leaves after they are zero.
LEMMA ReturnContentStep ==
    ASSUME HandoffInv, NEW c \in ToolThread, HC!ReturnContent(c)
    PROVE  HandoffInv'
  BY DEF HC!ReturnContent, HandoffInv, RecordInv, ProcessInv, DeliveryInv, ExportInv, CloseInv,
     HC!FilesAreCurrent, Busy, HC!Goes, HC!manager, HC!core

\* The Work proof comes after the rendering.
LEMMA ConfirmWorkStep ==
    ASSUME HandoffInv, HC!ConfirmWork
    PROVE  HandoffInv'
  <1>1. SetEffect({"workAttempted", "workConfirmed"})
    BY SetsFields DEF HC!ConfirmWork, HandoffInv, RecordInv, Flags
  <1>2. QED
    BY <1>1 DEF HC!ConfirmWork, HandoffInv, RecordInv, ProcessInv, DeliveryInv, ExportInv,
       CloseInv,
       HC!FilesAreCurrent, HC!manager, HC!core, HC!ControlRecord, HC!OpenRecord, SetEffect

\* A failed Work confirmation ends the handoff.
LEMMA ConfirmWorkFailsStep ==
    ASSUME HandoffInv, HC!ConfirmWorkFails
    PROVE  HandoffInv'
  <1>1. SetEffect({"workAttempted", "terminal"})
    BY SetsFields DEF HC!ConfirmWorkFails, HandoffInv, RecordInv, Flags
  <1>2. QED
    BY <1>1 DEF HC!ConfirmWorkFails, HandoffInv, RecordInv, ProcessInv, DeliveryInv, ExportInv,
       CloseInv,
       HC!FilesAreCurrent, HC!manager, HC!core, HC!ControlRecord, HC!OpenRecord, SetEffect

\* A preparation after the grant's end only counts as tried.
LEMMA PrepareLateStep ==
    ASSUME HandoffInv, HC!PrepareLate
    PROVE  HandoffInv'
  <1>1. SetEffect({"exportAttempted"})
    BY SetsFields DEF HC!PrepareLate, HandoffInv, RecordInv, Flags
  <1>2. QED
    BY <1>1 DEF HC!PrepareLate, HandoffInv, RecordInv, ProcessInv, DeliveryInv, ExportInv,
       CloseInv,
       HC!FilesAreCurrent, HC!MayPrepare, HC!manager, HC!core, HC!ControlRecord, HC!OpenRecord,
       SetEffect

\* A prepared export is active and unclaimed.
LEMMA PrepareChatStep ==
    ASSUME HandoffInv, HC!PrepareChat
    PROVE  HandoffInv'
  <1> USE DEF HandoffInv, HC!MayPrepare, HC!ControlRecord, HC!OpenRecord, HC!RequireOpen
  <1>1. \/ SetEffect({"exportAttempted", "exported"})
        \/ SetEffect({"exportAttempted", "exported", "terminal"})
    BY SetsFields DEF HC!PrepareChat, RecordInv, Flags
  <1>2. RecordInv'
    BY <1>1 DEF HC!PrepareChat, RecordInv, SetEffect
  <1>3. ProcessInv'
    BY <1>1 DEF HC!PrepareChat, ProcessInv, SetEffect
  <1>4. DeliveryInv'
    BY <1>1 DEF HC!PrepareChat, DeliveryInv, SetEffect
  <1>5. ExportInv'
    <2>1. export = "none" /\ ~claimed /\ ~rec.chatConfirmed /\ ~rec.pickerClaimed
      BY DEF HC!PrepareChat, ExportInv
    <2>2. export' = "active" /\ claimed' = FALSE /\ released' = released
          /\ ~managerClosed'
      BY <2>1 DEF HC!PrepareChat, ExportInv, HC!manager, HC!Materialize
    <2>3. QED
      BY <1>1, <2>1, <2>2 DEF ExportInv, SetEffect
  <1>6. (CloseInv /\ HC!FilesAreCurrent)'
    BY <1>1 DEF HC!PrepareChat, ProcessInv, CloseInv, HC!FilesAreCurrent, SetEffect
  <1>7. QED
    BY <1>2, <1>3, <1>4, <1>5, <1>6

\* A confirmation before the claim only counts as tried.
LEMMA ConfirmUnclaimedStep ==
    ASSUME HandoffInv, HC!ConfirmUnclaimed
    PROVE  HandoffInv'
  <1>1. SetEffect({"chatAttempted"})
    BY SetsFields DEF HC!ConfirmUnclaimed, HandoffInv, RecordInv, Flags
  <1>2. QED
    BY <1>1 DEF HC!ConfirmUnclaimed, HandoffInv, RecordInv, ProcessInv, DeliveryInv, ExportInv,
       CloseInv,
       HC!FilesAreCurrent, HC!manager, HC!core, HC!ControlRecord, HC!OpenRecord, SetEffect

\* A crash loses everything but the disk.
LEMMA CrashStep ==
    ASSUME HandoffInv, HC!Crash
    PROVE  HandoffInv'
  BY DEF HC!Crash, HandoffInv, RecordInv, ProcessInv, DeliveryInv, ExportInv, CloseInv,
     HC!FilesAreCurrent,
     Busy, HandoffRecords, HC!NewManager, HC!NoRecord, HC!NoStage, HC!NoCall

\* A start removes the files of earlier processes.
LEMMA StartStep ==
    ASSUME HandoffInv, HC!Start
    PROVE  HandoffInv'
  BY DEF HC!Start, HandoffInv, RecordInv, ProcessInv, DeliveryInv, ExportInv, CloseInv,
     HC!FilesAreCurrent,
     HC!RemoveTree

\* A start that cannot remove them leaves the process down.
LEMMA StartFailsStep ==
    ASSUME HandoffInv, HC!StartFails
    PROVE  HandoffInv'
  BY DEF HC!StartFails, HandoffInv, RecordInv, ProcessInv, DeliveryInv, ExportInv, CloseInv,
     HC!FilesAreCurrent, HC!RemoveTreeFails

\* Time alone disturbs nothing.
LEMMA TickStep ==
    ASSUME HandoffInv, HC!Tick
    PROVE  HandoffInv'
  BY DEF HC!Tick, HandoffInv, RecordInv, ProcessInv, DeliveryInv, ExportInv, CloseInv,
     HC!FilesAreCurrent,
     HC!manager, HC!core

\* Nor does a change to the exported files.
LEMMA ChangeExportStep ==
    ASSUME HandoffInv, HC!ChangeExport
    PROVE  HandoffInv'
  BY DEF HC!ChangeExport, HandoffInv, RecordInv, ProcessInv, DeliveryInv, ExportInv, CloseInv,
     HC!FilesAreCurrent, HC!Tamper, HC!core

\* Nor one to the fixture.
LEMMA ChangeFixtureStep ==
    ASSUME HandoffInv, HC!ChangeFixture
    PROVE  HandoffInv'
  BY DEF HC!ChangeFixture, HandoffInv, RecordInv, ProcessInv, DeliveryInv, ExportInv, CloseInv,
     HC!FilesAreCurrent, HC!manager

\* An abort zeroes the payloads and ends the handoff, whether or not it was committed.
LEMMA FailRenderStep ==
    ASSUME HandoffInv, NEW c \in ToolThread, HC!FailRender(c)
    PROVE  HandoffInv'
  <1> USE DEF HandoffInv, HC!FailRender, HC!Goes, HC!LockFree
  <1>1. RecordInv' /\ ProcessInv'
    BY DEF RecordInv, ProcessInv, DeliveryInv, HandoffRecords, Busy
  <1>2. DeliveryInv'
    BY DEF DeliveryInv
  <1>3. (ExportInv /\ CloseInv /\ HC!FilesAreCurrent)'
    BY DEF ExportInv, CloseInv, HC!FilesAreCurrent, HC!manager
  <1>4. QED
    BY <1>1, <1>2, <1>3

\* A stage that succeeds starts the record.
LEMMA StageEndsStep ==
    ASSUME HandoffInv, HC!StageEnds
    PROVE  HandoffInv'
  <1> USE DEF HandoffInv, HC!StageEnds, HC!NoRecord, HC!NoStage
  <1>1. ~rec.staged /\ stage.at + CoordinatorLeaseTtl \in Nat
    BY CoordinatorAssumption DEF ProcessInv, HC!WellFormed
  <1>2. (RecordInv /\ ProcessInv /\ DeliveryInv)'
    BY <1>1 DEF RecordInv, ProcessInv, DeliveryInv, HandoffRecords, Busy
  <1>3. (ExportInv /\ CloseInv /\ HC!FilesAreCurrent)'
    BY <1>1 DEF RecordInv, ProcessInv, ExportInv, CloseInv, HC!FilesAreCurrent, HC!manager
  <1>4. QED
    BY <1>2, <1>3

\* An approval ends with the leases at the latest.
LEMMA ApproveHandoffStep ==
    ASSUME HandoffInv, HC!ApproveHandoff
    PROVE  HandoffInv'
  <1> USE DEF HandoffInv, HC!ControlRecord, HC!OpenRecord, HC!RequireOpen, HC!LockFree
  <1> DEFINE until == HC!Min({time + CoordinatorApprovalTtl, rec.until})
  <1>1. time + CoordinatorApprovalTtl \in Nat /\ rec.until \in Nat
    BY CoordinatorAssumption DEF RecordInv, ProcessInv, HandoffRecords, HC!WellFormed
  <1>2. until \in Nat
    BY <1>1 DEF HC!Min
  <1> HIDE DEF until
  <1>3. PICK grant \in (time + 1)..until :
          rec' = [rec EXCEPT !.approvalAttempted = TRUE, !.approval = until, !.grant = grant]
    BY DEF HC!ApproveHandoff, until
  <1>4. grant \in Nat
    BY <1>2, <1>3 DEF ProcessInv
  <1>5. (RecordInv /\ ProcessInv)'
    BY <1>2, <1>3, <1>4 DEF HC!ApproveHandoff, RecordInv, ProcessInv, HandoffRecords
  <1>6. (DeliveryInv /\ ExportInv /\ CloseInv /\ HC!FilesAreCurrent)'
    BY <1>3 DEF HC!ApproveHandoff, ProcessInv, DeliveryInv, ExportInv, CloseInv,
       HC!FilesAreCurrent,
       HC!manager
  <1>7. QED
    BY <1>5, <1>6

\* A commit takes the delivery from the record in the step that marks it rendered.
LEMMA CommitRenderStep ==
    ASSUME HandoffInv, NEW c \in ToolThread, HC!CommitRender(c)
    PROVE  HandoffInv'
  <1> USE DEF HandoffInv, HC!Goes
  <1>1. CASE HC!MayComplete
    <2>1. rec' = [rec EXCEPT !.pending = FALSE, !.prepared = FALSE, !.rendered = TRUE]
      BY <1>1 DEF HC!CommitRender
    <2>2. tool[c].pc = "built" /\ tool' = [tool EXCEPT ![c].pc = "zeroing"]
      BY <1>1 DEF HC!CommitRender
    <2>3. UNCHANGED <<HC!manager, up, time, HC!core, ended, receipt, stage>>
      BY DEF HC!CommitRender
    <2>4. up /\ rec.pending /\ rec.staged
      BY <1>1, <2>2 DEF HC!MayComplete, ProcessInv
    <2>5. (RecordInv /\ ProcessInv)'
      BY <2>1, <2>2, <2>3, <2>4 DEF RecordInv, ProcessInv, HandoffRecords
    <2>6. DeliveryInv'
      BY <2>1, <2>2, <2>3, <2>4 DEF DeliveryInv, Busy
    <2>7. (ExportInv /\ CloseInv /\ HC!FilesAreCurrent)'
      BY <2>1, <2>3 DEF ExportInv, CloseInv, HC!FilesAreCurrent, HC!manager, HC!core
    <2>8. QED
      BY <2>5, <2>6, <2>7
  <1>2. CASE ~HC!MayComplete
    <2>1. tool[c].pc = "built" /\ tool' = [tool EXCEPT ![c].pc = "failing"]
      BY <1>2 DEF HC!CommitRender
    <2>2. UNCHANGED <<HC!manager, up, time, HC!core, ended, receipt, stage, rec>>
      BY <1>2 DEF HC!CommitRender
    <2>3. QED
      BY <2>1, <2>2 DEF RecordInv, ProcessInv, DeliveryInv, ExportInv, CloseInv,
         HC!FilesAreCurrent, Busy, HC!manager, HC!core
  <1>3. QED
    BY <1>1, <1>2

\* A preparation goes on, is refused, or ends a handoff whose time is over.
LEMMA PrepareRenderStep ==
    ASSUME HandoffInv, NEW c \in ToolThread, HC!PrepareRender(c)
    PROVE  HandoffInv'
  <1> USE DEF HandoffInv, HC!Goes
  <1>1. /\ tool[c].pc = "executed" /\ rec.staged /\ up
        /\ UNCHANGED <<HC!manager, up, time, staged, fixture, admission, execution,
                       ended, receipt, stage>>
    BY DEF HC!PrepareRender, ProcessInv
  <1>2. CASE HC!Sets({"prepared"}) /\ tool' = [tool EXCEPT ![c].pc = "prepared"] /\ UNCHANGED buffer
    <2>1. SetEffect({"prepared"})
      BY <1>2, SetsFields DEF RecordInv, Flags
    <2>2. QED
      BY <1>1, <1>2, <2>1 DEF RecordInv, ProcessInv, DeliveryInv, ExportInv, CloseInv,
         HC!FilesAreCurrent, Busy, SetEffect, HC!manager
  <1>3. CASE /\ buffer' = "zero" /\ rec' = [rec EXCEPT !.pending = FALSE, !.terminal = TRUE]
             /\ tool' = [tool EXCEPT ![c].pc = "error"]
    <2>1. (RecordInv /\ ProcessInv)'
      BY <1>1, <1>3 DEF RecordInv, ProcessInv, HandoffRecords
    <2>2. DeliveryInv'
      BY <1>1, <1>3 DEF DeliveryInv
    <2>3. (ExportInv /\ CloseInv /\ HC!FilesAreCurrent)'
      BY <1>1, <1>3 DEF ExportInv, CloseInv, HC!FilesAreCurrent, HC!manager
    <2>4. QED
      BY <2>1, <2>2, <2>3
  <1>4. CASE tool' = [tool EXCEPT ![c].pc = "error"] /\ UNCHANGED <<rec, buffer>>
    BY <1>1, <1>4 DEF RecordInv, ProcessInv, DeliveryInv, ExportInv, CloseInv, HC!FilesAreCurrent,
       HC!manager
  <1>5. QED
    BY <1>2, <1>3, <1>4 DEF HC!PrepareRender

\* A failed preparation may leave an export, never a claimed one.
LEMMA PrepareChatFailsStep ==
    ASSUME HandoffInv, HC!PrepareChatFails
    PROVE  HandoffInv'
  <1> USE DEF HandoffInv, HC!MayPrepare, HC!ControlRecord, HC!OpenRecord, HC!RequireOpen,
  HC!LockFree
  <1>1. SetEffect({"exportAttempted", "terminal"})
    BY SetsFields DEF HC!PrepareChatFails, RecordInv, Flags
  <1>2. (RecordInv /\ ProcessInv /\ DeliveryInv)'
    BY <1>1 DEF HC!PrepareChatFails, RecordInv, ProcessInv, DeliveryInv, SetEffect
  <1>3. (CloseInv /\ HC!FilesAreCurrent)'
    BY <1>1 DEF HC!PrepareChatFails, ProcessInv, CloseInv, HC!FilesAreCurrent, SetEffect
  <1>4. ExportInv'
    <2>1. export = "none" /\ ~claimed /\ released = 0 /\ ~rec.chatConfirmed /\ ~rec.pickerClaimed
      BY DEF HC!PrepareChatFails, ExportInv
    <2>2. /\ export' \in {"none", "active"} /\ claimed' = FALSE /\ released' = 0
          /\ ~managerClosed \/ export' = "none"
          /\ managerClosed' = managerClosed
      BY <2>1 DEF HC!PrepareChatFails, HC!manager, HC!Materialize, HC!MaterializeFails
    <2>3. QED
      BY <1>1, <2>1, <2>2 DEF SetEffect, ExportInv
  <1>5. QED
    BY <1>2, <1>3, <1>4

\* cleanup, as a step of a handoff that has an export on record: it works, fails
\* or is refused.
LEMMA CleanupStep ==
    ASSUME HandoffInv, rec.staged, up, rec.exportAttempted,
           UNCHANGED <<up, time, HC!core, ended, receipt, stage, tool>>,
           SetEffect({"terminal"}) \/ SetEffect({"chatAttempted"})
              \/ SetEffect({"chatAttempted", "terminal"}) \/ rec' = rec,
           HC!TryCleanup
    PROVE  HandoffInv'
  <1> USE DEF HandoffInv
  <1>1. /\ rec' \in HandoffRecords
        /\ \A f \in {"staged", "approvalAttempted", "executionAttempted", "executed",
                      "pending", "rendered", "workConfirmed", "exportAttempted",
                      "exported", "pickerClaimed", "chatConfirmed"} : rec'[f] = rec[f]
        /\ rec.terminal => rec'.terminal
    BY DEF SetEffect, RecordInv
  <1>2. (RecordInv /\ ProcessInv)'
    BY <1>1 DEF RecordInv, ProcessInv
  <1>3. DeliveryInv'
    BY <1>1 DEF DeliveryInv, HC!core
  <1>4. /\ UNCHANGED <<claimed, released, managerClosed>>
        /\ \/ UNCHANGED <<export, verified, directory>>
           \/ export = "active" /\ export' = "terminal" /\ directory' = "absent"
           \/ UNCHANGED <<export, verified>> /\ export = "active"
    BY DEF HC!TryCleanup, HC!MayCleanup, HC!CleanupRecord, HC!CleanupRecordFails, HC!RemoveTree,
       HC!manager
  <1>5. ExportInv'
    BY <1>1, <1>4 DEF ExportInv
  <1>6. (CloseInv /\ HC!FilesAreCurrent)'
    BY <1>1, <1>4 DEF CloseInv, HC!FilesAreCurrent, HC!core
  <1>7. QED
    BY <1>2, <1>3, <1>5, <1>6

\* The paths are given out once, or the export ends.
LEMMA ClaimChatStep ==
    ASSUME HandoffInv, HC!ClaimChat
    PROVE  HandoffInv'
  <1> USE DEF HandoffInv
  <1>1. /\ up /\ rec.staged /\ ~ended /\ rec.exported /\ rec.exportAttempted
        /\ rec.workConfirmed
        /\ UNCHANGED <<up, time, HC!core, ended, receipt, stage, tool>>
    BY DEF HC!ClaimChat, HC!ControlRecord, HC!OpenRecord, HC!RequireOpen, HC!LockFree, RecordInv
  <1>2. CASE HC!Sets({"terminal"}) /\ HC!TryCleanup
    <2>1. SetEffect({"terminal"})
      BY <1>2, SetsFields DEF RecordInv, Flags
    <2>2. QED
      BY <1>1, <1>2, <2>1, CleanupStep
  <1>3. CASE HC!Sets({"pickerClaimed"}) /\ HC!ClaimPaths(time)
    <2>1. SetEffect({"pickerClaimed"})
      BY <1>3, SetsFields DEF RecordInv, Flags
    <2>2. (RecordInv /\ ProcessInv /\ DeliveryInv)'
      BY <1>1, <2>1 DEF RecordInv, ProcessInv, DeliveryInv, SetEffect, HC!core
    <2>3. ExportInv'
      BY <1>1, <1>3, <2>1 DEF ExportInv, SetEffect, HC!ClaimPaths, HC!MayClaim
    <2>4. (CloseInv /\ HC!FilesAreCurrent)'
      BY <1>1, <1>3, <2>1 DEF CloseInv, HC!FilesAreCurrent, SetEffect, HC!ClaimPaths, HC!core
    <2>5. QED
      BY <2>2, <2>3, <2>4
  <1>4. CASE UNCHANGED rec /\ HC!ClaimEnds(time)
    <2>1. HC!TryCleanup
      BY <1>4 DEF HC!ClaimEnds, HC!TryCleanup, HC!MayCleanup
    <2>2. QED
      BY <1>1, <1>4, <2>1, CleanupStep
  <1>5. QED
    BY <1>2, <1>3, <1>4 DEF HC!ClaimChat

\* A failed confirmation cleans up what it can.
LEMMA ConfirmChatFailsStep ==
    ASSUME HandoffInv, HC!ConfirmChatFails
    PROVE  HandoffInv'
  <1> USE DEF HandoffInv
  <1>1. /\ up /\ rec.staged /\ rec.exportAttempted /\ HC!TryCleanup
        /\ UNCHANGED <<up, time, HC!core, ended, receipt, stage, tool>>
    BY DEF HC!ConfirmChatFails, HC!ControlRecord, HC!OpenRecord, HC!RequireOpen, HC!LockFree,
       ExportInv
  <1>2. SetEffect({"chatAttempted", "terminal"}) \/ SetEffect({"chatAttempted"})
    BY SetsFields DEF HC!ConfirmChatFails, RecordInv, Flags
  <1>3. QED
    BY <1>1, <1>2, CleanupStep

\* The chat's proof is given when the removed export was integral.
LEMMA ConfirmChatStep ==
    ASSUME HandoffInv, HC!ConfirmChat
    PROVE  HandoffInv'
  <1> USE DEF HandoffInv
  <1>1. /\ up /\ rec.staged /\ ~ended /\ rec.exportAttempted /\ claimed /\ rec.workConfirmed
        /\ HC!MayCleanup
        /\ UNCHANGED <<up, time, HC!core, ended, receipt, stage, tool>>
    BY DEF HC!ConfirmChat, HC!ControlRecord, HC!OpenRecord, HC!RequireOpen, HC!LockFree, ExportInv
  <1>2. CASE HC!CleanupRecord /\ HC!Integral /\ HC!Sets({"chatAttempted", "chatConfirmed"})
    <2>1. SetEffect({"chatAttempted", "chatConfirmed"})
      BY <1>2, SetsFields DEF RecordInv, Flags
    <2>2. (RecordInv /\ ProcessInv /\ DeliveryInv)'
      BY <1>1, <2>1 DEF RecordInv, ProcessInv, DeliveryInv, SetEffect, HC!core
    <2>3. export' = "terminal" /\ verified' /\ directory' = "absent"
          /\ UNCHANGED <<claimed, released>>
      BY <1>2 DEF HC!CleanupRecord, HC!Integral, HC!RemoveTree
    <2>4. ExportInv'
      BY <1>1, <2>1, <2>3 DEF ExportInv, SetEffect
    <2>5. (CloseInv /\ HC!FilesAreCurrent)'
      BY <1>1, <2>1, <2>3 DEF ProcessInv, CloseInv, HC!FilesAreCurrent, SetEffect, HC!core
    <2>6. QED
      BY <2>2, <2>4, <2>5
  <1>3. CASE HC!CleanupRecord /\ ~HC!Integral /\ HC!Sets({"chatAttempted", "terminal"})
    <2>1. SetEffect({"chatAttempted", "terminal"})
      BY <1>3, SetsFields DEF RecordInv, Flags
    <2>2. QED
      BY <1>1, <1>3, <2>1, CleanupStep DEF HC!TryCleanup
  <1>4. CASE HC!CleanupRecordFails /\ HC!Sets({"chatAttempted"})
    <2>1. SetEffect({"chatAttempted"})
      BY <1>4, SetsFields DEF RecordInv, Flags
    <2>2. QED
      BY <1>1, <1>4, <2>1, CleanupStep DEF HC!TryCleanup
  <1>5. QED
    BY <1>2, <1>3, <1>4 DEF HC!ConfirmChat

\* What every attempt to close has done before it gives its receipt or fails.
LEMMA CloseCoreStep ==
    ASSUME HandoffInv, HC!CloseCore, UNCHANGED <<up, time, stage, tool>>
    PROVE  /\ RecordInv' /\ DeliveryInv' /\ ended' /\ ~rec'.pending
           /\ \A s \in DOMAIN staged' : staged'[s] # "active"
           /\ up /\ stage.pc # "inferring"
           /\ \A f \in {"staged", "approvalAttempted", "workConfirmed", "exportAttempted",
                         "pickerClaimed", "chatConfirmed"} : rec'[f] = rec[f]
  <1> USE DEF HandoffInv, HC!CloseCore, HC!LockFree
  <1>1. rec' = [rec EXCEPT !.pending = FALSE] /\ rec' \in HandoffRecords
    BY DEF RecordInv, HandoffRecords
  <1>2. RecordInv'
    <2>1. ASSUME ~rec.staged PROVE rec' = rec
      <3>1. rec \in HandoffRecords /\ rec.pending = FALSE
        BY <2>1 DEF RecordInv, HC!NoRecord
      <3>2. QED
        BY <1>1, <3>1 DEF HandoffRecords
    <2>2. QED
      BY <1>1, <2>1 DEF RecordInv
  <1>3. DeliveryInv'
    BY <1>1 DEF DeliveryInv
  <1>4. \A s \in DOMAIN staged' : staged'[s] # "active"
    BY DEF HC!CancelLeases
  <1>5. QED
    BY <1>1, <1>2, <1>3, <1>4 DEF HandoffRecords

\* A close that gives its receipt has removed everything.
LEMMA CloseStep ==
    ASSUME HandoffInv, HC!Close
    PROVE  HandoffInv'
  <1> USE DEF HandoffInv
  <1>1. /\ RecordInv' /\ DeliveryInv' /\ ended' /\ ~rec'.pending
        /\ \A s \in DOMAIN staged' : staged'[s] # "active"
        /\ up /\ stage.pc # "inferring"
        /\ \A f \in {"staged", "approvalAttempted", "workConfirmed", "exportAttempted",
                      "pickerClaimed", "chatConfirmed"} : rec'[f] = rec[f]
    BY CloseCoreStep DEF HC!Close
  <1>2. /\ UNCHANGED <<claimed, released>> /\ managerClosed'
        /\ \/ export' = export /\ verified' = verified /\ directory' = directory
              /\ export # "active"
           \/ export = "active" /\ export' = "terminal" /\ directory' = "absent"
    BY DEF HC!Close, HC!CloseManager, HC!RemoveTree, ExportInv, HC!manager
  <1>3. ProcessInv'
    BY <1>1 DEF HC!Close, ProcessInv, HC!CloseCore
  <1>4. ExportInv'
    BY <1>1, <1>2 DEF ExportInv
  <1>5. (CloseInv /\ HC!FilesAreCurrent)'
    BY <1>1, <1>2 DEF HC!Close, CloseInv, HC!FilesAreCurrent, HC!CleanFixture
  <1>6. QED
    BY <1>1, <1>3, <1>4, <1>5

\* A close that fails gives none and keeps the rest in order.
LEMMA CloseFailsStep ==
    ASSUME HandoffInv, HC!CloseFails
    PROVE  HandoffInv'
  <1> USE DEF HandoffInv
  <1>1. /\ RecordInv' /\ DeliveryInv' /\ ended' /\ ~rec'.pending
        /\ up /\ stage.pc # "inferring" /\ ~receipt
        /\ \A f \in {"staged", "approvalAttempted", "workConfirmed", "exportAttempted",
                      "pickerClaimed", "chatConfirmed"} : rec'[f] = rec[f]
    BY CloseCoreStep DEF HC!CloseFails, HC!CloseCore
  <1>2. /\ UNCHANGED <<claimed, released>>
        /\ managerClosed' => export' # "active"
        /\ \/ UNCHANGED <<export, verified>> /\ directory # "absent"
           \/ UNCHANGED <<export, verified, directory>>
           \/ export = "active" /\ export' = "terminal" /\ directory' = "absent"
        /\ export = "terminal" => UNCHANGED <<export, directory>>
    BY DEF HC!CloseFails, HC!CloseManager, HC!CloseManagerFails, HC!CleanupRecordFails,
       HC!RemoveTree,
       HC!RemoveTreeFails, ExportInv, HC!manager
  <1>3. ProcessInv'
    BY <1>1 DEF HC!CloseFails, ProcessInv, HC!CloseCore
  <1>4. ExportInv'
    BY <1>1, <1>2 DEF ExportInv
  <1>5. (CloseInv /\ HC!FilesAreCurrent)'
    BY <1>1, <1>2 DEF HC!CloseFails, CloseInv, HC!FilesAreCurrent
  <1>6. QED
    BY <1>1, <1>3, <1>4, <1>5

-----------------------------------------------------------------------------
(* The coordinator's invariant and what it implies *)

\* The invariant holds when the process first starts,
LEMMA InitHandoffInv == HC!Init => HandoffInv
  <1> SUFFICES ASSUME HC!Init PROVE HandoffInv
    OBVIOUS
  <1> USE DEF HC!Init
  <1>1. RecordInv
    BY DEF RecordInv, HandoffRecords, HC!NoRecord
  <1>2. ProcessInv /\ DeliveryInv
    BY DEF ProcessInv, DeliveryInv, HC!NoRecord, HC!NoStage, HC!NoCall, Busy
  <1>3. ExportInv /\ CloseInv /\ HC!FilesAreCurrent
    BY DEF ExportInv, CloseInv, HC!FilesAreCurrent, HC!NoRecord
  <1>4. QED
    BY <1>1, <1>2, <1>3 DEF HandoffInv

\* and every step keeps it.
LEMMA StepHandoffInv == HandoffInv /\ [HC!Next]_(HC!vars) => HandoffInv'
  <1> SUFFICES ASSUME HandoffInv, [HC!Next]_(HC!vars) PROVE HandoffInv'
    OBVIOUS
  <1>1. CASE HC!Stage
    BY <1>1, GenerateFixtureStep, StageRefusedStep, StageBeginsStep, StageEndsStep,
       StageFailsStep, StageCleansStep DEF HC!Stage
  <1>2. CASE HC!Control
    BY <1>2, ApproveHandoffStep, ApproveFailsStep, ConfirmWorkStep, ConfirmWorkFailsStep,
       PrepareLateStep, PrepareChatStep, PrepareChatFailsStep, ClaimChatStep,
       ConfirmUnclaimedStep, ConfirmChatFailsStep, ConfirmChatStep DEF HC!Control
  <1>3. ASSUME NEW c \in ToolThread, HC!ToolCall(c) PROVE HandoffInv'
    BY <1>3, ExecuteRichStep, ExecuteFailsStep, ExecuteOnChatStep, ResultLostStep,
       PrepareRenderStep, BuildResultStep, RenderFailsStep, CommitRenderStep,
       ZeroCommittedStep, ReturnContentStep, FailRenderStep DEF HC!ToolCall
  <1>4. CASE HC!Close \/ HC!CloseFails
    BY <1>4, CloseStep, CloseFailsStep
  <1>5. CASE HC!Crash \/ HC!Start \/ HC!StartFails \/ HC!Tick \/ HC!ChangeExport \/ HC!ChangeFixture
    BY <1>5, CrashStep, StartStep, StartFailsStep, TickStep, ChangeExportStep, ChangeFixtureStep
  <1>6. CASE UNCHANGED HC!vars
    BY <1>6 DEF HC!vars, HC!core, HC!manager, HandoffInv, RecordInv, ProcessInv, DeliveryInv,
       ExportInv,
       CloseInv, HC!FilesAreCurrent
  <1>7. QED
    BY <1>1, <1>2, <1>3, <1>4, <1>5, <1>6 DEF HC!Next

\* So it holds of every behaviour of the coordinator.
LEMMA HandoffInvariant == HC!Spec => []HandoffInv
  <1>1. QED
    BY InitHandoffInv, StepHandoffInv, PTL DEF HC!Spec

\* However often close fails, whatever tool calls are in flight when it succeeds, and
\* whatever the process and the disk do, the receipt of C9HandoffCoordinator.close is
\* given only when nothing of the handoff is left.
THEOREM CloseLeavesNothing == HC!Spec => []NothingLeftAfterClose
  <1>1. HandoffInv => NothingLeftAfterClose
    BY DEF HandoffInv, NothingLeftAfterClose, HC!NothingLeftAfterClose, ProcessInv, DeliveryInv,
           ExportInv, CloseInv, HC!FilesAreCurrent
  <1>2. QED
    BY <1>1, HandoffInvariant, PTL

\* In every interleaving of any number of tool calls with the coordinator's operations
\* the content leaves in one call at most, complete, and its copy is zeroed first.
THEOREM IntactOrNothing == HC!Spec => []DeliveredIsIntact
  <1>1. ASSUME HandoffInv PROVE DeliveredIsIntact
    <2> DEFINE given == {c \in ToolThread : tool[c].pc = "content"}
    <2>1. \A S : HC!Cardinality(S) = Cardinality(S)
      BY DEF HC!Cardinality, Cardinality
    <2>2. Cardinality(given) <= 1
      <3>1. CASE given = {}
        BY <3>1, FS_EmptySet
      <3>2. ASSUME NEW c \in given PROVE Cardinality(given) <= 1
        <4>1. given = {c}
          BY <1>1 DEF HandoffInv, DeliveryInv, Busy
        <4> HIDE DEF given
        <4>2. Cardinality({c}) = 1
          BY FS_Singleton
        <4>3. QED
          BY <4>1, <4>2
      <3>3. QED
        BY <3>1, <3>2
    <2>3. HC!Cardinality(given) <= 1
      BY <2>1, <2>2
    <2>4. QED
      BY <1>1, <2>3 DEF HandoffInv, DeliveryInv, DeliveredIsIntact, HC!DeliveredIsIntact, Busy
  <1>2. QED
    BY <1>1, HandoffInvariant, PTL

\* The chat's proof needs the Work proof, paths that were given out once and an export
\* that was integral when it was removed, in whatever order the operator's commands
\* arrive and however they fail.
THEOREM ProofsEarned == HC!Spec => []ProofsAreEarned
  <1>1. HandoffInv => ProofsAreEarned
    BY DEF HandoffInv, RecordInv, ExportInv, ProofsAreEarned, HC!ProofsAreEarned
  <1>2. QED
    BY <1>1, HandoffInvariant, PTL

\* After any number of crashes and failed starts, no file of a dead process is taken
\* for one of the running process.
THEOREM FilesCurrent == HC!Spec => []FilesAreCurrent
  <1>1. HandoffInv => FilesAreCurrent
    BY DEF HandoffInv, FilesAreCurrent
  <1>2. QED
    BY <1>1, HandoffInvariant, PTL
============================================================================
