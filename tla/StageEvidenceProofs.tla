------------------------ MODULE StageEvidenceProofs -------------------------
(***************************************************************************)
(* Machine-checked proofs about the evidence a stage leaves behind: the    *)
(* live cycle of C8LiveCycle, and the change seals of ChangeSeal.  They    *)
(* hold for every set of cycles and grants, every profile and policy, all  *)
(* lifetimes and any number of calls, with no bound on the clock but       *)
(* MaxTime; and for every git history the operator and the four seal tools *)
(* can produce, of any length and with any manifests.  The two modules     *)
(* share nothing: Init, Next and Spec are the live cycle's.                *)
(***************************************************************************)
EXTENDS C8LiveCycle, ChangeSeal, WellFoundedInduction, TLAPS

-----------------------------------------------------------------------------
(* The C8 live cycle *)

\* A receipt names the cycle it was written for.
AuthInv ==
    /\ DOMAIN auth = Cycles
    /\ \A c \in Cycles : auth[c] # None =>
          auth[c].cycle = c /\ auth[c].at \in Nat /\ auth[c].to \in Nat

\* What a grant was issued on: the authorization on file for its cycle, whose
\* window contains the grant's, fresh observations, and a profile that was
\* supported and current.
GrantIsSound(b) ==
    /\ b.auth.cycle \in Cycles /\ auth[b.auth.cycle] # None
    /\ b.auth = auth[b.auth.cycle]
    /\ b.grant.at \in Nat /\ b.grant.to \in Nat
    /\ b.auth.at <= b.grant.at /\ b.grant.to <= b.auth.to
    /\ b.grant.at - b.surface.at <= MaxObservationAge
    /\ profile.support = "supported"
    /\ Lifecycle(profile, b.grant.at) = "current"

BundleInv ==
    /\ DOMAIN bundle = Bundles
    /\ \A f \in Bundles : bundle[f] # None => GrantIsSound(bundle[f])

\* An accepted proof names a completed record and a time.
ProofIsSound(p) == p.record \in 1..Len(calls) /\ p.at \in Nat

ProofInv ==
    /\ DOMAIN proof = Labels
    /\ \A l \in Labels : proof[l] # None => ProofIsSound(proof[l])

\* The attestation's documents are still the ones on file, in their order.
FinalInv ==
    final # None =>
        /\ proof["a"] # None /\ proof["b"] # None
        /\ final.a = proof["a"] /\ final.b = proof["b"]
        /\ \E f \in Bundles : bundle[f] # None /\ final.bundle = bundle[f]
        /\ final.a.record # final.b.record
        /\ \A p \in {final.a, final.b} :
              /\ p.cycle = final.bundle.auth.cycle /\ In(p.at, final.bundle.grant)
              /\ p.task.at <= p.at /\ p.at <= final.negative.at
        /\ final.negative.at <= final.revocation.at /\ final.revocation.at <= final.at

\* The clock, the calls and the receipts carry times; the profile is committed.
TimeInv ==
    /\ now \in Nat
    /\ profile \in Profiles
    /\ calls \in Seq(Nat)
    /\ revocation # None => revocation.at \in Nat

IInv == TimeInv /\ AuthInv /\ BundleInv /\ ProofInv /\ FinalInv

----------------------------------------------------------------------------
(* The admission decision *)

\* lifecycle_for has three answers.
LEMMA LifecycleValues ==
    ASSUME NEW p, NEW t
    PROVE  Lifecycle(p, t) \in {"expired", "revalidation_due", "current"}
  BY DEF Lifecycle

\* evaluate_c7_prelive allows live actions only for a supported and current profile.
LEMMA AllowedMeansCurrent ==
    ASSUME NEW p \in Profiles, NEW policy, NEW grant, NEW t,
           LiveActionsAllowed(p, policy, grant, t)
    PROVE  p.support = "supported" /\ Lifecycle(p, t) = "current"
  <1>1. p.support \in {"supported", "unsupported", "unobservable"}
    BY C8Assumption
  <1>2. Lifecycle(p, t) \in {"expired", "revalidation_due", "current"}
    BY LifecycleValues
  <1>3. QED
    BY <1>1, <1>2 DEF LiveActionsAllowed, C7Prelive

----------------------------------------------------------------------------
(* The invariant is inductive *)

LEMMA InitHolds == Init => IInv
  BY DEF Init, IInv, TimeInv, AuthInv, BundleInv, ProofInv, FinalInv, Labels

\* No command rewrites an authorization, a bundle, a proof or a served call, so
\* what was sound of them remains so.
Keeps ==
    /\ DOMAIN auth' = Cycles /\ DOMAIN bundle' = Bundles /\ DOMAIN proof' = Labels
    /\ \A c \in Cycles : auth[c] # None => auth'[c] = auth[c]
    /\ \A f \in Bundles : bundle[f] # None => bundle'[f] = bundle[f]
    /\ \A l \in Labels : proof[l] # None => proof'[l] = proof[l]
    /\ Len(calls) <= Len(calls')
    /\ \A i \in 1..Len(calls) : calls'[i] = calls[i]
    /\ profile' = profile

\* A step that keeps the documents and adds at most sound ones keeps the invariant.
LEMMA KeepingIsEnough ==
    ASSUME IInv, Keeps, TimeInv',
           \A c \in Cycles : auth[c] = None /\ auth'[c] # None =>
              auth'[c].cycle = c /\ auth'[c].at \in Nat /\ auth'[c].to \in Nat,
           \A f \in Bundles : bundle[f] = None /\ bundle'[f] # None => GrantIsSound(bundle[f])',
           \A l \in Labels : proof[l] = None /\ proof'[l] # None =>
              ProofIsSound(proof[l])',
           final' = final \/ (final = None /\ FinalInv')
    PROVE  IInv'
  <1>1. AuthInv'
    BY DEF IInv, AuthInv, Keeps
  <1>2. BundleInv'
    <2>1. ASSUME NEW f \in Bundles, bundle'[f] # None
          PROVE  GrantIsSound(bundle[f])'
      <3>1. CASE bundle[f] = None
        BY <2>1, <3>1
      <3>2. CASE bundle[f] # None
        <4>1. bundle'[f] = bundle[f] /\ GrantIsSound(bundle[f])
          BY <3>2 DEF Keeps, IInv, BundleInv
        <4>2. QED
          BY <4>1, <3>2 DEF IInv, Keeps, GrantIsSound
      <3>3. QED
        BY <3>1, <3>2
    <2>2. QED
      BY <2>1 DEF BundleInv, Keeps
  <1>3. ProofInv'
    <2>1. ASSUME NEW l \in Labels, proof'[l] # None
          PROVE  ProofIsSound(proof[l])'
      <3>1. CASE proof[l] = None
        BY <2>1, <3>1
      <3>2. CASE proof[l] # None
        <4>1. proof'[l] = proof[l]
          BY <3>2 DEF Keeps
        <4>2. ProofIsSound(proof[l])
          BY <3>2 DEF IInv, ProofInv
        <4>3. Len(calls) \in Nat /\ Len(calls') \in Nat /\ Len(calls) <= Len(calls')
          BY DEF IInv, TimeInv, Keeps
        <4>4. QED
          BY <4>1, <4>2, <4>3 DEF ProofIsSound
      <3>3. QED
        BY <3>1, <3>2
    <2>2. QED
      BY <2>1 DEF ProofInv, Keeps
  <1>4. FinalInv'
    <2>1. CASE final' = final
      BY <2>1 DEF IInv, FinalInv, Keeps, Labels, In
    <2>2. QED
      BY <2>1
  <1>5. QED
    BY <1>1, <1>2, <1>3, <1>4 DEF IInv

\* authorize
LEMMA AuthorizeStep ==
    ASSUME IInv, NEW c \in Cycles, NEW n \in AuthLengths, Authorize(c, n)
    PROVE  IInv'
  <1>1. Keeps /\ TimeInv'
    BY DEF Authorize, IInv, TimeInv, AuthInv, BundleInv, ProofInv, Keeps
  <1>2. auth' = [auth EXCEPT ![c] = [cycle |-> c, at |-> now, to |-> now + n]]
    BY DEF Authorize, Authorization
  <1>3. n \in Nat /\ now \in Nat
    BY C8Assumption DEF IInv, TimeInv
  <1>4. \A d \in Cycles : auth[d] = None /\ auth'[d] # None =>
              auth'[d].cycle = d /\ auth'[d].at \in Nat /\ auth'[d].to \in Nat
    BY <1>2, <1>3 DEF IInv, AuthInv
  <1>5. QED
    BY <1>1, <1>4, KeepingIsEnough DEF Authorize

\* issue-grant: the admission it passes is what makes the bundle sound.
LEMMA IssueGrantStep ==
    ASSUME IInv, NEW ca \in Cycles, NEW cs \in Cycles, NEW cq \in Cycles, NEW f \in Bundles,
           NEW g \in Grants, NEW n \in GrantLengths, IssueGrant(ca, cs, cq, f, g, n)
    PROVE  IInv'
  <1> DEFINE b == Bundle(auth[ca], surface[cs], quota[cq], g, n)
  <1>1. Keeps /\ TimeInv'
    BY DEF IssueGrant, IInv, TimeInv, AuthInv, BundleInv, ProofInv, Keeps
  <1>2. /\ b.auth = auth[ca] /\ b.surface = surface[cs]
        /\ b.grant.at = now /\ b.grant.to = now + n
        /\ b.grant.surfaceAt = surface[cs].at
    BY DEF Bundle
  <1>3. /\ auth[ca] # None /\ In(now, auth[ca])
        /\ GrantFits(auth[ca], now + n) /\ GrantWellFormed(b.grant)
        /\ C8Admission(b, now) = "complete"
    BY DEF IssueGrant
  <1>4. profile \in Profiles /\ now \in Nat /\ n \in Nat
    BY C8Assumption DEF IInv, TimeInv
  <1>5. profile.support = "supported" /\ Lifecycle(profile, now) = "current"
    <2> HIDE DEF b
    <2>1. LiveActionsAllowed(profile, Policy, b.grant, now)
      BY <1>3 DEF C8Admission
    <2>2. QED
      BY <2>1, <1>4, AllowedMeansCurrent
  <1>6. bundle' = [bundle EXCEPT ![f] = b]
    BY DEF IssueGrant
  <1>7. /\ auth[ca].cycle = ca /\ auth' = auth /\ profile' = profile
        /\ DOMAIN bundle = Bundles
    BY <1>3 DEF IInv, AuthInv, BundleInv, IssueGrant
  <1>8. b.grant.at - b.surface.at <= MaxObservationAge
    BY <1>2, <1>3 DEF GrantWellFormed
  <1>9. GrantIsSound(bundle[f])'
    <2>1. bundle'[f] = b
      BY <1>6, <1>7
    <2>2. GrantIsSound(b)
      BY <1>2, <1>3, <1>4, <1>5, <1>7, <1>8 DEF GrantIsSound, In, GrantFits
    <2> HIDE DEF b
    <2>3. QED
      BY <2>1, <2>2, <1>7 DEF GrantIsSound
  <1>10. \A e \in Bundles : bundle[e] = None /\ bundle'[e] # None => GrantIsSound(bundle[e])'
    <2>1. \A e \in Bundles : e # f => bundle'[e] = bundle[e]
      BY <1>6, <1>7
    <2>2. QED
      BY <2>1, <1>9
  <1>11. QED
    BY <1>1, <1>10, KeepingIsEnough DEF IssueGrant

\* A probe call only adds its record.
LEMMA CallStep ==
    ASSUME IInv, Call
    PROVE  IInv'
  <1>1. calls \in Seq(Nat) /\ now \in Nat /\ calls' = Append(calls, now)
    BY DEF IInv, TimeInv, Call
  <1>2. /\ calls' \in Seq(Nat) /\ Len(calls') = Len(calls) + 1
        /\ \A i \in 1..Len(calls) : calls'[i] = calls[i]
    BY <1>1
  <1>3. Keeps /\ TimeInv'
    BY <1>1, <1>2 DEF Call, docs, IInv, TimeInv, AuthInv, BundleInv, ProofInv, Keeps
  <1>4. QED
    BY <1>3, KeepingIsEnough DEF Call, docs

\* c8_proof_check
LEMMA CheckProofStep ==
    ASSUME IInv, NEW f \in Bundles, NEW l \in Labels, NEW r \in Responses,
           CheckProof(f, l, r)
    PROVE  IInv'
  <1>1. Keeps /\ TimeInv'
    BY DEF CheckProof, IInv, TimeInv, AuthInv, BundleInv, ProofInv, Keeps
  <1>2. /\ proof' = [proof EXCEPT ![l] = Correlated(bundle[f], task[l], r)]
        /\ calls' = calls /\ DOMAIN proof = Labels
    BY DEF CheckProof, IInv, ProofInv
  <1>3. r.record \in 1..Len(calls) /\ r.at \in Nat
    BY C8Assumption DEF Responses, IInv, TimeInv
  <1>4. ProofIsSound(proof[l])'
    <2>1. proof'[l] = Correlated(bundle[f], task[l], r)
      BY <1>2
    <2>2. proof'[l].record = r.record /\ proof'[l].at = r.at
      BY <2>1 DEF Correlated
    <2>3. QED
      BY <2>2, <1>2, <1>3 DEF ProofIsSound
  <1>5. \A k \in Labels : proof[k] = None /\ proof'[k] # None => ProofIsSound(proof[k])'
    <2>1. \A k \in Labels : k # l => proof'[k] = proof[k]
      BY <1>2
    <2>2. QED
      BY <2>1, <1>4
  <1>6. QED
    BY <1>1, <1>5, KeepingIsEnough DEF CheckProof

\* commit-final
LEMMA CommitFinalStep ==
    ASSUME IInv, NEW f \in Bundles, CommitFinal(f)
    PROVE  IInv'
  <1>1. Keeps /\ TimeInv'
    BY DEF CommitFinal, IInv, TimeInv, AuthInv, BundleInv, ProofInv, Keeps
  <1>2. /\ bundle[f] # None /\ proof["a"] # None /\ proof["b"] # None
        /\ OneCycle(bundle[f], proof["a"], proof["b"], negative, revocation)
        /\ CallInWindows(proof["a"], bundle[f].grant)
        /\ CallInWindows(proof["b"], bundle[f].grant)
        /\ CallsDistinct(proof["a"], proof["b"])
        /\ Chronology(proof["a"], proof["b"], negative, revocation, now)
    BY DEF CommitFinal, FinalAccepts
  <1>3. /\ final'.bundle = bundle[f] /\ final'.a = proof["a"] /\ final'.b = proof["b"]
        /\ final'.negative = negative /\ final'.revocation = revocation
        /\ final'.at = now /\ bundle' = bundle /\ proof' = proof
    BY DEF CommitFinal, Attestation
  <1>4. proof["a"].cycle = bundle[f].auth.cycle /\ proof["b"].cycle = bundle[f].auth.cycle
    BY <1>2 DEF OneCycle
  <1>5. FinalInv'
    BY <1>2, <1>3, <1>4 DEF FinalInv, CallInWindows, CallsDistinct, Chronology, In
  <1>6. QED
    BY <1>1, <1>5, KeepingIsEnough DEF CommitFinal

\* Observations, reports, the facade's start and stop, and time.
LEMMA OtherStep ==
    ASSUME IInv, UNCHANGED <<profile, auth, bundle, calls, proof, final>>,
           now' \in {now, now + 1},
           revocation' = revocation \/ revocation'.at = now
    PROVE  IInv'
  <1>1. Keeps /\ TimeInv'
    BY DEF IInv, TimeInv, AuthInv, BundleInv, ProofInv, Keeps
  <1>2. QED
    BY <1>1, KeepingIsEnough

LEMMA Inductive == IInv /\ [Next]_vars => IInv'
  <1> SUFFICES ASSUME IInv, [Next]_vars PROVE IInv'
    OBVIOUS
  <1>1. ASSUME NEW c \in Cycles, NEW n \in AuthLengths, Authorize(c, n) PROVE IInv'
    BY <1>1, AuthorizeStep
  <1>2. ASSUME NEW c \in Cycles, ObserveSurface(c) \/ ObserveQuota(c) PROVE IInv'
    BY <1>2, OtherStep DEF ObserveSurface, ObserveQuota
  <1>3. ASSUME NEW c \in Cycles, NEW d \in Cycles, NEW e \in Cycles, NEW f \in Bundles,
               NEW g \in Grants, NEW n \in GrantLengths, IssueGrant(c, d, e, f, g, n)
        PROVE  IInv'
    BY <1>3, IssueGrantStep
  <1>4. ASSUME NEW f \in Bundles, StartFacade(f) PROVE IInv'
    BY <1>4, OtherStep DEF StartFacade, docs
  <1>5. ASSUME NEW f \in Bundles, CommitFinal(f) PROVE IInv'
    BY <1>5, CommitFinalStep
  <1>6. ASSUME StopFacade PROVE IInv'
    BY <1>6, OtherStep DEF StopFacade, docs
  <1>7. ASSUME Call PROVE IInv'
    BY <1>7, CallStep
  <1>8. ASSUME NEW c \in Cycles, NEW g \in Grants, NEW l \in Labels, ObserveTask(c, g, l)
        PROVE  IInv'
    BY <1>8, OtherStep DEF ObserveTask
  <1>9. ASSUME NEW c \in Cycles \cup {OtherCycle}, NEW g \in Grants,
               CommitNegative(c, g) \/ CommitRevocation(c, g)
        PROVE  IInv'
    BY <1>9, OtherStep DEF CommitNegative, CommitRevocation, RevocationReceipt
  <1>10. ASSUME NEW f \in Bundles, NEW l \in Labels, NEW r \in Responses,
                CheckProof(f, l, r)
         PROVE  IInv'
    BY <1>10, CheckProofStep
  <1>11. ASSUME Tick PROVE IInv'
    BY <1>11, OtherStep DEF Tick, docs
  <1>12. ASSUME UNCHANGED vars PROVE IInv'
    BY <1>12, OtherStep DEF vars
  <1>13. QED
    BY <1>1, <1>2, <1>3, <1>4, <1>5, <1>6, <1>7, <1>8, <1>9, <1>10, <1>11, <1>12 DEF Next

----------------------------------------------------------------------------
(* What the final document is worth *)

\* The invariant implies what the attestation says: the grant's window lies in the
\* authorization's, and the time the response gives in the grant's.
LEMMA InvariantImpliesTruth == IInv => AttestationIsTrue
  <1> SUFFICES ASSUME IInv, final # None  PROVE AttestationIsTrue
    BY DEF AttestationIsTrue
  <1>1. PICK f \in Bundles : bundle[f] # None /\ final.bundle = bundle[f]
    BY DEF IInv, FinalInv
  <1>2. GrantIsSound(final.bundle)
    BY <1>1 DEF IInv, BundleInv
  <1>3. ASSUME NEW p \in {final.a, final.b}
        PROVE  /\ p.record \in 1..Len(calls)
               /\ In(p.at, final.bundle.grant) /\ In(p.at, auth[p.cycle])
               /\ p.task.at <= p.at /\ p.at <= final.negative.at
    <2>1. ProofIsSound(p)
      BY DEF IInv, FinalInv, ProofInv, Labels
    <2>2. /\ p.cycle = final.bundle.auth.cycle /\ In(p.at, final.bundle.grant)
          /\ p.task.at <= p.at /\ p.at <= final.negative.at
      BY DEF IInv, FinalInv
    <2>3. /\ auth[p.cycle].at \in Nat /\ auth[p.cycle].to \in Nat
          /\ final.bundle.auth = auth[p.cycle]
      BY <1>2, <2>2 DEF GrantIsSound, IInv, AuthInv
    <2>4. In(p.at, auth[p.cycle])
      <3>1. /\ p.at \in Nat /\ final.bundle.grant.at \in Nat /\ final.bundle.grant.to \in Nat
            /\ final.bundle.auth.at <= final.bundle.grant.at
            /\ final.bundle.grant.to <= final.bundle.auth.to
        BY <1>2, <2>1 DEF ProofIsSound, GrantIsSound
      <3>2. final.bundle.grant.at <= p.at /\ p.at < final.bundle.grant.to
        BY <2>2 DEF In
      <3>3. auth[p.cycle].at <= p.at /\ p.at < auth[p.cycle].to
        BY <2>3, <3>1, <3>2
      <3>4. QED
        BY <3>3 DEF In
    <2>5. QED
      BY <2>1, <2>2, <2>4 DEF ProofIsSound
  <1>4. /\ final.a.record # final.b.record
        /\ final.negative.at <= final.revocation.at /\ final.revocation.at <= final.at
    BY DEF IInv, FinalInv
  <1>5. ASSUME ResponsesAreGenuine, NEW p \in {final.a, final.b}
        PROVE  In(calls[p.record], final.bundle.grant) /\ In(calls[p.record], auth[p.cycle])
    BY <1>3, <1>5 DEF ResponsesAreGenuine
  <1>6. QED
    BY <1>2, <1>3, <1>4, <1>5 DEF AttestationIsTrue, GrantIsSound

LEMMA Invariance == Spec => []IInv
  <1>1. QED
    BY InitHolds, Inductive, PTL DEF Spec

\* However the operator's commands, the facade's calls and the clock interleave, and
\* whatever documents of other cycles and grants commit-final is given, a final
\* attestation speaks of two distinct calls on record, dated by their response files
\* inside the grant and the cycle's own authorization and in the order it tells; where
\* the response files are genuine, that is when the facade served them.
THEOREM FinalIsTrue == Spec => []AttestationIsTrue
  <1>1. QED
    BY Invariance, InvariantImpliesTruth, PTL

\* Only the passing of time moves the clock.
LEMMA ClockIsMonotone == [Next]_vars => now' \in {now, now + 1}
  <1>1. \A c \in Cycles, n \in AuthLengths : Authorize(c, n) => now' = now
    BY DEF Authorize
  <1>2. \A c, d, e \in Cycles, f \in Bundles, g \in Grants, n \in GrantLengths :
          IssueGrant(c, d, e, f, g, n) => now' = now
    BY DEF IssueGrant
  <1>3. \A f \in Bundles, l \in Labels, r \in Responses :
          CheckProof(f, l, r) => now' = now
    BY DEF CheckProof
  <1>4. \A c \in Cycles : ObserveSurface(c) \/ ObserveQuota(c) => now' = now
    BY DEF ObserveSurface, ObserveQuota
  <1>5. \A c \in Cycles \cup {OtherCycle}, g \in Grants :
          CommitNegative(c, g) \/ CommitRevocation(c, g) => now' = now
    BY DEF CommitNegative, CommitRevocation
  <1>6. \A c \in Cycles, g \in Grants, l \in Labels : ObserveTask(c, g, l) => now' = now
    BY DEF ObserveTask
  <1>7. \A f \in Bundles : StartFacade(f) \/ CommitFinal(f) => now' = now
    BY DEF StartFacade, CommitFinal
  <1>8. StopFacade \/ Call => now' = now
    BY DEF StopFacade, Call
  <1>9. (Tick \/ UNCHANGED vars) => now' \in {now, now + 1}
    BY DEF Tick, vars
  <1>10. QED
    BY <1>1, <1>2, <1>3, <1>4, <1>5, <1>6, <1>7, <1>8, <1>9 DEF Next

\* Documents that commit-final accepts, it accepts at any later time: nothing in its
\* check compares a window with the current time (ADR 0015).
THEOREM EvidenceLasts == Spec => EvidenceDoesNotExpire
  <1>1. ASSUME IInv, [Next]_vars, NEW f \in Bundles,
               FinalAccepts(bundle[f], proof["a"], proof["b"], negative, revocation, now),
               UNCHANGED <<bundle[f], proof, negative, revocation>>
        PROVE  FinalAccepts(bundle[f], proof["a"], proof["b"], negative, revocation, now)'
    <2>1. now \in Nat /\ now' \in {now, now + 1}
      BY <1>1, ClockIsMonotone DEF IInv, TimeInv
    <2>2. revocation.at \in Nat /\ revocation.at <= now
      BY <1>1 DEF FinalAccepts, Chronology, IInv, TimeInv
    <2>3. revocation.at <= now'
      BY <2>1, <2>2
    <2>4. QED
      BY <1>1, <2>3 DEF FinalAccepts, Chronology, ProofBound, OneCycle, OneGrant,
                        CallInWindows, CallsDistinct, In
  <1>2. IInv /\ [Next]_vars =>
          [\A f \in Bundles :
             /\ FinalAccepts(bundle[f], proof["a"], proof["b"], negative, revocation, now)
             /\ UNCHANGED <<bundle[f], proof, negative, revocation>>
             => FinalAccepts(bundle[f], proof["a"], proof["b"], negative, revocation, now)']_vars
    BY <1>1
  <1>3. QED
    BY Invariance, <1>2, PTL DEF Spec, EvidenceDoesNotExpire

-----------------------------------------------------------------------------
(* Ancestry in a history whose parents come before their children *)

LEMMA LessIsARelation == \A x, y \in Nat : x < y => <<x, y>> \in OpToRel(<, Nat)
  BY DEF OpToRel

\* A non-empty set of naturals has a minimal member in a well-founded order.
LEMMA Minimal ==
    ASSUME NEW R, IsWellFoundedOn(R, Nat), NEW S \in SUBSET Nat, S # {}
    PROVE  \E x \in S : \A y \in S : ~(<<y, x>> \in R)
  BY WFMin

\* In an order that contains <, a minimal member is a least one.
LEMMA Least ==
    ASSUME NEW R, IsWellFoundedOn(R, Nat), \A x, y \in Nat : x < y => <<x, y>> \in R,
           NEW S \in SUBSET Nat, S # {}
    PROVE  \E m \in S : \A n \in Nat : n < m => n \notin S
  BY Minimal

\* A non-empty set of naturals has a least member.
LEMMA LeastNat ==
    ASSUME NEW S \in SUBSET Nat, S # {}
    PROVE  \E m \in S : \A n \in Nat : n < m => n \notin S
  BY Least, LessIsARelation, NatLessThanWellFounded, Zenon

\* f gives the ancestors of the first n commits of h.
Climbs(f, h, n) ==
    f = [d \in 0..n |-> IF d = 0 THEN {} ELSE {d} \cup f[h[d].parent]]

\* Parents come first among the first n commits.
ParentsFirst(h, n) == \A d \in 1..n : h[d].parent \in 0..(d - 1)

\* There is such a function: by the least number of commits that had none.
LEMMA ClimbExists ==
    ASSUME NEW h, NEW n \in Nat, ParentsFirst(h, n)
    PROVE  \E f : Climbs(f, h, n)
  <1> DEFINE Wrong == {m \in Nat : m <= n /\ ~\E f : Climbs(f, h, m)}
  <1> SUFFICES ASSUME Wrong # {} PROVE FALSE
    OBVIOUS
  <1>1. PICK m \in Wrong : \A k \in Nat : k < m => k \notin Wrong
    BY LeastNat
  <1>2. CASE m = 0
    <2> DEFINE f == [d \in 0..0 |-> {}]
    <2>1. Climbs(f, h, 0)
      BY DEF Climbs
    <2>2. QED
      BY <1>2, <2>1
  <1>3. CASE m # 0
    <2>1. m \in 1..n /\ m - 1 \in Nat /\ m - 1 <= n /\ m - 1 < m
      BY <1>3
    <2>2. PICK f : Climbs(f, h, m - 1)
      BY <1>1, <2>1
    <2> DEFINE g == [d \in 0..m |-> IF d = m THEN {m} \cup f[h[m].parent] ELSE f[d]]
    <2>3. ASSUME NEW d \in 0..m
          PROVE  g[d] = IF d = 0 THEN {} ELSE {d} \cup g[h[d].parent]
      <3>1. CASE d = 0
        <4>1. g[0] = f[0]
          BY <2>1
        <4>2. f[0] = {}
          BY <2>1, <2>2 DEF Climbs
        <4>3. QED
          BY <3>1, <4>1, <4>2
      <3>2. CASE d = m
        <4>1. h[m].parent \in 0..(m - 1)
          BY <2>1 DEF ParentsFirst
        <4>2. g[h[m].parent] = f[h[m].parent]
          BY <2>1, <4>1
        <4>3. QED
          BY <1>3, <3>2, <4>2
      <3>3. CASE d # 0 /\ d # m
        <4>1. d \in 1..n /\ d \in 0..(m - 1)
          BY <2>1, <3>3
        <4>2. h[d].parent \in 0..(d - 1)
          BY <4>1 DEF ParentsFirst
        <4>3. h[d].parent \in 0..m /\ h[d].parent # m
          BY <4>1, <4>2
        <4>4. g[h[d].parent] = f[h[d].parent] /\ g[d] = f[d]
          BY <3>3, <4>3
        <4>5. f[d] = {d} \cup f[h[d].parent]
          BY <2>2, <3>3, <4>1 DEF Climbs
        <4>6. QED
          BY <3>3, <4>4, <4>5
      <3>4. QED
        BY <3>1, <3>2, <3>3
    <2>4. Climbs(g, h, m)
      <3> HIDE DEF g
      <3>1. g = [d \in 0..m |-> g[d]]
        BY DEF g
      <3>2. [d \in 0..m |-> g[d]] = [d \in 0..m |-> IF d = 0 THEN {} ELSE {d} \cup g[h[d].parent]]
        BY <2>3
      <3>3. QED
        BY <3>1, <3>2 DEF Climbs
    <2>5. QED
      BY <2>4
  <1>4. QED
    BY <1>2, <1>3

\* So Ancestors is what its definition says.
LEMMA AncestorsClimb ==
    ASSUME Len(commits) \in Nat, ParentsFirst(commits, Len(commits))
    PROVE  \E f : /\ Climbs(f, commits, Len(commits))
                  /\ \A c : Ancestors(c) = f[c]
  <1>1. \E f : Climbs(f, commits, Len(commits))
    BY ClimbExists
  <1> DEFINE u == CHOOSE f : Climbs(f, commits, Len(commits))
  <1>2. Climbs(u, commits, Len(commits))
    BY <1>1
  <1>3. \A c : Ancestors(c) = u[c]
    BY DEF Ancestors, Climbs
  <1>4. QED
    BY <1>2, <1>3

\* Ancestors are commits.
LEMMA AncestorsAreCommits ==
    ASSUME Len(commits) \in Nat, ParentsFirst(commits, Len(commits)), NEW c \in 0..Len(commits)
    PROVE  Ancestors(c) \subseteq 1..Len(commits)
  <1> DEFINE n == Len(commits)
             Wrong == {d \in Nat : d <= n /\ ~(Ancestors(d) \subseteq 1..n)}
  <1> SUFFICES ASSUME Wrong # {} PROVE FALSE
    OBVIOUS
  <1>1. PICK d \in Wrong : \A k \in Nat : k < d => k \notin Wrong
    BY LeastNat
  <1>2. PICK f : Climbs(f, commits, n) /\ \A x : Ancestors(x) = f[x]
    BY AncestorsClimb
  <1>3. d \in 0..n /\ f[d] = IF d = 0 THEN {} ELSE {d} \cup f[commits[d].parent]
    <2>1. d \in 0..n
      BY <1>1
    <2>2. QED
      BY <1>2, <2>1 DEF Climbs
  <1>4. d # 0
    BY <1>2, <1>3
  <1>5. commits[d].parent \in 0..(d - 1)
    BY <1>3, <1>4 DEF ParentsFirst
  <1>6. commits[d].parent \in Nat /\ commits[d].parent < d /\ commits[d].parent <= n
    BY <1>3, <1>5
  <1>7. Ancestors(commits[d].parent) \subseteq 1..n
    BY <1>1, <1>6
  <1>8. QED
    BY <1>2, <1>3, <1>4, <1>7

\* When only the first commit has no parent, it is an ancestor of every commit.
LEMMA FirstIsAncestor ==
    ASSUME Len(commits) \in Nat, ParentsFirst(commits, Len(commits)),
           \A d \in 1..Len(commits) : commits[d].parent = 0 => d = 1,
           NEW c \in 1..Len(commits)
    PROVE  IsAncestor(1, c)
  <1> DEFINE n == Len(commits)
             Wrong == {d \in Nat : d \in 1..n /\ 1 \notin Ancestors(d)}
  <1> SUFFICES ASSUME Wrong # {} PROVE FALSE
    BY DEF IsAncestor
  <1>1. PICK d \in Wrong : \A k \in Nat : k < d => k \notin Wrong
    BY LeastNat
  <1>2. PICK f : Climbs(f, commits, n) /\ \A x : Ancestors(x) = f[x]
    BY AncestorsClimb
  <1>3. d \in 1..n /\ f[d] = {d} \cup f[commits[d].parent]
    BY <1>2 DEF Climbs
  <1>4. d # 1
    BY <1>2, <1>3
  <1>5. commits[d].parent \in 0..(d - 1) /\ commits[d].parent # 0
    BY <1>3, <1>4 DEF ParentsFirst
  <1>6. commits[d].parent \in Nat /\ commits[d].parent < d /\ commits[d].parent \in 1..n
    BY <1>3, <1>5
  <1>7. 1 \in Ancestors(commits[d].parent)
    BY <1>1, <1>6
  <1>8. QED
    BY <1>2, <1>3, <1>7

\* The commits that there are stay; there may be more of them.
Extends ==
    /\ Len(commits) \in Nat /\ Len(commits') \in Nat /\ Len(commits) <= Len(commits')
    /\ \A c \in 1..Len(commits) : commits'[c] = commits[c]
    /\ ParentsFirst(commits, Len(commits))
    /\ ParentsFirst(commits', Len(commits'))

\* A later commit changes nothing about the ancestors of an earlier one.
LEMMA AncestorsStay ==
    ASSUME Extends, NEW c \in 0..Len(commits)
    PROVE  Ancestors(c)' = Ancestors(c)
  <1> DEFINE n == Len(commits)
  <1>1. PICK f : Climbs(f, commits, n) /\ \A x : Ancestors(x) = f[x]
    BY AncestorsClimb DEF Extends
  <1>2. \E g : Climbs(g, commits', Len(commits')) /\ \A x : Ancestors(x)' = g[x]
    <2>1. /\ Len(commits') \in Nat /\ ParentsFirst(commits', Len(commits'))
      BY DEF Extends
    <2>2. \E g : Climbs(g, commits', Len(commits'))
      BY <2>1, ClimbExists
    <2> DEFINE u == CHOOSE g : Climbs(g, commits', Len(commits'))
    <2>3. Climbs(u, commits', Len(commits'))
      BY <2>2
    <2>4. \A x : Ancestors(x)' = u[x]
      BY DEF Ancestors, Climbs
    <2>5. QED
      BY <2>3, <2>4
  <1>3. PICK g : Climbs(g, commits', Len(commits')) /\ \A x : Ancestors(x)' = g[x]
    BY <1>2
  <1> DEFINE Wrong == {d \in Nat : d <= n /\ g[d] # f[d]}
  <1>4. SUFFICES ASSUME Wrong # {} PROVE FALSE
    BY <1>1, <1>3 DEF Extends
  <1>5. PICK d \in Wrong : \A k \in Nat : k < d => k \notin Wrong
    BY <1>4, LeastNat
  <1>6. n \in Nat /\ Len(commits') \in Nat /\ n <= Len(commits') /\ d \in 0..n /\ d \in 0..Len(commits')
    BY <1>5 DEF Extends
  <1>7. f[d] = IF d = 0 THEN {} ELSE {d} \cup f[commits[d].parent]
    BY <1>1, <1>6 DEF Climbs
  <1>8. g[d] = IF d = 0 THEN {} ELSE {d} \cup g[commits'[d].parent]
    BY <1>3, <1>6 DEF Climbs
  <1>9. d # 0
    BY <1>5, <1>7, <1>8
  <1>10. d \in 1..n /\ commits'[d] = commits[d] /\ commits[d].parent \in 0..(d - 1)
    BY <1>6, <1>9 DEF Extends, ParentsFirst
  <1>11. /\ commits[d].parent \in Nat /\ commits[d].parent < d /\ commits[d].parent <= n
    BY <1>6, <1>10
  <1>12. g[commits[d].parent] = f[commits[d].parent]
    BY <1>5, <1>11
  <1>13. QED
    BY <1>5, <1>7, <1>8, <1>9, <1>10, <1>12

-----------------------------------------------------------------------------
(* What the four verifications have in common *)

AllStages == {"c6", "c7", "c8", "c9"}

\* The manifest is one the tool of stage s accepts.
ValidManifest(s, m) ==
    CASE s = "c6" -> ManifestC6Valid(m)
      [] s = "c7" -> ManifestC7Valid(m)
      [] s = "c8" -> ManifestC8Valid(m)
      [] s = "c9" -> ManifestC9Valid(m)

\* The changed paths that the tool of stage s compares with the manifest.
StageChanges(s, c) ==
    IF s = "c6" THEN ChangedPathsC6(Base(s), c) ELSE ChangedPaths(Base(s), c)

\* The seal x is one of commit c and of the manifest that c has.
SealFits(s, x, c) ==
    LET m == Tree(c)[ManifestPath(s)]
    IN  /\ ValidManifest(s, m)
        /\ x.manifest = m /\ x.att = m.att
        /\ StageChanges(s, c) = m.files /\ x.count = Cardinality(m.files)
        /\ DiffIsNonEmpty(s, Base(s), c) /\ x.diff = DiffCommitment(s, Base(s), c)
        /\ x.tree = TreeCommitment(s, c)

\* Commit t adds a fitting seal to its parent, and nothing else.
SealedAt(s, t) ==
    LET seal == Tree(t)[SealPath(s)]
    IN  /\ seal # NoFile
        /\ Parent(t) = seal.covered
        /\ Changed(seal.covered, t) = {SealPath(s)}
        /\ SealFits(s, seal, seal.covered)

\* The manifest that the seal at t rests on.
SealedManifest(s, t) == Tree(Tree(t)[SealPath(s)].covered)[ManifestPath(s)]

\* What is left to the attestation file and the C8 seal in C9.
C9Holds(t) ==
    /\ LiveHeadIsCovered(SealedManifest("c9", t).live, Tree(t)["seal"].covered)
    /\ C8ManifestDependency(SealedManifest("c9", t))
    /\ att # NoFile
    /\ SealedManifest("c9", t) = ManifestOf(SealedManifest("c9", t).files, att)

\* The four verifications in one form; the lemmas below show that it is theirs.
Verified(s) ==
    /\ TagIsAnnotated(TagOf(s))
    /\ SealedAt(s, TagOf(s).target)
    /\ IsAncestor(Base(s), head)
    /\ s = "c6" => IsAncestor(Base(s), Tree(tag.target)["seal"].covered)
    /\ s = "c9" => C9Holds(tag.target)

\* A commit that changes only the seal has the rest of its parent's tree.
LEMMA OnlySealChanged ==
    ASSUME NEW s, NEW a, NEW c, Changed(a, c) = {SealPath(s)}
    PROVE  /\ \A p \in Paths \ {SealPath(s)} : Tree(a)[p] = Tree(c)[p]
           /\ TreeCommitment(s, a) = TreeCommitment(s, c)
           /\ s \in AllStages => Tree(a)[ManifestPath(s)] = Tree(c)[ManifestPath(s)]
  <1>1. \A p \in Paths \ {SealPath(s)} : Tree(a)[p] = Tree(c)[p]
    BY DEF Changed
  <1>2. TreeCommitment(s, a) = TreeCommitment(s, c)
    BY <1>1 DEF TreeCommitment
  <1>3. s \in AllStages => ManifestPath(s) \in Paths \ {SealPath(s)}
    BY DEF AllStages, ManifestPath, SealPath, Paths
  <1>4. QED
    BY <1>1, <1>2, <1>3

\* Each of the four is: an annotated tag on a commit that adds a fitting seal, a
\* HEAD that descends from the base and, for C6 and C9, what these check besides.
LEMMA VerifyC6Means == VerifyC6(FALSE) <=> Verified("c6")
  <1> DEFINE seal == Tree(tag.target)["seal"]
  <1>1. ASSUME TagAddsOnlySeal("c6", tag)
        PROVE  /\ Tree(seal.covered)["manifest"] = Tree(tag.target)["manifest"]
               /\ TreeCommitment("c6", seal.covered) = TreeCommitment("c6", tag.target)
    BY <1>1, OnlySealChanged DEF TagAddsOnlySeal, SealPath, ManifestPath, AllStages
  <1>2. TagAddsOnlySeal("c6", tag) <=> /\ seal # NoFile /\ Parent(tag.target) = seal.covered
                                       /\ Changed(seal.covered, tag.target) = {"seal"}
    BY DEF TagAddsOnlySeal, SealPath
  <1>3. QED
    BY <1>1, <1>2 DEF VerifyC6, Verified, SealedAt, SealFits, TagOf, ManifestPath, SealPath,
       ValidManifest, StageChanges, ManifestIsSealed, ChangesAreListed, CommitmentsHold,
       CurrentHolds

LEMMA VerifyC7Means == VerifyC7(FALSE) <=> Verified("c7")
  <1> DEFINE seal == Tree(tag.target)["seal"]
  <1>1. ASSUME TagAddsOnlySeal("c7", tag)
        PROVE  TreeCommitment("c7", seal.covered) = TreeCommitment("c7", tag.target)
    BY <1>1, OnlySealChanged DEF TagAddsOnlySeal, SealPath
  <1>2. TagAddsOnlySeal("c7", tag) <=> /\ seal # NoFile /\ Parent(tag.target) = seal.covered
                                       /\ Changed(seal.covered, tag.target) = {"seal"}
    BY DEF TagAddsOnlySeal, SealPath
  <1>3. QED
    BY <1>1, <1>2 DEF VerifyC7, Verified, SealedAt, SealFits, TagOf, ManifestPath, SealPath,
       ValidManifest, StageChanges, ManifestIsSealed, ChangesAreListed, CommitmentsHold,
       CurrentHolds

LEMMA VerifyC8Means == VerifyC8(FALSE) <=> Verified("c8")
  <1> DEFINE seal == Tree(c8tag.target)["c8seal"]
  <1>1. ASSUME TagAddsOnlySeal("c8", c8tag)
        PROVE  TreeCommitment("c8", seal.covered) = TreeCommitment("c8", c8tag.target)
    BY <1>1, OnlySealChanged DEF TagAddsOnlySeal, SealPath
  <1>2. TagAddsOnlySeal("c8", c8tag) <=> /\ seal # NoFile /\ Parent(c8tag.target) = seal.covered
                                         /\ Changed(seal.covered, c8tag.target) = {"c8seal"}
    BY DEF TagAddsOnlySeal, SealPath
  <1>3. QED
    BY <1>1, <1>2 DEF VerifyC8, Verified, SealedAt, SealFits, TagOf, ManifestPath, SealPath,
       ValidManifest, StageChanges, ManifestIsSealed, ChangesAreListed, CommitmentsHold,
       CurrentHolds

LEMMA VerifyC9Means == VerifyC9(FALSE) <=> Verified("c9")
  <1> DEFINE seal == Tree(tag.target)["seal"]
             m == Tree(seal.covered)["manifest"]
  <1>1. ASSUME TagAddsOnlySeal("c9", tag)
        PROVE  TreeCommitment("c9", seal.covered) = TreeCommitment("c9", tag.target)
    BY <1>1, OnlySealChanged DEF TagAddsOnlySeal, SealPath
  <1>2. TagAddsOnlySeal("c9", tag) <=> /\ seal # NoFile /\ Parent(tag.target) = seal.covered
                                       /\ Changed(seal.covered, tag.target) = {"seal"}
    BY DEF TagAddsOnlySeal, SealPath
  <1>3. m = ManifestOf(m.files, att) => m.live = att.live
    BY DEF ManifestOf
  <1>4. QED
    BY <1>1, <1>2, <1>3 DEF VerifyC9, AttestationIsRead, Verified, SealedAt, SealFits, TagOf, ManifestPath, SealPath,
       ValidManifest, StageChanges, ManifestIsSealed, ChangesAreListed, CommitmentsHold,
       CurrentHolds, C9Holds, SealedManifest

LEMMA VerifyMeans ==
    ASSUME stage \in AllStages
    PROVE  Verify(stage, FALSE) <=> Verified(stage)
  BY VerifyC6Means, VerifyC7Means, VerifyC8Means, VerifyC9Means DEF Verify, AllStages

\* The verification with the current tree adds one comparison.
LEMMA VerifyCurrentMeans ==
    ASSUME stage \in AllStages, Verify(stage, TRUE)
    PROVE  /\ Verified(stage)
           /\ TreeCommitment(stage, head) = Tree(TagOf(stage).target)[SealPath(stage)].tree
  <1>1. Verify(stage, FALSE)
    BY DEF Verify, VerifyC6, VerifyC7, VerifyC8, VerifyC9, CurrentHolds, AllStages
  <1>2. TreeCommitment(stage, head) = Tree(TagOf(stage).target)[SealPath(stage)].tree
    BY DEF Verify, VerifyC6, VerifyC7, VerifyC8, VerifyC9, CurrentHolds, AllStages,
           TagOf, SealPath
  <1>3. QED
    BY <1>1, <1>2, VerifyMeans

-----------------------------------------------------------------------------
(* The history *)

\* A tree gives every path its content.
IsTree(tree) == tree = [p \in Paths |-> tree[p]]

\* A commit's parent is older; only the first has none, and that one is empty.
CommitInv ==
    /\ \E S : commits \in Seq(S)
    /\ ParentsFirst(commits, Len(commits))
    /\ \A c \in 1..Len(commits) : Parent(c) = 0 => c = 1 /\ Tree(c) = NoTree
    /\ \A c \in 1..Len(commits) : IsTree(Tree(c))

\* HEAD and the tags name commits.
RefInv ==
    /\ stage \in AllStages /\ Base(stage) \in 1..Len(commits)
    /\ head \in 1..Len(commits) /\ IsTree(work)
    /\ tag # NoFile => tag.target \in 1..Len(commits)
    /\ c8tag # NoFile => c8tag.target \in 1..Len(commits)

HistoryInv == CommitInv /\ RefInv

LEMMA CommitCount ==
    ASSUME CommitInv
    PROVE  Len(commits) \in Nat
  BY DEF CommitInv

LEMMA HistoryInitHolds == SealInit => HistoryInv
  <1> SUFFICES ASSUME SealInit PROVE HistoryInv
    OBVIOUS
  <1>1. stage \in AllStages
    BY SealAssumption DEF SealInit, AllStages
  <1>2. IsTree(NoTree) /\ IsTree(C8Covered) /\ IsTree([C8Covered EXCEPT !["c8seal"] = C8SealFile])
    BY DEF IsTree, NoTree, C8Covered
  <1>3. CASE stage = "c9"
    <2>1. commits = C8History
      BY <1>3 DEF SealInit
    <2>2. /\ Len(commits) = 3
          /\ commits[1] = [parent |-> 0, tree |-> NoTree]
          /\ commits[2] = [parent |-> 1, tree |-> C8Covered]
          /\ commits[3] = [parent |-> 2, tree |-> [C8Covered EXCEPT !["c8seal"] = C8SealFile]]
      BY <2>1 DEF C8History
    <2>3. \E S : commits \in Seq(S)
      <3>1. commits \in Seq({commits[1], commits[2], commits[3]})
        BY <2>1, <2>2 DEF C8History
      <3>2. QED
        BY <3>1
    <2>4. \A c \in 1..3 : c = 1 \/ c = 2 \/ c = 3
      OBVIOUS
    <2>5. /\ Parent(1) = 0 /\ Tree(1) = NoTree /\ Parent(2) = 1 /\ Parent(3) = 2
          /\ IsTree(Tree(1)) /\ IsTree(Tree(2)) /\ IsTree(Tree(3))
      BY <1>2, <2>2 DEF Parent, Tree
    <2>6. ParentsFirst(commits, Len(commits))
      BY <2>2, <2>4 DEF ParentsFirst
    <2>7. CommitInv
      BY <2>2, <2>3, <2>4, <2>5, <2>6 DEF CommitInv
    <2>8. head = 3 /\ work = Tree(3) /\ tag = NoFile /\ c8tag.target = 3
      BY <1>3, <2>2 DEF SealInit
    <2>9. RefInv
      BY <1>1, <1>3, <2>2, <2>5, <2>8 DEF RefInv, Base
    <2>10. QED
      BY <2>7, <2>9 DEF HistoryInv
  <1>4. CASE stage # "c9"
    <2>1. commits = <<[parent |-> 0, tree |-> NoTree]>>
      BY <1>4 DEF SealInit
    <2>2. Len(commits) = 1 /\ commits[1] = [parent |-> 0, tree |-> NoTree]
      BY <2>1
    <2>3. \E S : commits \in Seq(S)
      <3>1. commits \in Seq({commits[1]})
        BY <2>1, <2>2
      <3>2. QED
        BY <3>1
    <2>4. \A c \in 1..1 : c = 1
      OBVIOUS
    <2>5. CommitInv
      BY <1>2, <2>2, <2>3, <2>4 DEF CommitInv, ParentsFirst, Parent, Tree
    <2>6. RefInv
      BY <1>1, <1>2, <1>4, <2>2 DEF RefInv, SealInit, Base, Tree
    <2>7. QED
      BY <2>5, <2>6 DEF HistoryInv
  <1>5. QED
    BY <1>3, <1>4

\* A new commit on an existing one.
LEMMA NewCommitEffect ==
    ASSUME CommitInv, NEW parent \in 1..Len(commits), NEW tree, IsTree(tree),
           NewCommit(parent, tree)
    PROVE  /\ CommitInv' /\ Extends
           /\ Len(commits') = Len(commits) + 1 /\ head' = Len(commits')
           /\ commits'[Len(commits')] = [parent |-> parent, tree |-> tree]
  <1> DEFINE r == [parent |-> parent, tree |-> tree]
             n == Len(commits)
  <1>1. PICK S : commits \in Seq(S)
    BY DEF CommitInv
  <1>2. commits' = Append(commits, r) /\ head' = n + 1
    BY DEF NewCommit
  <1>3. commits \in Seq(S \cup {r})
    BY <1>1
  <1> HIDE DEF r
  <1>4. /\ commits' \in Seq(S \cup {r}) /\ Len(commits') = n + 1 /\ n \in Nat
        /\ commits'[n + 1] = r /\ \A c \in 1..n : commits'[c] = commits[c]
    BY <1>2, <1>3
  <1>5. \A c \in 1..(n + 1) : c \in 1..n \/ c = n + 1
    BY <1>4
  <1>6. ParentsFirst(commits', Len(commits'))
    <2>1. ASSUME NEW d \in 1..Len(commits')
          PROVE  commits'[d].parent \in 0..(d - 1)
      <3>1. CASE d \in 1..n
        BY <1>4, <3>1 DEF CommitInv, ParentsFirst
      <3>2. CASE d = n + 1
        BY <1>4, <3>2 DEF r
      <3>3. QED
        BY <1>4, <1>5, <3>1, <3>2
    <2>2. QED
      BY <2>1 DEF ParentsFirst
  <1>7. Extends
    BY <1>4, <1>6 DEF Extends, CommitInv
  <1>8. ASSUME NEW c \in 1..Len(commits')
        PROVE  /\ commits'[c].parent = 0 => c = 1 /\ commits'[c].tree = NoTree
               /\ IsTree(commits'[c].tree)
    <2>1. CASE c \in 1..n
      BY <1>4, <2>1 DEF CommitInv, Parent, Tree
    <2>2. CASE c = n + 1
      BY <1>4, <2>2 DEF r
    <2>3. QED
      BY <1>4, <1>5, <2>1, <2>2
  <1>9. CommitInv'
    <2>1. \E T : commits' \in Seq(T)
      BY <1>4
    <2>2. QED
      BY <1>6, <1>8, <2>1 DEF CommitInv, Parent, Tree
  <1>10. QED
    BY <1>2, <1>4, <1>7, <1>9 DEF r

\* The seals there are, in the history and in the worktree.
Seals ==
    {NoFile, work[SealPath(stage)]} \cup {Tree(c)[SealPath(stage)] : c \in 1..Len(commits)}

\* A step that no tool takes brings no new seal.
MovesSeals ==
    /\ HistoryInv' /\ Extends /\ stage' = stage
    /\ work'[SealPath(stage)] \in Seals
    /\ \A c \in 1..Len(commits') : Tree(c)'[SealPath(stage)] \in Seals

LEMMA StageFacts ==
    ASSUME HistoryInv
    PROVE  /\ Len(commits) \in Nat /\ 1 \in 1..Len(commits)
           /\ Base(stage) \in 1..Len(commits) /\ head \in 1..Len(commits)
           /\ stage \in AllStages /\ SealPath(stage) \in Paths /\ ManifestPath(stage) \in Paths
           /\ SealPath(stage) # ManifestPath(stage) /\ SealPath(stage) \notin {"code", "notes"}
           /\ IsTree(work) /\ IsTree(Tree(head))
  <1>1. Len(commits) \in Nat
    BY CommitCount DEF HistoryInv
  <1>2. stage \in AllStages /\ Base(stage) \in 1..Len(commits) /\ head \in 1..Len(commits)
        /\ IsTree(work)
    BY DEF HistoryInv, RefInv
  <1>3. 1 \in 1..Len(commits)
    BY <1>1, <1>2
  <1>4. /\ SealPath(stage) \in Paths /\ ManifestPath(stage) \in Paths
        /\ SealPath(stage) # ManifestPath(stage) /\ SealPath(stage) \notin {"code", "notes"}
    BY DEF SealPath, ManifestPath, Paths
  <1>5. IsTree(Tree(head))
    BY <1>2 DEF HistoryInv, CommitInv
  <1>6. QED
    BY <1>1, <1>2, <1>3, <1>4, <1>5

\* A step that leaves the commits alone.
LEMMA SameCommits ==
    ASSUME HistoryInv, UNCHANGED <<commits, stage>>, head' \in 1..Len(commits), IsTree(work'),
           tag' # NoFile => tag'.target \in 1..Len(commits),
           c8tag' # NoFile => c8tag'.target \in 1..Len(commits)
    PROVE  /\ HistoryInv' /\ Extends
           /\ work'[SealPath(stage)] \in Seals => MovesSeals
  <1>1. CommitInv'
    BY DEF HistoryInv, CommitInv, Parent, Tree
  <1>2. RefInv'
    BY DEF HistoryInv, RefInv, Base
  <1>3. Extends
    BY CommitCount DEF HistoryInv, CommitInv, Extends
  <1>4. \A c \in 1..Len(commits') : Tree(c)'[SealPath(stage)] \in Seals
    BY DEF Tree, Seals
  <1>5. QED
    BY <1>1, <1>2, <1>3, <1>4 DEF HistoryInv, MovesSeals

\* An operator writes no seal, but may remove one.
LEMMA EditsStep ==
    ASSUME HistoryInv, OperatorEdits
    PROVE  MovesSeals
  <1>0. PICK p \in Paths : \E x : /\ Edit(p, x) /\ UNCHANGED <<stage, att>>
                                  /\ p = SealPath(stage) => x = NoFile
    <2>1. /\ {"code", "notes", ManifestPath(stage), SealPath(stage)} \subseteq Paths
          /\ SealPath(stage) \notin {"code", "notes", ManifestPath(stage)}
      BY StageFacts DEF Paths
    <2>2. QED
      BY <2>1 DEF OperatorEdits
  <1>1. PICK x : /\ Edit(p, x) /\ UNCHANGED <<stage, att>>
                 /\ p = SealPath(stage) => x = NoFile
    BY <1>0
  <1>2. work' = [work EXCEPT ![p] = x] /\ UNCHANGED <<commits, head, tag, c8tag>>
    BY <1>1 DEF Edit
  <1>3. /\ IsTree(work') /\ work'[p] = x /\ \A q \in Paths \ {p} : work'[q] = work[q]
    <2>1. IsTree(work)
      BY StageFacts
    <2>2. QED
      BY <1>2, <2>1 DEF IsTree
  <1>4. work'[SealPath(stage)] \in Seals
    <2>1. SealPath(stage) \in Paths
      BY StageFacts
    <2>2. work'[SealPath(stage)] = NoFile \/ work'[SealPath(stage)] = work[SealPath(stage)]
      BY <1>1, <1>3, <2>1
    <2>3. QED
      BY <2>2 DEF Seals
  <1>5. QED
    BY <1>1, <1>2, <1>3, <1>4, SameCommits DEF HistoryInv, RefInv

\* A new commit whose seal is one there was.
LEMMA NewCommitStep ==
    ASSUME HistoryInv, NEW parent \in 1..Len(commits), NEW tree, IsTree(tree),
           NewCommit(parent, tree), tree[SealPath(stage)] \in Seals,
           UNCHANGED <<work, tag, c8tag, stage>>
    PROVE  MovesSeals
  <1>1. /\ CommitInv' /\ Extends
        /\ Len(commits') = Len(commits) + 1 /\ head' = Len(commits')
        /\ commits'[Len(commits')] = [parent |-> parent, tree |-> tree]
    BY NewCommitEffect DEF HistoryInv
  <1>2. Len(commits) \in Nat
    BY StageFacts
  <1>3. RefInv'
    <2>1. \A c \in 1..Len(commits) : c \in 1..Len(commits')
      BY <1>1, <1>2
    <2>2. head' \in 1..Len(commits') /\ Base(stage) \in 1..Len(commits')
      BY <1>1, <1>2, <2>1, StageFacts
    <2>3. QED
      BY <2>1, <2>2 DEF HistoryInv, RefInv, Base
  <1>4. ASSUME NEW c \in 1..Len(commits')
        PROVE  Tree(c)'[SealPath(stage)] \in Seals
    <2>1. CASE c \in 1..Len(commits)
      <3>1. Tree(c)' = Tree(c)
        BY <1>1, <2>1 DEF Extends, Tree
      <3>2. QED
        BY <2>1, <3>1 DEF Seals
    <2>2. CASE c = Len(commits')
      <3>1. Tree(c)' = tree
        BY <1>1, <2>2 DEF Tree
      <3>2. QED
        BY <3>1
    <2>3. QED
      BY <1>1, <1>2, <2>1, <2>2
  <1>5. work'[SealPath(stage)] \in Seals
    BY DEF Seals
  <1>6. QED
    BY <1>1, <1>3, <1>4, <1>5 DEF MovesSeals, HistoryInv

LEMMA CommitsStep ==
    ASSUME HistoryInv, OperatorCommits
    PROVE  MovesSeals
  <1>1. PICK S : CommitPaths(S) /\ UNCHANGED <<stage, att>>
    BY DEF OperatorCommits
  <1> DEFINE tree == [p \in Paths |-> IF p \in S THEN work[p] ELSE Tree(head)[p]]
  <1>2. NewCommit(head, tree) /\ UNCHANGED <<work, tag, c8tag>>
    BY <1>1 DEF CommitPaths
  <1>3. IsTree(tree)
    BY DEF IsTree
  <1>4. tree[SealPath(stage)] \in Seals
    BY StageFacts DEF Seals
  <1> HIDE DEF tree
  <1>5. QED
    BY <1>1, <1>2, <1>3, <1>4, StageFacts, NewCommitStep

LEMMA MovesHeadStep ==
    ASSUME HistoryInv, OperatorMovesHead
    PROVE  MovesSeals
  <1>1. CASE \E c \in 1..Len(commits), b \in {"reviewed", "none"} : Checkout(c, b)
    <2>1. PICK c \in 1..Len(commits), b \in {"reviewed", "none"} : Checkout(c, b)
      BY <1>1
    <2>2. head' = c /\ work' = Tree(c) /\ UNCHANGED <<commits, tag, c8tag, stage>>
      BY <2>1 DEF Checkout, OperatorMovesHead
    <2>3. IsTree(work') /\ work'[SealPath(stage)] \in Seals
      BY <2>2 DEF HistoryInv, CommitInv, Seals
    <2>4. QED
      BY <2>2, <2>3, SameCommits DEF HistoryInv, RefInv
  <1>2. CASE SquashMerge(Base(stage))
    <2>1. NewCommit(Base(stage), Tree(head)) /\ UNCHANGED <<work, tag, c8tag, stage>>
      BY <1>2 DEF SquashMerge, OperatorMovesHead
    <2>2. Tree(head)[SealPath(stage)] \in Seals
      BY StageFacts DEF Seals
    <2>3. QED
      BY <2>1, <2>2, StageFacts, NewCommitStep
  <1>3. QED
    BY <1>1, <1>2 DEF OperatorMovesHead

\* Tags, the attestation and stuttering.
LEMMA RefsStep ==
    ASSUME HistoryInv, OperatorTags \/ C8TagMoves \/ AttestationArrives \/ UNCHANGED sealVars
    PROVE  MovesSeals
  <1>1. work'[SealPath(stage)] \in Seals /\ UNCHANGED <<commits, head, work, stage>>
    BY DEF OperatorTags, C8TagMoves, AttestationArrives, sealVars, SetTag, SetC8Tag, Seals
  <1>2. /\ tag' # NoFile => tag'.target \in 1..Len(commits)
        /\ c8tag' # NoFile => c8tag'.target \in 1..Len(commits)
    <2>1. CASE OperatorTags
      BY <2>1, StageFacts DEF OperatorTags, SetTag, SetC8Tag, HistoryInv, RefInv
    <2>2. CASE C8TagMoves
      <3>1. 3 \in 1..Len(commits) /\ Len(commits) \in Nat
        BY <2>2, StageFacts DEF C8TagMoves, Base
      <3>2. 2 \in 1..Len(commits)
        BY <3>1
      <3>3. QED
        BY <2>2, <3>1, <3>2 DEF C8TagMoves, SetC8Tag, HistoryInv, RefInv
    <2>3. CASE AttestationArrives \/ UNCHANGED sealVars
      BY <2>3 DEF AttestationArrives, sealVars, HistoryInv, RefInv
    <2>4. QED
      BY <2>1, <2>2, <2>3
  <1>3. QED
    BY <1>1, <1>2, StageFacts, SameCommits

\* The generated C9 manifest lies beside the seal.
LEMMA ManifestStep ==
    ASSUME HistoryInv, NEW c \in 1..Len(commits), CreateC9Manifest(c)
    PROVE  MovesSeals
  <1>1. PICK m : work' = [work EXCEPT !["manifest"] = m]
    BY DEF CreateC9Manifest
  <1>2. stage = "c9" /\ UNCHANGED <<commits, head, tag, c8tag, stage>>
    BY DEF CreateC9Manifest
  <1>3. IsTree(work') /\ \A q \in Paths \ {"manifest"} : work'[q] = work[q]
    <2>1. IsTree(work)
      BY StageFacts
    <2>2. QED
      BY <1>1, <2>1 DEF IsTree
  <1>4. work'[SealPath(stage)] \in Seals
    BY <1>2, <1>3 DEF Seals, SealPath, Paths
  <1>5. QED
    BY <1>2, <1>3, <1>4, SameCommits DEF HistoryInv, RefInv
-----------------------------------------------------------------------------
(* What a seal says stays true as the history grows *)

LEMMA CommitsStay ==
    ASSUME Extends, NEW c \in 1..Len(commits)
    PROVE  Tree(c)' = Tree(c) /\ Parent(c)' = Parent(c)
  BY DEF Extends, Tree, Parent

\* A seal that fits still fits when the history has grown.
LEMMA FitsStays ==
    ASSUME Extends, NEW s, NEW x, NEW c \in 1..Len(commits), Base(s) \in 1..Len(commits),
           SealFits(s, x, c)
    PROVE  SealFits(s, x, c)'
  <1>1. PICK b : b = Base(s)
    OBVIOUS
  <1>2. Tree(c)' = Tree(c) /\ Tree(b)' = Tree(b)
    BY <1>1, CommitsStay
  <1>3. Changed(b, c)' = Changed(b, c)
    BY <1>2 DEF Changed
  <1>4. StageChanges(s, c)' = StageChanges(s, c)
    BY <1>1, <1>3 DEF StageChanges, ChangedPathsC6, ChangedPaths
  <1>5. DiffIsNonEmpty(s, b, c)' = DiffIsNonEmpty(s, b, c)
    BY <1>3 DEF DiffIsNonEmpty
  <1>6. DiffCommitment(s, b, c)' = DiffCommitment(s, b, c)
    BY <1>2, <1>3 DEF DiffCommitment
  <1>7. TreeCommitment(s, c)' = TreeCommitment(s, c)
    BY <1>2 DEF TreeCommitment
  <1>8. QED
    BY <1>1, <1>2, <1>4, <1>5, <1>6, <1>7 DEF SealFits

\* A sealed commit has a parent, which is the covered commit.
LEMMA CoveredIsCommit ==
    ASSUME CommitInv, NEW s, NEW t \in 1..Len(commits), SealedAt(s, t)
    PROVE  /\ Tree(t)[SealPath(s)].covered \in 1..Len(commits)
           /\ Parent(t) = Tree(t)[SealPath(s)].covered /\ Parent(t) # 0
  <1>1. Parent(t) = Tree(t)[SealPath(s)].covered /\ Tree(t)[SealPath(s)] # NoFile
    BY DEF SealedAt
  <1>2. SealPath(s) \in Paths
    BY DEF SealPath, Paths
  <1>3. Parent(t) # 0
    BY <1>1, <1>2 DEF CommitInv, NoTree
  <1>4. Parent(t) \in 0..(t - 1)
    BY DEF CommitInv, ParentsFirst, Parent
  <1>5. Len(commits) \in Nat
    BY CommitCount
  <1>6. QED
    BY <1>1, <1>3, <1>4, <1>5

LEMMA SealedStays ==
    ASSUME CommitInv, Extends, NEW s, NEW t \in 1..Len(commits), Base(s) \in 1..Len(commits),
           SealedAt(s, t)
    PROVE  SealedAt(s, t)'
  <1>1. PICK x : x = Tree(t)[SealPath(s)]
    OBVIOUS
  <1>2. PICK c : c = x.covered
    OBVIOUS
  <1>3. c \in 1..Len(commits)
    BY <1>1, <1>2, CoveredIsCommit
  <1>4. Tree(t)' = Tree(t) /\ Parent(t)' = Parent(t) /\ Tree(c)' = Tree(c)
    BY <1>3, CommitsStay
  <1>5. Changed(c, t)' = Changed(c, t)
    BY <1>4 DEF Changed
  <1>6. SealFits(s, x, c)
    BY <1>1, <1>2 DEF SealedAt
  <1>7. SealFits(s, x, c)'
    BY <1>3, <1>6, FitsStays
  <1>8. QED
    BY <1>1, <1>2, <1>4, <1>5, <1>7 DEF SealedAt

LEMMA LiveStays ==
    ASSUME CommitInv, Extends, NEW live, NEW c \in 1..Len(commits), LiveHeadIsCovered(live, c)
    PROVE  LiveHeadIsCovered(live, c)' /\ live \in 1..Len(commits)
  <1>1. Len(commits) \in Nat /\ ParentsFirst(commits, Len(commits)) /\ c \in 0..Len(commits)
    BY CommitCount DEF CommitInv
  <1>2. live \in Ancestors(c) /\ Base("c9") \in Ancestors(live)
    BY DEF LiveHeadIsCovered, IsAncestor
  <1>3. live \in 1..Len(commits)
    BY <1>1, <1>2, AncestorsAreCommits
  <1>4. live \in 0..Len(commits)
    BY <1>1, <1>3
  <1>5. Ancestors(c)' = Ancestors(c) /\ Ancestors(live)' = Ancestors(live)
    BY <1>1, <1>4, AncestorsStay
  <1>6. QED
    BY <1>2, <1>3, <1>5 DEF LiveHeadIsCovered, IsAncestor

-----------------------------------------------------------------------------
(* Every seal there is, is one that create wrote *)

\* A seal fits the commit it covers; in C6 that commit descends from the base, in C9
\* it descends from the attested live head and the base carries the C8 seal that
\* its manifest names.
Genuine(s, x) ==
    /\ x.covered \in 1..Len(commits)
    /\ SealFits(s, x, x.covered)
    /\ s = "c6" => IsAncestor(Base(s), x.covered)
    /\ s = "c9" => /\ LiveHeadIsCovered(Tree(x.covered)["manifest"].live, x.covered)
                   /\ SealedAt("c8", 3)
                   /\ Tree(x.covered)["manifest"].c8 = C8Dependency(3)

\* Every seal of the stage, committed or in the worktree, is genuine.
SealsInv == \A x \in Seals : x # NoFile => Genuine(stage, x)

LEMMA GenuineStays ==
    ASSUME HistoryInv, Extends, NEW s, s = stage, NEW x, Genuine(s, x)
    PROVE  Genuine(s, x)'
  <1>1. PICK c : c = x.covered
    OBVIOUS
  <1>2. /\ CommitInv /\ Base(s) \in 1..Len(commits) /\ 1 \in 1..Len(commits) /\ Len(commits) \in Nat
    BY StageFacts DEF HistoryInv
  <1>3. c \in 1..Len(commits) /\ c \in 0..Len(commits) /\ c \in 1..Len(commits')
    BY <1>1, <1>2 DEF Genuine, Extends
  <1>4. SealFits(s, x, c)'
    BY <1>1, <1>2, <1>3, FitsStays DEF Genuine
  <1>5. s = "c6" => IsAncestor(Base(s), c)'
    BY <1>1, <1>3, AncestorsStay DEF Genuine, IsAncestor
  <1>6. ASSUME s = "c9"
        PROVE  /\ LiveHeadIsCovered(Tree(c)["manifest"].live, c)'
               /\ SealedAt("c8", 3)'
               /\ (Tree(c)["manifest"].c8 = C8Dependency(3))'
    <2>1. PICK live : live = Tree(c)["manifest"].live
      OBVIOUS
    <2>2. /\ LiveHeadIsCovered(live, c) /\ SealedAt("c8", 3)
          /\ Tree(c)["manifest"].c8 = C8Dependency(3)
      BY <1>1, <1>6, <2>1 DEF Genuine
    <2>3. LiveHeadIsCovered(live, c)'
      BY <1>2, <1>3, <2>2, LiveStays
    <2>4. Base("c8") \in 1..Len(commits) /\ 3 \in 1..Len(commits)
      BY <1>2, <1>6 DEF Base
    <2>5. SealedAt("c8", 3)'
      BY <1>2, <2>2, <2>4, SealedStays
    <2>6. Tree(c)' = Tree(c) /\ Tree(3)' = Tree(3)
      BY <1>3, <2>4, CommitsStay
    <2>7. C8Dependency(3)' = C8Dependency(3)
      BY <2>6 DEF C8Dependency
    <2>8. QED
      BY <2>1, <2>2, <2>3, <2>5, <2>6, <2>7
  <1>7. QED
    BY <1>1, <1>3, <1>4, <1>5, <1>6 DEF Genuine

\* A step that brings no new seal keeps them genuine.
LEMMA MovedSealsAreGenuine ==
    ASSUME HistoryInv, SealsInv, MovesSeals
    PROVE  SealsInv'
  <1>1. PICK s : s = stage
    OBVIOUS
  <1>2. Extends /\ stage' = s
    BY <1>1 DEF MovesSeals
  <1>3. ASSUME NEW x \in Seals, x # NoFile
        PROVE  Genuine(s, x)'
    BY <1>1, <1>2, <1>3, GenuineStays DEF SealsInv
  <1>4. \A x \in Seals' : x \in Seals
    BY <1>1, <1>2 DEF Seals, MovesSeals
  <1>5. QED
    BY <1>2, <1>3, <1>4 DEF SealsInv

\* What create writes fits the commit it was asked to cover.
LEMMA WrittenFits ==
    ASSUME NEW s, NEW c, NEW m, NEW changed,
           m = Tree(c)[ManifestPath(s)], ValidManifest(s, m),
           changed = StageChanges(s, c), changed = m.files, DiffIsNonEmpty(s, Base(s), c)
    PROVE  Seal(s, c, m, changed).covered = c /\ SealFits(s, Seal(s, c, m, changed), c)
  BY DEF Seal, SealFits

\* A step that writes a genuine seal into the worktree.
LEMMA WrittenIsGenuine ==
    ASSUME HistoryInv, SealsInv, NEW s, s = stage, NEW x, Genuine(s, x),
           work' = [work EXCEPT ![SealPath(s)] = x],
           UNCHANGED <<commits, head, tag, c8tag, stage>>
    PROVE  HistoryInv' /\ Extends /\ SealsInv'
  <1>1. IsTree(work')
    <2>1. IsTree(work)
      BY StageFacts
    <2>2. QED
      BY <2>1 DEF IsTree
  <1>2. HistoryInv' /\ Extends
    BY <1>1, SameCommits DEF HistoryInv, RefInv
  <1>3. work'[SealPath(s)] = x
    <2>1. IsTree(work) /\ SealPath(s) \in Paths
      BY StageFacts
    <2>2. QED
      BY <2>1 DEF IsTree
  <1>4. \A y \in Seals' : y \in Seals \/ y = x
    BY <1>3 DEF Seals, Tree
  <1>5. ASSUME NEW y \in Seals, y # NoFile
        PROVE  Genuine(s, y)'
    BY <1>2, <1>5, GenuineStays DEF SealsInv
  <1>6. Genuine(s, x)'
    BY <1>2, GenuineStays
  <1>7. QED
    BY <1>2, <1>4, <1>5, <1>6 DEF SealsInv

\* What C9's own check of the C8 seal compares is what the C8 tool compares.
LEMMA C8ExactMeans == HistoryInv => (C8SealExact <=> Verified("c8"))
  <1> SUFFICES ASSUME HistoryInv PROVE C8SealExact <=> Verified("c8")
    OBVIOUS
  <1> DEFINE t == c8tag.target
             seal == Tree(t)["c8seal"]
             m == Tree(seal.covered)["c8manifest"]
  <1>1. Verified("c8") <=> /\ c8tag # NoFile /\ c8tag.annotated
                           /\ SealedAt("c8", t) /\ IsAncestor(Base("c8"), head)
    BY DEF Verified, TagIsAnnotated, TagOf
  <1>2. ASSUME c8tag # NoFile, SealedAt("c8", t)
        PROVE  Parent(t) # 0
    <2>1. CommitInv /\ t \in 1..Len(commits)
      BY <1>2 DEF HistoryInv, RefInv
    <2>2. QED
      BY <1>2, <2>1, CoveredIsCommit
  <1>3. SealedAt("c8", t) <=>
          /\ seal # NoFile /\ Parent(t) = seal.covered /\ Changed(seal.covered, t) = {"c8seal"}
          /\ SealFits("c8", seal, seal.covered)
    BY DEF SealedAt, SealPath
  <1>4. SealFits("c8", seal, seal.covered) <=>
          /\ ManifestC8Valid(m) /\ seal.manifest = m /\ seal.att = m.att
          /\ Changed(Base("c8"), seal.covered) = m.files /\ seal.count = Cardinality(m.files)
          /\ DiffIsNonEmpty("c8", Base("c8"), seal.covered)
          /\ seal.diff = DiffCommitment("c8", Base("c8"), seal.covered)
          /\ seal.tree = TreeCommitment("c8", seal.covered)
    BY DEF SealFits, ManifestPath, ValidManifest, StageChanges, ChangedPaths
  <1>5. seal.diff = DiffCommitment("c8", Base("c8"), seal.covered) =>
          (DOMAIN seal.diff # {} <=> DiffIsNonEmpty("c8", Base("c8"), seal.covered))
    BY DEF DiffCommitment, DiffIsNonEmpty
  <1>6. Changed(seal.covered, t) = {"c8seal"} =>
          TreeCommitment("c8", seal.covered) = TreeCommitment("c8", t)
    BY OnlySealChanged DEF SealPath
  <1>7. C8SealExact <=>
          /\ c8tag # NoFile /\ c8tag.annotated
          /\ Parent(t) # 0 /\ seal # NoFile /\ seal.covered = Parent(t)
          /\ Changed(seal.covered, t) = {"c8seal"}
          /\ ManifestC8Valid(m) /\ seal.manifest = m /\ seal.att = m.att
          /\ Changed(Base("c8"), seal.covered) = m.files /\ seal.count = Cardinality(m.files)
          /\ seal.diff = DiffCommitment("c8", Base("c8"), seal.covered)
          /\ DOMAIN seal.diff # {}
          /\ TreeCommitment("c8", seal.covered) = TreeCommitment("c8", t)
          /\ TreeCommitment("c8", t) = seal.tree
          /\ IsAncestor(Base("c8"), head)
    BY DEF C8SealExact
  <1> HIDE DEF t, seal, m
  <1>8. QED
    BY <1>1, <1>2, <1>3, <1>4, <1>5, <1>6, <1>7

\* C6 reads the manifest from the worktree, which is clean.
LEMMA CreateC6Step ==
    ASSUME HistoryInv, SealsInv, CreateC6Seal
    PROVE  HistoryInv' /\ Extends /\ SealsInv'
  <1> DEFINE m == Tree(head)["manifest"]
             changed == StageChanges("c6", head)
             x == Seal("c6", head, m, changed)
  <1>1. /\ stage = "c6" /\ m = work["manifest"] /\ changed = ChangedPathsC6(Base("c6"), head)
        /\ IsAncestor(Base("c6"), head)
    BY DEF CreateC6Seal, Clean, StageChanges
  <1>2. /\ ManifestC6Valid(m) /\ changed = m.files /\ WriteSeal("c6", head, m, changed)
    BY <1>1 DEF CreateC6Seal
  <1>3. /\ x.covered = head /\ SealFits("c6", x, head)
    BY <1>2, WrittenFits DEF ManifestPath, ValidManifest, WriteSeal
  <1>4. Genuine("c6", x)
    BY <1>1, <1>3, StageFacts DEF Genuine
  <1>5. /\ work' = [work EXCEPT ![SealPath("c6")] = x]
        /\ UNCHANGED <<commits, head, tag, c8tag, stage>>
    BY <1>2 DEF WriteSeal
  <1> HIDE DEF x
  <1>6. QED
    BY <1>1, <1>4, <1>5, WrittenIsGenuine

LEMMA CreateC7C8Step ==
    ASSUME HistoryInv, SealsInv, NEW c \in 1..Len(commits), CreateC7Seal(c) \/ CreateC8Seal(c)
    PROVE  HistoryInv' /\ Extends /\ SealsInv'
  <1>1. PICK s : s = stage
    OBVIOUS
  <1> DEFINE m == Tree(c)[ManifestPath(s)]
             changed == StageChanges(s, c)
             x == Seal(s, c, m, changed)
  <1>2. s = "c7" \/ s = "c8"
    BY <1>1 DEF CreateC7Seal, CreateC8Seal
  <1>3. ValidManifest(s, m) /\ changed = m.files /\ WriteSeal(s, c, m, changed)
    BY <1>1, <1>2 DEF CreateC7Seal, CreateC8Seal, StageChanges, ManifestPath, ValidManifest
  <1>4. /\ x.covered = c /\ SealFits(s, x, c)
    BY <1>3, WrittenFits DEF WriteSeal
  <1>5. Genuine(s, x)
    BY <1>2, <1>4 DEF Genuine
  <1>6. /\ work' = [work EXCEPT ![SealPath(s)] = x]
        /\ UNCHANGED <<commits, head, tag, c8tag, stage>>
    BY <1>3 DEF WriteSeal
  <1> HIDE DEF x
  <1>7. QED
    BY <1>1, <1>5, <1>6, WrittenIsGenuine

\* C9 checks the C8 seal before it writes.
LEMMA CreateC9Step ==
    ASSUME HistoryInv, SealsInv, NEW c \in 1..Len(commits), CreateC9Seal(c)
    PROVE  HistoryInv' /\ Extends /\ SealsInv'
  <1> DEFINE m == Tree(c)["manifest"]
             changed == StageChanges("c9", c)
             x == Seal("c9", c, m, changed)
  <1>1. /\ stage = "c9" /\ ManifestC9Valid(m) /\ changed = m.files
        /\ LiveHeadIsCovered(m.live, c) /\ C8ManifestDependency(m)
        /\ WriteSeal("c9", c, m, changed)
    BY DEF CreateC9Seal, StageChanges
  <1>2. /\ x.covered = c /\ SealFits("c9", x, c)
    BY <1>1, WrittenFits DEF ManifestPath, ValidManifest, WriteSeal
  <1>3. SealedAt("c8", 3) /\ m.c8 = C8Dependency(3)
    <2>1. C8SealExact /\ c8tag.target = 3 /\ m.c8 = C8Dependency(3)
      BY <1>1 DEF C8ManifestDependency, Base
    <2>2. QED
      BY <2>1, C8ExactMeans DEF Verified, TagOf
  <1>4. Genuine("c9", x)
    <2> HIDE DEF x
    <2>1. QED
      BY <1>1, <1>2, <1>3 DEF Genuine
  <1>5. /\ work' = [work EXCEPT ![SealPath("c9")] = x]
        /\ UNCHANGED <<commits, head, tag, c8tag, stage>>
    BY <1>1 DEF WriteSeal
  <1> HIDE DEF x
  <1>6. QED
    BY <1>1, <1>4, <1>5, WrittenIsGenuine

-----------------------------------------------------------------------------
(* The invariant *)

LEMMA SealsInitHold == SealInit => SealsInv
  <1> SUFFICES ASSUME SealInit PROVE SealsInv
    OBVIOUS
  <1>1. stage \in AllStages
    BY SealAssumption DEF SealInit, AllStages
  <1>2. HistoryInv
    BY HistoryInitHolds
  <1>3. SealPath(stage) \in Paths
    BY <1>2, StageFacts
  <1>4. ASSUME NEW c \in 1..Len(commits)
        PROVE  Tree(c)[SealPath(stage)] = NoFile
    <2>1. CASE stage = "c9"
      <3>1. commits = C8History /\ SealPath(stage) = "seal"
        BY <2>1 DEF SealInit, SealPath
      <3>2. /\ Len(commits) = 3 /\ Tree(1) = NoTree /\ Tree(2) = C8Covered
            /\ Tree(3) = [C8Covered EXCEPT !["c8seal"] = C8SealFile]
        BY <3>1 DEF C8History, Tree
      <3>3. c = 1 \/ c = 2 \/ c = 3
        BY <3>2
      <3>4. NoTree["seal"] = NoFile /\ C8Covered["seal"] = NoFile
        BY DEF NoTree, C8Covered, Paths
      <3>5. [C8Covered EXCEPT !["c8seal"] = C8SealFile]["seal"] = C8Covered["seal"]
        BY DEF NoTree, C8Covered, Paths
      <3>6. QED
        BY <3>1, <3>2, <3>3, <3>4, <3>5
    <2>2. CASE stage # "c9"
      <3>1. Len(commits) = 1 /\ Tree(1) = NoTree
        BY <2>2 DEF SealInit, Tree
      <3>2. c = 1
        BY <3>1
      <3>3. QED
        BY <1>3, <3>1, <3>2 DEF NoTree
    <2>3. QED
      BY <2>1, <2>2
  <1>5. work = Tree(head) /\ head \in 1..Len(commits)
    BY <1>2, StageFacts DEF SealInit
  <1>6. \A x \in Seals : x = NoFile
    BY <1>4, <1>5 DEF Seals
  <1>7. QED
    BY <1>6 DEF SealsInv

\* Every step keeps the invariant and the commits that there are.
LEMMA SealStep ==
    ASSUME HistoryInv, SealsInv, [SealNext]_sealVars
    PROVE  HistoryInv' /\ SealsInv' /\ Extends /\ stage' = stage
  <1>1. CASE CreateC6Seal
    <2>1. stage' = stage
      BY <1>1 DEF CreateC6Seal, WriteSeal
    <2>2. QED
      BY <1>1, <2>1, CreateC6Step
  <1>2. ASSUME NEW c \in 1..Len(commits), CreateC7Seal(c) \/ CreateC8Seal(c) \/ CreateC9Seal(c)
        PROVE  HistoryInv' /\ SealsInv' /\ Extends /\ stage' = stage
    <2>1. stage' = stage
      BY <1>2 DEF CreateC7Seal, CreateC8Seal, CreateC9Seal, WriteSeal
    <2>2. QED
      BY <1>2, <2>1, CreateC7C8Step, CreateC9Step
  <1>3. ASSUME MovesSeals
        PROVE  HistoryInv' /\ SealsInv' /\ Extends /\ stage' = stage
    BY <1>3, MovedSealsAreGenuine DEF MovesSeals
  <1>4. ASSUME NEW c \in 1..Len(commits), CreateC9Manifest(c)
        PROVE  MovesSeals
    BY <1>4, ManifestStep
  <1>5. OperatorEdits \/ OperatorCommits \/ OperatorMovesHead => MovesSeals
    BY EditsStep, CommitsStep, MovesHeadStep
  <1>6. OperatorTags \/ C8TagMoves \/ AttestationArrives \/ UNCHANGED sealVars => MovesSeals
    BY RefsStep
  <1>7. QED
    BY <1>1, <1>2, <1>3, <1>4, <1>5, <1>6 DEF SealNext

\* In every reachable history the commits form a tree rooted in the base, HEAD and
\* the tags name commits, and every seal of the stage, in a commit or in the
\* worktree, is one that cN_seal create wrote for the commit it covers.
THEOREM EverySealIsGenuine == SealSpec => [](HistoryInv /\ SealsInv)
  <1>1. SealInit => HistoryInv /\ SealsInv
    BY HistoryInitHolds, SealsInitHold
  <1>2. HistoryInv /\ SealsInv /\ [SealNext]_sealVars => (HistoryInv /\ SealsInv)'
    BY SealStep
  <1>3. QED
    BY <1>1, <1>2, PTL DEF SealSpec

-----------------------------------------------------------------------------
(* The properties *)

LEMMA HeadReachesFirst == HistoryInv => IsAncestor(1, head)
  <1> SUFFICES ASSUME HistoryInv PROVE IsAncestor(1, head)
    OBVIOUS
  <1>1. /\ Len(commits) \in Nat /\ ParentsFirst(commits, Len(commits)) /\ head \in 1..Len(commits)
    BY StageFacts DEF HistoryInv, CommitInv
  <1>2. \A d \in 1..Len(commits) : commits[d].parent = 0 => d = 1
    BY DEF HistoryInv, CommitInv, Parent
  <1>3. QED
    BY <1>1, <1>2, FirstIsAncestor

\* What the reviewer's verification means, in one state.
LEMMA CurrentMeansReviewed ==
    ASSUME stage \in AllStages
    PROVE  VerifiedMeansReviewed
  <1> SUFFICES ASSUME Verify(stage, TRUE)
               PROVE  /\ Changed(Base(stage), head) \ {SealPath(stage)} =
                           Tree(SealedCommit)[ManifestPath(stage)].files
                      /\ \A p \in Paths \ {SealPath(stage)} : Tree(head)[p] = Tree(SealedCommit)[p]
    BY DEF VerifiedMeansReviewed
  <1> DEFINE seal == Tree(TagOf(stage).target)[SealPath(stage)]
             c == SealedCommit
             m == Tree(c)[ManifestPath(stage)]
  <1>1. /\ Verified(stage) /\ TreeCommitment(stage, head) = seal.tree
    BY VerifyCurrentMeans
  <1>2. SealFits(stage, seal, c)
    BY <1>1 DEF Verified, SealedAt, SealedCommit
  <1>3. /\ ValidManifest(stage, m) /\ StageChanges(stage, c) = m.files
        /\ seal.tree = TreeCommitment(stage, c)
    BY <1>2 DEF SealFits
  <1> HIDE DEF seal, c, m
  <1>4. TreeCommitment(stage, head) = TreeCommitment(stage, c)
    BY <1>1, <1>3
  <1>5. ASSUME NEW p \in Paths \ {SealPath(stage)}
        PROVE  Tree(head)[p] = Tree(c)[p]
    <2>1. /\ TreeCommitment(stage, head)[p] = Tree(head)[p]
          /\ TreeCommitment(stage, c)[p] = Tree(c)[p]
      BY DEF TreeCommitment
    <2>2. QED
      BY <1>4, <2>1
  <1>6. Changed(Base(stage), head) \ {SealPath(stage)} = Changed(Base(stage), c) \ {SealPath(stage)}
    BY <1>5 DEF Changed
  <1>7. Changed(Base(stage), c) \ {SealPath(stage)} = m.files
    <2>1. CASE stage = "c6"
      BY <1>3, <2>1 DEF StageChanges, ChangedPathsC6, SealPath
    <2>2. CASE stage \in {"c7", "c8", "c9"}
      <3>1. SealPath(stage) \notin m.files
        BY <1>3, <2>2 DEF ValidManifest, SealPath, ManifestC7Valid, ManifestC8Valid, ManifestC9Valid
      <3>2. Changed(Base(stage), c) = m.files
        BY <1>3, <2>2 DEF StageChanges, ChangedPaths
      <3>3. QED
        BY <3>1, <3>2
    <2>3. QED
      BY <2>1, <2>2 DEF AllStages
  <1>8. QED
    BY <1>5, <1>6, <1>7 DEF c, m

\* verify_cN_seal --require-current-tree accepts a HEAD only if the files that differ
\* between the stage's base and HEAD are those the covered commit's manifest lists, and
\* HEAD has the reviewed content everywhere but at the seal.
THEOREM CurrentVerificationIsReview == SealSpec => []VerifiedMeansReviewed
  <1>1. HistoryInv => VerifiedMeansReviewed
    BY StageFacts, CurrentMeansReviewed
  <1>2. QED
    BY <1>1, EverySealIsGenuine, PTL

\* Genuine seals are accepted, in one state.
LEMMA GenuineIsAccepted ==
    ASSUME HistoryInv, SealsInv
    PROVE  FreshSealVerifies
  <1> DEFINE t == TagOf(stage).target
             seal == Tree(t)[SealPath(stage)]
             m == Tree(seal.covered)["manifest"]
  <1> SUFFICES ASSUME TagIsAnnotated(TagOf(stage)), TagAddsOnlySeal(stage, TagOf(stage)),
                      IsAncestor(Base(stage), head),
                      stage = "c9" =>
                        LET n == Tree(Parent(t))["manifest"]
                        IN  /\ att # NoFile /\ ManifestOf(n.files, att) = n
                            /\ c8tag = [annotated |-> TRUE, target |-> Base("c9")]
               PROVE  Verify(stage, FALSE)
    BY DEF FreshSealVerifies
  <1>1. stage \in AllStages
    BY StageFacts
  <1>2. t \in 1..Len(commits)
    BY DEF HistoryInv, RefInv, TagIsAnnotated, TagOf
  <1>3. /\ seal # NoFile /\ Parent(t) = seal.covered /\ Changed(seal.covered, t) = {SealPath(stage)}
    BY DEF TagAddsOnlySeal
  <1>4. Genuine(stage, seal)
    BY <1>2, <1>3 DEF SealsInv, Seals
  <1>5. SealedAt(stage, t)
    BY <1>3, <1>4 DEF SealedAt, Genuine
  <1>6. stage = "c6" => IsAncestor(Base(stage), Tree(tag.target)["seal"].covered)
    BY <1>4 DEF Genuine, TagOf, SealPath
  <1>7. ASSUME stage = "c9" PROVE C9Holds(tag.target)
    <2>1. t = tag.target /\ seal = Tree(tag.target)["seal"] /\ m = SealedManifest("c9", tag.target)
      BY <1>7 DEF TagOf, SealPath, SealedManifest, ManifestPath
    <2>2. /\ att # NoFile /\ ManifestOf(m.files, att) = m
          /\ c8tag = [annotated |-> TRUE, target |-> Base("c9")]
      BY <1>3, <1>7
    <2>3. /\ LiveHeadIsCovered(m.live, seal.covered) /\ SealedAt("c8", 3)
          /\ m.c8 = C8Dependency(3)
      BY <1>4, <1>7 DEF Genuine
    <2> HIDE DEF t, seal, m
    <2>4. C8SealExact
      <3>1. c8tag \in [annotated : BOOLEAN, target : Nat] /\ c8tag.target = 3 /\ c8tag.annotated
        BY <2>2 DEF Base
      <3>2. IsAncestor(Base("c8"), head)
        BY HeadReachesFirst DEF Base
      <3>3. QED
        BY <2>3, <3>1, <3>2, C8ExactMeans, NoFileAssumption DEF Verified, TagIsAnnotated, TagOf
    <2>5. C8ManifestDependency(m)
      <3>1. c8tag.target = 3 /\ Base("c9") = 3
        BY <2>2 DEF Base
      <3>2. QED
        BY <2>3, <2>4, <3>1 DEF C8ManifestDependency, LiveHeadIsCovered
    <2>6. QED
      BY <2>1, <2>2, <2>3, <2>5 DEF C9Holds
  <1>8. Verified(stage)
    BY <1>5, <1>6, <1>7 DEF Verified
  <1>9. QED
    BY <1>1, <1>8, VerifyMeans

\* A seal that cN_seal create wrote, committed alone on its covered head under an
\* annotated tag, is accepted by cN_seal verify, whatever the operator did in between.
THEOREM FreshSealsAreAccepted == SealSpec => []FreshSealVerifies
  <1>1. HistoryInv /\ SealsInv => FreshSealVerifies
    BY GenuineIsAccepted
  <1>2. QED
    BY <1>1, EverySealIsGenuine, PTL

\* A verified seal stays verified when only the history grows and HEAD moves.
LEMMA VerifiedStays ==
    ASSUME HistoryInv, HistoryInv', Extends, stage' = stage, UNCHANGED <<tag, c8tag, att>>,
           IsAncestor(Base(stage), head)', Verified(stage)
    PROVE  Verified(stage)'
  <1>1. PICK s : s = stage
    OBVIOUS
  <1>2. PICK t : t = TagOf(s).target
    OBVIOUS
  <1>3. PICK x : x = Tree(t)[SealPath(s)]
    OBVIOUS
  <1>4. PICK c : c = x.covered
    OBVIOUS
  <1>5. /\ TagOf(s)' = TagOf(s) /\ CommitInv
        /\ Base(s) \in 1..Len(commits) /\ 1 \in 1..Len(commits) /\ Len(commits) \in Nat
    BY <1>1, StageFacts DEF HistoryInv, TagOf
  <1>6. TagIsAnnotated(TagOf(s)) /\ SealedAt(s, t)
    BY <1>1, <1>2 DEF Verified
  <1>7. t \in 1..Len(commits)
    BY <1>2, <1>6 DEF HistoryInv, RefInv, TagIsAnnotated, TagOf
  <1>8. c \in 1..Len(commits) /\ c \in 0..Len(commits)
    BY <1>3, <1>4, <1>5, <1>6, <1>7, CoveredIsCommit
  <1>9. SealedAt(s, t)'
    BY <1>5, <1>6, <1>7, SealedStays
  <1>10. Tree(t)' = Tree(t) /\ Tree(c)' = Tree(c)
    BY <1>7, <1>8, CommitsStay
  <1>11. s = "c6" => IsAncestor(Base(s), Tree(tag.target)["seal"].covered)'
    <2>1. Ancestors(c)' = Ancestors(c)
      BY <1>8, AncestorsStay
    <2>2. s = "c6" => tag.target = t /\ Tree(t)["seal"].covered = c
      BY <1>2, <1>3, <1>4 DEF TagOf, SealPath
    <2>3. s = "c6" => Base(s) \in Ancestors(c)
      BY <1>1, <2>2 DEF Verified, IsAncestor
    <2>4. s = "c6" => tag'.target = t /\ Tree(t)'["seal"].covered = c
      BY <1>10, <2>2
    <2>5. QED
      BY <2>1, <2>3, <2>4 DEF IsAncestor, Tree
  <1>12. ASSUME s = "c9"
         PROVE  C9Holds(tag.target)'
    <2>1. tag.target = t /\ Tree(t)["seal"] = x
      BY <1>2, <1>3, <1>12 DEF TagOf, SealPath
    <2>2. PICK m : m = Tree(c)["manifest"]
      OBVIOUS
    <2>3. PICK live : live = m.live
      OBVIOUS
    <2>4. SealedManifest("c9", t) = m
      BY <1>4, <2>1, <2>2 DEF SealedManifest, SealPath, ManifestPath
    <2>5. /\ LiveHeadIsCovered(live, c) /\ C8ManifestDependency(m)
          /\ att # NoFile /\ m = ManifestOf(m.files, att)
      BY <1>1, <1>4, <1>12, <2>1, <2>3, <2>4 DEF Verified, C9Holds
    <2>6. LiveHeadIsCovered(live, c)'
      BY <1>5, <1>8, <2>5, LiveStays
    <2>7. C8ManifestDependency(m)'
      <3>1. C8SealExact /\ c8tag.target = 3 /\ IsAncestor(3, live) /\ m.c8 = C8Dependency(3)
        BY <2>3, <2>5 DEF C8ManifestDependency, Base
      <3>2. TagIsAnnotated(c8tag) /\ SealedAt("c8", 3)
        BY <3>1, C8ExactMeans DEF Verified, TagOf
      <3>3. 3 \in 1..Len(commits) /\ Base("c8") \in 1..Len(commits)
        BY <1>5, <1>12 DEF Base
      <3>4. SealedAt("c8", 3)'
        BY <1>5, <3>2, <3>3, SealedStays
      <3>5. IsAncestor(1, head)'
        BY HeadReachesFirst, PTL
      <3>6. Verified("c8")'
        BY <3>1, <3>2, <3>4, <3>5 DEF Verified, TagOf, TagIsAnnotated, Base
      <3>7. C8SealExact'
        BY <3>6, C8ExactMeans, PTL
      <3>8. IsAncestor(3, live)'
        BY <2>6 DEF LiveHeadIsCovered, Base
      <3>9. C8Dependency(3)' = C8Dependency(3)
        BY <3>3, CommitsStay DEF C8Dependency
      <3>10. QED
        BY <2>3, <3>1, <3>7, <3>8, <3>9 DEF C8ManifestDependency, Base
    <2>8. SealedManifest("c9", t)' = m
      BY <1>4, <1>10, <2>1, <2>2 DEF SealedManifest, SealPath, ManifestPath, Tree
    <2>9. Tree(t)'["seal"].covered = c
      BY <1>4, <1>10, <2>1
    <2>10. QED
      BY <2>1, <2>3, <2>5, <2>6, <2>7, <2>8, <2>9 DEF C9Holds
  <1>13. QED
    BY <1>1, <1>2, <1>5, <1>6, <1>9, <1>11, <1>12 DEF Verified, TagIsAnnotated

LEMMA VerifyMeansNext ==
    (stage \in AllStages)' => (Verify(stage, FALSE)' <=> Verified(stage)')
  <1>1. stage \in AllStages => (Verify(stage, FALSE) <=> Verified(stage))
    BY VerifyMeans
  <1>2. QED
    BY <1>1, PTL

\* Once a seal verifies, no commit, checkout, edit or squash merge invalidates it while
\* HEAD descends from the base and the tags and the attestation file stay.
THEOREM EvidenceOutlivesBranch == SealSpec => SealOutlivesBranch
  <1> DEFINE Outlives == /\ Verify(stage, FALSE)
                         /\ UNCHANGED <<tag, c8tag, att>>
                         /\ IsAncestor(Base(stage), head)'
                         => Verify(stage, FALSE)'
  <1>1. HistoryInv /\ SealsInv /\ [SealNext]_sealVars => [Outlives]_sealVars
    <2> SUFFICES ASSUME HistoryInv, SealsInv, [SealNext]_sealVars,
                        Verify(stage, FALSE), UNCHANGED <<tag, c8tag, att>>,
                        IsAncestor(Base(stage), head)'
                 PROVE  Verify(stage, FALSE)'
      OBVIOUS
    <2>1. HistoryInv' /\ Extends /\ stage' = stage /\ stage \in AllStages
      BY SealStep, StageFacts
    <2>2. Verified(stage)
      BY <2>1, VerifyMeans
    <2>3. Verified(stage)'
      BY <2>1, <2>2, VerifiedStays
    <2>4. QED
      BY <2>1, <2>3, VerifyMeansNext
  <1>2. QED
    BY <1>1, EverySealIsGenuine, PTL DEF SealSpec, SealOutlivesBranch
=============================================================================
