---------------------------- MODULE C8LiveCycle -----------------------------
(***************************************************************************)
(* The C8 live cycle: the operator's command line (c8_live_cycle.py), the  *)
(* start of the facade in chatgpt_work_c8 mode (main.py), the probe calls  *)
(* it serves, and the proof check (c8_proof_check.py).  Every command      *)
(* reads documents from files and prints one, so the operator may run them *)
(* in any order, at any time, with documents of different cycles and       *)
(* grants; only commit-final decides whether they make one attestation.    *)
(* The facade is admitted once, when it starts, and then serves until it   *)
(* is stopped: a call may well come after the grant has expired.  What     *)
(* was answered reaches the proof check in a file that the operator        *)
(* writes, and only its audit id is looked up in the log.                  *)
(*                                                                         *)
(* The dates that the commands let the operator give (--authorized-at,     *)
(* --observed-at, --issued-at, --verified-at) have their default, the      *)
(* clock; HEAD, the local policy and the tool snapshot are one throughout. *)
(***************************************************************************)
EXTENDS WorkAdmission, FiniteSets, Sequences

CONSTANTS Cycles, Grants, \* identifiers the operator gives
          Bundles,        \* files that hold a live-cycle bundle
          OtherCycle,     \* a cycle of an earlier day, which only a report names
          Profiles,       \* committed profiles to explore
          Policy,         \* the committed policy
          MaxAuthorization, TaskTTL, ChallengeTTL,
          Leeway,         \* how much a response may predate its challenge and task
          Skew,           \* how far in the future a response may be dated
          AuthLengths, GrantLengths,   \* the lifetimes an operator asks for
          MaxTime, MaxCalls,           \* bounds
          None

\* WorkSupportState, and lengths of time.
ASSUME C8Assumption ==
  /\ AuthLengths \subseteq Nat /\ GrantLengths \subseteq Nat
  /\ WarningPeriod \in Nat /\ Skew \in Nat
  /\ \A p \in Profiles : /\ p.support \in {"supported", "unsupported", "unobservable"}
                         /\ p.revalidateAfter \in Nat

Labels == {"a", "b"}

VARIABLES now, profile,
          auth,        \* authorization receipt of each cycle
          surface, quota,   \* latest UI observations of each cycle
          bundle,      \* live-cycle bundle in each file
          facade,      \* whether the facade runs in chatgpt_work_c8 mode
          calls,       \* completed audit records of probe calls, oldest first: the
                       \* time that the facade gave in its answer
          task,        \* task-surface observation of each label
          proof,       \* accepted proof of each label
          negative, revocation, final

docs == <<auth, surface, quota, bundle, task, proof, negative, revocation, final>>
vars == <<now, profile, auth, surface, quota, bundle, facade, calls,
          task, proof, negative, revocation, final>>

----------------------------------------------------------------------------
(* authorize, observe-surface, observe-quota, observe-task-surface *)

\* _validate_window
ValidWindow(w, maximum) == w.at < w.to /\ w.to - w.at <= maximum

\* C8OperatorAuthorizationReceipt: its scope is fixed, its window is not.
Authorization(c, length) == [cycle |-> c, at |-> now, to |-> now + length]

Authorize(c, length) ==
  LET a == Authorization(c, length)
  IN  /\ auth[c] = None
      /\ ValidWindow(a, MaxAuthorization)
      /\ auth' = [auth EXCEPT ![c] = a]
      /\ UNCHANGED <<now, profile, surface, quota, bundle, facade,
                     calls, task, proof, negative, revocation, final>>

\* The commands write new files and know nothing of old ones.  One document
\* of each kind per cycle and per task is explored: repeating a command is
\* taking it at another time.  The operator follows the written procedure as
\* far as it orders documents of one cycle: authorization, surface, quota, and
\* task A before task B; the clock may tick, and the other cycle may go on, in
\* between.
Observation(c) == [cycle |-> c, at |-> now, to |-> now + MaxObservationAge]

ObserveSurface(c) ==
  /\ surface[c] = None /\ auth[c] # None
  /\ surface' = [surface EXCEPT ![c] = Observation(c)]
  /\ UNCHANGED <<now, profile, auth, quota, bundle, facade, calls,
                 task, proof, negative, revocation, final>>

ObserveQuota(c) ==
  /\ quota[c] = None /\ surface[c] # None
  /\ quota' = [quota EXCEPT ![c] = Observation(c)]
  /\ UNCHANGED <<now, profile, auth, surface, bundle, facade, calls,
                 task, proof, negative, revocation, final>>

\* C8WorkTaskSurfaceObservation: one fresh task, under one grant.
TaskSurface(c, g, l) ==
  [cycle |-> c, grant |-> g, label |-> l, at |-> now, to |-> now + TaskTTL]

ObserveTask(c, g, l) ==
  /\ \E f \in Bundles : bundle[f] # None
  /\ task[l] = None
  /\ l = "b" => task["a"] # None
  /\ task' = [task EXCEPT ![l] = TaskSurface(c, g, l)]
  /\ UNCHANGED <<now, profile, auth, surface, quota, bundle, facade,
                 calls, proof, negative, revocation, final>>

----------------------------------------------------------------------------
(* issue-grant, and the admission it shares with the facade *)

\* C8LiveCycleBundle.validate_bindings: one cycle, and the grant names the
\* two observations it was issued for.
BundleBound(b) ==
  /\ b.auth.cycle = b.surface.cycle /\ b.auth.cycle = b.quota.cycle
  /\ b.grant.surfaceAt = b.surface.at
  /\ b.grant.quotaAt = b.quota.at

\* evaluate_c8_admission
C8Admission(b, t) ==
  CASE ~In(t, b.auth)                                  -> "authorization"
    [] In(t, b.auth) /\ ~In(t, b.surface)              -> "surface"
    [] In(t, b.auth) /\ In(t, b.surface) /\ ~In(t, b.quota) -> "quota"
    [] OTHER -> IF LiveActionsAllowed(profile, Policy, b.grant, t)
                THEN "complete" ELSE "invariant"

\* verify_live_cycle_bundle
BundleAdmitted(b, t) == GovernanceCurrent(t) /\ C8Admission(b, t) = "complete"

GrantFits(a, to) == to <= a.to

\* The grant takes the windows of its observations with it.
Bundle(a, s, q, g, length) ==
  [auth |-> a, surface |-> s, quota |-> q,
   grant |-> [id |-> g, profile |-> profile.sha, at |-> now, to |-> now + length,
              surfaceAt |-> s.at, quotaAt |-> q.at]]

\* Nothing knows of the other bundles: one grant id may be issued twice.
IssueGrant(ca, cs, cq, f, g, length) ==
  LET a == auth[ca]
      s == surface[cs]
      q == quota[cq]
      b == Bundle(a, s, q, g, length)
  IN  /\ bundle[f] = None
      /\ a # None /\ s # None /\ q # None
      /\ GovernanceCurrent(now)
      /\ In(now, a) /\ In(now, s) /\ In(now, q)
      /\ ca = cs /\ ca = cq
      /\ GrantFits(a, now + length)
      /\ GrantWellFormed(b.grant)
      /\ BundleBound(b)
      /\ C8Admission(b, now) = "complete"
      /\ bundle' = [bundle EXCEPT ![f] = b]
      /\ UNCHANGED <<now, profile, auth, surface, quota, facade,
                     calls, task, proof, negative, revocation, final>>

----------------------------------------------------------------------------
(* The facade and its calls *)

StartFacade(f) ==
  /\ ~facade /\ Len(calls) < MaxCalls
  /\ bundle[f] # None
  /\ BundleAdmitted(bundle[f], now)
  /\ facade' = TRUE
  /\ UNCHANGED <<now, profile, calls, docs>>

\* Bound: after the last call it makes no difference whether the facade still runs.
StopFacade ==
  /\ facade /\ Len(calls) < MaxCalls
  /\ facade' = FALSE
  /\ UNCHANGED <<now, profile, calls, docs>>

\* One probe call.  The probe refuses a challenge it has seen, so an accepted call
\* leaves exactly one completed audit record.
Call ==
  /\ facade
  /\ Len(calls) < MaxCalls
  /\ calls' = Append(calls, now)
  /\ UNCHANGED <<now, profile, facade, docs>>

----------------------------------------------------------------------------
(* c8_proof_check *)

\* C0ConnectivityProbeResponse as the operator's file has it: which audit record, when
\* it was answered and for which challenge.  Nothing else says so: the record's own time
\* is not compared, and a challenge is named by the task it was made for.
Responses == [record : 1..Len(calls), at : 0..(now + Skew), challenge : Labels]

\* The challenge file, dated when it was written, is recent and not after the response.
ChallengeFits(r) ==
  \E written \in 0..now : now - written <= ChallengeTTL /\ written <= r.at + Leeway

ResponseFitsTask(r, seen) == seen.at <= r.at + Leeway /\ r.at < seen.to

\* C8WorkCallObservation and the C8WorkCorrelationReceipt that commits to it: the
\* call has the date of the response file.
Correlated(b, seen, r) ==
  [cycle |-> b.auth.cycle, grant |-> b.grant.id, label |-> seen.label, task |-> seen,
   record |-> r.record, at |-> r.at, challenge |-> r.challenge]

CheckProof(f, l, r) ==
  LET b == bundle[f]
      seen == task[l]
  IN  /\ b # None /\ seen # None /\ proof[l] = None
      /\ seen.cycle = b.auth.cycle /\ seen.grant = b.grant.id
      /\ In(seen.at, b.grant)
      /\ ChallengeFits(r)
      /\ ResponseFitsTask(r, seen)
      /\ In(r.at, b.grant)
      /\ BundleAdmitted(b, b.grant.at)
      /\ proof' = [proof EXCEPT ![l] = Correlated(b, seen, r)]
      /\ UNCHANGED <<now, profile, auth, surface, quota, bundle, facade,
                     calls, task, negative, revocation, final>>

----------------------------------------------------------------------------
(* commit-negative, commit-revocation, commit-final *)

\* C8NegativeTestReceipt, its eleven outcomes being the required ones, and
\* C8RevocationReceipt: cycle and grant are the operator's words.
NegativeReceipt(c, g) == [cycle |-> c, grant |-> g, at |-> now]
RevocationReceipt(c, g) == [cycle |-> c, grant |-> g, at |-> now]

\* The operator reports the negative tests and the revocation once, for the cycle and
\* grant of his choice.  Bound: after the proofs, since each command only dates a file;
\* a response dated in the future stands for a report made before the call.
Proved == \A l \in Labels : proof[l] # None

CommitNegative(c, g) ==
  /\ negative = None /\ Proved
  /\ negative' = NegativeReceipt(c, g)
  /\ UNCHANGED <<now, profile, auth, surface, quota, bundle, facade,
                 calls, task, proof, revocation, final>>

CommitRevocation(c, g) ==
  /\ revocation = None /\ Proved
  /\ revocation' = RevocationReceipt(c, g)
  /\ UNCHANGED <<now, profile, auth, surface, quota, bundle, facade,
                 calls, task, proof, negative, final>>

\* C8WorkProofBundle.validate_bundle
ProofBound(p) ==
  p.task.cycle = p.cycle /\ p.task.grant = p.grant /\ p.task.label = p.label

OneCycle(b, pa, pb, neg, rev) ==
  {b.surface.cycle, b.quota.cycle, pa.cycle, pb.cycle, neg.cycle, rev.cycle} = {b.auth.cycle}

OneGrant(b, pa, pb, neg, rev) == {pa.grant, pb.grant, neg.grant, rev.grant} = {b.grant.id}

CallInWindows(p, g) ==
  /\ In(p.task.at, g)
  /\ In(p.at, g)
  /\ In(p.at, p.task)

\* Mutant: two challenges are taken for two calls.
CallsDistinctByChallenge(pa, pb) == pa.challenge # pb.challenge

CallsDistinct(pa, pb) == pa.record # pb.record /\ pa.challenge # pb.challenge

Chronology(pa, pb, neg, rev, t) ==
  /\ pa.at <= neg.at /\ pb.at <= neg.at
  /\ neg.at <= rev.at
  /\ rev.at <= t

\* Mutant: the attestation still asks for an active grant.
FinalAcceptsActive(b, pa, pb, neg, rev, t) ==
  /\ b # None /\ pa # None /\ pb # None /\ neg # None /\ rev # None
  /\ In(t, b.grant)
  /\ OneCycle(b, pa, pb, neg, rev) /\ OneGrant(b, pa, pb, neg, rev)
  /\ CallInWindows(pa, b.grant) /\ CallInWindows(pb, b.grant)
  /\ CallsDistinct(pa, pb)
  /\ Chronology(pa, pb, neg, rev, t)

\* commit_final_attestation: of the bundle it reads only what is compared here.
FinalAccepts(b, pa, pb, neg, rev, t) ==
  /\ b # None /\ pa # None /\ pb # None /\ neg # None /\ rev # None
  /\ ProofBound(pa) /\ ProofBound(pb)
  /\ pa.label = "a" /\ pb.label = "b"
  /\ OneCycle(b, pa, pb, neg, rev)
  /\ OneGrant(b, pa, pb, neg, rev)
  /\ CallInWindows(pa, b.grant) /\ CallInWindows(pb, b.grant)
  /\ CallsDistinct(pa, pb)
  /\ Chronology(pa, pb, neg, rev, t)

\* C8FinalAttestation: the digests of the documents it was made from.
Attestation(f) ==
  [bundle |-> bundle[f], a |-> proof["a"], b |-> proof["b"],
   negative |-> negative, revocation |-> revocation, at |-> now]

CommitFinal(f) ==
  /\ final = None
  /\ FinalAccepts(bundle[f], proof["a"], proof["b"], negative, revocation, now)
  /\ final' = Attestation(f)
  /\ UNCHANGED <<now, profile, auth, surface, quota, bundle, facade,
                 calls, task, proof, negative, revocation>>

Tick == now < MaxTime /\ now' = now + 1
        /\ UNCHANGED <<profile, facade, calls, docs>>

Init ==
  /\ now = 0
  /\ profile \in Profiles
  /\ auth = [c \in Cycles |-> None]
  /\ surface = [c \in Cycles |-> None]
  /\ quota = [c \in Cycles |-> None]
  /\ bundle = [f \in Bundles |-> None]
  /\ facade = FALSE
  /\ calls = <<>>
  /\ task = [l \in Labels |-> None]
  /\ proof = [l \in Labels |-> None]
  /\ negative = None /\ revocation = None /\ final = None

\* main: each command, and the facade, at any time.
Next ==
  \/ \E c \in Cycles : \/ \E n \in AuthLengths : Authorize(c, n)
                       \/ ObserveSurface(c)
                       \/ ObserveQuota(c)
  \/ \E c, d, e \in Cycles, f \in Bundles, g \in Grants, n \in GrantLengths :
       IssueGrant(c, d, e, f, g, n)
  \/ \E f \in Bundles : StartFacade(f) \/ CommitFinal(f)
  \/ StopFacade
  \/ Call
  \/ \E c \in Cycles, g \in Grants :
       \E l \in Labels : ObserveTask(c, g, l)
  \/ \E c \in Cycles \cup {OtherCycle}, g \in Grants :
       CommitNegative(c, g) \/ CommitRevocation(c, g)
  \/ \E f \in Bundles, l \in Labels, r \in Responses : CheckProof(f, l, r)
  \/ Tick

Spec == Init /\ [][Next]_vars

----------------------------------------------------------------------------
(* Properties *)

\* The response files say when the facade answered.
ResponsesAreGenuine == \A p \in {final.a, final.b} : calls[p.record] = p.at

\* A final attestation speaks of two distinct calls on record, dated inside the grant
\* and the authorization of their own cycle, with a profile that was supported and
\* current when the grant was issued on observations no older than MaxObservationAge;
\* each follows its task and precedes the negative tests, those the revocation.  If
\* the response files are genuine, the calls were served then: neither the facade,
\* which is admitted only once, nor a bundle issued again under the same grant id, nor
\* evidence of another cycle can widen it.  The premise is needed: the facade goes on
\* serving after the grant, and check-proof does not read the audit record's time.
AttestationIsTrue ==
  final # None =>
    /\ \A p \in {final.a, final.b} :
         /\ p.record \in 1..Len(calls)
         /\ In(p.at, final.bundle.grant) /\ In(p.at, auth[p.cycle])
         /\ p.task.at <= p.at /\ p.at <= final.negative.at
    /\ final.a.record # final.b.record
    /\ final.negative.at <= final.revocation.at /\ final.revocation.at <= final.at
    /\ profile.support = "supported"
    /\ Lifecycle(profile, final.bundle.grant.at) = "current"
    /\ final.bundle.grant.at - final.bundle.surface.at <= MaxObservationAge
    /\ ResponsesAreGenuine =>
         \A p \in {final.a, final.b} :
           In(calls[p.record], final.bundle.grant) /\ In(calls[p.record], auth[p.cycle])

\* ADR 0015: historical evidence does not become false because its window
\* closes.  Documents commit-final accepts now, it accepts at any later time.
EvidenceDoesNotExpire ==
  [][\A f \in Bundles :
       /\ FinalAccepts(bundle[f], proof["a"], proof["b"], negative, revocation, now)
       /\ UNCHANGED <<bundle[f], proof, negative, revocation>>
       => FinalAccepts(bundle[f], proof["a"], proof["b"], negative, revocation, now)']_vars
=============================================================================
