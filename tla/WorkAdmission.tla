--------------------------- MODULE WorkAdmission ----------------------------
(***************************************************************************)
(* The C7 pre-live decision (c7_work_admission.py) and the C8 governance   *)
(* check (c8_governance.py) as operators: what the committed profile and   *)
(* policy, the clock and a live-cycle grant imply for the one tool that    *)
(* can be admitted.  Times are clock ticks; a window [at, to) includes its *)
(* start and excludes its end, as in the code.  An HMAC that verifies is   *)
(* one that was produced under the process key: the models that use this   *)
(* module only hold documents the tools produced, so it is not a field.    *)
(***************************************************************************)
EXTENDS Naturals

CONSTANTS MaxObservationAge,  \* C7_MAX_WORK_OBSERVATION_AGE_SECONDS, 300 s
          MaxGrant,           \* C7_MAX_LIVE_CYCLE_SECONDS, 1200 s
          WarningPeriod,      \* the profile's revalidation warning days
          GovernanceExpiry    \* revalidate_after of the C8 revalidation

In(t, w) == w.at <= t /\ t < w.to

\* lifecycle_for
Lifecycle(profile, t) ==
  CASE t >= profile.revalidateAfter                 -> "expired"
    [] t + WarningPeriod >= profile.revalidateAfter /\ t < profile.revalidateAfter
                                                    -> "revalidation_due"
    [] OTHER                                        -> "current"

\* C8LiveCycleGrant.validate_grant: checked whenever a grant is parsed.
GrantWellFormed(g) ==
  /\ g.at < g.to
  /\ g.to - g.at <= MaxGrant
  /\ \A seen \in {g.surfaceAt, g.quotaAt} :
       seen <= g.at /\ g.at - seen <= MaxObservationAge

\* The grant part of evaluate_c7_prelive.
GrantVerified(g, profile, t) ==
  /\ g.profile = profile.sha
  /\ In(t, g)
  /\ t <= g.surfaceAt + MaxObservationAge
  /\ t <= g.quotaAt + MaxObservationAge

\* The status and reason of evaluate_c7_prelive with a grant, in its order.
C7Prelive(profile, policy, g, t) ==
  CASE profile.identity # policy.identity           -> "identity_mismatch"
    [] profile.identity = policy.identity /\ profile.sha # policy.profileSha
                                                    -> "invariant_failed"
    [] OTHER ->
       CASE profile.support # "supported"           -> profile.support
         [] profile.support = "supported" /\ Lifecycle(profile, t) # "current"
                                                    -> Lifecycle(profile, t)
         [] OTHER -> IF GrantVerified(g, profile, t) THEN "grant_verified"
                                                     ELSE "grant_invalid"

LiveActionsAllowed(profile, policy, g, t) ==
  C7Prelive(profile, policy, g, t) = "grant_verified"

\* verify_committed_c8_governance: the committed files are the reviewed ones,
\* so what can fail at run time is the expiry.
GovernanceCurrent(t) == t < GovernanceExpiry
=============================================================================
