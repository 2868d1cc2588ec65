--------------------------- MODULE ContextPolicy ----------------------------
(***************************************************************************)
(* The choice of Chat or Work for a request (providers/context_policy) and *)
(* the rules a decision must meet to be built at all                       *)
(* (ExperienceSelectionDecision in providers/context_models).  A decision  *)
(* is [selected, reason, fallback]; where the code raises, it is Raises.   *)
(***************************************************************************)
EXTENDS Integers

CONSTANT MaxAge     \* work_quota_max_age

ExperienceRequestKind == {"auto", "chat", "work"}

Decision(selected, reason, fallback) ==
    [selected |-> selected, reason |-> reason, fallback |-> fallback]

ChatFallback(reason) == Decision("chat", reason, TRUE)

Raises == Decision("none", "raises", FALSE)

\* Mutant: any account's quota will do.
QuotaMismatchAnyAccount(account, quota, at) ==
    quota.dimension # "work_agentic" \/ quota.at > at

\* The quota offered is not this account's, not of the work dimension, or newer
\* than the decision.
QuotaMismatch(account, quota, at) ==
    \/ quota.account # account.id
    \/ quota.dimension # "work_agentic"
    \/ quota.at > at

QuotaDecision(state) ==
    CASE state = "available"                       -> Decision("work", "work_available", FALSE)
      [] state = "near_limit"                      -> Decision("work", "work_near_limit", FALSE)
      [] state \in {"exhausted", "reset_pending"}  -> ChatFallback("work_quota_exhausted")
      [] state = "unavailable"                     -> ChatFallback("work_quota_unavailable")
      [] state = "unknown"                         -> ChatFallback("work_quota_unknown")

WorkDecision(account, quota, at) ==
    CASE account.work = "unsupported"              -> ChatFallback("work_unsupported")
      [] account.work = "unknown"                  -> ChatFallback("work_unknown")
      [] account.work = "supported" ->
          IF quota.id = "none" THEN ChatFallback("work_quota_missing")
          ELSE IF QuotaMismatch(account, quota, at) THEN Raises
          ELSE IF at - quota.at > MaxAge THEN ChatFallback("work_quota_stale")
          ELSE QuotaDecision(quota.state)

\* The request is made for the account in hand and evaluated at once, and the maximal
\* age is positive (MaxAge), so the guards on those raise for no argument here.
SelectChatgptExperience(account, requested, quota, at) ==
    CASE account.updated > at                      -> Raises
      [] account.updated <= at /\ account.avail = "unknown" ->
            Decision("none", "account_unknown", FALSE)
      [] account.updated <= at /\ account.avail \in {"unavailable", "degraded"} ->
            Decision("none", "account_unavailable", FALSE)
      [] account.updated <= at /\ account.avail = "available" ->
            CASE requested = "auto"                -> Decision("chat", "default_chat", FALSE)
              [] requested = "chat"                -> Decision("chat", "explicit_chat", FALSE)
              [] requested = "work"                -> WorkDecision(account, quota, at)

\* validate_decision: a decision that breaks this cannot be constructed.
ValidDecision(d) ==
    /\ d.reason \in {"account_unavailable", "account_unknown"} =>
        d.selected = "none" /\ ~d.fallback
    /\ d.reason \in {"default_chat", "explicit_chat"} =>
        d.selected = "chat" /\ ~d.fallback
    /\ d.reason \in {"work_available", "work_near_limit"} =>
        d.selected = "work" /\ ~d.fallback
    /\ d.reason \in {"work_unsupported", "work_unknown", "work_quota_missing",
                     "work_quota_exhausted", "work_quota_unavailable",
                     "work_quota_unknown", "work_quota_stale"} =>
        d.selected = "chat" /\ d.fallback
=============================================================================
