----------------------------- MODULE ReplayGuard -----------------------------
(***************************************************************************)
(* The persistent replay guard of the gateway (auth.py): verify_task and   *)
(* SQLiteReplayGuard.check_and_mark, called concurrently by request        *)
(* threads of one or more gateway processes that share the database.       *)
(*                                                                         *)
(* A call reads the wall clock twice: once in verify_task, for the         *)
(* envelope's time window, and once at the top of check_and_mark, BEFORE   *)
(* it waits for SQLite's write lock (BEGIN IMMEDIATE, busy timeout 5 s).   *)
(* The transaction prunes and tests with that second, possibly stale,      *)
(* value, so reading the clock and running the transaction are two steps.  *)
(***************************************************************************)
EXTENDS Integers, FiniteSets

CONSTANTS
    Call,              \* invocations of verify_task, one per received envelope
    Task,              \* distinct signed envelopes an agent can present
    Nonce,             \* nonce fingerprints (nonce_hmac is injective)
    NonceOf,           \* the envelope's nonce
    IssuedAt,          \* the envelope's issued_at
    ExpiresAt,         \* the envelope's expires_at
    SignatureValid,    \* does the envelope carry the HMAC of its own payload
    MaxEntries,        \* max_entries
    MaxClockSkew,      \* max_clock_skew_seconds
    MaxTaskLifetime,   \* max_task_lifetime_seconds
    MaxClock           \* bound on the clock, for model checking

\* TaskEnvelope.validate_time_window refuses expires_at <= issued_at, and the
\* guard's constructor refuses max_entries < 1.
ASSUME ReplayAssumption ==
    /\ NonceOf \in [Task -> Nonce]
    /\ IssuedAt \in [Task -> Nat]
    /\ ExpiresAt \in [Task -> Nat]
    /\ SignatureValid \in [Task -> BOOLEAN]
    /\ \A t \in Task : IssuedAt[t] < ExpiresAt[t]
    /\ MaxEntries \in Nat \ {0}
    /\ MaxClockSkew \in Nat
    /\ MaxTaskLifetime \in Nat
    /\ MaxClock \in Nat

VARIABLES
    clock,    \* the host's wall clock, assumed never to be set back
    seen,     \* rows of the table seen_nonces
    vpc,      \* control state of each call
    vtask,    \* the envelope each call verifies
    vnow      \* now_us, as each call read it before its transaction

rgVars == <<clock, seen, vpc, vtask, vnow>>

Row == [nonce : Nonce, expires : Nat]

\* "idle": not called yet.  "checked": verify_task's own tests passed.
\* "waiting": now_us is read, waiting for the write lock.
CallState == {"idle", "checked", "waiting",
              "accepted", "rejected", "unavailable", "crashed"}

TypeOK ==
    /\ clock \in Nat
    /\ seen \in SUBSET Row
    /\ vpc \in [Call -> CallState]
    /\ vtask \in [Call -> Task]
    /\ vnow \in [Call -> Nat]

Init ==
    /\ clock = 0
    /\ seen = {}
    /\ vpc = [c \in Call |-> "idle"]
    /\ vtask \in [Call -> Task]
    /\ vnow = [c \in Call |-> 0]

-----------------------------------------------------------------------------
(* verify_task *)

\* The tests of verify_task that precede the replay guard.
Verifiable(t, now) ==
    /\ ExpiresAt[t] - IssuedAt[t] <= MaxTaskLifetime
    /\ ExpiresAt[t] > now
    /\ IssuedAt[t] - now <= MaxClockSkew
    /\ SignatureValid[t]

\* A call starts: verify_task's tests against its own reading of the clock.
VerifyTask(c) ==
    /\ vpc[c] = "idle"
    /\ vpc' = [vpc EXCEPT ![c] = IF Verifiable(vtask[c], clock)
                                 THEN "checked" ELSE "rejected"]
    /\ UNCHANGED <<clock, seen, vtask, vnow>>

(* SQLiteReplayGuard.check_and_mark *)

\* The second reading of the clock, and the early return on an expired task.
ReadNow(c) ==
    /\ vpc[c] = "checked"
    /\ vpc' = [vpc EXCEPT ![c] = IF ExpiresAt[vtask[c]] <= clock
                                 THEN "rejected" ELSE "waiting"]
    /\ vnow' = [vnow EXCEPT ![c] = clock]
    /\ UNCHANGED <<clock, seen, vtask>>

\* Mutants: a capacity test off by one; a test for the nonce that is lost.
FullLate(rows) == Cardinality(rows) > MaxEntries
KnownNever(rows, t) == FALSE

\* What DELETE ... WHERE expires_at_us <= now leaves.
Unexpired(rows, now) == {r \in rows : r.expires > now}

Known(rows, t) == \E r \in rows : r.nonce = NonceOf[t]

Full(rows) == Cardinality(rows) >= MaxEntries

RowFor(t) == [nonce |-> NonceOf[t], expires |-> ExpiresAt[t]]

\* The transaction commits: prune, no such nonce, room left, insert.
Accept(c) ==
    /\ vpc[c] = "waiting"
    /\ LET kept == Unexpired(seen, vnow[c]) IN
        /\ ~Known(kept, vtask[c])
        /\ ~Full(kept)
        /\ seen' = kept \cup {RowFor(vtask[c])}
    /\ vpc' = [vpc EXCEPT ![c] = "accepted"]
    /\ UNCHANGED <<clock, vtask, vnow>>

\* The nonce is known: ValueError, and the rollback undoes the pruning too.
RejectReplay(c) ==
    /\ vpc[c] = "waiting"
    /\ Known(Unexpired(seen, vnow[c]), vtask[c])
    /\ vpc' = [vpc EXCEPT ![c] = "rejected"]
    /\ UNCHANGED <<clock, seen, vtask, vnow>>

\* No room for a new nonce: refused, and rolled back, rather than evicted.
RejectFull(c) ==
    /\ vpc[c] = "waiting"
    /\ ~Known(Unexpired(seen, vnow[c]), vtask[c])
    /\ Full(Unexpired(seen, vnow[c]))
    /\ vpc' = [vpc EXCEPT ![c] = "unavailable"]
    /\ UNCHANGED <<clock, seen, vtask, vnow>>

\* sqlite3.DatabaseError or OSError (busy timeout, I/O): rolled back.
DatabaseUnavailable(c) ==
    /\ vpc[c] = "waiting"
    /\ vpc' = [vpc EXCEPT ![c] = "unavailable"]
    /\ UNCHANGED <<clock, seen, vtask, vnow>>

-----------------------------------------------------------------------------
(* The environment *)

\* The process of a call dies before the call's transaction.
Crash(c) ==
    /\ vpc[c] \in {"checked", "waiting"}
    /\ vpc' = [vpc EXCEPT ![c] = "crashed"]
    /\ UNCHANGED <<clock, seen, vtask, vnow>>

\* _initialize of a (re)starting process prunes with a clock read under the
\* write lock and commits; the verify() that follows changes nothing.
Initialize ==
    /\ seen' = Unexpired(seen, clock)
    /\ UNCHANGED <<clock, vpc, vtask, vnow>>

Tick ==
    /\ clock < MaxClock
    /\ clock' = clock + 1
    /\ UNCHANGED <<seen, vpc, vtask, vnow>>

\* One step of call c, other than a crash.
Step(c) ==
    \/ VerifyTask(c)
    \/ ReadNow(c)
    \/ Accept(c)
    \/ RejectReplay(c)
    \/ RejectFull(c)
    \/ DatabaseUnavailable(c)

Next ==
    \/ \E c \in Call : Step(c) \/ Crash(c)
    \/ Initialize
    \/ Tick

Spec == Init /\ [][Next]_rgVars

-----------------------------------------------------------------------------
(* Properties *)

SameNonce(c, d) == NonceOf[vtask[c]] = NonceOf[vtask[d]]

\* Two calls that present the same nonce are both accepted only once one of the
\* two envelopes has expired: check_and_mark never accepts a replay of an
\* envelope that is still valid, whatever calls are waiting with old clocks.
NoReplayWhileValid ==
    \A c, d \in Call :
        (c # d /\ vpc[c] = "accepted" /\ vpc[d] = "accepted" /\ SameNonce(c, d))
            => \/ clock >= ExpiresAt[vtask[c]]
               \/ clock >= ExpiresAt[vtask[d]]

\* seen_nonces keeps one row per nonce and never outgrows max_entries, so that
\* the capacity test of verify() never keeps the service from restarting.
TableBounded ==
    /\ Cardinality(seen) <= MaxEntries
    /\ \A r, s \in seen : r.nonce = s.nonce => r = s

\* No transaction and no restart forgets a nonce whose envelope could still be
\* presented in time: a row leaves the table only after it expired.
LiveNonceNeverForgotten ==
    [][\A r \in seen : r \notin seen' => clock >= r.expires]_rgVars

\* README.md, "Protection anti-rejeu persistante": two processes that receive
\* the same task at the same time cannot both accept it.
SameTaskAcceptedOnce ==
    \A c, d \in Call :
        (vpc[c] = "accepted" /\ vpc[d] = "accepted" /\ vtask[c] = vtask[d])
            => c = d
=============================================================================
