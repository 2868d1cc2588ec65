-------------------------- MODULE ReplayGuardProofs --------------------------
(***************************************************************************)
(* Machine-checked proofs about ReplayGuard, for every set of calls,       *)
(* envelopes, capacity and clock bound.                                    *)
(***************************************************************************)
EXTENDS ReplayGuard, FiniteSetTheorems, TLAPS

\* Why a replay of a valid envelope is refused: as long as an accepted
\* envelope has not expired its row is in the table, and a waiting call's
\* clock is never ahead of the real one, so no waiting call can prune it.
AcceptedIsRecorded ==
    \A c \in Call : (vpc[c] = "accepted" /\ clock < ExpiresAt[vtask[c]])
                        => RowFor(vtask[c]) \in seen

WaitingClockIsPast ==
    \A c \in Call : vpc[c] = "waiting"
                        => vnow[c] <= clock /\ vnow[c] < ExpiresAt[vtask[c]]

\* The inductive invariant.
IInv ==
    /\ TypeOK
    /\ AcceptedIsRecorded
    /\ WaitingClockIsPast
    /\ NoReplayWhileValid

-----------------------------------------------------------------------------

\* The invariant holds initially: no call has been made and the table is empty.
LEMMA InitIInv == Init => IInv
  BY ReplayAssumption
  DEF Init, IInv, TypeOK, CallState, AcceptedIsRecorded, WaitingClockIsPast,
      NoReplayWhileValid

\* Every step of a call, a crash, a restart or the clock keeps the types.
LEMMA TypeStep == TypeOK /\ [Next]_rgVars => TypeOK'
  <1> SUFFICES ASSUME TypeOK, [Next]_rgVars PROVE TypeOK'
    OBVIOUS
  <1> USE ReplayAssumption DEF TypeOK, CallState
  <1>1. ASSUME NEW c \in Call, VerifyTask(c) PROVE TypeOK'
    BY <1>1 DEF VerifyTask
  <1>2. ASSUME NEW c \in Call, ReadNow(c) PROVE TypeOK'
    BY <1>2 DEF ReadNow
  <1>3. ASSUME NEW c \in Call, Accept(c) PROVE TypeOK'
    <2>1. RowFor(vtask[c]) \in Row
      BY DEF RowFor, Row
    <2>2. Unexpired(seen, vnow[c]) \in SUBSET Row
      BY DEF Unexpired
    <2>3. QED
      BY <1>3, <2>1, <2>2 DEF Accept
  <1>4. ASSUME NEW c \in Call, RejectReplay(c) PROVE TypeOK'
    BY <1>4 DEF RejectReplay
  <1>5. ASSUME NEW c \in Call, RejectFull(c) PROVE TypeOK'
    BY <1>5 DEF RejectFull
  <1>6. ASSUME NEW c \in Call, DatabaseUnavailable(c) PROVE TypeOK'
    BY <1>6 DEF DatabaseUnavailable
  <1>7. ASSUME NEW c \in Call, Crash(c) PROVE TypeOK'
    BY <1>7 DEF Crash
  <1>8. CASE Initialize
    BY <1>8 DEF Initialize, Unexpired
  <1>9. CASE Tick
    BY <1>9 DEF Tick
  <1>10. CASE UNCHANGED rgVars
    BY <1>10 DEF rgVars
  <1>11. QED
    BY <1>1, <1>2, <1>3, <1>4, <1>5, <1>6, <1>7, <1>8, <1>9, <1>10
    DEF Next, Step

\* Every step keeps the inductive invariant.
LEMMA StepIInv == IInv /\ [Next]_rgVars => IInv'
  <1> SUFFICES ASSUME IInv, [Next]_rgVars PROVE IInv'
    OBVIOUS
  <1>t. TypeOK'
    BY TypeStep DEF IInv
  <1> DEFINE Rest == AcceptedIsRecorded /\ WaitingClockIsPast /\ NoReplayWhileValid
  <1> SUFFICES Rest'
    BY <1>t DEF IInv
  <1> USE ReplayAssumption DEF IInv, TypeOK, CallState, AcceptedIsRecorded,
          WaitingClockIsPast, NoReplayWhileValid, SameNonce
  <1>1. ASSUME NEW c \in Call, VerifyTask(c) PROVE Rest'
    BY <1>1 DEF VerifyTask
  <1>2. ASSUME NEW c \in Call, ReadNow(c) PROVE Rest'
    BY <1>2 DEF ReadNow
  <1>3. ASSUME NEW c \in Call, Accept(c) PROVE Rest'
    <2> DEFINE kept == Unexpired(seen, vnow[c])
    <2>1. /\ vpc[c] = "waiting"
          /\ ~Known(kept, vtask[c])
          /\ seen' = kept \cup {RowFor(vtask[c])}
          /\ vpc' = [vpc EXCEPT ![c] = "accepted"]
          /\ UNCHANGED <<clock, vtask, vnow>>
      BY <1>3 DEF Accept
    <2>2. \A r \in seen : r.expires > clock => r \in kept
      BY <2>1 DEF Unexpired, Row
    <2>3. AcceptedIsRecorded'
      BY <2>1, <2>2 DEF RowFor
    <2>4. WaitingClockIsPast'
      BY <2>1
    \* Another accepted, unexpired envelope still has its row; had it carried
    \* the same nonce, this call would have found it.
    <2>5. \A d \in Call : (d # c /\ vpc[d] = "accepted" /\ SameNonce(c, d))
                             => clock >= ExpiresAt[vtask[d]]
      <3> SUFFICES ASSUME NEW d \in Call, d # c, vpc[d] = "accepted",
                          SameNonce(c, d), clock < ExpiresAt[vtask[d]]
                   PROVE  FALSE
        OBVIOUS
      <3>1. RowFor(vtask[d]) \in seen
        OBVIOUS
      <3>2. RowFor(vtask[d]) \in kept
        BY <2>2, <3>1 DEF RowFor
      <3>3. RowFor(vtask[d]).nonce = NonceOf[vtask[c]]
        BY DEF RowFor
      <3>4. QED
        BY <2>1, <3>2, <3>3 DEF Known
    <2>6. NoReplayWhileValid'
      BY <2>1, <2>5
    <2>7. QED
      BY <2>3, <2>4, <2>6
  <1>4. ASSUME NEW c \in Call, RejectReplay(c) PROVE Rest'
    BY <1>4 DEF RejectReplay
  <1>5. ASSUME NEW c \in Call, RejectFull(c) PROVE Rest'
    BY <1>5 DEF RejectFull
  <1>6. ASSUME NEW c \in Call, DatabaseUnavailable(c) PROVE Rest'
    BY <1>6 DEF DatabaseUnavailable
  <1>7. ASSUME NEW c \in Call, Crash(c) PROVE Rest'
    BY <1>7 DEF Crash
  <1>8. CASE Initialize
    BY <1>8 DEF Initialize, Unexpired, RowFor
  <1>9. CASE Tick
    BY <1>9 DEF Tick
  <1>10. CASE UNCHANGED rgVars
    BY <1>10 DEF rgVars
  <1>11. QED
    BY <1>1, <1>2, <1>3, <1>4, <1>5, <1>6, <1>7, <1>8, <1>9, <1>10
    DEF Next, Step

\* The state of the guard always has its types, in every behaviour of the spec.
THEOREM TypeCorrect == Spec => []TypeOK
  <1>1. Init => TypeOK
    BY InitIInv DEF IInv
  <1>2. QED
    BY <1>1, TypeStep, PTL DEF Spec

\* For any number of concurrent calls, check_and_mark never accepts two
\* presentations of a nonce while both envelopes are still valid.
THEOREM NoReplay == Spec => []NoReplayWhileValid
  <1>1. IInv => NoReplayWhileValid
    BY DEF IInv
  <1>2. QED
    BY <1>1, InitIInv, StepIInv, PTL DEF Spec

-----------------------------------------------------------------------------

\* Inserting a new nonce below the capacity keeps the table bounded and keyed.
LEMMA TableStep ==
    TypeOK /\ IsFiniteSet(seen) /\ TableBounded /\ [Next]_rgVars
        => IsFiniteSet(seen)' /\ TableBounded'
  <1> SUFFICES ASSUME TypeOK, IsFiniteSet(seen), TableBounded, [Next]_rgVars
               PROVE IsFiniteSet(seen)' /\ TableBounded'
    OBVIOUS
  <1> USE ReplayAssumption DEF TypeOK, TableBounded
  <1>1. \A n \in Nat : /\ IsFiniteSet(Unexpired(seen, n))
                       /\ Unexpired(seen, n) \subseteq seen
                       /\ Cardinality(Unexpired(seen, n)) \in Nat
                       /\ Cardinality(Unexpired(seen, n)) <= Cardinality(seen)
    <2> TAKE n \in Nat
    <2>1. Unexpired(seen, n) \subseteq seen
      BY DEF Unexpired
    <2>2. QED
      BY <2>1, FS_Subset, FS_CardinalityType
  <1>2. ASSUME NEW c \in Call, Accept(c)
        PROVE IsFiniteSet(seen)' /\ TableBounded'
    <2> DEFINE kept == Unexpired(seen, vnow[c])
    <2> DEFINE row == RowFor(vtask[c])
    <2>1. /\ ~Known(kept, vtask[c])
          /\ ~(Cardinality(kept) >= MaxEntries)
          /\ seen' = kept \cup {row}
      BY <1>2 DEF Accept, Full
    <2>2. row \notin kept
      BY <2>1 DEF Known, RowFor
    <2>3. IsFiniteSet(kept) /\ Cardinality(kept) \in Nat /\ kept \subseteq seen
      BY <1>1
    <2>4. /\ IsFiniteSet(kept \cup {row})
          /\ Cardinality(kept \cup {row}) = Cardinality(kept) + 1
      BY <2>2, <2>3, FS_AddElement
    <2>5. Cardinality(seen') <= MaxEntries
      <3>1. Cardinality(kept) < MaxEntries
        BY <2>1, <2>3
      <3>2. Cardinality(kept) + 1 <= MaxEntries
        BY <3>1, <2>3
      <3>3. QED
        BY <3>2, <2>1, <2>4
    <2>6. \A r, s \in seen' : r.nonce = s.nonce => r = s
      BY <2>1, <2>3 DEF Known, RowFor
    <2>7. QED
      BY <2>1, <2>4, <2>5, <2>6
  <1>3. CASE Initialize
    <2>1. seen' = Unexpired(seen, clock)
      BY <1>3 DEF Initialize
    <2>2. Cardinality(seen') <= Cardinality(seen) /\ IsFiniteSet(seen')
          /\ seen' \subseteq seen /\ Cardinality(seen') \in Nat
      BY <1>1, <2>1
    <2>3. Cardinality(seen) \in Nat
      BY FS_CardinalityType
    <2>4. Cardinality(seen') <= MaxEntries
      BY <2>2, <2>3
    <2>5. QED
      BY <2>2, <2>4
  <1>4. CASE UNCHANGED seen
    BY <1>4
  <1>5. QED
    BY <1>2, <1>3, <1>4
    DEF Next, Step, VerifyTask, ReadNow, RejectReplay, RejectFull,
        DatabaseUnavailable, Crash, Tick, rgVars

\* The table never outgrows max_entries and keeps one row per nonce, for every
\* capacity and number of calls: a restart is never refused for its size.
THEOREM Bounded == Spec => []TableBounded
  <1>1. Init => TypeOK /\ IsFiniteSet(seen) /\ TableBounded
    BY InitIInv, FS_EmptySet, ReplayAssumption DEF Init, IInv, TableBounded
  <1>2. QED
    BY <1>1, TypeStep, TableStep, PTL DEF Spec

\* A row leaves the table only after it expired: a waiting call prunes with a
\* clock that is at most the real one.
THEOREM NeverForgotten == Spec => LiveNonceNeverForgotten
  <1> DEFINE Forget == \A r \in seen : r \notin seen' => clock >= r.expires
  <1>1. IInv /\ [Next]_rgVars => [Forget]_rgVars
    <2> SUFFICES ASSUME IInv, Next PROVE Forget
      OBVIOUS
    <2>1. ASSUME NEW c \in Call, Accept(c) PROVE Forget
      BY <2>1, ReplayAssumption
      DEF Accept, Unexpired, IInv, TypeOK, WaitingClockIsPast, Row
    <2>2. CASE Initialize
      BY <2>2 DEF Initialize, Unexpired, IInv, TypeOK, Row
    <2>3. CASE UNCHANGED seen
      BY <2>3
    <2>4. QED
      BY <2>1, <2>2, <2>3
      DEF Next, Step, VerifyTask, ReadNow, RejectReplay, RejectFull,
          DatabaseUnavailable, Crash, Tick
  <1>2. QED
    BY <1>1, InitIInv, StepIInv, PTL DEF Spec, LiveNonceNeverForgotten
=============================================================================
