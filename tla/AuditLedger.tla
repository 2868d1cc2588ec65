----------------------------- MODULE AuditLedger -----------------------------
(***************************************************************************)
(* What the audit log promises its callers (AuditLog.append): a call       *)
(* returns an audit id only for an event that was recorded; a call that    *)
(* raises may or may not have recorded its event; what was recorded stays. *)
(***************************************************************************)
EXTENDS Sequences

CONSTANTS
    Writer,     \* callers of append, one call at a time each
    Event,      \* what can be recorded
    NoEvent     \* stands for no event

VARIABLES
    ledger,    \* the recorded events, in order
    lpc,       \* "idle", "pending" (append called) or "recorded"
    levent,    \* the event of the current call, or NoEvent
    lout       \* "none", or how the last call ended: "ok" or "failed"

alVars == <<ledger, lpc, levent, lout>>

TypeOK ==
    /\ ledger \in Seq(Event)
    /\ lpc \in [Writer -> {"idle", "pending", "recorded"}]
    /\ levent \in [Writer -> Event \cup {NoEvent}]
    /\ lout \in [Writer -> {"none", "ok", "failed"}]

Init ==
    /\ ledger = <<>>
    /\ lpc = [w \in Writer |-> "idle"]
    /\ levent = [w \in Writer |-> NoEvent]
    /\ lout = [w \in Writer |-> "none"]

\* append is called.
Begin(w, e) ==
    /\ lpc[w] = "idle"
    /\ lpc' = [lpc EXCEPT ![w] = "pending"]
    /\ levent' = [levent EXCEPT ![w] = e]
    /\ lout' = [lout EXCEPT ![w] = "none"]
    /\ UNCHANGED ledger

\* Mutant: the call goes on although the event was not written.
RecordNothing(w) ==
    /\ lpc[w] = "pending"
    /\ lpc' = [lpc EXCEPT ![w] = "recorded"]
    /\ UNCHANGED <<ledger, levent, lout>>

\* The record is on disk; the call has not returned yet.
Record(w) ==
    /\ lpc[w] = "pending"
    /\ ledger' = Append(ledger, levent[w])
    /\ lpc' = [lpc EXCEPT ![w] = "recorded"]
    /\ UNCHANGED <<levent, lout>>

Return(w, outcome) ==
    /\ lpc' = [lpc EXCEPT ![w] = "idle"]
    /\ levent' = [levent EXCEPT ![w] = NoEvent]
    /\ lout' = [lout EXCEPT ![w] = outcome]
    /\ UNCHANGED ledger

\* append returns the audit id.
Succeed(w) == lpc[w] = "recorded" /\ Return(w, "ok")

\* append raises: before the record is written, or after (fsync, anchor).
Fail(w) == lpc[w] \in {"pending", "recorded"} /\ Return(w, "failed")

\* The process of these callers dies and is started again: the calls are gone,
\* recorded or not.
Crash(dead) ==
    /\ lpc' = [w \in Writer |-> IF w \in dead THEN "idle" ELSE lpc[w]]
    /\ levent' = [w \in Writer |-> IF w \in dead THEN NoEvent ELSE levent[w]]
    /\ lout' = [w \in Writer |-> IF w \in dead THEN "none" ELSE lout[w]]
    /\ UNCHANGED ledger

Write(w) == Record(w) \/ Succeed(w) \/ Fail(w)

Next ==
    \/ \E w \in Writer : Write(w) \/ \E e \in Event : Begin(w, e)
    \/ \E dead \in SUBSET Writer : Crash(dead)

Spec == Init /\ [][Next]_alVars
=============================================================================
