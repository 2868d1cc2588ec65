----------------------------- MODULE EventStore -----------------------------
(***************************************************************************)
(* The provider lifecycle: apply_lifecycle_event (providers/state_machine) *)
(* and the SQLite store of conversations, committed turns, provider runs   *)
(* and lifecycle events (providers/store).  Every operation of the store   *)
(* is one BEGIN IMMEDIATE transaction, so it is one action; callers may    *)
(* offer anything, at any time, again, out of order or damaged in transit. *)
(*                                                                         *)
(* What callers may offer is given by the constants.  A fingerprint is the *)
(* record itself; provider and surface are one field, surface.  A field    *)
(* that is None in the code is "none".                                     *)
(***************************************************************************)
EXTENDS Integers, Sequences, FiniteSets, SequencesExt

CONSTANTS
    Conversation,   \* ConversationHandle: [id, surface, pid, agent, at, state]
    Turn,           \* CommittedTurn: [id, conv, key, trace, agent, at]
    Run,            \* ProviderRun: [id, conv, turn, key, trace, surface, pid, at]
    Event,          \* LifecycleEvent: [id, run, seq, pid, at, kind,
                    \*                  call, pcall, approval, value]
    MaxDamaged      \* bound on the number of rows altered behind the store

Kind == {"started", "output", "tool_requested", "approval_requested",
         "approval_resolved", "tool_resolved", "terminal", "validated", "audit"}

ASSUME EventStoreAssumption ==
    /\ \A c \in Conversation : c.at \in Nat /\ c.state \in {"active", "closed"}
    /\ \A t \in Turn : t.at \in Nat
    /\ \A r \in Run : r.at \in Nat
    /\ \A e \in Event : e.at \in Nat /\ e.seq \in Nat \ {0} /\ e.kind \in Kind
    /\ \A e \in Event : e.kind = "terminal" => e.value # "none"
    /\ MaxDamaged \in Nat

VARIABLES
    conversations, turns, runs, events,   \* the rows of the four tables
    damaged,    \* rows whose payload no longer matches their fingerprint
    answer      \* what the last operation returned or raised

tables == <<conversations, turns, runs, events>>
vars == <<tables, damaged, answer>>

Answers == {"none", "appended", "duplicate", "conflict", "refused",
            "gap", "invalid", "corrupt", "error"}

TypeOK ==
    /\ conversations \subseteq Conversation
    /\ turns \subseteq Turn
    /\ runs \subseteq Run
    /\ events \subseteq Event
    /\ damaged \subseteq conversations \cup turns \cup runs \cup events
    /\ answer \in Answers

Init ==
    /\ conversations = {} /\ turns = {} /\ runs = {} /\ events = {}
    /\ damaged = {}
    /\ answer = "none"

-----------------------------------------------------------------------------
(* The state machine of one run *)

InitialRunState(r) ==
    [run |-> r, last |-> 0, at |-> r.at, started |-> FALSE, status |-> "none",
     pending |-> {},      \* pending_tool_calls: [call, pcall]
     resolved |-> {},     \* resolved_tool_calls: [call, pcall, outcome]
     asked |-> {},        \* pending_approvals: [approval, call]
     decided |-> {},      \* resolved_approvals: [approval, decision]
     outputs |-> <<>>, validated |-> FALSE, audited |-> FALSE,
     pids |-> {}, applied |-> <<>>]

Idle(s) == s.pending = {} /\ s.asked = {}

\* _require_active_response
Active(s) == s.started /\ s.status = "none"

\* Mutant: a pending approval does not hold the tool call back.
MayResolveToolUnapproved(s, e) == \E c \in s.pending : c.call = e.call

\* A tool call is resolved once it has no pending approval.
MayResolveTool(s, e) ==
    /\ \A a \in s.asked : a.call # e.call
    /\ \E c \in s.pending : c.call = e.call

\* The guards of each kind of event.
Transition(s, e) ==
    CASE e.kind = "started" -> ~s.started /\ s.status = "none"
      [] e.kind = "output" -> Active(s)
      [] e.kind = "tool_requested" -> Active(s)
      [] e.kind = "approval_requested" ->
            Active(s) /\ \E c \in s.pending : c.call = e.call
      [] e.kind = "approval_resolved" ->
            Active(s) /\ \E a \in s.asked : a.approval = e.approval
      [] e.kind = "tool_resolved" -> Active(s) /\ MayResolveTool(s, e)
      [] e.kind = "terminal" -> Active(s) /\ Idle(s)
      [] e.kind = "validated" -> s.status = "completed" /\ Idle(s) /\ ~s.validated
      [] e.kind = "audit" ->
            /\ s.status # "none" /\ Idle(s)
            /\ s.status = "completed" => s.validated

\* A request uses an identifier again: an EventConflictError.
Reused(s, e) ==
    \/ /\ e.kind = "tool_requested"
       /\ \E c \in s.pending \cup s.resolved : c.call = e.call \/ c.pcall = e.pcall
    \/ /\ e.kind = "approval_requested"
       /\ \E a \in s.asked \cup s.decided : a.approval = e.approval

\* What each kind of event changes.
Effect(s, e) ==
    CASE e.kind = "started" -> [s EXCEPT !.started = TRUE]
      [] e.kind = "output" -> [s EXCEPT !.outputs = Append(@, e.value)]
      [] e.kind = "tool_requested" ->
            [s EXCEPT !.pending = @ \cup {[call |-> e.call, pcall |-> e.pcall]}]
      [] e.kind = "approval_requested" ->
            [s EXCEPT !.asked = @ \cup {[approval |-> e.approval, call |-> e.call]}]
      [] e.kind = "approval_resolved" ->
            [s EXCEPT !.asked = {a \in @ : a.approval # e.approval},
                      !.decided = @ \cup {[approval |-> e.approval,
                                           decision |-> e.value]}]
      [] e.kind = "tool_resolved" ->
            [s EXCEPT !.pending = {c \in @ : c.call # e.call},
                      !.resolved = @ \cup {[call |-> c.call, pcall |-> c.pcall,
                                            outcome |-> e.value] :
                                           c \in {d \in s.pending : d.call = e.call}}]
      [] e.kind = "terminal" -> [s EXCEPT !.status = e.value]
      [] e.kind = "validated" -> [s EXCEPT !.validated = TRUE]
      [] e.kind = "audit" -> [s EXCEPT !.audited = TRUE]

\* The receipt of the sequence number has the event's id and fingerprint.
IsReplay(s, e) == s.applied[e.seq] = e

\* No event is allowed after the audit is persisted.
Closed(s) == s.audited

\* How apply_lifecycle_event ends: the state is left alone ("duplicate"), it
\* advances ("appended"), or an error is raised.
Verdict(s, e) ==
    IF e.run # s.run.id THEN "conflict"
    ELSE IF e.seq <= s.last THEN IF IsReplay(s, e) THEN "duplicate" ELSE "conflict"
    ELSE IF e.seq # s.last + 1 THEN "gap"
    ELSE IF e.at < s.at THEN "invalid"
    ELSE IF \E k \in 1..s.last : s.applied[k].id = e.id THEN "conflict"
    ELSE IF e.pid # "none" /\ e.pid \in s.pids THEN "conflict"
    ELSE IF Closed(s) THEN "invalid"
    ELSE IF ~Transition(s, e) THEN "invalid"
    ELSE IF Reused(s, e) THEN "conflict"
    ELSE "appended"

\* The state apply_lifecycle_event returns when it advances.
Advance(s, e) ==
    [Effect(s, e) EXCEPT
        !.pids = IF e.pid = "none" THEN @ ELSE @ \cup {e.pid},
        !.last = e.seq,
        !.at = e.at,
        !.applied = Append(@, e)]

DelegationTerminal(s) == s.status # "none" /\ Idle(s) /\ s.audited
DelegationCompleted(s) == DelegationTerminal(s) /\ s.status = "completed" /\ s.validated

-----------------------------------------------------------------------------
(* Reading the tables *)

\* The rows of a run, in the order of their sequence numbers.
Rows(r) ==
    LET rows == {e \in events : e.run = r.id} IN
    [k \in 1..Cardinality(rows) |->
        CHOOSE e \in rows : Cardinality({d \in rows : d.seq < e.seq}) = k - 1]

\* One row of a replay; the first refusal ends it.
ReplayRow(replay, e) ==
    LET verdict == Verdict(replay.s, e) IN
    CASE ~replay.ok \/ verdict = "duplicate" -> replay
      [] replay.ok /\ verdict = "appended" -> [replay EXCEPT !.s = Advance(@, e)]
      [] OTHER -> [replay EXCEPT !.ok = FALSE]

\* replay(): the rows are applied one by one.
ReplayRows(r, rows) ==
    LET after[k \in 0..Len(rows)] ==
          IF k = 0 THEN [ok |-> TRUE, s |-> InitialRunState(r)]
                   ELSE ReplayRow(after[k - 1], rows[k])
    IN  after[Len(rows)]

Replay(r) == ReplayRows(r, Rows(r))

\* _validate_payload and the _from_row functions raise on these rows.
Corrupt(rows) == rows \cap damaged # {}

\* No two conversations share a provider's conversation.
ConversationAnswer(c) ==
    LET same == {d \in conversations : d.id = c.id} IN
    IF Corrupt(same) THEN "corrupt"
    ELSE IF c \in same THEN "duplicate"
    ELSE IF same # {} THEN "conflict"
    ELSE IF c.pid # "none" /\ \E d \in conversations :
                                 d.surface = c.surface /\ d.pid = c.pid THEN "conflict"
    ELSE "appended"

TurnAnswer(t) ==
    LET convs == {c \in conversations : c.id = t.conv}
        same == {u \in turns : u.id = t.id} IN
    IF Corrupt(convs) THEN "corrupt"
    ELSE IF \A c \in convs : c.agent # t.agent \/ c.state # "active" \/ t.at < c.at THEN "refused"
    ELSE IF Corrupt(same) THEN "corrupt"
    ELSE IF t \in same THEN "duplicate"
    ELSE IF same # {} \/ \E u \in turns : u.key = t.key THEN "conflict"
    ELSE "appended"

\* A run continues its turn in the turn's conversation.
RunMatches(r, t, c) ==
    /\ r.conv = t.conv /\ r.trace = t.trace /\ r.key = t.key
    /\ r.surface = c.surface
    /\ c.state = "active"
    /\ t.at <= r.at

\* Mutant: a second run of a turn is not looked for.
TurnTakenNever(r) == FALSE

\* The turn or the idempotency key already has a run.
TurnTaken(r) == \E q \in runs : q.turn = r.turn \/ q.key = r.key

\* Mutant: a taken turn is found before the retry is recognised.
RunKnownNever(r) == FALSE

\* The same run was registered before.
RunKnown(r) == r \in runs

\* One run for each turn, idempotency key and run of the provider.
RunAnswer(r) ==
    LET convs == {c \in conversations : c.id = r.conv}
        its == {t \in turns : t.id = r.turn}
        same == {q \in runs : q.id = r.id} IN
    IF Corrupt(convs) \/ (convs # {} /\ Corrupt(its)) THEN "corrupt"
    ELSE IF ~\E c \in convs, t \in its : RunMatches(r, t, c) THEN "refused"
    ELSE IF Corrupt(same) THEN "corrupt"
    ELSE IF RunKnown(r) THEN "duplicate"
    ELSE IF same # {} \/ TurnTaken(r) THEN "conflict"
    ELSE IF r.pid # "none" /\ \E q \in runs :
                                 q.surface = r.surface /\ q.pid = r.pid THEN "conflict"
    ELSE "appended"

\* append_event: an occupied sequence number first, then the ids, then the
\* replay of the rows and the state machine.
EventAnswer(e) ==
    LET its == {r \in runs : r.id = e.run}
        rows == {d \in events : d.run = e.run}
        there == {d \in rows : d.seq = e.seq} IN
    IF its = {} THEN "refused"
    ELSE IF Corrupt(its) \/ Corrupt(there) THEN "corrupt"
    ELSE IF e \in there THEN "duplicate"
    ELSE IF there # {} THEN "conflict"
    ELSE IF \E d \in events : d.id = e.id THEN "conflict"
    ELSE IF e.pid # "none" /\ \E d \in rows : d.pid = e.pid THEN "conflict"
    ELSE IF Corrupt(rows) THEN "corrupt"
    ELSE LET replay == Replay(CHOOSE r \in its : TRUE)
         IN IF replay.ok THEN Verdict(replay.s, e) ELSE "corrupt"

-----------------------------------------------------------------------------
(* The operations *)

RegisterConversation(c) ==
    /\ answer' = ConversationAnswer(c)
    /\ conversations' = IF answer' = "appended" THEN conversations \cup {c}
                                                ELSE conversations
    /\ UNCHANGED <<turns, runs, events, damaged>>

RegisterTurn(t) ==
    /\ answer' = TurnAnswer(t)
    /\ turns' = IF answer' = "appended" THEN turns \cup {t} ELSE turns
    /\ UNCHANGED <<conversations, runs, events, damaged>>

RegisterRun(r) ==
    /\ answer' = RunAnswer(r)
    /\ runs' = IF answer' = "appended" THEN runs \cup {r} ELSE runs
    /\ UNCHANGED <<conversations, turns, events, damaged>>

AppendEvent(e) ==
    /\ answer' = EventAnswer(e)
    /\ events' = IF answer' = "appended" THEN events \cup {e} ELSE events
    /\ UNCHANGED <<conversations, turns, runs, damaged>>

\* The database is locked for too long or fails, or the process dies before
\* COMMIT: the transaction is rolled back.
Interrupted ==
    /\ answer' = "error"
    /\ UNCHANGED <<tables, damaged>>

\* The payload or the fingerprint of a row is altered behind the store.
Damage(row) ==
    /\ Cardinality(damaged) < MaxDamaged
    /\ row \notin damaged
    /\ damaged' = damaged \cup {row}
    /\ UNCHANGED <<tables, answer>>

Next ==
    \/ \E c \in Conversation : RegisterConversation(c)
    \/ \E t \in Turn : RegisterTurn(t)
    \/ \E r \in Run : RegisterRun(r)
    \/ \E e \in Event : AppendEvent(e)
    \/ Interrupted
    \/ \E row \in conversations \cup turns \cup runs \cup events : Damage(row)

Spec == Init /\ [][Next]_vars

-----------------------------------------------------------------------------
(* Properties *)

\* At most once: a turn, an idempotency key and a run of the provider belong to
\* one stored run, whichever of several submitters came first, and the run is
\* the one its turn and its conversation call for.
OneRunPerTurn ==
    /\ \A q, r \in runs :
          \/ q.turn = r.turn
          \/ q.key = r.key
          \/ q.pid # "none" /\ q.pid = r.pid /\ q.surface = r.surface
          => q = r
    /\ \A r \in runs : \E t \in turns, c \in conversations :
          t.id = r.turn /\ c.id = r.conv /\ t.agent = c.agent /\ RunMatches(r, t, c)

\* A caller that never saw the answer may repeat the call for ever: what was
\* once accepted is answered "duplicate", never refused or stored again,
\* whatever else was registered since.
RetryIsRecognised ==
    damaged = {} =>
        /\ \A c \in conversations : ConversationAnswer(c) = "duplicate"
        /\ \A t \in turns : TurnAnswer(t) = "duplicate"
        /\ \A r \in runs : RunAnswer(r) = "duplicate"
        /\ \A e \in events : EventAnswer(e) = "duplicate"

\* Stored events, other than e, that have its event_id or, in its run, its
\* provider_event_id.
Namesakes(e) ==
    {d \in events \ {e} : d.id = e.id \/ (d.run = e.run /\ d.pid = e.pid /\ e.pid # "none")}

\* The stored events of a run replay without an error, and the state machine fed
\* directly answers what the store answers to every event that is offered next,
\* except that the store looks for the ids first; what the machine would take and
\* the store does not is an event with the event_id of another run.
ReplayAgrees(r) ==
    /\ Replay(r).ok
    /\ \A e \in Event : e.run = r.id =>
          LET verdict == Verdict(Replay(r).s, e) IN
          /\ EventAnswer(e) = IF e \notin events /\ Namesakes(e) # {} THEN "conflict" ELSE verdict
          /\ verdict = "appended" => \A d \in Namesakes(e) : d.run # e.run

Before(rows, j, kinds) == {i \in 1..(j - 1) : rows[i].kind \in kinds}

\* What the history of a run says of its row j.
RowIsLegal(rows, j) ==
    /\ rows[j].seq = j
    /\ (rows[j].kind = "started") = (j = 1)
    /\ Before(rows, j, {"audit"}) = {}
    /\ Before(rows, j, {"terminal"}) # {} => rows[j].kind \in {"validated", "audit"}
    /\ rows[j].kind \in {"tool_resolved", "approval_requested"} =>
          Cardinality({i \in Before(rows, j, {"tool_requested"}) :
                          rows[i].call = rows[j].call}) = 1
    /\ rows[j].kind \in {"tool_resolved", "terminal"} =>
          \A i \in Before(rows, j, {"approval_requested"}) :
             \/ rows[j].kind = "tool_resolved" /\ rows[i].call # rows[j].call
             \/ \E k \in Before(rows, j, {"approval_resolved"}) :
                   rows[k].approval = rows[i].approval
    /\ rows[j].kind = "terminal" =>
          \A i \in Before(rows, j, {"tool_requested"}) :
             Cardinality({k \in Before(rows, j, {"tool_resolved"}) :
                             rows[k].call = rows[i].call}) = 1
    /\ rows[j].kind = "audit" =>
          \E i \in Before(rows, j, {"terminal"}) :
             rows[i].value = "completed" => Before(rows, j, {"validated"}) # {}

\* The state machine that replays the stored history answers what the store
\* answers; and the history of a run, read from its rows alone: a response starts
\* once and first; a tool call is requested once and resolved at most once, after every
\* approval asked for it; a response ends with no work pending; after its end
\* come only the validation of a completed output and one final audit, with which
\* the delegation is over, completed if the response was.
HistoryIsWellFormed ==
    damaged = {} => \A r \in runs : LET rows == Rows(r) state == Replay(r).s IN
      /\ ReplayAgrees(r)
      /\ DelegationTerminal(state) <=> rows # <<>> /\ rows[Len(rows)].kind = "audit"
      /\ DelegationCompleted(state) <=>
            DelegationTerminal(state) /\ \E e \in ToSet(rows) :
               e.kind = "terminal" /\ e.value = "completed"
      /\ \A j \in 1..Len(rows) : RowIsLegal(rows, j)

=============================================================================
