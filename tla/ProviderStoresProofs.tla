------------------------ MODULE ProviderStoresProofs ------------------------
(***************************************************************************)
(* Machine-checked proofs about the two stores of the provider layer, for  *)
(* whatever their callers may offer, in any order and any number of times. *)
(* The event store: a turn has at most one run, the run is the one its     *)
(* turn and conversation call for, a call that is repeated is recognised,  *)
(* and the rows of every run replay without an error and tell a legal      *)
(* story.  The registry: what the transactions let in, the next start-up   *)
(* accepts; a replacement supersedes what its client had loaded; and Work  *)
(* is chosen only where the registry justifies it.                         *)
(***************************************************************************)
EXTENDS ProviderStores, FiniteSetTheorems, FunctionTheorems, WellFoundedInduction, TLAPS

(* The event store: at most one run *)

\* What the tables keep about conversations and turns, and OneRunPerTurn needs:
\* a conversation has one row, and a turn was committed by its owner.
Owned ==
    /\ \A c, d \in conversations : c.id = d.id => c = d
    /\ \A t \in turns : \E c \in conversations : c.id = t.conv /\ c.agent = t.agent

EventInv == Owned /\ OneRunPerTurn

\* The store starts empty.
LEMMA InitEventInv == Init => EventInv
  BY DEF Init, EventInv, Owned, OneRunPerTurn

\* register_conversation adds a row only under an id that has none.
LEMMA ConversationInv ==
  ASSUME EventInv, NEW c \in Conversation, RegisterConversation(c)
  PROVE  EventInv'
  <1>1. CASE answer' = "appended"
    <2>1. \A d \in conversations : d.id # c.id
      BY <1>1 DEF RegisterConversation, ConversationAnswer
    <2>2. conversations' = conversations \cup {c} /\ turns' = turns /\ runs' = runs
      BY <1>1 DEF RegisterConversation
    <2>3. Owned'
      BY <2>1, <2>2 DEF EventInv, Owned
    <2>4. OneRunPerTurn'
      BY <2>2 DEF EventInv, OneRunPerTurn, RunMatches
    <2> QED BY <2>3, <2>4 DEF EventInv
  <1>2. CASE answer' # "appended"
    BY <1>2 DEF RegisterConversation, EventInv, Owned, OneRunPerTurn, RunMatches
  <1> QED BY <1>1, <1>2

\* register_turn adds a turn only to a conversation of the turn's principal.
LEMMA TurnInv ==
  ASSUME EventInv, NEW t \in Turn, RegisterTurn(t)
  PROVE  EventInv'
  <1>1. CASE answer' = "appended"
    <2>1. \E c \in conversations : c.id = t.conv /\ c.agent = t.agent
      BY <1>1 DEF RegisterTurn, TurnAnswer
    <2>2. turns' = turns \cup {t} /\ conversations' = conversations /\ runs' = runs
      BY <1>1 DEF RegisterTurn
    <2>3. Owned'
      BY <2>1, <2>2 DEF EventInv, Owned
    <2>4. OneRunPerTurn'
      BY <2>2 DEF EventInv, OneRunPerTurn, RunMatches
    <2> QED BY <2>3, <2>4 DEF EventInv
  <1>2. CASE answer' # "appended"
    BY <1>2 DEF RegisterTurn, EventInv, Owned, OneRunPerTurn, RunMatches
  <1> QED BY <1>1, <1>2

\* register_run adds a run only to a turn and a key that have none.
LEMMA RunInv ==
  ASSUME EventInv, NEW r \in Run, RegisterRun(r)
  PROVE  EventInv'
  <1>0. turns' = turns /\ conversations' = conversations
    BY DEF RegisterRun
  <1>1. Owned'
    BY <1>0 DEF EventInv, Owned
  <1>2. CASE answer' = "appended"
    <2>1. runs' = runs \cup {r}
      BY <1>2 DEF RegisterRun
    <2>2. ~TurnTaken(r)
      BY <1>2 DEF RegisterRun, RunAnswer
    <2>3. \A q \in runs : q.surface = r.surface /\ q.pid = r.pid => r.pid = "none"
      BY <1>2 DEF RegisterRun, RunAnswer
    <2>4. PICK c \in conversations, t \in turns :
              c.id = r.conv /\ t.id = r.turn /\ RunMatches(r, t, c)
      BY <1>2 DEF RegisterRun, RunAnswer
    <2>5. t.agent = c.agent
      BY <2>4 DEF EventInv, Owned, RunMatches
    <2>6. \A p, q \in runs' :
            \/ p.turn = q.turn
            \/ p.key = q.key
            \/ p.pid # "none" /\ p.pid = q.pid /\ p.surface = q.surface
            => p = q
      BY <2>1, <2>2, <2>3 DEF EventInv, OneRunPerTurn, TurnTaken
    <2>7. \A q \in runs' : \E u \in turns', d \in conversations' :
            u.id = q.turn /\ d.id = q.conv /\ u.agent = d.agent /\ RunMatches(q, u, d)
      BY <1>0, <2>1, <2>4, <2>5 DEF EventInv, OneRunPerTurn
    <2>8. OneRunPerTurn'
      BY <2>6, <2>7 DEF OneRunPerTurn, RunMatches
    <2> QED BY <1>1, <2>8 DEF EventInv
  <1>3. CASE answer' # "appended"
    BY <1>0, <1>1, <1>3 DEF RegisterRun, EventInv, OneRunPerTurn, RunMatches
  <1> QED BY <1>2, <1>3

\* Every step of the store keeps the invariant.
LEMMA NextEventInv == EventInv /\ [Next]_vars => EventInv'
  <1> SUFFICES ASSUME EventInv, [Next]_vars PROVE EventInv'
    OBVIOUS
  <1>1. ASSUME NEW c \in Conversation, RegisterConversation(c) PROVE EventInv'
    BY <1>1, ConversationInv
  <1>2. ASSUME NEW t \in Turn, RegisterTurn(t) PROVE EventInv'
    BY <1>2, TurnInv
  <1>3. ASSUME NEW r \in Run, RegisterRun(r) PROVE EventInv'
    BY <1>3, RunInv
  <1>4. ASSUME UNCHANGED <<conversations, turns, runs>> PROVE EventInv'
    BY <1>4 DEF EventInv, Owned, OneRunPerTurn, RunMatches
  <1>5. ASSUME NEW e \in Event, AppendEvent(e) PROVE EventInv'
    BY <1>4, <1>5 DEF AppendEvent
  <1>6. CASE Interrupted
    BY <1>4, <1>6 DEF Interrupted, tables
  <1>7. ASSUME NEW row, Damage(row) PROVE EventInv'
    BY <1>4, <1>7 DEF Damage, tables
  <1>8. CASE UNCHANGED vars
    BY <1>4, <1>8 DEF vars, tables
  <1> QED BY <1>1, <1>2, <1>3, <1>5, <1>6, <1>7, <1>8 DEF Next

\* For all conversations, turns, runs and events callers may offer, in any
\* order and any number of times: one run for each turn, idempotency key and run
\* of the provider (register_run and its unique indexes).
THEOREM AtMostOneRun == Spec => []OneRunPerTurn
  <1>1. EventInv => OneRunPerTurn
    BY DEF EventInv
  <1> QED BY <1>1, InitEventInv, NextEventInv, PTL DEF Spec

-----------------------------------------------------------------------------
(* The event store: repeated calls *)

\* What the tables keep, and a repeated call needs: a turn's conversation would
\* still take it, and an event's run is there.
Accepted ==
    /\ \A t \in turns : \E c \in conversations :
          c.id = t.conv /\ ~(c.agent # t.agent \/ c.state # "active" \/ t.at < c.at)
    /\ \A e \in events : \E r \in runs : r.id = e.run

\* Rows are only added, and only accepted ones.
LEMMA AcceptedStays == Accepted /\ [Next]_vars => Accepted'
  <1> SUFFICES ASSUME Accepted, [Next]_vars PROVE Accepted'
    OBVIOUS
  <1>1. ASSUME NEW c \in Conversation, RegisterConversation(c) PROVE Accepted'
    <2>1. conversations \subseteq conversations' /\ UNCHANGED <<turns, runs, events>>
      BY <1>1 DEF RegisterConversation
    <2> QED BY <2>1 DEF Accepted
  <1>2. ASSUME NEW t \in Turn, RegisterTurn(t) PROVE Accepted'
    <2>1. CASE answer' = "appended"
      <3>1. turns' = turns \cup {t} /\ UNCHANGED <<conversations, runs, events>>
        BY <1>2, <2>1 DEF RegisterTurn
      <3>2. \E c \in conversations :
               c.id = t.conv /\ ~(c.agent # t.agent \/ c.state # "active" \/ t.at < c.at)
        BY <1>2, <2>1 DEF RegisterTurn, TurnAnswer
      <3> QED BY <3>1, <3>2 DEF Accepted
    <2>2. CASE answer' # "appended"
      BY <1>2, <2>2 DEF RegisterTurn, Accepted
    <2> QED BY <2>1, <2>2
  <1>3. ASSUME NEW r \in Run, RegisterRun(r) PROVE Accepted'
    <2>1. runs \subseteq runs' /\ UNCHANGED <<conversations, turns, events>>
      BY <1>3 DEF RegisterRun
    <2> QED BY <2>1 DEF Accepted
  <1>4. ASSUME NEW e \in Event, AppendEvent(e) PROVE Accepted'
    <2>1. CASE answer' = "appended"
      <3>1. events' = events \cup {e} /\ UNCHANGED <<conversations, turns, runs>>
        BY <1>4, <2>1 DEF AppendEvent
      <3>2. \E r \in runs : r.id = e.run
        BY <1>4, <2>1 DEF AppendEvent, EventAnswer
      <3> QED BY <3>1, <3>2 DEF Accepted
    <2>2. CASE answer' # "appended"
      BY <1>4, <2>2 DEF AppendEvent, Accepted
    <2> QED BY <2>1, <2>2
  <1>5. ASSUME UNCHANGED tables PROVE Accepted'
    BY <1>5 DEF tables, Accepted
  <1>6. ASSUME Interrupted \/ UNCHANGED vars \/ \E row : Damage(row) PROVE Accepted'
    BY <1>5, <1>6 DEF Interrupted, Damage, vars
  <1> QED BY <1>1, <1>2, <1>3, <1>4, <1>6 DEF Next

\* Nothing is found before the row itself that would answer otherwise.
LEMMA Recognised == EventInv /\ Accepted => RetryIsRecognised
  <1> SUFFICES ASSUME EventInv, Accepted, damaged = {}
               PROVE  /\ \A c \in conversations : ConversationAnswer(c) = "duplicate"
                      /\ \A t \in turns : TurnAnswer(t) = "duplicate"
                      /\ \A r \in runs : RunAnswer(r) = "duplicate"
                      /\ \A e \in events : EventAnswer(e) = "duplicate"
    BY DEF RetryIsRecognised
  <1>1. \A rows : ~Corrupt(rows)
    BY DEF Corrupt
  <1>2. ASSUME NEW c \in conversations PROVE ConversationAnswer(c) = "duplicate"
    BY <1>1 DEF ConversationAnswer
  <1>3. ASSUME NEW t \in turns PROVE TurnAnswer(t) = "duplicate"
    BY <1>1 DEF Accepted, TurnAnswer
  <1>4. ASSUME NEW r \in runs PROVE RunAnswer(r) = "duplicate"
    BY <1>1 DEF EventInv, OneRunPerTurn, RunAnswer, RunKnown
  <1>5. ASSUME NEW e \in events PROVE EventAnswer(e) = "duplicate"
    BY <1>1 DEF Accepted, EventAnswer
  <1> QED BY <1>2, <1>3, <1>4, <1>5

\* A caller that lost the answer may repeat register_conversation, register_turn,
\* register_run and append_event whatever was stored since: as long as no row was
\* damaged, the store recognises what it once accepted.
THEOREM Retry == Spec => []RetryIsRecognised
  <1>1. Init => Accepted
    BY DEF Init, Accepted
  <1> QED BY <1>1, InitEventInv, NextEventInv, AcceptedStays, Recognised, PTL DEF Spec

-----------------------------------------------------------------------------
(* The event store: replaying rows *)

\* The order < as a relation, as the library wants it.
LEMMA LessIsARelation == \A x, y \in Nat : x < y => <<x, y>> \in OpToRel(<, Nat)
  BY DEF OpToRel

\* A non-empty set of naturals has a minimal member in a well-founded order.
LEMMA Minimal ==
    ASSUME NEW R, IsWellFoundedOn(R, Nat), NEW S \in SUBSET Nat, S # {}
    PROVE  \E x \in S : \A y \in S : ~(<<y, x>> \in R)
  BY WFMin

\* In an order that contains <, a minimal member is a least one.
LEMMA Least ==
    ASSUME NEW R, IsWellFoundedOn(R, Nat), \A x, y \in Nat : x < y => <<x, y>> \in R,
           NEW S \in SUBSET Nat, S # {}
    PROVE  \E m \in S : \A n \in Nat : n < m => n \notin S
  BY Minimal

\* A non-empty set of naturals has a least member.
LEMMA LeastNat ==
    ASSUME NEW S \in SUBSET Nat, S # {}
    PROVE  \E m \in S : \A n \in Nat : n < m => n \notin S
  BY Least, LessIsARelation, NatLessThanWellFounded, Zenon

\* f gives the replays, from b on, of the first rows of w.
Steps(f, b, w, n) ==
    f = [k \in 0..n |-> IF k = 0 THEN b ELSE ReplayRow(f[k - 1], w[k])]

\* The values of such a function.
LEMMA StepsValue ==
    ASSUME NEW f, NEW b, NEW w, NEW n \in Nat, Steps(f, b, w, n)
    PROVE  /\ f[0] = b
           /\ \A k \in 1..n : k \in 0..n /\ k - 1 \in 0..n /\ f[k] = ReplayRow(f[k - 1], w[k])
  <1>1. \A k \in 0..n : f[k] = IF k = 0 THEN b ELSE ReplayRow(f[k - 1], w[k])
    BY DEF Steps
  <1>2. 0 \in 0..n /\ \A k \in 1..n : k \in 0..n /\ k # 0 /\ k - 1 \in 0..n
    OBVIOUS
  <1>3. QED
    BY <1>1, <1>2

\* There is such a function: by the least number of rows that had none.
LEMMA StepsExist ==
    ASSUME NEW b, NEW w, NEW n \in Nat
    PROVE  \E f : Steps(f, b, w, n)
  <1> DEFINE Wrong == {m \in Nat : ~\E f : Steps(f, b, w, m)}
  <1> SUFFICES ASSUME Wrong # {} PROVE FALSE
    OBVIOUS
  <1>1. PICK m \in Wrong : \A k \in Nat : k < m => k \notin Wrong
    BY LeastNat
  <1>2. CASE m = 0
    <2> DEFINE f == [k \in 0..0 |-> b]
    <2>1. \A k \in 0..0 : k = 0
      OBVIOUS
    <2>2. Steps(f, b, w, 0)
      BY <2>1 DEF Steps
    <2>3. QED
      BY <1>2, <2>2
  <1>3. CASE m # 0
    <2>1. m - 1 \in Nat /\ m - 1 < m /\ m \in Nat
      BY <1>3
    <2>2. PICK f : Steps(f, b, w, m - 1)
      BY <1>1, <2>1
    <2>3. /\ f[0] = b
          /\ \A k \in 1..(m - 1) : k \in 0..(m - 1) /\ f[k] = ReplayRow(f[k - 1], w[k])
      BY <2>1, <2>2, StepsValue
    <2> DEFINE g == [k \in 0..m |-> IF k = m THEN ReplayRow(f[m - 1], w[m]) ELSE f[k]]
    <2>4. ASSUME NEW k \in 0..m
          PROVE  g[k] = IF k = 0 THEN b ELSE ReplayRow(g[k - 1], w[k])
      <3>1. CASE k = 0
        <4>1. g[0] = f[0]
          BY <1>3, <2>1
        <4>2. QED
          BY <2>3, <3>1, <4>1
      <3>2. CASE k = m
        <4>1. m - 1 \in 0..m /\ m - 1 # m
          BY <2>1
        <4>2. g[m - 1] = f[m - 1]
          BY <4>1
        <4>3. g[m] = ReplayRow(f[m - 1], w[m])
          BY <2>1
        <4> HIDE DEF g
        <4>4. QED
          BY <1>3, <3>2, <4>2, <4>3
      <3>3. CASE k # 0 /\ k # m
        <4>1. k \in 1..(m - 1) /\ k - 1 \in 0..m /\ k - 1 # m
          BY <2>1, <3>3
        <4>2. g[k - 1] = f[k - 1] /\ g[k] = f[k]
          BY <3>3, <4>1
        <4> HIDE DEF g
        <4>3. QED
          BY <2>3, <3>3, <4>1, <4>2
      <3>4. QED
        BY <3>1, <3>2, <3>3
    <2>5. Steps(g, b, w, m)
      <3> HIDE DEF g
      <3>1. g = [k \in 0..m |-> g[k]]
        BY DEF g
      <3>2. [k \in 0..m |-> g[k]] = [k \in 0..m |-> IF k = 0 THEN b ELSE ReplayRow(g[k - 1], w[k])]
        BY <2>4
      <3>3. QED
        BY <3>1, <3>2 DEF Steps
    <2>6. QED
      BY <2>5
  <1>4. QED
    BY <1>2, <1>3

\* And only one, as far as the rows agree.
LEMMA StepsAgree ==
    ASSUME NEW b, NEW f, NEW w, NEW n \in Nat, Steps(f, b, w, n),
           NEW g, NEW v, NEW m \in Nat, Steps(g, b, v, m), n <= m,
           \A k \in 1..n : w[k] = v[k]
    PROVE  f[n] = g[n]
  <1> DEFINE Wrong == {k \in Nat : k <= n /\ f[k] # g[k]}
  <1> SUFFICES ASSUME Wrong # {} PROVE FALSE
    OBVIOUS
  <1>1. PICK d \in Wrong : \A k \in Nat : k < d => k \notin Wrong
    BY LeastNat
  <1>2. /\ f[0] = b /\ \A k \in 1..n : f[k] = ReplayRow(f[k - 1], w[k])
        /\ g[0] = b /\ \A k \in 1..m : g[k] = ReplayRow(g[k - 1], v[k])
    BY StepsValue
  <1>3. d # 0
    BY <1>1, <1>2
  <1>4. d \in 1..n /\ d \in 1..m /\ d - 1 \in Nat /\ d - 1 < d /\ d - 1 <= n
    BY <1>1, <1>3
  <1>5. f[d - 1] = g[d - 1]
    BY <1>1, <1>4
  <1>6. QED
    BY <1>1, <1>2, <1>4, <1>5

Fresh(r) == [ok |-> TRUE, s |-> InitialRunState(r)]

\* So a replay is what its definition says.
LEMMA ReplayIsSteps ==
    ASSUME NEW r, NEW w, Len(w) \in Nat
    PROVE  \E f : Steps(f, Fresh(r), w, Len(w)) /\ ReplayRows(r, w) = f[Len(w)]
  <1>1. \E f : Steps(f, Fresh(r), w, Len(w))
    BY StepsExist
  <1> DEFINE u == CHOOSE f : Steps(f, Fresh(r), w, Len(w))
  <1>2. Steps(u, Fresh(r), w, Len(w))
    BY <1>1
  <1>3. ReplayRows(r, w) = u[Len(w)]
    BY DEF ReplayRows, Steps, Fresh
  <1>4. QED
    BY <1>2, <1>3

\* No rows: the initial state of the run.
LEMMA ReplayOfNone ==
    ASSUME NEW r
    PROVE  ReplayRows(r, << >>) = Fresh(r)
  <1>1. Len(<< >>) = 0
    OBVIOUS
  <1>2. PICK f : Steps(f, Fresh(r), << >>, 0) /\ ReplayRows(r, << >>) = f[0]
    BY <1>1, ReplayIsSteps
  <1>3. QED
    BY <1>2, StepsValue

\* One more row is one more step.
LEMMA ReplayOfAppend ==
    ASSUME NEW r, NEW T, NEW w \in Seq(T), NEW e \in T
    PROVE  ReplayRows(r, Append(w, e)) = ReplayRow(ReplayRows(r, w), e)
  <1> DEFINE v == Append(w, e)
             n == Len(w)
  <1>1. n \in Nat /\ Len(v) = n + 1 /\ v[n + 1] = e /\ \A k \in 1..n : w[k] = v[k]
    OBVIOUS
  <1> HIDE DEF v
  <1>2. PICK f : Steps(f, Fresh(r), w, n) /\ ReplayRows(r, w) = f[n]
    BY <1>1, ReplayIsSteps
  <1>3. PICK g : Steps(g, Fresh(r), v, n + 1) /\ ReplayRows(r, v) = g[n + 1]
    BY <1>1, ReplayIsSteps
  <1>4. f[n] = g[n]
    BY <1>1, <1>2, <1>3, StepsAgree
  <1>5. g[n + 1] = ReplayRow(g[n], v[n + 1])
    <2>1. n + 1 \in 1..(n + 1) /\ (n + 1) - 1 = n /\ n + 1 \in Nat
      BY <1>1
    <2>2. g[n + 1] = ReplayRow(g[(n + 1) - 1], v[n + 1])
      BY <1>3, <2>1, StepsValue
    <2>3. QED
      BY <2>1, <2>2
  <1>6. QED
    BY <1>1, <1>2, <1>3, <1>4, <1>5 DEF v

-----------------------------------------------------------------------------
(* The event store: rows in order *)

\* The members of S, sorted by their sequence numbers, are w.
Numbered(S, w) ==
    /\ w \in Seq(Event)
    /\ S = {w[k] : k \in 1..Len(w)}
    /\ \A k \in 1..Len(w) : w[k].seq = k

\* Distinct rows are as many as their places.
LEMMA ImageCount ==
    ASSUME NEW w, NEW n \in Nat, \A i, j \in 1..n : w[i] = w[j] => i = j
    PROVE  Cardinality({w[i] : i \in 1..n}) = n
  <1> DEFINE T == {w[i] : i \in 1..n}
             f == [i \in 1..n |-> w[i]]
  <1>1. f \in Bijection(1..n, T)
    BY DEF Bijection, Injection, IsInjective, Surjection
  <1>2. ExistsBijection(1..n, T)
    BY <1>1 DEF ExistsBijection
  <1>3. IsFiniteSet(1..n) /\ Cardinality(1..n) = n
    BY FS_Interval
  <1> HIDE DEF T
  <1>4. Cardinality(T) = n
    BY <1>2, <1>3, FS_Bijection
  <1>5. QED
    BY <1>4 DEF T

\* Rows, which sorts by counting smaller sequence numbers, finds that sequence.
LEMMA NumberedIsSorted ==
    ASSUME NEW S, NEW w, Numbered(S, w)
    PROVE  [k \in 1..Cardinality(S) |->
               CHOOSE e \in S : Cardinality({d \in S : d.seq < e.seq}) = k - 1] = w
  <1> DEFINE n == Len(w)
  <1>1. n \in Nat /\ w \in [1..n -> Event] /\ S = {w[k] : k \in 1..n}
        /\ \A k \in 1..n : w[k].seq = k
    BY DEF Numbered
  <1>2. \A i, j \in 1..n : w[i] = w[j] => i = j
    BY <1>1
  <1>3. Cardinality(S) = n
    BY <1>1, <1>2, ImageCount
  <1>4. ASSUME NEW k \in 1..n
        PROVE  Cardinality({d \in S : d.seq < w[k].seq}) = k - 1
    <2>1. k - 1 \in Nat /\ \A i \in 1..(k - 1) : i \in 1..n /\ i < k
      BY <1>1
    <2>2. \A i \in 1..n : i < k => i \in 1..(k - 1)
      BY <1>1
    <2>3. {d \in S : d.seq < w[k].seq} = {w[i] : i \in 1..(k - 1)}
      BY <1>1, <2>1, <2>2
    <2>4. Cardinality({w[i] : i \in 1..(k - 1)}) = k - 1
      BY <1>2, <2>1, ImageCount
    <2>5. QED
      BY <2>3, <2>4
  <1>5. ASSUME NEW k \in 1..n
        PROVE  (CHOOSE e \in S : Cardinality({d \in S : d.seq < e.seq}) = k - 1) = w[k]
    <2> DEFINE P(e) == Cardinality({d \in S : d.seq < e.seq}) = k - 1
    <2>1. w[k] \in S /\ P(w[k])
      BY <1>1, <1>4
    <2>2. ASSUME NEW e \in S, P(e) PROVE e = w[k]
      <3>1. PICK j \in 1..n : e = w[j]
        BY <1>1
      <3>2. j - 1 = k - 1
        BY <1>4, <2>2, <3>1
      <3>3. j = k
        BY <1>1, <3>2
      <3>4. QED
        BY <3>1, <3>3
    <2> HIDE DEF P
    <2>3. (CHOOSE e \in S : P(e)) = w[k]
      BY <2>1, <2>2
    <2>4. QED
      BY <2>3 DEF P
  <1>6. QED
    <2>1. [k \in 1..n |-> CHOOSE e \in S : Cardinality({d \in S : d.seq < e.seq}) = k - 1]
            = [k \in 1..n |-> w[k]]
      BY <1>5
    <2>2. w = [k \in 1..n |-> w[k]]
      BY <1>1
    <2>3. QED
      BY <1>3, <2>1, <2>2

-----------------------------------------------------------------------------
(* The event store: what the state of a run remembers of its rows *)

StateFields ==
    {"run", "last", "at", "started", "status", "pending", "resolved", "asked", "decided",
     "outputs", "validated", "audited", "pids", "applied"}

Occurs(w, kind) == \E i \in 1..Len(w) : w[i].kind = kind

\* The rows, their number and their provider_event_ids.
RowsTracked(r, w, s) ==
    /\ DOMAIN s = StateFields
    /\ s.run = r /\ s.last = Len(w) /\ s.applied = w
    /\ \A p : p \in s.pids <=> p # "none" /\ \E i \in 1..Len(w) : w[i].pid = p

\* How far the response has come.
StatusTracked(w, s) ==
    /\ s.started <=> Len(w) # 0
    /\ s.status # "none" <=> Occurs(w, "terminal")
    /\ \A i \in 1..Len(w) : w[i].kind = "terminal" => w[i].value = s.status
    /\ s.validated <=> Occurs(w, "validated")
    /\ s.audited <=> Occurs(w, "audit")
    /\ s.audited => /\ s.status # "none" /\ Idle(s)
                    /\ s.status = "completed" => s.validated

Calls(cs) == {c.call : c \in cs}

\* A row of this kind is about the tool call x.
HasRow(w, kind, x) == \E i \in 1..Len(w) : w[i].kind = kind /\ w[i].call = x

\* No two rows of this kind are about one tool call.
Once(w, kind) ==
    \A i, j \in 1..Len(w) :
        w[i].kind = kind /\ w[j].kind = kind /\ w[i].call = w[j].call => i = j

\* A tool call is pending or resolved, but not both; each was requested once, and
\* the resolved ones were resolved once.
ToolsTracked(w, s) ==
    /\ \A x : HasRow(w, "tool_requested", x) <=> x \in Calls(s.pending) \cup Calls(s.resolved)
    /\ \A x : HasRow(w, "tool_resolved", x) <=> x \in Calls(s.resolved)
    /\ Once(w, "tool_requested") /\ Once(w, "tool_resolved")
    /\ \A x \in Calls(s.pending) : x \notin Calls(s.resolved)

\* An approval that was asked for is pending, or was resolved.
ApprovalsTracked(w, s) ==
    \A i \in 1..Len(w) : w[i].kind = "approval_requested" =>
        \/ \E a \in s.asked : a.approval = w[i].approval /\ a.call = w[i].call
        \/ \E k \in 1..Len(w) : w[k].kind = "approval_resolved" /\ w[k].approval = w[i].approval

Tracked(r, w, s) ==
    /\ RowsTracked(r, w, s) /\ StatusTracked(w, s)
    /\ ToolsTracked(w, s) /\ ApprovalsTracked(w, s)

\* A run without rows.
LEMMA TrackedFromTheStart ==
    ASSUME NEW r
    PROVE  Tracked(r, << >>, InitialRunState(r))
  <1> DEFINE s == InitialRunState(r)
  <1>1. Len(<< >>) = 0 /\ \A i \in 1..0 : FALSE
    OBVIOUS
  <1>2. /\ DOMAIN s = StateFields /\ s.run = r /\ s.last = 0 /\ s.applied = << >>
        /\ s.pids = {} /\ s.started = FALSE /\ s.status = "none" /\ s.validated = FALSE
        /\ s.audited = FALSE /\ s.pending = {} /\ s.resolved = {} /\ s.asked = {}
    BY DEF InitialRunState, StateFields
  <1> HIDE DEF s
  <1>3. RowsTracked(r, << >>, s)
    BY <1>1, <1>2 DEF RowsTracked
  <1>4. StatusTracked(<< >>, s)
    BY <1>1, <1>2 DEF StatusTracked, Occurs
  <1>5. ToolsTracked(<< >>, s) /\ ApprovalsTracked(<< >>, s)
    BY <1>1, <1>2 DEF ToolsTracked, HasRow, Once, Calls, ApprovalsTracked
  <1>6. QED
    BY <1>3, <1>4, <1>5 DEF Tracked, s

\* The fields an event can change, by its kind.
Changes(s, e, t) ==
    /\ t.started = IF e.kind = "started" THEN TRUE ELSE s.started
    /\ t.status = IF e.kind = "terminal" THEN e.value ELSE s.status
    /\ t.validated = IF e.kind = "validated" THEN TRUE ELSE s.validated
    /\ t.audited = IF e.kind = "audit" THEN TRUE ELSE s.audited
    /\ t.pending = IF e.kind = "tool_requested"
                   THEN s.pending \cup {[call |-> e.call, pcall |-> e.pcall]}
                   ELSE IF e.kind = "tool_resolved" THEN {c \in s.pending : c.call # e.call}
                   ELSE s.pending
    /\ t.resolved = IF e.kind = "tool_resolved"
                    THEN s.resolved \cup {[call |-> c.call, pcall |-> c.pcall,
                                           outcome |-> e.value] :
                                          c \in {d \in s.pending : d.call = e.call}}
                    ELSE s.resolved
    /\ t.asked = IF e.kind = "approval_requested"
                 THEN s.asked \cup {[approval |-> e.approval, call |-> e.call]}
                 ELSE IF e.kind = "approval_resolved"
                      THEN {a \in s.asked : a.approval # e.approval}
                 ELSE s.asked

\* An event changes nothing but what its kind says.
LEMMA EffectFields ==
    ASSUME NEW s, DOMAIN s = StateFields, NEW e, e.kind \in Kind, NEW t, t = Effect(s, e)
    PROVE  /\ DOMAIN t = StateFields /\ t.run = s.run /\ t.applied = s.applied /\ t.pids = s.pids
           /\ Changes(s, e, t)
  <1>1. CASE e.kind = "started"
    BY <1>1 DEF Effect, Changes, StateFields
  <1>2. CASE e.kind = "output"
    BY <1>2 DEF Effect, Changes, StateFields
  <1>3. CASE e.kind = "tool_requested"
    BY <1>3 DEF Effect, Changes, StateFields
  <1>4. CASE e.kind = "approval_requested"
    BY <1>4 DEF Effect, Changes, StateFields
  <1>5. CASE e.kind = "approval_resolved"
    BY <1>5 DEF Effect, Changes, StateFields
  <1>6. CASE e.kind = "tool_resolved"
    BY <1>6 DEF Effect, Changes, StateFields
  <1>7. CASE e.kind = "terminal"
    BY <1>7 DEF Effect, Changes, StateFields
  <1>8. CASE e.kind = "validated"
    BY <1>8 DEF Effect, Changes, StateFields
  <1>9. CASE e.kind = "audit"
    BY <1>9 DEF Effect, Changes, StateFields
  <1>10. QED
    BY <1>1, <1>2, <1>3, <1>4, <1>5, <1>6, <1>7, <1>8, <1>9 DEF Kind

\* What the state machine says when it takes e in state s and leaves t.
Takes(s, e, t) ==
    /\ DOMAIN s = StateFields /\ e.kind \in Kind /\ (e.kind = "terminal" => e.value # "none")
    /\ Verdict(s, e) = "appended" /\ t = Advance(s, e)

\* The state after an event, field by field.
LEMMA TakesFields ==
    ASSUME NEW s, NEW e, NEW t, Takes(s, e, t)
    PROVE  /\ DOMAIN t = StateFields /\ t.run = s.run /\ t.last = e.seq
           /\ t.applied = Append(s.applied, e)
           /\ t.pids = IF e.pid = "none" THEN s.pids ELSE s.pids \cup {e.pid}
           /\ Changes(s, e, t)
  <1>1. PICK u : u = Effect(s, e)
    OBVIOUS
  <1>2. /\ DOMAIN u = StateFields /\ u.run = s.run /\ u.applied = s.applied /\ u.pids = s.pids
        /\ Changes(s, e, u)
    BY <1>1, EffectFields DEF Takes
  <1>3. t = [u EXCEPT !.pids = IF e.pid = "none" THEN u.pids ELSE u.pids \cup {e.pid},
                      !.last = e.seq, !.at = e.at, !.applied = Append(u.applied, e)]
    BY <1>1 DEF Takes, Advance
  <1>4. /\ DOMAIN t = StateFields /\ t.run = s.run /\ t.last = e.seq
        /\ t.applied = Append(s.applied, e)
        /\ t.pids = IF e.pid = "none" THEN s.pids ELSE s.pids \cup {e.pid}
    BY <1>2, <1>3 DEF StateFields
  <1>5. /\ t.started = u.started /\ t.status = u.status /\ t.validated = u.validated
        /\ t.audited = u.audited /\ t.pending = u.pending /\ t.resolved = u.resolved
        /\ t.asked = u.asked
    BY <1>2, <1>3 DEF StateFields
  <1>6. Changes(s, e, t)
    BY <1>2, <1>5 DEF Changes
  <1>7. QED
    BY <1>4, <1>6

\* What apply_lifecycle_event has checked when it advances.
LEMMA AppendedMeans ==
    ASSUME NEW s, NEW e, Verdict(s, e) = "appended"
    PROVE  /\ e.run = s.run.id /\ ~(e.seq <= s.last) /\ e.seq = s.last + 1
           /\ \A k \in 1..s.last : s.applied[k].id # e.id
           /\ e.pid = "none" \/ e.pid \notin s.pids
           /\ ~s.audited /\ Transition(s, e) /\ ~Reused(s, e)
  BY DEF Verdict, Closed

-----------------------------------------------------------------------------
(* The event store: one more row *)

\* v is w with the event e after it.
Extended(v, w, e) ==
    /\ Len(w) \in Nat /\ Len(v) = Len(w) + 1 /\ v[Len(w) + 1] = e
    /\ \A i \in 1..Len(w) : v[i] = w[i]

\* Every row is an old one or the new one.
LEMMA RowsOfExtended ==
    ASSUME NEW v, NEW w, NEW e, Extended(v, w, e)
    PROVE  /\ \A i \in 1..Len(v) : i \in 1..Len(w) \/ i = Len(v)
           /\ \A i \in 1..Len(w) : i \in 1..Len(v) /\ v[i] = w[i]
           /\ Len(v) \in 1..Len(v) /\ v[Len(v)] = e /\ Len(v) # 0 /\ Len(v) \notin 1..Len(w)
  BY DEF Extended

\* A kind occurs if it did before or is the new row's.
LEMMA OccursExtended ==
    ASSUME NEW v, NEW w, NEW e, Extended(v, w, e), NEW kind
    PROVE  Occurs(v, kind) <=> Occurs(w, kind) \/ e.kind = kind
  <1>1. /\ \A i \in 1..Len(v) : i \in 1..Len(w) \/ i = Len(v)
        /\ \A i \in 1..Len(w) : i \in 1..Len(v) /\ v[i] = w[i]
        /\ Len(v) \in 1..Len(v) /\ v[Len(v)] = e
    BY RowsOfExtended
  <1>2. QED
    BY <1>1 DEF Occurs

\* The rows, their number and their ids are remembered.
LEMMA RowsStep ==
    ASSUME NEW r, NEW w \in Seq(Event), NEW s, NEW e \in Event, NEW t,
           RowsTracked(r, w, s), Takes(s, e, t)
    PROVE  \E v : /\ v = Append(w, e) /\ Extended(v, w, e)
                  /\ RowsTracked(r, v, t) /\ v[Len(v)].seq = Len(v)
  <1>0. PICK v : v = Append(w, e)
    OBVIOUS
  <1>1. Extended(v, w, e)
    BY <1>0 DEF Extended
  <1>2. e.seq = s.last + 1 /\ s.last = Len(w)
    BY AppendedMeans DEF Takes, RowsTracked
  <1>3. /\ DOMAIN t = StateFields /\ t.run = s.run /\ t.last = e.seq
        /\ t.applied = Append(s.applied, e)
        /\ t.pids = IF e.pid = "none" THEN s.pids ELSE s.pids \cup {e.pid}
        /\ Changes(s, e, t)
    BY TakesFields, Zenon
  <1>4. /\ \A i \in 1..Len(v) : i \in 1..Len(w) \/ i = Len(v)
        /\ \A i \in 1..Len(w) : i \in 1..Len(v) /\ v[i] = w[i]
        /\ Len(v) \in 1..Len(v) /\ v[Len(v)] = e
    BY <1>1, RowsOfExtended
  <1>5. \A p : p \in t.pids <=> p # "none" /\ \E i \in 1..Len(v) : v[i].pid = p
    <2>1. \A p : p \in s.pids <=> p # "none" /\ \E i \in 1..Len(w) : w[i].pid = p
      BY DEF RowsTracked
    <2>2. \A p : (\E i \in 1..Len(v) : v[i].pid = p) <=>
                 (\E i \in 1..Len(w) : w[i].pid = p) \/ e.pid = p
      BY <1>4
    <2>3. QED
      BY <1>3, <2>1, <2>2
  <1>6. t.last = Len(v) /\ v[Len(v)].seq = Len(v)
    BY <1>1, <1>2, <1>3, <1>4 DEF Extended
  <1>7. RowsTracked(r, v, t)
    BY <1>0, <1>3, <1>5, <1>6 DEF RowsTracked
  <1>8. QED
    BY <1>0, <1>1, <1>6, <1>7

\* How far the response has come is remembered.
LEMMA StatusStep ==
    ASSUME NEW w, NEW s, NEW e, NEW t, NEW v, Extended(v, w, e), Takes(s, e, t),
           StatusTracked(w, s)
    PROVE  StatusTracked(v, t)
  <1>0. Changes(s, e, t)
    BY TakesFields
  <1>1. /\ t.started = IF e.kind = "started" THEN TRUE ELSE s.started
        /\ t.status = IF e.kind = "terminal" THEN e.value ELSE s.status
        /\ t.validated = IF e.kind = "validated" THEN TRUE ELSE s.validated
        /\ t.audited = IF e.kind = "audit" THEN TRUE ELSE s.audited
    BY <1>0 DEF Changes
  <1>2. ~s.audited /\ Transition(s, e) /\ e.kind \in Kind
    BY AppendedMeans DEF Takes
  <1>3. /\ \A i \in 1..Len(v) : i \in 1..Len(w) \/ i = Len(v)
        /\ \A i \in 1..Len(w) : i \in 1..Len(v) /\ v[i] = w[i]
        /\ Len(v) \in 1..Len(v) /\ v[Len(v)] = e /\ Len(v) # 0
    BY RowsOfExtended
  <1>4. \A kind : Occurs(v, kind) <=> Occurs(w, kind) \/ e.kind = kind
    BY OccursExtended
  <1>5. s.status # "none" => s.started
    <2>1. Occurs(w, "terminal") => Len(w) # 0
      BY DEF Occurs, Extended
    <2>2. QED
      BY <2>1 DEF StatusTracked
  <1>6. e.kind # "started" => s.started
    BY <1>2, <1>5 DEF Transition, Active, Kind
  <1>7. t.started <=> Len(v) # 0
    BY <1>1, <1>3, <1>6
  <1>8. t.status # "none" <=> Occurs(v, "terminal")
    BY <1>1, <1>4 DEF StatusTracked, Takes
  <1>9. e.kind = "terminal" => s.status = "none"
    BY <1>2 DEF Transition, Active
  <1>10. \A i \in 1..Len(v) : v[i].kind = "terminal" => v[i].value = t.status
    <2>1. CASE e.kind = "terminal"
      <3>1. ~Occurs(w, "terminal")
        BY <1>9, <2>1 DEF StatusTracked
      <3>2. \A i \in 1..Len(v) : v[i].kind = "terminal" => i = Len(v)
        BY <1>3, <3>1 DEF Occurs
      <3>3. QED
        BY <1>1, <1>3, <2>1, <3>2
    <2>2. CASE e.kind # "terminal"
      BY <1>1, <1>3, <2>2 DEF StatusTracked
    <2>3. QED
      BY <2>1, <2>2
  <1>11. /\ t.validated <=> Occurs(v, "validated")
         /\ t.audited <=> Occurs(v, "audit")
    BY <1>1, <1>4 DEF StatusTracked
  <1>12. t.audited => /\ t.status # "none" /\ Idle(t)
                      /\ t.status = "completed" => t.validated
    <2>1. CASE e.kind = "audit"
      <3>1. /\ s.status # "none" /\ Idle(s)
            /\ s.status = "completed" => s.validated
        BY <1>2, <2>1 DEF Transition
      <3>2. t.pending = s.pending /\ t.asked = s.asked
        BY <1>0, <2>1 DEF Changes
      <3>3. QED
        BY <1>1, <2>1, <3>1, <3>2 DEF Idle
    <2>2. CASE e.kind # "audit"
      BY <1>1, <1>2, <2>2
    <2>3. QED
      BY <2>1, <2>2
  <1>13. QED
    BY <1>7, <1>8, <1>10, <1>11, <1>12 DEF StatusTracked

\* An approval that was asked for stays pending until it is resolved.
LEMMA ApprovalsStep ==
    ASSUME NEW w, NEW s, NEW e, NEW t, NEW v, Extended(v, w, e), Takes(s, e, t),
           ApprovalsTracked(w, s)
    PROVE  ApprovalsTracked(v, t)
  <1>0. Changes(s, e, t)
    BY TakesFields
  <1>1. t.asked = IF e.kind = "approval_requested"
                  THEN s.asked \cup {[approval |-> e.approval, call |-> e.call]}
                  ELSE IF e.kind = "approval_resolved"
                       THEN {a \in s.asked : a.approval # e.approval}
                  ELSE s.asked
    BY <1>0 DEF Changes
  <1>2. /\ \A i \in 1..Len(v) : i \in 1..Len(w) \/ i = Len(v)
        /\ \A i \in 1..Len(w) : i \in 1..Len(v) /\ v[i] = w[i]
        /\ Len(v) \in 1..Len(v) /\ v[Len(v)] = e
    BY RowsOfExtended
  <1>3. ASSUME NEW i \in 1..Len(v), v[i].kind = "approval_requested"
        PROVE  \/ \E a \in t.asked : a.approval = v[i].approval /\ a.call = v[i].call
               \/ \E k \in 1..Len(v) :
                     v[k].kind = "approval_resolved" /\ v[k].approval = v[i].approval
    <2>1. CASE i = Len(v)
      <3>1. [approval |-> e.approval, call |-> e.call] \in t.asked
        BY <1>1, <1>2, <1>3, <2>1
      <3>2. QED
        BY <1>2, <2>1, <3>1
    <2>2. CASE i \in 1..Len(w) /\ \E k \in 1..Len(w) :
                 w[k].kind = "approval_resolved" /\ w[k].approval = w[i].approval
      BY <1>2, <2>2
    <2>3. CASE /\ i \in 1..Len(w)
               /\ \E a \in s.asked : a.approval = w[i].approval /\ a.call = w[i].call
      <3>1. PICK a \in s.asked : a.approval = w[i].approval /\ a.call = w[i].call
        BY <2>3
      <3>2. CASE e.kind = "approval_resolved" /\ a.approval = e.approval
        BY <1>2, <2>3, <3>1, <3>2
      <3>3. CASE ~(e.kind = "approval_resolved" /\ a.approval = e.approval)
        <4>1. a \in t.asked
          BY <1>1, <3>3
        <4>2. QED
          BY <1>2, <2>3, <3>1, <4>1
      <3>4. QED
        BY <3>2, <3>3
    <2>4. QED
      BY <1>2, <1>3, <2>1, <2>2, <2>3 DEF ApprovalsTracked
  <1>4. QED
    BY <1>3 DEF ApprovalsTracked

\* A call has a row of a kind if it had one or the new row is it.
LEMMA HasRowExtended ==
    ASSUME NEW v, NEW w, NEW e, Extended(v, w, e), NEW kind, NEW x
    PROVE  HasRow(v, kind, x) <=> HasRow(w, kind, x) \/ (e.kind = kind /\ e.call = x)
  <1>1. /\ \A i \in 1..Len(v) : i \in 1..Len(w) \/ i = Len(v)
        /\ \A i \in 1..Len(w) : i \in 1..Len(v) /\ v[i] = w[i]
        /\ Len(v) \in 1..Len(v) /\ v[Len(v)] = e
    BY RowsOfExtended
  <1>2. QED
    BY <1>1 DEF HasRow

\* A kind stays unrepeated if the new row's call had no row of it.
LEMMA OnceExtended ==
    ASSUME NEW v, NEW w, NEW e, Extended(v, w, e), NEW kind, Once(w, kind),
           e.kind = kind => ~HasRow(w, kind, e.call)
    PROVE  Once(v, kind)
  <1>1. /\ \A i \in 1..Len(v) : i \in 1..Len(w) \/ i = Len(v)
        /\ \A i \in 1..Len(w) : v[i] = w[i]
        /\ v[Len(v)] = e
    BY RowsOfExtended
  <1>2. ASSUME NEW i \in 1..Len(v), NEW j \in 1..Len(v),
               v[i].kind = kind, v[j].kind = kind, v[i].call = v[j].call
        PROVE  i = j
    <2>1. CASE i \in 1..Len(w) /\ j \in 1..Len(w)
      BY <1>1, <1>2, <2>1 DEF Once
    <2>2. CASE i \in 1..Len(w) /\ j = Len(v)
      BY <1>1, <1>2, <2>2 DEF HasRow
    <2>3. CASE i = Len(v) /\ j \in 1..Len(w)
      BY <1>1, <1>2, <2>3 DEF HasRow
    <2>4. QED
      BY <1>1, <2>1, <2>2, <2>3
  <1>3. QED
    BY <1>2 DEF Once

\* The calls that are pending and those that are resolved.
LEMMA CallsStep ==
    ASSUME NEW s, NEW e, NEW t, Takes(s, e, t)
    PROVE  /\ e.kind = "tool_requested" =>
                 /\ Calls(t.pending) = Calls(s.pending) \cup {e.call}
                 /\ Calls(t.resolved) = Calls(s.resolved)
                 /\ e.call \notin Calls(s.pending) \cup Calls(s.resolved)
           /\ e.kind = "tool_resolved" =>
                 /\ Calls(t.pending) = Calls(s.pending) \ {e.call}
                 /\ Calls(t.resolved) = Calls(s.resolved) \cup {e.call}
                 /\ e.call \in Calls(s.pending)
           /\ e.kind \notin {"tool_requested", "tool_resolved"} =>
                 t.pending = s.pending /\ t.resolved = s.resolved
  <1>1. Changes(s, e, t)
    BY TakesFields
  <1>2. Transition(s, e) /\ ~Reused(s, e)
    BY AppendedMeans DEF Takes
  <1>3. ASSUME e.kind = "tool_requested"
        PROVE  /\ Calls(t.pending) = Calls(s.pending) \cup {e.call}
               /\ Calls(t.resolved) = Calls(s.resolved)
               /\ e.call \notin Calls(s.pending) \cup Calls(s.resolved)
    <2>1. PICK p : p = [call |-> e.call, pcall |-> e.pcall]
      OBVIOUS
    <2>2. t.pending = s.pending \cup {p} /\ p.call = e.call /\ t.resolved = s.resolved
      BY <1>1, <1>3, <2>1 DEF Changes
    <2>3. \A c \in s.pending \cup s.resolved : c.call # e.call
      BY <1>2, <1>3 DEF Reused
    <2>4. QED
      BY <2>2, <2>3 DEF Calls
  <1>4. ASSUME e.kind = "tool_resolved"
        PROVE  /\ Calls(t.pending) = Calls(s.pending) \ {e.call}
               /\ Calls(t.resolved) = Calls(s.resolved) \cup {e.call}
               /\ e.call \in Calls(s.pending)
    <2> DEFINE Moved == {[call |-> c.call, pcall |-> c.pcall, outcome |-> e.value] :
                         c \in {d \in s.pending : d.call = e.call}}
    <2>1. PICK p \in s.pending : p.call = e.call
      BY <1>2, <1>4 DEF Transition, MayResolveTool
    <2>2. t.pending = {c \in s.pending : c.call # e.call} /\ t.resolved = s.resolved \cup Moved
      BY <1>1, <1>4 DEF Changes
    <2>3. \A c \in Moved : c.call = e.call
      OBVIOUS
    <2>4. [call |-> p.call, pcall |-> p.pcall, outcome |-> e.value] \in Moved
      BY <2>1
    <2> HIDE DEF Moved
    <2>5. \E c \in Moved : c.call = e.call
      BY <2>3, <2>4
    <2>6. Calls(t.resolved) = Calls(s.resolved) \cup {e.call}
      BY <2>2, <2>3, <2>5 DEF Calls
    <2>7. Calls(t.pending) = Calls(s.pending) \ {e.call}
      BY <2>2 DEF Calls
    <2>8. e.call \in Calls(s.pending)
      BY <2>1 DEF Calls
    <2>9. QED
      BY <2>6, <2>7, <2>8
  <1>5. ASSUME e.kind \notin {"tool_requested", "tool_resolved"}
        PROVE  t.pending = s.pending /\ t.resolved = s.resolved
    BY <1>1, <1>5 DEF Changes
  <1>6. QED
    BY <1>3, <1>4, <1>5

\* The requests and the resolutions of tool calls are remembered.
LEMMA ToolsStep ==
    ASSUME NEW w, NEW s, NEW e, NEW t, NEW v, Extended(v, w, e), Takes(s, e, t),
           ToolsTracked(w, s)
    PROVE  ToolsTracked(v, t)
  <1>1. \A kind, x : HasRow(v, kind, x) <=> HasRow(w, kind, x) \/ (e.kind = kind /\ e.call = x)
    BY HasRowExtended
  <1>2. /\ \A x : HasRow(w, "tool_requested", x) <=> x \in Calls(s.pending) \cup Calls(s.resolved)
        /\ \A x : HasRow(w, "tool_resolved", x) <=> x \in Calls(s.resolved)
        /\ \A x \in Calls(s.pending) : x \notin Calls(s.resolved)
    BY DEF ToolsTracked
  <1>3. Once(w, "tool_requested") /\ Once(w, "tool_resolved")
    BY DEF ToolsTracked
  <1>4. CASE e.kind = "tool_requested"
    <2>1. /\ Calls(t.pending) = Calls(s.pending) \cup {e.call}
          /\ Calls(t.resolved) = Calls(s.resolved)
          /\ e.call \notin Calls(s.pending) \cup Calls(s.resolved)
      BY <1>4, CallsStep
    <2>2. ~HasRow(w, "tool_requested", e.call)
      BY <1>2, <2>1
    <2>3. Once(v, "tool_requested") /\ Once(v, "tool_resolved")
      BY <1>3, <1>4, <2>2, OnceExtended
    <2>4. QED
      BY <1>1, <1>2, <1>4, <2>1, <2>3 DEF ToolsTracked
  <1>5. CASE e.kind = "tool_resolved"
    <2>1. /\ Calls(t.pending) = Calls(s.pending) \ {e.call}
          /\ Calls(t.resolved) = Calls(s.resolved) \cup {e.call}
          /\ e.call \in Calls(s.pending)
      BY <1>5, CallsStep
    <2>2. ~HasRow(w, "tool_resolved", e.call)
      BY <1>2, <2>1
    <2>3. Once(v, "tool_requested") /\ Once(v, "tool_resolved")
      BY <1>3, <1>5, <2>2, OnceExtended
    <2>4. QED
      BY <1>1, <1>2, <1>5, <2>1, <2>3 DEF ToolsTracked
  <1>6. CASE e.kind \notin {"tool_requested", "tool_resolved"}
    <2>1. t.pending = s.pending /\ t.resolved = s.resolved
      BY <1>6, CallsStep
    <2>2. Once(v, "tool_requested") /\ Once(v, "tool_resolved")
      BY <1>3, <1>6, OnceExtended
    <2>3. QED
      BY <1>1, <1>2, <1>6, <2>1, <2>2 DEF ToolsTracked
  <1>7. QED
    BY <1>4, <1>5, <1>6

-----------------------------------------------------------------------------
(* The event store: every row is legal *)

\* What comes before a row stays what it was.
LEMMA BeforeExtended ==
    ASSUME NEW v, NEW w, NEW e, Extended(v, w, e), NEW j \in 1..Len(v), NEW kinds
    PROVE  /\ Before(v, j, kinds) = Before(w, j, kinds)
           /\ \A i \in Before(w, j, kinds) : i \in 1..Len(w) /\ v[i] = w[i]
  <1>1. \A i \in 1..(j - 1) : i \in 1..Len(w) /\ v[i] = w[i]
    BY DEF Extended
  <1>2. QED
    BY <1>1 DEF Before

\* What comes later says nothing about a row.
LEMMA EarlierRowIsLegal ==
    ASSUME NEW v, NEW w, NEW e, Extended(v, w, e), NEW j \in 1..Len(w), RowIsLegal(w, j)
    PROVE  RowIsLegal(v, j)
  <1>1. j \in 1..Len(v) /\ v[j] = w[j]
    BY RowsOfExtended
  <1>2. \A kinds : /\ Before(v, j, kinds) = Before(w, j, kinds)
                   /\ \A i \in Before(w, j, kinds) : v[i] = w[i]
    BY <1>1, BeforeExtended
  <1>3. {i \in Before(v, j, {"tool_requested"}) : v[i].call = v[j].call}
          = {i \in Before(w, j, {"tool_requested"}) : w[i].call = w[j].call}
    BY <1>1, <1>2
  <1>4. \A c : {i \in Before(v, j, {"tool_resolved"}) : v[i].call = c}
                 = {i \in Before(w, j, {"tool_resolved"}) : w[i].call = c}
    BY <1>2
  <1>5. w[j].seq = j /\ (w[j].kind = "started") = (j = 1) /\ Before(w, j, {"audit"}) = {}
        /\ (Before(w, j, {"terminal"}) # {} => w[j].kind \in {"validated", "audit"})
    BY DEF RowIsLegal
  <1>6. w[j].kind \in {"tool_resolved", "approval_requested"} =>
          Cardinality({i \in Before(v, j, {"tool_requested"}) : v[i].call = v[j].call}) = 1
    BY <1>3 DEF RowIsLegal
  <1>7. w[j].kind \in {"tool_resolved", "terminal"} =>
          \A i \in Before(v, j, {"approval_requested"}) :
             \/ w[j].kind = "tool_resolved" /\ v[i].call # v[j].call
             \/ \E k \in Before(v, j, {"approval_resolved"}) : v[k].approval = v[i].approval
    <2>1. w[j].kind \in {"tool_resolved", "terminal"} =>
            \A i \in Before(w, j, {"approval_requested"}) :
               \/ w[j].kind = "tool_resolved" /\ w[i].call # w[j].call
               \/ \E k \in Before(w, j, {"approval_resolved"}) : w[k].approval = w[i].approval
      BY DEF RowIsLegal
    <2>2. QED
      BY <1>1, <1>2, <2>1
  <1>8. w[j].kind = "terminal" =>
          \A i \in Before(v, j, {"tool_requested"}) :
             Cardinality({k \in Before(v, j, {"tool_resolved"}) : v[k].call = v[i].call}) = 1
    <2>1. w[j].kind = "terminal" =>
            \A i \in Before(w, j, {"tool_requested"}) :
               Cardinality({k \in Before(w, j, {"tool_resolved"}) : w[k].call = w[i].call}) = 1
      BY DEF RowIsLegal
    <2>2. ASSUME w[j].kind = "terminal", NEW i \in Before(v, j, {"tool_requested"})
          PROVE  Cardinality({k \in Before(v, j, {"tool_resolved"}) : v[k].call = v[i].call}) = 1
      <3>1. i \in Before(w, j, {"tool_requested"}) /\ v[i] = w[i]
        BY <1>2
      <3>2. Cardinality({k \in Before(w, j, {"tool_resolved"}) : w[k].call = w[i].call}) = 1
        BY <2>1, <2>2, <3>1
      <3>3. {k \in Before(v, j, {"tool_resolved"}) : v[k].call = w[i].call}
              = {k \in Before(w, j, {"tool_resolved"}) : w[k].call = w[i].call}
        BY <1>4
      <3>4. QED
        BY <3>1, <3>2, <3>3
    <2>3. QED
      BY <2>2
  <1>9. w[j].kind = "audit" =>
          \E i \in Before(v, j, {"terminal"}) :
             v[i].value = "completed" => Before(v, j, {"validated"}) # {}
    <2>1. w[j].kind = "audit" =>
            \E i \in Before(w, j, {"terminal"}) :
               w[i].value = "completed" => Before(w, j, {"validated"}) # {}
      BY DEF RowIsLegal
    <2>2. QED
      BY <1>2, <2>1
  <1>10. QED
    BY <1>1, <1>2, <1>5, <1>6, <1>7, <1>8, <1>9 DEF RowIsLegal

\* The row the state machine takes is legal after those it has.
LEMMA LatestRowIsLegal ==
    ASSUME NEW w, NEW s, NEW e, NEW t, NEW v, Extended(v, w, e), Takes(s, e, t),
           StatusTracked(w, s), ToolsTracked(w, s), ApprovalsTracked(w, s),
           NEW j, j = Len(v), e.seq = j
    PROVE  RowIsLegal(v, j)
  <1>1. /\ \A i \in 1..Len(w) : v[i] = w[i]
        /\ j \in 1..Len(v) /\ v[j] = e
    BY RowsOfExtended
  <1>2. \A kinds : Before(v, j, kinds) = {i \in 1..Len(w) : w[i].kind \in kinds}
    <2>1. j - 1 = Len(w)
      BY DEF Extended
    <2>2. QED
      BY <1>1, <2>1 DEF Before
  <1>3. ~s.audited /\ Transition(s, e) /\ e.kind \in Kind
    BY AppendedMeans DEF Takes
  <1>4. (e.kind = "started") = (j = 1)
    <2>1. s.status # "none" => s.started
      <3>1. Occurs(w, "terminal") => Len(w) # 0
        BY DEF Occurs, Extended
      <3>2. QED
        BY <3>1 DEF StatusTracked
    <2>2. e.kind = "started" <=> ~s.started
      BY <1>3, <2>1 DEF Transition, Active, Kind
    <2>3. j = 1 <=> Len(w) = 0
      BY DEF Extended
    <2>4. QED
      BY <2>2, <2>3 DEF StatusTracked
  <1>5. Before(v, j, {"audit"}) = {}
    BY <1>2, <1>3 DEF StatusTracked, Occurs
  <1>6. Before(v, j, {"terminal"}) # {} => e.kind \in {"validated", "audit"}
    <2>1. Before(v, j, {"terminal"}) # {} => s.status # "none"
      BY <1>2 DEF StatusTracked, Occurs
    <2>2. s.status # "none" => e.kind \in {"validated", "audit"}
      BY <1>3 DEF Transition, Active, Kind
    <2>3. QED
      BY <2>1, <2>2
  <1>7. ASSUME e.kind \in {"tool_resolved", "approval_requested"}
        PROVE  Cardinality({i \in Before(v, j, {"tool_requested"}) : v[i].call = v[j].call}) = 1
    <2>1. PICK c \in s.pending : c.call = e.call
      BY <1>3, <1>7 DEF Transition, MayResolveTool
    <2>2. PICK i \in 1..Len(w) : w[i].kind = "tool_requested" /\ w[i].call = e.call
      <3>1. e.call \in Calls(s.pending)
        BY <2>1 DEF Calls
      <3>2. QED
        BY <3>1 DEF ToolsTracked, HasRow
    <2>3. \A k \in 1..Len(w) : w[k].kind = "tool_requested" /\ w[k].call = e.call => k = i
      BY <2>2 DEF ToolsTracked, Once
    <2>4. {k \in Before(v, j, {"tool_requested"}) : v[k].call = v[j].call} = {i}
      BY <1>1, <1>2, <2>2, <2>3
    <2>5. QED
      BY <2>4, FS_Singleton
  <1>8. ASSUME e.kind \in {"tool_resolved", "terminal"},
               NEW i \in Before(v, j, {"approval_requested"})
        PROVE  \/ e.kind = "tool_resolved" /\ v[i].call # v[j].call
               \/ \E k \in Before(v, j, {"approval_resolved"}) : v[k].approval = v[i].approval
    <2>1. i \in 1..Len(w) /\ w[i].kind = "approval_requested" /\ v[i] = w[i]
      BY <1>1, <1>2, <1>8
    <2>2. CASE \E a \in s.asked : a.approval = w[i].approval /\ a.call = w[i].call
      <3>1. e.kind = "tool_resolved" /\ w[i].call # e.call
        BY <1>3, <1>8, <2>2 DEF Transition, MayResolveTool, Idle
      <3>2. QED
        BY <1>1, <2>1, <3>1
    <2>3. CASE \E k \in 1..Len(w) : w[k].kind = "approval_resolved" /\ w[k].approval = w[i].approval
      BY <1>1, <1>2, <2>1, <2>3
    <2>4. QED
      BY <2>1, <2>2, <2>3 DEF ApprovalsTracked
  <1>9. ASSUME e.kind = "terminal", NEW i \in Before(v, j, {"tool_requested"})
        PROVE  Cardinality({k \in Before(v, j, {"tool_resolved"}) : v[k].call = v[i].call}) = 1
    <2>1. i \in 1..Len(w) /\ w[i].kind = "tool_requested" /\ v[i] = w[i]
      BY <1>1, <1>2, <1>9
    <2>2. s.pending = {}
      BY <1>3, <1>9 DEF Transition, Idle
    <2>3. w[i].call \in Calls(s.pending) \cup Calls(s.resolved)
      BY <2>1 DEF ToolsTracked, HasRow
    <2>4. PICK k \in 1..Len(w) : w[k].kind = "tool_resolved" /\ w[k].call = w[i].call
      <3>1. w[i].call \in Calls(s.resolved)
        BY <2>2, <2>3 DEF Calls
      <3>2. QED
        BY <3>1 DEF ToolsTracked, HasRow
    <2>5. \A l \in 1..Len(w) : w[l].kind = "tool_resolved" /\ w[l].call = w[i].call => l = k
      BY <2>4 DEF ToolsTracked, Once
    <2>6. {l \in Before(v, j, {"tool_resolved"}) : v[l].call = v[i].call} = {k}
      BY <1>1, <1>2, <2>1, <2>4, <2>5
    <2>7. QED
      BY <2>6, FS_Singleton
  <1>10. ASSUME e.kind = "audit"
         PROVE  \E i \in Before(v, j, {"terminal"}) :
                   v[i].value = "completed" => Before(v, j, {"validated"}) # {}
    <2>1. s.status # "none" /\ (s.status = "completed" => s.validated)
      BY <1>3, <1>10 DEF Transition
    <2>2. PICK i \in 1..Len(w) : w[i].kind = "terminal"
      BY <2>1 DEF StatusTracked, Occurs
    <2>3. w[i].value = s.status /\ i \in Before(v, j, {"terminal"}) /\ v[i] = w[i]
      BY <1>1, <1>2, <2>2 DEF StatusTracked
    <2>4. s.validated => Before(v, j, {"validated"}) # {}
      BY <1>2 DEF StatusTracked, Occurs
    <2>5. QED
      BY <2>1, <2>3, <2>4
  <1>11. QED
    BY <1>1, <1>4, <1>5, <1>6, <1>7, <1>8, <1>9, <1>10 DEF RowIsLegal

\* The rows of a run replay to a state that remembers them, and each is legal.
Sound(r, w) ==
    /\ w \in Seq(Event) /\ \A j \in 1..Len(w) : RowIsLegal(w, j)
    /\ ReplayRows(r, w) = [ok |-> TRUE, s |-> ReplayRows(r, w).s]
    /\ Tracked(r, w, ReplayRows(r, w).s)

\* A run without rows is sound.
LEMMA SoundFromTheStart ==
    ASSUME NEW r
    PROVE  Sound(r, << >>)
  <1>1. ReplayRows(r, << >>) = [ok |-> TRUE, s |-> InitialRunState(r)]
    BY ReplayOfNone DEF Fresh
  <1>2. ReplayRows(r, << >>).s = InitialRunState(r)
    BY <1>1
  <1>3. << >> \in Seq(Event) /\ \A j \in 1..Len(<< >>) : FALSE
    OBVIOUS
  <1>4. Tracked(r, << >>, InitialRunState(r))
    BY TrackedFromTheStart
  <1>5. QED
    BY <1>1, <1>2, <1>3, <1>4 DEF Sound

\* A row that the state machine takes keeps the rows of its run sound.
LEMMA SoundStep ==
    ASSUME NEW r, NEW w, Sound(r, w), NEW e \in Event,
           Verdict(ReplayRows(r, w).s, e) = "appended"
    PROVE  Sound(r, Append(w, e))
  <1>1. PICK s : s = ReplayRows(r, w).s
    OBVIOUS
  <1>2. PICK t : t = Advance(s, e)
    OBVIOUS
  <1>3. /\ w \in Seq(Event) /\ Tracked(r, w, s) /\ RowsTracked(r, w, s)
        /\ ReplayRows(r, w) = [ok |-> TRUE, s |-> s]
    BY <1>1 DEF Sound, Tracked
  <1>4. Takes(s, e, t)
    BY <1>1, <1>2, <1>3, EventStoreAssumption DEF Takes, RowsTracked
  <1>5. PICK v : /\ v = Append(w, e) /\ Extended(v, w, e)
                 /\ RowsTracked(r, v, t) /\ v[Len(v)].seq = Len(v)
    BY <1>3, <1>4, RowsStep
  <1>6. ReplayRows(r, v) = [ok |-> TRUE, s |-> t]
    <2>1. ReplayRows(r, Append(w, e)) = ReplayRow(ReplayRows(r, w), e)
      BY <1>3, ReplayOfAppend
    <2>2. ReplayRows(r, v) = ReplayRow([ok |-> TRUE, s |-> s], e)
      BY <1>3, <1>5, <2>1
    <2>3. Verdict([ok |-> TRUE, s |-> s].s, e) = "appended"
      BY <1>1
    <2>4. QED
      BY <1>2, <2>2, <2>3 DEF ReplayRow
  <1>7. RowsTracked(r, v, t) /\ Extended(v, w, e) /\ v[Len(v)].seq = Len(v)
    BY <1>5
  <1>8. StatusTracked(v, t) /\ ToolsTracked(v, t) /\ ApprovalsTracked(v, t)
    BY <1>3, <1>4, <1>7, StatusStep, ToolsStep, ApprovalsStep DEF Tracked
  <1>9. e.seq = Len(v)
    BY <1>7, RowsOfExtended
  <1>10. RowIsLegal(v, Len(v))
    BY <1>3, <1>4, <1>7, <1>9, LatestRowIsLegal DEF Tracked
  <1>11. \A j \in 1..Len(v) : RowIsLegal(v, j)
    <2>1. \A j \in 1..Len(w) : RowIsLegal(v, j)
      BY <1>7, EarlierRowIsLegal DEF Sound
    <2>2. \A j \in 1..Len(v) : j \in 1..Len(w) \/ j = Len(v)
      BY <1>7, RowsOfExtended
    <2>3. QED
      BY <1>10, <2>1, <2>2
  <1>12. v \in Seq(Event)
    BY <1>3, <1>5
  <1>13. ReplayRows(r, v).s = t
    BY <1>6
  <1>14. Sound(r, v)
    BY <1>6, <1>7, <1>8, <1>11, <1>12, <1>13 DEF Sound, Tracked
  <1>15. QED
    BY <1>5, <1>14

-----------------------------------------------------------------------------
(* The event store: every history is well formed *)

RowsOf(r) == {e \in events : e.run = r.id}

\* A run's id is its own, an event's run is there, and the stored rows of a run,
\* in their order, replay to a state that remembers them.
Histories ==
    /\ \A q, r \in runs : q.id = r.id => q = r
    /\ \A r \in runs : \E w : Numbered(RowsOf(r), w) /\ Sound(r, w)
    /\ \A e \in events : \E r \in runs : r.id = e.run

\* The store reads the rows of a run in the order of their sequence numbers.
LEMMA RowsAreSorted ==
    ASSUME NEW r, NEW w, Numbered(RowsOf(r), w)
    PROVE  Rows(r) = w
  BY NumberedIsSorted DEF Rows, RowsOf

\* The next sequence number goes to the end.
LEMMA NumberedExtends ==
    ASSUME NEW S, NEW w, Numbered(S, w), NEW e \in Event, e.seq = Len(w) + 1
    PROVE  Numbered(S \cup {e}, Append(w, e))
  <1>1. PICK v : v = Append(w, e)
    OBVIOUS
  <1>2. w \in Seq(Event) /\ S = {w[k] : k \in 1..Len(w)} /\ \A k \in 1..Len(w) : w[k].seq = k
    BY DEF Numbered
  <1>3. v \in Seq(Event) /\ Extended(v, w, e)
    BY <1>1, <1>2 DEF Extended
  <1>4. /\ \A i \in 1..Len(v) : i \in 1..Len(w) \/ i = Len(v)
        /\ \A i \in 1..Len(w) : i \in 1..Len(v) /\ v[i] = w[i]
        /\ Len(v) \in 1..Len(v) /\ v[Len(v)] = e
    BY <1>3, RowsOfExtended
  <1>5. S \cup {e} = {v[k] : k \in 1..Len(v)}
    BY <1>2, <1>4
  <1>6. \A k \in 1..Len(v) : v[k].seq = k
    <2>1. e.seq = Len(v)
      BY <1>3 DEF Extended
    <2>2. QED
      BY <1>2, <1>4, <2>1
  <1>7. Numbered(S \cup {e}, v)
    BY <1>3, <1>5, <1>6 DEF Numbered
  <1>8. QED
    BY <1>1, <1>7

\* The run of an event that is appended, whose replay takes it.
LEMMA AppendedToItsRun ==
    ASSUME Histories, NEW e, EventAnswer(e) = "appended"
    PROVE  \E r \in runs : r.id = e.run /\ Verdict(Replay(r).s, e) = "appended"
  <1> DEFINE its == {r \in runs : r.id = e.run}
  <1>1. its # {}
    BY DEF EventAnswer
  <1>2. PICK r : r = CHOOSE x \in its : TRUE
    OBVIOUS
  <1>3. r \in its
    BY <1>1, <1>2
  <1>4. Verdict(Replay(r).s, e) = "appended"
    BY <1>2 DEF EventAnswer
  <1>5. QED
    BY <1>3, <1>4

\* append_event adds the next row of one run.
LEMMA AppendEventHistories ==
    ASSUME Histories, NEW e \in Event, AppendEvent(e)
    PROVE  Histories'
  <1>1. CASE answer' # "appended"
    BY <1>1 DEF AppendEvent, Histories, RowsOf
  <1>2. CASE answer' = "appended"
    <2>1. runs' = runs /\ events' = events \cup {e} /\ EventAnswer(e) = "appended"
      BY <1>2 DEF AppendEvent
    <2>2. PICK r \in runs : r.id = e.run /\ Verdict(Replay(r).s, e) = "appended"
      BY <2>1, AppendedToItsRun
    <2>3. PICK w : Numbered(RowsOf(r), w) /\ Sound(r, w)
      BY DEF Histories
    <2>4. Verdict(ReplayRows(r, w).s, e) = "appended"
      BY <2>2, <2>3, RowsAreSorted DEF Replay
    <2>5. Sound(r, Append(w, e))
      BY <2>3, <2>4, SoundStep
    <2>6. e.seq = Len(w) + 1
      BY <2>3, <2>4, AppendedMeans DEF Sound, Tracked, RowsTracked
    <2>7. Numbered(RowsOf(r) \cup {e}, Append(w, e))
      BY <2>3, <2>6, NumberedExtends
    <2>8. \A q \in runs : RowsOf(q)' = IF q = r THEN RowsOf(q) \cup {e} ELSE RowsOf(q)
      BY <2>1, <2>2 DEF RowsOf, Histories
    <2>9. \A q \in runs : \E v : Numbered(RowsOf(q)', v) /\ Sound(q, v)
      BY <2>5, <2>7, <2>8 DEF Histories
    <2>10. \A d \in events' : \E q \in runs : q.id = d.run
      BY <2>1, <2>2 DEF Histories
    <2>11. QED
      BY <2>1, <2>9, <2>10 DEF Histories
  <1>3. QED
    BY <1>1, <1>2

\* register_run adds a run under a new id, which has no rows.
LEMMA RegisterRunHistories ==
    ASSUME Histories, NEW r \in Run, RegisterRun(r)
    PROVE  Histories'
  <1>1. CASE answer' # "appended"
    BY <1>1 DEF RegisterRun, Histories, RowsOf
  <1>2. CASE answer' = "appended"
    <2>1. runs' = runs \cup {r} /\ events' = events
      BY <1>2 DEF RegisterRun
    <2>2. \A q \in runs : q.id # r.id
      BY <1>2 DEF RegisterRun, RunAnswer
    <2>3. RowsOf(r) = {}
      BY <2>2 DEF RowsOf, Histories
    <2>4. Numbered({}, << >>)
      BY DEF Numbered
    <2>5. \A q : RowsOf(q)' = RowsOf(q)
      BY <2>1 DEF RowsOf
    <2>6. \A q \in runs' : \E v : Numbered(RowsOf(q)', v) /\ Sound(q, v)
      BY <2>1, <2>3, <2>4, <2>5, SoundFromTheStart DEF Histories
    <2>7. \A p, q \in runs' : p.id = q.id => p = q
      BY <2>1, <2>2 DEF Histories
    <2>8. \A d \in events' : \E q \in runs' : q.id = d.run
      BY <2>1 DEF Histories
    <2>9. QED
      BY <2>6, <2>7, <2>8 DEF Histories
  <1>3. QED
    BY <1>1, <1>2

\* The other operations leave runs and events alone.
LEMMA HistoriesStay == Histories /\ [Next]_vars => Histories'
  <1> SUFFICES ASSUME Histories, [Next]_vars PROVE Histories'
    OBVIOUS
  <1>1. ASSUME UNCHANGED <<runs, events>> PROVE Histories'
    BY <1>1 DEF Histories, RowsOf
  <1>2. ASSUME NEW c \in Conversation, RegisterConversation(c) PROVE Histories'
    BY <1>1, <1>2 DEF RegisterConversation
  <1>3. ASSUME NEW t \in Turn, RegisterTurn(t) PROVE Histories'
    BY <1>1, <1>3 DEF RegisterTurn
  <1>4. ASSUME NEW r \in Run, RegisterRun(r) PROVE Histories'
    BY <1>4, RegisterRunHistories
  <1>5. ASSUME NEW e \in Event, AppendEvent(e) PROVE Histories'
    BY <1>5, AppendEventHistories
  <1>6. ASSUME Interrupted \/ UNCHANGED vars \/ \E row : Damage(row) PROVE Histories'
    BY <1>1, <1>6 DEF Interrupted, Damage, vars, tables
  <1> QED BY <1>2, <1>3, <1>4, <1>5, <1>6 DEF Next

\* The store answers to an event of a run what the state machine would, but for
\* the ids.
LEMMA StoreAgrees ==
    ASSUME Histories, damaged = {}, NEW r \in runs, NEW e \in Event, e.run = r.id,
           NEW verdict, verdict = Verdict(Replay(r).s, e)
    PROVE  /\ EventAnswer(e) = IF e \notin events /\ Namesakes(e) # {} THEN "conflict" ELSE verdict
           /\ verdict = "appended" => \A d \in Namesakes(e) : d.run # e.run
  <1>1. PICK w : Numbered(RowsOf(r), w) /\ Sound(r, w)
    BY DEF Histories
  <1>2. PICK s : s = Replay(r).s
    OBVIOUS
  <1>3. Replay(r).ok /\ Tracked(r, w, s)
    <2>1. Replay(r) = ReplayRows(r, w)
      BY <1>1, RowsAreSorted DEF Replay
    <2>2. ReplayRows(r, w).ok
      BY <1>1 DEF Sound
    <2>3. QED
      BY <1>1, <1>2, <2>1, <2>2 DEF Sound
  <1>4. s.run = r /\ s.last = Len(w) /\ s.applied = w
    BY <1>3 DEF Tracked, RowsTracked
  <1>5. /\ RowsOf(r) = {w[k] : k \in 1..Len(w)} /\ \A k \in 1..Len(w) : w[k].seq = k
        /\ Len(w) \in Nat /\ e.seq \in Nat \ {0}
    BY <1>1, EventStoreAssumption DEF Numbered
  <1>6. \A rows : ~Corrupt(rows)
    BY DEF Corrupt
  <1> DEFINE its == {q \in runs : q.id = e.run}
             there == {d \in RowsOf(r) : d.seq = e.seq}
  <1>7. its = {r} /\ RowsOf(r) = {d \in events : d.run = e.run}
    BY DEF Histories, RowsOf
  <1>8. (CHOOSE q \in its : TRUE) = r
    BY <1>7
  <1>9. EventAnswer(e) =
          IF e \in there THEN "duplicate"
          ELSE IF there # {} THEN "conflict"
          ELSE IF \E d \in events : d.id = e.id THEN "conflict"
          ELSE IF e.pid # "none" /\ \E d \in RowsOf(r) : d.pid = e.pid THEN "conflict"
          ELSE verdict
    BY <1>3, <1>6, <1>7, <1>8 DEF EventAnswer
  <1>10. e \in events <=> e \in there
    BY <1>7
  <1>11. verdict = "appended" => \A d \in Namesakes(e) : d.run # e.run
    <2>1. ASSUME verdict = "appended", NEW d \in Namesakes(e), d.run = e.run PROVE FALSE
      <3>1. PICK k \in 1..Len(w) : d = w[k]
        BY <1>5, <1>7, <2>1 DEF Namesakes
      <3>2. w[k].id # e.id
        <4>1. Verdict(s, e) = "appended"
          BY <1>2, <2>1
        <4>2. \A i \in 1..s.last : s.applied[i].id # e.id
          BY <4>1, AppendedMeans
        <4>3. QED
          BY <1>4, <4>2
      <3>3. e.pid # "none" /\ e.pid = w[k].pid
        BY <2>1, <3>1, <3>2 DEF Namesakes
      <3>4. e.pid \in s.pids
        BY <1>3, <3>3 DEF Tracked, RowsTracked
      <3>5. QED
        BY <1>2, <2>1, <3>3, <3>4, AppendedMeans
    <2>2. QED
      BY <2>1
  <1>12. CASE e \in events
    <2>1. EventAnswer(e) = "duplicate"
      BY <1>9, <1>10, <1>12
    <2>2. PICK k \in 1..Len(w) : e = w[k]
      BY <1>5, <1>7, <1>12
    <2>3. e.seq = k /\ e.seq <= s.last /\ s.applied[e.seq] = e
      BY <1>4, <1>5, <2>2
    <2>4. verdict = "duplicate"
      BY <1>2, <1>4, <2>3 DEF Verdict, IsReplay
    <2>5. QED
      BY <1>11, <1>12, <2>1, <2>4
  <1>13. CASE e \notin events /\ e.seq <= Len(w)
    <2>1. e.seq \in 1..Len(w) /\ w[e.seq] \in RowsOf(r) /\ w[e.seq].seq = e.seq
      BY <1>5, <1>13
    <2>2. EventAnswer(e) = "conflict"
      BY <1>9, <1>10, <1>13, <2>1
    <2>3. s.applied[e.seq] # e
      BY <1>4, <1>7, <1>13, <2>1
    <2>4. verdict = "conflict"
      BY <1>2, <1>4, <1>13, <2>3 DEF Verdict, IsReplay
    <2>5. QED
      BY <1>11, <2>2, <2>4
  <1>14. CASE e \notin events /\ ~(e.seq <= Len(w))
    <2>1. there = {}
      BY <1>5, <1>14
    <2>2. Namesakes(e) # {} <=> \/ \E d \in events : d.id = e.id
                                \/ e.pid # "none" /\ \E d \in RowsOf(r) : d.pid = e.pid
      BY <1>7, <1>14 DEF Namesakes
    <2>3. QED
      BY <1>9, <1>11, <1>14, <2>1, <2>2
  <1>15. QED
    BY <1>12, <1>13, <1>14

\* A delegation is over with its audit, the last row.
LEMMA OverWithTheAudit ==
    ASSUME NEW r, NEW w, Sound(r, w), NEW s, s = ReplayRows(r, w).s
    PROVE  /\ DelegationTerminal(s) <=> w # << >> /\ w[Len(w)].kind = "audit"
           /\ DelegationCompleted(s) <=>
                 DelegationTerminal(s) /\ \E e \in ToSet(w) :
                    e.kind = "terminal" /\ e.value = "completed"
  <1>1. w \in Seq(Event) /\ StatusTracked(w, s)
    BY DEF Sound, Tracked
  <1>2. Len(w) \in Nat /\ DOMAIN w = 1..Len(w) /\ (w # << >> <=> Len(w) # 0)
    BY <1>1
  <1>3. Occurs(w, "audit") <=> w # << >> /\ w[Len(w)].kind = "audit"
    <2>1. ASSUME NEW i \in 1..Len(w), w[i].kind = "audit" PROVE w # << >> /\ i = Len(w)
      <3>1. Len(w) # 0 /\ Len(w) \in 1..Len(w)
        BY <1>2, <2>1
      <3>2. Before(w, Len(w), {"audit"}) = {}
        BY <3>1 DEF Sound, RowIsLegal
      <3>3. ~(i \in 1..(Len(w) - 1))
        BY <2>1, <3>2 DEF Before
      <3>4. \A n \in Nat : i \in 1..n /\ ~(i \in 1..(n - 1)) => i = n
        OBVIOUS
      <3>5. QED
        BY <1>2, <3>1, <3>3, <3>4
    <2>2. w # << >> => Len(w) \in 1..Len(w)
      BY <1>2
    <2>3. QED
      BY <2>1, <2>2 DEF Occurs
  <1>4. DelegationTerminal(s) <=> s.audited
    BY <1>1 DEF StatusTracked, DelegationTerminal
  <1>5. DelegationTerminal(s) <=> w # << >> /\ w[Len(w)].kind = "audit"
    BY <1>1, <1>3, <1>4 DEF StatusTracked
  <1>6. (\E e \in ToSet(w) : e.kind = "terminal" /\ e.value = "completed") <=>
        (\E i \in 1..Len(w) : w[i].kind = "terminal" /\ w[i].value = "completed")
    BY <1>2 DEF ToSet
  <1>7. ASSUME DelegationTerminal(s)
        PROVE  DelegationCompleted(s) <=>
               \E i \in 1..Len(w) : w[i].kind = "terminal" /\ w[i].value = "completed"
    <2>1. s.status # "none" /\ (s.status = "completed" => s.validated)
      BY <1>1, <1>4, <1>7 DEF StatusTracked
    <2>2. PICK i \in 1..Len(w) : w[i].kind = "terminal"
      BY <1>1, <2>1 DEF StatusTracked, Occurs
    <2>3. \A j \in 1..Len(w) : w[j].kind = "terminal" => w[j].value = s.status
      BY <1>1 DEF StatusTracked
    <2>4. DelegationCompleted(s) <=> s.status = "completed"
      BY <1>7, <2>1 DEF DelegationCompleted
    <2>5. QED
      BY <2>2, <2>3, <2>4
  <1>8. DelegationCompleted(s) => DelegationTerminal(s)
    BY DEF DelegationCompleted
  <1>9. QED
    BY <1>5, <1>6, <1>7, <1>8

\* Sound rows are the histories the property describes.
LEMMA WellFormedHistories == Histories => HistoryIsWellFormed
  <1> SUFFICES ASSUME Histories, damaged = {}, NEW r \in runs
               PROVE  /\ ReplayAgrees(r)
                      /\ DelegationTerminal(Replay(r).s)
                            <=> Rows(r) # <<>> /\ Rows(r)[Len(Rows(r))].kind = "audit"
                      /\ DelegationCompleted(Replay(r).s) <=>
                            DelegationTerminal(Replay(r).s) /\ \E e \in ToSet(Rows(r)) :
                               e.kind = "terminal" /\ e.value = "completed"
                      /\ \A j \in 1..Len(Rows(r)) : RowIsLegal(Rows(r), j)
    BY DEF HistoryIsWellFormed
  <1>1. PICK w : Numbered(RowsOf(r), w) /\ Sound(r, w)
    BY DEF Histories
  <1>2. Rows(r) = w
    BY <1>1, RowsAreSorted
  <1>3. Replay(r).ok
    <2>1. ReplayRows(r, w).ok
      BY <1>1 DEF Sound
    <2>2. QED
      BY <1>2, <2>1 DEF Replay
  <1>4. ReplayAgrees(r)
    BY <1>3, StoreAgrees DEF ReplayAgrees
  <1>5. \A j \in 1..Len(w) : RowIsLegal(w, j)
    BY <1>1 DEF Sound
  <1>6. PICK s : s = ReplayRows(r, w).s
    OBVIOUS
  <1>7. /\ DelegationTerminal(s) <=> w # << >> /\ w[Len(w)].kind = "audit"
        /\ DelegationCompleted(s) <=>
              DelegationTerminal(s) /\ \E e \in ToSet(w) :
                 e.kind = "terminal" /\ e.value = "completed"
    BY <1>1, <1>6, OverWithTheAudit
  <1>8. Replay(r).s = s
    BY <1>2, <1>6 DEF Replay
  <1>9. QED
    BY <1>2, <1>4, <1>5, <1>7, <1>8

\* For whatever events callers append, again, out of order or to several runs at
\* once: as long as no row was damaged, replay() never raises, append_event
\* answers what apply_lifecycle_event would, and the rows of every run tell a
\* legal story, which the delegation's end sums up.
THEOREM HistoriesAreWellFormed == Spec => []HistoryIsWellFormed
  <1>1. Init => Histories
    BY DEF Init, Histories
  <1> QED BY <1>1, HistoriesStay, WellFormedHistories, PTL DEF Spec

-----------------------------------------------------------------------------
(* The registry: the inductive invariant *)

\* An id has one head, the last of a gapless history that no two versions share.
Versions ==
    /\ heads \subseteq history
    /\ \A g, h \in heads : g.id = h.id => g = h
    /\ \A v, w \in history : v.id = w.id /\ v.rev = w.rev => v = w
    /\ \A v \in history : \A n \in 1..v.rev : \E w \in history : w.id = v.id /\ w.rev = n
    /\ \A v \in history : \E h \in heads : h.id = v.id /\ v.rev <= h.rev

\* Every version and every quota agrees with the current accounts and projects.
Agreement ==
    /\ \A v \in history : CS!AgreesWithHeads(v)
    /\ \A q \in quotas : \E a \in CS!HeadOf(q.account) : a.kind = "account" /\ q.at >= a.created

\* What a client loaded is on record, and its quota was then the latest.
Basis ==
    \A c \in Client :
        /\ loaded[c] = CS!NoVersion \/ loaded[c] \in history
        /\ \/ basis[c].quota = CS!NoBasis.quota
           \/ \A s \in basis[c].stored :
                 s.account = basis[c].quota.account /\ s.dimension = basis[c].quota.dimension
                     => s.at <= basis[c].quota.at

RegistryInv == CS!TypeOK /\ Versions /\ Agreement /\ Basis

\* The store starts empty.
LEMMA InitRegistryInv == CS!Init => RegistryInv
  BY DEF CS!Init, RegistryInv, CS!TypeOK, Versions, Agreement, Basis, CS!NoVersion, CS!NoBasis

-----------------------------------------------------------------------------
(* The registry: a version is written *)

\* v is the first version of its id, or takes the place of the only head, whose
\* account, surface and creation it keeps.
Succeeds(v) ==
    \/ CS!HeadOf(v.id) = {} /\ v.rev = 1
    \/ \E h \in heads :
          /\ CS!HeadOf(v.id) = {h} /\ CS!Readable("head", h)
          /\ v.rev = h.rev + 1 /\ v.created = h.created
          /\ v.account = h.account /\ v.surface = h.surface

Written(v) ==
    /\ history' = history \cup {v} /\ heads' = (heads \ CS!HeadOf(v.id)) \cup {v}
    /\ UNCHANGED <<quotas, altered, open, loaded, basis>>

\* Of two versions of one id, a new head stands for the old one.
LEMMA HeadStays ==
    ASSUME CS!WellFormed, RegistryInv, NEW v \in Version, Succeeds(v), Written(v), NEW a \in heads
    PROVE  \E b \in heads' : /\ b.id = a.id /\ b.kind = a.kind /\ b.created = a.created
                             /\ b.account = a.account /\ b.surface = a.surface
  <1>1. CASE a.id # v.id
    BY <1>1 DEF Written, CS!HeadOf
  <1>2. CASE a.id = v.id
    <2>1. a \in Version
      BY DEF RegistryInv, CS!TypeOK
    <2>2. a.kind = v.kind
      BY <1>2, <2>1 DEF CS!WellFormed
    <2>3. v.created = a.created /\ v.account = a.account /\ v.surface = a.surface
      BY <1>2 DEF Succeeds, CS!HeadOf
    <2>4. v \in heads'
      BY DEF Written
    <2>5. QED
      BY <1>2, <2>2, <2>3, <2>4
  <1>3. QED
    BY <1>1, <1>2

\* What agreed with the heads still does.
LEMMA AgreementStays ==
    ASSUME CS!WellFormed, RegistryInv, NEW v \in Version, Succeeds(v), Written(v),
           NEW w, CS!AgreesWithHeads(w)
    PROVE  CS!AgreesWithHeads(w)'
  <1>1. ASSUME w.kind # "account"
        PROVE  \E a \in CS!HeadOf(w.account)' :
                  a.kind = "account" /\ a.surface = w.surface /\ w.created >= a.created
    <2>1. PICK a \in heads : /\ a.id = w.account /\ a.kind = "account"
                             /\ a.surface = w.surface /\ w.created >= a.created
      BY <1>1 DEF CS!AgreesWithHeads, CS!HeadOf
    <2>2. PICK b \in heads' : /\ b.id = a.id /\ b.kind = a.kind /\ b.created = a.created
                              /\ b.surface = a.surface
      BY HeadStays
    <2>3. QED
      BY <2>1, <2>2 DEF CS!HeadOf
  <1>2. ASSUME w.kind # "account", w.project # "none"
        PROVE  \E p \in CS!HeadOf(w.project)' :
                  p.kind = "project" /\ p.account = w.account /\ p.surface = w.surface
    <2>1. PICK p \in heads : /\ p.id = w.project /\ p.kind = "project"
                             /\ p.account = w.account /\ p.surface = w.surface
      BY <1>2 DEF CS!AgreesWithHeads, CS!HeadOf
    <2>2. PICK b \in heads' : /\ b.id = p.id /\ b.kind = p.kind /\ b.account = p.account
                              /\ b.surface = p.surface
      BY HeadStays
    <2>3. QED
      BY <2>1, <2>2 DEF CS!HeadOf
  <1>3. QED
    BY <1>1, <1>2 DEF CS!AgreesWithHeads

\* A version that is written when its dependencies hold keeps the invariant.
LEMMA WriteStep ==
    ASSUME CS!WellFormed, RegistryInv, NEW v \in Version, Succeeds(v), CS!DependenciesHold(v),
           Written(v)
    PROVE  RegistryInv'
  <1>1. /\ heads \subseteq Version /\ history \subseteq Version /\ v.rev \in Nat \ {0}
        /\ \A w \in Version : w.rev \in Nat
    BY DEF RegistryInv, CS!TypeOK, CS!WellFormed
  <1>2. CS!TypeOK'
    <2>1. altered' \subseteq ({"head"} \X heads') \cup ({"history"} \X history')
                                 \cup ({"quota"} \X quotas')
      <3>1. \A h \in CS!HeadOf(v.id) : <<"head", h>> \notin altered
        BY DEF Succeeds, CS!Readable
      <3>2. QED
        BY <3>1 DEF RegistryInv, CS!TypeOK, Written
    <2>2. QED
      BY <1>1, <2>1 DEF RegistryInv, CS!TypeOK, Written
  <1>3. \A w \in history : w.id = v.id => w.rev < v.rev
    <2>1. ASSUME NEW w \in history, w.id = v.id PROVE w.rev < v.rev
      <3>1. PICK h \in heads : h.id = w.id /\ w.rev <= h.rev
        BY DEF RegistryInv, Versions
      <3>2. v.rev = h.rev + 1
        BY <2>1, <3>1 DEF Succeeds, CS!HeadOf
      <3>3. w.rev \in Nat /\ h.rev \in Nat
        BY <1>1
      <3>4. QED
        BY <3>1, <3>2, <3>3
    <2>2. QED
      BY <2>1
  <1>4. Versions'
    <2>1. heads' \subseteq history'
      BY DEF RegistryInv, Versions, Written
    <2>2. \A g, h \in heads' : g.id = h.id => g = h
      BY DEF RegistryInv, Versions, Written, CS!HeadOf
    <2>3. \A u, w \in history' : u.id = w.id /\ u.rev = w.rev => u = w
      BY <1>1, <1>3 DEF RegistryInv, Versions, Written
    <2>4. ASSUME NEW w \in history', NEW n \in 1..w.rev
          PROVE  \E u \in history' : u.id = w.id /\ u.rev = n
      <3>1. CASE w \in history
        BY <3>1 DEF RegistryInv, Versions, Written
      <3>2. CASE w = v /\ n = v.rev
        BY <3>2 DEF Written
      <3>3. CASE w = v /\ n # v.rev
        <4>1. v.rev # 1
          BY <1>1, <3>3
        <4>2. PICK h \in heads : h.id = v.id /\ v.rev = h.rev + 1
          BY <4>1 DEF Succeeds, CS!HeadOf
        <4>3. h \in history /\ h.rev \in Nat
          BY <1>1 DEF RegistryInv, Versions
        <4>4. n \in 1..h.rev
          BY <1>1, <3>3, <4>2, <4>3
        <4>5. PICK u \in history : u.id = h.id /\ u.rev = n
          BY <4>3, <4>4 DEF RegistryInv, Versions
        <4>6. QED
          BY <3>3, <4>2, <4>5 DEF Written
      <3>4. QED
        BY <3>1, <3>2, <3>3 DEF Written
    <2>5. ASSUME NEW w \in history' PROVE \E h \in heads' : h.id = w.id /\ w.rev <= h.rev
      <3>1. CASE w.id = v.id
        <4>1. v \in heads' /\ w.rev <= v.rev
          BY <1>1, <1>3, <3>1 DEF Written
        <4>2. QED
          BY <3>1, <4>1
      <3>2. CASE w.id # v.id
        <4>1. PICK h \in heads : h.id = w.id /\ w.rev <= h.rev
          BY <3>2 DEF RegistryInv, Versions, Written
        <4>2. h \in heads'
          BY <3>2, <4>1 DEF Written, CS!HeadOf
        <4>3. QED
          BY <4>1, <4>2
      <3>3. QED
        BY <3>1, <3>2
    <2>6. QED
      BY <2>1, <2>2, <2>3, <2>4, <2>5 DEF Versions
  <1>5. Agreement'
    <2>1. CS!AgreesWithHeads(v)
      BY DEF CS!DependenciesHold, CS!AgreesWithHeads, CS!Select
    <2>2. \A w \in history' : CS!AgreesWithHeads(w)'
      BY <2>1, AgreementStays DEF RegistryInv, Agreement, Written
    <2>3. ASSUME NEW q \in quotas'
          PROVE  \E a \in CS!HeadOf(q.account)' : a.kind = "account" /\ q.at >= a.created
      <3>1. PICK a \in heads : a.id = q.account /\ a.kind = "account" /\ q.at >= a.created
        BY DEF RegistryInv, Agreement, Written, CS!HeadOf
      <3>2. PICK b \in heads' : b.id = a.id /\ b.kind = a.kind /\ b.created = a.created
        BY HeadStays
      <3>3. QED
        BY <3>1, <3>2 DEF CS!HeadOf
    <2>4. QED
      BY <2>2, <2>3 DEF Agreement
  <1>6. Basis'
    BY DEF RegistryInv, Basis, Written
  <1>7. QED
    BY <1>2, <1>4, <1>5, <1>6 DEF RegistryInv

\* Any other answer leaves the tables alone.
LEMMA WriteVersionStep ==
    ASSUME CS!WellFormed, RegistryInv, NEW v \in Version, NEW a, CS!WriteVersion(v, a),
           a = "written" => Succeeds(v) /\ CS!DependenciesHold(v)
    PROVE  RegistryInv'
  <1>1. CASE a = "written"
    <2>1. Written(v)
      BY <1>1 DEF CS!WriteVersion, Written
    <2>2. QED
      BY <1>1, <2>1, WriteStep
  <1>2. CASE a # "written"
    BY <1>2
       DEF CS!WriteVersion, RegistryInv, CS!TypeOK, Versions, Agreement, CS!AgreesWithHeads,
           CS!HeadOf, Basis
  <1>3. QED
    BY <1>1, <1>2

\* register accepts only the first version of an id.
LEMMA RegisterFits ==
    ASSUME NEW v \in Version, CS!AnswerOfRegister(v) = "written"
    PROVE  Succeeds(v) /\ CS!DependenciesHold(v)
  BY DEF CS!AnswerOfRegister, Succeeds

\* replace accepts only a successor of the only head, under its revision.
LEMMA ReplaceFits ==
    ASSUME RegistryInv, NEW v \in Version, NEW expected, CS!AnswerOfReplace(v, expected) = "written"
    PROVE  /\ Succeeds(v) /\ CS!DependenciesHold(v)
           /\ \A h \in CS!HeadOf(v.id) : h.rev = expected /\ v.rev = expected + 1
  <1>1. /\ CS!DependenciesHold(v) /\ CS!HeadOf(v.id) # {} /\ CS!HeadOf(v.id) = CS!Select(v.id)
        /\ \A current \in CS!HeadOf(v.id) : CS!Replaceable(current, expected, v)
    BY DEF CS!AnswerOfReplace, CS!Corrupted
  <1>2. PICK h \in heads : h.id = v.id
    BY <1>1 DEF CS!HeadOf
  <1>3. CS!HeadOf(v.id) = {h}
    BY <1>2 DEF CS!HeadOf, RegistryInv, Versions
  <1>4. CS!Replaceable(h, expected, v) /\ CS!Readable("head", h)
    BY <1>1, <1>3 DEF CS!Select
  <1>5. QED
    BY <1>1, <1>3, <1>4 DEF Succeeds, CS!Replaceable

-----------------------------------------------------------------------------
(* The registry: every step keeps the invariant *)

\* A quota is stored only for an account that is there.
LEMMA QuotaStep ==
    ASSUME RegistryInv, NEW c \in Client, NEW q \in Quota, CS!AppendQuota(c, q)
    PROVE  RegistryInv'
  <1>1. CASE CS!AnswerOfQuota(q) = "written"
    <2>1. quotas' = quotas \cup {q} /\ UNCHANGED <<heads, history, altered, open, loaded, basis>>
      BY <1>1 DEF CS!AppendQuota
    <2>2. \E a \in CS!HeadOf(q.account) : a.kind = "account" /\ q.at >= a.created
      BY <1>1 DEF CS!AnswerOfQuota, CS!Select
    <2>3. CS!TypeOK'
      BY <2>1 DEF RegistryInv, CS!TypeOK
    <2>4. Versions' /\ Basis'
      BY <2>1 DEF RegistryInv, Versions, Basis
    <2>5. Agreement'
      BY <2>1, <2>2 DEF RegistryInv, Agreement, CS!AgreesWithHeads, CS!HeadOf
    <2>6. QED
      BY <2>3, <2>4, <2>5 DEF RegistryInv
  <1>2. CASE CS!AnswerOfQuota(q) # "written"
    BY <1>2
       DEF CS!AppendQuota, RegistryInv, CS!TypeOK, Versions, Agreement, CS!AgreesWithHeads,
           CS!HeadOf, Basis
  <1>3. QED
    BY <1>1, <1>2

\* Loading, opening and exiting change nothing in the tables.
LEMMA ClientStep ==
    ASSUME RegistryInv, NEW c \in Client,
           \/ \E id \in CS!Ids : CS!Load(c, id)
           \/ \E d \in CS!Dimension : CS!LoadLatestQuota(c, d)
           \/ CS!Open(c)
           \/ CS!Exit(c)
    PROVE  RegistryInv'
  <1>1. UNCHANGED CS!tables /\ UNCHANGED altered
    BY DEF CS!Load, CS!LoadLatestQuota, CS!Open, CS!Exit
  <1>2. Versions' /\ Agreement'
    BY <1>1 DEF CS!tables, RegistryInv, Versions, Agreement, CS!AgreesWithHeads, CS!HeadOf
  <1>3. CS!TypeOK' /\ Basis'
    <2>1. CASE \E id \in CS!Ids : CS!Load(c, id)
      <3>1. PICK h \in heads : loaded' = [loaded EXCEPT ![c] = h]
        BY <2>1 DEF CS!Load, CS!Select, CS!HeadOf
      <3>2. basis' = basis /\ open' = open
        BY <2>1 DEF CS!Load
      <3>3. h \in Version /\ h \in history
        BY DEF RegistryInv, CS!TypeOK, Versions
      <3>4. QED
        BY <1>1, <3>1, <3>2, <3>3 DEF CS!tables, RegistryInv, CS!TypeOK, Basis
    <2>2. CASE \E d \in CS!Dimension : CS!LoadLatestQuota(c, d)
      <3>1. PICK d \in CS!Dimension : CS!LoadLatestQuota(c, d)
        BY <2>2
      <3>2. PICK q \in CS!LatestQuota(loaded[c].id, d) :
               basis' = [basis EXCEPT ![c] = [quota |-> q, stored |-> quotas]]
        BY <3>1 DEF CS!LoadLatestQuota
      <3>3. q \in quotas /\ q \in Quota /\ quotas \in SUBSET Quota
        BY <3>2 DEF CS!LatestQuota, CS!QuotaHistory, RegistryInv, CS!TypeOK
      <3>4. \A s \in quotas : s.account = q.account /\ s.dimension = q.dimension => s.at <= q.at
        BY <3>2 DEF CS!LatestQuota, CS!QuotaHistory
      <3>5. loaded' = loaded /\ open' = open
        BY <3>1 DEF CS!LoadLatestQuota
      <3>6. /\ basis'[c] = [quota |-> q, stored |-> quotas]
            /\ \A b \in Client \ {c} : basis'[b] = basis[b]
        BY <3>2 DEF RegistryInv, CS!TypeOK
      <3>7. CS!TypeOK'
        BY <1>1, <3>2, <3>3, <3>5 DEF CS!tables, RegistryInv, CS!TypeOK
      <3>8. Basis'
        BY <1>1, <3>4, <3>5, <3>6 DEF CS!tables, RegistryInv, Basis
      <3>9. QED
        BY <3>7, <3>8
    <2>3. CASE CS!Open(c)
      BY <1>1, <2>3 DEF CS!Open, CS!tables, RegistryInv, CS!TypeOK, Basis
    <2>4. CASE CS!Exit(c)
      BY <1>1, <2>4 DEF CS!Exit, CS!tables, RegistryInv, CS!TypeOK, Basis, CS!NoBasis
    <2>5. QED
      BY <2>1, <2>2, <2>3, <2>4
  <1>4. QED
    BY <1>2, <1>3 DEF RegistryInv

\* Every step keeps the invariant.
LEMMA StepRegistryInv == CS!WellFormed /\ RegistryInv /\ [CS!Next]_(CS!vars) => RegistryInv'
  <1> SUFFICES ASSUME CS!WellFormed, RegistryInv, [CS!Next]_(CS!vars) PROVE RegistryInv'
    OBVIOUS
  <1>1. ASSUME NEW c \in Client, NEW v \in Version, CS!Register(c, v) PROVE RegistryInv'
    BY <1>1, RegisterFits, WriteVersionStep DEF CS!Register
  <1>2. ASSUME NEW c \in Client, NEW v \in Version, CS!Replace(c, v) PROVE RegistryInv'
    BY <1>2, ReplaceFits, WriteVersionStep DEF CS!Replace
  <1>3. ASSUME CS!Alter PROVE RegistryInv'
    <2>1. UNCHANGED <<CS!tables, open, loaded, basis>>
      BY <1>3 DEF CS!Alter
    <2>2. CS!TypeOK'
      BY <1>3, <2>1 DEF CS!Alter, CS!tables, RegistryInv, CS!TypeOK
    <2>3. QED
      BY <2>1, <2>2
         DEF CS!tables, RegistryInv, Versions, Agreement, CS!AgreesWithHeads, CS!HeadOf, Basis
  <1>4. ASSUME UNCHANGED CS!vars PROVE RegistryInv'
    BY <1>4
       DEF CS!vars, CS!tables, RegistryInv, CS!TypeOK, Versions, Agreement, CS!AgreesWithHeads,
           CS!HeadOf, Basis
  <1>5. QED
    BY <1>1, <1>2, <1>3, <1>4, QuotaStep, ClientStep DEF CS!Next

\* The invariant holds throughout.
LEMMA RegistryInvariant == CS!Spec => []RegistryInv
  <1>1. RegistryInv /\ [CS!Next]_(CS!vars) => RegistryInv'
    BY StepRegistryInv, RegistryAssumption
  <1>2. QED
    BY <1>1, InitRegistryInv, PTL DEF CS!Spec

-----------------------------------------------------------------------------
(* The registry: its properties *)

\* Gapless and unshared revisions are as many as the versions.
LEMMA Contiguous ==
    ASSUME CS!WellFormed, RegistryInv, NEW id \in CS!Ids
    PROVE  CS!IsContiguous(id) /\ CS!HeadIsLatest(id)
  <1>0. \A s : CS!Cardinality(s) = Cardinality(s)
    BY DEF CS!Cardinality, Cardinality
  <1> DEFINE mine == {v \in history : v.id = id}
             revisions == {h.rev : h \in mine}
  <1>1. CASE mine = {}
    <2>1. Cardinality(mine) = 0 /\ revisions = {}
      BY <1>1, FS_EmptySet
    <2>2. CS!HeadOf(id) = {}
      BY <1>1 DEF CS!HeadOf, RegistryInv, Versions
    <2>3. QED
      BY <1>0, <1>1, <2>1, <2>2 DEF CS!IsContiguous, CS!HeadIsLatest
  <1>2. CASE mine # {}
    <2>1. PICK h \in heads : h.id = id
      BY <1>2 DEF RegistryInv, Versions
    <2>2. h \in mine /\ CS!HeadOf(id) = {h}
      BY <2>1 DEF CS!HeadOf, RegistryInv, Versions
    <2>3. \A v \in mine : v.rev \in Nat \ {0} /\ v.rev <= h.rev
      BY <2>1 DEF RegistryInv, CS!TypeOK, CS!WellFormed, Versions
    <2>4. \A n \in 1..h.rev : \E v \in mine : v.rev = n
      BY <2>1, <2>2 DEF RegistryInv, Versions
    <2>5. revisions = 1..h.rev
      BY <2>2, <2>3, <2>4
    <2>6. \A v, w \in mine : v.rev = w.rev => v = w
      BY DEF RegistryInv, Versions
    <2>7. Cardinality(mine) = h.rev
      <3> DEFINE at == [n \in 1..h.rev |-> CHOOSE v \in mine : v.rev = n]
      <3>1. \A n \in 1..h.rev : at[n] \in mine /\ at[n].rev = n
        BY <2>4
      <3>2. \A v \in mine : v.rev \in 1..h.rev /\ at[v.rev] = v
        BY <2>2, <2>3, <2>6, <3>1
      <3> HIDE DEF at, mine
      <3>3. at \in [1..h.rev -> mine]
        BY <3>1 DEF at
      <3>4. at \in Bijection(1..h.rev, mine)
        <4>1. \A m, n \in 1..h.rev : at[m] = at[n] => m = n
          BY <3>1
        <4>2. \A v \in mine : \E n \in 1..h.rev : at[n] = v
          BY <3>2
        <4>3. QED
          BY <3>3, <4>1, <4>2, Fun_IsBij
      <3>5. ExistsBijection(1..h.rev, mine)
        BY <3>4 DEF ExistsBijection
      <3>6. h.rev \in Nat
        BY <2>2, <2>3
      <3>7. IsFiniteSet(1..h.rev) /\ Cardinality(1..h.rev) = h.rev
        <4>1. /\ IsFiniteSet(1..h.rev)
              /\ Cardinality(1..h.rev) = IF 1 > h.rev THEN 0 ELSE h.rev - 1 + 1
          <5>1. h.rev \in Int /\ 1 \in Int
            BY <3>6
          <5>2. QED
            BY <5>1, FS_Interval
        <4>2. QED
          BY <4>1, <3>6
      <3>8. QED
        BY <3>5, <3>7, FS_Bijection
    <2>8. QED
      BY <1>0, <1>2, <2>2, <2>3, <2>5, <2>7 DEF CS!IsContiguous, CS!HeadIsLatest
  <1>3. QED
    BY <1>1, <1>2

\* What select_chatgpt_experience may decide, whatever it is given.
SelectedRight(account, requested, quota, at) ==
    LET d == CS!SelectChatgptExperience(account, requested, quota, at) IN
    /\ CS!ValidDecision(d)
    /\ d.selected = "work" =>
          /\ requested = "work"
          /\ account.avail = "available" /\ account.work = "supported"
          /\ quota.id # "none" /\ quota.account = account.id
          /\ quota.state \in {"available", "near_limit"}
          /\ quota.at <= at /\ at - quota.at <= MaxAge

\* Every decision can be built, and Work needs all of the above.
LEMMA SelectsRight ==
    ASSUME NEW account, NEW quota, NEW requested \in CS!ExperienceRequestKind, NEW at \in Nat,
           MaxAge \in Nat, account.updated \in Nat,
           account.avail \in {"available", "unavailable", "degraded", "unknown"},
           account.work \in {"supported", "unsupported", "unknown"},
           quota.id # "none" =>
              /\ quota.at \in Nat
              /\ quota.state \in {"available", "near_limit", "exhausted", "reset_pending",
                                  "unavailable", "unknown"}
    PROVE  SelectedRight(account, requested, quota, at)
  <1> DEFINE d == CS!SelectChatgptExperience(account, requested, quota, at)
             w == CS!WorkDecision(account, quota, at)
             q == CS!QuotaDecision(quota.state)
  <1>1. ASSUME quota.id # "none"
        PROVE  /\ CS!ValidDecision(q)
               /\ q.selected = "work" => quota.state \in {"available", "near_limit"}
    BY <1>1 DEF CS!QuotaDecision, CS!ChatFallback, CS!Decision, CS!ValidDecision
  <1>2. /\ CS!ValidDecision(w)
        /\ w.selected = "work" =>
              /\ account.work = "supported" /\ quota.id # "none"
              /\ ~CS!QuotaMismatch(account, quota, at) /\ ~(at - quota.at > MaxAge)
              /\ quota.state \in {"available", "near_limit"}
    <2> HIDE DEF q
    <2>1. CASE account.work # "supported"
      BY <2>1 DEF CS!WorkDecision, CS!ChatFallback, CS!Decision, CS!ValidDecision
    <2>2. CASE account.work = "supported"
      <3>1. w = IF quota.id = "none" THEN CS!ChatFallback("work_quota_missing")
                ELSE IF CS!QuotaMismatch(account, quota, at) THEN CS!Raises
                ELSE IF at - quota.at > MaxAge THEN CS!ChatFallback("work_quota_stale")
                ELSE q
        BY <2>2 DEF CS!WorkDecision, q
      <3>2. QED
        BY <1>1, <2>2, <3>1 DEF CS!ChatFallback, CS!Decision, CS!Raises, CS!ValidDecision
    <2>3. QED
      BY <2>1, <2>2
  <1>3. /\ CS!ValidDecision(d)
        /\ d.selected = "work" => d = w /\ requested = "work" /\ account.avail = "available"
    <2> HIDE DEF w
    <2>1. CASE account.updated > at
      <3>1. ~(account.updated <= at)
        BY <2>1
      <3>2. d = CS!Raises
        BY <2>1, <3>1 DEF CS!SelectChatgptExperience
      <3>3. QED
        BY <3>2 DEF CS!Raises, CS!Decision, CS!ValidDecision
    <2>2. CASE account.updated <= at /\ account.avail # "available"
      BY <2>2 DEF CS!SelectChatgptExperience, CS!Decision, CS!ValidDecision
    <2>3. CASE account.updated <= at /\ account.avail = "available"
      <3>1. CASE requested # "work"
        BY <2>3, <3>1
           DEF CS!SelectChatgptExperience, CS!ExperienceRequestKind, CS!Decision,
               CS!ValidDecision
      <3>2. CASE requested = "work"
        <4>1. d = w
          BY <2>3, <3>2 DEF CS!SelectChatgptExperience, w
        <4>2. QED
          BY <1>2, <2>3, <3>2, <4>1 DEF w
      <3>3. QED
        BY <3>1, <3>2
    <2>4. QED
      BY <2>1, <2>2, <2>3
  <1>4. QED
    BY <1>2, <1>3 DEF SelectedRight, CS!QuotaMismatch

\* The state keeps its type.
THEOREM RegistryTypeCorrect == CS!Spec => []CS!TypeOK
  <1>1. RegistryInv => CS!TypeOK
    BY DEF RegistryInv
  <1>2. QED
    BY <1>1, RegistryInvariant, PTL

\* Whatever sequence of writes register and replace accepted, the checks of the
\* next start-up (_verify_semantic_integrity) accept the store.
THEOREM Restart == CS!Spec => []RestartAccepts
  <1>1. RegistryInv => RestartAccepts
    BY Contiguous, RegistryAssumption
       DEF RestartAccepts, CS!RestartAccepts, CS!SemanticIntegrity, RegistryInv, Agreement
  <1>2. QED
    BY <1>1, RegistryInvariant, PTL

\* A replacement supersedes exactly the version its client had loaded, however
\* many clients loaded it.
THEOREM NoneLost == CS!Spec => NoLostUpdate
  <1> DEFINE Supersedes ==
        \A h \in heads : h \notin heads' =>
          \E c \in Client : loaded[c] = h /\ \E v \in heads' : v.id = h.id /\ v.rev = h.rev + 1
  <1>1. RegistryInv /\ [CS!Next]_(CS!vars) => [Supersedes]_(CS!vars)
    <2> SUFFICES ASSUME RegistryInv, CS!Next, NEW h \in heads, h \notin heads'
                 PROVE  \E c \in Client :
                           loaded[c] = h /\ \E v \in heads' : v.id = h.id /\ v.rev = h.rev + 1
      OBVIOUS
    <2>1. ASSUME NEW c \in Client, NEW v \in Version, CS!WriteVersion(v, "written")
          PROVE  h \in CS!HeadOf(v.id) /\ v \in heads'
      BY <2>1 DEF CS!WriteVersion
    <2>2. ASSUME NEW c \in Client, NEW v \in Version, CS!Register(c, v) PROVE FALSE
      <3>1. CS!AnswerOfRegister(v) = "written"
        BY <2>2 DEF CS!Register, CS!WriteVersion
      <3>2. CS!HeadOf(v.id) = {}
        BY <3>1 DEF CS!AnswerOfRegister
      <3>3. QED
        BY <2>1, <2>2, <3>1, <3>2 DEF CS!Register
    <2>3. ASSUME NEW c \in Client, NEW v \in Version, CS!Replace(c, v)
          PROVE  loaded[c] = h /\ v \in heads' /\ v.id = h.id /\ v.rev = h.rev + 1
      <3>1. CS!AnswerOfReplace(v, loaded[c].rev) = "written" /\ CS!WriteVersion(v, "written")
        BY <2>3 DEF CS!Replace, CS!WriteVersion
      <3>2. h \in CS!HeadOf(v.id) /\ v \in heads'
        BY <2>1, <3>1
      <3>3. h.rev = loaded[c].rev /\ v.rev = h.rev + 1
        BY <3>1, <3>2, ReplaceFits
      <3>4. loaded[c].id = v.id /\ v.id \in CS!Ids /\ "none" \notin CS!Ids
        BY <2>3, RegistryAssumption DEF CS!Replace, CS!Ids, CS!WellFormed
      <3>5. loaded[c] \in history
        BY <3>4 DEF RegistryInv, Basis, CS!NoVersion
      <3>6. h \in history /\ h.id = v.id
        BY <3>2 DEF CS!HeadOf, RegistryInv, Versions
      <3>7. loaded[c] = h
        BY <3>3, <3>4, <3>5, <3>6 DEF RegistryInv, Versions
      <3>8. QED
        BY <3>2, <3>3, <3>6, <3>7
    <2>4. ASSUME heads' = heads PROVE FALSE
      BY <2>4
    <2>5. QED
      BY <2>2, <2>3, <2>4
         DEF CS!Next, CS!AppendQuota, CS!Load, CS!LoadLatestQuota, CS!Open, CS!Exit, CS!Alter,
             CS!tables
  <1>2. QED
    BY <1>1, RegistryInvariant, PTL DEF CS!Spec, NoLostUpdate, CS!NoLostUpdate

\* However stale what a client loaded, a decision can be built, and Work is
\* chosen only on the account's own usable, recent and then latest quota.
THEOREM Justification == CS!Spec => []WorkIsJustified
  <1>1. RegistryInv => WorkIsJustified
    <2> SUFFICES ASSUME RegistryInv, NEW c \in Client,
                        loaded[c].id # "none", loaded[c].kind = "account",
                        NEW requested \in CS!ExperienceRequestKind, NEW at \in 0..MaxTime
                 PROVE  LET quota == basis[c].quota
                            d == CS!SelectChatgptExperience(loaded[c], requested, quota, at)
                        IN  /\ CS!ValidDecision(d)
                            /\ d.selected = "work" =>
                                /\ requested = "work"
                                /\ loaded[c].avail = "available" /\ loaded[c].work = "supported"
                                /\ quota.account = loaded[c].id
                                /\ quota.state \in {"available", "near_limit"}
                                /\ quota.at <= at /\ at - quota.at <= MaxAge
                                /\ \A s \in basis[c].stored :
                                      s.account = quota.account /\ s.dimension = quota.dimension
                                          => s.at <= quota.at
      BY DEF WorkIsJustified, CS!WorkIsJustified
    <2> DEFINE account == loaded[c]
               quota == basis[c].quota
    <2>1. /\ account.updated \in Nat
          /\ account.avail \in {"available", "unavailable", "degraded", "unknown"}
          /\ account.work \in {"supported", "unsupported", "unknown"}
      <3>1. account \in Version
        BY DEF RegistryInv, CS!TypeOK, CS!NoVersion
      <3>2. QED
        BY <3>1, RegistryAssumption DEF CS!WellFormed
    <2>2. quota.id = "none" \/ quota \in Quota
      BY DEF RegistryInv, CS!TypeOK, CS!NoBasis
    <2>3. ASSUME quota.id # "none"
          PROVE  /\ quota.at \in Nat
                 /\ quota.state \in {"available", "near_limit", "exhausted", "reset_pending",
                                     "unavailable", "unknown"}
                 /\ \A s \in basis[c].stored :
                       s.account = quota.account /\ s.dimension = quota.dimension
                           => s.at <= quota.at
      BY <2>2, <2>3, RegistryAssumption DEF CS!WellFormed, RegistryInv, Basis, CS!NoBasis
    <2>4. at \in Nat /\ MaxAge \in Nat
      BY RegistryAssumption DEF CS!WellFormed
    <2> HIDE DEF account, quota
    <2>5. SelectedRight(account, requested, quota, at)
      BY <2>1, <2>3, <2>4, SelectsRight
    <2>6. QED
      BY <2>3, <2>5 DEF SelectedRight, account, quota
  <1>2. QED
    BY <1>1, RegistryInvariant, PTL
=============================================================================
