-------------------------- MODULE MCProviderStores --------------------------
(* Small instances of the two stores of the provider layer.  EventStore and  *)
(* ContextStore keep databases of their own and share no state, so that a    *)
(* behaviour of both is an interleaving of one behaviour of each: one store  *)
(* is explored while the other stays as it was created.                      *)
EXTENDS ProviderStores, TLC

-----------------------------------------------------------------------------
(* The event store *)

\* Two conversations, one offered with two contents, and a third that claims the
\* provider's conversation of the second.
MCConversation ==
    { [id |-> "c1", surface |-> "web", pid |-> "none", agent |-> "a", at |-> 0, state |-> "active"],
      [id |-> "c1", surface |-> "web", pid |-> "none", agent |-> "a", at |-> 0, state |-> "closed"],
      [id |-> "c2", surface |-> "web", pid |-> "x", agent |-> "b", at |-> 0, state |-> "active"],
      [id |-> "c3", surface |-> "web", pid |-> "x", agent |-> "b", at |-> 0, state |-> "active"] }

MCTurn ==
    { [id |-> t, conv |-> c, key |-> k, trace |-> t, agent |-> a, at |-> 1] :
        <<t, c, k, a>> \in { <<"t1", "c1", "k1", "a">>, <<"t2", "c2", "k1", "b">>,
                             <<"t2", "c2", "k2", "b">>, <<"t3", "c1", "k3", "b">> } }

MCRun ==
    { [id |-> r, conv |-> c, turn |-> t, key |-> k, trace |-> t, surface |-> "web",
       pid |-> p, at |-> n] :
        <<r, c, t, k, p, n>> \in { <<"r1", "c1", "t1", "k1", "p1", 1>>,
                                   <<"r2", "c1", "t1", "k1", "none", 1>>,
                                   <<"r2", "c2", "t2", "k2", "p1", 2>>,
                                   <<"r3", "c2", "t2", "k2", "p2", 1>>,
                                   <<"r3", "c2", "t2", "k2", "p2", 0>> } }

MCBody(kind, call, approval, value) ==
    [kind |-> kind, call |-> call, pcall |-> IF call = "none" THEN "none" ELSE "p",
     approval |-> approval, value |-> value]

MCMake(id, run, seq, pid, at, b) ==
    [id |-> id, run |-> run, seq |-> seq, pid |-> pid, at |-> at, kind |-> b.kind,
     call |-> b.call, pcall |-> b.pcall, approval |-> b.approval, value |-> b.value]

MCBodies ==
    { MCBody("started", "none", "none", "d"), MCBody("output", "none", "none", "d"),
      MCBody("tool_requested", "c1", "none", "none"),
      [MCBody("tool_requested", "c2", "none", "none") EXCEPT !.pcall = "p2"],
      MCBody("approval_requested", "c1", "a1", "none"),
      MCBody("approval_resolved", "none", "a1", "approved"),
      MCBody("tool_resolved", "c1", "none", "completed"),
      MCBody("terminal", "none", "none", "completed"),
      MCBody("terminal", "none", "none", "failed"),
      MCBody("validated", "none", "none", "d"), MCBody("audit", "none", "none", "d") }

\* The longest history the instance offers: a tool call with its approval, the
\* end, the validation and the audit.
MCLength == 8

\* The first run: every kind of event in every place, an output or a second
\* tool call, which is never resolved, early on; and its first events offered
\* again, changed, and with borrowed ids, also where they leave a gap or come from
\* before the run.  The other run: two starts, one with the first run's event id.
MCEvent ==
    LET started == MCBody("started", "none", "none", "d") IN
    { MCMake(<<n, b>>, "r1", n, "none", 1, b) :
        <<n, b>> \in {p \in (1..MCLength) \X MCBodies :
                          p[2].kind = "output" \/ p[2].call = "c2" => p[1] = 2} }
    \cup
    { MCMake(<<1, started>>, "r1", 1, "none", 2, started),
      MCMake(<<0, started>>, "r1", 2, "x1", 2, MCBody("terminal", "none", "none", "failed")),
      MCMake(<<1, started>>, "r1", 3, "x1", 0, MCBody("terminal", "none", "none", "failed")),
      MCMake(<<1, started>>, "r3", 1, "none", 1, started),
      MCMake(<<9, started>>, "r3", 1, "x1", 1, started) }

-----------------------------------------------------------------------------
(* The context registry *)

MCAccount(id, rev, surface, pid, created, avail) ==
    [id |-> id, kind |-> "account", rev |-> rev, surface |-> surface, account |-> id,
     project |-> "none", pid |-> pid, created |-> created, updated |-> created,
     avail |-> avail, work |-> "supported"]

MCBinding(id, kind, rev, surface, account, project, pid, created) ==
    [id |-> id, kind |-> kind, rev |-> rev, surface |-> surface, account |-> account,
     project |-> project, pid |-> pid, created |-> created, updated |-> created,
     avail |-> "none", work |-> "none"]

\* Two accounts that claim the provider's account x, the first of which may try to
\* move, to be older, or to give x up; a project of either account; a conversation
\* that joins and leaves it.
MCVersion ==
    { MCAccount("a1", 1, "web", "none", 1, "available"),
      MCAccount("a1", 2, "web", "x", 1, "degraded"),
      MCAccount("a1", 2, "app", "x", 1, "available"),
      MCAccount("a1", 2, "web", "x", 2, "available"),
      MCAccount("a1", 3, "web", "none", 1, "available"),
      MCAccount("a1", 3, "web", "x", 1, "unknown"),
      MCAccount("a2", 1, "web", "x", 2, "available"),
      MCAccount("a2", 1, "web", "none", 2, "available"),
      MCAccount("a2", 2, "web", "x", 2, "available"),
      MCBinding("p1", "project", 1, "web", "a1", "none", "none", 1),
      MCBinding("p1", "project", 2, "web", "a2", "none", "g", 1),
      MCBinding("c1", "conversation", 1, "web", "a1", "none", "none", 1),
      MCBinding("c1", "conversation", 1, "web", "a2", "p1", "none", 2),
      MCBinding("c1", "conversation", 2, "web", "a1", "p1", "none", 1) }

MCQuota ==
    { [id |-> i, account |-> a, dimension |-> d, at |-> n, state |-> s] :
        <<i, a, d, n, s>> \in { <<"q1", "a1", "work_agentic", 1, "available">>,
                                <<"q2", "a1", "work_agentic", 2, "exhausted">>,
                                <<"q2", "a2", "work_agentic", 2, "near_limit">> } }

MCSymmetry == Permutations(Client)

-----------------------------------------------------------------------------

StoresInit == Init /\ CS!Init

registryVars == <<heads, history, quotas, altered, open, loaded, basis>>

EventStoreStep ==
    /\ open = {} /\ history = {} /\ quotas = {}
    /\ Next
    /\ UNCHANGED registryVars
RegistryStep ==
    /\ answer = "none"
    /\ CS!Next
    /\ UNCHANGED vars

StoresNext == EventStoreStep \/ RegistryStep

StoresSpec == StoresInit /\ [][StoresNext]_<<vars, registryVars>>
=============================================================================
