---------------------------- MODULE ContextStore ----------------------------
(***************************************************************************)
(* The registry of provider accounts, projects, conversations and quotas   *)
(* (providers/context_store), and the choice of an experience made from it *)
(* (providers/context_policy).  Every write is one BEGIN IMMEDIATE         *)
(* transaction and so one action.  A client loads a record, thinks, and    *)
(* replaces it under the revision it loaded, while others do the same.     *)
(*                                                                         *)
(* An account, project or conversation is a version                        *)
(*   [id, kind, rev, surface, account, project, pid, created, updated,     *)
(*    avail, work]                                                         *)
(* where provider and surface are one field, the account of an account is  *)
(* itself, pid is the provider's own id of it, and None is "none".  What   *)
(* clients may offer is given by the constants.  A fingerprint is the      *)
(* record itself: an altered row is one whose payload no longer has it.    *)
(***************************************************************************)
EXTENDS ContextPolicy, FiniteSets

CONSTANTS
    Client,         \* processes that opened the same database
    Version,        \* the versions that clients may offer
    Quota,          \* ProviderQuotaSnapshot: [id, account, dimension, at, state]
    MaxAltered,     \* bound on the number of rows altered behind the store
    MaxTime         \* bound on the times at which a choice is evaluated

Kinds == {"account", "project", "conversation"}
Ids == {v.id : v \in Version}
Dimension == {q.dimension : q \in Quota}

\* What a validated model and the instance's bounds guarantee.
WellFormed ==
    /\ MaxAge \in Nat \ {0}
    /\ \A v \in Version :
        /\ v.kind \in Kinds /\ v.rev \in Nat \ {0}
        /\ v.created \in Nat /\ v.updated \in Nat
        /\ v.kind = "account" =>
              /\ v.account = v.id /\ v.project = "none"
              /\ v.avail \in {"available", "unavailable", "degraded", "unknown"}
              /\ v.work \in {"supported", "unsupported", "unknown"}
        /\ v.kind = "project" => v.project = "none"
    /\ \A v, w \in Version : v.id = w.id => v.kind = w.kind
    /\ "none" \notin Ids
    /\ \A q \in Quota :
        /\ q.at \in Nat
        /\ q.state \in {"available", "near_limit", "exhausted", "reset_pending",
                       "unavailable", "unknown"}
    /\ MaxAltered \in Nat /\ MaxTime \in Nat

VARIABLES
    heads,      \* rows of accounts, projects and conversations
    history,    \* rows of the three version tables
    quotas,     \* rows of quota_snapshots
    altered,    \* rows whose payload was changed behind the store
    open,       \* clients whose ProviderContextStore passed _initialize
    loaded,     \* per client, the version it loaded last
    basis       \* per client, the latest quota it loaded for that account, and
                \* the quotas that were stored then

tables == <<heads, history, quotas>>
vars == <<tables, altered, open, loaded, basis>>

NoVersion == [id |-> "none"]
NoBasis == [quota |-> [id |-> "none"], stored |-> {}]

TypeOK ==
    /\ heads \subseteq Version
    /\ history \subseteq Version
    /\ quotas \subseteq Quota
    /\ altered \subseteq ({"head"} \X heads) \cup ({"history"} \X history)
                   \cup ({"quota"} \X quotas)
    /\ open \subseteq Client
    /\ loaded \in [Client -> Version \cup {NoVersion}]
    /\ basis \in [Client -> [quota : Quota \cup {NoBasis.quota}, stored : SUBSET Quota]]

Init ==
    /\ heads = {} /\ history = {} /\ quotas = {}
    /\ altered = {}
    /\ open = {}
    /\ loaded = [c \in Client |-> NoVersion]
    /\ basis = [c \in Client |-> NoBasis]

-----------------------------------------------------------------------------
(* The checks of a transaction *)

HeadOf(id) == {h \in heads : h.id = id}

\* A row parses when its payload has its fingerprint and agrees with its columns.
Readable(table, v) == <<table, v>> \notin altered

Select(id) == {h \in HeadOf(id) : Readable("head", h)}

Corrupted(id) == HeadOf(id) # Select(id)

\* A project needs its account, a conversation its account and its project.
Requires(v) ==
    {i \in {v.account, v.project} : i # "none" /\ v.kind # "account"}

CorruptDependency(v) == \E i \in Requires(v) : Corrupted(i)

DependenciesHold(v) ==
    v.kind # "account" =>
        /\ \E a \in Select(v.account) :
            a.kind = "account" /\ a.surface = v.surface /\ v.created >= a.created
        /\ v.project # "none" =>
            \E p \in Select(v.project) :
                p.kind = "project" /\ p.account = v.account /\ p.surface = v.surface

MappingAvailable(v) ==
    v.pid = "none" \/
        \A h \in heads :
            h.kind = v.kind /\ h.surface = v.surface /\ h.pid = v.pid => h.id = v.id

\* Mutants: the new revision is held against the stored one only, the surface or
\* the provider's id may change.
ReplaceableByNumber(current, expected, v) ==
    /\ v.rev = current.rev + 1
    /\ current.created = v.created
    /\ current.account = v.account /\ current.surface = v.surface
    /\ v.updated >= current.updated
    /\ current.pid = "none" \/ current.pid = v.pid

ReplaceableAnySurface(current, expected, v) ==
    /\ current.rev = expected /\ v.rev = expected + 1
    /\ current.created = v.created
    /\ current.account = v.account
    /\ v.updated >= current.updated
    /\ current.pid = "none" \/ current.pid = v.pid

Replaceable(current, expected, v) ==
    /\ current.rev = expected /\ v.rev = expected + 1
    /\ current.created = v.created
    /\ current.account = v.account /\ current.surface = v.surface
    /\ v.updated >= current.updated
    /\ current.pid = "none" \/ current.pid = v.pid

AnswerOfRegister(v) ==
    IF v.rev # 1 THEN "conflict"
    ELSE IF CorruptDependency(v) THEN "corrupt"
    ELSE IF ~DependenciesHold(v) THEN "error"
    ELSE IF Corrupted(v.id) THEN "corrupt"
    ELSE IF HeadOf(v.id) = {v} THEN "duplicate"
    ELSE IF HeadOf(v.id) # {} \/ ~MappingAvailable(v) THEN "conflict"
    ELSE "written"

AnswerOfReplace(v, expected) ==
    IF CorruptDependency(v) THEN "corrupt"
    ELSE IF ~DependenciesHold(v) THEN "error"
    ELSE IF HeadOf(v.id) = {} THEN "missing"
    ELSE IF Corrupted(v.id) THEN "corrupt"
    ELSE IF HeadOf(v.id) = {v} THEN "duplicate"
    ELSE IF /\ \A current \in HeadOf(v.id) : Replaceable(current, expected, v)
            /\ MappingAvailable(v)
         THEN "written"
    ELSE "conflict"

\* The snapshot with this id is stored already, or another of the same moment.
AnswerOfQuota(q) ==
    IF Corrupted(q.account) THEN "corrupt"
    ELSE IF ~\E a \in Select(q.account) : a.kind = "account" /\ q.at >= a.created THEN "error"
    ELSE IF \E s \in quotas : s.id = q.id /\ ~Readable("quota", s) THEN "corrupt"
    ELSE IF q \in quotas THEN "duplicate"
    ELSE IF \E s \in quotas :
              \/ s.id = q.id
              \/ s.account = q.account /\ s.dimension = q.dimension /\ s.at = q.at
         THEN "conflict"
    ELSE "written"

-----------------------------------------------------------------------------
(* The operations *)

\* The version joins the history and becomes the head.  Any other answer rolls
\* the transaction back, and the tables are as they were.
WriteVersion(v, a) ==
    /\ IF a = "written"
       THEN /\ history' = history \cup {v}
            /\ heads' = (heads \ HeadOf(v.id)) \cup {v}
       ELSE UNCHANGED <<heads, history>>
    /\ UNCHANGED <<quotas, altered, open, loaded, basis>>

Register(c, v) ==
    /\ c \in open
    /\ WriteVersion(v, AnswerOfRegister(v))

\* The client's expected revision is that of the version it loaded, which may
\* have been replaced since.
Replace(c, v) ==
    /\ c \in open
    /\ loaded[c].id = v.id
    /\ WriteVersion(v, AnswerOfReplace(v, loaded[c].rev))

AppendQuota(c, q) ==
    /\ c \in open
    /\ quotas' = IF AnswerOfQuota(q) = "written" THEN quotas \cup {q} ELSE quotas
    /\ UNCHANGED <<heads, history, altered, open, loaded, basis>>

\* load_account, load_project and load_conversation.
Load(c, id) ==
    /\ c \in open
    /\ \E h \in Select(id) : loaded' = [loaded EXCEPT ![c] = h]
    /\ UNCHANGED <<tables, altered, open, basis>>

QuotaHistory(account, d) == {q \in quotas : q.account = account /\ q.dimension = d}

LatestQuota(account, d) ==
    {q \in QuotaHistory(account, d) : \A s \in QuotaHistory(account, d) : s.at <= q.at}

LoadLatestQuota(c, d) ==
    /\ c \in open
    /\ \E q \in LatestQuota(loaded[c].id, d) :
        /\ Readable("quota", q)
        /\ basis' = [basis EXCEPT ![c] = [quota |-> q, stored |-> quotas]]
    /\ UNCHANGED <<tables, altered, open, loaded>>

-----------------------------------------------------------------------------
(* Start-up, restart and damage *)

IsContiguous(id) ==
    LET revisions == {h.rev : h \in {v \in history : v.id = id}} IN
    revisions = 1..Cardinality({v \in history : v.id = id})

HeadIsLatest(id) ==
    LET versions == {v \in history : v.id = id} IN
    IF versions = {} THEN HeadOf(id) = {}
    ELSE \E h \in versions : HeadOf(id) = {h} /\ \A v \in versions : v.rev <= h.rev

\* _validate_project_semantics, _validate_conversation_semantics: every version
\* ever recorded is held against the current accounts and projects.
AgreesWithHeads(v) ==
    v.kind # "account" =>
        /\ \E a \in HeadOf(v.account) :
            a.kind = "account" /\ a.surface = v.surface /\ v.created >= a.created
        /\ v.project # "none" =>
            \E p \in HeadOf(v.project) :
                p.kind = "project" /\ p.account = v.account /\ p.surface = v.surface

SemanticIntegrity ==
    /\ \A id \in Ids : IsContiguous(id) /\ HeadIsLatest(id)
    /\ \A v \in history : AgreesWithHeads(v)
    /\ \A q \in quotas : \E a \in HeadOf(q.account) : a.kind = "account" /\ q.at >= a.created

\* _initialize creates the empty schema or verifies what is there.
Open(c) ==
    /\ c \notin open
    /\ altered = {} /\ SemanticIntegrity
    /\ open' = open \cup {c}
    /\ UNCHANGED <<tables, altered, loaded, basis>>

\* A process ends; a transaction that had not committed never happened.
Exit(c) ==
    /\ c \in open
    /\ open' = open \ {c}
    /\ loaded' = [loaded EXCEPT ![c] = NoVersion]
    /\ basis' = [basis EXCEPT ![c] = NoBasis]
    /\ UNCHANGED <<tables, altered>>

Alter ==
    /\ Cardinality(altered) < MaxAltered
    /\ \E row \in ({"head"} \X heads) \cup ({"history"} \X history) \cup ({"quota"} \X quotas) :
        altered' = altered \cup {row}
    /\ UNCHANGED <<tables, open, loaded, basis>>

Next ==
    \/ \E c \in Client :
        \/ \E v \in Version : Register(c, v) \/ Replace(c, v)
        \/ \E q \in Quota : AppendQuota(c, q)
        \/ \E id \in Ids : Load(c, id)
        \/ \E d \in Dimension : LoadLatestQuota(c, d)
        \/ Open(c)
        \/ Exit(c)
    \/ Alter

Spec == Init /\ [][Next]_vars

-----------------------------------------------------------------------------
(* Properties *)

\* Whatever sequence of accepted writes led here, the checks of the next start-up
\* accept the store: what register and replace let in, _verify_semantic_integrity
\* never calls corrupt.  It holds every old version against the current accounts
\* and projects, so each replacement must keep what those versions rely on.
RestartAccepts == SemanticIntegrity

\* A replacement supersedes exactly the version its client had loaded: of two
\* clients that loaded the same revision, one is told that it is stale.
NoLostUpdate ==
    [][\A h \in heads : h \notin heads' =>
          \E c \in Client : loaded[c] = h /\ \E v \in heads' : v.id = h.id /\ v.rev = h.rev + 1]_vars

\* However stale what a client loaded, the policy either raises or selects what the
\* decision's own validator accepts, and Work is chosen only for an available account
\* that supports it, on its own quota, usable, recent, and the latest that was stored
\* when the client looked.
WorkIsJustified ==
    \A c \in Client : loaded[c].id # "none" /\ loaded[c].kind = "account" =>
        \A requested \in ExperienceRequestKind, at \in 0..MaxTime :
            LET quota == basis[c].quota
                d == SelectChatgptExperience(loaded[c], requested, quota, at)
            IN  /\ ValidDecision(d)
                /\ d.selected = "work" =>
                    /\ requested = "work"
                    /\ loaded[c].avail = "available" /\ loaded[c].work = "supported"
                    /\ quota.account = loaded[c].id
                    /\ quota.state \in {"available", "near_limit"}
                    /\ quota.at <= at /\ at - quota.at <= MaxAge
                    /\ \A s \in basis[c].stored :
                          s.account = quota.account /\ s.dimension = quota.dimension => s.at <= quota.at
=============================================================================
