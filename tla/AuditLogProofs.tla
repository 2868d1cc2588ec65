--------------------------- MODULE AuditLogProofs ---------------------------
(***************************************************************************)
(* Machine-checked proofs about AuditLog, for any number of threads and    *)
(* processes, with and without an anchor, whatever fails or dies, and with *)
(* an older copy of the log put back at any moment.                        *)
(***************************************************************************)
EXTENDS AuditLog, WellFoundedInduction, TLAPS

(* Sequences *)

\* A sequence is a prefix of itself.
LEMMA PrefixOfItself == ASSUME NEW S, NEW s \in Seq(S) PROVE IsPrefix(s, s)
  BY DEF IsPrefix

\* A prefix agrees with the longer sequence, element by element.
LEMMA PrefixIs ==
    ASSUME NEW S, NEW s \in Seq(S), NEW t \in Seq(S)
    PROVE  IsPrefix(s, t) <=> /\ Len(s) <= Len(t)
                              /\ \A k \in 1..Len(s) : s[k] = t[k]
  <1>1. ASSUME IsPrefix(s, t) PROVE Len(s) <= Len(t) /\ \A k \in 1..Len(s) : s[k] = t[k]
    <2>1. Len(s) <= Len(t) /\ SubSeq(s, 1, Len(s)) = SubSeq(t, 1, Len(s))
      BY <1>1 DEF IsPrefix
    <2>2. ASSUME NEW k \in 1..Len(s) PROVE s[k] = t[k]
      <3>1. SubSeq(s, 1, Len(s))[k] = s[k] /\ SubSeq(t, 1, Len(s))[k] = t[k]
        BY <2>1
      <3>2. QED
        BY <2>1, <3>1
    <2>3. QED
      BY <2>1, <2>2
  <1>2. ASSUME Len(s) <= Len(t), \A k \in 1..Len(s) : s[k] = t[k] PROVE IsPrefix(s, t)
    <2>1. SubSeq(s, 1, Len(s)) = SubSeq(t, 1, Len(s))
      BY <1>2
    <2>2. QED
      BY <1>2, <2>1 DEF IsPrefix
  <1>3. QED
    BY <1>1, <1>2

\* A prefix of a prefix is a prefix.
LEMMA PrefixTrans ==
    ASSUME NEW S, NEW s \in Seq(S), NEW t \in Seq(S), NEW u \in Seq(S),
           IsPrefix(s, t), IsPrefix(t, u)
    PROVE  IsPrefix(s, u)
  <1>1. Len(s) <= Len(t) /\ \A k \in 1..Len(s) : s[k] = t[k]
    BY PrefixIs
  <1>2. Len(t) <= Len(u) /\ \A k \in 1..Len(t) : t[k] = u[k]
    BY PrefixIs
  <1>3. Len(s) <= Len(u) /\ \A k \in 1..Len(s) : s[k] = u[k]
    <2>1. Len(s) \in Nat /\ Len(t) \in Nat /\ Len(u) \in Nat
      OBVIOUS
    <2>2. QED
      BY <1>1, <1>2, <2>1
  <1>4. QED
    BY <1>3, PrefixIs

\* Appending extends a sequence.
LEMMA PrefixOfAppend ==
    ASSUME NEW S, NEW s \in Seq(S), NEW x \in S PROVE IsPrefix(s, Append(s, x))
  BY DEF IsPrefix

\* What was appended to is not empty.
LEMMA AppendIsNotEmpty ==
    ASSUME NEW S, NEW s \in Seq(S), NEW x \in S PROVE Append(s, x) # <<>>
  <1>1. Len(Append(s, x)) = Len(s) + 1 /\ Len(s) \in Nat
    OBVIOUS
  <1>2. ASSUME Append(s, x) = <<>> PROVE FALSE
    <2>1. Len(Append(s, x)) = 0
      BY <1>2
    <2>2. QED
      BY <1>1, <2>1
  <1>3. QED
    BY <1>2

\* Two prefixes of one sequence that have the same length are equal.
LEMMA SamePrefix ==
    ASSUME NEW S, NEW s \in Seq(S), NEW t \in Seq(S), NEW u \in Seq(S),
           IsPrefix(s, u), IsPrefix(t, u), Len(s) = Len(t)
    PROVE  s = t
  <1>1. \A k \in 1..Len(s) : s[k] = t[k]
    BY PrefixIs
  <1>2. QED
    BY <1>1

\* Induction over the length of the log: a set of naturals has a least member.
LEMMA LessIsARelation == \A x, y \in Nat : x < y => <<x, y>> \in OpToRel(<, Nat)
  BY DEF OpToRel

\* A non-empty set of naturals has a minimal member in a well-founded order.
LEMMA Minimal ==
    ASSUME NEW R, IsWellFoundedOn(R, Nat), NEW S \in SUBSET Nat, S # {}
    PROVE  \E x \in S : \A y \in S : ~(<<y, x>> \in R)
  BY WFMin

\* In an order that contains <, a minimal member is a least one.
LEMMA Least ==
    ASSUME NEW R, IsWellFoundedOn(R, Nat), \A x, y \in Nat : x < y => <<x, y>> \in R,
           NEW S \in SUBSET Nat, S # {}
    PROVE  \E m \in S : \A n \in Nat : n < m => n \notin S
  BY Minimal

\* A non-empty set of naturals has a least member.
LEMMA LeastNat ==
    ASSUME NEW S \in SUBSET Nat, S # {}
    PROVE  \E m \in S : \A n \in Nat : n < m => n \notin S
  BY Least, LessIsARelation, NatLessThanWellFounded, Zenon

-----------------------------------------------------------------------------
(* The chain *)

\* The HMAC of every record of the log is an HMAC.
LEMMA HmacType ==
    ASSUME log \in Seq(Record), NEW k \in 0..Len(log)
    PROVE  HmacAt(log, k) \in Hmacs
  <1>1. CASE k = 0
    BY <1>1 DEF HmacAt, Hmacs
  <1>2. CASE k # 0
    <2>1. log[k] \in Record
      BY <1>2
    <2>2. log[k].prev \in Seq(Nat) /\ log[k].id \in Nat
      BY <2>1 DEF Record, Hmacs
    <2>3. QED
      BY <1>2, <2>2 DEF HmacAt, EntryHmac, Hmacs
  <1>3. QED
    BY <1>1, <1>2

Chained == \A k \in 1..Len(log) : log[k].prev = HmacAt(log, k - 1)

\* One link: the HMAC of a record extends the one before by its id.
LEMMA Link ==
    ASSUME log \in Seq(Record), Chained, NEW k \in 1..Len(log)
    PROVE  /\ IsPrefix(HmacAt(log, k - 1), HmacAt(log, k))
           /\ Len(HmacAt(log, k)) = Len(HmacAt(log, k - 1)) + 1
  <1>1. HmacAt(log, k - 1) \in Seq(Nat)
    BY HmacType DEF Hmacs
  <1>2. log[k] \in Record
    OBVIOUS
  <1>3. log[k].id \in Nat
    BY <1>2 DEF Record
  <1>4. HmacAt(log, k) = Append(log[k].prev, log[k].id)
    BY DEF HmacAt, EntryHmac
  <1>5. log[k].prev = HmacAt(log, k - 1)
    BY DEF Chained
  <1>6. QED
    BY <1>1, <1>3, <1>4, <1>5, PrefixOfAppend

\* The HMAC of a record commits to every record up to it.
Commits(j, k) == IsPrefix(HmacAt(log, j), HmacAt(log, k)) /\ Len(HmacAt(log, k)) = k

\* In a chained log the HMAC of a record extends those of all records before it,
\* and counts them: by the least record for which it would not.
LEMMA ChainCommits ==
    ASSUME log \in Seq(Record), Chained, NEW j \in 0..Len(log), NEW k \in j..Len(log)
    PROVE  Commits(j, k)
  <1>1. Len(log) \in Nat
    OBVIOUS
  <1> DEFINE Wrong == {m \in Nat : m <= Len(log) /\ \E i \in 0..m : ~Commits(i, m)}
  <1>2. SUFFICES ASSUME Wrong # {} PROVE FALSE
    BY <1>1
  <1>3. PICK m \in Wrong : \A n \in Nat : n < m => n \notin Wrong
    BY <1>2, LeastNat
  <1>4. PICK i \in 0..m : ~Commits(i, m)
    OBVIOUS
  <1>5. CASE m = 0
    <2>1. i = 0 /\ HmacAt(log, 0) = <<>>
      BY <1>5 DEF HmacAt
    <2>2. QED
      BY <1>4, <1>5, <2>1 DEF Commits, IsPrefix
  <1>6. CASE m # 0
    <2>1. /\ m \in 1..Len(log) /\ m - 1 \in 0..Len(log) /\ m - 1 \notin Wrong
          /\ i \in 0..Len(log) /\ m \in Nat
      BY <1>1, <1>3, <1>6
    <2>2. \A n \in 0..(m - 1) : Commits(n, m - 1)
      BY <2>1
    <2>3. Len(HmacAt(log, m - 1)) = m - 1
      BY <2>1, <2>2 DEF Commits
    <2>4. IsPrefix(HmacAt(log, m - 1), HmacAt(log, m)) /\ Len(HmacAt(log, m)) = m
      BY <2>1, <2>3, Link
    <2>5. /\ HmacAt(log, m) \in Seq(Nat) /\ HmacAt(log, m - 1) \in Seq(Nat)
          /\ HmacAt(log, i) \in Seq(Nat)
      BY <2>1, HmacType DEF Hmacs
    <2>6. CASE i = m
      BY <1>4, <2>4, <2>5, <2>6, PrefixOfItself DEF Commits
    <2>7. CASE i # m
      <3>1. IsPrefix(HmacAt(log, i), HmacAt(log, m - 1))
        BY <2>1, <2>2, <2>7 DEF Commits
      <3>2. IsPrefix(HmacAt(log, i), HmacAt(log, m))
        BY <2>4, <2>5, <3>1, PrefixTrans
      <3>3. QED
        BY <1>4, <2>4, <3>2 DEF Commits
    <2>8. QED
      BY <2>6, <2>7
  <1>7. QED
    BY <1>5, <1>6

-----------------------------------------------------------------------------
(* The inductive invariant *)

\* Past the lock file; past the verification.
Critical == {"anchorLock", "verify", "catchUp", "write", "checkpoint", "return"}
Working == {"catchUp", "write", "checkpoint", "return"}

FileTypes ==
    /\ log \in Seq(Record) /\ anchor \in Seq(Checkpoint) /\ nextId \in Nat
    /\ torn \in BOOLEAN /\ anchorTorn \in BOOLEAN /\ restored \in BOOLEAN
    /\ acked \in SUBSET Hmacs
    /\ anchored \in Anchoring

LockTypes ==
    /\ threadLock \in [Process -> Thread \cup {"none"}]
    /\ fileLock \in Thread \cup {"none"}
    /\ anchorLock \in Thread \cup {"none", "watchdog"}

ThreadTypes ==
    /\ pc \in [Thread -> PC]
    /\ op \in [Thread -> {"none", "append", "verify", "bootstrap"}]
    /\ event \in [Thread -> Event \cup {"none"}]
    /\ scan \in [Thread -> [records : Nat, last : Hmacs]]
    /\ out \in [Thread -> {"none", "ok", "failed"}]

\* One thread at a time is past the lock file of the log.
Exclusive == \A t \in Thread : pc[t] \in Critical => fileLock = t

\* Which operation may be where.
OpInv(t) ==
    /\ pc[t] = "idle" <=> op[t] = "none"
    /\ op[t] = "bootstrap" => anchored
    /\ pc[t] = "catchUp" => anchored /\ op[t] \in {"append", "verify"}
    /\ pc[t] = "checkpoint" => anchored /\ op[t] \in {"append", "bootstrap"}
    /\ pc[t] = "write" => op[t] = "append"
    /\ pc[t] = "return" => ~anchored /\ op[t] = "append"
    /\ op[t] = "append" <=> event[t] \in Event
    /\ op[t] # "append" <=> event[t] = "none"

Threads == LockTypes /\ ThreadTypes /\ Exclusive /\ \A t \in Thread : OpInv(t)

\* What a thread is about to anchor extends what is anchored.
Extends(t) ==
    /\ (pc[t] \in {"catchUp", "write", "checkpoint"} /\ anchored) =>
          IF op[t] = "bootstrap" THEN anchor = <<>>
          ELSE anchor # <<>> /\ IsPrefix(LastCheckpoint.last, scan[t].last)
    /\ (pc[t] = "return" \/ (pc[t] = "checkpoint" /\ op[t] = "append")) => scan[t].last # <<>>

\* Holds whatever happens to the log.
History ==
    /\ AnchorTellsOneHistory
    /\ <<>> \notin acked
    /\ \A t \in Thread : Extends(t)

\* What a thread scanned is what the log holds.
Current(t) ==
    /\ pc[t] \in Working =>
          /\ ~torn
          /\ scan[t].records = Len(log) /\ scan[t].last = HmacAt(log, Len(log))
    /\ pc[t] = "write" /\ anchored => LastCheckpoint.records = Len(log)

FreshIds ==
    /\ \A k \in 1..Len(log) : log[k].id < nextId
    /\ \A j, k \in 1..Len(log) : log[j].id = log[k].id => j = k

\* Holds as long as no older copy of the log was put back.
Sound ==
    /\ Chained
    /\ FreshIds
    /\ \A t \in Thread : Current(t)
    /\ (anchored /\ anchor # <<>>) => MatchesAnchor /\ Len(log) <= LastCheckpoint.records + 1

IInv == FileTypes /\ Threads /\ History /\ (~restored => Sound)

\* A log that verifies holds every record that was acknowledged.
LEMMA VerifiedIsComplete ==
    ASSUME FileTypes, History, anchored, Verifies, NEW h \in acked
    PROVE  \E k \in 1..Len(log) : EntryHmac(log[k]) = h
  <1>1. log \in Seq(Record) /\ anchor \in Seq(Checkpoint) /\ Chained
    BY DEF FileTypes, Verifies, LogValid, Chained
  <1>2. anchor # <<>> /\ IsPrefix(h, LastCheckpoint.last)
    BY DEF History, AnchorTellsOneHistory
  <1>3. LastCheckpoint \in Checkpoint
    BY <1>1, <1>2 DEF LastCheckpoint
  <1> DEFINE n == LastCheckpoint.records
  <1>4. n \in 0..Len(log) /\ HmacAt(log, n) = LastCheckpoint.last
    BY <1>1, <1>3 DEF Verifies, MatchesAnchor, Checkpoint
  <1>5. h \in Seq(Nat) /\ HmacAt(log, n) \in Seq(Nat) /\ h # <<>>
    BY <1>1, <1>4, HmacType DEF FileTypes, History, Hmacs
  <1>6. Len(HmacAt(log, n)) = n
    BY <1>1, <1>4, ChainCommits DEF Commits
  <1> DEFINE k == Len(h)
  <1>7. k \in 1..n /\ k \in 1..Len(log)
    <2>1. k <= n
      BY <1>2, <1>4, <1>5, <1>6, PrefixIs
    <2>2. k \in Nat /\ k # 0
      BY <1>5
    <2>3. QED
      BY <1>4, <2>1, <2>2
  <1>8. Commits(k, n) /\ Commits(k, k)
    BY <1>1, <1>4, <1>7, ChainCommits
  <1>9. HmacAt(log, k) \in Seq(Nat)
    BY <1>1, <1>7, HmacType DEF Hmacs
  <1>10. h = HmacAt(log, k)
    BY <1>2, <1>4, <1>5, <1>8, <1>9, SamePrefix DEF Commits
  <1>11. QED
    BY <1>7, <1>10 DEF HmacAt

\* The inductive invariant implies that a loss is detected.
LEMMA Detects == IInv => LossIsDetected
  <1> SUFFICES ASSUME IInv PROVE LossIsDetected
    OBVIOUS
  <1>1. FileTypes /\ History
    BY DEF IInv
  <1>2. ASSUME anchored, NEW h \in acked, \A k \in 1..Len(log) : EntryHmac(log[k]) # h
        PROVE  ~Verifies
    BY <1>1, <1>2, VerifiedIsComplete
  <1>3. QED
    BY <1>1, <1>2 DEF LossIsDetected, History

\* The inductive invariant implies that the log never breaks itself.
LEMMA Holds == IInv => NeverBreaksItself
  BY DEF IInv, Sound, Chained, FreshIds, NeverBreaksItself, LogValid, AnchorValid, MatchesAnchor

-----------------------------------------------------------------------------
(* Steps that leave the files alone *)

\* Every other thread, or this one if it is not past the verification, finds
\* what it knows as it was.
Untouched(t) ==
    \/ pc'[t] = pc[t] /\ op'[t] = op[t] /\ scan'[t] = scan[t]
    \/ pc'[t] \notin Working

SameFiles == UNCHANGED <<log, torn, anchor, anchorTorn, nextId, acked, restored, anchored>>

\* A step that touches neither file and changes no scan keeps the files' part.
LEMMA QuietStep ==
    ASSUME IInv, SameFiles, \A t \in Thread : Untouched(t)
    PROVE  FileTypes' /\ History' /\ (~restored => Sound)'
  <1> USE DEF SameFiles
  <1>1. FileTypes'
    BY DEF IInv, FileTypes
  <1>2. LastCheckpoint' = LastCheckpoint
    BY DEF LastCheckpoint
  <1>3. ASSUME NEW t \in Thread PROVE Extends(t)'
    BY <1>2 DEF IInv, History, Extends, Untouched, Working
  <1>4. AnchorTellsOneHistory'
    BY <1>2 DEF IInv, History, AnchorTellsOneHistory
  <1>5. History'
    BY <1>3, <1>4 DEF IInv, History
  <1>6. ASSUME NEW t \in Thread, Current(t) PROVE Current(t)'
    BY <1>2, <1>6 DEF Current, Untouched, Working, HmacAt
  <1>7. Chained /\ FreshIds => Chained' /\ FreshIds'
    BY DEF Chained, FreshIds, HmacAt
  <1>8. MatchesAnchor => MatchesAnchor'
    BY <1>2 DEF MatchesAnchor, HmacAt
  <1>9. (~restored => Sound)'
    BY <1>2, <1>6, <1>7, <1>8 DEF IInv, Sound
  <1>10. QED
    BY <1>1, <1>5, <1>9

\* What leaving does to the threads.
LEMMA LeaveThreads ==
    ASSUME Threads, anchored' = anchored, NEW t \in Thread, NEW o \in {"ok", "failed"}, Leave(t, o)
    PROVE  /\ Threads'
           /\ pc'[t] = "idle"
           /\ \A u \in Thread : u # t => pc'[u] = pc[u] /\ op'[u] = op[u] /\ scan'[u] = scan[u]
  <1> USE DEF Threads, LockTypes, ThreadTypes
  <1>1. NoScan \in [records : Nat, last : Hmacs]
    BY DEF NoScan, Hmacs
  <1>2. LockTypes'
    BY DEF Leave
  <1>3. ThreadTypes'
    BY <1>1 DEF Leave, PC
  <1>4. /\ pc'[t] = "idle" /\ op'[t] = "none" /\ event'[t] = "none"
        /\ \A u \in Thread : u # t => /\ pc'[u] = pc[u] /\ op'[u] = op[u]
                                      /\ event'[u] = event[u] /\ scan'[u] = scan[u]
    BY DEF Leave
  <1>5. Exclusive'
    BY <1>4, AuditAssumption DEF Leave, Exclusive, Critical
  <1>6. ASSUME NEW u \in Thread PROVE OpInv(u)'
    BY <1>4, AuditAssumption DEF OpInv
  <1>7. QED
    BY <1>2, <1>3, <1>4, <1>5, <1>6

\* A step within the critical section, for a thread that stays in it.
LEMMA GotoThreads ==
    ASSUME Threads, anchored' = anchored, NEW t \in Thread, NEW next \in Critical,
           pc[t] \in Critical, Goto(t, next), UNCHANGED lockVars,
           \/ UNCHANGED scan
           \/ \E s \in [records : Nat, last : Hmacs] : scan' = [scan EXCEPT ![t] = s],
           next = "catchUp" => anchored /\ op[t] \in {"append", "verify"},
           next = "checkpoint" => anchored /\ op[t] \in {"append", "bootstrap"},
           next = "write" => op[t] = "append",
           next = "return" => ~anchored /\ op[t] = "append"
    PROVE  /\ Threads'
           /\ pc'[t] = next /\ op' = op
           /\ \A u \in Thread : u # t => pc'[u] = pc[u] /\ scan'[u] = scan[u]
  <1> USE DEF Threads, LockTypes, ThreadTypes, Goto
  <1>1. LockTypes'
    BY DEF lockVars
  <1>2. ThreadTypes'
    BY DEF PC, Critical
  <1>3. /\ pc'[t] = next /\ op' = op
        /\ \A u \in Thread : u # t => pc'[u] = pc[u] /\ scan'[u] = scan[u]
    OBVIOUS
  <1>4. Exclusive'
    BY <1>3 DEF Exclusive, lockVars
  <1>5. ASSUME NEW u \in Thread PROVE OpInv(u)'
    BY <1>3 DEF OpInv, Critical
  <1>6. QED
    BY <1>1, <1>2, <1>3, <1>4, <1>5

\* Starting an operation keeps the invariant.
LEMMA BeginStep ==
    ASSUME IInv, NEW t \in Thread, NEW o \in {"append", "verify", "bootstrap"},
           NEW e \in Event \cup {"none"}, e \in Event <=> o = "append",
           o = "bootstrap" => anchored, Begin(t, o, e)
    PROVE  IInv'
  <1> USE DEF IInv, Threads, LockTypes, ThreadTypes
  <1>1. SameFiles /\ UNCHANGED lockVars /\ scan' = scan
    BY DEF Begin, SameFiles, fileVars
  <1>2. /\ pc'[t] = "threadLock" /\ op'[t] = o /\ event'[t] = e
        /\ \A u \in Thread : u # t => pc'[u] = pc[u] /\ op'[u] = op[u] /\ event'[u] = event[u]
    BY DEF Begin
  <1>3. \A u \in Thread : Untouched(u)
    BY <1>1, <1>2 DEF Untouched, Working
  <1>4. LockTypes'
    BY <1>1 DEF lockVars
  <1>5. ThreadTypes'
    BY <1>1 DEF Begin, PC
  <1>6. Exclusive'
    BY <1>1, <1>2 DEF Exclusive, lockVars, Critical
  <1>7. ASSUME NEW u \in Thread PROVE OpInv(u)'
    BY <1>1, <1>2, AuditAssumption DEF OpInv, SameFiles
  <1>8. FileTypes' /\ History' /\ (~restored => Sound)'
    BY <1>1, <1>3, QuietStep
  <1>9. QED
    BY <1>4, <1>5, <1>6, <1>7, <1>8

\* So does starting any of the three operations.
LEMMA StartStep == ASSUME IInv, NEW t \in Thread, Start(t) PROVE IInv'
  <1>1. ASSUME NEW e \in Event, BeginAppend(t, e) PROVE IInv'
    BY <1>1, BeginStep DEF BeginAppend
  <1>2. CASE BeginVerify(t)
    BY <1>2, BeginStep, AuditAssumption DEF BeginVerify
  <1>3. CASE BeginBootstrap(t)
    BY <1>3, BeginStep, AuditAssumption DEF BeginBootstrap
  <1>4. QED
    BY <1>1, <1>2, <1>3 DEF Start

\* Taking a lock; nobody else can be past the lock file of the log.
LEMMA LockStep ==
    ASSUME IInv, NEW t \in Thread, TakeThreadLock(t) \/ TakeFileLock(t) \/ TakeAnchorLock(t)
    PROVE  IInv'
  <1> USE DEF IInv, Threads, LockTypes, ThreadTypes
  <1>1. SameFiles /\ scan' = scan /\ op' = op /\ event' = event /\ out' = out
    BY DEF TakeThreadLock, TakeFileLock, TakeAnchorLock, SameFiles, fileVars, Goto
  <1>2. /\ pc'[t] \in {"fileLock", "anchorLock", "verify"} /\ pc[t] # "idle"
        /\ pc' = [pc EXCEPT ![t] = pc'[t]]
        /\ \A u \in Thread : u # t => pc'[u] = pc[u]
    BY DEF TakeThreadLock, TakeFileLock, TakeAnchorLock, Goto
  <1>3. \A u \in Thread : Untouched(u)
    BY <1>1, <1>2 DEF Untouched, Working
  <1>4. LockTypes'
    BY AuditAssumption DEF TakeThreadLock, TakeFileLock, TakeAnchorLock
  <1>5. ThreadTypes'
    BY <1>1, <1>2 DEF PC
  <1>6. Exclusive'
    <2>1. CASE TakeThreadLock(t)
      BY <1>2, <2>1 DEF TakeThreadLock, Goto, Exclusive, Critical
    <2>2. CASE TakeFileLock(t)
      BY <1>2, <2>2, AuditAssumption DEF TakeFileLock, Goto, Exclusive, Critical
    <2>3. CASE TakeAnchorLock(t)
      BY <1>2, <2>3 DEF TakeAnchorLock, Goto, Exclusive, Critical
    <2>4. QED
      BY <2>1, <2>2, <2>3
  <1>7. ASSUME NEW u \in Thread PROVE OpInv(u)'
    BY <1>1, <1>2 DEF OpInv, SameFiles
  <1>8. FileTypes' /\ History' /\ (~restored => Sound)'
    BY <1>1, <1>3, QuietStep
  <1>9. QED
    BY <1>4, <1>5, <1>6, <1>7, <1>8

\* An operation that ends without having written anything.
LEMMA EndStep ==
    ASSUME IInv, NEW t \in Thread,
           LockTimeout(t) \/ VerifyReturns(t) \/ VerifyFails(t) \/ SyncFails(t)
    PROVE  IInv'
  <1>1. SameFiles /\ \E o \in {"ok", "failed"} : Leave(t, o)
    BY DEF LockTimeout, VerifyReturns, VerifyFails, SyncFails, SameFiles, fileVars
  <1>2. /\ Threads'
        /\ pc'[t] = "idle"
        /\ \A u \in Thread : u # t => pc'[u] = pc[u] /\ op'[u] = op[u] /\ scan'[u] = scan[u]
    BY <1>1, LeaveThreads DEF IInv, SameFiles
  <1>3. \A u \in Thread : Untouched(u)
    BY <1>2 DEF Untouched, Working
  <1>4. FileTypes' /\ History' /\ (~restored => Sound)'
    BY <1>1, <1>3, QuietStep
  <1>5. QED
    BY <1>2, <1>4 DEF IInv

\* A process that dies loses its locks with its threads.
LEMMA CrashStep == ASSUME IInv, NEW p \in Process, Crash(p) PROVE IInv'
  <1> DEFINE dead == {t \in Thread : ProcessOf[t] = p}
  <1> USE DEF IInv, Threads, LockTypes, ThreadTypes
  <1>1. SameFiles
    BY DEF Crash, SameFiles, fileVars
  <1>2. /\ \A t \in dead : pc'[t] = "idle" /\ op'[t] = "none" /\ event'[t] = "none"
        /\ \A t \in Thread \ dead : /\ pc'[t] = pc[t] /\ op'[t] = op[t] /\ event'[t] = event[t]
                                    /\ scan'[t] = scan[t]
    BY DEF Crash
  <1>3. \A t \in Thread : Untouched(t)
    BY <1>2 DEF Untouched, Working
  <1>4. LockTypes'
    BY DEF Crash
  <1>5. ThreadTypes'
    <2>1. NoScan \in [records : Nat, last : Hmacs]
      BY DEF NoScan, Hmacs
    <2>2. QED
      BY <2>1 DEF Crash, PC
  <1>6. Exclusive'
    BY <1>2 DEF Crash, Exclusive, Critical
  <1>7. ASSUME NEW t \in Thread PROVE OpInv(t)'
    BY <1>1, <1>2, AuditAssumption DEF OpInv, SameFiles
  <1>8. FileTypes' /\ History' /\ (~restored => Sound)'
    BY <1>1, <1>3, QuietStep
  <1>9. QED
    BY <1>4, <1>5, <1>6, <1>7, <1>8

\* The watchdog only takes and releases the lock of the anchor.
LEMMA WatchdogStep == ASSUME IInv, WatchdogLocks \/ WatchdogUnlocks PROVE IInv'
  <1> USE DEF IInv, Threads, LockTypes, ThreadTypes
  <1>1. SameFiles /\ UNCHANGED threadVars /\ UNCHANGED <<threadLock, fileLock>>
        /\ anchorLock' \in {"none", "watchdog"}
    BY DEF WatchdogLocks, WatchdogUnlocks, SameFiles, fileVars
  <1>2. pc' = pc /\ op' = op /\ event' = event /\ scan' = scan /\ out' = out
    BY <1>1 DEF threadVars
  <1>3. \A t \in Thread : Untouched(t)
    BY <1>2 DEF Untouched
  <1>4. LockTypes' /\ ThreadTypes' /\ Exclusive'
    BY <1>1, <1>2 DEF Exclusive
  <1>5. ASSUME NEW t \in Thread PROVE OpInv(t)'
    BY <1>1, <1>2 DEF OpInv, SameFiles
  <1>6. FileTypes' /\ History' /\ (~restored => Sound)'
    BY <1>1, <1>3, QuietStep
  <1>7. QED
    BY <1>4, <1>5, <1>6

-----------------------------------------------------------------------------
(* Steps on the files *)

\* While a thread is past the lock file nobody else has anything in hand.
LEMMA OthersOut ==
    ASSUME Threads, NEW t \in Thread, pc[t] \in Critical,
           \A u \in Thread : u # t => pc'[u] = pc[u]
    PROVE  \A u \in Thread : u # t => Extends(u)' /\ Current(u)'
  <1>1. \A u \in Thread : u # t => pc'[u] \notin Critical
    BY DEF Threads, Exclusive
  <1>2. QED
    BY <1>1 DEF Extends, Current, Critical, Working

\* Writing a record leaves the HMACs of the others as they are.
LEMMA AppendedHmacs ==
    ASSUME log \in Seq(Record), NEW r \in Record, log' = Append(log, r)
    PROVE  /\ Len(log') = Len(log) + 1 /\ Len(log) \in Nat
           /\ log'[Len(log) + 1] = r /\ \A k \in 1..Len(log) : log'[k] = log[k]
           /\ \A k \in 0..Len(log) : HmacAt(log', k) = HmacAt(log, k)
           /\ HmacAt(log', Len(log) + 1) = EntryHmac(r)
  <1>1. /\ Len(log') = Len(log) + 1 /\ Len(log) \in Nat
        /\ log'[Len(log) + 1] = r /\ \A k \in 1..Len(log) : log'[k] = log[k]
    OBVIOUS
  <1>2. QED
    BY <1>1 DEF HmacAt

\* The verification: what is scanned extends what is anchored.
LEMMA VerifyStep == ASSUME IInv, NEW t \in Thread, Verify(t) PROVE IInv'
  <1>1. /\ pc[t] = "verify" /\ Acceptable(t) /\ SameFiles /\ UNCHANGED lockVars
        /\ op[t] = "verify" => Behind(t)
        /\ op[t] \in {"append", "verify", "bootstrap"}
    BY DEF Verify, SameFiles, fileVars, IInv, Threads, ThreadTypes, OpInv
  <1>2. PICK next \in {"checkpoint", "catchUp", "write"} :
            /\ Goto(t, next)
            /\ next = "checkpoint" <=> op[t] = "bootstrap"
            /\ next = "catchUp" <=> op[t] # "bootstrap" /\ Behind(t)
    BY DEF Verify, Behind
  <1>3. log \in Seq(Record) /\ anchor \in Seq(Checkpoint) /\ Len(log) \in Nat
    BY DEF IInv, FileTypes
  <1> DEFINE new == [records |-> Len(log), last |-> HmacAt(log, Len(log))]
  <1>4. new \in [records : Nat, last : Hmacs] /\ scan' = [scan EXCEPT ![t] = new]
    <2>1. HmacAt(log, Len(log)) \in Hmacs
      BY <1>3, HmacType
    <2>2. QED
      BY <1>3, <2>1 DEF Verify
  <1>5. /\ Threads'
        /\ pc'[t] = next /\ op' = op
        /\ \A u \in Thread : u # t => pc'[u] = pc[u] /\ scan'[u] = scan[u]
    <2>1. op[t] = "bootstrap" => anchored
      BY DEF IInv, Threads, OpInv
    <2>2. QED
      BY <1>1, <1>2, <1>4, <2>1, GotoThreads DEF IInv, SameFiles, Critical, Behind
  <1>6. FileTypes' /\ LastCheckpoint' = LastCheckpoint
    BY <1>1 DEF IInv, FileTypes, SameFiles, LastCheckpoint
  <1>7. scan'[t] = new
    BY <1>4 DEF IInv, Threads, ThreadTypes
  <1>8. ASSUME anchored, op[t] # "bootstrap"
        PROVE  anchor # <<>> /\ IsPrefix(LastCheckpoint.last, new.last)
    <2>1. AnchorValid /\ MatchesAnchor /\ Chained
      BY <1>1, <1>8 DEF Acceptable, Verifies, LogValid, Chained
    <2>2. anchor # <<>> /\ LastCheckpoint \in Checkpoint
      BY <1>3, <2>1 DEF AnchorValid, LastCheckpoint
    <2>3. LastCheckpoint.records \in 0..Len(log)
      BY <1>3, <2>1, <2>2 DEF MatchesAnchor, Checkpoint
    <2>4. Commits(LastCheckpoint.records, Len(log))
      BY <1>3, <2>1, <2>3, ChainCommits
    <2>5. QED
      BY <2>1, <2>2, <2>4 DEF Commits, MatchesAnchor
  <1>9. Extends(t)'
    <2>1. op[t] = "bootstrap" => anchor = <<>>
      BY <1>1 DEF Acceptable
    <2>2. QED
      BY <1>1, <1>2, <1>5, <1>6, <1>7, <1>8, <2>1 DEF Extends, SameFiles
  <1>10. Current(t)'
    <2>1. ~torn
      BY <1>1 DEF Acceptable, Verifies, LogValid
    <2>2. next = "write" /\ anchored => LastCheckpoint.records = Len(log)
      <3>1. SUFFICES ASSUME next = "write", anchored PROVE LastCheckpoint.records = Len(log)
        OBVIOUS
      <3>2. op[t] # "bootstrap" /\ ~Behind(t)
        BY <1>2, <3>1
      <3>3. AnchorValid /\ MatchesAnchor
        BY <1>1, <3>1, <3>2 DEF Acceptable, Verifies
      <3>4. LastCheckpoint \in Checkpoint
        BY <1>3, <3>3 DEF AnchorValid, LastCheckpoint
      <3>5. LastCheckpoint.records \in Nat
        BY <3>4 DEF Checkpoint
      <3>6. QED
        BY <1>3, <3>1, <3>2, <3>3, <3>5 DEF Behind, MatchesAnchor
    <2>3. QED
      BY <1>1, <1>2, <1>5, <1>6, <1>7, <2>1, <2>2 DEF Current, SameFiles, HmacAt
  <1>11. \A u \in Thread : u # t => Extends(u)' /\ Current(u)'
    BY <1>1, <1>5, OthersOut DEF IInv, Critical
  <1>12. History'
    <2>1. AnchorTellsOneHistory'
      BY <1>1, <1>6 DEF IInv, History, AnchorTellsOneHistory, SameFiles
    <2>2. QED
      BY <1>1, <1>9, <1>11, <2>1 DEF IInv, History, SameFiles
  <1>13. (~restored => Sound)'
    <2>1. Chained /\ FreshIds => Chained' /\ FreshIds'
      BY <1>1 DEF Chained, FreshIds, HmacAt, SameFiles
    <2>2. MatchesAnchor => MatchesAnchor'
      BY <1>1, <1>6 DEF MatchesAnchor, HmacAt, SameFiles
    <2>3. QED
      BY <1>1, <1>6, <1>10, <1>11, <2>1, <2>2 DEF IInv, Sound, SameFiles
  <1>14. QED
    BY <1>5, <1>6, <1>12, <1>13 DEF IInv

\* A record is written after what was scanned, which is what the log holds.
LEMMA WriteStep == ASSUME IInv, NEW t \in Thread, WriteRecord(t) PROVE IInv'
  <1> DEFINE r == NewRecord(t)
  <1> DEFINE new == [records |-> scan[t].records + 1, last |-> EntryHmac(r)]
  <1> DEFINE next == IF anchored THEN "checkpoint" ELSE "return"
  <1>1. /\ pc[t] = "write" /\ log' = Append(log, r) /\ nextId' = nextId + 1
        /\ scan' = [scan EXCEPT ![t] = new] /\ Goto(t, next)
        /\ UNCHANGED <<torn, anchor, anchorTorn, acked, restored, anchored>>
        /\ UNCHANGED lockVars
    BY DEF WriteRecord
  <1>2. op[t] = "append" /\ event[t] \in Event
    BY <1>1 DEF IInv, Threads, OpInv
  <1>3. /\ log \in Seq(Record) /\ nextId \in Nat
        /\ scan[t] \in [records : Nat, last : Hmacs]
    BY DEF IInv, FileTypes, Threads, ThreadTypes
  <1>4. scan[t].records \in Nat /\ scan[t].last \in Seq(Nat)
    BY <1>3 DEF Hmacs
  <1>5. /\ r.id = nextId /\ r.prev = scan[t].last
        /\ r \in Record
    BY <1>2, <1>3, <1>4 DEF NewRecord, Record, Hmacs
  <1>6. /\ EntryHmac(r) = Append(scan[t].last, nextId)
        /\ EntryHmac(r) \in Seq(Nat) /\ EntryHmac(r) # <<>>
        /\ IsPrefix(scan[t].last, EntryHmac(r))
    <2>1. EntryHmac(r) = Append(scan[t].last, nextId)
      BY <1>5 DEF EntryHmac
    <2>2. Append(scan[t].last, nextId) \in Seq(Nat)
      BY <1>3, <1>4
    <2>3. Append(scan[t].last, nextId) # <<>>
      BY <1>3, <1>4, AppendIsNotEmpty
    <2>4. QED
      BY <1>3, <1>4, <2>1, <2>2, <2>3, PrefixOfAppend
  <1>7. new \in [records : Nat, last : Hmacs]
    BY <1>4, <1>6 DEF Hmacs
  <1>8. /\ Threads'
        /\ pc'[t] = next /\ op' = op
        /\ \A u \in Thread : u # t => pc'[u] = pc[u] /\ scan'[u] = scan[u]
    BY <1>1, <1>2, <1>7, GotoThreads DEF IInv, Critical
  <1>9. scan'[t] = new
    BY <1>1 DEF IInv, Threads, ThreadTypes
  <1>10. FileTypes'
    BY <1>1, <1>3, <1>5 DEF IInv, FileTypes
  <1>11. LastCheckpoint' = LastCheckpoint
    BY <1>1 DEF LastCheckpoint
  <1>12. \A u \in Thread : u # t => Extends(u)' /\ Current(u)'
    BY <1>1, <1>8, OthersOut DEF IInv, Critical
  <1>13. Extends(t)'
    <2>1. ASSUME anchored PROVE anchor # <<>> /\ IsPrefix(LastCheckpoint.last, new.last)
      <3>1. anchor # <<>> /\ IsPrefix(LastCheckpoint.last, scan[t].last)
        BY <1>1, <1>2, <2>1 DEF IInv, History, Extends
      <3>2. LastCheckpoint \in Checkpoint
        BY <3>1 DEF IInv, FileTypes, LastCheckpoint
      <3>3. LastCheckpoint.last \in Seq(Nat)
        BY <3>2 DEF Checkpoint, Hmacs
      <3>4. QED
        BY <1>4, <1>6, <3>1, <3>3, PrefixTrans
    <2>2. QED
      BY <1>1, <1>2, <1>6, <1>8, <1>9, <1>11, <2>1 DEF Extends
  <1>14. History'
    <2>1. AnchorTellsOneHistory'
      BY <1>1, <1>11 DEF IInv, History, AnchorTellsOneHistory
    <2>2. QED
      BY <1>1, <1>12, <1>13, <2>1 DEF IInv, History
  <1>15. ASSUME ~restored PROVE Sound'
    <2>1. /\ Chained /\ FreshIds /\ Current(t)
          /\ (anchored /\ anchor # <<>>) => MatchesAnchor /\ Len(log) <= LastCheckpoint.records + 1
      BY <1>15 DEF IInv, Sound
    <2>2. /\ ~torn /\ scan[t].records = Len(log) /\ scan[t].last = HmacAt(log, Len(log))
          /\ anchored => LastCheckpoint.records = Len(log)
      BY <1>1, <2>1 DEF Current, Working
    <2>3. /\ Len(log') = Len(log) + 1 /\ Len(log) \in Nat
          /\ log'[Len(log) + 1] = r /\ \A k \in 1..Len(log) : log'[k] = log[k]
          /\ \A k \in 0..Len(log) : HmacAt(log', k) = HmacAt(log, k)
          /\ HmacAt(log', Len(log) + 1) = EntryHmac(r)
      BY <1>1, <1>3, <1>5, AppendedHmacs
    <2>4. Chained'
      <3>1. ASSUME NEW k \in 1..Len(log') PROVE log'[k].prev = HmacAt(log', k - 1)
        <4>1. CASE k = Len(log) + 1
          BY <1>5, <2>2, <2>3, <4>1
        <4>2. CASE k \in 1..Len(log)
          <5>1. k - 1 \in 0..Len(log)
            BY <2>3, <4>2
          <5>2. QED
            BY <2>1, <2>3, <4>2, <5>1 DEF Chained
        <4>3. QED
          BY <2>3, <4>1, <4>2
      <3>2. QED
        BY <3>1 DEF Chained
    <2>5. FreshIds'
      <3>1. \A k \in 1..Len(log) : log[k].id \in Nat
        <4>1. \A k \in 1..Len(log) : log[k] \in Record
          BY <1>3
        <4>2. QED
          BY <4>1 DEF Record
      <3>2. \A k \in 1..Len(log) : log'[k].id < nextId /\ log'[k].id \in Nat
        BY <2>1, <2>3, <3>1 DEF FreshIds
      <3>3. log'[Len(log) + 1].id = nextId
        BY <1>5, <2>3
      <3>4. \A j, k \in 1..Len(log) : log'[j].id = log'[k].id => j = k
        BY <2>1, <2>3 DEF FreshIds
      <3>5. QED
        BY <1>1, <1>3, <2>3, <3>2, <3>3, <3>4 DEF FreshIds
    <2>6. Current(t)'
      BY <1>1, <1>8, <1>9, <2>2, <2>3 DEF Current, Working
    <2>7. ASSUME anchored, anchor # <<>>
          PROVE  MatchesAnchor' /\ (Len(log) <= LastCheckpoint.records + 1)'
      BY <1>11, <2>1, <2>2, <2>3, <2>7 DEF MatchesAnchor
    <2>8. QED
      BY <1>1, <1>12, <2>4, <2>5, <2>6, <2>7 DEF Sound
  <1>16. QED
    BY <1>1, <1>8, <1>10, <1>14, <1>15 DEF IInv

\* Without an anchor an append is acknowledged once its record is in the log.
LEMMA ReturnStep == ASSUME IInv, NEW t \in Thread, AppendReturns(t) PROVE IInv'
  <1>1. /\ pc[t] = "return" /\ acked' = acked \cup {scan[t].last} /\ Leave(t, "ok")
        /\ UNCHANGED <<log, torn, anchor, anchorTorn, nextId, restored, anchored>>
    BY DEF AppendReturns, fileVars
  <1>2. ~anchored /\ scan[t].last # <<>> /\ scan[t].last \in Hmacs
    BY <1>1 DEF IInv, Threads, ThreadTypes, OpInv, History, Extends
  <1>3. /\ Threads'
        /\ pc'[t] = "idle"
        /\ \A u \in Thread : u # t => pc'[u] = pc[u]
    BY <1>1, LeaveThreads DEF IInv
  <1>4. FileTypes' /\ LastCheckpoint' = LastCheckpoint
    BY <1>1, <1>2 DEF IInv, FileTypes, LastCheckpoint
  <1>5. \A u \in Thread : Extends(u)' /\ Current(u)'
    BY <1>1, <1>3, OthersOut DEF IInv, Critical, Extends, Current, Working
  <1>6. History'
    BY <1>1, <1>2, <1>4, <1>5 DEF IInv, History, AnchorTellsOneHistory
  <1>7. ASSUME ~restored PROVE Sound'
    BY <1>1, <1>2, <1>5, <1>7 DEF IInv, Sound, Chained, FreshIds, HmacAt
  <1>8. QED
    BY <1>1, <1>3, <1>4, <1>6, <1>7 DEF IInv

\* A line that is cut short leaves the complete lines as they are.
LEMMA WriteFailsStep == ASSUME IInv, NEW t \in Thread, WriteFails(t) PROVE IInv'
  <1>1. /\ pc[t] = "write" /\ torn' \in {torn, TRUE} /\ Leave(t, "failed")
        /\ UNCHANGED <<log, nextId, anchor, anchorTorn, acked, restored, anchored>>
    BY DEF WriteFails
  <1>2. /\ Threads'
        /\ pc'[t] = "idle"
        /\ \A u \in Thread : u # t => pc'[u] = pc[u]
    BY <1>1, LeaveThreads DEF IInv
  <1>3. FileTypes'
    <2>1. torn' \in BOOLEAN
      BY <1>1 DEF IInv, FileTypes
    <2>2. QED
      BY <1>1, <2>1 DEF IInv, FileTypes
  <1>4. LastCheckpoint' = LastCheckpoint
    BY <1>1 DEF LastCheckpoint
  <1>5. \A u \in Thread : Extends(u)' /\ Current(u)'
    BY <1>1, <1>2, OthersOut DEF IInv, Critical, Extends, Current, Working
  <1>6. History'
    BY <1>1, <1>4, <1>5 DEF IInv, History, AnchorTellsOneHistory
  <1>7. ASSUME ~restored PROVE Sound'
    <2>1. Chained' /\ FreshIds'
      BY <1>1, <1>7 DEF IInv, Sound, Chained, FreshIds, HmacAt
    <2>2. MatchesAnchor => MatchesAnchor'
      BY <1>1, <1>4 DEF MatchesAnchor, HmacAt
    <2>3. QED
      BY <1>1, <1>4, <1>5, <1>7, <2>1, <2>2 DEF IInv, Sound
  <1>8. QED
    BY <1>1, <1>2, <1>3, <1>6, <1>7 DEF IInv

\* A new checkpoint extends the last one, commits to whatever was acknowledged,
\* and is about the log as it is unless an older copy was put back.
LEMMA Checkpoints ==
    ASSUME IInv, NEW t \in Thread, pc[t] \in {"catchUp", "checkpoint"}, AppendCheckpoint(t)
    PROVE  /\ anchored
           /\ anchor' \in Seq(Checkpoint) /\ anchor' # <<>> /\ anchorTorn' = anchorTorn
           /\ LastCheckpoint' = NewCheckpoint(t)
           /\ \A k \in 2..Len(anchor') : IsPrefix(anchor'[k - 1].last, anchor'[k].last)
           /\ \A h \in acked : IsPrefix(h, scan[t].last)
  <1>1. /\ anchored /\ anchor \in Seq(Checkpoint) /\ acked \in SUBSET Seq(Nat)
        /\ scan[t].records \in Nat /\ scan[t].last \in Seq(Nat)
    BY DEF IInv, FileTypes, Threads, ThreadTypes, OpInv, Hmacs
  <1>2. anchor' = Append(anchor, NewCheckpoint(t)) /\ anchorTorn' = anchorTorn
    BY DEF AppendCheckpoint
  <1>3. Len(anchor) \in Nat
    BY <1>1
  <1>4. NewCheckpoint(t) \in Checkpoint /\ NewCheckpoint(t).last = scan[t].last
    BY <1>1, <1>3 DEF NewCheckpoint, Checkpoint, Hmacs
  <1>5. /\ anchor' \in Seq(Checkpoint) /\ Len(anchor') = Len(anchor) + 1
        /\ anchor'[Len(anchor) + 1] = NewCheckpoint(t)
        /\ \A k \in 1..Len(anchor) : anchor'[k] = anchor[k]
    BY <1>1, <1>2, <1>4
  <1>6. anchor' # <<>>
    BY <1>1, <1>2, <1>4, AppendIsNotEmpty
  <1>7. LastCheckpoint' = NewCheckpoint(t)
    BY <1>5 DEF LastCheckpoint
  <1>8. \A k \in 2..Len(anchor) : IsPrefix(anchor[k - 1].last, anchor[k].last)
    BY DEF IInv, History, AnchorTellsOneHistory
  <1>9. CASE anchor = <<>>
    <2>1. Len(anchor) = 0
      BY <1>9
    <2>2. acked = {}
      BY <1>1, <1>9 DEF IInv, History, AnchorTellsOneHistory
    <2>3. QED
      BY <1>1, <1>2, <1>5, <1>6, <1>7, <2>1, <2>2
  <1>10. CASE anchor # <<>>
    <2>1. IsPrefix(LastCheckpoint.last, scan[t].last)
      BY <1>1, <1>10 DEF IInv, History, Extends
    <2>2. Len(anchor) # 0
      BY <1>1, <1>10
    <2>3. LastCheckpoint \in Checkpoint
      BY <1>1, <1>10 DEF LastCheckpoint
    <2>4. LastCheckpoint.last \in Seq(Nat)
      BY <2>3 DEF Checkpoint, Hmacs
    <2>5. \A h \in acked : IsPrefix(h, LastCheckpoint.last)
      BY <1>1 DEF IInv, History, AnchorTellsOneHistory
    <2>6. \A h \in acked : IsPrefix(h, scan[t].last)
      BY <1>1, <2>1, <2>4, <2>5, PrefixTrans
    <2>7. ASSUME NEW k \in 2..Len(anchor') PROVE IsPrefix(anchor'[k - 1].last, anchor'[k].last)
      <3>1. CASE k = Len(anchor) + 1
        <4>1. anchor'[k] = NewCheckpoint(t) /\ anchor'[k - 1] = LastCheckpoint
          BY <1>3, <1>5, <2>2, <3>1 DEF LastCheckpoint
        <4>2. QED
          BY <1>4, <2>1, <4>1
      <3>2. CASE k # Len(anchor) + 1
        <4>1. k \in 2..Len(anchor) /\ k \in 1..Len(anchor) /\ k - 1 \in 1..Len(anchor)
          BY <1>3, <1>5, <3>2
        <4>2. QED
          BY <1>5, <1>8, <4>1
      <3>3. QED
        BY <3>1, <3>2
    <2>8. QED
      BY <1>1, <1>2, <1>5, <1>6, <1>7, <2>6, <2>7
  <1>11. QED
    BY <1>9, <1>10

\* What follows for the two histories, once every thread is seen to.
LEMMA CheckpointFiles ==
    ASSUME IInv, NEW t \in Thread, pc[t] \in {"catchUp", "checkpoint"}, AppendCheckpoint(t),
           UNCHANGED <<log, torn, nextId, restored, anchored>>,
           \/ acked' = acked
           \/ acked' = acked \cup {scan[t].last} /\ scan[t].last # <<>>,
           \A u \in Thread : Extends(u)',
           ~restored => \A u \in Thread : Current(u)'
    PROVE  FileTypes' /\ History' /\ (~restored => Sound)'
  <1>1. /\ anchored
        /\ anchor' \in Seq(Checkpoint) /\ anchor' # <<>> /\ anchorTorn' = anchorTorn
        /\ LastCheckpoint' = NewCheckpoint(t)
        /\ \A k \in 2..Len(anchor') : IsPrefix(anchor'[k - 1].last, anchor'[k].last)
        /\ \A h \in acked : IsPrefix(h, scan[t].last)
    BY Checkpoints
  <1>2. scan[t].last \in Seq(Nat) /\ scan[t].records \in Nat
    BY DEF IInv, Threads, ThreadTypes, Hmacs
  <1>3. acked' \in SUBSET Hmacs /\ <<>> \notin acked'
    BY <1>2 DEF IInv, FileTypes, History, Hmacs
  <1>4. FileTypes'
    BY <1>1, <1>3 DEF IInv, FileTypes
  <1>5. LastCheckpoint'.last = scan[t].last /\ LastCheckpoint'.records = scan[t].records
    BY <1>1 DEF NewCheckpoint
  <1>6. \A h \in acked' : IsPrefix(h, LastCheckpoint'.last)
    BY <1>1, <1>2, <1>5, PrefixOfItself
  <1>7. History'
    BY <1>1, <1>3, <1>6 DEF History, AnchorTellsOneHistory
  <1>8. ASSUME ~restored PROVE Sound'
    <2>1. Chained /\ FreshIds /\ Current(t)
      BY <1>8 DEF IInv, Sound
    <2>2. scan[t].records = Len(log) /\ scan[t].last = HmacAt(log, Len(log))
      BY <2>1 DEF Current, Working
    <2>3. Chained' /\ FreshIds'
      BY <2>1 DEF Chained, FreshIds, HmacAt
    <2>4. MatchesAnchor' /\ (Len(log) <= LastCheckpoint.records + 1)'
      <3>1. HmacAt(log', Len(log')) = HmacAt(log, Len(log)) /\ Len(log') = Len(log)
        OBVIOUS
      <3>2. Len(log) \in Nat
        BY <1>2, <2>2
      <3>3. QED
        BY <1>5, <2>2, <3>1, <3>2 DEF MatchesAnchor
    <2>5. QED
      BY <1>8, <2>3, <2>4 DEF Sound
  <1>9. QED
    BY <1>4, <1>7, <1>8

\* The checkpoint before an append's own record keeps the invariant.
LEMMA CatchUpStep == ASSUME IInv, NEW t \in Thread, CatchUp(t) PROVE IInv'
  <1>1. /\ pc[t] = "catchUp" /\ op[t] = "append" /\ AppendCheckpoint(t) /\ Goto(t, "write")
        /\ UNCHANGED <<log, torn, nextId, restored, anchored>> /\ acked' = acked
        /\ UNCHANGED lockVars /\ scan' = scan
    BY DEF CatchUp
  <1>2. /\ Threads'
        /\ pc'[t] = "write" /\ op' = op
        /\ \A u \in Thread : u # t => pc'[u] = pc[u]
    BY <1>1, GotoThreads DEF IInv, Critical
  <1>3. \A u \in Thread : u # t => Extends(u)' /\ Current(u)'
    BY <1>1, <1>2, OthersOut DEF IInv, Critical
  <1>4. anchor' # <<>> /\ LastCheckpoint' = NewCheckpoint(t)
    BY <1>1, Checkpoints
  <1>5. LastCheckpoint'.last = scan[t].last /\ LastCheckpoint'.records = scan[t].records
    BY <1>4 DEF NewCheckpoint
  <1>6. Extends(t)'
    <2>1. scan[t].last \in Seq(Nat)
      BY DEF IInv, Threads, ThreadTypes, Hmacs
    <2>2. QED
      BY <1>1, <1>2, <1>4, <1>5, <2>1, PrefixOfItself DEF Extends
  <1>7. ~restored => Current(t)'
    <2>1. ~restored => ~torn /\ scan[t].records = Len(log) /\ scan[t].last = HmacAt(log, Len(log))
      BY <1>1 DEF IInv, Sound, Current, Working
    <2>2. HmacAt(log', Len(log')) = HmacAt(log, Len(log))
      BY <1>1
    <2>3. QED
      BY <1>1, <1>2, <1>5, <2>1, <2>2 DEF Current
  <1>8. FileTypes' /\ History' /\ (~restored => Sound)'
    BY <1>1, <1>3, <1>6, <1>7, CheckpointFiles
  <1>9. QED
    BY <1>2, <1>8 DEF IInv

\* The operation ends: with its checkpoint, or without one.
LEMMA CheckpointStep ==
    ASSUME IInv, NEW t \in Thread, CheckpointReturns(t) \/ CheckpointFails(t) PROVE IInv'
  <1>1. /\ pc[t] \in {"catchUp", "checkpoint"} /\ \E o \in {"ok", "failed"} : Leave(t, o)
        /\ UNCHANGED <<log, torn, nextId, restored, anchored>>
    BY DEF CheckpointReturns, CheckpointFails
  <1>2. /\ Threads'
        /\ pc'[t] = "idle"
        /\ \A u \in Thread : u # t => pc'[u] = pc[u]
    BY <1>1, LeaveThreads DEF IInv
  <1>3. \A u \in Thread : Extends(u)' /\ Current(u)'
    BY <1>1, <1>2, OthersOut DEF IInv, Critical, Extends, Current, Working
  <1>4. CASE AppendCheckpoint(t)
    <2>1. \/ acked' = acked
          \/ acked' = acked \cup {scan[t].last} /\ scan[t].last # <<>>
      <3>1. CASE CheckpointReturns(t)
        <4>1. op[t] = "append" => pc[t] = "checkpoint"
          BY <3>1 DEF CheckpointReturns
        <4>2. op[t] = "append" => scan[t].last # <<>>
          BY <4>1 DEF IInv, History, Extends
        <4>3. QED
          BY <3>1, <4>2 DEF CheckpointReturns
      <3>2. CASE CheckpointFails(t)
        BY <3>2 DEF CheckpointFails
      <3>3. QED
        BY <3>1, <3>2
    <2>2. FileTypes' /\ History' /\ (~restored => Sound)'
      BY <1>1, <1>3, <1>4, <2>1, CheckpointFiles
    <2>3. QED
      BY <1>2, <2>2 DEF IInv
  <1>5. CASE ~AppendCheckpoint(t)
    <2>1. anchor' = anchor /\ acked' = acked /\ (anchorTorn' = anchorTorn \/ anchorTorn' = TRUE)
      BY <1>5 DEF CheckpointReturns, CheckpointFails
    <2>2. anchorTorn' \in BOOLEAN
      BY <2>1 DEF IInv, FileTypes
    <2>3. FileTypes' /\ LastCheckpoint' = LastCheckpoint
      BY <1>1, <2>1, <2>2 DEF IInv, FileTypes, LastCheckpoint
    <2>4. History'
      BY <1>1, <1>3, <2>1, <2>3 DEF IInv, History, AnchorTellsOneHistory
    <2>5. Chained /\ FreshIds => Chained' /\ FreshIds'
      BY <1>1 DEF Chained, FreshIds, HmacAt
    <2>6. MatchesAnchor => MatchesAnchor'
      BY <1>1, <2>3 DEF MatchesAnchor, HmacAt
    <2>7. (~restored => Sound)'
      BY <1>1, <1>3, <2>1, <2>3, <2>5, <2>6 DEF IInv, Sound
    <2>8. QED
      BY <1>2, <2>3, <2>4, <2>7 DEF IInv
  <1>6. QED
    BY <1>4, <1>5

\* An older copy is put back, or a partial line is removed.
LEMMA RestoreStep == ASSUME IInv, NEW n \in 0..Len(log), Restore(n) PROVE IInv'
  <1>1. /\ log' = SubSeq(log, 1, n) /\ torn' = FALSE /\ ~restored
        /\ UNCHANGED <<anchor, anchorTorn, nextId, acked, anchored>>
        /\ UNCHANGED lockVars /\ UNCHANGED threadVars
    BY DEF Restore
  <1>2. log \in Seq(Record) /\ Len(log) \in Nat
    BY DEF IInv, FileTypes
  <1>3. IF n < Len(log) THEN restored' = TRUE ELSE restored' = FALSE
    <2>1. CASE n < Len(log)
      BY <2>1 DEF Restore
    <2>2. CASE ~(n < Len(log))
      <3>1. restored' = (n < Len(log))
        BY DEF Restore
      <3>2. (n < Len(log)) = FALSE
        BY <2>2
      <3>3. QED
        BY <2>2, <3>1, <3>2
    <2>3. QED
      BY <2>1, <2>2
  <1>4. FileTypes'
    <2>1. log' \in Seq(Record)
      BY <1>1, <1>2
    <2>2. restored' \in BOOLEAN /\ torn' \in BOOLEAN
      BY <1>1, <1>3
    <2>3. QED
      BY <1>1, <2>1, <2>2 DEF IInv, FileTypes
  <1>5. Threads'
    BY <1>1 DEF IInv, Threads, LockTypes, ThreadTypes, Exclusive, OpInv, lockVars, threadVars
  <1>6. LastCheckpoint' = LastCheckpoint
    BY <1>1 DEF LastCheckpoint
  <1>7. History'
    BY <1>1, <1>6 DEF IInv, History, AnchorTellsOneHistory, Extends, threadVars
  <1>8. ASSUME ~restored' PROVE Sound'
    <2>1. n = Len(log)
      BY <1>2, <1>8, <1>3
    <2>2. log' = log
      BY <1>1, <1>2, <2>1
    <2>3. Sound
      BY <1>1 DEF IInv
    <2>4. Chained' /\ FreshIds'
      BY <1>1, <2>2, <2>3 DEF Sound, Chained, FreshIds, HmacAt
    <2>5. MatchesAnchor => MatchesAnchor'
      BY <1>6, <2>2 DEF MatchesAnchor, HmacAt
    <2>6. \A t \in Thread : Current(t)'
      BY <1>1, <1>6, <2>2, <2>3 DEF Sound, Current, HmacAt, threadVars
    <2>7. QED
      BY <1>1, <1>6, <2>2, <2>3, <2>4, <2>5, <2>6 DEF Sound
  <1>9. QED
    BY <1>4, <1>5, <1>7, <1>8 DEF IInv

-----------------------------------------------------------------------------
(* The invariant *)

\* The invariant holds initially.
LEMMA InitIInv == Init => IInv
  <1> SUFFICES ASSUME Init PROVE IInv
    OBVIOUS
  <1> USE AuditAssumption DEF Init
  <1>1. NoScan \in [records : Nat, last : Hmacs]
    BY DEF NoScan, Hmacs
  <1>2. FileTypes
    <2>1. torn \in BOOLEAN /\ anchorTorn \in BOOLEAN /\ restored \in BOOLEAN
      OBVIOUS
    <2>2. log \in Seq(Record) /\ anchor \in Seq(Checkpoint) /\ nextId \in Nat
      OBVIOUS
    <2>3. acked \in SUBSET Hmacs /\ anchored \in Anchoring
      OBVIOUS
    <2>4. QED
      BY <2>1, <2>2, <2>3 DEF FileTypes
  <1>3. Threads
    BY <1>1 DEF Threads, LockTypes, ThreadTypes, PC, Exclusive, Critical, OpInv
  <1>4. Len(log) = 0 /\ Len(anchor) = 0
    OBVIOUS
  <1>5. History
    BY <1>4 DEF History, AnchorTellsOneHistory, Extends
  <1>6. Sound
    BY <1>4 DEF Sound, Chained, FreshIds, Current, Working
  <1>7. QED
    BY <1>2, <1>3, <1>5, <1>6 DEF IInv

\* Every step preserves the invariant.
LEMMA StepIInv == IInv /\ [Next]_vars => IInv'
  <1> SUFFICES ASSUME IInv, [Next]_vars PROVE IInv'
    OBVIOUS
  <1>1. ASSUME NEW t \in Thread, Step(t) PROVE IInv'
    BY <1>1, LockStep, EndStep, VerifyStep, WriteStep, ReturnStep, WriteFailsStep, CatchUpStep,
       CheckpointStep DEF Step
  <1>2. ASSUME NEW t \in Thread, Start(t) PROVE IInv'
    BY <1>2, StartStep
  <1>3. ASSUME NEW p \in Process, Crash(p) PROVE IInv'
    BY <1>3, CrashStep
  <1>4. ASSUME NEW n \in 0..Len(log), Restore(n) PROVE IInv'
    BY <1>4, RestoreStep
  <1>5. CASE UNCHANGED vars
    <2>1. SameFiles /\ UNCHANGED lockVars
      BY <1>5 DEF vars, SameFiles, fileVars
    <2>2. pc' = pc /\ op' = op /\ event' = event /\ scan' = scan /\ out' = out
      BY <1>5 DEF vars, threadVars
    <2>3. Threads'
      BY <2>1, <2>2
         DEF IInv, Threads, LockTypes, ThreadTypes, Exclusive, OpInv, SameFiles, lockVars
    <2>4. \A t \in Thread : Untouched(t)
      BY <2>2 DEF Untouched
    <2>5. QED
      BY <2>1, <2>3, <2>4, QuietStep DEF IInv
  <1>6. QED
    BY <1>1, <1>2, <1>3, <1>4, <1>5, WatchdogStep DEF Next

\* The invariant holds throughout.
LEMMA Invariant == Spec => []IInv
  BY InitIInv, StepIInv, PTL DEF Spec

\* The state keeps its type.
THEOREM TypeCorrect == Spec => []TypeOK
  <1>1. IInv => TypeOK
    BY DEF IInv, FileTypes, Threads, LockTypes, ThreadTypes, TypeOK
  <1>2. QED
    BY <1>1, Invariant, PTL

\* Appends, failures, partial checkpoints and crashes never break the log on
\* their own, and the anchor lags by at most one record: for any number of
\* threads and processes.
THEOREM Integrity == Spec => []NeverBreaksItself
  BY Holds, Invariant, PTL

\* An acknowledged record that is no longer in the log makes verify() refuse it,
\* and the anchor tells one history, whenever the older copy was put back.
THEOREM Detection == Spec => []LossIsDetected
  BY Detects, Invariant, PTL

-----------------------------------------------------------------------------
(* The ledger that the log implements *)

\* The refinement mapping, by name.
Shown == [k \in 1..Len(log) |-> log[k].event]
Phase(t) == CASE op[t] # "append" -> "idle"
              [] op[t] = "append" /\ pc[t] \in {"checkpoint", "return"} -> "recorded"
              [] OTHER -> "pending"
Phases == [t \in Thread |-> Phase(t)]

\* The phase of a thread in the ledger's terms.
LEMMA PhaseIs ==
    ASSUME NEW t \in Thread
    PROVE  /\ op[t] # "append" => Phase(t) = "idle"
           /\ op[t] = "append" /\ pc[t] \in {"checkpoint", "return"} => Phase(t) = "recorded"
           /\ op[t] = "append" /\ pc[t] \notin {"checkpoint", "return"} => Phase(t) = "pending"
  <1>1. CASE op[t] # "append"
    BY <1>1 DEF Phase
  <1>2. CASE op[t] = "append" /\ pc[t] \in {"checkpoint", "return"}
    BY <1>2 DEF Phase
  <1>3. CASE op[t] = "append" /\ pc[t] \notin {"checkpoint", "return"}
    BY <1>3 DEF Phase
  <1>4. QED
    BY <1>1, <1>2, <1>3

\* The same, in the next state.
LEMMA PhaseNext ==
    ASSUME NEW t \in Thread
    PROVE  /\ op'[t] # "append" => Phase(t)' = "idle"
           /\ op'[t] = "append" /\ pc'[t] \in {"checkpoint", "return"} => Phase(t)' = "recorded"
           /\ op'[t] = "append" /\ pc'[t] \notin {"checkpoint", "return"} => Phase(t)' = "pending"
           /\ pc'[t] = pc[t] /\ op'[t] = op[t] => Phase(t)' = Phase(t)
  <1>1. CASE op'[t] # "append"
    BY <1>1 DEF Phase
  <1>2. CASE op'[t] = "append" /\ pc'[t] \in {"checkpoint", "return"}
    BY <1>2 DEF Phase
  <1>3. CASE op'[t] = "append" /\ pc'[t] \notin {"checkpoint", "return"}
    BY <1>3 DEF Phase
  <1>4. QED
    BY <1>1, <1>2, <1>3

\* The ledger's actions, read through the mapping.
LEMMA LedgerIs ==
    ASSUME NEW t \in Thread
    PROVE  /\ \A e \in Event :
                 /\ Phases[t] = "idle" /\ Phases' = [Phases EXCEPT ![t] = "pending"]
                 /\ event' = [event EXCEPT ![t] = e] /\ out' = [out EXCEPT ![t] = "none"]
                 /\ Shown' = Shown
                 => Ledger!Next
           /\ /\ Phases[t] = "pending" /\ Shown' = Append(Shown, event[t])
              /\ Phases' = [Phases EXCEPT ![t] = "recorded"] /\ event' = event /\ out' = out
              => Ledger!Next
           /\ \A o \in {"ok", "failed"} :
                 /\ Phases[t] = "recorded" \/ (Phases[t] = "pending" /\ o = "failed")
                 /\ Phases' = [Phases EXCEPT ![t] = "idle"]
                 /\ event' = [event EXCEPT ![t] = "none"] /\ out' = [out EXCEPT ![t] = o]
                 /\ Shown' = Shown
                 => Ledger!Next
  <1>1. ASSUME NEW e \in Event,
               Phases[t] = "idle", Phases' = [Phases EXCEPT ![t] = "pending"],
               event' = [event EXCEPT ![t] = e], out' = [out EXCEPT ![t] = "none"],
               Shown' = Shown
        PROVE  Ledger!Begin(t, e)
    BY <1>1 DEF Ledger!Begin, Phases, Phase, Shown
  <1>2. ASSUME Phases[t] = "pending", Shown' = Append(Shown, event[t]),
               Phases' = [Phases EXCEPT ![t] = "recorded"], event' = event, out' = out
        PROVE  Ledger!Record(t)
    BY <1>2 DEF Ledger!Record, Phases, Phase, Shown
  <1>3. ASSUME NEW o \in {"ok", "failed"},
               Phases[t] = "recorded" \/ (Phases[t] = "pending" /\ o = "failed"),
               Phases' = [Phases EXCEPT ![t] = "idle"],
               event' = [event EXCEPT ![t] = "none"], out' = [out EXCEPT ![t] = o],
               Shown' = Shown
        PROVE  Ledger!Succeed(t) \/ Ledger!Fail(t)
    BY <1>3 DEF Ledger!Succeed, Ledger!Fail, Ledger!Return, Phases, Phase, Shown
  <1>4. QED
    BY <1>1, <1>2, <1>3 DEF Ledger!Next, Ledger!Write

\* The ledger's crash, read through the mapping.
LEMMA LedgerCrashIs ==
    ASSUME NEW dead \in SUBSET Thread,
           Phases' = [t \in Thread |-> IF t \in dead THEN "idle" ELSE Phases[t]],
           event' = [t \in Thread |-> IF t \in dead THEN "none" ELSE event[t]],
           out' = [t \in Thread |-> IF t \in dead THEN "none" ELSE out[t]],
           Shown' = Shown
    PROVE  Ledger!Next
  <1>1. Ledger!Crash(dead)
    BY DEF Ledger!Crash, Phases, Phase, Shown
  <1>2. QED
    BY <1>1 DEF Ledger!Next

\* What the callers see does not change.
LEMMA LedgerStutter ==
    ASSUME Shown' = Shown, Phases' = Phases, event' = event, out' = out
    PROVE  Ledger!alVars' = Ledger!alVars
  BY DEF Ledger!alVars, Phases, Phase, Shown

\* The recorded events are those of the log.
LEMMA ShownSame == ASSUME log' = log PROVE Shown' = Shown
  BY DEF Shown

\* One thread moves; the ledger sees its phase change, or not.
LEMMA PhaseMoves ==
    ASSUME NEW t \in Thread,
           \A u \in Thread \ {t} : pc'[u] = pc[u] /\ op'[u] = op[u]
    PROVE  /\ Phases' = [Phases EXCEPT ![t] = Phase(t)']
           /\ Phase(t)' = Phase(t) => Phases' = Phases
  <1>1. \A u \in Thread \ {t} : Phase(u)' = Phase(u)
    BY PhaseNext
  <1>2. QED
    BY <1>1 DEF Phases

\* A step inside an operation that writes no record is invisible to callers.
LEMMA GotoLedger ==
    ASSUME ThreadTypes, NEW t \in Thread, NEW next \in PC, Goto(t, next), log' = log,
           pc[t] \notin {"checkpoint", "return"},
           op[t] = "append" => next \notin {"checkpoint", "return"}
    PROVE  Ledger!alVars' = Ledger!alVars
  <1>1. pc' = [pc EXCEPT ![t] = next] /\ op' = op /\ event' = event /\ out' = out
    BY DEF Goto
  <1>2. \A u \in Thread \ {t} : pc'[u] = pc[u] /\ op'[u] = op[u]
    BY <1>1 DEF ThreadTypes
  <1>3. pc'[t] = next /\ op'[t] = op[t]
    BY <1>1 DEF ThreadTypes
  <1>4. Phase(t)' = Phase(t)
    BY <1>3, PhaseIs, PhaseNext
  <1>5. QED
    BY <1>1, <1>2, <1>4, PhaseMoves, LedgerStutter, ShownSame

\* An operation that ends is an append that returns or raises, or no call at all.
LEMMA LeaveLedger ==
    ASSUME Threads, NEW t \in Thread, NEW o \in {"ok", "failed"}, Leave(t, o), log' = log,
           pc[t] # "idle",
           op[t] = "append" /\ o = "ok" => pc[t] \in {"checkpoint", "return"}
    PROVE  Ledger!Next
  <1>1. /\ pc' = [pc EXCEPT ![t] = "idle"] /\ op' = [op EXCEPT ![t] = "none"]
        /\ event' = [event EXCEPT ![t] = "none"]
        /\ out' = [out EXCEPT ![t] = IF op[t] = "append" THEN o ELSE "none"]
    BY DEF Leave
  <1>2. ThreadTypes
    BY DEF Threads
  <1>3. \A u \in Thread \ {t} : pc'[u] = pc[u] /\ op'[u] = op[u]
    BY <1>1, <1>2 DEF ThreadTypes
  <1>4. op'[t] = "none"
    BY <1>1, <1>2 DEF ThreadTypes
  <1>5. Phase(t)' = "idle"
    BY <1>4, PhaseNext
  <1>6. Phases' = [Phases EXCEPT ![t] = "idle"] /\ Shown' = Shown
    BY <1>3, <1>5, PhaseMoves, ShownSame
  <1>7. CASE op[t] = "append"
    <2>1. Phases[t] = "recorded" \/ (Phases[t] = "pending" /\ o = "failed")
      BY <1>7, PhaseIs DEF Phases
    <2>2. out' = [out EXCEPT ![t] = o]
      BY <1>1, <1>7
    <2>3. QED
      BY <1>1, <1>6, <2>1, <2>2, LedgerIs
  <1>8. CASE op[t] # "append"
    <2>1. Phases' = [u \in Thread |-> IF u \in {t} THEN "idle" ELSE Phases[u]]
      BY <1>6 DEF Phases
    <2>2. event' = [u \in Thread |-> IF u \in {t} THEN "none" ELSE event[u]]
      BY <1>1, <1>2 DEF ThreadTypes
    <2>3. out' = [u \in Thread |-> IF u \in {t} THEN "none" ELSE out[u]]
      BY <1>1, <1>2, <1>8 DEF ThreadTypes
    <2>4. {t} \in SUBSET Thread
      OBVIOUS
    <2>5. QED
      BY <1>6, <2>1, <2>2, <2>3, <2>4, LedgerCrashIs
  <1>9. QED
    BY <1>7, <1>8

\* Starting an append is a call; starting another operation is none.
LEMMA BeginLedger ==
    ASSUME Threads, NEW t \in Thread,
           NEW o \in {"append", "verify", "bootstrap"}, NEW e \in Event \cup {"none"},
           o = "append" => e \in Event, o # "append" => e = "none", Begin(t, o, e)
    PROVE  Ledger!Next
  <1>1. /\ pc[t] = "idle" /\ pc' = [pc EXCEPT ![t] = "threadLock"]
        /\ op' = [op EXCEPT ![t] = o] /\ event' = [event EXCEPT ![t] = e]
        /\ out' = [out EXCEPT ![t] = "none"] /\ log' = log
    BY DEF Begin, fileVars
  <1>2. ThreadTypes /\ op[t] = "none"
    BY <1>1 DEF Threads, OpInv
  <1>3. \A u \in Thread \ {t} : pc'[u] = pc[u] /\ op'[u] = op[u]
    BY <1>1, <1>2 DEF ThreadTypes
  <1>4. op'[t] = o /\ pc'[t] = "threadLock"
    BY <1>1, <1>2 DEF ThreadTypes
  <1>5. Phases[t] = "idle" /\ Shown' = Shown /\ Phases' = [Phases EXCEPT ![t] = Phase(t)']
    BY <1>1, <1>2, <1>3, PhaseIs, PhaseMoves, ShownSame DEF Phases
  <1>6. CASE o = "append"
    <2>1. Phase(t)' = "pending"
      BY <1>4, <1>6, PhaseNext
    <2>2. QED
      BY <1>1, <1>5, <1>6, <2>1, LedgerIs
  <1>7. CASE o # "append"
    <2>1. Phase(t)' = "idle"
      BY <1>4, <1>7, PhaseNext
    <2>2. Phases' = [u \in Thread |-> IF u \in {t} THEN "idle" ELSE Phases[u]]
      BY <1>5, <2>1 DEF Phases
    <2>3. event' = [u \in Thread |-> IF u \in {t} THEN "none" ELSE event[u]]
      BY <1>1, <1>2, <1>7 DEF ThreadTypes
    <2>4. out' = [u \in Thread |-> IF u \in {t} THEN "none" ELSE out[u]]
      BY <1>1, <1>2 DEF ThreadTypes
    <2>5. {t} \in SUBSET Thread
      OBVIOUS
    <2>6. QED
      BY <1>5, <2>2, <2>3, <2>4, <2>5, LedgerCrashIs
  <1>8. QED
    BY <1>6, <1>7

\* Writing the line is what records the event.
LEMMA WriteLedger ==
    ASSUME IInv, NEW t \in Thread, WriteRecord(t)
    PROVE  Ledger!Next
  <1>1. /\ pc[t] = "write" /\ log' = Append(log, NewRecord(t))
        /\ Goto(t, IF anchored THEN "checkpoint" ELSE "return")
    BY DEF WriteRecord
  <1>2. ThreadTypes /\ log \in Seq(Record) /\ nextId \in Nat
    BY DEF IInv, Threads, FileTypes
  <1>3. op[t] = "append" /\ event[t] \in Event
    BY <1>1 DEF IInv, Threads, OpInv
  <1>4. /\ pc' = [pc EXCEPT ![t] = IF anchored THEN "checkpoint" ELSE "return"]
        /\ op' = op /\ event' = event /\ out' = out
    BY <1>1 DEF Goto
  <1>5. \A u \in Thread \ {t} : pc'[u] = pc[u] /\ op'[u] = op[u]
    BY <1>2, <1>4 DEF ThreadTypes
  <1>6. pc'[t] \in {"checkpoint", "return"} /\ op'[t] = "append"
    BY <1>2, <1>3, <1>4 DEF ThreadTypes
  <1>7. Phases[t] = "pending" /\ Phases' = [Phases EXCEPT ![t] = "recorded"]
    BY <1>1, <1>3, <1>5, <1>6, PhaseIs, PhaseNext, PhaseMoves DEF Phases
  <1>8. NewRecord(t) \in Record /\ NewRecord(t).event = event[t]
    <2>1. scan[t].last \in Hmacs
      BY <1>2 DEF ThreadTypes
    <2>2. QED
      BY <1>2, <1>3, <2>1 DEF NewRecord, Record
  <1>9. Shown' = Append(Shown, event[t])
    <2>1. /\ Len(log') = Len(log) + 1 /\ Len(log) \in Nat
          /\ \A k \in 1..Len(log) : log'[k] = log[k]
          /\ log'[Len(log) + 1] = NewRecord(t)
      BY <1>1, <1>2, <1>8
    <2>2. Shown \in Seq(Event) /\ Len(Shown) = Len(log)
      <3>1. \A k \in 1..Len(log) : log[k] \in Record
        BY <1>2
      <3>2. \A k \in 1..Len(log) : log[k].event \in Event
        BY <3>1 DEF Record
      <3>3. QED
        BY <2>1, <3>2 DEF Shown
    <2>3. Append(Shown, event[t]) = [k \in 1..(Len(log) + 1) |->
                                       IF k = Len(log) + 1 THEN event[t] ELSE Shown[k]]
      BY <1>3, <2>1, <2>2
    <2>4. \A k \in 1..(Len(log) + 1) :
             log'[k].event = IF k = Len(log) + 1 THEN event[t] ELSE Shown[k]
      BY <1>8, <2>1 DEF Shown
    <2>5. Shown' = [k \in 1..(Len(log) + 1) |-> log'[k].event]
      BY <2>1 DEF Shown
    <2>6. QED
      BY <2>3, <2>4, <2>5
  <1>10. QED
    BY <1>4, <1>7, <1>9, LedgerIs

\* A process that dies takes its calls with it, and no record.
LEMMA CrashLedger ==
    ASSUME ThreadTypes, NEW p \in Process, Crash(p)
    PROVE  Ledger!Next
  <1> DEFINE dead == {t \in Thread : ProcessOf[t] = p}
  <1>1. /\ pc' = [t \in Thread |-> IF t \in dead THEN "idle" ELSE pc[t]]
        /\ op' = [t \in Thread |-> IF t \in dead THEN "none" ELSE op[t]]
        /\ event' = [t \in Thread |-> IF t \in dead THEN "none" ELSE event[t]]
        /\ out' = [t \in Thread |-> IF t \in dead THEN "none" ELSE out[t]]
        /\ log' = log
    BY DEF Crash, fileVars
  <1>2. dead \in SUBSET Thread
    OBVIOUS
  <1> HIDE DEF dead
  <1>3. ASSUME NEW t \in Thread PROVE Phase(t)' = IF t \in dead THEN "idle" ELSE Phase(t)
    <2>1. CASE t \in dead
      <3>1. op'[t] = "none"
        BY <1>1, <2>1
      <3>2. QED
        BY <2>1, <3>1, PhaseNext
    <2>2. CASE t \notin dead
      <3>1. op'[t] = op[t] /\ pc'[t] = pc[t]
        BY <1>1, <2>2
      <3>2. QED
        BY <2>2, <3>1, PhaseNext
    <2>3. QED
      BY <2>1, <2>2
  <1>4. Phases' = [t \in Thread |-> IF t \in dead THEN "idle" ELSE Phases[t]]
    BY <1>3 DEF Phases
  <1>5. Shown' = Shown
    BY <1>1, ShownSame
  <1>6. QED
    BY <1>1, <1>2, <1>4, <1>5, LedgerCrashIs

\* Every step of a running thread is a step of the ledger or invisible.
LEMMA StepLedger ==
    ASSUME IInv, NEW t \in Thread, Step(t)
    PROVE  Ledger!Next \/ Ledger!alVars' = Ledger!alVars
  <1>1. Threads /\ ThreadTypes /\ OpInv(t)
    BY DEF IInv, Threads
  <1>2. ASSUME NEW next \in PC, Goto(t, next), log' = log,
               pc[t] \notin {"checkpoint", "return"},
               op[t] = "append" => next \notin {"checkpoint", "return"}
        PROVE  Ledger!alVars' = Ledger!alVars
    BY <1>1, <1>2, GotoLedger
  <1>3. CASE TakeThreadLock(t) \/ TakeFileLock(t) \/ TakeAnchorLock(t)
    <2>1. PICK next \in {"fileLock", "anchorLock", "verify"} :
              Goto(t, next) /\ log' = log /\ pc[t] \notin {"checkpoint", "return"}
      BY <1>3 DEF TakeThreadLock, TakeFileLock, TakeAnchorLock, fileVars
    <2>2. QED
      BY <1>2, <2>1 DEF PC
  <1>4. CASE LockTimeout(t) \/ VerifyFails(t) \/ WriteFails(t) \/ SyncFails(t) \/ CheckpointFails(t)
    <2>1. Leave(t, "failed") /\ log' = log /\ pc[t] # "idle"
      BY <1>4 DEF LockTimeout, VerifyFails, WriteFails, SyncFails, CheckpointFails, fileVars
    <2>2. QED
      BY <1>1, <2>1, LeaveLedger
  <1>5. CASE Verify(t)
    <2>1. pc[t] = "verify" /\ log' = log
      BY <1>5 DEF Verify, fileVars
    <2>2. CASE op[t] = "bootstrap"
      <3>1. Goto(t, "checkpoint")
        BY <1>5, <2>2 DEF Verify, Behind
      <3>2. QED
        BY <1>2, <2>1, <2>2, <3>1 DEF PC
    <2>3. CASE op[t] # "bootstrap" /\ Behind(t)
      <3>1. Goto(t, "catchUp")
        BY <1>5, <2>3 DEF Verify
      <3>2. QED
        BY <1>2, <2>1, <3>1 DEF PC
    <2>4. CASE op[t] # "bootstrap" /\ ~Behind(t)
      <3>1. Goto(t, "write")
        BY <1>5, <2>4 DEF Verify
      <3>2. QED
        BY <1>2, <2>1, <3>1 DEF PC
    <2>5. QED
      BY <2>2, <2>3, <2>4
  <1>6. CASE VerifyReturns(t)
    <2>1. Leave(t, "ok") /\ log' = log /\ pc[t] # "idle" /\ op[t] # "append"
      BY <1>6 DEF VerifyReturns, fileVars
    <2>2. QED
      BY <1>1, <2>1, LeaveLedger
  <1>7. CASE WriteRecord(t)
    BY <1>7, WriteLedger
  <1>8. CASE AppendReturns(t)
    <2>1. Leave(t, "ok") /\ log' = log /\ pc[t] = "return"
      BY <1>8 DEF AppendReturns, fileVars
    <2>2. QED
      BY <1>1, <2>1, LeaveLedger
  <1>9. CASE CatchUp(t)
    <2>1. Goto(t, "write") /\ log' = log /\ pc[t] = "catchUp"
      BY <1>9 DEF CatchUp
    <2>2. QED
      BY <1>2, <2>1 DEF PC
  <1>10. CASE CheckpointReturns(t)
    <2>1. /\ Leave(t, "ok") /\ log' = log /\ pc[t] # "idle"
          /\ op[t] = "append" => pc[t] = "checkpoint"
      BY <1>10 DEF CheckpointReturns
    <2>2. QED
      BY <1>1, <2>1, LeaveLedger
  <1>11. QED
    BY <1>3, <1>4, <1>5, <1>6, <1>7, <1>8, <1>9, <1>10 DEF Step

\* Every step of the log is a step of the ledger or none, but for the operator
\* putting an older copy back.
LEMMA NextLedger ==
    ASSUME IInv, [Next]_vars
    PROVE  [Ledger!Next \/ \E n \in 0..Len(log) : Restore(n)]_(Ledger!alVars)
  <1>1. Threads /\ ThreadTypes
    BY DEF IInv, Threads
  <1>2. ASSUME NEW t \in Thread, Start(t) PROVE Ledger!Next
    <2>1. ASSUME NEW e \in Event, BeginAppend(t, e) PROVE Ledger!Next
      BY <1>1, <2>1, BeginLedger DEF BeginAppend
    <2>2. ASSUME BeginVerify(t) \/ BeginBootstrap(t) PROVE Ledger!Next
      BY <1>1, <2>2, BeginLedger DEF BeginVerify, BeginBootstrap
    <2>3. QED
      BY <1>2, <2>1, <2>2 DEF Start
  <1>3. ASSUME WatchdogLocks \/ WatchdogUnlocks \/ UNCHANGED vars
        PROVE  Ledger!alVars' = Ledger!alVars
    <2>1. log' = log /\ pc' = pc /\ op' = op /\ event' = event /\ out' = out
      BY <1>3 DEF WatchdogLocks, WatchdogUnlocks, vars, fileVars, threadVars
    <2>2. \A t \in Thread : Phase(t)' = Phase(t)
      BY <2>1, PhaseNext
    <2>3. Phases' = Phases /\ Shown' = Shown
      BY <2>1, <2>2, ShownSame DEF Phases
    <2>4. QED
      BY <2>1, <2>3, LedgerStutter
  <1>4. QED
    BY <1>1, <1>2, <1>3, StepLedger, CrashLedger DEF Next

\* An append that returns an id recorded its event, in the order of the log; an
\* append that raises recorded its event once or not at all; nothing recorded is
\* lost or changed unless an older copy of the log is put back.
THEOREM Implementation == Spec => ImplementsLedger
  <1>1. Init => Ledger!Init
    <2>1. SUFFICES ASSUME Init PROVE Ledger!Init
      OBVIOUS
    <2>2. Phases = [t \in Thread |-> "idle"]
      <3>1. \A t \in Thread : op[t] # "append"
        BY <2>1 DEF Init
      <3>2. QED
        BY <3>1, PhaseIs DEF Phases
    <2>3. Shown = <<>>
      BY <2>1 DEF Init, Shown
    <2>4. QED
      BY <2>1, <2>2, <2>3 DEF Init, Ledger!Init, Shown, Phases, Phase
  <1>2. IInv /\ [Next]_vars
            => [Ledger!Next \/ \E n \in 0..Len(log) : Restore(n)]_(Ledger!alVars)
    BY NextLedger
  <1>3. QED
    BY <1>1, <1>2, Invariant, PTL DEF Spec, ImplementsLedger
=============================================================================
