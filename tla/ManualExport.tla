----------------------------- MODULE ManualExport -----------------------------
(***************************************************************************)
(* C9ManualExportManager (c9_manual_export): one private directory with    *)
(* the approved files, whose paths are given to the operator's file picker *)
(* once.  The manager's operations are sub-actions: its only caller, the   *)
(* coordinator of module Handoff, holds its own lock around each of them,  *)
(* so they are steps of the coordinator's actions.  The coordinator        *)
(* materializes at most once in the life of a process, so there is one     *)
(* record and one directory.                                               *)
(***************************************************************************)
EXTENDS Naturals

VARIABLES
    export,         \* "none", "active" (in _records) or "terminal" (in _terminal)
    exportUntil,    \* expires_at of the record
    claimed,        \* picker_claimed of the record
    directory,      \* the directory and its files on disk
    managerClosed,
    released,       \* history: how often paths were given out
    verified        \* history: integrity_verified_before_delete of the receipt

manager == <<export, exportUntil, claimed, directory, managerClosed, released, verified>>

ManagerTypeOK ==
    /\ export \in {"none", "active", "terminal"}
    /\ exportUntil \in Nat
    /\ claimed \in BOOLEAN
    /\ directory \in {"absent", "intact", "changed"}
    /\ managerClosed \in BOOLEAN
    /\ released \in Nat
    /\ verified \in BOOLEAN

\* A new manager; what is on disk is cleaned by its start-up.
NewManager ==
    /\ export' = "none" /\ exportUntil' = 0 /\ claimed' = FALSE
    /\ managerClosed' = FALSE /\ released' = 0 /\ verified' = FALSE

\* _remove_tree_without_following stops at the first entry it cannot remove.
RemoveTreeFails == directory # "absent" /\ directory' \in {directory, "changed"}

RemoveTree == directory' = "absent"

\* The two files are written and the record is made.
Materialize(at, ttl) ==
    /\ ~managerClosed
    /\ export' = "active" /\ exportUntil' = at + ttl /\ claimed' = FALSE
    /\ directory' = "intact"
    /\ UNCHANGED <<managerClosed, released, verified>>

\* A check or a write fails: the directory is removed, or its removal fails too,
\* and then it has no record.
MaterializeFails ==
    /\ directory' \in {"absent", "changed"}
    /\ UNCHANGED <<export, exportUntil, claimed, managerClosed, released, verified>>

\* _verify_record
VerifyRecord == directory = "intact"

\* _cleanup_record; a removal that fails, or the refusal of a root that is not the
\* manager's own, leaves the record where it is.
CleanupRecord ==
    /\ RemoveTree
    /\ export' = "terminal" /\ verified' = VerifyRecord
    /\ UNCHANGED <<exportUntil, claimed, managerClosed, released>>

CleanupRecordFails ==
    /\ RemoveTreeFails \/ UNCHANGED directory
    /\ UNCHANGED <<export, exportUntil, claimed, managerClosed, released, verified>>

\* cleanup: refused unless the record is active.
MayCleanup == ~managerClosed /\ export = "active"

\* claim_paths gives the paths out: the record is active, in time, not claimed
\* before, and verified immediately before.
MayClaim(at) ==
    /\ ~managerClosed /\ export = "active" /\ at < exportUntil
    /\ ~claimed
    /\ VerifyRecord

ClaimPaths(at) ==
    /\ MayClaim(at)
    /\ claimed' = TRUE /\ released' = released + 1
    /\ UNCHANGED <<export, exportUntil, directory, managerClosed, verified>>

\* claim_paths ends an export that is past its time, or that is not what was
\* written, and raises.
ClaimEnds(at) ==
    /\ ~managerClosed /\ export = "active"
    /\ at >= exportUntil \/ (~claimed /\ ~VerifyRecord)
    /\ CleanupRecord \/ CleanupRecordFails

\* Mutant: the manager is closed before the removal is known to have worked.
CloseManagerFailsClosed ==
    /\ ~managerClosed /\ export = "active"
    /\ RemoveTreeFails
    /\ managerClosed' = TRUE
    /\ UNCHANGED <<export, exportUntil, claimed, released, verified>>

\* close with an active record whose removal fails: the manager stays open.
CloseManagerFails ==
    /\ ~managerClosed /\ export = "active"
    /\ CleanupRecordFails

\* close: cancel_all, then closed; a second close returns at once.
CloseManager ==
    IF managerClosed THEN UNCHANGED manager
    ELSE /\ managerClosed' = TRUE
         /\ \/ /\ export = "active"
               /\ RemoveTree
               /\ export' = "terminal" /\ verified' = VerifyRecord
            \/ /\ export # "active"
               /\ UNCHANGED <<export, verified, directory>>
         /\ UNCHANGED <<exportUntil, claimed, released>>

\* Somebody changes or deletes what was exported.
Tamper ==
    /\ directory = "intact"
    /\ directory' \in {"changed", "absent"}
    /\ UNCHANGED <<export, exportUntil, claimed, managerClosed, released, verified>>
===============================================================================
