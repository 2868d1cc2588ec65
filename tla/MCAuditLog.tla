----------------------------- MODULE MCAuditLog -----------------------------
(* Small instances of AuditLog: two threads of one process and a thread of   *)
(* another one.                                                              *)
EXTENDS AuditLog

MCThread == {"t1", "t2", "u1"}

MCProcessOf == [t \in Thread |-> IF t = "u1" THEN "p2" ELSE "p1"]
=============================================================================
