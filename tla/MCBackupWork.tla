---------------------------- MODULE MCBackupWork ----------------------------
(* BackupWork for TLC. *)
EXTENDS BackupWork

(* Requests are interchangeable, nothing chooses among them: of two        *)
(* assignments of kinds that differ in who is who, one is enough.  The run *)
(* checks liveness, for which TLC's own symmetry reduction is not sound.   *)
Rank == [pair |-> 1, pin |-> 2, deposit |-> 3, unpair |-> 4, schedule |-> 5]

OrderedInit == Init /\ Rank[kind["r1"]] <= Rank[kind["r2"]]

OrderedSpec == OrderedInit /\ [][Next]_vars /\ Fairness
=============================================================================
