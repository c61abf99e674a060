---------------------------- MODULE MCSleepLock ----------------------------
(* SleepLock on small instances. *)
EXTENDS SleepLock

CONSTANTS t1, t2, t3, inode, buffer

\* Three tasks, at most two for the same object.
PairsUse == [o \in {inode, buffer} |->
                IF o = inode THEN {t1, t2} ELSE {t2, t3}]
=============================================================================
