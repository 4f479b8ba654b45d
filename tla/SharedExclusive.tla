--------------------------- MODULE SharedExclusive ---------------------------
(***************************************************************************)
(* What a readers-writer lock promises, with nothing said of how: any      *)
(* number of threads may hold it shared, or one thread may hold it         *)
(* exclusively, never both.                                                *)
(*                                                                         *)
(* This is the contract of src/src/lock.zig's RwLock: lockShared and       *)
(* unlockShared, lock and unlock.  RwLock.tla shows the polling            *)
(* implementation to meet it, and the modules whose threads take the       *)
(* engine lock rely on nothing else.                                       *)
(***************************************************************************)
CONSTANT Threads

VARIABLES sharers,    \* the threads inside lockShared .. unlockShared
          excluder    \* the threads inside lock .. unlock: one at most

lockVars == <<sharers, excluder>>

AcquireShared(t) ==
    /\ t \notin sharers \cup excluder
    /\ excluder = {}
    /\ sharers' = sharers \cup {t}
    /\ UNCHANGED excluder

ReleaseShared(t) ==
    /\ t \in sharers
    /\ sharers' = sharers \ {t}
    /\ UNCHANGED excluder

AcquireExclusive(t) ==
    /\ sharers = {} /\ excluder = {}
    /\ excluder' = {t}
    /\ UNCHANGED sharers

ReleaseExclusive(t) ==
    /\ t \in excluder
    /\ excluder' = {}
    /\ UNCHANGED sharers

Init == sharers = {} /\ excluder = {}

Next == \E t \in Threads :
    \/ AcquireShared(t) \/ ReleaseShared(t)
    \/ AcquireExclusive(t) \/ ReleaseExclusive(t)

Spec == Init /\ [][Next]_lockVars
==============================================================================
