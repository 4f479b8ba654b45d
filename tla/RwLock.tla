-------------------------------- MODULE RwLock --------------------------------
(***************************************************************************)
(* The hand-rolled readers-writer lock of src/src/lock.zig, over which the *)
(* tile workers compose while the API thread swaps compositions.           *)
(*                                                                         *)
(* Every section between mu.lock() and mu.unlock() is one step; a poll     *)
(* that finds the lock taken changes nothing and is not a step.  A thread  *)
(* is at one of                                                            *)
(*    out        not using the lock                                        *)
(*    sharedPoll in lockShared's loop                                      *)
(*    shared     between lockShared and unlockShared                       *)
(*    lockPoll   in lock's loop, writer_waiting already raised             *)
(*    locked     between lock and unlock                                   *)
(***************************************************************************)
EXTENDS Naturals, FiniteSets

CONSTANTS Sharers,     \* threads that call lockShared (the tile workers)
          Excluders    \* threads that call lock (adopting a composition, a
                       \* trim, a pick, an append to the chart list)

Threads == Sharers \cup Excluders

ASSUME FiniteThreads == IsFiniteSet(Threads)

VARIABLES readers, writer, writer_waiting, pc

vars == <<readers, writer, writer_waiting, pc>>

TypeOK ==
    /\ readers \in Nat
    /\ writer \in BOOLEAN
    /\ writer_waiting \in BOOLEAN
    /\ pc \in [Threads -> {"out", "sharedPoll", "shared", "lockPoll", "locked"}]

Init ==
    /\ readers = 0
    /\ writer = FALSE
    /\ writer_waiting = FALSE
    /\ pc = [t \in Threads |-> "out"]

-------------------------------------------------------------------------------
CallLockShared(t) ==
    /\ t \in Sharers
    /\ pc[t] = "out"
    /\ pc' = [pc EXCEPT ![t] = "sharedPoll"]
    /\ UNCHANGED <<readers, writer, writer_waiting>>

\* lockShared without its test of the waiting flag.
EnterSharedPastWaiter(t) ==
    /\ pc[t] = "sharedPoll"
    /\ ~writer
    /\ readers' = readers + 1
    /\ pc' = [pc EXCEPT ![t] = "shared"]
    /\ UNCHANGED <<writer, writer_waiting>>

\* A reader let in that is not counted.
EnterSharedUncounted(t) ==
    /\ pc[t] = "sharedPoll"
    /\ ~writer
    /\ ~writer_waiting
    /\ pc' = [pc EXCEPT ![t] = "shared"]
    /\ UNCHANGED <<readers, writer, writer_waiting>>

\* lockShared: one turn of its loop that comes in.
EnterShared(t) ==
    /\ pc[t] = "sharedPoll"
    /\ ~writer
    /\ ~writer_waiting
    /\ readers' = readers + 1
    /\ pc' = [pc EXCEPT ![t] = "shared"]
    /\ UNCHANGED <<writer, writer_waiting>>

UnlockShared(t) ==
    /\ pc[t] = "shared"
    /\ readers' = readers - 1
    /\ pc' = [pc EXCEPT ![t] = "out"]
    /\ UNCHANGED <<writer, writer_waiting>>

\* The first section of lock: raise the flag, then poll.
CallLock(t) ==
    /\ t \in Excluders
    /\ pc[t] = "out"
    /\ writer_waiting' = TRUE
    /\ pc' = [pc EXCEPT ![t] = "lockPoll"]
    /\ UNCHANGED <<readers, writer>>

\* A writer that does not wait for the readers inside to leave.
EnterLockedOverReaders(t) ==
    /\ pc[t] = "lockPoll"
    /\ ~writer
    /\ writer' = TRUE
    /\ writer_waiting' = FALSE
    /\ pc' = [pc EXCEPT ![t] = "locked"]
    /\ UNCHANGED readers

EnterLocked(t) ==
    /\ pc[t] = "lockPoll"
    /\ ~writer
    /\ readers = 0
    /\ writer' = TRUE
    /\ writer_waiting' = FALSE
    /\ pc' = [pc EXCEPT ![t] = "locked"]
    /\ UNCHANGED readers

Unlock(t) ==
    /\ pc[t] = "locked"
    /\ writer' = FALSE
    /\ pc' = [pc EXCEPT ![t] = "out"]
    /\ UNCHANGED <<readers, writer_waiting>>

Next == \E t \in Threads :
    \/ CallLockShared(t) \/ EnterShared(t) \/ UnlockShared(t)
    \/ CallLock(t) \/ EnterLocked(t) \/ Unlock(t)

Spec == Init /\ [][Next]_vars

\* Each loop polls every millisecond under a kernel mutex, so a section that
\* stays open to a thread is taken; what is done inside the lock ends.
Fairness ==
    /\ \A t \in Sharers : WF_vars(EnterShared(t)) /\ WF_vars(UnlockShared(t))
    /\ \A t \in Excluders : WF_vars(EnterLocked(t)) /\ WF_vars(Unlock(t))

FairSpec == Spec /\ Fairness

-------------------------------------------------------------------------------
At(place) == {t \in Threads : pc[t] = place}

\* A writer is alone: nobody composes while a composition is swapped, closed
\* or trimmed, and two writers never overlap.
Exclusion ==
    \A t \in At("locked") : At("locked") = {t} /\ At("shared") = {}

\* The waiting flag never outlives the writers that raised it: a flag left
\* behind by nobody would turn every reader away for good.
WaitingIsSomeone == writer_waiting => At("lockPoll") # {}

\* The doc comment of RwLock: "once one is waiting, no further reader may
\* enter".  No step lets a thread in shared while another polls for the lock.
WriterPriority ==
    [][At("lockPoll") # {} => At("shared")' \subseteq At("shared")]_vars

\* "a steady stream of tiles cannot starve a close": a thread that asked for
\* the lock exclusively gets it.
WriterGetsIn ==
    \A t \in Excluders : pc[t] = "lockPoll" ~> pc[t] = "locked"

\* A writer is served: no reader enters past one that waits, and it gets in.
WriterIsServed == WriterPriority /\ WriterGetsIn

\* The polling lock is a readers-writer lock.
Contract == INSTANCE SharedExclusive
    WITH sharers <- At("shared"), excluder <- At("locked")
ContractSpec == Contract!Spec

\* The part the two counters play, which makes Exclusion inductive.
CountersMatch ==
    /\ readers = Cardinality(At("shared"))
    /\ writer <=> At("locked") # {}

IInv == TypeOK /\ CountersMatch /\ Exclusion
===============================================================================
