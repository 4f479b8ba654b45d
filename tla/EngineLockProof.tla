--------------------------- MODULE EngineLockProof ---------------------------
(***************************************************************************)
(* For any finite set of threads: the polling lock keeps its types, a      *)
(* writer is alone inside it, the waiting flag is never left behind, no    *)
(* reader passes the one caller that waits, and the lock implements        *)
(* SharedExclusive.  For any threads that add charts and any workers: the  *)
(* library composed over that contract is sound.                           *)
(*                                                                         *)
(* Exclusion does not follow from itself: EnterLocked looks at the counter *)
(* and the flag, not at the threads.  CountersMatch ties them to the       *)
(* threads inside, and the three parts together are inductive.             *)
(*                                                                         *)
(* Nor does the library's soundness.  LInv says who holds the api lock and *)
(* where (Control, Closing), which of the compositions are still open and  *)
(* under which name (Named), what a build will open or has opened (Built), *)
(* and from which step to which the one in use covers the list (Covered).  *)
(*                                                                         *)
(* For any set of tiles, any number of worker slots and any wanted         *)
(* strength: the tile pool keeps its types, and its books are true.  The   *)
(* four parts of PoolAddsUp lean on one another and on PlacesAgree: start  *)
(* goes home only when the count says the pool is full, so the count has   *)
(* to be right for NotStranded; deinit frees when the count is zero, so it *)
(* has to be right for NoJobAfterFree; and the count is right because each *)
(* worker that stands holds one badge, the one about to be spawned         *)
(* included.                                                               *)
(***************************************************************************)
EXTENDS EngineLock, TilePool, FiniteSetTheorems, SequenceTheorems, TLAPS

\* The sets the counters count are finite.
LEMMA AtIsFinite ==
    \A p : IsFiniteSet(At(p)) /\ Cardinality(At(p)) \in Nat
BY FiniteThreads, FS_Subset, FS_CardinalityType DEF At

\* A free lock satisfies the inductive invariant.
THEOREM InitIInv == Init => IInv
<1> SUFFICES ASSUME Init PROVE IInv
    OBVIOUS
<1>1. At("shared") = {} /\ At("locked") = {}
    BY DEF Init, At
<1>2. TypeOK
    BY DEF Init, TypeOK
<1>3. CountersMatch
    BY <1>1, FS_EmptySet DEF Init, CountersMatch
<1>4. Exclusion
    BY <1>1 DEF Exclusion
<1> QED
    BY <1>2, <1>3, <1>4 DEF IInv

\* Every step of a tile worker or an exclusive caller (lock.zig) keeps it.
THEOREM NextIInv == IInv /\ [Next]_vars => IInv'
<1> SUFFICES ASSUME IInv, [Next]_vars PROVE IInv'
    OBVIOUS
<1> USE DEF IInv
<1>0. CASE UNCHANGED vars
    BY <1>0 DEF vars, TypeOK, CountersMatch, Exclusion, At
<1>1. ASSUME NEW t \in Threads, CallLockShared(t) PROVE IInv'
    <2>1. /\ At("shared")' = At("shared") /\ At("locked")' = At("locked")
        BY <1>1 DEF TypeOK, At, CallLockShared
    <2> QED
        BY <1>1, <2>1 DEF CallLockShared, TypeOK, CountersMatch, Exclusion
<1>2. ASSUME NEW t \in Threads, EnterShared(t) PROVE IInv'
    <2>1. /\ At("shared")' = At("shared") \cup {t} /\ t \notin At("shared")
          /\ At("locked")' = At("locked")
        BY <1>2 DEF TypeOK, At, EnterShared
    <2>2. At("locked") = {}
        BY <1>2 DEF EnterShared, CountersMatch
    <2>3. CountersMatch'
        BY <1>2, <2>1, AtIsFinite, FS_AddElement DEF EnterShared, CountersMatch
    <2> QED
        BY <1>2, <2>1, <2>2, <2>3 DEF EnterShared, TypeOK, Exclusion
<1>3. ASSUME NEW t \in Threads, UnlockShared(t) PROVE IInv'
    <2>1. /\ At("shared")' = At("shared") \ {t} /\ t \in At("shared")
          /\ At("locked")' = At("locked")
        BY <1>3 DEF TypeOK, At, UnlockShared
    <2>2. /\ IsFiniteSet(At("shared") \ {t})
          /\ Cardinality(At("shared") \ {t}) = readers - 1
        BY <2>1, AtIsFinite, FS_RemoveElement DEF CountersMatch
    <2>3. readers' = Cardinality(At("shared")') /\ readers' \in Nat
        BY <1>3, <2>1, <2>2, FS_CardinalityType DEF UnlockShared
    <2> QED
        BY <1>3, <2>1, <2>3 DEF UnlockShared, TypeOK, CountersMatch, Exclusion
<1>4. ASSUME NEW t \in Threads, CallLock(t) PROVE IInv'
    <2>1. /\ At("shared")' = At("shared") /\ At("locked")' = At("locked")
        BY <1>4 DEF TypeOK, At, CallLock
    <2> QED
        BY <1>4, <2>1 DEF CallLock, TypeOK, CountersMatch, Exclusion
<1>5. ASSUME NEW t \in Threads, EnterLocked(t) PROVE IInv'
    <2>1. /\ At("locked")' = At("locked") \cup {t}
          /\ At("shared")' = At("shared")
        BY <1>5 DEF TypeOK, At, EnterLocked
    <2>2. At("shared") = {} /\ At("locked") = {}
        BY <1>5, AtIsFinite, FS_EmptySet DEF EnterLocked, CountersMatch
    <2> QED
        BY <1>5, <2>1, <2>2 DEF EnterLocked, TypeOK, CountersMatch, Exclusion
<1>6. ASSUME NEW t \in Threads, Unlock(t) PROVE IInv'
    <2>1. /\ At("locked")' = At("locked") \ {t} /\ t \in At("locked")
          /\ At("shared")' = At("shared")
        BY <1>6 DEF TypeOK, At, Unlock
    <2>2. At("locked") = {t}
        BY <2>1 DEF Exclusion
    <2> QED
        BY <1>6, <2>1, <2>2 DEF Unlock, TypeOK, CountersMatch, Exclusion
<1> QED
    BY <1>0, <1>1, <1>2, <1>3, <1>4, <1>5, <1>6 DEF Next

\* The inductive invariant holds in every reachable state of the lock.
THEOREM IInvHolds == Spec => []IInv
BY InitIInv, NextIInv, PTL DEF Spec

\* The lock's variables keep their types; in particular the reader count never
\* goes below zero.
THEOREM TypeHolds == Spec => []TypeOK
BY IInvHolds, PTL DEF IInv

\* A thread between lock() and unlock() is the only thread inside, whatever
\* the number of workers and of exclusive callers.
THEOREM ExclusionHolds == Spec => []Exclusion
BY IInvHolds, PTL DEF IInv

\* writer_waiting is up only while some thread really polls for the lock.
THEOREM NoStaleFlag == Spec => []WaitingIsSomeone
<1>1. Init => WaitingIsSomeone
    BY DEF Init, WaitingIsSomeone
<1>2. IInv /\ WaitingIsSomeone /\ [Next]_vars => WaitingIsSomeone'
    <2> SUFFICES ASSUME IInv, WaitingIsSomeone, [Next]_vars,
                        writer_waiting'
                 PROVE  At("lockPoll")' # {}
        BY DEF WaitingIsSomeone
    <2>1. CASE UNCHANGED vars
        BY <2>1 DEF vars, WaitingIsSomeone, At
    <2>2. ASSUME NEW t \in Threads, CallLock(t) PROVE At("lockPoll")' # {}
        BY <2>2 DEF TypeOK, At, CallLock, IInv
    <2>3. ASSUME NEW t \in Threads, EnterLocked(t) PROVE FALSE
        BY <2>3 DEF EnterLocked
    <2>4. ASSUME NEW t \in Threads,
                 CallLockShared(t) \/ EnterShared(t) \/ UnlockShared(t) \/ Unlock(t)
          PROVE  At("lockPoll")' # {}
        <3>1. At("lockPoll")' = At("lockPoll") /\ writer_waiting
            BY <2>4 DEF TypeOK, At, IInv, CallLockShared, EnterShared, UnlockShared, Unlock
        <3> QED
            BY <3>1 DEF WaitingIsSomeone
    <2> QED
        BY <2>1, <2>2, <2>3, <2>4 DEF Next
<1> QED
    BY <1>1, <1>2, IInvHolds, PTL DEF Spec

\* Every step of the polling lock is a step of the readers-writer lock its
\* callers rely on, or leaves the threads inside as they were.
THEOREM Refinement == Spec => ContractSpec
<1>1. Init => Contract!Init
    BY DEF Init, Contract!Init, At
<1>2. IInv /\ [Next]_vars => [Contract!Next]_(Contract!lockVars)
    <2> SUFFICES ASSUME IInv, [Next]_vars
                 PROVE  [Contract!Next]_(Contract!lockVars)
        OBVIOUS
    <2> USE DEF IInv, Contract!lockVars
    <2>1. CASE UNCHANGED vars
        BY <2>1 DEF vars, At
    <2>2. ASSUME NEW t \in Threads, CallLockShared(t) \/ CallLock(t)
          PROVE  UNCHANGED Contract!lockVars
        BY <2>2 DEF TypeOK, At, CallLockShared, CallLock
    <2>3. ASSUME NEW t \in Threads, EnterShared(t)
          PROVE  Contract!AcquireShared(t)
        <3>1. At("locked") = {}
            BY <2>3 DEF EnterShared, CountersMatch
        <3>2. /\ At("shared")' = At("shared") \cup {t} /\ t \notin At("shared")
              /\ At("locked")' = At("locked")
            BY <2>3 DEF TypeOK, At, EnterShared
        <3> QED
            BY <3>1, <3>2 DEF Contract!AcquireShared
    <2>4. ASSUME NEW t \in Threads, UnlockShared(t)
          PROVE  Contract!ReleaseShared(t)
        BY <2>4 DEF TypeOK, At, UnlockShared, Contract!ReleaseShared
    <2>5. ASSUME NEW t \in Threads, EnterLocked(t)
          PROVE  Contract!AcquireExclusive(t)
        <3>1. At("shared") = {} /\ At("locked") = {}
            BY <2>5, AtIsFinite, FS_EmptySet DEF EnterLocked, CountersMatch
        <3>2. /\ At("locked")' = At("locked") \cup {t}
              /\ At("shared")' = At("shared")
            BY <2>5 DEF TypeOK, At, EnterLocked
        <3> QED
            BY <3>1, <3>2 DEF Contract!AcquireExclusive
    <2>6. ASSUME NEW t \in Threads, Unlock(t)
          PROVE  Contract!ReleaseExclusive(t)
        <3>1. /\ At("locked")' = At("locked") \ {t} /\ t \in At("locked")
              /\ At("shared")' = At("shared")
            BY <2>6 DEF TypeOK, At, Unlock
        <3>2. At("locked") = {t}
            BY <3>1 DEF Exclusion
        <3> QED
            BY <3>1, <3>2 DEF Contract!ReleaseExclusive
    <2> QED
        BY <2>1, <2>2, <2>3, <2>4, <2>5, <2>6 DEF Next, Contract!Next
<1> QED
    BY <1>1, <1>2, IInvHolds, PTL DEF Spec, ContractSpec, Contract!Spec

\* "once one is waiting, no further reader may enter" (lock.zig): with one caller
\* of lock at a time, which the api lock sees to, no step lets a reader in
\* while it polls.  A second caller would lower the first one's flag.
THEOREM PriorityHolds ==
    ASSUME NEW caller, Excluders = {caller}
    PROVE  Spec => WriterPriority
<1> DEFINE Raised == \A t \in Threads :
                        /\ pc[t] \in {"lockPoll", "locked"} => t = caller
                        /\ pc[t] = "lockPoll" => writer_waiting
<1>1. Init => Raised
    BY DEF Init
<1>2. IInv /\ Raised /\ [Next]_vars => Raised'
    <2> SUFFICES ASSUME IInv, Raised, [Next]_vars PROVE Raised'
        OBVIOUS
    <2>1. CASE UNCHANGED vars
        BY <2>1 DEF vars
    <2>2. ASSUME NEW t \in Threads, CallLockShared(t) \/ EnterShared(t)
                                     \/ UnlockShared(t) \/ Unlock(t)
          PROVE  Raised'
        BY <2>2 DEF IInv, TypeOK, CallLockShared, EnterShared, UnlockShared, Unlock
    <2>3. ASSUME NEW t \in Threads, CallLock(t) \/ EnterLocked(t) PROVE Raised'
        BY <2>3 DEF IInv, TypeOK, CallLock, EnterLocked
    <2> QED
        BY <2>1, <2>2, <2>3 DEF Next
<1>3. IInv /\ Raised /\ [Next]_vars
        => [At("lockPoll") # {} => At("shared")' \subseteq At("shared")]_vars
    <2> SUFFICES ASSUME IInv, Raised, Next, At("lockPoll") # {}
                 PROVE  At("shared")' \subseteq At("shared")
        OBVIOUS
    <2>1. writer_waiting
        BY DEF At
    <2>2. ASSUME NEW t \in Threads, CallLockShared(t) \/ UnlockShared(t) \/ CallLock(t)
                                    \/ EnterLocked(t) \/ Unlock(t)
          PROVE  At("shared")' \subseteq At("shared")
        BY <2>2 DEF IInv, TypeOK, At, CallLockShared, UnlockShared, CallLock,
           EnterLocked, Unlock
    <2>3. ASSUME NEW t \in Threads, EnterShared(t) PROVE FALSE
        BY <2>1, <2>3 DEF EnterShared
    <2> QED
        BY <2>2, <2>3 DEF Next
<1> HIDE DEF Raised
<1> QED
    BY <1>1, <1>2, <1>3, IInvHolds, PTL DEF Spec, WriterPriority

-------------------------------------------------------------------------------
(* The library's inductive invariant                                         *)

Polling == {"poll", "swap", "bind"}
Opening == {"release", "opening", "append", "start"}

\* The api lock is held between a call's entry and its end, but for the opens.
Held == \A c \in L!Callers : place[c] \notin {"out", "opening"} => api = c

\* Who is where: adders add, the frame thread closes; what goes on behind a
\* poll, and the poll before it that waits.
Roles ==
    \A c \in L!Callers :
        /\ place[c] \in Opening => c \in Adders
        /\ place[c] = "deinit" => c = Frame
        /\ place[c] \in Polling => \/ after[c] = "leave"
                                   \/ after[c] = "release" /\ c \in Adders
                                   \/ after[c] = "deinit" /\ c = Frame
        /\ place[c] = "poll" /\ after[c] # "leave" => block[c]

\* One add at a time.
OneAdd ==
    \A a \in Adders : place[a] # "out" =>
        adding /\ \A b \in Adders \ {a} : place[b] = "out"

\* No build is out behind a join, and while a call opens its files.
Joined ==
    /\ rebuilding <=> builder # "none"
    /\ \A c \in L!Callers :
         place[c] \in Opening \cup {"swap", "bind", "deinit"} => builder = "none"

\* The close finds no call in flight, and none begins behind it.
Closing ==
    /\ place[Frame] = "deinit" \/ (place[Frame] \in Polling /\ after[Frame] = "deinit") =>
         \A a \in Adders : place[a] = "out"
    /\ shut => /\ \A c \in L!Callers : place[c] = "out"
               /\ builder = "none" /\ closed = L!Opened

Control == Held /\ Roles /\ OneAdd /\ Joined

Swapping == \E c \in L!Callers : place[c] = "swap"

\* Compositions are numbered in order of opening, and each that is open has one
\* of three names: the one in use, its copy for the swap, the one just built.
Named ==
    /\ prev \in {0, compose}
    /\ builder # "none" \/ Swapping => prev = compose
    /\ ~shut => compose \notin closed
    /\ L!Opened \ closed \subseteq {compose, prev, result}

\* What the build that is out will open, has opened, or did not; and which of
\* the charts it covers.
Built ==
    /\ builder = "reading" => result = 0
    /\ builder = "none" /\ ~Swapping => result \in {0, compose}
    /\ (builder = "done" /\ ~failed) \/ Swapping => result # 0
    /\ (builder = "done" \/ Swapping) /\ result # 0 =>
         result \notin closed /\ result # compose /\ covers[result] = charts

\* Between a swap and the next append the composition in use covers the list.
Covered ==
    /\ (\E c \in L!Callers : place[c] = "bind") => compose # 0 /\ covers[compose] = charts
    /\ (/\ charts > 1 /\ ~failed /\ builder = "none"
        /\ \A c \in L!Callers : place[c] \notin {"swap", "bind", "start"})
       => compose # 0 /\ tilesCompose = compose /\ covers[compose] = charts

LInv == L!TypeOK /\ Control /\ Closing /\ Named /\ Built /\ Covered

\* What the constants are.
LEMMA Bounds ==
    /\ Frame \notin Adders /\ NoOne \notin L!Callers /\ L!Callers = Adders \cup {Frame}
    /\ FirstCharts \subseteq Nat /\ MaxAdds \in Nat
  BY LibraryConstants DEF L!RecomposeConstants, L!Callers

\* No composition is zero.
LEMMA NoneIsZero == ASSUME LInv PROVE 0 \notin L!Opened
  BY DEF LInv, L!TypeOK, L!Opened

USE DEF L!Goto, L!CallPoll, L!compVars, L!tileVars, L!callVars, L!workVars

\* The builder moves no caller.
LEMMA BuildControl ==
  ASSUME LInv, L!BuildOk \/ L!BuildFails
  PROVE  Control' /\ Closing'
<1>1. UNCHANGED <<api, place, block, after, adding, rebuilding, shut>>
      /\ builder = "reading" /\ builder' = "done"
  BY DEF L!BuildOk, L!BuildFails
<1> QED BY <1>1 DEF LInv, Control, Held, Roles, OneAdd, Joined, Closing

\* A call goes on under the api lock, which is its own.
LEMMA PollControl ==
  ASSUME LInv, NEW c \in L!Callers, L!Poll(c) \/ L!Leave(c)
  PROVE  Control' /\ Closing'
<1>0. place \in [L!Callers -> L!CallPlaces] /\ api = c /\ ~shut
  BY DEF LInv, L!TypeOK, Control, Held, Closing, L!Poll, L!PollNothing, L!PollJoin,
     L!Swap, L!Bind, L!Leave
<1>1. \A d \in L!Callers \ {c} : place[d] \in {"out", "opening"} /\ place'[d] = place[d]
  BY <1>0 DEF LInv, Control, Held, L!Poll, L!PollNothing, L!PollJoin, L!Swap,
     L!Bind, L!Leave
<1>2. Held'
  BY <1>0, <1>1 DEF LInv, Control, Held, L!Poll, L!PollNothing, L!PollJoin, L!Swap,
     L!Bind, L!Leave
<1>3. Roles'
  BY <1>0, <1>1, Bounds DEF LInv, Control, Roles, Opening, Polling, L!Poll,
     L!PollNothing, L!PollJoin, L!Swap, L!Bind, L!Leave
<1>4. OneAdd'
  <2>1. CASE L!Leave(c)
    BY <1>0, <1>1, <2>1, Bounds DEF LInv, Control, OneAdd, L!Leave
  <2>2. CASE L!Poll(c)
    <3>1. adding' = adding /\ place[c] # "out"
      BY <2>2 DEF L!Poll, L!PollNothing, L!PollJoin, L!Swap, L!Bind
    <3> QED BY <1>1, <3>1, Bounds DEF LInv, Control, OneAdd
  <2> QED BY <2>1, <2>2
<1>5. Joined'
  BY <1>0, <1>1, Bounds DEF LInv, Control, Joined, Roles, Opening, Polling, L!Poll,
     L!PollNothing, L!PollJoin, L!Swap, L!Bind, L!Leave
<1>6. Closing'
  BY <1>0, <1>1, Bounds DEF LInv, Control, Closing, Roles, Polling, L!Poll,
     L!PollNothing, L!PollJoin, L!Swap, L!Bind, L!Leave
<1> QED BY <1>2, <1>3, <1>4, <1>5, <1>6 DEF Control

\* A call takes the api lock when nobody has it.
LEMMA EnterControl ==
  ASSUME LInv, \/ L!FrameEnter \/ L!CloseBegin
               \/ \E a \in Adders : L!AddBegin(a) \/ L!AddRelock(a)
  PROVE  Control' /\ Closing'
<1> USE Bounds DEF Opening, Polling, L!FrameEnter, L!CloseBegin, L!AddBegin, L!AddRelock
<1>0. /\ place \in [L!Callers -> L!CallPlaces] /\ api = NoOne
      /\ after \in [L!Callers -> L!CallPlaces] /\ block \in [L!Callers -> BOOLEAN]
      /\ \A d \in L!Callers : place[d] \in {"out", "opening"}
  BY DEF LInv, L!TypeOK, Control, Held
<1>1. PICK c \in L!Callers : \A d \in L!Callers \ {c} : place'[d] = place[d] /\ api' = c
  BY <1>0
<1>2. Held'
  BY <1>0, <1>1 DEF Held
<1>3. Roles'
  BY <1>0 DEF LInv, Control, Roles
<1>4. OneAdd'
  BY <1>0 DEF LInv, Control, OneAdd
<1>5. Joined'
  BY <1>0 DEF LInv, Control, Joined
<1>6. Closing'
  BY <1>0 DEF LInv, Control, Closing
<1> QED BY <1>2, <1>3, <1>4, <1>5, <1>6 DEF Control

\* An add lets the lock go for its opens, appends, starts a build; a close ends.
LEMMA AddControl ==
  ASSUME LInv, \/ L!CloseEnd
               \/ \E a \in Adders : L!AddRelease(a) \/ L!AddAppend(a) \/ L!AddStart(a)
  PROVE  Control' /\ Closing'
<1> USE Bounds DEF Opening, Polling, L!CloseEnd, L!AddRelease, L!AddAppend, L!AddStart
<1>0. PICK c \in L!Callers : /\ place[c] \in {"release", "append", "start", "deinit"}
                             /\ \A d \in L!Callers \ {c} : place'[d] = place[d]
  BY DEF LInv, L!TypeOK
<1>1. /\ place \in [L!Callers -> L!CallPlaces] /\ api = c /\ ~shut
      /\ after \in [L!Callers -> L!CallPlaces] /\ block \in [L!Callers -> BOOLEAN]
      /\ \A d \in L!Callers \ {c} : place[d] \in {"out", "opening"}
  BY <1>0 DEF LInv, L!TypeOK, Control, Held, Closing
<1>2. Held'
  BY <1>0, <1>1 DEF Held
<1>3. Roles'
  BY <1>0, <1>1 DEF LInv, Control, Roles
<1>4. OneAdd'
  BY <1>0, <1>1 DEF LInv, Control, OneAdd
<1>5. Joined'
  <2>1. \A d \in L!Callers \ {c} : place[d] = "opening" => c = Frame /\ place[c] = "deinit"
    BY <1>0, <1>1 DEF LInv, Control, Roles, OneAdd
  <2>2. \A d \in L!Callers \ {c} : place[d] = "opening" => place[c] # "deinit"
    BY <1>0, <1>1 DEF LInv, Control, Roles, Closing
  <2> QED BY <1>0, <1>1, <2>1, <2>2 DEF LInv, Control, Joined
<1>6. Closing'
  <2>1. CASE L!CloseEnd
    <3>1. /\ place[Frame] = "deinit" /\ c = Frame /\ builder = "none" /\ ~Swapping
          /\ \A a \in Adders : place[a] = "out"
      BY <1>0, <1>1, <2>1 DEF LInv, Control, Joined, Closing, Swapping
    <3>2. closed \subseteq L!Opened /\ compose \in L!Opened \cup {0} /\ 0 \notin L!Opened
      BY NoneIsZero DEF LInv, L!TypeOK
    <3>3. L!Opened \ closed \subseteq {0, compose}
      BY <3>1 DEF LInv, Named, Built
    <3>4. closed' = closed \cup ({compose} \ {0}) /\ covers' = covers
      BY <2>1
    <3>5. closed' = L!Opened
      BY <3>2, <3>3, <3>4
    <3>6. L!Opened' = L!Opened
      BY <3>4 DEF L!Opened
    <3> QED BY <1>0, <1>1, <2>1, <3>1, <3>5, <3>6 DEF Closing
  <2>2. CASE ~L!CloseEnd
    BY <1>0, <1>1, <2>2 DEF LInv, Control, Closing
  <2> QED BY <2>1, <2>2
<1> QED BY <1>2, <1>3, <1>4, <1>5, <1>6 DEF Control

\* The composition a build opens gets the next number.
LEMMA BuildOkData ==
  ASSUME LInv, L!BuildOk
  PROVE  L!TypeOK' /\ Named' /\ Built' /\ Covered'
<1> DEFINE n == Len(covers)
<1>1. /\ n \in Nat /\ L!Opened = 1..n /\ builder = "reading" /\ result = 0
      /\ prev = compose /\ closed \subseteq 1..n /\ compose \in 0..n /\ ~shut
      /\ charts \in Nat /\ covers \in Seq(Nat) /\ tilesCompose \in 0..n
      /\ held \in [Workers -> 0..n]
  <2>1. /\ n \in Nat /\ L!Opened = 1..n /\ covers \in Seq(Nat) /\ charts \in Nat
    BY DEF LInv, L!TypeOK, L!Opened
  <2>2. builder = "reading" /\ result = 0 /\ prev = compose /\ ~shut
    BY DEF LInv, Named, Built, Closing, L!BuildOk
  <2>3. /\ closed \subseteq 1..n /\ {compose, tilesCompose} \subseteq 1..n \cup {0}
        /\ held \in [Workers -> 1..n \cup {0}]
    BY <2>1 DEF LInv, L!TypeOK
  <2>4. 1..n \cup {0} = 0..n
    BY <2>1
  <2> HIDE DEF n
  <2> QED BY <2>1, <2>2, <2>3, <2>4
<1>2. /\ covers' = Append(covers, charts)
      /\ result' = n + 1 /\ builder' = "done" /\ failed' = FALSE
      /\ UNCHANGED <<api, place, block, after, adding, adds, charts, compose, prev,
                     rebuilding, closed, tilesCompose, source, held, wpc, shut>>
  BY DEF L!BuildOk
<1>3. /\ L!Opened' = 1..(n + 1) /\ covers' \in Seq(Nat) /\ covers'[n + 1] = charts
      /\ n + 1 \in Nat
  BY <1>1, <1>2 DEF L!Opened
<1> HIDE DEF n
<1>4. L!TypeOK'
  <2>1. /\ {compose', prev', result', tilesCompose'} \subseteq L!Opened' \cup {0}
        /\ closed' \subseteq L!Opened'
    BY <1>1, <1>2, <1>3
  <2>2. held' \in [Workers -> L!Opened' \cup {0}]
    <3>1. 0..n \subseteq 1..(n + 1) \cup {0}
      BY <1>1
    <3> QED BY <1>1, <1>2, <1>3, <3>1
  <2> QED BY <1>2, <1>3, <2>1, <2>2 DEF LInv, L!TypeOK
<1>5. Named'
  <2>1. L!Opened' \ closed' \subseteq {compose', prev', result'}
    <3>1. 1..n \ closed \subseteq {compose, prev, result}
      BY <1>1 DEF LInv, Named
    <3> QED BY <1>1, <1>2, <1>3, <3>1
  <2> QED BY <1>1, <1>2, <1>3, <2>1 DEF LInv, Named
<1>6. Built'
  <2>1. n + 1 # 0 /\ n + 1 # compose /\ n + 1 \notin closed
    BY <1>1
  <2> QED BY <1>1, <1>2, <1>3, <2>1 DEF Built
<1>7. Covered'
  <2>1. \A c \in L!Callers : place[c] # "bind"
    BY <1>1 DEF LInv, Control, Joined
  <2> QED BY <1>2, <2>1 DEF Covered
<1> QED BY <1>4, <1>5, <1>6, <1>7

\* Only one caller is past the api lock.
LEMMA Alone ==
  ASSUME LInv, NEW c \in L!Callers, place[c] \notin {"out", "opening"}
  PROVE  /\ \A d \in L!Callers \ {c} : place[d] \in {"out", "opening"}
         /\ place[c] # "swap" => ~Swapping
         /\ place \in [L!Callers -> L!CallPlaces] /\ ~shut
  BY DEF LInv, L!TypeOK, Control, Held, Closing, Swapping

Marked == {"swap", "bind", "start"}

\* A step that leaves list, compositions and pool alone, and takes no caller
\* into or out of a swap, a bind or the start of a build.
LEMMA SteadyData ==
  ASSUME LInv, UNCHANGED <<charts, L!compVars, L!tileVars>>, shut' = shut,
         \A c \in L!Callers : place[c] \in Marked \/ place'[c] \in Marked
                                => place'[c] = place[c]
  PROVE  Named' /\ Built' /\ Covered'
<1>1. Swapping' <=> Swapping
  BY DEF Swapping, Marked
<1>2. Named'
  BY <1>1 DEF LInv, Named, L!Opened
<1>3. Built'
  BY <1>1 DEF LInv, Built
<1>4. Covered'
  BY DEF LInv, Covered, Marked
<1> QED BY <1>2, <1>3, <1>4

\* Of the builder that opened nothing.
LEMMA BuildFailsData == ASSUME LInv, L!BuildFails PROVE Named' /\ Built' /\ Covered'
<1>1. /\ builder = "reading" /\ result = 0 /\ prev = compose
      /\ builder' = "done" /\ failed' = TRUE
      /\ UNCHANGED <<place, charts, compose, prev, result, covers, closed, shut>>
  BY DEF LInv, Named, Built, L!BuildFails
<1>2. \A c \in L!Callers : place[c] \notin {"swap", "bind"}
  BY <1>1 DEF LInv, Control, Joined
<1>3. Named'
  BY <1>1 DEF LInv, Named, L!Opened
<1>4. Built'
  BY <1>1, <1>2 DEF Built, Swapping
<1>5. Covered'
  BY <1>1, <1>2 DEF Covered
<1> QED BY <1>3, <1>4, <1>5

\* Of the poll that joins the builder, to swap what it opened or go on.
LEMMA PollJoinData ==
  ASSUME LInv, NEW c \in L!Callers, L!PollJoin(c)
  PROVE  Named' /\ Built' /\ Covered'
<1>1. /\ builder = "done" /\ builder' = "none" /\ place[c] = "poll" /\ prev = compose
      /\ place' = [place EXCEPT ![c] = IF result # 0 THEN "swap" ELSE after[c]]
      /\ UNCHANGED <<charts, compose, prev, result, failed, covers, closed,
                      tilesCompose, shut>>
  BY DEF LInv, Named, L!PollJoin
<1>2. /\ place \in [L!Callers -> L!CallPlaces] /\ after[c] \in {"leave", "release", "deinit"}
      /\ \A d \in L!Callers \ {c} : place[d] \in {"out", "opening"} /\ place'[d] = place[d]
  BY <1>1, Alone DEF LInv, Control, Roles, Polling
<1>3. /\ result # 0 => Swapping' /\ place'[c] = "swap"
      /\ result = 0 => ~Swapping' /\ place'[c] = after[c] /\ failed
  BY <1>1, <1>2 DEF Swapping, LInv, Built
<1>4. \A d \in L!Callers : place'[d] # "bind"
  BY <1>1, <1>2, <1>3
<1>5. Named'
  BY <1>1 DEF LInv, Named, L!Opened
<1>6. Built'
  BY <1>1, <1>3 DEF LInv, Built
<1>7. Covered'
  BY <1>1, <1>3, <1>4 DEF Covered
<1> QED BY <1>5, <1>6, <1>7

\* Of the swap: the composition just built is in, the one it replaces closed.
LEMMA SwapData ==
  ASSUME LInv, NEW c \in L!Callers, L!Swap(c)
  PROVE  Named' /\ Built' /\ Covered'
<1>1. /\ compose' = result /\ closed' = closed \cup ({prev} \ {0}) /\ prev' = 0
      /\ place[c] = "swap" /\ place' = [place EXCEPT ![c] = "bind"]
      /\ UNCHANGED <<charts, result, builder, failed, covers, shut>>
  BY DEF L!Swap
<1>2. /\ Swapping /\ builder = "none" /\ prev = compose /\ result # 0
      /\ result \notin closed /\ result # compose /\ covers[result] = charts
  BY <1>1 DEF LInv, Control, Joined, Named, Built, Swapping
<1>3. place'[c] = "bind" /\ ~Swapping'
  BY <1>1, Alone DEF Swapping
<1>4. Named'
  BY <1>1, <1>2, <1>3, NoneIsZero DEF LInv, Named, L!Opened
<1>5. Built'
  BY <1>1, <1>2, <1>3 DEF Built
<1>6. Covered'
  BY <1>1, <1>2, <1>3 DEF Covered
<1> QED BY <1>4, <1>5, <1>6

\* Of the bind: the workers are pointed at the composition in use.
LEMMA BindData ==
  ASSUME LInv, NEW c \in L!Callers, L!Bind(c)
  PROVE  Named' /\ Built' /\ Covered'
<1>1. /\ place[c] = "bind" /\ tilesCompose' = compose
      /\ place' = [place EXCEPT ![c] = after[c]]
      /\ UNCHANGED <<charts, compose, prev, result, builder, failed, covers, closed, shut>>
  BY DEF L!Bind
<1>2. /\ after[c] \in {"leave", "release", "deinit"} /\ place'[c] = after[c]
      /\ \A d \in L!Callers \ {c} : place[d] \in {"out", "opening"} /\ place'[d] = place[d]
  BY <1>1, Alone DEF LInv, Control, Roles, Polling
<1>3. ~Swapping /\ ~Swapping' /\ \A d \in L!Callers : place'[d] # "bind"
  BY <1>1, <1>2 DEF Swapping
<1>4. Named' /\ Built'
  BY <1>1, <1>3 DEF LInv, Named, Built, L!Opened
<1>5. compose # 0 /\ covers[compose] = charts
  BY <1>1 DEF LInv, Covered
<1>6. Covered'
  BY <1>1, <1>3, <1>5 DEF Covered
<1> QED BY <1>4, <1>6

\* Of the append, and of the start of a build over the list it left.
LEMMA AddData ==
  ASSUME LInv, NEW a \in Adders, L!AddAppend(a) \/ L!AddStart(a)
  PROVE  Named' /\ Built' /\ Covered'
<1>1. /\ a \in L!Callers /\ place[a] \in {"append", "start"} /\ ~Swapping /\ builder = "none"
      /\ \A d \in L!Callers \ {a} : place[d] \in {"out", "opening"}
      /\ place \in [L!Callers -> L!CallPlaces]
  BY Bounds, Alone DEF LInv, Control, Joined, Opening, L!AddAppend, L!AddStart
<1>2. prev \in {0, compose} /\ result \in {0, compose}
  BY <1>1 DEF LInv, Named, Built
<1>3. CASE L!AddAppend(a)
  <2>1. UNCHANGED <<compose, prev, result, builder, failed, covers, closed,
                   tilesCompose, shut>>
    BY <1>3 DEF L!AddAppend
  <2>2. PICK n \in {0, 1} :
          /\ charts' = charts + n
          /\ place' = [place EXCEPT ![a] = IF n = 0 THEN "leave" ELSE "start"]
    BY <1>3 DEF L!AddAppend
  <2>3. ~Swapping' /\ \A d \in L!Callers : place'[d] # "bind"
    BY <1>1, <2>2 DEF Swapping
  <2>4. Named' /\ Built'
    BY <1>1, <1>2, <2>1, <2>3 DEF LInv, Named, Built, L!Opened
  <2>5. Covered'
    <3>1. CASE n = 0
      <4>1. place[a] = "append" /\ charts' = charts
        BY <1>3, <2>2, <3>1 DEF L!AddAppend, LInv, L!TypeOK
      <4>2. \A d \in L!Callers : place[d] \notin {"swap", "bind", "start"}
        BY <1>1, <4>1
      <4> QED BY <1>1, <2>1, <2>3, <4>1, <4>2 DEF LInv, Covered
    <3>2. CASE n = 1
      <4>1. place'[a] = "start"
        BY <1>1, <2>2, <3>2
      <4> QED BY <1>1, <2>3, <4>1 DEF Covered
    <3> QED BY <3>1, <3>2
  <2> QED BY <2>4, <2>5
<1>4. CASE L!AddStart(a)
  <2>1. /\ prev' = compose /\ result' = 0 /\ builder' = "reading" /\ place'[a] = "poll"
        /\ \A d \in L!Callers \ {a} : place'[d] = place[d]
        /\ UNCHANGED <<charts, compose, failed, covers, closed, shut>>
    BY <1>1, <1>4 DEF L!AddStart
  <2>2. ~Swapping' /\ \A d \in L!Callers : place'[d] # "bind"
    BY <1>1, <2>1 DEF Swapping
  <2>3. Named'
    BY <1>2, <2>1, NoneIsZero DEF LInv, Named, L!Opened
  <2>4. Built' /\ Covered'
    BY <2>1, <2>2 DEF Built, Covered
  <2> QED BY <2>3, <2>4
<1> QED BY <1>3, <1>4

\* Of the close: every composition is closed.
LEMMA CloseData == ASSUME LInv, L!CloseEnd, Closing' PROVE Named' /\ Built' /\ Covered'
<1>1. /\ place[Frame] = "deinit" /\ place' = [place EXCEPT ![Frame] = "out"] /\ shut'
      /\ UNCHANGED <<charts, compose, prev, result, builder, failed, covers, tilesCompose>>
  BY DEF L!CloseEnd
<1>2. /\ Frame \in L!Callers /\ closed' = L!Opened' /\ builder = "none"
      /\ \A d \in L!Callers \ {Frame} : place[d] \in {"out", "opening"}
      /\ place \in [L!Callers -> L!CallPlaces] /\ ~Swapping
  BY <1>1, Bounds, Alone DEF Closing, LInv, Control, Joined
<1>3. ~Swapping' /\ \A d \in L!Callers : place[d] \notin Marked /\ place'[d] \notin Marked
  BY <1>1, <1>2 DEF Swapping, Marked
<1>4. Named'
  BY <1>1, <1>2, <1>3 DEF LInv, Named
<1>5. Built'
  BY <1>1, <1>2, <1>3 DEF LInv, Built
<1>6. Covered'
  BY <1>1, <1>2, <1>3 DEF LInv, Covered, Marked
<1> QED BY <1>4, <1>5, <1>6

\* Every step but the one that opens a composition keeps the types.
LEMMA TypeSteps ==
  ASSUME LInv, L!Next, ~L!BuildOk
  PROVE  L!TypeOK'
<1>0. L!TypeOK /\ L!Callers = Adders \cup {Frame} /\ MaxAdds \in Nat /\ NoOne \notin L!Callers
  BY Bounds DEF LInv
<1>1. covers' = covers /\ L!Opened' = L!Opened
  BY DEF L!Next, L!BuildFails, L!Poll, L!PollNothing, L!PollJoin, L!Swap, L!Bind,
     L!Leave,
     L!FrameEnter, L!CloseBegin, L!CloseEnd, L!AddBegin, L!AddRelease, L!AddRelock,
     L!AddAppend, L!AddStart, L!CopyCompose, L!ComposeTile, L!TileComposed, L!Ended, L!vars,
     L!Opened
<1> USE DEF L!TypeOK
<1>2. CASE L!BuildFails \/ L!CloseEnd \/ L!CloseBegin \/ L!FrameEnter
  <2>1. CASE L!BuildFails
    BY <1>0, <1>1, <2>1 DEF L!BuildFails
  <2>2. CASE L!CloseEnd
    <3>1. closed' \subseteq L!Opened
      BY <1>0, <2>2 DEF L!CloseEnd
    <3> QED BY <1>0, <1>1, <2>2, <3>1 DEF L!CloseEnd, L!CallPlaces
  <2>3. CASE L!CloseBegin
    BY <1>0, <1>1, <2>3 DEF L!CloseBegin, L!CallPlaces
  <2>4. CASE L!FrameEnter
    BY <1>0, <1>1, <2>4 DEF L!FrameEnter, L!CallPlaces
  <2> QED BY <1>2, <2>1, <2>2, <2>3, <2>4
<1>3. ASSUME NEW c \in L!Callers, L!Poll(c) \/ L!Leave(c) PROVE L!TypeOK'
  <2>1. after[c] \in L!CallPlaces
    BY <1>0
  <2>2. CASE L!PollNothing(c) \/ L!PollJoin(c)
    <3>1. CASE L!PollNothing(c)
      BY <1>0, <1>1, <2>1, <3>1 DEF L!PollNothing
    <3>2. CASE L!PollJoin(c)
      <4>1. (IF result # 0 THEN "swap" ELSE after[c]) \in L!CallPlaces
        BY <2>1 DEF L!CallPlaces
      <4> QED BY <1>0, <1>1, <3>2, <4>1 DEF L!PollJoin
    <3> QED BY <2>2, <3>1, <3>2
  <2>3. CASE L!Swap(c)
    BY <1>0, <1>1, <2>3 DEF L!Swap, L!CallPlaces
  <2>4. CASE L!Bind(c)
    BY <1>0, <1>1, <2>1, <2>4 DEF L!Bind, L!CallPlaces
  <2>5. CASE L!Leave(c)
    BY <1>0, <1>1, <2>5 DEF L!Leave, L!CallPlaces
  <2> QED BY <1>3, <2>2, <2>3, <2>4, <2>5 DEF L!Poll
<1>4. ASSUME NEW a \in Adders,
             \/ L!AddBegin(a) \/ L!AddRelease(a) \/ L!AddRelock(a)
             \/ L!AddAppend(a) \/ L!AddStart(a)
      PROVE  L!TypeOK'
  <2>1. CASE L!AddBegin(a)
    BY <1>0, <1>1, <2>1 DEF L!AddBegin, L!CallPlaces
  <2>2. CASE L!AddRelease(a)
    BY <1>0, <1>1, <2>2 DEF L!AddRelease, L!CallPlaces
  <2>3. CASE L!AddRelock(a)
    BY <1>0, <1>1, <2>3 DEF L!AddRelock, L!CallPlaces
  <2>4. CASE L!AddAppend(a)
    BY <1>0, <1>1, <2>4 DEF L!AddAppend, L!CallPlaces
  <2>5. CASE L!AddStart(a)
    BY <1>0, <1>1, <2>5 DEF L!AddStart, L!CallPlaces
  <2> QED BY <1>4, <2>1, <2>2, <2>3, <2>4, <2>5
<1>5. ASSUME NEW w \in Workers, L!CopyCompose(w) \/ L!ComposeTile(w) \/ L!TileComposed(w)
      PROVE  L!TypeOK'
  BY <1>0, <1>1, <1>5 DEF L!CopyCompose, L!ComposeTile, L!TileComposed
<1>6. CASE L!Ended
  BY <1>0, <1>6 DEF L!Ended, L!vars, L!Opened
<1> QED BY <1>2, <1>3, <1>4, <1>5, <1>6 DEF L!Next

\* A step of the library keeps its invariant.
LEMMA NextLInv == ASSUME LInv, L!Next PROVE LInv'
<1>1. CASE L!BuildOk \/ L!BuildFails
  BY <1>1, TypeSteps, BuildControl, BuildOkData, BuildFailsData DEF LInv
<1>2. ASSUME NEW c \in L!Callers, L!Poll(c) \/ L!Leave(c) PROVE LInv'
  <2>1. Control' /\ Closing'
    BY <1>2, PollControl
  <2>2. L!TypeOK'
    <3>1. ~L!BuildOk
      BY <1>2, Alone DEF LInv, L!BuildOk, L!Poll, L!PollNothing, L!PollJoin, L!Swap,
         L!Bind, L!Leave, L!TypeOK
    <3> QED BY <1>2, <3>1, TypeSteps DEF L!Next
  <2>3. CASE L!PollNothing(c) \/ L!Leave(c)
    <3>1. UNCHANGED <<charts, L!compVars, L!tileVars>> /\ shut' = shut
      BY <2>3 DEF L!PollNothing, L!Leave
    <3>2. /\ place[c] \in {"poll", "leave"}
          /\ place'[c] \in {"leave", "release", "deinit", "out"}
          /\ \A d \in L!Callers \ {c} : place'[d] = place[d]
      BY <2>3, Alone DEF L!PollNothing, L!Leave, LInv, Control, Roles, Polling
    <3> QED BY <2>1, <2>2, <3>1, <3>2, SteadyData DEF LInv, Marked
  <2> QED BY <1>2, <2>1, <2>2, <2>3, PollJoinData, SwapData, BindData DEF L!Poll, LInv
<1>3. CASE \/ L!FrameEnter \/ L!CloseBegin
           \/ \E a \in Adders : L!AddBegin(a) \/ L!AddRelock(a) \/ L!AddRelease(a)
  <2>1. Control' /\ Closing'
    BY <1>3, EnterControl, AddControl
  <2>2. /\ UNCHANGED <<charts, L!compVars, L!tileVars>> /\ shut' = shut
        /\ place \in [L!Callers -> L!CallPlaces]
    BY <1>3 DEF L!FrameEnter, L!CloseBegin, L!AddBegin, L!AddRelock, L!AddRelease,
       LInv, L!TypeOK
  <2>3. \A c \in L!Callers : place'[c] = place[c] \/
          (/\ place[c] \in {"out", "opening", "release"}
            /\ place'[c] \in {"poll", "opening", "append"})
    BY <1>3, <2>2, Bounds DEF L!FrameEnter, L!CloseBegin, L!AddBegin, L!AddRelock,
       L!AddRelease
  <2>4. L!TypeOK'
    <3>1. ~L!BuildOk
      BY <1>3, <2>2 DEF L!BuildOk, L!FrameEnter, L!CloseBegin, L!AddBegin,
         L!AddRelock,
         L!AddRelease, LInv, L!TypeOK
    <3> QED BY <1>3, <3>1, TypeSteps DEF L!Next
  <2> QED BY <2>1, <2>2, <2>3, <2>4, SteadyData DEF LInv, Marked
<1>4. CASE L!CloseEnd \/ \E a \in Adders : L!AddAppend(a) \/ L!AddStart(a)
  <2>1. Control' /\ Closing'
    BY <1>4, AddControl
  <2>2. Named' /\ Built' /\ Covered'
    BY <1>4, <2>1, CloseData, AddData
  <2>3. ~L!BuildOk
    BY <1>4 DEF L!BuildOk, L!CloseEnd, L!AddAppend, L!AddStart, LInv, L!TypeOK
  <2> QED BY <1>4, <2>1, <2>2, <2>3, TypeSteps DEF LInv, L!Next
<1>5. ASSUME NEW w \in Workers, L!CopyCompose(w) \/ L!ComposeTile(w) \/ L!TileComposed(w)
      PROVE  LInv'
  <2>1. UNCHANGED <<L!callVars, charts, L!compVars, L!tileVars, shut>>
    BY <1>5 DEF L!CopyCompose, L!ComposeTile, L!TileComposed
  <2>2. Control' /\ Closing'
    BY <2>1 DEF LInv, Control, Held, Roles, OneAdd, Joined, Closing, L!Opened
  <2>3. L!TypeOK'
    BY <1>5, <2>1, TypeSteps DEF L!Next, L!BuildOk, LInv, L!TypeOK
  <2> QED BY <2>1, <2>2, <2>3, SteadyData DEF LInv
<1>6. CASE L!Ended
  BY <1>6 DEF L!Ended, L!vars, LInv, L!TypeOK, Control, Held, Roles, OneAdd, Joined,
     Closing, Named,
     Built, Covered, Swapping, L!Opened
<1> QED BY <1>1, <1>2, <1>3, <1>4, <1>5, <1>6 DEF L!Next

\* A library just opened, over however many charts.
LEMMA InitLInv == ASSUME L!Init PROVE LInv
<1>1. /\ covers = <<>> /\ L!Opened = {} /\ charts \in Nat /\ closed = {}
      /\ \A c \in L!Callers : place[c] = "out"
  BY Bounds DEF L!Init, L!Opened
<1>2. L!TypeOK
  <2>1. covers \in Seq(Nat)
    BY <1>1
  <2>2. {adding, rebuilding, failed, shut} \subseteq BOOLEAN
    <3>1. rebuilding = TRUE \/ rebuilding = FALSE
      BY DEF L!Init
    <3> QED BY <3>1 DEF L!Init
  <2>3. /\ {compose, prev, result, tilesCompose} \subseteq L!Opened \cup {0}
        /\ held \in [Workers -> L!Opened \cup {0}]
    BY DEF L!Init
  <2> QED BY <1>1, <2>1, <2>2, <2>3, Bounds DEF L!Init, L!TypeOK, L!CallPlaces
<1>3. Control /\ Closing
  BY <1>1, Bounds DEF L!Init, Control, Held, Roles, OneAdd, Joined, Closing,
     Opening, Polling
<1>4. ~Swapping
  BY <1>1 DEF Swapping
<1>5. Named /\ Built
  BY <1>1, <1>4 DEF L!Init, Named, Built
<1>6. Covered
  BY <1>1 DEF L!Init, Covered
<1> QED BY <1>2, <1>3, <1>5, <1>6 DEF LInv

\* And one that is shut from the start.
LEMMA ShutLInv == ASSUME LibraryShut PROVE LInv
<1>1. /\ covers = <<>> /\ L!Opened = {} /\ closed = {}
      /\ \A c \in L!Callers : place[c] = "out"
  BY DEF LibraryShut, L!Opened
<1>2. L!TypeOK
  <2>1. covers \in Seq(Nat)
    BY <1>1
  <2>2. {adding, rebuilding, failed, shut} \subseteq BOOLEAN
    BY DEF LibraryShut
  <2>3. /\ {compose, prev, result, tilesCompose} \subseteq L!Opened \cup {0}
        /\ held \in [Workers -> L!Opened \cup {0}]
    BY DEF LibraryShut
  <2> QED BY <1>1, <2>1, <2>2, <2>3, Bounds DEF LibraryShut, L!TypeOK, L!CallPlaces
<1>3. Control /\ Closing
  BY <1>1, Bounds DEF LibraryShut, Control, Held, Roles, OneAdd, Joined, Closing,
     Opening, Polling
<1>4. ~Swapping
  BY <1>1 DEF Swapping
<1>5. Named /\ Built
  BY <1>1, <1>4 DEF LibraryShut, Named, Built
<1>6. Covered
  BY <1>1 DEF LibraryShut, Covered
<1> QED BY <1>2, <1>3, <1>5, <1>6 DEF LInv

\* The library's invariant holds throughout, beside the lock's own steps.
THEOREM LInvHolds == BothSpec => []LInv
<1>1. BothInit => LInv
  BY InitLInv, ShutLInv DEF BothInit
<1>2. LInv /\ [BothNext]_<<vars, library, part>> => LInv'
  <2> SUFFICES ASSUME LInv, [BothNext]_<<vars, library, part>> PROVE LInv'
    OBVIOUS
  <2>1. CASE UNCHANGED library
    BY <2>1 DEF library, LInv, L!TypeOK, Control, Held, Roles, OneAdd, Joined,
       Closing, Named,
       Built, Covered, Swapping, L!Opened
  <2>2. CASE L!Next
    BY <2>2, NextLInv
  <2> QED BY <2>1, <2>2 DEF BothNext
<1> QED BY <1>1, <1>2, PTL DEF BothSpec

\* Through adds, builds, swaps and a close that overlap (chartsAdd,
\* composeWorker, pollCompose and close, root.zig), for any number of threads
\* that add and of workers, however many charts the library opens with and
\* however often one adds: no build reads a list that grows, the composition in use is
\* open, none is leaked, and what the workers compose from in the end covers
\* every chart.  A worker may still hold the composition that was in use before,
\* and of that one nothing is said.
THEOREM CompositionHolds == BothSpec => []CompositionIsSound
<1>1. LInv => CompositionIsSound
  <2> SUFFICES ASSUME LInv PROVE CompositionIsSound
    OBVIOUS
  <2>1. L!ListIsQuiet
    BY Bounds DEF LInv, Control, Joined, Opening, L!ListIsQuiet
  <2>2. L!CurrentIsOpen
    BY NoneIsZero DEF LInv, Named, L!TypeOK, L!CurrentIsOpen
  <2>3. L!NothingLeaked
    BY DEF LInv, Named, Closing, L!NothingLeaked
  <2>4. L!EveryChartComposed
    BY DEF LInv, Covered, Control, Joined, L!EveryChartComposed, L!Quiet
  <2> QED BY <2>1, <2>2, <2>3, <2>4 DEF LInv, CompositionIsSound, L!CompositionIsSound
<1> QED BY <1>1, LInvHolds, PTL

-------------------------------------------------------------------------------
(* The pool of tile workers                                                  *)

\* The places of a worker whose badge is counted.
Badged == {"top", "take", "starved", "serve", "answered", "leave"}

\* What the code's order ties together: a worker has a tile in its hands exactly while
\* it serves one, it leaves only when deinit has begun, and once deinit has freed the
\* pool a worker can only be on its way out.
PlacesAgree ==
    /\ \A w \in Slots : job[w] # NoTile <=> spot[w] = "serve"
    /\ \A w \in Slots : spot[w] = "leave" => stopping
    /\ stopping <=> fpc \in {"closing", "closed"}
    /\ freed <=> fpc = "closed"
    /\ freed => PoolAt({"take", "starved", "serve", "answered"}) = {}
    /\ IsFiniteSet(Parked)

\* The inductive invariant.
PoolInv == PoolTypeOK /\ PoolAddsUp /\ PlacesAgree

-------------------------------------------------------------------------------
\* The sets of workers the counters count are finite.
LEMMA PoolAtIsFinite ==
    ASSUME NEW S
    PROVE  IsFiniteSet(PoolAt(S)) /\ Cardinality(PoolAt(S)) \in Nat
BY PoolBounds, FS_Subset, FS_CardinalityType DEF PoolAt

\* What one worker going from one place to another does to the workers at places S.
LEMMA MoveCounts ==
    ASSUME PoolTypeOK, NEW w \in Slots, NEW p, NEW S, Goto(w, p)
    PROVE  /\ PoolAt(S)' = (PoolAt(S) \ {w}) \cup (IF p \in S THEN {w} ELSE {})
           /\ Cardinality(PoolAt(S))' = Cardinality(PoolAt(S))
                 + (IF p \in S THEN 1 ELSE 0) - (IF spot[w] \in S THEN 1 ELSE 0)
<1>1. PoolAt(S)' = (PoolAt(S) \ {w}) \cup (IF p \in S THEN {w} ELSE {})
    BY DEF PoolTypeOK, PoolAt, Goto
<1>2. w \in PoolAt(S) <=> spot[w] \in S
    BY DEF PoolAt
<1>3. IsFiniteSet(PoolAt(S) \ {w}) /\ Cardinality(PoolAt(S)) \in Nat
    BY PoolAtIsFinite, FS_RemoveElement
<1>4. Cardinality(PoolAt(S) \ {w}) = Cardinality(PoolAt(S)) - (IF spot[w] \in S THEN 1 ELSE 0)
    BY <1>2, <1>3, PoolAtIsFinite, FS_RemoveElement
<1>5. Cardinality((PoolAt(S) \ {w}) \cup {w}) = Cardinality(PoolAt(S) \ {w}) + 1
    BY <1>3, FS_AddElement
<1>6. (PoolAt(S) \ {w}) \cup {} = PoolAt(S) \ {w}
    OBVIOUS
<1>7. CASE p \in S
    BY <1>1, <1>3, <1>4, <1>5, <1>7
<1>8. CASE p \notin S
    BY <1>1, <1>3, <1>4, <1>6, <1>8
<1> QED
    BY <1>7, <1>8

\* The badges held.
Badges == Cardinality(PoolAt(Badged))

\* AliveMatches in terms of the badges, in this state and the next.
LEMMA BadgesAreCounted ==
    /\ PoolTypeOK => (AliveMatches <=> alive = Badges + (IF fpc = "spawn" THEN 1 ELSE 0))
    /\ PoolTypeOK' => (AliveMatches' <=> alive' = Badges' + (IF fpc' = "spawn" THEN 1 ELSE 0))
    /\ Badges \in Nat
<1>1. PoolTypeOK => Slots \ PoolAt({"none", "recheck", "rejoin"}) = PoolAt(Badged)
    BY DEF PoolTypeOK, PoolAt, Badged, Places
<1>2. PoolTypeOK' => Slots \ PoolAt({"none", "recheck", "rejoin"})' = PoolAt(Badged)'
    BY DEF PoolTypeOK, PoolAt, Badged, Places
<1> QED
    BY <1>1, <1>2, PoolAtIsFinite DEF AliveMatches, Badges

\* What one worker going from one place to another does to the badges.
LEMMA BadgesMove ==
    ASSUME PoolTypeOK, NEW w \in Slots, NEW p, Goto(w, p)
    PROVE  Badges' = Badges + (IF p \in Badged THEN 1 ELSE 0)
                            - (IF spot[w] \in Badged THEN 1 ELSE 0)
BY MoveCounts DEF Badges

\* The jobs taken and not finished.
Jobs == Cardinality(PoolAt({"serve", "answered"}))

\* What one worker going from one place to another does to the jobs.
LEMMA JobsMove ==
    ASSUME PoolTypeOK, NEW w \in Slots, NEW p, Goto(w, p)
    PROVE  /\ Jobs' = Jobs + (IF p \in {"serve", "answered"} THEN 1 ELSE 0)
                           - (IF spot[w] \in {"serve", "answered"} THEN 1 ELSE 0)
           /\ Jobs \in Nat
<1>1. Jobs \in Nat
    BY PoolAtIsFinite DEF Jobs
<1>2. \A S : Cardinality(PoolAt(S))' = Cardinality(PoolAt(S))
                  + (IF p \in S THEN 1 ELSE 0) - (IF spot[w] \in S THEN 1 ELSE 0)
    BY MoveCounts
<1>3. PICK S : S = {"serve", "answered"}
    OBVIOUS
<1>4. Jobs = Cardinality(PoolAt(S)) /\ Jobs' = Cardinality(PoolAt(S))'
    BY <1>3 DEF Jobs
<1> QED
    BY <1>1, <1>2, <1>3, <1>4

\* SetToSeq lists each element of a finite set once.
LEMMA SetToSeqOfFinite ==
    ASSUME NEW S, IsFiniteSet(S)
    PROVE  /\ SetToSeq(S) \in Seq(S)
           /\ IsInjective(SetToSeq(S))
           /\ ToSet(SetToSeq(S)) = S
<1> DEFINE n == Cardinality(S)
           q == SetToSeq(S)
<1>1. n \in Nat /\ ExistsBijection(1..n, S)
    BY FS_CardinalityType
<1>2. \E f \in [1..n -> S] : IsInjective(f)
    BY <1>1 DEF ExistsBijection, Bijection, Injection
<1>3. q \in [1..n -> S] /\ IsInjective(q)
    BY <1>2 DEF SetToSeq
<1>4. q \in Injection(1..n, S)
    BY <1>3 DEF Injection
<1>5. IsFiniteSet(1..n) /\ Cardinality(1..n) = n
    BY <1>1, FS_Interval
<1>6. q \in Surjection(1..n, S)
    BY <1>4, <1>5, FS_Injection
<1>7. ToSet(q) = S
    BY <1>3, <1>6 DEF Surjection, ToSet
<1>8. q \in Seq(S)
    BY <1>1, <1>3
<1> QED
    BY <1>3, <1>7, <1>8

\* Two lists without repeats and without a common element make one without repeats.
LEMMA ConcatInjective ==
    ASSUME NEW T, NEW s \in Seq(T), NEW t \in Seq(T), IsInjective(s), IsInjective(t),
           ToSet(s) \cap ToSet(t) = {}
    PROVE  /\ s \o t \in Seq(T)
           /\ IsInjective(s \o t)
           /\ ToSet(s \o t) = ToSet(s) \cup ToSet(t)
<1>1. /\ s \o t \in Seq(T) /\ DOMAIN (s \o t) = 1..(Len(s) + Len(t))
      /\ Len(s) \in Nat /\ Len(t) \in Nat
      /\ \A i \in 1..(Len(s) + Len(t)) :
            (s \o t)[i] = IF i <= Len(s) THEN s[i] ELSE t[i - Len(s)]
    BY ConcatProperties, LenProperties
<1>2. DOMAIN s = 1..Len(s) /\ DOMAIN t = 1..Len(t)
    BY LenProperties
<1>3. ToSet(s \o t) = ToSet(s) \cup ToSet(t)
    <2>1. ASSUME NEW x \in ToSet(s \o t) PROVE x \in ToSet(s) \cup ToSet(t)
        <3>1. PICK i \in 1..(Len(s) + Len(t)) : x = (s \o t)[i]
            BY <1>1, <2>1 DEF ToSet
        <3>2. CASE i <= Len(s)
            BY <1>1, <1>2, <3>1, <3>2 DEF ToSet
        <3>3. CASE ~(i <= Len(s))
            <4>1. i - Len(s) \in 1..Len(t) /\ x = t[i - Len(s)]
                BY <1>1, <3>1, <3>3
            <4> QED
                BY <1>2, <4>1 DEF ToSet
        <3> QED
            BY <3>2, <3>3
    <2>2. ASSUME NEW x \in ToSet(s) PROVE x \in ToSet(s \o t)
        <3>1. PICK i \in 1..Len(s) : x = s[i]
            BY <1>2, <2>2 DEF ToSet
        <3>2. i \in 1..(Len(s) + Len(t)) /\ (s \o t)[i] = x
            BY <1>1, <3>1
        <3> QED
            BY <1>1, <3>2 DEF ToSet
    <2>3. ASSUME NEW x \in ToSet(t) PROVE x \in ToSet(s \o t)
        <3>1. PICK i \in 1..Len(t) : x = t[i]
            BY <1>2, <2>3 DEF ToSet
        <3>2. i + Len(s) \in 1..(Len(s) + Len(t)) /\ (s \o t)[i + Len(s)] = x
            BY <1>1, <3>1
        <3> QED
            BY <1>1, <3>2 DEF ToSet
    <2> QED
        BY <2>1, <2>2, <2>3
<1>4. IsInjective(s \o t)
    <2> SUFFICES ASSUME NEW i \in 1..(Len(s) + Len(t)), NEW j \in 1..(Len(s) + Len(t)),
                        (s \o t)[i] = (s \o t)[j]
                 PROVE  i = j
        BY <1>1 DEF IsInjective
    <2>1. CASE i <= Len(s) /\ j <= Len(s)
        BY <1>1, <1>2, <2>1 DEF IsInjective
    <2>2. CASE i > Len(s) /\ j > Len(s)
        <3>1. i - Len(s) \in 1..Len(t) /\ j - Len(s) \in 1..Len(t)
              /\ t[i - Len(s)] = t[j - Len(s)]
            BY <1>1, <2>2
        <3>2. i - Len(s) = j - Len(s)
            BY <1>2, <3>1 DEF IsInjective
        <3> QED
            BY <1>1, <3>2
    <2>3. ASSUME NEW k \in 1..(Len(s) + Len(t)), NEW m \in 1..(Len(s) + Len(t)),
                 k <= Len(s), m > Len(s), (s \o t)[k] = (s \o t)[m]
          PROVE  FALSE
        <3>1. k \in 1..Len(s) /\ m - Len(s) \in 1..Len(t) /\ s[k] = t[m - Len(s)]
            BY <1>1, <2>3
        <3> QED
            BY <1>2, <3>1 DEF ToSet
    <2> QED
        BY <1>1, <2>1, <2>2, <2>3
<1> QED
    BY <1>1, <1>3, <1>4

\* What is left of a list without repeats when its last element is taken off.
LEMMA FrontAndLast ==
    ASSUME NEW T, NEW s \in Seq(T), s # <<>>, IsInjective(s)
    PROVE  /\ Front(s) \in Seq(T) /\ Last(s) \in T
           /\ IsInjective(Front(s))
           /\ Last(s) \in ToSet(s)
           /\ ToSet(Front(s)) = ToSet(s) \ {Last(s)}
<1>1. Len(s) \in Nat \ {0} /\ DOMAIN s = 1..Len(s) /\ \A i \in 1..Len(s) : s[i] \in T
    BY EmptySeq, LenProperties, ElementOfSeq
<1>2. Last(s) \in T /\ Last(s) \in ToSet(s)
    BY <1>1 DEF Last, ToSet
<1>3. /\ Front(s) \in Seq(T) /\ Len(Front(s)) = Len(s) - 1
      /\ \A i \in 1..(Len(s) - 1) : Front(s)[i] = s[i]
    <2>1. 1 \in Int /\ Len(s) - 1 \in Int /\ \A i \in 1..(Len(s) - 1) : s[i] \in T
        BY <1>1
    <2>2. /\ SubSeq(s, 1, Len(s) - 1) \in Seq(T)
          /\ Len(SubSeq(s, 1, Len(s) - 1)) =
                (IF 1 <= Len(s) - 1 THEN (Len(s) - 1) - 1 + 1 ELSE 0)
          /\ \A i \in 1..((Len(s) - 1) - 1 + 1) :
                SubSeq(s, 1, Len(s) - 1)[i] = s[1 + i - 1]
        BY <2>1, SubSeqProperties, SMTT(30)
    <2> QED
        BY <1>1, <2>2 DEF Front
<1>4. DOMAIN Front(s) = 1..(Len(s) - 1)
    BY <1>3, LenProperties
<1>5. IsInjective(Front(s))
    BY <1>1, <1>3, <1>4 DEF IsInjective
<1>6. ToSet(Front(s)) = ToSet(s) \ {Last(s)}
    <2>1. ASSUME NEW i \in 1..(Len(s) - 1) PROVE s[i] # s[Len(s)]
        BY <1>1, <2>1 DEF IsInjective
    <2>2. ASSUME NEW i \in 1..Len(s), s[i] # s[Len(s)] PROVE i \in 1..(Len(s) - 1)
        BY <1>1, <2>2
    <2> QED
        BY <1>1, <1>3, <1>4, <2>1, <2>2 DEF ToSet, Last
<1> QED
    BY <1>2, <1>3, <1>5, <1>6

-------------------------------------------------------------------------------
\* A fresh pool satisfies the inductive invariant.
THEOREM InitPoolInv == PoolInit => PoolInv
<1> SUFFICES ASSUME PoolInit PROVE PoolInv
    OBVIOUS
<1>1. PoolTypeOK
    <2>1. queue \in Seq(Tiles) /\ asks \in 0..MaxAsks /\ fails \in 0..MaxSpawnFails
        BY PoolBounds, EmptySeq DEF PoolInit
    <2>2. idle \in [Slots -> 0..IdleLimit]
        BY PoolBounds DEF PoolInit
    <2> QED
        BY <2>1, <2>2 DEF PoolInit, PoolTypeOK, Places
<1>2. \A S : "none" \notin S => PoolAt(S) = {}
    BY DEF PoolInit, PoolAt
<1>3. PoolAt(Badged) = {} /\ PoolAt({"serve", "answered"}) = {}
    BY <1>2 DEF Badged
<1>4. AliveMatches
    BY <1>1, <1>3, BadgesAreCounted, FS_EmptySet DEF PoolInit, Badges
<1>5. AskInOnePlace
    <2>1. ToSet(queue) = {} /\ IsInjective(queue)
        BY DEF PoolInit, ToSet, IsInjective
    <2>2. in_flight = Cardinality(PoolAt({"serve", "answered"}))
        BY <1>3, FS_EmptySet DEF PoolInit
    <2> QED
        BY <2>1, <2>2, NoTileIsNone DEF PoolInit, AskInOnePlace
<1>6. NotStranded /\ NoJobAfterFree
    BY DEF PoolInit, NotStranded, NoJobAfterFree
<1>7. Parked = {}
    BY DEF PoolInit, Parked
<1>8. PlacesAgree
    BY <1>7, FS_EmptySet DEF PoolInit, PlacesAgree
<1> QED
    BY <1>1, <1>4, <1>5, <1>6, <1>8 DEF PoolInv, PoolAddsUp

\* The frame thread's and charttable's steps leave every worker where it is.
LEMMA SameWorkers ==
    spot' = spot => \A S : PoolAt(S)' = PoolAt(S)
BY DEF PoolAt

\* charttable parks an ask.
LEMMA AskKeeps == ASSUME PoolInv, NEW a \in Tiles, Ask(a) PROVE PoolInv'
<1> USE DEF PoolInv, PoolAddsUp
<1>1. PoolTypeOK'
    <2>1. asks' \in 0..MaxAsks
        BY PoolBounds DEF Ask, PoolTypeOK
    <2> QED
        BY <2>1 DEF Ask, PoolTypeOK, poolVars, workerVars
<1>2. \A S : PoolAt(S)' = PoolAt(S)
    BY SameWorkers DEF Ask, workerVars
<1>3. AliveMatches' /\ NotStranded' /\ NoJobAfterFree'
    BY <1>2 DEF Ask, poolVars, AliveMatches, NotStranded, NoJobAfterFree
<1>4. AskInOnePlace'
    BY <1>2 DEF Ask, poolVars, workerVars, PoolTypeOK, AskInOnePlace
<1>5. Parked' = Parked \cup {a}
    BY DEF Ask, PoolTypeOK, Parked
<1>6. PlacesAgree'
    BY <1>2, <1>5, FS_AddElement DEF Ask, poolVars, workerVars, PlacesAgree
<1> QED
    BY <1>1, <1>3, <1>4, <1>6

\* pump moves the parked asks onto the queue, where none of them was.
LEMMA PumpKeeps == ASSUME PoolInv, Pump PROVE PoolInv'
<1> USE DEF PoolInv, PoolAddsUp
<1> DEFINE q == SetToSeq(Parked)
<1>1. q \in Seq(Parked) /\ IsInjective(q) /\ ToSet(q) = Parked
    BY SetToSeqOfFinite DEF PlacesAgree
<1>2. q \in Seq(Tiles)
    BY <1>1, SeqMonotonic DEF Parked
<1>3. ToSet(queue) \cap ToSet(q) = {}
    BY <1>1 DEF AskInOnePlace, Parked
<1>4. /\ queue' \in Seq(Tiles) /\ IsInjective(queue')
      /\ ToSet(queue') = ToSet(queue) \cup Parked
    BY <1>1, <1>2, <1>3, ConcatInjective DEF Pump, PoolTypeOK, AskInOnePlace
<1>5. PoolTypeOK'
    BY <1>4 DEF Pump, PoolTypeOK, workerVars, bounds
<1>6. \A S : PoolAt(S)' = PoolAt(S)
    BY SameWorkers DEF Pump, workerVars
<1>7. AliveMatches' /\ NotStranded' /\ NoJobAfterFree'
    BY <1>6 DEF Pump, AliveMatches, NotStranded, NoJobAfterFree
<1>8. \A a \in Tiles : /\ tile'[a] = "queued" <=> tile[a] = "queued" \/ a \in Parked
                       /\ tile'[a] = "taken" <=> tile[a] = "taken"
    BY DEF Pump, Parked
<1>9. AskInOnePlace'
    BY <1>4, <1>6, <1>8 DEF Pump, workerVars, AskInOnePlace
<1>10. Parked' = {}
    BY DEF Pump, Parked
<1>11. PlacesAgree'
    BY <1>6, <1>10, FS_EmptySet DEF Pump, workerVars, PlacesAgree
<1> QED
    BY <1>5, <1>7, <1>9, <1>11

\* The steps of the frame thread that move no ask: what is left to say of them is
\* the badge count, whether an ask is stranded, and what is freed.
LEMMA AsksStay ==
    ASSUME PoolInv, UNCHANGED <<tile, queue, in_flight, job, spot>>
    PROVE  AskInOnePlace' /\ Parked' = Parked /\ (\A S : PoolAt(S)' = PoolAt(S))
BY SameWorkers DEF PoolInv, PoolAddsUp, AskInOnePlace, Parked

\* bindComposed calls start.
LEMMA BindKeeps == ASSUME PoolInv, Bind PROVE PoolInv'
<1>1. AskInOnePlace' /\ Parked' = Parked /\ (\A S : PoolAt(S)' = PoolAt(S))
    BY AsksStay DEF Bind, poolVars, workerVars
<1> QED
    BY <1>1 DEF PoolInv, PoolAddsUp, Bind, poolVars, workerVars, bounds, PoolTypeOK,
        AliveMatches,
                NotStranded, NoJobAfterFree, PlacesAgree

\* start goes home only when the pool is full, so that someone is up.
LEMMA StartCheckKeeps == ASSUME PoolInv, StartCheck PROVE PoolInv'
<1> USE DEF PoolInv, PoolAddsUp
<1>1. AskInOnePlace' /\ Parked' = Parked /\ (\A S : PoolAt(S)' = PoolAt(S))
    BY AsksStay DEF StartCheck, workerVars
<1>2. PoolTypeOK'
    BY DEF StartCheck, workerVars, bounds, PoolTypeOK
<1>3. AliveMatches'
    BY <1>1, <1>2, BadgesAreCounted DEF StartCheck, Badges
<1>4. NotStranded'
    <2> SUFFICES ASSUME fpc' = "idle" PROVE PoolAt(Places \ {"none"}) # {}
        BY <1>1 DEF NotStranded
    <2>1. Badges >= Want
        BY PoolBounds, BadgesAreCounted DEF StartCheck, PoolTypeOK
    <2>2. PoolAt(Badged) # {}
        BY <2>1, PoolBounds, FS_EmptySet DEF Badges
    <2> QED
        BY <2>2 DEF PoolAt, Badged, Places
<1>5. NoJobAfterFree' /\ PlacesAgree'
    BY <1>1 DEF StartCheck, workerVars, NoJobAfterFree, PlacesAgree
<1> QED
    BY <1>1, <1>2, <1>3, <1>4, <1>5

\* The system refuses the thread: its badge is taken back.
LEMMA SpawnFailKeeps == ASSUME PoolInv, SpawnFail PROVE PoolInv'
<1> USE DEF PoolInv, PoolAddsUp
<1>1. AskInOnePlace' /\ Parked' = Parked /\ (\A S : PoolAt(S)' = PoolAt(S))
    BY AsksStay DEF SpawnFail, workerVars
<1>2. alive = Badges + 1 /\ Badges \in Nat
    BY BadgesAreCounted DEF SpawnFail
<1>3. PoolTypeOK'
    BY <1>2, PoolBounds DEF SpawnFail, workerVars, PoolTypeOK
<1>4. AliveMatches'
    BY <1>1, <1>2, <1>3, BadgesAreCounted DEF SpawnFail, Badges
<1>5. NotStranded' /\ NoJobAfterFree' /\ PlacesAgree'
    BY <1>1 DEF SpawnFail, workerVars, PoolTypeOK, NotStranded, NoJobAfterFree, PlacesAgree
<1> QED
    BY <1>1, <1>3, <1>4, <1>5

\* deinit begins.
LEMMA CloseKeeps == ASSUME PoolInv, Close PROVE PoolInv'
<1>1. AskInOnePlace' /\ Parked' = Parked /\ (\A S : PoolAt(S)' = PoolAt(S))
    BY AsksStay DEF Close, workerVars
<1> QED
    BY <1>1 DEF PoolInv, PoolAddsUp, Close, workerVars, bounds, PoolTypeOK, AliveMatches,
                NotStranded, NoJobAfterFree, PlacesAgree

\* The count is zero: nobody holds a badge, and who holds none holds no job.
LEMMA FreeKeeps == ASSUME PoolInv, Free PROVE PoolInv'
<1> USE DEF PoolInv, PoolAddsUp
<1>1. AskInOnePlace' /\ Parked' = Parked /\ (\A S : PoolAt(S)' = PoolAt(S))
    BY AsksStay DEF Free, workerVars
<1>2. PoolAt(Badged) = {}
    BY BadgesAreCounted, PoolAtIsFinite, FS_EmptySet DEF Free, Badges
<1>3. /\ PoolAt({"take", "starved", "serve", "answered"}) = {}
      /\ PoolAt({"take", "serve", "answered"}) = {} /\ PoolAt({"serve", "answered"}) = {}
    BY <1>2 DEF PoolAt, Badged
<1>4. in_flight = 0
    BY <1>3, FS_EmptySet DEF AskInOnePlace
<1>5. PoolTypeOK' /\ AliveMatches' /\ NotStranded'
    BY <1>1 DEF Free, workerVars, bounds, PoolTypeOK, AliveMatches, NotStranded
<1>6. NoJobAfterFree' /\ PlacesAgree'
    BY <1>1, <1>3, <1>4 DEF Free, workerVars, NoJobAfterFree, PlacesAgree
<1> QED
    BY <1>1, <1>5, <1>6

\* Nothing moves.
LEMMA EndedKeeps == ASSUME PoolInv, UNCHANGED tilePoolVars PROVE PoolInv'
<1>1. AskInOnePlace' /\ Parked' = Parked /\ (\A S : PoolAt(S)' = PoolAt(S))
    BY AsksStay DEF tilePoolVars, poolVars, workerVars
<1> QED
    BY <1>1 DEF PoolInv, PoolAddsUp, tilePoolVars, poolVars, workerVars, bounds, PoolTypeOK,
        AliveMatches,
                NotStranded, NoJobAfterFree, PlacesAgree

-------------------------------------------------------------------------------
\* A step of one worker that touches no ask, from and to places without a job.
LEMMA IdleMove ==
    ASSUME PoolInv, NEW w \in Slots, NEW p \in Places \ {"serve", "answered"},
           spot[w] \notin {"serve", "answered"}, Goto(w, p),
           UNCHANGED <<tile, queue, in_flight, job>>
    PROVE  AskInOnePlace' /\ Parked' = Parked
<1>1. Jobs' = Jobs
    BY JobsMove DEF PoolInv
<1> QED
    BY <1>1 DEF PoolInv, PoolAddsUp, AskInOnePlace, Parked, Jobs

\* The thread whose badge start counted is at its post.
LEMMA SpawnOkKeeps == ASSUME PoolInv, NEW w \in Slots, SpawnOk(w) PROVE PoolInv'
<1> USE DEF PoolInv, PoolAddsUp
<1>1. PoolTypeOK'
    BY PoolBounds DEF SpawnOk, poolVars, bounds, PoolTypeOK, Places
<1>2. Goto(w, "top")
    BY DEF SpawnOk, Goto
<1>3. Badges' = Badges + 1
    BY <1>2, BadgesMove, BadgesAreCounted DEF SpawnOk, Badged
<1>4. AliveMatches'
    BY <1>1, <1>3, BadgesAreCounted DEF SpawnOk, poolVars
<1>5. AskInOnePlace' /\ Parked' = Parked
    BY <1>2, IdleMove DEF SpawnOk, poolVars, Places
<1>6. \A S : "top" \notin S => PoolAt(S)' \subseteq PoolAt(S)
    BY <1>2 DEF PoolAt, Goto, PoolTypeOK
<1>7. NotStranded' /\ NoJobAfterFree'
    BY <1>6 DEF SpawnOk, poolVars, NotStranded, NoJobAfterFree
<1>8. PlacesAgree'
    BY <1>5, <1>6 DEF SpawnOk, poolVars, PoolTypeOK, PlacesAgree
<1> QED
    BY <1>1, <1>4, <1>5, <1>7, <1>8

\* A worker looks at stopping.
LEMMA TopKeeps == ASSUME PoolInv, NEW w \in Slots, Top(w) PROVE PoolInv'
<1> USE DEF PoolInv, PoolAddsUp
<1> DEFINE p == IF stopping THEN "leave" ELSE "take"
<1>1. PoolTypeOK'
    BY DEF Top, Goto, poolVars, bounds, PoolTypeOK, Places
<1>2. Goto(w, p)
    BY DEF Top
<1>3. Badges' = Badges
    BY <1>2, BadgesMove, BadgesAreCounted DEF Top, Badged
<1>4. AliveMatches'
    BY <1>1, <1>3, BadgesAreCounted DEF Top, poolVars
<1>5. AskInOnePlace' /\ Parked' = Parked
    BY <1>2, IdleMove DEF Top, poolVars, Places
<1>6. \A S : p \notin S => PoolAt(S)' \subseteq PoolAt(S)
    BY <1>2 DEF PoolAt, Goto, PoolTypeOK
<1>7. w \in PoolAt(Places \ {"none"})'
    BY <1>1, <1>2 DEF PoolAt, Goto, PoolTypeOK, Places
<1>8. freed => stopping
    BY DEF PlacesAgree
<1>9. NotStranded' /\ NoJobAfterFree'
    BY <1>6, <1>7, <1>8 DEF Top, poolVars, NotStranded, NoJobAfterFree
<1>10. PlacesAgree'
    BY <1>5, <1>6, <1>8 DEF Top, Goto, poolVars, PoolTypeOK, PlacesAgree
<1> QED
    BY <1>1, <1>4, <1>5, <1>9, <1>10

\* A worker takes the newest ask, or finds none.
LEMMA TakeKeeps == ASSUME PoolInv, NEW w \in Slots, Take(w) PROVE PoolInv'
<1> USE DEF PoolInv, PoolAddsUp
<1>0. freed = FALSE
    BY DEF Take, PlacesAgree, PoolTypeOK, PoolAt
<1>1. CASE queue = <<>>
    <2>1. PoolTypeOK'
        BY <1>1 DEF Take, Goto, bounds, PoolTypeOK, Places
    <2>2. Goto(w, "starved")
        BY <1>1 DEF Take
    <2>3. Badges' = Badges
        BY <2>2, BadgesMove, BadgesAreCounted DEF Take, Badged
    <2>4. AliveMatches'
        BY <2>1, <2>3, BadgesAreCounted DEF Take
    <2>5. AskInOnePlace' /\ Parked' = Parked
        BY <1>1, <2>2, IdleMove DEF Take, Places
    <2>6. NotStranded' /\ NoJobAfterFree'
        BY <1>0, <1>1 DEF Take, NotStranded, NoJobAfterFree
    <2>7. PlacesAgree'
        BY <1>0, <1>1, <2>5 DEF Take, Goto, PoolTypeOK, PlacesAgree
    <2> QED
        BY <2>1, <2>4, <2>5, <2>6, <2>7
<1>2. CASE queue # <<>>
    <2> DEFINE t == Last(queue)
    <2>1. /\ Front(queue) \in Seq(Tiles) /\ t \in Tiles /\ IsInjective(Front(queue))
          /\ t \in ToSet(queue) /\ ToSet(Front(queue)) = ToSet(queue) \ {t}
        BY <1>2, FrontAndLast DEF PoolTypeOK, AskInOnePlace
    <2>2. /\ Goto(w, "serve") /\ spot[w] = "take"
          /\ job' = [job EXCEPT ![w] = t] /\ queue' = Front(queue)
          /\ tile' = [tile EXCEPT ![t] = "taken"] /\ in_flight' = in_flight + 1
          /\ idle' = [idle EXCEPT ![w] = 0]
          /\ UNCHANGED <<alive, stopping, freed, fpc, bounds>>
        BY <1>2 DEF Take
    <2>3. PoolTypeOK'
        BY <2>1, <2>2, PoolBounds DEF Goto, bounds, PoolTypeOK, Places
    <2>4. Badges' = Badges
        BY <2>2, BadgesMove, BadgesAreCounted DEF Badged
    <2>5. AliveMatches'
        BY <2>2, <2>3, <2>4, BadgesAreCounted
    <2>6. tile[t] = "queued" /\ job[w] = NoTile /\ \A v \in Slots : job[v] # t
        BY <2>1, <2>2 DEF AskInOnePlace, PlacesAgree
    <2>7. \A v \in Slots : job'[v] = IF v = w THEN t ELSE job[v]
        BY <2>2 DEF PoolTypeOK
    <2>8. \A a \in Tiles : tile'[a] = IF a = t THEN "taken" ELSE tile[a]
        BY <2>2 DEF PoolTypeOK
    <2>9. in_flight' = Cardinality(PoolAt({"serve", "answered"}))'
        BY <2>2, JobsMove DEF AskInOnePlace, Jobs
    <2>10. AskInOnePlace'
        <3>1. \A a \in Tiles : tile'[a] = "queued" <=> a \in ToSet(queue')
            BY <2>1, <2>2, <2>8 DEF AskInOnePlace
        <3>2. \A a \in Tiles : tile'[a] = "taken" <=> \E v \in Slots : job'[v] = a
            <4>1. \A a \in Tiles : tile[a] = "taken" <=> \E v \in Slots : job[v] = a
            BY DEF AskInOnePlace
        <4>2. \A a \in Tiles : job[w] # a
            BY <2>6, NoTileIsNone
        <4> QED
            BY <2>6, <2>7, <2>8, <4>1, <4>2
        <3>3. \A v, u \in Slots : job'[v] = job'[u] => v = u \/ job'[v] = NoTile
            BY <2>6, <2>7 DEF AskInOnePlace
        <3> QED
            BY <2>1, <2>2, <2>9, <3>1, <3>2, <3>3 DEF AskInOnePlace
    <2>11. Parked' = Parked
        BY <2>6, <2>8 DEF Parked
    <2>12. NotStranded' /\ NoJobAfterFree'
        <3>1. w \in PoolAt(Places \ {"none"})'
            BY <2>2 DEF PoolAt, Goto, PoolTypeOK, Places
        <3> QED
            BY <1>0, <2>2, <3>1 DEF NotStranded, NoJobAfterFree
    <2>13. PlacesAgree'
        BY <1>0, <2>1, <2>2, <2>7, <2>11, NoTileIsNone DEF Goto, PoolTypeOK, PlacesAgree
    <2> QED
        BY <2>3, <2>5, <2>10, <2>12, <2>13
<1> QED
    BY <1>1, <1>2

\* A worker that found nothing sleeps once more.
LEMMA SleepKeeps == ASSUME PoolInv, NEW w \in Slots, Sleep(w) PROVE PoolInv'
<1> USE DEF PoolInv, PoolAddsUp
<1>0. freed = FALSE
    BY DEF Sleep, PlacesAgree, PoolTypeOK, PoolAt
<1>1. PoolTypeOK'
    <2>1. idle[w] + 1 \in 0..IdleLimit
        BY PoolBounds DEF Sleep, PoolTypeOK
    <2> QED
        BY <2>1 DEF Sleep, Goto, poolVars, bounds, PoolTypeOK, Places
<1>2. Goto(w, "top")
    BY DEF Sleep
<1>3. Badges' = Badges
    BY <1>2, BadgesMove, BadgesAreCounted DEF Sleep, Badged
<1>4. AliveMatches'
    BY <1>1, <1>3, BadgesAreCounted DEF Sleep, poolVars
<1>5. AskInOnePlace' /\ Parked' = Parked
    BY <1>2, IdleMove DEF Sleep, poolVars, Places
<1>6. w \in PoolAt(Places \ {"none"})'
    BY <1>2 DEF PoolAt, Goto, PoolTypeOK, Places
<1>7. NotStranded' /\ NoJobAfterFree'
    BY <1>0, <1>6 DEF Sleep, poolVars, NotStranded, NoJobAfterFree
<1>8. PlacesAgree'
    BY <1>0, <1>5 DEF Sleep, Goto, poolVars, PoolTypeOK, PlacesAgree
<1> QED
    BY <1>1, <1>4, <1>5, <1>7, <1>8

\* The last one out stays to look at the queue; where it is not the last, another
\* one still holds a badge.
LEMMA StandDownKeeps == ASSUME PoolInv, NEW w \in Slots, StandDown(w) PROVE PoolInv'
<1> USE DEF PoolInv, PoolAddsUp
<1> DEFINE p == IF alive = 1 THEN "recheck" ELSE "none"
<1>0. freed = FALSE
    BY DEF StandDown, PlacesAgree, PoolTypeOK, PoolAt
<1>1. Goto(w, p) /\ spot[w] = "starved"
    BY DEF StandDown
<1>2. w \in PoolAt(Badged)
    BY <1>1 DEF PoolAt, Badged
<1>3. Badges \in Nat \ {0}
    BY <1>2, PoolAtIsFinite, FS_EmptySet DEF Badges
<1>4. PoolTypeOK'
    <2>1. alive' \in Nat
        BY <1>3, BadgesAreCounted DEF StandDown, PoolTypeOK
    <2> QED
        BY <2>1 DEF StandDown, Goto, bounds, PoolTypeOK, Places
<1>5. Badges' = Badges - 1
    BY <1>1, BadgesMove, BadgesAreCounted DEF Badged
<1>6. AliveMatches'
    BY <1>3, <1>4, <1>5, BadgesAreCounted DEF StandDown
<1>7. AskInOnePlace' /\ Parked' = Parked
    BY <1>1, IdleMove DEF StandDown, Places
<1>8. NotStranded'
    <2> SUFFICES ASSUME fpc = "idle" PROVE PoolAt(Places \ {"none"})' # {}
        BY DEF StandDown, NotStranded
    <2>1. CASE alive = 1
        BY <1>1, <2>1 DEF PoolAt, Goto, PoolTypeOK, Places
    <2>2. CASE alive # 1
        <3>1. alive = Badges /\ Badges' # 0
            BY <1>3, <1>5, <2>2, BadgesAreCounted
        <3>2. PoolAt(Badged)' # {}
            BY <3>1, FS_EmptySet DEF Badges
        <3> QED
            BY <3>2 DEF PoolAt, Badged, Places
    <2> QED
        BY <2>1, <2>2
<1>9. NoJobAfterFree' /\ PlacesAgree'
    BY <1>0, <1>7 DEF StandDown, Goto, PoolTypeOK, NoJobAfterFree, PlacesAgree
<1> QED
    BY <1>4, <1>6, <1>7, <1>8, <1>9

\* Who finds the queue empty may go; who does not is still there to rejoin.
LEMMA RecheckKeeps == ASSUME PoolInv, NEW w \in Slots, Recheck(w) PROVE PoolInv'
<1> USE DEF PoolInv, PoolAddsUp
<1> DEFINE p == IF queue # <<>> THEN "rejoin" ELSE "none"
<1>1. Goto(w, p) /\ spot[w] = "recheck"
    BY DEF Recheck
<1>2. PoolTypeOK'
    BY DEF Recheck, Goto, poolVars, bounds, PoolTypeOK, Places
<1>3. Badges' = Badges
    BY <1>1, BadgesMove, BadgesAreCounted DEF Badged
<1>4. AliveMatches'
    BY <1>2, <1>3, BadgesAreCounted DEF Recheck, poolVars
<1>5. AskInOnePlace' /\ Parked' = Parked
    BY <1>1, IdleMove DEF Recheck, poolVars, Places
<1>6. queue # <<>> => w \in PoolAt(Places \ {"none"})'
    BY <1>1 DEF PoolAt, Goto, PoolTypeOK, Places
<1>7. \A S : p \notin S => PoolAt(S)' \subseteq PoolAt(S)
    BY <1>1 DEF PoolAt, Goto, PoolTypeOK
<1>8. NotStranded' /\ NoJobAfterFree'
    BY <1>6, <1>7 DEF Recheck, poolVars, NotStranded, NoJobAfterFree
<1>9. PlacesAgree'
    BY <1>5, <1>7 DEF Recheck, Goto, poolVars, PoolTypeOK, PlacesAgree
<1> QED
    BY <1>2, <1>4, <1>5, <1>8, <1>9

\* The last one out takes its badge back.
LEMMA RejoinKeeps == ASSUME PoolInv, NEW w \in Slots, Rejoin(w) PROVE PoolInv'
<1> USE DEF PoolInv, PoolAddsUp
<1>1. Goto(w, "top") /\ spot[w] = "rejoin"
    BY DEF Rejoin, Goto
<1>2. PoolTypeOK'
    BY PoolBounds DEF Rejoin, Goto, bounds, PoolTypeOK, Places
<1>3. Badges' = Badges + 1
    BY <1>1, BadgesMove, BadgesAreCounted DEF Badged
<1>4. AliveMatches'
    BY <1>2, <1>3, BadgesAreCounted DEF Rejoin, PoolTypeOK
<1>5. AskInOnePlace' /\ Parked' = Parked
    BY <1>1, IdleMove DEF Rejoin, Places
<1>6. w \in PoolAt(Places \ {"none"})'
    BY <1>1 DEF PoolAt, Goto, PoolTypeOK, Places
<1>7. \A S : "top" \notin S => PoolAt(S)' \subseteq PoolAt(S)
    BY <1>1 DEF PoolAt, Goto, PoolTypeOK
<1>8. NotStranded' /\ NoJobAfterFree'
    BY <1>6, <1>7 DEF Rejoin, NotStranded, NoJobAfterFree
<1>9. PlacesAgree'
    BY <1>5, <1>7 DEF Rejoin, Goto, PoolTypeOK, PlacesAgree
<1> QED
    BY <1>2, <1>4, <1>5, <1>8, <1>9

\* A worker answers the tile in its hands.
LEMMA RespondKeeps == ASSUME PoolInv, NEW w \in Slots, Respond(w) PROVE PoolInv'
<1> USE DEF PoolInv, PoolAddsUp
<1>0. freed = FALSE
    BY DEF Respond, PlacesAgree, PoolTypeOK, PoolAt
<1> DEFINE t == job[w]
<1>1. Goto(w, "answered") /\ spot[w] = "serve"
    BY DEF Respond
<1>2. t \in Tiles /\ tile[t] = "taken" /\ t # NoTile
    BY <1>1, NoTileIsNone DEF PlacesAgree, PoolTypeOK, AskInOnePlace
<1>3. PoolTypeOK'
    BY <1>2 DEF Respond, Goto, poolVars, bounds, PoolTypeOK, Places
<1>4. Badges' = Badges /\ Jobs' = Jobs
    BY <1>1, BadgesMove, BadgesAreCounted, JobsMove DEF Badged
<1>5. AliveMatches'
    BY <1>3, <1>4, BadgesAreCounted DEF Respond, poolVars
<1>6. \A v \in Slots : job'[v] = IF v = w THEN NoTile ELSE job[v]
    BY DEF Respond, PoolTypeOK
<1>7. \A a \in Tiles : tile'[a] = IF a = t THEN "answered" ELSE tile[a]
    BY DEF Respond, PoolTypeOK
<1>8. AskInOnePlace'
    <2>1. \A a \in Tiles : tile'[a] = "queued" <=> a \in ToSet(queue)
        BY <1>2, <1>7 DEF AskInOnePlace
    <2>2. \A a \in Tiles : tile'[a] = "taken" <=> \E v \in Slots : job'[v] = a
        <3>1. \A v \in Slots : job[v] = t => v = w
            BY <1>2 DEF AskInOnePlace
        <3>2. \A a \in Tiles : tile[a] = "taken" <=> \E v \in Slots : job[v] = a
            BY DEF AskInOnePlace
        <3>3. NoTile \notin Tiles
            BY NoTileIsNone
        <3> QED
            BY <1>6, <1>7, <3>1, <3>2, <3>3
    <2>3. \A v, u \in Slots : job'[v] = job'[u] => v = u \/ job'[v] = NoTile
        BY <1>6 DEF AskInOnePlace
    <2> QED
        BY <1>4, <2>1, <2>2, <2>3 DEF Respond, poolVars, AskInOnePlace, Jobs
<1>9. Parked' = Parked
    BY <1>2, <1>7 DEF Parked
<1>10. w \in PoolAt(Places \ {"none"})'
    BY <1>1 DEF PoolAt, Goto, PoolTypeOK, Places
<1>11. NotStranded' /\ NoJobAfterFree'
    BY <1>0, <1>10 DEF Respond, poolVars, NotStranded, NoJobAfterFree
<1>12. PlacesAgree'
    BY <1>0, <1>6, <1>9 DEF Respond, Goto, poolVars, PoolTypeOK, PlacesAgree
<1> QED
    BY <1>3, <1>5, <1>8, <1>11, <1>12

\* The in_flight decrement behind the answer.
LEMMA FinishKeeps == ASSUME PoolInv, NEW w \in Slots, Finish(w) PROVE PoolInv'
<1> USE DEF PoolInv, PoolAddsUp
<1>0. freed = FALSE
    BY DEF Finish, PlacesAgree, PoolTypeOK, PoolAt
<1>1. Goto(w, "top") /\ spot[w] = "answered"
    BY DEF Finish
<1>2. Badges' = Badges /\ Jobs' = Jobs - 1
    BY <1>1, BadgesMove, BadgesAreCounted, JobsMove DEF Badged
<1>3. in_flight = Jobs /\ Jobs' \in Nat
    <2>1. w \in PoolAt({"serve", "answered"})
        BY <1>1 DEF PoolAt
    <2>2. Jobs \in Nat \ {0}
        BY <2>1, PoolAtIsFinite, FS_EmptySet DEF Jobs
    <2> QED
        BY <1>2, <2>2 DEF AskInOnePlace, Jobs
<1>4. PoolTypeOK'
    BY <1>2, <1>3 DEF Finish, Goto, bounds, PoolTypeOK, Places
<1>5. AliveMatches'
    BY <1>2, <1>4, BadgesAreCounted DEF Finish
<1>6. AskInOnePlace'
    BY <1>2, <1>3 DEF Finish, AskInOnePlace, Jobs
<1>7. Parked' = Parked
    BY DEF Finish, Parked
<1>8. w \in PoolAt(Places \ {"none"})'
    BY <1>1 DEF PoolAt, Goto, PoolTypeOK, Places
<1>9. NotStranded' /\ NoJobAfterFree'
    BY <1>0, <1>8 DEF Finish, NotStranded, NoJobAfterFree
<1>10. PlacesAgree'
    BY <1>0, <1>7 DEF Finish, Goto, PoolTypeOK, PlacesAgree
<1> QED
    BY <1>4, <1>5, <1>6, <1>9, <1>10

\* A worker leaves when deinit has begun, and then the frame thread is not at home.
LEMMA LeaveKeeps == ASSUME PoolInv, NEW w \in Slots, Leave(w) PROVE PoolInv'
<1> USE DEF PoolInv, PoolAddsUp
<1>1. Goto(w, "none") /\ spot[w] = "leave"
    BY DEF Leave
<1>2. w \in PoolAt(Badged)
    BY <1>1 DEF PoolAt, Badged
<1>3. Badges \in Nat \ {0}
    BY <1>2, PoolAtIsFinite, FS_EmptySet DEF Badges
<1>4. PoolTypeOK'
    <2>1. alive' \in Nat
        BY <1>3, BadgesAreCounted DEF Leave, PoolTypeOK
    <2> QED
        BY <2>1 DEF Leave, Goto, bounds, PoolTypeOK, Places
<1>5. Badges' = Badges - 1
    BY <1>1, BadgesMove, BadgesAreCounted DEF Badged
<1>6. AliveMatches'
    BY <1>3, <1>4, <1>5, BadgesAreCounted DEF Leave
<1>7. AskInOnePlace' /\ Parked' = Parked
    BY <1>1, IdleMove DEF Leave, Places
<1>8. \A S : "none" \notin S => PoolAt(S)' \subseteq PoolAt(S)
    BY <1>1 DEF PoolAt, Goto, PoolTypeOK
<1>9. NotStranded' /\ NoJobAfterFree'
    BY <1>1, <1>8 DEF Leave, NotStranded, NoJobAfterFree, PlacesAgree
<1>10. PlacesAgree'
    BY <1>7, <1>8 DEF Leave, Goto, PoolTypeOK, PlacesAgree
<1> QED
    BY <1>4, <1>6, <1>7, <1>9, <1>10

-------------------------------------------------------------------------------
\* Every step of the frame thread, of charttable and of a worker (ct/tiles.zig) keeps it.
THEOREM NextPoolInv == PoolInv /\ [PoolNext]_tilePoolVars => PoolInv'
<1> SUFFICES ASSUME PoolInv, [PoolNext]_tilePoolVars PROVE PoolInv'
    OBVIOUS
<1>1. ASSUME NEW a \in Tiles, Ask(a) PROVE PoolInv'
    BY <1>1, AskKeeps
<1>2. CASE Pump \/ Bind \/ StartCheck \/ SpawnFail \/ Close \/ Free
    BY <1>2, PumpKeeps, BindKeeps, StartCheckKeeps, SpawnFailKeeps, CloseKeeps, FreeKeeps
<1>3. ASSUME NEW w \in Slots, SpawnOk(w) PROVE PoolInv'
    BY <1>3, SpawnOkKeeps
<1>4. ASSUME NEW w \in Slots, Work(w) PROVE PoolInv'
    BY <1>4, TopKeeps, TakeKeeps, SleepKeeps, StandDownKeeps, RecheckKeeps, RejoinKeeps,
       RespondKeeps, FinishKeeps, LeaveKeeps DEF Work
<1>5. CASE Ended \/ UNCHANGED tilePoolVars
    BY <1>5, EndedKeeps DEF Ended
<1> QED
    BY <1>1, <1>2, <1>3, <1>4, <1>5 DEF PoolNext

\* The inductive invariant holds in every reachable state of the pool.
THEOREM PoolInvHolds == PoolSpec => []PoolInv
BY InitPoolInv, NextPoolInv, PTL DEF PoolSpec

\* The pool's variables keep their types; in particular neither the count of workers nor
\* that of jobs in flight goes below zero.
THEOREM PoolTypeHolds == PoolSpec => []PoolTypeOK
BY PoolInvHolds, PTL DEF PoolInv

\* The pool's books are true whatever its size: the count is the badges held, each ask is
\* in one place, none is left to nobody, and deinit frees nothing under a job; of a worker
\* that stands down without one, and still looks at the queue, nothing is said.
THEOREM PoolHolds == PoolSpec => []PoolAddsUp
BY PoolInvHolds, PTL DEF PoolInv
===============================================================================
