------------------------------ MODULE EngineLock ------------------------------
(***************************************************************************)
(* The engine lock with the tile workers and the exclusive callers the api *)
(* lock lets through (RwLock), and the library whose composition that lock *)
(* guards, with the threads that add charts and its tile workers           *)
(* (Recompose, over the contract the lock is shown to keep).               *)
(* The library is composed over the contract, not over the lock's steps,   *)
(* so a behaviour is of one of the two: the lock's are beside a library    *)
(* that is shut, the library's beside a lock nobody takes.                 *)
(***************************************************************************)
EXTENDS RwLock

CONSTANTS Adders, Frame, Workers, FirstCharts, MaxAdds, NoOne     \* Recompose's

VARIABLES
    part,   \* whose behaviour this is
    \* of the library, as Recompose names them
    api, place, block, after, adding, adds, charts, compose, prev, result, rebuilding,
    builder, failed, tilesCompose, source, held, wpc, covers, closed, shut

L == INSTANCE Recompose WITH pc <- place

ASSUME LibraryConstants == L!RecomposeConstants

library == <<api, place, block, after, adding, adds, charts, compose, prev, result,
             rebuilding, builder, failed, tilesCompose, source, held, wpc, covers, closed,
             shut>>

\* A library that held nothing, closed.
LibraryShut ==
    /\ charts = 0 /\ api = NoOne /\ place = [c \in L!Callers |-> "out"]
    /\ block = [c \in L!Callers |-> TRUE] /\ after = [c \in L!Callers |-> "deinit"]
    /\ adding = FALSE /\ adds = 0
    /\ compose = 0 /\ prev = 0 /\ result = 0
    /\ rebuilding = FALSE /\ builder = "none" /\ failed = FALSE
    /\ covers = <<>> /\ closed = {} /\ tilesCompose = 0 /\ source = "none"
    /\ held = [w \in Workers |-> 0] /\ wpc = [w \in Workers |-> "idle"]
    /\ shut = TRUE

BothInit ==
    /\ Init
    /\ \/ part = "lock" /\ LibraryShut
       \/ part = "library" /\ L!Init

BothNext ==
    /\ \/ part = "lock" /\ Next /\ UNCHANGED library
       \/ part = "library" /\ L!Next /\ UNCHANGED vars
    /\ UNCHANGED part

\* Each part's fairness asks for nothing of the other: a lock nobody takes and a library
\* that is shut have no step to take.
BothSpec == BothInit /\ [][BothNext]_<<vars, library, part>> /\ Fairness /\ L!Fairness

-------------------------------------------------------------------------------

\* The chart list is quiet while a builder reads it, the composition in use is open,
\* none is leaked, every chart gets composed, and each variable keeps its type (Recompose).
CompositionIsSound == L!TypeOK /\ L!CompositionIsSound

\* A build that is done is adopted, however the callers come and go (Recompose).
BuildIsAdopted == L!BuildIsAdopted
===============================================================================
