---------------------------- MODULE ShellFetchProof ----------------------------
(***************************************************************************)
(* For any number of slots, workers, handles and requests, how the two     *)
(* desktop shells answer a chart handle's fetches.                         *)
(*                                                                         *)
(* Linux: the fetcher's variables keep their types, and its books are true *)
(* (FetcherAddsUp).  That an answer reaches its asker does not follow from *)
(* the request numbers, which the next handle uses again.  It follows from *)
(* the order of an open: what a handle's fetches may still answer is in    *)
(* the table, the open cancels all of the table, and so every fetch not    *)
(* cancelled is of the handle that is open (GenerationsAgree).             *)
(*                                                                         *)
(* Windows: a handle is safe from the window's threads (HandleIsSafe).     *)
(* There too the numbers begin anew with a handle, and it is the order of  *)
(* a close that keeps one handle's jobs from the next: the fetcher goes    *)
(* first and the requests with it, then the pool stops and every worker is *)
(* joined, then the render thread (WindowIsInOrder, PoolIsInOrder).  That  *)
(* nothing a mark cut off is taken follows from what a mark means: who     *)
(* marks a transfer has given its request up (AsksAreTrue).  A body that   *)
(* stops part way unmarked is taken, and nothing here says otherwise.      *)
(*                                                                         *)
(* At the end, for any hosts, any number of settings windows and any bound *)
(* on the list's rows, the panes of the plugins' settings on both shells,  *)
(* whatever the mariner does in them: what they show is what they edit,    *)
(* and an edit is on its way until the core and the store have it.  That a *)
(* save puts no older copy of the list back follows on Windows from the    *)
(* one copy there is, and on Linux from what a window notes: until another *)
(* one edits or saves it, what a window pushed last is what is saved, and  *)
(* a copy that differs from both is an edit on its way (LinuxHolds).       *)
(***************************************************************************)
EXTENDS MCShellFetch, MCShellPanes, FiniteSetTheorems, TLAPS

-------------------------------------------------------------------------------
(* Linux                                                                     *)

\* Behind the shutdown nothing is taken or kept; the open handle's numbers in the table
\* were given out; and every fetch that may still answer is of the open handle.
GenerationsAgree ==
    /\ dead <=> ~linked
    /\ live => linked
    /\ dead => \A i \in Ids : in_flight[i] = None
    /\ handle # 0 => \A i \in Ids : in_flight[i] # None => i < nextId
    /\ handle # 0 => \A s \in Slots :
          fetch[s] # None /\ ~fetch[s].cancelled => fetch[s].from = handle

\* The inductive invariant.
IInv == TypeOK /\ FetcherAddsUp /\ GenerationsAgree

\* The fetches that stand.
Standing == {s \in Slots : fetch[s] # None}

-------------------------------------------------------------------------------
\* There are as many fetches as slots at most, before a step and behind it.
LEMMA StandingIsFinite ==
    /\ IsFiniteSet(Standing) /\ Cardinality(Standing) \in Nat
    /\ IsFiniteSet(Standing') /\ Cardinality(Standing') \in Nat
<1>1. IsFiniteSet(Standing)
    BY FetchBounds, FS_Subset DEF Standing
<1>2. IsFiniteSet(Standing')
    BY FetchBounds, FS_Subset DEF Standing
<1> QED
    BY <1>1, <1>2, FS_CardinalityType

\* Where no fetch comes or goes, the holds stay right.
LEMMA SameHolds ==
    ASSUME HoldsAreCounted, refs' = refs, linked' = linked, Standing' = Standing
    PROVE  HoldsAreCounted'
BY DEF HoldsAreCounted, Standing

\* A fetch that is made takes a hold.
LEMMA OneHoldMore ==
    ASSUME TypeOK, HoldsAreCounted, NEW s \in Slots, NEW f, f # None, fetch[s] = None,
           fetch' = [fetch EXCEPT ![s] = f], refs' = refs + 1, linked' = linked
    PROVE  HoldsAreCounted'
<1>1. Standing' = Standing \cup {s} /\ s \notin Standing
    BY DEF TypeOK, Standing
<1>2. Cardinality(Standing') = Cardinality(Standing) + 1
    BY <1>1, StandingIsFinite, FS_AddElement
<1> QED
    BY <1>2, StandingIsFinite DEF HoldsAreCounted, Standing

\* lk_fetch_free gives its hold back.
LEMMA OneHoldLess ==
    ASSUME TypeOK, HoldsAreCounted, NEW s \in Slots, fetch[s] # None, FreeFetch(s),
           linked' = linked
    PROVE  HoldsAreCounted' /\ refs' \in Nat
<1>1. Standing' = Standing \ {s} /\ s \in Standing
    BY DEF TypeOK, Standing, FreeFetch
<1>2. Cardinality(Standing') = Cardinality(Standing) - 1
    BY <1>1, StandingIsFinite, FS_RemoveElement
<1>3. refs = Cardinality(Standing) + (IF linked THEN 1 ELSE 0)
    BY DEF HoldsAreCounted, Standing
<1>4. refs' = Cardinality(Standing') + (IF linked' THEN 1 ELSE 0)
    BY <1>2, <1>3, StandingIsFinite DEF FreeFetch
<1> QED
    BY <1>4, StandingIsFinite DEF HoldsAreCounted, Standing

\* A fetch that is cancelled.
Dropped(f) == [f EXCEPT !.cancelled = TRUE]

\* Cancelling a fetch leaves its number alone.
LEMMA DroppedIsCancelled ==
    ASSUME NEW f \in Fetches
    PROVE  /\ Dropped(f) \in Fetches /\ Dropped(f) # None
           /\ Dropped(f).cancelled /\ Dropped(f).id = f.id
<1>1. Dropped(f) \in Fetches /\ Dropped(f).cancelled /\ Dropped(f).id = f.id
    BY DEF Dropped, Fetches
<1> QED
    BY <1>1, NoneIsNone

\* lk_fetcher_cancel_all reaches every fetch that might still answer.
LEMMA CancelAllCancels ==
    ASSUME TypeOK, TableIsTrue, CancelAll
    PROVE  /\ fetch' \in [Slots -> Fetches \cup {None}]
           /\ in_flight' \in [Ids -> Slots \cup {None}]
           /\ \A s \in Slots : fetch'[s] # None => fetch'[s].cancelled
           /\ \A i \in Ids : in_flight'[i] = None
           /\ Standing' = Standing
<1>1. \A s \in Slots : (\E i \in Ids : in_flight[i] = s) => fetch[s] \in Fetches
    BY NoneIsNone DEF TypeOK, TableIsTrue
<1>2. \A s \in Slots : fetch[s] \in Fetches =>
         /\ Dropped(fetch[s]) \in Fetches /\ Dropped(fetch[s]) # None
         /\ Dropped(fetch[s]).cancelled
    BY DroppedIsCancelled
<1>3. \A s \in Slots : fetch'[s] =
         IF \E i \in Ids : in_flight[i] = s THEN Dropped(fetch[s]) ELSE fetch[s]
    BY DEF CancelAll, Dropped
<1>4. fetch' \in [Slots -> Fetches \cup {None}]
    BY <1>1, <1>2 DEF CancelAll, TypeOK, Dropped
<1>5. ASSUME NEW s \in Slots, fetch'[s] # None PROVE fetch'[s].cancelled
    <2>1. CASE \E i \in Ids : in_flight[i] = s
        BY <1>1, <1>2, <1>3, <2>1
    <2>2. CASE ~ \E i \in Ids : in_flight[i] = s
        <3>1. fetch'[s] = fetch[s]
            BY <1>3, <2>2
        <3>2. fetch[s] \in Fetches
            BY <1>5, <3>1 DEF TypeOK
        <3>3. fetch[s].id \in Ids
            BY <3>2 DEF Fetches
        <3> QED
            BY <1>5, <2>2, <3>1, <3>3 DEF TableIsTrue
    <2> QED
        BY <2>1, <2>2
<1>6. Standing' = Standing
    BY <1>1, <1>2, <1>3, NoneIsNone DEF Standing
<1> QED
    BY <1>4, <1>5, <1>6 DEF CancelAll

-------------------------------------------------------------------------------
\* The fetcher as it is made satisfies the inductive invariant.
THEOREM InitIInv == Init => IInv
<1> SUFFICES ASSUME Init PROVE IInv
    OBVIOUS
<1>1. TypeOK
    <2>1. /\ opens \in 0 .. MaxOpens /\ nextId \in 1 .. MaxIds + 1
          /\ asked \subseteq 1 .. nextId - 1
        BY FetchBounds DEF Init
    <2> QED
        BY <2>1 DEF Init, TypeOK
<1>2. TableIsTrue
    BY DEF Init, TableIsTrue
<1>3. Standing = {}
    BY DEF Init, Standing
<1>4. HoldsAreCounted
    BY <1>3, FS_EmptySet DEF Init, HoldsAreCounted, Standing
<1>5. AnswerReachesItsAsker /\ GenerationsAgree
    BY DEF Init, AnswerReachesItsAsker, GenerationsAgree
<1> QED
    BY <1>1, <1>2, <1>4, <1>5 DEF IInv, FetcherAddsUp

\* An open that succeeds.
LEMMA OpenKeeps == ASSUME IInv, Open PROVE IInv'
<1> USE DEF IInv, FetcherAddsUp
<1>1. /\ fetch' \in [Slots -> Fetches \cup {None}]
      /\ in_flight' \in [Ids -> Slots \cup {None}]
      /\ \A s \in Slots : fetch'[s] # None => fetch'[s].cancelled
      /\ \A i \in Ids : in_flight'[i] = None
      /\ Standing' = Standing
    BY CancelAllCancels DEF Open
<1>2. TypeOK'
    <2>1. /\ opens' \in 0 .. MaxOpens /\ handle' = opens' /\ nextId' \in 1 .. MaxIds + 1
          /\ asked' \subseteq 1 .. nextId' - 1
        BY FetchBounds DEF Open, NewHandle, TypeOK
    <2>2. old' \in {"keyfile", "core", "none"}
        BY DEF Open, Migrate, TypeOK
    <2> QED
        BY <1>1, <2>1, <2>2 DEF Open, NewHandle, TypeOK
<1>3. TableIsTrue'
    BY <1>1 DEF TableIsTrue
<1>4. HoldsAreCounted'
    BY <1>1, SameHolds DEF Open
<1>5. AnswerReachesItsAsker'
    BY DEF Open, AnswerReachesItsAsker
<1>6. GenerationsAgree'
    BY <1>1 DEF Open, NewHandle, GenerationsAgree
<1> QED
    BY <1>2, <1>3, <1>4, <1>5, <1>6

\* lk_chart_controller_close.
LEMMA CloseKeeps == ASSUME IInv, Close PROVE IInv'
<1> USE DEF IInv, FetcherAddsUp
<1>1. TypeOK'
    BY FetchBounds DEF Close, fetcher, TypeOK
<1>2. Standing' = Standing
    BY DEF Close, fetcher, Standing
<1>3. HoldsAreCounted'
    BY <1>2, SameHolds DEF Close, fetcher
<1>4. TableIsTrue' /\ AnswerReachesItsAsker' /\ GenerationsAgree'
    BY DEF Close, fetcher, TableIsTrue, AnswerReachesItsAsker, GenerationsAgree
<1> QED
    BY <1>1, <1>3, <1>4

\* lk_fetcher_http_get starts a request under a number no entry has.
LEMMA AskKeeps ==
    ASSUME IInv, NEW s \in Slots, NEW place \in {"send", "file"}, Ask(s, place) PROVE IInv'
<1> USE DEF IInv, FetcherAddsUp
<1> DEFINE f == [id |-> nextId, from |-> handle, cancelled |-> FALSE, at |-> place]
<1>1. handle \in 1 .. MaxOpens /\ nextId \in Ids /\ nextId \in Nat
    BY FetchBounds DEF Ask, TypeOK, Ids
<1>2. f \in Fetches /\ f # None
    <2>1. f \in Fetches
        BY <1>1 DEF Fetches
    <2> QED
        BY <2>1, NoneIsNone
<1>3. /\ fetch' = [fetch EXCEPT ![s] = f]
      /\ in_flight' = [in_flight EXCEPT ![nextId] = s]
      /\ fetch[s] = None
    BY DEF Ask
<1>4. \A r \in Slots : fetch'[r] = IF r = s THEN f ELSE fetch[r]
    BY <1>3 DEF TypeOK
<1>5. \A i \in Ids : in_flight'[i] = IF i = nextId THEN s ELSE in_flight[i]
    BY <1>3 DEF TypeOK
<1>6. TypeOK'
    <2>1. nextId' \in 1 .. MaxIds + 1 /\ asked' \subseteq 1 .. nextId' - 1
        BY <1>1, FetchBounds DEF Ask, TypeOK, Ids
    <2>2. fetch' \in [Slots -> Fetches \cup {None}] /\ in_flight' \in [Ids -> Slots \cup {None}]
        BY <1>1, <1>2, <1>3 DEF TypeOK
    <2> QED
        BY <2>1, <2>2 DEF Ask, TypeOK
<1>7. TableIsTrue'
    <2>1. \A i \in Ids : in_flight'[i] # None =>
             fetch'[in_flight'[i]] # None /\ fetch'[in_flight'[i]].id = i
        <3> SUFFICES ASSUME NEW i \in Ids, in_flight'[i] # None
                     PROVE  fetch'[in_flight'[i]] # None /\ fetch'[in_flight'[i]].id = i
            OBVIOUS
        <3>1. CASE i = nextId
            BY <1>2, <1>4, <1>5, <3>1
        <3>2. CASE i # nextId
            <4>1. in_flight'[i] = in_flight[i] /\ in_flight[i] \in Slots
                BY <1>5, <3>2 DEF TypeOK
            <4>2. fetch[in_flight[i]] # None /\ fetch[in_flight[i]].id = i
                BY <4>1 DEF TableIsTrue
            <4> QED
                BY <1>3, <1>4, <4>1, <4>2
        <3> QED
            BY <3>1, <3>2
    <2>2. \A r \in Slots : fetch'[r] # None /\ ~fetch'[r].cancelled =>
             ~dead' /\ in_flight'[fetch'[r].id] = r
        <3> SUFFICES ASSUME NEW r \in Slots, fetch'[r] # None, ~fetch'[r].cancelled
                     PROVE  ~dead' /\ in_flight'[fetch'[r].id] = r
            OBVIOUS
        <3>1. ~dead'
            BY DEF Ask, GenerationsAgree
        <3>2. CASE r = s
            BY <1>1, <1>4, <1>5, <3>1, <3>2
        <3>3. CASE r # s
            <4>1. fetch'[r] = fetch[r] /\ fetch[r] \in Fetches
                BY <1>4, <3>3 DEF TypeOK
            <4>2. fetch[r].id \in Ids
                BY <4>1 DEF Fetches
            <4>3. in_flight[fetch[r].id] = r
                BY <4>1 DEF TableIsTrue
            <4>4. fetch[r].id < nextId
                BY <4>2, <4>3, NoneIsNone DEF Ask, GenerationsAgree
            <4>5. fetch[r].id # nextId
                BY <1>1, <4>4
            <4> QED
                BY <1>5, <3>1, <4>1, <4>2, <4>3, <4>5
        <3> QED
            BY <3>2, <3>3
    <2> QED
        BY <2>1, <2>2 DEF TableIsTrue
<1>8. HoldsAreCounted'
    BY <1>2, <1>3, OneHoldMore DEF Ask
<1>9. AnswerReachesItsAsker'
    BY DEF Ask, AnswerReachesItsAsker
<1>10. GenerationsAgree'
    BY <1>1, <1>2, <1>4, <1>5 DEF Ask, GenerationsAgree, Ids
<1> QED
    BY <1>6, <1>7, <1>8, <1>9, <1>10

\* http_get answers before it returns.
LEMMA AskRefusedKeeps == ASSUME IInv, AskRefused PROVE IInv'
<1> USE DEF IInv, FetcherAddsUp
<1>1. handle \in 1 .. MaxOpens /\ nextId \in Ids /\ nextId \in Nat
    BY FetchBounds DEF AskRefused, TypeOK, Ids
<1>2. \A i \in Ids : in_flight'[i] = IF i = nextId THEN None ELSE in_flight[i]
    BY DEF AskRefused, TypeOK
<1>3. TypeOK'
    <2>1. nextId' \in 1 .. MaxIds + 1 /\ asked' \subseteq 1 .. nextId' - 1
        BY <1>1, FetchBounds DEF AskRefused, TypeOK, Ids
    <2>2. in_flight' \in [Ids -> Slots \cup {None}]
        BY <1>1 DEF AskRefused, TypeOK
    <2>3. took' \subseteq (1 .. MaxOpens) \X (1 .. MaxOpens)
        BY <1>1 DEF AskRefused, TypeOK
    <2> QED
        BY <2>1, <2>2, <2>3 DEF AskRefused, TypeOK
<1>4. TableIsTrue'
    <2>1. in_flight[nextId] = None
        BY <1>1 DEF AskRefused, GenerationsAgree
    <2> QED
        BY <1>2, <2>1 DEF AskRefused, TableIsTrue
<1>5. HoldsAreCounted'
    BY SameHolds DEF AskRefused, Standing
<1>6. AnswerReachesItsAsker'
    BY DEF AskRefused, AnswerReachesItsAsker
<1>7. GenerationsAgree'
    BY <1>1, <1>2 DEF AskRefused, GenerationsAgree, Ids
<1> QED
    BY <1>3, <1>4, <1>5, <1>6, <1>7

\* The core drops a request.
LEMMA CancelKeeps == ASSUME IInv, NEW id \in Ids, Cancel(id) PROVE IInv'
<1> USE DEF IInv, FetcherAddsUp
<1>1. CASE in_flight[id] = None
    <2>1. UNCHANGED <<handle, opens, provider, nextId, in_flight, live, dead, refs, linked,
                      old, took, fetch>> /\ asked' \subseteq asked
        BY <1>1 DEF Cancel
    <2>2. TypeOK'
        BY <2>1 DEF TypeOK
    <2>3. HoldsAreCounted'
        BY <2>1, SameHolds DEF Standing
    <2> QED
        BY <2>1, <2>2, <2>3 DEF TableIsTrue, AnswerReachesItsAsker, GenerationsAgree
<1>2. CASE in_flight[id] # None
    <2> DEFINE s == in_flight[id]
               f == Dropped(fetch[s])
    <2>1. s \in Slots /\ fetch[s] \in Fetches /\ fetch[s].id = id
        BY <1>2 DEF TypeOK, TableIsTrue
    <2>2. f \in Fetches /\ f.cancelled /\ f.id = id /\ f # None
        BY <2>1, DroppedIsCancelled
    <2>3. /\ fetch' = [fetch EXCEPT ![s] = f] /\ asked' \subseteq asked
          /\ UNCHANGED <<handle, opens, provider, nextId, in_flight, live, dead, refs, linked,
                         old, took>>
        BY <1>2 DEF Cancel, Dropped
    <2>4. \A r \in Slots : fetch'[r] = IF r = s THEN f ELSE fetch[r]
        BY <2>1, <2>3 DEF TypeOK
    <2>5. TypeOK'
        BY <2>1, <2>2, <2>3 DEF TypeOK
    <2>6. TableIsTrue'
        BY <2>1, <2>2, <2>3, <2>4 DEF TableIsTrue
    <2>7. Standing' = Standing
        BY <2>1, <2>2, <2>4, NoneIsNone DEF Standing
    <2>8. HoldsAreCounted'
        BY <2>3, <2>7, SameHolds
    <2>9. AnswerReachesItsAsker' /\ GenerationsAgree'
        BY <2>2, <2>3, <2>4 DEF AnswerReachesItsAsker, GenerationsAgree
    <2> QED
        BY <2>5, <2>6, <2>8, <2>9
<1> QED
    BY <1>1, <1>2

\* An answer for the number of a fetch not cancelled goes to the handle that asked.
LEMMA RespondToAsker ==
    ASSUME IInv, NEW s \in Slots, fetch[s] # None, ~fetch[s].cancelled, NEW done \in BOOLEAN,
           Respond(fetch[s].id, fetch[s].from, done)
    PROVE  /\ took' \subseteq (1 .. MaxOpens) \X (1 .. MaxOpens) /\ AnswerReachesItsAsker'
           /\ asked' \subseteq asked
<1> USE DEF IInv, FetcherAddsUp
<1>1. CASE handle # 0 /\ fetch[s].id \in asked
    <2>1. took' = took \cup {<<handle, fetch[s].from>>} /\ asked' \subseteq asked
        BY <1>1 DEF Respond
    <2>2. handle \in 1 .. MaxOpens
        BY <1>1, FetchBounds DEF TypeOK
    <2>3. fetch[s].from = handle
        BY <1>1 DEF GenerationsAgree
    <2> QED
        BY <2>1, <2>2, <2>3 DEF TypeOK, AnswerReachesItsAsker
<1>2. CASE ~(handle # 0 /\ fetch[s].id \in asked)
    BY <1>2 DEF Respond, TypeOK, AnswerReachesItsAsker
<1> QED
    BY <1>1, <1>2

\* A fetch freed behind Forget leaves a table that names only fetches that stand.
LEMMA ForgottenAndFreed ==
    ASSUME IInv, NEW s \in Slots, fetch[s] # None, Forget(s), FreeFetch(s), UNCHANGED dead
    PROVE  /\ fetch' \in [Slots -> Fetches \cup {None}]
           /\ in_flight' \in [Ids -> Slots \cup {None}]
           /\ TableIsTrue'
           /\ \A r \in Slots : fetch'[r] # None => fetch'[r] = fetch[r]
           /\ \A i \in Ids : in_flight'[i] # None => in_flight'[i] = in_flight[i]
<1> USE DEF IInv, FetcherAddsUp
<1>1. fetch[s] \in Fetches /\ fetch[s].id \in Ids
    BY DEF TypeOK, Fetches
<1>2. \A r \in Slots : fetch'[r] = IF r = s THEN None ELSE fetch[r]
    BY DEF FreeFetch, TypeOK
<1>3. \A i \in Ids : in_flight'[i] =
         IF i = fetch[s].id /\ in_flight[i] = s THEN None ELSE in_flight[i]
    BY <1>1 DEF Forget, TypeOK
<1>4. /\ fetch' \in [Slots -> Fetches \cup {None}]
      /\ in_flight' \in [Ids -> Slots \cup {None}]
    BY <1>1 DEF Forget, FreeFetch, TypeOK
<1>5. \A i \in Ids : in_flight'[i] # None =>
         fetch'[in_flight'[i]] # None /\ fetch'[in_flight'[i]].id = i
    <2> SUFFICES ASSUME NEW i \in Ids, in_flight'[i] # None
                 PROVE  fetch'[in_flight'[i]] # None /\ fetch'[in_flight'[i]].id = i
        OBVIOUS
    <2>1. in_flight'[i] = in_flight[i] /\ in_flight[i] \in Slots
        BY <1>3 DEF TypeOK
    <2>2. fetch[in_flight[i]] # None /\ fetch[in_flight[i]].id = i
        BY <2>1 DEF TableIsTrue
    <2>3. in_flight[i] # s
        BY <1>3, <2>1, <2>2
    <2> QED
        BY <1>2, <2>1, <2>2, <2>3
<1>6. \A r \in Slots : fetch'[r] # None /\ ~fetch'[r].cancelled =>
         ~dead' /\ in_flight'[fetch'[r].id] = r
    <2> SUFFICES ASSUME NEW r \in Slots, fetch'[r] # None, ~fetch'[r].cancelled
                 PROVE  ~dead' /\ in_flight'[fetch'[r].id] = r
        OBVIOUS
    <2>1. r # s /\ fetch'[r] = fetch[r]
        BY <1>2
    <2>2. fetch[r].id \in Ids
        BY <2>1 DEF TypeOK, Fetches
    <2>3. ~dead /\ in_flight[fetch[r].id] = r
        BY <2>1 DEF TableIsTrue
    <2> QED
        BY <1>3, <2>1, <2>2, <2>3
<1> QED
    BY <1>2, <1>3, <1>4, <1>5, <1>6 DEF TableIsTrue

\* A fetch that was cancelled completes.
LEMMA CompletedCancelledKeeps ==
    ASSUME IInv, NEW s \in Slots, CompletedCancelled(s) PROVE IInv'
<1> USE DEF IInv, FetcherAddsUp
<1>1. fetch[s] # None /\ FreeFetch(s)
    BY DEF CompletedCancelled
<1>2. HoldsAreCounted' /\ refs' \in Nat
    BY <1>1, OneHoldLess DEF CompletedCancelled
<1>3. Forget(s)
    BY DEF CompletedCancelled, Forget, GenerationsAgree, TypeOK, Fetches
<1>4. /\ fetch' \in [Slots -> Fetches \cup {None}] /\ in_flight' \in [Ids -> Slots \cup {None}]
      /\ TableIsTrue'
      /\ \A r \in Slots : fetch'[r] # None => fetch'[r] = fetch[r]
      /\ \A i \in Ids : in_flight'[i] # None => in_flight'[i] = in_flight[i]
    BY <1>1, <1>3, ForgottenAndFreed DEF CompletedCancelled
<1>5. TypeOK'
    BY <1>2, <1>4 DEF CompletedCancelled, chart, TypeOK
<1>6. AnswerReachesItsAsker' /\ GenerationsAgree'
    BY <1>4 DEF CompletedCancelled, chart, AnswerReachesItsAsker, GenerationsAgree
<1> QED
    BY <1>2, <1>4, <1>5, <1>6

\* A response comes in.
LEMMA SentKeeps == ASSUME IInv, NEW s \in Slots, Sent(s) PROVE IInv'
<1> USE DEF IInv, FetcherAddsUp
<1> DEFINE f == [fetch[s] EXCEPT !.at = "body"]
<1>1. fetch[s] \in Fetches /\ fetch' = [fetch EXCEPT ![s] = f]
    BY DEF Sent, TypeOK
<1>2. /\ f \in Fetches /\ f.id = fetch[s].id /\ f.from = fetch[s].from
      /\ f.cancelled = fetch[s].cancelled
    BY <1>1 DEF Fetches
<1>3. f # None
    BY <1>2, NoneIsNone
<1>4. \A r \in Slots : fetch'[r] = IF r = s THEN f ELSE fetch[r]
    BY <1>1 DEF TypeOK
<1> HIDE DEF f
<1>5. TypeOK'
    BY <1>1, <1>2 DEF Sent, chart, TypeOK
<1>6. TableIsTrue'
    BY <1>2, <1>3, <1>4 DEF Sent, TableIsTrue
<1>7. Standing' = Standing
    BY <1>3, <1>4 DEF Sent, Standing
<1>8. HoldsAreCounted'
    BY <1>7, SameHolds DEF Sent
<1>9. AnswerReachesItsAsker' /\ GenerationsAgree'
    BY <1>2, <1>3, <1>4 DEF Sent, chart, AnswerReachesItsAsker, GenerationsAgree
<1> QED
    BY <1>5, <1>6, <1>8, <1>9

\* A piece of the body is handed over.
LEMMA PieceKeeps == ASSUME IInv, NEW s \in Slots, Piece(s) PROVE IInv'
<1> USE DEF IInv, FetcherAddsUp
<1>1. ~dead
    BY DEF Piece, TableIsTrue
<1>2. Respond(fetch[s].id, fetch[s].from, FALSE) /\ UNCHANGED <<fetch, refs>>
    BY <1>1 DEF Piece
<1>3. /\ took' \subseteq (1 .. MaxOpens) \X (1 .. MaxOpens) /\ AnswerReachesItsAsker'
      /\ asked' \subseteq asked
    BY <1>2, RespondToAsker DEF Piece
<1>4. TypeOK'
    BY <1>2, <1>3 DEF Piece, TypeOK
<1>5. HoldsAreCounted'
    BY <1>2, SameHolds DEF Piece, Standing
<1>6. TableIsTrue' /\ GenerationsAgree'
    BY <1>2 DEF Piece, TableIsTrue, GenerationsAgree
<1> QED
    BY <1>3, <1>4, <1>5, <1>6

\* A fetch that was not cancelled completes.
LEMMA CompletedKeeps == ASSUME IInv, NEW s \in Slots, Completed(s) PROVE IInv'
<1> USE DEF IInv, FetcherAddsUp
<1>1. ~dead
    BY DEF Completed, TableIsTrue
<1>2. fetch[s] # None /\ Forget(s) /\ FreeFetch(s) /\ Respond(fetch[s].id, fetch[s].from, TRUE)
    BY <1>1 DEF Completed
<1>3. /\ took' \subseteq (1 .. MaxOpens) \X (1 .. MaxOpens) /\ AnswerReachesItsAsker'
      /\ asked' \subseteq asked
    BY <1>2, RespondToAsker DEF Completed
<1>4. HoldsAreCounted' /\ refs' \in Nat
    BY <1>2, OneHoldLess DEF Completed
<1>5. /\ fetch' \in [Slots -> Fetches \cup {None}] /\ in_flight' \in [Ids -> Slots \cup {None}]
      /\ TableIsTrue'
      /\ \A r \in Slots : fetch'[r] # None => fetch'[r] = fetch[r]
      /\ \A i \in Ids : in_flight'[i] # None => in_flight'[i] = in_flight[i]
    BY <1>2, ForgottenAndFreed DEF Completed
<1>6. TypeOK'
    BY <1>3, <1>4, <1>5 DEF Completed, TypeOK
<1>7. GenerationsAgree'
    BY <1>5 DEF Completed, GenerationsAgree
<1> QED
    BY <1>3, <1>4, <1>5, <1>6, <1>7

\* lk_chart_links_shutdown.
LEMMA ShutdownKeeps == ASSUME IInv, Shutdown PROVE IInv'
<1> USE DEF IInv, FetcherAddsUp
<1>1. /\ fetch' \in [Slots -> Fetches \cup {None}]
      /\ in_flight' \in [Ids -> Slots \cup {None}]
      /\ \A s \in Slots : fetch'[s] # None => fetch'[s].cancelled
      /\ \A i \in Ids : in_flight'[i] = None
      /\ Standing' = Standing
    BY CancelAllCancels DEF Shutdown
<1>2. refs = Cardinality(Standing) + 1 /\ refs' = Cardinality(Standing') /\ refs' \in Nat
    <2>1. refs = Cardinality(Standing) + 1
        BY DEF Shutdown, HoldsAreCounted, Standing
    <2> QED
        BY <1>1, <2>1, StandingIsFinite DEF Shutdown
<1>3. TypeOK'
    BY <1>1, <1>2 DEF Shutdown, TypeOK
<1>4. HoldsAreCounted'
    BY <1>2, StandingIsFinite DEF Shutdown, HoldsAreCounted, Standing
<1>5. TableIsTrue' /\ AnswerReachesItsAsker' /\ GenerationsAgree'
    BY <1>1 DEF Shutdown, TableIsTrue, AnswerReachesItsAsker, GenerationsAgree
<1> QED
    BY <1>3, <1>4, <1>5

\* Nothing moves.
LEMMA RestKeeps == ASSUME IInv, UNCHANGED vars PROVE IInv'
<1>1. HoldsAreCounted'
    BY SameHolds DEF IInv, FetcherAddsUp, vars, fetcher, Standing
<1> QED
    BY <1>1 DEF IInv, FetcherAddsUp, vars, chart, fetcher, TypeOK, TableIsTrue,
                AnswerReachesItsAsker, GenerationsAgree

-------------------------------------------------------------------------------
\* Every step of the handle, the fetcher and the main loop (library/fetch.c) keeps it.
THEOREM NextIInv == IInv /\ [Next]_vars => IInv'
<1> SUFFICES ASSUME IInv, [Next]_vars PROVE IInv'
    OBVIOUS
<1>1. CASE Open \/ Close \/ AskRefused \/ Shutdown
    BY <1>1, OpenKeeps, CloseKeeps, AskRefusedKeeps, ShutdownKeeps
<1>2. ASSUME NEW s \in Slots, NEW place \in {"send", "file"}, Ask(s, place) PROVE IInv'
    BY <1>2, AskKeeps
<1>3. ASSUME NEW i \in Ids, Cancel(i) PROVE IInv'
    BY <1>3, CancelKeeps
<1>4. ASSUME NEW s \in Slots,
             CompletedCancelled(s) \/ Sent(s) \/ Piece(s) \/ Completed(s)
      PROVE  IInv'
    BY <1>4, CompletedCancelledKeeps, SentKeeps, PieceKeeps, CompletedKeeps
<1>5. CASE Rest \/ UNCHANGED vars
    BY <1>5, RestKeeps DEF Rest
<1> QED
    BY <1>1, <1>2, <1>3, <1>4, <1>5 DEF Next

\* The inductive invariant holds in every reachable state.
THEOREM IInvHolds == Spec => []IInv
BY InitIInv, NextIInv, PTL DEF Spec

-------------------------------------------------------------------------------
(* Windows                                                                   *)

\* Where the UI thread is in a close (ChartLinksDetach, CloseChartHandle).
Closing == {"detach", "aborting", "joining", "dropping", "detached", "closing"}

\* Where it may be.
UiPlaces ==
    {"idle", "kicked", "plugin", "marking", "link", "linked", "attach", "attached",
     "providing", "resizing"} \cup Closing

\* Where a worker may be.
AtPlaces == {"gone", "idle", "taken", "reading", "whole", "failed", "cut", "short", "kicking"}

\* No handle is open, or its pool is not up yet, or it has been told to stop.
PoolIsDown ==
    w_handle = 0 \/ ui \in {"attach", "aborting", "joining", "dropping", "detached", "closing"}

\* The UI thread opens and closes alone, the render thread stands between the two, and
\* who holds the handle's lock is where it holds it.
WindowIsInOrder ==
    /\ w_handle \in 0 .. WinMaxOpens /\ w_opens \in 0 .. WinMaxOpens /\ w_handle \in {0, w_opens}
    /\ ui \in UiPlaces
    /\ render \in {"none", "top", "warmed", "frame", "short", "poll", "forever", "gone"}
    /\ w_handle = 0 => ui = "idle" /\ inbox = {}
    /\ render = "none" <=> w_handle = 0 \/ ui \in {"attach", "attached", "providing"}
    /\ w_api \in {None, "ui", "render"}
    /\ w_api = "render" <=> render = "frame"
    /\ w_api = "ui" <=> ui \in {"link", "providing"}

\* The frame's counter and flags keep their types.
FrameIsTyped ==
    /\ quiet \in 0 .. W!TicksBeforeStop + 1
    /\ {dirty, layer, run, wake, warm} \subseteq BOOLEAN

\* A change no frame has looked at has made the frame due, since a frame lowers the mark
\* only as it takes all changes in; and no link's change is slept on.
FrameIsTrue ==
    /\ due \subseteq {"setter", "link"}
    /\ due # {} => dirty
    /\ W!LinksAreNotSleptOn

\* The pool is up from the attach to the stop of a close: a handle has the fetcher only
\* while it is, and nothing waits and nobody works in it once it is down.
PoolIsInOrder ==
    /\ {w_provider, link_live, running} \subseteq BOOLEAN
    /\ w_provider => w_handle # 0 /\ ui \notin {"attach", "attached"} \cup Closing
    /\ running <=> ~PoolIsDown
    /\ PoolIsDown => queue = {}
    /\ dropped # {} => ui \in {"aborting", "joining", "dropping"}
    /\ PoolIsDown /\ ui \notin {"aborting", "joining"} => \A w \in Workers : at[w] = "gone"
    /\ w_handle # 0 /\ ui \notin {"attach", "detached", "closing"} => link_live

\* The requests the open handle has made.
OfTheHandle == [id : 1 .. w_nextId - 1, of : {w_handle}]

\* A job is of the open handle and of one worker, or it waits; the table is the transfers
\* being read; and link_mu is held by the worker that kicks.
JobsAreTrue ==
    /\ at \in [Workers -> AtPlaces]
    /\ job \in [Workers -> W!Jobs \cup {None}]
    /\ \A w \in Workers : job[w] # None <=> at[w] \notin {"gone", "idle"}
    /\ \A w \in Workers : job[w] # None => job[w] \in OfTheHandle
    /\ queue \cup dropped \subseteq OfTheHandle
    /\ \A v, w \in Workers : job[v] # None /\ job[v] = job[w] => v = w
    /\ \A w \in Workers : job[w] # None => job[w] \notin queue
    /\ w_live = {job[w] : w \in {v \in Workers : at[v] = "reading"}}
    /\ ended \subseteq w_live
    /\ link \in Workers \cup {None}
    /\ \A w \in Workers : link = w <=> at[w] = "kicking"

\* The handle has requests only while it has the fetcher.  One whose transfer was marked,
\* or cut off by the mark, is not the handle's any more: it was cancelled, or a stop came
\* behind the detach.
AsksAreTrue ==
    /\ w_nextId \in 1 .. WinMaxIds + 1 /\ w_asked \subseteq 1 .. w_nextId - 1
    /\ ~w_provider => w_asked = {}
    /\ inbox \subseteq [id : W!Ids, of : {w_handle}, how : {"whole", "failed", "cut"}]
    /\ \A j \in ended : j.id \notin w_asked
    /\ \A w \in Workers : at[w] = "short" => job[w].id \notin w_asked

\* The inductive invariant of the Windows threads.
WInv ==
    /\ WindowIsInOrder /\ FrameIsTyped /\ FrameIsTrue
    /\ PoolIsInOrder /\ JobsAreTrue /\ AsksAreTrue

-------------------------------------------------------------------------------
\* It is what the runs check of the threads, and more.
LEMMA WInvIsEnough == WInv => W!TypeOK /\ W!HandleIsSafe /\ W!LinksAreNotSleptOn
<1> SUFFICES ASSUME WInv PROVE W!TypeOK /\ W!HandleIsSafe
    BY DEF WInv, FrameIsTrue
<1> USE DEF WInv
<1>1. w_handle # 0 => w_handle \in 1 .. WinMaxOpens
    BY DEF WindowIsInOrder
<1>2. inbox \subseteq [id : W!Ids, of : 1 .. WinMaxOpens, how : {"whole", "failed", "cut", "short"}]
    BY DEF AsksAreTrue, WindowIsInOrder
<1>3. {job[w] : w \in W!Busy} \cup queue \cup dropped
         \subseteq [id : 1 .. w_nextId - 1, of : {w_handle}]
    BY DEF JobsAreTrue, W!Busy, OfTheHandle
<1>4. W!TypeOK
    BY <1>3 DEF W!TypeOK, WindowIsInOrder, FrameIsTyped, FrameIsTrue, PoolIsInOrder,
       JobsAreTrue, AsksAreTrue, W!Busy
<1>5. W!HandleOutlivesItsThreads
    <2>1. W!Busy # {} => w_handle # 0
        BY DEF W!Busy, WindowIsInOrder, PoolIsInOrder, PoolIsDown
    <2>2. \A w \in W!Busy : job[w].of = w_handle
        BY DEF W!Busy, JobsAreTrue, OfTheHandle
    <2> QED
        BY <2>1, <2>2 DEF W!HandleOutlivesItsThreads, WindowIsInOrder, AsksAreTrue
<1>6. W!PoolIsUpForAsks
    BY DEF W!PoolIsUpForAsks, PoolIsInOrder, PoolIsDown, Closing
<1>7. W!NothingShortIsTaken
    BY DEF W!NothingShortIsTaken, AsksAreTrue
<1> QED
    BY <1>4, <1>5, <1>6, <1>7 DEF W!HandleIsSafe

\* No window is open at first.
THEOREM InitWInv == W!Init => WInv
<1> SUFFICES ASSUME W!Init PROVE WInv
    OBVIOUS
<1> USE DEF W!Init
<1>1. WindowIsInOrder
    BY ThreadBounds, NoneIsNobody DEF WindowIsInOrder, UiPlaces
<1>2. FrameIsTrue
    BY DEF FrameIsTrue, W!LinksAreNotSleptOn
<1>3. FrameIsTyped
    <2>1. quiet \in 0 .. W!TicksBeforeStop + 1
        BY DEF W!TicksBeforeStop
    <2> QED
        BY <2>1, Zenon DEF FrameIsTyped
<1>4. PoolIsInOrder
    BY DEF PoolIsInOrder, PoolIsDown
<1>5. JobsAreTrue
    BY NoneIsNobody DEF JobsAreTrue, AtPlaces
<1>6. AsksAreTrue
    BY ThreadBounds DEF AsksAreTrue
<1> QED
    BY <1>1, <1>2, <1>3, <1>4, <1>5, <1>6 DEF WInv

\* A step that leaves the pool, its lock and the numbers alone leaves the jobs true;
LEMMA SameJobs ==
    ASSUME JobsAreTrue, UNCHANGED <<w_handle, W!pool, link>>, w_nextId' = w_nextId
    PROVE  JobsAreTrue'
BY DEF JobsAreTrue, W!pool, OfTheHandle

\* and one that only takes from the requests and the answers leaves those.
LEMMA SameAsks ==
    ASSUME AsksAreTrue, UNCHANGED <<w_handle, W!pool, w_nextId, w_provider>>,
           w_asked' \subseteq w_asked, inbox' \subseteq inbox
    PROVE  AsksAreTrue'
BY DEF AsksAreTrue, W!pool

\* The render thread, and a plugin's post.
LEMMA WinRenderKeeps ==
    ASSUME WInv,
           \/ W!RenderEnds \/ W!Warm \/ W!FrameBegins
           \/ W!FrameEnds \/ W!Unparks \/ W!PluginPosts
    PROVE  WInv'
<1>1. WindowIsInOrder'
    BY NoneIsNobody DEF WInv, W!RenderEnds, W!Warm, W!FrameBegins, W!FrameEnds, W!Unparks,
       W!PluginPosts, W!core, W!thread, W!locks, WindowIsInOrder
<1>2. FrameIsTyped'
    <2>1. quiet' \in 0 .. W!TicksBeforeStop + 1
        BY DEF WInv, W!Kick, W!RenderEnds, W!Warm, W!FrameBegins, W!FrameEnds, W!Unparks,
           W!PluginPosts, W!frame, FrameIsTyped, W!TicksBeforeStop
    <2> QED
        BY <2>1, Zenon DEF WInv, W!Kick, W!RenderEnds, W!Warm, W!FrameBegins, W!FrameEnds,
           W!Unparks, W!PluginPosts, W!frame, W!thread, FrameIsTyped
<1>3. FrameIsTrue'
    BY DEF WInv, W!Kick, W!RenderEnds, W!Warm, W!FrameBegins, W!FrameEnds, W!Unparks,
       W!PluginPosts, W!core, W!frame, W!thread, W!locks, FrameIsTrue, W!LinksAreNotSleptOn,
       W!AsleepForGood
<1>4. PoolIsInOrder'
    BY DEF WInv, W!RenderEnds, W!Warm, W!FrameBegins, W!FrameEnds, W!Unparks, W!PluginPosts,
       W!core, W!pool, W!locks, PoolIsInOrder, PoolIsDown
<1>5. JobsAreTrue'
    BY SameJobs DEF WInv, W!RenderEnds, W!Warm, W!FrameBegins, W!FrameEnds, W!Unparks,
       W!PluginPosts, W!core, W!locks
<1>6. AsksAreTrue'
    BY SameAsks DEF WInv, W!RenderEnds, W!Warm, W!FrameBegins, W!FrameEnds, W!Unparks,
       W!PluginPosts, W!core
<1> QED
    BY <1>1, <1>2, <1>3, <1>4, <1>5, <1>6 DEF WInv

\* The UI thread in a change of the chart.
LEMMA WinChangeKeeps ==
    ASSUME WInv,
           \/ W!SetterKicks \/ W!SetterChanges \/ W!Invalidates \/ W!ViewMarked
           \/ W!LinkChanges \/ W!LinkReturns \/ W!LinkKicks
    PROVE  WInv'
<1>1. WindowIsInOrder'
    BY NoneIsNobody DEF WInv, W!SetterKicks, W!SetterChanges, W!Invalidates, W!ViewMarked,
       W!LinkChanges, W!LinkReturns, W!LinkKicks, W!thread, W!locks, WindowIsInOrder, UiPlaces
<1>2. FrameIsTyped'
    <2>1. quiet' \in 0 .. W!TicksBeforeStop + 1
        BY DEF WInv, W!Kick, W!SetterKicks, W!SetterChanges, W!Invalidates, W!ViewMarked,
           W!LinkChanges, W!LinkReturns, W!LinkKicks, W!frame, FrameIsTyped, W!TicksBeforeStop
    <2> QED
        BY <2>1, Zenon DEF WInv, W!Kick, W!SetterKicks, W!SetterChanges, W!Invalidates,
           W!ViewMarked, W!LinkChanges, W!LinkReturns, W!LinkKicks, W!frame, W!thread,
           FrameIsTyped
<1>3. FrameIsTrue'
    BY DEF WInv, W!Kick, W!SetterKicks, W!SetterChanges, W!Invalidates, W!ViewMarked,
       W!LinkChanges, W!LinkReturns, W!LinkKicks, W!core, W!frame, W!thread, W!locks,
       FrameIsTrue, W!LinksAreNotSleptOn, W!AsleepForGood
<1>4. PoolIsInOrder'
    BY DEF WInv, W!SetterKicks, W!SetterChanges, W!Invalidates, W!ViewMarked, W!LinkChanges,
       W!LinkReturns, W!LinkKicks, W!core, W!pool, W!locks, PoolIsInOrder, PoolIsDown, Closing
<1>5. JobsAreTrue'
    BY SameJobs DEF WInv, W!SetterKicks, W!SetterChanges, W!Invalidates, W!ViewMarked,
       W!LinkChanges, W!LinkReturns, W!LinkKicks, W!core, W!locks
<1>6. AsksAreTrue'
    BY SameAsks DEF WInv, W!SetterKicks, W!SetterChanges, W!Invalidates, W!ViewMarked,
       W!LinkChanges, W!LinkReturns, W!LinkKicks, W!core
<1> QED
    BY <1>1, <1>2, <1>3, <1>4, <1>5, <1>6 DEF WInv

\* The UI thread where it opens, resizes or closes and leaves the pool's books alone.  A
\* detach gives up the requests with the fetcher.
LEMMA WinUiKeeps ==
    ASSUME WInv,
           \/ W!StartsRender \/ W!StopsRender \/ W!Resized
           \/ W!Joined \/ W!Provide \/ W!Detach
    PROVE  WInv'
<1>1. WindowIsInOrder'
    BY NoneIsNobody DEF WInv, W!StartsRender, W!StopsRender, W!Resized, W!Joined, W!Provide,
       W!Detach, W!thread, W!locks, WindowIsInOrder, UiPlaces, Closing
<1>2. FrameIsTyped'
    <2>1. quiet' \in 0 .. W!TicksBeforeStop + 1
        BY DEF WInv, W!StartsRender, W!StopsRender, W!Resized, W!Joined, W!Provide, W!Detach,
           W!frame, FrameIsTyped, W!TicksBeforeStop
    <2> QED
        BY <2>1, Zenon DEF WInv, W!StartsRender, W!StopsRender, W!Resized, W!Joined,
           W!Provide, W!Detach, W!frame, W!thread, FrameIsTyped
<1>3. FrameIsTrue'
    BY DEF WInv, W!StartsRender, W!StopsRender, W!Resized, W!Joined, W!Provide, W!Detach,
       W!core, W!frame, W!thread, W!locks, FrameIsTrue, W!LinksAreNotSleptOn, W!AsleepForGood
<1>4. PoolIsInOrder'
    <2>1. CASE W!Provide
        BY <2>1 DEF WInv, W!Provide, W!pool, WindowIsInOrder, PoolIsInOrder, PoolIsDown, Closing
    <2>2. CASE W!StartsRender \/ W!StopsRender \/ W!Resized \/ W!Joined
        BY <2>2 DEF WInv, W!StartsRender, W!StopsRender, W!Resized, W!Joined, W!core, W!pool,
           W!locks, PoolIsInOrder, PoolIsDown, Closing
    <2>3. CASE W!Detach
        BY <2>3 DEF WInv, W!Detach, W!pool, W!locks, PoolIsInOrder, PoolIsDown
    <2> QED
        BY <2>1, <2>2, <2>3
<1>5. JobsAreTrue'
    BY SameJobs DEF WInv, W!StartsRender, W!StopsRender, W!Resized, W!Joined, W!Provide,
       W!Detach, W!core, W!locks
<1>6. AsksAreTrue'
    BY DEF WInv, AsksAreTrue, W!StartsRender, W!StopsRender, W!Resized, W!Joined, W!Provide,
       W!Detach, W!core, W!pool
<1> QED
    BY <1>1, <1>2, <1>3, <1>4, <1>5, <1>6 DEF WInv

\* lk_controller_open: the numbers begin anew, over a pool with nothing in it.
LEMMA WinOpenKeeps ==
    ASSUME WInv, W!Open PROVE WInv'
<1>1. WindowIsInOrder'
    BY ThreadBounds DEF WInv, W!Open, W!thread, W!locks, WindowIsInOrder, UiPlaces
<1>2. FrameIsTyped'
    <2>1. quiet' \in 0 .. W!TicksBeforeStop + 1
        BY DEF W!Open, W!TicksBeforeStop
    <2> QED
        BY <2>1, Zenon DEF WInv, W!Open, W!thread, FrameIsTyped
<1>3. FrameIsTrue'
    BY DEF WInv, W!Open, WindowIsInOrder, FrameIsTrue, W!LinksAreNotSleptOn
<1>4. PoolIsInOrder'
    BY DEF WInv, W!Open, W!pool, W!locks, PoolIsInOrder, PoolIsDown
<1>5. JobsAreTrue'
    BY DEF WInv, W!Open, W!pool, W!locks, PoolIsInOrder, PoolIsDown, JobsAreTrue
<1>6. AsksAreTrue'
    BY ThreadBounds DEF WInv, W!Open, W!pool, WindowIsInOrder, PoolIsInOrder, AsksAreTrue
<1> QED
    BY <1>1, <1>2, <1>3, <1>4, <1>5, <1>6 DEF WInv

\* ChartLinksAttach: the workers start, none of them with a job.
LEMMA WinAttachKeeps ==
    ASSUME WInv, W!Attach PROVE WInv'
<1>1. WindowIsInOrder'
    BY DEF WInv, W!Attach, W!thread, WindowIsInOrder, UiPlaces
<1>2. FrameIsTyped'
    <2>1. quiet' \in 0 .. W!TicksBeforeStop + 1
        BY DEF WInv, W!Attach, W!frame, FrameIsTyped
    <2> QED
        BY Zenon DEF WInv, W!Attach, W!frame, W!thread, FrameIsTyped
<1>3. FrameIsTrue'
    BY DEF WInv, W!Attach, W!frame, W!thread, WindowIsInOrder, FrameIsTrue,
       W!LinksAreNotSleptOn, W!AsleepForGood
<1>4. PoolIsInOrder'
    BY DEF WInv, W!Attach, W!core, WindowIsInOrder, PoolIsInOrder, PoolIsDown
<1>5. JobsAreTrue'
    BY DEF WInv, W!Attach, PoolIsInOrder, PoolIsDown, JobsAreTrue, AtPlaces
<1>6. AsksAreTrue'
    BY DEF WInv, W!Attach, W!core, AsksAreTrue
<1> QED
    BY <1>1, <1>2, <1>3, <1>4, <1>5, <1>6 DEF WInv

\* HttpPool::Stop takes out what waits;
LEMMA WinStopsPoolKeeps ==
    ASSUME WInv, W!StopsPool PROVE WInv'
<1>1. WindowIsInOrder'
    BY DEF WInv, W!StopsPool, W!thread, W!locks, WindowIsInOrder, UiPlaces, Closing
<1>2. FrameIsTyped'
    <2>1. quiet' \in 0 .. W!TicksBeforeStop + 1
        BY DEF WInv, W!StopsPool, W!frame, FrameIsTyped
    <2> QED
        BY Zenon DEF WInv, W!StopsPool, W!frame, W!thread, FrameIsTyped
<1>3. FrameIsTrue'
    BY DEF WInv, W!StopsPool, W!core, W!frame, W!thread, W!locks, FrameIsTrue,
       W!LinksAreNotSleptOn, W!AsleepForGood
<1>4. PoolIsInOrder'
    BY DEF WInv, W!StopsPool, W!core, W!locks, PoolIsInOrder, PoolIsDown, Closing
<1>5. JobsAreTrue'
    BY DEF WInv, W!StopsPool, W!core, W!locks, JobsAreTrue, OfTheHandle
<1>6. AsksAreTrue'
    BY DEF WInv, W!StopsPool, W!core, AsksAreTrue
<1> QED
    BY <1>1, <1>2, <1>3, <1>4, <1>5, <1>6 DEF WInv

\* and AbortAll marks what is read, when the handle has no request left.
LEMMA WinAbortsAllKeeps ==
    ASSUME WInv, W!AbortsAll PROVE WInv'
<1>1. WindowIsInOrder'
    BY DEF WInv, W!AbortsAll, W!thread, W!locks, WindowIsInOrder, UiPlaces, Closing
<1>2. FrameIsTyped'
    <2>1. quiet' \in 0 .. W!TicksBeforeStop + 1
        BY DEF WInv, W!AbortsAll, W!frame, FrameIsTyped
    <2> QED
        BY Zenon DEF WInv, W!AbortsAll, W!frame, W!thread, FrameIsTyped
<1>3. FrameIsTrue'
    BY DEF WInv, W!AbortsAll, W!core, W!frame, W!thread, W!locks, FrameIsTrue,
       W!LinksAreNotSleptOn, W!AsleepForGood
<1>4. PoolIsInOrder'
    BY DEF WInv, W!AbortsAll, W!core, W!locks, PoolIsInOrder, PoolIsDown, Closing
<1>5. JobsAreTrue'
    BY DEF WInv, W!AbortsAll, W!core, W!locks, JobsAreTrue, OfTheHandle
<1>6. AsksAreTrue'
    BY DEF WInv, W!AbortsAll, W!core, PoolIsInOrder, Closing, AsksAreTrue
<1> QED
    BY <1>1, <1>2, <1>3, <1>4, <1>5, <1>6 DEF WInv

\* What never started is answered, and no answer passes behind it.
LEMMA WinAnswersDroppedKeeps ==
    ASSUME WInv, W!AnswersDropped PROVE WInv'
<1>1. WindowIsInOrder'
    BY DEF WInv, W!AnswersDropped, WindowIsInOrder, UiPlaces, Closing
<1>2. FrameIsTyped'
    <2>1. quiet' \in 0 .. W!TicksBeforeStop + 1
        BY DEF WInv, W!AnswersDropped, W!Kick, FrameIsTyped, W!TicksBeforeStop
    <2> QED
        BY <2>1, Zenon DEF WInv, W!AnswersDropped, W!Kick, FrameIsTyped
<1>3. FrameIsTrue'
    BY DEF WInv, W!AnswersDropped, W!Kick, W!core, FrameIsTrue, W!LinksAreNotSleptOn,
       W!AsleepForGood
<1>4. PoolIsInOrder'
    BY DEF WInv, W!AnswersDropped, W!core, PoolIsInOrder, PoolIsDown, Closing
<1>5. JobsAreTrue'
    BY DEF WInv, W!AnswersDropped, PoolIsInOrder, PoolIsDown, JobsAreTrue
<1>6. AsksAreTrue'
    BY DEF WInv, W!AnswersDropped, W!core, AsksAreTrue
<1> QED
    BY <1>1, <1>2, <1>3, <1>4, <1>5, <1>6 DEF WInv

\* CloseChartHandle, with the workers and the render thread joined.
LEMMA WinCloseKeeps ==
    ASSUME WInv, W!Close PROVE WInv'
<1>1. WindowIsInOrder'
    BY ThreadBounds DEF WInv, W!Close, W!locks, WindowIsInOrder, UiPlaces
<1>2. FrameIsTyped'
    <2>1. quiet' \in 0 .. W!TicksBeforeStop + 1
        BY DEF WInv, W!Close, FrameIsTyped
    <2> QED
        BY Zenon DEF WInv, W!Close, FrameIsTyped
<1>3. FrameIsTrue'
    BY DEF W!Close, FrameIsTrue, W!LinksAreNotSleptOn
<1>4. PoolIsInOrder'
    BY DEF WInv, W!Close, W!pool, W!locks, PoolIsInOrder, PoolIsDown, Closing
<1>5. JobsAreTrue'
    BY DEF WInv, W!Close, W!pool, W!locks, PoolIsInOrder, PoolIsDown, JobsAreTrue
<1>6. AsksAreTrue'
    BY DEF WInv, W!Close, PoolIsInOrder, Closing, AsksAreTrue
<1> QED
    BY <1>1, <1>2, <1>3, <1>4, <1>5, <1>6 DEF WInv

\* A request gets a number no job has.
LEMMA WinAskKeeps ==
    ASSUME WInv, NEW who \in {"ui", "render"}, W!Ask(who) PROVE WInv'
<1>1. WindowIsInOrder'
    BY DEF WInv, W!Ask, W!thread, W!locks, WindowIsInOrder
<1>2. FrameIsTyped'
    <2>1. quiet' \in 0 .. W!TicksBeforeStop + 1
        BY DEF WInv, W!Ask, W!frame, FrameIsTyped
    <2> QED
        BY Zenon DEF WInv, W!Ask, W!frame, W!thread, FrameIsTyped
<1>3. FrameIsTrue'
    BY DEF WInv, W!Ask, W!frame, W!thread, W!locks, FrameIsTrue, W!LinksAreNotSleptOn,
       W!AsleepForGood
<1>4. PoolIsInOrder'
    BY DEF WInv, W!Ask, W!locks, PoolIsInOrder, PoolIsDown
<1>5. JobsAreTrue'
    <2> DEFINE new == [id |-> w_nextId, of |-> w_handle]
    <2>1. w_nextId \in Nat /\ w_nextId \in W!Ids /\ w_handle \in 1 .. WinMaxOpens
        BY DEF WInv, W!Ask, W!Ids, WindowIsInOrder
    <2>2. OfTheHandle \subseteq OfTheHandle' /\ new \in OfTheHandle' /\ new \notin OfTheHandle
        <3>1. w_nextId' = w_nextId + 1 /\ w_handle' = w_handle
            BY DEF W!Ask
        <3>2. w_nextId \in Nat \ {0} /\ w_nextId' - 1 = w_nextId
            BY <2>1, <3>1 DEF W!Ids
        <3>3. w_nextId \notin 1 .. w_nextId - 1
            OBVIOUS
        <3>4. 1 .. w_nextId - 1 \subseteq 1 .. w_nextId' - 1 /\ w_nextId \in 1 .. w_nextId' - 1
            BY <3>2
        <3> QED
            BY <3>1, <3>4 DEF OfTheHandle
    <2>3. queue' = queue \cup {new}
        BY DEF W!Ask
    <2>4. UNCHANGED <<at, job, w_live, ended, link, dropped>>
        BY DEF W!Ask, W!locks
    <2>5. \A w \in Workers : job[w] # None => job[w] # new
        BY <2>2 DEF WInv, JobsAreTrue
    <2>6. new # None
        BY <2>1, NoneIsNoJob DEF W!Jobs
    <2> QED
        BY <2>2, <2>3, <2>4 DEF WInv, JobsAreTrue
<1>6. AsksAreTrue'
    <2>1. /\ w_nextId \in 1 .. WinMaxIds /\ w_asked \subseteq 1 .. w_nextId - 1
          /\ w_asked' = w_asked \cup {w_nextId} /\ w_nextId' = w_nextId + 1
        BY DEF WInv, W!Ask, AsksAreTrue, W!Ids
    <2>2. w_nextId' \in 1 .. WinMaxIds + 1 /\ w_asked' \subseteq 1 .. w_nextId' - 1
        BY <2>1, ThreadBounds
    <2>3. \A w \in Workers : at[w] = "reading" \/ at[w] = "short" => job[w] \in OfTheHandle
        BY DEF WInv, JobsAreTrue
    <2>4. \A j \in OfTheHandle : j.id # w_nextId
        BY DEF OfTheHandle
    <2>5. ended \subseteq OfTheHandle
        BY DEF WInv, JobsAreTrue
    <2>6. UNCHANGED <<at, job, ended, inbox, w_handle, w_provider>> /\ w_provider
        BY DEF W!Ask
    <2> QED
        BY <2>1, <2>2, <2>3, <2>4, <2>5, <2>6 DEF WInv, AsksAreTrue
<1> QED
    BY <1>1, <1>2, <1>3, <1>4, <1>5, <1>6 DEF WInv

\* A cancel takes its request from the handle and drops or marks its job.
LEMMA WinCancelKeeps ==
    ASSUME WInv, NEW who \in {"ui", "render"}, NEW i \in W!Ids, W!Cancel(who, i) PROVE WInv'
<1>1. WindowIsInOrder'
    BY DEF WInv, W!Cancel, W!thread, W!locks, WindowIsInOrder
<1>2. FrameIsTyped'
    <2>1. quiet' \in 0 .. W!TicksBeforeStop + 1
        BY DEF WInv, W!Cancel, W!frame, FrameIsTyped
    <2> QED
        BY Zenon DEF WInv, W!Cancel, W!frame, W!thread, FrameIsTyped
<1>3. FrameIsTrue'
    BY DEF WInv, W!Cancel, W!frame, W!thread, W!locks, FrameIsTrue, W!LinksAreNotSleptOn,
       W!AsleepForGood
<1>4. PoolIsInOrder'
    BY DEF WInv, W!Cancel, W!locks, PoolIsInOrder, PoolIsDown
<1>5. JobsAreTrue'
    BY DEF WInv, W!Cancel, W!locks, JobsAreTrue, OfTheHandle
<1>6. AsksAreTrue'
    BY DEF WInv, W!Cancel, AsksAreTrue
<1> QED
    BY <1>1, <1>2, <1>3, <1>4, <1>5, <1>6 DEF WInv

\* A worker that goes, reads a file, or begins or ends a transfer.
LEMMA WinWorkerKeeps ==
    ASSUME WInv, NEW w \in Workers,
           W!WorkerEnds(w) \/ W!ReadsFile(w) \/ W!Begins(w) \/ W!Fetched(w)
    PROVE  WInv'
<1>1. WindowIsInOrder'
    BY DEF WInv, W!WorkerEnds, W!ReadsFile, W!Begins, W!Fetched, W!core, W!thread, W!locks,
       WindowIsInOrder
<1>2. FrameIsTyped'
    <2>1. quiet' \in 0 .. W!TicksBeforeStop + 1
        BY DEF WInv, W!WorkerEnds, W!ReadsFile, W!Begins, W!Fetched, W!frame, FrameIsTyped
    <2> QED
        BY Zenon DEF WInv, W!WorkerEnds, W!ReadsFile, W!Begins, W!Fetched, W!frame, W!thread,
           FrameIsTyped
<1>3. FrameIsTrue'
    BY DEF WInv, W!WorkerEnds, W!ReadsFile, W!Begins, W!Fetched, W!core, W!frame, W!thread,
       W!locks, FrameIsTrue, W!LinksAreNotSleptOn, W!AsleepForGood
<1>4. PoolIsInOrder'
    BY DEF WInv, W!WorkerEnds, W!ReadsFile, W!Begins, W!Fetched, W!core, W!locks,
       PoolIsInOrder, PoolIsDown
<1>5. JobsAreTrue'
    BY DEF JobsAreTrue, AtPlaces, OfTheHandle, WInv, W!WorkerEnds, W!ReadsFile, W!Begins,
       W!Fetched, W!core, W!locks
<1>6. AsksAreTrue'
    BY DEF AsksAreTrue, JobsAreTrue, WInv, W!WorkerEnds, W!ReadsFile, W!Begins, W!Fetched,
       W!core
<1> QED
    BY <1>1, <1>2, <1>3, <1>4, <1>5, <1>6 DEF WInv

\* A worker takes a job, which waits no more.
LEMMA WinTakeKeeps ==
    ASSUME WInv, NEW w \in Workers, W!Take(w) PROVE WInv'
<1>1. WindowIsInOrder'
    BY DEF WInv, W!Take, W!core, W!thread, W!locks, WindowIsInOrder
<1>2. FrameIsTyped'
    <2>1. quiet' \in 0 .. W!TicksBeforeStop + 1
        BY DEF WInv, W!Take, W!frame, FrameIsTyped
    <2> QED
        BY Zenon DEF WInv, W!Take, W!frame, W!thread, FrameIsTyped
<1>3. FrameIsTrue'
    BY DEF WInv, W!Take, W!core, W!frame, W!thread, W!locks, FrameIsTrue,
       W!LinksAreNotSleptOn, W!AsleepForGood
<1>4. PoolIsInOrder'
    BY DEF WInv, W!Take, W!core, W!locks, PoolIsInOrder, PoolIsDown
<1>5. JobsAreTrue'
    <2>1. PICK j \in queue : queue' = queue \ {j} /\ job' = [job EXCEPT ![w] = j]
        BY DEF W!Take
    <2>2. at[w] = "idle" /\ job[w] = None /\ at' = [at EXCEPT ![w] = "taken"]
        BY DEF WInv, JobsAreTrue, W!Take
    <2>3. j \in OfTheHandle /\ j \in W!Jobs
        <3>1. j \in OfTheHandle
            BY DEF WInv, JobsAreTrue
        <3>2. w_handle \in 1 .. WinMaxOpens
            BY DEF WInv, WindowIsInOrder, PoolIsInOrder, PoolIsDown
        <3>3. w_nextId - 1 \in 0 .. WinMaxIds
            BY ThreadBounds DEF WInv, AsksAreTrue
        <3> QED
            BY <3>1, <3>2, <3>3, ThreadBounds DEF W!Jobs, W!Ids, OfTheHandle
    <2>4. j # None /\ \A v \in Workers : job[v] # j
        BY <2>3, NoneIsNoJob DEF WInv, JobsAreTrue
    <2>5. UNCHANGED <<w_live, ended, link, dropped, OfTheHandle>>
        BY DEF W!Take, W!locks, W!core, OfTheHandle
    <2>6. at' \in [Workers -> AtPlaces] /\ job' \in [Workers -> W!Jobs \cup {None}]
        BY <2>1, <2>2, <2>3 DEF WInv, JobsAreTrue, AtPlaces
    <2>7. \A v \in Workers :
              /\ at'[v] = "reading" <=> at[v] = "reading"
              /\ at'[v] = "kicking" <=> at[v] = "kicking"
        BY <2>2
    <2>8. \A v \in Workers : at'[v] = "reading" => job'[v] = job[v]
        BY <2>1, <2>2
    <2>9. w_live' = {job'[v] : v \in {u \in Workers : at'[u] = "reading"}}
        BY <2>5, <2>7, <2>8 DEF WInv, JobsAreTrue
    <2> QED
        BY <2>1, <2>2, <2>4, <2>5, <2>6 DEF WInv, JobsAreTrue
<1>6. AsksAreTrue'
    BY DEF WInv, W!Take, W!core, AsksAreTrue
<1> QED
    BY <1>1, <1>2, <1>3, <1>4, <1>5, <1>6 DEF WInv

\* An answer is taken if its request is the handle's still, and so never one a mark cut off.
LEMMA WinRespondsKeeps ==
    ASSUME WInv, NEW w \in Workers, W!Responds(w) PROVE WInv'
<1>1. WindowIsInOrder'
    <2>1. w_handle # 0
        BY DEF WInv, W!Responds, WindowIsInOrder, PoolIsInOrder, PoolIsDown
    <2> QED
        BY <2>1 DEF WInv, W!Responds, W!thread, WindowIsInOrder
<1>2. FrameIsTyped'
    <2>1. quiet' \in 0 .. W!TicksBeforeStop + 1
        BY DEF WInv, W!Responds, W!frame, FrameIsTyped
    <2> QED
        BY Zenon DEF WInv, W!Responds, W!frame, W!thread, FrameIsTyped
<1>3. FrameIsTrue'
    BY NoneIsNobody DEF WInv, W!Responds, W!frame, W!thread, FrameIsTrue,
       W!LinksAreNotSleptOn, W!AsleepForGood
<1>4. PoolIsInOrder'
    BY DEF WInv, W!Responds, PoolIsInOrder, PoolIsDown
<1>5. JobsAreTrue'
    BY NoneIsNobody DEF WInv, W!Responds, JobsAreTrue, AtPlaces, OfTheHandle
<1>6. AsksAreTrue'
    <2>1. job[w] \in OfTheHandle /\ w_nextId - 1 \in 0 .. WinMaxIds
        BY ThreadBounds DEF WInv, JobsAreTrue, AsksAreTrue, W!Responds
    <2>2. job[w].id \in W!Ids /\ job[w].of = w_handle
        BY <2>1, ThreadBounds DEF OfTheHandle, W!Ids
    <2>3. job[w].id \in w_asked => at[w] \in {"whole", "failed", "cut"}
        BY DEF WInv, AsksAreTrue, W!Responds
    <2>4. inbox' \subseteq [id : W!Ids, of : {w_handle}, how : {"whole", "failed", "cut"}]
        BY <2>2 DEF WInv, AsksAreTrue, W!Responds
    <2>5. \A v \in Workers : at'[v] = "short" => at[v] = "short" /\ job'[v] = job[v]
        BY DEF WInv, JobsAreTrue, W!Responds
    <2> QED
        BY <2>4, <2>5 DEF WInv, AsksAreTrue, W!Responds
<1> QED
    BY <1>1, <1>2, <1>3, <1>4, <1>5, <1>6 DEF WInv

\* A worker kicks, gives link_mu up and has no job.
LEMMA WinRespondKicksKeeps ==
    ASSUME WInv, NEW w \in Workers, W!RespondKicks(w) PROVE WInv'
<1>1. WindowIsInOrder'
    BY DEF WInv, W!RespondKicks, W!core, WindowIsInOrder
<1>2. FrameIsTyped'
    <2>1. quiet' \in 0 .. W!TicksBeforeStop + 1
        BY DEF W!RespondKicks, W!Kick, W!TicksBeforeStop
    <2> QED
        BY <2>1, Zenon DEF WInv, W!RespondKicks, W!Kick, FrameIsTyped
<1>3. FrameIsTrue'
    BY DEF WInv, W!RespondKicks, W!Kick, FrameIsTrue, W!LinksAreNotSleptOn, W!AsleepForGood
<1>4. PoolIsInOrder'
    BY DEF WInv, W!RespondKicks, W!core, PoolIsInOrder, PoolIsDown
<1>5. JobsAreTrue'
    <2>1. link = w /\ link' = None /\ w # None
        BY NoneIsNobody DEF WInv, JobsAreTrue, W!RespondKicks
    <2>2. at' = [at EXCEPT ![w] = "idle"] /\ job' = [job EXCEPT ![w] = None]
        BY DEF W!RespondKicks
    <2>3. UNCHANGED <<queue, dropped, w_live, ended, OfTheHandle>>
        BY DEF W!RespondKicks, W!core, OfTheHandle
    <2>4. at' \in [Workers -> AtPlaces] /\ job' \in [Workers -> W!Jobs \cup {None}]
        BY <2>2 DEF WInv, JobsAreTrue, AtPlaces
    <2>5. \A v \in Workers : at'[v] = "reading" <=> at[v] = "reading"
        BY <2>2, <2>1 DEF WInv, JobsAreTrue
    <2>6. \A v \in Workers : at'[v] = "reading" => job'[v] = job[v]
        BY <2>2 DEF WInv, JobsAreTrue
    <2>7. w_live' = {job'[v] : v \in {u \in Workers : at'[u] = "reading"}}
        BY <2>3, <2>5, <2>6 DEF WInv, JobsAreTrue
    <2>8. \A v \in Workers : v # w => link # v /\ at[v] # "kicking"
        BY <2>1 DEF WInv, JobsAreTrue
    <2>9. \A v \in Workers : link' = v <=> at'[v] = "kicking"
        BY <2>1, <2>2, NoneIsNobody DEF WInv, JobsAreTrue
    <2> QED
        BY <2>1, <2>2, <2>3, <2>4, <2>9 DEF WInv, JobsAreTrue
<1>6. AsksAreTrue'
    BY DEF WInv, W!RespondKicks, W!core, AsksAreTrue
<1> QED
    BY <1>1, <1>2, <1>3, <1>4, <1>5, <1>6 DEF WInv

\* Nothing moves.
LEMMA WinRestKeeps == ASSUME WInv, UNCHANGED W!vars PROVE WInv'
<1>1. WindowIsInOrder' /\ FrameIsTrue' /\ PoolIsInOrder' /\ JobsAreTrue' /\ AsksAreTrue'
    BY DEF WInv, W!vars, W!core, W!frame, W!thread, W!pool, W!locks,
           WindowIsInOrder, FrameIsTrue, PoolIsInOrder, PoolIsDown, JobsAreTrue, OfTheHandle,
           AsksAreTrue, W!LinksAreNotSleptOn, W!AsleepForGood
<1>2. FrameIsTyped'
    BY Zenon DEF WInv, W!vars, W!frame, W!thread, FrameIsTyped
<1> QED
    BY <1>1, <1>2 DEF WInv

\* Every step of the three kinds of threads keeps it.
LEMMA WinNext == WInv /\ [W!Next]_W!vars => WInv'
<1> SUFFICES ASSUME WInv, [W!Next]_W!vars PROVE WInv'
    OBVIOUS
<1>1. CASE W!RenderTicks \/ W!RenderGoesOn \/ W!PluginPosts
    BY <1>1, WinRenderKeeps DEF W!RenderTicks, W!RenderGoesOn
<1>2. CASE W!SetterKicks \/ W!LinkChanges \/ W!Open \/ W!StopsRender \/ W!Detach \/ W!UiGoesOn
    BY <1>2, WinChangeKeeps, WinUiKeeps, WinOpenKeeps, WinAttachKeeps, WinStopsPoolKeeps,
       WinAbortsAllKeeps, WinAnswersDroppedKeeps, WinCloseKeeps DEF W!UiGoesOn
<1>3. ASSUME NEW who \in {"ui", "render"}, W!Ask(who) \/ \E i \in W!Ids : W!Cancel(who, i)
      PROVE  WInv'
    BY <1>3, WinAskKeeps, WinCancelKeeps
<1>4. ASSUME NEW w \in Workers, W!WorkerStep(w) PROVE WInv'
    BY <1>4, WinWorkerKeeps, WinTakeKeeps, WinRespondsKeeps, WinRespondKicksKeeps
    DEF W!WorkerStep
<1>5. CASE UNCHANGED W!vars
    BY <1>5, WinRestKeeps
<1> QED
    BY <1>1, <1>2, <1>3, <1>4, <1>5 DEF W!Next

-------------------------------------------------------------------------------
\* The inductive invariant of the Windows threads holds in every reachable state.
THEOREM WInvHolds == W!Spec => []WInv
BY InitWInv, WinNext, PTL DEF W!Spec

\* A behaviour of a shell is one of its part alone, while the other's rests.
LEMMA BothAreTheirs == BothSpec => Spec /\ W!Spec
<1>1. BothInit => Init /\ W!Init
    BY DEF BothInit
<1>2. [BothNext]_<<vars, windows, shell>> => [Next]_vars /\ [W!Next]_W!vars
    BY DEF BothNext, windows, W!vars, W!core, W!frame, W!thread, W!pool, W!locks
<1> QED
    BY <1>1, <1>2, PTL DEF BothSpec, Spec, W!Spec

\* On Linux the variables keep their types; in particular the holds never go below zero.
THEOREM TypeHolds == BothSpec => []TypeOK
BY BothAreTheirs, IInvHolds, PTL DEF IInv

\* On Linux the table is the fetches that may answer, the holds are counted, and no answer
\* reaches a handle that did not ask for it, however numbers are used again.
THEOREM FetcherHolds == BothSpec => []FetcherAddsUp
BY BothAreTheirs, IInvHolds, PTL DEF IInv

\* On Windows no thread is inside a handle that is closed, the pool is up whenever the
\* handle may ask it, nothing that a cancel or a stop cut off is taken for an answer, and
\* the render thread does not sleep on what a link changed or an answer brought.
THEOREM HandleHolds == BothSpec => []HandleIsSafe
<1>1. WInv => HandleIsSafe
    BY WInvIsEnough DEF HandleIsSafe
<1> QED
    BY <1>1, BothAreTheirs, WInvHolds, PTL

-------------------------------------------------------------------------------
(* The Linux plugins' windows                                                *)

\* The types of the core's plugin layer and of what is saved.
Cores == [open : BOOLEAN, loaded : SUBSET PL!Plugins, cfg : PL!Cfg, grant : BOOLEAN,
          said : {0, 1}, fresh : SUBSET PL!Plugins]
Saves == [nmea : PL!Rows \cup {Nil}, added : {0, 1, Nil}]

\* What a window w shows, over the core k.
LinuxShows(w, k) ==
    /\ w.up = "up" /\ ~w.refill => w.rows = PL!RowsOf(w) /\ w.offers \subseteq w.found
    /\ w.up = "up" /\ "added" \in w.has /\ ~w.reopen /\ "grant" \notin w.beside
         => w.grant = k.grant
    /\ w.up # "up" => /\ ~w.refill /\ ~w.poll /\ w.browse = "no" /\ w.calls = {}
                      /\ w.up = "held" <=> PL!IsHeld(w)
    /\ w.up = "no" => ~w.apply /\ w.has = {} /\ w.last.nmea = Nil

\* What a window w holds of the list, beside what is saved, s, and what the mariner
\* made of each plugin, m: where no other window edited or saved it beside this one,
\* the one or the other.
LinuxHolds(w, s, m) ==
    /\ "nmea" \notin w.has => DOMAIN w.cfg.nmea = {}
    /\ "nmea" \notin w.beside =>
         /\ w.last.nmea \in {Nil, s.nmea}
         /\ "nmea" \in w.has /\ s.nmea # Nil => w.cfg.nmea \in {s.nmea, m.nmea}

\* The timer of w saves v of the plugin p.
LinuxSaves(w, p, v) == w.apply /\ p \in PL!Moved(w) /\ w.cfg[p] = v

\* The list's plugin runs as it is on disk, and an open core runs every such plugin on
\* what is saved of it.
CoreRuns(k, s) ==
    /\ "nmea" \in k.loaded \ k.fresh
    /\ k.open => \A p \in k.loaded \ k.fresh : s[p] # Nil => k.cfg[p] = s[p]

\* The inductive invariant of the Linux windows.
LinuxPluginsInv ==
    /\ core \in Cores /\ store \in Saves /\ past \in Saves /\ minted \in SUBSET {1, 2}
    /\ screen \in [LinuxSlots -> PL!WinType] /\ aux \in {0} \cup LinuxSlots
    /\ aux # 0 => screen[aux].up = "up"
    /\ \A s \in LinuxSlots : LinuxShows(screen[s], core) /\ LinuxHolds(screen[s], store, past)
    /\ \A p \in PL!Plugins : past[p] # Nil =>
         \E s \in LinuxSlots : LinuxSaves(screen[s], p, past[p])
    /\ CoreRuns(core, store)

\* What a configuration is made of.
LEMMA Cfgs ==
    ASSUME NEW c \in PL!Cfg
    PROVE  /\ c.nmea \in PL!Rows /\ c.added \in {0, 1} /\ c["nmea"] = c.nmea /\ c["added"] = c.added
           /\ DOMAIN c.nmea \subseteq {1, 2}
           /\ \A i \in DOMAIN c.nmea : c.nmea[i] \in PL!Texts
<1>1. c.nmea \in PL!Rows /\ c.added \in {0, 1} /\ c["nmea"] = c.nmea /\ c["added"] = c.added
    BY DEF PL!Cfg
<1>2. PICK s \in SUBSET {1, 2} : c.nmea \in [s -> PL!Texts]
    BY <1>1 DEF PL!Rows
<1> QED
    BY <1>1, <1>2

\* A list over some of the rows is one of the lists.
LEMMA Row == ASSUME NEW s \in SUBSET {1, 2}, NEW r \in [s -> PL!Texts] PROVE r \in PL!Rows
BY DEF PL!Rows

\* The defaults are a configuration with an empty list, and nothing saved is a save.
LEMMA Defaults == PL!Default \in PL!Cfg /\ DOMAIN PL!Default.nmea = {} /\ PL!Nothing \in Saves
<1>1. [i \in {} |-> ""] \in [{} -> PL!Texts]
    OBVIOUS
<1>2. [i \in {} |-> ""] \in PL!Rows
    BY <1>1, Row
<1> QED
    BY <1>2 DEF PL!Default, PL!Cfg, PL!Nothing, PL!Plugins, Saves

\* A row added or written over leaves a configuration.
LEMMA RowAdded ==
    ASSUME NEW c \in PL!Cfg, NEW i \in {1, 2}, NEW text \in PL!Texts
    PROVE  /\ PL!WithRow(c, i, text) \in PL!Cfg
           /\ PL!WithRow(c, i, text)["added"] = c["added"]
<1>1. [j \in DOMAIN c.nmea \cup {i} |-> IF j = i THEN text ELSE c.nmea[j]] \in PL!Rows
    BY Cfgs, Row
<1> QED
    BY <1>1 DEF PL!WithRow, PL!Cfg

\* What the mariner made of a plugin is noted where it is not what is saved.
LEMMA PluginMade ==
    ASSUME NEW s \in Saves, past \in Saves, NEW p \in PL!Plugins, NEW cfg \in PL!Cfg, NEW known,
           PL!Make(p, cfg, known)
    PROVE  /\ past' \in Saves
           /\ \A q \in PL!Plugins \ {p} : past'[q] = past[q]
           /\ past'[p] = IF cfg[p] \in known THEN Nil ELSE cfg[p]
BY Cfgs DEF PL!Make, Saves, PL!Plugins

\* Some plugins are handed to the core and saved.
LEMMA Handed ==
    ASSUME core \in Cores, store \in Saves, past \in Saves, NEW ps \in SUBSET PL!Plugins,
           NEW cfg \in PL!Cfg,
           core' = PL!Pushed(core, ps, cfg), PL!Save(ps, cfg), CoreRuns(core, store)
    PROVE  /\ core' \in Cores /\ store' \in Saves /\ past' \in Saves /\ CoreRuns(core', store')
           /\ \A p \in PL!Plugins : past'[p] = IF past[p] = store'[p] THEN Nil ELSE past[p]
           /\ \A p \in ps : store'[p] = cfg[p]
           /\ \A p \in PL!Plugins \ ps : store'[p] = store[p]
           /\ core'.grant = core.grant
<1>1. core' \in Cores
    BY DEF PL!Plugins, PL!Pushed, Cores, PL!Cfg
<1>2. store' \in Saves /\ past' \in Saves
    BY DEF PL!Plugins, PL!Save, Saves, PL!Cfg
<1>3. /\ \A p \in PL!Plugins : past'[p] = IF past[p] = store'[p] THEN Nil ELSE past[p]
      /\ \A p \in ps : store'[p] = cfg[p]
      /\ \A p \in PL!Plugins \ ps : store'[p] = store[p]
    BY DEF PL!Save
<1>4. core'.grant = core.grant /\ core'.open = core.open /\ core'.loaded = core.loaded
    BY DEF PL!Pushed, Cores
<1>5. CoreRuns(core', store')
    <2>0. "nmea" \in core'.loaded \ core'.fresh
        BY DEF PL!Pushed, Cores, CoreRuns
    <2> SUFFICES ASSUME core'.open, NEW p \in core'.loaded \ core'.fresh, store'[p] # Nil
                 PROVE  core'.cfg[p] = store'[p]
        BY <2>0 DEF CoreRuns
    <2>1. p \in core.loaded /\ p \in PL!Plugins /\ core.open
        BY <1>4 DEF Cores
    <2>2. CASE p \in ps
        BY <2>1, <2>2, <1>3 DEF PL!Pushed, Cores
    <2>3. CASE p \notin ps
        BY <2>1, <2>3, <1>3 DEF PL!Pushed, Cores, CoreRuns
    <2> QED
        BY <2>2, <2>3
<1> QED
    BY <1>1, <1>2, <1>3, <1>4, <1>5

\* A window beside which another one edits or saves keeps all but the note of it.
LEMMA LinuxBeside ==
    ASSUME NEW w \in PL!WinType, NEW what
    PROVE  LET o == PL!Overtaken(w, what) IN
           /\ o \in PL!WinType
           /\ \A p \in PL!Plugins : \A v : LinuxSaves(o, p, v) <=> LinuxSaves(w, p, v)
           /\ o.up = w.up /\ o.apply = w.apply /\ o.cfg = w.cfg /\ o.has = w.has
           /\ o.last = w.last
           /\ \A k : LinuxShows(w, k) => LinuxShows(o, k)
           /\ \A k, l : LinuxShows(w, k) /\ "grant" \in what => LinuxShows(o, l)
           /\ \A s, m : LinuxHolds(w, s, m) => LinuxHolds(o, s, m)
           /\ w.up # "no" /\ "nmea" \in what => "nmea" \in o.beside
           /\ what = {} => o = w
<1> DEFINE o == PL!Overtaken(w, what)
           b == w.beside \cup (what \cap {"nmea", "grant"})
<1>1. CASE w.up = "no"
    <2>1. o = w
        BY <1>1 DEF PL!Overtaken
    <2> QED
        BY <1>1, <2>1 DEF LinuxShows
<1>2. CASE w.up # "no"
    <2>1. o = [w EXCEPT !.beside = b]
        BY <1>2 DEF PL!Overtaken
    <2>2. b \in SUBSET {"nmea", "grant"}
        BY DEF PL!WinType
    <2>3. ("nmea" \in what => "nmea" \in b) /\ ("grant" \in what => "grant" \in b) /\ w.beside \subseteq b
        OBVIOUS
    <2>4. what = {} => b = w.beside
        OBVIOUS
    <2> HIDE DEF o, b
    <2>5. /\ o \in PL!WinType /\ o.beside = b /\ o.up = w.up /\ o.apply = w.apply
          /\ o.cfg = w.cfg
          /\ o.has = w.has /\ o.last = w.last /\ o.refill = w.refill /\ o.rows = w.rows
          /\ o.offers = w.offers /\ o.found = w.found /\ o.reopen = w.reopen
          /\ o.grant = w.grant
          /\ o.poll = w.poll /\ o.browse = w.browse /\ o.calls = w.calls /\ o.task = w.task
        BY <2>1, <2>2 DEF PL!WinType
    <2>6. what = {} => o = w
        BY <2>1, <2>4 DEF PL!WinType
    <2>7. PL!RowsOf(o) = PL!RowsOf(w) /\ PL!Moved(o) = PL!Moved(w) /\ (PL!IsHeld(o) <=> PL!IsHeld(w))
        BY <2>5 DEF PL!RowsOf, PL!Moved, PL!IsHeld
    <2>8. \A p \in PL!Plugins : \A v : LinuxSaves(o, p, v) <=> LinuxSaves(w, p, v)
        BY <2>5, <2>7 DEF LinuxSaves
    <2>9. \A k : LinuxShows(w, k) => LinuxShows(o, k)
        BY <2>3, <2>5, <2>7 DEF LinuxShows
    <2>10. \A k, l : LinuxShows(w, k) /\ "grant" \in what => LinuxShows(o, l)
        BY <2>3, <2>5, <2>7 DEF LinuxShows
    <2>11. \A s, m : LinuxHolds(w, s, m) => LinuxHolds(o, s, m)
        BY <2>3, <2>5 DEF LinuxHolds
    <2> QED
        BY <2>3, <2>5, <2>6, <2>8, <2>9, <2>10, <2>11 DEF o
<1> QED
    BY <1>1, <1>2

\* A step of the windows in T, beside which those of the others are overtaken in what.
LEMMA LinuxStep ==
    ASSUME LinuxPluginsInv, NEW T \in SUBSET LinuxSlots, NEW what,
           screen' \in [LinuxSlots -> PL!WinType],
           \A t \in LinuxSlots \ T : screen'[t] = PL!Overtaken(screen[t], what),
           \A t \in T : LinuxShows(screen'[t], core') /\ LinuxHolds(screen'[t], store', past'),
           core' \in Cores, store' \in Saves, past' \in Saves, minted' \in SUBSET {1, 2},
           CoreRuns(core', store'),
           core'.grant = core.grant \/ "grant" \in what,
           \/ "nmea" \in what
           \/ store'.nmea = store.nmea /\ (past'.nmea = past.nmea \/ past.nmea = store.nmea),
           \A p \in PL!Plugins : past'[p] # Nil =>
               \/ \E t \in T : LinuxSaves(screen'[t], p, past'[p])
               \/ past'[p] = past[p] /\ \A t \in T : ~LinuxSaves(screen[t], p, past[p]),
           aux' \in {0} \cup LinuxSlots, aux' \in T => screen'[aux'].up = "up",
           aux' \notin T => aux' \in {0, aux}
    PROVE  LinuxPluginsInv'
<1>1. ASSUME NEW t \in LinuxSlots
      PROVE  LinuxShows(screen'[t], core') /\ LinuxHolds(screen'[t], store', past')
    <2> DEFINE w == screen[t]
               o == PL!Overtaken(w, what)
    <2>1. CASE t \notin T
        <3>1. /\ w \in PL!WinType /\ screen'[t] = o /\ LinuxShows(w, core)
              /\ LinuxHolds(w, store, past)
            BY <2>1 DEF LinuxPluginsInv
        <3> HIDE DEF w
        <3>2. /\ \A k : LinuxShows(w, k) => LinuxShows(o, k)
              /\ \A k, l : LinuxShows(w, k) /\ "grant" \in what => LinuxShows(o, l)
              /\ \A s, m : LinuxHolds(w, s, m) => LinuxHolds(o, s, m)
              /\ o.up = w.up /\ o.cfg = w.cfg /\ o.has = w.has /\ o.last = w.last
              /\ w.up # "no" /\ "nmea" \in what => "nmea" \in o.beside
              /\ o \in PL!WinType
            BY <3>1, LinuxBeside
        <3> HIDE DEF o
        <3>3. LinuxShows(o, core')
            <4>1. CASE "grant" \in what
                BY <3>1, <3>2, <4>1
            <4>2. CASE core'.grant = core.grant
                BY <3>1, <3>2, <4>2 DEF LinuxShows
            <4> QED
                BY <4>1, <4>2
        <3>4. LinuxHolds(o, store, past)
            BY <3>1, <3>2
        <3>5. LinuxHolds(o, store', past')
            <4>1. CASE w.up # "no" /\ "nmea" \in what
                BY <3>2, <3>4, <4>1 DEF LinuxHolds
            <4>2. CASE w.up = "no"
                <5>1. o.has = {} /\ o.last.nmea = Nil
                    BY <3>1, <3>2, <4>2 DEF LinuxShows
                <5> QED
                    BY <3>4, <5>1 DEF LinuxHolds
            <4>3. CASE store'.nmea = store.nmea /\ (past'.nmea = past.nmea \/ past.nmea = store.nmea)
                BY <3>4, <4>3 DEF LinuxHolds
            <4> QED
                BY <4>1, <4>2, <4>3
        <3> QED
            BY <3>1, <3>3, <3>5
    <2> QED
        BY <2>1
<1>2. ASSUME NEW p \in PL!Plugins, past'[p] # Nil
      PROVE  \E s \in LinuxSlots : LinuxSaves(screen'[s], p, past'[p])
    <2>1. CASE past'[p] = past[p] /\ \A t \in T : ~LinuxSaves(screen[t], p, past[p])
        <3>1. PICK s \in LinuxSlots \ T : LinuxSaves(screen[s], p, past[p])
            BY <1>2, <2>1 DEF LinuxPluginsInv
        <3>2. screen[s] \in PL!WinType /\ screen'[s] = PL!Overtaken(screen[s], what)
            BY DEF LinuxPluginsInv
        <3> QED
            BY <2>1, <3>1, <3>2, LinuxBeside
    <2> QED
        BY <1>2, <2>1
<1>3. aux' # 0 => screen'[aux'].up = "up"
    <2>1. CASE aux' # 0 /\ aux' \notin T
        <3>1. /\ aux' = aux /\ aux \in LinuxSlots /\ screen[aux] \in PL!WinType
              /\ screen[aux].up = "up"
              /\ screen'[aux] = PL!Overtaken(screen[aux], what)
            BY <2>1 DEF LinuxPluginsInv
        <3> QED
            BY <3>1, LinuxBeside
    <2> QED
        BY <2>1
<1> QED
    BY <1>1, <1>2, <1>3 DEF LinuxPluginsInv

\* What the invariant says of a window's types.
LEMMA LinuxTyped ==
    ASSUME LinuxPluginsInv, NEW s \in LinuxSlots
    PROVE  /\ screen[s] \in PL!WinType /\ screen[s].cfg \in PL!Cfg
           /\ screen[s].has \subseteq PL!Plugins
           /\ LinuxShows(screen[s], core) /\ LinuxHolds(screen[s], store, past)
BY DEF LinuxPluginsInv, PL!WinType

\* A step that puts the window w down, in the slot s.
LEMMA LinuxPut ==
    ASSUME LinuxPluginsInv, NEW s \in LinuxSlots, NEW w \in PL!WinType, NEW what,
           (PL!Put(s, w) /\ what = {}) \/ PL!Change(s, w, what)
    PROVE  /\ screen' \in [LinuxSlots -> PL!WinType] /\ screen'[s] = w
           /\ \A t \in LinuxSlots \ {s} : screen'[t] = PL!Overtaken(screen[t], what)
<1>1. ASSUME NEW t \in LinuxSlots
      PROVE  /\ screen[t] \in PL!WinType /\ PL!Overtaken(screen[t], what) \in PL!WinType
             /\ what = {} => PL!Overtaken(screen[t], what) = screen[t]
    BY LinuxBeside DEF LinuxPluginsInv
<1>2. CASE PL!Put(s, w) /\ what = {}
    BY <1>1, <1>2 DEF PL!Put, LinuxPluginsInv
<1>3. CASE PL!Change(s, w, what)
    BY <1>1, <1>3 DEF PL!Change
<1> QED
    BY <1>2, <1>3

\* A step that leaves the copy as it is.
LEMMA LinuxQuiet ==
    ASSUME LinuxPluginsInv, NEW s \in LinuxSlots, NEW w \in PL!WinType, NEW what,
           (PL!Put(s, w) /\ what = {}) \/ PL!Change(s, w, what),
           w.cfg = screen[s].cfg, w.has = screen[s].has, w.last = screen[s].last,
           w.apply = screen[s].apply, "nmea" \in screen[s].beside => "nmea" \in w.beside,
           core' \in Cores, CoreRuns(core', store),
           core'.grant = core.grant \/ "grant" \in what,
           LinuxShows(w, core'), past' \in Saves, past'.nmea = past.nmea,
           \A p \in PL!Plugins : past'[p] \in {past[p], Nil},
           UNCHANGED <<store, minted>>, aux' \in {0, aux}, aux' = s => w.up = "up"
    PROVE  LinuxPluginsInv'
<1>1. /\ screen' \in [LinuxSlots -> PL!WinType] /\ screen'[s] = w
      /\ \A t \in LinuxSlots \ {s} : screen'[t] = PL!Overtaken(screen[t], what)
    BY LinuxPut, SMTT(60)
<1>2. LinuxHolds(w, store', past')
    BY DEF LinuxPluginsInv, LinuxHolds
<1>3. ASSUME NEW p \in PL!Plugins, past'[p] # Nil
      PROVE  LinuxSaves(w, p, past'[p]) \/ (past'[p] = past[p] /\ ~LinuxSaves(screen[s], p, past[p]))
    BY <1>3 DEF LinuxSaves, PL!Moved
<1>4. /\ store' \in Saves /\ minted' \in SUBSET {1, 2} /\ aux' \in {0} \cup LinuxSlots
      /\ CoreRuns(core', store') /\ store'.nmea = store.nmea
    BY DEF LinuxPluginsInv
<1> DEFINE T == {s}
<1>5. /\ T \in SUBSET LinuxSlots
      /\ \A t \in LinuxSlots \ T : screen'[t] = PL!Overtaken(screen[t], what)
      /\ \A t \in T : LinuxShows(screen'[t], core') /\ LinuxHolds(screen'[t], store', past')
      /\ \A p \in PL!Plugins : past'[p] # Nil =>
               \/ \E t \in T : LinuxSaves(screen'[t], p, past'[p])
               \/ past'[p] = past[p] /\ \A t \in T : ~LinuxSaves(screen[t], p, past[p])
      /\ aux' \in T => screen'[aux'].up = "up"
    BY <1>1, <1>2, <1>3
<1> HIDE DEF T
<1> QED
    BY <1>1, <1>4, <1>5, LinuxStep

\* A step that edits the copy of a plugin the window has.
LEMMA LinuxEdited ==
    ASSUME LinuxPluginsInv, NEW s \in LinuxSlots, NEW p \in PL!Plugins, p \in screen[s].has,
           NEW w \in PL!WinType, PL!Edit(s, p, w), w.apply = TRUE, w.has = screen[s].has,
           w.last = screen[s].last, w.beside = screen[s].beside, w.up = "up",
           \A q \in PL!Plugins \ {p} : w.cfg[q] = screen[s].cfg[q],
           LinuxShows(w, core), UNCHANGED <<core, store, aux>>, minted' \in SUBSET {1, 2}
    PROVE  LinuxPluginsInv'
<1>1. /\ screen' \in [LinuxSlots -> PL!WinType] /\ screen'[s] = w
      /\ \A t \in LinuxSlots \ {s} : screen'[t] = PL!Overtaken(screen[t], {p})
    BY LinuxPut DEF PL!Edit
<1>2. /\ past' \in Saves
      /\ \A q \in PL!Plugins \ {p} : past'[q] = past[q]
      /\ past'[p] = IF w.cfg[p] \in {store[p], screen[s].last[p]} THEN Nil ELSE w.cfg[p]
    <2>1. w.cfg \in PL!Cfg /\ PL!Make(p, w.cfg, {store[p], screen[s].last[p]})
        BY DEF PL!Edit, PL!WinType
    <2> QED
        BY <2>1, PluginMade DEF LinuxPluginsInv
<1>3. LinuxHolds(w, store, past')
    <2>1. LinuxHolds(screen[s], store, past) /\ w.cfg \in PL!Cfg
        BY LinuxTyped DEF PL!WinType
    <2>2. CASE p = "nmea"
        <3>1. w.cfg.nmea # Nil
            BY <2>1, Cfgs, NilIsNoList
        <3> QED
            BY <1>2, <2>1, <2>2, <3>1 DEF LinuxHolds
    <2>3. CASE p = "added"
        BY <1>2, <2>1, <2>3 DEF LinuxHolds, PL!Plugins
    <2> QED
        BY <2>2, <2>3 DEF PL!Plugins
<1>4. ASSUME NEW q \in PL!Plugins, past'[q] # Nil
      PROVE  LinuxSaves(w, q, past'[q]) \/ (past'[q] = past[q] /\ ~LinuxSaves(screen[s], q, past[q]))
    BY <1>2, <1>4 DEF LinuxSaves, PL!Moved
<1>5. /\ store' \in Saves /\ aux' \in {0} \cup LinuxSlots
      /\ CoreRuns(core', store') /\ store'.nmea = store.nmea /\ core' \in Cores
    BY DEF LinuxPluginsInv
<1>6. "nmea" \in {p} \/ past'.nmea = past.nmea
    BY <1>2 DEF PL!Plugins
<1> DEFINE T == {s}
           what == {p}
<1>7. /\ T \in SUBSET LinuxSlots
      /\ \A t \in LinuxSlots \ T : screen'[t] = PL!Overtaken(screen[t], what)
      /\ \A t \in T : LinuxShows(screen'[t], core') /\ LinuxHolds(screen'[t], store', past')
      /\ \A q \in PL!Plugins : past'[q] # Nil =>
               \/ \E t \in T : LinuxSaves(screen'[t], q, past'[q])
               \/ past'[q] = past[q] /\ \A t \in T : ~LinuxSaves(screen[t], q, past[q])
      /\ aux' \in T => screen'[aux'].up = "up"
    BY <1>1, <1>3, <1>4
<1> HIDE DEF T, what
<1> QED
    BY <1>1, <1>2, <1>5, <1>6, <1>7, LinuxStep DEF what

\* A step that hands over what the window has edited, or nothing while it keeps that;
\* another one may be built beside it, or in its place.
LEMMA LinuxHanded ==
    ASSUME LinuxPluginsInv, NEW s \in LinuxSlots, NEW ps, ps \in {{}, PL!Flushed(screen[s])},
           core' = PL!Pushed(core, ps, screen[s].cfg), PL!Save(ps, screen[s].cfg),
           NEW T \in SUBSET LinuxSlots, s \in T, \A t \in T \ {s} : ~screen[t].apply,
           screen' \in [LinuxSlots -> PL!WinType],
           \A t \in LinuxSlots \ T : screen'[t] = PL!Overtaken(screen[t], ps),
           \A t \in T : LinuxShows(screen'[t], core') /\ LinuxHolds(screen'[t], store', past'),
           ps = {} => \/ ~screen[s].apply
                      \/ \A p \in PL!Plugins : \A v : LinuxSaves(screen[s], p, v) => LinuxSaves(screen'[s], p, v),
           minted' = minted, aux' \in {0, aux}, aux' \in T => screen'[aux'].up = "up"
    PROVE  LinuxPluginsInv'
<1>1. ps \in SUBSET PL!Plugins /\ screen[s].cfg \in PL!Cfg
    BY LinuxTyped DEF PL!Flushed, PL!Moved
<1>2. /\ core' \in Cores /\ store' \in Saves /\ past' \in Saves /\ CoreRuns(core', store')
      /\ \A p \in PL!Plugins : past'[p] = IF past[p] = store'[p] THEN Nil ELSE past[p]
      /\ \A p \in ps : store'[p] = screen[s].cfg[p]
      /\ \A p \in PL!Plugins \ ps : store'[p] = store[p]
      /\ core'.grant = core.grant
    BY <1>1, Handed DEF LinuxPluginsInv
<1>3. \/ "nmea" \in ps
      \/ store'.nmea = store.nmea /\ (past'.nmea = past.nmea \/ past.nmea = store.nmea)
    BY <1>2 DEF PL!Plugins
<1>4. ASSUME NEW p \in PL!Plugins, past'[p] # Nil
      PROVE  \/ \E t \in T : LinuxSaves(screen'[t], p, past'[p])
             \/ past'[p] = past[p] /\ \A t \in T : ~LinuxSaves(screen[t], p, past[p])
    <2>1. past'[p] = past[p] /\ past[p] # store'[p]
        BY <1>2, <1>4
    <2>2. CASE LinuxSaves(screen[s], p, past[p])
        <3>1. screen[s].apply /\ p \in PL!Moved(screen[s]) /\ screen[s].cfg[p] = past[p]
            BY <2>2 DEF LinuxSaves
        <3>2. p \notin ps
            BY <1>2, <2>1, <3>1
        <3>3. ps = {}
            BY <3>1, <3>2 DEF PL!Flushed
        <3> QED
            BY <2>1, <2>2, <3>1, <3>3
    <2>3. CASE ~LinuxSaves(screen[s], p, past[p])
        BY <2>1, <2>3 DEF LinuxSaves
    <2> QED
        BY <2>2, <2>3
<1>5. minted' \in SUBSET {1, 2} /\ aux' \in {0} \cup LinuxSlots
    BY DEF LinuxPluginsInv
<1> QED
    BY <1>2, <1>3, <1>4, <1>5, LinuxStep

\* A number is set, or a group put back to its defaults.
LEMMA LinuxNumberSet ==
    ASSUME LinuxPluginsInv, NEW s \in LinuxSlots, PL!SetNumber(s) \/ PL!ResetGroup(s)
    PROVE  LinuxPluginsInv'
<1>1. screen[s] \in PL!WinType /\ screen[s].cfg \in PL!Cfg /\ LinuxShows(screen[s], core)
    BY LinuxTyped
<1>2. PICK n \in {0, 1} : PL!Edit(s, "added", PL!Edited(screen[s], [screen[s].cfg EXCEPT !.added = n]))
    BY <1>1 DEF PL!SetNumber, PL!ResetGroup, PL!Default, PL!Cfg
<1>3. /\ screen[s].up = "up" /\ "added" \in screen[s].has
      /\ core' = core /\ store' = store /\ minted' = minted /\ aux' = aux
    BY DEF PL!SetNumber, PL!ResetGroup, PL!Up
<1> DEFINE cfg == [screen[s].cfg EXCEPT !.added = n]
           w == PL!Edited(screen[s], cfg)
<1>4. cfg \in PL!Cfg /\ cfg["nmea"] = screen[s].cfg["nmea"] /\ cfg.nmea = screen[s].cfg.nmea
    BY <1>1 DEF PL!Cfg
<1>5. PL!Edit(s, "added", w)
    BY <1>2
<1> HIDE DEF cfg
<1>6. /\ w \in PL!WinType /\ w.cfg = cfg /\ w.apply = TRUE /\ w.has = screen[s].has
      /\ w.last = screen[s].last /\ w.beside = screen[s].beside /\ w.up = "up"
      /\ w.refill = screen[s].refill /\ w.rows = screen[s].rows /\ w.offers = screen[s].offers
      /\ w.found = screen[s].found /\ w.reopen = screen[s].reopen /\ w.grant = screen[s].grant
    BY <1>1, <1>3, <1>4 DEF PL!WinType, PL!Edited
<1> HIDE DEF w
<1>7. LinuxShows(w, core)
    BY <1>1, <1>3, <1>4, <1>6 DEF LinuxShows, PL!RowsOf
<1>8. minted' \in SUBSET {1, 2} /\ "added" \in PL!Plugins /\ PL!Plugins \ {"added"} = {"nmea"}
    BY <1>3 DEF LinuxPluginsInv, PL!Plugins
<1> QED
    BY <1>3, <1>4, <1>5, <1>6, <1>7, <1>8, LinuxEdited

\* A step that edits the list and leaves the window up.
LEMMA LinuxListEdited ==
    ASSUME LinuxPluginsInv, NEW s \in LinuxSlots, NEW w \in PL!WinType, PL!Edit(s, "nmea", w),
           screen[s].up = "up", "nmea" \in screen[s].has, w.cfg.added = screen[s].cfg.added,
           w.apply = TRUE, w.has = screen[s].has, w.last = screen[s].last,
           w.beside = screen[s].beside, w.up = "up", w.reopen = screen[s].reopen,
           w.grant = screen[s].grant,
           w.refill \/ (w.rows = PL!RowsOf(w) /\ w.offers \subseteq w.found),
           UNCHANGED <<core, store, aux>>, minted' \in SUBSET {1, 2}
    PROVE  LinuxPluginsInv'
<1>1. screen[s].cfg \in PL!Cfg /\ LinuxShows(screen[s], core) /\ w.cfg \in PL!Cfg
    BY LinuxTyped DEF PL!WinType
<1>2. LinuxShows(w, core)
    BY <1>1 DEF LinuxShows
<1>3. /\ "nmea" \in PL!Plugins /\ PL!Plugins \ {"nmea"} = {"added"}
      /\ w.cfg["added"] = screen[s].cfg["added"]
    BY <1>1, Cfgs DEF PL!Plugins
<1> QED
    BY <1>2, <1>3, LinuxEdited

\* A row is added for an offered host.
LEMMA LinuxRowAdded ==
    ASSUME LinuxPluginsInv, NEW s \in LinuxSlots, NEW text \in PL!Texts, PL!AddRow(s, text)
    PROVE  LinuxPluginsInv'
<1>1. screen[s] \in PL!WinType /\ screen[s].cfg \in PL!Cfg
    BY LinuxTyped
<1>2. PICK i \in {1, 2} :
          /\ minted' = minted \cup {i}
          /\ LET cfg == PL!WithRow(screen[s].cfg, i, text)
             IN PL!Edit(s, "nmea", [PL!Edited(screen[s], cfg) EXCEPT !.refill = TRUE])
    BY DEF PL!AddRow
<1>3. /\ screen[s].up = "up" /\ "nmea" \in screen[s].has
      /\ core' = core /\ store' = store /\ aux' = aux
    BY DEF PL!AddRow, PL!Up
<1> DEFINE cfg == PL!WithRow(screen[s].cfg, i, text)
           w == [PL!Edited(screen[s], cfg) EXCEPT !.refill = TRUE]
<1>4. cfg \in PL!Cfg /\ cfg.added = screen[s].cfg.added
    BY <1>1, RowAdded, Cfgs
<1>5. PL!Edit(s, "nmea", w)
    BY <1>2
<1> HIDE DEF cfg
<1>6. /\ w \in PL!WinType /\ w.cfg = cfg /\ w.apply = TRUE /\ w.has = screen[s].has
      /\ w.last = screen[s].last /\ w.beside = screen[s].beside /\ w.up = "up" /\ w.refill
      /\ w.reopen = screen[s].reopen /\ w.grant = screen[s].grant
    BY <1>1, <1>3, <1>4 DEF PL!WinType, PL!Edited
<1> HIDE DEF w
<1>7. minted' \in SUBSET {1, 2}
    BY <1>2 DEF LinuxPluginsInv
<1> QED
    BY <1>3, <1>4, <1>5, <1>6, <1>7, LinuxListEdited

\* A row is removed.
LEMMA LinuxRowRemoved ==
    ASSUME LinuxPluginsInv, NEW s \in LinuxSlots, NEW i \in {1, 2}, PL!RemoveRow(s, i)
    PROVE  LinuxPluginsInv'
<1>1. /\ screen[s].up = "up" /\ UNCHANGED <<core, store, minted, aux>>
    BY DEF PL!RemoveRow, PL!Up
<1>2. /\ screen[s] \in PL!WinType /\ screen[s].cfg \in PL!Cfg
      /\ LinuxShows(screen[s], core) /\ LinuxHolds(screen[s], store, past)
    BY LinuxTyped
<1>3. CASE i \in DOMAIN screen[s].cfg.nmea
    <2> DEFINE rows == [j \in DOMAIN screen[s].cfg.nmea \ {i} |-> screen[s].cfg.nmea[j]]
               cfg == [screen[s].cfg EXCEPT !.nmea = rows]
               w == [PL!Edited(screen[s], cfg) EXCEPT !.refill = TRUE]
    <2>1. PL!Edit(s, "nmea", w)
        BY <1>3 DEF PL!RemoveRow
    <2>2. rows \in PL!Rows
        BY <1>2, Cfgs, Row
    <2> HIDE DEF rows
    <2>3. cfg \in PL!Cfg /\ cfg.added = screen[s].cfg.added
        BY <1>2, <2>2 DEF PL!Cfg
    <2> HIDE DEF cfg
    <2>4. /\ w \in PL!WinType /\ w.cfg = cfg /\ w.apply = TRUE /\ w.has = screen[s].has
          /\ w.last = screen[s].last /\ w.beside = screen[s].beside /\ w.up = "up" /\ w.refill
          /\ w.reopen = screen[s].reopen /\ w.grant = screen[s].grant
        BY <1>1, <1>2, <2>3 DEF PL!WinType, PL!Edited
    <2> HIDE DEF w
    <2>5. "nmea" \in screen[s].has /\ minted' \in SUBSET {1, 2}
        BY <1>1, <1>2, <1>3 DEF LinuxPluginsInv, LinuxHolds
    <2> QED
        BY <1>1, <2>1, <2>3, <2>4, <2>5, LinuxListEdited
<1>4. CASE i \notin DOMAIN screen[s].cfg.nmea
    <2> DEFINE w == [screen[s] EXCEPT !.refill = TRUE]
    <2>1. PL!Put(s, w) /\ past' = past
        BY <1>4 DEF PL!RemoveRow
    <2>2. /\ w \in PL!WinType /\ w.cfg = screen[s].cfg /\ w.apply = screen[s].apply
          /\ w.has = screen[s].has /\ w.last = screen[s].last /\ w.beside = screen[s].beside
          /\ w.up = "up" /\ w.refill /\ w.reopen = screen[s].reopen /\ w.grant = screen[s].grant
        BY <1>1, <1>2 DEF PL!WinType
    <2> HIDE DEF w
    <2>3. LinuxShows(w, core')
        BY <1>1, <1>2, <2>2 DEF LinuxShows
    <2>4. core' \in Cores /\ CoreRuns(core', store) /\ past' \in Saves
        BY <1>1, <2>1 DEF LinuxPluginsInv
    <2> QED
        BY <1>1, <2>1, <2>2, <2>3, <2>4, LinuxQuiet
<1> QED
    BY <1>3, <1>4

\* Typing touches nothing yet.
LEMMA LinuxTyping ==
    ASSUME LinuxPluginsInv, NEW s \in LinuxSlots, NEW i \in {1, 2}, NEW text \in PL!Texts,
           PL!Type(s, i, text)
    PROVE  LinuxPluginsInv'
<1> DEFINE typed == [row |-> i, text |-> text]
           w == [screen[s] EXCEPT !.typed = typed]
<1>1. PL!Put(s, w) /\ UNCHANGED <<core, store, past, minted, aux>> /\ screen[s].up = "up"
    BY DEF PL!Type, PL!Up
<1>2. /\ screen[s] \in PL!WinType /\ LinuxShows(screen[s], core)
      /\ typed \in [row : {1, 2}, text : PL!Texts]
    BY LinuxTyped
<1> HIDE DEF typed
<1>3. /\ w \in PL!WinType /\ w.cfg = screen[s].cfg /\ w.apply = screen[s].apply
      /\ w.has = screen[s].has /\ w.last = screen[s].last /\ w.beside = screen[s].beside
      /\ w.up = "up" /\ w.refill = screen[s].refill /\ w.reopen = screen[s].reopen
      /\ w.grant = screen[s].grant /\ w.rows = screen[s].rows /\ w.offers = screen[s].offers
      /\ w.found = screen[s].found
    BY <1>1, <1>2 DEF PL!WinType
<1> HIDE DEF w
<1>4. LinuxShows(w, core')
    BY <1>1, <1>2, <1>3 DEF LinuxShows, PL!RowsOf
<1>5. core' \in Cores /\ CoreRuns(core', store) /\ past' \in Saves
    BY <1>1 DEF LinuxPluginsInv
<1> QED
    BY <1>1, <1>3, <1>4, <1>5, LinuxQuiet

\* A typed text that counts is of a row the copy has.
LEMMA LinuxTaken ==
    ASSUME LinuxPluginsInv, NEW s \in LinuxSlots, PL!Takes(screen[s])
    PROVE  /\ PL!Typed(screen[s]) \in PL!Cfg /\ PL!Typed(screen[s]).added = screen[s].cfg.added
           /\ DOMAIN PL!Typed(screen[s]).nmea = DOMAIN screen[s].cfg.nmea
           /\ "nmea" \in screen[s].has
<1>1. screen[s] \in PL!WinType /\ screen[s].cfg \in PL!Cfg /\ LinuxHolds(screen[s], store, past)
    BY LinuxTyped
<1>2. screen[s].typed \in [row : {1, 2}, text : PL!Texts]
    BY <1>1 DEF PL!Takes, PL!WinType
<1> DEFINE rows == [screen[s].cfg.nmea EXCEPT ![screen[s].typed.row] = screen[s].typed.text]
<1>3. /\ rows \in [DOMAIN screen[s].cfg.nmea -> PL!Texts]
      /\ DOMAIN screen[s].cfg.nmea \subseteq {1, 2}
    <2>1. PICK d \in SUBSET {1, 2} : screen[s].cfg.nmea \in [d -> PL!Texts]
        BY <1>1, Cfgs DEF PL!Rows
    <2> QED
        BY <1>2, <2>1
<1>4. rows \in PL!Rows /\ DOMAIN rows = DOMAIN screen[s].cfg.nmea
    BY <1>3, Row
<1>5. PL!Typed(screen[s]) = [screen[s].cfg EXCEPT !.nmea = rows]
    BY <1>1 DEF PL!Typed, PL!Cfg
<1> HIDE DEF rows
<1>6. "nmea" \in screen[s].has
    BY <1>1 DEF LinuxHolds, PL!Takes
<1> QED
    BY <1>1, <1>4, <1>5, <1>6 DEF PL!Cfg

\* What was typed into a row is taken.
LEMMA LinuxCommitted ==
    ASSUME LinuxPluginsInv, NEW s \in LinuxSlots, PL!Commit(s)
    PROVE  LinuxPluginsInv'
<1>1. screen[s].up = "up" /\ UNCHANGED <<core, store, minted, aux>>
    BY DEF PL!Commit, PL!Up
<1>2. screen[s] \in PL!WinType /\ screen[s].cfg \in PL!Cfg /\ LinuxShows(screen[s], core)
    BY LinuxTyped
<1>3. CASE PL!Takes(screen[s])
    <2> DEFINE cfg == PL!Typed(screen[s])
               w == [PL!Edited(screen[s], cfg) EXCEPT !.typed = Nil]
    <2>1. PL!Edit(s, "nmea", w)
        BY <1>3 DEF PL!Commit
    <2>2. /\ cfg \in PL!Cfg /\ cfg.added = screen[s].cfg.added /\ "nmea" \in screen[s].has
          /\ DOMAIN cfg.nmea = DOMAIN screen[s].cfg.nmea
        BY <1>3, LinuxTaken
    <2> HIDE DEF cfg
    <2>3. /\ w \in PL!WinType /\ w.cfg = cfg /\ w.apply = TRUE /\ w.has = screen[s].has
          /\ w.last = screen[s].last /\ w.beside = screen[s].beside /\ w.up = "up"
          /\ w.refill = screen[s].refill /\ w.reopen = screen[s].reopen
          /\ w.grant = screen[s].grant /\ w.rows = screen[s].rows
          /\ w.offers = screen[s].offers /\ w.found = screen[s].found
        BY <1>1, <1>2, <2>2 DEF PL!WinType, PL!Edited
    <2> HIDE DEF w
    <2>4. w.refill \/ (w.rows = PL!RowsOf(w) /\ w.offers \subseteq w.found)
        BY <1>1, <1>2, <2>2, <2>3 DEF LinuxShows, PL!RowsOf, PL!WinType
    <2>5. minted' \in SUBSET {1, 2}
        BY <1>1 DEF LinuxPluginsInv
    <2> QED
        BY <1>1, <2>1, <2>2, <2>3, <2>4, <2>5, LinuxListEdited
<1>4. CASE ~PL!Takes(screen[s])
    <2> DEFINE w == [screen[s] EXCEPT !.typed = Nil]
    <2>1. PL!Put(s, w) /\ past' = past
        BY <1>4 DEF PL!Commit
    <2>2. /\ w \in PL!WinType /\ w.cfg = screen[s].cfg /\ w.apply = screen[s].apply
          /\ w.has = screen[s].has /\ w.last = screen[s].last /\ w.beside = screen[s].beside
          /\ w.up = "up" /\ w.refill = screen[s].refill /\ w.reopen = screen[s].reopen
          /\ w.grant = screen[s].grant /\ w.rows = screen[s].rows /\ w.offers = screen[s].offers
          /\ w.found = screen[s].found
        BY <1>1, <1>2 DEF PL!WinType
    <2> HIDE DEF w
    <2>3. LinuxShows(w, core')
        BY <1>1, <1>2, <2>2 DEF LinuxShows, PL!RowsOf
    <2>4. core' \in Cores /\ CoreRuns(core', store) /\ past' \in Saves
        BY <1>1, <2>1 DEF LinuxPluginsInv
    <2> QED
        BY <1>1, <2>1, <2>2, <2>3, <2>4, LinuxQuiet
<1> QED
    BY <1>3, <1>4

\* The list drawn again is true to the copy.
LEMMA Filled ==
    ASSUME NEW w \in PL!WinType
    PROVE  /\ PL!Fill(w) \in PL!WinType
           /\ PL!Fill(w).cfg = w.cfg /\ PL!Fill(w).has = w.has /\ PL!Fill(w).last = w.last
           /\ PL!Fill(w).apply = w.apply /\ PL!Fill(w).up = w.up /\ PL!Fill(w).reopen = w.reopen
           /\ PL!Fill(w).grant = w.grant /\ PL!Fill(w).refill = FALSE
           /\ PL!Fill(w).task = w.task
           /\ PL!Fill(w).beside = w.beside /\ PL!Fill(w).poll = w.poll
           /\ PL!Fill(w).browse = w.browse /\ PL!Fill(w).calls = w.calls
           /\ PL!Fill(w).rows = PL!RowsOf(PL!Fill(w))
           /\ PL!Fill(w).offers \subseteq PL!Fill(w).found
<1>1. /\ PL!RowsOf(w) \in SUBSET {1, 2} /\ PL!Nearby(w) \in SUBSET Hosts
      /\ PL!Nearby(w) \subseteq w.found
    BY Cfgs DEF PL!WinType, PL!RowsOf, PL!Nearby
<1> DEFINE rows == PL!RowsOf(w)
           offers == PL!Nearby(w)
           f == [w EXCEPT !.rows = rows, !.offers = offers, !.refill = FALSE, !.typed = Nil]
<1>2. PL!Fill(w) = f
    BY DEF PL!Fill
<1> HIDE DEF rows, offers
<1>3. /\ f \in PL!WinType
      /\ f.cfg = w.cfg /\ f.has = w.has /\ f.last = w.last
      /\ f.apply = w.apply /\ f.up = w.up /\ f.reopen = w.reopen
      /\ f.grant = w.grant /\ f.refill = FALSE /\ f.task = w.task
      /\ f.beside = w.beside /\ f.poll = w.poll /\ f.browse = w.browse /\ f.calls = w.calls
      /\ f.rows = rows /\ f.offers = offers /\ f.found = w.found
    BY <1>1 DEF PL!WinType, rows, offers
<1>4. PL!RowsOf(f) = rows
    BY <1>3 DEF PL!RowsOf, rows
<1> QED
    BY <1>1, <1>2, <1>3, <1>4 DEF offers

\* The list is filled again, on its idle.
LEMMA LinuxRefilled ==
    ASSUME LinuxPluginsInv, NEW s \in LinuxSlots, PL!Refill(s)
    PROVE  LinuxPluginsInv'
<1>1. screen[s].up = "up" /\ UNCHANGED <<core, store, minted, aux>>
    BY DEF PL!Refill, PL!Up
<1>2. screen[s] \in PL!WinType /\ screen[s].cfg \in PL!Cfg /\ LinuxShows(screen[s], core)
    BY LinuxTyped
<1>3. CASE PL!Put(s, PL!Fill(screen[s])) /\ past' = past
    <2> DEFINE w == PL!Fill(screen[s])
    <2>1. /\ w \in PL!WinType /\ w.cfg = screen[s].cfg /\ w.apply = screen[s].apply
          /\ w.has = screen[s].has /\ w.last = screen[s].last /\ w.beside = screen[s].beside
          /\ w.up = "up" /\ w.reopen = screen[s].reopen /\ w.grant = screen[s].grant
          /\ w.rows = PL!RowsOf(w) /\ w.offers \subseteq w.found
        BY <1>1, <1>2, Filled
    <2> HIDE DEF w
    <2>2. LinuxShows(w, core')
        BY <1>1, <1>2, <2>1 DEF LinuxShows
    <2>3. core' \in Cores /\ CoreRuns(core', store) /\ past' \in Saves
        BY <1>1, <1>3 DEF LinuxPluginsInv
    <2> QED
        BY <1>1, <1>3, <2>1, <2>2, <2>3, LinuxQuiet DEF w
<1>4. CASE /\ PL!Takes(screen[s])
           /\ PL!Edit(s, "nmea", PL!Fill(PL!Edited(screen[s], PL!Typed(screen[s]))))
    <2> DEFINE cfg == PL!Typed(screen[s])
               e == PL!Edited(screen[s], cfg)
               w == PL!Fill(e)
    <2>1. cfg \in PL!Cfg /\ cfg.added = screen[s].cfg.added /\ "nmea" \in screen[s].has
        BY <1>4, LinuxTaken
    <2> HIDE DEF cfg
    <2>2. /\ e \in PL!WinType /\ e.cfg = cfg /\ e.apply = TRUE /\ e.has = screen[s].has
          /\ e.last = screen[s].last /\ e.beside = screen[s].beside /\ e.up = "up"
          /\ e.reopen = screen[s].reopen /\ e.grant = screen[s].grant
        BY <1>1, <1>2, <2>1 DEF PL!WinType, PL!Edited
    <2>3. PL!Edit(s, "nmea", w)
        BY <1>4 DEF cfg
    <2> HIDE DEF e
    <2>4. /\ w \in PL!WinType /\ w.cfg = cfg /\ w.apply = TRUE /\ w.has = screen[s].has
          /\ w.last = screen[s].last /\ w.beside = screen[s].beside /\ w.up = "up"
          /\ w.reopen = screen[s].reopen /\ w.grant = screen[s].grant
          /\ w.rows = PL!RowsOf(w) /\ w.offers \subseteq w.found
        BY <2>2, Filled
    <2> HIDE DEF w
    <2>5. minted' \in SUBSET {1, 2}
        BY <1>1 DEF LinuxPluginsInv
    <2> QED
        BY <1>1, <2>1, <2>3, <2>4, <2>5, LinuxListEdited
<1> QED
    BY <1>3, <1>4 DEF PL!Refill

\* What a window has edited, or nothing, is handed over and saved.
LEMMA LinuxSaved ==
    ASSUME LinuxPluginsInv, NEW s \in LinuxSlots, NEW ps, ps \in {{}, PL!Flushed(screen[s])},
           core' = PL!Pushed(core, ps, screen[s].cfg), PL!Save(ps, screen[s].cfg)
    PROVE  /\ core' \in Cores /\ store' \in Saves /\ past' \in Saves /\ CoreRuns(core', store')
           /\ \A p \in PL!Plugins : past'[p] = IF past[p] = store'[p] THEN Nil ELSE past[p]
           /\ \A p \in ps : store'[p] = screen[s].cfg[p]
           /\ \A p \in PL!Plugins \ ps : store'[p] = store[p]
           /\ core'.grant = core.grant
<1>1. ps \in SUBSET PL!Plugins /\ screen[s].cfg \in PL!Cfg
    BY LinuxTyped DEF PL!Flushed, PL!Moved
<1> QED
    BY <1>1, Handed DEF LinuxPluginsInv

\* The same, where only this window is touched.
LEMMA LinuxHandedAlone ==
    ASSUME LinuxPluginsInv, NEW s \in LinuxSlots, NEW ps, ps \in {{}, PL!Flushed(screen[s])},
           core' = PL!Pushed(core, ps, screen[s].cfg), PL!Save(ps, screen[s].cfg),
           NEW w \in PL!WinType, PL!Change(s, w, ps),
           LinuxShows(w, core'), LinuxHolds(w, store', past'),
           ps = {} => \/ ~screen[s].apply
                      \/ \A p \in PL!Plugins : \A v : LinuxSaves(screen[s], p, v) => LinuxSaves(w, p, v),
           minted' = minted, aux' \in {0, aux}, aux' = s => w.up = "up"
    PROVE  LinuxPluginsInv'
<1>1. /\ screen' \in [LinuxSlots -> PL!WinType] /\ screen'[s] = w
      /\ \A t \in LinuxSlots \ {s} : screen'[t] = PL!Overtaken(screen[t], ps)
    BY LinuxPut
<1> DEFINE T == {s}
<1>2. /\ T \in SUBSET LinuxSlots /\ s \in T /\ \A t \in T \ {s} : ~screen[t].apply
      /\ \A t \in LinuxSlots \ T : screen'[t] = PL!Overtaken(screen[t], ps)
      /\ \A t \in T : LinuxShows(screen'[t], core') /\ LinuxHolds(screen'[t], store', past')
      /\ aux' \in T => screen'[aux'].up = "up"
    BY <1>1
<1>3. ps = {} => \/ ~screen[s].apply
                 \/ \A p \in PL!Plugins : \A v : LinuxSaves(screen[s], p, v) => LinuxSaves(screen'[s], p, v)
    BY <1>1
<1> HIDE DEF T
<1> QED
    BY <1>1, <1>2, <1>3, LinuxHanded

\* The timer of an edit hands over what moved.
LEMMA LinuxApplied ==
    ASSUME LinuxPluginsInv, NEW s \in LinuxSlots, PL!Apply(s)
    PROVE  LinuxPluginsInv'
<1> DEFINE ps == PL!Moved(screen[s])
           w == PL!Applied(screen[s])
<1>1. /\ screen[s].apply /\ PL!Change(s, w, ps) /\ minted' = minted /\ aux' = aux
      /\ core' = PL!Pushed(core, ps, screen[s].cfg) /\ PL!Save(ps, screen[s].cfg)
    BY DEF PL!Apply
<1>2. ps = PL!Flushed(screen[s])
    BY <1>1 DEF PL!Flushed
<1>3. /\ screen[s] \in PL!WinType /\ screen[s].cfg \in PL!Cfg
      /\ LinuxShows(screen[s], core) /\ LinuxHolds(screen[s], store, past)
      /\ screen[s].cfg.nmea # Nil
    BY LinuxTyped, Cfgs, NilIsNoList
<1>4. /\ past' \in Saves /\ store' \in Saves
      /\ \A p \in ps : store'[p] = screen[s].cfg[p]
      /\ \A p \in PL!Plugins \ ps : store'[p] = store[p]
      /\ core'.grant = core.grant
    BY <1>1, <1>2, LinuxSaved
<1>5. /\ w \in PL!WinType /\ w.beside = screen[s].beside \ ps
      /\ \A p \in PL!Plugins : w.last[p] = IF p \in screen[s].has THEN screen[s].cfg[p] ELSE screen[s].last[p]
      /\ w.cfg = screen[s].cfg /\ w.has = screen[s].has /\ w.up = screen[s].up /\ ~w.apply
      /\ w.refill = screen[s].refill /\ w.reopen = screen[s].reopen /\ w.grant = screen[s].grant
      /\ w.rows = screen[s].rows /\ w.offers = screen[s].offers /\ w.found = screen[s].found
      /\ w.poll = screen[s].poll /\ w.browse = screen[s].browse /\ w.calls = screen[s].calls
      /\ w.task = screen[s].task
    <2> DEFINE last == [p \in PL!Plugins |-> IF p \in screen[s].has THEN screen[s].cfg[p] ELSE screen[s].last[p]]
               b == screen[s].beside \ ps
    <2>1. /\ last \in [nmea : PL!Rows \cup {Nil}, added : {0, 1, Nil}]
          /\ b \in SUBSET {"nmea", "grant"}
        BY <1>3 DEF PL!WinType, PL!Cfg, PL!Plugins
    <2>2. w = [screen[s] EXCEPT !.apply = FALSE, !.beside = b, !.last = last]
        BY DEF PL!Applied
    <2>3. \A p \in PL!Plugins : last[p] = IF p \in screen[s].has THEN screen[s].cfg[p] ELSE screen[s].last[p]
        OBVIOUS
    <2> HIDE DEF last, w, ps, b
    <2>4. /\ w \in PL!WinType /\ w.beside = b /\ w.last = last
          /\ w.cfg = screen[s].cfg /\ w.has = screen[s].has /\ w.up = screen[s].up /\ ~w.apply
        BY <1>3, <2>1, <2>2 DEF PL!WinType
    <2>5. /\ w.refill = screen[s].refill /\ w.reopen = screen[s].reopen
          /\ w.grant = screen[s].grant
          /\ w.rows = screen[s].rows /\ w.offers = screen[s].offers /\ w.found = screen[s].found
          /\ w.poll = screen[s].poll /\ w.browse = screen[s].browse /\ w.calls = screen[s].calls
          /\ w.task = screen[s].task
        BY <1>3, <2>1, <2>2 DEF PL!WinType
    <2> QED
        BY <2>3, <2>4, <2>5 DEF b
<1>6. "nmea" \in ps <=> "nmea" \in screen[s].has /\ screen[s].cfg["nmea"] # screen[s].last["nmea"]
    BY DEF PL!Moved
<1>11. "grant" \notin ps
    BY <1>3 DEF PL!Moved, PL!Plugins, PL!WinType
<1> HIDE DEF w, ps
<1>7. LinuxShows(w, core')
    BY <1>1, <1>3, <1>4, <1>5, <1>11 DEF LinuxShows, PL!RowsOf, PL!IsHeld
<1>8. LinuxHolds(w, store', past')
    <2>1. CASE "nmea" \in ps
        BY <1>3, <1>4, <1>5, <1>6, <2>1 DEF LinuxHolds, PL!Plugins
    <2>2. CASE "nmea" \notin ps
        BY <1>3, <1>4, <1>5, <1>6, <2>2 DEF LinuxHolds, PL!Plugins
    <2> QED
        BY <2>1, <2>2
<1>9. aux' = s => w.up = "up"
    BY <1>1, <1>5, SlotsAreNumbered DEF LinuxPluginsInv
<1>10. ps = {} => ~screen[s].apply \/ \A p \in PL!Plugins : \A v : LinuxSaves(screen[s], p, v) => LinuxSaves(w, p, v)
    BY DEF LinuxSaves, ps
<1> QED
    BY <1>1, <1>2, <1>5, <1>7, <1>8, <1>9, <1>10, LinuxHandedAlone

\* A grant's switch moves with the core's.
LEMMA LinuxGranted ==
    ASSUME LinuxPluginsInv, NEW s \in LinuxSlots, PL!ToggleGrant(s)
    PROVE  LinuxPluginsInv'
<1> DEFINE taken == core.open /\ "added" \in core.loaded
           g == ~screen[s].grant
           b == screen[s].beside \ {"grant"}
<1>1. screen[s].up = "up" /\ UNCHANGED <<store, past, minted, aux>>
    BY DEF PL!ToggleGrant, PL!Up
<1>2. /\ screen[s] \in PL!WinType /\ LinuxShows(screen[s], core)
      /\ g \in BOOLEAN /\ b \in SUBSET {"nmea", "grant"}
    BY LinuxTyped DEF PL!WinType
<1>3. CASE taken
    <2> DEFINE w == [screen[s] EXCEPT !.grant = g, !.beside = b]
    <2>1. core' = [core EXCEPT !.grant = g] /\ PL!Change(s, w, {"grant"})
        BY <1>2, <1>3 DEF PL!ToggleGrant, PL!WinType
    <2>2. "nmea" \in screen[s].beside => "nmea" \in b
        OBVIOUS
    <2> HIDE DEF g, b
    <2>3. core' \in Cores /\ core'.grant = g /\ CoreRuns(core', store) /\ past' \in Saves
        BY <1>1, <1>2, <2>1 DEF LinuxPluginsInv, Cores, CoreRuns
    <2>4. /\ w \in PL!WinType /\ w.grant = g /\ w.beside = b /\ w.cfg = screen[s].cfg
          /\ w.has = screen[s].has /\ w.last = screen[s].last /\ w.apply = screen[s].apply
          /\ w.up = "up" /\ w.refill = screen[s].refill /\ w.rows = screen[s].rows
          /\ w.offers = screen[s].offers /\ w.found = screen[s].found
        BY <1>1, <1>2 DEF PL!WinType
    <2> HIDE DEF w
    <2>5. LinuxShows(w, core')
        BY <1>1, <1>2, <2>3, <2>4 DEF LinuxShows, PL!RowsOf
    <2> QED
        BY <1>1, <2>1, <2>2, <2>3, <2>4, <2>5, LinuxQuiet
<1>4. CASE ~taken
    <2>1. core' = core /\ screen' = screen
        BY <1>4 DEF PL!ToggleGrant, LinuxPluginsInv, Cores
    <2> QED
        BY <1>1, <2>1 DEF LinuxPluginsInv
<1> QED
    BY <1>3, <1>4

\* Of a window v that stands, w has what moves with its lines, its browse and its dialogs.
LooksAs(w, v) ==
    /\ w.cfg = v.cfg /\ w.has = v.has /\ w.last = v.last /\ w.apply = v.apply
    /\ w.beside = v.beside /\ w.up = v.up /\ w.grant = v.grant /\ w.reopen = v.reopen
    /\ w.rows = v.rows /\ w.offers = v.offers
    /\ ~w.refill => ~v.refill /\ v.found \subseteq w.found

\* A window that only heard something still shows and holds what it did.
LEMMA LinuxLookedAt ==
    ASSUME LinuxPluginsInv, NEW s \in LinuxSlots, screen[s].up = "up", NEW w \in PL!WinType,
           PL!Put(s, w), LooksAs(w, screen[s]), UNCHANGED <<core, store, past, minted, aux>>
    PROVE  LinuxPluginsInv'
<1>1. /\ w.cfg = screen[s].cfg /\ w.has = screen[s].has
      /\ w.last = screen[s].last /\ w.apply = screen[s].apply /\ w.beside = screen[s].beside
      /\ w.up = "up"
    BY DEF LooksAs
<1>2. LinuxShows(w, core')
    BY LinuxTyped DEF LooksAs, LinuxShows, PL!RowsOf
<1>3. core' \in Cores /\ CoreRuns(core', store) /\ past' \in Saves
    BY DEF LinuxPluginsInv
<1> QED
    BY <1>1, <1>2, <1>3, LinuxQuiet

\* The poll, the browser and its answers, and the dialogs.
LEMMA LinuxLooked ==
    ASSUME LinuxPluginsInv, NEW s \in LinuxSlots,
           \/ PL!Poll(s) \/ PL!BrowserMade(s)
           \/ \E h \in Hosts : PL!ItemNew(s, h) \/ PL!Resolved(s, h) \/ PL!ItemRemove(s, h)
           \/ PL!AskUninstall(s) \/ PL!InstallClicked(s) \/ PL!FileChosen(s)
    PROVE  LinuxPluginsInv'
<1>1. UNCHANGED <<core, store, past, minted, aux>> /\ screen[s].up = "up"
    BY LinuxTyped DEF PL!Poll, PL!BrowserMade, PL!ItemNew, PL!Resolved, PL!ItemRemove,
                      PL!AskUninstall, PL!InstallClicked, PL!FileChosen, PL!Up, LinuxShows
<1>2. screen[s] \in PL!WinType /\ core.said \in {0, 1}
    BY LinuxTyped DEF LinuxPluginsInv, Cores
<1>3. SUFFICES \E w \in PL!WinType : PL!Put(s, w) /\ LooksAs(w, screen[s])
    BY <1>1, LinuxLookedAt
<1> DEFINE v == screen[s]
<1>4. /\ v \in PL!WinType /\ v.said \in {0, 1} /\ v.task \in {"no", "ask", "pick", "sheet"}
      /\ v.browse \in {"no", "asked", "up"} /\ v.calls \in SUBSET Hosts
      /\ v.found \in SUBSET Hosts /\ v.refill \in BOOLEAN
    BY <1>2 DEF PL!WinType
<1>5. CASE PL!Poll(s)
    <2> DEFINE w == [v EXCEPT !.said = core.said]
    <2>1. PL!Put(s, w)
        BY <1>5 DEF PL!Poll
    <2>2. w \in PL!WinType /\ LooksAs(w, v)
        BY <1>2, <1>4 DEF PL!WinType, LooksAs
    <2> QED
        BY <2>1, <2>2
<1>6. CASE PL!BrowserMade(s)
    <2> DEFINE w == [v EXCEPT !.browse = "up"]
    <2>1. PL!Put(s, w)
        BY <1>6 DEF PL!BrowserMade
    <2>2. w \in PL!WinType /\ LooksAs(w, v)
        BY <1>4 DEF PL!WinType, LooksAs
    <2> QED
        BY <2>1, <2>2
<1>7. ASSUME NEW h \in Hosts, PL!ItemNew(s, h)
      PROVE  \E w \in PL!WinType : PL!Put(s, w) /\ LooksAs(w, v)
    <2> DEFINE calls == v.calls \cup {h}
               w == [v EXCEPT !.calls = calls]
    <2>1. PL!Put(s, w)
        BY <1>7 DEF PL!ItemNew
    <2>2. calls \in SUBSET Hosts
        BY <1>4
    <2> HIDE DEF calls
    <2>3. w \in PL!WinType /\ LooksAs(w, v)
        BY <1>4, <2>2 DEF PL!WinType, LooksAs
    <2> QED
        BY <2>1, <2>3
<1>8. ASSUME NEW h \in Hosts, PL!Resolved(s, h)
      PROVE  \E w \in PL!WinType : PL!Put(s, w) /\ LooksAs(w, v)
    <2> DEFINE calls == v.calls \ {h}
               found == v.found \cup {h}
               a == [v EXCEPT !.calls = calls]
               w == [v EXCEPT !.calls = calls, !.found = found, !.refill = TRUE]
    <2>1. PL!Put(s, a) \/ PL!Put(s, w)
        BY <1>8 DEF PL!Resolved
    <2>2. calls \in SUBSET Hosts /\ found \in SUBSET Hosts
        BY <1>4
    <2> HIDE DEF calls, found
    <2>3. a \in PL!WinType /\ LooksAs(a, v)
        BY <1>4, <2>2 DEF PL!WinType, LooksAs
    <2>4. w \in PL!WinType /\ LooksAs(w, v)
        BY <1>4, <2>2 DEF PL!WinType, LooksAs
    <2> QED
        BY <2>1, <2>3, <2>4
<1>9. ASSUME NEW h \in Hosts, PL!ItemRemove(s, h)
      PROVE  \E w \in PL!WinType : PL!Put(s, w) /\ LooksAs(w, v)
    <2> DEFINE found == v.found \ {h}
               w == [v EXCEPT !.found = found, !.refill = TRUE]
    <2>1. PL!Put(s, w)
        BY <1>9 DEF PL!ItemRemove
    <2>2. found \in SUBSET Hosts
        BY <1>4
    <2> HIDE DEF found
    <2>3. w \in PL!WinType /\ LooksAs(w, v)
        BY <1>4, <2>2 DEF PL!WinType, LooksAs
    <2> QED
        BY <2>1, <2>3
<1>10. CASE PL!AskUninstall(s) \/ PL!InstallClicked(s) \/ PL!FileChosen(s)
    <2>1. PICK t \in {"no", "ask", "pick", "sheet"} : PL!Put(s, [v EXCEPT !.task = t])
        BY <1>10 DEF PL!AskUninstall, PL!InstallClicked, PL!FileChosen
    <2> DEFINE w == [v EXCEPT !.task = t]
    <2>2. w \in PL!WinType /\ LooksAs(w, v)
        BY <1>4 DEF PL!WinType, LooksAs
    <2> QED
        BY <2>1, <2>2
<1> QED
    BY <1>5, <1>6, <1>7, <1>8, <1>9, <1>10

-------------------------------------------------------------------------------
(* Windows come and go.                                                      *)

\* A slot with no window in it.
LEMMA NoWindow ==
    /\ PL!NoWin \in PL!WinType /\ PL!NoWin.last.nmea = Nil
    /\ PL!NoWin.up = "no" /\ PL!NoWin.has = {} /\ PL!NoWin.cfg = PL!Default
    /\ PL!NoWin.last = PL!Nothing
    /\ ~PL!NoWin.apply /\ ~PL!NoWin.refill /\ ~PL!NoWin.poll /\ ~PL!NoWin.reopen
    /\ PL!NoWin.rows = {} /\ PL!NoWin.offers = {} /\ PL!NoWin.task = "no"
    /\ PL!NoWin.browse = "no"
    /\ PL!NoWin.calls = {} /\ PL!NoWin.found = {} /\ PL!NoWin.beside = {}
BY Defaults DEF PL!NoWin, PL!WinType, Saves, PL!Nothing, PL!Plugins

\* What a freed window leaves: a sheet it raised, and an idle that asks for it.
LEMMA Gone ==
    ASSUME NEW task \in {"no", "sheet"}, NEW reopen \in BOOLEAN
    PROVE  LET g == [PL!NoWin EXCEPT !.task = task, !.reopen = reopen] IN
           /\ g \in PL!WinType /\ g.up = "no"
           /\ \A k : LinuxShows(g, k)
           /\ \A s, m : LinuxHolds(g, s, m)
<1> DEFINE g == [PL!NoWin EXCEPT !.task = task, !.reopen = reopen]
<1>1. /\ g \in PL!WinType /\ g.up = "no" /\ g.has = {} /\ g.cfg = PL!Default
      /\ g.last.nmea = Nil
      /\ ~g.apply /\ ~g.refill /\ ~g.poll /\ g.task = task /\ g.browse = "no" /\ g.calls = {}
    BY NoWindow DEF PL!WinType
<1> HIDE DEF g
<1>2. \A k : LinuxShows(g, k)
    BY <1>1 DEF LinuxShows, PL!IsHeld
<1>3. \A s, m : LinuxHolds(g, s, m)
    BY <1>1, Defaults DEF LinuxHolds
<1> QED
    BY <1>1, <1>2, <1>3 DEF g

\* A window is built: true to what was read, and nothing of it edited.
LEMMA Built ==
    ASSUME NEW k \in Cores, NEW s \in Saves, CoreRuns(k, s), NEW m
    PROVE  /\ PL!NewWin(k) \in PL!WinType /\ PL!NewWin(k).up = "up"
           /\ LinuxShows(PL!NewWin(k), k) /\ LinuxHolds(PL!NewWin(k), s, m)
<1> DEFINE cfg == [nmea |-> PL!ReadList(k), added |-> PL!ReadNumber(k)]
           r == PL!ReadWin(k)
           f == PL!Fill(r)
           w == PL!NewWin(k)
<1>1. cfg \in PL!Cfg /\ cfg.nmea = PL!ReadList(k)
    BY Defaults, Cfgs DEF PL!Cfg, PL!ReadList, PL!ReadNumber, PL!ReadHas, Cores, PL!Default
<1>2. PL!ReadHas(k) \in SUBSET PL!Plugins /\ k.grant \in BOOLEAN /\ k.said \in {0, 1}
    BY DEF PL!ReadHas, Cores
<1>3. r = [PL!NoWin EXCEPT !.up = "up", !.has = PL!ReadHas(k), !.grant = k.grant, !.said = k.said, !.cfg = cfg]
    BY DEF PL!ReadWin
<1>4. /\ "nmea" \notin PL!ReadHas(k) => DOMAIN cfg.nmea = {}
      /\ "nmea" \in PL!ReadHas(k) /\ s.nmea # Nil => cfg.nmea = s.nmea
    BY <1>1, Defaults DEF PL!ReadList, PL!ReadHas, CoreRuns
<1> HIDE DEF cfg, r
<1>5. /\ r \in PL!WinType /\ r.up = "up" /\ r.has = PL!ReadHas(k) /\ r.grant = k.grant
      /\ r.cfg = cfg
      /\ r.last.nmea = Nil /\ ~r.reopen /\ r.task = "no"
    BY <1>1, <1>2, <1>3, NoWindow DEF PL!WinType
<1>6. /\ f \in PL!WinType /\ f.up = "up" /\ f.has = r.has /\ f.grant = r.grant /\ f.cfg = r.cfg
      /\ f.last = r.last /\ ~f.reopen /\ f.rows = PL!RowsOf(f) /\ f.offers \subseteq f.found
    BY <1>5, Filled
<1>7. w = [f EXCEPT !.poll = PL!Lines(f), !.browse = PL!Browses(f)]
    BY DEF PL!NewWin, r
<1> HIDE DEF f
<1>8. PL!Lines(f) \in BOOLEAN /\ PL!Browses(f) \in {"no", "asked", "up"}
    BY DEF PL!Lines, PL!Browses
<1> HIDE DEF w
<1>9. /\ w \in PL!WinType /\ w.up = "up" /\ w.has = f.has /\ w.grant = f.grant /\ w.cfg = f.cfg
      /\ w.last = f.last /\ ~w.reopen /\ w.rows = f.rows /\ w.offers = f.offers
      /\ w.found = f.found
    BY <1>6, <1>7, <1>8 DEF PL!WinType
<1>10. LinuxShows(w, k)
    BY <1>5, <1>6, <1>9 DEF LinuxShows, PL!RowsOf
<1>11. LinuxHolds(w, s, m)
    BY <1>4, <1>5, <1>6, <1>9 DEF LinuxHolds
<1> QED
    BY <1>9, <1>10, <1>11 DEF w

\* A window w is destroyed: a dialog holds it, and its edits with it, or it is gone.
LEMMA Destroyed ==
    ASSUME NEW w \in PL!WinType
    PROVE  /\ PL!Left(w) \in PL!WinType /\ PL!Left(w).up # "up"
           /\ \A k : LinuxShows(PL!Left(w), k)
           /\ ~PL!IsHeld(w) => \A t, n : LinuxHolds(PL!Left(w), t, n)
           /\ PL!IsHeld(w) =>
                /\ \A p \in PL!Plugins : \A v : LinuxSaves(w, p, v) => LinuxSaves(PL!Left(w), p, v)
                /\ \A t, n : LinuxHolds(w, t, n) => LinuxHolds(PL!Left(w), t, n)
           /\ PL!Freed(w) = IF PL!IsHeld(w) THEN {} ELSE PL!Flushed(w)
<1>1. PL!Freed(w) = IF PL!IsHeld(w) THEN {} ELSE PL!Flushed(w)
    BY DEF PL!Freed
<1>2. CASE ~PL!IsHeld(w)
    <2>1. w.task \in {"no", "sheet"} /\ w.reopen \in BOOLEAN
        BY <1>2 DEF PL!IsHeld, PL!WinType
    <2> DEFINE g == [PL!NoWin EXCEPT !.task = w.task, !.reopen = w.reopen]
    <2>2. PL!Left(w) = g
        BY <1>2 DEF PL!Left
    <2>3. /\ g \in PL!WinType /\ g.up = "no"
          /\ \A k : LinuxShows(g, k)
          /\ \A s, m : LinuxHolds(g, s, m)
        BY <2>1, Gone
    <2> HIDE DEF g
    <2> QED
        BY <1>1, <1>2, <2>2, <2>3
<1>3. CASE PL!IsHeld(w)
    <2> DEFINE h == PL!Stopped(w)
    <2>1. PL!Left(w) = h
        BY <1>3 DEF PL!Left
    <2>2. h \in PL!WinType
        <3> DEFINE a == [w EXCEPT !.up = "held", !.poll = FALSE, !.refill = FALSE, !.browse = "no"]
        <3>1. a \in PL!WinType
            BY DEF PL!WinType
        <3>2. h = [a EXCEPT !.calls = {}, !.rows = {}, !.offers = {}, !.typed = Nil]
            BY DEF PL!Stopped
        <3> HIDE DEF a, h
        <3> QED
            BY <3>1, <3>2 DEF PL!WinType
    <2>3. /\ h.cfg = w.cfg /\ h.has = w.has /\ h.last = w.last /\ h.apply = w.apply
          /\ h.up = "held" /\ ~h.refill /\ ~h.poll /\ h.browse = "no" /\ h.calls = {}
          /\ h.task = w.task /\ h.beside = w.beside
        BY DEF PL!WinType, PL!Stopped
    <2> HIDE DEF h
    <2>4. \A k : LinuxShows(h, k)
        BY <1>3, <2>3 DEF LinuxShows, PL!IsHeld
    <2>5. \A t, n : LinuxHolds(w, t, n) => LinuxHolds(h, t, n)
        BY <2>3 DEF LinuxHolds
    <2>6. \A p \in PL!Plugins : \A v : LinuxSaves(w, p, v) => LinuxSaves(h, p, v)
        BY <2>3 DEF LinuxSaves, PL!Moved
    <2> QED
        BY <1>1, <1>3, <2>1, <2>2, <2>3, <2>4, <2>5, <2>6
<1> QED
    BY <1>2, <1>3

\* A window that is left with nothing handed over keeps what it holds.
LEMMA LinuxKeeps ==
    ASSUME LinuxPluginsInv, NEW s \in LinuxSlots, core' = PL!Pushed(core, {}, screen[s].cfg),
           PL!Save({}, screen[s].cfg)
    PROVE  LinuxHolds(screen[s], store', past')
<1>1. /\ \A p \in PL!Plugins : past'[p] = IF past[p] = store'[p] THEN Nil ELSE past[p]
      /\ \A p \in PL!Plugins : store'[p] = store[p]
      /\ store' \in Saves /\ past' \in Saves
    BY LinuxSaved
<1>2. store'.nmea = store.nmea /\ (past'.nmea = past.nmea \/ past.nmea = store.nmea)
    BY <1>1 DEF PL!Plugins
<1> QED
    BY <1>2, LinuxTyped DEF LinuxHolds

\* The window is presented.
LEMMA LinuxPresented ==
    ASSUME LinuxPluginsInv, NEW s \in LinuxSlots, PL!Present(s)
    PROVE  LinuxPluginsInv'
<1> DEFINE w == PL!NewWin(core)
           T == {s}
           what == {}
<1>1. /\ PL!Put(s, w) /\ UNCHANGED <<core, store, past, minted>> /\ aux' = s
      /\ screen[s] = PL!NoWin
    BY DEF PL!Present, PL!Free
<1>2. /\ core' \in Cores /\ store' \in Saves /\ past' \in Saves /\ CoreRuns(core', store')
      /\ minted' \in SUBSET {1, 2}
    BY <1>1 DEF LinuxPluginsInv
<1>3. /\ w \in PL!WinType /\ w.up = "up" /\ LinuxShows(w, core') /\ LinuxHolds(w, store', past')
    BY <1>1, <1>2, Built
<1> HIDE DEF w
<1>4. /\ screen' \in [LinuxSlots -> PL!WinType] /\ screen'[s] = w
      /\ \A t \in LinuxSlots \ {s} : screen'[t] = PL!Overtaken(screen[t], what)
    BY <1>1, <1>3, LinuxPut
<1>5. /\ T \in SUBSET LinuxSlots
      /\ \A t \in LinuxSlots \ T : screen'[t] = PL!Overtaken(screen[t], what)
      /\ \A t \in T : LinuxShows(screen'[t], core') /\ LinuxHolds(screen'[t], store', past')
      /\ aux' \in T => screen'[aux'].up = "up"
      /\ aux' \in T /\ aux' \in {0} \cup LinuxSlots
    BY <1>1, <1>3, <1>4
<1>6. \A p \in PL!Plugins : past'[p] # Nil =>
          \/ \E t \in T : LinuxSaves(screen'[t], p, past'[p])
          \/ past'[p] = past[p] /\ \A t \in T : ~LinuxSaves(screen[t], p, past[p])
    BY <1>1, NoWindow DEF LinuxSaves
<1> HIDE DEF T, what
<1> QED
    BY <1>1, <1>2, <1>4, <1>5, <1>6, LinuxStep

\* A window goes: with a dialog it is held, and its edits with it; without, they are
\* handed over.
LEMMA LinuxClosed ==
    ASSUME LinuxPluginsInv, NEW s \in LinuxSlots, PL!Close(s)
    PROVE  LinuxPluginsInv'
<1> DEFINE v == screen[s]
           w == PL!Left(v)
           ps == PL!Freed(v)
<1>1. /\ core' = PL!Pushed(core, ps, v.cfg) /\ PL!Save(ps, v.cfg) /\ PL!Change(s, w, ps)
      /\ minted' = minted /\ aux' \in {0, aux} /\ aux' # s
    BY SlotsAreNumbered DEF PL!Close
<1>2. v \in PL!WinType /\ LinuxHolds(v, store, past)
    BY LinuxTyped
<1>3. /\ w \in PL!WinType /\ \A k : LinuxShows(w, k)
      /\ ~PL!IsHeld(v) => \A t, n : LinuxHolds(w, t, n)
      /\ PL!IsHeld(v) =>
            /\ \A p \in PL!Plugins : \A x : LinuxSaves(v, p, x) => LinuxSaves(w, p, x)
            /\ \A t, n : LinuxHolds(v, t, n) => LinuxHolds(w, t, n)
      /\ ps = IF PL!IsHeld(v) THEN {} ELSE PL!Flushed(v)
    <2> HIDE DEF v
    <2> QED
        BY <1>2, Destroyed
<1> HIDE DEF w, ps
<1>4. LinuxHolds(w, store', past')
    BY <1>1, <1>3, LinuxKeeps
<1>5. ps = {} => \/ ~v.apply
                 \/ \A p \in PL!Plugins : \A x : LinuxSaves(v, p, x) => LinuxSaves(w, p, x)
    BY <1>3 DEF LinuxSaves, PL!Flushed
<1>6. ps \in {{}, PL!Flushed(v)} /\ LinuxShows(w, core')
    BY <1>3
<1> QED
    BY <1>1, <1>3, <1>4, <1>5, <1>6, LinuxHandedAlone

\* A dialog is dismissed, and a window that it held goes.
LEMMA LinuxDismissed ==
    ASSUME LinuxPluginsInv, NEW s \in LinuxSlots, PL!Dismissed(s)
    PROVE  LinuxPluginsInv'
<1> DEFINE v == screen[s]
           w == [v EXCEPT !.task = "no"]
           out == IF w.up = "held" THEN PL!Freed(w) ELSE {}
           n == IF w.up = "held" THEN PL!Left(w) ELSE w
<1>1. /\ core' = PL!Pushed(core, out, w.cfg) /\ PL!Save(out, w.cfg) /\ PL!Change(s, n, out)
      /\ minted' = minted /\ aux' = aux
    BY DEF PL!Dismissed
<1>2. v \in PL!WinType /\ LinuxHolds(v, store, past) /\ LinuxShows(v, core)
    BY LinuxTyped
<1>3. /\ w \in PL!WinType /\ w.cfg = v.cfg /\ w.has = v.has /\ w.last = v.last
      /\ w.apply = v.apply
      /\ w.up = v.up /\ w.beside = v.beside /\ w.refill = v.refill /\ w.reopen = v.reopen
      /\ w.grant = v.grant /\ w.rows = v.rows /\ w.offers = v.offers /\ w.found = v.found
      /\ w.poll = v.poll /\ w.browse = v.browse /\ w.calls = v.calls /\ w.task = "no"
    BY <1>2 DEF PL!WinType
<1> HIDE DEF w
<1>4. ~PL!IsHeld(w) /\ PL!Flushed(w) = PL!Flushed(v)
    BY <1>3 DEF PL!IsHeld, PL!Flushed, PL!Moved
<1>5. aux' = s => v.up = "up"
    BY <1>1, SlotsAreNumbered DEF LinuxPluginsInv
<1>6. CASE w.up = "held"
    <2>1. LinuxHolds(w, store, past)
        BY <1>2, <1>3 DEF LinuxHolds
    <2>2. /\ n \in PL!WinType /\ LinuxShows(n, core') /\ LinuxHolds(n, store', past')
          /\ out = PL!Flushed(v)
        BY <1>3, <1>4, <1>6, <2>1, Destroyed
    <2>3. out = {} => ~v.apply \/ \A p \in PL!Plugins : \A x : LinuxSaves(v, p, x) => LinuxSaves(n, p, x)
        BY <2>2 DEF LinuxSaves, PL!Flushed
    <2> HIDE DEF n, out
    <2> QED
        BY <1>1, <1>3, <1>5, <1>6, <2>2, <2>3, LinuxHandedAlone
<1>7. CASE w.up # "held"
    <2>1. n = w /\ out = {}
        BY <1>7
    <2> HIDE DEF n, out
    <2>2. core'.grant = core.grant
        BY <1>1, <1>3, <2>1, LinuxSaved
    <2>3. LinuxShows(w, core')
        BY <1>2, <1>3, <1>7, <2>2 DEF LinuxShows, PL!RowsOf, PL!IsHeld
    <2>4. LinuxHolds(w, store', past')
        BY <1>1, <1>3, <2>1, LinuxKeeps DEF LinuxHolds
    <2>5. \A p \in PL!Plugins : \A x : LinuxSaves(v, p, x) => LinuxSaves(w, p, x)
        BY <1>3 DEF LinuxSaves, PL!Moved
    <2> QED
        BY <1>1, <1>3, <1>5, <2>1, <2>3, <2>4, <2>5, LinuxHandedAlone
<1> QED
    BY <1>6, <1>7

\* The window built again: what it edited is handed over, and the new one reads it back.
LEMMA LinuxReopened ==
    ASSUME LinuxPluginsInv, NEW s \in LinuxSlots, PL!Reopen(s)
    PROVE  LinuxPluginsInv'
<1> DEFINE v == screen[s]
           w == [v EXCEPT !.reopen = FALSE]
           ps == PL!Freed(v)
           new == PL!NewWin(core')
           left == PL!Left(w)
<1>1. /\ core' = PL!Pushed(core, ps, v.cfg) /\ PL!Save(ps, v.cfg)
      /\ minted' = minted /\ aux' \in {0, aux} /\ aux' # s
    BY SlotsAreNumbered DEF PL!Reopen
<1>2. v \in PL!WinType /\ LinuxHolds(v, store, past)
    BY LinuxTyped
<1>3. /\ w \in PL!WinType /\ w.cfg = v.cfg /\ w.has = v.has /\ w.last = v.last
      /\ w.apply = v.apply
      /\ w.up = v.up /\ w.beside = v.beside /\ w.task = v.task
    BY <1>2 DEF PL!WinType
<1>4. PICK t \in LinuxSlots :
          /\ IF w.task = "no" THEN t = s ELSE screen[t] = PL!NoWin
          /\ screen' = [u \in LinuxSlots |-> IF u = t THEN new ELSE IF u = s THEN left
                                             ELSE PL!Overtaken(screen[u], PL!Freed(w))]
    BY DEF PL!Reopen, PL!Rebuilt, PL!Free
<1> HIDE DEF w
<1>5. (PL!IsHeld(w) <=> PL!IsHeld(v)) /\ PL!Flushed(w) = PL!Flushed(v) /\ LinuxHolds(w, store, past)
    BY <1>2, <1>3 DEF PL!IsHeld, PL!Flushed, PL!Moved, LinuxHolds
<1>6. /\ left \in PL!WinType /\ \A k : LinuxShows(left, k)
      /\ ~PL!IsHeld(w) => \A x, n : LinuxHolds(left, x, n)
      /\ PL!IsHeld(w) =>
            /\ \A p \in PL!Plugins : \A x : LinuxSaves(w, p, x) => LinuxSaves(left, p, x)
            /\ \A x, n : LinuxHolds(w, x, n) => LinuxHolds(left, x, n)
      /\ PL!Freed(w) = IF PL!IsHeld(w) THEN {} ELSE PL!Flushed(w)
    BY <1>3, <1>5, Destroyed
<1>7. ps = PL!Freed(w) /\ ps \in {{}, PL!Flushed(v)}
    BY <1>5, <1>6 DEF PL!Freed
<1> HIDE DEF left, ps
<1>8. core' \in Cores /\ store' \in Saves /\ past' \in Saves /\ CoreRuns(core', store')
    BY <1>1, <1>7, LinuxSaved
<1>9. /\ new \in PL!WinType /\ new.up = "up" /\ LinuxShows(new, core')
      /\ LinuxHolds(new, store', past')
    BY <1>8, Built
<1> HIDE DEF new
<1>10. t # s => LinuxHolds(left, store', past')
    <2>1. CASE PL!IsHeld(w)
        <3>1. ps = {}
            BY <1>6, <1>7, <2>1
        <3>2. LinuxHolds(v, store', past')
            BY <1>1, <3>1, LinuxKeeps
        <3> QED
            BY <1>3, <1>6, <2>1, <3>2 DEF LinuxHolds
    <2> QED
        BY <1>6, <2>1
<1> DEFINE T == {s, t}
<1>11. screen' \in [LinuxSlots -> PL!WinType]
    <2>1. \A u \in LinuxSlots : PL!Overtaken(screen[u], PL!Freed(w)) \in PL!WinType
        BY LinuxBeside, LinuxTyped
    <2> QED
        BY <1>4, <1>6, <1>9, <2>1
<1>12. /\ T \in SUBSET LinuxSlots /\ s \in T
       /\ \A u \in LinuxSlots \ T : screen'[u] = PL!Overtaken(screen[u], ps)
       /\ \A u \in T : LinuxShows(screen'[u], core') /\ LinuxHolds(screen'[u], store', past')
       /\ aux' \in T => screen'[aux'].up = "up"
    BY <1>1, <1>4, <1>6, <1>7, <1>9, <1>10
<1>13. \A u \in T \ {s} : ~screen[u].apply
    BY <1>4, NoWindow
<1>14. ps = {} => \/ ~v.apply
                  \/ \A p \in PL!Plugins : \A x : LinuxSaves(v, p, x) => LinuxSaves(screen'[s], p, x)
    <2>1. CASE ~PL!IsHeld(w)
        BY <1>5, <1>6, <1>7, <2>1 DEF LinuxSaves, PL!Flushed
    <2>2. CASE PL!IsHeld(w)
        <3>1. s # t /\ screen'[s] = left
            <4>1. w.task # "no"
                BY <2>2 DEF PL!IsHeld
            <4>2. v.up = "up"
                BY DEF PL!Reopen, PL!Up
            <4>3. screen[t].up = "no"
                BY <1>4, <4>1, NoWindow
            <4> QED
                BY <1>4, <4>2, <4>3
        <3>2. \A p \in PL!Plugins : \A x : LinuxSaves(v, p, x) => LinuxSaves(w, p, x)
            BY <1>3 DEF LinuxSaves, PL!Moved
        <3> QED
            BY <1>6, <2>2, <3>1, <3>2
    <2> QED
        BY <2>1, <2>2
<1> HIDE DEF T
<1>15. /\ core' = PL!Pushed(core, ps, screen[s].cfg) /\ PL!Save(ps, screen[s].cfg)
       /\ ps \in {{}, PL!Flushed(screen[s])}
       /\ ps = {} => \/ ~screen[s].apply
                     \/ \A p \in PL!Plugins : \A x : LinuxSaves(screen[s], p, x) => LinuxSaves(screen'[s], p, x)
    BY <1>1, <1>7, <1>14
<1> HIDE DEF v
<1> QED
    BY <1>1, <1>11, <1>12, <1>13, <1>15, LinuxHanded

\* A plugin comes on its defaults, or goes.
LEMMA Managed ==
    ASSUME NEW k \in Cores, NEW s, CoreRuns(k, s), NEW l,
           l = PL!Installed(k) \/ l = PL!Uninstalled(k)
    PROVE  l \in Cores /\ CoreRuns(l, s)
<1> DEFINE cfg == [k.cfg EXCEPT !.added = PL!Default.added]
<1>1. cfg \in PL!Cfg /\ cfg["nmea"] = k.cfg["nmea"]
    BY DEF Cores, PL!Cfg, PL!Default
<1>2. \/ l = [k EXCEPT !.loaded = @ \cup {"added"}, !.cfg = cfg, !.fresh = @ \cup {"added"}, !.grant = TRUE]
      \/ l = [k EXCEPT !.loaded = @ \ {"added"}, !.cfg = cfg, !.fresh = @ \ {"added"}]
    BY DEF PL!Installed, PL!Uninstalled
<1> HIDE DEF cfg
<1>3. l \in Cores
    BY <1>1, <1>2 DEF Cores, PL!Plugins
<1>4. l.open = k.open /\ l.cfg = cfg /\ l.loaded \ l.fresh = (k.loaded \ k.fresh) \ {"added"}
    BY <1>2 DEF Cores
<1> QED
    BY <1>1, <1>3, <1>4 DEF CoreRuns, Cores, PL!Plugins

\* The added plugin comes or goes, and a rebuild is asked for.
LEMMA LinuxManaged ==
    ASSUME LinuxPluginsInv, NEW s \in LinuxSlots, PL!Confirm(s) \/ PL!Uninstall(s)
    PROVE  LinuxPluginsInv'
<1> DEFINE w == [screen[s] EXCEPT !.task = "no", !.reopen = TRUE]
<1>1. /\ \/ PL!Change(s, w, {"grant"}) /\ core' = PL!Installed(core) /\ screen[s].task = "sheet"
         \/ PL!Put(s, w) /\ core' = PL!Uninstalled(core) /\ screen[s].up = "up"
      /\ past' = [past EXCEPT !.added = Nil] /\ UNCHANGED <<store, minted, aux>>
    BY DEF PL!Confirm, PL!Uninstall, PL!Up
<1>2. core' \in Cores /\ CoreRuns(core', store)
    BY <1>1, Managed DEF LinuxPluginsInv
<1>3. /\ past' \in Saves /\ past'.nmea = past.nmea
      /\ \A p \in PL!Plugins : past'[p] \in {past[p], Nil}
    BY <1>1 DEF LinuxPluginsInv, Saves, PL!Plugins
<1>4. screen[s] \in PL!WinType /\ LinuxShows(screen[s], core)
    BY LinuxTyped
<1>5. /\ w \in PL!WinType /\ w.cfg = screen[s].cfg /\ w.has = screen[s].has
      /\ w.last = screen[s].last /\ w.apply = screen[s].apply /\ w.beside = screen[s].beside
      /\ w.up = screen[s].up /\ w.reopen /\ w.refill = screen[s].refill
      /\ w.rows = screen[s].rows /\ w.offers = screen[s].offers /\ w.found = screen[s].found
      /\ w.poll = screen[s].poll /\ w.browse = screen[s].browse /\ w.calls = screen[s].calls
      /\ w.task = "no"
    BY <1>4 DEF PL!WinType
<1> HIDE DEF w
<1>6. screen[s].up # "up" => screen[s].up = "no"
    BY <1>1, <1>4 DEF LinuxShows, PL!IsHeld, PL!WinType
<1>7. LinuxShows(w, core')
    BY <1>4, <1>5, <1>6 DEF LinuxShows, PL!RowsOf, PL!IsHeld
<1>8. aux' \in {0, aux} /\ (aux' = s => w.up = "up")
    BY <1>1, <1>5, SlotsAreNumbered DEF LinuxPluginsInv
<1>9. core'.grant = core.grant \/ PL!Change(s, w, {"grant"})
    <2>1. core' = PL!Uninstalled(core) => core'.grant = core.grant
        BY DEF PL!Uninstalled, LinuxPluginsInv, Cores
    <2> QED
        BY <1>1, <2>1
<1> QED
    BY <1>1, <1>2, <1>3, <1>5, <1>7, <1>8, <1>9, LinuxQuiet

\* A chart opens on what is saved, and closes; the plugins speak.
LEMMA Charted ==
    ASSUME core \in Cores, store \in Saves, CoreRuns(core, store),
           \/ core' = PL!Opened(core, store) \/ core' = PL!Closed(core)
           \/ core' = [core EXCEPT !.said = 1 - @]
    PROVE  core' \in Cores /\ CoreRuns(core', store) /\ core'.grant = core.grant /\ core'.loaded = core.loaded
<1>1. CASE core' = PL!Opened(core, store)
    <2> DEFINE cfg == [p \in PL!Plugins |-> IF p \in core.loaded /\ store[p] # Nil THEN store[p] ELSE PL!Default[p]]
    <2>1. cfg \in PL!Cfg
        BY Defaults DEF PL!Cfg, Saves, PL!Plugins
    <2>2. \A p \in core.loaded : store[p] # Nil => cfg[p] = store[p]
        BY DEF Cores
    <2>3. core' = [core EXCEPT !.open = TRUE, !.fresh = {}, !.cfg = cfg]
        BY <1>1 DEF PL!Opened
    <2> HIDE DEF cfg
    <2> QED
        BY <2>1, <2>2, <2>3 DEF Cores, CoreRuns
<1>2. CASE core' = PL!Closed(core)
    BY <1>2, Defaults DEF PL!Closed, Cores, CoreRuns
<1>3. CASE core' = [core EXCEPT !.said = 1 - @]
    BY <1>3 DEF Cores, CoreRuns
<1> QED
    BY <1>1, <1>2, <1>3

\* A chart opens or closes, or a plugin speaks, beside the windows.
LEMMA LinuxCharted ==
    ASSUME LinuxPluginsInv, PL!Chart
    PROVE  LinuxPluginsInv'
<1>1. /\ UNCHANGED <<store, past, minted, screen, aux>>
      /\ \/ core' = PL!Opened(core, store) \/ core' = PL!Closed(core)
         \/ core' = [core EXCEPT !.said = 1 - @]
    BY DEF PL!Chart, PL!OpenChart, PL!CloseChart, PL!Speak
<1>2. core' \in Cores /\ CoreRuns(core', store) /\ core'.grant = core.grant
    BY <1>1, Charted DEF LinuxPluginsInv
<1>3. \A s \in LinuxSlots : LinuxShows(screen[s], core')
    BY <1>2 DEF LinuxPluginsInv, LinuxShows
<1> QED
    BY <1>1, <1>2, <1>3 DEF LinuxPluginsInv

\* Every step of the Linux windows keeps the invariant.
LEMMA LinuxPluginsStep ==
    ASSUME LinuxPluginsInv, PL!Next
    PROVE  LinuxPluginsInv'
<1>1. ASSUME NEW s \in LinuxSlots, PL!Edits(s)
      PROVE  LinuxPluginsInv'
    BY <1>1, LinuxNumberSet, LinuxGranted, LinuxRowAdded, LinuxRowRemoved, LinuxTyping,
       LinuxCommitted DEF PL!Edits
<1>2. ASSUME NEW s \in LinuxSlots, PL!Network(s) \/ PL!Dialogs(s)
      PROVE  LinuxPluginsInv'
    BY <1>2, LinuxLooked, LinuxDismissed DEF PL!Network, PL!Dialogs
<1>3. ASSUME NEW s \in LinuxSlots, PL!Loop(s)
      PROVE  LinuxPluginsInv'
    BY <1>3, LinuxRefilled, LinuxApplied, LinuxLooked, LinuxReopened DEF PL!Loop
<1>4. ASSUME NEW s \in LinuxSlots,
PL!Present(s) \/ PL!Close(s) \/ PL!Confirm(s) \/ PL!Uninstall(s)
      PROVE  LinuxPluginsInv'
    BY <1>4, LinuxPresented, LinuxClosed, LinuxManaged
<1> QED
    BY <1>1, <1>2, <1>3, <1>4, LinuxCharted DEF PL!Next

\* The invariant holds where the Linux shell begins.
LEMMA LinuxPluginsBegin ==
    ASSUME PL!Init
    PROVE  LinuxPluginsInv
<1>1. core \in Cores /\ ~core.open /\ "nmea" \in core.loaded \ core.fresh
    BY Defaults DEF PL!Init, PL!ConfigInit, Cores, PL!Plugins
<1>2. /\ screen = [s \in LinuxSlots |-> PL!NoWin] /\ store = PL!Nothing /\ past = PL!Nothing
      /\ minted = {} /\ aux = 0
    BY DEF PL!Init, PL!ConfigInit
<1>3. \A p \in PL!Plugins : past[p] = Nil
    BY <1>2 DEF PL!Nothing
<1>4. LinuxShows(PL!NoWin, core) /\ LinuxHolds(PL!NoWin, store, past)
    BY NoWindow, Defaults DEF LinuxShows, LinuxHolds, PL!IsHeld
<1> QED
    BY <1>1, <1>2, <1>3, <1>4, Defaults, NoWindow DEF LinuxPluginsInv, CoreRuns

\* The invariant is enough for what is promised of the Linux windows.
LEMMA LinuxPluginsTrue ==
    ASSUME LinuxPluginsInv
    PROVE  /\ PL!ConfigTypeOK /\ screen \in [LinuxSlots -> PL!WinType] /\ aux \in {0} \cup LinuxSlots
           /\ PL!WindowIsTrue /\ PL!OffersAnswer /\ PL!EditIsOnItsWay /\ PL!InForce
<1>1. PL!ConfigTypeOK
    BY DEF LinuxPluginsInv, PL!ConfigTypeOK, Cores, Saves
<1>2. PL!WindowIsTrue
    <2>1. \A s \in LinuxSlots : screen[s].up # "up" => aux # s
        BY SlotsAreNumbered DEF LinuxPluginsInv
    <2> QED
        BY <2>1 DEF LinuxPluginsInv, LinuxShows, PL!WindowIsTrue, PL!Up
<1>3. PL!OffersAnswer
    BY DEF LinuxPluginsInv, LinuxShows, PL!OffersAnswer, PL!Up
<1>4. PL!EditIsOnItsWay
    BY DEF LinuxPluginsInv, LinuxSaves, PL!EditIsOnItsWay
<1>5. PL!InForce
    BY DEF LinuxPluginsInv, CoreRuns, PL!InForce
<1> QED
    BY <1>1, <1>2, <1>3, <1>4, <1>5 DEF LinuxPluginsInv

\* What a window hands over of the list is what the mariner made of it, or the copy of one
\* beside which another window edited or saved it.
LEMMA LinuxNothingUndone ==
    ASSUME LinuxPluginsInv, PL!Next
    PROVE  PL!NothingElseIsUndone
<1>1. \/ store' = store
      \/ \E s \in LinuxSlots : \E ps \in {PL!Moved(screen[s]), PL!Flushed(screen[s]), {}} :
             PL!Save(ps, screen[s].cfg)
    <2>1. CASE PL!Chart
        BY <2>1 DEF PL!Chart, PL!OpenChart, PL!CloseChart, PL!Speak
    <2>2. ASSUME NEW s \in LinuxSlots, PL!Present(s) \/ PL!Confirm(s) \/ PL!Uninstall(s)
          PROVE  store' = store
        BY <2>2 DEF PL!Present, PL!Confirm, PL!Uninstall
    <2>3. ASSUME NEW s \in LinuxSlots, PL!Edits(s)
          PROVE  store' = store
        BY <2>3 DEF PL!Edits, PL!SetNumber, PL!ResetGroup, PL!ToggleGrant, PL!AddRow, PL!RemoveRow,
                    PL!Type, PL!Commit
    <2>4. ASSUME NEW s \in LinuxSlots, PL!Network(s)
          PROVE  store' = store
        BY <2>4 DEF PL!Network, PL!BrowserMade, PL!ItemNew, PL!Resolved, PL!ItemRemove
    <2>5. ASSUME NEW s \in LinuxSlots,
                 PL!Refill(s) \/ PL!Poll(s) \/ PL!AskUninstall(s) \/ PL!InstallClicked(s) \/ PL!FileChosen(s)
          PROVE  store' = store
        BY <2>5 DEF PL!Refill, PL!Poll, PL!AskUninstall, PL!InstallClicked, PL!FileChosen
    <2>6. ASSUME NEW s \in LinuxSlots, PL!Apply(s) \/ PL!Reopen(s) \/ PL!Close(s)
          PROVE  \E ps \in {PL!Moved(screen[s]), PL!Flushed(screen[s]), {}} : PL!Save(ps, screen[s].cfg)
        BY <2>6 DEF PL!Apply, PL!Reopen, PL!Close, PL!Freed
    <2>7. ASSUME NEW s \in LinuxSlots, PL!Dismissed(s)
          PROVE  \E ps \in {PL!Moved(screen[s]), PL!Flushed(screen[s]), {}} : PL!Save(ps, screen[s].cfg)
        <3> DEFINE w == [screen[s] EXCEPT !.task = "no"]
                   out == IF w.up = "held" THEN PL!Freed(w) ELSE {}
        <3>1. PL!Save(out, w.cfg)
            BY <2>7 DEF PL!Dismissed
        <3>2. /\ w.cfg = screen[s].cfg /\ w.has = screen[s].has /\ w.last = screen[s].last
              /\ w.apply = screen[s].apply
            BY LinuxTyped DEF PL!WinType
        <3> HIDE DEF w
        <3>3. PL!Flushed(w) = PL!Flushed(screen[s])
            BY <3>2 DEF PL!Flushed, PL!Moved
        <3> QED
            BY <3>1, <3>2, <3>3 DEF PL!Freed
    <2> QED
        BY <2>1, <2>2, <2>3, <2>4, <2>5, <2>6, <2>7 DEF PL!Next, PL!Loop, PL!Dialogs
<1>2. CASE store' = store
    BY <1>2 DEF PL!NothingElseIsUndone, PL!NothingIsUndone
<1>3. ASSUME NEW s \in LinuxSlots, NEW ps \in {PL!Moved(screen[s]), PL!Flushed(screen[s]), {}},
             PL!Save(ps, screen[s].cfg)
      PROVE  PL!NothingElseIsUndone
    <2>1. store'.nmea = IF "nmea" \in ps THEN screen[s].cfg["nmea"] ELSE store["nmea"]
        BY <1>3 DEF PL!Save, PL!Plugins
    <2>2. ps \subseteq screen[s].has
        BY DEF PL!Moved, PL!Flushed
    <2>3. screen[s].cfg["nmea"] = screen[s].cfg.nmea /\ LinuxHolds(screen[s], store, past)
        BY LinuxTyped, Cfgs
    <2> QED
        BY <2>1, <2>2, <2>3 DEF LinuxHolds, PL!NothingElseIsUndone, PL!NothingIsUndone
<1> QED
    BY <1>1, <1>2, <1>3

-------------------------------------------------------------------------------
(* The Windows plugins' pane                                                 *)

\* Both panes edit the one configuration, whatever each's bounds are.
LEMMA SameConfig ==
    /\ PW!Plugins = PL!Plugins /\ PW!Texts = PL!Texts /\ PW!Rows = PL!Rows /\ PW!Cfg = PL!Cfg
    /\ PW!Default = PL!Default /\ PW!Nothing = PL!Nothing
    /\ \A k, s : PW!Opened(k, s) = PL!Opened(k, s)
    /\ \A k : /\ PW!Closed(k) = PL!Closed(k) /\ PW!Installed(k) = PL!Installed(k)
              /\ PW!Uninstalled(k) = PL!Uninstalled(k)
    /\ \A k, ps, cfg : PW!Pushed(k, ps, cfg) = PL!Pushed(k, ps, cfg)
<1>1. /\ PW!Plugins = PL!Plugins /\ PW!Texts = PL!Texts /\ PW!Default = PL!Default
    BY DEF PW!Plugins, PL!Plugins, PW!Texts, PL!Texts, PW!Default, PL!Default
<1>2. PW!Rows = PL!Rows
    BY <1>1 DEF PW!Rows, PL!Rows
<1>3. PW!Cfg = PL!Cfg /\ PW!Nothing = PL!Nothing
    BY <1>1, <1>2 DEF PW!Cfg, PL!Cfg, PW!Nothing, PL!Nothing
<1>4. \A k, s : PW!Opened(k, s) = PL!Opened(k, s)
    BY <1>1 DEF PW!Opened, PL!Opened
<1>5. \A k : /\ PW!Closed(k) = PL!Closed(k) /\ PW!Installed(k) = PL!Installed(k)
             /\ PW!Uninstalled(k) = PL!Uninstalled(k)
    BY <1>1 DEF PW!Closed, PL!Closed, PW!Installed, PL!Installed, PW!Uninstalled, PL!Uninstalled
<1>6. \A k, ps, cfg : PW!Pushed(k, ps, cfg) = PL!Pushed(k, ps, cfg)
    BY <1>1 DEF PW!Pushed, PL!Pushed
<1> QED
    BY <1>1, <1>2, <1>3, <1>4, <1>5, <1>6

\* Both panes save in the one way.
LEMMA SameSaves ==
    ASSUME NEW ps, NEW cfg, NEW p, NEW known
    PROVE  (PW!Save(ps, cfg) <=> PL!Save(ps, cfg)) /\ (PW!Make(p, cfg, known) <=> PL!Make(p, cfg, known))
BY SameConfig DEF PW!Save, PL!Save, PW!Make, PL!Make

\* What a pane p shows, and what the browse n found.
WindowsShows(p, n) ==
    /\ p.up # "no" => /\ p.rows = PW!RowsOf(p) /\ p.reads = PW!HasList(p)
                      /\ p.line = p.said /\ p.offers \subseteq n.found
    /\ p.poll <=> p.up = "up"
    /\ n.on => p.up # "no"
    /\ n.found # {} => n.on

\* What it holds of the plugins.
WindowsHolds(p, s, m) ==
    /\ "nmea" \notin p.has => DOMAIN p.cfg.nmea = {}
    /\ \A q \in PL!Plugins : m[q] # Nil => p.apply /\ q \in p.has /\ p.cfg[q] = m[q]
    /\ "nmea" \in p.has /\ s.nmea # Nil /\ p.cfg.nmea # s.nmea => m.nmea = p.cfg.nmea

\* The inductive invariant of the Windows pane.
WindowsPluginsInv ==
    /\ core \in Cores /\ store \in Saves /\ past \in Saves /\ minted \in SUBSET {1, 2}
    /\ screen \in PW!PaneType /\ aux \in PW!NearType
    /\ WindowsShows(screen, aux) /\ WindowsHolds(screen, store, past) /\ CoreRuns(core, store)

\* What the invariant says of the pane's types.
LEMMA WindowsTyped ==
    WindowsPluginsInv => /\ screen \in PW!PaneType /\ screen.cfg \in PL!Cfg /\ screen.has \subseteq PL!Plugins
                         /\ aux \in PW!NearType
BY SameConfig DEF WindowsPluginsInv, PW!PaneType

\* The page built again is true to the copy.
LEMMA PageBuilt ==
    ASSUME NEW p \in PW!PaneType, NEW found \in SUBSET Hosts
    PROVE  LET b == PW!Built(p, found) IN
           /\ b \in PW!PaneType
           /\ b.cfg = p.cfg /\ b.has = p.has /\ b.apply = p.apply /\ b.up = p.up
           /\ b.poll = p.poll
           /\ b.rows = PW!RowsOf(b) /\ b.reads = PW!HasList(b) /\ b.line = b.said
           /\ b.offers \subseteq found
<1> DEFINE rows == PW!RowsOf(p)
           offers == IF PW!HasList(p) THEN PW!NearbyFor(p, found) ELSE {}
           reads == PW!HasList(p)
           b == PW!Built(p, found)
<1>1. /\ rows \in SUBSET {1, 2} /\ offers \in SUBSET Hosts /\ offers \subseteq found
      /\ reads \in BOOLEAN
    BY SameConfig, Cfgs DEF PW!PaneType, PW!RowsOf, PW!HasList, PW!NearbyFor
<1>2. b = [p EXCEPT !.rows = rows, !.offers = offers, !.reads = reads, !.switch = p.grant,
                    !.line = p.said, !.typed = Nil]
    BY DEF PW!Built
<1> HIDE DEF rows, offers, reads, b
<1>3. b \in PW!PaneType
    <2> DEFINE a == [p EXCEPT !.rows = rows, !.offers = offers, !.reads = reads]
    <2>1. a \in PW!PaneType
        BY <1>1 DEF PW!PaneType
    <2>2. b = [a EXCEPT !.switch = p.grant, !.line = p.said, !.typed = Nil]
        BY <1>2
    <2> HIDE DEF a
    <2> QED
        BY <2>1, <2>2 DEF PW!PaneType
<1>4. /\ b.cfg = p.cfg /\ b.has = p.has /\ b.apply = p.apply /\ b.up = p.up /\ b.poll = p.poll
      /\ b.tab = p.tab /\ b.rows = rows /\ b.reads = reads /\ b.line = p.said /\ b.said = p.said
      /\ b.offers = offers
    BY <1>2 DEF PW!PaneType
<1>5. PW!RowsOf(b) = rows /\ PW!HasList(b) = reads
    BY <1>4 DEF PW!RowsOf, PW!HasList, rows, reads
<1> QED
    BY <1>1, <1>3, <1>4, <1>5 DEF b

\* A step that leaves the copy as it is.
LEMMA WindowsQuiet ==
    ASSUME WindowsPluginsInv, screen' \in PW!PaneType, aux' \in PW!NearType,
           screen'.cfg = screen.cfg, screen'.has = screen.has, screen'.apply = screen.apply,
           core' \in Cores, CoreRuns(core', store), WindowsShows(screen', aux'),
           UNCHANGED <<store, past, minted>>
    PROVE  WindowsPluginsInv'
BY DEF WindowsPluginsInv, WindowsHolds

\* A step that edits.
LEMMA WindowsEdited ==
    ASSUME WindowsPluginsInv, NEW p \in PL!Plugins, p \in screen.has, NEW cfg \in PL!Cfg,
           PW!Make(p, cfg, {store[p]}),
           \A q \in PL!Plugins \ {p} : cfg[q] = screen.cfg[q],
           screen' \in PW!PaneType, screen'.cfg = cfg, screen'.apply = TRUE, screen'.has = screen.has,
           WindowsShows(screen', aux), UNCHANGED <<core, store, aux>>, minted' \in SUBSET {1, 2}
    PROVE  WindowsPluginsInv'
<1>1. /\ past' \in Saves
      /\ \A q \in PL!Plugins \ {p} : past'[q] = past[q]
      /\ past'[p] # Nil => past'[p] = cfg[p] /\ store[p] # cfg[p]
      /\ store[p] # cfg[p] => past'[p] = cfg[p]
    <2>1. PL!Make(p, cfg, {store[p]})
        BY SameSaves
    <2> QED
        BY <2>1, PluginMade DEF WindowsPluginsInv
<1>2. "nmea" \notin screen'.has => DOMAIN screen'.cfg.nmea = {}
    BY Cfgs, WindowsTyped DEF WindowsPluginsInv, WindowsHolds, PL!Plugins
<1>3. ASSUME NEW q \in PL!Plugins, past'[q] # Nil
      PROVE  screen'.apply /\ q \in screen'.has /\ screen'.cfg[q] = past'[q]
    BY <1>1, <1>3 DEF WindowsPluginsInv, WindowsHolds
<1>4. "nmea" \in screen'.has /\ store.nmea # Nil /\ screen'.cfg.nmea # store.nmea => past'.nmea = screen'.cfg.nmea
    <2>1. CASE p = "nmea"
        BY <1>1, <2>1
    <2>2. CASE p # "nmea"
        BY <1>1, <2>2 DEF WindowsPluginsInv, WindowsHolds, PL!Plugins
    <2> QED
        BY <2>1, <2>2
<1>5. WindowsHolds(screen', store, past')
    BY <1>2, <1>3, <1>4 DEF WindowsHolds
<1> QED
    BY <1>1, <1>5 DEF WindowsPluginsInv

\* A number is set, or a group put back to its defaults.
LEMMA WindowsNumberSet ==
    ASSUME WindowsPluginsInv, PW!SetNumber \/ PW!ResetGroup
    PROVE  WindowsPluginsInv'
<1>1. PICK n \in {0, 1} :
          LET cfg == [screen.cfg EXCEPT !.added = n] IN
          /\ PW!Make("added", cfg, {store.added})
          /\ screen' = PW!Edited(screen, cfg) \/ screen' = PW!Built(PW!Edited(screen, cfg), aux.found)
    BY WindowsTyped DEF PW!SetNumber, PW!ResetGroup, PW!Default, PL!Cfg
<1>2. /\ screen.up = "up" /\ "added" \in screen.has
      /\ UNCHANGED <<core, store, minted, aux>>
    BY DEF PW!SetNumber, PW!ResetGroup, PW!Up, PW!Kept
<1> DEFINE cfg == [screen.cfg EXCEPT !.added = n]
           e == PW!Edited(screen, cfg)
<1>3. /\ cfg \in PL!Cfg /\ \A q \in PL!Plugins \ {"added"} : cfg[q] = screen.cfg[q]
      /\ cfg.nmea = screen.cfg.nmea
    BY WindowsTyped DEF PL!Cfg, PL!Plugins
<1>4. PW!Make("added", cfg, {store.added}) /\ (screen' = e \/ screen' = PW!Built(e, aux.found))
    BY <1>1
<1> HIDE DEF cfg
<1>5. /\ e \in PW!PaneType /\ e.cfg = cfg /\ e.apply = TRUE /\ e.has = screen.has /\ e.up = "up"
      /\ e.poll = screen.poll /\ e.rows = screen.rows /\ e.reads = screen.reads
      /\ e.tab = screen.tab
      /\ e.line = screen.line /\ e.said = screen.said /\ e.offers = screen.offers
    BY WindowsTyped, SameConfig, <1>2, <1>3 DEF PW!PaneType, PW!Edited
<1> HIDE DEF e
<1>6. CASE screen' = e
    <2>1. WindowsShows(e, aux)
        BY <1>2, <1>3, <1>5 DEF WindowsPluginsInv, WindowsShows, PW!RowsOf, PW!HasList
    <2> QED
        BY <1>2, <1>3, <1>4, <1>5, <1>6, <2>1, WindowsEdited DEF WindowsPluginsInv, PL!Plugins
<1>7. CASE screen' = PW!Built(e, aux.found)
    <2>1. aux.found \in SUBSET Hosts
        BY WindowsTyped DEF PW!NearType
    <2>2. /\ screen' \in PW!PaneType /\ screen'.cfg = cfg /\ screen'.has = screen.has
          /\ screen'.apply = TRUE
          /\ screen'.up = "up" /\ screen'.poll = screen.poll
          /\ screen'.rows = PW!RowsOf(screen') /\ screen'.reads = PW!HasList(screen')
          /\ screen'.line = screen'.said /\ screen'.offers \subseteq aux.found
        BY <1>5, <1>7, <2>1, PageBuilt
    <2>3. WindowsShows(screen', aux)
        BY <1>2, <2>2 DEF WindowsPluginsInv, WindowsShows
    <2> QED
        BY <1>2, <1>3, <1>4, <2>2, <2>3, WindowsEdited DEF WindowsPluginsInv, PL!Plugins
<1> QED
    BY <1>4, <1>6, <1>7

\* A step that edits the list, and builds the page again.
LEMMA WindowsListEdited ==
    ASSUME WindowsPluginsInv, "nmea" \in screen.has, NEW cfg \in PL!Cfg,
           PW!Make("nmea", cfg, {store.nmea}),
           \A q \in PL!Plugins \ {"nmea"} : cfg[q] = screen.cfg[q], screen.up = "up",
           screen' = PW!Built(PW!Edited(screen, cfg), aux.found), UNCHANGED <<core, store, aux>>,
           minted' \in SUBSET {1, 2}
    PROVE  WindowsPluginsInv'
<1> DEFINE e == PW!Edited(screen, cfg)
<1>1. /\ e \in PW!PaneType /\ e.cfg = cfg /\ e.apply = TRUE /\ e.has = screen.has /\ e.up = "up"
      /\ e.poll = screen.poll
    BY WindowsTyped, SameConfig DEF PW!PaneType, PW!Edited
<1> HIDE DEF e
<1>2. aux.found \in SUBSET Hosts
    BY WindowsTyped DEF PW!NearType
<1>3. /\ screen' \in PW!PaneType /\ screen'.cfg = cfg /\ screen'.has = screen.has
      /\ screen'.apply = TRUE
      /\ screen'.up = "up" /\ screen'.poll = screen.poll
      /\ screen'.rows = PW!RowsOf(screen') /\ screen'.reads = PW!HasList(screen')
      /\ screen'.line = screen'.said /\ screen'.offers \subseteq aux.found
    BY <1>1, <1>2, PageBuilt DEF e
<1>4. WindowsShows(screen', aux)
    BY <1>3 DEF WindowsPluginsInv, WindowsShows
<1> QED
    BY <1>3, <1>4, WindowsEdited DEF WindowsPluginsInv, PL!Plugins

\* A row is added for an offered host.
LEMMA WindowsRowAdded ==
    ASSUME WindowsPluginsInv, NEW text \in PL!Texts, PW!AddRow(text)
    PROVE  WindowsPluginsInv'
<1>1. PICK i \in {1, 2} :
          /\ minted' = minted \cup {i}
          /\ LET cfg == PW!WithRow(screen.cfg, i, text)
             IN screen' = PW!Built(PW!Edited(screen, cfg), aux.found) /\ PW!Make("nmea", cfg, {store.nmea})
    BY DEF PW!AddRow
<1>2. /\ screen.up = "up" /\ screen.reads /\ UNCHANGED <<core, store, aux>>
    BY DEF PW!AddRow, PW!Up
<1>3. "nmea" \in screen.has
    BY <1>2 DEF WindowsPluginsInv, WindowsShows, PW!HasList
<1> DEFINE cfg == PW!WithRow(screen.cfg, i, text)
<1>4. /\ cfg \in PL!Cfg /\ \A q \in PL!Plugins \ {"nmea"} : cfg[q] = screen.cfg[q]
    <2>1. cfg = PL!WithRow(screen.cfg, i, text)
        BY DEF PW!WithRow, PL!WithRow
    <2> QED
        BY <2>1, WindowsTyped, RowAdded DEF PL!Plugins
<1>5. /\ screen' = PW!Built(PW!Edited(screen, cfg), aux.found)
      /\ PW!Make("nmea", cfg, {store.nmea})
    BY <1>1
<1> HIDE DEF cfg
<1> QED
    BY <1>1, <1>2, <1>3, <1>4, <1>5, WindowsListEdited DEF WindowsPluginsInv

\* A row is removed, and the page built again.
LEMMA WindowsRowRemoved ==
    ASSUME WindowsPluginsInv, NEW i \in {1, 2}, PW!RemoveRow(i)
    PROVE  WindowsPluginsInv'
<1> DEFINE rows == [j \in DOMAIN screen.cfg.nmea \ {i} |-> screen.cfg.nmea[j]]
           cfg == [screen.cfg EXCEPT !.nmea = rows]
<1>1. /\ screen' = PW!Built(PW!Edited(screen, cfg), aux.found)
      /\ PW!Make("nmea", cfg, {store.nmea})
    BY DEF PW!RemoveRow
<1>2. screen.up = "up" /\ i \in screen.rows /\ UNCHANGED <<core, store, minted, aux>>
    BY DEF PW!RemoveRow, PW!Up, PW!Kept
<1>3. "nmea" \in screen.has
    BY <1>2 DEF WindowsPluginsInv, WindowsShows, PW!RowsOf, PW!HasList
<1>4. rows \in PL!Rows
    BY WindowsTyped, Cfgs, Row
<1> HIDE DEF rows
<1>5. cfg \in PL!Cfg /\ \A q \in PL!Plugins \ {"nmea"} : cfg[q] = screen.cfg[q]
    BY <1>4, WindowsTyped DEF PL!Cfg, PL!Plugins
<1> HIDE DEF cfg
<1> QED
    BY <1>1, <1>2, <1>3, <1>5, WindowsListEdited DEF WindowsPluginsInv

\* The mariner types into a row.
LEMMA WindowsTyping ==
    ASSUME WindowsPluginsInv, NEW i \in {1, 2}, NEW text \in PL!Texts, PW!Type(i, text)
    PROVE  WindowsPluginsInv'
<1>1. /\ screen' = [screen EXCEPT !.typed = [row |-> i, text |-> text]]
      /\ UNCHANGED <<core, store, past, minted, aux>>
    BY DEF PW!Type, PW!Kept
<1>2. screen' \in PW!PaneType
    BY <1>1, WindowsTyped, SameConfig DEF PW!PaneType
<1>3. /\ screen'.cfg = screen.cfg /\ screen'.has = screen.has /\ screen'.apply = screen.apply
      /\ screen'.up = screen.up
      /\ screen'.poll = screen.poll /\ screen'.rows = screen.rows
      /\ screen'.reads = screen.reads /\ screen'.tab = screen.tab
      /\ screen'.line = screen.line /\ screen'.said = screen.said
      /\ screen'.offers = screen.offers
    BY <1>1, WindowsTyped DEF PW!PaneType
<1>4. WindowsShows(screen', aux')
    BY <1>1, <1>3 DEF WindowsPluginsInv, WindowsShows, PW!RowsOf, PW!HasList
<1> QED
    BY <1>1, <1>2, <1>3, <1>4, WindowsQuiet DEF WindowsPluginsInv

\* What was typed into a row is taken.
LEMMA WindowsCommitted ==
    ASSUME WindowsPluginsInv, PW!Commit
    PROVE  WindowsPluginsInv'
<1> DEFINE t == screen.typed
           q == [screen EXCEPT !.typed = Nil]
           rows == [screen.cfg.nmea EXCEPT ![t.row] = t.text]
           cfg == [screen.cfg EXCEPT !.nmea = rows]
<1>1. /\ screen.up # "no" /\ screen.typed # Nil /\ UNCHANGED <<core, store, minted, aux>>
      /\ \/ t.row \in DOMAIN screen.cfg.nmea /\ screen' = PW!Edited(q, cfg) /\ PW!Make("nmea", cfg, {store.nmea})
         \/ screen' = q /\ past' = past
    BY WindowsTyped DEF PW!Commit, PW!Kept, PL!Cfg
<1>2. t \in [row : {1, 2}, text : PL!Texts]
    BY <1>1, WindowsTyped, SameConfig DEF PW!PaneType
<1>3. /\ q \in PW!PaneType
      /\ q.cfg = screen.cfg /\ q.has = screen.has /\ q.apply = screen.apply /\ q.up = screen.up
      /\ q.poll = screen.poll /\ q.rows = screen.rows /\ q.reads = screen.reads
      /\ q.tab = screen.tab
      /\ q.line = screen.line /\ q.said = screen.said /\ q.offers = screen.offers
    BY WindowsTyped DEF PW!PaneType
<1> HIDE DEF q, cfg
<1>4. CASE screen' = q /\ past' = past
    <2>1. WindowsShows(screen', aux')
        BY <1>1, <1>3, <1>4 DEF WindowsPluginsInv, WindowsShows, PW!RowsOf, PW!HasList
    <2> QED
        BY <1>1, <1>3, <1>4, <2>1, WindowsQuiet DEF WindowsPluginsInv
<1>5. CASE t.row \in DOMAIN screen.cfg.nmea /\ screen' = PW!Edited(q, cfg) /\ PW!Make("nmea", cfg, {store.nmea})
    <2>1. rows \in PL!Rows /\ DOMAIN rows = DOMAIN screen.cfg.nmea
        <3>1. PICK s \in SUBSET {1, 2} : screen.cfg.nmea \in [s -> PL!Texts]
            BY WindowsTyped, Cfgs DEF PL!Rows
        <3> QED
            BY <1>2, <1>5, <3>1, Row
    <2> HIDE DEF rows, t
    <2>2. /\ cfg \in PL!Cfg /\ DOMAIN cfg.nmea = DOMAIN screen.cfg.nmea
          /\ cfg["added"] = screen.cfg["added"]
        BY <2>1, WindowsTyped DEF PL!Cfg, cfg
    <2>3. "nmea" \in screen.has
        BY <1>5 DEF WindowsPluginsInv, WindowsHolds, t
    <2>4. /\ screen' \in PW!PaneType /\ screen'.cfg = cfg /\ screen'.apply = TRUE
          /\ screen'.has = screen.has /\ screen'.up = screen.up
          /\ screen'.poll = screen.poll /\ screen'.rows = screen.rows
          /\ screen'.reads = screen.reads /\ screen'.tab = screen.tab
          /\ screen'.line = screen.line /\ screen'.said = screen.said
          /\ screen'.offers = screen.offers
        BY <1>3, <1>5, <2>2, SameConfig DEF PW!PaneType, PW!Edited
    <2>5. WindowsShows(screen', aux)
        BY <2>2, <2>4 DEF WindowsPluginsInv, WindowsShows, PW!RowsOf, PW!HasList
    <2> QED
        BY <1>1, <1>5, <2>2, <2>3, <2>4, <2>5, WindowsEdited DEF WindowsPluginsInv, PL!Plugins
<1> QED
    BY <1>1, <1>4, <1>5

\* The timer of an edit hands over all the pane has.
LEMMA WindowsApplied ==
    ASSUME WindowsPluginsInv, PW!Apply
    PROVE  WindowsPluginsInv'
<1>1. /\ core' = PL!Pushed(core, screen.has, screen.cfg) /\ PL!Save(screen.has, screen.cfg)
      /\ screen' = [screen EXCEPT !.apply = FALSE] /\ UNCHANGED <<minted, aux>>
    BY SameConfig, SameSaves DEF PW!Apply
<1>2. \A p \in PL!Plugins : past[p] # Nil => p \in screen.has /\ screen.cfg[p] = past[p]
    BY DEF WindowsPluginsInv, WindowsHolds
<1>3. /\ core' \in Cores /\ store' \in Saves /\ past' \in Saves /\ CoreRuns(core', store')
      /\ \A p \in PL!Plugins : past'[p] = IF past[p] = store'[p] THEN Nil ELSE past[p]
      /\ \A p \in screen.has : store'[p] = screen.cfg[p]
    BY <1>1, WindowsTyped, Handed DEF WindowsPluginsInv
<1>33. \A p \in PL!Plugins : past'[p] = Nil
    BY <1>2, <1>3
<1>4. /\ screen' \in PW!PaneType /\ screen'.cfg = screen.cfg /\ screen'.has = screen.has
      /\ screen'.up = screen.up
      /\ screen'.poll = screen.poll /\ screen'.rows = screen.rows
      /\ screen'.reads = screen.reads /\ screen'.tab = screen.tab
      /\ screen'.line = screen.line /\ screen'.said = screen.said
      /\ screen'.offers = screen.offers
    BY <1>1, WindowsTyped DEF PW!PaneType
<1>5. WindowsShows(screen', aux')
    BY <1>1, <1>4 DEF WindowsPluginsInv, WindowsShows, PW!RowsOf, PW!HasList
<1>6. WindowsHolds(screen', store', past')
    BY <1>3, <1>33, <1>4 DEF WindowsPluginsInv, WindowsHolds
<1> QED
    BY <1>1, <1>3, <1>4, <1>5, <1>6 DEF WindowsPluginsInv

\* The switch of the added plugin's grant.
LEMMA WindowsGranted ==
    ASSUME WindowsPluginsInv, PW!ToggleGrant
    PROVE  WindowsPluginsInv'
<1> DEFINE g == IF core.open /\ "added" \in core.loaded THEN ~screen.switch ELSE core.grant
           sw == ~screen.switch
<1>1. /\ screen' = [screen EXCEPT !.switch = sw] /\ core' = [core EXCEPT !.grant = g]
      /\ UNCHANGED <<store, past, minted, aux>>
    BY DEF PW!ToggleGrant, WindowsPluginsInv, Cores
<1>2. g \in BOOLEAN /\ sw \in BOOLEAN
    BY WindowsTyped DEF WindowsPluginsInv, Cores, PW!PaneType
<1> HIDE DEF g, sw
<1>3. core' \in Cores /\ CoreRuns(core', store)
    BY <1>1, <1>2 DEF WindowsPluginsInv, Cores, CoreRuns
<1>4. /\ screen' \in PW!PaneType /\ screen'.cfg = screen.cfg /\ screen'.has = screen.has
      /\ screen'.up = screen.up /\ screen'.apply = screen.apply
      /\ screen'.poll = screen.poll /\ screen'.rows = screen.rows
      /\ screen'.reads = screen.reads /\ screen'.tab = screen.tab
      /\ screen'.line = screen.line /\ screen'.said = screen.said
      /\ screen'.offers = screen.offers
    BY <1>1, <1>2, WindowsTyped DEF PW!PaneType
<1>5. WindowsShows(screen', aux')
    BY <1>1, <1>4 DEF WindowsPluginsInv, WindowsShows, PW!RowsOf, PW!HasList
<1> QED
    BY <1>1, <1>3, <1>4, <1>5, WindowsQuiet DEF WindowsPluginsInv

\* The page is built over the copy as it is.
LEMMA WindowsRebuilt ==
    ASSUME WindowsPluginsInv,
           \/ PW!Rebuild \/ PW!PollFound \/ \E t \in {"connections", "plugins"} : PW!Select(t)
    PROVE  WindowsPluginsInv'
<1>1. UNCHANGED <<core, store, past, minted>>
    BY DEF PW!Rebuild, PW!PollFound, PW!Select, PW!Kept
<1>2. PICK t \in {"connections", "plugins"} : screen' = PW!Built([screen EXCEPT !.tab = t], aux.found)
    <2>1. /\ [screen EXCEPT !.tab = screen.tab] = screen
          /\ screen.tab \in {"connections", "plugins"}
        BY WindowsTyped DEF PW!PaneType
    <2> QED
        BY <2>1 DEF PW!Rebuild, PW!PollFound, PW!Select
<1>3. aux' = aux \/ aux' = [aux EXCEPT !.news = FALSE]
    BY DEF PW!Rebuild, PW!PollFound, PW!Select
<1> DEFINE p == [screen EXCEPT !.tab = t]
<1>4. /\ p \in PW!PaneType /\ p.cfg = screen.cfg /\ p.has = screen.has /\ p.apply = screen.apply
      /\ p.up = screen.up /\ p.poll = screen.poll
    BY WindowsTyped DEF PW!PaneType
<1> HIDE DEF p
<1>5. /\ aux.found \in SUBSET Hosts /\ aux' \in PW!NearType /\ aux'.found = aux.found
      /\ aux'.on = aux.on
    BY <1>3, WindowsTyped DEF PW!NearType
<1>6. /\ screen' \in PW!PaneType
      /\ screen'.cfg = screen.cfg /\ screen'.has = screen.has /\ screen'.apply = screen.apply
      /\ screen'.up = screen.up /\ screen'.poll = screen.poll
      /\ screen'.rows = PW!RowsOf(screen') /\ screen'.reads = PW!HasList(screen')
      /\ screen'.line = screen'.said /\ screen'.offers \subseteq aux.found
    BY <1>2, <1>4, <1>5, PageBuilt DEF p
<1>7. WindowsShows(screen', aux')
    BY <1>5, <1>6 DEF WindowsPluginsInv, WindowsShows
<1> QED
    BY <1>1, <1>5, <1>6, <1>7, WindowsQuiet DEF WindowsPluginsInv

\* The polls start, and put the lines in place.
LEMMA WindowsPolled ==
    ASSUME WindowsPluginsInv, PW!Shown \/ PW!PollStatus
    PROVE  WindowsPluginsInv'
<1>1. UNCHANGED <<core, store, past, minted>>
    BY DEF PW!Shown, PW!PollStatus, PW!Kept
<1>2. /\ screen' \in PW!PaneType /\ aux' \in PW!NearType /\ aux'.on = aux.on
      /\ aux'.found = aux.found
      /\ screen'.cfg = screen.cfg /\ screen'.has = screen.has /\ screen'.apply = screen.apply
      /\ screen'.rows = screen.rows /\ screen'.reads = screen.reads /\ screen'.tab = screen.tab
      /\ screen'.offers = screen.offers
      /\ (screen'.line = screen.line /\ screen'.said = screen.said) \/ screen'.line = screen'.said
      /\ screen'.up # "no" /\ screen.up # "no" /\ (screen'.poll <=> screen'.up = "up")
    <2>1. CASE PW!Shown
        BY <2>1, WindowsTyped DEF PW!Shown, PW!PaneType, PW!NearType
    <2>2. CASE PW!PollStatus
        <3>1. core.said \in {0, 1} /\ screen.up = "up"
            BY <2>2 DEF WindowsPluginsInv, Cores, WindowsShows, PW!PollStatus
        <3> QED
            BY <2>2, <3>1, WindowsTyped DEF PW!PollStatus, PW!PaneType, WindowsPluginsInv
    <2> QED
        BY <2>1, <2>2
<1>3. WindowsShows(screen', aux')
    BY <1>2 DEF WindowsPluginsInv, WindowsShows, PW!RowsOf, PW!HasList
<1> QED
    BY <1>1, <1>2, <1>3, WindowsQuiet DEF WindowsPluginsInv

\* The pane is closed; the timer of an edit runs on.
LEMMA WindowsClosed ==
    ASSUME WindowsPluginsInv, PW!Close
    PROVE  WindowsPluginsInv'
<1>1. /\ UNCHANGED <<core, store, past, minted>>
      /\ screen' = [screen EXCEPT !.up = "no", !.poll = FALSE, !.rows = {}, !.offers = {},
                          !.reads = FALSE, !.typed = Nil, !.switch = TRUE, !.line = 0]
      /\ aux' = [aux EXCEPT !.on = FALSE, !.found = {}, !.news = TRUE]
    BY DEF PW!Close, PW!Kept
<1>2. aux' \in PW!NearType /\ ~aux'.on /\ aux'.found = {}
    BY <1>1, WindowsTyped DEF PW!NearType
<1>3. screen' \in PW!PaneType
    <2> DEFINE a == [screen EXCEPT !.up = "no", !.poll = FALSE, !.rows = {}, !.offers = {}]
    <2>1. a \in PW!PaneType
        BY WindowsTyped DEF PW!PaneType
    <2>2. screen' = [a EXCEPT !.reads = FALSE, !.typed = Nil, !.switch = TRUE, !.line = 0]
        BY <1>1
    <2> HIDE DEF a
    <2> QED
        BY <2>1, <2>2 DEF PW!PaneType
<1>4. /\ screen'.cfg = screen.cfg /\ screen'.has = screen.has /\ screen'.apply = screen.apply
      /\ screen'.up = "no" /\ ~screen'.poll
    BY <1>1, WindowsTyped DEF PW!PaneType
<1>5. WindowsShows(screen', aux')
    BY <1>2, <1>4 DEF WindowsShows
<1> QED
    BY <1>1, <1>2, <1>3, <1>4, <1>5, WindowsQuiet DEF WindowsPluginsInv

\* The browse's threads.
LEMMA WindowsBrowsed ==
    ASSUME WindowsPluginsInv, NEW h \in Hosts, PW!BrowseFound(h) \/ PW!ResolveDone(h)
    PROVE  WindowsPluginsInv'
<1>1. UNCHANGED <<core, store, past, minted, screen>>
    BY DEF PW!BrowseFound, PW!ResolveDone, PW!Kept
<1>2. /\ aux' \in PW!NearType /\ aux'.on = aux.on /\ aux.found \subseteq aux'.found
      /\ aux'.found # aux.found => aux.on
    BY WindowsTyped DEF PW!BrowseFound, PW!ResolveDone, PW!NearType
<1>3. WindowsShows(screen', aux')
    BY <1>1, <1>2 DEF WindowsPluginsInv, WindowsShows, PW!RowsOf, PW!HasList
<1> QED
    BY <1>1, <1>2, <1>3, WindowsQuiet DEF WindowsPluginsInv

\* The dialogs.
LEMMA WindowsAsked ==
    ASSUME WindowsPluginsInv, PW!Dialogs
    PROVE  WindowsPluginsInv'
<1>1. UNCHANGED <<core, store, past, minted, aux>>
    BY DEF PW!Dialogs, PW!InstallClicked, PW!AskUninstall, PW!InstallFromPath, PW!Dismissed, PW!Kept
<1>2. PICK t \in {"no", "ask", "pick", "sheet"} :
          screen' = [screen EXCEPT !.task = t] \/ screen' = [screen EXCEPT !.task = t, !.parked = TRUE]
    BY DEF PW!Dialogs, PW!InstallClicked, PW!AskUninstall, PW!InstallFromPath, PW!Dismissed
<1>3. /\ screen' \in PW!PaneType /\ screen'.cfg = screen.cfg /\ screen'.has = screen.has
      /\ screen'.up = screen.up /\ screen'.apply = screen.apply
      /\ screen'.poll = screen.poll /\ screen'.rows = screen.rows
      /\ screen'.reads = screen.reads /\ screen'.tab = screen.tab
      /\ screen'.line = screen.line /\ screen'.said = screen.said
      /\ screen'.offers = screen.offers
    <2>1. CASE screen' = [screen EXCEPT !.task = t]
        BY <2>1, WindowsTyped DEF PW!PaneType
    <2>2. CASE screen' = [screen EXCEPT !.task = t, !.parked = TRUE]
        BY <2>2, WindowsTyped DEF PW!PaneType
    <2> QED
        BY <1>2, <2>1, <2>2
<1>4. WindowsShows(screen', aux')
    BY <1>1, <1>3 DEF WindowsPluginsInv, WindowsShows, PW!RowsOf, PW!HasList
<1> QED
    BY <1>1, <1>3, <1>4, WindowsQuiet DEF WindowsPluginsInv

\* A chart opens or closes, or a plugin speaks.
LEMMA WindowsCharted ==
    ASSUME WindowsPluginsInv, PW!Chart
    PROVE  WindowsPluginsInv'
<1>1. /\ UNCHANGED <<store, past, minted, aux>>
      /\ \/ core' = PL!Opened(core, store) \/ core' = PL!Closed(core)
         \/ core' = [core EXCEPT !.said = 1 - @]
    BY SameConfig DEF PW!Chart, PW!OpenChart, PW!CloseChart, PW!Speak
<1>2. core' \in Cores /\ CoreRuns(core', store)
    BY <1>1, Charted DEF WindowsPluginsInv
<1>3. \/ screen' = screen \/ screen' = [screen EXCEPT !.parked = FALSE]
      \/ screen' = [screen EXCEPT !.parked = FALSE, !.task = "sheet"]
    BY DEF PW!Chart, PW!OpenChart, PW!CloseChart, PW!Speak
<1>4. /\ screen' \in PW!PaneType /\ screen'.cfg = screen.cfg /\ screen'.has = screen.has
      /\ screen'.up = screen.up /\ screen'.apply = screen.apply
      /\ screen'.poll = screen.poll /\ screen'.rows = screen.rows
      /\ screen'.reads = screen.reads /\ screen'.tab = screen.tab
      /\ screen'.line = screen.line /\ screen'.said = screen.said
      /\ screen'.offers = screen.offers
    BY <1>3, WindowsTyped DEF PW!PaneType
<1>5. WindowsShows(screen', aux')
    BY <1>1, <1>4 DEF WindowsPluginsInv, WindowsShows, PW!RowsOf, PW!HasList
<1> QED
    BY <1>1, <1>2, <1>4, <1>5, WindowsQuiet DEF WindowsPluginsInv

\* The pane l is where p was, and its page is drawn as its copy is.
Redrawn(l, p, found) ==
    /\ l.apply = p.apply /\ l.up = p.up /\ l.poll = p.poll
    /\ l.rows = PW!RowsOf(l) /\ l.reads = PW!HasList(l) /\ l.line = l.said
    /\ l.offers \subseteq found

\* The registry read again, of a core that runs on what is saved: an edit it reads over is
\* none any more.
LEMMA WindowsLoaded ==
    ASSUME NEW p \in PW!PaneType, NEW found \in SUBSET Hosts, NEW k \in Cores, NEW s \in Saves,
           CoreRuns(k, s), NEW m \in Saves, WindowsHolds(p, s, m)
    PROVE  LET l == PW!Loaded(p, k, found) IN
           /\ l \in PW!PaneType /\ Redrawn(l, p, found)
           /\ WindowsHolds(l, s, PW!Survives(m, l)) /\ PW!Survives(m, l) \in Saves
<1> DEFINE r == PW!Reloaded(p, k)
           t == PW!Tabbed(r)
           l == PW!Loaded(p, k, found)
           n == PW!Survives(m, l)
<1>1. /\ r \in PW!PaneType /\ r.apply = p.apply /\ r.up = p.up /\ r.poll = p.poll
      /\ "nmea" \notin r.has => DOMAIN r.cfg.nmea = {}
      /\ \/ r = p
         \/ "nmea" \in r.has /\ (s.nmea # Nil => r.cfg.nmea = s.nmea)
    <2>1. CASE ~k.open
        BY <2>1 DEF PW!Reloaded, WindowsHolds
    <2>2. CASE k.open
        <3> DEFINE cfg == PW!ReadCfg(p, k)
        <3>1. /\ p.cfg \in PL!Cfg /\ k.cfg \in PL!Cfg /\ "nmea" \in k.loaded
              /\ "nmea" \notin k.fresh
            BY SameConfig DEF PW!PaneType, Cores, CoreRuns
        <3>2. cfg \in PL!Cfg /\ cfg.nmea = k.cfg.nmea
            BY <3>1 DEF PW!ReadCfg, PL!Cfg
        <3>3. s.nmea # Nil => cfg.nmea = s.nmea
            BY <2>2, <3>1, <3>2 DEF CoreRuns
        <3>4. r = [p EXCEPT !.has = k.loaded, !.cfg = cfg, !.grant = k.grant, !.said = k.said]
            BY <2>2 DEF PW!Reloaded
        <3> HIDE DEF cfg, r
        <3>5. /\ r \in PW!PaneType /\ r.apply = p.apply /\ r.up = p.up /\ r.poll = p.poll
              /\ r.has = k.loaded /\ r.cfg = cfg
            BY <3>2, <3>4, SameConfig DEF PW!PaneType, Cores
        <3> QED
            BY <3>1, <3>3, <3>5
    <2> QED
        BY <2>1, <2>2
<1> HIDE DEF r
<1>2. /\ t \in PW!PaneType /\ t.apply = p.apply /\ t.up = p.up /\ t.poll = p.poll
      /\ t.cfg = r.cfg /\ t.has = r.has
    BY <1>1 DEF PW!Tabbed, PW!PaneType
<1> HIDE DEF t
<1>3. l = PW!Built(t, found)
    BY DEF PW!Loaded, t, r
<1>4. /\ l \in PW!PaneType /\ l.cfg = t.cfg /\ l.has = t.has
      /\ l.apply = p.apply /\ l.up = p.up /\ l.poll = p.poll
      /\ l.rows = PW!RowsOf(l) /\ l.reads = PW!HasList(l) /\ l.line = l.said
      /\ l.offers \subseteq found
    <2> HIDE DEF l
    <2> QED
        BY <1>2, <1>3, PageBuilt
<1> HIDE DEF l
<1>5. \A q \in PL!Plugins :
          n[q] = IF l.apply /\ (q \notin l.has \/ l.cfg[q] # m[q]) THEN Nil ELSE m[q]
    BY SameConfig DEF PW!Survives
<1>6. n \in Saves
    BY DEF PW!Survives, Saves, PL!Plugins, PW!Plugins
<1>7. n.nmea = n["nmea"] /\ m.nmea = m["nmea"] /\ l.cfg.nmea = l.cfg["nmea"]
    OBVIOUS
<1> HIDE DEF n
<1>8. WindowsHolds(l, s, n)
    <2>1. \A q \in PL!Plugins : n[q] # Nil => l.apply /\ q \in l.has /\ l.cfg[q] = n[q]
        BY <1>4, <1>5 DEF WindowsHolds
    <2>2. "nmea" \in l.has /\ s.nmea # Nil /\ l.cfg.nmea # s.nmea => n.nmea = l.cfg.nmea
        BY <1>1, <1>2, <1>4, <1>5, <1>7 DEF WindowsHolds, PL!Plugins
    <2> QED
        BY <1>1, <1>2, <1>4, <2>1, <2>2 DEF WindowsHolds
<1> QED
    BY <1>4, <1>6, <1>8 DEF Redrawn, l, n

\* The pane is shown on what the registry says.
LEMMA WindowsShown ==
    ASSUME WindowsPluginsInv, PW!Show
    PROVE  WindowsPluginsInv'
<1> DEFINE l == PW!Loaded(screen, core, aux.found)
           n == PW!Survives(past, l)
<1>1. /\ UNCHANGED <<core, store, minted>> /\ screen.up = "no"
      /\ screen' = [l EXCEPT !.up = "rising"]
      /\ aux' = [aux EXCEPT !.on = "nmea" \in screen'.has]
      /\ past' = PW!Survives(past, screen')
    BY DEF PW!Show, PW!Kept
<1>2. aux.found = {} /\ aux.found \in SUBSET Hosts
    BY <1>1, WindowsTyped DEF WindowsPluginsInv, WindowsShows, PW!NearType
<1>3. /\ l \in PW!PaneType /\ WindowsHolds(l, store, n) /\ n \in Saves /\ l.poll = screen.poll
      /\ l.rows = PW!RowsOf(l) /\ l.reads = PW!HasList(l) /\ l.line = l.said
      /\ l.offers \subseteq aux.found
    <2>1. /\ screen \in PW!PaneType /\ core \in Cores /\ store \in Saves
          /\ CoreRuns(core, store)
          /\ past \in Saves /\ WindowsHolds(screen, store, past)
        BY DEF WindowsPluginsInv
    <2>2. /\ l \in PW!PaneType /\ WindowsHolds(l, store, n) /\ n \in Saves
          /\ Redrawn(l, screen, aux.found)
        BY <1>2, <2>1, WindowsLoaded
    <2> HIDE DEF l, n
    <2> QED
        BY <2>2 DEF Redrawn
<1> HIDE DEF l
<1>4. /\ screen' \in PW!PaneType /\ screen'.cfg = l.cfg /\ screen'.has = l.has
      /\ screen'.up = "rising" /\ screen'.apply = l.apply
      /\ screen'.poll = l.poll /\ screen'.rows = l.rows /\ screen'.reads = l.reads
      /\ screen'.tab = l.tab
      /\ screen'.line = l.line /\ screen'.said = l.said /\ screen'.offers = l.offers
    BY <1>1, <1>3 DEF PW!PaneType
<1>5. past' = n
    BY <1>1, <1>4 DEF PW!Survives
<1> HIDE DEF n
<1>6. aux' \in PW!NearType /\ aux'.found = {}
    <2> DEFINE on == "nmea" \in screen'.has
    <2>1. on \in BOOLEAN /\ aux' = [aux EXCEPT !.on = on]
        BY <1>1
    <2> HIDE DEF on
    <2> QED
        BY <1>2, <2>1, WindowsTyped DEF PW!NearType
<1>7. WindowsShows(screen', aux')
    BY <1>1, <1>2, <1>3, <1>4, <1>6 DEF WindowsPluginsInv, WindowsShows, PW!RowsOf, PW!HasList
<1>8. WindowsHolds(screen', store, past')
    BY <1>3, <1>4, <1>5 DEF WindowsHolds
<1> QED
    BY <1>1, <1>3, <1>4, <1>5, <1>6, <1>7, <1>8 DEF WindowsPluginsInv

\* The added plugin comes or goes, and the pane is loaded again.
LEMMA WindowsManaged ==
    ASSUME WindowsPluginsInv, PW!Confirm \/ PW!Uninstall
    PROVE  WindowsPluginsInv'
<1> DEFINE p == [screen EXCEPT !.task = "no"]
           forgot == [past EXCEPT !.added = Nil]
<1>1. PICK m \in {past, forgot} :
          /\ UNCHANGED <<store, minted, aux>>
          /\ core' = core \/ core' = PL!Installed(core) \/ core' = PL!Uninstalled(core)
          /\ \/ screen' = PW!Loaded(p, core', aux.found) /\ past' = PW!Survives(m, screen')
             \/ screen.up = "no" /\ screen' = p /\ past' = m
    <2>1. CASE PW!Confirm
        BY <2>1, SameConfig DEF PW!Confirm
    <2>2. CASE PW!Uninstall
        <3>1. [past EXCEPT !.added = IF core.open THEN Nil ELSE @] \in {past, forgot}
            BY DEF WindowsPluginsInv, Saves
        <3> QED
            BY <2>2, <3>1, SameConfig DEF PW!Uninstall
    <2> QED
        BY <2>1, <2>2
<1>2. /\ m \in Saves /\ m.nmea = past.nmea /\ \A q \in PL!Plugins : m[q] \in {past[q], Nil}
    BY DEF WindowsPluginsInv, Saves, PL!Plugins
<1>3. core' \in Cores /\ CoreRuns(core', store) /\ store \in Saves
    BY <1>1, Managed DEF WindowsPluginsInv
<1>4. /\ p \in PW!PaneType /\ p.cfg = screen.cfg /\ p.has = screen.has /\ p.up = screen.up
      /\ p.apply = screen.apply
      /\ p.poll = screen.poll /\ p.rows = screen.rows /\ p.reads = screen.reads
      /\ p.tab = screen.tab
      /\ p.line = screen.line /\ p.said = screen.said /\ p.offers = screen.offers
    BY WindowsTyped DEF PW!PaneType
<1> HIDE DEF forgot, p
<1>5. WindowsHolds(p, store, m)
    BY <1>2, <1>4 DEF WindowsPluginsInv, WindowsHolds
<1>6. CASE screen.up = "no" /\ screen' = p /\ past' = m
    <2>1. WindowsShows(screen', aux')
        BY <1>1, <1>4, <1>6 DEF WindowsPluginsInv, WindowsShows
    <2> QED
        BY <1>1, <1>2, <1>3, <1>4, <1>5, <1>6, <2>1 DEF WindowsPluginsInv
<1>7. CASE screen' = PW!Loaded(p, core', aux.found) /\ past' = PW!Survives(m, screen')
    <2>1. aux.found \in SUBSET Hosts
        BY WindowsTyped DEF PW!NearType
    <2> DEFINE l == PW!Loaded(p, core', aux.found)
    <2>2. /\ l \in PW!PaneType /\ Redrawn(l, p, aux.found)
          /\ WindowsHolds(l, store, PW!Survives(m, l)) /\ PW!Survives(m, l) \in Saves
        BY <1>2, <1>3, <1>4, <1>5, <2>1, WindowsLoaded
    <2>3. screen' = l /\ past' = PW!Survives(m, l)
        BY <1>7
    <2> HIDE DEF l
    <2>4. WindowsShows(screen', aux')
        BY <1>1, <1>4, <2>2, <2>3 DEF WindowsPluginsInv, WindowsShows, Redrawn
    <2> QED
        BY <1>1, <1>3, <2>2, <2>3, <2>4 DEF WindowsPluginsInv
<1> QED
    BY <1>1, <1>6, <1>7

\* Every step of the Windows pane keeps the invariant.
LEMMA WindowsPluginsStep ==
    ASSUME WindowsPluginsInv, PW!Next
    PROVE  WindowsPluginsInv'
BY WindowsNumberSet, WindowsGranted, WindowsRowAdded, WindowsRowRemoved, WindowsTyping,
   WindowsCommitted, WindowsApplied, WindowsRebuilt, WindowsPolled, WindowsClosed, WindowsBrowsed,
   WindowsAsked, WindowsCharted, WindowsShown, WindowsManaged, SameConfig
   DEF PW!Next, PW!Edits, PW!Network, PW!Window, PW!Loop

\* The invariant holds where the Windows pane begins.
LEMMA WindowsPluginsBegin ==
    ASSUME PW!Init
    PROVE  WindowsPluginsInv
<1>1. core \in Cores /\ ~core.open /\ "nmea" \in core.loaded \ core.fresh
    BY Defaults, SameConfig DEF PW!Init, PW!ConfigInit, Cores, PL!Plugins
<1>2. store = PL!Nothing /\ past = PL!Nothing /\ minted = {}
    BY SameConfig DEF PW!Init, PW!ConfigInit
<1>3. /\ screen \in PW!PaneType /\ screen.up = "no" /\ screen.has = {}
      /\ screen.cfg = PL!Default /\ ~screen.poll
    BY Defaults, SameConfig DEF PW!Init, PW!PaneType
<1>4. aux \in PW!NearType /\ ~aux.on /\ aux.found = {}
    BY DEF PW!Init, PW!NearType
<1>5. \A p \in PL!Plugins : past[p] = Nil
    BY <1>2 DEF PL!Nothing
<1> QED
    BY <1>1, <1>2, <1>3, <1>4, <1>5, Defaults DEF WindowsPluginsInv, WindowsShows, WindowsHolds, CoreRuns

\* The invariant is enough for what is promised of the Windows pane.
LEMMA WindowsPluginsTrue ==
    ASSUME WindowsPluginsInv
    PROVE  /\ PW!ConfigTypeOK /\ screen \in PW!PaneType /\ aux \in PW!NearType
           /\ PW!PaneIsTrue /\ PW!EditIsOnItsWay /\ PW!InForce
<1>1. PW!ConfigTypeOK
    BY SameConfig DEF WindowsPluginsInv, PW!ConfigTypeOK, Cores, Saves
<1>2. PW!PaneIsTrue
    BY DEF WindowsPluginsInv, WindowsShows, PW!PaneIsTrue
<1>3. PW!EditIsOnItsWay
    BY SameConfig DEF WindowsPluginsInv, WindowsHolds, PW!EditIsOnItsWay
<1>4. PW!InForce
    BY DEF WindowsPluginsInv, CoreRuns, PW!InForce
<1> QED
    BY <1>1, <1>2, <1>3, <1>4 DEF WindowsPluginsInv

\* What the timer hands over of the list is what the mariner made of it.
LEMMA WindowsNothingUndone ==
    ASSUME WindowsPluginsInv, PW!Next
    PROVE  PW!NothingIsUndone
<1>1. store' = store \/ PW!Apply
    <2>1. CASE PW!Chart \/ PW!Confirm \/ PW!Uninstall
        BY <2>1 DEF PW!Chart, PW!OpenChart, PW!CloseChart, PW!Speak, PW!Confirm, PW!Uninstall
    <2>2. CASE PW!Edits
        BY <2>2 DEF PW!Edits, PW!SetNumber, PW!ResetGroup, PW!ToggleGrant, PW!AddRow, PW!RemoveRow,
                    PW!Type, PW!Commit, PW!Kept
    <2>3. CASE PW!Network \/ PW!Dialogs
        BY <2>3 DEF PW!Network, PW!BrowseFound, PW!ResolveDone, PW!Kept, PW!Dialogs, PW!InstallClicked,
                    PW!AskUninstall, PW!InstallFromPath, PW!Dismissed
    <2>4. CASE PW!Window
        BY <2>4 DEF PW!Window, PW!Show, PW!Close, PW!Rebuild, PW!Select, PW!Kept
    <2>5. CASE PW!Loop
        BY <2>5 DEF PW!Loop, PW!Shown, PW!PollStatus, PW!PollFound, PW!Kept
    <2> QED
        BY <2>1, <2>2, <2>3, <2>4, <2>5 DEF PW!Next
<1>2. CASE PW!Apply
    <2>1. \A p \in PL!Plugins : store'[p] = IF p \in screen.has THEN screen.cfg[p] ELSE store[p]
        BY <1>2, SameConfig DEF PW!Apply, PW!Save
    <2> QED
        BY <2>1 DEF WindowsPluginsInv, WindowsHolds, PW!NothingIsUndone, PL!Plugins
<1> QED
    BY <1>1, <1>2 DEF PW!NothingIsUndone

-------------------------------------------------------------------------------
(* Both panes                                                                *)

\* One of the two panes of the plugins' settings.
OfPlugins == pane \in {"linux plugins", "windows plugins"}

\* A step of the pane.
PluginsNext ==
    /\ \/ pane = "linux plugins" /\ PL!Next
       \/ pane = "windows plugins" /\ PW!Next
    /\ UNCHANGED <<pane, busy>>

\* All that may happen to one, whatever a run bounds.
PluginsSpec == PanesInit /\ OfPlugins /\ [][PluginsNext]_panesVars

\* The inductive invariant: the shell's whose pane it is.
PluginPanesInv ==
    /\ OfPlugins
    /\ pane = "linux plugins" => LinuxPluginsInv
    /\ pane = "windows plugins" => WindowsPluginsInv

\* It holds where a pane begins.
LEMMA PluginPanesBegin == PanesInit /\ OfPlugins => PluginPanesInv
BY LinuxPluginsBegin, WindowsPluginsBegin DEF PanesInit, OfPlugins, PluginPanesInv

\* Every step keeps it, and undoes nothing but what a copy may beside which another
\* window edited or saved.
LEMMA PluginPanesStep ==
    ASSUME PluginPanesInv, [PluginsNext]_panesVars
    PROVE  PluginPanesInv' /\ (NothingIsUndone \/ UNCHANGED panesVars)
<1>1. CASE UNCHANGED panesVars
    <2>1. pane = "linux plugins" => LinuxPluginsInv'
        BY <1>1 DEF panesVars, PluginPanesInv, LinuxPluginsInv
    <2>2. pane = "windows plugins" => WindowsPluginsInv'
        BY <1>1 DEF panesVars, PluginPanesInv, WindowsPluginsInv
    <2> QED
        BY <1>1, <2>1, <2>2 DEF panesVars, PluginPanesInv, OfPlugins
<1>2. CASE pane = "linux plugins" /\ PL!Next /\ UNCHANGED pane
    <2>1. LinuxPluginsInv' /\ PL!NothingElseIsUndone
        BY <1>2, LinuxPluginsStep, LinuxNothingUndone DEF PluginPanesInv
    <2> QED
        BY <1>2, <2>1 DEF PluginPanesInv, OfPlugins, NothingIsUndone
<1>3. CASE pane = "windows plugins" /\ PW!Next /\ UNCHANGED pane
    <2>1. WindowsPluginsInv' /\ PW!NothingIsUndone
        BY <1>3, WindowsPluginsStep, WindowsNothingUndone DEF PluginPanesInv
    <2> QED
        BY <1>3, <2>1 DEF PluginPanesInv, OfPlugins, NothingIsUndone
<1> QED
    BY <1>1, <1>2, <1>3 DEF PluginsNext

\* The invariant is enough.
LEMMA PluginPanesTrue == PluginPanesInv => PanesAreTrue
<1>1. ASSUME PluginPanesInv, pane = "linux plugins" PROVE PanesAreTrue
    BY <1>1, LinuxPluginsTrue DEF PluginPanesInv, PanesAreTrue, PanesTypeOK, EditIsOnItsWay
<1>2. ASSUME PluginPanesInv, pane = "windows plugins" PROVE PanesAreTrue
    BY <1>2, WindowsPluginsTrue DEF PluginPanesInv, PanesAreTrue, PanesTypeOK, EditIsOnItsWay
<1> QED
    BY <1>1, <1>2 DEF PluginPanesInv, OfPlugins

\* Of the plugins' panes, of both shells, with any number of windows: what a pane shows
\* is what it edits and what the core says, or an idle or a timer that will put it right
\* is set, and an edit the shell has yet to save is on its way.
THEOREM PluginPanesHold == PluginsSpec => []PanesAreTrue
<1>1. PluginPanesInv /\ [PluginsNext]_panesVars => PluginPanesInv'
    BY PluginPanesStep
<1> QED
    BY <1>1, PluginPanesBegin, PluginPanesTrue, PTL DEF PluginsSpec

\* And a save of theirs puts an older copy of the list over what the mariner made of it
\* only from a Linux window beside which another one edited or saved it.
THEOREM PluginEditsAreKept == PluginsSpec => EditIsKept
<1>1. PluginPanesInv /\ [PluginsNext]_panesVars => PluginPanesInv'
    BY PluginPanesStep
<1>2. PluginPanesInv /\ [PluginsNext]_panesVars => [NothingIsUndone]_panesVars
    BY PluginPanesStep
<1> QED
    BY <1>1, <1>2, PluginPanesBegin, PTL DEF PluginsSpec, EditIsKept
===============================================================================
