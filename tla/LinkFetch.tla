------------------------------- MODULE LinkFetch -------------------------------
(***************************************************************************)
(* The fetches a chart handle asks its shell for, on Linux: the fetcher of *)
(* src/linux/src/library/fetch.c, the charts-by-link object that owns it   *)
(* (model/links.c) and the way an answer takes back to the handle          *)
(* (engine/controller.c).                                                  *)
(*                                                                         *)
(* One thread, GLib's main loop.  libsoup and GIO (external) run each      *)
(* request and call its completion on a later turn; a request that was     *)
(* cancelled by then completes as cancelled, whatever had come in.  A      *)
(* handle numbers its requests from 1, and the next handle does so again:  *)
(* the generation `from` of a fetch is what no number tells, and no        *)
(* handler reads it.                                                       *)
(***************************************************************************)
EXTENDS Naturals, FiniteSets

CONSTANTS Slots,     \* places for LkFetch structs
          MaxOpens,  \* bound: handles opened
          MaxIds,    \* bound: requests of a handle
          None       \* no fetch

ASSUME FetchBounds == {MaxOpens, MaxIds} \subseteq Nat /\ IsFiniteSet(Slots)

Ids == 1 .. MaxIds

Fetches == [id : Ids, from : 1 .. MaxOpens, cancelled : BOOLEAN, at : {"send", "body", "file"}]

ASSUME NoneIsNone == None \notin Slots /\ None \notin Fetches

VARIABLES
    handle,     \* the open chart handle by its generation, 0 for none
    opens,      \* handles opened so far
    provider,   \* the handle has its shell's http provider
    nextId,     \* the number the handle gives its next request
    asked,      \* the handle's requests that are not decided
    fetch,      \* slot -> an LkFetch, or None
    in_flight,  \* request number -> slot, or None: the fetcher's table
    live,       \* the fetcher takes requests
    dead,       \* lk_fetcher_free has run
    refs,       \* holds on the fetcher: its owner's and one of each fetch
    linked,     \* the links object has its fetcher and its controller
    old,        \* where the list of the shell's old keyfile is
    took        \* what was handed over: <<the handle, who asked for it>>

chart == <<handle, opens, provider, nextId, asked>>
fetcher == <<fetch, in_flight, live, dead, refs>>
vars == <<chart, fetcher, linked, old, took>>

Init ==
    /\ handle = 0 /\ opens = 0 /\ provider = FALSE
    /\ nextId = 1 /\ asked = {}
    /\ fetch = [s \in Slots |-> None]
    /\ in_flight = [i \in Ids |-> None]
    /\ live = TRUE /\ dead = FALSE
    /\ refs = 1
    /\ linked = TRUE
    /\ old \in {"keyfile", "none"}
    /\ took = {}

-------------------------------------------------------------------------------
(* the handle                                                                *)

\* lk_fetcher_cancel_all: every fetch of the table is cancelled, the table
\* emptied, and the fetches left to their completions.
CancelAll ==
    /\ fetch' = [s \in Slots |->
                    IF \E i \in Ids : in_flight[i] = s
                    THEN [fetch[s] EXCEPT !.cancelled = TRUE] ELSE fetch[s]]
    /\ in_flight' = [i \in Ids |-> None]

\* lk_chart_controller_close, from the widget's unrealize or from an open that
\* then fails: the provider goes first, and the fetches stay as they are.
Close ==
    /\ handle # 0
    /\ handle' = 0 /\ provider' = FALSE /\ asked' = {}
    /\ UNCHANGED <<opens, nextId, fetcher, linked, old, took>>

\* lk_links_migrate: the old list is handed over once and dropped.
Migrate == old' = IF old = "keyfile" THEN "core" ELSE old

NewHandle ==
    /\ linked
    /\ opens < MaxOpens
    /\ opens' = opens + 1
    /\ handle' = opens + 1
    /\ nextId' = 1 /\ asked' = {}
    /\ provider' = TRUE
    /\ live' = TRUE

\* An open that succeeds, over whatever was open: close, the new handle and
\* lk_chart_links_reapply are one turn of the main loop.
Open ==
    /\ NewHandle
    /\ CancelAll
    /\ Migrate
    /\ UNCHANGED <<dead, refs, linked, took>>

\* lk_chart_controller_http_respond for the request numbered id, from a fetch
\* that generation `from` asked for: no handle swallows it, and the core drops
\* a number it does not know.
Respond(id, from, done) ==
    IF handle # 0 /\ id \in asked
    THEN /\ took' = took \cup {<<handle, from>>}
         /\ asked' = IF done THEN asked \ {id} ELSE asked
    ELSE UNCHANGED <<took, asked>>

-------------------------------------------------------------------------------
(* the fetcher's entry points, called by the core                            *)

\* lk_fetcher_http_get for a url that goes to the network or to a file.
Ask(s, at) ==
    /\ handle # 0 /\ provider /\ live
    /\ nextId \in Ids
    /\ fetch[s] = None
    /\ fetch' = [fetch EXCEPT ![s] = [id |-> nextId, from |-> handle,
                                      cancelled |-> FALSE, at |-> at]]
    /\ in_flight' = [in_flight EXCEPT ![nextId] = s]
    /\ refs' = refs + 1
    /\ nextId' = nextId + 1
    /\ asked' = asked \cup {nextId}
    /\ UNCHANGED <<handle, opens, provider, live, dead, linked, old, took>>

\* http_get for a file the core may not read, or a url that is none: it is
\* answered before the call returns, and its entry is gone again.
AskRefused ==
    /\ handle # 0 /\ provider /\ live
    /\ nextId \in Ids
    /\ nextId' = nextId + 1
    /\ in_flight' = [in_flight EXCEPT ![nextId] = None]
    /\ took' = took \cup {<<handle, handle>>}
    /\ UNCHANGED <<handle, opens, provider, asked, fetch, live, dead, refs, linked, old>>

\* The core drops a request: lk_fetcher_http_cancel finds it by its number.
Cancel(id) ==
    /\ handle # 0 /\ provider
    /\ id \in asked
    /\ asked' = asked \ {id}
    /\ IF in_flight[id] = None THEN UNCHANGED fetch
       ELSE fetch' = [fetch EXCEPT ![in_flight[id]].cancelled = TRUE]
    /\ UNCHANGED <<handle, opens, provider, nextId, in_flight, live, dead, refs, linked, old, took>>

-------------------------------------------------------------------------------
(* completions, on later turns of the main loop                              *)

\* Forget by the number alone.
ForgetTheNumber(s) == in_flight' = [in_flight EXCEPT ![fetch[s].id] = None]

\* lk_fetcher_forget: this fetch's entry, and no other's of the same number.
Forget(s) ==
    in_flight' = IF in_flight[fetch[s].id] = s
                 THEN [in_flight EXCEPT ![fetch[s].id] = None] ELSE in_flight

\* lk_fetch_free
FreeFetch(s) ==
    /\ fetch' = [fetch EXCEPT ![s] = None]
    /\ refs' = refs - 1

\* The cancelled branch of lk_fetcher_send_done, piece_done and read_done.
CompletedCancelled(s) ==
    /\ fetch[s] # None /\ fetch[s].cancelled
    /\ IF dead THEN UNCHANGED in_flight ELSE Forget(s)
    /\ FreeFetch(s)
    /\ UNCHANGED <<chart, live, dead, linked, old, took>>

\* send_done with a response: the body is read piece by piece.
Sent(s) ==
    /\ fetch[s] # None /\ ~fetch[s].cancelled
    /\ fetch[s].at = "send"
    /\ fetch' = [fetch EXCEPT ![s].at = "body"]
    /\ UNCHANGED <<chart, in_flight, live, dead, refs, linked, old, took>>

\* piece_done with bytes: they are handed over and the next read begins.
Piece(s) ==
    /\ fetch[s] # None /\ ~fetch[s].cancelled
    /\ fetch[s].at = "body"
    /\ IF dead
       THEN FreeFetch(s) /\ UNCHANGED <<took, asked>>
       ELSE Respond(fetch[s].id, fetch[s].from, FALSE) /\ UNCHANGED <<fetch, refs>>
    /\ UNCHANGED <<handle, opens, provider, nextId, in_flight, live, dead, linked, old>>

\* Completed that hands over no answer when the transfer failed.
CompletedInSilence(s) ==
    /\ fetch[s] # None /\ ~fetch[s].cancelled
    /\ Forget(s)
    /\ FreeFetch(s)
    /\ UNCHANGED <<chart, live, dead, linked, old, took>>

\* The last of it: the end of the body, an error on the way (send_done,
\* piece_done), or the whole of a local file (read_done).
Completed(s) ==
    /\ fetch[s] # None /\ ~fetch[s].cancelled
    /\ IF dead THEN UNCHANGED <<in_flight, took, asked>>
       ELSE Forget(s) /\ Respond(fetch[s].id, fetch[s].from, TRUE)
    /\ FreeFetch(s)
    /\ UNCHANGED <<handle, opens, provider, nextId, live, dead, linked, old>>

-------------------------------------------------------------------------------

\* Shutdown that frees the fetcher whatever its fetches hold.
ShutdownFreesAll ==
    /\ linked
    /\ linked' = FALSE
    /\ dead' = TRUE /\ live' = FALSE
    /\ CancelAll
    /\ refs' = 0
    /\ provider' = FALSE
    /\ UNCHANGED <<handle, opens, nextId, asked, old, took>>

\* lk_chart_links_shutdown at quit: the fetcher is dead before the cancels, the
\* provider detached, the controller dropped.  A completion may still run.
Shutdown ==
    /\ linked
    /\ linked' = FALSE
    /\ dead' = TRUE /\ live' = FALSE
    /\ CancelAll
    /\ refs' = refs - 1
    /\ provider' = FALSE
    /\ UNCHANGED <<handle, opens, nextId, asked, old, took>>

\* A shell that has shut down, with every fetch drained, has stopped.
Rest ==
    /\ ~linked /\ handle = 0
    /\ \A s \in Slots : fetch[s] = None
    /\ UNCHANGED vars

Next ==
    \/ Open
    \/ Close
    \/ \E s \in Slots, at \in {"send", "file"} : Ask(s, at)
    \/ AskRefused
    \/ \E i \in Ids : Cancel(i)
    \/ \E s \in Slots :
          CompletedCancelled(s) \/ Sent(s) \/ Piece(s) \/ Completed(s)
    \/ Shutdown
    \/ Rest

Spec == Init /\ [][Next]_vars

\* libsoup gives a stalled request up after 8 s and a file read returns, so
\* every fetch completes in the end; behind the shutdown the model lets the
\* controller go, which closes the handle.  Opening and quitting are as may be.
Fairness ==
    /\ WF_vars(~linked /\ Close)
    /\ \A s \in Slots : WF_vars(CompletedCancelled(s)) /\ WF_vars(Completed(s))

FairSpec == Spec /\ Fairness

-------------------------------------------------------------------------------

TypeOK ==
    /\ opens \in 0 .. MaxOpens
    /\ handle \in {0, opens}
    /\ nextId \in 1 .. MaxIds + 1
    /\ asked \subseteq 1 .. nextId - 1
    /\ fetch \in [Slots -> Fetches \cup {None}]
    /\ in_flight \in [Ids -> Slots \cup {None}]
    /\ refs \in Nat
    /\ {provider, live, dead, linked} \subseteq BOOLEAN
    /\ old \in {"keyfile", "core", "none"}
    /\ took \subseteq (1 .. MaxOpens) \X (1 .. MaxOpens)

\* What a handle is given, it asked for: no answer of a fetch that an earlier
\* handle started reaches the request of the same number of the handle now open.
AnswerReachesItsAsker == \A t \in took : t[1] = t[2]

\* The table is the truth: an entry is a fetch that is there and bears its
\* number, and every fetch that may still answer is found by its number, so a
\* cancel or a reopen reaches it.
TableIsTrue ==
    /\ \A i \in Ids : in_flight[i] # None =>
          fetch[in_flight[i]] # None /\ fetch[in_flight[i]].id = i
    /\ \A s \in Slots : fetch[s] # None /\ ~fetch[s].cancelled =>
          ~dead /\ in_flight[fetch[s].id] = s

\* Every fetch holds the fetcher and only fetches and the owner do: it is freed
\* behind the last completion, neither before nor never.
HoldsAreCounted ==
    refs = Cardinality({s \in Slots : fetch[s] # None}) + (IF linked THEN 1 ELSE 0)

\* A request is decided: answered, dropped by the core, or gone with its handle.
AskIsDecided == \A i \in Ids : i \in asked ~> i \notin asked

\* The fetcher's books are true, its table of fetches and its count of holds, and
\* what they give a handle is what it asked for (library/fetch.c).
FetcherAddsUp == TableIsTrue /\ HoldsAreCounted /\ AnswerReachesItsAsker
===============================================================================
