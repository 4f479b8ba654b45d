----------------------------- MODULE MCShellFetch -----------------------------
(***************************************************************************)
(* How the two desktop shells answer the fetches a chart handle asks for:  *)
(* Linux on its main loop (LinkFetch, with two fetches: an old handle's    *)
(* and one of the new one), Windows on its workers, beside the render      *)
(* thread (WindowThreads, with two).  A behaviour is of one shell; the     *)
(* other one's part rests where it began.                                  *)
(***************************************************************************)
EXTENDS LinkFetch

CONSTANTS s1, s2, w1, w2,
          Workers,                  \* the threads of the Windows pool
          WinMaxOpens, WinMaxIds    \* bounds, as MaxOpens and MaxIds

TwoSlots == {s1, s2}
TwoWorkers == {w1, w2}

ASSUME ThreadBounds == {WinMaxOpens, WinMaxIds} \subseteq Nat /\ IsFiniteSet(Workers)

ASSUME NoneIsNobody ==
    None \notin Workers \cup {"ui", "render"} /\ {"ui", "render"} \cap Workers = {}

VARIABLES
    shell,   \* whose behaviour this is
    \* of the Windows shell, as WindowThreads names them
    w_handle, w_opens, w_api, w_provider, w_nextId, w_asked, inbox, dirty, quiet,
    layer, due, ui, render, run, wake, warm, link, link_live, running, queue,
    dropped, at, job, w_live, ended

W == INSTANCE WindowThreads WITH
        MaxOpens <- WinMaxOpens, MaxIds <- WinMaxIds,
        handle <- w_handle, opens <- w_opens, api <- w_api, provider <- w_provider,
        nextId <- w_nextId, asked <- w_asked, live <- w_live

ASSUME NoneIsNoJob == None \notin W!Jobs

windows ==
    <<w_handle, w_opens, w_api, w_provider, w_nextId, w_asked, inbox, dirty, quiet,
      layer, due, ui, render, run, wake, warm, link, link_live, running, queue,
      dropped, at, job, w_live, ended>>

BothInit ==
    /\ Init /\ W!Init
    /\ shell \in {"linux", "windows"} /\ (shell = "windows" => old = "none")

BothNext ==
    /\ \/ shell = "linux" /\ Next /\ UNCHANGED windows
       \/ shell = "windows" /\ W!Next /\ UNCHANGED vars
    /\ UNCHANGED shell

\* The fairness of a part at rest asks for nothing.
BothSpec ==
    /\ BothInit /\ [][BothNext]_<<vars, windows, shell>>
    /\ Fairness /\ W!Fairness

-------------------------------------------------------------------------------

\* On Windows: the threads' places, a handle that is safe from them, and a render
\* thread that does not sleep on what a link brought (WindowThreads, of the same names).
HandleIsSafe == W!TypeOK /\ W!HandleIsSafe /\ W!LinksAreNotSleptOn

\* On both: a request is decided, by an answer, a cancel or the end of its handle.
AskedForIsDecided ==
    LET out == asked \cup w_asked
    IN  \A i \in Ids \cup 1 .. WinMaxIds : i \in out ~> i \notin out

\* And on Windows the UI thread comes back from every call, an open, a resize, and the
\* close that joins the workers and the render thread (WindowThreads, UiReturns).
NobodyWaits == AskedForIsDecided /\ W!UiReturns

\* On Windows, and in the words of its own comments, which its code does not
\* keep (WindowThreads, of the same names).
ChangesAreNotSleptOn == W!ChangesAreNotSleptOn
StopEndsTransfers == W!StopEndsTransfers
NoPartOfABodyIsTaken == W!NoPartOfABodyIsTaken
===============================================================================
