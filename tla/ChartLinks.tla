------------------------------ MODULE ChartLinks ------------------------------
(***************************************************************************)
(* Charts by link (src/src/chartlinks.zig): the mariner's list of linked   *)
(* styles, the one that is picked, and the machine that reads a style over *)
(* the shell's fetcher and hands it to the renderer.  One style is read at *)
(* a time: a newer one takes its place, and its answers are dropped.       *)
(***************************************************************************)
EXTENDS Naturals, Sequences, SequencesExt

CONSTANTS
    Links,     \* bound: the links there are
    Text,      \* what is at a link: "style", "tiles" or "junk"
    Sibling,   \* the link of the style shipped beside the tiles, None where there is none
    Sources,   \* how many of its sources name their tiles by a link
    Packs,     \* how many sprite packs it names
    Local,     \* the links that are paths on this disk, whose text is kept
    MaxLinks,
    Catalog,   \* the charts the app ships
    MaxShows,  \* bound: openings of a page, and of the chart
    Own,       \* lookout's own chart
    None

Charts == Links \cup {Own}

\* One engine's links: the carried list, the pick, what the renderer was last told to
\* hold and what it draws; the style being read, what went wrong, and the flag the shell
\* takes; whether there is a fetcher, and the styles the renderer will not draw.  The kept
\* texts and the saved list are on disk.
NoHandle(refuses, saved, docs) ==
    [open |-> FALSE, get |-> FALSE, entries |-> <<>>, active |-> Own, applied |-> Own,
     drawn |-> Own, rs |-> None, err |-> FALSE, changed |-> FALSE, docs |-> docs,
     saved |-> saved, refuses |-> refuses]

NoLinks == [links |-> <<>>, active |-> Own]

\* The list is read before the shell can have asked for anything.
Opened(c) ==
    [NoHandle(c.refuses, c.saved, c.docs) EXCEPT
        !.open = TRUE, !.entries = c.saved.links, !.active = c.saved.active,
        !.changed = c.saved.links # <<>>]
Closed(c) == NoHandle(c.refuses, c.saved, c.docs)

Carried(c) == ToSet(c.entries)
Save(c) == [c EXCEPT !.saved = [links |-> c.entries, active |-> c.active]]
Fail(c) == [c EXCEPT !.err = TRUE, !.changed = TRUE]

-------------------------------------------------------------------------------
(* The style being read.                                                    *)

\* A newer read supersedes an older one.
Begin(c, op, u) ==
    [c EXCEPT !.err = FALSE, !.changed = TRUE,
              !.rs = [op |-> op, link |-> u, url |-> u, phase |-> "style", note |-> FALSE,
                      left |-> 0, packs |-> <<>>]]

\* Abort that says nothing went wrong.
AbortInSilence(c) == [c EXCEPT !.rs = None, !.drawn = Own]

\* The pick stands, and lookout's own chart is drawn behind it.
Abort(c) == Fail([c EXCEPT !.rs = None, !.drawn = Own])

\* The chart joins the list, or its entry takes the name of the style beside it, and the
\* text of a local one is kept.
Kept(c) ==
    LET r == c.rs
        carried == {r.url, r.link} \cap Carried(c) # {}
        old == IF r.url \in Carried(c) THEN r.url ELSE r.link
        kept == IF r.link \in Local THEN {r.url} ELSE {}
    IN IF carried
       THEN [c EXCEPT !.entries = [i \in DOMAIN @ |-> IF @[i] = old THEN r.url ELSE @[i]],
                      !.docs = (@ \ (IF old = r.url THEN {} ELSE {old})) \cup kept]
       ELSE IF Len(c.entries) >= MaxLinks THEN c
       ELSE [c EXCEPT !.entries = Append(@, r.url), !.docs = @ \cup kept]

\* The style is drawn, unless the pick has moved on.  One the renderer will not draw
\* takes the pick with it.
Apply(c) ==
    LET r == c.rs
        moved == r.op # "add" /\ c.active \notin {r.url, r.link}
    IN IF moved THEN [c EXCEPT !.rs = None]
       ELSE IF r.url \in c.refuses
       THEN Save(Fail([c EXCEPT !.rs = None, !.drawn = Own, !.active = Own, !.applied = Own]))
       ELSE Save([Kept(c) EXCEPT !.rs = None, !.drawn = r.url, !.applied = r.url,
                                 !.active = r.url, !.err = r.note, !.changed = TRUE])

\* The sprite packs, each a pair asked for in the fine density first.
Asked(fine) == [fine |-> fine, waiting |-> 2, whole |-> TRUE]
PhaseSprites(c) ==
    LET n == Packs[c.rs.url]
    IN IF n = 0 \/ ~c.get THEN Apply(c)
       ELSE [c EXCEPT !.rs.phase = "sprites", !.rs.packs = [i \in 1..n |-> Asked(TRUE)]]

\* The sources that name their tiles by a link.
PhaseTileJson(c) ==
    LET n == Sources[c.rs.url]
    IN IF n = 0 \/ ~c.get THEN PhaseSprites(c)
       ELSE [c EXCEPT !.rs.phase = "tilejson", !.rs.left = n]

\* The text came.  Tiles alone are looked at for a style shipped beside them.
OnStyleText(c, text) ==
    CASE text = "junk" -> Abort(c)
      [] text = "tiles" /\ c.get /\ Sibling[c.rs.link] # None ->
             [c EXCEPT !.rs.phase = "sibling"]
      [] OTHER -> PhaseTileJson(c)

OnStyle(c, ok) ==
    IF ok THEN OnStyleText(c, Text[c.rs.link])
    ELSE IF c.rs.op = "refresh" /\ c.rs.url \in Carried(c) \cap c.docs
    THEN OnStyleText([c EXCEPT !.rs.note = TRUE], "style")
    ELSE Abort(c)

\* A style beside the tiles is the chart; without one they are drawn in a plain scheme.
OnSibling(c, ok) ==
    LET s == Sibling[c.rs.link]
    IN PhaseTileJson(IF ok /\ Text[s] = "style" THEN [c EXCEPT !.rs.url = s] ELSE c)

\* An answer that fails takes nothing from the rest.
OnTileJson(c) ==
    LET d == [c EXCEPT !.rs.left = @ - 1]
    IN IF d.rs.left = 0 THEN PhaseSprites(d) ELSE d

\* A pair that is not whole is asked for once more, in the coarse density.
OnSprite(c, i, ok) ==
    LET p == c.rs.packs[i]
        q == [p EXCEPT !.waiting = @ - 1, !.whole = @ /\ ok]
        next == IF q.waiting = 0 /\ ~q.whole /\ q.fine THEN Asked(FALSE) ELSE q
        d == [c EXCEPT !.rs.packs[i] = next]
    IN IF \A j \in DOMAIN d.rs.packs : d.rs.packs[j].waiting = 0 THEN Apply(d) ELSE d

\* What one answer, good or not, makes of the links.
Answered(c, ok) ==
    CASE c.rs.phase = "style" -> {OnStyle(c, ok)}
      [] c.rs.phase = "sibling" -> {OnSibling(c, ok)}
      [] c.rs.phase = "tilejson" -> {OnTileJson(c)}
      [] OTHER -> {OnSprite(c, i, ok) :
                       i \in {j \in DOMAIN c.rs.packs : c.rs.packs[j].waiting > 0}}

Start(c, op, u) == IF c.get THEN Begin(c, op, u) ELSE Abort(Begin(c, op, u))

-------------------------------------------------------------------------------
(* What the shell asks.                                                     *)

ClearSelection(c) ==
    Save([c EXCEPT !.rs = None, !.active = Own, !.applied = Own, !.drawn = Own,
                   !.err = FALSE, !.changed = TRUE])

\* The chart that is applied is not read again; the pick is written down.
Select(c, u) ==
    IF u = Own THEN ClearSelection(c)
    ELSE IF u \notin Carried(c) THEN c
    ELSE LET d == [c EXCEPT !.active = u, !.changed = TRUE]
         IN IF c.applied = u THEN IF c.active = u THEN d ELSE Save(d)
            ELSE IF u \in c.docs THEN OnStyleText(Begin(Save(d), "select", u), "style")
            ELSE Start(Save(d), "select", u)

Add(c, u) ==
    IF u \in Carried(c) THEN Select(c, u)
    ELSE IF Len(c.entries) >= MaxLinks THEN Fail(c)
    ELSE Start(c, "add", u)

\* The pick moves to it, and is not written down until the read lands.
Refresh(c, u) ==
    IF u \notin Carried(c) THEN c
    ELSE Start([c EXCEPT !.active = u, !.changed = TRUE], "refresh", u)

RemoveLink(c, u) ==
    LET i == CHOOSE j \in DOMAIN c.entries : c.entries[j] = u
        d == [c EXCEPT !.entries = RemoveAt(@, i), !.docs = @ \ {u}]
    IN IF u \notin Carried(c) THEN c
       ELSE IF c.active = u THEN ClearSelection(d)
       ELSE [Save(d) EXCEPT !.changed = TRUE]

Reapply(c) == IF c.active = Own THEN c ELSE Select(c, c.active)

\* A fetcher draws the chart the mariner left selected; without one every read ends.
SetProvider(c, get) ==
    IF get THEN Reapply([c EXCEPT !.get = TRUE])
    ELSE [c EXCEPT !.get = FALSE, !.rs = None]

\* A shell's old list, taken once: the core has none of its own yet.
Import(c, list) ==
    IF c.entries # <<>> \/ list.links = <<>> THEN c
    ELSE LET d == [c EXCEPT !.entries = SubSeq(list.links, 1, IF Len(list.links) < MaxLinks
                                                               THEN Len(list.links) ELSE MaxLinks),
                            !.changed = TRUE]
         IN Reapply(Save([d EXCEPT !.active =
                              IF list.active \in Carried(d) THEN list.active ELSE @]))

-------------------------------------------------------------------------------
(* Properties.                                                              *)

\* The chart that was asked for is the one that is read.
TakenUp(c, u) == c.rs # None /\ c.rs.link = u

Read ==
    [op : {"add", "select", "refresh"}, link : Links, url : Links,
     phase : {"style", "sibling", "tilejson", "sprites"}, note : BOOLEAN,
     left : Nat, packs : Seq([fine : BOOLEAN, waiting : 0..2, whole : BOOLEAN])]

\* A list, and the chart of it that is picked.
Lists == [links : Seq(Links), active : Charts]
ListOK(l) ==
    /\ l \in Lists /\ IsInjective(l.links) /\ Len(l.links) <= MaxLinks
    /\ l.active \in ToSet(l.links) \cup {Own}

\* What is at a link; a style beside a path on this disk is a path on this disk.
LinksConstants ==
    /\ Text \in [Links -> {"style", "tiles", "junk"}]
    /\ Sibling \in [Links -> Links \cup {None}]
    /\ Sources \in [Links -> Nat] /\ Packs \in [Links -> Nat]
    /\ Local \subseteq Links /\ Catalog \subseteq Links /\ {MaxLinks, MaxShows} \subseteq Nat
    /\ \A u \in Local : Sibling[u] \in Local \cup {None}
    /\ Own \notin Links /\ None \notin Charts \cup Read

Handles ==
    [open : BOOLEAN, get : BOOLEAN, entries : Seq(Links), active : Charts, applied : Charts,
     drawn : Charts, rs : Read \cup {None}, err : BOOLEAN, changed : BOOLEAN,
     docs : SUBSET Local, saved : Lists, refuses : SUBSET Links]

LinksTypeOK(c) == c \in Handles /\ IsInjective(c.entries) /\ Len(c.entries) <= MaxLinks

\* The chart that is drawn is the one that is picked; or none is, and the core takes the
\* pick for drawn, as it was before the read that failed since.
Draws(c, u) == c.drawn = u \/ (c.drawn = Own /\ c.applied = u)

\* With nothing being read and nothing wrong, the chart that is picked is the one that is
\* drawn, or was applied; what is drawn is what is applied, and it, and the pick, are on
\* the list.
PickIsDrawn(c) ==
    /\ c.open /\ c.get /\ c.rs = None /\ ~c.err => Draws(c, c.active)
    /\ c.open /\ c.get /\ c.rs = None /\ c.drawn # Own => c.drawn = c.active
    /\ c.drawn # Own => c.drawn = c.applied
    /\ c.active \in Carried(c) \cup {Own}

\* What is saved is the list; the pick is saved as it stands, but for a chart that is
\* being read again.
ListIsSaved(c) ==
    c.open => /\ c.saved.links = c.entries
              /\ c.saved.active # c.active => c.rs # None \/ c.err

\* Nothing on disk is the text of a link that has gone.
NoTextLeft(c) == c.docs \subseteq ToSet(c.saved.links)
===============================================================================
