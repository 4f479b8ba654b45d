---------------------------- MODULE ShellPagesProof ----------------------------
(***************************************************************************)
(* Theorems about the Charts pages (MCChartsPages) and about setup with    *)
(* its NOAA picker (MCNoaaSetup), on either shell: what the runs check of  *)
(* them holds for every value of the constants.                            *)
(*                                                                         *)
(* Of the pages, the links come first, for both shelves stand on them:     *)
(* what every answer and every call of a shell's leaves of the list, of    *)
(* the pick and of what is drawn.  Of setup, the service comes first, for  *)
(* both shells stand on it: what every call of it leaves of the run and of *)
(* the prepare, and whether anything is left to adopt.                     *)
(***************************************************************************)
EXTENDS MCChartsPages, MCNoaaSetup, SequenceTheorems, TLAPS

-------------------------------------------------------------------------------
(* Charts by link.                                                          *)

\* The constants of the links are as the shelves assume them.
LEMMA LinksAre == LinksConstants
BY ShelvesConstants DEF LinuxShelfConstants

\* What a list of a shell's charts is made of.
LEMMA ListParts ==
    ASSUME NEW s \in Seq(Links)
    PROVE  /\ Len(s) \in Nat /\ DOMAIN s = 1..Len(s)
           /\ ToSet(s) \subseteq Links
           /\ \A i \in 1..Len(s) : s[i] \in ToSet(s)
<1>1. Len(s) \in Nat /\ DOMAIN s = 1..Len(s) /\ \A i \in 1..Len(s) : s[i] \in Links
    BY LenProperties, ElementOfSeq
<1> QED
    BY <1>1 DEF ToSet

\* No chart is on an empty list.
LEMMA EmptyList ==
    /\ <<>> \in Seq(Links) /\ ToSet(<<>>) = {} /\ IsInjective(<<>>) /\ Len(<<>>) = 0
    /\ \A s \in Seq(Links) : Len(s) = 0 \/ ToSet(s) = {} => s = <<>>
<1>1. <<>> \in Seq(Links) /\ Len(<<>>) = 0
    BY EmptySeq
<1>2. DOMAIN <<>> = 1..0
    BY <1>1, LenProperties
<1>3. ASSUME NEW s \in Seq(Links), Len(s) = 0 \/ ToSet(s) = {} PROVE s = <<>>
    <2>1. Len(s) = 0
        <3> SUFFICES ASSUME Len(s) # 0, ToSet(s) = {} PROVE FALSE
            BY <1>3
        <3>1. 1 \in 1..Len(s)
            BY ListParts
        <3> QED
            BY <3>1, ListParts
    <2> QED
        BY <2>1, EmptySeq
<1> QED
    BY <1>1, <1>2, <1>3 DEF ToSet, IsInjective

\* A chart that is added joins the list.
LEMMA AppendList ==
    ASSUME NEW s \in Seq(Links), IsInjective(s), NEW u \in Links, u \notin ToSet(s)
    PROVE  /\ Append(s, u) \in Seq(Links) /\ Len(Append(s, u)) = Len(s) + 1
           /\ IsInjective(Append(s, u)) /\ ToSet(Append(s, u)) = ToSet(s) \cup {u}
<1> DEFINE t == Append(s, u)
<1>1. /\ t \in Seq(Links) /\ Len(t) = Len(s) + 1 /\ t[Len(s) + 1] = u
      /\ \A i \in 1..Len(s) : t[i] = s[i]
    BY AppendProperties
<1>2. /\ Len(s) \in Nat /\ DOMAIN s = 1..Len(s) /\ DOMAIN t = 1..(Len(s) + 1)
    BY <1>1, ListParts
<1> HIDE DEF t
<1>3. ToSet(t) = ToSet(s) \cup {u}
    BY <1>1, <1>2 DEF ToSet
<1>4. IsInjective(t)
    <2> SUFFICES ASSUME NEW i \in 1..(Len(s) + 1), NEW j \in 1..(Len(s) + 1), t[i] = t[j]
                 PROVE  i = j
        BY <1>2 DEF IsInjective
    <2>1. CASE i \in 1..Len(s) /\ j \in 1..Len(s)
        BY <1>1, <1>2, <2>1 DEF IsInjective
    <2>2. CASE i = Len(s) + 1 /\ j \in 1..Len(s)
        BY <1>1, <1>2, <2>2 DEF ToSet
    <2>3. CASE j = Len(s) + 1 /\ i \in 1..Len(s)
        BY <1>1, <1>2, <2>3 DEF ToSet
    <2> QED
        BY <1>2, <2>1, <2>2, <2>3
<1> QED
    BY <1>1, <1>3, <1>4 DEF t

\* An entry that takes another name.
LEMMA RenameList ==
    ASSUME NEW s \in Seq(Links), IsInjective(s), NEW was \in ToSet(s), NEW u \in Links,
           u = was \/ u \notin ToSet(s),
           NEW t, t = [i \in DOMAIN s |-> IF s[i] = was THEN u ELSE s[i]]
    PROVE  /\ t \in Seq(Links) /\ Len(t) = Len(s) /\ IsInjective(t)
           /\ ToSet(t) = (ToSet(s) \ {was}) \cup {u}
<1>1. /\ Len(s) \in Nat /\ DOMAIN s = 1..Len(s) /\ \A i \in 1..Len(s) : s[i] \in Links
    BY ListParts DEF ToSet
<1>2. t \in [1..Len(s) -> Links]
    BY <1>1
<1>3. t \in Seq(Links) /\ DOMAIN t = 1..Len(s) /\ Len(t) = Len(s)
    <2>1. t \in Seq(Links)
        BY <1>1, <1>2
    <2> QED
        BY <1>1, <1>2, <2>1, LenProperties
<1>4. \A i \in 1..Len(s) : t[i] = IF s[i] = was THEN u ELSE s[i]
    BY <1>1
<1>5. IsInjective(t)
    BY <1>1, <1>3, <1>4 DEF IsInjective, ToSet
<1>6. ToSet(t) = (ToSet(s) \ {was}) \cup {u}
    <2>1. ASSUME NEW x \in ToSet(t) PROVE x \in (ToSet(s) \ {was}) \cup {u}
        BY <1>1, <1>3, <1>4, <2>1 DEF ToSet
    <2>2. u \in ToSet(t)
        BY <1>1, <1>3, <1>4 DEF ToSet
    <2>3. ASSUME NEW x \in ToSet(s) \ {was} PROVE x \in ToSet(t)
        BY <1>1, <1>3, <1>4, <2>3 DEF ToSet
    <2> QED
        BY <2>1, <2>2, <2>3
<1> QED
    BY <1>3, <1>5, <1>6

\* A chart that is removed leaves the others.
LEMMA RemoveList ==
    ASSUME NEW s \in Seq(Links), IsInjective(s), NEW k \in 1..Len(s)
    PROVE  /\ RemoveAt(s, k) \in Seq(Links) /\ Len(RemoveAt(s, k)) = Len(s) - 1
           /\ IsInjective(RemoveAt(s, k)) /\ ToSet(RemoveAt(s, k)) = ToSet(s) \ {s[k]}
<1> DEFINE n == Len(s)
           a == SubSeq(s, 1, k - 1)
           b == SubSeq(s, k + 1, n)
           t == RemoveAt(s, k)
<1>1. n \in Nat /\ DOMAIN s = 1..n /\ \A i \in 1..n : s[i] \in Links
    BY ListParts DEF ToSet
<1>2. /\ a \in Seq(Links) /\ Len(a) = k - 1 /\ \A i \in 1..(k - 1) : a[i] = s[i]
    <2>1. 1 \in Int /\ k - 1 \in Int /\ \A i \in 1..(k - 1) : s[i] \in Links
        BY <1>1
    <2>2. /\ a \in Seq(Links) /\ Len(a) = IF 1 <= k - 1 THEN (k - 1) - 1 + 1 ELSE 0
          /\ \A i \in 1..((k - 1) - 1 + 1) : a[i] = s[1 + i - 1]
        BY <2>1, SubSeqProperties, SMTT(30)
    <2> QED
        BY <1>1, <2>2
<1>3. /\ b \in Seq(Links) /\ Len(b) = n - k /\ \A i \in 1..(n - k) : b[i] = s[k + i]
    <2>1. k + 1 \in Int /\ n \in Int /\ \A i \in (k + 1)..n : s[i] \in Links
        BY <1>1
    <2>2. /\ b \in Seq(Links) /\ Len(b) = IF k + 1 <= n THEN n - (k + 1) + 1 ELSE 0
          /\ \A i \in 1..(n - (k + 1) + 1) : b[i] = s[(k + 1) + i - 1]
        BY <2>1, SubSeqProperties, SMTT(30)
    <2> HIDE DEF b, n
    <2>3. n \in Nat /\ k \in Nat /\ k <= n
        BY <1>1 DEF n
    <2>4. Len(b) = n - k
        <3>1. CASE k = n
            BY <2>2, <2>3, <3>1
        <3>2. CASE k < n
            BY <2>2, <2>3, <3>2
        <3> QED
            BY <2>3, <3>1, <3>2
    <2>5. ASSUME NEW i \in 1..(n - k) PROVE b[i] = s[k + i]
        <3>1. i \in 1..(n - (k + 1) + 1) /\ (k + 1) + i - 1 = k + i
            BY <2>3
        <3> QED
            BY <2>2, <3>1
    <2> QED
        BY <2>2, <2>4, <2>5
<1>4. t = a \o b
    BY DEF RemoveAt
<1> HIDE DEF n, a, b, t
<1>5. /\ t \in Seq(Links) /\ Len(t) = n - 1 /\ DOMAIN t = 1..(n - 1)
      /\ \A i \in 1..(n - 1) : t[i] = s[IF i < k THEN i ELSE i + 1]
    <2>1. /\ t \in Seq(Links) /\ Len(t) = Len(a) + Len(b)
          /\ \A i \in 1..(Len(a) + Len(b)) : t[i] = IF i <= Len(a) THEN a[i] ELSE b[i - Len(a)]
        BY <1>2, <1>3, <1>4, ConcatProperties
    <2>2. Len(t) = n - 1
        BY <1>1, <1>2, <1>3, <2>1 DEF n
    <2>3. ASSUME NEW i \in 1..(n - 1) PROVE t[i] = s[IF i < k THEN i ELSE i + 1]
        <3>1. CASE i < k
            <4>1. i \in 1..(k - 1) /\ i \in 1..(Len(a) + Len(b)) /\ i <= Len(a)
                BY <1>1, <1>2, <1>3, <3>1 DEF n
            <4> QED
                BY <1>2, <2>1, <3>1, <4>1
        <3>2. CASE ~(i < k)
            <4>1. i - (k - 1) \in 1..(n - k) /\ i \in 1..(Len(a) + Len(b)) /\ ~(i <= Len(a))
                BY <1>1, <1>2, <1>3, <3>2 DEF n
            <4>2. t[i] = b[i - (k - 1)]
                BY <1>2, <2>1, <4>1
            <4>3. b[i - (k - 1)] = s[k + (i - (k - 1))]
                BY <1>3, <4>1
            <4>4. k + (i - (k - 1)) = i + 1
                BY <1>1 DEF n
            <4> QED
                BY <3>2, <4>2, <4>3, <4>4
        <3> QED
            BY <3>1, <3>2
    <2> QED
        BY <2>1, <2>2, <2>3, LenProperties
<1>6. IsInjective(t)
    <2> SUFFICES ASSUME NEW i \in 1..(n - 1), NEW j \in 1..(n - 1), t[i] = t[j]
                 PROVE  i = j
        BY <1>5 DEF IsInjective
    <2> DEFINE at(x) == IF x < k THEN x ELSE x + 1
    <2>1. at(i) \in 1..n /\ at(j) \in 1..n /\ s[at(i)] = s[at(j)]
        BY <1>1, <1>5
    <2>2. at(i) = at(j)
        BY <1>1, <2>1 DEF IsInjective
    <2> QED
        BY <1>1, <2>2
<1>7. ToSet(t) = ToSet(s) \ {s[k]}
    <2>1. ASSUME NEW x \in ToSet(t) PROVE x \in ToSet(s) \ {s[k]}
        <3>1. PICK i \in 1..(n - 1) : x = t[i]
            BY <1>5, <2>1 DEF ToSet
        <3> DEFINE m == IF i < k THEN i ELSE i + 1
        <3>2. m \in 1..n /\ m # k /\ x = s[m]
            BY <1>1, <1>5, <3>1
        <3> QED
            BY <1>1, <3>2 DEF ToSet, IsInjective, n
    <2>2. ASSUME NEW x \in ToSet(s) \ {s[k]} PROVE x \in ToSet(t)
        <3>1. PICK m \in 1..n : x = s[m]
            BY <1>1, <2>2 DEF ToSet
        <3> DEFINE i == IF m < k THEN m ELSE m - 1
        <3>2. m # k
            BY <2>2, <3>1
        <3>3. i \in 1..(n - 1) /\ (IF i < k THEN i ELSE i + 1) = m
            BY <1>1, <3>1, <3>2 DEF n
        <3>4. t[i] = x
            BY <1>5, <3>1, <3>3
        <3> QED
            BY <1>5, <3>3, <3>4 DEF ToSet
    <2> QED
        BY <2>1, <2>2
<1> QED
    BY <1>5, <1>6, <1>7 DEF n, t

\* The first of a list.
LEMMA CutList ==
    ASSUME NEW s \in Seq(Links), IsInjective(s), NEW n \in Nat, n <= Len(s)
    PROVE  /\ SubSeq(s, 1, n) \in Seq(Links) /\ Len(SubSeq(s, 1, n)) = n
           /\ IsInjective(SubSeq(s, 1, n))
<1> DEFINE t == SubSeq(s, 1, n)
<1>1. Len(s) \in Nat /\ DOMAIN s = 1..Len(s) /\ \A i \in 1..Len(s) : s[i] \in Links
    BY ListParts DEF ToSet
<1>2. t \in Seq(Links) /\ Len(t) = n /\ \A i \in 1..n : t[i] = s[i]
    <2>1. 1 \in Int /\ n \in Int /\ \A i \in 1..n : s[i] \in Links
        BY <1>1
    <2>2. /\ t \in Seq(Links) /\ Len(t) = IF 1 <= n THEN n - 1 + 1 ELSE 0
          /\ \A i \in 1..(n - 1 + 1) : t[i] = s[1 + i - 1]
        BY <2>1, SubSeqProperties, SMTT(30)
    <2> QED
        BY <2>2
<1>3. DOMAIN t = 1..n
    BY <1>2, LenProperties
<1> HIDE DEF t
<1> QED
    <2>1. IsInjective(t)
        BY <1>1, <1>2, <1>3 DEF IsInjective
    <2> QED
        BY <1>2, <2>1 DEF t

\* The pick is what is drawn; or none is drawn, and something is wrong or the core takes the
\* pick for drawn.
Settled(c) == c.drawn = c.active \/ (c.drawn = Own /\ (c.err \/ c.applied = c.active))

\* What is true of the links whatever is read: the list on disk is the list, the pick is on
\* it, and what is drawn is what is applied.
CoreOK(c) ==
    /\ LinksTypeOK(c) /\ ListOK(c.saved) /\ NoTextLeft(c)
    /\ c.get = c.open
    /\ c.open => c.saved.links = c.entries
    /\ ~c.open => c = NoHandle(c.refuses, c.saved, c.docs)
    /\ c.active \in Carried(c) \cup {Own}
    /\ c.drawn # Own => c.drawn = c.applied
    /\ c.active = Own => c.drawn = Own

\* The style being read: it is the one at the link, or the one beside it.  A read that the
\* pick has moved on from leaves everything as it stands; one that adds has room.
ReadOK(c) ==
    /\ c.rs.url \in {c.rs.link, Sibling[c.rs.link]}
    /\ c.rs.op = "add" /\ {c.rs.url, c.rs.link} \cap Carried(c) = {} => Len(c.entries) < MaxLinks
    /\ c.rs.op # "add" /\ c.active \notin {c.rs.url, c.rs.link}
          => Settled(c) /\ c.saved.active = c.active

\* How far the read is.
PhaseOK(r) ==
    /\ r.phase \in {"style", "sibling"} => r.url = r.link
    /\ r.phase = "sibling" => Sibling[r.link] # None
    /\ r.phase = "tilejson" => r.left > 0

\* Nothing is read: the pick stands.
RestOK(c) == Settled(c) /\ (c.saved.active # c.active => c.err)

\* The invariant of the links.
LinksInv(c) ==
    /\ CoreOK(c)
    /\ c.open => IF c.rs = None THEN RestOK(c) ELSE ReadOK(c) /\ PhaseOK(c.rs)

\* It is what the shelves say of the links.
LEMMA LinksInvIsEnough ==
    ASSUME NEW c, LinksInv(c)
    PROVE  LinksTypeOK(c) /\ PickIsDrawn(c) /\ ListIsSaved(c) /\ NoTextLeft(c)
<1>1. c.drawn # Own => c.drawn = c.applied
    BY DEF LinksInv, CoreOK
<1>2. PickIsDrawn(c)
    BY <1>1 DEF LinksInv, CoreOK, RestOK, Settled, PickIsDrawn, Draws
<1>3. ListIsSaved(c)
    BY DEF LinksInv, CoreOK, RestOK, ListIsSaved
<1> QED
    BY <1>2, <1>3 DEF LinksInv, CoreOK

\* A read begins.
LEMMA BeginKeeps ==
    ASSUME NEW c, CoreOK(c), c.open, NEW op \in {"add", "select", "refresh"}, NEW u \in Links,
           op = "add" => Len(c.entries) < MaxLinks, op # "add" => c.active = u
    PROVE  /\ LinksInv(Begin(c, op, u)) /\ Begin(c, op, u).rs # None
           /\ Begin(c, op, u).rs.phase = "style" /\ Begin(c, op, u).rs.link = u
           /\ Begin(c, op, u).changed /\ Begin(c, op, u).open
<1> DEFINE r == [op |-> op, link |-> u, url |-> u, phase |-> "style", note |-> FALSE,
                 left |-> 0, packs |-> <<>>]
           d == Begin(c, op, u)
<1>1. r \in Read
    <2>1. <<>> \in Seq([fine : BOOLEAN, waiting : 0..2, whole : BOOLEAN])
        BY EmptySeq
    <2> QED
        BY <2>1 DEF Read
<1>2. r # None
    BY <1>1, LinksAre DEF LinksConstants
<1>3. c \in Handles
    BY DEF CoreOK, LinksTypeOK
<1> HIDE DEF r
<1>4. d = [c EXCEPT !.err = FALSE, !.changed = TRUE, !.rs = r]
    BY DEF Begin, r
<1>5. d \in Handles /\ d.rs = r
    <2>1. r \in Read \cup {None}
        BY <1>1
    <2>2. d.rs = r
        BY <1>3, <1>4 DEF Handles
    <2> HIDE DEF d
    <2>3. d \in Handles
        BY <1>3, <1>4, <2>1 DEF Handles
    <2> QED
        BY <2>2, <2>3
<1> HIDE DEF d
<1>6. /\ d.open /\ d.changed /\ d.get = c.get /\ d.entries = c.entries /\ d.active = c.active
      /\ d.applied = c.applied /\ d.drawn = c.drawn /\ d.docs = c.docs /\ d.saved = c.saved
    BY <1>3, <1>4 DEF Handles
<1>7. CoreOK(d)
    BY <1>5, <1>6 DEF CoreOK, LinksTypeOK, NoTextLeft, Carried
<1>8. ReadOK(d) /\ PhaseOK(d.rs)
    <2>1. r.op = op /\ r.link = u /\ r.url = u /\ r.phase = "style"
        BY DEF r
    <2> QED
        BY <1>5, <1>6, <2>1 DEF ReadOK, PhaseOK
<1> QED
    BY <1>2, <1>5, <1>6, <1>7, <1>8 DEF LinksInv, d, r

\* A read that fails.
LEMMA AbortKeeps ==
    ASSUME NEW c, CoreOK(c), c.open
    PROVE  LinksInv(Abort(c)) /\ Abort(c).changed /\ Abort(c).open /\ Abort(c).rs = None
<1> DEFINE d == Abort(c)
<1>1. c \in Handles
    BY DEF CoreOK, LinksTypeOK
<1>2. d = [c EXCEPT !.rs = None, !.drawn = Own, !.err = TRUE, !.changed = TRUE]
    BY <1>1 DEF Abort, Fail, Handles
<1> HIDE DEF d
<1>3. d \in Handles
    BY <1>1, <1>2 DEF Handles, Charts
<1>4. /\ d.open /\ d.changed /\ d.get = c.get /\ d.entries = c.entries /\ d.active = c.active
      /\ d.applied = c.applied /\ d.drawn = Own /\ d.docs = c.docs /\ d.saved = c.saved
      /\ d.err /\ d.rs = None
    BY <1>1, <1>2 DEF Handles
<1>5. CoreOK(d)
    BY <1>3, <1>4 DEF CoreOK, LinksTypeOK, NoTextLeft, Carried
<1> QED
    BY <1>4, <1>5 DEF LinksInv, RestOK, Settled, d

\* What is saved is the list and the pick.
LEMMA SaveKeeps ==
    ASSUME NEW c, c \in Handles, c.open, c.get, IsInjective(c.entries),
           Len(c.entries) <= MaxLinks, c.docs \subseteq Carried(c),
           c.active \in Carried(c) \cup {Own}, c.drawn # Own => c.drawn = c.applied,
           c.active = Own => c.drawn = Own
    PROVE  /\ CoreOK(Save(c)) /\ Save(c).saved.active = c.active
           /\ Save(c) = [c EXCEPT !.saved = [links |-> c.entries, active |-> c.active]]
<1> DEFINE l == [links |-> c.entries, active |-> c.active]
           d == Save(c)
<1>1. l \in Lists /\ ListOK(l)
    BY DEF Handles, Lists, ListOK, Carried
<1>2. d = [c EXCEPT !.saved = l]
    BY DEF Save
<1> HIDE DEF l
<1>3. d \in Handles /\ d.saved = l
    BY <1>1, <1>2 DEF Handles
<1>4. /\ d.open /\ d.get /\ d.entries = c.entries /\ d.active = c.active
      /\ d.applied = c.applied /\ d.drawn = c.drawn /\ d.docs = c.docs
    BY <1>2 DEF Handles
<1> HIDE DEF d
<1>5. l.links = c.entries /\ l.active = c.active
    BY DEF l
<1>6. CoreOK(d)
    BY <1>1, <1>3, <1>4, <1>5 DEF CoreOK, LinksTypeOK, NoTextLeft, Carried
<1> QED
    BY <1>3, <1>5, <1>6 DEF d, Save, l

\* The entry of the style that is drawn.
LEMMA KeptKeeps ==
    ASSUME NEW c, CoreOK(c), c.open, c.rs # None, ReadOK(c),
           c.rs.op # "add" => c.active \in {c.rs.url, c.rs.link}
    PROVE  \E e \in Seq(Links), t \in SUBSET Local :
             /\ Kept(c) = [c EXCEPT !.entries = e, !.docs = t]
             /\ IsInjective(e) /\ Len(e) <= MaxLinks /\ c.rs.url \in ToSet(e)
             /\ t \subseteq ToSet(e)
<1> DEFINE r == c.rs
           s == c.entries
           kept == IF r.link \in Local THEN {r.url} ELSE {}
<1>1. c \in Handles /\ IsInjective(s) /\ Len(s) <= MaxLinks /\ c.docs \subseteq ToSet(s)
    BY DEF CoreOK, LinksTypeOK, NoTextLeft
<1>2. r \in Read /\ s \in Seq(Links) /\ c.docs \subseteq Local
    BY <1>1 DEF Handles
<1>3. r.url \in Links /\ r.link \in Links
    BY <1>2 DEF Read
<1>4. kept \subseteq Local
    BY <1>3, LinksAre DEF ReadOK, LinksConstants, Charts
<1>5. CASE {r.url, r.link} \cap Carried(c) # {}
    <2> DEFINE was == IF r.url \in Carried(c) THEN r.url ELSE r.link
               e == [i \in DOMAIN s |-> IF s[i] = was THEN r.url ELSE s[i]]
               t == (c.docs \ (IF was = r.url THEN {} ELSE {was})) \cup kept
    <2>1. was \in ToSet(s) /\ (r.url = was \/ r.url \notin ToSet(s))
        BY <1>5 DEF Carried
    <2>2. Kept(c) = [c EXCEPT !.entries = e, !.docs = t]
        BY <1>5, <1>1 DEF Kept, Handles
    <2> HIDE DEF was
    <2>3. e \in Seq(Links) /\ Len(e) = Len(s) /\ IsInjective(e)
          /\ ToSet(e) = (ToSet(s) \ {was}) \cup {r.url}
        BY <1>1, <1>2, <1>3, <2>1, RenameList
    <2> HIDE DEF e, kept
    <2>4. t \in SUBSET Local /\ t \subseteq ToSet(e)
        BY <1>1, <1>2, <1>4, <2>3 DEF kept
    <2> HIDE DEF t
    <2>5. Len(e) <= MaxLinks /\ r.url \in ToSet(e)
        BY <1>1, <2>3
    <2> QED
        BY <2>2, <2>3, <2>4, <2>5
<1>6. CASE {r.url, r.link} \cap Carried(c) = {}
    <2> DEFINE e == Append(s, r.url)
               t == c.docs \cup kept
    <2>1. r.op = "add"
        <3> SUFFICES ASSUME r.op # "add" PROVE FALSE
            OBVIOUS
        <3>1. c.active \in {r.url, r.link} /\ c.active \in Carried(c) \cup {Own}
            BY DEF CoreOK
        <3> QED
            BY <1>3, <1>6, <3>1, LinksAre DEF LinksConstants
    <2>2. Len(s) < MaxLinks
        BY <1>6, <2>1 DEF ReadOK
    <2>3. Len(s) \in Nat /\ MaxLinks \in Nat
        BY <1>2, ListParts, LinksAre DEF LinksConstants
    <2>4. Kept(c) = [c EXCEPT !.entries = e, !.docs = t]
        BY <1>1, <1>6, <2>2, <2>3 DEF Kept, Handles
    <2>5. e \in Seq(Links) /\ Len(e) = Len(s) + 1 /\ IsInjective(e)
          /\ ToSet(e) = ToSet(s) \cup {r.url}
        BY <1>1, <1>2, <1>3, <1>6, AppendList DEF Carried
    <2> HIDE DEF e
    <2>6. t \in SUBSET Local /\ t \subseteq ToSet(e)
        BY <1>1, <1>2, <1>4, <2>5
    <2> HIDE DEF t
    <2>7. Len(e) <= MaxLinks /\ r.url \in ToSet(e)
        BY <2>2, <2>3, <2>5
    <2> QED
        BY <2>4, <2>5, <2>6, <2>7
<1> QED
    BY <1>5, <1>6

\* A step of the links that is not reported leaves the list, the pick and what is drawn.
Onward(c, d) ==
    /\ d.open /\ (c.changed => d.changed)
    /\ d.changed \/ /\ d.entries = c.entries /\ d.active = c.active /\ d.drawn = c.drawn
                    /\ d.err = c.err /\ (d.rs # None => c.rs # None)

\* Nor does an answer empty the list.
Reads(c, d) == Onward(c, d) /\ (c.entries # <<>> => d.entries # <<>>)

\* One step after another.
LEMMA ReadsTwice ==
    ASSUME NEW c, NEW d, NEW e, Reads(c, d), Reads(d, e)
    PROVE  Reads(c, e)
BY DEF Reads, Onward

\* A style is being read, and the links are as they should be.
InRead(c) == CoreOK(c) /\ ReadOK(c) /\ c.open /\ c.rs # None

\* What is known while a style is read.
LEMMA InReadParts ==
    ASSUME NEW c, InRead(c)
    PROVE  /\ c \in Handles /\ CoreOK(c) /\ ReadOK(c) /\ c.get /\ c.rs \in Read
           /\ c.rs.url \in Links /\ c.rs.link \in Links
<1>1. c \in Handles /\ CoreOK(c) /\ ReadOK(c) /\ c.get
    BY DEF InRead, CoreOK, LinksTypeOK
<1>2. c.rs \in Read
    BY <1>1 DEF InRead, Handles
<1> QED
    BY <1>1, <1>2 DEF Read

\* The style is drawn, unless the pick has moved on or the renderer will not.
LEMMA ApplyKeeps ==
    ASSUME NEW c, InRead(c)
    PROVE  LinksInv(Apply(c)) /\ Reads(c, Apply(c))
<1> DEFINE r == c.rs
           d == Apply(c)
<1>1. /\ c \in Handles /\ CoreOK(c) /\ ReadOK(c) /\ c.get /\ c.open /\ r \in Read
      /\ r.url \in Links /\ r.link \in Links /\ r # None
    BY InReadParts DEF InRead
<1>2. CASE r.op # "add" /\ c.active \notin {r.url, r.link}
    <2>1. d = [c EXCEPT !.rs = None]
        BY <1>2 DEF Apply
    <2> HIDE DEF d
    <2>2. d \in Handles
        BY <1>1, <2>1 DEF Handles
    <2>3. /\ d.open /\ d.get = c.get /\ d.entries = c.entries /\ d.active = c.active
          /\ d.applied = c.applied /\ d.drawn = c.drawn /\ d.docs = c.docs /\ d.saved = c.saved
          /\ d.err = c.err /\ d.rs = None /\ d.changed = c.changed
        BY <1>1, <2>1 DEF Handles
    <2>4. CoreOK(d)
        BY <1>1, <2>2, <2>3 DEF CoreOK, LinksTypeOK, NoTextLeft, Carried
    <2>5. RestOK(d)
        BY <1>1, <1>2, <2>3 DEF ReadOK, RestOK, Settled
    <2> QED
        BY <2>3, <2>4, <2>5 DEF LinksInv, Reads, Onward, d
<1>3. CASE ~(r.op # "add" /\ c.active \notin {r.url, r.link}) /\ r.url \in c.refuses
    <2> DEFINE e == [c EXCEPT !.rs = None, !.drawn = Own, !.active = Own, !.applied = Own,
                              !.err = TRUE, !.changed = TRUE]
    <2>1. d = Save(e)
        BY <1>1, <1>3 DEF Apply, Fail, Handles
    <2>2. e \in Handles
        BY <1>1 DEF Handles, Charts
    <2> HIDE DEF e
    <2>3. /\ e.open /\ e.get /\ e.entries = c.entries /\ e.active = Own /\ e.rs = None
          /\ e.applied = Own /\ e.drawn = Own /\ e.docs = c.docs /\ e.changed /\ e.err
        BY <1>1 DEF Handles, e
    <2>4. CoreOK(d) /\ d.saved.active = Own /\ d = [e EXCEPT !.saved = [links |-> e.entries, active |-> e.active]]
        <3>1. IsInjective(e.entries) /\ Len(e.entries) <= MaxLinks /\ e.docs \subseteq Carried(e)
            BY <1>1, <2>3 DEF CoreOK, LinksTypeOK, NoTextLeft, Carried
        <3> QED
            BY <2>1, <2>2, <2>3, <3>1, SaveKeeps
    <2> HIDE DEF d
    <2>5. /\ d.open /\ d.changed /\ d.rs = None /\ d.active = Own /\ d.drawn = Own
          /\ d.entries = c.entries
        BY <2>2, <2>3, <2>4 DEF Handles
    <2> QED
        BY <2>4, <2>5 DEF LinksInv, RestOK, Settled, Reads, Onward, d
<1>4. CASE ~(r.op # "add" /\ c.active \notin {r.url, r.link}) /\ r.url \notin c.refuses
    <2>1. PICK s \in Seq(Links), t \in SUBSET Local :
             /\ Kept(c) = [c EXCEPT !.entries = s, !.docs = t]
             /\ IsInjective(s) /\ Len(s) <= MaxLinks /\ r.url \in ToSet(s)
             /\ t \subseteq ToSet(s)
        BY <1>1, <1>4, KeptKeeps
    <2> DEFINE e == [c EXCEPT !.entries = s, !.docs = t, !.rs = None, !.drawn = r.url,
                              !.applied = r.url, !.active = r.url, !.err = r.note,
                              !.changed = TRUE]
    <2>2. d = Save(e)
        <3>1. d = Save([Kept(c) EXCEPT !.rs = None, !.drawn = r.url, !.applied = r.url,
                                       !.active = r.url, !.err = r.note, !.changed = TRUE])
            BY <1>4 DEF Apply
        <3>2. [Kept(c) EXCEPT !.rs = None, !.drawn = r.url, !.applied = r.url,
                              !.active = r.url, !.err = r.note, !.changed = TRUE] = e
            BY <1>1, <2>1 DEF Handles
        <3> QED
            BY <3>1, <3>2
    <2>3. e \in Handles
        <3>1. r.note \in BOOLEAN /\ r.url \in Charts
            BY <1>1 DEF Read, Charts
        <3> QED
            BY <1>1, <3>1 DEF Handles
    <2>4. /\ e.open /\ e.get /\ e.entries = s /\ e.active = r.url /\ e.rs = None
          /\ e.applied = r.url /\ e.drawn = r.url /\ e.docs = t /\ e.changed
        BY <1>1 DEF Handles
    <2> HIDE DEF e
    <2>5. /\ CoreOK(d) /\ d.saved.active = r.url
          /\ d = [e EXCEPT !.saved = [links |-> e.entries, active |-> e.active]]
        BY <2>1, <2>2, <2>3, <2>4, SaveKeeps DEF Carried
    <2> HIDE DEF d
    <2>6. /\ d.open /\ d.changed /\ d.rs = None /\ d.active = r.url /\ d.drawn = r.url
          /\ d.entries = s
        BY <2>3, <2>4, <2>5 DEF Handles
    <2>7. s # <<>>
        BY <2>1, EmptyList
    <2> QED
        BY <2>5, <2>6, <2>7 DEF LinksInv, RestOK, Settled, Reads, Onward, d
<1> QED
    BY <1>2, <1>3, <1>4

\* A read that goes on: only the read itself is another.
LEMMA ReadGoesOn ==
    ASSUME NEW c, InRead(c), NEW r \in Read, NEW d, d = [c EXCEPT !.rs = r],
           r.op = c.rs.op, r.link = c.rs.link,
           r.url = c.rs.url \/ (c.rs.url = c.rs.link /\ Sibling[r.link] # None
                                /\ r.url = Sibling[r.link])
    PROVE  /\ InRead(d) /\ Reads(c, d) /\ d.rs = r
           /\ PhaseOK(r) => LinksInv(d)
<1>1. /\ c \in Handles /\ CoreOK(c) /\ ReadOK(c) /\ c.get /\ c.open /\ c.rs \in Read
      /\ c.rs.url \in Links /\ c.rs.link \in Links
    BY InReadParts DEF InRead
<1>2. r # None
    BY LinksAre DEF LinksConstants
<1>3. d \in Handles /\ d.rs = r
    BY <1>1 DEF Handles
<1>4. /\ d.open /\ d.get = c.get /\ d.entries = c.entries /\ d.active = c.active
      /\ d.applied = c.applied /\ d.drawn = c.drawn /\ d.docs = c.docs /\ d.saved = c.saved
      /\ d.err = c.err /\ d.changed = c.changed
    BY <1>1 DEF Handles
<1>5. CoreOK(d)
    BY <1>1, <1>3, <1>4 DEF CoreOK, LinksTypeOK, NoTextLeft, Carried
<1>6. ReadOK(d)
    <2>1. r.url \in {r.link, Sibling[r.link]}
        BY <1>1 DEF ReadOK
    <2>2. {c.rs.url, c.rs.link} \subseteq {r.url, r.link}
        OBVIOUS
    <2>3. r.op # "add" /\ c.active \notin {r.url, r.link} => Settled(c) /\ c.saved.active = c.active
        BY <1>1, <2>2 DEF ReadOK
    <2>4. Settled(d) <=> Settled(c)
        BY <1>4 DEF Settled
    <2>5. r.op = "add" /\ {r.url, r.link} \cap Carried(c) = {} => Len(c.entries) < MaxLinks
        BY <1>1, <2>2 DEF ReadOK
    <2> QED
        BY <1>3, <1>4, <2>1, <2>3, <2>4, <2>5 DEF ReadOK, Carried
<1> QED
    BY <1>2, <1>3, <1>4, <1>5, <1>6 DEF InRead, LinksInv, Reads, Onward

Pairs == [fine : BOOLEAN, waiting : 0..2, whole : BOOLEAN]

\* The sprite packs are asked for, or the style is drawn.
LEMMA PhaseSpritesKeeps ==
    ASSUME NEW c, InRead(c)
    PROVE  LinksInv(PhaseSprites(c)) /\ Reads(c, PhaseSprites(c))
<1> DEFINE n == Packs[c.rs.url]
           p == [i \in 1..n |-> Asked(TRUE)]
           r == [c.rs EXCEPT !.phase = "sprites", !.packs = p]
<1>1. /\ c \in Handles /\ ReadOK(c) /\ c.rs \in Read /\ c.get
      /\ c.rs.url \in Links /\ c.rs.link \in Links
    BY InReadParts
<1>2. CASE n = 0
    BY <1>2, ApplyKeeps DEF PhaseSprites
<1>3. CASE n # 0
    <2>1. PhaseSprites(c) = [c EXCEPT !.rs = r]
        BY <1>1, <1>3 DEF PhaseSprites, Handles, Read
    <2>2. p \in Seq(Pairs)
        <3>1. n \in Nat
            BY <1>1, LinksAre DEF LinksConstants
        <3>2. Asked(TRUE) \in Pairs
            BY DEF Asked, Pairs
        <3>3. p \in [1..n -> Pairs]
            BY <3>2
        <3> HIDE DEF n, p
        <3> QED
            BY <3>1, <3>3
    <2>3. r \in Read
        BY <1>1, <2>2 DEF Read, Pairs
    <2>4. r.op = c.rs.op /\ r.link = c.rs.link /\ r.url = c.rs.url /\ r.phase = "sprites"
        BY <1>1 DEF Read
    <2> HIDE DEF r
    <2> QED
        BY <2>1, <2>3, <2>4, ReadGoesOn DEF PhaseOK
<1> QED
    BY <1>2, <1>3

\* The tiles of the sources are asked for, or the sprite packs.
LEMMA PhaseTileJsonKeeps ==
    ASSUME NEW c, InRead(c)
    PROVE  LinksInv(PhaseTileJson(c)) /\ Reads(c, PhaseTileJson(c))
<1> DEFINE n == Sources[c.rs.url]
           r == [c.rs EXCEPT !.phase = "tilejson", !.left = n]
<1>1. /\ c \in Handles /\ ReadOK(c) /\ c.rs \in Read /\ c.get
      /\ c.rs.url \in Links /\ c.rs.link \in Links
    BY InReadParts
<1>2. CASE n = 0
    BY <1>2, PhaseSpritesKeeps DEF PhaseTileJson
<1>3. CASE n # 0
    <2>1. PhaseTileJson(c) = [c EXCEPT !.rs = r]
        BY <1>1, <1>3 DEF PhaseTileJson, Handles, Read
    <2>2. n \in Nat
        BY <1>1, LinksAre DEF LinksConstants
    <2>3. r \in Read
        BY <1>1, <2>2 DEF Read
    <2>4. /\ r.op = c.rs.op /\ r.link = c.rs.link /\ r.url = c.rs.url /\ r.phase = "tilejson"
          /\ r.left = n
        BY <1>1 DEF Read
    <2> HIDE DEF r
    <2> QED
        BY <1>3, <2>1, <2>2, <2>3, <2>4, ReadGoesOn DEF PhaseOK
<1> QED
    BY <1>2, <1>3

\* A read that fails says so.
LEMMA AbortGoesOn ==
    ASSUME NEW c, InRead(c)
    PROVE  LinksInv(Abort(c)) /\ Reads(c, Abort(c))
<1>1. CoreOK(c) /\ c.open
    BY InReadParts DEF InRead
<1> QED
    BY <1>1, AbortKeeps DEF Reads, Onward, Abort, Fail, CoreOK, LinksTypeOK, Handles

\* The text of the style came.
LEMMA OnStyleTextKeeps ==
    ASSUME NEW c, InRead(c), PhaseOK(c.rs), c.rs.phase = "style", NEW text
    PROVE  LinksInv(OnStyleText(c, text)) /\ Reads(c, OnStyleText(c, text))
<1>1. /\ c \in Handles /\ ReadOK(c) /\ c.rs \in Read /\ c.get
      /\ c.rs.url \in Links /\ c.rs.link \in Links
    BY InReadParts
<1>2. CASE text = "junk"
    BY <1>2, AbortGoesOn DEF OnStyleText
<1>3. CASE text = "tiles" /\ Sibling[c.rs.link] # None
    <2> DEFINE r == [c.rs EXCEPT !.phase = "sibling"]
    <2>1. OnStyleText(c, text) = [c EXCEPT !.rs = r]
        BY <1>1, <1>3 DEF OnStyleText, Handles, Read
    <2>2. r \in Read /\ r.op = c.rs.op /\ r.link = c.rs.link /\ r.url = c.rs.url /\ r.phase = "sibling"
        BY <1>1 DEF Read
    <2>3. c.rs.url = c.rs.link
        BY DEF PhaseOK
    <2> HIDE DEF r
    <2> QED
        BY <1>3, <2>1, <2>2, <2>3, ReadGoesOn DEF PhaseOK
<1>4. CASE text # "junk" /\ ~(text = "tiles" /\ Sibling[c.rs.link] # None)
    <2>1. OnStyleText(c, text) = PhaseTileJson(c)
        BY <1>1, <1>4 DEF OnStyleText
    <2> QED
        BY <2>1, PhaseTileJsonKeeps
<1> QED
    BY <1>2, <1>3, <1>4

\* The link itself answered.
LEMMA OnStyleKeeps ==
    ASSUME NEW c, InRead(c), PhaseOK(c.rs), c.rs.phase = "style", NEW ok \in BOOLEAN
    PROVE  LinksInv(OnStyle(c, ok)) /\ Reads(c, OnStyle(c, ok))
<1>1. /\ c \in Handles /\ ReadOK(c) /\ c.rs \in Read /\ c.get
      /\ c.rs.url \in Links /\ c.rs.link \in Links
    BY InReadParts
<1>2. CASE ok
    BY <1>2, OnStyleTextKeeps DEF OnStyle
<1>3. CASE ~ok /\ c.rs.op = "refresh" /\ c.rs.url \in Carried(c) \cap c.docs
    <2> DEFINE r == [c.rs EXCEPT !.note = TRUE]
               d == [c EXCEPT !.rs = r]
    <2>1. OnStyle(c, ok) = OnStyleText(d, "style")
        BY <1>1, <1>3 DEF OnStyle, Handles, Read
    <2>2. r \in Read /\ r.op = c.rs.op /\ r.link = c.rs.link /\ r.url = c.rs.url /\ r.phase = "style"
        BY <1>1 DEF Read
    <2>3. c.rs.url = c.rs.link
        BY DEF PhaseOK
    <2> HIDE DEF r
    <2>4. InRead(d) /\ Reads(c, d) /\ d.rs = r
        BY <2>2, <2>3, ReadGoesOn
    <2> HIDE DEF d
    <2>5. LinksInv(OnStyleText(d, "style")) /\ Reads(d, OnStyleText(d, "style"))
        BY <2>2, <2>3, <2>4, OnStyleTextKeeps DEF PhaseOK
    <2> QED
        BY <2>1, <2>4, <2>5, ReadsTwice
<1>4. CASE ~ok /\ ~(c.rs.op = "refresh" /\ c.rs.url \in Carried(c) \cap c.docs)
    BY <1>4, AbortGoesOn DEF OnStyle
<1> QED
    BY <1>2, <1>3, <1>4

\* The place beside the tiles answered.
LEMMA OnSiblingKeeps ==
    ASSUME NEW c, InRead(c), PhaseOK(c.rs), c.rs.phase = "sibling", NEW ok \in BOOLEAN
    PROVE  LinksInv(OnSibling(c, ok)) /\ Reads(c, OnSibling(c, ok))
<1> DEFINE s == Sibling[c.rs.link]
           r == [c.rs EXCEPT !.url = s]
           d == [c EXCEPT !.rs = r]
<1>1. /\ c \in Handles /\ ReadOK(c) /\ c.rs \in Read /\ c.get
      /\ c.rs.url \in Links /\ c.rs.link \in Links /\ s \in Links
      /\ c.rs.url = c.rs.link /\ s # None
    BY InReadParts, LinksAre DEF PhaseOK, LinksConstants
<1>2. CASE ~(ok /\ Text[s] = "style")
    BY <1>2, PhaseTileJsonKeeps DEF OnSibling
<1>3. CASE ok /\ Text[s] = "style"
    <2>1. OnSibling(c, ok) = PhaseTileJson(d)
        BY <1>1, <1>3 DEF OnSibling, Handles, Read
    <2>2. r \in Read /\ r.op = c.rs.op /\ r.link = c.rs.link /\ r.url = s
        BY <1>1 DEF Read
    <2> HIDE DEF r
    <2>3. InRead(d) /\ Reads(c, d)
        BY <1>1, <2>2, ReadGoesOn
    <2> HIDE DEF d
    <2>4. LinksInv(PhaseTileJson(d)) /\ Reads(d, PhaseTileJson(d))
        BY <2>3, PhaseTileJsonKeeps
    <2> QED
        BY <2>1, <2>3, <2>4, ReadsTwice
<1> QED
    BY <1>2, <1>3

\* One of the sources answered.
LEMMA OnTileJsonKeeps ==
    ASSUME NEW c, InRead(c), PhaseOK(c.rs), c.rs.phase = "tilejson"
    PROVE  LinksInv(OnTileJson(c)) /\ Reads(c, OnTileJson(c))
<1> DEFINE r == [c.rs EXCEPT !.left = @ - 1]
           d == [c EXCEPT !.rs = r]
<1>1. /\ c \in Handles /\ c.rs \in Read
    BY InReadParts
<1>2. OnTileJson(c) = IF d.rs.left = 0 THEN PhaseSprites(d) ELSE d
    <2>1. [c EXCEPT !.rs.left = @ - 1] = d
        BY <1>1 DEF Handles, Read
    <2> QED
        BY <2>1 DEF OnTileJson
<1>3. /\ r \in Read /\ r.op = c.rs.op /\ r.link = c.rs.link /\ r.url = c.rs.url
      /\ r.phase = "tilejson" /\ r.left = c.rs.left - 1
    BY <1>1 DEF Read, PhaseOK
<1> HIDE DEF r
<1>4. InRead(d) /\ Reads(c, d) /\ d.rs = r /\ (PhaseOK(r) => LinksInv(d))
    BY <1>3, ReadGoesOn
<1> HIDE DEF d
<1>5. CASE r.left = 0
    <2>1. LinksInv(PhaseSprites(d)) /\ Reads(d, PhaseSprites(d))
        BY <1>4, PhaseSpritesKeeps
    <2> QED
        BY <1>2, <1>4, <1>5, <2>1, ReadsTwice
<1>6. CASE r.left # 0
    <2>1. r.left \in Nat
        BY <1>3 DEF Read
    <2>2. r.left > 0
        BY <1>6, <2>1
    <2>3. PhaseOK(r)
        BY <1>3, <2>2 DEF PhaseOK
    <2> QED
        BY <1>2, <1>4, <1>6, <2>3
<1> QED
    BY <1>5, <1>6

\* Half of a sprite pack answered.
LEMMA OnSpriteKeeps ==
    ASSUME NEW c, InRead(c), c.rs.phase = "sprites", NEW i \in DOMAIN c.rs.packs,
           c.rs.packs[i].waiting > 0, NEW ok \in BOOLEAN
    PROVE  LinksInv(OnSprite(c, i, ok)) /\ Reads(c, OnSprite(c, i, ok))
<1> DEFINE p == c.rs.packs[i]
           q == [p EXCEPT !.waiting = @ - 1, !.whole = @ /\ ok]
           n == IF q.waiting = 0 /\ ~q.whole /\ q.fine THEN Asked(FALSE) ELSE q
           t == [c.rs.packs EXCEPT ![i] = n]
           r == [c.rs EXCEPT !.packs = t]
           d == [c EXCEPT !.rs = r]
<1>1. /\ c \in Handles /\ c.rs \in Read /\ c.rs.packs \in Seq(Pairs)
    BY InReadParts DEF Read, Pairs
<1>2. i \in 1..Len(c.rs.packs) /\ p \in Pairs
    BY <1>1, LenProperties, ElementOfSeq
<1>3. q \in Pairs
    <2>1. p.waiting - 1 \in 0..2 /\ (p.whole /\ ok) \in BOOLEAN
        BY <1>2 DEF Pairs
    <2> QED
        BY <1>2, <2>1 DEF Pairs
<1>4. n \in Pairs
    BY <1>3 DEF Pairs, Asked
<1>5. [c EXCEPT !.rs.packs[i] = n] = d
    BY <1>1 DEF Handles, Read
<1>6. OnSprite(c, i, ok) = IF \A j \in DOMAIN d.rs.packs : d.rs.packs[j].waiting = 0
                           THEN Apply(d) ELSE d
    BY <1>5 DEF OnSprite
<1> HIDE DEF n
<1>7. t \in Seq(Pairs)
    BY <1>1, <1>2, <1>4, ExceptSeq
<1> HIDE DEF t
<1>8. /\ r \in Read /\ r.op = c.rs.op /\ r.link = c.rs.link /\ r.url = c.rs.url
      /\ r.phase = "sprites"
    BY <1>1, <1>7 DEF Read, Pairs
<1> HIDE DEF r
<1>9. InRead(d) /\ Reads(c, d) /\ LinksInv(d)
    BY <1>8, ReadGoesOn DEF PhaseOK
<1> HIDE DEF d
<1>10. LinksInv(Apply(d)) /\ Reads(d, Apply(d))
    BY <1>9, ApplyKeeps
<1> QED
    BY <1>6, <1>9, <1>10, ReadsTwice

\* Whatever is answered, and in whatever order, the links are as they should be.
LEMMA AnsweredKeeps ==
    ASSUME NEW c, LinksInv(c), c.open, c.rs # None, NEW ok \in BOOLEAN,
           NEW d \in Answered(c, ok)
    PROVE  LinksInv(d) /\ Reads(c, d)
<1>1. InRead(c) /\ PhaseOK(c.rs)
    BY DEF LinksInv, InRead
<1>2. CASE c.rs.phase = "style"
    BY <1>1, <1>2, OnStyleKeeps DEF Answered
<1>3. CASE c.rs.phase = "sibling"
    BY <1>1, <1>3, OnSiblingKeeps DEF Answered
<1>4. CASE c.rs.phase = "tilejson"
    BY <1>1, <1>4, OnTileJsonKeeps DEF Answered
<1>5. CASE c.rs.phase \notin {"style", "sibling", "tilejson"}
    <2>1. c.rs.phase = "sprites"
        BY <1>1, <1>5, InReadParts DEF Read
    <2>2. PICK i \in DOMAIN c.rs.packs : c.rs.packs[i].waiting > 0 /\ d = OnSprite(c, i, ok)
        BY <2>1 DEF Answered
    <2> QED
        BY <1>1, <2>1, <2>2, OnSpriteKeeps
<1> QED
    BY <1>2, <1>3, <1>4, <1>5

\* Lookout's own chart is taken: nothing is read, nothing is wrong.
LEMMA ClearKeeps ==
    ASSUME NEW c, c \in Handles, c.open, c.get, IsInjective(c.entries),
           Len(c.entries) <= MaxLinks, c.docs \subseteq Carried(c)
    PROVE  LinksInv(ClearSelection(c)) /\ ClearSelection(c).open /\ ClearSelection(c).changed
<1> DEFINE e == [c EXCEPT !.rs = None, !.active = Own, !.applied = Own, !.drawn = Own,
                          !.err = FALSE, !.changed = TRUE]
           d == ClearSelection(c)
<1>1. d = Save(e)
    BY DEF ClearSelection
<1>2. e \in Handles
    BY DEF Handles, Charts
<1>3. /\ e.open /\ e.get /\ e.entries = c.entries /\ e.active = Own /\ e.rs = None
      /\ e.applied = Own /\ e.drawn = Own /\ e.docs = c.docs /\ e.changed
    BY DEF Handles
<1> HIDE DEF e
<1>4. /\ CoreOK(d) /\ d.saved.active = Own
      /\ d = [e EXCEPT !.saved = [links |-> e.entries, active |-> e.active]]
    BY <1>1, <1>2, <1>3, SaveKeeps DEF Carried
<1> HIDE DEF d
<1>5. d.open /\ d.changed /\ d.rs = None /\ d.active = Own /\ d.drawn = Own
    BY <1>2, <1>3, <1>4 DEF Handles
<1> QED
    BY <1>4, <1>5 DEF LinksInv, RestOK, Settled, d

\* A chart the shell asks for is read by the fetcher that is there.
LEMMA StartKeeps ==
    ASSUME NEW c, CoreOK(c), c.open, NEW op \in {"add", "select", "refresh"}, NEW u \in Links,
           op = "add" => Len(c.entries) < MaxLinks, op # "add" => c.active = u
    PROVE  /\ LinksInv(Start(c, op, u)) /\ Start(c, op, u).open /\ Start(c, op, u).changed
<1>1. Start(c, op, u) = Begin(c, op, u)
    BY DEF Start, CoreOK
<1> QED
    BY <1>1, BeginKeeps

\* The pick moves, and nothing else.
Moved(c, u) == [c EXCEPT !.active = u, !.changed = TRUE]

\* The links are as they should be but for the read.
LEMMA PickMoves ==
    ASSUME NEW c, CoreOK(c), c.open, NEW u \in Carried(c), NEW d, d = Moved(c, u)
    PROVE  /\ u \in Links /\ u # Own /\ CoreOK(d) /\ d.open /\ d.active = u /\ d.changed
           /\ d.entries = c.entries /\ d.applied = c.applied /\ d.drawn = c.drawn
           /\ d.rs = c.rs /\ d.err = c.err /\ d.docs = c.docs /\ d.saved = c.saved
<1>1. c \in Handles
    BY DEF CoreOK, LinksTypeOK
<1>2. u \in Links /\ u \in Charts /\ u # Own
    <2>1. ToSet(c.entries) \subseteq Links
        BY <1>1, ListParts DEF Handles
    <2> QED
        BY <2>1, LinksAre DEF Carried, LinksConstants, Charts
<1>3. d \in Handles
    BY <1>1, <1>2 DEF Handles, Moved
<1>4. /\ d.open /\ d.get = c.get /\ d.entries = c.entries /\ d.active = u
      /\ d.applied = c.applied /\ d.drawn = c.drawn /\ d.docs = c.docs /\ d.saved = c.saved
      /\ d.err = c.err /\ d.rs = c.rs /\ d.changed
    BY <1>1 DEF Handles, Moved
<1>5. CoreOK(d)
    BY <1>2, <1>3, <1>4 DEF CoreOK, LinksTypeOK, NoTextLeft, Carried
<1> QED
    BY <1>2, <1>4, <1>5

\* The pick is written down.
LEMMA PickIsSaved ==
    ASSUME NEW c, CoreOK(c), c.open, NEW d, d = Save(c)
    PROVE  /\ CoreOK(d) /\ d.open /\ d.saved.active = c.active /\ d.active = c.active
           /\ d.entries = c.entries /\ d.applied = c.applied /\ d.drawn = c.drawn
           /\ d.rs = c.rs /\ d.err = c.err /\ d.docs = c.docs /\ d.changed = c.changed
<1>1. /\ c \in Handles /\ c.get /\ IsInjective(c.entries) /\ Len(c.entries) <= MaxLinks
      /\ c.docs \subseteq Carried(c)
    BY DEF CoreOK, LinksTypeOK, NoTextLeft, Carried
<1>2. /\ CoreOK(d) /\ d.saved.active = c.active
      /\ d = [c EXCEPT !.saved = [links |-> c.entries, active |-> c.active]]
    BY <1>1, SaveKeeps DEF CoreOK
<1>3. /\ d.open /\ d.entries = c.entries /\ d.active = c.active
      /\ d.applied = c.applied /\ d.drawn = c.drawn /\ d.docs = c.docs
      /\ d.err = c.err /\ d.rs = c.rs /\ d.changed = c.changed
    BY <1>1, <1>2 DEF Handles
<1> QED
    BY <1>2, <1>3

\* A chart of the list is selected.
LEMMA SelectKeeps ==
    ASSUME NEW c, CoreOK(c), c.open, NEW u \in Charts,
           LinksInv(c) \/ (c.applied # u /\ u \in Carried(c))
    PROVE  /\ LinksInv(Select(c, u)) /\ Onward(c, Select(c, u))
           /\ u \in Carried(c) \cup {Own} => Select(c, u).changed
<1> DEFINE d == [c EXCEPT !.active = u, !.changed = TRUE]
           e == Save(d)
<1>0. c \in Handles /\ c.get
    BY DEF CoreOK, LinksTypeOK
<1>1. CASE u = Own
    <2>1. LinksInv(ClearSelection(c)) /\ ClearSelection(c).open /\ ClearSelection(c).changed
        BY <1>0, ClearKeeps DEF CoreOK, LinksTypeOK, NoTextLeft, Carried
    <2> QED
        BY <1>1, <2>1 DEF Select, Onward
<1>2. CASE u # Own /\ u \notin Carried(c)
    BY <1>2 DEF Select, Onward
<1>3. CASE u # Own /\ u \in Carried(c)
    <2>0. d = Moved(c, u)
        BY DEF Moved
    <2> HIDE DEF d
    <2>1. /\ u \in Links /\ CoreOK(d) /\ d.open /\ d.active = u /\ d.changed
          /\ d.entries = c.entries /\ d.applied = c.applied /\ d.drawn = c.drawn
          /\ d.rs = c.rs /\ d.err = c.err /\ d.docs = c.docs /\ d.saved = c.saved
        BY <1>3, <2>0, PickMoves
    <2>2. Select(c, u) = IF c.applied = u THEN IF c.active = u THEN d ELSE e
                         ELSE IF u \in c.docs THEN OnStyleText(Begin(e, "select", u), "style")
                         ELSE Start(e, "select", u)
        BY <1>3, <2>0 DEF Select, Moved
    <2>3. /\ CoreOK(e) /\ e.open /\ e.saved.active = u /\ e.active = u
          /\ e.entries = d.entries /\ e.applied = d.applied /\ e.drawn = d.drawn
          /\ e.rs = d.rs /\ e.err = d.err /\ e.docs = d.docs /\ e.changed
        BY <2>1, PickIsSaved
    <2> HIDE DEF e
    <2>4. CASE c.applied = u /\ c.active = u
        <3>1. LinksInv(d)
            BY <2>1, <2>4 DEF LinksInv, RestOK, ReadOK, Settled, Carried
        <3> QED
            BY <2>1, <2>2, <2>4, <3>1 DEF Onward
    <2>5. CASE c.applied = u /\ c.active # u
        <3>1. Settled(e)
            BY <2>1, <2>3, <2>5 DEF Settled, CoreOK
        <3>2. LinksInv(e)
            BY <2>1, <2>3, <2>5, <3>1 DEF LinksInv, RestOK, ReadOK, Carried
        <3> QED
            BY <2>2, <2>3, <2>5, <3>2 DEF Onward
    <2>6. CASE c.applied # u /\ u \in c.docs
        <3> DEFINE b == Begin(e, "select", u)
        <3>1. /\ LinksInv(b) /\ b.rs # None /\ b.rs.phase = "style" /\ b.changed /\ b.open
            BY <2>1, <2>3, BeginKeeps
        <3> HIDE DEF b
        <3>2. InRead(b) /\ PhaseOK(b.rs)
            BY <3>1 DEF LinksInv, InRead
        <3>3. LinksInv(OnStyleText(b, "style")) /\ Reads(b, OnStyleText(b, "style"))
            BY <3>1, <3>2, OnStyleTextKeeps
        <3> QED
            BY <2>2, <2>6, <3>1, <3>3 DEF Reads, Onward, b
    <2>7. CASE c.applied # u /\ u \notin c.docs
        <3>1. /\ LinksInv(Start(e, "select", u)) /\ Start(e, "select", u).open
              /\ Start(e, "select", u).changed
            BY <2>1, <2>3, StartKeeps
        <3> QED
            BY <2>2, <2>7, <3>1 DEF Onward
    <2> QED
        BY <2>4, <2>5, <2>6, <2>7
<1> QED
    BY <1>1, <1>2, <1>3

\* A chart is added.
LEMMA AddKeeps ==
    ASSUME NEW c, LinksInv(c), c.open, NEW u \in Links
    PROVE  LinksInv(Add(c, u)) /\ Onward(c, Add(c, u))
<1>1. CoreOK(c) /\ c \in Handles /\ u \in Charts
    BY DEF LinksInv, CoreOK, LinksTypeOK, Charts
<1>2. CASE u \in Carried(c)
    BY <1>1, <1>2, SelectKeeps DEF Add
<1>3. CASE u \notin Carried(c) /\ Len(c.entries) >= MaxLinks
    <2> DEFINE d == Fail(c)
    <2>1. d \in Handles
        BY <1>1 DEF Fail, Handles
    <2>2. /\ d.open /\ d.get = c.get /\ d.entries = c.entries /\ d.active = c.active
          /\ d.applied = c.applied /\ d.drawn = c.drawn /\ d.docs = c.docs /\ d.saved = c.saved
          /\ d.err /\ d.rs = c.rs /\ d.changed
        BY <1>1 DEF Fail, Handles
    <2>3. d = Add(c, u)
        BY <1>3 DEF Add
    <2> HIDE DEF d
    <2>4. CoreOK(d)
        BY <1>1, <2>1, <2>2 DEF CoreOK, LinksTypeOK, NoTextLeft, Carried
    <2>5. LinksInv(d)
        BY <2>2, <2>4 DEF LinksInv, RestOK, ReadOK, Settled, Carried
    <2> QED
        BY <2>2, <2>3, <2>5 DEF Onward
<1>4. CASE u \notin Carried(c) /\ ~(Len(c.entries) >= MaxLinks)
    <2>1. Len(c.entries) < MaxLinks
        <3>1. Len(c.entries) \in Nat /\ MaxLinks \in Nat
            BY <1>1, ListParts, LinksAre DEF LinksConstants, Handles
        <3> QED
            BY <1>4, <3>1
    <2>2. /\ LinksInv(Start(c, "add", u)) /\ Start(c, "add", u).open
          /\ Start(c, "add", u).changed
        BY <1>1, <2>1, StartKeeps
    <2> QED
        BY <1>4, <2>2 DEF Add, Onward
<1> QED
    BY <1>2, <1>3, <1>4

\* A chart is read again.
LEMMA RefreshKeeps ==
    ASSUME NEW c, LinksInv(c), c.open, NEW u \in Links
    PROVE  LinksInv(Refresh(c, u)) /\ Onward(c, Refresh(c, u))
<1>1. CASE u \notin Carried(c)
    BY <1>1 DEF Refresh, Onward
<1>2. CASE u \in Carried(c)
    <2> DEFINE d == [c EXCEPT !.active = u, !.changed = TRUE]
    <2>2. Refresh(c, u) = Start(d, "refresh", u)
        BY <1>2 DEF Refresh
    <2>0. d = Moved(c, u)
        BY DEF Moved
    <2> HIDE DEF d
    <2>1. CoreOK(d) /\ d.open /\ d.active = u
        BY <1>2, <2>0, PickMoves DEF LinksInv
    <2>3. /\ LinksInv(Start(d, "refresh", u)) /\ Start(d, "refresh", u).open
          /\ Start(d, "refresh", u).changed
        BY <2>1, StartKeeps
    <2> QED
        BY <2>2, <2>3 DEF Onward
<1> QED
    BY <1>1, <1>2

\* A chart is taken off the list.
LEMMA RemoveLinkKeeps ==
    ASSUME NEW c, LinksInv(c), c.open, NEW u \in Links
    PROVE  LinksInv(RemoveLink(c, u)) /\ Onward(c, RemoveLink(c, u))
<1>1. CASE u \notin Carried(c)
    BY <1>1 DEF RemoveLink, Onward
<1>2. CASE u \in Carried(c)
    <2> DEFINE s == c.entries
               i == CHOOSE j \in DOMAIN s : s[j] = u
               e == RemoveAt(s, i)
               t == c.docs \ {u}
               d == [c EXCEPT !.entries = e, !.docs = t]
    <2>1. /\ c \in Handles /\ s \in Seq(Links) /\ IsInjective(s) /\ Len(s) <= MaxLinks
          /\ c.docs \subseteq ToSet(s) /\ CoreOK(c) /\ c.get
        BY DEF LinksInv, CoreOK, LinksTypeOK, NoTextLeft, Handles
    <2>2. i \in 1..Len(s) /\ s[i] = u
        <3>1. DOMAIN s = 1..Len(s)
            BY <2>1, ListParts
        <3>2. \E j \in DOMAIN s : s[j] = u
            BY <1>2 DEF Carried, ToSet
        <3> QED
            BY <3>1, <3>2
    <2>3. RemoveLink(c, u) = IF c.active = u THEN ClearSelection(d)
                             ELSE [Save(d) EXCEPT !.changed = TRUE]
        BY <1>2, <2>1 DEF RemoveLink, Handles
    <2> HIDE DEF i
    <2>4. /\ e \in Seq(Links) /\ Len(e) = Len(s) - 1 /\ IsInjective(e)
          /\ ToSet(e) = ToSet(s) \ {u}
        BY <2>1, <2>2, RemoveList
    <2>5. Len(s) \in Nat /\ MaxLinks \in Nat
        BY <2>1, ListParts, LinksAre DEF LinksConstants
    <2>6. Len(e) <= MaxLinks /\ Len(e) < MaxLinks
        BY <2>1, <2>4, <2>5
    <2> HIDE DEF e
    <2>7. t \in SUBSET Local /\ t \subseteq ToSet(e)
        BY <2>1, <2>4 DEF Handles
    <2> HIDE DEF t
    <2>8. d \in Handles
        BY <2>1, <2>4, <2>7 DEF Handles
    <2>9. /\ d.open /\ d.get /\ d.entries = e /\ d.active = c.active /\ d.rs = c.rs
          /\ d.applied = c.applied /\ d.drawn = c.drawn /\ d.docs = t /\ d.err = c.err
        BY <2>1 DEF Handles
    <2> HIDE DEF d
    <2>10. CASE c.active = u
        <3>1. LinksInv(ClearSelection(d)) /\ ClearSelection(d).open /\ ClearSelection(d).changed
            BY <2>4, <2>6, <2>7, <2>8, <2>9, ClearKeeps DEF Carried
        <3> QED
            BY <2>3, <2>10, <3>1 DEF Onward
    <2>11. CASE c.active # u
        <3> DEFINE f == Save(d)
                   g == [f EXCEPT !.changed = TRUE]
        <3>1. /\ d.active \in Carried(d) \cup {Own} /\ (d.drawn # Own => d.drawn = d.applied)
              /\ d.active = Own => d.drawn = Own
            BY <2>1, <2>4, <2>9, <2>11 DEF CoreOK, Carried
        <3>2. /\ CoreOK(f) /\ f.saved.active = c.active
              /\ f = [d EXCEPT !.saved = [links |-> d.entries, active |-> d.active]]
            BY <2>4, <2>6, <2>7, <2>8, <2>9, <3>1, SaveKeeps DEF Carried
        <3> HIDE DEF f
        <3>3. /\ f.open /\ f.get /\ f.entries = e /\ f.active = c.active /\ f.rs = c.rs
              /\ f.applied = c.applied /\ f.drawn = c.drawn /\ f.docs = t /\ f.err = c.err
              /\ f \in Handles
            <4>1. f \in Handles
                BY <3>2 DEF CoreOK, LinksTypeOK
            <4> QED
                BY <2>8, <2>9, <3>2, <4>1 DEF Handles
        <3>4. g \in Handles
            BY <3>3 DEF Handles
        <3>5. /\ g.open /\ g.get = f.get /\ g.entries = e /\ g.active = c.active /\ g.rs = c.rs
              /\ g.applied = c.applied /\ g.drawn = c.drawn /\ g.docs = t /\ g.err = c.err
              /\ g.saved = f.saved /\ g.changed
            BY <3>3 DEF Handles
        <3> HIDE DEF g
        <3>6. CoreOK(g)
            BY <3>2, <3>3, <3>4, <3>5 DEF CoreOK, LinksTypeOK, NoTextLeft, Carried
        <3>7. LinksInv(g)
            <4>1. Settled(g) <=> Settled(c)
                BY <3>5 DEF Settled
            <4>2. CASE c.rs = None
                BY <3>2, <3>5, <3>6, <4>1, <4>2 DEF LinksInv, RestOK
            <4>3. CASE c.rs # None
                BY <2>6, <3>2, <3>5, <3>6, <4>1, <4>3 DEF LinksInv, ReadOK
            <4> QED
                BY <4>2, <4>3
        <3> QED
            BY <2>3, <2>11, <3>5, <3>7 DEF Onward, f, g
    <2> QED
        BY <2>10, <2>11
<1> QED
    BY <1>1, <1>2

\* With no handle the links are what is on disk.
LEMMA NoHandleKeeps ==
    ASSUME NEW x \in SUBSET Links, NEW l, ListOK(l), NEW t \in SUBSET Local,
           t \subseteq ToSet(l.links)
    PROVE  LinksInv(NoHandle(x, l, t)) /\ ~NoHandle(x, l, t).open /\ ~NoHandle(x, l, t).changed
<1> DEFINE d == NoHandle(x, l, t)
<1>1. /\ ~d.open /\ ~d.get /\ d.entries = <<>> /\ d.active = Own /\ d.applied = Own
      /\ d.drawn = Own /\ d.rs = None /\ ~d.err /\ ~d.changed /\ d.docs = t /\ d.saved = l
      /\ d.refuses = x
    BY DEF NoHandle
<1>2. d \in Handles
    BY EmptyList DEF NoHandle, Handles, ListOK, Lists, Charts
<1>3. d = NoHandle(d.refuses, d.saved, d.docs)
    BY <1>1
<1> HIDE DEF d
<1>4. LinksTypeOK(d)
    BY <1>1, <1>2, EmptyList, LinksAre DEF LinksTypeOK, LinksConstants
<1>5. d.get = d.open /\ NoTextLeft(d)
    BY <1>1, <1>2 DEF NoTextLeft, Handles
<1>6. CoreOK(d)
    BY <1>1, <1>3, <1>4, <1>5 DEF CoreOK
<1> QED
    BY <1>1, <1>6 DEF LinksInv, d

\* The chart closes.
LEMMA ClosedKeeps ==
    ASSUME NEW c, LinksInv(c)
    PROVE  /\ LinksInv(Closed(c)) /\ ~Closed(c).open /\ ~Closed(c).changed
           /\ Closed(SetProvider(c, FALSE)) = Closed(c)
           /\ c.open => Closed(c).saved.links = c.entries
<1>1. c \in Handles /\ ListOK(c.saved) /\ c.docs \subseteq ToSet(c.saved.links)
    BY DEF LinksInv, CoreOK, LinksTypeOK, NoTextLeft
<1>2. c.docs \in SUBSET Local /\ c.refuses \in SUBSET Links
    BY <1>1 DEF Handles
<1>3. LinksInv(Closed(c)) /\ ~Closed(c).open /\ ~Closed(c).changed
    BY <1>1, <1>2, NoHandleKeeps DEF Closed
<1>4. SetProvider(c, FALSE).saved = c.saved /\ SetProvider(c, FALSE).docs = c.docs
      /\ SetProvider(c, FALSE).refuses = c.refuses
    BY <1>1 DEF SetProvider, Handles
<1>5. c.open => Closed(c).saved.links = c.entries
    BY DEF Closed, NoHandle, LinksInv, CoreOK
<1> QED
    BY <1>3, <1>4, <1>5 DEF Closed

\* The links as a chart opens: nothing has been read, and the fetcher is there.
Attached(c) == [Opened(c) EXCEPT !.get = TRUE]

\* The list is the one on disk.
LEMMA AttachedKeeps ==
    ASSUME NEW c, LinksInv(c), NEW d, d = Attached(c)
    PROVE  /\ CoreOK(d) /\ d.open /\ d.get /\ d.applied = Own /\ d.drawn = Own /\ d.rs = None
           /\ ~d.err /\ d.saved.active = d.active
           /\ d.entries = c.saved.links /\ (d.entries # <<>> => d.changed)
           /\ d.entries = <<>> => d.active = Own /\ d.docs = {}
<1>1. c \in Handles /\ ListOK(c.saved) /\ c.docs \subseteq ToSet(c.saved.links)
    BY DEF LinksInv, CoreOK, LinksTypeOK, NoTextLeft
<1>2. c.docs \in SUBSET Local /\ c.saved \in Lists /\ c.refuses \in SUBSET Links
    BY <1>1 DEF Handles
<1>3. c.saved.links \in Seq(Links) /\ c.saved.active \in Charts
    BY <1>2 DEF Lists
<1>4. d = [open |-> TRUE, get |-> TRUE, entries |-> c.saved.links, active |-> c.saved.active,
           applied |-> Own, drawn |-> Own, rs |-> None, err |-> FALSE,
           changed |-> c.saved.links # <<>>, docs |-> c.docs, saved |-> c.saved,
           refuses |-> c.refuses]
    BY DEF Attached, Opened, NoHandle
<1>5. /\ d.open /\ d.get /\ d.entries = c.saved.links /\ d.active = c.saved.active
      /\ d.applied = Own /\ d.drawn = Own /\ d.rs = None /\ ~d.err
      /\ d.changed = (c.saved.links # <<>>) /\ d.docs = c.docs /\ d.saved = c.saved
    BY <1>4
<1>6. d \in Handles
    BY <1>2, <1>3, <1>4 DEF Handles, Charts
<1>7. CoreOK(d)
    BY <1>1, <1>5, <1>6 DEF CoreOK, LinksTypeOK, NoTextLeft, Carried, ListOK
<1>8. d.entries = <<>> => d.active = Own /\ d.docs = {}
    BY <1>1, <1>5, EmptyList DEF ListOK
<1> QED
    BY <1>5, <1>7, <1>8

\* The chart the mariner left selected is drawn again.
LEMMA ReapplyKeeps ==
    ASSUME NEW c, CoreOK(c), c.open, c.applied = Own, c.drawn = Own, c.rs = None,
           c.saved.active = c.active
    PROVE  /\ LinksInv(Reapply(c)) /\ Onward(c, Reapply(c))
           /\ c.active = Own => Reapply(c) = c
           /\ c.active # Own => Reapply(c).entries # <<>>
<1>1. CASE c.active = Own
    BY <1>1 DEF Reapply, LinksInv, RestOK, Settled, Onward
<1>2. CASE c.active # Own
    <2>1. c.active \in Charts /\ c.active \in Carried(c)
        BY <1>2 DEF CoreOK, LinksTypeOK, Handles
    <2>2. LinksInv(Select(c, c.active)) /\ Onward(c, Select(c, c.active))
        BY <1>2, <2>1, SelectKeeps
    <2> DEFINE d == Moved(c, c.active)
               e == Save(d)
    <2>3. /\ c.active \in Links /\ CoreOK(d) /\ d.open /\ d.active = c.active
          /\ d.entries = c.entries /\ d.applied = c.applied
        BY <2>1, PickMoves
    <2>4. Select(c, c.active) = IF c.active \in c.docs
                                THEN OnStyleText(Begin(e, "select", c.active), "style")
                                ELSE Start(e, "select", c.active)
        BY <1>2, <2>1 DEF Select, Moved
    <2>5. c.entries # <<>>
        BY <2>1, EmptyList DEF Carried
    <2> HIDE DEF d
    <2>6. CoreOK(e) /\ e.open /\ e.active = c.active /\ e.entries = c.entries
        BY <2>3, PickIsSaved
    <2> HIDE DEF e
    <2> DEFINE b == Begin(e, "select", c.active)
    <2>7. /\ LinksInv(b) /\ b.rs # None /\ b.open /\ b.rs.phase = "style"
        BY <2>3, <2>6, BeginKeeps
    <2>8. b.entries = c.entries
        BY <2>6 DEF Begin, CoreOK, LinksTypeOK, Handles
    <2>9. Start(e, "select", c.active) = b
        BY <2>6 DEF Start, CoreOK
    <2> HIDE DEF b
    <2>10. InRead(b) /\ PhaseOK(b.rs)
        BY <2>7 DEF LinksInv, InRead
    <2>11. OnStyleText(b, "style").entries # <<>>
        BY <2>5, <2>8, <2>10, <2>7, OnStyleTextKeeps DEF Reads
    <2>12. Select(c, c.active).entries # <<>>
        BY <2>4, <2>5, <2>8, <2>9, <2>11 DEF b
    <2> QED
        BY <1>2, <2>2, <2>12 DEF Reapply
<1> QED
    BY <1>1, <1>2

\* What is read of the links once the chart is open: a change, or nothing at all.
AsOpened(c, d) ==
    /\ LinksInv(d) /\ d.open
    /\ d.changed \/ /\ c.saved.links = <<>> /\ d.entries = <<>> /\ d.active = Own
                    /\ d.drawn = Own /\ d.rs = None /\ ~d.err

\* The chart opens on what is on disk.
LEMMA OpenKeeps ==
    ASSUME NEW c, LinksInv(c)
    PROVE  AsOpened(c, SetProvider(Opened(c), TRUE))
<1> DEFINE d == Attached(c)
           e == SetProvider(Opened(c), TRUE)
<1>1. e = Reapply(d)
    BY DEF SetProvider, Attached
<1>2. d = Attached(c)
    OBVIOUS
<1> HIDE DEF d, e
<1>3. /\ CoreOK(d) /\ d.open /\ d.get /\ d.applied = Own /\ d.drawn = Own /\ d.rs = None
      /\ ~d.err /\ d.saved.active = d.active
      /\ d.entries = c.saved.links /\ (d.entries # <<>> => d.changed)
      /\ d.entries = <<>> => d.active = Own /\ d.docs = {}
    BY <1>2, AttachedKeeps
<1>4. LinksInv(e) /\ Onward(d, e) /\ (d.active = Own => e = d)
    BY <1>1, <1>3, ReapplyKeeps
<1> QED
    BY <1>3, <1>4 DEF AsOpened, Onward, e

\* A shell's old list is taken for an empty one.
Taken(c, l) ==
    LET d == [c EXCEPT !.entries = SubSeq(l.links, 1, IF Len(l.links) < MaxLinks
                                                      THEN Len(l.links) ELSE MaxLinks),
                       !.changed = TRUE]
    IN [d EXCEPT !.active = IF l.active \in Carried(d) THEN l.active ELSE @]

\* The old list is not longer than the core's may be, and its pick is on it.
LEMMA TakenKeeps ==
    ASSUME NEW c, CoreOK(c), c.open, c.entries = <<>>, c.active = Own, c.applied = Own,
           c.drawn = Own, c.rs = None, c.docs = {}, NEW l, ListOK(l), NEW d, d = Save(Taken(c, l))
    PROVE  /\ CoreOK(d) /\ d.open /\ d.applied = Own /\ d.drawn = Own /\ d.rs = None /\ d.changed
           /\ d.saved.active = d.active
<1> DEFINE n == IF Len(l.links) < MaxLinks THEN Len(l.links) ELSE MaxLinks
           s == SubSeq(l.links, 1, n)
           e == [c EXCEPT !.entries = s, !.changed = TRUE]
           u == IF l.active \in ToSet(s) THEN l.active ELSE Own
           f == Taken(c, l)
<1>1. /\ c \in Handles /\ c.get /\ l.links \in Seq(Links) /\ IsInjective(l.links)
      /\ l.active \in Charts
    BY DEF CoreOK, LinksTypeOK, ListOK, Lists
<1>2. Len(l.links) \in Nat /\ MaxLinks \in Nat
    BY <1>1, ListParts, LinksAre DEF LinksConstants
<1>3. n \in Nat /\ n <= Len(l.links) /\ n <= MaxLinks
    BY <1>2
<1> HIDE DEF n
<1>4. s \in Seq(Links) /\ Len(s) = n /\ IsInjective(s)
    BY <1>1, <1>3, CutList
<1> HIDE DEF s
<1>5. f = [e EXCEPT !.active = u]
    <2>1. e.active = Own /\ Carried(e) = ToSet(s)
        BY <1>1 DEF Handles, Carried
    <2>2. f = [e EXCEPT !.active = IF l.active \in Carried(e) THEN l.active ELSE @]
        BY DEF Taken, s, n
    <2> HIDE DEF e, f
    <2> QED
        BY <2>1, <2>2
<1>6. u \in Charts /\ u \in ToSet(s) \cup {Own}
    BY <1>1 DEF Charts
<1> HIDE DEF u
<1>7. f \in Handles
    <2> HIDE DEF f
    <2>1. e \in Handles
        BY <1>1, <1>4 DEF Handles
    <2> HIDE DEF e
    <2> QED
        BY <1>5, <1>6, <2>1 DEF Handles
<1>8. /\ f.open /\ f.get /\ f.entries = s /\ f.active = u /\ f.rs = None
      /\ f.applied = Own /\ f.drawn = Own /\ f.docs = {} /\ f.changed
    <2> HIDE DEF f
    <2> QED
        BY <1>1, <1>5 DEF Handles
<1> HIDE DEF e, f
<1>9. /\ CoreOK(d) /\ d.saved.active = f.active
      /\ d = [f EXCEPT !.saved = [links |-> f.entries, active |-> f.active]]
    <2>1. f.docs \subseteq Carried(f) /\ f.active \in Carried(f) \cup {Own}
        BY <1>6, <1>8 DEF Carried
    <2>2. IsInjective(f.entries) /\ Len(f.entries) <= MaxLinks
        BY <1>3, <1>4, <1>8
    <2>3. d = Save(f)
        BY DEF f
    <2> QED
        BY <1>7, <1>8, <2>1, <2>2, <2>3, SaveKeeps
<1>10. /\ d.open /\ d.applied = Own /\ d.drawn = Own /\ d.rs = None /\ d.changed
       /\ d.active = f.active
    BY <1>7, <1>8, <1>9 DEF Handles
<1> QED
    BY <1>9, <1>10

\* The chart opens, and the list a shell of before kept is handed over.
LEMMA ImportKeeps ==
    ASSUME NEW c, LinksInv(c), NEW l, ListOK(l)
    PROVE  AsOpened(c, Import(SetProvider(Opened(c), TRUE), l))
<1> DEFINE d == Attached(c)
           e == SetProvider(Opened(c), TRUE)
           t == Save(Taken(e, l))
<1>1. e = Reapply(d)
    BY DEF SetProvider, Attached
<1>2. d = Attached(c)
    OBVIOUS
<1> HIDE DEF d
<1>3. /\ CoreOK(d) /\ d.open /\ d.get /\ d.applied = Own /\ d.drawn = Own /\ d.rs = None
      /\ ~d.err /\ d.saved.active = d.active
      /\ d.entries = c.saved.links /\ (d.entries # <<>> => d.changed)
      /\ d.entries = <<>> => d.active = Own /\ d.docs = {}
    BY <1>2, AttachedKeeps
<1>4. AsOpened(c, e)
    BY OpenKeeps
<1> HIDE DEF e
<1>5. CASE e.entries # <<>> \/ l.links = <<>>
    BY <1>4, <1>5 DEF Import, e
<1>6. CASE ~(e.entries # <<>> \/ l.links = <<>>)
    <2>1. e = d
        <3>1. (d.active = Own => e = d) /\ (d.active # Own => e.entries # <<>>)
            BY <1>1, <1>3, ReapplyKeeps
        <3> QED
            BY <1>6, <3>1
    <2>2. Import(e, l) = Reapply(t)
        BY <1>6 DEF Import, Taken
    <2>3. t = Save(Taken(e, l))
        OBVIOUS
    <2> HIDE DEF t
    <2>4. /\ CoreOK(t) /\ t.open /\ t.applied = Own /\ t.drawn = Own /\ t.rs = None /\ t.changed
          /\ t.saved.active = t.active
        BY <1>3, <1>6, <2>1, <2>3, TakenKeeps
    <2>5. LinksInv(Reapply(t)) /\ Onward(t, Reapply(t))
        BY <2>4, ReapplyKeeps
    <2> QED
        BY <2>2, <2>4, <2>5 DEF AsOpened, Onward, e
<1> QED
    BY <1>5, <1>6

-------------------------------------------------------------------------------
(* What the shells read.                                                     *)

\* What a shell reads of the links.
Readings == [urls : Seq(Links), active : Charts, err : BOOLEAN, busy : BOOLEAN]

\* What was read is what the links are, unless there is a change to read.
ReadingOK(l, c) ==
    c.open /\ ~c.changed => /\ l.urls = c.entries /\ l.active = c.active
                            /\ c.rs # None => l.busy
                            /\ c.err => l.err

\* A change that was read leaves the links as they are.
LEMMA SeenKeeps ==
    ASSUME NEW c, LinksInv(c), c.open, NEW d, d = [c EXCEPT !.changed = FALSE]
    PROVE  /\ LinksInv(d) /\ d.open /\ d.changed = FALSE /\ d.entries = c.entries
           /\ d.active = c.active /\ d.rs = c.rs /\ d.err = c.err /\ d.drawn = c.drawn
<1>1. c \in Handles /\ CoreOK(c)
    BY DEF LinksInv, CoreOK, LinksTypeOK
<1>2. d \in Handles
    BY <1>1 DEF Handles
<1>3. /\ d.open /\ d.get = c.get /\ d.entries = c.entries /\ d.active = c.active
      /\ d.applied = c.applied /\ d.drawn = c.drawn /\ d.docs = c.docs /\ d.saved = c.saved
      /\ d.err = c.err /\ d.rs = c.rs /\ d.changed = FALSE
    BY <1>1 DEF Handles
<1>4. CoreOK(d)
    BY <1>1, <1>2, <1>3 DEF CoreOK, LinksTypeOK, NoTextLeft, Carried
<1>5. LinksInv(d)
    BY <1>3, <1>4 DEF LinksInv, RestOK, ReadOK, Settled, Carried
<1> QED
    BY <1>3, <1>5

-------------------------------------------------------------------------------
(* The Linux shelf.                                                          *)

Rows == [shown : BOOLEAN, pending : Charts \cup {None}, begun : BOOLEAN,
         tiles : SUBSET Links, mine : SUBSET Links, lit : Charts \cup {None},
         reading : Charts \cup {None}]
LinesOf == [busy : BOOLEAN, err : BOOLEAN, linked : BOOLEAN, due : BOOLEAN]

\* With no chart open an empty list is read as one, and lookout's own chart is picked.
ClosedOK(l, c) == ~c.open /\ c.saved.links = <<>> => l.urls = <<>> /\ l.active = Own

\* The tiles are of what was read.
RowOK(r, l) ==
    r.shown =>
        /\ r.tiles = Tiles(l) /\ r.mine = ToSet(l.urls)
        /\ r.pending # None => r.pending # l.active
        /\ r.begun => r.pending # None /\ l.busy
        /\ r.lit # l.active => r.lit = r.pending
        /\ r.pending = None => r.lit = l.active

\* The invariant of the shelf.
LinuxShelfInv ==
    /\ LinksInv(core) /\ core.changed = FALSE
    /\ list \in Readings /\ row \in Rows /\ lines \in LinesOf
    /\ ReadingOK(list, core) /\ ClosedOK(list, core) /\ RowOK(row, list)
    /\ row.shown /\ ~lines.due => lines = Lines(list)
    /\ {adding, imported} \subseteq BOOLEAN /\ asked \in Charts \cup {None}
    /\ old \in {NoLinks, LinuxOldStore} /\ asks \in 0..LinuxMaxAsks /\ shows \in 0..MaxShows

\* It is what is checked of the shelf.
LEMMA LinuxShelfInvIsEnough ==
    ASSUME LinuxShelfInv
    PROVE  LinuxTypeOK /\ LinuxShelfIsTrue
<1>1. LinksTypeOK(core) /\ PickIsDrawn(core) /\ ListIsSaved(core) /\ NoTextLeft(core)
    BY LinksInvIsEnough DEF LinuxShelfInv
<1>2. LinuxTypeOK
    BY <1>1 DEF LinuxShelfInv, LinuxTypeOK, Readings, Rows, LinesOf
<1>3. ReadingIsCurrent
    BY DEF LinuxShelfInv, ReadingIsCurrent, ReadingOK
<1>4. LinuxShelfIsCurrent
    BY DEF LinuxShelfInv, LinuxShelfIsCurrent, RowOK
<1>5. LitIsDrawn
    <2> SUFFICES ASSUME row.shown, core.open, core.rs = None, ~core.err, row.pending = None
                 PROVE  Draws(core, row.lit)
        BY DEF LitIsDrawn
    <2>1. row.lit = core.active
        BY DEF LinuxShelfInv, ReadingOK, RowOK
    <2>2. core.get
        BY DEF LinuxShelfInv, LinksInv, CoreOK
    <2> QED
        BY <1>1, <2>1, <2>2 DEF PickIsDrawn
<1> QED
    BY <1>1, <1>2, <1>3, <1>4, <1>5 DEF LinuxShelfIsTrue

\* What is read of the links.
LEMMA LinuxReadingParts ==
    ASSUME NEW c, LinksInv(c)
    PROVE  LET l == LinuxReading(c)
           IN  /\ l \in Readings /\ l.urls = c.entries /\ l.active = c.active /\ l.err = c.err
               /\ l.busy = (c.rs # None)
<1>1. c \in Handles
    BY DEF LinksInv, CoreOK, LinksTypeOK
<1> QED
    BY <1>1 DEF LinuxReading, Readings, Handles

\* The tiles are filled from what was read, and the pick is retired.
LEMMA FillKeeps ==
    ASSUME NEW r \in Rows, NEW l \in Readings, r.begun => r.pending # None
    PROVE  Fill(r, l) \in Rows /\ RowOK(Fill(r, l), l) /\ Fill(r, l).shown = r.shown
<1> DEFINE begun == r.begun \/ (r.pending # None /\ l.busy)
           answered == r.pending # None /\ (l.active = r.pending \/ (begun /\ ~l.busy))
           pending == IF answered THEN None ELSE r.pending
           picked == IF pending # None THEN pending ELSE IF l.busy THEN l.active ELSE None
           lit == IF picked # None THEN picked ELSE l.active
           f == Fill(r, l)
<1>1. /\ begun \in BOOLEAN /\ answered \in BOOLEAN /\ pending \in Charts \cup {None}
      /\ picked \in Charts \cup {None} /\ lit \in Charts \cup {None} /\ l.active # None
    BY LinksAre DEF Rows, Readings, LinksConstants
<1>2. Tiles(l) \in SUBSET Links /\ ToSet(l.urls) \in SUBSET Links
    <2>1. ToSet(l.urls) \subseteq Links
        BY ListParts DEF Readings
    <2> QED
        BY <2>1, LinksAre DEF Tiles, LinksConstants
<1>3. f = [r EXCEPT !.pending = pending, !.begun = begun /\ ~answered, !.tiles = Tiles(l),
                    !.mine = ToSet(l.urls), !.reading = picked, !.lit = lit]
    BY DEF Fill
<1>4. /\ r.begun => r.pending # None
      /\ pending # None => pending # l.active
      /\ begun /\ ~answered => pending # None /\ l.busy
      /\ lit # l.active => lit = pending
      /\ pending = None => lit = l.active
    BY <1>1
<1> HIDE DEF begun, answered, pending, picked, lit, f
<1>5. f \in Rows
    BY <1>1, <1>2, <1>3 DEF Rows
<1>6. /\ f.pending = pending /\ f.begun = (begun /\ ~answered) /\ f.tiles = Tiles(l)
      /\ f.mine = ToSet(l.urls) /\ f.lit = lit /\ f.shown = r.shown
    BY <1>3 DEF Rows
<1>7. RowOK(f, l)
    BY <1>4, <1>6 DEF RowOK
<1> QED
    BY <1>5, <1>6, <1>7 DEF f

\* What a call or a frame ends with: a change is read, and shown.
LEMMA LinuxPolledKeeps ==
    ASSUME LinuxShelfInv, NEW c, LinksInv(c), NEW r \in Rows, RowOK(r, list), r.shown = row.shown,
           ReadingOK(list, c), ClosedOK(list, c), ~c.open => ~c.changed, LinuxPolled(c, r)
    PROVE  /\ LinksInv(core') /\ core'.changed = FALSE
           /\ list' \in Readings /\ row' \in Rows /\ lines' \in LinesOf
           /\ ReadingOK(list', core') /\ ClosedOK(list', core') /\ RowOK(row', list')
           /\ row'.shown /\ ~lines'.due => lines' = Lines(list')
<1>0. c \in Handles
    BY DEF LinksInv, CoreOK, LinksTypeOK
<1>1. CASE c.open /\ c.changed
    <2> DEFINE l == LinuxReading(c)
               d == [c EXCEPT !.changed = FALSE]
               n == [lines EXCEPT !.due = r.shown]
    <2>1. /\ core' = d /\ list' = l /\ row' = IF r.shown THEN Fill(r, l) ELSE r
          /\ lines' = n
        BY <1>1 DEF LinuxPolled
    <2>2. /\ l \in Readings /\ l.urls = c.entries /\ l.active = c.active /\ l.err = c.err
          /\ l.busy = (c.rs # None)
        BY LinuxReadingParts
    <2>3. d = [c EXCEPT !.changed = FALSE]
        OBVIOUS
    <2> HIDE DEF l, d
    <2>4. /\ LinksInv(d) /\ d.open /\ d.changed = FALSE /\ d.entries = c.entries
          /\ d.active = c.active /\ d.rs = c.rs /\ d.err = c.err
        BY <1>1, <2>3, SeenKeeps
    <2>5. ReadingOK(l, d) /\ ClosedOK(l, d)
        BY <2>2, <2>4 DEF ReadingOK, ClosedOK
    <2>6. n \in LinesOf /\ n.due = r.shown
        BY DEF LinuxShelfInv, LinesOf, Rows
    <2> HIDE DEF n
    <2>7. CASE r.shown
        <3>1. r.begun => r.pending # None
            BY <2>7 DEF RowOK
        <3>2. Fill(r, l) \in Rows /\ RowOK(Fill(r, l), l)
            BY <2>2, <3>1, FillKeeps
        <3> QED
            BY <2>1, <2>2, <2>4, <2>5, <2>6, <2>7, <3>2
    <2>8. CASE ~r.shown
        BY <2>1, <2>2, <2>4, <2>5, <2>6, <2>8 DEF RowOK
    <2> QED
        BY <2>7, <2>8
<1>2. CASE ~(c.open /\ c.changed)
    <2>1. core' = c /\ row' = r /\ list' = list /\ lines' = lines
        BY <1>2 DEF LinuxPolled
    <2>2. c.changed = FALSE
        BY <1>0, <1>2 DEF Handles
    <2> QED
        BY <2>1, <2>2 DEF LinuxShelfInv
<1> QED
    BY <1>1, <1>2

\* The rest of the shell, which no call to the links changes.
LinuxRest ==
    /\ {adding, imported} \subseteq BOOLEAN /\ asked \in Charts \cup {None}
    /\ old \in {NoLinks, LinuxOldStore} /\ asks \in 0..LinuxMaxAsks /\ shows \in 0..MaxShows

\* A step of the engine, or a call that is made to it, ends in a poll.
LEMMA LinuxStepKeeps ==
    ASSUME LinuxShelfInv, NEW c, NEW r \in Rows, RowOK(r, list), r.shown = row.shown, LinuxPolled(c, r), LinuxRest',
           \/ core.open /\ LinksInv(c) /\ Onward(core, c)
           \/ ~core.open /\ c = core
           \/ ~core.open /\ AsOpened(core, c)
    PROVE  LinuxShelfInv'
<1>1. LinksInv(c) /\ (~c.open => ~c.changed)
    BY DEF LinuxShelfInv, AsOpened, Onward
<1>2. ReadingOK(list, c) /\ ClosedOK(list, c)
    <2>1. CASE core.open /\ LinksInv(c) /\ Onward(core, c)
        BY <2>1 DEF LinuxShelfInv, Onward, ReadingOK, ClosedOK
    <2>2. CASE ~core.open /\ c = core
        BY <2>2 DEF LinuxShelfInv
    <2>3. CASE ~core.open /\ AsOpened(core, c)
        BY <2>3 DEF LinuxShelfInv, AsOpened, ReadingOK, ClosedOK
    <2> QED
        BY <2>1, <2>2, <2>3
<1>3. /\ LinksInv(core') /\ core'.changed = FALSE
      /\ list' \in Readings /\ row' \in Rows /\ lines' \in LinesOf
      /\ ReadingOK(list', core') /\ ClosedOK(list', core') /\ RowOK(row', list')
      /\ row'.shown /\ ~lines'.due => lines' = Lines(list')
    BY <1>1, <1>2, LinuxPolledKeeps
<1> QED
    BY <1>3 DEF LinuxShelfInv, LinuxRest

\* A call of the shell's: what the links are after it.
LEMMA LinuxCallKeeps ==
    ASSUME LinuxShelfInv, NEW c, NEW r \in Rows, RowOK(r, list), r.shown = row.shown,
           LinuxPolled(IF core.open THEN c ELSE core, r), LinuxRest',
           core.open => LinksInv(c) /\ Onward(core, c)
    PROVE  LinuxShelfInv'
<1>1. CASE core.open
    <2>1. LinksInv(c) /\ Onward(core, c) /\ LinuxPolled(c, r)
        BY <1>1
    <2> QED
        BY <1>1, <2>1, LinuxStepKeeps
<1>2. CASE ~core.open
    <2>1. LinuxPolled(core, r)
        BY <1>2
    <2> QED
        BY <1>2, <2>1, LinuxStepKeeps
<1> QED
    BY <1>1, <1>2

\* A tile is tapped.
LEMMA TileClickedKeeps ==
    ASSUME LinuxShelfInv, NEW u \in Charts, TileClicked(u)
    PROVE  LinuxShelfInv'
<1> DEFINE r0 == [row EXCEPT !.pending = u, !.begun = FALSE]
           r == Fill(r0, list)
           c == IF u = Own \/ u \in row.mine THEN Select(core, u) ELSE Add(core, u)
<1>1. r0 \in Rows /\ ~r0.begun /\ r0.shown = row.shown
    BY DEF LinuxShelfInv, Rows
<1>2. r \in Rows /\ RowOK(r, list) /\ r.shown = row.shown
    BY <1>1, FillKeeps DEF LinuxShelfInv
<1>3. LinuxPolled(IF core.open THEN c ELSE core, r)
    <2>1. (IF ~core.open THEN core
           ELSE IF u = Own \/ u \in row.mine THEN Select(core, u) ELSE Add(core, u))
              = IF core.open THEN c ELSE core
        OBVIOUS
    <2> QED
        BY <2>1 DEF TileClicked
<1>4. LinuxRest'
    <2>1. asked' \in Charts \cup {None} /\ asks' \in 0..LinuxMaxAsks
        BY ShelvesConstants DEF TileClicked, LinuxMayAsk, LinuxShelfInv, LinuxShelfConstants
    <2>2. /\ {adding, imported}' \subseteq BOOLEAN
          /\ old' \in {NoLinks, LinuxOldStore} /\ shows' \in 0..MaxShows
        BY DEF TileClicked, LinuxShelfInv
    <2> QED
        BY <2>1, <2>2 DEF LinuxRest
<1>5. core.open => LinksInv(c) /\ Onward(core, c)
    <2>1. LinksInv(core) /\ CoreOK(core)
        BY DEF LinuxShelfInv, LinksInv
    <2> QED
        BY <2>1, SelectKeeps, AddKeeps DEF Charts
<1> HIDE DEF r, c
<1> QED
    BY <1>2, <1>3, <1>4, <1>5, LinuxCallKeeps

\* A call on a link of the mariner's own, or one that is given.
LEMMA LinuxLinkAskedKeeps ==
    ASSUME LinuxShelfInv, NEW u \in Links, TileRefresh(u) \/ TileRemove(u) \/ AddLinkSubmit(u)
    PROVE  LinuxShelfInv'
<1>1. row \in Rows /\ RowOK(row, list) /\ LinksInv(core)
    BY DEF LinuxShelfInv
<1>2. LinuxRest'
    <2>1. asked' \in Charts \cup {None} /\ asks' \in 0..LinuxMaxAsks
        BY ShelvesConstants DEF TileRefresh, TileRemove, AddLinkSubmit, LinuxMayAsk, LinuxShelfInv, LinuxShelfConstants
    <2>2. {adding, imported}' \subseteq BOOLEAN /\ old' \in {NoLinks, LinuxOldStore}
        BY DEF TileRefresh, TileRemove, AddLinkSubmit, LinuxShelfInv
    <2>3. shows' \in 0..MaxShows
        BY DEF TileRefresh, TileRemove, AddLinkSubmit, LinuxShelfInv
    <2> QED
        BY <2>1, <2>2, <2>3 DEF LinuxRest
<1>3. CASE TileRefresh(u)
    <2>1. LinuxPolled(IF core.open THEN Refresh(core, u) ELSE core, row)
        BY <1>3 DEF TileRefresh
    <2> QED
        BY <1>1, <1>2, <2>1, RefreshKeeps, LinuxCallKeeps
<1>4. CASE TileRemove(u)
    <2>1. LinuxPolled(IF core.open THEN RemoveLink(core, u) ELSE core, row)
        BY <1>4 DEF TileRemove
    <2> QED
        BY <1>1, <1>2, <2>1, RemoveLinkKeeps, LinuxCallKeeps
<1>5. CASE AddLinkSubmit(u)
    <2>1. LinuxPolled(IF core.open THEN Add(core, u) ELSE core, row)
        BY <1>5 DEF AddLinkSubmit
    <2> QED
        BY <1>1, <1>2, <2>1, AddKeeps, LinuxCallKeeps
<1> QED
    BY <1>3, <1>4, <1>5

\* Nothing was reported of the pick: the tile is given back.
LEMMA PickGaveUpKeeps ==
    ASSUME LinuxShelfInv, PickGaveUp
    PROVE  LinuxShelfInv'
<1> DEFINE r0 == [row EXCEPT !.pending = None, !.begun = FALSE]
           r == Fill(r0, list)
<1>1. r0 \in Rows /\ ~r0.begun /\ r0.shown = row.shown
    BY DEF LinuxShelfInv, Rows
<1>2. r \in Rows /\ RowOK(r, list) /\ r.shown = row.shown
    BY <1>1, FillKeeps DEF LinuxShelfInv
<1>3. row' = r /\ UNCHANGED <<core, list, lines, adding, imported, old, asked, asks, shows>>
    BY DEF PickGaveUp
<1> HIDE DEF r
<1> QED
    BY <1>2, <1>3 DEF LinuxShelfInv

\* The engine's frame.
LEMMA LinuxFrameKeeps ==
    ASSUME LinuxShelfInv, LinuxFrame
    PROVE  LinuxShelfInv'
<1>1. PICK ok \in BOOLEAN : \E c \in Answered(core, ok) : LinuxPolled(c, row)
    BY DEF LinuxFrame
<1>2. PICK c \in Answered(core, ok) : LinuxPolled(c, row)
    BY <1>1
<1>3. core.open /\ core.rs # None /\ LinksInv(core) /\ row \in Rows /\ RowOK(row, list)
    BY DEF LinuxFrame, LinuxShelfInv
<1>4. LinksInv(c) /\ Onward(core, c)
    BY <1>3, AnsweredKeeps DEF Reads
<1>5. LinuxRest'
    BY DEF LinuxFrame, LinuxRest, LinuxShelfInv
<1> QED
    BY <1>2, <1>3, <1>4, <1>5, LinuxStepKeeps

\* The page is built.
LEMMA PageBuiltKeeps ==
    ASSUME LinuxShelfInv, PageBuilt
    PROVE  LinuxShelfInv'
<1> DEFINE r0 == [NoRow EXCEPT !.shown = TRUE]
           r == Fill(r0, list)
<1>1. r0 \in Rows /\ ~r0.begun
    BY DEF NoRow, Rows
<1>2. r \in Rows /\ RowOK(r, list)
    BY <1>1, FillKeeps DEF LinuxShelfInv
<1>3. /\ row' = r /\ lines' = Lines(list) /\ shows' = shows + 1 /\ shows < MaxShows
      /\ UNCHANGED <<core, list, adding, imported, old, asked, asks>>
    BY DEF PageBuilt
<1>4. Lines(list) \in LinesOf
    BY DEF LinuxShelfInv, Lines, LinesOf, Readings
<1>5. shows' \in 0..MaxShows
    BY <1>3, LinksAre DEF LinuxShelfInv, LinksConstants
<1> HIDE DEF r
<1> QED
    BY <1>2, <1>3, <1>4, <1>5 DEF LinuxShelfInv

\* The page goes.
LEMMA PageDestroyedKeeps ==
    ASSUME LinuxShelfInv, PageDestroyed
    PROVE  LinuxShelfInv'
<1>1. /\ row' = NoRow /\ lines' = [lines EXCEPT !.due = FALSE] /\ adding' = FALSE
      /\ UNCHANGED <<core, list, imported, old, asked, asks, shows>>
    BY DEF PageDestroyed
<1>2. NoRow \in Rows /\ ~NoRow.shown
    BY DEF NoRow, Rows
<1>3. lines' \in LinesOf
    BY <1>1 DEF LinuxShelfInv, LinesOf
<1>4. RowOK(row', list')
    BY <1>1, <1>2 DEF RowOK
<1> QED
    BY <1>1, <1>2, <1>3, <1>4 DEF LinuxShelfInv

\* The lines are filled as the shell falls idle.
LEMMA RefillKeeps ==
    ASSUME LinuxShelfInv, Refill
    PROVE  LinuxShelfInv'
<1>1. lines' = Lines(list) /\ UNCHANGED <<core, list, row, adding, imported, old, asked, asks, shows>>
    BY DEF Refill
<1>2. Lines(list) \in LinesOf
    BY DEF LinuxShelfInv, Lines, LinesOf, Readings
<1> QED
    BY <1>1, <1>2 DEF LinuxShelfInv

\* The chart opens.
LEMMA ChartOpenedKeeps ==
    ASSUME LinuxShelfInv, ChartOpened
    PROVE  LinuxShelfInv'
<1> DEFINE hand == ~imported /\ old # NoLinks
           o == SetProvider(Opened(core), TRUE)
           c == IF hand THEN Import(o, old) ELSE o
<1>1. ~core.open /\ row \in Rows /\ RowOK(row, list) /\ LinksInv(core)
    BY DEF ChartOpened, LinuxShelfInv
<1>2. LinuxPolled(c, row)
    BY DEF ChartOpened
<1>3. AsOpened(core, c)
    <2>1. AsOpened(core, o)
        BY <1>1, OpenKeeps
    <2>2. CASE hand
        <3>1. ListOK(old)
            BY <2>2, ShelvesConstants DEF LinuxShelfInv, LinuxShelfConstants
        <3>2. AsOpened(core, Import(o, old))
            BY <1>1, <3>1, ImportKeeps
        <3> QED
            BY <2>2, <3>2
    <2>3. CASE ~hand
        BY <2>1, <2>3
    <2> QED
        BY <2>2, <2>3
<1>4. LinuxRest'
    <2>1. asked' \in Charts \cup {None} /\ asks' \in 0..LinuxMaxAsks
        BY DEF ChartOpened, LinuxShelfInv
    <2>2. /\ {adding, imported}' \subseteq BOOLEAN /\ old' \in {NoLinks, LinuxOldStore}
        BY DEF ChartOpened, LinuxShelfInv
    <2>3. shows' \in 0..MaxShows
        BY LinksAre DEF ChartOpened, LinuxShelfInv, LinksConstants
    <2> QED
        BY <2>1, <2>2, <2>3 DEF LinuxRest
<1> HIDE DEF c
<1> QED
    BY <1>1, <1>2, <1>3, <1>4, LinuxStepKeeps

\* The chart closes: what was read is left as it was.
LEMMA ChartClosedKeeps ==
    ASSUME LinuxShelfInv, ChartClosed
    PROVE  LinuxShelfInv'
<1> DEFINE c == Closed(core)
<1>1. /\ core.open /\ core' = c /\ asked' = None
      /\ UNCHANGED <<list, row, lines, adding, imported, old, asks, shows>>
    BY DEF ChartClosed
<1>2. LinksInv(core) /\ core.changed = FALSE /\ ReadingOK(list, core)
    BY DEF LinuxShelfInv
<1>3. LinksInv(c) /\ ~c.open /\ ~c.changed /\ c.saved.links = core.entries
    BY <1>1, <1>2, ClosedKeeps
<1> HIDE DEF c
<1>4. c.changed = FALSE
    BY <1>3 DEF LinksInv, CoreOK, LinksTypeOK, Handles
<1>5. ReadingOK(list, c)
    BY <1>3 DEF ReadingOK
<1>6. ClosedOK(list, c)
    <2> SUFFICES ASSUME c.saved.links = <<>> PROVE list.urls = <<>> /\ list.active = Own
        BY DEF ClosedOK
    <2>1. core.entries = <<>> /\ core.active = Own
        BY <1>2, <1>3, EmptyList DEF LinksInv, CoreOK, Carried
    <2> QED
        BY <1>1, <1>2, <2>1 DEF ReadingOK
<1> QED
    BY <1>1, <1>3, <1>4, <1>5, <1>6 DEF LinuxShelfInv

\* The shelf as the app starts.
LEMMA LinuxInitKeeps ==
    ASSUME LinuxInit
    PROVE  LinuxShelfInv
<1> DEFINE l == LinuxReading(NoHandle(LinuxRefused, NoLinks, {}))
<1>1. ListOK(NoLinks) /\ ListOK(LinuxDisk) /\ LinuxRefused \in SUBSET Links
    BY ShelvesConstants, LinksAre, EmptyList DEF ListOK, NoLinks, Lists, Charts, LinuxShelfConstants, LinksConstants
<1>2. LinksInv(core) /\ ~core.open /\ ~core.changed
    BY <1>1, NoHandleKeeps DEF LinuxInit
<1>3. core.changed = FALSE
    BY <1>2 DEF LinksInv, CoreOK, LinksTypeOK, Handles
<1>4. l \in Readings /\ l.urls = <<>> /\ l.active = Own
    BY EmptyList DEF LinuxReading, NoHandle, Readings, Charts
<1>5. Lines(l) \in LinesOf
    <2> HIDE DEF l
    <2> QED
        BY <1>4 DEF Lines, LinesOf, Readings
<1>6. list = l /\ row = NoRow /\ lines = Lines(l)
    BY DEF LinuxInit
<1>7. NoRow \in Rows /\ ~NoRow.shown
    BY DEF NoRow, Rows
<1> HIDE DEF l
<1>8. ReadingOK(list, core) /\ ClosedOK(list, core) /\ RowOK(row, list)
    BY <1>2, <1>4, <1>6, <1>7 DEF ReadingOK, ClosedOK, RowOK
<1>9. LinuxRest
    <2>1. asks \in 0..LinuxMaxAsks /\ shows \in 0..MaxShows
        BY ShelvesConstants, LinksAre DEF LinuxInit, LinuxShelfConstants, LinksConstants
    <2>2. {adding, imported} \subseteq BOOLEAN /\ asked = None /\ old = LinuxOldStore
        BY DEF LinuxInit
    <2> QED
        BY <2>1, <2>2 DEF LinuxRest
<1> QED
    BY <1>2, <1>3, <1>4, <1>5, <1>6, <1>7, <1>8, <1>9 DEF LinuxShelfInv, LinuxRest

\* Every step of the shell keeps the invariant.
LEMMA LinuxNextKeeps ==
    ASSUME LinuxShelfInv, LinuxNext \/ UNCHANGED linuxVars
    PROVE  LinuxShelfInv'
<1>1. CASE AddLinkAsked \/ AddLinkCancelled
    BY <1>1 DEF AddLinkAsked, AddLinkCancelled, LinuxShelfInv
<1>2. CASE UNCHANGED linuxVars
    BY <1>2 DEF linuxVars, LinuxShelfInv
<1> QED
    BY <1>1, <1>2, TileClickedKeeps, LinuxLinkAskedKeeps, PickGaveUpKeeps, LinuxFrameKeeps, RefillKeeps,
       PageBuiltKeeps, PageDestroyedKeeps, ChartOpenedKeeps, ChartClosedKeeps DEF LinuxNext

-------------------------------------------------------------------------------
(* The Windows shelf.                                                        *)

Marks == [picked : BOOLEAN, pending : Charts, picking : BOOLEAN]
Pages == [shown : BOOLEAN, sig : Seq(Links), tiles : SUBSET Links, mine : SUBSET Links,
          lit : Charts \cup {None}, reading : Charts \cup {None}, err : BOOLEAN,
          note : BOOLEAN]
Calls == [url : Charts, mine : BOOLEAN]

\* So are the tiles.
PageOK(p, c) ==
    p.shown /\ c.open /\ ~c.changed =>
        /\ p.sig = c.entries /\ p.mine = Carried(c)
        /\ c.err => p.err
        /\ c.rs # None => p.reading # None
        /\ p.reading = None => p.lit = c.drawn /\ (p.note <=> c.drawn # Own)

\* With no link on disk none is read, and lookout's own chart is the one shown.
EmptyOK(l, p, c) ==
    c.saved.links = <<>> =>
        /\ l.urls = <<>> /\ l.active = Own
        /\ p.shown => p.sig = <<>> /\ (p.reading = None => p.lit = Own /\ ~p.note)

\* The mark stands for the call that is queued.
CallOK(m, k) == (m.picking <=> k # None) /\ (k # None => m.picked /\ m.pending = k.url)

\* The invariant of the shelf.
WinShelfInv ==
    /\ LinksInv(winCore)
    /\ links \in Readings /\ mark \in Marks /\ tilesPage \in Pages /\ call \in Calls \cup {None}
    /\ ReadingOK(links, winCore) /\ PageOK(tilesPage, winCore) /\ EmptyOK(links, tilesPage, winCore)
    /\ tilesPage.shown => tilesPage.mine = ToSet(tilesPage.sig)
    /\ CallOK(mark, call)
    /\ winImported \in BOOLEAN /\ winAsked \in Charts \cup {None}
    /\ dialog \in {"none", "add", "file"} /\ winOld \in {NoLinks, WinOldStore}
    /\ winAsks \in 0..WinMaxAsks /\ winShows \in 0..MaxShows

\* It is what is checked of the shelf.
LEMMA WinShelfInvIsEnough ==
    ASSUME WinShelfInv
    PROVE  WinTypeOK /\ WinShelfIsTrue
<1>1. LinksTypeOK(winCore) /\ PickIsDrawn(winCore) /\ ListIsSaved(winCore) /\ NoTextLeft(winCore)
    BY LinksInvIsEnough DEF WinShelfInv
<1>2. WinTypeOK
    BY <1>1 DEF WinShelfInv, WinTypeOK, Readings, Marks, Pages, Calls
<1>3. MarkIsOfTheCall
    BY DEF WinShelfInv, MarkIsOfTheCall, CallOK
<1>4. WinShelfIsCurrent
    BY DEF WinShelfInv, WinShelfIsCurrent, PageOK
<1> QED
    BY <1>1, <1>2, <1>3, <1>4 DEF WinShelfIsTrue

\* What is read of the links.
LEMMA WinReadingParts ==
    ASSUME NEW c, LinksInv(c)
    PROVE  LET l == WinReading(c)
           IN  /\ l \in Readings /\ l.urls = c.entries /\ l.active = c.active /\ l.err = c.err
               /\ l.busy = (c.rs # None)
<1>1. c \in Handles
    BY DEF LinksInv, CoreOK, LinksTypeOK
<1> QED
    BY <1>1 DEF WinReading, Readings, Handles

\* What is drawn when the shell has read what is picked.
LEMMA DrawnIsPicked ==
    ASSUME NEW c, LinksInv(c), c.open, c.rs = None, c.drawn # Own
    PROVE  c.drawn = c.active
BY LinksInvIsEnough DEF LinksInv, CoreOK, PickIsDrawn

\* The tiles are lettered from what was read.
LEMMA LetteredKeeps ==
    ASSUME NEW p \in Pages, NEW c, LinksInv(c), NEW l \in Readings, NEW m \in Marks,
           NEW q, q = RefreshInPlace(p, c, l, m)
    PROVE  /\ q \in Pages /\ q.shown = p.shown /\ q.sig = p.sig /\ q.mine = p.mine
           /\ q.tiles = p.tiles
           /\ ReadingOK(l, c) /\ (p.shown => p.mine = ToSet(p.sig) /\ p.sig = l.urls) => PageOK(q, c)
           /\ ReadingOK(l, c) /\ p.shown /\ c.open /\ ~c.changed /\ PageOK(p, c) => PageOK(q, c)
           /\ c.saved.links = <<>> => (q.reading = None => q.lit = Own /\ ~q.note)
<1> DEFINE reading == m.picked \/ l.busy
           picked == IF m.picked THEN m.pending ELSE l.active
           r == IF reading THEN picked ELSE None
           lit == IF reading THEN picked ELSE ActiveChartUrl(c, l)
<1>1. /\ picked \in Charts /\ picked # None /\ ActiveChartUrl(c, l) \in Charts
      /\ reading \in BOOLEAN /\ l.err \in BOOLEAN
    BY LinksAre DEF Marks, Readings, LinksConstants, ActiveChartUrl, Charts
<1>2. q = [p EXCEPT !.reading = r, !.lit = lit, !.err = l.err, !.note = (c.drawn # Own)]
    BY DEF RefreshInPlace, AltStyleActive
<1>3. /\ r \in Charts \cup {None} /\ lit \in Charts \cup {None} /\ (r = None <=> ~reading)
      /\ r = None => lit = IF c.drawn # Own THEN l.active ELSE Own
    BY <1>1 DEF ActiveChartUrl, AltStyleActive
<1>4. l.busy => reading
    OBVIOUS
<1> HIDE DEF reading, picked, r, lit
<1>5. q \in Pages
    BY <1>1, <1>2, <1>3 DEF Pages
<1>6. /\ q.shown = p.shown /\ q.sig = p.sig /\ q.mine = p.mine /\ q.tiles = p.tiles
      /\ q.reading = r /\ q.lit = lit /\ q.err = l.err /\ q.note = (c.drawn # Own)
    BY <1>2 DEF Pages
<1>7. ASSUME ReadingOK(l, c), p.shown => p.sig = c.entries /\ p.mine = Carried(c)
      PROVE  PageOK(q, c)
    <2> SUFFICES ASSUME q.shown, c.open, ~c.changed
                 PROVE  /\ q.sig = c.entries /\ q.mine = Carried(c)
                        /\ c.err => q.err
                        /\ c.rs # None => q.reading # None
                        /\ q.reading = None => q.lit = c.drawn /\ (q.note <=> c.drawn # Own)
        BY DEF PageOK
    <2>1. c.err => q.err
        BY <1>6, <1>7 DEF ReadingOK
    <2>2. c.rs # None => q.reading # None
        BY <1>3, <1>4, <1>6, <1>7 DEF ReadingOK
    <2>3. ASSUME q.reading = None PROVE q.lit = c.drawn /\ (q.note <=> c.drawn # Own)
        <3>1. c.rs = None /\ l.active = c.active
            BY <2>2, <2>3, <1>7 DEF ReadingOK
        <3> QED
            BY <1>3, <1>6, <2>3, <3>1, DrawnIsPicked
    <2> QED
        BY <1>6, <1>7, <2>1, <2>2, <2>3
<1>8. ASSUME ReadingOK(l, c), p.shown => p.mine = ToSet(p.sig) /\ p.sig = l.urls
      PROVE  PageOK(q, c)
    <2>1. CASE c.open /\ ~c.changed
        <3>1. p.shown => p.sig = c.entries /\ p.mine = Carried(c)
            BY <1>8, <2>1 DEF ReadingOK, Carried
        <3> QED
            BY <1>7, <1>8, <3>1
    <2>2. CASE ~(c.open /\ ~c.changed)
        BY <2>2 DEF PageOK
    <2> QED
        BY <2>1, <2>2
<1>9. ASSUME ReadingOK(l, c), p.shown, c.open, ~c.changed, PageOK(p, c)
      PROVE  PageOK(q, c)
    <2>1. p.sig = c.entries /\ p.mine = Carried(c)
        BY <1>9 DEF PageOK
    <2> QED
        BY <1>7, <1>9, <2>1
<1>10. ASSUME c.saved.links = <<>>, q.reading = None
       PROVE  q.lit = Own /\ ~q.note
    <2>1. c.drawn = Own
        BY <1>10, EmptyList DEF LinksInv, CoreOK, NoHandle, Carried
    <2> QED
        BY <1>3, <1>6, <1>10, <2>1
<1> QED
    BY <1>5, <1>6, <1>8, <1>9, <1>10

\* The tiles are built from what was read.
LEMMA BuildKeeps ==
    ASSUME NEW p \in Pages, NEW c, LinksInv(c), NEW l \in Readings, NEW m \in Marks,
           NEW q, q = Build(p, c, l, m), ReadingOK(l, c)
    PROVE  /\ q \in Pages /\ q.shown /\ q.sig = l.urls /\ q.mine = ToSet(q.sig) /\ PageOK(q, c)
           /\ c.saved.links = <<>> => (q.reading = None => q.lit = Own /\ ~q.note)
<1> DEFINE n == [p EXCEPT !.shown = TRUE, !.sig = l.urls, !.mine = ToSet(l.urls),
                          !.tiles = Catalog \cup ToSet(l.urls)]
<1>1. ToSet(l.urls) \in SUBSET Links /\ Catalog \cup ToSet(l.urls) \in SUBSET Links
    <2>1. ToSet(l.urls) \subseteq Links
        BY ListParts DEF Readings
    <2> QED
        BY <2>1, LinksAre DEF LinksConstants
<1>2. n \in Pages
    BY <1>1 DEF Pages, Readings
<1>3. n.shown /\ n.sig = l.urls /\ n.mine = ToSet(n.sig)
    BY DEF Pages
<1>4. q = RefreshInPlace(n, c, l, m)
    BY DEF Build
<1> HIDE DEF n
<1> QED
    BY <1>2, <1>3, <1>4, LetteredKeeps

\* After a reading the tiles are built again if the list is another one, and lettered in
\* place if it is not.
LEMMA ShownKeeps ==
    ASSUME NEW p \in Pages, NEW c, LinksInv(c), NEW l \in Readings, NEW m \in Marks,
           NEW q, q = RefreshOnChange(p, c, l, m), ReadingOK(l, c),
           p.shown => p.mine = ToSet(p.sig)
    PROVE  /\ q \in Pages /\ (q.shown => q.sig = l.urls /\ q.mine = ToSet(q.sig)) /\ PageOK(q, c)
           /\ c.saved.links = <<>> /\ q.shown => (q.reading = None => q.lit = Own /\ ~q.note)
<1>1. CASE ~p.shown
    BY <1>1 DEF RefreshOnChange, PageOK
<1>2. CASE p.shown /\ p.sig # l.urls
    BY <1>2, BuildKeeps DEF RefreshOnChange
<1>3. CASE p.shown /\ p.sig = l.urls
    <2>1. q = RefreshInPlace(p, c, l, m)
        BY <1>3 DEF RefreshOnChange
    <2> QED
        BY <1>3, <2>1, LetteredKeeps
<1> QED
    BY <1>1, <1>2, <1>3

\* What a call to the links ends with, and what the tick does: a change is read, and shown.
LEMMA WinPolledKeeps ==
    ASSUME WinShelfInv, NEW c, LinksInv(c), NEW m \in Marks, NEW k, CallOK(m, k),
           ReadingOK(links, c), PageOK(tilesPage, c),
           EmptyOK(links, tilesPage, c) \/ (c.open /\ c.changed), WinPolled(c, m)
    PROVE  /\ LinksInv(winCore')
           /\ links' \in Readings /\ mark' \in Marks /\ tilesPage' \in Pages
           /\ ReadingOK(links', winCore') /\ PageOK(tilesPage', winCore') /\ EmptyOK(links', tilesPage', winCore')
           /\ tilesPage'.shown => tilesPage'.mine = ToSet(tilesPage'.sig)
           /\ CallOK(mark', k)
<1>1. CASE c.open /\ c.changed
    <2> DEFINE l == WinReading(c)
               d == [c EXCEPT !.changed = FALSE]
               n == IF m.picking \/ l.busy THEN m ELSE NoMark
               q == RefreshOnChange(tilesPage, d, l, n)
    <2>1. winCore' = d /\ links' = l /\ mark' = n /\ tilesPage' = q
        BY <1>1 DEF WinPolled
    <2>2. /\ l \in Readings /\ l.urls = c.entries /\ l.active = c.active /\ l.err = c.err
          /\ l.busy = (c.rs # None)
        BY WinReadingParts
    <2>3. d = [c EXCEPT !.changed = FALSE]
        OBVIOUS
    <2> HIDE DEF l, d
    <2>4. /\ LinksInv(d) /\ d.open /\ d.changed = FALSE /\ d.entries = c.entries
          /\ d.active = c.active /\ d.rs = c.rs /\ d.err = c.err
        BY <1>1, <2>3, SeenKeeps
    <2>5. ReadingOK(l, d)
        BY <2>2, <2>4 DEF ReadingOK
    <2>6. n \in Marks /\ CallOK(n, k)
        BY DEF CallOK, NoMark, Marks, Charts
    <2> HIDE DEF n
    <2>7. tilesPage \in Pages /\ (tilesPage.shown => tilesPage.mine = ToSet(tilesPage.sig))
        BY DEF WinShelfInv
    <2>8. q = RefreshOnChange(tilesPage, d, l, n)
        OBVIOUS
    <2> HIDE DEF q
    <2>9. /\ q \in Pages /\ (q.shown => q.sig = l.urls /\ q.mine = ToSet(q.sig)) /\ PageOK(q, d)
          /\ d.saved.links = <<>> /\ q.shown => (q.reading = None => q.lit = Own /\ ~q.note)
        BY <2>2, <2>4, <2>5, <2>6, <2>7, <2>8, ShownKeeps
    <2>10. EmptyOK(l, q, d)
        <3> SUFFICES ASSUME d.saved.links = <<>>
                     PROVE  /\ l.urls = <<>> /\ l.active = Own
                            /\ q.shown => q.sig = <<>> /\ (q.reading = None => q.lit = Own /\ ~q.note)
            BY DEF EmptyOK
        <3>1. d.entries = <<>> /\ d.active = Own
            BY <2>4, EmptyList DEF LinksInv, CoreOK, Carried
        <3> QED
            BY <2>2, <2>4, <2>9, <3>1
    <2> QED
        BY <2>1, <2>2, <2>4, <2>5, <2>6, <2>9, <2>10
<1>2. CASE ~(c.open /\ c.changed)
    <2>1. winCore' = c /\ mark' = m /\ links' = links /\ tilesPage' = tilesPage
        BY <1>2 DEF WinPolled
    <2> QED
        BY <1>2, <2>1 DEF WinShelfInv
<1> QED
    BY <1>1, <1>2

\* The rest of the shell, which no call to the links changes.
WinRest ==
    /\ winImported \in BOOLEAN /\ winAsked \in Charts \cup {None} /\ call \in Calls \cup {None}
    /\ dialog \in {"none", "add", "file"} /\ winOld \in {NoLinks, WinOldStore}
    /\ winAsks \in 0..WinMaxAsks /\ winShows \in 0..MaxShows

\* A step that a change does not report leaves the reading and the tiles true.
LEMMA OnwardKeeps ==
    ASSUME NEW l, NEW p, NEW c, NEW d, LinksInv(c), LinksInv(d), ReadingOK(l, c), PageOK(p, c),
           c.open, Onward(c, d)
    PROVE  ReadingOK(l, d) /\ PageOK(p, d)
BY DEF Onward, ReadingOK, PageOK, Carried

\* A call that is made to the links ends in a poll.
LEMMA WinStepKeeps ==
    ASSUME WinShelfInv, NEW c, NEW m \in Marks, CallOK(m, call'), WinPolled(c, m), WinRest',
           \/ winCore.open /\ LinksInv(c) /\ Onward(winCore, c)
           \/ ~winCore.open /\ c = winCore
           \/ ~winCore.open /\ AsOpened(winCore, c)
    PROVE  WinShelfInv'
<1>1. LinksInv(c)
    BY DEF WinShelfInv, AsOpened, Onward
<1>2. ReadingOK(links, c) /\ PageOK(tilesPage, c) /\ (EmptyOK(links, tilesPage, c) \/ (c.open /\ c.changed))
    <2>1. CASE winCore.open /\ LinksInv(c) /\ Onward(winCore, c)
        <3>1. ReadingOK(links, c) /\ PageOK(tilesPage, c)
            BY <2>1, OnwardKeeps DEF WinShelfInv
        <3>2. EmptyOK(links, tilesPage, c) \/ (c.open /\ c.changed)
            <4>1. c.changed \/ c.saved.links = winCore.saved.links
                BY <2>1 DEF WinShelfInv, Onward, LinksInv, CoreOK
            <4> QED
                BY <2>1, <4>1 DEF WinShelfInv, Onward, EmptyOK
        <3> QED
            BY <3>1, <3>2
    <2>2. CASE ~winCore.open /\ c = winCore
        BY <2>2 DEF WinShelfInv
    <2>3. CASE ~winCore.open /\ AsOpened(winCore, c)
        <3>1. CASE c.changed
            BY <2>3, <3>1 DEF AsOpened, ReadingOK, PageOK
        <3>2. CASE ~c.changed
            <4>1. /\ winCore.saved.links = <<>> /\ c.entries = <<>> /\ c.active = Own
                  /\ c.drawn = Own /\ c.rs = None /\ ~c.err /\ c.open
                BY <2>3, <3>2 DEF AsOpened
            <4>2. EmptyOK(links, tilesPage, winCore)
                BY DEF WinShelfInv
            <4>3. EmptyOK(links, tilesPage, c)
                BY <4>1, <4>2 DEF EmptyOK
            <4>4. ReadingOK(links, c)
                BY <4>1, <4>2 DEF EmptyOK, ReadingOK
            <4>5. PageOK(tilesPage, c)
                <5>1. tilesPage.shown => tilesPage.mine = ToSet(tilesPage.sig)
                    BY DEF WinShelfInv
                <5> QED
                    BY <4>1, <4>2, <5>1 DEF EmptyOK, PageOK, Carried
            <4> QED
                BY <4>3, <4>4, <4>5
        <3> QED
            BY <3>1, <3>2
    <2> QED
        BY <2>1, <2>2, <2>3
<1>3. /\ LinksInv(winCore')
      /\ links' \in Readings /\ mark' \in Marks /\ tilesPage' \in Pages
      /\ ReadingOK(links', winCore') /\ PageOK(tilesPage', winCore') /\ EmptyOK(links', tilesPage', winCore')
      /\ tilesPage'.shown => tilesPage'.mine = ToSet(tilesPage'.sig)
      /\ CallOK(mark', call')
    BY <1>1, <1>2, WinPolledKeeps
<1> QED
    BY <1>3 DEF WinShelfInv, WinRest

\* A call of the shell's: what the links are after it.
LEMMA WinCallKeeps ==
    ASSUME WinShelfInv, NEW c, NEW m \in Marks, CallOK(m, call'),
           WinPolled(IF winCore.open THEN c ELSE winCore, m), WinRest',
           winCore.open => LinksInv(c) /\ Onward(winCore, c)
    PROVE  WinShelfInv'
<1>1. CASE winCore.open
    <2>1. LinksInv(c) /\ Onward(winCore, c) /\ WinPolled(c, m)
        BY <1>1
    <2> QED
        BY <1>1, <2>1, WinStepKeeps
<1>2. CASE ~winCore.open
    <2>1. WinPolled(winCore, m)
        BY <1>2
    <2> QED
        BY <1>2, <2>1, WinStepKeeps
<1> QED
    BY <1>1, <1>2

\* A tile is tapped: it is marked, and the call is queued.
LEMMA PickChartTileKeeps ==
    ASSUME WinShelfInv, NEW u \in Charts, PickChartTile(u)
    PROVE  WinShelfInv'
<1> DEFINE m == [picked |-> TRUE, pending |-> u, picking |-> TRUE]
           k == [url |-> u, mine |-> u \in tilesPage.mine]
<1>1. /\ mark' = m /\ call' = k /\ tilesPage' = RefreshInPlace(tilesPage, winCore, links, m)
      /\ winAsked' = None /\ winAsks < WinMaxAsks /\ winAsks' = winAsks + 1 /\ tilesPage.shown
      /\ UNCHANGED <<winCore, links, dialog, winImported, winOld, winShows>>
    BY DEF PickChartTile, WinMayAsk, AtPage
<1>2. m \in Marks /\ k \in Calls /\ k # None /\ CallOK(m, k)
    <2>0. k \in Calls
        BY DEF Calls
    <2>1. k # None
        BY <2>0, ShelvesConstants DEF Calls, WinShelfConstants
    <2> QED
        BY <2>1 DEF Marks, Calls, CallOK
<1> HIDE DEF m, k
<1>3. /\ tilesPage \in Pages /\ links \in Readings /\ LinksInv(winCore) /\ ReadingOK(links, winCore)
      /\ PageOK(tilesPage, winCore) /\ EmptyOK(links, tilesPage, winCore) /\ tilesPage.mine = ToSet(tilesPage.sig)
    BY <1>1 DEF WinShelfInv
<1>4. /\ tilesPage' \in Pages /\ tilesPage'.shown = tilesPage.shown /\ tilesPage'.sig = tilesPage.sig
      /\ tilesPage'.mine = tilesPage.mine
      /\ winCore.open /\ ~winCore.changed => PageOK(tilesPage', winCore)
      /\ winCore.saved.links = <<>> => (tilesPage'.reading = None => tilesPage'.lit = Own /\ ~tilesPage'.note)
    <2> DEFINE q == tilesPage'
    <2>1. q = RefreshInPlace(tilesPage, winCore, links, m)
        BY <1>1
    <2> HIDE DEF q
    <2>2. tilesPage.shown /\ m \in Marks /\ q.shown = q.shown
        BY <1>1, <1>2
    <2>3. /\ q \in Pages /\ q.shown = tilesPage.shown /\ q.sig = tilesPage.sig /\ q.mine = tilesPage.mine
        <3>1. tilesPage \in Pages /\ links \in Readings /\ LinksInv(winCore) /\ m \in Marks
            BY <1>3, <2>2
        <3> QED
            BY <2>1, <3>1, LetteredKeeps
    <2>4. winCore.open /\ ~winCore.changed => PageOK(q, winCore)
        BY <1>3, <2>1, <2>2, LetteredKeeps
    <2>5. winCore.saved.links = <<>> => (q.reading = None => q.lit = Own /\ ~q.note)
        BY <1>3, <2>1, <2>2, LetteredKeeps
    <2> QED
        BY <2>3, <2>4, <2>5 DEF q
<1>5. PageOK(tilesPage', winCore)
    BY <1>4 DEF PageOK
<1>6. EmptyOK(links, tilesPage', winCore)
    BY <1>3, <1>4 DEF EmptyOK
<1>7. winAsks' \in 0..WinMaxAsks
    BY <1>1, ShelvesConstants DEF WinShelfInv, WinShelfConstants
<1> QED
    BY <1>1, <1>2, <1>3, <1>4, <1>5, <1>6, <1>7 DEF WinShelfInv

\* The call goes out.
LEMMA PickGoesOutKeeps ==
    ASSUME WinShelfInv, PickGoesOut
    PROVE  WinShelfInv'
<1> DEFINE u == call.url
           m == [mark EXCEPT !.picking = FALSE]
           c == IF u = Own \/ call.mine THEN Select(winCore, u) ELSE Add(winCore, u)
<1>1. WinPolled(IF winCore.open THEN c ELSE winCore, m)
    <2>1. (IF ~winCore.open THEN winCore
           ELSE IF u = Own \/ call.mine THEN Select(winCore, u) ELSE Add(winCore, u))
              = IF winCore.open THEN c ELSE winCore
        OBVIOUS
    <2> QED
        BY <2>1 DEF PickGoesOut
<1>2. call # None /\ call' = None /\ call \in Calls /\ u \in Charts
    BY DEF PickGoesOut, WinShelfInv, Calls
<1>3. m \in Marks /\ CallOK(m, call')
    BY <1>2 DEF WinShelfInv, Marks, CallOK
<1>4. WinRest'
    <2>1. winAsked' \in Charts \cup {None} /\ winAsks' \in 0..WinMaxAsks
        BY <1>2 DEF PickGoesOut, WinShelfInv
    <2>2. /\ winImported' \in BOOLEAN /\ dialog' \in {"none", "add", "file"}
          /\ winOld' \in {NoLinks, WinOldStore} /\ winShows' \in 0..MaxShows
        BY DEF PickGoesOut, WinShelfInv
    <2> QED
        BY <1>2, <2>1, <2>2 DEF WinRest
<1>5. winCore.open => LinksInv(c) /\ Onward(winCore, c)
    <2>1. LinksInv(winCore) /\ CoreOK(winCore)
        BY DEF WinShelfInv, LinksInv
    <2> QED
        BY <1>2, <2>1, SelectKeeps, AddKeeps DEF Charts
<1> HIDE DEF m, c
<1> QED
    BY <1>1, <1>3, <1>4, <1>5, WinCallKeeps

\* A call on a link of the mariner's own, or one that is given.
LEMMA WinLinkAskedKeeps ==
    ASSUME WinShelfInv, NEW u \in Links,
           RefreshChartLink(u) \/ RemoveChartLink(u) \/ AddChartLink(u)
    PROVE  WinShelfInv'
<1>1. mark \in Marks /\ CallOK(mark, call) /\ LinksInv(winCore)
    BY DEF WinShelfInv
<1>2. WinRest' /\ call' = call
    <2>1. winAsked' \in Charts \cup {None} /\ winAsks' \in 0..WinMaxAsks
        BY ShelvesConstants DEF RefreshChartLink, RemoveChartLink, AddChartLink, WinMayAsk, WinShelfInv, WinShelfConstants
    <2>2. dialog' \in {"none", "add", "file"}
        BY DEF RefreshChartLink, RemoveChartLink, AddChartLink, WinShelfInv
    <2>3. call' = call /\ winImported' = winImported /\ winOld' = winOld /\ winShows' = winShows
        BY DEF RefreshChartLink, RemoveChartLink, AddChartLink
    <2> QED
        BY <2>1, <2>2, <2>3 DEF WinRest, WinShelfInv
<1>3. CASE RefreshChartLink(u)
    <2>1. WinPolled(IF winCore.open THEN Refresh(winCore, u) ELSE winCore, mark)
        BY <1>3 DEF RefreshChartLink
    <2> QED
        BY <1>1, <1>2, <2>1, RefreshKeeps, WinCallKeeps
<1>4. CASE RemoveChartLink(u)
    <2>1. WinPolled(IF winCore.open THEN RemoveLink(winCore, u) ELSE winCore, mark)
        BY <1>4 DEF RemoveChartLink
    <2> QED
        BY <1>1, <1>2, <2>1, RemoveLinkKeeps, WinCallKeeps
<1>5. CASE AddChartLink(u)
    <2>1. WinPolled(IF winCore.open THEN Add(winCore, u) ELSE winCore, mark)
        BY <1>5 DEF AddChartLink
    <2> QED
        BY <1>1, <1>2, <2>1, AddKeeps, WinCallKeeps
<1> QED
    BY <1>3, <1>4, <1>5

\* The engine's frame: what it changed is not read yet.
LEMMA WinFrameKeeps ==
    ASSUME WinShelfInv, WinFrame
    PROVE  WinShelfInv'
<1>1. PICK ok \in BOOLEAN : winCore' \in Answered(winCore, ok)
    BY DEF WinFrame
<1>2. winCore.open /\ winCore.rs # None /\ LinksInv(winCore)
    BY DEF WinFrame, WinShelfInv
<1>3. LinksInv(winCore') /\ Reads(winCore, winCore')
    BY <1>1, <1>2, AnsweredKeeps
<1>4. Onward(winCore, winCore') /\ winCore'.open /\ (winCore.entries # <<>> => winCore'.entries # <<>>)
    BY <1>3 DEF Reads, Onward
<1>5. UNCHANGED <<links, mark, call, tilesPage, dialog, winImported, winOld, winAsked, winAsks, winShows>>
    BY DEF WinFrame
<1>6. ReadingOK(links, winCore') /\ PageOK(tilesPage, winCore')
    BY <1>2, <1>3, <1>4, OnwardKeeps DEF WinShelfInv
<1>7. EmptyOK(links, tilesPage, winCore')
    <2> SUFFICES ASSUME winCore'.saved.links = <<>> PROVE winCore.saved.links = <<>>
        BY DEF EmptyOK, WinShelfInv
    <2>1. winCore'.saved.links = winCore'.entries /\ winCore.saved.links = winCore.entries
        BY <1>2, <1>3, <1>4 DEF LinksInv, CoreOK
    <2> QED
        BY <1>4, <2>1
<1> QED
    BY <1>3, <1>5, <1>6, <1>7 DEF WinShelfInv

\* The readout tick.
LEMMA TickKeeps ==
    ASSUME WinShelfInv, PollChartLinks
    PROVE  WinShelfInv'
<1>1. /\ mark \in Marks /\ CallOK(mark, call) /\ WinPolled(winCore, mark) /\ winCore.open
      /\ call' = call
    BY DEF WinShelfInv, PollChartLinks
<1>2. WinRest'
    BY DEF PollChartLinks, WinRest, WinShelfInv
<1>3. LinksInv(winCore) /\ Onward(winCore, winCore)
    BY <1>1 DEF WinShelfInv, Onward
<1> QED
    BY <1>1, <1>2, <1>3, WinStepKeeps

\* The page is built.
LEMMA PageShownKeeps ==
    ASSUME WinShelfInv, PageShown
    PROVE  WinShelfInv'
<1>1. /\ tilesPage' = Build(tilesPage, winCore, links, mark) /\ winShows' = winShows + 1 /\ winShows < MaxShows
      /\ UNCHANGED <<winCore, links, mark, call, dialog, winImported, winOld, winAsked, winAsks>>
    BY DEF PageShown
<1>2. /\ tilesPage \in Pages /\ links \in Readings /\ mark \in Marks /\ LinksInv(winCore)
      /\ ReadingOK(links, winCore) /\ EmptyOK(links, tilesPage, winCore)
    BY DEF WinShelfInv
<1>3. /\ tilesPage' \in Pages /\ tilesPage'.shown /\ tilesPage'.sig = links.urls /\ tilesPage'.mine = ToSet(tilesPage'.sig)
      /\ PageOK(tilesPage', winCore)
      /\ winCore.saved.links = <<>> => (tilesPage'.reading = None => tilesPage'.lit = Own /\ ~tilesPage'.note)
    BY <1>1, <1>2, BuildKeeps
<1>4. EmptyOK(links, tilesPage', winCore)
    BY <1>2, <1>3 DEF EmptyOK
<1>5. winShows' \in 0..MaxShows
    BY <1>1, LinksAre DEF WinShelfInv, LinksConstants
<1> QED
    BY <1>1, <1>3, <1>4, <1>5 DEF WinShelfInv

\* The page goes.
LEMMA PageGoneKeeps ==
    ASSUME WinShelfInv, PageGone
    PROVE  WinShelfInv'
<1>1. /\ tilesPage' = NoPage
      /\ UNCHANGED <<winCore, links, mark, call, dialog, winImported, winOld, winAsked, winAsks, winShows>>
    BY DEF PageGone
<1>2. NoPage \in Pages /\ ~NoPage.shown
    BY EmptyList DEF NoPage, Pages
<1>3. PageOK(tilesPage', winCore) /\ EmptyOK(links, tilesPage', winCore)
    BY <1>1, <1>2 DEF WinShelfInv, PageOK, EmptyOK
<1> QED
    BY <1>1, <1>2, <1>3 DEF WinShelfInv

\* The chart opens.
LEMMA AttachKeeps ==
    ASSUME WinShelfInv, ChartLinksAttach
    PROVE  WinShelfInv'
<1> DEFINE hand == ~winImported /\ winOld # NoLinks
           o == SetProvider(Opened(winCore), TRUE)
           c == IF hand THEN Import(o, winOld) ELSE o
<1>1. ~winCore.open /\ mark \in Marks /\ CallOK(mark, call) /\ LinksInv(winCore) /\ call' = call
    BY DEF ChartLinksAttach, WinShelfInv
<1>2. WinPolled(c, mark)
    BY DEF ChartLinksAttach
<1>3. AsOpened(winCore, c)
    <2>1. AsOpened(winCore, o)
        BY <1>1, OpenKeeps
    <2>2. CASE hand
        <3>1. ListOK(winOld)
            BY <2>2, ShelvesConstants DEF WinShelfInv, WinShelfConstants
        <3>2. AsOpened(winCore, Import(o, winOld))
            BY <1>1, <3>1, ImportKeeps
        <3> QED
            BY <2>2, <3>2
    <2>3. CASE ~hand
        BY <2>1, <2>3
    <2> QED
        BY <2>2, <2>3
<1>4. WinRest'
    <2>1. winAsked' \in Charts \cup {None} /\ winAsks' \in 0..WinMaxAsks
        BY DEF ChartLinksAttach, WinShelfInv
    <2>2. /\ winImported' \in BOOLEAN /\ winOld' \in {NoLinks, WinOldStore}
          /\ dialog' \in {"none", "add", "file"} /\ call' \in Calls \cup {None}
        BY DEF ChartLinksAttach, WinShelfInv
    <2>3. winShows' \in 0..MaxShows
        BY LinksAre DEF ChartLinksAttach, WinShelfInv, LinksConstants
    <2> QED
        BY <2>1, <2>2, <2>3 DEF WinRest
<1> HIDE DEF c
<1> QED
    BY <1>1, <1>2, <1>3, <1>4, WinStepKeeps

\* The chart closes: what was read is left as it was.
LEMMA DetachKeeps ==
    ASSUME WinShelfInv, ChartLinksDetach
    PROVE  WinShelfInv'
<1> DEFINE c == Closed(winCore)
<1>1. LinksInv(winCore) /\ ReadingOK(links, winCore) /\ EmptyOK(links, tilesPage, winCore)
    BY DEF WinShelfInv
<1>2. /\ LinksInv(c) /\ ~c.open /\ Closed(SetProvider(winCore, FALSE)) = c
      /\ winCore.open => c.saved.links = winCore.entries
    BY <1>1, ClosedKeeps
<1>3. /\ winCore.open /\ winCore' = c /\ winAsked' = None
      /\ UNCHANGED <<links, mark, call, tilesPage, dialog, winImported, winOld, winAsks, winShows>>
    BY <1>2 DEF ChartLinksDetach
<1>4. c.saved.links = winCore.saved.links
    BY DEF Closed, NoHandle
<1> HIDE DEF c
<1>5. ReadingOK(links, c) /\ PageOK(tilesPage, c)
    BY <1>2 DEF ReadingOK, PageOK
<1>6. EmptyOK(links, tilesPage, c)
    BY <1>1, <1>4 DEF EmptyOK
<1> QED
    BY <1>2, <1>3, <1>5, <1>6 DEF WinShelfInv

\* The shelf as the app starts.
LEMMA WinInitKeeps ==
    ASSUME WinInit
    PROVE  WinShelfInv
<1> DEFINE l == WinReading(NoHandle(WinRefused, NoLinks, {}))
<1>1. ListOK(NoLinks) /\ ListOK(WinDisk) /\ WinRefused \in SUBSET Links
    BY ShelvesConstants, LinksAre, EmptyList DEF ListOK, NoLinks, Lists, Charts, WinShelfConstants, LinksConstants
<1>2. LinksInv(winCore) /\ ~winCore.open
    BY <1>1, NoHandleKeeps DEF WinInit
<1>4. l \in Readings /\ l.urls = <<>> /\ l.active = Own
    BY EmptyList DEF WinReading, NoHandle, Readings, Charts
<1>5. links = l /\ tilesPage = NoPage /\ mark = NoMark /\ call = None
    BY DEF WinInit
<1>6. NoPage \in Pages /\ ~NoPage.shown /\ NoMark \in Marks /\ CallOK(NoMark, None)
    BY EmptyList DEF NoPage, Pages, NoMark, Marks, CallOK, Charts
<1> HIDE DEF l
<1>7. ReadingOK(links, winCore) /\ PageOK(tilesPage, winCore) /\ EmptyOK(links, tilesPage, winCore)
    BY <1>2, <1>4, <1>5, <1>6 DEF ReadingOK, PageOK, EmptyOK
<1>8. WinRest
    <2>1. winAsks \in 0..WinMaxAsks /\ winShows \in 0..MaxShows
        BY ShelvesConstants, LinksAre DEF WinInit, WinShelfConstants, LinksConstants
    <2>2. /\ winImported \in BOOLEAN /\ winAsked = None /\ winOld = WinOldStore /\ dialog = "none"
          /\ call = None
        BY DEF WinInit
    <2> QED
        BY <2>1, <2>2 DEF WinRest
<1> QED
    BY <1>2, <1>4, <1>5, <1>6, <1>7, <1>8 DEF WinShelfInv, WinRest

\* Every step of the shell keeps the invariant.
LEMMA WinNextKeeps ==
    ASSUME WinShelfInv, WinNext \/ UNCHANGED winVars
    PROVE  WinShelfInv'
<1>1. CASE ShowAddChartDialog \/ PickChartStyleFile \/ DialogCancelled
    BY <1>1 DEF ShowAddChartDialog, PickChartStyleFile, DialogCancelled, WinShelfInv
<1>2. CASE UNCHANGED winVars
    BY <1>2 DEF winVars, WinShelfInv
<1> QED
    BY <1>1, <1>2, PickChartTileKeeps, PickGoesOutKeeps, WinLinkAskedKeeps, WinFrameKeeps, TickKeeps,
       PageShownKeeps, PageGoneKeeps, AttachKeeps, DetachKeeps DEF WinNext

-------------------------------------------------------------------------------
(* The lists of the Linux page.                                              *)

\* Some of the sets, each on or off.
SomeSets == UNION {[D -> BOOLEAN] : D \in SUBSET Sets}

LinuxPageType ==
    [shown : BOOLEAN, rows : SomeSets, update : {"none", "on", "off"},
     panels : SUBSET {"noaa", "bake", "gone"}]

\* Each deletion was asked for by a move of its own, and so will the one be that is asked
\* about.
DeletionsAreMoves == trash + (IF asking = LP!NoSet THEN 0 ELSE 1) <= moves

\* The inductive invariant.
LinuxPageInv ==
    /\ sets \in SomeSets /\ noaa \in LP!NoaaStates
    /\ baking \in BOOLEAN /\ removing \in BOOLEAN /\ cadence \in {"never", "daily"}
    /\ trash \in Nat /\ page \in LinuxPageType /\ due \in [sets : BOOLEAN, work : BOOLEAN]
    /\ asking \in Sets \cup {LP!NoSet}
    /\ opens \in 0..MaxOpens /\ moves \in 0..MaxMoves /\ steps \in 0..LinuxSteps
    /\ DeletionsAreMoves /\ LP!PageIsTrue

\* It holds what the run checks of the Linux page.
LEMMA LinuxPageInvIsEnough == LinuxPageInv => LP!TypeOK /\ LP!PageIsTrue
BY PagesBounds DEF LinuxPageInv, SomeSets, LinuxPageType, DeletionsAreMoves, LP!TypeOK, LP!PartOf

\* No set is some of the sets.
LEMMA NoneIsSome == <<>> \in SomeSets
<1>1. <<>> \in Seq(BOOLEAN) /\ Len(<<>>) = 0
    BY EmptySeq
<1>2. <<>> \in [1..0 -> BOOLEAN]
    BY <1>1, LenProperties
<1> QED
    BY <1>2 DEF SomeSets

\* What the page draws is of its type.
LEMMA OfferedIsTyped ==
    ASSUME NEW s, NEW n, NEW b
    PROVE  LP!Offered(s, n, b) \in {"none", "on", "off"}
BY DEF LP!Offered

\* The page holds no list and no panel before it is built.
LEMMA InitLinuxPage == LP!Init => LinuxPageInv
<1> SUFFICES ASSUME LP!Init PROVE LinuxPageInv
    OBVIOUS
<1>1. sets \in SomeSets
    <2>1. PICK on \in SUBSET Sets : sets = [x \in on |-> TRUE]
        BY DEF LP!Init
    <2>2. sets \in [on -> BOOLEAN]
        BY <2>1
    <2> QED
        BY <2>2 DEF SomeSets
<1>2. page \in LinuxPageType /\ ~page.shown
    BY NoneIsSome DEF LP!Init, LP!NoPage, LinuxPageType
<1>3. noaa \in LP!NoaaStates
    BY DEF LP!Init, LP!NoaaStates
<1>4. DeletionsAreMoves /\ LP!PageIsTrue
    BY <1>2 DEF LP!Init, DeletionsAreMoves, LP!PageIsTrue
<1> QED
    <2>1. due \in [sets : BOOLEAN, work : BOOLEAN] /\ cadence \in {"never", "daily"}
        BY DEF LP!Init
    <2>2. opens \in 0..MaxOpens /\ moves \in 0..MaxMoves /\ steps \in 0..LinuxSteps
        BY PagesBounds DEF LP!Init
    <2> QED
        BY <1>1, <1>2, <1>3, <1>4, <2>1, <2>2 DEF LP!Init, LinuxPageInv

\* What is on the list after a set has gone, come or been switched.
LEMMA ListMoves ==
    ASSUME NEW f \in SomeSets, NEW s \in Sets, NEW v \in BOOLEAN
    PROVE  /\ [f EXCEPT ![s] = v] \in SomeSets
           /\ [x \in DOMAIN f \ {s} |-> f[x]] \in SomeSets
           /\ [x \in DOMAIN f \cup {s} |-> IF x = s THEN v ELSE f[x]] \in SomeSets
           /\ s \in DOMAIN f => f[s] \in BOOLEAN
<1> PICK D \in SUBSET Sets : f \in [D -> BOOLEAN]
    BY DEF SomeSets
<1>1. [f EXCEPT ![s] = v] \in [D -> BOOLEAN]
    OBVIOUS
<1>2. [x \in DOMAIN f \ {s} |-> f[x]] \in [D \ {s} -> BOOLEAN]
    OBVIOUS
<1>3. [x \in DOMAIN f \cup {s} |-> IF x = s THEN v ELSE f[x]] \in [D \cup {s} -> BOOLEAN]
    OBVIOUS
<1>4. D \ {s} \in SUBSET Sets /\ D \cup {s} \in SUBSET Sets
    OBVIOUS
<1> QED
    BY <1>1, <1>2, <1>3, <1>4, Zenon DEF SomeSets

\* What a move of the sets, and of the work, leaves to be filled.
LEMMA TellingFills ==
    ASSUME LinuxPageInv
    PROVE  /\ LP!SetsChanged =>
                 /\ due' \in [sets : BOOLEAN, work : BOOLEAN] /\ due'.work = due.work
                 /\ due'.sets <=> due.sets \/ page.shown
           /\ LP!WorkChanged =>
                 /\ due' \in [sets : BOOLEAN, work : BOOLEAN]
                 /\ due'.work <=> due.work \/ page.shown
                 /\ due'.sets <=> due.sets \/ page.shown
<1>1. due.sets \in BOOLEAN /\ due.work \in BOOLEAN /\ page.shown \in BOOLEAN
    BY DEF LinuxPageInv, LinuxPageType
<1>2. {due.sets \/ page.shown, due.work \/ page.shown} \subseteq BOOLEAN
    BY <1>1
<1>3. ASSUME LP!SetsChanged
      PROVE  /\ due' \in [sets : BOOLEAN, work : BOOLEAN] /\ due'.work = due.work
             /\ due'.sets = (due.sets \/ page.shown)
    BY <1>2, <1>3 DEF LP!SetsChanged, LinuxPageInv
<1>4. ASSUME LP!WorkChanged
      PROVE  /\ due' \in [sets : BOOLEAN, work : BOOLEAN]
             /\ due'.work = (due.work \/ page.shown)
             /\ due'.sets = (due.sets \/ page.shown)
    BY <1>2, <1>4 DEF LP!WorkChanged, LinuxPageInv
<1> QED
    BY <1>3, <1>4

\* The window comes and goes and the idles run: each list is filled from what is so.
LEMMA LinuxWindowKeeps ==
    LinuxPageInv /\ (LP!BuildChartsPage \/ LP!WindowDestroyed \/ LP!RefillSets \/ LP!RefillWork)
        => LinuxPageInv'
<1> SUFFICES ASSUME LinuxPageInv,
                    LP!BuildChartsPage \/ LP!WindowDestroyed \/ LP!RefillSets \/ LP!RefillWork
             PROVE  LinuxPageInv'
    OBVIOUS
<1> USE DEF LinuxPageInv
<1>a. LP!Panels(noaa, baking, removing) \in SUBSET {"noaa", "bake", "gone"}
    BY DEF LP!Panels
<1>b. LP!Offered(sets, noaa, baking) \in {"none", "on", "off"}
    BY OfferedIsTyped
<1>c. LP!NoPage \in LinuxPageType
    BY NoneIsSome DEF LP!NoPage, LinuxPageType
<1>1. CASE LP!BuildChartsPage
    <2>1. page' = [shown |-> TRUE, rows |-> sets, update |-> LP!Offered(sets, noaa, baking),
                   panels |-> LP!Panels(noaa, baking, removing)]
        BY <1>1 DEF LP!BuildChartsPage, LP!FillWork, LP!FillSets, LP!NoPage
    <2>2. page' \in LinuxPageType
        BY <2>1, <1>a, <1>b DEF LinuxPageType
    <2> QED
        BY <1>1, <2>1, <2>2, PagesBounds
        DEF LP!BuildChartsPage, DeletionsAreMoves, LP!PageIsTrue
<1>2. CASE LP!WindowDestroyed
    BY <1>2, <1>c, PagesBounds
    DEF LP!WindowDestroyed, DeletionsAreMoves, LP!PageIsTrue, LP!NoPage
<1>3. CASE LP!RefillSets
    BY <1>3, <1>b, PagesBounds
    DEF LP!RefillSets, LP!FillSets, LinuxPageType, DeletionsAreMoves, LP!PageIsTrue
<1>4. CASE LP!RefillWork
    BY <1>4, <1>a, PagesBounds
    DEF LP!RefillWork, LP!FillWork, LinuxPageType, DeletionsAreMoves, LP!PageIsTrue
<1> QED
    BY <1>1, <1>2, <1>3, <1>4

\* A set that goes from the list leaves a page to be filled again.
LEMMA RemovalIsTold ==
    ASSUME LinuxPageInv, NEW s \in Sets, LP!RemoveChartSet(s)
    PROVE  /\ sets' \in SomeSets /\ due' \in [sets : BOOLEAN, work : BOOLEAN]
           /\ trash' \in {trash} \cup (IF s \in Derived THEN {trash + 1} ELSE {})
           /\ due'.work = due.work
           /\ due'.sets => due.sets \/ page.shown
           /\ page.shown /\ ~due'.sets => ~due.sets /\ sets' = sets
<1>1. CASE s \in DOMAIN sets
    <2>1. [x \in DOMAIN sets \ {s} |-> sets[x]] \in SomeSets
        BY ListMoves DEF LinuxPageInv
    <2> QED
        BY <1>1, <2>1, TellingFills DEF LP!RemoveChartSet, LinuxPageInv
<1>2. CASE s \notin DOMAIN sets
    BY <1>2 DEF LP!RemoveChartSet, LinuxPageInv
<1> QED
    BY <1>1, <1>2

\* The mariner switches a set, removes one, and answers the question; sets and scans come.
LEMMA LinuxSetsKeep ==
    ASSUME LinuxPageInv, NEW s \in Sets, NEW b \in BOOLEAN,
           \/ LP!ChartSetToggled(s) \/ LP!RemoveClicked(s) \/ LP!ChartSetNoted(s)
           \/ LP!RemoveAnswered(b) \/ LP!ScanLands(b)
    PROVE  LinuxPageInv'
<1> USE DEF LinuxPageInv
<1>1. CASE LP!ChartSetToggled(s)
    <2>1. /\ page' = [page EXCEPT !.rows = [page.rows EXCEPT ![s] = ~page.rows[s]]]
          /\ page.rows[s] \in BOOLEAN /\ page' \in LinuxPageType /\ page'.rows[s] \in BOOLEAN
          /\ page'.shown = page.shown /\ page'.update = page.update /\ page'.panels = page.panels
        BY <1>1, ListMoves DEF LP!ChartSetToggled, LinuxPageType
    <2>2. CASE s \in DOMAIN sets
        <3>1. sets' \in SomeSets
            <4>1. \A v \in BOOLEAN : [sets EXCEPT ![s] = v] \in SomeSets
                BY ListMoves
            <4> QED
                BY <1>1, <2>1, <2>2, <4>1 DEF LP!ChartSetToggled
        <3> QED
            BY <1>1, <2>1, <2>2, <3>1, TellingFills, PagesBounds
            DEF LP!ChartSetToggled, LP!Move, DeletionsAreMoves, LP!PageIsTrue
    <2>3. CASE s \notin DOMAIN sets
        BY <1>1, <2>1, <2>3, PagesBounds
        DEF LP!ChartSetToggled, LP!Move, DeletionsAreMoves, LP!PageIsTrue
    <2> QED
        BY <2>2, <2>3
<1>2. CASE LP!RemoveClicked(s)
    <2>1. CASE s \in Derived
        BY <1>2, <2>1, PagesBounds, PagesConstants
        DEF LP!RemoveClicked, LP!Move, DeletionsAreMoves, LP!PageIsTrue
    <2>2. CASE s \notin Derived
        BY <1>2, <2>2, RemovalIsTold, PagesBounds
        DEF LP!RemoveClicked, LP!Move, DeletionsAreMoves, LP!PageIsTrue
    <2> QED
        BY <2>1, <2>2
<1>3. CASE LP!ChartSetNoted(s)
    <2>1. sets' \in SomeSets
        BY <1>3, ListMoves DEF LP!ChartSetNoted
    <2> QED
        BY <1>3, <2>1, TellingFills, PagesBounds
        DEF LP!ChartSetNoted, LP!Step, DeletionsAreMoves, LP!PageIsTrue
<1>4. CASE LP!RemoveAnswered(b)
    <2>1. asking \in Sets
        BY <1>4 DEF LP!RemoveAnswered
    <2>2. CASE b
        BY <1>4, <2>1, <2>2, RemovalIsTold, PagesBounds
        DEF LP!RemoveAnswered, DeletionsAreMoves, LP!PageIsTrue
    <2>3. CASE ~b
        BY <1>4, <2>1, <2>3, PagesBounds
        DEF LP!RemoveAnswered, DeletionsAreMoves, LP!PageIsTrue
    <2> QED
        BY <2>2, <2>3
<1>5. CASE LP!ScanLands(b)
    <2>1. noaa' \in LP!NoaaStates
        BY <1>5 DEF LP!ScanLands, LP!NoaaStates
    <2> QED
        <3>1. LP!Panels(noaa', baking, removing) = LP!Panels(noaa, baking, removing)
            BY <1>5 DEF LP!ScanLands, LP!Panels, LP!NoaaStates
        <3> QED
          BY <1>5, <2>1, <3>1, TellingFills, PagesBounds
          DEF LP!ScanLands, LP!Step, DeletionsAreMoves, LP!PageIsTrue
<1> QED
    BY <1>1, <1>2, <1>3, <1>4, <1>5

\* The service's state with its transfer, or what a check counted, moved.
LEMMA StatesMove ==
    ASSUME NEW n \in LP!NoaaStates, NEW p \in {"quiet", "reading", "downloading"},
           NEW b \in BOOLEAN
    PROVE  /\ [n EXCEPT !.phase = p, !.prep = FALSE] \in LP!NoaaStates
           /\ [n EXCEPT !.phase = "quiet", !.prep = b] \in LP!NoaaStates
           /\ [n EXCEPT !.check = TRUE, !.newer = b] \in LP!NoaaStates
<1> DEFINE S == [phase : {"quiet", "reading", "downloading"}, prep : BOOLEAN,
                 check : BOOLEAN, newer : BOOLEAN]
<1>1. n \in S /\ (n.prep => n.phase = "quiet")
    BY DEF LP!NoaaStates
<1>2. /\ [n EXCEPT !.phase = p, !.prep = FALSE] \in S
      /\ [n EXCEPT !.phase = "quiet", !.prep = b] \in S
      /\ [n EXCEPT !.check = TRUE, !.newer = b] \in S
    BY <1>1
<1> HIDE DEF S
<1>3. LP!NoaaStates = {m \in S : m.prep => m.phase = "quiet"}
    BY DEF S, LP!NoaaStates
<1>4. n.check = n.check /\ n \in S
    BY <1>1
<1> QED
    BY <1>1, <1>2, <1>3 DEF S

\* The service's state as the page's own orders leave it.
LEMMA OrdersAreStates ==
    ASSUME LinuxPageInv, NEW c \in {"never", "daily"},
           LP!UpdateClicked \/ LP!NoaaCancelClicked \/ LP!CadenceChosen(c)
    PROVE  noaa' \in LP!NoaaStates
<1>1. noaa \in LP!NoaaStates
    BY DEF LinuxPageInv
<1>2. CASE LP!UpdateClicked
    <2>1. \/ noaa' = noaa
          \/ \E p \in {"reading", "downloading"} :
                noaa' = [noaa EXCEPT !.phase = p, !.prep = FALSE]
        BY <1>2, Zenon DEF LP!UpdateClicked
    <2> QED
        BY <1>1, <2>1, StatesMove
<1>3. CASE LP!NoaaCancelClicked
    BY <1>1, <1>3, StatesMove DEF LP!NoaaCancelClicked
<1>4. CASE LP!CadenceChosen(c)
    <2>1. \/ noaa' = noaa
          \/ \E b \in BOOLEAN : noaa' = [noaa EXCEPT !.check = TRUE, !.newer = b]
          \/ noaa' = [noaa EXCEPT !.phase = "reading", !.prep = FALSE]
        <3>1. CASE c = "never"
            BY <1>4, <3>1, Zenon DEF LP!CadenceChosen
        <3>2. CASE c # "never" /\ noaa.phase = "quiet"
            BY <1>4, <3>2, Zenon DEF LP!CadenceChosen
        <3>3. CASE c # "never" /\ noaa.phase # "quiet"
            BY <1>4, <3>3, Zenon DEF LP!CadenceChosen
        <3> QED
            BY <3>1, <3>2, <3>3
    <2> QED
        BY <1>1, <2>1, StatesMove
<1> QED
    BY <1>2, <1>3, <1>4

\* The work moves, by itself or as it is told to: a page that is up is to be filled.
LEMMA LinuxWorkKeeps ==
    ASSUME LinuxPageInv, NEW b \in BOOLEAN, NEW c \in {"never", "daily"},
           \/ LP!NoaaChanged \/ LP!UpdateClicked \/ LP!NoaaCancelClicked
           \/ LP!CadenceChosen(c) \/ LP!BakeStarts \/ LP!BakeDone \/ LP!RemoveProgress(b)
    PROVE  LinuxPageInv'
<1> USE DEF LinuxPageInv
<1>0. ASSUME noaa' \in LP!NoaaStates, LP!Told, moves' = moves + 1, moves < MaxMoves,
             UNCHANGED <<sets, baking, trash, removing, page, asking, opens, steps>>,
             cadence' \in {"never", "daily"}
      PROVE  LinuxPageInv'
    <2>1. CASE noaa' = noaa
        BY <1>0, <2>1, PagesBounds DEF LP!Told, DeletionsAreMoves, LP!PageIsTrue
    <2>2. CASE noaa' # noaa
        BY <1>0, <2>2, TellingFills, PagesBounds DEF LP!Told, DeletionsAreMoves, LP!PageIsTrue
    <2> QED
        BY <2>1, <2>2
<1>1. CASE LP!UpdateClicked
    BY <1>0, <1>1, OrdersAreStates DEF LP!UpdateClicked, LP!Move
<1>2. CASE LP!NoaaCancelClicked
    BY <1>0, <1>2, OrdersAreStates DEF LP!NoaaCancelClicked, LP!Move
<1>3. CASE LP!CadenceChosen(c)
    BY <1>0, <1>3, OrdersAreStates DEF LP!CadenceChosen, LP!Move
<1>4. CASE LP!NoaaChanged
    BY <1>4, TellingFills, PagesBounds
    DEF LP!NoaaChanged, LP!Step, DeletionsAreMoves, LP!PageIsTrue
<1>5. CASE LP!BakeStarts \/ LP!BakeDone
    <2>1. baking' \in BOOLEAN
        BY <1>5 DEF LP!BakeStarts, LP!BakeDone
    <2> QED
      BY <1>5, <2>1, TellingFills, PagesBounds
      DEF LP!BakeStarts, LP!BakeDone, LP!Step, DeletionsAreMoves, LP!PageIsTrue
<1>6. CASE LP!RemoveProgress(b)
    BY <1>6, TellingFills, PagesBounds
    DEF LP!RemoveProgress, DeletionsAreMoves, LP!PageIsTrue
<1> QED
    BY <1>1, <1>2, <1>3, <1>4, <1>5, <1>6

\* Every step of the page keeps its invariant.
THEOREM LinuxPageStep == LinuxPageInv /\ [LP!Next]_(LP!vars) => LinuxPageInv'
<1> SUFFICES ASSUME LinuxPageInv, [LP!Next]_(LP!vars) PROVE LinuxPageInv'
    OBVIOUS
<1>1. CASE UNCHANGED LP!vars
    BY <1>1 DEF LinuxPageInv, LP!vars, DeletionsAreMoves, LP!PageIsTrue
<1>2. CASE LP!Next
    <2>1. CASE LP!BuildChartsPage \/ LP!WindowDestroyed \/ LP!RefillSets \/ LP!RefillWork
        BY <2>1, LinuxWindowKeeps
    <2>2. CASE \E s \in Sets : LP!ChartSetToggled(s) \/ LP!RemoveClicked(s) \/ LP!ChartSetNoted(s)
        BY <2>2, LinuxSetsKeep
    <2>3. CASE \E b \in BOOLEAN : LP!ScanLands(b) \/ LP!RemoveAnswered(b) \/ LP!RemoveProgress(b)
        BY <2>3, LinuxSetsKeep, LinuxWorkKeeps, PagesConstants DEF LP!SetsConstants
    <2>4. CASE \/ LP!NoaaChanged \/ LP!UpdateClicked \/ LP!NoaaCancelClicked
               \/ LP!BakeStarts \/ LP!BakeDone
        BY <2>4, LinuxWorkKeeps
    <2>5. CASE \E c \in {"never", "daily"} : LP!CadenceChosen(c)
        BY <2>5, LinuxWorkKeeps
    <2> QED
        BY <1>2, <2>1, <2>2, <2>3, <2>4, <2>5 DEF LP!Next
<1> QED
    BY <1>1, <1>2

-------------------------------------------------------------------------------
(* The lists of the Windows page.                                            *)

States ==
    [phase : {"quiet", "reading", "downloading"}, prep : BOOLEAN,
     check : {"none", "on", "done"}, newer : BOOLEAN]
Shapes ==
    [sets : SUBSET Sets, working : BOOLEAN, removing : BOOLEAN,
     check : {"none", "on", "done"}, newer : BOOLEAN, loading : BOOLEAN]
WinPageType ==
    [sig : Shapes \cup {<<>>}, rows : SomeSets, line : BOOLEAN, work : BOOLEAN,
     gone : BOOLEAN, update : {"none", "on", "off"}, add : BOOLEAN, hung : BOOLEAN]
Removals == {"none", "running", "over"}

\* The shape written down is that of the controls that stand: a build writes both.
Signed(p) ==
    /\ p.sig \in Shapes
    /\ p.sig.sets = DOMAIN p.rows
    /\ p.line <=> p.sig.loading
    /\ p.work <=> p.sig.working
    /\ p.gone <=> p.sig.removing
    /\ p.update = "on" => ~p.sig.loading

\* A page that shows what is so, but for a bake nothing tells it of.
Shows(p, s, n, b, r) ==
    /\ Signed(p) /\ p.rows = s
    /\ p.line => n.phase = "downloading"
    /\ ~b => p.sig = WP!Shape(s, n, b, r)

ShowsOrHangs(p, s, n, b, r) == p.hung \/ Shows(p, s, n, b, r)

\* The inductive invariant.
WinPageInv ==
    /\ winSets \in SomeSets /\ winNoaa \in States /\ bake \in BOOLEAN
    /\ removal \in Removals /\ win \in BOOLEAN /\ tab \in {"charts", "other"}
    /\ winAsking \in Sets \cup {WP!NoSet} /\ picker \in BOOLEAN /\ winPage \in WinPageType
    /\ winOpens \in 0..MaxOpens /\ winMoves \in 0..MaxMoves /\ winSteps \in 0..WinSteps
    /\ winAsking # WP!NoSet => winAsking \in Derived /\ win
    /\ win /\ tab = "charts" => ShowsOrHangs(winPage, winSets, winNoaa, bake, removal)

\* It holds what the run checks of the Windows page.
LEMMA WinPageInvIsEnough == WinPageInv => WP!TypeOK /\ WP!PageIsTrue
<1> SUFFICES ASSUME WinPageInv PROVE WP!TypeOK /\ WP!PageIsTrue
    OBVIOUS
<1>1. WP!TypeOK
    BY PagesBounds DEF WinPageInv, SomeSets, WinPageType, States, Removals, WP!TypeOK, WP!PartOf
<1>2. WP!RowsAreTrue
    BY DEF WinPageInv, ShowsOrHangs, Shows, WP!RowsAreTrue, WP!ChartsVisible
<1>3. WP!WorkIsShown
    <2> SUFFICES ASSUME win, tab = "charts", ~winPage.hung, ~bake
                 PROVE  /\ winPage.sig = WP!Shape(winSets, winNoaa, bake, removal)
                        /\ winPage.line <=> winNoaa.phase = "downloading"
                        /\ winPage.work <=> winNoaa.prep
                        /\ winPage.gone <=> removal # "none"
                        /\ winPage.update = "on" => winNoaa.phase # "downloading"
        BY DEF WP!WorkIsShown, WP!ChartsVisible
    <2>1. Signed(winPage) /\ winPage.sig = WP!Shape(winSets, winNoaa, bake, removal)
        BY DEF WinPageInv, ShowsOrHangs, Shows
    <2>2. /\ winPage.sig.loading = (winNoaa.phase = "downloading")
          /\ winPage.sig.working = (bake \/ winNoaa.prep)
          /\ winPage.sig.removing = (removal # "none")
        BY <2>1 DEF WP!Shape
    <2> QED
        BY <2>1, <2>2 DEF Signed
<1>4. winAsking # WP!NoSet => winAsking \in Derived /\ win
    BY DEF WinPageInv
<1> QED
    BY <1>1, <1>2, <1>3, <1>4 DEF WP!PageIsTrue

\* A page that is built has written its own shape down.
LEMMA BuildSigns ==
    ASSUME NEW p \in WinPageType, NEW s \in SomeSets, NEW n \in States, NEW b \in BOOLEAN,
           NEW r \in Removals
    PROVE  /\ WP!BuildCharts(p, s, n, b, r) \in WinPageType
           /\ WP!BuildCharts(p, s, n, b, r).hung = p.hung
           /\ Shows(WP!BuildCharts(p, s, n, b, r), s, n, b, r)
<1> DEFINE q == WP!BuildCharts(p, s, n, b, r)
           h == WP!Shape(s, n, b, r)
<1>1. h \in Shapes
    <2>1. DOMAIN s \in SUBSET Sets
        BY DEF SomeSets
    <2>2. n.prep \in BOOLEAN /\ n.newer \in BOOLEAN /\ n.check \in {"none", "on", "done"}
        BY DEF States
    <2> QED
        BY <2>1, <2>2 DEF WP!Shape, Shapes
<1>2. /\ q.sig = h /\ q.rows = s /\ q.hung = p.hung
      /\ q.line = (n.phase = "downloading") /\ q.work = (b \/ n.prep)
      /\ q.gone = (r # "none") /\ q.add = (~b)
      /\ q.update = IF Managed \in DOMAIN s /\ n.newer
                    THEN IF n.phase # "downloading" /\ ~b THEN "on" ELSE "off"
                    ELSE "none"
    BY DEF WP!BuildCharts, WinPageType
<1>3. q \in WinPageType
    <2> DEFINE l == n.phase = "downloading"
               w == b \/ n.prep
               g == r # "none"
               a == ~b
               u == IF Managed \in DOMAIN s /\ n.newer
                    THEN IF n.phase # "downloading" /\ ~b THEN "on" ELSE "off"
                    ELSE "none"
    <2>1. q = [p EXCEPT !.rows = s, !.line = l, !.work = w, !.gone = g, !.add = a,
                        !.update = u, !.sig = h]
        BY Zenon DEF WP!BuildCharts
    <2>2. l \in BOOLEAN /\ w \in BOOLEAN /\ g \in BOOLEAN /\ a \in BOOLEAN
        OBVIOUS
    <2>3. u \in {"none", "on", "off"}
        OBVIOUS
    <2> HIDE DEF h, q, l, w, g, a, u
    <2>4. [p EXCEPT !.rows = s, !.line = l, !.work = w, !.gone = g, !.add = a,
                    !.update = u, !.sig = h] \in WinPageType
        BY <1>1, <2>2, <2>3 DEF WinPageType
    <2> QED
        BY <2>1, <2>4
<1>4. /\ h.sets = DOMAIN s /\ h.loading = (n.phase = "downloading")
      /\ h.working = (b \/ n.prep) /\ h.removing = (r # "none")
    BY DEF WP!Shape
<1>5. Shows(q, s, n, b, r)
    BY <1>1, <1>2, <1>4 DEF Shows, Signed
<1> QED
    BY <1>2, <1>3, <1>5

\* Whatever tab is built, and whether or not the build returns.
LEMMA BuildShows ==
    ASSUME NEW p \in WinPageType, NEW s \in SomeSets, NEW n \in States, NEW b \in BOOLEAN,
           NEW r \in Removals, NEW t \in {"charts", "other"}, NEW seen \in BOOLEAN
    PROVE  /\ WP!BuildSettingsPage(p, t, seen, s, n, b, r) \in WinPageType
           /\ t = "charts" => ShowsOrHangs(WP!BuildSettingsPage(p, t, seen, s, n, b, r), s, n, b, r)
<1>1. CASE t = "other"
    BY <1>1, NoneIsSome DEF WP!BuildSettingsPage, WP!BuildOther, WinPageType
<1>2. CASE t = "charts" /\ WP!NeverReturns(p, seen, s, n, b, r)
    BY <1>2 DEF WP!BuildSettingsPage, WinPageType, ShowsOrHangs
<1>3. CASE t = "charts" /\ ~WP!NeverReturns(p, seen, s, n, b, r)
    BY <1>3, BuildSigns DEF WP!BuildSettingsPage, ShowsOrHangs
<1> QED
    BY <1>1, <1>2, <1>3

\* A page whose shape is the one written down has its switches put right in place.
LEMMA InPlaceShows ==
    ASSUME NEW p \in WinPageType, NEW s \in SomeSets
    PROVE  /\ WP!RefreshInPlace(p, s) \in WinPageType
           /\ Signed(p) => Signed(WP!RefreshInPlace(p, s))
           /\ DOMAIN p.rows = DOMAIN s => WP!RefreshInPlace(p, s).rows = s
           /\ WP!RefreshInPlace(p, s).hung = p.hung
<1> DEFINE q == WP!RefreshInPlace(p, s)
           f == [x \in DOMAIN p.rows |-> IF x \in DOMAIN s THEN s[x] ELSE p.rows[x]]
<1>1. f \in SomeSets /\ DOMAIN f = DOMAIN p.rows
    <2>1. PICK D \in SUBSET Sets : p.rows \in [D -> BOOLEAN]
        BY DEF WinPageType, SomeSets
    <2>2. PICK E \in SUBSET Sets : s \in [E -> BOOLEAN]
        BY DEF SomeSets
    <2>3. f \in [D -> BOOLEAN]
        BY <2>1, <2>2
    <2> QED
        BY <2>1, <2>3 DEF SomeSets
<1>2. q = [p EXCEPT !.rows = f]
    BY DEF WP!RefreshInPlace, WinPageType
<1>3. q \in WinPageType /\ q.rows = f /\ q.hung = p.hung
    BY <1>1, <1>2 DEF WinPageType
<1>4. Signed(p) => Signed(q)
    BY <1>1, <1>2 DEF Signed, WinPageType
<1>5. ASSUME DOMAIN p.rows = DOMAIN s
      PROVE  q.rows = s
    <2>1. \A x \in DOMAIN f : f[x] = s[x]
        BY <1>5
    <2> QED
        BY <1>1, <1>3, <1>5, <2>1 DEF SomeSets
<1> QED
    BY <1>3, <1>4, <1>5

\* A page that is seen is built again where its shape has changed, and else put right.
LEMMA RefreshShows ==
    ASSUME NEW p \in WinPageType, NEW s \in SomeSets, NEW n \in States, NEW b \in BOOLEAN,
           NEW r \in Removals, NEW seen \in BOOLEAN
    PROVE  /\ WP!RefreshOnChange(p, seen, s, n, b, r) \in WinPageType
           /\ seen /\ Signed(p) => ShowsOrHangs(WP!RefreshOnChange(p, seen, s, n, b, r), s, n, b, r)
<1> DEFINE q == WP!RefreshInPlace(p, s)
<1>3. q \in WinPageType /\ q.hung = p.hung /\ (Signed(p) => Signed(q))
    BY InPlaceShows
<1>5. DOMAIN p.rows = DOMAIN s => q.rows = s
    BY InPlaceShows
<1>6. ASSUME seen, WP!Shape(s, n, b, r) = p.sig
      PROVE  /\ WP!RefreshOnChange(p, seen, s, n, b, r) = q
             /\ Signed(p) => Shows(q, s, n, b, r)
    <2>1. WP!RefreshOnChange(p, seen, s, n, b, r) = q
        BY <1>6 DEF WP!RefreshOnChange
    <2>2. p.sig.sets = DOMAIN s /\ p.sig.loading = (n.phase = "downloading")
        BY <1>6 DEF WP!Shape
    <2>3. q.sig = p.sig /\ q.line = p.line
        BY DEF WP!RefreshInPlace, WinPageType
    <2> QED
        BY <1>3, <1>5, <1>6, <2>1, <2>2, <2>3 DEF Shows, Signed
<1>7. CASE seen /\ WP!Shape(s, n, b, r) # p.sig
    <2>1. WP!RefreshOnChange(p, seen, s, n, b, r) =
              WP!BuildSettingsPage(p, "charts", seen, s, n, b, r)
        BY <1>7 DEF WP!RefreshOnChange
    <2>2. /\ WP!BuildSettingsPage(p, "charts", seen, s, n, b, r) \in WinPageType
          /\ ShowsOrHangs(WP!BuildSettingsPage(p, "charts", seen, s, n, b, r), s, n, b, r)
        BY BuildShows
    <2> QED
        BY <2>1, <2>2
<1>8. CASE seen /\ WP!Shape(s, n, b, r) = p.sig
    BY <1>3, <1>6, <1>8 DEF ShowsOrHangs
<1>9. CASE ~seen
    BY <1>9 DEF WP!RefreshOnChange
<1> QED
    BY <1>7, <1>8, <1>9

\* The poll of a page that stands, or of one that is not seen.
LEMMA PollShows ==
    ASSUME NEW p \in WinPageType, NEW s \in SomeSets, NEW n \in States, NEW b \in BOOLEAN,
           NEW r \in Removals, NEW t \in {"charts", "other"}, NEW seen \in BOOLEAN
    PROVE  /\ WP!PollNoaaPane(p, t, seen, s, n, b, r) \in WinPageType
           /\ seen /\ t = "charts" /\ Signed(p) /\ p.rows = s
                => ShowsOrHangs(WP!PollNoaaPane(p, t, seen, s, n, b, r), s, n, b, r)
<1> DEFINE q == IF ~b /\ WP!Shape(s, n, b, r) # p.sig
                THEN WP!RefreshOnChange(p, seen, s, n, b, r) ELSE p
<1>1. q \in WinPageType
    BY RefreshShows
<1>2. WP!PollNoaaPane(p, t, seen, s, n, b, r) =
          IF ~q.hung /\ q.line /\ n.phase # "downloading"
          THEN WP!BuildSettingsPage(q, t, seen, s, n, b, r) ELSE q
    BY DEF WP!PollNoaaPane
<1> HIDE DEF q
<1>3. WP!BuildSettingsPage(q, t, seen, s, n, b, r) \in WinPageType
    BY <1>1, BuildShows
<1>4. ASSUME seen, t = "charts", Signed(p), p.rows = s
      PROVE  ShowsOrHangs(WP!PollNoaaPane(p, t, seen, s, n, b, r), s, n, b, r)
    <2>1. CASE ~q.hung /\ q.line /\ n.phase # "downloading"
        BY <1>1, <1>2, <1>4, <2>1, BuildShows
    <2>2. CASE ~(~q.hung /\ q.line /\ n.phase # "downloading")
        <3>1. CASE ~b /\ WP!Shape(s, n, b, r) # p.sig
            <4>1. ShowsOrHangs(WP!RefreshOnChange(p, seen, s, n, b, r), s, n, b, r)
                <5>1. seen /\ Signed(p)
                        => ShowsOrHangs(WP!RefreshOnChange(p, seen, s, n, b, r), s, n, b, r)
                    BY RefreshShows
                <5> QED
                    BY <1>4, <5>1
            <4>2. q = WP!RefreshOnChange(p, seen, s, n, b, r)
                BY <3>1 DEF q
            <4> QED
                BY <1>2, <2>2, <4>1, <4>2
        <3>2. CASE ~(~b /\ WP!Shape(s, n, b, r) # p.sig)
            BY <1>2, <1>4, <2>2, <3>2 DEF q, ShowsOrHangs, Shows
        <3> QED
            BY <3>1, <3>2
    <2> QED
        BY <2>1, <2>2
<1> QED
    BY <1>1, <1>2, <1>3, <1>4

\* The page is not seen before the first window, nor written to.
LEMMA InitWinPage == WP!Init => WinPageInv
<1> SUFFICES ASSUME WP!Init PROVE WinPageInv
    OBVIOUS
<1>1. winSets \in SomeSets
    <2>1. PICK on \in SUBSET Sets : winSets = [x \in on |-> TRUE]
        BY DEF WP!Init
    <2>2. winSets \in [on -> BOOLEAN]
        BY <2>1
    <2> QED
        BY <2>2 DEF SomeSets
<1>2. winPage \in WinPageType
    BY NoneIsSome DEF WP!Init, WP!NoPage, WinPageType
<1>3. winNoaa \in States
    BY DEF WP!Init, WP!Quiet, States
<1>4. winOpens \in 0..MaxOpens /\ winMoves \in 0..MaxMoves /\ winSteps \in 0..WinSteps
    BY PagesBounds DEF WP!Init
<1> QED
    BY <1>1, <1>2, <1>3, <1>4 DEF WP!Init, WinPageInv, Removals

\* A page that stood is signed, and shows the sets, when it is seen.
LEMMA SeenIsSigned ==
    WinPageInv /\ WP!ChartsVisible /\ ~winPage.hung
        => Signed(winPage) /\ winPage.rows = winSets
BY DEF WinPageInv, WP!ChartsVisible, ShowsOrHangs, Shows

\* The window comes up and goes, a tab is picked, a picker takes the window's place.
LEMMA WinWindowKeeps ==
    ASSUME WinPageInv, NEW t \in {"charts", "other"},
           \/ WP!ShowSettings \/ WP!PickTab(t) \/ WP!CloseSettings
           \/ WP!PickerAsked \/ WP!ShowNoaaPicker \/ WP!Relaunch
    PROVE  WinPageInv'
<1> USE DEF WinPageInv
<1>1. CASE WP!ShowSettings
    <2> DEFINE p == WP!BuildSettingsPage(winPage, tab, FALSE, winSets, winNoaa, bake, removal)
    <2>1. /\ p \in WinPageType
          /\ tab = "charts" => ShowsOrHangs(p, winSets, winNoaa, bake, removal)
        BY BuildShows
    <2>2. winPage' = p
        BY <1>1 DEF WP!ShowSettings
    <2> HIDE DEF p
    <2>9. (win /\ tab = "charts" => ShowsOrHangs(winPage, winSets, winNoaa, bake, removal))'
        BY <1>1, <2>1, <2>2, PagesBounds DEF WP!ShowSettings
    <2>8. winOpens' \in 0..MaxOpens /\ winMoves' \in 0..MaxMoves /\ winSteps' \in 0..WinSteps
        BY <1>1, <2>1, <2>2, PagesBounds DEF WP!ShowSettings
    <2> QED
        BY <2>8, <2>9, <1>1, <2>1, <2>2 DEF WP!ShowSettings
<1>2. CASE WP!PickTab(t)
    <2> DEFINE p == WP!BuildSettingsPage(winPage, t, TRUE, winSets, winNoaa, bake, removal)
    <2>1. /\ p \in WinPageType
          /\ t = "charts" => ShowsOrHangs(p, winSets, winNoaa, bake, removal)
        BY BuildShows
    <2>2. winPage' = p
        BY <1>2 DEF WP!PickTab
    <2> HIDE DEF p
    <2>9. (win /\ tab = "charts" => ShowsOrHangs(winPage, winSets, winNoaa, bake, removal))'
        BY <1>2, <2>1, <2>2, PagesBounds DEF WP!PickTab, WP!Move
    <2>8. winOpens' \in 0..MaxOpens /\ winMoves' \in 0..MaxMoves /\ winSteps' \in 0..WinSteps
        BY <1>2, <2>1, <2>2, PagesBounds DEF WP!PickTab, WP!Move
    <2> QED
        BY <2>8, <2>9, <1>2, <2>1, <2>2 DEF WP!PickTab, WP!Move
<1>3. CASE WP!CloseSettings
    BY <1>3 DEF WP!CloseSettings
<1>4. CASE WP!PickerAsked
    BY <1>4, PagesBounds DEF WP!PickerAsked, WP!Move
<1>5. CASE WP!ShowNoaaPicker
    BY <1>5 DEF WP!ShowNoaaPicker
<1>6. CASE WP!Relaunch
    <2>1. WP!NoPage \in WinPageType /\ WP!Quiet \in States
        BY NoneIsSome DEF WP!NoPage, WP!Quiet, WinPageType, States
    <2> QED
        BY <1>6, <2>1 DEF WP!Relaunch, Removals
<1> QED
    BY <1>1, <1>2, <1>3, <1>4, <1>5, <1>6

\* A removal builds the page, where it is seen.
LEMMA WinRemovalShows ==
    ASSUME WinPageInv, NEW s \in Sets, WP!Removed(s)
    PROVE  /\ winSets' \in SomeSets /\ removal' \in Removals /\ winPage' \in WinPageType
           /\ win /\ tab = "charts"
                => ShowsOrHangs(winPage', winSets', winNoaa, bake, removal')
<1> DEFINE left == [x \in DOMAIN winSets \ {s} |-> winSets[x]]
           under == IF s \in Derived THEN "running" ELSE removal
<1>1. left \in SomeSets /\ under \in Removals
    BY ListMoves DEF WinPageInv, Removals
<1>2. /\ winSets' = left /\ removal' = under
      /\ winPage' = IF win THEN WP!BuildSettingsPage(winPage, tab, win, left, winNoaa, bake, under)
                    ELSE winPage
    BY DEF WP!Removed
<1> HIDE DEF left, under
<1>3. /\ WP!BuildSettingsPage(winPage, tab, win, left, winNoaa, bake, under) \in WinPageType
      /\ tab = "charts" => ShowsOrHangs(WP!BuildSettingsPage(winPage, tab, win, left, winNoaa,
                                                              bake, under), left, winNoaa, bake, under)
    BY <1>1, BuildShows DEF WinPageInv
<1> QED
    BY <1>1, <1>2, <1>3 DEF WinPageInv

\* The mariner's hand on the sets.
LEMMA WinSetsKeep ==
    ASSUME WinPageInv, NEW s \in Sets, NEW b \in BOOLEAN,
           \/ WP!SetChartSetOn(s) \/ WP!RemoveChartSet(s)
           \/ WP!ConfirmRemoveChartSet(s) \/ WP!RemoveAnswered(b)
    PROVE  WinPageInv'
<1>1. CASE WP!SetChartSetOn(s)
    <2> DEFINE v == ~winPage.rows[s]
               on == [winSets EXCEPT ![s] = v]
               p == [winPage EXCEPT !.rows = [winPage.rows EXCEPT ![s] = v]]
               q == WP!RefreshInPlace(p, on)
    <2>1. s \in DOMAIN winPage.rows /\ s \in DOMAIN winSets /\ WP!ChartsVisible /\ ~winPage.hung
        BY <1>1 DEF WP!SetChartSetOn, WP!Move, WP!Alive
    <2>2. v \in BOOLEAN /\ on \in SomeSets /\ p \in WinPageType
        BY <2>1, ListMoves DEF WinPageInv, WinPageType
    <2>3. Signed(winPage) /\ winPage.rows = winSets
        BY <2>1, SeenIsSigned
    <2>4. DOMAIN p.rows = DOMAIN winPage.rows /\ Signed(p) /\ DOMAIN on = DOMAIN p.rows
        BY <2>2, <2>3 DEF Signed, WinPageType, WinPageInv
    <2>5. winSets' = on /\ winPage' = WP!PollNoaaPane(q, tab, win, on, winNoaa, bake, removal)
        BY <1>1 DEF WP!SetChartSetOn, WP!InPlace
    <2> HIDE DEF v, on, p
    <2>6. q \in WinPageType /\ Signed(q) /\ q.rows = on
        BY <2>2, <2>4, InPlaceShows
    <2> HIDE DEF q
    <2>7. /\ WP!PollNoaaPane(q, tab, win, on, winNoaa, bake, removal) \in WinPageType
          /\ win /\ tab = "charts"
               => ShowsOrHangs(WP!PollNoaaPane(q, tab, win, on, winNoaa, bake, removal),
                               on, winNoaa, bake, removal)
        BY <2>2, <2>6, PollShows DEF WinPageInv
    <2>9. (win /\ tab = "charts" => ShowsOrHangs(winPage, winSets, winNoaa, bake, removal))'
        BY <1>1, <2>1, <2>2, <2>5, <2>7, PagesBounds
        DEF WP!SetChartSetOn, WP!Move, WP!ChartsVisible, WinPageInv
    <2>8. winOpens' \in 0..MaxOpens /\ winMoves' \in 0..MaxMoves /\ winSteps' \in 0..WinSteps
        BY <1>1, <2>1, <2>2, <2>5, <2>7, PagesBounds
        DEF WP!SetChartSetOn, WP!Move, WP!ChartsVisible, WinPageInv
    <2> QED
        BY <2>8, <2>9, <1>1, <2>1, <2>2, <2>5, <2>7
        DEF WP!SetChartSetOn, WP!Move, WP!ChartsVisible, WinPageInv
<1>2. CASE WP!RemoveChartSet(s)
    BY <1>2, WinRemovalShows, PagesBounds DEF WP!RemoveChartSet, WP!Move, WinPageInv
<1>3. CASE WP!ConfirmRemoveChartSet(s)
    BY <1>3, PagesBounds DEF WP!ConfirmRemoveChartSet, WP!Move, WP!ChartsVisible, WinPageInv
<1>4. CASE WP!RemoveAnswered(b)
    <2>1. winAsking \in Sets
        BY <1>4 DEF WP!RemoveAnswered, WinPageInv
    <2>2. CASE b /\ winAsking \in DOMAIN winSets
        BY <1>4, <2>1, <2>2, WinRemovalShows DEF WP!RemoveAnswered, WinPageInv
    <2>3. CASE ~(b /\ winAsking \in DOMAIN winSets)
        BY <1>4, <2>3 DEF WP!RemoveAnswered, WinPageInv
    <2> QED
        BY <2>2, <2>3
<1> QED
    BY <1>1, <1>2, <1>3, <1>4

\* A set comes, and a scan ends.
LEMMA WinScansKeep ==
    ASSUME WinPageInv, NEW s \in Sets, NEW b \in BOOLEAN,
           WP!AdoptChartSet(s) \/ WP!PollChartSets(b)
    PROVE  WinPageInv'
<1>0. WP!ChartsVisible \in BOOLEAN
    BY DEF WP!ChartsVisible
<1>1. CASE WP!AdoptChartSet(s)
    <2> DEFINE more == [x \in DOMAIN winSets \cup {s} |-> IF x = s THEN TRUE ELSE winSets[x]]
               p == WP!RefreshOnChange(winPage, WP!ChartsVisible, more, winNoaa, bake, removal)
    <2>1. more \in SomeSets
        BY ListMoves DEF WinPageInv
    <2>2. winSets' = more /\ winPage' = p /\ ~winPage.hung
        BY <1>1 DEF WP!AdoptChartSet, WP!Step, WP!Alive
    <2> HIDE DEF more
    <2>3. /\ p \in WinPageType
          /\ WP!ChartsVisible /\ Signed(winPage)
               => ShowsOrHangs(p, more, winNoaa, bake, removal)
        BY <1>0, <2>1, RefreshShows DEF WinPageInv
    <2> HIDE DEF p
    <2>4. win /\ tab = "charts" => ShowsOrHangs(p, more, winNoaa, bake, removal)
        BY <2>2, <2>3, SeenIsSigned DEF WP!ChartsVisible
    <2>9. (win /\ tab = "charts" => ShowsOrHangs(winPage, winSets, winNoaa, bake, removal))'
        BY <1>1, <2>1, <2>2, <2>3, <2>4, PagesBounds
        DEF WP!AdoptChartSet, WP!Step, WinPageInv
    <2>8. winOpens' \in 0..MaxOpens /\ winMoves' \in 0..MaxMoves /\ winSteps' \in 0..WinSteps
        BY <1>1, <2>1, <2>2, <2>3, <2>4, PagesBounds
        DEF WP!AdoptChartSet, WP!Step, WinPageInv
    <2> QED
        BY <2>8, <2>9, <1>1, <2>1, <2>2, <2>3, <2>4
        DEF WP!AdoptChartSet, WP!Step, WinPageInv
<1>2. CASE WP!PollChartSets(b)
    <2> DEFINE n == [winNoaa EXCEPT !.newer = b /\ winNoaa.check = "done"]
               p == WP!RefreshOnChange(winPage, WP!ChartsVisible, winSets, n, bake, removal)
    <2>1. n \in States
        <3>1. (b /\ winNoaa.check = "done") \in BOOLEAN
            OBVIOUS
        <3> QED
            BY <3>1 DEF WinPageInv, States
    <2>2. winNoaa' = n /\ winPage' = p /\ ~winPage.hung
        BY <1>2 DEF WP!PollChartSets, WP!Step, WP!Alive
    <2> HIDE DEF n
    <2>3. /\ p \in WinPageType
          /\ WP!ChartsVisible /\ Signed(winPage)
               => ShowsOrHangs(p, winSets, n, bake, removal)
        BY <1>0, <2>1, RefreshShows DEF WinPageInv
    <2> QED
        BY <1>2, <2>1, <2>2, <2>3, SeenIsSigned, PagesBounds
        DEF WP!PollChartSets, WP!Step, WinPageInv, WP!ChartsVisible
<1> QED
    BY <1>1, <1>2

\* The copy of the service's state moves, and the page is polled.
LEMMA WinNoaaKeeps == WinPageInv /\ WP!NoaaChanged => WinPageInv'
<1> SUFFICES ASSUME WinPageInv, WP!NoaaChanged PROVE WinPageInv'
    OBVIOUS
<1>0. WP!ChartsVisible \in BOOLEAN /\ ~winPage.hung
    BY DEF WP!ChartsVisible, WP!NoaaChanged, WP!Step, WP!Alive
<1>1. PICK n \in WP!NoaaNext :
        LET over == winNoaa.check = "on" /\ n.check = "done"
            p == IF over THEN WP!RefreshOnChange(winPage, WP!ChartsVisible, winSets, n, bake, removal)
                 ELSE winPage
        IN  /\ winNoaa' = n
            /\ winPage' = IF p.hung THEN p
                          ELSE WP!PollNoaaPane(p, tab, WP!ChartsVisible, winSets, n, bake, removal)
    BY Zenon DEF WP!NoaaChanged
<1>2. n \in States
    BY DEF WP!NoaaNext, States
<1> DEFINE over == winNoaa.check = "on" /\ n.check = "done"
           p == IF over THEN WP!RefreshOnChange(winPage, WP!ChartsVisible, winSets, n, bake, removal)
                ELSE winPage
           q == WP!PollNoaaPane(p, tab, WP!ChartsVisible, winSets, n, bake, removal)
<1>3. winNoaa' = n /\ winPage' = IF p.hung THEN p ELSE q
    BY <1>1
<1>4. p \in WinPageType
    BY <1>0, <1>2, RefreshShows DEF WinPageInv
<1>5. WP!ChartsVisible => p.hung \/ (Signed(p) /\ p.rows = winSets)
    <2>1. CASE over
        <3>1. WP!ChartsVisible /\ Signed(winPage)
                => ShowsOrHangs(p, winSets, n, bake, removal)
            BY <1>0, <1>2, <2>1, RefreshShows DEF WinPageInv
        <3> QED
            BY <1>0, <3>1, SeenIsSigned DEF ShowsOrHangs, Shows
    <2>2. CASE ~over
        BY <1>0, <2>2, SeenIsSigned
    <2> QED
        BY <2>1, <2>2
<1> HIDE DEF over, p
<1>6. /\ q \in WinPageType
      /\ WP!ChartsVisible /\ tab = "charts" /\ Signed(p) /\ p.rows = winSets
           => ShowsOrHangs(q, winSets, n, bake, removal)
    BY <1>0, <1>2, <1>4, PollShows DEF WinPageInv
<1> HIDE DEF q
<1>7. winPage' \in WinPageType
    BY <1>3, <1>4, <1>6
<1>8. win /\ tab = "charts" => ShowsOrHangs(winPage', winSets, n, bake, removal)
    BY <1>3, <1>5, <1>6 DEF WP!ChartsVisible, ShowsOrHangs
<1> QED
    BY <1>2, <1>3, <1>7, <1>8, PagesBounds DEF WP!NoaaChanged, WP!Step, WinPageInv

\* The order for newer editions, and the cancel of a download.
LEMMA WinOrdersKeep == WinPageInv /\ (WP!UpdateClicked \/ WP!CancelClicked) => WinPageInv'
<1> SUFFICES ASSUME WinPageInv, WP!UpdateClicked \/ WP!CancelClicked PROVE WinPageInv'
    OBVIOUS
<1>1. CASE WP!UpdateClicked
    <2>1. PICK phase \in {"quiet", "reading", "downloading"} :
            LET n == [winNoaa EXCEPT !.phase = phase]
                p == WP!PollNoaaPane(winPage, tab, TRUE, winSets, n, bake, removal)
            IN  /\ winNoaa' = n
                /\ winPage' = IF p.hung THEN p
                              ELSE WP!BuildSettingsPage(p, tab, TRUE, winSets, n, bake, removal)
        BY <1>1, Zenon DEF WP!UpdateClicked
    <2> DEFINE n == [winNoaa EXCEPT !.phase = phase]
               p == WP!PollNoaaPane(winPage, tab, TRUE, winSets, n, bake, removal)
               q == WP!BuildSettingsPage(p, tab, TRUE, winSets, n, bake, removal)
    <2>2. n \in States
        BY DEF WinPageInv, States
    <2>3. winNoaa' = n /\ winPage' = IF p.hung THEN p ELSE q
        BY <2>1
    <2> HIDE DEF n
    <2>4. p \in WinPageType
        BY <2>2, PollShows DEF WinPageInv
    <2> HIDE DEF p
    <2>5. q \in WinPageType /\ (tab = "charts" => ShowsOrHangs(q, winSets, n, bake, removal))
        BY <2>2, <2>4, BuildShows DEF WinPageInv
    <2> HIDE DEF q
    <2>6. winPage' \in WinPageType
          /\ (tab = "charts" => ShowsOrHangs(winPage', winSets, n, bake, removal))
        BY <2>3, <2>4, <2>5 DEF ShowsOrHangs
    <2>9. (win /\ tab = "charts" => ShowsOrHangs(winPage, winSets, winNoaa, bake, removal))'
        BY <1>1, <2>2, <2>3, <2>6, PagesBounds
        DEF WP!UpdateClicked, WP!Move, WP!ChartsVisible, WinPageInv
    <2>8. winOpens' \in 0..MaxOpens /\ winMoves' \in 0..MaxMoves /\ winSteps' \in 0..WinSteps
        BY <1>1, <2>2, <2>3, <2>6, PagesBounds
        DEF WP!UpdateClicked, WP!Move, WP!ChartsVisible, WinPageInv
    <2> QED
        BY <2>8, <2>9, <1>1, <2>2, <2>3, <2>6
        DEF WP!UpdateClicked, WP!Move, WP!ChartsVisible, WinPageInv
<1>2. CASE WP!CancelClicked
    <2> DEFINE p == WP!BuildSettingsPage(winPage, tab, TRUE, winSets, winNoaa, bake, removal)
    <2>1. /\ p \in WinPageType
          /\ tab = "charts" => ShowsOrHangs(p, winSets, winNoaa, bake, removal)
        BY BuildShows DEF WinPageInv
    <2>2. winPage' = p
        BY <1>2 DEF WP!CancelClicked
    <2> HIDE DEF p
    <2>9. (win /\ tab = "charts" => ShowsOrHangs(winPage, winSets, winNoaa, bake, removal))'
        BY <1>2, <2>1, <2>2, PagesBounds DEF WP!CancelClicked, WP!Move, WP!ChartsVisible, WinPageInv
    <2>8. winOpens' \in 0..MaxOpens /\ winMoves' \in 0..MaxMoves /\ winSteps' \in 0..WinSteps
        BY <1>2, <2>1, <2>2, PagesBounds DEF WP!CancelClicked, WP!Move, WP!ChartsVisible, WinPageInv
    <2> QED
        BY <2>8, <2>9, <1>2, <2>1, <2>2 DEF WP!CancelClicked, WP!Move, WP!ChartsVisible, WinPageInv
<1> QED
    BY <1>1, <1>2

\* A bake begins, of which nothing is said, and ends; a removal ends, its section staying.
LEMMA WinWorkKeeps ==
    WinPageInv /\ (WP!BakeStarts \/ WP!BakeEnds \/ WP!RemovalEnds) => WinPageInv'
<1> SUFFICES ASSUME WinPageInv, WP!BakeStarts \/ WP!BakeEnds \/ WP!RemovalEnds PROVE WinPageInv'
    OBVIOUS
<1>1. CASE WP!BakeStarts
    BY <1>1, PagesBounds DEF WP!BakeStarts, WP!Step, WinPageInv, ShowsOrHangs, Shows
<1>2. CASE WP!BakeEnds
    BY <1>2, BuildShows DEF WP!BakeEnds, WinPageInv
<1>3. CASE WP!RemovalEnds
    <2>1. WP!Shape(winSets, winNoaa, bake, "over") = WP!Shape(winSets, winNoaa, bake, "running")
        BY DEF WP!Shape
    <2> QED
        BY <1>3, <2>1 DEF WP!RemovalEnds, WinPageInv, ShowsOrHangs, Shows, Removals
<1> QED
    BY <1>1, <1>2, <1>3

\* Every step of the page keeps its invariant.
THEOREM WinPageStep == WinPageInv /\ [WP!Next]_(WP!vars) => WinPageInv'
<1> SUFFICES ASSUME WinPageInv, [WP!Next]_(WP!vars) PROVE WinPageInv'
    OBVIOUS
<1>1. CASE UNCHANGED WP!vars
    BY <1>1 DEF WinPageInv, WP!vars
<1>2. CASE WP!Next
    <2>0. PICK s \in Sets : TRUE
        BY PagesConstants DEF WP!SetsConstants
    <2>1. CASE \/ WP!ShowSettings \/ WP!CloseSettings \/ \E t \in {"charts", "other"} : WP!PickTab(t)
               \/ WP!PickerAsked \/ WP!ShowNoaaPicker \/ WP!Relaunch
        BY <2>1, WinWindowKeeps
    <2>2. CASE \E x \in Sets : \/ WP!SetChartSetOn(x) \/ WP!RemoveChartSet(x)
                               \/ WP!ConfirmRemoveChartSet(x) \/ WP!AdoptChartSet(x)
        BY <2>2, WinSetsKeep, WinScansKeep
    <2>3. CASE \E yes \in BOOLEAN : WP!RemoveAnswered(yes) \/ WP!PollChartSets(yes)
        BY <2>0, <2>3, WinSetsKeep, WinScansKeep
    <2>4. CASE WP!NoaaChanged \/ WP!UpdateClicked \/ WP!CancelClicked
        BY <2>4, WinNoaaKeeps, WinOrdersKeep
    <2>5. CASE WP!BakeStarts \/ WP!BakeEnds \/ WP!RemovalEnds
        BY <2>5, WinWorkKeeps
    <2> QED
        BY <1>2, <2>1, <2>2, <2>3, <2>4, <2>5 DEF WP!Next
<1> QED
    BY <1>1, <1>2

-------------------------------------------------------------------------------
(* The pages together.                                                       *)

PagesInv == LinuxPageInv /\ WinPageInv

\* THE THEOREM: on both pages the rows are the sets and the panels the work, but for what
\* an idle is queued for on Linux and a bake nothing tells the Windows page of.
THEOREM PagesAreTrueHolds == PagesSpec => []PagesAreTrue
<1>1. PagesInit => PagesInv
    BY InitLinuxPage, InitWinPage DEF PagesInit, PagesInv
<1>2. PagesInv /\ [PagesNext]_<<part, linuxVars, winVars, linuxPage, windowsPage>>
        => PagesInv'
    <2> SUFFICES ASSUME PagesInv,
                        [PagesNext]_<<part, linuxVars, winVars, linuxPage, windowsPage>>
                 PROVE  PagesInv'
        OBVIOUS
    <2>1. [LP!Next]_(LP!vars)
        BY DEF PagesNext, linuxPage, LP!vars
    <2>2. [WP!Next]_(WP!vars)
        BY DEF PagesNext, windowsPage, WP!vars
    <2> QED
        BY <2>1, <2>2, LinuxPageStep, WinPageStep DEF PagesInv
<1>3. PagesInv => PagesAreTrue
    BY LinuxPageInvIsEnough, WinPageInvIsEnough DEF PagesInv, PagesAreTrue
<1> QED
    BY <1>1, <1>2, <1>3, PTL DEF PagesSpec

\* The shelves rest, or the one whose behaviour this is takes a step.
ShelvesInv == LinuxShelfInv /\ WinShelfInv

\* THE THEOREM: on either shelf what is shown is what was read of the links, the chart that
\* is drawn is the one that is picked, or none is and the core takes the pick for drawn,
\* and what is on disk is the list, whatever is asked for and in whatever order answers
\* come and the shells fall idle.
THEOREM ShelvesAreTrueHolds == PagesSpec => []ShelvesAreTrue
<1>1. PagesInit => ShelvesInv
    BY LinuxInitKeeps, WinInitKeeps DEF PagesInit, ShelvesInv
<1>2. ShelvesInv /\ [PagesNext]_<<part, linuxVars, winVars, linuxPage, windowsPage>>
        => ShelvesInv'
    <2> SUFFICES ASSUME ShelvesInv,
                        [PagesNext]_<<part, linuxVars, winVars, linuxPage, windowsPage>>
                 PROVE  ShelvesInv'
        OBVIOUS
    <2>1. LinuxNext \/ UNCHANGED linuxVars
        BY DEF PagesNext
    <2>2. WinNext \/ UNCHANGED winVars
        BY DEF PagesNext
    <2> QED
        BY <2>1, <2>2, LinuxNextKeeps, WinNextKeeps DEF ShelvesInv
<1>3. ShelvesInv => ShelvesAreTrue
    BY LinuxShelfInvIsEnough, WinShelfInvIsEnough DEF ShelvesInv, ShelvesAreTrue
<1> QED
    BY <1>1, <1>2, <1>3, PTL DEF PagesSpec

-------------------------------------------------------------------------------
(* Setup and the NOAA picker.                                               *)

\* The words of the service's record.
RunWords == {"none", "running"} \cup Ends
PhaseWords == {"idle", "reading", "ready", "downloading"}
ReadWords == {"no", "out", "ok", "bad"}
CellWords == {"no", "out", "ok", "bad", "full"}
EndWords == {"none", "finished", "cancelled"}
StageWords == {"none", "in", "bake", "out"}
BakeWords == {"none", "run", "stop", "charts", "nothing", "bad"}
RetiredWords == {"no", "running", "ended"}
ScanWords == {"running", "read"}
LeftWords == 0..1

\* The service's record, its numbers unbounded: a guard bounds them at the end of a
\* handler.
Jobs ==
    [run : Nat, outcome : RunWords, retry : BOOLEAN, phase : PhaseWords, cat : BOOLEAN,
     reading : ReadWords, cell : CellWords, left : LeftWords, done : BOOLEAN,
     end : EndWords, stage : StageWords, forRun : BOOLEAN, of : Nat, stopped : BOOLEAN,
     stopNext : BOOLEAN, bake : BakeWords, retired : RetiredWords, moved : BOOLEAN,
     listed : BOOLEAN, scan : ScanWords, todo : BOOLEAN, fresh : BOOLEAN,
     charts : BOOLEAN, made : BOOLEAN, noted : BOOLEAN]

\* How the run, its transfers and the prepare stand to one another.
JobHolds(j) ==
    /\ j.of <= j.run
    /\ j.phase = "downloading" =>
          j.outcome = "running" /\ j.stage = "none" /\ j.end = "none"
    /\ j.cell # "no" => j.phase = "downloading"
    /\ j.phase = "reading" => j.reading # "no"
    /\ j.end # "none" => j.outcome = "running"
    /\ j.outcome = "running" => j.phase = "downloading" \/ j.end # "none"
    /\ j.stage # "none" /\ j.end # "none" => j.forRun /\ j.of = j.run
    /\ j.bake # "none" => j.stage \in {"bake", "out"}
    /\ j.bake \in {"run", "stop"} => j.stage = "bake" /\ j.retired = "no"

\* The service is well, in every record of it.
JobOK(j) == j \in Jobs /\ JobHolds(j)

\* No answer of the site waits to be taken, and a transfer of a download is out.
AnswersTaken(j) ==
    /\ j.reading \in {"no", "out"} /\ j.cell \in {"no", "out"}
    /\ j.phase = "downloading" => j.cell = "out"

\* Nor does a bake that was let go, or a scan that a prepare may begin after.
AllTaken(j) == AnswersTaken(j) /\ j.retired # "ended" /\ ~j.moved

\* What the prepare waits for is still to come: the service has nothing to adopt.
AtEase(j) ==
    /\ AllTaken(j)
    /\ j.stage = "in" => j.listed /\ (j.scan = "running" \/ j.retired = "running")
    /\ j.stage = "bake" => j.bake \in {"run", "stop"}
    /\ j.stage = "out" => j.listed /\ j.scan = "running"
    /\ j.stage = "none" => j.phase = "downloading" \/ j.end = "none"

\* What the words are.
LEMMA JobWords ==
    /\ "none" \in RunWords /\ "running" \in RunWords /\ Ends \subseteq RunWords
    /\ "finished" \in Ends /\ "empty" \in Ends /\ "cancelled" \in Ends /\ "failed" \in Ends
    /\ "refused" \in Ends /\ "running" \notin Ends /\ "none" \notin Ends
    /\ "idle" \in PhaseWords /\ "reading" \in PhaseWords /\ "ready" \in PhaseWords
    /\ "downloading" \in PhaseWords
    /\ "no" \in ReadWords /\ "out" \in ReadWords /\ "ok" \in ReadWords /\ "bad" \in ReadWords
    /\ "no" \in CellWords /\ "out" \in CellWords /\ "ok" \in CellWords /\ "bad" \in CellWords
    /\ "full" \in CellWords
    /\ "none" \in EndWords /\ "finished" \in EndWords /\ "cancelled" \in EndWords
    /\ "none" \in StageWords /\ "in" \in StageWords /\ "bake" \in StageWords
    /\ "out" \in StageWords
    /\ "none" \in BakeWords /\ "run" \in BakeWords /\ "stop" \in BakeWords
    /\ "charts" \in BakeWords /\ "nothing" \in BakeWords /\ "bad" \in BakeWords
    /\ "no" \in RetiredWords /\ "running" \in RetiredWords /\ "ended" \in RetiredWords
    /\ "running" \in ScanWords /\ "read" \in ScanWords
    /\ 0 \in LeftWords /\ 1 \in LeftWords
BY DEF RunWords, PhaseWords, ReadWords, CellWords, EndWords, StageWords, BakeWords,
       RetiredWords, ScanWords, LeftWords, Ends

\* What the fields of the record are.
LEMMA JobParts ==
    ASSUME NEW j \in Jobs
    PROVE  /\ j.run \in Nat /\ j.of \in Nat
           /\ j.outcome \in {"none", "running"} \cup Ends
           /\ j.phase \in {"idle", "reading", "ready", "downloading"}
           /\ j.reading \in {"no", "out", "ok", "bad"}
           /\ j.cell \in {"no", "out", "ok", "bad", "full"}
           /\ j.end \in {"none", "finished", "cancelled"}
           /\ j.stage \in {"none", "in", "bake", "out"}
           /\ j.bake \in {"none", "run", "stop", "charts", "nothing", "bad"}
           /\ j.retired \in {"no", "running", "ended"}
           /\ j.scan \in {"running", "read"}
           /\ j.left \in 0..1
BY DEF Jobs, RunWords, PhaseWords, ReadWords, CellWords, EndWords, StageWords, BakeWords,
       RetiredWords, ScanWords, LeftWords

\* A service with nothing to adopt adopts nothing.
LEMMA AtEaseIsAdopted ==
    ASSUME NEW j, JobOK(j), AtEase(j), ~(j.stopped /\ j.retired = "running")
    PROVE  Adopt(j) = j
<1>1. TookCatalog(j) = j /\ TookCell(j) = j /\ Pump(j) = j
    BY DEF AtEase, AllTaken, AnswersTaken, TookCatalog, TookCell, Pump
<1>2. [j EXCEPT !.retired = IF @ = "ended" THEN "no" ELSE @, !.moved = FALSE] = j
    BY DEF JobOK, AtEase, AllTaken, Jobs
<1>3. StepPrepare(j) = j
    BY <1>2, JobParts
       DEF JobOK, JobHolds, AtEase, AllTaken, StepPrepare, AwaitScanIn, PollBake, AwaitScanOut
<1> QED
    BY <1>1, <1>3 DEF Adopt

\* An answer of the catalog is taken.
LEMMA TookCatalogKeeps ==
    ASSUME NEW j, JobOK(j), NEW k, k = TookCatalog(j)
    PROVE  JobOK(k) /\ k.run = j.run /\ k.reading \in {"no", "out"}
<1>1. CASE j.reading \notin {"ok", "bad"}
    BY <1>1, JobParts DEF TookCatalog, JobOK
<1>2. CASE j.reading \in {"ok", "bad"}
    <2> DEFINE c == j.cat \/ j.reading = "ok"
               p == IF j.phase = "downloading" THEN j.phase
                    ELSE IF c THEN "ready" ELSE "idle"
    <2>1. k = [j EXCEPT !.cat = c, !.reading = "no", !.phase = p]
        BY <1>2 DEF TookCatalog, AtRest, JobOK, Jobs
    <2>2. /\ c \in BOOLEAN /\ p \in PhaseWords /\ p # "reading"
          /\ (p = "downloading" <=> j.phase = "downloading")
        BY JobWords DEF JobOK, Jobs
    <2> HIDE DEF c, p
    <2>3. k \in Jobs
        BY <2>1, <2>2, JobWords, ZenonT(40) DEF JobOK, Jobs
    <2>4. JobHolds(k)
        BY <1>2, <2>1, <2>2 DEF JobOK, Jobs, JobHolds
    <2> QED
        BY <2>1, <2>3, <2>4 DEF JobOK, Jobs
<1> QED
    BY <1>1, <1>2

\* An answer of a transfer is taken.
LEMMA TookCellKeeps ==
    ASSUME NEW j, JobOK(j), NEW k, k = TookCell(j)
    PROVE  JobOK(k) /\ k.run = j.run /\ k.reading = j.reading /\ k.cell \in {"no", "out"}
<1>1. CASE j.cell = "ok"
    BY <1>1, JobWords DEF TookCell, JobOK, Jobs, JobHolds
<1>2. CASE j.cell = "bad"
    BY <1>2, JobWords DEF TookCell, JobOK, Jobs, JobHolds
<1>3. CASE j.cell = "full"
    BY <1>3, JobWords DEF TookCell, JobOK, Jobs, JobHolds
<1>4. CASE j.cell \in {"no", "out"}
    BY <1>4 DEF TookCell
<1> QED
    BY <1>1, <1>2, <1>3, <1>4, JobParts DEF JobOK

\* The transfers go on, or are over.
LEMMA PumpKeeps ==
    ASSUME NEW j, JobOK(j), NEW k, k = Pump(j)
    PROVE  /\ JobOK(k) /\ k.run = j.run /\ k.reading = j.reading
           /\ j.cell \in {"no", "out"} =>
                 k.cell \in {"no", "out"} /\ (k.phase = "downloading" => k.cell = "out")
<1>1. CASE j.phase # "downloading" \/ j.cell # "no"
    BY <1>1 DEF Pump
<1>2. CASE j.phase = "downloading" /\ j.cell = "no" /\ j.left > 0
    <2>1. k = [j EXCEPT !.cell = "out", !.left = @ - 1]
        BY <1>2 DEF Pump
    <2>2. j.left - 1 \in LeftWords
        BY <1>2, JobParts DEF JobOK, LeftWords
    <2> QED
        BY <1>2, <2>1, <2>2, JobWords, ZenonT(40) DEF JobOK, Jobs, JobHolds
<1>3. CASE j.phase = "downloading" /\ j.cell = "no" /\ ~(j.left > 0)
    <2>1. CASE j.done
        <3>1. k = [j EXCEPT !.phase = "ready", !.end = "finished"]
            BY <1>3, <2>1 DEF Pump
        <3> QED
            BY <1>3, <3>1, JobWords, ZenonT(40) DEF JobOK, Jobs, JobHolds
    <2>2. CASE ~j.done
        <3>1. k = [j EXCEPT !.phase = "ready", !.outcome = "failed"]
            BY <1>3, <2>2 DEF Pump
        <3> QED
            BY <1>3, <3>1, JobWords, ZenonT(40) DEF JobOK, Jobs, JobHolds
    <2> QED
        BY <2>1, <2>2
<1> QED
    BY <1>1, <1>2, <1>3

\* The fields of a prepare are cleared, and no other.
LEMMA ClearedKeeps ==
    ASSUME NEW j \in Jobs, NEW k, k = Cleared(j)
    PROVE  /\ k \in Jobs
           /\ k.run = j.run /\ k.of = 0 /\ k.phase = j.phase /\ k.end = j.end
           /\ k.outcome = j.outcome /\ k.cell = j.cell /\ k.reading = j.reading
           /\ k.retired = j.retired /\ k.moved = j.moved
           /\ k.stage = "none" /\ k.bake = "none"
<1>1. k = [j EXCEPT !.stage = "none", !.forRun = FALSE, !.of = 0, !.stopped = FALSE,
                    !.bake = "none"]
    BY DEF Cleared
<1>2. "none" \in StageWords /\ "none" \in BakeWords
    BY JobWords
<1> DEFINE n == [j EXCEPT !.stage = "none", !.forRun = FALSE, !.of = 0]
<1>3. n \in Jobs
    BY <1>2 DEF Jobs
<1>4. k = [n EXCEPT !.stopped = FALSE, !.bake = "none"]
    BY <1>1 DEF Jobs
<1> HIDE DEF n
<1>5. k \in Jobs
    BY <1>2, <1>3, <1>4, ZenonT(40) DEF Jobs
<1> QED
    BY <1>1, <1>5 DEF Jobs

\* The prepare is over: with it, the run it was for.
LEMMA FinishPrepareKeeps ==
    ASSUME NEW j, JobOK(j), j.stage # "none", NEW k, k = FinishPrepare(j)
    PROVE  /\ JobOK(k) /\ k.run = j.run /\ k.stage = "none" /\ k.end = "none"
           /\ AllTaken(j) => AllTaken(k)
<1> DEFINE how == CASE j.stopped \/ j.end = "cancelled" -> "cancelled"
                    [] j.bake = "bad" -> "failed"
                    [] j.bake = "nothing" -> "empty"
                    [] OTHER -> "finished"
           n == IF Waiting(j) THEN [j EXCEPT !.end = "none", !.outcome = how] ELSE j
<1>1. k = Cleared(n) /\ how \in Ends
    BY JobWords DEF FinishPrepare
<1> HIDE DEF how
<1>2. /\ n \in Jobs /\ n.run = j.run /\ n.phase = j.phase /\ n.end = "none"
      /\ n.outcome # "running" /\ n.cell = j.cell /\ n.reading = j.reading
      /\ n.retired = j.retired /\ n.moved = j.moved /\ n.phase # "downloading"
    <2>1. CASE Waiting(j)
        <3>1. n = [j EXCEPT !.end = "none", !.outcome = how]
            BY <2>1
        <3>2. how # "running" /\ how \in RunWords
            BY <1>1, JobWords
        <3> HIDE DEF n
        <3>3. n \in Jobs
            BY <3>1, <3>2, JobWords DEF JobOK, Jobs
        <3> QED
            BY <3>1, <3>2, <3>3 DEF JobOK, Jobs, JobHolds
    <2>2. CASE ~Waiting(j)
        BY <2>2 DEF JobOK, JobHolds, Waiting
    <2> QED
        BY <2>1, <2>2
<1> HIDE DEF n
<1>3. /\ k \in Jobs
      /\ k.run = n.run /\ k.of = 0 /\ k.phase = n.phase /\ k.end = n.end
      /\ k.outcome = n.outcome /\ k.cell = n.cell /\ k.reading = n.reading
      /\ k.retired = n.retired /\ k.moved = n.moved /\ k.stage = "none" /\ k.bake = "none"
    BY <1>1, <1>2, ClearedKeeps
<1>4. 0 <= j.run
    BY DEF JobOK, Jobs
<1>5. JobHolds(k)
    BY <1>2, <1>3, <1>4 DEF JobOK, JobHolds
<1> QED
    BY <1>2, <1>3, <1>5 DEF JobOK, AllTaken, AnswersTaken

\* The prepare waits for the last scan, or is over.
LEMMA AwaitScanOutKeeps ==
    ASSUME NEW j, JobOK(j), AllTaken(j), j.stage = "out", NEW k, k = AwaitScanOut(j)
    PROVE  JobOK(k) /\ AtEase(k) /\ k.run = j.run
<1>1. CASE j.listed /\ j.scan = "running"
    BY <1>1 DEF AwaitScanOut, AtEase
<1>2. CASE ~(j.listed /\ j.scan = "running")
    BY <1>2, FinishPrepareKeeps DEF AwaitScanOut, AtEase
<1> QED
    BY <1>1, <1>2

\* The prepare waits for the scan before it, or bakes, or is over.
LEMMA AwaitScanInKeeps ==
    ASSUME NEW j, JobOK(j), AllTaken(j), j.stage = "in", NEW k, k = AwaitScanIn(j)
    PROVE  JobOK(k) /\ AtEase(k) /\ k.run = j.run
<1> DEFINE gone == [j EXCEPT !.stopped = TRUE]
           put == [j EXCEPT !.noted = TRUE]
<1>1. JobOK(gone) /\ AllTaken(gone) /\ gone.stage = "in" /\ gone.run = j.run
    BY DEF JobOK, Jobs, JobHolds, AllTaken, AnswersTaken
<1>2. JobOK(put) /\ AllTaken(put) /\ put.stage = "in" /\ put.run = j.run
    BY DEF JobOK, Jobs, JobHolds, AllTaken, AnswersTaken
<1>3. CASE k = FinishPrepare(gone)
    <2> HIDE DEF gone
    <2> QED
        BY <1>1, <1>3, FinishPrepareKeeps DEF AtEase
<1>4. CASE k = FinishPrepare(put)
    <2> HIDE DEF put
    <2> QED
        BY <1>2, <1>4, FinishPrepareKeeps DEF AtEase
<1>5. CASE k = FinishPrepare(j)
    BY <1>5, FinishPrepareKeeps DEF AtEase
<1>6. CASE k = j /\ j.listed /\ (j.scan = "running" \/ j.retired # "no")
    BY <1>6, JobParts DEF JobOK, AtEase, AllTaken
<1>7. CASE k = [j EXCEPT !.stage = "bake", !.bake = "run"] /\ j.retired = "no"
    <2>1. k \in Jobs
        BY <1>7, JobWords, ZenonT(40) DEF JobOK, Jobs
    <2>2. JobHolds(k) /\ k.run = j.run
        BY <1>7 DEF JobOK, Jobs, JobHolds
    <2>3. AtEase(k)
        BY <1>7 DEF JobOK, Jobs, AtEase, AllTaken, AnswersTaken
    <2> QED
        BY <2>1, <2>2, <2>3 DEF JobOK
<1> QED
    BY <1>3, <1>4, <1>5, <1>6, <1>7, JobParts DEF AwaitScanIn, JobOK

\* A prepare begins: of the run that awaits it, or again of the set it left off.
LEMMA BeginPrepareKeeps ==
    ASSUME NEW j, JobOK(j), AllTaken(j), j.stage = "none", j.phase # "downloading",
           NEW forRun \in BOOLEAN, j.end # "none" => forRun,
           NEW k, k = BeginPrepare(j, forRun)
    PROVE  JobOK(k) /\ AtEase(k) /\ k.run = j.run
<1> DEFINE l == j.listed \/ forRun
           s == IF forRun THEN "running" ELSE j.scan
           t == forRun /\ j.stopNext
           n == [j EXCEPT !.stage = "in", !.forRun = forRun, !.of = j.run, !.listed = l,
                          !.scan = s, !.stopped = t, !.stopNext = FALSE]
<1>1. k = AwaitScanIn(n)
    BY DEF BeginPrepare
<1>2. l \in BOOLEAN /\ s \in ScanWords /\ t \in BOOLEAN
    BY JobWords DEF JobOK, Jobs
<1> HIDE DEF l, s, t
<1>3. n \in Jobs
    BY <1>2, JobWords DEF JobOK, Jobs
<1>4. /\ n.run = j.run /\ n.of = j.run /\ n.phase = j.phase /\ n.end = j.end
      /\ n.outcome = j.outcome /\ n.cell = j.cell /\ n.reading = j.reading
      /\ n.retired = j.retired /\ n.moved = j.moved /\ n.stage = "in" /\ n.bake = j.bake
      /\ n.forRun = forRun
    BY DEF JobOK, Jobs
<1> HIDE DEF n
<1>5. j.run <= j.run
    BY DEF JobOK, Jobs
<1>6. JobHolds(n)
    BY <1>4, <1>5 DEF JobOK, JobHolds
<1>7. AllTaken(n)
    BY <1>4 DEF AllTaken, AnswersTaken
<1> QED
    BY <1>1, <1>3, <1>4, <1>6, <1>7, AwaitScanInKeeps DEF JobOK

\* A bake that came to its end is followed by the last scan.
LEMMA PollBakeKeeps ==
    ASSUME NEW j, JobOK(j), AllTaken(j), j.stage = "bake", NEW k, k = PollBake(j)
    PROVE  JobOK(k) /\ AtEase(k) /\ k.run = j.run
<1>1. CASE j.bake \in {"run", "stop"}
    BY <1>1 DEF PollBake, AtEase
<1>2. CASE j.bake \notin {"run", "stop"}
    <2> DEFINE m == j.noted \/ j.stopped \/ j.bake = "bad"
               s == IF j.listed THEN "running" ELSE j.scan
               n == [j EXCEPT !.noted = m, !.scan = s, !.stage = "out"]
    <2>1. k = AwaitScanOut(n)
        BY <1>2 DEF PollBake
    <2>2. m \in BOOLEAN /\ s \in ScanWords
        BY JobWords DEF JobOK, Jobs
    <2> HIDE DEF m, s
    <2>3. n \in Jobs
        BY <2>2, JobWords DEF JobOK, Jobs
    <2>4. JobHolds(n) /\ AllTaken(n) /\ n.run = j.run /\ n.stage = "out"
        BY <1>2 DEF JobOK, Jobs, JobHolds, AllTaken, AnswersTaken
    <2> HIDE DEF n
    <2> QED
        BY <2>1, <2>3, <2>4, AwaitScanOutKeeps DEF JobOK
<1> QED
    BY <1>1, <1>2

\* One turn of the prepare leaves it waiting for something that is still to come.
LEMMA StepPrepareKeeps ==
    ASSUME NEW j, JobOK(j), AnswersTaken(j), NEW k, k = StepPrepare(j)
    PROVE  JobOK(k) /\ AtEase(k) /\ k.run = j.run
<1> DEFINE r == IF j.retired = "ended" THEN "no" ELSE j.retired
           s == [j EXCEPT !.retired = r, !.moved = FALSE]
<1>1. r \in RetiredWords /\ r # "ended" /\ (j.retired = "no" => r = "no")
    BY JobWords DEF JobOK, Jobs
<1> HIDE DEF r
<1>2. s \in Jobs
    BY <1>1 DEF JobOK, Jobs
<1>3. /\ s.run = j.run /\ s.stage = j.stage /\ s.phase = j.phase /\ s.end = j.end
      /\ s.cell = j.cell /\ s.reading = j.reading /\ s.retired = r /\ s.moved = FALSE
      /\ s.listed = j.listed /\ s.scan = j.scan
    BY DEF JobOK, Jobs
<1>4. JobHolds(s)
    BY <1>1 DEF JobOK, Jobs, JobHolds
<1>5. JobOK(s) /\ AllTaken(s)
    BY <1>1, <1>2, <1>3, <1>4 DEF JobOK, AllTaken, AnswersTaken
<1>6. k = CASE j.stage = "in"   -> AwaitScanIn(s)
            [] j.stage = "bake" -> PollBake(s)
            [] j.stage = "out"  -> AwaitScanOut(s)
            [] OTHER ->
                  CASE j.phase = "downloading" -> s
                    [] j.phase # "downloading" /\ j.end # "none" -> BeginPrepare(s, TRUE)
                    [] OTHER -> IF j.moved /\ Resumable(j) THEN BeginPrepare(s, FALSE) ELSE s
    BY DEF StepPrepare, r
<1> HIDE DEF s
<1>7. CASE j.stage = "in"
    BY <1>3, <1>5, <1>6, <1>7, AwaitScanInKeeps
<1>8. CASE j.stage = "bake"
    BY <1>3, <1>5, <1>6, <1>8, PollBakeKeeps
<1>9. CASE j.stage = "out"
    BY <1>3, <1>5, <1>6, <1>9, AwaitScanOutKeeps
<1>10. CASE j.stage = "none"
    <2>1. CASE k = s /\ (j.phase = "downloading" \/ j.end = "none")
        BY <1>3, <1>5, <1>10, <2>1 DEF AtEase
    <2>2. CASE j.phase # "downloading" /\ j.end # "none" /\ k = BeginPrepare(s, TRUE)
        BY <1>3, <1>5, <1>10, <2>2, BeginPrepareKeeps
    <2>3. CASE j.phase # "downloading" /\ j.end = "none" /\ k = BeginPrepare(s, FALSE)
        BY <1>3, <1>5, <1>10, <2>3, BeginPrepareKeeps
    <2> QED
        BY <1>6, <1>10, <2>1, <2>2, <2>3
<1> QED
    BY <1>7, <1>8, <1>9, <1>10, JobParts DEF JobOK

\* A service that has adopted has nothing more to adopt.
LEMMA AdoptKeeps ==
    ASSUME NEW j, JobOK(j), NEW k, k = Adopt(j)
    PROVE  JobOK(k) /\ AtEase(k) /\ k.run = j.run
<1> DEFINE a == TookCatalog(j)
           b == TookCell(a)
           c == Pump(b)
<1>1. JobOK(a) /\ a.run = j.run /\ a.reading \in {"no", "out"}
    BY TookCatalogKeeps
<1> HIDE DEF a
<1>2. JobOK(b) /\ b.run = j.run /\ b.reading \in {"no", "out"} /\ b.cell \in {"no", "out"}
    BY <1>1, TookCellKeeps
<1> HIDE DEF b
<1>3. JobOK(c) /\ c.run = j.run /\ AnswersTaken(c)
    BY <1>2, PumpKeeps DEF AnswersTaken
<1>4. k = StepPrepare(c)
    BY DEF Adopt, a, b
<1> HIDE DEF c
<1> QED
    BY <1>3, <1>4, StepPrepareKeeps

\* A read of the catalog is asked for.
LEMMA RefreshCatalogKeeps ==
    ASSUME NEW j, JobOK(j), NEW cached \in BOOLEAN, NEW k, k = RefreshCatalog(j, cached)
    PROVE  /\ JobOK(k) /\ k.run = j.run /\ (k = j \/ k.reading = "out")
           /\ k.retired = j.retired /\ k.stopped = j.stopped
           /\ AtEase(j) => AtEase(k)
<1>1. CASE j.reading # "no"
    BY <1>1 DEF RefreshCatalog
<1>2. CASE j.reading = "no"
    <2> DEFINE c == j.cat \/ cached
               p == IF j.phase = "downloading" THEN j.phase ELSE "reading"
    <2>1. k = [j EXCEPT !.cat = c, !.reading = "out", !.phase = p]
        BY <1>2 DEF RefreshCatalog, JobOK, Jobs
    <2>2. /\ c \in BOOLEAN /\ p \in PhaseWords
          /\ (p = "downloading" <=> j.phase = "downloading")
        BY JobWords DEF JobOK, Jobs
    <2> HIDE DEF c, p
    <2>3. k \in Jobs
        BY <2>1, <2>2, JobWords, ZenonT(40) DEF JobOK, Jobs
    <2>4. JobHolds(k)
        BY <1>2, <2>1, <2>2 DEF JobOK, Jobs, JobHolds
    <2>5. AtEase(j) => AtEase(k)
        BY <1>2, <2>1, <2>2 DEF JobOK, Jobs, AtEase, AllTaken, AnswersTaken
    <2> QED
        BY <2>1, <2>3, <2>4, <2>5 DEF JobOK, Jobs
<1> QED
    BY <1>1, <1>2

\* The transfers are over at once; what has arrived is still to be prepared.
LEMMA CancelAllKeeps ==
    ASSUME NEW j, JobOK(j), NEW k, k = CancelAll(j)
    PROVE  /\ JobOK(k) /\ k.run = j.run /\ k.cell = "no" /\ k.reading = "no"
           /\ k.phase \notin {"downloading", "reading"} /\ k.stage = j.stage
           /\ k.bake = j.bake /\ k.retired = j.retired /\ k.moved = j.moved
           /\ k.listed = j.listed /\ k.scan = j.scan /\ k.cat = j.cat
           /\ k.of = j.of /\ k.forRun = j.forRun /\ k.retry = j.retry
           /\ j.phase # "downloading" => k.end = j.end /\ k.outcome = j.outcome
           /\ j.phase \notin {"downloading", "reading"} => k.phase = j.phase
<1> DEFINE p == IF j.phase \in {"downloading", "reading"} THEN AtRest(j) ELSE j.phase
           s == [j EXCEPT !.reading = "no", !.cell = "no", !.left = 0, !.phase = p]
<1>1. p \in PhaseWords /\ p \notin {"downloading", "reading"}
      /\ (j.phase \notin {"downloading", "reading"} => p = j.phase)
    BY JobWords DEF JobOK, Jobs, AtRest
<1>2. k = CASE j.phase # "downloading" -> s
            [] j.phase = "downloading" /\ j.done -> [s EXCEPT !.end = "cancelled"]
            [] OTHER -> [s EXCEPT !.outcome = "cancelled"]
    BY DEF CancelAll
<1> HIDE DEF p
<1>3. s \in Jobs
    BY <1>1, JobWords DEF JobOK, Jobs
<1>4. /\ s.run = j.run /\ s.cell = "no" /\ s.reading = "no" /\ s.phase = p
      /\ s.stage = j.stage /\ s.bake = j.bake /\ s.retired = j.retired /\ s.moved = j.moved
      /\ s.listed = j.listed /\ s.scan = j.scan /\ s.cat = j.cat /\ s.end = j.end
      /\ s.outcome = j.outcome /\ s.of = j.of /\ s.forRun = j.forRun /\ s.retry = j.retry
    BY DEF JobOK, Jobs
<1> HIDE DEF s
<1>5. CASE j.phase # "downloading"
    BY <1>1, <1>2, <1>3, <1>4, <1>5 DEF JobOK, JobHolds
<1>6. CASE j.phase = "downloading" /\ j.done
    <2>1. k = [s EXCEPT !.end = "cancelled"]
        BY <1>2, <1>6
    <2>2. k \in Jobs
        BY <1>3, <2>1, JobWords DEF Jobs
    <2>3. /\ k.run = s.run /\ k.cell = s.cell /\ k.reading = s.reading /\ k.phase = s.phase
          /\ k.stage = s.stage /\ k.bake = s.bake /\ k.retired = s.retired
          /\ k.moved = s.moved /\ k.listed = s.listed /\ k.scan = s.scan /\ k.cat = s.cat
          /\ k.end = "cancelled" /\ k.outcome = s.outcome /\ k.of = s.of
          /\ k.forRun = s.forRun /\ k.retry = s.retry
        BY <1>3, <2>1 DEF Jobs
    <2> QED
        BY <1>1, <1>4, <1>6, <2>2, <2>3 DEF JobOK, JobHolds
<1>7. CASE j.phase = "downloading" /\ ~j.done
    <2>1. k = [s EXCEPT !.outcome = "cancelled"]
        BY <1>2, <1>7
    <2>2. k \in Jobs
        BY <1>3, <2>1, JobWords DEF Jobs
    <2>3. /\ k.run = s.run /\ k.cell = s.cell /\ k.reading = s.reading /\ k.phase = s.phase
          /\ k.stage = s.stage /\ k.bake = s.bake /\ k.retired = s.retired
          /\ k.moved = s.moved /\ k.listed = s.listed /\ k.scan = s.scan /\ k.cat = s.cat
          /\ k.end = s.end /\ k.outcome = "cancelled" /\ k.of = s.of
          /\ k.forRun = s.forRun /\ k.retry = s.retry
        BY <1>3, <2>1 DEF Jobs
    <2> QED
        BY <1>1, <1>4, <1>7, <2>2, <2>3 DEF JobOK, JobHolds
<1> QED
    BY <1>5, <1>6, <1>7

\* A stop of what runs.  With no answer to come from the site, it leaves the service
\* with nothing to adopt, and shown as it was.
LEMMA CancelKeeps ==
    ASSUME NEW j, JobOK(j), NEW k, k = Cancel(j)
    PROVE  /\ JobOK(k) /\ k.run = j.run
           /\ AtEase(j) /\ j.reading # "out" /\ j.cell # "out" =>
                 AtEase(k) /\ Published(k) = Published(j)
<1> DEFINE s == CancelAll(j)
<1>1. /\ JobOK(s) /\ s.run = j.run /\ s.cell = "no" /\ s.reading = "no"
      /\ s.phase \notin {"downloading", "reading"} /\ s.stage = j.stage
      /\ s.bake = j.bake /\ s.retired = j.retired /\ s.moved = j.moved
      /\ s.listed = j.listed /\ s.scan = j.scan /\ s.cat = j.cat
      /\ s.of = j.of /\ s.forRun = j.forRun /\ s.retry = j.retry
      /\ j.phase # "downloading" => s.end = j.end /\ s.outcome = j.outcome
      /\ j.phase \notin {"downloading", "reading"} => s.phase = j.phase
    BY CancelAllKeeps
<1>2. k = CASE j.stage = "none" ->
                 IF j.phase # "downloading" /\ j.end # "none"
                 THEN [s EXCEPT !.end = "cancelled", !.stopNext = TRUE] ELSE s
            [] j.stage = "in"   -> [s EXCEPT !.stopped = TRUE]
            [] j.stage = "bake" ->
                 [s EXCEPT !.stopped = TRUE, !.bake = IF @ = "run" THEN "stop" ELSE @]
            [] OTHER -> s
    BY DEF Cancel
<1> HIDE DEF s
<1>3. ASSUME AtEase(j), j.reading # "out", j.cell # "out"
      PROVE  /\ AllTaken(s) /\ s.phase = j.phase /\ s.end = j.end /\ s.outcome = j.outcome
             /\ j.phase # "downloading" /\ Published(s) = Published(j)
    <2>1. j.phase \notin {"downloading", "reading"}
        BY <1>3 DEF AtEase, AllTaken, AnswersTaken, JobOK, JobHolds
    <2> QED
        BY <1>1, <1>3, <2>1 DEF AtEase, AllTaken, AnswersTaken, Published
<1>4. CASE k = s
    BY <1>1, <1>3, <1>4 DEF AtEase
<1>5. CASE /\ j.stage = "none" /\ j.phase # "downloading" /\ j.end # "none"
           /\ k = [s EXCEPT !.end = "cancelled", !.stopNext = TRUE]
    <2>1. k \in Jobs /\ JobHolds(k) /\ k.run = s.run
        <3>1. s \in Jobs /\ JobHolds(s)
            BY <1>1 DEF JobOK
        <3>2. k \in Jobs
            BY <1>5, <3>1, JobWords, ZenonT(40) DEF Jobs
        <3> QED
            BY <1>1, <1>5, <3>1, <3>2 DEF Jobs, JobHolds
    <2>2. ~AtEase(j)
        BY <1>5 DEF AtEase
    <2> QED
        BY <1>1, <2>1, <2>2 DEF JobOK
<1>6. CASE j.stage = "in" /\ k = [s EXCEPT !.stopped = TRUE]
    <2>1. k \in Jobs /\ JobHolds(k) /\ k.run = s.run
        <3>1. s \in Jobs /\ JobHolds(s)
            BY <1>1 DEF JobOK
        <3>2. k \in Jobs
            BY <1>6, <3>1, JobWords DEF Jobs
        <3> QED
            BY <1>1, <1>6, <3>1, <3>2 DEF Jobs, JobHolds
    <2>2. AllTaken(s) => AllTaken(k)
        BY <1>1, <1>6 DEF JobOK, Jobs, AllTaken, AnswersTaken
    <2>3. k.stage = "in" /\ k.listed = s.listed /\ k.scan = s.scan /\ k.retired = s.retired
        BY <1>1, <1>6 DEF JobOK, Jobs
    <2>4. Published(k) = Published(s)
        BY <1>1, <1>6 DEF JobOK, Jobs, Published
    <2> QED
        BY <1>1, <1>3, <1>6, <2>1, <2>2, <2>3, <2>4 DEF JobOK, AtEase
<1>7. CASE /\ j.stage = "bake"
           /\ k = [s EXCEPT !.stopped = TRUE, !.bake = IF @ = "run" THEN "stop" ELSE @]
    <2> DEFINE b == IF s.bake = "run" THEN "stop" ELSE s.bake
    <2>1. k = [s EXCEPT !.stopped = TRUE, !.bake = b]
        BY <1>1, <1>7 DEF JobOK, Jobs
    <2>2. b \in BakeWords /\ (b \in {"run", "stop"} <=> s.bake \in {"run", "stop"})
          /\ (b = "none" <=> s.bake = "none")
        BY <1>1, JobWords DEF JobOK, Jobs
    <2> HIDE DEF b
    <2>3. k \in Jobs /\ JobHolds(k) /\ k.run = s.run
        <3>1. s \in Jobs /\ JobHolds(s)
            BY <1>1 DEF JobOK
        <3>2. k \in Jobs
            BY <2>1, <2>2, <3>1, JobWords DEF Jobs
        <3> QED
            BY <1>1, <2>1, <2>2, <3>1, <3>2 DEF Jobs, JobHolds
    <2>4. AllTaken(s) => AllTaken(k)
        BY <1>1, <2>1 DEF JobOK, Jobs, AllTaken, AnswersTaken
    <2>5. k.stage = "bake" /\ k.bake = b
        BY <1>1, <1>7, <2>1 DEF JobOK, Jobs
    <2>6. Published(k) = Published(s)
        BY <1>1, <2>1 DEF JobOK, Jobs, Published
    <2> QED
        BY <1>1, <1>3, <1>7, <2>2, <2>3, <2>4, <2>5, <2>6 DEF JobOK, AtEase
<1> QED
    BY <1>2, <1>4, <1>5, <1>6, <1>7

\* A prepare that is dropped ends the run it was for; or it was for an earlier run
\* than a download just begun.
LEMMA DropPrepareKeeps ==
    ASSUME NEW j \in Jobs, NEW wait \in BOOLEAN, NEW k, k = DropPrepare(j, wait),
           \/ JobHolds(j)
           \/ /\ j.phase = "downloading" /\ j.outcome = "running" /\ j.end = "none"
              /\ j.of < j.run
              /\ j.bake \in {"run", "stop"} => j.retired = "no"
              /\ j.bake # "none" => j.stage # "none"
    PROVE  JobOK(k) /\ k.run = j.run
<1>1. CASE j.stage = "none"
    <2>1. JobHolds(j)
        BY <1>1, JobParts DEF JobHolds
    <2> QED
        BY <1>1, <2>1 DEF DropPrepare, JobOK
<1>2. CASE j.stage # "none"
    <2> DEFINE bakes == j.bake \in {"run", "stop"}
               r == IF bakes /\ ~wait THEN "running" ELSE j.retired
               m == j.made \/ (bakes /\ wait)
               s == IF Waiting(j) THEN [j EXCEPT !.end = "none", !.outcome = "cancelled"]
                    ELSE j
               n == [s EXCEPT !.retired = r, !.made = m]
    <2>1. /\ s \in Jobs /\ s.run = j.run /\ s.phase = j.phase /\ s.cell = j.cell
          /\ s.reading = j.reading /\ s.retired = j.retired /\ s.made = j.made
        <3>1. CASE Waiting(j)
            BY <3>1, JobWords DEF Jobs
        <3>2. CASE ~Waiting(j)
            BY <3>2
        <3> QED
            BY <3>1, <3>2
    <2>2. s.end = "none" /\ (s.outcome = "running" <=> j.phase = "downloading")
        <3>1. CASE Waiting(j)
            <4>1. j.phase # "downloading"
                BY <1>2, <3>1, JobParts DEF JobHolds, Waiting
            <4>2. s.end = "none" /\ s.outcome = "cancelled"
                BY <3>1 DEF Jobs
            <4> QED
                BY <4>1, <4>2
        <3>2. CASE ~Waiting(j)
            BY <1>2, <3>2 DEF JobHolds, Waiting
        <3> QED
            BY <3>1, <3>2
    <2>3. r \in RetiredWords /\ m \in BOOLEAN
        BY JobWords DEF Jobs
    <2>4. k = Cleared(n)
        <3>1. [s EXCEPT !.retired = IF bakes /\ ~wait THEN "running" ELSE @,
                        !.made = @ \/ (bakes /\ wait)] = n
            BY <2>1
        <3> QED
            BY <1>2, <3>1 DEF DropPrepare
    <2>5. j.cell # "no" => j.phase = "downloading"
        BY DEF JobHolds
    <2>6. j.phase = "reading" => j.reading # "no"
        BY DEF JobHolds
    <2> HIDE DEF s, r, m
    <2>7. n \in Jobs
        BY <2>1, <2>3 DEF Jobs
    <2>8. /\ n.run = j.run /\ n.phase = j.phase /\ n.cell = j.cell /\ n.reading = j.reading
          /\ n.end = s.end /\ n.outcome = s.outcome
        BY <2>1 DEF Jobs
    <2> HIDE DEF n
    <2>9. /\ k \in Jobs
          /\ k.run = n.run /\ k.of = 0 /\ k.phase = n.phase /\ k.end = n.end
          /\ k.outcome = n.outcome /\ k.cell = n.cell /\ k.reading = n.reading
          /\ k.stage = "none" /\ k.bake = "none"
        BY <2>4, <2>7, ClearedKeeps
    <2>10. 0 <= j.run
        BY DEF Jobs
    <2>11. JobHolds(k)
        BY <2>2, <2>5, <2>6, <2>8, <2>9, <2>10 DEF JobHolds
    <2> QED
        BY <2>8, <2>9, <2>11 DEF JobOK
<1> QED
    BY <1>1, <1>2

\* A run is numbered and carried, or ends at once.
LEMMA StartRunKeeps ==
    ASSUME NEW j, JobOK(j), NEW plan \in Plans, NEW disk \in BOOLEAN,
           NEW k, k = StartRun(j, plan, disk)
    PROVE  JobOK(k) /\ k.run \in {j.run, j.run + 1}
<1> DEFINE c == CancelAll(j)
           n == j.run + 1
           s == [BeginRun(c) EXCEPT !.done = FALSE]
           b == BeginOrder(j, plan, disk)
<1>1. /\ JobOK(c) /\ c.run = j.run /\ c.cell = "no" /\ c.reading = "no"
      /\ c.phase \notin {"downloading", "reading"} /\ c.bake = c.bake
    BY CancelAllKeeps
<1>2. n \in Nat /\ n # j.run /\ c.of < n /\ j.of < n /\ j.of <= n /\ c.of <= n
    BY <1>1 DEF JobOK, Jobs, JobHolds
<1>3. s = [c EXCEPT !.run = n, !.outcome = "running", !.retry = FALSE, !.end = "none",
                    !.done = FALSE]
    BY <1>1 DEF BeginRun, JobOK, Jobs
<1> HIDE DEF c, s, n
<1>4. s \in Jobs
    BY <1>1, <1>2, <1>3, JobWords, ZenonT(40) DEF JobOK, Jobs
<1>5. /\ s.run = n /\ s.outcome = "running" /\ s.end = "none" /\ s.cell = "no"
      /\ s.reading = "no" /\ s.phase = c.phase /\ s.of = c.of /\ s.forRun = c.forRun
      /\ s.stage = c.stage /\ s.bake = c.bake /\ s.retired = c.retired
    BY <1>1, <1>3 DEF JobOK, Jobs
<1>6. CASE ~j.cat
    <2>1. CASE j.phase = "downloading"
        BY <1>6, <2>1 DEF StartRun, BeginOrder, Refuse
    <2>2. CASE j.phase # "downloading"
        <3> DEFINE r == [BeginRun(j) EXCEPT !.outcome = "refused", !.retry = TRUE]
        <3>1. r = [j EXCEPT !.run = n, !.outcome = "refused", !.retry = TRUE, !.end = "none"]
            BY DEF BeginRun, n, JobOK, Jobs
        <3>2. b = r
            BY <1>6, <2>2 DEF BeginOrder, Refuse
        <3> HIDE DEF r
        <3>3. r \in Jobs
            BY <1>2, <3>1, JobWords DEF JobOK, Jobs
        <3>4. JobHolds(r) /\ r.run = n /\ r.phase # "downloading"
            BY <1>2, <2>2, <3>1 DEF JobOK, Jobs, JobHolds
        <3>5. k = r
            BY <3>2, <3>4 DEF StartRun
        <3> QED
            BY <3>3, <3>4, <3>5 DEF JobOK, n
    <2> QED
        BY <2>1, <2>2
<1>7. ASSUME NEW how \in {"empty", "refused"}, b = [s EXCEPT !.outcome = how]
      PROVE  JobOK(k) /\ k.run = n
    <2>1. how \in RunWords /\ how # "running"
        BY JobWords
    <2>2. b \in Jobs
        BY <1>4, <1>7, <2>1 DEF Jobs
    <2>3. /\ b.run = n /\ b.outcome = how /\ b.end = "none" /\ b.cell = "no"
          /\ b.reading = "no" /\ b.phase = c.phase /\ b.of = c.of /\ b.forRun = c.forRun
          /\ b.stage = c.stage /\ b.bake = c.bake /\ b.retired = c.retired
        BY <1>4, <1>5, <1>7 DEF Jobs
    <2> HIDE DEF b
    <2>4. JobHolds(b)
        BY <1>1, <1>2, <2>1, <2>3 DEF JobOK, JobHolds
    <2>5. k = b
        BY <1>1, <2>3 DEF StartRun, b
    <2> QED
        BY <2>2, <2>3, <2>4, <2>5 DEF JobOK
<1>8. ASSUME b = Pump([s EXCEPT !.phase = "downloading", !.left = 2])
      PROVE  JobOK(k) /\ k.run = n
    <2> DEFINE d == [b EXCEPT !.stopNext = FALSE]
           e == [s EXCEPT !.phase = "downloading", !.left = 2]
    <2>1. /\ e.phase = "downloading" /\ e.cell = "no" /\ e.left = 2
          /\ 2 > 0 /\ 2 - 1 = 1
        BY <1>4, <1>5 DEF Jobs
    <2>2. b = [e EXCEPT !.cell = "out", !.left = 1]
        BY <1>8, <2>1 DEF Pump
    <2> HIDE DEF b
    <2>3. b = [s EXCEPT !.phase = "downloading", !.left = 1, !.cell = "out"]
        BY <1>4, <2>2 DEF Jobs
    <2> HIDE DEF e
    <2>4. b \in Jobs
        BY <1>4, <2>3, JobWords DEF Jobs
    <2>5. /\ b.run = n /\ b.phase = "downloading" /\ b.outcome = "running" /\ b.end = "none"
          /\ b.of = c.of /\ b.stage = c.stage /\ b.bake = c.bake /\ b.retired = c.retired
        BY <1>4, <1>5, <2>3 DEF Jobs
    <2>6. /\ d \in Jobs /\ d.run = b.run /\ d.phase = b.phase /\ d.outcome = b.outcome
          /\ d.end = b.end /\ d.of = b.of /\ d.stage = b.stage /\ d.bake = b.bake
          /\ d.retired = b.retired
        BY <2>4 DEF Jobs
    <2>7. k = DropPrepare(d, FALSE)
        BY <1>2, <2>5 DEF StartRun, b
    <2> HIDE DEF d
    <2>8. /\ d.of < d.run
          /\ d.bake \in {"run", "stop"} => d.retired = "no"
          /\ d.bake # "none" => d.stage # "none"
        BY <1>1, <1>2, <2>5, <2>6 DEF JobOK, JobHolds
    <2> QED
        BY <2>5, <2>6, <2>7, <2>8, DropPrepareKeeps
<1>9. CASE j.cat
    <2>1. plan = 0 \/ plan = 2
        BY DEF Plans
    <2>2. CASE plan = 0
        <3>1. b = [s EXCEPT !.outcome = "empty"]
            BY <1>9, <2>2 DEF BeginOrder, s, c
        <3> QED
            BY <1>7, <3>1 DEF n
    <2>3. CASE plan = 2 /\ ~disk
        <3>1. b = [s EXCEPT !.outcome = "refused"]
            BY <1>9, <2>3 DEF BeginOrder, s, c
        <3> QED
            BY <1>7, <3>1 DEF n
    <2>4. CASE plan = 2 /\ disk
        <3>1. b = Pump([s EXCEPT !.phase = "downloading", !.left = 2])
            BY <1>9, <2>4 DEF BeginOrder, s, c
        <3> QED
            BY <1>8, <3>1 DEF n
    <2> QED
        BY <2>1, <2>2, <2>3, <2>4
<1> QED
    BY <1>6, <1>9

\* A pick is applied: water given back ends what it reaches, and water that is new is
\* ordered.
LEMMA ApplyPicksKeeps ==
    ASSUME NEW j, JobOK(j), NEW some \in BOOLEAN, NEW gone \in BOOLEAN,
           NEW reaches \in BOOLEAN, NEW plan \in Plans, NEW disk \in BOOLEAN,
           NEW k, k = ApplyPicks(j, some, gone, reaches, plan, disk)
    PROVE  JobOK(k) /\ k.run \in {j.run, j.run + 1}
<1> DEFINE s1 == IF j.phase = "downloading" /\ reaches THEN CancelAll(j) ELSE j
           s2 == IF ~some \/ gone THEN DropPrepare(s1, TRUE) ELSE s1
           s3 == IF ~some /\ s2.end # "none"
                 THEN [s2 EXCEPT !.end = "none", !.outcome = "cancelled"] ELSE s2
           left == (s3.made \/ s3.fresh) /\ (~some \/ gone)
           s4 == CASE ~some ->
                        [s3 EXCEPT !.listed = FALSE, !.scan = "read", !.todo = FALSE,
                                   !.charts = FALSE, !.fresh = FALSE, !.made = FALSE,
                                   !.noted = FALSE]
                   [] some /\ left ->
                        [s3 EXCEPT !.scan = IF s3.listed THEN "running" ELSE @]
                   [] OTHER -> s3
<1>1. JobOK(s1) /\ s1.run = j.run
    BY CancelAllKeeps
<1> HIDE DEF s1
<1>2. JobOK(s2) /\ s2.run = j.run
    BY <1>1, DropPrepareKeeps DEF JobOK
<1> HIDE DEF s2
<1>3. JobOK(s3) /\ s3.run = j.run
    <2>1. CASE ~some /\ s2.end # "none"
        <3>1. s3 = [s2 EXCEPT !.end = "none", !.outcome = "cancelled"]
            BY <2>1
        <3> HIDE DEF s3
        <3>2. s3 \in Jobs
            BY <1>2, <3>1, JobWords DEF JobOK, Jobs
        <3>3. JobHolds(s3) /\ s3.run = s2.run
            BY <1>2, <2>1, <3>1 DEF JobOK, Jobs, JobHolds
        <3> QED
            BY <1>2, <3>2, <3>3 DEF JobOK
    <2>2. CASE ~(~some /\ s2.end # "none")
        BY <1>2, <2>2
    <2> QED
        BY <2>1, <2>2
<1> HIDE DEF s3
<1>4. JobOK(s4) /\ s4.run = j.run
    <2>1. CASE ~some
        <3>1. s4 = [s3 EXCEPT !.listed = FALSE, !.scan = "read", !.todo = FALSE,
                              !.charts = FALSE, !.fresh = FALSE, !.made = FALSE,
                              !.noted = FALSE]
            BY <2>1
        <3> HIDE DEF s4
        <3>2. s3 \in Jobs /\ "read" \in ScanWords
            BY <1>3, JobWords DEF JobOK
        <3>3. s4 \in Jobs
            BY <3>1, <3>2, ZenonT(40) DEF Jobs
        <3>4. JobHolds(s4) /\ s4.run = s3.run
            BY <1>3, <3>1, <3>2 DEF JobOK, Jobs, JobHolds
        <3> QED
            BY <1>3, <3>3, <3>4 DEF JobOK
    <2>2. CASE some /\ left
        <3> DEFINE t == IF s3.listed THEN "running" ELSE s3.scan
        <3>1. s4 = [s3 EXCEPT !.scan = t]
            BY <1>3, <2>2 DEF JobOK, Jobs
        <3>2. t \in ScanWords
            BY <1>3, JobWords DEF JobOK, Jobs
        <3> HIDE DEF s4, t
        <3>3. s4 \in Jobs
            BY <1>3, <3>1, <3>2 DEF JobOK, Jobs
        <3>4. JobHolds(s4) /\ s4.run = s3.run
            BY <1>3, <3>1 DEF JobOK, Jobs, JobHolds
        <3> QED
            BY <1>3, <3>3, <3>4 DEF JobOK
    <2>3. CASE some /\ ~left
        BY <1>3, <2>3
    <2> QED
        BY <2>1, <2>2, <2>3
<1>5. k = IF some /\ plan > 0 THEN StartRun(s4, plan, disk) ELSE s4
    BY DEF ApplyPicks, s1, s2, s3
<1> HIDE DEF s4
<1>6. CASE k = StartRun(s4, plan, disk)
    BY <1>4, <1>6, StartRunKeeps
<1>7. CASE k = s4
    BY <1>4, <1>7
<1> QED
    BY <1>5, <1>6, <1>7

\* What other threads bring: the shell is woken, and what it is shown does not move
\* before it has looked.
LEMMA ElsewhereKeeps ==
    ASSUME JobOK(job), Elsewhere, dirty \in BOOLEAN
    PROVE  /\ JobOK(job') /\ job'.run = job.run /\ job'.outcome = job.outcome
           /\ Published(job') = Published(job) /\ owed' = TRUE /\ dirty' \in BOOLEAN
<1>1. CASE CatalogAnswers
    <2>1. PICK how \in {"ok", "bad"} : job' = [job EXCEPT !.reading = how]
        BY <1>1 DEF CatalogAnswers
    <2>2. how \in ReadWords
        BY JobWords
    <2>3. job' \in Jobs
        BY <2>1, <2>2 DEF JobOK, Jobs
    <2> QED
        BY <1>1, <2>1, <2>3 DEF CatalogAnswers, JobOK, Jobs, JobHolds, Published
<1>2. CASE CellAnswers
    <2>1. PICK how \in {"ok", "bad", "full"} :
             job' = [job EXCEPT !.cell = how, !.fresh = @ \/ how = "ok",
                                !.noted = @ /\ how # "ok"]
        BY <1>2 DEF CellAnswers
    <2> DEFINE f == job.fresh \/ how = "ok"
               m == job.noted /\ how # "ok"
    <2>2. job' = [job EXCEPT !.cell = how, !.fresh = f, !.noted = m]
        BY <2>1 DEF JobOK, Jobs
    <2>3. how \in CellWords /\ f \in BOOLEAN /\ m \in BOOLEAN
        BY JobWords DEF JobOK, Jobs
    <2> HIDE DEF f, m
    <2>4. job' \in Jobs
        BY <2>2, <2>3 DEF JobOK, Jobs
    <2> QED
        BY <1>2, <2>2, <2>4 DEF CellAnswers, JobOK, Jobs, JobHolds, Published
<1>3. CASE ScanEnds
    <2>1. job' = [job EXCEPT !.scan = "read", !.todo = job.fresh, !.charts = job.made,
                             !.moved = TRUE]
        BY <1>3 DEF ScanEnds
    <2>2. job' \in Jobs
        BY <2>1, JobWords DEF JobOK, Jobs
    <2> QED
        BY <1>3, <2>1, <2>2 DEF ScanEnds, JobOK, Jobs, JobHolds, Published
<1>4. CASE BakeEnds
    <2>1. PICK how \in {"charts", "nothing", "bad"}, piece \in BOOLEAN :
             job' = [job EXCEPT !.bake = how, !.made = @ \/ piece,
                                !.fresh = @ /\ (how = "bad" \/ job.bake = "stop")]
        BY <1>4 DEF BakeEnds
    <2> DEFINE m == job.made \/ piece
               f == job.fresh /\ (how = "bad" \/ job.bake = "stop")
    <2>2. job' = [job EXCEPT !.bake = how, !.made = m, !.fresh = f]
        BY <2>1 DEF JobOK, Jobs
    <2>3. how \in BakeWords /\ m \in BOOLEAN /\ f \in BOOLEAN
        BY JobWords DEF JobOK, Jobs
    <2> HIDE DEF m, f
    <2>4. job' \in Jobs
        BY <2>2, <2>3 DEF JobOK, Jobs
    <2> QED
        BY <1>4, <2>2, <2>4 DEF BakeEnds, JobOK, Jobs, JobHolds, Published
<1>5. CASE RetiredEnds
    <2>1. job' = [job EXCEPT !.retired = "ended", !.made = TRUE]
        BY <1>5 DEF RetiredEnds
    <2>2. job' \in Jobs
        BY <2>1, JobWords DEF JobOK, Jobs
    <2> QED
        BY <1>5, <2>1, <2>2 DEF RetiredEnds, JobOK, Jobs, JobHolds, Published
<1> QED
    BY <1>1, <1>2, <1>3, <1>4, <1>5 DEF Elsewhere

-------------------------------------------------------------------------------
(* The steps of setup.                                                      *)

Setups == SetupType(Nat)

\* Setup's state over the orders numbered so far.
SetupOK(s, n) == s \in Setups /\ s.orderRun <= n

\* The facts of setup that it keeps.
FactsOK(f) == f.has \in BOOLEAN /\ f.run \in Nat

\* What is noted moves no step and no order.
LEMMA NoteKeeps ==
    ASSUME NEW s \in Setups, NEW f, NEW k, k = Note(s, f)
    PROVE  /\ k \in Setups /\ k.orderRun = s.orderRun /\ k.showing = s.showing
           /\ k.step = s.step /\ k.only = s.only
<1> DEFINE watched == s.showing /\ s.step = "importing"
           h == s.had \/ f.has
           w == s.saw \/ (watched /\ (f.work \/ (OrderEnded(s, f) /\ f.outcome = "finished")))
<1>1. k = [s EXCEPT !.had = h, !.saw = w]
    BY DEF Note, Setups, SetupType
<1>2. h \in BOOLEAN /\ w \in BOOLEAN
    OBVIOUS
<1> HIDE DEF h, w
<1> QED
    BY <1>1, <1>2 DEF Setups, SetupType

\* The import of an order is forgotten.
LEMMA ResetImportKeeps ==
    ASSUME NEW s \in Setups, NEW k, k = ResetImport(s)
    PROVE  /\ k \in Setups /\ k.orderRun = 0 /\ k.showing = s.showing /\ k.step = s.step
           /\ k.only = s.only
BY DEF ResetImport, Setups, SetupType

\* The card comes down.
LEMMA FinishKeeps ==
    ASSUME NEW s \in Setups, NEW k, k = Finish(s)
    PROVE  k \in Setups /\ k.orderRun = s.orderRun /\ ~k.showing
BY DEF Finish, Setups, SetupType, Steps

\* The card goes up.
LEMMA BeginAtKeeps ==
    ASSUME NEW s \in Setups, NEW f, FactsOK(f), NEW step \in Steps
    PROVE  /\ BeginAt(s, f, step, TRUE) \in Setups
           /\ BeginAt(s, f, step, TRUE).orderRun = 0 /\ BeginAt(s, f, step, TRUE).showing
           /\ BeginAt(s, f, step, FALSE) \in Setups
           /\ BeginAt(s, f, step, FALSE).orderRun = 0
<1> DEFINE r == ResetImport(s)
           h == f.has
<1>1. r \in Setups /\ r.orderRun = 0
    BY ResetImportKeeps
<1>2. BeginAt(s, f, step, TRUE) =
         [r EXCEPT !.step = step, !.showing = TRUE, !.only = TRUE, !.terms = FALSE]
    BY <1>1 DEF BeginAt, Setups, SetupType
<1>3. BeginAt(s, f, step, FALSE) =
         [r EXCEPT !.step = step, !.showing = TRUE, !.only = FALSE, !.terms = FALSE,
                   !.had = h]
    BY <1>1 DEF BeginAt, Setups, SetupType
<1>4. h \in BOOLEAN
    BY DEF FactsOK
<1> HIDE DEF r, h
<1> QED
    BY <1>1, <1>2, <1>3, <1>4 DEF Setups, SetupType

\* The answers to the terms.
LEMMA TermsKeeps ==
    ASSUME NEW s \in Setups
    PROVE  /\ Agree(s) \in Setups /\ Agree(s).orderRun = s.orderRun
           /\ Decline(s) \in Setups /\ Decline(s).orderRun = s.orderRun
<1> DEFINE t == IF s.showing /\ s.step = "source" THEN "coverage" ELSE s.step
<1>1. Agree(s) = [s EXCEPT !.terms = FALSE, !.step = t]
    BY DEF Agree, Setups, SetupType
<1>2. t \in Steps
    BY DEF Setups, SetupType, Steps
<1> HIDE DEF t
<1> QED
    BY <1>1, <1>2 DEF Decline, Setups, SetupType

\* A step forward notes no order but the one numbered last.
LEMMA AdvanceKeeps ==
    ASSUME NEW s \in Setups, NEW f, FactsOK(f), NEW source,
           NEW k, k = Advance(s, f, source)
    PROVE  k \in Setups /\ k.orderRun \in {s.orderRun, f.run}
<1> DEFINE r == f.run
<1>1. CASE k = s \/ k = Finish(s)
    BY <1>1, FinishKeeps
<1>2. ASSUME NEW t \in Steps, k = [s EXCEPT !.step = t]
      PROVE  k \in Setups /\ k.orderRun = s.orderRun
    BY <1>2 DEF Setups, SetupType
<1>3. CASE k = [s EXCEPT !.terms = TRUE]
    BY <1>3 DEF Setups, SetupType
<1>4. CASE k = [ResetImport(s) EXCEPT !.step = "importing", !.ordered = TRUE,
                                      !.orderRun = r]
    <2>1. ResetImport(s) \in Setups /\ "importing" \in Steps /\ r \in Nat
        BY ResetImportKeeps DEF Steps, FactsOK
    <2> HIDE DEF r
    <2>2. k \in Setups /\ k.orderRun = r
        BY <1>4, <2>1 DEF Setups, SetupType
    <2> QED
        BY <2>2 DEF r
<1>5. \/ k = s \/ k = Finish(s)
      \/ \E t \in Steps : k = [s EXCEPT !.step = t]
      \/ k = [s EXCEPT !.terms = TRUE]
      \/ k = [ResetImport(s) EXCEPT !.step = "importing", !.ordered = TRUE,
                                    !.orderRun = r]
    BY DEF Advance, Steps
<1> QED
    BY <1>1, <1>2, <1>3, <1>4, <1>5

\* So does a step back.
LEMMA BackKeeps ==
    ASSUME NEW s \in Setups, NEW f, NEW k, k = Back(s, f)
    PROVE  k \in Setups /\ k.orderRun \in {s.orderRun, 0}
<1>1. ASSUME NEW t \in Steps, k = [s EXCEPT !.step = t]
      PROVE  k \in Setups /\ k.orderRun = s.orderRun
    BY <1>1 DEF Setups, SetupType
<1>2. CASE k = [ResetImport(s) EXCEPT !.step = "coverage"]
    <2>1. ResetImport(s) \in Setups /\ ResetImport(s).orderRun = 0 /\ "coverage" \in Steps
        BY ResetImportKeeps DEF Steps
    <2> QED
        BY <1>2, <2>1 DEF Setups, SetupType
<1>3. \/ k = s
      \/ \E t \in Steps : k = [s EXCEPT !.step = t]
      \/ k = [ResetImport(s) EXCEPT !.step = "coverage"]
    BY DEF Back, Steps
<1> QED
    BY <1>1, <1>2, <1>3

-------------------------------------------------------------------------------
(* Setup and the picker on Linux.                                           *)

LinuxApps ==
    [follow : Nat, preparing : BOOLEAN, pick : Picks, open : BOOLEAN, opening : BOOLEAN,
     link : BOOLEAN, picker : {"none", "up", "seeded", "asking"}, base : Picks,
     kept : BOOLEAN]

LinuxPairs == [j : Jobs, a : LinuxApps]

\* The run followed, if any, is the last and still runs.
Follows(j, a) == a.follow = 0 \/ (a.follow = j.run /\ j.outcome = "running")

\* What holds of the service and of the shell between two handlers.
LinuxSetupInv(j, o, d, a, s) ==
    /\ JobOK(j) /\ j.run <= MaxRuns
    /\ AtEase(j) \/ o
    /\ o \in BOOLEAN /\ d \in BOOLEAN
    /\ a \in LinuxApps /\ Follows(j, a)
    /\ SetupOK(s, j.run)

\* A pair of the service and the shell inside a handler.
PairOK(w) == w \in LinuxPairs /\ JobHolds(w.j)

\* The end of the run followed is told.
LEMMA FollowedKeeps ==
    ASSUME NEW w, PairOK(w), NEW k, k = Followed(w)
    PROVE  /\ PairOK(k) /\ k.j = w.j
           /\ w.a.follow \in {0, w.j.run} => Follows(k.j, k.a)
<1>1. CASE w.a.follow # 0 /\ w.j.run = w.a.follow /\ w.j.outcome # "running"
    <2>1. k = [w EXCEPT !.a = [w.a EXCEPT !.follow = 0]]
        BY <1>1 DEF Followed, PairOK, LinuxPairs
    <2>2. [w.a EXCEPT !.follow = 0] \in LinuxApps /\ [w.a EXCEPT !.follow = 0].follow = 0
        BY DEF PairOK, LinuxPairs, LinuxApps
    <2>3. k \in LinuxPairs /\ k.j = w.j /\ k.a = [w.a EXCEPT !.follow = 0]
        BY <2>1, <2>2 DEF PairOK, LinuxPairs
    <2> QED
        BY <2>2, <2>3 DEF PairOK, Follows
<1>2. CASE ~(w.a.follow # 0 /\ w.j.run = w.a.follow /\ w.j.outcome # "running")
    BY <1>2 DEF Followed, Follows
<1> QED
    BY <1>1, <1>2

\* A reopen follows no run.
LEMMA RecomposedKeeps ==
    ASSUME NEW w, PairOK(w), NEW k, k = Recomposed(w)
    PROVE  PairOK(k) /\ k.j = w.j /\ k.a.follow = w.a.follow
<1> DEFINE o == w.a.open /\ w.j.charts
           a == [w.a EXCEPT !.opening = w.j.charts, !.open = o]
<1>1. w.j.charts \in BOOLEAN /\ o \in BOOLEAN /\ w.a \in LinuxApps
    BY DEF PairOK, LinuxPairs, Jobs
<1>2. k = [w EXCEPT !.a = a]
    BY <1>1 DEF Recomposed, PairOK, LinuxPairs, LinuxApps
<1> HIDE DEF o
<1>3. a \in LinuxApps /\ a.follow = w.a.follow
    BY <1>1 DEF LinuxApps
<1> HIDE DEF a
<1> QED
    BY <1>2, <1>3 DEF PairOK, LinuxPairs

\* Nor does the end of a prepare.
LEMMA PreparedKeeps ==
    ASSUME NEW w, PairOK(w), NEW k, k = Prepared(w)
    PROVE  PairOK(k) /\ k.j = w.j /\ k.a.follow = w.a.follow
<1> DEFINE now == w.j.stage # "none"
           a == [w.a EXCEPT !.preparing = now]
           s == [w EXCEPT !.a = a]
<1>1. k = IF w.a.preparing /\ ~now THEN Recomposed(s) ELSE s
    BY DEF Prepared, PairOK, LinuxPairs
<1>2. now \in BOOLEAN
    OBVIOUS
<1> HIDE DEF now
<1>3. a \in LinuxApps /\ a.follow = w.a.follow
    BY <1>2 DEF PairOK, LinuxPairs, LinuxApps
<1> HIDE DEF a
<1>4. PairOK(s) /\ s.j = w.j /\ s.a.follow = w.a.follow
    BY <1>3 DEF PairOK, LinuxPairs
<1> HIDE DEF s
<1> QED
    BY <1>1, <1>4, RecomposedKeeps

\* The service's answers are adopted and told.
LEMMA SyncKeeps ==
    ASSUME NEW w, PairOK(w), NEW k, k = Sync(w)
    PROVE  /\ PairOK(k) /\ AtEase(k.j) /\ k.j.run = w.j.run
           /\ w.a.follow \in {0, w.j.run} => Follows(k.j, k.a)
<1> DEFINE j == Adopt(w.j)
           n == [w EXCEPT !.j = j]
           f == Followed(n)
<1>1. JobOK(j) /\ AtEase(j) /\ j.run = w.j.run
    BY AdoptKeeps DEF PairOK, LinuxPairs, JobOK
<1> HIDE DEF j
<1>2. PairOK(n) /\ n.j = j /\ n.a = w.a
    BY <1>1 DEF PairOK, LinuxPairs, JobOK
<1>3. k = Prepared(f)
    BY DEF Sync, j, PairOK, LinuxPairs
<1> HIDE DEF n
<1>4. PairOK(f) /\ f.j = j /\ (w.a.follow \in {0, w.j.run} => Follows(f.j, f.a))
    BY <1>1, <1>2, FollowedKeeps
<1> HIDE DEF f
<1>5. PairOK(k) /\ k.j = f.j /\ k.a.follow = f.a.follow
    BY <1>3, <1>4, PreparedKeeps
<1> QED
    BY <1>1, <1>4, <1>5 DEF Follows

\* The service is put in another's place.
LEMMA PairWith ==
    ASSUME NEW w, PairOK(w), NEW j, JobOK(j)
    PROVE  /\ PairOK([w EXCEPT !.j = j]) /\ [w EXCEPT !.j = j].j = j
           /\ [w EXCEPT !.j = j].a = w.a
BY DEF PairOK, LinuxPairs, JobOK

\* What was ordered is followed.
LEMMA OrderedKeeps ==
    ASSUME NEW w, PairOK(w), NEW n \in Nat, NEW k, k = Ordered(n, w),
           w.j.run = n => Follows(w.j, w.a)
    PROVE  PairOK(k) /\ k.j = w.j /\ Follows(k.j, k.a)
<1>1. CASE w.j.run = n
    BY <1>1 DEF Ordered
<1>2. CASE w.j.run # n
    <2> DEFINE a == [w.a EXCEPT !.follow = w.j.run]
               v == [w EXCEPT !.a = a]
    <2>1. k = Followed(v)
        BY <1>2 DEF Ordered, PairOK, LinuxPairs
    <2>2. w.j.run \in Nat /\ w.a \in LinuxApps
        BY DEF PairOK, LinuxPairs, Jobs
    <2>3. a \in LinuxApps /\ a.follow = w.j.run
        BY <2>2 DEF LinuxApps
    <2> HIDE DEF a
    <2>4. PairOK(v) /\ v.j = w.j /\ v.a.follow = w.j.run
        BY <2>3 DEF PairOK, LinuxPairs
    <2> HIDE DEF v
    <2> QED
        BY <2>1, <2>4, FollowedKeeps
<1> QED
    BY <1>1, <1>2

\* A download is ordered.
LEMMA LinuxOrderDownloadKeeps ==
    ASSUME NEW w, PairOK(w), Follows(w.j, w.a), NEW plan \in Plans, NEW disk \in BOOLEAN,
           NEW k, k = LinuxOrderDownload(w, plan, disk)
    PROVE  /\ PairOK(k) /\ Follows(k.j, k.a) /\ k.j.run \in {w.j.run, w.j.run + 1}
           /\ k = w \/ AtEase(k.j)
<1>1. CASE ~disk
    BY <1>1 DEF LinuxOrderDownload
<1>2. CASE disk
    <2> DEFINE j == StartRun(w.j, plan, TRUE)
               n == [w EXCEPT !.j = j]
               s == Sync(n)
    <2>1. JobOK(w.j) /\ w.j.run \in Nat
        BY DEF PairOK, LinuxPairs, JobOK, Jobs
    <2>2. JobOK(j) /\ j.run \in {w.j.run, w.j.run + 1}
        BY <2>1, StartRunKeeps
    <2> HIDE DEF j
    <2>3. PairOK(n) /\ n.j = j /\ n.a = w.a
        BY <2>2, PairWith
    <2>4. k = Ordered(w.j.run, s)
        BY <1>2 DEF LinuxOrderDownload, j, PairOK, LinuxPairs
    <2> HIDE DEF n
    <2>5. /\ PairOK(s) /\ AtEase(s.j) /\ s.j.run = j.run
          /\ w.a.follow \in {0, j.run} => Follows(s.j, s.a)
        BY <2>3, SyncKeeps
    <2> HIDE DEF s
    <2>6. s.j.run = w.j.run => Follows(s.j, s.a)
        BY <2>5 DEF Follows
    <2> QED
        BY <2>1, <2>2, <2>4, <2>5, <2>6, OrderedKeeps
<1> QED
    BY <1>1, <1>2

\* A pick is applied.
LEMMA LinuxOrderApplyKeeps ==
    ASSUME NEW w, PairOK(w), Follows(w.j, w.a), NEW gone \in BOOLEAN,
           NEW reaches \in BOOLEAN, NEW plan \in Plans,
           NEW k, k = LinuxOrderApply(w, gone, reaches, plan)
    PROVE  /\ PairOK(k) /\ Follows(k.j, k.a) /\ k.j.run \in {w.j.run, w.j.run + 1}
           /\ AtEase(k.j)
<1> DEFINE some == w.a.pick # "none"
           j == ApplyPicks(w.j, some, gone, reaches, plan, TRUE)
           n == [w EXCEPT !.j = j]
           s == Sync(n)
           r == IF GaveBack(w.j, some, gone) THEN Recomposed(s) ELSE s
<1>1. JobOK(w.j) /\ w.j.run \in Nat
    BY DEF PairOK, LinuxPairs, JobOK, Jobs
<1>2. some \in BOOLEAN
    OBVIOUS
<1>3. k = Ordered(w.j.run, r)
    BY DEF LinuxOrderApply, PairOK, LinuxPairs
<1> HIDE DEF some
<1>4. JobOK(j) /\ j.run \in {w.j.run, w.j.run + 1}
    BY <1>1, <1>2, ApplyPicksKeeps
<1> HIDE DEF j
<1>5. PairOK(n) /\ n.j = j /\ n.a = w.a
    BY <1>4, PairWith
<1> HIDE DEF n
<1>6. /\ PairOK(s) /\ AtEase(s.j) /\ s.j.run = j.run
      /\ w.a.follow \in {0, j.run} => Follows(s.j, s.a)
    BY <1>5, SyncKeeps
<1> HIDE DEF s
<1>7. PairOK(r) /\ r.j = s.j /\ r.a.follow = s.a.follow
    BY <1>6, RecomposedKeeps
<1> HIDE DEF r
<1>8. r.j.run = w.j.run => Follows(r.j, r.a)
    BY <1>6, <1>7 DEF Follows
<1> QED
    BY <1>1, <1>3, <1>4, <1>6, <1>7, <1>8, OrderedKeeps

\* The catalog is read, and what there is adopted.
LEMMA RefreshedKeeps ==
    ASSUME NEW w, PairOK(w), Follows(w.j, w.a), NEW cached \in BOOLEAN,
           NEW k, k = Refreshed(w, cached)
    PROVE  PairOK(k) /\ Follows(k.j, k.a) /\ k.j.run = w.j.run /\ AtEase(k.j)
<1> DEFINE j == RefreshCatalog(w.j, cached)
           n == [w EXCEPT !.j = j]
<1>1. JobOK(j) /\ j.run = w.j.run
    BY RefreshCatalogKeeps DEF PairOK, LinuxPairs, JobOK
<1>2. k = Sync(n)
    BY DEF Refreshed, PairOK, LinuxPairs
<1> HIDE DEF j
<1>3. PairOK(n) /\ n.j = j /\ n.a = w.a
    BY <1>1, PairWith
<1> HIDE DEF n
<1> QED
    BY <1>1, <1>2, <1>3, SyncKeeps DEF Follows

\* The picker that is told moves its own marks only.
LEMMA SeededKeeps ==
    ASSUME NEW w, PairOK(w), NEW k, k = Seeded(w)
    PROVE  PairOK(k) /\ k.j = w.j /\ k.a.follow = w.a.follow
<1> DEFINE p == IF w.j.charts THEN "some" ELSE w.a.pick
           a == [w.a EXCEPT !.picker = "seeded", !.pick = p, !.base = p]
<1>1. p \in Picks /\ w.a \in LinuxApps
    BY DEF PairOK, LinuxPairs, LinuxApps, Picks
<1>2. k = w \/ k = [w EXCEPT !.a = a]
    BY DEF Seeded, PairOK, LinuxPairs
<1> HIDE DEF p
<1>3. a \in LinuxApps /\ a.follow = w.a.follow
    BY <1>1 DEF LinuxApps
<1> HIDE DEF a
<1> QED
    BY <1>2, <1>3 DEF PairOK, LinuxPairs

\* The end of a handler.
LEMMA LinuxDoneKeeps ==
    ASSUME NEW w, PairOK(w), Follows(w.j, w.a), w.j.run <= MaxRuns,
           AtEase(w.j) \/ owed', owed' \in BOOLEAN, dirty' \in BOOLEAN,
           NEW s, SetupOK(s, w.j.run), LinuxDone(w, s)
    PROVE  LinuxSetupInv(job', owed', dirty', app', setup')
<1> DEFINE e == Seeded(w)
           n == Note(s, LinuxFacts(e.j, e.a))
           again == View(n, LinuxFacts(e.j, e.a)) # View(setup, LinuxFacts(job, app))
           kept == n.showing /\ n.step = "importing"
                     /\ (e.j.stage = "bake" \/ (e.a.kept /\ ~again))
<1>1. PairOK(e) /\ e.j = w.j /\ e.a.follow = w.a.follow
    BY SeededKeeps
<1>2. n \in Setups /\ n.orderRun = s.orderRun
    BY NoteKeeps DEF SetupOK
<1>3. kept \in BOOLEAN
    OBVIOUS
<1>4. job' = e.j /\ setup' = n /\ app' = [e.a EXCEPT !.kept = kept]
    BY <1>1 DEF LinuxDone, PairOK, LinuxPairs, LinuxApps
<1> HIDE DEF e, n, kept
<1>5. app' \in LinuxApps /\ app'.follow = w.a.follow
    BY <1>1, <1>3, <1>4 DEF PairOK, LinuxPairs, LinuxApps
<1>6. JobOK(job') /\ job' = w.j
    BY <1>1, <1>4 DEF PairOK, LinuxPairs, JobOK
<1> QED
    BY <1>2, <1>4, <1>5, <1>6 DEF LinuxSetupInv, Follows, SetupOK

\* The service and the shell over it, with setup, between two handlers.
LinuxHolds == LinuxSetupInv(job, owed, dirty, app, setup)

\* What a handler begins with.
LEMMA LinuxNowIs ==
    ASSUME LinuxHolds
    PROVE  /\ PairOK(LinuxNow) /\ LinuxNow.j = job /\ LinuxNow.a = app
           /\ Follows(job, app) /\ job.run <= MaxRuns /\ job.run \in Nat
           /\ AtEase(job) \/ owed
           /\ owed \in BOOLEAN /\ dirty \in BOOLEAN /\ JobOK(job)
           /\ SetupOK(setup, job.run) /\ setup \in Setups
           /\ app \in LinuxApps /\ job.charts \in BOOLEAN /\ job.cat \in BOOLEAN
BY DEF LinuxHolds, LinuxSetupInv, LinuxNow, PairOK, LinuxPairs, JobOK, SetupOK, Jobs

\* The shell is put in another's place.
LEMMA LinuxAppWith ==
    ASSUME LinuxHolds, NEW a \in LinuxApps, a.follow = app.follow,
           NEW w, w = [LinuxNow EXCEPT !.a = a]
    PROVE  PairOK(w) /\ w.j = job /\ w.a = a /\ Follows(w.j, w.a)
<1>1. JobOK(job) /\ Follows(job, app) /\ PairOK(LinuxNow) /\ LinuxNow.j = job
    BY LinuxNowIs
<1> QED
    BY <1>1 DEF PairOK, LinuxPairs, JobOK, Follows

\* A handler that leaves the service as it is.
LEMMA LinuxStill ==
    ASSUME LinuxHolds, NEW a \in LinuxApps, a.follow = app.follow,
           LinuxDone([LinuxNow EXCEPT !.a = a], setup), UNCHANGED <<owed, dirty>>
    PROVE  LinuxHolds'
<1> DEFINE w == [LinuxNow EXCEPT !.a = a]
<1>1. PairOK(w) /\ w.j = job /\ Follows(w.j, w.a)
    BY LinuxAppWith
<1>2. LinuxDone(w, setup)
    OBVIOUS
<1> HIDE DEF w
<1> QED
    BY <1>1, <1>2, LinuxNowIs, LinuxDoneKeeps DEF LinuxHolds

\* A handler that adopts what there is.
LEMMA LinuxAdopted ==
    ASSUME LinuxHolds, NEW w, PairOK(w), Follows(w.j, w.a), w.j.run <= MaxRuns,
           w.j.run \in {job.run, job.run + 1}, AtEase(w.j) \/ (w.j = job /\ owed' = owed),
           owed' \in BOOLEAN, dirty' = (dirty \/ Notes(job, w.j)) \/ dirty' = Notes(job, w.j),
           NEW s \in Setups, s.orderRun <= job.run, LinuxDone(w, s)
    PROVE  LinuxHolds'
<1>1. SetupOK(s, w.j.run)
    <2>1. s.orderRun \in Nat /\ job.run \in Nat
        BY LinuxNowIs DEF Setups, SetupType
    <2> QED
        BY <2>1 DEF SetupOK
<1>2. AtEase(w.j) \/ owed'
    BY LinuxNowIs
<1>3. dirty' \in BOOLEAN
    BY DEF Notes
<1> QED
    BY <1>1, <1>2, <1>3, LinuxDoneKeeps DEF LinuxHolds

\* The steps outside the shell.
LEMMA LinuxOutsideKeeps ==
    ASSUME LinuxHolds, LinuxOutside
    PROVE  LinuxHolds'
<1>1. /\ JobOK(job') /\ job'.run = job.run /\ job'.outcome = job.outcome /\ owed' = TRUE
      /\ dirty' \in BOOLEAN /\ app' = app /\ setup' = setup
    BY LinuxNowIs, ElsewhereKeeps DEF LinuxOutside
<1> QED
    BY <1>1, LinuxNowIs DEF LinuxHolds, LinuxSetupInv, Follows

\* The main loop.
LEMMA LoopKeeps ==
    ASSUME LinuxHolds, Loop
    PROVE  LinuxHolds'
<1> USE LinuxNowIs
<1> setup.orderRun <= job.run
    BY DEF SetupOK
<1>1. CASE LinuxWoken
    <2> DEFINE w == Sync(LinuxNow)
    <2>1. LinuxDone(w, setup) /\ dirty' = (dirty \/ Notes(job, w.j)) /\ owed' = FALSE
        BY <1>1 DEF LinuxWoken
    <2>2. PairOK(w) /\ Follows(w.j, w.a) /\ w.j.run = job.run /\ AtEase(w.j)
        BY SyncKeeps DEF Follows
    <2> HIDE DEF w
    <2> QED
        BY <2>1, <2>2, LinuxAdopted
<1>2. CASE SetsChanged
    <2>1. PICK late \in BOOLEAN :
             LET w == Sync(IF late THEN [LinuxNow EXCEPT !.j = RefreshCatalog(@, FALSE)]
                           ELSE LinuxNow)
             IN  LinuxDone(w, setup) /\ dirty' = Notes(job, w.j)
        BY <1>2 DEF SetsChanged
    <2> DEFINE w == Sync(IF late THEN [LinuxNow EXCEPT !.j = RefreshCatalog(@, FALSE)]
                         ELSE LinuxNow)
    <2>2. LinuxDone(w, setup) /\ dirty' = Notes(job, w.j) /\ owed' = owed
        BY <1>2, <2>1 DEF SetsChanged
    <2>3. PairOK(w) /\ Follows(w.j, w.a) /\ w.j.run = job.run /\ AtEase(w.j)
        <3>1. CASE late
            <4>1. w = Refreshed(LinuxNow, FALSE)
                BY <3>1 DEF Refreshed
            <4> HIDE DEF w
            <4>2. Follows(LinuxNow.j, LinuxNow.a)
                OBVIOUS
            <4>3. /\ PairOK(w) /\ Follows(w.j, w.a) /\ w.j.run = LinuxNow.j.run
                  /\ AtEase(w.j)
                BY <4>1, <4>2, RefreshedKeeps
            <4> QED
                BY <4>3
        <3>2. CASE ~late
            BY <3>2, SyncKeeps DEF Follows
        <3> QED
            BY <3>1, <3>2
    <2> HIDE DEF w
    <2> QED
        BY <2>2, <2>3, LinuxAdopted
<1>3. CASE OpenEnds
    <2> DEFINE a == [app EXCEPT !.opening = FALSE, !.open = TRUE]
    <2>1. LinuxDone([LinuxNow EXCEPT !.a = a], setup) /\ UNCHANGED <<owed, dirty>>
        <3>1. [LinuxNow EXCEPT !.a.opening = FALSE, !.a.open = TRUE] = [LinuxNow EXCEPT !.a = a]
            BY DEF PairOK, LinuxPairs
        <3> QED
            BY <1>3, <3>1 DEF OpenEnds
    <2>2. a \in LinuxApps /\ a.follow = app.follow
        BY DEF LinuxApps
    <2> HIDE DEF a
    <2> QED
        BY <2>1, <2>2, LinuxStill
<1>4. CASE Consider
    <2> DEFINE s == BeginAt(setup, LinuxFacts(job, app), "welcome", FALSE)
    <2>1. LinuxDone(LinuxNow, s) /\ UNCHANGED <<owed, dirty>>
        BY <1>4 DEF Consider
    <2>2. s \in Setups /\ s.orderRun = 0
        <3>1. FactsOK(LinuxFacts(job, app)) /\ "welcome" \in Steps
            BY DEF FactsOK, LinuxFacts, Steps
        <3> QED
            BY <3>1, BeginAtKeeps
    <2>3. SetupOK(s, job.run)
        <3>1. 0 <= job.run
            OBVIOUS
        <3> HIDE DEF s
        <3> QED
            BY <2>2, <3>1 DEF SetupOK
    <2> HIDE DEF s
    <2> QED
        BY <2>1, <2>3, LinuxDoneKeeps DEF LinuxHolds
<1> QED
    BY <1>1, <1>2, <1>3, <1>4 DEF Loop

\* A step of the card is entered.
LEMMA StepMovedKeeps ==
    ASSUME LinuxHolds, NEW s \in Setups, s.orderRun <= job.run, StepMoved(s), UNCHANGED owed
    PROVE  LinuxHolds'
<1> USE LinuxNowIs
<1>1. PICK cached \in Caches :
         LET w == Entered(s, cached)
         IN  LinuxDone(w, s) /\ dirty' = (dirty \/ Notes(job, w.j))
    BY DEF StepMoved
<1> DEFINE w == Entered(s, cached)
<1>2. LinuxDone(w, s) /\ dirty' = (dirty \/ Notes(job, w.j))
    BY <1>1
<1>3. /\ PairOK(w) /\ Follows(w.j, w.a) /\ w.j.run = job.run
      /\ AtEase(w.j) \/ w.j = job
    <2>1. cached \in BOOLEAN
        BY DEF Caches
    <2>2. CASE w = Refreshed(LinuxNow, cached)
        <3>1. Follows(LinuxNow.j, LinuxNow.a)
            OBVIOUS
        <3> HIDE DEF w
        <3>2. /\ PairOK(w) /\ Follows(w.j, w.a) /\ w.j.run = LinuxNow.j.run
              /\ AtEase(w.j)
            BY <2>1, <2>2, <3>1, RefreshedKeeps
        <3> QED
            BY <3>2
    <2>3. CASE w = LinuxNow
        BY <2>3
    <2> QED
        BY <2>2, <2>3 DEF Entered
<1> HIDE DEF w
<1> QED
    BY <1>2, <1>3, LinuxAdopted

\* The facts setup acts on.
LEMMA LinuxFactsAre ==
    ASSUME LinuxHolds
    PROVE  FactsOK(LinuxFacts(job, app)) /\ LinuxFacts(job, app).run = job.run
BY LinuxNowIs DEF FactsOK, LinuxFacts

\* The card.
LEMMA LinuxCardKeeps ==
    ASSUME LinuxHolds, LinuxCard
    PROVE  LinuxHolds'
<1> USE LinuxNowIs
<1>1. setup.orderRun <= job.run /\ setup.orderRun \in Nat /\ 0 <= job.run /\ job.run <= job.run
    BY DEF SetupOK, Setups, SetupType
<1>2. ASSUME NEW source
      PROVE  /\ Advance(setup, LinuxFacts(job, app), source) \in Setups
             /\ Advance(setup, LinuxFacts(job, app), source).orderRun <= job.run
    BY <1>1, LinuxFactsAre, AdvanceKeeps
<1>3. CASE LinuxPrimaryClicked
    <2>1. PICK source : StepMoved(Advance(setup, LinuxFacts(job, app), source))
        BY <1>3 DEF LinuxPrimaryClicked
    <2> QED
        BY <1>2, <1>3, <2>1, StepMovedKeeps DEF LinuxPrimaryClicked
<1>4. CASE LinuxDownload
    <2> DEFINE s == Advance(setup, LinuxFacts(job, app), "noaa")
    <2>1. PICK plan \in Plans, disk \in BOOLEAN :
             LET w == LinuxOrderDownload(LinuxNow, plan, disk)
             IN  /\ w.j.run <= MaxRuns
                 /\ LinuxDone(w, s)
                 /\ dirty' = (dirty \/ Notes(job, w.j))
        BY <1>4 DEF LinuxDownload
    <2> DEFINE w == LinuxOrderDownload(LinuxNow, plan, disk)
    <2>2. /\ w.j.run <= MaxRuns /\ LinuxDone(w, s) /\ dirty' = (dirty \/ Notes(job, w.j))
          /\ owed' = owed
        BY <1>4, <2>1 DEF LinuxDownload
    <2>3. /\ PairOK(w) /\ Follows(w.j, w.a) /\ w.j.run \in {job.run, job.run + 1}
          /\ w = LinuxNow \/ AtEase(w.j)
        BY LinuxOrderDownloadKeeps
    <2>4. s \in Setups /\ s.orderRun <= job.run
        BY <1>2
    <2> HIDE DEF w, s
    <2>5. AtEase(w.j) \/ w.j = job
        BY <2>3
    <2> QED
        BY <2>2, <2>3, <2>4, <2>5, LinuxAdopted
<1>5. CASE LinuxTerms
    BY <1>1, <1>5, TermsKeeps, StepMovedKeeps DEF LinuxTerms
<1>6. CASE LinuxBackClicked
    <2> DEFINE s == Back(setup, LinuxFacts(job, app))
    <2>1. s \in Setups /\ s.orderRun <= job.run
        BY <1>1, BackKeeps
    <2>2. StepMoved(s) /\ owed' = owed
        BY <1>6 DEF LinuxBackClicked
    <2> HIDE DEF s
    <2> QED
        BY <2>1, <2>2, StepMovedKeeps
<1>7. CASE LinuxLaterClicked
    BY <1>1, <1>7, FinishKeeps, StepMovedKeeps DEF LinuxLaterClicked
<1>8. CASE StopClicked
    <2> DEFINE c == Cancel(job)
               n == [LinuxNow EXCEPT !.j = Cancel(@)]
               w == Sync(n)
    <2>1. LinuxDone(w, setup) /\ dirty' = (dirty \/ Notes(job, w.j)) /\ owed' = owed
        BY <1>8 DEF StopClicked
    <2>2. JobOK(c) /\ c.run = job.run
        BY CancelKeeps
    <2>3. n = [LinuxNow EXCEPT !.j = c]
        BY DEF LinuxNow
    <2> HIDE DEF c
    <2>4. PairOK(n) /\ n.j = c /\ n.a = app
        BY <2>2, <2>3, PairWith, ZenonT(40)
    <2> HIDE DEF n
    <2>5. PairOK(w) /\ Follows(w.j, w.a) /\ w.j.run = job.run /\ AtEase(w.j)
        BY <2>2, <2>4, SyncKeeps DEF Follows
    <2> HIDE DEF w
    <2> QED
        BY <1>1, <2>1, <2>5, LinuxAdopted
<1>9. CASE LinuxUseLink
    <2> DEFINE a == [app EXCEPT !.link = TRUE]
    <2>1. LinuxDone([LinuxNow EXCEPT !.a = a], setup) /\ UNCHANGED <<owed, dirty>>
        <3>1. [LinuxNow EXCEPT !.a.link = TRUE] = [LinuxNow EXCEPT !.a = a]
            BY DEF PairOK, LinuxPairs
        <3> QED
            BY <1>9, <3>1 DEF LinuxUseLink
    <2>2. a \in LinuxApps /\ a.follow = app.follow
        BY DEF LinuxApps
    <2> HIDE DEF a
    <2> QED
        BY <2>1, <2>2, LinuxStill
<1> QED
    BY <1>3, <1>4, <1>5, <1>6, <1>7, <1>8, <1>9 DEF LinuxCard

\* The service is left as it is, and something of the shell is moved.
LEMMA LinuxPicks ==
    ASSUME LinuxHolds
    PROVE  /\ \A p \in Picks : /\ [app EXCEPT !.pick = p] \in LinuxApps
                               /\ [app EXCEPT !.pick = p].follow = app.follow
           /\ \A p \in {"up", "seeded", "asking"} :
                 /\ [app EXCEPT !.picker = p] \in LinuxApps
                 /\ [app EXCEPT !.picker = p].follow = app.follow
BY LinuxNowIs DEF LinuxApps

\* The picker's window is closed.
LEMMA PickerClosedKeeps ==
    ASSUME NEW w, PairOK(w), NEW k, k = PickerClosed(w)
    PROVE  PairOK(k) /\ k.j = w.j /\ k.a.follow = w.a.follow
<1> DEFINE a == [w.a EXCEPT !.picker = "none", !.pick = "none", !.base = "none"]
<1>1. k = [w EXCEPT !.a = a]
    BY DEF PickerClosed, PairOK, LinuxPairs
<1>2. a \in LinuxApps /\ a.follow = w.a.follow
    BY DEF PairOK, LinuxPairs, LinuxApps, Picks
<1> HIDE DEF a
<1> QED
    BY <1>1, <1>2 DEF PairOK, LinuxPairs

\* An order is placed, and the handler ends.
LEMMA LinuxOrders ==
    ASSUME LinuxHolds, NEW w, PairOK(w), Follows(w.j, w.a),
           w.j.run \in {job.run, job.run + 1}, w = LinuxNow \/ AtEase(w.j),
           NEW k, k = w \/ k = PickerClosed(w), w.j.run <= MaxRuns,
           LinuxDone(k, setup), dirty' = (dirty \/ Notes(job, w.j)), UNCHANGED owed
    PROVE  LinuxHolds'
<1>1. PairOK(k) /\ k.j = w.j /\ Follows(k.j, k.a)
    BY PickerClosedKeeps DEF Follows
<1>2. /\ AtEase(k.j) \/ (k.j = job /\ owed' = owed)
      /\ owed' \in BOOLEAN /\ setup \in Setups /\ setup.orderRun <= job.run
    BY <1>1, LinuxNowIs DEF SetupOK
<1> QED
    BY <1>1, <1>2, LinuxAdopted

\* The picker and the alert.
LEMMA LinuxPickerKeeps ==
    ASSUME LinuxHolds, LinuxPicker
    PROVE  LinuxHolds'
<1>1. /\ PairOK(LinuxNow) /\ LinuxNow.j = job /\ LinuxNow.a = app /\ app \in LinuxApps
      /\ Follows(LinuxNow.j, LinuxNow.a) /\ job.run \in Nat
    BY LinuxNowIs
<1>2. ASSUME NEW a \in LinuxApps, a.follow = app.follow,
             LinuxDone([LinuxNow EXCEPT !.a = a], setup), UNCHANGED <<owed, dirty>>
      PROVE  LinuxHolds'
    BY <1>2, LinuxStill
<1>3. CASE LinuxToggle
    <2> DEFINE p == IF app.pick = "none" THEN "some" ELSE "none"
               a == [app EXCEPT !.pick = p]
    <2>1. [LinuxNow EXCEPT !.a.pick = IF @ = "none" THEN "some" ELSE "none"]
             = [LinuxNow EXCEPT !.a = a]
        BY <1>1 DEF PairOK, LinuxPairs, LinuxApps
    <2>2. LinuxDone([LinuxNow EXCEPT !.a = a], setup) /\ UNCHANGED <<owed, dirty>>
        BY <1>3, <2>1 DEF LinuxToggle
    <2>3. p \in Picks
        BY DEF Picks
    <2> HIDE DEF p
    <2>4. a \in LinuxApps /\ a.follow = app.follow
        BY <2>3, LinuxPicks
    <2> HIDE DEF a
    <2> QED
        BY <1>2, <2>2, <2>4
<1>4. ASSUME NEW w, NEW cached \in BOOLEAN, NEW v, PairOK(v), v.j = job,
             Follows(v.j, v.a), w = Refreshed(v, cached), LinuxDone(w, setup),
             dirty' = (dirty \/ Notes(job, w.j)), UNCHANGED owed
      PROVE  LinuxHolds'
    <2>1. PairOK(w) /\ Follows(w.j, w.a) /\ w.j.run = v.j.run /\ AtEase(w.j)
        BY <1>4, RefreshedKeeps
    <2>2. w.j.run = job.run /\ job.run <= MaxRuns
        BY <1>4, <2>1, LinuxNowIs
    <2> QED
        BY <1>4, <2>1, <2>2, LinuxOrders
<1>5. CASE ReadAgain
    <2>1. PICK cached \in Caches :
             LET w == Refreshed(LinuxNow, cached)
             IN  LinuxDone(w, setup) /\ dirty' = (dirty \/ Notes(job, w.j))
        BY <1>5 DEF ReadAgain
    <2>2. cached \in BOOLEAN
        BY DEF Caches
    <2>3. owed' = owed
        BY <1>5 DEF ReadAgain
    <2> QED
        BY <1>1, <1>4, <2>1, <2>2, <2>3
<1>6. CASE Present
    <2> DEFINE a == [app EXCEPT !.picker = "up"]
               s == [LinuxNow EXCEPT !.a.picker = "up"]
    <2>1. PICK cached \in Caches :
             LET w == IF job.cat THEN s ELSE Refreshed(s, cached)
             IN  LinuxDone(w, setup) /\ dirty' = (dirty \/ Notes(job, w.j))
        BY <1>6 DEF Present
    <2>2. cached \in BOOLEAN /\ owed' = owed
        BY <1>6 DEF Present, Caches
    <2>3. s = [LinuxNow EXCEPT !.a = a]
        BY <1>1 DEF PairOK, LinuxPairs
    <2>4. a \in LinuxApps /\ a.follow = app.follow
        BY LinuxPicks
    <2> HIDE DEF a
    <2>5. PairOK(s) /\ s.j = job /\ s.a = a /\ Follows(s.j, s.a)
        BY <2>3, <2>4, LinuxAppWith
    <2> HIDE DEF s
    <2>6. CASE job.cat
        <3>1. LinuxDone(s, setup) /\ dirty' = (dirty \/ Notes(job, s.j))
            BY <2>1, <2>6
        <3>2. AtEase(s.j) \/ (s.j = job /\ owed' = owed)
            BY <2>2, <2>5
        <3> QED
            BY <2>2, <2>5, <3>1, <3>2, LinuxNowIs, LinuxAdopted DEF SetupOK
    <2>7. CASE ~job.cat
        <3> DEFINE w == Refreshed(s, cached)
        <3>1. LinuxDone(w, setup) /\ dirty' = (dirty \/ Notes(job, w.j))
            BY <2>1, <2>7
        <3>2. w = Refreshed(s, cached)
            OBVIOUS
        <3> HIDE DEF w
        <3> QED
            BY <1>4, <2>2, <2>5, <3>1, <3>2
    <2> QED
        BY <2>6, <2>7
<1>7. CASE ClosePicker
    <2>1. LinuxDone(PickerClosed(LinuxNow), setup) /\ UNCHANGED <<owed, dirty>>
        BY <1>7 DEF ClosePicker
    <2> DEFINE k == PickerClosed(LinuxNow)
    <2>2. PairOK(k) /\ k.j = job /\ Follows(k.j, k.a)
        BY <1>1, PickerClosedKeeps DEF Follows
    <2> HIDE DEF k
    <2>3. LinuxDone(k, setup)
        BY <2>1 DEF k
    <2> QED
        BY <2>1, <2>2, <2>3, LinuxNowIs, LinuxDoneKeeps DEF LinuxHolds
<1>8. ASSUME NEW p \in {"seeded", "asking"},
             LinuxDone([LinuxNow EXCEPT !.a.picker = p], setup), UNCHANGED <<owed, dirty>>
      PROVE  LinuxHolds'
    <2> DEFINE a == [app EXCEPT !.picker = p]
    <2>1. [LinuxNow EXCEPT !.a.picker = p] = [LinuxNow EXCEPT !.a = a]
        BY <1>1 DEF PairOK, LinuxPairs
    <2>2. a \in LinuxApps /\ a.follow = app.follow
        BY LinuxPicks
    <2> HIDE DEF a
    <2> QED
        BY <1>2, <1>8, <2>1, <2>2
<1>9. CASE LinuxAskRemove
    BY <1>8, <1>9 DEF LinuxAskRemove
<1>10. CASE LinuxKeepThem
    BY <1>8, <1>10 DEF LinuxKeepThem
<1>11. CASE ApplyPick
    <2>1. PICK gone \in BOOLEAN, reaches \in BOOLEAN, plan \in Plans :
             LET w == LinuxOrderApply(LinuxNow, gone, reaches, plan)
             IN  /\ w.j.run <= MaxRuns
                 /\ LinuxDone(PickerClosed(w), setup)
                 /\ dirty' = (dirty \/ Notes(job, w.j))
        BY <1>11 DEF ApplyPick
    <2> DEFINE w == LinuxOrderApply(LinuxNow, gone, reaches, plan)
               k == PickerClosed(w)
    <2>2. PairOK(w) /\ Follows(w.j, w.a) /\ w.j.run \in {job.run, job.run + 1} /\ AtEase(w.j)
        BY <1>1, LinuxOrderApplyKeeps
    <2>3. w.j.run <= MaxRuns /\ LinuxDone(k, setup) /\ dirty' = (dirty \/ Notes(job, w.j))
        BY <2>1
    <2>4. owed' = owed
        BY <1>11 DEF ApplyPick
    <2>5. k = PickerClosed(w)
        OBVIOUS
    <2> HIDE DEF w, k
    <2> QED
        BY <2>2, <2>3, <2>4, <2>5, LinuxOrders
<1>12. ASSUME NEW plan \in Plans, NEW w, w = LinuxOrderDownload(LinuxNow, plan, TRUE)
       PROVE  /\ PairOK(w) /\ Follows(w.j, w.a) /\ w.j.run \in {job.run, job.run + 1}
              /\ w = LinuxNow \/ AtEase(w.j)
    BY <1>1, <1>12, LinuxOrderDownloadKeeps
<1>13. CASE Again
    <2> DEFINE w == LinuxOrderDownload(LinuxNow, 2, TRUE)
               k == PickerClosed(w)
    <2>1. /\ w.j.run <= MaxRuns /\ LinuxDone(k, setup)
          /\ dirty' = (dirty \/ Notes(job, w.j)) /\ owed' = owed
        BY <1>13 DEF Again
    <2>2. 2 \in Plans /\ w = LinuxOrderDownload(LinuxNow, 2, TRUE) /\ k = PickerClosed(w)
        BY DEF Plans
    <2> HIDE DEF w, k
    <2>3. /\ PairOK(w) /\ Follows(w.j, w.a) /\ w.j.run \in {job.run, job.run + 1}
          /\ w = LinuxNow \/ AtEase(w.j)
        BY <1>12, <2>2
    <2> QED
        BY <2>1, <2>2, <2>3, LinuxOrders
<1>14. CASE Retry
    <2>1. PICK plan \in Plans :
             LET w == LinuxOrderDownload(LinuxNow, plan, TRUE)
             IN  /\ w.j.run <= MaxRuns
                 /\ LinuxDone(w, setup) /\ dirty' = (dirty \/ Notes(job, w.j))
        BY <1>14 DEF Retry
    <2> DEFINE w == LinuxOrderDownload(LinuxNow, plan, TRUE)
    <2>2. /\ w.j.run <= MaxRuns /\ LinuxDone(w, setup)
          /\ dirty' = (dirty \/ Notes(job, w.j)) /\ owed' = owed
        BY <1>14, <2>1 DEF Retry
    <2>3. /\ PairOK(w) /\ Follows(w.j, w.a) /\ w.j.run \in {job.run, job.run + 1}
          /\ w = LinuxNow \/ AtEase(w.j)
        BY <1>12
    <2> HIDE DEF w
    <2> QED
        BY <2>2, <2>3, LinuxOrders
<1> QED
    BY <1>3, <1>5, <1>6, <1>7, <1>9, <1>10, <1>11, <1>13, <1>14 DEF LinuxPicker

-------------------------------------------------------------------------------
(* Setup and the picker on Windows.                                         *)

Copies ==
    [cat : BOOLEAN, phase : PhaseWords, preparing : BOOLEAN, outcome : RunWords,
     run : Nat, retry : BOOLEAN]

WinApps ==
    [st : Copies, watch : Nat, pending : BOOLEAN, clock : BOOLEAN, ticks : BOOLEAN,
     pick : Picks, base : Picks, seeded : BOOLEAN, asked : BOOLEAN, asking : BOOLEAN,
     open : BOOLEAN, nothing : BOOLEAN, link : BOOLEAN]

WinQuads == [j : Jobs, a : WinApps, s : Setups, d : BOOLEAN]

\* The copy is the service's state, or a read is out that will wake the window.
Copied(j, a) == a.st = Published(j) \/ j.reading = "out"

\* The run watched, if any, is the last numbered or the next.
Watches(j, a) == a.watch \in {0, j.run, j.run + 1}

\* What holds of the service and of the window between two handlers.
WinSetupInv(j, o, d, a, s) ==
    /\ JobOK(j) /\ j.run <= MaxRuns
    /\ AtEase(j) \/ o
    /\ o \in BOOLEAN /\ d \in BOOLEAN
    /\ a \in WinApps /\ a.st.run = j.run /\ Watches(j, a)
    /\ Copied(j, a) \/ o
    /\ SetupOK(s, j.run)

\* The service, the window and setup inside a handler.
QuadOK(w) == w \in WinQuads /\ JobHolds(w.j) /\ w.s.orderRun <= w.j.run

\* What drawing does to them: the copy stays, and the service is asked for a read of
\* its catalog at the most.
Drawn(w, k) ==
    /\ QuadOK(k) /\ k.j.run = w.j.run
    /\ k.a.st = w.a.st /\ k.a.watch \in {0, w.a.watch}
    /\ k.j = w.j \/ k.j.reading = "out"
    /\ AtEase(w.j) => AtEase(k.j)

\* What is at hand once the service was read.
Served(w) ==
    /\ QuadOK(w) /\ AtEase(w.j) /\ w.a.st.run = w.j.run
    /\ Copied(w.j, w.a) /\ Watches(w.j, w.a)

\* Where an order may be placed, or the service read.
Called(w) == QuadOK(w) /\ w.a.st.run = w.j.run /\ Watches(w.j, w.a)

\* The copy of the service's state.
LEMMA PublishedIs ==
    ASSUME NEW j \in Jobs
    PROVE  Published(j) \in Copies /\ Published(j).run = j.run
<1> DEFINE p == j.stage # "none"
<1>1. p \in BOOLEAN
    OBVIOUS
<1>2. Published(j) = [cat |-> j.cat, phase |-> j.phase, preparing |-> p,
                      outcome |-> j.outcome, run |-> j.run, retry |-> j.retry]
    BY DEF Published
<1> HIDE DEF p
<1>3. /\ j.cat \in BOOLEAN /\ j.phase \in PhaseWords /\ j.outcome \in RunWords
      /\ j.run \in Nat /\ j.retry \in BOOLEAN
    BY DEF Jobs
<1> QED
    BY <1>1, <1>2, <1>3 DEF Copies

\* What is in a quadruple.
LEMMA QuadParts ==
    ASSUME NEW w, QuadOK(w)
    PROVE  /\ w.j \in Jobs /\ JobOK(w.j) /\ w.a \in WinApps /\ w.s \in Setups
           /\ w.d \in BOOLEAN /\ w.j.run \in Nat /\ w.j.charts \in BOOLEAN
           /\ w.s.orderRun \in Nat /\ w.s.orderRun <= w.j.run
           /\ w.a.watch \in Nat /\ w.a.st \in Copies /\ w.a.st.run \in Nat
<1>1. w.j \in Jobs /\ w.a \in WinApps /\ w.s \in Setups /\ w.d \in BOOLEAN
    BY DEF QuadOK, WinQuads
<1> QED
    BY <1>1 DEF QuadOK, JobOK, Jobs, WinApps, Copies, Setups, SetupType

\* To draw nothing.
LEMMA DrawnStill ==
    ASSUME NEW w, QuadOK(w)
    PROVE  Drawn(w, w)
BY DEF Drawn

\* To draw twice.
LEMMA DrawnTwice ==
    ASSUME NEW v, NEW w, NEW k, Drawn(v, w), Drawn(w, k)
    PROVE  Drawn(v, k)
BY DEF Drawn

\* What is drawn of what is at hand is at hand.
LEMMA ServedIsDrawn ==
    ASSUME NEW w, Served(w), NEW k, Drawn(w, k)
    PROVE  Served(k)
BY DEF Served, Drawn, Copied, Watches

\* So with what an order may be placed from.
LEMMA CalledIsDrawn ==
    ASSUME NEW w, Called(w), NEW k, Drawn(w, k)
    PROVE  Called(k)
BY DEF Called, Drawn, Watches

\* The window's own state moves.
LEMMA WithApp ==
    ASSUME NEW w, QuadOK(w), NEW a \in WinApps, a.st = w.a.st,
           a.watch \in {0, w.a.watch}, NEW k, k = [w EXCEPT !.a = a]
    PROVE  Drawn(w, k) /\ k.a = a /\ k.j = w.j /\ k.s = w.s /\ k.d = w.d
<1>1. k \in WinQuads /\ k.a = a /\ k.j = w.j /\ k.s = w.s /\ k.d = w.d
    BY DEF QuadOK, WinQuads
<1> QED
    BY <1>1 DEF QuadOK, Drawn

\* Setup's state moves.
LEMMA WithSetup ==
    ASSUME NEW w, QuadOK(w), NEW s \in Setups, s.orderRun <= w.j.run,
           NEW k, k = [w EXCEPT !.s = s]
    PROVE  Drawn(w, k) /\ k.a = w.a /\ k.j = w.j /\ k.s = s /\ k.d = w.d
<1>1. k \in WinQuads /\ k.a = w.a /\ k.j = w.j /\ k.s = s /\ k.d = w.d
    BY DEF QuadOK, WinQuads
<1> QED
    BY <1>1 DEF QuadOK, Drawn

\* The mark of the sets moves.
LEMMA WithSets ==
    ASSUME NEW w, QuadOK(w), NEW d \in BOOLEAN, NEW k, k = [w EXCEPT !.d = d]
    PROVE  Drawn(w, k) /\ k.a = w.a /\ k.j = w.j /\ k.s = w.s
<1>1. k \in WinQuads /\ k.a = w.a /\ k.j = w.j /\ k.s = w.s
    BY DEF QuadOK, WinQuads
<1> QED
    BY <1>1 DEF QuadOK, Drawn

\* The service is asked for a read of its catalog.
LEMMA WithCatalog ==
    ASSUME NEW w, QuadOK(w), NEW cached \in BOOLEAN,
           NEW k, k = [w EXCEPT !.j = RefreshCatalog(@, cached)]
    PROVE  Drawn(w, k) /\ k.a = w.a /\ k.s = w.s
<1> DEFINE j == RefreshCatalog(w.j, cached)
<1>1. /\ JobOK(j) /\ j.run = w.j.run /\ (j = w.j \/ j.reading = "out")
      /\ AtEase(w.j) => AtEase(j)
    BY QuadParts, RefreshCatalogKeeps
<1>2. k = [w EXCEPT !.j = j]
    BY DEF QuadOK, WinQuads
<1> HIDE DEF j
<1>3. k \in WinQuads /\ k.a = w.a /\ k.j = j /\ k.s = w.s
    BY <1>1, <1>2 DEF QuadOK, WinQuads, JobOK
<1> QED
    BY <1>1, <1>3 DEF QuadOK, Drawn, JobOK

\* The facts setup acts on.
LEMMA WinFactsAre ==
    ASSUME NEW w, QuadOK(w)
    PROVE  FactsOK(WinFacts(w)) /\ WinFacts(w).run = w.a.st.run
BY QuadParts DEF FactsOK, WinFacts

\* What setup notes.
LEMMA NotedKeeps ==
    ASSUME NEW w, QuadOK(w), NEW k, k = Noted(w)
    PROVE  Drawn(w, k) /\ k.a = w.a /\ k.j = w.j /\ k.s.showing = w.s.showing
<1> DEFINE s == Note(w.s, WinFacts(w))
<1>1. k = [w EXCEPT !.s = s]
    BY DEF Noted, QuadOK, WinQuads
<1>2. s \in Setups /\ s.orderRun = w.s.orderRun /\ s.showing = w.s.showing
    BY QuadParts, NoteKeeps
<1> HIDE DEF s
<1> QED
    BY <1>1, <1>2, QuadParts, WithSetup

\* The coverage step is built.
LEMMA CoveredKeeps ==
    ASSUME NEW w, QuadOK(w), NEW cached \in BOOLEAN, NEW k, k = Covered(w, cached)
    PROVE  Drawn(w, k)
<1> DEFINE ask == ~w.a.st.cat /\ w.a.st.phase # "reading" /\ ~w.a.asked
           seed == w.a.st.cat /\ w.s.only /\ ~w.a.seeded
           held == IF w.j.charts THEN "some" ELSE "none"
           wants == (w.a.asked \/ ask) /\ ~w.a.st.cat
           seeded == w.a.seeded \/ seed
           base == IF seed THEN held ELSE w.a.base
           pick == IF seed /\ w.j.charts THEN held ELSE w.a.pick
           a == [w.a EXCEPT !.asked = wants, !.seeded = seeded, !.base = base,
                            !.pick = pick]
           v == IF ask THEN [w EXCEPT !.j = RefreshCatalog(@, cached)] ELSE w
<1>1. /\ wants \in BOOLEAN /\ seeded \in BOOLEAN /\ base \in Picks /\ pick \in Picks
    BY QuadParts DEF WinApps, Picks
<1>2. k = [v EXCEPT !.a = a]
    BY DEF Covered, QuadOK, WinQuads, WinApps
<1>3. Drawn(w, v) /\ v.a = w.a
    BY WithCatalog, DrawnStill
<1> HIDE DEF wants, seeded, base, pick, v
<1>4. a \in WinApps /\ a.st = w.a.st /\ a.watch = w.a.watch
    BY <1>1, QuadParts DEF WinApps
<1> HIDE DEF a
<1>5. QuadOK(v)
    BY <1>3 DEF Drawn
<1>6. Drawn(v, k)
    BY <1>2, <1>3, <1>4, <1>5, WithApp
<1> QED
    BY <1>3, <1>6, DrawnTwice

\* The library is opened.
LEMMA WinOpenedKeeps ==
    ASSUME NEW w, QuadOK(w), NEW k, k = WinOpened(w)
    PROVE  Drawn(w, k) /\ k.j = w.j /\ k.s = w.s
<1> DEFINE a == [w.a EXCEPT !.open = TRUE, !.nothing = FALSE, !.ticks = TRUE]
<1>1. k = [w EXCEPT !.a = a]
    BY DEF WinOpened, QuadOK, WinQuads
<1>2. a \in WinApps /\ a.st = w.a.st /\ a.watch = w.a.watch
    BY QuadParts DEF WinApps
<1> HIDE DEF a
<1> QED
    BY <1>1, <1>2, WithApp

\* The card is drawn, or put away.
LEMMA RenderKeeps ==
    ASSUME NEW w, QuadOK(w), NEW cached \in BOOLEAN, NEW k, k = Render(w, cached)
    PROVE  Drawn(w, k)
<1> DEFINE n == Noted(w)
           o == IF ~n.a.open /\ n.j.charts THEN WinOpened(n) ELSE n
           c == IF n.s.step = "coverage" THEN Covered(n, cached) ELSE n
           e == [c EXCEPT !.a.clock = n.a.pending]
<1>1. Drawn(w, n) /\ QuadOK(n)
    BY NotedKeeps DEF Drawn
<1>2. k = IF ~n.s.showing THEN [o EXCEPT !.a.clock = FALSE, !.a.ticks = TRUE]
          ELSE Noted(e)
    BY DEF Render
<1> HIDE DEF n
<1>3. Drawn(n, o) /\ QuadOK(o)
    BY <1>1, WinOpenedKeeps, DrawnStill DEF Drawn
<1>4. Drawn(n, c) /\ QuadOK(c)
    BY <1>1, CoveredKeeps, DrawnStill DEF Drawn
<1> HIDE DEF o, c
<1>5. CASE ~n.s.showing
    <2> DEFINE a == [o.a EXCEPT !.clock = FALSE, !.ticks = TRUE]
    <2>1. k = [o EXCEPT !.a = a]
        BY <1>2, <1>3, <1>5 DEF QuadOK, WinQuads
    <2>2. a \in WinApps /\ a.st = o.a.st /\ a.watch = o.a.watch
        BY <1>3, QuadParts DEF WinApps
    <2> HIDE DEF a
    <2>3. Drawn(o, k)
        BY <1>3, <2>1, <2>2, WithApp
    <2> QED
        BY <1>1, <1>3, <2>3, DrawnTwice
<1>6. CASE n.s.showing
    <2> DEFINE p == n.a.pending
               a == [c.a EXCEPT !.clock = p]
    <2>1. e = [c EXCEPT !.a = a]
        BY <1>4 DEF QuadOK, WinQuads
    <2>2. p \in BOOLEAN
        BY <1>1, QuadParts DEF WinApps
    <2> HIDE DEF p
    <2>3. a \in WinApps /\ a.st = c.a.st /\ a.watch = c.a.watch
        BY <1>4, <2>2, QuadParts DEF WinApps
    <2> HIDE DEF a
    <2>4. Drawn(c, e)
        BY <1>4, <2>1, <2>3, WithApp
    <2>5. k = Noted(e)
        BY <1>2, <1>6
    <2> HIDE DEF e
    <2>6. Drawn(e, k)
        BY <2>4, <2>5, NotedKeeps DEF Drawn
    <2> QED
        BY <1>1, <1>4, <2>4, <2>6, DrawnTwice
<1> QED
    BY <1>5, <1>6

\* The scan the library opens after has ended, or not.
LEMMA PendedKeeps ==
    ASSUME NEW w, QuadOK(w), NEW cached \in BOOLEAN, NEW k, k = Pended(w, cached)
    PROVE  Drawn(w, k)
<1> DEFINE a == [w.a EXCEPT !.pending = FALSE]
           o == [w EXCEPT !.a = a]
           p == IF w.j.charts THEN WinOpened(o) ELSE o
<1>1. [w EXCEPT !.a.pending = FALSE] = o
    BY DEF QuadOK, WinQuads
<1>2. k \in {w, o, p, Render(p, cached)}
    BY <1>1 DEF Pended
<1>3. a \in WinApps /\ a.st = w.a.st /\ a.watch = w.a.watch
    BY QuadParts DEF WinApps
<1> HIDE DEF a
<1>4. Drawn(w, o) /\ QuadOK(o)
    BY <1>3, WithApp DEF Drawn
<1> HIDE DEF o
<1>5. Drawn(o, p)
    BY <1>4, WinOpenedKeeps, DrawnStill
<1> HIDE DEF p
<1>6. Drawn(w, p) /\ QuadOK(p)
    BY <1>4, <1>5, DrawnTwice DEF Drawn
<1>7. CASE k = Render(p, cached)
    BY <1>6, <1>7, RenderKeeps, DrawnTwice
<1>8. CASE k = w
    BY <1>8, DrawnStill
<1> QED
    BY <1>2, <1>4, <1>6, <1>7, <1>8

\* The end of the run watched.
LEMMA TakeEndKeeps ==
    ASSUME NEW w, QuadOK(w), NEW cached \in BOOLEAN, NEW k, k = TakeEnd(w, cached)
    PROVE  Drawn(w, k)
<1> DEFINE a == [w.a EXCEPT !.watch = 0]
           told == [w EXCEPT !.a = a]
           t == told.a.ticks \/ ~w.s.showing
           b == [told.a EXCEPT !.pending = TRUE, !.ticks = t]
           p == [told EXCEPT !.a = b]
<1>1. [w EXCEPT !.a.watch = 0] = told
    BY DEF QuadOK, WinQuads
<1>2. a \in WinApps /\ a.st = w.a.st /\ a.watch = 0
    BY QuadParts DEF WinApps
<1> HIDE DEF a
<1>3. Drawn(w, told) /\ QuadOK(told)
    BY <1>2, WithApp DEF Drawn
<1>4. [told EXCEPT !.a.pending = TRUE, !.a.ticks = @ \/ ~w.s.showing] = p
    BY <1>3 DEF QuadOK, WinQuads, WinApps
<1>5. k \in {w, told, Pended(p, cached)}
    BY <1>1, <1>4 DEF TakeEnd
<1> HIDE DEF told
<1>6. t \in BOOLEAN
    OBVIOUS
<1> HIDE DEF t
<1>7. b \in WinApps /\ b.st = told.a.st /\ b.watch = told.a.watch
    BY <1>3, <1>6, QuadParts DEF WinApps
<1> HIDE DEF b
<1>8. Drawn(told, p) /\ QuadOK(p)
    BY <1>3, <1>7, WithApp DEF Drawn
<1> HIDE DEF p
<1>9. CASE k = Pended(p, cached)
    BY <1>3, <1>8, <1>9, PendedKeeps, DrawnTwice
<1>10. CASE k = w
    BY <1>10, DrawnStill
<1> QED
    BY <1>3, <1>5, <1>9, <1>10

\* The rows are read again.
LEMMA LandedKeeps ==
    ASSUME NEW w, QuadOK(w), NEW cached \in BOOLEAN, NEW k, k = Landed(w, cached)
    PROVE  Drawn(w, k)
<1> DEFINE n == Noted(w)
<1>1. Drawn(w, n) /\ QuadOK(n)
    BY NotedKeeps DEF Drawn
<1>2. k \in {Pended(n, cached), WinOpened(n), n}
    BY DEF Landed
<1> HIDE DEF n
<1>3. CASE k = Pended(n, cached)
    BY <1>1, <1>3, PendedKeeps, DrawnTwice
<1>4. CASE k = WinOpened(n)
    BY <1>1, <1>4, WinOpenedKeeps, DrawnTwice
<1> QED
    BY <1>1, <1>2, <1>3, <1>4

\* The end of setup's poll.
LEMMA ShownAgainKeeps ==
    ASSUME NEW w, QuadOK(w), NEW cached \in BOOLEAN, NEW k, k = ShownAgain(w, cached)
    PROVE  Drawn(w, k)
<1> DEFINE n == Noted(w)
           c == n.s.showing /\ n.a.pending
           a == [n.a EXCEPT !.clock = c]
<1>1. Drawn(w, n) /\ QuadOK(n)
    BY NotedKeeps DEF Drawn
<1>2. [n EXCEPT !.a.clock = c] = [n EXCEPT !.a = a]
    BY <1>1 DEF QuadOK, WinQuads
<1>3. k \in {Render(n, cached), [n EXCEPT !.a = a]}
    BY <1>2 DEF ShownAgain
<1>4. c \in BOOLEAN
    OBVIOUS
<1> HIDE DEF c, n
<1>5. a \in WinApps /\ a.st = n.a.st /\ a.watch = n.a.watch
    BY <1>1, <1>4, QuadParts DEF WinApps
<1> HIDE DEF a
<1>6. CASE k = Render(n, cached)
    BY <1>1, <1>6, RenderKeeps, DrawnTwice
<1>7. CASE k = [n EXCEPT !.a = a]
    BY <1>1, <1>5, <1>7, WithApp, DrawnTwice
<1> QED
    BY <1>3, <1>6, <1>7

\* The service is read.
LEMMA ReadServiceKeeps ==
    ASSUME NEW w, QuadOK(w), Watches(w.j, w.a), NEW k, k = ReadService(w)
    PROVE  Served(k) /\ k.j.run = w.j.run
<1> DEFINE j == Adopt(w.j)
           st == Published(j)
           a == [w.a EXCEPT !.st = st]
           d == w.d \/ Notes(w.j, j)
<1>1. JobOK(j) /\ AtEase(j) /\ j.run = w.j.run
    BY QuadParts, AdoptKeeps
<1>2. k = [w EXCEPT !.j = j, !.a = a, !.d = d]
    BY DEF ReadService, QuadOK, WinQuads
<1> HIDE DEF j
<1>3. st \in Copies /\ st.run = j.run /\ st = Published(j)
    BY <1>1, PublishedIs DEF JobOK
<1> HIDE DEF st
<1>4. a \in WinApps /\ a.st = st /\ a.watch = w.a.watch
    BY <1>3, QuadParts DEF WinApps
<1>5. d \in BOOLEAN
    OBVIOUS
<1> HIDE DEF a, d
<1>6. k \in WinQuads /\ k.j = j /\ k.a = a /\ k.s = w.s
    BY <1>1, <1>2, <1>4, <1>5 DEF QuadOK, WinQuads, JobOK
<1> QED
    BY <1>1, <1>3, <1>4, <1>6 DEF QuadOK, JobOK, Served, Copied, Watches

\* The window is told that the service moved.
LEMMA ChangedKeeps ==
    ASSUME NEW w, QuadOK(w), Watches(w.j, w.a), NEW cached \in BOOLEAN,
           NEW k, k = Changed(w, cached)
    PROVE  Served(k) /\ k.j.run = w.j.run
<1> DEFINE r == ReadService(w)
           e == TakeEnd(r, cached)
           c == [e EXCEPT !.d = FALSE]
           l == IF e.d THEN Landed(c, cached) ELSE e
<1>1. Served(r) /\ r.j.run = w.j.run
    BY ReadServiceKeeps
<1>2. k \in {r, e, ShownAgain(l, cached)}
    BY DEF Changed
<1> HIDE DEF r
<1>3. Drawn(r, e) /\ QuadOK(e)
    BY <1>1, TakeEndKeeps DEF Served, Drawn
<1> HIDE DEF e
<1>4. Drawn(e, c) /\ QuadOK(c)
    <2>1. FALSE \in BOOLEAN
        OBVIOUS
    <2>2. c \in WinQuads /\ c.a = e.a /\ c.j = e.j /\ c.s = e.s
        BY <1>3 DEF QuadOK, WinQuads
    <2> QED
        BY <1>3, <2>2 DEF QuadOK, Drawn
<1> HIDE DEF c
<1>5. Drawn(e, l) /\ QuadOK(l)
    BY <1>3, <1>4, LandedKeeps, DrawnStill, DrawnTwice DEF Drawn
<1> HIDE DEF l
<1>6. CASE k = ShownAgain(l, cached)
    <2>1. Drawn(l, k)
        BY <1>5, <1>6, ShownAgainKeeps
    <2>2. Drawn(r, k)
        BY <1>3, <1>5, <2>1, DrawnTwice
    <2> QED
        BY <1>1, <2>2, ServedIsDrawn DEF Drawn
<1>7. CASE k = e
    BY <1>1, <1>3, <1>7, ServedIsDrawn DEF Drawn
<1> QED
    BY <1>1, <1>2, <1>6, <1>7

\* The sets are polled: nothing, or the service was read.
LEMMA PollSetsKeeps ==
    ASSUME NEW w, QuadOK(w), Watches(w.j, w.a), NEW cached \in BOOLEAN,
           NEW k, k = PollSets(w, cached)
    PROVE  k = w \/ (Served(k) /\ k.j.run = w.j.run)
<1> DEFINE n == [w EXCEPT !.d = FALSE]
           c == Changed(n, cached)
<1>1. k = w \/ k = Landed(c, cached)
    BY DEF PollSets
<1>2. QuadOK(n) /\ n.j = w.j /\ n.a = w.a
    BY DEF QuadOK, WinQuads
<1> HIDE DEF n
<1>3. Served(c) /\ c.j.run = w.j.run
    BY <1>2, ChangedKeeps
<1> HIDE DEF c
<1>4. CASE k = Landed(c, cached)
    <2>1. Drawn(c, k)
        BY <1>3, <1>4, LandedKeeps DEF Served
    <2> QED
        BY <1>3, <2>1, ServedIsDrawn DEF Drawn
<1> QED
    BY <1>1, <1>4

\* What is at hand once the service was read is where an order may be placed.
LEMMA ServedIsCalled ==
    ASSUME NEW w, Served(w)
    PROVE  Called(w) /\ QuadOK(w) /\ Watches(w.j, w.a)
BY DEF Served, Called

\* A download is ordered.
LEMMA WinOrderDownloadKeeps ==
    ASSUME NEW w, Called(w), NEW plan \in Plans, NEW disk \in BOOLEAN,
           NEW cached \in BOOLEAN, NEW k, k = WinOrderDownload(w, plan, disk, cached)
    PROVE  Served(k)
<1> DEFINE j == StartRun(w.j, plan, disk)
           n == w.a.st.run + 1
           a == [w.a EXCEPT !.watch = n]
           v == [w EXCEPT !.a = a, !.j = j]
<1>1. QuadOK(w) /\ w.a.st.run = w.j.run
    BY DEF Called
<1>2. JobOK(j) /\ j.run \in {w.j.run, w.j.run + 1}
    BY <1>1, QuadParts, StartRunKeeps
<1>3. k = Changed(v, cached)
    BY <1>1 DEF WinOrderDownload, QuadOK, WinQuads
<1> HIDE DEF j
<1>4. n \in Nat /\ n = w.j.run + 1
    BY <1>1, QuadParts
<1> HIDE DEF n
<1>5. a \in WinApps /\ a.watch = n
    BY <1>1, <1>4, QuadParts DEF WinApps
<1> HIDE DEF a
<1>6. v \in WinQuads /\ v.j = j /\ v.a = a /\ v.s = w.s
    BY <1>1, <1>2, <1>5 DEF QuadOK, WinQuads, JobOK
<1> HIDE DEF v
<1>7. w.s.orderRun <= j.run
    BY <1>1, <1>2, QuadParts
<1>8. QuadOK(v)
    BY <1>2, <1>6, <1>7 DEF QuadOK, JobOK
<1>9. Watches(v.j, v.a)
    BY <1>2, <1>4, <1>5, <1>6 DEF Watches
<1> QED
    BY <1>3, <1>8, <1>9, ChangedKeeps

\* The chart is opened again on what is left.
LEMMA ReopenedKeeps ==
    ASSUME NEW w, QuadOK(w), NEW k, k = Reopened(w)
    PROVE  Drawn(w, k)
<1> DEFINE a == [w.a EXCEPT !.open = FALSE, !.nothing = TRUE]
<1>1. k = WinOpened(w) \/ k = [w EXCEPT !.a = a]
    BY DEF Reopened, QuadOK, WinQuads
<1>2. a \in WinApps /\ a.st = w.a.st /\ a.watch = w.a.watch
    BY QuadParts DEF WinApps
<1> HIDE DEF a
<1> QED
    BY <1>1, <1>2, WithApp, WinOpenedKeeps

\* A pick is applied.
LEMMA WinOrderApplyKeeps ==
    ASSUME NEW w, Called(w), NEW gone \in BOOLEAN, NEW reaches \in BOOLEAN,
           NEW plan \in Plans, NEW cached \in BOOLEAN,
           NEW k, k = WinOrderApply(w, gone, reaches, plan, cached)
    PROVE  Served(k)
<1> DEFINE some == w.a.pick # "none"
           j == ApplyPicks(w.j, some, gone, reaches, plan, TRUE)
           n == IF some THEN w.a.st.run + 1 ELSE 0
           o == w.a.open /\ ~gone
           a == [w.a EXCEPT !.open = o, !.watch = n]
           d == w.d \/ Notes(w.j, j)
           s == [w EXCEPT !.j = j, !.d = d, !.a = a]
           c == Changed(s, cached)
<1>1. QuadOK(w) /\ w.a.st.run = w.j.run
    BY DEF Called
<1>2. some \in BOOLEAN /\ TRUE \in BOOLEAN /\ o \in BOOLEAN /\ d \in BOOLEAN
    OBVIOUS
<1>3. s = [w EXCEPT !.j = j, !.d = @ \/ Notes(w.j, j), !.a.open = @ /\ ~gone,
                    !.a.watch = IF some THEN w.a.st.run + 1 ELSE 0]
    BY <1>1 DEF QuadOK, WinQuads, WinApps
<1>4. k = IF gone THEN Reopened(c) ELSE c
    BY <1>3 DEF WinOrderApply
<1>5. n \in Nat /\ n \in {0, w.j.run + 1}
    BY <1>1, QuadParts
<1> HIDE DEF some, n, o, d
<1>6. JobOK(j) /\ j.run \in {w.j.run, w.j.run + 1}
    BY <1>1, <1>2, QuadParts, ApplyPicksKeeps, ZenonT(40)
<1> HIDE DEF j
<1>7. a \in WinApps /\ a.watch = n
    BY <1>1, <1>2, <1>5, QuadParts DEF WinApps
<1> HIDE DEF a
<1>8. s \in WinQuads /\ s.j = j /\ s.a = a /\ s.s = w.s
    BY <1>1, <1>2, <1>6, <1>7 DEF QuadOK, WinQuads, JobOK
<1> HIDE DEF s
<1>9. w.s.orderRun <= j.run
    BY <1>1, <1>6, QuadParts
<1>10. QuadOK(s)
    BY <1>6, <1>8, <1>9 DEF QuadOK, JobOK
<1>11. Watches(s.j, s.a)
    BY <1>5, <1>6, <1>7, <1>8 DEF Watches
<1>12. Served(c)
    BY <1>10, <1>11, ChangedKeeps
<1> HIDE DEF c
<1> QED
    BY <1>4, <1>12, ReopenedKeeps, ServedIsDrawn DEF Served

\* The service and the window over it, with setup, between two handlers.
WinHolds == WinSetupInv(job, owed, dirty, app, setup)

\* What a handler begins with.
LEMMA WinNowIs ==
    ASSUME WinHolds
    PROVE  /\ Called(WinNow) /\ QuadOK(WinNow) /\ Watches(WinNow.j, WinNow.a)
           /\ WinNow.j = job /\ WinNow.a = app /\ WinNow.s = setup
           /\ JobOK(job) /\ job.run <= MaxRuns /\ job.run \in Nat
           /\ setup \in Setups /\ setup.orderRun <= job.run /\ setup.orderRun \in Nat
           /\ app \in WinApps /\ app.st.run = job.run
           /\ owed \in BOOLEAN /\ dirty \in BOOLEAN
<1>1. WinNow \in WinQuads /\ WinNow.j = job /\ WinNow.a = app /\ WinNow.s = setup
    BY DEF WinHolds, WinSetupInv, WinNow, WinQuads, JobOK, SetupOK
<1>2. job.run \in Nat /\ setup.orderRun \in Nat
    BY DEF WinHolds, WinSetupInv, JobOK, Jobs, SetupOK, Setups, SetupType
<1> QED
    BY <1>1, <1>2 DEF WinHolds, WinSetupInv, JobOK, SetupOK, QuadOK, Called

\* The end of a handler that only drew.
LEMMA WinDrawn ==
    ASSUME WinHolds, NEW k, Drawn(WinNow, k), WinDone(k), UNCHANGED owed
    PROVE  WinHolds'
<1>1. /\ k.j \in Jobs /\ k.a \in WinApps /\ k.s \in Setups /\ k.d \in BOOLEAN
      /\ k.s.orderRun <= k.j.run /\ JobHolds(k.j)
    BY QuadParts DEF Drawn, QuadOK
<1>2. /\ k.j.run = job.run /\ k.a.st = app.st /\ k.a.watch \in {0, app.watch}
      /\ k.j = job \/ k.j.reading = "out"
      /\ AtEase(job) => AtEase(k.j)
    BY WinNowIs DEF Drawn
<1> QED
    BY <1>1, <1>2 DEF WinHolds, WinSetupInv, WinDone, JobOK, SetupOK, Copied, Watches

\* The end of a handler that read the service.
LEMMA WinServed ==
    ASSUME NEW k, Served(k), k.j.run <= MaxRuns, WinDone(k), owed' \in BOOLEAN
    PROVE  WinHolds'
<1>1. /\ k.j \in Jobs /\ k.a \in WinApps /\ k.s \in Setups /\ k.d \in BOOLEAN
      /\ k.s.orderRun <= k.j.run /\ JobHolds(k.j)
    BY QuadParts DEF Served, QuadOK
<1> QED
    BY <1>1 DEF WinHolds, WinSetupInv, WinDone, JobOK, SetupOK, Served

\* The steps outside the shell.
LEMMA WinOutsideKeeps ==
    ASSUME WinHolds, WinOutside
    PROVE  WinHolds'
<1>1. /\ JobOK(job') /\ job'.run = job.run /\ owed' = TRUE
      /\ dirty' \in BOOLEAN /\ app' = app /\ setup' = setup
    BY WinNowIs, ElsewhereKeeps DEF WinOutside
<1> QED
    BY <1>1 DEF WinHolds, WinSetupInv, Watches

\* What is read of the disk.
LEMMA CachesAre == Caches \subseteq BOOLEAN
BY DEF Caches

\* The clocks.
LEMMA ClocksKeep ==
    ASSUME WinHolds, Clocks
    PROVE  WinHolds'
<1>1. CASE WinWoken
    <2>1. PICK cached \in Caches : WinDone(Changed(WinNow, cached))
        BY <1>1 DEF WinWoken
    <2> DEFINE k == Changed(WinNow, cached)
    <2>2. Served(k) /\ k.j.run = job.run
        BY CachesAre, WinNowIs, ChangedKeeps
    <2>3. WinDone(k) /\ owed' = FALSE
        BY <1>1, <2>1 DEF WinWoken
    <2> HIDE DEF k
    <2> QED
        BY <2>2, <2>3, WinNowIs, WinServed
<1>2. CASE ReadoutTick
    <2>1. PICK cached \in Caches : WinDone(Changed(PollSets(WinNow, cached), cached))
        BY <1>2 DEF ReadoutTick
    <2> DEFINE p == PollSets(WinNow, cached)
               k == Changed(p, cached)
    <2>2. cached \in BOOLEAN
        BY CachesAre
    <2>3. WinDone(k) /\ owed' = owed
        BY <1>2, <2>1 DEF ReadoutTick
    <2>4. p = WinNow \/ (Served(p) /\ p.j.run = job.run)
        BY <2>2, WinNowIs, PollSetsKeeps
    <2> HIDE DEF p
    <2>5. QuadOK(p) /\ Watches(p.j, p.a) /\ p.j.run = job.run
        BY <2>4, WinNowIs, ServedIsCalled
    <2>6. Served(k) /\ k.j.run = job.run
        BY <2>2, <2>5, ChangedKeeps
    <2> HIDE DEF k
    <2> QED
        BY <2>3, <2>6, WinNowIs, WinServed
<1>3. CASE SetupTick
    <2>1. PICK cached \in Caches : WinDone(FirstRunPoll(WinNow, cached))
        BY <1>3 DEF SetupTick
    <2> DEFINE p == PollSets(WinNow, cached)
               k == ShownAgain(p, cached)
    <2>2. cached \in BOOLEAN
        BY CachesAre
    <2>3. WinDone(k) /\ owed' = owed
        BY <1>3, <2>1 DEF SetupTick, FirstRunPoll
    <2>4. p = WinNow \/ (Served(p) /\ p.j.run = job.run)
        BY <2>2, WinNowIs, PollSetsKeeps
    <2> HIDE DEF p
    <2>5. Drawn(p, k)
        BY <2>2, <2>4, WinNowIs, ServedIsCalled, ShownAgainKeeps
    <2> HIDE DEF k
    <2>6. CASE p = WinNow
        BY <2>3, <2>5, <2>6, WinDrawn
    <2>7. CASE Served(p) /\ p.j.run = job.run
        <3>1. Served(k) /\ k.j.run = job.run
            BY <2>5, <2>7, ServedIsDrawn DEF Drawn
        <3> QED
            BY <2>3, <3>1, WinNowIs, WinServed
    <2> QED
        BY <2>4, <2>6, <2>7
<1>4. CASE OpenBasemap
    <2>1. PICK cached \in Caches :
             LET w == Noted([WinNow EXCEPT !.a.nothing = TRUE,
                                           !.j = RefreshCatalog(@, cached)])
             IN  WinDone(IF ~ShouldRun(w.s, WinFacts(w)) THEN w
                      ELSE Render([w EXCEPT !.a.ticks = FALSE,
                                            !.s = BeginAt(@, WinFacts(w), "welcome", FALSE)],
                                  cached))
        BY <1>4 DEF OpenBasemap
    <2> DEFINE a == [app EXCEPT !.nothing = TRUE]
               n == [WinNow EXCEPT !.a = a]
               m == [n EXCEPT !.j = RefreshCatalog(@, cached)]
               w == Noted(m)
               b == [w.a EXCEPT !.ticks = FALSE]
               s == BeginAt(w.s, WinFacts(w), "welcome", FALSE)
               x == [w EXCEPT !.a = b]
               y == [x EXCEPT !.s = s]
    <2>2. cached \in BOOLEAN /\ owed' = owed
        BY <1>4, CachesAre DEF OpenBasemap
    <2>3. [WinNow EXCEPT !.a.nothing = TRUE, !.j = RefreshCatalog(@, cached)] = m
        BY WinNowIs DEF QuadOK, WinQuads
    <2>4. a \in WinApps /\ a.st = app.st /\ a.watch = app.watch
        BY WinNowIs DEF WinApps
    <2>5. Drawn(WinNow, n) /\ QuadOK(n)
        <3> HIDE DEF a
        <3> QED
            BY <2>4, WinNowIs, WithApp DEF Drawn
    <2>6. Drawn(n, m) /\ QuadOK(m)
        <3> HIDE DEF n
        <3>1. m = [n EXCEPT !.j = RefreshCatalog(@, cached)]
            OBVIOUS
        <3> HIDE DEF m
        <3>2. Drawn(n, m)
            BY <2>2, <2>5, <3>1, WithCatalog
        <3> QED
            BY <3>2 DEF Drawn
    <2>7. Drawn(m, w) /\ QuadOK(w)
        <3> HIDE DEF m
        <3> QED
            BY <2>6, NotedKeeps DEF Drawn
    <2>8. \/ WinDone(w)
          \/ WinDone(Render([w EXCEPT !.a.ticks = FALSE,
                                      !.s = BeginAt(@, WinFacts(w), "welcome", FALSE)],
                            cached))
        BY <2>1, <2>3
    <2> HIDE DEF n, m, w
    <2>9. Drawn(WinNow, w)
        BY <2>5, <2>6, <2>7, DrawnTwice
    <2>10. [w EXCEPT !.a.ticks = FALSE, !.s = BeginAt(@, WinFacts(w), "welcome", FALSE)] = y
        BY <2>7 DEF QuadOK, WinQuads
    <2>11. s \in Setups /\ s.orderRun = 0
        <3>1. FactsOK(WinFacts(w)) /\ "welcome" \in Steps /\ w.s \in Setups
            BY <2>7, QuadParts, WinFactsAre DEF Steps
        <3> QED
            BY <3>1, BeginAtKeeps
    <2>12. b \in WinApps /\ b.st = w.a.st /\ b.watch = w.a.watch
        BY <2>7, QuadParts DEF WinApps
    <2> HIDE DEF b, s
    <2>13. Drawn(w, x) /\ QuadOK(x)
        BY <2>7, <2>12, WithApp DEF Drawn
    <2> HIDE DEF x
    <2>14. Drawn(x, y) /\ QuadOK(y)
        <3>1. s.orderRun <= x.j.run
            BY <2>11, <2>13, QuadParts
        <3> QED
            BY <2>11, <2>13, <3>1, WithSetup DEF Drawn
    <2> HIDE DEF y
    <2>15. Drawn(y, Render(y, cached))
        BY <2>2, <2>14, RenderKeeps
    <2>16. Drawn(WinNow, Render(y, cached))
        BY <2>9, <2>13, <2>14, <2>15, DrawnTwice
    <2> QED
        BY <2>2, <2>8, <2>9, <2>10, <2>16, WinDrawn
<1> QED
    BY <1>1, <1>2, <1>3, <1>4 DEF Clocks

\* What setup notes before a handler acts, and the facts it acts on.
LEMMA NoticedIs ==
    ASSUME WinHolds
    PROVE  /\ Noticed \in Setups /\ Noticed.orderRun = setup.orderRun
           /\ FactsOK(WinFacts(WinNow)) /\ WinFacts(WinNow).run = job.run
<1>1. FactsOK(WinFacts(WinNow)) /\ WinFacts(WinNow).run = job.run
    BY WinNowIs, WinFactsAre
<1>2. setup \in Setups
    BY WinNowIs
<1> QED
    BY <1>1, <1>2, NoteKeeps DEF Noticed

\* A step forward from there.
LEMMA WinAdvances ==
    ASSUME WinHolds, NEW source, NEW s, s = Advance(Noticed, WinFacts(WinNow), source)
    PROVE  s \in Setups /\ s.orderRun <= job.run
<1> DEFINE f == WinFacts(WinNow)
           n == Noticed
<1>1. n \in Setups /\ n.orderRun = setup.orderRun /\ FactsOK(f) /\ f.run = job.run
    BY NoticedIs
<1>2. s = Advance(n, f, source)
    OBVIOUS
<1> HIDE DEF f, n
<1>3. s \in Setups /\ s.orderRun \in {n.orderRun, f.run}
    BY <1>1, <1>2, AdvanceKeeps
<1> QED
    BY <1>1, <1>3, WinNowIs

\* Setup moves, and the card is not drawn.
LEMMA WinMoves ==
    ASSUME WinHolds, NEW s \in Setups, s.orderRun <= job.run,
           NEW k, k = [WinNow EXCEPT !.s = s]
    PROVE  /\ Drawn(WinNow, k) /\ QuadOK(k) /\ k.j = job /\ k.a = app
           /\ Called(k)
<1>1. Drawn(WinNow, k) /\ k.j = job /\ k.a = app
    BY WinNowIs, WithSetup
<1> QED
    BY <1>1, WinNowIs, CalledIsDrawn DEF Drawn

\* Setup moves, and the card is drawn.
LEMMA ActedKeeps ==
    ASSUME WinHolds, NEW s \in Setups, s.orderRun <= job.run, Acted(s)
    PROVE  WinHolds'
<1> DEFINE m == [WinNow EXCEPT !.s = s]
<1>1. PICK cached \in Caches : WinDone(Render(m, cached))
    BY DEF Acted
<1>2. Drawn(WinNow, m) /\ QuadOK(m)
    BY WinMoves
<1> HIDE DEF m
<1> DEFINE k == Render(m, cached)
<1>3. Drawn(m, k)
    BY <1>2, CachesAre, RenderKeeps
<1>4. WinDone(k) /\ UNCHANGED owed
    BY <1>1 DEF Acted
<1> HIDE DEF k
<1> QED
    BY <1>2, <1>3, <1>4, DrawnTwice, WinDrawn

\* A stop shows the card from the copy as it was, and leaves the service as it is
\* shown, or with a wake to come.
LEMMA WinStopKeeps ==
    ASSUME WinHolds, WinStop
    PROVE  WinHolds'
<1> DEFINE c == Cancel(job)
           m == [WinNow EXCEPT !.j = c]
<1>1. PICK cached \in Caches : WinDone(Render([WinNow EXCEPT !.j = Cancel(@)], cached))
    BY DEF WinStop
<1>2. [WinNow EXCEPT !.j = Cancel(@)] = m
    BY WinNowIs DEF QuadOK, WinQuads
<1>3. /\ JobOK(c) /\ c.run = job.run
      /\ AtEase(job) /\ job.reading # "out" /\ job.cell # "out" =>
            AtEase(c) /\ Published(c) = Published(job)
    BY WinNowIs, CancelKeeps
<1> HIDE DEF c
<1>4. m \in WinQuads /\ m.j = c /\ m.a = app /\ m.s = setup
    BY <1>3, WinNowIs DEF QuadOK, WinQuads, JobOK
<1>5. QuadOK(m)
    BY <1>3, <1>4, WinNowIs DEF QuadOK, JobOK
<1> DEFINE k == Render(m, cached)
<1>6. WinDone(k)
    BY <1>1, <1>2
<1> HIDE DEF m
<1>7. Drawn(m, k)
    BY <1>5, CachesAre, RenderKeeps
<1> HIDE DEF k
<1>8. /\ k.j \in Jobs /\ k.a \in WinApps /\ k.s \in Setups /\ k.d \in BOOLEAN
      /\ k.s.orderRun <= k.j.run /\ JobHolds(k.j)
    BY <1>7, QuadParts DEF Drawn, QuadOK
<1>9. /\ k.j.run = job.run /\ k.a.st = app.st /\ k.a.watch \in {0, app.watch}
      /\ k.j = c \/ k.j.reading = "out"
      /\ AtEase(c) => AtEase(k.j)
    BY <1>3, <1>4, <1>7 DEF Drawn
<1>10. owed' = (owed \/ "out" \in {job.cell, job.reading})
    BY DEF WinStop
<1>11. ASSUME ~owed'
       PROVE  AtEase(k.j) /\ Copied(k.j, k.a)
    <2>1. ~owed /\ job.reading # "out" /\ job.cell # "out"
        BY <1>10, <1>11, WinNowIs
    <2>2. AtEase(job) /\ app.st = Published(job)
        BY <2>1 DEF WinHolds, WinSetupInv, Copied
    <2> QED
        BY <1>3, <1>9, <2>1, <2>2 DEF Copied
<1>12. owed' \in BOOLEAN
    BY <1>10, WinNowIs
<1>13. job.run <= MaxRuns /\ Watches(job, app) /\ app.st.run = job.run
    BY DEF WinHolds, WinSetupInv
<1> QED
    BY <1>6, <1>8, <1>9, <1>11, <1>12, <1>13
       DEF WinHolds, WinSetupInv, WinDone, JobOK, SetupOK, Watches

\* An order of the card, and of a picker: the card is drawn of what the service was
\* read to be.
LEMMA WinOrderedKeeps ==
    ASSUME NEW w, Served(w), w.j.run <= MaxRuns, NEW cached \in Caches,
           WinDone(Render(w, cached)), owed' \in BOOLEAN
    PROVE  WinHolds'
<1> DEFINE k == Render(w, cached)
<1>1. Drawn(w, k)
    BY CachesAre, RenderKeeps DEF Served
<1>2. WinDone(k)
    OBVIOUS
<1> HIDE DEF k
<1>3. Served(k) /\ k.j.run = w.j.run
    BY <1>1, ServedIsDrawn DEF Drawn
<1> QED
    BY <1>2, <1>3, WinServed

\* The card.
LEMMA WinCardKeeps ==
    ASSUME WinHolds, WinCard
    PROVE  WinHolds'
<1>1. CASE WinPrimaryClicked
    <2>1. PICK source \in {"noaa", "online", "files"} :
             LET s == Advance(Noticed, WinFacts(WinNow), source)
             IN  IF s.terms THEN WinDone([WinNow EXCEPT !.s = s]) /\ UNCHANGED owed
                 ELSE Acted(s)
        BY <1>1 DEF WinPrimaryClicked
    <2> DEFINE s == Advance(Noticed, WinFacts(WinNow), source)
    <2>2. (WinDone([WinNow EXCEPT !.s = s]) /\ UNCHANGED owed) \/ Acted(s)
        BY <2>1
    <2>3. s \in Setups /\ s.orderRun <= job.run
        BY WinAdvances
    <2> HIDE DEF s
    <2> DEFINE k == [WinNow EXCEPT !.s = s]
    <2>4. CASE WinDone(k) /\ UNCHANGED owed
        <3>1. Drawn(WinNow, k)
            BY <2>3, WinMoves
        <3> HIDE DEF k
        <3> QED
            BY <2>4, <3>1, WinDrawn
    <2> QED
        BY <2>2, <2>3, <2>4, ActedKeeps
<1>2. CASE WinTerms
    <2> DEFINE n == Noticed
    <2>1. n \in Setups /\ n.orderRun = setup.orderRun
        BY NoticedIs
    <2>2. Acted(Agree(n)) \/ Acted(Decline(n))
        BY <1>2 DEF WinTerms
    <2> HIDE DEF n
    <2> DEFINE a == Agree(n)
               d == Decline(n)
    <2>3. /\ a \in Setups /\ a.orderRun <= job.run
          /\ d \in Setups /\ d.orderRun <= job.run
        BY <2>1, WinNowIs, TermsKeeps
    <2> HIDE DEF a, d
    <2>4. Acted(a) \/ Acted(d)
        BY <2>2 DEF a, d
    <2> QED
        BY <2>3, <2>4, ActedKeeps
<1>3. CASE WinBackClicked \/ WinLaterClicked
    <2> DEFINE n == Noticed
               f == WinFacts(WinNow)
               e == Finish(n)
               b == Back(n, f)
    <2>1. n \in Setups /\ n.orderRun = setup.orderRun
        BY NoticedIs
    <2>2. Acted(e) \/ Acted(b)
        BY <1>3 DEF WinBackClicked, WinLaterClicked
    <2> HIDE DEF n, f
    <2>3. e \in Setups /\ e.orderRun <= job.run
        BY <2>1, WinNowIs, FinishKeeps
    <2>4. b \in Setups /\ b.orderRun <= job.run
        <3>1. b \in Setups /\ b.orderRun \in {n.orderRun, 0}
            BY <2>1, BackKeeps
        <3> HIDE DEF b
        <3> QED
            BY <2>1, <3>1, WinNowIs
    <2> HIDE DEF e, b
    <2> QED
        BY <2>2, <2>3, <2>4, ActedKeeps
<1>4. CASE WinDownload
    <2>1. PICK plan \in Plans, disk \in BOOLEAN, cached \in Caches :
             LET s == Advance(Noticed, WinFacts(WinNow), "noaa")
                 w == WinOrderDownload([WinNow EXCEPT !.s = s], plan, disk, cached)
             IN  w.j.run <= MaxRuns /\ WinDone(Render(w, cached))
        BY <1>4 DEF WinDownload
    <2> DEFINE s == Advance(Noticed, WinFacts(WinNow), "noaa")
               m == [WinNow EXCEPT !.s = s]
               w == WinOrderDownload(m, plan, disk, cached)
    <2>2. w.j.run <= MaxRuns /\ WinDone(Render(w, cached)) /\ owed' = owed
        BY <1>4, <2>1 DEF WinDownload
    <2>3. s \in Setups /\ s.orderRun <= job.run
        BY WinAdvances
    <2> HIDE DEF s
    <2>4. Called(m)
        BY <2>3, WinMoves
    <2> HIDE DEF m
    <2>5. Served(w)
        BY <2>4, CachesAre, WinOrderDownloadKeeps
    <2> HIDE DEF w
    <2> QED
        BY <2>2, <2>5, WinNowIs, WinOrderedKeeps
<1>5. CASE WinUseLink
    <2> DEFINE a == [app EXCEPT !.link = TRUE]
               m == [WinNow EXCEPT !.a = a]
               k == Noted(m)
    <2>1. [WinNow EXCEPT !.a.link = TRUE] = m
        BY WinNowIs DEF QuadOK, WinQuads
    <2>2. WinDone(k) /\ UNCHANGED owed
        BY <1>5, <2>1 DEF WinUseLink
    <2>3. a \in WinApps /\ a.st = app.st /\ a.watch = app.watch
        BY WinNowIs DEF WinApps
    <2> HIDE DEF a
    <2>4. Drawn(WinNow, m) /\ QuadOK(m)
        BY <2>3, WinNowIs, WithApp DEF Drawn
    <2> HIDE DEF m
    <2>5. Drawn(m, k)
        BY <2>4, NotedKeeps
    <2> HIDE DEF k
    <2> QED
        BY <2>2, <2>4, <2>5, DrawnTwice, WinDrawn
<1> QED
    BY <1>1, <1>2, <1>3, <1>4, <1>5, WinStopKeeps DEF WinCard

\* What a pick is applied from: setup has moved, and the question is put away.
LEMMA WinAppliesFrom ==
    ASSUME WinHolds, NEW s \in Setups, s.orderRun <= job.run,
           NEW k, k = [WinNow EXCEPT !.s = s, !.a.asking = FALSE]
    PROVE  Called(k)
<1> DEFINE a == [app EXCEPT !.asking = FALSE]
           m == [WinNow EXCEPT !.s = s]
<1>1. k = [m EXCEPT !.a = a]
    BY WinNowIs DEF QuadOK, WinQuads
<1>2. a \in WinApps /\ a.st = app.st /\ a.watch = app.watch
    BY WinNowIs DEF WinApps
<1> HIDE DEF a
<1>3. QuadOK(m) /\ m.a = app /\ Called(m)
    BY WinMoves
<1> HIDE DEF m
<1>4. Drawn(m, k)
    BY <1>1, <1>2, <1>3, WithApp
<1> QED
    BY <1>3, <1>4, CalledIsDrawn

\* The question is asked, or put away.
LEMMA WinAskingKeeps ==
    ASSUME WinHolds, NEW b \in BOOLEAN, app' = [app EXCEPT !.asking = b],
           UNCHANGED <<job, setup, owed, dirty>>
    PROVE  WinHolds'
<1>1. app' \in WinApps /\ app'.st = app.st /\ app'.watch = app.watch
    BY WinNowIs DEF WinApps
<1> QED
    BY <1>1 DEF WinHolds, WinSetupInv, Copied, Watches

\* Water is given back, with more to fetch or without.
LEMMA WinRemoveKeeps ==
    ASSUME WinHolds, WinRemove
    PROVE  WinHolds'
<1>1. PICK reaches \in BOOLEAN, cached \in Caches, plan \in Plans :
         LET adds == Applied(TRUE, reaches, plan, cached)
             only == WinOrderApply([WinNow EXCEPT !.a.asking = FALSE], TRUE, reaches, 0,
                                cached)
             w == IF plan > 0 THEN adds ELSE [only EXCEPT !.s = Finish(@)]
         IN  w.j.run <= MaxRuns /\ WinDone(Render(w, cached))
    BY DEF WinRemove
<1> DEFINE s == Advance(Noticed, WinFacts(WinNow), "noaa")
           m == [WinNow EXCEPT !.s = s, !.a.asking = FALSE]
           adds == WinOrderApply(m, TRUE, reaches, plan, cached)
           n == [WinNow EXCEPT !.s = setup, !.a.asking = FALSE]
           only == WinOrderApply(n, TRUE, reaches, 0, cached)
           t == Finish(only.s)
           k == [only EXCEPT !.s = t]
<1>2. cached \in BOOLEAN /\ 0 \in Plans /\ TRUE \in BOOLEAN /\ owed' = owed
    BY CachesAre DEF Plans, WinRemove
<1>3. n = [WinNow EXCEPT !.a.asking = FALSE]
    BY WinNowIs DEF QuadOK, WinQuads
<1>4. /\ plan > 0 => adds.j.run <= MaxRuns /\ WinDone(Render(adds, cached))
      /\ ~(plan > 0) =>
            LET w == [only EXCEPT !.s = Finish(@)]
            IN  w.j.run <= MaxRuns /\ WinDone(Render(w, cached))
    BY <1>1, <1>3 DEF Applied
<1>5. s \in Setups /\ s.orderRun <= job.run
    BY WinAdvances
<1> HIDE DEF s
<1>6. Called(m)
    BY <1>5, WinAppliesFrom
<1> HIDE DEF m
<1>7. Served(adds)
    BY <1>2, <1>6, WinOrderApplyKeeps
<1>8. Called(n)
    BY WinNowIs, WinAppliesFrom
<1> HIDE DEF n
<1>9. Served(only)
    BY <1>2, <1>8, WinOrderApplyKeeps
<1> HIDE DEF adds, only
<1>10. [only EXCEPT !.s = Finish(@)] = k
    BY <1>9 DEF Served, QuadOK, WinQuads
<1>11. t \in Setups /\ t.orderRun <= only.j.run
    <2>1. only.s \in Setups /\ only.s.orderRun <= only.j.run
        BY <1>9, QuadParts DEF Served
    <2> QED
        BY <2>1, FinishKeeps
<1> HIDE DEF t
<1>12. Drawn(only, k)
    BY <1>9, <1>11, WithSetup DEF Served
<1>13. ~(plan > 0) => k.j.run <= MaxRuns /\ WinDone(Render(k, cached))
    BY <1>4, <1>10
<1> HIDE DEF k
<1>14. Served(k)
    BY <1>9, <1>12, ServedIsDrawn
<1>15. owed' \in BOOLEAN
    BY <1>2, WinNowIs
<1>16. CASE plan > 0
    BY <1>4, <1>7, <1>15, <1>16, WinOrderedKeeps
<1>17. CASE ~(plan > 0)
    BY <1>13, <1>14, <1>15, <1>17, WinOrderedKeeps
<1> QED
    BY <1>16, <1>17

\* The picker and the Charts pane.
LEMMA PaneKeeps ==
    ASSUME WinHolds, Pane
    PROVE  WinHolds'
<1>1. CASE ShowPicker
    <2>1. PICK cached \in Caches :
             LET w == [WinNow EXCEPT !.a.pick = "none", !.a.seeded = FALSE,
                                     !.a.base = "none", !.j = RefreshCatalog(@, cached)]
                 f == WinFacts(w)
             IN  WinDone(Render([w EXCEPT !.s = BeginAt(Note(@, f), f, "coverage", TRUE)],
                             cached))
        BY <1>1 DEF ShowPicker
    <2> DEFINE a == [app EXCEPT !.pick = "none", !.seeded = FALSE, !.base = "none"]
               n == [WinNow EXCEPT !.a = a]
               m == [n EXCEPT !.j = RefreshCatalog(@, cached)]
               f == WinFacts(m)
               p == Note(m.s, f)
               s == BeginAt(p, f, "coverage", TRUE)
               y == [m EXCEPT !.s = s]
               k == Render(y, cached)
    <2>2. cached \in BOOLEAN /\ owed' = owed
        BY <1>1, CachesAre DEF ShowPicker
    <2>3. [WinNow EXCEPT !.a.pick = "none", !.a.seeded = FALSE, !.a.base = "none",
                         !.j = RefreshCatalog(@, cached)] = m
        BY WinNowIs DEF QuadOK, WinQuads, WinApps
    <2>4. a \in WinApps /\ a.st = app.st /\ a.watch = app.watch
        BY WinNowIs DEF WinApps, Picks
    <2>5. WinDone(Render([m EXCEPT !.s = BeginAt(Note(@, f), f, "coverage", TRUE)], cached))
        BY <2>1, <2>3
    <2> HIDE DEF a
    <2>6. Drawn(WinNow, n) /\ QuadOK(n)
        BY <2>4, WinNowIs, WithApp DEF Drawn
    <2> HIDE DEF n
    <2>7. m = [n EXCEPT !.j = RefreshCatalog(@, cached)]
        OBVIOUS
    <2> HIDE DEF m
    <2>8. Drawn(n, m)
        BY <2>2, <2>6, <2>7, WithCatalog
    <2>9. QuadOK(m)
        BY <2>8 DEF Drawn
    <2>10. [m EXCEPT !.s = BeginAt(Note(@, f), f, "coverage", TRUE)] = y
        BY <2>9 DEF QuadOK, WinQuads
    <2>11. FactsOK(f) /\ p \in Setups
        BY <2>9, QuadParts, WinFactsAre, NoteKeeps
    <2>12. WinDone(k)
        BY <2>5, <2>10
    <2> HIDE DEF f, p
    <2>13. s \in Setups /\ s.orderRun = 0
        BY <2>11, BeginAtKeeps DEF Steps
    <2> HIDE DEF s
    <2>14. s.orderRun <= m.j.run
        BY <2>9, <2>13, QuadParts
    <2>15. Drawn(m, y)
        BY <2>9, <2>13, <2>14, WithSetup
    <2> HIDE DEF y
    <2>16. QuadOK(y)
        BY <2>15 DEF Drawn
    <2>17. Drawn(y, k)
        BY <2>2, <2>16, RenderKeeps
    <2> HIDE DEF k
    <2>18. Drawn(WinNow, y)
        BY <2>6, <2>8, <2>15, DrawnTwice
    <2> QED
        BY <2>2, <2>12, <2>17, <2>18, DrawnTwice, WinDrawn
<1>2. CASE WinToggle
    <2>1. PICK cached \in Caches :
             WinDone(Render([WinNow EXCEPT !.a.pick = IF @ = "none" THEN "some" ELSE "none"],
                         cached))
        BY <1>2 DEF WinToggle
    <2> DEFINE p == IF app.pick = "none" THEN "some" ELSE "none"
               a == [app EXCEPT !.pick = p]
               m == [WinNow EXCEPT !.a = a]
               k == Render(m, cached)
    <2>2. [WinNow EXCEPT !.a.pick = IF @ = "none" THEN "some" ELSE "none"] = m
        BY WinNowIs DEF QuadOK, WinQuads, WinApps
    <2>3. WinDone(k) /\ UNCHANGED owed
        BY <1>2, <2>1, <2>2 DEF WinToggle
    <2>4. p \in Picks
        BY DEF Picks
    <2> HIDE DEF p
    <2>5. a \in WinApps /\ a.st = app.st /\ a.watch = app.watch
        BY <2>4, WinNowIs DEF WinApps
    <2> HIDE DEF a
    <2>6. Drawn(WinNow, m) /\ QuadOK(m)
        BY <2>5, WinNowIs, WithApp DEF Drawn
    <2> HIDE DEF m
    <2>7. Drawn(m, k)
        BY <2>6, CachesAre, RenderKeeps
    <2> HIDE DEF k
    <2> QED
        BY <2>3, <2>6, <2>7, DrawnTwice, WinDrawn
<1>3. CASE TryAgain
    <2>1. PICK cached \in Caches :
             WinDone(Render([WinNow EXCEPT !.j = RefreshCatalog(@, cached)], cached))
        BY <1>3 DEF TryAgain
    <2> DEFINE m == [WinNow EXCEPT !.j = RefreshCatalog(@, cached)]
               k == Render(m, cached)
    <2>2. WinDone(k) /\ UNCHANGED owed
        BY <1>3, <2>1 DEF TryAgain
    <2>3. m = [WinNow EXCEPT !.j = RefreshCatalog(@, cached)]
        OBVIOUS
    <2> HIDE DEF m
    <2>4. cached \in BOOLEAN
        BY CachesAre
    <2>5. Drawn(WinNow, m)
        BY <2>3, <2>4, WinNowIs, WithCatalog
    <2>6. QuadOK(m)
        BY <2>5 DEF Drawn
    <2>7. Drawn(m, k)
        BY <2>4, <2>6, RenderKeeps
    <2> HIDE DEF k
    <2> QED
        BY <2>2, <2>5, <2>7, DrawnTwice, WinDrawn
<1>4. CASE ApplyAdds
    <2>1. PICK reaches \in BOOLEAN, cached \in Caches :
             LET w == Applied(FALSE, reaches, 2, cached)
             IN  w.j.run <= MaxRuns /\ WinDone(Render(w, cached))
        BY <1>4 DEF ApplyAdds
    <2> DEFINE s == Advance(Noticed, WinFacts(WinNow), "noaa")
               m == [WinNow EXCEPT !.s = s, !.a.asking = FALSE]
               w == WinOrderApply(m, FALSE, reaches, 2, cached)
    <2>2. w.j.run <= MaxRuns /\ WinDone(Render(w, cached)) /\ owed' = owed
        BY <1>4, <2>1 DEF ApplyAdds, Applied
    <2>3. s \in Setups /\ s.orderRun <= job.run
        BY WinAdvances
    <2> HIDE DEF s
    <2>4. Called(m)
        BY <2>3, WinAppliesFrom
    <2> HIDE DEF m
    <2>5. FALSE \in BOOLEAN /\ cached \in BOOLEAN /\ 2 \in Plans
        BY CachesAre DEF Plans
    <2>6. Served(w)
        BY <2>4, <2>5, WinOrderApplyKeeps
    <2> HIDE DEF w
    <2> QED
        BY <2>2, <2>6, WinNowIs, WinOrderedKeeps
<1>5. CASE WinAskRemove
    <2>1. TRUE \in BOOLEAN
        OBVIOUS
    <2> QED
        BY <1>5, <2>1, WinAskingKeeps DEF WinAskRemove
<1>6. CASE WinKeepThem
    <2>1. FALSE \in BOOLEAN
        OBVIOUS
    <2> QED
        BY <1>6, <2>1, WinAskingKeeps DEF WinKeepThem
<1>7. CASE OrderAgain
    <2>1. PICK plan \in Plans, cached \in Caches :
             LET w == WinOrderDownload(WinNow, plan, TRUE, cached)
             IN  w.j.run <= MaxRuns /\ WinDone(w)
        BY <1>7 DEF OrderAgain
    <2> DEFINE w == WinOrderDownload(WinNow, plan, TRUE, cached)
    <2>2. w.j.run <= MaxRuns /\ WinDone(w) /\ owed' = owed
        BY <1>7, <2>1 DEF OrderAgain
    <2>3. TRUE \in BOOLEAN /\ cached \in BOOLEAN
        BY CachesAre
    <2>4. Served(w)
        BY <2>3, WinNowIs, WinOrderDownloadKeeps
    <2> HIDE DEF w
    <2> QED
        BY <2>2, <2>4, WinNowIs, WinServed
<1> QED
    BY <1>1, <1>2, <1>3, <1>4, <1>5, <1>6, <1>7, WinRemoveKeeps DEF Pane

-------------------------------------------------------------------------------
(* Setup of either shell.                                                   *)

\* The service before any run, and with what an earlier launch prepared.
LEMMA IdleIsWell ==
    /\ JobOK(Idle) /\ AtEase(Idle) /\ Idle.run = 0
    /\ JobOK(Held) /\ AtEase(Held) /\ Held.run = 0
<1>1. /\ "none" \in RunWords /\ "idle" \in PhaseWords /\ "no" \in ReadWords
      /\ "no" \in CellWords /\ "none" \in EndWords /\ "none" \in StageWords
      /\ "none" \in BakeWords /\ "no" \in RetiredWords /\ "read" \in ScanWords
      /\ 0 \in LeftWords
    BY DEF RunWords, PhaseWords, ReadWords, CellWords, EndWords, StageWords, BakeWords,
           RetiredWords, ScanWords, LeftWords
<1>2. Idle \in Jobs
    BY <1>1 DEF Idle, Jobs
<1>3. Held \in Jobs
    BY <1>2 DEF Held, Jobs
<1>4. JobHolds(Idle) /\ AtEase(Idle) /\ Idle.run = 0
    BY DEF Idle, JobHolds, AtEase, AllTaken, AnswersTaken
<1>5. /\ Held.of = Idle.of /\ Held.run = Idle.run /\ Held.phase = Idle.phase
      /\ Held.outcome = Idle.outcome /\ Held.stage = Idle.stage /\ Held.end = Idle.end
      /\ Held.cell = Idle.cell /\ Held.reading = Idle.reading /\ Held.bake = Idle.bake
      /\ Held.forRun = Idle.forRun /\ Held.retired = Idle.retired
      /\ Held.moved = Idle.moved
    BY <1>2 DEF Held, Jobs
<1>6. Idle.stage = "none"
    BY DEF Idle
<1>7. JobHolds(Held) /\ AtEase(Held)
    BY <1>4, <1>5, <1>6 DEF JobHolds, AtEase, AllTaken, AnswersTaken
<1> QED
    BY <1>2, <1>3, <1>4, <1>5, <1>7 DEF JobOK

\* Setup before it ran.
LEMMA NewSetupIs ==
    /\ NewSetup \in Setups /\ NewSetup.orderRun = 0
    /\ [NewSetup EXCEPT !.had = TRUE] \in Setups
    /\ [NewSetup EXCEPT !.had = TRUE].orderRun = 0
BY DEF NewSetup, Setups, SetupType, Steps

\* A first launch on Linux.
LEMMA LinuxLaunches ==
    ASSUME LinuxLaunch
    PROVE  LinuxHolds
<1>1. LinuxNewApp \in LinuxApps /\ LinuxNewApp.follow = 0
    BY DEF LinuxNewApp, LinuxApps, Picks
<1>2. 0 \in Nat /\ 0 <= MaxRuns
    BY MaxRunsBound
<1>3. JobOK(job) /\ AtEase(job) /\ job.run = 0 /\ app \in LinuxApps /\ app.follow = 0
    BY <1>1, IdleIsWell DEF LinuxLaunch
<1>4. SetupOK(setup, job.run)
    BY <1>2, <1>3, NewSetupIs DEF LinuxLaunch, SetupOK
<1> QED
    BY <1>2, <1>3, <1>4 DEF LinuxLaunch, LinuxHolds, LinuxSetupInv, Follows

\* A first launch on Windows.
LEMMA WinLaunches ==
    ASSUME WinLaunch
    PROVE  WinHolds
<1> DEFINE st == Published(Idle)
<1>1. st \in Copies /\ st.run = 0 /\ st = Published(Idle)
    BY IdleIsWell, PublishedIs DEF JobOK
<1> HIDE DEF st
<1>2. WinNewApp \in WinApps /\ WinNewApp.st = st /\ WinNewApp.watch = 0
    BY <1>1 DEF WinNewApp, WinApps, Picks
<1>3. 0 \in Nat /\ 0 <= MaxRuns
    BY MaxRunsBound
<1>4. /\ JobOK(job) /\ AtEase(job) /\ job.run = 0
      /\ app \in WinApps /\ app.st = st /\ app.watch = 0 /\ st = Published(job)
    BY <1>1, <1>2, IdleIsWell DEF WinLaunch
<1>5. SetupOK(setup, job.run)
    BY <1>3, <1>4, NewSetupIs DEF WinLaunch, SetupOK
<1> QED
    BY <1>1, <1>3, <1>4, <1>5 DEF WinLaunch, WinHolds, WinSetupInv, Copied, Watches

\* A launch on Windows over a library that was prepared before.
LEMMA WinResumes ==
    ASSUME WindowsHeld
    PROVE  WinHolds
<1> DEFINE st == Published(Idle)
           a == [WinNewApp EXCEPT !.open = TRUE, !.ticks = TRUE]
<1>1. st \in Copies /\ st.run = 0 /\ st = Published(Idle)
    BY IdleIsWell, PublishedIs DEF JobOK
<1>2. st = Published(Held)
    BY IdleIsWell DEF Held, JobOK, Jobs, Published
<1> HIDE DEF st
<1>3. WinNewApp \in WinApps /\ WinNewApp.st = st /\ WinNewApp.watch = 0
    BY <1>1 DEF WinNewApp, WinApps, Picks
<1>4. a \in WinApps /\ a.st = st /\ a.watch = 0
    BY <1>3 DEF WinApps
<1>5. app = a
    BY DEF WindowsHeld
<1> HIDE DEF a
<1>6. 0 \in Nat /\ 0 <= MaxRuns
    BY MaxRunsBound
<1>7. JobOK(job) /\ AtEase(job) /\ job.run = 0 /\ app.st = Published(job)
    BY <1>2, <1>4, <1>5, IdleIsWell DEF WindowsHeld
<1>8. SetupOK(setup, job.run)
    BY <1>6, <1>7, NewSetupIs DEF WindowsHeld, SetupOK
<1> QED
    BY <1>1, <1>4, <1>5, <1>6, <1>7, <1>8
       DEF WindowsHeld, WinHolds, WinSetupInv, Copied, Watches

\* What is kept between the handlers of either shell.
SetupInv ==
    /\ shell \in {"linux", "windows"}
    /\ Linux => LinuxHolds
    /\ Windows => WinHolds

\* The service's record, its numbers bounded.
LEMMA JobTyped ==
    ASSUME NEW j, JobOK(j), j.run <= MaxRuns
    PROVE  j \in JobType
<1>1. j.run \in 0..MaxRuns /\ j.of \in 0..MaxRuns
    <2>1. j.run \in Nat /\ j.of \in Nat /\ j.of <= j.run
        BY DEF JobOK, JobHolds, Jobs
    <2> QED
        BY <2>1, MaxRunsBound
<1> DEFINE bound == 0..MaxRuns
<1>2. j.run \in bound /\ j.of \in bound
    BY <1>1
<1> HIDE DEF bound
<1>3. JobType =
    [run : bound, outcome : RunWords, retry : BOOLEAN, phase : PhaseWords, cat : BOOLEAN,
     reading : ReadWords, cell : CellWords, left : LeftWords, done : BOOLEAN,
     end : EndWords, stage : StageWords, forRun : BOOLEAN, of : bound, stopped : BOOLEAN,
     stopNext : BOOLEAN, bake : BakeWords, retired : RetiredWords, moved : BOOLEAN,
     listed : BOOLEAN, scan : ScanWords, todo : BOOLEAN, fresh : BOOLEAN,
     charts : BOOLEAN, made : BOOLEAN, noted : BOOLEAN]
    BY DEF JobType, bound, RunWords, PhaseWords, ReadWords, CellWords, LeftWords, EndWords,
           StageWords, BakeWords, RetiredWords, ScanWords
<1> QED
    BY <1>2, <1>3 DEF JobOK, Jobs

\* Setup's state, its order among those numbered.
LEMMA SetupTyped ==
    ASSUME NEW s \in Setups, NEW n \in Nat, n <= MaxRuns, s.orderRun <= n
    PROVE  s \in SetupType(0..MaxRuns)
<1> DEFINE bound == 0..MaxRuns
<1>1. s.orderRun \in bound
    BY MaxRunsBound DEF Setups, SetupType
<1> HIDE DEF bound
<1>2. s \in SetupType(bound)
    BY <1>1 DEF Setups, SetupType
<1> QED
    BY <1>2 DEF bound

\* The service keeps its promises between two handlers.
LEMMA ServiceIsHonest ==
    ASSUME JobOK(job), AtEase(job) \/ owed
    PROVE  RunIsCarried /\ OneBakeAtATime /\ NothingInHand
<1>1. RunIsCarried /\ OneBakeAtATime
    BY DEF JobOK, JobHolds, RunIsCarried, OneBakeAtATime
<1>2. NothingInHand
    BY AtEaseIsAdopted DEF NothingInHand
<1> QED
    BY <1>1, <1>2

\* What is kept says what setup shows can be relied on.
LEMMA SetupInvIsHonest ==
    ASSUME SetupInv
    PROVE  SetupIsHonest
<1>1. CASE Linux
    <2>1. LinuxHolds /\ ~Windows
        BY <1>1 DEF SetupInv, Linux, Windows
    <2>2. /\ JobOK(job) /\ job.run <= MaxRuns /\ job.run \in Nat
          /\ AtEase(job) \/ owed
          /\ owed \in BOOLEAN /\ dirty \in BOOLEAN /\ app \in LinuxApps
          /\ Follows(job, app) /\ setup \in Setups /\ setup.orderRun <= job.run
        BY <2>1, LinuxNowIs DEF SetupOK
    <2>3. app \in LinuxAppType
        <3>1. app.follow \in 0..MaxRuns
            BY <2>2, MaxRunsBound DEF Follows, LinuxApps
        <3> QED
            BY <2>2, <3>1 DEF LinuxApps, LinuxAppType
    <2>4. SetupTypeOK
        BY <1>1, <2>2, <2>3, JobTyped, SetupTyped DEF SetupTypeOK
    <2>5. FollowIsCurrent /\ CopyIsCurrent
        BY <1>1, <2>1, <2>2 DEF FollowIsCurrent, CopyIsCurrent, FollowedRun, Follows
    <2> QED
        BY <2>2, <2>4, <2>5, ServiceIsHonest DEF SetupIsHonest
<1>2. CASE Windows
    <2>1. WinHolds /\ ~Linux
        BY <1>2 DEF SetupInv, Linux, Windows
    <2>2. /\ JobOK(job) /\ job.run <= MaxRuns /\ job.run \in Nat
          /\ owed \in BOOLEAN /\ dirty \in BOOLEAN /\ app \in WinApps
          /\ app.st.run = job.run /\ setup \in Setups /\ setup.orderRun <= job.run
        BY <2>1, WinNowIs
    <2>3. AtEase(job) \/ owed
        BY <2>1 DEF WinHolds, WinSetupInv
    <2>4. Watches(job, app) /\ (Copied(job, app) \/ owed)
        BY <2>1 DEF WinHolds, WinSetupInv
    <2>5. app \in WinAppType
        <3> DEFINE runs == 0..MaxRuns
                   watched == 0..(MaxRuns + 1)
                   copies == [cat : BOOLEAN, phase : PhaseWords, preparing : BOOLEAN,
                              outcome : RunWords, run : runs, retry : BOOLEAN]
        <3>1. app.watch \in watched /\ job.run \in runs
            BY <2>2, <2>4, MaxRunsBound DEF Watches
        <3> HIDE DEF watched, runs
        <3>2. app.st \in copies
            BY <2>2, <3>1 DEF WinApps, Copies
        <3>3. WinAppType =
                [st : copies, watch : watched, pending : BOOLEAN, clock : BOOLEAN,
                 ticks : BOOLEAN, pick : Picks, base : Picks, seeded : BOOLEAN,
                 asked : BOOLEAN, asking : BOOLEAN, open : BOOLEAN, nothing : BOOLEAN,
                 link : BOOLEAN]
            BY DEF WinAppType, watched, runs, PhaseWords, RunWords
        <3> HIDE DEF copies
        <3> QED
            BY <2>2, <3>1, <3>2, <3>3 DEF WinApps
    <2>6. SetupTypeOK
        BY <2>1, <2>2, <2>5, JobTyped, SetupTyped DEF SetupTypeOK
    <2>7. FollowIsCurrent /\ CopyIsCurrent
        BY <1>2, <2>1, <2>4
           DEF FollowIsCurrent, CopyIsCurrent, FollowedRun, Watches, Copied
    <2> QED
        BY <2>2, <2>3, <2>6, <2>7, ServiceIsHonest DEF SetupIsHonest
<1> QED
    BY <1>1, <1>2 DEF SetupInv, Linux, Windows

\* A step keeps it.
LEMMA SetupStepKeeps ==
    ASSUME SetupInv, [SetupNext]_setupVars
    PROVE  SetupInv'
<1>1. CASE SetupNext
    <2>1. shell' = shell
        BY <1>1 DEF SetupNext, WithinBounds
    <2>2. CASE Linux
        <3>1. LinuxHolds'
            BY <1>1, <2>2, LinuxOutsideKeeps, LoopKeeps, LinuxCardKeeps, LinuxPickerKeeps
               DEF SetupInv, SetupNext, Linux, Windows
        <3> QED
            BY <2>1, <2>2, <3>1 DEF SetupInv, Linux, Windows
    <2>3. CASE Windows
        <3>1. WinHolds'
            BY <1>1, <2>3, WinOutsideKeeps, ClocksKeep, WinCardKeeps, PaneKeeps
               DEF SetupInv, SetupNext, Linux, Windows
        <3> QED
            BY <2>1, <2>3, <3>1 DEF SetupInv, Linux, Windows
    <2> QED
        BY <2>2, <2>3 DEF SetupInv, Linux, Windows
<1>2. CASE UNCHANGED setupVars
    BY <1>2 DEF setupVars, SetupInv, Linux, Windows, LinuxHolds, WinHolds
<1> QED
    BY <1>1, <1>2

\* What setup and the picker show of the service can be relied on, on Linux and on
\* Windows, however many orders are placed: the run shown as under way is carried to
\* its end, no bake runs beside one let go, no answer is left where no one looks, the
\* run followed is on Linux the one that runs and on Windows no other than the last or
\* the next, and the copy Windows draws from is the service's state or a wake is on its
\* way (SetupIsHonest of MCNoaaSetup).  An apply that orders nothing leaves Windows on a
\* next run that may never come, and this does not forbid it.
THEOREM SetupIsHonestHolds == SetupSpec => []SetupIsHonest
<1>1. SetupInit => SetupInv
    BY LinuxLaunches, WinLaunches, WinResumes DEF SetupInit, SetupInv, Linux, Windows
<1>2. SetupInv /\ [SetupNext]_setupVars => SetupInv'
    BY SetupStepKeeps
<1>3. SetupInv => SetupIsHonest
    BY SetupInvIsHonest
<1> QED
    BY <1>1, <1>2, <1>3, PTL DEF SetupSpec
================================================================================
