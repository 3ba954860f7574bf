----------------------------- MODULE MenuProofs ------------------------------
(***************************************************************************)
(* Proofs about the menu: Browse, what it shows and launches, for all cards *)
(* and every length of a path, and Button, what brings it back, for all     *)
(* times in the order of the code's.  What a walk along a path does is      *)
(* proved by induction on the directories walked; what the loop knows of a  *)
(* press, from an invariant that relates the times of the tracking to those *)
(* of the user.                                                             *)
(***************************************************************************)
EXTENDS Browse, Button, SequenceTheorems, NatFacts, TLAPS


-----------------------------------------------------------------------------
(* The card.                                                                *)

Place(p) == p \in DOMAIN card.disk /\ Len(p) <= MaxDepth

LEMMA CardFacts ==
  ASSUME card \in Cards
  PROVE  /\ card.reliable \in BOOLEAN /\ Closed \notin DOMAIN card.disk
         /\ Place(<< >>)
         /\ \A p \in DOMAIN card.disk :
              /\ p \in Seq(STRING) /\ card.disk[p] \in Seq(Entries)
              /\ \A name : HasDir(p, name) => Append(p, name) \in DOMAIN card.disk
              /\ \A i \in DOMAIN p : ParentOf(p, i) \in DOMAIN card.disk
                                     /\ HasDir(ParentOf(p, i), p[i])
<1>1. /\ card.reliable \in BOOLEAN /\ Closed \notin DOMAIN card.disk
      /\ << >> \in DOMAIN card.disk
      /\ MaxDepth \in Nat
  BY BrowseAssumption
<1>2. Len(<< >>) = 0
  OBVIOUS
<1>3. ASSUME NEW p \in DOMAIN card.disk
      PROVE  p \in Seq(STRING) /\ card.disk[p] \in Seq(Entries)
  BY BrowseAssumption
<1>4. ASSUME NEW p \in DOMAIN card.disk, NEW name, HasDir(p, name)
      PROVE  Append(p, name) \in DOMAIN card.disk
  <2>1. PICK i \in DOMAIN card.disk[p] : card.disk[p][i].name = name
                                         /\ card.disk[p][i].type = "dir"
    BY <1>4 DEF HasDir, EntriesNamed
  <2> QED BY <2>1, BrowseAssumption
<1>5. ASSUME NEW p \in DOMAIN card.disk, NEW i \in DOMAIN p
      PROVE  ParentOf(p, i) \in DOMAIN card.disk /\ HasDir(ParentOf(p, i), p[i])
  <2>1. /\ ParentOf(p, i) \in DOMAIN card.disk
        /\ \E k \in DOMAIN card.disk[ParentOf(p, i)] :
             /\ card.disk[ParentOf(p, i)][k].type = "dir"
             /\ card.disk[ParentOf(p, i)][k].name = p[i]
    BY BrowseAssumption
  <2> QED BY <2>1 DEF HasDir, EntriesNamed
<1> QED BY <1>1, <1>2, <1>3, <1>4, <1>5 DEF Place

-----------------------------------------------------------------------------
(* A walk along a path.                                                     *)

Walked(p) == [ok |-> TRUE, nav |-> At(p, p)]
Failed(n) == [ok |-> FALSE, nav |-> n]

\* One more directory, and the walk of NavigateToPath as a function.
Enter(walked, path, reads, i) ==
  IF walked.ok THEN ChangeDirectory(walked.nav, path[i], i <= reads) ELSE walked
Walk(path, reads) ==
  CHOOSE walk : walk = [i \in 0 .. Len(path) |->
                          IF i = 0 THEN Walked(<< >>) ELSE Enter(walk[i - 1], path, reads, i)]

LEMMA NavigateIsWalk ==
  ASSUME NEW path, NEW reads
  PROVE  NavigateToPath(path, reads) =
           LET arrived == Walk(path, reads)[Len(path)]
           IN IF arrived.ok THEN arrived ELSE Failed(ToRoot)
BY Zenon DEF NavigateToPath, Walk, Enter, Walked, Failed, ToRoot

\* The recursion has a solution.
LEMMA WalkSteps ==
  ASSUME NEW path, Len(path) \in Nat, NEW reads
  PROVE  /\ Walk(path, reads)[0] = Walked(<< >>)
         /\ \A i \in 1 .. Len(path) :
              Walk(path, reads)[i] = Enter(Walk(path, reads)[i - 1], path, reads, i)
<1> DEFINE start == Walked(<< >>)
           E(w, i) == Enter(w, path, reads, i)
           IsWalk(f, k) == f = [i \in 0 .. k |-> IF i = 0 THEN start ELSE E(f[i - 1], i)]
           S == {k \in Nat : \E f : IsWalk(f, k)}
<1> HIDE DEF start, E
<1>1. 0 \in S
  <2> DEFINE f == [i \in 0 .. 0 |-> start]
  <2>1. IsWalk(f, 0)
    OBVIOUS
  <2> HIDE DEF f, IsWalk
  <2> QED BY <2>1
<1>2. ASSUME NEW k \in 0 .. Len(path) - 1, k \in S
      PROVE  k + 1 \in S
  <2>1. PICK f : f = [i \in 0 .. k |-> IF i = 0 THEN start ELSE E(f[i - 1], i)]
    BY <1>2
  <2> DEFINE g == [i \in 0 .. k + 1 |-> IF i = k + 1 THEN E(f[k], i) ELSE f[i]]
  <2>2. \A i \in 0 .. k + 1 : g[i] = IF i = 0 THEN start ELSE E(g[i - 1], i)
    BY <2>1
  <2>3. IsWalk(g, k + 1)
    BY <2>2
  <2> HIDE DEF g, IsWalk
  <2> QED BY <2>3
<1>3. Len(path) \in S
  BY <1>1, <1>2, Induction, Len(path) \in 0 .. Len(path)
<1>4. \E f : IsWalk(f, Len(path))
  BY <1>3
<1>5. IsWalk(Walk(path, reads), Len(path))
  BY <1>4, Zenon DEF Walk, E, start
<1>6. /\ Walk(path, reads)[0] = start
      /\ \A i \in 1 .. Len(path) : Walk(path, reads)[i] = E(Walk(path, reads)[i - 1], i)
  BY <1>5
<1> QED BY <1>6 DEF start, E

\* ChangeDirectory enters a directory of the card or leaves everything.
LEMMA ChangeDirectoryFacts ==
  ASSUME card \in Cards, NEW n, NEW p, Place(p), n.cwd = p, n.currentPath = p,
         NEW name, NEW opens
  PROVE  \/ ChangeDirectory(n, name, opens) = Failed(n)
         \/ /\ ChangeDirectory(n, name, opens) = Walked(Append(p, name))
            /\ Place(Append(p, name))
<1>1. CASE Len(p) < MaxDepth /\ opens /\ HasDir(p, name)
  <2>1. Append(p, name) \in DOMAIN card.disk /\ p \in Seq(STRING)
    BY <1>1, CardFacts DEF Place
  <2>2. Append(p, name) \in Seq(STRING)
    BY <2>1, CardFacts
  <2>3. Len(Append(p, name)) = Len(p) + 1
    BY <2>1
  <2>4. Place(Append(p, name))
    BY <1>1, <2>1, <2>3, BrowseAssumption DEF Place
  <2> QED BY <1>1, <2>4 DEF ChangeDirectory, Walked
<1>2. CASE ~(Len(p) < MaxDepth /\ opens /\ HasDir(p, name))
  BY <1>2 DEF ChangeDirectory, Failed
<1> QED BY <1>1, <1>2

LEMMA NextPrefix ==
  ASSUME NEW Names, NEW path \in Seq(Names), NEW i \in 1 .. Len(path)
  PROVE  SubSeq(path, 1, i) = Append(SubSeq(path, 1, i - 1), path[i])
BY SubSeqRecursiveSecond

\* A walk arrives at the end of its path, or goes back to the root.
LEMMA NavigateFacts ==
  ASSUME card \in Cards, NEW Names, NEW path \in Seq(Names), NEW reads
  PROVE  \/ NavigateToPath(path, reads) = Walked(path) /\ Place(path)
         \/ NavigateToPath(path, reads) = Failed(ToRoot)
<1> DEFINE w(i) == Walk(path, reads)[i]
           prefix(i) == SubSeq(path, 1, i)
           Right(i) == \/ w(i) = Walked(prefix(i)) /\ Place(prefix(i))
                       \/ w(i).ok = FALSE
           S == {i \in Nat : Right(i)}
<1>0. Len(path) \in Nat
  OBVIOUS
<1>1. 0 \in S
  <2>1. prefix(0) = << >> /\ w(0) = Walked(<< >>)
    BY WalkSteps
  <2> QED BY <2>1, CardFacts
<1>2. ASSUME NEW k \in 0 .. Len(path) - 1, k \in S
      PROVE  k + 1 \in S
  <2>1. w(k + 1) = Enter(w(k), path, reads, k + 1)
    BY WalkSteps
  <2>2. CASE w(k).ok = FALSE
    BY <2>1, <2>2 DEF Enter
  <2>3. CASE w(k) = Walked(prefix(k)) /\ Place(prefix(k))
    <3> DEFINE n == At(prefix(k), prefix(k))
               opens == k + 1 <= reads
    <3>1. /\ n.cwd = prefix(k) /\ n.currentPath = prefix(k)
          /\ w(k + 1) = ChangeDirectory(n, path[k + 1], opens)
      BY <2>1, <2>3 DEF Enter, Walked, At
    <3>2. prefix(k + 1) = Append(prefix(k), path[k + 1])
      BY NextPrefix
    <3> HIDE DEF n, opens, w, prefix
    <3>3. \/ w(k + 1) = Failed(n)
          \/ /\ w(k + 1) = Walked(Append(prefix(k), path[k + 1]))
             /\ Place(Append(prefix(k), path[k + 1]))
      <4>1. Place(prefix(k)) /\ n.cwd = prefix(k) /\ n.currentPath = prefix(k)
        BY <2>3, <3>1
      <4>2. \/ ChangeDirectory(n, path[k + 1], opens) = Failed(n)
            \/ /\ ChangeDirectory(n, path[k + 1], opens) = Walked(Append(prefix(k), path[k + 1]))
               /\ Place(Append(prefix(k), path[k + 1]))
        BY <4>1, ChangeDirectoryFacts
      <4> QED BY <3>1, <4>2
    <3> SUFFICES Right(k + 1)
      BY <1>0
    <3>4. CASE w(k + 1) = Failed(n)
      BY <3>4 DEF Failed
    <3>5. CASE /\ w(k + 1) = Walked(Append(prefix(k), path[k + 1]))
               /\ Place(Append(prefix(k), path[k + 1]))
      BY <3>2, <3>5
    <3> QED BY <3>3, <3>4, <3>5
  <2> QED BY <1>2, <2>2, <2>3
<1>3. Len(path) \in S
  <2> HIDE DEF S
  <2> QED BY <1>0, <1>1, <1>2, Induction, Len(path) \in 0 .. Len(path)
<1>4. prefix(Len(path)) = path
  BY SubSeqFull
<1>5. (w(Len(path)) = Walked(path) /\ Place(path)) \/ w(Len(path)).ok = FALSE
  BY <1>3, <1>4
<1> QED BY <1>5, NavigateIsWalk DEF Walked, Failed

\* On a card that can be read every walk to a directory arrives.
LEMMA NavigateArrives ==
  ASSUME card \in Cards, NEW path, Place(path)
  PROVE  NavigateToPath(path, MaxDepth) = Walked(path)
<1> DEFINE w(i) == Walk(path, MaxDepth)[i]
           prefix(i) == SubSeq(path, 1, i)
           S == {i \in Nat : w(i) = Walked(prefix(i))}
<1>0. path \in Seq(STRING) /\ Len(path) \in Nat
  BY CardFacts DEF Place
<1>1. 0 \in S
  <2>1. prefix(0) = << >> /\ w(0) = Walked(<< >>)
    BY <1>0, WalkSteps
  <2> QED BY <2>1
<1>2. ASSUME NEW k \in 0 .. Len(path) - 1, k \in S
      PROVE  k + 1 \in S
  <2>1. w(k + 1) = Enter(w(k), path, MaxDepth, k + 1)
    BY <1>0, WalkSteps
  <2>2. w(k + 1) = ChangeDirectory(At(prefix(k), prefix(k)), path[k + 1], k + 1 <= MaxDepth)
    BY <1>2, <2>1 DEF Enter, Walked
  <2>3. HasDir(prefix(k), path[k + 1])
    <3>1. k + 1 \in DOMAIN path /\ ParentOf(path, k + 1) = prefix(k)
      BY <1>0 DEF ParentOf
    <3> QED BY <3>1, CardFacts DEF Place
  <2>4. Len(prefix(k)) = k /\ k < MaxDepth /\ k + 1 <= MaxDepth
    <3>1. Len(path) <= MaxDepth /\ MaxDepth \in Nat
      BY BrowseAssumption DEF Place
    <3>2. k \in Nat /\ k < Len(path)
      BY <1>0
    <3>3. Len(prefix(k)) = k
      BY <1>0, <3>2
    <3> QED BY <1>0, <3>1, <3>2, <3>3
  <2>5. prefix(k + 1) = Append(prefix(k), path[k + 1])
    BY <1>0, NextPrefix
  <2>6. w(k + 1) = Walked(prefix(k + 1))
    <3> HIDE DEF prefix, w
    <3> QED BY <2>2, <2>3, <2>4, <2>5 DEF ChangeDirectory, At, Walked
  <2> QED BY <2>6
<1>3. Len(path) \in S
  <2> HIDE DEF S
  <2> QED BY <1>0, <1>1, <1>2, Induction, Len(path) \in 0 .. Len(path)
<1>4. w(Len(path)) = Walked(path)
  BY <1>0, <1>3, SubSeqFull
<1> QED BY <1>4, NavigateIsWalk DEF Walked

-----------------------------------------------------------------------------
(* The inductive invariant.                                                 *)

\* A nav that stands on a directory of the card, its handle there or closed.
Stands(n) ==
  /\ n \in [cwd : DOMAIN card.disk, currentPath : DOMAIN card.disk,
            handle : DOMAIN card.disk \cup {Closed}]
  /\ n.currentPath = n.cwd /\ n.handle \in {n.cwd, Closed}
  /\ Len(n.cwd) <= MaxDepth

\* What is on the screen are rows of the directory named above them.
RowsInv ==
  /\ screen.path \in DOMAIN card.disk
  /\ \A row \in screen.rows :
       row = DotDot \/ \E i \in DOMAIN card.disk[screen.path] : row = RowAt(screen.path, i)
  /\ menu = "opened" => chosen.type = "wav"

\* A menu that takes keys shows the directory the firmware is in.
ScreenInv ==
  /\ card.reliable /\ HasPlugins /\ menu \in {"browsing", "opened"}
       => nav.currentPath = screen.path
  /\ LaunchesShown

\* On a complete card the handle is open until a program is started.
CompleteInv ==
  Complete =>
    /\ menu # "hung"
    /\ menu # "away" => nav.handle = nav.cwd
    /\ menu \in {"browsing", "opened"} =>
         screen.rows = Listing(screen.path, screen.path # << >>)

BrowseInv ==
  /\ card \in Cards /\ Stands(nav)
  /\ menu \in {"reading", "browsing", "opened", "hung", "away"}
  /\ RowsInv /\ ScreenInv /\ CompleteInv

-----------------------------------------------------------------------------
(* What the commands do to nav.                                             *)

LEMMA PlaceStands ==
  ASSUME card \in Cards, NEW p, Place(p)
  PROVE  Stands(At(p, p)) /\ At(p, p).handle = p /\ At(p, p).currentPath = p /\ At(p, p).cwd = p
BY DEF Place, Stands, At

LEMMA RootStands ==
  ASSUME card \in Cards
  PROVE  Stands(ToRoot) /\ ToRoot.handle = ToRoot.cwd
BY CardFacts, PlaceStands DEF ToRoot

LEMMA PluginsPlace ==
  /\ PLUGINS \in Seq({"PLUGINS"})
  /\ HasPlugins => Place(PLUGINS)
<1>1. PLUGINS \in Seq({"PLUGINS"})
  BY DEF PLUGINS
<1>2. Len(PLUGINS) <= MaxDepth
  <2>1. MaxDepth \in Nat /\ MaxDepth >= Len(PLUGINS)
    BY BrowseAssumption
  <2> QED BY <1>1, <2>1
<1> QED BY <1>1, <1>2 DEF HasPlugins, Place

LEMMA NavigateStands ==
  ASSUME card \in Cards, NEW Names, NEW path \in Seq(Names), NEW reads
  PROVE  LET r == NavigateToPath(path, reads)
         IN /\ r.ok \in BOOLEAN /\ Stands(r.nav) /\ r.nav.handle = r.nav.cwd
            /\ r.ok => r.nav = At(path, path)
<1>1. CASE NavigateToPath(path, reads) = Walked(path) /\ Place(path)
  BY <1>1, PlaceStands DEF Walked
<1>2. CASE NavigateToPath(path, reads) = Failed(ToRoot)
  BY <1>2, RootStands DEF Failed
<1> QED BY <1>1, <1>2, NavigateFacts

LEMMA ReliableCard ==
  ASSUME card.reliable
  PROVE  Reads = {MaxDepth} /\ Opens = {TRUE}
BY DEF Reads, Opens

LEMMA StandsPlace ==
  ASSUME card \in Cards, NEW n, Stands(n)
  PROVE  /\ Place(n.cwd) /\ Place(n.currentPath) /\ n.cwd \in Seq(STRING)
         /\ n.currentPath \in Seq(STRING)
BY CardFacts DEF Stands, Place

LEMMA EnterFacts ==
  ASSUME card \in Cards, NEW n, Stands(n), NEW name, NEW opens
  PROVE  \/ ChangeDirectory(n, name, opens) = Failed(n)
         \/ \E p : Place(p) /\ ChangeDirectory(n, name, opens) = Walked(p)
<1>1. Place(n.cwd) /\ n.currentPath = n.cwd
  BY StandsPlace DEF Stands
<1> QED BY <1>1, ChangeDirectoryFacts

LEMMA GoBackFacts ==
  ASSUME card \in Cards, NEW n, Stands(n), NEW reads \in Reads
  PROVE  \/ GoBack(n, reads) = Failed(n)
         \/ \E p : Place(p) /\ GoBack(n, reads) = Walked(p)
         \/ ~card.reliable /\ GoBack(n, reads) = Failed(ToRoot)
<1>1. CASE n.currentPath = << >>
  BY <1>1 DEF GoBack, Failed
<1>2. CASE n.currentPath # << >>
  <2> DEFINE p == n.currentPath
             up == ParentOf(p, Len(p))
  <2>1. p \in Seq(STRING) /\ Place(p) /\ Len(p) \in Nat \ {0}
    BY <1>2, StandsPlace
  <2>2. Len(p) \in DOMAIN p
    BY <2>1
  <2>3. up \in DOMAIN card.disk
    BY <2>1, <2>2, CardFacts DEF Place
  <2>4. Len(up) = Len(p) - 1
    BY <2>1 DEF ParentOf
  <2>5. Place(up)
    BY <2>1, <2>3, <2>4, BrowseAssumption DEF Place
  <2>6. up \in Seq(STRING)
    BY <2>3, CardFacts
  <2>7. GoBack(n, reads) = NavigateToPath(up, reads)
    BY <1>2 DEF GoBack
  <2>8. CASE card.reliable
    BY <2>5, <2>7, <2>8, NavigateArrives, ReliableCard
  <2>9. CASE ~card.reliable
    BY <2>6, <2>7, <2>9, NavigateFacts
  <2> QED BY <2>8, <2>9
<1> QED BY <1>1, <1>2

LEMMA OpenFileFacts ==
  ASSUME card \in Cards, Stands(nav), NEW name, NEW opens,
         NEW there \in Reads, NEW back \in Reads
  PROVE  LET r == HandleOpenFile(PLUGINS, name, there, back, opens)
         IN /\ Stands(r.nav) /\ r.nav.handle = r.nav.cwd
            /\ card.reliable /\ HasPlugins => r.nav.currentPath = nav.currentPath
<1> DEFINE arrived == NavigateToPath(PLUGINS, there)
           returned == NavigateToPath(nav.currentPath, back)
           r == HandleOpenFile(PLUGINS, name, there, back, opens)
<1>1. /\ Stands(arrived.nav) /\ arrived.nav.handle = arrived.nav.cwd
      /\ Stands(returned.nav) /\ returned.nav.handle = returned.nav.cwd
  BY PluginsPlace, NavigateStands, StandsPlace
<1>2. r.nav \in {arrived.nav, returned.nav}
  BY DEF HandleOpenFile
<1>3. ASSUME card.reliable, HasPlugins
      PROVE  r.nav.currentPath = nav.currentPath
  <2>1. arrived = Walked(PLUGINS) /\ returned = Walked(nav.currentPath)
    BY <1>3, PluginsPlace, StandsPlace, NavigateArrives, ReliableCard
  <2>2. arrived.ok /\ returned.nav.currentPath = nav.currentPath
    BY <2>1 DEF Walked, At
  <2> QED BY <2>2 DEF HandleOpenFile
<1> QED BY <1>1, <1>2, <1>3

LEMMA InvokeNameFacts ==
  ASSUME card \in Cards, Stands(nav), NEW name, NEW opens \in Opens,
         NEW there \in Reads, NEW back \in Reads
  PROVE  LET r == HandleInvokeWithName(PLUGINS, name, there, back, opens)
         IN /\ r.ok \in BOOLEAN /\ Stands(r.nav)
            /\ Complete /\ (\E type \in DOMAIN PluginOf : name = PluginOf[type]) => r.ok
<1> DEFINE arrived == NavigateToPath(PLUGINS, there)
           returned == NavigateToPath(nav.currentPath, back)
           r == HandleInvokeWithName(PLUGINS, name, there, back, opens)
           found == opens /\ \E e \in EntriesNamed(PLUGINS, name) : e.type # "dir" /\ ~e.hidden
<1>1. Stands(arrived.nav) /\ Stands(returned.nav)
  BY PluginsPlace, NavigateStands, StandsPlace
<1>2. Stands([arrived.nav EXCEPT !.handle = Closed])
  BY <1>1 DEF Stands
<1>3. /\ r.ok \in BOOLEAN
      /\ r.nav \in {arrived.nav, returned.nav, [arrived.nav EXCEPT !.handle = Closed]}
  BY DEF HandleInvokeWithName
<1>4. ASSUME Complete, NEW type \in DOMAIN PluginOf, name = PluginOf[type]
      PROVE  r.ok
  <2>0. there = MaxDepth /\ opens = TRUE
    BY <1>4, ReliableCard DEF Complete
  <2>1. arrived = Walked(PLUGINS)
    BY <1>4, <2>0, PluginsPlace, NavigateArrives DEF Complete
  <2>2. arrived.ok
    BY <2>1 DEF Walked
  <2>3. \E e \in EntriesNamed(PLUGINS, name) : e.type = "prg" /\ ~e.hidden
    BY <1>4 DEF Complete
  <2>4. \E e \in EntriesNamed(PLUGINS, name) : e.type # "dir" /\ ~e.hidden
    BY <2>3
  <2> QED BY <2>0, <2>2, <2>4 DEF HandleInvokeWithName
<1> QED BY <1>1, <1>2, <1>3, <1>4

LEMMA InvokeIndexFacts ==
  ASSUME card \in Cards, Stands(nav), NEW index, NEW opens \in Opens, NEW pluginOpens \in Opens
  PROVE  LET r == HandleInvokeWithIndex(index, opens, pluginOpens)
         IN /\ Stands(r.nav)
            /\ r.nav.currentPath = nav.currentPath
            /\ r.ok => /\ index \in DOMAIN card.disk[nav.cwd]
                       /\ r.ran = Append(nav.cwd, card.disk[nav.cwd][index].name)
            /\ /\ Complete /\ nav.handle = nav.cwd
               /\ index \in DOMAIN card.disk[nav.cwd]
               /\ card.disk[nav.cwd][index].type # "dir"
               => r.ok
<1> DEFINE r == HandleInvokeWithIndex(index, opens, pluginOpens)
<1>1. Stands([nav EXCEPT !.handle = Closed])
      /\ [nav EXCEPT !.handle = Closed].currentPath = nav.currentPath
  BY DEF Stands
<1>2. r.nav \in {nav, [nav EXCEPT !.handle = Closed]}
  BY DEF HandleInvokeWithIndex
<1>3. ASSUME r.ok
      PROVE  /\ index \in DOMAIN card.disk[nav.cwd]
             /\ r.ran = Append(nav.cwd, card.disk[nav.cwd][index].name)
  <2>1. /\ nav.handle # Closed /\ index \in DOMAIN card.disk[nav.handle]
        /\ r.ran = Append(nav.handle, card.disk[nav.handle][index].name)
    BY <1>3 DEF HandleInvokeWithIndex
  <2> QED BY <2>1 DEF Stands
<1>4. ASSUME Complete, nav.handle = nav.cwd, index \in DOMAIN card.disk[nav.cwd],
             card.disk[nav.cwd][index].type # "dir"
      PROVE  r.ok
  <2>1. opens = TRUE /\ pluginOpens = TRUE
    BY <1>4, ReliableCard DEF Complete
  <2>2. nav.handle # Closed
    BY <1>4, CardFacts DEF Stands
  <2>3. PLUGINS \in DOMAIN card.disk /\ card.picturesValid
    BY <1>4 DEF Complete, HasPlugins
  <2>4. HasFile(PLUGINS, PluginOf["koa"])
    <3>1. "koa" \in DOMAIN PluginOf
      BY DEF PluginOf
    <3>2. PICK e \in EntriesNamed(PLUGINS, PluginOf["koa"]) : e.type = "prg"
      BY <1>4, <3>1 DEF Complete
    <3> QED BY <3>2 DEF HasFile
  <2> QED BY <1>4, <2>1, <2>2, <2>3, <2>4 DEF HandleInvokeWithIndex
<1> QED BY <1>1, <1>2, <1>3, <1>4

-----------------------------------------------------------------------------
(* The steps.                                                               *)

LEMMA BrowseInit == Init => BrowseInv
<1> SUFFICES ASSUME Init
             PROVE  BrowseInv
  OBVIOUS
<1>1. card \in Cards /\ Stands(nav) /\ nav.handle = nav.cwd
  BY RootStands DEF Init
<1>2. << >> \in DOMAIN card.disk
  BY <1>1, CardFacts DEF Place
<1> QED BY <1>1, <1>2 DEF Init, BrowseInv, RowsInv, ScreenInv, LaunchesShown, RowStartsShown,
                         Nothing, CompleteInv

\* What a step keeps when it leaves the card alone and moves nav to a place.
LEMMA CardStays ==
  ASSUME card' = card
  PROVE  /\ Stands(nav') => Stands(nav)'
         /\ Complete' = Complete /\ HasPlugins' = HasPlugins
         /\ \A path, dotdot : Listing(path, dotdot)' = Listing(path, dotdot)
BY DEF Stands, Complete, HasPlugins, EntriesNamed, Listing, RowsOf, RowAt

LEMMA ListingRows ==
  ASSUME card \in Cards, Stands(nav), NEW row \in Listing(nav.handle, InSubDir)
  PROVE  row = DotDot \/ \E i \in DOMAIN card.disk[nav.currentPath] :
                           row = RowAt(nav.currentPath, i)
<1>1. CASE row = DotDot
  BY <1>1
<1>2. CASE row # DotDot
  <2>1. nav.handle # Closed /\ row \in RowsOf(nav.handle)
    BY <1>2 DEF Listing
  <2>2. nav.handle = nav.currentPath
    BY <2>1 DEF Stands
  <2> QED BY <2>1, <2>2 DEF RowsOf
<1> QED BY <1>1, <1>2

LEMMA ReadDirectoryStep ==
  ASSUME BrowseInv, ReadDirectory
  PROVE  BrowseInv'
<1> USE DEF BrowseInv
<1>1. /\ card' = card /\ nav' = nav /\ menu' = "browsing"
      /\ screen'.path = nav.currentPath
      /\ screen'.rows = Listing(nav.handle, InSubDir)
      /\ chosen' = chosen /\ launched' = launched
  BY DEF ReadDirectory
<1>2. Stands(nav)'
  BY <1>1, CardStays
<1>3. RowsInv'
  <2>1. nav.currentPath \in DOMAIN card.disk
    BY DEF Stands
  <2>2. ASSUME NEW row \in screen'.rows
        PROVE  row = DotDot \/ \E i \in DOMAIN card'.disk[screen'.path] :
                                 row = RowAt(screen.path, i)'
    <3>1. row = DotDot \/ \E i \in DOMAIN card.disk[nav.currentPath] :
                            row = RowAt(nav.currentPath, i)
      BY <1>1, <2>2, ListingRows
    <3> QED BY <1>1, <3>1 DEF RowAt
  <2> QED BY <1>1, <2>1, <2>2 DEF RowsInv
<1>4. ScreenInv'
  BY <1>1 DEF ScreenInv, LaunchesShown, RowStartsShown, HasPlugins
<1>5. CompleteInv'
  <2> SUFFICES ASSUME Complete
               PROVE  screen'.rows = Listing(screen'.path, screen'.path # << >>)
    BY <1>1, CardStays DEF CompleteInv, ReadDirectory
  <2>1. nav.handle = nav.currentPath
    BY DEF CompleteInv, ReadDirectory, Stands
  <2> QED BY <1>1, <2>1 DEF InSubDir
<1> QED BY <1>1, <1>2, <1>3, <1>4, <1>5

LEMMA TurnPageStep ==
  ASSUME BrowseInv, TurnPage
  PROVE  BrowseInv'
<1> USE DEF BrowseInv
<1>1. Stands(nav)' /\ Complete' = Complete
  BY CardStays DEF TurnPage
<1>2. RowsInv' /\ ScreenInv'
  BY DEF TurnPage, RowsInv, ScreenInv, RowAt, LaunchesShown, RowStartsShown, HasPlugins
<1>3. CompleteInv'
  BY <1>1 DEF TurnPage, CompleteInv
<1> QED BY <1>1, <1>2, <1>3 DEF TurnPage

\* A change of directory: to another place, or none.
LEMMA MoveStep ==
  ASSUME BrowseInv, menu = "browsing", NEW cd,
         \/ cd = Failed(nav)
         \/ \E p : Place(p) /\ cd = Walked(p)
         \/ ~card.reliable /\ cd = Failed(ToRoot),
         nav' = cd.nav, menu' = IF cd.ok THEN "reading" ELSE "browsing",
         UNCHANGED <<card, screen, chosen, launched>>
  PROVE  BrowseInv'
<1> USE DEF BrowseInv
<1>1. RowsInv'
  BY DEF RowsInv, RowAt
<1>2. /\ LaunchesShown' /\ Complete' = Complete /\ HasPlugins' = HasPlugins
      /\ \A path, dotdot : Listing(path, dotdot)' = Listing(path, dotdot)
  BY CardStays DEF LaunchesShown, RowStartsShown, HasPlugins, ScreenInv
<1>3. CASE cd = Failed(nav)
  <2>1. nav' = nav /\ menu' = menu
    BY <1>3 DEF Failed
  <2>2. ScreenInv' /\ CompleteInv'
    BY <1>2, <2>1 DEF ScreenInv, CompleteInv
  <2> QED BY <1>1, <2>1, <2>2, CardStays
<1>4. ASSUME NEW p, Place(p), cd = Walked(p)
      PROVE  BrowseInv'
  <2>1. nav' = At(p, p) /\ menu' = "reading"
    BY <1>4 DEF Walked
  <2>2. Stands(nav)' /\ nav'.handle = nav'.cwd
    BY <1>4, <2>1, PlaceStands, CardStays
  <2>3. ScreenInv' /\ CompleteInv'
    BY <1>2, <2>1, <2>2 DEF ScreenInv, CompleteInv
  <2> QED BY <1>1, <2>1, <2>2, <2>3
<1>5. CASE ~card.reliable /\ cd = Failed(ToRoot)
  <2>1. nav' = ToRoot /\ menu' = "browsing"
    BY <1>5 DEF Failed
  <2>2. Stands(nav)'
    BY <2>1, RootStands, CardStays
  <2>3. ScreenInv' /\ ~Complete'
    BY <1>2, <1>5 DEF ScreenInv, Complete
  <2> QED BY <1>1, <2>1, <2>2, <2>3 DEF CompleteInv
<1> QED BY <1>3, <1>4, <1>5

LEMMA EnterDirectoryStep ==
  ASSUME BrowseInv, NEW row \in screen.rows, EnterDirectory(row)
  PROVE  BrowseInv'
<1>1. PICK opens \in Opens :
        LET cd == ChangeDirectory(nav, row.name, opens)
        IN nav' = cd.nav /\ menu' = IF cd.ok THEN "reading" ELSE "browsing"
  BY DEF EnterDirectory
<1> DEFINE cd == ChangeDirectory(nav, row.name, opens)
<1>2. cd = Failed(nav) \/ \E p : Place(p) /\ cd = Walked(p)
  BY EnterFacts DEF BrowseInv
<1>3. /\ nav' = cd.nav /\ menu' = IF cd.ok THEN "reading" ELSE "browsing"
      /\ menu = "browsing" /\ UNCHANGED <<card, screen, chosen, launched>>
  BY <1>1 DEF EnterDirectory
<1> HIDE DEF cd
<1> QED BY <1>2, <1>3, MoveStep

LEMMA LeaveDirectoryStep ==
  ASSUME BrowseInv, NEW row \in screen.rows, LeaveDirectory(row)
  PROVE  BrowseInv'
<1>1. PICK reads \in Reads :
        LET cd == GoBack(nav, reads)
        IN nav' = cd.nav /\ menu' = IF cd.ok THEN "reading" ELSE "browsing"
  BY DEF LeaveDirectory
<1> DEFINE cd == GoBack(nav, reads)
<1>2. \/ cd = Failed(nav)
      \/ \E p : Place(p) /\ cd = Walked(p)
      \/ ~card.reliable /\ cd = Failed(ToRoot)
  BY GoBackFacts DEF BrowseInv
<1>3. /\ nav' = cd.nav /\ menu' = IF cd.ok THEN "reading" ELSE "browsing"
      /\ menu = "browsing" /\ UNCHANGED <<card, screen, chosen, launched>>
  BY <1>1 DEF LeaveDirectory
<1> HIDE DEF cd
<1> QED BY <1>2, <1>3, MoveStep

\* A row that is not ".." is an entry of the directory on the screen.
LEMMA RowFacts ==
  ASSUME BrowseInv, NEW row \in screen.rows, row.type # "dir"
  PROVE  /\ row.index \in DOMAIN card.disk[screen.path]
         /\ card.disk[screen.path][row.index].name = row.name
         /\ card.disk[screen.path][row.index].type = row.type
<1>1. PICK i \in DOMAIN card.disk[screen.path] : row = RowAt(screen.path, i)
  BY DEF BrowseInv, RowsInv, DotDot
<1> QED BY <1>1 DEF RowAt

LEMMA LaunchRowStep ==
  ASSUME BrowseInv, NEW row \in screen.rows, LaunchRow(row)
  PROVE  BrowseInv'
<1> USE DEF BrowseInv
<1>1. PICK opens \in Opens, pluginOpens \in Opens :
        LET invoked == HandleInvokeWithIndex(row.index, opens, pluginOpens)
        IN /\ nav' = invoked.nav
           /\ \/ /\ invoked.ok
                 /\ menu' = "away"
                 /\ launched' = [chosen |-> Append(screen.path, row.name), ran |-> invoked.ran]
              \/ /\ ~invoked.ok
                 /\ menu' = "hung"
                 /\ UNCHANGED launched
              \/ /\ ~invoked.ok /\ row.type = "koa"
                 /\ menu' = "browsing"
                 /\ UNCHANGED launched
  BY DEF LaunchRow
<1> DEFINE r == HandleInvokeWithIndex(row.index, opens, pluginOpens)
<1>2. /\ row.type # "dir" /\ menu = "browsing" /\ UNCHANGED <<card, screen, chosen>>
  BY DEF LaunchRow
<1>3. /\ row.index \in DOMAIN card.disk[screen.path]
      /\ card.disk[screen.path][row.index].name = row.name
      /\ card.disk[screen.path][row.index].type # "dir"
  BY <1>2, RowFacts
<1>4. /\ Stands(r.nav) /\ r.nav.currentPath = nav.currentPath
      /\ r.ok => r.ran = Append(nav.cwd, card.disk[nav.cwd][row.index].name)
      /\ /\ Complete /\ nav.handle = nav.cwd
         /\ row.index \in DOMAIN card.disk[nav.cwd]
         /\ card.disk[nav.cwd][row.index].type # "dir"
         => r.ok
  BY <1>1, InvokeIndexFacts
<1> HIDE DEF r
<1>5. /\ nav' = r.nav /\ menu' \in {"away", "hung", "browsing"}
      /\ r.ok => menu' = "away"
                 /\ launched' = [chosen |-> Append(screen.path, row.name), ran |-> r.ran]
      /\ ~r.ok => launched' = launched
  BY <1>1 DEF r
<1>6. Stands(nav)' /\ HasPlugins' = HasPlugins /\ Complete' = Complete
  BY <1>2, <1>4, <1>5, CardStays
<1>7. RowsInv'
  BY <1>2, <1>5 DEF RowsInv, RowAt
<1>8. ASSUME card.reliable, HasPlugins
      PROVE  nav.cwd = screen.path /\ nav.currentPath = screen.path
  BY <1>2, <1>8 DEF ScreenInv, Stands
<1>9. ScreenInv'
  <2> SUFFICES ASSUME card.reliable, HasPlugins
               PROVE  nav'.currentPath = screen'.path /\ launched'.ran = launched'.chosen
    BY <1>2, <1>6 DEF ScreenInv, LaunchesShown, RowStartsShown
  <2>1. nav'.currentPath = screen'.path
    <3>1. nav.currentPath = screen.path
      BY <1>8, Zenon
    <3>2. screen' = screen /\ nav' = r.nav /\ r.nav.currentPath = nav.currentPath
      BY <1>2, <1>4, <1>5, Zenon
    <3> QED BY <3>1, <3>2, Zenon
  <2>2. CASE r.ok
    <3>1. launched'.ran = Append(nav.cwd, card.disk[nav.cwd][row.index].name)
          /\ launched'.chosen = Append(screen.path, row.name)
      BY <1>4, <1>5, <2>2
    <3>2. nav.cwd = screen.path
      BY <1>8, Zenon
    <3>3. card.disk[screen.path][row.index].name = row.name
      BY <1>3, Zenon
    <3> QED BY <2>1, <3>1, <3>2, <3>3, Zenon
  <2>3. CASE ~r.ok
    BY <1>5, <2>1, <2>3 DEF ScreenInv, LaunchesShown, RowStartsShown
  <2> QED BY <2>1, <2>2, <2>3
<1>10. CompleteInv'
  <2> SUFFICES ASSUME Complete
               PROVE  menu' = "away"
    BY <1>6 DEF CompleteInv
  <2>1. nav.handle = nav.cwd /\ nav.cwd = screen.path
    BY <1>2, <1>8 DEF CompleteInv, Complete
  <2> QED BY <1>3, <1>4, <1>5, <2>1
<1> QED BY <1>2, <1>5, <1>6, <1>7, <1>9, <1>10

LEMMA OpenPluginStep ==
  ASSUME BrowseInv, NEW row \in screen.rows, OpenPlugin(row)
  PROVE  BrowseInv'
<1> USE DEF BrowseInv
<1>1. PICK there \in Reads, back \in Reads, opens \in Opens :
        LET opened == HandleOpenFile(PLUGINS, PluginOf[row.type], there, back, opens)
        IN /\ nav' = opened.nav
           /\ menu' = IF opened.ok THEN "opened" ELSE "browsing"
           /\ chosen' = IF opened.ok THEN row ELSE chosen
  BY DEF OpenPlugin
<1> DEFINE r == HandleOpenFile(PLUGINS, PluginOf[row.type], there, back, opens)
<1>2. /\ row.type = "wav" /\ menu = "browsing" /\ UNCHANGED <<card, screen, launched>>
  BY DEF OpenPlugin
<1>3. /\ Stands(r.nav) /\ r.nav.handle = r.nav.cwd
      /\ card.reliable /\ HasPlugins => r.nav.currentPath = nav.currentPath
  BY OpenFileFacts
<1> HIDE DEF r
<1>4. /\ nav' = r.nav /\ menu' \in {"opened", "browsing"}
      /\ menu' = "opened" => chosen' = row
  BY <1>1 DEF r
<1>5. /\ Stands(nav)' /\ HasPlugins' = HasPlugins /\ Complete' = Complete
      /\ \A path, dotdot : Listing(path, dotdot)' = Listing(path, dotdot)
  BY <1>2, <1>3, <1>4, CardStays
<1>6. RowsInv'
  BY <1>2, <1>4 DEF RowsInv, RowAt
<1>7. ScreenInv'
  BY <1>2, <1>3, <1>4, <1>5 DEF ScreenInv, LaunchesShown, RowStartsShown
<1>8. CompleteInv'
  BY <1>2, <1>3, <1>4, <1>5 DEF CompleteInv
<1> QED BY <1>2, <1>4, <1>5, <1>6, <1>7, <1>8

LEMMA StartPluginStep ==
  ASSUME BrowseInv, StartPlugin
  PROVE  BrowseInv'
<1> USE DEF BrowseInv
<1>1. PICK there \in Reads, back \in Reads, opens \in Opens :
        LET invoked == HandleInvokeWithName(PLUGINS, PluginOf[chosen.type], there, back, opens)
        IN /\ nav' = invoked.nav
           /\ menu' = IF invoked.ok THEN "away" ELSE "hung"
           /\ launched' = IF invoked.ok
                          THEN [chosen |-> Append(screen.path, chosen.name),
                                ran |-> Append(nav.currentPath, chosen.name)]
                          ELSE launched
  BY DEF StartPlugin
<1> DEFINE r == HandleInvokeWithName(PLUGINS, PluginOf[chosen.type], there, back, opens)
<1>2. menu = "opened" /\ UNCHANGED <<card, screen>>
  BY DEF StartPlugin
<1>3. \E type \in DOMAIN PluginOf : PluginOf[chosen.type] = PluginOf[type]
  BY <1>2 DEF RowsInv, PluginOf
<1>4. Stands(r.nav) /\ r.ok \in BOOLEAN /\ (Complete => r.ok)
  BY <1>3, InvokeNameFacts
<1> HIDE DEF r
<1>5. /\ nav' = r.nav /\ menu' = IF r.ok THEN "away" ELSE "hung"
      /\ launched' = IF r.ok THEN [chosen |-> Append(screen.path, chosen.name),
                                   ran |-> Append(nav.currentPath, chosen.name)]
                             ELSE launched
  BY <1>1 DEF r
<1>6. Stands(nav)' /\ HasPlugins' = HasPlugins /\ Complete' = Complete
  BY <1>2, <1>4, <1>5, CardStays
<1>7. RowsInv'
  BY <1>2, <1>5 DEF RowsInv, RowAt
<1>8. ScreenInv'
  BY <1>2, <1>5, <1>6 DEF ScreenInv, LaunchesShown, RowStartsShown
<1>9. CompleteInv'
  BY <1>4, <1>5, <1>6 DEF CompleteInv
<1> QED BY <1>2, <1>5, <1>6, <1>7, <1>8, <1>9

LEMMA TransferMenuStep ==
  ASSUME BrowseInv, TransferMenu
  PROVE  BrowseInv'
<1> USE DEF BrowseInv, TransferMenu
<1>1. Stands(nav)' /\ nav'.handle = nav'.cwd
  BY RootStands, CardStays
<1>2. RowsInv'
  BY DEF RowsInv, RowAt
<1>3. ScreenInv' /\ CompleteInv'
  BY <1>1 DEF ScreenInv, CompleteInv, LaunchesShown, RowStartsShown, Nothing
<1> QED BY <1>1, <1>2, <1>3

LEMMA BrowseStep == BrowseInv /\ [Next]_vars => BrowseInv'
<1> SUFFICES ASSUME BrowseInv, [Next]_vars
             PROVE  BrowseInv'
  OBVIOUS
<1>1. ASSUME NEW row \in screen.rows,
             EnterDirectory(row) \/ LeaveDirectory(row) \/ LaunchRow(row) \/ OpenPlugin(row)
      PROVE  BrowseInv'
  BY <1>1, EnterDirectoryStep, LeaveDirectoryStep, LaunchRowStep, OpenPluginStep
<1>2. CASE UNCHANGED vars
  <2>1. card' = card /\ UNCHANGED <<nav, menu, screen, chosen, launched>>
    BY <1>2 DEF vars
  <2>2. Stands(nav)' /\ HasPlugins' = HasPlugins /\ Complete' = Complete
        /\ \A path, dotdot : Listing(path, dotdot)' = Listing(path, dotdot)
    BY <2>1, CardStays DEF BrowseInv
  <2>3. RowsInv' /\ ScreenInv' /\ CompleteInv'
    BY <2>1, <2>2 DEF BrowseInv, RowsInv, RowAt, ScreenInv, LaunchesShown, RowStartsShown,
                      CompleteInv
  <2> QED BY <2>1, <2>2, <2>3 DEF BrowseInv
<1> QED BY <1>1, <1>2, ReadDirectoryStep, TurnPageStep, StartPluginStep, TransferMenuStep
        DEF Next

-----------------------------------------------------------------------------
(* Theorems.                                                                *)

LEMMA BrowseInvHolds == Spec => []BrowseInv
BY BrowseInit, BrowseStep, PTL DEF Spec

\* Every path of the firmware and of the screen is a directory of the card that
\* fits its buffer (DirFunction, the walks of CartApi).
THEOREM TypeCorrect == Spec => []TypeOK
<1>1. BrowseInv => TypeOK
  BY DEF BrowseInv, Stands, RowsInv, TypeOK
<1> QED BY <1>1, BrowseInvHolds, PTL

\* Whatever walk fails at whatever directory, the path the menu is told is the
\* volume's, and the directory handle is there or closed (DirFunction's
\* ChangeDirectory, GoBack and NavigateToPath, and the handlers that walk).
THEOREM PathMirrorsHolds == Spec => []PathMirrorsCwd
<1>1. BrowseInv => PathMirrorsCwd
  BY DEF BrowseInv, Stands, PathMirrorsCwd
<1> QED BY <1>1, BrowseInvHolds, PTL

\* On a card that can be read and has a folder of plugins, every row starts what
\* it shows, in every directory and after every failure (INVOKE_WITH_INDEX, and
\* GET_PATH before a plugin).
THEOREM LaunchesShownHolds == Spec => []LaunchesShown
<1>1. BrowseInv => LaunchesShown
  BY DEF BrowseInv, ScreenInv
<1> QED BY <1>1, BrowseInvHolds, PTL

\* On a complete card every listing is whole and no launch leaves the menu in its
\* endless loop.
THEOREM CompleteCardServesHolds == Spec => []CompleteCardServes
<1>1. BrowseInv => CompleteCardServes
  BY DEF BrowseInv, CompleteInv, CompleteCardServes
<1> QED BY <1>1, BrowseInvHolds, PTL

-----------------------------------------------------------------------------
(* The times of the button.                                                 *)

\* What the proofs use of the constants.
LEMMA Constants ==
  /\ Wrap \in Nat \ {0} /\ Half \in Nat \ {0, 1} /\ Wrap = 2 * Half
  /\ BUTTON_BOOT_GUARD_MS \in 1 .. Half - 1 /\ BUTTON_POST_ACTION_GUARD_MS \in 1 .. Half - 1
  /\ BUTTON_DEBOUNCE_MS \in 1 .. Half - 1 /\ BUTTON_LONG_PRESS_MS \in 1 .. Half - 1
  /\ SEL_STABLE_MS \in 1 .. Half - 1
  /\ Bounce \in 1 .. SEL_STABLE_MS - 1
  /\ SEL_STABLE_MS < BUTTON_DEBOUNCE_MS /\ BUTTON_DEBOUNCE_MS < BUTTON_LONG_PRESS_MS
  /\ Bounce <= BUTTON_POST_ACTION_GUARD_MS
  /\ BUTTON_POST_ACTION_GUARD_MS <= BUTTON_BOOT_GUARD_MS
  /\ MaxBusy \in Nat \ {0}
<1>1. Wrap \in Nat /\ Wrap % 2 = 0
  BY ButtonAssumption
<1>2. PICK q \in Int, r \in 0 .. 1 : Wrap = 2 * q + r /\ Wrap % 2 = r /\ Wrap \div 2 = q
  BY <1>1, DivMod, 2 - 1 = 1, 2 \in Nat \ {0}, Wrap \in Int
<1>3. Wrap = 2 * Half /\ Half \in Int
  BY <1>1, <1>2 DEF Half
<1>4. SEL_STABLE_MS \in 1 .. Half - 1
  BY ButtonAssumption DEF Half
<1>5. Half \in Nat \ {0, 1} /\ Wrap \in Nat \ {0}
  BY <1>1, <1>3, <1>4
<1> QED BY <1>3, <1>5, ButtonAssumption DEF Half, Guards

\* The difference of two times of the clock, in either order.
LEMMA Difference ==
  ASSUME NEW s \in Millis, NEW t \in Millis
  PROVE  /\ (s - t) % Wrap = IF t <= s THEN s - t ELSE (s - t) + Wrap
         /\ (s - t) % Wrap \in Millis
<1>1. CASE t <= s
  <2>1. s - t \in 0 .. Wrap - 1
    BY <1>1, Constants DEF Millis
  <2> QED BY <1>1, <2>1, ModSmall, Constants DEF Millis
<1>2. CASE s < t
  <2>1. (s - t) + Wrap \in 0 .. Wrap - 1 /\ s - t \in Int
    BY <1>2, Constants DEF Millis
  <2>2. ((s - t) + Wrap) % Wrap = (s - t) % Wrap
    BY <2>1, ModAdd, Constants
  <2>3. ((s - t) + Wrap) % Wrap = (s - t) + Wrap
    BY <2>1, ModSmall, Constants
  <2> QED BY <1>2, <2>1, <2>2, <2>3, Constants DEF Millis
<1> QED BY <1>1, <1>2, Constants DEF Millis

\* The clock counts on, and begins again.
LEMMA Advances ==
  ASSUME NEW s \in Millis, NEW k \in 0 .. Wrap - 1
  PROVE  /\ (s + k) % Wrap = IF s + k < Wrap THEN s + k ELSE (s + k) - Wrap
         /\ (s + k) % Wrap \in Millis
<1>1. CASE s + k < Wrap
  <2>1. s + k \in 0 .. Wrap - 1
    BY <1>1, Constants DEF Millis
  <2> QED BY <1>1, <2>1, ModSmall, Constants DEF Millis
<1>2. CASE s + k >= Wrap
  <2>1. (s + k) - Wrap \in 0 .. Wrap - 1 /\ (s + k) - Wrap \in Int
    BY <1>2, Constants DEF Millis
  <2>2. (((s + k) - Wrap) + Wrap) % Wrap = ((s + k) - Wrap) % Wrap
    BY <2>1, ModAdd, Constants
  <2>3. ((s + k) - Wrap) + Wrap = s + k
    BY <2>1, Constants DEF Millis
  <2>4. ((s + k) - Wrap) % Wrap = (s + k) - Wrap
    BY <2>1, ModSmall, Constants
  <2> QED BY <1>2, <2>1, <2>2, <2>3, <2>4, Constants DEF Millis
<1> QED BY <1>1, <1>2, Constants DEF Millis

\* A tick later a time is a tick longer ago.
LEMMA TickElapsed ==
  ASSUME NEW s \in Millis, NEW t \in Millis
  PROVE  (((s + 1) % Wrap) - t) % Wrap =
            IF (s - t) % Wrap = Wrap - 1 THEN 0 ELSE ((s - t) % Wrap) + 1
<1>1. 1 \in 0 .. Wrap - 1
  BY Constants
<1>2. (s + 1) % Wrap = (IF s + 1 < Wrap THEN s + 1 ELSE (s + 1) - Wrap)
      /\ (s + 1) % Wrap \in Millis
  BY <1>1, Advances
<1> DEFINE u == (s + 1) % Wrap
<1>3. u = (IF s + 1 < Wrap THEN s + 1 ELSE (s + 1) - Wrap) /\ u \in Millis
  BY <1>2
<1> HIDE DEF u
<1>4. (u - t) % Wrap = IF t <= u THEN u - t ELSE (u - t) + Wrap
  BY <1>3, Difference
<1>5. (s - t) % Wrap = IF t <= s THEN s - t ELSE (s - t) + Wrap
  BY Difference
<1> QED BY <1>3, <1>4, <1>5, Constants DEF Millis, u

\* An end a guard away is as long ago as the clock holds, but for the guard.
LEMMA EndElapsed ==
  ASSUME NEW s \in Millis, NEW g \in 1 .. Half - 1
  PROVE  (s - ((s + g) % Wrap)) % Wrap = Wrap - g
<1> DEFINE u == (s + g) % Wrap
<1>1. u = (IF s + g < Wrap THEN s + g ELSE (s + g) - Wrap) /\ u \in Millis
  BY Advances, Constants, g \in 0 .. Wrap - 1
<1> HIDE DEF u
<1>2. (s - u) % Wrap = IF u <= s THEN s - u ELSE (s - u) + Wrap
  BY <1>1, Difference
<1> QED BY <1>1, <1>2, Constants DEF Millis, u

-----------------------------------------------------------------------------
(* Times, as the invariant counts them. *)

Since == Elapsed(selCandidateSinceMs)
Timed == Elapsed(pressTimeMs)
Ends == Elapsed(buttonEnableAtMs)

\* The type invariant, one variable at a time.
LEMMA Typed ==
  ASSUME ButtonTypeOK
  PROVE  /\ held \in BOOLEAN /\ sampled \in BOOLEAN /\ selStableReleased \in BOOLEAN
         /\ selCandidateReleased \in BOOLEAN /\ runtimeReady \in BOOLEAN /\ watched \in BOOLEAN
         /\ owed \in 0 .. 2 /\ settling \in 0 .. Bounce /\ busy \in 0 .. MaxBusy
         /\ now \in Millis /\ pressTimeMs \in Millis /\ buttonEnableAtMs \in Millis
         /\ selCandidateSinceMs \in Millis
         /\ state \in {"none", "pressed"} /\ length \in 0 .. LengthMax /\ idle \in 0 .. Half
         /\ LengthMax \in Nat /\ LengthMax = BUTTON_LONG_PRESS_MS + 2 * SEL_STABLE_MS
         /\ pc \in {"loop", "api", "command", "menu", "basic"}
BY Constants DEF ButtonTypeOK, LengthMax

LEMMA TypeInit == ButtonInit => ButtonTypeOK
<1>1. 0 \in Millis /\ BUTTON_BOOT_GUARD_MS \in Millis /\ LengthMax \in Nat
  BY Constants DEF Millis, LengthMax
<1> SUFFICES ASSUME ButtonInit
             PROVE  ButtonTypeOK
  OBVIOUS
<1>2. {held, sampled, selStableReleased, selCandidateReleased, runtimeReady, watched}
        \subseteq BOOLEAN
  BY DEF ButtonInit
<1>3. owed \in 0 .. 2 /\ settling \in 0 .. Bounce /\ busy \in 0 .. MaxBusy
      /\ length \in 0 .. LengthMax /\ idle \in 0 .. Half
  BY <1>1, Constants DEF ButtonInit
<1> QED BY <1>1, <1>2, <1>3 DEF ButtonInit, ButtonTypeOK

\* What serviceSelReleased makes of the level: the candidate, and the level it
\* becomes once it has been the same long enough.
LEMMA WatchSees ==
  ASSUME ButtonTypeOK, \E level \in Read : serviceSelReleased(level)
  PROVE  \E next \in BOOLEAN :
           /\ settling = 0 => next = ~held
           /\ next # selCandidateReleased =>
                /\ selCandidateReleased' = next /\ selCandidateSinceMs' = now
                /\ selStableReleased' = selStableReleased
           /\ next = selCandidateReleased =>
                /\ selCandidateReleased' = next
                /\ selCandidateSinceMs' = selCandidateSinceMs
                /\ selStableReleased' =
                     IF Since >= SEL_STABLE_MS THEN selCandidateReleased
                                               ELSE selStableReleased
<1>1. PICK level \in Read : serviceSelReleased(level)
  OBVIOUS
<1>2. IsReleased(level) \in BOOLEAN
  BY Typed DEF IsReleased
<1>3. settling = 0 => IsReleased(level) = ~held
  BY <1>1, Typed, Constants DEF IsReleased, Read
<1> DEFINE next == IsReleased(level)
<1>4. (next # selCandidateReleased =>
                /\ selCandidateReleased' = next /\ selCandidateSinceMs' = now
                /\ selStableReleased' = selStableReleased)
      /\ (next = selCandidateReleased =>
                /\ selCandidateReleased' = next
                /\ selCandidateSinceMs' = selCandidateSinceMs
                /\ selStableReleased' =
                     IF Since >= SEL_STABLE_MS THEN selCandidateReleased
                                               ELSE selStableReleased)
  BY <1>1, Typed DEF serviceSelReleased, IsStable, Since
<1> WITNESS next \in BOOLEAN
<1> QED BY <1>3, <1>4

LEMMA TypeStep ==
  ASSUME ButtonTypeOK, [ButtonNext]_buttonVars
  PROVE  ButtonTypeOK'
<1> USE Typed
<1>0. 0 \in Millis /\ LengthMax \in Nat
  BY Constants DEF Millis
<1>1. CASE Press
  <2>1. held' \in BOOLEAN /\ watched' \in BOOLEAN /\ owed' \in 0 .. 2
        /\ settling' \in 0 .. Bounce /\ length' \in 0 .. LengthMax
    BY <1>1, <1>0, Constants DEF Press, Clear
  <2> QED
    BY <1>1, <2>1 DEF Press, ButtonTypeOK, clock, loopVars, press, tracking
<1>2. CASE Release
  <2>1. held' \in BOOLEAN /\ settling' \in 0 .. Bounce
    <3>1. held' = FALSE /\ settling' = Bounce
      BY <1>2 DEF Release
    <3>2. held' \in BOOLEAN
      BY <3>1, Zenon
    <3>3. settling' \in 0 .. Bounce
      BY <3>1, Constants
    <3> QED BY <3>2, <3>3
  <2> QED
    BY <1>2, <2>1 DEF Release, ButtonTypeOK, clock, loopVars, press, tracking, history
<1>3. CASE Suppressed
  BY <1>3, <1>0 DEF Suppressed, HandleApiNext, ButtonTypeOK, user, clock, tracking, history
<1>4. CASE Watch
  <2>1. selStableReleased' \in BOOLEAN /\ selCandidateReleased' \in BOOLEAN
        /\ selCandidateSinceMs' \in Millis
    BY <1>4, WatchSees DEF Watch
  <2>2. state' \in {"none", "pressed"} /\ pressTimeMs' \in Millis
        /\ pc' \in {"loop", "api", "command", "menu", "basic"}
        /\ busy' \in 0 .. MaxBusy /\ owed' \in 0 .. 2 /\ sampled' = TRUE
    BY <1>4, Constants DEF Watch, HandleApiNext, ActionOf, press
  <2> QED
    BY <1>4, <2>1, <2>2 DEF Watch, ButtonTypeOK, user, clock
<1>5. CASE Act
  <2>1. buttonEnableAtMs' \in Millis
    BY <1>5, Advances, Constants DEF Act, suppressButtonsFor
  <2> QED
    BY <1>5, <1>0, <2>1, Constants
    DEF Act, suppressButtonsFor, rearmSelTracking, ButtonTypeOK, user, history
<1>6. CASE HandleApi
  BY <1>6, Constants DEF HandleApi, ButtonTypeOK, user, clock, press, tracking, history
<1>7. CASE CommandDone
  BY <1>7 DEF CommandDone, ButtonTypeOK, user, clock, press, tracking, history
<1>8. CASE Tick
  <2>1. now' \in Millis
    BY <1>8, Advances, Constants DEF Tick
  <2>2. watched' \in BOOLEAN /\ sampled' \in BOOLEAN
    BY <1>8 DEF Tick
  <2>3. busy' \in 0 .. MaxBusy /\ settling' \in 0 .. Bounce /\ idle' \in 0 .. Half
    BY <1>8, Constants DEF Tick
  <2>4. length' \in 0 .. LengthMax
    BY <1>8 DEF Tick
  <2> QED
    BY <1>8, <2>1, <2>2, <2>3, <2>4 DEF Tick, ButtonTypeOK, press, tracking
<1>9. CASE UNCHANGED buttonVars
  BY <1>9 DEF buttonVars, ButtonTypeOK, user, clock, loopVars, press, tracking, history
<1> QED
  BY <1>1, <1>2, <1>3, <1>4, <1>5, <1>6, <1>7, <1>8, <1>9 DEF ButtonNext, Loop

\* Every variable holds values of its kind, whatever the bounces and however long
\* the loop is busy.
THEOREM ButtonTypeCorrect == ButtonSpec => []ButtonTypeOK
<1>1. ButtonTypeOK /\ [ButtonNext]_buttonVars => ButtonTypeOK'
  BY TypeStep
<1> QED BY TypeInit, <1>1, PTL DEF ButtonSpec

-----------------------------------------------------------------------------
(* What the loop knows of the press, and how far its times are from those of  *)
(* the user.                                                                *)

\* Busy only with a command or an action, and not watching meanwhile.
BusyInv ==
  /\ pc \in {"loop", "api"} => busy = 0
  /\ pc \in Acting /\ watched /\ length > 0 => busy > 0

StateInv ==
  /\ state = "pressed" => ~selStableReleased
  /\ pc \in Acting => state = "none"

\* No press is owed only when the contact is at rest and seen to be.  While one
\* is owed and the contact bounces, the tracking has not settled on the level it
\* had before.
OwedInv ==
  /\ owed = 0 => ~held /\ Clear /\ settling = 0
  /\ owed = 1 /\ held => selStableReleased \/ ~selCandidateReleased
  /\ owed = 1 /\ held /\ settling > 0 /\ ~selStableReleased =>
       Ends >= Half /\ Ends + settling <= Wrap
  /\ owed = 1 /\ held /\ settling > 0 /\ selStableReleased /\ ~selCandidateReleased =>
       Since + settling <= Bounce
  /\ owed = 1 /\ settling > 0 =>
       selStableReleased \/ ~selCandidateReleased \/ Since + settling <= Bounce

\* Until half the clock has passed, the end of the guard is where it was set.
GuardInv ==
  idle < Half =>
    \E g \in Guards :
      Ends = IF idle < g THEN (Wrap + idle) - g ELSE idle - g

\* A watched press is one the guard has not cut.
NewInv ==
  watched /\ idle < BUTTON_BOOT_GUARD_MS =>
    /\ length = 0 /\ state = "none"
    /\ selStableReleased \/ Ends >= Half
    /\ selCandidateReleased \/ Since = 0

\* A candidate becomes the level as soon as it has been stable long enough.
Fresh == Since < SEL_STABLE_MS \/ (Since = SEL_STABLE_MS /\ ~sampled)

Seen == watched /\ idle >= BUTTON_BOOT_GUARD_MS

SeenInv ==
  Seen =>
    /\ owed <= 1
    /\ Ends >= Half => Clear /\ length = 0
    /\ state = "pressed" <=> ~selStableReleased

\* While the button is held: the contact has bounced since it went down, the
\* tracking follows it, and the press is timed from where it settled.
DownInv ==
  Seen /\ held =>
    /\ settling = IF length < Bounce THEN Bounce - length ELSE 0
    /\ selStableReleased /\ selCandidateReleased =>
         length < Bounce \/ (length = Bounce /\ ~sampled)
    /\ selStableReleased /\ ~selCandidateReleased =>
         Fresh /\ Since <= length /\ length <= Since + Bounce
    /\ ~selStableReleased =>
         /\ ~selCandidateReleased /\ Timed <= idle
         /\ length <= Timed + SEL_STABLE_MS + Bounce
         /\ length < LengthMax => Timed + SEL_STABLE_MS <= length

Until == Bounce - settling

\* Once it is released: a short touch may pass, a press that was timed has an end.
UpInv ==
  Seen /\ ~held =>
    /\ ~selCandidateReleased => settling > 0 \/ ~sampled
    /\ selStableReleased => length < BUTTON_DEBOUNCE_MS + Bounce \/ owed = 0
    /\ selStableReleased /\ ~selCandidateReleased =>
         Fresh /\ \/ Since + settling <= Bounce
                  \/ Since + settling <= length + Bounce /\ length <= Since + settling
    /\ ~selStableReleased => Timed <= idle
    /\ ~selStableReleased /\ (~selCandidateReleased \/ settling > 0) =>
         /\ length + Until <= Timed + SEL_STABLE_MS + Bounce
         /\ length < LengthMax => Timed + SEL_STABLE_MS <= length + Until
    /\ ~selStableReleased /\ selCandidateReleased =>
         /\ Fresh
         /\ length <= (Timed - Since) + SEL_STABLE_MS + Bounce
         /\ length < LengthMax => (Timed - Since) + SEL_STABLE_MS <= length + Bounce

ButtonInv ==
  /\ ButtonTypeOK /\ BusyInv /\ StateInv /\ OwedInv /\ GuardInv
  /\ NewInv /\ SeenInv /\ DownInv /\ UpInv

LEMMA Times ==
  ASSUME ButtonTypeOK
  PROVE  /\ Since \in 0 .. Wrap - 1 /\ Timed \in 0 .. Wrap - 1 /\ Ends \in 0 .. Wrap - 1
         /\ Negative(buttonEnableAtMs) <=> Ends >= Half
BY Typed, Difference DEF Since, Timed, Ends, Elapsed, Negative, Millis

\* Nothing moves the times but the clock and what sets them.
LEMMA Standing ==
  /\ UNCHANGED <<now, selCandidateSinceMs>> => Since' = Since
  /\ UNCHANGED <<now, pressTimeMs>> => Timed' = Timed
  /\ UNCHANGED <<now, buttonEnableAtMs>> => Ends' = Ends
BY DEF Since, Timed, Ends, Elapsed

LEMMA InvInit == ButtonInit => ButtonInv
<1> SUFFICES ASSUME ButtonInit
             PROVE  ButtonInv
  OBVIOUS
<1>1. ButtonTypeOK
  BY TypeInit
<1>2. Since = 0 /\ Ends = Wrap - BUTTON_BOOT_GUARD_MS
  BY Constants, Difference DEF ButtonInit, Since, Ends, Elapsed, Millis
<1>3. ~watched /\ idle = 0 /\ pc = "loop" /\ busy = 0 /\ state = "none" /\ settling = 0
  BY DEF ButtonInit
<1>4. BusyInv /\ StateInv
  BY <1>3 DEF BusyInv, StateInv, Acting
<1>5. OwedInv
  <2>1. CASE held
    BY <1>3, <2>1 DEF ButtonInit, OwedInv
  <2>2. CASE ~held
    BY <1>3, <2>2 DEF ButtonInit, OwedInv, Clear
  <2> QED BY <2>1, <2>2
<1>6. GuardInv
  BY <1>2, <1>3, Constants DEF GuardInv, Guards
<1>7. NewInv /\ SeenInv /\ DownInv /\ UpInv
  BY <1>3 DEF NewInv, SeenInv, DownInv, UpInv, Seen
<1> QED BY <1>1, <1>4, <1>5, <1>6, <1>7 DEF ButtonInv

LEMMA PressStep ==
  ASSUME ButtonInv, Press
  PROVE  /\ BusyInv' /\ StateInv' /\ OwedInv' /\ GuardInv'
         /\ NewInv' /\ SeenInv' /\ DownInv' /\ UpInv'
<1> USE DEF ButtonInv
<1>1. /\ ~held /\ held' = TRUE /\ settling' = Bounce /\ length' = 0 /\ watched' = Clear
      /\ owed' = (IF Clear \/ owed = 0 THEN 1 ELSE 2)
      /\ UNCHANGED <<now, idle, pc, busy, sampled, state, pressTimeMs, buttonEnableAtMs,
                     selStableReleased, selCandidateReleased, selCandidateSinceMs>>
  BY DEF Press, clock, loopVars, press, tracking
<1>2. Since' = Since /\ Timed' = Timed /\ Ends' = Ends
  BY <1>1, Standing
<1>3. BusyInv' /\ StateInv' /\ GuardInv'
  BY <1>1, <1>2 DEF BusyInv, StateInv, GuardInv
<1>4. OwedInv'
  BY <1>1, <1>2, Typed, Times, Constants DEF OwedInv, Clear
<1>5. NewInv'
  BY <1>1, <1>2, Typed DEF NewInv, Clear
<1>6. SeenInv'
  BY <1>1, <1>2, Typed DEF SeenInv, Seen, Clear
<1>7. DownInv'
  BY <1>1, <1>2, Typed, Constants DEF DownInv, Seen, Clear
<1>8. UpInv'
  BY <1>1 DEF UpInv
<1> QED BY <1>3, <1>4, <1>5, <1>6, <1>7, <1>8

LEMMA ReleaseStep ==
  ASSUME ButtonInv, Release
  PROVE  /\ BusyInv' /\ StateInv' /\ OwedInv' /\ GuardInv'
         /\ NewInv' /\ SeenInv' /\ DownInv' /\ UpInv'
<1> USE DEF ButtonInv
<1>1. /\ held /\ held' = FALSE /\ settling' = Bounce
      /\ UNCHANGED <<now, idle, pc, busy, sampled, state, pressTimeMs, buttonEnableAtMs,
                     selStableReleased, selCandidateReleased, selCandidateSinceMs,
                     owed, length, watched>>
  BY DEF Release, clock, loopVars, press, tracking, history
<1>2. Since' = Since /\ Timed' = Timed /\ Ends' = Ends
  BY <1>1, Standing
<1>3. BusyInv' /\ StateInv' /\ GuardInv' /\ NewInv'
  BY <1>1, <1>2 DEF BusyInv, StateInv, GuardInv, NewInv
<1>4. OwedInv'
  BY <1>1, <1>2, Typed, Times, Constants DEF OwedInv, Clear
<1>6. SeenInv'
  BY <1>1, <1>2, Typed DEF SeenInv, Seen, Clear
<1>7. DownInv'
  BY <1>1 DEF DownInv
<1>8. UpInv'
  BY <1>1, <1>2, Typed, Times, Constants DEF UpInv, DownInv, Seen, Until, Fresh
<1> QED BY <1>3, <1>4, <1>6, <1>7, <1>8

LEMMA SuppressedStep ==
  ASSUME ButtonInv, Suppressed
  PROVE  /\ BusyInv' /\ StateInv' /\ OwedInv' /\ GuardInv'
         /\ NewInv' /\ SeenInv' /\ DownInv' /\ UpInv'
<1> USE DEF ButtonInv
<1>1. /\ pc = "loop" /\ Ends >= Half /\ state' = "none" /\ sampled' = TRUE
      /\ pc' \in {"loop", "api"}
      /\ UNCHANGED <<held, settling, now, idle, busy, buttonEnableAtMs, owed, length, watched,
                     selStableReleased, selCandidateReleased, selCandidateSinceMs>>
  BY Times DEF Suppressed, HandleApiNext, user, clock, tracking, history
<1>2. Since' = Since /\ Ends' = Ends
  BY <1>1, Standing
<1>3. BusyInv' /\ StateInv' /\ GuardInv' /\ NewInv'
  BY <1>1, <1>2 DEF BusyInv, StateInv, GuardInv, NewInv, Acting
<1>4. OwedInv'
  BY <1>1, <1>2 DEF OwedInv, Clear
<1>5. Seen => Clear /\ length = 0 /\ state = "none"
  BY <1>1 DEF SeenInv, Clear
<1>6. SeenInv'
  BY <1>1, <1>2, <1>5 DEF SeenInv, Seen, Clear
<1>7. DownInv'
  BY <1>1, <1>2, <1>5, Constants DEF DownInv, Seen, Clear
<1>8. UpInv'
  BY <1>1, <1>2, <1>5, Constants DEF UpInv, Seen, Clear
<1> QED BY <1>3, <1>4, <1>6, <1>7, <1>8

LEMMA ApiStep ==
  ASSUME ButtonInv, HandleApi \/ CommandDone
  PROVE  /\ BusyInv' /\ StateInv' /\ OwedInv' /\ GuardInv'
         /\ NewInv' /\ SeenInv' /\ DownInv' /\ UpInv'
<1> USE DEF ButtonInv
<1>1. /\ pc' \in {"loop", "command"}
      /\ pc' = "loop" => busy' = 0
      /\ UNCHANGED <<held, settling, now, idle, sampled, state, pressTimeMs, buttonEnableAtMs,
                     selStableReleased, selCandidateReleased, selCandidateSinceMs,
                     owed, length, watched>>
  BY DEF HandleApi, CommandDone, BusyInv, user, clock, press, tracking, history
<1>2. Since' = Since /\ Timed' = Timed /\ Ends' = Ends
  BY <1>1, Standing
<1>3. BusyInv' /\ StateInv' /\ GuardInv' /\ NewInv'
  BY <1>1, <1>2 DEF BusyInv, StateInv, GuardInv, NewInv, Acting
<1>4. OwedInv'
  BY <1>1, <1>2 DEF OwedInv, Clear
<1>6. SeenInv'
  BY <1>1, <1>2 DEF SeenInv, Seen, Clear
<1>7. DownInv'
  BY <1>1, <1>2 DEF DownInv, Seen, Fresh
<1>8. UpInv'
  BY <1>1, <1>2 DEF UpInv, Seen, Fresh, Until
<1> QED BY <1>3, <1>4, <1>6, <1>7, <1>8

LEMMA ActStep ==
  ASSUME ButtonInv, Act
  PROVE  /\ BusyInv' /\ StateInv' /\ OwedInv' /\ GuardInv'
         /\ NewInv' /\ SeenInv' /\ DownInv' /\ UpInv'
<1> USE DEF ButtonInv
<1> DEFINE P == BUTTON_POST_ACTION_GUARD_MS
<1>1. /\ pc \in Acting /\ busy = 0 /\ state' = "none" /\ idle' = 0
      /\ buttonEnableAtMs' = (now + P) % Wrap
      /\ pc' \in {"loop", "api"} /\ selCandidateSinceMs' = now
      /\ UNCHANGED <<held, settling, now, busy, sampled, owed, length, watched>>
  BY DEF Act, suppressButtonsFor, rearmSelTracking, Acting, user, history
<1>2. Since' = 0
  BY <1>1, Typed, Difference, Constants DEF Since, Elapsed, Millis
<1>3. Ends' = Wrap - P
  BY <1>1, Typed, EndElapsed, Constants DEF Ends, Elapsed
<1>4. PICK released \in BOOLEAN :
        /\ selStableReleased' = released /\ selCandidateReleased' = released
        /\ settling = 0 => released = ~held
  <2>1. PICK level \in Read : /\ selStableReleased' = (level = "high")
                              /\ selCandidateReleased' = (level = "high")
    BY DEF Act, rearmSelTracking
  <2>2. settling = 0 => (level = "high") = ~held
    BY <2>1, Typed, Constants DEF Read
  <2> DEFINE released == level = "high"
  <2> WITNESS released \in BOOLEAN
  <2> QED BY <2>1, <2>2
<1>5. BusyInv' /\ StateInv' /\ GuardInv'
  BY <1>1, <1>3, Constants DEF BusyInv, StateInv, GuardInv, Acting, Guards
<1>6. OwedInv'
  <2>1. CASE released
    <3>1. selStableReleased' /\ selCandidateReleased'
      BY <1>4, <2>1
    <3>2. owed = 0 => ~held /\ settling = 0
      BY DEF OwedInv
    <3> QED BY <1>1, <3>1, <3>2 DEF OwedInv, Clear
  <2>2. CASE ~released
    <3>1. ~selStableReleased' /\ ~selCandidateReleased'
      BY <1>4, <2>2
    <3>2. owed # 0
      BY <1>4, <2>2 DEF OwedInv
    <3>3. settling <= P
      BY Typed, Constants
    <3>4. Ends' + settling <= Wrap /\ Ends' >= Half
      BY <1>3, <3>3, Typed, Constants
    <3> QED BY <1>1, <3>1, <3>2, <3>4 DEF OwedInv
  <2> QED BY <2>1, <2>2
<1>7. NewInv'
  BY <1>1, <1>2, <1>3, <1>4, Typed, Constants DEF NewInv, BusyInv, Acting
<1>8. SeenInv' /\ DownInv' /\ UpInv'
  BY <1>1, Constants DEF SeenInv, DownInv, UpInv, Seen
<1> QED BY <1>5, <1>6, <1>7, <1>8

LEMMA TickStep ==
  ASSUME ButtonInv, Tick
  PROVE  /\ BusyInv' /\ StateInv' /\ OwedInv' /\ GuardInv'
         /\ NewInv' /\ SeenInv' /\ DownInv' /\ UpInv'
<1> USE DEF ButtonInv
<1>1. /\ (pc = "loop" /\ sampled) \/ busy > 0
      /\ busy' = (IF busy > 0 THEN busy - 1 ELSE 0)
      /\ settling' = (IF settling > 0 THEN settling - 1 ELSE 0)
      /\ ~sampled'
      /\ idle' = (IF idle < Half THEN idle + 1 ELSE idle)
      /\ watched' => /\ watched /\ pc = "loop" /\ idle >= BUTTON_BOOT_GUARD_MS /\ idle < Half
                     /\ length' = IF held /\ length < LengthMax THEN length + 1 ELSE length
      /\ UNCHANGED <<held, pc, state, selStableReleased, selCandidateReleased, owed>>
  <2>1. /\ watched' = (watched /\ pc = "loop" /\ idle \in BUTTON_BOOT_GUARD_MS .. Half - 1)
        /\ length' = IF watched' /\ held /\ length < LengthMax THEN length + 1
                     ELSE IF watched' THEN length ELSE 0
    BY DEF Tick
  <2>2. watched' => /\ watched /\ pc = "loop" /\ idle >= BUTTON_BOOT_GUARD_MS /\ idle < Half
                    /\ length' = IF held /\ length < LengthMax THEN length + 1 ELSE length
    <3> SUFFICES ASSUME watched'
                 PROVE  /\ watched /\ pc = "loop"
                        /\ idle >= BUTTON_BOOT_GUARD_MS /\ idle < Half
                        /\ length' = IF held /\ length < LengthMax THEN length + 1 ELSE length
      OBVIOUS
    <3>1. watched /\ pc = "loop" /\ idle \in BUTTON_BOOT_GUARD_MS .. Half - 1
      BY <2>1, Zenon
    <3>2. length' = IF held /\ length < LengthMax THEN length + 1 ELSE length
      BY <2>1
    <3> QED BY <3>1, <3>2, Constants
  <2> QED BY <2>2 DEF Tick, press, tracking
<1>2. /\ Since' = IF Since = Wrap - 1 THEN 0 ELSE Since + 1
      /\ Timed' = IF Timed = Wrap - 1 THEN 0 ELSE Timed + 1
      /\ Ends' = IF Ends = Wrap - 1 THEN 0 ELSE Ends + 1
  BY Typed, TickElapsed DEF Tick, press, tracking, Since, Timed, Ends, Elapsed
<1>3. BusyInv' /\ StateInv'
  BY <1>1 DEF BusyInv, StateInv, Acting
<1>4. OwedInv'
  BY <1>1, <1>2, Typed, Times, Constants DEF OwedInv, Clear
<1>5. GuardInv'
  <2> SUFFICES ASSUME idle' < Half
               PROVE  GuardInv'
    BY DEF GuardInv
  <2>1. idle < Half /\ idle' = idle + 1 /\ idle \in Nat
    BY <1>1, Typed, Constants
  <2>2. PICK g \in Guards : Ends = IF idle < g THEN (Wrap + idle) - g ELSE idle - g
    BY <2>1 DEF GuardInv
  <2>3. g \in 1 .. Half - 1
    BY <2>2, Constants DEF Guards
  <2>4. Ends' = IF idle' < g THEN (Wrap + idle') - g ELSE idle' - g
    BY <1>2, <2>1, <2>2, <2>3, Constants
  <2> QED BY <2>4 DEF GuardInv, Guards
<1>6. NewInv'
  BY <1>1, Typed, Constants DEF NewInv
<1>7. Seen' => /\ Seen /\ sampled /\ idle < Half /\ idle' = idle + 1
               /\ length' = IF held /\ length < LengthMax THEN length + 1 ELSE length
  <2>1. pc = "loop" => busy = 0
    BY DEF BusyInv
  <2> QED BY <1>1, <2>1, Constants DEF Seen
<1>8. ASSUME Seen'
      PROVE  Ends' < Half /\ Ends' \in Int
  <2>1. idle < Half /\ idle >= BUTTON_BOOT_GUARD_MS /\ idle \in Nat
    BY <1>7, <1>8, Typed DEF Seen
  <2>2. PICK g \in Guards : Ends = IF idle < g THEN (Wrap + idle) - g ELSE idle - g
    BY <2>1 DEF GuardInv
  <2>3. g \in 1 .. Half - 1 /\ g <= BUTTON_BOOT_GUARD_MS
    BY <2>2, Constants DEF Guards
  <2> QED BY <1>2, <2>1, <2>2, <2>3, Constants
<1>9. SeenInv'
  BY <1>1, <1>7, <1>8, Times, Constants DEF SeenInv
<1>10. DownInv'
  BY <1>1, <1>2, <1>7, Typed, Times, Constants DEF DownInv, Fresh
<1>11. UpInv'
  BY <1>1, <1>2, <1>7, Typed, Times, Constants DEF UpInv, Fresh, Until
<1> QED BY <1>3, <1>4, <1>5, <1>6, <1>9, <1>10, <1>11

LEMMA WatchStep ==
  ASSUME ButtonInv, Watch
  PROVE  /\ BusyInv' /\ StateInv' /\ OwedInv' /\ GuardInv'
         /\ NewInv' /\ SeenInv' /\ DownInv' /\ UpInv'
<1> USE DEF ButtonInv
<1> DEFINE timed == Timed
<1>1. /\ pc = "loop" /\ Ends < Half /\ sampled'
      /\ UNCHANGED <<held, settling, now, idle, buttonEnableAtMs, length, watched>>
  <2>1. pc = "loop" /\ ~Negative(buttonEnableAtMs) /\ sampled' = TRUE
    BY DEF Watch
  <2>2. UNCHANGED <<held, settling, now, idle, buttonEnableAtMs, length, watched>>
    BY DEF Watch, user, clock
  <2> QED BY <2>1, <2>2, Times, Constants
<1>2. PICK next \in BOOLEAN :
           /\ settling = 0 => next = ~held
           /\ next # selCandidateReleased =>
                /\ selCandidateReleased' = next /\ selCandidateSinceMs' = now
                /\ selStableReleased' = selStableReleased
           /\ next = selCandidateReleased =>
                /\ selCandidateReleased' = next
                /\ selCandidateSinceMs' = selCandidateSinceMs
                /\ selStableReleased' =
                     IF Since >= SEL_STABLE_MS THEN selCandidateReleased
                                               ELSE selStableReleased
  BY WatchSees DEF Watch
<1>3. /\ next # selCandidateReleased => Since' = 0
      /\ next = selCandidateReleased => Since' = Since
      /\ Ends' = Ends
  BY <1>1, <1>2, Typed, Difference, Standing, Constants DEF Since, Elapsed, Millis
<1>4. \/ /\ Pressed /\ state' = "pressed" /\ Timed' = 0
         /\ pc' \in {"loop", "api"} /\ busy' = busy /\ owed' = owed
      \/ /\ Released /\ state' = "none" /\ Timed' = Timed
         /\ \/ /\ ActionOf(Timed) = "none" /\ pc' \in {"loop", "api"}
               /\ busy' = busy /\ owed' = owed
            \/ /\ ActionOf(Timed) # "none" /\ pc' = ActionOf(Timed) /\ busy' \in 1 .. MaxBusy
               /\ owed' = IF owed > 0 THEN owed - 1 ELSE 0
      \/ /\ ~Pressed /\ ~Released /\ state' = state /\ Timed' = Timed
         /\ pc' \in {"loop", "api"} /\ busy' = busy /\ owed' = owed
  <2>1. UNCHANGED now /\ now \in Millis
    BY <1>1, Typed
  <2>2. pressTimeMs' = now => Timed' = 0
    BY <2>1, Difference, Constants DEF Timed, Elapsed, Millis
  <2>3. pressTimeMs' = pressTimeMs => Timed' = Timed
    BY <2>1, Standing
  <2> QED
    BY <2>2, <2>3 DEF Watch, HandleApiNext, press, Timed
<1>5. BusyInv' /\ StateInv' /\ GuardInv'
  <2>1. BusyInv'
    BY <1>1, <1>4, Constants DEF BusyInv, Acting, ActionOf
  <2>2. StateInv'
    BY <1>1, <1>4, Typed DEF StateInv, Acting, Pressed, Released
  <2>3. GuardInv'
    BY <1>1, <1>3 DEF GuardInv
  <2> QED BY <2>1, <2>2, <2>3
<1>6. OwedInv'
  BY <1>1, <1>2, <1>3, <1>4, Typed, Times, Constants DEF OwedInv, StateInv, Clear, Pressed, Released
<1>7. NewInv'
  BY <1>1, <1>2, <1>3, <1>4, Typed, Times, Constants DEF NewInv, Pressed, Released
<1>8. SeenInv'
  BY <1>1, <1>2, <1>3, <1>4, Typed, Times, Constants DEF SeenInv, Seen, Pressed, Released
<1>9. DownInv'
  BY <1>1, <1>2, <1>3, <1>4, Typed, Times, Constants
  DEF DownInv, SeenInv, Seen, Fresh, Pressed, Released
<1>10. UpInv'
  BY <1>1, <1>2, <1>3, <1>4, Typed, Times, Constants
  DEF UpInv, SeenInv, Seen, Fresh, Until, Pressed, Released, ActionOf
<1> QED BY <1>5, <1>6, <1>7, <1>8, <1>9, <1>10

LEMMA ButtonStep ==
  ASSUME ButtonInv, [ButtonNext]_buttonVars
  PROVE  ButtonInv'
<1>1. ButtonTypeOK'
  BY TypeStep DEF ButtonInv
<1> SUFFICES /\ BusyInv' /\ StateInv' /\ OwedInv' /\ GuardInv'
             /\ NewInv' /\ SeenInv' /\ DownInv' /\ UpInv'
  BY <1>1 DEF ButtonInv
<1>2. CASE Press
  BY <1>2, PressStep
<1>3. CASE Release
  BY <1>3, ReleaseStep
<1>4. CASE Suppressed
  BY <1>4, SuppressedStep
<1>5. CASE Watch
  BY <1>5, WatchStep
<1>6. CASE Act
  BY <1>6, ActStep
<1>7. CASE HandleApi \/ CommandDone
  BY <1>7, ApiStep
<1>8. CASE Tick
  BY <1>8, TickStep
<1>9. CASE UNCHANGED buttonVars
  <2>1. UNCHANGED <<held, settling, now, idle, pc, busy, sampled, state, pressTimeMs,
                    buttonEnableAtMs, selStableReleased, selCandidateReleased,
                    selCandidateSinceMs, owed, length, watched>>
    BY <1>9 DEF buttonVars, user, clock, loopVars, press, tracking, history
  <2>2. Since' = Since /\ Timed' = Timed /\ Ends' = Ends
    BY <2>1, Standing
  <2> QED
    BY <2>1, <2>2 DEF ButtonInv, BusyInv, StateInv, OwedInv, GuardInv, NewInv, SeenInv, DownInv,
                      UpInv, Seen, Fresh, Until, Clear
<1> QED
  BY <1>2, <1>3, <1>4, <1>5, <1>6, <1>7, <1>8, <1>9 DEF ButtonNext, Loop

LEMMA ButtonInvariant == ButtonSpec => []ButtonInv
<1>1. ButtonInv /\ [ButtonNext]_buttonVars => ButtonInv'
  BY ButtonStep
<1> QED BY InvInit, <1>1, PTL DEF ButtonSpec

\* A watched press that was long enough has been acted upon once the loop is done
\* with it, for any times and bounces of the code's order.
THEOREM NoPressLostHolds == ButtonSpec => []NoPressLost
<1>1. ButtonInv => NoPressLost
  <2> SUFFICES ASSUME ButtonInv, watched, Clear, sampled,
                      length >= BUTTON_DEBOUNCE_MS + Bounce
               PROVE  owed = 0
    BY DEF NoPressLost
  <2> USE DEF ButtonInv
  <2>1. Seen
    BY Typed, Constants DEF NewInv, Seen
  <2>2. ~held
    BY <2>1, Typed, Constants DEF DownInv, Clear
  <2> QED BY <2>1, <2>2, Typed, Constants DEF UpInv, Clear
<1> QED BY ButtonInvariant, <1>1, PTL

\* Every action is of a press of its own, and a watched press does what its length
\* says up to the bounces, also when the clock wraps while it is held.
THEOREM ActsAsPressedHolds == ButtonSpec => ActsAsPressed
<1> DEFINE Right == pc \notin Acting /\ pc' \in Acting =>
              /\ owed > 0
              /\ watched =>
                   /\ length >= BUTTON_DEBOUNCE_MS - Bounce
                   /\ (pc' = "basic" => length > BUTTON_LONG_PRESS_MS - Bounce)
                   /\ (pc' = "menu" => length <= BUTTON_LONG_PRESS_MS + Bounce)
<1>1. ASSUME ButtonInv, [ButtonNext]_buttonVars
      PROVE  Right
  <2> SUFFICES ASSUME pc \notin Acting, pc' \in Acting
               PROVE  /\ owed > 0
                      /\ watched =>
                           /\ length >= BUTTON_DEBOUNCE_MS - Bounce
                           /\ (pc' = "basic" => length > BUTTON_LONG_PRESS_MS - Bounce)
                           /\ (pc' = "menu" => length <= BUTTON_LONG_PRESS_MS + Bounce)
    OBVIOUS
  <2> USE <1>1 DEF ButtonInv
  <2>1. Watch
    BY Typed DEF ButtonNext, Loop, Press, Release, Suppressed, Act, HandleApi, CommandDone, Tick,
                 HandleApiNext, loopVars, buttonVars, Acting
  <2>2. /\ Released /\ ActionOf(Timed) # "none" /\ pc' = ActionOf(Timed)
    BY <2>1 DEF Watch, HandleApiNext, Acting, Timed
  <2>3. PICK next \in BOOLEAN :
           /\ settling = 0 => next = ~held
           /\ next # selCandidateReleased => selStableReleased' = selStableReleased
           /\ next = selCandidateReleased =>
                selStableReleased' =
                     IF Since >= SEL_STABLE_MS THEN selCandidateReleased
                                               ELSE selStableReleased
    BY <2>1, WatchSees DEF Watch
  <2>4. state = "pressed" /\ ~selStableReleased /\ selCandidateReleased /\ Since >= SEL_STABLE_MS
    BY <2>2, <2>3, Typed DEF Released, StateInv
  <2>5. owed > 0
    BY <2>4, Typed DEF OwedInv, Clear
  <2>6. ASSUME watched
        PROVE  /\ length < LengthMax => Timed <= length + Bounce
               /\ length <= Timed + Bounce
    <3>1. Seen
      BY <2>4, <2>6, Typed, Constants DEF NewInv, Seen
    <3>2. ~held
      BY <2>4, <3>1 DEF DownInv
    <3> QED BY <2>4, <3>1, <3>2, Typed, Times, Constants DEF UpInv, Fresh
  <2>7. /\ Timed >= BUTTON_DEBOUNCE_MS
        /\ pc' = "basic" => Timed > BUTTON_LONG_PRESS_MS
        /\ pc' = "menu" => Timed <= BUTTON_LONG_PRESS_MS
    BY <2>2, Times, Constants DEF ActionOf
  <2> QED BY <2>5, <2>6, <2>7, Typed, Times, Constants
<1>2. ButtonInv /\ [ButtonNext]_buttonVars => [Right]_buttonVars
  BY <1>1
<1> QED BY ButtonInvariant, <1>2, PTL DEF ButtonSpec, ActsAsPressed
=============================================================================
