-------------------------------- MODULE Browse --------------------------------
(***************************************************************************)
(* Walking through the directories of the card and starting what they      *)
(* hold: the firmware's current directory (DirFunction.cpp), the commands  *)
(* that move it (CartApi.cpp: CHANGE_DIR, OPEN_FILE and INVOKE_WITH_NAME   *)
(* of an absolute path, INVOKE_WITH_INDEX, the return to the menu), and    *)
(* the menu, whose screen stays as it is when a command fails.             *)
(*                                                                         *)
(* A path is a sequence of names.  DirListing says how a directory is      *)
(* shown page by page; here a screen holds the rows of the whole directory *)
(* as a set, and a row carries the index its launch will use.  Names are   *)
(* resolved exactly.                                                       *)
(***************************************************************************)
EXTENDS Integers, Sequences

CONSTANTS Cards,      \* the SD cards: their directories and what is wrong with them
          MaxDepth    \* directories in a path of 63 characters

PLUGINS == <<"PLUGINS">>
Types == {"dir", "prg", "koa", "wav"}
PluginOf == [type \in {"koa", "wav"} |-> IF type = "koa" THEN "KOAPLUGIN" ELSE "WAVPLUGIN"]
Entries == [name : STRING, type : Types, hidden : BOOLEAN]
Closed == <<"closed", 0>>    \* no path: m_dirFile is not open

\* The directory that holds the i-th directory of a path.
ParentOf(path, i) == SubSeq(path, 1, i - 1)

\* A card: the entries of each directory in disk order; whether every access to
\* it succeeds; whether its pictures have the size of a Koala picture.  Its
\* directories are the root and those with an entry in another.
ASSUME BrowseAssumption ==
  /\ MaxDepth \in Nat /\ MaxDepth >= Len(PLUGINS)
  /\ \A c \in Cards :
       /\ c.reliable \in BOOLEAN /\ c.picturesValid \in BOOLEAN
       /\ << >> \in DOMAIN c.disk /\ Closed \notin DOMAIN c.disk
       /\ DOMAIN c.disk \subseteq Seq(STRING)
       /\ \A p \in DOMAIN c.disk :
            /\ c.disk[p] \in Seq(Entries)
            /\ \A i \in DOMAIN c.disk[p] :
                 c.disk[p][i].type = "dir" => Append(p, c.disk[p][i].name) \in DOMAIN c.disk
            /\ \A i \in DOMAIN p :
                 /\ ParentOf(p, i) \in DOMAIN c.disk
                 /\ \E k \in DOMAIN c.disk[ParentOf(p, i)] :
                      /\ c.disk[ParentOf(p, i)][k].type = "dir"
                      /\ c.disk[ParentOf(p, i)][k].name = p[i]

VARIABLES card,
          nav,        \* cwd of the SdFat volume, currentPath, and handle (m_dirFile)
          menu,       \* "reading" a directory, "browsing", with a plugin "opened",
                      \* "hung", or "away" when another program runs
          screen,     \* the path and the rows on the screen
          chosen,     \* the row whose plugin is opened
          launched    \* history: the file chosen last and the file that was started

vars == <<card, nav, menu, screen, chosen, launched>>

NoRow == [name |-> "", type |-> "dir", index |-> 0]
DotDot == [name |-> "..", type |-> "dir", index |-> 0]
Nothing == [chosen |-> << >>, ran |-> << >>]

-----------------------------------------------------------------------------
(* The card.                                                                *)

EntriesNamed(path, name) ==
  {card.disk[path][i] : i \in {k \in DOMAIN card.disk[path] : card.disk[path][k].name = name}}
HasDir(path, name) == \E e \in EntriesNamed(path, name) : e.type = "dir"
HasFile(path, name) == \E e \in EntriesNamed(path, name) : e.type # "dir"

\* How many directories of a path, and whether a file, can be read.
Reads == IF card.reliable THEN {MaxDepth} ELSE 0 .. MaxDepth
Opens == IF card.reliable THEN {TRUE} ELSE BOOLEAN

-----------------------------------------------------------------------------
(* DirFunction: each operator gives the outcome and the new nav.            *)

\* Mutant of At: the handle stays on the directory left.
AtUnsynced(cwd, currentPath) ==
  [cwd |-> cwd, currentPath |-> currentPath, handle |-> ParentOf(cwd, Len(cwd))]

\* ResyncDirFromCwd: the handle follows the volume.
At(cwd, currentPath) == [cwd |-> cwd, currentPath |-> currentPath, handle |-> cwd]

ToRoot == At(<< >>, << >>)

\* Mutants of ChangeDirectory: the path is not rolled back; its length is not
\* checked.
ChangeDirectoryWithoutRollback(n, name, opens) ==
  IF Len(n.currentPath) < MaxDepth /\ opens /\ HasDir(n.cwd, name)
  THEN [ok |-> TRUE, nav |-> At(Append(n.cwd, name), Append(n.currentPath, name))]
  ELSE [ok |-> FALSE, nav |-> [n EXCEPT !.currentPath = Append(@, name)]]
ChangeDirectoryUnchecked(n, name, opens) ==
  IF opens /\ HasDir(n.cwd, name)
  THEN [ok |-> TRUE, nav |-> At(Append(n.cwd, name), Append(n.currentPath, name))]
  ELSE [ok |-> FALSE, nav |-> n]

ChangeDirectory(n, name, opens) ==
  IF Len(n.currentPath) < MaxDepth /\ opens /\ HasDir(n.cwd, name)
  THEN [ok |-> TRUE, nav |-> At(Append(n.cwd, name), Append(n.currentPath, name))]
  ELSE [ok |-> FALSE, nav |-> n]

\* From the root, segment by segment; a failure leaves the root.
NavigateToPath(path, reads) ==
  LET walk[i \in 0 .. Len(path)] ==
        IF i = 0 THEN [ok |-> TRUE, nav |-> ToRoot]
        ELSE LET walked == walk[i - 1]
             IN IF walked.ok THEN ChangeDirectory(walked.nav, path[i], i <= reads) ELSE walked
      arrived == walk[Len(path)]
  IN IF arrived.ok THEN arrived ELSE [ok |-> FALSE, nav |-> ToRoot]

GoBack(n, reads) ==
  IF n.currentPath = << >> THEN [ok |-> FALSE, nav |-> n]
  ELSE NavigateToPath(ParentOf(n.currentPath, Len(n.currentPath)), reads)

InSubDir == nav.currentPath # << >>

-----------------------------------------------------------------------------
(* CartApi: the commands.  there and back are the two walks a handler makes. *)

\* OPEN_FILE of an absolute path.  (Mutant: the way back is left out.)
HandleOpenFileWithoutRestore(path, name, there, back, opens) ==
  LET arrived == NavigateToPath(path, there)
  IN [ok |-> arrived.ok /\ opens /\ HasFile(path, name), nav |-> arrived.nav]

HandleOpenFile(path, name, there, back, opens) ==
  LET arrived == NavigateToPath(path, there)
  IN IF ~arrived.ok
     THEN [ok |-> FALSE, nav |-> arrived.nav]
     ELSE [ok |-> opens /\ HasFile(path, name),
           nav |-> IF nav.currentPath = arrived.nav.currentPath THEN arrived.nav
                   ELSE NavigateToPath(nav.currentPath, back).nav]

\* INVOKE_WITH_NAME of an absolute path: only a file that is not hidden is found.
HandleInvokeWithName(path, name, there, back, opens) ==
  LET arrived == NavigateToPath(path, there)
  IN IF ~arrived.ok
     THEN [ok |-> FALSE, nav |-> arrived.nav]
     ELSE IF opens /\ \E e \in EntriesNamed(path, name) : e.type # "dir" /\ ~e.hidden
     THEN [ok |-> TRUE, nav |-> [arrived.nav EXCEPT !.handle = Closed]]
     ELSE [ok |-> FALSE, nav |-> NavigateToPath(nav.currentPath, back).nav]

\* INVOKE_WITH_INDEX: the entry is looked up in the directory of the handle, which
\* is closed before a picture and its plugin are examined.
HandleInvokeWithIndex(index, opens, pluginOpens) ==
  LET openable == /\ nav.handle # Closed /\ opens
                  /\ index \in DOMAIN card.disk[nav.handle]
                  /\ card.disk[nav.handle][index].type # "dir"
      entry == card.disk[nav.handle][index]
      pictureFits == card.picturesValid /\ pluginOpens
                     /\ PLUGINS \in DOMAIN card.disk /\ HasFile(PLUGINS, PluginOf["koa"])
  IN IF ~openable THEN [ok |-> FALSE, nav |-> nav, ran |-> << >>]
     ELSE [ok |-> entry.type = "koa" => pictureFits,
           nav |-> [nav EXCEPT !.handle = Closed],
           ran |-> Append(nav.handle, entry.name)]

\* The rows of a listing: ".." and the entries that are not hidden.
RowAt(path, i) ==
  [name |-> card.disk[path][i].name, type |-> card.disk[path][i].type, index |-> i]
RowsOf(path) ==
  {RowAt(path, i) : i \in {k \in DOMAIN card.disk[path] : ~card.disk[path][k].hidden}}
Listing(handle, dotdot) ==
  (IF dotdot THEN {DotDot} ELSE {}) \cup (IF handle = Closed THEN {} ELSE RowsOf(handle))

-----------------------------------------------------------------------------
(* The menu.                                                                *)

Init ==
  /\ card \in Cards
  /\ nav = ToRoot
  /\ menu = "reading"
  /\ screen = [path |-> << >>, rows |-> {}]
  /\ chosen = NoRow
  /\ launched = Nothing

\* READ_DIR, and GET_PATH for the header.
ReadDirectory ==
  /\ menu = "reading"
  /\ screen' = [path |-> nav.currentPath, rows |-> Listing(nav.handle, InSubDir)]
  /\ menu' = "browsing"
  /\ UNCHANGED <<card, nav, chosen, launched>>

TurnPage ==
  /\ menu = "browsing"
  /\ menu' = "reading"
  /\ UNCHANGED <<card, nav, screen, chosen, launched>>

\* A row of a directory; a failure leaves the screen as it is.
EnterDirectory(row) ==
  /\ menu = "browsing" /\ row.type = "dir" /\ row # DotDot
  /\ \E opens \in Opens :
       LET cd == ChangeDirectory(nav, row.name, opens)
       IN nav' = cd.nav /\ menu' = IF cd.ok THEN "reading" ELSE "browsing"
  /\ UNCHANGED <<card, screen, chosen, launched>>

LeaveDirectory(row) ==
  /\ menu = "browsing" /\ row = DotDot
  /\ \E reads \in Reads :
       LET cd == GoBack(nav, reads)
       IN nav' = cd.nav /\ menu' = IF cd.ok THEN "reading" ELSE "browsing"
  /\ UNCHANGED <<card, screen, chosen, launched>>

\* A program is started with the display off: when that fails the menu stays in
\* an endless loop.  The error status of a picture is so short that the menu may
\* miss it and wait for ever.
LaunchRow(row) ==
  /\ menu = "browsing" /\ row.type \in {"prg", "koa"}
  /\ \E opens, pluginOpens \in Opens :
       LET invoked == HandleInvokeWithIndex(row.index, opens, pluginOpens)
       IN /\ nav' = invoked.nav
          /\ \/ /\ invoked.ok
                /\ menu' = "away"
                /\ launched' = [chosen |-> Append(screen.path, row.name), ran |-> invoked.ran]
             \/ /\ ~invoked.ok
                /\ menu' = "hung"
                /\ UNCHANGED launched
             \/ /\ ~invoked.ok /\ row.type = "koa"
                /\ menu' = "browsing"
                /\ UNCHANGED launched
  /\ UNCHANGED <<card, screen, chosen>>

\* A row that needs a plugin: the plugin is opened and closed to see whether it
\* is there.
OpenPlugin(row) ==
  /\ menu = "browsing" /\ row.type = "wav"
  /\ \E there, back \in Reads, opens \in Opens :
       LET opened == HandleOpenFile(PLUGINS, PluginOf[row.type], there, back, opens)
       IN /\ nav' = opened.nav
          /\ menu' = IF opened.ok THEN "opened" ELSE "browsing"
          /\ chosen' = IF opened.ok THEN row ELSE chosen
  /\ UNCHANGED <<card, screen, launched>>

\* GET_PATH names the file to play, and the plugin is invoked; the menu waits in
\* an endless loop for it to start.
StartPlugin ==
  /\ menu = "opened"
  /\ \E there, back \in Reads, opens \in Opens :
       LET invoked == HandleInvokeWithName(PLUGINS, PluginOf[chosen.type], there, back, opens)
       IN /\ nav' = invoked.nav
          /\ menu' = IF invoked.ok THEN "away" ELSE "hung"
          /\ launched' = IF invoked.ok
                         THEN [chosen |-> Append(screen.path, chosen.name),
                               ran |-> Append(nav.currentPath, chosen.name)]
                         ELSE launched
  /\ chosen' = NoRow
  /\ UNCHANGED <<card, screen>>

\* SEL is pressed, or a program exits to the menu: the menu is loaded again.
TransferMenu ==
  /\ nav' = ToRoot
  /\ menu' = "reading"
  /\ chosen' = NoRow /\ launched' = Nothing
  /\ UNCHANGED <<card, screen>>

Next ==
  \/ ReadDirectory
  \/ TurnPage
  \/ \E row \in screen.rows :
       EnterDirectory(row) \/ LeaveDirectory(row) \/ LaunchRow(row) \/ OpenPlugin(row)
  \/ StartPlugin
  \/ TransferMenu

Spec == Init /\ [][Next]_vars

-----------------------------------------------------------------------------
(* Properties.                                                              *)

\* Every variable holds values of its kind; the path fits its buffer.
TypeOK ==
  /\ card \in Cards
  /\ {nav.cwd, nav.currentPath} \subseteq DOMAIN card.disk
  /\ Len(nav.currentPath) <= MaxDepth
  /\ nav.handle \in DOMAIN card.disk \cup {Closed}
  /\ menu \in {"reading", "browsing", "opened", "hung", "away"}
  /\ screen.path \in DOMAIN card.disk

\* The path the menu is told is the directory the volume is in, and the handle is
\* that directory or closed, whatever walk failed at whatever step.
PathMirrorsCwd ==
  /\ nav.currentPath = nav.cwd
  /\ nav.handle \in {nav.cwd, Closed}

HasPlugins == PLUGINS \in DOMAIN card.disk

\* What a row of the screen starts, or what its plugin is told to play, is the
\* file shown on it.
RowStartsShown == launched.ran = launched.chosen

\* On a card that can be read and has a folder of plugins, a row always starts
\* what it shows, whatever failed before: a plugin or a picture may be missing.
LaunchesShown == card.reliable /\ HasPlugins => RowStartsShown

\* A card that can be read, has its plugins, not hidden, and right pictures.
Complete ==
  /\ card.reliable /\ HasPlugins /\ card.picturesValid
  /\ \A type \in DOMAIN PluginOf :
       \E e \in EntriesNamed(PLUGINS, PluginOf[type]) : e.type = "prg" /\ ~e.hidden

\* On a complete card, the listing under a path is the whole of that directory,
\* and the menu never gives up its screen for a program that does not start.
CompleteCardServes ==
  Complete =>
    /\ menu # "hung"
    /\ menu = "browsing" => screen.rows = Listing(screen.path, screen.path # << >>)

=============================================================================
