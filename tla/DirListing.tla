----------------------------- MODULE DirListing -----------------------------
(***************************************************************************)
(* A directory shown on the C64 one page at a time: the firmware's         *)
(* HandleReadDirectory (CartApi.cpp), which collects the smallest entries  *)
(* above a watermark and remembers watermarks of neighbouring pages, and   *)
(* the menu that asks for the pages.                                       *)
(*                                                                         *)
(* A name is a number that orders it; 0 is the empty name.  The first 15   *)
(* characters of name n are themselves the name KeyOf(n): names n with the *)
(* same KeyOf(n) share those characters, and the multiples of KeyGroup are *)
(* the names that are short enough to be their own key.                    *)
(***************************************************************************)
EXTENDS Integers, FiniteSets, SequencesExt

CONSTANTS Directories,  \* the directories, each a sequence of entries in disk order
          PageSize,     \* numberOfEntries: rows of a page (21 in the menu)
          KeyGroup,     \* how many names share their first 15 characters
          SlotBytes,    \* sizeof(DirSortSlot): 19; its last three bytes are dirIdx and isDir
          CacheRows,    \* rows of the page's dirIdx cache: 21
          BufferBytes,  \* NON_INTERRUPTED_BUFFER_SIZE: 400
          Jumps,        \* other C64 programs ask for any page, not only the menu
          SdFails       \* reading an entry back from the card may fail

Entries == [isDir : BOOLEAN, name : Nat \ {0}]

ASSUME PagingAssumption ==
  /\ PageSize \in Nat /\ PageSize >= 1
  /\ SlotBytes \in Nat /\ CacheRows \in Nat /\ BufferBytes \in Nat
  /\ PageSize <= CacheRows /\ SlotBytes >= 3 /\ 2 * CacheRows <= BufferBytes
  /\ KeyGroup \in Nat /\ KeyGroup >= 1
  /\ Jumps \in BOOLEAN /\ SdFails \in BOOLEAN
  /\ \A d \in Directories :
       /\ d \in Seq(Entries) /\ Len(d) < 65535
       /\ \A i \in DOMAIN d : d[i].name >= KeyGroup
       /\ \A i, j \in DOMAIN d : d[i].name = d[j].name => i = j

NoPage == -1       \* 0xFF in s_sortCachedPage and s_pageEntryPage
NoEntry == 65535   \* INVALID_DIR_IDX

VARIABLES dir, inSubDir,       \* the directory and whether ".." heads it
          wm, wmPrev, wmPp,    \* s_wm_name, s_wm_prev_name, s_wm_pp_name with isDir
          cachedPage,          \* s_sortCachedPage
          pageIdx, pagePage,   \* the page's dirIdx cache and s_pageEntryPage
          curPage,             \* the menu's CURPAGEINDEX
          items, pageCount,    \* CURPAGEITEMS and PAGECOUNT as received
          rows,                \* the names received with them
          trail                \* history: how the page was reached, see Trail

firmwareVars == <<wm, wmPrev, wmPp, cachedPage, pageIdx, pagePage>>
screenVars == <<curPage, items, pageCount, rows, trail>>
vars == <<dir, inSubDir, firmwareVars, screenVars>>

-----------------------------------------------------------------------------
(* Order, keys and the slots of a page (DirSort.h).                         *)

KeyOf(name) == name - (name % KeyGroup)

\* cmpDirEntry(a, b) < 0
Before(a, b) == IF a.isDir # b.isDir THEN a.isDir ELSE a.name < b.name

\* A page is collected in slots sorted by key that keep the cap smallest ones;
\* equal keys stay in the order they arrive.  The larger slots are shifted right.
SortSlotInsert(slots, cap, slot) ==
  LET full == Len(slots) = cap
      kept == IF full THEN Front(slots) ELSE slots
      position == CHOOSE i \in 1 .. Len(kept) + 1 :
                    /\ \A j \in i .. Len(kept) : Before(slot, kept[j])
                    /\ i > 1 => ~Before(slot, kept[i - 1])
  IN IF full /\ ~Before(slot, Last(slots))
     THEN slots
     ELSE InsertAt(kept, position, slot)

\* Mutant of Above: the watermark itself is taken again.
AboveOrAt(mark, e) == ~Before(e, mark)

\* Only entries strictly greater than the watermark belong on a page.
Above(mark, e) == Before(mark, e)

\* One pass over the directory: the slots of the entries above mark.
SlotOf(i) == [isDir |-> dir[i].isDir, name |-> KeyOf(dir[i].name), idx |-> i]

Scan(mark, cap) ==
  LET slots[i \in 0 .. Len(dir)] ==
        IF i = 0 THEN << >>
        ELSE IF Above(mark, dir[i]) THEN SortSlotInsert(slots[i - 1], cap, SlotOf(i))
        ELSE slots[i - 1]
  IN IF cap = 0 THEN << >> ELSE slots[Len(dir)]

-----------------------------------------------------------------------------
(* How many entries a page has.                                             *)

Bottom == [isDir |-> TRUE, name |-> 0]     \* the watermark of page 0

GetCount == Len(dir) + (IF inSubDir THEN 1 ELSE 0)

\* Mutant of ItemsOn: the items left are not capped to a page.
ItemsLeft(p) ==
  LET left == GetCount - PageSize * p
  IN IF left <= 0 THEN 0 ELSE left

ItemsOn(p) ==
  LET left == GetCount - PageSize * p
  IN IF left <= 0 THEN 0 ELSE IF left < PageSize THEN left ELSE PageSize
Pages == (GetCount \div PageSize) + (IF GetCount % PageSize > 0 THEN 1 ELSE 0)
DotDotOn(p) == inSubDir /\ p = 0

\* Mutant of ScanTarget: the row of ".." is filled with an entry too.
ScanTargetWithDotDot(p) == ItemsOn(p)

ScanTarget(p) == ItemsOn(p) - (IF DotDotOn(p) THEN 1 ELSE 0)

-----------------------------------------------------------------------------
(* The watermarks a page is read with: name is where the scan starts, prev  *)
(* and pp what is remembered of the pages before.                           *)

Chain(name, prev, pp) == [name |-> name, prev |-> prev, pp |-> pp]

\* What is sent of the entry in a slot.  The entries of unread could not be read
\* back by their index: their truncated key takes the place of the name.
SentOf(slot, unread) ==
  [isDir |-> slot.isDir,
   name |-> IF slot.idx \in unread THEN slot.name ELSE dir[slot.idx].name]

\* The watermark left behind by the slots of a page that was read with mark.
MarkAfter(mark, slots, unread) ==
  IF slots = << >> THEN mark ELSE SentOf(Last(slots), unread)

\* Pages 0 .. p-1 are scanned again to find where page p starts; page q is one.
Advance(c, q, unread) ==
  IF c.stop THEN c
  ELSE IF ScanTarget(q) = 0 THEN [c EXCEPT !.before = c.name, !.stop = TRUE]
  ELSE [c EXCEPT !.before = c.name,
                 !.name = MarkAfter(c.name, Scan(c.name, ScanTarget(q)), unread)]

Rebuild(p, unread) ==
  LET reached[q \in 0 .. p] ==
        IF q = 0 THEN [name |-> Bottom, before |-> Bottom, stop |-> FALSE]
        ELSE Advance(reached[q - 1], q - 1, unread)
  IN Chain(reached[p].name, reached[p].name, reached[p].before)

\* Mutant of StepBack: the chain is shifted before pp is saved.
StepBackShiftedFirst == Chain(wmPrev, wmPrev, wmPrev)

StepBack == Chain(wmPp, wmPp, wmPrev)

WatermarkSetup(p, unread) ==
  IF p = 0 THEN Chain(Bottom, Bottom, Bottom)
  ELSE IF cachedPage # NoPage /\ p = cachedPage + 1 THEN Chain(wm, wm, wmPrev)
  ELSE IF p = cachedPage THEN Chain(wmPrev, wmPrev, wmPrev)
  ELSE IF cachedPage > 0 /\ p = cachedPage - 1 THEN StepBack
  ELSE Rebuild(p, unread)

\* The page's dirIdx cache takes the last 2 * CacheRows bytes of the buffer that
\* also holds the slots, in 16-bit values with the low byte first.  Every row of
\* it is cleared before the slots are copied into it.
CacheOffset == BufferBytes - 2 * CacheRows

CacheByte(cache, offset) ==
  LET row == offset \div 2
      entry == IF row < Len(cache) THEN cache[row + 1] ELSE NoEntry
  IN IF offset % 2 = 0 THEN entry % 256 ELSE entry \div 256

\* slots[n-1].dirIdx as it is read for the copy, after the rows of cache have
\* been written: what lies in the cache's bytes is the cache's by then.
SlotByte(cache, address, own) ==
  IF address < CacheOffset THEN own ELSE CacheByte(cache, address - CacheOffset)
SlotIdx(cache, n, idx) ==
  SlotByte(cache, SlotBytes * n - 3, idx % 256)
    + 256 * SlotByte(cache, SlotBytes * n - 2, idx \div 256)

CopiedAfter(heading, slots) ==
  LET cache[n \in 0 .. Len(slots)] ==
        IF n = 0 THEN heading
        ELSE Append(cache[n - 1], SlotIdx(cache[n - 1], n, slots[n].idx))
  IN cache[Len(slots)]

\* Mutant of CachedIndices: the row of ".." is not counted.
CachedIndicesOfSlots(p, slots) == CopiedAfter(<< >>, slots)

\* The dirIdx cache of a page; the row of ".." has no entry.
CachedIndices(p, slots) ==
  CopiedAfter(IF DotDotOn(p) THEN <<NoEntry>> ELSE << >>, slots)

\* How page p is reached (a history of the requests, no state of the code):
\* "fresh" on page 0, by a jump, and by a step forward; "retraced" by one step
\* back or a reload of the page; "lost" by another step back, until page 0 or a
\* jump.
Trail(p) ==
  IF p = 0 \/ p \notin curPage - 1 .. curPage + 1 THEN "fresh"
  ELSE IF trail = "lost" THEN "lost"
  ELSE IF p = curPage + 1 THEN "fresh"
  ELSE IF p = curPage \/ trail = "fresh" THEN "retraced"
  ELSE "lost"

\* HandleReadDirectory for page p.
HandleReadDirectory(p, unread) ==
  LET chain == WatermarkSetup(p, unread)
      slots == Scan(chain.name, ScanTarget(p))
  IN /\ wm' = MarkAfter(chain.name, slots, unread)
     /\ wmPrev' = chain.prev
     /\ wmPp' = chain.pp
     /\ cachedPage' = p
     /\ pageIdx' = CachedIndices(p, slots)
     /\ pagePage' = p
     /\ curPage' = p
     /\ items' = ItemsOn(p)
     /\ pageCount' = Pages % 256
     /\ rows' = [i \in DOMAIN slots |-> SentOf(slots[i], unread)]

\* Bound: at most two entries are lost to one reading.
Losses == {{}} \cup (IF SdFails THEN {{i, j} : i, j \in DOMAIN dir} ELSE {})

ReadPage(p) ==
  \E unread \in Losses :
    /\ HandleReadDirectory(p, unread)
    /\ trail' = Trail(p)
    /\ UNCHANGED <<dir, inSubDir>>

-----------------------------------------------------------------------------
(* The menu.                                                                *)

\* The firmware has booted; the menu has not asked for a page yet.
Init ==
  /\ dir \in Directories
  /\ inSubDir \in BOOLEAN
  /\ wm = Bottom /\ wmPrev = Bottom /\ wmPp = Bottom
  /\ cachedPage = NoPage
  /\ pageIdx = << >> /\ pagePage = NoPage
  /\ curPage = 0
  /\ items = 0 /\ pageCount = 1
  /\ rows = << >>
  /\ trail = "fresh"

\* At start and after every change of directory the menu asks for page 0.
FirstPage == pagePage = NoPage /\ ReadPage(0)

Listed == pagePage # NoPage
NextPage == Listed /\ curPage + 1 < pageCount /\ ReadPage(curPage + 1)
PrevPage == Listed /\ curPage > 0 /\ ReadPage(curPage - 1)

\* A C64 program with a listing of its own asks for any page that exists.
JumpTo(p) == Jumps /\ Listed /\ ReadPage(p)

\* A successful change of directory drops the page's dirIdx cache and keeps
\* the watermarks.
ChangeDirectory ==
  /\ Listed
  /\ dir' \in Directories
  /\ inSubDir' \in BOOLEAN
  /\ pageIdx' = << >>
  /\ pagePage' = NoPage
  /\ UNCHANGED <<wm, wmPrev, wmPp, cachedPage, screenVars>>

Next ==
  \/ FirstPage
  \/ NextPage
  \/ PrevPage
  \/ \E p \in 0 .. pageCount - 1 : JumpTo(p)
  \/ ChangeDirectory

Spec == Init /\ [][Next]_vars

-----------------------------------------------------------------------------
(* What the listing should be.                                              *)

\* The place of an entry in display order, directories first, counted from 0.
Rank(e) == Cardinality({i \in DOMAIN dir : Before(dir[i], e)})

\* How many entries come before page p: the "..", which heads page 0 of a
\* subdirectory, takes a place there.
Offset(p) == IF p = 0 THEN 0 ELSE PageSize * p - (IF inSubDir THEN 1 ELSE 0)
EntriesBefore(p) == IF Offset(p) < Len(dir) THEN Offset(p) ELSE Len(dir)

\* The rows are the page's entries in their order, and their number is told.
RowsRight ==
  /\ Len(rows) = EntriesBefore(curPage + 1) - EntriesBefore(curPage)
  /\ \A r \in DOMAIN rows :
       /\ \E i \in DOMAIN dir : rows[r] = dir[i]
       /\ Rank(rows[r]) = Offset(curPage) + r - 1
  /\ items = Len(rows) + (IF DotDotOn(curPage) THEN 1 ELSE 0)

\* The entries that a watermark leaves behind.
UpTo(mark) == {i \in DOMAIN dir : ~Above(mark, dir[i])}
Count(mark) == Cardinality(UpTo(mark))

\* The directory of a rank among all directories, compared by their names.
DirectoriesRanked(rank) ==
  {dir[i].name : i \in {k \in DOMAIN dir :
     /\ dir[k].isDir
     /\ Cardinality({j \in DOMAIN dir : dir[j].isDir /\ dir[j].name < dir[k].name}) = rank}}

\* Mutant of FindDirectoryNameByVisibleIndex: ".." is not counted.
FindDirectoryNameWithoutDotDot(visible) ==
  IF DirectoriesRanked(visible) = {} THEN 0 ELSE CHOOSE n \in DirectoriesRanked(visible) : TRUE

\* The name HandleChangeDirectoryIndex resolves a row to.
FindDirectoryNameByVisibleIndex(visible) ==
  LET found == DirectoriesRanked(visible - (IF inSubDir THEN 1 ELSE 0))
  IN IF found = {} THEN 0 ELSE CHOOSE name \in found : TRUE

\* The index of the entry INVOKE_WITH_INDEX launches, or NoEntry: the page must
\* be the one whose indices are cached.
InvokeWithIndex(page, row) ==
  IF pagePage = page /\ row < Len(pageIdx) THEN pageIdx[row + 1] ELSE NoEntry

\* The row, counted from 0, that shows the r-th received name.
RowOf(r) == IF DotDotOn(curPage) THEN r ELSE r - 1

-----------------------------------------------------------------------------
(* Properties.                                                              *)

\* Every variable holds values of its kind.
TypeOK ==
  /\ dir \in Directories /\ inSubDir \in BOOLEAN
  /\ {wm, wmPrev, wmPp} \subseteq Entries \cup {Bottom}
  /\ cachedPage \in Nat \cup {NoPage} /\ pagePage \in Nat \cup {NoPage}
  /\ pageIdx \in Seq(0 .. NoEntry)
  /\ curPage \in Nat /\ items \in 0 .. PageSize /\ pageCount \in 0 .. 255
  /\ rows \in Seq(Entries)
  /\ trail \in {"fresh", "retraced", "lost"}

\* Every name is its own sort key.
OwnKeys == \A i \in DOMAIN dir : KeyOf(dir[i].name) = dir[i].name

\* The screen shows the page it says it shows, each entry of the directory in
\* its place, none missing, none twice, over any number of pages and whatever
\* could not be read back (HandleReadDirectory and its three watermarks).  The
\* conditions are those of the code: no two names share a key, and no more than
\* one step back or reload since the last step forward, jump or page 0.  (The
\* page reached by two steps back is read from a watermark of another page.)
PageShown == Listed /\ OwnKeys /\ trail # "lost" => RowsRight

\* From a right page, a step forward, a jump elsewhere and the return to page
\* 0 show a right page: the watermark left behind is the end of the page, also
\* when an entry could not be read back.  (A step back and a reload use
\* remembered watermarks, and names that share a key can be lost at the end of
\* a page.)
ForwardStaysRight ==
  [][OwnKeys /\ RowsRight /\ Listed /\ Listed' /\ (curPage' > curPage \/ curPage' < curPage - 1)
       => RowsRight']_vars

\* The row of the r-th received name launches the entry it shows.
OpensShown(r) ==
  LET index == InvokeWithIndex(curPage, RowOf(r))
  IN /\ index \in DOMAIN dir
     /\ dir[index].isDir = rows[r].isDir
     /\ rows[r].name \in {dir[index].name, KeyOf(dir[index].name)}

\* The dirIdx of the r-th slot lies before the cache.
Untouched(r) == SlotBytes * r - 2 < CacheOffset

\* A row whose slot lies before the cache (18 of the 21) launches the entry it
\* shows: the cached dirIdx that INVOKE_WITH_INDEX takes for a row is the index
\* of the entry sent for that row, whichever page is shown, on whichever way it
\* was reached, and when an entry could not be read back and its truncated key
\* was sent.
RowOpensShown == Listed => \A r \in DOMAIN rows : Untouched(r) => OpensShown(r)

\* Every row of a page launches the entry it shows: INVOKE_WITH_INDEX is the
\* "launch by current page + row index" of CartApi.h.
EveryRowOpensShown == Listed => \A r \in DOMAIN rows : OpensShown(r)

\* CHANGE_DIR_INDEX, which compares full names, enters the directory shown on
\* the row it names, though the page was sorted by keys and collected from a
\* watermark; under the conditions of PageShown.
RowEntersShown ==
  Listed /\ OwnKeys /\ trail # "lost" =>
    \A r \in DOMAIN rows :
      rows[r].isDir =>
        FindDirectoryNameByVisibleIndex(PageSize * curPage + RowOf(r)) = rows[r].name
=============================================================================
