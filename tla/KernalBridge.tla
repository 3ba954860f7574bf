---------------------------- MODULE KernalBridge -----------------------------
(***************************************************************************)
(* The bridge that loads a program and then serves its file calls           *)
(* (Loader/Bridges/KernalBridge/KernalBridge.s, LoadFileBySize of           *)
(* CartLibHi.s), with the file commands of CartApi.cpp it uses.  It lies in *)
(* the C64's memory from BRIDGE on.  A program that does not reach there is *)
(* loaded at once; another one in two phases, the second of which           *)
(* overwrites the bridge.                                                   *)
(*                                                                         *)
(* The C64 waits for each command, so that a call and its handlers are one  *)
(* step.  Words and pages are of 16 and 8 bits; the instance's are smaller. *)
(***************************************************************************)
EXTENDS Integers, FiniteSets

CONSTANTS Page,          \* bytes of a page, 256
          Words,         \* addresses, 2^16
          BRIDGE,        \* $C000
          LOW,           \* $0800: below are the stack, vectors and the wait stub
          BUFFER_SIZE,   \* bytes read from the card at a time
          Programs,      \* [start, size]: PRG files
          DataFiles,     \* sizes of the files a program may open
          CardFails      \* whether the card may fail

ASSUME BridgeAssumption ==
  /\ {Page, Words, BUFFER_SIZE, LOW, BRIDGE} \subseteq Nat \ {0}
  /\ Words % Page = 0 /\ BRIDGE % Page = 0 /\ LOW % Page = 0 /\ Page % BUFFER_SIZE = 0
  /\ LOW < BRIDGE /\ BRIDGE + 2 * Page <= Words /\ Page > 3 /\ BUFFER_SIZE > 1
  /\ Programs \subseteq [start : LOW .. Words - 1, size : Nat \ {0, 1}]
  /\ DataFiles \subseteq Nat /\ CardFails \in BOOLEAN

Addresses == 0 .. Words - 1
None == [kind |-> "none"]
TheProgram == [kind |-> "program"]
Data(size) == [kind |-> "data", size |-> size]
Pad == -1

VARIABLES program,            \* the program chosen in the menu
          inSession,          \* the firmware's receiver is IN_TRANSMISSION
          workingFile, pos,   \* the firmware's file and its position
          pc,                 \* where the C64 is
          start,              \* STARTADDRESS
          mem,                \* what was loaded: the place in the file, or Pad
          openedLength, fileIndex, buffer,   \* of the file calls
          channel,            \* the file the program reads
          heard, status,      \* what the last CHRIN returned
          count,              \* history: bytes returned since the OPEN
          lostAt              \* history: fileIndex of the page the card failed in

loading == <<program, start, mem>>
reading == <<openedLength, fileIndex, buffer>>
result == <<heard, status>>
history == <<count, lostAt>>
vars == <<program, inSession, workingFile, pos, pc, start, mem, reading, channel, result,
          history>>

SizeOf(f) == IF f = TheProgram THEN program.size ELSE f.size
NoLoss == -1

-----------------------------------------------------------------------------
(* The firmware.                                                            *)

\* Mutant of HandleOpenFile: the position of the last file is kept.
HandleOpenFileKeepingPos(f) == workingFile' = f /\ UNCHANGED pos
HandleOpenFile(f) == workingFile' = f /\ pos' = 0
OpenFails == CardFails /\ workingFile' = None /\ UNCHANGED pos

\* What a read of n bytes gives: how many are of the file; the rest is zeros.  A
\* failing card gives up between two reads.
Want(n, from) == IF from + n > SizeOf(workingFile) THEN SizeOf(workingFile) - from ELSE n
Goods(n, from) ==
  {Want(n, from)}
    \cup (IF CardFails THEN {g \in 0 .. Want(n, from) - 1 : g % BUFFER_SIZE = 0} ELSE {})

\* HandleReadFile, after its last byte: a file that failed is closed.
AfterRead(n, from, good) ==
  /\ pos' = from + good
  /\ workingFile' = IF good < Want(n, from) THEN None ELSE workingFile

IsOpen == workingFile # None

-----------------------------------------------------------------------------
(* The addresses and lengths of MAIN, in 16 bits; pages in 8.               *)

\* Mutant of Word: lengths are kept in full.
WordInFull(n) == n
Word(n) == n % Words
EndAddress == Word(start + program.size)

NeedsTwoPhases == EndAddress > BRIDGE + 2

\* Pages read by LoadFileBySize for a file of this length with its header.
PagesBySize(length) == ((Word(length - 2) + Page - 1) \div Page) % (Words \div Page)
Phase1Pages == PagesBySize(Word(BRIDGE - start))
Phase2Pages == (EndAddress - 2 - BRIDGE + Page - 1) \div Page

\* Memory after `good` bytes of the file and zeros were stored from an address on.
Stored(address, pages, from, good) ==
  [a \in Addresses |->
     LET i == (a - address) % Words IN
     IF i >= pages * Page THEN mem[a] ELSE IF i < good THEN from + i ELSE Pad]
Touched(address, pages) == {a \in Addresses : (a - address) % Words < pages * Page}
\* What the bridge needs while it loads, its own place but for the first page,
\* which holds the tables of the second phase behind the jump to MAIN.
Needed == {a \in Addresses : a < LOW \/ a >= BRIDGE + Page}
Tables == BRIDGE + 3 .. BRIDGE + Page - 1

-----------------------------------------------------------------------------
(* MAIN.                                                                    *)

Init ==
  /\ program \in Programs /\ inSession = FALSE /\ workingFile = None /\ pos = 0
  /\ pc = "main" /\ start = 0 /\ mem = [a \in Addresses |-> Pad]
  /\ openedLength = 0 /\ fileIndex = 0 /\ buffer = [file |-> None, from |-> 0, good |-> 0]
  /\ channel = None /\ heard = Pad /\ status = "ok" /\ count = 0 /\ lostAt = NoLoss

fileCalls == <<reading, channel, result, history>>

Open ==
  /\ pc = "main"
  /\ \/ HandleOpenFile(TheProgram) /\ pc' = "header" /\ inSession' = TRUE
     \/ OpenFails /\ pc' = "failed" /\ inSession' = FALSE      \* MAIN_ERROR_EXIT
  /\ UNCHANGED <<loading, fileCalls>>

\* GETFILEINFO, and the first page for its two bytes.
ReadHeader ==
  /\ pc = "header"
  /\ \E good \in Goods(Page, pos) :
       /\ AfterRead(Page, pos, good)
       /\ start' = IF good > 0 THEN program.start ELSE 0
  /\ pc' = "load"
  /\ UNCHANGED <<program, inSession, mem, fileCalls>>

\* SEEK_FILE fails on a closed file; ERROR_GATE leaves the session open.
SeekFails ==
  /\ pc = "load" /\ ~IsOpen /\ pc' = "failed"
  /\ UNCHANGED <<loading, inSession, workingFile, pos, fileCalls>>

\* The seek to 2 and the read of LoadFileBySize.
LoadPages(pages) ==
  \E good \in Goods(pages * Page, 2) :
    AfterRead(pages * Page, 2, good) /\ mem' = Stored(start, pages, 2, good)

LoadBySize ==
  /\ pc = "load" /\ IsOpen /\ ~NeedsTwoPhases
  /\ LET pages == PagesBySize(Word(program.size)) IN
     /\ LoadPages(pages)
     /\ pc' = IF Touched(start, pages) \cap Needed = {} THEN "close" ELSE "wrecked"
  /\ UNCHANGED <<program, start, inSession, fileCalls>>

\* Mutant of CloseProgram: a file that is not open is closed as well.
CloseProgramAnyway ==
  /\ pc = "close" /\ pc' = "run" /\ inSession' = FALSE /\ workingFile' = None
  /\ UNCHANGED <<loading, pos, fileCalls>>
\* CLOSEFILE and EndTalking, then SETVECTORS and the start of the program.
CloseProgram ==
  /\ pc = "close"
  /\ IF IsOpen THEN pc' = "run" /\ inSession' = FALSE ELSE pc' = "failed" /\ UNCHANGED inSession
  /\ workingFile' = None
  /\ UNCHANGED <<loading, pos, fileCalls>>

\* DO_P2TK up to the second command.
Phase1 ==
  /\ pc = "load" /\ IsOpen /\ NeedsTwoPhases
  /\ LoadPages(Phase1Pages)
  /\ pc' = IF Touched(start, Phase1Pages) \cap (Needed \cup Tables) = {} THEN "phase2"
            ELSE "wrecked"
  /\ UNCHANGED <<program, start, inSession, fileCalls>>

\* The rest goes to BRIDGE on; with all its pages, P3_HANDLER keeps the bytes of
\* the vectors back until the last one has come.  The stub waits for ever if the
\* file is closed, and the session is never ended.
Phase2 ==
  /\ pc = "phase2"
  /\ \/ /\ ~IsOpen /\ pc' = "hung" /\ UNCHANGED <<workingFile, pos, mem>>
     \/ /\ IsOpen
        /\ \E good \in Goods(Phase2Pages * Page, pos) :
             /\ AfterRead(Phase2Pages * Page, pos, good)
             /\ mem' = Stored(BRIDGE, Phase2Pages, pos, good)
        /\ pc' = "launched"
  /\ UNCHANGED <<program, start, inSession, fileCalls>>

\* EXITFAIL waits for a key and goes through MAIN_ERROR_EXIT again.
FailKey ==
  /\ pc = "failed" /\ inSession /\ inSession' = FALSE
  /\ UNCHANGED <<loading, workingFile, pos, pc, fileCalls>>

Main == Open \/ ReadHeader \/ SeekFails \/ LoadBySize \/ CloseProgram \/ Phase1 \/ Phase2
          \/ FailKey

-----------------------------------------------------------------------------
(* The calls of the running program, which has one file open at a time.     *)

\* Where the sessions of the calls below end: all of them, on every path.
\* Mutant of CallEnds: a failed call returns without EndTalking.
CallEndsOnSuccess(failed) == inSession' = failed
CallEnds(failed) == inSession' = FALSE

NEW_OPEN ==
  /\ pc = "run" /\ channel = None
  /\ \/ \E size \in DataFiles :
          /\ HandleOpenFile(Data(size)) /\ channel' = Data(size)
          /\ openedLength' = Word(size) /\ fileIndex' = 0
          /\ count' = 0 /\ lostAt' = NoLoss /\ heard' = Pad /\ status' = "ok"
          /\ CallEnds(FALSE) /\ UNCHANGED buffer
     \/ /\ OpenFails /\ status' = "error" /\ CallEnds(TRUE)
        /\ UNCHANGED <<reading, channel, heard, history>>
  /\ UNCHANGED <<loading, pc>>

AtEnd == fileIndex = openedLength

NEW_CHRIN_EOF ==
  /\ pc = "run" /\ channel # None /\ AtEnd
  /\ heard' = Pad /\ status' = "eof"
  /\ UNCHANGED <<loading, pc, inSession, workingFile, pos, reading, channel, history>>

\* The byte is taken from the buffer as it is after a refill.
TakeByte ==
  /\ LET x == fileIndex % Page IN
     heard' = IF x < buffer'.good THEN buffer'.from + x ELSE Pad
  /\ status' = "ok" /\ fileIndex' = Word(fileIndex + 1) /\ count' = count + 1

Refills == fileIndex % Page = 0

\* The branch of the buffered byte leads to the EndTalking of a refill, here a
\* byte of noise to a receiver that is not in a session.
NEW_CHRIN_Buffered ==
  /\ pc = "run" /\ channel # None /\ ~AtEnd /\ ~Refills
  /\ UNCHANGED buffer /\ TakeByte
  /\ UNCHANGED <<loading, pc, inSession, workingFile, pos, openedLength, channel, lostAt>>

NEW_CHRIN_Refill ==
  /\ pc = "run" /\ channel # None /\ ~AtEnd /\ Refills
  /\ \/ /\ IsOpen
        /\ \E good \in Goods(Page, pos) :
             /\ AfterRead(Page, pos, good)
             /\ buffer' = [file |-> workingFile, from |-> pos, good |-> good]
             /\ lostAt' = IF good < Want(Page, pos) THEN fileIndex ELSE lostAt
        /\ TakeByte /\ CallEnds(FALSE)
     \/ /\ ~IsOpen /\ status' = "error" /\ CallEnds(TRUE)
        /\ UNCHANGED <<workingFile, pos, fileIndex, buffer, heard, history>>
  /\ UNCHANGED <<loading, pc, openedLength, channel>>

NEW_CLOSE ==
  /\ pc = "run" /\ channel # None
  /\ channel' = None /\ workingFile' = None
  /\ status' = IF IsOpen THEN status ELSE "error"
  /\ CallEnds(~IsOpen)
  /\ UNCHANGED <<loading, pos, pc, reading, heard, history>>

Calls == NEW_OPEN \/ NEW_CHRIN_EOF \/ NEW_CHRIN_Buffered \/ NEW_CHRIN_Refill \/ NEW_CLOSE

Next == Main \/ Calls

Spec == Init /\ [][Next]_vars

-----------------------------------------------------------------------------
(* Properties.                                                              *)

Files == {None, TheProgram} \cup {Data(size) : size \in DataFiles}

\* Every variable holds values of its kind: what is kept in a word of 16 bits fits
\* one.
TypeOK ==
  /\ program \in Programs /\ inSession \in BOOLEAN
  /\ workingFile \in Files /\ pos \in Nat
  /\ pc \in {"main", "header", "load", "close", "phase2", "run", "launched", "hung",
             "failed", "wrecked"}
  /\ start \in Addresses /\ mem \in [Addresses -> Nat \cup {Pad}]
  /\ {openedLength, fileIndex} \subseteq Addresses
  /\ buffer \in [file : Files, from : Nat, good : 0 .. Page]
  /\ channel \in Files \ {TheProgram}
  /\ heard \in Nat \cup {Pad} /\ status \in {"ok", "eof", "error"}
  /\ count \in Nat /\ lostAt \in Nat \cup {NoLoss}

\* CHRIN returns the bytes of the file that was opened in order, over every refill,
\* and its end after as many as 16 bits count.  In a page in which the card fails
\* the rest is zeros, and no byte of a later page is returned as good.
ReadsInOrder ==
  channel # None =>
    /\ status = "ok" /\ count > 0 =>
         \/ heard = count - 1
         \/ heard = Pad /\ lostAt # NoLoss
    /\ lostAt # NoLoss => count <= lostAt + Page
    /\ status = "eof" => count = Word(channel.size)

\* Every call of the running program leaves the receiver outside a session, on
\* its error paths too, so that the next can open one.
CallsEndSession == pc = "run" => ~inSession

HasByte(i) ==
  program.start + i < Words /\ mem[program.start + i] = 2 + i
Whole == \A i \in 0 .. program.size - 3 : HasByte(i)

\* A program that fits under the bridge runs only when every byte of it was
\* loaded to its place, also when the card failed, and the bridge is still there
\* to serve it.
RunsWhole ==
  program.start + program.size - 2 <= BRIDGE =>
    /\ pc = "run" => Whole
    /\ pc \notin {"wrecked", "phase2", "hung", "launched"}

\* "Phase 1 - load STARTADDR..$BFFF", "Phase 2 ... fill $C000+": a program loaded
\* in two phases is whole, unless the card failed.
LaunchesWhole ==
  pc = "launched" /\ program.start < BRIDGE /\ program.start + program.size <= Words + 2 /\ ~CardFails
    => Whole

==============================================================================
