-------------------------- MODULE KernalBridgeProofs --------------------------
(***************************************************************************)
(* Proofs about KernalBridge, for every size of a page, a word and a        *)
(* buffer, and every set of programs and files.                             *)
(***************************************************************************)
EXTENDS KernalBridge, NatFacts

\* What the assumption says of each constant.
LEMMA Sizes ==
  /\ Page \in Nat \ {0} /\ Words \in Nat \ {0} /\ BUFFER_SIZE \in Nat \ {0}
  /\ LOW \in Nat \ {0} /\ BRIDGE \in Nat \ {0} /\ Page > 3
  /\ \A p \in Programs : p.start \in LOW .. Words - 1 /\ p.size \in Nat /\ p.size > 1
  /\ \A s \in DataFiles : s \in Nat
  /\ LOW < BRIDGE /\ BRIDGE + 2 * Page <= Words
BY BridgeAssumption

\* A word is an address.
LEMMA WordIsAddress ==
  ASSUME NEW n \in Int
  PROVE  Word(n) \in Addresses /\ Word(n) \in Nat
BY Sizes DEF Word, Addresses

-----------------------------------------------------------------------------
(* Types.  The position in a file never leaves it, so that no read counts   *)
(* backwards.                                                               *)

PosInv == IsOpen => pos <= SizeOf(workingFile)
\* Whose file is open: that of the program while it is loaded, then that of its
\* channel.
OwnerInv ==
  /\ pc \in {"load", "close", "phase2"} => workingFile \in {None, TheProgram}
  /\ pc = "header" => workingFile = TheProgram
  /\ pc = "phase2" => NeedsTwoPhases
  /\ pc = "run" => workingFile \in {None, channel}

TInv == TypeOK /\ PosInv

LEMMA SizeOfFile ==
  ASSUME TypeOK, IsOpen
  PROVE  SizeOf(workingFile) \in Nat
<1>1. CASE workingFile = TheProgram
  BY <1>1, Sizes DEF SizeOf, TypeOK
<1>2. CASE workingFile # TheProgram
  <2>1. PICK size \in DataFiles : workingFile = Data(size)
    BY <1>2 DEF TypeOK, Files, IsOpen
  <2> QED BY <2>1, <1>2, Sizes DEF SizeOf, Data
<1> QED BY <1>1, <1>2

LEMMA GoodsRange ==
  ASSUME TInv, IsOpen, NEW n \in Nat, NEW from \in Nat, from <= SizeOf(workingFile),
         NEW good \in Goods(n, from)
  PROVE  /\ good \in Nat /\ good <= n
         /\ good <= Want(n, from)
         /\ Want(n, from) \in Nat /\ Want(n, from) <= n
         /\ from + Want(n, from) <= SizeOf(workingFile)
         /\ Want(n, from) = n \/ from + Want(n, from) = SizeOf(workingFile)
<1>1. SizeOf(workingFile) \in Nat
  BY SizeOfFile DEF TInv
<1>2. /\ Want(n, from) \in Nat /\ Want(n, from) <= n
      /\ from + Want(n, from) <= SizeOf(workingFile)
      /\ Want(n, from) = n \/ from + Want(n, from) = SizeOf(workingFile)
  BY <1>1 DEF Want
<1>3. good \in 0 .. Want(n, from)
  BY <1>2 DEF Goods
<1> QED BY <1>2, <1>3

LEMMA AfterReadInv ==
  ASSUME TInv, IsOpen, NEW n \in Nat, NEW from \in Nat, from <= SizeOf(workingFile),
         NEW good \in Goods(n, from), AfterRead(n, from, good),
         program' = program
  PROVE  /\ pos' \in Nat /\ workingFile' \in {None, workingFile} /\ PosInv'
<1>1. /\ good \in Nat /\ good <= Want(n, from) /\ Want(n, from) \in Nat
      /\ from + Want(n, from) <= SizeOf(workingFile) /\ SizeOf(workingFile) \in Nat
  BY GoodsRange, SizeOfFile DEF TInv
<1>2. pos' = from + good /\ workingFile' \in {None, workingFile}
  BY DEF AfterRead
<1>3. workingFile' = workingFile => SizeOf(workingFile)' = SizeOf(workingFile)
  BY DEF SizeOf
<1>4. PosInv'
  BY <1>1, <1>2, <1>3 DEF PosInv, IsOpen
<1> QED BY <1>1, <1>2, <1>4

LEMMA StoredType ==
  ASSUME TypeOK, NEW address \in Nat, NEW pages \in Nat, NEW from \in Nat, NEW good \in Nat
  PROVE  Stored(address, pages, from, good) \in [Addresses -> Nat \cup {Pad}]
<1> DEFINE At(a) == LET i == (a - address) % Words IN
                    IF i >= pages * Page THEN mem[a] ELSE IF i < good THEN from + i ELSE Pad
<1>1. ASSUME NEW a \in Addresses PROVE At(a) \in Nat \cup {Pad}
  <2>1. (a - address) % Words \in Nat
    <3>1. a - address \in Int
      BY Sizes DEF Addresses
    <3> QED BY <3>1, Sizes
  <2>2. mem[a] \in Nat \cup {Pad}
    BY DEF TypeOK
  <2> QED BY <2>1, <2>2
<1> QED BY <1>1 DEF Stored

LEMMA PagesType ==
  ASSUME TypeOK
  PROVE  /\ \A n \in Int : PagesBySize(n) \in Nat
         /\ Phase1Pages \in Nat
         /\ EndAddress \in Addresses
         /\ NeedsTwoPhases => Phase2Pages \in Nat
<1>1. ASSUME NEW n \in Int PROVE PagesBySize(n) \in Nat
  <2>1. Word(n - 2) \in Nat
    BY WordIsAddress DEF Addresses
  <2>2. (Word(n - 2) + Page - 1) \div Page \in Int /\ Words \div Page \in Int
    BY <2>1, Sizes
  <2>3. Words \div Page > 0
    <3>1. PICK q \in Int, r \in 0 .. Page - 1 : Words = Page * q + r /\ Words \div Page = q
      BY DivMod, Sizes
    <3>2. Words >= 2 * Page
      BY Sizes
    <3>3. q > 0
      BY <3>1, <3>2, Sizes
    <3> QED BY <3>1, <3>3
  <2> QED BY <2>2, <2>3 DEF PagesBySize
<1>2. program.start \in Nat /\ program.size \in Nat /\ start \in Nat
  BY Sizes DEF TypeOK, Addresses
<1>3. Phase1Pages \in Nat
  <2>1. Word(BRIDGE - start) \in Int
    BY <1>2, WordIsAddress, Sizes, BRIDGE - start \in Int DEF Addresses
  <2> QED BY <1>1, <2>1 DEF Phase1Pages
<1>4. EndAddress \in Addresses
  BY <1>2, WordIsAddress, start + program.size \in Int DEF EndAddress
<1>5. ASSUME NeedsTwoPhases PROVE Phase2Pages \in Nat
  <2>1. EndAddress - 2 - BRIDGE + Page - 1 \in Nat
    BY <1>4, <1>5, Sizes DEF NeedsTwoPhases, Addresses
  <2> QED BY <2>1, Sizes DEF Phase2Pages
<1> QED BY <1>1, <1>3, <1>4, <1>5

LEMMA LoadPagesType ==
  ASSUME TInv, IsOpen, NEW pages \in Nat, LoadPages(pages), SizeOf(workingFile) >= 2,
         program' = program
  PROVE  /\ pos' \in Nat /\ workingFile' \in {None, workingFile} /\ PosInv'
         /\ mem' \in [Addresses -> Nat \cup {Pad}]
<1>1. pages * Page \in Nat
  BY Sizes
<1>2. PICK good \in Goods(pages * Page, 2) :
        AfterRead(pages * Page, 2, good) /\ mem' = Stored(start, pages, 2, good)
  BY DEF LoadPages
<1>3. good \in Nat
  BY <1>1, GoodsRange
<1>4. start \in Nat
  BY Sizes DEF TInv, TypeOK, Addresses
<1> QED BY <1>1, <1>2, <1>3, <1>4, AfterReadInv, StoredType DEF TInv

LEMMA ProgramType ==
  ASSUME program \in Programs
  PROVE  /\ program \in Programs /\ program.size \in Nat /\ program.size > 1
         /\ program.start \in Addresses /\ 0 \in Addresses
<1>1. program.start \in LOW .. Words - 1 /\ program.size \in Nat /\ program.size > 1
  BY Sizes
<1> QED BY <1>1, Sizes DEF Addresses

LEMMA InitTInv == Init => TInv /\ OwnerInv
<1> SUFFICES ASSUME Init PROVE TInv /\ OwnerInv
  OBVIOUS
<1>1. 0 \in Addresses
  BY Sizes DEF Addresses
<1>2. mem \in [Addresses -> Nat \cup {Pad}]
  BY DEF Init
<1>3. buffer \in [file : Files, from : Nat, good : 0 .. Page]
  BY Sizes DEF Init, Files
<1>4. TypeOK
  BY <1>1, <1>2, <1>3 DEF Init, TypeOK, Files, None, TheProgram, Data
<1> QED BY <1>4 DEF Init, TInv, PosInv, IsOpen, OwnerInv

LEMMA MainTInv == TInv /\ OwnerInv /\ Main => TInv' /\ OwnerInv'
<1> SUFFICES ASSUME TInv, OwnerInv, Main PROVE TInv' /\ OwnerInv'
  OBVIOUS
<1> USE DEF TInv, TypeOK, OwnerInv, loading, fileCalls, reading, result, history
<1>0. /\ program \in Programs /\ program.size \in Nat /\ program.size > 1
      /\ program.start \in Addresses /\ 0 \in Addresses
  BY ProgramType
<1>t. IsOpen /\ pc \in {"header", "load", "close", "phase2"} =>
        workingFile = TheProgram /\ SizeOf(workingFile) = program.size
  BY DEF IsOpen, SizeOf
<1>1. CASE Open
  <2>1. CASE HandleOpenFile(TheProgram) /\ pc' = "header" /\ inSession' = TRUE
    BY <1>0, <1>1, <2>1 DEF Open, HandleOpenFile, Files, PosInv, SizeOf
  <2>2. CASE OpenFails /\ pc' = "failed" /\ inSession' = FALSE
    BY <1>1, <2>2 DEF Open, OpenFails, Files, PosInv, IsOpen
  <2> QED BY <1>1, <2>1, <2>2 DEF Open
<1>2. CASE ReadHeader
  <2>1. PICK good \in Goods(Page, pos) :
          AfterRead(Page, pos, good) /\ start' = IF good > 0 THEN program.start ELSE 0
    BY <1>2 DEF ReadHeader
  <2>2. pos' \in Nat /\ workingFile' \in {None, workingFile} /\ PosInv'
    <3>1. IsOpen
      BY <1>2 DEF ReadHeader, IsOpen, TheProgram, None
    <3> QED BY <1>2, <2>1, <3>1, AfterReadInv, Sizes DEF ReadHeader, PosInv
  <2> QED BY <1>0, <1>2, <2>1, <2>2 DEF ReadHeader, Files
<1>3. CASE SeekFails
  BY <1>3 DEF SeekFails, PosInv, IsOpen
<1>4. CASE LoadBySize
  <2>1. PagesBySize(Word(program.size)) \in Nat
    <3>1. Word(program.size) \in Int
      BY <1>0, WordIsAddress, program.size \in Int
    <3> QED BY <3>1, PagesType
  <2>2. /\ pos' \in Nat /\ workingFile' \in {None, workingFile} /\ PosInv'
        /\ mem' \in [Addresses -> Nat \cup {Pad}]
    BY <1>0, <1>t, <1>4, <2>1, LoadPagesType DEF LoadBySize
  <2>3. pc' \in {"close", "wrecked"}
    BY <1>4 DEF LoadBySize
  <2> QED BY <1>4, <2>2, <2>3 DEF LoadBySize, Files
<1>5. CASE CloseProgram
  BY <1>5 DEF CloseProgram, PosInv, IsOpen, Files
<1>6. CASE Phase1
  <2>1. /\ pos' \in Nat /\ workingFile' \in {None, workingFile} /\ PosInv'
        /\ mem' \in [Addresses -> Nat \cup {Pad}]
    BY <1>0, <1>t, <1>6, PagesType, LoadPagesType DEF Phase1
  <2>2. pc' \in {"phase2", "wrecked"}
    BY <1>6 DEF Phase1
  <2>3. NeedsTwoPhases'
    BY <1>6 DEF Phase1, NeedsTwoPhases, EndAddress
  <2> QED BY <1>6, <2>1, <2>2, <2>3 DEF Phase1, Files
<1>7. CASE Phase2
  <2>1. CASE ~IsOpen /\ pc' = "hung" /\ UNCHANGED <<workingFile, pos, mem>>
    BY <1>7, <2>1 DEF Phase2, PosInv, IsOpen
  <2>2. CASE /\ IsOpen
             /\ \E good \in Goods(Phase2Pages * Page, pos) :
                  /\ AfterRead(Phase2Pages * Page, pos, good)
                  /\ mem' = Stored(BRIDGE, Phase2Pages, pos, good)
             /\ pc' = "launched"
    <3>1. Phase2Pages \in Nat /\ Phase2Pages * Page \in Nat
      BY <1>7, PagesType, Sizes DEF Phase2
    <3>2. PICK good \in Goods(Phase2Pages * Page, pos) :
                  /\ AfterRead(Phase2Pages * Page, pos, good)
                  /\ mem' = Stored(BRIDGE, Phase2Pages, pos, good)
      BY <2>2
    <3>3. pos' \in Nat /\ workingFile' \in {None, workingFile} /\ PosInv'
      BY <1>7, <2>2, <3>1, <3>2, AfterReadInv DEF Phase2, PosInv
    <3>4. good \in Nat
      BY <2>2, <3>1, GoodsRange DEF PosInv
    <3>5. mem' \in [Addresses -> Nat \cup {Pad}]
      BY <3>1, <3>2, <3>4, StoredType, Sizes
    <3> QED BY <1>7, <2>2, <3>3, <3>5 DEF Phase2, Files
  <2> QED BY <1>7, <2>1, <2>2 DEF Phase2
<1>8. CASE FailKey
  BY <1>8 DEF FailKey, PosInv, IsOpen, SizeOf
<1> QED BY <1>1, <1>2, <1>3, <1>4, <1>5, <1>6, <1>7, <1>8 DEF Main

-----------------------------------------------------------------------------
(* The file calls.  While a channel is open no byte was counted beyond the  *)
(* length, the buffer holds the page before the index, and the firmware's   *)
(* position is the end of that page.                                        *)

Base == fileIndex - (fileIndex % Page)      \* of the page the index is in
PageEnd == IF fileIndex % Page = 0 THEN fileIndex ELSE Base + Page

ChannelInv ==
  channel # None =>
    /\ count = fileIndex /\ openedLength = Word(channel.size)
    /\ count <= openedLength /\ openedLength <= channel.size
    /\ fileIndex % Page # 0 => buffer.from = Base
    /\ IsOpen => /\ lostAt = NoLoss
                 /\ pos = IF PageEnd <= channel.size THEN PageEnd ELSE channel.size
    /\ lostAt = NoLoss /\ fileIndex % Page # 0 =>
         buffer.good = IF Base + Page <= channel.size THEN Page ELSE channel.size - Base
    /\ lostAt # NoLoss => /\ lostAt % Page = 0
                          /\ lostAt < fileIndex /\ fileIndex <= lostAt + Page

\* The channel is the program's, and idle until it runs.
CallInv ==
  /\ channel # None => pc = "run"
  /\ ChannelInv /\ ReadsInOrder /\ CallsEndSession

IInv == TInv /\ OwnerInv /\ CallInv

LEMMA MainCallInv == IInv /\ Main => CallInv'
<1> SUFFICES ASSUME IInv, Main PROVE CallInv'
  OBVIOUS
<1>1. channel = None
  <2>1. pc # "run"
    BY DEF Main, Open, ReadHeader, SeekFails, LoadBySize, CloseProgram, Phase1, Phase2,
       FailKey
  <2> QED BY <2>1 DEF IInv, CallInv
<1>2. channel' = None
  BY <1>1 DEF Main, Open, ReadHeader, SeekFails, LoadBySize, CloseProgram, Phase1, Phase2,
     FailKey, fileCalls
<1>3. pc' = "run" => ~inSession'
  BY DEF Main, Open, ReadHeader, SeekFails, LoadBySize, CloseProgram, Phase1, Phase2,
     FailKey
<1> QED BY <1>2, <1>3 DEF CallInv, ChannelInv, ReadsInOrder, CallsEndSession

\* The channel's size, and the index counting on by one.
LEMMA IndexStep ==
  ASSUME IInv, channel # None, ~AtEnd
  PROVE  /\ channel.size \in Nat /\ SizeOf(channel) = channel.size
         /\ fileIndex \in Nat /\ count = fileIndex
         /\ openedLength \in Nat /\ fileIndex < openedLength /\ openedLength <= channel.size
         /\ Word(fileIndex + 1) = fileIndex + 1 /\ fileIndex + 1 \in Addresses
         /\ fileIndex % Page \in 0 .. Page - 1
         /\ (fileIndex + 1) % Page = IF fileIndex % Page = Page - 1 THEN 0
                                     ELSE (fileIndex % Page) + 1
<1>1. /\ fileIndex \in Addresses /\ openedLength \in Addresses
      /\ channel \in Files \ {TheProgram}
  BY DEF IInv, TInv, TypeOK
<1>2. PICK size \in DataFiles : channel = Data(size)
  BY <1>1 DEF Files
<1>3. channel.size \in Nat /\ SizeOf(channel) = channel.size
  BY <1>1, <1>2, Sizes DEF SizeOf, Data
<1>4. fileIndex \in Nat /\ openedLength \in Nat /\ openedLength < Words
  BY <1>1, Sizes DEF Addresses
<1>5. count = fileIndex /\ fileIndex < openedLength /\ openedLength <= channel.size
  BY <1>4 DEF IInv, CallInv, ChannelInv, AtEnd
<1>6. fileIndex + 1 \in 0 .. Words - 1
  BY <1>4, <1>5, Sizes
<1>7. Word(fileIndex + 1) = fileIndex + 1
  BY <1>6, ModSmall, Sizes DEF Word
<1>8. fileIndex % Page \in 0 .. Page - 1
  BY <1>4, Sizes
<1>9. (fileIndex + 1) % Page = IF fileIndex % Page = Page - 1 THEN 0
                                     ELSE (fileIndex % Page) + 1
  BY <1>4, ModStep, Sizes, fileIndex \in Int
<1> QED BY <1>3, <1>4, <1>5, <1>6, <1>7, <1>8, <1>9 DEF Addresses

LEMMA OpenInv == IInv /\ NEW_OPEN => IInv'
<1> SUFFICES ASSUME IInv, NEW_OPEN PROVE IInv'
  OBVIOUS
<1> USE DEF IInv, TInv, OwnerInv, CallInv, loading, reading, result, history
<1>1. ASSUME NEW size \in DataFiles,
             HandleOpenFile(Data(size)), channel' = Data(size),
             openedLength' = Word(size), fileIndex' = 0,
             count' = 0, lostAt' = NoLoss, heard' = Pad, status' = "ok",
             CallEnds(FALSE), UNCHANGED buffer, UNCHANGED <<loading, pc>>, pc = "run"
      PROVE  IInv'
  <2>1. size \in Nat /\ Data(size) \in Files \ {TheProgram} /\ Data(size).size = size
        /\ Data(size) # None
    BY <1>1, Sizes DEF Files, Data, TheProgram, None
  <2>2. Word(size) \in Addresses /\ Word(size) <= size /\ 0 \in Addresses /\ Word(size) >= 0
    <3>1. PICK q \in Int, r \in 0 .. Words - 1 : size = Words * q + r /\ size % Words = r
      BY <2>1, DivMod, Sizes, size \in Int
    <3>2. r <= size
      BY <2>1, <3>1, Sizes
    <3>3. Word(size) = r
      BY <3>1 DEF Word
    <3> QED BY <3>1, <3>2, <3>3, Sizes DEF Addresses
  <2>3. 0 % Page = 0
    BY Sizes
  <2>4. TypeOK'
    BY <1>1, <2>1, <2>2 DEF HandleOpenFile, CallEnds, TypeOK
  <2>5. PosInv'
    BY <1>1, <2>1 DEF HandleOpenFile, PosInv, SizeOf
  <2>6. OwnerInv'
    BY <1>1, <2>1 DEF HandleOpenFile
  <2>7. ChannelInv'
    BY <1>1, <2>1, <2>2, <2>3 DEF HandleOpenFile, ChannelInv, PageEnd, Base
  <2>8. ReadsInOrder' /\ CallsEndSession'
    BY <1>1 DEF ReadsInOrder, CallsEndSession, CallEnds
  <2> QED BY <1>1, <2>4, <2>5, <2>6, <2>7, <2>8
<1>2. CASE OpenFails /\ status' = "error" /\ CallEnds(TRUE)
           /\ UNCHANGED <<reading, channel, heard, history>>
  <2>1. channel' = None /\ workingFile' = None /\ pc' = "run" /\ inSession' = FALSE /\ pos' = pos
    BY <1>2 DEF NEW_OPEN, OpenFails, CallEnds
  <2>2. TypeOK'
    <3>1. UNCHANGED <<program, start, mem, openedLength, fileIndex, buffer, channel, heard,
                      count, lostAt>> /\ status' = "error"
      BY <1>2 DEF NEW_OPEN
    <3> QED BY <2>1, <3>1 DEF TypeOK, Files
  <2>3. PosInv' /\ OwnerInv'
    BY <2>1 DEF PosInv, IsOpen
  <2>4. ChannelInv' /\ ReadsInOrder' /\ CallsEndSession'
    BY <2>1 DEF ChannelInv, ReadsInOrder, CallsEndSession
  <2> QED BY <2>1, <2>2, <2>3, <2>4
<1> QED BY <1>1, <1>2 DEF NEW_OPEN

LEMMA EofInv == IInv /\ NEW_CHRIN_EOF => IInv'
<1> SUFFICES ASSUME IInv, NEW_CHRIN_EOF PROVE IInv'
  OBVIOUS
<1> USE DEF IInv, TInv, OwnerInv, CallInv, loading, reading, result, history, NEW_CHRIN_EOF
<1>1. TypeOK'
  BY DEF TypeOK
<1>2. PosInv' /\ OwnerInv'
  BY DEF PosInv, SizeOf, IsOpen
<1>3. ChannelInv'
  BY DEF ChannelInv, PageEnd, Base, IsOpen
<1>4. ReadsInOrder' /\ CallsEndSession'
  BY DEF ReadsInOrder, CallsEndSession, ChannelInv, AtEnd
<1> QED BY <1>1, <1>2, <1>3, <1>4

LEMMA BufferedInv == IInv /\ NEW_CHRIN_Buffered => IInv'
<1> SUFFICES ASSUME IInv, NEW_CHRIN_Buffered PROVE IInv'
  OBVIOUS
<1> USE DEF IInv, TInv, OwnerInv, CallInv, loading, reading, result, history, Refills
<1>1. /\ channel.size \in Nat /\ SizeOf(channel) = channel.size
      /\ fileIndex \in Nat /\ count = fileIndex
      /\ openedLength \in Nat /\ fileIndex < openedLength /\ openedLength <= channel.size
      /\ Word(fileIndex + 1) = fileIndex + 1 /\ fileIndex + 1 \in Addresses
      /\ fileIndex % Page \in 0 .. Page - 1
      /\ (fileIndex + 1) % Page = IF fileIndex % Page = Page - 1 THEN 0
                                  ELSE (fileIndex % Page) + 1
  BY IndexStep DEF NEW_CHRIN_Buffered
<1>2. /\ pc = "run" /\ channel # None /\ fileIndex % Page # 0
      /\ fileIndex' = fileIndex + 1 /\ count' = count + 1 /\ status' = "ok"
      /\ UNCHANGED <<program, start, mem, pc, inSession, workingFile, pos, buffer,
                     openedLength, channel, lostAt>>
  BY <1>1 DEF NEW_CHRIN_Buffered, TakeByte
<1>3. heard' = IF fileIndex % Page < buffer.good THEN buffer.from + (fileIndex % Page) ELSE Pad
  BY <1>2 DEF NEW_CHRIN_Buffered, TakeByte
<1>4. buffer.from = Base /\ Base \in Int /\ Base + (fileIndex % Page) = fileIndex
      /\ openedLength \in Nat /\ Page \in Nat /\ Page > 3
  BY <1>1, <1>2, Sizes DEF ChannelInv, Base, TypeOK, Addresses
<1>5. heard' = count \/ heard' = Pad
  BY <1>1, <1>3, <1>4
<1>6. lostAt = NoLoss => heard' = count
  <2> SUFFICES ASSUME lostAt = NoLoss PROVE heard' = count
    OBVIOUS
  <2>1. buffer.good = IF Base + Page <= channel.size THEN Page ELSE channel.size - Base
    BY <1>2 DEF ChannelInv
  <2>2. fileIndex % Page < buffer.good
    BY <1>1, <1>4, <2>1
  <2> QED BY <1>1, <1>3, <1>4, <2>2
<1>7. TypeOK'
  <2>1. heard' \in Nat \cup {Pad} /\ count' \in Nat /\ fileIndex' \in Addresses
    BY <1>1, <1>2, <1>5
  <2> QED BY <1>2, <2>1 DEF TypeOK
<1>8. PosInv' /\ OwnerInv'
  BY <1>2 DEF PosInv, SizeOf, IsOpen, TypeOK
<1>9. PageEnd' = PageEnd /\ ((fileIndex + 1) % Page # 0 => Base' = Base)
  BY <1>1, <1>2, <1>4 DEF PageEnd, Base
<1>10. ChannelInv'
  <2>1. /\ count' = fileIndex' /\ openedLength' = Word(channel'.size)
        /\ count' <= openedLength' /\ openedLength' <= channel'.size
    BY <1>1, <1>2, <1>4 DEF ChannelInv
  <2>2. fileIndex' % Page # 0 => buffer'.from = Base'
    BY <1>2, <1>4, <1>9
  <2>3. IsOpen' => /\ lostAt' = NoLoss
                 /\ pos' = IF PageEnd' <= channel'.size THEN PageEnd' ELSE channel'.size
    BY <1>2, <1>9 DEF ChannelInv, IsOpen
  <2>4. lostAt' = NoLoss /\ fileIndex' % Page # 0 =>
         buffer'.good = IF Base' + Page <= channel'.size THEN Page ELSE channel'.size - Base'
    BY <1>2, <1>9 DEF ChannelInv
  <2>5. lostAt' # NoLoss => /\ lostAt' % Page = 0
                          /\ lostAt' < fileIndex' /\ fileIndex' <= lostAt' + Page
    <3> SUFFICES ASSUME lostAt # NoLoss
                 PROVE  lostAt % Page = 0 /\ lostAt < fileIndex + 1
                        /\ fileIndex + 1 <= lostAt + Page
      BY <1>2
    <3>1. lostAt % Page = 0 /\ lostAt < fileIndex /\ fileIndex <= lostAt + Page
      BY <1>2 DEF ChannelInv
    <3>2. lostAt \in Nat
      BY DEF TypeOK
    <3>3. (lostAt + Page) % Page = 0
      BY <3>1, <3>2, ModAdd, Sizes, lostAt \in Int
    <3>4. fileIndex # lostAt + Page
      BY <1>2, <3>3
    <3> QED BY <1>1, <1>4, <3>1, <3>2, <3>4
  <2> QED BY <2>1, <2>2, <2>3, <2>4, <2>5 DEF ChannelInv
<1>11. ReadsInOrder'
  <2>1. lostAt # NoLoss => count' <= lostAt + Page
    BY <1>1, <1>2, <1>10 DEF ChannelInv
  <2> QED BY <1>1, <1>2, <1>5, <1>6, <2>1 DEF ReadsInOrder
<1>12. CallsEndSession'
  BY <1>2 DEF CallsEndSession
<1> QED BY <1>2, <1>7, <1>8, <1>10, <1>11, <1>12

LEMMA RefillInv == IInv /\ NEW_CHRIN_Refill => IInv'
<1> SUFFICES ASSUME IInv, NEW_CHRIN_Refill PROVE IInv'
  OBVIOUS
<1> USE DEF IInv, TInv, OwnerInv, CallInv, loading, reading, result, history, Refills
<1>1. /\ channel.size \in Nat /\ SizeOf(channel) = channel.size
      /\ fileIndex \in Nat /\ count = fileIndex
      /\ openedLength \in Nat /\ fileIndex < openedLength /\ openedLength <= channel.size
      /\ Word(fileIndex + 1) = fileIndex + 1 /\ fileIndex + 1 \in Addresses
      /\ fileIndex % Page \in 0 .. Page - 1
      /\ (fileIndex + 1) % Page = IF fileIndex % Page = Page - 1 THEN 0
                                  ELSE (fileIndex % Page) + 1
  BY IndexStep DEF NEW_CHRIN_Refill
<1>2. /\ pc = "run" /\ channel # None /\ fileIndex % Page = 0
      /\ UNCHANGED <<program, start, mem, pc, openedLength, channel>>
  BY DEF NEW_CHRIN_Refill
<1>3. ASSUME IsOpen, NEW good \in Goods(Page, pos), AfterRead(Page, pos, good),
             buffer' = [file |-> workingFile, from |-> pos, good |-> good],
             lostAt' = IF good < Want(Page, pos) THEN fileIndex ELSE lostAt,
             TakeByte, CallEnds(FALSE)
      PROVE  IInv'
  <2>1. /\ pos = fileIndex /\ lostAt = NoLoss /\ workingFile = channel
        /\ SizeOf(workingFile) = channel.size
    <3>1. workingFile = channel
      BY <1>2, <1>3 DEF IsOpen
    <3>2. PageEnd = fileIndex /\ fileIndex <= channel.size
      BY <1>1, <1>2 DEF PageEnd
    <3> QED BY <1>1, <1>2, <1>3, <3>1, <3>2 DEF ChannelInv
  <2>2. /\ good \in Nat /\ good <= Want(Page, pos) /\ good <= Page
        /\ Want(Page, pos) = IF pos + Page <= channel.size THEN Page ELSE channel.size - pos
    <3>1. pos <= SizeOf(workingFile) /\ pos \in Nat /\ Page \in Nat
      BY <1>1, <2>1, Sizes
    <3>2. good \in Nat /\ good <= Want(Page, pos) /\ good <= Page
      BY <1>3, <3>1, GoodsRange
    <3> QED BY <3>1, <3>2, <2>1, <1>1 DEF Want
  <2>3. pos' \in Nat /\ workingFile' \in {None, workingFile} /\ PosInv'
    <3>1. pos \in Nat /\ Page \in Nat /\ pos <= SizeOf(workingFile)
      BY <1>1, <2>1, Sizes
    <3> QED BY <1>2, <1>3, <3>1, AfterReadInv
  <2>4. /\ fileIndex' = fileIndex + 1 /\ count' = count + 1 /\ status' = "ok"
        /\ buffer'.from = pos /\ buffer'.good = good /\ ~inSession'
        /\ pos' = pos + good
        /\ IsOpen' => good = Want(Page, pos)
        /\ heard' = IF 0 < good THEN pos + 0 ELSE Pad
    <3>1. buffer'.from = pos /\ buffer'.good = good
      BY <1>3
    <3>2. /\ fileIndex' = fileIndex + 1 /\ count' = count + 1 /\ status' = "ok"
          /\ heard' = IF 0 < good THEN pos + 0 ELSE Pad
      BY <1>1, <1>2, <1>3, <3>1 DEF TakeByte
    <3>3. IsOpen' => ~(good < Want(Page, pos))
      BY <1>3 DEF AfterRead, IsOpen
    <3>4. Want(Page, pos) \in Nat
      BY <1>1, <2>1, <2>2, Sizes
    <3> QED BY <1>3, <2>2, <3>1, <3>2, <3>3, <3>4 DEF AfterRead, CallEnds
  <2>5. TypeOK'
    <3>1. buffer' \in [file : Files, from : Nat, good : 0 .. Page]
      BY <1>1, <1>3, <2>1, <2>2, Sizes DEF TypeOK
    <3>2. workingFile' \in Files
      BY <2>3 DEF TypeOK, Files
    <3>3. lostAt' \in Nat \cup {NoLoss} /\ heard' \in Nat \cup {Pad} /\ count' \in Nat
          /\ fileIndex' \in Addresses
      BY <1>1, <1>3, <2>1, <2>4
    <3>4. inSession' = FALSE
      BY <1>3 DEF CallEnds
    <3> QED BY <1>2, <2>3, <2>4, <3>1, <3>2, <3>3, <3>4 DEF TypeOK
  <2>6. OwnerInv'
    BY <1>2, <2>1, <2>3 
  <2>7. Base' = fileIndex /\ PageEnd' = fileIndex + Page /\ fileIndex' % Page # 0
    BY <1>1, <1>2, <2>4, Sizes DEF Base, PageEnd
  <2>8. ChannelInv'
    <3>1. /\ count' = fileIndex' /\ openedLength' = Word(channel'.size)
          /\ count' <= openedLength' /\ openedLength' <= channel'.size
      BY <1>1, <1>2, <2>4 DEF ChannelInv, TypeOK, Addresses
    <3>2. IsOpen' => /\ lostAt' = NoLoss
                     /\ pos' = IF PageEnd' <= channel'.size THEN PageEnd' ELSE channel'.size
      BY <1>1, <1>2, <1>3, <2>1, <2>2, <2>4, <2>7, Sizes
    <3>3. lostAt' = NoLoss =>
           buffer'.good = IF Base' + Page <= channel'.size THEN Page ELSE channel'.size - Base'
      BY <1>1, <1>2, <1>3, <2>1, <2>2, <2>4, <2>7, Sizes DEF NoLoss
    <3>4. lostAt' # NoLoss => /\ lostAt' % Page = 0
                              /\ lostAt' < fileIndex' /\ fileIndex' <= lostAt' + Page
      <4>1. lostAt' # NoLoss => lostAt' = fileIndex
        BY <1>3, <2>1
      <4> QED BY <1>1, <1>2, <2>4, <4>1, Sizes
    <3> QED BY <2>1, <2>4, <2>7, <3>1, <3>2, <3>3, <3>4 DEF ChannelInv
  <2>9. ReadsInOrder'
    <3>1. lostAt' = NoLoss => 0 < good
      BY <1>1, <1>3, <2>1, <2>2, Sizes DEF NoLoss, TypeOK, Addresses
    <3>2. lostAt' # NoLoss => count' <= lostAt' + Page
      BY <1>2, <2>8, <2>4 DEF ChannelInv
    <3> QED BY <1>1, <1>2, <2>1, <2>4, <3>1, <3>2 DEF ReadsInOrder
  <2>10. CallsEndSession' /\ (channel' # None => pc' = "run")
    BY <1>2, <2>4 DEF CallsEndSession
  <2> QED BY <2>3, <2>5, <2>6, <2>8, <2>9, <2>10
<1>4. CASE /\ ~IsOpen /\ status' = "error" /\ CallEnds(TRUE)
           /\ UNCHANGED <<workingFile, pos, fileIndex, buffer, heard, history>>
  <2>1. TypeOK'
    BY <1>2, <1>4 DEF TypeOK, CallEnds
  <2>2. PosInv' /\ OwnerInv'
    BY <1>2, <1>4 DEF PosInv, SizeOf, IsOpen
  <2>3. ChannelInv'
    BY <1>2, <1>4 DEF ChannelInv, PageEnd, Base, IsOpen
  <2>4. ReadsInOrder' /\ CallsEndSession'
    BY <1>2, <1>4 DEF ReadsInOrder, CallsEndSession, CallEnds
  <2> QED BY <1>2, <2>1, <2>2, <2>3, <2>4
<1> QED BY <1>3, <1>4 DEF NEW_CHRIN_Refill

LEMMA CloseInv == IInv /\ NEW_CLOSE => IInv'
<1> SUFFICES ASSUME IInv, NEW_CLOSE PROVE IInv'
  OBVIOUS
<1> USE DEF IInv, TInv, OwnerInv, CallInv, loading, reading, result, history
<1>1. /\ channel' = None /\ workingFile' = None /\ pc' = "run" /\ ~inSession'
      /\ status' \in {status, "error"} /\ inSession' = FALSE
      /\ UNCHANGED <<program, start, mem, pos, openedLength, fileIndex, buffer, heard, count,
                     lostAt>>
  BY DEF NEW_CLOSE, CallEnds
<1>2. TypeOK'
  BY <1>1 DEF TypeOK, Files, TheProgram, None
<1>3. PosInv' /\ OwnerInv'
  BY <1>1 DEF PosInv, IsOpen
<1>4. ChannelInv' /\ ReadsInOrder' /\ CallsEndSession'
  BY <1>1 DEF ChannelInv, ReadsInOrder, CallsEndSession
<1> QED BY <1>1, <1>2, <1>3, <1>4

LEMMA Inductive == IInv /\ [Next]_vars => IInv'
<1> SUFFICES ASSUME IInv, [Next]_vars PROVE IInv'
  OBVIOUS
<1>1. CASE Main
  BY <1>1, MainTInv, MainCallInv DEF IInv
<1>2. CASE Calls
  BY <1>2, OpenInv, EofInv, BufferedInv, RefillInv, CloseInv DEF Calls
<1>3. CASE UNCHANGED vars
  BY <1>3 DEF vars, loading, reading, result, history, IInv, TInv, TypeOK, PosInv, OwnerInv,
     CallInv, ChannelInv, ReadsInOrder, CallsEndSession, PageEnd, Base, IsOpen, SizeOf,
     NeedsTwoPhases, EndAddress
<1> QED BY <1>1, <1>2, <1>3 DEF Next

-----------------------------------------------------------------------------
(* A program that fits under the bridge: its load address was read if its   *)
(* file is still open, which it is only if no read has failed.              *)

FitsUnder == program.start + program.size - 2 <= BRIDGE

WholeInv ==
  /\ pc = "header" => pos = 0
  /\ FitsUnder =>
       /\ pc = "load" /\ IsOpen => start = program.start
       /\ pc = "close" /\ IsOpen => Whole
       /\ pc = "run" => Whole
       /\ pc \notin {"wrecked", "phase2", "hung", "launched"}

\* What LoadFileBySize reads of such a program.
LEMMA PagesCover ==
  ASSUME TInv, FitsUnder
  PROVE  LET n == PagesBySize(Word(program.size)) * Page
         IN /\ PagesBySize(Word(program.size)) \in Nat /\ n \in Nat
            /\ program.size - 2 <= n /\ n <= program.size - 2 + Page - 1
<1> DEFINE S == program.start
           Z == program.size
<1>1. /\ S \in Nat /\ S >= LOW /\ Z \in Nat /\ Z >= 2 /\ S + Z - 2 <= BRIDGE
      /\ Z < Words /\ Z - 2 + Page - 1 < Words
  <2>1. program \in Programs
    BY DEF TInv, TypeOK
  <2>2. S \in LOW .. Words - 1 /\ Z \in Nat /\ Z > 1
    BY <2>1, Sizes
  <2> QED BY <2>2, Sizes DEF FitsUnder
<1> HIDE DEF S, Z
<1>2. Word(Z) = Z /\ Word(Z - 2) = Z - 2
  <2>1. Z \in 0 .. Words - 1 /\ Z - 2 \in 0 .. Words - 1
    BY <1>1, Sizes
  <2> QED BY <2>1, ModSmall, Sizes DEF Word
<1>3. PICK q \in Int, r \in 0 .. Page - 1 :
        Z - 2 + Page - 1 = Page * q + r /\ (Z - 2 + Page - 1) \div Page = q
  BY <1>1, DivMod, Sizes, Z - 2 + Page - 1 \in Int
<1>4. PICK w \in Int : Words = Page * w /\ Words \div Page = w
  <2>1. PICK w \in Int, r0 \in 0 .. Page - 1 :
          Words = Page * w + r0 /\ Words % Page = r0 /\ Words \div Page = w
    BY DivMod, Sizes, Words \in Int
  <2> QED BY <2>1, BridgeAssumption, Sizes
<1>5. q \in Nat /\ q < w
  <2>1. Page * q + r >= 0 /\ Page * q <= Page * q + r /\ Page * q + r < Page * w
    BY <1>1, <1>3, <1>4, Sizes
  <2>2. q >= 0
    BY <2>1, Sizes
  <2>3. q < w
    BY <2>1, <2>2, Sizes
  <2> QED BY <2>2, <2>3
<1>6. PagesBySize(Word(Z)) = q
  <2>1. q % w = q
    BY <1>5, ModSmall, q \in 0 .. w - 1
  <2> QED BY <1>2, <1>3, <1>4, <2>1 DEF PagesBySize
<1>7. q * Page \in Nat /\ q * Page = Page * q
  BY <1>5, Sizes
<1>8. Z - 2 <= q * Page /\ q * Page <= Z - 2 + Page - 1
  BY <1>1, <1>3, <1>7, Sizes
<1> QED BY <1>5, <1>6, <1>7, <1>8 DEF Z

LEMMA WholeStep == IInv /\ WholeInv /\ [Next]_vars => WholeInv'
<1> SUFFICES ASSUME IInv, WholeInv, [Next]_vars PROVE WholeInv'
  OBVIOUS
<1>0. program' = program
  BY DEF Next, Main, Calls, Open, ReadHeader, SeekFails, LoadBySize, CloseProgram, Phase1,
     Phase2, FailKey, NEW_OPEN, NEW_CHRIN_EOF, NEW_CHRIN_Buffered, NEW_CHRIN_Refill,
     NEW_CLOSE, loading, vars
<1>a. FitsUnder' = FitsUnder
  BY <1>0 DEF FitsUnder
<1>b. mem' = mem => Whole' = Whole
  BY <1>0 DEF Whole, HasByte
<1>t. TInv /\ OwnerInv
  BY DEF IInv
<1>1. CASE Open
  BY <1>1 DEF Open, WholeInv, HandleOpenFile
<1>2. CASE ReadHeader
  <2>1. PICK good \in Goods(Page, pos) :
          AfterRead(Page, pos, good) /\ start' = IF good > 0 THEN program.start ELSE 0
    BY <1>2 DEF ReadHeader
  <2>2. pos = 0 /\ workingFile = TheProgram
    BY <1>2, <1>t DEF ReadHeader, WholeInv, OwnerInv
  <2>3. program.size \in Nat /\ program.size > 1 /\ SizeOf(workingFile) = program.size
    BY <1>t, <2>2, ProgramType DEF TInv, TypeOK, SizeOf
  <2>4. Want(Page, pos) > 0
    BY <2>2, <2>3, Sizes DEF Want
  <2>5. good \in Nat
    BY <1>t, <2>2, <2>3, GoodsRange, Sizes DEF IsOpen, TheProgram, None
  <2>6. IsOpen' => start' = program.start
    <3>1. IsOpen' => ~(good < Want(Page, pos))
      BY <2>1 DEF AfterRead, IsOpen
    <3>2. Want(Page, pos) \in Nat
      BY <2>2, <2>3, Sizes DEF Want
    <3> QED BY <2>1, <2>4, <2>5, <3>1, <3>2
  <2> QED BY <1>0, <1>2, <2>6 DEF ReadHeader, WholeInv
<1>3. CASE SeekFails
  BY <1>3 DEF SeekFails, WholeInv
<1>4. CASE LoadBySize
  <2> SUFFICES ASSUME FitsUnder
               PROVE  /\ pc' = "close"
                      /\ IsOpen' => Whole'
    BY <1>a, <1>4 DEF LoadBySize, WholeInv
  <2> DEFINE S == program.start
             Z == program.size
             pages == PagesBySize(Word(program.size))
             n == pages * Page
  <2>1. start = S /\ IsOpen /\ SizeOf(workingFile) = Z
    BY <1>4, <1>t DEF LoadBySize, WholeInv, OwnerInv, IsOpen, SizeOf
  <2>2. pages \in Nat /\ n \in Nat /\ Z - 2 <= n /\ n <= Z - 2 + Page - 1
    BY <1>t, PagesCover
  <2>3. /\ S \in Nat /\ S >= LOW /\ S < Words /\ Z \in Nat /\ Z >= 2 /\ S + Z - 2 <= BRIDGE
    <3>1. program \in Programs
      BY <1>t DEF TInv, TypeOK
    <3>2. S \in LOW .. Words - 1 /\ Z \in Nat /\ Z > 1
      BY <3>1, Sizes
    <3> QED BY <3>2, Sizes DEF FitsUnder
  <2>4. PICK good \in Goods(n, 2) : AfterRead(n, 2, good) /\ mem' = Stored(start, pages, 2, good)
    BY <1>4 DEF LoadBySize, LoadPages
  <2>5. LoadBySize => pc' = IF Touched(start, pages) \cap Needed = {} THEN "close" ELSE "wrecked"
    BY DEF LoadBySize
  <2> HIDE DEF S, Z, n
  <2>6. Want(n, 2) = Z - 2 /\ good \in Nat
    <3>1. good \in Nat
      BY <1>t, <2>1, <2>2, <2>3, <2>4, GoodsRange
    <3>2. Want(n, 2) = Z - 2
      BY <2>1, <2>2, <2>3 DEF Want
    <3> QED BY <3>1, <3>2
  <2>7. ASSUME NEW a \in Addresses
        PROVE  /\ a \in Nat /\ a < Words
               /\ (a - S) % Words = IF a >= S THEN a - S ELSE a - S + Words
    <3>1. a \in Nat /\ a < Words
      BY Sizes DEF Addresses
    <3>2. CASE a >= S
      BY <2>3, <3>1, <3>2, ModSmall, Sizes, a - S \in 0 .. Words - 1
    <3>3. CASE ~(a >= S)
      <4>1. a - S + Words \in 0 .. Words - 1
        BY <2>3, <3>1, <3>3, Sizes
      <4>2. (a - S + Words) % Words = a - S + Words
        BY <4>1, ModSmall, Sizes
      <4>3. (a - S + Words) % Words = (a - S) % Words
        BY <2>3, <3>1, ModAdd, Sizes, a - S \in Int
      <4> QED BY <3>1, <3>3, <4>2, <4>3
    <3> QED BY <3>1, <3>2, <3>3
  <2>8. Touched(start, pages) \cap Needed = {}
    <3> SUFFICES ASSUME NEW a \in Addresses, (a - S) % Words < n
                 PROVE  ~(a < LOW \/ a >= BRIDGE + Page)
      BY <2>1 DEF Touched, Needed, n
    <3>1. a >= S /\ a - S < n
      BY <2>2, <2>3, <2>7, Sizes
    <3> QED BY <2>2, <2>3, <2>7, <3>1, Sizes
  <2>9. ASSUME IsOpen' PROVE Whole'
    <3>1. good >= Z - 2
      <4>1. ~(good < Want(n, 2))
        BY <2>4, <2>9 DEF AfterRead, IsOpen
      <4> QED BY <2>3, <2>6, <4>1
    <3> SUFFICES ASSUME NEW i \in 0 .. Z - 3
                 PROVE  S + i < Words /\ mem'[S + i] = 2 + i
      BY <1>0 DEF Whole, HasByte, S, Z
    <3>2. S + i \in Addresses /\ i \in Nat /\ S + i < Words
      BY <2>3, Sizes DEF Addresses
    <3>3. (S + i - S) % Words = i /\ i < n /\ i < good
      BY <2>2, <2>3, <2>6, <2>7, <3>1, <3>2
    <3>4. mem'[S + i] = 2 + i
      BY <2>1, <2>2, <2>3, <2>4, <3>2, <3>3 DEF Stored, n
    <3> QED BY <3>2, <3>4
  <2> QED BY <1>4, <2>5, <2>8, <2>9
<1>5. CASE CloseProgram
  BY <1>5, <1>a, <1>b DEF CloseProgram, WholeInv, loading
<1>6. CASE Phase1
  <2>1. ~FitsUnder
    <3> SUFFICES ASSUME FitsUnder PROVE FALSE
      OBVIOUS
    <3>1. start = program.start
      BY <1>6 DEF Phase1, WholeInv
    <3>2. program \in Programs
      BY <1>t DEF TInv, TypeOK
    <3>3. program.start \in LOW .. Words - 1 /\ program.size \in Nat
      BY <3>2, Sizes
    <3>4. start + program.size \in 0 .. Words - 1 /\ start + program.size <= BRIDGE + 2
      BY <3>1, <3>3, Sizes DEF FitsUnder
    <3>5. EndAddress = start + program.size
      BY <3>4, ModSmall, Sizes DEF EndAddress, Word
    <3>6. EndAddress > BRIDGE + 2
      BY <1>6 DEF Phase1, NeedsTwoPhases
    <3> QED BY <3>4, <3>5, <3>6, Sizes
  <2> QED BY <1>6, <1>a, <2>1 DEF Phase1, WholeInv
<1>7. CASE Phase2
  BY <1>7, <1>a DEF Phase2, WholeInv
<1>8. CASE FailKey
  BY <1>8 DEF FailKey, WholeInv
<1>9. CASE Calls
  BY <1>9, <1>a, <1>b DEF Calls, NEW_OPEN, NEW_CHRIN_EOF, NEW_CHRIN_Buffered, NEW_CHRIN_Refill,
     NEW_CLOSE, loading, WholeInv
<1>10. CASE UNCHANGED vars
  BY <1>10, <1>a, <1>b DEF vars, loading, WholeInv, IsOpen
<1> QED BY <1>1, <1>2, <1>3, <1>4, <1>5, <1>6, <1>7, <1>8, <1>9, <1>10 DEF Next, Main

-----------------------------------------------------------------------------
(* The theorems.                                                            *)

LEMMA Invariant == Spec => [](IInv /\ WholeInv)
<1>1. Init => IInv /\ WholeInv
  <2> SUFFICES ASSUME Init PROVE IInv /\ WholeInv
    OBVIOUS
  <2>1. CallInv
    BY DEF Init, CallInv, ChannelInv, ReadsInOrder, CallsEndSession
  <2> QED BY <2>1, InitTInv DEF IInv, Init, WholeInv
<1>2. IInv /\ WholeInv /\ [Next]_vars => (IInv /\ WholeInv)'
  BY Inductive, WholeStep
<1> QED BY <1>1, <1>2, PTL DEF Spec

\* Words stay words, positions stay in their files, for every size of both.
THEOREM TypeCorrect == Spec => []TypeOK
<1>1. IInv => TypeOK
  BY DEF IInv, TInv
<1> QED BY <1>1, Invariant, PTL

\* The running program reads each file in order and to its end, for every size of
\* page, word and file.
THEOREM ReadsInOrderHolds == Spec => []ReadsInOrder
<1>1. IInv => ReadsInOrder
  BY DEF IInv, CallInv
<1> QED BY <1>1, Invariant, PTL

\* Between two calls of a running program no session is open.
THEOREM CallsEndSessionHolds == Spec => []CallsEndSession
<1>1. IInv => CallsEndSession
  BY DEF IInv, CallInv
<1> QED BY <1>1, Invariant, PTL

\* A program that fits under the bridge never runs in part, whatever fails.
THEOREM RunsWholeHolds == Spec => []RunsWhole
<1>1. WholeInv => RunsWhole
  BY DEF WholeInv, RunsWhole, FitsUnder
<1> QED BY <1>1, Invariant, PTL
==============================================================================
