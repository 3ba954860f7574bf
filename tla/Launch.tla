------------------------------- MODULE Launch --------------------------------
(***************************************************************************)
(* Starting a program on the C64: the firmware resets it with the cartridge *)
(* ROM visible, sends a header, the loader stub and the bytes of the file,  *)
(* each as the page latch and a pulse on NMI (TransferMenu,                 *)
(* LoadAndLaunchOpenedFile, HandleKoalaInvokeFromOpenFile); the ROM's NMI   *)
(* handlers store them (IRQLoader.65s) until the page count of the header   *)
(* is used up, and the stub, by then in RAM, starts what was loaded         *)
(* (LoaderStub.65s).                                                        *)
(*                                                                         *)
(* A byte has B values, so pages have B bytes, addresses and the uint16_t   *)
(* lengths B * B values.  A byte of a file is its offset; the rest of the   *)
(* data is one of the values below.  A pulse and the handler it starts are  *)
(* one step: TransmitByteSlow and TransmitByteFast wait long enough for it. *)
(***************************************************************************)
EXTENDS Integers, Sequences

CONSTANTS B,                    \* values of a byte (256)
          Files,                \* the programs on the card
          Menu,                 \* EASYSD.PRG, or its copy in flash
          Plugins,              \* what KOAPLUGIN.PRG may be
          BUF_SIZE,             \* bytes read at a time (16)
          CRT_DATA,             \* offset of the ROM image of a CRT (80)
          TAPEBUFFER, STUB_LEN, \* where the stub goes, and its length
          Workspace,            \* the loader's bytes in the zero page
          BASIC_PAGE, BASIC_LOW,    \* $0801, where BASIC programs start
          SYS_TOKEN, HYBRID_END,    \* $0805; $0809, the end of a SYS line
          CARTRIDGE_PAGE, ULTIMAX_PAGE,     \* $80, $E0
          KOA_LOAD_ADDR, KOA_PAYLOAD_SIZE,  \* $2000, 10001
          KOA_PLUGIN_ADDR,                  \* $C000
          KOA_PLUGIN_PAYLOAD_MAX,   \* what fits behind the arguments (206)
          ROWS_AT,              \* of those, the bytes before the row cache (164)
          MaxFailures           \* reads of the card that fail in one launch

Addresses == 0 .. B * B - 1
Kinds == {"menu", "prg", "plugin", "crt", "koala"}
File == [kind: Kinds, size: Nat, load: Addresses]

\* KOAPLUGIN.PRG; none is as one of no bytes.
Plugin == [size: Nat, load: Addresses]

ASSUME LaunchAssumption ==
  /\ B \in Nat /\ B >= 8
  /\ Files \subseteq File /\ Menu \in [kind: {"menu"}, size: Nat, load: Addresses]
  /\ Plugins \subseteq Plugin
  /\ BUF_SIZE \in 1 .. B /\ CRT_DATA \in Nat
  /\ TAPEBUFFER \in Addresses /\ STUB_LEN \in 1 .. B /\ TAPEBUFFER + B <= B * B
  /\ Workspace \subseteq Addresses
  /\ {KOA_LOAD_ADDR, KOA_PLUGIN_ADDR, SYS_TOKEN} \subseteq Addresses
  /\ KOA_PAYLOAD_SIZE \in 1 .. KOA_PLUGIN_ADDR - KOA_LOAD_ADDR
  /\ KOA_PLUGIN_PAYLOAD_MAX \in 1 .. B - 1 /\ ROWS_AT \in Nat
  /\ {BASIC_PAGE, BASIC_LOW, CARTRIDGE_PAGE, ULTIMAX_PAGE} \subseteq 0 .. B - 1
  /\ HYBRID_END \in Addresses
  /\ MaxFailures \in Nat

Zero == -1       \* padding, or a byte that could not be read
Stub == -2       \* a byte of the loader stub
OfPlugin == -3   \* a byte of the Koala displayer
Datum == -3 .. -1 \cup Nat

VARIABLES file,          \* the file being launched
          asked,         \* history: the file the user chose
          plugin,        \* KOAPLUGIN.PRG of this card
          fw,            \* what the firmware does
          left,          \* bytes to send in this phase
          outbox,        \* bytes prepared and not sent (buf, or the header)
          load,          \* the load address, as read from the file
          filePos,       \* position in workingFile
          lost,          \* a byte could not be read (~readOk)
          failures,      \* reads that failed in this launch
          transferIndex, \* decides where TransmitByteFast pauses longer
          fileOpen, listening, exromLow,
          rowsCached,    \* the page's row cache in sharedBuf is intact
          c64,           \* what the C64 does
          header,        \* $69..$72, as far as received
          y, x,          \* its index registers: byte in the page, pages left
          high,          \* ACTUAL_HIGH
          mem            \* its memory, as written by this launch

fwVars == <<file, asked, plugin, fw, left, outbox, load, filePos, lost, failures>>
pins == <<transferIndex, fileOpen, listening, exromLow, rowsCached>>
c64Vars == <<c64, header, y, x, high, mem>>
vars == <<fwVars, pins, c64Vars>>

-----------------------------------------------------------------------------
(* Lengths and the header.                                                  *)

\* contentLength is a uint16_t, except in TransferMenu; the subtraction wraps.
TransferLength(f) ==
  CASE f.kind = "menu" -> f.size - 2
    [] f.kind = "crt" -> (f.size - CRT_DATA) % (B * B)
    [] f.kind = "koala" -> KOA_PLUGIN_ADDR - KOA_LOAD_ADDR + plugin.size - 2
    [] f.kind \in {"prg", "plugin"} -> (f.size - 2) % (B * B)

PadBytes(n) == (-n) % B
\* Mutant of Pages: a last page that is not full is not counted.
PagesFull(n) == n \div B
Pages(n) == (n + PadBytes(n)) \div B
\* Mutant of TransferPages: the count is wider than a byte.
TransferPagesWide(n) == Pages(n)
TransferPages(n) == Pages(n) % B    \* a byte: a whole memory is 0 pages

StartOf(f) == IF f.kind = "koala" THEN KOA_LOAD_ADDR ELSE f.load
LaunchAddress(f) == IF f.kind = "koala" THEN KOA_PLUGIN_ADDR ELSE load

\* startHigh * 256 overflows a 16-bit int from $80 on: what SendHeader adds to is
\* then the address or a negative number; the division rounds towards zero.
Sums == IF 2 * load >= B * B THEN {load, load - B * B} ELSE {load}
HighOf(end) == (IF end >= 0 THEN end \div B ELSE -((-end) \div B)) % B

\* The end addresses SendHeader or SendHeaderToAddress may send.
Ends(f) ==
  IF f.kind = "koala"
  THEN LET end == KOA_LOAD_ADDR + TransferLength(f) + 1 IN {<<end % B, (end \div B) % B>>}
  ELSE {<<(a + TransferLength(f)) % B, HighOf(a + TransferLength(f))>> : a \in Sums}

HeaderLength == 10
TypeOf(f) == CASE f.kind = "menu" -> 0 [] f.kind = "crt" -> 2 [] OTHER -> 1
Headers(f) ==
  {<<LaunchAddress(f) % B, LaunchAddress(f) \div B, TransferPages(TransferLength(f)),
     load % B, load \div B, end[1], end[2], TypeOf(f), 0, 0>>
   : end \in Ends(f)}

-----------------------------------------------------------------------------
(* The NMI handlers of the ROM: header, stub, then pages of data.           *)

Loading == {"header", "stub", "data"}

Stored(a, v) == [b \in DOMAIN mem \cup {a} |-> IF b = a THEN v ELSE mem[b]]

\* STARTNMI
ReceiveHeader(v) ==
  /\ c64 = "header"
  /\ header' = Append(header, v)
  /\ IF Len(header') = HeaderLength THEN c64' = "stub" /\ y' = 0
                                    ELSE c64' = c64 /\ y' = y + 1
  /\ UNCHANGED <<x, high, mem>>

\* LAUNCHERNMI
ReceiveStub(v) ==
  /\ c64 = "stub"
  /\ mem' = Stored(TAPEBUFFER + y, v)
  /\ y' = (y + 1) % B
  /\ IF y' = 0 THEN c64' = "data" /\ x' = header[3] /\ high' = header[5]
               ELSE UNCHANGED <<c64, x, high>>
  /\ UNCHANGED header

\* Mutant of PageDone: the page count is tested before it is decremented.
PageDoneEarly == x = 1 \/ x = 2
\* BLOCKEND: DEX, then BEQ.
PageDone == x = 1

\* NMI_X1.  What overwrites the pointers of the zero page ends the loading.
ReceiveData(v) ==
  LET a == (header[4] + high * B + y) % (B * B) IN
  /\ c64 \in {"data", "loaded"}
  /\ mem' = Stored(a, v)
  /\ y' = (y + 1) % B
  /\ IF y' = 0 THEN high' = (high + 1) % B /\ x' = (x - 1) % B ELSE UNCHANGED <<high, x>>
  /\ c64' = CASE a \in Workspace -> "wrecked"
              [] a \notin Workspace /\ y' = 0 /\ PageDone -> "loaded"
              [] OTHER -> c64
  /\ UNCHANGED header

\* An NMI finds no handler of the loader before the ROM has set one or after
\* the stub has restored the vector.
Ignored == c64 \notin Loading \cup {"loaded"} /\ UNCHANGED c64Vars

Nmi(v) == ReceiveHeader(v) \/ ReceiveStub(v) \/ ReceiveData(v) \/ Ignored

TransmitByteSlow(v) == Nmi(v) /\ UNCHANGED transferIndex
TransmitByteFast(v) == Nmi(v) /\ transferIndex' = (transferIndex + 1) % B


-----------------------------------------------------------------------------
(* The firmware: every launch goes through these phases.                    *)

Init ==
  /\ file = Menu /\ asked = Menu /\ plugin \in Plugins
  /\ fw = "idle" /\ left = 0 /\ outbox = << >> /\ load = 0 /\ filePos = 0
  /\ lost = FALSE /\ failures = 0
  /\ transferIndex = 0 /\ fileOpen = FALSE /\ listening = TRUE /\ exromLow = FALSE
  /\ rowsCached = FALSE
  /\ c64 = "off" /\ header = << >> /\ y = 0 /\ x = 0 /\ high = 0
  /\ mem = << >>

\* EndListening, EnableCartridge, ResetC64, with the file open.
ResetC64(f, pos) ==
  /\ file' = f /\ fw' = "reset" /\ filePos' = pos
  /\ left' = 0 /\ outbox' = << >> /\ load' = 0 /\ lost' = FALSE /\ failures' = 0
  /\ fileOpen' = TRUE /\ listening' = FALSE /\ exromLow' = TRUE
  /\ c64' = "boot" /\ header' = << >> /\ y' = 0 /\ x' = 0 /\ high' = 0
  /\ mem' = << >>
  /\ UNCHANGED <<plugin, transferIndex>>

\* A press of SEL.  The button is only looked at between commands.
TransferMenu ==
  /\ fw = "idle"
  /\ asked' = Menu /\ ResetC64(Menu, 0) /\ UNCHANGED rowsCached

\* Mutant of AddressReads: the address of a CRT is read low byte first.
AddressReadsLowFirst ==
  {[load |-> IF file.kind = "crt" THEN (file.load % B) * B + file.load \div B ELSE file.load,
    pos |-> 2, failed |-> FALSE]}
\* The two bytes of the load address, each 255 if it cannot be read; the next
\* read then gets the byte meant for this one.  A CRT has its high byte first.
AddressReads ==
  LET first == IF file.kind = "crt" THEN file.load \div B ELSE file.load % B
      second == IF file.kind = "crt" THEN file.load % B ELSE file.load \div B
      At(one, two) == IF file.kind = "crt" THEN one * B + two ELSE two * B + one
  IN {[load |-> file.load, pos |-> 2, failed |-> FALSE],
      [load |-> At(B - 1, first), pos |-> 1, failed |-> TRUE],
      [load |-> At(first, B - 1), pos |-> 1, failed |-> TRUE]}

\* Mutant of StartIndex: ResetIndex is not called.
StartIndexKept == transferIndex
\* ResetIndex
StartIndex == 0

\* The delay after the reset is over, and with it the start of the C64.
ReadAddress ==
  /\ fw = "reset" /\ c64 # "boot"
  /\ \E r \in (IF file.kind = "koala"
               THEN {[load |-> KOA_LOAD_ADDR, pos |-> filePos, failed |-> FALSE]}
               ELSE AddressReads) :
       /\ r.failed => failures < MaxFailures
       /\ load' = r.load
       /\ filePos' = IF file.kind = "crt" THEN CRT_DATA ELSE r.pos
       /\ lost' = r.failed /\ failures' = failures + (IF r.failed THEN 1 ELSE 0)
  /\ fw' = "address" /\ transferIndex' = StartIndex
  /\ UNCHANGED <<file, asked, plugin, left, outbox, fileOpen, listening, exromLow,
                 rowsCached, c64Vars>>

PrepareHeader ==
  /\ fw = "address"
  /\ \E h \in Headers(file) : outbox' = h
  /\ fw' = "header"
  /\ UNCHANGED <<file, asked, plugin, left, load, filePos, lost, failures, pins, c64Vars>>

SendHeader ==
  /\ fw = "header" /\ outbox # << >>
  /\ TransmitByteSlow(Head(outbox)) /\ outbox' = Tail(outbox)
  /\ UNCHANGED <<file, asked, plugin, fw, left, load, filePos, lost, failures,
                 fileOpen, listening, exromLow, rowsCached>>

\* What follows a phase, and how many bytes it sends.
Following(p) ==
  CASE p = "header" -> "stub"
    [] p = "stub" -> "file"
    [] p = "file" -> IF file.kind = "koala" THEN "gap" ELSE "pad"
    [] p = "gap" -> "displayer"
    [] p = "displayer" -> "pad"
    [] p = "pad" -> "settle"

Amount(p) ==
  CASE p = "stub" -> B
    [] p = "file" -> IF file.kind = "koala" THEN KOA_PAYLOAD_SIZE ELSE TransferLength(file)
    [] p = "gap" -> KOA_PLUGIN_ADDR - KOA_LOAD_ADDR - KOA_PAYLOAD_SIZE
    [] p = "displayer" -> plugin.size - 2
    [] p = "pad" -> PadBytes(TransferLength(file))
    [] p = "settle" -> 0

NextPhase ==
  /\ fw \in {"header", "stub", "file", "gap", "displayer", "pad"}
  /\ left = 0 /\ outbox = << >>
  /\ fw' = Following(fw) /\ left' = Amount(fw')
  /\ transferIndex' = IF fw = "stub" THEN 0 ELSE transferIndex
  /\ UNCHANGED <<file, asked, plugin, outbox, load, filePos, lost, failures,
                 fileOpen, listening, exromLow, rowsCached, c64Vars>>

\* SendLoaderStub, TransmitZeroBytes, TransmitMemoryBytes.
SendFiller ==
  /\ fw \in {"stub", "gap", "displayer", "pad"} /\ left > 0
  /\ TransmitByteFast(CASE fw = "stub" -> IF B - left < STUB_LEN THEN Stub ELSE Zero
                        [] fw = "displayer" -> OfPlugin
                        [] fw \in {"gap", "pad"} -> Zero)
  /\ left' = left - 1
  /\ UNCHANGED <<file, asked, plugin, fw, outbox, load, filePos, lost, failures,
                 fileOpen, listening, exromLow, rowsCached>>

\* TransmitFileBytes, and the loop of TransferMenu, which reads single bytes.
\* A read that fails may have moved the position, and zeros are sent for it.
ReadFile ==
  /\ fw = "file" /\ left > 0 /\ outbox = << >>
  /\ LET size == IF file.kind = "menu" THEN 1 ELSE BUF_SIZE
         want == IF left < size THEN left ELSE size
         there == IF filePos > file.size THEN 0 ELSE file.size - filePos
         n == IF there < want THEN there ELSE want
     IN /\ left' = left - want
        /\ \/ /\ outbox' = [i \in 1 .. want |-> IF i <= n THEN filePos + i - 1 ELSE Zero]
              /\ filePos' = filePos + n
              /\ lost' = (lost \/ n = 0)
              /\ UNCHANGED failures
           \/ /\ failures < MaxFailures
              /\ failures' = failures + 1
              /\ outbox' = [i \in 1 .. want |-> Zero]
              /\ \E k \in 0 .. want - 1 : k <= n /\ filePos' = filePos + k
              /\ lost' = TRUE
  /\ UNCHANGED <<file, asked, plugin, fw, load, pins, c64Vars>>

SendFile ==
  /\ fw = "file" /\ outbox # << >>
  /\ TransmitByteFast(Head(outbox)) /\ outbox' = Tail(outbox)
  /\ UNCHANGED <<file, asked, plugin, fw, left, load, filePos, lost, failures,
                 fileOpen, listening, exromLow, rowsCached>>

\* DisableCartridge, 30 us after the last byte: a C64 that has all its pages has
\* left the ROM by then, one that waits for more loses it under its feet.
DisableCartridge ==
  /\ fw = "settle" /\ c64 # "loaded"
  /\ fw' = "idle" /\ exromLow' = FALSE /\ fileOpen' = FALSE
  /\ listening' = (file.kind \in {"menu", "plugin"})
  /\ c64' = IF c64 \in Loading THEN "wrecked" ELSE c64
  /\ UNCHANGED <<file, asked, plugin, left, outbox, load, filePos, lost, failures,
                 transferIndex, rowsCached, header, y, x, high, mem>>

Firmware ==
  \/ ReadAddress \/ PrepareHeader \/ SendHeader \/ NextPhase \/ SendFiller
  \/ ReadFile \/ SendFile \/ DisableCartridge

-----------------------------------------------------------------------------
(* The C64 in its ROM, in the stub, and in the menu.                        *)

\* The reset sequence of the ROM, up to its foreground loop.
Boot ==
  /\ c64 = "boot"
  /\ c64' = "header"
  /\ UNCHANGED <<fwVars, pins, header, y, x, high, mem>>

\* WAIT sees BITTARGET and jumps to the stub.
LeaveRom ==
  /\ c64 = "loaded"
  /\ c64' = IF exromLow THEN "left" ELSE "wrecked"
  /\ UNCHANGED <<fwVars, pins, header, y, x, high, mem>>

EndWord == header[7] * B + header[6]

\* SHOULD_RUN_BASIC.  A byte of the file may be the SYS token.
RunsBasic(token) ==
  \/ header[2] = BASIC_PAGE /\ header[1] = BASIC_LOW
  \/ /\ header[2] < BASIC_PAGE
     /\ EndWord >= HYBRID_END
     /\ SYS_TOKEN \in DOMAIN mem /\ token

StartedBy(token) ==
  IF RunsBasic(token) THEN "basic"
  ELSE CASE header[2] = CARTRIDGE_PAGE -> "cartridge"
         [] header[2] >= ULTIMAX_PAGE -> "ultimax"
         [] OTHER -> "machine"

StubIntact ==
  \A i \in 0 .. STUB_LEN - 1 :
    TAPEBUFFER + i \in DOMAIN mem /\ mem[TAPEBUFFER + i] = Stub

\* The last byte is sent, and the cartridge will be hidden at once.
Finishing ==
  fw = "settle" \/ (fw \in {"file", "displayer", "pad"} /\ left = 0 /\ outbox = << >>)

\* The stub takes longer than the firmware's 30 us.
RunStub ==
  /\ c64 = "left" /\ ~Finishing
  /\ \E token \in BOOLEAN :
       c64' = CASE ~StubIntact -> "wrecked"
                [] StubIntact /\ file.kind = "menu" -> IF lost THEN "wrecked" ELSE "starting"
                [] OTHER -> StartedBy(token)
  /\ UNCHANGED <<fwVars, pins, header, y, x, high, mem>>

\* The menu asks for a page, when it starts and then at the user's wish.  What
\* else a session transmits leaves any index behind.
ReadPage ==
  /\ c64 \in {"starting", "menu"} /\ fw = "idle" /\ listening
  /\ c64' = "menu" /\ rowsCached' = TRUE /\ transferIndex' \in 0 .. B - 1
  /\ UNCHANGED <<fwVars, fileOpen, listening, exromLow, header, y, x, high, mem>>

Serving == c64 = "menu" /\ fw = "idle" /\ listening

\* The row cache says which file the row is; without it any file is opened.
Opened(f) == IF rowsCached THEN {f} ELSE Files

\* HandleInvokeWithIndex and, for a plugin, HandleInvokeWithName.
LaunchProgram(f) ==
  /\ Serving /\ f.kind # "koala"
  /\ asked' = f
  /\ \E g \in Opened(f) : g.kind # "koala" /\ ResetC64(g, 0)
  /\ UNCHANGED rowsCached

\* The file cannot be opened: after a program the menu waits for ever, after a
\* picture it goes on.
LaunchFails(f) ==
  /\ Serving /\ (MaxFailures > 0 \/ ~rowsCached)
  /\ c64' = IF f.kind = "koala" THEN c64 ELSE "stuck"
  /\ UNCHANGED <<fwVars, pins, header, y, x, high, mem>>

PictureFits(f) == f.size \in {KOA_PAYLOAD_SIZE, KOA_PAYLOAD_SIZE + 2}
DisplayerFits ==
  /\ plugin.size - 2 \in 1 .. KOA_PLUGIN_PAYLOAD_MAX
  /\ plugin.load = KOA_PLUGIN_ADDR

\* Mutant of OverwritesRows: the displayer is read to the start of sharedBuf.
OverwritesRowsAlways == plugin.size > 2
\* The displayer is read into sharedBuf, in front of the row cache.
OverwritesRows == plugin.size - 2 > ROWS_AT

\* HandleKoalaInvokeFromOpenFile
LaunchPicture(f) ==
  /\ Serving /\ f.kind = "koala" /\ PictureFits(f) /\ DisplayerFits
  /\ asked' = f
  /\ \E g \in {h \in Opened(f) : h.kind = "koala" /\ PictureFits(h)} :
       ResetC64(g, g.size - KOA_PAYLOAD_SIZE)
  /\ rowsCached' = (rowsCached /\ ~OverwritesRows)

\* The displayer is there and cannot be read; the menu goes on.
DisplayerUnread(f) ==
  /\ Serving /\ f.kind = "koala" /\ PictureFits(f) /\ DisplayerFits /\ MaxFailures > 0
  /\ rowsCached' = (rowsCached /\ ~OverwritesRows) /\ fileOpen' = FALSE
  /\ UNCHANGED <<fwVars, transferIndex, listening, exromLow, c64Vars>>

\* A picture or a displayer that is not what is expected is refused.
RefusePicture(f) ==
  /\ Serving /\ f.kind = "koala" /\ ~(PictureFits(f) /\ DisplayerFits)
  /\ fileOpen' = FALSE
  /\ UNCHANGED <<fwVars, transferIndex, listening, exromLow, rowsCached, c64Vars>>

User ==
  \/ TransferMenu
  \/ \E f \in Files : \/ LaunchProgram(f) \/ LaunchFails(f)
                      \/ LaunchPicture(f) \/ DisplayerUnread(f) \/ RefusePicture(f)
C64 == Boot \/ LeaveRom \/ RunStub \/ ReadPage

Next == User \/ Firmware \/ C64

\* The firmware's code runs on; so does the C64's, up to where it waits.
Fairness == WF_vars(Firmware) /\ WF_vars(Boot \/ LeaveRom \/ RunStub)
Spec == Init /\ [][Next]_vars /\ Fairness

-----------------------------------------------------------------------------
(* Properties.                                                              *)

\* Every variable holds values of its kind: the page counter of the C64 stays a
\* byte, its index below the length of what it receives.
TypeOK ==
  /\ {file, asked} \subseteq Files \cup {Menu} /\ plugin \in Plugins
  /\ fw \in {"idle", "reset", "address", "header", "stub", "file", "gap", "displayer",
             "pad", "settle"}
  /\ left \in Nat /\ load \in Addresses /\ filePos \in Nat
  /\ outbox \in Seq(Datum)
  /\ failures \in 0 .. MaxFailures /\ transferIndex \in 0 .. B - 1
  /\ {lost, fileOpen, listening, exromLow, rowsCached} \subseteq BOOLEAN
  /\ c64 \in {"off", "boot", "loaded", "left", "wrecked", "stuck", "starting", "menu",
              "basic", "cartridge", "ultimax", "machine"} \cup Loading
  /\ header \in Seq(Datum) /\ Len(header) <= HeaderLength
  /\ {x, high} \subseteq 0 .. B - 1
  /\ y \in 0 .. HeaderLength \cup 0 .. B - 1 /\ (c64 \in {"stub", "data"} => y < B)
  /\ DOMAIN mem \subseteq Addresses /\ \A a \in DOMAIN mem : mem[a] \in Datum

DataLength == TransferLength(file)

\* A program the loader can hold: it is as long as its length says, has at least
\* a byte, and its pages leave out the loader's own memory.
Fits(f) ==
  LET n == TransferLength(f)
      written == {(StartOf(f) + i) % (B * B) : i \in 0 .. Pages(n) * B - 1}
  IN /\ f.size < B * B /\ f.size > (IF f.kind = "crt" THEN CRT_DATA ELSE 2)
     /\ written \cap (Workspace \cup TAPEBUFFER .. TAPEBUFFER + STUB_LEN - 1) = {}

Started == {"starting", "menu", "basic", "cartridge", "ultimax", "machine"}
Sending == {"header", "stub", "file", "gap", "displayer", "pad"}

\* The byte of the launch that belongs at distance i from the load address.
Expected(i) ==
  CASE file.kind = "crt" -> CRT_DATA + i
    [] file.kind = "koala" -> IF i < KOA_PAYLOAD_SIZE THEN file.size - KOA_PAYLOAD_SIZE + i
                              ELSE IF i < KOA_PLUGIN_ADDR - KOA_LOAD_ADDR THEN Zero
                              ELSE OfPlugin
    [] OTHER -> 2 + i

\* Whatever the file, the loader leaves the ROM with every byte of the program
\* at its address, none lost, repeated or shifted, and with the address after its
\* last byte in $AE/$AF (as SHOULD_RUN_BASIC and many programs expect) if it is
\* loaded below $8000, unless the card failed.
LoadedWhole ==
  c64 = "left" /\ Fits(file) /\ ~lost =>
    /\ \A i \in 0 .. DataLength - 1 :
         LET a == (StartOf(file) + i) % (B * B) IN a \in DOMAIN mem /\ mem[a] = Expected(i)
    /\ 2 * load < B * B /\ file.kind # "koala" => EndWord = (load + DataLength) % (B * B)

\* The C64 has all its pages exactly when the firmware has sent its last byte:
\* no NMI comes to a program that has started, and the ROM is hidden by then, so
\* that a cartridge image finds itself at $8000.
NothingAfterStart ==
  Fits(file) /\ ~lost =>
    /\ c64 \in {"loaded", "left"} /\ fw # "idle" => Finishing
    /\ c64 \in Started => fw = "idle" /\ ~exromLow
    /\ fw = "settle" => c64 \notin Loading

\* TransmitByteFast makes its longer pause at the bytes after which the handler
\* ends a page, whatever was transmitted before the launch.
PausesAtBlockEnds ==
  fw \in Sending \ {"header"} /\ c64 \in {"stub", "data", "loaded"} => transferIndex = y

\* A row starts what it shows, after any pictures that could not be shown, if
\* the displayer ends before the row cache.
RowStarts ==
  plugin.size - 2 <= ROWS_AT /\ fw # "idle" => file = asked

\* A program the loader can hold gets to its stub, unless the card failed.
ProgramStarts == fw = "reset" /\ Fits(file) ~> c64 = "left" \/ lost

=============================================================================
