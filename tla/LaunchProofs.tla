----------------------------- MODULE LaunchProofs ------------------------------
(***************************************************************************)
(* Proofs about Launch, for every width of a byte, all programs, menus and  *)
(* displayers, and every length of a launch.                                *)
(***************************************************************************)
EXTENDS Launch, SequenceTheorems, NatFacts, TLAPS

-----------------------------------------------------------------------------
(* Words and pages.                                                         *)

\* The menu, on the card or in flash, has its load address.
MenuIsThere == \A f \in Files \cup {Menu} : f.kind = "menu" => f.size >= 2

Bytes == 0 .. B - 1

LEMMA Constants ==
  /\ B \in Nat \ {0} /\ B >= 8 /\ B * B \in Nat \ {0}
  /\ Files \subseteq File /\ Menu \in File /\ Menu.kind = "menu" /\ Plugins \subseteq Plugin
  /\ BUF_SIZE \in 1 .. B /\ CRT_DATA \in Nat
  /\ TAPEBUFFER \in Addresses /\ STUB_LEN \in 1 .. B /\ TAPEBUFFER + B <= B * B
  /\ {KOA_LOAD_ADDR, KOA_PLUGIN_ADDR, SYS_TOKEN} \subseteq Addresses
  /\ KOA_PAYLOAD_SIZE \in 1 .. KOA_PLUGIN_ADDR - KOA_LOAD_ADDR
  /\ KOA_PLUGIN_PAYLOAD_MAX \in 1 .. B - 1 /\ ROWS_AT \in Nat /\ MaxFailures \in Nat
  /\ Addresses \subseteq Nat
<1>1. B \in Nat \ {0} /\ B >= 8
  BY LaunchAssumption
<1>2. B * B \in Nat \ {0}
  <2>1. \A b \in Nat \ {0} : b * b \in Nat \ {0}
    OBVIOUS
  <2> QED BY <1>1, <2>1
<1>3. Menu \in File /\ Menu.kind = "menu"
  BY LaunchAssumption DEF File, Kinds
<1> QED BY <1>1, <1>2, <1>3, LaunchAssumption DEF Addresses

\* A word of two bytes, and the two bytes of a word.
LEMMA WordOf ==
  ASSUME NEW hi \in Bytes, NEW lo \in Bytes
  PROVE  hi * B + lo \in Addresses
<1>1. ASSUME NEW b \in Nat \ {0}, NEW h \in 0 .. b - 1, NEW l \in 0 .. b - 1
      PROVE  h * b + l \in 0 .. b * b - 1
  <2>1. h * b <= (b - 1) * b
    OBVIOUS
  <2>2. h * b + l \in Nat /\ (b - 1) * b = b * b - b
    OBVIOUS
  <2> QED BY <2>1, <2>2
<1> QED BY <1>1, Constants DEF Bytes, Addresses

LEMMA BytesOf ==
  ASSUME NEW a \in Addresses
  PROVE  a % B \in Bytes /\ a \div B \in Bytes /\ a = B * (a \div B) + (a % B)
<1>1. ASSUME NEW b \in Nat \ {0}, NEW n \in 0 .. b * b - 1, NEW q \in Int, NEW r \in 0 .. b - 1,
             n = b * q + r
      PROVE  q \in 0 .. b - 1
  <2>1. CASE q < 0
    <3>1. b * q <= b * (-1)
      BY <2>1
    <3> QED BY <1>1, <3>1
  <2>2. CASE q >= b
    <3>1. b * q >= b * b
      BY <2>2
    <3> QED BY <1>1, <3>1
  <2> QED BY <2>1, <2>2
<1>2. PICK q \in Int, r \in 0 .. B - 1 : a = B * q + r /\ a % B = r /\ a \div B = q
  BY DivMod, Constants
<1> QED BY <1>1, <1>2, Constants DEF Bytes, Addresses

LEMMA RemainderIsByte ==
  ASSUME NEW n \in Int
  PROVE  n % B \in Bytes
<1>1. PICK q \in Int, r \in 0 .. B - 1 : n % B = r
  BY DivMod, Constants
<1> QED BY <1>1 DEF Bytes

LEMMA RemainderIsAddress ==
  ASSUME NEW n \in Int
  PROVE  n % (B * B) \in Addresses
<1>1. PICK q \in Int, r \in 0 .. B * B - 1 : n % (B * B) = r
  BY DivMod, Constants
<1> QED BY <1>1 DEF Addresses

\* The padding fills the last page.
LEMMA Paging ==
  ASSUME NEW n \in Nat
  PROVE  /\ PadBytes(n) \in Bytes /\ Pages(n) \in Nat /\ n + PadBytes(n) = B * Pages(n)
         /\ TransferPages(n) \in Bytes
<1>0. -n \in Int
  OBVIOUS
<1>1. PICK q \in Int, r \in 0 .. B - 1 : -n = B * q + r /\ (-n) % B = r
  BY <1>0, DivMod, Constants
<1>2. PadBytes(n) = r
  BY <1>1 DEF PadBytes
<1>3. n + PadBytes(n) = B * (-q) + 0
  BY <1>1, <1>2, Constants
<1>4. n + PadBytes(n) \in Int /\ -q \in Int /\ 0 \in 0 .. B - 1
  BY <1>1, <1>2, Constants
<1>5. Pages(n) = -q
  BY <1>3, <1>4, ModUnique, Constants DEF Pages
<1>6. -q >= 0
  <2>1. SUFFICES ASSUME q >= 1
                 PROVE  FALSE
    BY <1>1
  <2>2. B * q >= B
    BY <2>1, <1>1, Constants
  <2> QED BY <1>1, <2>2, Constants
<1>7. TransferPages(n) \in Bytes
  BY <1>5, RemainderIsByte DEF TransferPages
<1>8. -q \in Nat
  BY <1>4, <1>6
<1>9. n + PadBytes(n) = B * Pages(n)
  BY <1>1, <1>3, <1>5, Constants
<1> QED BY <1>1, <1>2, <1>5, <1>7, <1>8, <1>9 DEF Bytes

\* A picture is only launched with a displayer that fits behind it.
KoaOK ==
  file.kind = "koala" => DisplayerFits /\ PictureFits(file)

KindsOK ==
  {file, asked} \subseteq Files \cup {Menu} /\ plugin \in Plugins /\ load \in Addresses

LEMMA LengthIsNat ==
  ASSUME MenuIsThere, KindsOK, KoaOK
  PROVE  TransferLength(file) \in Nat
<1>1. file \in File /\ plugin \in Plugin
  BY Constants DEF KindsOK
<1>2. file.size \in Nat /\ plugin.size \in Int /\ file.kind \in Kinds
  BY <1>1 DEF File, Plugin
<1>3. CASE file.kind = "menu"
  BY <1>2, <1>3 DEF MenuIsThere, KindsOK, TransferLength
<1>4. CASE file.kind = "crt"
  <2>1. file.size - CRT_DATA \in Int
    BY <1>2, Constants
  <2> QED BY <2>1, <1>4, RemainderIsAddress, Constants DEF TransferLength
<1>5. CASE file.kind = "koala"
  BY <1>2, <1>5, Constants DEF TransferLength, KoaOK, DisplayerFits
<1>6. CASE file.kind \in {"prg", "plugin"}
  <2>1. file.size - 2 \in Int
    BY <1>2
  <2>2. TransferLength(file) = (file.size - 2) % (B * B)
    BY <1>6 DEF TransferLength
  <2> QED BY <2>1, <2>2, RemainderIsAddress, Constants
<1> QED BY <1>2, <1>3, <1>4, <1>5, <1>6 DEF Kinds

LEMMA HeaderFacts ==
  ASSUME MenuIsThere, KindsOK, KoaOK, NEW h \in Headers(file)
  PROVE  /\ h \in Seq(Bytes) /\ Len(h) = HeaderLength
         /\ h[3] = TransferPages(TransferLength(file))
         /\ h[4] = load % B /\ h[5] = load \div B
         /\ <<h[6], h[7]>> \in Ends(file)
<1>1. PICK end \in Ends(file) :
        h = <<LaunchAddress(file) % B, LaunchAddress(file) \div B,
              TransferPages(TransferLength(file)), load % B, load \div B, end[1], end[2],
              TypeOf(file), 0, 0>>
  BY DEF Headers
<1>2. LaunchAddress(file) % B \in Bytes /\ LaunchAddress(file) \div B \in Bytes
      /\ load % B \in Bytes /\ load \div B \in Bytes
  BY BytesOf, Constants DEF LaunchAddress, KindsOK
<1>3. TransferPages(TransferLength(file)) \in Bytes
  BY LengthIsNat, Paging
<1>4. end = <<end[1], end[2]>> /\ end[1] \in Bytes /\ end[2] \in Bytes
  <2>1. CASE file.kind = "koala"
    <3>1. KOA_LOAD_ADDR + TransferLength(file) + 1 \in Nat
      <4>1. KOA_LOAD_ADDR \in Nat /\ TransferLength(file) \in Nat
        BY LengthIsNat, Constants
      <4> QED BY <4>1
    <3> DEFINE e == KOA_LOAD_ADDR + TransferLength(file) + 1
    <3>2. e % B \in Bytes /\ e \div B \in Int /\ (e \div B) % B \in Bytes
      BY <3>1, DivMod, RemainderIsByte, Constants
    <3>3. end = <<e % B, (e \div B) % B>>
      BY <2>1 DEF Ends
    <3> QED BY <3>2, <3>3
  <2>2. CASE file.kind # "koala"
    <3>1. PICK a \in Sums : end = <<(a + TransferLength(file)) % B, HighOf(a + TransferLength(file))>>
      BY <2>2 DEF Ends
    <3>2. a \in Int
      BY Constants DEF Sums, KindsOK
    <3>3. a + TransferLength(file) \in Int
      BY <3>2, LengthIsNat
    <3>4. ASSUME NEW e \in Int
          PROVE  e % B \in Bytes /\ HighOf(e) \in Bytes
      <4>1. e \div B \in Int /\ -((-e) \div B) \in Int
        BY Constants
      <4> QED BY <4>1, RemainderIsByte DEF HighOf
    <3> QED BY <3>1, <3>3, <3>4
  <2> QED BY <2>1, <2>2
<1>5. TypeOf(file) \in Bytes /\ 0 \in Bytes
  BY Constants DEF TypeOf, Bytes
<1> HIDE DEF Bytes, Ends
<1>6. h \in Seq(Bytes) /\ Len(h) = 10
  BY <1>1, <1>2, <1>3, <1>4, <1>5
<1> QED BY <1>1, <1>4, <1>6 DEF HeaderLength

-----------------------------------------------------------------------------
(* Where the firmware and the C64 are in each phase of a launch.            *)

Loader == {"file", "gap", "displayer", "pad", "settle"}

IdleInv == exromLow <=> fw # "idle"

ResetInv ==
  fw = "reset" =>
    /\ c64 \in {"boot", "header"} /\ header = << >> /\ y = 0 /\ mem = << >>
    /\ left = 0 /\ outbox = << >> /\ ~lost

AddressInv ==
  fw = "address" =>
    /\ c64 = "header" /\ header = << >> /\ y = 0 /\ transferIndex = 0
    /\ left = 0 /\ outbox = << >>

\* What of the header the C64 does not have is in the outbox.
HeaderInv ==
  fw = "header" =>
    /\ left = 0 /\ transferIndex = 0
    /\ header \in Seq(Bytes) /\ outbox \in Seq(Bytes) /\ header \o outbox \in Headers(file)
    /\ \/ c64 = "header" /\ y = Len(header) /\ outbox # << >>
       \/ c64 = "stub" /\ y = 0 /\ outbox = << >>

\* The stub is a page of its own.
StubInv ==
  fw = "stub" =>
    /\ outbox = << >> /\ transferIndex = y /\ header \in Headers(file)
    /\ \/ c64 = "stub" /\ y < B /\ left = B - y
       \/ c64 = "data" /\ y = 0 /\ left = 0 /\ x = header[3] /\ high = header[5]

LoaderInv ==
  fw \in Loader =>
    /\ c64 \notin {"off", "boot", "header", "stub"}
    /\ fw # "file" => outbox = << >>
    /\ fw \in {"gap", "displayer"} => file.kind = "koala"
    /\ fw = "settle" => left = 0
    /\ c64 \in {"data", "loaded"} => transferIndex = y

\* The C64 keeps the header it was sent.
HeaderHeld ==
  c64 \in {"stub", "data", "loaded", "left"} => header \in Headers(file)

\* The C64 waits for a header only while one is to come.
Waiting ==
  c64 \in {"boot", "header"} => fw \in {"reset", "address", "header"}
StubWaiting ==
  c64 = "stub" => fw \in {"header", "stub"}

PhaseInv ==
  /\ IdleInv /\ ResetInv /\ AddressInv /\ HeaderInv /\ StubInv /\ LoaderInv
  /\ HeaderHeld /\ Waiting /\ StubWaiting
  /\ c64 \in {"stub", "data", "loaded"} => y < B

TInv == MenuIsThere /\ TypeOK /\ KoaOK /\ PhaseInv

LEMMA Facts ==
  ASSUME TInv
  PROVE  /\ KindsOK /\ TransferLength(file) \in Nat
         /\ file.size \in Nat /\ file.kind \in Kinds /\ plugin.size \in Nat
         /\ fw # "idle" => fw \in Sending \cup {"reset", "address", "settle"}
         /\ y \in Nat /\ left \in Nat /\ x \in Bytes /\ high \in Bytes
<1>1. KindsOK
  BY DEF TInv, TypeOK, KindsOK
<1>2. TransferLength(file) \in Nat
  BY <1>1, LengthIsNat DEF TInv
<1>3. file.size \in Nat /\ file.kind \in Kinds /\ plugin.size \in Nat
  <2>1. file \in File /\ plugin \in Plugin
    BY <1>1, Constants DEF KindsOK
  <2> QED BY <2>1 DEF File, Plugin
<1>4. fw # "idle" => fw \in Sending \cup {"reset", "address", "settle"}
  BY DEF TInv, TypeOK, Sending
<1>5. y \in Nat
  <2>1. y \in 0 .. HeaderLength \/ y \in 0 .. B - 1
    BY DEF TInv, TypeOK
  <2> QED BY <2>1
<1>6. left \in Nat /\ x \in Bytes /\ high \in Bytes
  BY DEF TInv, TypeOK, Bytes
<1> QED BY <1>1, <1>2, <1>3, <1>4, <1>5, <1>6

LEMMA TypeInit == MenuIsThere /\ Init => TInv
<1> SUFFICES ASSUME MenuIsThere, Init PROVE TInv
  OBVIOUS
<1>1. outbox \in Seq(Datum) /\ header \in Seq(Datum) /\ Len(header) = 0
  BY EmptySeq DEF Init
<1>2. TypeOK
  <2>1. 0 \in Addresses /\ 0 \in 0 .. B - 1 /\ 0 \in 0 .. MaxFailures /\ 0 \in 0 .. HeaderLength
    BY Constants DEF Addresses, HeaderLength
  <2>2. mem = << >> /\ DOMAIN mem = {}
    BY DEF Init
  <2>3. {lost, fileOpen, listening, exromLow, rowsCached} \subseteq BOOLEAN
    BY DEF Init
  <2> QED BY <1>1, <2>1, <2>2, <2>3 DEF Init, TypeOK
<1>3. KoaOK /\ PhaseInv
  BY Constants
     DEF Init, KoaOK, PhaseInv, IdleInv, ResetInv, AddressInv, HeaderInv, StubInv, LoaderInv,
         HeaderHeld, Waiting, StubWaiting, Loader
<1> QED BY <1>2, <1>3 DEF TInv

\* A byte stored in memory.
LEMMA StoredFacts ==
  ASSUME NEW a \in Addresses, NEW v \in Datum,
         DOMAIN mem \subseteq Addresses, \A b \in DOMAIN mem : mem[b] \in Datum
  PROVE  /\ DOMAIN Stored(a, v) = DOMAIN mem \cup {a}
         /\ DOMAIN Stored(a, v) \subseteq Addresses
         /\ \A b \in DOMAIN Stored(a, v) : Stored(a, v)[b] \in Datum
         /\ Stored(a, v)[a] = v
         /\ \A b \in DOMAIN mem : b # a => Stored(a, v)[b] = mem[b]
BY DEF Stored

LEMMA NextByte ==
  \A n \in Nat : /\ (n + 1) % B \in Bytes
                 /\ n < B => (n + 1) % B = IF n + 1 = B THEN 0 ELSE n + 1
<1> SUFFICES ASSUME NEW n \in Nat
             PROVE  /\ (n + 1) % B \in Bytes
                    /\ n < B => (n + 1) % B = IF n + 1 = B THEN 0 ELSE n + 1
  OBVIOUS
<1>1. n < B => n % B = n
  BY ModSmall, Constants
<1>2. n \in Int /\ n + 1 \in Int /\ B \in Nat \ {0}
  BY Constants
<1>3. (n + 1) % B = IF n % B = B - 1 THEN 0 ELSE (n % B) + 1
  BY <1>2, ModStep
<1>4. (n + 1) % B \in Bytes
  BY <1>2, RemainderIsByte
<1> QED BY <1>1, <1>2, <1>3, <1>4

\* What an NMI of a data phase does.
ReceivesData(v) ==
  LET a == (header[4] + high * B + y) % (B * B) IN
  /\ a \in Addresses /\ mem' = Stored(a, v)
  /\ y' = (y + 1) % B
  /\ high' = IF y' = 0 THEN (high + 1) % B ELSE high
  /\ x' = IF y' = 0 THEN (x - 1) % B ELSE x
  /\ c64' = (IF a \in Workspace THEN "wrecked" ELSE IF y' = 0 /\ PageDone THEN "loaded" ELSE c64)
  /\ header' = header

LEMMA DataNmi ==
  ASSUME TInv, NEW v \in Datum, Nmi(v), c64 \notin {"header", "stub"}
  PROVE  IF c64 \in {"data", "loaded"} THEN ReceivesData(v) ELSE UNCHANGED c64Vars
<1>1. CASE c64 \in {"data", "loaded"}
  <2>1. ReceiveData(v)
    BY <1>1 DEF Nmi, ReceiveHeader, ReceiveStub, Ignored, Loading
  <2>2. header \in Headers(file)
    BY <1>1 DEF TInv, PhaseInv, HeaderHeld
  <2>3. header[4] \in Bytes
    <3>1. header[4] = load % B
      BY <2>2, Facts, HeaderFacts DEF TInv
    <3> QED BY <3>1, Facts, BytesOf DEF KindsOK
  <2>4. header[4] + high * B + y \in Int
    <3>1. \A l, h, b, i \in Nat : l + h * b + i \in Int
      OBVIOUS
    <3>2. header[4] \in Nat /\ high \in Nat /\ B \in Nat /\ y \in Nat
      BY <2>3, Facts, Constants DEF Bytes
    <3> QED BY <3>1, <3>2
  <2>5. (header[4] + high * B + y) % (B * B) \in Addresses
    BY <2>4, RemainderIsAddress
  <2> DEFINE a == (header[4] + high * B + y) % (B * B)
  <2>6. /\ mem' = Stored(a, v) /\ y' = (y + 1) % B /\ header' = header
        /\ IF y' = 0 THEN high' = (high + 1) % B /\ x' = (x - 1) % B ELSE UNCHANGED <<high, x>>
        /\ c64' = CASE a \in Workspace -> "wrecked"
                    [] a \notin Workspace /\ y' = 0 /\ PageDone -> "loaded"
                    [] OTHER -> c64
    BY <2>1 DEF ReceiveData
  <2>7. a \in Addresses
    BY <2>5
  <2> HIDE DEF a
  <2>8. c64' = (IF a \in Workspace THEN "wrecked" ELSE IF y' = 0 /\ PageDone THEN "loaded" ELSE c64)
    BY <2>6
  <2>9. ReceivesData(v)
    BY <2>6, <2>7, <2>8 DEF ReceivesData, a
  <2> QED BY <1>1, <2>9
<1>2. CASE c64 \notin {"data", "loaded"}
  BY <1>2 DEF Nmi, ReceiveHeader, ReceiveStub, ReceiveData, Ignored
<1> QED BY <1>1, <1>2

\* The variables of the C64 after such a byte, and after one of the stub.
LEMMA DataTypes ==
  ASSUME TInv, NEW v \in Datum, ReceivesData(v), c64 \in {"data", "loaded"}
  PROVE  /\ c64' \in {"data", "loaded", "wrecked"} /\ header' = header
         /\ y' = (y + 1) % B /\ y' \in Bytes /\ x' \in Bytes /\ high' \in Bytes
         /\ DOMAIN mem' \subseteq Addresses /\ \A b \in DOMAIN mem' : mem'[b] \in Datum
<1>1. y' \in Bytes
  BY Facts, NextByte DEF ReceivesData
<1>2. x' \in Bytes /\ high' \in Bytes
  <2>1. x - 1 \in Int /\ high + 1 \in Int
    BY Facts, Constants DEF Bytes
  <2> QED BY <2>1, Facts, RemainderIsByte DEF ReceivesData
<1>3. DOMAIN mem' \subseteq Addresses /\ \A b \in DOMAIN mem' : mem'[b] \in Datum
  BY StoredFacts DEF ReceivesData, TInv, TypeOK
<1> QED BY <1>1, <1>2, <1>3 DEF ReceivesData

ReceivesStub(v) ==
  /\ mem' = Stored(TAPEBUFFER + y, v) /\ TAPEBUFFER + y \in Addresses
  /\ y' = (y + 1) % B /\ header' = header
  /\ IF y' = 0 THEN c64' = "data" /\ x' = header[3] /\ high' = header[5]
               ELSE UNCHANGED <<c64, x, high>>

LEMMA StubNmi ==
  ASSUME TInv, NEW v \in Datum, Nmi(v), c64 = "stub"
  PROVE  /\ ReceivesStub(v)
         /\ y' \in Bytes /\ x' \in Bytes /\ high' \in Bytes
         /\ DOMAIN mem' \subseteq Addresses /\ \A b \in DOMAIN mem' : mem'[b] \in Datum
<1>1. ReceiveStub(v)
  BY DEF Nmi, ReceiveHeader, ReceiveData, Ignored, Loading
<1>2. TAPEBUFFER + y \in Addresses
  <2>1. y \in Bytes
    BY Facts, Constants DEF TInv, PhaseInv, Bytes
  <2> QED BY <2>1, Constants DEF Addresses, Bytes
<1>3. ReceivesStub(v)
  BY <1>1, <1>2 DEF ReceiveStub, ReceivesStub
<1>4. header[3] \in Bytes /\ header[5] \in Bytes
  <2>1. header \in Headers(file)
    BY DEF TInv, PhaseInv, HeaderHeld
  <2> QED BY <2>1, Facts, HeaderFacts, Paging, BytesOf DEF TInv, KindsOK
<1>5. x' \in Bytes /\ high' \in Bytes
  BY <1>3, <1>4, Facts DEF ReceivesStub
<1>6. y' \in Bytes
  BY <1>3, Facts, NextByte DEF ReceivesStub
<1>7. DOMAIN mem' \subseteq Addresses /\ \A b \in DOMAIN mem' : mem'[b] \in Datum
  BY <1>2, <1>3, StoredFacts DEF ReceivesStub, TInv, TypeOK
<1> QED BY <1>3, <1>5, <1>6, <1>7

-----------------------------------------------------------------------------
(* A step of each kind leaves the phases in order.                          *)

LEMMA ResetStep ==
  ASSUME TInv, NEW f \in Files \cup {Menu}, NEW pos \in Nat, ResetC64(f, pos),
         asked' \in Files \cup {Menu}, rowsCached' \in BOOLEAN,
         f.kind = "koala" => DisplayerFits /\ PictureFits(f)
  PROVE  TInv'
<1>1. outbox' = << >> /\ header' = << >> /\ mem' = << >> /\ DOMAIN mem' = {}
  BY DEF ResetC64
<1>2. outbox' \in Seq(Datum) /\ header' \in Seq(Datum) /\ Len(header') = 0
  BY <1>1, EmptySeq
<1>3. 0 \in Addresses /\ 0 \in 0 .. B - 1 /\ 0 \in 0 .. MaxFailures /\ 0 \in 0 .. HeaderLength
  BY Constants DEF Addresses, HeaderLength
<1>4. {lost, fileOpen, listening, exromLow, rowsCached}' \subseteq BOOLEAN
  BY DEF ResetC64
<1>5. TypeOK'
  BY <1>1, <1>2, <1>3, <1>4 DEF ResetC64, TypeOK, TInv
<1>6. KoaOK'
  BY DEF ResetC64, KoaOK, DisplayerFits
<1>7. PhaseInv'
  BY <1>1
     DEF ResetC64, PhaseInv, IdleInv, ResetInv, AddressInv, HeaderInv, StubInv, LoaderInv,
         HeaderHeld, Waiting, StubWaiting, Loader
<1> QED BY <1>5, <1>6, <1>7 DEF TInv, MenuIsThere

\* The address the firmware reads, right or not, is an address.
LEMMA AddressTypes ==
  ASSUME TInv, NEW r \in AddressReads
  PROVE  r.load \in Addresses /\ r.pos \in Nat /\ r.failed \in BOOLEAN
<1>1. file.load \in Addresses
  BY Facts, Constants DEF KindsOK, File
<1>2. file.load \div B \in Bytes /\ file.load % B \in Bytes /\ B - 1 \in Bytes
  <2>1. file.load \div B \in Bytes /\ file.load % B \in Bytes
    BY <1>1, BytesOf
  <2>2. B - 1 \in Bytes
    BY Constants DEF Bytes
  <2> QED BY <2>1, <2>2
<1> DEFINE first == IF file.kind = "crt" THEN file.load \div B ELSE file.load % B
           second == IF file.kind = "crt" THEN file.load % B ELSE file.load \div B
           At(one, two) == IF file.kind = "crt" THEN one * B + two ELSE two * B + one
<1>3. first \in Bytes /\ second \in Bytes
  BY <1>2
<1>4. \A one, two \in Bytes : At(one, two) \in Addresses
  BY WordOf
<1>5. r \in {[load |-> file.load, pos |-> 2, failed |-> FALSE],
             [load |-> At(B - 1, first), pos |-> 1, failed |-> TRUE],
             [load |-> At(first, B - 1), pos |-> 1, failed |-> TRUE]}
  BY DEF AddressReads
<1>6. At(B - 1, first) \in Addresses /\ At(first, B - 1) \in Addresses
  BY <1>2, <1>3, <1>4
<1> HIDE DEF At, first, second
<1>7. \A a \in Addresses, p \in {1, 2}, b \in BOOLEAN :
        r = [load |-> a, pos |-> p, failed |-> b] =>
          r.load \in Addresses /\ r.pos \in Nat /\ r.failed \in BOOLEAN
  OBVIOUS
<1> QED BY <1>1, <1>5, <1>6, <1>7

LEMMA ReadAddressStep ==
  ASSUME TInv, ReadAddress
  PROVE  TInv'
<1>1. PICK r \in (IF file.kind = "koala"
                  THEN {[load |-> KOA_LOAD_ADDR, pos |-> filePos, failed |-> FALSE]}
                  ELSE AddressReads) :
        /\ r.failed => failures < MaxFailures
        /\ load' = r.load
        /\ filePos' = IF file.kind = "crt" THEN CRT_DATA ELSE r.pos
        /\ lost' = r.failed /\ failures' = failures + (IF r.failed THEN 1 ELSE 0)
  BY DEF ReadAddress
<1>2. r.load \in Addresses /\ r.pos \in Nat /\ r.failed \in BOOLEAN
  <2>1. CASE file.kind = "koala"
    <3>1. r = [load |-> KOA_LOAD_ADDR, pos |-> filePos, failed |-> FALSE]
      BY <1>1, <2>1
    <3>2. filePos \in Nat /\ KOA_LOAD_ADDR \in Addresses
      BY Constants DEF TInv, TypeOK
    <3> QED BY <3>1, <3>2
  <2>2. CASE file.kind # "koala"
    BY <1>1, <2>2, AddressTypes
  <2> QED BY <2>1, <2>2
<1>3. load' \in Addresses /\ filePos' \in Nat /\ lost' \in BOOLEAN
  BY <1>1, <1>2, Constants
<1>4. failures' \in 0 .. MaxFailures
  BY <1>1, <1>2, Constants DEF TInv, TypeOK
<1>5. /\ fw = "reset" /\ fw' = "address" /\ c64 # "boot" /\ transferIndex' = 0
      /\ UNCHANGED <<file, asked, plugin, left, outbox, fileOpen, listening, exromLow, rowsCached>>
      /\ UNCHANGED c64Vars
  BY DEF ReadAddress, StartIndex
<1>6. TypeOK'
  BY <1>3, <1>4, <1>5, Constants DEF TInv, TypeOK, c64Vars
<1>7. KoaOK'
  BY <1>5 DEF TInv, KoaOK, DisplayerFits, PictureFits
<1>8. PhaseInv'
  BY <1>5
     DEF TInv, PhaseInv, IdleInv, ResetInv, AddressInv, HeaderInv, StubInv, LoaderInv,
         HeaderHeld, Waiting, StubWaiting, Loader, c64Vars
<1> QED BY <1>6, <1>7, <1>8 DEF TInv, MenuIsThere

LEMMA PrepareHeaderStep ==
  ASSUME TInv, PrepareHeader
  PROVE  TInv'
<1>1. PICK h \in Headers(file) : outbox' = h
  BY DEF PrepareHeader
<1>2. /\ fw = "address" /\ fw' = "header"
      /\ UNCHANGED <<file, asked, plugin, left, load, filePos, lost, failures>>
      /\ UNCHANGED pins /\ UNCHANGED c64Vars
  BY DEF PrepareHeader
<1>3. h \in Seq(Bytes) /\ Len(h) = 10
  BY Facts, HeaderFacts DEF TInv, HeaderLength
<1>4. Bytes \subseteq Datum /\ h # << >>
  <2>1. Len(<< >>) # 10
    BY EmptySeq
  <2>2. h # << >>
    BY <1>3, <2>1
  <2> QED BY <2>2, Constants DEF Bytes, Datum
<1>5. h \in Seq(Datum)
  BY <1>3, <1>4, SeqMonotonic
<1>6. TypeOK'
  BY <1>1, <1>2, <1>5 DEF TInv, TypeOK, pins, c64Vars
<1>7. KoaOK'
  BY <1>2 DEF TInv, KoaOK, DisplayerFits, PictureFits
<1>8. Headers(file)' = Headers(file)
  BY <1>2 DEF Headers, LaunchAddress, TransferLength, Ends, Sums, TypeOf
<1>9. header = << >> /\ c64 = "header" /\ y = 0 /\ left = 0 /\ transferIndex = 0
  BY <1>2 DEF TInv, PhaseInv, AddressInv
<1>10. header \in Seq(Bytes) /\ Len(header) = 0 /\ header \o h = h
  BY <1>3, <1>9, EmptySeq, ConcatEmptySeq
<1>11. header' = header /\ y' = y /\ c64' = c64 /\ transferIndex' = transferIndex
  BY <1>2 DEF pins, c64Vars
<1>12. HeaderInv'
  BY <1>1, <1>2, <1>3, <1>4, <1>8, <1>9, <1>10, <1>11 DEF HeaderInv
<1>13. PhaseInv'
  BY <1>2, <1>9, <1>12
     DEF TInv, PhaseInv, IdleInv, ResetInv, AddressInv, StubInv, LoaderInv,
         HeaderHeld, Waiting, StubWaiting, Loader, pins, c64Vars
<1> QED BY <1>6, <1>7, <1>13 DEF TInv, MenuIsThere

\* The first of what is to come moves behind what is there.
LEMMA Moves ==
  ASSUME NEW S, NEW s \in Seq(S), NEW t \in Seq(S), t # << >>
  PROVE  /\ Append(s, Head(t)) \in Seq(S) /\ Len(Append(s, Head(t))) = Len(s) + 1
         /\ Append(s, Head(t)) \o Tail(t) = s \o t
<1> DEFINE u == Append(s, Head(t))
<1>1. Head(t) \in S /\ Tail(t) \in Seq(S) /\ Len(Tail(t)) = Len(t) - 1
      /\ \A i \in 1 .. Len(t) - 1 : Tail(t)[i] = t[i + 1]
  BY HeadTailProperties
<1>2. Len(t) \in Nat \ {0} /\ Head(t) = t[1] /\ Len(s) \in Nat
  BY EmptySeq, LenProperties
<1>3. u \in Seq(S) /\ Len(u) = Len(s) + 1
      /\ \A i \in 1 .. Len(s) + 1 : u[i] = IF i = Len(s) + 1 THEN t[1] ELSE s[i]
  BY <1>1, <1>2, AppendProperties
<1> HIDE DEF u
<1>4. u \o Tail(t) \in Seq(S) /\ Len(u \o Tail(t)) = Len(s) + Len(t)
      /\ \A i \in 1 .. Len(s) + Len(t) :
           (u \o Tail(t))[i] = IF i <= Len(s) + 1 THEN u[i] ELSE Tail(t)[i - (Len(s) + 1)]
  <2>1. u \o Tail(t) \in Seq(S) /\ Len(u \o Tail(t)) = Len(u) + Len(Tail(t))
        /\ \A i \in 1 .. Len(u) + Len(Tail(t)) :
             (u \o Tail(t))[i] = IF i <= Len(u) THEN u[i] ELSE Tail(t)[i - Len(u)]
    BY <1>1, <1>3, ConcatProperties
  <2> QED BY <1>1, <1>2, <1>3, <2>1
<1>5. s \o t \in Seq(S) /\ Len(s \o t) = Len(s) + Len(t)
      /\ \A i \in 1 .. Len(s) + Len(t) : (s \o t)[i] = IF i <= Len(s) THEN s[i] ELSE t[i - Len(s)]
  BY ConcatProperties
<1>6. \A i \in 1 .. Len(s) + Len(t) : (u \o Tail(t))[i] = (s \o t)[i]
  <2> SUFFICES ASSUME NEW i \in 1 .. Len(s) + Len(t)
               PROVE  (u \o Tail(t))[i] = (s \o t)[i]
    OBVIOUS
  <2>1. CASE i <= Len(s)
    BY <1>2, <1>3, <1>4, <1>5, <2>1
  <2>2. CASE i = Len(s) + 1
    BY <1>2, <1>3, <1>4, <1>5, <2>2
  <2>3. CASE i > Len(s) + 1
    <3>1. i - (Len(s) + 1) \in 1 .. Len(t) - 1 /\ (i - (Len(s) + 1)) + 1 = i - Len(s)
      BY <1>2, <2>3
    <3> QED BY <1>1, <1>2, <1>4, <1>5, <2>3, <3>1
  <2>4. i \in Int /\ Len(s) \in Int
    BY <1>2
  <2>5. i <= Len(s) \/ i = Len(s) + 1 \/ i > Len(s) + 1
    BY <2>4
  <2> QED BY <2>1, <2>2, <2>3, <2>5, Zenon
<1>7. u \o Tail(t) = s \o t
  BY <1>4, <1>5, <1>6, SeqEqual
<1> QED BY <1>3, <1>7 DEF u

LEMMA SendHeaderStep ==
  ASSUME TInv, SendHeader
  PROVE  TInv'
<1>1. /\ fw = "header" /\ outbox # << >> /\ Nmi(Head(outbox)) /\ outbox' = Tail(outbox)
      /\ UNCHANGED <<file, asked, plugin, fw, left, load, filePos, lost, failures,
                     fileOpen, listening, exromLow, rowsCached, transferIndex>>
  BY DEF SendHeader, TransmitByteSlow
<1>2. /\ c64 = "header" /\ y = Len(header) /\ left = 0 /\ transferIndex = 0
      /\ header \in Seq(Bytes) /\ outbox \in Seq(Bytes) /\ header \o outbox \in Headers(file)
  BY <1>1 DEF TInv, PhaseInv, HeaderInv
<1>3. /\ header' = Append(header, Head(outbox))
      /\ IF Len(header') = HeaderLength THEN c64' = "stub" /\ y' = 0
                                        ELSE c64' = c64 /\ y' = y + 1
      /\ UNCHANGED <<x, high, mem>>
  BY <1>1, <1>2 DEF Nmi, ReceiveHeader, ReceiveStub, ReceiveData, Ignored, Loading
<1>4. /\ header' \in Seq(Bytes) /\ Len(header') = Len(header) + 1
      /\ header' \o outbox' = header \o outbox
  BY <1>1, <1>2, <1>3, Moves
<1>5. outbox' \in Seq(Bytes) /\ Len(outbox') = Len(outbox) - 1
  BY <1>1, <1>2, HeadTailProperties
<1>6. Len(header) + Len(outbox) = 10 /\ Len(header) \in Nat /\ Len(outbox) \in Nat \ {0}
  <2>1. Len(header \o outbox) = Len(header) + Len(outbox)
    BY <1>2, ConcatProperties
  <2>2. Len(header \o outbox) = 10
    BY <1>2, Facts, HeaderFacts DEF TInv, HeaderLength
  <2> QED BY <1>1, <1>2, <2>1, <2>2, EmptySeq, LenProperties
<1>7. Len(header') <= 10 /\ (outbox' = << >> <=> Len(header') = 10)
  <2>1. outbox' = << >> <=> Len(outbox') = 0
    BY <1>5, EmptySeq
  <2> QED BY <1>4, <1>5, <1>6, <2>1
<1>8. Headers(file)' = Headers(file)
  BY <1>1 DEF Headers, LaunchAddress, TransferLength, Ends, Sums, TypeOf
<1>9. header' \o outbox' \in Headers(file)'
  BY <1>2, <1>4, <1>8
<1>10. c64' = "stub" => header' \in Headers(file)'
  <2> SUFFICES ASSUME c64' = "stub"
               PROVE  header' \in Headers(file)'
    OBVIOUS
  <2>1. outbox' = << >>
    BY <1>2, <1>3, <1>7 DEF HeaderLength
  <2> QED BY <1>4, <1>9, <2>1, ConcatEmptySeq
<1>11. HeaderInv'
  BY <1>1, <1>2, <1>3, <1>4, <1>5, <1>7, <1>9 DEF HeaderInv, HeaderLength
<1>12. c64' \in {"header", "stub"} /\ y' \in 0 .. HeaderLength /\ (c64' = "stub" => y' = 0)
  <2>1. (c64' = "stub" /\ y' = 0) \/ (c64' = "header" /\ y' = Len(header) + 1)
    BY <1>2, <1>3
  <2>2. Len(header) + 1 \in 0 .. HeaderLength /\ 0 \in 0 .. HeaderLength
    BY <1>6 DEF HeaderLength
  <2> QED BY <2>1, <2>2
<1>13. PhaseInv'
  BY <1>1, <1>10, <1>11, <1>12, Constants
     DEF TInv, PhaseInv, IdleInv, ResetInv, AddressInv, StubInv, LoaderInv,
         HeaderHeld, Waiting, StubWaiting, Loader
<1>14. Bytes \subseteq Datum
  BY Constants DEF Bytes, Datum
<1>15. header' \in Seq(Datum) /\ outbox' \in Seq(Datum)
  BY <1>4, <1>5, <1>14, SeqMonotonic
<1>16. TypeOK'
  <2>1. Len(header') <= HeaderLength /\ y' \in 0 .. HeaderLength \cup 0 .. B - 1
        /\ (c64' \in {"stub", "data"} => y' < B)
    BY <1>7, <1>12, Constants DEF HeaderLength
  <2> QED BY <1>1, <1>3, <1>12, <1>15, <2>1 DEF TInv, TypeOK, Loading
<1>17. KoaOK'
  BY <1>1 DEF TInv, KoaOK, DisplayerFits, PictureFits
<1> QED BY <1>13, <1>16, <1>17 DEF TInv, MenuIsThere

\* The lengths of the phases.
LEMMA Amounts ==
  ASSUME TInv
  PROVE  /\ PadBytes(TransferLength(file)) \in Nat
         /\ file.kind = "koala" => /\ plugin.size - 2 \in Nat \ {0}
                                   /\ KOA_PAYLOAD_SIZE \in Nat \ {0}
                                   /\ KOA_PLUGIN_ADDR - KOA_LOAD_ADDR - KOA_PAYLOAD_SIZE \in Nat
<1>1. PadBytes(TransferLength(file)) \in Nat
  BY Facts, Paging DEF Bytes
<1>2. ASSUME file.kind = "koala"
      PROVE  plugin.size - 2 \in Nat \ {0}
  BY <1>2, Constants DEF TInv, KoaOK, DisplayerFits
<1>3. KOA_PAYLOAD_SIZE \in Nat \ {0} /\ KOA_PLUGIN_ADDR - KOA_LOAD_ADDR - KOA_PAYLOAD_SIZE \in Nat
  <2>1. KOA_PLUGIN_ADDR \in Int /\ KOA_LOAD_ADDR \in Int
    <3>1. KOA_PLUGIN_ADDR \in Addresses /\ KOA_LOAD_ADDR \in Addresses /\ Addresses \subseteq Nat
      BY Constants
    <3> QED BY <3>1
  <2> QED BY <2>1, Constants
<1> QED BY <1>1, <1>2, <1>3

LEMMA NextPhaseStep ==
  ASSUME TInv, NextPhase
  PROVE  TInv'
<1>1. /\ fw \in {"header", "stub", "file", "gap", "displayer", "pad"}
      /\ left = 0 /\ outbox = << >>
      /\ fw' = Following(fw) /\ left' = Amount(fw')
      /\ transferIndex' = (IF fw = "stub" THEN 0 ELSE transferIndex)
      /\ UNCHANGED <<file, asked, plugin, outbox, load, filePos, lost, failures,
                     fileOpen, listening, exromLow, rowsCached>>
      /\ UNCHANGED c64Vars
  BY DEF NextPhase
<1>2. KoaOK'
  BY <1>1 DEF TInv, KoaOK, DisplayerFits, PictureFits
<1>3. Headers(file)' = Headers(file) /\ TransferLength(file) \in Nat
  <2>1. Headers(file)' = Headers(file)
    BY <1>1 DEF Headers, LaunchAddress, TransferLength, Ends, Sums, TypeOf
  <2> QED BY <2>1, Facts
<1>4. fw' \in {"stub", "file", "gap", "displayer", "pad", "settle"}
      /\ (fw = "header" => fw' = "stub") /\ (fw # "header" => fw' \in Loader)
      /\ (fw = "stub" => fw' = "file")
      /\ (fw' \in {"gap", "displayer"} => file.kind = "koala")
  <2>1. fw = "gap" => file.kind = "koala"
    BY DEF TInv, PhaseInv, LoaderInv, Loader
  <2>2. Following("header") = "stub" /\ Following("stub") = "file"
        /\ Following("file") = (IF file.kind = "koala" THEN "gap" ELSE "pad")
        /\ Following("gap") = "displayer" /\ Following("displayer") = "pad"
        /\ Following("pad") = "settle"
    BY DEF Following
  <2> QED BY <1>1, <2>1, <2>2 DEF Loader
<1>5. left' \in Nat /\ (fw' = "stub" => left' = B) /\ (fw' = "settle" => left' = 0)
  <2>1. fw' = "stub" => left' = B
    BY <1>1 DEF Amount
  <2>2. fw' = "file" => left' \in Nat
    BY <1>1, <1>3, Amounts DEF Amount
  <2>3. fw' = "gap" => left' \in Nat
    BY <1>1, <1>4, Amounts DEF Amount
  <2>4. fw' = "displayer" => left' \in Nat
    BY <1>1, <1>4, Amounts DEF Amount
  <2>5. fw' = "pad" => left' \in Nat
    BY <1>1, Amounts DEF Amount
  <2>6. fw' = "settle" => left' = 0
    BY <1>1 DEF Amount
  <2> QED BY <1>4, <2>1, <2>2, <2>3, <2>4, <2>5, <2>6, Constants
<1>6. fw = "header" => c64 = "stub" /\ y = 0 /\ transferIndex = 0 /\ header \in Headers(file)
  BY <1>1 DEF TInv, PhaseInv, HeaderInv, HeaderHeld
<1>7. fw = "stub" => c64 = "data" /\ y = 0
  <2>1. \A n \in Nat : n < B => B - n # 0
    BY Constants
  <2>2. y \in Nat
    BY Facts
  <2> QED BY <1>1, <2>1, <2>2 DEF TInv, PhaseInv, StubInv
<1>8. StubInv'
  BY <1>1, <1>3, <1>4, <1>5, <1>6, Constants DEF StubInv, Loader, c64Vars
<1>9. LoaderInv'
  <2>1. fw \in Loader => c64 \notin {"off", "boot", "header", "stub"}
                         /\ (c64 \in {"data", "loaded"} => transferIndex = y)
    BY DEF TInv, PhaseInv, LoaderInv
  <2>2. fw' \in Loader => fw \in Loader \/ fw = "stub"
    BY <1>1, <1>4 DEF Loader
  <2> QED BY <1>1, <1>4, <1>5, <1>7, <2>1, <2>2 DEF LoaderInv, Loader, c64Vars
<1>10. PhaseInv'
  BY <1>1, <1>3, <1>4, <1>6, <1>7, <1>8, <1>9
     DEF TInv, PhaseInv, IdleInv, ResetInv, AddressInv, HeaderInv, HeaderHeld, Waiting,
         StubWaiting, Loader, c64Vars
<1>11. TypeOK'
  BY <1>1, <1>4, <1>5, Constants DEF TInv, TypeOK, c64Vars
<1> QED BY <1>2, <1>10, <1>11 DEF TInv, MenuIsThere

\* A byte of the stub, or one for the NMI handler of the pages.
LEMMA FastStep ==
  ASSUME TInv, NEW v \in Datum, TransmitByteFast(v), fw \in {"stub", "file", "gap", "displayer", "pad"},
         UNCHANGED <<file, asked, plugin, fw, load, filePos, lost, failures>>,
         UNCHANGED <<fileOpen, listening, exromLow, rowsCached>>,
         left' \in Nat, outbox' \in Seq(Datum), fw # "file" => outbox' = << >> /\ left' = left - 1,
         fw = "stub" => left > 0
  PROVE  TInv'
<1>1. Nmi(v) /\ transferIndex' = (transferIndex + 1) % B
  BY DEF TransmitByteFast
<1>2. transferIndex' \in Bytes
  <2>1. transferIndex \in Nat
    BY DEF TInv, TypeOK
  <2> QED BY <1>1, <2>1, NextByte
<1>3. KoaOK'
  BY DEF TInv, KoaOK, DisplayerFits, PictureFits
<1>4. Headers(file)' = Headers(file)
  BY DEF Headers, LaunchAddress, TransferLength, Ends, Sums, TypeOf
<1>5. CASE fw = "stub"
  <2>1. c64 = "stub" /\ y < B /\ left = B - y /\ transferIndex = y /\ header \in Headers(file)
    BY <1>5 DEF TInv, PhaseInv, StubInv
  <2>2. /\ ReceivesStub(v) /\ y' \in Bytes /\ x' \in Bytes /\ high' \in Bytes
        /\ DOMAIN mem' \subseteq Addresses /\ \A b \in DOMAIN mem' : mem'[b] \in Datum
    BY <1>1, <2>1, StubNmi
  <2>3. /\ y' = (y + 1) % B /\ header' = header
        /\ IF y' = 0 THEN c64' = "data" /\ x' = header[3] /\ high' = header[5]
                     ELSE c64' = c64
    BY <2>2 DEF ReceivesStub
  <2>4. y' = (IF y + 1 = B THEN 0 ELSE y + 1) /\ y \in Nat
    BY <2>1, <2>3, NextByte, Facts
  <2>5. outbox' = << >> /\ left' = left - 1
    BY <1>5
  <2>6. transferIndex' = y'
    BY <1>1, <2>1, <2>3
  <2>7. IF y' = 0 THEN left' = 0 ELSE left' = B - y'
    BY <2>1, <2>4, <2>5, Constants
  <2>8. StubInv'
    <3>1. y' < B /\ header' \in Headers(file)'
      BY <1>4, <2>1, <2>2, <2>3, Constants DEF Bytes
    <3>2. CASE y' = 0
      BY <2>3, <2>5, <2>6, <2>7, <3>1, <3>2 DEF StubInv
    <3>3. CASE y' # 0
      BY <2>1, <2>3, <2>5, <2>6, <2>7, <3>1, <3>3 DEF StubInv
    <3> QED BY <3>2, <3>3
  <2>9. PhaseInv'
    BY <1>4, <1>5, <2>1, <2>2, <2>3, <2>8, Constants
       DEF TInv, PhaseInv, IdleInv, ResetInv, AddressInv, HeaderInv, LoaderInv, HeaderHeld,
           Waiting, StubWaiting, Loader, Bytes
  <2>10. c64' \in Loading /\ y' < B
    BY <2>1, <2>2, <2>3, Constants DEF Loading, Bytes
  <2>11. TypeOK'
    BY <1>2, <2>2, <2>3, <2>10 DEF TInv, TypeOK, Bytes
  <2> QED BY <1>3, <2>9, <2>11 DEF TInv, MenuIsThere
<1>6. CASE fw # "stub"
  <2>1. /\ c64 \notin {"off", "boot", "header", "stub"} /\ fw \in Loader
        /\ c64 \in {"data", "loaded"} => transferIndex = y
        /\ fw \in {"gap", "displayer"} => file.kind = "koala"
    BY <1>6 DEF TInv, PhaseInv, LoaderInv, Loader
  <2>2. CASE c64 \in {"data", "loaded"}
    <3>1. ReceivesData(v)
      BY <1>1, <2>1, <2>2, DataNmi
    <3>2. /\ c64' \in {"data", "loaded", "wrecked"} /\ header' = header
          /\ y' = (y + 1) % B /\ y' \in Bytes /\ x' \in Bytes /\ high' \in Bytes
          /\ DOMAIN mem' \subseteq Addresses /\ \A b \in DOMAIN mem' : mem'[b] \in Datum
      BY <2>2, <3>1, DataTypes
    <3>3. y' < B /\ transferIndex' = y' /\ header' \in Headers(file)'
      BY <1>1, <1>4, <2>1, <2>2, <3>2, Constants DEF TInv, PhaseInv, HeaderHeld, Bytes
    <3>4. PhaseInv'
      BY <1>6, <2>1, <3>2, <3>3
         DEF TInv, PhaseInv, IdleInv, ResetInv, AddressInv, HeaderInv, StubInv, LoaderInv,
             HeaderHeld, Waiting, StubWaiting, Loader
    <3>5. TypeOK'
      BY <1>2, <3>2, <3>3 DEF TInv, TypeOK, Loading, Bytes
    <3> QED BY <1>3, <3>4, <3>5 DEF TInv, MenuIsThere
  <2>3. CASE c64 \notin {"data", "loaded"}
    <3>1. UNCHANGED c64Vars
      BY <1>1, <2>1, <2>3, DataNmi
    <3>2. PhaseInv'
      BY <1>4, <1>6, <2>1, <2>3, <3>1
         DEF TInv, PhaseInv, IdleInv, ResetInv, AddressInv, HeaderInv, StubInv, LoaderInv,
             HeaderHeld, Waiting, StubWaiting, Loader, c64Vars
    <3>3. TypeOK'
      BY <1>2, <3>1 DEF TInv, TypeOK, c64Vars, Bytes
    <3> QED BY <1>3, <3>2, <3>3 DEF TInv, MenuIsThere
  <2> QED BY <2>2, <2>3
<1> QED BY <1>5, <1>6

LEMMA SendFillerStep ==
  ASSUME TInv, SendFiller
  PROVE  TInv'
<1>1. PICK v \in {Stub, Zero, OfPlugin} : TransmitByteFast(v)
  BY DEF SendFiller
<1>2. /\ fw \in {"stub", "gap", "displayer", "pad"} /\ left > 0 /\ left' = left - 1
      /\ UNCHANGED <<file, asked, plugin, fw, outbox, load, filePos, lost, failures>>
      /\ UNCHANGED <<fileOpen, listening, exromLow, rowsCached>>
  BY DEF SendFiller
<1>3. v \in Datum /\ left' \in Nat
  BY <1>2, Facts DEF Datum, Stub, Zero, OfPlugin
<1>4. outbox = << >>
  BY <1>2 DEF TInv, PhaseInv, StubInv, LoaderInv, Loader
<1>5. outbox' = << >> /\ outbox' \in Seq(Datum)
  BY <1>2, <1>4, EmptySeq
<1> QED BY <1>1, <1>2, <1>3, <1>5, FastStep

LEMMA SendFileStep ==
  ASSUME TInv, SendFile
  PROVE  TInv'
<1>1. /\ fw = "file" /\ outbox # << >> /\ TransmitByteFast(Head(outbox)) /\ outbox' = Tail(outbox)
      /\ UNCHANGED <<file, asked, plugin, fw, left, load, filePos, lost, failures>>
      /\ UNCHANGED <<fileOpen, listening, exromLow, rowsCached>>
  BY DEF SendFile
<1>2. Head(outbox) \in Datum /\ outbox' \in Seq(Datum) /\ left' \in Nat
  <2>1. outbox \in Seq(Datum)
    BY DEF TInv, TypeOK
  <2> QED BY <1>1, <2>1, Facts, HeadTailProperties
<1> QED BY <1>1, <1>2, FastStep

\* What ReadFile reads.
Wanted == IF left < (IF file.kind = "menu" THEN 1 ELSE BUF_SIZE) THEN left
          ELSE (IF file.kind = "menu" THEN 1 ELSE BUF_SIZE)
There == IF filePos > file.size THEN 0 ELSE file.size - filePos
Got == IF There < Wanted THEN There ELSE Wanted

LEMMA ReadFacts ==
  ASSUME TInv, ReadFile
  PROVE  /\ fw = "file" /\ left > 0 /\ outbox = << >>
         /\ Wanted \in 1 .. left /\ Got \in 0 .. Wanted /\ left' = left - Wanted
         /\ UNCHANGED <<file, asked, plugin, fw, load>> /\ UNCHANGED pins /\ UNCHANGED c64Vars
         /\ filePos' \in Nat /\ lost' \in BOOLEAN /\ failures' \in 0 .. MaxFailures
         /\ (lost => lost') /\ outbox' \in Seq(Datum)
         /\ ~lost' => /\ filePos' = filePos + Got
                      /\ outbox' = [i \in 1 .. Wanted |-> IF i <= Got THEN filePos + i - 1 ELSE Zero]
<1>1. Wanted \in 1 .. left /\ Got \in 0 .. Wanted
  <2>1. left \in Nat /\ left > 0 /\ BUF_SIZE \in Nat /\ BUF_SIZE > 0
    <3>1. left > 0
      BY DEF ReadFile
    <3> QED BY <3>1, Facts, Constants
  <2>2. Wanted \in 1 .. left
    <3> DEFINE size == IF file.kind = "menu" THEN 1 ELSE BUF_SIZE
    <3>1. size \in Nat /\ size > 0 /\ Wanted = IF left < size THEN left ELSE size
      BY <2>1 DEF Wanted
    <3> HIDE DEF size
    <3> QED BY <2>1, <3>1
  <2>3. There \in Nat
    <3>1. filePos \in Nat
      BY DEF TInv, TypeOK
    <3>2. file.size \in Nat
      BY Facts
    <3> QED BY <3>1, <3>2 DEF There
  <2> QED BY <2>1, <2>2, <2>3 DEF Got
<1>2. /\ fw = "file" /\ left > 0 /\ outbox = << >> /\ left' = left - Wanted
      /\ UNCHANGED <<file, asked, plugin, fw, load>> /\ UNCHANGED pins /\ UNCHANGED c64Vars
  BY DEF ReadFile, Wanted
<1>3. \/ /\ outbox' = [i \in 1 .. Wanted |-> IF i <= Got THEN filePos + i - 1 ELSE Zero]
         /\ filePos' = filePos + Got /\ lost' = (lost \/ Got = 0) /\ UNCHANGED failures
      \/ /\ failures < MaxFailures /\ failures' = failures + 1
         /\ outbox' = [i \in 1 .. Wanted |-> Zero]
         /\ \E k \in 0 .. Wanted - 1 : k <= Got /\ filePos' = filePos + k
         /\ lost' = TRUE
  BY DEF ReadFile, Wanted, Got, There
<1>4. filePos \in Nat /\ lost \in BOOLEAN /\ failures \in 0 .. MaxFailures
  BY DEF TInv, TypeOK
<1>5. filePos' \in Nat /\ failures' \in 0 .. MaxFailures
  BY <1>1, <1>3, <1>4, Constants
<1>6. lost' \in BOOLEAN /\ (lost => lost')
  BY <1>3, <1>4
<1>7. outbox' \in Seq(Datum)
  <2>1. \A i \in 1 .. Wanted : (IF i <= Got THEN filePos + i - 1 ELSE Zero) \in Datum
    BY <1>1, <1>4 DEF Datum, Zero
  <2>2. Zero \in Datum /\ Wanted \in Nat
    BY <1>1, Facts DEF Datum, Zero
  <2>3. [i \in 1 .. Wanted |-> IF i <= Got THEN filePos + i - 1 ELSE Zero] \in Seq(Datum)
    BY <2>1, <2>2
  <2>4. [i \in 1 .. Wanted |-> Zero] \in Seq(Datum)
    BY <2>2
  <2> QED BY <1>3, <2>3, <2>4
<1>8. ~lost' => /\ filePos' = filePos + Got
               /\ outbox' = [i \in 1 .. Wanted |-> IF i <= Got THEN filePos + i - 1 ELSE Zero]
  BY <1>3
<1> QED BY <1>1, <1>2, <1>5, <1>6, <1>7, <1>8

LEMMA ReadFileStep ==
  ASSUME TInv, ReadFile
  PROVE  TInv'
<1>1. left' \in Nat
  BY ReadFacts, Facts
<1>2. TypeOK'
  BY <1>1, ReadFacts DEF TInv, TypeOK, pins, c64Vars
<1>3. KoaOK'
  BY ReadFacts DEF TInv, KoaOK, DisplayerFits, PictureFits
<1>4. Headers(file)' = Headers(file)
  <2>1. file' = file /\ load' = load /\ plugin' = plugin
    BY ReadFacts
  <2> QED BY <2>1 DEF Headers, LaunchAddress, TransferLength, Ends, Sums, TypeOf
<1>5. PhaseInv'
  BY <1>4, ReadFacts
     DEF TInv, PhaseInv, IdleInv, ResetInv, AddressInv, HeaderInv, StubInv, LoaderInv,
         HeaderHeld, Waiting, StubWaiting, Loader, pins, c64Vars
<1> QED BY <1>2, <1>3, <1>5 DEF TInv, MenuIsThere

LEMMA DisableCartridgeStep ==
  ASSUME TInv, DisableCartridge
  PROVE  TInv'
<1>1. /\ fw = "settle" /\ c64 # "loaded" /\ fw' = "idle" /\ exromLow' = FALSE
      /\ fileOpen' = FALSE /\ listening' \in BOOLEAN
      /\ c64' = (IF c64 \in Loading THEN "wrecked" ELSE c64)
      /\ UNCHANGED <<file, asked, plugin, left, outbox, load, filePos, lost, failures>>
      /\ UNCHANGED <<transferIndex, rowsCached, header, y, x, high, mem>>
  BY DEF DisableCartridge
<1>2. KoaOK'
  BY <1>1 DEF TInv, KoaOK, DisplayerFits, PictureFits
<1>3. TypeOK'
  BY <1>1 DEF TInv, TypeOK, Loading
<1>4. Headers(file)' = Headers(file)
  BY <1>1 DEF Headers, LaunchAddress, TransferLength, Ends, Sums, TypeOf
<1>5. c64 \notin {"boot", "header", "stub"}
  BY <1>1 DEF TInv, PhaseInv, LoaderInv, Loader
<1>6. PhaseInv'
  BY <1>1, <1>4, <1>5
     DEF TInv, PhaseInv, IdleInv, ResetInv, AddressInv, HeaderInv, StubInv, LoaderInv,
         HeaderHeld, Waiting, StubWaiting, Loader, Loading
<1> QED BY <1>2, <1>3, <1>6 DEF TInv, MenuIsThere

\* The C64 on its own, and the requests of the menu that change no file.
LEMMA ComputerStep ==
  ASSUME TInv, UNCHANGED <<fwVars, exromLow, header, y, x, high, mem>>,
         transferIndex' \in 0 .. B - 1, {fileOpen', listening', rowsCached'} \subseteq BOOLEAN,
         \/ c64 = "boot" /\ c64' = "header" /\ UNCHANGED transferIndex
         \/ c64 = "loaded" /\ c64' \in {"left", "wrecked"} /\ UNCHANGED transferIndex
         \/ /\ c64 \in {"left"} \cup Started
            /\ c64' \in {"wrecked", "stuck"} \cup Started
         \/ UNCHANGED c64 /\ (fw = "idle" \/ UNCHANGED transferIndex)
  PROVE  TInv'
<1>1. /\ UNCHANGED <<file, asked, plugin, fw, left, outbox, load, filePos, lost, failures>>
      /\ UNCHANGED <<exromLow, header, y, x, high, mem>>
  BY DEF fwVars
<1>2. KoaOK'
  BY <1>1 DEF TInv, KoaOK, DisplayerFits, PictureFits
<1>3. TypeOK'
  <2>1. c64' \in {"off", "boot", "loaded", "left", "wrecked", "stuck", "starting", "menu",
                  "basic", "cartridge", "ultimax", "machine"} \cup Loading
        /\ (c64' \in {"stub", "data"} => c64 = c64')
    BY DEF TInv, TypeOK, Loading, Started
  <2>2. {lost, fileOpen, listening, exromLow, rowsCached}' \subseteq BOOLEAN
    BY <1>1 DEF TInv, TypeOK
  <2> QED BY <1>1, <2>1, <2>2 DEF TInv, TypeOK
<1>4. Headers(file)' = Headers(file)
  BY <1>1 DEF Headers, LaunchAddress, TransferLength, Ends, Sums, TypeOf
<1>5. CASE c64 = "boot" /\ c64' = "header" /\ UNCHANGED transferIndex
  <2>1. fw = "reset"
    BY <1>5 DEF TInv, PhaseInv, Waiting, AddressInv, HeaderInv
  <2> QED BY <1>1, <1>2, <1>3, <1>5, <2>1
          DEF TInv, MenuIsThere, PhaseInv, IdleInv, ResetInv, AddressInv, HeaderInv, StubInv,
              LoaderInv, HeaderHeld, Waiting, StubWaiting, Loader
<1>6. CASE c64 = "loaded" /\ c64' \in {"left", "wrecked"} /\ UNCHANGED transferIndex
  <2>1. PhaseInv'
    BY <1>1, <1>4, <1>6
       DEF TInv, PhaseInv, IdleInv, ResetInv, AddressInv, HeaderInv, StubInv,
           LoaderInv, HeaderHeld, Waiting, StubWaiting, Loader
  <2> QED BY <1>2, <1>3, <2>1 DEF TInv, MenuIsThere
<1>7. CASE c64 \in {"left"} \cup Started /\ c64' \in {"wrecked", "stuck"} \cup Started
  <2>1. c64 \notin {"off", "boot", "header", "stub", "data", "loaded"}
        /\ c64' \notin {"off", "boot", "header", "stub", "data", "loaded", "left"}
    BY <1>7 DEF Started
  <2>2. fw \in Loader \cup {"idle"}
    BY <2>1 DEF TInv, PhaseInv, TypeOK, ResetInv, AddressInv, HeaderInv, StubInv, Loader
  <2>3. PhaseInv'
    BY <1>1, <2>1, <2>2
       DEF TInv, PhaseInv, IdleInv, ResetInv, AddressInv, HeaderInv, StubInv,
           LoaderInv, HeaderHeld, Waiting, StubWaiting, Loader
  <2> QED BY <1>2, <1>3, <2>3 DEF TInv, MenuIsThere
<1>8. CASE UNCHANGED c64 /\ (fw = "idle" \/ UNCHANGED transferIndex)
  <2>1. PhaseInv'
    BY <1>1, <1>4, <1>8
       DEF TInv, PhaseInv, IdleInv, ResetInv, AddressInv, HeaderInv, StubInv,
           LoaderInv, HeaderHeld, Waiting, StubWaiting, Loader
  <2> QED BY <1>2, <1>3, <2>1 DEF TInv, MenuIsThere
<1> QED BY <1>5, <1>6, <1>7, <1>8

LEMMA TypeStep ==
  ASSUME TInv, [Next]_vars
  PROVE  TInv'
<1>1. CASE TransferMenu
  <2>1. ResetC64(Menu, 0) /\ asked' = Menu /\ rowsCached' = rowsCached
    BY <1>1 DEF TransferMenu
  <2>2. rowsCached' \in BOOLEAN
    BY <2>1 DEF TInv, TypeOK
  <2> QED BY <2>1, <2>2, ResetStep, Constants
<1>2. ASSUME NEW f \in Files, LaunchProgram(f)
      PROVE  TInv'
  <2>1. PICK g \in Opened(f) : g.kind # "koala" /\ ResetC64(g, 0)
    BY <1>2 DEF LaunchProgram
  <2>2. asked' = f /\ rowsCached' \in BOOLEAN /\ g \in Files
    BY <1>2, <2>1 DEF LaunchProgram, Opened, TInv, TypeOK
  <2> QED BY <2>1, <2>2, ResetStep
<1>3. ASSUME NEW f \in Files, LaunchPicture(f)
      PROVE  TInv'
  <2>1. PICK g \in {h \in Opened(f) : h.kind = "koala" /\ PictureFits(h)} :
          ResetC64(g, g.size - KOA_PAYLOAD_SIZE)
    BY <1>3 DEF LaunchPicture
  <2>2. asked' = f /\ rowsCached' \in BOOLEAN /\ g \in Files /\ DisplayerFits /\ PictureFits(g)
    BY <1>3, <2>1 DEF LaunchPicture, Opened, TInv, TypeOK
  <2>3. g.size - KOA_PAYLOAD_SIZE \in Nat
    <3>1. KOA_PAYLOAD_SIZE \in Int
      BY Amounts, Constants
    <3> QED BY <2>2, <3>1 DEF PictureFits
  <2> QED BY <2>1, <2>2, <2>3, ResetStep
<1>4. ASSUME NEW f \in Files, LaunchFails(f)
      PROVE  TInv'
  BY <1>4, ComputerStep DEF LaunchFails, Serving, pins, TInv, TypeOK, Started
<1>5. ASSUME NEW f \in Files, DisplayerUnread(f) \/ RefusePicture(f)
      PROVE  TInv'
  <2>1. /\ UNCHANGED <<fwVars, exromLow, header, y, x, high, mem>>
        /\ UNCHANGED c64 /\ UNCHANGED transferIndex
        /\ fileOpen' \in BOOLEAN /\ listening' = listening
        /\ rowsCached' \in BOOLEAN
    BY <1>5 DEF DisplayerUnread, RefusePicture, c64Vars, TInv, TypeOK
  <2>2. transferIndex' \in 0 .. B - 1 /\ {fileOpen', listening', rowsCached'} \subseteq BOOLEAN
    BY <2>1 DEF TInv, TypeOK
  <2> QED BY <2>1, <2>2, ComputerStep
<1>6. CASE Boot
  BY <1>6, ComputerStep DEF Boot, pins, TInv, TypeOK
<1>7. CASE LeaveRom
  BY <1>7, ComputerStep DEF LeaveRom, pins, TInv, TypeOK
<1>8. CASE RunStub
  <2>1. c64 = "left" /\ c64' \in {"wrecked"} \cup Started
    BY <1>8 DEF RunStub, StartedBy, Started
  <2>2. UNCHANGED <<fwVars, exromLow, header, y, x, high, mem>> /\ UNCHANGED pins
    BY <1>8 DEF RunStub, pins
  <2>3. transferIndex' \in 0 .. B - 1 /\ {fileOpen', listening', rowsCached'} \subseteq BOOLEAN
    BY <2>2 DEF TInv, TypeOK, pins
  <2> QED BY <2>1, <2>2, <2>3, ComputerStep
<1>9. CASE ReadPage
  BY <1>9, ComputerStep DEF ReadPage, TInv, TypeOK, Started
<1>10. CASE UNCHANGED vars
  BY <1>10, ComputerStep DEF vars, pins, c64Vars, TInv, TypeOK
<1> QED BY <1>1, <1>2, <1>3, <1>4, <1>5, <1>6, <1>7, <1>8, <1>9, <1>10, ReadAddressStep,
           PrepareHeaderStep, SendHeaderStep, NextPhaseStep, SendFillerStep, ReadFileStep,
           SendFileStep, DisableCartridgeStep
        DEF Next, User, Firmware, C64

\* Nothing leaves its kind, however long a file and whatever the card gives: no
\* index of a page or of the header, no length of a phase.
THEOREM TypeCorrect == MenuIsThere /\ Spec => []TypeOK
<1>1. TInv => TypeOK
  BY DEF TInv
<1>2. TInv /\ [Next]_vars => TInv'
  BY TypeStep
<1> QED BY TypeInit, <1>1, <1>2, PTL DEF Spec

\* TransmitByteFast pauses longer where the handler ends a page, in every launch.
THEOREM PausesHold == MenuIsThere /\ Spec => []PausesAtBlockEnds
<1>1. TInv => PausesAtBlockEnds
  BY DEF TInv, PhaseInv, StubInv, LoaderInv, Loader, PausesAtBlockEnds, Sending
<1>2. TInv /\ [Next]_vars => TInv'
  BY TypeStep
<1> QED BY TypeInit, <1>1, <1>2, PTL DEF Spec

-----------------------------------------------------------------------------
(* The row that was chosen.  The menu asks only while it is shown, and the  *)
(* rows are intact from its first page on.                                  *)

RowInv ==
  plugin.size - 2 <= ROWS_AT =>
    /\ c64 = "menu" => rowsCached
    /\ fw # "idle" => file = asked

LEMMA RowStep ==
  ASSUME TInv, RowInv, [Next]_vars
  PROVE  RowInv'
<1>1. CASE TransferMenu
  BY <1>1 DEF TransferMenu, ResetC64, RowInv
<1>2. ASSUME NEW f \in Files, LaunchProgram(f) \/ LaunchPicture(f)
      PROVE  RowInv'
  <2>1. \E g \in Opened(f) : file' = g
    BY <1>2 DEF LaunchProgram, LaunchPicture, ResetC64
  <2>2. asked' = f /\ plugin' = plugin /\ c64' = "boot" /\ c64 = "menu"
    BY <1>2 DEF LaunchProgram, LaunchPicture, ResetC64, Serving
  <2>3. plugin.size - 2 <= ROWS_AT => Opened(f) = {f}
    BY <2>2 DEF RowInv, Opened
  <2> QED BY <2>1, <2>2, <2>3 DEF RowInv
<1>3. ASSUME NEW f \in Files, LaunchFails(f)
      PROVE  RowInv'
  <2>1. c64' \in {c64, "stuck"} /\ fw' = fw /\ file' = file /\ asked' = asked
        /\ plugin' = plugin /\ rowsCached' = rowsCached
    BY <1>3 DEF LaunchFails, fwVars, pins
  <2> QED BY <2>1 DEF RowInv
<1>4. ASSUME NEW f \in Files, DisplayerUnread(f) \/ RefusePicture(f)
      PROVE  RowInv'
  <2>1. UNCHANGED <<c64, fw, file, asked, plugin>>
    BY <1>4 DEF DisplayerUnread, RefusePicture, fwVars, c64Vars
  <2>2. plugin.size - 2 <= ROWS_AT => ~OverwritesRows
    BY Facts, Constants DEF OverwritesRows
  <2>3. rowsCached' = rowsCached \/ (rowsCached' = (rowsCached /\ ~OverwritesRows))
    BY <1>4 DEF DisplayerUnread, RefusePicture
  <2> QED BY <2>1, <2>2, <2>3 DEF RowInv
<1>5. CASE ReadPage
  BY <1>5 DEF ReadPage, RowInv, fwVars
<1>6. CASE Boot \/ LeaveRom \/ RunStub
  <2>1. /\ UNCHANGED <<fw, file, asked, plugin, rowsCached>>
        /\ c64' # "menu"
    BY <1>6 DEF Boot, LeaveRom, RunStub, StartedBy, fwVars, pins
  <2> QED BY <2>1 DEF RowInv
<1>7. CASE Firmware
  <2>1. UNCHANGED <<file, asked, plugin, rowsCached>>
    BY <1>7
       DEF Firmware, ReadAddress, PrepareHeader, SendHeader, NextPhase, SendFiller, ReadFile,
           SendFile, DisableCartridge, pins
  <2>2. fw' # "idle" => fw # "idle"
    BY <1>7
       DEF Firmware, ReadAddress, PrepareHeader, SendHeader, NextPhase, SendFiller, ReadFile,
           SendFile, DisableCartridge
  <2>3. c64' = "menu" => c64 = "menu"
    <3>1. \A v : Nmi(v) => (c64' = "menu" => c64 = "menu")
      BY DEF Nmi, ReceiveHeader, ReceiveStub, ReceiveData, Ignored, c64Vars
    <3> QED BY <1>7, <3>1
            DEF Firmware, ReadAddress, PrepareHeader, SendHeader, NextPhase, SendFiller, ReadFile,
                SendFile, DisableCartridge, c64Vars, TransmitByteSlow, TransmitByteFast
  <2> QED BY <2>1, <2>2, <2>3 DEF RowInv
<1>8. CASE UNCHANGED vars
  BY <1>8 DEF vars, fwVars, pins, c64Vars, RowInv
<1> QED BY <1>1, <1>2, <1>3, <1>4, <1>5, <1>6, <1>7, <1>8 DEF Next, User, C64

\* A row starts what it shows, after any pictures that could not be shown, if
\* the displayer ends before the row cache.
THEOREM RowStartsHolds == MenuIsThere /\ Spec => []RowStarts
<1>1. Init => RowInv
  BY DEF Init, RowInv
<1>2. TInv /\ RowInv /\ [Next]_vars => TInv' /\ RowInv'
  BY TypeStep, RowStep
<1>3. RowInv => RowStarts
  BY DEF RowInv, RowStarts
<1> QED BY TypeInit, <1>1, <1>2, <1>3, PTL DEF Spec

-----------------------------------------------------------------------------
(* What is still to be sent fills the pages the C64 waits for.              *)

\* A program that fits has its length in 16 bits and its pages in 8.
LEMMA FitLength ==
  ASSUME TInv, Fits(file)
  PROVE  /\ TransferLength(file) \in Nat \ {0}
         /\ file.kind = "crt" => file.size > CRT_DATA /\ TransferLength(file) = file.size - CRT_DATA
         /\ file.kind \notin {"crt", "koala"} => /\ file.size > 2
                                                /\ TransferLength(file) = file.size - 2
<1>1. file.size \in Nat /\ file.size < B * B /\ B * B \in Nat \ {0} /\ CRT_DATA \in Nat
  BY Facts, Constants DEF Fits
<1>2. file.kind \in Kinds
  BY Facts
<1>3. CASE file.kind = "crt"
  <2>1. file.size > CRT_DATA
    BY <1>3 DEF Fits
  <2>2. file.size - CRT_DATA \in 0 .. B * B - 1
    BY <1>1, <2>1
  <2>3. TransferLength(file) = file.size - CRT_DATA
    BY <1>1, <1>3, <2>2, ModSmall DEF TransferLength
  <2> QED BY <1>1, <1>3, <2>1, <2>3
<1>4. CASE file.kind = "koala"
  <2>2. TransferLength(file) = KOA_PLUGIN_ADDR - KOA_LOAD_ADDR + plugin.size - 2
    BY <1>4 DEF TransferLength
  <2>3. KOA_PLUGIN_ADDR - KOA_LOAD_ADDR \in Nat
    <3>1. KOA_PLUGIN_ADDR \in Addresses /\ KOA_LOAD_ADDR \in Addresses
      BY Constants
    <3> QED BY <3>1, Constants
  <2> QED BY <1>4, <2>2, <2>3, Amounts, Facts
<1>5. CASE file.kind \notin {"crt", "koala"}
  <2>1. file.size > 2
    BY <1>5 DEF Fits
  <2>2. file.size - 2 \in 0 .. B * B - 1
    BY <1>1, <2>1
  <2>3. TransferLength(file) = file.size - 2
    BY <1>1, <1>2, <1>5, <2>2, ModSmall DEF TransferLength, Kinds
  <2> QED BY <1>1, <1>5, <2>1, <2>3
<1> QED BY <1>3, <1>4, <1>5

LEMMA FitPages ==
  ASSUME TInv, Fits(file)
  PROVE  Pages(TransferLength(file)) \in 1 .. B - 1
<1> DEFINE n == TransferLength(file)
           k == Pages(n)
           from == StartOf(file)
           M == B * B
<1>1. n \in Nat \ {0} /\ k \in Nat /\ PadBytes(n) \in Nat /\ n + PadBytes(n) = B * k
  BY FitLength, Paging, Constants DEF Bytes
<1>2. from \in Addresses /\ TAPEBUFFER \in Addresses
  BY Facts, Constants DEF StartOf, KindsOK, File
<1>3. M \in Nat \ {0} /\ B \in Nat \ {0} /\ STUB_LEN \in Nat \ {0} /\ Addresses = 0 .. M - 1
  BY Constants DEF Addresses
<1>4. TAPEBUFFER \in TAPEBUFFER .. TAPEBUFFER + STUB_LEN - 1
  BY <1>2, <1>3
<1>5. \A i \in 0 .. k * B - 1 : (from + i) % M # TAPEBUFFER
  BY <1>4 DEF Fits
<1> HIDE DEF n, k, from, M
<1>6. k # 0
  BY <1>1, <1>3
<1>7. ASSUME k >= B
      PROVE  FALSE
  <2>1. k * B >= M
    <3>1. \A a, b \in Nat : a >= b => a * b >= b * b
      OBVIOUS
    <3> QED BY <1>1, <1>3, <1>7, <3>1 DEF M
  <2>2. TAPEBUFFER - from \in Int
    BY <1>2, <1>3
  <2>3. PICK q \in Int, i \in 0 .. M - 1 : TAPEBUFFER - from = M * q + i
    BY <1>3, <2>2, DivMod
  <2>4. from + i = M * (-q) + TAPEBUFFER
    BY <1>2, <1>3, <2>3
  <2>5. from + i \in Int /\ -q \in Int /\ TAPEBUFFER \in 0 .. M - 1
    BY <1>2, <1>3
  <2>6. (from + i) % M = TAPEBUFFER
    BY <1>3, <2>4, <2>5, ModUnique
  <2>7. i \in 0 .. k * B - 1
    BY <1>1, <1>3, <2>1
  <2> QED BY <1>5, <2>6, <2>7
<1>8. k \in 1 .. B - 1
  BY <1>1, <1>3, <1>6, <1>7
<1> QED BY <1>8 DEF k, n

\* What later phases will send.
Later ==
  CASE fw = "file" -> IF file.kind = "koala"
                      THEN KOA_PLUGIN_ADDR - KOA_LOAD_ADDR - KOA_PAYLOAD_SIZE + (plugin.size - 2)
                           + PadBytes(DataLength)
                      ELSE PadBytes(DataLength)
    [] fw = "gap" -> plugin.size - 2 + PadBytes(DataLength)
    [] fw = "displayer" -> PadBytes(DataLength)
    [] OTHER -> 0
ToGo == Len(outbox) + left + Later

GoInv ==
  Fits(file) =>
    /\ fw \in Loader /\ c64 = "data" => x \in 1 .. B - 1 /\ ToGo = x * B - y
    /\ fw \in Loader /\ c64 \in {"loaded", "left"} => ToGo = 0
    /\ c64 \in Started => fw = "idle"

LEMMA LaterNat ==
  ASSUME TInv
  PROVE  /\ Later \in Nat /\ Len(outbox) \in Nat /\ ToGo \in Nat
         /\ fw = "gap" => Later > 0
         /\ ToGo = 0 => left = 0 /\ outbox = << >> /\ Later = 0
<1>1. Later \in Nat /\ (fw = "gap" => Later > 0)
  <2>1. CASE fw = "file"
    BY <2>1, Amounts DEF Later, DataLength
  <2>2. CASE fw = "gap"
    <3>1. file.kind = "koala"
      BY <2>2 DEF TInv, PhaseInv, LoaderInv, Loader
    <3>2. Later = (plugin.size - 2) + PadBytes(TransferLength(file))
      BY <2>2 DEF Later, DataLength
    <3>3. \A m \in Nat \ {0}, n \in Nat : m + n \in Nat /\ m + n > 0
      OBVIOUS
    <3> QED BY <3>1, <3>2, <3>3, Amounts
  <2>3. CASE fw \notin {"file", "gap"}
    BY <2>3, Amounts DEF Later, DataLength
  <2> QED BY <2>1, <2>2, <2>3
<1>2. Len(outbox) \in Nat /\ (Len(outbox) = 0 => outbox = << >>)
  <2>1. outbox \in Seq(Datum)
    BY DEF TInv, TypeOK
  <2> QED BY <2>1, EmptySeq, LenProperties
<1>3. left \in Nat
  BY Facts
<1> QED BY <1>1, <1>2, <1>3 DEF ToGo

\* A byte for the page handler counts off one of those to go.
LEMMA GoData ==
  ASSUME TInv, GoInv, NEW v \in Datum, TransmitByteFast(v), fw \in Loader,
         UNCHANGED <<file, plugin, fw>>, ToGo' = ToGo - 1, ToGo > 0
  PROVE  GoInv'
<1>1. Nmi(v) /\ c64 \notin {"header", "stub"}
  BY DEF TransmitByteFast, TInv, PhaseInv, LoaderInv
<1>2. Fits(file)' <=> Fits(file)
  BY DEF Fits, TransferLength, StartOf
<1> SUFFICES ASSUME Fits(file)
             PROVE  /\ c64' = "data" => x' \in 1 .. B - 1 /\ ToGo' = x' * B - y'
                    /\ c64' \in {"loaded", "left"} => ToGo' = 0
                    /\ c64' \notin Started
  BY <1>2 DEF GoInv
<1>3. c64 \notin {"loaded", "left"} /\ c64 \notin Started
  BY DEF GoInv, Loader
<1>4. CASE c64 = "data"
  <2>1. ReceivesData(v)
    BY <1>1, <1>4, DataNmi
  <2>2. /\ y' = (y + 1) % B
        /\ x' = (IF y' = 0 THEN (x - 1) % B ELSE x)
        /\ c64' \in {"data", "loaded", "wrecked"}
        /\ c64' = "data" => ~(y' = 0 /\ PageDone)
        /\ c64' = "loaded" => y' = 0 /\ PageDone
    BY <1>4, <2>1 DEF ReceivesData
  <2>3. x \in 1 .. B - 1 /\ ToGo = x * B - y /\ y \in 0 .. B - 1
    BY <1>4, Facts, Constants DEF GoInv, TInv, PhaseInv
  <2>4. y' = (IF y + 1 = B THEN 0 ELSE y + 1)
    BY <2>2, <2>3, NextByte, Constants
  <2>5. ASSUME c64' = "data"
        PROVE  x' \in 1 .. B - 1 /\ ToGo' = x' * B - y'
    <3>1. CASE y + 1 = B
      <4>1. x # 1 /\ y' = 0
        BY <2>2, <2>4, <2>5, <3>1 DEF PageDone
      <4>2. x - 1 \in 1 .. B - 1 /\ x' = (x - 1) % B
        BY <2>2, <2>3, <4>1, Constants
      <4>3. x' = x - 1
        BY <4>2, ModSmall, Constants
      <4>4. ToGo' = x * B - y - 1
        BY <2>3
      <4>5. \A a, b, c \in Nat : c + 1 = b => a * b - c - 1 = (a - 1) * b - 0
        OBVIOUS
      <4> QED BY <2>3, <3>1, <4>1, <4>2, <4>3, <4>4, <4>5, Constants
    <3>2. CASE y + 1 # B
      <4>1. y' = y + 1 /\ x' = x
        BY <2>2, <2>3, <2>4, <3>2
      <4>2. x * B \in Int
        BY <2>3, Constants
      <4> QED BY <2>3, <4>1, <4>2
    <3> QED BY <3>1, <3>2
  <2>6. ASSUME c64' = "loaded"
        PROVE  ToGo' = 0
    <3>1. x = 1 /\ y' = 0
      BY <2>2, <2>6 DEF PageDone
    <3>2. y + 1 = B
      BY <2>3, <2>4, <3>1
    <3>3. ToGo = B - y
      BY <2>3, <3>1, Constants
    <3> QED BY <2>3, <3>2, <3>3, Constants
  <2> QED BY <2>2, <2>5, <2>6 DEF Started
<1>5. CASE c64 # "data"
  <2>1. UNCHANGED c64Vars
    BY <1>1, <1>3, <1>5, DataNmi
  <2> QED BY <1>3, <1>5, <2>1 DEF c64Vars
<1> QED BY <1>4, <1>5

\* The frame of a step that sends no byte to the page handler.
LEMMA GoKept ==
  ASSUME TInv, GoInv, UNCHANGED <<file, plugin>>,
         \/ fw' \notin Loader
         \/ /\ fw \in Loader /\ ToGo' = ToGo /\ UNCHANGED <<x, y>>
            /\ c64' \in {"data", "loaded", "left"} => c64 \in {"data", "loaded", "left"}
            /\ c64' = "data" <=> c64 = "data",
         c64' \in Started => c64 \in Started /\ fw' = fw
  PROVE  GoInv'
<1>1. Fits(file)' <=> Fits(file)
  BY DEF Fits, TransferLength, StartOf
<1>2. CASE fw' \notin Loader
  BY <1>1, <1>2 DEF GoInv
<1>3. CASE /\ fw \in Loader /\ ToGo' = ToGo /\ UNCHANGED <<x, y>>
           /\ c64' \in {"data", "loaded", "left"} => c64 \in {"data", "loaded", "left"}
           /\ c64' = "data" <=> c64 = "data"
  BY <1>1, <1>3 DEF GoInv
<1> QED BY <1>2, <1>3

LEMMA GoNextPhase ==
  ASSUME TInv, GoInv, NextPhase
  PROVE  GoInv'
<1>1. /\ fw \in {"header", "stub", "file", "gap", "displayer", "pad"}
      /\ left = 0 /\ outbox = << >> /\ outbox' = << >>
      /\ fw' = Following(fw) /\ left' = Amount(fw')
      /\ file' = file /\ plugin' = plugin /\ c64' = c64 /\ x' = x /\ y' = y /\ header' = header
  BY DEF NextPhase, c64Vars
<1>2. Fits(file)' <=> Fits(file)
  BY <1>1 DEF Fits, TransferLength, StartOf
<1>3. DataLength' = DataLength /\ PadBytes(DataLength)' = PadBytes(DataLength)
      /\ DataLength = TransferLength(file)
  BY <1>1 DEF DataLength, TransferLength, PadBytes
<1>4. Len(outbox) = 0 /\ Len(outbox') = 0
  BY <1>1, EmptySeq
<1>5. c64' \in Started => fw' = "idle" \/ ~Fits(file)
  BY <1>1 DEF GoInv
<1>6. CASE fw = "header"
  <2>1. fw' = "stub"
    BY <1>1, <1>6 DEF Following
  <2> QED BY <1>2, <1>5, <2>1 DEF GoInv, Loader
<1>7. CASE fw = "stub"
  <2>1. fw' = "file"
    BY <1>1, <1>7 DEF Following
  <2>2. c64 = "data" /\ y = 0 /\ x = header[3] /\ header \in Headers(file)
    <3>1. \A n \in Nat : n < B => B - n # 0
      BY Constants
    <3> QED BY <1>1, <1>7, <3>1, Facts DEF TInv, PhaseInv, StubInv
  <2>3. ToGo' = DataLength + PadBytes(DataLength)
    <3>1. ToGo' = left' + Later'
      <4>1. ToGo' = 0 + left' + Later'
        BY <1>4 DEF ToGo
      <4>2. left' \in Nat /\ Later' \in Nat
        BY <1>1, <1>3, <2>1, Amounts, Facts DEF Amount, Later, DataLength
      <4> QED BY <4>1, <4>2
    <3>2. CASE file.kind = "koala"
      <4>1. left' = KOA_PAYLOAD_SIZE
            /\ Later' = KOA_PLUGIN_ADDR - KOA_LOAD_ADDR - KOA_PAYLOAD_SIZE + (plugin.size - 2)
                        + PadBytes(DataLength)
            /\ DataLength = KOA_PLUGIN_ADDR - KOA_LOAD_ADDR + plugin.size - 2
        BY <1>1, <1>3, <2>1, <3>2 DEF Amount, Later, TransferLength
      <4>2. \A a, l, n, s, p \in Int : n + (a - l - n + (s - 2) + p) = (a - l + s - 2) + p
        OBVIOUS
      <4>3. KOA_PLUGIN_ADDR \in Int /\ KOA_LOAD_ADDR \in Int /\ KOA_PAYLOAD_SIZE \in Int
            /\ plugin.size \in Int /\ PadBytes(DataLength) \in Int
        <5>1. KOA_PLUGIN_ADDR \in Addresses /\ KOA_LOAD_ADDR \in Addresses /\ Addresses \subseteq Nat
          BY Constants
        <5>2. KOA_PAYLOAD_SIZE \in Nat /\ PadBytes(DataLength) \in Nat
          BY <3>2, Amounts DEF DataLength
        <5> QED BY <5>1, <5>2, Facts
      <4> QED BY <3>1, <4>1, <4>2, <4>3
    <3>3. CASE file.kind # "koala"
      <4>1. left' = DataLength /\ Later' = PadBytes(DataLength)
        BY <1>1, <1>3, <2>1, <3>3 DEF Amount, Later
      <4> QED BY <3>1, <4>1
    <3> QED BY <3>2, <3>3
  <2>4. ASSUME Fits(file)
        PROVE  x' \in 1 .. B - 1 /\ ToGo' = x' * B - y'
    <3>1. Pages(DataLength) \in 1 .. B - 1
      BY <2>4, FitPages DEF DataLength
    <3>2. x = Pages(DataLength)
      <4>1. x = TransferPages(TransferLength(file))
        BY <2>2, Facts, HeaderFacts DEF TInv
      <4> QED BY <3>1, <4>1, ModSmall, Constants DEF TransferPages, DataLength
    <3>3. ToGo' = B * Pages(DataLength)
      BY <2>3, Facts, Paging DEF DataLength
    <3>4. \A a, b \in Nat : a * b = b * a - 0
      OBVIOUS
    <3> QED BY <1>1, <2>2, <3>1, <3>2, <3>3, <3>4, Constants
  <2> QED BY <1>1, <1>2, <1>5, <2>1, <2>2, <2>4 DEF GoInv, Loader
<1>8. CASE fw \in {"file", "gap", "displayer", "pad"}
  <2>1. fw \in Loader /\ fw' \in Loader /\ (fw \in {"gap", "displayer"} => file.kind = "koala")
    BY <1>1, <1>8 DEF Following, Loader, TInv, PhaseInv, LoaderInv
  <2>2. left' + Later' = Later /\ left' \in Nat /\ Later' \in Nat
    <3>1. CASE fw = "file" /\ file.kind = "koala"
      <4>1. fw' = "gap" /\ left' = KOA_PLUGIN_ADDR - KOA_LOAD_ADDR - KOA_PAYLOAD_SIZE
            /\ Later' = plugin.size - 2 + PadBytes(DataLength)
            /\ Later = KOA_PLUGIN_ADDR - KOA_LOAD_ADDR - KOA_PAYLOAD_SIZE + (plugin.size - 2)
                       + PadBytes(DataLength)
        BY <1>1, <1>3, <3>1 DEF Following, Amount, Later
      <4> DEFINE g == KOA_PLUGIN_ADDR - KOA_LOAD_ADDR - KOA_PAYLOAD_SIZE
      <4>2. g \in Nat /\ plugin.size - 2 \in Nat /\ PadBytes(DataLength) \in Nat
        BY <3>1, Amounts DEF DataLength
      <4>3. left' = g /\ Later' = (plugin.size - 2) + PadBytes(DataLength)
            /\ Later = g + (plugin.size - 2) + PadBytes(DataLength)
        BY <4>1
      <4> HIDE DEF g
      <4> QED BY <4>2, <4>3
    <3>2. CASE fw = "file" /\ file.kind # "koala"
      <4>1. fw' = "pad" /\ left' = PadBytes(DataLength) /\ Later' = 0 /\ Later = PadBytes(DataLength)
        BY <1>1, <1>3, <3>2 DEF Following, Amount, Later
      <4> QED BY <4>1, Amounts DEF DataLength
    <3>3. CASE fw = "gap"
      <4>1. fw' = "displayer" /\ left' = plugin.size - 2 /\ Later' = PadBytes(DataLength)
            /\ Later = plugin.size - 2 + PadBytes(DataLength)
        BY <1>1, <1>3, <3>3 DEF Following, Amount, Later
      <4> QED BY <2>1, <3>3, <4>1, Amounts DEF DataLength
    <3>4. CASE fw = "displayer"
      <4>1. fw' = "pad" /\ left' = PadBytes(DataLength) /\ Later' = 0 /\ Later = PadBytes(DataLength)
        BY <1>1, <1>3, <3>4 DEF Following, Amount, Later
      <4> QED BY <4>1, Amounts DEF DataLength
    <3>5. CASE fw = "pad"
      <4>1. fw' = "settle" /\ left' = 0 /\ Later' = 0 /\ Later = 0
        BY <1>1, <3>5 DEF Following, Amount, Later
      <4> QED BY <4>1
    <3> QED BY <1>8, <3>1, <3>2, <3>3, <3>4, <3>5
  <2>3. ToGo' = ToGo
    <3>1. ToGo' = 0 + left' + Later' /\ ToGo = 0 + 0 + Later
      BY <1>1, <1>4 DEF ToGo
    <3> QED BY <2>2, <3>1, LaterNat
  <2>4. fw # "idle"
    BY <2>1 DEF Loader
  <2> QED BY <1>1, <1>2, <2>1, <2>3, <2>4 DEF GoInv
<1> QED BY <1>1, <1>6, <1>7, <1>8

LEMMA GoFiller ==
  ASSUME TInv, SendFiller, fw # "stub"
  PROVE  ToGo' = ToGo - 1 /\ ToGo > 0
<1>1. /\ fw \in {"gap", "displayer", "pad"} /\ left > 0 /\ left' = left - 1
      /\ UNCHANGED <<file, plugin, fw, outbox>>
  BY DEF SendFiller
<1>2. Later' = Later
  BY <1>1 DEF Later, DataLength, TransferLength, PadBytes
<1> QED BY <1>1, <1>2, LaterNat, Facts DEF ToGo

LEMMA GoFile ==
  ASSUME TInv, SendFile
  PROVE  ToGo' = ToGo - 1 /\ ToGo > 0
<1>1. /\ outbox # << >> /\ outbox' = Tail(outbox) /\ UNCHANGED <<file, plugin, fw, left>>
  BY DEF SendFile
<1>2. Later' = Later
  BY <1>1 DEF Later, DataLength, TransferLength, PadBytes
<1>3. Len(outbox') = Len(outbox) - 1 /\ Len(outbox) \in Nat \ {0}
  <2>1. outbox \in Seq(Datum)
    BY DEF TInv, TypeOK
  <2> QED BY <1>1, <2>1, HeadTailProperties, EmptySeq
<1> QED BY <1>1, <1>2, <1>3, LaterNat, Facts DEF ToGo

LEMMA GoRead ==
  ASSUME TInv, ReadFile
  PROVE  ToGo' = ToGo
<1>1. /\ outbox = << >> /\ left' = left - Wanted /\ Wanted \in 1 .. left
      /\ UNCHANGED <<file, plugin, fw>>
  BY ReadFacts
<1>2. Later' = Later
  BY <1>1 DEF Later, DataLength, TransferLength, PadBytes
<1>3. Len(outbox') = Wanted
  <2>1. \/ outbox' = [i \in 1 .. Wanted |-> IF i <= Got THEN filePos + i - 1 ELSE Zero]
        \/ outbox' = [i \in 1 .. Wanted |-> Zero]
    BY DEF ReadFile, Wanted, Got, There
  <2>2. Wanted \in Nat
    BY <1>1, Facts
  <2> QED BY <2>1, <2>2
<1>4. Len(outbox) = 0
  BY <1>1, EmptySeq
<1>5. Wanted \in Nat /\ left \in Nat /\ Later \in Nat
  BY <1>1, Facts, LaterNat
<1>6. ToGo' = Wanted + (left - Wanted) + Later /\ ToGo = 0 + left + Later
  BY <1>1, <1>2, <1>3, <1>4 DEF ToGo
<1> QED BY <1>5, <1>6

LEMMA GoStep ==
  ASSUME TInv, GoInv, [Next]_vars
  PROVE  GoInv'
<1>1. CASE TransferMenu \/ \E f \in Files : LaunchProgram(f) \/ LaunchPicture(f)
  <2>1. fw' = "reset" /\ c64' = "boot"
    BY <1>1 DEF TransferMenu, LaunchProgram, LaunchPicture, ResetC64
  <2> QED BY <2>1 DEF GoInv, Loader, Started
<1>2. CASE \E f \in Files : LaunchFails(f) \/ DisplayerUnread(f) \/ RefusePicture(f)
  <2>1. fw = "idle" /\ fw' = "idle" /\ UNCHANGED <<file, plugin>> /\ c64' \in {c64, "stuck"}
    BY <1>2 DEF LaunchFails, DisplayerUnread, RefusePicture, Serving, fwVars, c64Vars
  <2> QED BY <2>1, GoKept DEF Loader, Started
<1>3. CASE ReadPage
  <2>1. fw = "idle" /\ fw' = "idle" /\ UNCHANGED <<file, plugin>> /\ c64 \in Started
    BY <1>3 DEF ReadPage, fwVars, Started
  <2> QED BY <2>1, GoKept DEF Loader
<1>4. CASE Boot
  <2>1. UNCHANGED <<file, plugin, fw>> /\ c64' = "header" /\ fw \notin Loader
    BY <1>4 DEF Boot, fwVars, TInv, PhaseInv, LoaderInv
  <2> QED BY <2>1, GoKept DEF Started
<1>5. CASE LeaveRom
  <2>1. /\ UNCHANGED <<file, plugin, fw, left, outbox, x, y>>
        /\ c64 = "loaded" /\ c64' \in {"left", "wrecked"}
    BY <1>5 DEF LeaveRom, fwVars
  <2>2. ToGo' = ToGo
    BY <2>1 DEF ToGo, Later, DataLength, TransferLength, PadBytes
  <2> QED BY <2>1, <2>2, GoKept DEF Started
<1>6. CASE RunStub
  <2>1. /\ UNCHANGED <<file, plugin, fw, left, outbox, x, y>> /\ ~Finishing
        /\ c64 = "left" /\ c64' \in {"wrecked"} \cup Started
    BY <1>6 DEF RunStub, StartedBy, Started, fwVars
  <2>2. Fits(file)' <=> Fits(file)
    BY <2>1 DEF Fits, TransferLength, StartOf
  <2>3. Fits(file) => fw = "idle"
    <3>1. fw \in Loader \cup {"idle"}
      BY <2>1 DEF TInv, PhaseInv, TypeOK, ResetInv, AddressInv, HeaderInv, StubInv, Loader
    <3>2. fw \in Loader /\ ToGo = 0 => Finishing
      BY LaterNat DEF Finishing, Loader
    <3> QED BY <2>1, <3>1, <3>2 DEF GoInv
  <2> QED BY <2>1, <2>2, <2>3 DEF GoInv, Loader, Started
<1>7. CASE ReadAddress \/ PrepareHeader \/ SendHeader
  <2>1. fw' \in {"address", "header"} /\ UNCHANGED <<file, plugin>>
    BY <1>7 DEF ReadAddress, PrepareHeader, SendHeader
  <2>2. c64' \notin Started
    <3>1. c64 \in {"boot", "header"} \/ (c64 = "stub" /\ fw = "header" /\ outbox = << >>)
      BY <1>7 DEF ReadAddress, PrepareHeader, SendHeader, TInv, PhaseInv, ResetInv,
                  AddressInv, HeaderInv
    <3> QED BY <1>7, <3>1
            DEF ReadAddress, PrepareHeader, SendHeader, TransmitByteSlow, Nmi, ReceiveHeader,
                ReceiveStub, ReceiveData, Ignored, c64Vars, Started
  <2> QED BY <2>1, <2>2, GoKept DEF Loader
<1>8. CASE SendFiller
  <2>1. CASE fw = "stub"
    <3>1. UNCHANGED <<file, plugin, fw>>
      BY <1>8 DEF SendFiller
    <3>2. c64 = "stub"
      <4>1. left > 0
        BY <1>8 DEF SendFiller
      <4> QED BY <2>1, <4>1 DEF TInv, PhaseInv, StubInv
    <3>3. c64' \notin Started
      <4>1. \A v : Nmi(v) => c64' \in {"stub", "data"}
        BY <3>2 DEF Nmi, ReceiveHeader, ReceiveStub, ReceiveData, Ignored, Loading
      <4> QED BY <1>8, <4>1 DEF SendFiller, TransmitByteFast, Started
    <3> QED BY <2>1, <3>1, <3>3, GoKept DEF Loader
  <2>2. CASE fw # "stub"
    <3>1. PICK v \in {Stub, Zero, OfPlugin} : TransmitByteFast(v)
      BY <1>8 DEF SendFiller
    <3>2. v \in Datum
      BY DEF Datum, Stub, Zero, OfPlugin
    <3>3. UNCHANGED <<file, plugin, fw>> /\ fw \in Loader
      BY <1>8, <2>2 DEF SendFiller, Loader
    <3> QED BY <1>8, <2>2, <3>1, <3>2, <3>3, GoFiller, GoData
  <2> QED BY <2>1, <2>2
<1>9. CASE SendFile
  <2>1. TransmitByteFast(Head(outbox)) /\ UNCHANGED <<file, plugin, fw>> /\ fw \in Loader
    BY <1>9 DEF SendFile, Loader
  <2>2. Head(outbox) \in Datum
    <3>1. outbox \in Seq(Datum) /\ outbox # << >>
      BY <1>9 DEF SendFile, TInv, TypeOK
    <3> QED BY <3>1, HeadTailProperties
  <2> QED BY <1>9, <2>1, <2>2, GoFile, GoData
<1>10. CASE ReadFile
  <2>1. UNCHANGED <<file, plugin, fw, c64, x, y>> /\ fw = "file"
    BY <1>10, ReadFacts DEF c64Vars
  <2> QED BY <1>10, <2>1, GoRead, GoKept DEF Loader
<1>11. CASE DisableCartridge
  <2>1. fw' = "idle"
    BY <1>11 DEF DisableCartridge
  <2> QED BY <2>1 DEF GoInv, Loader
<1>12. CASE UNCHANGED vars
  <2>1. UNCHANGED <<file, plugin, fw, left, outbox, c64, x, y>>
    BY <1>12 DEF vars, fwVars, c64Vars
  <2>2. ToGo' = ToGo
    BY <2>1 DEF ToGo, Later, DataLength, TransferLength, PadBytes
  <2>3. CASE fw \in Loader
    BY <2>1, <2>2, <2>3, GoKept
  <2>4. CASE fw \notin Loader
    BY <2>1, <2>4, GoKept
  <2> QED BY <2>3, <2>4
<1> QED BY <1>1, <1>2, <1>3, <1>4, <1>5, <1>6, <1>7, <1>8, <1>9, <1>10, <1>11, <1>12, GoNextPhase
        DEF Next, User, Firmware, C64

\* No byte of a launch is left over for a program that has started, and none is
\* missing when the firmware has sent its last: for every program that fits.
THEOREM NothingAfterStartHolds == MenuIsThere /\ Spec => []NothingAfterStart
<1>1. Init => GoInv
  BY DEF Init, GoInv, Loader, Started
<1>2. TInv /\ GoInv /\ [Next]_vars => TInv' /\ GoInv'
  BY TypeStep, GoStep
<1>3. TInv /\ GoInv => NothingAfterStart
  <2> SUFFICES ASSUME TInv, GoInv, Fits(file)
               PROVE  /\ c64 \in {"loaded", "left"} /\ fw # "idle" => Finishing
                      /\ c64 \in Started => fw = "idle" /\ ~exromLow
                      /\ fw = "settle" => c64 \notin Loading
    BY DEF NothingAfterStart
  <2>1. ASSUME c64 \in {"loaded", "left"}, fw # "idle"
        PROVE  Finishing
    <3>1. fw \in Loader
      BY <2>1 DEF TInv, PhaseInv, TypeOK, ResetInv, AddressInv, HeaderInv, StubInv, Loader
    <3>2. ToGo = 0
      BY <2>1, <3>1 DEF GoInv
    <3> QED BY <3>1, <3>2, LaterNat DEF Finishing, Loader
  <2>2. c64 \in Started => fw = "idle" /\ ~exromLow
    BY DEF GoInv, TInv, PhaseInv, IdleInv
  <2>3. ASSUME fw = "settle", c64 \in Loading
        PROVE  FALSE
    <3>1. c64 = "data" /\ left = 0 /\ outbox = << >>
      BY <2>3 DEF TInv, PhaseInv, LoaderInv, Loader, Loading
    <3>2. ToGo = 0 + 0 + 0
      BY <2>3, <3>1, EmptySeq DEF ToGo, Later
    <3>3. x \in 1 .. B - 1 /\ ToGo = x * B - y /\ y \in 0 .. B - 1
      BY <2>3, <3>1, Facts, Constants DEF GoInv, Loader, TInv, PhaseInv
    <3>4. \A a, b, c \in Nat : a >= 1 /\ c < b => a * b - c > 0
      <4> SUFFICES ASSUME NEW a \in Nat, NEW b \in Nat, NEW c \in Nat, a >= 1, c < b
                   PROVE  a * b - c > 0
        OBVIOUS
      <4>1. a * b >= 1 * b
        OBVIOUS
      <4> QED BY <4>1
    <3> QED BY <3>2, <3>3, <3>4, Constants
  <2> QED BY <2>1, <2>2, <2>3
<1> QED BY TypeInit, <1>1, <1>2, <1>3, PTL DEF Spec

-----------------------------------------------------------------------------
(* What the C64 has stored.                                                 *)

\* Where the bytes of the program begin in its file, and where they go.
First(f) ==
  CASE f.kind = "crt" -> CRT_DATA
    [] f.kind = "koala" -> f.size - KOA_PAYLOAD_SIZE
    [] OTHER -> 2
Place(i) == (StartOf(file) + i) % (B * B)

Written(d) ==
  \A i \in 0 .. d - 1 :
    i < DataLength => Place(i) \in DOMAIN mem /\ mem[Place(i)] = Expected(i)

\* How many bytes the C64 has of a program that fits.
Had == Pages(DataLength) * B - ToGo

AtAddress ==
  fw \notin {"idle", "reset"} \/ c64 \in {"stub", "data", "loaded", "left"} =>
    load = StartOf(file)
InFile ==
  /\ fw \in {"address", "header", "stub"} => filePos = First(file)
  /\ fw = "file" =>
       /\ filePos + left = file.size
       /\ \A i \in 1 .. Len(outbox) : outbox[i] = filePos - Len(outbox) + i - 1
Storing ==
  fw \in Loader /\ c64 = "data" =>
    /\ high = (load \div B + (Pages(DataLength) - x)) % B
    /\ Written(Had)
AllStored ==
  c64 \in {"loaded", "left"} => Written(DataLength)

\* No phase sends more than its own.
Phased ==
  /\ fw \in {"gap", "displayer", "pad"} => left <= Amount(fw)
  /\ fw = "reset" /\ file.kind = "koala" => filePos = First(file)

WholeInv ==
  Phased /\ (Fits(file) /\ ~lost => AtAddress /\ InFile /\ Storing /\ AllStored)

\* The bytes of an address, counted on over pages.
LEMMA CountedOn ==
  ASSUME NEW lh \in Bytes, NEW ll \in Bytes, NEW k \in Nat, NEW n \in Nat, NEW i \in Nat,
         NEW h \in Int, h = (lh + (k - n)) % B
  PROVE  (ll + h * B + i) % (B * B) = ((B * lh + ll) + (k * B - (n * B - i))) % (B * B)
<1>1. B \in Nat \ {0} /\ B * B \in Nat \ {0} /\ lh \in Int /\ ll \in Int
  BY Constants DEF Bytes
<1>2. lh + (k - n) \in Int
  BY <1>1
<1>3. PICK q \in Int, r \in 0 .. B - 1 : lh + (k - n) = B * q + r /\ (lh + (k - n)) % B = r
  BY <1>1, <1>2, DivMod
<1> DEFINE m == (B * lh + ll) + (k * B - (n * B - i))
<1>4. ll + h * B + i = m + (B * B) * (-q)
  <2>1. h = lh + (k - n) - B * q
    BY <1>1, <1>3
  <2>2. \A b, l, c, s, t, u, p \in Int :
          c + (l + (s - t) - b * p) * b + u = ((b * l + c) + (s * b - (t * b - u))) + (b * b) * (-p)
    OBVIOUS
  <2> QED BY <1>1, <1>3, <2>1, <2>2
<1>5. m \in Int /\ -q \in Int
  <2>1. B * lh \in Int /\ k * B \in Int /\ n * B \in Int
    BY <1>1
  <2> QED BY <1>1, <1>3, <2>1
<1> HIDE DEF m
<1>6. (m + (B * B) * (-q)) % (B * B) = m % (B * B)
  BY <1>1, <1>5, ModShift
<1> QED BY <1>4, <1>6 DEF m

LEMMA HadFacts ==
  ASSUME TInv, GoInv, Fits(file), fw \in Loader, c64 = "data"
  PROVE  /\ x \in 1 .. B - 1 /\ y \in 0 .. B - 1 /\ ToGo = x * B - y
         /\ Pages(DataLength) \in 1 .. B - 1 /\ DataLength \in Nat
         /\ DataLength <= Pages(DataLength) * B /\ Pages(DataLength) * B < B * B
         /\ Had \in Int /\ Had = Pages(DataLength) * B - (x * B - y)
<1>1. x \in 1 .. B - 1 /\ ToGo = x * B - y /\ y \in 0 .. B - 1
  BY Facts, Constants DEF GoInv, TInv, PhaseInv
<1>2. Pages(DataLength) \in 1 .. B - 1 /\ DataLength \in Nat
  BY FitPages, Facts DEF DataLength
<1>3. DataLength <= Pages(DataLength) * B
  <2>1. DataLength + PadBytes(DataLength) = B * Pages(DataLength) /\ PadBytes(DataLength) \in Nat
    BY <1>2, Paging, Constants DEF Bytes
  <2>2. B * Pages(DataLength) = Pages(DataLength) * B
    BY <1>2, Constants
  <2> QED BY <1>2, <2>1, <2>2
<1>4. \A k, b \in Nat : k \in 1 .. b - 1 => k * b < b * b /\ k * b \in Int
  <2> SUFFICES ASSUME NEW b \in Nat, NEW k \in 1 .. b - 1
               PROVE  k * b < b * b /\ k * b \in Int
    OBVIOUS
  <2>1. k * b <= (b - 1) * b /\ (b - 1) * b = b * b - b
    OBVIOUS
  <2> QED BY <2>1
<1>5. Pages(DataLength) * B < B * B /\ Pages(DataLength) * B \in Int /\ x * B \in Int
  BY <1>1, <1>2, <1>4, Constants
<1> QED BY <1>1, <1>2, <1>3, <1>5 DEF Had

LEMMA StoresNext ==
  ASSUME TInv, GoInv, WholeInv, Fits(file), ~lost, fw \in Loader, c64 = "data",
         NEW v \in Datum, ReceivesData(v), UNCHANGED <<file, plugin, load, fw>>,
         ToGo > 0, ToGo' = ToGo - 1, Had < DataLength => v = Expected(Had)
  PROVE  Storing' /\ AllStored'
<1> DEFINE n == DataLength
           k == Pages(DataLength)
           M == B * B
           d == Had
           a == (header[4] + high * B + y) % (B * B)
<1>1. /\ x \in 1 .. B - 1 /\ y \in 0 .. B - 1 /\ ToGo = x * B - y
      /\ k \in 1 .. B - 1 /\ n \in Nat /\ n <= k * B /\ k * B < M
      /\ d \in Int /\ d = k * B - (x * B - y)
  BY HadFacts
<1>2. /\ high = (load \div B + (k - x)) % B /\ Written(d) /\ load = StartOf(file)
  BY DEF WholeInv, Storing, AtAddress, Loader
<1>3. /\ a \in Addresses /\ mem' = Stored(a, v)
      /\ y' = (y + 1) % B
      /\ high' = (IF y' = 0 THEN (high + 1) % B ELSE high)
      /\ x' = (IF y' = 0 THEN (x - 1) % B ELSE x)
      /\ c64' = (IF a \in Workspace THEN "wrecked" ELSE IF y' = 0 /\ PageDone THEN "loaded" ELSE c64)
  BY DEF ReceivesData
<1>4. load \in Addresses /\ load \div B \in Bytes /\ load % B \in Bytes
      /\ load = B * (load \div B) + (load % B)
  BY Facts, BytesOf DEF KindsOK
<1>5. a = Place(d)
  <2>1. header[4] = load % B
    BY Facts, HeaderFacts DEF TInv, PhaseInv, HeaderHeld
  <2>2. high \in Int
    BY Facts, Constants DEF Bytes
  <2>3. k \in Nat /\ x \in Nat /\ y \in Nat
    BY <1>1
  <2>4. ((load % B) + high * B + y) % (B * B)
          = ((B * (load \div B) + (load % B)) + (k * B - (x * B - y))) % (B * B)
    BY <1>2, <1>4, <2>2, <2>3, CountedOn
  <2> QED BY <1>1, <1>2, <1>4, <2>1, <2>4 DEF Place
<1>6. d < M /\ d < k * B
  <2>1. k * B \in Int /\ x * B \in Int /\ M \in Int
    BY <1>1, Constants
  <2>2. x * B - y > 0
    BY <1>1
  <2> QED BY <1>1, <2>1, <2>2
<1>7. StartOf(file) \in Int /\ M \in Nat \ {0}
  BY <1>2, <1>4, Constants
<1> HIDE DEF n, k, d, a, M
<1>8. \A i \in 0 .. d - 1 : Place(i) # a
  <2> SUFFICES ASSUME NEW i \in 0 .. d - 1
               PROVE  Place(i) # Place(d)
    BY <1>5
  <2>1. i \in Int /\ i < d /\ d - i < M
    BY <1>1, <1>6, <1>7
  <2> QED BY <1>1, <1>7, <2>1, ModApart DEF Place, M
<1>9. /\ DOMAIN mem' = DOMAIN mem \cup {a} /\ mem'[a] = v
      /\ \A b \in DOMAIN mem : b # a => mem'[b] = mem[b]
  BY <1>3, StoredFacts DEF TInv, TypeOK
<1>10. \A i \in 0 .. d : i < n => Place(i) \in DOMAIN mem' /\ mem'[Place(i)] = Expected(i)
  <2> SUFFICES ASSUME NEW i \in 0 .. d, i < n
               PROVE  Place(i) \in DOMAIN mem' /\ mem'[Place(i)] = Expected(i)
    OBVIOUS
  <2>1. CASE i = d
    BY <1>5, <1>9, <2>1 DEF d, n
  <2>2. CASE i # d
    <3>1. i \in 0 .. d - 1
      BY <1>1, <2>2
    <3>2. Place(i) \in DOMAIN mem /\ mem[Place(i)] = Expected(i) /\ Place(i) # a
      BY <1>2, <1>8, <3>1 DEF Written, n
    <3> QED BY <1>9, <3>2
  <2> QED BY <2>1, <2>2
<1>11. /\ DataLength' = n /\ Pages(DataLength)' = k /\ (\A i : Place(i)' = Place(i))
       /\ \A i : Expected(i)' = Expected(i)
  BY DEF DataLength, TransferLength, Pages, PadBytes, Place, StartOf, Expected, n, k
<1>12. \A i \in 0 .. d : i < DataLength' =>
         Place(i)' \in DOMAIN mem' /\ mem'[Place(i)'] = Expected(i)'
  BY <1>10, <1>11
<1>13. Had' = d + 1
  <2>1. Had' = k * B - ToGo'
    BY <1>11 DEF Had
  <2>2. d = k * B - ToGo
    BY DEF Had, d, k
  <2>3. k * B \in Int /\ ToGo \in Int
    BY <1>1, Constants, LaterNat
  <2> QED BY <2>1, <2>2, <2>3
<1>14. y' = (IF y + 1 = B THEN 0 ELSE y + 1)
  BY <1>1, <1>3, NextByte, Constants
<1>15. ASSUME c64' = "data"
       PROVE  high' = (load \div B + (k - x')) % B
  <2>1. CASE y' = 0
    <3>1. x # 1
      BY <1>3, <1>15, <2>1 DEF PageDone
    <3>2. x - 1 \in 0 .. B - 1 /\ x' = (x - 1) % B
      BY <1>1, <1>3, <2>1, Constants
    <3>3. x' = x - 1
      BY <3>2, ModSmall, Constants
    <3> DEFINE s == load \div B + (k - x)
    <3>4. s \in Int /\ s + 1 = load \div B + (k - x')
      <4>1. load \div B \in Int /\ k \in Int /\ x \in Int
        BY <1>1, <1>4, Constants DEF Bytes
      <4> QED BY <3>3, <4>1
    <3>5. high' = (high + 1) % B /\ high = s % B
      <4>1. high' = (high + 1) % B
        BY <1>3, <2>1
      <4>2. high = s % B
        BY <1>2
      <4> QED BY <4>1, <4>2
    <3> HIDE DEF s
    <3>6. ((s % B) + 1) % B = (s + 1) % B
      <4>b. B \in Nat \ {0}
        BY Constants
      <4>1. PICK q \in Int, r \in 0 .. B - 1 : s = B * q + r /\ s % B = r
        BY <3>4, <4>b, DivMod
      <4>2. s + 1 = (r + 1) + B * q /\ r + 1 \in Int
        BY <4>1, Constants
      <4> QED BY <4>1, <4>2, ModShift, Constants
    <3> QED BY <3>4, <3>5, <3>6
  <2>2. CASE y' # 0
    BY <1>2, <1>3, <2>2
  <2> QED BY <2>1, <2>2
<1>16. ASSUME c64' = "loaded"
       PROVE  d + 1 = k * B
  <2>1. y' = 0 /\ x = 1
    BY <1>3, <1>16 DEF PageDone
  <2>2. y + 1 = B
    BY <1>1, <1>14, <2>1
  <2>3. d = k * B - (B - y) /\ k * B \in Int
    BY <1>1, <2>1, Constants
  <2> QED BY <1>1, <2>2, <2>3, Constants
<1>17. Storing'
  <2>1. Written(Had)'
    <3>1. \A i \in 0 .. Had' - 1 : i \in 0 .. d
      BY <1>1, <1>13
    <3> QED BY <1>12, <3>1 DEF Written
  <2> QED BY <1>11, <1>15, <2>1 DEF Storing
<1>18. AllStored'
  <2>1. c64' \in {"data", "loaded", "wrecked"}
    BY <1>3
  <2> SUFFICES ASSUME c64' = "loaded"
               PROVE  Written(DataLength)'
    BY <2>1 DEF AllStored
  <2>2. n <= d + 1
    BY <1>1, <1>16
  <2>3. \A i \in 0 .. DataLength' - 1 : i \in 0 .. d
    BY <1>1, <1>11, <2>2
  <2> QED BY <1>12, <2>3 DEF Written
<1> QED BY <1>17, <1>18

\* What depends on the file alone.
LEMMA SameFile ==
  ASSUME UNCHANGED <<file, plugin>>
  PROVE  /\ Fits(file)' <=> Fits(file)
         /\ First(file)' = First(file) /\ StartOf(file)' = StartOf(file)
         /\ DataLength' = DataLength /\ Pages(DataLength)' = Pages(DataLength)
         /\ \A p : Amount(p)' = Amount(p)
         /\ \A i : Place(i)' = Place(i) /\ Expected(i)' = Expected(i)
BY DEF Fits, First, StartOf, DataLength, TransferLength, Pages, PadBytes, Amount, Place, Expected

\* A step of the C64, or one that ends the launch.
LEMMA WholeFrame ==
  ASSUME TInv, WholeInv, UNCHANGED <<file, plugin, load, filePos, lost>>,
         UNCHANGED <<left, outbox, x, high, mem>>,
         fw' \in {fw, "idle"}, c64' \in {"stub", "data", "loaded"} => c64' = c64,
         c64' = "left" => c64 \in {"loaded", "left"}
  PROVE  WholeInv'
<1>1. Phased'
  BY SameFile DEF Phased, WholeInv
<1>2. Fits(file)' <=> Fits(file)
  BY SameFile
<1> SUFFICES ASSUME Fits(file), ~lost
             PROVE  AtAddress' /\ InFile' /\ Storing' /\ AllStored'
  BY <1>1, <1>2 DEF WholeInv
<1>3. AtAddress /\ InFile /\ Storing /\ AllStored
  BY DEF WholeInv
<1>4. AtAddress'
  BY <1>3, SameFile DEF AtAddress
<1>5. InFile'
  BY <1>3, SameFile DEF InFile
<1>6. ASSUME fw' = fw
      PROVE  Had' = Had
  BY <1>6, SameFile DEF Had, ToGo, Later, PadBytes
<1>7. \A i : (Place(i) \in DOMAIN mem)' <=> Place(i) \in DOMAIN mem
  BY SameFile
<1>8. Storing'
  <2> SUFFICES ASSUME fw' \in Loader, c64' = "data"
               PROVE  /\ high' = (load' \div B + (Pages(DataLength)' - x')) % B
                      /\ Written(Had)'
    BY DEF Storing
  <2>1. fw' = fw /\ c64 = "data" /\ Had' = Had
    BY <1>6 DEF Loader
  <2>2. high = (load \div B + (Pages(DataLength) - x)) % B /\ Written(Had)
    BY <1>3, <2>1 DEF Storing
  <2>3. Written(Had)'
    BY <2>1, <2>2, SameFile DEF Written
  <2> QED BY <2>2, <2>3, SameFile
<1>9. AllStored'
  <2> SUFFICES ASSUME c64' \in {"loaded", "left"}
               PROVE  Written(DataLength)'
    BY DEF AllStored
  <2>1. Written(DataLength)
    BY <1>3 DEF AllStored
  <2> QED BY <2>1, SameFile DEF Written
<1> QED BY <1>4, <1>5, <1>8, <1>9

\* Up to the stub only the address and the place in the file matter.
LEMMA WholeBefore ==
  ASSUME fw' \in {"address", "header", "stub"}, c64' \notin {"loaded", "left"},
         Fits(file)' /\ ~lost' => load' = StartOf(file)' /\ filePos' = First(file)'
  PROVE  WholeInv'
BY DEF WholeInv, Phased, AtAddress, InFile, Storing, AllStored, Loader

LEMMA WholeAddress ==
  ASSUME TInv, WholeInv, ReadAddress
  PROVE  WholeInv'
<1>1. PICK r \in (IF file.kind = "koala"
                  THEN {[load |-> KOA_LOAD_ADDR, pos |-> filePos, failed |-> FALSE]}
                  ELSE AddressReads) :
        /\ load' = r.load
        /\ filePos' = IF file.kind = "crt" THEN CRT_DATA ELSE r.pos
        /\ lost' = r.failed
  BY DEF ReadAddress
<1>2. fw = "reset" /\ fw' = "address" /\ UNCHANGED <<file, plugin>> /\ c64' = c64
  BY DEF ReadAddress, c64Vars
<1>3. c64 \in {"boot", "header"}
  BY <1>2 DEF TInv, PhaseInv, ResetInv
<1>4. ASSUME ~lost'
      PROVE  load' = StartOf(file) /\ filePos' = First(file)
  <2>1. CASE file.kind = "koala"
    <3>1. r = [load |-> KOA_LOAD_ADDR, pos |-> filePos, failed |-> FALSE]
      BY <1>1, <2>1
    <3>2. filePos = First(file)
      BY <1>2, <2>1 DEF WholeInv, Phased
    <3> QED BY <1>1, <2>1, <3>1, <3>2 DEF StartOf
  <2>2. CASE file.kind # "koala"
    <3>1. r = [load |-> file.load, pos |-> 2, failed |-> FALSE] \/ r.failed
      BY <1>1, <2>2 DEF AddressReads
    <3>2. r.load = file.load /\ r.pos = 2
      BY <1>1, <1>4, <3>1
    <3> QED BY <1>1, <2>2, <3>2 DEF StartOf, First
  <2> QED BY <2>1, <2>2
<1>5. StartOf(file)' = StartOf(file) /\ First(file)' = First(file)
  BY <1>2, SameFile
<1> QED BY <1>2, <1>3, <1>4, <1>5, WholeBefore

LEMMA WholeHeader ==
  ASSUME TInv, WholeInv,
         PrepareHeader \/ SendHeader \/ (SendFiller /\ fw = "stub") \/ (NextPhase /\ fw = "header")
  PROVE  WholeInv'
<1>1. fw \in {"address", "header", "stub"} /\ fw' \in {"header", "stub"}
      /\ UNCHANGED <<file, plugin, load, filePos, lost>>
  BY DEF PrepareHeader, SendHeader, SendFiller, NextPhase, Following
<1>2. c64' \notin {"loaded", "left"}
  <2>1. c64 \in {"header", "stub", "data"}
    BY <1>1 DEF TInv, PhaseInv, AddressInv, HeaderInv, StubInv
  <2>2. (SendFiller /\ fw = "stub") => c64 = "stub"
    BY DEF SendFiller, TInv, PhaseInv, StubInv
  <2>3. SendHeader => c64 = "header"
    BY DEF SendHeader, TInv, PhaseInv, HeaderInv
  <2>4. \A v : Nmi(v) /\ c64 \in {"header", "stub"} => c64' \in {"header", "stub", "data"}
    BY DEF Nmi, ReceiveHeader, ReceiveStub, ReceiveData, Ignored, Loading
  <2> QED BY <2>1, <2>2, <2>3, <2>4
          DEF PrepareHeader, SendHeader, SendFiller, NextPhase, TransmitByteSlow, TransmitByteFast,
              c64Vars
<1>3. Fits(file) /\ ~lost => load = StartOf(file) /\ filePos = First(file)
  BY <1>1 DEF WholeInv, AtAddress, InFile
<1>4. Fits(file)' /\ ~lost' => load' = StartOf(file)' /\ filePos' = First(file)'
  BY <1>1, <1>3, SameFile
<1> QED BY <1>1, <1>2, <1>4, WholeBefore

\* Where the places of the file and of the displayer are, as numbers.
LEMMA Sizes ==
  ASSUME TInv, Fits(file)
  PROVE  /\ Pages(DataLength) * B = DataLength + PadBytes(DataLength)
         /\ DataLength \in Nat /\ PadBytes(DataLength) \in Nat /\ file.size \in Nat
         /\ CRT_DATA \in Nat /\ KOA_PAYLOAD_SIZE \in Nat \ {0} /\ plugin.size \in Nat
         /\ KOA_PLUGIN_ADDR - KOA_LOAD_ADDR \in Nat
         /\ KOA_PLUGIN_ADDR - KOA_LOAD_ADDR - KOA_PAYLOAD_SIZE \in Nat
         /\ file.kind = "koala" => DataLength = (KOA_PLUGIN_ADDR - KOA_LOAD_ADDR) + (plugin.size - 2)
<1>1. DataLength \in Nat /\ DataLength = TransferLength(file)
  BY Facts DEF DataLength
<1>2. DataLength + PadBytes(DataLength) = B * Pages(DataLength) /\ Pages(DataLength) \in Nat
      /\ PadBytes(DataLength) \in Nat
  BY <1>1, Paging, Constants DEF Bytes
<1>3. \A a, b \in Nat : a * b = b * a
  OBVIOUS
<1>4. Pages(DataLength) * B = DataLength + PadBytes(DataLength)
  BY <1>2, <1>3, Constants
<1>5. KOA_PLUGIN_ADDR \in Nat /\ KOA_LOAD_ADDR \in Nat
  <2>1. KOA_PLUGIN_ADDR \in Addresses /\ KOA_LOAD_ADDR \in Addresses /\ Addresses \subseteq Nat
    BY Constants
  <2> QED BY <2>1
<1>6. KOA_PAYLOAD_SIZE \in Nat \ {0} /\ CRT_DATA \in Nat
      /\ KOA_PLUGIN_ADDR - KOA_LOAD_ADDR - KOA_PAYLOAD_SIZE \in Nat
      /\ KOA_PLUGIN_ADDR - KOA_LOAD_ADDR \in Nat
  BY <1>5, Constants
<1>7. file.kind = "koala" => DataLength = (KOA_PLUGIN_ADDR - KOA_LOAD_ADDR) + (plugin.size - 2)
  <2>1. file.kind = "koala" => DataLength = KOA_PLUGIN_ADDR - KOA_LOAD_ADDR + plugin.size - 2
    BY <1>1 DEF TransferLength
  <2> QED BY <2>1, <1>5, Facts
<1> QED BY <1>1, <1>2, <1>4, <1>6, <1>7, Facts

LEMMA FillerExpected ==
  ASSUME TInv, GoInv, WholeInv, Fits(file), fw \in {"gap", "displayer", "pad"}, left > 0,
         Had < DataLength
  PROVE  Expected(Had) = IF fw = "displayer" THEN OfPlugin ELSE Zero
<1> DEFINE n == DataLength
           pad == PadBytes(DataLength)
           a == KOA_PLUGIN_ADDR - KOA_LOAD_ADDR
           p == KOA_PAYLOAD_SIZE
           s == plugin.size - 2
<1>1. outbox = << >> /\ Len(outbox) = 0 /\ left \in Nat
      /\ (fw \in {"gap", "displayer"} => file.kind = "koala")
  BY Facts, EmptySeq DEF TInv, PhaseInv, LoaderInv, Loader
<1>2. Had = (n + pad) - (0 + left + Later)
  BY <1>1, Sizes DEF Had, ToGo
<1>3. n \in Nat /\ pad \in Nat /\ a \in Nat /\ p \in Nat \ {0} /\ a - p \in Nat /\ s \in Int
      /\ (file.kind = "koala" => n = a + s)
  BY Sizes
<1>4. left <= Amount(fw)
  BY DEF WholeInv, Phased
<1>5. CASE fw = "pad"
  <2>1. Later = 0 /\ Amount(fw) = pad
    BY <1>5 DEF Later, Amount, DataLength
  <2> HIDE DEF n, pad
  <2>2. Had >= n
    BY <1>1, <1>2, <1>3, <1>4, <2>1
  <2> QED BY <1>3, <2>1, <2>2, <1>1, <1>2 DEF n
<1>6. CASE fw = "gap"
  <2>1. Later = s + pad /\ Amount(fw) = a - p /\ file.kind = "koala"
    BY <1>1, <1>6 DEF Later, Amount
  <2> HIDE DEF n, pad, a, s
  <2>2. Had = a - left
    BY <1>1, <1>2, <1>3, <2>1
  <2>3. ~(Had < p) /\ Had < a
    BY <1>1, <1>3, <1>4, <2>1, <2>2
  <2> QED BY <1>6, <2>1, <2>3 DEF Expected, a
<1>7. CASE fw = "displayer"
  <2>1. Later = pad /\ Amount(fw) = s /\ file.kind = "koala"
    BY <1>1, <1>7 DEF Later, Amount
  <2> HIDE DEF n, pad, a, s
  <2>2. Had = a + (s - left)
    BY <1>1, <1>2, <1>3, <2>1
  <2>3. ~(Had < p) /\ ~(Had < a)
    BY <1>1, <1>3, <1>4, <2>1, <2>2
  <2> QED BY <1>7, <2>1, <2>3 DEF Expected, a
<1> QED BY <1>5, <1>6, <1>7

LEMMA FileExpected ==
  ASSUME TInv, GoInv, WholeInv, Fits(file), ~lost, fw = "file", outbox # << >>, Had < DataLength
  PROVE  Head(outbox) = Expected(Had)
<1> DEFINE n == DataLength
           pad == PadBytes(DataLength)
           a == KOA_PLUGIN_ADDR - KOA_LOAD_ADDR
           p == KOA_PAYLOAD_SIZE
           s == plugin.size - 2
           m == Len(outbox)
<1>1. m \in Nat \ {0} /\ Head(outbox) = outbox[1] /\ left \in Nat /\ filePos \in Nat
  <2>1. outbox \in Seq(Datum) /\ filePos \in Nat
    BY DEF TInv, TypeOK
  <2> QED BY <2>1, EmptySeq, Facts
<1>2. Had = (n + pad) - (m + left + Later)
  BY Sizes DEF Had, ToGo
<1>3. n \in Nat /\ pad \in Nat /\ a \in Nat /\ p \in Nat \ {0} /\ a - p \in Nat /\ s \in Int
      /\ file.size \in Nat /\ CRT_DATA \in Nat /\ (file.kind = "koala" => n = a + s)
  BY Sizes
<1>4. filePos + left = file.size /\ outbox[1] = filePos - m + 1 - 1
  <2>1. 1 \in 1 .. m
    BY <1>1
  <2> QED BY <2>1 DEF WholeInv, InFile
<1>5. outbox[1] = (file.size - left) - m
  BY <1>1, <1>3, <1>4
<1>6. CASE file.kind = "koala"
  <2>1. Later = (a - p) + s + pad
    BY <1>6 DEF Later
  <2> HIDE DEF n, pad, a, s, m
  <2>2. Had = (p - m) - left
    BY <1>1, <1>2, <1>3, <1>6, <2>1
  <2>3. Had < p /\ (file.size - p) + Had = (file.size - left) - m
    BY <1>1, <1>3, <2>2
  <2>4. Expected(Had) = file.size - p + Had
    BY <1>6, <2>3 DEF Expected
  <2> QED BY <1>1, <1>3, <1>5, <2>2, <2>3, <2>4
<1>7. CASE file.kind # "koala"
  <2> DEFINE c == IF file.kind = "crt" THEN CRT_DATA ELSE 2
  <2>1. Later = pad
    BY <1>7 DEF Later
  <2>2. Expected(Had) = c + Had
    BY <1>7 DEF Expected
  <2>3. n = file.size - c /\ c \in Nat
    BY <1>3, <1>7, FitLength DEF DataLength
  <2> HIDE DEF n, pad, m, c
  <2>4. Had = n - m - left
    BY <1>1, <1>2, <1>3, <2>1
  <2>5. c + Had = (file.size - left) - m
    <3>1. \A u, v, w, z \in Int : u + (v - u - w - z) = (v - z) - w
      OBVIOUS
    <3>2. c \in Int /\ file.size \in Int /\ m \in Int /\ left \in Int
      BY <1>1, <1>3, <2>3
    <3>3. c + Had = c + (file.size - c - m - left)
      BY <2>3, <2>4
    <3> QED BY <3>1, <3>2, <3>3
  <2> QED BY <1>1, <1>5, <2>2, <2>5
<1> QED BY <1>6, <1>7

\* The last byte of a phase is sent.
LEMMA WholeNextPhase ==
  ASSUME TInv, TInv', GoInv, GoInv', WholeInv, NextPhase, fw # "header"
  PROVE  WholeInv'
<1>1. /\ fw \in {"stub", "file", "gap", "displayer", "pad"}
      /\ left = 0 /\ outbox = << >> /\ outbox' = << >>
      /\ fw' = Following(fw) /\ left' = Amount(fw') /\ fw' \in Loader
      /\ UNCHANGED <<file, plugin, load, filePos, lost>> /\ UNCHANGED c64Vars
  BY DEF NextPhase, Following, Loader
<1>2. Phased'
  <2>1. left' \in Nat /\ fw' \notin {"reset", "stub", "header"}
    BY <1>1, Facts DEF TInv, TypeOK, Loader
  <2>2. ASSUME NEW p, fw' = p
        PROVE  left' = Amount(p)'
    BY <1>1, <2>2, SameFile
  <2>3. left' = Amount(fw)'
    <3>1. PICK p : p = fw'
      OBVIOUS
    <3> QED BY <2>2, <3>1
  <2> QED BY <2>1, <2>3 DEF Phased
<1>3. Fits(file)' <=> Fits(file)
  BY <1>1, SameFile
<1> SUFFICES ASSUME Fits(file), ~lost
             PROVE  AtAddress' /\ InFile' /\ Storing' /\ AllStored'
  BY <1>1, <1>2, <1>3 DEF WholeInv
<1>4. AtAddress /\ InFile /\ Storing /\ AllStored
  BY DEF WholeInv
<1>5. AtAddress'
  BY <1>1, <1>4, SameFile DEF AtAddress
<1>6. InFile'
  <2>1. CASE fw = "stub"
    <3>1. fw' = "file" /\ Len(outbox') = 0
      BY <1>1, <2>1, EmptySeq DEF Following
    <3>2. filePos = First(file) /\ left' = Amount("file")
      BY <1>1, <1>4, <2>1, <3>1 DEF InFile
    <3>3. First(file) + Amount("file") = file.size
      <4>1. CASE file.kind = "koala"
        <5>1. First(file) = file.size - KOA_PAYLOAD_SIZE /\ Amount("file") = KOA_PAYLOAD_SIZE
          BY <4>1 DEF First, Amount
        <5> QED BY <5>1, Sizes
      <4>2. CASE file.kind = "crt"
        <5>1. First(file) = CRT_DATA /\ Amount("file") = file.size - CRT_DATA
          BY <4>2, FitLength DEF First, Amount
        <5> QED BY <5>1, Sizes
      <4>3. CASE file.kind \notin {"koala", "crt"}
        <5>1. First(file) = 2 /\ Amount("file") = file.size - 2
          BY <4>3, FitLength DEF First, Amount
        <5> QED BY <5>1, Sizes
      <4> QED BY <4>1, <4>2, <4>3
    <3> QED BY <1>1, <3>1, <3>2, <3>3 DEF InFile
  <2>2. CASE fw # "stub"
    BY <1>1, <2>2 DEF InFile, Following
  <2> QED BY <2>1, <2>2
<1>7. c64' = c64 /\ x' = x /\ y' = y /\ high' = high /\ mem' = mem /\ header' = header
  BY <1>1 DEF c64Vars
<1>8. Storing'
  <2> SUFFICES ASSUME c64 = "data"
               PROVE  /\ high = (load \div B + (Pages(DataLength) - x)) % B
                      /\ Written(Had)'
    BY <1>1, <1>7, SameFile DEF Storing
  <2>1. x \in 1 .. B - 1 /\ ToGo' = x * B - y /\ Pages(DataLength) \in 1 .. B - 1
    <3>1. Pages(DataLength) \in 1 .. B - 1
      BY FitPages DEF DataLength
    <3> QED BY <1>1, <1>3, <1>7, <3>1 DEF GoInv
  <2>2. CASE fw = "stub"
    <3>1. y = 0 /\ x = header[3] /\ high = header[5] /\ header \in Headers(file)
      BY <2>2 DEF TInv, PhaseInv, StubInv
    <3>2. x = Pages(DataLength) /\ high = load \div B
      <4>1. x = TransferPages(TransferLength(file)) /\ high = load \div B
        BY <3>1, Facts, HeaderFacts DEF TInv
      <4> QED BY <2>1, <4>1, ModSmall, Constants DEF TransferPages, DataLength
    <3>3. load \div B \in 0 .. B - 1
      BY Facts, BytesOf DEF KindsOK, Bytes
    <3>4. load \div B + (Pages(DataLength) - x) = load \div B
      BY <2>1, <3>2, <3>3, Constants
    <3>5. high = (load \div B + (Pages(DataLength) - x)) % B
      BY <3>2, <3>3, <3>4, ModSmall, Constants
    <3>6. Had' = 0
      <4>1. Had' = Pages(DataLength) * B - ToGo'
        BY <1>1, SameFile DEF Had
      <4>2. Pages(DataLength) * B \in Int
        BY <2>1, Constants
      <4> QED BY <2>1, <3>1, <3>2, <4>1, <4>2
    <3> QED BY <3>5, <3>6 DEF Written
  <2>3. CASE fw # "stub"
    <3>1. fw \in Loader
      BY <1>1, <2>3 DEF Loader
    <3>2. ToGo' = ToGo
      BY <2>1, <3>1 DEF GoInv
    <3>3. Had' = Had
      BY <1>1, <3>2, SameFile DEF Had
    <3>4. high = (load \div B + (Pages(DataLength) - x)) % B /\ Written(Had)
      BY <1>4, <3>1 DEF Storing
    <3> QED BY <1>1, <1>7, <3>3, <3>4, SameFile DEF Written
  <2> QED BY <2>2, <2>3
<1>9. AllStored'
  BY <1>1, <1>4, <1>7, SameFile DEF AllStored, Written
<1> QED BY <1>5, <1>6, <1>8, <1>9

LEMMA WholeRead ==
  ASSUME TInv, TInv', GoInv, WholeInv, ReadFile
  PROVE  WholeInv'
<1>1. /\ fw = "file" /\ left > 0 /\ outbox = << >> /\ fw' = fw
      /\ Wanted \in 1 .. left /\ Got \in 0 .. Wanted /\ left' = left - Wanted
      /\ UNCHANGED <<file, plugin, load>> /\ UNCHANGED c64Vars
      /\ (lost => lost') /\ ToGo' = ToGo
      /\ ~lost' => /\ filePos' = filePos + Got
                   /\ outbox' = [i \in 1 .. Wanted |-> IF i <= Got THEN filePos + i - 1 ELSE Zero]
  BY ReadFacts, GoRead
<1>2. Phased'
  BY <1>1 DEF Phased
<1>3. Fits(file)' <=> Fits(file)
  BY <1>1, SameFile
<1> SUFFICES ASSUME Fits(file), ~lost'
             PROVE  AtAddress' /\ InFile' /\ Storing' /\ AllStored'
  BY <1>2, <1>3 DEF WholeInv
<1>4. AtAddress /\ InFile /\ Storing /\ AllStored
  BY <1>1 DEF WholeInv
<1>5. c64' = c64 /\ x' = x /\ high' = high /\ mem' = mem
  BY <1>1 DEF c64Vars
<1>6. AtAddress'
  BY <1>1, <1>4, <1>5, SameFile DEF AtAddress
<1>7. InFile'
  <2>1. filePos + left = file.size /\ filePos \in Nat /\ left \in Nat /\ file.size \in Nat
    BY <1>1, <1>4, Facts DEF InFile, TInv, TypeOK
  <2>2. Got = Wanted /\ Wanted \in Nat
    BY <1>1, <2>1 DEF Got, There
  <2>3. filePos' = filePos + Wanted
        /\ outbox' = [i \in 1 .. Wanted |-> IF i <= Wanted THEN filePos + i - 1 ELSE Zero]
    BY <1>1, <2>2
  <2>4. Len(outbox') = Wanted /\ \A i \in 1 .. Wanted : outbox'[i] = filePos + i - 1
    BY <2>2, <2>3
  <2>5. filePos' + left' = file.size
    BY <1>1, <2>1, <2>2, <2>3
  <2>6. \A i \in 1 .. Wanted : filePos + i - 1 = filePos' - Wanted + i - 1
    BY <2>1, <2>2, <2>3
  <2> QED BY <1>1, <2>4, <2>5, <2>6 DEF InFile
<1>8. Had' = Had
  BY <1>1, SameFile DEF Had
<1>9. Storing'
  BY <1>1, <1>4, <1>5, <1>8, SameFile DEF Storing, Written
<1>10. AllStored'
  BY <1>1, <1>4, <1>5, SameFile DEF AllStored, Written
<1> QED BY <1>6, <1>7, <1>9, <1>10

\* A byte of the file, of the displayer, or of the padding.
LEMMA WholeSend ==
  ASSUME TInv, GoInv, WholeInv, NEW v \in Datum, TransmitByteFast(v), fw \in Loader,
         UNCHANGED <<file, plugin, fw, load, filePos, lost>>,
         ToGo' = ToGo - 1, ToGo > 0, Phased', fw = "file" => InFile',
         Fits(file) /\ ~lost /\ Had < DataLength => v = Expected(Had)
  PROVE  WholeInv'
<1>1. Fits(file)' <=> Fits(file)
  BY SameFile
<1> SUFFICES ASSUME Fits(file), ~lost
             PROVE  AtAddress' /\ InFile' /\ Storing' /\ AllStored'
  BY <1>1 DEF WholeInv
<1>2. AtAddress
  BY DEF WholeInv
<1>3. Nmi(v) /\ c64 \notin {"header", "stub", "loaded", "left"}
  BY DEF TransmitByteFast, TInv, PhaseInv, LoaderInv, GoInv
<1>4. AtAddress'
  <2>1. load = StartOf(file)
    BY <1>2 DEF AtAddress, Loader
  <2> QED BY <2>1, SameFile DEF AtAddress
<1>5. InFile'
  BY DEF InFile, Loader
<1>6. CASE c64 = "data"
  <2>1. ReceivesData(v)
    BY <1>3, <1>6, DataNmi
  <2> QED BY <1>4, <1>5, <1>6, <2>1, StoresNext
<1>7. CASE c64 # "data"
  <2>1. UNCHANGED c64Vars
    BY <1>3, <1>7, DataNmi
  <2>2. c64' = c64
    BY <2>1 DEF c64Vars
  <2> QED BY <1>3, <1>4, <1>5, <1>7, <2>2 DEF Storing, AllStored
<1> QED BY <1>6, <1>7

LEMMA WholeFiller ==
  ASSUME TInv, GoInv, WholeInv, SendFiller, fw # "stub"
  PROVE  WholeInv'
<1>1. /\ fw \in {"gap", "displayer", "pad"} /\ left > 0 /\ left' = left - 1 /\ fw \in Loader
      /\ UNCHANGED <<file, plugin, fw, load, filePos, lost>>
      /\ TransmitByteFast(IF fw = "displayer" THEN OfPlugin ELSE Zero)
  BY DEF SendFiller, Loader
<1>2. PICK v : v = (IF fw = "displayer" THEN OfPlugin ELSE Zero) /\ TransmitByteFast(v)
  BY <1>1
<1>3. v \in Datum
  BY <1>2 DEF Datum, OfPlugin, Zero
<1>4. Phased'
  <2>1. left <= Amount(fw) /\ Amount(fw)' = Amount(fw) /\ Amount(fw) \in Int
    <3>1. left <= Amount(fw)
      BY <1>1 DEF WholeInv, Phased
    <3>2. Amount(fw)' = Amount(fw)
      BY <1>1, SameFile DEF Amount
    <3>3. Amount(fw) \in Int
      <4>1. fw \in {"gap", "displayer"} => file.kind = "koala"
        BY DEF TInv, PhaseInv, LoaderInv, Loader
      <4> QED BY <1>1, <4>1, Amounts DEF Amount
    <3> QED BY <3>1, <3>2, <3>3
  <2>2. left - 1 <= Amount(fw)'
    BY <2>1, Facts
  <2> QED BY <1>1, <2>2 DEF Phased
<1>5. Fits(file) /\ ~lost /\ Had < DataLength => v = Expected(Had)
  BY <1>1, <1>2, FillerExpected
<1>6. ToGo' = ToGo - 1 /\ ToGo > 0
  BY GoFiller
<1> QED BY <1>1, <1>2, <1>3, <1>4, <1>5, <1>6, WholeSend

LEMMA WholeFile ==
  ASSUME TInv, GoInv, WholeInv, SendFile
  PROVE  WholeInv'
<1>1. /\ fw = "file" /\ outbox # << >> /\ TransmitByteFast(Head(outbox)) /\ outbox' = Tail(outbox)
      /\ UNCHANGED <<file, plugin, fw, load, filePos, lost>> /\ left' = left /\ fw \in Loader
  BY DEF SendFile, Loader
<1>2. /\ outbox \in Seq(Datum) /\ filePos \in Nat
      /\ Head(outbox) \in Datum /\ Len(outbox') = Len(outbox) - 1 /\ Len(outbox) \in Nat \ {0}
      /\ \A i \in 1 .. Len(outbox) - 1 : outbox'[i] = outbox[i + 1]
  <2>1. outbox \in Seq(Datum) /\ filePos \in Nat
    BY DEF TInv, TypeOK
  <2> QED BY <1>1, <2>1, HeadTailProperties, EmptySeq
<1>3. Phased'
  BY <1>1 DEF Phased
<1>4. Fits(file) /\ ~lost => InFile'
  <2> SUFFICES ASSUME Fits(file), ~lost
               PROVE  InFile'
    OBVIOUS
  <2>1. filePos + left = file.size
        /\ \A i \in 1 .. Len(outbox) : outbox[i] = filePos - Len(outbox) + i - 1
    BY <1>1 DEF WholeInv, InFile
  <2>2. \A i \in 1 .. Len(outbox') : outbox'[i] = filePos - Len(outbox') + i - 1
    <3> SUFFICES ASSUME NEW i \in 1 .. Len(outbox')
                 PROVE  outbox'[i] = filePos - Len(outbox') + i - 1
      OBVIOUS
    <3>1. i \in 1 .. Len(outbox) - 1 /\ i + 1 \in 1 .. Len(outbox)
      BY <1>2
    <3>2. outbox'[i] = filePos - Len(outbox) + (i + 1) - 1
      BY <1>2, <2>1, <3>1
    <3> QED BY <1>2, <3>1, <3>2
  <2> QED BY <1>1, <2>1, <2>2 DEF InFile
<1>5. Fits(file) /\ ~lost /\ Had < DataLength => Head(outbox) = Expected(Had)
  BY <1>1, FileExpected
<1>6. ToGo' = ToGo - 1 /\ ToGo > 0
  BY GoFile
<1>7. CASE Fits(file) /\ ~lost
  BY <1>1, <1>2, <1>3, <1>4, <1>5, <1>6, <1>7, WholeSend
<1>8. CASE ~(Fits(file) /\ ~lost)
  BY <1>1, <1>3, <1>8, SameFile DEF WholeInv
<1> QED BY <1>7, <1>8

LEMMA WholeStep ==
  ASSUME TInv, TInv', GoInv, GoInv', WholeInv, [Next]_vars
  PROVE  WholeInv'
<1>1. CASE TransferMenu \/ \E f \in Files : LaunchProgram(f) \/ LaunchPicture(f)
  <2>1. fw' = "reset" /\ c64' = "boot"
    BY <1>1 DEF TransferMenu, LaunchProgram, LaunchPicture, ResetC64
  <2>2. file'.kind = "koala" => filePos' = First(file)'
    BY <1>1, Constants DEF TransferMenu, LaunchProgram, LaunchPicture, ResetC64, First
  <2> QED BY <2>1, <2>2 DEF WholeInv, Phased, AtAddress, InFile, Storing, AllStored, Loader
<1>2. CASE \E f \in Files : LaunchFails(f) \/ DisplayerUnread(f) \/ RefusePicture(f)
  <2>1. /\ UNCHANGED <<file, plugin, load, filePos, lost>> /\ UNCHANGED <<left, outbox, x, high, mem>>
        /\ fw' = fw /\ c64 = "menu" /\ c64' \in {"menu", "stuck"}
    BY <1>2 DEF LaunchFails, DisplayerUnread, RefusePicture, Serving, fwVars, c64Vars
  <2> QED BY <2>1, WholeFrame
<1>3. CASE ReadPage \/ Boot \/ LeaveRom \/ RunStub
  <2>1. /\ UNCHANGED <<file, plugin, load, filePos, lost>> /\ UNCHANGED <<left, outbox, x, high, mem>>
        /\ fw' = fw /\ c64' \notin {"stub", "data", "loaded"} /\ (c64' = "left" => c64 = "loaded")
    BY <1>3 DEF ReadPage, Boot, LeaveRom, RunStub, StartedBy, fwVars
  <2> QED BY <2>1, WholeFrame
<1>4. CASE SendFiller
  BY <1>4, WholeHeader, WholeFiller
<1>5. CASE NextPhase
  BY <1>5, WholeHeader, WholeNextPhase
<1>6. CASE DisableCartridge
  <2>1. /\ UNCHANGED <<file, plugin, load, filePos, lost>> /\ UNCHANGED <<left, outbox, x, high, mem>>
        /\ fw' = "idle" /\ c64' \in {c64, "wrecked"}
    BY <1>6 DEF DisableCartridge
  <2> QED BY <2>1, WholeFrame
<1>7. CASE UNCHANGED vars
  <2>1. /\ UNCHANGED <<file, plugin, load, filePos, lost>> /\ UNCHANGED <<left, outbox, x, high, mem>>
        /\ fw' = fw /\ c64' = c64
    BY <1>7 DEF vars, fwVars, c64Vars
  <2> QED BY <2>1, WholeFrame
<1> QED BY <1>1, <1>2, <1>3, <1>4, <1>5, <1>6, <1>7, WholeAddress, WholeHeader, WholeRead, WholeFile
        DEF Next, User, Firmware, C64

\* The two bytes of the end address give the address back.
LEMMA EndOf ==
  ASSUME NEW e \in Nat
  PROVE  HighOf(e) * B + (e % B) = e % (B * B)
<1>1. PICK q \in Int, r \in 0 .. B - 1 : e = B * q + r /\ e % B = r /\ e \div B = q
  BY DivMod, Constants
<1>2. PICK u \in Int, w \in 0 .. B - 1 : q = B * u + w /\ q % B = w
  BY <1>1, DivMod, Constants
<1>3. HighOf(e) = w
  BY <1>1, <1>2 DEF HighOf
<1>4. e = (B * B) * u + (w * B + r)
  BY <1>1, <1>2, Constants
<1>5. w * B + r \in 0 .. B * B - 1
  BY <1>1, <1>2, WordOf DEF Bytes, Addresses
<1>6. e % (B * B) = w * B + r
  <2>1. ASSUME NEW m \in Nat \ {0}, NEW t \in 0 .. m - 1, e = m * u + t
        PROVE  e % m = t
    BY <1>2, <2>1, ModUnique
  <2> QED BY <1>4, <1>5, <2>1, Constants
<1> QED BY <1>1, <1>3, <1>6

\* Whatever the file, the loader leaves the ROM with every byte of the program
\* at its address, and with the address after its last byte in $AE/$AF.
THEOREM LoadedWholeHolds == MenuIsThere /\ Spec => []LoadedWhole
<1>1. Init => GoInv /\ WholeInv
  BY DEF Init, GoInv, Loader, Started, WholeInv, Phased, AtAddress, InFile, Storing, AllStored
<1>2. TInv /\ GoInv /\ WholeInv /\ [Next]_vars => TInv' /\ GoInv' /\ WholeInv'
  BY TypeStep, GoStep, WholeStep
<1>3. TInv /\ WholeInv => LoadedWhole
  <2> SUFFICES ASSUME TInv, WholeInv, c64 = "left", Fits(file), ~lost
               PROVE  /\ \A i \in 0 .. DataLength - 1 :
                           LET a == (StartOf(file) + i) % (B * B)
                           IN a \in DOMAIN mem /\ mem[a] = Expected(i)
                      /\ 2 * load < B * B /\ file.kind # "koala" =>
                           EndWord = (load + DataLength) % (B * B)
    BY DEF LoadedWhole
  <2>1. Written(DataLength)
    BY DEF WholeInv, AllStored
  <2>2. \A i \in 0 .. DataLength - 1 : i < DataLength
    BY Sizes
  <2>3. ASSUME 2 * load < B * B, file.kind # "koala"
        PROVE  EndWord = (load + DataLength) % (B * B)
    <3>1. <<header[6], header[7]>> \in Ends(file)
      BY Facts, HeaderFacts DEF TInv, PhaseInv, HeaderHeld
    <3>2. load \in Nat /\ DataLength \in Nat
      BY Facts, Sizes, Constants DEF KindsOK
    <3>3. Sums = {load}
      BY <2>3, <3>2, Constants DEF Sums
    <3>4. <<header[6], header[7]>> = <<(load + DataLength) % B, HighOf(load + DataLength)>>
      BY <2>3, <3>1, <3>3 DEF Ends, DataLength
    <3>5. header[6] = (load + DataLength) % B /\ header[7] = HighOf(load + DataLength)
      BY <3>4
    <3>6. load + DataLength \in Nat
      BY <3>2
    <3> QED BY <3>5, <3>6, EndOf DEF EndWord
  <2> QED BY <2>1, <2>2, <2>3 DEF Written, Place
<1> QED BY TypeInit, <1>1, <1>2, <1>3, PTL DEF Spec
===============================================================================
