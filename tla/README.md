# EasySD: a TLA+ model

EasySD is a Commodore 64 cartridge: an AVR reads an SD card and hands files to
the C64. This directory holds TLA+ specifications of the firmware
(`Arduino/EasySD`) together with the C64 code it talks to (`EasySD/Loader`,
`EasySD/Menu`, `EasySD/Plugins`), TLC configurations that check them on small
instances, and TLAPS proofs. Paths below are relative to `src/`; CA is
`Arduino/EasySD/CartApi.cpp`, KB is `EasySD/Loader/Bridges/KernalBridge/KernalBridge.s`.

## The system

| Part | State it keeps | Operations | Correct when |
|---|---|---|---|
| Receive queue (`ByteQueue`) | ring, head, tail | enqueue (interrupt and main loop), read, reset | it is a FIFO under every interleaving and never mixes sessions |
| Bit receiver (`CartInterface`, `PROT_Send`) | bit state, mask, current byte, `receiveState`, EXROM | edge interrupt, handshake, timeouts | bytes arrive as sent, sessions open only by a handshake and always close |
| Command protocol (`CartApi::HandleApi`, `CartLibHi.s`) | arguments, page latch, session | call, collect arguments, answer | both sides agree on the bytes, every call is answered by its own status |
| Directory listing (`HandleReadDirectory`, `DirSort.h`) | three watermarks, row cache | read a page; launch or enter a row | each page is the page of the sorted directory, and a row is what it shows (with the exceptions below) |
| Current directory (`DirFunction`) | SdFat cwd, `currentPath`, directory handle | enter, leave, walk to a path and back | path, volume and handle agree; failures leave the place the screen shows |
| Launch (`LoadAndLaunchOpenedFile`, Koala, `TransferMenu`) | open file, lengths, NMI handler, page count | reset, send header, stub, bytes; store; start | every byte arrives once at its address, the C64 stops counting with the last byte, the stub starts it |
| Streaming (`HandleStream`, `HandleNonInterruptedStream`, the players) | buffers, position, timeouts | fill, latch, count down, end | bytes are heard in order, both sides end with the same block, the firmware comes back |
| SEL button and start-up (`EasySD.ino`) | press time, guard time, stable level, `runtimeReady` | sample, press, act, start the card | one action per press, none while guarded, the wrap of the clock harmless |
| KernalBridge | file position, page buffer, session | load a program in one or two phases; OPEN, CHRIN, CLOSE | a program runs only whole, reads its files in order, no call leaves a session open |
| Menu (`EasySDMenu.s`) | page, rows, cursor | keys | what a row shows is what it starts |
| Plugins, log, build tools, SdFat | - | - | not modelled, see below |

The C64 sends bytes as gaps between accesses to $DE00-$DFFF (`/IO2`); the AVR
decodes them in an interrupt, its main loop collects a command, and it answers
by selecting the EPROM page whose bytes the C64 sees (`SetPage`, read at
$80FF) or by pulses on NMI. What makes this hard: an interrupt handler and a
main loop share variables without locks; the sender has no acknowledgement, so
either side may be gone at any moment and only timeouts tell; statuses are
visible for an instant; lengths, pages and times are kept in 8, 16 and 32 bits;
and the menu remembers what the firmware also remembers.

`PROJECT.json` lists the hazards with their lines and the properties that cover
them.

## Modules

| Module | Models |
|---|---|
| `BoundedFifo` | the abstract promise of the receive queue |
| `ByteQueue` | `ByteQueue.cpp` and its three users, one step per access to `head` or `tail`, interrupted anywhere |
| `Receiver` | `ReceiveInterrupt`, `ReceiveHandler`, the session part of `HandleApi`, and the C64 sending, dying and making noise |
| `Session` | library calls and handlers within a session: arguments, statuses, timeouts |
| `DirListing` | sorted paging with watermarks, the row cache, CHANGE_DIR_INDEX |
| `Browse` | the current directory under card failures, with the menu that enters, leaves and starts |
| `Launch` | a launch from the row to the started program: the firmware's phases, the NMI handlers of the ROM, the stub |
| `Stream` | songs streamed by an interrupt and videos streamed by the main loop, with their players and their timeouts |
| `Button` | `EasySD.ino`: debouncing over a wrapping clock, presses, guards, the lazy start of the card |
| `KernalBridge` | the bridge's two ways of loading and the KERNAL calls it serves |
| `...Proofs`, `NatFacts` | the proofs, and the facts about `%`, `\div` and induction they rest on |
| `MC...` | the instances TLC checks |

They meet as follows. `Receiver` takes the queue as a sequence with a capacity,
which is what `ByteQueue` is proved to implement. `Session` takes an open
session as given, which `Receiver` provides (`StartTalking` is one step there).
`Browse` takes a listing as the rows of a directory, which `DirListing` shows
page by page, and a row as launching its entry, which `DirListing` shows for the first
18 of a page. It takes a command as answered, which `Session` shows. `Launch` begins
where a row of `Browse` is invoked and the file is open. `Stream`, `KernalBridge`
and `Button` begin where a command has been collected, or none is running.

### ByteQueue

`mainLoop` is the main loop's place in `Read` (available / fetched), in the handshake
(storing / stored) or in a reset (resetting / headReset). The interrupt handler
is one step because an AVR handler is not interrupted. `attached` follows
`attachInterrupt`. Indices keep the `% QUEUE_MAX_SIZE` of the code. The reset
counts as done when its first store has happened: from there on nothing of the
old contents can be read. `overrun` is a history variable.

### Receiver

A byte is the set of its one-bits; `Bits` is its width. A gap is one of the five
classes the four thresholds of `CartInterface.cpp` separate. Two accesses make a
bit, and the pause between two bits is long. Timeouts (2 ms, 200 ms, 120 ms) are
enabled by `quiet`, no access for longer than any of them; a program makes such a
pause only where the code does: after a session, before END_TALKING, and before its
first command. There the session does not yet exist, and the 2 ms wait for an edge
(`EdgeTimeout`) drops the handshake; the history variable `paused` marks such sessions. `MainLoopKeepsUp` states the
timing the protocol relies on: within a handshake the main loop has looked at a
bit before the next access, except that `LogEdges` accesses can pass while the
line "HS OK" is written. In a session there is no such assumption: `bitMask`
and `currentByte` are written by both contexts.

### Session

Each call of `CartLibHi.s` is the list of bytes it sends before it polls
(`ArgumentsSent`), each handler the number of arguments it collects
(`StaticArguments`, `Dynamic`). `Lasting` says which statuses stay for a
millisecond; the others are cleared by `Finish` whether or not the program
polled. Bytes are tagged with what they were sent as, which only the property
`Framed` looks at. `Seen` is what a program reads at the latch's address: the latch, or
its own RAM (`ram`, any value) once the session is closed, which the firmware does after
an argument timeout without clearing the latch (`Finish`). A program can then take a
status before its command has been read (`TooEarly`); what it does with it is not
followed (`astray`). `answeredBy` is history, the command that set a status since the
call. `Programs` gives the commands each program uses: one whose
statuses all last, one whose arguments all fit, one that uses everything.

### DirListing

Names are numbers; `KeyGroup` names share a sort key, as names do that agree in
their first 15 characters. `Scan` is one pass over the directory with the slots
of `DirSort.h`, a function of the entries seen; `WatermarkSetup` has the five branches
of the code and `Rebuild` its loop, a function of the pages passed (`Advance`), with
its `break`. What a page should be is said by ranks: `Rank` counts the smaller entries,
`EntriesBefore` those of the pages before. When an entry cannot be read back (`SdFails`), the key is sent and
becomes the watermark. Only rows are kept of what is sent.
The row cache shares its buffer with the slots, and `CachedIndices` copies it as the code
does, row by row, each `dirIdx` read as it lies in the buffer by then (`SlotIdx`):
`SlotBytes`, `CacheRows` and `BufferBytes` give the layout (19, 21 and 400 in the code),
and `Untouched` the slots before the cache. `trail` is a history of the requests: whether
the page was reached afresh, by one step back or reload, or by more (`Trail`).

### Browse

`nav` holds the volume's cwd, `currentPath` and the directory handle. The
operators named after `DirFunction`'s methods give the outcome and the new
`nav`; a walk fails at any segment when the card is not reliable. The menu keeps
its screen when a command fails, as the code does, and stops in `JMP *` where the
code does. `launched` remembers what was chosen on the screen and what was
started. The two steps of a plugin launch (see whether it is there, then invoke
it) are two actions, between which SEL may be pressed.

### Launch

The widths are parameters: a byte has `B` values, lengths and addresses wrap at
`B * B`, the page count of the header at `B`. `fw` goes through the phases of
`LoadAndLaunchOpenedFile`: reset the C64, read the load address, header, stub,
the file (for a picture also the gap and the displayer), padding to a page,
settle. A pulse on NMI and the handler it runs are one step (`TransmitByteSlow`
and `TransmitByteFast` wait for the handler), and the C64's `Boot`, `LeaveRom` and
`RunStub` interleave with the firmware as far as its delays allow; where a delay
is what keeps the order, the guard names it. `mem` is what was stored, by
address. A picture that is refused after its displayer was read returns to the
menu with a buffer that may have lost the row cache. `Sums` gives both values
the 16-bit signed arithmetic of the end address can produce.

### Stream

A byte of the file is its offset. For a .WAV the interrupt
(`DoubleBufferedStreaming`) interleaves with every step of the main loop: the spin
on `usedBuffer == turn`, the call of `millis()` and its comparison, the read of the
card, and each byte stored. `MaxLag` bounds the samples played during a refill.
For a .CVD the firmware polls, so an access it does not wait for is lost, and a
history variable records it (`late`). Both sides measure time in ticks: `Tick` says
what each does before the next one, with the durations the code relies on
(`SETUP`, `CARD`, one frame between blocks). Reads of the card may fail
(`MaxFailures`), the C64 may be reset at any point (`Die`).

### Button

`millis()` wraps at `Wrap`; differences are unsigned, and one cast to a signed
long is kept (`Negative`). The contact bounces for `Bounce` ticks after each
change; the loop samples it at least once a tick unless it is busy with a command,
a transfer or the card. `owed`, `length` and `watched` are history: how many
presses may still act, how long the last was, and whether the loop saw all of it.
The contact is assumed to bounce for less than `SEL_STABLE_MS` and for a tick at
least: a change is seen only at the next sample, so that without any bounce the
measured length is still a tick off.

### KernalBridge

The C64 waits for every command, so that a call with its handlers is one step;
`inSession` is the firmware's `receiveState`; a handshake always
opens a session, as it does in a release build, where no frames are waited after it. `Phase1Pages`, `Phase2Pages` and
`PagesBySize` keep the 16-bit words and 8-bit page counts of the code. `Needed`
marks the addresses whose overwriting stops the machine (stack and vectors, the
second phase's own code), `Tables` those of the launcher's tables. Reads may fail
part of the way (`Goods`). `channel` is the file the program reads; `count` and
`lostAt` are history.

## Runs

| Run | Shows | Bounds |
|---|---|---|
| `byte_queue` | type, stable reader slot, first byte is a command, refinement of `BoundedFifo` | 4 slots, 2 values: the ring wraps, fills and overruns |
| `receiver_release` | sessions arrive in order and whole after any noise and any abandoned session, the ROM is hidden outside sessions, recovery | 2 bits, all 4 byte values used, queue of 3, 6 spurious edges (a byte and a half of bits) |
| `session` | framing, own status, answers, reopening | all 14 commands, blocks of 2 bytes |
| `listing` | pages right in both directions and after jumps, but after two steps back or with shared keys; their rows enter what they show; rows before the cache launch what they show | 6 directories of up to 13 names in mixed orders, two with shared keys; 3 rows a page, 5 pages; slots of 5 bytes in a buffer of 16, so that the cache overlays the third; at most two entries lost per reading |
| `browse` | path, volume and handle agree on any card; on a readable card with a plugin folder a row starts what it shows; on a complete card listings are whole and launches succeed | 7 cards, two levels, one more directory than fits the path |
| `launch` | programs, images and pictures get into memory whole, no NMI comes after the start, the longer pauses fall on the ends of pages, rows start what they show, a program that fits starts | 64 addresses in pages of 8, 17 files: BASIC, hybrid, page multiples and one more, up to the last address, around it, empty, 64 K; 5 displayers; one failed read |
| `stream` | bytes heard in order, both sides end with the same block, the firmware comes back to listening | files of 0, one block, one and a third, two; buffers of 2, so that 5 refills occur and one buffer is played during a refill; one failed read |
| `button` | every action has a press of its own, does what its length says, and no watched press is lost | clock of 24 values, times in their order; 3.2 million states |
| `bridge` | reads in order, every call ends its session, a program runs only whole | 77 programs under, at and over the bridge, pages of 4 in 32 addresses, files up to 64 K's like and empty; any read may fail |

In `listing` five pages are enough for every kind of way: two steps back that end
before page 0, a step forward after them, a jump over pages. The code that rebuilds
watermarks is only reached by jumps: the menu never makes one. The numbers of the layout
are scaled so that, as in the code, the cache of a full page takes the end of the buffer
and begins inside a slot.

Three runs find a violation, each of what a comment says and the code does not do:

| Run | Shows |
|---|---|
| `stream_timeout` | a song is cut off while samples are being asked for: `millis() - lastStreamRequestTime` reads the clock first, and an interrupt between the two makes the difference wrap. The comment of STREAM_TIMEOUT_MS promises 100 ms of silence |
| `listing_overlay` | with the code's layout and one full page of 21 entries, the row cache at 358..399 is written over `dirIdx` of the 19th to 21st slot before these are copied into it (CA:754-761): row 18 gets row 0's index, rows 19 and 20 a mixture. `CartApi.h:49` says of INVOKE_WITH_INDEX: launch by current page + row index |
| `bridge_phases` | a program loaded in two phases from an address that does not start a page is shifted from $C000 on: the first phase reads whole pages of the file, the second goes on from there |

## Observations

These disagreements between the code and its comments or documents were met while
modelling; the passing properties state them as conditions, and only the row cache has a run of its
own.

- The second of two steps back shows a wrong page, unless it is page 0: a step back
  leaves the boundary before the page just left in `s_wm_pp_name` (CA:610), which CA:586
  calls the end of page -2 and the next step back takes for it. After pages 0, 1, 2, 3, 2,
  the request for page 1 shows page 3. A reload followed by a step back does the same
  (CA:602). `PageShown` says so with `trail`: a page is right until the second such step,
  and again from page 0 or a jump on.
- The row cache overlays the last slots (run `listing_overlay`): on a full page the rows
  18 to 20 (19 and 20 on page 0 of a subdirectory) launch another entry or none. In
  `RowOpensShown` `Untouched` names the rows for which the code keeps its promise.
- With one entry a page, a jump in a subdirectory reads a wrong page: page 0 has only
  `..`, and `if (stP == 0) break` (CA:637) ends the rebuilding there. The menu asks for
  21 (`PageSize >= 2` in the theorems).
- Names sharing 15 characters at a page boundary hide an entry (B1 in
  `docs/NEXT_STEPS.md`); CHANGE_DIR_INDEX may then enter another directory than
  shown (`OwnKeys` in `PageShown` and `RowEntersShown`; the run has such directories).
- Logging the handshake in a debug build perturbs the decoder: with `LogEdges = 2`
  `InOrder` fails.
- A pause between the handshake and the first command loses the handshake: the firmware
  waits 2 ms for an edge and goes back to IDLE (`CartInterface.cpp:198`), because the
  session opens only with the first command byte. `CvdPlayer.s:109` copies a path and
  clears its graphics memory there, `WavPlayer.s:44` copies a path and switches the
  display off (`APIMacros.s:268` recommends that place), and KB:774, 851 and 904 wait two
  frames in a build with DEBUG=1 (`Tools/build.py:824` has DEBUG=0). `Delivered` and `InOrder` are about sessions without one (`~paused`);
  without that condition `Delivered` fails.
- After an argument timeout HandleApi returns (CA:1702) before it clears the latch
  (CA:1704). DELETE_FILE, DELETE_DIR and a refused WRITE_FILE always end that way: the
  library sends them fewer bytes than the handler collects. The session is then closed
  without the program's knowing: its next call is not received, and it takes for a status
  whatever its RAM holds under the latch. If a session is opened again, the old status is
  in the latch until HandleApi has read the first command (CA:1645), and a program whose
  call has no arguments may look before that, while "HS OK" is logged. `CartLibHi.s:16`
  says that the location "will always reflect the value of #$00" while the cartridge waits
  for a command. `OwnStatus` is stated for all other moments: its condition is
  `argsOk \/ firmware # "idle"`.
- WRITE_FILE writes zeros (CA:379). PROT_DeleteFile and PROT_DeleteDirectory send no
  flags byte (`Fitting`). The short statuses of LONG_SEEK_FILE, DELETE_* and others
  can be missed (`Patient` leaves them out of `Answered`).
- Without /PLUGINS a failed song leaves the firmware in the root, and the next row
  starts another program (CA:325; `HasPlugins`). A hidden plugin is never found by
  INVOKE_WITH_NAME, and a picture of the wrong size leaves the directory handle
  closed (`Complete`). After a GOBACK that failed, the firmware is in the root under
  the old screen (`reliable`).
- Launch: a program of 64 KB or more is cut to its length modulo 65536, one of two
  bytes leaves the C64 waiting, a failed read of the address gives $FF (`Fits`,
  `lost`). A PRG at $80xx or from $E000 is started as a cartridge. For one loaded
  from $8000 up, $AE/$AF may be wrong: `startHigh*256` overflows a 16-bit int
  (CA:1750; CA:985 has 256L). A displayer of 165..206 bytes with a failing read
  corrupts the row cache, and the menu goes on (`ROWS_AT`).
- Stream: SEL is not sampled while a stream runs, though `WavPlayer.s:114` and
  `CartLibStream.s:117-119` rely on it. A failed GET_FILEINFO makes a video endless. A
  refill that comes late shifts the rest of a video. The last byte of a video may be
  read from RAM (`InOrder` allows it). `StreamLargeFile` and `HandleReadNextChunk`
  have no caller.
- Button: a release during a long command is noticed late, so that a short press
  resets to BASIC (`watched`). After 2^31 ms without an action the guard's signed
  difference is negative and the button is dead until the clock comes round.
  `recoverSD` has no caller.
- KernalBridge: the exits through ERROR_GATE leave the session open until a key is
  pressed, though KB:280 wants EndTalking on all exits; a session left open by the
  two-phase loader survives a reset of the C64. `BNE +` at KB:901, for a byte that is
  in the buffer, lands on the frame delay and END_TALKING: 40 ms (DEBUG=1)
  and a stray END_TALKING for each byte. EQ16 at KB:812 compares addresses, so that an OPEN of an
  empty file is not reported. Files of 64 KB and more end at their length modulo 65536;
  programs that end at $FFFD-$FFFF, start beyond $C000 or start in the last bytes of
  a page overwrite the bridge. The second phase does not look at the read's status.

## Fairness

- `Receiver`: weak fairness of the main loop, whose `loop()` never stops, and of time
  passing when the C64 has nothing left to send. Nothing is asked of the C64, which
  may die.
- `Session`: weak fairness of the firmware, and of a program that has begun a call
  and sends or polls (its loops have no other exit); nothing makes it start or end a
  session.
- `Launch`: weak fairness of the firmware, which has no wait without an end, and of
  the C64 between its reset and the stub's jump (`Boot`, `LeaveRom`, `RunStub`), which
  runs from ROM; nothing makes the user choose anything.
- `Stream`: weak fairness of the firmware, of its interrupt, of the player and of
  time. A player may still be switched off (`Die`).

The other modules check safety only. In `Receiver`, `Session` and `KernalBridge` the
system may really stop (a C64 that is off, a program that polls for ever, a machine
that has overwritten itself), so their runs do not check deadlock.

## Proofs

Eight modules, for every value of the constants that their assumptions
(`SizeAssumption`, `ReceiverAssumption`, `SessionAssumption`, `StreamAssumption`...)
allow. TLC checks the assumptions in every run, and each inductive invariant was
checked on the run's instance before it was proved.

**`ReceiverProofs`**, the queue. `QueueTypeCorrect`, `ReaderSafe`, `CommandFirstHolds`: the three
invariants of the run, from `IInv`, which adds to types what the main loop may rely
on at each `mainLoop` (a fetched slot is unread and unchanged; during a reset with the
interrupt able to run, the indices may differ but the queue is treated as empty;
before a handshake completes the queue is empty). None is inductive alone:
`ReaderSlotStable` needs that the interrupt never reaches the head slot,
`CommandFirst` that resets happen outside transmissions or leave the queue empty.
`Refinement`: the ring implements `BoundedFifo`; `EnqueueAppends` and
`DequeueRemoves` are the two lemmas about the ring as a sequence, proved without
induction from the explicit index of the i-th held byte.

**`ReceiverProofs`**, the receiver. `TypeCorrect` and `HiddenHolds` without any condition, also for
debug builds and pausing programs. `InOrderHolds` under `Orderly`: at most one edge is
lost to the log, and every session fits the queue and is made of whole commands. Of
sessions that paused after the handshake `InOrder` and its invariant say nothing
(`LongPause`), but the next session is in order again. Its invariant `Phases` says for each moment of a session
where both sides are: the firmware follows the handshake bit by bit (`Fresh` before
the first edge, `Following` between the edges, `Behind` when a logged edge is still
to be looked at), reads what was decoded (`Reading`), or has finished (`Done`).
`InOrder` alone says nothing of the bits under way, so that the step that completes a
byte could not be proved from it.

**`StreamProofs`.** `TypeCorrect`: no index leaves its buffer. The buffers have
different domains while a song and a video play (`BuffersOK`), and a song's refill
takes offsets back from the position (`PositionsOK`). `SameEndHolds`, when
`SETUP < FIRST_TIMEOUT` and `1 < FALL_TIMEOUT`: player and firmware end a video with
the same block, for every length. The two never compare notes: one counts the length
down, the other looks at what the card gives. `EndInv` ties them: whatever the player
does, what lies behind the position is what it still expects less the block in the
buffer (`AtBlock`), and the firmware has not given up because the player is back in
time (`Playing`, `Latched`, `Between`).

`InOrderHolds`, under the same conditions and
`MaxLag <= DOUBLE_BUFFER_SIZE`: a player hears the file in order. A song's two buffers
and the card's position are given as offsets of the file (`Fetching`): the next block to
be read lies two blocks beyond the one being sent, or one when a buffer waits for its
refill. During the refill the interrupt must not run into the buffer being filled;
`OneEmpty` bounds the samples played by what the other buffer holds, which is where the
condition on `MaxLag` is needed. For a video `Paced` says that firmware and player are
at the same byte of the block while the player keeps its times, also when it does not
know the length, and `Showing` what the latch, the block and the card then are.
Bytes are counted by accesses served (`IsServed`), which an interrupt that is still
pending lags behind.

**`KernalBridgeProofs`.** `TypeCorrect`, `ReadsInOrderHolds`, `CallsEndSessionHolds`
and `RunsWholeHolds`: all properties of the run, for every page size, address space,
bridge and program. `ChannelInv` places the page buffer at the file position less a
page, `OwnerInv` says whose file is open at each `pc`, `WholeInv` which part of the
program is in memory after each phase. `NatFacts` has the arithmetic they need.

**`SessionProofs`.** `TypeCorrect`, `OwnStatusHolds` and `FramedHolds`, without any
condition. `OwnStatus` looks at the moment a program takes the page latch. `LatchInv` says
when there is anything in it: while an answer is shown, or after one whose arguments timed
out. What makes the property true is where the command is by then. `InCommand` says it: the queue holds what was
sent of the call and not read, and `Due` that the handler waits for as many arguments
as are still to come, or for more, never for fewer. `DELETE_FILE` and `DELETE_DIR`,
which take a letter for a length, are the ones that wait for more, and `WRITE_FILE`
for data whose count the program has no part in. So a call ends with an empty queue,
also when the handler has given up (`TimedOut`), and the next byte the firmware looks
at is a command.

**`LaunchProofs`.** All invariants of `Launch`: `TypeCorrect`, `PausesHold`,
`RowStartsHolds`, `NothingAfterStartHolds` and `LoadedWholeHolds`, for every width of a
byte and every program, cartridge image, picture, displayer and menu; the one condition
is that the menu is not shorter than its load address (`MenuIsThere`). `PhaseInv` places
the C64 in each phase of the firmware: what it lacks of the header is in the outbox, the
stub is one page, the index that decides where the firmware pauses is the C64's index in
the page. `GoInv` counts: the bytes of this and all later phases (`ToGo`) are those the
C64 waits for, `x * B - y`; it needs that a program that fits has fewer than 256 pages
(`FitPages`), or the count in the header would not be the number of pages. `WholeInv`
says what is stored: the C64's high byte is the load address' plus the pages it has, the
card's position is as far from the end of the file as the firmware has bytes to send,
and what was received lies at its address (`StoresNext`, where no two bytes of a program
meet because it is shorter than the address space). `NatFacts` has the arithmetic of
pages and words.

**`MenuProofs`, browsing.** All invariants of `Browse`, for every set of cards, every tree of
directories on them and every depth: `TypeCorrect`, `PathMirrorsHolds`,
`LaunchesShownHolds` and `CompleteCardServesHolds`. The assumption about a card says that
its directories form a tree: each but the root has an entry in another. The walk of
`NavigateToPath` is a function of the segments done; `WalkSteps` shows by induction that
it has a solution, and from it that a walk ends at its path, or in the root when it
fails (`NavigateStands`). `Stands` is what every command keeps of `nav`: path and cwd
are one directory of the card, the handle is there or closed. `LaunchesShown` is not
inductive, because it looks at what was started and not at where the next row is looked
up: `ScreenInv` adds that a menu that takes keys shows the directory the firmware is in,
and `RowsInv` that its rows are rows of that directory.

**`MenuProofs`, the button.** All properties of `Button`: `ButtonTypeCorrect`,
`NoPressLostHolds` and `ActsAsPressedHolds`, for every clock that wraps at an even
number and all times in the order of the code's (`ButtonAssumption`: a bounce is shorter
than `SEL_STABLE_MS`, that than `BUTTON_DEBOUNCE_MS`, that than `BUTTON_LONG_PRESS_MS`,
the guard after an action is longer than a bounce and not longer than the one after the
start, and half the clock is longer than all). Both properties compare the user's press
with the loop's account of it, which neither of them names. `DownInv` and `UpInv` relate
the two: where the tracking and the press time stand, given how long the button has been
held or is released. `OwedInv` says that a press is owed unless the contact is at rest
and seen to be, so that a bounce cannot begin a press. `GuardInv` is why the cast to a
signed long is harmless: for half the clock after it was set, the end of the guard is
where the guard put it. `Difference` and `TickElapsed` say what a difference of two
times is when the clock has wrapped between them.

**`DirListingProofs`.** All invariants of `DirListing` and its action property, for every
set of directories, in every disk order, and every size of a page. `ScanRight` shows by
induction over the entries seen that the slots are sorted, hold no entry twice, and hold
the smallest of those seen (`ScannedTo`). Without any condition on names,
`TypeCorrect` and `RowOpensShownHolds` follow: `RowsMatch` ties each row to the index
cached for it. `RowOpensShown` is about the slots before the cache;
that they are read unharmed is where the layout matters (`CacheByteType` and what follows
it keep the other rows to 16 bits). With names that are their own keys, the watermark
decides everything: `PageRead` shows that a page read with a watermark that leaves behind
as many entries as the pages before have (`Count(mark) = EntriesBefore(p)`) has the right
rows and leaves a right watermark. What remains is which watermarks are right.
`ForwardStaysRightHolds`, for pages of at least two rows: the last row of a right page
is (`EndOfRight`), and so is what `Rebuild` finds, by induction over the pages
(`RebuildRight`). `PageShownHolds` and `RowEntersShownHolds`, also for pages of at least
two rows, any number of pages and any jumps: `ChainRight` says that the first two
watermarks are ends of their pages as long as the way there was not lost, and the third
as long as nothing was retraced, so that one step back finds it right and a second does
not. `FoundByRank` and `RankUnique` carry the rank of a row over to
`FindDirectoryNameByVisibleIndex`, which counts directories by name only.

`NatFacts` states induction with a set and not with a predicate: what holds of 0 and
passes from each number to the next is a set that contains the numbers up to n. With it,
what a recursive function computes can be proved.

Model-checked only: liveness (`Delivered`, `Recovers`, `Answered`, `Reopens`,
`ProgramStarts`, `StreamEnds`), which TLAPS cannot prove. Every safety invariant and
action property of a passing run has its theorem; the three `violation` runs are
counterexamples, which TLC finds.

## Not modelled

- Drawing, colours, music and joystick input of the menu, and the plugins' display
  and audio code: cycle-exact output without state shared beyond the protocol.
- The log (its time is `LogEdges`), the build and conversion tools.
- The vendored SdFat, which is most of the repository's lines: a third-party library;
  its calls succeed or fail nondeterministically where a failure matters.
- Code without a caller: `StreamLargeFile`, `HandleReadNextChunk`, `recoverSD`,
  `TransferMode` 1 and 2 with their NMI handlers, `ByteQueue::Size`.
- `FindEntrySFN` matches prefixes; `Browse` resolves names exactly. What another
  program does with the file commands before it returns to the menu is not followed;
  `TransferMenu` starts from the root again.
- Pulses on /IO2 that the AVR misses altogether (a handler longer than the gap): the
  timing assumptions of `Receiver` and `Stream` exclude them.

## What is left

1. The positions of the working file under seeks, reads and writes of a program that
   is not the bridge, within `Session`'s protocol.
2. `FindEntrySFN` and the short names it compares.
