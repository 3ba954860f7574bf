------------------------------ MODULE Session -------------------------------
(***************************************************************************)
(* The command protocol of an open session: the routines of CartLibHi.s a  *)
(* C64 program calls, which send a command byte and its arguments and then *)
(* poll the page latch ($80FF) for a status, and the firmware's HandleApi, *)
(* which collects the arguments with a timeout, runs the handler and shows *)
(* the status for a while.                                                  *)
(*                                                                         *)
(* Bytes keep the values of CartApi.h; a name is one letter.  Receiver says *)
(* how a session opens; here StartTalking opens it in one step.  Commands   *)
(* that start another program or a stream are not in this module.          *)
(***************************************************************************)
EXTENDS Integers, Sequences

CONSTANTS Programs,           \* for each program, the commands it uses
          WRITE_BUFFER_SIZE   \* bytes of a WRITE_FILE (32)

READ_FILE == 78
OPEN_FILE == 2
CLOSE_FILE == 3
WRITE_FILE == 4
DELETE_FILE == 5
SEEK_FILE == 6
LONG_SEEK_FILE == 7
GET_INFO_FOR_FILE == 8
GET_PATH == 9
READ_DIR == 10
CHANGE_DIR == 11
DELETE_DIR == 12
CHANGE_DIR_INDEX == 33
GET_MEMORY_STATUS == 34

Commands ==
  {READ_FILE, OPEN_FILE, CLOSE_FILE, WRITE_FILE, DELETE_FILE, SEEK_FILE,
   LONG_SEEK_FILE, GET_INFO_FOR_FILE, GET_PATH, READ_DIR, CHANGE_DIR, DELETE_DIR,
   CHANGE_DIR_INDEX, GET_MEMORY_STATUS}

ASSUME SessionAssumption ==
  Programs \subseteq SUBSET Commands /\ WRITE_BUFFER_SIZE \in Nat \ {0}

Letter == 65       \* the first character of a name
Data == 100        \* a byte of a fragment to write
MAX_ARGUMENTS_LENGTH == 128

VARIABLES program,         \* the commands the running program uses
          talking,         \* the program is between StartTalking and EndTalking
          c64, call,       \* what it does, and the command it called
          outbox,          \* bytes of the call still to send
          page,            \* the page latch: "none" (0), "ok" ($80) or "error"
          ram,             \* what the C64's own RAM reads as under the latch
          answeredBy,      \* history: the command that set a status since the call
          inSession,       \* receiveState = IN_TRANSMISSION
          queue,           \* received bytes, marked if sent as a command
          firmware,        \* what HandleApi does
          command,         \* the command byte it read
          arguments,       \* the Arguments buffer, as read so far
          left, lengthNext,    \* arguments to read; then comes a length
          argsOk,          \* m_argsOk
          fileOpen         \* workingFile is open

c64Vars == <<program, talking, c64, call, outbox, ram>>
argVars == <<arguments, left, lengthNext, argsOk>>
vars == <<c64Vars, page, answeredBy, inSession, queue, firmware, command, argVars, fileOpen>>

NoCommand == 0

Init ==
  /\ program \in Programs
  /\ talking = FALSE /\ c64 = "idle" /\ call = NoCommand /\ outbox = << >>
  /\ page = "none" /\ ram \in {"none", "ok", "error"} /\ answeredBy = NoCommand
  /\ inSession = FALSE /\ queue = << >>
  /\ firmware = "idle" /\ command = NoCommand
  /\ arguments = << >> /\ left = 0 /\ lengthNext = FALSE /\ argsOk = TRUE
  /\ fileOpen = FALSE

-----------------------------------------------------------------------------
(* The library (CartLibHi.s): the bytes each call sends before it polls.    *)

Fragment == [i \in 1 .. WRITE_BUFFER_SIZE |-> Data]
Name == <<1, Letter>>     \* PROT_SendFileName

ArgumentsSent(c) ==
  CASE c \in {CLOSE_FILE, GET_INFO_FOR_FILE, GET_PATH, GET_MEMORY_STATUS, WRITE_FILE} -> << >>
    [] c = READ_FILE -> <<1>>
    [] c = CHANGE_DIR_INDEX -> <<0, 1>>
    [] c \in {SEEK_FILE, READ_DIR} -> <<1, 1, 1>>
    [] c = LONG_SEEK_FILE -> <<1, 1, 1, 1, 1>>
    [] c = OPEN_FILE -> <<1>> \o Name
    [] c \in {DELETE_FILE, DELETE_DIR, CHANGE_DIR} -> Name

\* With a status of success the call goes on to receive pages.
ReceivesData == {READ_FILE, GET_INFO_FOR_FILE, GET_PATH, GET_MEMORY_STATUS, READ_DIR}

(* The handlers: GetArgumentsStatic(n), or GetArgumentsDynamic(n) with a    *)
(* length and as many bytes after the first n.                              *)

\* Mutant of StaticArguments: SEEK_FILE reads one of its arguments too few.
StaticArgumentsOneFewer(c) ==
  CASE c \in {CLOSE_FILE, GET_INFO_FOR_FILE, GET_PATH, GET_MEMORY_STATUS, CHANGE_DIR} -> 0
    [] c \in {READ_FILE, OPEN_FILE, DELETE_FILE, DELETE_DIR} -> 1
    [] c \in {CHANGE_DIR_INDEX, SEEK_FILE} -> 2
    [] c = READ_DIR -> 3
    [] c = LONG_SEEK_FILE -> 5
    [] c = WRITE_FILE -> WRITE_BUFFER_SIZE

StaticArguments(c) ==
  CASE c \in {CLOSE_FILE, GET_INFO_FOR_FILE, GET_PATH, GET_MEMORY_STATUS, CHANGE_DIR} -> 0
    [] c \in {READ_FILE, OPEN_FILE, DELETE_FILE, DELETE_DIR} -> 1
    [] c = CHANGE_DIR_INDEX -> 2
    [] c \in {SEEK_FILE, READ_DIR} -> 3
    [] c = LONG_SEEK_FILE -> 5
    [] c = WRITE_FILE -> WRITE_BUFFER_SIZE
Dynamic == {OPEN_FILE, DELETE_FILE, DELETE_DIR, CHANGE_DIR}

\* Mutant of Lasting: OPEN_FILE's error status is cleared at once.
LastingExceptOpen(c, status) ==
  \/ c \in {CLOSE_FILE, SEEK_FILE, READ_DIR, CHANGE_DIR, CHANGE_DIR_INDEX}
  \/ status = "ok" /\ c \in ReceivesData \cup {OPEN_FILE}

\* HandleResponse(status, 1): the status stays for a millisecond.  With
\* HandleResponse(status, 0) it is gone after a few instructions.
Lasting(c, status) ==
  \/ c \in {OPEN_FILE, CLOSE_FILE, SEEK_FILE, READ_DIR, CHANGE_DIR, CHANGE_DIR_INDEX}
  \/ status = "ok" /\ c \in ReceivesData

-----------------------------------------------------------------------------
(* The program.                                                             *)

StartTalking ==
  /\ ~talking /\ firmware = "idle" /\ ~inSession
  /\ talking' = TRUE /\ inSession' = TRUE
  /\ UNCHANGED <<program, c64, call, outbox, ram, answeredBy, page, queue, firmware,
                 command, argVars, fileOpen>>

Call(c) ==
  /\ talking /\ c64 = "idle"
  /\ call' = c /\ answeredBy' = NoCommand
  /\ outbox' = <<c>> \o ArgumentsSent(c)
  /\ c64' = "sending"
  /\ UNCHANGED <<program, talking, ram, page, inSession, queue, firmware, command,
                 argVars, fileOpen>>

\* A byte takes 14 ms; what remains of an answer takes less.
SendByte ==
  /\ c64 \in {"sending", "fragment"}
  /\ firmware # "answered"
  /\ outbox' = Tail(outbox)
  /\ queue' = IF inSession
              THEN Append(queue, [value |-> Head(outbox),
                                  isCommand |-> c64 = "sending"
                                                /\ Len(outbox) = 1 + Len(ArgumentsSent(call))])
              ELSE queue
  /\ c64' = IF Len(outbox) > 1 THEN c64 ELSE IF c64 = "sending" THEN "polling" ELSE "idle"
  /\ UNCHANGED <<program, talking, call, ram, answeredBy, page, inSession, firmware,
                 command, argVars, fileOpen>>

\* $80FF is the latch while the cartridge is visible, else RAM.
Seen == IF inSession THEN page ELSE ram

\* The program looks at the latch before HandleApi has read the command (it may be
\* writing "HS OK" to the log).
TooEarly == inSession /\ firmware = "idle" /\ queue # << >>

\* PROT_WaitProcessing sees a status.  What a program does that has taken one too
\* early is left out.
Poll ==
  /\ c64 = "polling" /\ Seen # "none"
  /\ \/ /\ TooEarly
        /\ c64' = "astray" /\ UNCHANGED outbox
     \/ /\ ~TooEarly /\ Seen = "ok" /\ call = WRITE_FILE
        /\ c64' = "fragment" /\ outbox' = Fragment
     \/ /\ ~TooEarly /\ Seen = "ok" /\ call \in ReceivesData
        /\ c64' = "receiving" /\ UNCHANGED outbox
     \/ /\ ~TooEarly /\ (Seen = "error" \/ call \notin ReceivesData \cup {WRITE_FILE})
        /\ c64' = "idle" /\ UNCHANGED outbox
  /\ UNCHANGED <<program, talking, call, ram, page, answeredBy, inSession, queue, firmware,
                 command, argVars, fileOpen>>

\* PROT_EndTalking: the firmware reads the command and resets the receiver; when
\* it has closed the session before, nobody reads it.
EndTalking ==
  /\ talking /\ c64 = "idle" /\ firmware = "idle" /\ queue = << >>
  /\ talking' = FALSE /\ inSession' = FALSE
  /\ page' = IF inSession THEN "none" ELSE page
  /\ argsOk' = (inSession \/ argsOk)
  /\ UNCHANGED <<program, c64, call, outbox, ram, answeredBy, queue, firmware, command,
                 arguments, left, lengthNext, fileOpen>>

\* The C64 is reset or crashes inside a command.
Crash ==
  /\ c64 = "sending" /\ Len(outbox) <= Len(ArgumentsSent(call))
  /\ talking' = FALSE /\ c64' = "idle" /\ call' = NoCommand /\ outbox' = << >>
  /\ UNCHANGED <<program, ram, answeredBy, page, inSession, queue, firmware, command,
                 argVars, fileOpen>>

-----------------------------------------------------------------------------
(* HandleApi.                                                               *)

\* A byte that is no command ends the session (see Receiver); the library
\* sends none.
ReadCommand ==
  /\ firmware = "idle" /\ inSession /\ queue # << >>
  /\ Head(queue).value \in Commands
  /\ command' = Head(queue).value
  /\ queue' = Tail(queue)
  /\ page' = "none"
  /\ firmware' = "arguments"
  /\ arguments' = << >> /\ argsOk' = TRUE
  /\ left' = StaticArguments(Head(queue).value)
  /\ lengthNext' = (Head(queue).value \in Dynamic)
  /\ UNCHANGED <<c64Vars, answeredBy, inSession, fileOpen>>

\* Mutant of ReadArgument: the length is counted as an argument.
ReadArgumentWithoutLength ==
  /\ firmware = "arguments" /\ (left > 0 \/ lengthNext) /\ queue # << >>
  /\ arguments' = Append(arguments, Head(queue).value)
  /\ left' = left - 1
  /\ queue' = Tail(queue)
  /\ UNCHANGED <<c64Vars, page, answeredBy, inSession, firmware, command, lengthNext, argsOk,
                 fileOpen>>

ReadArgument ==
  /\ firmware = "arguments" /\ (left > 0 \/ lengthNext) /\ queue # << >>
  /\ LET value == Head(queue).value
         isLength == left = 0
     IN /\ arguments' = Append(arguments, value)
        /\ lengthNext' = (lengthNext /\ ~isLength)
        /\ left' = IF ~isLength THEN left - 1
                   ELSE IF value > MAX_ARGUMENTS_LENGTH - 1 THEN 0 ELSE value
        /\ argsOk' = (isLength => value <= MAX_ARGUMENTS_LENGTH - 1)
  /\ queue' = Tail(queue)
  /\ UNCHANGED <<c64Vars, page, answeredBy, inSession, firmware, command, fileOpen>>

\* 120 ms without a byte: missing static arguments become 0, and the handler
\* goes on.
ArgumentTimeout ==
  /\ firmware = "arguments" /\ (left > 0 \/ lengthNext) /\ queue = << >>
  /\ c64 \notin {"sending", "fragment"}
  /\ argsOk' = FALSE /\ left' = 0 /\ lengthNext' = FALSE
  /\ arguments' = arguments \o [i \in 1 .. left |-> 0]
  /\ UNCHANGED <<c64Vars, page, answeredBy, inSession, queue, firmware, command, fileOpen>>

Respond(status) == page' = status /\ answeredBy' = command /\ firmware' = "answered"

NeedsFile == {READ_FILE, CLOSE_FILE, WRITE_FILE, SEEK_FILE, LONG_SEEK_FILE, GET_INFO_FOR_FILE}

Handle ==
  /\ firmware = "arguments" /\ left = 0 /\ ~lengthNext
  /\ \/ /\ command \in NeedsFile /\ ~fileOpen
        /\ Respond("error")
        /\ UNCHANGED fileOpen
     \/ /\ command \in {READ_FILE, GET_INFO_FOR_FILE} /\ fileOpen
        /\ Respond("ok")
        /\ fileOpen' \in IF command = READ_FILE THEN BOOLEAN ELSE {TRUE}
     \/ /\ command = CLOSE_FILE /\ fileOpen
        /\ Respond("ok") /\ fileOpen' = FALSE
     \/ /\ command = WRITE_FILE /\ fileOpen
        /\ \E status \in {"ok", "error"} : Respond(status)
        /\ UNCHANGED fileOpen
     \/ /\ command = OPEN_FILE
        /\ \/ Respond("ok") /\ fileOpen' = TRUE
           \/ Respond("error") /\ fileOpen' \in {fileOpen, FALSE}
     \/ /\ command \in {SEEK_FILE, LONG_SEEK_FILE} => fileOpen
        /\ command \notin {OPEN_FILE, READ_FILE, CLOSE_FILE, WRITE_FILE, GET_INFO_FOR_FILE}
        /\ \E status \in {"ok", "error"} :
             /\ command \in {GET_PATH, GET_MEMORY_STATUS} => status = "ok"
             /\ Respond(status)
        /\ UNCHANGED fileOpen
  /\ UNCHANGED <<c64Vars, inSession, queue, command, argVars>>

\* Mutants of Finish: the status stays in the latch; a timeout leaves the
\* session open.
FinishKeepingStatus ==
  /\ firmware = "answered"
  /\ Lasting(command, page) => c64 # "polling"
  /\ c64' = IF c64 = "receiving" THEN "idle" ELSE c64
  /\ firmware' = "idle"
  /\ \/ argsOk /\ UNCHANGED <<inSession, queue>>
     \/ ~argsOk /\ inSession' = FALSE /\ queue' = << >>
  /\ UNCHANGED <<program, talking, call, outbox, ram, page, answeredBy, command, argVars,
                 fileOpen>>
FinishInSession ==
  /\ firmware = "answered"
  /\ Lasting(command, page) => c64 # "polling"
  /\ c64' = IF c64 = "receiving" THEN "idle" ELSE c64
  /\ page' = "none"
  /\ firmware' = "idle"
  /\ UNCHANGED <<program, talking, call, outbox, ram, answeredBy, inSession, queue, command,
                 argVars, fileOpen>>

\* The status is cleared, or, when arguments were missing, the session closed and the
\* latch left as it is.  A lasting status is seen by a program that polls for it;
\* pages of data are only received by a program that waits for them.
Finish ==
  /\ firmware = "answered"
  /\ Lasting(command, page) => c64 # "polling"
  /\ c64' = IF c64 = "receiving" THEN "idle" ELSE c64
  /\ firmware' = "idle"
  /\ \/ argsOk /\ page' = "none" /\ UNCHANGED <<inSession, queue>>
     \/ ~argsOk /\ inSession' = FALSE /\ queue' = << >> /\ UNCHANGED page
  /\ UNCHANGED <<program, talking, call, outbox, ram, answeredBy, command, argVars, fileOpen>>

Firmware == ReadCommand \/ ReadArgument \/ ArgumentTimeout \/ Handle \/ Finish
Program == StartTalking \/ (\E c \in program : Call(c)) \/ SendByte \/ Poll
           \/ EndTalking \/ Crash
Next == Firmware \/ Program

\* The firmware's loop never stops, and a program finishes the call it began.
Spec == Init /\ [][Next]_vars /\ WF_vars(Firmware) /\ WF_vars(SendByte \/ Poll)

-----------------------------------------------------------------------------
(* Properties.                                                              *)

\* Every variable holds values of its kind.
TypeOK ==
  /\ program \in Programs /\ talking \in BOOLEAN /\ inSession \in BOOLEAN
  /\ c64 \in {"idle", "sending", "polling", "fragment", "receiving", "astray"}
  /\ call \in Commands \cup {NoCommand}
  /\ answeredBy \in Commands \cup {NoCommand}
  /\ outbox \in Seq(0 .. MAX_ARGUMENTS_LENGTH)
  /\ {page, ram} \subseteq {"none", "ok", "error"}
  /\ queue \in Seq([value : 0 .. MAX_ARGUMENTS_LENGTH, isCommand : BOOLEAN])
  /\ firmware \in {"idle", "arguments", "answered"}
  /\ command \in Commands \cup {NoCommand}
  /\ arguments \in Seq(0 .. MAX_ARGUMENTS_LENGTH)
  /\ left \in Nat /\ lengthNext \in BOOLEAN /\ argsOk \in BOOLEAN
  /\ fileOpen \in BOOLEAN

\* The status a program takes is that of the command it called, set since the call,
\* never what an earlier command left in the latch.  (After a command whose arguments
\* timed out the status stays in the latch and the session is closed: until HandleApi
\* reads the next command, a program takes that status, or what its RAM holds.)
OwnStatus ==
  [][c64 = "polling" /\ c64' # "polling" /\ (argsOk \/ firmware # "idle")
       => inSession /\ answeredBy = call]_vars

\* The commands whose arguments the library sends as the handler collects them:
\* WRITE_FILE waits before it sends any, and the library sends no flags to
\* delete with.
Fitting == Commands \ {WRITE_FILE, DELETE_FILE, DELETE_DIR}

\* HandleApi never takes an argument or data byte for a command: whatever a
\* handler leaves unread is gone before the next command is looked for.  And a
\* handler never waits for more than is sent: in a program of Fitting commands one
\* times out only when the program is gone.
Framed ==
  /\ firmware = "idle" /\ inSession /\ queue # << >> => Head(queue).isCommand
  /\ program \subseteq Fitting /\ talking /\ firmware # "idle" => argsOk

\* The commands whose every status stays for a millisecond.
Patient ==
  {OPEN_FILE, CLOSE_FILE, SEEK_FILE, GET_PATH, GET_MEMORY_STATUS, READ_DIR, CHANGE_DIR,
   CHANGE_DIR_INDEX}

\* A program of Patient commands that waits for a status gets one.
Answered == program \subseteq Patient /\ c64 = "polling" ~> c64 # "polling"

\* Once a program has ended its session, or died inside a command, the
\* firmware closes the session, so that the next StartTalking can open one.
Reopens == ~talking ~> ~inSession \/ talking
=============================================================================
