----------------------------- MODULE SessionProofs -----------------------------
(***************************************************************************)
(* Proofs about Session, for every set of programs and every length of a    *)
(* fragment.                                                                *)
(***************************************************************************)
EXTENDS Session, SequenceTheorems, TLAPS

-----------------------------------------------------------------------------
(* What a call sends and what its handler collects.                         *)

Byte == 0 .. MAX_ARGUMENTS_LENGTH
Received == [value : Byte, isCommand : BOOLEAN]

LEMMA Numbers ==
  /\ Commands \subseteq Byte /\ NoCommand \notin Commands /\ Data \in Byte
  /\ WRITE_BUFFER_SIZE \in Nat \ {0} /\ \A p \in Programs : p \subseteq Commands
BY SessionAssumption
   DEF Byte, MAX_ARGUMENTS_LENGTH, Data, NoCommand, Commands, READ_FILE, OPEN_FILE, CLOSE_FILE,
       WRITE_FILE, DELETE_FILE, SEEK_FILE, LONG_SEEK_FILE, GET_INFO_FOR_FILE, GET_PATH,
       READ_DIR, CHANGE_DIR, DELETE_DIR, CHANGE_DIR_INDEX, GET_MEMORY_STATUS

\* The arguments there are.
LEMMA Tuples ==
  /\ << >> \in Seq(Byte) /\ Len(<< >>) = 0
  /\ <<1>> \in Seq(Byte) /\ Len(<<1>>) = 1 /\ <<1>>[1] = 1
  /\ <<0, 1>> \in Seq(Byte) /\ Len(<<0, 1>>) = 2
  /\ <<1, 1, 1>> \in Seq(Byte) /\ Len(<<1, 1, 1>>) = 3
  /\ <<1, 1, 1, 1, 1>> \in Seq(Byte) /\ Len(<<1, 1, 1, 1, 1>>) = 5
  /\ Name \in Seq(Byte) /\ Len(Name) = 2 /\ Name[1] = 1 /\ Name[2] = Letter
BY DEF Byte, MAX_ARGUMENTS_LENGTH, Name, Letter

\* The commands with a name, those with flags as well, and the others.
Named == {CHANGE_DIR, DELETE_FILE, DELETE_DIR}
Plain == Commands \ (Named \cup {OPEN_FILE, WRITE_FILE})

LEMMA Sent ==
  ASSUME NEW c \in Commands
  PROVE  /\ ArgumentsSent(c) \in Seq(Byte)
         /\ c = OPEN_FILE => Len(ArgumentsSent(c)) = 3 /\ ArgumentsSent(c)[2] = 1
         /\ c \in Named => /\ Len(ArgumentsSent(c)) = 2
                           /\ ArgumentsSent(c)[1] = 1 /\ ArgumentsSent(c)[2] = Letter
         /\ c = WRITE_FILE => Len(ArgumentsSent(c)) = 0
         /\ c \in Plain => c \notin Dynamic /\ StaticArguments(c) = Len(ArgumentsSent(c))
         /\ c \in {DELETE_FILE, DELETE_DIR, OPEN_FILE} => StaticArguments(c) = 1
         /\ c = CHANGE_DIR => StaticArguments(c) = 0
         /\ c = WRITE_FILE => StaticArguments(c) = WRITE_BUFFER_SIZE
<1> USE DEF READ_FILE, OPEN_FILE, CLOSE_FILE, WRITE_FILE, DELETE_FILE, SEEK_FILE, LONG_SEEK_FILE,
            GET_INFO_FOR_FILE, GET_PATH, READ_DIR, CHANGE_DIR, DELETE_DIR, CHANGE_DIR_INDEX,
            GET_MEMORY_STATUS
<1>1. CASE c = OPEN_FILE
  <2>1. ArgumentsSent(c) = <<1>> \o Name /\ StaticArguments(c) = 1
    BY <1>1 DEF ArgumentsSent, StaticArguments
  <2>2. <<1>> \o Name \in Seq(Byte) /\ Len(<<1>> \o Name) = 3 /\ (<<1>> \o Name)[2] = 1
    <3>1. ASSUME NEW s \in Seq(Byte), NEW t \in Seq(Byte)
          PROVE  /\ s \o t \in Seq(Byte) /\ Len(s \o t) = Len(s) + Len(t)
                 /\ \A i \in 1 .. Len(s) + Len(t) :
                      (s \o t)[i] = IF i <= Len(s) THEN s[i] ELSE t[i - Len(s)]
      BY ConcatProperties
    <3> DEFINE both == <<1>> \o Name
    <3>2. both \in Seq(Byte) /\ Len(both) = 3
          /\ \A i \in 1 .. 3 : both[i] = IF i <= 1 THEN <<1>>[i] ELSE Name[i - 1]
      BY <3>1, Tuples, SMTT(20)
    <3> HIDE DEF both
    <3>3. both[2] = Name[1]
      BY <3>2
    <3> QED BY <3>2, <3>3, Tuples DEF both
  <2>3. c \notin Named \cup Plain \cup {WRITE_FILE, CHANGE_DIR}
    BY <1>1 DEF Named, Plain
  <2> QED BY <1>1, <2>1, <2>2, <2>3
<1>2. CASE c \in Named
  <2>1. ArgumentsSent(c) = Name /\ StaticArguments(c) = (IF c = CHANGE_DIR THEN 0 ELSE 1)
    BY <1>2 DEF ArgumentsSent, StaticArguments, Named
  <2> QED BY <1>2, <2>1, Tuples DEF Named, Plain
<1>3. CASE c = WRITE_FILE
  BY <1>3, Tuples DEF ArgumentsSent, StaticArguments, Named, Plain
<1>4. CASE c \in {CLOSE_FILE, GET_INFO_FOR_FILE, GET_PATH, GET_MEMORY_STATUS}
  <2>1. ArgumentsSent(c) = << >> /\ StaticArguments(c) = 0
    BY <1>4 DEF ArgumentsSent, StaticArguments
  <2> QED BY <1>4, <2>1, Tuples DEF Named, Plain, Dynamic
<1>5. CASE c = READ_FILE
  <2>1. ArgumentsSent(c) = <<1>> /\ StaticArguments(c) = 1
    BY <1>5 DEF ArgumentsSent, StaticArguments
  <2>2. ArgumentsSent(c) \in Seq(Byte) /\ Len(ArgumentsSent(c)) = 1
    BY <2>1, Tuples
  <2>3. c \notin Named \cup Dynamic \cup {OPEN_FILE, WRITE_FILE}
    BY <1>5 DEF Named, Dynamic
  <2> QED BY <2>1, <2>2, <2>3 DEF Named
<1>6. CASE c = CHANGE_DIR_INDEX
  <2>1. ArgumentsSent(c) = <<0, 1>> /\ StaticArguments(c) = 2
    BY <1>6 DEF ArgumentsSent, StaticArguments
  <2>2. ArgumentsSent(c) \in Seq(Byte) /\ Len(ArgumentsSent(c)) = 2
    BY <2>1, Tuples
  <2>3. c \notin Named \cup Dynamic \cup {OPEN_FILE, WRITE_FILE}
    BY <1>6 DEF Named, Dynamic
  <2> QED BY <2>1, <2>2, <2>3 DEF Named
<1>7. CASE c \in {SEEK_FILE, READ_DIR}
  <2>1. ArgumentsSent(c) = <<1, 1, 1>> /\ StaticArguments(c) = 3
    BY <1>7 DEF ArgumentsSent, StaticArguments
  <2> QED BY <1>7, <2>1, Tuples DEF Named, Plain, Dynamic
<1>8. CASE c = LONG_SEEK_FILE
  <2>1. ArgumentsSent(c) = <<1, 1, 1, 1, 1>> /\ StaticArguments(c) = 5
    BY <1>8 DEF ArgumentsSent, StaticArguments
  <2>2. ArgumentsSent(c) \in Seq(Byte) /\ Len(ArgumentsSent(c)) = 5
    BY <2>1, Tuples
  <2>3. c \notin Named \cup Dynamic \cup {OPEN_FILE, WRITE_FILE}
    BY <1>8 DEF Named, Dynamic
  <2> QED BY <2>1, <2>2, <2>3 DEF Named
<1> QED BY <1>1, <1>2, <1>3, <1>4, <1>5, <1>6, <1>7, <1>8 DEF Commands, Named

-----------------------------------------------------------------------------
(* Types.                                                                   *)

TInv == TypeOK /\ (c64 \in {"sending", "fragment"} => outbox # << >>)

LEMMA TypeInit == Init => TInv
<1> SUFFICES ASSUME Init PROVE TInv
  OBVIOUS
<1>1. outbox \in Seq(Byte) /\ queue \in Seq(Received) /\ arguments \in Seq(Byte)
  BY EmptySeq DEF Init
<1> QED BY <1>1 DEF Init, TInv, TypeOK, Byte, Received

LEMMA NotTheLast == \A n \in Nat : n > 1 => n - 1 # 0
OBVIOUS

LEMMA TypeStep ==
  ASSUME TInv, [Next]_vars
  PROVE  TInv'
<1> USE DEF TInv
<1>1. outbox \in Seq(Byte) /\ queue \in Seq(Received) /\ arguments \in Seq(Byte)
  BY DEF TypeOK, Byte, Received
<1>2. queue # << >> => Head(queue) \in Received /\ Tail(queue) \in Seq(Received)
  BY <1>1, HeadTailProperties
<1>3. CASE StartTalking
  BY <1>3 DEF StartTalking, TypeOK, argVars
<1>4. ASSUME NEW c \in program, Call(c)
      PROVE  TInv'
  <2>1. c \in Commands /\ c \in Byte
    BY Numbers DEF TypeOK
  <2>2. <<c>> \in Seq(Byte) /\ Len(<<c>>) = 1
    BY <2>1
  <2>3. <<c>> \o ArgumentsSent(c) \in Seq(Byte) /\ <<c>> \o ArgumentsSent(c) # << >>
    BY <2>1, <2>2, Sent, ConcatProperties, EmptySeq
  <2> QED BY <1>4, <2>1, <2>3, Numbers DEF Call, TypeOK, argVars, Byte
<1>5. CASE SendByte
  <2>1. outbox # << >> /\ Head(outbox) \in Byte /\ Tail(outbox) \in Seq(Byte)
        /\ Len(Tail(outbox)) = Len(outbox) - 1
    BY <1>1, <1>5, HeadTailProperties DEF SendByte
  <2>2. queue' \in Seq(Received)
    <3>1. [value |-> Head(outbox), isCommand |-> c64 = "sending"
            /\ Len(outbox) = 1 + Len(ArgumentsSent(call))] \in Received
      BY <2>1 DEF Received
    <3> QED BY <1>1, <1>5, <3>1, AppendProperties DEF SendByte
  <2>3. c64' \in {"sending", "fragment"} => outbox' # << >>
    <3>1. outbox' = Tail(outbox) /\ (c64' \in {"sending", "fragment"} => Len(outbox) > 1)
      BY <1>5 DEF SendByte
    <3>2. Tail(outbox) = << >> => Len(Tail(outbox)) = 0
      BY EmptySeq
    <3> QED BY <1>1, <2>1, <3>1, <3>2, LenProperties, NotTheLast
  <2>4. c64' \in {"idle", "sending", "polling", "fragment"} /\ outbox' = Tail(outbox)
        /\ UNCHANGED <<program, talking, call, ram, answeredBy, page, inSession, firmware,
                       command, argVars, fileOpen>>
    BY <1>5 DEF SendByte
  <2> QED BY <2>1, <2>2, <2>3, <2>4 DEF TypeOK, argVars, Byte, Received
<1>6. CASE Poll
  <2>1. Fragment \in Seq(Byte) /\ Fragment # << >>
    BY Numbers DEF Fragment
  <2> QED BY <1>6, <2>1 DEF Poll, TypeOK, argVars, Byte
<1>7. CASE EndTalking
  BY <1>7 DEF EndTalking, TypeOK, argVars
<1>8. CASE Crash
  BY <1>8, EmptySeq DEF Crash, TypeOK, argVars, Byte
<1>9. CASE ReadCommand
  <2>1. Head(queue).value \in Commands /\ StaticArguments(Head(queue).value) \in Nat
    <3>1. Head(queue).value \in Commands
      BY <1>9 DEF ReadCommand
    <3>2. Len(ArgumentsSent(Head(queue).value)) \in Nat
      BY <3>1, Sent
    <3> QED BY <3>1, <3>2, Sent, Numbers DEF Plain, Named
  <2> QED BY <1>2, <1>9, <2>1, EmptySeq DEF ReadCommand, TypeOK, c64Vars, Byte, Received
<1>10. CASE ReadArgument
  <2>1. queue # << >> /\ Head(queue).value \in Byte
    BY <1>2, <1>10 DEF ReadArgument, Received
  <2>2. arguments' \in Seq(Byte)
    BY <1>1, <1>10, <2>1, AppendProperties DEF ReadArgument
  <2>3. left' \in Nat /\ lengthNext' \in BOOLEAN /\ argsOk' \in BOOLEAN
    BY <1>10, <2>1 DEF ReadArgument, TypeOK, Byte
  <2> QED BY <1>2, <1>10, <2>1, <2>2, <2>3 DEF ReadArgument, TypeOK, c64Vars, Byte, Received
<1>11. CASE ArgumentTimeout
  <2>1. [i \in 1 .. left |-> 0] \in Seq(Byte)
    BY DEF TypeOK, Byte, MAX_ARGUMENTS_LENGTH
  <2>2. arguments' \in Seq(Byte)
    BY <1>1, <1>11, <2>1, ConcatProperties DEF ArgumentTimeout
  <2> QED BY <1>11, <2>2 DEF ArgumentTimeout, TypeOK, c64Vars, Byte
<1>12. CASE Handle
  <2>1. page' \in {"ok", "error"} /\ firmware' = "answered" /\ fileOpen' \in BOOLEAN
        /\ answeredBy' = command
    BY <1>12 DEF Handle, Respond, TypeOK
  <2> QED BY <1>12, <2>1 DEF Handle, TypeOK, c64Vars, argVars
<1>13. CASE Finish
  BY <1>13, EmptySeq DEF Finish, TypeOK, argVars, Received
<1>14. CASE UNCHANGED vars
  BY <1>14 DEF vars, c64Vars, argVars, TypeOK
<1> QED BY <1>3, <1>4, <1>5, <1>6, <1>7, <1>8, <1>9, <1>10, <1>11, <1>12, <1>13, <1>14
        DEF Next, Firmware, Program

\* Type correctness, for every set of programs and every length of a fragment.
THEOREM TypeCorrect == Spec => []TypeOK
<1>1. TInv => TypeOK
  BY DEF TInv
<1>2. TInv /\ [Next]_vars => TInv'
  BY TypeStep
<1> QED BY TypeInit, <1>1, <1>2, PTL DEF Spec

-----------------------------------------------------------------------------
(* Where a command is on its way.  The queue holds what was sent of it and  *)
(* not read; the handler waits for as many arguments as are still to come,  *)
(* or for more, never for fewer.                                            *)

\* q is what a call of c has sent last, with m bytes to come.
EndsWith(q, c, m) ==
  LET sent == ArgumentsSent(c) IN
  /\ m \in Nat /\ Len(q) + m <= Len(sent)
  /\ \A i \in 1 .. Len(q) : q[i].value = sent[Len(sent) - m - Len(q) + i]

\* What the handler of c waits for while r arguments are unread.
Due(c, r) ==
  /\ c \in Plain => ~lengthNext /\ left = r
  /\ c \in {OPEN_FILE, CHANGE_DIR} => IF lengthNext THEN left + 2 = r ELSE left = r
  /\ c \in {DELETE_FILE, DELETE_DIR} => IF lengthNext THEN left + 1 = r
                                                      ELSE left = Letter /\ r = 0
  /\ c = WRITE_FILE => ~lengthNext /\ left > 0 /\ r = 0

Unread(c, m) ==
  /\ firmware = "idle" /\ queue # << >>
  /\ Head(queue) = [value |-> c, isCommand |-> TRUE]
  /\ EndsWith(Tail(queue), c, m) /\ Len(Tail(queue)) + m = Len(ArgumentsSent(c))

Collecting(c, m) ==
  /\ firmware = "arguments" /\ command = c /\ argsOk
  /\ EndsWith(queue, c, m) /\ Due(c, Len(queue) + m)

InCommand(c, m) == c \in Commands /\ (Unread(c, m) \/ Collecting(c, m))

\* The handler has given up waiting; or it has shown its status.
TimedOut(c) ==
  firmware = "arguments" /\ command = c /\ ~argsOk /\ left = 0 /\ ~lengthNext /\ queue = << >>
Served(c) ==
  firmware = "answered" /\ command = c /\ answeredBy = c /\ queue = << >> /\ (c = WRITE_FILE => ~argsOk)

Rested == firmware \in {"idle", "answered"} /\ queue = << >>
Calling == Len(outbox) > Len(ArgumentsSent(call))

LEMMA RestOfTail ==
  ASSUME NEW q \in Seq(Received), q # << >>, NEW c \in Commands, NEW m, EndsWith(q, c, m)
  PROVE  /\ EndsWith(Tail(q), c, m)
         /\ Head(q).value = ArgumentsSent(c)[Len(ArgumentsSent(c)) - m - Len(q) + 1]
<1>1. Len(q) \in Nat /\ Len(ArgumentsSent(c)) \in Nat
  BY Sent, LenProperties
<1>2. Len(Tail(q)) = Len(q) - 1 /\ \A i \in 1 .. Len(q) - 1 : Tail(q)[i] = q[i + 1]
  BY HeadTailProperties
<1>3. Len(q) >= 1 /\ Head(q) = q[1]
  BY <1>1, EmptySeq
<1>4. m \in Nat /\ Len(q) + m <= Len(ArgumentsSent(c))
      /\ \A i \in 1 .. Len(q) :
           q[i].value = ArgumentsSent(c)[Len(ArgumentsSent(c)) - m - Len(q) + i]
  BY DEF EndsWith
<1>5. Head(q).value = ArgumentsSent(c)[Len(ArgumentsSent(c)) - m - Len(q) + 1]
  BY <1>1, <1>3, <1>4
<1>6. ASSUME NEW i \in 1 .. Len(Tail(q))
      PROVE  Tail(q)[i].value = ArgumentsSent(c)[Len(ArgumentsSent(c)) - m - Len(Tail(q)) + i]
  <2>1. i + 1 \in 1 .. Len(q) /\ Tail(q)[i] = q[i + 1]
    BY <1>1, <1>2, <1>6
  <2>2. q[i + 1].value = ArgumentsSent(c)[Len(ArgumentsSent(c)) - m - Len(q) + (i + 1)]
    BY <1>4, <2>1
  <2>3. Len(ArgumentsSent(c)) - m - Len(q) + (i + 1)
          = Len(ArgumentsSent(c)) - m - Len(Tail(q)) + i
    BY <1>1, <1>2, <1>4
  <2> QED BY <2>1, <2>2, <2>3
<1>7. Len(Tail(q)) + m <= Len(ArgumentsSent(c))
  BY <1>1, <1>2, <1>3, <1>4
<1> QED BY <1>4, <1>5, <1>6, <1>7 DEF EndsWith

LEMMA RestOfAppend ==
  ASSUME NEW q \in Seq(Received), NEW e \in Received, NEW c \in Commands, NEW m \in Nat \ {0},
         EndsWith(q, c, m), e.value = ArgumentsSent(c)[Len(ArgumentsSent(c)) - m + 1]
  PROVE  EndsWith(Append(q, e), c, m - 1)
<1>1. Len(q) \in Nat /\ Len(ArgumentsSent(c)) \in Nat
  BY Sent, LenProperties
<1>2. /\ Len(Append(q, e)) = Len(q) + 1
      /\ \A i \in 1 .. Len(q) : Append(q, e)[i] = q[i]
      /\ Append(q, e)[Len(q) + 1] = e
  BY AppendProperties
<1>3. Len(q) + m <= Len(ArgumentsSent(c))
      /\ \A i \in 1 .. Len(q) :
           q[i].value = ArgumentsSent(c)[Len(ArgumentsSent(c)) - m - Len(q) + i]
  BY DEF EndsWith
<1>4. ASSUME NEW i \in 1 .. Len(Append(q, e))
      PROVE  Append(q, e)[i].value
               = ArgumentsSent(c)[Len(ArgumentsSent(c)) - (m - 1) - Len(Append(q, e)) + i]
  <2>1. Len(ArgumentsSent(c)) - (m - 1) - Len(Append(q, e)) + i
          = Len(ArgumentsSent(c)) - m - Len(q) + i
    BY <1>1, <1>2
  <2>2. CASE i = Len(q) + 1
    <3>1. Len(ArgumentsSent(c)) - m - Len(q) + i = Len(ArgumentsSent(c)) - m + 1
      BY <1>1, <2>2
    <3> QED BY <1>2, <2>1, <2>2, <3>1
  <2>3. CASE i \in 1 .. Len(q)
    BY <1>2, <1>3, <2>1, <2>3
  <2> QED BY <1>1, <1>2, <2>2, <2>3
<1>5. m - 1 \in Nat /\ Len(Append(q, e)) + (m - 1) <= Len(ArgumentsSent(c))
  BY <1>1, <1>2, <1>3
<1> QED BY <1>4, <1>5 DEF EndsWith

LEMMA TailOfAppend ==
  ASSUME NEW q \in Seq(Received), q # << >>, NEW e \in Received
  PROVE  Head(Append(q, e)) = Head(q) /\ Tail(Append(q, e)) = Append(Tail(q), e)
<1>1. Len(q) \in Nat \ {0}
  BY EmptySeq
<1>2. Append(q, e) \in Seq(Received) /\ Append(q, e) # << >> /\ Len(Append(q, e)) = Len(q) + 1
      /\ (\A i \in 1 .. Len(q) : Append(q, e)[i] = q[i]) /\ Append(q, e)[Len(q) + 1] = e
  BY AppendProperties
<1>3. Tail(q) \in Seq(Received) /\ Len(Tail(q)) = Len(q) - 1
      /\ \A i \in 1 .. Len(q) - 1 : Tail(q)[i] = q[i + 1]
  BY HeadTailProperties
<1>4. Append(Tail(q), e) \in Seq(Received) /\ Len(Append(Tail(q), e)) = Len(q)
      /\ (\A i \in 1 .. Len(q) - 1 : Append(Tail(q), e)[i] = Tail(q)[i])
      /\ Append(Tail(q), e)[Len(q)] = e
  BY <1>1, <1>3, AppendProperties
<1>5. Tail(Append(q, e)) \in Seq(Received) /\ Len(Tail(Append(q, e))) = Len(q)
      /\ \A i \in 1 .. Len(q) : Tail(Append(q, e))[i] = Append(q, e)[i + 1]
  BY <1>1, <1>2, HeadTailProperties
<1>6. ASSUME NEW i \in 1 .. Len(q)
      PROVE  Tail(Append(q, e))[i] = Append(Tail(q), e)[i]
  <2>1. Tail(Append(q, e))[i] = Append(q, e)[i + 1]
    BY <1>5
  <2>2. CASE i = Len(q)
    BY <1>2, <1>4, <2>1, <2>2
  <2>3. CASE i \in 1 .. Len(q) - 1
    <3>1. i + 1 \in 1 .. Len(q)
      BY <1>1, <2>3
    <3> QED BY <1>2, <1>3, <1>4, <2>1, <2>3, <3>1
  <2> QED BY <1>1, <2>2, <2>3
<1>7. Tail(Append(q, e)) = Append(Tail(q), e)
  BY <1>4, <1>5, <1>6, SeqEqual
<1> QED BY <1>1, <1>2, <1>7

LEMMA Kinds ==
  /\ Commands = Plain \cup {OPEN_FILE, CHANGE_DIR, DELETE_FILE, DELETE_DIR, WRITE_FILE}
  /\ \A c \in Plain : c \notin {OPEN_FILE, CHANGE_DIR, DELETE_FILE, DELETE_DIR, WRITE_FILE}
  /\ \A c \in {OPEN_FILE, CHANGE_DIR} :
       c \notin {DELETE_FILE, DELETE_DIR, WRITE_FILE} /\ c \in Dynamic
  /\ \A c \in {DELETE_FILE, DELETE_DIR} :
       c \notin {OPEN_FILE, CHANGE_DIR, WRITE_FILE} /\ c \in Dynamic
  /\ WRITE_FILE \notin {OPEN_FILE, CHANGE_DIR, DELETE_FILE, DELETE_DIR} \cup Dynamic
  /\ CHANGE_DIR # OPEN_FILE
BY DEF Plain, Named, Dynamic, Commands, READ_FILE, OPEN_FILE, CLOSE_FILE,
       WRITE_FILE, DELETE_FILE, SEEK_FILE, LONG_SEEK_FILE, GET_INFO_FOR_FILE, GET_PATH,
       READ_DIR, CHANGE_DIR, DELETE_DIR, CHANGE_DIR_INDEX, GET_MEMORY_STATUS

\* The first thing a handler waits for is what was sent.
LEMMA DueAtFirst ==
  ASSUME NEW c \in Commands, left' = StaticArguments(c), lengthNext' <=> c \in Dynamic,
         NEW r, r = Len(ArgumentsSent(c))
  PROVE  Due(c, r)'
<1>1. CASE c \in Plain
  BY <1>1, Sent, Kinds DEF Due
<1>2. CASE c \in {OPEN_FILE, CHANGE_DIR}
  <2>1. Due(c, r)' <=> IF lengthNext' THEN left' + 2 = r ELSE left' = r
    BY <1>2, Kinds DEF Due
  <2>2. lengthNext'
    BY <1>2, Kinds
  <2>3. left' + 2 = r
    <3>1. CASE c = OPEN_FILE
      <4>1. Len(ArgumentsSent(c)) = 3 /\ StaticArguments(c) = 1
        BY <3>1, Sent
      <4> QED BY <4>1
    <3>2. CASE c = CHANGE_DIR
      <4>1. Len(ArgumentsSent(c)) = 2 /\ StaticArguments(c) = 0
        BY <3>2, Sent DEF Named
      <4> QED BY <4>1
    <3> QED BY <1>2, <3>1, <3>2
  <2> QED BY <2>1, <2>2, <2>3
<1>3. CASE c \in {DELETE_FILE, DELETE_DIR}
  <2>1. Due(c, r)' <=> IF lengthNext' THEN left' + 1 = r ELSE left' = Letter /\ r = 0
    BY <1>3, Kinds DEF Due
  <2>2. lengthNext'
    BY <1>3, Kinds
  <2>3. left' + 1 = r
    <3>1. Len(ArgumentsSent(c)) = 2 /\ StaticArguments(c) = 1
      BY <1>3, Sent DEF Named
    <3> QED BY <3>1
  <2> QED BY <2>1, <2>2, <2>3
<1>4. CASE c = WRITE_FILE
  <2>1. Due(c, r)' <=> ~lengthNext' /\ left' > 0 /\ r = 0
    BY <1>4, Kinds DEF Due
  <2>2. ~lengthNext'
    BY <1>4, Kinds
  <2>3. left' > 0 /\ r = 0
    BY <1>4, Sent, Numbers
  <2> QED BY <2>1, <2>2, <2>3
<1> QED BY <1>1, <1>2, <1>3, <1>4, Kinds

\* An argument is read: the handler waits for one less, or for what a length says.
LEMMA DueNext ==
  ASSUME NEW c \in Commands, NEW r \in Nat, r > 0, r <= Len(ArgumentsSent(c)), Due(c, r),
         left \in Nat, lengthNext \in BOOLEAN, left > 0 \/ lengthNext,
         NEW v, v = ArgumentsSent(c)[Len(ArgumentsSent(c)) - r + 1],
         lengthNext' <=> lengthNext /\ left # 0,
         left' = IF left # 0 THEN left - 1
                 ELSE IF v > MAX_ARGUMENTS_LENGTH - 1 THEN 0 ELSE v
  PROVE  Due(c, r - 1)' /\ (left = 0 => v <= MAX_ARGUMENTS_LENGTH - 1)
<1>1. CASE c \in Plain
  <2>1. ~lengthNext /\ left = r
    BY <1>1 DEF Due
  <2>2. ~lengthNext' /\ left' = r - 1
    BY <2>1
  <2> QED BY <1>1, <2>1, <2>2, Kinds DEF Due
<1>2. CASE c \in {OPEN_FILE, CHANGE_DIR}
  <2>1. /\ Due(c, r) <=> IF lengthNext THEN left + 2 = r ELSE left = r
        /\ Due(c, r - 1)' <=> IF lengthNext' THEN left' + 2 = r - 1 ELSE left' = r - 1
    BY <1>2, Kinds DEF Due
  <2>2. CASE left # 0
    <3>1. left' = left - 1 /\ (lengthNext' <=> lengthNext)
      BY <2>2
    <3> QED BY <2>1, <2>2, <3>1
  <2>3. CASE left = 0
    <3>1. r = 2
      BY <2>1, <2>3
    <3>2. v = 1
      <4>1. CASE c = OPEN_FILE
        <5>1. Len(ArgumentsSent(c)) = 3 /\ ArgumentsSent(c)[2] = 1
          BY <4>1, Sent
        <5> QED BY <3>1, <5>1
      <4>2. CASE c = CHANGE_DIR
        <5>1. Len(ArgumentsSent(c)) = 2 /\ ArgumentsSent(c)[1] = 1
          BY <4>2, Sent DEF Named
        <5> QED BY <3>1, <5>1
      <4> QED BY <1>2, <4>1, <4>2
    <3>3. ~lengthNext' /\ left' = 1
      BY <2>3, <3>2 DEF MAX_ARGUMENTS_LENGTH
    <3> QED BY <2>1, <3>1, <3>2, <3>3 DEF MAX_ARGUMENTS_LENGTH
  <2> QED BY <2>2, <2>3
<1>3. CASE c \in {DELETE_FILE, DELETE_DIR}
  <2>1. /\ Due(c, r) <=> IF lengthNext THEN left + 1 = r ELSE left = Letter /\ r = 0
        /\ Due(c, r - 1)' <=> IF lengthNext' THEN left' + 1 = r - 1
                                              ELSE left' = Letter /\ r - 1 = 0
    BY <1>3, Kinds DEF Due
  <2>2. lengthNext /\ left + 1 = r
    BY <2>1
  <2>3. CASE left # 0
    <3>1. left' = left - 1 /\ lengthNext'
      BY <2>2, <2>3
    <3> QED BY <2>1, <2>2, <2>3, <3>1
  <2>4. CASE left = 0
    <3>1. r = 1
      BY <2>2, <2>4
    <3>2. v = Letter
      <4>1. Len(ArgumentsSent(c)) = 2 /\ ArgumentsSent(c)[2] = Letter
        BY <1>3, Sent DEF Named
      <4> QED BY <3>1, <4>1
    <3>3. ~lengthNext' /\ left' = Letter
      BY <2>4, <3>2 DEF MAX_ARGUMENTS_LENGTH, Letter
    <3> QED BY <2>1, <3>1, <3>2, <3>3 DEF MAX_ARGUMENTS_LENGTH, Letter
  <2> QED BY <2>3, <2>4
<1>4. CASE c = WRITE_FILE
  BY <1>4 DEF Due
<1> QED BY <1>1, <1>2, <1>3, <1>4, Kinds

\* A handler that has all it waits for has read all that is sent.
LEMMA DueDone ==
  ASSUME NEW c \in Commands, NEW r \in Nat, Due(c, r), left = 0, ~lengthNext
  PROVE  r = 0 /\ c # WRITE_FILE
BY Kinds DEF Due, Letter

\* And if its arguments fit, it then waits for nothing.
LEMMA DueFitting ==
  ASSUME NEW c \in Fitting, Due(c, 0), left \in Nat
  PROVE  left = 0 /\ ~lengthNext
BY Kinds DEF Due, Fitting

-----------------------------------------------------------------------------
(* The invariant.                                                           *)

LatchInv ==
  /\ page # "none" => firmware = "answered" \/ (firmware = "idle" /\ ~argsOk)
  /\ ~inSession => firmware = "idle" /\ queue = << >>
  /\ ~inSession /\ talking => ~argsOk
  /\ ~talking => c64 = "idle"

\* What the program sends.
CallInv ==
  /\ call \in program \cup {NoCommand}
  /\ c64 \in {"sending", "polling", "receiving", "astray"} => call \in Commands
  /\ c64 = "sending" =>
       LET sent == ArgumentsSent(call) IN
       IF Calling THEN outbox = <<call>> \o sent
       ELSE \A j \in 1 .. Len(outbox) : outbox[j] = sent[Len(sent) - Len(outbox) + j]

\* A program that has died left a command that will never be complete.
DeadInv ==
  inSession /\ ~talking =>
    /\ call = NoCommand
    /\ \/ \E c \in Commands, m \in Nat \ {0} : InCommand(c, m)
       \/ \E c \in Commands : TimedOut(c) \/ (Served(c) /\ ~argsOk)

LiveInv ==
  inSession /\ talking =>
    /\ c64 = "idle" => Rested
    /\ c64 = "sending" => IF Calling THEN Rested ELSE InCommand(call, Len(outbox))
    /\ c64 \in {"polling", "astray"} =>
         \/ InCommand(call, 0) \/ TimedOut(call) \/ Served(call)
         \/ firmware = "idle" /\ queue = << >> /\ argsOk
    /\ c64 = "receiving" => Served(call)
    /\ c64 = "fragment" => Served(WRITE_FILE)

Timely == program \subseteq Fitting /\ talking /\ firmware # "idle" => argsOk

ProtInv == LatchInv /\ CallInv /\ DeadInv /\ LiveInv /\ Timely

LEMMA ProtInit == Init => ProtInv
BY DEF Init, ProtInv, LatchInv, CallInv, DeadInv, LiveInv, Timely, Rested

\* The firmware takes a byte of the command that is on its way.
LEMMA Takes ==
  ASSUME TInv, NEW c, NEW m, InCommand(c, m), ReadCommand \/ ReadArgument
  PROVE  InCommand(c, m)'
<1>1. c \in Commands /\ queue \in Seq(Received) /\ queue # << >> /\ left \in Nat
      /\ lengthNext \in BOOLEAN /\ Len(ArgumentsSent(c)) \in Nat
  BY Sent, LenProperties
     DEF TInv, TypeOK, InCommand, Received, Byte, ReadCommand, ReadArgument
<1>2. Len(Tail(queue)) = Len(queue) - 1 /\ Len(queue) \in Nat \ {0}
  BY <1>1, HeadTailProperties, EmptySeq
<1>3. CASE ReadCommand
  <2>1. Unread(c, m)
    BY <1>3 DEF ReadCommand, InCommand, Collecting
  <2>2. Head(queue).value = c
    BY <2>1 DEF Unread
  <2>3. command' = c /\ queue' = Tail(queue) /\ firmware' = "arguments" /\ argsOk'
        /\ left' = StaticArguments(c) /\ (lengthNext' <=> c \in Dynamic)
    BY <1>3, <2>2 DEF ReadCommand
  <2>4. EndsWith(Tail(queue), c, m) /\ Len(Tail(queue)) + m = Len(ArgumentsSent(c))
    BY <2>1 DEF Unread
  <2>5. Due(c, Len(queue) + m)'
    <3>1. ASSUME NEW r, r = Len(ArgumentsSent(c)) PROVE Due(c, r)'
      BY <1>1, <2>3, <3>1, DueAtFirst
    <3>2. Len(queue') + m = Len(ArgumentsSent(c)) /\ m \in Nat
      BY <2>3, <2>4 DEF EndsWith
    <3> QED BY <2>3, <2>4, <3>1
  <2> QED BY <1>1, <2>3, <2>4, <2>5 DEF InCommand, Collecting
<1>4. CASE ReadArgument
  <2>1. Collecting(c, m)
    BY <1>4 DEF ReadArgument, InCommand, Unread
  <2> DEFINE v == Head(queue).value
  <2>2. command' = c /\ queue' = Tail(queue) /\ firmware' = "arguments"
        /\ (left > 0 \/ lengthNext)
    BY <1>4, <2>1 DEF ReadArgument, Collecting
  <2>3. (lengthNext' <=> lengthNext /\ left # 0)
        /\ left' = IF left # 0 THEN left - 1 ELSE IF v > MAX_ARGUMENTS_LENGTH - 1 THEN 0 ELSE v
    BY <1>4 DEF ReadArgument
  <2>4. argsOk' <=> (left = 0 => v <= MAX_ARGUMENTS_LENGTH - 1)
    BY <1>4 DEF ReadArgument
  <2>5. EndsWith(queue, c, m) /\ Due(c, Len(queue) + m) /\ m \in Nat
        /\ Len(queue) + m <= Len(ArgumentsSent(c))
    BY <2>1 DEF Collecting, EndsWith
  <2>6. EndsWith(Tail(queue), c, m)
        /\ v = ArgumentsSent(c)[Len(ArgumentsSent(c)) - m - Len(queue) + 1]
    BY <1>1, <2>5, RestOfTail
  <2> HIDE DEF v
  <2>7. ASSUME NEW r \in Nat, r = Len(queue) + m
        PROVE  Due(c, r - 1)' /\ (left = 0 => v <= MAX_ARGUMENTS_LENGTH - 1)
    <3>1. r > 0 /\ r <= Len(ArgumentsSent(c)) /\ Due(c, r)
      BY <1>2, <2>5, <2>7
    <3>2. v = ArgumentsSent(c)[Len(ArgumentsSent(c)) - r + 1]
      <4>1. Len(ArgumentsSent(c)) - r + 1 = Len(ArgumentsSent(c)) - m - Len(queue) + 1
        BY <1>1, <1>2, <2>5, <2>7
      <4> QED BY <2>6, <4>1
    <3> QED BY <1>1, <2>2, <2>3, <3>1, <3>2, DueNext
  <2>8. Due(c, Len(queue) + m)' /\ argsOk'
    <3>1. Len(queue) + m \in Nat /\ (Len(queue) + m) - 1 = Len(queue') + m
      BY <1>2, <2>2, <2>5
    <3>2. ASSUME NEW r \in Nat, r = Len(queue) + m, NEW s, s = r - 1, s = Len(queue') + m
          PROVE  Due(c, s)'
      BY <2>7, <3>2
    <3> QED BY <2>2, <2>4, <2>7, <3>1, <3>2
  <2> QED BY <1>1, <2>2, <2>6, <2>8 DEF InCommand, Collecting
<1> QED BY <1>3, <1>4

\* One more byte of a command arrives.
LEMMA Arrives ==
  ASSUME queue \in Seq(Received), NEW c \in Commands, NEW m \in Nat \ {0}, InCommand(c, m),
         NEW byte \in Received, queue' = Append(queue, byte),
         byte.value = ArgumentsSent(c)[Len(ArgumentsSent(c)) - m + 1],
         UNCHANGED <<firmware, command, left, lengthNext, argsOk>>
  PROVE  InCommand(c, m - 1)'
<1>1. Len(ArgumentsSent(c)) \in Nat
  BY Sent, LenProperties
<1>2. CASE Unread(c, m)
  <2>1. queue # << >> /\ Head(queue) = [value |-> c, isCommand |-> TRUE]
        /\ EndsWith(Tail(queue), c, m) /\ Len(Tail(queue)) + m = Len(ArgumentsSent(c))
    BY <1>2 DEF Unread
  <2>2. Tail(queue) \in Seq(Received)
    BY <2>1, HeadTailProperties
  <2>3. queue' # << >> /\ Head(queue') = Head(queue) /\ Tail(queue') = Append(Tail(queue), byte)
    BY <2>1, TailOfAppend, AppendProperties
  <2>4. EndsWith(Append(Tail(queue), byte), c, m - 1)
    BY <2>1, <2>2, RestOfAppend
  <2>5. Len(Append(Tail(queue), byte)) = Len(Tail(queue)) + 1 /\ Len(Tail(queue)) \in Nat
    BY <2>2, AppendProperties, LenProperties
  <2>6. Len(Tail(queue')) + (m - 1) = Len(ArgumentsSent(c))
    <3>1. Len(Tail(queue')) = Len(Tail(queue)) + 1
      BY <2>3, <2>5
    <3>2. ASSUME NEW a \in Nat, NEW n \in Nat, a + m = n PROVE (a + 1) + (m - 1) = n
      BY <3>2
    <3> QED BY <1>1, <2>1, <2>5, <3>1, <3>2
  <2>7. firmware' = "idle"
    BY <1>2 DEF Unread
  <2> QED BY <2>1, <2>3, <2>4, <2>6, <2>7 DEF InCommand, Unread
<1>3. CASE Collecting(c, m)
  <2>1. EndsWith(queue, c, m) /\ Due(c, Len(queue) + m)
    BY <1>3 DEF Collecting
  <2>2. EndsWith(queue', c, m - 1)
    BY <2>1, RestOfAppend
  <2>3. Len(queue') + (m - 1) = Len(queue) + m
    <3>1. Len(queue') = Len(queue) + 1 /\ Len(queue) \in Nat
      BY AppendProperties, LenProperties
    <3> QED BY <3>1
  <2>4. ASSUME NEW r, Due(c, r) PROVE Due(c, r)'
    BY <2>4 DEF Due
  <2>5. ASSUME NEW r, r = Len(queue) + m, r = Len(queue') + (m - 1)
        PROVE  Due(c, r)'
    BY <2>1, <2>4, <2>5
  <2>6. Due(c, Len(queue) + (m - 1))'
    BY <2>3, <2>5
  <2> QED BY <1>3, <2>2, <2>6 DEF InCommand, Collecting
<1> QED BY <1>2, <1>3 DEF InCommand

\* The library sends a byte of a command.
LEMMA Sends ==
  ASSUME TInv, LatchInv, CallInv, LiveInv, SendByte
  PROVE  CallInv' /\ LiveInv'
<1> DEFINE sent == ArgumentsSent(call)
           byte == [value |-> Head(outbox), isCommand |-> c64 = "sending"
                                                          /\ Len(outbox) = 1 + Len(sent)]
<1>1. outbox \in Seq(Byte) /\ outbox # << >> /\ queue \in Seq(Received)
      /\ talking /\ firmware # "answered" /\ c64 \in {"sending", "fragment"}
      /\ outbox' = Tail(outbox) /\ queue' = (IF inSession THEN Append(queue, byte) ELSE queue)
      /\ UNCHANGED <<program, talking, call, inSession, firmware, command, left, lengthNext,
                     argsOk>>
  BY DEF SendByte, TInv, TypeOK, LatchInv, Byte, Received, argVars
<1>2. Len(outbox) \in Nat \ {0} /\ Head(outbox) \in Byte /\ Head(outbox) = outbox[1]
      /\ Tail(outbox) \in Seq(Byte) /\ Len(Tail(outbox)) = Len(outbox) - 1
      /\ \A i \in 1 .. Len(outbox) - 1 : Tail(outbox)[i] = outbox[i + 1]
  BY <1>1, HeadTailProperties, EmptySeq
<1>3. byte \in Received
  BY <1>2 DEF Received
<1>4. CASE c64 = "fragment"
  <2>1. ~inSession
    BY <1>1, <1>4 DEF LiveInv, Served
  <2>2. c64' \in {"fragment", "idle"}
    BY <1>4 DEF SendByte
  <2> QED BY <1>1, <2>1, <2>2 DEF CallInv, LiveInv
<1>5. CASE c64 = "sending" /\ Calling
  <2>1. call \in Commands /\ outbox = <<call>> \o sent /\ sent \in Seq(Byte)
    BY <1>5, Sent DEF CallInv
  <2>2. Len(sent) \in Nat /\ <<call>> \in Seq(Byte) /\ Len(<<call>>) = 1 /\ <<call>>[1] = call
    BY <2>1, Numbers, LenProperties
  <2>3. Len(outbox) = 1 + Len(sent) /\ outbox[1] = call
        /\ \A i \in 1 .. Len(sent) : outbox[i + 1] = sent[i]
    <3> HIDE DEF sent
    <3>1. Len(outbox) = 1 + Len(sent)
          /\ \A i \in 1 .. 1 + Len(sent) : outbox[i] = IF i <= 1 THEN <<call>>[i] ELSE sent[i - 1]
      BY <2>1, <2>2, ConcatProperties
    <3>2. ASSUME NEW i \in 1 .. Len(sent) PROVE outbox[i + 1] = sent[i]
      BY <2>2, <3>1
    <3> QED BY <2>2, <3>1, <3>2
  <2>4. outbox' = sent
    <3>1. \A i \in 1 .. Len(Tail(outbox)) : Tail(outbox)[i] = sent[i]
      BY <1>2, <2>2, <2>3
    <3>2. Len(Tail(outbox)) = Len(sent)
      BY <1>2, <2>2, <2>3
    <3> QED BY <1>1, <1>2, <2>1, <3>1, <3>2, SeqEqual
  <2>5. byte = [value |-> call, isCommand |-> TRUE]
    BY <1>2, <1>5, <2>3
  <2>6. inSession => Unread(call, Len(sent))'
    <3> SUFFICES ASSUME inSession PROVE Unread(call, Len(sent))'
      OBVIOUS
    <3>1. firmware = "idle" /\ queue = << >>
      BY <1>1, <1>5 DEF LiveInv, Rested
    <3>2. queue' = Append(<< >>, byte)
      BY <1>1, <3>1
    <3> HIDE DEF byte, sent
    <3>3. queue' = <<byte>> /\ queue' # << >> /\ Head(queue') = byte /\ Tail(queue') = << >>
      BY <3>2
    <3>4. EndsWith(<< >>, call, Len(sent))
      BY <2>2, EmptySeq DEF EndsWith, sent
    <3> QED BY <1>1, <2>2, <2>5, <3>1, <3>3, <3>4, EmptySeq DEF Unread, sent
  <2>7. ~Calling' /\ c64' = (IF Len(sent) > 0 THEN "sending" ELSE "polling")
    <3> HIDE DEF sent
    <3>1. c64' = (IF Len(sent) > 0 THEN "sending" ELSE "polling")
      BY <1>5, <2>2, <2>3 DEF SendByte
    <3>2. Len(outbox') = Len(sent)
      BY <2>4
    <3> QED BY <1>1, <2>2, <3>1, <3>2 DEF Calling, sent
  <2>8. CallInv'
    <3>1. \A j \in 1 .. Len(outbox') : outbox'[j] = sent[Len(sent) - Len(outbox') + j]
      <4> HIDE DEF sent
      <4> QED BY <2>2, <2>4
    <3> QED BY <1>1, <2>1, <2>7, <3>1 DEF CallInv
  <2>9. LiveInv'
    <3>1. c64' = "sending" => Len(outbox') = Len(sent)
      BY <2>4
    <3>2. c64' = "polling" => Len(sent) = 0
      BY <2>2, <2>7
    <3> QED BY <1>1, <2>1, <2>6, <2>7, <3>1, <3>2 DEF LiveInv, InCommand
  <2> QED BY <2>8, <2>9
<1>6. CASE c64 = "sending" /\ ~Calling
  <2> DEFINE m == Len(outbox)
  <2>1. call \in Commands /\ sent \in Seq(Byte) /\ Len(sent) \in Nat /\ m \in 1 .. Len(sent)
        /\ \A j \in 1 .. m : outbox[j] = sent[Len(sent) - m + j]
    <3>1. call \in Commands /\ sent \in Seq(Byte)
      BY <1>6, Sent DEF CallInv
    <3>2. Len(sent) \in Nat
      BY <3>1, LenProperties
    <3> QED BY <1>2, <1>6, <3>1, <3>2 DEF CallInv, Calling
  <2>2. byte.value = sent[Len(sent) - m + 1]
    <3>1. byte.value = Head(outbox)
      OBVIOUS
    <3> HIDE DEF sent, byte
    <3> QED BY <1>2, <2>1, <3>1
  <2>3. ASSUME NEW c, c = call, NEW k, k = m, inSession
        PROVE  InCommand(c, k - 1)'
    <3>1. InCommand(c, k) /\ queue' = Append(queue, byte)
      BY <1>1, <1>6, <2>3 DEF LiveInv
    <3>2. c \in Commands /\ k \in Nat \ {0}
          /\ byte.value = ArgumentsSent(c)[Len(ArgumentsSent(c)) - k + 1]
      BY <2>1, <2>2, <2>3
    <3> HIDE DEF byte
    <3> QED BY <1>1, <1>3, <3>1, <3>2, Arrives
  <2>4. c64' = (IF m > 1 THEN "sending" ELSE "polling") /\ Len(outbox') = m - 1
    BY <1>1, <1>2, <1>6 DEF SendByte
  <2>5. ~Calling'
    <3>1. ~(Len(outbox') > Len(sent))
      <4> HIDE DEF sent
      <4> QED BY <2>1, <2>4
    <3> QED BY <1>1, <3>1 DEF Calling
  <2>6. CallInv'
    <3>1. ASSUME NEW j \in 1 .. Len(outbox')
          PROVE  outbox'[j] = sent[Len(sent) - Len(outbox') + j]
      <4>1. j \in 1 .. Len(outbox) - 1 /\ j + 1 \in 1 .. m
        BY <1>2, <2>4, <3>1
      <4>2. outbox'[j] = outbox[j + 1]
        BY <1>1, <1>2, <4>1
      <4>3. Len(sent) - m + (j + 1) = Len(sent) - Len(outbox') + j
        BY <2>1, <2>4, <3>1
      <4> HIDE DEF sent
      <4> QED BY <2>1, <4>1, <4>2, <4>3
    <3> QED BY <1>1, <2>1, <2>4, <2>5, <3>1 DEF CallInv
  <2>7. LiveInv'
    <3>1. c64' = "polling" => m - 1 = 0
      BY <2>1, <2>4
    <3>2. inSession => InCommand(call, Len(outbox))'
      BY <1>1, <2>3, <2>4
    <3>3. inSession /\ m - 1 = 0 => InCommand(call, 0)'
      BY <1>1, <2>3
    <3> QED BY <1>1, <2>4, <2>5, <3>1, <3>2, <3>3 DEF LiveInv
  <2> QED BY <2>6, <2>7
<1> QED BY <1>1, <1>4, <1>5, <1>6

\* What a program in a session finds in the latch is the answer to its call, unless it
\* looks before the command is read.
LEMMA OwnAnswer ==
  ASSUME TInv, LatchInv, LiveInv, talking, inSession, c64 = "polling", Seen # "none", ~TooEarly
  PROVE  Served(call)
<1>1. page # "none" /\ (firmware = "answered" \/ (firmware = "idle" /\ ~argsOk))
  BY DEF LatchInv, Seen
<1>2. firmware = "idle" => queue = << >>
  BY DEF TooEarly
<1> QED BY <1>1, <1>2 DEF LiveInv, InCommand, Unread, Collecting, TimedOut

LEMMA ProtStep ==
  ASSUME TInv, ProtInv, [Next]_vars
  PROVE  ProtInv'
<1> USE DEF ProtInv
<1>1. \A p \in Programs : p \subseteq Commands
  BY Numbers
\* Nothing else changes what is sent and where the command is.
<1>2. ASSUME NEW c, NEW m,
             UNCHANGED <<queue, firmware, command, answeredBy, left, lengthNext, argsOk>>
      PROVE  /\ InCommand(c, m) => InCommand(c, m)'
             /\ TimedOut(c) => TimedOut(c)'
             /\ Served(c) => Served(c)'
  BY <1>2 DEF InCommand, Unread, Collecting, Due, TimedOut, Served
<1>3. CASE StartTalking
  <2>1. LiveInv'
    BY <1>3 DEF StartTalking, LatchInv, LiveInv, Rested
  <2>2. Timely' /\ DeadInv'
    BY <1>3 DEF StartTalking, Timely, DeadInv, argVars
  <2>3. CallInv'
    BY <1>3 DEF StartTalking, LatchInv, CallInv, TInv, TypeOK, Calling
  <2> QED BY <1>3, <2>1, <2>2, <2>3 DEF StartTalking, LatchInv, argVars
<1>4. ASSUME NEW c \in program, Call(c)
      PROVE  ProtInv'
  <2>1. c \in Commands /\ Len(<<c>> \o ArgumentsSent(c)) > Len(ArgumentsSent(c))
    <3>1. c \in Commands /\ ArgumentsSent(c) \in Seq(Byte)
      BY <1>1, Sent DEF TInv, TypeOK
    <3>2. <<c>> \in Seq(Byte) /\ Len(<<c>>) = 1 /\ Len(ArgumentsSent(c)) \in Nat
      BY <3>1, Numbers, LenProperties
    <3>3. Len(<<c>> \o ArgumentsSent(c)) = 1 + Len(ArgumentsSent(c))
      BY <3>1, <3>2, ConcatProperties
    <3> QED BY <3>1, <3>2, <3>3
  <2>2. call' = c /\ outbox' = <<c>> \o ArgumentsSent(c) /\ c64' = "sending" /\ c64 = "idle"
        /\ UNCHANGED <<program, talking, page, inSession, queue, firmware, argsOk>>
        /\ talking /\ answeredBy' = NoCommand
    BY <1>4 DEF Call, argVars
  <2>3. Calling'
    BY <2>1, <2>2 DEF Calling
  <2>4. LatchInv' /\ DeadInv' /\ Timely'
    BY <2>2 DEF LatchInv, DeadInv, Timely
  <2>5. CallInv' /\ LiveInv'
    BY <2>1, <2>2, <2>3 DEF CallInv, LiveInv, Rested
  <2> QED BY <2>4, <2>5
<1>5. CASE SendByte
  <2>1. talking /\ UNCHANGED <<program, talking, call, answeredBy, page, inSession, firmware, argsOk>>
        /\ (~inSession => queue' = queue)
    BY <1>5 DEF SendByte, LatchInv, argVars
  <2>2. LatchInv' /\ DeadInv' /\ Timely'
    BY <2>1 DEF LatchInv, DeadInv, Timely
  <2> QED BY <1>5, <2>2, Sends
<1>6. CASE Poll
  <2>1. c64 = "polling" /\ Seen # "none"
        /\ UNCHANGED <<program, talking, call, page, answeredBy, inSession, queue, firmware,
                      command, left, lengthNext, argsOk>>
    BY <1>6 DEF Poll, argVars
  <2>2. talking /\ call \in Commands
    BY <2>1 DEF LatchInv, CallInv
  <2>3. LatchInv' /\ DeadInv' /\ Timely'
    BY <2>1, <2>2 DEF LatchInv, DeadInv, Timely
  <2>4. c64' \in {"astray", "idle", "receiving", "fragment"}
        /\ (c64' = "astray" <=> TooEarly) /\ (c64' = "fragment" => call = WRITE_FILE)
    BY <1>6 DEF Poll
  <2>5. CallInv'
    BY <2>1, <2>2, <2>4 DEF CallInv
  <2>6. CASE ~inSession \/ TooEarly
    <3>1. TooEarly => InCommand(call, 0) /\ inSession
      BY <2>1, <2>2 DEF TooEarly, LiveInv, TimedOut, Served
    <3>2. TooEarly => InCommand(call, 0)'
      BY <1>2, <2>1, <3>1
    <3> QED BY <2>1, <2>3, <2>4, <2>5, <2>6, <3>1, <3>2 DEF LiveInv
  <2>7. CASE inSession /\ ~TooEarly
    <3>1. Served(call)
      BY <2>1, <2>2, <2>7, OwnAnswer
    <3>2. Served(call)' /\ Rested'
      BY <1>2, <2>1, <3>1 DEF Served, Rested
    <3> QED BY <2>1, <2>2, <2>3, <2>4, <2>5, <2>7, <3>2 DEF LiveInv
  <2> QED BY <2>6, <2>7 DEF TInv, TypeOK
<1>7. CASE EndTalking
  BY <1>7 DEF EndTalking, LatchInv, CallInv, DeadInv, LiveInv, Timely, Calling
<1>8. CASE Crash
  <2>1. /\ c64 = "sending" /\ Len(outbox) <= Len(ArgumentsSent(call))
        /\ ~talking' /\ c64' = "idle" /\ call' = NoCommand
        /\ UNCHANGED <<page, answeredBy, inSession, queue, firmware, command, left, lengthNext,
                       argsOk>>
    BY <1>8 DEF Crash, argVars
  <2>2. talking /\ call \in Commands
    BY <2>1 DEF LatchInv, CallInv
  <2>3. Len(outbox) \in Nat \ {0} /\ Len(ArgumentsSent(call)) \in Nat
    BY <2>1, <2>2, Sent, EmptySeq, LenProperties DEF TInv, TypeOK, Byte
  <2>4. ~Calling
    BY <2>1, <2>3 DEF Calling
  <2>5. inSession => \E c \in Commands, m \in Nat \ {0} : InCommand(c, m)'
    <3>1. inSession => InCommand(call, Len(outbox))
      BY <2>1, <2>2, <2>4 DEF LiveInv
    <3> QED BY <1>2, <2>1, <2>2, <2>3, <3>1
  <2>6. DeadInv'
    BY <2>1, <2>5 DEF DeadInv
  <2> QED BY <2>1, <2>6 DEF LatchInv, CallInv, LiveInv, Timely
<1>9. CASE ReadCommand \/ ReadArgument
  <2>1. queue # << >> /\ inSession /\ firmware \in {"idle", "arguments"}
        /\ firmware' = "arguments" /\ page' = "none"
        /\ (firmware = "arguments" => left > 0 \/ lengthNext)
        /\ UNCHANGED <<program, talking, c64, call, outbox, answeredBy, inSession>>
    BY <1>9 DEF ReadCommand, ReadArgument, c64Vars, LatchInv
  <2>2. ASSUME NEW c PROVE ~TimedOut(c) /\ ~Served(c)
    BY <2>1 DEF TimedOut, Served, TInv, TypeOK
  <2>3. ASSUME NEW c, NEW m, InCommand(c, m) PROVE InCommand(c, m)' /\ argsOk'
    <3>1. InCommand(c, m)'
      BY <1>9, <2>3, Takes
    <3> QED BY <2>1, <3>1 DEF InCommand, Unread, Collecting
  <2>4. LatchInv' /\ CallInv'
    BY <2>1 DEF LatchInv, CallInv, Calling
  <2>5. CASE ~talking
    <3>1. PICK c \in Commands, m \in Nat \ {0} : InCommand(c, m)
      BY <2>1, <2>2, <2>5 DEF DeadInv
    <3>2. DeadInv'
      BY <2>1, <2>3, <2>5, <3>1 DEF DeadInv
    <3> QED BY <2>1, <2>4, <2>5, <3>2 DEF LiveInv, Timely
  <2>6. CASE talking
    <3>1. \/ c64 = "sending" /\ ~Calling /\ InCommand(call, Len(outbox))
          \/ c64 \in {"polling", "astray"} /\ InCommand(call, 0)
      BY <2>1, <2>2, <2>6 DEF LiveInv, Rested, TInv, TypeOK
    <3>2. argsOk' /\ (\/ c64 = "sending" /\ ~Calling /\ InCommand(call, Len(outbox))'
                      \/ c64 \in {"polling", "astray"} /\ InCommand(call, 0)')
      BY <2>1, <2>3, <3>1
    <3>3. LiveInv'
      BY <2>1, <3>2 DEF LiveInv, Calling
    <3> QED BY <2>1, <2>4, <2>6, <3>2, <3>3 DEF DeadInv, Timely
  <2> QED BY <2>5, <2>6 DEF TInv, TypeOK
<1>10. CASE ArgumentTimeout
  <2>1. firmware = "arguments" /\ firmware' = "arguments" /\ (left > 0 \/ lengthNext)
        /\ queue = << >> /\ c64 \notin {"sending", "fragment"} /\ ~argsOk' /\ left' = 0
        /\ ~lengthNext' /\ queue' = << >>
        /\ UNCHANGED <<program, talking, c64, call, outbox, answeredBy, inSession, page, command>>
    BY <1>10 DEF ArgumentTimeout, c64Vars
  <2>2. ASSUME NEW c PROVE ~TimedOut(c) /\ ~Served(c)
    BY <2>1 DEF TimedOut, Served, TInv, TypeOK
  <2>3. ASSUME NEW c, NEW m, InCommand(c, m)
        PROVE  TimedOut(c)' /\ c \in Commands /\ Due(c, Len(queue) + m)
    BY <2>1, <2>3 DEF InCommand, Unread, Collecting, TimedOut
  <2>4. inSession
    BY <2>1 DEF LatchInv
  <2>5. LatchInv' /\ CallInv'
    BY <2>1 DEF LatchInv, CallInv
  <2>6. CASE ~talking
    <3>1. PICK c \in Commands, m \in Nat \ {0} : InCommand(c, m)
      BY <2>2, <2>4, <2>6 DEF DeadInv
    <3>2. DeadInv'
      BY <2>1, <2>3, <2>6, <3>1 DEF DeadInv
    <3> QED BY <2>1, <2>5, <2>6, <3>2 DEF LiveInv, Timely
  <2>7. CASE talking
    <3>1. c64 \in {"polling", "astray"} /\ InCommand(call, 0)
      BY <2>1, <2>2, <2>4, <2>7 DEF LiveInv, Rested, TInv, TypeOK
    <3>2. TimedOut(call)'
      BY <2>1, <2>3, <3>1
    <3>3. LiveInv'
      BY <2>1, <3>1, <3>2 DEF LiveInv
    <3>4. ~(program \subseteq Fitting)
      <4> SUFFICES ASSUME program \subseteq Fitting PROVE FALSE
        OBVIOUS
      <4>1. call \in Fitting
        BY <2>7, <3>1, Numbers DEF CallInv
      <4>2. Due(call, 0)
        <5>1. Len(queue) + 0 = 0
          BY <2>1
        <5> QED BY <2>3, <3>1, <5>1
      <4> QED BY <2>1, <4>1, <4>2, DueFitting DEF TInv, TypeOK
    <3> QED BY <2>1, <2>5, <2>7, <3>3, <3>4 DEF DeadInv, Timely
  <2> QED BY <2>6, <2>7 DEF TInv, TypeOK
<1>11. CASE Handle
  <2>1. firmware = "arguments" /\ left = 0 /\ ~lengthNext /\ firmware' = "answered"
        /\ answeredBy' = command
        /\ UNCHANGED <<program, talking, c64, call, outbox, inSession, queue, command, argsOk>>
    BY <1>11 DEF Handle, Respond, c64Vars, argVars
  <2>2. ASSUME NEW c, NEW m, InCommand(c, m)
        PROVE  m = 0 /\ Served(c)' /\ argsOk
    <3>1. c \in Commands /\ command = c /\ argsOk /\ EndsWith(queue, c, m)
          /\ Due(c, Len(queue) + m) /\ m \in Nat
      BY <2>1, <2>2 DEF InCommand, Unread, Collecting, EndsWith
    <3>2. Len(queue) \in Nat /\ (queue # << >> => Len(queue) # 0)
      BY EmptySeq, LenProperties DEF TInv, TypeOK
    <3>3. Len(queue) + m = 0 /\ c # WRITE_FILE
      BY <2>1, <3>1, <3>2, DueDone
    <3>4. m = 0 /\ queue = << >>
      BY <3>1, <3>2, <3>3
    <3> QED BY <2>1, <3>1, <3>3, <3>4 DEF Served
  <2>3. ASSUME NEW c, TimedOut(c) PROVE Served(c)' /\ ~argsOk'
    BY <2>1, <2>3 DEF TimedOut, Served
  <2>4. ASSUME NEW c PROVE ~Served(c)
    BY <2>1 DEF Served
  <2>5. inSession
    BY <2>1 DEF LatchInv
  <2>6. LatchInv' /\ CallInv' /\ Timely'
    BY <2>1, <2>5 DEF LatchInv, CallInv, Timely, Calling
  <2>7. CASE ~talking
    <3>1. PICK c \in Commands : TimedOut(c)
      BY <2>2, <2>4, <2>5, <2>7 DEF DeadInv
    <3> QED BY <2>1, <2>3, <2>5, <2>6, <2>7, <3>1 DEF DeadInv, LiveInv
  <2>8. CASE talking
    <3>1. c64 \in {"polling", "astray"} /\ (InCommand(call, 0) \/ TimedOut(call))
      <4>1. c64 = "sending" => FALSE
        <5>1. c64 = "sending" => ~Calling /\ InCommand(call, Len(outbox))
          BY <2>1, <2>5, <2>8 DEF LiveInv, Rested
        <5>2. c64 = "sending" => Len(outbox) # 0
          BY EmptySeq DEF TInv, TypeOK
        <5> QED BY <2>2, <5>1, <5>2
      <4> QED BY <2>1, <2>4, <2>5, <2>8, <4>1 DEF LiveInv, Rested, TInv, TypeOK
    <3>2. Served(call)'
      BY <2>1, <2>2, <2>3, <3>1
    <3> QED BY <2>1, <2>6, <2>8, <3>1, <3>2 DEF DeadInv, LiveInv
  <2> QED BY <2>7, <2>8 DEF TInv, TypeOK
<1>12. CASE Finish
  <2>1. /\ firmware = "answered" /\ firmware' = "idle"
        /\ c64' = IF c64 = "receiving" THEN "idle" ELSE c64
        /\ \/ argsOk /\ page' = "none" /\ UNCHANGED <<inSession, queue>>
           \/ ~argsOk /\ ~inSession' /\ queue' = << >>
        /\ UNCHANGED <<program, talking, call, outbox, argsOk>>
    BY <1>12 DEF Finish, argVars
  <2>2. inSession
    BY <2>1 DEF LatchInv
  <2>3. ASSUME NEW c, NEW m PROVE ~InCommand(c, m) /\ ~TimedOut(c)
    BY <2>1 DEF InCommand, Unread, Collecting, TimedOut
  <2>4. LatchInv' /\ CallInv' /\ Timely'
    BY <2>1 DEF LatchInv, CallInv, Timely, Calling
  <2>5. CASE ~inSession'
    BY <2>4, <2>5 DEF DeadInv, LiveInv
  <2>6. CASE inSession'
    <3>1. argsOk /\ queue' = queue
      BY <2>1, <2>6
    <3>2. talking
      BY <2>2, <2>3, <3>1 DEF DeadInv
    <3>3. c64 \in {"idle", "sending", "polling", "receiving", "astray"} /\ queue = << >>
          /\ (c64 = "sending" => Calling)
      BY <2>2, <2>3, <3>1, <3>2 DEF LiveInv, Rested, Served, TInv, TypeOK
    <3>4. LiveInv'
      BY <2>1, <3>1, <3>3 DEF LiveInv, Rested, Calling
    <3> QED BY <2>1, <2>4, <3>2, <3>4 DEF DeadInv
  <2> QED BY <2>5, <2>6
<1>13. CASE UNCHANGED vars
  <2>1. UNCHANGED <<program, talking, c64, call, outbox, page, answeredBy, inSession, queue,
                    firmware, command, left, lengthNext, argsOk>>
    BY <1>13 DEF vars, c64Vars, argVars
  <2>2. LatchInv' /\ CallInv' /\ Timely'
    BY <2>1 DEF LatchInv, CallInv, Timely, Calling
  <2>3. ASSUME NEW c, NEW m
        PROVE  /\ InCommand(c, m) => InCommand(c, m)'
               /\ TimedOut(c) => TimedOut(c)'
               /\ Served(c) => Served(c)'
    BY <1>2, <2>1
  <2>4. DeadInv'
    BY <2>1, <2>3 DEF DeadInv
  <2>5. ASSUME NEW c, c = call, NEW m, m = Len(outbox)
        PROVE  InCommand(c, m) => InCommand(call, Len(outbox))'
    BY <2>1, <2>3, <2>5
  <2>6. LiveInv'
    BY <2>1, <2>3, <2>5 DEF LiveInv, Rested, Calling
  <2> QED BY <2>2, <2>4, <2>6
<1> QED BY <1>3, <1>4, <1>5, <1>6, <1>7, <1>8, <1>9, <1>10, <1>11, <1>12, <1>13
        DEF Next, Firmware, Program

LEMMA Invariant == Spec => [](TInv /\ ProtInv)
<1>1. TInv /\ ProtInv /\ [Next]_vars => TInv' /\ ProtInv'
  BY TypeStep, ProtStep
<1>2. Init => TInv /\ ProtInv
  BY TypeInit, ProtInit
<1> QED BY <1>1, <1>2, PTL DEF Spec

\* A program takes the status of the command it called, whichever commands programs
\* use and wherever they die, as long as the last command HandleApi has read got its
\* arguments or is still being handled.
THEOREM OwnStatusHolds == Spec => OwnStatus
<1> DEFINE Own == c64 = "polling" /\ c64' # "polling" /\ (argsOk \/ firmware # "idle")
                    => inSession /\ answeredBy = call
<1>1. ASSUME TInv, ProtInv, [Next]_vars
      PROVE  Own
  <2> SUFFICES ASSUME c64 = "polling", c64' # "polling", argsOk \/ firmware # "idle"
               PROVE  inSession /\ answeredBy = call
    OBVIOUS
  <2>1. Poll
    BY <1>1 DEF Next, Firmware, Program, StartTalking, Call, SendByte, EndTalking, Crash,
                ReadCommand, ReadArgument, ArgumentTimeout, Handle, Finish, vars, c64Vars
  <2>2. Seen # "none" /\ talking /\ inSession
    BY <1>1, <2>1 DEF Poll, ProtInv, LatchInv
  <2>3. ~TooEarly
    BY <1>1, <2>2 DEF TooEarly, Seen, ProtInv, LatchInv
  <2>4. Served(call)
    BY <1>1, <2>2, <2>3, OwnAnswer DEF ProtInv
  <2> QED BY <2>2, <2>4 DEF Served
<1>2. TInv /\ ProtInv /\ [Next]_vars => [Own]_vars
  BY <1>1
<1> QED BY <1>2, Invariant, PTL DEF Spec, OwnStatus

\* No argument is taken for a command, and no handler of a Fitting command times out
\* on a program that lives.
THEOREM FramedHolds == Spec => []Framed
<1>1. ASSUME TInv, ProtInv
      PROVE  Framed
  <2> SUFFICES ASSUME firmware = "idle", inSession, queue # << >>
      PROVE  Head(queue).isCommand
    BY <1>1 DEF Framed, ProtInv, Timely
  <2>1. ASSUME NEW c, NEW m, InCommand(c, m)
        PROVE  Head(queue).isCommand
    <3>1. Head(queue) = [value |-> c, isCommand |-> TRUE]
      BY <2>1 DEF InCommand, Unread, Collecting
    <3> QED BY <3>1
  <2>2. ASSUME NEW c PROVE ~TimedOut(c) /\ ~Served(c)
    BY DEF TimedOut, Served
  <2>3. CASE ~talking
    BY <1>1, <2>1, <2>2, <2>3 DEF ProtInv, DeadInv
  <2>4. CASE talking
    BY <1>1, <2>1, <2>2, <2>4 DEF ProtInv, LiveInv, Rested, TInv, TypeOK
  <2> QED BY <1>1, <2>3, <2>4 DEF TInv, TypeOK
<1> QED BY <1>1, Invariant, PTL

===============================================================================
