------------------------------- MODULE Button --------------------------------
(***************************************************************************)
(* The SEL button and the main loop that watches it (EasySD.ino).  The      *)
(* button is sampled between commands, its press is timed with milliseconds *)
(* that wrap, a short press transfers the menu, a long one resets the C64   *)
(* to BASIC, and the card is initialised at the start or at a later press.  *)
(*                                                                         *)
(* A tick is a millisecond.  The loop runs at least once in each, unless it *)
(* is busy with a command, a transfer or the card.                          *)
(***************************************************************************)
EXTENDS Integers

CONSTANTS Wrap,                         \* values of millis(), 2^32
          BUTTON_BOOT_GUARD_MS,         \* 500
          BUTTON_POST_ACTION_GUARD_MS,  \* 120
          BUTTON_DEBOUNCE_MS,           \* 12
          BUTTON_LONG_PRESS_MS,         \* 1000
          SEL_STABLE_MS,                \* 8
          Bounce,                       \* ticks the contact bounces
          MaxBusy                       \* ticks the loop may be busy at once

\* The guards after the start and after an action.
Guards == {BUTTON_BOOT_GUARD_MS, BUTTON_POST_ACTION_GUARD_MS}

\* The times are in the order of the code's, and all shorter than half the clock.
\* The contact bounces for less than SEL_STABLE_MS; for a tick at least, because a
\* change is seen at the next sample.
ASSUME ButtonAssumption ==
  /\ Wrap \in Nat /\ Wrap % 2 = 0
  /\ Guards \cup {BUTTON_DEBOUNCE_MS, BUTTON_LONG_PRESS_MS, SEL_STABLE_MS}
       \subseteq 1 .. (Wrap \div 2) - 1
  /\ Bounce \in 1 .. SEL_STABLE_MS - 1
  /\ SEL_STABLE_MS < BUTTON_DEBOUNCE_MS /\ BUTTON_DEBOUNCE_MS < BUTTON_LONG_PRESS_MS
  /\ Bounce <= BUTTON_POST_ACTION_GUARD_MS
  /\ BUTTON_POST_ACTION_GUARD_MS <= BUTTON_BOOT_GUARD_MS
  /\ MaxBusy \in Nat \ {0}

VARIABLES held,          \* the user holds the button
          settling,      \* ticks until its level is clean
          now,           \* millis()
          pc, busy,      \* where the loop is, and how long it stays there
          sampled,       \* the loop has run in this millisecond
          state, pressTimeMs, buttonEnableAtMs,
          selStableReleased, selCandidateReleased, selCandidateSinceMs,
          runtimeReady,
          owed,          \* history: presses that may still be acted upon
          length,        \* history: how long the watched press has lasted, or lasted
          watched,       \* history: the loop has watched all of it
          idle           \* history: ticks since buttonEnableAtMs was set

user == <<held, settling>>
clock == <<now, idle>>
loopVars == <<pc, busy, sampled>>
press == <<state, pressTimeMs>>
tracking == <<selStableReleased, selCandidateReleased, selCandidateSinceMs>>
history == <<owed, length, watched>>
buttonVars ==
  <<user, clock, loopVars, press, buttonEnableAtMs, tracking, runtimeReady, history>>

Millis == 0 .. Wrap - 1
Half == Wrap \div 2
LengthMax == BUTTON_LONG_PRESS_MS + 2 * SEL_STABLE_MS

\* Differences of unsigned longs, and the cast of one to long.
Elapsed(t) == (now - t) % Wrap
\* Mutant of Negative: the times themselves are compared.
NegativeDirect(t) == now < t
Negative(t) == Elapsed(t) >= Half

-----------------------------------------------------------------------------
(* The level of the pin, above, between and below the two thresholds.       *)

Levels == {"low", "middle", "high"}
Read == IF settling > 0 THEN Levels ELSE {IF held THEN "low" ELSE "high"}

\* analogRead and the two thresholds of serviceSelReleased.
IsReleased(level) ==
  IF selStableReleased THEN level # "low" ELSE level = "high"

IsStable == Elapsed(selCandidateSinceMs) >= SEL_STABLE_MS

serviceSelReleased(level) ==
  LET next == IsReleased(level) IN
  IF next # selCandidateReleased
  THEN /\ selCandidateReleased' = next /\ selCandidateSinceMs' = now
       /\ UNCHANGED selStableReleased
  ELSE /\ selStableReleased' =
            IF IsStable THEN selCandidateReleased ELSE selStableReleased
       /\ UNCHANGED <<selCandidateReleased, selCandidateSinceMs>>

\* Mutant of suppressButtonsFor: the end is kept in a wider type.
suppressButtonsForWide(ms) ==
  /\ buttonEnableAtMs' = now + ms /\ idle' = 0
  /\ state' = "none" /\ pressTimeMs' = 0
suppressButtonsFor(ms) ==
  /\ buttonEnableAtMs' = (now + ms) % Wrap /\ idle' = 0
  /\ state' = "none" /\ pressTimeMs' = 0

rearmSelTracking ==
  \E level \in Read :
    /\ selStableReleased' = (level = "high")
    /\ selCandidateReleased' = (level = "high")
    /\ selCandidateSinceMs' = now

-----------------------------------------------------------------------------
(* The user.                                                                *)

\* The loop is done with the last press: it has seen the button released.
Clear == state = "none" /\ selStableReleased /\ selCandidateReleased

\* A press that begins before the last is done with may be acted upon besides it.
Press ==
  /\ ~held /\ held' = TRUE /\ settling' = Bounce
  /\ owed' = IF Clear \/ owed = 0 THEN 1 ELSE 2
  /\ length' = 0 /\ watched' = Clear
  /\ UNCHANGED <<clock, loopVars, press, buttonEnableAtMs, tracking, runtimeReady>>

Release ==
  /\ held /\ held' = FALSE /\ settling' = Bounce
  /\ UNCHANGED <<clock, loopVars, press, buttonEnableAtMs, tracking, runtimeReady, history>>

-----------------------------------------------------------------------------
(* The loop.                                                                *)

\* After setup().
ButtonInit ==
  /\ held \in BOOLEAN /\ settling = 0 /\ now = 0
  /\ pc = "loop" /\ busy = 0 /\ sampled = FALSE
  /\ state = "none" /\ pressTimeMs = 0 /\ buttonEnableAtMs = BUTTON_BOOT_GUARD_MS
  /\ selStableReleased = ~held /\ selCandidateReleased = ~held /\ selCandidateSinceMs = 0
  /\ runtimeReady \in BOOLEAN
  /\ owed = (IF held THEN 1 ELSE 0) /\ length = 0 /\ watched = FALSE /\ idle = 0

HandleApiNext == IF runtimeReady THEN "api" ELSE "loop"

Suppressed ==
  /\ pc = "loop" /\ Negative(buttonEnableAtMs)
  /\ state' = "none" /\ pressTimeMs' = 0
  /\ pc' = HandleApiNext /\ sampled' = TRUE
  /\ UNCHANGED <<user, clock, busy, buttonEnableAtMs, tracking, runtimeReady, history>>

\* What a press of this length does.
ActionOf(ms) ==
  CASE ms < BUTTON_DEBOUNCE_MS -> "none"
    [] ms > BUTTON_LONG_PRESS_MS -> "basic"
    [] OTHER -> "menu"

\* Mutant of Released: a press need not have begun.
ReleasedAnyTime == selStableReleased'
Released == selStableReleased' /\ state = "pressed"

Pressed == ~selStableReleased' /\ state = "none"

Watch ==
  /\ pc = "loop" /\ ~Negative(buttonEnableAtMs)
  /\ \E level \in Read : serviceSelReleased(level)
  /\ \/ /\ Pressed /\ state' = "pressed" /\ pressTimeMs' = now /\ pc' = HandleApiNext
        /\ UNCHANGED <<busy, owed>>
     \/ /\ Released /\ state' = "none" /\ UNCHANGED pressTimeMs
        /\ LET action == ActionOf(Elapsed(pressTimeMs)) IN
           IF action = "none" THEN pc' = HandleApiNext /\ UNCHANGED <<busy, owed>>
           ELSE /\ pc' = action /\ busy' \in 1 .. MaxBusy
                /\ owed' = IF owed > 0 THEN owed - 1 ELSE 0
     \/ /\ ~Pressed /\ ~Released
        /\ pc' = HandleApiNext /\ UNCHANGED <<press, busy, owed>>
  /\ sampled' = TRUE
  /\ UNCHANGED <<user, clock, buttonEnableAtMs, runtimeReady, length, watched>>

\* ResetNoCartridge, or ensureRuntimeReady and TransferMenu; the card may be
\* missing.
Act ==
  /\ pc \in {"menu", "basic"} /\ busy = 0
  /\ runtimeReady' \in (IF pc = "menu" /\ ~runtimeReady THEN BOOLEAN ELSE {runtimeReady})
  /\ suppressButtonsFor(BUTTON_POST_ACTION_GUARD_MS) /\ rearmSelTracking
  /\ pc' = IF runtimeReady' THEN "api" ELSE "loop"
  /\ UNCHANGED <<user, now, busy, sampled, history>>

\* HandleApi finds nothing to do, or runs a command.
HandleApi ==
  /\ pc = "api"
  /\ \/ pc' = "loop" /\ UNCHANGED busy
     \/ pc' = "command" /\ busy' \in 1 .. MaxBusy
  /\ UNCHANGED <<user, clock, sampled, press, buttonEnableAtMs, tracking, runtimeReady,
                 history>>

CommandDone ==
  /\ pc = "command" /\ busy = 0 /\ pc' = "loop"
  /\ UNCHANGED <<user, clock, busy, sampled, press, buttonEnableAtMs, tracking,
                 runtimeReady, history>>

Loop == Suppressed \/ Watch \/ Act \/ HandleApi \/ CommandDone

Tick ==
  /\ (pc = "loop" /\ sampled) \/ busy > 0
  /\ now' = (now + 1) % Wrap
  /\ busy' = IF busy > 0 THEN busy - 1 ELSE 0
  /\ settling' = IF settling > 0 THEN settling - 1 ELSE 0
  /\ sampled' = FALSE
  /\ idle' = IF idle < Half THEN idle + 1 ELSE idle
  /\ watched' = (watched /\ pc = "loop"
                 /\ idle \in BUTTON_BOOT_GUARD_MS .. Half - 1)
  /\ length' = IF watched' /\ held /\ length < LengthMax THEN length + 1
               ELSE IF watched' THEN length ELSE 0
  /\ UNCHANGED <<held, pc, press, buttonEnableAtMs, tracking, runtimeReady, owed>>

ButtonNext == Press \/ Release \/ Loop \/ Tick

ButtonSpec == ButtonInit /\ [][ButtonNext]_buttonVars

-----------------------------------------------------------------------------
(* Properties.                                                              *)

\* Every variable holds values of its kind: times stay in the milliseconds of a
\* clock that wraps.
ButtonTypeOK ==
  /\ {held, sampled, selStableReleased, selCandidateReleased, runtimeReady, watched}
       \subseteq BOOLEAN
  /\ owed \in 0 .. 2 /\ settling \in 0 .. Bounce /\ busy \in 0 .. MaxBusy
  /\ {now, pressTimeMs, buttonEnableAtMs, selCandidateSinceMs} \subseteq Millis
  /\ pc \in {"loop", "api", "command", "menu", "basic"}
  /\ state \in {"none", "pressed"}
  /\ length \in 0 .. LengthMax /\ idle \in 0 .. Half

Acting == {"menu", "basic"}

\* Every action is of a press of its own: bounces, levels between the thresholds,
\* a press that begins during an action and the wrap of the clock cause none.  A
\* press the loop has watched does what its length says, up to the bounces: BASIC
\* for a long one, the menu for a short one, nothing for a touch.
ActsAsPressed ==
  [][pc \notin Acting /\ pc' \in Acting =>
       /\ owed > 0
       /\ watched =>
            /\ length >= BUTTON_DEBOUNCE_MS - Bounce
            /\ (pc' = "basic" => length > BUTTON_LONG_PRESS_MS - Bounce)
            /\ (pc' = "menu" => length <= BUTTON_LONG_PRESS_MS + Bounce)]_buttonVars

\* No watched press is lost: once the loop is done with a press that was long
\* enough, it has been acted upon, also while a session goes on, when the clock
\* wraps and when the action before it failed.
NoPressLost ==
  watched /\ Clear /\ sampled /\ length >= BUTTON_DEBOUNCE_MS + Bounce => owed = 0

=============================================================================
