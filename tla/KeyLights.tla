------------------------------ MODULE KeyLights ------------------------------
(***************************************************************************)
(* Which key the cat shows as pressed, on Windows, where the release of    *)
(* some keys is never reported and where only the key pressed last repeats *)
(* (core/device/mod.rs, useDevice.ts, keyAutoRelease.ts, keyHighlight.ts   *)
(* and the mapper of usePairActivity.ts): a key that has been quiet for a  *)
(* while is looked up in the system before it is taken for released.       *)
(*                                                                         *)
(* Abstractions.  Every key has a picture of its own and all of them are   *)
(* in one group.  Time goes in half seconds; an event is handled before    *)
(* time goes on, a question to the system may take until the next tick.    *)
(* CapsLock, which only flashes, is left out.                              *)
(***************************************************************************)
EXTENDS Naturals, Sequences, SequencesExt

CONSTANTS
  Keys,
  Delay,      \* autoReleaseDelay, in ticks
  MaxEvents   \* bound: events between two ticks

KeyAssumption == {Delay, MaxEvents} \subseteq Nat \ {0}

TicksPerSecond == 2
ProbeTicks == 1
Greater(x, y) == IF x > y THEN x ELSE y

\* RE_ARM_MIN_MS.
ReArm == Greater(Delay, TicksPerSecond)

\* handHoldLimitMs.
HoldLimit == Greater(Delay, TicksPerSecond) + TicksPerSecond

None == "none"
Old == HoldLimit + 1  \* where ages stop
Off == HoldLimit + 2  \* no timer, or not in the mapper

VARIABLES
  down,    \* keys that are down
  last,    \* the one that repeats
  pending, \* device-changed events
  quota,   \* how many more of them come before the next tick
  timer,   \* ticks until a key is asked about, Off without a timer
  probe,   \* the question that is out: none, asked, down, up
  waited,  \* ticks it has been out
  fresh,   \* no event has begun a new round since it was asked
  lit,     \* heldKeys, in the order in which they were pressed
  shown,   \* the key displayed
  age,     \* mapper: ticks since pressedAt, Off when the key is not in it
  sure     \* keys down ever since a press of theirs was handled, and no release was

system == <<down, last, pending, quota>>
display == <<lit, shown>>
vars == <<system, timer, probe, waited, fresh, display, age, sure>>

Init ==
  /\ down = {} /\ last = None /\ pending = <<>> /\ quota = MaxEvents
  /\ timer = [k \in Keys |-> Off]
  /\ probe = [k \in Keys |-> "none"] /\ waited = [k \in Keys |-> 0]
  /\ fresh = [k \in Keys |-> FALSE]
  /\ lit = <<>> /\ shown = None
  /\ age = [k \in Keys |-> Off]
  /\ sure = {}

-----------------------------------------------------------------------------
(* The keyboard, and the thread that passes its events on                  *)

Event(k, pressed) == [key |-> k, pressed |-> pressed]
Sent(event) ==
  /\ quota > 0 /\ quota' = quota - 1
  /\ pending' = Append(pending, event)

KeyDown(k) ==
  /\ k \notin down
  /\ down' = down \cup {k} /\ last' = k
  /\ Sent(Event(k, TRUE))
  /\ UNCHANGED <<timer, probe, waited, fresh, display, age, sure>>

Repeat ==
  /\ last \in down
  /\ Sent(Event(last, TRUE))
  /\ UNCHANGED <<down, last, timer, probe, waited, fresh, display, age, sure>>

\* Reported or not; another key that is still down does not begin to repeat.
KeyUp(k) ==
  /\ k \in down
  /\ down' = down \ {k} /\ last' = IF last = k THEN None ELSE last
  /\ Sent(Event(k, FALSE)) \/ UNCHANGED <<pending, quota>>
  /\ sure' = sure \ {k}
  /\ UNCHANGED <<timer, probe, waited, fresh, display, age>>

-----------------------------------------------------------------------------
(* The window                                                              *)

IsLit(k) == k \in ToSet(lit)

\* pressKey: a key that is lit already does not come to the front again.
Press(k) ==
  IF IsLit(k) THEN UNCHANGED display ELSE lit' = Append(lit, k) /\ shown' = k

\* delete held[key]: the others keep their order.
Place(k) == CHOOSE i \in DOMAIN lit : lit[i] = k
Without(k) == IF IsLit(k) THEN RemoveAt(lit, Place(k)) ELSE lit

\* Mutant of Release: nothing is displayed until the next press.
ReleaseDark(k) == lit' = Without(k) /\ shown' = IF shown = k THEN None ELSE shown

\* releaseKey: back to the last one that is still held.
Release(k) ==
  /\ lit' = Without(k)
  /\ shown' = IF shown # k THEN shown ELSE IF lit' = <<>> THEN None ELSE Last(lit')

Next1 == Head(pending)
Taken == pending # <<>> /\ pending' = Tail(pending)

\* handleKeyboard, handleAutoRelease: every press begins a new round.
HandlePress ==
  LET k == Next1.key IN
  /\ Taken /\ Next1.pressed
  /\ Press(k)
  /\ age' = [age EXCEPT ![k] = 0]
  /\ timer' = [timer EXCEPT ![k] = Delay] /\ fresh' = [fresh EXCEPT ![k] = FALSE]
  /\ sure' = sure \cup ({k} \cap down)
  /\ UNCHANGED <<down, last, quota, probe, waited>>

\* handleAutoReleaseRelease.
HandleRelease ==
  LET k == Next1.key IN
  /\ Taken /\ ~Next1.pressed
  /\ Release(k)
  /\ age' = [age EXCEPT ![k] = Off]
  /\ timer' = [timer EXCEPT ![k] = Off] /\ fresh' = [fresh EXCEPT ![k] = FALSE]
  /\ sure' = sure \ {k}
  /\ UNCHANGED <<down, last, quota, probe, waited>>

\* The timer of arm(): the question goes out.
Fire(k) ==
  /\ timer[k] = 0 /\ probe[k] = "none"
  /\ timer' = [timer EXCEPT ![k] = Off]
  /\ probe' = [probe EXCEPT ![k] = "asked"] /\ waited' = [waited EXCEPT ![k] = 0]
  /\ fresh' = [fresh EXCEPT ![k] = TRUE]
  /\ UNCHANGED <<system, display, age, sure>>

\* is_key_down.
IsKeyDown(k) ==
  /\ probe[k] = "asked"
  /\ probe' = [probe EXCEPT ![k] = IF k \in down THEN "down" ELSE "up"]
  /\ UNCHANGED <<system, timer, waited, fresh, display, age, sure>>

\* Mutant of Current: an answer counts whatever happened meanwhile.
CurrentAlways(k) == TRUE

Current(k) == fresh[k]

\* Mutant of Rearmed: a key found down is not asked about again.
RearmedNever(k) == Off

Rearmed(k) == ReArm

\* onStillDown, noteKeysStillDown, and the next round; or onRelease, which the
\* mapper does not hear of.
Answer(k) ==
  /\ probe[k] \in {"down", "up"}
  /\ probe' = [probe EXCEPT ![k] = "none"]
  /\ IF ~Current(k) THEN UNCHANGED <<timer, display, age>>
     ELSE IF probe[k] = "down"
     THEN /\ timer' = [timer EXCEPT ![k] = Rearmed(k)]
          /\ age' = [age EXCEPT ![k] = IF @ = Off THEN Off ELSE 0]
          /\ UNCHANGED display
     ELSE /\ Release(k)
          /\ UNCHANGED <<timer, age>>
  /\ UNCHANGED <<system, waited, fresh, sure>>

\* resetActivity: the peer comes or goes, or the synchronisation is resumed.
ResetActivity ==
  /\ age' = [k \in Keys |-> Off]
  /\ UNCHANGED <<system, timer, probe, waited, fresh, display, sure>>

\* Whatever is due happens first.
Tick ==
  /\ pending = <<>>
  /\ \A k \in Keys : timer[k] # 0 /\ (probe[k] # "none" => waited[k] < ProbeTicks)
  /\ timer' = [k \in Keys |-> IF timer[k] = Off THEN Off ELSE timer[k] - 1]
  /\ waited' = [k \in Keys |-> IF probe[k] = "none" THEN 0 ELSE waited[k] + 1]
  /\ age' = [k \in Keys |-> IF age[k] \in {Off, Old} THEN age[k] ELSE age[k] + 1]
  /\ quota' = MaxEvents
  /\ UNCHANGED <<down, last, pending, probe, fresh, display, sure>>

Window(k) == Fire(k) \/ IsKeyDown(k) \/ Answer(k)
Handle == HandlePress \/ HandleRelease

Next ==
  \/ Repeat \/ Handle \/ ResetActivity \/ Tick
  \/ \E k \in Keys : KeyDown(k) \/ KeyUp(k) \/ Window(k)

Spec == Init /\ [][Next]_vars

\* The event loop runs, the system answers, time goes on.
FairSpec == Spec /\ WF_vars(Handle) /\ WF_vars(Tick) /\ \A k \in Keys : WF_vars(Window(k))

-----------------------------------------------------------------------------
(* Correctness                                                             *)

TypeOK ==
  /\ down \subseteq Keys /\ sure \subseteq down
  /\ age \in [Keys -> 0 .. Off]
  /\ IF lit = <<>> THEN shown = None ELSE shown = Last(lit)

\* A key that is down stays lit, or can come back to the front, however long it
\* is quiet and whenever a question asked in an earlier round is answered
\* (keyAutoRelease: generations).
LitWhileDown == \A k \in sure : IsLit(k)

\* Nor do the snapshots for the peer lose it between two questions: its age in
\* the mapper stays below the limit (handHoldLimitMs).
NeverDropped == \A k \in sure : age[k] # Off => age[k] <= HoldLimit

\* Whatever is lit is going to be asked about, or the question of its round is
\* out: there is always something that can put it out, also when its release
\* was never reported (handleAutoRelease, arm).
LitIsWatched ==
  \A k \in Keys : IsLit(k) => timer[k] # Off \/ (probe[k] # "none" /\ fresh[k])

\* A key whose release was never reported does not stay lit.
GoesDark == \A k \in Keys : []<>(IsLit(k) => k \in down)

=============================================================================
