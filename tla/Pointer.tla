------------------------------- MODULE Pointer -------------------------------
(***************************************************************************)
(* Where the pages think the mouse is and which of its buttons are down.    *)
(* On Windows a thread looks at the system at every beat and works out what *)
(* has changed (core/device/pointer.rs); elsewhere a hook leaves the last   *)
(* place in three atomics that another thread reads at every beat, and      *)
(* sends the buttons through a queue (core/device/mod.rs).                  *)
(*                                                                         *)
(* Abstractions.  A screen of four places, two of the five buttons.  The    *)
(* atomics are sequentially consistent: what their orderings allow beyond   *)
(* that concerns a place that the next beat overwrites.                     *)
(***************************************************************************)
EXTENDS Naturals, Sequences

CONSTANT MaxQueue \* bound: button events under way

PointerAssumption == MaxQueue \in Nat

Coordinates == {0, 1}
Places == Coordinates \X Coordinates
Nowhere == <<2, 2>>
Buttons == {"left", "right"}

VARIABLES
  platform,  \* windows or other
  place,     \* of the pointer
  pressed,   \* buttons that are physically down
  swapped,   \* SM_SWAPBUTTON
  readable,  \* FALSE while the screen is locked
  down,      \* ButtonEdges::down
  last,      \* what sample_pointer sent
  beat,      \* where the beating thread is
  hook,      \* where the hook's callback is
  mouse_x, mouse_y, mouse_pending, \* MOUSE_X, MOUSE_Y, MOUSE_PENDING
  read_x,    \* what coalesce_mouse_moves has loaded
  queue,     \* the device-events channel
  at, held,  \* in the pages: the place, the names of the buttons down
  due,       \* beats until everything has been seen
  crossed    \* the buttons were swapped while one was down

world == <<place, pressed, swapped, readable>>
sampler == <<down, last>>
atomics == <<mouse_x, mouse_y, mouse_pending, read_x, hook>>
pages == <<at, held>>
vars == <<platform, world, sampler, beat, atomics, queue, pages, due, crossed>>

\* init_keyboard_only: no hook for the mouse, a thread that looks.
Polls == platform = "windows"

\* buttons_for: the primary button is called Left whichever it is.
Name(b) == IF swapped THEN (IF b = "left" THEN "Right" ELSE "Left")
           ELSE (IF b = "left" THEN "Left" ELSE "Right")
Names(B) == {Name(b) : b \in B}

Init ==
  /\ platform \in {"windows", "other"}
  /\ place \in Places /\ pressed = {} /\ swapped \in BOOLEAN /\ readable = TRUE
  /\ down = {} /\ last = Nowhere
  /\ beat = "asleep" /\ hook = "idle"
  /\ mouse_x = 0 /\ mouse_y = 0 /\ mouse_pending = FALSE /\ read_x = 0
  /\ queue = <<>> /\ at = Nowhere /\ held = {}
  /\ due = 1 /\ crossed = FALSE

\* A beat that has begun may miss what changes now.
Unseen == due' = IF beat = "asleep" THEN 1 ELSE 2
Seen == due' = IF due = 0 THEN 0 ELSE due - 1

-----------------------------------------------------------------------------
(* The user, and the hook where there is one                               *)

MoveTo(p) ==
  /\ place # p /\ place' = p
  /\ IF Polls THEN Unseen /\ UNCHANGED <<hook, mouse_x>>
     ELSE hook = "idle" /\ hook' = "y" /\ mouse_x' = p[1] /\ due' = 2
  /\ UNCHANGED <<platform, pressed, swapped, readable, sampler, beat, mouse_y, mouse_pending, read_x,
                 queue, pages, crossed>>

StoreY ==
  /\ hook = "y" /\ hook' = "pending" /\ mouse_y' = place[2]
  /\ UNCHANGED <<platform, world, sampler, beat, mouse_x, mouse_pending, read_x, queue, pages, due, crossed>>

StorePending ==
  /\ hook = "pending" /\ hook' = "idle" /\ mouse_pending' = TRUE
  /\ Unseen
  /\ UNCHANGED <<platform, world, sampler, beat, mouse_x, mouse_y, read_x, queue, pages, crossed>>

\* A button goes down or up; the hook is told its logical name.
Click(b) ==
  /\ pressed' = IF b \in pressed THEN pressed \ {b} ELSE pressed \cup {b}
  /\ IF Polls THEN Unseen /\ UNCHANGED queue
     ELSE /\ hook = "idle" /\ Len(queue) < MaxQueue
          /\ queue' = Append(queue, [name |-> Name(b), press |-> b \notin pressed])
          /\ UNCHANGED due
  /\ UNCHANGED <<platform, place, swapped, readable, sampler, beat, atomics, pages, crossed>>

\* The primary button becomes the other one.
SwapButtons ==
  /\ Polls
  /\ swapped' = ~swapped /\ Unseen
  /\ crossed' = (crossed \/ pressed \cup down # {})
  /\ UNCHANGED <<platform, place, pressed, readable, sampler, beat, atomics, queue, pages>>

\* The screen is locked or unlocked, or a session is switched.
Lock ==
  /\ Polls
  /\ readable' = ~readable /\ Unseen
  /\ UNCHANGED <<platform, place, pressed, swapped, sampler, beat, atomics, queue, pages, crossed>>

-----------------------------------------------------------------------------
(* sample_pointer                                                          *)

\* cursor_position: without one nothing is believed in this beat.
Skip ==
  /\ Polls /\ beat = "asleep" /\ ~readable
  /\ last' = Nowhere
  /\ UNCHANGED <<platform, world, down, beat, atomics, queue, pages, due, crossed>>

SamplePlace ==
  /\ Polls /\ beat = "asleep" /\ readable
  /\ last' = place
  /\ at' = IF last # place THEN place ELSE at
  /\ beat' = "buttons"
  /\ UNCHANGED <<platform, world, down, atomics, queue, held, due, crossed>>

\* button_state: on a desktop that is not active every key is up.
State == IF readable THEN pressed ELSE {}

\* ButtonEdges::update.
Edges == [press |-> State \ down, release |-> down \ State]

SampleButtons ==
  /\ beat = "buttons" /\ beat' = "asleep"
  /\ down' = State
  /\ held' = (held \cup Names(Edges.press)) \ Names(Edges.release)
  /\ Seen
  /\ UNCHANGED <<platform, world, last, atomics, queue, at, crossed>>

-----------------------------------------------------------------------------
(* coalesce_mouse_moves and the dispatcher                                 *)

\* The swap comes before the loads: a move in between is read again.
TakePending ==
  /\ ~Polls /\ beat = "asleep"
  /\ mouse_pending' = FALSE
  /\ IF mouse_pending THEN beat' = "x" /\ UNCHANGED due ELSE Seen /\ UNCHANGED beat
  /\ UNCHANGED <<platform, world, sampler, mouse_x, mouse_y, read_x, hook, queue, pages, crossed>>

LoadX ==
  /\ beat = "x" /\ beat' = "y"
  /\ read_x' = mouse_x
  /\ UNCHANGED <<platform, world, sampler, mouse_x, mouse_y, mouse_pending, hook, queue, pages, due, crossed>>

\* Mutant of EmitMove: the flag is reset when the loads are done.
EmitMoveReset ==
  /\ beat = "y" /\ beat' = "asleep"
  /\ at' = <<read_x, mouse_y>>
  /\ mouse_pending' = FALSE
  /\ Seen
  /\ UNCHANGED <<platform, world, sampler, mouse_x, mouse_y, read_x, hook, queue, held, crossed>>

\* emit_mouse_move; the two halves may be of different moves.
EmitMove ==
  /\ beat = "y" /\ beat' = "asleep"
  /\ at' = <<read_x, mouse_y>>
  /\ Seen
  /\ UNCHANGED <<platform, world, sampler, atomics, queue, held, crossed>>

Dispatch ==
  /\ queue # <<>> /\ queue' = Tail(queue)
  /\ held' = IF Head(queue).press THEN held \cup {Head(queue).name} ELSE held \ {Head(queue).name}
  /\ UNCHANGED <<platform, world, sampler, beat, atomics, at, due, crossed>>

Next ==
  \/ \E p \in Places : MoveTo(p)
  \/ \E b \in Buttons : Click(b)
  \/ SwapButtons \/ Lock
  \/ Skip \/ SamplePlace \/ SampleButtons
  \/ StoreY \/ StorePending
  \/ TakePending \/ LoadX \/ EmitMove \/ Dispatch

Spec == Init /\ [][Next]_vars

-----------------------------------------------------------------------------

TypeOK ==
  /\ platform \in {"windows", "other"}
  /\ place \in Places /\ {last, at} \subseteq Places \cup {Nowhere}
  /\ pressed \subseteq Buttons /\ down \subseteq Buttons /\ held \subseteq {"Left", "Right"}
  /\ {swapped, readable, mouse_pending, crossed} \subseteq BOOLEAN
  /\ beat \in {"asleep", "buttons", "x", "y"} /\ hook \in {"idle", "y", "pending"}
  /\ {mouse_x, mouse_y, read_x} \subseteq Coordinates
  /\ Len(queue) <= MaxQueue /\ due \in 0 .. 2

\* Two beats after the mouse has come to rest the pages have it where it is,
\* however its last move fell among the two threads' stores and loads, and
\* show just the buttons that are down, by their logical names, whatever was
\* pressed while the screen was locked.  Swapping the buttons while one is
\* down is the exception.
PointerAgrees ==
  /\ due = 0 /\ hook = "idle" /\ (Polls \/ at # Nowhere) => at = place
  /\ due = 0 /\ queue = <<>> /\ ~crossed => held = Names(pressed)

=============================================================================
