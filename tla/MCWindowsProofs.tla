-------------------------- MODULE MCWindowsProofs ---------------------------
(* The theorems about the parts of MCParts that belong to this device:     *)
(* the pointer, the voice button, the taskbar and the messages a window     *)
(* shows, in the same way as in MCPartsProofs; and the types of all twelve.  *)
EXTENDS MCPartsProofs, FiniteSetTheorems, WellFoundedInduction

-----------------------------------------------------------------------------
(* The pointer                                                             *)

PointerTypes ==
  /\ platform \in {"windows", "other"}
  /\ place \in Mouse!Places
  /\ pressed \subseteq Mouse!Buttons /\ down \subseteq Mouse!Buttons
  /\ due \in {0, 1, 2}
  /\ (Mouse!Polls => beat \in {"asleep", "buttons"} /\ hook = "idle" /\ queue = <<>>)

\* Where the system is looked at: the pages have what the sampler has sent;
\* what changes is due for one beat more than the one that has begun.
Looking ==
  Mouse!Polls =>
    /\ (last # Mouse!Nowhere => at = last)
    /\ (beat = "buttons" /\ due < 2 => readable = TRUE /\ at = place)
    /\ (due = 0 => readable = TRUE /\ at = place /\ down = pressed)
    /\ (~button_crossed => buttons = Mouse!Names(down))

\* A beat gives the pages the names of the buttons that are down.
LEMMA EdgesNamed ==
  \A B, C : B \subseteq Mouse!Buttons /\ C \subseteq Mouse!Buttons =>
    (Mouse!Names(B) \cup Mouse!Names(C \ B)) \ Mouse!Names(B \ C) = Mouse!Names(C)
<1> SUFFICES ASSUME NEW B, NEW C, B \subseteq {"left", "right"}, C \subseteq {"left", "right"}
             PROVE  (Mouse!Names(B) \cup Mouse!Names(C \ B)) \ Mouse!Names(B \ C) = Mouse!Names(C)
  BY DEF Mouse!Buttons
<1>0. \A b, c \in {"left", "right"} : Mouse!Name(b) = Mouse!Name(c) => b = c
  BY DEF Mouse!Name
<1> QED
  BY <1>0 DEF Mouse!Names

LEMMA InitLooking == Mouse!Init => PointerTypes /\ Looking
<1> SUFFICES ASSUME Mouse!Init PROVE PointerTypes /\ Looking
  OBVIOUS
<1>1. /\ platform \in {"windows", "other"} /\ place \in Mouse!Places /\ pressed = {} /\ down = {}
      /\ last = Mouse!Nowhere /\ beat = "asleep" /\ hook = "idle" /\ queue = <<>> /\ buttons = {} /\ due = 1
  BY DEF Mouse!Init
<1>2. Mouse!Names({}) = {}
  BY DEF Mouse!Names
<1> QED
  BY <1>1, <1>2 DEF PointerTypes, Looking

LEMMA PointerTyped ==
  ASSUME PointerTypes, [Mouse!Next]_(Mouse!vars)
  PROVE  PointerTypes'
<1> USE DEF PointerTypes, Mouse!Polls, Mouse!Unseen, Mouse!Seen
<1>1. ASSUME NEW p \in Mouse!Places, Mouse!MoveTo(p) PROVE PointerTypes'
  BY <1>1 DEF Mouse!MoveTo, Mouse!sampler, Mouse!pages
<1>2. ASSUME NEW b \in Mouse!Buttons, Mouse!Click(b) PROVE PointerTypes'
  BY <1>2 DEF Mouse!Click, Mouse!sampler, Mouse!pages, Mouse!atomics
<1>3. CASE Mouse!SwapButtons
  BY <1>3 DEF Mouse!SwapButtons, Mouse!sampler, Mouse!pages, Mouse!atomics
<1>4. CASE Mouse!Lock
  BY <1>4 DEF Mouse!Lock, Mouse!sampler, Mouse!pages, Mouse!atomics
<1>5. CASE Mouse!Skip \/ Mouse!SamplePlace
  BY <1>5 DEF Mouse!Skip, Mouse!SamplePlace, Mouse!world, Mouse!pages, Mouse!atomics
<1>6. CASE Mouse!SampleButtons
  <2>1. Mouse!State \subseteq Mouse!Buttons
    BY DEF Mouse!State
  <2> QED
    BY <1>6, <2>1 DEF Mouse!SampleButtons, Mouse!world, Mouse!atomics
<1>7. CASE Mouse!StoreY \/ Mouse!StorePending
  BY <1>7 DEF Mouse!StoreY, Mouse!StorePending, Mouse!world, Mouse!sampler
<1>8. CASE Mouse!TakePending \/ Mouse!LoadX \/ Mouse!EmitMove
  BY <1>8 DEF Mouse!TakePending, Mouse!LoadX, Mouse!EmitMove, Mouse!world, Mouse!sampler, Mouse!atomics
<1>9. CASE Mouse!Dispatch
  BY <1>9 DEF Mouse!Dispatch, Mouse!world, Mouse!sampler, Mouse!atomics
<1>10. CASE UNCHANGED Mouse!vars
  BY <1>10 DEF Mouse!vars, Mouse!world, Mouse!sampler, Mouse!atomics
<1> QED
  BY <1>1, <1>2, <1>3, <1>4, <1>5, <1>6, <1>7, <1>8, <1>9, <1>10 DEF Mouse!Next

LEMMA LooksOn ==
  ASSUME PointerTypes, Looking, [Mouse!Next]_(Mouse!vars)
  PROVE  Looking'
<1>p. UNCHANGED platform
  BY DEF Mouse!Next, Mouse!vars, Mouse!MoveTo, Mouse!Click, Mouse!SwapButtons, Mouse!Lock, Mouse!Skip,
         Mouse!SamplePlace, Mouse!SampleButtons, Mouse!StoreY, Mouse!StorePending, Mouse!TakePending,
         Mouse!LoadX, Mouse!EmitMove, Mouse!Dispatch
<1> SUFFICES ASSUME Mouse!Polls PROVE Looking'
  BY <1>p DEF Looking, Mouse!Polls
<1> USE DEF PointerTypes, Looking, Mouse!Unseen, Mouse!Seen
<1>n. UNCHANGED <<down, swapped>> => UNCHANGED Mouse!Names(down)
  BY DEF Mouse!Names, Mouse!Name
<1>1. ASSUME NEW p \in Mouse!Places, Mouse!MoveTo(p) PROVE Looking'
  BY <1>1, <1>n DEF Mouse!MoveTo, Mouse!sampler, Mouse!pages
<1>2. ASSUME NEW b \in Mouse!Buttons, Mouse!Click(b) PROVE Looking'
  BY <1>2, <1>n DEF Mouse!Click, Mouse!sampler, Mouse!pages
<1>3. CASE Mouse!SwapButtons
  <2>1. /\ UNCHANGED <<place, pressed, readable, down, last, beat, at, buttons>>
        /\ due' = (IF beat = "asleep" THEN 1 ELSE 2)
        /\ button_crossed' = (button_crossed \/ pressed \cup down # {})
    BY <1>3 DEF Mouse!SwapButtons, Mouse!sampler, Mouse!pages
  <2>2. ASSUME ~button_crossed' PROVE buttons' = Mouse!Names(down)'
    <3>1. ~(button_crossed \/ pressed \cup down # {})
      BY <2>1, <2>2, Zenon
    <3>2. ~button_crossed /\ pressed \cup down = {}
      BY <3>1, Zenon
    <3>3. down = {} /\ down' = {}
      BY <2>1, <3>2
    <3>4. Mouse!Names(down) = {} /\ Mouse!Names(down)' = {}
      BY <3>3 DEF Mouse!Names
    <3> QED
      BY <2>1, <3>2, <3>4
  <2>3. due' # 0 /\ (beat' = "buttons" => due' = 2) /\ (last' # Mouse!Nowhere => at' = last')
    BY <2>1
  <2> QED
    BY <2>2, <2>3
<1>4. CASE Mouse!Lock
  BY <1>4, <1>n DEF Mouse!Lock, Mouse!sampler, Mouse!pages
<1>5. CASE Mouse!Skip
  BY <1>5, <1>n DEF Mouse!Skip, Mouse!world, Mouse!pages
<1>6. CASE Mouse!SamplePlace
  <2>1. /\ beat = "asleep" /\ readable /\ last' = place /\ at' = (IF last # place THEN place ELSE at)
        /\ beat' = "buttons" /\ UNCHANGED <<place, pressed, swapped, readable, down, due, button_crossed, buttons>>
    BY <1>6 DEF Mouse!SamplePlace, Mouse!world
  <2>2. at' = place
    <3>1. place # Mouse!Nowhere
      BY DEF Mouse!Places, Mouse!Coordinates, Mouse!Nowhere
    <3> QED
      BY <2>1, <3>1
  <2> QED
    BY <1>n, <2>1, <2>2
<1>7. CASE Mouse!SampleButtons
  <2>1. /\ beat = "buttons" /\ beat' = "asleep" /\ down' = Mouse!State
        /\ buttons' = (buttons \cup Mouse!Names(Mouse!State \ down)) \ Mouse!Names(down \ Mouse!State)
        /\ due' = (IF due = 0 THEN 0 ELSE due - 1)
        /\ UNCHANGED <<place, pressed, swapped, readable, last, at, button_crossed>>
    BY <1>7 DEF Mouse!SampleButtons, Mouse!Edges, Mouse!world
  <2>2. due' = 0 => readable /\ at = place /\ down' = pressed
    BY <2>1 DEF Mouse!State
  <2>3. ASSUME ~button_crossed PROVE buttons' = Mouse!Names(down)'
    <3>1. Mouse!State \subseteq Mouse!Buttons
      BY DEF Mouse!State
    <3>2. buttons' = Mouse!Names(Mouse!State)
      BY <2>1, <2>3, <3>1, EdgesNamed
    <3>3. Mouse!Names(Mouse!State) = Mouse!Names(down)'
      BY <2>1 DEF Mouse!Names, Mouse!Name
    <3> QED
      BY <3>2, <3>3
  <2> QED
    BY <2>1, <2>2, <2>3
<1>8. CASE Mouse!StoreY \/ Mouse!StorePending \/ Mouse!TakePending \/ Mouse!LoadX \/ Mouse!EmitMove \/ Mouse!Dispatch
  BY <1>8 DEF Mouse!StoreY, Mouse!StorePending, Mouse!TakePending, Mouse!LoadX, Mouse!EmitMove, Mouse!Dispatch
<1>9. CASE UNCHANGED Mouse!vars
  BY <1>9, <1>n DEF Mouse!vars, Mouse!world, Mouse!sampler, Mouse!pages
<1> QED
  BY <1>1, <1>2, <1>3, <1>4, <1>5, <1>6, <1>7, <1>8, <1>9 DEF Mouse!Next

\* Where a hook leaves the place in three atomics: before anything moved, the
\* pages know of no place; after that a move is in the atomics, or they are
\* on their way to the pages, or have arrived.
Moving ==
  /\ (hook = "y" => mouse_x = place[1])
  /\ (hook # "y" => mouse_x = place[1] /\ mouse_y = place[2])
  /\ (hook = "idle" /\ ~mouse_pending =>
        /\ (beat = "y" => read_x = mouse_x)
        /\ (beat = "asleep" => at = place)
        /\ (beat # "asleep" => due # 0))
  /\ (hook = "idle" /\ mouse_pending => due # 0 /\ (beat # "asleep" => due = 2))

Resting == at = Mouse!Nowhere /\ ~mouse_pending /\ beat = "asleep" /\ hook = "idle"

Hooked == ~Mouse!Polls =>
  /\ beat \in {"asleep", "x", "y"} /\ hook \in {"idle", "y", "pending"}
  /\ (Resting \/ Moving)

LEMMA InitHooked == Mouse!Init => Hooked
BY DEF Mouse!Init, Hooked, Resting

LEMMA StaysHooked ==
  ASSUME PointerTypes, Hooked, [Mouse!Next]_(Mouse!vars)
  PROVE  Hooked'
<1>p. UNCHANGED platform
  BY DEF Mouse!Next, Mouse!vars, Mouse!MoveTo, Mouse!Click, Mouse!SwapButtons, Mouse!Lock, Mouse!Skip,
         Mouse!SamplePlace, Mouse!SampleButtons, Mouse!StoreY, Mouse!StorePending, Mouse!TakePending,
         Mouse!LoadX, Mouse!EmitMove, Mouse!Dispatch
<1> SUFFICES ASSUME ~Mouse!Polls
             PROVE  /\ beat' \in {"asleep", "x", "y"} /\ hook' \in {"idle", "y", "pending"}
                    /\ (Resting' \/ Moving')
  BY <1>p DEF Hooked, Mouse!Polls
<1>0. /\ beat \in {"asleep", "x", "y"} /\ hook \in {"idle", "y", "pending"}
      /\ due \in {0, 1, 2} /\ (Resting \/ Moving)
  BY DEF Hooked, PointerTypes
<1>q. place = <<place[1], place[2]>>
  BY DEF PointerTypes, Mouse!Places
<1> USE DEF Resting, Moving, Mouse!Unseen, Mouse!Seen
<1>1. ASSUME NEW p \in Mouse!Places, Mouse!MoveTo(p) PROVE Hooked' /\ Moving' /\ beat' = beat /\ hook' = "y"
  BY <1>0, <1>1 DEF Mouse!MoveTo, Mouse!pages, Hooked
<1>2. ASSUME NEW b \in Mouse!Buttons, Mouse!Click(b)
      PROVE  UNCHANGED <<beat, hook, at, mouse_pending, mouse_x, mouse_y, read_x, place, due>>
  BY <1>2 DEF Mouse!Click, Mouse!pages, Mouse!atomics
<1>3. CASE Mouse!SwapButtons \/ Mouse!Lock \/ Mouse!Skip \/ Mouse!SamplePlace \/ Mouse!SampleButtons
  BY <1>0, <1>3 DEF Mouse!SwapButtons, Mouse!Lock, Mouse!Skip, Mouse!SamplePlace, Mouse!SampleButtons
<1>4. CASE Mouse!StoreY
  BY <1>0, <1>4 DEF Mouse!StoreY, Mouse!world, Mouse!pages
<1>5. CASE Mouse!StorePending
  BY <1>0, <1>5 DEF Mouse!StorePending, Mouse!world, Mouse!pages
<1>6. CASE Mouse!TakePending
  BY <1>0, <1>6 DEF Mouse!TakePending, Mouse!world, Mouse!pages
<1>7. CASE Mouse!LoadX
  BY <1>0, <1>7 DEF Mouse!LoadX, Mouse!world, Mouse!pages
<1>8. CASE Mouse!EmitMove
  <2>1. /\ beat = "y" /\ beat' = "asleep" /\ at' = <<read_x, mouse_y>>
        /\ due' = (IF due = 0 THEN 0 ELSE due - 1)
        /\ UNCHANGED <<hook, mouse_pending, mouse_x, mouse_y, place>>
    BY <1>8 DEF Mouse!EmitMove, Mouse!world, Mouse!atomics
  <2>2. Moving
    BY <1>0, <2>1
  <2>3. hook = "idle" /\ ~mouse_pending => at' = place
    BY <1>q, <2>1, <2>2
  <2> QED
    BY <1>0, <2>1, <2>2, <2>3
<1>9. CASE Mouse!Dispatch
  BY <1>0, <1>9 DEF Mouse!Dispatch, Mouse!world, Mouse!atomics
<1>10. CASE UNCHANGED Mouse!vars
  BY <1>0, <1>10 DEF Mouse!vars, Mouse!world, Mouse!pages, Mouse!atomics
<1> QED
  BY <1>0, <1>1, <1>2, <1>3, <1>4, <1>5, <1>6, <1>7, <1>8, <1>9, <1>10 DEF Mouse!Next

\* What the pages will have when they have heard what is in the queue.
Telling == ~Mouse!Polls =>
  /\ queue \in Seq([name : {"Left", "Right"}, press : BOOLEAN])
  /\ \A b \in Mouse!Buttons :
       /\ (\A i \in 1 .. Len(queue) : queue[i].name # Mouse!Name(b))
            => (Mouse!Name(b) \in buttons <=> b \in pressed)
       /\ \A i \in 1 .. Len(queue) :
            queue[i].name = Mouse!Name(b) /\ (\A j \in i + 1 .. Len(queue) : queue[j].name # Mouse!Name(b))
              => (queue[i].press <=> b \in pressed)
  /\ buttons \subseteq {"Left", "Right"}

LEMMA InitTelling == Mouse!Init => Telling
<1> SUFFICES ASSUME Mouse!Init PROVE Telling
  OBVIOUS
<1>1. queue = <<>> /\ pressed = {} /\ buttons = {} /\ Len(<<>>) = 0 /\ 1 .. 0 = {}
      /\ <<>> \in Seq([name : {"Left", "Right"}, press : BOOLEAN])
  BY DEF Mouse!Init
<1> QED
  BY <1>1 DEF Telling

LEMMA NamesDiffer ==
  /\ \A b \in Mouse!Buttons : Mouse!Name(b) \in {"Left", "Right"}
  /\ \A b, c \in Mouse!Buttons : Mouse!Name(b) = Mouse!Name(c) => b = c
BY DEF Mouse!Name, Mouse!Buttons

LEMMA ClickTells ==
  ASSUME Telling, ~Mouse!Polls, NEW b \in Mouse!Buttons, Mouse!Click(b)
  PROVE  Telling'
<1> DEFINE event == [name |-> Mouse!Name(b), press |-> b \notin pressed]
           Events == [name : {"Left", "Right"}, press : BOOLEAN]
           n == Len(queue)
<1>1. /\ queue' = Append(queue, event) /\ UNCHANGED <<platform, swapped, buttons>>
      /\ pressed' = (IF b \in pressed THEN pressed \ {b} ELSE pressed \cup {b})
  BY DEF Mouse!Click, Mouse!pages
<1>2. event \in Events /\ event.name = Mouse!Name(b) /\ (event.press <=> b \notin pressed)
  BY NamesDiffer
<1> HIDE DEF event
<1>3. queue \in Seq(Events) /\ n \in Nat
  BY LenProperties DEF Telling
<1>4. /\ queue' \in Seq(Events) /\ Len(queue') = n + 1 /\ queue'[n + 1] = event
      /\ \A i \in 1 .. n : queue'[i] = queue[i]
  BY <1>1, <1>2, <1>3, AppendProperties
<1>5. \A c \in Mouse!Buttons : /\ Mouse!Name(c)' = Mouse!Name(c)
                              /\ (c \in pressed' <=> IF c = b THEN b \notin pressed ELSE c \in pressed)
  BY <1>1 DEF Mouse!Name
<1>6. ASSUME NEW c \in Mouse!Buttons, \A i \in 1 .. Len(queue') : queue'[i].name # Mouse!Name(c)
      PROVE  Mouse!Name(c) \in buttons' <=> c \in pressed'
  <2>1. n + 1 \in 1 .. Len(queue') /\ \A i \in 1 .. n : i \in 1 .. Len(queue')
    BY <1>3, <1>4
  <2>2. c # b /\ \A i \in 1 .. n : queue[i].name # Mouse!Name(c)
    BY <1>2, <1>4, <1>6, <2>1
  <2>3. Mouse!Name(c) \in buttons <=> c \in pressed
    BY <2>2 DEF Telling
  <2> QED
    BY <1>1, <1>5, <2>2, <2>3
<1>7. ASSUME NEW c \in Mouse!Buttons, NEW i \in 1 .. Len(queue'), queue'[i].name = Mouse!Name(c),
             \A j \in i + 1 .. Len(queue') : queue'[j].name # Mouse!Name(c)
      PROVE  queue'[i].press <=> c \in pressed'
  <2>1. CASE i = n + 1
    <3>1. c = b
      BY <1>2, <1>4, <1>7, <2>1, NamesDiffer
    <3> QED
      BY <1>2, <1>4, <1>5, <2>1, <3>1
  <2>2. CASE i # n + 1
    <3>1. i \in 1 .. n /\ n + 1 \in i + 1 .. Len(queue')
          /\ \A j \in i + 1 .. n : j \in 1 .. n /\ j \in i + 1 .. Len(queue')
      BY <1>3, <1>4, <2>2
    <3>2. c # b
      BY <1>2, <1>4, <1>7, <3>1
    <3>3. queue[i].name = Mouse!Name(c) /\ \A j \in i + 1 .. n : queue[j].name # Mouse!Name(c)
      BY <1>4, <1>7, <3>1
    <3>4. queue[i].press <=> c \in pressed
      BY <3>1, <3>3 DEF Telling
    <3> QED
      BY <1>4, <1>5, <3>1, <3>2, <3>4
  <2> QED
    BY <2>1, <2>2
<1>8. buttons' \subseteq {"Left", "Right"}
  BY <1>1 DEF Telling
<1> QED
  BY <1>4, <1>5, <1>6, <1>7, <1>8 DEF Telling

LEMMA DispatchTells ==
  ASSUME Telling, ~Mouse!Polls, Mouse!Dispatch
  PROVE  Telling'
<1> DEFINE Events == [name : {"Left", "Right"}, press : BOOLEAN]
           n == Len(queue)
           told == queue[1]
<1>1. /\ queue # <<>> /\ queue' = Tail(queue) /\ UNCHANGED <<platform, swapped, pressed>>
      /\ buttons' = (IF Head(queue).press THEN buttons \cup {Head(queue).name} ELSE buttons \ {Head(queue).name})
  BY DEF Mouse!Dispatch, Mouse!world
<1>2. queue \in Seq(Events)
  BY DEF Telling
<1>3. /\ n \in Nat \ {0} /\ queue' \in Seq(Events) /\ Len(queue') = n - 1
      /\ \A i \in 1 .. n - 1 : queue'[i] = queue[i + 1]
      /\ Head(queue) = told /\ told \in Events
  <2>1. Head(queue) = queue[1]
    BY <1>1, <1>2
  <2> QED
    BY <1>1, <1>2, <2>1, HeadTailProperties, LenProperties, EmptySeq
<1>4. buttons' = (IF told.press THEN buttons \cup {told.name} ELSE buttons \ {told.name})
  BY <1>1, <1>3
<1> HIDE DEF told
<1>5. \A c \in Mouse!Buttons : Mouse!Name(c)' = Mouse!Name(c)
  BY <1>1 DEF Mouse!Name
<1>6. \A i \in 1 .. n - 1 : i + 1 \in 1 .. n /\ i + 1 \in 1 + 1 .. n
  BY <1>3
<1>7. ASSUME NEW c \in Mouse!Buttons, \A i \in 1 .. Len(queue') : queue'[i].name # Mouse!Name(c)
      PROVE  Mouse!Name(c) \in buttons' <=> c \in pressed'
  <2>1. \A j \in 1 + 1 .. n : queue[j].name # Mouse!Name(c)
    <3> SUFFICES ASSUME NEW j \in 1 + 1 .. n PROVE queue[j].name # Mouse!Name(c)
      OBVIOUS
    <3>1. j - 1 \in 1 .. n - 1 /\ (j - 1) + 1 = j
      BY <1>3
    <3> QED
      BY <1>3, <1>7, <3>1
  <2>2. 1 \in 1 .. n /\ \A i \in 1 .. n : i = 1 \/ i \in 1 + 1 .. n
    BY <1>3
  <2>3. CASE told.name = Mouse!Name(c)
    <3>1. told.press <=> c \in pressed
      BY <2>1, <2>2, <2>3 DEF Telling, told
    <3> QED
      BY <1>1, <1>4, <2>3, <3>1
  <2>4. CASE told.name # Mouse!Name(c)
    <3>1. Mouse!Name(c) \in buttons <=> c \in pressed
      BY <2>1, <2>2, <2>4 DEF Telling, told
    <3> QED
      BY <1>1, <1>4, <2>4, <3>1
  <2> QED
    BY <2>3, <2>4
<1>8. ASSUME NEW c \in Mouse!Buttons, NEW i \in 1 .. Len(queue'), queue'[i].name = Mouse!Name(c),
             \A j \in i + 1 .. Len(queue') : queue'[j].name # Mouse!Name(c)
      PROVE  queue'[i].press <=> c \in pressed'
  <2>1. i \in 1 .. n - 1 /\ i + 1 \in 1 .. n /\ queue'[i] = queue[i + 1]
    BY <1>3, <1>6
  <2>2. ASSUME NEW j \in (i + 1) + 1 .. n PROVE queue[j].name # Mouse!Name(c)
    <3>1. j - 1 \in 1 .. n - 1 /\ j - 1 \in i + 1 .. Len(queue') /\ (j - 1) + 1 = j
      BY <1>3, <2>1
    <3> QED
      BY <1>3, <1>8, <3>1
  <2>3. queue[i + 1].press <=> c \in pressed
    BY <1>8, <2>1, <2>2 DEF Telling
  <2> QED
    BY <1>1, <2>1, <2>3
<1>9. buttons' \subseteq {"Left", "Right"}
  BY <1>3, <1>4 DEF Telling
<1> QED
  BY <1>3, <1>5, <1>7, <1>8, <1>9 DEF Telling

LEMMA KeepsTelling ==
  ASSUME PointerTypes, Hooked, Telling, [Mouse!Next]_(Mouse!vars)
  PROVE  Telling'
<1>p. UNCHANGED platform
  BY DEF Mouse!Next, Mouse!vars, Mouse!MoveTo, Mouse!Click, Mouse!SwapButtons, Mouse!Lock, Mouse!Skip,
         Mouse!SamplePlace, Mouse!SampleButtons, Mouse!StoreY, Mouse!StorePending, Mouse!TakePending,
         Mouse!LoadX, Mouse!EmitMove, Mouse!Dispatch
<1> SUFFICES ASSUME ~Mouse!Polls PROVE Telling'
  BY <1>p DEF Telling, Mouse!Polls
<1>1. ASSUME UNCHANGED <<platform, swapped, pressed, queue, buttons>> PROVE Telling'
  <2>1. \A b \in Mouse!Buttons : Mouse!Name(b)' = Mouse!Name(b)
    BY <1>1 DEF Mouse!Name
  <2> QED
    BY <1>1, <2>1 DEF Telling
<1>2. ASSUME NEW p \in Mouse!Places, Mouse!MoveTo(p) PROVE Telling'
  BY <1>1, <1>2 DEF Mouse!MoveTo, Mouse!pages
<1>3. ~Mouse!SwapButtons /\ ~Mouse!Lock /\ ~Mouse!Skip /\ ~Mouse!SamplePlace /\ ~Mouse!SampleButtons
  BY DEF Mouse!SwapButtons, Mouse!Lock, Mouse!Skip, Mouse!SamplePlace, Mouse!SampleButtons, Hooked
<1>4. CASE Mouse!StoreY \/ Mouse!StorePending \/ Mouse!TakePending \/ Mouse!LoadX \/ Mouse!EmitMove
  BY <1>1, <1>4 DEF Mouse!StoreY, Mouse!StorePending, Mouse!TakePending, Mouse!LoadX, Mouse!EmitMove, Mouse!world, Mouse!pages
<1>5. CASE UNCHANGED Mouse!vars
  BY <1>1, <1>5 DEF Mouse!vars, Mouse!world, Mouse!pages
<1> QED
  BY <1>2, <1>3, <1>4, <1>5, ClickTells, DispatchTells DEF Mouse!Next

LEMMA PointerFollows ==
  ASSUME PointerTypes, Looking, Hooked, Telling
  PROVE  Mouse!PointerAgrees
<1>1. due = 0 /\ hook = "idle" /\ (Mouse!Polls \/ at # Mouse!Nowhere) => at = place
  BY DEF Looking, Hooked, Resting, Moving
<1>2. ASSUME due = 0, queue = <<>>, ~button_crossed PROVE buttons = Mouse!Names(pressed)
  <2>1. CASE Mouse!Polls
    <3>1. buttons = Mouse!Names(down) /\ down = pressed
      BY <1>2, <2>1 DEF Looking
    <3> QED
      BY <3>1
  <2>2. CASE ~Mouse!Polls
    <3>1. Len(queue) = 0
      BY <1>2
    <3>2. \A b \in Mouse!Buttons : Mouse!Name(b) \in buttons <=> b \in pressed
      BY <2>2, <3>1 DEF Telling
    <3>3. {Mouse!Name(b) : b \in Mouse!Buttons} = {"Left", "Right"}
      BY DEF Mouse!Name, Mouse!Buttons
    <3>4. buttons \subseteq {"Left", "Right"} /\ pressed \subseteq Mouse!Buttons
      BY <2>2 DEF Telling, PointerTypes
    <3> QED
      BY <3>2, <3>3, <3>4 DEF Mouse!Names
  <2> QED
    BY <2>1, <2>2
<1> QED
  BY <1>1, <1>2 DEF Mouse!PointerAgrees

-----------------------------------------------------------------------------
(* The voice button                                                        *)

VoiceTasks ==
  [op : {"start", "stop", "send", "cancel"}, round : Nat, press : Nat,
   result : {"queued", "done", "failed"}, draft : Nat]

Waits(i) == tasks[i].result = "queued"

\* Only the first task has run.  Presses and rounds grow along the queue, and a
\* start that is still to come is of a later press than the one that runs;
\* a recording is shown after a press only.
Placed(i) ==
  /\ i > 1 => Waits(i)
  /\ tasks[i].round <= round
  /\ tasks[i].op = "start" => 0 < tasks[i].press /\ tasks[i].press <= presses
  /\ tasks[i].op = "start" /\ Waits(i) /\ slot = "on" => take < tasks[i].press

Ordered(i, j) ==
  /\ tasks[j].op # "send" => tasks[i].round < tasks[j].round
  /\ tasks[i].op = "start" /\ tasks[j].op = "start" => tasks[i].press < tasks[j].press

Queueing ==
  /\ tasks \in Seq(VoiceTasks)
  /\ round \in Nat /\ presses \in Nat /\ take \in Nat /\ take <= presses
  /\ \A i \in 1 .. Len(tasks) : Placed(i)
  /\ \A i, j \in 1 .. Len(tasks) : i < j => Ordered(i, j)
  /\ recording => presses > 0

\* The microphone is open, and the window has yet to hear of it.
Opened == Len(tasks) > 0 /\ tasks[1].op = "start" /\ tasks[1].result = "done"

\* What is offered is what is held, unless a task will take the offer back.
Wished(i) ==
  /\ tasks[i].op = "cancel" => offered = 0
  /\ tasks[i].draft # 0 =>
       /\ tasks[i].op = "stop" /\ tasks[i].result = "done" /\ held = tasks[i].draft
       /\ offered = 0 /\ slot = "none"

Offering ==
  /\ offered \in Nat /\ held \in Nat /\ slot \in {"none", "on", "ended"}
  /\ slot # "none" => offered = 0 \/ Opened
  /\ offered # 0 => held = offered \/ Opened \/ \E i \in 1 .. Len(tasks) : tasks[i].op = "send"
  /\ \A i \in 1 .. Len(tasks) : Wished(i)

\* Behind place i something ends the recording before the next one starts.
Ends(i) ==
  \E j \in i + 1 .. Len(tasks) :
    /\ tasks[j].op \in {"stop", "cancel"} /\ Waits(j)
    /\ \A k \in i + 1 .. j - 1 : tasks[k].op = "start" => ~Waits(k)

\* The recording of a press is the one shown, or will be ended, or its end came
\* with the failure of another.
Shows(press) == press \in crossed \/ (recording /\ press = presses)

Showing ==
  /\ slot = "on" => Shows(take) \/ Ends(0)
  /\ \A i \in 1 .. Len(tasks) :
       /\ tasks[i].op = "start" /\ Waits(i) => Shows(tasks[i].press) \/ Ends(i)
       /\ tasks[i].op = "start" /\ tasks[i].result = "failed" /\ slot = "on" => take \in crossed

Voicing == Queueing /\ Offering /\ Showing

LEMMA InitVoicing == Voice!Init => Voicing
<1> SUFFICES ASSUME Voice!Init PROVE Voicing
  OBVIOUS
<1>1. /\ recording = FALSE /\ offered = 0 /\ round = 0 /\ presses = 0 /\ tasks = <<>>
      /\ slot = "none" /\ take = 0 /\ held = 0
  BY DEF Voice!Init, Voice!None
<1>2. Len(tasks) = 0 /\ tasks \in Seq(VoiceTasks) /\ 1 .. Len(tasks) = {}
  BY <1>1, EmptySeq
<1>3. Queueing
  BY <1>1, <1>2 DEF Queueing
<1>4. Offering
  BY <1>1, <1>2 DEF Offering
<1>5. Showing
  BY <1>1, <1>2 DEF Showing
<1> QED
  BY <1>3, <1>4, <1>5 DEF Voicing

\* A task that is queued is behind the others.
LEMMA TaskQueued ==
  ASSUME tasks \in Seq(VoiceTasks), presses' \in Nat,
         NEW op \in {"start", "stop", "send", "cancel"}, NEW number \in Nat,
         Voice!Queued(op, number)
  PROVE  /\ tasks' \in Seq(VoiceTasks) /\ Len(tasks') = Len(tasks) + 1
         /\ \A i \in 1 .. Len(tasks) : tasks'[i] = tasks[i]
         /\ tasks'[Len(tasks) + 1].op = op /\ tasks'[Len(tasks) + 1].round = number
         /\ tasks'[Len(tasks) + 1].press = presses' /\ tasks'[Len(tasks) + 1].result = "queued"
         /\ tasks'[Len(tasks) + 1].draft = 0
<1> DEFINE t == [op |-> op, round |-> number, press |-> presses', result |-> "queued", draft |-> 0]
<1>1. t \in VoiceTasks
  BY DEF VoiceTasks
<1>2. tasks' = Append(tasks, t)
  BY DEF Voice!Queued, Voice!Task, Voice!None
<1>3. t.op = op /\ t.round = number /\ t.press = presses' /\ t.result = "queued" /\ t.draft = 0
  OBVIOUS
<1> HIDE DEF t
<1>4. /\ tasks' \in Seq(VoiceTasks) /\ Len(tasks') = Len(tasks) + 1
      /\ \A i \in 1 .. Len(tasks) : tasks'[i] = tasks[i]
      /\ tasks'[Len(tasks) + 1] = t
  BY <1>1, <1>2, AppendProperties
<1> QED
  BY <1>3, <1>4

\* A task that has run is the first, and stays what it was but for its result.
LEMMA TaskEnded ==
  ASSUME tasks \in Seq(VoiceTasks), NEW i \in DOMAIN tasks, i = 1,
         NEW result \in {"done", "failed"}, NEW draft \in Nat, Voice!Ended(i, result, draft)
  PROVE  /\ tasks' \in Seq(VoiceTasks) /\ Len(tasks') = Len(tasks) /\ Len(tasks) > 0
         /\ \A k \in 1 .. Len(tasks) : k > 1 => tasks'[k] = tasks[k]
         /\ tasks'[1].op = tasks[1].op /\ tasks'[1].round = tasks[1].round
         /\ tasks'[1].press = tasks[1].press
         /\ tasks'[1].result = result /\ tasks'[1].draft = draft
<1>1. tasks[1] \in VoiceTasks /\ Len(tasks) > 0 /\ Len(tasks) \in Nat /\ DOMAIN tasks = 1 .. Len(tasks)
  BY ElementOfSeq, LenProperties
<1> DEFINE t == [[tasks[1] EXCEPT !.result = result] EXCEPT !.draft = draft]
<1>2. /\ t \in VoiceTasks /\ t.op = tasks[1].op /\ t.round = tasks[1].round /\ t.press = tasks[1].press
      /\ t.result = result /\ t.draft = draft
  BY <1>1 DEF VoiceTasks
<1>3. tasks' = [tasks EXCEPT ![1] = t]
  BY <1>1, <1>2 DEF Voice!Ended, VoiceTasks
<1> HIDE DEF t
<1>4. /\ tasks' \in Seq(VoiceTasks) /\ Len(tasks') = Len(tasks)
      /\ \A k \in 1 .. Len(tasks) : k > 1 => tasks'[k] = tasks[k]
      /\ tasks'[1] = t
  BY <1>1, <1>2, <1>3, ExceptSeq
<1> QED
  BY <1>1, <1>2, <1>4

\* The first task is gone.
LEMMA TaskPopped ==
  ASSUME tasks \in Seq(VoiceTasks), Len(tasks) > 0, Voice!Popped(1)
  PROVE  /\ tasks' \in Seq(VoiceTasks) /\ Len(tasks') = Len(tasks) - 1
         /\ \A k \in 1 .. Len(tasks') : tasks'[k] = tasks[k + 1]
<1>1. SubSeq(tasks, 1, 0) = <<>> /\ Len(tasks) \in Nat
  BY SubSeqEmpty, LenProperties
<1>2. SubSeq(tasks, 2, Len(tasks)) = Tail(tasks) /\ Tail(tasks) \in Seq(VoiceTasks)
  BY TailIsSubSeq, HeadTailProperties, EmptySeq, <1>1
<1>3. tasks' = Tail(tasks)
  BY <1>1, <1>2, ConcatEmptySeq DEF Voice!Popped, Voice!RemoveAt
<1> QED
  BY <1>1, <1>2, <1>3, HeadTailProperties, EmptySeq

LEMMA QueueTyped ==
  ASSUME tasks \in Seq(VoiceTasks)
  PROVE  /\ Len(tasks) \in Nat /\ DOMAIN tasks = 1 .. Len(tasks)
         /\ \A i \in 1 .. Len(tasks) :
              /\ tasks[i].op \in {"start", "stop", "send", "cancel"}
              /\ tasks[i].round \in Nat /\ tasks[i].press \in Nat /\ tasks[i].draft \in Nat
              /\ tasks[i].result \in {"queued", "done", "failed"}
<1>1. Len(tasks) \in Nat /\ DOMAIN tasks = 1 .. Len(tasks)
  BY LenProperties
<1>2. \A i \in 1 .. Len(tasks) : tasks[i] \in VoiceTasks
  BY ElementOfSeq
<1> QED
  BY <1>1, <1>2 DEF VoiceTasks

-----------------------------------------------------------------------------
\* What the window does queues a task.
LEMMA QueueGrows ==
  ASSUME Queueing, NEW op \in {"start", "stop", "send", "cancel"},
         Voice!Queued(op, round'), round' = (IF op = "send" THEN round ELSE round + 1),
         presses' = (IF op = "start" THEN presses + 1 ELSE presses),
         recording' => recording \/ op = "start", UNCHANGED <<slot, take>>
  PROVE  /\ Queueing' /\ Len(tasks') = Len(tasks) + 1 /\ Len(tasks) \in Nat
         /\ \A i \in 1 .. Len(tasks) : tasks'[i] = tasks[i]
         /\ tasks'[Len(tasks) + 1].op = op /\ tasks'[Len(tasks) + 1].press = presses'
         /\ tasks'[Len(tasks) + 1].result = "queued" /\ tasks'[Len(tasks) + 1].draft = 0
<1>1. /\ tasks \in Seq(VoiceTasks) /\ round \in Nat /\ presses \in Nat /\ take \in Nat /\ take <= presses
      /\ presses' \in Nat /\ round' \in Nat
  BY DEF Queueing
<1>2. /\ tasks' \in Seq(VoiceTasks) /\ Len(tasks') = Len(tasks) + 1
      /\ \A i \in 1 .. Len(tasks) : tasks'[i] = tasks[i]
      /\ tasks'[Len(tasks) + 1].op = op /\ tasks'[Len(tasks) + 1].round = round'
      /\ tasks'[Len(tasks) + 1].press = presses' /\ tasks'[Len(tasks) + 1].result = "queued"
      /\ tasks'[Len(tasks) + 1].draft = 0
  BY <1>1, TaskQueued
<1>3. Len(tasks) \in Nat
        /\ \A i \in 1 .. Len(tasks) : tasks[i].round \in Nat /\ tasks[i].press \in Nat
  BY <1>1, QueueTyped
<1>4. ASSUME NEW i \in 1 .. Len(tasks') PROVE Placed(i)'
  <2>1. CASE i \in 1 .. Len(tasks)
    <3>1. Placed(i) /\ tasks'[i] = tasks[i]
      BY <1>2, <2>1 DEF Queueing
    <3> QED
      BY <1>1, <1>3, <2>1, <3>1 DEF Placed, Waits
  <2>2. CASE i = Len(tasks) + 1
    BY <1>1, <1>2, <2>2 DEF Placed, Waits
  <2> QED
    BY <1>2, <1>3, <2>1, <2>2
<1>5. ASSUME NEW i \in 1 .. Len(tasks'), NEW j \in 1 .. Len(tasks'), i < j PROVE Ordered(i, j)'
  <2>0. i \in 1 .. Len(tasks) /\ tasks'[i] = tasks[i] /\ Placed(i)
    BY <1>2, <1>3, <1>5 DEF Queueing
  <2>1. CASE j \in 1 .. Len(tasks)
    <3>1. Ordered(i, j) /\ tasks'[j] = tasks[j]
      BY <1>2, <1>5, <2>0, <2>1 DEF Queueing
    <3> QED
      BY <2>0, <3>1 DEF Ordered
  <2>2. CASE j = Len(tasks) + 1
    BY <1>1, <1>2, <1>3, <2>0, <2>2 DEF Ordered, Placed
  <2> QED
    BY <1>2, <1>3, <2>1, <2>2
<1>6. recording' => presses' > 0
  BY <1>1 DEF Queueing
<1>7. Queueing'
  BY <1>1, <1>2, <1>4, <1>5, <1>6 DEF Queueing
<1> QED
  BY <1>2, <1>3, <1>7

LEMMA PressVoices ==
  ASSUME Voicing, Voice!Press
  PROVE  Voicing'
<1> USE DEF Voicing
<1>1. /\ recording = FALSE /\ recording' = TRUE /\ round' = round + 1 /\ presses' = presses + 1
      /\ Voice!Queued("start", round') /\ UNCHANGED <<offered, slot, take, held, crossed>>
      /\ tasks \in Seq(VoiceTasks) /\ round \in Nat /\ presses \in Nat
  BY DEF Voice!Press, Voice!recorder, Queueing
<1>2. /\ Queueing' /\ Len(tasks') = Len(tasks) + 1 /\ Len(tasks) \in Nat
      /\ \A i \in 1 .. Len(tasks) : tasks'[i] = tasks[i]
      /\ tasks'[Len(tasks) + 1].op = "start" /\ tasks'[Len(tasks) + 1].press = presses'
      /\ tasks'[Len(tasks) + 1].result = "queued" /\ tasks'[Len(tasks) + 1].draft = 0
  BY <1>1, QueueGrows
<1> USE <1>1, <1>2
<1>3. ASSUME NEW i \in 1 .. Len(tasks') PROVE Wished(i)'
  <2>1. CASE i \in 1 .. Len(tasks)
    BY <2>1 DEF Wished, Offering
  <2>2. CASE i = Len(tasks) + 1
    BY <2>2 DEF Wished
  <2> QED
    BY <2>1, <2>2
<1>4. Offering'
  BY <1>3 DEF Offering, Opened
<1>5. \A i \in 0 .. Len(tasks) : Ends(i) => Ends(i)'
  BY DEF Ends, Waits
<1>6. \A p \in Nat : Shows(p) => Shows(p)'
  BY DEF Shows
<1>7. Showing'
  <2>1. slot = "on" => (Shows(take) \/ Ends(0))'
    BY <1>5, <1>6 DEF Showing, Queueing
  <2>2. ASSUME NEW i \in 1 .. Len(tasks'), tasks'[i].op = "start", Waits(i)'
        PROVE  (Shows(tasks[i].press) \/ Ends(i))'
    <3>1. CASE i \in 1 .. Len(tasks)
      BY <1>5, <1>6, <2>2, <3>1, QueueTyped DEF Showing, Waits, Queueing
    <3>2. CASE i = Len(tasks) + 1
      BY <3>2 DEF Shows
    <3> QED
      BY <3>1, <3>2
  <2>3. ASSUME NEW i \in 1 .. Len(tasks'), tasks'[i].op = "start", tasks'[i].result = "failed", slot' = "on"
        PROVE  take' \in crossed'
    BY <2>3 DEF Showing
  <2> QED
    BY <2>1, <2>2, <2>3 DEF Showing
<1> QED
  BY <1>2, <1>4, <1>7

\* A release, or a cancellation, is the end of what is shown.
LEMMA EndVoices ==
  ASSUME Voicing, Voice!Release \/ Voice!Cancel
  PROVE  Voicing'
<1> USE DEF Voicing
<1>1. PICK op \in {"stop", "cancel"} :
        /\ recording' = FALSE /\ round' = round + 1 /\ UNCHANGED presses
        /\ Voice!Queued(op, round') /\ UNCHANGED <<slot, take, held, crossed>>
        /\ offered' = (IF op = "stop" THEN offered ELSE 0)
        /\ tasks \in Seq(VoiceTasks) /\ round \in Nat /\ presses \in Nat
  BY DEF Voice!Release, Voice!Cancel, Voice!recorder, Voice!None, Queueing
<1>2. /\ Queueing' /\ Len(tasks') = Len(tasks) + 1 /\ Len(tasks) \in Nat
      /\ \A i \in 1 .. Len(tasks) : tasks'[i] = tasks[i]
      /\ tasks'[Len(tasks) + 1].op = op /\ tasks'[Len(tasks) + 1].press = presses'
      /\ tasks'[Len(tasks) + 1].result = "queued" /\ tasks'[Len(tasks) + 1].draft = 0
  BY <1>1, QueueGrows
<1> USE <1>1, <1>2
<1>3. ASSUME NEW i \in 1 .. Len(tasks') PROVE Wished(i)'
  <2>1. CASE i \in 1 .. Len(tasks)
    BY <2>1 DEF Wished, Offering
  <2>2. CASE i = Len(tasks) + 1
    BY <2>2 DEF Wished
  <2> QED
    BY <2>1, <2>2
<1>4. Offering'
  BY <1>3 DEF Offering, Opened
<1>5. \A i \in 0 .. Len(tasks) : Ends(i) => Ends(i)'
  BY DEF Ends, Waits
<1>6. ASSUME NEW i \in 0 .. Len(tasks), \A k \in i + 1 .. Len(tasks) : tasks[k].op = "start" => ~Waits(k)
      PROVE  Ends(i)'
  <2>1. PICK n \in Nat : n = Len(tasks)
    OBVIOUS
  <2>2. n + 1 \in i + 1 .. Len(tasks') /\ (n + 1) - 1 = n
    BY <2>1
  <2>3. tasks'[n + 1].op \in {"stop", "cancel"} /\ tasks'[n + 1].result = "queued"
    BY <2>1
  <2>4. \A k \in i + 1 .. n : tasks'[k].op = "start" => tasks'[k].result # "queued"
    BY <1>6, <2>1 DEF Waits
  <2> QED
    BY <2>2, <2>3, <2>4 DEF Ends, Waits
<1>7. \A p \in Nat : Shows(p) => Shows(p)' \/ p = presses
  BY DEF Shows
<1>8. \A i \in 1 .. Len(tasks) : tasks[i].op = "start" /\ tasks[i].press = presses
        => \A k \in i + 1 .. Len(tasks) : tasks[k].op = "start" => ~Waits(k)
  <2> SUFFICES ASSUME NEW i \in 1 .. Len(tasks), tasks[i].op = "start", tasks[i].press = presses,
                      NEW k \in i + 1 .. Len(tasks), tasks[k].op = "start"
               PROVE  FALSE
    OBVIOUS
  <2>1. k \in 1 .. Len(tasks) /\ i < k /\ tasks[k].press \in Nat
    BY QueueTyped
  <2>2. Ordered(i, k) /\ Placed(k)
    BY <2>1 DEF Queueing
  <2> QED
    BY <2>1, <2>2 DEF Ordered, Placed
<1>9. slot = "on" /\ take = presses => \A k \in 1 .. Len(tasks) : tasks[k].op = "start" => ~Waits(k)
  BY QueueTyped DEF Queueing, Placed
<1>10. ASSUME slot = "on" PROVE (Shows(take) \/ Ends(0))'
  BY <1>10, <1>5, <1>6, <1>7, <1>9 DEF Showing, Queueing
<1>11. ASSUME NEW i \in 1 .. Len(tasks'), tasks'[i].op = "start", Waits(i)'
       PROVE  (Shows(tasks[i].press) \/ Ends(i))'
  <2>1. i \in 1 .. Len(tasks) /\ tasks[i].op = "start" /\ Waits(i) /\ tasks'[i] = tasks[i]
    BY <1>11 DEF Waits
  <2> QED
    BY <2>1, <1>5, <1>6, <1>7, <1>8 DEF Showing, Shows
<1>12. Showing'
  BY <1>10, <1>11 DEF Showing
<1> QED
  BY <1>2, <1>4, <1>12

LEMMA SendVoices ==
  ASSUME Voicing, Voice!Send
  PROVE  Voicing'
<1> USE DEF Voicing
<1>1. /\ Voice!Queued("send", round) /\ UNCHANGED <<recording, offered, round, presses, slot, take, held, crossed>>
      /\ tasks \in Seq(VoiceTasks) /\ round \in Nat /\ presses \in Nat
  BY DEF Voice!Send, Voice!recorder, Queueing
<1>2. /\ Queueing' /\ Len(tasks') = Len(tasks) + 1 /\ Len(tasks) \in Nat
      /\ \A i \in 1 .. Len(tasks) : tasks'[i] = tasks[i]
      /\ tasks'[Len(tasks) + 1].op = "send" /\ tasks'[Len(tasks) + 1].press = presses'
      /\ tasks'[Len(tasks) + 1].result = "queued" /\ tasks'[Len(tasks) + 1].draft = 0
  BY <1>1, QueueGrows
<1> USE <1>1, <1>2
<1>3. ASSUME NEW i \in 1 .. Len(tasks') PROVE Wished(i)'
  <2>1. CASE i \in 1 .. Len(tasks)
    BY <2>1 DEF Wished, Offering
  <2>2. CASE i = Len(tasks) + 1
    BY <2>2 DEF Wished
  <2> QED
    BY <2>1, <2>2
<1>4. Offering'
  BY <1>3 DEF Offering, Opened
<1>5. \A i \in 0 .. Len(tasks) : Ends(i) => Ends(i)'
  BY DEF Ends, Waits
<1>6. \A p \in Nat : Shows(p) => Shows(p)'
  BY DEF Shows
<1>7. Showing'
  BY <1>5, <1>6 DEF Showing, Waits, Shows, Queueing
<1> QED
  BY <1>2, <1>4, <1>7

-----------------------------------------------------------------------------
\* A command runs the first task.
LEMMA QueueRuns ==
  ASSUME Queueing, NEW i \in DOMAIN tasks, i = 1, Waits(1),
         NEW result \in {"done", "failed"}, NEW draft \in Nat, Voice!Ended(i, result, draft),
         UNCHANGED <<recording, round, presses>>, take' \in Nat, take' <= presses,
         slot' = "on" => \/ slot = "on" /\ take' = take
                         \/ tasks[1].op = "start" /\ take' = tasks[1].press
  PROVE  /\ Queueing' /\ Len(tasks') = Len(tasks) /\ Len(tasks) > 0 /\ Len(tasks) \in Nat
         /\ \A k \in 1 .. Len(tasks) : k > 1 => tasks'[k] = tasks[k]
         /\ tasks'[1].op = tasks[1].op /\ tasks'[1].press = tasks[1].press
         /\ tasks'[1].result = result /\ tasks'[1].draft = draft
<1>1. /\ tasks \in Seq(VoiceTasks) /\ round \in Nat /\ presses \in Nat /\ take \in Nat
  BY DEF Queueing
<1>2. /\ tasks' \in Seq(VoiceTasks) /\ Len(tasks') = Len(tasks) /\ Len(tasks) > 0
      /\ \A k \in 1 .. Len(tasks) : k > 1 => tasks'[k] = tasks[k]
      /\ tasks'[1].op = tasks[1].op /\ tasks'[1].round = tasks[1].round
      /\ tasks'[1].press = tasks[1].press
      /\ tasks'[1].result = result /\ tasks'[1].draft = draft
  BY <1>1, TaskEnded
<1>3. Len(tasks) \in Nat
  BY <1>1, QueueTyped
<1>4. \A k \in 1 .. Len(tasks) :
        /\ tasks'[k].op = tasks[k].op /\ tasks'[k].round = tasks[k].round /\ tasks'[k].press = tasks[k].press
        /\ (k > 1 => tasks'[k].result = tasks[k].result)
  BY <1>2, <1>3
<1>5. ASSUME NEW k \in 1 .. Len(tasks') PROVE Placed(k)'
  <2>1. Placed(k) /\ k \in 1 .. Len(tasks)
    BY <1>2 DEF Queueing
  <2>2. CASE k = 1
    BY <1>2, <1>4, <2>1, <2>2 DEF Placed, Waits
  <2>3. CASE k > 1
    <3>1. Ordered(1, k)
      BY <2>1, <2>3, <1>3 DEF Queueing
    <3> QED
      BY <1>4, <2>1, <2>3, <3>1 DEF Placed, Waits, Ordered
  <2> QED
    BY <1>3, <2>1, <2>2, <2>3
<1>6. ASSUME NEW k \in 1 .. Len(tasks'), NEW j \in 1 .. Len(tasks'), k < j PROVE Ordered(k, j)'
  <2>1. Ordered(k, j) /\ k \in 1 .. Len(tasks) /\ j \in 1 .. Len(tasks)
    BY <1>2, <1>6 DEF Queueing
  <2> QED
    BY <1>4, <2>1 DEF Ordered
<1>7. recording' => presses' > 0
  BY DEF Queueing
<1>8. Queueing'
  BY <1>1, <1>2, <1>5, <1>6, <1>7 DEF Queueing
<1> QED
  BY <1>2, <1>3, <1>8

-----------------------------------------------------------------------------
\* A start that has run has opened the microphone or left it as it was.
LEMMA StartVoices ==
  ASSUME Voicing, NEW i \in DOMAIN tasks, Voice!StartRecording(i)
  PROVE  Voicing'
<1> USE DEF Voicing
<1>1. /\ i = 1 /\ Waits(1) /\ tasks[1].op = "start" /\ Len(tasks) > 0
      /\ UNCHANGED <<recording, offered, round, presses, crossed>>
      /\ tasks \in Seq(VoiceTasks) /\ take \in Nat
  BY QueueTyped DEF Voice!StartRecording, Voice!Begins, Voice!window, Queueing, Waits
<1>2. PICK result \in {"done", "failed"} :
        /\ Voice!Ended(i, result, 0)
        /\ \/ result = "failed" /\ UNCHANGED <<slot, take, held>> /\ slot = "on"
           \/ result = "failed" /\ slot' = "none" /\ UNCHANGED <<take, held>>
           \/ result = "done" /\ slot' = "on" /\ take' = tasks[1].press /\ held' = 0
  <2>1. CASE Voice!Recording /\ Voice!Ended(i, "failed", Voice!None) /\ UNCHANGED Voice!recorder
    BY <2>1 DEF Voice!Recording, Voice!recorder, Voice!None
  <2>2. CASE slot' = "on"
    BY <2>2, <1>1 DEF Voice!StartRecording, Voice!Recording, Voice!Spawned, Voice!None, Voice!recorder
  <2>3. CASE slot' = "none"
    BY <2>3, <1>1 DEF Voice!StartRecording, Voice!Recording, Voice!Spawned, Voice!None, Voice!recorder
  <2> QED
    BY <2>1, <2>2, <2>3 DEF Voice!StartRecording, Voice!Spawned
<1>4. slot = "on" => take < tasks[1].press
  BY <1>1, QueueTyped DEF Queueing, Placed
<1>5. tasks[1].press <= presses /\ tasks[1].press \in Nat /\ presses \in Nat /\ take <= presses
  BY <1>1, QueueTyped DEF Queueing, Placed
<1>3. /\ Queueing' /\ Len(tasks') = Len(tasks) /\ Len(tasks) > 0 /\ Len(tasks) \in Nat
      /\ \A k \in 1 .. Len(tasks) : k > 1 => tasks'[k] = tasks[k]
      /\ tasks'[1].op = "start" /\ tasks'[1].press = tasks[1].press
      /\ tasks'[1].result = result /\ tasks'[1].draft = 0
  <2>1. take' \in Nat /\ take' <= presses
    BY <1>1, <1>2, <1>5
  <2>2. slot' = "on" => \/ slot = "on" /\ take' = take
                        \/ tasks[1].op = "start" /\ take' = tasks[1].press
    BY <1>1, <1>2
  <2> QED
    BY <1>1, <1>2, <2>1, <2>2, QueueRuns
<1>6. Offering'
  <2>1. ASSUME NEW k \in 1 .. Len(tasks') PROVE Wished(k)'
    <3>1. Wished(k) /\ k \in 1 .. Len(tasks)
      BY <1>3 DEF Offering
    <3>2. CASE k = 1
      BY <1>3, <3>2 DEF Wished
    <3>3. CASE k > 1
      <4>1. tasks'[k] = tasks[k] /\ tasks[k].result = "queued"
        BY <1>3, <3>1, <3>3 DEF Queueing, Placed, Waits
      <4> QED
        BY <1>1, <3>1, <4>1 DEF Wished
    <3> QED
      BY <1>3, <3>1, <3>2, <3>3
  <2>2. ~Opened /\ (result = "done" => Opened')
    BY <1>1, <1>3 DEF Opened, Waits
  <2>3. offered \in Nat /\ held' \in Nat /\ slot' \in {"none", "on", "ended"}
    BY <1>2 DEF Offering
  <2>4. ASSUME NEW k \in 1 .. Len(tasks), tasks[k].op = "send" PROVE tasks'[k].op = "send"
    BY <1>1, <1>3, <2>4
  <2>5. slot' # "none" => offered' = 0 \/ Opened'
    BY <1>1, <1>2, <2>2 DEF Offering
  <2>6. offered' # 0 => held' = offered' \/ Opened' \/ \E k \in 1 .. Len(tasks') : tasks'[k].op = "send"
    BY <1>1, <1>2, <1>3, <2>2, <2>4 DEF Offering
  <2> QED
    BY <1>1, <2>1, <2>3, <2>5, <2>6 DEF Offering
<1>7. \A k \in 1 .. Len(tasks) : Ends(k) => Ends(k)'
  BY <1>1, <1>3 DEF Ends, Waits
<1>8. ~Ends(0)
  BY <1>1 DEF Ends
<1>9. \A p \in Nat : Shows(p) => Shows(p)'
  BY <1>1 DEF Shows
<1>10. slot = "on" => take \in crossed
  BY <1>1, <1>4, <1>5, <1>8 DEF Showing, Shows
<1>11. Ends(1)' => Ends(0)'
  BY <1>2, <1>3 DEF Ends, Waits
<1>12. ASSUME slot' = "on" PROVE (Shows(take) \/ Ends(0))'
  BY <1>1, <1>2, <1>3, <1>7, <1>9, <1>10, <1>11, <1>12 DEF Showing, Shows
<1>13. ASSUME NEW k \in 1 .. Len(tasks'), tasks'[k].op = "start", Waits(k)'
       PROVE  (Shows(tasks[k].press) \/ Ends(k))'
  <2>1. k \in 1 .. Len(tasks) /\ k > 1 /\ tasks'[k] = tasks[k]
    BY <1>2, <1>3, <1>13 DEF Waits
  <2> QED
    BY <1>7, <1>9, <1>13, <2>1, QueueTyped, <1>1 DEF Showing, Waits
<1>14. ASSUME NEW k \in 1 .. Len(tasks'), tasks'[k].op = "start", tasks'[k].result = "failed", slot' = "on"
       PROVE  take' \in crossed'
  <2>1. CASE k = 1
    BY <1>1, <1>2, <1>3, <1>10, <1>14, <2>1
  <2>2. CASE k > 1
    BY <1>3, <1>14, <2>2 DEF Queueing, Placed, Waits
  <2> QED
    BY <1>3, <2>1, <2>2
<1>15. Showing'
  BY <1>12, <1>13, <1>14 DEF Showing
<1> QED
  BY <1>3, <1>6, <1>15

\* A stop, a cancellation or a send that has run has nothing open behind it
\* that was open before, or nothing held.
LEMMA OthersVoice ==
  ASSUME Voicing, NEW i \in DOMAIN tasks,
         Voice!StopRecording(i) \/ Voice!CancelRecording(i) \/ Voice!SendRecording(i)
  PROVE  Voicing'
<1> USE DEF Voicing
<1>1. /\ i = 1 /\ Waits(1) /\ tasks[1].op # "start" /\ Len(tasks) > 0
      /\ UNCHANGED <<recording, offered, round, presses, crossed, take>>
      /\ tasks \in Seq(VoiceTasks) /\ take \in Nat
  BY QueueTyped DEF Voice!StopRecording, Voice!CancelRecording, Voice!SendRecording, Voice!Taken,
                    Voice!Begins, Voice!window, Queueing, Waits
<1>2. PICK result \in {"done", "failed"}, draft \in Nat :
        /\ Voice!Ended(i, result, draft)
        /\ slot' = (IF tasks[1].op = "send" THEN slot ELSE "none")
        /\ \/ tasks[1].op = "stop" /\ draft = 0 /\ held' = held
           \/ tasks[1].op = "stop" /\ slot # "none" /\ draft = take /\ held' = take /\ result = "done"
           \/ tasks[1].op \in {"send", "cancel"} /\ draft = 0 /\ held' = 0
  <2>1. CASE Voice!StopRecording(i)
    BY <1>1, <2>1 DEF Voice!StopRecording, Voice!Taken, Voice!None
  <2>2. CASE Voice!CancelRecording(i)
    BY <1>1, <2>2 DEF Voice!CancelRecording, Voice!Taken, Voice!None
  <2>3. CASE Voice!SendRecording(i)
    BY <1>1, <2>3 DEF Voice!SendRecording, Voice!None
  <2> QED
    BY <2>1, <2>2, <2>3
<1>3. /\ Queueing' /\ Len(tasks') = Len(tasks) /\ Len(tasks) > 0 /\ Len(tasks) \in Nat
      /\ \A k \in 1 .. Len(tasks) : k > 1 => tasks'[k] = tasks[k]
      /\ tasks'[1].op = tasks[1].op /\ tasks'[1].press = tasks[1].press
      /\ tasks'[1].result = result /\ tasks'[1].draft = draft
  <2>1. take' \in Nat /\ take' <= presses
    BY <1>1 DEF Queueing
  <2>2. slot' = "on" => slot = "on" /\ take' = take
    BY <1>1, <1>2
  <2> QED
    BY <1>1, <1>2, <2>1, <2>2, QueueRuns
<1>5. Offering'
  <2>0. ~Opened
    BY <1>1 DEF Opened
  <2>1. tasks[1].op = "cancel" => offered = 0
    BY <1>3 DEF Offering, Wished
  <2>2. slot # "none" => offered = 0
    BY <2>0 DEF Offering
  <2>3. ASSUME NEW k \in 1 .. Len(tasks') PROVE Wished(k)'
    <3>1. Wished(k) /\ k \in 1 .. Len(tasks)
      BY <1>3 DEF Offering
    <3>2. CASE k = 1
      BY <1>1, <1>2, <1>3, <2>1, <2>2, <3>2 DEF Wished
    <3>3. CASE k > 1
      <4>1. tasks'[k] = tasks[k] /\ tasks[k].result = "queued"
        BY <1>3, <3>1, <3>3 DEF Queueing, Placed, Waits
      <4> QED
        BY <1>1, <3>1, <4>1 DEF Wished
    <3> QED
      BY <1>3, <3>1, <3>2, <3>3
  <2>4. offered \in Nat /\ held' \in Nat /\ slot' \in {"none", "on", "ended"}
    BY <1>1, <1>2 DEF Offering
  <2>5. slot' # "none" => offered' = 0
    BY <1>1, <1>2, <2>2
  <2>6. ASSUME NEW k \in 1 .. Len(tasks), tasks[k].op = "send" PROVE tasks'[k].op = "send"
    BY <1>1, <1>3, <2>6
  <2>7. offered' # 0 => held' = offered' \/ \E k \in 1 .. Len(tasks') : tasks'[k].op = "send"
    BY <1>1, <1>2, <1>3, <2>0, <2>1, <2>2, <2>6 DEF Offering
  <2> QED
    BY <1>1, <2>3, <2>4, <2>5, <2>7 DEF Offering
<1>6. \A k \in 1 .. Len(tasks) : Ends(k) => Ends(k)'
  BY <1>1, <1>3 DEF Ends, Waits
<1>7. \A p \in Nat : Shows(p) => Shows(p)'
  BY <1>1 DEF Shows
<1>8. ASSUME slot' = "on" PROVE (Shows(take) \/ Ends(0))'
  <2>1. tasks[1].op = "send" /\ slot = "on"
    BY <1>1, <1>2, <1>8
  <2>2. Ends(0) => Ends(0)'
    BY <1>1, <1>3, <2>1 DEF Ends, Waits
  <2> QED
    BY <1>1, <1>7, <2>1, <2>2 DEF Showing
<1>9. ASSUME NEW k \in 1 .. Len(tasks'), tasks'[k].op = "start", Waits(k)'
      PROVE  (Shows(tasks[k].press) \/ Ends(k))'
  <2>1. k \in 1 .. Len(tasks) /\ k > 1 /\ tasks'[k] = tasks[k]
    BY <1>1, <1>3, <1>9
  <2> QED
    BY <1>6, <1>7, <1>9, <2>1, QueueTyped, <1>1 DEF Showing, Waits
<1>10. ASSUME NEW k \in 1 .. Len(tasks'), tasks'[k].op = "start", tasks'[k].result = "failed", slot' = "on"
       PROVE  take' \in crossed'
  <2>1. CASE k = 1
    BY <1>1, <1>3, <1>10, <2>1
  <2>2. CASE k > 1
    BY <1>3, <1>10, <2>2 DEF Queueing, Placed, Waits
  <2> QED
    BY <1>3, <2>1, <2>2
<1>11. Showing'
  BY <1>8, <1>9, <1>10 DEF Showing
<1> QED
  BY <1>3, <1>5, <1>11

-----------------------------------------------------------------------------
\* A result that has come back takes the first task from the queue.
LEMMA QueueMoves ==
  ASSUME Queueing, Len(tasks) > 0, Voice!Popped(1),
         UNCHANGED <<round, presses, slot, take>>, recording' => recording
  PROVE  /\ Queueing' /\ Len(tasks') = Len(tasks) - 1 /\ Len(tasks) \in Nat
         /\ \A k \in 1 .. Len(tasks') : tasks'[k] = tasks[k + 1] /\ tasks'[k].result = "queued"
<1>1. /\ tasks \in Seq(VoiceTasks) /\ round \in Nat /\ presses \in Nat /\ take \in Nat /\ take <= presses
      /\ Len(tasks) \in Nat
  BY QueueTyped DEF Queueing
<1>2. /\ tasks' \in Seq(VoiceTasks) /\ Len(tasks') = Len(tasks) - 1
      /\ \A k \in 1 .. Len(tasks') : tasks'[k] = tasks[k + 1]
  BY <1>1, TaskPopped
<1>3. ASSUME NEW k \in 1 .. Len(tasks') PROVE Placed(k)' /\ tasks'[k].result = "queued"
  <2>1. Placed(k + 1) /\ k + 1 > 1 /\ tasks'[k] = tasks[k + 1]
    BY <1>1, <1>2 DEF Queueing
  <2> QED
    BY <2>1 DEF Placed, Waits
<1>4. ASSUME NEW k \in 1 .. Len(tasks'), NEW j \in 1 .. Len(tasks'), k < j PROVE Ordered(k, j)'
  <2>1. Ordered(k + 1, j + 1)
    BY <1>1, <1>2, <1>4 DEF Queueing
  <2> QED
    BY <1>2, <2>1 DEF Ordered
<1>5. recording' => presses' > 0
  BY DEF Queueing
<1>6. Queueing'
  BY <1>1, <1>2, <1>3, <1>4, <1>5 DEF Queueing
<1> QED
  BY <1>1, <1>2, <1>3, <1>6

\* What has come back is the first.
LEMMA FirstComesBack ==
  ASSUME Queueing, NEW i \in DOMAIN tasks, tasks[i].result # "queued"
  PROVE  i = 1 /\ Len(tasks) > 0 /\ Len(tasks) \in Nat
<1>1. Len(tasks) \in Nat /\ DOMAIN tasks = 1 .. Len(tasks)
  BY QueueTyped DEF Queueing
<1> QED
  BY <1>1 DEF Queueing, Placed, Waits

\* The ends of recordings move with their queue.
LEMMA EndsMove ==
  ASSUME Len(tasks) \in Nat, Len(tasks) > 0, Len(tasks') = Len(tasks) - 1,
         \A k \in 1 .. Len(tasks') : tasks'[k] = tasks[k + 1]
  PROVE  /\ \A i \in 1 .. Len(tasks) : Ends(i) => Ends(i - 1)'
         /\ ~Waits(1) /\ Ends(0) => Ends(0)'
<1>1. ASSUME NEW i \in 1 .. Len(tasks), NEW j \in i + 1 .. Len(tasks),
             tasks[j].op \in {"stop", "cancel"}, Waits(j),
             \A k \in i + 1 .. j - 1 : tasks[k].op = "start" => ~Waits(k)
      PROVE  Ends(i - 1)'
  <2>1. j - 1 \in (i - 1) + 1 .. Len(tasks') /\ tasks'[j - 1] = tasks[j]
    <3>1. j - 1 \in 1 .. Len(tasks') /\ (j - 1) + 1 = j
      OBVIOUS
    <3> QED
      BY <3>1
  <2>2. ASSUME NEW k \in (i - 1) + 1 .. (j - 1) - 1, tasks'[k].op = "start"
        PROVE  tasks'[k].result # "queued"
    <3>1. k + 1 \in i + 1 .. j - 1 /\ k \in 1 .. Len(tasks')
      OBVIOUS
    <3> QED
      BY <1>1, <2>2, <3>1 DEF Waits
  <2> QED
    BY <1>1, <2>1, <2>2 DEF Ends, Waits
<1>2. \A i \in 1 .. Len(tasks) : Ends(i) => Ends(i - 1)'
  BY <1>1 DEF Ends
<1>3. ~Waits(1) /\ Ends(0) => Ends(1)
  <2> SUFFICES ASSUME ~Waits(1), NEW j \in 0 + 1 .. Len(tasks),
                      tasks[j].op \in {"stop", "cancel"}, Waits(j),
                      \A k \in 0 + 1 .. j - 1 : tasks[k].op = "start" => ~Waits(k)
               PROVE  Ends(1)
    BY DEF Ends
  <2>1. j \in 1 + 1 .. Len(tasks) /\ \A k \in 1 + 1 .. j - 1 : tasks[k].op = "start" => ~Waits(k)
    OBVIOUS
  <2> QED
    BY <2>1 DEF Ends
<1> QED
  BY <1>2, <1>3

\* A failure may come with the end of a recording that is not its own, which is
\* noted; what had to be taken back with it is taken back.
LEMMA FailureVoices ==
  ASSUME Voicing, NEW i \in DOMAIN tasks, Voice!Failed(i)
  PROVE  Voicing'
<1> USE DEF Voicing
<1>1. /\ i = 1 /\ Len(tasks) > 0 /\ Len(tasks) \in Nat /\ tasks[1].result = "failed" /\ Voice!Popped(1)
      /\ recording' = FALSE /\ UNCHANGED <<round, presses, slot, take, held>>
      /\ crossed' = (IF recording /\ ~Voice!Own(tasks[1]) THEN crossed \cup {presses} ELSE crossed)
      /\ offered' = (IF tasks[1].op = "send" THEN 0 ELSE offered)
  BY FirstComesBack DEF Voice!Failed, Voice!recorder, Voice!None
<1>2. /\ Queueing' /\ Len(tasks') = Len(tasks) - 1
      /\ \A k \in 1 .. Len(tasks') : tasks'[k] = tasks[k + 1] /\ tasks'[k].result = "queued"
  BY <1>1, QueueMoves
<1>3. Offering'
  <2>1. ASSUME NEW k \in 1 .. Len(tasks') PROVE Wished(k)'
    <3>1. Wished(k + 1) /\ tasks'[k] = tasks[k + 1]
      BY <1>1, <1>2 DEF Offering
    <3> QED
      BY <1>1, <3>1 DEF Wished
  <2>2. ~Opened
    BY <1>1 DEF Opened
  <2>3. offered' # 0 => held' = offered' \/ \E k \in 1 .. Len(tasks') : tasks'[k].op = "send"
    <3> SUFFICES ASSUME offered' # 0, held # offered
                 PROVE  \E k \in 1 .. Len(tasks') : tasks'[k].op = "send"
      BY <1>1
    <3>1. PICK k \in 1 .. Len(tasks) : tasks[k].op = "send" /\ k # 1
      BY <1>1, <2>2 DEF Offering
    <3>2. k - 1 \in 1 .. Len(tasks') /\ (k - 1) + 1 = k
      BY <1>1, <1>2, <3>1
    <3> QED
      BY <1>2, <3>1, <3>2
  <2> QED
    BY <1>1, <2>1, <2>2, <2>3 DEF Offering
<1>4. \A p \in Nat : Shows(p) => p \in crossed' \/ Voice!Own(tasks[1])
  BY <1>1 DEF Shows
<1>5. slot = "on" /\ Voice!Own(tasks[1]) => take \in crossed
  BY <1>1 DEF Voice!Own, Showing
<1>6. /\ \A k \in 1 .. Len(tasks) : Ends(k) => Ends(k - 1)'
      /\ Ends(0) => Ends(0)'
  BY <1>1, <1>2, EndsMove DEF Waits
<1>7. ASSUME slot = "on" PROVE (Shows(take) \/ Ends(0))'
  <2>1. take \in Nat /\ (Shows(take) \/ Ends(0))
    BY <1>7 DEF Showing, Queueing
  <2> QED
    BY <1>1, <1>4, <1>5, <1>6, <1>7, <2>1 DEF Shows
<1>8. ASSUME NEW k \in 1 .. Len(tasks'), tasks'[k].op = "start", Waits(k)'
      PROVE  (Shows(tasks[k].press) \/ Ends(k))'
  <2>1. k + 1 \in 1 .. Len(tasks) /\ 1 < k + 1 /\ tasks'[k] = tasks[k + 1] /\ (k + 1) - 1 = k
    BY <1>1, <1>2
  <2>2. Shows(tasks[k + 1].press) \/ Ends(k + 1)
    BY <1>8, <2>1 DEF Showing, Waits
  <2>3. tasks[k + 1].press \in Nat /\ tasks[1].press \in Nat /\ presses \in Nat
    BY <1>1, <2>1, QueueTyped DEF Queueing
  <2>4. Ordered(1, k + 1) /\ Placed(k + 1)
    BY <1>1, <2>1 DEF Queueing
  <2>5. ~Voice!Own(tasks[1])
    BY <1>8, <2>1, <2>3, <2>4 DEF Voice!Own, Ordered, Placed
  <2> QED
    BY <1>4, <1>6, <2>1, <2>2, <2>3, <2>5 DEF Shows
<1>9. Showing'
  BY <1>1, <1>2, <1>7, <1>8 DEF Showing
<1> QED
  BY <1>2, <1>3, <1>9

\* The draft of a stop is offered only if nothing was done since.
LEMMA ResultVoices ==
  ASSUME Voicing, NEW i \in DOMAIN tasks, Voice!Done(i)
  PROVE  Voicing'
<1> USE DEF Voicing
<1>1. /\ i = 1 /\ Len(tasks) > 0 /\ Len(tasks) \in Nat /\ tasks[1].result = "done" /\ Voice!Popped(1)
      /\ UNCHANGED <<recording, round, presses, slot, take, held, crossed>>
      /\ offered' = IF tasks[1].op \in {"start", "send"} THEN 0
                    ELSE IF tasks[1].draft # 0 /\ tasks[1].round = round THEN tasks[1].draft
                    ELSE offered
  BY FirstComesBack DEF Voice!Done, Voice!recorder, Voice!None, Voice!StillWanted
<1>2. /\ Queueing' /\ Len(tasks') = Len(tasks) - 1
      /\ \A k \in 1 .. Len(tasks') : tasks'[k] = tasks[k + 1] /\ tasks'[k].result = "queued"
  BY <1>1, QueueMoves
<1>3. Offering'
  <2>0. tasks[1].draft \in Nat /\ tasks[1].round \in Nat /\ round \in Nat
    BY <1>1, QueueTyped DEF Queueing
  <2>1. Wished(1)
    BY <1>1 DEF Offering
  <2>2. CASE tasks[1].op \in {"start", "send"}
    <3>1. \A k \in 1 .. Len(tasks') : Wished(k)'
      <4> TAKE k \in 1 .. Len(tasks')
      <4>1. Wished(k + 1) /\ tasks'[k] = tasks[k + 1]
        BY <1>1, <1>2 DEF Offering
      <4> QED
        BY <1>1, <2>2, <4>1 DEF Wished
    <3> QED
      BY <1>1, <2>2, <3>1 DEF Offering
  <2>3. CASE tasks[1].draft # 0 /\ tasks[1].round = round
    <3>1. /\ tasks[1].op = "stop" /\ offered' = tasks[1].draft /\ held = offered' /\ slot = "none"
      BY <1>1, <2>1, <2>3 DEF Wished
    <3>2. \A k \in 1 .. Len(tasks') : Wished(k)'
      <4> TAKE k \in 1 .. Len(tasks')
      <4>1. /\ Wished(k + 1) /\ tasks'[k] = tasks[k + 1] /\ tasks[k + 1].result = "queued"
            /\ k + 1 \in 1 .. Len(tasks)
        BY <1>1, <1>2 DEF Offering
      <4>2. Ordered(1, k + 1) /\ Placed(k + 1) /\ tasks[k + 1].round \in Nat
        BY <1>1, <4>1, QueueTyped DEF Queueing
      <4>3. tasks[k + 1].op = "send"
        BY <2>0, <2>3, <4>2 DEF Ordered, Placed
      <4> QED
        BY <4>1, <4>3 DEF Wished
    <3> QED
      BY <1>1, <2>0, <3>1, <3>2 DEF Offering
  <2>4. CASE tasks[1].op \notin {"start", "send"} /\ ~(tasks[1].draft # 0 /\ tasks[1].round = round)
    <3>1. offered' = offered /\ ~Opened
      BY <1>1, <2>4 DEF Opened
    <3>2. \A k \in 1 .. Len(tasks') : Wished(k)'
      <4> TAKE k \in 1 .. Len(tasks')
      <4>1. Wished(k + 1) /\ tasks'[k] = tasks[k + 1]
        BY <1>1, <1>2 DEF Offering
      <4> QED
        BY <1>1, <3>1, <4>1 DEF Wished
    <3>3. offered' # 0 => held' = offered' \/ \E k \in 1 .. Len(tasks') : tasks'[k].op = "send"
      <4> SUFFICES ASSUME offered # 0, held # offered
                   PROVE  \E k \in 1 .. Len(tasks') : tasks'[k].op = "send"
        BY <1>1, <3>1
      <4>1. PICK k \in 1 .. Len(tasks) : tasks[k].op = "send" /\ k # 1
        BY <2>4, <3>1 DEF Offering
      <4>2. k - 1 \in 1 .. Len(tasks') /\ (k - 1) + 1 = k
        BY <1>1, <1>2, <4>1
      <4> QED
        BY <1>2, <4>1, <4>2
    <3> QED
      BY <1>1, <3>1, <3>2, <3>3 DEF Offering
  <2> QED
    BY <2>2, <2>3, <2>4
<1>4. /\ \A k \in 1 .. Len(tasks) : Ends(k) => Ends(k - 1)'
      /\ Ends(0) => Ends(0)'
  BY <1>1, <1>2, EndsMove DEF Waits
<1>5. \A p \in Nat : Shows(p) => Shows(p)'
  BY <1>1 DEF Shows
<1>6. slot = "on" => (Shows(take) \/ Ends(0))'
  BY <1>1, <1>4, <1>5 DEF Showing, Queueing
<1>7. ASSUME NEW k \in 1 .. Len(tasks'), tasks'[k].op = "start", Waits(k)'
      PROVE  (Shows(tasks[k].press) \/ Ends(k))'
  <2>1. k + 1 \in 1 .. Len(tasks) /\ tasks'[k] = tasks[k + 1] /\ (k + 1) - 1 = k
    BY <1>1, <1>2
  <2>2. Shows(tasks[k + 1].press) \/ Ends(k + 1)
    BY <1>7, <2>1 DEF Showing, Waits
  <2>3. tasks[k + 1].press \in Nat
    BY <2>1, QueueTyped DEF Queueing
  <2> QED
    BY <1>4, <1>5, <2>1, <2>2, <2>3
<1>8. Showing'
  BY <1>1, <1>2, <1>6, <1>7 DEF Showing
<1> QED
  BY <1>2, <1>3, <1>8

LEMMA VoiceKeeps ==
  ASSUME Voicing, [Voice!Next]_(Voice!vars)
  PROVE  Voicing'
<1>1. ASSUME UNCHANGED <<recording, offered, round, presses, tasks, take, held, crossed>>,
             slot' = slot \/ (slot = "on" /\ slot' = "ended")
      PROVE  Voicing'
  <2>1. Queueing'
    BY <1>1 DEF Voicing, Queueing, Placed, Ordered, Waits
  <2>2. Offering'
    BY <1>1 DEF Voicing, Offering, Wished, Opened
  <2>3. Showing'
    BY <1>1 DEF Voicing, Showing, Shows, Ends, Waits
  <2> QED
    BY <2>1, <2>2, <2>3 DEF Voicing
<1>2. CASE Voice!LimitReached
  BY <1>1, <1>2 DEF Voice!LimitReached, Voice!window
<1>3. CASE UNCHANGED Voice!vars
  BY <1>1, <1>3 DEF Voice!vars, Voice!window, Voice!recorder
<1>4. CASE Voice!Press \/ Voice!Release \/ Voice!Cancel \/ Voice!Send
  BY <1>4, PressVoices, EndVoices, SendVoices
<1>5. ASSUME NEW i \in DOMAIN tasks, Voice!Session(i) PROVE Voicing'
  BY <1>5, StartVoices, OthersVoice, FailureVoices, ResultVoices DEF Voice!Session
<1> QED
  BY <1>2, <1>3, <1>4, <1>5 DEF Voice!Next

LEMMA VoicingSettles ==
  ASSUME Voicing
  PROVE  Voice!OfferedIsHeld /\ Voice!MicrophoneShownUncrossed
<1>1. ASSUME tasks = <<>> PROVE Len(tasks) = 0 /\ 1 .. Len(tasks) = {} /\ ~Opened /\ ~Ends(0)
  <2>1. Len(tasks) = 0
    BY <1>1
  <2> QED
    BY <2>1 DEF Opened, Ends
<1>2. Voice!OfferedIsHeld
  BY <1>1 DEF Voice!OfferedIsHeld, Voice!Settled, Voice!None, Voicing, Offering
<1>3. Voice!MicrophoneShownUncrossed
  BY <1>1 DEF Voice!MicrophoneShownUncrossed, Voice!Settled, Voicing, Showing, Shows
<1> QED
  BY <1>2, <1>3

-----------------------------------------------------------------------------
(* Least numbers, and sequences put together                                *)

LEMMA LeastOf ==
  ASSUME NEW S, S \subseteq Nat, S # {}
  PROVE  \E n \in S : \A m \in S : n <= m
<1>1. \E n \in S : \A m \in S : ~(<<m, n>> \in OpToRel(<, Nat))
  BY NatLessThanWellFounded, WFMin
<1>2. PICK n \in S : \A m \in S : ~(<<m, n>> \in OpToRel(<, Nat))
  BY <1>1
<1> SUFFICES ASSUME NEW m \in S PROVE n <= m
  OBVIOUS
<1>3. <<m, n>> \notin OpToRel(<, Nat)
  BY <1>2
<1>4. m < n => <<m, n>> \in OpToRel(<, Nat)
  BY DEF OpToRel
<1>5. ~(m < n)
  BY <1>3, <1>4
<1> QED
  BY <1>5

\* f flattens the first m of seqs.
Flattens(f, seqs, m) ==
  f = [i \in 1 .. m |-> IF i = 1 THEN seqs[i] ELSE f[i - 1] \o seqs[i]]

LEMMA FlattensOne ==
  ASSUME NEW seqs
  PROVE  \E f : Flattens(f, seqs, 1)
<1> DEFINE g == [i \in 1 .. 1 |-> seqs[i]]
<1>1. \A i \in 1 .. 1 : i = 1
  OBVIOUS
<1>2. g = [i \in 1 .. 1 |-> IF i = 1 THEN seqs[i] ELSE g[i - 1] \o seqs[i]]
  BY <1>1
<1> QED
  BY <1>2 DEF Flattens

LEMMA FlattensMore ==
  ASSUME NEW seqs, NEW m \in Nat, m # 0, NEW f, Flattens(f, seqs, m)
  PROVE  \E g : Flattens(g, seqs, m + 1)
<1> DEFINE g == [i \in 1 .. m + 1 |-> IF i <= m THEN f[i] ELSE f[m] \o seqs[i]]
<1> DEFINE h == [i \in 1 .. m + 1 |-> IF i = 1 THEN seqs[i] ELSE g[i - 1] \o seqs[i]]
<1>a. SUFFICES g = h
  BY DEF Flattens
<1>b. SUFFICES ASSUME NEW i \in 1 .. m + 1 PROVE g[i] = h[i]
  OBVIOUS
<1>1. h[i] = IF i = 1 THEN seqs[i] ELSE g[i - 1] \o seqs[i]
  OBVIOUS
<1> HIDE DEF h
<1>2. CASE i = m + 1
  <2>1. i # 1 /\ i - 1 = m /\ i - 1 \in 1 .. m + 1 /\ i - 1 <= m /\ ~(i <= m)
    BY <1>2
  <2>2. g[i - 1] = f[m] /\ g[i] = f[m] \o seqs[i]
    BY <2>1
  <2> QED
    BY <1>1, <2>1, <2>2
<1>3. CASE i # m + 1
  <2>1. i \in 1 .. m /\ i <= m /\ (i # 1 => i - 1 \in 1 .. m + 1 /\ i - 1 <= m)
    BY <1>3
  <2>2. f[i] = IF i = 1 THEN seqs[i] ELSE f[i - 1] \o seqs[i]
    BY <2>1 DEF Flattens
  <2>3. g[i] = f[i] /\ (i # 1 => g[i - 1] = f[i - 1])
    BY <2>1
  <2> QED
    BY <1>1, <2>2, <2>3
<1> QED
  BY <1>2, <1>3

LEMMA FlattensAll ==
  ASSUME NEW seqs, NEW n \in Nat, n # 0
  PROVE  \E f : Flattens(f, seqs, n)
<1> DEFINE Without == {m \in Nat : m # 0 /\ ~\E f : Flattens(f, seqs, m)}
<1> SUFFICES ASSUME Without # {} PROVE FALSE
  OBVIOUS
<1>1. PICK m \in Without : \A k \in Without : m <= k
  BY LeastOf
<1>2. m # 1
  BY <1>1, FlattensOne
<1>3. m - 1 \in Nat /\ m - 1 # 0 /\ (m - 1) + 1 = m /\ ~(m <= m - 1)
  BY <1>1, <1>2
<1>4. \E f : Flattens(f, seqs, m - 1)
  BY <1>1, <1>3
<1>5. \E f : Flattens(f, seqs, m)
  BY <1>3, <1>4, FlattensMore
<1> QED
  BY <1>1, <1>5

LEMMA FlattenSeqIs ==
  ASSUME NEW seqs, Len(seqs) \in Nat, Len(seqs) # 0
  PROVE  \E f : Flattens(f, seqs, Len(seqs)) /\ Bar!FlattenSeq(seqs) = f[Len(seqs)]
<1> DEFINE f == CHOOSE g : Flattens(g, seqs, Len(seqs))
<1>1. Flattens(f, seqs, Len(seqs))
  BY FlattensAll
<1>2. Bar!FlattenSeq(seqs) = f[Len(seqs)]
  BY DEF Bar!FlattenSeq, Flattens
<1> QED
  BY <1>1, <1>2

\* What flattening puts together are the parts, all of them.
LEMMA FlattenHasParts ==
  ASSUME NEW T, NEW seqs \in Seq(Seq(T))
  PROVE  /\ Bar!FlattenSeq(seqs) \in Seq(T)
         /\ \A i \in 1 .. Len(seqs) : \A j \in 1 .. Len(seqs[i]) :
              \E k \in 1 .. Len(Bar!FlattenSeq(seqs)) : Bar!FlattenSeq(seqs)[k] = seqs[i][j]
<1>1. CASE Len(seqs) = 0
  <2>1. Bar!FlattenSeq(seqs) = seqs
    BY <1>1 DEF Bar!FlattenSeq
  <2>2. seqs = <<>> /\ 1 .. Len(seqs) = {}
    BY <1>1
  <2>3. seqs \in Seq(T)
    BY <2>2
  <2> QED
    BY <2>1, <2>2, <2>3
<1>2. CASE Len(seqs) # 0
  <2>1. Len(seqs) \in Nat
    OBVIOUS
  <2>2. PICK f : Flattens(f, seqs, Len(seqs)) /\ Bar!FlattenSeq(seqs) = f[Len(seqs)]
    BY <1>2, <2>1, FlattenSeqIs
  <2> DEFINE Part(m) ==
        /\ f[m] \in Seq(T)
        /\ \A i \in 1 .. m : \A j \in 1 .. Len(seqs[i]) : \E k \in 1 .. Len(f[m]) : f[m][k] = seqs[i][j]
  <2> DEFINE Bad == {m \in 1 .. Len(seqs) : ~Part(m)}
  <2> HIDE DEF Part
  <2>a. f = [i \in 1 .. Len(seqs) |-> IF i = 1 THEN seqs[i] ELSE f[i - 1] \o seqs[i]]
    BY <2>2 DEF Flattens
  <2>3. \A m \in 1 .. Len(seqs) : seqs[m] \in Seq(T) /\ f[m] = IF m = 1 THEN seqs[m] ELSE f[m - 1] \o seqs[m]
    <3> TAKE m \in 1 .. Len(seqs)
    <3> DEFINE h == [i \in 1 .. Len(seqs) |-> IF i = 1 THEN seqs[i] ELSE f[i - 1] \o seqs[i]]
    <3>1. h[m] = IF m = 1 THEN seqs[m] ELSE f[m - 1] \o seqs[m]
      OBVIOUS
    <3>2. f[m] = h[m]
      BY <2>a, Zenon
    <3>3. seqs[m] \in Seq(T)
      OBVIOUS
    <3> QED
      BY <3>1, <3>2, <3>3, Zenon
  <2>4. Part(1)
    <3>1. f[1] = seqs[1] /\ seqs[1] \in Seq(T) /\ 1 .. 1 = {1}
      BY <1>2, <2>1, <2>3
    <3> QED
      BY <3>1 DEF Part
  <2>5. ASSUME NEW m \in 2 .. Len(seqs), Part(m - 1) PROVE Part(m)
    <3>1. m \in 1 .. Len(seqs) /\ m # 1
      BY <2>1
    <3>2. f[m] = f[m - 1] \o seqs[m] /\ seqs[m] \in Seq(T) /\ f[m - 1] \in Seq(T)
      BY <2>3, <2>5, <3>1 DEF Part
    <3>3. /\ f[m] \in Seq(T)
          /\ \A j \in 1 .. Len(f[m - 1]) : \E k \in 1 .. Len(f[m]) : f[m][k] = f[m - 1][j]
          /\ \A j \in 1 .. Len(seqs[m]) : \E k \in 1 .. Len(f[m]) : f[m][k] = seqs[m][j]
      <4> DEFINE u == f[m] v == f[m - 1] w == seqs[m]
      <4>1. v \in Seq(T) /\ w \in Seq(T) /\ u = v \o w
        BY <3>2
      <4> HIDE DEF u, v, w
      <4>2. /\ u \in Seq(T)
            /\ \A j \in 1 .. Len(v) : \E k \in 1 .. Len(u) : u[k] = v[j]
            /\ \A j \in 1 .. Len(w) : \E k \in 1 .. Len(u) : u[k] = w[j]
        <5>1. u \in Seq(T) /\ Len(u) = Len(v) + Len(w) /\ Len(v) \in Nat /\ Len(w) \in Nat
          BY <4>1
        <5>2. ASSUME NEW j \in 1 .. Len(v) PROVE j \in 1 .. Len(u) /\ u[j] = v[j]
          BY <4>1
        <5>3. ASSUME NEW j \in 1 .. Len(w) PROVE Len(v) + j \in 1 .. Len(u) /\ u[Len(v) + j] = w[j]
          BY <4>1
        <5> QED
          BY <5>1, <5>2, <5>3
      <4> QED
        BY <4>2 DEF u, v, w
    <3> SUFFICES ASSUME NEW i \in 1 .. m, NEW j \in 1 .. Len(seqs[i])
                 PROVE  \E k \in 1 .. Len(f[m]) : f[m][k] = seqs[i][j]
      BY <3>3 DEF Part
    <3>5. CASE i = m
      BY <3>3, <3>5
    <3>6. CASE i # m
      <4>1. i \in 1 .. m - 1
        BY <3>6
      <4>2. \E k \in 1 .. Len(f[m - 1]) : f[m - 1][k] = seqs[i][j]
        BY <2>5, <4>1 DEF Part
      <4> QED
        BY <3>3, <4>2
    <3> QED
      BY <3>5, <3>6
  <2>6. SUFFICES ASSUME Bad # {} PROVE FALSE
    <3>1. Part(Len(seqs))
      BY <1>2, <2>1, <2>6
    <3> QED
      BY <2>2, <3>1 DEF Part
  <2>b. Bad \subseteq Nat
    BY <2>1
  <2>c. \E m \in Bad : \A k \in Bad : m <= k
    <3> HIDE DEF Bad
    <3> QED
      BY <2>b, <2>6, LeastOf
  <2>7. PICK m \in Bad : \A k \in Bad : m <= k
    BY <2>c
  <2>8. m \in 2 .. Len(seqs) /\ m - 1 \in 1 .. Len(seqs) /\ ~(m <= m - 1)
    BY <2>1, <2>4, <2>7
  <2>9. Part(m - 1)
    BY <2>7, <2>8
  <2> QED
    BY <2>5, <2>7, <2>8, <2>9
<1> QED
  BY <1>1, <1>2

-----------------------------------------------------------------------------
(* The taskbar switch                                                      *)

Overlays == {Overlay[i] : i \in 1 .. Len(Overlay)}

Errands ==
  [what : {"store", "load", "skip", "tool", "show", "hide", "flags"},
   w : Windows \cup {Overlay[1]}, v : BOOLEAN]

Is(step, what, w) == step.what = what /\ step.w = w

\* Such a step comes behind place j.
Later(steps, j, what, w) == \E k \in j + 1 .. Len(steps) : Is(steps[k], what, w)

\* Only windows that overlay are hinted and styled; a command that turns the
\* switch says so to each of them later on, and one that makes tao compute a style
\* anew writes it later on.
Follows(steps, j) ==
  /\ steps[j].what \in {"skip", "tool"} => steps[j].w \in Overlays
  /\ steps[j].what # "store" => steps[j].w \in Windows
  /\ steps[j].what = "store" =>
       \A w \in Overlays : Later(steps, j, "skip", w) /\ Later(steps, j, "tool", w)
  /\ steps[j].what \in {"show", "flags"} /\ steps[j].w \in Overlays => Later(steps, j, "tool", steps[j].w)

Orderly(steps) == steps \in Seq(Errands) /\ \A j \in 1 .. Len(steps) : Follows(steps, j)

\* Steps that need nothing behind them.
Plain == {e \in Errands : /\ e.what \in {"load", "skip", "tool"} /\ e.w \in Windows
                          /\ e.what # "load" => e.w \in Overlays}

LEMMA OverlaysAreWindows ==
  /\ Bar!ToSet(Overlay) = Overlays /\ Overlay \in Seq(Windows) /\ Len(Overlay) \in Nat
  /\ \A i \in 1 .. Len(Overlay) : Overlay[i] \in Windows /\ Overlay[i] \in Overlays
  /\ Overlays \subseteq Windows
<1>1. Overlay \in Seq(Windows)
  BY Assumptions DEF Assumptions, Bar!TaskbarAssumption
<1>2. Len(Overlay) \in Nat /\ DOMAIN Overlay = 1 .. Len(Overlay)
  BY <1>1, LenProperties
<1>3. \A i \in 1 .. Len(Overlay) : Overlay[i] \in Windows
  BY <1>1, ElementOfSeq
<1> QED
  BY <1>1, <1>2, <1>3 DEF Bar!ToSet, Overlays

LEMMA PlainIsOrderly ==
  ASSUME NEW steps \in Seq(Plain)
  PROVE  Orderly(steps)
<1>1. Plain \subseteq Errands
  BY DEF Plain
<1>2. Len(steps) \in Nat /\ \A j \in 1 .. Len(steps) : steps[j] \in Plain
  BY LenProperties, ElementOfSeq
<1>3. steps \in Seq(Errands)
  BY <1>1
<1>4. \A j \in 1 .. Len(steps) : Follows(steps, j)
  BY <1>2 DEF Plain, Follows
<1> QED
  BY <1>3, <1>4 DEF Orderly

LEMMA FirstThenRest ==
  ASSUME NEW e \in Errands, NEW rest \in Seq(Plain),
         e.what \in {"skip", "tool"} => e.w \in Overlays,
         e.what # "store" => e.w \in Windows,
         e.what = "store" => \A w \in Overlays : Later(rest, 0, "skip", w) /\ Later(rest, 0, "tool", w),
         e.what \in {"show", "flags"} /\ e.w \in Overlays => Later(rest, 0, "tool", e.w)
  PROVE  Orderly(<<e>> \o rest) /\ <<e>> \o rest # <<>>
<1> DEFINE s == <<e>> \o rest
<1>1. Plain \subseteq Errands
  BY DEF Plain
<1>2. /\ rest \in Seq(Errands) /\ Len(rest) \in Nat /\ <<e>> \in Seq(Errands) /\ Len(<<e>>) = 1 /\ <<e>>[1] = e
      /\ \A j \in 1 .. Len(rest) : rest[j] \in Plain
  BY <1>1, LenProperties, ElementOfSeq
<1>3. /\ s \in Seq(Errands) /\ Len(s) = Len(rest) + 1
      /\ \A i \in 1 .. Len(rest) + 1 : s[i] = IF i <= 1 THEN <<e>>[i] ELSE rest[i - 1]
  BY <1>2, ConcatProperties
<1>4. /\ s[1] = e /\ \A i \in 2 .. Len(rest) + 1 : s[i] = rest[i - 1] /\ i - 1 \in 1 .. Len(rest)
  BY <1>2, <1>3
<1> HIDE DEF s
<1>5. \A what, w : Later(rest, 0, what, w) => Later(s, 1, what, w)
  <2> SUFFICES ASSUME NEW what, NEW w, NEW k \in 0 + 1 .. Len(rest), Is(rest[k], what, w)
               PROVE  \E l \in 1 + 1 .. Len(s) : Is(s[l], what, w)
    BY DEF Later
  <2>1. k + 1 \in 1 + 1 .. Len(s) /\ k + 1 \in 2 .. Len(rest) + 1 /\ (k + 1) - 1 = k
    BY <1>2, <1>3
  <2>2. s[k + 1] = rest[k]
    BY <1>4, <2>1
  <2> QED
    BY <2>1, <2>2
<1>6. Follows(s, 1)
  BY <1>4, <1>5 DEF Follows
<1>7. \A j \in 2 .. Len(s) : Follows(s, j)
  <2> TAKE j \in 2 .. Len(s)
  <2>1. s[j] \in Plain
    BY <1>2, <1>3, <1>4
  <2> QED
    BY <2>1 DEF Plain, Follows
<1>8. \A j \in 1 .. Len(s) : j = 1 \/ j \in 2 .. Len(s)
  BY <1>2, <1>3
<1>9. Orderly(s)
  BY <1>3, <1>6, <1>7, <1>8 DEF Orderly
<1>10. s # <<>>
  BY <1>2, <1>3
<1> QED
  BY <1>9, <1>10 DEF s

LEMMA TwoSteps ==
  ASSUME NEW S, NEW a \in S, NEW b \in S
  PROVE  <<a, b>> \in Seq(S) /\ Len(<<a, b>>) = 2 /\ <<a, b>>[1] = a /\ <<a, b>>[2] = b
OBVIOUS

LEMMA StepIs ==
  ASSUME NEW what \in {"store", "load", "skip", "tool", "show", "hide", "flags"}, NEW w \in Windows
  PROVE  Bar!Step(what, w) \in Errands /\ Bar!Step(what, w).what = what /\ Bar!Step(what, w).w = w
BY DEF Bar!Step, Errands

LEMMA AppliedSays ==
  ASSUME NEW w \in Windows
  PROVE  /\ Bar!ApplyTaskbarVisibility(w) \in Seq(Plain)
         /\ w \in Overlays => /\ Later(Bar!ApplyTaskbarVisibility(w), 0, "skip", w)
                              /\ Later(Bar!ApplyTaskbarVisibility(w), 0, "tool", w)
<1> DEFINE s == <<Bar!Step("skip", w), Bar!Step("tool", w)>>
<1>1. CASE w \in Overlays
  <2>1. Bar!ApplyTaskbarVisibility(w) = s
    BY <1>1, OverlaysAreWindows DEF Bar!ApplyTaskbarVisibility, Bar!IsOverlayWindow
  <2>2. Bar!Step("skip", w) \in Plain /\ Bar!Step("tool", w) \in Plain
    BY <1>1, StepIs DEF Plain
  <2>3. s \in Seq(Plain) /\ Len(s) = 2 /\ s[1] = Bar!Step("skip", w) /\ s[2] = Bar!Step("tool", w)
    BY <2>2, TwoSteps
  <2>4. Is(s[1], "skip", w) /\ Is(s[2], "tool", w)
    BY <2>3, StepIs DEF Is
  <2> HIDE DEF s
  <2>5. 1 \in 0 + 1 .. Len(s) /\ 2 \in 0 + 1 .. Len(s)
    BY <2>3
  <2> QED
    BY <2>1, <2>3, <2>4, <2>5 DEF Later
<1>2. CASE w \notin Overlays
  BY <1>2, OverlaysAreWindows, EmptySeq DEF Bar!ApplyTaskbarVisibility, Bar!IsOverlayWindow
<1> QED
  BY <1>1, <1>2

LEMMA RestoredSays ==
  ASSUME NEW w \in Windows
  PROVE  /\ Bar!RestoreTaskbarVisibility(w) \in Seq(Plain)
         /\ w \in Overlays => Later(Bar!RestoreTaskbarVisibility(w), 0, "tool", w)
<1> DEFINE e == Bar!Step("load", w)
           rest == Bar!ApplyTaskbarVisibility(w)
           s == <<e>> \o rest
<1>1. e \in Plain
  BY StepIs DEF Plain
<1>2. rest \in Seq(Plain) /\ (w \in Overlays => Later(rest, 0, "tool", w))
  BY AppliedSays
<1> HIDE DEF e, rest
<1>3. <<e>> \in Seq(Plain) /\ Len(<<e>>) = 1 /\ Len(rest) \in Nat
  BY <1>1, <1>2, LenProperties
<1>4. /\ s \in Seq(Plain) /\ Len(s) = Len(rest) + 1
      /\ \A i \in 1 .. Len(rest) + 1 : s[i] = IF i <= 1 THEN <<e>>[i] ELSE rest[i - 1]
  BY <1>2, <1>3, ConcatProperties
<1> HIDE DEF s
<1>5. w \in Overlays => Later(s, 0, "tool", w)
  <2> SUFFICES ASSUME w \in Overlays PROVE \E l \in 0 + 1 .. Len(s) : Is(s[l], "tool", w)
    BY DEF Later
  <2>1. PICK k \in 0 + 1 .. Len(rest) : Is(rest[k], "tool", w)
    BY <1>2 DEF Later
  <2>2. k + 1 \in 0 + 1 .. Len(s) /\ k + 1 \in 1 .. Len(rest) + 1 /\ (k + 1) - 1 = k /\ ~(k + 1 <= 1)
    BY <1>3, <1>4
  <2>3. s[k + 1] = rest[k]
    BY <1>4, <2>2
  <2> QED
    BY <2>1, <2>2, <2>3
<1>6. Bar!RestoreTaskbarVisibility(w) = s
  BY DEF Bar!RestoreTaskbarVisibility, s, e, rest
<1> QED
  BY <1>4, <1>5, <1>6

\* What is said to each window that overlays is said when all are told.
LEMMA EachIsTold ==
  ASSUME NEW parts, parts \in Seq(Seq(Plain)), Len(parts) = Len(Overlay),
         NEW what, \A i \in 1 .. Len(Overlay) : Later(parts[i], 0, what, Overlay[i])
  PROVE  /\ Bar!FlattenSeq(parts) \in Seq(Plain)
         /\ \A w \in Overlays : Later(Bar!FlattenSeq(parts), 0, what, w)
<1>1. /\ Bar!FlattenSeq(parts) \in Seq(Plain)
      /\ \A i \in 1 .. Len(parts) : \A j \in 1 .. Len(parts[i]) :
           \E k \in 1 .. Len(Bar!FlattenSeq(parts)) : Bar!FlattenSeq(parts)[k] = parts[i][j]
  BY FlattenHasParts
<1>2. ASSUME NEW w \in Overlays PROVE Later(Bar!FlattenSeq(parts), 0, what, w)
  <2>1. PICK i \in 1 .. Len(Overlay) : Overlay[i] = w
    BY DEF Overlays
  <2>2. PICK j \in 0 + 1 .. Len(parts[i]) : Is(parts[i][j], what, w)
    BY <2>1 DEF Later
  <2>3. PICK k \in 1 .. Len(Bar!FlattenSeq(parts)) : Bar!FlattenSeq(parts)[k] = parts[i][j]
    BY <1>1, <2>2
  <2> QED
    BY <2>2, <2>3 DEF Later
<1> QED
  BY <1>1, <1>2

LEMMA SwitchIsSaid ==
  ASSUME NEW v \in BOOLEAN
  PROVE  Orderly(Bar!SetTaskbarVisibility(v)) /\ Bar!SetTaskbarVisibility(v) # <<>>
<1> DEFINE parts == [i \in 1 .. Len(Overlay) |-> Bar!ApplyTaskbarVisibility(Overlay[i])]
           rest == Bar!FlattenSeq(parts)
           e == [what |-> "store", w |-> Overlay[1], v |-> v]
<1>1. \A i \in 1 .. Len(Overlay) :
        /\ parts[i] \in Seq(Plain)
        /\ Later(parts[i], 0, "skip", Overlay[i]) /\ Later(parts[i], 0, "tool", Overlay[i])
  BY AppliedSays, OverlaysAreWindows
<1>2. parts \in Seq(Seq(Plain)) /\ Len(parts) = Len(Overlay)
  BY AppliedSays, OverlaysAreWindows
<1> HIDE DEF parts
<1>3. rest \in Seq(Plain) /\ \A w \in Overlays : Later(rest, 0, "skip", w) /\ Later(rest, 0, "tool", w)
  BY <1>1, <1>2, EachIsTold
<1>4. e \in Errands /\ e.what = "store"
  BY DEF Errands
<1> HIDE DEF rest, e
<1>5. Orderly(<<e>> \o rest) /\ <<e>> \o rest # <<>>
  BY <1>3, <1>4, FirstThenRest
<1>6. Bar!SetTaskbarVisibility(v) = <<e>> \o rest
  BY DEF Bar!SetTaskbarVisibility, e, rest, parts
<1> QED
  BY <1>5, <1>6

LEMMA RefreshIsSaid ==
  /\ Bar!RefreshTaskbarVisibility \in Seq(Plain)
  /\ \A w \in Overlays : Later(Bar!RefreshTaskbarVisibility, 0, "tool", w)
<1> DEFINE parts == [i \in 1 .. Len(Overlay) |-> Bar!RestoreTaskbarVisibility(Overlay[i])]
<1>1. \A i \in 1 .. Len(Overlay) :
        parts[i] \in Seq(Plain) /\ Later(parts[i], 0, "tool", Overlay[i])
  BY RestoredSays, OverlaysAreWindows
<1>2. parts \in Seq(Seq(Plain)) /\ Len(parts) = Len(Overlay)
  BY RestoredSays, OverlaysAreWindows
<1> HIDE DEF parts
<1>3. Bar!FlattenSeq(parts) \in Seq(Plain) /\ \A w \in Overlays : Later(Bar!FlattenSeq(parts), 0, "tool", w)
  BY <1>1, <1>2, EachIsTold
<1> QED
  BY <1>3 DEF Bar!RefreshTaskbarVisibility, parts

\* show_window, set_always_on_top and set_ignore_cursor_events end with writing
\* the style; hide_window has nothing to write.
LEMMA ChangeIsMended ==
  ASSUME NEW what \in {"show", "flags", "hide"}, NEW w \in Windows, NEW rest \in Seq(Plain),
         what # "hide" /\ w \in Overlays => Later(rest, 0, "tool", w)
  PROVE  Orderly(<<Bar!Step(what, w)>> \o rest) /\ <<Bar!Step(what, w)>> \o rest # <<>>
<1> DEFINE e == Bar!Step(what, w)
<1>1. e \in Errands /\ e.what = what /\ e.w = w
  BY StepIs
<1> HIDE DEF e
<1>2. Orderly(<<e>> \o rest) /\ <<e>> \o rest # <<>>
  <2>1. ~(e.what \in {"skip", "tool"}) /\ e.what # "store" /\ e.w \in Windows
    BY <1>1
  <2>2. e.what \in {"show", "flags"} /\ e.w \in Overlays => Later(rest, 0, "tool", e.w)
    BY <1>1
  <2> QED
    BY <1>1, <2>1, <2>2, FirstThenRest
<1> QED
  BY <1>2 DEF e

LEMMA CommandsAreOrderly ==
  ASSUME NEW c \in Bar!Commands
  PROVE  Orderly(c) /\ c # <<>>
<1>1. CASE \E v \in BOOLEAN : c = Bar!SetTaskbarVisibility(v)
  BY <1>1, SwitchIsSaid
<1>2. CASE \E w \in Windows : c = Bar!ShowWindow(w)
  BY <1>2, RestoredSays, ChangeIsMended DEF Bar!ShowWindow
<1>3. CASE \E w \in Windows : c = Bar!HideWindow(w)
  <2>1. PICK w \in Windows : c = <<Bar!Step("hide", w)>>
    BY <1>3 DEF Bar!HideWindow
  <2>2. <<>> \in Seq(Plain)
    BY EmptySeq
  <2>3. Orderly(<<Bar!Step("hide", w)>> \o <<>>) /\ <<Bar!Step("hide", w)>> \o <<>> # <<>>
    BY <2>2, ChangeIsMended
  <2>4. <<Bar!Step("hide", w)>> \o <<>> = <<Bar!Step("hide", w)>>
    BY StepIs, ConcatEmptySeq
  <2> QED
    BY <2>1, <2>3, <2>4
<1>4. CASE \E w \in Windows : c = Bar!SetAlwaysOnTop(w)
  BY <1>4, RestoredSays, ChangeIsMended DEF Bar!SetAlwaysOnTop
<1>5. CASE \E w \in Overlays : c = Bar!SetPassThrough(w)
  BY <1>5, RefreshIsSaid, ChangeIsMended, OverlaysAreWindows DEF Bar!SetPassThrough
<1> DEFINE A == {Bar!SetTaskbarVisibility(v) : v \in BOOLEAN}
           B == UNION {{Bar!ShowWindow(w), Bar!HideWindow(w), Bar!SetAlwaysOnTop(w)} : w \in Windows}
           C(S) == {Bar!SetPassThrough(w) : w \in S}
<1>10. c \in A \cup B \cup C(Bar!ToSet(Overlay))
  BY DEF Bar!Commands
<1> HIDE DEF A, B, C
<1>6. c \in A \/ c \in B \/ c \in C(Overlays)
  BY <1>10, OverlaysAreWindows
<1>7. c \in B =>
        \E w \in Windows : c = Bar!ShowWindow(w) \/ c = Bar!HideWindow(w) \/ c = Bar!SetAlwaysOnTop(w)
  BY Zenon DEF B
<1>8. c \in A => \E v \in BOOLEAN : c = Bar!SetTaskbarVisibility(v)
  BY Zenon DEF A
<1>9. c \in C(Overlays) => \E w \in Overlays : c = Bar!SetPassThrough(w)
  BY Zenon DEF C
<1> QED
  BY <1>1, <1>2, <1>3, <1>4, <1>5, <1>6, <1>7, <1>8, <1>9

-----------------------------------------------------------------------------
(* What is still to be said, and what was said last                        *)

Calls == [steps : Seq(Errands), v : BOOLEAN]

Commanded ==
  /\ running \in Seq(Calls)
  /\ \A i \in 1 .. Len(running) : Orderly(running[i].steps) /\ running[i].steps # <<>>

Mails == {m \in Errands : /\ m.what \in {"skip", "tool", "show", "hide", "flags"} /\ m.w \in Windows
                          /\ m.what \in {"skip", "tool"} => m.w \in Overlays}

\* A command has such a step before it.
Comes(what, w) == \E i \in 1 .. Len(running) : Later(running[i].steps, 0, what, w)

BarTypes ==
  /\ taskbarVisible \in BOOLEAN /\ posted \in Seq(Mails)
  /\ {window_visible, tool, skip, deleted} \subseteq [Windows -> BOOLEAN]

\* The shell heeds only what tao was told, and ordinary windows have their style.
Hinted == \A w \in Windows : (deleted[w] => skip[w]) /\ (tool[w] => w \in Overlays)

\* The hint is the switch's, or will be, unless the last word was out of date.
HintSaid(w) ==
  <<w, "skip">> \notin stale =>
    \/ Comes("skip", w)
    \/ \E k \in 1 .. Len(posted) :
         /\ Is(posted[k], "skip", w) /\ (posted[k].v <=> taskbarVisible)
         /\ \A l \in k + 1 .. Len(posted) : ~Is(posted[l], "skip", w)
    \/ /\ \A l \in 1 .. Len(posted) : ~Is(posted[l], "skip", w)
       /\ skip[w] <=> ~taskbarVisible

Alters(m, w) == m.w = w /\ m.what \in {"tool", "show", "flags", "hide"}

\* So is the style, or the window is hidden, or will be.
StyleSaid(w) ==
  <<w, "tool">> \notin stale =>
    \/ Comes("tool", w)
    \/ \E k \in 1 .. Len(posted) :
         /\ Alters(posted[k], w)
         /\ posted[k].what = "hide" \/ (posted[k].what = "tool" /\ (posted[k].v <=> taskbarVisible))
         /\ \A l \in k + 1 .. Len(posted) : ~Alters(posted[l], w)
    \/ /\ \A l \in 1 .. Len(posted) : ~Alters(posted[l], w)
       /\ window_visible[w] => (tool[w] <=> ~taskbarVisible)

Switched == Commanded /\ BarTypes /\ Hinted /\ \A w \in Overlays : HintSaid(w) /\ StyleSaid(w)

LEMMA InitSwitched == Bar!Init => Switched
<1> SUFFICES ASSUME Bar!Init PROVE Switched
  OBVIOUS
<1>1. Len(<<>>) = 0 /\ 1 .. 0 = {} /\ <<>> \in Seq(Calls) /\ <<>> \in Seq(Mails)
  BY EmptySeq
<1>2. Commanded
  BY <1>1 DEF Bar!Init, Commanded
<1>3. BarTypes /\ Hinted
  BY <1>1 DEF Bar!Init, BarTypes, Hinted
<1>4. \A w \in Overlays : <<w, "skip">> \in stale /\ <<w, "tool">> \in stale
  BY OverlaysAreWindows DEF Bar!Init
<1> QED
  BY <1>2, <1>3, <1>4 DEF Switched, HintSaid, StyleSaid

LEMMA TailIsOrderly ==
  ASSUME NEW steps, Orderly(steps), steps # <<>>
  PROVE  /\ Orderly(Tail(steps)) /\ Head(steps) = steps[1] /\ steps[1] \in Errands /\ Follows(steps, 1)
         /\ \A what, w : Later(steps, 1, what, w) => Later(Tail(steps), 0, what, w)
         /\ \A what, w : Later(steps, 0, what, w) => Is(steps[1], what, w) \/ Later(steps, 1, what, w)
<1>1. /\ steps \in Seq(Errands) /\ Len(steps) \in Nat \ {0} /\ Tail(steps) \in Seq(Errands)
      /\ Len(Tail(steps)) = Len(steps) - 1 /\ Head(steps) = steps[1]
      /\ \A k \in 1 .. Len(Tail(steps)) : Tail(steps)[k] = steps[k + 1]
  BY EmptySeq, HeadTailProperties DEF Orderly
<1>2. steps[1] \in Errands /\ 1 \in 1 .. Len(steps)
  BY <1>1
<1>3. ASSUME NEW j \in 0 .. Len(Tail(steps)), NEW what, NEW w, Later(steps, j + 1, what, w)
      PROVE  Later(Tail(steps), j, what, w)
  <2>1. PICK k \in (j + 1) + 1 .. Len(steps) : Is(steps[k], what, w)
    BY <1>3 DEF Later
  <2>2. k - 1 \in j + 1 .. Len(Tail(steps)) /\ k - 1 \in 1 .. Len(Tail(steps)) /\ (k - 1) + 1 = k
    BY <1>1
  <2>3. Is(Tail(steps)[k - 1], what, w)
    BY <1>1, <2>1, <2>2
  <2> QED
    BY <2>2, <2>3 DEF Later
<1>4. \A j \in 1 .. Len(Tail(steps)) : Follows(Tail(steps), j)
  <2> TAKE j \in 1 .. Len(Tail(steps))
  <2>1. j + 1 \in 1 .. Len(steps) /\ j \in 0 .. Len(Tail(steps)) /\ Tail(steps)[j] = steps[j + 1]
    BY <1>1
  <2>2. Follows(steps, j + 1)
    BY <2>1 DEF Orderly
  <2>3. \A what, w : Later(steps, j + 1, what, w) => Later(Tail(steps), j, what, w)
    BY <1>3, <2>1
  <2> QED
    BY <2>1, <2>2, <2>3, Zenon DEF Follows
<1>5. \A what, w : Later(steps, 1, what, w) => Later(Tail(steps), 0, what, w)
  <2>1. 0 \in 0 .. Len(Tail(steps)) /\ 0 + 1 = 1
    BY <1>1
  <2> QED
    BY <1>3, <2>1
<1>6. \A what, w : Later(steps, 0, what, w) => Is(steps[1], what, w) \/ Later(steps, 1, what, w)
  <2>1. \A k \in 0 + 1 .. Len(steps) : k = 1 \/ k \in 1 + 1 .. Len(steps)
    BY <1>1
  <2> QED
    BY <2>1 DEF Later
<1>7. Orderly(Tail(steps)) /\ Follows(steps, 1)
  BY <1>1, <1>2, <1>4 DEF Orderly
<1> QED
  BY <1>1, <1>2, <1>5, <1>6, <1>7

LEMMA WithoutOne ==
  ASSUME NEW T, NEW s \in Seq(T), NEW i \in 1 .. Len(s)
  PROVE  /\ Bar!RemoveAt(s, i) \in Seq(T) /\ Len(Bar!RemoveAt(s, i)) = Len(s) - 1
         /\ \A k \in 1 .. Len(s) - 1 : Bar!RemoveAt(s, i)[k] = IF k < i THEN s[k] ELSE s[k + 1]
<1> DEFINE a == SubSeq(s, 1, i - 1)
           b == SubSeq(s, i + 1, Len(s))
<1>1. Len(s) \in Nat /\ \A k \in 1 .. Len(s) : s[k] \in T
  BY LenProperties, ElementOfSeq
<1>2. a \in Seq(T) /\ Len(a) = i - 1 /\ \A k \in 1 .. i - 1 : a[k] = s[k]
  <2>1. \A k \in 1 .. i - 1 : s[k] \in T
    BY <1>1
  <2>2. /\ a \in Seq(T) /\ Len(a) = IF 1 <= i - 1 THEN (i - 1) - 1 + 1 ELSE 0
        /\ \A k \in 1 .. (i - 1) - 1 + 1 : a[k] = s[1 + k - 1]
    BY <1>1, <2>1, SubSeqProperties
  <2> HIDE DEF a
  <2> QED
    BY <1>1, <2>2
<1>3. b \in Seq(T) /\ Len(b) = Len(s) - i /\ \A k \in 1 .. Len(s) - i : b[k] = s[i + k]
  <2>1. \A k \in i + 1 .. Len(s) : s[k] \in T
    BY <1>1
  <2>2. /\ b \in Seq(T) /\ Len(b) = IF i + 1 <= Len(s) THEN Len(s) - (i + 1) + 1 ELSE 0
        /\ \A k \in 1 .. Len(s) - (i + 1) + 1 : b[k] = s[(i + 1) + k - 1]
    BY <1>1, <2>1, SubSeqProperties
  <2> HIDE DEF b
  <2> QED
    BY <1>1, <2>2
<1> HIDE DEF a, b
<1>4. /\ a \o b \in Seq(T) /\ Len(a \o b) = Len(a) + Len(b)
      /\ \A k \in 1 .. Len(a) + Len(b) : (a \o b)[k] = IF k <= Len(a) THEN a[k] ELSE b[k - Len(a)]
  BY <1>2, <1>3, ConcatProperties
<1>5. Bar!RemoveAt(s, i) = a \o b
  BY DEF Bar!RemoveAt, a, b
<1>6. ASSUME NEW k \in 1 .. Len(s) - 1 PROVE (a \o b)[k] = IF k < i THEN s[k] ELSE s[k + 1]
  <2>1. CASE k < i
    BY <1>1, <1>2, <1>3, <1>4, <2>1
  <2>2. CASE ~(k < i)
    <3>1. k - (i - 1) \in 1 .. Len(s) - i /\ ~(k <= i - 1) /\ i + (k - (i - 1)) = k + 1
      BY <1>1, <2>2
    <3>2. k \in 1 .. Len(a) + Len(b) /\ ~(k <= Len(a)) /\ k - Len(a) = k - (i - 1)
      BY <1>1, <1>2, <1>3, <2>2
    <3>3. (a \o b)[k] = b[k - (i - 1)]
      BY <1>4, <3>2
    <3>4. b[k - (i - 1)] = s[i + (k - (i - 1))]
      BY <1>3, <3>1
    <3> QED
      BY <2>2, <3>1, <3>3, <3>4
  <2> QED
    BY <2>1, <2>2
<1> QED
  BY <1>1, <1>2, <1>3, <1>4, <1>5, <1>6

\* A command that takes a step has taken it; what else was to come still is.
LEMMA CommandGoesOn ==
  ASSUME Commanded, NEW i \in 1 .. Len(running), NEW v \in BOOLEAN, Bar!Goes(i, v)
  PROVE  /\ Commanded'
         /\ \A what, w : Later(running[i].steps, 1, what, w) => Comes(what, w)'
         /\ \A what, w : Comes(what, w) /\ ~Is(running[i].steps[1], what, w) => Comes(what, w)'
<1> DEFINE s == running[i].steps
           rest == [steps |-> Tail(s), v |-> v]
<1>1. /\ running \in Seq(Calls) /\ Len(running) \in Nat
      /\ \A j \in 1 .. Len(running) : running[j] \in Calls /\ Orderly(running[j].steps) /\ running[j].steps # <<>>
  BY LenProperties, ElementOfSeq DEF Commanded
<1>2. /\ Orderly(Tail(s))
      /\ \A what, w : Later(s, 1, what, w) => Later(Tail(s), 0, what, w)
      /\ \A what, w : Later(s, 0, what, w) => Is(s[1], what, w) \/ Later(s, 1, what, w)
  BY <1>1, TailIsOrderly
<1>3. rest \in Calls /\ rest.steps = Tail(s)
  BY <1>2 DEF Calls, Orderly
<1>4. running' = IF Tail(s) = <<>> THEN Bar!RemoveAt(running, i) ELSE [running EXCEPT ![i] = rest]
  BY DEF Bar!Goes
<1> HIDE DEF s, rest
<1>5. CASE Tail(s) = <<>>
  <2>1. \A what, w : ~Later(s, 1, what, w)
    <3>1. ~\E what, w : Later(<<>>, 0, what, w)
      BY EmptySeq DEF Later
    <3> QED
      BY <1>2, <1>5, <3>1
  <2>2. /\ running' \in Seq(Calls) /\ Len(running') = Len(running) - 1
        /\ \A k \in 1 .. Len(running) - 1 : running'[k] = IF k < i THEN running[k] ELSE running[k + 1]
    BY <1>1, <1>4, <1>5, WithoutOne
  <2>3. \A k \in 1 .. Len(running') : \E j \in 1 .. Len(running) : running'[k] = running[j]
    <3> TAKE k \in 1 .. Len(running')
    <3>1. k \in 1 .. Len(running) /\ k + 1 \in 1 .. Len(running) /\ k \in 1 .. Len(running) - 1
      BY <1>1, <2>2
    <3> QED
      BY <2>2, <3>1
  <2>4. Commanded'
    <3>1. \A k \in 1 .. Len(running') : Orderly(running'[k].steps) /\ running'[k].steps # <<>>
      BY <1>1, <2>3
    <3> QED
      BY <2>2, <3>1 DEF Commanded
  <2>5. ASSUME NEW what, NEW w, Comes(what, w), ~Is(s[1], what, w) PROVE Comes(what, w)'
    <3>1. PICK j \in 1 .. Len(running) : Later(running[j].steps, 0, what, w)
      BY <2>5 DEF Comes
    <3>2. j # i
      BY <1>2, <2>1, <2>5, <3>1 DEF s
    <3>3. CASE j < i
      <4>1. j \in 1 .. Len(running) - 1 /\ j \in 1 .. Len(running')
        BY <1>1, <2>2, <3>3
      <4>2. running'[j] = running[j]
        BY <2>2, <3>3, <4>1
      <4> QED
        BY <3>1, <4>1, <4>2 DEF Comes
    <3>4. CASE ~(j < i)
      <4>1. j - 1 \in 1 .. Len(running) - 1 /\ j - 1 \in 1 .. Len(running') /\ ~(j - 1 < i) /\ (j - 1) + 1 = j
        BY <1>1, <2>2, <3>2, <3>4
      <4>2. running'[j - 1] = running[j]
        BY <2>2, <4>1
      <4> QED
        BY <3>1, <4>1, <4>2 DEF Comes
    <3> QED
      BY <3>3, <3>4
  <2> QED
    BY <2>1, <2>4, <2>5 DEF s
<1>6. CASE Tail(s) # <<>>
  <2>1. /\ running' \in Seq(Calls) /\ Len(running') = Len(running)
        /\ \A k \in 1 .. Len(running) : running'[k] = IF k = i THEN rest ELSE running[k]
    BY <1>1, <1>3, <1>4, <1>6, ExceptSeq
  <2>2. Commanded'
    <3>1. \A k \in 1 .. Len(running') : Orderly(running'[k].steps) /\ running'[k].steps # <<>>
      BY <1>1, <1>2, <1>3, <1>6, <2>1
    <3> QED
      BY <2>1, <3>1 DEF Commanded
  <2>3. ASSUME NEW what, NEW w, Later(s, 1, what, w) PROVE Comes(what, w)'
    <3>1. Later(running'[i].steps, 0, what, w) /\ i \in 1 .. Len(running')
      BY <1>2, <1>3, <2>1, <2>3
    <3> QED
      BY <3>1 DEF Comes
  <2>4. ASSUME NEW what, NEW w, Comes(what, w), ~Is(s[1], what, w) PROVE Comes(what, w)'
    <3>1. PICK j \in 1 .. Len(running) : Later(running[j].steps, 0, what, w)
      BY <2>4 DEF Comes
    <3>2. CASE j = i
      BY <1>2, <2>3, <2>4, <3>1, <3>2 DEF s
    <3>3. CASE j # i
      <4>1. running'[j] = running[j] /\ j \in 1 .. Len(running')
        BY <2>1, <3>3
      <4> QED
        BY <3>1, <4>1 DEF Comes
    <3> QED
      BY <3>2, <3>3
  <2> QED
    BY <2>2, <2>3, <2>4 DEF s
<1> QED
  BY <1>5, <1>6

\* Commands come and go, but nothing that was to come is lost.
LEMMA StillSaid ==
  ASSUME Switched, Commanded', UNCHANGED <<taskbarVisible, posted, Bar!style, stale>>,
         \A w \in Overlays : (Comes("skip", w) => Comes("skip", w)') /\ (Comes("tool", w) => Comes("tool", w)')
  PROVE  Switched'
<1>1. UNCHANGED <<taskbarVisible, posted, window_visible, tool, skip, deleted, stale>>
  BY DEF Bar!style
<1>2. BarTypes' /\ Hinted'
  BY <1>1 DEF Switched, BarTypes, Hinted
<1>3. ASSUME NEW w \in Overlays PROVE HintSaid(w)'
  <2>1. HintSaid(w)
    BY DEF Switched
  <2> QED
    BY <1>1, <2>1 DEF HintSaid
<1>4. ASSUME NEW w \in Overlays PROVE StyleSaid(w)'
  <2>1. StyleSaid(w)
    BY DEF Switched
  <2> QED
    BY <1>1, <2>1 DEF StyleSaid
<1> QED
  BY <1>2, <1>3, <1>4 DEF Switched

LEMMA InvokeSwitches ==
  ASSUME Switched, Bar!Invoke
  PROVE  Switched'
<1>1. PICK c \in Bar!Commands : running' = Append(running, [steps |-> c, v |-> FALSE])
  BY DEF Bar!Invoke
<1> DEFINE e == [steps |-> c, v |-> FALSE]
<1>2. /\ running \in Seq(Calls) /\ Len(running) \in Nat
      /\ \A i \in 1 .. Len(running) : Orderly(running[i].steps) /\ running[i].steps # <<>>
  BY LenProperties DEF Switched, Commanded
<1>3. e \in Calls /\ Orderly(e.steps) /\ e.steps # <<>>
  BY CommandsAreOrderly DEF Calls, Orderly
<1> HIDE DEF e
<1>4. /\ running' \in Seq(Calls) /\ Len(running') = Len(running) + 1 /\ running'[Len(running) + 1] = e
      /\ \A i \in 1 .. Len(running) : running'[i] = running[i]
  BY <1>1, <1>2, <1>3, AppendProperties DEF e
<1>5. \A i \in 1 .. Len(running') : i \in 1 .. Len(running) \/ i = Len(running) + 1
  BY <1>2, <1>4
<1>6. Commanded'
  <2>1. \A i \in 1 .. Len(running') : Orderly(running'[i].steps) /\ running'[i].steps # <<>>
    BY <1>2, <1>3, <1>4, <1>5
  <2> QED
    BY <1>4, <2>1 DEF Commanded
<1>7. ASSUME NEW what, NEW w, Comes(what, w) PROVE Comes(what, w)'
  <2>1. PICK i \in 1 .. Len(running) : Later(running[i].steps, 0, what, w)
    BY <1>7 DEF Comes
  <2>2. i \in 1 .. Len(running') /\ running'[i] = running[i]
    BY <1>2, <1>4
  <2> QED
    BY <2>1, <2>2 DEF Comes
<1> QED
  BY <1>6, <1>7, StillSaid DEF Bar!Invoke

LEMMA FirstStep ==
  ASSUME Commanded, NEW i \in 1 .. Len(running)
  PROVE  /\ Head(running[i].steps) = running[i].steps[1] /\ running[i].v \in BOOLEAN
         /\ running[i].steps[1] \in Errands /\ Follows(running[i].steps, 1)
<1>1. running[i] \in Calls /\ Orderly(running[i].steps) /\ running[i].steps # <<>>
  BY ElementOfSeq DEF Commanded
<1> QED
  BY <1>1, TailIsOrderly DEF Calls

LEMMA LoadSwitches ==
  ASSUME Switched, NEW i \in 1 .. Len(running), Bar!Load(i)
  PROVE  Switched'
<1>1. Commanded /\ taskbarVisible \in BOOLEAN
  BY DEF Switched, BarTypes
<1>2. running[i].steps[1].what = "load" /\ Bar!Goes(i, taskbarVisible)
  BY <1>1, FirstStep DEF Bar!Load
<1>3. Commanded' /\ \A what, w : Comes(what, w) /\ ~Is(running[i].steps[1], what, w) => Comes(what, w)'
  BY <1>1, <1>2, CommandGoesOn
<1>4. \A w : Comes("skip", w) => Comes("skip", w)'
  BY <1>2, <1>3 DEF Is
<1>5. \A w : Comes("tool", w) => Comes("tool", w)'
  BY <1>2, <1>3 DEF Is
<1> QED
  BY <1>3, <1>4, <1>5, StillSaid DEF Bar!Load

LEMMA StoreSwitches ==
  ASSUME Switched, NEW i \in 1 .. Len(running), Bar!Store(i)
  PROVE  Switched'
<1> DEFINE s == running[i].steps[1]
<1>1. Commanded
  BY DEF Switched
<1>2. s \in Errands /\ Follows(running[i].steps, 1) /\ Head(running[i].steps) = s
  BY <1>1, FirstStep
<1>3. s.what = "store" /\ taskbarVisible' = s.v /\ Bar!Goes(i, s.v) /\ s.v \in BOOLEAN
  BY <1>2 DEF Bar!Store, Errands
<1>4. Commanded' /\ \A what, w : Later(running[i].steps, 1, what, w) => Comes(what, w)'
  BY <1>1, <1>3, CommandGoesOn
<1>5. \A w \in Overlays : Later(running[i].steps, 1, "skip", w) /\ Later(running[i].steps, 1, "tool", w)
  BY <1>2, <1>3 DEF Follows
<1>6. UNCHANGED <<posted, window_visible, tool, skip, deleted, stale>>
  BY DEF Bar!Store, Bar!style
<1>7. BarTypes' /\ Hinted'
  BY <1>3, <1>6 DEF Switched, BarTypes, Hinted
<1>8. \A w \in Overlays : HintSaid(w)' /\ StyleSaid(w)'
  BY <1>4, <1>5 DEF HintSaid, StyleSaid
<1> QED
  BY <1>4, <1>7, <1>8 DEF Switched

LEMMA PostSwitches ==
  ASSUME Switched, NEW i \in 1 .. Len(running), Bar!Post(i)
  PROVE  Switched'
<1> DEFINE s == running[i].steps[1]
           v == running[i].v
           m == [s EXCEPT !.v = v]
           n == Len(posted) + 1
<1>1. /\ Commanded /\ posted \in Seq(Mails) /\ Len(posted) \in Nat /\ taskbarVisible \in BOOLEAN
      /\ {window_visible, tool, skip, deleted} \subseteq [Windows -> BOOLEAN]
  BY LenProperties DEF Switched, BarTypes
<1>2. s \in Errands /\ Follows(running[i].steps, 1) /\ Head(running[i].steps) = s /\ v \in BOOLEAN
  BY <1>1, FirstStep
<1>3. /\ s.what \notin {"store", "load"} /\ posted' = Append(posted, m) /\ Bar!Goes(i, m.v)
      /\ stale' = IF s.what \in {"skip", "tool"} /\ m.v # taskbarVisible
                    THEN stale \cup {<<s.w, s.what>>} ELSE stale \ {<<s.w, s.what>>}
      /\ UNCHANGED <<taskbarVisible, window_visible, tool, skip, deleted>>
  BY <1>2 DEF Bar!Post, Bar!Posted, Bar!style
<1>4. m.what = s.what /\ m.w = s.w /\ m.v = v /\ m \in Mails
  <2>1. m \in Errands /\ m.what = s.what /\ m.w = s.w /\ m.v = v
    BY <1>2 DEF Errands
  <2>2. s.what \in {"skip", "tool", "show", "hide", "flags"}
    BY <1>2, <1>3 DEF Errands
  <2>3. s.w \in Windows /\ (s.what \in {"skip", "tool"} => s.w \in Overlays)
    BY <1>2, <2>2 DEF Follows
  <2> QED
    BY <2>1, <2>2, <2>3 DEF Mails
<1>5. /\ Commanded'
      /\ \A what, w : Later(running[i].steps, 1, what, w) => Comes(what, w)'
      /\ \A what, w : Comes(what, w) /\ ~Is(s, what, w) => Comes(what, w)'
  BY <1>1, <1>2, <1>3, <1>4, CommandGoesOn
<1> HIDE DEF m
<1>6. /\ posted' \in Seq(Mails) /\ Len(posted') = n /\ posted'[n] = m
      /\ \A k \in 1 .. Len(posted) : posted'[k] = posted[k]
  BY <1>1, <1>3, <1>4, AppendProperties
<1>7. /\ \A k \in 1 .. Len(posted) : k \in 1 .. n
      /\ \A k \in 1 .. n : k \in 1 .. Len(posted) \/ k = n
      /\ \A k \in 1 .. Len(posted) : \A l \in k + 1 .. n : l \in k + 1 .. Len(posted) \/ l = n
      /\ n \in 1 .. n /\ n + 1 .. n = {}
      /\ \A k \in 1 .. Len(posted) : \A l \in k + 1 .. Len(posted) : l \in 1 .. Len(posted)
  BY <1>1
<1>8. BarTypes' /\ Hinted'
  BY <1>1, <1>3, <1>6 DEF Switched, BarTypes, Hinted
<1> HIDE DEF s, v, n
<1>9. ASSUME NEW w \in Overlays PROVE HintSaid(w)'
  <2>1. CASE Is(s, "skip", w) /\ v # taskbarVisible
    BY <1>3, <1>4, <2>1 DEF HintSaid, Is
  <2>2. CASE Is(s, "skip", w) /\ v = taskbarVisible
    <3>1. Is(posted'[n], "skip", w) /\ (posted'[n].v <=> taskbarVisible')
      BY <1>3, <1>4, <1>6, <2>2 DEF Is
    <3> QED
      BY <1>6, <1>7, <3>1 DEF HintSaid
  <2>3. CASE ~Is(s, "skip", w)
    <3>1. SUFFICES ASSUME <<w, "skip">> \notin stale' PROVE HintSaid(w)'
      BY DEF HintSaid
    <3>2. <<w, "skip">> \notin stale
      BY <1>3, <2>3, <3>1 DEF Is
    <3>3. ~Is(posted'[n], "skip", w)
      BY <1>4, <1>6, <2>3 DEF Is
    <3>4. CASE Comes("skip", w)
      BY <1>5, <2>3, <3>4 DEF HintSaid
    <3>5. CASE \E k \in 1 .. Len(posted) :
                 /\ Is(posted[k], "skip", w) /\ (posted[k].v <=> taskbarVisible)
                 /\ \A l \in k + 1 .. Len(posted) : ~Is(posted[l], "skip", w)
      <4>1. PICK k \in 1 .. Len(posted) :
                 /\ Is(posted[k], "skip", w) /\ (posted[k].v <=> taskbarVisible)
                 /\ \A l \in k + 1 .. Len(posted) : ~Is(posted[l], "skip", w)
        BY <3>5
      <4>2. /\ k \in 1 .. Len(posted')
            /\ Is(posted'[k], "skip", w) /\ (posted'[k].v <=> taskbarVisible')
        BY <1>3, <1>6, <1>7, <4>1
      <4>3. \A l \in k + 1 .. Len(posted') : ~Is(posted'[l], "skip", w)
        BY <1>6, <1>7, <3>3, <4>1
      <4> QED
        BY <4>2, <4>3 DEF HintSaid
    <3>6. CASE (\A l \in 1 .. Len(posted) : ~Is(posted[l], "skip", w)) /\ (skip[w] <=> ~taskbarVisible)
      <4>1. \A l \in 1 .. Len(posted') : ~Is(posted'[l], "skip", w)
        BY <1>6, <1>7, <3>3, <3>6
      <4> QED
        BY <1>3, <3>6, <4>1 DEF HintSaid
    <3>7. HintSaid(w)
      BY DEF Switched
    <3> QED
      BY <3>2, <3>4, <3>5, <3>6, <3>7 DEF HintSaid
  <2> QED
    BY <2>1, <2>2, <2>3
<1>10. ASSUME NEW w \in Overlays PROVE StyleSaid(w)'
  <2>1. CASE Is(s, "tool", w) /\ v # taskbarVisible
    BY <1>3, <1>4, <2>1 DEF StyleSaid, Is
  <2>2. CASE s.w = w /\ (s.what = "hide" \/ (s.what = "tool" /\ v = taskbarVisible))
    <3>1. Alters(posted'[n], w) /\ (posted'[n].what = "hide" \/ (posted'[n].what = "tool" /\ (posted'[n].v <=> taskbarVisible')))
      BY <1>3, <1>4, <1>6, <2>2 DEF Alters
    <3> QED
      BY <1>6, <1>7, <3>1 DEF StyleSaid
  <2>3. CASE s.w = w /\ s.what \in {"show", "flags"}
    <3>1. Later(running[i].steps, 1, "tool", w)
      BY <1>2, <2>3 DEF Follows, s
    <3> QED
      BY <1>5, <3>1 DEF StyleSaid
  <2>4. CASE ~Alters(s, w)
    <3>1. SUFFICES ASSUME <<w, "tool">> \notin stale' PROVE StyleSaid(w)'
      BY DEF StyleSaid
    <3>2. <<w, "tool">> \notin stale
      BY <1>3, <2>4, <3>1 DEF Alters
    <3>3. ~Alters(posted'[n], w)
      BY <1>4, <1>6, <2>4 DEF Alters
    <3>4. CASE Comes("tool", w)
      BY <1>5, <2>4, <3>4 DEF StyleSaid, Is, Alters
    <3>5. CASE \E k \in 1 .. Len(posted) :
                 /\ Alters(posted[k], w)
                 /\ posted[k].what = "hide" \/ (posted[k].what = "tool" /\ (posted[k].v <=> taskbarVisible))
                 /\ \A l \in k + 1 .. Len(posted) : ~Alters(posted[l], w)
      <4>1. PICK k \in 1 .. Len(posted) :
                 /\ Alters(posted[k], w)
                 /\ posted[k].what = "hide" \/ (posted[k].what = "tool" /\ (posted[k].v <=> taskbarVisible))
                 /\ \A l \in k + 1 .. Len(posted) : ~Alters(posted[l], w)
        BY <3>5
      <4>2. /\ k \in 1 .. Len(posted')
            /\ Alters(posted'[k], w)
            /\ posted'[k].what = "hide" \/ (posted'[k].what = "tool" /\ (posted'[k].v <=> taskbarVisible'))
        BY <1>3, <1>6, <1>7, <4>1
      <4>3. \A l \in k + 1 .. Len(posted') : ~Alters(posted'[l], w)
        BY <1>6, <1>7, <3>3, <4>1
      <4> QED
        BY <4>2, <4>3 DEF StyleSaid
    <3>6. CASE /\ \A l \in 1 .. Len(posted) : ~Alters(posted[l], w)
               /\ window_visible[w] => (tool[w] <=> ~taskbarVisible)
      <4>1. \A l \in 1 .. Len(posted') : ~Alters(posted'[l], w)
        BY <1>6, <1>7, <3>3, <3>6
      <4> QED
        BY <1>3, <3>6, <4>1 DEF StyleSaid
    <3>7. StyleSaid(w)
      BY DEF Switched
    <3> QED
      BY <3>2, <3>4, <3>5, <3>6, <3>7 DEF StyleSaid
  <2> QED
    BY <2>1, <2>2, <2>3, <2>4 DEF Alters, Is
<1> QED
  BY <1>5, <1>8, <1>9, <1>10 DEF Switched

\* What a message does to a window.
LEMMA MessageDoes ==
  ASSUME BarTypes, Hinted, NEW m \in Mails,
         Bar!Shown(m) \/ Bar!Hidden(m) \/ Bar!Flagged(m) \/ Bar!Skipped(m) \/ Bar!Styled(m)
  PROVE  /\ {window_visible, tool, skip, deleted}' \subseteq [Windows -> BOOLEAN] /\ Hinted'
         /\ \A w \in Windows :
              /\ Is(m, "skip", w) => (skip'[w] <=> ~m.v)
              /\ ~Is(m, "skip", w) => (skip'[w] <=> skip[w])
              /\ ~Alters(m, w) => (tool'[w] <=> tool[w]) /\ (window_visible'[w] <=> window_visible[w])
              /\ Is(m, "tool", w) => (tool'[w] <=> ~m.v)
              /\ Is(m, "hide", w) => ~window_visible'[w]
<1>1. /\ window_visible \in [Windows -> BOOLEAN] /\ tool \in [Windows -> BOOLEAN]
      /\ skip \in [Windows -> BOOLEAN] /\ deleted \in [Windows -> BOOLEAN]
      /\ \A w \in Windows : (deleted[w] => skip[w]) /\ (tool[w] => w \in Overlays)
  BY DEF BarTypes, Hinted
<1>2. m.w \in Windows /\ m.v \in BOOLEAN /\ (m.what \in {"skip", "tool"} => m.w \in Overlays)
  BY OverlaysAreWindows DEF Mails, Errands
<1>3. CASE Bar!Shown(m)
  <2>1. m.what = "show" /\ skip' = skip /\ window_visible' = [window_visible EXCEPT ![m.w] = TRUE]
    BY <1>3 DEF Bar!Shown
  <2>2. \/ tool' = tool /\ deleted' = deleted
        \/ tool' = [tool EXCEPT ![m.w] = FALSE] /\ deleted' = [deleted EXCEPT ![m.w] = FALSE]
    BY <1>3 DEF Bar!Shown, Bar!Recomputed
  <2>3. tool' \in [Windows -> BOOLEAN] /\ deleted' \in [Windows -> BOOLEAN]
        /\ window_visible' \in [Windows -> BOOLEAN]
    BY <1>1, <1>2, <2>1, <2>2
  <2>4. \A w \in Windows : (deleted'[w] => deleted[w]) /\ (tool'[w] => tool[w])
    BY <1>1, <1>2, <2>2
  <2>5. \A w \in Windows : w # m.w => tool'[w] = tool[w] /\ window_visible'[w] = window_visible[w]
    BY <1>1, <1>2, <2>1, <2>2
  <2>6. {window_visible, tool, skip, deleted}' \subseteq [Windows -> BOOLEAN] /\ Hinted'
    BY <1>1, <2>1, <2>3, <2>4 DEF Hinted
  <2> QED
    BY <2>1, <2>5, <2>6 DEF Is, Alters
<1>4. CASE Bar!Hidden(m)
  <2>1. /\ m.what = "hide" /\ skip' = skip /\ deleted' = deleted
        /\ window_visible' = [window_visible EXCEPT ![m.w] = FALSE]
    BY <1>4 DEF Bar!Hidden
  <2>2. tool' = tool \/ tool' = [tool EXCEPT ![m.w] = FALSE]
    BY <1>4 DEF Bar!Hidden, Bar!Recomputed
  <2>3. tool' \in [Windows -> BOOLEAN] /\ window_visible' \in [Windows -> BOOLEAN]
    BY <1>1, <1>2, <2>1, <2>2
  <2>4. \A w \in Windows : tool'[w] => tool[w]
    BY <1>1, <1>2, <2>2
  <2>5. /\ \A w \in Windows : w # m.w => tool'[w] = tool[w] /\ window_visible'[w] = window_visible[w]
        /\ ~window_visible'[m.w]
    BY <1>1, <1>2, <2>1, <2>2
  <2>6. {window_visible, tool, skip, deleted}' \subseteq [Windows -> BOOLEAN] /\ Hinted'
    BY <1>1, <2>1, <2>3, <2>4 DEF Hinted
  <2> QED
    BY <2>1, <2>5, <2>6 DEF Is, Alters
<1>5. CASE Bar!Flagged(m)
  BY <1>1, <1>2, <1>5 DEF Bar!Flagged, Bar!Recomputed, Is, Alters, Hinted
<1>6. CASE Bar!Skipped(m)
  BY <1>1, <1>2, <1>6 DEF Bar!Skipped, Is, Alters, Hinted
<1>7. CASE Bar!Styled(m)
  BY <1>1, <1>2, <1>7 DEF Bar!Styled, Is, Alters, Hinted
<1> QED
  BY <1>3, <1>4, <1>5, <1>6, <1>7

LEMMA DispatchSwitches ==
  ASSUME Switched, Bar!Dispatch
  PROVE  Switched'
<1> DEFINE m == posted[1]
<1>1. /\ posted \in Seq(Mails) /\ Len(posted) \in Nat \ {0} /\ m \in Mails /\ Head(posted) = m
      /\ posted' = Tail(posted) /\ posted' \in Seq(Mails) /\ Len(posted') = Len(posted) - 1
      /\ \A k \in 1 .. Len(posted') : posted'[k] = posted[k + 1]
  <2>1. posted \in Seq(Mails) /\ posted # <<>> /\ posted' = Tail(posted)
    BY DEF Switched, BarTypes, Bar!Dispatch
  <2>2. Len(posted) \in Nat \ {0} /\ 1 \in 1 .. Len(posted)
    BY <2>1, EmptySeq
  <2> QED
    BY <2>1, <2>2, HeadTailProperties, ElementOfSeq
<1>2. /\ Bar!Shown(m) \/ Bar!Hidden(m) \/ Bar!Flagged(m) \/ Bar!Skipped(m) \/ Bar!Styled(m)
      /\ UNCHANGED <<taskbarVisible, running, stale>>
  BY <1>1, Zenon DEF Bar!Dispatch
<1> HIDE DEF m
<1>3. /\ {window_visible, tool, skip, deleted}' \subseteq [Windows -> BOOLEAN] /\ Hinted'
      /\ \A w \in Windows :
           /\ Is(m, "skip", w) => (skip'[w] <=> ~m.v)
           /\ ~Is(m, "skip", w) => (skip'[w] <=> skip[w])
           /\ ~Alters(m, w) => (tool'[w] <=> tool[w]) /\ (window_visible'[w] <=> window_visible[w])
           /\ Is(m, "tool", w) => (tool'[w] <=> ~m.v)
           /\ Is(m, "hide", w) => ~window_visible'[w]
  BY <1>1, <1>2, MessageDoes DEF Switched
<1>4. Commanded' /\ BarTypes'
  BY <1>1, <1>2, <1>3 DEF Switched, Commanded, BarTypes
<1>5. /\ \A l \in 1 .. Len(posted') : l + 1 \in 1 .. Len(posted) /\ l + 1 \in 1 + 1 .. Len(posted)
      /\ 1 \in 1 .. Len(posted)
      /\ \A k \in 1 .. Len(posted) : k # 1 =>
           /\ k - 1 \in 1 .. Len(posted') /\ (k - 1) + 1 = k
           /\ \A l \in (k - 1) + 1 .. Len(posted') : l \in 1 .. Len(posted') /\ l + 1 \in k + 1 .. Len(posted)
  BY <1>1
<1>6. ASSUME NEW w \in Overlays PROVE HintSaid(w)'
  <2>1. SUFFICES ASSUME <<w, "skip">> \notin stale PROVE HintSaid(w)'
    BY <1>2 DEF HintSaid
  <2>2. HintSaid(w) /\ w \in Windows
    BY OverlaysAreWindows DEF Switched
  <2>3. CASE Comes("skip", w)
    BY <1>2, <2>3 DEF HintSaid, Comes
  <2>4. CASE \E k \in 1 .. Len(posted) :
               /\ Is(posted[k], "skip", w) /\ (posted[k].v <=> taskbarVisible)
               /\ \A l \in k + 1 .. Len(posted) : ~Is(posted[l], "skip", w)
    <3>1. PICK k \in 1 .. Len(posted) :
               /\ Is(posted[k], "skip", w) /\ (posted[k].v <=> taskbarVisible)
               /\ \A l \in k + 1 .. Len(posted) : ~Is(posted[l], "skip", w)
      BY <2>4
    <3>2. CASE k = 1
      <4>1. skip'[w] <=> ~taskbarVisible'
        BY <1>2, <1>3, <2>2, <3>1, <3>2 DEF m
      <4>2. \A l \in 1 .. Len(posted') : ~Is(posted'[l], "skip", w)
        BY <1>1, <1>5, <3>1, <3>2
      <4> QED
        BY <4>1, <4>2 DEF HintSaid
    <3>3. CASE k # 1
      <4>1. k - 1 \in 1 .. Len(posted') /\ posted'[k - 1] = posted[k]
        BY <1>1, <1>5, <3>3
      <4>2. \A l \in (k - 1) + 1 .. Len(posted') : ~Is(posted'[l], "skip", w)
        BY <1>1, <1>5, <3>1, <3>3
      <4>3. Is(posted'[k - 1], "skip", w) /\ (posted'[k - 1].v <=> taskbarVisible')
        BY <1>2, <3>1, <4>1
      <4> QED
        BY <4>1, <4>2, <4>3 DEF HintSaid
    <3> QED
      BY <3>2, <3>3
  <2>5. CASE (\A l \in 1 .. Len(posted) : ~Is(posted[l], "skip", w)) /\ (skip[w] <=> ~taskbarVisible)
    <3>1. ~Is(m, "skip", w) /\ \A l \in 1 .. Len(posted') : ~Is(posted'[l], "skip", w)
      BY <1>1, <1>5, <2>5 DEF m
    <3>2. skip'[w] <=> ~taskbarVisible'
      BY <1>2, <1>3, <2>2, <2>5, <3>1
    <3> QED
      BY <3>1, <3>2 DEF HintSaid
  <2> QED
    BY <2>1, <2>2, <2>3, <2>4, <2>5 DEF HintSaid
<1>7. ASSUME NEW w \in Overlays PROVE StyleSaid(w)'
  <2>1. SUFFICES ASSUME <<w, "tool">> \notin stale PROVE StyleSaid(w)'
    BY <1>2 DEF StyleSaid
  <2>2. StyleSaid(w) /\ w \in Windows
    BY OverlaysAreWindows DEF Switched
  <2>3. CASE Comes("tool", w)
    BY <1>2, <2>3 DEF StyleSaid, Comes
  <2>4. CASE \E k \in 1 .. Len(posted) :
               /\ Alters(posted[k], w)
               /\ posted[k].what = "hide" \/ (posted[k].what = "tool" /\ (posted[k].v <=> taskbarVisible))
               /\ \A l \in k + 1 .. Len(posted) : ~Alters(posted[l], w)
    <3>1. PICK k \in 1 .. Len(posted) :
               /\ Alters(posted[k], w)
               /\ posted[k].what = "hide" \/ (posted[k].what = "tool" /\ (posted[k].v <=> taskbarVisible))
               /\ \A l \in k + 1 .. Len(posted) : ~Alters(posted[l], w)
      BY <2>4
    <3>2. CASE k = 1
      <4>1. m.w = w /\ (m.what = "hide" \/ (m.what = "tool" /\ (m.v <=> taskbarVisible)))
        BY <3>1, <3>2 DEF m, Alters
      <4>2. window_visible'[w] => (tool'[w] <=> ~taskbarVisible')
        BY <1>2, <1>3, <2>2, <4>1 DEF Is
      <4>3. \A l \in 1 .. Len(posted') : ~Alters(posted'[l], w)
        BY <1>1, <1>5, <3>1, <3>2
      <4> QED
        BY <4>2, <4>3 DEF StyleSaid
    <3>3. CASE k # 1
      <4>1. k - 1 \in 1 .. Len(posted') /\ posted'[k - 1] = posted[k]
        BY <1>1, <1>5, <3>3
      <4>2. \A l \in (k - 1) + 1 .. Len(posted') : ~Alters(posted'[l], w)
        BY <1>1, <1>5, <3>1, <3>3
      <4>3. /\ Alters(posted'[k - 1], w)
            /\ posted'[k - 1].what = "hide" \/ (posted'[k - 1].what = "tool" /\ (posted'[k - 1].v <=> taskbarVisible'))
        BY <1>2, <3>1, <4>1
      <4> QED
        BY <4>1, <4>2, <4>3 DEF StyleSaid
    <3> QED
      BY <3>2, <3>3
  <2>5. CASE /\ \A l \in 1 .. Len(posted) : ~Alters(posted[l], w)
             /\ window_visible[w] => (tool[w] <=> ~taskbarVisible)
    <3>1. ~Alters(m, w) /\ \A l \in 1 .. Len(posted') : ~Alters(posted'[l], w)
      BY <1>1, <1>5, <2>5 DEF m
    <3>2. window_visible'[w] => (tool'[w] <=> ~taskbarVisible')
      BY <1>2, <1>3, <2>2, <2>5, <3>1
    <3> QED
      BY <3>1, <3>2 DEF StyleSaid
  <2> QED
    BY <2>1, <2>2, <2>3, <2>4, <2>5 DEF StyleSaid
<1> QED
  BY <1>3, <1>4, <1>6, <1>7 DEF Switched

LEMMA ShellSwitches ==
  ASSUME Switched, Bar!ShellStarts \/ Bar!ShellForgets
  PROVE  Switched'
<1>1. /\ skip \in [Windows -> BOOLEAN] /\ deleted \in [Windows -> BOOLEAN]
      /\ \A w \in Windows : deleted[w] => skip[w]
  BY DEF Switched, BarTypes, Hinted
<1>2. UNCHANGED <<taskbarVisible, running, posted, window_visible, tool, skip, stale>>
  BY DEF Bar!ShellStarts, Bar!ShellForgets
<1>3. deleted' \in [Windows -> BOOLEAN] /\ \A w \in Windows : deleted'[w] => skip[w]
  <2>1. CASE Bar!ShellStarts
    BY <1>1, <2>1 DEF Bar!ShellStarts
  <2>2. CASE Bar!ShellForgets
    BY <1>1, <2>2, OverlaysAreWindows DEF Bar!ShellForgets
  <2> QED
    BY <2>1, <2>2
<1>4. Commanded' /\ BarTypes' /\ Hinted'
  BY <1>2, <1>3 DEF Switched, Commanded, BarTypes, Hinted
<1>5. \A w \in Overlays : HintSaid(w)' /\ StyleSaid(w)'
  BY <1>2 DEF Switched, HintSaid, StyleSaid, Comes
<1> QED
  BY <1>4, <1>5 DEF Switched

LEMMA SwitchKeeps ==
  ASSUME Switched, [Bar!Next]_(Bar!vars)
  PROVE  Switched'
<1>1. CASE UNCHANGED Bar!vars
  <2>1. UNCHANGED <<taskbarVisible, running, posted, window_visible, tool, skip, deleted, stale>>
    BY <1>1 DEF Bar!vars, Bar!style
  <2>2. Commanded' /\ BarTypes' /\ Hinted'
    BY <2>1 DEF Switched, Commanded, BarTypes, Hinted
  <2>3. \A w \in Overlays : HintSaid(w)' /\ StyleSaid(w)'
    BY <2>1 DEF Switched, HintSaid, StyleSaid, Comes
  <2> QED
    BY <2>2, <2>3 DEF Switched
<1>2. CASE Bar!Next
  BY <1>2, InvokeSwitches, StoreSwitches, LoadSwitches, PostSwitches, DispatchSwitches, ShellSwitches
     DEF Bar!Next, Bar!Run
<1> QED
  BY <1>1, <1>2

LEMMA SwitchedHolds == Switched => Bar!SwitchHolds
<1> SUFFICES ASSUME Switched PROVE Bar!SwitchHolds
  OBVIOUS
<1>1. \A w \in Windows : ~Bar!IsOverlayWindow(w) => ~tool[w]
  BY OverlaysAreWindows DEF Switched, Hinted, Bar!IsOverlayWindow
<1>2. ASSUME running = <<>>, posted = <<>>, NEW w \in Overlays, window_visible[w],
             <<w, "skip">> \notin stale, <<w, "tool">> \notin stale
      PROVE  Bar!Button(w) <=> taskbarVisible
  <2>1. Len(running) = 0 /\ Len(posted) = 0 /\ 1 .. 0 = {}
    BY <1>2, EmptySeq
  <2>2. (skip[w] <=> ~taskbarVisible)
    BY <1>2, <2>1 DEF Switched, HintSaid, Comes
  <2>3. (tool[w] <=> ~taskbarVisible)
    BY <1>2, <2>1 DEF Switched, StyleSaid, Comes
  <2>4. deleted[w] => skip[w]
    BY OverlaysAreWindows DEF Switched, Hinted
  <2> QED
    BY <1>2, <2>2, <2>3, <2>4 DEF Bar!Button
<1>3. running = <<>> /\ posted = <<>> =>
        \A w \in Overlays :
          window_visible[w] /\ stale \cap {<<w, "skip">>, <<w, "tool">>} = {} =>
            (Bar!Button(w) <=> taskbarVisible)
  BY <1>2
<1> QED
  BY <1>1, <1>3, OverlaysAreWindows DEF Bar!SwitchHolds

-----------------------------------------------------------------------------
(* The messages a window shows                                             *)

MessageStatus == {"received", "pending", "sent", "delivered"}
Notes == [seq : View!Seqs, status : MessageStatus] \cup {View!Reset}
Answers == [seq : View!Seqs, status : MessageStatus \cup {"unread"}]

\* The events under way, and everything that will tell the window a status.
Heralds == drafts \cup {events[i] : i \in 1 .. Len(events)}
Words == Heralds \cup {n \in replies : n.status # "unread"}

PageTypes(p) ==
  /\ p \in [of : Nat, before : View!Seqs \cup {View!Newest}, read : BOOLEAN, rows : {p.rows},
             more : BOOLEAN]
  /\ p.of <= generation
  /\ p.rows \in [DOMAIN p.rows -> MessageStatus] /\ DOMAIN p.rows \subseteq View!Seqs
  /\ ~p.read => DOMAIN p.rows = {}

ViewTypes ==
  /\ rows \in Seq([period : Nat, status : MessageStatus]) /\ Len(rows) <= MaxRows
  /\ period \in Nat \ {View!Deleted}
  /\ drafts \subseteq Notes /\ events \in Seq(Notes) /\ replies \subseteq Answers
  /\ generation \in Nat /\ row_crossed \subseteq View!Seqs
  /\ shown \in [DOMAIN shown -> MessageStatus] /\ DOMAIN shown \subseteq View!Seqs
  /\ hasMore \in BOOLEAN /\ loading \in BOOLEAN /\ filled \in BOOLEAN
  /\ \A p \in pages : PageTypes(p)

\* The window has heard of the last new period, or nobody has told it.
Fresh == View!Reset \notin Heralds

Current(r) == rows[r].period = period
Told(r) == View!Note(r, rows[r].status) \in Heralds
Settled == View!Seqs \ row_crossed

\* What is under way about a row has its status, and the window has it or is
\* going to be told.
UpToDate ==
  \A r \in Settled :
    /\ \A n \in Words : n.seq = r => n.status = rows[r].status
    /\ \A p \in pages : r \in DOMAIN p.rows => p.rows[r] = rows[r].status
    /\ r \in DOMAIN shown => shown[r] = rows[r].status \/ Told(r)

Beyond(p, r) == p.more /\ \A s \in DOMAIN p.rows : r < s

\* A page has all that it was asked for, or the newest of that.
Paged ==
  \A p \in pages : View!Mine(p) /\ p.read =>
    /\ p.more => DOMAIN p.rows # {}
    /\ \A r \in DOMAIN p.rows : Current(r)
    /\ \A r \in Settled : Current(r) /\ r < p.before => r \in DOMAIN p.rows \/ Beyond(p, r)

\* The window waits for one page, which joins what it shows.
Asking ==
  /\ loading <=> \E p \in pages : View!Mine(p)
  /\ \A p, q \in pages : View!Mine(p) /\ View!Mine(q) => p = q
  /\ filled => \A p \in pages : View!Mine(p) =>
       ~View!Latest(p) /\ \E s \in DOMAIN shown : s <= p.before

Filled ==
  filled =>
    /\ \A r \in DOMAIN shown \ row_crossed : Current(r)
    /\ \A r \in Settled : View!Owned(r) => r \in DOMAIN shown \/ View!Above(r) \/ Told(r)
    /\ hasMore => DOMAIN shown # {}

Viewing == ViewTypes /\ UpToDate /\ Asking /\ (Fresh => Paged /\ Filled)

LEMMA ViewNumbers ==
  /\ MaxRows \in Nat \ {0} /\ PageSize \in Nat \ {0}
  /\ View!Newest \in Nat /\ View!Newest = MaxRows + 1
BY Assumptions DEF Assumptions, View!ViewAssumption, View!Newest

LEMMA RowTypes ==
  ASSUME ViewTypes
  PROVE  /\ Len(rows) \in Nat /\ View!Seqs = 1 .. Len(rows)
         /\ View!Seqs \subseteq Nat \ {0}
         /\ \A r \in View!Seqs : /\ rows[r] \in [period : Nat, status : MessageStatus]
                                 /\ rows[r].period \in Nat /\ rows[r].status \in MessageStatus
                                 /\ r \in Nat /\ r < View!Newest
<1>1. /\ rows \in Seq([period : Nat, status : MessageStatus])
      /\ Len(rows) \in Nat /\ View!Seqs = 1 .. Len(rows) /\ Len(rows) <= MaxRows
  BY DEF ViewTypes, View!Seqs
<1>2. \A r \in View!Seqs : rows[r] \in [period : Nat, status : MessageStatus]
  BY <1>1, ElementOfSeq
<1> QED
  BY <1>1, <1>2, ViewNumbers

\* An event is about a row or is the reset.
LEMMA NoteTypes ==
  ASSUME ViewTypes, NEW n \in Notes
  PROVE  \/ n = View!Reset
         \/ /\ n # View!Reset /\ n.seq \in View!Seqs /\ n.status \in MessageStatus
            /\ n = View!Note(n.seq, n.status)
<1>1. CASE n \in [seq : View!Seqs, status : MessageStatus]
  <2>1. n.seq \in View!Seqs /\ n.status \in MessageStatus /\ n = [seq |-> n.seq, status |-> n.status]
    BY <1>1
  <2>2. n.seq # 0
    BY <2>1, RowTypes
  <2>3. n # View!Reset
    BY <2>2 DEF View!Reset
  <2> QED
    BY <2>1, <2>3 DEF View!Note
<1> QED
  BY <1>1 DEF Notes

LEMMA HeraldTypes ==
  ASSUME ViewTypes
  PROVE  Heralds \subseteq Notes
BY DEF ViewTypes, Heralds

LEMMA InitViewing == View!Init => Viewing
<1> SUFFICES ASSUME View!Init PROVE Viewing
  OBVIOUS
<1>1. PICK n \in 0 .. MaxRows - 1 :
        rows = [i \in 1 .. n |-> [period |-> 1, status |-> "received"]]
  BY DEF View!Init
<1>2. /\ period = 1 /\ drafts = {} /\ events = <<>> /\ replies = {} /\ pages = {}
      /\ shown = <<>> /\ hasMore = FALSE /\ loading = FALSE
      /\ generation = 0 /\ filled = FALSE /\ row_crossed = {}
  BY DEF View!Init
<1>3. /\ n \in Nat /\ rows \in Seq([period : Nat, status : MessageStatus]) /\ Len(rows) <= MaxRows
      /\ View!Seqs = 1 .. n
  BY <1>1, ViewNumbers DEF MessageStatus, View!Seqs
<1>4. DOMAIN shown = {} /\ shown \in [DOMAIN shown -> MessageStatus] /\ Heralds = {} /\ Words = {}
  BY <1>2 DEF Heralds, Words
<1>5. period \in Nat \ {View!Deleted}
  BY <1>2 DEF View!Deleted
<1>a. /\ drafts \subseteq Notes /\ events \in Seq(Notes) /\ replies \subseteq Answers
      /\ \A p \in pages : PageTypes(p)
  BY <1>2
<1>b. ViewTypes
  BY <1>2, <1>3, <1>4, <1>5, <1>a DEF ViewTypes
<1>6. UpToDate
  BY <1>2, <1>4 DEF UpToDate
<1>7. Asking
  BY <1>2 DEF Asking
<1>8. Paged /\ Filled
  BY <1>2 DEF Paged, Filled
<1> QED
  BY <1>b, <1>6, <1>7, <1>8 DEF Viewing

LEMMA ViewingShows == Viewing => View!ShownIsStored
<1> SUFFICES ASSUME Viewing, View!Quiet, NEW r \in View!Seqs \ row_crossed
             PROVE  /\ View!Owned(r) => View!Given(r) \/ View!Above(r)
                    /\ r \in DOMAIN shown => rows[r].period = period
  BY DEF View!ShownIsStored
<1>1. Heralds = {} /\ filled
  BY DEF View!Quiet, Heralds
<1>2. Filled /\ UpToDate /\ ~Told(r)
  BY <1>1 DEF Viewing, Fresh, Told
<1>3. r \in DOMAIN shown => shown[r] = rows[r].status
  BY <1>2 DEF UpToDate, Settled
<1> QED
  BY <1>1, <1>2, <1>3 DEF Filled, Settled, Current, View!Given

LEMMA RowsStay ==
  ASSUME rows' = rows
  PROVE  /\ View!Seqs' = View!Seqs /\ Notes' = Notes /\ Answers' = Answers
         /\ View!Newest' = View!Newest /\ View!Reset' = View!Reset
BY DEF View!Seqs, Notes, Answers, View!Newest, View!Reset

\* What is under way changes, and nothing that is wrong comes to it.
LEMMA WordsPass ==
  ASSUME Viewing,
         UNCHANGED <<rows, period, pages, shown, hasMore, loading, generation, filled, row_crossed>>,
         Heralds' = Heralds,
         Words' \subseteq Words \cup {View!Note(r, rows[r].status) : r \in View!Seqs},
         drafts' \subseteq Notes, events' \in Seq(Notes), replies' \subseteq Answers
  PROVE  Viewing'
<1>1. ViewTypes /\ UpToDate /\ Asking /\ (Fresh => Paged /\ Filled)
  BY DEF Viewing
<1>2. /\ View!Seqs' = View!Seqs /\ Notes' = Notes /\ Answers' = Answers
      /\ View!Reset' = View!Reset /\ Settled' = Settled
  BY RowsStay DEF Settled
<1>3. ViewTypes'
  BY <1>1, <1>2 DEF ViewTypes, PageTypes, View!Deleted, View!Newest
<1>4. \A n \in Words' : \A r \in Settled : n.seq = r => n.status = rows[r].status
  BY <1>1 DEF UpToDate, View!Note
<1>5. \A r : Told(r)' <=> Told(r)
  BY DEF Told, View!Note
<1>6. UpToDate'
  BY <1>1, <1>2, <1>4, <1>5 DEF UpToDate
<1>7. Asking' /\ (Paged => Paged')
  BY <1>1, <1>2 DEF Asking, Paged, Current, Beyond, View!Mine, View!Latest, View!Newest
<1>8. Filled => Filled'
  BY <1>1, <1>2, <1>5 DEF Filled, Current, View!Owned, View!Above
<1>9. Fresh' => Fresh
  BY <1>2 DEF Fresh
<1> QED
  BY <1>1, <1>3, <1>6, <1>7, <1>8, <1>9 DEF Viewing

LEMMA EventsAppended ==
  ASSUME ViewTypes, NEW n \in Notes, events' = Append(events, n)
  PROVE  /\ events' \in Seq(Notes)
         /\ {events[i] : i \in 1 .. Len(events)}' = {events[i] : i \in 1 .. Len(events)} \cup {n}
<1>1. /\ events \in Seq(Notes) /\ Len(events) \in Nat /\ Len(events') = Len(events) + 1
      /\ events' \in Seq(Notes) /\ events'[Len(events) + 1] = n
      /\ \A i \in 1 .. Len(events) : events'[i] = events[i]
  BY DEF ViewTypes
<1>2. 1 .. Len(events') = 1 .. Len(events) \cup {Len(events) + 1}
  BY <1>1
<1>3. {events'[i] : i \in 1 .. Len(events')}
        = {events[i] : i \in 1 .. Len(events)} \cup {n}
  BY <1>1, <1>2
<1> QED
  BY <1>1, <1>3

LEMMA EventsShorter ==
  ASSUME ViewTypes, events # <<>>, events' = Tail(events)
  PROVE  /\ events' \in Seq(Notes) /\ Head(events) \in Notes
         /\ {events[i] : i \in 1 .. Len(events)}
              = {Head(events)} \cup {events[i] : i \in 1 .. Len(events)}'
<1>1. /\ events \in Seq(Notes) /\ Len(events) \in Nat \ {0} /\ Len(events') = Len(events) - 1
      /\ events' \in Seq(Notes) /\ events[1] = Head(events)
      /\ \A i \in 1 .. Len(events) - 1 : events'[i] = events[i + 1]
  BY DEF ViewTypes
<1>2. Head(events) \in Notes
  BY <1>1, ElementOfSeq
<1>3. \A i \in 1 .. Len(events) : i = 1 \/ (i - 1 \in 1 .. Len(events') /\ i = i - 1 + 1)
  BY <1>1
<1>4. {events[i] : i \in 1 .. Len(events)}
        = {Head(events)} \cup {events'[i] : i \in 1 .. Len(events')}
  <2>1. \A i \in 1 .. Len(events) :
          events[i] \in {Head(events)} \cup {events'[j] : j \in 1 .. Len(events')}
    <3> SUFFICES ASSUME NEW i \in 1 .. Len(events), i # 1
                 PROVE  events[i] \in {events'[j] : j \in 1 .. Len(events')}
      BY <1>1
    <3>1. i - 1 \in 1 .. Len(events') /\ events'[i - 1] = events[i]
      BY <1>1, <1>3
    <3> QED
      BY <3>1
  <2>2. \A j \in 1 .. Len(events') : j + 1 \in 1 .. Len(events) /\ events'[j] = events[j + 1]
    BY <1>1
  <2>3. 1 \in 1 .. Len(events)
    BY <1>1
  <2> QED
    BY <1>1, <2>1, <2>2, <2>3
<1> QED
  BY <1>1, <1>2, <1>4

LEMMA EmitViews ==
  ASSUME Viewing, View!Emit
  PROVE  Viewing'
<1>1. PICK n \in drafts : drafts' = drafts \ {n} /\ events' = Append(events, n)
  BY DEF View!Emit
<1>2. /\ UNCHANGED <<rows, period, pages, shown, hasMore, loading, generation, filled, row_crossed>>
      /\ replies' = replies
  BY DEF View!Emit, View!db, View!window
<1>3. ViewTypes /\ drafts \subseteq Notes /\ replies \subseteq Answers
  BY DEF Viewing, ViewTypes
<1>4. Heralds' = Heralds /\ Words' = Words
  BY <1>1, <1>2, <1>3, EventsAppended DEF Heralds, Words
<1> QED
  BY <1>1, <1>2, <1>3, <1>4, EventsAppended, WordsPass

LEMMA ReadReplyViews ==
  ASSUME Viewing, View!ReadReply
  PROVE  Viewing'
<1>1. PICK n \in replies :
        /\ n.status = "unread"
        /\ replies' = (replies \ {n}) \cup {View!Note(n.seq, rows[n.seq].status)}
  BY DEF View!ReadReply
<1>2. /\ UNCHANGED <<rows, period, pages, shown, hasMore, loading, generation, filled, row_crossed>>
      /\ UNCHANGED <<drafts, events>>
  BY DEF View!ReadReply, View!db, View!window
<1>3. ViewTypes /\ drafts \subseteq Notes /\ events \in Seq(Notes) /\ replies \subseteq Answers
  BY DEF Viewing, ViewTypes
<1>4. n.seq \in View!Seqs /\ rows[n.seq].status \in MessageStatus
  BY <1>3, RowTypes DEF Answers
<1>5. View!Note(n.seq, rows[n.seq].status) \in Answers
  BY <1>4 DEF Answers, View!Note
<1>6. Heralds' = Heralds
  BY <1>2 DEF Heralds
<1>7. Words' \subseteq Words \cup {View!Note(n.seq, rows[n.seq].status)}
  BY <1>1, <1>6 DEF Words
<1>8. Words' \subseteq Words \cup {View!Note(r, rows[r].status) : r \in View!Seqs}
  BY <1>4, <1>7
<1> QED
  BY <1>1, <1>2, <1>3, <1>5, <1>6, <1>8, WordsPass

\* A row that changes while something older is under way is crossed.
LEMMA NotOnItsWay ==
  ASSUME Viewing, NEW r, View!Crosses(r)
  PROVE  /\ row_crossed \subseteq row_crossed' /\ row_crossed' \subseteq row_crossed \cup {r}
         /\ r \notin row_crossed' =>
              /\ \A n \in Words : n.seq # r
              /\ \A p \in pages : r \notin DOMAIN p.rows /\ (p.read => p.before # View!Newest)
<1>1. /\ row_crossed \subseteq row_crossed' /\ row_crossed' \subseteq row_crossed \cup {r}
      /\ r \notin row_crossed' => ~View!OnItsWay(r)
  BY DEF View!Crosses
<1> SUFFICES ASSUME ~View!OnItsWay(r)
             PROVE  /\ \A n \in Words : n.seq # r
                    /\ \A p \in pages : r \notin DOMAIN p.rows /\ (p.read => p.before # View!Newest)
  BY <1>1
<1>2. ViewTypes /\ \A p \in pages : PageTypes(p)
  BY DEF Viewing, ViewTypes
<1>3. \A p \in pages : ~p.read => DOMAIN p.rows = {}
  BY <1>2 DEF PageTypes
<1>4. \A p \in pages : p.read => p.before # View!Newest /\ r \notin DOMAIN p.rows
  BY DEF View!OnItsWay
<1>5. \A i \in 1 .. Len(events) : events[i].seq # r
  BY DEF View!OnItsWay, ViewTypes
<1>6. \A n \in drafts : n.status # "unread"
  <2> SUFFICES ASSUME NEW n \in drafts, n.status = "unread" PROVE FALSE
    OBVIOUS
  <2>1. n \in Notes
    BY <1>2 DEF ViewTypes
  <2>2. n = View!Reset \/ n.status \in MessageStatus
    BY <1>2, <2>1, NoteTypes
  <2> QED
    BY <2>2 DEF View!Reset, MessageStatus
<1>7. \A n \in drafts \cup {m \in replies : m.status # "unread"} : n.seq # r
  BY <1>6 DEF View!OnItsWay
<1> QED
  BY <1>3, <1>4, <1>5, <1>7 DEF Words, Heralds

LEMMA AfterStatus ==
  ASSUME NEW s \in DOMAIN View!After
  PROVE  s \in {"pending", "sent"} /\ View!After[s] \in {"sent", "delivered"}
BY DEF View!After

LEMMA PublishViews ==
  ASSUME Viewing, NEW r \in View!Seqs, View!Publish(r)
  PROVE  Viewing'
<1> DEFINE s == View!After[rows[r].status]
<1> DEFINE n == View!Note(r, s)
<1>1. /\ rows' = [rows EXCEPT ![r].status = s] /\ drafts' = drafts \cup {n}
      /\ rows[r].status \in DOMAIN View!After /\ View!Crosses(r)
      /\ UNCHANGED <<period, events, replies, pages, shown, hasMore, loading, generation, filled>>
  BY DEF View!Publish, View!window
<1>2. s \in {"sent", "delivered"} /\ s \in MessageStatus
  BY <1>1, AfterStatus DEF MessageStatus
<1> HIDE DEF s
<1>3. ViewTypes /\ UpToDate /\ Asking /\ (Fresh => Paged /\ Filled)
  BY DEF Viewing
<1>4. /\ rows \in Seq([period : Nat, status : MessageStatus])
      /\ rows[r] \in [period : Nat, status : MessageStatus]
  BY <1>3, RowTypes DEF ViewTypes
<1>5. /\ [rows[r] EXCEPT !.status = s] \in [period : Nat, status : MessageStatus]
      /\ [rows[r] EXCEPT !.status = s].period = rows[r].period
      /\ [rows[r] EXCEPT !.status = s].status = s
  BY <1>2, <1>4
<1>6. /\ rows' \in Seq([period : Nat, status : MessageStatus]) /\ Len(rows') = Len(rows)
      /\ View!Seqs' = View!Seqs
      /\ rows'[r].status = s
      /\ \A q \in View!Seqs : rows'[q].period = rows[q].period
      /\ \A q \in View!Seqs : q # r => rows'[q].status = rows[q].status
  <2>1. rows' = [rows EXCEPT ![r] = [rows[r] EXCEPT !.status = s]]
    BY <1>1
  <2>2. r \in 1 .. Len(rows)
    BY <1>3, RowTypes
  <2>3. /\ rows' \in Seq([period : Nat, status : MessageStatus]) /\ Len(rows') = Len(rows)
    BY <1>4, <1>5, <2>1, <2>2, ExceptSeq
  <2>4. /\ rows'[r] = [rows[r] EXCEPT !.status = s] /\ DOMAIN rows' = DOMAIN rows
        /\ \A q \in DOMAIN rows : q # r => rows'[q] = rows[q]
    BY <1>4, <2>1, <2>2
  <2> QED
    BY <1>5, <2>3, <2>4 DEF View!Seqs
<1>7. n \in Notes /\ n # View!Reset /\ n.seq = r /\ n.status = s
  <2>1. n.seq = r /\ n.status = s /\ r # 0
    BY <1>3, RowTypes DEF View!Note
  <2> QED
    BY <1>2, <2>1 DEF View!Note, Notes, View!Reset
<1>8. Heralds' = Heralds \cup {n} /\ Words' = Words \cup {n}
  BY <1>1 DEF Heralds, Words
<1>9. /\ row_crossed \subseteq row_crossed' /\ row_crossed' \subseteq row_crossed \cup {r}
      /\ r \notin row_crossed' =>
           /\ \A m \in Words : m.seq # r
           /\ \A p \in pages : r \notin DOMAIN p.rows /\ (p.read => p.before # View!Newest)
  BY <1>1, NotOnItsWay
<1>10. Notes' = Notes /\ Answers' = Answers
  BY <1>6 DEF Notes, Answers, View!Reset
<1>11. ViewTypes'
  BY <1>1, <1>3, <1>6, <1>7, <1>9, <1>10 DEF ViewTypes, PageTypes, View!Deleted, View!Newest
<1>12. Settled' \subseteq Settled
  BY <1>6, <1>9 DEF Settled
<1>13. Told(r)' /\ \A q \in View!Seqs : q # r /\ Told(q) => Told(q)'
  BY <1>6, <1>8 DEF Told, View!Note
<1> HIDE DEF n
<1>14. UpToDate'
  <2> SUFFICES ASSUME NEW q \in Settled'
               PROVE  /\ \A m \in Words' : m.seq = q => m.status = rows'[q].status
                      /\ \A p \in pages : q \in DOMAIN p.rows => p.rows[q] = rows'[q].status
                      /\ q \in DOMAIN shown => shown[q] = rows'[q].status \/ Told(q)'
    BY <1>1 DEF UpToDate
  <2>1. CASE q = r
    BY <1>6, <1>7, <1>8, <1>9, <1>13, <2>1 DEF Settled
  <2>2. CASE q # r
    <3>1. q \in Settled /\ q \in View!Seqs /\ rows'[q].status = rows[q].status
      BY <1>6, <1>12, <2>2 DEF Settled
    <3> QED
      BY <1>3, <1>7, <1>8, <1>13, <2>2, <3>1 DEF UpToDate
  <2> QED
    BY <2>1, <2>2
<1>15. Asking'
  BY <1>1, <1>3 DEF Asking, View!Mine, View!Latest, View!Newest
<1>16. \A q \in View!Seqs : Current(q)' <=> Current(q)
  BY <1>1, <1>6 DEF Current
<1>17. \A p \in pages : DOMAIN p.rows \subseteq View!Seqs
  BY <1>3 DEF ViewTypes, PageTypes
<1>18. Paged => Paged'
  <2> SUFFICES ASSUME Paged PROVE Paged'
    OBVIOUS
  <2>1. Settled' \subseteq View!Seqs
    BY <1>12 DEF Settled
  <2> QED
    BY <1>1, <1>12, <1>16, <1>17, <2>1 DEF Paged, Beyond, View!Mine
<1>19. Filled => Filled'
  <2> SUFFICES ASSUME Filled, filled PROVE Filled'
    BY <1>1 DEF Filled
  <2>1. \A q \in DOMAIN shown \ row_crossed' : Current(q)'
    BY <1>3, <1>9, <1>16 DEF Filled, ViewTypes
  <2>2. ASSUME NEW q \in Settled', View!Owned(q)'
        PROVE  q \in DOMAIN shown \/ View!Above(q) \/ Told(q)'
    <3>1. q \in View!Seqs /\ q \in Settled
      BY <1>12 DEF Settled
    <3>2. q = r \/ View!Owned(q)
      BY <1>1, <1>6, <2>2, <3>1 DEF View!Owned
    <3> QED
      BY <1>13, <3>1, <3>2 DEF Filled
  <2>3. \A q : View!Above(q)' <=> View!Above(q)
    BY <1>1 DEF View!Above
  <2> QED
    BY <1>1, <2>1, <2>2, <2>3 DEF Filled
<1>20. Fresh' => Fresh
  BY <1>8 DEF Fresh, View!Reset
<1> QED
  BY <1>3, <1>11, <1>14, <1>15, <1>18, <1>19, <1>20 DEF Viewing

\* What a new row does to all but the words about it.
LEMMA StoreViews ==
  ASSUME Viewing, NEW s \in MessageStatus, NEW k, k = Len(rows) + 1,
         rows' = Append(rows, [period |-> period, status |-> s]),
         Len(rows) < MaxRows, View!Crosses(Len(rows) + 1),
         UNCHANGED <<period, events, pages, shown, hasMore, loading, generation, filled>>,
         NEW n, n = View!Note(Len(rows) + 1, s),
         \/ Heralds' = Heralds \cup {n} /\ Words' = Words \cup {n}
         \/ s = "pending" /\ Heralds' = Heralds /\ Words' = Words,
         drafts' \subseteq drafts \cup {n},
         replies' \subseteq replies \cup {View!Note(Len(rows) + 1, "unread")}
  PROVE  Viewing'
<1>1. ViewTypes /\ UpToDate /\ Asking /\ (Fresh => Paged /\ Filled)
  BY DEF Viewing
<1>2. /\ rows \in Seq([period : Nat, status : MessageStatus]) /\ Len(rows) \in Nat
      /\ period \in Nat
      /\ [period |-> period, status |-> s] \in [period : Nat, status : MessageStatus]
  BY <1>1 DEF ViewTypes
<1>3. /\ rows' \in Seq([period : Nat, status : MessageStatus]) /\ Len(rows') = k
      /\ View!Seqs = 1 .. Len(rows) /\ View!Seqs' = View!Seqs \cup {k} /\ k \notin View!Seqs
      /\ k \in Nat \ {0} /\ Len(rows') <= MaxRows
      /\ \A q \in View!Seqs : rows'[q] = rows[q] /\ q < k
      /\ rows'[k].period = period /\ rows'[k].status = s
  <2>1. /\ rows' \in Seq([period : Nat, status : MessageStatus]) /\ Len(rows') = k
        /\ \A q \in 1 .. Len(rows) : rows'[q] = rows[q]
        /\ rows'[k] = [period |-> period, status |-> s]
    BY <1>2
  <2>2. View!Seqs = 1 .. Len(rows) /\ View!Seqs' = 1 .. k
    BY <1>2, <2>1 DEF View!Seqs
  <2> QED
    BY <1>2, <2>1, <2>2, ViewNumbers
<1>4. n.seq = k /\ n.status = s /\ n \in Notes' /\ n # View!Reset
  <2>1. n.seq = k /\ n.status = s /\ n = [seq |-> k, status |-> s]
    BY DEF View!Note
  <2>2. n \in [seq : View!Seqs', status : MessageStatus]
    BY <1>3, <2>1
  <2> QED
    BY <1>3, <2>1, <2>2 DEF Notes, View!Reset
<1>5. /\ Notes \subseteq Notes' /\ Answers \subseteq Answers'
  <2>1. /\ [seq : View!Seqs, status : MessageStatus] \subseteq [seq : View!Seqs', status : MessageStatus]
        /\ [seq : View!Seqs, status : MessageStatus \cup {"unread"}]
             \subseteq [seq : View!Seqs', status : MessageStatus \cup {"unread"}]
        /\ View!Reset' = View!Reset
    BY <1>3 DEF View!Reset
  <2> QED
    BY <2>1 DEF Notes, Answers
<1>6. View!Note(k, "unread") \in Answers'
  <2>1. View!Note(k, "unread") = [seq |-> k, status |-> "unread"] /\ k \in View!Seqs'
    BY <1>3 DEF View!Note
  <2> QED
    BY <2>1 DEF Answers
<1>7. /\ row_crossed \subseteq row_crossed' /\ row_crossed' \subseteq row_crossed \cup {k}
      /\ k \notin row_crossed' =>
           \A p \in pages : k \notin DOMAIN p.rows /\ (p.read => p.before # View!Newest)
  BY NotOnItsWay
<1>8. ViewTypes'
  <2>1. events' \in Seq(Notes')
    BY <1>1, <1>5 DEF ViewTypes
  <2>2. drafts' \subseteq Notes' /\ replies' \subseteq Answers'
    BY <1>1, <1>4, <1>5, <1>6 DEF ViewTypes
  <2>3. \A p \in pages : PageTypes(p)'
    BY <1>1, <1>3 DEF ViewTypes, PageTypes, View!Newest
  <2>4. row_crossed' \subseteq View!Seqs' /\ DOMAIN shown \subseteq View!Seqs'
    BY <1>1, <1>3, <1>7 DEF ViewTypes
  <2> QED
    BY <1>1, <1>3, <2>1, <2>2, <2>3, <2>4 DEF ViewTypes, View!Deleted
<1>9. Settled' \subseteq Settled \cup {k} /\ Settled' \ {k} \subseteq View!Seqs
  BY <1>3, <1>7 DEF Settled
<1>10. \A m \in Words : m.seq # k
  <2>1. \A m \in Heralds : m.seq # k
    <3> SUFFICES ASSUME NEW m \in Heralds PROVE m.seq # k
      OBVIOUS
    <3>1. m = View!Reset \/ m.seq \in View!Seqs
      BY <1>1, HeraldTypes, NoteTypes
    <3> QED
      BY <1>3, <3>1 DEF View!Reset
  <2>2. \A m \in replies : m.seq \in View!Seqs
    BY <1>1 DEF ViewTypes, Answers
  <2> QED
    BY <1>3, <2>1, <2>2 DEF Words
<1>11. \A q \in View!Seqs : Told(q) => Told(q)'
  BY <1>3 DEF Told, View!Note
<1>12. s # "pending" => Told(k)'
  BY <1>3 DEF Told, View!Note
<1>13. k \notin DOMAIN shown /\ \A p \in pages : DOMAIN p.rows \subseteq View!Seqs
  BY <1>1, <1>3 DEF ViewTypes, PageTypes
<1>14. UpToDate'
  <2> SUFFICES ASSUME NEW q \in Settled'
               PROVE  /\ \A m \in Words' : m.seq = q => m.status = rows'[q].status
                      /\ \A p \in pages : q \in DOMAIN p.rows => p.rows[q] = rows'[q].status
                      /\ q \in DOMAIN shown => shown[q] = rows'[q].status \/ Told(q)'
    BY DEF UpToDate
  <2>1. CASE q = k
    BY <1>3, <1>4, <1>10, <1>13, <2>1
  <2>2. CASE q # k
    <3>1. q \in Settled /\ q \in View!Seqs /\ rows'[q] = rows[q]
      BY <1>3, <1>9, <2>2
    <3>2. \A m \in Words' : m.seq = q => m \in Words
      BY <1>4, <2>2
    <3> QED
      BY <1>1, <1>11, <3>1, <3>2 DEF UpToDate
  <2> QED
    BY <2>1, <2>2
<1>15. Asking'
  BY <1>1 DEF Asking, View!Mine, View!Latest, View!Newest
<1>16. \A q \in View!Seqs : Current(q)' <=> Current(q)
  BY <1>3 DEF Current
<1>17. Paged => Paged'
  <2> SUFFICES ASSUME Paged, NEW p \in pages, View!Mine(p), p.read
               PROVE  /\ p.more => DOMAIN p.rows # {}
                      /\ \A q \in DOMAIN p.rows : Current(q)'
                      /\ \A q \in Settled' :
                           Current(q)' /\ q < p.before => q \in DOMAIN p.rows \/ Beyond(p, q)
    BY DEF Paged, Beyond, View!Mine
  <2>1. /\ p.more => DOMAIN p.rows # {}
        /\ \A q \in DOMAIN p.rows : Current(q)'
        /\ \A q \in Settled : Current(q) /\ q < p.before => q \in DOMAIN p.rows \/ Beyond(p, q)
    BY <1>13, <1>16 DEF Paged
  <2>2. k \in Settled' => ~(k < p.before)
    <3> SUFFICES ASSUME k \in Settled' PROVE ~(k < p.before)
      OBVIOUS
    <3>1. p.before # View!Newest
      BY <1>7 DEF Settled
    <3>2. p.before \in View!Seqs
      BY <1>1, <3>1 DEF ViewTypes, PageTypes
    <3> QED
      BY <1>3, <3>2
  <2>3. \A q \in Settled' : q < p.before => q \in Settled /\ q \in View!Seqs
    BY <1>9, <2>2
  <2> QED
    BY <1>16, <2>1, <2>3
<1>18. Filled => Filled'
  <2> SUFFICES ASSUME Filled, filled PROVE Filled'
    BY DEF Filled
  <2>1. \A q \in DOMAIN shown \ row_crossed' : Current(q)'
    BY <1>1, <1>7, <1>16 DEF Filled, ViewTypes
  <2>2. ASSUME NEW q \in Settled', View!Owned(q)'
        PROVE  q \in DOMAIN shown \/ View!Above(q) \/ Told(q)'
    <3>1. CASE q = k
      <4>1. s # "pending"
        BY <1>3, <2>2, <3>1 DEF View!Owned
      <4> QED
        BY <1>12, <3>1, <4>1
    <3>2. CASE q # k
      <4>1. q \in Settled /\ q \in View!Seqs /\ rows'[q] = rows[q]
        BY <1>3, <1>9, <3>2
      <4> QED
        BY <1>11, <2>2, <4>1 DEF Filled, View!Owned
    <3> QED
      BY <3>1, <3>2
  <2>3. \A q : View!Above(q)' <=> View!Above(q)
    BY DEF View!Above
  <2> QED
    BY <2>1, <2>2, <2>3 DEF Filled
<1>19. Fresh' => Fresh
  BY DEF Fresh, View!Reset
<1> QED
  BY <1>1, <1>8, <1>14, <1>15, <1>17, <1>18, <1>19 DEF Viewing

LEMMA ReceiveViews ==
  ASSUME Viewing, View!Receive
  PROVE  Viewing'
<1> DEFINE n == View!Note(Len(rows) + 1, "received")
<1>1. /\ rows' = Append(rows, [period |-> period, status |-> "received"])
      /\ Len(rows) < MaxRows /\ View!Crosses(Len(rows) + 1)
      /\ UNCHANGED <<period, events, pages, shown, hasMore, loading, generation, filled>>
      /\ drafts' = drafts \cup {n} /\ replies' = replies
  BY DEF View!Receive, View!Store, View!window
<1>2. Heralds' = Heralds \cup {n}
  BY <1>1 DEF Heralds
<1>3. Words' = Words \cup {n}
  BY <1>1, <1>2 DEF Words
<1>4. "received" \in MessageStatus
  BY DEF MessageStatus
<1> HIDE DEF n
<1>5. n = View!Note(Len(rows) + 1, "received") /\ drafts' \subseteq drafts \cup {n}
      /\ replies' \subseteq replies \cup {View!Note(Len(rows) + 1, "unread")}
  BY <1>1 DEF n
<1> QED
  BY <1>1, <1>2, <1>3, <1>4, <1>5, StoreViews

LEMMA SendViews ==
  ASSUME Viewing, View!Send
  PROVE  Viewing'
<1> DEFINE n == View!Note(Len(rows) + 1, "pending")
<1> DEFINE a == View!Note(Len(rows) + 1, "unread")
<1>1. /\ rows' = Append(rows, [period |-> period, status |-> "pending"])
      /\ Len(rows) < MaxRows /\ View!Crosses(Len(rows) + 1)
      /\ UNCHANGED <<period, events, pages, shown, hasMore, loading, generation, filled>>
      /\ drafts' = drafts
      /\ replies' = replies \/ replies' = replies \cup {a}
  BY DEF View!Send, View!Store, View!window
<1>2. Heralds' = Heralds
  BY <1>1 DEF Heralds
<1>3. a.status = "unread"
  BY DEF View!Note
<1> HIDE DEF a
<1>4. {m \in replies' : m.status # "unread"} = {m \in replies : m.status # "unread"}
  BY <1>1, <1>3
<1>5. Words' = Words
  BY <1>2, <1>4 DEF Words
<1>6. "pending" \in MessageStatus
  BY DEF MessageStatus
<1> HIDE DEF n
<1>7. n = View!Note(Len(rows) + 1, "pending") /\ drafts' \subseteq drafts \cup {n}
      /\ replies' \subseteq replies \cup {View!Note(Len(rows) + 1, "unread")}
  BY <1>1 DEF n, a
<1> QED
  BY <1>1, <1>2, <1>5, <1>6, <1>7, StoreViews

LEMMA StartNewEpochViews ==
  ASSUME Viewing, View!StartNewEpoch
  PROVE  Viewing'
<1>1. ViewTypes /\ UpToDate /\ Asking
  BY DEF Viewing
<1>2. PICK delete \in BOOLEAN :
        rows' = IF ~delete THEN rows
                ELSE [r \in View!Seqs |->
                       [rows[r] EXCEPT !.period =
                         IF rows[r].status \in DOMAIN View!After /\ @ # View!Deleted
                         THEN period + 1 ELSE View!Deleted]]
  BY DEF View!StartNewEpoch
<1>3. /\ period' = period + 1 /\ drafts' = drafts \cup {View!Reset}
      /\ UNCHANGED <<events, replies, pages, shown, hasMore, loading, generation, filled, row_crossed>>
  BY DEF View!StartNewEpoch, View!window
<1>4. /\ View!Seqs = 1 .. Len(rows) /\ Len(rows) \in Nat /\ period' \in Nat \ {View!Deleted}
      /\ rows \in Seq([period : Nat, status : MessageStatus])
  BY <1>1, <1>3, RowTypes DEF ViewTypes, View!Deleted
<1>5. /\ rows' \in Seq([period : Nat, status : MessageStatus]) /\ Len(rows') = Len(rows)
      /\ \A r \in View!Seqs : rows'[r].status = rows[r].status
  <2>1. CASE ~delete
    BY <1>2, <1>4, <2>1
  <2>2. CASE delete
    <3> DEFINE at_(r) == IF rows[r].status \in DOMAIN View!After /\ rows[r].period # View!Deleted
                         THEN period + 1 ELSE View!Deleted
    <3>1. rows' = [r \in 1 .. Len(rows) |-> [rows[r] EXCEPT !.period = at_(r)]]
      BY <1>2, <1>4, <2>2
    <3>2. \A r \in 1 .. Len(rows) : at_(r) \in Nat
      BY <1>1 DEF ViewTypes, View!Deleted
    <3> HIDE DEF at_
    <3>3. \A r \in 1 .. Len(rows) :
            /\ [rows[r] EXCEPT !.period = at_(r)] \in [period : Nat, status : MessageStatus]
            /\ [rows[r] EXCEPT !.period = at_(r)].status = rows[r].status
      BY <1>1, <1>4, <3>2, RowTypes
    <3>4. \A r \in 1 .. Len(rows) : rows'[r] = [rows[r] EXCEPT !.period = at_(r)]
      BY <3>1
    <3>5. rows' \in [1 .. Len(rows) -> [period : Nat, status : MessageStatus]]
      BY <3>1, <3>3
    <3>6. rows' \in Seq([period : Nat, status : MessageStatus]) /\ Len(rows') = Len(rows)
      BY <1>4, <3>5
    <3> QED
      BY <1>4, <3>3, <3>4, <3>6
  <2> QED
    BY <2>1, <2>2
<1>6. View!Seqs' = View!Seqs /\ View!Reset \in Notes
  BY <1>4, <1>5 DEF View!Seqs, Notes
<1>7. Notes' = Notes /\ Answers' = Answers /\ Settled' = Settled
  BY <1>3, <1>6 DEF Notes, Answers, Settled, View!Reset
<1>8. ViewTypes'
  BY <1>1, <1>3, <1>4, <1>5, <1>6, <1>7 DEF ViewTypes, PageTypes, View!Deleted, View!Newest
<1>9. Heralds' = Heralds \cup {View!Reset} /\ Words' = Words \cup {View!Reset}
  BY <1>3 DEF Heralds, Words
<1>10. \A r \in View!Seqs : r # View!Reset.seq
  BY <1>1, RowTypes DEF View!Reset
<1>11. \A r \in View!Seqs : Told(r) => Told(r)'
  BY <1>5, <1>9 DEF Told, View!Note
<1>12. UpToDate'
  BY <1>1, <1>3, <1>5, <1>7, <1>9, <1>10, <1>11 DEF UpToDate, Settled
<1>13. Asking'
  BY <1>1, <1>3 DEF Asking, View!Mine, View!Latest, View!Newest
<1>14. ~Fresh'
  BY <1>9 DEF Fresh, View!Reset
<1> QED
  BY <1>8, <1>12, <1>13, <1>14 DEF Viewing

LEMMA GreatestOf ==
  ASSUME NEW n \in Nat, NEW S, S \subseteq 0 .. n, S # {}
  PROVE  \E g \in S : \A m \in S : m <= g
<1> DEFINE T == {n - m : m \in S}
<1>a. \A m \in S : m \in Nat /\ n - m \in Nat
  OBVIOUS
<1>b. \A t \in T : t \in Nat
  BY <1>a
<1>1. T \subseteq Nat /\ T # {}
  BY <1>b
<1>2. PICK t \in T : \A u \in T : t <= u
  BY <1>1, LeastOf
<1>3. PICK g \in S : t = n - g
  BY <1>2
<1>4. ASSUME NEW m \in S PROVE m <= g
  <2>1. n - m \in T /\ m \in Nat /\ g \in Nat
    BY <1>4
  <2>2. n - g <= n - m
    BY <1>2, <1>3, <2>1
  <2> QED
    BY <2>1, <2>2
<1> QED
  BY <1>4

LEMMA LeastShown ==
  ASSUME NEW S, S \subseteq Nat, S # {}
  PROVE  View!Min(S) \in S /\ \A m \in S : View!Min(S) <= m
<1>1. \E n \in S : \A m \in S : n <= m
  BY LeastOf
<1> QED
  BY <1>1 DEF View!Min

LEMMA SameCardinality == \A S : View!Cardinality(S) = Cardinality(S)
BY DEF View!Cardinality, Cardinality

\* A page has the newest of its rows, and some if there are any.
LEMMA PageHasNewest ==
  ASSUME ViewTypes, NEW b
  PROVE  /\ View!Page(b) \subseteq View!Matching(b)
         /\ View!Matching(b) # {} => View!Page(b) # {}
         /\ \A r \in View!Matching(b) \ View!Page(b) : \A s \in View!Page(b) : r < s
<1> DEFINE M == View!Matching(b)
<1> DEFINE After_(r) == {s \in M : s > r}
<1>a. \A m \in M : m \in Nat
  BY RowTypes DEF View!Matching
<1>1. /\ M \subseteq View!Seqs /\ View!Seqs = 1 .. Len(rows) /\ Len(rows) \in Nat
      /\ M \subseteq 0 .. Len(rows)
  BY RowTypes DEF View!Matching
<1>2. View!Page(b) = {r \in M : Cardinality(After_(r)) < PageSize}
  BY SameCardinality DEF View!Page
<1>3. IsFiniteSet(M)
  <2>1. IsFiniteSet(0 .. Len(rows))
    BY <1>1, FS_Interval
  <2> QED
    BY <1>1, <2>1, FS_Subset
<1>4. \A r : IsFiniteSet(After_(r))
  <2>1. \A r : After_(r) \subseteq M
    OBVIOUS
  <2> QED
    BY <1>3, <2>1, FS_Subset
<1> HIDE DEF M
<1>5. M # {} => View!Page(b) # {}
  <2> SUFFICES ASSUME M # {} PROVE View!Page(b) # {}
    OBVIOUS
  <2>1. PICK g \in M : \A m \in M : m <= g
    BY <1>1, GreatestOf
  <2>2. After_(g) = {}
    <3> SUFFICES ASSUME NEW s \in M, s > g PROVE FALSE
      OBVIOUS
    <3>1. s <= g /\ s \in Nat /\ g \in Nat
      BY <1>a, <2>1
    <3> QED
      BY <3>1
  <2>3. Cardinality(After_(g)) = 0
    BY <2>2, FS_EmptySet
  <2>4. Cardinality(After_(g)) < PageSize
    BY <2>3, ViewNumbers
  <2> HIDE DEF After_
  <2> QED
    BY <1>2, <2>1, <2>4
<1>6. ASSUME NEW r \in M, r \notin View!Page(b), NEW s \in View!Page(b), ~(r < s) PROVE FALSE
  <2>1. s \in M
    BY <1>2, <1>6
  <2>a. s \in Nat /\ r \in Nat /\ s <= r
    BY <1>a, <1>6, <2>1
  <2>2. After_(r) \subseteq After_(s)
    <3> SUFFICES ASSUME NEW t \in M, t > r PROVE t > s
      OBVIOUS
    <3>1. t \in Nat
      BY <1>a
    <3> QED
      BY <2>a, <3>1
  <2>3. /\ Cardinality(After_(r)) <= Cardinality(After_(s)) /\ Cardinality(After_(r)) \in Nat
        /\ Cardinality(After_(s)) \in Nat
    BY <1>4, <2>2, FS_Subset, FS_CardinalityType
  <2> HIDE DEF After_
  <2>4. Cardinality(After_(s)) < PageSize
    BY <1>2, <1>6
  <2>5. Cardinality(After_(r)) < PageSize
    BY <2>3, <2>4, ViewNumbers
  <2> QED
    BY <1>2, <1>6, <2>5
<1>7. View!Page(b) \subseteq M
  BY <1>2
<1> QED
  BY <1>5, <1>6, <1>7 DEF M

\* Changes of the pages and of what the window shows alone.
LEMMA PagesViewTypes ==
  ASSUME ViewTypes, UNCHANGED <<rows, period, replies, drafts>>,
         events' \in Seq(Notes), generation' \in Nat, generation <= generation',
         row_crossed' \subseteq View!Seqs,
         shown' \in [DOMAIN shown' -> MessageStatus], DOMAIN shown' \subseteq View!Seqs,
         hasMore' \in BOOLEAN, loading' \in BOOLEAN, filled' \in BOOLEAN,
         \A p \in pages' : p \in pages \/ PageTypes(p)'
  PROVE  ViewTypes'
<1>1. View!Seqs' = View!Seqs /\ Notes' = Notes /\ Answers' = Answers /\ View!Newest' = View!Newest
  BY RowsStay
<1>2. \A p \in pages : PageTypes(p)'
  BY <1>1 DEF ViewTypes, PageTypes
<1> QED
  BY <1>1, <1>2 DEF ViewTypes, View!Deleted

LEMMA PageRead ==
  ASSUME NEW O, NEW B, NEW W, NEW p \in [of : O, before : B, read : BOOLEAN, rows : W, more : BOOLEAN],
         NEW rs, NEW m \in BOOLEAN, NEW q,
         q = [p EXCEPT !.read = TRUE, !.rows = rs, !.more = m]
  PROVE  /\ q \in [of : O, before : B, read : BOOLEAN, rows : {rs}, more : BOOLEAN]
         /\ q.of = p.of /\ q.before = p.before /\ q.read = TRUE /\ q.rows = rs /\ q.more = m
OBVIOUS

LEMMA ReadPageViews ==
  ASSUME Viewing, View!ReadPage
  PROVE  Viewing'
<1>1. /\ ViewTypes /\ UpToDate /\ Asking /\ (Fresh => Paged /\ Filled)
      /\ UNCHANGED <<rows, period, drafts, events, replies, shown, hasMore, loading, generation,
                     filled, row_crossed>>
  BY DEF Viewing, View!ReadPage, View!db, View!window
<1>2. PICK p \in pages :
        /\ ~p.read
        /\ pages' = (pages \ {p}) \cup
             {[p EXCEPT !.read = TRUE,
                        !.rows = [r \in View!Page(p.before) |-> rows[r].status],
                        !.more = View!Page(p.before) # View!Matching(p.before)]}
  BY DEF View!ReadPage
<1>p. PICK P : P = View!Page(p.before)
  OBVIOUS
<1>m. PICK M : M = View!Matching(p.before)
  OBVIOUS
<1>f. PICK f : f = [r \in P |-> rows[r].status]
  OBVIOUS
<1>a. /\ PageTypes(p) /\ p.before \in View!Seqs \cup {View!Newest} /\ p.of \in Nat
      /\ p.of <= generation /\ P \subseteq M /\ M \subseteq View!Seqs
      /\ \A r \in M : Current(r)
  BY <1>1, <1>2, <1>p, <1>m, PageHasNewest DEF ViewTypes, PageTypes, View!Matching, Current
<1>c. PICK q : q = [p EXCEPT !.read = TRUE, !.rows = f, !.more = P # M]
  OBVIOUS
<1>4. pages' = (pages \ {p}) \cup {q}
  BY <1>2, <1>c, <1>p, <1>m, <1>f
<1>5. /\ q \in [of : Nat, before : View!Seqs \cup {View!Newest}, read : BOOLEAN, rows : {f},
                 more : BOOLEAN]
      /\ q.read = TRUE /\ q.more = (P # M) /\ q.of = p.of /\ q.before = p.before /\ q.rows = f
  <2>1. p \in [of : Nat, before : View!Seqs \cup {View!Newest}, read : BOOLEAN, rows : {p.rows},
                more : BOOLEAN]
    BY <1>a DEF PageTypes
  <2> QED
    BY <1>c, <2>1, PageRead
<1>b. /\ DOMAIN f = P /\ \A r \in P : f[r] = rows[r].status
      /\ f \in [P -> MessageStatus]
  BY <1>1, <1>a, <1>f, RowTypes
<1>6. /\ DOMAIN q.rows = P /\ \A r \in P : q.rows[r] = rows[r].status
      /\ q.rows \in [DOMAIN q.rows -> MessageStatus]
  BY <1>b, <1>5
<1>7. View!Seqs' = View!Seqs /\ View!Newest' = View!Newest /\ Notes' = Notes /\ Settled' = Settled
  BY <1>1, RowsStay DEF Settled
<1>8. PageTypes(q)'
  <2>1. q \in [of : Nat, before : View!Seqs \cup {View!Newest}, read : BOOLEAN, rows : {q.rows},
                more : BOOLEAN]
    BY <1>5
  <2>2. q.more \in BOOLEAN /\ q.read
    BY <1>5
  <2> QED
    BY <1>1, <1>a, <1>5, <1>6, <1>7, <2>1, <2>2 DEF PageTypes
<1>9. ViewTypes'
  <2>1. /\ events' \in Seq(Notes) /\ generation' \in Nat /\ generation <= generation'
        /\ row_crossed' \subseteq View!Seqs
        /\ shown' \in [DOMAIN shown' -> MessageStatus] /\ DOMAIN shown' \subseteq View!Seqs
        /\ hasMore' \in BOOLEAN /\ loading' \in BOOLEAN /\ filled' \in BOOLEAN
    BY <1>1 DEF ViewTypes
  <2> QED
    BY <1>1, <1>4, <1>8, <2>1, PagesViewTypes
<1>10. Heralds' = Heralds /\ Words' = Words
  BY <1>1 DEF Heralds, Words
<1>11. \A r : Told(r)' <=> Told(r)
  BY <1>1, <1>10 DEF Told, View!Note
<1>12. UpToDate'
  BY <1>1, <1>4, <1>6, <1>7, <1>10, <1>11 DEF UpToDate
<1>13. Asking'
  BY <1>1, <1>2, <1>4, <1>5, <1>7 DEF Asking, View!Mine, View!Latest
<1>14. \A r : Current(r)' <=> Current(r)
  BY <1>1 DEF Current
<1>15. Paged => Paged'
  <2> SUFFICES ASSUME Paged, NEW t \in pages', View!Mine(t), t.read
               PROVE  /\ t.more => DOMAIN t.rows # {}
                      /\ \A r \in DOMAIN t.rows : Current(r)
                      /\ \A r \in Settled :
                           Current(r) /\ r < t.before => r \in DOMAIN t.rows \/ Beyond(t, r)
    BY <1>1, <1>7, <1>14 DEF Paged, Beyond, View!Mine
  <2>1. CASE t # q
    BY <1>4, <2>1 DEF Paged
  <2>2. CASE t = q
    <3>1. (P # M => P # {}) /\ \A r \in M \ P : \A s \in P : r < s
      BY <1>1, <1>p, <1>m, PageHasNewest
    <3>2. \A r \in Settled : Current(r) /\ r < p.before => r \in M
      BY <1>m DEF Settled, Current, View!Matching
    <3>3. (q.more => DOMAIN q.rows # {}) /\ \A r \in DOMAIN q.rows : Current(r)
      BY <1>a, <1>5, <1>6, <3>1
    <3>4. ASSUME NEW r \in Settled, Current(r), r < q.before, r \notin P PROVE Beyond(q, r)
      <4>1. r \in M /\ r \notin P /\ P # M
        BY <1>5, <3>2, <3>4
      <4> QED
        BY <1>5, <1>6, <3>1, <4>1 DEF Beyond
    <3> QED
      BY <1>6, <2>2, <3>3, <3>4
  <2> QED
    BY <2>1, <2>2
<1>16. Filled => Filled'
  BY <1>1, <1>7, <1>11, <1>14 DEF Filled, View!Owned, View!Above
<1>17. Fresh' => Fresh
  BY <1>10 DEF Fresh, View!Reset
<1> QED
  BY <1>1, <1>9, <1>12, <1>13, <1>15, <1>16, <1>17 DEF Viewing

\* The page x is asked for, with what is before b, by the generation g.
NewPage(x, b, g) ==
  /\ pages' = pages \cup {x}
  /\ x \in [of : Nat, before : View!Seqs \cup {View!Newest}, read : BOOLEAN, rows : {x.rows},
            more : BOOLEAN]
  /\ x.of = g /\ x.before = b /\ ~x.read /\ DOMAIN x.rows = {}
  /\ x.rows \in [DOMAIN x.rows -> MessageStatus]

LEMMA PageAsked ==
  ASSUME ViewTypes, NEW b \in View!Seqs \cup {View!Newest}, NEW g \in Nat, View!Asked(b, g)
  PROVE  \E x : NewPage(x, b, g)
<1>1. PICK x : x = [of |-> g, before |-> b, read |-> FALSE, rows |-> <<>>, more |-> FALSE]
  OBVIOUS
<1>2. DOMAIN <<>> = {} /\ <<>> \in [DOMAIN <<>> -> MessageStatus]
  OBVIOUS
<1>3. pages' = pages \cup {x}
  BY <1>1 DEF View!Asked
<1>4. x.of = g /\ x.before = b /\ x.read = FALSE /\ x.rows = <<>>
  BY <1>1
<1>5. x \in [of : Nat, before : View!Seqs \cup {View!Newest}, read : BOOLEAN,
             rows : {x.rows}, more : BOOLEAN]
  BY <1>1
<1> QED
  BY <1>2, <1>3, <1>4, <1>5 DEF NewPage

\* A new generation begins.
LEMMA LatestViews ==
  ASSUME Viewing, View!LoadLatest, UNCHANGED <<rows, period, drafts, replies, row_crossed>>,
         events' \in Seq(Notes), Heralds \ {View!Reset} \subseteq Heralds', Words' \subseteq Words
  PROVE  Viewing'
<1>1. ViewTypes /\ UpToDate /\ Asking
  BY DEF Viewing
<1>2. /\ generation' = generation + 1 /\ loading' = TRUE /\ filled' = FALSE
      /\ UNCHANGED <<shown, hasMore>> /\ View!Asked(View!Newest, generation + 1)
  BY DEF View!LoadLatest
<1>3. generation \in Nat /\ generation + 1 \in Nat
  BY <1>1 DEF ViewTypes
<1>a. View!Newest \in View!Seqs \cup {View!Newest}
  OBVIOUS
<1>b. PICK x : NewPage(x, View!Newest, generation + 1)
  BY <1>1, <1>2, <1>3, <1>a, PageAsked
<1>4. /\ pages' = pages \cup {x}
      /\ x \in [of : Nat, before : View!Seqs \cup {View!Newest}, read : BOOLEAN,
                rows : {x.rows}, more : BOOLEAN]
      /\ x.of = generation + 1 /\ x.before = View!Newest /\ ~x.read /\ DOMAIN x.rows = {}
      /\ x.rows \in [DOMAIN x.rows -> MessageStatus]
  BY <1>b DEF NewPage
<1>5. View!Seqs' = View!Seqs /\ View!Newest' = View!Newest /\ Settled' = Settled
  BY RowsStay DEF Settled
<1>6. PageTypes(x)'
  BY <1>2, <1>3, <1>4, <1>5 DEF PageTypes
<1>7. ViewTypes'
  <2>1. /\ generation' \in Nat /\ generation <= generation'
    BY <1>2, <1>3
  <2>2. /\ row_crossed' \subseteq View!Seqs
        /\ shown' \in [DOMAIN shown' -> MessageStatus] /\ DOMAIN shown' \subseteq View!Seqs
        /\ hasMore' \in BOOLEAN
    BY <1>1, <1>2 DEF ViewTypes
  <2>3. loading' \in BOOLEAN /\ filled' \in BOOLEAN
    BY <1>2
  <2> QED
    BY <1>1, <1>4, <1>6, <2>1, <2>2, <2>3, PagesViewTypes
<1>8. \A r \in Settled : Told(r) => Told(r)'
  <2> SUFFICES ASSUME NEW r \in Settled, Told(r) PROVE Told(r)'
    OBVIOUS
  <2>1. r # 0
    BY <1>1, RowTypes DEF Settled
  <2>2. View!Note(r, rows[r].status) # View!Reset
    BY <2>1 DEF View!Note, View!Reset
  <2> QED
    BY <2>2 DEF Told, View!Note
<1>9. UpToDate'
  BY <1>1, <1>2, <1>4, <1>5, <1>8 DEF UpToDate
<1>10. \A p \in pages : p.of # generation'
  BY <1>1, <1>2, <1>3 DEF ViewTypes, PageTypes
<1>11. \A p \in pages' : View!Mine(p)' <=> p = x
  BY <1>2, <1>4, <1>10 DEF View!Mine
<1>12. Asking'
  BY <1>2, <1>4, <1>11 DEF Asking, View!Mine
<1>13. Paged' /\ Filled'
  BY <1>2, <1>4, <1>11 DEF Paged, Filled, View!Mine
<1> QED
  BY <1>7, <1>9, <1>12, <1>13 DEF Viewing

LEMMA MountedViews ==
  ASSUME Viewing, View!Mounted
  PROVE  Viewing'
<1>1. View!LoadLatest /\ UNCHANGED <<rows, period, drafts, events, replies, row_crossed>>
  BY DEF View!Mounted, View!db
<1>2. Heralds' = Heralds /\ Words' = Words /\ events' \in Seq(Notes)
  BY <1>1 DEF Heralds, Words, Viewing, ViewTypes
<1> QED
  BY <1>1, <1>2, LatestViews

LEMMA LoadOlderViews ==
  ASSUME Viewing, View!LoadOlder
  PROVE  Viewing'
<1>1. ViewTypes /\ UpToDate /\ Asking /\ (Fresh => Paged /\ Filled)
  BY DEF Viewing
<1>2. /\ ~loading /\ loading' = TRUE /\ shown # <<>>
      /\ UNCHANGED <<rows, period, drafts, events, replies, shown, hasMore, generation, filled,
                     row_crossed>>
      /\ View!Asked(View!Min(DOMAIN shown), generation)
  BY DEF View!LoadOlder, View!db
<1>3. DOMAIN shown # {}
  <2> SUFFICES ASSUME DOMAIN shown = {} PROVE shown = <<>>
    BY <1>2
  <2> QED
    BY <1>1 DEF ViewTypes
<1>4. PICK b : b = View!Min(DOMAIN shown)
  OBVIOUS
<1>5. b \in DOMAIN shown /\ b \in View!Seqs /\ b # View!Newest
  BY <1>1, <1>3, <1>4, LeastShown, RowTypes DEF ViewTypes
<1>6. generation \in Nat
  BY <1>1 DEF ViewTypes
<1>a. PICK x : NewPage(x, b, generation)
  BY <1>1, <1>2, <1>4, <1>5, <1>6, PageAsked
<1>7. /\ pages' = pages \cup {x}
      /\ x \in [of : Nat, before : View!Seqs \cup {View!Newest}, read : BOOLEAN,
                rows : {x.rows}, more : BOOLEAN]
      /\ x.of = generation /\ x.before = b /\ ~x.read /\ DOMAIN x.rows = {}
      /\ x.rows \in [DOMAIN x.rows -> MessageStatus]
  BY <1>a DEF NewPage
<1>8. View!Seqs' = View!Seqs /\ View!Newest' = View!Newest /\ Settled' = Settled
  BY <1>2, RowsStay DEF Settled
<1>9. PageTypes(x)'
  BY <1>2, <1>6, <1>7, <1>8 DEF PageTypes
<1>10. ViewTypes'
  <2>1. /\ generation' \in Nat /\ generation <= generation' /\ events' \in Seq(Notes)
        /\ row_crossed' \subseteq View!Seqs
        /\ shown' \in [DOMAIN shown' -> MessageStatus] /\ DOMAIN shown' \subseteq View!Seqs
        /\ hasMore' \in BOOLEAN /\ loading' \in BOOLEAN /\ filled' \in BOOLEAN
    BY <1>1, <1>2, <1>6 DEF ViewTypes
  <2> QED
    BY <1>1, <1>2, <1>7, <1>9, <2>1, PagesViewTypes
<1>11. Heralds' = Heralds /\ Words' = Words
  BY <1>2 DEF Heralds, Words
<1>12. \A r : (Told(r)' <=> Told(r)) /\ (Current(r)' <=> Current(r))
  BY <1>2, <1>11 DEF Told, View!Note, Current
<1>13. UpToDate'
  BY <1>1, <1>2, <1>7, <1>8, <1>11, <1>12 DEF UpToDate
<1>14. \A p \in pages' : View!Mine(p)' <=> p = x
  <2>1. \A p \in pages : ~View!Mine(p)
    BY <1>1, <1>2 DEF Asking
  <2> QED
    BY <1>2, <1>7, <2>1 DEF View!Mine
<1>15. Asking'
  <2>1. b <= b
    BY <1>1, <1>5, RowTypes
  <2> QED
    BY <1>2, <1>5, <1>7, <1>8, <1>14, <2>1 DEF Asking, View!Mine, View!Latest
<1>16. Paged'
  BY <1>7, <1>14 DEF Paged, View!Mine
<1>17. Filled => Filled'
  BY <1>2, <1>8, <1>12 DEF Filled, View!Owned, View!Above
<1>18. Fresh' => Fresh
  BY <1>11 DEF Fresh, View!Reset
<1> QED
  BY <1>1, <1>10, <1>13, <1>15, <1>16, <1>17, <1>18 DEF Viewing

\* A page that is gone takes nothing with it.
LEMMA FewerPages ==
  ASSUME Viewing, pages' \subseteq pages,
         UNCHANGED <<rows, period, drafts, events, replies, shown, hasMore, generation, filled,
                     row_crossed>>,
         loading' \in BOOLEAN, loading' <=> \E p \in pages' : View!Mine(p)
  PROVE  Viewing'
<1>1. ViewTypes /\ UpToDate /\ Asking /\ (Fresh => Paged /\ Filled)
  BY DEF Viewing
<1>2. View!Seqs' = View!Seqs /\ View!Newest' = View!Newest /\ Settled' = Settled
  BY RowsStay DEF Settled
<1>3. ViewTypes'
  <2>1. /\ generation' \in Nat /\ generation <= generation' /\ events' \in Seq(Notes)
        /\ row_crossed' \subseteq View!Seqs
        /\ shown' \in [DOMAIN shown' -> MessageStatus] /\ DOMAIN shown' \subseteq View!Seqs
        /\ hasMore' \in BOOLEAN /\ loading' \in BOOLEAN /\ filled' \in BOOLEAN
    BY <1>1 DEF ViewTypes
  <2> QED
    BY <1>1, <2>1, PagesViewTypes
<1>4. Heralds' = Heralds /\ Words' = Words
  BY DEF Heralds, Words
<1>5. \A r : (Told(r)' <=> Told(r)) /\ (Current(r)' <=> Current(r))
  BY <1>4 DEF Told, View!Note, Current
<1>6. UpToDate'
  BY <1>1, <1>2, <1>4, <1>5 DEF UpToDate
<1>7. Asking'
  BY <1>1, <1>2 DEF Asking, View!Mine, View!Latest
<1>8. Paged => Paged'
  BY <1>2, <1>5 DEF Paged, Beyond, View!Mine
<1>9. Filled => Filled'
  BY <1>2, <1>5 DEF Filled, View!Owned, View!Above
<1>10. Fresh' => Fresh
  BY <1>4 DEF Fresh, View!Reset
<1> QED
  BY <1>1, <1>3, <1>6, <1>7, <1>8, <1>9, <1>10 DEF Viewing

LEMMA PageFailsViews ==
  ASSUME Viewing, View!PageFails
  PROVE  Viewing'
<1>1. PICK p \in pages : pages' = pages \ {p} /\ loading' = (loading /\ p.of # generation)
  BY DEF View!PageFails
<1>2. UNCHANGED <<rows, period, drafts, events, replies, shown, hasMore, generation, filled,
                  row_crossed>>
  BY DEF View!PageFails, View!db
<1>3. Asking
  BY DEF Viewing
<1>4. loading' <=> \E q \in pages' : View!Mine(q)
  <2>1. CASE p.of = generation
    <3>1. \A q \in pages : View!Mine(q) => q = p
      BY <1>3, <2>1 DEF Asking, View!Mine
    <3>2. ~\E q \in pages' : View!Mine(q)
      BY <1>1, <3>1
    <3> QED
      BY <1>1, <2>1, <3>2
  <2>2. CASE p.of # generation
    <3>1. (\E q \in pages' : View!Mine(q)) <=> \E q \in pages : View!Mine(q)
      BY <1>1, <2>2 DEF View!Mine
    <3>2. loading' <=> loading
      BY <1>1, <2>2
    <3> QED
      BY <1>3, <3>1, <3>2 DEF Asking
  <2> QED
    BY <2>1, <2>2
<1>5. loading' \in BOOLEAN
  BY <1>1
<1> QED
  BY <1>1, <1>2, <1>4, <1>5, FewerPages

\* u is what is shown with f put over it.
Joined(u, f) ==
  /\ DOMAIN u = DOMAIN shown \cup DOMAIN f /\ u \in [DOMAIN u -> MessageStatus]
  /\ \A r \in DOMAIN f : u[r] = f[r]
  /\ \A r \in DOMAIN shown : r \notin DOMAIN f => u[r] = shown[r]

LEMMA UpsertedIs ==
  ASSUME ViewTypes, NEW f, f \in [DOMAIN f -> MessageStatus]
  PROVE  Joined(View!Upserted(f), f)
<1> DEFINE u == [r \in DOMAIN shown \cup DOMAIN f |-> IF r \in DOMAIN f THEN f[r] ELSE shown[r]]
<1>1. DOMAIN u = DOMAIN shown \cup DOMAIN f
  OBVIOUS
<1>2. /\ \A r \in DOMAIN f : u[r] = f[r]
      /\ \A r \in DOMAIN shown : r \notin DOMAIN f => u[r] = shown[r]
  BY <1>1
<1>3. shown \in [DOMAIN shown -> MessageStatus]
  BY DEF ViewTypes
<1>4. \A r \in DOMAIN shown \cup DOMAIN f : u[r] \in MessageStatus
  BY <1>2, <1>3
<1>5. u \in [DOMAIN shown \cup DOMAIN f -> MessageStatus]
  BY <1>1, <1>4
<1>6. View!Upserted(f) = u
  BY DEF View!Upserted
<1> HIDE DEF u
<1> QED
  BY <1>1, <1>2, <1>5, <1>6 DEF Joined

\* The window's own page arrives.
LEMMA MinePageViews ==
  ASSUME Viewing, NEW p \in pages, p.read, pages' = pages \ {p}, View!Mine(p),
         shown' = IF View!Latest(p) THEN p.rows ELSE View!Upserted(p.rows),
         hasMore' = p.more, loading' = FALSE, filled' = (filled \/ View!Latest(p)),
         UNCHANGED <<rows, period, drafts, events, replies, generation, row_crossed>>
  PROVE  Viewing'
<1>1. ViewTypes /\ UpToDate /\ Asking /\ (Fresh => Paged /\ Filled)
  BY DEF Viewing
<1>2. /\ p.rows \in [DOMAIN p.rows -> MessageStatus] /\ DOMAIN p.rows \subseteq View!Seqs
      /\ p.more \in BOOLEAN /\ p.before \in View!Seqs \cup {View!Newest}
  BY <1>1 DEF ViewTypes, PageTypes
<1>3. /\ shown' \in [DOMAIN shown' -> MessageStatus]
      /\ DOMAIN shown' = DOMAIN p.rows \cup IF View!Latest(p) THEN {} ELSE DOMAIN shown
      /\ \A r \in DOMAIN p.rows : shown'[r] = p.rows[r]
      /\ \A r \in DOMAIN shown' : r \notin DOMAIN p.rows => r \in DOMAIN shown /\ shown'[r] = shown[r]
  <2>1. CASE View!Latest(p)
    BY <1>2, <2>1
  <2>2. CASE ~View!Latest(p)
    <3>1. PICK u : u = View!Upserted(p.rows)
      OBVIOUS
    <3>2. shown' = u
      BY <2>2, <3>1
    <3>3. Joined(u, p.rows)
      BY <1>1, <1>2, <3>1, UpsertedIs
    <3> QED
      BY <2>2, <3>2, <3>3 DEF Joined
  <2> QED
    BY <2>1, <2>2
<1>4. View!Seqs' = View!Seqs /\ View!Newest' = View!Newest /\ Settled' = Settled
  BY RowsStay DEF Settled
<1>5. ViewTypes'
  <2>1. /\ generation' \in Nat /\ generation <= generation' /\ events' \in Seq(Notes)
        /\ row_crossed' \subseteq View!Seqs /\ DOMAIN shown' \subseteq View!Seqs
    BY <1>1, <1>2, <1>3 DEF ViewTypes
  <2>2. hasMore' \in BOOLEAN /\ loading' \in BOOLEAN /\ filled' \in BOOLEAN
    BY <1>2
  <2> QED
    BY <1>1, <1>3, <2>1, <2>2, PagesViewTypes
<1>6. Heralds' = Heralds /\ Words' = Words
  BY DEF Heralds, Words
<1>7. \A r : (Told(r)' <=> Told(r)) /\ (Current(r)' <=> Current(r))
  BY <1>6 DEF Told, View!Note, Current
<1>8. UpToDate'
  <2> SUFFICES ASSUME NEW r \in Settled
               PROVE  /\ \A n \in Words : n.seq = r => n.status = rows[r].status
                      /\ \A q \in pages' : r \in DOMAIN q.rows => q.rows[r] = rows[r].status
                      /\ r \in DOMAIN shown' => shown'[r] = rows[r].status \/ Told(r)
    BY <1>4, <1>6, <1>7 DEF UpToDate
  <2> QED
    BY <1>1, <1>3 DEF UpToDate
<1>9. \A q \in pages' : ~View!Mine(q)'
  BY <1>1 DEF Asking, View!Mine
<1>10. Asking' /\ Paged'
  BY <1>9 DEF Asking, Paged
<1>11. ASSUME Paged, Filled PROVE Filled'
  <2>1. /\ p.more => DOMAIN p.rows # {}
        /\ \A r \in DOMAIN p.rows : Current(r)
        /\ \A r \in Settled : Current(r) /\ r < p.before => r \in DOMAIN p.rows \/ Beyond(p, r)
    BY <1>11 DEF Paged
  <2> SUFFICES ASSUME filled'
               PROVE  /\ \A r \in DOMAIN shown' \ row_crossed : Current(r)
                      /\ \A r \in Settled : View!Owned(r) =>
                           r \in DOMAIN shown' \/ View!Above(r)' \/ Told(r)
                      /\ p.more => DOMAIN shown' # {}
    BY <1>4, <1>7 DEF Filled, View!Owned
  <2>2. p.more => DOMAIN shown' # {}
    BY <1>3, <2>1
  <2>3. \A r \in Settled : View!Owned(r) => Current(r) /\ r \in Nat /\ r < View!Newest
    BY <1>1, RowTypes DEF Settled, View!Owned, Current
  <2>4. CASE View!Latest(p)
    <3>1. p.before = View!Newest /\ DOMAIN shown' = DOMAIN p.rows
      BY <1>3, <2>4 DEF View!Latest
    <3>2. \A r \in Settled : View!Owned(r) => r \in DOMAIN p.rows \/ Beyond(p, r)
      BY <2>1, <2>3, <3>1
    <3>3. \A r : Beyond(p, r) => View!Above(r)'
      BY <3>1 DEF Beyond, View!Above
    <3> QED
      BY <2>1, <2>2, <3>1, <3>2, <3>3
  <2>5. CASE ~View!Latest(p)
    <3>1. filled /\ DOMAIN shown' = DOMAIN shown \cup DOMAIN p.rows
      BY <1>3, <2>5
    <3>2. PICK s \in DOMAIN shown : s <= p.before
      BY <1>1, <3>1 DEF Asking
    <3>3. s \in Nat /\ p.before \in Nat
      BY <1>1, <1>2, RowTypes, ViewNumbers DEF ViewTypes
    <3>4. \A r \in DOMAIN shown' \ row_crossed : Current(r)
      BY <1>11, <2>1, <3>1 DEF Filled
    <3>5. ASSUME NEW r \in Settled, View!Owned(r)
          PROVE  r \in DOMAIN shown' \/ View!Above(r)' \/ Told(r)
      <4> SUFFICES ASSUME View!Above(r), r \notin DOMAIN p.rows PROVE View!Above(r)'
        BY <1>11, <3>1, <3>5 DEF Filled
      <4>1. Current(r) /\ r < p.before
        <5>1. Current(r) /\ r \in Nat /\ r < s
          BY <2>3, <3>2, <3>5 DEF View!Above
        <5> QED
          BY <3>2, <3>3, <5>1
      <4>2. Beyond(p, r)
        BY <2>1, <4>1
      <4> QED
        BY <3>1, <4>2 DEF Beyond, View!Above
    <3> QED
      BY <2>2, <3>4, <3>5
  <2> QED
    BY <2>4, <2>5
<1>12. Fresh' => Fresh
  BY <1>6 DEF Fresh, View!Reset
<1> QED
  BY <1>1, <1>5, <1>8, <1>10, <1>11, <1>12 DEF Viewing

LEMMA PageArrivesViews ==
  ASSUME Viewing, View!PageArrives
  PROVE  Viewing'
<1>1. PICK p \in pages :
        /\ p.read /\ pages' = pages \ {p}
        /\ IF View!Mine(p)
           THEN /\ shown' = IF View!Latest(p) THEN p.rows ELSE View!Upserted(p.rows)
                /\ hasMore' = p.more /\ loading' = FALSE
                /\ filled' = (filled \/ View!Latest(p))
           ELSE UNCHANGED <<shown, hasMore, loading, filled>>
  BY DEF View!PageArrives
<1>2. UNCHANGED <<rows, period, drafts, events, replies, generation, row_crossed>>
  BY DEF View!PageArrives, View!db
<1>3. CASE View!Mine(p)
  BY <1>1, <1>2, <1>3, MinePageViews
<1>4. CASE ~View!Mine(p)
  <2>1. Asking /\ loading \in BOOLEAN
    BY DEF Viewing, ViewTypes
  <2>2. UNCHANGED <<shown, hasMore, loading, filled>>
    BY <1>1, <1>4
  <2>3. (\E q \in pages' : View!Mine(q)) <=> \E q \in pages : View!Mine(q)
    BY <1>1, <1>4
  <2>4. loading' <=> \E q \in pages' : View!Mine(q)
    BY <2>1, <2>2, <2>3 DEF Asking
  <2>5. pages' \subseteq pages /\ loading' \in BOOLEAN
    BY <1>1, <2>1, <2>2
  <2> QED
    BY <1>2, <2>2, <2>4, <2>5, FewerPages
<1> QED
  BY <1>3, <1>4

\* The window is told the status s of the row k.
LEMMA ToldViews ==
  ASSUME Viewing, NEW k \in View!Seqs, NEW s \in MessageStatus,
         View!Note(k, s) \in Words,
         shown' = View!Upserted([r \in {k} |-> s]),
         row_crossed' = row_crossed \cup View!Skipped(k),
         Heralds \ {View!Note(k, s)} \subseteq Heralds', Heralds' \subseteq Heralds, Words' \subseteq Words,
         events' \in Seq(Notes), drafts' = drafts, replies' \subseteq replies,
         UNCHANGED <<rows, period, pages, hasMore, loading, generation, filled>>
  PROVE  Viewing'
<1>1. ViewTypes /\ UpToDate /\ Asking /\ (Fresh => Paged /\ Filled)
  BY DEF Viewing
<1>2. PICK f : f = [r \in {k} |-> s]
  OBVIOUS
<1>3. DOMAIN f = {k} /\ f[k] = s /\ f \in [DOMAIN f -> MessageStatus] /\ DOMAIN f \subseteq View!Seqs
  BY <1>2
<1>4. /\ DOMAIN shown' = DOMAIN shown \cup {k} /\ shown' \in [DOMAIN shown' -> MessageStatus]
      /\ shown'[k] = s /\ \A r \in DOMAIN shown : r # k => shown'[r] = shown[r]
  <2>1. PICK u : u = View!Upserted(f)
    OBVIOUS
  <2>2. shown' = u
    BY <1>2, <2>1
  <2>3. Joined(u, f)
    BY <1>1, <1>3, <2>1, UpsertedIs
  <2> QED
    BY <1>3, <2>2, <2>3 DEF Joined
<1>5. /\ View!Seqs' = View!Seqs /\ View!Newest' = View!Newest /\ Notes' = Notes /\ Answers' = Answers
  BY RowsStay
<1>6. /\ row_crossed \subseteq row_crossed' /\ row_crossed' \subseteq View!Seqs
      /\ Settled' \subseteq Settled
  <2>1. View!Skipped(k) \subseteq View!Seqs
    BY DEF View!Skipped
  <2> QED
    BY <1>1, <1>5, <2>1 DEF Settled, ViewTypes
<1>7. ViewTypes'
  BY <1>1, <1>4, <1>5, <1>6 DEF ViewTypes, PageTypes, View!Deleted
<1>8. \A r : r # k /\ Told(r) => Told(r)'
  BY DEF Told, View!Note
<1>9. \A n \in Words : \A r \in Settled : n.seq = r => n.status = rows[r].status
  BY <1>1 DEF UpToDate
<1>10. k \in Settled => s = rows[k].status
  BY <1>9 DEF View!Note
<1>11. UpToDate'
  <2> SUFFICES ASSUME NEW r \in Settled'
               PROVE  /\ \A n \in Words' : n.seq = r => n.status = rows[r].status
                      /\ \A p \in pages : r \in DOMAIN p.rows => p.rows[r] = rows[r].status
                      /\ r \in DOMAIN shown' => shown'[r] = rows[r].status \/ Told(r)'
    BY DEF UpToDate
  <2>1. r \in Settled
    BY <1>6
  <2>2. r \in DOMAIN shown' => shown'[r] = rows[r].status \/ Told(r)'
    BY <1>1, <1>4, <1>8, <1>10, <2>1 DEF UpToDate
  <2> QED
    BY <1>1, <1>9, <2>1, <2>2 DEF UpToDate
<1>12. Asking'
  BY <1>1, <1>4 DEF Asking, View!Mine, View!Latest, View!Newest
<1>13. \A r : Current(r)' <=> Current(r)
  BY DEF Current
<1>14. Paged => Paged'
  BY <1>6, <1>13 DEF Paged, Beyond, View!Mine
<1>15. ASSUME Filled PROVE Filled'
  <2> SUFFICES ASSUME filled
               PROVE  /\ \A r \in DOMAIN shown' \ row_crossed' : Current(r)
                      /\ \A r \in Settled' : View!Owned(r) =>
                           r \in DOMAIN shown' \/ View!Above(r)' \/ Told(r)'
                      /\ hasMore => DOMAIN shown' # {}
    BY <1>13 DEF Filled, View!Owned
  <2>1. \A r \in DOMAIN shown' \ row_crossed' : Current(r)
    <3>1. \A r \in DOMAIN shown \ row_crossed : Current(r)
      BY <1>15 DEF Filled
    <3>2. k \notin row_crossed' => Current(k)
      BY DEF View!Skipped, Current
    <3> QED
      BY <1>4, <1>6, <3>1, <3>2
  <2>2. ASSUME NEW r \in Settled', View!Owned(r)
        PROVE  r \in DOMAIN shown' \/ View!Above(r)' \/ Told(r)'
    <3>1. r \in Settled /\ (r \in DOMAIN shown \/ View!Above(r) \/ Told(r))
      BY <1>6, <1>15, <2>2 DEF Filled
    <3> SUFFICES ASSUME View!Above(r), r # k PROVE View!Above(r)'
      BY <1>4, <1>8, <3>1
    <3>2. hasMore /\ DOMAIN shown # {} /\ \A t \in DOMAIN shown : r < t
      BY <1>15 DEF Filled, View!Above
    <3>3. DOMAIN shown \subseteq Nat /\ r \in Nat /\ k \in Nat /\ r \in View!Seqs
      BY <1>1, <3>1, RowTypes DEF ViewTypes, Settled
    <3>4. PICK m : m = View!Min(DOMAIN shown)
      OBVIOUS
    <3>5. m \in DOMAIN shown /\ r < m
      BY <3>2, <3>3, <3>4, LeastShown
    <3>6. r < k
      <4> SUFFICES ASSUME k < r PROVE FALSE
        BY <3>3
      <4>1. r \notin View!Skipped(k)
        BY <2>2, <1>5 DEF Settled
      <4>2. shown # <<>>
        BY <3>2
      <4> QED
        BY <3>3, <3>4, <3>5, <4>1, <4>2 DEF View!Skipped
    <3> QED
      BY <1>4, <3>2, <3>6 DEF View!Above
  <2>3. hasMore => DOMAIN shown' # {}
    BY <1>4
  <2> QED
    BY <2>1, <2>2, <2>3
<1>16. Fresh' => Fresh
  <2>1. k # 0
    BY <1>1, RowTypes
  <2>2. View!Note(k, s) # View!Reset
    BY <2>1 DEF View!Note, View!Reset
  <2> QED
    BY <2>2 DEF Fresh, View!Reset
<1> QED
  BY <1>1, <1>7, <1>11, <1>12, <1>14, <1>15, <1>16 DEF Viewing

LEMMA HearViews ==
  ASSUME Viewing, View!Hear
  PROVE  Viewing'
<1>1. /\ events # <<>> /\ events' = Tail(events)
      /\ UNCHANGED <<rows, period, drafts, replies>>
  BY DEF View!Hear, View!db
<1>2. ViewTypes
  BY DEF Viewing
<1>3. PICK n : n = Head(events)
  OBVIOUS
<1>4. n \in Notes /\ events' \in Seq(Notes)
  BY <1>1, <1>2, <1>3, EventsShorter
<1>5. Heralds = Heralds' \cup {n}
  BY <1>1, <1>2, <1>3, EventsShorter DEF Heralds
<1>6. Words' \subseteq Words /\ n \in Words
  BY <1>1, <1>5 DEF Words
<1>7. CASE n = View!Reset
  <2>1. View!LoadLatest /\ UNCHANGED row_crossed
    BY <1>3, <1>7 DEF View!Hear
  <2> QED
    BY <1>1, <1>4, <1>5, <1>6, <1>7, <2>1, LatestViews
<1>8. CASE n # View!Reset
  <2>1. n.seq \in View!Seqs /\ n.status \in MessageStatus /\ n = View!Note(n.seq, n.status)
    BY <1>2, <1>4, <1>8, NoteTypes
  <2>2. /\ shown' = View!Upserted([r \in {n.seq} |-> n.status])
        /\ row_crossed' = row_crossed \cup View!Skipped(n.seq)
        /\ UNCHANGED <<pages, hasMore, loading, generation, filled>>
    BY <1>3, <1>8 DEF View!Hear
  <2>3. PICK k \in View!Seqs : k = n.seq
    BY <2>1
  <2>4. PICK s \in MessageStatus : s = n.status
    BY <2>1
  <2>5. /\ n = View!Note(k, s) /\ shown' = View!Upserted([r \in {k} |-> s])
        /\ row_crossed' = row_crossed \cup View!Skipped(k)
    BY <2>1, <2>2, <2>3, <2>4
  <2>6. /\ Heralds \ {View!Note(k, s)} \subseteq Heralds' /\ Heralds' \subseteq Heralds
        /\ View!Note(k, s) \in Words
    BY <1>5, <1>6, <2>5
  <2> QED
    BY <1>1, <1>4, <1>6, <2>2, <2>5, <2>6, ToldViews
<1> QED
  BY <1>7, <1>8

LEMMA ReplyArrivesViews ==
  ASSUME Viewing, View!ReplyArrives
  PROVE  Viewing'
<1>1. PICK n \in replies :
        /\ n.status # "unread" /\ replies' = replies \ {n}
        /\ shown' = View!Upserted([s \in {n.seq} |-> n.status])
        /\ row_crossed' = row_crossed \cup View!Skipped(n.seq)
  BY DEF View!ReplyArrives
<1>2. UNCHANGED <<rows, period, drafts, events, pages, hasMore, loading, generation, filled>>
  BY DEF View!ReplyArrives, View!db
<1>3. ViewTypes
  BY DEF Viewing
<1>4. n \in Answers
  BY <1>3 DEF ViewTypes
<1>5. PICK k \in View!Seqs : k = n.seq
  BY <1>4 DEF Answers
<1>6. PICK s \in MessageStatus : s = n.status
  BY <1>1, <1>4 DEF Answers
<1>7. n = View!Note(k, s)
  BY <1>4, <1>5, <1>6 DEF Answers, View!Note
<1>8. /\ shown' = View!Upserted([r \in {k} |-> s])
      /\ row_crossed' = row_crossed \cup View!Skipped(k)
  BY <1>1, <1>5, <1>6
<1>9. Heralds' = Heralds /\ events' \in Seq(Notes)
  BY <1>2, <1>3 DEF Heralds, ViewTypes
<1>10. Words' \subseteq Words /\ View!Note(k, s) \in Words
  BY <1>1, <1>7, <1>9 DEF Words
<1>11. Heralds \ {View!Note(k, s)} \subseteq Heralds' /\ Heralds' \subseteq Heralds
  BY <1>9
<1>12. replies' \subseteq replies
  BY <1>1
<1> QED
  BY <1>2, <1>8, <1>9, <1>10, <1>11, <1>12, ToldViews

LEMMA ViewKeeps == Viewing /\ [View!Next]_(View!vars) => Viewing'
<1> SUFFICES ASSUME Viewing, [View!Next]_(View!vars) PROVE Viewing'
  OBVIOUS
<1>1. CASE UNCHANGED View!vars
  <2>1. UNCHANGED <<rows, period, drafts, events, replies, pages, shown, hasMore, loading,
                    generation, filled, row_crossed>>
    BY <1>1 DEF View!vars, View!db, View!window
  <2>2. Heralds' = Heralds /\ Words' = Words
    BY <2>1 DEF Heralds, Words
  <2>3. drafts' \subseteq Notes /\ events' \in Seq(Notes) /\ replies' \subseteq Answers
    BY <2>1 DEF Viewing, ViewTypes
  <2> QED
    BY <2>1, <2>2, <2>3, WordsPass
<1>2. CASE View!Rust
  BY <1>2, ReceiveViews, SendViews, ReadReplyViews, EmitViews, StartNewEpochViews, ReadPageViews,
     PublishViews DEF View!Rust
<1>3. CASE View!WindowStep
  BY <1>3, MountedViews, LoadOlderViews, PageArrivesViews, PageFailsViews, HearViews,
     ReplyArrivesViews DEF View!WindowStep
<1> QED
  BY <1>1, <1>2, <1>3 DEF View!Next

-----------------------------------------------------------------------------
(* The types of the twelve                                                *)

\* The process, beside the clock and the file.
Processes ==
  /\ {directory, alive, grown, watching, dialog, ahead} \subseteq BOOLEAN
  /\ hooked \subseteq Pages /\ dialogs \subseteq {"start", "failed"}

LEMMA InitProcesses == Restart!Init => Processes
BY DEF Restart!Init, Processes

LEMMA ProcessesTyped == Processes /\ [Restart!Next]_(Restart!vars) => Processes'
<1> SUFFICES ASSUME Processes, [Restart!Next]_(Restart!vars) PROVE Processes'
  OBVIOUS
<1> USE DEF Processes
<1>1. ASSUME NEW p \in Pages, Restart!Ready(p) PROVE Processes'
  BY <1>1 DEF Restart!Ready, Restart!file, Restart!told
<1>2. ASSUME NEW p \in Pages, Restart!ProcessFailed(p) PROVE Processes'
  BY <1>2 DEF Restart!ProcessFailed, Restart!file, Restart!told
<1>3. CASE Restart!AutoRestart
  BY <1>3 DEF Restart!AutoRestart, Restart!Started
<1>4. CASE Restart!WatchEnds
  BY <1>4 DEF Restart!WatchEnds, Restart!file, Restart!told
<1>5. ASSUME NEW d, Restart!Answer(d) PROVE Processes'
  BY <1>5 DEF Restart!Answer, Restart!Started, Restart!file, Restart!told
<1>6. CASE Restart!MenuEvent
  BY <1>6 DEF Restart!MenuEvent, Restart!Started, Restart!file, Restart!told
<1>7. CASE Restart!Tick \/ Restart!ClockSet
  BY <1>7 DEF Restart!Tick, Restart!ClockSet, Restart!file, Restart!process
<1>8. CASE Restart!Permissions
  BY <1>8 DEF Restart!Permissions, Restart!process, Restart!told
<1>9. CASE UNCHANGED Restart!vars
  BY <1>9 DEF Restart!vars, Restart!file, Restart!process, Restart!told
<1> QED
  BY <1>1, <1>2, <1>3, <1>4, <1>5, <1>6, <1>7, <1>8, <1>9 DEF Restart!Next

LEMMA RestartIsTyped == Stamped /\ Processes => Restart!TypeOK
BY DEF Stamped, ClockTypes, Processes, Restart!TypeOK

\* A socket is open, closing or none; only sockets look stale.
Socketed ==
  /\ ready \in [Cloudflare!Sockets -> {"none", "open", "closing"}]
  /\ old \subseteq Cloudflare!Sockets

LEMMA InitSocketed == Cloudflare!Init => Socketed
BY DEF Cloudflare!Init, Socketed

LEMMA StaysSocketed == Socketed /\ [Cloudflare!Next]_(Cloudflare!vars) => Socketed'
<1> SUFFICES ASSUME Socketed, [Cloudflare!Next]_(Cloudflare!vars) PROVE Socketed'
  OBVIOUS
<1>1. old' = old \/ \E s \in Cloudflare!Sockets : old' = old \ {s} \/ old' = old \cup {s}
  BY DEF Cloudflare!Next, Cloudflare!vars, Cloudflare!Fetch, Cloudflare!Handler, Cloudflare!Refuse,
         Cloudflare!Forward, Cloudflare!Closed, Cloudflare!Hear, Cloudflare!Leave, Cloudflare!Age
<1>2. CASE UNCHANGED ready
  BY <1>1, <1>2 DEF Socketed
<1>3. ASSUME NEW s \in Cloudflare!Sockets, NEW d \in Ids, Cloudflare!Fetch(s, d)
      PROVE  ready' \in [Cloudflare!Sockets -> {"none", "open", "closing"}]
  <2>1. UNCHANGED ready
        \/ \E S : ready' = [t \in Cloudflare!Sockets |-> IF t = s THEN "open"
                              ELSE IF t \in S THEN "closing" ELSE ready[t]]
    BY <1>3 DEF Cloudflare!Fetch
  <2> QED
    BY <2>1 DEF Socketed
<1>4. ASSUME NEW s \in Cloudflare!Sockets, Cloudflare!Refuse(s) \/ Cloudflare!Closed(s)
      PROVE  ready' \in [Cloudflare!Sockets -> {"none", "open", "closing"}]
  BY <1>4 DEF Cloudflare!Refuse, Cloudflare!Closed, Socketed
<1>5. \/ UNCHANGED ready
      \/ \E s \in Cloudflare!Sockets :
           (\E d \in Ids : Cloudflare!Fetch(s, d)) \/ Cloudflare!Refuse(s) \/ Cloudflare!Closed(s)
  BY DEF Cloudflare!Next, Cloudflare!vars, Cloudflare!Handler,
         Cloudflare!Forward, Cloudflare!Hear, Cloudflare!Leave, Cloudflare!Age
<1> QED
  BY <1>1, <1>2, <1>3, <1>4, <1>5 DEF Socketed

LEMMA SocketsAreTyped == Socketed => Cloudflare!TypeOK
BY DEF Socketed, Cloudflare!TypeOK

\* What the peer knows is a presence.
Viewed == view \in Presence!Values \cup {Presence!Unknown}

LEMMA InitViewed == Presence!Init => Viewed
BY DEF Presence!Init, Viewed

LEMMA StaysViewed == PresenceTypes /\ Viewed /\ [Presence!Next]_(Presence!vars) => Viewed'
<1> SUFFICES ASSUME PresenceTypes, Viewed, [Presence!Next]_(Presence!vars), ~Presence!HearPresence
             PROVE  Viewed'
  <2>1. ASSUME PresenceTypes, Presence!HearPresence PROVE Viewed'
    <3>1. PICK frame : frame = Head(news[Hearer])
      OBVIOUS
    <3>2. frame \in News /\ frame.kind = "presence" /\ view' = frame.value
      BY <2>1, <3>1 DEF PresenceTypes, Presence!HearPresence
    <3> QED
      BY <3>2, NewsAreTyped DEF Viewed
  <2> QED
    BY <2>1
<1>1. view' = view \/ view' = Presence!Unknown
  BY DEF Presence!Next, Presence!vars, Presence!Connect, Presence!Lose, Presence!RelayNotices,
         Presence!Hear, Presence!Change, Presence!Flush
<1> QED
  BY <1>1 DEF Viewed

LEMMA PresenceIsTyped == PresenceTypes /\ Viewed => Presence!TypeOK
BY TwoDevices DEF PresenceTypes, Viewed, Presence!TypeOK

LEMMA ViewIsTyped == Viewing => View!TypeOK
<1> SUFFICES ASSUME Viewing PROVE View!TypeOK
  OBVIOUS
<1>1. row_crossed \subseteq View!Seqs /\ DOMAIN shown \subseteq View!Seqs
  BY DEF Viewing, ViewTypes
<1>2. loading <=> \E p \in pages : View!Mine(p)
  BY DEF Viewing, Asking
<1> QED
  BY <1>1, <1>2 DEF View!TypeOK

\* What the table per address counts: the connections whose head is being read.
Readers(h) == {c \in Conns : stage[c] = "head" /\ peer[c] = h}

Permitted ==
  /\ stage \in [Conns -> {"none", "head", "read", "allowed", "reserved", "served"}]
  /\ peer \in [Conns -> Hosts \cup {Front!Nobody}]
  /\ \A c \in Conns : stage[c] = "head" => peer[c] \in Hosts
  /\ count \in [Hosts -> Nat]
  /\ \A h \in Hosts : IsFiniteSet(Readers(h)) /\ count[h] = Cardinality(Readers(h))

LEMMA InitPermitted == Front!Init => Permitted
<1> SUFFICES ASSUME Front!Init PROVE Permitted
  OBVIOUS
<1>1. \A h \in Hosts : Readers(h) = {}
  BY DEF Front!Init, Readers
<1> QED
  BY <1>1, FS_EmptySet DEF Front!Init, Permitted

\* A step that begins or ends no reading of a head.
LEMMA PermitsStay ==
  ASSUME Permitted, NEW c \in Conns, NEW s \in {"none", "read", "allowed", "reserved", "served"},
         stage[c] # "head", stage' = [stage EXCEPT ![c] = s], UNCHANGED <<peer, count>>
  PROVE  Permitted'
<1>1. \A h \in Hosts : Readers(h)' = Readers(h)
  BY DEF Permitted, Readers
<1> QED
  BY <1>1 DEF Permitted

LEMMA PermitGiven ==
  ASSUME Permitted, NEW c \in Conns, Front!Accept(c)
  PROVE  Permitted'
<1>1. PICK h \in Hosts : count' = [count EXCEPT ![h] = @ + 1] /\ peer' = [peer EXCEPT ![c] = h]
  BY DEF Front!Accept
<1>2. stage[c] = "none" /\ stage' = [stage EXCEPT ![c] = "head"]
  BY DEF Front!Accept, Front!Goes
<1>3. c \notin Readers(h) /\ Readers(h)' = Readers(h) \cup {c}
  BY <1>1, <1>2 DEF Permitted, Readers
<1>4. \A g \in Hosts : g # h => Readers(g)' = Readers(g)
  BY <1>1, <1>2 DEF Permitted, Readers
<1>5. IsFiniteSet(Readers(h)') /\ Cardinality(Readers(h)') = count[h] + 1
  BY <1>3, FS_AddElement DEF Permitted
<1>6. \A g \in Hosts : count'[g] = (IF g = h THEN count[g] + 1 ELSE count[g]) /\ count' \in [Hosts -> Nat]
  BY <1>1 DEF Permitted
<1> QED
  BY <1>1, <1>2, <1>4, <1>5, <1>6 DEF Permitted

LEMMA PermitReturned ==
  ASSUME Permitted, NEW c \in Conns, NEW s \in {"none", "read"},
         Front!Goes(c, "head", s), Front!PermitDropped(c)
  PROVE  Permitted'
<1>1. PICK h \in Hosts : h = peer[c]
  BY DEF Permitted, Front!Goes
<1>2. stage[c] = "head" /\ stage' = [stage EXCEPT ![c] = s] /\ peer' = [peer EXCEPT ![c] = Front!Nobody]
  BY DEF Front!Goes, Front!PermitDropped
<1>3. c \in Readers(h) /\ Readers(h)' = Readers(h) \ {c}
  BY <1>1, <1>2 DEF Permitted, Readers
<1>4. \A g \in Hosts : g # h => Readers(g)' = Readers(g)
  BY <1>1, <1>2 DEF Permitted, Readers
<1>5. /\ IsFiniteSet(Readers(h)') /\ Cardinality(Readers(h)') = count[h] - 1
      /\ Cardinality(Readers(h)') \in Nat
  BY <1>3, FS_RemoveElement, FS_CardinalityType DEF Permitted
<1>6. count[h] > 0
  BY <1>5 DEF Permitted
<1>7. count' = [count EXCEPT ![h] = count[h] - 1]
  BY <1>1, <1>6 DEF Front!PermitDropped, Permitted
<1>8. \A g \in Hosts : count'[g] = (IF g = h THEN count[g] - 1 ELSE count[g]) /\ count' \in [Hosts -> Nat]
  BY <1>5, <1>6, <1>7 DEF Permitted
<1> QED
  BY <1>2, <1>4, <1>5, <1>8 DEF Permitted

LEMMA PermitsCounted == Permitted /\ [Front!Next]_(Front!vars) => Permitted'
<1> SUFFICES ASSUME Permitted, [Front!Next]_(Front!vars) PROVE Permitted'
  OBVIOUS
<1>1. CASE UNCHANGED Front!passing
  BY <1>1 DEF Front!passing, Permitted, Readers
<1>2. ASSUME NEW c \in Conns, Front!Handle(c) PROVE Permitted'
  <2>1. CASE Front!Accept(c)
    BY <2>1, PermitGiven
  <2>2. CASE Front!HeadRead(c) \/ Front!HeadTimesOut(c)
    BY <2>2, PermitReturned DEF Front!HeadRead, Front!HeadTimesOut
  <2>3. CASE \/ Front!Unlimited(c) \/ Front!Allowed(c) \/ Front!Blocked(c) \/ Front!NotUpgradable(c)
             \/ Front!Rejected(c) \/ Front!Reserved(c) \/ Front!BadDevice(c) \/ Front!NoPermit(c)
             \/ Front!Serve(c) \/ Front!Ends(c)
    <3>1. /\ UNCHANGED <<peer, count>> /\ stage[c] # "head"
          /\ \E s \in {"none", "allowed", "reserved", "served"} : stage' = [stage EXCEPT ![c] = s]
      BY <2>3 DEF Front!Unlimited, Front!Allowed, Front!Blocked, Front!NotUpgradable, Front!Rejected,
                  Front!Reserved, Front!BadDevice, Front!NoPermit, Front!Serve, Front!Ends,
                  Front!Answered, Front!Goes
    <3> QED
      BY <3>1, PermitsStay
  <2> QED
    BY <1>2, <2>1, <2>2, <2>3 DEF Front!Handle
<1> QED
  BY <1>1, <1>2 DEF Front!Next, Front!Tick, Front!vars

LEMMA FrontIsTyped == Owed /\ Permitted => Front!TypeOK
<1> SUFFICES ASSUME Owed, Permitted PROVE Front!TypeOK
  OBVIOUS
<1>1. \A h \in Hosts : {c \in Front!At("head") : peer[c] = h} = Readers(h)
  BY DEF Front!At, Readers
<1>2. \A S : Front!Cardinality(S) = Cardinality(S)
  BY DEF Front!Cardinality, Cardinality
<1> QED
  BY <1>1, <1>2 DEF Owed, Permitted, Front!TypeOK

\* The sizes of one client's account.
PaceTypes ==
  /\ status \in {"off", "dialing", "live", "waiting", "error"}
  /\ attempt \in 0 .. Len(Steps) /\ delay \in Nat
  /\ \E i \in 1 .. Len(Steps) : delay <= Steps[i]
  /\ quota \in -Quota .. Quota /\ starts \in 0 .. MaxStarts

LEMMA PaceNumbers ==
  /\ Steps \in Seq(Nat) /\ Len(Steps) \in Nat \ {0} /\ DOMAIN Steps = 1 .. Len(Steps)
  /\ \A i \in 1 .. Len(Steps) : Steps[i] \in Nat
  /\ Quota \in Nat \ {0} /\ Failure \in Nat \ {0} /\ MaxStarts \in Nat \ {0} /\ Refill \in Nat
<1>1. /\ Steps \in Seq(Nat) /\ Steps # <<>> /\ {Quota, Failure, MaxStarts} \subseteq Nat \ {0}
      /\ Refill \in Nat
  BY Assumptions DEF Assumptions, Backoff!ReconnectAssumption
<1>2. Len(Steps) \in Nat \ {0} /\ DOMAIN Steps = 1 .. Len(Steps)
  BY <1>1
<1>3. \A i \in 1 .. Len(Steps) : Steps[i] \in Nat
  BY <1>1, ElementOfSeq
<1> QED
  BY <1>1, <1>2, <1>3

LEMMA LeastOfTwo ==
  ASSUME NEW x \in Int, NEW y \in Int
  PROVE  Backoff!Least({x, y}) = IF x <= y THEN x ELSE y
BY DEF Backoff!Least, Backoff!Min

LEMMA GreatestOfTwo ==
  ASSUME NEW x \in Int, NEW y \in Int
  PROVE  Backoff!Max({x, y}) = IF x >= y THEN x ELSE y
BY DEF Backoff!Max

LEMMA InitPaceTypes == Backoff!Init => PaceTypes
<1> SUFFICES ASSUME Backoff!Init PROVE PaceTypes
  OBVIOUS
<1>1. 1 \in 1 .. Len(Steps) /\ 0 <= Steps[1]
  BY PaceNumbers
<1> QED
  BY <1>1, PaceNumbers DEF Backoff!Init, PaceTypes

LEMMA PacesTyped == PaceTypes /\ [Backoff!Next]_(Backoff!vars) => PaceTypes'
<1> SUFFICES ASSUME PaceTypes, [Backoff!Next]_(Backoff!vars) PROVE PaceTypes'
  OBVIOUS
<1> USE PaceNumbers DEF PaceTypes
<1>1. ASSUME Backoff!Backoff(attempt)
      PROVE  /\ status' = "waiting" /\ attempt' \in 0 .. Len(Steps) /\ delay' \in Nat
             /\ \E i \in 1 .. Len(Steps) : delay' <= Steps[i]
  <2> DEFINE i == Backoff!Least({attempt, Len(Steps) - 1}) + 1
  <2>1. i \in 1 .. Len(Steps)
    BY LeastOfTwo
  <2>2. delay' = Steps[i] /\ status' = "waiting"
        /\ attempt' = Backoff!Least({attempt + 1, Len(Steps)})
    BY <1>1 DEF Backoff!Backoff, Backoff!Delay
  <2>3. attempt' \in 0 .. Len(Steps)
    <3>1. attempt + 1 \in Int /\ Len(Steps) \in Int
      OBVIOUS
    <3>2. attempt' = IF attempt + 1 <= Len(Steps) THEN attempt + 1 ELSE Len(Steps)
      BY <2>2, <3>1, LeastOfTwo
    <3> QED
      BY <3>2
  <2> HIDE DEF i
  <2> QED
    BY <2>1, <2>2, <2>3
<1>2. Backoff!Noted => quota' \in -Quota .. Quota
  <2>1. quota - Failure \in Int /\ -Quota \in Int
    OBVIOUS
  <2>2. Backoff!Noted => quota' = IF quota - Failure >= -Quota THEN quota - Failure ELSE -Quota
    BY <2>1, GreatestOfTwo DEF Backoff!Noted
  <2> QED
    BY <2>2
<1>3. \E i \in 1 .. Len(Steps) : 0 <= Steps[i]
  <2>1. 1 \in 1 .. Len(Steps) /\ 0 <= Steps[1]
    OBVIOUS
  <2> QED
    BY <2>1
<1>4. CASE UNCHANGED Backoff!vars
  BY <1>4 DEF Backoff!vars
<1>5. CASE Backoff!Start
  BY <1>3, <1>5 DEF Backoff!Start
<1>6. CASE Backoff!Connected
  BY <1>6 DEF Backoff!Connected
<1>7. CASE Backoff!Refused
  BY <1>1, <1>2, <1>7 DEF Backoff!Refused
<1>8. CASE Backoff!Unanswered
  BY <1>1, <1>8 DEF Backoff!Unanswered
<1>9. CASE Backoff!Rejected
  BY <1>2, <1>9 DEF Backoff!Rejected, Backoff!Final
<1>10. CASE Backoff!Lost
  BY <1>1, <1>10 DEF Backoff!Lost, Backoff!Final
<1>11. CASE Backoff!Redial
  BY <1>11 DEF Backoff!Redial
<1>12. CASE Backoff!Disconnect
  BY <1>3, <1>12 DEF Backoff!Disconnect
<1>13. CASE Backoff!Tick
  <2>1. quota' = Backoff!Least({quota + Refill, Quota}) /\ quota + Refill \in Int
    BY <1>13 DEF Backoff!Tick
  <2>2. quota' \in -Quota .. Quota
    BY <2>1, LeastOfTwo
  <2>3. /\ delay' = (IF delay > 0 THEN delay - 1 ELSE 0)
        /\ UNCHANGED <<status, attempt, starts>>
    BY <1>13 DEF Backoff!Tick
  <2>4. PICK i \in 1 .. Len(Steps) : delay <= Steps[i]
    OBVIOUS
  <2>5. delay' \in Nat /\ delay' <= Steps[i]
    BY <2>3, <2>4
  <2> QED
    BY <2>2, <2>3, <2>5
<1> QED
  BY <1>4, <1>5, <1>6, <1>7, <1>8, <1>9, <1>10, <1>11, <1>12, <1>13 DEF Backoff!Next

\* The longest of the first k steps.
LongestOf(k, m) == m \in 1 .. k /\ \A i \in 1 .. k : Steps[i] <= Steps[m]

LEMMA LongestGrows ==
  ASSUME NEW k \in Nat, k + 1 \in 1 .. Len(Steps), NEW m, LongestOf(k, m)
  PROVE  \E n : LongestOf(k + 1, n)
<1>1. k \in 1 .. Len(Steps) /\ m \in 1 .. Len(Steps) /\ k + 1 \in 1 .. k + 1 /\ m \in 1 .. k + 1
  BY PaceNumbers DEF LongestOf
<1>2. Steps[m] \in Nat /\ Steps[k + 1] \in Nat /\ \A i \in 1 .. k : Steps[i] \in Nat
  BY <1>1, PaceNumbers
<1>3. \A i \in 1 .. k + 1 : i = k + 1 \/ i \in 1 .. k
  OBVIOUS
<1>4. CASE Steps[k + 1] <= Steps[m]
  <2>1. \A i \in 1 .. k + 1 : Steps[i] <= Steps[m]
    BY <1>3, <1>4 DEF LongestOf
  <2> QED
    BY <1>1, <2>1 DEF LongestOf
<1>5. CASE Steps[m] < Steps[k + 1]
  <2>1. \A i \in 1 .. k : Steps[i] <= Steps[k + 1]
    BY <1>2, <1>5 DEF LongestOf
  <2>2. \A i \in 1 .. k + 1 : Steps[i] <= Steps[k + 1]
    BY <1>2, <1>3, <2>1
  <2> QED
    BY <1>1, <2>2 DEF LongestOf
<1> QED
  BY <1>2, <1>4, <1>5

LEMMA LongestStep == \E m : LongestOf(Len(Steps), m)
<1> DEFINE Short == {k \in 1 .. Len(Steps) : ~\E m : LongestOf(k, m)}
<1>1. SUFFICES ASSUME Short # {} PROVE FALSE
  <2>1. Len(Steps) \in 1 .. Len(Steps)
    BY PaceNumbers
  <2> QED
    BY <2>1
<1>2. Short \subseteq Nat
  BY PaceNumbers
<1>3. PICK k \in Short : \A n \in Short : k <= n
  BY <1>1, <1>2, LeastOf
<1>4. k \in 1 .. Len(Steps) /\ ~\E m : LongestOf(k, m)
  OBVIOUS
<1>5. CASE k = 1
  <2>1. Steps[1] <= Steps[1]
    BY PaceNumbers
  <2> QED
    BY <1>4, <1>5, <2>1 DEF LongestOf
<1>6. CASE k # 1
  <2>1. k - 1 \in 1 .. Len(Steps) /\ k - 1 \in Nat /\ (k - 1) + 1 = k /\ ~(k <= k - 1)
    BY <1>4, <1>6, PaceNumbers
  <2>2. k - 1 \notin Short
    BY <1>3, <2>1
  <2>3. PICK m : LongestOf(k - 1, m)
    BY <2>1, <2>2
  <2> QED
    BY <1>4, <2>1, <2>3, LongestGrows
<1> QED
  BY <1>5, <1>6

LEMMA PacesAreTyped == PaceTypes => Backoff!TypeOK
<1> SUFFICES ASSUME PaceTypes PROVE Backoff!TypeOK
  OBVIOUS
<1> DEFINE S == {Steps[i] : i \in DOMAIN Steps}
<1>1. \E g \in S : \A s \in S : g >= s
  BY LongestStep, PaceNumbers DEF LongestOf
<1>2. Backoff!Max(S) \in S /\ \A s \in S : Backoff!Max(S) >= s
  BY <1>1 DEF Backoff!Max
<1>3. S \subseteq Nat
  BY PaceNumbers
<1>4. delay \in 0 .. Backoff!Max(S)
  <2>1. PICK i \in 1 .. Len(Steps) : delay <= Steps[i]
    BY DEF PaceTypes
  <2>2. Steps[i] \in S /\ delay \in Nat
    BY PaceNumbers DEF PaceTypes
  <2>3. PICK g : g = Backoff!Max(S)
    OBVIOUS
  <2> HIDE DEF S
  <2>4. g \in Nat /\ g >= Steps[i] /\ Steps[i] \in Nat
    BY <1>2, <1>3, <2>2, <2>3
  <2> QED
    BY <2>1, <2>2, <2>3, <2>4
<1> QED
  BY <1>4 DEF PaceTypes, Backoff!TypeOK

\* What is written fits, and what is first written is something.
Fitting ==
  /\ Len(data) <= MaxBytes /\ Len(channel) <= Capacity
  /\ head \in Nat \ {0} /\ first <= MaxBytes /\ rested \in BOOLEAN

LEMMA InitFitting == Bytes!Init => Fitting
<1> SUFFICES ASSUME Bytes!Init PROVE Fitting
  OBVIOUS
<1>1. MaxBytes \in Nat \ {0}
  BY Assumptions DEF Assumptions, Bytes!FirstBytesAssumption
<1>2. PICK m \in 0 .. MaxBytes : data \in [1 .. m -> Bytes!Bytes]
  BY DEF Bytes!Init, Bytes!SeqOf
<1>3. data \in Seq(Bytes!Bytes) /\ Len(data) = m /\ Len(<<>>) = 0
  BY <1>1, <1>2
<1>4. head = SplitHead /\ first = 0 /\ channel = <<>> /\ rested = FALSE
  BY DEF Bytes!Init
<1>5. Len(data) <= MaxBytes
  BY <1>1, <1>2, <1>3
<1>6. Len(channel) <= Capacity /\ head \in Nat \ {0} /\ first <= MaxBytes
  BY <1>1, <1>3, <1>4, ByteNumbers
<1>7. rested \in BOOLEAN
  BY <1>4
<1> QED
  BY <1>5, <1>6, <1>7 DEF Fitting

LEMMA BytesFit ==
  ASSUME FirstBytesKept, Fitting, [Bytes!Next]_(Bytes!vars)
  PROVE  Fitting'
<1>n. /\ Len(data) \in Nat /\ Len(channel) \in Nat /\ written \in 0 .. Len(data)
      /\ first \in Nat /\ MaxBytes \in Nat /\ head \in Nat \ {0} /\ Bytes!Room = Capacity - Len(channel)
  BY Assumptions, LenProperties DEF Assumptions, Bytes!FirstBytesAssumption, FirstBytesKept, InOrder, Splitting, Fitting, Bytes!Room
<1>1. ASSUME NEW k \in 1 .. (Len(data) - written), NEW h \in Nat, h <= k, UNCHANGED data,
             NEW n \in 1 .. Bytes!Least(h, Bytes!Room), Bytes!Wrote(n)
      PROVE  Len(data') <= MaxBytes /\ Len(channel') <= Capacity /\ first' <= MaxBytes
  <2>1. n \in Nat \ {0} /\ n <= h /\ n <= Capacity - Len(channel) /\ written + n <= Len(data)
    BY <1>n, <1>1, ByteNumbers DEF Bytes!Least
  <2>2. channel' = channel \o SubSeq(data, written + 1, written + n) /\ channel \in Seq(Bytes!Bytes)
        /\ data \in Seq(Bytes!Bytes)
    BY <1>1 DEF Bytes!Wrote, FirstBytesKept, InOrder
  <2>3. /\ SubSeq(data, written + 1, written + n) \in Seq(Bytes!Bytes)
        /\ Len(SubSeq(data, written + 1, written + n)) = n
    BY <1>n, <2>1, <2>2, SubSeqProperties
  <2>4. Len(channel') = Len(channel) + n
    BY <2>2, <2>3, ConcatProperties
  <2>5. first' = IF first = 0 THEN n ELSE first
    BY <1>1 DEF Bytes!Wrote
  <2> QED
    BY <1>n, <1>1, <2>1, <2>4, <2>5, ByteNumbers DEF Fitting
<1>2. ASSUME NEW k \in 1 .. (Len(data) - written), Bytes!PollFirst(k)
      PROVE  Fitting'
  <2>1. Bytes!Least(head, k) \in Nat \ {0} /\ Bytes!Least(head, k) <= k
    BY <1>n DEF Bytes!Least
  <2>2. UNCHANGED <<data, rested>>
    BY <1>2 DEF Bytes!PollFirst
  <2>3. \/ head' = Bytes!Least(head, k) /\ UNCHANGED <<first, channel>>
        \/ head' = head /\ \E n \in 1 .. Bytes!Least(Bytes!Least(head, k), Bytes!Room) : Bytes!Wrote(n)
    BY <1>2 DEF Bytes!PollFirst, Bytes!Kept
  <2>4. CASE head' = Bytes!Least(head, k) /\ UNCHANGED <<first, channel>>
    BY <2>1, <2>2, <2>4 DEF Fitting
  <2>5. CASE head' = head /\ \E n \in 1 .. Bytes!Least(Bytes!Least(head, k), Bytes!Room) : Bytes!Wrote(n)
    BY <1>1, <2>1, <2>2, <2>5 DEF Fitting
  <2> QED
    BY <2>3, <2>4, <2>5
<1>3. ASSUME NEW k \in 1 .. (Len(data) - written), Bytes!PollRest(k)
      PROVE  Fitting'
  <2>1. UNCHANGED <<data, head, rested>> /\ \E n \in 1 .. Bytes!Least(k, Bytes!Room) : Bytes!Wrote(n)
    BY <1>3 DEF Bytes!PollRest
  <2> QED
    BY <1>1, <1>n, <2>1 DEF Fitting
<1>4. CASE Bytes!Wake
  BY <1>4 DEF Bytes!Wake, Fitting
<1>5. CASE Bytes!Read
  <2>1. UNCHANGED <<data, head, first, rested>> /\ channel # <<>> /\ channel \in Seq(Bytes!Bytes)
        /\ channel' = SubSeq(channel, 2, Len(channel))
    BY <1>5 DEF Bytes!Read, Bytes!adapter, Bytes!Amount, FirstBytesKept, InOrder
  <2>2. Len(channel') <= Len(channel)
    BY <1>n, <2>1, SubSeqProperties
  <2>3. Len(channel') \in Nat /\ Capacity \in Nat
    BY <2>1, ByteNumbers, <1>n, SubSeqProperties
  <2> QED
    BY <1>n, <2>1, <2>2, <2>3 DEF Fitting
<1>6. CASE Bytes!TooLarge \/ Bytes!ParseHead \/ Bytes!Respond \/ UNCHANGED Bytes!vars
  BY <1>6 DEF Bytes!TooLarge, Bytes!ParseHead, Bytes!Respond, Bytes!vars, Bytes!adapter, Fitting
<1> QED
  BY <1>2, <1>3, <1>4, <1>5, <1>6 DEF Bytes!Next, Bytes!Write

LEMMA BytesAreTyped == FirstBytesKept /\ Fitting => Bytes!TypeOK
<1> SUFFICES ASSUME FirstBytesKept, Fitting PROVE Bytes!TypeOK
  OBVIOUS
<1>1. head \in 1 .. SplitHead /\ first \in 0 .. MaxBytes
  BY ByteNumbers, Assumptions DEF Assumptions, Bytes!FirstBytesAssumption, FirstBytesKept, Splitting, Fitting
<1>2. rested \in BOOLEAN /\ hasty \in BOOLEAN
  BY DEF FirstBytesKept, Splitting, Fitting
<1> QED
  BY <1>1, <1>2 DEF FirstBytesKept, InOrder, Splitting, Reading, Fitting, Bytes!TypeOK

\* The loop of sends: where it is, and its numbers.
Looping ==
  /\ doing \in {"backoff", "select", "queue", "cover"}
  /\ after \in BOOLEAN /\ asked \in BOOLEAN /\ fresh \in BOOLEAN /\ writable \in BOOLEAN
  /\ route \in {"relay", "direct"}

Counting ==
  /\ Len(reliable) <= QueueLimit /\ todo <= Chunks /\ sleep <= Loop!Pending
  /\ mine \in 0 .. Loop!Most(FastInterval, SlowInterval)
  /\ theirs \in 0 .. Loop!Most(FastInterval, SlowInterval)
  /\ wrote <= MaxTexts /\ losses \in 0 .. MaxLosses /\ transfers \in 0 .. MaxTransfers

\* No pacer saves more than its burst.
Topped == \A p \in Loop!Pacers : tokens[p] + elapsed[p] <= Loop!Bursts[p]

LEMMA LoopIntervals ==
  /\ FastInterval \in Nat \ {0} /\ SlowInterval \in Nat \ {0}
  /\ Loop!Most(FastInterval, SlowInterval) \in Nat
  /\ Loop!Interval \in 0 .. Loop!Most(FastInterval, SlowInterval)
BY Assumptions DEF Assumptions, Loop!SendLoopAssumption, Loop!Interval, Loop!Most

LEMMA InitLooping == Loop!Init => Looping /\ Counting /\ Topped
<1> SUFFICES ASSUME Loop!Init PROVE Looping /\ Counting /\ Topped
  OBVIOUS
<1>1. Looping
  BY DEF Loop!Init, Looping
<1>2. /\ reliable = <<>> /\ todo = 0 /\ sleep = Loop!Pending /\ mine = 0 /\ theirs = 0 /\ wrote = 0
      /\ losses = MaxLosses /\ transfers = MaxTransfers
  BY DEF Loop!Init
<1>3. {MaxTexts, MaxLosses, MaxTransfers} \subseteq Nat /\ Len(<<>>) = 0
  BY Assumptions DEF Assumptions, Loop!SendLoopAssumption
<1>4. Counting
  BY <1>2, <1>3, LoopNumbers, PacerNumbers, LoopIntervals DEF Counting
<1>5. tokens = Loop!Started /\ elapsed = [p \in Loop!Pacers |-> 0]
  BY DEF Loop!Init
<1>6. Topped
  BY <1>5, StartsWithin, PacerNumbers DEF Topped
<1> QED
  BY <1>1, <1>4, <1>6

LEMMA LoopsOn == Looping /\ [Loop!Next]_(Loop!vars) => Looping'
<1> SUFFICES ASSUME Looping, [Loop!Next]_(Loop!vars) PROVE Looping'
  OBVIOUS
<1> USE DEF Looping
<1>0. Loop!Select => doing' = "select" /\ after' = FALSE
  BY DEF Loop!Select
<1>1. CASE Loop!SendNextChunk
  BY <1>0, <1>1 DEF Loop!SendNextChunk
<1>2. CASE Loop!TakeText
  BY <1>2 DEF Loop!TakeText
<1>3. CASE Loop!TakeReplaceable
  BY <1>3 DEF Loop!TakeReplaceable
<1>4. CASE Loop!Inbound
  BY <1>0, <1>4 DEF Loop!Inbound
<1>5. CASE Loop!Flush
  BY <1>5 DEF Loop!Flush
<1>6. CASE Loop!Flushed
  BY <1>0, <1>6 DEF Loop!Flushed
<1>7. CASE Loop!Cover
  BY <1>0, <1>7 DEF Loop!Cover
<1>8. CASE \/ Loop!Drain \/ Loop!Welcome \/ Loop!Lose \/ Loop!Accepted \/ Loop!Write \/ Loop!Move
           \/ Loop!Tick \/ UNCHANGED Loop!vars
  BY <1>8 DEF Loop!Drain, Loop!Welcome, Loop!Lose, Loop!Accepted, Loop!Write, Loop!Move, Loop!Tick,
              Loop!vars
<1> QED
  BY <1>1, <1>2, <1>3, <1>4, <1>5, <1>6, <1>7, <1>8 DEF Loop!Next, Loop!Loop

\* A payment leaves a pacer with its tokens and no time to count.
LEMMA TakenTops ==
  ASSUME Saved, NEW P \in SUBSET Loop!Pacers, Loop!Taken(P), Topped
  PROVE  Topped'
<1>1. elapsed' = [p \in Loop!Pacers |-> IF p \in P THEN 0 ELSE elapsed[p]]
  BY DEF Loop!Taken
<1>2. ASSUME NEW p \in P PROVE tokens'[p] + elapsed'[p] <= Loop!Bursts[p]
  <2>1. elapsed'[p] = 0 /\ tokens'[p] \in Int /\ tokens'[p] <= Loop!Bursts[p]
    BY <1>1, <1>2, TakenSaves
  <2> QED
    BY <2>1
<1>3. \A p \in Loop!Pacers \ P : tokens'[p] = tokens[p] /\ elapsed'[p] = elapsed[p]
  BY DEF Loop!Taken
<1> QED
  BY <1>2, <1>3 DEF Topped

LEMMA PacersTop == Saved /\ Topped /\ [Loop!Next]_(Loop!vars) => Topped'
<1> SUFFICES ASSUME Saved, Topped, [Loop!Next]_(Loop!vars) PROVE Topped'
  OBVIOUS
<1>1. CASE UNCHANGED <<tokens, elapsed>>
  BY <1>1 DEF Topped
<1>2. ASSUME NEW P \in SUBSET Loop!Pacers, Loop!Taken(P) PROVE Topped'
  BY <1>2, TakenTops
<1>3. Loop!Paying \in SUBSET Loop!Pacers /\ {"pacer"} \in SUBSET Loop!Pacers
  BY PayerIsPacer DEF Loop!Pacers
<1>4. CASE Loop!SendNextChunk \/ Loop!Inbound \/ Loop!Flush \/ Loop!Cover
  <2>1. UNCHANGED <<tokens, elapsed>> \/ Loop!Taken(Loop!Paying) \/ Loop!Taken({"pacer"})
    BY <1>4 DEF Loop!SendNextChunk, Loop!Inbound, Loop!Reply, Loop!Flush, Loop!Cover, Loop!pacing
  <2> QED
    BY <1>1, <1>2, <1>3, <2>1
<1>5. CASE Loop!Welcome
  <2>1. tokens' = Loop!Started /\ elapsed' = [p \in Loop!Pacers |-> 0]
    BY <1>5 DEF Loop!Welcome, Loop!Retuned
  <2> QED
    BY <2>1, StartsWithin, PacerNumbers DEF Topped
<1>6. CASE Loop!Tick
  <2>1. tokens' = tokens
        /\ elapsed' = [p \in Loop!Pacers |-> Loop!Least(elapsed[p] + 1, Loop!Bursts[p] - tokens[p])]
    BY <1>6 DEF Loop!Tick
  <2>2. ASSUME NEW p \in Loop!Pacers PROVE tokens'[p] + elapsed'[p] <= Loop!Bursts[p]
    <3>1. tokens[p] \in Int /\ elapsed[p] \in Nat /\ Loop!Bursts[p] \in Nat
      BY PacerNumbers DEF Saved
    <3>2. elapsed'[p] = Loop!Least(elapsed[p] + 1, Loop!Bursts[p] - tokens[p]) /\ tokens'[p] = tokens[p]
      BY <2>1
    <3> QED
      BY <3>1, <3>2 DEF Loop!Least
  <2> QED
    BY <2>2 DEF Topped
<1>7. CASE \/ Loop!TakeText \/ Loop!TakeReplaceable \/ Loop!Flushed \/ Loop!Drain \/ Loop!Lose
           \/ Loop!Accepted \/ Loop!Write \/ Loop!Move \/ UNCHANGED Loop!vars
  BY <1>1, <1>7 DEF Loop!TakeText, Loop!TakeReplaceable, Loop!Flushed, Loop!Drain, Loop!Lose,
                    Loop!Accepted, Loop!Write, Loop!Move, Loop!vars, Loop!pacing
<1> QED
  BY <1>4, <1>5, <1>6, <1>7 DEF Loop!Next, Loop!Loop

LEMMA PendingIsLongest ==
  /\ Loop!Longest \in Nat /\ \A p \in Loop!Pacers : Loop!Bursts[p] <= Loop!Longest
  /\ Loop!Pending = Loop!Longest + RetryInterval + 1
<1>1. {FrameBurst, ChunkBurst, DirectBurst} \subseteq Nat
  BY Assumptions DEF Assumptions, Loop!SendLoopAssumption
<1>2. {Loop!Bursts[p] : p \in Loop!Pacers} = {FrameBurst, ChunkBurst, DirectBurst}
  BY DEF Loop!Bursts, Loop!Pacers
<1>3. \E x \in {FrameBurst, ChunkBurst, DirectBurst} :
        \A y \in {FrameBurst, ChunkBurst, DirectBurst} : x >= y
  <2>1. CASE FrameBurst >= ChunkBurst /\ FrameBurst >= DirectBurst
    BY <1>1, <2>1
  <2>2. CASE ChunkBurst >= FrameBurst /\ ChunkBurst >= DirectBurst
    BY <1>1, <2>2
  <2>3. CASE DirectBurst >= FrameBurst /\ DirectBurst >= ChunkBurst
    BY <1>1, <2>3
  <2> QED
    BY <1>1, <2>1, <2>2, <2>3
<1>4. /\ Loop!Longest \in {FrameBurst, ChunkBurst, DirectBurst}
      /\ \A y \in {FrameBurst, ChunkBurst, DirectBurst} : Loop!Longest >= y
  BY <1>2, <1>3 DEF Loop!Longest, Loop!Max
<1>5. \A p \in Loop!Pacers : Loop!Bursts[p] \in {FrameBurst, ChunkBurst, DirectBurst}
  BY DEF Loop!Bursts, Loop!Pacers
<1> QED
  BY <1>1, <1>4, <1>5 DEF Loop!Pending

\* What the loop waits for is less than for ever.
LEMMA WaitsLess ==
  ASSUME NEW t, \A p \in Loop!Pacers : t[p] \in Int /\ 0 <= t[p], NEW w \in BOOLEAN
  PROVE  Loop!ChunkWait(t, w) <= Loop!Pending
<1>1. /\ Loop!Longest \in Nat /\ RetryInterval \in Nat
      /\ Loop!Pending = Loop!Longest + RetryInterval + 1
  BY PendingIsLongest, PacerNumbers
<1>2. ASSUME NEW p \in Loop!Pacers
      PROVE  Loop!WaitDuration(t, p) \in Nat /\ Loop!WaitDuration(t, p) <= Loop!Longest
  <2>1. /\ Loop!Prices[p] \in Nat /\ Loop!Prices[p] <= Loop!Bursts[p] /\ Loop!Bursts[p] <= Loop!Longest
        /\ Loop!Bursts[p] \in Nat
    BY PacerNumbers, PendingIsLongest
  <2> QED
    BY <1>1, <2>1 DEF Loop!WaitDuration
<1>3. {"pacer", "chunk_pacer", "direct_chunk_pacer"} = Loop!Pacers
  BY DEF Loop!Pacers
<1>4. \A x, y \in Int : Loop!Most(x, y) = IF x < y THEN y ELSE x
  BY DEF Loop!Most
<1>5. \/ Loop!ChunkWait(t, w) = Loop!Most(Loop!WaitDuration(t, "pacer"), Loop!WaitDuration(t, "chunk_pacer"))
      \/ Loop!ChunkWait(t, w) = 0
      \/ Loop!ChunkWait(t, w) = Loop!Most(Loop!WaitDuration(t, "direct_chunk_pacer"), RetryInterval)
  BY DEF Loop!ChunkWait
<1>6. /\ Loop!WaitDuration(t, "pacer") \in 0 .. Loop!Longest
      /\ Loop!WaitDuration(t, "chunk_pacer") \in 0 .. Loop!Longest
      /\ Loop!WaitDuration(t, "direct_chunk_pacer") \in 0 .. Loop!Longest
  BY <1>1, <1>2, <1>3
<1> QED
  BY <1>1, <1>4, <1>5, <1>6

LEMMA SelectCounts ==
  ASSUME Loop!Select, \A p \in Loop!Pacers : tokens'[p] \in Int /\ 0 <= tokens'[p], writable' \in BOOLEAN
  PROVE  sleep' <= Loop!Pending
<1>1. sleep' = IF todo' > 0 THEN Loop!ChunkWait(tokens', writable') ELSE Loop!Pending
  BY DEF Loop!Select, Loop!HasPendingChunks
<1>2. Loop!ChunkWait(tokens', writable') <= Loop!Pending
  BY WaitsLess
<1> QED
  BY <1>1, <1>2, PacerNumbers

LEMMA LoopCounts ==
  ASSUME LinedUp, Saving, Saving', Looping, Looping', Counting, [Loop!Next]_(Loop!vars)
  PROVE  Counting'
<1>n. /\ todo \in Nat /\ sleep \in Nat /\ wrote \in Nat /\ Loop!Pending \in Nat /\ Chunks \in Nat
      /\ QueueLimit \in Nat \ {0} /\ Loop!Most(FastInterval, SlowInterval) \in Nat
      /\ reliable \in Seq(Nat) /\ Len(reliable) \in Nat
      /\ Loop!Interval \in 0 .. Loop!Most(FastInterval, SlowInterval)
      /\ \A p \in Loop!Pacers : tokens'[p] \in Int /\ 0 <= tokens'[p]
  BY LoopNumbers, PacerNumbers, LoopIntervals, LenProperties DEF LinedUp, Saving, Saved
<1>b. MaxTexts \in Nat /\ MaxLosses \in Nat /\ MaxTransfers \in Nat
  BY Assumptions DEF Assumptions, Loop!SendLoopAssumption
<1>w. writable' \in BOOLEAN
  BY DEF Looping
<1>0. Loop!Select => sleep' <= Loop!Pending
  BY <1>n, <1>w, SelectCounts
<1>1. CASE Loop!SendNextChunk
  <2>1. UNCHANGED <<reliable, mine, theirs, wrote, losses, transfers>> /\ Loop!Select
        /\ (todo' = todo \/ todo' = todo - 1)
    BY <1>1 DEF Loop!SendNextChunk, Loop!queues, Loop!world
  <2> QED
    BY <1>0, <1>n, <2>1 DEF Counting
<1>2. CASE Loop!TakeText
  <2>1. UNCHANGED <<todo, sleep, mine, theirs, wrote, losses, transfers>>
        /\ mail # <<>> /\ Loop!Queued(Head(mail)) /\ mail \in Seq(Nat)
    BY <1>2 DEF Loop!TakeText, Loop!world, LinedUp
  <2>2. PICK m \in Nat : Loop!Queued(m)
    BY <2>1, HeadTailProperties
  <2>3. CASE Len(reliable) >= QueueLimit
    <3>1. reliable' = Append(Tail(reliable), m) /\ reliable # <<>>
      BY <1>n, <2>2, <2>3, EmptySeq DEF Loop!Queued
    <3>2. Tail(reliable) \in Seq(Nat) /\ Len(Tail(reliable)) = Len(reliable) - 1
      BY <1>n, <3>1, HeadTailProperties
    <3>3. Len(reliable') = Len(reliable)
      BY <1>n, <3>1, <3>2, AppendProperties
    <3> QED
      BY <1>n, <2>1, <3>3 DEF Counting
  <2>4. CASE ~(Len(reliable) >= QueueLimit)
    <3>1. reliable' = Append(reliable, m)
      BY <2>2, <2>4 DEF Loop!Queued
    <3>2. Len(reliable') = Len(reliable) + 1
      BY <1>n, <3>1, AppendProperties
    <3>3. Len(reliable') <= QueueLimit
      BY <1>n, <2>4, <3>2
    <3> QED
      BY <1>n, <2>1, <3>3 DEF Counting
  <2> QED
    BY <2>3, <2>4
<1>3. CASE Loop!TakeReplaceable
  BY <1>3 DEF Loop!TakeReplaceable, Loop!queues, Loop!world, Counting
<1>4. CASE Loop!Inbound
  <2>1. UNCHANGED <<reliable, todo, mine, wrote, losses, transfers>> /\ Loop!Select /\ theirs' = Loop!Interval
    BY <1>4 DEF Loop!Inbound, Loop!queues
  <2> QED
    BY <1>0, <1>n, <2>1 DEF Counting
<1>5. CASE Loop!Flush
  <2>1. UNCHANGED <<todo, sleep, mine, theirs, wrote, losses, transfers>>
        /\ reliable # <<>> /\ reliable' = Tail(reliable)
    BY <1>5 DEF Loop!Flush, Loop!world
  <2>2. Len(reliable') = Len(reliable) - 1
    BY <1>n, <2>1, HeadTailProperties
  <2>3. Len(reliable') <= QueueLimit
    BY <1>n, <2>2 DEF Counting
  <2> QED
    BY <2>1, <2>3 DEF Counting
<1>6. CASE Loop!Flushed \/ Loop!Cover
  <2>1. UNCHANGED <<reliable, todo, mine, theirs, wrote, losses, transfers>>
        /\ (UNCHANGED sleep \/ Loop!Select)
    BY <1>6 DEF Loop!Flushed, Loop!Cover, Loop!queues, Loop!world
  <2> QED
    BY <1>0, <2>1 DEF Counting
<1>7. CASE Loop!Drain \/ Loop!Welcome
  BY <1>7 DEF Loop!Drain, Loop!Welcome, Loop!queues, Loop!world, Counting
<1>8. CASE Loop!Lose
  <2>1. UNCHANGED <<reliable, mine, theirs, wrote, transfers>> /\ losses > 0 /\ losses' = losses - 1
        /\ todo' = 0 /\ sleep' = Loop!Pending
    BY <1>8 DEF Loop!Lose, Loop!queues
  <2>2. losses' \in 0 .. MaxLosses
    BY <1>b, <2>1 DEF Counting
  <2> QED
    BY <1>n, <2>1, <2>2 DEF Counting
<1>9. CASE Loop!Accepted
  <2>1. UNCHANGED <<reliable, sleep, mine, theirs, wrote, losses>> /\ transfers > 0
        /\ transfers' = transfers - 1 /\ todo' = Chunks
    BY <1>9 DEF Loop!Accepted, Loop!queues, Loop!world
  <2>2. transfers' \in 0 .. MaxTransfers
    BY <1>b, <2>1 DEF Counting
  <2> QED
    BY <1>n, <2>1, <2>2 DEF Counting
<1>10. CASE Loop!Write
  <2>1. UNCHANGED <<reliable, todo, sleep, mine, theirs, losses, transfers>>
        /\ wrote < MaxTexts /\ wrote' = wrote + 1
    BY <1>10 DEF Loop!Write, Loop!world
  <2>3. wrote' <= MaxTexts
    BY <1>b, <1>n, <2>1
  <2> QED
    BY <2>1, <2>3 DEF Counting
<1>11. CASE Loop!Move
  <2>1. UNCHANGED <<reliable, todo, sleep, theirs, wrote, losses, transfers>> /\ mine' = Loop!Interval
    BY <1>11 DEF Loop!Move, Loop!queues
  <2>2. mine' \in 0 .. Loop!Most(FastInterval, SlowInterval)
    BY <2>1, LoopIntervals
  <2> QED
    BY <2>1, <2>2 DEF Counting
<1>12. CASE Loop!Tick
  <2>1. UNCHANGED <<reliable, todo, wrote, losses, transfers>>
        /\ mine' = Loop!Before(mine) /\ theirs' = Loop!Before(theirs)
        /\ (sleep' = Loop!Before(sleep) \/ sleep' = sleep)
    BY <1>12 DEF Loop!Tick, Loop!queues
  <2>2. \A n \in Nat : Loop!Before(n) \in Nat /\ Loop!Before(n) <= n
    BY DEF Loop!Before
  <2>c. /\ sleep \in Nat /\ sleep <= Loop!Pending /\ Loop!Pending \in Nat
        /\ mine \in 0 .. Loop!Most(FastInterval, SlowInterval)
        /\ theirs \in 0 .. Loop!Most(FastInterval, SlowInterval)
        /\ Loop!Most(FastInterval, SlowInterval) \in Nat
    BY <1>n DEF Counting
  <2>3. sleep' <= Loop!Pending
    BY <2>1, <2>2, <2>c
  <2>4. /\ mine' \in 0 .. Loop!Most(FastInterval, SlowInterval)
        /\ theirs' \in 0 .. Loop!Most(FastInterval, SlowInterval)
    BY <2>1, <2>2, <2>c
  <2> QED
    BY <2>1, <2>3, <2>4 DEF Counting
<1>13. CASE UNCHANGED Loop!vars
  BY <1>13 DEF Loop!vars, Loop!queues, Loop!world, Counting
<1> QED
  BY <1>1, <1>2, <1>3, <1>4, <1>5, <1>6, <1>7, <1>8, <1>9, <1>10, <1>11, <1>12, <1>13
     DEF Loop!Next, Loop!Loop

LEMMA LoopIsTyped == LinedUp /\ Saving /\ Looping /\ Counting /\ Topped => Loop!TypeOK
<1> SUFFICES ASSUME LinedUp, Saving, Looping, Counting, Topped PROVE Loop!TypeOK
  OBVIOUS
<1>n. MaxTexts \in Nat /\ wrote \in Nat /\ wrote <= MaxTexts
  BY Assumptions DEF Assumptions, Loop!SendLoopAssumption, LinedUp, Counting
<1>1. 1 .. wrote \subseteq 1 .. MaxTexts
  BY <1>n
<1>2. back \subseteq 1 .. MaxTexts
  BY <1>1 DEF LinedUp
<1>3. ASSUME NEW q \in Seq(Nat), Elements(q) \subseteq 1 .. wrote
      PROVE  q \in Seq(1 .. MaxTexts)
  <2>1. q \in [1 .. Len(q) -> Nat] /\ Len(q) \in Nat
    BY LenProperties
  <2>2. \A i \in 1 .. Len(q) : q[i] \in 1 .. MaxTexts
    BY <1>1, <1>3 DEF Elements
  <2>3. q \in [1 .. Len(q) -> 1 .. MaxTexts]
    BY <2>1, <2>2
  <2>4. \A S : \A n \in Nat : q \in [1 .. n -> S] => q \in Seq(S)
    BY SeqDef
  <2> QED
    BY <2>1, <2>3, <2>4
<1>4. \A q \in {reliable, mail, gone} : q \in Seq(1 .. MaxTexts)
  BY <1>3 DEF LinedUp
<1>5. {after, asked, fresh, writable} \subseteq BOOLEAN
  BY DEF Looping
<1>6. todo \in 0 .. Chunks /\ sleep \in 0 .. Loop!Pending
  BY PacerNumbers DEF Saving, Saved, Counting
<1>7. DOMAIN tokens = Loop!Pacers /\ \A p \in Loop!Pacers : tokens[p] + elapsed[p] <= Loop!Bursts[p]
  BY DEF Saving, Saved, Topped
<1>8. wrote \in 0 .. MaxTexts
  BY <1>n
<1> QED
  BY <1>2, <1>4, <1>5, <1>6, <1>7, <1>8 DEF Looping, Counting, Loop!TypeOK

\* What the two threads leave for each other is a place, or none.
Pointing ==
  /\ last \in Mouse!Places \cup {Mouse!Nowhere} /\ at \in Mouse!Places \cup {Mouse!Nowhere}
  /\ buttons \subseteq {"Left", "Right"}
  /\ {swapped, readable, mouse_pending, button_crossed} \subseteq BOOLEAN
  /\ beat \in {"asleep", "buttons", "x", "y"} /\ hook \in {"idle", "y", "pending"}
  /\ mouse_x \in Mouse!Coordinates /\ mouse_y \in Mouse!Coordinates /\ read_x \in Mouse!Coordinates
  /\ Len(queue) \in 0 .. MaxQueue

LEMMA InitPointing == Mouse!Init => Pointing
<1>1. MaxQueue \in Nat /\ Len(<<>>) = 0
  BY Assumptions DEF Assumptions, Mouse!PointerAssumption
<1> SUFFICES ASSUME Mouse!Init PROVE Pointing
  OBVIOUS
<1>2. Len(queue) \in 0 .. MaxQueue
  BY <1>1 DEF Mouse!Init
<1>3. mouse_x \in Mouse!Coordinates /\ mouse_y \in Mouse!Coordinates /\ read_x \in Mouse!Coordinates
  BY DEF Mouse!Init, Mouse!Coordinates
<1>4. {swapped, readable, mouse_pending, button_crossed} \subseteq BOOLEAN
  BY DEF Mouse!Init
<1> QED
  BY <1>2, <1>3, <1>4 DEF Mouse!Init, Pointing

LEMMA PointsOn ==
  ASSUME PointerTypes, Telling, Pointing, [Mouse!Next]_(Mouse!vars)
  PROVE  Pointing'
<1> USE DEF Pointing
<1>0. /\ MaxQueue \in Nat /\ Mouse!Places = Mouse!Coordinates \X Mouse!Coordinates
      /\ place[1] \in Mouse!Coordinates /\ place[2] \in Mouse!Coordinates /\ place \in Mouse!Places
  BY Assumptions DEF Assumptions, Mouse!PointerAssumption, Mouse!Places, PointerTypes
<1>1. ASSUME NEW p \in Mouse!Places, Mouse!MoveTo(p) PROVE Pointing'
  BY <1>0, <1>1 DEF Mouse!MoveTo, Mouse!sampler, Mouse!pages
<1>2. CASE Mouse!StoreY \/ Mouse!StorePending
  BY <1>0, <1>2 DEF Mouse!StoreY, Mouse!StorePending, Mouse!world, Mouse!sampler, Mouse!pages
<1>3. ASSUME NEW b \in Mouse!Buttons, Mouse!Click(b) PROVE Pointing'
  <2>1. Len(queue') \in 0 .. MaxQueue
    <3>1. CASE Mouse!Polls
      BY <1>3, <3>1 DEF Mouse!Click
    <3>2. CASE ~Mouse!Polls
      <4> DEFINE e == [name |-> Mouse!Name(b), press |-> b \notin pressed]
      <4>1. queue' = Append(queue, e) /\ Len(queue) < MaxQueue
        BY <1>3, <3>2 DEF Mouse!Click
      <4>2. e \in [name : {"Left", "Right"}, press : BOOLEAN]
        BY NamesDiffer
      <4>3. queue \in Seq([name : {"Left", "Right"}, press : BOOLEAN])
        BY <3>2 DEF Telling
      <4> HIDE DEF e
      <4>4. Len(queue') = Len(queue) + 1
        BY <4>1, <4>2, <4>3, AppendProperties
      <4> QED
        BY <1>0, <4>1, <4>4
    <3> QED
      BY <3>1, <3>2
  <2> QED
    BY <1>3, <2>1 DEF Mouse!Click, Mouse!sampler, Mouse!pages, Mouse!atomics
<1>4. CASE Mouse!SwapButtons
  <2>1. swapped' \in BOOLEAN /\ button_crossed' \in BOOLEAN
    BY <1>4 DEF Mouse!SwapButtons
  <2> QED
    BY <1>4, <2>1 DEF Mouse!SwapButtons, Mouse!sampler, Mouse!pages, Mouse!atomics
<1>5. CASE Mouse!Lock
  <2>1. readable' \in BOOLEAN
    BY <1>5 DEF Mouse!Lock
  <2> QED
    BY <1>5, <2>1 DEF Mouse!Lock, Mouse!sampler, Mouse!pages, Mouse!atomics
<1>6. CASE Mouse!Skip \/ Mouse!SamplePlace
  BY <1>0, <1>6 DEF Mouse!Skip, Mouse!SamplePlace, Mouse!world, Mouse!pages, Mouse!atomics
<1>7. CASE Mouse!SampleButtons
  <2>1. buttons' \subseteq {"Left", "Right"}
    <3>1. Mouse!Edges.press \subseteq Mouse!Buttons
      BY DEF Mouse!Edges, Mouse!State, PointerTypes
    <3>2. Mouse!Names(Mouse!Edges.press) \subseteq {"Left", "Right"}
      BY <3>1, NamesDiffer DEF Mouse!Names
    <3> QED
      BY <1>7, <3>2 DEF Mouse!SampleButtons
  <2> QED
    BY <1>7, <2>1 DEF Mouse!SampleButtons, Mouse!world, Mouse!atomics
<1>8. CASE Mouse!TakePending \/ Mouse!LoadX
  BY <1>8 DEF Mouse!TakePending, Mouse!LoadX, Mouse!world, Mouse!sampler, Mouse!pages
<1>11. CASE Mouse!EmitMove
  <2>1. at' \in Mouse!Places
    BY <1>0, <1>11 DEF Mouse!EmitMove
  <2> QED
    BY <1>11, <2>1 DEF Mouse!EmitMove, Mouse!world, Mouse!sampler, Mouse!atomics
<1>9. CASE Mouse!Dispatch
  <2>1. queue # <<>> /\ queue' = Tail(queue)
    BY <1>9 DEF Mouse!Dispatch
  <2>2. queue \in Seq([name : {"Left", "Right"}, press : BOOLEAN])
    BY <2>1 DEF Telling, PointerTypes
  <2>3. /\ Len(queue') = Len(queue) - 1 /\ Len(queue) \in Nat /\ Len(queue) # 0
        /\ Head(queue) \in [name : {"Left", "Right"}, press : BOOLEAN]
    BY <2>1, <2>2, HeadTailProperties, EmptySeq, LenProperties
  <2>4. Head(queue).name \in {"Left", "Right"}
    BY <2>3
  <2>5. buttons' \subseteq {"Left", "Right"}
    BY <1>9, <2>4 DEF Mouse!Dispatch
  <2>6. Len(queue') \in 0 .. MaxQueue
    BY <1>0, <2>3
  <2> QED
    BY <1>9, <2>5, <2>6 DEF Mouse!Dispatch, Mouse!world, Mouse!sampler, Mouse!atomics
<1>10. CASE UNCHANGED Mouse!vars
  BY <1>10 DEF Mouse!vars, Mouse!world, Mouse!sampler, Mouse!atomics, Mouse!pages
<1> QED
  BY <1>1, <1>2, <1>3, <1>4, <1>5, <1>6, <1>7, <1>8, <1>9, <1>10, <1>11 DEF Mouse!Next

LEMMA PointerIsTyped == PointerTypes /\ Pointing => Mouse!TypeOK
<1>1. Len(queue) \in 0 .. MaxQueue => Len(queue) <= MaxQueue
  BY Assumptions DEF Assumptions, Mouse!PointerAssumption
<1>2. due \in {0, 1, 2} => due \in 0 .. 2
  OBVIOUS
<1> QED
  BY <1>1, <1>2 DEF PointerTypes, Pointing, Mouse!TypeOK

LEMMA PulseIsTyped == Pulsing => Pulse!TypeOK
BY DEF Pulsing, PulseTypes, Pulse!TypeOK

\* Not more commands than are given, nor more at a time than run.
Busy ==
  /\ Len(running) \in 0 .. MaxRunning /\ given \in 0 .. MaxCommands
  /\ stale \subseteq Windows \X {"skip", "tool"}

LEMMA BarLimits == MaxRunning \in Nat /\ MaxCommands \in Nat
BY Assumptions DEF Assumptions, Bar!TaskbarAssumption

LEMMA InitBusy == Bar!Init => Busy
<1> SUFFICES ASSUME Bar!Init PROVE Busy
  OBVIOUS
<1>1. Len(running) \in 0 .. MaxRunning /\ given \in 0 .. MaxCommands
  BY BarLimits DEF Bar!Init
<1>2. stale \subseteq Windows \X {"skip", "tool"}
  BY OverlaysAreWindows DEF Bar!Init
<1> QED
  BY <1>1, <1>2 DEF Busy

\* A command that goes on, or ends, makes no other.
LEMMA NoneStarts ==
  ASSUME Commanded, Len(running) \in 0 .. MaxRunning, NEW i \in 1 .. Len(running), NEW v \in BOOLEAN,
         Bar!Goes(i, v)
  PROVE  Len(running') \in 0 .. MaxRunning
<1>1. running \in Seq(Calls) /\ Len(running) \in Nat
  BY LenProperties DEF Commanded
<1>2. PICK rest : rest = [steps |-> Tail(running[i].steps), v |-> v]
  OBVIOUS
<1>3. running' = Bar!RemoveAt(running, i) \/ running' = [running EXCEPT ![i] = rest]
  BY <1>2 DEF Bar!Goes
<1>4. CASE running' = Bar!RemoveAt(running, i)
  BY <1>1, <1>4, WithoutOne, BarLimits
<1>5. CASE running' = [running EXCEPT ![i] = rest]
  <2>1. rest \in Calls
    BY <1>2, TailIsOrderly DEF Calls, Commanded, Orderly
  <2>2. Len(running') = Len(running)
    BY <1>1, <1>5, <2>1, ExceptSeq
  <2> QED
    BY <2>2
<1> QED
  BY <1>3, <1>4, <1>5

LEMMA StaysBusy ==
  ASSUME Switched, Busy, [Bar!Next]_(Bar!vars)
  PROVE  Busy'
<1> USE DEF Busy
<1>0. Commanded /\ running \in Seq(Calls) /\ Len(running) \in Nat /\ taskbarVisible \in BOOLEAN
  BY LenProperties DEF Switched, Commanded, BarTypes
<1>1. CASE Bar!Invoke
  <2>1. PICK c \in Bar!Commands : running' = Append(running, [steps |-> c, v |-> FALSE])
    BY <1>1 DEF Bar!Invoke
  <2>2. PICK e : e = [steps |-> c, v |-> FALSE]
    OBVIOUS
  <2>3. e \in Calls
    BY <2>2, CommandsAreOrderly DEF Calls, Orderly
  <2>4. Len(running') = Len(running) + 1
    BY <1>0, <2>1, <2>2, <2>3, AppendProperties
  <2>5. Len(running) < MaxRunning /\ given < MaxCommands /\ given' = given + 1 /\ UNCHANGED stale
    BY <1>1 DEF Bar!Invoke
  <2> QED
    BY <1>0, <2>4, <2>5, BarLimits
<1>2. ASSUME NEW i \in 1 .. Len(running), Bar!Store(i) PROVE Busy'
  <2>1. running[i].steps[1] \in Errands /\ Head(running[i].steps) = running[i].steps[1]
    BY <1>0, FirstStep
  <2>2. Bar!Goes(i, running[i].steps[1].v) /\ running[i].steps[1].v \in BOOLEAN /\ UNCHANGED <<stale, given>>
    BY <1>2, <2>1 DEF Bar!Store, Errands
  <2> QED
    BY <1>0, <2>2, NoneStarts
<1>3. ASSUME NEW i \in 1 .. Len(running), Bar!Load(i) PROVE Busy'
  BY <1>0, <1>3, NoneStarts DEF Bar!Load
<1>4. ASSUME NEW i \in 1 .. Len(running), Bar!Post(i) PROVE Busy'
  <2>1. PICK s : s = running[i].steps[1]
    OBVIOUS
  <2>2. s \in Errands /\ Follows(running[i].steps, 1) /\ Head(running[i].steps) = s /\ running[i].v \in BOOLEAN
    BY <1>0, <2>1, FirstStep
  <2>3. PICK m : m = [s EXCEPT !.v = running[i].v]
    OBVIOUS
  <2>4. m.v \in BOOLEAN
    BY <2>2, <2>3 DEF Errands
  <2>5. /\ Bar!Goes(i, m.v) /\ UNCHANGED given
        /\ stale' \subseteq stale \/ (s.what \in {"skip", "tool"} /\ stale' = stale \cup {<<s.w, s.what>>})
    BY <1>4, <2>2, <2>3 DEF Bar!Post
  <2>6. stale' \subseteq Windows \X {"skip", "tool"}
    <3>1. CASE stale' \subseteq stale
      BY <3>1
    <3>2. CASE s.what \in {"skip", "tool"} /\ stale' = stale \cup {<<s.w, s.what>>}
      <4>1. s.w \in Windows
        BY <2>1, <3>2, <2>2, OverlaysAreWindows DEF Follows
      <4> QED
        BY <3>2, <4>1
    <3> QED
      BY <2>5, <3>1, <3>2
  <2> QED
    BY <1>0, <2>4, <2>5, <2>6, NoneStarts
<1>5. CASE Bar!Dispatch \/ Bar!ShellStarts \/ Bar!ShellForgets
  BY <1>5 DEF Bar!Dispatch, Bar!ShellStarts, Bar!ShellForgets
<1>6. CASE UNCHANGED Bar!vars
  BY <1>6 DEF Bar!vars
<1> QED
  BY <1>1, <1>2, <1>3, <1>4, <1>5, <1>6 DEF Bar!Next, Bar!Run

LEMMA BarIsTyped == Switched /\ Busy => Bar!TypeOK
<1> SUFFICES ASSUME Switched, Busy PROVE Bar!TypeOK
  OBVIOUS
<1>1. DOMAIN running = 1 .. Len(running)
  BY LenProperties DEF Switched, Commanded
<1>2. Len(running) <= MaxRunning
  BY BarLimits DEF Busy
<1>3. \A i \in DOMAIN running : running[i].steps # <<>>
  BY <1>1 DEF Switched, Commanded
<1> QED
  BY <1>2, <1>3 DEF Bar!TypeOK, Switched, BarTypes, Busy

\* Drafts are numbered by the presses that were made.
Numbered ==
  /\ presses <= MaxPresses /\ offered <= presses /\ held <= presses
  /\ slot # "none" => take # 0
  /\ crossed \subseteq 1 .. MaxPresses

LEMMA InitNumbered == Voice!Init => Numbered
<1> SUFFICES ASSUME Voice!Init PROVE Numbered
  OBVIOUS
<1>1. MaxPresses \in Nat
  BY Assumptions DEF Assumptions, Voice!VoiceAssumption
<1> QED
  BY <1>1 DEF Voice!Init, Voice!None, Numbered

LEMMA StaysNumbered ==
  ASSUME Voicing, Numbered, [Voice!Next]_(Voice!vars)
  PROVE  Numbered'
<1>0. /\ MaxPresses \in Nat /\ presses \in Nat /\ take \in Nat /\ take <= presses
      /\ offered \in Nat /\ held \in Nat /\ presses <= MaxPresses /\ offered <= presses /\ held <= presses
      /\ tasks \in Seq(VoiceTasks) /\ Len(tasks) \in Nat /\ DOMAIN tasks = 1 .. Len(tasks)
  BY Assumptions, QueueTyped DEF Assumptions, Voice!VoiceAssumption, Voicing, Queueing, Offering, Numbered
<1>1. CASE Voice!Press
  <2>1. presses < MaxPresses /\ presses' = presses + 1 /\ UNCHANGED <<offered, slot, take, held, crossed>>
    BY <1>1 DEF Voice!Press, Voice!recorder
  <2> QED
    BY <1>0, <2>1 DEF Numbered
<1>2. CASE Voice!Release \/ Voice!Cancel \/ Voice!Send
  <2>1. UNCHANGED <<presses, slot, take, held, crossed>> /\ offered' \in {offered, 0}
    BY <1>2 DEF Voice!Release, Voice!Cancel, Voice!Send, Voice!recorder, Voice!None
  <2> QED
    BY <1>0, <2>1 DEF Numbered
<1>3. CASE Voice!LimitReached \/ UNCHANGED Voice!vars
  BY <1>3 DEF Voice!LimitReached, Voice!vars, Voice!window, Voice!recorder, Numbered
<1>4. ASSUME NEW i \in DOMAIN tasks, Voice!StartRecording(i) PROVE Numbered'
  <2>1. /\ UNCHANGED <<presses, offered, crossed>> /\ held' \in {held, 0} /\ tasks[i].op = "start"
        /\ (slot' = slot /\ take' = take) \/ take' = tasks[i].press \/ slot' = "none"
    BY <1>4 DEF Voice!StartRecording, Voice!Spawned, Voice!window, Voice!recorder, Voice!None
  <2>2. tasks[i].press # 0
    BY <1>0, <2>1, QueueTyped DEF Voicing, Queueing, Placed
  <2> QED
    BY <1>0, <2>1, <2>2 DEF Numbered
<1>5. ASSUME NEW i \in DOMAIN tasks, Voice!StopRecording(i) \/ Voice!SendRecording(i) \/ Voice!CancelRecording(i)
      PROVE  Numbered'
  <2>1. /\ UNCHANGED <<presses, offered, crossed, take>> /\ held' \in {held, 0, take}
        /\ slot' \in {slot, "none"}
    BY <1>5 DEF Voice!StopRecording, Voice!SendRecording, Voice!CancelRecording, Voice!Taken, Voice!window,
                Voice!None
  <2> QED
    BY <1>0, <2>1 DEF Numbered
<1>6. ASSUME NEW i \in DOMAIN tasks, Voice!Failed(i) PROVE Numbered'
  <2>1. /\ UNCHANGED <<presses, slot, take, held>> /\ offered' \in {offered, 0}
        /\ crossed' = IF recording /\ ~Voice!Own(tasks[i]) THEN crossed \cup {presses} ELSE crossed
    BY <1>6 DEF Voice!Failed, Voice!recorder, Voice!None
  <2>2. recording => presses \in 1 .. MaxPresses
    BY <1>0 DEF Voicing, Queueing
  <2>3. crossed' \subseteq 1 .. MaxPresses
    BY <2>1, <2>2 DEF Numbered
  <2>4. presses' <= MaxPresses /\ offered' <= presses' /\ held' <= presses'
    BY <1>0, <2>1
  <2>5. slot' # "none" => take' # 0
    BY <2>1 DEF Numbered
  <2> QED
    BY <2>3, <2>4, <2>5 DEF Numbered
<1>7. ASSUME NEW i \in DOMAIN tasks, Voice!Done(i) PROVE Numbered'
  <2>1. /\ UNCHANGED <<presses, slot, take, held, crossed>>
        /\ offered' \in {offered, 0} \/ (tasks[i].draft # 0 /\ offered' = tasks[i].draft)
    BY <1>7 DEF Voice!Done, Voice!recorder, Voice!None
  <2>2. tasks[i].draft # 0 => tasks[i].draft = held
    BY <1>0 DEF Voicing, Offering, Wished
  <2> QED
    BY <1>0, <2>1, <2>2 DEF Numbered
<1> QED
  BY <1>1, <1>2, <1>3, <1>4, <1>5, <1>6, <1>7 DEF Voice!Next, Voice!Session

LEMMA VoiceIsTyped == Voicing /\ Numbered => Voice!TypeOK
<1> SUFFICES ASSUME Voicing, Numbered PROVE Voice!TypeOK
  OBVIOUS
<1>1. /\ MaxPresses \in Nat /\ presses \in Nat /\ take \in Nat /\ take <= presses
      /\ offered \in Nat /\ held \in Nat /\ presses <= MaxPresses /\ offered <= presses /\ held <= presses
  BY Assumptions DEF Assumptions, Voice!VoiceAssumption, Voicing, Queueing, Offering, Numbered
<1>2. offered \in 0 .. MaxPresses /\ take \in 0 .. MaxPresses /\ held \in 0 .. MaxPresses
  BY <1>1
<1>3. 0 .. MaxPresses = Voice!Drafts \cup {Voice!None}
  BY <1>1 DEF Voice!Drafts, Voice!None
<1>4. {offered, take, held} \subseteq Voice!Drafts \cup {Voice!None}
  BY <1>2, <1>3
<1> QED
  BY <1>4 DEF Voice!TypeOK, Voicing, Offering, Numbered, Voice!Drafts, Voice!None

-----------------------------------------------------------------------------
(* A step of the whole is a step of each part, or leaves it alone          *)

LEMMA StepsOfPointer == [Next]_vars => [Mouse!Next]_(Mouse!vars)
<1> SUFFICES ASSUME [Next]_vars, ~Mouse!Next PROVE UNCHANGED Mouse!vars
  OBVIOUS
<1>1. UNCHANGED pointerVars
  BY DEF Next, vars, NextCloudflare, NextFront, NextReconnect, NextBytes, NextLoop, NextPulse,
         NextPresence, NextVoice, NextView, NextPointer, NextTaskbar, NextRecovery, shellVars
<1> QED
  BY <1>1 DEF pointerVars, Mouse!vars, Mouse!world, Mouse!sampler, Mouse!atomics, Mouse!pages

LEMMA StepsOfVoice == [Next]_vars => [Voice!Next]_(Voice!vars)
<1> SUFFICES ASSUME [Next]_vars, ~Voice!Next PROVE UNCHANGED Voice!vars
  OBVIOUS
<1>1. UNCHANGED voiceVars
  BY DEF Next, vars, NextCloudflare, NextFront, NextReconnect, NextBytes, NextLoop, NextPulse,
         NextPresence, NextVoice, NextView, NextPointer, NextTaskbar, NextRecovery, windowVars
<1> QED
  BY <1>1 DEF voiceVars, Voice!vars, Voice!window, Voice!recorder

LEMMA StepsOfTaskbar == [Next]_vars => [Bar!Next]_(Bar!vars)
<1> SUFFICES ASSUME [Next]_vars, ~Bar!Next PROVE UNCHANGED Bar!vars
  OBVIOUS
<1>1. UNCHANGED taskbarVars
  BY DEF Next, vars, NextCloudflare, NextFront, NextReconnect, NextBytes, NextLoop, NextPulse,
         NextPresence, NextVoice, NextView, NextPointer, NextTaskbar, NextRecovery, shellVars
<1> QED
  BY <1>1 DEF taskbarVars, Bar!vars, Bar!style

LEMMA StepsOfView == [Next]_vars => [View!Next]_(View!vars)
<1> SUFFICES ASSUME [Next]_vars, ~View!Next PROVE UNCHANGED View!vars
  OBVIOUS
<1>1. UNCHANGED viewVars
  BY DEF Next, vars, NextCloudflare, NextFront, NextReconnect, NextBytes, NextLoop, NextPulse,
         NextPresence, NextVoice, NextView, NextPointer, NextTaskbar, NextRecovery, windowVars
<1> QED
  BY <1>1 DEF viewVars, View!vars, View!db, View!window

LEMMA EachWindowBegins ==
  Init => /\ Mouse!Init /\ Voice!Init /\ Bar!Init /\ View!Init
BY DEF Init

-----------------------------------------------------------------------------
(* The theorems                                                            *)

\* Two beats after the pointer and the buttons came to rest the pages have
\* them as they are, on both kinds of platform, however the hook's writes and
\* the loop's reads cross (device/mod.rs, device/pointer.rs).
THEOREM PointerIsShown == Spec => []PointerAgrees
<1>1. Init => PointerTypes /\ Looking /\ Hooked /\ Telling
  BY EachWindowBegins, InitLooking, InitHooked, InitTelling
<1>2. PointerTypes /\ Looking /\ Hooked /\ Telling /\ [Next]_vars
      => (PointerTypes /\ Looking /\ Hooked /\ Telling)'
  BY StepsOfPointer, PointerTyped, LooksOn, StaysHooked, KeepsTelling
<1>3. PointerTypes /\ Looking /\ Hooked /\ Telling => PointerAgrees
  BY PointerFollows DEF PointerAgrees
<1> QED
  BY <1>1, <1>2, <1>3, PTL DEF Spec

\* Once the voice commands have been answered, a draft that is offered is the one
\* that can be sent, with the microphone closed, and the microphone is open only
\* while the window shows it, or where the failure of another command hid it
\* (usePairVoice.ts, useChatVoiceBridge.ts; pair_start_recording, pair_stop_recording and
\* pair_send_recording in pair/mod.rs),
\* for any number of presses, however the answers are late and whatever the chat
\* window asks for by its late copy.
THEOREM VoiceAgrees == Spec => []VoiceSettles
<1>1. Init => Voicing
  BY EachWindowBegins, InitVoicing
<1>2. Voicing /\ [Next]_vars => Voicing'
  BY StepsOfVoice, VoiceKeeps
<1>3. Voicing => VoiceSettles
  BY VoicingSettles DEF VoiceSettles
<1> QED
  BY <1>1, <1>2, <1>3, PTL DEF Spec

\* When the windows are at rest after the setting "show in taskbar" was changed,
\* each overlay has a button there exactly if the setting says so, however the
\* commands, the windows' messages and the shell's restarts cross (windows.rs
\* of the window plugin); a window that was last told by a command which had
\* read the old value is the exception it names.
THEOREM ButtonsFollowSwitch == Spec => []SwitchHolds
<1>1. Init => Switched
  BY EachWindowBegins, InitSwitched
<1>2. Switched /\ [Next]_vars => Switched'
  BY StepsOfTaskbar, SwitchKeeps
<1>3. Switched => SwitchHolds
  BY SwitchedHolds DEF SwitchHolds
<1> QED
  BY <1>1, <1>2, <1>3, PTL DEF Spec

\* When nothing about messages is on its way any more, the window shows what
\* the database has, or knows that there is more above, and nothing of an old
\* period, however the pages, the events and the answers to its sends crossed
\* and whatever failed (usePairChat.ts with history.rs); of the messages that
\* changed while something older was still to come it says nothing.
THEOREM WindowShowsDatabase == Spec => []ShownIsStored
<1>1. Init => Viewing
  BY EachWindowBegins, InitViewing
<1>2. Viewing /\ [Next]_vars => Viewing'
  BY StepsOfView, ViewKeeps
<1>3. Viewing => ShownIsStored
  BY ViewingShows DEF ShownIsStored
<1> QED
  BY <1>1, <1>2, <1>3, PTL DEF Spec

\* The state of each of the twelve stays in its types for every value of the
\* constants: the counters within their bounds, the permits of addresses equal
\* to the connections whose head is read (RelayFront), the pacers at their bursts
\* at most (SendLoop), drafts that are of a press (VoiceNote), a page that waits
\* exactly while one is loaded (ChatView).
THEOREM PartsAreTyped == Spec => []TypeOK
<1>1. Spec => []Cloudflare!TypeOK
  <2>1. Init => Socketed
    BY EachBegins, InitSocketed
  <2>2. Socketed /\ [Next]_vars => Socketed'
    BY StepsOfCloudflare, StaysSocketed
  <2>3. Socketed => Cloudflare!TypeOK
    BY SocketsAreTyped
  <2> QED
    BY <2>1, <2>2, <2>3, PTL DEF Spec
<1>2. Spec => []Front!TypeOK
  <2>1. Init => Owed /\ Addressed /\ Permitted
    BY EachBegins, InitOwed, InitPermitted
  <2>2. Owed /\ Addressed /\ Permitted /\ [Next]_vars => (Owed /\ Addressed /\ Permitted)'
    BY StepsOfFront, OwesOn, PermitsCounted
  <2>3. Owed /\ Addressed /\ Permitted => Front!TypeOK
    BY FrontIsTyped
  <2> QED
    BY <2>1, <2>2, <2>3, PTL DEF Spec
<1>3. Spec => []Backoff!TypeOK
  <2>1. Init => PaceTypes
    BY EachBegins, InitPaceTypes
  <2>2. PaceTypes /\ [Next]_vars => PaceTypes'
    BY StepsOfReconnect, PacesTyped
  <2>3. PaceTypes => Backoff!TypeOK
    BY PacesAreTyped
  <2> QED
    BY <2>1, <2>2, <2>3, PTL DEF Spec
<1>4. Spec => []Bytes!TypeOK
  <2>1. Init => FirstBytesKept /\ Fitting
    BY EachBegins, InitFirstBytesKept, InitFitting
  <2>2. FirstBytesKept /\ Fitting /\ [Next]_vars => (FirstBytesKept /\ Fitting)'
    BY StepsOfBytes, BytesKept, BytesFit
  <2>3. FirstBytesKept /\ Fitting => Bytes!TypeOK
    BY BytesAreTyped
  <2> QED
    BY <2>1, <2>2, <2>3, PTL DEF Spec
<1>5. Spec => []Pulse!TypeOK
  <2>1. Init => Pulsing
    BY EachBegins, InitPulsing
  <2>2. Pulsing /\ [Next]_vars => Pulsing'
    BY StepsOfPulse, PulseKeeps
  <2>3. Pulsing => Pulse!TypeOK
    BY PulseIsTyped
  <2> QED
    BY <2>1, <2>2, <2>3, PTL DEF Spec
<1>6. Spec => []Presence!TypeOK
  <2>1. Init => PresenceInv /\ Viewed
    BY EachBegins, InitPresence, InitViewed
  <2>2. PresenceInv /\ Viewed /\ [Next]_vars => (PresenceInv /\ Viewed)'
    BY StepsOfPresence, PresenceKeeps, StaysViewed DEF PresenceInv
  <2>3. PresenceInv /\ Viewed => Presence!TypeOK
    BY PresenceIsTyped DEF PresenceInv
  <2> QED
    BY <2>1, <2>2, <2>3, PTL DEF Spec
<1>7. Spec => []Voice!TypeOK
  <2>1. Init => Voicing /\ Numbered
    BY EachWindowBegins, InitVoicing, InitNumbered
  <2>2. Voicing /\ Numbered /\ [Next]_vars => (Voicing /\ Numbered)'
    BY StepsOfVoice, VoiceKeeps, StaysNumbered
  <2>3. Voicing /\ Numbered => Voice!TypeOK
    BY VoiceIsTyped
  <2> QED
    BY <2>1, <2>2, <2>3, PTL DEF Spec
<1>8. Spec => []View!TypeOK
  <2>1. Init => Viewing
    BY EachWindowBegins, InitViewing
  <2>2. Viewing /\ [Next]_vars => Viewing'
    BY StepsOfView, ViewKeeps
  <2>3. Viewing => View!TypeOK
    BY ViewIsTyped
  <2> QED
    BY <2>1, <2>2, <2>3, PTL DEF Spec
<1>9. Spec => []Mouse!TypeOK
  <2>1. Init => PointerTypes /\ Looking /\ Hooked /\ Telling /\ Pointing
    BY EachWindowBegins, InitLooking, InitHooked, InitTelling, InitPointing
  <2>2. PointerTypes /\ Looking /\ Hooked /\ Telling /\ Pointing /\ [Next]_vars => (PointerTypes /\ Looking /\ Hooked /\ Telling /\ Pointing)'
    BY StepsOfPointer, PointerTyped, LooksOn, StaysHooked, KeepsTelling, PointsOn
  <2>3. PointerTypes /\ Looking /\ Hooked /\ Telling /\ Pointing => Mouse!TypeOK
    BY PointerIsTyped
  <2> QED
    BY <2>1, <2>2, <2>3, PTL DEF Spec
<1>10. Spec => []Bar!TypeOK
  <2>1. Init => Switched /\ Busy
    BY EachWindowBegins, InitSwitched, InitBusy
  <2>2. Switched /\ Busy /\ [Next]_vars => (Switched /\ Busy)'
    BY StepsOfTaskbar, SwitchKeeps, StaysBusy
  <2>3. Switched /\ Busy => Bar!TypeOK
    BY BarIsTyped
  <2> QED
    BY <2>1, <2>2, <2>3, PTL DEF Spec
<1>11. Spec => []Restart!TypeOK
  <2>1. Init => Stamped /\ Processes
    BY EachBegins, InitStamped, InitProcesses
  <2>2. Stamped /\ Processes /\ [Next]_vars => (Stamped /\ Processes)'
    BY StepsOfRecovery, NextKeepsStamped, ProcessesTyped
  <2>3. Stamped /\ Processes => Restart!TypeOK
    BY RestartIsTyped
  <2> QED
    BY <2>1, <2>2, <2>3, PTL DEF Spec
<1>12. Spec => []Loop!TypeOK
  <2>1. Init => LinedUp /\ Saving /\ Looping /\ Counting /\ Topped
    BY EachBegins, InitLinedUp, InitSaving, InitLooping
  <2>2. LinedUp /\ Saving /\ Looping /\ Topped /\ [Next]_vars => (LinedUp /\ Saving /\ Looping /\ Topped)'
    BY StepsOfLoop, LoopKeepsLine, LoopKeepsSaving, LoopsOn, PacersTop DEF Saving
  <2>3. LinedUp /\ Saving /\ Saving' /\ Looping /\ Looping' /\ Counting /\ [Next]_vars => Counting'
    BY StepsOfLoop, LoopCounts
  <2>4. LinedUp /\ Saving /\ Looping /\ Counting /\ Topped => Loop!TypeOK
    BY LoopIsTyped
  <2> QED
    BY <2>1, <2>2, <2>3, <2>4, PTL DEF Spec
<1>13. /\ Cloudflare!TypeOK /\ Front!TypeOK /\ Backoff!TypeOK /\ Bytes!TypeOK /\ Loop!TypeOK
       /\ Pulse!TypeOK /\ Presence!TypeOK /\ Voice!TypeOK /\ View!TypeOK /\ Mouse!TypeOK
       /\ Bar!TypeOK /\ Restart!TypeOK
       => TypeOK
  BY DEF TypeOK
<1> QED
  BY <1>1, <1>2, <1>3, <1>4, <1>5, <1>6, <1>7, <1>8, <1>9, <1>10, <1>11, <1>12, <1>13, PTL

=============================================================================
