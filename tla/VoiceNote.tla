------------------------------ MODULE VoiceNote ------------------------------
(***************************************************************************)
(* Push to talk (usePairVoice.ts, the recording commands of pair/mod.rs     *)
(* and audio.rs): the window's picture of a recording and the recorder      *)
(* behind it.  The commands form a queue of promises, so that each begins   *)
(* when the one before has ended; the window's own state changes at once    *)
(* with the key, and again when a result comes back.  The chat window works *)
(* the same recorder (useChatVoiceBridge.ts) by a copy of that state, which *)
(* is always late: what it asks for may no longer have its button.          *)
(*                                                                         *)
(* Abstractions.  A draft is the number of the press it was recorded by.    *)
(* Messages, the ticking seconds and listening to a draft are left out.     *)
(***************************************************************************)
EXTENDS Naturals, Sequences, SequencesExt

CONSTANTS
  MaxPresses, \* bound: how often the key is pressed
  MaxRounds   \* bound: nothing is cancelled after so many rounds

VoiceAssumption == {MaxPresses, MaxRounds} \subseteq Nat

None == 0
Drafts == 1 .. MaxPresses

VARIABLES
  recording, \* the window shows a recording
  offered,   \* pending: the draft it offers to send, or None
  sending,
  round,     \* of the last press, release or cancellation
  presses,   \* made so far
  tasks,     \* VoiceSession::queue, with results that are on their way back
  slot,      \* Recorder::current: none, on, ended (by itself)
  take,      \* the press that opened the microphone
  held,      \* PairRecording::draft, or None
  crossed    \* presses shown as over when the failure of another command came back

window == <<recording, offered, sending, round, presses>>
recorder == <<slot, take, held>>
vars == <<window, tasks, recorder, crossed>>

Init ==
  /\ recording = FALSE /\ offered = None /\ sending = FALSE
  /\ round = 0 /\ presses = 0
  /\ tasks = <<>>
  /\ slot = "none" /\ take = None /\ held = None
  /\ crossed = {}

Task(op, number) == [op |-> op, round |-> number, press |-> presses', result |-> "queued", draft |-> None]
Queued(op, number) == tasks' = Append(tasks, Task(op, number))

-----------------------------------------------------------------------------
(* The window                                                              *)

\* press: by the shortcut or the overlay, whatever is still under way.
Press ==
  /\ ~recording /\ presses < MaxPresses
  /\ recording' = TRUE /\ round' = round + 1 /\ presses' = presses + 1
  /\ Queued("start", round')
  /\ UNCHANGED <<offered, sending, recorder, crossed>>

Release ==
  /\ recording
  /\ recording' = FALSE /\ round' = round + 1 /\ UNCHANGED presses
  /\ Queued("stop", round')
  /\ UNCHANGED <<offered, sending, recorder, crossed>>

\* The window has its buttons while something is recorded or offered; the chat
\* window's reaches it at any time, unless a draft is being sent.
Cancel ==
  /\ round < MaxRounds
  /\ recording \/ offered # None \/ ~sending
  /\ recording' = FALSE /\ offered' = None /\ round' = round + 1 /\ UNCHANGED presses
  /\ Queued("cancel", round')
  /\ UNCHANGED <<sending, recorder, crossed>>

\* The window hides the button while it records, the chat window's copy may
\* still have it: send itself looks at pending and sending only.
Send ==
  /\ offered # None /\ ~sending
  /\ sending' = TRUE /\ UNCHANGED presses
  /\ Queued("send", round)
  /\ UNCHANGED <<recording, offered, round, recorder, crossed>>

-----------------------------------------------------------------------------
(* The commands                                                            *)

Begins(i) == i = 1 /\ tasks[i].result = "queued"

Ended(i, result, draft) ==
  tasks' = [tasks EXCEPT ![i].result = result, ![i].draft = draft]

\* drop_finished: a recording that has ended by itself is no hindrance.
Recording == slot = "on"

\* spawn_recording: the microphone is open within 5 s, or not.
Spawned(press) ==
  \/ slot' = "on" /\ take' = press
  \/ slot' = "none" /\ UNCHANGED take

\* Recorder::take, and the recording is finished.
Taken == slot' = "none" /\ UNCHANGED take

\* pair_start_recording: the old draft goes when the microphone is open.
StartRecording(i) ==
  /\ Begins(i) /\ tasks[i].op = "start"
  /\ \/ Recording /\ Ended(i, "failed", None) /\ UNCHANGED recorder
     \/ /\ ~Recording /\ Spawned(tasks[i].press)
        /\ Ended(i, IF slot' = "on" THEN "done" ELSE "failed", None)
        /\ held' = IF slot' = "on" THEN None ELSE held
  /\ UNCHANGED <<window, crossed>>

\* pair_stop_recording: nothing to stop or too short; not saved; a draft.
StopRecording(i) ==
  /\ Begins(i) /\ tasks[i].op = "stop"
  /\ Taken
  /\ \/ Ended(i, "done", None) /\ UNCHANGED held
     \/ slot # "none" /\ Ended(i, "failed", None) /\ UNCHANGED held
     \/ slot # "none" /\ Ended(i, "done", take) /\ held' = take
  /\ UNCHANGED <<window, crossed>>

\* pair_send_recording: the draft is gone, sent or not.
SendRecording(i) ==
  /\ Begins(i) /\ tasks[i].op = "send"
  /\ \/ held # None /\ Ended(i, "done", None)
     \/ Ended(i, "failed", None)
  /\ held' = None
  /\ UNCHANGED <<window, slot, take, crossed>>

\* pair_cancel_recording.
CancelRecording(i) ==
  /\ Begins(i) /\ tasks[i].op = "cancel"
  /\ Taken /\ held' = None
  /\ Ended(i, "done", None)
  /\ UNCHANGED <<window, crossed>>

\* MAX_RECORDING_SECS, or the thread fails.
LimitReached ==
  /\ slot = "on" /\ slot' = "ended"
  /\ UNCHANGED <<window, tasks, take, held, crossed>>

-----------------------------------------------------------------------------
(* The results come back                                                   *)

\* Mutant of StillWanted: a draft is offered whatever was done since.
StillWantedAlways(task) == TRUE

StillWanted(task) == task.round = round

Popped(i) == tasks' = RemoveAt(tasks, i)

\* The command that the recording shown began with.
Own(task) == task.op = "start" /\ task.press = presses

\* onError: not only the recording that failed is shown as over.
Failed(i) ==
  /\ tasks[i].result = "failed"
  /\ Popped(i)
  /\ recording' = FALSE
  /\ crossed' = IF recording /\ ~Own(tasks[i]) THEN crossed \cup {presses} ELSE crossed
  /\ IF tasks[i].op = "send"
     THEN offered' = None /\ sending' = FALSE
     ELSE UNCHANGED <<offered, sending>>
  /\ UNCHANGED <<round, presses, recorder>>

Done(i) ==
  LET task == tasks[i] IN
  /\ task.result = "done"
  /\ Popped(i)
  /\ offered' = IF task.op \in {"start", "send"} THEN None
                ELSE IF task.draft # None /\ StillWanted(task) THEN task.draft
                ELSE offered
  /\ sending' = (sending /\ task.op # "send")
  /\ UNCHANGED <<recording, round, presses, recorder, crossed>>

Session(i) ==
  StartRecording(i) \/ StopRecording(i) \/ SendRecording(i) \/ CancelRecording(i)
    \/ Failed(i) \/ Done(i)

Next ==
  \/ Press \/ Release \/ Cancel \/ Send \/ LimitReached
  \/ \E i \in DOMAIN tasks : Session(i)

Spec == Init /\ [][Next]_vars

-----------------------------------------------------------------------------
(* Correctness                                                             *)

TypeOK ==
  /\ {offered, take, held} \subseteq Drafts \cup {None}
  /\ slot \in {"none", "on", "ended"} /\ (slot # "none" => take # None)
  /\ crossed \subseteq Drafts

Settled == tasks = <<>>

\* A draft that the window offers is the one that can be sent: no "dead"
\* draft, whatever was pressed while a result was on its way (round).
OfferedIsHeld == Settled /\ offered # None => held = offered

\* No microphone stays open that the window does not show, as a release would
\* have nothing to end then (createVoiceSession: one queue).
MicrophoneShown == Settled /\ slot = "on" => recording

\* The same, unless the failure of another command was taken for one of the
\* recording: of one queued before its start, or of a send queued behind it.
MicrophoneShownUncrossed == Settled /\ slot = "on" /\ take \notin crossed => recording

=============================================================================
