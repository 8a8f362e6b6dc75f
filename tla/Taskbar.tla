-------------------------------- MODULE Taskbar --------------------------------
(***************************************************************************)
(* The switch that keeps the windows on the desktop out of the Windows      *)
(* taskbar (the window plugin's windows.rs and mod.rs).  Its commands run   *)
(* on the pool's threads and only post messages; the event loop carries     *)
(* them out later and in order, and whatever changes a window's flags makes *)
(* tao compute the style anew, without the tool window bit.                *)
(*                                                                         *)
(* A command is the list of the steps it still has to take; other commands  *)
(* run between any two.  A button is left out of the taskbar by the window's *)
(* style, or by tao's hint, which the shell may forget at any time and tao   *)
(* repeats when the shell starts again.                                    *)
(***************************************************************************)
EXTENDS Naturals, SequencesExt

CONSTANTS
  Windows,     \* their labels
  Overlay,     \* overlay_window_labels, in order
  MaxCommands, \* bound: commands in all
  MaxRunning   \* bound: at a time

TaskbarAssumption ==
  /\ Overlay \in Seq(Windows)
  /\ {MaxCommands, MaxRunning} \subseteq Nat

VARIABLES
  taskbarVisible, \* TASKBAR_VISIBLE
  running,  \* the commands, each with the value it holds
  posted,   \* messages for the event loop
  visible,  \* of each window
  tool,     \* WS_EX_TOOLWINDOW, otherwise WS_EX_APPWINDOW
  skip,     \* what tao has been told
  deleted,  \* the shell heeds the hint
  stale,    \* what was never posted, or last with a value not the switch's
  given

style == <<visible, tool, skip, deleted>>
vars == <<taskbarVisible, running, posted, style, stale, given>>

Init ==
  /\ taskbarVisible = FALSE /\ running = <<>> /\ posted = <<>>
  /\ visible \in [Windows -> BOOLEAN]
  /\ tool = [w \in Windows |-> FALSE]
  /\ skip = [w \in Windows |-> TRUE] /\ deleted = skip
  /\ stale = ToSet(Overlay) \X {"skip", "tool"} /\ given = 0

-----------------------------------------------------------------------------
(* Steps of the commands: what they do, to which window, with which value   *)

Step(what, w) == [what |-> what, w |-> w, v |-> FALSE]

IsOverlayWindow(w) == w \in ToSet(Overlay)

\* apply_taskbar_visibility.
ApplyTaskbarVisibility(w) == IF IsOverlayWindow(w) THEN <<Step("skip", w), Step("tool", w)>> ELSE <<>>

\* restore_taskbar_visibility.
RestoreTaskbarVisibility(w) == <<Step("load", w)>> \o ApplyTaskbarVisibility(w)

\* set_taskbar_visibility.
SetTaskbarVisibility(v) ==
  <<[what |-> "store", w |-> Overlay[1], v |-> v]>>
    \o FlattenSeq([i \in 1 .. Len(Overlay) |-> ApplyTaskbarVisibility(Overlay[i])])

\* refresh_taskbar_visibility.
RefreshTaskbarVisibility ==
  FlattenSeq([i \in 1 .. Len(Overlay) |-> RestoreTaskbarVisibility(Overlay[i])])

\* show_window, show_window_label; unminimize comes with it.
ShowWindow(w) == <<Step("show", w)>> \o RestoreTaskbarVisibility(w)

\* hide_window, hide_window_label, and a window that is closed.
HideWindow(w) == <<Step("hide", w)>>

\* set_always_on_top.
SetAlwaysOnTop(w) == <<Step("flags", w)>> \o RestoreTaskbarVisibility(w)

\* setPassThrough: setIgnoreCursorEvents, then a refresh.
SetPassThrough(w) == <<Step("flags", w)>> \o RefreshTaskbarVisibility

Commands ==
  {SetTaskbarVisibility(v) : v \in BOOLEAN}
    \cup (UNION {{ShowWindow(w), HideWindow(w), SetAlwaysOnTop(w)} : w \in Windows})
    \cup {SetPassThrough(w) : w \in ToSet(Overlay)}

Invoke ==
  /\ given < MaxCommands /\ Len(running) < MaxRunning
  /\ given' = given + 1
  /\ \E c \in Commands : running' = Append(running, [steps |-> c, v |-> FALSE])
  /\ UNCHANGED <<taskbarVisible, posted, style, stale>>

\* Command i holds v from now on; one that has ended is gone.
Goes(i, v) ==
  LET rest == [steps |-> Tail(running[i].steps), v |-> v]
  IN  running' = IF rest.steps = <<>> THEN RemoveAt(running, i) ELSE [running EXCEPT ![i] = rest]

Store(i) ==
  LET s == Head(running[i].steps) IN
  /\ s.what = "store" /\ taskbarVisible' = s.v /\ Goes(i, s.v)
  /\ UNCHANGED <<posted, style, stale, given>>

Load(i) ==
  /\ Head(running[i].steps).what = "load" /\ Goes(i, taskbarVisible)
  /\ UNCHANGED <<taskbarVisible, posted, style, stale, given>>

\* Mutant of Posted: the style is written at once.
PostedOrWritten(m) ==
  IF m.what = "tool" THEN tool' = [tool EXCEPT ![m.w] = ~m.v] /\ UNCHANGED <<posted, visible, skip, deleted>>
  ELSE posted' = Append(posted, m) /\ UNCHANGED style

\* send_user_message, run_on_main_thread.
Posted(m) == posted' = Append(posted, m) /\ UNCHANGED style

Post(i) ==
  LET s == Head(running[i].steps)
      m == [s EXCEPT !.v = running[i].v]
      mark == <<s.w, s.what>>
  IN
  /\ s.what \notin {"store", "load"}
  /\ Posted(m) /\ Goes(i, m.v)
  /\ stale' = IF s.what \in {"skip", "tool"} /\ m.v # taskbarVisible THEN stale \cup {mark} ELSE stale \ {mark}
  /\ UNCHANGED <<taskbarVisible, given>>

Run == \E i \in 1 .. Len(running) : Store(i) \/ Load(i) \/ Post(i)

-----------------------------------------------------------------------------
(* The event loop and the shell                                            *)

\* set_window_flags: tao knows nothing of the tool window bit.
Recomputed(w) == tool' = [tool EXCEPT ![w] = FALSE]

\* A window that is shown gets its button back.
Shown(m) ==
  /\ m.what = "show" /\ visible' = [visible EXCEPT ![m.w] = TRUE]
  /\ IF visible[m.w] THEN UNCHANGED <<tool, deleted>>
     ELSE Recomputed(m.w) /\ deleted' = [deleted EXCEPT ![m.w] = FALSE]
  /\ UNCHANGED skip

Hidden(m) ==
  /\ m.what = "hide" /\ visible' = [visible EXCEPT ![m.w] = FALSE]
  /\ IF visible[m.w] THEN Recomputed(m.w) ELSE UNCHANGED tool
  /\ UNCHANGED <<skip, deleted>>

\* Always on top, click-through: nothing happens when they do not change.
Flagged(m) ==
  /\ m.what = "flags" /\ (Recomputed(m.w) \/ UNCHANGED tool)
  /\ UNCHANGED <<visible, skip, deleted>>

\* set_skip_taskbar.
Skipped(m) ==
  /\ m.what = "skip" /\ skip' = [skip EXCEPT ![m.w] = ~m.v] /\ deleted' = [deleted EXCEPT ![m.w] = ~m.v]
  /\ UNCHANGED <<visible, tool>>

\* apply_taskbar_style.
Styled(m) ==
  /\ m.what = "tool" /\ tool' = [tool EXCEPT ![m.w] = ~m.v]
  /\ UNCHANGED <<visible, skip, deleted>>

Dispatch ==
  /\ posted # <<>> /\ posted' = Tail(posted)
  /\ LET m == Head(posted) IN Shown(m) \/ Hidden(m) \/ Flagged(m) \/ Skipped(m) \/ Styled(m)
  /\ UNCHANGED <<taskbarVisible, running, stale, given>>

\* TaskbarCreated: tao repeats its hint.
ShellStarts ==
  /\ deleted' = skip
  /\ UNCHANGED <<taskbarVisible, running, posted, visible, tool, skip, stale, given>>

\* The hint is lost.
ShellForgets ==
  /\ \E w \in ToSet(Overlay) : deleted[w] /\ deleted' = [deleted EXCEPT ![w] = FALSE]
  /\ UNCHANGED <<taskbarVisible, running, posted, visible, tool, skip, stale, given>>

Next == Invoke \/ Run \/ Dispatch \/ ShellStarts \/ ShellForgets

Spec == Init /\ [][Next]_vars

-----------------------------------------------------------------------------

TypeOK ==
  /\ taskbarVisible \in BOOLEAN /\ {visible, tool, skip, deleted} \subseteq [Windows -> BOOLEAN]
  /\ Len(running) <= MaxRunning /\ \A i \in DOMAIN running : running[i].steps # <<>>
  /\ stale \subseteq Windows \X {"skip", "tool"}
  /\ given \in 0 .. MaxCommands

Button(w) == visible[w] /\ ~tool[w] /\ ~deleted[w]

\* Once every command and message is done, each window on the desktop has a
\* button exactly when the switch says so, whatever was shown, pinned or made
\* click-through meanwhile and even if the shell loses its hints or starts
\* again, unless nothing has been said about it or the last word came from a
\* command that had read the switch before it was turned; an ordinary window
\* never becomes a tool window.
SwitchHolds ==
  /\ running = <<>> /\ posted = <<>> =>
       \A w \in ToSet(Overlay) :
         visible[w] /\ stale \cap {<<w, "skip">>, <<w, "tool">>} = {} => (Button(w) <=> taskbarVisible)
  /\ \A w \in Windows : ~IsOverlayWindow(w) => ~tool[w]

=============================================================================
