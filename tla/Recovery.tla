-------------------------------- MODULE Recovery -------------------------------
(***************************************************************************)
(* What the process does about pages that do not come up or stop working    *)
(* (recovery.rs): a start that has no page after a while is tried again by   *)
(* itself, once in a window of time, and then talks to the user.  The stamp  *)
(* of the last such restart is a file, whose time is that of a clock that   *)
(* can be set; everything else is gone with the process.                    *)
(*                                                                         *)
(* A tick is WEBVIEW_READY_SECS.  The clock stops at the bound: a slow clock *)
(* is one that is set back again and again.                                *)
(***************************************************************************)
EXTENDS Naturals

CONSTANTS
  Pages,    \* labels of the windows
  MainPage, \* MAIN_WINDOW_LABEL
  Window,   \* AUTO_RESTART_WINDOW_SECS
  MaxNow    \* bound: the clock's range

RecoveryAssumption == MainPage \in Pages /\ {Window, MaxNow} \subseteq Nat \ {0}

Never == MaxNow + 1

VARIABLES
  now,     \* SystemTime
  stamp,   \* the file's time, or Never
  writable, \* the data directory
  alive,   \* the process runs
  grown,   \* WEBVIEW_READY_SECS have passed
  watching, \* watch_startup's thread
  hooked,  \* pages whose WebView exists, with the handler
  offered,
  dialogs, \* open
  since,   \* ticks since the last automatic restart, Window for long ago
  ahead    \* the clock has been set forward since

file == <<stamp, writable>>
process == <<alive, grown, watching, hooked, offered, dialogs>>
told == <<since, ahead>>
vars == <<now, file, process, told>>

\* MAIN_WEBVIEW_READY.
MainWebviewReady == MainPage \in hooked

\* A new process.
Started ==
  /\ alive' = TRUE /\ grown' = FALSE /\ watching' = TRUE
  /\ hooked' = {} /\ offered' = FALSE /\ dialogs' = {}

Init ==
  /\ now \in 0 .. MaxNow /\ stamp = Never /\ writable \in BOOLEAN
  /\ alive = TRUE /\ grown = FALSE /\ watching = TRUE /\ hooked = {} /\ offered = FALSE /\ dialogs = {}
  /\ since = Window /\ ahead = FALSE

-----------------------------------------------------------------------------

\* on_webview_ready, with_webview: only of a page that has come up.
Ready(p) ==
  /\ alive /\ p \notin hooked /\ hooked' = hooked \cup {p}
  /\ UNCHANGED <<now, file, alive, grown, watching, offered, dialogs, told>>

\* The handler of ProcessFailed, when needs_recovery.
ProcessFailed(p) ==
  /\ alive /\ p \in hooked
  /\ IF offered THEN UNCHANGED <<offered, dialogs>>
     ELSE offered' = TRUE /\ dialogs' = dialogs \cup {"failed"}
  /\ UNCHANGED <<now, file, alive, grown, watching, hooked, told>>

\* auto_restart_allowed: not by a stamp from the future.
AutoRestartAllowed == stamp = Never \/ (stamp <= now /\ now - stamp >= Window)

\* Mutant of ClaimAutoRestart: whether or not the stamp has been written.
ClaimUnwritten == AutoRestartAllowed

\* claim_auto_restart.
ClaimAutoRestart == AutoRestartAllowed /\ writable

\* watch_startup wakes to no page and may try again.
AutoRestart ==
  /\ alive /\ watching /\ grown /\ ~MainWebviewReady
  /\ ClaimAutoRestart
  /\ stamp' = IF writable THEN now ELSE stamp
  /\ Started /\ since' = 0 /\ ahead' = FALSE
  /\ UNCHANGED <<now, writable>>

\* It may not, or there is a page.
WatchEnds ==
  /\ alive /\ watching /\ grown /\ (MainWebviewReady \/ ~ClaimAutoRestart)
  /\ watching' = FALSE
  /\ dialogs' = IF MainWebviewReady THEN dialogs ELSE dialogs \cup {"start"}
  /\ UNCHANGED <<now, file, alive, grown, hooked, offered, told>>

\* offer_restart: the user takes the offer or not.
Answer(d) ==
  /\ alive /\ d \in dialogs
  /\ \/ Started
     \/ dialogs' = dialogs \ {d} /\ UNCHANGED <<alive, grown, watching, hooked, offered>>
  /\ UNCHANGED <<now, file, told>>

\* on_menu_event, and the user starts the program again.
MenuEvent ==
  /\ \/ Started
     \/ alive' = FALSE /\ UNCHANGED <<grown, watching, hooked, offered, dialogs>>
  /\ UNCHANGED <<now, file, told>>

Tick ==
  /\ now' = IF now < MaxNow THEN now + 1 ELSE now
  /\ grown' = (alive \/ grown)
  /\ since' = IF since < Window THEN since + 1 ELSE since
  /\ UNCHANGED <<file, alive, watching, hooked, offered, dialogs, ahead>>

ClockSet ==
  /\ now' \in 0 .. MaxNow /\ ahead' = (ahead \/ now' > now)
  /\ UNCHANGED <<file, process, since>>

Permissions ==
  /\ writable' = ~writable
  /\ UNCHANGED <<now, stamp, process, told>>

Next ==
  \/ \E p \in Pages : Ready(p) \/ ProcessFailed(p)
  \/ AutoRestart \/ WatchEnds
  \/ \E d \in {"start", "failed"} : Answer(d)
  \/ MenuEvent \/ Tick \/ ClockSet \/ Permissions

Spec == Init /\ [][Next]_vars

-----------------------------------------------------------------------------

TypeOK ==
  /\ now \in 0 .. MaxNow /\ stamp \in 0 .. Never
  /\ {writable, alive, grown, watching, offered, ahead} \subseteq BOOLEAN
  /\ hooked \subseteq Pages /\ dialogs \subseteq {"start", "failed"} /\ since \in 0 .. Window

\* The process never restarts itself twice within the window, whatever else
\* starts it, even if the directory cannot be written or the clock is set
\* back: a broken WebView2 never becomes a loop of restarts.
RestartsApart == [][AutoRestart => since = Window \/ ahead]_vars

=============================================================================
