------------------------------ MODULE MCParts ------------------------------
(* Twelve modules whose properties speak of states and steps only, checked  *)
(* side by side: one of them is chosen and moves, the others stay as they    *)
(* begin.  They share nothing here; a variable of one that has the name of   *)
(* another's gets a longer one.                                              *)
EXTENDS Integers, Sequences, FiniteSets, TLC

CONSTANTS
  Ids, MaxSockets, MaxQuiet, MaxWire,
  Conns, Hosts, MaxPre, PerHost, MaxConns, Limit, SweepAt,
  Steps, Quota, Failure, Refill, MaxStarts,
  SplitHead, MaxHead, Capacity, MaxBytes,
  Advertised, MaxHz, FastInterval, SlowInterval, FramePrice, ChunkPrice, DirectPrice,
  FrameBurst, ChunkBurst, DirectBurst, FrameStart, ChunkStart, RetryInterval, QueueLimit, Chunks, MaxTexts,
  MaxLosses, MaxTransfers,
  Intervals, KeepAliveMin, ClickTTL, MaxLatency, MaxFlight,
  Teller, Hearer, MaxNews,
  MaxPresses, MaxRounds,
  MaxRows, PageSize, MaxPeriods, MaxLoads, MaxNotes,
  MaxQueue,
  Windows, Overlay, MaxCommands, MaxRunning, main,
  Pages, MainPage, Window, MaxNow

VARIABLES
  part,
  ready, owner, old, wire, socket_client, socket_online, quiet,
  stage, peer, client, count, failures, account,
  status, attempt, delay, quota, starts,
  scheme, host, data, written, split, head, first, rested, hasty, channel, buffer, answer,
  doing, after, reliable, mail, asked, fresh, route, writable, todo, tokens, elapsed, sleep,
  mine, theirs, wrote, gone, back, losses, transfers,
  interval, local, sent, since, trailing, flight, remote, heard, online, blocked, paused,
  visible, steady,
  up, seated, news, sees, presence, outbox, view, replaced,
  recording, offered, sending, round, presses, tasks, slot, take, held, crossed,
  rows, period, drafts, events, replies, pages, shown, hasMore, loading, generation, loads,
  filled, row_crossed,
  platform, place, pressed, swapped, readable, down, last, beat, hook, mouse_x, mouse_y,
  mouse_pending, read_x, queue, at, buttons, due, button_crossed,
  taskbarVisible, running, posted, window_visible, tool, skip, deleted, stale, given,
  now, stamp, directory, alive, grown, watching, hooked, dialog, dialogs, restarted, ahead

cloudflareVars == <<ready, owner, old, wire, socket_client, socket_online, quiet>>
frontVars == <<stage, peer, client, count, failures, account>>
reconnectVars == <<status, attempt, delay, quota, starts>>
bytesVars == <<scheme, host, data, written, split, head, first, rested, hasty, channel, buffer, answer>>
loopVars == <<doing, after, reliable, mail, asked, fresh, route, writable, todo, tokens, elapsed,
              sleep, mine, theirs, wrote, gone, back, losses, transfers>>
pulseVars == <<interval, local, sent, since, trailing, flight, remote, heard, online, blocked,
               paused, visible, steady>>
presenceVars == <<up, seated, news, sees, presence, outbox, view, replaced>>
voiceVars == <<recording, offered, sending, round, presses, tasks, slot, take, held, crossed>>
viewVars == <<rows, period, drafts, events, replies, pages, shown, hasMore, loading, generation,
              loads, filled, row_crossed>>
pointerVars == <<platform, place, pressed, swapped, readable, down, last, beat, hook, mouse_x,
                 mouse_y, mouse_pending, read_x, queue, at, buttons, due, button_crossed>>
taskbarVars == <<taskbarVisible, running, posted, window_visible, tool, skip, deleted, stale, given>>
recoveryVars == <<now, stamp, directory, alive, grown, watching, hooked, dialog, dialogs,
                  restarted, ahead>>

Cloudflare == INSTANCE CloudflarePair WITH client <- socket_client, online <- socket_online
Front == INSTANCE RelayFront
Backoff == INSTANCE Reconnect
Bytes == INSTANCE FirstBytes
Loop == INSTANCE SendLoop
Pulse == INSTANCE PetPulse
Presence == INSTANCE PresenceSync WITH mine <- presence
Voice == INSTANCE VoiceNote
View == INSTANCE ChatView WITH news <- events, crossed <- row_crossed
Mouse == INSTANCE Pointer WITH held <- buttons, crossed <- button_crossed
Bar == INSTANCE Taskbar WITH visible <- window_visible
Restart == INSTANCE Recovery WITH writable <- directory, offered <- dialog, since <- restarted

ASSUME Assumptions ==
  /\ Cloudflare!CloudflareAssumption /\ Front!FrontAssumption /\ Backoff!ReconnectAssumption
  /\ Bytes!FirstBytesAssumption /\ Loop!SendLoopAssumption /\ Pulse!PulseAssumption
  /\ Presence!PresenceAssumption /\ Voice!VoiceAssumption /\ View!ViewAssumption
  /\ Mouse!PointerAssumption /\ Bar!TaskbarAssumption /\ Restart!RecoveryAssumption

RealSteps == <<1, 2, 5, 10, 30>>
OneOverlay == <<main>>

\* A part that does not move begins in one state only.
Idle(p, state) == IF part = p THEN TRUE ELSE state

Init ==
  /\ part \in {"cloudflare", "front", "reconnect", "bytes", "loop", "pulse", "presence", "voice",
               "view", "pointer", "taskbar", "recovery"}
  /\ Cloudflare!Init /\ Front!Init /\ Backoff!Init /\ Loop!Init /\ Voice!Init
  /\ Idle("bytes", scheme = "wss" /\ host = "name" /\ data = <<"x">>) /\ Bytes!Init
  /\ Idle("pulse", interval = 4 /\ blocked = FALSE) /\ Pulse!Init
  /\ Idle("presence", presence = "active") /\ Presence!Init
  /\ Idle("view", rows = <<>>) /\ View!Init
  /\ Idle("pointer", platform = "other" /\ place = <<0, 0>> /\ swapped = FALSE) /\ Mouse!Init
  /\ Idle("taskbar", window_visible = [w \in Windows |-> TRUE]) /\ Bar!Init
  /\ Idle("recovery", now = 0 /\ directory = TRUE) /\ Restart!Init

Moves(p) == part = p /\ UNCHANGED part
edgeVars == <<cloudflareVars, frontVars, reconnectVars>>
linkVars == <<bytesVars, loopVars, pulseVars>>
windowVars == <<presenceVars, voiceVars, viewVars>>
shellVars == <<pointerVars, taskbarVars, recoveryVars>>

NextCloudflare == Moves("cloudflare") /\ Cloudflare!Next /\ UNCHANGED <<frontVars, reconnectVars, linkVars, windowVars, shellVars>>
NextFront == Moves("front") /\ Front!Next /\ UNCHANGED <<cloudflareVars, reconnectVars, linkVars, windowVars, shellVars>>
NextReconnect == Moves("reconnect") /\ Backoff!Next /\ UNCHANGED <<cloudflareVars, frontVars, linkVars, windowVars, shellVars>>
NextBytes == Moves("bytes") /\ Bytes!Next /\ UNCHANGED <<loopVars, pulseVars, edgeVars, windowVars, shellVars>>
NextLoop == Moves("loop") /\ Loop!Next /\ UNCHANGED <<bytesVars, pulseVars, edgeVars, windowVars, shellVars>>
NextPulse == Moves("pulse") /\ Pulse!Next /\ UNCHANGED <<bytesVars, loopVars, edgeVars, windowVars, shellVars>>
NextPresence == Moves("presence") /\ Presence!Next /\ UNCHANGED <<voiceVars, viewVars, edgeVars, linkVars, shellVars>>
NextVoice == Moves("voice") /\ Voice!Next /\ UNCHANGED <<presenceVars, viewVars, edgeVars, linkVars, shellVars>>
NextView == Moves("view") /\ View!Next /\ UNCHANGED <<presenceVars, voiceVars, edgeVars, linkVars, shellVars>>
NextPointer == Moves("pointer") /\ Mouse!Next /\ UNCHANGED <<taskbarVars, recoveryVars, edgeVars, linkVars, windowVars>>
NextTaskbar == Moves("taskbar") /\ Bar!Next /\ UNCHANGED <<pointerVars, recoveryVars, edgeVars, linkVars, windowVars>>
NextRecovery == Moves("recovery") /\ Restart!Next /\ UNCHANGED <<pointerVars, taskbarVars, edgeVars, linkVars, windowVars>>

Next ==
  \/ NextCloudflare \/ NextFront \/ NextReconnect
  \/ NextBytes \/ NextLoop \/ NextPulse
  \/ NextPresence \/ NextVoice \/ NextView
  \/ NextPointer \/ NextTaskbar \/ NextRecovery

vars == <<part, edgeVars, linkVars, windowVars, shellVars>>
Spec == Init /\ [][Next]_vars

\* Type correctness of the twelve.
TypeOK ==
  /\ Cloudflare!TypeOK /\ Front!TypeOK /\ Backoff!TypeOK
  /\ Bytes!TypeOK /\ Loop!TypeOK /\ Pulse!TypeOK
  /\ Presence!TypeOK /\ Voice!TypeOK /\ View!TypeOK
  /\ Mouse!TypeOK /\ Bar!TypeOK /\ Restart!TypeOK

\* On the Cloudflare relay two devices that reconnect, are refused and have
\* their sockets closed late end up with the truth about each other
\* (announceOffline in pair.ts).
PresenceAgrees == Cloudflare!PresenceAgrees

\* The table of failed handshakes, looked at late and swept, refuses an address
\* exactly when it owes too much (note_handshake_failure in relay.rs), and a
\* client that only reconnects by itself (backoff in manager.rs) is never
\* refused, as handle in server.rs assumes.
FailuresCounted == Front!OwedExactly /\ Backoff!OwnRetriesAllowed

\* The bytes of a connection arrive in order, the first of them apart where a
\* proxy needs that (SplitFirstWrite in client.rs), and the relay's reader
\* stops exactly behind the head (http.rs).
FirstBytesHold == Bytes!SplitHolds /\ Bytes!HeadIsExact

\* No text disappears between the queues of the session's loop, and none
\* overtakes another (flush and live in manager.rs).
TextsAccounted == Loop!TextsAccounted

\* The sleep for the next chunk ends with a chunk, not with another sleep of
\* length zero (wait_duration in manager.rs).
WakesToSend == Loop!WakesToSend

\* What the peer sees of this cat settles to what it is: pressed while it is
\* pressed, where the pointer is, active or away (usePairActivity.ts,
\* keepAlive.ts, usePairState.ts).
PeerSees == Pulse!MirrorsHeld /\ Pulse!MirrorsPointer /\ Presence!PeerKnowsNoticed

\* Once the voice commands have been answered the window offers the draft that
\* Rust holds and no microphone is open behind its back, but for a failure of
\* another command (usePairVoice.ts, useChatVoiceBridge.ts).
VoiceSettles == Voice!OfferedIsHeld /\ Voice!MicrophoneShownUncrossed

\* The chat window shows what is stored, whichever of pages, events and answers
\* came first (usePairChat.ts).
ShownIsStored == View!ShownIsStored

\* The pages have the pointer and the buttons as they are two beats after they
\* came to rest (device/mod.rs, device/pointer.rs).
PointerAgrees == Mouse!PointerAgrees

\* The windows have a button in the taskbar when the switch says so
\* (plugins/window).
SwitchHolds == Bar!SwitchHolds

\* Two automatic restarts are never closer than the window (recovery.rs).
RestartsApart == Restart!RestartsApart
=============================================================================
