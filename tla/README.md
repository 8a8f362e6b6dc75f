# A verification of BongoCat's pair mode

BongoCat is a desktop pet. Its *pair mode* connects two desktops: the pets see
each other's presence, and the two people exchange text, files and voice. This
directory holds TLA+ models of the parts of pair mode where order, failure and
concurrency decide whether it is correct, the TLC runs that check them, and
machine-checked proofs of the main results. Paths below are relative to the
repository.

## 1. Inventory

### Components, state, operations

| Component | Source | State | Operations |
|---|---|---|---|
| Relay, session layer | `server-relay/src/relay.rs` | rooms (clients, pending reservations, tier, key, IP), token buckets, key budgets, public rooms per IP, one outbound queue per connection | `reserve`, `release`, `admit`, `serve` (read loop, writer task), `allow`, `forward`, `drop_peer`, `broadcast`, `sweep` |
| Relay, HTTP front | `server-relay/src/server.rs`, `http.rs`, `auth.rs` | handshake and connection permits, table of failed handshakes | accept, read the head, authenticate, reserve, take a permit, serve, charge a failure, sweep |
| Relay on Cloudflare | `server-cloudflare/src/pair.ts` | the sockets of one Durable Object with their attachments | `fetch`, `webSocketMessage`, `webSocketClose` |
| Pair session | `src-tauri/src/core/pair/manager.rs`, `client.rs` | sender, generation, waiting snapshot, command channel; in the task: queues, pacers, backoff | `start`, `disconnect`, `run_session`, `live`, `flush`, `fail_hard` |
| Chat | `manager.rs`, `history.rs` | the rows of SQLite and their status, the record period, recently seen envelopes | `send_chat`, `deliver_chat`, `resend_pending_chat`, handling of `chat.text` and `chat.ack`, `start_new_epoch`, pages |
| File transfer | `manager.rs`, `transfer.rs` | one session per transfer, slots, files on disk | offer, accept, chunk, complete, cancel, retry |
| Direct leg | `p2p.rs`, `link.rs`, `manager.rs` | negotiation, two data channels, open and verified flags, probes | hello, offer, answer, retry, open, verify, fall back |
| Manual codes | `manager.rs`, `manual.rs`, `p2p.rs` | phase, role and session number; codes in the users' hands | offer, join, answer, expire, fail |
| Voice | `audio.rs`, `usePairVoice.ts`, `useChatVoiceBridge.ts` | recorder, draft, the window's flags and its queue of commands | press, release, send, cancel |
| Front end | `src/composables`, `src/utils` | pulse of the pet and its expiry, presence, the chat window's pages, lit keys and their timers | |
| Desktop shell | `src-tauri/src/core/{device,recovery,gamepad}`, `plugins/window` | the pointer's atomics, the restart stamp, the taskbar switch, the gamepad flag | |
| Cryptography, secrets, STUN | `crypto.rs`, `e2e.rs`, `secret.rs`, `stun.rs` | stateless or a key store | derive, seal, open, answer |

### How they interact

Each desktop's session task opens a WebSocket to the relay, which authenticates
it by token, puts it in the room of the pair and answers `server.welcome`. From
then on the relay forwards binary frames, encrypted end to end, to the other
client of the room, and tells each side when the other comes and goes
(`server.peer`). The relay stores nothing. On the desktop, Tauri commands run on
a thread pool; they write SQLite directly, and talk to the session task through
an unbounded channel. The session task is the only reader of that channel and of
the socket. Frames that could not be sent wait in a bounded queue across
reconnections. `server.peer online` (or a welcome that says so) triggers the
resend of undelivered messages. The direct leg takes over the frames once it is
open and verified; on the public tier it is the only way for data. The windows
(TypeScript) see all this through events and answers to commands, which overtake
one another.

### What is hard

* The relay releases its lock between `reserve` and `admit`, and between taking a
  forwarding snapshot and using it; clean-ups run after successors have
  registered; one critical section evicts, notifies (which may evict further and
  sweep the room) and registers.
* Presence is sent with `try_send` into bounded queues and never repeated.
* Chat commands and the session task touch the same row; the record period is
  changed in three separately locked statements.
* Frames and acknowledgements are lost, sent twice (a failed send may have left),
  and outlive restarts; the queue drops its oldest frame.
* Start, stop, reconnect and fatal errors of sessions race with each other.
* Frames of one transfer travel over two legs; a leg dies half way.
* Failure reports of an old round of the direct leg arrive in the next one.
* Timers in `select!` start anew with every other event.
* In the windows, every `await` is a gap in which events and further clicks come.

`PROJECT.json` lists every hazard at its line, with the properties that would
catch it.

### What makes each component correct

* Relay: a room is a pair of different devices; a room exists exactly while
  somebody holds it; the places (tier, key, public IP) are neither lost nor
  handed out twice; a connection taken out ends; both sides end up with the
  right presence; an honest sender is never cut off for its rate, and an address
  is kept out exactly while it owes failures.
* Chat: a message is shown at most once; a double tick never lies; a stored
  message arrives once both sides stay online; no text is lost between queues;
  the window shows what is stored.
* Session: at most one is current; one that is let go ends.
* Transfer: what is shown as delivered or received is there; the end never
  overtakes chunks unless something was lost; without a lost connection every
  transfer ends on both sides and frees its slots.
* Direct leg: the offerer always has something that begins the next round; a leg
  that has heard the other comes up; nothing goes over an unverified leg or, on
  the public tier, over the relay; no message waits beside a proven leg.
* Manual codes: two users never both wait as guests; no phase lasts for ever.
* Client: keys, pointer, presence, microphone and taskbar button show what is
  the case; the program never restarts itself in a loop.

## 2. Modules

| Module | What it is | Source |
|---|---|---|
| `RelayRoom` | the session layer of the relay: all operations on rooms, queues, readers and writers | `relay.rs` |
| `SessionLease` | abstract: what the relay promises about its places | |
| `FramePacing` | one sender's buckets, the key's budget and the wait for it, TCP's backlog | `relay.rs`, `protocol.rs` |
| `RelayFront` | a handshake's permits and the table of failures | `server.rs`, `relay.rs` |
| `Reconnect` | one client's backoff against the relay's account of failures | `manager.rs`, `relay.rs` |
| `FirstBytes` | the first write of a connection split for a proxy, and the head's reader | `client.rs`, `http.rs` |
| `CloudflarePair` | the Durable Object of a pair | `pair.ts` |
| `ChatDelivery` | one direction of text chat: A's commands, store, session; the wires; B's session | `manager.rs`, `history.rs` |
| `Mailbox` | abstract: what the chat promises | |
| `DirectGate` | probes and flags of the direct leg, and the way a message takes | `manager.rs`, `link.rs` |
| `PairLeg` | how the direct leg of two devices comes up | `p2p.rs` |
| `ManualSession` | pairing by codes carried by hand | `manager.rs`, `manual.rs`, `p2p.rs` |
| `PairSession` | sender, generation and snapshot under overlapping commands | `manager.rs` |
| `SendLoop` | the queues, pacers and the select of `live` | `manager.rs` |
| `Transfer` | attachments over two legs | `manager.rs`, `transfer.rs` |
| `VoiceNote` | the voice button, the chat window's, their queue of commands and the recorder | `usePairVoice.ts`, `useChatVoiceBridge.ts`, `audio.rs`, `pair/mod.rs` |
| `ChatView` | the chat window's pages, events and answers | `usePairChat.ts`, `history.rs` |
| `PetPulse` | what the peer sees of a cat: repetition, trailing change, expiry | `usePairActivity.ts`, `keepAlive.ts`, ... |
| `PresenceSync` | presence on the peer's arrival | `usePairState.ts` |
| `KeyLights` | keys that are lit, release timers, probes | `keyAutoRelease.ts`, `useDevice.ts`, `device/mod.rs` |
| `Pointer` | hook thread and sampling thread | `device/mod.rs`, `device/pointer.rs` |
| `Taskbar` | the taskbar switch, its queued command, the window's style | `plugins/window` |
| `Recovery` | the automatic restart and its stamp | `recovery.rs` |
| `RelayRoomProofs`, `ChatDeliveryProofs`, `TransferProofs`, `PairLegProofs`, `MCLinksProofs`, `MCClientProofs`, `MCPartsProofs`, `MCWindowsProofs` | theorems (section 4) | |
| `MCRelayRoom`, `MCRelayAdmission`, `MCRelayFrames`, `MCTransfer` | instances for TLC | |
| `MCLinks`, `MCClient`, `MCParts` | sums: several modules in one run (section 3) | |

### RelayRoom

A connection task has a `phase`: `new`, `reserved` (after `reserve`), `admitted`
(after `admit`), `reading`, `allowed` (a frame passed `allow`), `forwarding`
(holds a snapshot of targets), `dropping`, `done`, or `panicked`. `founder[r]` is
the connection whose reservation made room `r` (it carries the room's verifier,
tier, key index and IP), `pending[r]` its reservation count, `perIp` the public
rooms per address, `reg` the registered entries, `elder` the order of their ids
inside a room, `old` the entries beyond `stale_after`, `buckets` the rate
buckets' keys, `queue`/`wr` the outbound channel and its writer. `belief` and
`misled` record what a client was told about its peer; they are observations, and
no guard reads them.

All rooms are behind one tokio mutex, so each method that takes the lock is one
action: `Join`, `Found`, `Reject` (`reserve`), `Release`, `AdmitFull`,
`AdmitAccept`, `AdmitPanic` (`admit`), `Snapshot` (`touch` and the locked half of
`forward`), `Send`/`GiveUp` (its unlocked half), `DropSelf`, `WelcomeFails`
(`drop_peer` and the end of `serve`). `broadcast` with its worklist is folded into
those that call it: since a room has two clients, a notice that finds its only
receiver stalled leaves nobody else to tell, except the newcomer in `admit`
(`LostSecond`). Rate limits, illegal frames, the idle timer and the key budget are
all `Refuse`.

`admit` is one critical section with an order inside that matters, so its parts
are named: `Closed` queues the Close frames of the replaced and the stale
connection, `QueueTold` tells the survivor that the stale device left,
`LostFirst` is the survivor if that notice found it stalled, then the newcomer
is registered, and `QueueAdmitted` tells the survivor that it is online and the
newcomer if the survivor is lost only then (`LostSecond`).

### ChatDelivery

A `send_chat` is four steps, because each takes a lock of its own: `ReadEpoch`,
`Insert`, `Enqueue`, `MarkSent`. `NewEpoch`, `CarryOver`, `DeleteOld` are
`start_new_epoch`. The session task of A is `off`, in `backoff` or `live`; `chan`
is its command channel, `queue` its reliable queue, `wakes` the online notices it
has not read. `Resend` (`resend_pending_chat`) is part of `ConnectA` and
`PeerOnline`, `retry_dropped_chat` of `QueueCommand`. An envelope is a pair of
message and wrapping count, because every wrapping has a fresh envelope id and
B's `recent` compares those. `toB` and `toA` are all the frames between the two
session tasks: `FlushFails`, `LoseA`, `LoseB`, `AckFails` and the stops lose a
suffix of them, `DropToA` and `DropToB` (the relay finds no receiver) a prefix. A
`StopA(TRUE)` is the end of the program: its commands end where they are.

### Abstract specifications

`SessionLease` knows holders and labels: opening a session that nobody holds
needs a free place under each of its labels, joining a held one needs none, and
the last holder gives the places back in the same step. `RelayRoom` implements it
with holders = clients and reservations of a room (`LeaseSpec`). It implies that
no tier, key or address ever exceeds its limit, and also that a limit never
blocks the second person, and that no place leaks.

`Mailbox` has the kept messages, how often each was shown, and the ticks; its
`Tick` may set or clear any tick of a shown message (the code does lose ticks, see
`chat_race`), never one of a message that was not shown. `ChatDelivery`
implements it (`MailboxSpec`).

### The other modules

* `Transfer`: an attachment has a state on either side, frames under way per leg,
  and files on disk. `transfer.offer`, the question to B's user, acceptance, the
  chunks, the end, `cancel` and `retry_attachment` are the actions; a leg that is
  lost takes frames along; slots bound both sides.
* `DirectGate`: per channel, whether it is open and verified and whether a probe
  is out. Three tasks read the flags at different times: the commands' threads
  (the published status), `flush`, and the probes' timers; on the public tier a
  message waits for the events that say that the leg is usable.
* `PairLeg`: a connection is a number, a description the number of the connection
  that made it, and two connections open when each has the other's.
* `PairSession`: a command is the list of the accesses it has still to make
  (`todo`): `cancel_current` is *take, clear, outdate, tell*, and a start adds
  *install, renew, spawn*. Each access is one lock, hence one step; a session task
  is a program of the same kind.
* `SendLoop`: each branch of the `select!` of `live` is an action, and ends in
  `Select`, which computes the sleep for the next chunk anew as the code does.
  The pacers are refilled only when they are asked. They begin with the client's own
  bursts; a welcome's limits clamp what they hold and do not fill it up (`Retuned`).
* `ManualSession`: a code is its kind, author and session; it stays with the users
  until it expires, whether or not its author still waits for it.
* `FramePacing`, `SendLoop`, `PetPulse` and `KeyLights` have discrete time. `Tick` is
  enabled when nothing that the program does at once is left to do; what the
  network or the operating system answers may take a bounded number of ticks.
  `RelayFront`, `Reconnect` and `Recovery` only need time to pass, now or later.
* `ChatView`: rows, answers under way and events under way arrive in any order;
  `generation` is the counter by which an answer about earlier records is known.
* `VoiceNote`: the window's flags, its queue of commands, and the recorder with
  its draft; a command that has failed reports when others have begun. The chat
  window works the same recorder by a copy of the state that comes late
  (`useChatVoiceBridge.ts`), so `Send` and `Cancel` have only the guards of the code
  that runs in the end, not the conditions under which a button is shown: a send may
  be asked for while a new recording is under way.
* `Pointer`: x, y and the flag are three stores of one thread and three accesses
  of another, each a step.
* `Taskbar`: the switch is stored, its command queued, the style written, by three
  threads; a shell that restarts makes its windows' buttons anew.
* `FirstBytes`: the head and what follows it byte by byte, because the split and
  the reader are about single bytes; writes may take less than they are given.

## 3. Runs

Seven runs pass, five show a disagreement (section 6).

| Run | Instance | Shows |
|---|---|---|
| `relay_room` | 1 room, 4 connections, 3 devices (one comes twice), queue of 1 | `PairHolds`, `PresenceSettles`, `BucketsMatch` |
| `relay_admission` | 3 rooms, 3 connections, 7 handshakes; 1 full and 2 public places, 1 per key, 1 per IP, 2 reservations per room | `RoomHeld`, `PerIpExact`, `LeaseSpec` |
| `chat` | 2 messages, queue of 1, 1 fault, 1 new record period | `MailboxSpec`, `NothingStranded` |
| `transfer` | 2 requests for 2 attachments (2 chunks and a question; empty), 1 fault | types, `StatusIsTrue`, `CalmHolds` (`GapNeedsLoss` and `NothingHangs`), `CalmEnds` |
| `client` | sum of `PairSession`, `PairLeg`, `ManualSession`, `KeyLights` | types, `OneCurrent`, `LegGoesOn`, `NotBothGuests`, `KeysLit`, `AbandonedEnds`, `HeardComesUp`, `PhaseEnds`, `GoesDark` |
| `links` | sum of `RelayRoom`, `ChatDelivery`, `DirectGate`, `FramePacing` | types, `LegHolds`, `HonestPasses`, `EjectedEnds`, `Arrives`, `Unstranded`, `FrameEnds` |
| `parts` | sum of the other twelve modules | types, `PresenceAgrees`, `FailuresCounted`, `FirstBytesHold`, `TextsAccounted`, `PeerSees`, `VoiceSettles`, `ShownIsStored`, `PointerAgrees`, `SwitchHolds`, `WakesToSend`, `RestartsApart` |
| `relay_panic`, `leg_hello`, `voice_mic`, `chunk_starved`, `chat_race` | small instances | one disagreement each |

### Sums

`MCClient`, `MCLinks` and `MCParts` are sums, not compositions: the initial state
chooses one part (`part`), and only that part ever moves. The others stay in one
initial state (`Idle`). The reachable states are the disjoint union of those of
the parts, so an invariant of the sum is exactly that invariant of its part, and
one run answers what a run per module would. Fairness is stated per part, with
the part's own variables as subscript, and only while it is the part that moves
(`Of`); for a part that does not move nothing is ever enabled. Where two parts
use one name for a variable, the instance gives one of them a longer name.
Some properties name two of a module, because they are two halves of one
statement (`KeysLit`, `PeerSees`, `VoiceSettles`, `FailuresCounted`).

The modules that really interact do so inside one module: `RelayRoom` has clients
and relay, `ChatDelivery`, `Transfer`, `PairLeg` and `ManualSession` both devices
and the wire, `FramePacing` and `Reconnect` the client and the relay's account.

Distinct states of the parts alone:

| Part | States | Part | States |
|---|---|---|---|
| `ChatView` | 1 118 582 | `PairSession` and `PairLeg` | 210 957 |
| `ChatDelivery`, 1 message, 3 faults | 728 022 | `FirstBytes` | 156 720 |
| `PetPulse` | 473 442 | `RelayFront` | 64 380 |
| `SendLoop` | 277 267 | `Pointer` | 57 376 |
| `KeyLights` | 233 627 | `Recovery` | 36 200 |
| `Taskbar` | 225 778 | `ManualSession` | 32 791 |
| `DirectGate` | 220 040 | `FramePacing` | 32 065 |
| `CloudflarePair` | 30 828 | `RelayRoom` with frames | 24 314 |
| `VoiceNote` | 28 870 | `PresenceSync`, `Reconnect` | 2 068, 501 |

### Bounds, and why they are enough

* **Connections.** Every conflict in a room needs at most the pair, the
  connection that replaces or evicts, and one late clean-up: four. `relay_room`
  fixes which connection is of which device (`Comers`), up to symmetry the only
  interesting split. Data frames are sent only between the first two connections,
  and a writer fails only as its connection ends (`Bound`); `links` has every step
  of two connections. Two
  connections over one queue slot already fill a queue.
* **Queues of length 1.** A full queue is what matters; the code's 32 and 8 need
  more frames to get there, nothing else changes.
* **Admission.** Three connections over three rooms compete for one full place
  and two public ones; one shared IP, two keys; a wrong token and a wrong tier
  for an existing room are among the handshakes. Nobody sends data, and an entry
  becomes old only beside a peer (`Bound`).
* **Chat.** Two messages give order, overflow of a queue of one, and a batch of
  two; one fault is any one of seven kinds at any point. Loops of faults (a lost
  acknowledgement after a resend after a crash) are in `links`, with one message
  and three. `MaxEpochs` = 1: one clearing.
* **Transfer.** Two attachments compete for slots, one is asked about and has two
  chunks (so that the second can be overtaken), one is empty (the end without a
  chunk). A fault is a lost connection, a lost leg, a stop or a bad file.
* **Session.** Two command threads, two sessions, four generations: any overlap of
  two commands with a fatal error of the session between them.
* **Leg.** Two lost sessions, two lost rounds or failed builds; two late reports
  and three signals under way are more than a round leaves behind.
* **Direct gate.** Two losses; three events under way, because a loss reports two
  channels and the round, and with two the bound itself would block a report.
* **Manual codes.** Four sessions: both start, both join.
* **Keys.** Two keys, so that one's timer runs while the other is handled, two
  events a tick.
* **Front.** Two connections of two addresses, limit 2, a sweep at 1 entry.
* **Cloudflare.** Two devices and three sockets: one replaces while an old one
  closes late. A third device is in section 6.
* **Sends.** Queue of 1, bursts of two chunks, two texts, one loss, one transfer. A
  pacer starts below the burst that the relay advertises (frames) or above it
  (chunks), so that a welcome clamps one and leaves the other to be filled.
* **Views.** Two rows, pages of one, two periods, three loads, two events under
  way: an answer that is overtaken by an event, and by a clearing and a load.
* **Voice.** Four presses: press and release, and the same again before the first
  has been answered. Six rounds (`MaxRounds`): nothing is cancelled after them, as the
  chat window may cancel without end.
* **Clock of `Recovery`.** Six instants and a window of three: the clock is set
  back or forward across a window.

Scaled times: `FramePacing` ticks half a second, and one of its frames stands for
ten; `SendLoop` ticks about 1/240 s, 60 Hz is 4 ticks and 3 Hz is 12, the wait for
a chunk (16 ticks) is scaled to 5; `PetPulse` ticks 1/12 s; `Reconnect` has the
code's own steps of 1, 2, 5, 10 and 30 s and its own quotas; `Recovery` ticks
`WEBVIEW_READY_SECS`. The ratios that decide (which timer ends first) are kept.

Deadlock checking is off in all of them: the systems legitimately come to rest
when every connection is done, every message delivered and the budgets used.

**Symmetry** is used only in runs of safety properties and only over
connections and devices that the instance treats alike.

### Fairness

* `RelayRoom`: weak fairness for the steps of a connection task that wait for
  nobody: noticing the ejection, taking the snapshot, ending, sending or giving
  up on a target (both waits of the code are bounded by timeouts,
  `FORWARD_TIMEOUT` and `WRITER_DRAIN_TIMEOUT`), and the welcome. Clients, the
  network and writers are not fair.
* `ChatDelivery`: weak fairness for a session task that has a command, a queued
  frame, a notice or an acknowledgement (`SessionA`), for B's reading, for
  reconnecting out of backoff (the loop of `run_session` never gives up), and for
  going on with a command that has begun. Users need not write, connect or clear,
  and faults need not happen. `Arrives` assumes that both devices stay online:
  without that nothing can be promised.
* `Transfer`: both sessions read what arrives, send the next chunk, verify, and
  notice a lost leg. B's user need not answer: a question may stay open.
  `CalmEnds` speaks of transfers no connection was lost under (section 5). That the
  next chunk is sent in the end is what `chunk_starved` shows to fail at 60 Hz over
  the relay (section 6): `CalmEnds` is about the order and the slots, and holds for a
  loop whose chunks get their turn, as they do at 20 Hz.
* `PairSession`: a thread that has begun finishes, a session connects or gives up,
  and wakes from its backoff. Reading the channel has strong fairness: the
  connection may come and go in between, but the channel is ready long before
  the timers that compete with it.
* `PairLeg`: sessions connect again, the drive loop reads, a connection opens or
  times out. `ManualSession`: the leg's timers expire; users owe nothing.
* `DirectGate`: threads, the session's loop, the timers of the probes, and the
  arrival of what is on a live channel.
* `FramePacing`, `KeyLights`, `SendLoop`: time passes, and the relay's loop, the
  timers and the session's loop run.

### Form of the liveness properties

`EjectedEnds`, `Arrives`, `AbandonedEnds`, `HeardComesUp`, `PhaseEnds` and others
are written `[]<>(P => Q)`. Where Q, once true, stays true as long as P does, and
P stays true until Q, that is the same as `P ~> Q`: a behaviour that violates the
latter has P and never Q from some point on. Where P may end before (an ejected
connection, both being online), it excuses, as `P ~> (Q \/ ~P)` would. TLC
checks the form with one branch of its tableau per property.

## 4. Proofs

A theorem holds for every value of the constants that the named assumptions
admit: any finite set of connections, any number of messages, chunks, keys and
callers, and all limits and bounds on faults. Each safety argument has the same
shape: an inductive invariant stronger than what is to be shown, `Init => Inv`, a
lemma per action for `Inv /\ [Next]_vars => Inv'`, and `Inv => Property`. The
assumptions are `ASSUME`s of the module itself, which TLC evaluates in each run,
or, in modules that the sums only instantiate, operators (`LegAssumption`, ...),
which the sums assume.

| Module | About | Properties of the runs it states | More |
|---|---|---|---|
| `RelayRoomProofs` | `RelayRoom` | `RoomHeld`, `PairHolds`, `BucketsMatch`, `PresenceSettles`, `PerIpExact`, `LeaseSpec` | types, `PendingExact`, reconnections, late cleanups, the limits |
| `ChatDeliveryProofs` | `ChatDelivery` | `MailboxSpec`, `NothingStranded` | types, frames on their way |
| `TransferProofs` | `Transfer` | `TypeOK`, `StatusIsTrue`, `CalmHolds` | `DeliveredIsWhole` and `ReceivedHasFile`, `GapNeedsLoss` and `NothingHangs`, their halves; the joint invariant |
| `MCLinksProofs` | `MCLinks` | `TypeOK`, `LegHolds`, `HonestPasses` | `SteadyHolds`, the third part of `LegHolds` |
| `MCClientProofs` | `MCClient` | `TypeOK`, `OneCurrent`, `LegGoesOn`, `NotBothGuests`, `KeysLit` | types of the session |
| `PairLegProofs` | `PairLeg` | (through `MCClientProofs`: `LegGoesOn`) | types |
| `MCPartsProofs` | the relays, the session's loop, the process and the peer's view in `MCParts` | `TextsAccounted`, `WakesToSend`, `FirstBytesHold`, `FailuresCounted`, `RestartsApart`, `PeerSees`, `PresenceAgrees` | |
| `MCWindowsProofs` | this device's windows in `MCParts`, and the types of all its parts | `PointerAgrees`, `VoiceSettles`, `SwitchHolds`, `ShownIsStored`, `TypeOK` | |

### The relay

* `TypeCorrect`: types, including that counts never go below zero.
* `HeldInvariant`, and from it `PendingIsExact` and `RoomIsHeld`. The inductive
  invariant is `TypeOK /\ PendingExact /\ RoomHeld`: neither of the last two is
  inductive alone. A sweep deletes a room whose count is 0, which is right only
  because the count is the number of reservations; and the count of a room is
  only known to be kept because the room of a reservation is still there. A
  consequence is that the branch of `admit` that makes a vanished room again is
  dead code.
* `PairsHold`, by itself inductive over types: the admission case needs that
  after leaving out one's own entry and the stale one, fewer than two others
  remain.
* `ReconnectsNeverFull`, from `PairsHold`: among two clients of different devices
  one's own leaves at most one other.
* `BucketsAlwaysMatch`, with the strengthening `Registered` (an entry's task is
  between admission and its end): otherwise a task could be admitted or panic
  while it is still registered.
* `LateCleanupsHarmless`, an action property over `TypeOK`: every path that ends a
  dropping connection is its own `drop_peer`.
* `PresenceAlwaysSettles`: what a client will believe once its queue is drained is
  what its room has. It is inductive together with `PairHolds` (whom a notice has
  to reach is one client), `Registered`, and `Unheard`: nothing waits for a
  connection before its admission, so the welcome is the first that it hears. The
  steps are of two kinds: one that changes who is in the room queues a notice for
  the one who stays, or closes its queue, or (the welcome that comes too late)
  makes it `misled`; any other leaves the last notice in the queue the last.
* `PerIpIsExact`, over `HeldInvariant`: the table counts the public rooms of each
  address. A room is opened where there was none and swept only where it is, so
  `saturating_sub` never hides a lost count.
* `RoomsAreLeases`: `Spec => LeaseSpec`. Every action is an `Open`, a `Join`, a `Leave`
  or a stutter of `SessionLease`, whose holders are the clients and the
  reservations of a room. An `admit` may be a leave of several holders (the
  connection it replaces, the stale one, one that its own notice finds stalled)
  but never of the last, because the newcomer is registered in the same step;
  that, and that a room exists while it has a holder, is where `HeldInvariant` is
  needed. `LimitsHold` says in terms of the relay what the implemented
  specification implies: no tier, key or address has more rooms than its limit.

`PendingIsExact`, `ReconnectsNeverFull`, `LateCleanupsHarmless` and `LimitsHold` state
properties that no run repeats.

### The chat

`FramesAreKept` is the invariant `Inv`: an envelope is only ever on its way, in
whichever of the three queues, for a message that A's store has held; an
acknowledgement only for one that B has stored; B shows a message in the step in
which it stores it; and a ticked message has been stored by B. Thread states are
part of it: a `send_chat` that has not inserted its row has none, one that has
does. The numbers of wrappings, which envelopes B remembers, and the periods do
not matter, which is why a restart that forgets the first cannot show a message
twice. `ChatIsMailbox` maps each step: storing is `Mailbox`'s keeping, B's reading of
a new envelope its showing, every way in which A's rows change its ticks.

`NoMessageIsStranded` is the safety half of `Arrives`: while both are online, a row
that B lacks is with its command, in a frame of the channel, the queue or the
wire, or a notice is unread that will have it sent again. It is inductive with `Inv`
and with `RecentIsReceived`: an envelope that B would drop as known is of a message
that it has. A step that loses a frame takes one of the two offline or leaves a notice;
a step that brings both online, or reads the notice, sends a `Batch`, which is all
undelivered rows, because there are no more of them than it may take (a count), so
that the order in which it takes them has a place for each.
That is where `N <= ResendLimit` is needed; without it the statement is false
(section 6).

### The transfer

`Sound` is types and parts that need one another. `TableSound` bounds the tables
and counts and has the file of a received message on disk; `Wired` says that a
frame on its way is of an attempt that a session has taken up; `AskSound` that a request
is taken up once and its number has been given out; `Untouched` that an attempt that
nobody has taken up has left no trace; `QueueDrained` that a connected session has
nothing that waits for a connection. With these `DeliveredIsWhole` is inductive:
`TRANSFER_VERIFIED` is only ever on its way for a message whose file B has had
whole, and nothing else makes a row delivered.

`ReceivedHasFile` and the bound on slots (`Placed`: a table is only entered below
its limit) are conjuncts of `TableSound`.

`GapsNeedLoss` needs `CalmSound`, which describes, for an attempt that has lost
nothing yet (`calm`), the whole of what is on its way: it is pinned to its leg
(`Pinned`), and it is `Offered`, `Deciding` or `Receiving`, where in the last case the
chunks B has, those on its leg, in their order, and those A has still to send
are together all chunks (`InLine`), and the end comes behind them. So an end that
overtakes a chunk needs a leg or a connection that was lost.

`NothingEverHangs` is the safety half of `CalmEnds`. The protocol has no timeout, so
whoever keeps a transfer must have something that moves it on: its user's answer, a
chunk still to be sent, a frame that is there, or a channel that is gone under a leg
that still counts (`CutOff`), whose loss it will notice. By itself this is not
inductive: a verdict that A reads could be the last thing B waits behind, and a
cancel could overtake the offer it cancels. `Going` adds what rules that out.

* `EndedOnB`: a verdict comes to A only when B is through with the transfer and
  has no offer of it left to read, so A may end it in silence.
* `EndedOnA`: a cancel comes to B only when A is through; an offer that comes when
  A is through is on a channel that is gone. The probe's timeout is the step that
  could break this, since the channel may still deliver: such a transfer is no longer
  `calm`.
* `Straight`, `OnLeg`: only what is pinned to the direct leg is on it, and nobody who
  has closed his leg has a transfer on it, so a break concerns exactly the transfers
  that will be given up over the relay, and a new channel finds none.

The proof has one lemma per thing that can happen to a transfer (`SenderEnds`,
`ReceiverBegins`, ...), in terms of the frames of that transfer which a step takes off
a leg and puts on one (`Flows`), and one per step of the module that picks the
lemma for its transfer and leaves the others as they are (`GoingBut`).

### The links

`MCLinks` instantiates `RelayRoomProofs` and `ChatDeliveryProofs`, which add nothing to
what TLC evaluates; so their invariants can be cited in `MCLinksProofs`. The other
two parts:

* `DirectGate`, with `GateSound`: once the relay has let the session in, its tier is
  known, because the welcome that tells it is what makes the session live. That
  is all that `NothingOnRelay` needs; that a frame may have been queued under another
  tier does not matter. `ConnectedHasLeg` is kept by each notice of the leg, in
  whatever order they are read, since each clears or sets the flags and the status
  in one step.
* `DirectGate`, with `GateHeld`, for `NothingWaitsUnseen`, the safety half of
  `Unstranded`: only started messages travel, ticks and acknowledgements are of
  messages that the peer has, and without a round of the leg a channel that counts
  as open has its *closed* under way, behind every *open* (`GateCloses`). So a
  channel is never taken for open on account of a round that has ended, and the
  second proof, which sends everything undelivered again, finds whatever
  was refused or lost.
* `FramePacing`, with `PaceSound`: unless the relay has stopped reading, what is
  under way and what the client could still send are together no more than the
  relay's bucket has, or will have in half a second when the network holds
  frames back (`Ahead`). What a queue of frames costs is a sum, stated without
  recursion: there are numbers, one for each place of the queue, of which each is
  the next one and the cost of its frame (`Sums`). This holds for any limits, prices,
  sizes and budgets, with one assumption on the network: `HoldAssumption`, it
  holds frames back for half a second at most. With a whole second what the
  client has saved (two thirds) and earns meanwhile (two thirds) is more than the
  relay takes at once; so the margin of `RelayLimits::outbound` is for delays below
  half a second only.

### The client

`PairLegProofs` has the two parts of `LegGoesOn`. `RetryArmed` is inductive over the
types it speaks of (`Armed`): each step hands over between a connection, a retry
and a failure report, and none takes the last of them without leaving another. The
assumption that counts is that at least one report fits (`MaxLate` > 0). `RestTypes`
are the other types: a leg holds descriptions of connections only, and a step that sends looks first
whether there is room, so the signals under way pass their bound by one at most.

`RoundGoesOn` is the safety half of `HeardComesUp`: while both devices are there and
the one that offers has heard the other, its round has not come to nothing. Its
offer is under way, or an answer, or it holds a description, or a report of a failure
or a hello will end it. `OneOffers` is what that needs: only the smaller side ever
offers, so no offer is under way to it, and what it is sent besides hellos are
answers that name a connection. The property says itself whom it is for: a side that
answers and fails to build its connection (`Misbuilds`) takes the offer and says
nothing, so with `Large` in `Misbuilds` it is false.

`MCClient` instantiates this module of proofs, which extends the module it is about
and adds nothing to what TLC evaluates; so its lemmas can be cited in
`MCClientProofs`. This has the other three parts:

* `PairSession`: the inductive invariant `GivenOnce` says that no session has a
  generation that is still to come and that no two share one; the program
  counters (`todo`) do not matter, which is why overlapping starts cannot break
  it.
* `ManualSession`, with `OfferIsOwn`: among the offers of the device with the
  smaller id that are neither expired nor given up, there is at most that of the
  session it hosts now, it has been told, and the session has not failed. A
  device joins as a guest only without such an offer (`validate_manual_offer`),
  and every other way out of hosting gives it up. This is more than
  `NotBothGuests` says: it does not matter what the other device does. `Roles` ties
  the phase that the panel shows to what the leg does: *gathering* has a leg that
  gathers and will tell its code, *answer* and *joining* one that checks, and
  *connected* is one that is up. This is the safety half of `PhaseEnds`: each
  phase in which the user only waits has a leg that will end it.
* `KeyLights`, with `Watched`: for a key that is down either its timer runs and its
  age is what the timer has run, or the question of the current round is out,
  for one tick at most, and will be answered *down*; an answer *up* belongs to an
  earlier round, which a press has ended. The limit of the mapper is two ticks
  above the longest round, for every `Delay`, so a key that is down never reaches
  it. `ShownIsLast` needs that deleting a key takes no other away and keeps the
  end of the order (`WithoutKeepsOthers`). `Looked` is about every key that is lit,
  down or not: it has a timer, or the question of its round is out. An answer of an
  earlier round changes neither, because a press has set the timer since; and no
  key is held twice (`LitOnce`), so what is released is dark. That is the safety half
  of `GoesDark`.

`NextIsEach` then gives each part its step or its stutter.

### The parts

`MCPartsProofs` and `MCWindowsProofs` have an inductive invariant for each of the
twelve modules that `MCParts` checks side by side: the first for the relays, the
session's loop, the process and what the peer sees, the second for what this
device's windows show, and the types of all. `StepsOfLoop` and its like say that
a step of the whole is a step of the part or leaves it alone; nothing else joins
them.

* `SendLoop`, `LinedUp` (`NoTextIsLost`): the texts that were written are in what has
  gone out, the reliable queue and the mail, or were given back; each queue rises,
  and each is below the next. That the queues rise *into* one another is the
  strengthening: a flush moves heads between them.
* `SendLoop`, `Saving` (`SleepIsLongEnough`): while the loop selects, what each paying
  bucket has, what has passed since it was refilled, and the sleep are together
  its price. Sends of other things on the way shorten the first and are answered
  by a new sleep.
* `FirstBytes`, `FirstBytesKept`: what is buffered and what is on the wire are the
  first bytes of what was to be written (`InOrder`); the splitter's phase and count
  (`Splitting`); the reader has seen no blank line before its last byte (`Reading`).
* `Pointer`: `Looking` for the platform that polls (the pages have what the sampler
  sent; what changes is due for one beat more than the one that has begun),
  `Hooked` for the hook, whose two stores may have the loop's two reads between them
  in any order (`Resting`, `Moving` name the ways), and `Telling`: folding the queue of
  button events into what the pages have gives what is pressed.
* `RelayFront`, `Owed`: the entry of the table, refilled now, is the account, and an
  address without an entry has a full one; that is why the sweep may forget.
* `Reconnect`, `Paced`: a dial after the *n*-th refusal comes when what the delay
  brings back has caught up with the refusals, so the account only loses what a
  start of the user's and the first two refusals after it cost, nine units at the
  most. This needs the code's own delays and prices, `RealPace`, unlike all the
  others; its last conjunct says that the bound on starts is below what the quota
  pays for, which is what "reconnects by itself" means here.
* `Recovery`, `Stamped`: the file, which may be all that is left of the past, is tied
  to the time that has really passed.
* `VoiceNote`, `Voicing`: the window's commands wait in the order of the presses that
  gave them, and only the first is with Rust (`Queueing`); the draft that is offered
  is the recorder's, unless a command that takes it is on its way (`Offering`); and an
  open microphone is shown, or its start has not reported, or a command waits that
  will end it (`Showing`). The window's own numbers of presses relate the three. The
  exception, `crossed`, is a recording that was hidden by the failure of another
  command than its own start, queued before it or, for a send, behind it.
* `PetPulse`, `Pulsing`: what has not been sent is sent an interval after the last
  change at the latest (`Waiting`, an equation between the timer that runs and what
  has passed), what was sent last is the last under way or has arrived
  (`Delivering`), a repetition is not late (`Punctual`), and a frame that says what is
  the case is on its way or has come and is followed in time (`Spreading`). The
  theorem needs `RealLimits`: an interval and a latency are no longer than what the
  peer waits, and neither are a repetition and a latency. The code's numbers are
  333 ms (or less) and 250 ms against 500 ms for a click, so the latency may be 167 ms;
  `keepAlive.ts` and `usePairState.ts:38-45` argue the same way.
* `PresenceSync`, `Informing`: between two connected devices one of three holds: an
  edge of `peerOnline` is still to come, which queues the presence; or the last in the
  queue is the presence; or a frame under way (or the window already) has it and
  nothing behind it does harm (`Known`). `Noticing` is what makes an edge certain: the
  last notice is about the seat as it is.
* `CloudflarePair`, `Announced`: a client that will believe its peer to be away is
  right, and one that will believe it there is right unless a socket of the peer has
  still to be closed, whose close will tell it (`Truth`). `TwoIds`, at most two
  devices, is the hypothesis: with a third the property is false (section 6).
  `MCParts` has two, and any number of sockets is allowed.

* `Taskbar`, `Switched` (`ButtonsFollowSwitch`): every command's steps are `Orderly`, a
  word to a window is followed by what completes it; and of each overlay the last
  word on its way about hint (`HintSaid`) and style (`StyleSaid`) is the switch's, or a
  running command has it still to say (`Comes`), or nothing is on its way and the
  window is as it should be. `stale` is what escapes: a word that was out of date
  when it was posted. The steps of a command for all windows are a concatenation
  over the overlays, which is reasoned about by a least counterexample.
* `ChatView`, `Viewing` (`WindowShowsDatabase`): what is under way about a row has its
  status, and what the window shows of it is right or will be told (`UpToDate`); a
  page that has been read has all that it was asked for or the newest of it
  (`Paged`); the window waits for one page, which joins what it shows (`Asking`). While
  no reset is under way, a window that has had its latest page lacks a current row
  only below what it shows or when it is going to be told (`Filled`). The rows whose
  answer and event crossed are left out (`Settled`), as in the property.
* The types (`PartsAreTyped`) are more than ranges: a permit of the front is a
  reader's, so their number is within the limit by a count of readers; a pacer
  has no more than its burst; a backoff's delay is one of the table's, the last at
  the most; the window's numbers of presses are below the next.

These asked two things of the modules themselves: that there is a longest interval
(`PulseAssumption`), and that `Nobody` is nobody's id (`CloudflareAssumption`).

### Only model-checked

Every safety property of the passing runs is proved. Out of the prover's reach are all
liveness properties and `ENABLED`, hence every statement under fairness (`Arrives`,
`HeardComesUp`, `AbandonedEnds`, `CalmEnds`, `PhaseEnds`, ...), including that part of
`Mailbox` which says that a message arrives. Of `Arrives`, `Unstranded`,
`CalmEnds`, `HeardComesUp`, `PhaseEnds` and `GoesDark` the safety half is proved: what
would have to bring the message, end the transfer, the round or the phase, or put the
key out, is there. Induction over
numbers is done where it is needed by the least counterexample (`LeastOf`), since
the library's induction theorems take an operator as a parameter.


## 5. Faithfulness notes

**Relay.**
* `PresenceSettles` excludes `misled` clients: `admit` computes `peer_online` before
  its own stale notice finds the only peer stalled, so that the welcome says
  *online*, and nothing corrects it until the next notice.
* `perIp` is a total function; an absent key of the table is 0.
* `touch` and the locked part of `forward` are two lock acquisitions in one step;
  `touch` changes only `last_seen`.
* `RelayFront`: a handshake that is refused is charged like one that fails
  (`server.rs:657-658`), although `relay.rs:283-284` and `1743-1747` say it is not.
* `Reconnect`: two devices behind one address share the account. Every 429 is
  charged again. A close with 4006 or 1008 after the upgrade counts as a
  connection, so the backoff begins anew and the client reconnects every second;
  a replaced client (4002) reconnects too.
* `HonestPasses` excludes a relay that had itself stopped reading (`delayed`), see
  section 6.
* `CloudflarePair`: in `parts` there are two devices only, see section 6.
* `FirstBytes`: a connection that ends early is left out; whether a head parses is
  a free choice.

**Chat.**
* A frame on A's side can be sent twice with the same envelope id (`FlushFails`);
  B's `recent` ignores the second without acknowledging. `Arrives` shows that this
  is repaired by the next resend.
* `ConnectB` sends what B has queued in one step; B may lose it again right after.
* A comment near `manager.rs:2925` says that a message under way is no longer
  `pending`; the query of that name also selects `sent` rows, so a message may be
  under way twice. The model follows the query.
* `ChatView` shows what holds; outside of what it compares, `loadLatest` overwrites
  what an event wrote between the query and the answer (`usePairChat.ts:111`),
  unless another event comes; an event about a row not loaded yet becomes the
  first row, and `loadOlder` goes on behind it (122-130); the answer to a send may
  be older than an event already applied; a message that another window sent
  has no event; a late event may show a row of the cleared period. These are
  the `crossed` rows of the module.

**Session.**
* `PairSession` leaves out the status. `publish` compares the generation before it
  takes the lock, so that an outdated session may write once more;
  `fail_hard` may cancel a session that has just begun and leave *connecting*; a
  sender cloned before `cancel_current` may leave `queued` set, and the next
  session is not woken for the first snapshot.
* `SendLoop`: a pong finds a token; the property of `chunk_starved` holds with the
  Cloudflare relay's numbers (`Advertised` = 20, `SlowInterval` = 12).

**Transfer.**
* A's disconnect leaves B's side of the transfer alone; nothing at B notices (no
  stall timeout, against §43 of the plan), so `calm` excludes it. A probe that
  times out can let an offer arrive behind its own cancel; excluded as well. A
  stale attempt may mark a file that has been received as failed.
* Disconnecting while in backoff leaves messages in progress, because `run_session`
  returns without `abort_transfers` (`manager.rs:1883`).

**Direct leg.**
* External (`webrtc` crate): reports of a closed connection arrive before the
  shortest retry delay ends; ICE takes longer to give up than a signal travels.
* A late report of an old round does end a fresh one; the retry heals it. An offer
  that a failed build of the passive side consumed leaves the offerer waiting;
  therefore only the offering device fails to build in `client`
  (`Misbuilds` = {small}). After a probe that timed out nothing raises the leg
  again before the round fails; a late back-pressure event can leave `writable`
  down until the next one; while a round is negotiated again the published status
  may say *connected* without a way. A device that has come second has no
  features of the other, so the reliable channel is refused (`HeardComesUp` asks for
  it only when both have heard).
* `ManualSession`: a window's commands come one after another (`manualBusy`).
  In manual mode a probe that times out leaves *connected* shown.

**Client.**
* `KeyLights`: two keys that are shown by one name share their light; what is left
  out is the flash of CapsLock, continuous repeats that arm the other's mapper
  anew, and a held key that the peer forgets when it reconnects. A failed probe
  counts as released.
* `PetPulse`: losses on the unreliable channel are left out.
* `PresenceSync`: the watch on `peerOnline` is about edges (`usePairState.ts:397`): a
  peer that was replaced within one has not been told.
* `VoiceNote`: the draft of a first stop is not offered when the second start fails
  (`usePairVoice.ts:263-264`); excluded with the failures that `voice_mic` shows, a
  send of the chat window behind a new start among them.
  Playback is left out; there, going from A to B while A's `play()` has not been
  answered stops B (`usePairVoicePlayback.ts:52-109`).
* `Pointer`: swapping the primary button while it is down leaves it held until the
  next release (`pointer.rs:42-43`); a lock of the screen between the two reads
  repeats a press; a sampler that fails to spawn within a beat of a restart might
  leave two. Excluded or left out.
* `Taskbar`: a restore that loaded the switch before it turned and posts afterwards
  leaves the old state until the next refresh (`stale`). Before the first set the
  style is not that of a tool window.
* `Recovery`: the dialog of a failed start is not guarded by `offered`, so two may be
  open. `request_restart` is one step.
* The gamepad loop is not modelled (a hazard without a property): a stop and a start
  within one poll leave two loops, a failure to open leaves the flag set.

## 6. Disagreements

Five have a run in which TLC violates one property that states what the code, its
comments or its documents say; `PROJECT.json` quotes the lines.

| Run | What happens |
|---|---|
| `relay_panic` | admit's `expect` panics: evict a stale device, the notice finds the survivor stalled, the room is swept under admit |
| `leg_hello` | a hello said before the peer is there is lost; both stay connected without a leg |
| `voice_mic` | the failure of another command (an earlier one, or a send that the chat window asked for by its late copy) hides a recording; the microphone stays open |
| `chunk_starved` | at 60 Hz every snapshot restarts the wait for the next chunk: an attachment stops |
| `chat_race` | an acknowledgement handled before `publish_message_status(Sent)`: the double tick is lost |

More are stated in the modules and were seen violated, without a run of their own:

| Property | To see it | What happens |
|---|---|---|
| `RelayRoom!NoEcho` | `relay_panic.cfg` | a frame goes back to the device that sent it, when that device reconnected between `allow` and `forward` |
| `RelayRoom!StaleYieldsToItself` | `relay_panic.cfg` | a stale connection yields to *another* device, the documents say only to its own |
| `ChatDelivery!UndeliveredIsKept` | `chat_race.cfg`, `MaxEpochs` = 1 | clearing the records while a message is being stored deletes it undelivered |
| `ChatDelivery!Arrives` | `chat_race.cfg` with `FairSpec`, `N` = 2, `ResendLimit` = 1 | more than 100 undelivered messages: the rest is not sent while both stay online |
| `Transfer!NothingWaitsForEver` | `transfer.cfg`, as an invariant | a retry without a session puts the message back to *pending* (`manager.rs:1248`) and fails then: nothing sends it, and a pending message cannot be retried |
| `FramePacing!NeverCutOff` | the constants of `links.cfg`, `KeyCap` = 0, `MaxHeld` = 0 | after the relay's own pause (up to 30 s) TCP's backlog empties the bucket, and an honest sender is closed with 1008; `relay.rs:1680` and `manager.rs:82-86` promise it is not |
| `PresenceSync!PeerKnows` | the constants of `parts.cfg` | the peer was replaced within one edge of `peerOnline` and never hears |
| `CloudflarePair!PresenceAgrees` | three `Ids` | the close event of a third device's socket, handled after a new pair is complete, tells both that the other is offline (`pair.ts:198` filters by its own device only), against `pair.ts:188-190` and `relay.rs:2072-2075` |

## 7. Plan

Done: the relay, chat, transfer, the session, both ways in which a direct leg comes
up, its gate, the loop of sends, the Cloudflare relay, and the client's parts with
concurrency of their own; proofs of the safety of relay, chat, transfer and of the
parts of `MCLinks`, `MCClient` and `MCParts`. Next: the gamepad loop, the status of
`PairSession`, and B's clearing of its records.

## 8. Not modelled

* Cryptography, the pair secret, parsing and encoding: functions of their input.
* The STUN responder and the relay's tools: stateless, or a command line.
* Sound, rendering, Live2D, layout, tray, monitors, autostart and installers.
* Failures of SQLite, and B's own clearing of records with the ids by which it
  recognises a message that was sent again (`history.rs:639`).
* The gamepad loop (section 5), voice playback, counters and settings.
* The contents of messages and of status snapshots.
