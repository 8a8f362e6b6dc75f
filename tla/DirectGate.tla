----------------------------- MODULE DirectGate -----------------------------
(***************************************************************************)
(* Chat over the direct leg when the relay carries signals only (the       *)
(* public tier), src-tauri's core/pair/manager.rs: two channels are opened, *)
(* probed, lost and judged dead apart from each other; a published state   *)
(* of the leg is the gate of the command threads, and flush() has a check  *)
(* of its own.  What cannot be sent goes back to "waiting" and is sent     *)
(* again on every event that could have made a way for it.                 *)
(*                                                                         *)
(* Abstractions.  The peer is always there and receives whatever arrives.  *)
(* A channel that is up and not stalled answers a probe in time.  The      *)
(* session is not stopped by the user; acknowledgements come back over the *)
(* channel.  Attachments, the relay's own probe and rates are left out.    *)
(***************************************************************************)
EXTENDS Naturals, Sequences, FiniteSets

CONSTANTS
  Texts,      \* bound: messages
  MaxLosses,  \* bound: sessions, rounds and stalls lost
  MaxInbound  \* bound: events under way to the session

GateAssumption == {MaxLosses, MaxInbound} \subseteq Nat

Ways == {"pet", "reliable"}

VARIABLES
  conn,     \* live, lost (the leg is dropped), backoff
  tier,     \* status.tier
  p2p,      \* status.p2p
  opened,   \* dc_open, reliable_open
  verified, \* dc_verified, reliable_verified
  asked,    \* a ping is out (dc_awaiting_pong, reliable_awaiting_pong)
  pipe,     \* the round's channels are up
  dead,     \* channels that carry nothing, though they are up
  events,   \* P2pEvents under way to the session
  tight,    \* the leg's writable flag is down
  inbox,    \* Command::Send
  waiting,  \* SessionState::reliable
  lane,     \* frames on the reliable channel
  row,      \* MessageStatus
  got,      \* messages the peer has
  step,     \* what a command thread does next
  relayed,  \* a data frame went to the relay
  losses

flags == <<opened, verified, asked>>
link == <<pipe, dead, tight, lane>>
chat == <<inbox, waiting, row, got, step>>
vars == <<conn, tier, p2p, flags, events, link, chat, relayed, losses>>

Init ==
  /\ conn = "backoff" /\ tier = "full" /\ p2p = "off"
  /\ opened = {} /\ verified = {} /\ asked = {}
  /\ pipe = FALSE /\ dead = {} /\ tight = FALSE /\ lane = <<>>
  /\ events = <<>>
  /\ inbox = <<>> /\ waiting = <<>>
  /\ row = [m \in Texts |-> "none"] /\ got = {}
  /\ step = [m \in Texts |-> "idle"]
  /\ relayed = FALSE
  /\ losses = MaxLosses

-----------------------------------------------------------------------------
(* Sending                                                                 *)

\* public_tier_needs_direct.
Blocked == tier = "public" /\ p2p # "connected"

\* reliable_leg.
HasLeg == "reliable" \in opened \cap verified

Frames(q) == {q[i] : i \in DOMAIN q}
Back(r, q) == [m \in Texts |-> IF m \in Frames(q) THEN "pending" ELSE r[m]]

\* Mutant of Undelivered: what was sent once is taken as on its way.
UndeliveredWaiting == {m \in Texts : row[m] = "pending"}

\* history.pending: rows that are waiting or sent; deliver_chat for each.
Undelivered == {m \in Texts : row[m] \in {"pending", "sent"}}
InOrder(S) == CHOOSE q \in [1 .. Cardinality(S) -> S] : Frames(q) = S
Resent(blocked) == IF blocked THEN <<>> ELSE InOrder(Undelivered)
Marked(blocked) == [m \in Texts |-> IF ~blocked /\ m \in Undelivered THEN "sent" ELSE row[m]]

\* resend_pending_chat, with the gate as it is just published.
Resend(blocked) ==
  /\ inbox' = inbox \o Resent(blocked)
  /\ row' = Marked(blocked)

\* flush: over the leg, or kept while the leg is full, or back to waiting.
Flushed(q) ==
  /\ waiting' = IF HasLeg /\ tight THEN q ELSE <<>>
  /\ lane' = IF HasLeg /\ ~tight /\ pipe THEN lane \o q ELSE lane
  /\ row' = IF HasLeg THEN row ELSE Back(row, q)
  /\ relayed' = (relayed \/ (~HasLeg /\ tier # "public" /\ q # <<>>))

\* send_chat, in a command thread: a refusal comes before anything is stored.
Say(m) ==
  /\ row[m] = "none" /\ ~Blocked
  /\ row' = [row EXCEPT ![m] = "pending"]
  /\ step' = [step EXCEPT ![m] = "gate"]
  /\ UNCHANGED <<conn, tier, p2p, flags, events, link, inbox, waiting, got, relayed, losses>>

Gate(m) ==
  /\ step[m] = "gate"
  /\ step' = [step EXCEPT ![m] = IF Blocked THEN "idle" ELSE "post"]
  /\ UNCHANGED <<conn, tier, p2p, flags, events, link, inbox, waiting, row, got, relayed, losses>>

Post(m) ==
  /\ step[m] = "post"
  /\ step' = [step EXCEPT ![m] = "mark"]
  /\ inbox' = Append(inbox, m)
  /\ UNCHANGED <<conn, tier, p2p, flags, events, link, waiting, row, got, relayed, losses>>

Mark(m) ==
  /\ step[m] = "mark"
  /\ step' = [step EXCEPT ![m] = "idle"]
  /\ row' = [row EXCEPT ![m] = "sent"]
  /\ UNCHANGED <<conn, tier, p2p, flags, events, link, inbox, waiting, got, relayed, losses>>

\* Command::Send, live or in backoff.
Take ==
  /\ conn = "live" /\ inbox # <<>>
  /\ inbox' = Tail(inbox)
  /\ Flushed(Append(waiting, Head(inbox)))
  /\ UNCHANGED <<conn, tier, p2p, flags, events, pipe, dead, tight, got, step, losses>>

Queue ==
  /\ conn = "backoff" /\ inbox # <<>>
  /\ inbox' = Tail(inbox)
  /\ waiting' = Append(waiting, Head(inbox))
  /\ UNCHANGED <<conn, tier, p2p, flags, events, link, row, got, step, relayed, losses>>

\* A snapshot or the statistics, every 30 seconds, flush the queue as well.
Wake ==
  /\ conn = "live" /\ waiting # <<>>
  /\ Flushed(waiting)
  /\ UNCHANGED <<conn, tier, p2p, flags, events, pipe, dead, tight, inbox, got, step, losses>>

-----------------------------------------------------------------------------
(* The session                                                             *)

\* The welcome: the peer is there, so what waits is sent again, under the old
\* tier; then the tier is known and what was queued goes back to waiting.
Welcome ==
  /\ conn = "backoff"
  /\ conn' = "live"
  /\ inbox' = inbox \o Resent(Blocked)
  /\ row' = Back(Marked(Blocked), waiting)
  /\ tier' = "public" /\ waiting' = <<>>
  /\ p2p' = "off" /\ opened' = {} /\ verified' = {} /\ asked' = {}
  /\ UNCHANGED <<events, link, got, step, relayed, losses>>

PeerOnline ==
  /\ conn = "live" /\ losses > 0 /\ losses' = losses - 1
  /\ Resend(Blocked)
  /\ UNCHANGED <<conn, tier, p2p, flags, events, link, waiting, got, step, relayed>>

\* The relay's connection is lost, and with it the leg.
Lose ==
  /\ conn = "live" /\ losses > 0 /\ losses' = losses - 1
  /\ conn' = "lost"
  /\ opened' = {} /\ verified' = {} /\ asked' = {}
  /\ pipe' = FALSE /\ dead' = {} /\ tight' = FALSE /\ lane' = <<>> /\ events' = <<>>
  /\ UNCHANGED <<tier, p2p, chat, relayed>>

Reconnecting ==
  /\ conn = "lost"
  /\ conn' = "backoff" /\ p2p' = "off"
  /\ UNCHANGED <<tier, flags, events, link, chat, relayed, losses>>

At(kind, w) == [kind |-> kind, way |-> w, about |-> {}]
Room(n) == Len(events) + n <= MaxInbound

\* The ticker: a probe, or the end of one that has had no answer.
Probe(w) ==
  /\ conn = "live" /\ w \in opened /\ w \notin asked
  /\ asked' = asked \cup {w}
  /\ UNCHANGED <<conn, tier, p2p, opened, verified, events, link, chat, relayed, losses>>

Timeout(w) ==
  /\ conn = "live" /\ w \in opened \cap asked \cap dead
  /\ opened' = opened \ {w} /\ verified' = verified \ {w}
  /\ IF w = "pet"
     THEN p2p' = "connecting" /\ UNCHANGED <<asked, inbox, row>>
     ELSE asked' = asked \ {w} /\ Resend(Blocked) /\ UNCHANGED p2p
  /\ UNCHANGED <<conn, tier, events, link, waiting, got, step, relayed, losses>>

-----------------------------------------------------------------------------
(* Events of the leg                                                       *)

Next1 == Head(events)
Event(kind) == conn = "live" /\ events # <<>> /\ Next1.kind = kind
Consumed == events' = Tail(events)

Negotiating ==
  /\ Event("negotiating") /\ Consumed
  /\ p2p' = "connecting"
  /\ UNCHANGED <<conn, tier, flags, link, chat, relayed, losses>>

ChannelOpen ==
  /\ Event("open") /\ Consumed
  /\ opened' = opened \cup {Next1.way}
  /\ verified' = verified \ {Next1.way}
  /\ asked' = asked \cup {Next1.way}
  /\ p2p' = IF Next1.way = "pet" THEN "connecting" ELSE p2p
  /\ UNCHANGED <<conn, tier, link, chat, relayed, losses>>

ChannelClosed ==
  /\ Event("closed") /\ Consumed
  /\ opened' = opened \ {Next1.way} /\ verified' = verified \ {Next1.way}
  /\ IF Next1.way = "pet"
     THEN p2p' = "connecting" /\ UNCHANGED <<asked, inbox, row>>
     ELSE asked' = asked \ {"reliable"} /\ Resend(Blocked) /\ UNCHANGED p2p
  /\ UNCHANGED <<conn, tier, link, waiting, got, step, relayed, losses>>

Unreachable ==
  /\ Event("unreachable") /\ Consumed
  /\ p2p' = "failed"
  /\ UNCHANGED <<conn, tier, flags, link, chat, relayed, losses>>

\* Mutant of Proves: any frame proves a channel, also one that was given up.
ProvesAlways(w) == w \notin verified

Proves(w) == w \in opened /\ w \notin verified

\* Whatever a channel brings proves it; the first of these frames lets through
\* what waits.  An acknowledgement is one of them.
Inbound ==
  LET w == Next1.way
      state == IF w = "pet" /\ Proves(w) THEN "connected" ELSE p2p
      acked(r) == [m \in Texts |-> IF m \in Next1.about THEN "delivered" ELSE r[m]] IN
  /\ Event("inbound") /\ Consumed
  /\ asked' = asked \ {w}
  /\ verified' = IF Proves(w) THEN verified \cup {w} ELSE verified
  /\ p2p' = state
  /\ IF Proves(w)
     THEN /\ inbox' = inbox \o Resent(tier = "public" /\ state # "connected")
          /\ row' = acked(Marked(tier = "public" /\ state # "connected"))
     ELSE /\ row' = acked(row)
          /\ UNCHANGED inbox
  /\ UNCHANGED <<conn, tier, opened, link, waiting, got, step, relayed, losses>>

-----------------------------------------------------------------------------
(* The leg and the peer                                                    *)

\* A round comes up, and each channel opens.
RoundUp ==
  /\ conn = "live" /\ ~pipe /\ Room(2)
  /\ pipe' = TRUE /\ dead' = {} /\ tight' = FALSE /\ lane' = <<>>
  /\ \E w \in Ways : events' = events \o <<At("open", w)>> \o <<At("open", CHOOSE v \in Ways : v # w)>>
  /\ UNCHANGED <<conn, tier, p2p, flags, chat, relayed, losses>>

\* Input::Failed, after a fault or the peer's new hello.
RoundDown ==
  /\ conn = "live" /\ pipe /\ losses > 0 /\ losses' = losses - 1
  /\ pipe' = FALSE /\ dead' = {} /\ tight' = FALSE /\ lane' = <<>>
  /\ \E hello \in BOOLEAN :
       /\ Room(IF hello THEN 4 ELSE 3)
       /\ events' = events \o (IF hello THEN <<At("negotiating", "pet")>> ELSE <<>>)
                      \o <<At("closed", "pet"), At("closed", "reliable"), At("unreachable", "pet")>>
  /\ UNCHANGED <<conn, tier, p2p, flags, chat, relayed>>

Stall(w) ==
  /\ pipe /\ w \notin dead /\ losses > 0 /\ losses' = losses - 1
  /\ dead' = dead \cup {w}
  /\ UNCHANGED <<conn, tier, p2p, flags, events, pipe, tight, lane, chat, relayed>>

Recover(w) ==
  /\ w \in dead
  /\ dead' = dead \ {w}
  /\ UNCHANGED <<conn, tier, p2p, flags, events, pipe, tight, lane, chat, relayed, losses>>

\* The send buffer passes its marks.
Fill ==
  /\ pipe /\ ~tight /\ losses > 0 /\ losses' = losses - 1
  /\ tight' = TRUE
  /\ UNCHANGED <<conn, tier, p2p, flags, events, pipe, dead, lane, chat, relayed>>

Drain ==
  /\ tight
  /\ tight' = FALSE
  /\ UNCHANGED <<conn, tier, p2p, flags, events, pipe, dead, lane, chat, relayed, losses>>

\* A frame of the peer's, its answer to a probe among them.
Arrive(w) ==
  /\ conn = "live" /\ pipe /\ w \notin dead /\ Room(1)
  /\ w \in asked \/ w \notin opened
  /\ \A i \in DOMAIN events : events[i].kind # "inbound" \/ events[i].way # w
  /\ events' = Append(events, At("inbound", w))
  /\ UNCHANGED <<conn, tier, p2p, flags, link, chat, relayed, losses>>

\* The peer receives a message and acknowledges it on the same channel.
Receive ==
  /\ pipe /\ "reliable" \notin dead /\ lane # <<>> /\ Room(1)
  /\ lane' = Tail(lane)
  /\ got' = got \cup {Head(lane)}
  /\ events' = Append(events, [At("inbound", "reliable") EXCEPT !.about = {Head(lane)}])
  /\ UNCHANGED <<conn, tier, p2p, flags, pipe, dead, tight, inbox, waiting, row, step, relayed, losses>>

Thread(m) == Gate(m) \/ Post(m) \/ Mark(m)
Reads == Negotiating \/ ChannelOpen \/ ChannelClosed \/ Unreachable \/ Inbound
Session == Welcome \/ Reconnecting \/ Take \/ Queue
Ticker == \E w \in Ways : Probe(w) \/ Timeout(w)

Next ==
  \/ \E m \in Texts : Say(m) \/ Thread(m)
  \/ Reads \/ Session \/ Wake \/ Ticker \/ PeerOnline \/ Lose
  \/ RoundUp \/ RoundDown \/ Fill \/ Drain \/ Receive
  \/ \E w \in Ways : Stall(w) \/ Recover(w) \/ Arrive(w)

Spec == Init /\ [][Next]_vars

\* select! serves every branch that is ready; the leg comes up again and a
\* channel that works answers; buffers drain and snapshots keep coming.
FairSpec ==
  /\ Spec
  /\ \A m \in Texts : WF_vars(Thread(m))
  /\ WF_vars(Reads) /\ WF_vars(Session) /\ WF_vars(Wake)
  /\ \A w \in Ways : WF_vars(Probe(w)) /\ WF_vars(Timeout(w))
  /\ WF_vars(Receive) /\ WF_vars(Drain)

-----------------------------------------------------------------------------
(* Correctness                                                             *)

TypeOK ==
  /\ conn \in {"live", "lost", "backoff"}
  /\ p2p \in {"off", "connecting", "connected", "failed"}
  /\ verified \subseteq opened
  /\ opened \subseteq Ways

\* What the windows show as connected, and what lets messages through, is a
\* channel that is open and has carried something: late frames of a channel
\* that was given up do not bring it back (publish_route, live).
ConnectedHasLeg ==
  conn = "live" /\ p2p = "connected" => "pet" \in opened \cap verified

\* No frame with data goes to a relay that would close the connection for it,
\* whenever its tier was learnt (take_non_signal, flush).
NothingOnRelay == ~relayed

\* While both channels stay proven a stored message does not wait for ever,
\* in whatever order the proofs, the refusals and the threads came
\* (resend_pending_chat, flush, retry_dropped_chat).
Steady == conn = "live" /\ p2p = "connected" /\ HasLeg
Unstranded == \A m \in Texts : []<>(Steady => row[m] = "none" \/ m \in got)

\* What a thread or the session has yet to deal with, or the channel to carry.
InHand(m) ==
  \/ step[m] \in {"gate", "post"}
  \/ m \in Frames(inbox) \cup Frames(waiting) \cup Frames(lane)

\* While both channels are proven, every stored message that the peer lacks is
\* in hand, or the session is about to hear that the channel has closed: the
\* second proof found every row that was refused, dropped or lost before.
SteadyHolds ==
  Steady =>
    \A m \in Texts \ got :
      row[m] \in {"pending", "sent"} => InHand(m) \/ At("closed", "reliable") \in Frames(events)

=============================================================================
