------------------------------ MODULE PairLeg ------------------------------
(***************************************************************************)
(* How the direct leg of two devices comes up, src-tauri's                 *)
(* core/pair/p2p.rs: each side's leg says hello once, the device with the  *)
(* smaller id offers, the other answers, and the side that offers tries    *)
(* again when a round fails.  Signals travel over the relay, which drops   *)
(* what it is given for a device that is not there (relay.rs, forward).    *)
(*                                                                         *)
(* Abstractions.  A PeerConnection is a number, a description the number   *)
(* of the connection that made it.  Candidates always fit: two connections *)
(* that hold each other's description open their channels unless a fault   *)
(* is spent, any other pairing fails in the end (the webrtc crate).  The   *)
(* back pressure flag, delays and the manual codes are left out.           *)
(***************************************************************************)
EXTENDS Naturals, Sequences, FiniteSets

CONSTANTS
  Small, Large,  \* the two devices, by deviceId
  Connections,   \* bound: numbers for PeerConnections in use at a time
  Misbuilds,     \* devices whose PeerConnection may fail to be built
  MaxDrops,      \* bound: sessions lost
  MaxFaults,     \* bound: rounds lost to the network, and failed builds
  MaxLate,       \* bound: failure reports under way to a leg
  MaxSignals     \* bound: signals under way to a device

LegAssumption ==
  /\ Small # Large
  /\ Connections \subseteq Nat \ {0} /\ IsFiniteSet(Connections)
  /\ Misbuilds \subseteq {Small, Large}
  /\ {MaxDrops, MaxFaults, MaxSignals} \subseteq Nat /\ MaxLate \in Nat \ {0}

Devices == {Small, Large}
Peer(d) == IF d = Small THEN Large ELSE Small
None == 0

\* PET_STATE_LABEL, RELIABLE_LABEL.
Lanes == {"pet", "reliable"}

VARIABLES
  state,     \* off, joined (the relay knows it), live (it has a leg)
  sig,       \* signals under way to a device
  ready,     \* Leg::peer_ready
  knows,     \* Leg::peer_features is not empty
  offerer,   \* Leg::offerer
  pc,        \* Leg::peer
  remote,    \* the description its connection has been given
  lanes,      \* channels its connection has made or adopted
  open,      \* channels that are open
  retry,     \* retry_at is set
  broken,    \* build_failures > 0
  late,      \* Input::Failed under way to the drive loop
  drops, faults

leg == <<ready, knows, offerer, pc, remote, lanes, open, retry, broken, late>>
budget == <<drops, faults>>
vars == <<state, sig, leg, budget>>

Live(d) == state[d] = "live"

Init ==
  /\ state = [d \in Devices |-> "off"]
  /\ sig = [d \in Devices |-> <<>>]
  /\ ready = [d \in Devices |-> FALSE] /\ knows = [d \in Devices |-> FALSE]
  /\ offerer = [d \in Devices |-> FALSE]
  /\ pc = [d \in Devices |-> None] /\ remote = [d \in Devices |-> None]
  /\ lanes = [d \in Devices |-> {}] /\ open = [d \in Devices |-> {}]
  /\ retry = [d \in Devices |-> FALSE] /\ broken = [d \in Devices |-> FALSE]
  /\ late = [d \in Devices |-> 0]
  /\ drops = MaxDrops /\ faults = MaxFaults

-----------------------------------------------------------------------------
(* Signals                                                                 *)

Signal(kind, from, about) == [kind |-> kind, from |-> from, about |-> about]

\* The relay forwards to whoever is there.
Sent(q, d, s) == IF state[Peer(d)] = "off" THEN q ELSE [q EXCEPT ![Peer(d)] = Append(@, s)]

Room(d) == Len(sig[Peer(d)]) < MaxSignals

Mentioned == UNION {UNION {{sig[d][i].from, sig[d][i].about} : i \in DOMAIN sig[d]} : d \in Devices}
InUse == {pc[d] : d \in Devices} \cup {remote[d] : d \in Devices} \cup Mentioned
Unused == Connections \ InUse
Fresh == CHOOSE c \in Unused : TRUE

\* Bound.
More(n) == IF n < MaxLate THEN n + 1 ELSE n

-----------------------------------------------------------------------------
(* One side's leg                                                          *)

\* reset: closing the connection makes its callbacks report a failure later.
Torn(d) == IF pc[d] = None THEN late[d] ELSE More(late[d])

Cleared(d) ==
  /\ pc' = [pc EXCEPT ![d] = None]
  /\ remote' = [remote EXCEPT ![d] = None]
  /\ lanes' = [lanes EXCEPT ![d] = {}]
  /\ open' = [open EXCEPT ![d] = {}]

\* What start() leaves: deferred by the brake, not built, or built; the side
\* that offers makes its channels and its offer.
Deferred(d, q) ==
  /\ broken[d]
  /\ retry' = [retry EXCEPT ![d] = TRUE]
  /\ sig' = q
  /\ UNCHANGED <<pc, lanes, remote, broken, faults, late, open>>

NotBuilt(d, q, l) ==
  /\ d \in Misbuilds /\ faults > 0
  /\ faults' = faults - 1
  /\ broken' = [broken EXCEPT ![d] = TRUE]
  /\ late' = [late EXCEPT ![d] = More(l)]
  /\ sig' = q

Channels(informed) == IF informed THEN Lanes ELSE {"pet"}

Built(d, q, offers, informed) ==
  /\ Unused # {}
  /\ pc' = [pc EXCEPT ![d] = Fresh]
  /\ remote' = [remote EXCEPT ![d] = None]
  /\ broken' = [broken EXCEPT ![d] = FALSE]
  /\ open' = [open EXCEPT ![d] = {}]
  /\ IF offers
     THEN /\ lanes' = [lanes EXCEPT ![d] = Channels(informed)]
          /\ sig' = Sent(q, d, Signal("offer", Fresh, None))
     ELSE /\ lanes' = [lanes EXCEPT ![d] = {}]
          /\ sig' = q
  /\ UNCHANGED faults

\* Hello: reset, start; what was to be retried is off when the round is on.
ReadHello(d) ==
  /\ Head(sig[d]).kind = "hello"
  /\ ready' = [ready EXCEPT ![d] = TRUE]
  /\ knows' = [knows EXCEPT ![d] = TRUE]
  /\ offerer' = [offerer EXCEPT ![d] = d = Small]
  /\ LET q == [sig EXCEPT ![d] = Tail(@)] IN
     \/ /\ Built(d, q, d = Small, TRUE)
        /\ retry' = [retry EXCEPT ![d] = FALSE]
        /\ late' = [late EXCEPT ![d] = Torn(d)]
     \/ /\ NotBuilt(d, q, Torn(d))
        /\ Cleared(d)
        /\ UNCHANGED retry
     \/ /\ broken[d]
        /\ retry' = [retry EXCEPT ![d] = TRUE]
        /\ sig' = q
        /\ Cleared(d)
        /\ late' = [late EXCEPT ![d] = Torn(d)]
        /\ UNCHANGED <<broken, faults>>

\* Mutant of AnswerTo: an offer to a connection that is there is not answered.
AnswerToFirst(d, q, s, mine) ==
  IF pc[d] # None THEN q ELSE Sent(q, d, Signal("answer", mine, s.from))

\* Offer: a connection that is there already is renegotiated.
AnswerTo(d, q, s, mine) == Sent(q, d, Signal("answer", mine, s.from))

ReadOffer(d) ==
  LET s == Head(sig[d])  q == [sig EXCEPT ![d] = Tail(@)] IN
  /\ s.kind = "offer"
  /\ ready' = [ready EXCEPT ![d] = TRUE]
  /\ \/ /\ pc[d] # None
        /\ remote' = [remote EXCEPT ![d] = s.from]
        /\ sig' = AnswerTo(d, q, s, pc[d])
        /\ UNCHANGED <<pc, lanes, open, retry, broken, late, faults>>
     \/ /\ pc[d] = None /\ Unused # {}
        /\ pc' = [pc EXCEPT ![d] = Fresh]
        /\ remote' = [remote EXCEPT ![d] = s.from]
        /\ lanes' = [lanes EXCEPT ![d] = {}] /\ open' = [open EXCEPT ![d] = {}]
        /\ broken' = [broken EXCEPT ![d] = FALSE]
        /\ sig' = AnswerTo(d, q, s, Fresh)
        /\ UNCHANGED <<retry, late, faults>>
     \/ /\ pc[d] = None
        /\ NotBuilt(d, q, late[d])
        /\ UNCHANGED <<pc, remote, lanes, open, retry>>
     \/ /\ pc[d] = None
        /\ Deferred(d, q)
  /\ UNCHANGED <<knows, offerer>>

\* Answer: to whichever offer it was.
ReadAnswer(d) ==
  /\ Head(sig[d]).kind = "answer"
  /\ sig' = [sig EXCEPT ![d] = Tail(@)]
  /\ remote' = [remote EXCEPT ![d] = IF pc[d] = None THEN @ ELSE Head(sig[d]).from]
  /\ UNCHANGED <<ready, knows, offerer, pc, lanes, open, retry, broken, late, faults>>

Read(d) ==
  /\ Live(d) /\ sig[d] # <<>> /\ Room(d)
  /\ ReadHello(d) \/ ReadOffer(d) \/ ReadAnswer(d)
  /\ UNCHANGED <<state, drops>>

\* Mutant of Rearmed: only the first failure arms a retry.
RearmedOnce(d) == offerer[d] /\ ready[d] /\ ~broken[d]

Rearmed(d) == offerer[d] /\ ready[d]

\* Input::Failed, of this round or of one before it.
Failed(d) ==
  /\ Live(d) /\ late[d] > 0
  /\ late' = [late EXCEPT ![d] = IF pc[d] = None THEN @ - 1 ELSE @]
  /\ Cleared(d)
  /\ retry' = [retry EXCEPT ![d] = Rearmed(d)]
  /\ UNCHANGED <<state, sig, ready, knows, offerer, broken, budget>>

\* Reports of a closed connection arrive long before the shortest delay.
Retry(d) ==
  /\ Live(d) /\ retry[d] /\ late[d] = 0 /\ Room(d)
  /\ \/ /\ Built(d, sig, offerer[d], knows[d])
        /\ retry' = [retry EXCEPT ![d] = FALSE]
        /\ UNCHANGED late
     \/ /\ NotBuilt(d, sig, late[d])
        /\ retry' = [retry EXCEPT ![d] = FALSE]
        /\ UNCHANGED <<pc, remote, lanes, open>>
  /\ UNCHANGED <<state, ready, knows, offerer, drops>>

\* The two connections hold each other's description.
Matched ==
  /\ pc[Small] # None /\ pc[Large] # None
  /\ remote[Small] = pc[Large] /\ remote[Large] = pc[Small]

\* A channel opens: at the side that made it, and at the other, which adopts a
\* channel it has a feature for (acceptable_lane).
\* Mutant of Acceptable: a leg keeps to the channels it has made itself.
AcceptableOwn(d, lane) == lane \in lanes[d]

Acceptable(d, lane) == lane = "pet" \/ knows[d]

Ready(d, lane) ==
  /\ Live(d) /\ Matched /\ lane \notin open[d]
  /\ IF d = Small THEN lane \in lanes[d] ELSE lane \in lanes[Peer(d)] /\ Acceptable(d, lane)
  /\ open' = [open EXCEPT ![d] = @ \cup {lane}]
  /\ lanes' = [lanes EXCEPT ![d] = @ \cup {lane}]
  /\ retry' = [retry EXCEPT ![d] = FALSE]
  /\ UNCHANGED <<state, sig, ready, knows, offerer, pc, remote, broken, late, budget>>

\* A connection fails: its other end is not there, or the network is bad.
Fails(d) ==
  /\ Live(d) /\ remote[d] # None /\ late[d] = 0
  /\ late' = [late EXCEPT ![d] = More(@)]
  /\ UNCHANGED <<state, sig, ready, knows, offerer, pc, remote, lanes, open, retry, broken, drops>>

\* ICE waits for much longer than a signal travels.
Expires(d) ==
  /\ Fails(d) /\ ~Matched
  /\ \A e \in Devices : sig[e] = <<>> /\ late[e] = 0
  /\ UNCHANGED faults

Breaks(d) == Fails(d) /\ Matched /\ faults > 0 /\ faults' = faults - 1

-----------------------------------------------------------------------------
(* Sessions                                                                *)

Join(d) ==
  /\ state[d] = "off"
  /\ state' = [state EXCEPT ![d] = "joined"]
  /\ UNCHANGED <<sig, leg, budget>>

\* P2pLink::spawn and drive's hello, after the welcome has been read.
Announce(d) ==
  /\ state[d] = "joined" /\ Room(d)
  /\ state' = [state EXCEPT ![d] = "live"]
  /\ sig' = Sent(sig, d, Signal("hello", None, None))
  /\ UNCHANGED <<leg, budget>>

\* The session is lost and its leg dropped with everything under way to it.
Drop(d) ==
  /\ state[d] # "off" /\ drops > 0
  /\ drops' = drops - 1
  /\ state' = [state EXCEPT ![d] = "off"]
  /\ sig' = [sig EXCEPT ![d] = <<>>]
  /\ ready' = [ready EXCEPT ![d] = FALSE] /\ knows' = [knows EXCEPT ![d] = FALSE]
  /\ offerer' = [offerer EXCEPT ![d] = FALSE]
  /\ Cleared(d)
  /\ retry' = [retry EXCEPT ![d] = FALSE] /\ broken' = [broken EXCEPT ![d] = FALSE]
  /\ late' = [late EXCEPT ![d] = 0]
  /\ UNCHANGED faults

Open(d) == \E lane \in Lanes : Ready(d, lane)
Session(d) == Join(d) \/ Announce(d)

Next ==
  \E d \in Devices :
    \/ Session(d) \/ Drop(d)
    \/ Read(d) \/ Failed(d) \/ Retry(d)
    \/ Open(d) \/ Expires(d) \/ Breaks(d)

Spec == Init /\ [][Next]_vars

\* run_session connects again; the drive loop reads its inputs; what crosses
\* the network arrives, connects or times out.
Progress(d) == Session(d) \/ Read(d) \/ Failed(d) \/ Retry(d) \/ Expires(d)

FairSpec ==
  /\ Spec
  /\ \A d \in Devices : WF_vars(Session(d)) /\ WF_vars(Read(d)) /\ WF_vars(Failed(d))
  /\ \A d \in Devices : WF_vars(Retry(d)) /\ WF_vars(Expires(d)) /\ WF_vars(Open(d))

-----------------------------------------------------------------------------
(* Correctness                                                             *)

TypeOK ==
  /\ state \in [Devices -> {"off", "joined", "live"}]
  /\ \A d \in Devices : Len(sig[d]) <= MaxSignals + 1
  /\ pc \in [Devices -> Connections \cup {None}]
  /\ remote \in [Devices -> Connections \cup {None}]
  /\ late \in [Devices -> 0 .. MaxLate]
  /\ open \in [Devices -> SUBSET Lanes]

\* Whoever is to offer and has heard of the other has a round or something
\* that will begin one: a retry or a failure report.  Otherwise the leg would
\* be silent until the other reconnects (Input::Failed, Leg::start).
RetryArmed ==
  \A d \in Devices :
    offerer[d] /\ ready[d] /\ pc[d] = None => retry[d] \/ late[d] > 0

BothLive == \A d \in Devices : Live(d)
Heard == BothLive /\ ready[Small]

\* While both are there, and the offerer has heard the other, a round of it has
\* not come to nothing: its offer or an answer is under way, it has been given a
\* description, or a failure or a hello is about to end it.  An offer that the
\* other takes without being able to build a connection does come to nothing.
Waiting(d, kind) == \E i \in DOMAIN sig[d] : sig[d][i].kind = kind
Offering == \E i \in DOMAIN sig[Large] : sig[Large][i].kind = "offer" /\ sig[Large][i].from = pc[Small]
RoundGoesOn ==
  Large \notin Misbuilds /\ Heard /\ pc[Small] # None =>
    \/ Offering \/ Waiting(Small, "answer") \/ remote[Small] # None
    \/ Waiting(Small, "hello") \/ late[Small] > 0
Up(lane) == \A d \in Devices : lane \in open[d]

\* A leg that has heard the other's hello comes up in the end, whatever was
\* lost, renegotiated or reported late on the way; the reliable channel too
\* when both have heard each other (Leg::handle, drive).
HeardComesUp ==
  []<>(Heard => Up("pet") /\ (knows[Large] => Up("reliable")))

\* p2p.rs:19-23: both say hello, the smaller offers, the channel opens; a
\* failed round is tried again.
LegComesUp == []<>(BothLive => Up("pet"))

=============================================================================
