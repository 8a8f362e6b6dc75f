---------------------------- MODULE MCLinksProofs ----------------------------
(* The invariants of the relay, the chat, the gate of the direct leg and the *)
(* pacing of frames, as MCLinks has them side by side, for any texts, rates, *)
(* sizes and bounds.  The relay and the chat have proofs of their own.       *)
EXTENDS MCLinks, SequenceTheorems, FiniteSetTheorems, TLAPS

-----------------------------------------------------------------------------
(* The gate of the direct leg                                               *)

Notices(X) == [kind : {"open", "closed", "negotiating", "unreachable", "inbound"},
               way : Gate!Ways, about : SUBSET X]

\* Once the relay has let the session in, its tier is known.
GateSound ==
  /\ Gate!TypeOK /\ tier \in {"full", "public"} /\ relayed \in BOOLEAN
  /\ \E X : events \in Seq(Notices(X))
  /\ conn = "live" => tier = "public"
  /\ Gate!ConnectedHasLeg /\ Gate!NothingOnRelay

LEMMA InitGate == Gate!Init => GateSound
<1> SUFFICES ASSUME Gate!Init PROVE GateSound
  OBVIOUS
<1>1. events \in Seq(Notices({}))
  BY DEF Gate!Init
<1> QED
  BY <1>1 DEF Gate!Init, GateSound, Gate!TypeOK, Gate!ConnectedHasLeg, Gate!NothingOnRelay

\* What comes next from the leg.
LEMMA NextNotice ==
  ASSUME GateSound, events # <<>>
  PROVE  /\ Gate!Next1.way \in Gate!Ways
         /\ \E X : Tail(events) \in Seq(Notices(X))
<1>1. PICK X : events \in Seq(Notices(X))
  BY DEF GateSound
<1>2. Head(events) \in Notices(X) /\ Tail(events) \in Seq(Notices(X))
  BY <1>1, HeadTailProperties
<1> QED
  BY <1>2 DEF Notices, Gate!Next1

\* More comes from the leg.
LEMMA MoreNotices ==
  ASSUME NEW X, NEW q \in Seq(Notices(X)),
         NEW kind \in {"open", "closed", "negotiating", "unreachable", "inbound"}, NEW w \in Gate!Ways
  PROVE  q \o <<Gate!At(kind, w)>> \in Seq(Notices(X))
<1>1. Gate!At(kind, w) \in Notices(X)
  BY DEF Notices, Gate!At
<1> QED
  BY <1>1, ConcatProperties

LEMMA GateReads ==
  ASSUME GateSound, Gate!Reads
  PROVE  GateSound'
<1> USE NextNotice
<1> USE DEF Gate!Event, Gate!Consumed, Gate!flags, Gate!link, Gate!chat, GateSound, Gate!TypeOK,
            Gate!ConnectedHasLeg, Gate!NothingOnRelay
<1>1. CASE Gate!Negotiating
  BY <1>1 DEF Gate!Negotiating
<1>2. CASE Gate!ChannelOpen
  BY <1>2 DEF Gate!ChannelOpen
<1>3. CASE Gate!ChannelClosed
  BY <1>3 DEF Gate!ChannelClosed
<1>4. CASE Gate!Unreachable
  BY <1>4 DEF Gate!Unreachable
<1>5. CASE Gate!Inbound
  <2>1. /\ conn = "live" /\ events # <<>> /\ events' = Tail(events)
        /\ UNCHANGED <<conn, tier, opened, relayed>>
        /\ verified' = IF Gate!Proves(Gate!Next1.way) THEN verified \cup {Gate!Next1.way} ELSE verified
        /\ p2p' = IF Gate!Next1.way = "pet" /\ Gate!Proves(Gate!Next1.way) THEN "connected" ELSE p2p
    BY <1>5 DEF Gate!Inbound
  <2> QED
    BY <2>1 DEF Gate!Proves
<1> QED
  BY <1>1, <1>2, <1>3, <1>4, <1>5 DEF Gate!Reads

\* What is sent goes over the leg, or waits for it: the relay's tier is known.
LEMMA GateSends ==
  ASSUME GateSound, Gate!Session \/ Gate!Wake \/ Gate!PeerOnline \/ Gate!Lose \/ Gate!Ticker
  PROVE  GateSound'
<1> USE DEF Gate!flags, Gate!link, Gate!chat, GateSound, Gate!TypeOK,
            Gate!ConnectedHasLeg, Gate!NothingOnRelay
<1>1. ASSUME NEW q, Gate!Flushed(q), conn = "live"
      PROVE  relayed' = relayed
  BY <1>1 DEF Gate!Flushed
<1>2. CASE Gate!Welcome
  BY <1>2 DEF Gate!Welcome
<1>3. CASE Gate!Reconnecting
  BY <1>3 DEF Gate!Reconnecting
<1>4. CASE Gate!Take
  BY <1>1, <1>4 DEF Gate!Take
<1>5. CASE Gate!Queue
  BY <1>5 DEF Gate!Queue
<1>6. CASE Gate!Wake
  BY <1>1, <1>6 DEF Gate!Wake
<1>7. CASE Gate!PeerOnline
  BY <1>7 DEF Gate!PeerOnline
<1>8. CASE Gate!Lose
  <2>1. <<>> \in Seq(Notices({}))
    OBVIOUS
  <2> QED
    BY <1>8, <2>1 DEF Gate!Lose
<1>9. ASSUME NEW w \in Gate!Ways, Gate!Probe(w)
      PROVE  GateSound'
  BY <1>9 DEF Gate!Probe
<1>10. ASSUME NEW w \in Gate!Ways, Gate!Timeout(w)
       PROVE  GateSound'
  BY <1>10 DEF Gate!Timeout
<1> QED
  BY <1>2, <1>3, <1>4, <1>5, <1>6, <1>7, <1>8, <1>9, <1>10 DEF Gate!Session, Gate!Ticker

LEMMA GateLeg ==
  ASSUME GateSound,
         \/ Gate!RoundUp \/ Gate!RoundDown \/ Gate!Fill \/ Gate!Drain \/ Gate!Receive
         \/ \E w \in Gate!Ways : Gate!Stall(w) \/ Gate!Recover(w) \/ Gate!Arrive(w)
  PROVE  GateSound'
<1>1. UNCHANGED <<conn, tier, p2p, opened, verified, relayed>>
  BY DEF Gate!RoundUp, Gate!RoundDown, Gate!Fill, Gate!Drain, Gate!Receive, Gate!Stall,
         Gate!Recover, Gate!Arrive, Gate!flags
<1>2. PICK X : events \in Seq(Notices(X))
  BY DEF GateSound
<1>3. \E Y : events' \in Seq(Notices(Y))
  <2>1. CASE Gate!RoundUp
    <3>1. PICK w \in Gate!Ways :
            events' = events \o <<Gate!At("open", w)>> \o <<Gate!At("open", CHOOSE v \in Gate!Ways : v # w)>>
      BY <2>1 DEF Gate!RoundUp
    <3>2. (CHOOSE v \in Gate!Ways : v # w) \in Gate!Ways
      BY DEF Gate!Ways
    <3> QED
      BY <1>2, <3>1, <3>2, MoreNotices
  <2>2. CASE Gate!RoundDown
    <3>1. PICK hello \in BOOLEAN :
            events' = events \o (IF hello THEN <<Gate!At("negotiating", "pet")>> ELSE <<>>)
                        \o <<Gate!At("closed", "pet"), Gate!At("closed", "reliable"),
                             Gate!At("unreachable", "pet")>>
      BY <2>2 DEF Gate!RoundDown
    <3>2. {Gate!At("negotiating", "pet"), Gate!At("closed", "pet"), Gate!At("closed", "reliable"),
           Gate!At("unreachable", "pet")} \subseteq Notices(X)
      BY DEF Notices, Gate!At, Gate!Ways
    <3>3. /\ (IF hello THEN <<Gate!At("negotiating", "pet")>> ELSE <<>>) \in Seq(Notices(X))
          /\ <<Gate!At("closed", "pet"), Gate!At("closed", "reliable"), Gate!At("unreachable", "pet")>>
               \in Seq(Notices(X))
      BY <3>2
    <3> QED
      BY <1>2, <3>1, <3>3, ConcatProperties
  <2>3. ASSUME NEW w \in Gate!Ways, Gate!Arrive(w)
        PROVE  \E Y : events' \in Seq(Notices(Y))
    <3>1. Gate!At("inbound", w) \in Notices(X)
      BY DEF Notices, Gate!At
    <3> QED
      BY <1>2, <2>3, <3>1, AppendProperties DEF Gate!Arrive
  <2>4. CASE Gate!Receive
    <3> DEFINE Y == X \cup {Head(lane)}
    <3>1. Notices(X) \subseteq Notices(Y)
      BY DEF Notices
    <3>2. events \in Seq(Notices(Y))
      BY <1>2, <3>1, SeqMonotonic
    <3>3. [Gate!At("inbound", "reliable") EXCEPT !.about = {Head(lane)}] \in Notices(Y)
      BY DEF Notices, Gate!At, Gate!Ways
    <3> QED
      BY <2>4, <3>2, <3>3, AppendProperties DEF Gate!Receive
  <2>5. events' = events \/ Gate!RoundUp \/ Gate!RoundDown \/ Gate!Receive \/ \E w \in Gate!Ways : Gate!Arrive(w)
    BY DEF Gate!Fill, Gate!Drain, Gate!Stall, Gate!Recover
  <2> QED
    BY <1>2, <2>1, <2>2, <2>3, <2>4, <2>5
<1> QED
  BY <1>1, <1>3 DEF GateSound, Gate!TypeOK, Gate!ConnectedHasLeg, Gate!NothingOnRelay

LEMMA GateKeepsSound ==
  ASSUME GateSound, [Gate!Next]_(Gate!vars)
  PROVE  GateSound'
<1>1. ASSUME UNCHANGED <<conn, tier, p2p, opened, verified, events, relayed>>
      PROVE  GateSound'
  BY <1>1 DEF GateSound, Gate!TypeOK, Gate!ConnectedHasLeg, Gate!NothingOnRelay
<1>2. CASE UNCHANGED Gate!vars
  BY <1>1, <1>2 DEF Gate!vars, Gate!flags
<1>3. ASSUME NEW m \in Texts, Gate!Say(m) \/ Gate!Thread(m)
      PROVE  GateSound'
  BY <1>1, <1>3 DEF Gate!Say, Gate!Thread, Gate!Gate, Gate!Post, Gate!Mark, Gate!flags
<1> QED
  BY <1>2, <1>3, GateReads, GateSends, GateLeg DEF Gate!Next

-----------------------------------------------------------------------------
(* What waits on the public tier                                            *)

GateStatuses == {"none", "pending", "sent", "delivered"}
Started == {m \in Texts : row[m] # "none"}
ReliableClosed == Gate!At("closed", "reliable")

\* Only a stored message is in a thread, a queue, on the channel or received.
GateTyped ==
  /\ row \in [Texts -> GateStatuses]
  /\ step \in [Texts -> {"idle", "gate", "post", "mark"}]
  /\ IsFiniteSet(Started)
  /\ \A m \in Texts : step[m] # "idle" => m \in Started
  /\ inbox \in Seq(Started) /\ waiting \in Seq(Started) /\ lane \in Seq(Started)
  /\ got \subseteq Started

\* A tick, and an acknowledgement on its way, is of a message the peer has.
GateAcks ==
  /\ \A m \in Texts : row[m] = "delivered" => m \in got
  /\ \A i \in DOMAIN events : events[i].about \subseteq got

\* The notice that the channel for messages has opened.
Opens(e) == e.kind = "open" /\ e.way = "reliable"

\* Without a round, a channel that is open, or about to be, is about to close.
GateCloses ==
  ~pipe =>
    /\ "reliable" \in opened => ReliableClosed \in Gate!Frames(events)
    /\ \A i \in DOMAIN events :
         Opens(events[i]) =>
           \E j \in DOMAIN events : i < j /\ events[j] = ReliableClosed

GateHeld == GateSound /\ GateTyped /\ GateAcks /\ GateCloses /\ Gate!SteadyHolds

\* Sequences: what loses its first element, and what is appended.
LEMMA FramesTail ==
  ASSUME NEW S, NEW s \in Seq(S), s # <<>>
  PROVE  /\ Head(s) \in S /\ Tail(s) \in Seq(S)
         /\ Gate!Frames(s) = {Head(s)} \cup Gate!Frames(Tail(s))
<1>1. /\ Len(s) \in Nat /\ Len(s) >= 1 /\ Tail(s) \in Seq(S) /\ Len(Tail(s)) = Len(s) - 1
      /\ \A i \in 1 .. Len(Tail(s)) : Tail(s)[i] = s[i + 1]
      /\ DOMAIN s = 1 .. Len(s) /\ DOMAIN Tail(s) = 1 .. Len(Tail(s)) /\ Head(s) = s[1]
      /\ Head(s) \in S
  BY HeadTailProperties, LenProperties, EmptySeq
<1>2. ASSUME NEW i \in DOMAIN s
      PROVE  s[i] \in {Head(s)} \cup Gate!Frames(Tail(s))
  <2>1. CASE i = 1
    BY <1>1, <2>1
  <2>2. CASE i # 1
    <3>1. i - 1 \in DOMAIN Tail(s) /\ Tail(s)[i - 1] = s[i]
      BY <1>1, <1>2, <2>2
    <3> QED
      BY <3>1 DEF Gate!Frames
  <2> QED
    BY <2>1, <2>2
<1>3. ASSUME NEW i \in DOMAIN Tail(s)
      PROVE  Tail(s)[i] \in Gate!Frames(s)
  <2>1. i + 1 \in DOMAIN s /\ Tail(s)[i] = s[i + 1]
    BY <1>1, <1>3
  <2> QED
    BY <2>1 DEF Gate!Frames
<1>4. Head(s) \in Gate!Frames(s)
  BY <1>1 DEF Gate!Frames
<1> QED
  BY <1>1, <1>2, <1>3, <1>4 DEF Gate!Frames

LEMMA FramesConcat ==
  ASSUME NEW S, NEW s \in Seq(S), NEW t \in Seq(S)
  PROVE  s \o t \in Seq(S) /\ Gate!Frames(s \o t) = Gate!Frames(s) \cup Gate!Frames(t)
<1>1. /\ Len(s) \in Nat /\ Len(t) \in Nat
      /\ DOMAIN s = 1 .. Len(s) /\ DOMAIN t = 1 .. Len(t)
      /\ DOMAIN (s \o t) = 1 .. Len(s) + Len(t)
      /\ \A i \in 1 .. Len(s) + Len(t) : (s \o t)[i] = IF i <= Len(s) THEN s[i] ELSE t[i - Len(s)]
  BY ConcatProperties, LenProperties
<1>2. ASSUME NEW i \in DOMAIN s
      PROVE  s[i] \in Gate!Frames(s \o t)
  <2>1. i \in DOMAIN (s \o t) /\ (s \o t)[i] = s[i]
    BY <1>1, <1>2
  <2> QED
    BY <2>1 DEF Gate!Frames
<1>3. ASSUME NEW i \in DOMAIN t
      PROVE  t[i] \in Gate!Frames(s \o t)
  <2>1. Len(s) + i \in DOMAIN (s \o t) /\ (s \o t)[Len(s) + i] = t[i]
    BY <1>1, <1>3
  <2> QED
    BY <2>1 DEF Gate!Frames
<1>4. ASSUME NEW i \in DOMAIN (s \o t)
      PROVE  (s \o t)[i] \in Gate!Frames(s) \cup Gate!Frames(t)
  <2>1. CASE i <= Len(s)
    BY <1>1, <1>4, <2>1 DEF Gate!Frames
  <2>2. CASE ~(i <= Len(s))
    <3>1. i - Len(s) \in DOMAIN t /\ (s \o t)[i] = t[i - Len(s)]
      BY <1>1, <1>4, <2>2
    <3> QED
      BY <3>1 DEF Gate!Frames
  <2> QED
    BY <2>1, <2>2
<1> QED
  BY <1>2, <1>3, <1>4, ConcatProperties DEF Gate!Frames

LEMMA FramesOne ==
  ASSUME NEW S, NEW s \in Seq(S), NEW e \in S
  PROVE  Append(s, e) \in Seq(S) /\ Gate!Frames(Append(s, e)) = Gate!Frames(s) \cup {e}
<1>0. <<e>> \in Seq(S)
  OBVIOUS
<1>1. Append(s, e) = s \o <<e>>
  BY AppendIsConcat
<1>2. Gate!Frames(<<e>>) = {e}
  BY DEF Gate!Frames
<1>3. s \o <<e>> \in Seq(S) /\ Gate!Frames(s \o <<e>>) = Gate!Frames(s) \cup Gate!Frames(<<e>>)
  BY <1>0, FramesConcat
<1> QED
  BY <1>1, <1>2, <1>3

\* The rows in some order: history.pending leaves none out.
LEMMA OrderedRows ==
  ASSUME NEW S, IsFiniteSet(S)
  PROVE  Gate!InOrder(S) \in Seq(S) /\ Gate!Frames(Gate!InOrder(S)) = S
<1>1. Gate!Cardinality(S) = Cardinality(S)
  BY DEF Gate!Cardinality, Cardinality
<1>2. Cardinality(S) \in Nat /\ ExistsBijection(1 .. Cardinality(S), S)
  BY FS_CardinalityType
<1>3. PICK q \in Bijection(1 .. Cardinality(S), S) : TRUE
  BY <1>2 DEF ExistsBijection
<1>4. q \in [1 .. Cardinality(S) -> S] /\ \A x \in S : \E i \in 1 .. Cardinality(S) : q[i] = x
  BY <1>3 DEF Bijection, Surjection
<1>5. Gate!Frames(q) = S
  BY <1>4 DEF Gate!Frames
<1>6. /\ Gate!InOrder(S) \in [1 .. Cardinality(S) -> S]
      /\ Gate!Frames(Gate!InOrder(S)) = S
  BY <1>1, <1>4, <1>5 DEF Gate!InOrder
<1> QED
  BY <1>2, <1>6, SeqDef

LEMMA UndeliveredStarted ==
  ASSUME GateTyped
  PROVE  Gate!Undelivered \subseteq Started /\ IsFiniteSet(Gate!Undelivered)
<1>1. Gate!Undelivered \in SUBSET Started
  BY DEF Gate!Undelivered, Started
<1> QED
  BY <1>1, FS_Subset DEF GateTyped

\* What is sent again goes into the inbox: all of it, unless the gate is shut.
LEMMA ResentRows ==
  ASSUME GateTyped, NEW blocked \in BOOLEAN
  PROVE  /\ Gate!Resent(blocked) \in Seq(Started)
         /\ ~blocked => Gate!Frames(Gate!Resent(blocked)) = Gate!Undelivered
<1>1. <<>> \in Seq(Started)
  BY EmptySeq
<1>2. Gate!InOrder(Gate!Undelivered) \in Seq(Gate!Undelivered)
      /\ Gate!Frames(Gate!InOrder(Gate!Undelivered)) = Gate!Undelivered
  BY UndeliveredStarted, OrderedRows
<1>3. Gate!InOrder(Gate!Undelivered) \in Seq(Started)
  BY <1>2, UndeliveredStarted, SeqMonotonic
<1> QED
  BY <1>1, <1>2, <1>3 DEF Gate!Resent

\* Marking rows as sent, or back as waiting, starts none and ticks none.
LEMMA MarkedRows ==
  ASSUME GateTyped, NEW blocked \in BOOLEAN
  PROVE  /\ Gate!Marked(blocked) \in [Texts -> GateStatuses]
         /\ \A m \in Texts : Gate!Marked(blocked)[m] = "none" <=> row[m] = "none"
         /\ \A m \in Texts : Gate!Marked(blocked)[m] = "delivered" <=> row[m] = "delivered"
BY DEF GateTyped, Gate!Marked, Gate!Undelivered, GateStatuses

LEMMA BackRows ==
  ASSUME NEW r \in [Texts -> GateStatuses], NEW q \in Seq(Started),
         \A m \in Texts : r[m] = "none" <=> row[m] = "none"
  PROVE  /\ Gate!Back(r, q) \in [Texts -> GateStatuses]
         /\ \A m \in Texts : Gate!Back(r, q)[m] = "none" <=> row[m] = "none"
         /\ \A m \in Texts : Gate!Back(r, q)[m] = "delivered" => r[m] = "delivered"
<1>1. Gate!Frames(q) \subseteq Started
  <2>1. ASSUME NEW i \in DOMAIN q
        PROVE  q[i] \in Started
    BY ElementOfSeq, LenProperties
  <2> QED
    BY <2>1 DEF Gate!Frames
<1> QED
  BY <1>1 DEF Gate!Back, GateStatuses, Started

\* Steps that start no message: its types, its ticks.
LEMMA TypedMoves ==
  ASSUME GateTyped,
         row' \in [Texts -> GateStatuses], \A m \in Texts : row'[m] = "none" <=> row[m] = "none",
         step' \in [Texts -> {"idle", "gate", "post", "mark"}],
         \A m \in Texts : step'[m] # "idle" => step[m] # "idle",
         inbox' \in Seq(Started), waiting' \in Seq(Started), lane' \in Seq(Started),
         got' = got \/ got' \subseteq Started
  PROVE  GateTyped' /\ Started' = Started
<1>1. Started' = Started
  BY DEF Started
<1>2. Seq(Started)' = Seq(Started)
  BY <1>1
<1> QED
  BY <1>1, <1>2 DEF GateTyped

LEMMA TickMoves ==
  ASSUME GateAcks, \A m \in Texts : row'[m] = "delivered" => row[m] = "delivered",
         got \subseteq got', events' = events
  PROVE  GateAcks'
BY DEF GateAcks

LEMMA ClosesStay ==
  ASSUME GateCloses, UNCHANGED <<pipe, events>>, opened' \subseteq opened
  PROVE  GateCloses'
BY DEF GateCloses

\* While both channels stay proven, what the peer lacks stays in hand.
LEMMA SteadyStays ==
  ASSUME Gate!SteadyHolds, Gate!Steady' => Gate!Steady,
         Gate!Steady' => \A m \in (Gate!Undelivered \ got)' :
           /\ m \in Gate!Undelivered \ got \/ Gate!InHand(m)'
           /\ Gate!InHand(m) => Gate!InHand(m)' \/ (ReliableClosed \in Gate!Frames(events))'
           /\ ReliableClosed \in Gate!Frames(events) =>
                Gate!InHand(m)' \/ (ReliableClosed \in Gate!Frames(events))'
  PROVE  Gate!SteadyHolds'
BY DEF Gate!SteadyHolds, Gate!Undelivered, ReliableClosed, Gate!At

\* The command threads.
LEMMA HeldThreads ==
  ASSUME GateHeld, NEW k \in Texts, Gate!Say(k) \/ Gate!Thread(k)
  PROVE  GateTyped' /\ GateAcks' /\ GateCloses' /\ Gate!SteadyHolds'
<1>a. GateTyped /\ GateAcks /\ GateCloses /\ Gate!SteadyHolds /\ GateSound
  BY DEF GateHeld
<1>b. UNCHANGED <<conn, tier, p2p, opened, verified, events, pipe, lane, waiting, got>>
  BY DEF Gate!Say, Gate!Thread, Gate!Gate, Gate!Post, Gate!Mark, Gate!flags, Gate!link
<1>c. GateCloses'
  BY <1>a, <1>b, ClosesStay
<1>d. Gate!Steady' = Gate!Steady
  BY <1>b DEF Gate!Steady, Gate!HasLeg
<1>e. /\ row \in [Texts -> GateStatuses] /\ step \in [Texts -> {"idle", "gate", "post", "mark"}]
      /\ inbox \in Seq(Started) /\ waiting \in Seq(Started) /\ lane \in Seq(Started)
      /\ IsFiniteSet(Started) /\ got \subseteq Started
      /\ \A m \in Texts : step[m] # "idle" => m \in Started
  BY <1>a DEF GateTyped
<1>f. (ReliableClosed \in Gate!Frames(events))' = (ReliableClosed \in Gate!Frames(events))
  BY <1>b DEF ReliableClosed, Gate!At
<1>1. CASE Gate!Say(k)
  <2>1. /\ row[k] = "none" /\ row' = [row EXCEPT ![k] = "pending"]
        /\ step' = [step EXCEPT ![k] = "gate"] /\ inbox' = inbox
    BY <1>1 DEF Gate!Say
  <2>2. Started' = Started \cup {k}
    BY <1>e, <2>1 DEF Started
  <2>3. IsFiniteSet(Started')
    BY <1>e, <2>2, FS_AddElement
  <2>4. inbox \in Seq(Started') /\ waiting \in Seq(Started') /\ lane \in Seq(Started')
    BY <1>e, <2>2, SeqMonotonic
  <2>5. row' \in [Texts -> GateStatuses] /\ step' \in [Texts -> {"idle", "gate", "post", "mark"}]
    BY <1>e, <2>1 DEF GateStatuses
  <2>6. \A m \in Texts : step'[m] # "idle" => m \in Started'
    BY <1>e, <2>1, <2>2
  <2>7. GateTyped'
    BY <1>b, <1>e, <2>1, <2>2, <2>3, <2>4, <2>5, <2>6 DEF GateTyped
  <2>8. GateAcks'
    BY <1>a, <1>b, <1>e, <2>1, TickMoves
  <2>9. ASSUME NEW m \in (Gate!Undelivered \ got)'
        PROVE  /\ m \in Gate!Undelivered \ got \/ Gate!InHand(m)'
               /\ Gate!InHand(m) => Gate!InHand(m)'
    BY <1>b, <1>e, <2>1 DEF Gate!Undelivered, Gate!InHand
  <2>10. Gate!SteadyHolds'
    BY <1>a, <1>d, <1>f, <2>9, SteadyStays
  <2> QED
    BY <1>c, <2>7, <2>8, <2>10
<1>2. CASE Gate!Gate(k)
  <2>1. /\ step[k] = "gate" /\ step' = [step EXCEPT ![k] = IF Gate!Blocked THEN "idle" ELSE "post"]
        /\ row' = row /\ inbox' = inbox
    BY <1>2 DEF Gate!Gate
  <2>2. /\ step' \in [Texts -> {"idle", "gate", "post", "mark"}]
        /\ \A m \in Texts : step'[m] # "idle" => step[m] # "idle"
    BY <1>e, <2>1
  <2>3. GateTyped'
    BY <1>a, <1>b, <1>e, <2>1, <2>2, TypedMoves
  <2>4. GateAcks'
    BY <1>a, <1>b, <2>1, TickMoves
  <2>5. ASSUME Gate!Steady', NEW m \in (Gate!Undelivered \ got)'
        PROVE  m \in Gate!Undelivered \ got /\ (Gate!InHand(m) => Gate!InHand(m)')
    <3>1. ~Gate!Blocked
      BY <1>d, <2>5 DEF Gate!Steady, Gate!Blocked
    <3>2. m \in Gate!Undelivered \ got /\ m \in Texts
      BY <1>b, <2>1 DEF Gate!Undelivered
    <3>3. step'[m] = IF m = k THEN "post" ELSE step[m]
      BY <1>e, <2>1, <3>1, <3>2
    <3> QED
      BY <1>b, <2>1, <3>2, <3>3 DEF Gate!InHand
  <2>6. Gate!SteadyHolds'
    BY <1>a, <1>d, <1>f, <2>5, SteadyStays
  <2> QED
    BY <1>c, <2>3, <2>4, <2>6
<1>3. CASE Gate!Post(k)
  <2>1. /\ step[k] = "post" /\ step' = [step EXCEPT ![k] = "mark"]
        /\ row' = row /\ inbox' = Append(inbox, k)
    BY <1>3 DEF Gate!Post
  <2>2. /\ step' \in [Texts -> {"idle", "gate", "post", "mark"}]
        /\ \A m \in Texts : step'[m] # "idle" => step[m] # "idle"
    BY <1>e, <2>1
  <2>3. k \in Started
    BY <1>e, <2>1
  <2>4. inbox' \in Seq(Started) /\ Gate!Frames(inbox') = Gate!Frames(inbox) \cup {k}
    BY <1>e, <2>1, <2>3, FramesOne
  <2>5. GateTyped'
    BY <1>a, <1>b, <1>e, <2>1, <2>2, <2>4, TypedMoves
  <2>6. GateAcks'
    BY <1>a, <1>b, <2>1, TickMoves
  <2>7. ASSUME NEW m \in (Gate!Undelivered \ got)'
        PROVE  m \in Gate!Undelivered \ got /\ (Gate!InHand(m) => Gate!InHand(m)')
    <3>1. m \in Gate!Undelivered \ got /\ m \in Texts
      BY <1>b, <2>1 DEF Gate!Undelivered
    <3>2. m # k => step'[m] = step[m]
      BY <1>e, <2>1, <3>1
    <3>3. CASE m = k
      BY <2>4, <3>1, <3>3 DEF Gate!InHand
    <3>4. CASE m # k
      BY <1>b, <2>4, <3>1, <3>2, <3>4 DEF Gate!InHand
    <3> QED
      BY <3>3, <3>4
  <2>8. Gate!SteadyHolds'
    BY <1>a, <1>d, <1>f, <2>7, SteadyStays
  <2> QED
    BY <1>c, <2>5, <2>6, <2>8
<1>4. CASE Gate!Mark(k)
  <2>1. /\ step[k] = "mark" /\ step' = [step EXCEPT ![k] = "idle"]
        /\ row' = [row EXCEPT ![k] = "sent"] /\ inbox' = inbox
    BY <1>4 DEF Gate!Mark
  <2>2. /\ step' \in [Texts -> {"idle", "gate", "post", "mark"}]
        /\ \A m \in Texts : step'[m] # "idle" => step[m] # "idle"
    BY <1>e, <2>1
  <2>3. k \in Started /\ row[k] # "none"
    BY <1>e, <2>1 DEF Started
  <2>4. row' \in [Texts -> GateStatuses] /\ \A m \in Texts : row'[m] = "none" <=> row[m] = "none"
    BY <1>e, <2>1, <2>3 DEF GateStatuses
  <2>5. GateTyped'
    BY <1>a, <1>b, <1>e, <2>1, <2>2, <2>4, TypedMoves
  <2>6. GateAcks'
    BY <1>a, <1>b, <1>e, <2>1, TickMoves
  <2>7. ASSUME NEW m \in (Gate!Undelivered \ got)'
        PROVE  m \in Gate!Undelivered \ got /\ (Gate!InHand(m) => Gate!InHand(m)')
    <3>1. m \in Texts /\ m \notin got
      BY <1>b DEF Gate!Undelivered
    <3>2. m \in Gate!Undelivered
      BY <1>a, <1>e, <2>1, <2>3, <2>7, <3>1 DEF Gate!Undelivered, GateAcks, GateStatuses
    <3>3. step[m] \in {"gate", "post"} => step'[m] = step[m]
      BY <1>e, <2>1, <3>1
    <3> QED
      BY <1>b, <2>1, <3>1, <3>2, <3>3 DEF Gate!InHand
  <2>8. Gate!SteadyHolds'
    BY <1>a, <1>d, <1>f, <2>7, SteadyStays
  <2> QED
    BY <1>c, <2>5, <2>6, <2>8
<1> QED
  BY <1>1, <1>2, <1>3, <1>4 DEF Gate!Thread

\* flush: what is queued is on the channel, or still queued while the leg is
\* full, or back at waiting; without a round the channel is about to close.
LEMMA FlushHolds ==
  ASSUME GateHeld, NEW q \in Seq(Started), Gate!Flushed(q),
         UNCHANGED <<conn, tier, p2p, opened, verified, events, pipe, tight, got, step>>,
         inbox' \in Seq(Started),
         Gate!Frames(inbox) \cup Gate!Frames(waiting) \subseteq Gate!Frames(inbox') \cup Gate!Frames(q)
  PROVE  GateTyped' /\ GateAcks' /\ GateCloses' /\ Gate!SteadyHolds'
<1>a. GateTyped /\ GateAcks /\ GateCloses /\ Gate!SteadyHolds
  BY DEF GateHeld
<1>b. /\ waiting' = IF Gate!HasLeg /\ tight THEN q ELSE <<>>
      /\ lane' = IF Gate!HasLeg /\ ~tight /\ pipe THEN lane \o q ELSE lane
      /\ row' = IF Gate!HasLeg THEN row ELSE Gate!Back(row, q)
  BY DEF Gate!Flushed
<1>c. /\ lane \in Seq(Started) /\ row \in [Texts -> GateStatuses]
      /\ step \in [Texts -> {"idle", "gate", "post", "mark"}]
  BY <1>a DEF GateTyped
<1>d. lane \o q \in Seq(Started) /\ Gate!Frames(lane \o q) = Gate!Frames(lane) \cup Gate!Frames(q)
  BY <1>c, FramesConcat
<1>e. waiting' \in Seq(Started) /\ lane' \in Seq(Started)
  <2>1. <<>> \in Seq(Started)
    BY EmptySeq
  <2> QED
    BY <1>b, <1>c, <1>d, <2>1
<1>f. /\ row' \in [Texts -> GateStatuses] /\ \A m \in Texts : row'[m] = "none" <=> row[m] = "none"
      /\ \A m \in Texts : row'[m] = "delivered" => row[m] = "delivered"
  <2>1. /\ Gate!Back(row, q) \in [Texts -> GateStatuses]
        /\ \A m \in Texts : Gate!Back(row, q)[m] = "none" <=> row[m] = "none"
        /\ \A m \in Texts : Gate!Back(row, q)[m] = "delivered" => row[m] = "delivered"
    BY <1>c, BackRows
  <2> QED
    BY <1>b, <1>c, <2>1
<1>1. GateTyped'
  BY <1>a, <1>c, <1>e, <1>f, TypedMoves
<1>2. GateAcks' /\ GateCloses'
  BY <1>a, <1>f, TickMoves, ClosesStay
<1>3. Gate!Steady' = Gate!Steady
  BY DEF Gate!Steady, Gate!HasLeg
<1>4. ASSUME Gate!Steady', NEW m \in (Gate!Undelivered \ got)'
      PROVE  /\ m \in Gate!Undelivered \ got
             /\ Gate!InHand(m) => Gate!InHand(m)' \/ ReliableClosed \in Gate!Frames(events)
  <2>1. Gate!HasLeg /\ "reliable" \in opened
    BY <1>3, <1>4 DEF Gate!Steady, Gate!HasLeg
  <2>2. row' = row
    BY <1>b, <2>1
  <2>3. m \in Gate!Undelivered \ got
    BY <2>2 DEF Gate!Undelivered
  <2>4. CASE ~tight /\ ~pipe
    BY <1>a, <2>1, <2>3, <2>4 DEF GateCloses
  <2>5. CASE tight \/ pipe
    <3>1. /\ Gate!Frames(lane) \subseteq Gate!Frames(lane')
          /\ Gate!Frames(q) \subseteq Gate!Frames(waiting') \cup Gate!Frames(lane')
      BY <1>b, <1>d, <2>1, <2>5
    <3> QED
      BY <2>3, <3>1 DEF Gate!InHand
  <2> QED
    BY <2>4, <2>5
<1>5. Gate!SteadyHolds'
  <2>1. (ReliableClosed \in Gate!Frames(events))' = (ReliableClosed \in Gate!Frames(events))
    BY DEF ReliableClosed, Gate!At
  <2> QED
    BY <1>a, <1>3, <1>4, <2>1, SteadyStays
<1> QED
  BY <1>1, <1>2, <1>5

\* resend_pending_chat: what is stored stays so, what is in the inbox as well.
LEMMA ResendGives ==
  ASSUME GateTyped, NEW blocked \in BOOLEAN, Gate!Resend(blocked)
  PROVE  /\ row' \in [Texts -> GateStatuses]
         /\ \A m \in Texts : row'[m] = "none" <=> row[m] = "none"
         /\ \A m \in Texts : row'[m] = "delivered" => row[m] = "delivered"
         /\ (Gate!Undelivered)' = Gate!Undelivered
         /\ inbox' \in Seq(Started) /\ Gate!Frames(inbox) \subseteq Gate!Frames(inbox')
         /\ ~blocked => Gate!Undelivered \subseteq Gate!Frames(inbox')
<1>1. row' = Gate!Marked(blocked) /\ inbox' = inbox \o Gate!Resent(blocked)
  BY DEF Gate!Resend
<1>2. /\ row' \in [Texts -> GateStatuses]
      /\ \A m \in Texts : row'[m] = "none" <=> row[m] = "none"
      /\ \A m \in Texts : row'[m] = "delivered" <=> row[m] = "delivered"
  BY <1>1, MarkedRows
<1>3. \A m \in Texts : row'[m] \in {"pending", "sent"} <=> row[m] \in {"pending", "sent"}
  BY <1>2 DEF GateTyped, GateStatuses
<1>4. Gate!Resent(blocked) \in Seq(Started) /\ inbox \in Seq(Started)
  BY ResentRows DEF GateTyped
<1>5. inbox' \in Seq(Started) /\ Gate!Frames(inbox') = Gate!Frames(inbox) \cup Gate!Frames(Gate!Resent(blocked))
  BY <1>1, <1>4, FramesConcat
<1>6. ~blocked => Gate!Frames(Gate!Resent(blocked)) = Gate!Undelivered
  BY ResentRows
<1>7. (Gate!Undelivered)' = Gate!Undelivered
  BY <1>3 DEF Gate!Undelivered
<1> QED
  BY <1>2, <1>5, <1>6, <1>7

LEMMA BlockedIsTruth == Gate!Blocked \in BOOLEAN
BY DEF Gate!Blocked

\* What the channel is or was about to do, when a notice is read.
LEMMA NoticeRead ==
  ASSUME GateSound, GateAcks, GateCloses, events # <<>>, events' = Tail(events), pipe' = pipe,
         "reliable" \in opened' =>
           \/ "reliable" \in opened /\ Gate!Next1 # ReliableClosed
           \/ Opens(Gate!Next1),
         got' = got, \A m \in Texts : row'[m] = "delivered" => row[m] = "delivered" \/ m \in Gate!Next1.about
  PROVE  /\ GateAcks' /\ GateCloses'
         /\ Gate!Next1 # ReliableClosed =>
              (ReliableClosed \in Gate!Frames(events) => ReliableClosed \in Gate!Frames(events'))
<1>1. PICK X : events \in Seq(Notices(X))
  BY DEF GateSound
<1>2. /\ Len(events) \in Nat /\ Len(events) >= 1 /\ Tail(events) \in Seq(Notices(X))
      /\ Len(Tail(events)) = Len(events) - 1
      /\ \A i \in 1 .. Len(Tail(events)) : Tail(events)[i] = events[i + 1]
      /\ DOMAIN events = 1 .. Len(events) /\ DOMAIN Tail(events) = 1 .. Len(Tail(events))
      /\ Gate!Next1 = events[1]
  BY <1>1, HeadTailProperties, LenProperties, EmptySeq DEF Gate!Next1
<1>3. Gate!Frames(events) = {Gate!Next1} \cup Gate!Frames(events')
  BY <1>1, FramesTail DEF Gate!Next1
<1>4. \A i \in DOMAIN events' : i + 1 \in DOMAIN events /\ events'[i] = events[i + 1]
  BY <1>2
<1>5. GateAcks'
  <2>1. ASSUME NEW i \in DOMAIN events'
        PROVE  events'[i].about \subseteq got'
    BY <1>4, <2>1 DEF GateAcks
  <2>2. Gate!Next1.about \subseteq got
    <3>1. 1 \in DOMAIN events
      BY <1>2
    <3> QED
      BY <1>2, <3>1 DEF GateAcks
  <2> QED
    BY <2>1, <2>2 DEF GateAcks
<1>6. ASSUME ~pipe
      PROVE  /\ "reliable" \in opened' => ReliableClosed \in Gate!Frames(events')
             /\ \A i \in DOMAIN events' :
                  Opens(events'[i]) =>
                    \E j \in DOMAIN events' : i < j /\ events'[j] = ReliableClosed
  <2>1. ASSUME NEW i \in DOMAIN events', Opens(events'[i])
        PROVE  \E j \in DOMAIN events' : i < j /\ events'[j] = ReliableClosed
    <3>1. i + 1 \in DOMAIN events /\ Opens(events[i + 1])
      BY <1>4, <2>1
    <3>2. PICK j \in DOMAIN events : i + 1 < j /\ events[j] = ReliableClosed
      BY <1>6, <3>1 DEF GateCloses
    <3>3. j - 1 \in DOMAIN events' /\ i < j - 1 /\ events'[j - 1] = events[j]
      BY <1>2, <2>1, <3>2
    <3> QED
      BY <3>2, <3>3
  <2>2. ASSUME Opens(Gate!Next1)
        PROVE  ReliableClosed \in Gate!Frames(events')
    <3>1. 1 \in DOMAIN events /\ Opens(events[1])
      BY <1>2, <2>2
    <3>2. PICK j \in DOMAIN events : 1 < j /\ events[j] = ReliableClosed
      BY <1>6, <3>1 DEF GateCloses
    <3>3. j - 1 \in DOMAIN events' /\ events'[j - 1] = events[j]
      BY <1>2, <3>2
    <3> QED
      BY <3>2, <3>3 DEF Gate!Frames
  <2>3. ASSUME "reliable" \in opened, Gate!Next1 # ReliableClosed
        PROVE  ReliableClosed \in Gate!Frames(events')
    BY <1>3, <1>6, <2>3 DEF GateCloses
  <2> QED
    BY <2>1, <2>2, <2>3
<1>7. GateCloses'
  <2>1. (ReliableClosed \in Gate!Frames(events))' = (ReliableClosed \in Gate!Frames(events'))
        /\ ReliableClosed' = ReliableClosed
    BY DEF ReliableClosed, Gate!At
  <2> QED
    BY <1>6, <2>1 DEF GateCloses, Opens
<1> QED
  BY <1>3, <1>5, <1>7

\* More notices behind those that are there.
LEMMA NoticesAdded ==
  ASSUME GateSound, GateAcks, GateCloses, NEW t, (\E X : t \in Seq(Notices(X))), events' = events \o t,
         \A i \in DOMAIN t : t[i].about \subseteq got', got \subseteq got',
         \A i \in DOMAIN t : ~pipe' => ~Opens(t[i]),
         ~pipe' => ~pipe \/ ReliableClosed \in Gate!Frames(t),
         row' = row, opened' = opened
  PROVE  /\ GateAcks' /\ GateCloses'
         /\ ReliableClosed \in Gate!Frames(events) \cup Gate!Frames(t) => ReliableClosed \in Gate!Frames(events')
<1>1. PICK X : events \in Seq(Notices(X))
  BY DEF GateSound
<1>2. PICK Y : t \in Seq(Notices(Y))
  OBVIOUS
<1>3. Notices(X) \subseteq Notices(X \cup Y) /\ Notices(Y) \subseteq Notices(X \cup Y)
  BY DEF Notices
<1>4. events \in Seq(Notices(X \cup Y)) /\ t \in Seq(Notices(X \cup Y))
  BY <1>1, <1>2, <1>3, SeqMonotonic
<1>5. /\ Len(events) \in Nat /\ Len(t) \in Nat
      /\ DOMAIN events = 1 .. Len(events) /\ DOMAIN t = 1 .. Len(t)
      /\ DOMAIN events' = 1 .. Len(events) + Len(t)
      /\ \A i \in 1 .. Len(events) + Len(t) :
           events'[i] = IF i <= Len(events) THEN events[i] ELSE t[i - Len(events)]
  BY <1>4, ConcatProperties, LenProperties
<1>6. Gate!Frames(events') = Gate!Frames(events) \cup Gate!Frames(t)
  BY <1>4, FramesConcat
<1>7. ASSUME NEW i \in DOMAIN events'
      PROVE  \/ i \in DOMAIN events /\ events'[i] = events[i]
             \/ i - Len(events) \in DOMAIN t /\ events'[i] = t[i - Len(events)]
  BY <1>5, <1>7
<1>8. GateAcks'
  <2>1. \A i \in DOMAIN events' : events'[i].about \subseteq got'
    BY <1>7 DEF GateAcks
  <2> QED
    BY <2>1 DEF GateAcks
<1>9. ASSUME ~pipe'
      PROVE  /\ "reliable" \in opened' => ReliableClosed \in Gate!Frames(events')
             /\ \A i \in DOMAIN events' :
                  Opens(events'[i]) =>
                    \E j \in DOMAIN events' : i < j /\ events'[j] = ReliableClosed
  <2>1. "reliable" \in opened' => ReliableClosed \in Gate!Frames(events')
    BY <1>6, <1>9 DEF GateCloses
  <2>2. ASSUME NEW i \in DOMAIN events', Opens(events'[i])
        PROVE  \E j \in DOMAIN events' : i < j /\ events'[j] = ReliableClosed
    <3>1. i \in DOMAIN events /\ Opens(events[i])
      BY <1>7, <1>9, <2>2
    <3>2. CASE ~pipe
      <4>1. PICK j \in DOMAIN events : i < j /\ events[j] = ReliableClosed
        BY <3>1, <3>2 DEF GateCloses
      <4>2. j \in DOMAIN events' /\ events'[j] = events[j]
        BY <1>5, <4>1
      <4> QED
        BY <4>1, <4>2
    <3>3. CASE ReliableClosed \in Gate!Frames(t)
      <4>1. PICK j \in DOMAIN t : t[j] = ReliableClosed
        BY <3>3 DEF Gate!Frames
      <4>2. Len(events) + j \in DOMAIN events' /\ events'[Len(events) + j] = t[j] /\ i < Len(events) + j
        BY <1>5, <3>1, <4>1
      <4> QED
        BY <4>1, <4>2
    <3> QED
      BY <1>9, <3>2, <3>3
  <2> QED
    BY <2>1, <2>2
<1>10. GateCloses'
  <2>1. ReliableClosed' = ReliableClosed
    BY DEF ReliableClosed, Gate!At
  <2>2. (ReliableClosed \in Gate!Frames(events))' = (ReliableClosed \in Gate!Frames(events'))
    BY <2>1
  <2> QED
    BY <1>9, <2>1, <2>2 DEF GateCloses, Opens
<1> QED
  BY <1>6, <1>8, <1>10

\* A step after which the two channels are not both proven strands nothing.
LEMMA NotSteady ==
  ASSUME ~Gate!Steady' PROVE Gate!SteadyHolds'
BY DEF Gate!SteadyHolds

LEMMA SteadyMeans ==
  Gate!Steady' <=> (conn' = "live" /\ p2p' = "connected" /\ "reliable" \in opened' \cap verified')
BY DEF Gate!Steady, Gate!HasLeg

\* The session's own steps.
LEMMA HeldSession ==
  ASSUME GateHeld, Gate!Session \/ Gate!Wake \/ Gate!PeerOnline \/ Gate!Lose \/ Gate!Ticker
  PROVE  GateTyped' /\ GateAcks' /\ GateCloses' /\ Gate!SteadyHolds'
<1>a. GateTyped /\ GateAcks /\ GateCloses /\ Gate!SteadyHolds /\ GateSound
  BY DEF GateHeld
<1>b. /\ row \in [Texts -> GateStatuses] /\ step \in [Texts -> {"idle", "gate", "post", "mark"}]
      /\ inbox \in Seq(Started) /\ waiting \in Seq(Started) /\ lane \in Seq(Started)
      /\ <<>> \in Seq(Started)
  BY <1>a, EmptySeq DEF GateTyped
<1>c. (UNCHANGED events) => (ReliableClosed \in Gate!Frames(events))' = (ReliableClosed \in Gate!Frames(events))
  BY DEF ReliableClosed, Gate!At
<1>1. CASE Gate!Take
  <2>1. /\ inbox # <<>> /\ inbox' = Tail(inbox) /\ Gate!Flushed(Append(waiting, Head(inbox)))
        /\ UNCHANGED <<conn, tier, p2p, opened, verified, events, pipe, tight, got, step>>
    BY <1>1 DEF Gate!Take, Gate!flags
  <2>2. /\ Head(inbox) \in Started /\ Tail(inbox) \in Seq(Started)
        /\ Gate!Frames(inbox) = {Head(inbox)} \cup Gate!Frames(Tail(inbox))
    BY <1>b, <2>1, FramesTail
  <2>3. /\ Append(waiting, Head(inbox)) \in Seq(Started)
        /\ Gate!Frames(Append(waiting, Head(inbox))) = Gate!Frames(waiting) \cup {Head(inbox)}
    BY <1>b, <2>2, FramesOne
  <2>4. Gate!Frames(inbox) \cup Gate!Frames(waiting)
          \subseteq Gate!Frames(inbox') \cup Gate!Frames(Append(waiting, Head(inbox)))
    BY <2>1, <2>2, <2>3
  <2> QED
    BY <2>1, <2>2, <2>3, <2>4, FlushHolds
<1>2. CASE Gate!Wake
  <2>1. /\ inbox' = inbox /\ Gate!Flushed(waiting)
        /\ UNCHANGED <<conn, tier, p2p, opened, verified, events, pipe, tight, got, step>>
    BY <1>2 DEF Gate!Wake, Gate!flags
  <2> QED
    BY <1>b, <2>1, FlushHolds
<1>3. CASE Gate!Queue
  <2>1. /\ conn = "backoff" /\ inbox # <<>> /\ inbox' = Tail(inbox)
        /\ waiting' = Append(waiting, Head(inbox))
        /\ UNCHANGED <<conn, opened, events, pipe, lane, row, got, step>>
    BY <1>3 DEF Gate!Queue, Gate!flags, Gate!link
  <2>2. inbox' \in Seq(Started) /\ waiting' \in Seq(Started)
    BY <1>b, <2>1, FramesTail, FramesOne
  <2>3. GateTyped'
    BY <1>a, <1>b, <2>1, <2>2, TypedMoves
  <2>4. GateAcks' /\ GateCloses'
    BY <1>a, <2>1, TickMoves, ClosesStay
  <2>5. ~Gate!Steady'
    BY <2>1, SteadyMeans
  <2> QED
    BY <2>3, <2>4, <2>5, NotSteady
<1>4. CASE Gate!Welcome
  <2>1. /\ inbox' = inbox \o Gate!Resent(Gate!Blocked)
        /\ row' = Gate!Back(Gate!Marked(Gate!Blocked), waiting)
        /\ waiting' = <<>> /\ opened' = {}
        /\ UNCHANGED <<events, pipe, lane, got, step>>
    BY <1>4 DEF Gate!Welcome, Gate!link
  <2>2. inbox' \in Seq(Started)
    BY <1>a, <1>b, <2>1, BlockedIsTruth, ResentRows, FramesConcat
  <2>3. /\ Gate!Marked(Gate!Blocked) \in [Texts -> GateStatuses]
        /\ \A m \in Texts : Gate!Marked(Gate!Blocked)[m] = "none" <=> row[m] = "none"
        /\ \A m \in Texts : Gate!Marked(Gate!Blocked)[m] = "delivered" <=> row[m] = "delivered"
    BY <1>a, BlockedIsTruth, MarkedRows
  <2>4. /\ row' \in [Texts -> GateStatuses] /\ \A m \in Texts : row'[m] = "none" <=> row[m] = "none"
        /\ \A m \in Texts : row'[m] = "delivered" => row[m] = "delivered"
    <3>1. /\ row' \in [Texts -> GateStatuses] /\ \A m \in Texts : row'[m] = "none" <=> row[m] = "none"
          /\ \A m \in Texts : row'[m] = "delivered" => Gate!Marked(Gate!Blocked)[m] = "delivered"
      BY <1>b, <2>1, <2>3, BackRows
    <3> QED
      BY <2>3, <3>1
  <2>5. GateTyped'
    BY <1>a, <1>b, <2>1, <2>2, <2>4, TypedMoves
  <2>6. GateAcks' /\ GateCloses'
    BY <1>a, <2>1, <2>4, TickMoves, ClosesStay
  <2>7. ~Gate!Steady'
    BY <2>1, SteadyMeans
  <2> QED
    BY <2>5, <2>6, <2>7, NotSteady
<1>5. CASE Gate!PeerOnline
  <2>1. /\ Gate!Resend(Gate!Blocked)
        /\ UNCHANGED <<conn, p2p, opened, verified, events, pipe, lane, waiting, got, step>>
    BY <1>5 DEF Gate!PeerOnline, Gate!flags, Gate!link
  <2>2. /\ row' \in [Texts -> GateStatuses] /\ \A m \in Texts : row'[m] = "none" <=> row[m] = "none"
        /\ \A m \in Texts : row'[m] = "delivered" => row[m] = "delivered"
        /\ (Gate!Undelivered)' = Gate!Undelivered
        /\ inbox' \in Seq(Started) /\ Gate!Frames(inbox) \subseteq Gate!Frames(inbox')
    BY <1>a, <2>1, BlockedIsTruth, ResendGives
  <2>3. GateTyped'
    BY <1>a, <1>b, <2>1, <2>2, TypedMoves
  <2>4. GateAcks' /\ GateCloses'
    BY <1>a, <2>1, <2>2, TickMoves, ClosesStay
  <2>5. Gate!Steady' = Gate!Steady
    BY <2>1 DEF Gate!Steady, Gate!HasLeg
  <2>6. ASSUME NEW m \in (Gate!Undelivered \ got)'
        PROVE  m \in Gate!Undelivered \ got /\ (Gate!InHand(m) => Gate!InHand(m)')
    BY <2>1, <2>2 DEF Gate!InHand
  <2>7. Gate!SteadyHolds'
    BY <1>a, <1>c, <2>1, <2>5, <2>6, SteadyStays
  <2> QED
    BY <2>3, <2>4, <2>7
<1>6. CASE Gate!Lose
  <2>1. /\ conn' = "lost" /\ opened' = {} /\ lane' = <<>> /\ events' = <<>>
        /\ UNCHANGED <<inbox, waiting, row, got, step>>
    BY <1>6 DEF Gate!Lose, Gate!chat
  <2>2. GateTyped'
    BY <1>a, <1>b, <2>1, TypedMoves
  <2>3. GateAcks' /\ GateCloses'
    BY <1>a, <2>1 DEF GateAcks, GateCloses
  <2>4. ~Gate!Steady'
    BY <2>1, SteadyMeans
  <2> QED
    BY <2>2, <2>3, <2>4, NotSteady
<1>7. CASE Gate!Reconnecting \/ \E w \in Gate!Ways : Gate!Probe(w)
  <2>1. /\ UNCHANGED <<opened, verified, events, pipe, lane, inbox, waiting, row, got, step>>
        /\ conn' = "backoff" \/ UNCHANGED <<conn, p2p>>
    BY <1>7 DEF Gate!Reconnecting, Gate!Probe, Gate!flags, Gate!link, Gate!chat
  <2>2. GateTyped'
    BY <1>a, <1>b, <2>1, TypedMoves
  <2>3. GateAcks' /\ GateCloses'
    BY <1>a, <2>1, TickMoves, ClosesStay
  <2>4. Gate!Steady' => Gate!Steady
    BY <2>1 DEF Gate!Steady, Gate!HasLeg
  <2>5. ASSUME NEW m \in (Gate!Undelivered \ got)'
        PROVE  m \in Gate!Undelivered \ got /\ (Gate!InHand(m) => Gate!InHand(m)')
    BY <2>1 DEF Gate!InHand, Gate!Undelivered
  <2>6. Gate!SteadyHolds'
    BY <1>a, <1>c, <2>1, <2>4, <2>5, SteadyStays
  <2> QED
    BY <2>2, <2>3, <2>6
<1>8. ASSUME NEW w \in Gate!Ways, Gate!Timeout(w)
      PROVE  GateTyped' /\ GateAcks' /\ GateCloses' /\ Gate!SteadyHolds'
  <2>1. /\ opened' = opened \ {w}
        /\ UNCHANGED <<events, pipe, lane, waiting, got, step>>
        /\ w = "pet" => p2p' = "connecting"
        /\ UNCHANGED <<inbox, row>> \/ Gate!Resend(Gate!Blocked)
    BY <1>8 DEF Gate!Timeout, Gate!link
  <2>2. /\ row' \in [Texts -> GateStatuses] /\ \A m \in Texts : row'[m] = "none" <=> row[m] = "none"
        /\ \A m \in Texts : row'[m] = "delivered" => row[m] = "delivered"
        /\ inbox' \in Seq(Started)
    <3>1. CASE Gate!Resend(Gate!Blocked)
      BY <1>a, <3>1, BlockedIsTruth, ResendGives
    <3> QED
      BY <1>b, <2>1, <3>1
  <2>3. GateTyped'
    BY <1>a, <1>b, <2>1, <2>2, TypedMoves
  <2>4. GateAcks' /\ GateCloses'
    BY <1>a, <2>1, <2>2, TickMoves, ClosesStay
  <2>5. ~Gate!Steady'
    BY <1>8, <2>1, SteadyMeans DEF Gate!Ways
  <2> QED
    BY <2>3, <2>4, <2>5, NotSteady
<1> QED
  BY <1>1, <1>2, <1>3, <1>4, <1>5, <1>6, <1>7, <1>8 DEF Gate!Session, Gate!Ticker

\* The notices of the leg.  The proof that makes both channels proven is the
\* one that sends again whatever the peer lacks.
LEMMA HeldReads ==
  ASSUME GateHeld, Gate!Reads
  PROVE  GateTyped' /\ GateAcks' /\ GateCloses' /\ Gate!SteadyHolds'
<1>a. GateTyped /\ GateAcks /\ GateCloses /\ Gate!SteadyHolds /\ GateSound
  BY DEF GateHeld
<1>b. /\ row \in [Texts -> GateStatuses] /\ step \in [Texts -> {"idle", "gate", "post", "mark"}]
      /\ inbox \in Seq(Started) /\ waiting \in Seq(Started) /\ lane \in Seq(Started)
  BY <1>a DEF GateTyped
<1>c. /\ conn = "live" /\ events # <<>> /\ events' = Tail(events)
      /\ UNCHANGED <<conn, tier, pipe, lane, waiting, got, step>>
  BY DEF Gate!Reads, Gate!Negotiating, Gate!ChannelOpen, Gate!ChannelClosed, Gate!Unreachable,
         Gate!Inbound, Gate!Event, Gate!Consumed, Gate!link, Gate!chat
<1>d. Gate!Next1.way \in Gate!Ways
  BY <1>a, <1>c, NextNotice
<1>d2. \E X : Gate!Next1 \in Notices(X)
  BY <1>a, <1>c, HeadTailProperties DEF GateSound, Gate!Next1
<1>e. ReliableClosed.kind = "closed" /\ ReliableClosed.way = "reliable"
  BY DEF Gate!At, ReliableClosed
<1>1. CASE Gate!Negotiating \/ Gate!Unreachable
  <2>1. /\ Gate!Next1.kind \in {"negotiating", "unreachable"} /\ p2p' # "connected"
        /\ UNCHANGED <<opened, inbox, row>>
    BY <1>1 DEF Gate!Negotiating, Gate!Unreachable, Gate!Event, Gate!flags, Gate!chat
  <2>2. GateTyped'
    BY <1>a, <1>b, <1>c, <2>1, TypedMoves
  <2>3. GateAcks' /\ GateCloses'
    BY <1>a, <1>c, <1>e, <2>1, NoticeRead
  <2>4. ~Gate!Steady'
    BY <2>1, SteadyMeans
  <2> QED
    BY <2>2, <2>3, <2>4, NotSteady
<1>2. CASE Gate!ChannelOpen
  <2>1. /\ Gate!Next1.kind = "open" /\ opened' = opened \cup {Gate!Next1.way}
        /\ verified' = verified \ {Gate!Next1.way}
        /\ p2p' = IF Gate!Next1.way = "pet" THEN "connecting" ELSE p2p
        /\ UNCHANGED <<inbox, row>>
    BY <1>2 DEF Gate!ChannelOpen, Gate!Event, Gate!chat
  <2>2. GateTyped'
    BY <1>a, <1>b, <1>c, <2>1, TypedMoves
  <2>3. "reliable" \in opened' =>
          ("reliable" \in opened /\ Gate!Next1 # ReliableClosed) \/ Opens(Gate!Next1)
    BY <1>e, <2>1 DEF Opens
  <2>4. GateAcks' /\ GateCloses'
    BY <1>a, <1>c, <2>1, <2>3, NoticeRead
  <2>5. ~Gate!Steady'
    BY <1>d, <2>1, SteadyMeans DEF Gate!Ways
  <2> QED
    BY <2>2, <2>4, <2>5, NotSteady
<1>3. CASE Gate!ChannelClosed
  <2>1. /\ Gate!Next1.kind = "closed" /\ opened' = opened \ {Gate!Next1.way}
        /\ verified' = verified \ {Gate!Next1.way}
        /\ Gate!Next1.way = "pet" => p2p' = "connecting"
        /\ UNCHANGED <<inbox, row>> \/ Gate!Resend(Gate!Blocked)
    BY <1>3 DEF Gate!ChannelClosed, Gate!Event
  <2>2. /\ row' \in [Texts -> GateStatuses] /\ \A m \in Texts : row'[m] = "none" <=> row[m] = "none"
        /\ \A m \in Texts : row'[m] = "delivered" => row[m] = "delivered"
        /\ inbox' \in Seq(Started)
    <3>1. CASE Gate!Resend(Gate!Blocked)
      BY <1>a, <3>1, BlockedIsTruth, ResendGives
    <3> QED
      BY <1>b, <2>1, <3>1
  <2>3. GateTyped'
    BY <1>a, <1>b, <1>c, <2>2, TypedMoves
  <2>4. "reliable" \in opened' => "reliable" \in opened /\ Gate!Next1 # ReliableClosed
    BY <1>e, <2>1
  <2>5. GateAcks' /\ GateCloses'
    BY <1>a, <1>c, <2>2, <2>4, NoticeRead
  <2>6. ~Gate!Steady'
    BY <1>d, <2>1, SteadyMeans DEF Gate!Ways
  <2> QED
    BY <2>3, <2>5, <2>6, NotSteady
<1>4. CASE Gate!Inbound
  <2> DEFINE w == Gate!Next1.way
             state == IF w = "pet" /\ Gate!Proves(w) THEN "connected" ELSE p2p
             shut == tier = "public" /\ state # "connected"
             base == IF Gate!Proves(w) THEN Gate!Marked(shut) ELSE row
  <2>1. /\ Gate!Next1.kind = "inbound" /\ opened' = opened
        /\ verified' = IF Gate!Proves(w) THEN verified \cup {w} ELSE verified
        /\ p2p' = state
        /\ inbox' = IF Gate!Proves(w) THEN inbox \o Gate!Resent(shut) ELSE inbox
        /\ row' = [m \in Texts |-> IF m \in Gate!Next1.about THEN "delivered" ELSE base[m]]
    BY <1>4 DEF Gate!Inbound, Gate!Event
  <2>2. shut \in BOOLEAN
    OBVIOUS
  <2>3. /\ base \in [Texts -> GateStatuses] /\ \A m \in Texts : base[m] = "none" <=> row[m] = "none"
        /\ \A m \in Texts : base[m] = "delivered" <=> row[m] = "delivered"
    <3> HIDE DEF shut
    <3>1. /\ Gate!Marked(shut) \in [Texts -> GateStatuses]
          /\ \A m \in Texts : Gate!Marked(shut)[m] = "none" <=> row[m] = "none"
          /\ \A m \in Texts : Gate!Marked(shut)[m] = "delivered" <=> row[m] = "delivered"
      BY <1>a, <2>2, MarkedRows
    <3> QED
      BY <1>b, <3>1
  <2>4. Gate!Next1.about \subseteq got /\ got \subseteq Started
    <3>1. 1 \in DOMAIN events /\ Gate!Next1 = events[1]
      BY <1>a, <1>c, HeadTailProperties, LenProperties, EmptySeq DEF GateSound, Gate!Next1
    <3> QED
      BY <1>a, <3>1 DEF GateAcks, GateTyped
  <2>5. /\ row' \in [Texts -> GateStatuses] /\ \A m \in Texts : row'[m] = "none" <=> row[m] = "none"
        /\ \A m \in Texts : row'[m] = "delivered" => row[m] = "delivered" \/ m \in Gate!Next1.about
    <3> HIDE DEF base
    <3> QED
      BY <2>1, <2>3, <2>4 DEF GateStatuses, Started
  <2>6. inbox' \in Seq(Started) /\ Gate!Frames(inbox) \subseteq Gate!Frames(inbox')
        /\ (Gate!Proves(w) /\ ~shut => Gate!Undelivered \subseteq Gate!Frames(inbox'))
    <3> HIDE DEF shut
    <3>1. /\ Gate!Resent(shut) \in Seq(Started)
          /\ ~shut => Gate!Frames(Gate!Resent(shut)) = Gate!Undelivered
      BY <1>a, <2>2, ResentRows
    <3>2. /\ inbox \o Gate!Resent(shut) \in Seq(Started)
          /\ Gate!Frames(inbox \o Gate!Resent(shut)) = Gate!Frames(inbox) \cup Gate!Frames(Gate!Resent(shut))
      BY <1>b, <3>1, FramesConcat
    <3> QED
      BY <1>b, <2>1, <3>1, <3>2
  <2>7. GateTyped'
    BY <1>a, <1>b, <1>c, <2>5, <2>6, TypedMoves
  <2>8. /\ GateAcks' /\ GateCloses'
        /\ ReliableClosed \in Gate!Frames(events) => ReliableClosed \in Gate!Frames(events')
    BY <1>a, <1>c, <1>e, <2>1, <2>5, NoticeRead
  <2>9. (Gate!Undelivered)' \subseteq Gate!Undelivered
    <3> HIDE DEF base
    <3>1. \A m \in Texts : row'[m] \in {"pending", "sent"} => base[m] \in {"pending", "sent"}
      BY <2>1
    <3>2. \A m \in Texts : base[m] \in {"pending", "sent"} => row[m] \in {"pending", "sent"}
      BY <1>b, <2>3 DEF GateStatuses
    <3> QED
      BY <3>1, <3>2 DEF Gate!Undelivered
  <2>10. CASE Gate!Proves(w) /\ ~shut
    <3>1. (Gate!Undelivered)' \subseteq Gate!Frames(inbox')
      BY <2>6, <2>9, <2>10
    <3>2. \A m \in (Gate!Undelivered \ got)' : Gate!InHand(m)'
      BY <3>1 DEF Gate!InHand
    <3> QED
      BY <2>7, <2>8, <3>2 DEF Gate!SteadyHolds, Gate!Undelivered
  <2>11. CASE Gate!Proves(w) /\ shut
    <3>1. p2p' # "connected"
      BY <2>1, <2>11
    <3> QED
      BY <2>7, <2>8, <3>1, SteadyMeans, NotSteady
  <2>12. CASE ~Gate!Proves(w)
    <3>1. UNCHANGED <<conn, p2p, opened, verified>>
      BY <1>c, <2>1, <2>12
    <3>2. Gate!Steady' = Gate!Steady
      BY <3>1 DEF Gate!Steady, Gate!HasLeg
    <3>3. ASSUME NEW m \in (Gate!Undelivered \ got)'
          PROVE  m \in Gate!Undelivered \ got /\ (Gate!InHand(m) => Gate!InHand(m)')
      BY <1>c, <2>6, <2>9 DEF Gate!InHand
    <3>4. ReliableClosed \in Gate!Frames(events) => (ReliableClosed \in Gate!Frames(events))'
      BY <2>8 DEF ReliableClosed, Gate!At
    <3>5. Gate!SteadyHolds'
      BY <1>a, <3>2, <3>3, <3>4, SteadyStays
    <3> QED
      BY <2>7, <2>8, <3>5
  <2> QED
    BY <2>10, <2>11, <2>12
<1> QED
  BY <1>1, <1>2, <1>3, <1>4 DEF Gate!Reads

LEMMA ShortSequences ==
  ASSUME NEW S, NEW x \in S, NEW y \in S, NEW z \in S
  PROVE  /\ <<x>> \o <<y>> = <<x, y>>
         /\ <<x>> \in Seq(S) /\ <<x, y>> \in Seq(S) /\ <<x, y, z>> \in Seq(S) /\ <<>> \in Seq(S)
<1>1. <<x>> \in Seq(S) /\ <<y>> \in Seq(S) /\ <<x, y>> \in Seq(S) /\ <<x, y, z>> \in Seq(S) /\ <<>> \in Seq(S)
  OBVIOUS
<1>2. Append(<<x>>, y) = <<x>> \o <<y>>
  BY <1>1, AppendIsConcat
<1>3. Append(<<x>>, y) = <<x, y>>
  <2>1. /\ Append(<<x>>, y) \in Seq(S) /\ Len(Append(<<x>>, y)) = 2
        /\ Append(<<x>>, y)[1] = x /\ Append(<<x>>, y)[2] = y
    <3>1. Len(<<x>>) = 1 /\ <<x>>[1] = x
      OBVIOUS
    <3> QED
      BY <1>1, <3>1, AppendProperties
  <2>2. Len(<<x, y>>) = 2 /\ <<x, y>>[1] = x /\ <<x, y>>[2] = y
    OBVIOUS
  <2>3. \A i \in 1 .. 2 : Append(<<x>>, y)[i] = <<x, y>>[i]
    BY <2>1, <2>2
  <2> QED
    BY <1>1, <2>1, <2>2, <2>3, SeqEqual
<1> QED
  BY <1>1, <1>2, <1>3

\* The leg and the peer: rounds, stalls, and what arrives.
LEMMA HeldLeg ==
  ASSUME GateHeld,
         \/ Gate!RoundUp \/ Gate!RoundDown \/ Gate!Fill \/ Gate!Drain \/ Gate!Receive
         \/ \E w \in Gate!Ways : Gate!Stall(w) \/ Gate!Recover(w) \/ Gate!Arrive(w)
  PROVE  GateTyped' /\ GateAcks' /\ GateCloses' /\ Gate!SteadyHolds'
<1>a. GateTyped /\ GateAcks /\ GateCloses /\ Gate!SteadyHolds /\ GateSound
  BY DEF GateHeld
<1>b. /\ row \in [Texts -> GateStatuses] /\ step \in [Texts -> {"idle", "gate", "post", "mark"}]
      /\ inbox \in Seq(Started) /\ waiting \in Seq(Started) /\ lane \in Seq(Started)
      /\ <<>> \in Seq(Started) /\ got \subseteq Started
  BY <1>a, EmptySeq DEF GateTyped
<1>c. UNCHANGED <<conn, tier, p2p, opened, verified, inbox, waiting, row, step>>
  BY DEF Gate!RoundUp, Gate!RoundDown, Gate!Fill, Gate!Drain, Gate!Receive, Gate!Stall,
         Gate!Recover, Gate!Arrive, Gate!flags, Gate!chat
<1>d. Gate!Steady' = Gate!Steady
  BY <1>c DEF Gate!Steady, Gate!HasLeg
<1>e. (ReliableClosed \in Gate!Frames(events))' = (ReliableClosed \in Gate!Frames(events'))
  BY DEF ReliableClosed, Gate!At
<1>1. ASSUME lane' \in Seq(Started), got' = got \/ got' \subseteq Started
      PROVE  GateTyped'
  BY <1>1, <1>a, <1>b, <1>c, TypedMoves
<1>2. ASSUME got \subseteq got',
             ReliableClosed \in Gate!Frames(events) => ReliableClosed \in Gate!Frames(events'),
             Gate!Steady => Gate!Frames(lane) \subseteq Gate!Frames(lane') \cup got' \/ ReliableClosed \in Gate!Frames(events')
      PROVE  Gate!SteadyHolds'
  <2>1. ASSUME Gate!Steady', NEW m \in (Gate!Undelivered \ got)'
        PROVE  /\ m \in Gate!Undelivered \ got
               /\ Gate!InHand(m) => Gate!InHand(m)' \/ ReliableClosed \in Gate!Frames(events')
    BY <1>2, <1>c, <1>d, <2>1 DEF Gate!Undelivered, Gate!InHand
  <2> QED
    BY <1>2, <1>a, <1>d, <1>e, <2>1, SteadyStays
<1>3. CASE Gate!Fill \/ Gate!Drain \/ \E w \in Gate!Ways : Gate!Stall(w) \/ Gate!Recover(w)
  <2>1. UNCHANGED <<events, pipe, lane, got>>
    BY <1>3 DEF Gate!Fill, Gate!Drain, Gate!Stall, Gate!Recover, Gate!chat
  <2>2. GateAcks' /\ GateCloses'
    BY <1>a, <1>c, <2>1, TickMoves, ClosesStay
  <2> QED
    BY <1>1, <1>2, <1>b, <2>1, <2>2
<1>4. CASE Gate!RoundUp
  <2>1. ~pipe /\ pipe' = TRUE /\ lane' = <<>> /\ got' = got
    BY <1>4 DEF Gate!RoundUp, Gate!chat
  <2>2. PICK w \in Gate!Ways :
          events' = events \o <<Gate!At("open", w)>> \o <<Gate!At("open", CHOOSE v \in Gate!Ways : v # w)>>
    BY <1>4 DEF Gate!RoundUp
  <2> DEFINE v == CHOOSE v \in Gate!Ways : v # w
             t == <<Gate!At("open", w), Gate!At("open", v)>>
  <2>3. v \in Gate!Ways
    BY DEF Gate!Ways
  <2> HIDE DEF v
  <2>4. /\ Gate!At("open", w) \in Notices({}) /\ Gate!At("open", v) \in Notices({})
        /\ Gate!At("open", w).about = {} /\ Gate!At("open", v).about = {}
    BY <2>3 DEF Notices, Gate!At
  <2>5. t \in Seq(Notices({})) /\ \A i \in DOMAIN t : t[i].about \subseteq got'
    BY <2>4
  <2>6. events' = events \o t
    <3>1. PICK X : events \in Seq(Notices(X))
      BY <1>a DEF GateSound
    <3>2. /\ <<Gate!At("open", w)>> \in Seq(Notices(X)) /\ <<Gate!At("open", v)>> \in Seq(Notices(X))
      BY <2>3 DEF Notices, Gate!At
    <3>3. events' = (events \o <<Gate!At("open", w)>>) \o <<Gate!At("open", v)>>
      BY <2>2 DEF v
    <3>4. events' = events \o (<<Gate!At("open", w)>> \o <<Gate!At("open", v)>>)
      BY <3>1, <3>2, <3>3, ConcatAssociative
    <3>5. <<Gate!At("open", w)>> \o <<Gate!At("open", v)>> = t
      BY <2>4, ShortSequences
    <3> QED
      BY <3>4, <3>5
  <2>7. /\ GateAcks' /\ GateCloses'
        /\ ReliableClosed \in Gate!Frames(events) => ReliableClosed \in Gate!Frames(events')
    <3> HIDE DEF t
    <3> QED
      BY <1>a, <1>c, <2>1, <2>5, <2>6, NoticesAdded
  <2>8. Gate!Steady => ReliableClosed \in Gate!Frames(events')
    BY <1>a, <2>1, <2>7 DEF Gate!Steady, Gate!HasLeg, GateCloses
  <2> QED
    BY <1>1, <1>2, <1>b, <2>1, <2>7, <2>8
<1>5. CASE Gate!RoundDown
  <2>1. ~pipe' /\ lane' = <<>> /\ got' = got
    BY <1>5 DEF Gate!RoundDown, Gate!chat
  <2>2. PICK hello \in BOOLEAN :
          events' = events \o (IF hello THEN <<Gate!At("negotiating", "pet")>> ELSE <<>>)
                      \o <<Gate!At("closed", "pet"), Gate!At("closed", "reliable"),
                           Gate!At("unreachable", "pet")>>
    BY <1>5 DEF Gate!RoundDown
  <2> DEFINE s == IF hello THEN <<Gate!At("negotiating", "pet")>> ELSE <<>>
             r == <<Gate!At("closed", "pet"), Gate!At("closed", "reliable"), Gate!At("unreachable", "pet")>>
  <2> DEFINE Q == {e \in Notices({}) : e.about = {} /\ ~Opens(e)}
  <2>3. /\ Gate!At("negotiating", "pet") \in Q /\ Gate!At("closed", "pet") \in Q
        /\ Gate!At("closed", "reliable") \in Q /\ Gate!At("unreachable", "pet") \in Q
    BY DEF Notices, Gate!At, Gate!Ways, Opens
  <2>4. s \in Seq(Q) /\ r \in Seq(Q)
    <3> HIDE DEF Q
    <3> QED
      BY <2>3, ShortSequences
  <2>5. r[2] = ReliableClosed /\ 2 \in DOMAIN r
    BY DEF ReliableClosed
  <2>6. s \o r \in Seq(Q) /\ ReliableClosed \in Gate!Frames(s \o r)
    <3>1. ReliableClosed \in Gate!Frames(r)
      BY <2>5 DEF Gate!Frames
    <3> HIDE DEF s, r, Q
    <3> QED
      BY <2>4, <3>1, FramesConcat
  <2>7. events' = events \o (s \o r)
    <3>1. PICK X : events \in Seq(Notices(X))
      BY <1>a DEF GateSound
    <3>2. Q \subseteq Notices(X)
      BY DEF Notices
    <3>3. events' = (events \o s) \o r
      BY <2>2
    <3> HIDE DEF s, r, Q
    <3>4. s \in Seq(Notices(X)) /\ r \in Seq(Notices(X))
      BY <2>4, <3>2, SeqMonotonic
    <3> QED
      BY <3>1, <3>3, <3>4, ConcatAssociative
  <2> DEFINE t == s \o r
  <2>8. /\ t \in Seq(Notices({}))
        /\ \A i \in DOMAIN t : t[i].about = {} /\ ~Opens(t[i])
    <3>1. Q \subseteq Notices({}) /\ \A e \in Q : e.about = {} /\ ~Opens(e)
      OBVIOUS
    <3> HIDE DEF s, r, Q
    <3>2. t \in Seq(Q)
      BY <2>6
    <3>3. t \in Seq(Notices({}))
      BY <3>1, <3>2, SeqMonotonic
    <3>4. \A i \in DOMAIN t : t[i] \in Q
      <4> HIDE DEF t
      <4> QED
        BY <3>2, ElementOfSeq, LenProperties
    <3> QED
      BY <3>1, <3>3, <3>4
  <2>9. /\ GateAcks' /\ GateCloses'
        /\ ReliableClosed \in Gate!Frames(events) \cup Gate!Frames(t) => ReliableClosed \in Gate!Frames(events')
    <3> HIDE DEF s, r
    <3>1. events' = events \o t /\ ReliableClosed \in Gate!Frames(t)
      BY <2>6, <2>7
    <3> HIDE DEF t
    <3> QED
      BY <1>a, <1>c, <2>1, <2>8, <3>1, NoticesAdded
  <2>10. ReliableClosed \in Gate!Frames(events')
    BY <2>6, <2>9
  <2> QED
    BY <1>1, <1>2, <1>b, <2>1, <2>9, <2>10
<1>6. ASSUME NEW w \in Gate!Ways, Gate!Arrive(w)
      PROVE  GateTyped' /\ GateAcks' /\ GateCloses' /\ Gate!SteadyHolds'
  <2>1. pipe /\ pipe' = pipe /\ lane' = lane /\ got' = got /\ events' = Append(events, Gate!At("inbound", w))
    BY <1>6 DEF Gate!Arrive, Gate!link, Gate!chat
  <2> DEFINE t == <<Gate!At("inbound", w)>>
  <2>2. /\ t \in Seq(Notices({})) /\ \A i \in DOMAIN t : t[i].about \subseteq got'
    BY DEF Notices, Gate!At
  <2>3. events' = events \o t
    <3>1. PICK X : events \in Seq(Notices(X))
      BY <1>a DEF GateSound
    <3>2. Gate!At("inbound", w) \in Notices(X)
      BY DEF Notices, Gate!At
    <3>3. Append(events, Gate!At("inbound", w)) = events \o <<Gate!At("inbound", w)>>
      BY <3>1, <3>2, AppendIsConcat
    <3> QED
      BY <2>1, <3>3
  <2>4. /\ GateAcks' /\ GateCloses'
        /\ ReliableClosed \in Gate!Frames(events) => ReliableClosed \in Gate!Frames(events')
    <3> HIDE DEF t
    <3> QED
      BY <1>a, <1>c, <2>1, <2>2, <2>3, NoticesAdded
  <2> QED
    BY <1>1, <1>2, <1>b, <2>1, <2>4
<1>7. CASE Gate!Receive
  <2> DEFINE e == [Gate!At("inbound", "reliable") EXCEPT !.about = {Head(lane)}]
             t == <<e>>
  <2>1. pipe /\ pipe' = pipe /\ lane # <<>> /\ lane' = Tail(lane) /\ got' = got \cup {Head(lane)}
        /\ events' = Append(events, e)
    BY <1>7 DEF Gate!Receive
  <2>2. /\ Head(lane) \in Started /\ lane' \in Seq(Started)
        /\ Gate!Frames(lane) = {Head(lane)} \cup Gate!Frames(lane')
    BY <1>b, <2>1, FramesTail
  <2>3. e \in Notices({Head(lane)}) /\ e.about = {Head(lane)}
    BY DEF Notices, Gate!At, Gate!Ways
  <2> HIDE DEF e
  <2>4. t \in Seq(Notices({Head(lane)})) /\ \A i \in DOMAIN t : t[i].about \subseteq got'
    BY <2>1, <2>3
  <2>5. events' = events \o t
    <3>1. PICK X : events \in Seq(Notices(X))
      BY <1>a DEF GateSound
    <3>2. Notices(X) \subseteq Notices(X \cup {Head(lane)}) /\ e \in Notices(X \cup {Head(lane)})
      BY <2>3 DEF Notices
    <3>3. events \in Seq(Notices(X \cup {Head(lane)}))
      BY <3>1, <3>2, SeqMonotonic
    <3>4. Append(events, e) = events \o <<e>>
      BY <3>2, <3>3, AppendIsConcat
    <3> QED
      BY <2>1, <3>4
  <2>6. /\ GateAcks' /\ GateCloses'
        /\ ReliableClosed \in Gate!Frames(events) => ReliableClosed \in Gate!Frames(events')
    <3> HIDE DEF t
    <3> QED
      BY <1>a, <1>c, <2>1, <2>4, <2>5, NoticesAdded
  <2> QED
    BY <1>1, <1>2, <1>b, <2>1, <2>2, <2>6
<1> QED
  BY <1>3, <1>4, <1>5, <1>6, <1>7

LEMMA InitHeld == Gate!Init => GateHeld
<1> SUFFICES ASSUME Gate!Init PROVE GateHeld
  OBVIOUS
<1>1. Started = {} /\ <<>> \in Seq(Started)
  BY EmptySeq DEF Gate!Init, Started
<1>2. GateTyped
  BY <1>1, FS_EmptySet DEF Gate!Init, GateTyped, GateStatuses
<1>3. GateAcks /\ GateCloses /\ Gate!SteadyHolds
  BY DEF Gate!Init, GateAcks, GateCloses, Gate!SteadyHolds, Gate!Steady
<1> QED
  BY <1>2, <1>3, InitGate DEF GateHeld

LEMMA NextHeld ==
  ASSUME GateHeld, [Gate!Next]_(Gate!vars)
  PROVE  GateHeld'
<1>1. GateSound'
  BY GateKeepsSound DEF GateHeld
<1>2. CASE UNCHANGED Gate!vars
  <2>1. UNCHANGED <<conn, p2p, opened, verified, events, pipe, lane, inbox, waiting, row, got, step>>
    BY <1>2 DEF Gate!vars, Gate!flags, Gate!link, Gate!chat
  <2>2. GateTyped'
    <3>1. Started' = Started
      BY <2>1 DEF Started
    <3> QED
      BY <2>1, <3>1 DEF GateHeld, GateTyped
  <2>3. GateAcks' /\ GateCloses'
    <3>1. \A m \in Texts : row'[m] = "delivered" => row[m] = "delivered"
      BY <2>1
    <3> QED
      BY <2>1, <3>1, TickMoves, ClosesStay DEF GateHeld
  <2>4. Gate!SteadyHolds'
    BY <2>1 DEF GateHeld, Gate!SteadyHolds, Gate!Steady, Gate!HasLeg, Gate!Undelivered, Gate!InHand, Gate!At
  <2> QED
    BY <1>1, <2>2, <2>3, <2>4 DEF GateHeld
<1>3. CASE Gate!Next
  <2>1. GateTyped' /\ GateAcks' /\ GateCloses' /\ Gate!SteadyHolds'
    BY <1>3, HeldThreads, HeldSession, HeldReads, HeldLeg DEF Gate!Next
  <2> QED
    BY <1>1, <2>1 DEF GateHeld
<1> QED
  BY <1>2, <1>3

-----------------------------------------------------------------------------
(* The pacing of frames                                                     *)

\* What a dimension earns in a tick, at the relay and at the client, and what
\* the client saves up.
RelayRate(d) == Pacing!Advertised[d] \div Pacing!TicksPerSecond
Rate(d) == Pacing!Outbound(d).rate
Burst(d) == Pacing!Outbound(d).burst

\* The client stays so far below that what it saved up and a tick more is what
\* the relay takes at once (RelayLimits::outbound).
LEMMA Rates ==
  ASSUME NEW d \in Pacing!Dims
  PROVE  /\ Pacing!Advertised[d] \in Nat /\ Pacing!Price[d] \in Nat \ {0}
         /\ RelayRate(d) \in Nat /\ Rate(d) \in Nat /\ Burst(d) \in Nat
         /\ Rate(d) <= RelayRate(d) /\ Burst(d) + Rate(d) <= Pacing!Advertised[d]
<1>1. /\ FramesPerSecond \in Nat /\ ChunksPerSecond \in Nat
      /\ FramePrice \in Nat \ {0} /\ ChunkPrice \in Nat \ {0}
  BY Assumptions DEF Assumptions, Pacing!PacingAssumption
<1>2. CASE d = "frames"
  <2>1. /\ RelayRate(d) = FramesPerSecond \div 2 /\ Rate(d) = (FramesPerSecond * 2) \div 6
        /\ Burst(d) = (FramesPerSecond * 2) \div 3
        /\ Pacing!Advertised[d] = FramesPerSecond /\ Pacing!Price[d] = FramePrice
    BY <1>2 DEF RelayRate, Rate, Burst, Pacing!Outbound, Pacing!Advertised, Pacing!TicksPerSecond, Pacing!Price
  <2> QED
    BY <1>1, <2>1
<1>3. CASE d = "chunks"
  <2>1. /\ RelayRate(d) = ChunksPerSecond \div 2 /\ Rate(d) = (ChunksPerSecond * 3) \div 8
        /\ Burst(d) = ChunksPerSecond \div 2
        /\ Pacing!Advertised[d] = ChunksPerSecond /\ Pacing!Price[d] = ChunkPrice
    BY <1>3 DEF RelayRate, Rate, Burst, Pacing!Outbound, Pacing!Advertised, Pacing!TicksPerSecond, Pacing!Price
  <2> QED
    BY <1>1, <2>1
<1> QED
  BY <1>2, <1>3 DEF Pacing!Dims

\* What the frames of s cost together: the sums from behind.
Sums(s, d, k) ==
  \E w \in [0 .. Len(s) -> Nat] :
    /\ w[0] = k /\ w[Len(s)] = 0
    /\ \A i \in 1 .. Len(s) : w[i - 1] = w[i] + Pacing!Cost(s[i], d)

LEMMA CostIsNat == \A kind, d : d \in Pacing!Dims => Pacing!Cost(kind, d) \in Nat
BY Rates DEF Pacing!Cost

LEMMA NothingSums ==
  ASSUME NEW s, Len(s) = 0, NEW d
  PROVE  Sums(s, d, 0) /\ \A k : Sums(s, d, k) => k = 0
<1> DEFINE w == [i \in 0 .. Len(s) |-> 0]
<1>1. w \in [0 .. Len(s) -> Nat] /\ w[0] = 0 /\ w[Len(s)] = 0
  OBVIOUS
<1>2. 1 .. Len(s) = {}
  OBVIOUS
<1> HIDE DEF w
<1>3. Sums(s, d, 0)
  BY <1>1, <1>2 DEF Sums
<1> QED
  BY <1>3 DEF Sums

LEMMA OneMoreSums ==
  ASSUME NEW s \in Seq(Pacing!Kinds), NEW kind \in Pacing!Kinds, NEW d \in Pacing!Dims,
         NEW k \in Nat, Sums(s, d, k)
  PROVE  Sums(Append(s, kind), d, k + Pacing!Cost(kind, d))
<1> DEFINE t == Append(s, kind)
           c == Pacing!Cost(kind, d)
<1>1. /\ Len(s) \in Nat /\ Len(t) = Len(s) + 1 /\ t[Len(s) + 1] = kind
      /\ \A i \in 1 .. Len(s) : t[i] = s[i]
  BY AppendProperties, LenProperties
<1>2. PICK w \in [0 .. Len(s) -> Nat] :
        /\ w[0] = k /\ w[Len(s)] = 0
        /\ \A i \in 1 .. Len(s) : w[i - 1] = w[i] + Pacing!Cost(s[i], d)
  BY DEF Sums
<1>3. c \in Nat
  BY CostIsNat
<1> HIDE DEF t
<1> DEFINE v == [i \in 0 .. Len(s) + 1 |-> IF i <= Len(s) THEN w[i] + c ELSE 0]
<1>4. v \in [0 .. Len(t) -> Nat]
  BY <1>1, <1>2, <1>3
<1>5. v[0] = k + c /\ v[Len(t)] = 0
  BY <1>1, <1>2, <1>3
<1>6. ASSUME NEW i \in 1 .. Len(t)
      PROVE  v[i - 1] = v[i] + Pacing!Cost(t[i], d)
  <2>1. CASE i <= Len(s)
    <3>1. i \in 1 .. Len(s) /\ t[i] = s[i] /\ i - 1 \in 0 .. Len(s) + 1 /\ i \in 0 .. Len(s) + 1
      BY <1>1, <2>1
    <3>2. v[i - 1] = w[i - 1] + c /\ v[i] = w[i] + c /\ w[i] \in Nat
      BY <1>1, <1>2, <2>1, <3>1
    <3>3. w[i - 1] = w[i] + Pacing!Cost(t[i], d) /\ Pacing!Cost(t[i], d) \in Nat
      BY <1>2, <3>1, CostIsNat
    <3> HIDE DEF v, c
    <3> QED
      BY <1>3, <3>2, <3>3
  <2>2. CASE ~(i <= Len(s))
    <3>1. i = Len(s) + 1
      BY <1>1, <2>2
    <3>2. v[i - 1] = c /\ v[i] = 0
      BY <1>1, <1>2, <1>3, <3>1
    <3> QED
      BY <1>1, <1>3, <3>1, <3>2
  <2> QED
    BY <2>1, <2>2
<1> HIDE DEF v
<1>7. Sums(t, d, k + c)
  BY <1>4, <1>5, <1>6 DEF Sums
<1> QED
  BY <1>7 DEF t

LEMMA OneLessSums ==
  ASSUME NEW s \in Seq(Pacing!Kinds), s # <<>>, NEW d \in Pacing!Dims, NEW k, Sums(s, d, k)
  PROVE  /\ k \in Nat /\ Pacing!Cost(Head(s), d) <= k
         /\ Sums(Tail(s), d, k - Pacing!Cost(Head(s), d))
<1> DEFINE t == Tail(s)
           c == Pacing!Cost(Head(s), d)
<1>1. /\ Len(s) \in Nat \ {0} /\ Len(t) = Len(s) - 1 /\ Head(s) = s[1]
      /\ \A i \in 1 .. Len(s) - 1 : t[i] = s[i + 1]
  BY HeadTailProperties, EmptySeq, LenProperties
<1>2. PICK w \in [0 .. Len(s) -> Nat] :
        /\ w[0] = k /\ w[Len(s)] = 0
        /\ \A i \in 1 .. Len(s) : w[i - 1] = w[i] + Pacing!Cost(s[i], d)
  BY DEF Sums
<1>3. c \in Nat
  BY CostIsNat
<1> HIDE DEF t
<1>4. k \in Nat /\ w[1] \in Nat /\ k = w[1] + c
  <2>1. 1 \in 1 .. Len(s) /\ 0 \in 0 .. Len(s) /\ 1 \in 0 .. Len(s)
    BY <1>1
  <2>2. w[1 - 1] = w[1] + Pacing!Cost(s[1], d)
    BY <1>2, <2>1
  <2>3. w[0] \in Nat /\ w[1] \in Nat
    BY <1>2, <2>1
  <2> QED
    BY <1>1, <1>2, <2>2, <2>3
<1> DEFINE v == [i \in 0 .. Len(s) - 1 |-> w[i + 1]]
<1>5. v \in [0 .. Len(t) -> Nat]
  BY <1>1, <1>2
<1>6. v[0] = k - c /\ v[Len(t)] = 0
  <2>1. v[0] = w[1] /\ v[Len(t)] = w[Len(s)]
    BY <1>1
  <2> HIDE DEF v, c
  <2> QED
    BY <1>2, <1>3, <1>4, <2>1
<1>7. ASSUME NEW i \in 1 .. Len(t)
      PROVE  v[i - 1] = v[i] + Pacing!Cost(t[i], d)
  <2>1. i + 1 \in 1 .. Len(s) /\ t[i] = s[i + 1] /\ v[i - 1] = w[i] /\ v[i] = w[i + 1]
    BY <1>1
  <2>2. w[(i + 1) - 1] = w[i + 1] + Pacing!Cost(s[i + 1], d)
    BY <1>2, <2>1
  <2>3. (i + 1) - 1 = i
    BY <1>1
  <2> HIDE DEF v
  <2> QED
    BY <2>1, <2>2, <2>3
<1> HIDE DEF v
<1>8. Sums(t, d, k - c)
  BY <1>5, <1>6, <1>7 DEF Sums
<1> QED
  BY <1>3, <1>4, <1>8 DEF t

PaceTypes ==
  /\ tokens \in [Pacing!Dims -> Nat] /\ bucket \in [Pacing!Dims -> Nat]
  /\ \A d \in Pacing!Dims : tokens[d] <= Burst(d) /\ bucket[d] <= Pacing!Advertised[d]
  /\ tcp \in Seq(Pacing!Kinds) /\ held \in 0 .. 1
  /\ budget \in 0 .. KeyCap /\ left \in 0 .. WaitLimit
  /\ stage \in {"reading", "waiting", "forwarding", "closed"}
  /\ delayed \in BOOLEAN

\* What is under way and what the client could still send before the relay reads
\* is no more than the bucket will then hold.
Ahead(d) ==
  \E k \in Nat :
    /\ Sums(tcp, d, k)
    /\ held = 0 => k + tokens[d] <= bucket[d]
    /\ held = 1 => /\ k + tokens[d] + Rate(d) <= bucket[d] + RelayRate(d)
                   /\ k + tokens[d] + Rate(d) <= Pacing!Advertised[d]

PaceSound ==
  /\ PaceTypes /\ Pacing!HonestPasses
  /\ refused = "connection" => stage = "closed"
  /\ stage = "waiting" => tcp # <<>>
  /\ stage \in {"waiting", "forwarding"} => delayed
  /\ stage = "reading" /\ ~delayed => \A d \in Pacing!Dims : Ahead(d)

\* None of these numbers changes.
LEMMA SameRates ==
  \A d : /\ Rate(d)' = Rate(d) /\ RelayRate(d)' = RelayRate(d) /\ Burst(d)' = Burst(d)
         /\ (Pacing!Advertised[d])' = Pacing!Advertised[d]
BY DEF Rate, RelayRate, Burst, Pacing!Outbound, Pacing!Advertised, Pacing!TicksPerSecond

LEMMA AheadNow ==
  ASSUME NEW d, NEW n \in Nat, Sums(tcp, d, n)',
         held' = 0 => n + tokens'[d] <= bucket'[d],
         held' = 1 => /\ n + tokens'[d] + Rate(d) <= bucket'[d] + RelayRate(d)
                      /\ n + tokens'[d] + Rate(d) <= Pacing!Advertised[d]
  PROVE  Ahead(d)'
<1>1. (held = 0 => n + tokens[d] <= bucket[d])'
  OBVIOUS
<1>2. (held = 1 => /\ n + tokens[d] + Rate(d) <= bucket[d] + RelayRate(d)
                   /\ n + tokens[d] + Rate(d) <= Pacing!Advertised[d])'
  BY SameRates
<1> QED
  BY <1>1, <1>2, Zenon DEF Ahead

LEMMA PacingNumbers ==
  /\ KeyCap \in Nat /\ WaitLimit \in Nat /\ MaxHeld \in Nat /\ MaxHeld <= 1
  /\ KeyRate \in Nat \ {0} /\ ForwardTimeout \in Nat \ {0}
  /\ \A kind \in Pacing!Kinds : Pacing!Bytes[kind] \in Nat \ {0}
BY Assumptions DEF Assumptions, Pacing!PacingAssumption, Pacing!HoldAssumption, Pacing!Kinds, Pacing!Bytes

LEMMA PaceShows == PaceSound => Pacing!TypeOK /\ Pacing!HonestPasses
<1> SUFFICES ASSUME PaceSound PROVE Pacing!TypeOK
  BY DEF PaceSound
<1>1. \A d \in Pacing!Dims : tokens[d] \in 0 .. Burst(d) /\ bucket[d] \in 0 .. Pacing!Advertised[d]
  BY Rates DEF PaceSound, PaceTypes
<1> QED
  BY <1>1 DEF PaceSound, PaceTypes, Pacing!TypeOK, Burst

LEMMA InitPace == Pacing!Init => PaceSound
<1> SUFFICES ASSUME Pacing!Init PROVE PaceSound
  OBVIOUS
<1>1. /\ tokens = [d \in Pacing!Dims |-> Burst(d)] /\ bucket = Pacing!Advertised
      /\ tcp = <<>> /\ held = 0 /\ budget \in {0, KeyCap} /\ stage = "reading"
      /\ left = WaitLimit /\ refused = "none" /\ delayed = FALSE
  BY DEF Pacing!Init, Burst
<1>2. bucket \in [Pacing!Dims -> Nat]
  <2>1. Pacing!Advertised = [d \in Pacing!Dims |-> Pacing!Advertised[d]]
    BY DEF Pacing!Advertised, Pacing!Dims
  <2> QED
    BY <1>1, <2>1, Rates
<1>3. PaceTypes
  <2>1. tokens \in [Pacing!Dims -> Nat]
    BY <1>1, Rates
  <2>2. \A d \in Pacing!Dims : tokens[d] <= Burst(d) /\ bucket[d] <= Pacing!Advertised[d]
    BY <1>1, Rates
  <2>3. tcp \in Seq(Pacing!Kinds) /\ held \in 0 .. 1
    BY <1>1
  <2>4. budget \in 0 .. KeyCap /\ left \in 0 .. WaitLimit
    BY <1>1, PacingNumbers
  <2> QED
    BY <1>1, <1>2, <2>1, <2>2, <2>3, <2>4 DEF PaceTypes
<1>4. ASSUME NEW d \in Pacing!Dims
      PROVE  Ahead(d)
  <2>1. Sums(tcp, d, 0) /\ 0 + tokens[d] <= bucket[d]
    <3>1. Len(tcp) = 0
      BY <1>1
    <3> QED
      BY <1>1, <3>1, NothingSums, Rates
  <2> QED
    BY <1>1, <2>1 DEF Ahead
<1> QED
  BY <1>1, <1>3, <1>4 DEF PaceSound, Pacing!HonestPasses

\* The client takes from what it saved up what the frame under way costs.
LEMMA SendKeepsPace ==
  ASSUME PaceSound, NEW kind \in Pacing!Kinds, Pacing!Send(kind)
  PROVE  PaceSound'
<1>1. /\ stage # "closed" /\ \A d \in Pacing!Dims : tokens[d] >= Pacing!Cost(kind, d)
      /\ tokens' = [d \in Pacing!Dims |-> tokens[d] - Pacing!Cost(kind, d)]
      /\ tcp' = Append(tcp, kind)
      /\ UNCHANGED <<held, bucket, budget, stage, left, refused, delayed>>
  BY DEF Pacing!Send, Pacing!Acquired
<1>2. \A d \in Pacing!Dims :
        /\ tokens[d] \in Nat /\ bucket[d] \in Nat /\ Pacing!Cost(kind, d) \in Nat
        /\ tokens'[d] = tokens[d] - Pacing!Cost(kind, d)
  BY <1>1, CostIsNat DEF PaceSound, PaceTypes
<1>3. /\ tokens' \in [Pacing!Dims -> Nat]
      /\ \A d \in Pacing!Dims : tokens'[d] <= Burst(d)
  <2>1. \A d \in Pacing!Dims : tokens[d] - Pacing!Cost(kind, d) \in Nat
    BY <1>1, <1>2
  <2>2. tokens' \in [Pacing!Dims -> Nat]
    BY <1>1, <2>1
  <2> QED
    BY <1>2, <2>2, Rates DEF PaceSound, PaceTypes
<1>4. tcp' \in Seq(Pacing!Kinds) /\ tcp' # <<>>
  BY <1>1, AppendProperties DEF PaceSound, PaceTypes
<1>5. ASSUME NEW d \in Pacing!Dims, Ahead(d)
      PROVE  Ahead(d)'
  <2>1. PICK k \in Nat :
          /\ Sums(tcp, d, k)
          /\ held = 0 => k + tokens[d] <= bucket[d]
          /\ held = 1 => /\ k + tokens[d] + Rate(d) <= bucket[d] + RelayRate(d)
                         /\ k + tokens[d] + Rate(d) <= Pacing!Advertised[d]
    BY <1>5 DEF Ahead
  <2>2. PICK n \in Nat : n = k + Pacing!Cost(kind, d)
    BY <1>2
  <2>3. n + tokens'[d] = k + tokens[d]
    BY <1>2, <2>2
  <2>4. (Sums(tcp, d, n))'
    <3>1. Sums(tcp', d, n)
      BY <1>1, <2>1, <2>2, OneMoreSums DEF PaceSound, PaceTypes
    <3> QED
      BY <3>1 DEF Sums
  <2>5. /\ held' = 0 => n + tokens'[d] <= bucket'[d]
        /\ held' = 1 => /\ n + tokens'[d] + Rate(d) <= bucket'[d] + RelayRate(d)
                        /\ n + tokens'[d] + Rate(d) <= Pacing!Advertised[d]
    BY <1>1, <2>1, <2>3
  <2> QED
    BY <2>4, <2>5, AheadNow
<1> QED
  BY <1>1, <1>3, <1>4, <1>5, SameRates DEF PaceSound, PaceTypes, Pacing!HonestPasses

\* The frame is refused: an honest client's only after the relay had stopped.
LEMMA RefuseKeepsPace ==
  ASSUME PaceSound, NEW limit \in {"connection", "key"}, Pacing!Refuse(limit),
         limit = "connection" => delayed
  PROVE  PaceSound'
<1>1. /\ stage' = "closed" /\ refused' = limit
      /\ UNCHANGED <<tokens, tcp, held, bucket, budget, left, delayed>>
  BY DEF Pacing!Refuse
<1>2. PaceTypes'
  BY <1>1, SameRates DEF PaceSound, PaceTypes
<1> QED
  BY <1>1, <1>2 DEF PaceSound, Pacing!HonestPasses

\* A frame that fits is taken from the bucket and from what is under way.
LEMMA PassKeepsPace ==
  ASSUME PaceSound, stage \in {"reading", "waiting"}, tcp # <<>>, stage = "reading" => held = 0,
         Pacing!Fits(Head(tcp)), Pacing!Missing(Head(tcp)) = 0, Pacing!Pass(Head(tcp))
  PROVE  PaceSound'
<1>1. PICK kind \in Pacing!Kinds : kind = Head(tcp)
  BY HeadTailProperties DEF PaceSound, PaceTypes
<1>2. /\ bucket' = [d \in Pacing!Dims |-> bucket[d] - Pacing!Cost(kind, d)]
      /\ budget' = IF KeyCap = 0 THEN budget ELSE budget - Pacing!Bytes[kind]
      /\ tcp' = Tail(tcp) /\ left' = WaitLimit /\ UNCHANGED <<tokens, held, refused>>
      /\ \/ stage' = "reading" /\ delayed' = delayed
         \/ stage' = "forwarding" /\ delayed' = TRUE
  BY <1>1 DEF Pacing!Pass
<1>3. \A d \in Pacing!Dims :
        /\ tokens[d] \in Nat /\ bucket[d] \in Nat /\ Pacing!Cost(kind, d) \in Nat
        /\ bucket[d] >= Pacing!Cost(kind, d) /\ bucket'[d] = bucket[d] - Pacing!Cost(kind, d)
  BY <1>1, <1>2, CostIsNat DEF PaceSound, PaceTypes, Pacing!Fits
<1>4. bucket' \in [Pacing!Dims -> Nat] /\ \A d \in Pacing!Dims : bucket'[d] <= Pacing!Advertised[d]
  <2>1. \A d \in Pacing!Dims : bucket[d] - Pacing!Cost(kind, d) \in Nat
    BY <1>3
  <2>2. bucket' \in [Pacing!Dims -> Nat]
    BY <1>2, <2>1
  <2> QED
    BY <1>3, <2>2, Rates DEF PaceSound, PaceTypes
<1>5. budget' \in 0 .. KeyCap
  BY <1>1, <1>2, PacingNumbers DEF Pacing!Missing, PaceSound, PaceTypes
<1>6. tcp' \in Seq(Pacing!Kinds) /\ left' \in 0 .. WaitLimit
  BY <1>2, HeadTailProperties, PacingNumbers DEF PaceSound, PaceTypes
<1>7. PaceTypes'
  BY <1>2, <1>4, <1>5, <1>6, SameRates DEF PaceSound, PaceTypes
<1>8. ASSUME NEW d \in Pacing!Dims, stage = "reading", ~delayed
      PROVE  Ahead(d)'
  <2>1. PICK k \in Nat : Sums(tcp, d, k) /\ k + tokens[d] <= bucket[d]
    BY <1>8 DEF PaceSound, Ahead
  <2>2. /\ Pacing!Cost(kind, d) <= k
        /\ Sums(Tail(tcp), d, k - Pacing!Cost(kind, d))
    BY <1>1, <2>1, OneLessSums DEF PaceSound, PaceTypes
  <2>3. PICK n \in Nat : n = k - Pacing!Cost(kind, d)
    BY <1>3, <2>2
  <2>4. n + tokens'[d] <= bucket'[d]
    <3>1. tokens'[d] = tokens[d]
      BY <1>2
    <3> QED
      BY <1>3, <2>1, <2>3, <3>1
  <2>5. (Sums(tcp, d, n))'
    <3>1. Sums(tcp', d, n)
      BY <1>2, <2>2, <2>3
    <3> QED
      BY <3>1 DEF Sums
  <2>6. held' = 0
    BY <1>2, <1>8
  <2> QED
    BY <2>4, <2>5, <2>6, AheadNow
<1>9. stage' = "reading" /\ ~delayed' => stage = "reading" /\ ~delayed
  BY <1>2 DEF PaceSound
<1> QED
  BY <1>2, <1>7, <1>8, <1>9 DEF PaceSound, Pacing!HonestPasses

\* A round of waiting takes no more than is left.
LEMMA WaitKeepsPace ==
  ASSUME PaceSound, stage # "closed", tcp # <<>>, NEW wait \in Nat, wait <= left, Pacing!Wait(wait)
  PROVE  PaceSound'
<1>1. /\ stage' = "waiting" /\ left' = left - wait /\ delayed' = TRUE
      /\ UNCHANGED <<tokens, tcp, held, bucket, budget, refused>>
  BY DEF Pacing!Wait, Pacing!Left
<1>2. left' \in 0 .. WaitLimit
  BY <1>1, PacingNumbers DEF PaceSound, PaceTypes
<1>3. PaceTypes'
  BY <1>1, <1>2, SameRates DEF PaceSound, PaceTypes
<1> QED
  BY <1>1, <1>3 DEF PaceSound, Pacing!HonestPasses

LEMMA AllowKeepsPace ==
  ASSUME PaceSound, Pacing!Read \/ Pacing!Retry
  PROVE  PaceSound'
<1>1. /\ stage \in {"reading", "waiting"} /\ tcp # <<>> /\ (stage = "reading" => held = 0)
      /\ Pacing!Allow(Head(tcp))
  BY DEF Pacing!Read, Pacing!Retry, PaceSound
<1>2. PICK kind \in Pacing!Kinds : kind = Head(tcp)
  BY <1>1, HeadTailProperties DEF PaceSound, PaceTypes
<1>3. CASE ~Pacing!Fits(kind)
  <2>1. Pacing!Refuse("connection")
    BY <1>1, <1>2, <1>3 DEF Pacing!Allow
  <2>2. PICK d \in Pacing!Dims : ~(bucket[d] >= Pacing!Cost(kind, d))
    BY <1>3 DEF Pacing!Fits
  <2>3. ASSUME stage = "reading", ~delayed PROVE FALSE
    <3>1. PICK k \in Nat : Sums(tcp, d, k) /\ k + tokens[d] <= bucket[d]
      BY <1>1, <2>3 DEF PaceSound, Ahead
    <3>2. Pacing!Cost(kind, d) <= k
      BY <1>1, <1>2, <3>1, OneLessSums DEF PaceSound, PaceTypes
    <3>3. Pacing!Cost(kind, d) \in Nat /\ tokens[d] \in Nat /\ bucket[d] \in Nat
      BY CostIsNat DEF PaceSound, PaceTypes
    <3> QED
      BY <2>2, <3>1, <3>2, <3>3
  <2> QED
    BY <1>1, <2>1, <2>3, RefuseKeepsPace DEF PaceSound, PaceTypes
<1>4. CASE Pacing!Fits(kind) /\ Pacing!Missing(kind) = 0
  <2>1. Pacing!Pass(kind)
    BY <1>1, <1>2, <1>4 DEF Pacing!Allow
  <2> QED
    BY <1>1, <1>2, <1>4, <2>1, PassKeepsPace
<1>5. CASE Pacing!Fits(kind) /\ Pacing!Missing(kind) # 0
  <2>1. Pacing!Missing(kind) \in Nat /\ Pacing!Waits(kind) \in Nat
    <3>1. Pacing!Missing(kind) \in Nat
      BY PacingNumbers DEF Pacing!Missing, PaceSound, PaceTypes
    <3>2. Pacing!Waits(kind) = (Pacing!Missing(kind) + KeyRate - 1) \div KeyRate
      BY DEF Pacing!Waits, Pacing!Ceil
    <3>3. Pacing!Missing(kind) + KeyRate - 1 \in Nat
      BY <3>1, PacingNumbers
    <3> QED
      BY <3>1, <3>2, <3>3, PacingNumbers
  <2>2. PICK wait \in Nat :
          wait = IF Pacing!Waits(kind) < Pacing!WaitFloor THEN Pacing!WaitFloor ELSE Pacing!Waits(kind)
    BY <2>1 DEF Pacing!WaitFloor
  <2>3. Pacing!Refuse("key") \/ (wait <= left /\ Pacing!Wait(wait))
    <3>1. left \in Nat
      BY PacingNumbers DEF PaceSound, PaceTypes
    <3>2. IF Pacing!Bytes[kind] > KeyCap \/ Pacing!Waits(kind) > WaitLimit \/ wait > left
          THEN Pacing!Refuse("key") ELSE Pacing!Wait(wait)
      BY <1>1, <1>2, <1>5, <2>2 DEF Pacing!Allow
    <3> QED
      BY <3>1, <3>2
  <2> QED
    BY <1>1, <2>3, RefuseKeepsPace, WaitKeepsPace
<1> QED
  BY <1>3, <1>4, <1>5

\* Nothing is under way while the network starts to hold frames back, so that a
\* tick later the bucket has what the client can send meanwhile.
LEMMA HoldKeepsPace ==
  ASSUME PaceSound, Pacing!Hold
  PROVE  PaceSound'
<1>1. /\ tcp = <<>> /\ held = 0 /\ held' = 1
      /\ UNCHANGED <<tokens, tcp, bucket, budget, stage, left, refused, delayed>>
  <2>1. held' \in 1 .. MaxHeld
    BY DEF Pacing!Hold
  <2>2. held' = 1
    BY <2>1, PacingNumbers
  <2> QED
    BY <2>2 DEF Pacing!Hold
<1>2. PaceTypes'
  BY <1>1, SameRates DEF PaceSound, PaceTypes
<1>3. ASSUME NEW d \in Pacing!Dims, Ahead(d)
      PROVE  Ahead(d)'
  <2>1. Len(tcp) = 0
    BY <1>1
  <2>2. Sums(tcp, d, 0) /\ tokens[d] <= bucket[d]
    <3>1. PICK k \in Nat : Sums(tcp, d, k) /\ k + tokens[d] <= bucket[d]
      BY <1>1, <1>3 DEF Ahead
    <3>2. k = 0
      BY <2>1, <3>1, NothingSums
    <3> QED
      BY <3>1, <3>2 DEF PaceSound, PaceTypes
  <2>3. (Sums(tcp, d, 0))'
    <3>1. Sums(tcp', d, 0)
      BY <1>1, <2>2
    <3> QED
      BY <3>1 DEF Sums
  <2>4. /\ tokens'[d] = tokens[d] /\ bucket'[d] = bucket[d] /\ tokens[d] \in Nat /\ bucket[d] \in Nat
        /\ tokens[d] <= Burst(d)
    BY <1>1 DEF PaceSound, PaceTypes
  <2>5. /\ held' = 0 => 0 + tokens'[d] <= bucket'[d]
        /\ held' = 1 => /\ 0 + tokens'[d] + Rate(d) <= bucket'[d] + RelayRate(d)
                        /\ 0 + tokens'[d] + Rate(d) <= Pacing!Advertised[d]
    BY <1>1, <2>2, <2>4, Rates
  <2> QED
    BY <2>3, <2>5, AheadNow
<1> QED
  BY <1>1, <1>2, <1>3 DEF PaceSound, Pacing!HonestPasses

\* The relay's bucket fills at least as fast as the client's.
LEMMA TickKeepsPace ==
  ASSUME PaceSound, Pacing!Tick
  PROVE  PaceSound'
<1>1. \A d \in Pacing!Dims :
        /\ tokens[d] \in Nat /\ bucket[d] \in Nat /\ tokens[d] <= Burst(d)
        /\ bucket[d] <= Pacing!Advertised[d]
        /\ tokens'[d] = Pacing!Least(tokens[d] + Rate(d), Burst(d))
        /\ bucket'[d] = Pacing!Least(bucket[d] + RelayRate(d), Pacing!Advertised[d])
  BY DEF Pacing!Tick, PaceSound, PaceTypes, Rate, Burst, RelayRate
<1>2. /\ budget' = Pacing!Least(budget + KeyRate, KeyCap)
      /\ held' = IF held > 0 THEN held - 1 ELSE 0
      /\ delayed' = (delayed /\ ~(stage = "reading" /\ tcp = <<>> /\ bucket' = Pacing!Advertised))
      /\ UNCHANGED <<tcp, stage, left, refused>>
      /\ stage = "reading" => held # 0 \/ tcp = <<>>
  BY DEF Pacing!Tick, Pacing!Due
<1>3. \A d \in Pacing!Dims :
        /\ tokens'[d] \in Nat /\ bucket'[d] \in Nat /\ tokens'[d] <= Burst(d)
        /\ bucket'[d] <= Pacing!Advertised[d]
  BY <1>1, Rates DEF Pacing!Least
<1>4. held' = 0 /\ held \in {0, 1}
  BY <1>2 DEF PaceSound, PaceTypes
<1>5. PaceTypes'
  <2>1. tokens' \in [Pacing!Dims -> Nat] /\ bucket' \in [Pacing!Dims -> Nat]
    <3>1. /\ tokens' = [d \in Pacing!Dims |-> tokens'[d]]
          /\ bucket' = [d \in Pacing!Dims |-> bucket'[d]]
      BY DEF Pacing!Tick
    <3> QED
      BY <1>3, <3>1
  <2>2. budget' \in 0 .. KeyCap
    BY <1>2, PacingNumbers DEF PaceSound, PaceTypes, Pacing!Least
  <2>3. delayed' \in BOOLEAN
    BY <1>2
  <2> QED
    BY <1>2, <1>3, <1>4, <2>1, <2>2, <2>3, SameRates DEF PaceSound, PaceTypes
<1>6. ASSUME NEW d \in Pacing!Dims, stage = "reading", ~delayed
      PROVE  Ahead(d)'
  <2>1. PICK k \in Nat :
          /\ Sums(tcp, d, k)
          /\ held = 0 => k + tokens[d] <= bucket[d]
          /\ held = 1 => /\ k + tokens[d] + Rate(d) <= bucket[d] + RelayRate(d)
                         /\ k + tokens[d] + Rate(d) <= Pacing!Advertised[d]
    BY <1>6 DEF PaceSound, Ahead
  <2>2. k + tokens'[d] <= bucket'[d]
    <3>1. CASE held = 0
      <4>1. Len(tcp) = 0
        BY <1>2, <1>6, <3>1
      <4>2. k = 0
        BY <2>1, <4>1, NothingSums
      <4> QED
        BY <1>1, <2>1, <3>1, <4>2, Rates DEF Pacing!Least
    <3>2. CASE held = 1
      BY <1>1, <2>1, <3>2, Rates DEF Pacing!Least
    <3> QED
      BY <1>4, <3>1, <3>2
  <2>3. (Sums(tcp, d, k))'
    <3>1. Sums(tcp', d, k)
      BY <1>2, <2>1
    <3> QED
      BY <3>1 DEF Sums
  <2> QED
    BY <1>4, <2>2, <2>3, AheadNow
<1>7. ASSUME NEW d \in Pacing!Dims, stage = "reading", delayed, ~delayed'
      PROVE  Ahead(d)'
  <2>1. tcp = <<>> /\ bucket' = Pacing!Advertised
    BY <1>2, <1>7
  <2>2. tokens'[d] <= bucket'[d] /\ tokens'[d] \in Nat
    BY <1>3, <2>1, Rates
  <2>3. (Sums(tcp, d, 0))'
    <3>1. Sums(tcp', d, 0)
      <4>1. tcp' = <<>> /\ Len(<<>>) = 0
        BY <1>2, <2>1
      <4> QED
        BY <4>1, NothingSums
    <3> QED
      BY <3>1 DEF Sums
  <2>4. held' = 0 => 0 + tokens'[d] <= bucket'[d]
    BY <2>2
  <2> QED
    BY <1>4, <2>3, <2>4, AheadNow
<1>8. /\ refused = "connection" => delayed
      /\ stage # "reading" => delayed' = delayed
  BY <1>2 DEF PaceSound, PaceTypes, Pacing!HonestPasses
<1> QED
  BY <1>2, <1>5, <1>6, <1>7, <1>8 DEF PaceSound, PaceTypes, Pacing!HonestPasses

LEMMA PaceKeepsSound ==
  ASSUME PaceSound, [Pacing!Next]_(Pacing!vars)
  PROVE  PaceSound'
<1>1. ASSUME UNCHANGED <<tokens, tcp, held, bucket, left, refused, delayed>>,
             budget' \in 0 .. KeyCap,
             \/ stage' = stage
             \/ stage = "forwarding" /\ stage' = "reading"
      PROVE  PaceSound'
  <2>1. PaceTypes'
    BY <1>1, SameRates DEF PaceSound, PaceTypes
  <2>2. ASSUME NEW d \in Pacing!Dims, Ahead(d)
        PROVE  Ahead(d)'
    BY <1>1, <2>2, SameRates DEF Ahead, Sums
  <2> QED
    BY <1>1, <2>1, <2>2 DEF PaceSound, Pacing!HonestPasses
<1>2. CASE UNCHANGED Pacing!vars
  BY <1>1, <1>2 DEF Pacing!vars, PaceSound, PaceTypes
<1>3. CASE Pacing!Forwarded
  BY <1>1, <1>3 DEF Pacing!Forwarded, PaceSound, PaceTypes
<1>4. CASE Pacing!Others
  <2>1. PICK some \in 1 .. budget : budget' = budget - some
    BY <1>4 DEF Pacing!Others
  <2>2. budget' \in 0 .. KeyCap
    BY <2>1, PacingNumbers DEF PaceSound, PaceTypes
  <2> QED
    BY <1>1, <1>4, <2>2 DEF Pacing!Others
<1> QED
  BY <1>2, <1>3, <1>4, SendKeepsPace, AllowKeepsPace, HoldKeepsPace, TickKeepsPace
     DEF Pacing!Next, Pacing!Serve

-----------------------------------------------------------------------------
(* The four together: one of them moves, the others stay as they are        *)

Sound == Relay!TypeOK /\ Chat!Inv /\ GateSound /\ PaceSound

LEMMA RelayNumbers ==
  Relay!ConnAssumption /\ Relay!RoomAssumption /\ Relay!RequestAssumption /\ Relay!LimitAssumption
BY Assumptions
   DEF Assumptions, Relay!ConnAssumption, Relay!RoomAssumption, Relay!RequestAssumption,
       Relay!LimitAssumption, IsFiniteSet, Relay!IsFiniteSet

LEMMA InitSound == Init => Sound
<1> SUFFICES ASSUME Init PROVE Sound
  OBVIOUS
<1>1. Relay!TypeOK
  BY RelayNumbers, Relay!InitTypes DEF Init
<1>2. Chat!Inv
  BY Chat!InitInv, Assumptions DEF Init, Assumptions
<1> QED
  BY <1>1, <1>2, InitGate, InitPace DEF Init, Sound

\* A step of the whole is a step or a stutter of each.
LEMMA NextIsEach ==
  ASSUME [Next]_vars
  PROVE  /\ [Relay!Next]_(Relay!vars) /\ [Chat!Next]_(Chat!vars)
         /\ [Gate!Next]_(Gate!vars) /\ [Pacing!Next]_(Pacing!vars)
<1>1. UNCHANGED relayVars => UNCHANGED Relay!vars
  BY DEF relayVars, Relay!vars, Relay!roomVars, Relay!regVars
<1>2. UNCHANGED chatVars => UNCHANGED Chat!vars
  BY DEF chatVars, Chat!vars, Chat!store, Chat!commands, Chat!sessionA, Chat!wires, Chat!sessionB
<1>3. UNCHANGED gateVars => UNCHANGED Gate!vars
  BY DEF gateVars, Gate!vars, Gate!flags, Gate!link, Gate!chat
<1>4. UNCHANGED pacingVars => UNCHANGED Pacing!vars
  BY DEF pacingVars, Pacing!vars
<1> QED
  BY <1>1, <1>2, <1>3, <1>4 DEF Next, NextRelay, NextChat, NextGate, NextPacing, vars

LEMMA NextKeepsSound ==
  ASSUME Sound, [Next]_vars
  PROVE  Sound'
<1>1. Relay!TypeOK'
  BY RelayNumbers, NextIsEach, Relay!NextTypes DEF Sound
<1>2. Chat!Inv'
  BY NextIsEach, Chat!NextKeepsInv, Assumptions DEF Sound, Assumptions
<1> QED
  BY <1>1, <1>2, NextIsEach, GateKeepsSound, PaceKeepsSound DEF Sound

LEMMA SoundShows ==
  ASSUME Sound
  PROVE  TypeOK /\ HonestPasses
<1>1. Chat!TypeOK
  BY Chat!InvTypes, Assumptions DEF Sound, Assumptions
<1> QED
  BY <1>1, PaceShows DEF Sound, TypeOK, HonestPasses, GateSound

\* The joint invariant holds in every state of the four.
THEOREM SoundAlways == FairSpec => []Sound
<1>1. Init => Sound
  BY InitSound
<1>2. Sound /\ [Next]_vars => Sound'
  BY NextKeepsSound
<1> QED
  BY <1>1, <1>2, PTL DEF FairSpec

\* Type correctness of the four; the client's tokens and the relay's never go
\* below zero or above what they may save (relay.rs, manager.rs, p2p.rs).
THEOREM TypeCorrect == FairSpec => []TypeOK
BY SoundAlways, SoundShows, PTL

\* For any limits, prices and sizes, the pace of RelayLimits::outbound passes
\* the relay's bucket, whatever the network holds back for half a second.
THEOREM HonestAlwaysPass == FairSpec => []HonestPasses
BY SoundAlways, SoundShows, PTL

\* Whatever was refused at the gate, dropped or lost with a round, and in
\* whatever order the channels were proven: while both are proven, what the
\* peer lacks is with a thread, in a queue or on the channel, or the channel is
\* about to close (resend_pending_chat, flush).  For any messages and losses.
THEOREM NothingWaitsUnseen == FairSpec => []Gate!SteadyHolds
<1>1. Init => GateHeld
  BY InitHeld DEF Init
<1>2. GateHeld /\ [Next]_vars => GateHeld'
  BY NextIsEach, NextHeld
<1>3. GateHeld => Gate!SteadyHolds
  BY DEF GateHeld
<1> QED
  BY <1>1, <1>2, <1>3, PTL DEF FairSpec

\* However the notices of the leg's rounds are read late or beside the others,
\* the leg shown as connected has a proven channel, no frame with data goes
\* to a relay of the public tier (publish_route, take_non_signal), and nothing
\* waits unseen beside a proven leg.
THEOREM LegAlwaysHolds == FairSpec => []LegHolds
<1>1. Sound /\ Gate!SteadyHolds => LegHolds
  BY DEF Sound, GateSound, LegHolds
<1> QED
  BY <1>1, SoundAlways, NothingWaitsUnseen, PTL

=============================================================================
