--------------------------- MODULE PairLegProofs ---------------------------
(* Why the direct leg never falls silent: theorems about PairLeg for any   *)
(* two devices, any numbering of connections and any bounds.               *)
EXTENDS PairLeg, TLAPS

\* The part of the types that the argument needs.
ArmTypes ==
  /\ ready \in [Devices -> BOOLEAN] /\ offerer \in [Devices -> BOOLEAN]
  /\ retry \in [Devices -> BOOLEAN]
  /\ pc \in [Devices -> Connections \cup {None}]
  /\ late \in [Devices -> 0 .. MaxLate]

\* The inductive invariant: what is read late, a retry and a connection are
\* handed over to each other within one step.
Armed == ArmTypes /\ RetryArmed

ArmedAt(d) == offerer[d] /\ ready[d] /\ pc[d] = None => retry[d] \/ late[d] > 0

\* A fresh number is a number of a connection, and never None.
LEMMA FreshIsConnection ==
  ASSUME LegAssumption, Unused # {}
  PROVE  Fresh \in Connections /\ Fresh # None
<1>1. Fresh \in Unused
  BY DEF Fresh
<1>2. Fresh \in Connections
  BY <1>1 DEF Unused
<1> QED
  BY <1>2 DEF LegAssumption, None

\* A failure that is reported is reported: the bound never swallows the first.
LEMMA MoreIsPositive ==
  ASSUME LegAssumption, NEW n \in 0 .. MaxLate
  PROVE  More(n) \in 0 .. MaxLate /\ More(n) > 0
BY DEF LegAssumption, More

LEMMA TornIsCount ==
  ASSUME LegAssumption, ArmTypes, NEW d \in Devices
  PROVE  Torn(d) \in 0 .. MaxLate
<1>1. late[d] \in 0 .. MaxLate
  BY DEF ArmTypes
<1> QED
  BY <1>1, MoreIsPositive DEF Torn

\* A step that touches the leg of one device only keeps the invariant if it
\* keeps the types and arms that device.
LEMMA OneDevice ==
  ASSUME Armed, NEW d \in Devices, ArmTypes', ArmedAt(d)',
         \A e \in Devices \ {d} :
           /\ ready'[e] = ready[e] /\ offerer'[e] = offerer[e] /\ retry'[e] = retry[e]
           /\ pc'[e] = pc[e] /\ late'[e] = late[e]
  PROVE  Armed'
<1>1. ASSUME NEW e \in Devices PROVE ArmedAt(e)'
  <2>1. CASE e = d
    BY <2>1
  <2>2. CASE e # d
    BY <2>2 DEF Armed, RetryArmed, ArmedAt
  <2> QED
    BY <2>1, <2>2
<1> QED
  BY <1>1 DEF Armed, RetryArmed, ArmedAt

LEMMA InitArmed == LegAssumption /\ Init => Armed
BY DEF LegAssumption, Init, Armed, ArmTypes, RetryArmed

\* A hello begins a round, or leaves a retry or a report behind.
LEMMA HelloKeepsArmed ==
  ASSUME LegAssumption, Armed, NEW d \in Devices, ReadHello(d)
  PROVE  Armed'
<1> DEFINE q == [sig EXCEPT ![d] = Tail(@)]
<1>t. ArmTypes /\ Torn(d) \in 0 .. MaxLate
  BY TornIsCount DEF Armed
<1>1. CASE Built(d, q, d = Small, TRUE) /\ retry' = [retry EXCEPT ![d] = FALSE]
            /\ late' = [late EXCEPT ![d] = Torn(d)]
  <2>1. Fresh \in Connections /\ Fresh # None /\ pc' = [pc EXCEPT ![d] = Fresh]
    BY <1>1, FreshIsConnection DEF Built
  <2>2. ArmTypes' /\ ArmedAt(d)'
    BY <1>1, <1>t, <2>1 DEF ArmTypes, ArmedAt, ReadHello
  <2> QED
    BY <1>1, <1>t, <2>1, <2>2, OneDevice DEF ArmTypes, ReadHello
<1>2. CASE NotBuilt(d, q, Torn(d)) /\ Cleared(d) /\ UNCHANGED retry
  <2>1. More(Torn(d)) \in 0 .. MaxLate /\ More(Torn(d)) > 0
    BY <1>t, MoreIsPositive
  <2>2. ArmTypes' /\ ArmedAt(d)'
    BY <1>2, <1>t, <2>1 DEF ArmTypes, ArmedAt, ReadHello, NotBuilt, Cleared
  <2> QED
    BY <1>2, <1>t, <2>2, OneDevice DEF ArmTypes, ReadHello, NotBuilt, Cleared
<1>3. CASE retry' = [retry EXCEPT ![d] = TRUE] /\ Cleared(d)
            /\ late' = [late EXCEPT ![d] = Torn(d)]
  <2>1. ArmTypes' /\ ArmedAt(d)'
    BY <1>3, <1>t DEF ArmTypes, ArmedAt, ReadHello, Cleared
  <2> QED
    BY <1>3, <1>t, <2>1, OneDevice DEF ArmTypes, ReadHello, Cleared
<1> QED
  BY <1>1, <1>2, <1>3 DEF ReadHello

\* An offer makes the leg ready: it is answered, or a retry or a report stays.
LEMMA OfferKeepsArmed ==
  ASSUME LegAssumption, Armed, NEW d \in Devices, ReadOffer(d)
  PROVE  Armed'
<1> DEFINE s == Head(sig[d])
           q == [sig EXCEPT ![d] = Tail(@)]
<1>t. ArmTypes /\ late[d] \in 0 .. MaxLate
  BY DEF Armed, ArmTypes
<1>u. ready' = [ready EXCEPT ![d] = TRUE] /\ offerer' = offerer
  BY DEF ReadOffer
<1>1. CASE pc[d] # None /\ UNCHANGED <<pc, retry, late>>
  <2>1. ArmTypes' /\ ArmedAt(d)'
    BY <1>1, <1>t, <1>u DEF ArmTypes, ArmedAt
  <2> QED
    BY <1>1, <1>t, <1>u, <2>1, OneDevice DEF ArmTypes
<1>2. CASE Unused # {} /\ pc' = [pc EXCEPT ![d] = Fresh] /\ UNCHANGED <<retry, late>>
  <2>1. Fresh \in Connections /\ Fresh # None
    BY <1>2, FreshIsConnection
  <2>2. ArmTypes' /\ ArmedAt(d)'
    BY <1>2, <1>t, <1>u, <2>1 DEF ArmTypes, ArmedAt
  <2> QED
    BY <1>2, <1>t, <1>u, <2>2, OneDevice DEF ArmTypes
<1>3. CASE NotBuilt(d, q, late[d]) /\ UNCHANGED <<pc, retry>>
  <2>1. More(late[d]) \in 0 .. MaxLate /\ More(late[d]) > 0
    BY <1>t, MoreIsPositive
  <2>2. ArmTypes' /\ ArmedAt(d)'
    BY <1>3, <1>t, <1>u, <2>1 DEF ArmTypes, ArmedAt, NotBuilt
  <2> QED
    BY <1>3, <1>t, <1>u, <2>2, OneDevice DEF ArmTypes, NotBuilt
<1>4. CASE Deferred(d, q)
  <2>1. ArmTypes' /\ ArmedAt(d)'
    BY <1>4, <1>t, <1>u DEF ArmTypes, ArmedAt, Deferred
  <2> QED
    BY <1>4, <1>t, <1>u, <2>1, OneDevice DEF ArmTypes, Deferred
<1> QED
  BY <1>1, <1>2, <1>3, <1>4 DEF ReadOffer

\* A failure, whichever round it belongs to, arms the side that offers.
LEMMA FailedKeepsArmed ==
  ASSUME LegAssumption, Armed, NEW d \in Devices, Failed(d)
  PROVE  Armed'
<1>t. ArmTypes /\ MaxLate \in Nat
  BY DEF Armed, LegAssumption
<1>1. ready' = ready /\ offerer' = offerer /\ retry' = [retry EXCEPT ![d] = Rearmed(d)]
      /\ pc' = [pc EXCEPT ![d] = None]
      /\ late' = [late EXCEPT ![d] = IF pc[d] = None THEN @ - 1 ELSE @] /\ late[d] > 0
  BY DEF Failed, Cleared
<1>2. Rearmed(d) \in BOOLEAN /\ (Rearmed(d) <=> offerer[d] /\ ready[d])
  BY <1>t DEF Rearmed, ArmTypes
<1>3. late' \in [Devices -> 0 .. MaxLate]
  BY <1>t, <1>1 DEF ArmTypes
<1>4. ArmTypes' /\ ArmedAt(d)'
  BY <1>t, <1>1, <1>2, <1>3 DEF ArmTypes, ArmedAt
<1> QED
  BY <1>t, <1>1, <1>4, OneDevice DEF ArmTypes

\* A retry that cannot build its connection leaves a report instead of itself.
LEMMA RetryKeepsArmed ==
  ASSUME LegAssumption, Armed, NEW d \in Devices, Retry(d)
  PROVE  Armed'
<1>t. ArmTypes /\ late[d] \in 0 .. MaxLate
  BY DEF Armed, ArmTypes
<1>u. ready' = ready /\ offerer' = offerer /\ retry' = [retry EXCEPT ![d] = FALSE]
  BY DEF Retry
<1>1. CASE Built(d, sig, offerer[d], knows[d]) /\ UNCHANGED late
  <2>1. Fresh \in Connections /\ Fresh # None /\ pc' = [pc EXCEPT ![d] = Fresh]
    BY <1>1, FreshIsConnection DEF Built
  <2>2. ArmTypes' /\ ArmedAt(d)'
    BY <1>1, <1>t, <1>u, <2>1 DEF ArmTypes, ArmedAt
  <2> QED
    BY <1>1, <1>t, <1>u, <2>1, <2>2, OneDevice DEF ArmTypes
<1>2. CASE NotBuilt(d, sig, late[d]) /\ UNCHANGED pc
  <2>1. More(late[d]) \in 0 .. MaxLate /\ More(late[d]) > 0
    BY <1>t, MoreIsPositive
  <2>2. ArmTypes' /\ ArmedAt(d)'
    BY <1>2, <1>t, <1>u, <2>1 DEF ArmTypes, ArmedAt, NotBuilt
  <2> QED
    BY <1>2, <1>t, <1>u, <2>2, OneDevice DEF ArmTypes, NotBuilt
<1> QED
  BY <1>1, <1>2 DEF Retry

\* A channel that opens calls the retry off: there is a connection then.
LEMMA OpenKeepsArmed ==
  ASSUME LegAssumption, Armed, NEW d \in Devices, NEW lane \in Lanes, Ready(d, lane)
  PROVE  Armed'
<1>t. ArmTypes
  BY DEF Armed
<1>1. ready' = ready /\ offerer' = offerer /\ pc' = pc /\ late' = late
      /\ retry' = [retry EXCEPT ![d] = FALSE]
  BY DEF Ready
<1>2. pc[d] # None
  BY DEF Ready, Matched, Devices
<1>3. ArmTypes' /\ ArmedAt(d)'
  BY <1>t, <1>1, <1>2 DEF ArmTypes, ArmedAt
<1> QED
  BY <1>t, <1>1, <1>3, OneDevice DEF ArmTypes

\* A connection that fails adds a report.
LEMMA FailsKeepsArmed ==
  ASSUME LegAssumption, Armed, NEW d \in Devices, Fails(d)
  PROVE  Armed'
<1>t. ArmTypes /\ late[d] \in 0 .. MaxLate
  BY DEF Armed, ArmTypes
<1>1. ready' = ready /\ offerer' = offerer /\ pc' = pc /\ retry' = retry
      /\ late' = [late EXCEPT ![d] = More(late[d])]
  BY DEF Fails
<1>2. More(late[d]) \in 0 .. MaxLate /\ More(late[d]) > 0
  BY <1>t, MoreIsPositive
<1>3. ArmTypes' /\ ArmedAt(d)'
  BY <1>t, <1>1, <1>2 DEF ArmTypes, ArmedAt
<1> QED
  BY <1>t, <1>1, <1>3, OneDevice DEF ArmTypes

\* A session that is lost takes its leg with it, so nothing is owed.
LEMMA DropKeepsArmed ==
  ASSUME LegAssumption, Armed, NEW d \in Devices, Drop(d)
  PROVE  Armed'
<1>t. ArmTypes /\ MaxLate \in Nat
  BY DEF Armed, LegAssumption
<1>1. ready' = [ready EXCEPT ![d] = FALSE] /\ offerer' = [offerer EXCEPT ![d] = FALSE]
      /\ retry' = [retry EXCEPT ![d] = FALSE] /\ pc' = [pc EXCEPT ![d] = None]
      /\ late' = [late EXCEPT ![d] = 0]
  BY DEF Drop, Cleared
<1>2. ArmTypes' /\ ArmedAt(d)'
  BY <1>t, <1>1 DEF ArmTypes, ArmedAt
<1> QED
  BY <1>t, <1>1, <1>2, OneDevice DEF ArmTypes

LEMMA NextKeepsArmed ==
  ASSUME LegAssumption, Armed, [Next]_vars
  PROVE  Armed'
<1>0. CASE UNCHANGED vars
  BY <1>0 DEF vars, leg, Armed, ArmTypes, RetryArmed
<1>1. ASSUME NEW d \in Devices, Session(d) PROVE Armed'
  BY <1>1 DEF Session, Join, Announce, leg, Armed, ArmTypes, RetryArmed
<1>2. ASSUME NEW d \in Devices, Drop(d) PROVE Armed'
  BY <1>2, DropKeepsArmed
<1>3. ASSUME NEW d \in Devices, Read(d) PROVE Armed'
  <2>1. CASE ReadHello(d)
    BY <2>1, HelloKeepsArmed
  <2>2. CASE ReadOffer(d)
    BY <2>2, OfferKeepsArmed
  <2>3. CASE ReadAnswer(d)
    BY <2>3 DEF ReadAnswer, Armed, ArmTypes, RetryArmed
  <2> QED
    BY <1>3, <2>1, <2>2, <2>3 DEF Read
<1>4. ASSUME NEW d \in Devices, Failed(d) PROVE Armed'
  BY <1>4, FailedKeepsArmed
<1>5. ASSUME NEW d \in Devices, Retry(d) PROVE Armed'
  BY <1>5, RetryKeepsArmed
<1>6. ASSUME NEW d \in Devices, Open(d) PROVE Armed'
  <2>1. PICK lane \in Lanes : Ready(d, lane)
    BY <1>6 DEF Open
  <2> QED
    BY <2>1, OpenKeepsArmed
<1>7. ASSUME NEW d \in Devices, Expires(d) \/ Breaks(d) PROVE Armed'
  <2>1. Fails(d)
    BY <1>7 DEF Expires, Breaks
  <2> QED
    BY <2>1, FailsKeepsArmed
<1> QED
  BY <1>0, <1>1, <1>2, <1>3, <1>4, <1>5, <1>6, <1>7 DEF Next

\* Whoever is to offer and has heard of the other always has a round, a retry
\* or a failure report that will arm one (Input::Failed and Leg::start in
\* p2p.rs): no order of hellos, offers, late reports, failed builds and lost
\* sessions leaves the leg with nothing that would begin the next round.
THEOREM RetryStaysArmed == LegAssumption => (Spec => []RetryArmed)
<1> SUFFICES ASSUME LegAssumption PROVE Spec => []RetryArmed
  OBVIOUS
<1>1. Init => Armed
  BY InitArmed
<1>2. Armed /\ [Next]_vars => Armed'
  BY NextKeepsArmed
<1>3. Armed => RetryArmed
  BY DEF Armed
<1> QED
  BY <1>1, <1>2, <1>3, PTL DEF Spec

-----------------------------------------------------------------------------
(* Type correctness: a leg only ever holds descriptions that a connection   *)
(* has made, and the signals under way never pass their bound.              *)

Ends == Connections \cup {None}
Signals == [kind : {"hello", "offer", "answer"}, from : Ends, about : Ends]

Queues(q) == q \in [Devices -> Seq(Signals)] /\ \A d \in Devices : Len(q[d]) <= MaxSignals + 1

\* What ArmTypes leaves to be said.
RestTypes ==
  /\ state \in [Devices -> {"off", "joined", "live"}]
  /\ Queues(sig)
  /\ remote \in [Devices -> Ends]
  /\ open \in [Devices -> SUBSET Lanes]

LEMMA PeerIsOther ==
  ASSUME LegAssumption, NEW d \in Devices
  PROVE  Peer(d) \in Devices /\ Peer(d) # d
BY DEF LegAssumption, Devices, Peer

\* There is room for one signal more than the bound counts.
LEMMA SentFits ==
  ASSUME LegAssumption, NEW d \in Devices, NEW q, Queues(q), NEW s \in Signals,
         Len(q[Peer(d)]) < MaxSignals
  PROVE  Queues(Sent(q, d, s))
<1> DEFINE p == Peer(d)
           r == [q EXCEPT ![p] = Append(q[p], s)]
<1>1. p \in Devices /\ MaxSignals \in Nat
  BY PeerIsOther DEF LegAssumption
<1>2. q[p] \in Seq(Signals) /\ Len(q[p]) < MaxSignals
  BY <1>1 DEF Queues
<1>3. Append(q[p], s) \in Seq(Signals) /\ Len(Append(q[p], s)) = Len(q[p]) + 1
      /\ Len(q[p]) \in Nat
  BY <1>2
<1> HIDE DEF p
<1>4. r \in [Devices -> Seq(Signals)]
  BY <1>1, <1>3 DEF Queues
<1>5. ASSUME NEW e \in Devices PROVE Len(r[e]) <= MaxSignals + 1
  <2>1. CASE e = p
    <3>1. r[e] = Append(q[p], s)
      BY <1>1, <2>1 DEF Queues
    <3> QED
      BY <1>1, <1>2, <1>3, <3>1
  <2>2. CASE e # p
    <3>1. r[e] = q[e]
      BY <2>2 DEF Queues
    <3> QED
      BY <3>1 DEF Queues
  <2> QED
    BY <2>1, <2>2
<1>6. Queues(r)
  BY <1>4, <1>5 DEF Queues
<1> QED
  BY <1>6 DEF Sent, p

\* Taking a signal leaves the other queue as it is.
LEMMA TakenFits ==
  ASSUME LegAssumption, NEW d \in Devices, Queues(sig), sig[d] # <<>>
  PROVE  /\ Queues([sig EXCEPT ![d] = Tail(@)])
         /\ [sig EXCEPT ![d] = Tail(@)][Peer(d)] = sig[Peer(d)]
         /\ Head(sig[d]) \in Signals
<1> DEFINE r == [sig EXCEPT ![d] = Tail(sig[d])]
<1>1. sig[d] \in Seq(Signals) /\ Len(sig[d]) <= MaxSignals + 1 /\ MaxSignals \in Nat
  BY DEF Queues, LegAssumption
<1>2. Tail(sig[d]) \in Seq(Signals) /\ Len(Tail(sig[d])) = Len(sig[d]) - 1
      /\ Len(sig[d]) \in Nat
  BY <1>1
<1>3. r \in [Devices -> Seq(Signals)]
  BY <1>2 DEF Queues
<1>4. ASSUME NEW e \in Devices PROVE Len(r[e]) <= MaxSignals + 1
  <2>1. CASE e = d
    <3>1. r[e] = Tail(sig[d])
      BY <2>1 DEF Queues
    <3>2. Len(r[e]) = Len(sig[d]) - 1
      BY <1>2, <3>1
    <3> HIDE DEF r
    <3> QED
      BY <1>1, <1>2, <3>2
  <2>2. CASE e # d
    <3>1. r[e] = sig[e]
      BY <2>2 DEF Queues
    <3> QED
      BY <3>1 DEF Queues
  <2> QED
    BY <2>1, <2>2
<1>5. Queues(r)
  BY <1>3, <1>4 DEF Queues
<1>6. r[Peer(d)] = sig[Peer(d)]
  BY PeerIsOther DEF Queues
<1>7. Head(sig[d]) \in Signals
  BY <1>1
<1> QED
  BY <1>5, <1>6, <1>7

LEMMA InitRest == LegAssumption /\ Init => RestTypes
<1> SUFFICES ASSUME LegAssumption, Init PROVE RestTypes
  OBVIOUS
<1>1. <<>> \in Seq(Signals) /\ Len(<<>>) = 0
  OBVIOUS
<1>2. Queues(sig)
  BY <1>1 DEF Init, Queues, LegAssumption
<1>3. remote \in [Devices -> Ends] /\ open \in [Devices -> SUBSET Lanes]
      /\ state \in [Devices -> {"off", "joined", "live"}]
  BY DEF Init, Ends
<1> QED
  BY <1>2, <1>3 DEF RestTypes

\* What a connection that is built, or torn down, leaves behind.
LEMMA BuiltFits ==
  ASSUME LegAssumption, NEW d \in Devices, RestTypes, NEW q, Queues(q),
         Len(q[Peer(d)]) < MaxSignals, NEW offers, NEW informed, Built(d, q, offers, informed)
  PROVE  Queues(sig') /\ remote' \in [Devices -> Ends] /\ open' \in [Devices -> SUBSET Lanes]
<1>1. Fresh \in Ends /\ None \in Ends
  BY FreshIsConnection DEF Built, Ends
<1>2. remote' = [remote EXCEPT ![d] = None] /\ open' = [open EXCEPT ![d] = {}]
  BY DEF Built
<1>3. remote' \in [Devices -> Ends]
  BY <1>1, <1>2 DEF RestTypes
<1>4. open' \in [Devices -> SUBSET Lanes]
  BY <1>2 DEF RestTypes
<1>5. Signal("offer", Fresh, None) \in Signals
  BY <1>1 DEF Signal, Signals
<1>6. Queues(Sent(q, d, Signal("offer", Fresh, None)))
  BY <1>5, SentFits
<1>7. sig' = Sent(q, d, Signal("offer", Fresh, None)) \/ sig' = q
  BY DEF Built
<1> QED
  BY <1>3, <1>4, <1>6, <1>7

LEMMA ClearedFits ==
  ASSUME NEW d \in Devices, RestTypes, Cleared(d)
  PROVE  remote' \in [Devices -> Ends] /\ open' \in [Devices -> SUBSET Lanes]
<1>1. remote' = [remote EXCEPT ![d] = None] /\ open' = [open EXCEPT ![d] = {}] /\ None \in Ends
  BY DEF Cleared, Ends
<1>2. remote' \in [Devices -> Ends]
  BY <1>1 DEF RestTypes
<1>3. open' \in [Devices -> SUBSET Lanes]
  BY <1>1 DEF RestTypes
<1> QED
  BY <1>2, <1>3

LEMMA NextKeepsRest ==
  ASSUME LegAssumption, Armed, RestTypes, [Next]_vars
  PROVE  RestTypes'
<1>t. Queues(sig) /\ MaxSignals \in Nat
  BY DEF RestTypes, LegAssumption
<1>0. CASE UNCHANGED vars
  BY <1>0 DEF vars, leg, RestTypes, Queues
<1>1. ASSUME NEW d \in Devices, Session(d) PROVE RestTypes'
  <2>1. CASE Join(d)
    <3>1. state' = [state EXCEPT ![d] = "joined"] /\ UNCHANGED <<sig, remote, open>>
      BY <2>1 DEF Join, leg
    <3> QED
      BY <3>1 DEF RestTypes, Queues
  <2>2. CASE Announce(d)
    <3>1. /\ state' = [state EXCEPT ![d] = "live"] /\ UNCHANGED <<remote, open>>
          /\ sig' = Sent(sig, d, Signal("hello", None, None)) /\ Len(sig[Peer(d)]) < MaxSignals
      BY <2>2 DEF Announce, leg, Room
    <3>2. Signal("hello", None, None) \in Signals
      BY DEF Signal, Signals, Ends
    <3>3. Queues(sig')
      BY <1>t, <3>1, <3>2, SentFits
    <3> QED
      BY <3>1, <3>3 DEF RestTypes, Queues
  <2> QED
    BY <1>1, <2>1, <2>2 DEF Session
<1>2. ASSUME NEW d \in Devices, Drop(d) PROVE RestTypes'
  <2>1. /\ state' = [state EXCEPT ![d] = "off"] /\ sig' = [sig EXCEPT ![d] = <<>>]
        /\ Cleared(d)
    BY <1>2 DEF Drop
  <2>2. sig' \in [Devices -> Seq(Signals)]
    BY <1>t, <2>1 DEF Queues
  <2>3. ASSUME NEW e \in Devices PROVE Len(sig'[e]) <= MaxSignals + 1
    <3>1. CASE e = d
      <4>1. sig'[e] = <<>>
        BY <1>t, <2>1, <3>1 DEF Queues
      <4> QED
        BY <1>t, <4>1
    <3>2. CASE e # d
      BY <1>t, <2>1, <3>2 DEF Queues
    <3> QED
      BY <3>1, <3>2
  <2> QED
    BY <2>1, <2>2, <2>3, ClearedFits DEF RestTypes, Queues
<1>3. ASSUME NEW d \in Devices, Read(d) PROVE RestTypes'
  <2> DEFINE q == [sig EXCEPT ![d] = Tail(@)]
             s == Head(sig[d])
  <2>1. sig[d] # <<>> /\ Len(sig[Peer(d)]) < MaxSignals /\ state' = state
    BY <1>3 DEF Read, Room
  <2>2. Queues(q) /\ Len(q[Peer(d)]) < MaxSignals /\ s \in Signals
    BY <1>t, <2>1, TakenFits
  <2> HIDE DEF q, s
  <2>3. s.from \in Ends
    BY <2>2 DEF Signals
  <2>4. ASSUME Queues(sig'), remote' \in [Devices -> Ends], open' \in [Devices -> SUBSET Lanes]
        PROVE  RestTypes'
    BY <2>1, <2>4 DEF RestTypes, Queues
  <2>5. CASE ReadHello(d)
    <3>1. CASE Built(d, q, d = Small, TRUE)
      BY <2>2, <2>4, <3>1, BuiltFits
    <3>2. CASE sig' = q /\ Cleared(d)
      BY <2>2, <2>4, <3>2, ClearedFits
    <3> QED
      BY <2>5, <3>1, <3>2 DEF ReadHello, NotBuilt, q
  <2>6. CASE ReadOffer(d)
    <3>1. ASSUME NEW mine \in Ends, sig' = AnswerTo(d, q, s, mine) PROVE Queues(sig')
      <4>1. Signal("answer", mine, s.from) \in Signals
        BY <2>3 DEF Signal, Signals
      <4> QED
        BY <2>2, <3>1, <4>1, SentFits DEF AnswerTo
    <3>2. CASE pc[d] # None /\ remote' = [remote EXCEPT ![d] = s.from]
               /\ sig' = AnswerTo(d, q, s, pc[d]) /\ UNCHANGED open
      <4>1. pc[d] \in Ends
        BY DEF Armed, ArmTypes, Ends
      <4>2. remote' \in [Devices -> Ends]
        BY <2>3, <3>2 DEF RestTypes
      <4> QED
        BY <2>4, <3>1, <3>2, <4>1, <4>2 DEF RestTypes
    <3>3. CASE Unused # {} /\ remote' = [remote EXCEPT ![d] = s.from]
               /\ open' = [open EXCEPT ![d] = {}] /\ sig' = AnswerTo(d, q, s, Fresh)
      <4>1. Fresh \in Ends
        BY <3>3, FreshIsConnection DEF Ends
      <4>2. remote' \in [Devices -> Ends]
        BY <2>3, <3>3 DEF RestTypes
      <4>3. open' \in [Devices -> SUBSET Lanes]
        BY <3>3 DEF RestTypes
      <4> QED
        BY <2>4, <3>1, <3>3, <4>1, <4>2, <4>3
    <3>4. CASE sig' = q /\ UNCHANGED <<remote, open>>
      BY <2>2, <2>4, <3>4 DEF RestTypes
    <3> QED
      BY <2>6, <3>2, <3>3, <3>4 DEF ReadOffer, NotBuilt, Deferred, q, s
  <2>7. CASE ReadAnswer(d)
    <3>1. /\ sig' = q /\ UNCHANGED open
          /\ remote' = [remote EXCEPT ![d] = IF pc[d] = None THEN remote[d] ELSE s.from]
      BY <2>7 DEF ReadAnswer, q, s
    <3>2. (IF pc[d] = None THEN remote[d] ELSE s.from) \in Ends
      BY <2>3 DEF RestTypes
    <3>3. remote' \in [Devices -> Ends]
      BY <3>1, <3>2 DEF RestTypes
    <3> QED
      BY <2>2, <2>4, <3>1, <3>3 DEF RestTypes
  <2> QED
    BY <1>3, <2>5, <2>6, <2>7 DEF Read
<1>4. ASSUME NEW d \in Devices, Failed(d) PROVE RestTypes'
  <2>1. Cleared(d) /\ UNCHANGED <<state, sig>>
    BY <1>4 DEF Failed
  <2> QED
    BY <2>1, ClearedFits DEF RestTypes, Queues
<1>5. ASSUME NEW d \in Devices, Retry(d) PROVE RestTypes'
  <2>1. CASE Built(d, sig, offerer[d], knows[d])
    <3>1. Len(sig[Peer(d)]) < MaxSignals /\ state' = state
      BY <1>5 DEF Retry, Room
    <3>2. Queues(sig') /\ remote' \in [Devices -> Ends] /\ open' \in [Devices -> SUBSET Lanes]
      BY <1>t, <2>1, <3>1, BuiltFits
    <3> QED
      BY <3>1, <3>2 DEF RestTypes, Queues
  <2>2. CASE NotBuilt(d, sig, late[d]) /\ UNCHANGED <<remote, open>>
    <3>1. UNCHANGED <<state, sig, remote, open>>
      BY <1>5, <2>2 DEF Retry, NotBuilt
    <3> QED
      BY <3>1 DEF RestTypes, Queues
  <2> QED
    BY <1>5, <2>1, <2>2 DEF Retry
<1>6. ASSUME NEW d \in Devices, Open(d) PROVE RestTypes'
  <2>1. PICK lane \in Lanes : Ready(d, lane)
    BY <1>6 DEF Open
  <2>2. open' = [open EXCEPT ![d] = open[d] \cup {lane}] /\ UNCHANGED <<state, sig, remote>>
    BY <2>1 DEF Ready
  <2>3. open' \in [Devices -> SUBSET Lanes]
    BY <2>2 DEF RestTypes
  <2> QED
    BY <2>2, <2>3 DEF RestTypes, Queues
<1>7. ASSUME NEW d \in Devices, Expires(d) \/ Breaks(d) PROVE RestTypes'
  <2>1. UNCHANGED <<state, sig, remote, open>>
    BY <1>7 DEF Expires, Breaks, Fails
  <2> QED
    BY <2>1 DEF RestTypes, Queues
<1> QED
  BY <1>0, <1>1, <1>2, <1>3, <1>4, <1>5, <1>6, <1>7 DEF Next

LEMMA ArmedIsTyped == Armed /\ RestTypes => TypeOK
BY DEF Armed, ArmTypes, RestTypes, Queues, Ends, TypeOK

\* Legs hold descriptions of connections only and the signals under way stay
\* within their bound, for any devices, numbering and faults (drive and
\* Leg::handle in p2p.rs).
THEOREM TypeCorrect == LegAssumption => (Spec => []TypeOK)
<1> SUFFICES ASSUME LegAssumption PROVE Spec => []TypeOK
  OBVIOUS
<1>1. Init => Armed /\ RestTypes
  BY InitArmed, InitRest
<1>2. Armed /\ RestTypes /\ [Next]_vars => (Armed /\ RestTypes)'
  BY NextKeepsArmed, NextKeepsRest
<1>3. Armed /\ RestTypes => TypeOK
  BY ArmedIsTyped
<1> QED
  BY <1>1, <1>2, <1>3, PTL DEF Spec

-----------------------------------------------------------------------------
(* A round goes on.  What is under way to a device, as a set.               *)

Mail(q, d) == {q[d][i] : i \in DOMAIN q[d]}

LEMMA SentMail ==
  ASSUME LegAssumption, NEW d \in Devices, NEW q, Queues(q), NEW s \in Signals
  PROVE  /\ Mail(Sent(q, d, s), d) = Mail(q, d)
         /\ Mail(Sent(q, d, s), Peer(d)) \subseteq Mail(q, Peer(d)) \cup {s}
         /\ Mail(q, Peer(d)) \subseteq Mail(Sent(q, d, s), Peer(d))
         /\ state[Peer(d)] # "off" => s \in Mail(Sent(q, d, s), Peer(d))
<1> DEFINE p == Peer(d)
           r == [q EXCEPT ![p] = Append(q[p], s)]
<1>1. p \in Devices /\ p # d
  BY PeerIsOther
<1> HIDE DEF p
<1>2. q[p] \in Seq(Signals) /\ q \in [Devices -> Seq(Signals)]
  BY <1>1 DEF Queues
<1>3. r[d] = q[d] /\ r[p] = Append(q[p], s)
  BY <1>1, <1>2
<1> HIDE DEF r
<1>4. /\ DOMAIN r[p] = 1 .. (Len(q[p]) + 1) /\ DOMAIN q[p] = 1 .. Len(q[p])
      /\ \A i \in 1 .. Len(q[p]) : r[p][i] = q[p][i]
      /\ r[p][Len(q[p]) + 1] = s /\ Len(q[p]) \in Nat
  BY <1>2, <1>3
<1>5. Mail(r, p) = Mail(q, p) \cup {s}
  <2>1. ASSUME NEW m \in Mail(r, p) PROVE m \in Mail(q, p) \cup {s}
    <3>1. PICK i \in DOMAIN r[p] : m = r[p][i]
      BY <2>1 DEF Mail
    <3>2. i \in 1 .. Len(q[p]) \/ i = Len(q[p]) + 1
      BY <1>4, <3>1
    <3> QED
      BY <1>4, <3>1, <3>2 DEF Mail
  <2>2. ASSUME NEW m \in Mail(q, p) PROVE m \in Mail(r, p)
    <3>1. PICK i \in DOMAIN q[p] : m = q[p][i]
      BY <2>2 DEF Mail
    <3>2. i \in DOMAIN r[p] /\ m = r[p][i]
      BY <1>4, <3>1
    <3> QED
      BY <3>2 DEF Mail
  <2>3. s \in Mail(r, p)
    <3>1. Len(q[p]) + 1 \in DOMAIN r[p]
      BY <1>4
    <3> QED
      BY <1>4, <3>1 DEF Mail
  <2> QED
    BY <2>1, <2>2, <2>3
<1>6. Mail(r, d) = Mail(q, d)
  BY <1>3 DEF Mail
<1>7. Sent(q, d, s) = IF state[p] = "off" THEN q ELSE r
  BY DEF Sent, p, r
<1> QED
  BY <1>5, <1>6, <1>7 DEF p

LEMMA TakenMail ==
  ASSUME LegAssumption, NEW d \in Devices, Queues(sig), sig[d] # <<>>
  PROVE  /\ Mail(sig, d) = {Head(sig[d])} \cup Mail([sig EXCEPT ![d] = Tail(@)], d)
         /\ Mail([sig EXCEPT ![d] = Tail(@)], Peer(d)) = Mail(sig, Peer(d))
<1> DEFINE r == [sig EXCEPT ![d] = Tail(sig[d])]
<1>1. sig[d] \in Seq(Signals) /\ sig \in [Devices -> Seq(Signals)]
  BY DEF Queues
<1>2. r[d] = Tail(sig[d]) /\ r[Peer(d)] = sig[Peer(d)]
  BY <1>1, PeerIsOther
<1> HIDE DEF r
<1>3. /\ DOMAIN r[d] = 1 .. (Len(sig[d]) - 1) /\ DOMAIN sig[d] = 1 .. Len(sig[d])
      /\ Len(sig[d]) \in Nat \ {0} /\ Head(sig[d]) = sig[d][1]
      /\ \A i \in 1 .. (Len(sig[d]) - 1) : r[d][i] = sig[d][i + 1]
  BY <1>1, <1>2
<1>4. ASSUME NEW m \in Mail(sig, d) PROVE m = Head(sig[d]) \/ m \in Mail(r, d)
  <2>1. PICK i \in DOMAIN sig[d] : m = sig[d][i]
    BY <1>4 DEF Mail
  <2>2. CASE i = 1
    BY <1>3, <2>1, <2>2
  <2>3. CASE i # 1
    <3>1. i - 1 \in DOMAIN r[d] /\ m = r[d][i - 1]
      BY <1>3, <2>1, <2>3
    <3> QED
      BY <3>1 DEF Mail
  <2> QED
    BY <2>2, <2>3
<1>5. ASSUME NEW m \in Mail(r, d) PROVE m \in Mail(sig, d)
  <2>1. PICK i \in DOMAIN r[d] : m = r[d][i]
    BY <1>5 DEF Mail
  <2>2. i + 1 \in DOMAIN sig[d] /\ m = sig[d][i + 1]
    BY <1>3, <2>1
  <2> QED
    BY <2>2 DEF Mail
<1>6. Head(sig[d]) \in Mail(sig, d)
  <2>1. 1 \in DOMAIN sig[d]
    BY <1>3
  <2> QED
    BY <1>3, <2>1 DEF Mail
<1>7. Mail(r, Peer(d)) = Mail(sig, Peer(d))
  BY <1>2 DEF Mail
<1> QED
  BY <1>4, <1>5, <1>6, <1>7 DEF r

\* Only the smaller side offers, so it is only ever sent hellos and answers;
\* and a device that can build its connections never holds back.
Readable(m) == m.kind # "offer" /\ (m.kind = "answer" => m.from # None)

OneOffers ==
  /\ \A m \in Mail(sig, Small) : Readable(m)
  /\ ~offerer[Large]
  /\ ready[Small] => offerer[Small] /\ Live(Small)
  /\ broken \in [Devices -> BOOLEAN]
  /\ Large \notin Misbuilds => ~broken[Large]

\* RoundGoesOn, in terms of the sets.
Sustained ==
  \/ \E m \in Mail(sig, Large) : m.kind = "offer" /\ m.from = pc[Small]
  \/ \E m \in Mail(sig, Small) : m.kind \in {"answer", "hello"}
  \/ remote[Small] # None \/ late[Small] > 0

Goes == Large \notin Misbuilds /\ Heard /\ pc[Small] # None => Sustained

LEMMA SustainedShows == Goes <=> RoundGoesOn
BY DEF Goes, Sustained, RoundGoesOn, Offering, Waiting, Mail

LegSound == Armed /\ RestTypes /\ OneOffers /\ Goes

LEMMA InitLeg == LegAssumption /\ Init => LegSound
<1> SUFFICES ASSUME LegAssumption, Init PROVE LegSound
  OBVIOUS
<1>1. Small \in Devices /\ Large \in Devices /\ Mail(sig, Small) = {}
  BY DEF Init, Devices, Mail
<1>2. OneOffers
  BY <1>1 DEF Init, OneOffers
<1>3. Goes
  BY <1>1 DEF Init, Goes
<1> QED
  BY <1>2, <1>3, InitArmed, InitRest DEF LegSound

\* A step that leaves the smaller side's round as it is.
LEMMA RoundStays ==
  ASSUME Goes, Heard' => Heard, pc'[Small] = pc[Small],
         remote[Small] # None => remote'[Small] # None, late[Small] > 0 => late'[Small] > 0,
         \A m \in Mail(sig, Large) : m.kind = "offer" => m \in Mail(sig', Large),
         Mail(sig, Small) \subseteq Mail(sig', Small)
  PROVE  Goes'
BY DEF Goes, Sustained

\* The two sides, and what a leg's values are.
LEMMA Sides ==
  ASSUME LegAssumption, LegSound
  PROVE  /\ Small \in Devices /\ Large \in Devices /\ Small # Large
         /\ Peer(Small) = Large /\ Peer(Large) = Small
         /\ ready \in [Devices -> BOOLEAN] /\ offerer \in [Devices -> BOOLEAN]
         /\ pc \in [Devices -> Ends] /\ remote \in [Devices -> Ends]
         /\ late \in [Devices -> 0 .. MaxLate]
         /\ state \in [Devices -> {"off", "joined", "live"}] /\ Queues(sig)
         /\ sig \in [Devices -> Seq(Signals)]
BY DEF LegAssumption, LegSound, Armed, ArmTypes, RestTypes, Devices, Peer, Ends, Queues

\* The smaller side builds a connection: its offer is under way.
LEMMA OfferGoes ==
  ASSUME LegAssumption, LegSound, NEW q, Queues(q), NEW informed,
         Built(Small, q, TRUE, informed), UNCHANGED state
  PROVE  Goes' /\ Mail(sig', Small) = Mail(q, Small)
<1> DEFINE s == Signal("offer", Fresh, None)
<1>1. pc' = [pc EXCEPT ![Small] = Fresh] /\ sig' = Sent(q, Small, s)
  BY DEF Built
<1>2. Fresh \in Ends /\ None \in Ends
  BY FreshIsConnection DEF Ends, Built
<1>3. s \in Signals /\ s.kind = "offer" /\ s.from = Fresh
  BY <1>2 DEF Signals, Signal
<1> HIDE DEF s
<1>4. state[Large] # "off" => s \in Mail(sig', Large)
  BY <1>1, <1>3, Sides, SentMail
<1>5. Mail(sig', Small) = Mail(q, Small)
  BY <1>1, <1>3, Sides, SentMail
<1>6. pc'[Small] = Fresh
  BY <1>1, Sides
<1>7. Heard' => state[Large] # "off"
  BY Sides DEF Heard, BothLive, Live
<1> QED
  BY <1>3, <1>4, <1>5, <1>6, <1>7 DEF Goes, Sustained

\* A hello lets the smaller side offer anew; the other gives up its connection.
LEMMA HelloKeepsLeg ==
  ASSUME LegAssumption, LegSound, NEW d \in Devices, Live(d), sig[d] # <<>>, UNCHANGED state,
         ReadHello(d)
  PROVE  OneOffers' /\ Goes'
<1> DEFINE q == [sig EXCEPT ![d] = Tail(@)]
<1>1. /\ Queues(q) /\ Head(sig[d]) \in Signals
      /\ Mail(sig, d) = {Head(sig[d])} \cup Mail(q, d) /\ Mail(q, Peer(d)) = Mail(sig, Peer(d))
  BY Sides, TakenFits, TakenMail
<1>2. /\ ready' = [ready EXCEPT ![d] = TRUE] /\ offerer' = [offerer EXCEPT ![d] = d = Small]
      /\ Head(sig[d]).kind = "hello"
      /\ \/ Built(d, q, d = Small, TRUE)
         \/ NotBuilt(d, q, Torn(d)) /\ Cleared(d)
         \/ broken[d] /\ sig' = q /\ Cleared(d) /\ UNCHANGED broken
  BY DEF ReadHello
<1> HIDE DEF q
<1>3. /\ broken' \in [Devices -> BOOLEAN]
      /\ Large \notin Misbuilds => ~broken'[Large]
  <2>1. \/ broken' = [broken EXCEPT ![d] = FALSE] \/ broken' = broken
        \/ d \in Misbuilds /\ broken' = [broken EXCEPT ![d] = TRUE]
    BY <1>2 DEF Built, NotBuilt
  <2> QED
    BY <2>1, Sides DEF LegSound, OneOffers
<1>4. ~offerer'[Large] /\ (ready'[Small] => offerer'[Small] /\ Live(Small)')
  BY <1>2, Sides DEF LegSound, OneOffers, Live
<1>5. CASE d = Small
  <2>1. Mail(q, Small) \subseteq Mail(sig, Small)
    BY <1>1, <1>5
  <2>2. CASE Built(d, q, d = Small, TRUE)
    <3>1. Built(Small, q, TRUE, TRUE)
      BY <1>5, <2>2
    <3>2. Goes' /\ Mail(sig', Small) = Mail(q, Small)
      BY <1>1, <3>1, OfferGoes
    <3> QED
      BY <1>3, <1>4, <2>1, <3>2 DEF LegSound, OneOffers
  <2>3. CASE sig' = q /\ Cleared(d)
    <3>1. pc'[Small] = None
      BY <1>5, <2>3, Sides DEF Cleared
    <3> QED
      BY <1>3, <1>4, <2>1, <2>3, <3>1 DEF LegSound, OneOffers, Goes
  <2> QED
    BY <1>2, <2>2, <2>3 DEF NotBuilt
<1>6. CASE d = Large
  <2>1. sig' = q
    BY <1>2, <1>6, Sides DEF Built, NotBuilt
  <2>2. pc'[Small] = pc[Small] /\ remote'[Small] = remote[Small]
    BY <1>2, <1>6, Sides DEF Built, Cleared
  <2>3. late'[Small] = late[Small] /\ ready'[Small] = ready[Small]
    BY <1>6, Sides DEF ReadHello, NotBuilt
  <2>4. Mail(sig', Small) = Mail(sig, Small)
    BY <1>1, <1>6, <2>1, Sides
  <2>5. \A m \in Mail(sig, Large) : m.kind = "offer" => m \in Mail(sig', Large)
    BY <1>1, <1>2, <1>6, <2>1
  <2>6. Heard' => Heard
    BY <2>3 DEF Heard, BothLive, Live
  <2>7. Goes'
    BY <2>2, <2>3, <2>4, <2>5, <2>6, RoundStays DEF LegSound
  <2> QED
    BY <1>3, <1>4, <2>4, <2>7 DEF LegSound, OneOffers
<1> QED
  BY <1>5, <1>6 DEF Devices

\* Only the larger side is offered anything, and it answers.
LEMMA OfferKeepsLeg ==
  ASSUME LegAssumption, LegSound, NEW d \in Devices, Live(d), sig[d] # <<>>, UNCHANGED state,
         ReadOffer(d)
  PROVE  OneOffers' /\ Goes'
<1> DEFINE q == [sig EXCEPT ![d] = Tail(@)]
           s == Head(sig[d])
<1>1. /\ Queues(q) /\ s \in Signals
      /\ Mail(sig, d) = {s} \cup Mail(q, d) /\ Mail(q, Peer(d)) = Mail(sig, Peer(d))
  BY Sides, TakenFits, TakenMail
<1>2. s.kind = "offer"
  BY DEF ReadOffer
<1> HIDE DEF q, s
<1>3. d = Large
  BY <1>1, <1>2 DEF Devices, LegSound, OneOffers, Readable
<1>4. /\ ready' = [ready EXCEPT ![d] = TRUE] /\ offerer' = offerer
      /\ pc'[Small] = pc[Small] /\ remote'[Small] = remote[Small]
  BY <1>3, Sides DEF ReadOffer, Deferred
<1>5. late'[Small] = late[Small]
  BY <1>3, Sides DEF ReadOffer, Deferred, NotBuilt
<1>6. /\ broken' \in [Devices -> BOOLEAN]
      /\ Large \notin Misbuilds => ~broken'[Large]
  <2>1. \/ broken' = [broken EXCEPT ![d] = FALSE] \/ broken' = broken
        \/ d \in Misbuilds /\ broken' = [broken EXCEPT ![d] = TRUE]
    BY DEF ReadOffer, NotBuilt, Deferred
  <2> QED
    BY <1>3, <2>1, Sides DEF LegSound, OneOffers
<1>7. ready'[Small] = ready[Small] /\ (Heard' => Heard)
  BY <1>3, <1>4, Sides DEF Heard, BothLive, Live
<1>8. CASE \E mine \in Ends \ {None} : sig' = AnswerTo(d, q, s, mine)
  <2>1. PICK mine \in Ends \ {None} : sig' = AnswerTo(d, q, s, mine)
    BY <1>8
  <2> DEFINE a == Signal("answer", mine, s.from)
  <2>2. a \in Signals /\ a.kind = "answer" /\ a.from # None /\ sig' = Sent(q, d, a)
    BY <1>1, <2>1 DEF Signal, Signals, AnswerTo
  <2> HIDE DEF a
  <2>3. /\ Mail(sig', Small) \subseteq Mail(q, Small) \cup {a}
        /\ state[Small] # "off" => a \in Mail(sig', Small)
    BY <1>1, <1>3, <2>2, Sides, SentMail
  <2>4. Heard' => state[Small] # "off"
    BY Sides DEF Heard, BothLive, Live
  <2>5. Goes'
    BY <2>2, <2>3, <2>4 DEF Goes, Sustained
  <2>6. \A m \in Mail(sig', Small) : Readable(m)
    BY <1>1, <1>3, <2>2, <2>3, Sides DEF LegSound, OneOffers, Readable
  <2> QED
    BY <1>4, <1>6, <1>7, <2>5, <2>6 DEF LegSound, OneOffers, Live
<1>9. CASE Large \in Misbuilds /\ sig' = q
  <2>1. Goes'
    BY <1>9 DEF Goes
  <2>2. Mail(sig', Small) = Mail(sig, Small)
    BY <1>1, <1>3, <1>9, Sides
  <2> QED
    BY <1>4, <1>6, <1>7, <2>1, <2>2 DEF LegSound, OneOffers, Live
<1>10. \/ \E mine \in Ends \ {None} : sig' = AnswerTo(d, q, s, mine)
       \/ Large \in Misbuilds /\ sig' = q
  <2>1. CASE pc[d] # None /\ sig' = AnswerTo(d, q, s, pc[d])
    BY <2>1, Sides
  <2>2. CASE Unused # {} /\ sig' = AnswerTo(d, q, s, Fresh)
    BY <2>2, FreshIsConnection DEF Ends
  <2>3. CASE NotBuilt(d, q, late[d]) \/ Deferred(d, q)
    BY <1>3, <2>3 DEF NotBuilt, Deferred, LegSound, OneOffers
  <2> QED
    BY <2>1, <2>2, <2>3 DEF ReadOffer, q, s
<1> QED
  BY <1>8, <1>9, <1>10

\* An answer gives the smaller side the description it waits for.
LEMMA AnswerKeepsLeg ==
  ASSUME LegAssumption, LegSound, NEW d \in Devices, Live(d), sig[d] # <<>>, UNCHANGED state,
         ReadAnswer(d)
  PROVE  OneOffers' /\ Goes'
<1> DEFINE q == [sig EXCEPT ![d] = Tail(@)]
           s == Head(sig[d])
<1>1. Mail(sig, d) = {s} \cup Mail(q, d) /\ Mail(q, Peer(d)) = Mail(sig, Peer(d))
  BY Sides, TakenMail
<1>2. /\ sig' = q /\ UNCHANGED <<ready, offerer, pc, broken, late>> /\ s.kind = "answer"
      /\ remote' = [remote EXCEPT ![d] = IF pc[d] = None THEN remote[d] ELSE s.from]
  BY DEF ReadAnswer
<1> HIDE DEF q, s
<1>3. Mail(sig', Small) \subseteq Mail(sig, Small)
  BY <1>1, <1>2, Sides DEF Devices
<1>4. OneOffers'
  BY <1>2, <1>3 DEF LegSound, OneOffers, Live
<1>5. CASE d = Small
  <2>1. s.from # None
    BY <1>1, <1>2, <1>5 DEF LegSound, OneOffers, Readable
  <2>2. pc[Small] # None => remote'[Small] # None
    BY <1>2, <1>5, <2>1, Sides
  <2> QED
    BY <1>2, <1>4, <2>2 DEF Goes, Sustained
<1>6. CASE d = Large
  <2>1. remote'[Small] = remote[Small] /\ Mail(sig', Small) = Mail(sig, Small)
    BY <1>1, <1>2, <1>6, Sides
  <2>2. \A m \in Mail(sig, Large) : m.kind = "offer" => m \in Mail(sig', Large)
    BY <1>1, <1>2, <1>6
  <2>3. Heard' => Heard
    BY <1>2 DEF Heard, BothLive, Live
  <2> QED
    BY <1>2, <1>4, <2>1, <2>2, <2>3, RoundStays DEF LegSound
<1> QED
  BY <1>5, <1>6 DEF Devices

\* A retry offers anew, or leaves a report of what could not be built.
LEMMA RetryKeepsLeg ==
  ASSUME LegAssumption, LegSound, NEW d \in Devices, Retry(d)
  PROVE  OneOffers' /\ Goes'
<1>1. Live(d) /\ UNCHANGED <<state, ready, offerer>>
  BY DEF Retry
<1>2. \/ Built(d, sig, offerer[d], knows[d]) /\ UNCHANGED late
      \/ NotBuilt(d, sig, late[d]) /\ UNCHANGED <<pc, remote>>
  BY DEF Retry
<1>3. /\ broken' \in [Devices -> BOOLEAN]
      /\ Large \notin Misbuilds => ~broken'[Large]
  <2>1. \/ broken' = [broken EXCEPT ![d] = FALSE]
        \/ d \in Misbuilds /\ broken' = [broken EXCEPT ![d] = TRUE]
    BY <1>2 DEF Built, NotBuilt
  <2> QED
    BY <2>1, Sides DEF LegSound, OneOffers
<1>4. ASSUME Mail(sig', Small) = Mail(sig, Small) PROVE OneOffers'
  BY <1>1, <1>3, <1>4 DEF LegSound, OneOffers, Live
<1>5. CASE d = Small /\ Built(d, sig, offerer[d], knows[d])
  <2>1. CASE offerer[Small]
    <3>1. Built(Small, sig, TRUE, knows[Small])
      BY <1>5, <2>1, Sides DEF Built
    <3> QED
      BY <1>1, <1>4, <3>1, Sides, OfferGoes
  <2>2. CASE ~offerer[Small]
    <3>1. ~Heard'
      BY <1>1, <2>2 DEF Heard, LegSound, OneOffers
    <3>2. sig' = sig
      BY <1>5, <2>2 DEF Built
    <3> QED
      BY <1>4, <3>1, <3>2 DEF Goes
  <2> QED
    BY <2>1, <2>2
<1>6. CASE d = Small /\ NotBuilt(d, sig, late[d])
  <2>1. late'[Small] > 0
    <3>1. late[d] \in 0 .. MaxLate
      BY Sides
    <3>2. More(late[d]) > 0 /\ late' = [late EXCEPT ![d] = More(late[d])]
      BY <1>6, <3>1, MoreIsPositive DEF NotBuilt
    <3> QED
      BY <1>6, <3>2, Sides
  <2> QED
    BY <1>4, <1>6, <2>1 DEF NotBuilt, Goes, Sustained
<1>7. CASE d = Large
  <2>1. sig' = sig
    BY <1>2, <1>7 DEF Built, NotBuilt, LegSound, OneOffers
  <2>2. pc'[Small] = pc[Small] /\ remote'[Small] = remote[Small]
    BY <1>2, <1>7, Sides DEF Built
  <2>3. late'[Small] = late[Small]
    BY <1>2, <1>7, Sides DEF NotBuilt
  <2>4. Heard' => Heard
    BY <1>1 DEF Heard, BothLive, Live
  <2> QED
    BY <1>4, <2>1, <2>2, <2>3, <2>4, RoundStays DEF LegSound
<1> QED
  BY <1>2, <1>5, <1>6, <1>7 DEF Devices

\* A report clears the connection whose offer it may have been.
LEMMA FailedKeepsLeg ==
  ASSUME LegAssumption, LegSound, NEW d \in Devices, Failed(d)
  PROVE  OneOffers' /\ Goes'
<1>1. UNCHANGED <<state, sig, ready, offerer, broken>> /\ Cleared(d)
  BY DEF Failed
<1>2. OneOffers'
  BY <1>1 DEF LegSound, OneOffers, Live
<1>3. CASE d = Small
  <2>1. pc'[Small] = None
    BY <1>1, <1>3, Sides DEF Cleared
  <2> QED
    BY <1>2, <2>1 DEF Goes
<1>4. CASE d = Large
  <2>1. pc'[Small] = pc[Small] /\ remote'[Small] = remote[Small]
    BY <1>1, <1>4, Sides DEF Cleared
  <2>2. late'[Small] = late[Small]
    BY <1>4, Sides DEF Failed
  <2>3. Heard' => Heard
    BY <1>1 DEF Heard, BothLive, Live
  <2> QED
    BY <1>1, <1>2, <2>1, <2>2, <2>3, RoundStays DEF LegSound
<1> QED
  BY <1>3, <1>4 DEF Devices

\* A session that begins says hello, one that ends takes its round with it.
LEMMA SessionKeepsLeg ==
  ASSUME LegAssumption, LegSound, NEW d \in Devices, Session(d) \/ Drop(d)
  PROVE  OneOffers' /\ Goes'
<1>1. CASE Join(d)
  <2>1. state[d] = "off" /\ state' = [state EXCEPT ![d] = "joined"] /\ UNCHANGED <<sig, leg>>
    BY <1>1 DEF Join
  <2>2. state'[d] = "joined" /\ \A e \in Devices \ {d} : state'[e] = state[e]
    BY <2>1, Sides
  <2>3. ~BothLive'
    BY <2>2 DEF BothLive, Live
  <2>4. ready[Small] => Live(Small)'
    BY <2>1, <2>2, Sides DEF LegSound, OneOffers, Live
  <2> QED
    BY <2>1, <2>3, <2>4 DEF LegSound, OneOffers, Goes, Heard, leg
<1>2. CASE Announce(d)
  <2> DEFINE s == Signal("hello", None, None)
  <2>1. /\ state[d] = "joined" /\ state' = [state EXCEPT ![d] = "live"] /\ UNCHANGED leg
        /\ sig' = Sent(sig, d, s)
    BY <1>2 DEF Announce
  <2>2. s \in Signals /\ s.kind = "hello"
    BY DEF Signal, Signals, Ends
  <2> HIDE DEF s
  <2>3. /\ Mail(sig', d) = Mail(sig, d)
        /\ Mail(sig', Peer(d)) \subseteq Mail(sig, Peer(d)) \cup {s}
        /\ state[Peer(d)] # "off" => s \in Mail(sig', Peer(d))
    BY <2>1, <2>2, Sides, SentMail
  <2>4. \A m \in Mail(sig', Small) : Readable(m)
    BY <2>2, <2>3, Sides DEF Devices, LegSound, OneOffers, Readable
  <2>5. state'[d] = "live" /\ \A e \in Devices \ {d} : state'[e] = state[e]
    BY <2>1, Sides
  <2>6. ready[Small] => Live(Small)'
    BY <2>5, Sides DEF LegSound, OneOffers, Live
  <2>7. OneOffers'
    BY <2>1, <2>4, <2>6 DEF LegSound, OneOffers, leg
  <2>8. CASE d = Small
    <3>1. ~ready'[Small]
      BY <2>1, <2>8 DEF LegSound, OneOffers, Live, leg
    <3> QED
      BY <2>7, <3>1 DEF Goes, Heard
  <2>9. CASE d = Large
    <3>1. Heard' => state[Small] # "off"
      BY <2>5, <2>9, Sides DEF Heard, BothLive, Live
    <3>2. Heard' => s \in Mail(sig', Small)
      BY <2>3, <2>9, <3>1, Sides
    <3> QED
      BY <2>2, <2>7, <3>2 DEF Goes, Sustained
  <2> QED
    BY <2>8, <2>9 DEF Devices
<1>3. CASE Drop(d)
  <2>1. /\ state' = [state EXCEPT ![d] = "off"] /\ sig' = [sig EXCEPT ![d] = <<>>]
        /\ ready' = [ready EXCEPT ![d] = FALSE] /\ offerer' = [offerer EXCEPT ![d] = FALSE]
        /\ broken' = [broken EXCEPT ![d] = FALSE]
    BY <1>3 DEF Drop
  <2>2. state'[d] = "off" /\ \A e \in Devices \ {d} : state'[e] = state[e]
    BY <2>1, Sides
  <2>3. ~BothLive'
    BY <2>2 DEF BothLive, Live
  <2>4. sig'[d] = <<>> /\ \A e \in Devices \ {d} : sig'[e] = sig[e]
    BY <2>1, Sides
  <2>5. Mail(sig', Small) \subseteq Mail(sig, Small)
    <3>1. sig'[Small] = <<>> \/ sig'[Small] = sig[Small]
      BY <2>4, Sides
    <3>2. CASE sig'[Small] = <<>>
      BY <3>2 DEF Mail
    <3>3. CASE sig'[Small] = sig[Small]
      BY <3>3 DEF Mail
    <3> QED
      BY <3>1, <3>2, <3>3
  <2>6. ready'[Small] => offerer'[Small] /\ Live(Small)'
    BY <2>1, <2>2, Sides DEF LegSound, OneOffers, Live
  <2>7. ~offerer'[Large] /\ broken' \in [Devices -> BOOLEAN]
        /\ (Large \notin Misbuilds => ~broken'[Large])
    BY <2>1, Sides DEF LegSound, OneOffers
  <2> QED
    BY <2>3, <2>5, <2>6, <2>7 DEF LegSound, OneOffers, Goes, Heard
<1> QED
  BY <1>1, <1>2, <1>3 DEF Session

LEMMA NextKeepsLeg ==
  ASSUME LegAssumption, LegSound, [Next]_vars
  PROVE  LegSound'
<1>1. (Armed /\ RestTypes)'
  BY NextKeepsArmed, NextKeepsRest DEF LegSound
<1>2. ASSUME UNCHANGED <<state, sig, ready, offerer, pc, remote, broken>>,
             late[Small] > 0 => late'[Small] > 0
      PROVE  OneOffers' /\ Goes'
  <2>1. OneOffers'
    BY <1>2 DEF LegSound, OneOffers, Live
  <2>2. Heard' => Heard
    BY <1>2 DEF Heard, BothLive, Live
  <2> QED
    BY <1>2, <2>1, <2>2, RoundStays DEF LegSound
<1>3. ASSUME UNCHANGED vars PROVE OneOffers' /\ Goes'
  BY <1>2, <1>3 DEF vars, leg
<1>4. ASSUME NEW d \in Devices, Read(d) PROVE OneOffers' /\ Goes'
  <2>1. Live(d) /\ sig[d] # <<>> /\ UNCHANGED state
    BY <1>4 DEF Read
  <2>2. CASE ReadHello(d)
    BY <2>1, <2>2, HelloKeepsLeg
  <2>3. CASE ReadOffer(d)
    BY <2>1, <2>3, OfferKeepsLeg
  <2>4. CASE ReadAnswer(d)
    BY <2>1, <2>4, AnswerKeepsLeg
  <2> QED
    BY <1>4, <2>2, <2>3, <2>4 DEF Read
<1>5. ASSUME NEW d \in Devices, Open(d) PROVE OneOffers' /\ Goes'
  BY <1>2, <1>5 DEF Open, Ready
<1>6. ASSUME NEW d \in Devices, Expires(d) \/ Breaks(d) PROVE OneOffers' /\ Goes'
  <2>1. Fails(d)
    BY <1>6 DEF Expires, Breaks
  <2>2. late[d] \in 0 .. MaxLate /\ late' = [late EXCEPT ![d] = More(late[d])]
    BY <2>1, Sides DEF Fails
  <2>3. late[Small] > 0 => late'[Small] > 0
    BY <2>2, MoreIsPositive, Sides
  <2> QED
    BY <1>2, <2>1, <2>3 DEF Fails
<1>7. OneOffers' /\ Goes'
  BY <1>3, <1>4, <1>5, <1>6, SessionKeepsLeg, RetryKeepsLeg, FailedKeepsLeg DEF Next
<1> QED
  BY <1>1, <1>7 DEF LegSound

\* While both devices are there and the one that offers has heard the other, a
\* round of it goes on: its offer or an answer is under way, it holds a
\* description, or a failure or a hello will end it (Leg::handle, Leg::start).
\* For any numbering and bounds; the side that answers can build connections.
THEOREM RoundsGoOn == LegAssumption => (Spec => []RoundGoesOn)
<1> SUFFICES ASSUME LegAssumption PROVE Spec => []RoundGoesOn
  OBVIOUS
<1>1. Init => LegSound
  BY InitLeg
<1>2. LegSound /\ [Next]_vars => LegSound'
  BY NextKeepsLeg
<1>3. LegSound => RoundGoesOn
  BY SustainedShows DEF LegSound
<1> QED
  BY <1>1, <1>2, <1>3, PTL DEF Spec

=============================================================================
