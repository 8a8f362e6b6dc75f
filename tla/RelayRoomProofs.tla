-------------------------- MODULE RelayRoomProofs --------------------------
(***************************************************************************)
(* Theorems about RelayRoom, for every set of connections, rooms, devices  *)
(* and limits: its counting and its pairs, what the clients are told of    *)
(* one another, and what the relay promises of its session places.         *)
(***************************************************************************)
EXTENDS RelayRoom, FiniteSetTheorems, SequenceTheorems, TLAPS

-----------------------------------------------------------------------------
(* Type correctness                                                        *)

\* Every frame the relay builds is a Frame.
LEMMA FrameTypes ==
  /\ \A b \in BOOLEAN : Peer(b) \in Frame
  /\ \A c \in Conns : Data(c) \in Frame
  /\ \A k \in {"REPLACED", "STALE", "REFUSED"} : Close(k) \in Frame
BY DEF Frame, Peer, Data, Close

\* Sending keeps queues of frames.
LEMMA TrySendType ==
  ASSUME NEW q \in [Conns -> Seq(Frame)], NEW S, NEW f \in Frame
  PROVE  TrySend(q, S, f) \in [Conns -> Seq(Frame)]
BY DEF TrySend

\* A request has the fields of a handshake.
LEMMA RequestFields ==
  ASSUME TypeOK, NEW c \in Conns
  PROVE  /\ Room(c) \in RoomIds
         /\ Dev(c) \in Devices
         /\ Tier(c) \in Tiers
         /\ req[c].ip \in Ips
         /\ req[c].key \in Keys
BY RequestAssumption DEF TypeOK, Request, Room, Dev, Tier

\* saturating_sub(1) stays in Nat and takes one from a positive number.
LEMMA LessIsNat ==
  ASSUME NEW n \in Nat
  PROVE  Less(n) \in Nat /\ (n > 0 => Less(n) = n - 1)
BY DEF Less

LEMMA SweepType ==
  ASSUME TypeOK, NEW r \in RoomIds, NEW R, NEW p, Sweep(r, R, p)
  PROVE  /\ founder' \in [RoomIds -> Conns \cup {NoConn}]
         /\ perIp' \in [Ips -> Nat]
<1>1. CASE r \in Live /\ Clients(R, r) = {} /\ p[r] = 0
  <2>1. founder[r] \in Conns
    BY <1>1 DEF Live, TypeOK
  <2>2. req[founder[r]].ip \in Ips
    BY <2>1, RequestFields
  <2>3. perIp[req[founder[r]].ip] \in Nat
    BY <2>2 DEF TypeOK
  <2> QED
    BY <1>1, <2>2, <2>3, LessIsNat DEF Sweep, TypeOK
<1>2. CASE ~(r \in Live /\ Clients(R, r) = {} /\ p[r] = 0)
  BY <1>2 DEF Sweep, TypeOK
<1> QED
  BY <1>1, <1>2

\* The part of TypeOK that drop_peer can touch.
LEMMA DropPeerType ==
  ASSUME TypeOK, NEW x \in Conns, NEW q \in [Conns -> Seq(Frame)], DropPeer(x, q)
  PROVE  /\ reg' \subseteq Conns /\ buckets' \subseteq Conns
         /\ old' \subseteq Conns /\ misled' \subseteq Conns
         /\ elder' \in [Conns -> SUBSET Conns]
         /\ queue' \in [Conns -> Seq(Frame)]
         /\ founder' \in [RoomIds -> Conns \cup {NoConn}]
         /\ perIp' \in [Ips -> Nat]
<1>1. CASE x \notin reg
  BY <1>1 DEF DropPeer, TypeOK, regVars
<1>2. CASE x \in reg
  <2> DEFINE left == Clients(reg \ {x}, Room(x))
             told == IF {p \in left : Dev(p) = Dev(x)} # {} THEN {} ELSE left
             gone == {x} \cup Stalled(q, told)
  <2>1. /\ Unregister(gone)
        /\ queue' = TrySend(q, told, Peer(FALSE))
        /\ misled' = misled \ (gone \cup told)
        /\ Sweep(Room(x), reg \ gone, pending)
    BY <1>2 DEF DropPeer
  <2>2. queue' \in [Conns -> Seq(Frame)]
    BY <2>1, FrameTypes, TrySendType
  <2>3. /\ founder' \in [RoomIds -> Conns \cup {NoConn}]
        /\ perIp' \in [Ips -> Nat]
    BY <2>1, SweepType, RequestFields
  <2> HIDE DEF gone, told
  <2> QED
    BY <2>1, <2>2, <2>3 DEF Unregister, TypeOK
<1> QED
  BY <1>1, <1>2


\* Evicting and registering keep the types (the two outcomes of admit).
LEMMA AdmitType ==
  ASSUME TypeOK, NEW c \in Conns
  PROVE  /\ Consumed(c) \in [RoomIds -> Nat]
         /\ Evicted(c) \subseteq Conns
         /\ QueueTold(c) \in [Conns -> Seq(Frame)]
         /\ QueueAdmitted(c) \in [Conns -> Seq(Frame)]
         /\ Kept(c) \subseteq reg
<1>1. Consumed(c) \in [RoomIds -> Nat]
  BY LessIsNat, RequestFields DEF Consumed, TypeOK
<1>2. Mine(c) \subseteq reg /\ Others(c) \subseteq reg
  BY DEF Mine, Others, Clients
<1>3. Stale(c) \subseteq reg /\ Remaining(c) \subseteq reg
  BY <1>2 DEF Stale, Remaining
<1>4. LostFirst(c) \subseteq reg /\ Kept(c) \subseteq reg
  BY <1>3 DEF LostFirst, ToldStale, Stalled, Kept
<1>5. Evicted(c) \subseteq Conns
  BY <1>2, <1>3, <1>4 DEF Evicted, LostSecond, Stalled, TypeOK
<1>6. Closed(c) \in [Conns -> Seq(Frame)]
  <2>1. TrySend(queue, Mine(c), Close("REPLACED")) \in [Conns -> Seq(Frame)]
    BY FrameTypes, TrySendType DEF TypeOK
  <2> QED
    BY <2>1, FrameTypes, TrySendType DEF Closed
<1>7. QueueTold(c) \in [Conns -> Seq(Frame)]
  BY <1>6, FrameTypes, TrySendType DEF QueueTold
<1>8. QueueAdmitted(c) \in [Conns -> Seq(Frame)]
  <2>1. TrySend(QueueTold(c), Kept(c), Peer(TRUE)) \in [Conns -> Seq(Frame)]
    BY <1>7, FrameTypes, TrySendType
  <2>2. TrySend(TrySend(QueueTold(c), Kept(c), Peer(TRUE)), {c}, Peer(FALSE))
          \in [Conns -> Seq(Frame)]
    BY <2>1, FrameTypes, TrySendType
  <2> QED
    BY <2>1, <2>2 DEF QueueAdmitted
<1> QED
  BY <1>1, <1>4, <1>5, <1>7, <1>8

LEMMA TypeEnd ==
  ASSUME TypeOK, NEW c \in Conns, End(c)
  PROVE  TypeOK'
<1> DEFINE q == [queue EXCEPT ![c] = <<>>]
<1>1. q \in [Conns -> Seq(Frame)] /\ DropPeer(c, q)
  BY DEF End, TypeOK
<1> HIDE DEF q
<1>2. /\ reg' \subseteq Conns /\ buckets' \subseteq Conns
      /\ old' \subseteq Conns /\ misled' \subseteq Conns
      /\ elder' \in [Conns -> SUBSET Conns]
      /\ queue' \in [Conns -> Seq(Frame)]
      /\ founder' \in [RoomIds -> Conns \cup {NoConn}]
      /\ perIp' \in [Ips -> Nat]
  BY <1>1, DropPeerType
<1> QED
  BY <1>2 DEF End, TypeOK, Phases

LEMMA TypeHandshake ==
  ASSUME TypeOK, NEW c \in Conns, Handshake(c)
  PROVE  TypeOK'
<1> USE DEF Phases
<1>1. CASE Join(c)
  BY <1>1, RequestFields DEF Join, TypeOK, regVars
<1>2. CASE Found(c)
  BY <1>2, RequestFields DEF Found, TypeOK, regVars
<1>3. CASE Reject(c)
  BY <1>3 DEF Reject, TypeOK, roomVars, regVars
<1>4. CASE Release(c)
  <2>1. pending' \in [RoomIds -> Nat]
    BY <1>4, RequestFields, LessIsNat DEF Release, TypeOK
  <2>2. /\ founder' \in [RoomIds -> Conns \cup {NoConn}]
        /\ perIp' \in [Ips -> Nat]
    BY <1>4, RequestFields, SweepType DEF Release
  <2> QED
    BY <1>4, <2>1, <2>2 DEF Release, TypeOK, regVars
<1>5. CASE AdmitFull(c)
  BY <1>5, AdmitType DEF AdmitFull, TypeOK, regVars
<1>6. CASE AdmitAccept(c)
  <2>1. perIp' \in [Ips -> Nat] /\ founder' \in [RoomIds -> Conns \cup {NoConn}]
    BY <1>6, RequestFields DEF AdmitAccept, TypeOK
  <2>2. /\ reg' \subseteq Conns /\ buckets' \subseteq Conns /\ old' \subseteq Conns
        /\ misled' \subseteq Conns /\ pending' \in [RoomIds -> Nat]
        /\ queue' \in [Conns -> Seq(Frame)]
    BY <1>6, AdmitType DEF AdmitAccept, TypeOK
  <2>3. elder' \in [Conns -> SUBSET Conns]
    BY <1>6 DEF AdmitAccept, TypeOK, Clients
  <2>4. UNCHANGED <<req, wr, targets>>
        /\ phase' \in [Conns -> Phases] /\ belief' \in [Conns -> BOOLEAN]
    BY <1>6 DEF AdmitAccept, TypeOK
  <2> QED
    BY <2>1, <2>2, <2>3, <2>4 DEF TypeOK
<1>7. CASE AdmitPanic(c)
  <2>1. perIp' \in [Ips -> Nat] /\ founder' \in [RoomIds -> Conns \cup {NoConn}]
    BY <1>7, RequestFields, SweepType DEF AdmitPanic
  <2>2. /\ reg' \subseteq Conns /\ buckets' \subseteq Conns /\ old' \subseteq Conns
        /\ misled' \subseteq Conns /\ pending' \in [RoomIds -> Nat]
        /\ queue' \in [Conns -> Seq(Frame)]
    BY <1>7, AdmitType DEF AdmitPanic, TypeOK
  <2>3. elder' \in [Conns -> SUBSET Conns]
    BY <1>7 DEF AdmitPanic, TypeOK
  <2>4. UNCHANGED <<req, wr, targets, belief>> /\ phase' \in [Conns -> Phases]
    BY <1>7 DEF AdmitPanic, TypeOK
  <2> QED
    BY <2>1, <2>2, <2>3, <2>4 DEF TypeOK
<1>8. CASE Welcome(c)
  BY <1>8 DEF Welcome, TypeOK, roomVars, regVars
<1>9. CASE WelcomeFails(c)
  BY <1>9, TypeEnd DEF WelcomeFails
<1> QED
  BY <1>1, <1>2, <1>3, <1>4, <1>5, <1>6, <1>7, <1>8, <1>9 DEF Handshake

LEMMA TypeTask ==
  ASSUME TypeOK, NEW c \in Conns, Task(c)
  PROVE  TypeOK'
<1> USE DEF Phases
<1>1. CASE Snapshot(c)
  BY <1>1 DEF Snapshot, TypeOK, roomVars, Clients
<1>2. CASE Ejected(c)
  BY <1>2 DEF Ejected, TypeOK, roomVars, regVars
<1>3. CASE DropSelf(c)
  BY <1>3, TypeEnd DEF DropSelf
<1>4. ASSUME NEW t \in Conns, Send(c, t)
      PROVE  TypeOK'
  <2>1. queue' \in [Conns -> Seq(Frame)]
    BY <1>4, FrameTypes, TrySendType DEF Send, TypeOK
  <2> QED
    BY <1>4, <2>1 DEF Send, Served, TypeOK, roomVars, regVars
<1>5. ASSUME NEW t \in Conns, GiveUp(c, t)
      PROVE  TypeOK'
  <2>1. DropPeer(t, queue) /\ queue \in [Conns -> Seq(Frame)]
    BY <1>5 DEF GiveUp, TypeOK
  <2>2. /\ reg' \subseteq Conns /\ buckets' \subseteq Conns
        /\ old' \subseteq Conns /\ misled' \subseteq Conns
        /\ elder' \in [Conns -> SUBSET Conns]
        /\ queue' \in [Conns -> Seq(Frame)]
        /\ founder' \in [RoomIds -> Conns \cup {NoConn}]
        /\ perIp' \in [Ips -> Nat]
    BY <2>1, DropPeerType
  <2> QED
    BY <1>5, <2>2 DEF GiveUp, Served, TypeOK
<1> QED
  BY <1>1, <1>2, <1>3, <1>4, <1>5 DEF Task

LEMMA TypeEnvironment ==
  ASSUME TypeOK, NEW c \in Conns, Environment(c)
  PROVE  TypeOK'
<1> USE DEF Phases
<1>1. CASE ReadFrame(c)
  BY <1>1 DEF ReadFrame, TypeOK, roomVars, regVars
<1>2. CASE Refuse(c)
  <2>1. queue' \in [Conns -> Seq(Frame)]
    BY <1>2, FrameTypes, TrySendType DEF Refuse, TypeOK
  <2> QED
    BY <1>2, <2>1 DEF Refuse, TypeOK, roomVars, regVars
<1>3. CASE Disconnect(c)
  BY <1>3 DEF Disconnect, TypeOK, roomVars, regVars
<1>4. CASE Write(c)
  <2>1. queue[c] \in Seq(Frame) /\ Head(queue[c]) \in Frame /\ Tail(queue[c]) \in Seq(Frame)
    BY <1>4 DEF Write, TypeOK
  <2>2. Head(queue[c]).type = "peer" => Head(queue[c]).online \in BOOLEAN
    BY <2>1 DEF Frame
  <2>3. belief' \in [Conns -> BOOLEAN]
    BY <1>4, <2>2 DEF Write, TypeOK
  <2> QED
    BY <1>4, <2>1, <2>3 DEF Write, TypeOK, roomVars, regVars
<1>5. CASE WriterFails(c)
  BY <1>5 DEF WriterFails, TypeOK, roomVars, regVars
<1>6. CASE Age(c)
  BY <1>6 DEF Age, TypeOK, roomVars
<1> QED
  BY <1>1, <1>2, <1>3, <1>4, <1>5, <1>6 DEF Environment

LEMMA InitTypes == Init => TypeOK
BY DEF Init, TypeOK, Phases

LEMMA NextTypes == TypeOK /\ [Next]_vars => TypeOK'
<1> SUFFICES ASSUME TypeOK, [Next]_vars
             PROVE  TypeOK'
  OBVIOUS
<1>1. CASE UNCHANGED vars
  BY <1>1 DEF TypeOK, vars, roomVars, regVars
<1>2. CASE Next
  BY <1>2, TypeHandshake, TypeTask, TypeEnvironment DEF Next
<1> QED
  BY <1>1, <1>2

\* Every variable keeps its type, in every step of the relay.
THEOREM TypeCorrect == Spec => []TypeOK
BY InitTypes, NextTypes, PTL DEF Spec

-----------------------------------------------------------------------------
(* Reservations are counted exactly and a room lives while it is held      *)

\* A set of reservations has an exact number.
LEMMA ReservedFinite ==
  ASSUME NEW r
  PROVE  /\ IsFiniteSet(Reserved(r))
         /\ Cardinality(Reserved(r)) \in Nat
         /\ Cardinality(Reserved(r)) = 0 <=> Reserved(r) = {}
<1>1. Reserved(r) \subseteq Conns
  BY DEF Reserved
<1>2. IsFiniteSet(Reserved(r))
  BY <1>1, ConnAssumption, FS_Subset
<1> QED
  BY <1>2, FS_CardinalityType, FS_EmptySet

\* An open reservation's room has a positive count, so saturating_sub never
\* saturates.
LEMMA PendingPositive ==
  ASSUME TypeOK, PendingExact, NEW c \in Conns, phase[c] = "reserved"
  PROVE  /\ c \in Reserved(Room(c))
         /\ pending[Room(c)] \in Nat /\ pending[Room(c)] > 0
         /\ Less(pending[Room(c)]) = pending[Room(c)] - 1
<1>1. c \in Reserved(Room(c))
  BY DEF Reserved
<1>2. Room(c) \in RoomIds
  BY RequestFields
<1>3. pending[Room(c)] \in Nat /\ pending[Room(c)] # 0
  BY <1>1, <1>2, ReservedFinite DEF PendingExact, TypeOK
<1> QED
  BY <1>1, <1>3, LessIsNat

\* One more reservation: the counter follows.
LEMMA ReservationTaken ==
  ASSUME TypeOK, PendingExact, NEW c \in Conns, phase[c] = "new",
         phase' = [phase EXCEPT ![c] = "reserved"], req' = req,
         pending' = [pending EXCEPT ![Room(c)] = pending[Room(c)] + 1]
  PROVE  PendingExact'
<1> SUFFICES ASSUME NEW r \in RoomIds
             PROVE  pending'[r] = Cardinality(Reserved(r)')
  BY DEF PendingExact
<1>1. CASE r = Room(c)
  <2>1. Reserved(r)' = Reserved(r) \cup {c} /\ c \notin Reserved(r)
    BY <1>1 DEF Reserved, Room, TypeOK
  <2>2. Cardinality(Reserved(r) \cup {c}) = Cardinality(Reserved(r)) + 1
    BY <2>1, ReservedFinite, FS_AddElement
  <2> QED
    BY <1>1, <2>1, <2>2 DEF PendingExact, TypeOK
<1>2. CASE r # Room(c)
  <2>1. Reserved(r)' = Reserved(r)
    BY <1>2 DEF Reserved, Room, TypeOK
  <2> QED
    BY <1>2, <2>1 DEF PendingExact, TypeOK
<1> QED
  BY <1>1, <1>2

\* One reservation less: the counter follows.
LEMMA ReservationEnds ==
  ASSUME TypeOK, PendingExact, NEW c \in Conns, phase[c] = "reserved",
         NEW p, p # "reserved", phase' = [phase EXCEPT ![c] = p], req' = req,
         pending' = [pending EXCEPT ![Room(c)] = Less(pending[Room(c)])]
  PROVE  PendingExact'
<1> SUFFICES ASSUME NEW r \in RoomIds
             PROVE  pending'[r] = Cardinality(Reserved(r)')
  BY DEF PendingExact
<1>1. CASE r = Room(c)
  <2>1. Reserved(r)' = Reserved(r) \ {c} /\ c \in Reserved(r)
    BY <1>1 DEF Reserved, Room, TypeOK
  <2>2. Cardinality(Reserved(r) \ {c}) = Cardinality(Reserved(r)) - 1
    BY <2>1, ReservedFinite, FS_RemoveElement
  <2> QED
    BY <1>1, <2>1, <2>2, PendingPositive DEF PendingExact, TypeOK
<1>2. CASE r # Room(c)
  <2>1. Reserved(r)' = Reserved(r)
    BY <1>2 DEF Reserved, Room, TypeOK
  <2> QED
    BY <1>2, <2>1 DEF PendingExact, TypeOK
<1> QED
  BY <1>1, <1>2

\* The inductive invariant: a reservation finds its room because the room is
\* held, and a room is held because no reservation is forgotten.
Held == TypeOK /\ PendingExact /\ RoomHeld

\* Sweeping the one room that lost something leaves every room held.
LEMMA SweepHolds ==
  ASSUME TypeOK, RoomHeld, PendingExact', req' = req, NEW r \in Live,
         Sweep(r, reg', pending'),
         \A s \in RoomIds \ {r} :
           (Clients(reg, s) \cup Reserved(s))' = Clients(reg, s) \cup Reserved(s)
  PROVE  RoomHeld'
<1> SUFFICES ASSUME NEW s \in RoomIds
             PROVE  founder'[s] # NoConn <=> (Clients(reg, s) \cup Reserved(s))' # {}
  BY DEF RoomHeld, Live
<1>1. r \in RoomIds
  BY DEF Live
<1>2. CASE s # r
  <2>1. founder'[s] = founder[s]
    BY <1>2 DEF Sweep, TypeOK
  <2> QED
    BY <1>2, <2>1 DEF RoomHeld, Live
<1>3. CASE s = r
  <2>1. founder'[r] = NoConn <=> Clients(reg', r) = {} /\ pending'[r] = 0
    BY <1>1, ConnAssumption DEF Sweep, TypeOK, Live
  <2>2. pending'[r] = 0 <=> Reserved(r)' = {}
    <3>1. Cardinality(Reserved(r)') = 0 <=> Reserved(r)' = {}
      <4>1. Reserved(r)' \subseteq Conns
        BY DEF Reserved
      <4>2. IsFiniteSet(Reserved(r)')
        BY <4>1, ConnAssumption, FS_Subset
      <4> QED
        BY <4>2, FS_EmptySet
    <3> QED
      BY <1>1, <3>1 DEF PendingExact
  <2>3. Clients(reg, r)' = Clients(reg', r)
    BY DEF Clients, Room
  <2> QED
    BY <1>3, <2>1, <2>2, <2>3
<1> QED
  BY <1>2, <1>3

\* A step that touches neither the registry nor a reservation.
LEMMA HeldUntouched ==
  ASSUME Held, UNCHANGED <<req, reg, founder, pending>>,
         \A x \in Conns : phase'[x] = "reserved" <=> phase[x] = "reserved"
  PROVE  PendingExact' /\ RoomHeld'
<1>1. \A r : Reserved(r)' = Reserved(r) /\ Clients(reg, r)' = Clients(reg, r)
  BY DEF Reserved, Clients, Room
<1> QED
  BY <1>1 DEF Held, PendingExact, RoomHeld, Live

\* drop_peer leaves every room held.
LEMMA HeldDrop ==
  ASSUME Held, NEW x \in Conns, NEW q, DropPeer(x, q), UNCHANGED <<req, pending>>,
         \A y \in Conns : phase'[y] = "reserved" <=> phase[y] = "reserved"
  PROVE  PendingExact' /\ RoomHeld'
<1>1. \A r : Reserved(r)' = Reserved(r)
  BY DEF Reserved, Room
<1>2. PendingExact'
  BY <1>1 DEF Held, PendingExact
<1>3. CASE x \notin reg
  BY <1>3, HeldUntouched DEF DropPeer, regVars
<1>4. CASE x \in reg
  <2> DEFINE left == Clients(reg \ {x}, Room(x))
             told == IF {p \in left : Dev(p) = Dev(x)} # {} THEN {} ELSE left
             gone == {x} \cup Stalled(q, told)
  <2>1. Unregister(gone) /\ Sweep(Room(x), reg \ gone, pending)
    BY <1>4 DEF DropPeer
  <2>2. gone \subseteq Clients(reg, Room(x))
    BY <1>4 DEF Stalled, Clients
  <2> HIDE DEF gone, told
  <2>3. reg' = reg \ gone
    BY <2>1 DEF Unregister
  <2>4. Room(x) \in Live
    BY <1>4, RequestFields DEF Held, RoomHeld, Clients
  <2>5. \A s \in RoomIds \ {Room(x)} : Clients(reg, s)' = Clients(reg, s)
    BY <2>2, <2>3 DEF Clients, Room
  <2>6. Sweep(Room(x), reg', pending')
    BY <2>1, <2>3
  <2>7. RoomHeld'
    BY <1>1, <1>2, <2>4, <2>5, <2>6, SweepHolds DEF Held
  <2> QED
    BY <1>2, <2>7
<1> QED
  BY <1>3, <1>4

\* An admission evicts only clients of its own room, and the others that stay
\* are fewer than two.
LEMMA EvictedSameRoom ==
  ASSUME NEW c \in Conns
  PROVE  /\ Evicted(c) \subseteq Clients(reg, Room(c))
         /\ Clients(reg, Room(c)) \ Evicted(c) \subseteq Remaining(c)
BY DEF Evicted, Mine, Stale, Others, LostFirst, LostSecond, ToldStale, Kept,
       Remaining, Stalled, Clients

LEMMA HeldHandshake ==
  ASSUME Held, NEW c \in Conns, Handshake(c)
  PROVE  PendingExact' /\ RoomHeld'
<1> TypeOK /\ PendingExact /\ RoomHeld /\ Room(c) \in RoomIds
  BY RequestFields DEF Held
<1>1. CASE Join(c)
  <2>1. PendingExact'
    BY <1>1, ReservationTaken DEF Join
  <2>2. Room(c) \in Live
    BY <1>1 DEF Join, MayJoin, Room
  <2>3. c \in Reserved(Room(c))'
    BY <1>1 DEF Join, Reserved, Room, TypeOK
  <2>4. \A r : Clients(reg, r)' = Clients(reg, r)
               /\ (r # Room(c) => Reserved(r)' = Reserved(r))
    BY <1>1 DEF Join, Reserved, Clients, Room, regVars, TypeOK
  <2>5. RoomHeld'
    BY <1>1, <2>2, <2>3, <2>4 DEF Join, RoomHeld, Live, Room
  <2> QED
    BY <2>1, <2>5
<1>2. CASE Found(c)
  <2>1. Room(c) \notin Live /\ Reserved(Room(c)) = {}
    BY <1>2 DEF Found, MayFound, Room, RoomHeld
  <2>2. pending[Room(c)] = 0
    BY <2>1, ReservedFinite DEF PendingExact
  <2>3. PendingExact'
    <3>1. pending' = [pending EXCEPT ![Room(c)] = pending[Room(c)] + 1]
      BY <1>2, <2>2 DEF Found
    <3> QED
      BY <1>2, <3>1, ReservationTaken DEF Found
  <2>4. c \in Reserved(Room(c))'
    BY <1>2 DEF Found, Reserved, Room, TypeOK
  <2>5. \A r : Clients(reg, r)' = Clients(reg, r)
               /\ (r # Room(c) => Reserved(r)' = Reserved(r))
    BY <1>2 DEF Found, Reserved, Clients, Room, regVars, TypeOK
  <2>6. founder'[Room(c)] = c
        /\ \A r \in RoomIds \ {Room(c)} : founder'[r] = founder[r]
    BY <1>2 DEF Found, TypeOK
  <2>7. RoomHeld'
    BY <1>2, <2>4, <2>5, <2>6, ConnAssumption DEF Found, RoomHeld, Live, Room
  <2> QED
    BY <2>3, <2>7
<1>3. CASE Reject(c)
  BY <1>3, HeldUntouched DEF Reject, roomVars, regVars, TypeOK
<1>4. CASE Release(c)
  <2>1. Room(c) \in Live
    BY <1>4, PendingPositive DEF Release, RoomHeld
  <2>2. PendingExact'
    BY <1>4, <2>1, ReservationEnds DEF Release
  <2>3. \A r \in RoomIds \ {Room(c)} :
          (Clients(reg, r) \cup Reserved(r))' = Clients(reg, r) \cup Reserved(r)
    BY <1>4 DEF Release, Reserved, Clients, Room, regVars, TypeOK
  <2>4. req' = req /\ Sweep(Room(c), reg', pending')
    BY <1>4 DEF Release, regVars
  <2> QED
    BY <2>1, <2>2, <2>3, <2>4, SweepHolds
<1>5. CASE AdmitFull(c)
  <2>1. Room(c) \in Live
    BY <1>5, PendingPositive DEF AdmitFull, RoomHeld
  <2>2. PendingExact'
    BY <1>5, <2>1, ReservationEnds DEF AdmitFull, Consumed
  <2>3. Clients(reg, Room(c)) # {}
    BY <1>5, FS_EmptySet DEF AdmitFull, Full, Remaining, Others, PairSize
  <2>4. \A r : Clients(reg, r)' = Clients(reg, r)
               /\ (r # Room(c) => Reserved(r)' = Reserved(r))
    BY <1>5 DEF AdmitFull, Reserved, Clients, Room, regVars, TypeOK
  <2>5. RoomHeld'
    BY <1>5, <2>1, <2>3, <2>4 DEF AdmitFull, RoomHeld, Live
  <2> QED
    BY <2>2, <2>5
<1>6. CASE AdmitAccept(c)
  <2>1. Room(c) \in Live
    BY <1>6, PendingPositive DEF AdmitAccept, RoomHeld
  <2>2. PendingExact'
    BY <1>6, <2>1, ReservationEnds DEF AdmitAccept, Consumed
  <2>3. c \in Clients(reg, Room(c))'
    BY <1>6 DEF AdmitAccept, Clients, Room
  <2>4. \A r : r # Room(c) => Clients(reg, r)' = Clients(reg, r)
                              /\ Reserved(r)' = Reserved(r)
    BY <1>6, EvictedSameRoom DEF AdmitAccept, Reserved, Clients, Room, TypeOK
  <2>5. RoomHeld'
    BY <1>6, <2>1, <2>3, <2>4 DEF AdmitAccept, RoomHeld, Live, Room
  <2> QED
    BY <2>2, <2>5
<1>7. CASE AdmitPanic(c)
  <2>1. Room(c) \in Live
    BY <1>7, PendingPositive DEF AdmitPanic, RoomHeld
  <2>2. PendingExact'
    BY <1>7, <2>1, ReservationEnds DEF AdmitPanic, Consumed
  <2>3. \A r \in RoomIds \ {Room(c)} :
          (Clients(reg, r) \cup Reserved(r))' = Clients(reg, r) \cup Reserved(r)
    BY <1>7, EvictedSameRoom DEF AdmitPanic, Reserved, Clients, Room, TypeOK
  <2>4. req' = req /\ Sweep(Room(c), reg', pending')
    BY <1>7 DEF AdmitPanic
  <2> QED
    BY <2>1, <2>2, <2>3, <2>4, SweepHolds
<1>8. CASE Welcome(c)
  BY <1>8, HeldUntouched DEF Welcome, roomVars, regVars, TypeOK
<1>9. CASE WelcomeFails(c)
  BY <1>9, HeldDrop DEF WelcomeFails, End, TypeOK
<1> QED
  BY <1>1, <1>2, <1>3, <1>4, <1>5, <1>6, <1>7, <1>8, <1>9 DEF Handshake

LEMMA HeldTask ==
  ASSUME Held, NEW c \in Conns, Task(c)
  PROVE  PendingExact' /\ RoomHeld'
<1> TypeOK
  BY DEF Held
<1>1. CASE Snapshot(c)
  BY <1>1, HeldUntouched DEF Snapshot, roomVars, TypeOK
<1>2. CASE Ejected(c)
  BY <1>2, HeldUntouched DEF Ejected, roomVars, regVars, TypeOK
<1>3. CASE DropSelf(c)
  BY <1>3, HeldDrop DEF DropSelf, End, TypeOK
<1>4. ASSUME NEW t \in Conns, Send(c, t)
      PROVE  PendingExact' /\ RoomHeld'
  BY <1>4, HeldUntouched DEF Send, Served, roomVars, regVars, TypeOK
<1>5. ASSUME NEW t \in Conns, GiveUp(c, t)
      PROVE  PendingExact' /\ RoomHeld'
  BY <1>5, HeldDrop DEF GiveUp, Served, TypeOK
<1> QED
  BY <1>1, <1>2, <1>3, <1>4, <1>5 DEF Task

LEMMA HeldEnvironment ==
  ASSUME Held, NEW c \in Conns, Environment(c)
  PROVE  PendingExact' /\ RoomHeld'
<1> TypeOK
  BY DEF Held
<1>1. UNCHANGED <<req, reg, founder, pending>>
  BY DEF Environment, ReadFrame, Refuse, Disconnect, Write, WriterFails, Age,
         roomVars, regVars
<1>2. \A x \in Conns : phase'[x] = "reserved" <=> phase[x] = "reserved"
  BY DEF Environment, ReadFrame, Refuse, Disconnect, Write, WriterFails, Age, TypeOK
<1> QED
  BY <1>1, <1>2, HeldUntouched

\* Reservations are counted exactly, and a room exists exactly while somebody
\* holds it: no failing handshake, eviction or panic leaks a room's place.
THEOREM HeldInvariant == Spec => []Held
<1>1. Init => Held
  <2> SUFFICES ASSUME Init
               PROVE  PendingExact /\ RoomHeld
    BY DEF Init, TypeOK, Phases, Held
  <2>1. \A r : Reserved(r) = {} /\ Clients(reg, r) = {}
    BY DEF Init, Reserved, Clients
  <2>2. Cardinality({}) = 0
    BY FS_EmptySet
  <2> QED
    BY <2>1, <2>2 DEF Init, PendingExact, RoomHeld, Live
<1>2. Held /\ [Next]_vars => Held'
  <2> SUFFICES ASSUME Held, [Next]_vars
               PROVE  Held'
    OBVIOUS
  <2>1. CASE UNCHANGED vars
    BY <2>1, HeldUntouched DEF Held, TypeOK, vars, roomVars, regVars
  <2>2. CASE Next
    <3>1. PICK c \in Conns : Handshake(c) \/ Task(c) \/ Environment(c)
      BY <2>2 DEF Next
    <3>2. TypeOK'
      BY <3>1, TypeHandshake, TypeTask, TypeEnvironment DEF Held
    <3>3. PendingExact' /\ RoomHeld'
      BY <3>1, HeldHandshake, HeldTask, HeldEnvironment
    <3> QED
      BY <3>2, <3>3 DEF Held
  <2> QED
    BY <2>1, <2>2
<1> QED
  BY <1>1, <1>2, PTL DEF Spec

\* PairRoom::pending counts exactly the reservations that are still out.
THEOREM PendingIsExact == Spec => []PendingExact
BY HeldInvariant, PTL DEF Held

\* No reservation loses its room and no empty room keeps its place.
THEOREM RoomIsHeld == Spec => []RoomHeld
BY HeldInvariant, PTL DEF Held

-----------------------------------------------------------------------------
(* A room is a pair                                                        *)

\* Any set of a room's clients has a number, no larger than the room's.
LEMMA ClientsFinite ==
  ASSUME TypeOK, NEW r, NEW S \in SUBSET Clients(reg, r)
  PROVE  /\ IsFiniteSet(Clients(reg, r)) /\ Cardinality(Clients(reg, r)) \in Nat
         /\ IsFiniteSet(S) /\ Cardinality(S) \in Nat
         /\ Cardinality(S) <= Cardinality(Clients(reg, r))
<1>1. Clients(reg, r) \subseteq Conns
  BY DEF Clients, TypeOK
<1>2. IsFiniteSet(Clients(reg, r))
  BY <1>1, ConnAssumption, FS_Subset
<1> QED
  BY <1>2, FS_Subset, FS_CardinalityType

\* Taking clients out keeps pairs.
LEMMA PairShrinks ==
  ASSUME TypeOK, PairHolds, reg' \subseteq reg, req' = req
  PROVE  PairHolds'
<1> SUFFICES ASSUME NEW r \in RoomIds
             PROVE  /\ Cardinality(Clients(reg, r)') <= PairSize
                    /\ \A a, b \in Clients(reg, r)' : (Dev(a) = Dev(b))' => a = b
  BY DEF PairHolds
<1>1. Clients(reg, r)' \subseteq Clients(reg, r)
  BY DEF Clients, Room
<1>2. Cardinality(Clients(reg, r)') <= Cardinality(Clients(reg, r))
      /\ Cardinality(Clients(reg, r)') \in Nat /\ Cardinality(Clients(reg, r)) \in Nat
  BY <1>1, ClientsFinite
<1>3. Cardinality(Clients(reg, r)') <= PairSize
  BY <1>2 DEF PairHolds, PairSize
<1>4. \A a, b \in Clients(reg, r)' : (Dev(a) = Dev(b))' => a = b
  BY <1>1 DEF PairHolds, Dev
<1> QED
  BY <1>3, <1>4

\* An accepted connection joins at most one other device.
LEMMA PairAdmits ==
  ASSUME TypeOK, PairHolds, NEW c \in Conns, AdmitAccept(c)
  PROVE  PairHolds'
<1> SUFFICES ASSUME NEW r \in RoomIds
             PROVE  /\ Cardinality(Clients(reg, r)') <= PairSize
                    /\ \A a, b \in Clients(reg, r)' : (Dev(a) = Dev(b))' => a = b
  BY DEF PairHolds
<1>1. reg' = (reg \ Evicted(c)) \cup {c} /\ req' = req /\ ~Full(c)
  BY DEF AdmitAccept
<1>2. CASE r # Room(c)
  <2>1. Clients(reg, r)' \subseteq Clients(reg, r)
    BY <1>1, <1>2 DEF Clients, Room
  <2>2. Cardinality(Clients(reg, r)') <= Cardinality(Clients(reg, r))
        /\ Cardinality(Clients(reg, r)') \in Nat /\ Cardinality(Clients(reg, r)) \in Nat
    BY <2>1, ClientsFinite
  <2>3. Cardinality(Clients(reg, r)') <= PairSize
    BY <2>2 DEF PairHolds, PairSize
  <2>4. \A a, b \in Clients(reg, r)' : (Dev(a) = Dev(b))' => a = b
    BY <1>1, <2>1 DEF PairHolds, Dev
  <2> QED
    BY <2>3, <2>4
<1>3. CASE r = Room(c)
  <2>1. Clients(reg, r)' = (Clients(reg, r) \ Evicted(c)) \cup {c}
    BY <1>1, <1>3 DEF Clients, Room
  <2> DEFINE stay == Clients(reg, r) \ Evicted(c)
  <2>2. stay \subseteq Remaining(c) /\ Remaining(c) \subseteq Clients(reg, r)
    BY <1>3, EvictedSameRoom DEF Remaining, Others
  <2>3. IsFiniteSet(Remaining(c)) /\ Cardinality(Remaining(c)) \in Nat
    BY <2>2, ClientsFinite
  <2>4. Cardinality(Remaining(c)) <= 1
    BY <1>1, <2>3 DEF Full, PairSize
  <2>5. /\ IsFiniteSet(stay) /\ Cardinality(stay) \in Nat
        /\ Cardinality(stay) <= Cardinality(Remaining(c))
    BY <2>2, <2>3, FS_Subset, FS_CardinalityType
  <2> HIDE DEF stay
  <2>6. Cardinality(stay \cup {c}) = IF c \in stay THEN Cardinality(stay)
                                     ELSE Cardinality(stay) + 1
    BY <2>5, FS_AddElement, Zenon
  <2>7. Cardinality(stay \cup {c}) <= 2
    BY <2>3, <2>4, <2>5, <2>6
  <2>8. Cardinality(Clients(reg, r)') <= PairSize
    BY <2>1, <2>7 DEF stay, PairSize
  <2>9. \A a \in stay : a \in Clients(reg, r) /\ Dev(a) # Dev(c)
    BY <1>3, <2>2 DEF Remaining, Others, Mine
  <2>10. \A a, b \in Clients(reg, r)' : (Dev(a) = Dev(b))' => a = b
    BY <1>1, <2>1, <2>9 DEF stay, PairHolds, Dev
  <2> QED
    BY <2>8, <2>10
<1> QED
  BY <1>2, <1>3

\* drop_peer only takes clients out.
LEMMA DropPeerShrinks ==
  ASSUME NEW x, NEW q, DropPeer(x, q)
  PROVE  reg' \subseteq reg
BY DEF DropPeer, Unregister, regVars

LEMMA PairStep ==
  ASSUME TypeOK, PairHolds, [Next]_vars
  PROVE  PairHolds'
<1>1. CASE UNCHANGED vars
  BY <1>1, PairShrinks DEF vars, regVars
<1>2. ASSUME NEW c \in Conns, Handshake(c), ~AdmitAccept(c)
      PROVE  PairHolds'
  <2>1. req' = req
    BY <1>2 DEF Handshake, Join, Found, Reject, Release, AdmitFull, AdmitPanic,
                Welcome, WelcomeFails, End
  <2>2. reg' \subseteq reg
    BY <1>2, DropPeerShrinks
       DEF Handshake, Join, Found, Reject, Release, AdmitFull, AdmitPanic,
           Welcome, WelcomeFails, End, regVars
  <2> QED
    BY <2>1, <2>2, PairShrinks
<1>3. ASSUME NEW c \in Conns, Task(c)
      PROVE  PairHolds'
  <2>1. req' = req
    BY <1>3 DEF Task, Snapshot, Ejected, DropSelf, End, Send, GiveUp
  <2>2. reg' \subseteq reg
    BY <1>3, DropPeerShrinks
       DEF Task, Snapshot, Ejected, DropSelf, End, Send, GiveUp, regVars
  <2> QED
    BY <2>1, <2>2, PairShrinks
<1>4. ASSUME NEW c \in Conns, Environment(c)
      PROVE  PairHolds'
  <2>1. req' = req /\ reg' = reg
    BY <1>4 DEF Environment, ReadFrame, Refuse, Disconnect, Write, WriterFails,
                Age, regVars
  <2> QED
    BY <2>1, PairShrinks
<1> QED
  BY <1>1, <1>2, <1>3, <1>4, PairAdmits DEF Next

\* A room never has more than two clients, and never two of one device.
THEOREM PairsHold == Spec => []PairHolds
<1>1. Init => PairHolds
  <2> SUFFICES ASSUME Init
               PROVE  PairHolds
    OBVIOUS
  <2>1. \A r : Clients(reg, r) = {}
    BY DEF Init, Clients
  <2> QED
    BY <2>1, FS_EmptySet DEF PairHolds, PairSize
<1>2. TypeOK /\ PairHolds /\ [Next]_vars => PairHolds'
  BY PairStep
<1> QED
  BY <1>1, <1>2, TypeCorrect, PTL DEF Spec

\* A device that is in a pair cannot find the pair full: since two clients of
\* a room are two devices, the others are too few.
LEMMA OwnDeviceMakesRoom ==
  ASSUME TypeOK, PairHolds, NEW c \in Conns, Mine(c) # {}
  PROVE  ~Full(c)
<1>1. PICK m \in Mine(c) : TRUE
  OBVIOUS
<1> DEFINE all == Clients(reg, Room(c))
<1>2. m \in all /\ Remaining(c) \subseteq all \ {m}
  BY <1>1 DEF Mine, Remaining, Others
<1>3. IsFiniteSet(all) /\ Cardinality(all) \in Nat /\ Cardinality(all) <= 2
  BY ClientsFinite, RequestFields DEF PairHolds, PairSize
<1>4. IsFiniteSet(all \ {m}) /\ Cardinality(all \ {m}) = Cardinality(all) - 1
  BY <1>2, <1>3, FS_RemoveElement
<1>5. Cardinality(Remaining(c)) \in Nat
      /\ Cardinality(Remaining(c)) <= Cardinality(all \ {m})
  BY <1>2, <1>4, FS_Subset, FS_CardinalityType
<1> HIDE DEF all
<1> QED
  BY <1>3, <1>4, <1>5 DEF Full, PairSize

\* A device that is in a room is never turned away from it.
THEOREM ReconnectsNeverFull == Spec => ReconnectNeverFull
<1>1. TypeOK /\ PairHolds /\ [Next]_vars
        => [\A c \in Conns : AdmitFull(c) => Mine(c) = {}]_vars
  BY OwnDeviceMakesRoom DEF AdmitFull
<1> QED
  BY <1>1, TypeCorrect, PairsHold, PTL DEF Spec, ReconnectNeverFull

-----------------------------------------------------------------------------
(* Buckets and late cleanups                                               *)

\* Whoever is registered is being served (or about to be): with that, what is
\* evicted never is the bucket of a panicked admission.
Registered ==
  \A c \in reg : phase[c] \notin {"new", "reserved", "done", "panicked"}

\* Leaving: the entry and the bucket go together, and the task ends.
LEMMA BucketsEnd ==
  ASSUME TypeOK, Registered, BucketsMatch, NEW c \in Conns, End(c),
         phase[c] # "panicked"
  PROVE  Registered' /\ BucketsMatch'
<1>1. /\ phase' = [phase EXCEPT ![c] = "done"]
      /\ \E gone \in SUBSET reg :
           /\ reg' = reg \ gone /\ buckets' = buckets \ gone
           /\ c \in reg => c \in gone
  <2>1. CASE c \in reg
    <3> DEFINE left == Clients(reg \ {c}, Room(c))
               told == IF {p \in left : Dev(p) = Dev(c)} # {} THEN {} ELSE left
               gone == {c} \cup Stalled([queue EXCEPT ![c] = <<>>], told)
    <3>1. Unregister(gone)
      BY <2>1 DEF End, DropPeer
    <3>2. gone \subseteq reg
      BY <2>1 DEF Stalled, Clients
    <3> QED
      BY <3>1, <3>2 DEF Unregister, End
  <2>2. CASE c \notin reg
    BY <2>2 DEF End, DropPeer, regVars
  <2> QED
    BY <2>1, <2>2
<1> QED
  BY <1>1 DEF Registered, BucketsMatch, TypeOK

LEMMA BucketsHandshake ==
  ASSUME TypeOK, Registered, BucketsMatch, NEW c \in Conns, Handshake(c)
  PROVE  Registered' /\ BucketsMatch'
<1>1. CASE AdmitAccept(c)
  <2>1. Evicted(c) \subseteq reg
    BY EvictedSameRoom DEF Clients
  <2> QED
    BY <1>1, <2>1 DEF AdmitAccept, Registered, BucketsMatch, TypeOK
<1>2. CASE AdmitPanic(c)
  <2>1. Evicted(c) \subseteq reg
    BY EvictedSameRoom DEF Clients
  <2> QED
    BY <1>2, <2>1 DEF AdmitPanic, Registered, BucketsMatch, TypeOK
<1>3. CASE WelcomeFails(c)
  BY <1>3, BucketsEnd DEF WelcomeFails
<1>4. CASE Join(c) \/ Found(c) \/ Reject(c)
  BY <1>4 DEF Join, Found, Reject, Registered, BucketsMatch, TypeOK, regVars
<1>5. CASE Release(c) \/ AdmitFull(c) \/ Welcome(c)
  BY <1>5 DEF Release, AdmitFull, Welcome, Registered, BucketsMatch, TypeOK, regVars
<1> QED
  BY <1>1, <1>2, <1>3, <1>4, <1>5 DEF Handshake

LEMMA BucketsTask ==
  ASSUME TypeOK, Registered, BucketsMatch, NEW c \in Conns, Task(c)
  PROVE  Registered' /\ BucketsMatch'
<1>1. CASE Snapshot(c) \/ Ejected(c)
  BY <1>1 DEF Snapshot, Ejected, Registered, BucketsMatch, TypeOK, regVars
<1>2. CASE DropSelf(c)
  BY <1>2, BucketsEnd DEF DropSelf
<1>3. ASSUME NEW t \in Conns, Send(c, t)
      PROVE  Registered' /\ BucketsMatch'
  BY <1>3 DEF Send, Served, Registered, BucketsMatch, TypeOK, regVars
<1>4. ASSUME NEW t \in Conns, GiveUp(c, t)
      PROVE  Registered' /\ BucketsMatch'
  <2>1. \E gone \in SUBSET reg : reg' = reg \ gone /\ buckets' = buckets \ gone
    <3>1. CASE t \in reg
      <4> DEFINE left == Clients(reg \ {t}, Room(t))
                 told == IF {p \in left : Dev(p) = Dev(t)} # {} THEN {} ELSE left
                 gone == {t} \cup Stalled(queue, told)
      <4>1. Unregister(gone)
        BY <1>4, <3>1 DEF GiveUp, DropPeer
      <4>2. gone \subseteq reg
        BY <3>1 DEF Stalled, Clients
      <4> QED
        BY <4>1, <4>2 DEF Unregister
    <3>2. CASE t \notin reg
      BY <1>4, <3>2 DEF GiveUp, DropPeer, regVars
    <3> QED
      BY <3>1, <3>2
  <2>2. phase' \in {phase, [phase EXCEPT ![c] = "reading"]} /\ phase[c] = "forwarding"
    BY <1>4 DEF GiveUp, Served, TypeOK
  <2> QED
    BY <2>1, <2>2 DEF Registered, BucketsMatch, TypeOK
<1> QED
  BY <1>1, <1>2, <1>3, <1>4 DEF Task

LEMMA BucketsEnvironment ==
  ASSUME TypeOK, Registered, BucketsMatch, NEW c \in Conns, Environment(c)
  PROVE  Registered' /\ BucketsMatch'
<1>1. reg' = reg /\ buckets' = buckets
  BY DEF Environment, ReadFrame, Refuse, Disconnect, Write, WriterFails, Age, regVars
<1>2. \E p \in {"reading", "allowed", "dropping"} :
        \/ phase' = phase
        \/ phase[c] = "reading" /\ phase' = [phase EXCEPT ![c] = p]
  BY DEF Environment, ReadFrame, Refuse, Disconnect, Write, WriterFails, Age
<1> QED
  BY <1>1, <1>2 DEF Registered, BucketsMatch, TypeOK

\* The entries, the phases and the buckets belong together.
THEOREM RegisteredMatch == Spec => [](Registered /\ BucketsMatch)
<1>1. Init => Registered /\ BucketsMatch
  BY DEF Init, Registered, BucketsMatch
<1>2. TypeOK /\ Registered /\ BucketsMatch /\ [Next]_vars => (Registered /\ BucketsMatch)'
  <2> SUFFICES ASSUME TypeOK, Registered, BucketsMatch, [Next]_vars
               PROVE  Registered' /\ BucketsMatch'
    OBVIOUS
  <2>1. CASE UNCHANGED vars
    BY <2>1 DEF Registered, BucketsMatch, vars, regVars
  <2>2. CASE Next
    BY <2>2, BucketsHandshake, BucketsTask, BucketsEnvironment DEF Next
  <2> QED
    BY <2>1, <2>2
<1> QED
  BY <1>1, <1>2, TypeCorrect, PTL DEF Spec

\* A rate bucket exists exactly for the registered connections and for those
\* whose admission panicked.
THEOREM BucketsAlwaysMatch == Spec => []BucketsMatch
BY RegisteredMatch, PTL

\* Only drop_peer of the connection itself ends a cleanup, and it finds no
\* entry when the connection was replaced or taken out before.
LEMMA CleanupStep ==
  ASSUME TypeOK, Next, NEW c \in Conns,
         phase[c] = "dropping", phase'[c] = "done", c \notin reg
  PROVE  reg' = reg
<1>1. PICK d \in Conns : Handshake(d) \/ Task(d) \/ Environment(d)
  BY DEF Next
<1>2. CASE DropSelf(d)
  <2>1. d = c
    BY <1>2 DEF DropSelf, End, TypeOK
  <2> QED
    BY <1>2, <2>1 DEF DropSelf, End, DropPeer, regVars
<1>3. CASE Handshake(d)
  BY <1>3 DEF Handshake, Join, Found, Reject, Release, AdmitFull, AdmitAccept,
              AdmitPanic, Welcome, WelcomeFails, End, TypeOK
<1>4. CASE Task(d) /\ ~DropSelf(d)
  BY <1>4 DEF Task, Snapshot, Ejected, Send, GiveUp, Served, TypeOK
<1>5. CASE Environment(d)
  BY <1>5 DEF Environment, ReadFrame, Refuse, Disconnect, Write, WriterFails, Age, TypeOK
<1> QED
  BY <1>1, <1>2, <1>3, <1>4, <1>5

\* The late cleanup of a connection that lost its place leaves the registry
\* alone, so it never takes its successor offline.
THEOREM LateCleanupsHarmless == Spec => LateCleanupHarmless
<1>1. TypeOK /\ [Next]_vars
        => [\A c \in Conns :
              phase[c] = "dropping" /\ phase'[c] = "done" /\ c \notin reg
                => reg' = reg]_vars
  BY CleanupStep
<1> QED
  BY <1>1, TypeCorrect, PTL DEF Spec, LateCleanupHarmless

-----------------------------------------------------------------------------
(* What the clients are told of one another                                *)

\* The last peer frame stands, whatever else is queued behind it.
LEMMA SettlesByPeer ==
  ASSUME NEW s \in Seq(Frame), NEW b, NEW v \in BOOLEAN
  PROVE  Settles(Append(s, Peer(v)), b, v)
<1> DEFINE t == Append(s, Peer(v))
<1>1. Len(s) \in Nat /\ DOMAIN t = 1 .. Len(s) + 1 /\ t[Len(s) + 1] = Peer(v)
  OBVIOUS
<1> HIDE DEF t
<1>2. Len(s) + 1 \in DOMAIN t /\ \A j \in DOMAIN t : ~(Len(s) + 1 < j)
  BY <1>1
<1>3. Settles(t, b, v)
  BY <1>1, <1>2 DEF Settles, Unannounced
<1> QED
  BY <1>3 DEF t

LEMMA SettlesBehind ==
  ASSUME NEW s \in Seq(Frame), NEW f \in Frame, f.type # "peer", NEW b, NEW v, Settles(s, b, v)
  PROVE  Settles(Append(s, f), b, v)
<1> DEFINE t == Append(s, f)
<1>1. /\ Len(s) \in Nat /\ DOMAIN s = 1 .. Len(s) /\ DOMAIN t = 1 .. Len(s) + 1
      /\ t[Len(s) + 1] = f /\ \A i \in 1 .. Len(s) : t[i] = s[i]
  OBVIOUS
<1> HIDE DEF t
<1>2. \A i : Unannounced(s, i) => Unannounced(t, i)
  BY <1>1 DEF Unannounced
<1>3. \A i \in DOMAIN s : i \in DOMAIN t /\ t[i] = s[i]
  BY <1>1
<1>4. Settles(t, b, v)
  BY <1>2, <1>3 DEF Settles
<1> QED
  BY <1>4 DEF t

\* The writer sends the head, and the client believes it.
LEMMA SettlesOn ==
  ASSUME NEW s \in Seq(Frame), s # <<>>, NEW b, NEW v, Settles(s, b, v)
  PROVE  Settles(Tail(s), IF Head(s).type = "peer" THEN Head(s).online ELSE b, v)
<1> DEFINE t == Tail(s)
           c == IF Head(s).type = "peer" THEN Head(s).online ELSE b
<1>1. /\ Len(s) \in Nat \ {0} /\ DOMAIN s = 1 .. Len(s) /\ DOMAIN t = 1 .. Len(s) - 1
      /\ \A i \in 1 .. Len(s) - 1 : t[i] = s[i + 1]
      /\ Head(s) = s[1]
  BY HeadTailProperties, EmptySeq, LenProperties
<1> HIDE DEF t
<1>2. \A i \in Nat : Unannounced(s, i + 1) => Unannounced(t, i)
  <2> SUFFICES ASSUME NEW i \in Nat, Unannounced(s, i + 1), NEW j \in DOMAIN t, i < j
               PROVE  t[j].type # "peer"
    BY DEF Unannounced
  <2>1. j + 1 \in DOMAIN s /\ i + 1 < j + 1 /\ t[j] = s[j + 1]
    BY <1>1
  <2> QED
    BY <2>1 DEF Unannounced
<1>3. CASE Unannounced(s, 0) /\ b = v
  <2>1. s[1].type # "peer" /\ Unannounced(s, 1)
    BY <1>1, <1>3 DEF Unannounced
  <2>2. Unannounced(t, 0) /\ c = v
    BY <1>1, <1>2, <1>3, <2>1
  <2> QED
    BY <2>2 DEF Settles, t
<1>4. ASSUME NEW i \in DOMAIN s, s[i] = Peer(v), Unannounced(s, i)
      PROVE  Settles(t, c, v)
  <2>1. CASE i = 1
    <3>1. Unannounced(t, 0) /\ c = v
      BY <1>1, <1>2, <1>4, <2>1 DEF Peer
    <3> QED
      BY <3>1 DEF Settles
  <2>2. CASE i # 1
    <3>1. i - 1 \in DOMAIN t /\ i - 1 \in Nat /\ t[i - 1] = Peer(v)
      BY <1>1, <1>4, <2>2
    <3>2. Unannounced(t, i - 1)
      BY <1>1, <1>2, <1>4, <3>1
    <3> QED
      BY <3>1, <3>2 DEF Settles
  <2> QED
    BY <2>1, <2>2
<1> QED
  BY <1>3, <1>4 DEF Settles, t

\* Before its admission nothing is sent to a connection.
Unheard ==
  \A c \in Conns : phase[c] \in {"new", "reserved"} =>
    queue[c] = <<>> /\ \A d \in Conns : c \notin targets[d]

\* What a client is told depends on its own queue and its own room.
Settled(p) == p \notin misled /\ Listening(p) => Settles(queue[p], belief[p], Others(p) # {})

LEMMA PresenceByClient == PresenceSettles <=> \A p \in reg : Settled(p)
BY DEF PresenceSettles, Settled

\* A client of whose room, queue and belief nothing changed.
LEMMA StaysSettled ==
  ASSUME NEW p \in reg, Settled(p), p \notin misled' => p \notin misled, req' = req,
         wr'[p] = wr[p], queue'[p] = queue[p], belief'[p] = belief[p],
         Clients(reg, Room(p))' = Clients(reg, Room(p))
  PROVE  Settled(p)'
<1>1. Others(p)' = Others(p)
  BY DEF Others, Mine, Dev, Room
<1> QED
  BY <1>1 DEF Settled, Listening

LEMMA OnlyTwo ==
  ASSUME NEW S, IsFiniteSet(S), Cardinality(S) <= 2, NEW x \in S, NEW y \in S, x # y
  PROVE  S = {x, y}
<1>1. /\ IsFiniteSet(S \ {x}) /\ Cardinality(S \ {x}) = Cardinality(S) - 1
      /\ Cardinality(S) \in Nat
  BY FS_RemoveElement, FS_CardinalityType
<1>2. y \in S \ {x}
  OBVIOUS
<1>3. /\ IsFiniteSet((S \ {x}) \ {y}) /\ Cardinality((S \ {x}) \ {y}) \in Nat
      /\ Cardinality((S \ {x}) \ {y}) = Cardinality(S \ {x}) - 1
  BY <1>1, <1>2, FS_RemoveElement, FS_CardinalityType
<1>4. Cardinality((S \ {x}) \ {y}) = 0
  BY <1>1, <1>3
<1>5. (S \ {x}) \ {y} = {}
  BY <1>3, <1>4, FS_EmptySet
<1> QED
  BY <1>5

\* drop_peer: whoever is left has been told that nobody is.
LEMMA DropSettles ==
  ASSUME TypeOK, PairHolds, PresenceSettles, NEW x \in Conns,
         NEW q \in [Conns -> Seq(Frame)], DropPeer(x, q), req' = req,
         NEW p \in reg',
         q[p] = queue[p], wr'[p] = wr[p], belief'[p] = belief[p]
  PROVE  Settled(p)'
<1>1. CASE x \notin reg
  <2>1. reg' = reg /\ misled' = misled /\ queue' = q
    BY <1>1 DEF DropPeer, regVars
  <2> QED
    BY <2>1, StaysSettled, PresenceByClient DEF Clients, Room
<1>2. CASE x \in reg
  <2> DEFINE all == Clients(reg, Room(x))
             left == Clients(reg \ {x}, Room(x))
             told == IF {o \in left : Dev(o) = Dev(x)} # {} THEN {} ELSE left
             gone == {x} \cup Stalled(q, told)
  <2>1. /\ reg' = reg \ gone
        /\ queue' = TrySend(q, told, Peer(FALSE))
        /\ misled' = misled \ (gone \cup told)
    BY <1>2 DEF DropPeer, Unregister
  <2>2. left = all \ {x} /\ x \in all
    BY <1>2 DEF Clients
  <2>3. told = left
    <3>1. \A o \in left : Dev(o) # Dev(x)
      BY <2>2, RequestFields DEF PairHolds
    <3> QED
      BY <3>1
  <2>4. p \in reg /\ p # x /\ p \in Conns
    BY <2>1 DEF TypeOK
  <2>5. CASE Room(p) = Room(x)
    <3>1. p \in told /\ p \in all /\ Fits(q, p)
      BY <2>1, <2>2, <2>3, <2>4, <2>5 DEF Clients, Stalled
    <3>2. all = {x, p}
      <4>1. IsFiniteSet(all) /\ Cardinality(all) \in Nat /\ Cardinality(all) <= 2
        BY ClientsFinite, RequestFields DEF PairHolds, PairSize
      <4>2. x \in all /\ p \in all /\ p # x
        BY <2>2, <2>4, <3>1
      <4> HIDE DEF all
      <4> QED
        BY <4>1, <4>2, OnlyTwo
    <3>3. Others(p)' = {}
      <4>1. Clients(reg, Room(p))' \subseteq {p}
        BY <2>1, <2>5, <3>2 DEF Clients, Room
      <4> QED
        BY <4>1 DEF Others, Mine, Dev
    <3>4. queue'[p] = Append(q[p], Peer(FALSE)) /\ q[p] \in Seq(Frame)
      BY <2>1, <2>4, <3>1 DEF TrySend
    <3>5. Settles(queue'[p], belief'[p], FALSE)
      BY <3>4, SettlesByPeer
    <3> QED
      BY <3>3, <3>5 DEF Settled
  <2>6. CASE Room(p) # Room(x)
    <3>1. p \notin told /\ p \notin gone
      BY <2>1, <2>2, <2>3, <2>6 DEF Clients
    <3>2. queue'[p] = queue[p]
      BY <2>1, <2>4, <3>1 DEF TrySend
    <3>3. gone \subseteq Clients(reg, Room(x))
      BY <2>2, <2>3 DEF Stalled
    <3>4. Clients(reg, Room(p))' = Clients(reg, Room(p))
      BY <2>1, <2>6, <3>3 DEF Clients, Room
    <3>5. p \notin misled' => p \notin misled
      BY <2>1, <3>1
    <3> HIDE DEF gone, told
    <3> QED
      BY <2>4, <3>2, <3>4, <3>5, StaysSettled, PresenceByClient
  <2> QED
    BY <2>5, <2>6
<1> QED
  BY <1>1, <1>2

\* Whom an admission sends something to, and who stays.
LEMMA AdmitRoom ==
  ASSUME TypeOK, Registered, NEW c \in Conns, phase[c] = "reserved"
  PROVE  /\ c \notin reg
         /\ Mine(c) \cup Stale(c) \cup ToldStale(c) \cup Kept(c) \subseteq Clients(reg, Room(c))
         /\ Evicted(c) \subseteq Clients(reg, Room(c))
         /\ Clients(reg, Room(c)) \ Evicted(c) = Kept(c) \ LostSecond(c)
         /\ \A o \in Remaining(c) : Dev(o) # Dev(c)
<1>1. c \notin reg
  BY DEF Registered
<1>2. /\ Mine(c) \cup Stale(c) \cup ToldStale(c) \cup Kept(c) \subseteq Clients(reg, Room(c))
      /\ \A o \in Remaining(c) : Dev(o) # Dev(c)
  BY DEF Mine, Stale, Others, ToldStale, Kept, Remaining, Clients
<1>3. Clients(reg, Room(c)) \ Evicted(c) = Kept(c) \ LostSecond(c)
  BY DEF Evicted, Mine, Stale, Others, LostFirst, LostSecond, ToldStale, Kept, Remaining, Stalled
<1> QED
  BY <1>1, <1>2, <1>3, EvictedSameRoom

\* An admission: both sides know of one another, or the newcomer knows that it
\* is alone.
LEMMA AdmitSettles ==
  ASSUME TypeOK, PairHolds, Registered, Unheard, PresenceSettles, NEW c \in Conns,
         AdmitAccept(c), NEW p \in reg'
  PROVE  Settled(p)'
<1> DEFINE all == Clients(reg, Room(c))
<1>1. /\ phase[c] = "reserved" /\ ~Full(c) /\ UNCHANGED <<req, wr>>
      /\ reg' = (reg \ Evicted(c)) \cup {c} /\ queue' = QueueAdmitted(c)
      /\ belief' = [belief EXCEPT ![c] = Remaining(c) # {}]
      /\ misled' = (misled \ (Evicted(c) \cup Kept(c))) \cup (IF LostFirst(c) = {} THEN {} ELSE {c})
  BY DEF AdmitAccept
<1>2. /\ c \notin reg
      /\ Mine(c) \subseteq all /\ Stale(c) \subseteq all /\ ToldStale(c) \subseteq all /\ Kept(c) \subseteq all
      /\ Evicted(c) \subseteq all /\ all \ Evicted(c) = Kept(c) \ LostSecond(c)
      /\ \A o \in Remaining(c) : Dev(o) # Dev(c)
  BY <1>1, AdmitRoom
<1>3. /\ \A x \in Conns \ all : QueueTold(c)[x] = queue[x]
      /\ \A x \in Conns : QueueTold(c)[x] \in Seq(Frame)
  <2>1. \A x \in Conns \ all : QueueTold(c)[x] = queue[x]
    BY <1>2 DEF QueueTold, Closed, TrySend
  <2> QED
    BY <2>1, AdmitType
<1> DEFINE q == TrySend(QueueTold(c), Kept(c), Peer(TRUE))
<1>4. /\ \A x \in Conns \ all : q[x] = queue[x]
      /\ \A x \in Kept(c) \ LostSecond(c) : q[x] = Append(QueueTold(c)[x], Peer(TRUE))
  <2>1. Kept(c) \subseteq Conns
    BY AdmitType DEF TypeOK
  <2> QED
    BY <1>2, <1>3, <2>1 DEF TrySend, LostSecond, Stalled
<1>5. \A x \in Conns \ {c} : queue'[x] = q[x]
  BY <1>1 DEF QueueAdmitted, TrySend
<1>6. p \in Conns
  BY <1>1 DEF TypeOK
<1>7. CASE p = c
  <2>1. SUFFICES ASSUME LostFirst(c) = {}, wr[c] = "up"
                 PROVE  Settles(queue'[c], belief'[c], Others(c)' # {})
    BY <1>1, <1>7 DEF Settled, Listening
  <2>2. queue[c] = <<>> /\ q[c] = <<>>
    BY <1>1, <1>2, <1>4 DEF Unheard, Clients
  <2>3. Kept(c) = Remaining(c) /\ LostSecond(c) \subseteq Remaining(c)
    BY <2>1 DEF Kept, LostSecond, Stalled
  <2>4. Others(c)' = Remaining(c) \ LostSecond(c)
    <3>1. Clients(reg, Room(c))' = (Remaining(c) \ LostSecond(c)) \cup {c}
      BY <1>1, <1>2, <2>3 DEF Clients, Room
    <3>2. Mine(c)' = {c}
      BY <1>1, <1>2, <3>1 DEF Mine, Dev
    <3> QED
      BY <1>2, <2>3, <3>1, <3>2 DEF Others, Clients
  <2>5. belief'[c] = (Remaining(c) # {})
    BY <1>1 DEF TypeOK
  <2>6. CASE LostSecond(c) = {}
    <3>1. queue'[c] = <<>>
      BY <1>1, <2>2, <2>6 DEF QueueAdmitted
    <3>2. Unannounced(<<>>, 0)
      BY DEF Unannounced
    <3>3. (Others(c)' # {}) = (Remaining(c) # {})
      BY <2>4, <2>6
    <3> QED
      BY <2>5, <3>1, <3>2, <3>3 DEF Settles
  <2>7. CASE LostSecond(c) # {}
    <3>1. Others(c)' = {}
      <4>1. Remaining(c) \in SUBSET Clients(reg, Room(c))
        BY DEF Remaining, Others
      <4>2. IsFiniteSet(Remaining(c)) /\ Cardinality(Remaining(c)) \in Nat
        BY <4>1, ClientsFinite
      <4>3. Cardinality(Remaining(c)) <= 1
        BY <1>1, <4>2 DEF Full, PairSize
      <4>4. PICK o \in LostSecond(c) : TRUE
        BY <2>7
      <4>5. /\ IsFiniteSet(Remaining(c) \ {o})
            /\ Cardinality(Remaining(c) \ {o}) = Cardinality(Remaining(c)) - 1
            /\ Cardinality(Remaining(c) \ {o}) \in Nat
        BY <2>3, <4>2, <4>4, FS_RemoveElement, FS_CardinalityType
      <4>6. Cardinality(Remaining(c) \ {o}) = 0
        BY <4>2, <4>3, <4>5
      <4>7. Remaining(c) \ {o} = {}
        BY <4>5, <4>6, FS_EmptySet
      <4> QED
        BY <2>4, <4>4, <4>7
    <3>2. queue'[c] = Append(<<>>, Peer(FALSE))
      <4>1. QueueCap[Tier(c)] \in Nat \ {0}
        BY RequestFields, LimitAssumption
      <4>2. queue' = TrySend(q, {c}, Peer(FALSE))
        BY <1>1, <2>7 DEF QueueAdmitted
      <4> HIDE DEF q
      <4>3. Len(q[c]) = 0
        BY <2>2
      <4>4. Fits(q, c)
        BY <2>1, <4>1, <4>3 DEF Fits
      <4> QED
        BY <2>2, <4>2, <4>4 DEF TrySend
    <3>3. <<>> \in Seq(Frame) /\ FALSE \in BOOLEAN
      OBVIOUS
    <3>4. Settles(queue'[c], belief'[c], FALSE)
      BY <3>2, <3>3, SettlesByPeer
    <3>5. (Others(c)' # {}) = FALSE
      BY <3>1
    <3> QED
      BY <3>4, <3>5
  <2> QED
    BY <2>6, <2>7
<1>8. CASE p # c /\ Room(p) = Room(c)
  <2>1. p \in Kept(c) \ LostSecond(c)
    BY <1>1, <1>2, <1>8 DEF Clients
  <2>2. queue'[p] = Append(QueueTold(c)[p], Peer(TRUE)) /\ QueueTold(c)[p] \in Seq(Frame)
    BY <1>3, <1>4, <1>5, <1>6, <1>8, <2>1
  <2>3. Dev(p) # Dev(c)
    BY <1>2, <2>1 DEF Kept
  <2>4. c \in Others(p)'
    BY <1>1, <1>8, <2>3 DEF Others, Mine, Clients, Room, Dev
  <2> QED
    BY <2>2, <2>4, SettlesByPeer DEF Settled
<1>9. CASE p # c /\ Room(p) # Room(c)
  <2>1. p \in reg /\ p \notin all
    BY <1>1, <1>9 DEF Clients
  <2>2. queue'[p] = queue[p] /\ wr'[p] = wr[p] /\ belief'[p] = belief[p]
    BY <1>1, <1>4, <1>5, <1>6, <1>9, <2>1 DEF TypeOK
  <2>3. Clients(reg, Room(p))' = Clients(reg, Room(p))
    BY <1>1, <1>2, <1>9 DEF Clients, Room
  <2>4. p \notin misled' => p \notin misled
    BY <1>1, <1>2, <2>1
  <2> QED
    BY <1>1, <2>1, <2>2, <2>3, <2>4, StaysSettled, PresenceByClient
<1> QED
  BY <1>7, <1>8, <1>9

\* An admission that panics leaves nobody in its room.
LEMMA PanicSettles ==
  ASSUME TypeOK, Registered, PresenceSettles, NEW c \in Conns, AdmitPanic(c), NEW p \in reg'
  PROVE  Settled(p)'
<1>1. /\ phase[c] = "reserved" /\ Vanished(c) /\ UNCHANGED <<req, wr, belief>>
      /\ reg' = reg \ Evicted(c) /\ queue' = QueueTold(c)
      /\ misled' = misled \ Evicted(c)
  BY DEF AdmitPanic
<1>2. /\ Mine(c) \cup Stale(c) \cup ToldStale(c) \subseteq Clients(reg, Room(c))
      /\ Evicted(c) \subseteq Clients(reg, Room(c))
  BY <1>1, AdmitRoom
<1>3. p \in reg /\ p \in Conns /\ Room(p) # Room(c)
  BY <1>1 DEF Vanished, Evicted, Clients, TypeOK
<1>4. queue'[p] = queue[p]
  BY <1>1, <1>2, <1>3 DEF QueueTold, Closed, TrySend, Clients
<1>5. Clients(reg, Room(p))' = Clients(reg, Room(p))
  BY <1>1, <1>2, <1>3 DEF Clients, Room
<1>6. p \notin misled' => p \notin misled
  BY <1>1, <1>2, <1>3 DEF Clients
<1> QED
  BY <1>1, <1>3, <1>4, <1>5, <1>6, StaysSettled, PresenceByClient

\* What is put behind a queue by other steps is data, or a Close, after which
\* nothing is heard any more.
LEMMA BehindSettles ==
  ASSUME TypeOK, PresenceSettles, UNCHANGED <<req, reg, misled, wr, belief>>,
         NEW t \in Conns, NEW f \in Frame, f.type # "peer", queue' = TrySend(queue, {t}, f),
         NEW p \in reg
  PROVE  Settled(p)'
<1>1. p \in Conns /\ Settled(p) /\ Others(p)' = Others(p)
  BY PresenceByClient DEF TypeOK, Others, Mine, Clients, Dev, Room
<1>2. CASE queue'[p] = queue[p]
  BY <1>1, <1>2 DEF Settled, Listening
<1>3. CASE queue'[p] # queue[p]
  <2>1. queue'[p] = Append(queue[p], f) /\ queue[p] \in Seq(Frame)
    BY <1>1, <1>3 DEF TrySend, TypeOK
  <2>2. Listening(p)' => Listening(p)
    <3>1. /\ DOMAIN queue[p] = 1 .. Len(queue[p]) /\ DOMAIN Append(queue[p], f) = 1 .. Len(queue[p]) + 1
          /\ Len(queue[p]) \in Nat /\ \A i \in 1 .. Len(queue[p]) : Append(queue[p], f)[i] = queue[p][i]
      BY <2>1
    <3>2. \A i \in 1 .. Len(queue[p]) : i \in 1 .. Len(queue[p]) + 1
      BY <3>1
    <3>3. \A i \in DOMAIN queue[p] : i \in DOMAIN queue'[p] /\ queue'[p][i] = queue[p][i]
      BY <2>1, <3>1, <3>2, Zenon
    <3> QED
      BY <3>3 DEF Listening
  <2> QED
    BY <1>1, <2>1, <2>2, SettlesBehind DEF Settled
<1> QED
  BY <1>2, <1>3

\* The writer sends what was queued first.
LEMMA WriteSettles ==
  ASSUME TypeOK, PresenceSettles, NEW c \in Conns, Write(c) \/ WriterFails(c), NEW p \in reg
  PROVE  Settled(p)'
<1>1. p \in Conns /\ Settled(p) /\ Others(p)' = Others(p) /\ misled' = misled
  BY PresenceByClient DEF TypeOK, Others, Mine, Clients, Dev, Room, Write, WriterFails, regVars
<1>2. CASE p # c \/ WriterFails(c)
  BY <1>1, <1>2 DEF Write, WriterFails, TypeOK, Settled, Listening
<1>3. CASE p = c /\ Write(c)
  <2>1. SUFFICES ASSUME wr'[c] = "up", \A i \in DOMAIN queue'[c] : queue'[c][i].type # "close", c \notin misled
                 PROVE  Settles(queue'[c], belief'[c], Others(c) # {})
    BY <1>1, <1>3 DEF Settled, Listening
  <2>2. queue[c] \in Seq(Frame) /\ queue[c] # <<>>
    BY <1>3 DEF Write, TypeOK
  <2>3. wr[c] = "up" /\ Head(queue[c]).type # "close"
    BY <1>3, <2>1 DEF Write, TypeOK
  <2>4. /\ queue'[c] = Tail(queue[c])
        /\ belief'[c] = IF Head(queue[c]).type = "peer" THEN Head(queue[c]).online ELSE belief[c]
    BY <1>3, <2>3 DEF Write, TypeOK
  <2>5. Listening(c)
    <3> SUFFICES ASSUME NEW i \in DOMAIN queue[c] PROVE queue[c][i].type # "close"
      BY <2>3 DEF Listening
    <3>1. /\ DOMAIN queue[c] = 1 .. Len(queue[c]) /\ DOMAIN Tail(queue[c]) = 1 .. Len(queue[c]) - 1
          /\ Len(queue[c]) \in Nat
          /\ \A j \in 1 .. Len(queue[c]) - 1 : Tail(queue[c])[j] = queue[c][j + 1]
          /\ Head(queue[c]) = queue[c][1]
      BY <2>2, HeadTailProperties, EmptySeq, LenProperties
    <3>2. CASE i = 1
      BY <2>3, <3>1, <3>2
    <3>3. CASE i # 1
      <4>1. i - 1 \in DOMAIN Tail(queue[c]) /\ Tail(queue[c])[i - 1] = queue[c][i]
        BY <3>1, <3>3
      <4> QED
        BY <2>1, <2>4, <4>1
    <3> QED
      BY <3>2, <3>3
  <2>6. Settles(queue[c], belief[c], Others(c) # {})
    BY <1>1, <1>3, <2>1, <2>5 DEF Settled
  <2> QED
    BY <2>2, <2>4, <2>6, SettlesOn
<1> QED
  BY <1>2, <1>3

Present == TypeOK /\ PairHolds /\ Registered /\ Unheard /\ PresenceSettles

LEMMA PresenceStep ==
  ASSUME Present, NEW c \in Conns, Handshake(c) \/ Task(c) \/ Environment(c)
  PROVE  PresenceSettles'
<1> SUFFICES ASSUME NEW p \in reg' PROVE Settled(p)'
  BY DEF PresenceSettles, Settled
<1> USE DEF Present
<1>1. CASE UNCHANGED <<req, regVars, queue, wr, belief, misled>>
  BY <1>1, PresenceByClient, StaysSettled DEF regVars, Clients, Room
<1>2. CASE AdmitAccept(c) \/ AdmitPanic(c)
  BY <1>2, AdmitSettles, PanicSettles
<1>3. CASE End(c)
  <2> DEFINE q == [queue EXCEPT ![c] = <<>>]
  <2>1. q \in [Conns -> Seq(Frame)] /\ DropPeer(c, q) /\ req' = req
    BY <1>3 DEF End, TypeOK
  <2>2. p # c /\ p \in Conns
    <3>1. c \notin reg'
      BY <1>3 DEF End, DropPeer, Unregister, regVars
    <3>2. reg' \subseteq reg
      BY <2>1, DropPeerShrinks
    <3> QED
      BY <3>1, <3>2 DEF TypeOK
  <2>3. q[p] = queue[p] /\ wr'[p] = wr[p] /\ belief'[p] = belief[p]
    BY <1>3, <2>2 DEF End, TypeOK
  <2> HIDE DEF q
  <2> QED
    BY <2>1, <2>3, DropSettles
<1>4. ASSUME NEW t \in Conns, GiveUp(c, t)
      PROVE  Settled(p)'
  <2>1. DropPeer(t, queue) /\ queue \in [Conns -> Seq(Frame)] /\ UNCHANGED <<req, wr, belief>>
    BY <1>4 DEF GiveUp, TypeOK
  <2> QED
    BY <2>1, DropSettles
<1>5. ASSUME NEW t \in Conns, Send(c, t)
      PROVE  Settled(p)'
  <2>1. Data(c) \in Frame /\ Data(c).type # "peer"
    BY FrameTypes DEF Data
  <2> QED
    BY <1>5, <2>1, BehindSettles DEF Send, regVars
<1>6. CASE Refuse(c)
  <2>1. Close("REFUSED") \in Frame /\ Close("REFUSED").type # "peer"
    BY FrameTypes DEF Close
  <2> QED
    BY <1>6, <2>1, BehindSettles DEF Refuse, regVars
<1>7. CASE Write(c) \/ WriterFails(c)
  <2>1. reg' = reg
    BY <1>7 DEF Write, WriterFails, regVars
  <2> QED
    BY <1>7, <2>1, WriteSettles
<1>8. CASE Snapshot(c) \/ Age(c)
  <2>1. UNCHANGED <<req, reg, queue, wr, belief, misled>>
    BY <1>8 DEF Snapshot, Age
  <2> QED
    BY <2>1, PresenceByClient, StaysSettled DEF Clients, Room
<1> QED
  BY <1>1, <1>2, <1>3, <1>4, <1>5, <1>6, <1>7, <1>8
     DEF Handshake, Task, Environment, Join, Found, Reject, Release, AdmitFull, Welcome,
         WelcomeFails, Ejected, DropSelf, ReadFrame, Disconnect

\* Nothing comes to a connection before its admission: forward sends to those
\* only that were registered when it looked.
LEMMA UnheardStep ==
  ASSUME Present, NEW c \in Conns, Handshake(c) \/ Task(c) \/ Environment(c)
  PROVE  Unheard'
<1> SUFFICES ASSUME NEW x \in Conns, phase'[x] \in {"new", "reserved"}
             PROVE  queue'[x] = <<>> /\ \A d \in Conns : x \notin targets'[d]
  BY DEF Unheard
<1> USE DEF Present
<1>1. phase[x] \in {"new", "reserved"}
  BY DEF Handshake, Task, Environment, Join, Found, Reject, Release, AdmitFull, AdmitAccept,
         AdmitPanic, Welcome, WelcomeFails, End, Snapshot, Ejected, DropSelf, Send, GiveUp,
         Served, ReadFrame, Refuse, Disconnect, Write, WriterFails, Age, TypeOK
<1>2. x \notin reg /\ queue[x] = <<>> /\ \A d \in Conns : x \notin targets[d]
  BY <1>1 DEF Registered, Unheard
<1>3. \A d \in Conns : x \notin targets'[d]
  <2>1. CASE Snapshot(c)
    BY <1>2, <2>1 DEF Snapshot, Clients, TypeOK
  <2>2. ASSUME NEW t \in Conns, Served(c, t)
        PROVE  \A d \in Conns : x \notin targets'[d]
    BY <1>2, <2>2 DEF Served, TypeOK
  <2>3. targets' = targets \/ Snapshot(c) \/ \E t \in Conns : Served(c, t)
    BY DEF Handshake, Task, Environment, Join, Found, Reject, Release, AdmitFull, AdmitAccept,
           AdmitPanic, Welcome, WelcomeFails, End, Ejected, DropSelf, Send, GiveUp,
           ReadFrame, Refuse, Disconnect, Write, WriterFails, Age
  <2> QED
    BY <1>2, <2>1, <2>2, <2>3
<1>4. queue'[x] = <<>>
  <2>1. ASSUME NEW y, NEW q, DropPeer(y, q), q[x] = <<>>
        PROVE  queue'[x] = <<>>
    BY <1>2, <2>1 DEF DropPeer, TrySend, Clients
  <2>2. CASE AdmitAccept(c) \/ AdmitPanic(c)
    <3>1. x # c /\ phase[c] = "reserved"
      BY <2>2 DEF AdmitAccept, AdmitPanic, TypeOK
    <3>2. x \notin Clients(reg, Room(c))
      BY <1>2 DEF Clients
    <3>3. QueueTold(c)[x] = <<>>
      BY <1>2, <3>1, <3>2, AdmitRoom DEF QueueTold, Closed, TrySend
    <3>4. QueueAdmitted(c)[x] = <<>>
      BY <3>1, <3>2, <3>3, AdmitRoom DEF QueueAdmitted, TrySend
    <3> QED
      BY <2>2, <3>3, <3>4 DEF AdmitAccept, AdmitPanic
  <2>3. CASE End(c)
    <3>1. DropPeer(c, [queue EXCEPT ![c] = <<>>]) /\ [queue EXCEPT ![c] = <<>>][x] = <<>>
      BY <1>2, <2>3 DEF End, TypeOK
    <3> QED
      BY <2>1, <3>1
  <2>4. ASSUME NEW t \in Conns, GiveUp(c, t)
        PROVE  queue'[x] = <<>>
    BY <1>2, <2>1, <2>4 DEF GiveUp
  <2>5. ASSUME NEW t \in Conns, Send(c, t)
        PROVE  queue'[x] = <<>>
    BY <1>2, <2>5 DEF Send, TrySend
  <2>6. CASE Refuse(c)
    <3>1. x # c
      BY <1>1, <2>6 DEF Refuse
    <3> QED
      BY <1>2, <2>6, <3>1 DEF Refuse, TrySend
  <2>7. CASE Write(c) \/ WriterFails(c)
    <3>1. x # c
      BY <1>1, <2>7 DEF Write, WriterFails, Serving
    <3> QED
      BY <1>2, <2>7, <3>1 DEF Write, WriterFails, TypeOK
  <2>8. CASE queue' = queue
    BY <1>2, <2>8
  <2> QED
    BY <2>2, <2>3, <2>4, <2>5, <2>6, <2>7, <2>8
       DEF Handshake, Task, Environment, Join, Found, Reject, Release, AdmitFull, Welcome,
           WelcomeFails, Ejected, DropSelf, Snapshot, ReadFrame, Disconnect, Age
<1> QED
  BY <1>3, <1>4

\* Once its queue is sent, a registered client believes its peer online exactly
\* if there is one, except after an outdated welcome.
THEOREM PresenceAlwaysSettles == Spec => []PresenceSettles
<1>1. Init => Unheard /\ PresenceSettles
  BY DEF Init, Unheard, PresenceSettles
<1>2. Present /\ [Next]_vars => (Unheard /\ PresenceSettles)'
  <2> SUFFICES ASSUME Present, [Next]_vars
               PROVE  Unheard' /\ PresenceSettles'
    OBVIOUS
  <2>1. CASE UNCHANGED vars
    <3>1. Unheard'
      BY <2>1 DEF Present, Unheard, vars
    <3>2. \A p \in reg : Settled(p)'
      BY <2>1, PresenceByClient, StaysSettled DEF Present, vars, regVars, Clients, Room
    <3> QED
      BY <2>1, <3>1, <3>2 DEF PresenceSettles, Settled, vars, regVars
  <2>2. CASE Next
    BY <2>2, PresenceStep, UnheardStep DEF Next
  <2> QED
    BY <2>1, <2>2
<1> QED
  BY <1>1, <1>2, TypeCorrect, PairsHold, RegisteredMatch, PTL DEF Spec, Present

-----------------------------------------------------------------------------
(* The per-IP table                                                        *)

\* The public rooms that an IP opened.
PublicOf(i) == {r \in RoomsOf("public") : req[founder[r]].ip = i}

LEMMA PublicFinite ==
  ASSUME NEW i
  PROVE  IsFiniteSet(PublicOf(i)) /\ Cardinality(PublicOf(i)) \in Nat
<1>1. PublicOf(i) \subseteq RoomIds
  BY DEF PublicOf, RoomsOf, Live
<1> QED
  BY <1>1, RoomAssumption, FS_Subset, FS_CardinalityType

\* Sweeping a public room takes it from its IP and gives the place back: the
\* count was positive, so saturating_sub does not hide a lost room.
LEMMA SweepKeepsIpExact ==
  ASSUME TypeOK, PerIpExact, req' = req, NEW r \in RoomIds, NEW R, NEW p, Sweep(r, R, p)
  PROVE  PerIpExact'
<1> DEFINE ip == req[founder[r]].ip
<1>1. CASE ~(r \in Live /\ Clients(R, r) = {} /\ p[r] = 0)
  BY <1>1 DEF Sweep, PerIpExact, RoomsOf, Live, Tier
<1>2. CASE r \in Live /\ Clients(R, r) = {} /\ p[r] = 0
  <2>1. founder[r] \in Conns /\ founder' = [founder EXCEPT ![r] = NoConn]
    BY <1>2 DEF Sweep, Live, TypeOK
  <2>2. ip \in Ips
    BY <2>1, RequestFields
  <2>3. \A s \in RoomIds : founder'[s] = IF s = r THEN NoConn ELSE founder[s]
    BY <2>1 DEF TypeOK
  <2>4. CASE Tier(founder[r]) = "public"
    <3>1. perIp' = [perIp EXCEPT ![ip] = Less(@)]
      BY <1>2, <2>4 DEF Sweep
    <3>2. \A i \in Ips : PublicOf(i)' = IF i = ip THEN PublicOf(i) \ {r} ELSE PublicOf(i)
      BY <2>3, <2>4 DEF PublicOf, RoomsOf, Live, Tier
    <3>3. r \in PublicOf(ip)
      BY <1>2, <2>4 DEF PublicOf, RoomsOf
    <3>4. Cardinality(PublicOf(ip) \ {r}) = Cardinality(PublicOf(ip)) - 1
          /\ Cardinality(PublicOf(ip)) > 0
      <4>1. IsFiniteSet(PublicOf(ip)) /\ Cardinality(PublicOf(ip)) \in Nat
        BY PublicFinite
      <4>2. Cardinality(PublicOf(ip) \ {r}) = Cardinality(PublicOf(ip)) - 1
        BY <3>3, <4>1, FS_RemoveElement
      <4>3. Cardinality(PublicOf(ip)) # 0
        BY <3>3, <4>1, FS_EmptySet
      <4> QED
        BY <4>1, <4>2, <4>3
    <3>5. perIp[ip] = Cardinality(PublicOf(ip)) /\ perIp[ip] \in Nat
      BY <2>2, PublicFinite DEF PerIpExact, PublicOf
    <3>6. Less(perIp[ip]) = Cardinality(PublicOf(ip) \ {r})
      BY <3>4, <3>5, LessIsNat
    <3>7. \A i \in Ips : perIp'[i] = Cardinality(PublicOf(i)')
      <4> SUFFICES ASSUME NEW i \in Ips PROVE perIp'[i] = Cardinality(PublicOf(i)')
        OBVIOUS
      <4>1. CASE i = ip
        BY <4>1, <2>2, <3>1, <3>2, <3>6 DEF TypeOK
      <4>2. CASE i # ip
        BY <4>2, <3>1, <3>2 DEF TypeOK, PerIpExact, PublicOf
      <4> QED
        BY <4>1, <4>2
    <3> QED
      BY <3>7 DEF PerIpExact, PublicOf
  <2>5. CASE Tier(founder[r]) # "public"
    <3>1. perIp' = perIp
      BY <1>2, <2>5 DEF Sweep
    <3>2. \A i \in Ips : PublicOf(i)' = PublicOf(i)
      BY <2>3, <2>5 DEF PublicOf, RoomsOf, Live, Tier
    <3> QED
      BY <3>1, <3>2 DEF PerIpExact, PublicOf
  <2> QED
    BY <2>4, <2>5
<1> QED
  BY <1>1, <1>2

\* Founding a public room takes one place of its IP.
LEMMA FoundKeepsIpExact ==
  ASSUME TypeOK, PerIpExact, NEW c \in Conns, Found(c)
  PROVE  PerIpExact'
<1> DEFINE r == Room(c)
           ip == req[c].ip
<1>1. r \in RoomIds /\ ip \in Ips /\ r \notin Live /\ c # NoConn
  BY RequestFields, ConnAssumption DEF Found, MayFound, Room
<1>2. req' = req /\ \A s \in RoomIds : founder'[s] = IF s = r THEN c ELSE founder[s]
  BY <1>1 DEF Found, TypeOK
<1>3. CASE Tier(c) = "public"
  <2>1. perIp' = [perIp EXCEPT ![ip] = @ + 1]
    BY <1>3 DEF Found
  <2>2. \A i \in Ips : PublicOf(i)' = IF i = ip THEN PublicOf(i) \cup {r} ELSE PublicOf(i)
    BY <1>1, <1>2, <1>3 DEF PublicOf, RoomsOf, Live, Tier
  <2>3. r \notin PublicOf(ip)
    BY <1>1 DEF PublicOf, RoomsOf
  <2>4. Cardinality(PublicOf(ip) \cup {r}) = Cardinality(PublicOf(ip)) + 1
    BY <2>3, PublicFinite, FS_AddElement
  <2>5. perIp[ip] = Cardinality(PublicOf(ip))
    BY <1>1 DEF PerIpExact, PublicOf
  <2>6. \A i \in Ips : perIp'[i] = Cardinality(PublicOf(i)')
    <3> SUFFICES ASSUME NEW i \in Ips PROVE perIp'[i] = Cardinality(PublicOf(i)')
      OBVIOUS
    <3>1. CASE i = ip
      BY <3>1, <1>1, <2>1, <2>2, <2>4, <2>5 DEF TypeOK
    <3>2. CASE i # ip
      BY <3>2, <2>1, <2>2 DEF TypeOK, PerIpExact, PublicOf
    <3> QED
      BY <3>1, <3>2
  <2> QED
    BY <2>6 DEF PerIpExact, PublicOf
<1>4. CASE Tier(c) # "public"
  <2>1. perIp' = perIp
    BY <1>4 DEF Found
  <2>2. \A i \in Ips : PublicOf(i)' = PublicOf(i)
    BY <1>1, <1>2, <1>4 DEF PublicOf, RoomsOf, Live, Tier
  <2> QED
    BY <2>1, <2>2 DEF PerIpExact, PublicOf
<1> QED
  BY <1>3, <1>4

LEMMA IpExactUntouched ==
  ASSUME PerIpExact, UNCHANGED <<req, founder, perIp>>
  PROVE  PerIpExact'
BY DEF PerIpExact, RoomsOf, Live, Tier

LEMMA DropKeepsIpExact ==
  ASSUME TypeOK, PerIpExact, req' = req, NEW x \in Conns, NEW q, DropPeer(x, q)
  PROVE  PerIpExact'
<1>1. CASE x \notin reg
  BY <1>1, IpExactUntouched DEF DropPeer
<1>2. CASE x \in reg
  <2>1. PICK R : Sweep(Room(x), R, pending)
    BY <1>2 DEF DropPeer
  <2> QED
    BY <2>1, RequestFields, SweepKeepsIpExact
<1> QED
  BY <1>1, <1>2

LEMMA IpExactStep ==
  ASSUME Held, PerIpExact, NEW c \in Conns, Handshake(c) \/ Task(c) \/ Environment(c)
  PROVE  PerIpExact'
<1> TypeOK /\ Room(c) \in RoomIds
  BY RequestFields DEF Held
<1>1. CASE Found(c)
  BY <1>1, FoundKeepsIpExact
<1>2. CASE Release(c)
  BY <1>2, SweepKeepsIpExact DEF Release
<1>3. CASE AdmitAccept(c)
  <2>1. Room(c) \in Live
    BY <1>3 DEF AdmitAccept, Held, RoomHeld, Reserved
  <2> QED
    BY <1>3, <2>1, IpExactUntouched DEF AdmitAccept
<1>4. CASE AdmitPanic(c)
  BY <1>4, SweepKeepsIpExact DEF AdmitPanic
<1>5. CASE WelcomeFails(c) \/ DropSelf(c)
  BY <1>5, DropKeepsIpExact DEF WelcomeFails, DropSelf, End
<1>6. ASSUME NEW t \in Conns, GiveUp(c, t)
      PROVE  PerIpExact'
  BY <1>6, DropKeepsIpExact DEF GiveUp
<1>7. CASE \/ Join(c) \/ Reject(c) \/ AdmitFull(c) \/ Welcome(c)
           \/ Snapshot(c) \/ Ejected(c) \/ (\E t \in Conns : Send(c, t)) \/ Environment(c)
  <2>1. UNCHANGED <<req, founder, perIp>>
    BY <1>7 DEF Join, Reject, AdmitFull, Welcome, Snapshot, Ejected, Send, Environment,
                ReadFrame, Refuse, Disconnect, Write, WriterFails, Age, roomVars
  <2> QED
    BY <2>1, IpExactUntouched
<1> QED
  BY <1>1, <1>2, <1>3, <1>4, <1>5, <1>6, <1>7 DEF Handshake, Task

\* public_rooms_per_ip is exactly the number of public rooms of each IP: no
\* release, failed upgrade, eviction or panic loses a place or frees one twice.
THEOREM PerIpIsExact == Spec => []PerIpExact
<1>1. Init => PerIpExact
  <2> SUFFICES ASSUME Init, NEW i \in Ips
               PROVE  perIp[i] = Cardinality(PublicOf(i))
    BY DEF PerIpExact, PublicOf
  <2>1. PublicOf(i) = {}
    BY DEF Init, PublicOf, RoomsOf, Live
  <2> QED
    BY <2>1, FS_EmptySet DEF Init
<1>2. Held /\ PerIpExact /\ [Next]_vars => PerIpExact'
  BY IpExactStep, IpExactUntouched DEF Next, vars, roomVars
<1> QED
  BY <1>1, <1>2, HeldInvariant, PTL DEF Spec

-----------------------------------------------------------------------------
(* The rooms are leases                                                    *)

Holders(r) == Clients(reg, r) \cup Reserved(r)

\* The abstract variables, by their names in SessionLease.
HoldersMap == [r \in RoomIds |-> Holders(r)]
LabelsMap == [r \in RoomIds |-> IF r \in Live THEN Label(req[founder[r]]) ELSE {}]

\* The abstract module counts as this one does.
LEMMA LeaseCardinality == \A S : Lease!Cardinality(S) = Cardinality(S)
BY DEF Lease!Cardinality, Cardinality

\* The abstract actions, as a change of the two maps.
LEMMA OpenMaps ==
  ASSUME NEW s \in RoomIds, NEW L \in LabelSets, NEW h \in Conns,
         HoldersMap[s] = {}, \A l \in L : Cardinality(Lease!Under(l)) < Places[l],
         HoldersMap' = [HoldersMap EXCEPT ![s] = {h}],
         LabelsMap' = [LabelsMap EXCEPT ![s] = L]
  PROVE  Lease!Next
<1>1. Lease!Open(s)
  BY LeaseCardinality DEF Lease!Open, HoldersMap, LabelsMap, Holders
<1> QED
  BY <1>1 DEF Lease!Next

LEMMA ShareMaps ==
  ASSUME NEW s \in RoomIds, NEW h \in Conns \ HoldersMap[s], HoldersMap[s] # {},
         HoldersMap' = [HoldersMap EXCEPT ![s] = HoldersMap[s] \cup {h}],
         UNCHANGED LabelsMap
  PROVE  Lease!Next
<1>1. Lease!Share(s)
  BY DEF Lease!Share, HoldersMap, LabelsMap, Holders
<1> QED
  BY <1>1 DEF Lease!Next

LEMMA LeaveMaps ==
  ASSUME NEW s \in RoomIds, NEW H \in (SUBSET HoldersMap[s]) \ {{}},
         HoldersMap' = [HoldersMap EXCEPT ![s] = HoldersMap[s] \ H],
         LabelsMap' = [LabelsMap EXCEPT ![s] = IF H = HoldersMap[s] THEN {} ELSE LabelsMap[s]]
  PROVE  Lease!Next
<1>1. Lease!Leave(s)
  BY DEF Lease!Leave, HoldersMap, LabelsMap, Holders
<1> QED
  BY <1>1 DEF Lease!Next

LEMMA StutterMaps ==
  ASSUME UNCHANGED <<HoldersMap, LabelsMap>>
  PROVE  UNCHANGED Lease!vars
BY DEF Lease!vars, HoldersMap, LabelsMap, Holders

\* A step that only takes holders away from one room is a stutter or a Leave.
LEMMA LeavingStep ==
  ASSUME Held, Held', req' = req, NEW r \in RoomIds, Holders(r)' \subseteq Holders(r),
         \A s \in RoomIds \ {r} : Holders(s)' = Holders(s),
         \A s \in RoomIds : founder'[s] = founder[s] \/ founder'[s] = NoConn
  PROVE  Lease!Next \/ UNCHANGED Lease!vars
<1> DEFINE H == Holders(r) \ Holders(r)'
<1>1. /\ \A s \in RoomIds : s \in Live <=> Holders(s) # {}
      /\ \A s \in RoomIds : s \in Live' <=> Holders(s)' # {}
  BY DEF Held, RoomHeld, Holders
<1>2. \A s \in RoomIds : s \in Live' => founder'[s] = founder[s]
  BY DEF Live
<1>3. CASE Holders(r)' = Holders(r)
  <2>1. \A s \in RoomIds : Holders(s)' = Holders(s) /\ (s \in Live' <=> s \in Live)
    BY <1>1, <1>3
  <2>2. UNCHANGED <<HoldersMap, LabelsMap>>
    BY <1>2, <2>1 DEF HoldersMap, LabelsMap
  <2> QED
    BY <2>2, StutterMaps
<1>4. CASE Holders(r)' # Holders(r)
  <2>1. H \in (SUBSET Holders(r)) \ {{}} /\ Holders(r)' = Holders(r) \ H
    BY <1>4
  <2>2. H = Holders(r) <=> r \notin Live'
    BY <1>1, <2>1
  <2>3. \A s \in RoomIds \ {r} : s \in Live' <=> s \in Live
    BY <1>1
  <2> HIDE DEF H
  <2>4. HoldersMap' = [HoldersMap EXCEPT ![r] = HoldersMap[r] \ H]
    BY <2>1 DEF HoldersMap
  <2>5. LabelsMap' = [LabelsMap EXCEPT ![r] = IF H = HoldersMap[r] THEN {} ELSE LabelsMap[r]]
    <3>1. \A s \in RoomIds : LabelsMap'[s] =
            IF s = r THEN IF H = Holders(r) THEN {} ELSE LabelsMap[r] ELSE LabelsMap[s]
      BY <1>1, <1>2, <2>1, <2>2, <2>3 DEF LabelsMap
    <3> QED
      BY <3>1 DEF LabelsMap, HoldersMap
  <2> QED
    BY <2>1, <2>4, <2>5, LeaveMaps DEF HoldersMap
<1> QED
  BY <1>3, <1>4

\* A step that leaves holders and founders alone is a stutter.
LEMMA LeaseUntouched ==
  ASSUME UNCHANGED <<req, reg, founder>>,
         \A x \in Conns : phase'[x] = "reserved" <=> phase[x] = "reserved"
  PROVE  UNCHANGED Lease!vars
BY DEF Lease!vars, Clients, Reserved, Live, Room

\* Joining a room that exists shares it.
LEMMA JoinIsShare ==
  ASSUME Held, NEW c \in Conns, Join(c)
  PROVE  Lease!Next \/ UNCHANGED Lease!vars
<1> DEFINE r == Room(c)
<1>1. r \in RoomIds /\ r \in Live
  BY RequestFields DEF Held, Join, MayJoin, Room
<1>2. UNCHANGED <<req, reg, founder>>
  BY DEF Join, regVars
<1>3. \A s \in RoomIds : Holders(s)' = IF s = r THEN Holders(s) \cup {c} ELSE Holders(s)
  BY <1>2 DEF Join, Held, TypeOK, Holders, Clients, Reserved, Room
<1>4. Holders(r) # {}
  BY <1>1 DEF Held, RoomHeld, Holders
<1>5. CASE c \in Holders(r)
  <2>1. \A s \in RoomIds : Holders(s)' = Holders(s)
    BY <1>3, <1>5
  <2>2. UNCHANGED <<HoldersMap, LabelsMap>>
    BY <1>2, <2>1 DEF HoldersMap, LabelsMap, Live
  <2> QED
    BY <2>2, StutterMaps
<1>6. CASE c \notin Holders(r)
  <2>1. HoldersMap' = [HoldersMap EXCEPT ![r] = HoldersMap[r] \cup {c}]
    BY <1>1, <1>3 DEF HoldersMap
  <2>2. UNCHANGED LabelsMap
    BY <1>2 DEF LabelsMap, Live
  <2> QED
    BY <1>1, <1>4, <1>6, <2>1, <2>2, ShareMaps DEF HoldersMap
<1> QED
  BY <1>5, <1>6

\* How many rooms the relay counts under each label (session_usage, the loop
\* over the key's rooms, public_rooms_per_ip).
LEMMA LabelCounts ==
  ASSUME Held
  PROVE  /\ \A t : Lease!Under(<<"tier", t>>) = RoomsOf(t)
         /\ MaxSessionsPerKey > 0 => \A k : Lease!Under(<<"key", k>>) = RoomsOfKey(k)
         /\ MaxPublicPerIp > 0 => \A i : Lease!Under(<<"ip", i>>) = PublicOf(i)
<1>1. Lease!Leased = Live
  BY DEF Lease!Leased, Held, RoomHeld, Live
<1>2. \A l : Lease!Under(l) = {s \in Live : l \in Label(req[founder[s]])}
  BY <1>1 DEF Lease!Under, Live
<1>3. \A q, t : <<"tier", t>> \in Label(q) <=> q.tier = t
  BY DEF Label
<1>4. MaxSessionsPerKey > 0 => \A q, k : <<"key", k>> \in Label(q) <=> q.key = k
  BY DEF Label
<1>5. MaxPublicPerIp > 0 => \A q, i : <<"ip", i>> \in Label(q) <=> q.tier = "public" /\ q.ip = i
  BY DEF Label
<1> QED
  BY <1>2, <1>3, <1>4, <1>5 DEF RoomsOf, RoomsOfKey, PublicOf, Tier

\* A room is founded only where each of its labels has a free place.
LEMMA FoundHasPlace ==
  ASSUME Held, PerIpExact, NEW c \in Conns, Found(c), NEW l \in Label(req[c])
  PROVE  Cardinality(Lease!Under(l)) < Places[l]
<1>1. MayFound(req[c]) /\ req[c] \in Requests /\ req[c].ip \in Ips
  BY RequestFields DEF Held, TypeOK, Found
<1>2. l \in UNION LabelSets
  BY <1>1 DEF LabelSets
<1>3. Places[l] = CASE l[1] = "tier" -> MaxSessions[l[2]]
                    [] l[1] = "key" -> MaxSessionsPerKey
                    [] l[1] = "ip" -> MaxPublicPerIp
  BY <1>2 DEF Places
<1>4. CASE l = <<"tier", req[c].tier>>
  <2>1. Places[l] = MaxSessions[req[c].tier]
    BY <1>3, <1>4
  <2> QED
    BY <1>1, <1>4, <2>1, LabelCounts DEF MayFound
<1>5. CASE l = <<"key", req[c].key>> /\ MaxSessionsPerKey > 0
  <2>1. Places[l] = MaxSessionsPerKey
    BY <1>3, <1>5
  <2> QED
    BY <1>1, <1>5, <2>1, LabelCounts DEF MayFound
<1>6. CASE l = <<"ip", req[c].ip>> /\ req[c].tier = "public" /\ MaxPublicPerIp > 0
  <2>1. Places[l] = MaxPublicPerIp
    BY <1>3, <1>6
  <2>2. perIp[req[c].ip] < MaxPublicPerIp
    BY <1>1, <1>6 DEF MayFound
  <2>3. perIp[req[c].ip] = Cardinality(PublicOf(req[c].ip))
    BY <1>1 DEF PerIpExact, PublicOf
  <2> QED
    BY <1>6, <2>1, <2>2, <2>3, LabelCounts
<1> QED
  BY <1>4, <1>5, <1>6 DEF Label

\* Founding a room opens a session under labels that have a free place.
LEMMA FoundIsOpen ==
  ASSUME Held, PerIpExact, NEW c \in Conns, Found(c)
  PROVE  Lease!Next
<1> DEFINE r == Room(c)
           L == Label(req[c])
<1>1. /\ r \in RoomIds /\ r \notin Live /\ c # NoConn
      /\ req[c] \in Requests /\ req[c].tier \in Tiers /\ req[c].ip \in Ips
  BY RequestFields, ConnAssumption DEF Held, TypeOK, Found, MayFound, Room, Tier
<1>2. UNCHANGED <<req, reg>> /\ founder' = [founder EXCEPT ![r] = c]
  BY DEF Found, regVars
<1>3. Holders(r) = {}
  BY <1>1 DEF Held, RoomHeld, Holders
<1>4. \A s \in RoomIds : Holders(s)' = IF s = r THEN Holders(s) \cup {c} ELSE Holders(s)
  BY <1>2 DEF Found, Held, TypeOK, Holders, Clients, Reserved, Room
<1>5. L \in LabelSets
  BY <1>1 DEF LabelSets
<1>6. \A l \in L : Cardinality(Lease!Under(l)) < Places[l]
  BY FoundHasPlace
<1>7. \A s \in RoomIds :
        (IF s \in Live' THEN Label(req'[founder'[s]]) ELSE {})
          = IF s = r THEN L ELSE IF s \in Live THEN Label(req[founder[s]]) ELSE {}
  BY <1>1, <1>2 DEF Held, TypeOK, Live
<1> HIDE DEF L
<1>8. HoldersMap' = [HoldersMap EXCEPT ![r] = {c}] /\ HoldersMap[r] = {}
  BY <1>1, <1>3, <1>4 DEF HoldersMap
<1>9. LabelsMap' = [LabelsMap EXCEPT ![r] = L]
  BY <1>1, <1>7 DEF LabelsMap
<1> QED
  BY <1>1, <1>5, <1>6, <1>8, <1>9, OpenMaps

\* Only founding a room gives it a founder; sweeping takes it away.
LEMMA SweepFounder ==
  ASSUME TypeOK, NEW r \in RoomIds, NEW R, NEW p, Sweep(r, R, p)
  PROVE  \A s \in RoomIds : founder'[s] = founder[s] \/ founder'[s] = NoConn
BY DEF Sweep, TypeOK

LEMMA FounderStep ==
  ASSUME Held, NEW c \in Conns, Handshake(c) \/ Task(c) \/ Environment(c), ~Found(c)
  PROVE  /\ req' = req
         /\ \A s \in RoomIds : founder'[s] = founder[s] \/ founder'[s] = NoConn
<1> TypeOK /\ \A x \in Conns : Room(x) \in RoomIds
  BY RequestFields DEF Held
<1>1. CASE Release(c)
  BY <1>1, SweepFounder DEF Release
<1>2. CASE AdmitPanic(c)
  BY <1>2, SweepFounder DEF AdmitPanic
<1>3. CASE AdmitAccept(c)
  <2>1. Room(c) \in Live
    BY <1>3 DEF AdmitAccept, Held, RoomHeld, Reserved
  <2> QED
    BY <1>3, <2>1 DEF AdmitAccept
<1>4. ASSUME NEW x \in Conns, NEW q, DropPeer(x, q)
      PROVE  \A s \in RoomIds : founder'[s] = founder[s] \/ founder'[s] = NoConn
  <2>1. CASE x \notin reg
    BY <1>4, <2>1 DEF DropPeer
  <2>2. CASE x \in reg
    <3>1. PICK R : Sweep(Room(x), R, pending)
      BY <1>4, <2>2 DEF DropPeer
    <3> QED
      BY <3>1, SweepFounder
  <2> QED
    BY <2>1, <2>2
<1>5. CASE WelcomeFails(c) \/ DropSelf(c)
  BY <1>4, <1>5 DEF WelcomeFails, DropSelf, End
<1>6. ASSUME NEW t \in Conns, GiveUp(c, t)
      PROVE  req' = req /\ \A s \in RoomIds : founder'[s] = founder[s] \/ founder'[s] = NoConn
  BY <1>4, <1>6 DEF GiveUp
<1>7. CASE \/ Join(c) \/ Reject(c) \/ AdmitFull(c) \/ Welcome(c)
           \/ Snapshot(c) \/ Ejected(c) \/ (\E t \in Conns : Send(c, t)) \/ Environment(c)
  BY <1>7 DEF Join, Reject, AdmitFull, Welcome, Snapshot, Ejected, Send, Environment,
              ReadFrame, Refuse, Disconnect, Write, WriterFails, Age, roomVars
<1> QED
  BY <1>1, <1>2, <1>3, <1>5, <1>6, <1>7 DEF Handshake, Task

\* drop_peer takes holders only from the room of the connection it drops.
LEMMA DropIsLeaving ==
  ASSUME Held, Held', NEW x \in Conns, NEW q, DropPeer(x, q), req' = req,
         \A y \in Conns : phase'[y] = "reserved" <=> phase[y] = "reserved",
         \A s \in RoomIds : founder'[s] = founder[s] \/ founder'[s] = NoConn
  PROVE  Lease!Next \/ UNCHANGED Lease!vars
<1>1. PICK r \in RoomIds : r = Room(x)
  BY RequestFields DEF Held
<1>2. reg' \subseteq reg /\ reg \ reg' \subseteq Clients(reg, Room(x))
  <2>1. CASE x \notin reg
    BY <2>1 DEF DropPeer, regVars
  <2>2. CASE x \in reg
    BY <2>2 DEF DropPeer, Unregister, Clients, Stalled
  <2> QED
    BY <2>1, <2>2
<1>3. \A s : Reserved(s)' = Reserved(s)
  BY DEF Reserved, Room
<1>4. Holders(r)' \subseteq Holders(r)
  BY <1>1, <1>2, <1>3 DEF Holders, Clients, Room
<1>5. \A s \in RoomIds \ {r} : Holders(s)' = Holders(s)
  BY <1>1, <1>2, <1>3 DEF Holders, Clients, Room
<1> QED
  BY <1>1, <1>4, <1>5, LeavingStep

\* Giving up or using up a reservation takes at most the evicted connections
\* and the reservation from the room.
LEMMA HandshakeIsLeaving ==
  ASSUME Held, Held', NEW c \in Conns,
         Release(c) \/ AdmitFull(c) \/ AdmitAccept(c) \/ AdmitPanic(c)
  PROVE  Lease!Next \/ UNCHANGED Lease!vars
<1> TypeOK
  BY DEF Held
<1>0. PICK r \in RoomIds : r = Room(c)
  BY RequestFields
<1>1. req' = req /\ \A s \in RoomIds : founder'[s] = founder[s] \/ founder'[s] = NoConn
  <2>1. ~Found(c)
    BY DEF Found, Release, AdmitFull, AdmitAccept, AdmitPanic
  <2> QED
    BY <2>1, FounderStep DEF Handshake
<1>2. phase[c] = "reserved" /\ \A s : Reserved(s)' = Reserved(s) \ {c}
  BY <1>1 DEF Release, AdmitFull, AdmitAccept, AdmitPanic, Reserved, Room, TypeOK
<1>3. reg' \subseteq reg \cup {c} /\ reg \ reg' \subseteq Clients(reg, Room(c))
  BY EvictedSameRoom DEF Release, AdmitFull, AdmitAccept, AdmitPanic, regVars
<1>4. Holders(r)' \subseteq Holders(r)
  BY <1>0, <1>1, <1>2, <1>3 DEF Holders, Clients, Reserved, Room
<1>5. \A s \in RoomIds \ {r} : Holders(s)' = Holders(s)
  BY <1>0, <1>1, <1>2, <1>3 DEF Holders, Clients, Reserved, Room
<1> QED
  BY <1>1, <1>4, <1>5, LeavingStep

LEMMA NextIsLease ==
  ASSUME Held, Held', PerIpExact, NEW c \in Conns,
         Handshake(c) \/ Task(c) \/ Environment(c)
  PROVE  Lease!Next \/ UNCHANGED Lease!vars
<1> TypeOK
  BY DEF Held
<1>1. CASE Found(c)
  BY <1>1, FoundIsOpen
<1>2. CASE Join(c)
  BY <1>2, JoinIsShare
<1>3. CASE Release(c) \/ AdmitFull(c) \/ AdmitAccept(c) \/ AdmitPanic(c)
  BY <1>3, HandshakeIsLeaving
<1>4. CASE WelcomeFails(c) \/ DropSelf(c)
  <2>1. ~Found(c)
    BY <1>4 DEF Found, WelcomeFails, DropSelf
  <2>2. \A s \in RoomIds : founder'[s] = founder[s] \/ founder'[s] = NoConn
    BY <1>4, <2>1, FounderStep DEF Handshake, Task
  <2>3. \A y \in Conns : phase'[y] = "reserved" <=> phase[y] = "reserved"
    BY <1>4 DEF WelcomeFails, DropSelf, End, TypeOK
  <2> QED
    BY <1>4, <2>2, <2>3, DropIsLeaving DEF WelcomeFails, DropSelf, End
<1>5. ASSUME NEW t \in Conns, GiveUp(c, t)
      PROVE  Lease!Next \/ UNCHANGED Lease!vars
  <2>1. ~Found(c)
    BY <1>5 DEF Found, GiveUp
  <2>2. \A s \in RoomIds : founder'[s] = founder[s] \/ founder'[s] = NoConn
    BY <1>5, <2>1, FounderStep DEF Task
  <2>3. \A y \in Conns : phase'[y] = "reserved" <=> phase[y] = "reserved"
    BY <1>5 DEF GiveUp, Served, TypeOK
  <2> QED
    BY <1>5, <2>2, <2>3, DropIsLeaving DEF GiveUp
<1>6. CASE \/ Reject(c) \/ Welcome(c) \/ Snapshot(c) \/ Ejected(c)
           \/ (\E t \in Conns : Send(c, t)) \/ Environment(c)
  <2>1. UNCHANGED <<req, reg, founder>>
    BY <1>6 DEF Reject, Welcome, Snapshot, Ejected, Send, Environment,
                ReadFrame, Refuse, Disconnect, Write, WriterFails, Age, roomVars, regVars
  <2>2. \A x \in Conns : phase'[x] = "reserved" <=> phase[x] = "reserved"
    BY <1>6 DEF Reject, Welcome, Snapshot, Ejected, Send, Served, Environment,
                ReadFrame, Refuse, Disconnect, Write, WriterFails, Age, TypeOK
  <2> QED
    BY <2>1, <2>2, LeaseUntouched
<1> QED
  BY <1>1, <1>2, <1>3, <1>4, <1>5, <1>6 DEF Handshake, Task

\* The relay's counting (pending, the per-IP table, the sweeps) implements
\* leases: it neither loses a place nor hands one out twice.
THEOREM RoomsAreLeases == Spec => LeaseSpec
<1>1. Init => Lease!Init
  BY DEF Init, Lease!Init, Live, Clients, Reserved
<1>2. Held /\ Held' /\ PerIpExact /\ [Next]_vars => [Lease!Next]_Lease!vars
  <2> SUFFICES ASSUME Held, Held', PerIpExact, [Next]_vars
               PROVE  Lease!Next \/ UNCHANGED Lease!vars
    OBVIOUS
  <2>1. CASE UNCHANGED vars
    BY <2>1, LeaseUntouched DEF vars, roomVars, regVars
  <2> QED
    BY <2>1, NextIsLease DEF Next
<1> QED
  BY <1>1, <1>2, HeldInvariant, PerIpIsExact, PTL DEF LeaseSpec, Lease!Spec, Spec

-----------------------------------------------------------------------------
(* No limit is ever exceeded                                               *)

LEMMA PlacesAreNat ==
  ASSUME NEW l \in Lease!Labels
  PROVE  Places[l] \in Nat
<1>1. PICK q \in Requests : l \in Label(q)
  BY DEF Lease!Labels, LabelSets
<1>2. q.tier \in Tiers
  BY RequestAssumption DEF Request
<1>3. l \in UNION LabelSets
  BY DEF Lease!Labels
<1>4. CASE l = <<"tier", q.tier>>
  <2>1. Places[l] = MaxSessions[q.tier]
    BY <1>3, <1>4 DEF Places
  <2> QED
    BY <1>2, <2>1, LimitAssumption
<1>5. CASE l = <<"key", q.key>>
  <2>1. Places[l] = MaxSessionsPerKey
    BY <1>3, <1>5 DEF Places
  <2> QED
    BY <2>1, LimitAssumption
<1>6. CASE l = <<"ip", q.ip>>
  <2>1. Places[l] = MaxPublicPerIp
    BY <1>3, <1>6 DEF Places
  <2> QED
    BY <2>1, LimitAssumption
<1> QED
  BY <1>1, <1>4, <1>5, <1>6 DEF Label

\* A leased session is a room that exists.
LEMMA UnderLabel ==
  ASSUME RoomHeld, NEW l
  PROVE  Lease!Under(l) = {s \in Live : l \in Label(req[founder[s]])}
BY DEF Lease!Under, Lease!Leased, RoomHeld, Live

\* The limits hold whatever the rooms do: max_sessions and max_public_sessions
\* of each tier, max_sessions_per_key, max_public_per_ip.
THEOREM LimitsHold == Spec => []Lease!WithinPlaces
<1>1. Init => Lease!WithinPlaces
  <2> SUFFICES ASSUME Init, NEW l \in Lease!Labels
               PROVE  Cardinality(Lease!Under(l)) <= Places[l]
    BY LeaseCardinality DEF Lease!WithinPlaces
  <2>1. Lease!Under(l) = {}
    BY DEF Init, Lease!Under, Lease!Leased, Live, Clients, Reserved
  <2> QED
    BY <2>1, FS_EmptySet, PlacesAreNat
<1>2. Held /\ Held' /\ PerIpExact /\ Lease!WithinPlaces /\ [Next]_vars => Lease!WithinPlaces'
  <2> SUFFICES ASSUME Held, Held', PerIpExact, Lease!WithinPlaces, [Next]_vars,
                      NEW l \in Lease!Labels
               PROVE  Cardinality(Lease!Under(l)') <= Places[l]
    BY LeaseCardinality DEF Lease!WithinPlaces
  <2> DEFINE U == {s \in Live : l \in Label(req[founder[s]])}
             V == {s \in Live' : l \in Label(req'[founder'[s]])}
  <2>1. Lease!Under(l) = U /\ Lease!Under(l)' = V
    <3>1. Lease!Under(l) = U
      BY UnderLabel DEF Held
    <3>2. Lease!Under(l)' = V
      BY DEF Held, RoomHeld, Lease!Under, Lease!Leased, Live
    <3> QED
      BY <3>1, <3>2
  <2>2. IsFiniteSet(U) /\ Cardinality(U) \in Nat
    <3>1. U \subseteq RoomIds
      BY DEF Live
    <3> QED
      BY <3>1, RoomAssumption, FS_Subset, FS_CardinalityType
  <2>3. Cardinality(U) <= Places[l] /\ Places[l] \in Nat
    BY <2>1, LeaseCardinality, PlacesAreNat DEF Lease!WithinPlaces
  <2>4. ASSUME V \subseteq U
        PROVE  Cardinality(V) <= Places[l]
    <3>1. Cardinality(V) <= Cardinality(U) /\ Cardinality(V) \in Nat
      BY <2>2, <2>4, FS_Subset, FS_CardinalityType
    <3> QED
      BY <2>2, <2>3, <3>1
  <2>5. CASE UNCHANGED vars
    <3>1. V = U
      BY <2>5 DEF vars, roomVars, Live
    <3> QED
      BY <2>1, <2>4, <3>1
  <2>6. ASSUME NEW c \in Conns, Handshake(c) \/ Task(c) \/ Environment(c), ~Found(c)
        PROVE  Cardinality(V) <= Places[l]
    <3>1. req' = req /\ \A s \in RoomIds : founder'[s] = founder[s] \/ founder'[s] = NoConn
      BY <2>6, FounderStep
    <3>2. V \subseteq U
      BY <3>1 DEF Live
    <3> QED
      BY <2>4, <3>2
  <2>7. ASSUME NEW c \in Conns, Found(c)
        PROVE  Cardinality(V) <= Places[l]
    <3>1. PICK r \in RoomIds : r = Room(c)
      BY RequestFields DEF Held
    <3>2. req' = req /\ \A s \in RoomIds : founder'[s] = IF s = r THEN c ELSE founder[s]
      BY <2>7, <3>1 DEF Found, Held, TypeOK
    <3>3. CASE l \in Label(req[c])
      <4>1. Cardinality(U) < Places[l]
        BY <2>1, <2>7, <3>3, FoundHasPlace
      <4>2. V \subseteq U \cup {r}
        BY <3>2 DEF Live
      <4> HIDE DEF U, V
      <4>3. IsFiniteSet(U \cup {r}) /\ Cardinality(U \cup {r}) \in Nat
        BY <2>2, FS_AddElement, FS_CardinalityType
      <4>4. Cardinality(U \cup {r}) <= Cardinality(U) + 1
        BY <2>2, FS_AddElement
      <4>5. Cardinality(V) <= Cardinality(U \cup {r}) /\ Cardinality(V) \in Nat
        BY <4>2, <4>3, FS_Subset, FS_CardinalityType
      <4> QED
        BY <2>2, <2>3, <4>1, <4>3, <4>4, <4>5
    <3>4. CASE l \notin Label(req[c])
      <4>1. V \subseteq U
        BY <3>2, <3>4 DEF Live
      <4> QED
        BY <2>4, <4>1
    <3> QED
      BY <3>3, <3>4
  <2> QED
    BY <2>1, <2>5, <2>6, <2>7 DEF Next
<1> QED
  BY <1>1, <1>2, HeldInvariant, PerIpIsExact, PTL DEF Spec

=============================================================================
