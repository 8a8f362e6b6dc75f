----------------------------- MODULE RelayRoom -----------------------------
(***************************************************************************)
(* The session layer of the self-hosted relay, server-relay/src/relay.rs.  *)
(*                                                                         *)
(* A connection task first RESERVES a place in a room (before the          *)
(* WebSocket upgrade), then either releases it or is ADMITTED, is served   *)
(* by a read loop and a writer task, and at last drops itself from its     *)
(* room.  All the rooms live behind one tokio Mutex, so every method that  *)
(* takes the lock is one action here; whatever happens between two         *)
(* acquisitions of the lock is a phase of the connection.                  *)
(*                                                                         *)
(* Abstractions.  A connection is admitted at most once, so Conns is also  *)
(* the bound on how many connections a behaviour has.  A room is known by  *)
(* the reservation that created it (its verifier, tier, IP and key index   *)
(* are those of that request).  Clocks are reduced to one bit: `old' holds *)
(* the registered connections whose last_seen is more than stale_after     *)
(* ago.  A data frame is known by its sender, a peer frame by `online': the *)
(* device it names is never the receiver's own.  Rate limits are a choice: *)
(* any frame may be refused (see Refuse).                                  *)
(***************************************************************************)
EXTENDS Integers, Sequences, FiniteSets

CONSTANTS
  RoomIds,            \* ROOM_ID values
  Devices,            \* normalised X-Pair-Client values
  Tokens,             \* AUTH_TOKEN values, compared through SHA256
  Keys,               \* indices into server_keys
  Ips,                \* IpKey values
  Conns,              \* connection tasks
  NoConn,             \* no connection
  Requests,           \* the handshakes that clients send
  MaxSessions,        \* max_sessions / max_public_sessions, by tier
  MaxSessionsPerKey,  \* max_sessions_per_key, 0 = unlimited
  MaxPublicPerIp,     \* max_public_per_ip, 0 = unlimited
  MaxPendingPerRoom,  \* MAX_PENDING_PER_ROOM
  QueueCap            \* OUTBOUND_QUEUE / PUBLIC_OUTBOUND_QUEUE, by tier

PairSize == 2
Tiers == {"full", "public"}

Request == [room: RoomIds, dev: Devices, token: Tokens,
            tier: Tiers, key: Keys, ip: Ips]

ASSUME ConnAssumption == IsFiniteSet(Conns) /\ NoConn \notin Conns
ASSUME RoomAssumption == IsFiniteSet(RoomIds)
ASSUME RequestAssumption == Requests \subseteq Request
ASSUME LimitAssumption ==
  /\ MaxSessions \in [Tiers -> Nat]
  /\ MaxSessionsPerKey \in Nat
  /\ MaxPublicPerIp \in Nat
  /\ MaxPendingPerRoom \in Nat \ {0}
  /\ QueueCap \in [Tiers -> Nat \ {0}]

VARIABLES
  req,      \* what each connection asks for in its handshake
  phase,    \* where each connection task is
  founder,  \* State::rooms: the connection whose reservation made the room
  pending,  \* PairRoom::pending
  perIp,    \* State::public_rooms_per_ip (an absent key is 0)
  reg,      \* the ClientEntry's of all the rooms, by connection
  buckets,  \* keys of State::buckets, by connection
  old,      \* entries whose last_seen is more than stale_after ago
  elder,    \* for each entry, those of its room with a smaller ClientEntry::id
  queue,    \* the bounded mpsc channel to the writer task
  wr,       \* the writer: "up", "closed" (Close sent), "down" (gone)
  targets,  \* forward: the connections still to be sent the frame
  belief,   \* the peer_online that the client was last told
  misled    \* clients that were told nothing since an outdated welcome

roomVars == <<founder, pending, perIp>>
regVars == <<reg, buckets, old, elder>>
vars == <<req, phase, roomVars, regVars, queue, wr, targets, belief, misled>>

Phases == {"new", "reserved", "admitted", "reading", "allowed",
           "forwarding", "dropping", "done", "panicked"}

Peer(online) == [type |-> "peer", online |-> online]
Data(c) == [type |-> "data", from |-> c]
Close(code) == [type |-> "close", code |-> code]

Frame == [type: {"peer"}, online: BOOLEAN]
           \cup [type: {"data"}, from: Conns]
           \cup [type: {"close"}, code: {"REPLACED", "STALE", "REFUSED"}]

Room(c) == req[c].room
Dev(c) == req[c].dev
Tier(c) == req[c].tier

Init ==
  /\ req \in [Conns -> Requests]
  /\ phase = [c \in Conns |-> "new"]
  /\ founder = [r \in RoomIds |-> NoConn]
  /\ pending = [r \in RoomIds |-> 0]
  /\ perIp = [i \in Ips |-> 0]
  /\ reg = {} /\ buckets = {} /\ old = {} /\ misled = {}
  /\ elder = [c \in Conns |-> {}]
  /\ queue = [c \in Conns |-> <<>>]
  /\ wr = [c \in Conns |-> "up"]
  /\ targets = [c \in Conns |-> {}]
  /\ belief = [c \in Conns |-> FALSE]

-----------------------------------------------------------------------------
(* Rooms and queues                                                        *)

Live == {r \in RoomIds : founder[r] # NoConn}
Clients(R, r) == {c \in R : Room(c) = r}

\* mpsc::Sender::try_send on q succeeds: the writer holds the receiver and
\* there is a free slot.
Fits(q, c) == wr[c] # "down" /\ Len(q[c]) < QueueCap[Tier(c)]
Stalled(q, S) == {c \in S : ~Fits(q, c)}
TrySend(q, S, f) ==
  [c \in Conns |-> IF c \in S /\ Fits(q, c) THEN Append(q[c], f) ELSE q[c]]

Less(n) == IF n > 0 THEN n - 1 ELSE 0   \* saturating_sub(1)

\* Mutants of Sweep: a reservation does not keep the room; the IP's place is
\* not given back.
SweepReserved(r, R, p) ==
  IF r \in Live /\ Clients(R, r) = {}
  THEN /\ founder' = [founder EXCEPT ![r] = NoConn]
       /\ perIp' = IF Tier(founder[r]) = "public"
                   THEN [perIp EXCEPT ![req[founder[r]].ip] = Less(@)]
                   ELSE perIp
  ELSE UNCHANGED <<founder, perIp>>
SweepKeepsIp(r, R, p) ==
  /\ founder' = [founder EXCEPT ![r] =
                   IF Clients(R, r) = {} /\ p[r] = 0 THEN NoConn ELSE @]
  /\ UNCHANGED perIp

\* Delete the room once it has neither clients nor reservations, and give a
\* public room's place back to its IP.
Sweep(r, R, p) ==
  IF r \in Live /\ Clients(R, r) = {} /\ p[r] = 0
  THEN /\ founder' = [founder EXCEPT ![r] = NoConn]
       /\ perIp' = IF Tier(founder[r]) = "public"
                   THEN [perIp EXCEPT ![req[founder[r]].ip] = Less(@)]
                   ELSE perIp
  ELSE UNCHANGED <<founder, perIp>>

\* Mutant of Unregister: the bucket stays.
UnregisterKeepsBucket(gone) ==
  /\ reg' = reg \ gone /\ old' = old \ gone /\ UNCHANGED buckets
  /\ elder' = [c \in Conns |-> IF c \in gone THEN {} ELSE elder[c] \ gone]

\* take_client: the entry goes, and its bucket with it.
Unregister(gone) ==
  /\ reg' = reg \ gone
  /\ buckets' = buckets \ gone
  /\ old' = old \ gone
  /\ elder' = [c \in Conns |-> IF c \in gone THEN {} ELSE elder[c] \ gone]

\* drop_peer, and with it take_client, announce_offline, broadcast and sweep.
\* It does nothing unless x is still the registered connection.  A peer whose
\* queue refuses the notice is taken out too; nobody is then left to be told,
\* since a room has at most two clients.
DropPeer(x, q) ==
  IF x \in reg
  THEN LET left == Clients(reg \ {x}, Room(x))
           heirs == {p \in left : Dev(p) = Dev(x)}
           told == IF heirs # {} THEN {} ELSE left
           gone == {x} \cup Stalled(q, told)
       IN /\ Unregister(gone)
          /\ queue' = TrySend(q, told, Peer(FALSE))
          /\ misled' = misled \ (gone \cup told)
          /\ Sweep(Room(x), reg \ gone, pending)
  ELSE /\ queue' = q
       /\ UNCHANGED <<regVars, misled, founder, perIp>>

-----------------------------------------------------------------------------
(* Admission in two steps: reserve, then admit or release                  *)

RoomsOf(t) == {r \in Live : Tier(founder[r]) = t}
RoomsOfKey(k) == {r \in Live : req[founder[r]].key = k}

\* A room that exists takes a second connection with the same verifier and
\* tier, however full the relay is.
MayJoin(q) ==
  /\ q.room \in Live
  /\ req[founder[q.room]].token = q.token
  /\ Tier(founder[q.room]) = q.tier
  /\ pending[q.room] < MaxPendingPerRoom

\* Mutant of MayFound: the key's limit is off by one.
MayFoundOneMore(q) ==
  /\ q.room \notin Live
  /\ Cardinality(RoomsOf(q.tier)) < MaxSessions[q.tier]
  /\ MaxSessionsPerKey > 0 =>
       Cardinality(RoomsOfKey(q.key)) <= MaxSessionsPerKey
  /\ (q.tier = "public" /\ MaxPublicPerIp > 0) => perIp[q.ip] < MaxPublicPerIp

\* A new room needs a place of its tier, of its key and of its public IP.
MayFound(q) ==
  /\ q.room \notin Live
  /\ Cardinality(RoomsOf(q.tier)) < MaxSessions[q.tier]
  /\ MaxSessionsPerKey > 0 =>
       Cardinality(RoomsOfKey(q.key)) < MaxSessionsPerKey
  /\ (q.tier = "public" /\ MaxPublicPerIp > 0) => perIp[q.ip] < MaxPublicPerIp

Join(c) ==
  /\ phase[c] = "new" /\ MayJoin(req[c])
  /\ pending' = [pending EXCEPT ![Room(c)] = @ + 1]
  /\ phase' = [phase EXCEPT ![c] = "reserved"]
  /\ UNCHANGED <<req, founder, perIp, regVars, queue, wr, targets, belief, misled>>

Found(c) ==
  /\ phase[c] = "new" /\ MayFound(req[c])
  /\ founder' = [founder EXCEPT ![Room(c)] = c]
  /\ pending' = [pending EXCEPT ![Room(c)] = 1]
  /\ perIp' = IF Tier(c) = "public" THEN [perIp EXCEPT ![req[c].ip] = @ + 1] ELSE perIp
  /\ phase' = [phase EXCEPT ![c] = "reserved"]
  /\ UNCHANGED <<req, regVars, queue, wr, targets, belief, misled>>

\* AuthMismatch, TierMismatch, TooManyPending, Capacity, KeySessionLimit or
\* PublicIpLimit: the client gets an HTTP error and the relay keeps nothing.
Reject(c) ==
  /\ phase[c] = "new" /\ ~MayJoin(req[c]) /\ ~MayFound(req[c])
  /\ phase' = [phase EXCEPT ![c] = "done"]
  /\ UNCHANGED <<req, roomVars, regVars, queue, wr, targets, belief, misled>>

\* A bad device id, no connection permit left, no Sec-WebSocket-Key, or a
\* failed upgrade: release (release_pending).
Release(c) ==
  /\ phase[c] = "reserved"
  /\ pending' = IF Room(c) \in Live THEN [pending EXCEPT ![Room(c)] = Less(@)] ELSE pending
  /\ Sweep(Room(c), reg, pending')
  /\ phase' = [phase EXCEPT ![c] = "done"]
  /\ UNCHANGED <<req, regVars, queue, wr, targets, belief, misled>>

Mine(c) == {o \in Clients(reg, Room(c)) : Dev(o) = Dev(c)}
Others(c) == Clients(reg, Room(c)) \ Mine(c)

\* With two other devices present, the stale one that arrived first gives way.
Stale(c) ==
  IF Cardinality(Others(c)) >= PairSize
  THEN {o \in Others(c) \cap old : elder[o] \cap Others(c) \cap old = {}}
  ELSE {}
Remaining(c) == Others(c) \ Stale(c)

\* Mutant of Full: off by one.
FullLater(c) == Cardinality(Remaining(c)) > PairSize
Full(c) == Cardinality(Remaining(c)) >= PairSize

\* Mutant of Consumed: given back here and by the caller, without saturating.
ConsumedTwice(c) == [pending EXCEPT ![Room(c)] = @ - 2]

\* The reservation is consumed: admitted or turned away, it is given back.
Consumed(c) ==
  [pending EXCEPT ![Room(c)] = IF Room(c) \in Live THEN Less(@) ELSE 0]

\* Close 4003 straight after the upgrade.
AdmitFull(c) ==
  /\ phase[c] = "reserved" /\ Full(c)
  /\ pending' = Consumed(c)
  /\ phase' = [phase EXCEPT ![c] = "done"]
  /\ UNCHANGED <<req, founder, perIp, regVars, queue, wr, targets, belief, misled>>

\* Step 1 of an admission: the replaced and the stale connection are closed,
\* and the peer that stays is told that the stale device left.
Closed(c) ==
  TrySend(TrySend(queue, Mine(c), Close("REPLACED")), Stale(c), Close("STALE"))
ToldStale(c) == IF Stale(c) = {} THEN {} ELSE Remaining(c)
QueueTold(c) == TrySend(Closed(c), ToldStale(c), Peer(FALSE))
LostFirst(c) == Stalled(Closed(c), ToldStale(c))

\* That notice found the peer stalled, so nobody is left; broadcast then
\* sweeps the room away unless another reservation holds it.
Vanished(c) ==
  /\ LostFirst(c) # {}
  /\ Clients(reg \ (Mine(c) \cup Stale(c) \cup LostFirst(c)), Room(c)) = {}
  /\ Consumed(c)[Room(c)] = 0

\* Step 2: the newcomer is registered and the peer is told it is online.  A
\* peer that is stalled by then is taken out and the newcomer told so.
Kept(c) == Remaining(c) \ LostFirst(c)
LostSecond(c) == Stalled(QueueTold(c), Kept(c))
\* Mutant of QueueAdmitted: the newcomer is not told that its peer went.
QueueUntold(c) == TrySend(QueueTold(c), Kept(c), Peer(TRUE))
QueueAdmitted(c) ==
  LET q == TrySend(QueueTold(c), Kept(c), Peer(TRUE))
  IN IF LostSecond(c) = {} THEN q ELSE TrySend(q, {c}, Peer(FALSE))
Evicted(c) == Mine(c) \cup Stale(c) \cup LostFirst(c) \cup LostSecond(c)

\* admit, Accepted.  A room that has gone is made again, with its IP's count.
\* The welcome's peer_online is computed before anybody is found stalled.
AdmitAccept(c) ==
  /\ phase[c] = "reserved" /\ ~Full(c) /\ ~Vanished(c)
  /\ pending' = Consumed(c)
  /\ founder' = IF Room(c) \in Live THEN founder ELSE [founder EXCEPT ![Room(c)] = c]
  /\ perIp' = IF Room(c) \in Live \/ Tier(c) = "full" THEN perIp
              ELSE [perIp EXCEPT ![req[c].ip] = @ + 1]
  /\ reg' = (reg \ Evicted(c)) \cup {c}
  /\ buckets' = (buckets \ Evicted(c)) \cup {c}
  /\ old' = old \ Evicted(c)
  /\ elder' = [x \in Conns |-> IF x \in Evicted(c) THEN {}
                               ELSE IF x = c THEN Clients(reg, Room(c)) \ Evicted(c)
                               ELSE elder[x] \ Evicted(c)]
  /\ queue' = QueueAdmitted(c)
  /\ belief' = [belief EXCEPT ![c] = Remaining(c) # {}]
  /\ misled' = (misled \ (Evicted(c) \cup Kept(c))) \cup (IF LostFirst(c) = {} THEN {} ELSE {c})
  /\ phase' = [phase EXCEPT ![c] = "admitted"]
  /\ UNCHANGED <<req, wr, targets>>

\* admit, when its room was swept while it was still evicting: the bucket is
\* already in and `.expect(...)' on the room panics, which ends the task.
AdmitPanic(c) ==
  /\ phase[c] = "reserved" /\ ~Full(c) /\ Vanished(c)
  /\ pending' = Consumed(c)
  /\ Sweep(Room(c), reg \ Evicted(c), Consumed(c))
  /\ reg' = reg \ Evicted(c)
  /\ buckets' = (buckets \ Evicted(c)) \cup {c}
  /\ old' = old \ Evicted(c)
  /\ elder' = [x \in Conns |-> IF x \in Evicted(c) THEN {} ELSE elder[x] \ Evicted(c)]
  /\ queue' = QueueTold(c)
  /\ phase' = [phase EXCEPT ![c] = "panicked"]
  /\ misled' = misled \ Evicted(c)
  /\ UNCHANGED <<req, wr, targets, belief>>

-----------------------------------------------------------------------------
(* serve: the welcome, the read loop, the writer task                      *)

Welcome(c) ==
  /\ phase[c] = "admitted"
  /\ phase' = [phase EXCEPT ![c] = "reading"]
  /\ UNCHANGED <<req, roomVars, regVars, queue, wr, targets, belief, misled>>

\* The connection takes itself out of its room, and the task ends once the
\* writer has sent what is queued or WRITER_DRAIN_TIMEOUT has passed.
End(c) ==
  /\ DropPeer(c, [queue EXCEPT ![c] = <<>>])
  /\ phase' = [phase EXCEPT ![c] = "done"]
  /\ wr' = [wr EXCEPT ![c] = "down"]
  /\ belief' = [belief EXCEPT ![c] = FALSE]
  /\ UNCHANGED <<req, pending, targets>>

\* The welcome cannot be sent: the entry is taken out at once, and the
\* receiver goes with the task.
WelcomeFails(c) ==
  /\ phase[c] = "admitted"
  /\ End(c)

\* A legal binary frame within the limits.  Only a connection that still has
\* its bucket is let through (allow).
ReadFrame(c) ==
  /\ phase[c] = "reading" /\ c \in buckets
  /\ phase' = [phase EXCEPT ![c] = "allowed"]
  /\ UNCHANGED <<req, roomVars, regVars, queue, wr, targets, belief, misled>>

\* The relay closes the connection itself: an illegal frame, a text frame, a
\* rate limit, a missing bucket, an exhausted key budget, or the idle timer.
Refuse(c) ==
  /\ phase[c] = "reading"
  /\ queue' = TrySend(queue, {c}, Close("REFUSED"))
  /\ phase' = [phase EXCEPT ![c] = "dropping"]
  /\ UNCHANGED <<req, roomVars, regVars, wr, targets, belief, misled>>

\* The socket ended, failed or sent Close.
Disconnect(c) ==
  /\ phase[c] = "reading"
  /\ phase' = [phase EXCEPT ![c] = "dropping"]
  /\ UNCHANGED <<req, roomVars, regVars, queue, wr, targets, belief, misled>>

\* Mutant of Ejected: the read loop does not watch the channel.
EjectedUnwatched(c) == FALSE

\* The entry's `ejected' sender was dropped with the entry.
Ejected(c) ==
  /\ phase[c] = "reading" /\ c \notin reg
  /\ phase' = [phase EXCEPT ![c] = "dropping"]
  /\ UNCHANGED <<req, roomVars, regVars, queue, wr, targets, belief, misled>>

\* touch, then the locked part of forward: everybody in the room whose id is
\* not the sender's.  (Taking the two locks in one step loses nothing: touch
\* changes only last_seen, which no step between them depends on it for.)
Snapshot(c) ==
  /\ phase[c] = "allowed"
  /\ old' = old \ {c}
  /\ targets' = [targets EXCEPT ![c] = Clients(reg, Room(c)) \ {c}]
  /\ phase' = [phase EXCEPT ![c] = IF targets'[c] = {} THEN "reading" ELSE "forwarding"]
  /\ UNCHANGED <<req, roomVars, reg, buckets, elder, queue, wr, belief, misled>>

Served(c, t) ==
  /\ targets' = [targets EXCEPT ![c] = @ \ {t}]
  /\ phase' = [phase EXCEPT ![c] = IF targets'[c] = {} THEN "reading" ELSE @]

\* forward, outside the lock: wait for a slot in the target's queue ...
Send(c, t) ==
  /\ phase[c] = "forwarding" /\ t \in targets[c] /\ Fits(queue, t)
  /\ queue' = TrySend(queue, {t}, Data(c))
  /\ Served(c, t)
  /\ UNCHANGED <<req, roomVars, regVars, wr, belief, misled>>

\* ... or, after FORWARD_TIMEOUT or when the channel is gone, drop the target.
GiveUp(c, t) ==
  /\ phase[c] = "forwarding" /\ t \in targets[c] /\ ~Fits(queue, t)
  /\ DropPeer(t, queue)
  /\ Served(c, t)
  /\ UNCHANGED <<req, pending, wr, belief>>

DropSelf(c) == phase[c] = "dropping" /\ End(c)

Serving == {"reading", "allowed", "forwarding", "dropping"}

\* The writer task sends the head of the queue.  Nothing can be sent after a
\* Close: the writer then stops and its receiver is dropped.
Write(c) ==
  /\ phase[c] \in Serving /\ wr[c] # "down" /\ queue[c] # <<>>
  /\ LET f == Head(queue[c])
     IN /\ wr' = [wr EXCEPT ![c] = IF @ = "closed" THEN "down"
                                   ELSE IF f.type = "close" THEN "closed" ELSE @]
        /\ queue' = [queue EXCEPT ![c] = IF wr[c] = "closed" THEN <<>> ELSE Tail(@)]
        /\ belief' = IF wr[c] = "up" /\ f.type = "peer"
                     THEN [belief EXCEPT ![c] = f.online] ELSE belief
  /\ UNCHANGED <<req, phase, roomVars, regVars, targets, misled>>

\* Writing to the socket fails.
WriterFails(c) ==
  /\ phase[c] \in Serving /\ wr[c] = "up" /\ queue[c] # <<>>
  /\ wr' = [wr EXCEPT ![c] = "down"]
  /\ queue' = [queue EXCEPT ![c] = <<>>]
  /\ UNCHANGED <<req, phase, roomVars, regVars, targets, belief, misled>>

\* More than stale_after passes without a binary frame of this connection.
Age(c) ==
  /\ c \in reg \ old
  /\ old' = old \cup {c}
  /\ UNCHANGED <<req, phase, roomVars, reg, buckets, elder, queue, wr, targets, belief, misled>>

\* The relay's own steps: none of them waits for a client.
Task(c) ==
  \/ Snapshot(c) \/ Ejected(c) \/ DropSelf(c)
  \/ \E t \in Conns : Send(c, t) \/ GiveUp(c, t)

Handshake(c) ==
  \/ Join(c) \/ Found(c) \/ Reject(c) \/ Release(c)
  \/ AdmitFull(c) \/ AdmitAccept(c) \/ AdmitPanic(c)
  \/ Welcome(c) \/ WelcomeFails(c)

Environment(c) ==
  \/ ReadFrame(c) \/ Refuse(c) \/ Disconnect(c)
  \/ Write(c) \/ WriterFails(c) \/ Age(c)

Next == \E c \in Conns : Handshake(c) \/ Task(c) \/ Environment(c)

Spec == Init /\ [][Next]_vars

\* A task that can go on does: tokio schedules every ready task, and the two
\* waits of a task (forward, drain) are bounded by timeouts.
FairSpec == Spec /\ \A c \in Conns : WF_vars(Task(c)) /\ WF_vars(Welcome(c) \/ WelcomeFails(c))

-----------------------------------------------------------------------------
(* Correctness                                                             *)

\* Every variable has its type.
TypeOK ==
  /\ req \in [Conns -> Requests]
  /\ phase \in [Conns -> Phases]
  /\ founder \in [RoomIds -> Conns \cup {NoConn}]
  /\ pending \in [RoomIds -> Nat]
  /\ perIp \in [Ips -> Nat]
  /\ reg \subseteq Conns /\ buckets \subseteq Conns
  /\ old \subseteq Conns /\ misled \subseteq Conns
  /\ elder \in [Conns -> SUBSET Conns]
  /\ queue \in [Conns -> Seq(Frame)]
  /\ wr \in [Conns -> {"up", "closed", "down"}]
  /\ targets \in [Conns -> SUBSET Conns]
  /\ belief \in [Conns -> BOOLEAN]

\* A room never has more than two clients, and never two of one device,
\* whatever reconnections, evictions and late cleanups overlap.
PairHolds ==
  \A r \in RoomIds :
    /\ Cardinality(Clients(reg, r)) <= PairSize
    /\ \A a, b \in Clients(reg, r) : Dev(a) = Dev(b) => a = b

Reserved(r) == {c \in Conns : phase[c] = "reserved" /\ Room(c) = r}

\* PairRoom::pending counts exactly the reservations that are still out: none
\* is forgotten by a failing handshake, none is given back twice.
PendingExact == \A r \in RoomIds : pending[r] = Cardinality(Reserved(r))

\* A room exists exactly as long as somebody holds it, by a reservation or as
\* a client.  So a reservation always finds its room (the branch of admit that
\* makes the room again is dead code), and no empty room keeps its place.
RoomHeld ==
  \A r \in RoomIds : r \in Live <=> Clients(reg, r) \cup Reserved(r) # {}

\* What a room is counted under, and the places there are.  A limit of 0 is no
\* limit.
Label(q) ==
  {<<"tier", q.tier>>}
    \cup (IF MaxSessionsPerKey > 0 THEN {<<"key", q.key>>} ELSE {})
    \cup (IF q.tier = "public" /\ MaxPublicPerIp > 0 THEN {<<"ip", q.ip>>} ELSE {})
LabelSets == {Label(q) : q \in Requests}
Places ==
  [l \in UNION LabelSets |->
     CASE l[1] = "tier" -> MaxSessions[l[2]]
       [] l[1] = "key" -> MaxSessionsPerKey
       [] l[1] = "ip" -> MaxPublicPerIp]

Lease == INSTANCE SessionLease WITH
  Sessions <- RoomIds, Holders <- Conns,
  LabelSets <- LabelSets, Places <- Places,
  holders <- [r \in RoomIds |-> Clients(reg, r) \cup Reserved(r)],
  labels <- [r \in RoomIds |-> IF r \in Live THEN Label(req[founder[r]]) ELSE {}]

\* The relay's counting (pending, the per-IP table, the rooms that are swept)
\* implements leases: it neither loses a place nor hands one out twice.
LeaseSpec == Lease!Spec

\* public_rooms_per_ip is the number of public rooms that the IP opened.
PerIpExact ==
  \A i \in Ips :
    perIp[i] = Cardinality({r \in RoomsOf("public") : req[founder[r]].ip = i})

\* A connection has a rate bucket exactly while it is registered, except for
\* the bucket that a panicking admission leaves behind.
BucketsMatch == buckets = reg \cup {c \in Conns : phase[c] = "panicked"}

\* What a client believes once the frames s have been sent to it, if it believed
\* b before: what the last peer frame says.
Unannounced(s, i) == \A j \in DOMAIN s : i < j => s[j].type # "peer"
Settles(s, b, online) ==
  \/ Unannounced(s, 0) /\ b = online
  \/ \E i \in DOMAIN s : s[i] = Peer(online) /\ Unannounced(s, i)
Listening(c) == wr[c] = "up" /\ \A i \in DOMAIN queue[c] : queue[c][i].type # "close"

\* Once its queue is drained, a registered client believes its peer online
\* exactly if there is one.  The exception is a client whose welcome was
\* computed before its only peer was found stalled, until the next peer frame.
PresenceSettles ==
  \A c \in reg \ misled : Listening(c) => Settles(queue[c], belief[c], Others(c) # {})

\* The late cleanup of a connection that was replaced or taken out already
\* leaves the registry alone: it never takes its successor offline.
LateCleanupHarmless ==
  [][\A c \in Conns :
       phase[c] = "dropping" /\ phase'[c] = "done" /\ c \notin reg => reg' = reg]_vars

\* A device that is in a room is never turned away from it when it reconnects.
ReconnectNeverFull ==
  [][\A c \in Conns : AdmitFull(c) => Mine(c) = {}]_vars

\* A connection that was taken out of its room comes to an end: it does not go
\* on reading and forwarding while its peer sees it offline.
EjectedEnds ==
  \A c \in Conns : []<>(phase[c] \in Serving \cup {"admitted"} => c \in reg)

\* admit's assertion that the room `reserve' made sure of still exists.
RoomStillThere == \A c \in Conns : phase[c] # "panicked"

\* "Forward only to the peer in the same room, do not send back to the sender."
NoEcho ==
  \A c \in Conns : \A i \in DOMAIN queue[c] :
    queue[c][i].type = "data" => Dev(queue[c][i].from) # Dev(c)

\* "stale_after can only let a new connection of the same deviceId replace it."
StaleYieldsToItself ==
  [][\A c \in Conns : AdmitAccept(c) => \A s \in Stale(c) : Dev(s) = Dev(c)]_vars

=============================================================================
