------------------------------- MODULE PetPulse -------------------------------
(***************************************************************************)
(* Snapshots of the local cat on their way to the peer (usePairState.ts,    *)
(* keepAlive.ts, pages/remote-cat): sent when something has changed, but    *)
(* not more often than the transport allows, and repeated while a button or *)
(* key is held, because the peer's window lets go of what it has not heard  *)
(* of for a while.                                                         *)
(*                                                                         *)
(* Abstractions.  A tick is a twelfth of a second.  A snapshot is whether   *)
(* something is held and where the pointer is; what is held has the shorter *)
(* of the two limits, that of the buttons.  A frame that is accepted arrives *)
(* in order within MaxLatency; on the direct channel the code accepts that  *)
(* frames are lost, which is left out.                                     *)
(***************************************************************************)
EXTENDS Naturals, Sequences, FiniteSetsExt

CONSTANTS
  Intervals,    \* snapshotIntervalMs of the transports, in ticks
  KeepAliveMin, \* KEEP_ALIVE_MIN_MS
  ClickTTL,     \* CLICK_TTL_MS
  MaxLatency,   \* bound: ticks a frame is under way
  MaxFlight     \* bound: frames under way when another is forced

PulseAssumption ==
  /\ Intervals \subseteq Nat /\ \E i \in Intervals : \A j \in Intervals : i >= j
  /\ {KeepAliveMin, ClickTTL, MaxLatency, MaxFlight} \subseteq Nat

Positions == {0, 1}
Snapshots == [held : BOOLEAN, x : Positions]
Cleared == [held |-> FALSE, x |-> 0]
Never == [held |-> FALSE, x |-> 2]
Off == Max(Intervals \cup {KeepAliveMin}) + 1

VARIABLES
  interval, \* of the transport
  local,    \* what the mapper would say
  sent,     \* lastSnapshot
  since,    \* ticks since lastSentAt
  trailing, \* ticks until trailingTimer
  flight,   \* frames under way
  remote,   \* the peer's copy
  heard,    \* ticks since receivedAt
  online, blocked, paused, visible,
  steady    \* ticks in which nothing but time has happened here

world == <<online, blocked, paused, visible>>
vars == <<interval, local, sent, since, trailing, flight, remote, heard, world, steady>>

\* Time enough for what has changed to be sent and to arrive.
Soon == Max(Intervals) + MaxLatency + 1

Init ==
  /\ interval \in Intervals
  /\ local = Cleared /\ sent = Never /\ since = Off /\ trailing = Off
  /\ flight = <<>> /\ remote = Cleared /\ heard = 0
  /\ online = FALSE /\ blocked \in BOOLEAN /\ paused = FALSE /\ visible = TRUE
  /\ steady = 0

CanSendActivity == online /\ ~paused

\* pairSendPetState: refused in Rust while the public tier has no direct leg.
Posted(v) == IF blocked THEN flight ELSE Append(flight, [value |-> v, age |-> 0])

SendNow(v) ==
  /\ sent' = v /\ since' = 0
  /\ flight' = Posted(v)

Trailing == interval - since

\* sendSnapshot.
SendSnapshot(v) ==
  IF ~CanSendActivity \/ sent = v THEN UNCHANGED <<sent, since, trailing, flight>>
  ELSE IF since < interval THEN trailing' = Trailing /\ UNCHANGED <<sent, since, flight>>
  ELSE SendNow(v) /\ UNCHANGED trailing

\* Any input event: a key, a button, the pointer.
Input ==
  \E v \in Snapshots \ {local} :
    /\ local' = v /\ steady' = 0
    /\ SendSnapshot(v)
    /\ UNCHANGED <<interval, remote, heard, world>>

TrailingFires ==
  /\ trailing = 0
  /\ IF ~CanSendActivity \/ sent = local \/ since < interval
     THEN trailing' = (IF CanSendActivity /\ sent # local THEN Trailing ELSE Off)
          /\ UNCHANGED <<sent, since, flight>>
     ELSE SendNow(local) /\ trailing' = Off
  /\ UNCHANGED <<interval, local, remote, heard, world, steady>>

\* Mutant of MinInterval: both waits, one after the other.
MinIntervalSum == KeepAliveMin + interval

MinInterval == IF interval > KeepAliveMin THEN interval ELSE KeepAliveMin

\* shouldSendKeepAlive.
KeepAliveDue ==
  CanSendActivity /\ sent # Never /\ sent.held /\ visible /\ since >= MinInterval

SendKeepAlive ==
  /\ KeepAliveDue
  /\ SendNow(local)
  /\ UNCHANGED <<interval, local, trailing, remote, heard, world, steady>>

-----------------------------------------------------------------------------
(* The peer, the connection and the settings                               *)

Forced == Len(flight) < MaxFlight

\* resetActivity, then what is sent at once.
Reset == local' = Cleared /\ trailing' = Off

PeerChanges ==
  /\ online' = ~online /\ Reset /\ Forced /\ steady' = 0
  /\ IF ~online /\ ~paused
     THEN SendNow(Cleared)
     ELSE sent' = Never /\ since' = Off /\ flight' = <<>>
  /\ UNCHANGED <<interval, remote, heard, blocked, paused, visible>>

\* The direct leg of the public tier goes and comes; syncPeerNow.
Block ==
  /\ ~blocked /\ blocked' = TRUE /\ steady' = 0
  /\ UNCHANGED <<interval, local, sent, since, trailing, flight, remote, heard, online, paused, visible>>

Unblock ==
  /\ blocked /\ blocked' = FALSE /\ Forced /\ steady' = 0
  /\ IF CanSendActivity
     THEN sent' = local /\ since' = 0 /\ flight' = Append(flight, [value |-> local, age |-> 0])
     ELSE UNCHANGED <<sent, since, flight>>
  /\ UNCHANGED <<interval, local, trailing, remote, heard, online, paused, visible>>

\* pauseActivitySync: the peer's cat is put at rest, even without a peer.
Pause ==
  /\ ~paused /\ paused' = TRUE /\ Forced /\ steady' = 0
  /\ flight' = IF online THEN Posted(Cleared) ELSE flight
  /\ UNCHANGED <<interval, local, sent, since, trailing, remote, heard, online, blocked, visible>>

Resume ==
  /\ paused /\ paused' = FALSE /\ Reset /\ Forced /\ steady' = 0
  /\ IF online THEN SendNow(Cleared) ELSE sent' = Never /\ since' = Off /\ UNCHANGED flight
  /\ UNCHANGED <<interval, remote, heard, online, blocked, visible>>

\* A hidden page's timers hardly run.
Visibility ==
  /\ visible' = ~visible /\ steady' = 0
  /\ UNCHANGED <<interval, local, sent, since, trailing, flight, remote, heard, online, blocked, paused>>

\* PAIR_PET_STATE in the peer's window.
Arrive ==
  /\ flight # <<>>
  /\ remote' = Head(flight).value /\ heard' = 0
  /\ flight' = Tail(flight)
  /\ UNCHANGED <<interval, local, sent, since, trailing, world, steady>>

Least(x, y) == IF x < y THEN x ELSE y

Tick ==
  /\ \A i \in DOMAIN flight : flight[i].age < MaxLatency
  /\ visible => ~KeepAliveDue /\ trailing # 0
  /\ since' = Least(since + 1, Off)
  /\ trailing' = IF trailing \in {0, Off} THEN trailing ELSE trailing - 1
  /\ flight' = [i \in DOMAIN flight |-> [flight[i] EXCEPT !.age = @ + 1]]
  /\ heard' = Least(heard + 1, ClickTTL + 1)
  /\ steady' = Least(steady + 1, Soon)
  /\ UNCHANGED <<interval, local, sent, remote, world>>

Next ==
  \/ Input \/ TrailingFires \/ SendKeepAlive \/ Arrive \/ Tick
  \/ PeerChanges \/ Block \/ Unblock \/ Pause \/ Resume \/ Visibility

Spec == Init /\ [][Next]_vars

-----------------------------------------------------------------------------
(* Correctness                                                             *)

TypeOK ==
  /\ local \in Snapshots /\ remote \in Snapshots /\ sent \in Snapshots \cup {Never}
  /\ since \in 0 .. Off /\ trailing \in 0 .. Off

Settled == online /\ ~blocked /\ ~paused /\ visible /\ steady >= Soon

\* What is held here is seen as held there, without a gap, for as long as it is
\* held, and no longer: the repetitions are closer than the peer's limit
\* (KEEP_ALIVE_MIN_MS, CLICK_TTL_MS).
MirrorsHeld == Settled => (remote.held /\ heard <= ClickTTL <=> local.held)

\* The last position arrives, though the last change came too soon after the
\* frame before, or while the gate was closed (trailingTimer, syncPeerNow).
MirrorsPointer == Settled => remote.x = local.x

=============================================================================
