----------------------------- MODULE PresenceSync -----------------------------
(***************************************************************************)
(* How a device's presence (state, name, model) gets to its peer.  It is    *)
(* sent when it changes and when the store's peerOnline goes from false to  *)
(* true (usePairState.ts), and a device that loses its connection forgets   *)
(* the peer's model (manager.rs, publish).  The relay may learn of a lost   *)
(* connection only when the same device comes back and replaces it.        *)
(*                                                                         *)
(* Abstractions.  One direction: Teller tells Hearer.  The presence is one  *)
(* of two values.  A frame goes through the relay at once or is lost with   *)
(* a connection that is gone; notices and frames arrive in order.          *)
(***************************************************************************)
EXTENDS Naturals, Sequences

CONSTANTS
  Teller, Hearer,
  MaxNews  \* bound: notices, frames under way to a device, and frames queued

PresenceAssumption == Teller # Hearer /\ MaxNews \in Nat

Devices == {Teller, Hearer}
Partner(d) == IF d = Teller THEN Hearer ELSE Teller

Values == {"active", "away"}
Unknown == "unknown"

VARIABLES
  up,       \* devices with a connection
  seated,   \* the relay's view: none, open, ghost (gone, not noticed)
  news,     \* ServerFrame::Peer and presence frames to a device
  sees,     \* store.runtime.peerOnline
  mine,     \* Teller's presence
  outbox,   \* SessionState::reliable
  view,     \* what Hearer knows of it
  replaced  \* Hearer's connection was replaced since Teller last sent

vars == <<up, seated, news, sees, mine, outbox, view, replaced>>

Init ==
  /\ up = {} /\ seated = [d \in Devices |-> "none"]
  /\ news = [d \in Devices |-> <<>>]
  /\ sees = [d \in Devices |-> FALSE]
  /\ mine \in Values /\ outbox = <<>> /\ view = Unknown
  /\ replaced = FALSE

Notice(online) == [kind |-> "peer", online |-> online]
Presence(v) == [kind |-> "presence", value |-> v]

\* broadcast: to the other device's seat.
Told(d, frame) ==
  IF seated[d] = "open" THEN [news EXCEPT ![d] = Append(@, frame)] ELSE news

Small == \A d \in Devices : Len(news[d]) < MaxNews

-----------------------------------------------------------------------------
(* Connections                                                             *)

\* admit and the welcome; a seat that is still taken is replaced, and nobody
\* is told that it was empty in between.
Connect(d) ==
  /\ d \notin up /\ Small
  /\ up' = up \cup {d}
  /\ seated' = [seated EXCEPT ![d] = "open"]
  /\ news' = [Told(Partner(d), Notice(TRUE)) EXCEPT
               ![d] = <<Notice(seated[Partner(d)] # "none")>>]
  /\ replaced' = (replaced \/ (d = Hearer /\ seated[d] = "ghost"))
  /\ UNCHANGED <<sees, mine, outbox, view>>

\* Outcome::Lost, Reconnecting: publish clears the peer's model.
Lose(d) ==
  /\ d \in up
  /\ up' = up \ {d}
  /\ seated' = [seated EXCEPT ![d] = "ghost"]
  /\ news' = [news EXCEPT ![d] = <<>>]
  /\ sees' = [sees EXCEPT ![d] = FALSE]
  /\ view' = IF d = Hearer THEN Unknown ELSE view
  /\ UNCHANGED <<mine, outbox, replaced>>

\* drop_peer.
RelayNotices(d) ==
  /\ seated[d] = "ghost" /\ d \notin up /\ Small
  /\ seated' = [seated EXCEPT ![d] = "none"]
  /\ news' = Told(Partner(d), Notice(FALSE))
  /\ UNCHANGED <<up, sees, mine, outbox, view, replaced>>

-----------------------------------------------------------------------------
(* The stores                                                              *)

\* sendPresence.
SendPresence(v) == outbox' = Append(outbox, v) /\ replaced' = FALSE

\* watch(peerOnline): an edge, not an event.
CameOnline(notice) == notice.online /\ ~sees[Teller]

\* handle_server_frame, publish_peer, usePairStatus.
Hear(d) ==
  LET head == Head(news[d]) IN
  /\ d \in up /\ news[d] # <<>> /\ head.kind = "peer" /\ Len(outbox) < MaxNews
  /\ news' = [news EXCEPT ![d] = Tail(@)]
  /\ sees' = [sees EXCEPT ![d] = head.online]
  /\ view' = IF d = Hearer /\ ~head.online THEN Unknown ELSE view
  /\ IF d = Teller /\ CameOnline(head)
     THEN SendPresence(mine)
     ELSE UNCHANGED <<outbox, replaced>>
  /\ UNCHANGED <<up, seated, mine>>

\* PAIR_PRESENCE.
HearPresence ==
  /\ Hearer \in up /\ news[Hearer] # <<>> /\ Head(news[Hearer]).kind = "presence"
  /\ view' = Head(news[Hearer]).value
  /\ news' = [news EXCEPT ![Hearer] = Tail(@)]
  /\ UNCHANGED <<up, seated, sees, mine, outbox, replaced>>

\* The user, or wake(), changes it.
Change ==
  /\ \E v \in Values \ {mine} : mine' = v
  /\ Len(outbox) < MaxNews
  /\ IF sees[Teller] THEN SendPresence(mine') ELSE UNCHANGED <<outbox, replaced>>
  /\ UNCHANGED <<up, seated, news, sees, view>>

\* flush: what is queued goes out as soon as there is a connection.
Flush ==
  /\ Teller \in up /\ outbox # <<>> /\ Small
  /\ news' = Told(Hearer, Presence(Head(outbox)))
  /\ outbox' = Tail(outbox)
  /\ UNCHANGED <<up, seated, sees, mine, view, replaced>>

Next ==
  \/ \E d \in Devices : Connect(d) \/ Lose(d) \/ RelayNotices(d) \/ Hear(d)
  \/ HearPresence \/ Change \/ Flush

Spec == Init /\ [][Next]_vars

-----------------------------------------------------------------------------
(* Correctness                                                             *)

TypeOK ==
  /\ up \subseteq Devices /\ mine \in Values /\ view \in Values \cup {Unknown}
  /\ \A d \in up : seated[d] = "open"

Quiet == up = Devices /\ outbox = <<>> /\ \A d \in Devices : news[d] = <<>>

\* Once both are connected and nothing is under way, the peer knows the
\* presence as it is now ("edge-triggered", watch(peerOnline)).
PeerKnows == Quiet => view = mine

\* The same, when the relay has noticed every connection that was lost.
PeerKnowsNoticed == Quiet /\ ~replaced => view = mine

=============================================================================
