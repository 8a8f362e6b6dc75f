--------------------------- MODULE CloudflarePair ---------------------------
(***************************************************************************)
(* The relay on Cloudflare (server-cloudflare/src/pair.ts): one Durable     *)
(* Object whose handlers run one at a time, and sockets that the runtime    *)
(* closes later than the code does.                                         *)
(*                                                                         *)
(* Abstractions.  Of a frame it matters whether it is refused.  The runtime *)
(* delivers no message of a socket that the object has closed, and what is  *)
(* sent on a socket arrives in order.  A device has one client, which makes *)
(* a new connection only after it has given up the old one; the object may  *)
(* learn of that later.                                                     *)
(***************************************************************************)
EXTENDS Naturals, Sequences, FiniteSets

CONSTANTS
  Ids,        \* device ids
  MaxSockets, \* bound: connections that are not over on both sides
  MaxQuiet,   \* bound: connections that look stale
  MaxWire     \* bound: control frames under way when somebody connects

Nobody == "nobody"

CloudflareAssumption == Nobody \notin Ids /\ {MaxSockets, MaxQuiet, MaxWire} \subseteq Nat

Sockets == 1 .. MaxSockets

PAIR_SIZE == 2

VARIABLES
  ready,    \* readyState of a socket: none, open, closing
  owner,    \* attachment.deviceId
  old,      \* sockets with a lastSeen beyond STALE_AFTER_MS
  wire,     \* control frames under way to the client
  client,   \* the client's end of a socket is open
  online,   \* what that client believes of its peer
  quiet

vars == <<ready, owner, old, wire, client, online, quiet>>

Init ==
  /\ ready = [s \in Sockets |-> "none"]
  /\ owner = [s \in Sockets |-> Nobody]
  /\ old = {}
  /\ wire = [s \in Sockets |-> <<>>]
  /\ client = [s \in Sockets |-> FALSE]
  /\ online = [s \in Sockets |-> FALSE]
  /\  quiet = MaxQuiet

Peer(d, up) == [about |-> d, online |-> up]

\* liveSockets.
LiveSockets == {s \in Sockets : ready[s] = "open"}

\* sendQuietly to each of them.
Sent(w, S, frame) == [s \in Sockets |-> IF s \in S /\ client[s] THEN Append(w[s], frame) ELSE w[s]]

Mine(d) == {s \in LiveSockets : owner[s] = d}

\* fetch: its checks come before anything is closed.
Fetch(s, d) ==
  LET peers == LiveSockets \ Mine(d)
      looksStale == IF Cardinality(peers) >= PAIR_SIZE THEN peers \cap old ELSE {} IN
  /\ owner[s] = Nobody /\ \A t \in 1 .. (s - 1) : owner[t] # Nobody
  /\ \A t \in Sockets : (client[t] => owner[t] # d) /\ Len(wire[t]) <= MaxWire
  /\ \E stale \in {{}} \cup {{p} : p \in looksStale} :
       LET remaining == peers \ stale
           gone == Mine(d) \cup stale IN
       /\ stale = {} => looksStale = {}
       /\ IF Cardinality(remaining) >= PAIR_SIZE
          THEN UNCHANGED <<ready, owner, wire, client, online>>
          ELSE /\ ready' = [t \in Sockets |-> IF t = s THEN "open"
                              ELSE IF t \in gone THEN "closing" ELSE ready[t]]
               /\ owner' = [owner EXCEPT ![s] = d]
               /\ client' = [client EXCEPT ![s] = TRUE]
               /\ online' = [online EXCEPT ![s] = remaining # {}]
               /\ wire' = Sent(wire, remaining, Peer(d, TRUE))
  /\ UNCHANGED <<old, quiet>>

\* webSocketMessage: refused (kind, size, rate), or forwarded.
Refuse(s) ==
  /\ ready[s] = "open" /\ client[s]
  /\ ready' = [ready EXCEPT ![s] = "closing"]
  /\ UNCHANGED <<owner, old, wire, client, online, quiet>>

Forward(s) ==
  /\ ready[s] = "open" /\ client[s]
  /\ s \in old
  /\ old' = old \ {s}
  /\ UNCHANGED <<ready, owner, wire, client, online, quiet>>

\* Mutant of Replaced: the filter by device is missing.
ReplacedNever(s) == FALSE

Replaced(s) == \E t \in LiveSockets \ {s} : owner[t] = owner[s]

\* webSocketClose, webSocketError: when the closing is over, or the client gone.
Closed(s) ==
  /\ ready[s] = "closing" \/ (ready[s] = "open" /\ ~client[s])
  /\ ready' = [ready EXCEPT ![s] = "none"]
  /\ wire' = IF Replaced(s) THEN wire
             ELSE Sent(wire, LiveSockets \ {s}, Peer(owner[s], FALSE))
  /\ old' = old \ {s}
  /\ owner' = IF client[s] THEN owner ELSE [owner EXCEPT ![s] = Nobody]
  /\ UNCHANGED <<client, online, quiet>>

-----------------------------------------------------------------------------
(* Clients and time                                                        *)

\* handle_server_frame: only frames about another device count.
Hear(s) ==
  /\ client[s] /\ wire[s] # <<>>
  /\ wire' = [wire EXCEPT ![s] = Tail(@)]
  /\ online' = [online EXCEPT ![s] = IF Head(wire[s]).about # owner[s]
                                     THEN Head(wire[s]).online ELSE @]
  /\ UNCHANGED <<ready, owner, old, client, quiet>>

\* The client sees the close, or loses the connection.
Leave(s) ==
  /\ client[s]
  /\ client' = [client EXCEPT ![s] = FALSE]
  /\ wire' = [wire EXCEPT ![s] = <<>>] /\ online' = [online EXCEPT ![s] = FALSE]
  /\ owner' = IF ready[s] = "none" THEN [owner EXCEPT ![s] = Nobody] ELSE owner
  /\ UNCHANGED <<ready, old, quiet>>

Age(s) ==
  /\ ready[s] = "open" /\ s \notin old /\ quiet > 0
  /\ old' = old \cup {s} /\ quiet' = quiet - 1
  /\ UNCHANGED <<ready, owner, wire, client, online>>

Handler(s) == Refuse(s) \/ Forward(s) \/ Closed(s)
Next ==
  \E s \in Sockets :
    \/ \E d \in Ids : Fetch(s, d)
    \/ Handler(s) \/ Hear(s) \/ Leave(s) \/ Age(s)

Spec == Init /\ [][Next]_vars

-----------------------------------------------------------------------------
(* Correctness                                                             *)

TypeOK ==
  /\ \A s \in Sockets : ready[s] \in {"none", "open", "closing"}
  /\ old \subseteq Sockets

Settled ==
  \A s \in Sockets :
    /\ ready[s] # "closing" /\ wire[s] = <<>>
    /\ client[s] <=> ready[s] = "open"

\* Reconnections, refusals, stale connections and close events in any order
\* leave each client with the truth about its peer once everything has been
\* delivered (announceOffline).
PresenceAgrees ==
  Settled => \A s \in LiveSockets : online[s] = (\E t \in LiveSockets : owner[t] # owner[s])

=============================================================================
