------------------------------ MODULE RelayFront ------------------------------
(***************************************************************************)
(* What a connection passes before it is served (server.rs: handle) and     *)
(* the account of failed handshakes that every address has (relay.rs:       *)
(* handshake_allowed, note_handshake_failure): a table that is refilled     *)
(* when it is looked at and swept when it is large.                        *)
(*                                                                         *)
(* Abstractions.  A tick refills one failure.  Which check a request fails  *)
(* is told apart only by what it leaves behind.  The rooms behind reserve   *)
(* are those of RelayRoom.                                                 *)
(***************************************************************************)
EXTENDS Integers, FiniteSets, Functions

CONSTANTS
  Conns,    \* TCP connections
  Hosts,    \* addresses: of the peer, and of the client behind a proxy
  MaxPre,   \* max_pre_handshake_connections
  PerHost,  \* pre_handshake_per_ip
  MaxConns, \* max_connections
  Limit,    \* handshake_failures_per_minute
  SweepAt   \* HANDSHAKE_FAILURE_TABLE_SWEEP

FrontAssumption == {MaxPre, PerHost, MaxConns, Limit, SweepAt} \subseteq Nat \ {0}

Nobody == "nobody"

VARIABLES
  stage,    \* of each connection: none, head, read, allowed, reserved, served
  peer,     \* its peer's address while its head is read
  client,   \* the address it counts for afterwards
  count,    \* pre_handshake_per_ip
  failures, \* handshake_failures: address -> frames left at the last look, ticks since
  account   \* the same account, kept at every moment

passing == <<stage, peer, client, count>>
vars == <<passing, failures, account>>

Init ==
  /\ stage = [c \in Conns |-> "none"]
  /\ peer = [c \in Conns |-> Nobody] /\ client = [c \in Conns |-> Nobody]
  /\ count = [h \in Hosts |-> 0]
  /\ failures = <<>>
  /\ account = [h \in Hosts |-> Limit]

At(s) == {c \in Conns : stage[c] = s}
Least(x, y) == IF x < y THEN x ELSE y
Most(x, y) == IF x > y THEN x ELSE y

-----------------------------------------------------------------------------
(* The account of failures                                                 *)

\* Bucket::refill.
Refilled(bucket) == [left |-> Least(Limit, bucket.left + bucket.age), age |-> 0]

\* Mutant of Kept: only addresses that are refused are worth remembering.
KeptRefused(bucket) == Refilled(bucket).left < 1

\* The sweep forgets addresses that have been quiet long enough.
Kept(bucket) == Refilled(bucket).left < Limit

Swept(host) ==
  IF host \notin DOMAIN failures /\ Cardinality(DOMAIN failures) >= SweepAt
  THEN LET kept == {h \in DOMAIN failures : Kept(failures[h])}
       IN [h \in kept |-> Refilled(failures[h])]
  ELSE failures

\* Bucket::available.
Available(host) == host \in DOMAIN failures => Refilled(failures[host]).left >= 1

\* handshake_allowed looks, and refills.
Looked(host) ==
  failures' = IF host \in DOMAIN failures
              THEN [failures EXCEPT ![host] = Refilled(@)] ELSE failures

\* Bucket::take and Bucket::floor.
Taken(left) == Most(left - 1, -Limit)

\* note_handshake_failure.
NoteFailure(host) ==
  LET table == Swept(host)
      bucket == IF host \in DOMAIN table THEN Refilled(table[host])
                ELSE [left |-> Limit, age |-> 0]
  IN /\ failures' = [h \in DOMAIN table \cup {host} |->
                      IF h = host THEN [bucket EXCEPT !.left = Taken(@)] ELSE table[h]]
     /\ account' = [account EXCEPT ![host] = Taken(@)]

Unnoted == UNCHANGED <<failures, account>>

-----------------------------------------------------------------------------
(* A connection                                                            *)

Goes(c, from, to) == stage[c] = from /\ stage' = [stage EXCEPT ![c] = to]

Answered(c, from) ==
  /\ Goes(c, from, "none")
  /\ client' = [client EXCEPT ![c] = Nobody] /\ UNCHANGED <<peer, count>>

\* try_pre_handshake_permit; without one the answer is 503 and nothing is kept.
Accept(c) ==
  /\ Cardinality(At("head")) < MaxPre
  /\ \E h \in Hosts :
       /\ count[h] < PerHost
       /\ count' = [count EXCEPT ![h] = @ + 1] /\ peer' = [peer EXCEPT ![c] = h]
  /\ Goes(c, "none", "head")
  /\ UNCHANGED client /\ Unnoted

\* drop(_pre): by hand, or with the task that gives up.
PermitDropped(c) ==
  /\ peer' = [peer EXCEPT ![c] = Nobody]
  /\ count' = [count EXCEPT ![peer[c]] = IF @ > 0 THEN @ - 1 ELSE 0]

HeadRead(c) ==
  /\ Goes(c, "head", "read") /\ PermitDropped(c)
  /\ \E h \in Hosts : client' = [client EXCEPT ![c] = h]
  /\ Unnoted

\* Mutant of HeadTimesOut: only a head that was read gives its permit back.
HeadTimesOutHolding(c) ==
  Goes(c, "head", "none") /\ UNCHANGED <<peer, client, count>> /\ Unnoted

HeadTimesOut(c) ==
  Goes(c, "head", "none") /\ PermitDropped(c) /\ UNCHANGED client /\ Unnoted

\* /health and other paths: before every limit.
Unlimited(c) == Answered(c, "read") /\ Unnoted

\* handshake_allowed.
Allowed(c) ==
  /\ Available(client[c]) /\ Looked(client[c])
  /\ Goes(c, "read", "allowed")
  /\ UNCHANGED <<peer, client, count, account>>

\* 429, which is noted like any other rejection.
Blocked(c) == ~Available(client[c]) /\ Answered(c, "read") /\ NoteFailure(client[c])

\* No websocket, or another version of it: not noted.
NotUpgradable(c) == Answered(c, "allowed") /\ Unnoted

\* Protocol, passwords, tier, room, or what reserve says.
Rejected(c) == Answered(c, "allowed") /\ NoteFailure(client[c])

Reserved(c) == Goes(c, "allowed", "reserved") /\ UNCHANGED <<peer, client, count>> /\ Unnoted

\* The reservation goes back.
BadDevice(c) == Answered(c, "reserved") /\ NoteFailure(client[c])

\* try_connection_permit.
NoPermit(c) ==
  Cardinality(At("served")) >= MaxConns /\ Answered(c, "reserved") /\ Unnoted

Serve(c) ==
  /\ Cardinality(At("served")) < MaxConns
  /\ Goes(c, "reserved", "served") /\ UNCHANGED <<peer, client, count>> /\ Unnoted

Ends(c) == Answered(c, "served") /\ Unnoted

Tick ==
  /\ failures' = [h \in DOMAIN failures |->
                   [failures[h] EXCEPT !.age = Least(@ + 1, 2 * Limit)]]
  /\ account' = [h \in Hosts |-> Least(Limit, account[h] + 1)]
  /\ UNCHANGED passing

Handle(c) ==
  \/ Accept(c) \/ HeadRead(c) \/ HeadTimesOut(c)
  \/ Unlimited(c) \/ Allowed(c) \/ Blocked(c)
  \/ NotUpgradable(c) \/ Rejected(c) \/ Reserved(c)
  \/ BadDevice(c) \/ NoPermit(c) \/ Serve(c) \/ Ends(c)

Next == Tick \/ \E c \in Conns : Handle(c)

Spec == Init /\ [][Next]_vars

-----------------------------------------------------------------------------
(* Correctness                                                             *)

TypeOK ==
  /\ DOMAIN failures \subseteq Hosts
  /\ \A h \in Hosts : count[h] = Cardinality({c \in At("head") : peer[c] = h})
  /\ account \in [Hosts -> -Limit .. Limit]

\* Looking late and sweeping forget nothing that an address owes: it is refused
\* exactly when the account kept at every moment is used up, whatever other
\* addresses do to the table (note_handshake_failure's sweep).
OwedExactly == \A h \in Hosts : Available(h) <=> account[h] >= 1

=============================================================================
