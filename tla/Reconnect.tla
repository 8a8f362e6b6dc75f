------------------------------ MODULE Reconnect ------------------------------
(***************************************************************************)
(* One client that keeps its session with a self-hosted relay: the dial,    *)
(* the delays between its attempts (manager.rs, run_session and Backoff),   *)
(* which answers it takes as final (client.rs), and the account of failed   *)
(* handshakes its address has with the relay (relay.rs).                   *)
(*                                                                         *)
(* A tick is 0.8 s, the shortest a delay of one second can be: the jitter   *)
(* makes it 0.8 to 1.2 s, and whoever waits longer only redials later.      *)
(* The account is in fifths of a failure, so that 30 failures a minute are  *)
(* 2 of them a tick.  What the relay answers is free: it may be full, run   *)
(* out of permits, be away or lose the connection at any time.             *)
(***************************************************************************)
EXTENDS Integers, Sequences, FiniteSetsExt

CONSTANTS
  Steps,    \* BACKOFF_STEPS_SECS
  Quota,    \* handshake_failures_per_minute
  Failure,  \* what one failure costs
  Refill,   \* what comes back in a tick
  MaxStarts \* bound: connections the user asks for

ReconnectAssumption ==
  /\ Steps \in Seq(Nat) /\ Steps # <<>>
  /\ {Quota, Failure, MaxStarts} \subseteq Nat \ {0} /\ Refill \in Nat

VARIABLES
  status,  \* off, dialing, live, waiting, error
  attempt, \* attempts since the backoff was reset
  delay,   \* ticks until the next dial
  quota,   \* handshake_failures of the client's address
  starts

vars == <<status, attempt, delay, quota, starts>>

Least(S) == Min(S)

Init == status = "off" /\ attempt = 0 /\ delay = 0 /\ quota = Quota /\ starts = 0

\* Backoff::next_delay.
Delay(n) == Steps[Least({n, Len(Steps) - 1}) + 1]

\* An outcome that ends the attempt but not the session.
Backoff(n) ==
  /\ status' = "waiting" /\ delay' = Delay(n)
  /\ attempt' = Least({n + 1, Len(Steps)})

\* note_handshake_failure.
Noted == quota' = Max({quota - Failure, -Quota})

Final == status' = "error" /\ attempt' = 0 /\ UNCHANGED delay

-----------------------------------------------------------------------------
\* start: a new session has a backoff of its own.
Start ==
  /\ status \in {"off", "error"} /\ starts < MaxStarts
  /\ starts' = starts + 1 /\ status' = "dialing" /\ attempt' = 0 /\ delay' = 0
  /\ UNCHANGED quota

\* The upgrade succeeds: the backoff starts again, before the welcome.
Connected ==
  /\ status = "dialing" /\ status' = "live" /\ attempt' = 0
  /\ UNCHANGED <<delay, quota, starts>>

\* 429 and 503 of reserve: the relay notes a failure, the client tries again.
Refused == status = "dialing" /\ Noted /\ Backoff(attempt) /\ UNCHANGED starts

\* No connection, no answer in time, no permit left: nothing is noted.
Unanswered == status = "dialing" /\ Backoff(attempt) /\ UNCHANGED <<quota, starts>>

\* 400, 401, 403, 409, 426: the relay notes it, the client gives up.  404 and
\* what never leaves the client (an invalid address or id) are not noted.
Rejected ==
  /\ status = "dialing" /\ Final
  /\ Noted \/ UNCHANGED quota
  /\ UNCHANGED starts

\* live ends; 4003 is final.
Lost ==
  /\ status = "live" /\ (Backoff(attempt) \/ Final)
  /\ UNCHANGED <<quota, starts>>

Redial == 
  /\ status = "waiting" /\ delay = 0 /\ status' = "dialing"
  /\ UNCHANGED <<attempt, delay, quota, starts>>

Disconnect ==
  /\ status \in {"dialing", "live", "waiting"} /\ status' = "off"
  /\ attempt' = 0 /\ delay' = 0
  /\ UNCHANGED <<quota, starts>>

Tick ==
  /\ delay > 0 \/ quota < Quota
  /\ delay' = IF delay > 0 THEN delay - 1 ELSE 0
  /\ quota' = Least({quota + Refill, Quota})
  /\ UNCHANGED <<status, attempt, starts>>

Next ==
  \/ Start \/ Connected \/ Refused \/ Unanswered \/ Rejected
  \/ Lost \/ Redial \/ Disconnect \/ Tick

Spec == Init /\ [][Next]_vars

-----------------------------------------------------------------------------
TypeOK ==
  /\ status \in {"off", "dialing", "live", "waiting", "error"}
  /\ attempt \in 0 .. Len(Steps) /\ delay \in 0 .. Max({Steps[i] : i \in DOMAIN Steps})
  /\ quota \in -Quota .. Quota /\ starts \in 0 .. MaxStarts

\* A client that only tries again by itself is never turned away for failing
\* too often, however often the relay takes it, loses it and refuses it
\* (`handle' in server.rs says an honest client never meets that limit): the
\* reset after every success must not let it spend faster than the account
\* is refilled.
OwnRetriesAllowed == status = "dialing" => quota >= Failure

=============================================================================
