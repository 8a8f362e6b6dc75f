---------------------------- MODULE PairSession ----------------------------
(***************************************************************************)
(* The one session of a PairManager, src-tauri/src/core/pair/manager.rs:   *)
(* commands that start and end it run on the thread pool, several at a     *)
(* time, and share the sender, the waiting snapshot and the generation,    *)
(* each behind a lock of its own.  A session task is a loop of connecting, *)
(* being live and backing off; it is told to end through its channel, or   *)
(* finds that it is out of date.                                           *)
(*                                                                         *)
(* Between two accesses to what is shared anything else may happen, so a   *)
(* command is the list of the accesses it has still to make (`todo').      *)
(*                                                                         *)
(* Abstractions.  One kind of replaceable frame.  The status is left out:  *)
(* nothing here reads it.  Commands to the session other than Disconnect and  *)
(* FlushReplaceable do not touch what is shared.                           *)
(***************************************************************************)
EXTENDS Naturals, Sequences, FiniteSets

CONSTANTS
  Callers,      \* command threads
  MaxSessions,  \* bound: sessions ever started
  MaxGeneration \* bound: how far the generation is counted

SessionAssumption == MaxSessions \in Nat /\ MaxGeneration \in Nat
CallerAssumption == Callers \cap (0 .. MaxSessions) = {}

VARIABLES
  sender,     \* PairManager::sender, the session its channel belongs to, or 0
  generation,
  snapshot,   \* PendingReplaceable::entries is not empty
  queued,     \* PendingReplaceable::queued
  sessions,   \* channels made
  channel,    \* commands in a session's channel
  number,     \* a session's generation
  made,       \* the session a start has made
  held,       \* the sender a command has taken or cloned
  todo        \* the accesses a command or a session has still to make

shared == <<sender, generation, snapshot, queued>>
vars == <<shared, sessions, channel, number, made, held, todo>>

Sessions == 1 .. MaxSessions
Actors == Callers \cup Sessions

\* cancel_current, its four accesses.
Cancel == <<"take", "clear", "outdate", "tell">>

Unborn == <<"unborn">>
Born(s) == s <= sessions
Over(s) == Born(s) /\ todo[s] = <<>>

Init ==
  /\ sender = 0 /\ generation = 0
  /\ snapshot = FALSE /\ queued = FALSE
  /\ sessions = 0
  /\ channel = [s \in Sessions |-> <<>>]
  /\ number = [s \in Sessions |-> 0]
  /\ made = [c \in Callers |-> 0]
  /\ held = [a \in Actors |-> 0]
  /\ todo = [a \in Actors |-> IF a \in Sessions THEN Unborn ELSE <<>>]

\* Bound: whether another cancellation, or another session, may begin.
Doing(step) == {a \in Actors : \E i \in DOMAIN todo[a] : todo[a][i] = step}
Room == generation + 2 * Cardinality(Doing("outdate")) < MaxGeneration
RoomToStart == Room /\ sessions + Cardinality(Doing("install")) < MaxSessions

-----------------------------------------------------------------------------
(* Commands                                                                *)

Begin(a, program) ==
  /\ todo[a] = <<>>
  /\ todo' = [todo EXCEPT ![a] = program]
  /\ UNCHANGED <<shared, sessions, channel, number, made>>

\* pair_connect, pair_manual_offer, pair_manual_join.
Start(c) ==
  /\ RoomToStart
  /\ Begin(c, Cancel \o <<"install", "renew", "spawn">>)
  /\ UNCHANGED held

Disconnect(c) ==
  /\ Room
  /\ Begin(c, Cancel)
  /\ UNCHANGED held

\* send_replaceable takes a copy of the sender first.
SendReplaceable(c) ==
  /\ sender # 0
  /\ Begin(c, <<"insert", "wake">>)
  /\ held' = [held EXCEPT ![c] = sender]

-----------------------------------------------------------------------------
(* The accesses, one after the other                                       *)

At(a, step) == todo[a] # <<>> /\ Head(todo[a]) = step
Done(a, n) == todo' = [todo EXCEPT ![a] = SubSeq(@, n + 1, Len(@))]

TakeSender(a) ==
  /\ At(a, "take") /\ Done(a, 1)
  /\ held' = [held EXCEPT ![a] = sender]
  /\ sender' = 0
  /\ UNCHANGED <<generation, snapshot, queued, sessions, channel, number, made>>

ClearPending(a) ==
  /\ At(a, "clear") /\ Done(a, 1)
  /\ snapshot' = FALSE /\ queued' = FALSE
  /\ UNCHANGED <<sender, generation, sessions, channel, number, made, held>>

Outdate(a) ==
  /\ At(a, "outdate") /\ Done(a, 1)
  /\ generation' = generation + 1
  /\ UNCHANGED <<sender, snapshot, queued, sessions, channel, number, made, held>>

\* A session that is over has dropped its receiver.
Post(s, c) == IF s = 0 \/ Over(s) THEN channel ELSE [channel EXCEPT ![s] = Append(@, c)]

TellSession(a) ==
  /\ At(a, "tell") /\ Done(a, 1)
  /\ channel' = Post(held[a], "disconnect")
  /\ held' = [held EXCEPT ![a] = 0]
  /\ UNCHANGED <<shared, sessions, number, made>>

\* The channel replaces whatever sender is there: another start may have come
\* first, and the channel of its session closes.
Install(c) ==
  /\ At(c, "install") /\ Done(c, 1)
  /\ sessions' = sessions + 1
  /\ sender' = sessions + 1
  /\ held' = [held EXCEPT ![c] = 0]
  /\ made' = [made EXCEPT ![c] = sessions + 1]
  /\ UNCHANGED <<generation, snapshot, queued, channel, number>>

\* Mutant of Renew: the new session takes the generation that is there.
RenewUnbumped(c) ==
  /\ At(c, "renew") /\ Done(c, 1)
  /\ number' = [number EXCEPT ![made[c]] = generation]
  /\ UNCHANGED <<shared, sessions, channel, made, held>>

\* Its generation is a second access: another start may come in between.
Renew(c) ==
  /\ At(c, "renew") /\ Done(c, 1)
  /\ generation' = generation + 1
  /\ number' = [number EXCEPT ![made[c]] = generation + 1]
  /\ UNCHANGED <<sender, snapshot, queued, sessions, channel, made, held>>

Spawn(c) ==
  /\ At(c, "spawn")
  /\ todo' = [todo EXCEPT ![c] = <<>>, ![made[c]] = <<"top">>]
  /\ made' = [made EXCEPT ![c] = 0]
  /\ UNCHANGED <<shared, sessions, channel, number, held>>

\* A snapshot that is waiting already is replaced, without a second wake-up.
InsertSnapshot(c) ==
  /\ At(c, "insert")
  /\ Done(c, IF queued THEN 2 ELSE 1)
  /\ snapshot' = TRUE /\ queued' = TRUE
  /\ held' = [held EXCEPT ![c] = IF queued THEN 0 ELSE @]
  /\ UNCHANGED <<sender, generation, sessions, channel, number, made>>

WakeSession(c) ==
  /\ At(c, "wake") /\ Done(c, 1)
  /\ channel' = Post(held[c], "flush")
  /\ IF Over(held[c]) THEN snapshot' = FALSE /\ queued' = FALSE ELSE UNCHANGED <<snapshot, queued>>
  /\ held' = [held EXCEPT ![c] = 0]
  /\ UNCHANGED <<sender, generation, sessions, number, made>>

-----------------------------------------------------------------------------
(* The session task                                                        *)

Local(s, program) ==
  /\ todo' = [todo EXCEPT ![s] = program]
  /\ UNCHANGED <<shared, sessions, number, made, held>>

\* Over: the receiver is dropped with what is in it.
Ended(s) == Local(s, <<>>) /\ channel' = [channel EXCEPT ![s] = <<>>]

Outdated(s) == number[s] # generation

\* The top of run_session's loop.
LoopTop(s) ==
  /\ At(s, "top")
  /\ IF Outdated(s) THEN Ended(s)
     ELSE Local(s, <<"dial">>) /\ UNCHANGED channel

\* Nobody can interrupt connecting, it has a timeout.
DialOpens(s) ==
  /\ At(s, "dial")
  /\ Local(s, <<"live">>) /\ UNCHANGED channel

\* emit_error has a check of its own; then comes run_session's.
Lost == <<"lost">>
ConnectionLost(s) ==
  /\ At(s, "dial") \/ At(s, "live")
  /\ Local(s, Lost) /\ UNCHANGED channel

\* fail_hard: an out of date session just ends.
FailHard(s) ==
  /\ At(s, "dial") \/ At(s, "live")
  /\ IF Outdated(s) THEN Ended(s)
     ELSE Room /\ Local(s, Cancel) /\ UNCHANGED channel

AfterLoss(s) ==
  /\ At(s, "lost")
  /\ IF Outdated(s) THEN Ended(s)
     ELSE Local(s, <<"wait">>) /\ UNCHANGED channel

BackoffEnds(s) == At(s, "wait") /\ Local(s, <<"top">>) /\ UNCHANGED channel

\* Without a command a receiver yields None once no sender is left.
Closed(s) == sender # s /\ \A a \in Actors : held[a] # s

\* Mutant of Told: a channel without senders is not an end.
ToldByCommand(s) == channel[s] # <<>> /\ Head(channel[s]) = "disconnect"

Told(s) == IF channel[s] = <<>> THEN Closed(s) ELSE Head(channel[s]) = "disconnect"

ToldToEnd(s) ==
  /\ At(s, "live") \/ At(s, "wait")
  /\ Told(s)
  /\ Ended(s)

\* take_pending_replaceable.
Flush(s) ==
  /\ At(s, "live") \/ At(s, "wait")
  /\ channel[s] # <<>> /\ Head(channel[s]) = "flush"
  /\ channel' = [channel EXCEPT ![s] = Tail(@)]
  /\ snapshot' = FALSE /\ queued' = FALSE
  /\ UNCHANGED <<sender, generation, sessions, number, made, held, todo>>

Reads(s) == ToldToEnd(s) \/ Flush(s)
Proceeds(s) == LoopTop(s) \/ DialOpens(s) \/ AfterLoss(s) \/ BackoffEnds(s)
Breaks(s) == ConnectionLost(s) \/ FailHard(s)

Access(a) ==
  \/ TakeSender(a) \/ ClearPending(a) \/ Outdate(a) \/ TellSession(a)
Command(c) ==
  \/ Install(c) \/ Renew(c) \/ Spawn(c)
  \/ InsertSnapshot(c) \/ WakeSession(c)
Call(c) == Start(c) \/ Disconnect(c) \/ SendReplaceable(c)

Next ==
  \/ \E a \in Actors : Access(a)
  \/ \E c \in Callers : Call(c) \/ Command(c)
  \/ \E s \in Sessions : Reads(s) \/ Proceeds(s) \/ Breaks(s)

Spec == Init /\ [][Next]_vars

\* A thread that has begun finishes; a session connects or gives up, and wakes
\* from its backoff.  A command that is there is read although the connection
\* may come and go in between: the channel is ready long before the timers
\* that compete with it.
FairSpec ==
  /\ Spec
  /\ \A a \in Actors : WF_vars(Access(a))
  /\ \A c \in Callers : WF_vars(Command(c))
  /\ \A s \in Sessions : WF_vars(Proceeds(s)) /\ SF_vars(Reads(s))

-----------------------------------------------------------------------------
(* Correctness                                                             *)

TypeOK ==
  /\ sender \in 0 .. sessions /\ generation \in Nat
  /\ number \in [Sessions -> 0 .. generation]
  /\ made \in [Callers -> 0 .. sessions] /\ held \in [Actors -> 0 .. sessions]

\* However starts and disconnections overlap, at most one session is current:
\* two of them would both publish their status (start, generation).
OneCurrent ==
  \A s, t \in Sessions :
    number[s] = generation /\ number[t] = generation /\ generation # 0 => s = t

\* Every session that the manager has let go ends, whichever commands let it
\* go and in whatever order their accesses came: no connection stays behind
\* that nobody can reach (start, cancel_current, fail_hard, run_session).
Abandoned(s) == Born(s) /\ sender # s
AbandonedEnds == \A s \in Sessions : []<>(Abandoned(s) => Over(s))

=============================================================================
