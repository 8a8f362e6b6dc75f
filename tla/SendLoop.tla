------------------------------- MODULE SendLoop -------------------------------
(***************************************************************************)
(* How the one task of a session shares its time and the relay's allowance  *)
(* (manager.rs, live): the reliable queue, the replaceable frames and the   *)
(* chunks of an attachment, each with its pacer, between the frames that    *)
(* come in.  Handling an event ends the select and a new one begins with a  *)
(* new sleep for the chunk.                                                *)
(*                                                                         *)
(* Abstractions.  Time goes in ticks, Interval and the prices are in        *)
(* proportion to each other; what is ready is handled before time goes on.  *)
(* One transfer, whose route does not change; the reliable leg is up and    *)
(* may be congested (its ups and downs are DirectGate's).  Chat goes by the *)
(* relay, the coverable leg is not in use.  Frames and their texts are      *)
(* numbers in the order in which they were written.                        *)
(***************************************************************************)
EXTENDS Naturals, SequencesExt

CONSTANTS
  Advertised,   \* frames per second, server.welcome
  MaxHz,        \* MAX_PET_STATE_HZ
  FastInterval, SlowInterval, \* ticks between two snapshots at either rate
  FramePrice, ChunkPrice, DirectPrice, \* of a token, in what a tick brings
  FrameBurst, ChunkBurst, DirectBurst,
  FrameStart, ChunkStart, \* OUTBOUND_BURST, OUTBOUND_CHUNK_BURST
  RetryInterval,  \* DIRECT_RETRY_INTERVAL
  QueueLimit,     \* RELIABLE_QUEUE_LIMIT
  Chunks,         \* of the attachment
  MaxTexts, MaxLosses, MaxTransfers \* bounds

Pacers == {"pacer", "chunk_pacer", "direct_chunk_pacer"}

SendLoopAssumption ==
  /\ {Advertised, MaxHz, FastInterval, SlowInterval, RetryInterval, QueueLimit, Chunks} \subseteq Nat \ {0}
  /\ {MaxTexts, MaxLosses, MaxTransfers} \subseteq Nat
  /\ {FramePrice, ChunkPrice, DirectPrice} \subseteq Nat \ {0}
  /\ {FrameBurst, ChunkBurst, DirectBurst, FrameStart, ChunkStart} \subseteq Nat
  /\ FramePrice <= FrameBurst /\ ChunkPrice <= ChunkBurst /\ DirectPrice <= DirectBurst

Prices == [pacer |-> FramePrice, chunk_pacer |-> ChunkPrice, direct_chunk_pacer |-> DirectPrice]
Bursts == [pacer |-> FrameBurst, chunk_pacer |-> ChunkBurst, direct_chunk_pacer |-> DirectBurst]

VARIABLES
  doing,    \* backoff, select, queue (flush) or cover (flush_replaceable)
  after,    \* flush_replaceable comes after flush
  reliable, \* SessionState::reliable
  mail,     \* texts in the receiver
  asked,    \* FlushReplaceable in the receiver
  fresh,    \* SessionState::replaceable is not empty
  route, writable,
  todo,     \* chunks left to send
  tokens,   \* of the pacers when last refilled
  elapsed,  \* ticks since
  sleep,    \* of the chunk branch; Pending = none
  mine, theirs, \* ticks until the next snapshot may be made here, there
  wrote,    \* texts written
  gone,     \* texts on the wire, in order
  back,     \* texts given back
  losses, transfers

queues == <<reliable, mail, wrote, gone, back>>
pacing == <<tokens, elapsed>>
world == <<mine, theirs, losses>>
vars == <<doing, after, asked, fresh, route, writable, todo, sleep, transfers, queues, pacing, world>>

Least(x, y) == IF x < y THEN x ELSE y
Most(x, y) == IF x < y THEN y ELSE x
Longest == Max({Bursts[p] : p \in Pacers})
Pending == Longest + RetryInterval + 1

\* pet_state_hz: how often a cat's state is sent, here and there.
PetStateHz == IF Advertised >= MaxHz THEN MaxHz ELSE 1
Interval == IF PetStateHz = MaxHz THEN FastInterval ELSE SlowInterval

-----------------------------------------------------------------------------
(* Pacer                                                                   *)

\* refill_now.
Refilled(p) == Least(tokens[p] + elapsed[p], Bursts[p])

\* acquire, try_acquire, try_acquire_pair: all of P or none.
Available(P) == \A p \in P : Refilled(p) >= Prices[p]

\* Paid if there is enough, refilled in any case.
Taken(P) ==
  LET cost(p) == IF Available(P) THEN Prices[p] ELSE 0
  IN  /\ tokens' = [p \in Pacers |-> IF p \in P THEN Refilled(p) - cost(p) ELSE tokens[p]]
      /\ elapsed' = [p \in Pacers |-> IF p \in P THEN 0 ELSE elapsed[p]]

\* wait_duration looks at the tokens as they were when last refilled.
WaitDuration(t, p) == IF t[p] >= Prices[p] THEN 0 ELSE Prices[p] - t[p]

\* A new session's pacers are full by the built-in limits.  retune fills them no
\* further where the relay allows more, and takes away what is too much where it
\* allows less.
Started ==
  LET full == [pacer |-> FrameStart, chunk_pacer |-> ChunkStart, direct_chunk_pacer |-> DirectBurst]
  IN  [p \in Pacers |-> Least(full[p], Bursts[p])]

Retuned == tokens' = Started /\ elapsed' = [p \in Pacers |-> 0]

-----------------------------------------------------------------------------
(* The attachment's branch of the select                                   *)

HasPendingChunks == todo > 0

\* Mutant of ChunkWait: only the allowance for chunks.
ChunkWaitOwn(t, w) ==
  IF route = "relay" THEN WaitDuration(t, "chunk_pacer")
  ELSE WaitDuration(t, "direct_chunk_pacer")

ChunkWait(t, w) ==
  IF route = "relay"
  THEN Most(WaitDuration(t, "pacer"), WaitDuration(t, "chunk_pacer"))
  ELSE LET wait == WaitDuration(t, "direct_chunk_pacer")
       IN  IF wait = 0 /\ w THEN 0 ELSE Most(wait, RetryInterval)

\* The next round of the loop.
Select ==
  /\ doing' = "select" /\ after' = FALSE
  /\ sleep' = IF HasPendingChunks' THEN ChunkWait(tokens', writable') ELSE Pending

Paying == IF route = "relay" THEN {"pacer", "chunk_pacer"} ELSE {"direct_chunk_pacer"}

\* send_next_chunk; a chunk may fill the channel's buffer.
SendNextChunk ==
  /\ doing = "select" /\ sleep = 0
  /\ IF route = "direct" /\ ~writable THEN UNCHANGED <<pacing, todo, writable>>
     ELSE /\ Taken(Paying)
          /\ todo' = IF Available(Paying) THEN todo - 1 ELSE todo
          /\ \/ UNCHANGED writable
             \/ route = "direct" /\ Available(Paying) /\ writable' = FALSE
  /\ Select
  /\ UNCHANGED <<asked, fresh, route, transfers, queues, world>>

\* The buffer falls to its low mark.
Drain ==
  /\ ~writable /\ writable' = TRUE
  /\ UNCHANGED <<doing, after, asked, fresh, route, todo, sleep, transfers, queues, pacing, world>>

-----------------------------------------------------------------------------
(* The queues                                                              *)

\* Mutant of Queued: what does not fit is dropped.
QueuedOrLost(m) ==
  /\ reliable' = IF Len(reliable) < QueueLimit THEN Append(reliable, m) ELSE reliable
  /\ UNCHANGED back

\* SessionState::queue and retry_dropped_chat: the oldest makes room.
Queued(m) ==
  LET full == Len(reliable) >= QueueLimit
  IN  /\ reliable' = Append(IF full THEN Tail(reliable) ELSE reliable, m)
      /\ back' = IF full THEN back \cup {Head(reliable)} ELSE back

\* Command::Send, and in the backoff only that it is queued.
TakeText ==
  /\ doing \in {"select", "backoff"} /\ mail # <<>>
  /\ Queued(Head(mail)) /\ mail' = Tail(mail)
  /\ doing' = IF doing = "select" THEN "queue" ELSE doing
  /\ UNCHANGED <<after, asked, fresh, route, writable, todo, sleep, transfers, wrote, gone, pacing, world>>

\* Command::FlushReplaceable.
TakeReplaceable ==
  /\ doing \in {"select", "backoff"} /\ asked
  /\ asked' = FALSE /\ fresh' = TRUE
  /\ IF doing = "select" THEN doing' = "queue" /\ after' = TRUE ELSE UNCHANGED <<doing, after>>
  /\ UNCHANGED <<route, writable, todo, sleep, transfers, queues, pacing, world>>

\* enqueue_reply: a pong goes out by the relay at once.
Reply == Available({"pacer"}) /\ Taken({"pacer"})

\* handle_binary: presence, the cat's state and the statistics are shown, a
\* signal goes to the leg, a ping is answered.
Inbound ==
  /\ doing = "select" /\ theirs = 0
  /\ UNCHANGED pacing \/ Reply
  /\ UNCHANGED <<todo, writable>>
  /\ Select
  /\ theirs' = Interval
  /\ UNCHANGED <<asked, fresh, route, transfers, queues, mine, losses>>

\* flush: the next frame, once there is a token for it.
Flush ==
  /\ doing = "queue" /\ reliable # <<>> /\ Available({"pacer"})
  /\ Taken({"pacer"})
  /\ gone' = Append(gone, Head(reliable)) /\ reliable' = Tail(reliable)
  /\ UNCHANGED <<doing, after, asked, fresh, route, writable, todo, sleep, transfers, mail, wrote, back, world>>

Flushed ==
  /\ doing = "queue" /\ reliable = <<>>
  /\ UNCHANGED <<writable, todo, pacing>>
  /\ IF after THEN doing' = "cover" /\ UNCHANGED <<after, sleep>> ELSE Select
  /\ UNCHANGED <<asked, fresh, route, transfers, queues, world>>

\* flush_replaceable.
Cover ==
  /\ doing = "cover"
  /\ IF fresh THEN Available({"pacer"}) /\ Taken({"pacer"}) ELSE UNCHANGED pacing
  /\ fresh' = FALSE /\ UNCHANGED <<writable, todo>>
  /\ Select
  /\ UNCHANGED <<asked, route, transfers, queues, world>>

-----------------------------------------------------------------------------
(* The session                                                             *)

Init ==
  /\ doing = "backoff" /\ after = FALSE
  /\ reliable = <<>> /\ mail = <<>> /\ asked = FALSE /\ fresh = FALSE
  /\ route = "relay" /\ writable = TRUE /\ todo = 0 /\ sleep = Pending
  /\ tokens = Started /\ elapsed = [p \in Pacers |-> 0]
  /\ mine = 0 /\ theirs = 0
  /\ wrote = 0 /\ gone = <<>> /\ back = {}
  /\ losses = MaxLosses /\ transfers = MaxTransfers

\* read_welcome has come: what is queued goes out first.
Welcome ==
  /\ doing = "backoff" /\ Retuned
  /\ doing' = "queue" /\ after' = TRUE
  /\ UNCHANGED <<asked, fresh, route, writable, todo, sleep, transfers, queues, world>>

\* A write fails or the relay is gone: what was not sent stays queued, the
\* attachments end (abort_transfers).
Lose ==
  /\ doing # "backoff" /\ losses > 0 /\ losses' = losses - 1
  /\ doing' = "backoff" /\ after' = FALSE /\ sleep' = Pending
  /\ todo' = 0 /\ writable' = TRUE
  /\ UNCHANGED <<asked, fresh, route, transfers, queues, pacing, mine, theirs>>

\* The peer accepts an attachment whose route is fixed.
Accepted ==
  /\ doing = "select" /\ todo = 0 /\ transfers > 0 /\ transfers' = transfers - 1
  /\ route' \in {"relay", "direct"}
  /\ todo' = Chunks /\ doing' = "queue" /\ after' = FALSE
  /\ UNCHANGED <<asked, fresh, writable, sleep, queues, pacing, world>>

\* send_chat.
Write ==
  /\ wrote < MaxTexts /\ wrote' = wrote + 1
  /\ mail' = Append(mail, wrote + 1)
  /\ UNCHANGED <<doing, after, asked, fresh, route, writable, todo, sleep, transfers, reliable, gone, back, pacing, world>>

\* send_replaceable: one FlushReplaceable at a time.
Move ==
  /\ mine = 0 /\ ~asked
  /\ asked' = TRUE /\ mine' = Interval
  /\ UNCHANGED <<doing, after, fresh, route, writable, todo, sleep, transfers, queues, pacing, theirs, losses>>

Ready ==
  \/ doing = "select" /\ (sleep = 0 \/ asked \/ mail # <<>>)
  \/ doing = "backoff" /\ (asked \/ mail # <<>>)
  \/ doing = "queue" /\ (reliable = <<>> \/ Available({"pacer"}))
  \/ doing = "cover" /\ (~fresh \/ Available({"pacer"}))

Before(n) == IF n = 0 THEN 0 ELSE n - 1

Tick ==
  /\ ~Ready
  /\ elapsed' = [p \in Pacers |-> Least(elapsed[p] + 1, Bursts[p] - tokens[p])]
  /\ sleep' = IF doing = "select" /\ sleep # Pending THEN Before(sleep) ELSE sleep
  /\ mine' = Before(mine) /\ theirs' = Before(theirs)
  /\ UNCHANGED <<doing, after, asked, fresh, route, writable, todo, transfers, queues, tokens, losses>>

Loop ==
  \/ SendNextChunk \/ TakeText \/ TakeReplaceable \/ Inbound
  \/ Flush \/ Flushed \/ Cover

Next == Loop \/ Drain \/ Welcome \/ Lose \/ Accepted \/ Write \/ Move \/ Tick

Spec == Init /\ [][Next]_vars

Handles == SendNextChunk \/ TakeText \/ TakeReplaceable \/ Flush \/ Flushed \/ Cover

\* The task runs, the buffer of an open channel empties, time passes.
FairSpec == Spec /\ WF_vars(Handles) /\ WF_vars(Drain) /\ WF_vars(Welcome) /\ WF_vars(Tick)

-----------------------------------------------------------------------------

TypeOK ==
  /\ doing \in {"backoff", "select", "queue", "cover"}
  /\ {after, asked, fresh, writable} \subseteq BOOLEAN
  /\ route \in {"relay", "direct"}
  /\ \A q \in {reliable, mail, gone} : q \in Seq(1 .. MaxTexts)
  /\ Len(reliable) <= QueueLimit
  /\ todo \in 0 .. Chunks /\ sleep \in 0 .. Pending
  /\ DOMAIN tokens = Pacers /\ \A p \in Pacers : tokens[p] + elapsed[p] <= Bursts[p]
  /\ mine \in 0 .. Most(FastInterval, SlowInterval) /\ theirs \in 0 .. Most(FastInterval, SlowInterval)
  /\ wrote \in 0 .. MaxTexts /\ back \subseteq 1 .. MaxTexts
  /\ losses \in 0 .. MaxLosses /\ transfers \in 0 .. MaxTransfers

\* What has been written is in a queue, on the wire or given back for
\* another try, and what goes out keeps its order, whatever is pushed out of
\* a full queue and however often the connection is lost.
TextsAccounted ==
  /\ 1 .. wrote = back \cup ToSet(gone \o reliable \o mail)
  /\ LET line == gone \o reliable \o mail IN \A i \in 2 .. Len(line) : line[i - 1] < line[i]

\* When the sleep for a chunk is over a chunk goes out, unless the direct
\* channel is congested: the select never spins between a wait of zero and a
\* chunk that is not sent.
WakesToSend == [][SendNextChunk => todo' < todo \/ (route = "direct" /\ ~writable)]_vars

\* An attachment that has been accepted goes on to its end while the
\* connection holds, however much the cats move.
ChunksGoOn == []<>(todo = 0)

=============================================================================
