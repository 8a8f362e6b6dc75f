----------------------------- MODULE FramePacing -----------------------------
(***************************************************************************)
(* One client's frames to the relay, against the clock: the client's        *)
(* pacers (manager.rs), TCP, the connection's token bucket, the budget of   *)
(* its key and the two places where the relay stops reading (relay.rs).     *)
(*                                                                         *)
(* Abstractions.  Time goes in half seconds; a frame of the model stands    *)
(* for ten, and fractions of tokens are units.  Bytes count in the key's    *)
(* budget only: a connection's bytes stay below its bucket's.  The other    *)
(* connections of the key take any part of the budget.  What the relay can  *)
(* do at once it does before time goes on, but the network may hold frames  *)
(* back for a while.                                                        *)
(***************************************************************************)
EXTENDS Naturals, Sequences

CONSTANTS
  FramesPerSecond, ChunksPerSecond, \* Limits, in units
  FramePrice, ChunkPrice,           \* units that a frame or a chunk takes
  FrameBytes, ChunkBytes,           \* their sizes
  KeyCap,     \* key_budget, 0 = none
  KeyRate,    \* what of it comes back in a tick
  WaitLimit,  \* KEY_BUDGET_WAIT_LIMIT in ticks
  ForwardTimeout, \* FORWARD_TIMEOUT in ticks
  MaxHeld,    \* bound: ticks the network holds frames back
  MaxTcp,     \* bound: frames under way
  MaxStalls   \* bound: how often the peer's queue is full

Dims == {"frames", "chunks"}
Kinds == {"app", "chunk"}
TicksPerSecond == 2
WaitFloor == 1

PacingAssumption ==
  /\ {FramesPerSecond, ChunksPerSecond, FramePrice, ChunkPrice, FrameBytes, ChunkBytes,
      KeyRate, ForwardTimeout} \subseteq Nat \ {0}
  /\ {KeyCap, WaitLimit, MaxHeld, MaxTcp, MaxStalls} \subseteq Nat

\* Half a second: two thirds of the frames saved up and a third that came back
\* meanwhile are all that the relay takes at once.
HoldAssumption == MaxHeld <= 1

Advertised == [frames |-> FramesPerSecond, chunks |-> ChunksPerSecond]
Price == [frames |-> FramePrice, chunks |-> ChunkPrice]
Bytes == [app |-> FrameBytes, chunk |-> ChunkBytes]

VARIABLES
  tokens,  \* Pacer::tokens, by dimension
  tcp,     \* frames sent and not read
  held,    \* ticks until they can be read
  bucket,  \* Bucket of the connection
  budget,  \* Bucket::bytes of the key
  stage,   \* the read loop: reading, waiting (key budget), forwarding, closed
  sleep,   \* ticks until it goes on
  left,    \* WaitBudget::left
  refused, \* the bucket a frame was refused for
  delayed, \* the relay has stopped reading since the bucket was last full
  stalls

vars == <<tokens, tcp, held, bucket, budget, stage, sleep, left, refused, delayed, stalls>>

Least(x, y) == IF x < y THEN x ELSE y
Ceil(x, y) == (x + y - 1) \div y

\* Mutant of Outbound: what is advertised is used up.
OutboundFull(d) == [rate |-> Advertised[d] \div TicksPerSecond, burst |-> Advertised[d]]

\* RelayLimits::outbound: 2/3 of the frames, 3/4 of the chunks with half of
\* them at once.
Outbound(d) ==
  IF d = "frames"
  THEN [rate |-> (Advertised[d] * 2) \div (3 * TicksPerSecond), burst |-> (Advertised[d] * 2) \div 3]
  ELSE [rate |-> (Advertised[d] * 3) \div (4 * TicksPerSecond), burst |-> Advertised[d] \div 2]

Takes(kind) == IF kind = "chunk" THEN Dims ELSE {"frames"}
Cost(kind, d) == IF d \in Takes(kind) THEN Price[d] ELSE 0

\* Just connected and told the limits (Pacer::retune, Bucket::new).
Init ==
  /\ tokens = [d \in Dims |-> Outbound(d).burst]
  /\ bucket = Advertised
  /\ tcp = <<>> /\ held = 0
  /\ budget \in {0, KeyCap}
  /\ stage = "reading" /\ sleep = 0 /\ left = WaitLimit
  /\ refused = "none" /\ delayed = FALSE /\ stalls = MaxStalls

-----------------------------------------------------------------------------
(* The client                                                              *)

\* acquire, try_acquire_pair: all the tokens or none.
Acquired(kind) == [d \in Dims |-> tokens[d] - Cost(kind, d)]

Send(kind) ==
  /\ stage # "closed" /\ Len(tcp) < MaxTcp
  /\ \A d \in Dims : tokens[d] >= Cost(kind, d)
  /\ tokens' = Acquired(kind)
  /\ tcp' = Append(tcp, kind)
  /\ UNCHANGED <<held, bucket, budget, stage, sleep, left, refused, delayed, stalls>>

-----------------------------------------------------------------------------
(* The relay                                                               *)

\* allow: what to do with the frame at the head.
Fits(kind) == \A d \in Dims : bucket[d] >= Cost(kind, d)
Missing(kind) == IF KeyCap = 0 \/ budget >= Bytes[kind] THEN 0 ELSE Bytes[kind] - budget
Waits(kind) == Ceil(Missing(kind), KeyRate)

Refuse(limit) ==
  /\ stage' = "closed" /\ refused' = limit
  /\ UNCHANGED <<tokens, tcp, held, bucket, budget, sleep, left, delayed, stalls>>

\* Passed on; a full queue of the peer's keeps the loop in forward.
Pass(kind) ==
  /\ bucket' = [d \in Dims |-> bucket[d] - Cost(kind, d)]
  /\ budget' = IF KeyCap = 0 THEN budget ELSE budget - Bytes[kind]
  /\ tcp' = Tail(tcp)
  /\ \/ stage' = "reading" /\ sleep' = 0 /\ UNCHANGED <<delayed, stalls>>
     \/ /\ stalls > 0 /\ stalls' = stalls - 1
        /\ stage' = "forwarding" /\ sleep' \in 1 .. ForwardTimeout /\ delayed' = TRUE
  /\ left' = WaitLimit
  /\ UNCHANGED <<tokens, held, refused>>

\* Mutant of Left: every round has the whole time.
LeftAnew(wait) == WaitLimit

\* WaitBudget::take: one account for all the rounds of a frame.
Left(wait) == left - wait

Wait(wait) ==
  /\ stage' = "waiting" /\ sleep' = wait
  /\ left' = Left(wait)
  /\ delayed' = TRUE
  /\ UNCHANGED <<tokens, tcp, held, bucket, budget, refused, stalls>>

Allow(kind) ==
  LET wait == IF Waits(kind) < WaitFloor THEN WaitFloor ELSE Waits(kind) IN
  IF ~Fits(kind) THEN Refuse("connection")
  ELSE IF Missing(kind) = 0 THEN Pass(kind)
  ELSE IF Bytes[kind] > KeyCap \/ Waits(kind) > WaitLimit \/ wait > left THEN Refuse("key")
  ELSE Wait(wait)

Read == stage = "reading" /\ held = 0 /\ tcp # <<>> /\ Allow(Head(tcp))

Retry == stage = "waiting" /\ sleep = 0 /\ Allow(Head(tcp))

\* The peer's queue has room again, or the peer is dropped.
Forwarded ==
  /\ stage = "forwarding" /\ sleep = 0
  /\ stage' = "reading"
  /\ UNCHANGED <<tokens, tcp, held, bucket, budget, sleep, left, refused, delayed, stalls>>

-----------------------------------------------------------------------------
(* Time and the others                                                     *)

\* Other sessions of the key pass frames.
Others ==
  /\ KeyCap > 0
  /\ \E some \in 1 .. budget : budget' = budget - some
  /\ UNCHANGED <<tokens, tcp, held, bucket, stage, sleep, left, refused, delayed, stalls>>

Hold ==
  /\ stage # "closed" /\ tcp = <<>> /\ held = 0
  /\ held' \in 1 .. MaxHeld
  /\ UNCHANGED <<tokens, tcp, bucket, budget, stage, sleep, left, refused, delayed, stalls>>

Due ==
  \/ stage = "reading" /\ held = 0 /\ tcp # <<>>
  \/ stage \in {"waiting", "forwarding"} /\ sleep = 0

\* Pacer::refill, Bucket::refill.
Tick ==
  /\ ~Due /\ stage # "closed"
  /\ tokens' = [d \in Dims |-> Least(tokens[d] + Outbound(d).rate, Outbound(d).burst)]
  /\ bucket' = [d \in Dims |-> Least(bucket[d] + Advertised[d] \div TicksPerSecond, Advertised[d])]
  /\ budget' = Least(budget + KeyRate, KeyCap)
  /\ held' = IF held > 0 THEN held - 1 ELSE 0
  /\ sleep' = IF sleep > 0 THEN sleep - 1 ELSE 0
  /\ delayed' = (delayed /\ ~(stage = "reading" /\ tcp = <<>> /\ bucket' = Advertised))
  /\ UNCHANGED <<tcp, stage, left, refused, stalls>>

Serve == Read \/ Retry \/ Forwarded
Next == Serve \/ Tick \/ Others \/ Hold \/ \E kind \in Kinds : Send(kind)

Spec == Init /\ [][Next]_vars

\* The loop is scheduled and time goes on.
FairSpec == Spec /\ WF_vars(Serve) /\ WF_vars(Tick)

-----------------------------------------------------------------------------
(* Correctness                                                             *)

TypeOK ==
  /\ \A d \in Dims : tokens[d] \in 0 .. Outbound(d).burst /\ bucket[d] \in 0 .. Advertised[d]
  /\ budget \in 0 .. KeyCap
  /\ tcp \in Seq(Kinds)
  /\ left \in 0 .. WaitLimit

\* A client that keeps to the limits it was told is not cut off for its rate,
\* however the network bunches its frames within MaxHeld, as long as the relay
\* has not stopped reading (RelayLimits::outbound, allow).
HonestPasses == refused = "connection" => delayed

\* What is said of allow: an honest client does not run into that bucket.
NeverCutOff == refused # "connection"

\* A frame does not hang: it is passed on or refused, whatever others of the
\* same key take of the budget meanwhile (WaitBudget).
FrameEnds == []<>(stage # "waiting")

=============================================================================
