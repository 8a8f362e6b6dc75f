------------------------------ MODULE MCLinks ------------------------------
(* Four modules with something that must happen in the end, checked side by *)
(* side: one of them is chosen and moves, the others stay as they begin.     *)
(* Fairness is stated for the part that moves.  The relay is checked with    *)
(* every step of one full room: data frames that fill the queues, writers    *)
(* that fail, any devices.                                                   *)
EXTENDS Integers, Sequences, FiniteSets, TLC

CONSTANTS
  RoomIds, Devices, Tokens, Keys, Ips, Conns, NoConn, Requests, MaxSessions, MaxSessionsPerKey,
  MaxPublicPerIp, MaxPendingPerRoom, QueueCap,
  N, ResendLimit, QueueLimit, MaxFaults, MaxEpochs,
  Texts, MaxLosses, MaxInbound,
  FramesPerSecond, ChunksPerSecond, FramePrice, ChunkPrice, FrameBytes, ChunkBytes, KeyCap,
  KeyRate, WaitLimit, ForwardTimeout, MaxHeld, MaxTcp, MaxStalls

VARIABLES
  part,
  req, phase, founder, pending, perIp, reg, buckets, old, elder, queue, wr, targets, belief, misled,
  status, rowEpoch, caller, stamp, epoch, renewal, a, chan, reliable, wakes, wraps, toB, toA, b,
  recent, ackQ, received, shown, faults,
  conn, tier, p2p, opened, verified, asked, pipe, dead, events, tight, inbox, waiting, lane, row,
  got, step, relayed, losses,
  tokens, tcp, held, bucket, budget, stage, sleep, left, refused, delayed, stalls

relayVars == <<req, phase, founder, pending, perIp, reg, buckets, old, elder, queue, wr, targets,
               belief, misled>>
chatVars == <<status, rowEpoch, caller, stamp, epoch, renewal, a, chan, reliable, wakes, wraps, toB,
              toA, b, recent, ackQ, received, shown, faults>>
gateVars == <<conn, tier, p2p, opened, verified, asked, pipe, dead, events, tight, inbox, waiting,
              lane, row, got, step, relayed, losses>>
pacingVars == <<tokens, tcp, held, bucket, budget, stage, sleep, left, refused, delayed, stalls>>
vars == <<part, relayVars, chatVars, gateVars, pacingVars>>

Relay == INSTANCE RelayRoomProofs
Chat == INSTANCE ChatDeliveryProofs WITH queue <- reliable
Gate == INSTANCE DirectGate
Pacing == INSTANCE FramePacing

ASSUME Assumptions ==
  /\ IsFiniteSet(Conns) /\ NoConn \notin Conns /\ IsFiniteSet(RoomIds)
  /\ Requests \subseteq Relay!Request
  /\ MaxSessions \in [Relay!Tiers -> Nat] /\ QueueCap \in [Relay!Tiers -> Nat \ {0}]
  /\ {MaxSessionsPerKey, MaxPublicPerIp, MaxFaults, MaxEpochs, N} \subseteq Nat
  /\ {MaxPendingPerRoom, ResendLimit, QueueLimit} \subseteq Nat \ {0}
  /\ Gate!GateAssumption /\ Pacing!PacingAssumption /\ Pacing!HoldAssumption

MCRequests ==
  {[room |-> r, dev |-> d, token |-> t, tier |-> "full", key |-> k, ip |-> i] :
     r \in RoomIds, d \in Devices, t \in Tokens, k \in Keys, i \in Ips}
MCSessions == [full |-> 1, public |-> 0]
MCQueueCap == [full |-> 1, public |-> 1]

\* A part that does not move begins in one state only.
Idle(p, state) == IF part = p THEN TRUE ELSE state

Init ==
  /\ part \in {"relay", "chat", "gate", "pacing"}
  /\ Chat!Init /\ Gate!Init
  /\ Idle("relay", req = [c \in Conns |-> CHOOSE r \in Requests : TRUE]) /\ Relay!Init
  /\ Idle("pacing", budget = 0) /\ Pacing!Init

Moves(p) == part = p /\ UNCHANGED part

NextRelay == Moves("relay") /\ Relay!Next /\ UNCHANGED <<chatVars, gateVars, pacingVars>>
NextChat == Moves("chat") /\ Chat!Next /\ UNCHANGED <<relayVars, gateVars, pacingVars>>
NextGate == Moves("gate") /\ Gate!Next /\ UNCHANGED <<relayVars, chatVars, pacingVars>>
NextPacing == Moves("pacing") /\ Pacing!Next /\ UNCHANGED <<relayVars, chatVars, gateVars>>
Next == NextRelay \/ NextChat \/ NextGate \/ NextPacing

\* The fairness of each module, while it is the one that moves.
Of(p, A) == part = p /\ A

FairRelay ==
  \A c \in Conns :
    /\ WF_relayVars(Of("relay", Relay!Task(c)))
    /\ WF_relayVars(Of("relay", Relay!Welcome(c) \/ Relay!WelcomeFails(c)))

FairChat ==
  /\ WF_chatVars(Of("chat", Chat!SessionA)) /\ WF_chatVars(Of("chat", Chat!ConnectA))
  /\ WF_chatVars(Of("chat", Chat!ConnectB)) /\ WF_chatVars(Of("chat", Chat!Receive))
  /\ \A m \in Chat!Msgs :
       WF_chatVars(Of("chat", Chat!Insert(m) \/ Chat!Enqueue(m) \/ Chat!MarkSent(m)))

FairGate ==
  /\ \A m \in Texts : WF_gateVars(Of("gate", Gate!Thread(m)))
  /\ WF_gateVars(Of("gate", Gate!Reads)) /\ WF_gateVars(Of("gate", Gate!Session))
  /\ WF_gateVars(Of("gate", Gate!Wake))
  /\ \A w \in Gate!Ways :
       WF_gateVars(Of("gate", Gate!Probe(w))) /\ WF_gateVars(Of("gate", Gate!Timeout(w)))
  /\ WF_gateVars(Of("gate", Gate!Receive)) /\ WF_gateVars(Of("gate", Gate!Drain))

FairPacing ==
  WF_pacingVars(Of("pacing", Pacing!Serve)) /\ WF_pacingVars(Of("pacing", Pacing!Tick))

FairSpec ==
  Init /\ [][Next]_vars /\ FairRelay /\ FairChat /\ FairGate /\ FairPacing

\* Type correctness of the four.
TypeOK ==
  Relay!TypeOK /\ Chat!TypeOK /\ Gate!TypeOK /\ Pacing!TypeOK

\* A connection of the relay that was taken out of its room ends (serve's
\* select! on `ejected').
EjectedEnds == Relay!EjectedEnds

\* A stored message arrives once both devices stay online, whatever was lost
\* before (resend_pending_chat).
Arrives == Chat!Arrives

\* The direct leg that is shown as connected has carried something, no frame
\* with data goes to a relay of the public tier (publish_route,
\* take_non_signal), and beside a proven leg no message waits unseen, also after
\* refusals and losses (resend_pending_chat, flush).
LegHolds == Gate!ConnectedHasLeg /\ Gate!NothingOnRelay /\ Gate!SteadyHolds

\* On the public tier no message waits for ever beside a proven direct leg.
Unstranded == Gate!Unstranded

\* The relay closes no connection for its rate that sends as the relay
\* advertises, unless the relay itself had stopped reading (allow).
HonestPasses == Pacing!HonestPasses

\* A frame that waits for the key's budget is read in the end or the
\* connection closed (WaitBudget).
FrameEnds == Pacing!FrameEnds
=============================================================================
