------------------------------ MODULE Transfer ------------------------------
(***************************************************************************)
(* Attachments from device A to device B, src-tauri/src/core/pair/         *)
(* manager.rs over transfer.rs: offer, decision, chunks, end, check,       *)
(* cancel and retry, over the relay or over the reliable channel of the    *)
(* direct leg.  Nothing in this protocol has a timeout: whoever waits for  *)
(* a frame that was lost waits until his own session ends.                 *)
(*                                                                         *)
(* A transfer is pinned to a leg when it is offered.  The two legs are     *)
(* not ordered with each other, so its chunks and its end must take the    *)
(* same one.  Answers of the user take the pinned leg when it is there,    *)
(* and the relay when it is not or is congested.                           *)
(*                                                                         *)
(* Abstractions.  A file is a number of chunks, an id is the message and   *)
(* the number of the attempt.  A command and the session's reaction to it  *)
(* are one step, except for sending and retrying (`asked').  The pacers    *)
(* only delay.  Full tier.  The disk fails only when a file is finished.   *)
(* A frame whose send failed stays queued and is taken off the wire.       *)
(***************************************************************************)
EXTENDS Naturals, Sequences, FiniteSets, Functions

CONSTANTS
  Msgs,         \* attachment messages
  MaxTries,     \* bound: requests to send, first and repeated ones
  Chunks,       \* chunks of each file, 0 for an empty one
  Big,          \* files that B's user must agree to receive
  Slots,        \* what MAX_ACTIVE_TRANSFERS leaves to this direction on a device

  MaxFaults     \* bound: lost connections and channels, stops, bad files

ASSUME FileAssumption ==
  Chunks \in [Msgs -> Nat] /\ Big \subseteq Msgs
ASSUME CountAssumption ==
  MaxTries \in Nat /\ MaxFaults \in Nat /\ Slots \in [{"A", "B"} -> Nat]

Devices == {"A", "B"}
Legs == {"relay", "direct"}
Ids == Msgs \X (1 .. MaxTries)
Other(d) == IF d = "A" THEN "B" ELSE "A"

VARIABLES
  conn,    \* the session task of each device: off, backoff, live
  channel, \* whether the data channel exists
  leg,     \* what each device thinks of it: closed, verified, dead
  wire,    \* frames on their way to a device over a leg
  queue,   \* SessionState::reliable, what waits for a connection
  asked,   \* StartTransfer commands in A's channel
  tries,   \* attempts made at each message
  phase,   \* SessionState::transfers; "none" when the id is not in the table
  route,   \* TransferSession::route
  sent,    \* OutgoingTransfer::sent_chunks
  got,     \* IncomingTransfer::received_chunks
  reg,     \* PairManager::transfers, message to id
  status,  \* the message's status on each device
  file,    \* attachments.local_path on B is set
  whole,   \* history: messages whose file B has stored whole
  gap,     \* history: ids that B closed because chunks were missing
  calm,    \* history: ids offered with both online, no connection lost since
  faults

tables == <<phase, route, sent, got, reg, status, file>>
history == <<whole, gap, calm>>
links == <<conn, channel, leg>>
vars == <<links, wire, queue, asked, tries, tables, history, faults>>

NoId == <<>>
Msg(t) == t[1]
Frame(type, t, n) == [type |-> type, id |-> t, seq |-> n]
Types == {"offer", "accept", "reject", "chunk", "complete", "verified", "refused", "cancel"}

Init ==
  /\ conn = [d \in Devices |-> "off"]
  /\ channel = FALSE /\ leg = [d \in Devices |-> "closed"]
  /\ wire = [l \in Legs |-> [d \in Devices |-> <<>>]]
  /\ queue = [d \in Devices |-> <<>>]
  /\ asked = <<>> /\ tries = [m \in Msgs |-> 0]
  /\ phase = [d \in Devices |-> [t \in Ids |-> "none"]]
  /\ route = [t \in Ids |-> "relay"]
  /\ sent = [t \in Ids |-> 0] /\ got = [t \in Ids |-> 0]
  /\ reg = [d \in Devices |-> [m \in Msgs |-> NoId]]
  /\ status = [d \in Devices |-> [m \in Msgs |-> "absent"]]
  /\ file = [m \in Msgs |-> FALSE]
  /\ whole = {} /\ gap = {} /\ calm = {}
  /\ faults = 0

-----------------------------------------------------------------------------
(* The tables and the wires                                                *)

Table(d) == {t \in Ids : phase[d][t] # "none"}
Fault == faults < MaxFaults /\ faults' = faults + 1
Prefixes(s) == {SubSeq(s, 1, n) : n \in 0 .. Len(s)}

\* What goes out on a leg.  A data channel that is gone swallows its frames.
Put(l, d, s) ==
  IF l = "direct" /\ ~channel THEN wire
  ELSE [wire EXCEPT ![l][d] = @ \o s]

\* flush without force: a usable leg, or the relay when it is congested.
Legged(d, t) == IF route[t] = "direct" /\ leg[d] = "verified" THEN Legs ELSE {"relay"}

\* An outgoing reply to one frame takes the leg the frame came on.
Took(d, l) == [wire EXCEPT ![l][d] = Tail(@)]
Answer(d, l, s) ==
  IF l = "direct" /\ ~channel THEN Took(d, l)
  ELSE [Took(d, l) EXCEPT ![l][Other(d)] = @ \o s]

\* Mutant of Close: the message is not marked.
CloseQuiet(d, T, result) ==
  LET M == {Msg(t) : t \in T}
      P == {Msg(t) : t \in {u \in T : phase[d][u] = "receiving"}}
  IN /\ phase' = [phase EXCEPT ![d] = [t \in Ids |-> IF t \in T THEN "none" ELSE @[t]]]
     /\ reg' = [reg EXCEPT ![d] = [m \in Msgs |-> IF m \in M THEN NoId ELSE @[m]]]
     /\ status' = IF d = "B" THEN status
          ELSE [status EXCEPT ![d] = [m \in Msgs |-> IF m \in M THEN result ELSE @[m]]]
     /\ file' = [m \in Msgs |-> file[m] /\ ~(d = "B" /\ m \in P)]

\* The sessions T leave d's table: registrations of their messages go, B's
\* half-written files too, and unless all went well the messages are failed.
Close(d, T, result) ==
  LET M == {Msg(t) : t \in T}
      P == {Msg(t) : t \in {u \in T : phase[d][u] = "receiving"}}
  IN /\ phase' = [phase EXCEPT ![d] = [t \in Ids |-> IF t \in T THEN "none" ELSE @[t]]]
     /\ reg' = [reg EXCEPT ![d] = [m \in Msgs |-> IF m \in M THEN NoId ELSE @[m]]]
     /\ status' = [status EXCEPT ![d] = [m \in Msgs |-> IF m \in M THEN result ELSE @[m]]]
     /\ file' = [m \in Msgs |-> file[m] /\ ~(d = "B" /\ m \in P)]

\* close_transfer does nothing when the id is not in the table.
CloseOne(d, t, result) ==
  IF phase[d][t] = "none"
  THEN UNCHANGED <<phase, reg, status, file>>
  ELSE Close(d, {t}, result)

-----------------------------------------------------------------------------
(* A: sending and retrying                                                 *)

Ask(m) ==
  /\ FoldFunction(+, 0, tries) < MaxTries /\ tries[m] < MaxTries
  /\ tries' = [tries EXCEPT ![m] = @ + 1]
  /\ IF conn["A"] = "off"
     THEN UNCHANGED asked
     ELSE asked' = Append(asked, <<m, tries[m] + 1>>)
  /\ UNCHANGED <<links, wire, queue, phase, route, sent, got, reg, file, history, faults>>

\* stage_attachment stores the message; without a session it fails at once.
Send(m) ==
  /\ status["A"][m] = "absent"
  /\ Ask(m)
  /\ status' = [status EXCEPT !["A"][m] = IF conn["A"] = "off" THEN "failed" ELSE "pending"]

\* retry_attachment, offered for a failed message; it does not fail again when
\* there is no session.
Retry(m) ==
  /\ status["A"][m] = "failed"
  /\ Ask(m)
  /\ status' = [status EXCEPT !["A"][m] = "pending"]

\* Mutant of HasPlace: the table has one place more.
HasPlaceLate(d) == Cardinality(Table(d)) <= Slots[d]

HasPlace(d) == Cardinality(Table(d)) < Slots[d]

\* The session takes the request.  A full table is only reported.
StartFull ==
  /\ conn["A"] # "off" /\ asked # <<>>
  /\ ~HasPlace("A")
  /\ asked' = Tail(asked)
  /\ UNCHANGED <<links, wire, queue, tries, tables, history, faults>>

Open(t, l) ==
  /\ phase' = [phase EXCEPT !["A"][t] = "waiting"]
  /\ route' = [route EXCEPT ![t] = l]
  /\ reg' = [reg EXCEPT !["A"][Msg(t)] = t]
  /\ status' = [status EXCEPT !["A"][Msg(t)] = "sent"]
  /\ UNCHANGED <<sent, got, file>>

\* With a connection the offer goes out on the leg the transfer is pinned to.
Start ==
  LET t == Head(asked)
      l == IF leg["A"] = "verified" THEN "direct" ELSE "relay"
  IN /\ conn["A"] = "live" /\ asked # <<>>
     /\ HasPlace("A")
     /\ Open(t, l)
     /\ wire' = Put(l, "B", <<Frame("offer", t, 0)>>)
     /\ asked' = Tail(asked)
     /\ calm' = IF conn["B"] = "live" THEN calm \cup {t} ELSE calm
     /\ UNCHANGED <<links, queue, tries, whole, gap, faults>>

\* In backoff it is queued.
StartQueued ==
  LET t == Head(asked)
  IN /\ conn["A"] = "backoff" /\ asked # <<>>
     /\ HasPlace("A")
     /\ Open(t, "relay")
     /\ queue' = [queue EXCEPT !["A"] = Append(@, Frame("offer", t, 0))]
     /\ asked' = Tail(asked)
     /\ UNCHANGED <<links, wire, tries, history, faults>>

\* Chat messages that fill the queue meanwhile push the offer out: the transfer
\* that its message is registered for is closed.
Squeezed ==
  LET old == Head(queue["A"])
      m == Msg(old.id)
      u == reg["A"][m]
  IN /\ conn["A"] = "backoff" /\ queue["A"] # <<>> /\ Fault
     /\ queue' = [queue EXCEPT !["A"] = Tail(@)]
     /\ IF old.type # "offer" THEN UNCHANGED <<phase, reg, status, file>>
        ELSE IF u # NoId THEN CloseOne("A", u, "failed")
        ELSE /\ status' = [status EXCEPT !["A"][m] = "failed"]
             /\ UNCHANGED <<phase, reg, file>>
     /\ UNCHANGED <<links, wire, asked, tries, route, sent, got, history>>

\* Mutant of SendChunk: the end goes over the relay whatever the chunks do.
SendChunkSplit(t) ==
  LET n == sent[t]
      end == IF n + 1 < Chunks[Msg(t)] THEN <<>> ELSE <<Frame("complete", t, 0)>>
  IN /\ conn["A"] = "live" /\ phase["A"][t] = "sending" /\ n < Chunks[Msg(t)]
     /\ route[t] = "direct" => leg["A"] = "verified" /\ channel
     /\ wire' = [Put(route[t], "B", <<Frame("chunk", t, n)>>) EXCEPT !["relay"]["B"] = @ \o end]
     /\ sent' = [sent EXCEPT ![t] = @ + 1]
     /\ UNCHANGED <<links, queue, asked, tries, phase, route, got, reg, status, file, history, faults>>

\* send_next_chunk, and transfer.complete right behind the last one on the same
\* leg, congested or not.
SendChunk(t) ==
  LET n == sent[t]
      end == IF n + 1 < Chunks[Msg(t)] THEN <<>> ELSE <<Frame("complete", t, 0)>>
  IN /\ conn["A"] = "live" /\ phase["A"][t] = "sending" /\ n < Chunks[Msg(t)]
     /\ route[t] = "direct" => leg["A"] = "verified"
     /\ wire' = Put(route[t], "B", <<Frame("chunk", t, n)>> \o end)
     /\ sent' = [sent EXCEPT ![t] = @ + 1]
     /\ UNCHANGED <<links, queue, asked, tries, phase, route, got, reg, status, file, history, faults>>

-----------------------------------------------------------------------------
(* What A does with B's frames                                             *)

\* The first frame that arrives over the channel proves the leg (Verify).
Reads(d, l) ==
  conn[d] = "live" /\ wire[l][d] # <<>> /\ (l = "direct" => leg[d] # "closed")
Ignore(d, l) == wire' = Took(d, l) /\ UNCHANGED <<tables, history>>

\* TRANSFER_ACCEPT: an empty file has no last chunk that would carry the end.
OnAccept(l) ==
  LET t == Head(wire[l]["A"]).id
  IN IF phase["A"][t] # "waiting" THEN Ignore("A", l)
     ELSE /\ phase' = [phase EXCEPT !["A"][t] = "sending"]
          /\ wire' = Answer("A", l, IF Chunks[Msg(t)] = 0 THEN <<Frame("complete", t, 0)>> ELSE <<>>)
          /\ UNCHANGED <<route, sent, got, reg, status, file, history>>

\* Mutant of Verdict: the flag of TRANSFER_VERIFIED is not read.
VerdictUnread(type) == IF type \in {"verified", "refused"} THEN "delivered" ELSE "failed"

\* TRANSFER_REJECT, TRANSFER_CANCEL, TRANSFER_VERIFIED on A.
Verdict(type) == IF type = "verified" THEN "delivered" ELSE "failed"

OnVerdict(l) ==
  LET f == Head(wire[l]["A"])
  IN /\ CloseOne("A", f.id, Verdict(f.type))
     /\ wire' = Took("A", l)
     /\ UNCHANGED <<route, sent, got, history>>

ReadA(l) ==
  /\ Reads("A", l)
  /\ IF Head(wire[l]["A"]).type = "accept" THEN OnAccept(l) ELSE OnVerdict(l)
  /\ UNCHANGED <<links, queue, asked, tries, faults>>

-----------------------------------------------------------------------------
(* What B does with A's frames                                             *)

\* handle_transfer_offer: the message is pending again, its file is forgotten
\* (upsert_attachment), and unless the user has to be asked B accepts at once.
OnOffer(l) ==
  LET t == Head(wire[l]["B"]).id
      m == Msg(t)
  IN IF phase["B"][t] # "none" THEN Ignore("B", l)
     ELSE IF ~HasPlace("B")
     THEN /\ wire' = Answer("B", l, <<Frame("reject", t, 0)>>)
          /\ UNCHANGED <<tables, history>>
     ELSE /\ phase' = [phase EXCEPT !["B"][t] = IF m \in Big THEN "deciding" ELSE "receiving"]
          /\ reg' = [reg EXCEPT !["B"][m] = t]
          /\ status' = [status EXCEPT !["B"][m] = "pending"]
          /\ file' = [file EXCEPT ![m] = FALSE]
          /\ wire' = Answer("B", l, IF m \in Big THEN <<>> ELSE <<Frame("accept", t, 0)>>)
          /\ UNCHANGED <<route, sent, got, history>>

\* IncomingTransfer::finish counts once more.
Whole(t) == got'[t] = Chunks[Msg(t)]

\* finish_incoming_transfer; the disk or the digest may say no.
Finish(t, l) ==
  \/ /\ phase' = [phase EXCEPT !["B"][t] = "none"]
     /\ reg' = [reg EXCEPT !["B"][Msg(t)] = NoId]
     /\ status' = [status EXCEPT !["B"][Msg(t)] = "received"]
     /\ file' = [file EXCEPT ![Msg(t)] = TRUE]
     /\ whole' = IF Whole(t) THEN whole \cup {Msg(t)} ELSE whole
     /\ wire' = Answer("B", l, <<Frame("verified", t, 0)>>)
     /\ UNCHANGED <<gap, calm, faults>>
  \/ /\ Fault
     /\ Close("B", {t}, "failed")
     /\ wire' = Answer("B", l, <<Frame("refused", t, 0)>>)
     /\ UNCHANGED history

\* write_chunk takes chunks strictly in order.
InTurn(f) == f.seq = got[f.id] /\ f.seq < Chunks[Msg(f.id)]

\* handle_transfer_chunk: a chunk of an unknown transfer, or out of turn, is
\* reported and changes nothing.  The last one finishes the file.
OnChunk(l) ==
  LET f == Head(wire[l]["B"])
      t == f.id
  IN IF ~(phase["B"][t] = "receiving" /\ InTurn(f)) THEN Ignore("B", l) /\ UNCHANGED faults
     ELSE /\ got' = [got EXCEPT ![t] = @ + 1]
          /\ UNCHANGED <<route, sent>>
          /\ IF got[t] + 1 < Chunks[Msg(t)]
             THEN /\ wire' = Took("B", l)
                  /\ UNCHANGED <<phase, reg, status, file, history, faults>>
             ELSE Finish(t, l)

Missing(t) == got[t] < Chunks[Msg(t)]

\* TRANSFER_COMPLETE finds the file finished, empty, or incomplete.
OnComplete(l) ==
  LET t == Head(wire[l]["B"]).id
  IN IF phase["B"][t] # "receiving" THEN Ignore("B", l) /\ UNCHANGED faults
     ELSE /\ UNCHANGED <<route, sent, got>>
          /\ IF Missing(t)
             THEN /\ Close("B", {t}, "failed")
                  /\ wire' = Answer("B", l, <<Frame("refused", t, 0)>>)
                  /\ gap' = gap \cup {t}
                  /\ UNCHANGED <<whole, calm, faults>>
             ELSE Finish(t, l)

OnCancel(l) ==
  /\ CloseOne("B", Head(wire[l]["B"]).id, "failed")
  /\ wire' = Took("B", l)
  /\ UNCHANGED <<route, sent, got, history>>

ReadB(l) ==
  /\ Reads("B", l)
  /\ LET type == Head(wire[l]["B"]).type
     IN \/ type = "offer" /\ OnOffer(l) /\ UNCHANGED faults
        \/ type = "chunk" /\ OnChunk(l)
        \/ type = "complete" /\ OnComplete(l)
        \/ type = "cancel" /\ OnCancel(l) /\ UNCHANGED faults
  /\ UNCHANGED <<links, queue, asked, tries>>

-----------------------------------------------------------------------------
(* The users: accept, reject, cancel                                       *)

\* The command finds the transfer by its message.
Accept(m, l) ==
  LET t == reg["B"][m]
  IN /\ conn["B"] = "live" /\ t # NoId /\ l \in Legged("B", t)
     /\ phase["B"][t] = "deciding"
     /\ phase' = [phase EXCEPT !["B"][t] = "receiving"]
     /\ wire' = Put(l, "A", <<Frame("accept", t, 0)>>)
     /\ UNCHANGED <<links, queue, asked, tries, route, sent, got, reg, status, file, history, faults>>

Decline(d, m, l, from, type) ==
  LET t == reg[d][m]
  IN /\ conn[d] = "live" /\ t # NoId /\ l \in Legged(d, t)
     /\ phase[d][t] = from
     /\ CloseOne(d, t, "failed")
     /\ wire' = Put(l, Other(d), <<Frame(type, t, 0)>>)
     /\ UNCHANGED <<links, queue, asked, tries, route, sent, got, history, faults>>

\* The chat window offers it in these phases (needsDecision, canCancel).
NeedsDecision == "deciding"
CanCancel(d) == IF d = "A" THEN "sending" ELSE "receiving"

Reject(m, l) == Decline("B", m, l, NeedsDecision, "reject")
Cancel(m, l) == \E d \in Devices : Decline(d, m, l, CanCancel(d), "cancel")

-----------------------------------------------------------------------------
(* The direct leg                                                          *)

\* direct_lost: every transfer pinned to the leg is cancelled over the relay
\* and closed.
Orders(T) ==
  {s \in [1 .. Cardinality(T) -> T] : \A i, j \in DOMAIN s : s[i] = s[j] => i = j}

\* Mutant of DirectLost: only this side closes.
DirectLostAlone(d) ==
  LET T == {t \in Table(d) : route[t] = "direct"}
  IN /\ Close(d, T, "failed")
     /\ UNCHANGED <<wire, route, sent, got>>

DirectLost(d) ==
  LET T == {t \in Table(d) : route[t] = "direct"}
  IN /\ Close(d, T, "failed")
     /\ \E order \in Orders(T) :
          wire' = [wire EXCEPT !["relay"][Other(d)] =
                     @ \o [i \in DOMAIN order |-> Frame("cancel", order[i], 0)]]
     /\ UNCHANGED <<route, sent, got>>

OpenChannel ==
  /\ ~channel
  /\ \A d \in Devices : conn[d] = "live" /\ leg[d] = "closed" /\ wire["direct"][d] = <<>>
  /\ channel' = TRUE
  /\ UNCHANGED <<conn, leg, wire, queue, asked, tries, tables, history, faults>>

\* A frame has come over the open channel.
Verify(d) ==
  /\ conn[d] = "live" /\ leg[d] = "closed"
  /\ channel \/ wire["direct"][d] # <<>>
  /\ leg' = [leg EXCEPT ![d] = "verified"]
  /\ UNCHANGED <<conn, channel, wire, queue, asked, tries, tables, history, faults>>

Break ==
  /\ channel /\ Fault
  /\ channel' = FALSE
  /\ \E toA \in Prefixes(wire["direct"]["A"]), toB \in Prefixes(wire["direct"]["B"]) :
       wire' = [wire EXCEPT !["direct"]["A"] = toA, !["direct"]["B"] = toB]
  /\ UNCHANGED <<conn, leg, queue, asked, tries, tables, history>>

\* ChannelClosed comes after the frames that were still received.
LegLost(d) ==
  /\ ~channel /\ leg[d] # "closed" /\ conn[d] = "live"
  /\ wire["direct"][d] = <<>>
  /\ leg' = [leg EXCEPT ![d] = "closed"]
  /\ DirectLost(d)
  /\ UNCHANGED <<conn, channel, queue, asked, tries, history, faults>>

\* The probe gets no answer: the leg is given up although the channel is there
\* and may still deliver.  An offer on it can then arrive behind its cancel.
ProbeTimeout(d) ==
  /\ leg[d] = "verified" /\ channel /\ Fault
  /\ leg' = [leg EXCEPT ![d] = "dead"]
  /\ DirectLost(d)
  /\ calm' = {t \in calm : Frame("offer", t, 0) \notin
                {wire["direct"]["B"][i] : i \in DOMAIN wire["direct"]["B"]}}
  /\ UNCHANGED <<conn, channel, queue, asked, tries, whole, gap>>

-----------------------------------------------------------------------------
(* The sessions                                                            *)

StartSession(d) ==
  /\ conn[d] = "off"
  /\ conn' = [conn EXCEPT ![d] = "backoff"]
  /\ UNCHANGED <<channel, leg, wire, queue, asked, tries, tables, history, faults>>

\* What waited for the connection goes out over the relay.
Connect(d) ==
  /\ conn[d] = "backoff"
  /\ conn' = [conn EXCEPT ![d] = "live"]
  /\ wire' = Put("relay", Other(d), queue[d])
  /\ queue' = [queue EXCEPT ![d] = <<>>]
  /\ UNCHANGED <<channel, leg, asked, tries, tables, history, faults>>

\* The direct leg dies with the session; what d was sending is cut somewhere.
Hangup(d, to, left) ==
  /\ conn' = [conn EXCEPT ![d] = to]
  /\ channel' = FALSE
  /\ leg' = [leg EXCEPT ![d] = "closed"]
  /\ \E direct \in Prefixes(wire["direct"][Other(d)]) :
       wire' = [wire EXCEPT !["relay"][Other(d)] = left,
                            !["direct"][Other(d)] = direct, !["direct"][d] = <<>>]
  /\ calm' = {}

\* The connection breaks: abort_transfers.  The last frame may stay queued
\* because its send failed, unless it was a chunk.
LoseConnection(d) ==
  LET out == wire["relay"][Other(d)]
      last == out[Len(out)]
  IN /\ conn[d] = "live" /\ Fault
     /\ \E left \in Prefixes(out) :
          /\ Hangup(d, "backoff", left)
          /\ \/ UNCHANGED queue
             \/ /\ left # out /\ last.type # "chunk"
                /\ queue' = [queue EXCEPT ![d] = Append(@, last)]
     /\ Close(d, Table(d), "failed")
     /\ UNCHANGED <<asked, tries, route, sent, got, whole, gap>>

\* Disconnect while connected: abort_transfers, and the session is gone with
\* its queue and its commands.
Disconnect(d) ==
  /\ conn[d] = "live" /\ Fault
  /\ \E left \in Prefixes(wire["relay"][Other(d)]) : Hangup(d, "off", left)
  /\ Close(d, Table(d), "failed")
  /\ queue' = [queue EXCEPT ![d] = <<>>]
  /\ asked' = IF d = "A" THEN <<>> ELSE asked
  /\ UNCHANGED <<tries, route, sent, got, whole, gap>>

\* Disconnect, or a fatal failure, in backoff: run_session returns as it is.
GiveUp(d) ==
  /\ conn[d] = "backoff" /\ Fault
  /\ conn' = [conn EXCEPT ![d] = "off"]
  /\ phase' = [phase EXCEPT ![d] = [t \in Ids |-> "none"]]
  /\ queue' = [queue EXCEPT ![d] = <<>>]
  /\ asked' = IF d = "A" THEN <<>> ELSE asked
  /\ UNCHANGED <<channel, leg, wire, tries, route, sent, got, reg, status, file, history>>

\* The relay has nobody to forward to.
Drop(d) ==
  /\ conn[d] # "live" /\ wire["relay"][d] # <<>>
  /\ wire' = Took(d, "relay")
  /\ UNCHANGED <<links, queue, asked, tries, tables, history, faults>>

Read(l) == ReadA(l) \/ ReadB(l)
User ==
  \E m \in Msgs :
    \/ Send(m) \/ Retry(m)
    \/ \E l \in Legs : Accept(m, l) \/ Reject(m, l) \/ Cancel(m, l)
Transfers ==
  StartFull \/ Start \/ StartQueued \/ (\E t \in Ids : SendChunk(t)) \/ \E l \in Legs : Read(l)
Network ==
  \/ OpenChannel \/ Break \/ Squeezed
  \/ \E d \in Devices :
       \/ Verify(d) \/ LegLost(d) \/ ProbeTimeout(d) \/ StartSession(d) \/ Connect(d)
       \/ LoseConnection(d) \/ Disconnect(d) \/ GiveUp(d) \/ Drop(d)

Next == User \/ Transfers \/ Network

Spec == Init /\ [][Next]_vars

\* A live session reads what arrives on either leg, sends the chunks it has to
\* send, and learns that its channel is gone.  Users and the network owe
\* nothing; an open channel is verified by the probe that is sent at once.
FairSpec ==
  /\ Spec
  /\ \A l \in Legs : WF_vars(ReadA(l)) /\ WF_vars(ReadB(l))
  /\ \A t \in Ids : WF_vars(SendChunk(t))
  /\ \A d \in Devices : WF_vars(LegLost(d)) /\ WF_vars(Verify(d))

-----------------------------------------------------------------------------
(* Correctness                                                             *)

TypeOK ==
  /\ conn \in [Devices -> {"off", "backoff", "live"}]
  /\ channel \in BOOLEAN /\ leg \in [Devices -> {"closed", "verified", "dead"}]
  /\ phase \in [Devices -> [Ids -> {"none", "waiting", "sending", "deciding", "receiving"}]]
  /\ route \in [Ids -> Legs]
  /\ sent \in [Ids -> Nat] /\ got \in [Ids -> Nat]
  /\ \A t \in Ids : sent[t] <= Chunks[Msg(t)] /\ got[t] <= sent[t]
  /\ \A d \in Devices : reg[d] \in [Msgs -> Ids \cup {NoId}]
  /\ status["A"] \in [Msgs -> {"absent", "pending", "sent", "delivered", "failed"}]
  /\ status["B"] \in [Msgs -> {"absent", "pending", "received", "failed"}]
  /\ file \in [Msgs -> BOOLEAN]
  /\ \A d \in Devices : Cardinality(Table(d)) <= Slots[d]

\* A shows a file as delivered only when B has stored it whole, whichever
\* attempt it was and whatever was lost (TRANSFER_VERIFIED, close_transfer).
DeliveredIsWhole == \A m \in Msgs : status["A"][m] = "delivered" => m \in whole

\* A message that B shows as received has its file, although several attempts
\* at it may be in B's table and end in any order.
ReceivedHasFile == \A m \in Msgs : status["B"][m] = "received" => file[m]

\* What either side shows as done is done.
StatusIsTrue == DeliveredIsWhole /\ ReceivedHasFile

\* Only a lost connection makes B find chunks missing: a channel that breaks,
\* congestion, cancels and retries do not (the end stays behind the chunks).
GapNeedsLoss == calm \cap gap = {}

\* A frame of t of one of these types is on its way to d.
Coming(d, types, t) ==
  \E l \in Legs : \E i \in DOMAIN wire[l][d] :
    wire[l][d][i].type \in types /\ wire[l][d][i].id = t
Verdicts == {"reject", "verified", "refused", "cancel"}

\* The channel of t is gone, and d has yet to learn it.
CutOff(d, t) == route[t] = "direct" /\ ~channel /\ leg[d] # "closed"

\* A transfer that A keeps waits for B's user, for a lost leg to be noticed, or
\* for a frame that is there or is still to be sent.
SenderGoesOn(t) ==
  phase["A"][t] # "none" =>
    \/ phase["B"][t] = "deciding" \/ CutOff("A", t) \/ Coming("A", Verdicts, t)
    \/ /\ phase["A"][t] = "waiting"
       /\ \/ phase["B"][t] = "none" /\ Coming("B", {"offer"}, t)
          \/ phase["B"][t] = "receiving" /\ Coming("A", {"accept"}, t)
    \/ /\ phase["A"][t] = "sending" /\ phase["B"][t] = "receiving"
       /\ sent[t] < Chunks[Msg(t)] \/ Coming("B", {"complete"}, t)

\* One that only B keeps will be cancelled, or goes with the leg.
ReceiverGoesOn(t) ==
  phase["A"][t] = "none" /\ phase["B"][t] # "none" => CutOff("B", t) \/ Coming("B", {"cancel"}, t)

\* The protocol has no timeout: as long as neither side loses its connection, no
\* frame that somebody waits for is lost, refused or ignored, whatever the
\* channel, its probe, the users and full tables do.
NothingHangs == \A t \in calm : SenderGoesOn(t) /\ ReceiverGoesOn(t)

\* What holds of the transfers offered with both sides online.
CalmHolds == GapNeedsLoss /\ NothingHangs

\* What was offered with both sides online comes to an end on both sides, as
\* long as neither loses its connection: a broken channel, a probe that times
\* out, a full table or a cancel at any point leave nothing hanging.
Settled(t) == phase["A"][t] = "none" /\ phase["B"][t] = "none"
CalmEnds ==
  \A t \in Ids : <>[](t \in calm => Settled(t) \/ phase["B"][t] = "deciding")

\* fail_attachment's comment: a request that did not get through must fail,
\* or it waits for ever and can be neither resent nor retried.
NothingWaitsForEver ==
  \A m \in Msgs : status["A"][m] = "pending" =>
    \E i \in DOMAIN asked : Msg(asked[i]) = m

=============================================================================
