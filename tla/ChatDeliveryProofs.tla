------------------------ MODULE ChatDeliveryProofs ------------------------
(***************************************************************************)
(* Theorems about ChatDelivery for any number of messages, any limits and  *)
(* any number of faults: its types, what can be said of every frame on its *)
(* way, and that the whole of it implements Mailbox.                       *)
(***************************************************************************)
EXTENDS ChatDelivery, SequenceTheorems, FiniteSetTheorems, TLAPS

Statuses == {"absent", "pending", "sent", "delivered", "gone"}

\* The messages that A's store has ever held.
Kept == {m \in Msgs : status[m] # "absent"}

-----------------------------------------------------------------------------
(* The inductive invariant                                                 *)

Types ==
  /\ status \in [Msgs -> Statuses]
  /\ rowEpoch \in [Msgs -> Nat] /\ stamp \in [Msgs -> Nat] /\ epoch \in Nat
  /\ caller \in [Msgs -> Callers] /\ renewal \in {"idle", "carry", "delete"}
  /\ a \in Sessions /\ b \in Sessions
  /\ wakes \in Nat /\ wraps \in [Msgs -> Nat] /\ faults \in Nat

\* Wherever an envelope is, A has stored its message.
SentIsKept ==
  /\ chan \in Seq(Kept \X Nat)
  /\ queue \in Seq(Kept \X Nat)
  /\ toB \in Seq(Kept \X Nat)

\* Wherever an acknowledgement is, B has stored its message.
AckedIsReceived == toA \in Seq(received) /\ ackQ \in Seq(received)

\* B stores only what A has stored, shows each message when it stores it, and
\* A ticks only what B has stored.
BothStores ==
  /\ received \subseteq Kept
  /\ recent \subseteq Envelope
  /\ shown = [m \in Msgs |-> IF m \in received THEN 1 ELSE 0]
  /\ \A m \in Msgs : status[m] = "delivered" => m \in received

\* A send_chat that has not inserted its row has no row.
NotYetWritten == \A m \in Msgs : caller[m] \in {"idle", "stamped"} => status[m] = "absent"

\* A send_chat that has inserted it has one: it is what Enqueue sends.
Written == \A m \in Msgs : caller[m] \in {"stored", "enqueued"} => m \in Kept

Inv ==
  /\ Types /\ SentIsKept /\ AckedIsReceived
  /\ BothStores /\ NotYetWritten /\ Written

\* The invariant says more than TypeOK: a frame's message is kept or received.
LEMMA InvTypes == Inv => TypeOK
<1> SUFFICES ASSUME Inv PROVE TypeOK
  OBVIOUS
<1>1. Kept \X Nat \subseteq Envelope /\ received \subseteq Msgs
  BY DEF Inv, BothStores, Kept, Envelope
<1>2. chan \in Seq(Envelope) /\ queue \in Seq(Envelope) /\ toB \in Seq(Envelope)
  BY <1>1, SeqMonotonic DEF Inv, SentIsKept
<1>3. toA \in Seq(Msgs) /\ ackQ \in Seq(Msgs)
  BY <1>1, SeqMonotonic DEF Inv, AckedIsReceived
<1>4. shown \in [Msgs -> Nat]
  BY DEF Inv, BothStores
<1> QED
  BY <1>1, <1>2, <1>3, <1>4 DEF TypeOK, Inv, Types, BothStores, Statuses

LEMMA InitInv == Init => Inv
<1> SUFFICES ASSUME Init PROVE Inv
  OBVIOUS
<1>1. Types
  BY BoundAssumption DEF Init, Types, Statuses, Callers, Sessions
<1>2. SentIsKept /\ AckedIsReceived
  BY EmptySeq DEF Init, SentIsKept, AckedIsReceived
<1>3. BothStores /\ NotYetWritten /\ Written
  BY DEF Init, BothStores, NotYetWritten, Written, Kept, Envelope
<1> QED
  BY <1>1, <1>2, <1>3 DEF Inv

-----------------------------------------------------------------------------
(* Sequences of frames, and the helpers of the model                       *)

\* What a broken connection leaves of a sequence is a sequence of the same.
LEMMA PrefixIsSeq ==
  ASSUME NEW S, NEW s \in Seq(S), NEW t \in Prefixes(s)
  PROVE  t \in Seq(S)
<1>1. PICK n \in 0 .. Len(s) : t = SubSeq(s, 1, n)
  BY DEF Prefixes
<1>2. Len(s) \in Nat
  BY LenProperties
<1>3. \A i \in 1 .. n : s[i] \in S
  BY <1>2, ElementOfSeq
<1> QED
  BY <1>1, <1>2, <1>3, SubSeqProperties

LEMMA TakeFirst ==
  ASSUME NEW S, NEW s \in Seq(S), s # <<>>
  PROVE  Head(s) \in S /\ Tail(s) \in Seq(S)
BY HeadTailProperties

LEMMA AppendOne ==
  ASSUME NEW S, NEW s \in Seq(S), NEW e \in S
  PROVE  Append(s, e) \in Seq(S)
BY AppendProperties

\* set_status neither makes rows nor makes A forget that it had one.
LEMMA SetStatusKeeps ==
  ASSUME status \in [Msgs -> Statuses], NEW S,
         NEW to \in Statuses \ {"absent"}
  PROVE  /\ SetStatus(S, to) \in [Msgs -> Statuses]
         /\ \A m \in Msgs : SetStatus(S, to)[m] = "absent" <=> status[m] = "absent"
         /\ \A m \in Msgs : SetStatus(S, to)[m] = to \/ SetStatus(S, to)[m] = status[m]
         /\ \A m \in Msgs : SetStatus(S, to)[m] # status[m] => m \in S
BY DEF SetStatus, Rows, Statuses

\* The batch that is sent again is a sequence of messages that A has stored.
LEMMA BatchIsKept ==
  ASSUME Inv, NEW s \in BatchInOrder
  PROVE  [i \in DOMAIN s |-> <<s[i], wraps[s[i]]>>] \in Seq(Kept \X Nat)
<1>1. Batch \subseteq Kept /\ Batch \subseteq Msgs
  BY DEF Batch, Undelivered, Kept
<1>2. IsFiniteSet(Batch)
  <2>1. IsFiniteSet(Msgs)
    BY SizeAssumption, FS_Interval DEF Msgs
  <2> QED
    BY <1>1, <2>1, FS_Subset
<1>3. Cardinality(Batch) \in Nat
  BY <1>2, FS_CardinalityType
<1>4. s \in [1 .. Cardinality(Batch) -> Batch]
  BY DEF BatchInOrder
<1>5. \A i \in 1 .. Cardinality(Batch) : <<s[i], wraps[s[i]]>> \in Kept \X Nat
  BY <1>1, <1>4 DEF Inv, Types
<1>6. [i \in DOMAIN s |-> <<s[i], wraps[s[i]]>>] \in [1 .. Cardinality(Batch) -> Kept \X Nat]
  BY <1>4, <1>5
<1> QED
  BY <1>3, <1>6, SeqDef

-----------------------------------------------------------------------------
(* The steps, by what they may touch                                       *)

\* The commands go on, but none passes Insert: a message without a row stays
\* without one, and one that Enqueue will send has had one before.
CommandsMove ==
  /\ rowEpoch' \in [Msgs -> Nat] /\ stamp' \in [Msgs -> Nat] /\ epoch' \in Nat
  /\ renewal' \in {"idle", "carry", "delete"}
  /\ caller' \in [Msgs -> Callers]
  /\ \A m \in Msgs : caller'[m] \in {"idle", "stamped"} => caller[m] \in {"idle", "stamped"}
  /\ \A m \in Msgs : caller'[m] \in {"stored", "enqueued"} => caller[m] \in {"stored", "enqueued"}

\* The session tasks connect, stop and count.
SessionsMove ==
  /\ a' \in Sessions /\ b' \in Sessions
  /\ wakes' \in Nat /\ wraps' \in [Msgs -> Nat] /\ faults' \in Nat

\* Frames move, are added and are lost, and each is still of a kept message.
FramesMove == chan' \in Seq(Kept \X Nat) /\ queue' \in Seq(Kept \X Nat) /\ toB' \in Seq(Kept \X Nat)
AcksMove == toA' \in Seq(received) /\ ackQ' \in Seq(received)

\* What the steps that leave a part alone know of it.
LEMMA StayingMoves ==
  ASSUME Inv
  PROVE  /\ UNCHANGED <<rowEpoch, commands>> => CommandsMove
         /\ UNCHANGED <<a, b, wakes, wraps, faults>> => SessionsMove
         /\ UNCHANGED <<chan, queue, toB>> => FramesMove
         /\ UNCHANGED <<toA, ackQ>> => AcksMove
<1>1. UNCHANGED <<rowEpoch, commands>> => CommandsMove
  BY DEF Inv, Types, commands, CommandsMove
<1>2. UNCHANGED <<a, b, wakes, wraps, faults>> => SessionsMove
  BY DEF Inv, Types, SessionsMove
<1>3. UNCHANGED <<chan, queue, toB>> => FramesMove
  BY DEF Inv, SentIsKept, FramesMove
<1>4. UNCHANGED <<toA, ackQ>> => AcksMove
  BY DEF Inv, AckedIsReceived, AcksMove
<1> QED
  BY <1>1, <1>2, <1>3, <1>4

\* Steps that give no row and no message to either store.
LEMMA MovesKeepInv ==
  ASSUME Inv, CommandsMove, SessionsMove, FramesMove, AcksMove,
         UNCHANGED <<received, shown>>, recent' \subseteq Envelope,
         status' \in [Msgs -> Statuses],
         \A m \in Msgs : status'[m] = "absent" <=> status[m] = "absent",
         \A m \in Msgs : status'[m] = "delivered" => m \in received
  PROVE  Inv'
<1>1. Types'
  BY DEF CommandsMove, SessionsMove, Types
<1>2. Kept' = Kept
  BY DEF Kept
<1>3. SentIsKept' /\ AckedIsReceived'
  <2>1. Seq(Kept \X Nat)' = Seq(Kept \X Nat) /\ Seq(received)' = Seq(received)
    BY <1>2
  <2> QED
    BY <1>2, <2>1 DEF FramesMove, AcksMove, SentIsKept, AckedIsReceived
<1>4. BothStores'
  BY <1>2 DEF Inv, BothStores
<1>5. NotYetWritten' /\ Written'
  BY <1>2 DEF CommandsMove, Inv, NotYetWritten, Written
<1> QED
  BY <1>1, <1>3, <1>4, <1>5 DEF Inv

\* ... and those that leave the statuses alone as well.
LEMMA QuietMovesKeepInv ==
  ASSUME Inv, CommandsMove, SessionsMove, FramesMove, AcksMove,
         UNCHANGED <<status, received, shown>>, recent' \subseteq Envelope
  PROVE  Inv'
<1>1. /\ status' \in [Msgs -> Statuses]
      /\ \A m \in Msgs : status'[m] = "absent" <=> status[m] = "absent"
      /\ \A m \in Msgs : status'[m] = "delivered" => m \in received
  BY DEF Inv, Types, BothStores
<1> QED
  BY <1>1, MovesKeepInv

\* ... and those that give some rows another status: "delivered" only to a
\* message that B has.
LEMMA StatusMovesKeepInv ==
  ASSUME Inv, CommandsMove, SessionsMove, FramesMove, AcksMove,
         UNCHANGED <<received, shown>>, recent' \subseteq Envelope,
         NEW S, NEW to \in Statuses \ {"absent"}, status' = SetStatus(S, to),
         to = "delivered" => S \subseteq received
  PROVE  Inv'
<1>1. status' \in [Msgs -> Statuses] /\ \A m \in Msgs : status'[m] = "absent" <=> status[m] = "absent"
  BY SetStatusKeeps DEF Inv, Types
<1>2. \A m \in Msgs : status'[m] = "delivered" => m \in received
  BY SetStatusKeeps DEF Inv, Types, BothStores
<1> QED
  BY <1>1, <1>2, MovesKeepInv

-----------------------------------------------------------------------------
(* One lemma for each device and for the commands                          *)

\* The first frame is one of a kept message, the first acknowledgement one of
\* a received message.
LEMMA FirstFrames ==
  ASSUME Inv
  PROVE  /\ chan # <<>> => Head(chan) \in Kept \X Nat /\ Tail(chan) \in Seq(Kept \X Nat)
         /\ queue # <<>> => Head(queue) \in Kept \X Nat /\ Tail(queue) \in Seq(Kept \X Nat)
         /\ toB # <<>> => Head(toB) \in Kept \X Nat /\ Tail(toB) \in Seq(Kept \X Nat)
         /\ toA # <<>> => Head(toA) \in received /\ Tail(toA) \in Seq(received)
BY TakeFirst DEF Inv, SentIsKept, AckedIsReceived

\* Sending again adds frames of kept messages and marks them as sent.
LEMMA ResendMoves ==
  ASSUME Inv, Resend, CommandsMove, UNCHANGED <<queue, wires, sessionB, faults>>,
         a' \in Sessions, wakes' \in Nat
  PROVE  Inv'
<1>0. UNCHANGED <<toB, toA, b, recent, ackQ, received, shown>>
  BY DEF wires, sessionB
<1>1. chan' \in Seq(Kept \X Nat)
  <2>1. PICK s \in BatchInOrder : chan' = chan \o [i \in DOMAIN s |-> <<s[i], wraps[s[i]]>>]
    BY DEF Resend
  <2>2. [i \in DOMAIN s |-> <<s[i], wraps[s[i]]>>] \in Seq(Kept \X Nat)
    BY BatchIsKept
  <2> QED
    BY <2>1, <2>2, ConcatProperties DEF Inv, SentIsKept
<1>2. FramesMove /\ AcksMove
  BY <1>0, <1>1 DEF Inv, SentIsKept, AckedIsReceived, FramesMove, AcksMove
<1>3. SessionsMove
  <2>1. wraps' \in [Msgs -> Nat]
    BY DEF Resend, Inv, Types
  <2> QED
    BY <1>0, <2>1 DEF Inv, Types, SessionsMove
<1>4. status' = SetStatus(Batch, "sent") /\ "sent" \in Statuses \ {"absent"}
  BY DEF Resend, Statuses
<1>5. recent' \subseteq Envelope /\ UNCHANGED <<received, shown>>
  BY <1>0 DEF Inv, BothStores
<1> QED
  BY <1>2, <1>3, <1>4, <1>5, StatusMovesKeepInv

LEMMA DeviceAKeepsInv == Inv /\ DeviceA => Inv'
<1> SUFFICES ASSUME Inv, DeviceA PROVE Inv'
  OBVIOUS
<1> USE StayingMoves, FirstFrames
<1>a. recent \subseteq Envelope /\ wakes \in Nat /\ faults \in Nat /\ wraps \in [Msgs -> Nat]
  BY DEF Inv, Types, BothStores
<1>b. chan \in Seq(Kept \X Nat) /\ queue \in Seq(Kept \X Nat) /\ toB \in Seq(Kept \X Nat)
  BY DEF Inv, SentIsKept
<1>1. CASE StartA
  <2>1. a' \in Sessions /\ UNCHANGED <<store, commands, chan, queue, wakes, wraps, wires, sessionB, faults>>
    BY <1>1 DEF StartA, Sessions
  <2>2. CommandsMove /\ FramesMove /\ AcksMove
    BY <2>1 DEF store, sessionB, wires
  <2>3. SessionsMove
    BY <1>a, <2>1 DEF SessionsMove, Inv, Types, sessionB
  <2> QED
    BY <1>a, <2>1, <2>2, <2>3, QuietMovesKeepInv DEF store, sessionB
<1>2. CASE ConnectA
  <2>1. /\ a' \in Sessions
        /\ UNCHANGED <<rowEpoch, commands, queue, wakes, wires, sessionB, faults>>
        /\ Resend \/ UNCHANGED <<chan, wraps, status>>
    BY <1>2 DEF ConnectA, Sessions
  <2>2. CommandsMove
    BY <2>1
  <2>3. CASE Resend
    BY <1>a, <2>1, <2>2, <2>3, ResendMoves
  <2>4. CASE UNCHANGED <<chan, wraps, status>>
    <3>1. FramesMove /\ AcksMove
      BY <2>1, <2>4 DEF sessionB, wires
    <3>2. SessionsMove
      BY <1>a, <2>1, <2>4 DEF SessionsMove, Inv, Types, sessionB
    <3> QED
      BY <1>a, <2>1, <2>2, <2>4, <3>1, <3>2, QuietMovesKeepInv DEF sessionB
  <2> QED
    BY <2>1, <2>3, <2>4
<1>3. CASE TakeCommand
  <2>1. /\ chan # <<>> /\ queue' = <<Head(chan)>> /\ chan' = Tail(chan)
        /\ UNCHANGED <<store, commands, a, wakes, wraps, wires, sessionB, faults>>
    BY <1>3 DEF TakeCommand
  <2>2. CommandsMove /\ AcksMove /\ SessionsMove
    BY <2>1 DEF store, sessionB, wires
  <2>3. FramesMove
    BY <1>b, <2>1 DEF FramesMove, wires
  <2> QED
    BY <1>a, <2>1, <2>2, <2>3, QuietMovesKeepInv DEF store, sessionB
<1>4. CASE QueueCommand
  <2>1. /\ chan # <<>> /\ chan' = Tail(chan)
        /\ UNCHANGED <<rowEpoch, commands, a, wakes, wraps, wires, sessionB, faults>>
    BY <1>4 DEF QueueCommand
  <2>2. CommandsMove /\ AcksMove /\ SessionsMove
    BY <2>1 DEF sessionB, wires
  <2>3. CASE Len(queue) < QueueLimit
    <3>1. queue' = Append(queue, Head(chan)) /\ UNCHANGED status
      BY <1>4, <2>3 DEF QueueCommand
    <3>2. FramesMove
      BY <1>b, <2>1, <3>1, AppendOne DEF FramesMove, wires
    <3> QED
      BY <1>a, <2>1, <2>2, <3>1, <3>2, QuietMovesKeepInv DEF sessionB
  <2>4. CASE ~(Len(queue) < QueueLimit)
    <3>1. /\ queue' = Append(Tail(queue), Head(chan))
          /\ status' = SetStatus({Head(queue)[1]}, "pending")
      BY <1>4, <2>4 DEF QueueCommand
    <3>2. queue # <<>>
      BY <2>4, LimitAssumption
    <3>3. FramesMove
      BY <1>b, <2>1, <3>1, <3>2, AppendOne DEF FramesMove, wires
    <3>4. "pending" \in Statuses \ {"absent"}
      BY DEF Statuses
    <3> QED
      BY <1>a, <2>1, <2>2, <3>1, <3>3, <3>4, StatusMovesKeepInv DEF sessionB
  <2> QED
    BY <2>3, <2>4
<1>5. CASE Flush
  <2>1. /\ queue # <<>> /\ toB' = Append(toB, Head(queue)) /\ queue' = Tail(queue)
        /\ UNCHANGED <<store, commands, a, chan, wakes, wraps, toA, sessionB, faults>>
    BY <1>5 DEF Flush
  <2>2. CommandsMove /\ AcksMove /\ SessionsMove
    BY <2>1 DEF store, sessionB
  <2>3. FramesMove
    BY <1>b, <2>1, AppendOne DEF FramesMove
  <2> QED
    BY <1>a, <2>1, <2>2, <2>3, QuietMovesKeepInv DEF store, sessionB
<1>6. CASE FlushFails
  <2>1. /\ queue # <<>> /\ toB' \in Prefixes(Append(toB, Head(queue)))
        /\ a' \in Sessions /\ wakes' = 0 /\ faults' = faults + 1
        /\ UNCHANGED <<store, commands, chan, queue, wraps, toA, sessionB>>
    BY <1>6 DEF FlushFails, Fault, Sessions
  <2>2. CommandsMove /\ AcksMove
    BY <2>1 DEF store, sessionB
  <2>3. SessionsMove
    BY <1>a, <2>1 DEF SessionsMove, Inv, Types, sessionB
  <2>4. FramesMove
    BY <1>b, <2>1, AppendOne, PrefixIsSeq DEF FramesMove
  <2> QED
    BY <1>a, <2>1, <2>2, <2>3, <2>4, QuietMovesKeepInv DEF store, sessionB
<1>7. CASE PeerOnline
  <2>1. /\ wakes' \in Nat /\ a' \in Sessions /\ Resend
        /\ UNCHANGED <<rowEpoch, commands, queue, wires, sessionB, faults>>
    BY <1>7, <1>a DEF PeerOnline, Inv, Types
  <2> QED
    BY <2>1, ResendMoves
<1>8. CASE HandleAck
  <2>1. /\ toA # <<>> /\ toA' = Tail(toA)
        /\ status' = SetStatus({Head(toA)}, "delivered")
        /\ UNCHANGED <<rowEpoch, commands, sessionA, toB, sessionB, faults>>
    BY <1>8 DEF HandleAck
  <2>2. CommandsMove /\ FramesMove /\ SessionsMove
    BY <2>1 DEF sessionA, sessionB
  <2>3. AcksMove
    BY <2>1 DEF AcksMove, Inv, AckedIsReceived, sessionB
  <2>4. "delivered" \in Statuses \ {"absent"} /\ {Head(toA)} \subseteq received
    BY <2>1 DEF Statuses
  <2> QED
    BY <1>a, <2>1, <2>2, <2>3, <2>4, StatusMovesKeepInv DEF sessionB
<1>9. CASE LoseA
  <2>1. /\ toB' \in Prefixes(toB) /\ a' \in Sessions /\ wakes' = 0 /\ faults' = faults + 1
        /\ UNCHANGED <<store, commands, chan, queue, wraps, toA, sessionB>>
    BY <1>9 DEF LoseA, Fault, Sessions
  <2>2. CommandsMove /\ AcksMove
    BY <2>1 DEF store, sessionB
  <2>3. SessionsMove
    BY <1>a, <2>1 DEF SessionsMove, Inv, Types, sessionB
  <2>4. FramesMove
    BY <1>b, <2>1, PrefixIsSeq DEF FramesMove
  <2> QED
    BY <1>a, <2>1, <2>2, <2>3, <2>4, QuietMovesKeepInv DEF store, sessionB
<1>10. ASSUME NEW crash \in BOOLEAN, StopA(crash)
       PROVE  Inv'
  <2>1. /\ toB' \in Prefixes(toB) /\ a' \in Sessions /\ wakes' = 0 /\ faults' = faults + 1
        /\ chan' = <<>> /\ queue' = <<>>
        /\ UNCHANGED <<store, stamp, epoch, wraps, toA, sessionB>>
    BY <1>10 DEF StopA, Fault, Sessions
  <2>2. CommandsMove
    <3>1. renewal' \in {"idle", "carry", "delete"}
      BY <1>10 DEF StopA, Inv, Types
    <3>2. \/ caller' = [m \in Msgs |-> IF caller[m] = "idle" THEN "idle" ELSE "done"]
          \/ caller' = caller
      BY <1>10 DEF StopA
    <3> QED
      BY <2>1, <3>1, <3>2 DEF CommandsMove, Inv, Types, store, Callers
  <2>3. AcksMove
    BY <2>1 DEF sessionB
  <2>4. SessionsMove
    BY <1>a, <2>1 DEF SessionsMove, Inv, Types, sessionB
  <2>5. FramesMove
    BY <1>b, <2>1, PrefixIsSeq, EmptySeq DEF FramesMove
  <2> QED
    BY <1>a, <2>1, <2>2, <2>3, <2>4, <2>5, QuietMovesKeepInv DEF store, sessionB
<1>11. CASE DropToA
  <2>1. /\ toA # <<>> /\ toA' = Tail(toA)
        /\ UNCHANGED <<store, commands, sessionA, toB, sessionB, faults>>
    BY <1>11 DEF DropToA
  <2>2. CommandsMove /\ FramesMove /\ SessionsMove
    BY <2>1 DEF store, sessionA, sessionB
  <2>3. AcksMove
    BY <2>1 DEF AcksMove, Inv, AckedIsReceived, sessionB
  <2> QED
    BY <1>a, <2>1, <2>2, <2>3, QuietMovesKeepInv DEF store, sessionB
<1> QED
  BY <1>1, <1>2, <1>3, <1>4, <1>5, <1>6, <1>7, <1>8, <1>9, <1>10, <1>11 DEF DeviceA, SessionA

\* B takes the first frame for the first time: it stores the message, shows it
\* if it did not have it, and its acknowledgements may be of it as well.
LEMMA AcceptKeepsInv ==
  ASSUME Inv, toB # <<>>, Accept(Head(toB)), toB' = Tail(toB),
         UNCHANGED <<store, commands, sessionA>>, b' \in Sessions, faults' \in Nat,
         toA' \in Seq(received \cup {Head(toB)[1]}),
         ackQ' \in Seq(received \cup {Head(toB)[1]})
  PROVE  Inv'
<1> DEFINE e == Head(toB)
<1>1. e \in Kept \X Nat /\ toB' \in Seq(Kept \X Nat)
  BY FirstFrames
<1>2. received' = received \cup {e[1]} /\ e[1] \in Kept /\ e[1] \in Msgs
  BY <1>1 DEF Accept, Kept
<1>3. Types'
  BY DEF Inv, Types, store, commands, sessionA
<1>4. Kept' = Kept
  BY DEF Kept, store
<1>5. SentIsKept' /\ AckedIsReceived'
  <2>1. Seq(Kept \X Nat)' = Seq(Kept \X Nat) /\ Seq(received)' = Seq(received \cup {e[1]})
    BY <1>2, <1>4
  <2> QED
    BY <1>1, <1>4, <2>1, <1>2 DEF Inv, SentIsKept, AckedIsReceived, sessionA
<1>6. BothStores'
  <2>1. received' \subseteq Kept'
    BY <1>2, <1>4 DEF Inv, BothStores
  <2>2. recent' \subseteq Envelope
    BY <1>1 DEF Accept, Inv, BothStores, Kept, Envelope
  <2>3. shown' = [m \in Msgs |-> IF m \in received' THEN 1 ELSE 0]
    <3>1. shown' = [shown EXCEPT ![e[1]] = IF e[1] \in received THEN @ ELSE @ + 1]
      BY DEF Accept
    <3>2. shown = [m \in Msgs |-> IF m \in received THEN 1 ELSE 0]
      BY DEF Inv, BothStores
    <3> QED
      BY <1>2, <3>1, <3>2
  <2>4. \A m \in Msgs : status'[m] = "delivered" => m \in received'
    BY <1>2 DEF Inv, BothStores, store
  <2> QED
    BY <2>1, <2>2, <2>3, <2>4 DEF BothStores
<1>7. NotYetWritten' /\ Written'
  BY <1>4 DEF Inv, NotYetWritten, Written, store, commands
<1> QED
  BY <1>3, <1>5, <1>6, <1>7 DEF Inv

LEMMA DeviceBKeepsInv == Inv /\ DeviceB => Inv'
<1> SUFFICES ASSUME Inv, DeviceB PROVE Inv'
  OBVIOUS
<1> USE StayingMoves, FirstFrames
<1>a. recent \subseteq Envelope /\ wakes \in Nat /\ faults \in Nat
  BY DEF Inv, Types, BothStores
<1>b. toA \in Seq(received) /\ ackQ \in Seq(received) /\ <<>> \in Seq(received)
  BY EmptySeq DEF Inv, AckedIsReceived
<1>1. CASE StartB
  <2>1. b' \in Sessions
        /\ UNCHANGED <<store, commands, sessionA, wires, recent, ackQ, received, shown, faults>>
    BY <1>1 DEF StartB, Sessions
  <2>2. CommandsMove /\ FramesMove /\ AcksMove
    BY <2>1 DEF store, sessionA, wires
  <2>3. SessionsMove
    BY <2>1 DEF SessionsMove, Inv, Types, sessionA
  <2> QED
    BY <1>a, <2>1, <2>2, <2>3, QuietMovesKeepInv DEF store
<1>2. CASE ConnectB
  <2>1. /\ b' \in Sessions /\ toA' = toA \o ackQ /\ ackQ' = <<>> /\ wakes' \in Nat
        /\ UNCHANGED <<store, commands, a, chan, queue, wraps, toB, recent, received, shown, faults>>
    BY <1>a, <1>2 DEF ConnectB, Sessions
  <2>2. CommandsMove /\ FramesMove
    BY <2>1 DEF store
  <2>3. AcksMove
    BY <1>b, <2>1, ConcatProperties DEF AcksMove
  <2>4. SessionsMove
    BY <2>1 DEF SessionsMove, Inv, Types
  <2> QED
    BY <1>a, <2>1, <2>2, <2>3, <2>4, QuietMovesKeepInv DEF store
<1>3. CASE Receive
  <2>1. /\ toB # <<>> /\ toB' = Tail(toB)
        /\ UNCHANGED <<store, commands, sessionA, b, ackQ, faults>>
    BY <1>3 DEF Receive
  <2>2. CASE Head(toB) \in recent
    <3>1. UNCHANGED <<toA, recent, received, shown>>
      BY <1>3, <2>2 DEF Receive
    <3>2. CommandsMove /\ AcksMove /\ SessionsMove
      BY <2>1, <3>1 DEF store, sessionA
    <3>3. FramesMove
      BY <2>1 DEF FramesMove, Inv, SentIsKept, sessionA
    <3> QED
      BY <1>a, <2>1, <3>1, <3>2, <3>3, QuietMovesKeepInv DEF store
  <2>3. CASE Head(toB) \notin recent
    <3>1. Accept(Head(toB)) /\ toA' = Append(toA, Head(toB)[1])
      BY <1>3, <2>3 DEF Receive
    <3>2. toA \in Seq(received \cup {Head(toB)[1]}) /\ ackQ \in Seq(received \cup {Head(toB)[1]})
      BY <1>b, SeqMonotonic
    <3>3. toA' \in Seq(received \cup {Head(toB)[1]})
      BY <3>1, <3>2, AppendOne
    <3>4. b' \in Sessions /\ faults' \in Nat
      BY <1>a, <2>1 DEF Inv, Types
    <3> QED
      BY <2>1, <3>1, <3>2, <3>3, <3>4, AcceptKeepsInv
  <2> QED
    BY <2>2, <2>3
<1>4. CASE AckFails
  <2>1. /\ toB # <<>> /\ toB' = Tail(toB) /\ Accept(Head(toB))
        /\ toA' \in Prefixes(Append(toA, Head(toB)[1]))
        /\ ackQ' = Append(ackQ, Head(toB)[1])
        /\ UNCHANGED <<store, commands, sessionA>>
    BY <1>4 DEF AckFails
  <2>2. b' \in Sessions /\ faults' \in Nat
    BY <1>a, <1>4 DEF AckFails, Fault, Sessions
  <2>3. toA \in Seq(received \cup {Head(toB)[1]}) /\ ackQ \in Seq(received \cup {Head(toB)[1]})
    BY <1>b, SeqMonotonic
  <2>4. /\ Append(toA, Head(toB)[1]) \in Seq(received \cup {Head(toB)[1]})
        /\ Append(ackQ, Head(toB)[1]) \in Seq(received \cup {Head(toB)[1]})
    BY <2>3, AppendOne
  <2>5. toA' \in Seq(received \cup {Head(toB)[1]})
    BY <2>1, <2>4, PrefixIsSeq
  <2> QED
    BY <2>1, <2>2, <2>4, <2>5, AcceptKeepsInv
<1>5. CASE LoseB \/ StopB
  <2>1. /\ b' \in Sessions /\ faults' = faults + 1 /\ toA' \in Prefixes(toA)
        /\ ackQ' = ackQ \/ ackQ' = <<>>
        /\ recent' = recent \/ recent' = {}
        /\ UNCHANGED <<store, commands, sessionA, toB, received, shown>>
    BY <1>5 DEF LoseB, StopB, Fault, Sessions
  <2>2. CommandsMove /\ FramesMove
    BY <2>1 DEF store, sessionA
  <2>3. SessionsMove
    BY <1>a, <2>1 DEF SessionsMove, Inv, Types, sessionA
  <2>4. AcksMove
    BY <1>b, <2>1, PrefixIsSeq DEF AcksMove
  <2> QED
    BY <1>a, <2>1, <2>2, <2>3, <2>4, QuietMovesKeepInv DEF store
<1>6. CASE DropToB
  <2>1. /\ toB # <<>> /\ toB' = Tail(toB)
        /\ UNCHANGED <<store, commands, sessionA, toA, sessionB, faults>>
    BY <1>6 DEF DropToB
  <2>2. CommandsMove /\ AcksMove /\ SessionsMove
    BY <2>1 DEF store, sessionA, sessionB
  <2>3. FramesMove
    BY <2>1 DEF FramesMove, Inv, SentIsKept, sessionA
  <2> QED
    BY <1>a, <2>1, <2>2, <2>3, QuietMovesKeepInv DEF store, sessionB
<1> QED
  BY <1>1, <1>2, <1>3, <1>4, <1>5, <1>6 DEF DeviceB

\* Starting a new record period: rows change their period or go.
LEMMA RenewalKeepsInv == Inv /\ Renewal => Inv'
<1> SUFFICES ASSUME Inv, Renewal PROVE Inv'
  OBVIOUS
<1> USE StayingMoves
<1>0. UNCHANGED <<stamp, caller, sessionA, wires, sessionB, faults>>
  BY DEF Renewal, NewEpoch, CarryOver, DeleteOld
<1>1. FramesMove /\ AcksMove /\ SessionsMove
  BY <1>0 DEF sessionA, sessionB, wires
<1>2. CommandsMove
  <2>1. epoch' \in Nat /\ renewal' \in {"idle", "carry", "delete"}
    BY DEF Renewal, NewEpoch, CarryOver, DeleteOld, Inv, Types
  <2>2. rowEpoch' \in [Msgs -> Nat]
    BY DEF Renewal, NewEpoch, CarryOver, DeleteOld, Inv, Types, store
  <2> QED
    BY <1>0, <2>1, <2>2 DEF CommandsMove, Inv, Types
<1>3. recent' \subseteq Envelope /\ UNCHANGED <<received, shown>>
  BY <1>0 DEF Inv, BothStores, sessionB
<1>4. CASE UNCHANGED status
  BY <1>1, <1>2, <1>3, <1>4, QuietMovesKeepInv
<1>5. CASE status' = SetStatus({m \in Rows : rowEpoch[m] < epoch}, "gone")
  <2>1. "gone" \in Statuses \ {"absent"}
    BY DEF Statuses
  <2> QED
    BY <1>1, <1>2, <1>3, <1>5, <2>1, StatusMovesKeepInv
<1> QED
  BY <1>4, <1>5 DEF Renewal, NewEpoch, CarryOver, DeleteOld, store

\* Insert is the only step that gives A a row; it is the first for its message.
LEMMA InsertKeeps ==
  ASSUME Inv, NEW m \in Msgs, Insert(m)
  PROVE  /\ m \notin Kept /\ Kept' = Kept \cup {m}
         /\ \A k \in Msgs : status'[k] = "delivered" <=> status[k] = "delivered"
<1>1. status[m] = "absent"
  BY DEF Insert, Inv, NotYetWritten
<1>2. status' = [status EXCEPT ![m] = "pending"] /\ status \in [Msgs -> Statuses]
  BY DEF Insert, Inv, Types
<1> QED
  BY <1>1, <1>2 DEF Kept

LEMMA CommandKeepsInv ==
  ASSUME Inv, NEW m \in Msgs, Command(m)
  PROVE  Inv'
<1> USE StayingMoves
<1>a. recent \subseteq Envelope
  BY DEF Inv, BothStores
<1>1. CASE ReadEpoch(m)
  <2>1. /\ caller[m] = "idle" /\ stamp' = [stamp EXCEPT ![m] = epoch]
        /\ caller' = [caller EXCEPT ![m] = "stamped"]
        /\ UNCHANGED <<store, epoch, renewal, sessionA, wires, sessionB, faults>>
    BY <1>1 DEF ReadEpoch
  <2>2. CommandsMove
    BY <2>1 DEF CommandsMove, Inv, Types, Callers, store
  <2>3. FramesMove /\ AcksMove /\ SessionsMove
    BY <2>1 DEF sessionA, sessionB, wires
  <2> QED
    BY <1>a, <2>1, <2>2, <2>3, QuietMovesKeepInv DEF store, sessionB
<1>2. CASE Insert(m)
  <2>1. /\ caller[m] = "stamped" /\ status' = [status EXCEPT ![m] = "pending"]
        /\ rowEpoch' = [rowEpoch EXCEPT ![m] = stamp[m]]
        /\ caller' = [caller EXCEPT ![m] = "stored"]
        /\ UNCHANGED <<stamp, epoch, renewal, sessionA, wires, sessionB, faults>>
    BY <1>2 DEF Insert
  <2>2. UNCHANGED <<a, b, chan, queue, toB, toA, ackQ, wakes, wraps, recent, received, shown>>
    BY <2>1 DEF sessionA, sessionB, wires
  <2>3. Kept' = Kept \cup {m} /\ \A k \in Msgs : status'[k] = "delivered" <=> status[k] = "delivered"
    BY <1>2, InsertKeeps
  <2>4. Types'
    BY <2>1, <2>2 DEF Inv, Types, Statuses, Callers
  <2>5. SentIsKept'
    <3>1. Kept \X Nat \subseteq Kept' \X Nat
      BY <2>3
    <3>2. chan \in Seq(Kept' \X Nat) /\ queue \in Seq(Kept' \X Nat) /\ toB \in Seq(Kept' \X Nat)
      BY <3>1, SeqMonotonic DEF Inv, SentIsKept
    <3> QED
      BY <2>2, <3>2 DEF SentIsKept
  <2>6. AckedIsReceived' /\ BothStores'
    BY <2>2, <2>3 DEF Inv, AckedIsReceived, BothStores
  <2>7. NotYetWritten'
    BY <2>1 DEF Inv, Types, NotYetWritten
  <2>8. Written'
    BY <2>1, <2>3 DEF Inv, Types, Written
  <2> QED
    BY <2>4, <2>5, <2>6, <2>7, <2>8 DEF Inv
<1>3. CASE Enqueue(m)
  <2>1. /\ caller[m] = "stored"
        /\ UNCHANGED <<store, stamp, epoch, renewal, a, queue, wakes, wires, sessionB, faults>>
    BY <1>3 DEF Enqueue
  <2>2. \/ caller' = [caller EXCEPT ![m] = "done"] /\ UNCHANGED <<chan, wraps>>
        \/ /\ caller' = [caller EXCEPT ![m] = "enqueued"]
           /\ chan' = Append(chan, <<m, wraps[m]>>)
           /\ wraps' = [wraps EXCEPT ![m] = @ + 1]
    BY <1>3 DEF Enqueue
  <2>3. CommandsMove
    BY <2>1, <2>2 DEF CommandsMove, Inv, Types, Callers, store
  <2>4. wraps' \in [Msgs -> Nat]
    BY <2>2 DEF Inv, Types
  <2>5. SessionsMove
    BY <2>1, <2>4 DEF SessionsMove, Inv, Types, sessionB
  <2>6. AcksMove
    BY <2>1 DEF sessionB, wires
  <2>7. FramesMove
    <3>1. <<m, wraps[m]>> \in Kept \X Nat
      BY <2>1 DEF Inv, Types, Written
    <3>2. chan \in Seq(Kept \X Nat) /\ Append(chan, <<m, wraps[m]>>) \in Seq(Kept \X Nat)
      BY <3>1, AppendOne DEF Inv, SentIsKept
    <3> QED
      BY <2>1, <2>2, <3>2 DEF FramesMove, Inv, SentIsKept, wires
  <2> QED
    BY <1>a, <2>1, <2>3, <2>5, <2>6, <2>7, QuietMovesKeepInv DEF store, sessionB
<1>4. CASE MarkSent(m)
  <2>1. /\ status' = SetStatus({m}, "sent") /\ caller' = [caller EXCEPT ![m] = "done"]
        /\ UNCHANGED <<rowEpoch, stamp, epoch, renewal, sessionA, wires, sessionB, faults>>
    BY <1>4 DEF MarkSent
  <2>2. CommandsMove
    BY <2>1 DEF CommandsMove, Inv, Types, Callers
  <2>3. FramesMove /\ AcksMove /\ SessionsMove
    BY <2>1 DEF sessionA, sessionB, wires
  <2>4. "sent" \in Statuses \ {"absent"}
    BY DEF Statuses
  <2> QED
    BY <1>a, <2>1, <2>2, <2>3, <2>4, StatusMovesKeepInv DEF sessionB
<1> QED
  BY <1>1, <1>2, <1>3, <1>4 DEF Command

LEMMA NextKeepsInv == Inv /\ [Next]_vars => Inv'
<1> SUFFICES ASSUME Inv, [Next]_vars PROVE Inv'
  OBVIOUS
<1>1. CASE UNCHANGED vars
  <2>1. CommandsMove /\ SessionsMove /\ FramesMove /\ AcksMove
    BY <1>1, StayingMoves DEF vars, store, sessionA, sessionB, wires
  <2> QED
    BY <1>1, <2>1, QuietMovesKeepInv DEF vars, store, sessionB, Inv, BothStores
<1>2. CASE Next
  BY <1>2, DeviceAKeepsInv, DeviceBKeepsInv, RenewalKeepsInv, CommandKeepsInv DEF Next
<1> QED
  BY <1>1, <1>2

-----------------------------------------------------------------------------
(* The theorems                                                            *)

\* In every state an envelope is of a message that A has stored, and an
\* acknowledgement of one that B has stored: the wires, both queues and the
\* command channel of manager.rs never hold anything else.
THEOREM FramesAreKept == Spec => []Inv
<1> QED
  BY InitInv, NextKeepsInv, PTL DEF Spec

\* The types of the chat (rows, queues and frames of manager.rs, history.rs).
THEOREM TypeCorrect == Spec => []TypeOK
<1> QED
  BY FramesAreKept, InvTypes, PTL

\* The mapped start, and every mapped step but two: nothing is written and
\* nothing is shown, and the double ticks are of messages that B has shown.
LEMMA InitIsMailbox == Init => Chat!Init
BY DEF Init, Chat!Init

LEMMA OtherStepsTick ==
  ASSUME Inv', UNCHANGED shown, Kept' = Kept
  PROVE  Chat!Tick
<1>1. \A m \in Msgs : status'[m] = "delivered" => shown[m] = 1
  <2>1. \A m \in Msgs : status'[m] = "delivered" => m \in received'
    BY DEF Inv, BothStores
  <2>2. shown' = [m \in Msgs |-> IF m \in received' THEN 1 ELSE 0]
    BY DEF Inv, BothStores
  <2> QED
    BY <2>1, <2>2
<1> QED
  BY <1>1 DEF Chat!Tick, Kept

\* B shows a message only by accepting a frame, and then as Mailbox does.
LEMMA AcceptShows ==
  ASSUME Inv, Inv', toB # <<>>, Accept(Head(toB)), UNCHANGED store
  PROVE  Chat!Tick \/ \E m \in Msgs : Chat!Show(m)
<1> DEFINE m == Head(toB)[1]
<1>1. m \in Kept /\ m \in Msgs
  BY FirstFrames DEF Kept
<1>2. Kept' = Kept
  BY DEF Kept, store
<1>3. shown' = [shown EXCEPT ![m] = IF m \in received THEN @ ELSE @ + 1]
  BY DEF Accept
<1>4. shown = [k \in Msgs |-> IF k \in received THEN 1 ELSE 0]
  BY DEF Inv, BothStores
<1>5. CASE m \in received
  <2>1. shown' = shown
    BY <1>1, <1>3, <1>4, <1>5
  <2> QED
    BY <1>2, <2>1, OtherStepsTick
<1>6. CASE m \notin received
  <2>0. shown[m] = 0
    BY <1>1, <1>4, <1>6
  <2>1. shown' = [shown EXCEPT ![m] = 1]
    <3>1. shown' = [shown EXCEPT ![m] = shown[m] + 1]
      BY <1>3, <1>6
    <3> QED
      BY <2>0, <3>1
  <2>2. Chat!Show(m)
    BY <1>1, <1>2, <2>0, <2>1 DEF Chat!Show, Kept, store
  <2> QED
    BY <1>1, <2>2
<1> QED
  BY <1>5, <1>6

LEMMA NextIsMailbox == Inv /\ Inv' /\ [Next]_vars => [Chat!Next]_Chat!vars
<1> SUFFICES ASSUME Inv, Inv', [Next]_vars PROVE Chat!Next
  OBVIOUS
<1>1. CASE \E m \in Msgs : Insert(m)
  <2>1. PICK m \in Msgs : Insert(m)
    BY <1>1
  <2>2. /\ m \notin Kept /\ Kept' = Kept \cup {m}
        /\ \A k \in Msgs : status'[k] = "delivered" <=> status[k] = "delivered"
    BY <2>1, InsertKeeps
  <2>3. Chat!Keep(m)
    BY <2>1, <2>2 DEF Chat!Keep, Kept, Insert, sessionB
  <2> QED
    BY <2>3 DEF Chat!Next
<1>2. CASE AckFails \/ (Receive /\ Head(toB) \notin recent)
  <2>1. toB # <<>> /\ Accept(Head(toB)) /\ UNCHANGED store
    BY <1>2 DEF AckFails, Receive
  <2> QED
    BY <2>1, AcceptShows DEF Chat!Next
<1>3. CASE \/ UNCHANGED vars \/ DeviceA \/ Renewal
           \/ DeviceB /\ ~AckFails /\ ~(Receive /\ Head(toB) \notin recent)
           \/ \E m \in Msgs : ReadEpoch(m) \/ Enqueue(m) \/ MarkSent(m)
  <2>1. UNCHANGED shown
    BY <1>3 DEF vars, DeviceA, SessionA, DeviceB, Renewal, ReadEpoch, Enqueue, MarkSent,
                StartA, ConnectA, QueueCommand, TakeCommand, Flush, PeerOnline, HandleAck,
                FlushFails, LoseA, StopA, DropToA, StartB, ConnectB, Receive, LoseB, StopB,
                DropToB, NewEpoch, CarryOver, DeleteOld, sessionB
  <2>2. \/ UNCHANGED status
        \/ \E S, to : to \in Statuses \ {"absent"} /\ status' = SetStatus(S, to)
    <3>1. {"pending", "sent", "delivered", "gone"} \subseteq Statuses \ {"absent"}
      BY DEF Statuses
    <3>2. CASE DeviceA
      BY <3>1, <3>2 DEF DeviceA, SessionA, StartA, ConnectA, QueueCommand, TakeCommand, Flush,
                   PeerOnline, HandleAck, FlushFails, LoseA, StopA, DropToA, Resend, store
    <3>3. CASE Renewal
      BY <3>1, <3>3 DEF Renewal, NewEpoch, CarryOver, DeleteOld, store
    <3>4. CASE DeviceB \/ UNCHANGED vars
      BY <3>4 DEF DeviceB, StartB, ConnectB, Receive, AckFails, LoseB, StopB, DropToB, store, vars
    <3>5. CASE \E m \in Msgs : ReadEpoch(m) \/ Enqueue(m) \/ MarkSent(m)
      BY <3>1, <3>5 DEF ReadEpoch, Enqueue, MarkSent, store
    <3> QED
      BY <1>3, <3>2, <3>3, <3>4, <3>5
  <2>3. Kept' = Kept
    <3>1. ASSUME NEW S, NEW to \in Statuses \ {"absent"}, status' = SetStatus(S, to)
          PROVE  Kept' = Kept
      BY <3>1, SetStatusKeeps DEF Inv, Types, Kept
    <3>2. CASE UNCHANGED status
      BY <3>2 DEF Kept
    <3> QED
      BY <2>2, <3>1, <3>2
  <2> QED
    BY <2>1, <2>3, OtherStepsTick DEF Chat!Next
<1> QED
  BY <1>1, <1>2, <1>3 DEF Next, Command, DeviceB

\* Whatever is sent again, duplicated or lost, and whenever a device stops or a
\* session breaks: the chat shows a message at most once, only after its author
\* has stored it, and ticks it only after the other device has stored it.
THEOREM ChatIsMailbox == Spec => MailboxSpec
<1>1. Init => Chat!Init
  BY InitIsMailbox
<1> QED
  BY <1>1, FramesAreKept, NextIsMailbox, PTL DEF MailboxSpec, Chat!Spec, Spec

-----------------------------------------------------------------------------
(* Nothing is stranded                                                     *)

\* What B recognises as seen before it has stored: a frame of a message that B
\* does not have is never ignored.
RecentIsReceived == \A e \in recent : e[1] \in received

\* The messages that B still needs, and those that are in somebody's hands.
Needed == Undelivered \ received
InHand ==
  {m \in Msgs : caller[m] = "stored"} \cup Carried(chan) \cup Carried(queue) \cup Carried(toB)

HeldInv == Inv /\ RecentIsReceived /\ NothingStranded

LEMMA StrandedMeans == NothingStranded <=> (BothOnline /\ ~(wakes > 0) => Needed \subseteq InHand)
BY DEF NothingStranded, Needed, InHand, Undelivered

LEMMA StrandedMeansThen ==
  NothingStranded' <=> (BothOnline' /\ ~(wakes' > 0) => Needed' \subseteq InHand')
BY DEF NothingStranded, Needed, InHand, Undelivered

\* The messages in a sequence that loses its first frame or gets one more.
LEMMA CarriedTail ==
  ASSUME NEW S, NEW s \in Seq(S), s # <<>>
  PROVE  Carried(s) = {Head(s)[1]} \cup Carried(Tail(s))
<1>1. /\ Len(s) \in Nat /\ Len(s) >= 1 /\ Tail(s) \in Seq(S) /\ Len(Tail(s)) = Len(s) - 1
      /\ \A i \in 1 .. Len(Tail(s)) : Tail(s)[i] = s[i + 1]
      /\ DOMAIN s = 1 .. Len(s) /\ DOMAIN Tail(s) = 1 .. Len(Tail(s)) /\ Head(s) = s[1]
  BY HeadTailProperties, LenProperties, EmptySeq
<1>2. ASSUME NEW i \in DOMAIN s
      PROVE  s[i][1] \in {Head(s)[1]} \cup Carried(Tail(s))
  <2>1. CASE i = 1
    BY <1>1, <2>1
  <2>2. CASE i # 1
    <3>1. i - 1 \in DOMAIN Tail(s) /\ Tail(s)[i - 1] = s[i]
      BY <1>1, <1>2, <2>2
    <3> QED
      BY <3>1 DEF Carried
  <2> QED
    BY <2>1, <2>2
<1>3. ASSUME NEW i \in DOMAIN Tail(s)
      PROVE  Tail(s)[i][1] \in Carried(s)
  <2>1. i + 1 \in DOMAIN s /\ Tail(s)[i] = s[i + 1]
    BY <1>1, <1>3
  <2> QED
    BY <2>1 DEF Carried
<1>4. Head(s)[1] \in Carried(s)
  BY <1>1 DEF Carried
<1> QED
  BY <1>2, <1>3, <1>4 DEF Carried

LEMMA CarriedConcat ==
  ASSUME NEW S, NEW s \in Seq(S), NEW t \in Seq(S)
  PROVE  Carried(s) \cup Carried(t) \subseteq Carried(s \o t)
<1>1. /\ Len(s) \in Nat /\ Len(t) \in Nat
      /\ DOMAIN s = 1 .. Len(s) /\ DOMAIN t = 1 .. Len(t)
      /\ DOMAIN (s \o t) = 1 .. Len(s) + Len(t)
      /\ \A i \in 1 .. Len(s) : (s \o t)[i] = s[i]
      /\ \A i \in 1 .. Len(t) : (s \o t)[Len(s) + i] = t[i]
  <2>1. s \o t \in Seq(S) /\ Len(s \o t) = Len(s) + Len(t)
    BY ConcatProperties
  <2>2. \A i \in 1 .. Len(s) + Len(t) : (s \o t)[i] = IF i <= Len(s) THEN s[i] ELSE t[i - Len(s)]
    BY ConcatProperties
  <2>3. Len(s) \in Nat /\ Len(t) \in Nat
    BY LenProperties
  <2> QED
    BY <2>1, <2>2, <2>3, LenProperties
<1>2. ASSUME NEW i \in DOMAIN s
      PROVE  s[i][1] \in Carried(s \o t)
  BY <1>1, <1>2 DEF Carried
<1>3. ASSUME NEW i \in DOMAIN t
      PROVE  t[i][1] \in Carried(s \o t)
  <2>1. Len(s) + i \in DOMAIN (s \o t) /\ (s \o t)[Len(s) + i] = t[i]
    BY <1>1, <1>3
  <2> QED
    BY <2>1 DEF Carried
<1> QED
  BY <1>2, <1>3 DEF Carried

LEMMA CarriedAppend ==
  ASSUME NEW S, NEW s \in Seq(S), NEW e \in S
  PROVE  Carried(s) \cup {e[1]} \subseteq Carried(Append(s, e))
<1>1. /\ Len(s) \in Nat /\ DOMAIN s = 1 .. Len(s)
      /\ DOMAIN Append(s, e) = 1 .. Len(s) + 1
      /\ \A i \in 1 .. Len(s) : Append(s, e)[i] = s[i]
      /\ Append(s, e)[Len(s) + 1] = e
  BY AppendProperties, LenProperties
<1>2. ASSUME NEW i \in DOMAIN s
      PROVE  s[i][1] \in Carried(Append(s, e))
  <2>1. i \in DOMAIN Append(s, e) /\ Append(s, e)[i] = s[i]
    BY <1>1, <1>2
  <2> QED
    BY <2>1 DEF Carried
<1>3. e[1] \in Carried(Append(s, e))
  <2>1. Len(s) + 1 \in DOMAIN Append(s, e)
    BY <1>1
  <2> QED
    BY <1>1, <2>1 DEF Carried
<1> QED
  BY <1>2, <1>3 DEF Carried

LEMMA CarriedOne == \A e : Carried(<<e>>) = {e[1]}
BY DEF Carried

\* With fewer rows than the limit one resend takes every undelivered row, ...
LEMMA BatchIsAll ==
  ASSUME N <= ResendLimit
  PROVE  Batch = Undelivered
<1>1. ASSUME NEW m \in Undelivered
      PROVE  Cardinality({k \in Undelivered : k < m}) < ResendLimit
  <2>1. m \in 1 .. N /\ N \in Nat /\ ResendLimit \in Nat
    BY SizeAssumption, LimitAssumption DEF Undelivered, Msgs
  <2>2. {k \in Undelivered : k < m} \in SUBSET (1 .. m - 1)
    BY <2>1 DEF Undelivered, Msgs
  <2>3. IsFiniteSet(1 .. m - 1) /\ Cardinality(1 .. m - 1) = m - 1
    BY <2>1, FS_Interval
  <2>4. /\ Cardinality({k \in Undelivered : k < m}) <= m - 1
        /\ Cardinality({k \in Undelivered : k < m}) \in Nat
    BY <2>2, <2>3, FS_Subset, FS_CardinalityType
  <2> QED
    BY <2>1, <2>4
<1> QED
  BY <1>1 DEF Batch

\* ... and every row of the batch is in its order exactly once.
LEMMA OrderHasAll ==
  ASSUME NEW s \in BatchInOrder, NEW m \in Batch
  PROVE  \E i \in DOMAIN s : s[i] = m
<1>1. IsFiniteSet(Batch) /\ Cardinality(Batch) \in Nat /\ Batch \subseteq Nat
  <2>1. IsFiniteSet(Msgs) /\ Msgs \subseteq Nat
    BY SizeAssumption, FS_Interval DEF Msgs
  <2>2. Batch \in SUBSET Msgs
    BY DEF Batch, Undelivered
  <2> QED
    BY <2>1, <2>2, FS_Subset, FS_CardinalityType
<1>2. /\ s \in [1 .. Cardinality(Batch) -> Batch] /\ DOMAIN s = 1 .. Cardinality(Batch)
      /\ \A i, j \in 1 .. Cardinality(Batch) : i < j => s[i] < s[j]
  BY DEF BatchInOrder
<1>3. \A i, j \in 1 .. Cardinality(Batch) : s[i] = s[j] => i = j
  <2>1. ASSUME NEW i \in 1 .. Cardinality(Batch), NEW j \in 1 .. Cardinality(Batch), s[i] = s[j],
               i # j
        PROVE  FALSE
    <3>1. i \in Nat /\ j \in Nat /\ s[i] \in Nat /\ s[j] \in Nat
      <4>1. s[i] \in Batch /\ s[j] \in Batch
        BY <1>2
      <4>2. i \in Nat /\ j \in Nat
        BY <1>1
      <4> QED
        BY <1>1, <4>1, <4>2
    <3>2. i < j \/ j < i
      BY <2>1, <3>1
    <3>3. s[i] < s[j] \/ s[j] < s[i]
      BY <1>2, <3>2
    <3> QED
      BY <2>1, <3>1, <3>3
  <2> QED
    BY <2>1
<1>4. s \in Injection(1 .. Cardinality(Batch), Batch)
  BY <1>2, <1>3 DEF Injection, IsInjective
<1>5. Cardinality(1 .. Cardinality(Batch)) = Cardinality(Batch)
  BY <1>1, FS_Interval
<1>6. s \in Surjection(1 .. Cardinality(Batch), Batch)
  BY <1>1, <1>4, <1>5, FS_Injection
<1> QED
  BY <1>2, <1>6 DEF Surjection

\* So a resend takes every message that B still needs in hand.
LEMMA ResendHolds ==
  ASSUME Inv, Resend, N <= ResendLimit
  PROVE  Undelivered \subseteq Carried(chan')
<1>1. PICK s \in BatchInOrder : chan' = chan \o [i \in DOMAIN s |-> <<s[i], wraps[s[i]]>>]
  BY DEF Resend
<1> DEFINE t == [i \in DOMAIN s |-> <<s[i], wraps[s[i]]>>]
<1>2. t \in Seq(Kept \X Nat) /\ chan \in Seq(Kept \X Nat)
  BY BatchIsKept DEF Inv, SentIsKept
<1>3. ASSUME NEW m \in Undelivered
      PROVE  m \in Carried(t)
  <2>1. PICK i \in DOMAIN s : s[i] = m
    BY <1>3, BatchIsAll, OrderHasAll
  <2>2. i \in DOMAIN t /\ t[i][1] = m
    BY <2>1
  <2> QED
    BY <2>2 DEF Carried
<1>4. Carried(t) \subseteq Carried(chan')
  <2> HIDE DEF t
  <2>1. chan' = chan \o t
    BY <1>1 DEF t
  <2> QED
    BY <1>2, <2>1, CarriedConcat
<1> QED
  BY <1>3, <1>4

\* Marking rows as sent, delivered or gone takes them from nobody's hands and
\* makes none needed that was not, as a ticked row is one that B has.
LEMMA StatusNeeds ==
  ASSUME Inv, NEW S, NEW to \in Statuses \ {"absent"}, status' = SetStatus(S, to),
         received' = received
  PROVE  Needed' \subseteq Needed
BY DEF Inv, Types, BothStores, Needed, Undelivered, SetStatus, Rows, Statuses

\* While both stay online and no notice is read, a step that makes no new need
\* and lets nothing out of hand strands nothing.
LEMMA HandsHold ==
  ASSUME NothingStranded, BothOnline' => BothOnline, wakes' = wakes,
         Needed' \subseteq Needed \cup InHand', InHand \cap Needed' \subseteq InHand'
  PROVE  NothingStranded'
BY StrandedMeans, StrandedMeansThen

LEMMA RecentStays ==
  ASSUME RecentIsReceived, recent' \subseteq recent, received \subseteq received'
  PROVE  RecentIsReceived'
BY DEF RecentIsReceived

\* A's session task lets nothing out of hand while it is online.
LEMMA DeviceAHolds ==
  ASSUME HeldInv, DeviceA, N <= ResendLimit
  PROVE  RecentIsReceived' /\ NothingStranded'
<1>a. UNCHANGED sessionB
  BY DEF DeviceA, SessionA, StartA, ConnectA, QueueCommand, TakeCommand, Flush, PeerOnline,
         HandleAck, FlushFails, LoseA, StopA, DropToA
<1>b. UNCHANGED <<b, recent, ackQ, received, shown>>
  BY <1>a DEF sessionB
<1>c. RecentIsReceived'
  BY <1>b, RecentStays DEF HeldInv
<1>d. Inv /\ NothingStranded
  BY DEF HeldInv
<1>e. chan \in Seq(Kept \X Nat) /\ queue \in Seq(Kept \X Nat) /\ toB \in Seq(Kept \X Nat)
  BY <1>d DEF Inv, SentIsKept
<1>f. "sent" \in Statuses \ {"absent"} /\ "delivered" \in Statuses \ {"absent"}
  BY DEF Statuses
<1>1. CASE StartA \/ QueueCommand \/ FlushFails \/ LoseA \/ StopA(TRUE) \/ StopA(FALSE) \/ DropToA
  <2>1. a' # "live"
    BY <1>1 DEF StartA, QueueCommand, FlushFails, LoseA, StopA, DropToA, sessionA
  <2> QED
    BY <1>c, <2>1 DEF NothingStranded, BothOnline
<1>2. CASE ConnectA \/ PeerOnline
  <2>1. (b = "live" => Resend)
    BY <1>2 DEF ConnectA, PeerOnline
  <2>2. CASE b = "live"
    <3>1. Resend
      BY <2>1, <2>2
    <3>2. Undelivered \subseteq Carried(chan')
      BY <1>d, <3>1, ResendHolds
    <3>3. status' = SetStatus(Batch, "sent")
      BY <3>1 DEF Resend
    <3>4. Needed' \subseteq Needed
      BY <1>b, <1>d, <1>f, <3>3, StatusNeeds
    <3>5. Needed' \subseteq InHand'
      BY <3>2, <3>4 DEF Needed, InHand
    <3> QED
      BY <1>c, <3>5, StrandedMeansThen
  <2>3. CASE b # "live"
    BY <1>b, <1>c, <2>3 DEF NothingStranded, BothOnline
  <2> QED
    BY <2>2, <2>3
<1>3. CASE TakeCommand
  <2>1. /\ a = "live" /\ queue = <<>> /\ chan # <<>>
        /\ queue' = <<Head(chan)>> /\ chan' = Tail(chan)
        /\ UNCHANGED <<status, caller, a, wakes, toB>>
    BY <1>3 DEF TakeCommand, Idle, store, commands, wires
  <2>2. Carried(chan) = {Head(chan)[1]} \cup Carried(Tail(chan))
    BY <1>e, <2>1, CarriedTail
  <2>3. Carried(queue') = {Head(chan)[1]}
    BY <2>1, CarriedOne
  <2>4. Carried(queue) = {}
    BY <2>1 DEF Carried
  <2>5. InHand \subseteq InHand'
    BY <2>1, <2>2, <2>3, <2>4 DEF InHand
  <2>6. Needed' = Needed
    BY <1>b, <2>1 DEF Needed, Undelivered
  <2> QED
    BY <1>b, <1>c, <1>d, <2>1, <2>5, <2>6, HandsHold DEF BothOnline
<1>4. CASE Flush
  <2>1. /\ queue # <<>> /\ toB' = Append(toB, Head(queue)) /\ queue' = Tail(queue)
        /\ UNCHANGED <<status, caller, a, chan, wakes>>
    BY <1>4 DEF Flush, store, commands
  <2>2. Carried(queue) = {Head(queue)[1]} \cup Carried(Tail(queue))
    BY <1>e, <2>1, CarriedTail
  <2>3. Carried(toB) \cup {Head(queue)[1]} \subseteq Carried(toB')
    <3>1. Head(queue) \in Kept \X Nat
      BY <1>e, <2>1, TakeFirst
    <3> QED
      BY <1>e, <2>1, <3>1, CarriedAppend
  <2>5. InHand \subseteq InHand'
    BY <2>1, <2>2, <2>3 DEF InHand
  <2>6. Needed' = Needed
    BY <1>b, <2>1 DEF Needed, Undelivered
  <2> QED
    BY <1>b, <1>c, <1>d, <2>1, <2>5, <2>6, HandsHold DEF BothOnline
<1>5. CASE HandleAck
  <2>1. /\ status' = SetStatus({Head(toA)}, "delivered")
        /\ UNCHANGED <<caller, a, chan, queue, wakes, toB>>
    BY <1>5 DEF HandleAck, commands, sessionA
  <2>2. Needed' \subseteq Needed
    BY <1>b, <1>d, <1>f, <2>1, StatusNeeds
  <2>3. InHand' = InHand
    BY <2>1 DEF InHand
  <2> QED
    BY <1>b, <1>c, <1>d, <2>1, <2>2, <2>3, HandsHold DEF BothOnline
<1> QED
  BY <1>1, <1>2, <1>3, <1>4, <1>5 DEF DeviceA, SessionA

\* B takes from the wire only what it has afterwards, and its connection makes
\* the relay send A a notice.
LEMMA DeviceBHolds ==
  ASSUME HeldInv, DeviceB
  PROVE  RecentIsReceived' /\ NothingStranded'
<1>a. Inv /\ RecentIsReceived /\ NothingStranded
  BY DEF HeldInv
<1>b. toB \in Seq(Kept \X Nat) /\ wakes \in Nat /\ recent \subseteq Envelope
  BY <1>a DEF Inv, SentIsKept, Types, BothStores
<1>1. CASE StartB \/ LoseB \/ StopB \/ DropToB
  <2>1. b' # "live" /\ recent' \subseteq recent /\ received' = received
    BY <1>1 DEF StartB, LoseB, StopB, DropToB, sessionB
  <2>2. RecentIsReceived'
    BY <1>a, <2>1, RecentStays
  <2> QED
    BY <2>1, <2>2 DEF NothingStranded, BothOnline
<1>2. CASE AckFails
  <2>1. b' # "live" /\ recent' = recent \cup {Head(toB)} /\ received' = received \cup {Head(toB)[1]}
    BY <1>2 DEF AckFails, Accept
  <2>2. RecentIsReceived'
    BY <1>a, <2>1 DEF RecentIsReceived
  <2> QED
    BY <2>1, <2>2 DEF NothingStranded, BothOnline
<1>3. CASE ConnectB
  <2>1. a' = a /\ recent' = recent /\ received' = received /\ (a = "live" => wakes' = wakes + 1)
    BY <1>3 DEF ConnectB
  <2>2. RecentIsReceived'
    BY <1>a, <2>1, RecentStays
  <2>3. a' = "live" => wakes' > 0
    BY <1>b, <2>1
  <2> QED
    BY <2>2, <2>3 DEF NothingStranded, BothOnline
<1>4. CASE Receive
  <2>1. /\ toB # <<>> /\ toB' = Tail(toB)
        /\ UNCHANGED <<status, caller, a, chan, queue, wakes, b>>
    BY <1>4 DEF Receive, store, commands, sessionA
  <2>2. /\ RecentIsReceived' /\ received \subseteq received' /\ Head(toB)[1] \in received'
    <3>1. CASE Head(toB) \in recent
      BY <1>4, <1>a, <3>1 DEF Receive, RecentIsReceived
    <3>2. CASE Head(toB) \notin recent
      <4>1. recent' = recent \cup {Head(toB)} /\ received' = received \cup {Head(toB)[1]}
        BY <1>4, <3>2 DEF Receive, Accept
      <4> QED
        BY <1>a, <4>1 DEF RecentIsReceived
    <3> QED
      BY <3>1, <3>2
  <2>3. Carried(toB) = {Head(toB)[1]} \cup Carried(toB')
    BY <1>b, <2>1, CarriedTail
  <2>4. Needed' \subseteq Needed /\ Head(toB)[1] \notin Needed'
    BY <2>1, <2>2 DEF Needed, Undelivered
  <2>5. InHand \cap Needed' \subseteq InHand'
    BY <2>1, <2>3, <2>4 DEF InHand
  <2> QED
    BY <1>a, <2>1, <2>2, <2>4, <2>5, HandsHold DEF BothOnline
<1> QED
  BY <1>1, <1>2, <1>3, <1>4 DEF DeviceB

\* The commands: Insert makes a need and has it in hand, Enqueue hands it over.
LEMMA CommandHolds ==
  ASSUME HeldInv, NEW m \in Msgs, Command(m)
  PROVE  RecentIsReceived' /\ NothingStranded'
<1>a. Inv /\ RecentIsReceived /\ NothingStranded
  BY DEF HeldInv
<1>b. /\ caller \in [Msgs -> Callers] /\ status \in [Msgs -> Statuses]
      /\ chan \in Seq(Kept \X Nat) /\ wraps \in [Msgs -> Nat]
  BY <1>a DEF Inv, Types, SentIsKept
<1>c. UNCHANGED <<a, queue, wakes, toB, b, recent, received>>
  BY DEF Command, ReadEpoch, Insert, Enqueue, MarkSent, sessionA, sessionB, wires
<1>d. RecentIsReceived'
  BY <1>a, <1>c, RecentStays
<1>1. CASE ReadEpoch(m)
  <2>1. /\ caller[m] = "idle" /\ caller' = [caller EXCEPT ![m] = "stamped"]
        /\ status' = status /\ chan' = chan
    BY <1>1 DEF ReadEpoch, store, sessionA
  <2>2. Needed' = Needed /\ InHand \subseteq InHand'
    BY <1>b, <1>c, <2>1 DEF Needed, Undelivered, InHand
  <2> QED
    BY <1>a, <1>c, <1>d, <2>2, HandsHold DEF BothOnline
<1>2. CASE Insert(m)
  <2>1. /\ caller[m] = "stamped" /\ caller' = [caller EXCEPT ![m] = "stored"]
        /\ status' = [status EXCEPT ![m] = "pending"] /\ chan' = chan
    BY <1>2 DEF Insert, sessionA
  <2>2. InHand \subseteq InHand' /\ m \in InHand'
    BY <1>b, <1>c, <2>1 DEF InHand
  <2>3. Needed' \subseteq Needed \cup {m}
    BY <1>b, <1>c, <2>1 DEF Needed, Undelivered
  <2> QED
    BY <1>a, <1>c, <1>d, <2>2, <2>3, HandsHold DEF BothOnline
<1>3. CASE Enqueue(m)
  <2>1. caller[m] = "stored" /\ status' = status
    BY <1>3 DEF Enqueue, store
  <2>2. Needed' = Needed
    BY <1>c, <2>1 DEF Needed, Undelivered
  <2>3. CASE a = "off"
    BY <1>c, <1>d, <2>3 DEF NothingStranded, BothOnline
  <2>4. CASE a # "off"
    <3>1. caller' = [caller EXCEPT ![m] = "enqueued"] /\ chan' = Append(chan, <<m, wraps[m]>>)
      BY <1>3, <2>4 DEF Enqueue
    <3>2. Carried(chan) \cup {m} \subseteq Carried(chan')
      <4>1. <<m, wraps[m]>> \in Kept \X Nat
        BY <1>a, <1>b, <2>1 DEF Inv, Written
      <4>2. Carried(chan) \cup {<<m, wraps[m]>>[1]} \subseteq Carried(chan')
        BY <1>b, <3>1, <4>1, CarriedAppend
      <4> QED
        BY <4>2
    <3>3. InHand \subseteq InHand'
      BY <1>b, <1>c, <3>1, <3>2 DEF InHand
    <3> QED
      BY <1>a, <1>c, <1>d, <2>2, <3>3, HandsHold DEF BothOnline
  <2> QED
    BY <2>3, <2>4
<1>4. CASE MarkSent(m)
  <2>1. /\ caller[m] = "enqueued" /\ caller' = [caller EXCEPT ![m] = "done"]
        /\ status' = SetStatus({m}, "sent") /\ chan' = chan
    BY <1>4 DEF MarkSent, sessionA
  <2>2. InHand \subseteq InHand'
    BY <1>b, <1>c, <2>1 DEF InHand
  <2>3. Needed' \subseteq Needed
    BY <1>a, <1>c, <2>1, StatusNeeds DEF Statuses
  <2> QED
    BY <1>a, <1>c, <1>d, <2>2, <2>3, HandsHold DEF BothOnline
<1> QED
  BY <1>1, <1>2, <1>3, <1>4 DEF Command

\* A new record period only makes rows go.
LEMMA RenewalHolds ==
  ASSUME HeldInv, Renewal
  PROVE  RecentIsReceived' /\ NothingStranded'
<1>a. Inv /\ RecentIsReceived /\ NothingStranded
  BY DEF HeldInv
<1>1. UNCHANGED <<caller, a, chan, queue, wakes, toB, b, recent, received>>
  BY DEF Renewal, NewEpoch, CarryOver, DeleteOld, sessionA, sessionB, wires
<1>2. RecentIsReceived'
  BY <1>1, <1>a, RecentStays
<1>3. Needed' \subseteq Needed
  <2>1. CASE status' = status
    BY <1>1, <2>1 DEF Needed, Undelivered
  <2>2. CASE status' = SetStatus({m \in Rows : rowEpoch[m] < epoch}, "gone")
    <3>1. "gone" \in Statuses \ {"absent"}
      BY DEF Statuses
    <3> QED
      BY <1>1, <1>a, <2>2, <3>1, StatusNeeds
  <2> QED
    BY <2>1, <2>2 DEF Renewal, NewEpoch, CarryOver, DeleteOld, store
<1>4. InHand' = InHand
  BY <1>1 DEF InHand
<1> QED
  BY <1>1, <1>2, <1>3, <1>4, <1>a, HandsHold DEF BothOnline

LEMMA NextHolds ==
  ASSUME HeldInv, [Next]_vars, N <= ResendLimit
  PROVE  HeldInv'
<1>1. Inv'
  BY NextKeepsInv DEF HeldInv
<1>2. CASE UNCHANGED vars
  <2>1. UNCHANGED <<status, caller, a, chan, queue, wakes, toB, b, recent, received>>
    BY <1>2 DEF vars, store, commands, sessionA, wires, sessionB
  <2>2. RecentIsReceived'
    BY <2>1, RecentStays DEF HeldInv
  <2>3. Needed' = Needed /\ InHand' = InHand
    BY <2>1 DEF Needed, Undelivered, InHand
  <2>4. NothingStranded'
    BY <2>1, <2>3, HandsHold DEF HeldInv, BothOnline
  <2> QED
    BY <1>1, <2>2, <2>4 DEF HeldInv
<1>3. CASE Next
  BY <1>1, <1>3, DeviceAHolds, DeviceBHolds, CommandHolds, RenewalHolds DEF Next, HeldInv
<1> QED
  BY <1>2, <1>3

LEMMA InitHolds == Init => HeldInv
<1> SUFFICES ASSUME Init PROVE HeldInv
  OBVIOUS
<1>1. RecentIsReceived /\ NothingStranded
  BY DEF Init, RecentIsReceived, NothingStranded, BothOnline
<1> QED
  BY <1>1, InitInv DEF HeldInv

\* As long as there are not more rows than one resend takes: while both devices
\* are online every message that B does not have is about to be handed over, on
\* its way, or due to be sent again (deliver_chat, resend_pending_chat and the
\* relay's server.peer notices).
THEOREM NoMessageIsStranded ==
  ASSUME N <= ResendLimit
  PROVE  Spec => []NothingStranded
<1>1. HeldInv /\ [Next]_vars => HeldInv'
  BY NextHolds
<1>2. HeldInv => NothingStranded
  BY DEF HeldInv
<1> QED
  BY <1>1, <1>2, InitHolds, PTL DEF Spec

=============================================================================
