---------------------------- MODULE ChatDelivery ----------------------------
(***************************************************************************)
(* One direction of the text chat, src-tauri/src/core/pair/manager.rs over *)
(* history.rs: device A writes messages, device B receives them.  The      *)
(* relay keeps nothing, so A stores every message first, sends it again    *)
(* whenever B comes online, and ticks it off when B's acknowledgement      *)
(* arrives.                                                                *)
(*                                                                         *)
(* On A run several commands at once (send_chat, start_new_epoch: async    *)
(* commands on a thread pool) beside the session task, the only reader of  *)
(* the command channel, of the reliable queue and of the socket.  A        *)
(* command takes its locks one after the other: each is a step.            *)
(*                                                                         *)
(* Abstractions.  The relay path only (no direct leg, full tier).  A       *)
(* message is its row number `seq'; an envelope is the message and how     *)
(* often it was wrapped before (AppEnvelope::id is fresh every time).      *)
(* `toB' and `toA' are the frames anywhere between the two session tasks,  *)
(* in order; the relay drops a frame whose receiver is not connected, and  *)
(* a connection that breaks loses a suffix of what it was sending.  SQLite *)
(* does not fail.  A session ends in the step that cancels it.  `recent'   *)
(* never grows to RECENT_MESSAGE_LIMIT, and B writes nothing itself, so    *)
(* its queue holds only acknowledgements and does not overflow.            *)
(***************************************************************************)
EXTENDS Naturals, Sequences, FiniteSets

CONSTANTS
  N,            \* how many messages are written
  ResendLimit,  \* CHAT_RESEND_LIMIT
  QueueLimit,   \* RELIABLE_QUEUE_LIMIT
  MaxFaults,    \* bound: broken connections, stops and crashes
  MaxEpochs     \* bound: how often a new record period is started

ASSUME SizeAssumption == N \in Nat
ASSUME LimitAssumption == ResendLimit \in Nat \ {0} /\ QueueLimit \in Nat \ {0}
ASSUME BoundAssumption == MaxFaults \in Nat /\ MaxEpochs \in Nat

Msgs == 1 .. N

VARIABLES
  status,   \* messages.status of A's rows; "absent" before, "gone" after
  rowEpoch, \* messages.conversation_epoch of A's rows
  caller,   \* where the send_chat of each message is
  stamp,    \* the epoch that send_chat has read
  epoch,    \* metadata: the current record period
  renewal,  \* where start_new_epoch(delete_old) is
  a,        \* A's session task: "off", "backoff" (no connection), "live"
  chan,     \* the unbounded command channel to it
  queue,    \* SessionState::reliable
  wakes,    \* server.peer online notices that it has not read yet
  wraps,    \* how many envelopes were made for each message
  toB, toA, \* frames on their way: envelopes, acknowledged messages
  b,        \* B's session task
  recent,   \* SessionState::recent of B
  ackQ,     \* SessionState::reliable of B, after a failed send
  received, \* B's rows
  shown,    \* EVENT_MESSAGE_RECEIVED's on B
  faults    \* how many faults there have been

store == <<status, rowEpoch>>
commands == <<caller, stamp, epoch, renewal>>
sessionA == <<a, chan, queue, wakes, wraps>>
sessionB == <<b, recent, ackQ, received, shown>>
wires == <<toB, toA>>
vars == <<store, commands, sessionA, wires, sessionB, faults>>

Envelope == Msgs \X Nat
Callers == {"idle", "stamped", "stored", "enqueued", "done"}
Sessions == {"off", "backoff", "live"}

Init ==
  /\ status = [m \in Msgs |-> "absent"]
  /\ rowEpoch = [m \in Msgs |-> 0]
  /\ caller = [m \in Msgs |-> "idle"]
  /\ stamp = [m \in Msgs |-> 0]
  /\ epoch = 0 /\ renewal = "idle"
  /\ a = "off" /\ chan = <<>> /\ queue = <<>> /\ wakes = 0
  /\ wraps = [m \in Msgs |-> 0]
  /\ toB = <<>> /\ toA = <<>>
  /\ b = "off" /\ recent = {} /\ ackQ = <<>> /\ received = {}
  /\ shown = [m \in Msgs |-> 0]
  /\ faults = 0

-----------------------------------------------------------------------------
(* A's store                                                               *)

Rows == {m \in Msgs : status[m] \notin {"absent", "gone"}}
Undelivered == {m \in Msgs : status[m] \in {"pending", "sent"}}

\* set_status: an UPDATE, which does nothing to a row that is not there.
SetStatus(S, to) == [m \in Msgs |-> IF m \in S \cap Rows THEN to ELSE status[m]]

\* Mutant of Batch: what was sent once is never sent again.
BatchPending ==
  {m \in Undelivered : status[m] = "pending"
     /\ Cardinality({k \in Undelivered : k < m}) < ResendLimit}

\* History::pending: the undelivered rows, oldest first, up to the limit.
Batch ==
  {m \in Undelivered : Cardinality({k \in Undelivered : k < m}) < ResendLimit}

\* The one sequence of these rows that is in order.
BatchInOrder ==
  {s \in [1 .. Cardinality(Batch) -> Batch] :
     \A i, j \in DOMAIN s : i < j => s[i] < s[j]}

Fault == faults < MaxFaults /\ faults' = faults + 1
Prefixes(s) == {SubSeq(s, 1, n) : n \in 0 .. Len(s)}

-----------------------------------------------------------------------------
(* The commands on A                                                       *)

\* send_chat reads the period that the row will belong to ...
ReadEpoch(m) ==
  /\ caller[m] = "idle"
  /\ stamp' = [stamp EXCEPT ![m] = epoch]
  /\ caller' = [caller EXCEPT ![m] = "stamped"]
  /\ UNCHANGED <<store, epoch, renewal, sessionA, wires, sessionB, faults>>

\* ... stores the message before anything else (rows are numbered in order) ...
Insert(m) ==
  /\ caller[m] = "stamped"
  /\ \A k \in Msgs : k < m => caller[k] \notin {"idle", "stamped"}
  /\ status' = [status EXCEPT ![m] = "pending"]
  /\ rowEpoch' = [rowEpoch EXCEPT ![m] = stamp[m]]
  /\ caller' = [caller EXCEPT ![m] = "stored"]
  /\ UNCHANGED <<stamp, epoch, renewal, sessionA, wires, sessionB, faults>>

\* ... hands it to the session task, unless there is none ...
Enqueue(m) ==
  /\ caller[m] = "stored"
  /\ IF a = "off"
     THEN /\ caller' = [caller EXCEPT ![m] = "done"]
          /\ UNCHANGED <<chan, wraps>>
     ELSE /\ caller' = [caller EXCEPT ![m] = "enqueued"]
          /\ chan' = Append(chan, <<m, wraps[m]>>)
          /\ wraps' = [wraps EXCEPT ![m] = @ + 1]
  /\ UNCHANGED <<store, stamp, epoch, renewal, a, queue, wakes, wires, sessionB, faults>>

\* ... and marks it as sent, whatever has happened to it meanwhile.
MarkSent(m) ==
  /\ caller[m] = "enqueued"
  /\ status' = SetStatus({m}, "sent")
  /\ caller' = [caller EXCEPT ![m] = "done"]
  /\ UNCHANGED <<rowEpoch, stamp, epoch, renewal, sessionA, wires, sessionB, faults>>

\* start_new_epoch: the new period; with delete_old, the undelivered rows are
\* moved into it, and then the rows of older periods are deleted.
NewEpoch(deleteOld) ==
  /\ renewal = "idle" /\ epoch < MaxEpochs
  /\ epoch' = epoch + 1
  /\ renewal' = IF deleteOld THEN "carry" ELSE "idle"
  /\ UNCHANGED <<store, caller, stamp, sessionA, wires, sessionB, faults>>

CarryOver ==
  /\ renewal = "carry"
  /\ rowEpoch' = [m \in Msgs |-> IF m \in Undelivered THEN epoch ELSE rowEpoch[m]]
  /\ renewal' = "delete"
  /\ UNCHANGED <<status, caller, stamp, epoch, sessionA, wires, sessionB, faults>>

DeleteOld ==
  /\ renewal = "delete"
  /\ status' = SetStatus({m \in Rows : rowEpoch[m] < epoch}, "gone")
  /\ renewal' = "idle"
  /\ UNCHANGED <<rowEpoch, caller, stamp, epoch, sessionA, wires, sessionB, faults>>

Command(m) == ReadEpoch(m) \/ Insert(m) \/ Enqueue(m) \/ MarkSent(m)
Renewal == NewEpoch(TRUE) \/ NewEpoch(FALSE) \/ CarryOver \/ DeleteOld

-----------------------------------------------------------------------------
(* A's session task                                                        *)

\* resend_pending_chat: every row of the batch goes into the channel again and
\* is marked as sent.
Resend ==
  /\ \E s \in BatchInOrder :
       chan' = chan \o [i \in DOMAIN s |-> <<s[i], wraps[s[i]]>>]
  /\ wraps' = [m \in Msgs |-> wraps[m] + (IF m \in Batch THEN 1 ELSE 0)]
  /\ status' = SetStatus(Batch, "sent")

StartA ==
  /\ a = "off"
  /\ a' = "backoff"
  /\ UNCHANGED <<store, commands, chan, queue, wakes, wraps, wires, sessionB, faults>>

\* Connected: the welcome says whether B is there (publish_peer).
ConnectA ==
  /\ a = "backoff"
  /\ a' = "live"
  /\ IF b = "live" THEN Resend ELSE UNCHANGED <<chan, wraps, status>>
  /\ UNCHANGED <<rowEpoch, commands, queue, wakes, wires, sessionB, faults>>

\* What is in the reliable queue is sent before the next event is looked at.
Idle == a = "live" /\ queue = <<>>

TakeCommand ==
  /\ Idle /\ chan # <<>>
  /\ queue' = <<Head(chan)>>
  /\ chan' = Tail(chan)
  /\ UNCHANGED <<store, commands, a, wakes, wraps, wires, sessionB, faults>>

\* Without a connection commands pile up in the queue.  When it is full the
\* oldest goes, and its message back to "pending" (retry_dropped_chat).
QueueCommand ==
  /\ a = "backoff" /\ chan # <<>>
  /\ chan' = Tail(chan)
  /\ IF Len(queue) < QueueLimit
     THEN queue' = Append(queue, Head(chan)) /\ UNCHANGED status
     ELSE /\ queue' = Append(Tail(queue), Head(chan))
          /\ status' = SetStatus({Head(queue)[1]}, "pending")
  /\ UNCHANGED <<rowEpoch, commands, a, wakes, wraps, wires, sessionB, faults>>

Flush ==
  /\ a = "live" /\ queue # <<>>
  /\ toB' = Append(toB, Head(queue))
  /\ queue' = Tail(queue)
  /\ UNCHANGED <<store, commands, a, chan, wakes, wraps, toA, sessionB, faults>>

\* The send fails or times out: the frame stays at the head of the queue, and
\* may all the same have left.
FlushFails ==
  /\ a = "live" /\ queue # <<>> /\ Fault
  /\ toB' \in Prefixes(Append(toB, Head(queue)))
  /\ a' = "backoff" /\ wakes' = 0
  /\ UNCHANGED <<store, commands, chan, queue, wraps, toA, sessionB>>

PeerOnline ==
  /\ Idle /\ wakes > 0
  /\ wakes' = wakes - 1
  /\ Resend
  /\ UNCHANGED <<rowEpoch, commands, a, queue, wires, sessionB, faults>>

HandleAck ==
  /\ Idle /\ toA # <<>>
  /\ status' = SetStatus({Head(toA)}, "delivered")
  /\ toA' = Tail(toA)
  /\ UNCHANGED <<rowEpoch, commands, sessionA, toB, sessionB, faults>>

LoseA ==
  /\ a = "live" /\ Fault
  /\ a' = "backoff" /\ wakes' = 0
  /\ toB' \in Prefixes(toB)
  /\ UNCHANGED <<store, commands, chan, queue, wraps, toA, sessionB>>

\* disconnect, a fatal error, or the end of the program: the channel and the
\* queue go with the session.  When the program ends, so do the commands.
StopA(crash) ==
  /\ (a # "off" \/ crash) /\ Fault
  /\ a' = "off" /\ chan' = <<>> /\ queue' = <<>> /\ wakes' = 0
  /\ toB' \in Prefixes(toB)
  /\ IF crash
     THEN /\ caller' = [m \in Msgs |-> IF caller[m] = "idle" THEN "idle" ELSE "done"]
          /\ renewal' = "idle"
     ELSE UNCHANGED <<caller, renewal>>
  /\ UNCHANGED <<store, stamp, epoch, wraps, toA, sessionB>>

\* The relay has nobody to forward an acknowledgement to.
DropToA ==
  /\ a # "live" /\ toA # <<>>
  /\ toA' = Tail(toA)
  /\ UNCHANGED <<store, commands, sessionA, toB, sessionB, faults>>

SessionA == TakeCommand \/ Flush \/ PeerOnline \/ HandleAck

-----------------------------------------------------------------------------
(* B's session task                                                        *)

StartB ==
  /\ b = "off"
  /\ b' = "backoff"
  /\ UNCHANGED <<store, commands, sessionA, wires, recent, ackQ, received, shown, faults>>

\* Connected: what is still queued goes out, and the relay tells A.
ConnectB ==
  /\ b = "backoff"
  /\ b' = "live"
  /\ toA' = toA \o ackQ /\ ackQ' = <<>>
  /\ wakes' = IF a = "live" THEN wakes + 1 ELSE wakes
  /\ UNCHANGED <<store, commands, a, chan, queue, wraps, toB, recent, received, shown, faults>>

\* Mutant of Accept: only envelopes are compared, not messages.
AcceptAgain(e) ==
  /\ recent' = recent \cup {e}
  /\ received' = received \cup {e[1]}
  /\ shown' = [shown EXCEPT ![e[1]] = @ + 1]

\* handle_binary, CHAT_TEXT: an envelope that was seen before is ignored
\* without an answer; a message that was stored before is only acknowledged.
Accept(e) ==
  /\ recent' = recent \cup {e}
  /\ received' = received \cup {e[1]}
  /\ shown' = [shown EXCEPT ![e[1]] = IF e[1] \in received THEN @ ELSE @ + 1]

Receive ==
  /\ b = "live" /\ toB # <<>>
  /\ toB' = Tail(toB)
  /\ IF Head(toB) \in recent
     THEN UNCHANGED <<toA, recent, received, shown>>
     ELSE Accept(Head(toB)) /\ toA' = Append(toA, Head(toB)[1])
  /\ UNCHANGED <<store, commands, sessionA, b, ackQ, faults>>

\* The acknowledgement cannot be sent: it waits in B's queue for a connection.
AckFails ==
  /\ b = "live" /\ toB # <<>> /\ Head(toB) \notin recent /\ Fault
  /\ Accept(Head(toB))
  /\ toB' = Tail(toB)
  /\ toA' \in Prefixes(Append(toA, Head(toB)[1]))
  /\ ackQ' = Append(ackQ, Head(toB)[1])
  /\ b' = "backoff"
  /\ UNCHANGED <<store, commands, sessionA>>

LoseB ==
  /\ b = "live" /\ Fault
  /\ b' = "backoff"
  /\ toA' \in Prefixes(toA)
  /\ UNCHANGED <<store, commands, sessionA, toB, recent, ackQ, received, shown>>

StopB ==
  /\ b # "off" /\ Fault
  /\ b' = "off" /\ recent' = {} /\ ackQ' = <<>>
  /\ toA' \in Prefixes(toA)
  /\ UNCHANGED <<store, commands, sessionA, toB, received, shown>>

DropToB ==
  /\ b # "live" /\ toB # <<>>
  /\ toB' = Tail(toB)
  /\ UNCHANGED <<store, commands, sessionA, toA, sessionB, faults>>

DeviceA ==
  \/ StartA \/ ConnectA \/ QueueCommand \/ SessionA
  \/ FlushFails \/ LoseA \/ StopA(TRUE) \/ StopA(FALSE) \/ DropToA
DeviceB ==
  StartB \/ ConnectB \/ Receive \/ AckFails \/ LoseB \/ StopB \/ DropToB

Next == DeviceA \/ DeviceB \/ Renewal \/ \E m \in Msgs : Command(m)

Spec == Init /\ [][Next]_vars

\* A session task that has something to do does it, a connection is tried
\* again and again, and a command that has begun goes on.  Nothing makes a
\* user write, connect or clear the records.
FairSpec ==
  /\ Spec
  /\ WF_vars(SessionA) /\ WF_vars(ConnectA) /\ WF_vars(ConnectB) /\ WF_vars(Receive)
  /\ \A m \in Msgs : WF_vars(Insert(m) \/ Enqueue(m) \/ MarkSent(m))

-----------------------------------------------------------------------------
(* Correctness                                                             *)

TypeOK ==
  /\ status \in [Msgs -> {"absent", "pending", "sent", "delivered", "gone"}]
  /\ rowEpoch \in [Msgs -> Nat] /\ stamp \in [Msgs -> Nat] /\ epoch \in Nat
  /\ caller \in [Msgs -> Callers]
  /\ renewal \in {"idle", "carry", "delete"}
  /\ a \in Sessions /\ b \in Sessions
  /\ chan \in Seq(Envelope) /\ queue \in Seq(Envelope) /\ toB \in Seq(Envelope)
  /\ toA \in Seq(Msgs) /\ ackQ \in Seq(Msgs)
  /\ wakes \in Nat /\ wraps \in [Msgs -> Nat]
  /\ recent \subseteq Envelope /\ received \subseteq Msgs
  /\ shown \in [Msgs -> Nat] /\ faults \in Nat

Chat == INSTANCE Mailbox WITH
  Messages <- Msgs,
  kept <- {m \in Msgs : status[m] # "absent"},
  ticked <- {m \in Msgs : status[m] = "delivered"}

\* Retries, duplicates, lost acknowledgements and restarts implement a chat
\* that shows a message at most once and ticks it only when B has it.
MailboxSpec == Chat!Spec

BothOnline == a = "live" /\ b = "live"

\* Once both devices stay online every message that A has stored reaches B,
\* whatever was lost before: a row that is neither received nor deleted will be
\* sent again.
Arrives ==
  \A m \in Msgs : []<>(BothOnline /\ status[m] \in {"pending", "sent"} => m \in received)

\* The messages of the frames in a channel or queue, or on a wire.
Carried(s) == {s[i][1] : i \in DOMAIN s}

\* While both devices are online, a row that B does not have is in somebody's
\* hands: its send_chat has yet to hand it over, a frame of it is on its way,
\* or a notice is waiting that makes A send it again (resend_pending_chat).
\* Whatever broke, stopped or was deleted before, no row waits for an event
\* that need not come.  Rows beyond the limit of one resend do: the run has
\* fewer.
NothingStranded ==
  BothOnline =>
    \A m \in Undelivered \ received :
      \/ caller[m] = "stored"
      \/ m \in Carried(chan) \cup Carried(queue) \cup Carried(toB)
      \/ wakes > 0

\* Clearing the records never deletes a message that B has not received.
UndeliveredIsKept == \A m \in Msgs : status[m] = "gone" => m \in received

\* A message that was marked as delivered stays so.
DeliveredStays ==
  [][\A m \in Msgs : status[m] = "delivered" => status'[m] \in {"delivered", "gone"}]_vars
=============================================================================
