------------------------------ MODULE FirstBytes ------------------------------
(***************************************************************************)
(* The first bytes of a connection: how the client turns the address into   *)
(* one, the adapter that writes the first of them apart from the rest       *)
(* (client.rs, SplitFirstWrite), and the relay's reader, which must stop at *)
(* the end of the request's head (http.rs).                                *)
(*                                                                         *)
(* Abstractions.  A byte is a line feed, a carriage return or another one.  *)
(* With TLS the bytes are those of its records; a proxy in between passes   *)
(* on what they carry.  The caller may write more before it is answered.    *)
(***************************************************************************)
EXTENDS Naturals, SequencesExt

CONSTANTS
  SplitHead,  \* SPLIT_HEAD_BYTES
  MaxHead,    \* MAX_REQUEST_HEAD_BYTES
  Capacity,   \* bound: bytes under way
  MaxBytes    \* bound: bytes a caller writes

FirstBytesAssumption == {SplitHead, MaxHead, Capacity, MaxBytes} \subseteq Nat \ {0}

Schemes == {"none", "http", "https", "ws", "wss"}
HostKinds == {"name", "literal"} \* a literal is an address or localhost
Bytes == {"x", "\r", "\n"}

VARIABLES
  scheme, host, \* of what the user has typed
  data,     \* what the caller writes
  written,  \* how much of it the adapter has taken
  split,    \* SplitState: first, napping, done
  head,     \* of First
  first,    \* bytes in the first write, 0 before
  rested,   \* SPLIT_GAP has passed since
  hasty,    \* the rest was written before
  channel,  \* bytes under way
  buffer,   \* what the relay has read
  answer    \* of the relay: none, head (read), refused, 101

address == <<scheme, host>>
adapter == <<written, split, head, first, rested, hasty>>
vars == <<address, data, adapter, channel, buffer, answer>>

\* looks_like_plaintext_host.
LooksPlaintext == host = "literal"

\* build_upgrade_url: wss for names, unless the user says otherwise.
Secure == scheme \in {"https", "wss"} \/ (scheme = "none" /\ ~LooksPlaintext)

\* is_plaintext_endpoint: whether the page warns.
IsPlaintext == scheme \in {"http", "ws"} \/ (scheme = "none" /\ LooksPlaintext)

\* open: what is split.
HostIsAName == ~LooksPlaintext
Split == Secure /\ HostIsAName

Init ==
  /\ scheme \in Schemes /\ host \in HostKinds
  /\ data \in SeqOf(Bytes, MaxBytes) \ {<<>>}
  /\ written = 0 /\ first = 0 /\ rested = FALSE /\ hasty = FALSE
  /\ split = (IF Split THEN "first" ELSE "done") /\ head = SplitHead
  /\ channel = <<>> /\ buffer = <<>> /\ answer = "none"

-----------------------------------------------------------------------------
(* SplitFirstWrite                                                         *)

Least(x, y) == IF x < y THEN x ELSE y
Room == Capacity - Len(channel)

\* The socket takes n of the next bytes.
Wrote(n) ==
  /\ channel' = channel \o SubSeq(data, written + 1, written + n)
  /\ written' = written + n
  /\ first' = IF first = 0 THEN n ELSE first
  /\ hasty' = (hasty \/ (Split /\ first > 0 /\ ~rested))

\* Mutant of Kept: what mem::replace has left stays.
KeptDone(h) == split' = "done" /\ head' = h

\* A first write that does not go through is tried again in the same way.
Kept(h) == split' = "first" /\ head' = h

\* poll_write in First, for the next k bytes: the socket (or the TLS stream
\* in the middle of its handshake) may not be ready.
PollFirst(k) ==
  /\ split = "first"
  /\ LET h == Least(head, k) IN
     \/ Kept(h) /\ UNCHANGED <<written, first, hasty, channel>>
     \/ \E n \in 1 .. Least(h, Room) : Wrote(n) /\ split' = "napping" /\ UNCHANGED head
  /\ UNCHANGED <<address, data, rested, buffer, answer>>

\* poll_write when the nap is over, or there is none.
PollRest(k) ==
  /\ split = "done" \/ (split = "napping" /\ rested)
  /\ \E n \in 1 .. Least(k, Room) : Wrote(n)
  /\ split' = "done"
  /\ UNCHANGED <<address, data, head, rested, buffer, answer>>

Write == \E k \in 1 .. (Len(data) - written) : PollFirst(k) \/ PollRest(k)

Wake ==
  /\ first > 0 /\ ~rested /\ rested' = TRUE
  /\ UNCHANGED <<address, data, written, split, head, first, hasty, channel, buffer, answer>>

-----------------------------------------------------------------------------
(* read_request_head                                                       *)

Blank(s) == IsSuffix(<<"\r", "\n", "\r", "\n">>, s) \/ IsSuffix(<<"\n", "\n">>, s)

\* head_end looks at all that has been read.
HeadEnd == \E k \in 1 .. Len(buffer) : Blank(SubSeq(buffer, 1, k))

\* One byte at a time.
Amount == 1

Read ==
  /\ answer = "none" /\ ~HeadEnd /\ Len(buffer) < MaxHead /\ channel # <<>>
  /\ buffer' = buffer \o SubSeq(channel, 1, Amount)
  /\ channel' = SubSeq(channel, Amount + 1, Len(channel))
  /\ UNCHANGED <<address, data, adapter, answer>>

TooLarge ==
  /\ answer = "none" /\ ~HeadEnd /\ Len(buffer) >= MaxHead
  /\ answer' = "refused"
  /\ UNCHANGED <<address, data, adapter, channel, buffer>>

\* parse_head; whether the lines are well formed is left open.
ParseHead ==
  /\ answer = "none" /\ HeadEnd
  /\ answer' \in {"head", "refused"}
  /\ UNCHANGED <<address, data, adapter, channel, buffer>>

\* write_response, or write_upgrade with frames to follow.
Respond ==
  /\ answer = "head" /\ answer' \in {"refused", "101"}
  /\ UNCHANGED <<address, data, adapter, channel, buffer>>

Next == Write \/ Wake \/ Read \/ TooLarge \/ ParseHead \/ Respond

Spec == Init /\ [][Next]_vars

-----------------------------------------------------------------------------

TypeOK ==
  /\ scheme \in Schemes /\ host \in HostKinds
  /\ data \in Seq(Bytes) /\ written \in 0 .. Len(data)
  /\ split \in {"first", "napping", "done"} /\ head \in 1 .. SplitHead
  /\ first \in 0 .. MaxBytes /\ {rested, hasty} \subseteq BOOLEAN
  /\ Len(channel) <= Capacity /\ Len(buffer) <= MaxHead
  /\ answer \in {"none", "head", "refused", "101"}

\* A connection that needs it begins with a short piece and a pause, whatever
\* the socket takes when, and no byte is lost, repeated or out of order.
SplitHolds ==
  /\ buffer \o channel = SubSeq(data, 1, written)
  /\ Split => first <= SplitHead /\ ~hasty
  /\ IsPlaintext <=> ~Secure

\* What the relay takes for the head ends with the first blank line, so that
\* the frames behind an upgrade are still there, and it gives up on a head
\* only when it is too large.
HeadIsExact ==
  /\ answer \in {"head", "101"} =>
       /\ Blank(buffer)
       /\ \A k \in 1 .. Len(buffer) - 1 : ~Blank(SubSeq(data, 1, k))
  /\ answer = "refused" /\ ~HeadEnd => \A k \in 1 .. Least(MaxHead, Len(data)) : ~Blank(SubSeq(data, 1, k))

=============================================================================
