------------------------------- MODULE ChatView -------------------------------
(***************************************************************************)
(* The messages one window shows (composables/usePairChat.ts) against the   *)
(* database they come from (history.rs): pages that are asked for and       *)
(* answered later, events about single messages, the answers to the        *)
(* window's own sends, and the start of a new record period.               *)
(*                                                                         *)
(* Abstractions.  A message is its seq and its status; attachments change   *)
(* in the same way.  The steps of start_new_epoch are those of             *)
(* ChatDelivery, here it is one.  Events reach the window in the order in   *)
(* which they are emitted; answers to calls come on a way of their own.    *)
(***************************************************************************)
EXTENDS Naturals, Sequences, FiniteSets, FiniteSetsExt

CONSTANTS
  MaxRows,    \* bound: messages ever stored
  PageSize,   \* PAGE_SIZE
  MaxPeriods, \* bound: record periods
  MaxLoads,   \* bound: pages ever asked for
  MaxNotes    \* bound: events and answers to sends on their way at once

ViewAssumption == {MaxRows, PageSize, MaxPeriods, MaxLoads, MaxNotes} \subseteq Nat \ {0}

Deleted == 0
Newest == MaxRows + 1 \* `before' of the latest page

VARIABLES
  rows,       \* the table: of each seq the period and the status
  period,     \* the current record period
  drafts,     \* rows read for an event that is not emitted yet
  news,       \* events on their way to the window
  replies,    \* pair_send_chat on its way: a seq, and the status once it is read
  pages,      \* pair_history_list on its way
  shown,      \* messages: seq -> status
  hasMore, loading, generation,
  loads,      \* pages asked for so far
  filled,     \* the current generation's latest page has arrived
  crossed     \* rows that changed while older news of them was on its way

db == <<rows, period>>
window == <<shown, hasMore, loading, generation, loads, filled>>
vars == <<db, drafts, news, replies, pages, window, crossed>>

Seqs == DOMAIN rows
Reset == [seq |-> 0, status |-> "reset"]
Note(seq, status) == [seq |-> seq, status |-> status]

Init ==
  /\ \E n \in 0 .. MaxRows - 1 :
       rows = [i \in 1 .. n |-> [period |-> 1, status |-> "received"]]
  /\ period = 1
  /\ drafts = {} /\ news = <<>> /\ replies = {} /\ pages = {}
  /\ shown = <<>> /\ hasMore = FALSE /\ loading = FALSE
  /\ generation = 0 /\ loads = 0 /\ filled = FALSE
  /\ crossed = {}

-----------------------------------------------------------------------------
(* Rust                                                                    *)

\* Something that was read before a change of row r has yet to arrive.
OnItsWay(r) ==
  \/ \E p \in pages : p.read /\ (p.before = Newest \/ r \in DOMAIN p.rows)
  \/ \E d \in drafts \cup replies : d.seq = r /\ d.status # "unread"
  \/ \E i \in DOMAIN news : news[i].seq = r

Crosses(r) == crossed' = IF OnItsWay(r) THEN crossed \cup {r} ELSE crossed

Room(n) == Cardinality(drafts) + Len(news) + Cardinality(replies) + n <= MaxNotes

Store(status) ==
  /\ Len(rows) < MaxRows /\ Room(1)
  /\ rows' = Append(rows, [period |-> period, status |-> status])
  /\ Crosses(Len(rows) + 1)
  /\ UNCHANGED <<period, news, pages, window>>

\* handle_binary (CHAT_TEXT).
Receive ==
  /\ Store("received")
  /\ drafts' = drafts \cup {Note(Len(rows) + 1, "received")}
  /\ UNCHANGED replies

\* send_chat, from this window or another: the row is stored as pending, and
\* nothing is emitted until a session takes it (Publish).
Send ==
  \E here \in BOOLEAN :
    /\ Store("pending")
    /\ replies' = IF here THEN replies \cup {Note(Len(rows) + 1, "unread")} ELSE replies
    /\ UNCHANGED drafts

\* send_chat ends with reading the row once more.
ReadReply ==
  \E r \in replies :
    /\ r.status = "unread"
    /\ replies' = (replies \ {r}) \cup {Note(r.seq, rows[r.seq].status)}
    /\ UNCHANGED <<db, drafts, news, pages, window, crossed>>

After == [pending |-> "sent", sent |-> "delivered"]

\* publish_message_status: the row is updated and read, the event comes later.
Publish(r) ==
  /\ rows[r].period # Deleted /\ rows[r].status \in DOMAIN After /\ Room(1)
  /\ LET status == After[rows[r].status]
     IN /\ rows' = [rows EXCEPT ![r].status = status]
        /\ drafts' = drafts \cup {Note(r, status)}
  /\ Crosses(r)
  /\ UNCHANGED <<period, news, replies, pages, window>>

\* sink.emit, of several threads in any order.
Emit ==
  \E d \in drafts :
    /\ drafts' = drafts \ {d} /\ news' = Append(news, d)
    /\ UNCHANGED <<db, replies, pages, window, crossed>>

\* start_new_epoch; what is not delivered yet outlives the deletion.  The
\* preferences page that asked for it tells the windows when it is done.
StartNewEpoch ==
  \E delete \in BOOLEAN :
    /\ period < MaxPeriods /\ loads < MaxLoads /\ Room(1)
    /\ period' = period + 1
    /\ rows' = IF ~delete THEN rows
               ELSE [r \in Seqs |->
                      [rows[r] EXCEPT !.period =
                        IF rows[r].status \in DOMAIN After /\ @ # Deleted THEN period + 1 ELSE Deleted]]
    /\ drafts' = drafts \cup {Reset}
    /\ UNCHANGED <<news, replies, pages, window, crossed>>

Matching(before) == {r \in Seqs : rows[r].period = period /\ r < before}

\* PairHistory::list.
Page(before) ==
  {r \in Matching(before) : Cardinality({s \in Matching(before) : s > r}) < PageSize}

ReadPage ==
  \E p \in pages :
    /\ ~p.read
    /\ pages' = (pages \ {p}) \cup
         {[p EXCEPT !.read = TRUE,
                    !.rows = [r \in Page(p.before) |-> rows[r].status],
                    !.more = Page(p.before) # Matching(p.before)]}
    /\ UNCHANGED <<db, drafts, news, replies, window, crossed>>

-----------------------------------------------------------------------------
(* The window                                                              *)

Asked(before, g) ==
  pages' = pages \cup
    {[of |-> g, before |-> before, read |-> FALSE, rows |-> <<>>, more |-> FALSE]}

\* loadLatest.
LoadLatest ==
  /\ loads < MaxLoads /\ loads' = loads + 1
  /\ generation' = generation + 1 /\ loading' = TRUE /\ filled' = FALSE
  /\ Asked(Newest, generation + 1)
  /\ UNCHANGED <<shown, hasMore>>

Mounted ==
  /\ generation = 0 /\ LoadLatest
  /\ UNCHANGED <<db, drafts, news, replies, crossed>>

\* loadOlder.
LoadOlder ==
  /\ ~loading /\ hasMore /\ shown # <<>>
  /\ loads < MaxLoads /\ loads' = loads + 1
  /\ loading' = TRUE
  /\ Asked(Min(DOMAIN shown), generation)
  /\ UNCHANGED <<db, drafts, news, replies, shown, hasMore, generation, filled, crossed>>

\* upsertMessage, mergeMessages.
Upserted(incoming) == [r \in DOMAIN shown \cup DOMAIN incoming |->
                        IF r \in DOMAIN incoming THEN incoming[r] ELSE shown[r]]

Latest(p) == p.before = Newest

\* Mutant of Mine: only the latest page is compared with the generation.
MineLatest(p) == Latest(p) => p.of = generation

\* mine === generation.
Mine(p) == p.of = generation

PageArrives ==
  \E p \in pages :
    /\ p.read /\ pages' = pages \ {p}
    /\ IF Mine(p)
       THEN /\ shown' = IF Latest(p) THEN p.rows ELSE Upserted(p.rows)
            /\ hasMore' = p.more /\ loading' = FALSE
            /\ filled' = (filled \/ Latest(p))
       ELSE UNCHANGED <<shown, hasMore, loading, filled>>
    /\ UNCHANGED <<db, drafts, news, replies, generation, loads, crossed>>

PageFails ==
  \E p \in pages :
    /\ ~p.read /\ pages' = pages \ {p}
    /\ loading' = (loading /\ p.of # generation)
    /\ UNCHANGED <<db, drafts, news, replies, shown, hasMore, generation, loads, filled, crossed>>

\* What an event about an older message, or one of another period, leaves out.
Skipped(r) ==
  IF rows[r].period # period THEN {r} \cup {s \in Seqs : s > r}
  ELSE IF shown = <<>> THEN {}
  ELSE {s \in Seqs : r < s /\ s < Min(DOMAIN shown)}

\* apply, or the window's reaction to a new period.
Hear ==
  /\ news # <<>> /\ news' = Tail(news)
  /\ IF Head(news) = Reset
     THEN LoadLatest /\ UNCHANGED crossed
     ELSE LET n == Head(news)
          IN /\ shown' = Upserted([r \in {n.seq} |-> n.status])
             /\ crossed' = crossed \cup Skipped(n.seq)
             /\ UNCHANGED <<pages, hasMore, loading, generation, loads, filled>>
  /\ UNCHANGED <<db, drafts, replies>>

ReplyArrives ==
  \E r \in replies :
    /\ r.status # "unread" /\ replies' = replies \ {r}
    /\ shown' = Upserted([s \in {r.seq} |-> r.status])
    /\ crossed' = crossed \cup Skipped(r.seq)
    /\ UNCHANGED <<db, drafts, news, pages, hasMore, loading, generation, loads, filled>>

Rust == Receive \/ Send \/ ReadReply \/ Emit \/ StartNewEpoch \/ ReadPage \/ \E r \in Seqs : Publish(r)
WindowStep == Mounted \/ LoadOlder \/ PageArrives \/ PageFails \/ Hear \/ ReplyArrives

Next == Rust \/ WindowStep

Spec == Init /\ [][Next]_vars

-----------------------------------------------------------------------------
(* Correctness                                                             *)

TypeOK ==
  /\ crossed \subseteq Seqs /\ DOMAIN shown \subseteq Seqs
  /\ loading <=> \E p \in pages : Mine(p)

Quiet == pages = {} /\ drafts = {} /\ news = <<>> /\ replies = {} /\ filled

Owned(r) == rows[r].period = period /\ rows[r].status # "pending"
Given(r) == r \in DOMAIN shown /\ shown[r] = rows[r].status
Above(r) == hasMore /\ \A s \in DOMAIN shown : r < s

\* When nothing is on its way any more, the window shows what the database
\* has: every message of the current period with its status, or it knows that
\* there are more above; and nothing of an old period, whenever pages of that
\* were asked for (the generation in usePairChat.ts).  The exceptions are the
\* messages that changed while something read earlier was still to come.
ShownIsStored ==
  Quiet => \A r \in Seqs \ crossed :
             /\ Owned(r) => Given(r) \/ Above(r)
             /\ r \in DOMAIN shown => rows[r].period = period

=============================================================================
