--------------------------- MODULE MCPartsProofs ----------------------------
(* Theorems about the parts that MCParts checks side by side, first those   *)
(* of the relays, the session, the process and what the peer sees.  Each     *)
(* part has an inductive invariant of its own; a step of the whole is a step *)
(* of a part or leaves it alone, and that is all that joins them.            *)
EXTENDS MCParts, SequenceTheorems, TLAPS

-----------------------------------------------------------------------------
(* The loop of sends                                                        *)

\* Each number of s is below each of t.
Below(s, t) == \A i \in 1 .. Len(s), j \in 1 .. Len(t) : s[i] < t[j]
Rising(s) == \A i, j \in 1 .. Len(s) : i < j => s[i] < s[j]

Elements(s) == {s[i] : i \in 1 .. Len(s)}

\* The texts that were written are in the three queues, one behind the other,
\* or were given back.
LinedUp ==
  /\ wrote \in Nat
  /\ gone \in Seq(Nat) /\ reliable \in Seq(Nat) /\ mail \in Seq(Nat)
  /\ 1 .. wrote = back \cup Elements(gone) \cup Elements(reliable) \cup Elements(mail)
  /\ Rising(gone) /\ Rising(reliable) /\ Rising(mail)
  /\ Below(gone, reliable) /\ Below(gone, mail) /\ Below(reliable, mail)

LEMMA LoopNumbers ==
  /\ QueueLimit \in Nat \ {0}
  /\ RetryInterval \in Nat \ {0}
BY Assumptions DEF Assumptions, Loop!SendLoopAssumption

LEMMA InitLinedUp == Loop!Init => LinedUp
<1> SUFFICES ASSUME Loop!Init PROVE LinedUp
  OBVIOUS
<1>1. /\ wrote = 0 /\ gone = <<>> /\ reliable = <<>> /\ mail = <<>> /\ back = {}
      /\ Len(<<>>) = 0 /\ 1 .. 0 = {} /\ <<>> \in Seq(Nat)
  BY DEF Loop!Init
<1> QED
  BY <1>1 DEF LinedUp, Rising, Below, Elements

\* What the end of a queue and its rest have to do with the queue.
LEMMA HeadAndTail ==
  ASSUME NEW s \in Seq(Nat), s # <<>>
  PROVE  /\ Tail(s) \in Seq(Nat) /\ Head(s) \in Nat
         /\ Elements(s) = {Head(s)} \cup Elements(Tail(s))
         /\ Rising(s) => Rising(Tail(s)) /\ \A j \in 1 .. Len(Tail(s)) : Head(s) < Tail(s)[j]
         /\ \A t : Below(s, t) => Below(Tail(s), t) /\ \A j \in 1 .. Len(t) : Head(s) < t[j]
         /\ \A t : Below(t, s) => Below(t, Tail(s)) /\ \A j \in 1 .. Len(t) : t[j] < Head(s)
<1>1. /\ Len(s) \in Nat \ {0} /\ Tail(s) \in Seq(Nat) /\ Len(Tail(s)) = Len(s) - 1
      /\ Head(s) = s[1] /\ Head(s) \in Nat
      /\ \A i \in 1 .. Len(s) - 1 : Tail(s)[i] = s[i + 1]
  BY HeadTailProperties, EmptySeq, LenProperties
<1>2. Elements(s) = {Head(s)} \cup Elements(Tail(s))
  <2>2. \A i \in 1 .. Len(s) - 1 : i + 1 \in 1 .. Len(s)
    BY <1>1
  <2>4. ASSUME NEW i \in 1 .. Len(s)
        PROVE  s[i] \in {Head(s)} \cup Elements(Tail(s))
    <3>1. CASE i = 1
      BY <1>1, <3>1
    <3>2. CASE i # 1
      <4>1. i - 1 \in 1 .. Len(s) - 1 /\ (i - 1) + 1 = i
        BY <1>1, <3>2
      <4>2. Tail(s)[i - 1] = s[i]
        BY <1>1, <4>1
      <4> QED
        BY <1>1, <4>1, <4>2 DEF Elements
    <3> QED
      BY <3>1, <3>2
  <2>5. Head(s) \in Elements(s)
    BY <1>1 DEF Elements
  <2>6. Elements(Tail(s)) \subseteq Elements(s)
    BY <1>1, <2>2 DEF Elements
  <2>7. Elements(s) \subseteq {Head(s)} \cup Elements(Tail(s))
    BY <2>4 DEF Elements
  <2> QED
    BY <2>5, <2>6, <2>7
<1>3. \A i \in 1 .. Len(Tail(s)) : i + 1 \in 1 .. Len(s) /\ Tail(s)[i] = s[i + 1] /\ 1 < i + 1
  BY <1>1
<1>4. 1 \in 1 .. Len(s)
  BY <1>1
<1>5. Rising(s) => Rising(Tail(s)) /\ \A j \in 1 .. Len(Tail(s)) : Head(s) < Tail(s)[j]
  <2>1. \A i, j \in 1 .. Len(Tail(s)) : i < j => i + 1 < j + 1
    BY <1>1
  <2> QED
    BY <1>1, <1>3, <1>4, <2>1 DEF Rising
<1>6. \A t : Below(s, t) => Below(Tail(s), t) /\ \A j \in 1 .. Len(t) : Head(s) < t[j]
  BY <1>1, <1>3, <1>4 DEF Below
<1>7. \A t : Below(t, s) => Below(t, Tail(s)) /\ \A j \in 1 .. Len(t) : t[j] < Head(s)
  BY <1>1, <1>3, <1>4 DEF Below
<1> QED
  BY <1>1, <1>2, <1>5, <1>6, <1>7

LEMMA OneBehind ==
  ASSUME NEW s \in Seq(Nat), NEW n \in Nat
  PROVE  /\ Append(s, n) \in Seq(Nat)
         /\ Elements(Append(s, n)) = Elements(s) \cup {n}
         /\ Rising(s) /\ (\A j \in 1 .. Len(s) : s[j] < n) => Rising(Append(s, n))
         /\ \A t : Below(s, t) /\ (\A j \in 1 .. Len(t) : n < t[j]) => Below(Append(s, n), t)
         /\ \A t : Below(t, s) /\ (\A j \in 1 .. Len(t) : t[j] < n) => Below(t, Append(s, n))
<1>1. /\ Len(s) \in Nat /\ Append(s, n) \in Seq(Nat) /\ Len(Append(s, n)) = Len(s) + 1
      /\ Append(s, n)[Len(s) + 1] = n
      /\ \A i \in 1 .. Len(s) : Append(s, n)[i] = s[i]
  BY AppendProperties, LenProperties
<1>2. \A i \in 1 .. Len(s) + 1 : i \in 1 .. Len(s) \/ i = Len(s) + 1
  BY <1>1
<1>3. Elements(Append(s, n)) = Elements(s) \cup {n}
  <2>1. Elements(Append(s, n)) \subseteq Elements(s) \cup {n}
    BY <1>1, <1>2 DEF Elements
  <2>2. \A i \in 1 .. Len(s) : i \in 1 .. Len(s) + 1
    BY <1>1
  <2>3. Len(s) + 1 \in 1 .. Len(s) + 1
    BY <1>1
  <2> QED
    BY <1>1, <2>1, <2>2, <2>3 DEF Elements
<1>4. Rising(s) /\ (\A j \in 1 .. Len(s) : s[j] < n) => Rising(Append(s, n))
  <2>1. \A i, j \in 1 .. Len(s) + 1 : i < j => i \in 1 .. Len(s)
    BY <1>1
  <2> QED
    BY <1>1, <1>2, <2>1 DEF Rising
<1>5. \A t : Below(s, t) /\ (\A j \in 1 .. Len(t) : n < t[j]) => Below(Append(s, n), t)
  BY <1>1, <1>2 DEF Below
<1>6. \A t : Below(t, s) /\ (\A j \in 1 .. Len(t) : t[j] < n) => Below(t, Append(s, n))
  BY <1>1, <1>2 DEF Below
<1> QED
  BY <1>1, <1>3, <1>4, <1>5, <1>6

\* One queue behind another: what is in the line, and that it rises.
LEMMA TwoInLine ==
  ASSUME NEW s \in Seq(Nat), NEW t \in Seq(Nat)
  PROVE  /\ s \o t \in Seq(Nat)
         /\ Elements(s \o t) = Elements(s) \cup Elements(t)
         /\ (Rising(s) /\ Rising(t) /\ Below(s, t) => Rising(s \o t))
         /\ \A u : (Below(s, u) /\ Below(t, u) => Below(s \o t, u))
<1> DEFINE l == s \o t
<1>1. /\ Len(s) \in Nat /\ Len(t) \in Nat
      /\ l \in Seq(Nat) /\ Len(l) = Len(s) + Len(t)
      /\ \A i \in 1 .. Len(s) + Len(t) : l[i] = IF i <= Len(s) THEN s[i] ELSE t[i - Len(s)]
  BY ConcatProperties, LenProperties
<1> HIDE DEF l
<1>2. ASSUME NEW i \in 1 .. Len(l)
      PROVE  \/ i \in 1 .. Len(s) /\ l[i] = s[i]
             \/ i - Len(s) \in 1 .. Len(t) /\ l[i] = t[i - Len(s)] /\ i > Len(s)
  BY <1>1
<1>3. \A i \in 1 .. Len(s) : i \in 1 .. Len(l) /\ l[i] = s[i]
  BY <1>1
<1>4. ASSUME NEW i \in 1 .. Len(t) PROVE i + Len(s) \in 1 .. Len(l) /\ l[i + Len(s)] = t[i]
  <2>1. i + Len(s) \in 1 .. Len(s) + Len(t) /\ ~(i + Len(s) <= Len(s)) /\ (i + Len(s)) - Len(s) = i
    BY <1>1
  <2> QED
    BY <1>1, <2>1
<1>5. Elements(l) = Elements(s) \cup Elements(t)
  <2>1. Elements(l) \subseteq Elements(s) \cup Elements(t)
    BY <1>2 DEF Elements
  <2>2. Elements(s) \subseteq Elements(l)
    BY <1>3 DEF Elements
  <2>3. Elements(t) \subseteq Elements(l)
    BY <1>4 DEF Elements
  <2> QED
    BY <2>1, <2>2, <2>3
<1>6. ASSUME Rising(s), Rising(t), Below(s, t) PROVE Rising(l)
  <2> SUFFICES ASSUME NEW i \in 1 .. Len(l), NEW j \in 1 .. Len(l), i < j PROVE l[i] < l[j]
    BY DEF Rising
  <2>1. CASE j \in 1 .. Len(s) /\ l[j] = s[j]
    <3>1. i \in 1 .. Len(s) /\ l[i] = s[i]
      BY <1>1, <1>3, <2>1
    <3> QED
      BY <1>6, <2>1, <3>1 DEF Rising
  <2>2. CASE j - Len(s) \in 1 .. Len(t) /\ l[j] = t[j - Len(s)] /\ j > Len(s)
    <3>1. CASE i \in 1 .. Len(s) /\ l[i] = s[i]
      BY <1>6, <2>2, <3>1 DEF Below
    <3>2. CASE i - Len(s) \in 1 .. Len(t) /\ l[i] = t[i - Len(s)] /\ i > Len(s)
      <4>1. i - Len(s) < j - Len(s)
        BY <1>1
      <4> QED
        BY <1>6, <2>2, <3>2, <4>1 DEF Rising
    <3> QED
      BY <1>2, <3>1, <3>2
  <2> QED
    BY <1>2, <2>1, <2>2
<1>7. \A u : (Below(s, u) /\ Below(t, u) => Below(l, u))
  BY <1>2 DEF Below
<1> QED
  BY <1>1, <1>5, <1>6, <1>7 DEF l

LEMMA InElements ==
  \A s, n : (\A x \in Elements(s) : x < n) => \A j \in 1 .. Len(s) : s[j] < n
BY DEF Elements

\* A text that is taken goes to the end of the queue, which may push out the
\* oldest one.
LEMMA TakeKeepsLine ==
  ASSUME LinedUp, Loop!TakeText
  PROVE  LinedUp'
<1> USE DEF LinedUp
<1>1. /\ mail # <<>> /\ mail' = Tail(mail) /\ UNCHANGED <<wrote, gone>>
      /\ LET full == Len(reliable) >= QueueLimit
         IN  /\ reliable' = Append(IF full THEN Tail(reliable) ELSE reliable, Head(mail))
             /\ back' = IF full THEN back \cup {Head(reliable)} ELSE back
  BY DEF Loop!TakeText, Loop!Queued
<1>2. PICK m \in Nat : m = Head(mail)
  BY <1>1, HeadAndTail
<1>3. /\ Tail(mail) \in Seq(Nat) /\ Elements(mail) = {m} \cup Elements(Tail(mail))
      /\ Rising(Tail(mail)) /\ \A j \in 1 .. Len(Tail(mail)) : m < Tail(mail)[j]
      /\ Below(gone, Tail(mail)) /\ Below(reliable, Tail(mail))
      /\ \A j \in 1 .. Len(gone) : gone[j] < m
      /\ \A j \in 1 .. Len(reliable) : reliable[j] < m
  BY <1>1, <1>2, HeadAndTail
<1>4. CASE ~(Len(reliable) >= QueueLimit)
  <2>1. reliable' = Append(reliable, m) /\ back' = back
    BY <1>1, <1>2, <1>4
  <2>2. /\ reliable' \in Seq(Nat) /\ Elements(reliable') = Elements(reliable) \cup {m}
        /\ Rising(reliable') /\ Below(reliable', Tail(mail)) /\ Below(gone, reliable')
    BY <1>3, <2>1, OneBehind
  <2> QED
    BY <1>1, <1>3, <2>1, <2>2 DEF Elements, Rising, Below
<1>5. CASE Len(reliable) >= QueueLimit
  <2> DEFINE r == Tail(reliable)
  <2>1. reliable' = Append(r, m) /\ back' = back \cup {Head(reliable)}
    BY <1>1, <1>2, <1>5
  <2>2. reliable # <<>>
    BY <1>5, LoopNumbers, LenProperties, EmptySeq
  <2>3. /\ r \in Seq(Nat) /\ Elements(reliable) = {Head(reliable)} \cup Elements(r)
        /\ Rising(r) /\ Below(gone, r) /\ Below(r, Tail(mail)) /\ Below(r, mail)
    BY <1>3, <2>2, HeadAndTail
  <2>4. \A j \in 1 .. Len(r) : r[j] < m
    BY <1>1, <1>2, <2>3, HeadAndTail
  <2> HIDE DEF r
  <2>5. /\ reliable' \in Seq(Nat) /\ Elements(reliable') = Elements(r) \cup {m}
        /\ Rising(reliable') /\ Below(reliable', Tail(mail)) /\ Below(gone, reliable')
    BY <1>3, <2>1, <2>3, <2>4, OneBehind
  <2> QED
    BY <1>1, <1>3, <2>1, <2>3, <2>5 DEF Elements, Rising, Below
<1> QED
  BY <1>4, <1>5

LEMMA FlushKeepsLine ==
  ASSUME LinedUp, Loop!Flush
  PROVE  LinedUp'
<1> USE DEF LinedUp
<1>1. /\ reliable # <<>> /\ reliable' = Tail(reliable) /\ gone' = Append(gone, Head(reliable))
      /\ UNCHANGED <<wrote, mail, back>>
  BY DEF Loop!Flush
<1>2. PICK m \in Nat : m = Head(reliable)
  BY <1>1, HeadAndTail
<1>3. /\ Tail(reliable) \in Seq(Nat) /\ Elements(reliable) = {m} \cup Elements(Tail(reliable))
      /\ Rising(Tail(reliable)) /\ \A j \in 1 .. Len(Tail(reliable)) : m < Tail(reliable)[j]
      /\ Below(gone, Tail(reliable)) /\ Below(Tail(reliable), mail)
      /\ \A j \in 1 .. Len(gone) : gone[j] < m
      /\ \A j \in 1 .. Len(mail) : m < mail[j]
  BY <1>1, <1>2, HeadAndTail
<1>4. /\ gone' \in Seq(Nat) /\ Elements(gone') = Elements(gone) \cup {m}
      /\ Rising(gone') /\ Below(gone', Tail(reliable)) /\ Below(gone', mail)
  BY <1>1, <1>2, <1>3, OneBehind
<1> QED
  BY <1>1, <1>3, <1>4 DEF Elements, Rising, Below

LEMMA WriteKeepsLine ==
  ASSUME LinedUp, Loop!Write
  PROVE  LinedUp'
<1> USE DEF LinedUp
<1>1. wrote' = wrote + 1 /\ mail' = Append(mail, wrote + 1) /\ UNCHANGED <<reliable, gone, back>>
  BY DEF Loop!Write
<1>2. \A n \in 1 .. wrote : n < wrote + 1
  OBVIOUS
<1>3. /\ \A j \in 1 .. Len(gone) : gone[j] < wrote + 1
      /\ \A j \in 1 .. Len(reliable) : reliable[j] < wrote + 1
      /\ \A j \in 1 .. Len(mail) : mail[j] < wrote + 1
  BY <1>2 DEF Elements
<1>4. PICK n \in Nat : n = wrote + 1
  OBVIOUS
<1>6. mail' = Append(mail, n)
  BY <1>1, <1>4
<1>7. /\ \A j \in 1 .. Len(gone) : gone[j] < n
      /\ \A j \in 1 .. Len(reliable) : reliable[j] < n
      /\ \A j \in 1 .. Len(mail) : mail[j] < n
  BY <1>3, <1>4
<1>8. /\ mail' \in Seq(Nat) /\ Elements(mail') = Elements(mail) \cup {n}
      /\ Rising(mail') /\ Below(gone, mail') /\ Below(reliable, mail')
  BY <1>6, <1>7, OneBehind
<1>5. 1 .. wrote + 1 = 1 .. wrote \cup {wrote + 1}
  OBVIOUS
<1> QED
  BY <1>1, <1>4, <1>5, <1>8 DEF Elements, Rising, Below

LEMMA LoopKeepsLine ==
  ASSUME LinedUp, [Loop!Next]_(Loop!vars)
  PROVE  LinedUp'
<1>1. CASE UNCHANGED Loop!queues
  BY <1>1 DEF Loop!queues, LinedUp, Elements, Rising, Below
<1>2. Loop!SendNextChunk \/ Loop!TakeReplaceable \/ Loop!Inbound \/ Loop!Flushed \/ Loop!Cover
      => UNCHANGED Loop!queues
  BY DEF Loop!SendNextChunk, Loop!TakeReplaceable, Loop!Inbound, Loop!Flushed, Loop!Cover
<1>3. Loop!Drain \/ Loop!Welcome \/ Loop!Lose \/ Loop!Accepted \/ Loop!Move \/ Loop!Tick
      => UNCHANGED Loop!queues
  BY DEF Loop!Drain, Loop!Welcome, Loop!Lose, Loop!Accepted, Loop!Move, Loop!Tick
<1>4. UNCHANGED Loop!vars => UNCHANGED Loop!queues
  BY DEF Loop!vars
<1>5. \/ UNCHANGED Loop!vars
      \/ Loop!SendNextChunk \/ Loop!TakeReplaceable \/ Loop!Inbound \/ Loop!Flushed \/ Loop!Cover
      \/ Loop!Drain \/ Loop!Welcome \/ Loop!Lose \/ Loop!Accepted \/ Loop!Move \/ Loop!Tick
      \/ Loop!TakeText \/ Loop!Flush \/ Loop!Write
  BY DEF Loop!Next, Loop!Loop
<1> QED
  BY <1>1, <1>2, <1>3, <1>4, <1>5, TakeKeepsLine, FlushKeepsLine, WriteKeepsLine

LEMMA LineIsAccounted == LinedUp => Loop!TextsAccounted
<1> SUFFICES ASSUME LinedUp PROVE Loop!TextsAccounted
  OBVIOUS
<1> USE DEF LinedUp
<1> DEFINE sent_on == gone \o reliable
           line == sent_on \o mail
<1>1. /\ sent_on \in Seq(Nat) /\ Rising(sent_on) /\ Below(sent_on, mail)
      /\ Elements(sent_on) = Elements(gone) \cup Elements(reliable)
  BY TwoInLine
<1> HIDE DEF sent_on
<1>2. /\ line \in Seq(Nat) /\ Rising(line) /\ Elements(line) = Elements(sent_on) \cup Elements(mail)
  BY <1>1, TwoInLine
<1> HIDE DEF line
<1>3. Len(line) \in Nat /\ DOMAIN line = 1 .. Len(line)
  BY <1>2, LenProperties
<1>4. Loop!ToSet(line) = Elements(line)
  BY <1>3 DEF Loop!ToSet, Elements
<1>5. ASSUME NEW i \in 2 .. Len(line) PROVE line[i - 1] < line[i]
  <2>1. i - 1 \in 1 .. Len(line) /\ i \in 1 .. Len(line) /\ i - 1 < i
    BY <1>3
  <2> QED
    BY <1>2, <2>1 DEF Rising
<1>6. 1 .. wrote = back \cup Loop!ToSet(line)
  BY <1>1, <1>2, <1>4
<1> QED
  BY <1>5, <1>6 DEF Loop!TextsAccounted, line, sent_on

-----------------------------------------------------------------------------
(* The sleep before a chunk                                                *)

\* The pacers never hold more than their bursts; and while the loop selects,
\* the sleep is long enough for those who pay for the next chunk to have its
\* price at the end of it.
Saved ==
  /\ todo \in Nat /\ sleep \in Nat
  /\ tokens \in [Loop!Pacers -> Int] /\ elapsed \in [Loop!Pacers -> Nat]
  /\ \A p \in Loop!Pacers : 0 <= tokens[p] /\ tokens[p] <= Loop!Bursts[p]

SleepsEnough ==
  /\ (todo = 0 => sleep = Loop!Pending)
  /\ (todo > 0 => \A p \in Loop!Paying : tokens[p] + elapsed[p] + sleep >= Loop!Prices[p])

Saving == Saved /\ (doing = "select" => SleepsEnough)

LEMMA PacerNumbers ==
  /\ Loop!Prices \in [Loop!Pacers -> Nat] /\ Loop!Bursts \in [Loop!Pacers -> Nat]
  /\ \A p \in Loop!Pacers : Loop!Prices[p] <= Loop!Bursts[p]
  /\ RetryInterval \in Nat \ {0} /\ Chunks \in Nat \ {0}
  /\ Loop!Pending \in Nat \ {0}
<1>1. /\ {FramePrice, ChunkPrice, DirectPrice} \subseteq Nat \ {0}
      /\ {FrameBurst, ChunkBurst, DirectBurst} \subseteq Nat
      /\ FramePrice <= FrameBurst /\ ChunkPrice <= ChunkBurst /\ DirectPrice <= DirectBurst
      /\ RetryInterval \in Nat \ {0} /\ Chunks \in Nat \ {0}
  BY Assumptions DEF Assumptions, Loop!SendLoopAssumption
<1>2. /\ Loop!Prices \in [Loop!Pacers -> Nat] /\ Loop!Bursts \in [Loop!Pacers -> Nat]
      /\ \A p \in Loop!Pacers : Loop!Prices[p] <= Loop!Bursts[p]
  BY <1>1 DEF Loop!Prices, Loop!Bursts, Loop!Pacers
<1>3. Loop!Longest \in Nat
  <2>1. {Loop!Bursts[p] : p \in Loop!Pacers} = {FrameBurst, ChunkBurst, DirectBurst}
    BY DEF Loop!Bursts, Loop!Pacers
  <2>2. \E x \in {FrameBurst, ChunkBurst, DirectBurst} :
          \A y \in {FrameBurst, ChunkBurst, DirectBurst} : x >= y
    <3>1. CASE FrameBurst >= ChunkBurst /\ FrameBurst >= DirectBurst
      BY <1>1, <3>1
    <3>2. CASE ChunkBurst >= FrameBurst /\ ChunkBurst >= DirectBurst
      BY <1>1, <3>2
    <3>3. CASE DirectBurst >= FrameBurst /\ DirectBurst >= ChunkBurst
      BY <1>1, <3>3
    <3> QED
      BY <1>1, <3>1, <3>2, <3>3
  <2>3. Loop!Longest \in {FrameBurst, ChunkBurst, DirectBurst}
    BY <2>1, <2>2 DEF Loop!Longest, Loop!Max
  <2> QED
    BY <1>1, <2>3
<1> QED
  BY <1>1, <1>2, <1>3 DEF Loop!Pending

\* What a session's pacers begin with is within the bursts the relay allows.
LEMMA StartsWithin ==
  /\ Loop!Started \in [Loop!Pacers -> Nat]
  /\ \A p \in Loop!Pacers : Loop!Started[p] <= Loop!Bursts[p]
<1> DEFINE full == [pacer |-> FrameStart, chunk_pacer |-> ChunkStart, direct_chunk_pacer |-> DirectBurst]
<1>1. \A p \in Loop!Pacers : full[p] \in Nat
  BY Assumptions DEF Assumptions, Loop!SendLoopAssumption, Loop!Pacers
<1>2. Loop!Started = [p \in Loop!Pacers |-> Loop!Least(full[p], Loop!Bursts[p])]
  BY DEF Loop!Started
<1> HIDE DEF full
<1> QED
  BY <1>1, <1>2, PacerNumbers DEF Loop!Least

LEMMA InitSaving == Loop!Init => Saving
<1> SUFFICES ASSUME Loop!Init PROVE Saving
  OBVIOUS
<1>1. todo = 0 /\ sleep = Loop!Pending /\ tokens = Loop!Started /\ doing = "backoff"
      /\ elapsed = [p \in Loop!Pacers |-> 0]
  BY DEF Loop!Init
<1> QED
  BY <1>1, PacerNumbers, StartsWithin DEF Saving, Saved

LEMMA PayerIsPacer == Loop!Paying \subseteq Loop!Pacers
BY DEF Loop!Paying, Loop!Pacers

\* Paying, or refilling without paying, leaves the pacers within their bursts.
LEMMA TakenSaves ==
  ASSUME Saved, NEW P \in SUBSET Loop!Pacers, Loop!Taken(P)
  PROVE  /\ tokens' \in [Loop!Pacers -> Int] /\ elapsed' \in [Loop!Pacers -> Nat]
         /\ \A p \in Loop!Pacers : 0 <= tokens'[p] /\ tokens'[p] <= Loop!Bursts[p]
<1> DEFINE cost(p) == IF Loop!Available(P) THEN Loop!Prices[p] ELSE 0
<1>1. /\ tokens' = [p \in Loop!Pacers |-> IF p \in P THEN Loop!Refilled(p) - cost(p) ELSE tokens[p]]
      /\ elapsed' = [p \in Loop!Pacers |-> IF p \in P THEN 0 ELSE elapsed[p]]
  BY DEF Loop!Taken
<1>2. \A p \in Loop!Pacers : Loop!Refilled(p) \in 0 .. Loop!Bursts[p]
  BY PacerNumbers DEF Saved, Loop!Refilled, Loop!Least
<1>3. \A p \in P : cost(p) \in Nat /\ cost(p) <= Loop!Refilled(p)
  BY <1>2, PacerNumbers DEF Loop!Available
<1> HIDE DEF cost
<1> QED
  BY <1>1, <1>2, <1>3, PacerNumbers DEF Saved

\* A new round of the loop computes the sleep anew.
LEMMA SelectSleeps ==
  ASSUME Saved, Loop!Select, todo' \in Nat, UNCHANGED route,
         tokens' \in [Loop!Pacers -> Int], elapsed' \in [Loop!Pacers -> Nat],
         \A p \in Loop!Pacers : 0 <= tokens'[p] /\ tokens'[p] <= Loop!Bursts[p]
  PROVE  Saving'
<1>1. sleep' = IF todo' > 0 THEN Loop!ChunkWait(tokens', writable') ELSE Loop!Pending
  BY DEF Loop!Select, Loop!HasPendingChunks
<1>2. \A p \in Loop!Pacers : /\ Loop!WaitDuration(tokens', p) \in Nat
                             /\ tokens'[p] + Loop!WaitDuration(tokens', p) >= Loop!Prices[p]
  BY PacerNumbers DEF Loop!WaitDuration
<1>3. /\ Loop!ChunkWait(tokens', writable') \in Nat
      /\ \A p \in Loop!Paying : tokens'[p] + Loop!ChunkWait(tokens', writable') >= Loop!Prices[p]
  <2>1. CASE route = "relay"
    BY <1>2, <2>1, PacerNumbers DEF Loop!ChunkWait, Loop!Most, Loop!Paying, Loop!Pacers
  <2>2. CASE route # "relay"
    BY <1>2, <2>2, PacerNumbers DEF Loop!ChunkWait, Loop!Most, Loop!Paying, Loop!Pacers
  <2> QED
    BY <2>1, <2>2
<1>4. sleep' \in Nat /\ (todo' = 0 => sleep' = Loop!Pending)
  BY <1>1, <1>3, PacerNumbers
<1>5. todo' > 0 => \A p \in Loop!Paying : tokens'[p] + elapsed'[p] + sleep' >= Loop!Prices[p]
  BY <1>1, <1>3, PayerIsPacer, PacerNumbers
<1>6. Loop!Paying' = Loop!Paying
  BY DEF Loop!Paying
<1> QED
  BY <1>4, <1>5, <1>6 DEF Saving, Saved, SleepsEnough

LEMMA LoopKeepsSaving ==
  ASSUME Saving, [Loop!Next]_(Loop!vars)
  PROVE  Saving'
<1>0. Saved
  BY DEF Saving
<1> DEFINE Within == /\ tokens' \in [Loop!Pacers -> Int] /\ elapsed' \in [Loop!Pacers -> Nat]
                     /\ \A p \in Loop!Pacers : 0 <= tokens'[p] /\ tokens'[p] <= Loop!Bursts[p]
<1>p. Loop!Paying \in SUBSET Loop!Pacers /\ {"pacer"} \in SUBSET Loop!Pacers
  BY DEF Loop!Paying, Loop!Pacers
<1>u. UNCHANGED Loop!pacing => Within
  BY <1>0 DEF Saved, Loop!pacing
<1>1. CASE Loop!SendNextChunk
  <2>1. Loop!Select /\ UNCHANGED route
    BY <1>1 DEF Loop!SendNextChunk
  <2>2. Within /\ todo' \in Nat
    <3>1. CASE route = "direct" /\ ~writable
      <4>1. UNCHANGED <<Loop!pacing, todo>>
        BY <1>1, <3>1 DEF Loop!SendNextChunk
      <4> QED
        BY <1>0, <1>u, <4>1 DEF Saved
    <3>2. CASE ~(route = "direct" /\ ~writable)
      <4>1. Loop!Taken(Loop!Paying) /\ todo' = IF Loop!Available(Loop!Paying) THEN todo - 1 ELSE todo
        BY <1>1, <3>2 DEF Loop!SendNextChunk
      <4>2. todo # 0
        BY <1>1, PacerNumbers DEF Loop!SendNextChunk, Saving, SleepsEnough
      <4> QED
        BY <1>0, <1>p, <4>1, <4>2, TakenSaves DEF Saved
    <3> QED
      BY <3>1, <3>2
  <2> QED
    BY <1>0, <2>1, <2>2, SelectSleeps
<1>2. CASE Loop!Inbound
  <2>1. Loop!Select /\ UNCHANGED <<route, todo>> /\ (UNCHANGED Loop!pacing \/ Loop!Taken({"pacer"}))
    BY <1>2 DEF Loop!Inbound, Loop!Reply
  <2>2. Within
    BY <1>0, <1>p, <1>u, <2>1, TakenSaves
  <2> QED
    BY <1>0, <2>1, <2>2, SelectSleeps DEF Saved
<1>3. CASE Loop!Flushed
  <2>1. UNCHANGED <<route, todo, Loop!pacing>>
    BY <1>3 DEF Loop!Flushed
  <2>2. CASE after
    BY <1>0, <1>3, <2>1, <2>2 DEF Loop!Flushed, Loop!pacing, Saving, Saved
  <2>3. CASE ~after
    <3>1. Loop!Select
      BY <1>3, <2>3 DEF Loop!Flushed
    <3> QED
      BY <1>0, <1>u, <2>1, <3>1, SelectSleeps DEF Saved
  <2> QED
    BY <2>2, <2>3
<1>4. CASE Loop!Cover
  <2>1. Loop!Select /\ UNCHANGED <<route, todo>> /\ (UNCHANGED Loop!pacing \/ Loop!Taken({"pacer"}))
    BY <1>4 DEF Loop!Cover
  <2>2. Within
    BY <1>0, <1>p, <1>u, <2>1, TakenSaves
  <2> QED
    BY <1>0, <2>1, <2>2, SelectSleeps DEF Saved
<1>5. CASE Loop!Flush
  <2>1. Loop!Taken({"pacer"}) /\ doing = "queue" /\ UNCHANGED <<doing, todo, sleep>>
    BY <1>5 DEF Loop!Flush
  <2>2. Within
    BY <1>0, <1>p, <2>1, TakenSaves
  <2> QED
    BY <1>0, <2>1, <2>2 DEF Saving, Saved
<1>6. CASE Loop!Welcome
  <2>1. tokens' = Loop!Started /\ elapsed' = [p \in Loop!Pacers |-> 0] /\ doing' = "queue"
        /\ UNCHANGED <<todo, sleep>>
    BY <1>6 DEF Loop!Welcome, Loop!Retuned
  <2> QED
    BY <1>0, <2>1, PacerNumbers, StartsWithin DEF Saving, Saved
<1>7. CASE Loop!Lose
  <2>1. doing' = "backoff" /\ todo' = 0 /\ sleep' = Loop!Pending /\ UNCHANGED <<tokens, elapsed>>
    BY <1>7 DEF Loop!Lose, Loop!pacing
  <2> QED
    BY <1>0, <2>1, PacerNumbers DEF Saving, Saved
<1>8. CASE Loop!Accepted
  <2>1. doing' = "queue" /\ todo' = Chunks /\ UNCHANGED <<sleep, tokens, elapsed>>
    BY <1>8 DEF Loop!Accepted, Loop!pacing
  <2> QED
    BY <1>0, <2>1, PacerNumbers DEF Saving, Saved
<1>9. CASE Loop!Tick
  <2>1. /\ elapsed' = [p \in Loop!Pacers |-> Loop!Least(elapsed[p] + 1, Loop!Bursts[p] - tokens[p])]
        /\ sleep' = IF doing = "select" /\ sleep # Loop!Pending THEN Loop!Before(sleep) ELSE sleep
        /\ UNCHANGED <<doing, route, todo, tokens>>
    BY <1>9 DEF Loop!Tick
  <2>2. \A p \in Loop!Pacers :
          /\ elapsed'[p] \in Nat
          /\ \/ elapsed'[p] = elapsed[p] + 1
             \/ tokens[p] + elapsed'[p] = Loop!Bursts[p]
    BY <1>0, <2>1, PacerNumbers DEF Saved, Loop!Least
  <2>3. sleep' \in Nat /\ sleep <= sleep' + 1 /\ (sleep = Loop!Pending => sleep' = sleep)
    BY <1>0, <2>1 DEF Saved, Loop!Before
  <2>4. Saved'
    BY <1>0, <2>1, <2>2, <2>3 DEF Saved
  <2>5. Loop!Paying' = Loop!Paying
    BY <2>1 DEF Loop!Paying
  <2>6. ASSUME SleepsEnough, todo > 0, NEW p \in Loop!Paying
        PROVE  tokens'[p] + elapsed'[p] + sleep' >= Loop!Prices[p]
    <3>1. p \in Loop!Pacers
      BY PayerIsPacer
    <3>2. tokens[p] + elapsed[p] + sleep >= Loop!Prices[p]
      BY <2>6 DEF SleepsEnough
    <3>3. CASE elapsed'[p] = elapsed[p] + 1
      BY <1>0, <2>1, <2>3, <3>1, <3>2, <3>3, PacerNumbers DEF Saved
    <3>4. CASE tokens[p] + elapsed'[p] = Loop!Bursts[p]
      BY <1>0, <2>1, <2>3, <3>1, <3>4, PacerNumbers DEF Saved
    <3> QED
      BY <2>2, <3>1, <3>3, <3>4
  <2>7. SleepsEnough => SleepsEnough'
    BY <2>1, <2>3, <2>5, <2>6 DEF SleepsEnough
  <2> QED
    BY <2>1, <2>4, <2>7 DEF Saving
<1>10. CASE Loop!TakeText
  <2>1. UNCHANGED <<todo, sleep, tokens, elapsed>> /\ doing' # "select"
    BY <1>10 DEF Loop!TakeText, Loop!pacing
  <2> QED
    BY <1>0, <2>1 DEF Saving, Saved
<1>11. CASE Loop!TakeReplaceable
  <2>1. UNCHANGED <<todo, sleep, tokens, elapsed>> /\ doing' # "select"
    BY <1>11 DEF Loop!TakeReplaceable, Loop!pacing
  <2> QED
    BY <1>0, <2>1 DEF Saving, Saved
<1>12. CASE UNCHANGED <<doing, route, todo, sleep, tokens, elapsed>>
  BY <1>12 DEF Saving, Saved, SleepsEnough, Loop!Paying
<1>13. Loop!Drain \/ Loop!Write \/ Loop!Move \/ UNCHANGED Loop!vars
         => UNCHANGED <<doing, route, todo, sleep, tokens, elapsed>>
  BY DEF Loop!Drain, Loop!Write, Loop!Move, Loop!vars, Loop!pacing
<1>14. \/ Loop!SendNextChunk \/ Loop!Inbound \/ Loop!Flushed \/ Loop!Cover \/ Loop!Flush
       \/ Loop!Welcome \/ Loop!Lose \/ Loop!Accepted \/ Loop!Tick \/ Loop!TakeText
       \/ Loop!TakeReplaceable \/ Loop!Drain \/ Loop!Write \/ Loop!Move \/ UNCHANGED Loop!vars
  BY DEF Loop!Next, Loop!Loop
<1> QED
  BY <1>1, <1>2, <1>3, <1>4, <1>5, <1>6, <1>7, <1>8, <1>9, <1>10, <1>11, <1>12, <1>13, <1>14

LEMMA SavingWakes ==
  ASSUME Saving, Loop!SendNextChunk
  PROVE  todo' < todo \/ (route = "direct" /\ ~writable)
<1> SUFFICES ASSUME ~(route = "direct" /\ ~writable) PROVE todo' < todo
  OBVIOUS
<1>1. todo > 0 /\ \A p \in Loop!Paying : tokens[p] + elapsed[p] >= Loop!Prices[p]
  BY PayerIsPacer, PacerNumbers DEF Loop!SendNextChunk, Saving, Saved, SleepsEnough
<1>2. Loop!Available(Loop!Paying)
  BY <1>1, PayerIsPacer, PacerNumbers DEF Loop!Available, Loop!Refilled, Loop!Least, Saving, Saved
<1> QED
  BY <1>1, <1>2 DEF Loop!SendNextChunk, Saving, Saved

-----------------------------------------------------------------------------
(* The first bytes                                                         *)

\* The bytes that were written have been read or are under way, in order.
InOrder ==
  /\ data \in Seq(Bytes!Bytes) /\ channel \in Seq(Bytes!Bytes) /\ buffer \in Seq(Bytes!Bytes)
  /\ written \in 0 .. Len(data)
  /\ buffer \o channel = SubSeq(data, 1, written)

\* What has to be split is in its first piece until that is written, and
\* naps until the pause is over.
Splitting ==
  /\ scheme \in Bytes!Schemes /\ host \in Bytes!HostKinds
  /\ head \in Nat /\ head <= SplitHead /\ first \in Nat
  /\ split \in {"first", "napping", "done"} /\ hasty \in BOOLEAN
  /\ Bytes!Split =>
       /\ split = "first" <=> first = 0
       /\ first <= SplitHead
       /\ (split = "done" => rested = TRUE)
       /\ hasty = FALSE

\* The reader has seen no blank line before its last byte, and has an answer
\* only at one, or when there is no room for another byte.
Reading ==
  /\ Len(buffer) <= MaxHead
  /\ \A k \in 1 .. Len(buffer) - 1 : ~Bytes!Blank(SubSeq(buffer, 1, k))
  /\ answer \in {"none", "head", "refused", "101"}
  /\ (answer \in {"head", "101"} => Bytes!HeadEnd)
  /\ (answer = "refused" => Bytes!HeadEnd \/ Len(buffer) >= MaxHead)

FirstBytesKept == InOrder /\ Splitting /\ Reading

LEMMA ByteNumbers == SplitHead \in Nat \ {0} /\ MaxHead \in Nat \ {0} /\ Capacity \in Nat \ {0}
BY Assumptions DEF Assumptions, Bytes!FirstBytesAssumption

LEMMA InitFirstBytesKept == Bytes!Init => FirstBytesKept
<1> SUFFICES ASSUME Bytes!Init PROVE FirstBytesKept
  OBVIOUS
<1>1. /\ written = 0 /\ first = 0 /\ hasty = FALSE /\ head = SplitHead /\ answer = "none"
      /\ channel = <<>> /\ buffer = <<>> /\ scheme \in Bytes!Schemes /\ host \in Bytes!HostKinds
      /\ split = (IF Bytes!Split THEN "first" ELSE "done")
  BY DEF Bytes!Init
<1>2. data \in Seq(Bytes!Bytes)
  <2>1. PICK m \in 0 .. MaxBytes : data \in [1 .. m -> Bytes!Bytes]
    BY DEF Bytes!Init, Bytes!SeqOf
  <2>2. m \in Nat
    OBVIOUS
  <2> QED
    BY <2>1, <2>2
<1>3. Len(<<>>) = 0 /\ <<>> \in Seq(Bytes!Bytes) /\ Len(data) \in Nat
  BY <1>2, LenProperties
<1>4. InOrder
  <2>1. SubSeq(data, 1, 0) = <<>> /\ <<>> \o <<>> = <<>>
    BY <1>3, SubSeqEmpty, ConcatEmptySeq
  <2> QED
    BY <1>1, <1>2, <1>3, <2>1 DEF InOrder
<1>5. Splitting
  <2>1. split \in {"first", "napping", "done"}
    BY <1>1
  <2>2. head \in Nat /\ head <= SplitHead /\ first \in Nat
    BY <1>1, ByteNumbers
  <2>5. hasty \in BOOLEAN
    BY <1>1, Zenon
  <2>3. Bytes!Split => split = "first"
    BY <1>1
  <2>4. first = 0 /\ first <= SplitHead /\ hasty = FALSE
    BY <1>1, ByteNumbers
  <2> QED
    BY <1>1, <2>1, <2>2, <2>3, <2>4, <2>5 DEF Splitting
<1>6. Reading
  BY <1>1, <1>3, ByteNumbers DEF Reading
<1> QED
  BY <1>4, <1>5, <1>6 DEF FirstBytesKept

LEMMA BytesInARow ==
  \A s, t, u \in Seq(Bytes!Bytes) : (s \o t) \o u = s \o (t \o u)
<1> SUFFICES ASSUME NEW s \in Seq(Bytes!Bytes), NEW t \in Seq(Bytes!Bytes), NEW u \in Seq(Bytes!Bytes)
             PROVE  (s \o t) \o u = s \o (t \o u)
  OBVIOUS
<1> QED
  BY ConcatAssociative

\* The next n bytes follow what is under way.
LEMMA WroteKeepsOrder ==
  ASSUME InOrder, NEW n \in Nat, written + n <= Len(data), Bytes!Wrote(n), UNCHANGED <<data, buffer>>
  PROVE  InOrder'
<1> USE DEF InOrder
<1> DEFINE piece == SubSeq(data, written + 1, written + n)
           before == SubSeq(data, 1, written)
<1>1. Len(data) \in Nat
  BY LenProperties
<1>2. /\ 1 \in 1 .. Len(data) + 1 /\ written \in 1 - 1 .. Len(data)
      /\ written + n \in written .. Len(data)
  BY <1>1
<1>3. before \o piece = SubSeq(data, 1, written + n)
  BY <1>2, ConcatAdjacentSubSeq
<1>4. piece \in Seq(Bytes!Bytes)
  <2>1. \A i \in written + 1 .. written + n : i \in 1 .. Len(data)
    BY <1>1
  <2>2. \A i \in written + 1 .. written + n : data[i] \in Bytes!Bytes
    BY <2>1, ElementOfSeq
  <2>3. written + 1 \in Int /\ written + n \in Int
    BY <1>1
  <2> QED
    BY <2>2, <2>3, SubSeqProperties
<1>5. channel' = channel \o piece /\ written' = written + n
  BY DEF Bytes!Wrote
<1> HIDE DEF piece
<1>6. buffer \o (channel \o piece) = (buffer \o channel) \o piece
  BY <1>4, BytesInARow, Zenon
<1>7. channel \o piece \in Seq(Bytes!Bytes)
  BY <1>4, ConcatProperties
<1>8. buffer' \o channel' = SubSeq(data', 1, written')
  BY <1>3, <1>5, <1>6
<1> QED
  BY <1>2, <1>5, <1>7, <1>8

LEMMA BytesPart ==
  ASSUME InOrder, NEW k \in 1 .. Len(buffer)
  PROVE  SubSeq(buffer, 1, k) = SubSeq(data, 1, k)
<1> USE DEF InOrder
<1>1. /\ Len(data) \in Nat /\ Len(buffer) \in Nat /\ Len(channel) \in Nat
      /\ Len(buffer \o channel) = Len(buffer) + Len(channel)
  BY LenProperties, ConcatProperties
<1>2. \A i \in 1 .. written : data[i] \in Bytes!Bytes
  BY <1>1, ElementOfSeq
<1>3. Len(SubSeq(data, 1, written)) = written
  <2>1. Len(SubSeq(data, 1, written)) = IF 1 <= written THEN written - 1 + 1 ELSE 0
    BY <1>2, SubSeqProperties
  <2> DEFINE n == Len(SubSeq(data, 1, written))
  <2> HIDE DEF n
  <2>2. n = IF 1 <= written THEN written - 1 + 1 ELSE 0
    BY <2>1 DEF n
  <2>3. n = written
    BY <1>1, <2>2
  <2> QED
    BY <2>3 DEF n
<1>4. Len(buffer) <= written
  BY <1>1, <1>3
<1>5. /\ 1 \in 1 .. Len(data) /\ written \in 1 .. Len(data)
      /\ 1 \in 1 .. written - 1 + 1 /\ k \in 1 .. written - 1 + 1
      /\ 1 + 1 - 1 = 1 /\ 1 + k - 1 = k /\ 1 \in 1 .. Len(buffer)
  BY <1>1, <1>4
<1>6. SubSeq(SubSeq(data, 1, written), 1, k) = SubSeq(data, 1 + 1 - 1, 1 + k - 1)
  BY <1>5, SubSeqOfSubSeq
<1>7. SubSeq(buffer \o channel, 1, k) = SubSeq(buffer, 1, k)
  BY <1>5, SubSeqOfConcat1
<1> QED
  BY <1>5, <1>6, <1>7

\* One byte goes from the socket to the end of the buffer.
LEMMA ReadKeepsOrder ==
  ASSUME InOrder, Bytes!Read
  PROVE  /\ InOrder' /\ Len(buffer') = Len(buffer) + 1
         /\ \A k \in 1 .. Len(buffer) : SubSeq(buffer', 1, k) = SubSeq(buffer, 1, k)
<1> USE DEF InOrder
<1> DEFINE byte == SubSeq(channel, 1, 1)
           rest == SubSeq(channel, 2, Len(channel))
<1>1. /\ channel # <<>> /\ buffer' = buffer \o byte
      /\ channel' = rest /\ UNCHANGED <<data, written>>
  BY DEF Bytes!Read, Bytes!Amount, Bytes!adapter
<1>2. Len(data) \in Nat /\ Len(buffer) \in Nat /\ Len(channel) \in Nat \ {0}
  BY <1>1, LenProperties, EmptySeq
<1>3. \A i \in 1 .. Len(channel) : channel[i] \in Bytes!Bytes
  BY ElementOfSeq
<1>4. byte \in Seq(Bytes!Bytes) /\ Len(byte) = 1
  <2>1. \A i \in 1 .. 1 : channel[i] \in Bytes!Bytes
    BY <1>2, <1>3
  <2> QED
    BY <2>1, SubSeqProperties
<1>5. rest \in Seq(Bytes!Bytes)
  BY <1>1, HeadTailProperties, TailIsSubSeq
<1>6. byte \o rest = channel
  <2>1. /\ 1 \in 1 .. Len(channel) + 1 /\ 1 \in 1 - 1 .. Len(channel)
        /\ Len(channel) \in 1 .. Len(channel)
    BY <1>2
  <2>2. SubSeq(channel, 1, 1) \o SubSeq(channel, 1 + 1, Len(channel)) = SubSeq(channel, 1, Len(channel))
    BY <2>1, ConcatAdjacentSubSeq
  <2>3. SubSeq(channel, 1, Len(channel)) = channel
    BY SubSeqFull
  <2>4. 1 + 1 = 2
    OBVIOUS
  <2>5. byte \o rest = SubSeq(channel, 1, Len(channel))
    BY <2>2, <2>4, Zenon
  <2> QED
    BY <2>3, <2>5, Zenon
<1> HIDE DEF byte, rest
<1>7. (buffer \o byte) \o rest = buffer \o (byte \o rest)
  <2>1. buffer \in Seq(Bytes!Bytes) /\ byte \in Seq(Bytes!Bytes) /\ rest \in Seq(Bytes!Bytes)
    BY <1>4, <1>5
  <2> QED
    BY <2>1, BytesInARow
<1>8. buffer \o byte \in Seq(Bytes!Bytes) /\ Len(buffer \o byte) = Len(buffer) + 1
  <2>1. buffer \in Seq(Bytes!Bytes) /\ byte \in Seq(Bytes!Bytes)
    BY <1>4
  <2>2. buffer \o byte \in Seq(Bytes!Bytes) /\ Len(buffer \o byte) = Len(buffer) + Len(byte)
    BY <2>1, ConcatProperties, Zenon
  <2> QED
    BY <1>4, <2>2
<1>9. ASSUME NEW k \in 1 .. Len(buffer) PROVE SubSeq(buffer \o byte, 1, k) = SubSeq(buffer, 1, k)
  <2>1. 1 \in 1 .. Len(buffer)
    BY <1>2
  <2> QED
    BY <1>4, <2>1, SubSeqOfConcat1
<1> QED
  BY <1>1, <1>5, <1>6, <1>7, <1>8, <1>9

LEMMA BytesKept ==
  ASSUME FirstBytesKept, [Bytes!Next]_(Bytes!vars)
  PROVE  FirstBytesKept'
<1> USE DEF FirstBytesKept
<1>n. Len(data) \in Nat /\ Len(buffer) \in Nat /\ Len(channel) \in Nat
  BY LenProperties DEF InOrder
<1>s. UNCHANGED <<scheme, host>> => (Bytes!Split' <=> Bytes!Split)
  BY DEF Bytes!Split, Bytes!Secure, Bytes!HostIsAName, Bytes!LooksPlaintext
<1>r. UNCHANGED <<buffer, answer>> => Reading'
  BY DEF Reading, Bytes!HeadEnd
<1>o. UNCHANGED <<data, channel, buffer, written>> => InOrder'
  BY DEF InOrder
<1>a. UNCHANGED <<scheme, host, split, head, first, rested, hasty>> => Splitting'
  BY DEF Splitting, Bytes!Split, Bytes!Secure, Bytes!HostIsAName, Bytes!LooksPlaintext
<1>1. ASSUME NEW k \in 1 .. (Len(data) - written), Bytes!PollFirst(k)
      PROVE  FirstBytesKept'
  <2>1. /\ split = "first" /\ UNCHANGED <<scheme, host, data, rested, buffer, answer>>
    BY <1>1 DEF Bytes!PollFirst, Bytes!address
  <2> DEFINE h == Bytes!Least(head, k)
  <2>h. h \in Nat /\ h <= head /\ h <= k
    BY <1>n DEF Bytes!Least, Splitting, InOrder
  <2>2. CASE Bytes!Kept(h) /\ UNCHANGED <<written, first, hasty, channel>>
    <3>1. split' = "first" /\ head' = h
      BY <2>2 DEF Bytes!Kept
    <3> HIDE DEF h
    <3>2. Splitting'
      BY <1>s, <2>1, <2>2, <2>h, <3>1, ByteNumbers DEF Splitting
    <3> QED
      BY <1>o, <1>r, <2>1, <2>2, <3>2
  <2>3. ASSUME NEW n \in 1 .. Bytes!Least(h, Bytes!Room), Bytes!Wrote(n), split' = "napping", UNCHANGED head
        PROVE  FirstBytesKept'
    <3>1. n \in Nat \ {0} /\ n <= h
      <4>1. Bytes!Room \in Int
        BY <1>n, ByteNumbers DEF Bytes!Room
      <4> HIDE DEF h
      <4> QED
        BY <2>h, <4>1 DEF Bytes!Least
    <3> HIDE DEF h
    <3>2. n <= k /\ n <= head /\ written + n <= Len(data)
      BY <1>n, <2>h, <3>1 DEF InOrder, Splitting
    <3>3. InOrder'
      BY <2>1, <2>3, <3>1, <3>2, WroteKeepsOrder
    <3>4. first' = (IF first = 0 THEN n ELSE first) /\ hasty' = (hasty \/ (Bytes!Split /\ first > 0 /\ ~rested))
      BY <2>3 DEF Bytes!Wrote
    <3>5. Splitting'
      BY <1>s, <2>1, <2>3, <3>1, <3>2, <3>4, ByteNumbers DEF Splitting
    <3> QED
      BY <1>r, <2>1, <3>3, <3>5
  <2> QED
    BY <1>1, <2>2, <2>3 DEF Bytes!PollFirst
<1>2. ASSUME NEW k \in 1 .. (Len(data) - written), Bytes!PollRest(k)
      PROVE  FirstBytesKept'
  <2>1. /\ split = "done" \/ (split = "napping" /\ rested)
        /\ split' = "done" /\ UNCHANGED <<scheme, host, data, head, rested, buffer, answer>>
    BY <1>2 DEF Bytes!PollRest, Bytes!address
  <2>2. PICK n \in 1 .. Bytes!Least(k, Bytes!Room) : Bytes!Wrote(n)
    BY <1>2 DEF Bytes!PollRest
  <2>3. n \in Nat \ {0} /\ n <= k /\ written + n <= Len(data)
    BY <1>n, ByteNumbers DEF Bytes!Least, Bytes!Room, InOrder
  <2>4. InOrder'
    BY <2>1, <2>2, <2>3, WroteKeepsOrder
  <2>5. first' = (IF first = 0 THEN n ELSE first) /\ hasty' = (hasty \/ (Bytes!Split /\ first > 0 /\ ~rested))
    BY <2>2 DEF Bytes!Wrote
  <2>6. Splitting'
    BY <1>s, <2>1, <2>3, <2>5, ByteNumbers DEF Splitting
  <2> QED
    BY <1>r, <2>1, <2>4, <2>6
<1>3. CASE Bytes!Wake
  <2>1. first > 0 /\ rested' = TRUE
        /\ UNCHANGED <<scheme, host, data, written, split, head, first, hasty, channel, buffer, answer>>
    BY <1>3 DEF Bytes!Wake, Bytes!address
  <2>2. Splitting'
    BY <1>s, <2>1 DEF Splitting
  <2> QED
    BY <1>o, <1>r, <2>1, <2>2
<1>4. CASE Bytes!Read
  <2>1. /\ answer = "none" /\ ~Bytes!HeadEnd /\ Len(buffer) < MaxHead
        /\ UNCHANGED <<scheme, host, split, head, first, rested, hasty, answer>>
    BY <1>4 DEF Bytes!Read, Bytes!address, Bytes!adapter
  <2>2. /\ InOrder' /\ Len(buffer') = Len(buffer) + 1
        /\ \A k \in 1 .. Len(buffer) : SubSeq(buffer', 1, k) = SubSeq(buffer, 1, k)
    BY <1>4, ReadKeepsOrder
  <2>3. \A k \in 1 .. Len(buffer) : ~Bytes!Blank(SubSeq(buffer, 1, k))
    BY <2>1 DEF Bytes!HeadEnd
  <2>4. \A k \in 1 .. Len(buffer) : ~Bytes!Blank(SubSeq(buffer', 1, k))
    BY <2>2, <2>3
  <2>5. Len(buffer') - 1 = Len(buffer) /\ Len(buffer') <= MaxHead
    BY <1>n, <2>1, <2>2, ByteNumbers
  <2>6. Reading'
    BY <2>1, <2>4, <2>5 DEF Reading
  <2> QED
    BY <1>a, <2>1, <2>2, <2>6
<1>5. CASE Bytes!TooLarge \/ Bytes!ParseHead \/ Bytes!Respond
  <2>1. UNCHANGED <<scheme, host, data, written, split, head, first, rested, hasty, channel, buffer>>
    BY <1>5 DEF Bytes!TooLarge, Bytes!ParseHead, Bytes!Respond, Bytes!address, Bytes!adapter
  <2>2. Bytes!HeadEnd' <=> Bytes!HeadEnd
    BY <2>1 DEF Bytes!HeadEnd
  <2>3. \/ answer' = "refused" /\ (Bytes!HeadEnd \/ Len(buffer) >= MaxHead)
        \/ answer' \in {"head", "101", "refused"} /\ Bytes!HeadEnd
    BY <1>5 DEF Bytes!TooLarge, Bytes!ParseHead, Bytes!Respond, Reading
  <2>4. Reading'
    BY <2>1, <2>2, <2>3 DEF Reading
  <2> QED
    BY <1>a, <1>o, <2>1, <2>4
<1>6. CASE UNCHANGED Bytes!vars
  BY <1>6, <1>a, <1>o, <1>r DEF Bytes!vars, Bytes!address, Bytes!adapter
<1> QED
  BY <1>1, <1>2, <1>3, <1>4, <1>5, <1>6 DEF Bytes!Next, Bytes!Write

LEMMA KeptHolds ==
  ASSUME FirstBytesKept
  PROVE  Bytes!SplitHolds /\ Bytes!HeadIsExact
<1> USE DEF FirstBytesKept
<1>n. Len(data) \in Nat /\ Len(buffer) \in Nat
  BY LenProperties DEF InOrder
<1>1. Bytes!IsPlaintext <=> ~Bytes!Secure
  BY DEF Splitting, Bytes!IsPlaintext, Bytes!Secure, Bytes!Schemes
<1>2. Bytes!SplitHolds
  BY <1>1 DEF InOrder, Splitting, Bytes!SplitHolds
<1>3. ASSUME answer \in {"head", "101"}
      PROVE  /\ Bytes!Blank(buffer)
             /\ \A k \in 1 .. Len(buffer) - 1 : ~Bytes!Blank(SubSeq(data, 1, k))
  <2>1. PICK k \in 1 .. Len(buffer) : Bytes!Blank(SubSeq(buffer, 1, k))
    BY <1>3 DEF Reading, Bytes!HeadEnd
  <2>2. k = Len(buffer)
    BY <1>n, <2>1 DEF Reading
  <2>3. SubSeq(buffer, 1, Len(buffer)) = buffer
    BY SubSeqFull DEF InOrder
  <2>4. \A j \in 1 .. Len(buffer) - 1 : j \in 1 .. Len(buffer)
    BY <1>n
  <2>5. \A j \in 1 .. Len(buffer) - 1 : ~Bytes!Blank(SubSeq(data, 1, j))
    BY <2>4, BytesPart DEF Reading
  <2> QED
    BY <2>1, <2>2, <2>3, <2>5
<1>4. ASSUME answer = "refused", ~Bytes!HeadEnd, NEW k \in 1 .. Bytes!Least(MaxHead, Len(data))
      PROVE  ~Bytes!Blank(SubSeq(data, 1, k))
  <2>1. Len(buffer) >= MaxHead
    BY <1>4 DEF Reading
  <2>2. k \in 1 .. Len(buffer)
    BY <1>n, <2>1, ByteNumbers DEF Bytes!Least
  <2>3. ~Bytes!Blank(SubSeq(buffer, 1, k))
    BY <1>4, <2>2 DEF Bytes!HeadEnd
  <2> QED
    BY <2>2, <2>3, BytesPart
<1> QED
  BY <1>2, <1>3, <1>4 DEF Bytes!HeadIsExact

-----------------------------------------------------------------------------
(* The account of failures                                                 *)

Accounts == [left : -Limit .. Limit, age : 0 .. 2 * Limit]

\* What is left of an address's account when it is refilled now.
LeftNow(bucket) == Front!Least(Limit, bucket.left + bucket.age)

\* The table knows of every address what the account says, or nothing if the
\* account is full.
Owed ==
  /\ DOMAIN failures \subseteq Hosts
  /\ \A h \in DOMAIN failures : failures[h] \in Accounts
  /\ failures = [h \in DOMAIN failures |-> failures[h]]
  /\ account \in [Hosts -> -Limit .. Limit]
  /\ \A h \in Hosts : account[h] = IF h \in DOMAIN failures THEN LeftNow(failures[h]) ELSE Limit

\* Who has been read has an address.
Addressed ==
  /\ stage \in [Conns -> {"none", "head", "read", "allowed", "reserved", "served"}]
  /\ client \in [Conns -> Hosts \cup {Front!Nobody}]
  /\ \A c \in Conns : stage[c] \in {"read", "allowed", "reserved", "served"} => client[c] \in Hosts

LEMMA LimitNumber == Limit \in Nat \ {0}
BY Assumptions DEF Assumptions, Front!FrontAssumption

LEMMA InitOwed == Front!Init => Owed /\ Addressed
<1> SUFFICES ASSUME Front!Init PROVE Owed /\ Addressed
  OBVIOUS
<1>1. /\ stage = [c \in Conns |-> "none"] /\ client = [c \in Conns |-> Front!Nobody]
      /\ failures = <<>> /\ account = [h \in Hosts |-> Limit]
  BY DEF Front!Init
<1>2. DOMAIN <<>> = {} /\ <<>> = [h \in {} |-> <<>>[h]]
  OBVIOUS
<1>3. Owed
  BY <1>1, <1>2, LimitNumber DEF Owed
<1>4. Addressed
  BY <1>1 DEF Addressed
<1> QED
  BY <1>3, <1>4

\* Refilling an account late gives what it would have had at every moment.
LEMMA RefilledNow ==
  ASSUME NEW bucket \in Accounts
  PROVE  /\ Front!Refilled(bucket) = [left |-> LeftNow(bucket), age |-> 0]
         /\ LeftNow(bucket) \in -Limit .. Limit
         /\ Front!Refilled(bucket) \in Accounts
         /\ LeftNow(Front!Refilled(bucket)) = LeftNow(bucket)
<1>1. LeftNow(bucket) \in -Limit .. Limit
  BY LimitNumber DEF LeftNow, Front!Least, Accounts
<1>2. Front!Refilled(bucket) = [left |-> LeftNow(bucket), age |-> 0]
  BY DEF Front!Refilled, LeftNow
<1>3. [left |-> LeftNow(bucket), age |-> 0] \in Accounts
  BY <1>1, LimitNumber DEF Accounts
<1>4. \A n \in -Limit .. Limit : LeftNow([left |-> n, age |-> 0]) = n
  BY LimitNumber DEF LeftNow, Front!Least
<1> QED
  BY <1>1, <1>2, <1>3, <1>4

\* The sweep forgets only full accounts, and what stays is right.
LEMMA SweptOwes ==
  ASSUME Owed, NEW addr \in Hosts
  PROVE  LET table == Front!Swept(addr)
         IN  /\ DOMAIN table \subseteq Hosts
             /\ \A h \in DOMAIN table : table[h] \in Accounts
             /\ \A h \in Hosts : account[h] = IF h \in DOMAIN table THEN LeftNow(table[h]) ELSE Limit
<1> DEFINE kept == {h \in DOMAIN failures : Front!Kept(failures[h])}
<1>1. CASE Front!Swept(addr) = failures
  BY <1>1 DEF Owed
<1>2. CASE Front!Swept(addr) = [h \in kept |-> Front!Refilled(failures[h])]
  <2>1. kept \subseteq Hosts /\ kept \subseteq DOMAIN failures
    BY DEF Owed
  <2>2. \A h \in DOMAIN failures :
          /\ Front!Refilled(failures[h]) \in Accounts
          /\ LeftNow(Front!Refilled(failures[h])) = LeftNow(failures[h])
          /\ LeftNow(failures[h]) \in -Limit .. Limit
          /\ Front!Refilled(failures[h]).left = LeftNow(failures[h])
    BY RefilledNow DEF Owed
  <2>3. \A h \in DOMAIN failures \ kept : account[h] = Limit
    BY <2>2, LimitNumber DEF Owed, Front!Kept
  <2>4. \A h \in kept : account[h] = LeftNow(Front!Refilled(failures[h]))
    BY <2>1, <2>2 DEF Owed
  <2>5. \A h \in Hosts \ DOMAIN failures : account[h] = Limit
    BY DEF Owed
  <2> HIDE DEF kept
  <2> QED
    BY <1>2, <2>1, <2>2, <2>3, <2>4, <2>5
<1> QED
  BY <1>1, <1>2 DEF Front!Swept

LEMMA NotedOwes ==
  ASSUME Owed, NEW addr \in Hosts, Front!NoteFailure(addr)
  PROVE  Owed'
<1>1. PICK table : table = Front!Swept(addr)
  OBVIOUS
<1>2. /\ DOMAIN table \subseteq Hosts
      /\ \A h \in DOMAIN table : table[h] \in Accounts
      /\ \A h \in Hosts : account[h] = IF h \in DOMAIN table THEN LeftNow(table[h]) ELSE Limit
  BY <1>1, SweptOwes
<1>3. PICK bucket : bucket = IF addr \in DOMAIN table THEN Front!Refilled(table[addr]) ELSE [left |-> Limit, age |-> 0]
  OBVIOUS
<1>4. bucket = [left |-> account[addr], age |-> 0]
  BY <1>2, <1>3, RefilledNow
<1>5. /\ failures' = [h \in DOMAIN table \cup {addr} |->
                        IF h = addr THEN [bucket EXCEPT !.left = Front!Taken(@)] ELSE table[h]]
      /\ account' = [account EXCEPT ![addr] = Front!Taken(@)]
  BY <1>1, <1>3 DEF Front!NoteFailure
<1>6. PICK n : n = Front!Taken(account[addr])
  OBVIOUS
<1>7. n \in -Limit .. Limit
  BY <1>6, LimitNumber DEF Owed, Front!Taken, Front!Most
<1>8. [bucket EXCEPT !.left = Front!Taken(@)] = [left |-> n, age |-> 0]
  BY <1>4, <1>6
<1>9. [left |-> n, age |-> 0] \in Accounts /\ LeftNow([left |-> n, age |-> 0]) = n
  BY <1>7, LimitNumber DEF Accounts, LeftNow, Front!Least
<1>10. /\ DOMAIN failures' = DOMAIN table \cup {addr}
       /\ failures'[addr] = [left |-> n, age |-> 0]
       /\ \A h \in DOMAIN table : h # addr => failures'[h] = table[h]
  BY <1>5, <1>8
<1>11. account' \in [Hosts -> -Limit .. Limit] /\ account'[addr] = n
       /\ \A h \in Hosts : h # addr => account'[h] = account[h]
  BY <1>5, <1>6, <1>7 DEF Owed
<1>12. failures' = [h \in DOMAIN failures' |-> failures'[h]]
  BY <1>5
<1>13. DOMAIN failures' \subseteq Hosts /\ \A h \in DOMAIN failures' : failures'[h] \in Accounts
  BY <1>2, <1>9, <1>10
<1>14. \A h \in Hosts : account'[h] = IF h \in DOMAIN failures' THEN LeftNow(failures'[h]) ELSE Limit
  BY <1>2, <1>9, <1>10, <1>11
<1> QED
  BY <1>11, <1>12, <1>13, <1>14 DEF Owed, LeftNow

LEMMA LookedOwes ==
  ASSUME Owed, NEW addr \in Hosts, Front!Looked(addr), UNCHANGED account
  PROVE  Owed'
<1>1. CASE addr \notin DOMAIN failures
  BY <1>1 DEF Owed, Front!Looked, LeftNow
<1>2. CASE addr \in DOMAIN failures
  <2>1. failures' = [failures EXCEPT ![addr] = Front!Refilled(@)]
    BY <1>2 DEF Front!Looked
  <2>2. /\ DOMAIN failures' = DOMAIN failures
        /\ failures'[addr] = Front!Refilled(failures[addr])
        /\ \A h \in DOMAIN failures : h # addr => failures'[h] = failures[h]
    BY <1>2, <2>1
  <2>3. Front!Refilled(failures[addr]) \in Accounts
        /\ LeftNow(Front!Refilled(failures[addr])) = LeftNow(failures[addr])
    BY <1>2, RefilledNow DEF Owed
  <2>4. failures' = [h \in DOMAIN failures' |-> failures'[h]]
    BY <2>1
  <2>5. \A h \in DOMAIN failures' : failures'[h] \in Accounts /\ LeftNow(failures'[h]) = LeftNow(failures[h])
    BY <2>2, <2>3 DEF Owed
  <2>6. \A h \in Hosts : account'[h] = IF h \in DOMAIN failures' THEN LeftNow(failures'[h]) ELSE Limit
    BY <2>2, <2>5 DEF Owed
  <2> QED
    BY <2>2, <2>4, <2>5, <2>6 DEF Owed, LeftNow
<1> QED
  BY <1>1, <1>2

LEMMA TickOwes ==
  ASSUME Owed, Front!Tick
  PROVE  Owed'
<1>1. /\ failures' = [h \in DOMAIN failures |-> [failures[h] EXCEPT !.age = Front!Least(@ + 1, 2 * Limit)]]
      /\ account' = [h \in Hosts |-> Front!Least(Limit, account[h] + 1)]
  BY DEF Front!Tick
<1>2. ASSUME NEW h \in DOMAIN failures
      PROVE  failures'[h] \in Accounts /\ LeftNow(failures'[h]) = Front!Least(Limit, LeftNow(failures[h]) + 1)
  <2>1. PICK l \in -Limit .. Limit, a \in 0 .. 2 * Limit : failures[h] = [left |-> l, age |-> a]
    BY DEF Owed, Accounts
  <2>2. failures'[h] = [left |-> l, age |-> Front!Least(a + 1, 2 * Limit)]
    BY <1>1, <2>1
  <2>3. Front!Least(a + 1, 2 * Limit) \in 0 .. 2 * Limit
    BY LimitNumber DEF Front!Least
  <2>4. Front!Least(Limit, l + Front!Least(a + 1, 2 * Limit)) = Front!Least(Limit, Front!Least(Limit, l + a) + 1)
    BY LimitNumber DEF Front!Least
  <2> QED
    BY <2>1, <2>2, <2>3, <2>4 DEF Accounts, LeftNow
<1>3. DOMAIN failures' = DOMAIN failures /\ failures' = [h \in DOMAIN failures' |-> failures'[h]]
  BY <1>1
<1>4. \A h \in Hosts : account'[h] = Front!Least(Limit, account[h] + 1)
  BY <1>1
<1>5. \A h \in Hosts : account'[h] = IF h \in DOMAIN failures' THEN LeftNow(failures'[h]) ELSE Limit
  <2> SUFFICES ASSUME NEW h \in Hosts
               PROVE  account'[h] = IF h \in DOMAIN failures' THEN LeftNow(failures'[h]) ELSE Limit
    OBVIOUS
  <2>1. CASE h \in DOMAIN failures
    <3>1. account[h] = LeftNow(failures[h])
      BY <2>1 DEF Owed
    <3> QED
      BY <1>2, <1>3, <1>4, <2>1, <3>1
  <2>2. CASE h \notin DOMAIN failures
    <3>1. account[h] = Limit
      BY <2>2 DEF Owed
    <3>2. Front!Least(Limit, Limit + 1) = Limit
      BY LimitNumber DEF Front!Least
    <3> QED
      BY <1>3, <1>4, <2>2, <3>1, <3>2
  <2> QED
    BY <2>1, <2>2
<1>6. account' \in [Hosts -> -Limit .. Limit]
  <2>1. \A n \in -Limit .. Limit : Front!Least(Limit, n + 1) \in -Limit .. Limit
    BY LimitNumber DEF Front!Least
  <2> QED
    BY <1>1, <2>1 DEF Owed
<1> QED
  BY <1>2, <1>3, <1>5, <1>6 DEF Owed, LeftNow

LEMMA OwesOn ==
  ASSUME Owed, Addressed, [Front!Next]_(Front!vars)
  PROVE  Owed' /\ Addressed'
<1>u. ASSUME UNCHANGED <<failures, account>> PROVE Owed'
  BY <1>u DEF Owed, LeftNow
<1>1. CASE Front!Tick
  <2>1. Addressed'
    BY <1>1 DEF Front!Tick, Front!passing, Addressed
  <2> QED
    BY <1>1, <2>1, TickOwes
<1>2. CASE UNCHANGED Front!vars
  BY <1>2, <1>u DEF Front!vars, Front!passing, Addressed
<1>3. ASSUME NEW c \in Conns, Front!Handle(c) PROVE Owed' /\ Addressed'
  <2> USE DEF Front!Goes
  <2>1. CASE Front!Accept(c)
    BY <1>u, <2>1 DEF Front!Accept, Front!Unnoted, Addressed
  <2>2. CASE Front!HeadRead(c)
    <3>1. PICK h \in Hosts : client' = [client EXCEPT ![c] = h]
      BY <2>2 DEF Front!HeadRead
    <3> QED
      BY <1>u, <2>2, <3>1 DEF Front!HeadRead, Front!Unnoted, Addressed
  <2>3. CASE Front!HeadTimesOut(c)
    BY <1>u, <2>3 DEF Front!HeadTimesOut, Front!Unnoted, Addressed
  <2>4. ASSUME NEW from, Front!Answered(c, from) PROVE Addressed'
    BY <2>4 DEF Front!Answered, Addressed
  <2>5. CASE Front!Unlimited(c) \/ Front!NotUpgradable(c) \/ Front!NoPermit(c) \/ Front!Ends(c)
    BY <1>u, <2>4, <2>5 DEF Front!Unlimited, Front!NotUpgradable, Front!NoPermit, Front!Ends, Front!Unnoted
  <2>6. CASE Front!Allowed(c)
    <3>1. client[c] \in Hosts /\ Front!Looked(client[c]) /\ UNCHANGED account
      BY <2>6 DEF Front!Allowed, Addressed
    <3>2. Addressed'
      BY <2>6 DEF Front!Allowed, Addressed
    <3> QED
      BY <3>1, <3>2, LookedOwes
  <2>7. CASE Front!Blocked(c) \/ Front!Rejected(c) \/ Front!BadDevice(c)
    <3>1. client[c] \in Hosts /\ Front!NoteFailure(client[c])
      BY <2>7 DEF Front!Blocked, Front!Rejected, Front!BadDevice, Front!Answered, Addressed
    <3>2. Addressed'
      BY <2>4, <2>7 DEF Front!Blocked, Front!Rejected, Front!BadDevice
    <3> QED
      BY <3>1, <3>2, NotedOwes
  <2>8. CASE Front!Reserved(c) \/ Front!Serve(c)
    BY <1>u, <2>8 DEF Front!Reserved, Front!Serve, Front!Unnoted, Addressed
  <2> QED
    BY <1>3, <2>1, <2>2, <2>3, <2>5, <2>6, <2>7, <2>8 DEF Front!Handle
<1> QED
  BY <1>1, <1>2, <1>3 DEF Front!Next

LEMMA OwedIsExact == Owed => Front!OwedExactly
<1> SUFFICES ASSUME Owed, NEW h \in Hosts PROVE Front!Available(h) <=> account[h] >= 1
  BY DEF Front!OwedExactly
<1>1. CASE h \in DOMAIN failures
  <2>1. account[h] = LeftNow(failures[h]) /\ failures[h] \in Accounts
    BY <1>1 DEF Owed
  <2>2. Front!Refilled(failures[h]).left = LeftNow(failures[h])
    BY <2>1, RefilledNow
  <2> QED
    BY <1>1, <2>1, <2>2 DEF Front!Available
<1>2. CASE h \notin DOMAIN failures
  BY <1>2, LimitNumber DEF Owed, Front!Available
<1> QED
  BY <1>1, <1>2

-----------------------------------------------------------------------------
(* The account of one client                                               *)

\* The delays of manager.rs in ticks of 0.8 s, the account in fifths of a
\* failure, and a user who starts so rarely that it is not he who uses it up.
RealPace ==
  /\ Steps = RealSteps /\ Failure = 5 /\ Refill = 2
  /\ 9 * MaxStarts <= Quota

\* Each start costs the account at most nine more than the delays bring back:
\* two refusals in a row, and one more after the attempts began again.
Base == Quota + 6 - 9 * starts

Paced ==
  /\ starts \in 0 .. MaxStarts /\ quota \in Int /\ quota <= Quota
  /\ attempt \in 0 .. 5 /\ delay \in Nat
  /\ status \in {"off", "dialing", "live", "waiting", "error"}
  /\ quota >= Base - 6
  /\ (status \in {"dialing", "live", "waiting"} => starts > 0)
  /\ (status = "dialing" =>
        /\ quota >= Base - 1
        /\ (attempt = 0 => quota >= Base + 3)
        /\ (attempt = 1 => quota >= Base))
  /\ (status = "live" => attempt = 0 /\ quota >= Base - 1)
  /\ (status = "waiting" =>
        /\ attempt > 0
        /\ quota + 2 * delay >= Base - 1
        /\ (attempt = 1 => quota + 2 * delay >= Base))

LEMMA MinOfTwo == \A x, y \in Int : Backoff!Min({x, y}) = IF x <= y THEN x ELSE y
<1> SUFFICES ASSUME NEW x \in Int, NEW y \in Int
             PROVE  Backoff!Min({x, y}) = IF x <= y THEN x ELSE y
  OBVIOUS
<1> DEFINE m == IF x <= y THEN x ELSE y
<1>1. m \in {x, y} /\ \A z \in {x, y} : m <= z
  OBVIOUS
<1>2. \A n \in {x, y} : (\A z \in {x, y} : n <= z) => n = m
  OBVIOUS
<1> HIDE DEF m
<1>3. Backoff!Min({x, y}) \in {x, y} /\ \A z \in {x, y} : Backoff!Min({x, y}) <= z
  BY <1>1 DEF Backoff!Min
<1>4. Backoff!Min({x, y}) = m
  BY <1>2, <1>3
<1> QED
  BY <1>4 DEF m

LEMMA MaxOfTwo == \A x, y \in Int : Backoff!Max({x, y}) = IF x >= y THEN x ELSE y
<1> SUFFICES ASSUME NEW x \in Int, NEW y \in Int
             PROVE  Backoff!Max({x, y}) = IF x >= y THEN x ELSE y
  OBVIOUS
<1> DEFINE m == IF x >= y THEN x ELSE y
<1>1. m \in {x, y} /\ \A z \in {x, y} : m >= z
  OBVIOUS
<1>2. \A n \in {x, y} : (\A z \in {x, y} : n >= z) => n = m
  OBVIOUS
<1> HIDE DEF m
<1>3. Backoff!Max({x, y}) \in {x, y} /\ \A z \in {x, y} : Backoff!Max({x, y}) >= z
  BY <1>1 DEF Backoff!Max
<1>4. Backoff!Max({x, y}) = m
  BY <1>2, <1>3
<1> QED
  BY <1>4 DEF m

LEMMA QuotaNumbers == Quota \in Nat \ {0} /\ MaxStarts \in Nat \ {0}
BY Assumptions DEF Assumptions, Backoff!ReconnectAssumption

LEMMA InitPaced == Backoff!Init => Paced
BY QuotaNumbers DEF Backoff!Init, Paced, Base

\* The delays that follow the attempts.
LEMMA Delays ==
  ASSUME RealPace, NEW n \in 0 .. 5, Backoff!Backoff(n)
  PROVE  /\ status' = "waiting"
         /\ attempt' = IF n < 5 THEN n + 1 ELSE 5
         /\ delay' \in Nat
         /\ (n = 0 => delay' = 1) /\ (n = 1 => delay' = 2) /\ (n > 1 => delay' >= 5)
<1>1. Len(Steps) = 5 /\ Steps[1] = 1 /\ Steps[2] = 2 /\ Steps[3] = 5 /\ Steps[4] = 10 /\ Steps[5] = 30
  BY DEF RealPace, RealSteps
<1>2. Backoff!Min({n, 4}) = IF n <= 4 THEN n ELSE 4
  BY MinOfTwo
<1>3. Backoff!Min({n + 1, 5}) = IF n + 1 <= 5 THEN n + 1 ELSE 5
  BY MinOfTwo
<1>4. status' = "waiting" /\ delay' = Steps[Backoff!Min({n, 4}) + 1] /\ attempt' = Backoff!Min({n + 1, 5})
  BY <1>1 DEF Backoff!Backoff, Backoff!Delay, Backoff!Least
<1>5. n \in {0, 1, 2, 3, 4, 5}
  OBVIOUS
<1> QED
  BY <1>1, <1>2, <1>3, <1>4, <1>5

LEMMA NotedCosts ==
  ASSUME RealPace, quota \in Int, quota <= Quota, Backoff!Noted
  PROVE  quota' \in Int /\ quota' >= quota - 5 /\ quota' <= Quota
<1>1. quota' = Backoff!Max({quota - 5, -Quota})
  BY DEF Backoff!Noted, RealPace
<1>2. Backoff!Max({quota - 5, -Quota}) = IF quota - 5 >= -Quota THEN quota - 5 ELSE -Quota
  BY MaxOfTwo, QuotaNumbers
<1> QED
  BY <1>1, <1>2, QuotaNumbers

\* After an attempt that failed, whether it was noted or not.
LEMMA BackingOff ==
  ASSUME RealPace, Paced, status = "dialing", Backoff!Backoff(attempt), UNCHANGED starts,
         quota' \in Int, quota' >= quota - 5, quota' <= Quota
  PROVE  Paced'
<1>1. /\ status' = "waiting" /\ attempt' = IF attempt < 5 THEN attempt + 1 ELSE 5
      /\ delay' \in Nat
      /\ (attempt = 0 => delay' = 1) /\ (attempt = 1 => delay' = 2) /\ (attempt > 1 => delay' >= 5)
  BY Delays DEF Paced
<1>2. /\ Base \in Int /\ Base' = Base /\ attempt \in 0 .. 5 /\ quota \in Int
      /\ quota >= Base - 1 /\ (attempt = 0 => quota >= Base + 3) /\ (attempt = 1 => quota >= Base)
  BY QuotaNumbers DEF Paced, Base
<1>3. attempt' \in 0 .. 5 /\ attempt' > 0 /\ quota' >= Base' - 6
  BY <1>1, <1>2
<1>4. ASSUME NEW b \in Int, NEW n \in 0 .. 5, NEW q \in Int, NEW r \in Int, NEW d \in Nat,
             q >= b - 1, n = 0 => q >= b + 3, n = 1 => q >= b, r >= q - 5,
             n = 0 => d = 1, n = 1 => d = 2, n > 1 => d >= 5
      PROVE  r + 2 * d >= b - 1 /\ (n = 0 => r + 2 * d >= b)
  <2>1. n = 0 \/ n = 1 \/ n > 1
    OBVIOUS
  <2>2. CASE n = 0
    BY <1>4, <2>2
  <2>3. CASE n = 1
    BY <1>4, <2>3
  <2>4. CASE n > 1
    BY <1>4, <2>4
  <2> QED
    BY <2>1, <2>2, <2>3, <2>4
<1>6. quota' + 2 * delay' >= Base - 1 /\ (attempt = 0 => quota' + 2 * delay' >= Base)
  BY <1>1, <1>2, <1>4
<1>7. attempt' = 1 => attempt = 0
  BY <1>1, <1>2
<1>5. starts' \in 0 .. MaxStarts /\ starts' > 0
  BY DEF Paced
<1> QED
  BY <1>1, <1>2, <1>3, <1>5, <1>6, <1>7 DEF Paced

LEMMA KeepsPace ==
  ASSUME RealPace, Paced, [Backoff!Next]_(Backoff!vars)
  PROVE  Paced'
<1> USE QuotaNumbers DEF Paced, Base
<1>1. CASE Backoff!Start
  BY <1>1 DEF Backoff!Start
<1>2. CASE Backoff!Connected
  BY <1>2 DEF Backoff!Connected
<1>3. CASE Backoff!Refused
  <2>1. status = "dialing" /\ Backoff!Noted /\ Backoff!Backoff(attempt) /\ UNCHANGED starts
    BY <1>3 DEF Backoff!Refused
  <2>2. quota' \in Int /\ quota' >= quota - 5 /\ quota' <= Quota
    BY <2>1, NotedCosts
  <2> QED
    BY <2>1, <2>2, BackingOff
<1>4. CASE Backoff!Unanswered
  <2>1. status = "dialing" /\ Backoff!Backoff(attempt) /\ UNCHANGED <<quota, starts>>
    BY <1>4 DEF Backoff!Unanswered
  <2>2. quota' \in Int /\ quota' >= quota - 5 /\ quota' <= Quota
    BY <2>1
  <2> QED
    BY <2>1, <2>2, BackingOff
<1>5. CASE Backoff!Rejected
  <2>1. /\ status = "dialing" /\ status' = "error" /\ attempt' = 0 /\ UNCHANGED <<delay, starts>>
        /\ (Backoff!Noted \/ UNCHANGED quota)
    BY <1>5 DEF Backoff!Rejected, Backoff!Final
  <2>2. quota' \in Int /\ quota' >= quota - 5 /\ quota' <= Quota
    BY <2>1, NotedCosts
  <2> QED
    BY <2>1, <2>2
<1>6. CASE Backoff!Lost
  <2>1. status = "live" /\ attempt = 0 /\ UNCHANGED <<quota, starts>>
    BY <1>6 DEF Backoff!Lost
  <2>2. CASE Backoff!Backoff(attempt)
    <3>1. status' = "waiting" /\ attempt' = 1 /\ delay' = 1
      BY <2>1, <2>2, Delays
    <3> QED
      BY <2>1, <3>1
  <2>3. CASE Backoff!Final
    BY <2>1, <2>3 DEF Backoff!Final
  <2> QED
    BY <1>6, <2>2, <2>3 DEF Backoff!Lost
<1>7. CASE Backoff!Redial
  BY <1>7 DEF Backoff!Redial
<1>8. CASE Backoff!Disconnect
  BY <1>8 DEF Backoff!Disconnect
<1>9. CASE Backoff!Tick
  <2>1. /\ delay' = (IF delay > 0 THEN delay - 1 ELSE 0) /\ quota' = Backoff!Min({quota + 2, Quota})
        /\ UNCHANGED <<status, attempt, starts>>
    BY <1>9 DEF Backoff!Tick, Backoff!Least, RealPace
  <2>2. Backoff!Min({quota + 2, Quota}) = IF quota + 2 <= Quota THEN quota + 2 ELSE Quota
    BY MinOfTwo
  <2>3. CASE quota + 2 <= Quota
    BY <2>1, <2>2, <2>3
  <2>4. CASE ~(quota + 2 <= Quota)
    BY <2>1, <2>2, <2>4
  <2> QED
    BY <2>3, <2>4
<1>10. CASE UNCHANGED Backoff!vars
  BY <1>10 DEF Backoff!vars
<1> QED
  BY <1>1, <1>2, <1>3, <1>4, <1>5, <1>6, <1>7, <1>8, <1>9, <1>10 DEF Backoff!Next

LEMMA PacedIsAllowed == RealPace /\ Paced => Backoff!OwnRetriesAllowed
BY QuotaNumbers DEF RealPace, Paced, Base, Backoff!OwnRetriesAllowed

-----------------------------------------------------------------------------
(* A broken WebView never becomes a loop of restarts                       *)

\* What the argument needs of the types.
ClockTypes ==
  now \in 0 .. MaxNow /\ stamp \in 0 .. Restart!Never /\ restarted \in 0 .. Window

\* Until the window is over, and unless the clock has been set forward, the
\* file shows an automatic restart: not a longer time ago than it was, or in
\* the future of a clock that was set back.
StampKnows ==
  restarted < Window /\ ~ahead => stamp # Restart!Never /\ now <= stamp + restarted

Stamped == ClockTypes /\ StampKnows

LEMMA WindowNumbers == Window \in Nat \ {0} /\ MaxNow \in Nat \ {0}
BY Assumptions DEF Assumptions, Restart!RecoveryAssumption

LEMMA InitStamped == Restart!Init => Stamped
BY WindowNumbers DEF Restart!Init, Stamped, ClockTypes, StampKnows, Restart!Never

\* Only an automatic restart, the clock, and setting it touch what is stamped.
LEMMA NextKeepsStamped ==
  ASSUME Stamped, [Restart!Next]_(Restart!vars)
  PROVE  Stamped'
<1> USE DEF Stamped, ClockTypes, StampKnows, Restart!Never
<1>0. CASE UNCHANGED <<now, stamp, restarted, ahead>>
  BY <1>0
<1>1. CASE Restart!AutoRestart
  <2>1. stamp' = now /\ restarted' = 0 /\ now' = now
    BY <1>1 DEF Restart!AutoRestart, Restart!ClaimAutoRestart
  <2> QED
    BY WindowNumbers, <2>1
<1>2. CASE Restart!Tick
  <2>1. UNCHANGED <<stamp, ahead>> /\ now' = (IF now < MaxNow THEN now + 1 ELSE now)
        /\ restarted' = (IF restarted < Window THEN restarted + 1 ELSE restarted)
    BY <1>2 DEF Restart!Tick, Restart!file
  <2> QED
    BY WindowNumbers, <2>1
<1>3. CASE Restart!ClockSet
  <2>1. UNCHANGED <<stamp, restarted>> /\ now' \in 0 .. MaxNow
    BY <1>3 DEF Restart!ClockSet, Restart!file
  <2>2. CASE ahead'
    BY <2>1, <2>2
  <2>3. CASE ~ahead'
    <3>1. ~ahead /\ ~(now' > now)
      BY <1>3, <2>3 DEF Restart!ClockSet
    <3> QED
      BY WindowNumbers, <2>1, <2>3, <3>1
  <2> QED
    BY <2>2, <2>3
<1>4. CASE Restart!Next /\ ~Restart!AutoRestart /\ ~Restart!Tick /\ ~Restart!ClockSet
  <2>1. UNCHANGED <<now, stamp, restarted, ahead>>
    BY <1>4 DEF Restart!Next, Restart!Ready, Restart!ProcessFailed, Restart!WatchEnds,
                Restart!Answer, Restart!MenuEvent, Restart!Permissions, Restart!file, Restart!told
  <2> QED
    BY <2>1
<1> QED
  BY <1>0, <1>1, <1>2, <1>3, <1>4 DEF Restart!vars, Restart!file, Restart!told

LEMMA StampedForbids == Stamped /\ Restart!AutoRestart => restarted = Window \/ ahead
<1> SUFFICES ASSUME Stamped, Restart!AutoRestart, restarted # Window, ~ahead PROVE FALSE
  OBVIOUS
<1>1. Restart!AutoRestartAllowed
  BY DEF Restart!AutoRestart, Restart!ClaimAutoRestart
<1> QED
  BY <1>1, WindowNumbers
     DEF Stamped, ClockTypes, StampKnows, Restart!Never, Restart!AutoRestartAllowed

-----------------------------------------------------------------------------
(* The pair on Cloudflare                                                  *)

\* A pair is of two devices: what the object tells one of them is about the other.
TwoIds == \A a, b, c \in Ids : a = b \/ b = c \/ a = c

PeerFrames == [about : Ids, online : BOOLEAN]

SocketTypes ==
  /\ ready \in [Cloudflare!Sockets -> {"none", "open", "closing"}]
  /\ owner \in [Cloudflare!Sockets -> Ids \cup {Cloudflare!Nobody}]
  /\ wire \in [Cloudflare!Sockets -> Seq(PeerFrames)]
  /\ socket_client \in [Cloudflare!Sockets -> BOOLEAN]
  /\ socket_online \in [Cloudflare!Sockets -> BOOLEAN]

\* A socket that either side still has is somebody's; what is under way on it is
\* about the other device.
Owning(s) ==
  /\ ready[s] # "none" \/ socket_client[s] => owner[s] \in Ids
  /\ ~socket_client[s] => wire[s] = <<>>
  /\ \A i \in 1 .. Len(wire[s]) : wire[s][i].about # owner[s]

\* What the client believes of its peer, or will.
Believes(s) ==
  \/ wire[s] = <<>> /\ socket_online[s]
  \/ wire[s] # <<>> /\ wire[s][Len(wire[s])].online

\* Who believes that the peer is away is right; who believes that it is there is
\* right, or a socket of the peer is still to be closed, and that will be told.
Truth(s) ==
  ready[s] = "open" /\ socket_client[s] =>
    /\ ~Believes(s) => \A t \in Cloudflare!Sockets : ready[t] = "open" => owner[t] = owner[s]
    /\ Believes(s) => \E t \in Cloudflare!Sockets : ready[t] # "none" /\ owner[t] # owner[s]

Announced ==
  /\ SocketTypes
  /\ \A s \in Cloudflare!Sockets : Owning(s)
  /\ \A s \in Cloudflare!Sockets : Truth(s)

LEMMA NobodyIsNoId == Cloudflare!Nobody \notin Ids
BY Assumptions DEF Assumptions, Cloudflare!CloudflareAssumption

LEMMA InitAnnounced == Cloudflare!Init => Announced
<1> SUFFICES ASSUME Cloudflare!Init PROVE Announced
  OBVIOUS
<1>1. /\ ready = [s \in Cloudflare!Sockets |-> "none"]
      /\ owner = [s \in Cloudflare!Sockets |-> Cloudflare!Nobody]
      /\ wire = [s \in Cloudflare!Sockets |-> <<>>]
      /\ socket_client = [s \in Cloudflare!Sockets |-> FALSE]
      /\ socket_online = [s \in Cloudflare!Sockets |-> FALSE]
  BY DEF Cloudflare!Init
<1>2. <<>> \in Seq(PeerFrames) /\ 1 .. Len(<<>>) = {}
  BY EmptySeq
<1>3. SocketTypes
  BY <1>1, <1>2 DEF SocketTypes
<1>4. ASSUME NEW s \in Cloudflare!Sockets PROVE Owning(s) /\ Truth(s)
  BY <1>1, <1>2 DEF Owning, Truth
<1> QED
  BY <1>3, <1>4 DEF Announced

\* A frame about d, on the sockets in S that have a client.
LEMMA WireIsLonger ==
  ASSUME SocketTypes, NEW S, NEW frame \in PeerFrames
  PROVE  /\ Cloudflare!Sent(wire, S, frame) \in [Cloudflare!Sockets -> Seq(PeerFrames)]
         /\ \A s \in Cloudflare!Sockets :
              IF s \in S /\ socket_client[s]
              THEN /\ Len(wire[s]) \in Nat
                   /\ Len(Cloudflare!Sent(wire, S, frame)[s]) = Len(wire[s]) + 1
                   /\ Cloudflare!Sent(wire, S, frame)[s] # <<>>
                   /\ Cloudflare!Sent(wire, S, frame)[s][Len(wire[s]) + 1] = frame
                   /\ \A i \in 1 .. Len(wire[s]) : Cloudflare!Sent(wire, S, frame)[s][i] = wire[s][i]
              ELSE Cloudflare!Sent(wire, S, frame)[s] = wire[s]
<1>1. ASSUME NEW s \in Cloudflare!Sockets
      PROVE  /\ wire[s] \in Seq(PeerFrames) /\ Append(wire[s], frame) \in Seq(PeerFrames)
             /\ Len(wire[s]) \in Nat /\ Len(Append(wire[s], frame)) = Len(wire[s]) + 1
             /\ Append(wire[s], frame) # <<>> /\ Append(wire[s], frame)[Len(wire[s]) + 1] = frame
             /\ \A i \in 1 .. Len(wire[s]) : Append(wire[s], frame)[i] = wire[s][i]
  <2>1. wire[s] \in Seq(PeerFrames)
    BY DEF SocketTypes
  <2> QED
    BY <2>1, AppendProperties, LenProperties
<1>2. ASSUME NEW s \in Cloudflare!Sockets
      PROVE  Cloudflare!Sent(wire, S, frame)[s]
               = IF s \in S /\ socket_client[s] THEN Append(wire[s], frame) ELSE wire[s]
  BY DEF Cloudflare!Sent
<1>3. Cloudflare!Sent(wire, S, frame) \in [Cloudflare!Sockets -> Seq(PeerFrames)]
  BY <1>1 DEF Cloudflare!Sent
<1>4. ASSUME NEW s \in Cloudflare!Sockets, s \in S, socket_client[s]
      PROVE  Cloudflare!Sent(wire, S, frame)[s] = Append(wire[s], frame)
  BY <1>2, <1>4
<1>5. ASSUME NEW s \in Cloudflare!Sockets, ~(s \in S /\ socket_client[s])
      PROVE  Cloudflare!Sent(wire, S, frame)[s] = wire[s]
  BY <1>2, <1>5
<1> QED
  BY <1>1, <1>3, <1>4, <1>5

LEMMA PeerIsFrame ==
  ASSUME NEW d \in Ids, NEW b \in BOOLEAN
  PROVE  /\ Cloudflare!Peer(d, b) \in PeerFrames /\ Cloudflare!Peer(d, b).about = d
         /\ Cloudflare!Peer(d, b).online = b
BY DEF Cloudflare!Peer, PeerFrames

\* A device comes: its other sockets go, and the rest hear of it.
LEMMA FetchAnnounces ==
  ASSUME Announced, NEW s \in Cloudflare!Sockets, NEW d \in Ids, Cloudflare!Fetch(s, d)
  PROVE  Announced'
<1> DEFINE live == {t \in Cloudflare!Sockets : ready[t] = "open"}
           own == {t \in live : owner[t] = d}
           peers == live \ own
           here == Cloudflare!Peer(d, TRUE)
<1>1. owner[s] = Cloudflare!Nobody
  BY DEF Cloudflare!Fetch
<1> DEFINE looks == IF Cloudflare!Cardinality(peers) >= Cloudflare!PAIR_SIZE THEN peers \cap old ELSE {}
<1>2. PICK lost \in {{}} \cup {{p} : p \in looks} :
        IF Cloudflare!Cardinality(peers \ lost) >= Cloudflare!PAIR_SIZE
        THEN UNCHANGED <<ready, owner, wire, socket_client, socket_online>>
        ELSE /\ ready' = [t \in Cloudflare!Sockets |-> IF t = s THEN "open"
                           ELSE IF t \in own \cup lost THEN "closing" ELSE ready[t]]
             /\ owner' = [owner EXCEPT ![s] = d]
             /\ socket_client' = [socket_client EXCEPT ![s] = TRUE]
             /\ socket_online' = [socket_online EXCEPT ![s] = peers \ lost # {}]
             /\ wire' = Cloudflare!Sent(wire, peers \ lost, here)
  <2> DEFINE those == Cloudflare!LiveSockets \ Cloudflare!Mine(d)
             looked == IF Cloudflare!Cardinality(those) >= Cloudflare!PAIR_SIZE THEN those \cap old ELSE {}
  <2>1. PICK dropped \in {{}} \cup {{p} : p \in looked} :
          IF Cloudflare!Cardinality(those \ dropped) >= Cloudflare!PAIR_SIZE
          THEN UNCHANGED <<ready, owner, wire, socket_client, socket_online>>
          ELSE /\ ready' = [t \in Cloudflare!Sockets |-> IF t = s THEN "open"
                             ELSE IF t \in Cloudflare!Mine(d) \cup dropped THEN "closing" ELSE ready[t]]
               /\ owner' = [owner EXCEPT ![s] = d]
               /\ socket_client' = [socket_client EXCEPT ![s] = TRUE]
               /\ socket_online' = [socket_online EXCEPT ![s] = those \ dropped # {}]
               /\ wire' = Cloudflare!Sent(wire, those \ dropped, Cloudflare!Peer(d, TRUE))
    BY Zenon DEF Cloudflare!Fetch
  <2>2. Cloudflare!Mine(d) = own /\ those = peers /\ looked = looks
    BY Zenon DEF Cloudflare!LiveSockets, Cloudflare!Mine
  <2> HIDE DEF those, looked, peers, looks, own
  <2>3. dropped \in {{}} \cup {{p} : p \in looks}
    BY <2>1, <2>2
  <2>4. Cloudflare!Cardinality(those \ dropped) = Cloudflare!Cardinality(peers \ dropped)
    BY <2>2
  <2>5. CASE Cloudflare!Cardinality(those \ dropped) >= Cloudflare!PAIR_SIZE
    <3>1. UNCHANGED <<ready, owner, wire, socket_client, socket_online>>
      BY <2>1, <2>5
    <3> WITNESS dropped \in {{}} \cup {{p} : p \in looks}
    <3> QED
      BY <2>4, <2>5, <3>1
  <2>6. CASE ~(Cloudflare!Cardinality(those \ dropped) >= Cloudflare!PAIR_SIZE)
    <3>1. /\ ready' = [t \in Cloudflare!Sockets |-> IF t = s THEN "open"
                        ELSE IF t \in Cloudflare!Mine(d) \cup dropped THEN "closing" ELSE ready[t]]
          /\ owner' = [owner EXCEPT ![s] = d]
          /\ socket_client' = [socket_client EXCEPT ![s] = TRUE]
          /\ socket_online' = [socket_online EXCEPT ![s] = those \ dropped # {}]
          /\ wire' = Cloudflare!Sent(wire, those \ dropped, Cloudflare!Peer(d, TRUE))
      BY <2>1, <2>6
    <3>2. ready' = [t \in Cloudflare!Sockets |-> IF t = s THEN "open"
                      ELSE IF t \in own \cup dropped THEN "closing" ELSE ready[t]]
      BY <2>2, <3>1
    <3>3. socket_online' = [socket_online EXCEPT ![s] = peers \ dropped # {}]
      BY <2>2, <3>1
    <3>4. wire' = Cloudflare!Sent(wire, peers \ dropped, here)
      BY <2>2, <3>1
    <3> WITNESS dropped \in {{}} \cup {{p} : p \in looks}
    <3> QED
      BY <2>4, <2>6, <3>1, <3>2, <3>3, <3>4
  <2> QED
    BY <2>5, <2>6, Zenon
<1>a. lost \subseteq peers
  <2>1. \A l \in {{}} \cup {{p} : p \in looks} : l \subseteq peers
    OBVIOUS
  <2> HIDE DEF looks, peers, own, here
  <2> QED
    BY <1>2, <2>1, Zenon
<1>3. CASE UNCHANGED <<ready, owner, wire, socket_client, socket_online>>
  BY <1>3 DEF Announced, SocketTypes, Owning, Truth, Believes
<1>4. CASE /\ ready' = [t \in Cloudflare!Sockets |-> IF t = s THEN "open"
                          ELSE IF t \in own \cup lost THEN "closing" ELSE ready[t]]
           /\ owner' = [owner EXCEPT ![s] = d]
           /\ socket_client' = [socket_client EXCEPT ![s] = TRUE]
           /\ socket_online' = [socket_online EXCEPT ![s] = peers \ lost # {}]
           /\ wire' = Cloudflare!Sent(wire, peers \ lost, here)
  <2> DEFINE rest == peers \ lost
  <2>1. SocketTypes /\ here \in PeerFrames /\ here.about = d /\ here.online
    BY PeerIsFrame DEF Announced
  <2>2. ready[s] = "none" /\ ~socket_client[s] /\ wire[s] = <<>> /\ s \notin rest
    BY <1>1, NobodyIsNoId DEF Announced, Owning, SocketTypes
  <2> HIDE DEF here
  <2>3. /\ wire' \in [Cloudflare!Sockets -> Seq(PeerFrames)]
        /\ \A t \in Cloudflare!Sockets :
             IF t \in rest /\ socket_client[t]
             THEN /\ Len(wire[t]) \in Nat /\ Len(wire'[t]) = Len(wire[t]) + 1 /\ wire'[t] # <<>>
                  /\ wire'[t][Len(wire[t]) + 1] = here
                  /\ \A i \in 1 .. Len(wire[t]) : wire'[t][i] = wire[t][i]
             ELSE wire'[t] = wire[t]
    BY <1>4, <2>1, WireIsLonger
  <2>4. /\ ready' \in [Cloudflare!Sockets -> {"none", "open", "closing"}]
        /\ owner' \in [Cloudflare!Sockets -> Ids \cup {Cloudflare!Nobody}]
        /\ socket_client' \in [Cloudflare!Sockets -> BOOLEAN]
        /\ socket_online' \in [Cloudflare!Sockets -> BOOLEAN]
    BY <1>4, <2>1 DEF SocketTypes
  <2>5. /\ ready'[s] = "open" /\ owner'[s] = d /\ socket_client'[s] /\ wire'[s] = <<>>
        /\ (socket_online'[s] <=> rest # {})
    BY <1>4, <2>1, <2>2, <2>3 DEF SocketTypes
  <2>6. ASSUME NEW t \in Cloudflare!Sockets, t # s
        PROVE  /\ owner'[t] = owner[t] /\ socket_client'[t] = socket_client[t]
               /\ socket_online'[t] = socket_online[t]
               /\ (ready'[t] = "none" <=> ready[t] = "none")
               /\ (ready'[t] = "open" <=> t \in rest)
    BY <1>4, <2>1, <2>6 DEF SocketTypes
  <2>7. ASSUME NEW t \in Cloudflare!Sockets PROVE Owning(t)'
    <3>1. CASE t = s
      BY <2>5, <3>1 DEF Owning
    <3>2. CASE t # s /\ ~(t \in rest /\ socket_client[t])
      BY <2>3, <2>6, <3>2 DEF Owning, Announced
    <3>3. CASE t # s /\ t \in rest /\ socket_client[t]
      <4>1. /\ Owning(t) /\ owner[t] # d
        BY <3>3 DEF Announced
      <4>2. ASSUME NEW i \in 1 .. Len(wire'[t]) PROVE wire'[t][i].about # owner'[t]
        <5>1. i \in 1 .. Len(wire[t]) \/ i = Len(wire[t]) + 1
          BY <2>3, <3>3
        <5> QED
          BY <2>1, <2>3, <2>6, <3>3, <4>1, <5>1 DEF Owning
      <4> QED
        BY <2>6, <3>3, <4>1, <4>2 DEF Owning
    <3> QED
      BY <3>1, <3>2, <3>3
  <2>8. ASSUME NEW t \in Cloudflare!Sockets PROVE Truth(t)'
    <3>1. CASE t = s
      <4>1. Believes(s)' <=> rest # {}
        BY <2>5 DEF Believes
      <4>2. ASSUME rest = {}, NEW u \in Cloudflare!Sockets, ready'[u] = "open" PROVE u = s
        BY <2>6, <4>2
      <4>3. ASSUME NEW u \in rest PROVE u \in Cloudflare!Sockets /\ ready'[u] # "none" /\ owner'[u] # d
        BY <2>2, <2>6
      <4> QED
        BY <2>5, <3>1, <4>1, <4>2, <4>3 DEF Truth
    <3>2. CASE t # s
      <4> SUFFICES ASSUME ready'[t] = "open", socket_client'[t] PROVE Truth(t)'
        BY DEF Truth
      <4>1. t \in rest /\ socket_client[t] /\ owner'[t] # d
        BY <2>6, <3>2
      <4>2. Believes(t)'
        BY <2>1, <2>3, <4>1 DEF Believes
      <4> QED
        BY <2>5, <4>1, <4>2 DEF Truth
    <3> QED
      BY <3>1, <3>2
  <2> QED
    BY <2>3, <2>4, <2>7, <2>8 DEF Announced, SocketTypes
<1> QED
  BY <1>2, <1>3, <1>4

\* The last of a device's sockets goes: the other hears of it.
LEMMA CloseAnnounces ==
  ASSUME TwoIds, Announced, NEW s \in Cloudflare!Sockets, Cloudflare!Closed(s)
  PROVE  Announced'
<1> DEFINE others == {t \in Cloudflare!Sockets : ready[t] = "open"} \ {s}
           off == Cloudflare!Peer(owner[s], FALSE)
           stays == \E t \in others : owner[t] = owner[s]
<1>1. /\ ready[s] = "closing" \/ (ready[s] = "open" /\ ~socket_client[s])
      /\ ready' = [ready EXCEPT ![s] = "none"]
      /\ owner' = (IF socket_client[s] THEN owner ELSE [owner EXCEPT ![s] = Cloudflare!Nobody])
      /\ UNCHANGED <<socket_client, socket_online>>
  BY DEF Cloudflare!Closed
<1>2. wire' = IF stays THEN wire ELSE Cloudflare!Sent(wire, others, off)
  BY DEF Cloudflare!Closed, Cloudflare!Replaced, Cloudflare!LiveSockets
<1>3. SocketTypes /\ owner[s] \in Ids /\ Owning(s)
  BY <1>1 DEF Announced, Owning
<1>4. off \in PeerFrames /\ off.about = owner[s] /\ ~off.online
  BY <1>3, PeerIsFrame
<1> HIDE DEF off
<1>5. /\ ready' \in [Cloudflare!Sockets -> {"none", "open", "closing"}]
      /\ owner' \in [Cloudflare!Sockets -> Ids \cup {Cloudflare!Nobody}]
      /\ ready'[s] = "none" /\ (socket_client[s] => owner'[s] = owner[s])
  BY <1>1, <1>3 DEF SocketTypes
<1>6. ASSUME NEW t \in Cloudflare!Sockets, t # s
      PROVE  ready'[t] = ready[t] /\ owner'[t] = owner[t] /\ (ready[t] = "open" <=> t \in others)
  BY <1>1, <1>3, <1>6 DEF SocketTypes
<1>7. CASE stays
  <2>1. wire' = wire
    BY <1>2, <1>7
  <2>2. SocketTypes'
    BY <1>1, <1>3, <1>5, <2>1 DEF SocketTypes
  <2>3. ASSUME NEW t \in Cloudflare!Sockets PROVE Owning(t)'
    <3>1. Owning(t) /\ wire'[t] = wire[t] /\ socket_client'[t] = socket_client[t]
      BY <1>1, <2>1 DEF Announced
    <3>2. CASE t # s
      BY <1>6, <3>1, <3>2 DEF Owning
    <3>3. CASE t = s /\ socket_client[s]
      BY <1>5, <3>1, <3>3 DEF Owning
    <3>4. CASE t = s /\ ~socket_client[s]
      <4>1. wire[s] = <<>> /\ 1 .. Len(wire[s]) = {}
        BY <3>1, <3>4 DEF Owning
      <4> QED
        BY <1>5, <3>1, <3>4, <4>1 DEF Owning
    <3> QED
      BY <3>2, <3>3, <3>4
  <2>4. ASSUME NEW t \in Cloudflare!Sockets PROVE Truth(t)'
    <3> SUFFICES ASSUME ready'[t] = "open", socket_client[t] PROVE Truth(t)'
      BY <1>1 DEF Truth
    <3>1. t # s /\ ready[t] = "open" /\ owner'[t] = owner[t] /\ Truth(t) /\ (Believes(t)' <=> Believes(t))
      BY <1>1, <1>5, <1>6, <2>1 DEF Announced, Believes
    <3>2. ASSUME ~Believes(t), NEW u \in Cloudflare!Sockets, ready'[u] = "open" PROVE owner'[u] = owner'[t]
      BY <1>5, <1>6, <3>1, <3>2 DEF Truth
    <3>3. ASSUME Believes(t)
          PROVE  \E u \in Cloudflare!Sockets : ready'[u] # "none" /\ owner'[u] # owner'[t]
      <4>1. PICK u \in Cloudflare!Sockets : ready[u] # "none" /\ owner[u] # owner[t]
        BY <3>1, <3>3 DEF Truth
      <4>2. CASE u # s
        BY <1>6, <3>1, <4>1, <4>2
      <4>3. CASE u = s
        <5>1. PICK v \in others : owner[v] = owner[s]
          BY <1>7
        <5>2. v \in Cloudflare!Sockets /\ v # s /\ ready[v] = "open"
          OBVIOUS
        <5> QED
          BY <1>6, <3>1, <4>1, <4>3, <5>1, <5>2
      <4> QED
        BY <4>2, <4>3
    <3> QED
      BY <3>1, <3>2, <3>3 DEF Truth
  <2> QED
    BY <2>2, <2>3, <2>4 DEF Announced
<1>8. CASE ~stays
  <2>1. /\ wire' \in [Cloudflare!Sockets -> Seq(PeerFrames)]
        /\ \A t \in Cloudflare!Sockets :
             IF t \in others /\ socket_client[t]
             THEN /\ Len(wire[t]) \in Nat /\ Len(wire'[t]) = Len(wire[t]) + 1 /\ wire'[t] # <<>>
                  /\ wire'[t][Len(wire[t]) + 1] = off
                  /\ \A i \in 1 .. Len(wire[t]) : wire'[t][i] = wire[t][i]
             ELSE wire'[t] = wire[t]
    <3>1. wire' = Cloudflare!Sent(wire, others, off)
      BY <1>2, <1>8
    <3> HIDE DEF others
    <3> QED
      BY <1>3, <1>4, <3>1, WireIsLonger
  <2>2. SocketTypes'
    BY <1>1, <1>3, <1>5, <2>1 DEF SocketTypes
  <2>3. ASSUME NEW t \in Cloudflare!Sockets PROVE Owning(t)'
    <3>1. Owning(t) /\ socket_client'[t] = socket_client[t]
      BY <1>1 DEF Announced
    <3>2. CASE t # s /\ t \in others /\ socket_client[t]
      <4>1. owner[t] # owner[s]
        BY <1>8, <3>2
      <4>2. ASSUME NEW i \in 1 .. Len(wire'[t]) PROVE wire'[t][i].about # owner'[t]
        <5>1. i \in 1 .. Len(wire[t]) \/ i = Len(wire[t]) + 1
          BY <2>1, <3>2
        <5> QED
          BY <1>4, <1>6, <2>1, <3>1, <3>2, <4>1, <5>1 DEF Owning
      <4> QED
        BY <1>6, <3>1, <3>2, <4>2 DEF Owning
    <3>3. CASE t # s /\ ~(t \in others /\ socket_client[t])
      BY <1>6, <2>1, <3>1, <3>3 DEF Owning
    <3>4. CASE t = s /\ socket_client[s]
      BY <1>5, <2>1, <3>1, <3>4 DEF Owning
    <3>5. CASE t = s /\ ~socket_client[s]
      <4>1. wire'[s] = <<>> /\ 1 .. Len(wire'[s]) = {}
        BY <2>1, <3>1, <3>5 DEF Owning
      <4> QED
        BY <1>5, <3>1, <3>5, <4>1 DEF Owning
    <3> QED
      BY <3>2, <3>3, <3>4, <3>5
  <2>4. ASSUME NEW t \in Cloudflare!Sockets PROVE Truth(t)'
    <3> SUFFICES ASSUME ready'[t] = "open", socket_client[t] PROVE Truth(t)'
      BY <1>1 DEF Truth
    <3>1. t # s /\ t \in others /\ owner'[t] = owner[t] /\ owner[t] \in Ids /\ owner[t] # owner[s]
      BY <1>5, <1>6, <1>8 DEF Announced, Owning
    <3>2. ~Believes(t)'
      BY <1>4, <2>1, <3>1 DEF Believes
    <3>3. ASSUME NEW u \in Cloudflare!Sockets, ready'[u] = "open" PROVE owner'[u] = owner'[t]
      <4>1. u # s /\ u \in others /\ owner'[u] = owner[u] /\ owner[u] \in Ids /\ owner[u] # owner[s]
        BY <1>5, <1>6, <1>8, <3>3 DEF Announced, Owning
      <4> QED
        BY <1>3, <3>1, <4>1 DEF TwoIds
    <3> QED
      BY <3>2, <3>3 DEF Truth
  <2> QED
    BY <2>2, <2>3, <2>4 DEF Announced
<1> QED
  BY <1>7, <1>8

\* The client takes a frame, which is about its peer, or is gone.
LEMMA HearAnnounces ==
  ASSUME Announced, NEW s \in Cloudflare!Sockets, Cloudflare!Hear(s)
  PROVE  Announced'
<1>1. /\ socket_client[s] /\ wire[s] # <<>> /\ wire' = [wire EXCEPT ![s] = Tail(@)]
      /\ socket_online' = [socket_online EXCEPT ![s] = IF Head(wire[s]).about # owner[s]
                                                       THEN Head(wire[s]).online ELSE @]
      /\ UNCHANGED <<ready, owner, socket_client>>
  BY DEF Cloudflare!Hear
<1>2. SocketTypes /\ Owning(s) /\ wire[s] \in Seq(PeerFrames)
  BY DEF Announced, SocketTypes
<1> DEFINE rest == Tail(wire[s])
<1>3. /\ rest \in Seq(PeerFrames) /\ Len(wire[s]) \in Nat /\ Len(wire[s]) > 0
      /\ Len(rest) = Len(wire[s]) - 1 /\ Head(wire[s]) = wire[s][1]
      /\ \A i \in 1 .. Len(rest) : rest[i] = wire[s][i + 1]
      /\ (rest = <<>> <=> Len(rest) = 0)
  <2>1. rest \in Seq(PeerFrames) /\ Len(rest) = Len(wire[s]) - 1 /\ \A i \in 1 .. Len(rest) : rest[i] = wire[s][i + 1]
    BY <1>1, <1>2, HeadTailProperties
  <2>2. Len(wire[s]) \in Nat /\ Len(wire[s]) > 0 /\ Head(wire[s]) = wire[s][1]
    BY <1>1, <1>2, EmptySeq, LenProperties
  <2> QED
    BY <2>1, <2>2, EmptySeq
<1>4. wire[s][1] \in PeerFrames /\ wire[s][1].about # owner[s]
  BY <1>2, <1>3, ElementOfSeq DEF Owning
<1>5. wire[s][1].online \in BOOLEAN
  BY <1>4 DEF PeerFrames
<1> HIDE DEF rest
<1>6. /\ wire' = [wire EXCEPT ![s] = rest] /\ socket_online' = [socket_online EXCEPT ![s] = wire[s][1].online]
  BY <1>1, <1>3, <1>4 DEF rest
<1>7. /\ wire' \in [Cloudflare!Sockets -> Seq(PeerFrames)] /\ wire'[s] = rest
      /\ socket_online' \in [Cloudflare!Sockets -> BOOLEAN] /\ socket_online'[s] = wire[s][1].online
      /\ \A t \in Cloudflare!Sockets \ {s} : wire'[t] = wire[t] /\ socket_online'[t] = socket_online[t]
  BY <1>2, <1>3, <1>5, <1>6 DEF SocketTypes
<1>8. SocketTypes'
  BY <1>1, <1>2, <1>7 DEF SocketTypes
<1>9. Believes(s)' <=> Believes(s)
  <2>1. CASE rest = <<>>
    <3>1. wire[s][Len(wire[s])] = wire[s][1]
      BY <1>3, <2>1
    <3> QED
      BY <1>1, <1>7, <2>1, <3>1 DEF Believes
  <2>2. CASE rest # <<>>
    <3>1. rest[Len(rest)] = wire[s][Len(wire[s])]
      BY <1>3, <2>2
    <3> QED
      BY <1>1, <1>7, <2>2, <3>1 DEF Believes
  <2> QED
    BY <2>1, <2>2
<1>10. ASSUME NEW t \in Cloudflare!Sockets PROVE Owning(t)' /\ (Believes(t)' <=> Believes(t))
  <2>1. CASE t # s
    BY <1>1, <1>7, <2>1 DEF Announced, Owning, Believes
  <2>2. CASE t = s
    <3>1. ASSUME NEW i \in 1 .. Len(rest) PROVE rest[i].about # owner[s]
      <4>1. i + 1 \in 1 .. Len(wire[s])
        BY <1>3
      <4> QED
        BY <1>2, <1>3, <4>1 DEF Owning
    <3> QED
      BY <1>1, <1>2, <1>7, <1>9, <2>2, <3>1 DEF Owning
  <2> QED
    BY <2>1, <2>2
<1>11. ASSUME NEW t \in Cloudflare!Sockets PROVE Truth(t)'
  BY <1>1, <1>10 DEF Announced, Truth
<1> QED
  BY <1>8, <1>10, <1>11 DEF Announced

LEMMA LeaveAnnounces ==
  ASSUME Announced, NEW s \in Cloudflare!Sockets, Cloudflare!Leave(s)
  PROVE  Announced'
<1>1. /\ socket_client[s] /\ socket_client' = [socket_client EXCEPT ![s] = FALSE]
      /\ wire' = [wire EXCEPT ![s] = <<>>] /\ socket_online' = [socket_online EXCEPT ![s] = FALSE]
      /\ owner' = (IF ready[s] = "none" THEN [owner EXCEPT ![s] = Cloudflare!Nobody] ELSE owner)
      /\ UNCHANGED ready
  BY DEF Cloudflare!Leave
<1>2. SocketTypes /\ <<>> \in Seq(PeerFrames) /\ 1 .. Len(<<>>) = {}
  BY EmptySeq DEF Announced
<1>3. SocketTypes'
  BY <1>1, <1>2 DEF SocketTypes
<1>4. /\ ~socket_client'[s] /\ wire'[s] = <<>> /\ (ready[s] # "none" => owner'[s] = owner[s])
      /\ \A t \in Cloudflare!Sockets \ {s} :
           /\ socket_client'[t] = socket_client[t] /\ wire'[t] = wire[t] /\ socket_online'[t] = socket_online[t]
           /\ owner'[t] = owner[t]
  BY <1>1, <1>2 DEF SocketTypes
<1>5. ASSUME NEW t \in Cloudflare!Sockets PROVE Owning(t)'
  <2>1. CASE t # s
    BY <1>1, <1>4, <2>1 DEF Announced, Owning
  <2>2. CASE t = s
    BY <1>1, <1>2, <1>4, <2>2 DEF Announced, Owning
  <2> QED
    BY <2>1, <2>2
<1>6. ASSUME NEW t \in Cloudflare!Sockets PROVE Truth(t)'
  <2>1. CASE t = s
    BY <1>4, <2>1 DEF Truth
  <2>2. CASE t # s
    <3>1. Believes(t)' <=> Believes(t)
      BY <1>4, <2>2 DEF Believes
    <3>2. \A u \in Cloudflare!Sockets : ready[u] # "none" => owner'[u] = owner[u]
      BY <1>4
    <3>3. Truth(t) /\ socket_client'[t] = socket_client[t] /\ owner'[t] = owner[t]
      BY <1>4, <2>2 DEF Announced
    <3> QED
      BY <1>1, <3>1, <3>2, <3>3 DEF Truth
  <2> QED
    BY <2>1, <2>2
<1> QED
  BY <1>3, <1>5, <1>6 DEF Announced

LEMMA RefuseAnnounces ==
  ASSUME Announced, NEW s \in Cloudflare!Sockets, Cloudflare!Refuse(s)
  PROVE  Announced'
<1>1. /\ ready[s] = "open" /\ ready' = [ready EXCEPT ![s] = "closing"]
      /\ UNCHANGED <<owner, wire, socket_client, socket_online>>
  BY DEF Cloudflare!Refuse
<1>2. SocketTypes
  BY DEF Announced
<1>3. /\ SocketTypes' /\ \A t \in Cloudflare!Sockets :
           (ready'[t] = "open" => ready[t] = "open") /\ (ready'[t] = "none" <=> ready[t] = "none")
  BY <1>1, <1>2 DEF SocketTypes
<1>4. ASSUME NEW t \in Cloudflare!Sockets PROVE Owning(t)' /\ Truth(t)'
  BY <1>1, <1>3 DEF Announced, Owning, Truth, Believes
<1> QED
  BY <1>3, <1>4 DEF Announced

LEMMA PairAnnounces ==
  ASSUME TwoIds, Announced, [Cloudflare!Next]_(Cloudflare!vars)
  PROVE  Announced'
<1>1. CASE UNCHANGED <<ready, owner, wire, socket_client, socket_online>>
  BY <1>1 DEF Announced, SocketTypes, Owning, Truth, Believes
<1>2. CASE UNCHANGED Cloudflare!vars
  BY <1>1, <1>2 DEF Cloudflare!vars
<1>3. ASSUME NEW s \in Cloudflare!Sockets, Cloudflare!Forward(s) \/ Cloudflare!Age(s) PROVE Announced'
  BY <1>1, <1>3 DEF Cloudflare!Forward, Cloudflare!Age
<1>4. ASSUME NEW s \in Cloudflare!Sockets,
             \/ \E d \in Ids : Cloudflare!Fetch(s, d)
             \/ Cloudflare!Refuse(s) \/ Cloudflare!Closed(s) \/ Cloudflare!Hear(s) \/ Cloudflare!Leave(s)
      PROVE  Announced'
  BY <1>4, FetchAnnounces, RefuseAnnounces, CloseAnnounces, HearAnnounces, LeaveAnnounces
<1> QED
  BY <1>2, <1>3, <1>4 DEF Cloudflare!Next, Cloudflare!Handler

LEMMA AnnouncedAgrees == Announced => Cloudflare!PresenceAgrees
<1> SUFFICES ASSUME Announced, Cloudflare!Settled, NEW s \in Cloudflare!Sockets, ready[s] = "open"
             PROVE  socket_online[s] = (\E t \in Cloudflare!LiveSockets : owner[t] # owner[s])
  BY DEF Cloudflare!PresenceAgrees, Cloudflare!LiveSockets
<1>1. /\ \A t \in Cloudflare!Sockets : ready[t] \in {"none", "open"}
      /\ socket_client[s] /\ wire[s] = <<>> /\ Truth(s) /\ socket_online[s] \in BOOLEAN
  BY DEF Announced, SocketTypes, Cloudflare!Settled
<1>2. Believes(s) <=> socket_online[s]
  BY <1>1 DEF Believes
<1>3. socket_online[s] <=> \E t \in Cloudflare!LiveSockets : owner[t] # owner[s]
  BY <1>1, <1>2 DEF Truth, Cloudflare!LiveSockets
<1> QED
  BY <1>1, <1>3

-----------------------------------------------------------------------------
(* Repetition and trailing change                                          *)

\* What a frame needs from the transport: with a repetition, or a trailing
\* change, and the time under way, the peer still has the button as held.
RealLimits ==
  /\ \A i \in Intervals : i + MaxLatency <= ClickTTL
  /\ KeepAliveMin + MaxLatency <= ClickTTL

Frames == [value : Pulse!Snapshots, age : Nat]

PulseTypes ==
  /\ interval \in Intervals /\ local \in Pulse!Snapshots /\ remote \in Pulse!Snapshots
  /\ sent \in Pulse!Snapshots \cup {Pulse!Never}
  /\ since \in 0 .. Pulse!Off /\ trailing \in 0 .. Pulse!Off
  /\ flight \in Seq(Frames) /\ heard \in Nat /\ steady \in Nat
  /\ \A i \in 1 .. Len(flight) : flight[i].age <= MaxLatency

\* What has not been sent will be when the timer fires, an interval after the
\* last change at the latest.
Waiting ==
  Pulse!CanSendActivity =>
    /\ sent # Pulse!Never
    /\ sent # local =>
         /\ trailing <= interval
         /\ IF trailing = 0 THEN since >= interval ELSE trailing + since = interval
         /\ visible => steady + trailing <= interval

\* The last that was sent is the last under way, or has arrived.
LastSent == IF flight = <<>> THEN remote ELSE flight[Len(flight)].value

Delivering ==
  Pulse!CanSendActivity /\ ~blocked =>
    /\ LastSent = sent
    /\ flight = <<>> => heard <= since \/ since = Pulse!Off

\* A frame under way, sent an interval after the last change at the latest, says
\* what is the case, and so do those behind it;
Coming ==
  \E j \in 1 .. Len(flight) :
    /\ flight[j].age + interval >= steady
    /\ \A k \in j .. Len(flight) : flight[k].value = local

\* or it has arrived, and while something is held the next one is not far.
Come ==
  /\ remote = local /\ \A k \in 1 .. Len(flight) : flight[k].value = local
  /\ local.held =>
       /\ since <= Pulse!MinInterval
       /\ IF flight = <<>> THEN heard <= since ELSE heard <= flight[1].age + Pulse!MinInterval

Spreading ==
  Pulse!CanSendActivity /\ ~blocked /\ visible /\ sent = local =>
    Coming \/ Come \/ (Pulse!KeepAliveDue /\ steady <= interval)

\* A repetition is never late, but right after a change.
Punctual ==
  Pulse!CanSendActivity /\ visible /\ sent.held /\ sent # Pulse!Never /\ steady # 0 =>
    since <= Pulse!MinInterval

Pulsing == PulseTypes /\ Waiting /\ Delivering /\ Punctual /\ Spreading

LEMMA MaxIsLongest ==
  ASSUME NEW S, NEW m \in S, S \subseteq Nat, \A n \in S : m >= n
  PROVE  Pulse!Max(S) \in S /\ \A n \in S : Pulse!Max(S) >= n
BY DEF Pulse!Max

LEMMA PulseNumbers ==
  /\ Pulse!Off \in Nat /\ MaxLatency \in Nat /\ ClickTTL \in Nat /\ Pulse!Soon \in Nat
  /\ KeepAliveMin \in Nat /\ KeepAliveMin < Pulse!Off
  /\ \A i \in Intervals : i \in Nat /\ i < Pulse!Off /\ i + MaxLatency < Pulse!Soon
<1>1. /\ Intervals \subseteq Nat /\ {KeepAliveMin, ClickTTL, MaxLatency, MaxFlight} \subseteq Nat
      /\ \E i \in Intervals : \A j \in Intervals : i >= j
  BY Assumptions DEF Assumptions, Pulse!PulseAssumption
<1>2. PICK m \in Intervals : \A j \in Intervals : m >= j
  BY <1>1
<1>3. Pulse!Max(Intervals) \in Intervals /\ \A n \in Intervals : Pulse!Max(Intervals) >= n
  BY <1>1, <1>2, MaxIsLongest
<1> DEFINE all == Intervals \cup {KeepAliveMin}
<1>4. all \subseteq Nat /\ m \in Nat /\ KeepAliveMin \in Nat
  BY <1>1
<1>5. \E l \in all : \A n \in all : l >= n
  <2>1. CASE m >= KeepAliveMin
    BY <1>2, <1>4, <2>1
  <2>2. CASE KeepAliveMin >= m
    BY <1>1, <1>2, <1>4, <2>2
  <2> QED
    BY <1>4, <2>1, <2>2
<1>6. Pulse!Max(all) \in all /\ \A n \in all : Pulse!Max(all) >= n
  BY <1>4, <1>5, MaxIsLongest
<1>7. Pulse!Off = Pulse!Max(all) + 1 /\ Pulse!Soon = Pulse!Max(Intervals) + MaxLatency + 1
  BY DEF Pulse!Off, Pulse!Soon
<1>8. PICK l \in Nat : l = Pulse!Max(all)
  BY <1>4, <1>6
<1>9. PICK k \in Nat : k = Pulse!Max(Intervals)
  BY <1>1, <1>3
<1>10. KeepAliveMin <= l /\ \A i \in Intervals : i \in Nat /\ i <= l /\ i <= k
  BY <1>1, <1>3, <1>6, <1>8, <1>9
<1> QED
  BY <1>1, <1>7, <1>8, <1>9, <1>10

LEMMA MinIntervalIsMost ==
  ASSUME interval \in Intervals
  PROVE  /\ Pulse!MinInterval \in Nat /\ Pulse!MinInterval < Pulse!Off
         /\ Pulse!MinInterval >= interval /\ interval \in Nat
         /\ (RealLimits => Pulse!MinInterval + MaxLatency <= ClickTTL)
BY PulseNumbers DEF Pulse!MinInterval, RealLimits

LEMMA InitPulsing == Pulse!Init => Pulsing
<1> SUFFICES ASSUME Pulse!Init PROVE Pulsing
  OBVIOUS
<1>1. /\ interval \in Intervals /\ local = Pulse!Cleared /\ sent = Pulse!Never
      /\ since = Pulse!Off /\ trailing = Pulse!Off /\ flight = <<>> /\ remote = Pulse!Cleared
      /\ heard = 0 /\ online = FALSE /\ steady = 0
  BY DEF Pulse!Init
<1>2. Pulse!Cleared \in Pulse!Snapshots
  BY DEF Pulse!Cleared, Pulse!Snapshots, Pulse!Positions
<1>3. flight \in Seq(Frames) /\ Len(flight) = 0
  BY <1>1, EmptySeq
<1>4. PulseTypes
  BY <1>1, <1>2, <1>3, PulseNumbers DEF PulseTypes
<1> QED
  BY <1>1, <1>4 DEF Pulsing, Waiting, Delivering, Punctual, Spreading, Pulse!CanSendActivity

\* Frames under way.
LEMMA FrameSent ==
  ASSUME flight \in Seq(Frames), NEW v \in Pulse!Snapshots,
         flight' = Append(flight, [value |-> v, age |-> 0])
  PROVE  /\ flight' \in Seq(Frames) /\ Len(flight') = Len(flight) + 1 /\ flight' # <<>>
         /\ Len(flight) \in Nat
         /\ \A i \in 1 .. Len(flight) : flight'[i] = flight[i]
         /\ flight'[Len(flight) + 1].value = v /\ flight'[Len(flight) + 1].age = 0
<1> DEFINE f == [value |-> v, age |-> 0]
<1>1. f \in Frames /\ f.value = v /\ f.age = 0
  BY DEF Frames
<1> HIDE DEF f
<1>2. flight' = Append(flight, f)
  BY DEF f
<1> QED
  BY <1>1, <1>2, AppendProperties, LenProperties

LEMMA FrameArrived ==
  ASSUME flight \in Seq(Frames), flight # <<>>, flight' = Tail(flight)
  PROVE  /\ flight' \in Seq(Frames) /\ Len(flight') = Len(flight) - 1
         /\ Len(flight) \in Nat /\ Len(flight) > 0 /\ Head(flight) = flight[1]
         /\ \A i \in 1 .. Len(flight') : flight'[i] = flight[i + 1]
         /\ (flight' = <<>> <=> Len(flight) = 1)
<1>1. /\ flight' \in Seq(Frames) /\ Len(flight') = Len(flight) - 1
      /\ \A i \in 1 .. Len(flight') : flight'[i] = flight[i + 1]
  BY HeadTailProperties
<1>2. Len(flight) \in Nat /\ Len(flight) > 0 /\ Head(flight) = flight[1]
  BY EmptySeq, LenProperties
<1>3. flight' = <<>> <=> Len(flight') = 0
  BY <1>1, EmptySeq
<1> QED
  BY <1>1, <1>2, <1>3

LEMMA FramesAged ==
  ASSUME flight \in Seq(Frames),
         flight' = [i \in DOMAIN flight |-> [flight[i] EXCEPT !.age = @ + 1]]
  PROVE  /\ flight' \in Seq(Frames) /\ Len(flight') = Len(flight) /\ Len(flight) \in Nat
         /\ \A i \in 1 .. Len(flight) :
              flight'[i].value = flight[i].value /\ flight'[i].age = flight[i].age + 1
         /\ (flight' = <<>> <=> flight = <<>>)
<1>1. Len(flight) \in Nat /\ DOMAIN flight = 1 .. Len(flight)
  BY LenProperties
<1>2. \A i \in 1 .. Len(flight) : flight[i] \in Frames
  BY ElementOfSeq
<1>3. \A i \in 1 .. Len(flight) :
        /\ [flight[i] EXCEPT !.age = @ + 1] \in Frames
        /\ [flight[i] EXCEPT !.age = @ + 1].value = flight[i].value
        /\ [flight[i] EXCEPT !.age = @ + 1].age = flight[i].age + 1
  BY <1>2 DEF Frames
<1>4. flight' \in Seq(Frames) /\ Len(flight') = Len(flight)
  BY <1>1, <1>3, IsASeq
<1>5. flight' = <<>> <=> flight = <<>>
  BY <1>1, <1>4, EmptySeq
<1> QED
  BY <1>1, <1>3, <1>4, <1>5

LEMMA FlightTyped ==
  ASSUME flight \in Seq(Frames)
  PROVE  /\ Len(flight) \in Nat /\ (flight = <<>> <=> Len(flight) = 0)
         /\ \A i \in 1 .. Len(flight) : flight[i].value \in Pulse!Snapshots /\ flight[i].age \in Nat
<1>1. Len(flight) \in Nat /\ (flight = <<>> <=> Len(flight) = 0)
  BY LenProperties, EmptySeq
<1>2. \A i \in 1 .. Len(flight) : flight[i] \in Frames
  BY ElementOfSeq
<1> QED
  BY <1>1, <1>2 DEF Frames

-----------------------------------------------------------------------------
\* Right after a change it is the last frame that counts, or there is none
\* under way and the last has arrived.
LEMMA ChangeSpreads ==
  ASSUME PulseTypes', Waiting', Delivering', steady' = 0
  PROVE  Spreading'
<1> SUFFICES ASSUME (Pulse!CanSendActivity /\ ~blocked /\ visible /\ sent = local)'
             PROVE  (Coming \/ Come \/ (Pulse!KeepAliveDue /\ steady <= interval))'
  BY DEF Spreading
<1>1. /\ LastSent' = local' /\ (flight' = <<>> => heard' <= since' \/ since' = Pulse!Off)
      /\ sent' # Pulse!Never
  BY DEF Delivering, Waiting
<1>2. /\ interval' \in Intervals /\ interval' \in Nat /\ since' \in Nat
      /\ Len(flight') \in Nat /\ (flight' = <<>> <=> Len(flight') = 0)
      /\ \A i \in 1 .. Len(flight') : flight'[i].age \in Nat
  <2>1. interval' \in Intervals /\ since' \in Nat /\ flight' \in Seq(Frames)
    BY PulseNumbers DEF PulseTypes
  <2>2. \A i \in 1 .. Len(flight') : flight'[i] \in Frames
    BY <2>1, ElementOfSeq
  <2>3. Len(flight') \in Nat /\ (flight' = <<>> <=> Len(flight') = 0)
    BY <2>1, LenProperties, EmptySeq
  <2> QED
    BY <2>1, <2>2, <2>3, PulseNumbers DEF Frames
<1>3. CASE flight' # <<>>
  <2>1. PICK n \in Nat : n = Len(flight') /\ n > 0
    BY <1>2, <1>3
  <2>2. flight'[n].value = local' /\ n \in 1 .. Len(flight') /\ flight'[n].age + interval' >= steady'
    BY <1>1, <1>2, <1>3, <2>1 DEF LastSent
  <2>3. \A k \in n .. Len(flight') : flight'[k].value = local'
    BY <2>1, <2>2
  <2> QED
    BY <2>2, <2>3 DEF Coming
<1>4. CASE flight' = <<>>
  <2>1. remote' = local' /\ 1 .. Len(flight') = {}
    BY <1>1, <1>2, <1>4 DEF LastSent
  <2>2. Pulse!MinInterval' \in Nat /\ Pulse!MinInterval' < Pulse!Off
    BY <1>2, PulseNumbers DEF Pulse!MinInterval
  <2>3. CASE local'.held /\ ~(since' <= Pulse!MinInterval')
    <3>1. Pulse!KeepAliveDue'
      BY <1>1, <1>2, <2>2, <2>3 DEF Pulse!KeepAliveDue
    <3> QED
      BY <1>2, <3>1
  <2>4. CASE ~local'.held \/ since' <= Pulse!MinInterval'
    BY <1>1, <1>2, <1>4, <2>1, <2>2, <2>4 DEF Come
  <2> QED
    BY <2>3, <2>4
<1> QED
  BY <1>3, <1>4

-----------------------------------------------------------------------------
\* A frame is queued, unless the gate is closed.
LEMMA FramePosted ==
  ASSUME PulseTypes, NEW v \in Pulse!Snapshots, flight' = Pulse!Posted(v)
  PROVE  /\ flight' \in Seq(Frames) /\ \A i \in 1 .. Len(flight') : flight'[i].age <= MaxLatency
         /\ (~blocked => LastSent' = v /\ flight' # <<>>)
<1>1. CASE blocked
  BY <1>1 DEF Pulse!Posted, PulseTypes
<1>2. CASE ~blocked
  <2>1. flight \in Seq(Frames) /\ flight' = Append(flight, [value |-> v, age |-> 0])
    BY <1>2 DEF Pulse!Posted, PulseTypes
  <2>2. /\ flight' \in Seq(Frames) /\ Len(flight') = Len(flight) + 1 /\ flight' # <<>>
        /\ Len(flight) \in Nat
        /\ \A i \in 1 .. Len(flight) : flight'[i] = flight[i]
        /\ flight'[Len(flight) + 1].value = v /\ flight'[Len(flight) + 1].age = 0
    BY <2>1, FrameSent
  <2>3. LastSent' = v
    BY <2>2 DEF LastSent
  <2>4. \A i \in 1 .. Len(flight') : flight'[i].age <= MaxLatency
    <3> TAKE i \in 1 .. Len(flight')
    <3>1. CASE i \in 1 .. Len(flight)
      BY <2>2, <3>1 DEF PulseTypes
    <3>2. CASE i = Len(flight) + 1
      BY <2>2, <3>2, PulseNumbers
    <3> QED
      BY <2>2, <3>1, <3>2
  <2> QED
    BY <2>2, <2>3, <2>4
<1> QED
  BY <1>1, <1>2

LEMMA ClearedIsSnapshot ==
  /\ Pulse!Cleared \in Pulse!Snapshots /\ Pulse!Never \notin Pulse!Snapshots
  /\ \A v \in Pulse!Snapshots : v.held \in BOOLEAN
BY DEF Pulse!Cleared, Pulse!Never, Pulse!Snapshots, Pulse!Positions

\* An input is sent, or the timer runs to the end of the interval.
LEMMA InputPulses ==
  ASSUME Pulsing, Pulse!Input
  PROVE  Pulsing'
<1>1. PICK v \in Pulse!Snapshots :
        /\ v # local /\ local' = v /\ steady' = 0 /\ Pulse!SendSnapshot(v)
        /\ UNCHANGED <<interval, remote, heard, online, blocked, paused, visible>>
  BY DEF Pulse!Input, Pulse!world
<1>2. PulseTypes /\ Waiting /\ Delivering /\ interval \in Nat /\ interval < Pulse!Off /\ Pulse!Off \in Nat
  BY PulseNumbers DEF Pulsing, PulseTypes
<1>3. CASE UNCHANGED <<sent, since, trailing, flight>> /\ (~Pulse!CanSendActivity \/ sent = v)
  <2>1. PulseTypes'
    BY <1>1, <1>2, <1>3 DEF PulseTypes
  <2>2. Waiting'
    BY <1>1, <1>2, <1>3, ClearedIsSnapshot DEF Waiting, Pulse!CanSendActivity
  <2>3. Delivering'
    BY <1>1, <1>2, <1>3 DEF Delivering, LastSent, Pulse!CanSendActivity
  <2> QED
    BY <1>1, <2>1, <2>2, <2>3, ChangeSpreads DEF Pulsing, Punctual
<1>4. CASE trailing' = interval - since /\ since < interval /\ UNCHANGED <<sent, since, flight>>
  <2>0. since \in Nat
    BY <1>2 DEF PulseTypes
  <2>1. PulseTypes'
    BY <1>1, <1>2, <1>4, <2>0 DEF PulseTypes
  <2>2. Waiting'
    BY <1>1, <1>2, <1>4, <2>0 DEF Waiting, Pulse!CanSendActivity
  <2>3. Delivering'
    BY <1>1, <1>2, <1>4 DEF Delivering, LastSent, Pulse!CanSendActivity
  <2> QED
    BY <1>1, <2>1, <2>2, <2>3, ChangeSpreads DEF Pulsing, Punctual
<1>5. CASE sent' = v /\ since' = 0 /\ flight' = Pulse!Posted(v) /\ UNCHANGED trailing
  <2>1. /\ flight' \in Seq(Frames) /\ \A i \in 1 .. Len(flight') : flight'[i].age <= MaxLatency
        /\ (~blocked => LastSent' = v /\ flight' # <<>>)
    BY <1>1, <1>2, <1>5, FramePosted
  <2>2. PulseTypes'
    BY <1>1, <1>2, <1>5, <2>1 DEF PulseTypes
  <2>3. Waiting'
    BY <1>1, <1>2, <1>5, ClearedIsSnapshot DEF Waiting, Pulse!CanSendActivity
  <2>4. Delivering'
    BY <1>1, <1>2, <1>5, <2>1 DEF Delivering, Pulse!CanSendActivity
  <2> QED
    BY <1>1, <2>2, <2>3, <2>4, ChangeSpreads DEF Pulsing, Punctual
<1> QED
  BY <1>1, <1>3, <1>4, <1>5 DEF Pulse!SendSnapshot, Pulse!SendNow, Pulse!Trailing

\* What else happens in the world.
LEMMA WorldPulses ==
  ASSUME Pulsing,
         \/ Pulse!PeerChanges \/ Pulse!Block \/ Pulse!Unblock
         \/ Pulse!Pause \/ Pulse!Resume \/ Pulse!Visibility
  PROVE  Pulsing'
<1>1. PulseTypes /\ Waiting /\ Delivering /\ interval \in Nat /\ interval < Pulse!Off /\ Pulse!Off \in Nat
      /\ MaxLatency \in Nat
  BY PulseNumbers DEF Pulsing, PulseTypes
<1>2. steady' = 0 /\ UNCHANGED <<interval, remote, heard>>
  BY DEF Pulse!PeerChanges, Pulse!Block, Pulse!Unblock, Pulse!Pause, Pulse!Resume, Pulse!Visibility
<1>s. SUFFICES PulseTypes' /\ Waiting' /\ Delivering'
  BY <1>2, ChangeSpreads DEF Pulsing, Punctual
<1>3. CASE Pulse!PeerChanges
  <2>1. /\ online' = ~online /\ local' = Pulse!Cleared /\ trailing' = Pulse!Off
        /\ UNCHANGED <<blocked, paused, visible>>
    BY <1>3 DEF Pulse!PeerChanges, Pulse!Reset
  <2>2. CASE ~online /\ ~paused
    <3>1. sent' = Pulse!Cleared /\ since' = 0 /\ flight' = Pulse!Posted(Pulse!Cleared)
      BY <1>3, <2>2 DEF Pulse!PeerChanges, Pulse!SendNow
    <3>2. /\ flight' \in Seq(Frames) /\ \A i \in 1 .. Len(flight') : flight'[i].age <= MaxLatency
          /\ (~blocked => LastSent' = Pulse!Cleared /\ flight' # <<>>)
      BY <1>1, <3>1, FramePosted, ClearedIsSnapshot
    <3>3. PulseTypes'
      BY <1>1, <1>2, <2>1, <3>1, <3>2, ClearedIsSnapshot DEF PulseTypes
    <3>4. Waiting'
      BY <2>1, <3>1, ClearedIsSnapshot DEF Waiting
    <3>5. Delivering'
      BY <2>1, <3>1, <3>2 DEF Delivering
    <3> QED
      BY <3>3, <3>4, <3>5
  <2>3. CASE online \/ paused
    <3>0. sent' = Pulse!Never /\ since' = Pulse!Off /\ flight' = <<>>
      BY <1>3, <2>3 DEF Pulse!PeerChanges
    <3>a. ~online' \/ paused'
      BY <2>1, <2>3
    <3>1. sent' = Pulse!Never /\ since' = Pulse!Off /\ flight' = <<>> /\ ~Pulse!CanSendActivity'
      BY <3>0, <3>a DEF Pulse!CanSendActivity
    <3>2. flight' \in Seq(Frames) /\ 1 .. Len(flight') = {}
      BY <3>1, EmptySeq
    <3>3. PulseTypes'
      BY <1>1, <1>2, <2>1, <3>1, <3>2, ClearedIsSnapshot DEF PulseTypes
    <3> QED
      BY <3>1, <3>3 DEF Waiting, Delivering
  <2> QED
    BY <2>2, <2>3
<1>4. CASE Pulse!Block
  <2>1. UNCHANGED <<local, sent, since, trailing, flight, online, paused, visible>> /\ blocked' = TRUE
    BY <1>4 DEF Pulse!Block
  <2>2. PulseTypes'
    BY <1>1, <1>2, <2>1 DEF PulseTypes
  <2>3. Waiting'
    BY <1>1, <1>2, <2>1 DEF Waiting, Pulse!CanSendActivity, PulseTypes
  <2> QED
    BY <2>1, <2>2, <2>3 DEF Delivering
<1>5. CASE Pulse!Unblock
  <2>1. UNCHANGED <<local, trailing, online, paused, visible>>
    BY <1>5 DEF Pulse!Unblock
  <2>2. CASE Pulse!CanSendActivity
    <3>1. /\ sent' = local /\ since' = 0 /\ flight' = Append(flight, [value |-> local, age |-> 0])
          /\ local \in Pulse!Snapshots /\ flight \in Seq(Frames)
      BY <1>1, <1>5, <2>2 DEF Pulse!Unblock, PulseTypes
    <3>2. /\ flight' \in Seq(Frames) /\ Len(flight') = Len(flight) + 1 /\ flight' # <<>>
          /\ Len(flight) \in Nat
          /\ \A i \in 1 .. Len(flight) : flight'[i] = flight[i]
          /\ flight'[Len(flight) + 1].value = local /\ flight'[Len(flight) + 1].age = 0
      BY <3>1, FrameSent
    <3>3. \A i \in 1 .. Len(flight') : flight'[i].age <= MaxLatency
      <4> TAKE i \in 1 .. Len(flight')
      <4>1. CASE i \in 1 .. Len(flight)
        BY <1>1, <3>2, <4>1 DEF PulseTypes
      <4>2. CASE i = Len(flight) + 1
        BY <1>1, <3>2, <4>2
      <4> QED
        BY <3>2, <4>1, <4>2
    <3>4. PulseTypes'
      BY <1>1, <1>2, <2>1, <3>1, <3>2, <3>3 DEF PulseTypes
    <3>5. Waiting'
      BY <2>1, <3>1, ClearedIsSnapshot DEF Waiting
    <3>6. Delivering'
      BY <3>1, <3>2 DEF Delivering, LastSent
    <3> QED
      BY <3>4, <3>5, <3>6
  <2>3. CASE ~Pulse!CanSendActivity
    <3>1. UNCHANGED <<sent, since, flight>> /\ ~Pulse!CanSendActivity'
      BY <1>5, <2>1, <2>3 DEF Pulse!Unblock, Pulse!CanSendActivity
    <3>2. PulseTypes'
      BY <1>1, <1>2, <2>1, <3>1 DEF PulseTypes
    <3> QED
      BY <3>1, <3>2 DEF Waiting, Delivering
  <2> QED
    BY <2>2, <2>3
<1>6. CASE Pulse!Pause
  <2>1. UNCHANGED <<local, sent, since, trailing>> /\ ~Pulse!CanSendActivity'
        /\ (flight' = flight \/ flight' = Pulse!Posted(Pulse!Cleared))
    BY <1>6 DEF Pulse!Pause, Pulse!CanSendActivity
  <2>2. flight' \in Seq(Frames) /\ \A i \in 1 .. Len(flight') : flight'[i].age <= MaxLatency
    <3>1. CASE flight' = flight
      BY <1>1, <3>1 DEF PulseTypes
    <3>2. CASE flight' = Pulse!Posted(Pulse!Cleared)
      BY <1>1, <3>2, FramePosted, ClearedIsSnapshot
    <3> QED
      BY <2>1, <3>1, <3>2
  <2>3. PulseTypes'
    BY <1>1, <1>2, <2>1, <2>2 DEF PulseTypes
  <2> QED
    BY <2>1, <2>3 DEF Waiting, Delivering
<1>7. CASE Pulse!Resume
  <2>1. /\ local' = Pulse!Cleared /\ trailing' = Pulse!Off /\ UNCHANGED <<online, blocked, visible>>
    BY <1>7 DEF Pulse!Resume, Pulse!Reset
  <2>2. CASE online
    <3>1. sent' = Pulse!Cleared /\ since' = 0 /\ flight' = Pulse!Posted(Pulse!Cleared)
      BY <1>7, <2>2 DEF Pulse!Resume, Pulse!SendNow
    <3>2. /\ flight' \in Seq(Frames) /\ \A i \in 1 .. Len(flight') : flight'[i].age <= MaxLatency
          /\ (~blocked => LastSent' = Pulse!Cleared /\ flight' # <<>>)
      BY <1>1, <3>1, FramePosted, ClearedIsSnapshot
    <3>3. PulseTypes'
      BY <1>1, <1>2, <2>1, <3>1, <3>2, ClearedIsSnapshot DEF PulseTypes
    <3>4. Waiting'
      BY <2>1, <3>1, ClearedIsSnapshot DEF Waiting
    <3>5. Delivering'
      BY <2>1, <3>1, <3>2 DEF Delivering
    <3> QED
      BY <3>3, <3>4, <3>5
  <2>3. CASE ~online
    <3>1. sent' = Pulse!Never /\ since' = Pulse!Off /\ flight' = flight /\ ~Pulse!CanSendActivity'
      BY <1>7, <2>1, <2>3 DEF Pulse!Resume, Pulse!CanSendActivity
    <3>2. PulseTypes'
      BY <1>1, <1>2, <2>1, <3>1, ClearedIsSnapshot DEF PulseTypes
    <3> QED
      BY <3>1, <3>2 DEF Waiting, Delivering
  <2> QED
    BY <2>2, <2>3
<1>8. CASE Pulse!Visibility
  <2>1. UNCHANGED <<local, sent, since, trailing, flight, online, blocked, paused>>
    BY <1>8 DEF Pulse!Visibility
  <2>2. PulseTypes'
    BY <1>1, <1>2, <2>1 DEF PulseTypes
  <2>3. Waiting'
    BY <1>1, <1>2, <2>1 DEF Waiting, Pulse!CanSendActivity, PulseTypes
  <2>4. Delivering'
    BY <1>1, <1>2, <2>1 DEF Delivering, LastSent, Pulse!CanSendActivity
  <2> QED
    BY <2>2, <2>3, <2>4
<1> QED
  BY <1>3, <1>4, <1>5, <1>6, <1>7, <1>8

\* What is sent in time comes.
LEMMA SentComes ==
  ASSUME interval \in Nat, steady \in Nat, flight \in Seq(Frames), local \in Pulse!Snapshots,
         ~blocked /\ visible => steady <= interval,
         flight' = Pulse!Posted(local), UNCHANGED <<interval, local, steady, blocked, visible>>
  PROVE  ~blocked /\ visible => Coming'
<1> SUFFICES ASSUME ~blocked, visible PROVE Coming'
  OBVIOUS
<1>1. flight' = Append(flight, [value |-> local, age |-> 0])
  BY DEF Pulse!Posted
<1>2. /\ Len(flight') = Len(flight) + 1 /\ Len(flight) \in Nat
      /\ flight'[Len(flight) + 1].value = local /\ flight'[Len(flight) + 1].age = 0
  BY <1>1, FrameSent
<1>3. PICK n \in Nat : n = Len(flight')
  BY <1>2
<1>4. n \in 1 .. Len(flight') /\ flight'[n].age + interval' >= steady' /\ flight'[n].value = local'
  BY <1>2, <1>3
<1>5. \A k \in n .. Len(flight') : flight'[k].value = local'
  BY <1>3, <1>4
<1> QED
  BY <1>4, <1>5 DEF Coming

LEMMA MinIsNumber ==
  ASSUME interval' \in Intervals
  PROVE  Pulse!MinInterval' \in Nat
BY PulseNumbers DEF Pulse!MinInterval

\* The timer has something to send exactly when its time has come.
LEMMA TrailingPulses ==
  ASSUME Pulsing, Pulse!TrailingFires
  PROVE  Pulsing'
<1>1. /\ PulseTypes /\ Waiting /\ Delivering /\ Punctual /\ Spreading
      /\ interval \in Nat /\ interval < Pulse!Off /\ Pulse!Off \in Nat /\ MaxLatency \in Nat
  BY PulseNumbers DEF Pulsing, PulseTypes
<1>2. trailing = 0 /\ UNCHANGED <<interval, local, remote, heard, online, blocked, paused, visible, steady>>
  BY DEF Pulse!TrailingFires, Pulse!world
<1>3. CASE ~Pulse!CanSendActivity \/ sent = local
  <2>1. trailing' = Pulse!Off /\ UNCHANGED <<sent, since, flight>>
    BY <1>3 DEF Pulse!TrailingFires
  <2>2. PulseTypes'
    BY <1>1, <1>2, <2>1 DEF PulseTypes
  <2>3. Waiting'
    BY <1>1, <1>2, <1>3, <2>1 DEF Waiting, Pulse!CanSendActivity
  <2>4. Delivering' /\ Punctual'
    BY <1>1, <1>2, <2>1 DEF Delivering, LastSent, Punctual, Pulse!CanSendActivity, Pulse!MinInterval
  <2>5. Spreading'
    BY <1>1, <1>2, <2>1
       DEF Spreading, Coming, Come, Pulse!CanSendActivity, Pulse!KeepAliveDue, Pulse!MinInterval
  <2> QED
    BY <2>2, <2>3, <2>4, <2>5 DEF Pulsing
<1>4. CASE Pulse!CanSendActivity /\ sent # local
  <2>1. since >= interval /\ since \in Nat
    BY <1>1, <1>2, <1>4 DEF Waiting, PulseTypes
  <2>2. trailing' = Pulse!Off /\ sent' = local /\ since' = 0 /\ flight' = Pulse!Posted(local)
    BY <1>1, <1>4, <2>1 DEF Pulse!TrailingFires, Pulse!SendNow
  <2>3. /\ flight' \in Seq(Frames) /\ \A i \in 1 .. Len(flight') : flight'[i].age <= MaxLatency
        /\ (~blocked => LastSent' = local /\ flight' # <<>>)
    BY <1>1, <2>2, FramePosted DEF PulseTypes
  <2>4. PulseTypes'
    BY <1>1, <1>2, <2>2, <2>3 DEF PulseTypes
  <2>5. Waiting'
    BY <1>1, <1>2, <2>2, ClearedIsSnapshot DEF Waiting, PulseTypes
  <2>6. Delivering'
    BY <1>2, <2>2, <2>3 DEF Delivering
  <2>7. Punctual'
    BY <1>1, <1>2, <2>2, <2>4, MinIsNumber DEF Punctual, PulseTypes
  <2>8. visible => steady <= interval
    BY <1>1, <1>2, <1>4 DEF Waiting, PulseTypes
  <2>9. Spreading'
    BY <1>1, <1>2, <2>2, <2>8, SentComes DEF Spreading, PulseTypes
  <2> QED
    BY <2>4, <2>5, <2>6, <2>7, <2>9 DEF Pulsing
<1> QED
  BY <1>3, <1>4

\* A repetition says what is the case, also when the timer has yet to.
LEMMA RepeatPulses ==
  ASSUME Pulsing, Pulse!SendKeepAlive
  PROVE  Pulsing'
<1>1. /\ PulseTypes /\ Waiting /\ Delivering /\ Punctual /\ Spreading
      /\ interval \in Nat /\ interval < Pulse!Off /\ Pulse!Off \in Nat /\ MaxLatency \in Nat
      /\ since \in Nat /\ trailing \in Nat /\ steady \in Nat
  BY PulseNumbers DEF Pulsing, PulseTypes
<1>2. /\ Pulse!CanSendActivity /\ visible /\ sent # Pulse!Never /\ since >= Pulse!MinInterval
      /\ sent' = local /\ since' = 0 /\ flight' = Pulse!Posted(local)
      /\ UNCHANGED <<interval, local, trailing, remote, heard, online, blocked, paused, visible, steady>>
  BY DEF Pulse!SendKeepAlive, Pulse!KeepAliveDue, Pulse!SendNow, Pulse!world
<1>3. /\ flight' \in Seq(Frames) /\ \A i \in 1 .. Len(flight') : flight'[i].age <= MaxLatency
      /\ (~blocked => LastSent' = local /\ flight' # <<>>)
  BY <1>1, <1>2, FramePosted DEF PulseTypes
<1>4. PulseTypes'
  BY <1>1, <1>2, <1>3 DEF PulseTypes
<1>5. Waiting'
  BY <1>1, <1>2, ClearedIsSnapshot DEF Waiting, PulseTypes
<1>6. Delivering'
  BY <1>2, <1>3 DEF Delivering
<1>7. Punctual'
  BY <1>2, <1>4, MinIsNumber DEF Punctual, PulseTypes
<1>8. interval \in Intervals /\ Pulse!MinInterval \in Nat /\ Pulse!MinInterval >= interval
  BY <1>1, MinIntervalIsMost DEF PulseTypes
<1>9. Spreading'
  <2>1. CASE sent # local
    <3>1. steady <= interval
      <4>1. IF trailing = 0 THEN since >= interval ELSE trailing + since = interval
        BY <1>1, <1>2, <2>1 DEF Waiting
      <4>2. trailing = 0
        BY <1>1, <1>2, <1>8, <4>1
      <4> QED
        BY <1>1, <1>2, <2>1, <4>2 DEF Waiting
    <3> QED
      BY <1>1, <1>2, <3>1, SentComes DEF Spreading, PulseTypes
  <2>2. CASE sent = local /\ ~blocked
    <3>1. Coming \/ Come \/ steady <= interval
      BY <1>1, <1>2, <2>2 DEF Spreading
    <3>2. CASE steady <= interval
      BY <1>1, <1>2, <3>2, SentComes DEF Spreading, PulseTypes
    <3>3. flight \in Seq(Frames) /\ flight' = Append(flight, [value |-> local, age |-> 0]) /\ local \in Pulse!Snapshots
      BY <1>1, <1>2, <2>2 DEF Pulse!Posted, PulseTypes
    <3>4. /\ Len(flight') = Len(flight) + 1 /\ flight' # <<>> /\ Len(flight) \in Nat
          /\ \A i \in 1 .. Len(flight) : flight'[i] = flight[i]
          /\ flight'[Len(flight) + 1].value = local /\ flight'[Len(flight) + 1].age = 0
          /\ (flight = <<>> <=> Len(flight) = 0)
      BY <3>3, FrameSent, EmptySeq
    <3>5. CASE Coming
      <4>1. PICK j \in 1 .. Len(flight) :
              /\ flight[j].age + interval >= steady
              /\ \A k \in j .. Len(flight) : flight[k].value = local
        BY <3>5 DEF Coming
      <4>2. j \in 1 .. Len(flight') /\ flight'[j].age + interval' >= steady'
        BY <1>2, <3>4, <4>1
      <4>3. \A k \in j .. Len(flight') : flight'[k].value = local'
        <5> TAKE k \in j .. Len(flight')
        <5>1. CASE k \in j .. Len(flight)
          BY <1>2, <3>4, <4>1, <5>1
        <5>2. CASE k = Len(flight) + 1
          BY <1>2, <3>4, <5>2
        <5> QED
          BY <3>4, <4>1, <5>1, <5>2
      <4> QED
        BY <4>2, <4>3 DEF Spreading, Coming
    <3>6. CASE Come
      <4>1. remote' = local' /\ \A k \in 1 .. Len(flight') : flight'[k].value = local'
        <5>1. remote' = local'
          BY <1>2, <3>6 DEF Come
        <5>2. ASSUME NEW k \in 1 .. Len(flight') PROVE flight'[k].value = local'
          <6>1. CASE k \in 1 .. Len(flight)
            BY <1>2, <3>4, <3>6, <6>1 DEF Come
          <6>2. CASE k = Len(flight) + 1
            BY <1>2, <3>4, <6>2
          <6> QED
            BY <3>4, <5>2, <6>1, <6>2
        <5> QED
          BY <5>1, <5>2
      <4>2. Pulse!MinInterval' = Pulse!MinInterval /\ heard \in Nat
        BY <1>1, <1>2 DEF Pulse!MinInterval, PulseTypes
      <4>3. ASSUME local'.held
            PROVE  since' <= Pulse!MinInterval' /\ heard' <= flight'[1].age + Pulse!MinInterval'
        <5>1. /\ since <= Pulse!MinInterval
              /\ IF flight = <<>> THEN heard <= since ELSE heard <= flight[1].age + Pulse!MinInterval
          BY <1>2, <3>6, <4>3 DEF Come
        <5>2. CASE flight = <<>>
          <6>1. flight'[1].age = 0 /\ heard <= since
            BY <3>4, <5>1, <5>2
          <6> QED
            BY <1>1, <1>2, <1>8, <4>2, <5>1, <6>1
        <5>3. CASE flight # <<>>
          <6>1. flight'[1] = flight[1] /\ heard <= flight[1].age + Pulse!MinInterval
            BY <3>4, <5>1, <5>3
          <6> QED
            BY <1>2, <1>8, <4>2, <6>1
        <5> QED
          BY <5>2, <5>3
      <4> QED
        BY <3>4, <4>1, <4>3 DEF Spreading, Come
    <3> QED
      BY <3>1, <3>2, <3>5, <3>6
  <2> QED
    BY <1>2, <2>1, <2>2 DEF Spreading
<1> QED
  BY <1>4, <1>5, <1>6, <1>7, <1>9 DEF Pulsing

\* What arrives is what those behind it say, too, where the first of them does.
LEMMA ArrivalPulses ==
  ASSUME Pulsing, Pulse!Arrive
  PROVE  Pulsing'
<1>1. /\ PulseTypes /\ Waiting /\ Delivering /\ Punctual /\ Spreading
      /\ interval \in Nat /\ since \in Nat /\ steady \in Nat
      /\ interval \in Intervals /\ Pulse!MinInterval \in Nat
  BY PulseNumbers, MinIntervalIsMost DEF Pulsing, PulseTypes
<1>2. /\ flight # <<>> /\ remote' = Head(flight).value /\ heard' = 0 /\ flight' = Tail(flight)
      /\ UNCHANGED <<interval, local, sent, since, trailing, online, blocked, paused, visible, steady>>
  BY DEF Pulse!Arrive, Pulse!world
<1>3. /\ flight' \in Seq(Frames) /\ Len(flight') = Len(flight) - 1
      /\ Len(flight) \in Nat /\ Len(flight) > 0 /\ remote' = flight[1].value
      /\ \A i \in 1 .. Len(flight') : flight'[i] = flight[i + 1]
      /\ (flight' = <<>> <=> Len(flight) = 1)
  BY <1>1, <1>2, FrameArrived DEF PulseTypes
<1>4. /\ \A i \in 1 .. Len(flight) : flight[i].value \in Pulse!Snapshots /\ flight[i].age \in Nat
      /\ \A i \in 1 .. Len(flight') : flight'[i].age \in Nat
  <2>1. flight \in Seq(Frames)
    BY <1>1 DEF PulseTypes
  <2>2. \A i \in 1 .. Len(flight) : flight[i].value \in Pulse!Snapshots /\ flight[i].age \in Nat
    BY <2>1, FlightTyped
  <2> QED
    BY <1>3, <2>2
<1>5. PulseTypes'
  <2>1. \A i \in 1 .. Len(flight') : flight'[i].age <= MaxLatency
    BY <1>1, <1>3 DEF PulseTypes
  <2>2. remote' \in Pulse!Snapshots
    BY <1>3, <1>4
  <2> QED
    BY <1>1, <1>2, <1>3, <2>1, <2>2 DEF PulseTypes
<1>6. Waiting' /\ Punctual'
  BY <1>1, <1>2 DEF Waiting, Punctual, Pulse!CanSendActivity, Pulse!MinInterval
<1>7. LastSent' = LastSent
  <2>1. CASE Len(flight) = 1
    BY <1>2, <1>3, <2>1 DEF LastSent
  <2>2. CASE Len(flight) # 1
    <3>1. flight'[Len(flight')] = flight[Len(flight)]
      BY <1>3, <2>2
    <3> QED
      BY <1>2, <1>3, <2>2, <3>1 DEF LastSent
  <2> QED
    BY <2>1, <2>2
<1>8. Delivering'
  BY <1>1, <1>2, <1>7 DEF Delivering, Pulse!CanSendActivity
<1>9. Spreading'
  <2> SUFFICES ASSUME Pulse!CanSendActivity, ~blocked, visible, sent = local
               PROVE  (Coming \/ Come \/ (Pulse!KeepAliveDue /\ steady <= interval))'
    BY <1>2 DEF Spreading, Pulse!CanSendActivity
  <2>0. Coming \/ Come \/ (Pulse!KeepAliveDue /\ steady <= interval)
    BY <1>1 DEF Spreading
  <2>a. sent # Pulse!Never /\ Pulse!MinInterval' = Pulse!MinInterval
    BY <1>1, <1>2 DEF Waiting, Pulse!MinInterval
  <2>1. ASSUME NEW j \in 1 .. Len(flight), j # 1,
               flight[j].age + interval >= steady,
               \A k \in j .. Len(flight) : flight[k].value = local
        PROVE  Coming'
    <3>1. j - 1 \in 1 .. Len(flight') /\ flight'[j - 1] = flight[j]
      BY <1>3, <2>1
    <3>2. \A k \in j - 1 .. Len(flight') : flight'[k].value = local'
      <4> TAKE k \in j - 1 .. Len(flight')
      <4>1. k \in 1 .. Len(flight') /\ k + 1 \in j .. Len(flight)
        BY <1>3, <2>1
      <4> QED
        BY <1>2, <1>3, <2>1, <4>1
    <3>3. flight'[j - 1].age + interval' >= steady'
      BY <1>2, <2>1, <3>1
    <3> QED
      BY <3>1, <3>2, <3>3 DEF Coming
  <2>2. ASSUME \A k \in 1 .. Len(flight) : flight[k].value = local
        PROVE  (Come \/ (Pulse!KeepAliveDue /\ steady <= interval))'
    <3>1. remote' = local' /\ \A k \in 1 .. Len(flight') : flight'[k].value = local'
      BY <1>2, <1>3, <2>2
    <3>2. CASE ~local.held \/ since <= Pulse!MinInterval
      <4>1. ASSUME flight' # <<>> PROVE flight'[1].age \in Nat
        BY <1>3, <1>4, <4>1
      <4>2. local'.held =>
              /\ since' <= Pulse!MinInterval'
              /\ IF flight' = <<>> THEN heard' <= since' ELSE heard' <= flight'[1].age + Pulse!MinInterval'
        BY <1>1, <1>2, <2>a, <3>2, <4>1
      <4> QED
        BY <3>1, <4>2 DEF Come
    <3>3. CASE local.held /\ ~(since <= Pulse!MinInterval)
      <4>1. steady = 0
        BY <1>1, <2>a, <3>3 DEF Punctual
      <4>2. since >= Pulse!MinInterval /\ steady <= interval
        BY <1>1, <3>3, <4>1
      <4> QED
        BY <1>2, <2>a, <3>3, <4>2 DEF Pulse!KeepAliveDue, Pulse!CanSendActivity
    <3> QED
      BY <3>2, <3>3
  <2>3. CASE Coming
    <3>1. PICK j \in 1 .. Len(flight) :
            /\ flight[j].age + interval >= steady
            /\ \A k \in j .. Len(flight) : flight[k].value = local
      BY <2>3 DEF Coming
    <3> QED
      BY <2>1, <2>2, <3>1
  <2>4. CASE Come
    BY <2>2, <2>4 DEF Come
  <2>5. CASE Pulse!KeepAliveDue /\ steady <= interval
    BY <1>2, <2>5 DEF Pulse!KeepAliveDue, Pulse!CanSendActivity, Pulse!MinInterval
  <2> QED
    BY <2>0, <2>3, <2>4, <2>5
<1> QED
  BY <1>5, <1>6, <1>8, <1>9 DEF Pulsing

\* Time passes only while no timer of a visible page is due.
LEMMA TickPulses ==
  ASSUME Pulsing, Pulse!Tick
  PROVE  Pulsing'
<1>1. /\ PulseTypes /\ Waiting /\ Delivering /\ Punctual /\ Spreading
      /\ interval \in Nat /\ interval < Pulse!Off /\ Pulse!Off \in Nat /\ since \in Nat /\ steady \in Nat
      /\ trailing \in Nat /\ heard \in Nat /\ since <= Pulse!Off /\ trailing <= Pulse!Off
      /\ interval \in Intervals /\ Pulse!MinInterval \in Nat /\ Pulse!MinInterval < Pulse!Off
      /\ MaxLatency \in Nat /\ ClickTTL \in Nat /\ Pulse!Soon \in Nat
  BY PulseNumbers, MinIntervalIsMost DEF Pulsing, PulseTypes
<1>2. /\ \A i \in DOMAIN flight : flight[i].age < MaxLatency
      /\ visible => ~Pulse!KeepAliveDue /\ trailing # 0
      /\ trailing' = IF trailing \in {0, Pulse!Off} THEN trailing ELSE trailing - 1
      /\ flight' = [i \in DOMAIN flight |-> [flight[i] EXCEPT !.age = @ + 1]]
      /\ UNCHANGED <<interval, local, sent, remote, online, blocked, paused, visible>>
  BY DEF Pulse!Tick, Pulse!world
<1>3. /\ since' = (IF since + 1 < Pulse!Off THEN since + 1 ELSE Pulse!Off)
      /\ heard' \in Nat /\ heard' <= heard + 1 /\ steady' \in Nat /\ steady' <= steady + 1
  BY <1>1 DEF Pulse!Tick, Pulse!Least
<1>4. /\ flight' \in Seq(Frames) /\ Len(flight') = Len(flight) /\ Len(flight) \in Nat
      /\ \A i \in 1 .. Len(flight) :
           flight'[i].value = flight[i].value /\ flight'[i].age = flight[i].age + 1
      /\ (flight' = <<>> <=> flight = <<>>) /\ (flight = <<>> <=> Len(flight) = 0)
  BY <1>1, <1>2, FramesAged, EmptySeq DEF PulseTypes
<1>5. \A i \in 1 .. Len(flight) : flight[i].age \in Nat /\ flight[i].age < MaxLatency
  <2>1. DOMAIN flight = 1 .. Len(flight) /\ flight \in Seq(Frames)
    BY <1>1, LenProperties DEF PulseTypes
  <2> QED
    BY <1>2, <2>1, FlightTyped
<1>6. PulseTypes'
  <2>1. \A i \in 1 .. Len(flight') : flight'[i].age <= MaxLatency
    BY <1>1, <1>4, <1>5
  <2>2. since' \in 0 .. Pulse!Off /\ trailing' \in 0 .. Pulse!Off
    BY <1>1, <1>2, <1>3
  <2> QED
    BY <1>1, <1>2, <1>3, <1>4, <2>1, <2>2 DEF PulseTypes
<1>7. ASSUME Pulse!CanSendActivity, visible, sent.held, sent # Pulse!Never
      PROVE  since < Pulse!MinInterval /\ since' = since + 1
  <2>1. ~(since >= Pulse!MinInterval)
    BY <1>2, <1>7 DEF Pulse!KeepAliveDue
  <2> QED
    BY <1>1, <1>3, <2>1
<1>8. Waiting'
  <2> SUFFICES ASSUME Pulse!CanSendActivity, sent # local
               PROVE  /\ trailing' <= interval
                      /\ IF trailing' = 0 THEN since' >= interval ELSE trailing' + since' = interval
                      /\ visible => steady' + trailing' <= interval
    BY <1>1, <1>2 DEF Waiting, Pulse!CanSendActivity
  <2>1. /\ trailing <= interval
        /\ IF trailing = 0 THEN since >= interval ELSE trailing + since = interval
        /\ visible => steady + trailing <= interval
    BY <1>1 DEF Waiting
  <2>2. CASE trailing = 0
    BY <1>1, <1>2, <1>3, <2>1, <2>2
  <2>3. CASE trailing # 0
    <3>1. trailing' = trailing - 1 /\ since' = since + 1
      BY <1>1, <1>2, <1>3, <2>1, <2>3
    <3>2. visible => steady' + trailing' <= interval
      <4>a. steady \in Nat /\ trailing \in Nat /\ interval \in Nat
        BY <1>1
      <4>b. steady' \in Nat /\ steady' <= steady + 1 /\ trailing' = trailing - 1
        BY <1>3, <3>1
      <4>c. \A s, n, t, i \in Nat : n <= s + 1 /\ s + t <= i => n + (t - 1) <= i
        OBVIOUS
      <4>0. steady + trailing <= interval => steady' + trailing' <= interval
        BY <4>a, <4>b, <4>c, Zenon
      <4>1. CASE visible
        BY <2>1, <4>0, <4>1
      <4> QED
        BY <4>1
    <3> QED
      BY <1>1, <2>1, <2>3, <3>1, <3>2
  <2> QED
    BY <2>2, <2>3
<1>9. Delivering'
  <2> SUFFICES ASSUME Pulse!CanSendActivity, ~blocked
               PROVE  LastSent' = sent /\ (flight' = <<>> => heard' <= since' \/ since' = Pulse!Off)
    BY <1>2 DEF Delivering, Pulse!CanSendActivity
  <2>1. LastSent = sent /\ (flight = <<>> => heard <= since \/ since = Pulse!Off)
    BY <1>1 DEF Delivering
  <2>2. LastSent' = LastSent
    BY <1>2, <1>4 DEF LastSent
  <2>3. ASSUME flight' = <<>> PROVE heard' <= since' \/ since' = Pulse!Off
    BY <1>1, <1>3, <1>4, <2>1, <2>3
  <2> QED
    BY <2>1, <2>2, <2>3
<1>10. Pulse!MinInterval' = Pulse!MinInterval
  BY <1>2 DEF Pulse!MinInterval
<1>11. Punctual'
  <2> SUFFICES ASSUME Pulse!CanSendActivity, visible, sent.held, sent # Pulse!Never
               PROVE  since' <= Pulse!MinInterval
    BY <1>2, <1>10 DEF Punctual, Pulse!CanSendActivity
  <2> QED
    BY <1>1, <1>7
<1>12. Spreading'
  <2> SUFFICES ASSUME Pulse!CanSendActivity, ~blocked, visible, sent = local
               PROVE  Coming' \/ Come'
    BY <1>2 DEF Spreading, Pulse!CanSendActivity
  <2>1. Coming \/ Come
    BY <1>1, <1>2 DEF Spreading
  <2>2. CASE Coming
    <3>1. PICK j \in 1 .. Len(flight) :
            /\ flight[j].age + interval >= steady
            /\ \A k \in j .. Len(flight) : flight[k].value = local
      BY <2>2 DEF Coming
    <3>2. j \in 1 .. Len(flight') /\ flight'[j].age + interval' >= steady'
      <4>1. flight'[j].age = flight[j].age + 1 /\ flight[j].age \in Nat
        BY <1>4, <1>5
      <4>2. interval \in Nat /\ steady \in Nat /\ steady' \in Nat /\ steady' <= steady + 1
        BY <1>1, <1>3
      <4>3. flight'[j].age + interval >= steady'
        BY <3>1, <4>1, <4>2
      <4> QED
        BY <1>2, <1>4, <4>3
    <3>3. \A k \in j .. Len(flight') : flight'[k].value = local'
      BY <1>2, <1>4, <3>1
    <3> QED
      BY <3>2, <3>3 DEF Coming
  <2>3. CASE Come
    <3>1. remote' = local' /\ \A k \in 1 .. Len(flight') : flight'[k].value = local'
      BY <1>2, <1>4, <2>3 DEF Come
    <3>2. ASSUME local'.held
          PROVE  /\ since' <= Pulse!MinInterval'
                 /\ IF flight' = <<>> THEN heard' <= since' ELSE heard' <= flight'[1].age + Pulse!MinInterval'
      <4>1. IF flight = <<>> THEN heard <= since ELSE heard <= flight[1].age + Pulse!MinInterval
        BY <1>2, <2>3, <3>2 DEF Come
      <4>2. since < Pulse!MinInterval /\ since' = since + 1
        BY <1>1, <1>2, <1>7, <3>2 DEF Waiting
      <4>3. CASE flight = <<>>
        BY <1>1, <1>3, <1>4, <1>10, <4>1, <4>2, <4>3
      <4>4. CASE flight # <<>>
        <5>1. flight'[1].age = flight[1].age + 1 /\ flight[1].age \in Nat
          BY <1>4, <1>5, <4>4
        <5> QED
          BY <1>1, <1>3, <1>4, <1>10, <4>1, <4>2, <4>4, <5>1
      <4> QED
        BY <4>3, <4>4
    <3> QED
      BY <3>1, <3>2 DEF Come
  <2> QED
    BY <2>1, <2>2, <2>3
<1> QED
  BY <1>6, <1>8, <1>9, <1>11, <1>12 DEF Pulsing

LEMMA PulseKeeps ==
  ASSUME Pulsing, [Pulse!Next]_(Pulse!vars)
  PROVE  Pulsing'
<1>1. CASE UNCHANGED Pulse!vars
  <2>1. UNCHANGED <<interval, local, sent, since, trailing, flight, remote, heard, online, blocked, paused, visible, steady>>
    BY <1>1 DEF Pulse!vars, Pulse!world
  <2> QED
    BY <2>1 DEF Pulsing, PulseTypes, Waiting, Delivering, LastSent, Punctual, Spreading, Coming, Come,
         Pulse!CanSendActivity, Pulse!KeepAliveDue, Pulse!MinInterval
<1> QED
  BY <1>1, InputPulses, TrailingPulses, RepeatPulses, ArrivalPulses, TickPulses, WorldPulses DEF Pulse!Next

\* What was sent an interval after the last change at the latest is no longer
\* under way when another latency has passed.
LEMMA PulsingMirrors ==
  ASSUME RealLimits, Pulsing
  PROVE  Pulse!MirrorsHeld /\ Pulse!MirrorsPointer
<1> SUFFICES ASSUME Pulse!Settled
             PROVE  (remote.held /\ heard <= ClickTTL <=> local.held) /\ remote.x = local.x
  BY DEF Pulse!MirrorsHeld, Pulse!MirrorsPointer
<1>1. /\ PulseTypes /\ Waiting /\ Spreading /\ Pulse!CanSendActivity /\ ~blocked /\ visible
      /\ steady >= Pulse!Soon
  BY DEF Pulsing, Pulse!Settled, Pulse!CanSendActivity
<1>2. /\ interval \in Nat /\ interval + MaxLatency < Pulse!Soon /\ MaxLatency \in Nat /\ Pulse!Soon \in Nat
      /\ steady \in Nat /\ trailing \in Nat /\ since \in Nat /\ heard \in Nat /\ ClickTTL \in Nat
      /\ Pulse!MinInterval \in Nat /\ Pulse!MinInterval + MaxLatency <= ClickTTL
  BY <1>1, PulseNumbers, MinIntervalIsMost DEF PulseTypes
<1>3. ~(steady <= interval)
  BY <1>1, <1>2
<1>4. sent = local
  <2> SUFFICES ASSUME sent # local PROVE FALSE
    OBVIOUS
  <2>1. steady + trailing <= interval
    BY <1>1 DEF Waiting
  <2> QED
    BY <1>2, <1>3, <2>1
<1>5. /\ Len(flight) \in Nat /\ (flight = <<>> <=> Len(flight) = 0)
      /\ \A i \in 1 .. Len(flight) : flight[i].age \in Nat /\ flight[i].age <= MaxLatency
  BY <1>1, FlightTyped DEF PulseTypes
<1>6. ~Coming
  BY <1>1, <1>2, <1>5 DEF Coming
<1>7. Come
  BY <1>1, <1>3, <1>4, <1>6 DEF Spreading
<1>8. local.held => heard <= ClickTTL
  <2> SUFFICES ASSUME local.held PROVE heard <= ClickTTL
    OBVIOUS
  <2>1. /\ since <= Pulse!MinInterval
        /\ IF flight = <<>> THEN heard <= since ELSE heard <= flight[1].age + Pulse!MinInterval
    BY <1>7 DEF Come
  <2>2. CASE flight = <<>>
    BY <1>2, <2>1, <2>2
  <2>3. CASE flight # <<>>
    <3>1. flight[1].age \in Nat /\ flight[1].age <= MaxLatency
      BY <1>5, <2>3
    <3> QED
      BY <1>2, <2>1, <2>3, <3>1
  <2> QED
    BY <2>2, <2>3
<1>9. remote = local
  BY <1>7 DEF Come
<1> QED
  BY <1>8, <1>9

-----------------------------------------------------------------------------
(* Presence                                                                *)

News == [kind : {"peer"}, online : BOOLEAN] \cup [kind : {"presence"}, value : Presence!Values]

PresenceTypes ==
  /\ up \subseteq {Teller, Hearer}
  /\ seated \in [{Teller, Hearer} -> {"none", "open", "ghost"}]
  /\ news \in [{Teller, Hearer} -> Seq(News)]
  /\ sees \in [{Teller, Hearer} -> BOOLEAN]
  /\ outbox \in Seq(Presence!Values) /\ presence \in Presence!Values
  /\ \A d \in {Teller, Hearer} : d \in up <=> seated[d] = "open"
  /\ Teller \notin up => sees[Teller] = FALSE
  /\ \A i \in 1 .. Len(news[Teller]) : news[Teller][i].kind = "peer"

\* The last that Teller has heard, or will hear, of Hearer's seat is how it is.
Noticing ==
  Teller \in up =>
    /\ news[Teller] = <<>> => (seated[Hearer] # "none" <=> sees[Teller])
    /\ news[Teller] # <<>> => (seated[Hearer] # "none" <=> news[Teller][Len(news[Teller])].online)

\* Teller's window has the peer as away, or will have, so that an edge is to come.
EdgeToCome == ~sees[Teller] \/ \E i \in 1 .. Len(news[Teller]) : ~news[Teller][i].online

\* A frame to Hearer leaves it with the presence as it is.
Harmless(frame) ==
  (frame.kind = "peer" /\ frame.online) \/ (frame.kind = "presence" /\ frame.value = presence)

Known ==
  \/ view = presence /\ \A k \in 1 .. Len(news[Hearer]) : Harmless(news[Hearer][k])
  \/ \E i \in 1 .. Len(news[Hearer]) :
       /\ news[Hearer][i].kind = "presence"
       /\ \A k \in i .. Len(news[Hearer]) : Harmless(news[Hearer][k])

Informing ==
  up = {Teller, Hearer} /\ ~replaced =>
    \/ EdgeToCome
    \/ outbox # <<>> /\ outbox[Len(outbox)] = presence
    \/ outbox = <<>> /\ Known

PresenceInv == PresenceTypes /\ Noticing /\ Informing

LEMMA TwoDevices ==
  /\ Teller # Hearer /\ Presence!Devices = {Teller, Hearer}
  /\ Presence!Partner(Teller) = Hearer /\ Presence!Partner(Hearer) = Teller
  /\ Presence!Unknown \notin Presence!Values
BY Assumptions DEF Assumptions, Presence!PresenceAssumption, Presence!Devices, Presence!Partner,
   Presence!Unknown, Presence!Values

LEMMA NewsAreTyped ==
  /\ \A b \in BOOLEAN : Presence!Notice(b) \in News /\ Presence!Notice(b).kind = "peer"
                        /\ (Presence!Notice(b).online <=> b)
  /\ \A v \in Presence!Values : Presence!Presence(v) \in News /\ Presence!Presence(v).kind = "presence"
                                /\ Presence!Presence(v).value = v
  /\ \A f \in News : f.kind \in {"peer", "presence"}
  /\ \A f \in News : f.kind = "peer" => f.online \in BOOLEAN
  /\ \A f \in News : f.kind = "presence" => f.value \in Presence!Values
BY DEF News, Presence!Notice, Presence!Presence

LEMMA InitPresence == Presence!Init => PresenceInv
<1> SUFFICES ASSUME Presence!Init PROVE PresenceInv
  OBVIOUS
<1>1. /\ up = {} /\ seated = [d \in {Teller, Hearer} |-> "none"]
      /\ news = [d \in {Teller, Hearer} |-> <<>>] /\ sees = [d \in {Teller, Hearer} |-> FALSE]
      /\ presence \in Presence!Values /\ outbox = <<>>
  BY TwoDevices, Zenon DEF Presence!Init
<1>2. <<>> \in Seq(News) /\ <<>> \in Seq(Presence!Values) /\ Len(news[Teller]) = 0
  BY <1>1, EmptySeq
<1>3. PresenceTypes
  BY <1>1, <1>2 DEF PresenceTypes
<1> QED
  BY <1>1, <1>3, TwoDevices DEF PresenceInv, Noticing, Informing

\* A frame for a device that is there goes to the end of its line.
LEMMA ToldIsBehind ==
  ASSUME PresenceTypes, NEW d \in {Teller, Hearer}, NEW frame \in News
  PROVE  /\ Presence!Told(d, frame) \in [{Teller, Hearer} -> Seq(News)]
         /\ \A e \in {Teller, Hearer} \ {d} : Presence!Told(d, frame)[e] = news[e]
         /\ d \notin up => Presence!Told(d, frame)[d] = news[d]
         /\ d \in up => Presence!Told(d, frame)[d] = Append(news[d], frame)
<1>1. news \in [{Teller, Hearer} -> Seq(News)] /\ (d \in up <=> seated[d] = "open")
  BY DEF PresenceTypes
<1>2. Append(news[d], frame) \in Seq(News)
  BY <1>1, AppendProperties
<1> QED
  BY <1>1, <1>2 DEF Presence!Told

LEMMA Behind ==
  ASSUME NEW S, NEW s \in Seq(S), NEW e \in S
  PROVE  /\ Append(s, e) \in Seq(S) /\ Len(s) \in Nat /\ Len(Append(s, e)) = Len(s) + 1
         /\ Append(s, e) # <<>> /\ Append(s, e)[Len(s) + 1] = e
         /\ \A i \in 1 .. Len(s) : Append(s, e)[i] = s[i]
         /\ (s = <<>> <=> Len(s) = 0)
BY AppendProperties, LenProperties, EmptySeq

LEMMA Ahead ==
  ASSUME NEW S, NEW s \in Seq(S), s # <<>>, NEW t, t = Tail(s)
  PROVE  /\ t \in Seq(S) /\ Len(s) \in Nat /\ Len(s) > 0 /\ Len(t) = Len(s) - 1
         /\ Head(s) = s[1] /\ s[1] \in S
         /\ \A i \in 1 .. Len(t) : t[i] = s[i + 1]
         /\ (t = <<>> <=> Len(s) = 1)
<1>1. t \in Seq(S) /\ Len(t) = Len(s) - 1 /\ \A i \in 1 .. Len(t) : t[i] = s[i + 1]
  BY HeadTailProperties
<1>2. Len(s) \in Nat /\ Len(s) > 0 /\ Head(s) = s[1]
  BY EmptySeq, LenProperties
<1>3. t = <<>> <=> Len(t) = 0
  BY <1>1, EmptySeq
<1>4. s[1] \in S
  BY <1>2, ElementOfSeq
<1> QED
  BY <1>1, <1>2, <1>3, <1>4

LEMMA Alone ==
  ASSUME NEW frame \in News, NEW t, t = <<frame>>
  PROVE  t \in Seq(News) /\ Len(t) = 1 /\ t[1] = frame /\ t # <<>>
OBVIOUS

\* A device that comes back hears at once whether the other seat is taken.
LEMMA ConnectInforms ==
  ASSUME PresenceInv, NEW d \in {Teller, Hearer}, Presence!Connect(d)
  PROVE  PresenceInv'
<1>1. PresenceTypes /\ Noticing /\ Informing
  BY DEF PresenceInv
<1>2. /\ d \notin up /\ up' = up \cup {d} /\ seated' = [seated EXCEPT ![d] = "open"]
      /\ news' = [Presence!Told(Presence!Partner(d), Presence!Notice(TRUE)) EXCEPT
                    ![d] = <<Presence!Notice(seated[Presence!Partner(d)] # "none")>>]
      /\ replaced' = (replaced \/ (d = Hearer /\ seated[d] = "ghost"))
      /\ UNCHANGED <<sees, presence, outbox, view>>
  BY Zenon DEF Presence!Connect
<1> DEFINE p == Presence!Partner(d)
           hello == Presence!Notice(seated[p] # "none")
           yes == Presence!Notice(TRUE)
           told == Presence!Told(p, yes)
<1>3. p \in {Teller, Hearer} /\ p # d
  BY TwoDevices
<1>4. /\ hello \in News /\ hello.kind = "peer" /\ (hello.online <=> seated[p] # "none")
      /\ yes \in News /\ yes.kind = "peer" /\ yes.online
  BY NewsAreTyped
<1>5. /\ told \in [{Teller, Hearer} -> Seq(News)]
      /\ p \notin up => told[p] = news[p]
      /\ p \in up => told[p] = Append(news[p], yes)
  BY <1>1, <1>3, <1>4, ToldIsBehind
<1> HIDE DEF hello, told, yes
<1>6. news' = [told EXCEPT ![d] = <<hello>>]
  BY <1>2 DEF hello, told, yes
<1>7. /\ <<hello>> \in Seq(News) /\ Len(<<hello>>) = 1 /\ <<hello>>[1] = hello /\ <<hello>> # <<>>
  BY <1>4, Alone
<1>8. news' \in [{Teller, Hearer} -> Seq(News)] /\ news'[d] = <<hello>> /\ news'[p] = told[p]
  BY <1>3, <1>5, <1>6, <1>7
<1> HIDE DEF p
<1>9. /\ seated' \in [{Teller, Hearer} -> {"none", "open", "ghost"}]
      /\ seated'[d] = "open" /\ seated'[p] = seated[p]
  BY <1>1, <1>2, <1>3 DEF PresenceTypes
<1>10. {d, p} = {Teller, Hearer}
  BY <1>3
<1>11. PresenceTypes'
  <2>1. \A i \in 1 .. Len(news'[Teller]) : news'[Teller][i].kind = "peer"
    <3>1. CASE d = Teller
      BY <1>4, <1>7, <1>8, <3>1
    <3>2. CASE p = Teller /\ p \notin up
      BY <1>1, <1>5, <1>8, <3>2 DEF PresenceTypes
    <3>3. CASE p = Teller /\ p \in up
      <4>1. news[p] \in Seq(News) /\ \A i \in 1 .. Len(news[p]) : news[p][i].kind = "peer"
        BY <1>1, <3>3 DEF PresenceTypes
      <4>2. /\ Len(news[p]) \in Nat /\ Len(news'[p]) = Len(news[p]) + 1
            /\ news'[p][Len(news'[p])] = yes
            /\ \A i \in 1 .. Len(news[p]) : news'[p][i] = news[p][i]
        <5>1. news'[p] = Append(news[p], yes)
          BY <1>5, <1>8, <3>3
        <5>2. yes \in News
          BY <1>4
        <5> QED
          BY <4>1, <5>1, <5>2, Behind
      <4>3. ASSUME NEW i \in 1 .. Len(news'[p]) PROVE news'[p][i].kind = "peer"
        <5>1. CASE i \in 1 .. Len(news[p])
          BY <4>1, <4>2, <5>1
        <5>2. CASE i = Len(news'[p])
          BY <1>4, <4>2, <5>2
        <5> QED
          BY <4>2, <5>1, <5>2
      <4> QED
        BY <3>3, <4>3
    <3> QED
      BY <1>10, <3>1, <3>2, <3>3
  <2>2. \A e \in {Teller, Hearer} : e \in up' <=> seated'[e] = "open"
    BY <1>1, <1>2, <1>3, <1>9, <1>10 DEF PresenceTypes
  <2> QED
    BY <1>1, <1>2, <1>8, <1>9, <2>1, <2>2 DEF PresenceTypes
<1>12. CASE d = Teller
  <2>1. p = Hearer
    BY <1>10, <1>12, TwoDevices
  <2>2. Noticing'
    BY <1>4, <1>7, <1>8, <1>9, <1>12, <2>1 DEF Noticing
  <2>3. sees'[Teller] = FALSE
    BY <1>1, <1>2, <1>12 DEF PresenceTypes
  <2> QED
    BY <1>11, <2>2, <2>3 DEF PresenceInv, Informing, EdgeToCome
<1>13. CASE d = Hearer
  <2>1. p = Teller
    BY <1>10, <1>13, TwoDevices
  <2>2. CASE Teller \notin up
    <3>1. Teller \notin up'
      BY <1>2, <1>13, <2>2, TwoDevices
    <3> QED
      BY <1>11, <3>1 DEF PresenceInv, Noticing, Informing
  <2>3. CASE Teller \in up
    <3>1. /\ Len(news[Teller]) \in Nat /\ Len(news'[Teller]) = Len(news[Teller]) + 1 /\ news'[Teller] # <<>>
          /\ news'[Teller][Len(news'[Teller])] = yes
          /\ \A i \in 1 .. Len(news[Teller]) : news'[Teller][i] = news[Teller][i]
          /\ (news[Teller] = <<>> <=> Len(news[Teller]) = 0)
      <4>1. news[Teller] \in Seq(News)
        BY <1>1 DEF PresenceTypes
      <4>2. news'[Teller] = Append(news[Teller], yes)
        BY <1>5, <1>8, <2>1, <2>3
      <4>3. yes \in News
        BY <1>4
      <4> QED
        BY <4>1, <4>2, <4>3, Behind
    <3>2. Noticing'
      BY <1>4, <1>9, <1>13, <3>1 DEF Noticing
    <3>3. ASSUME ~replaced' PROVE EdgeToCome'
      <4>1. seated[Hearer] = "none"
        BY <1>1, <1>2, <1>13, <3>3 DEF PresenceTypes
      <4>2. CASE news[Teller] = <<>>
        <5>1. ~sees[Teller]
          BY <1>1, <2>3, <4>1, <4>2 DEF Noticing
        <5> QED
          BY <1>2, <5>1 DEF EdgeToCome
      <4>3. CASE news[Teller] # <<>>
        <5>1. ~news[Teller][Len(news[Teller])].online
          BY <1>1, <2>3, <4>1, <4>3 DEF Noticing
        <5>2. /\ Len(news[Teller]) \in 1 .. Len(news'[Teller])
              /\ news'[Teller][Len(news[Teller])] = news[Teller][Len(news[Teller])]
          BY <3>1, <4>3
        <5> QED
          BY <5>1, <5>2 DEF EdgeToCome
      <4> QED
        BY <4>2, <4>3
    <3> QED
      BY <1>11, <3>2, <3>3 DEF PresenceInv, Informing
  <2> QED
    BY <2>2, <2>3
<1> QED
  BY <1>12, <1>13

LEMMA LoseInforms ==
  ASSUME PresenceInv, NEW d \in {Teller, Hearer}, Presence!Lose(d)
  PROVE  PresenceInv'
<1>1. PresenceTypes /\ Noticing
  BY DEF PresenceInv
<1>2. /\ d \in up /\ up' = up \ {d} /\ seated' = [seated EXCEPT ![d] = "ghost"]
      /\ news' = [news EXCEPT ![d] = <<>>] /\ sees' = [sees EXCEPT ![d] = FALSE]
      /\ UNCHANGED <<presence, outbox>>
  BY Zenon DEF Presence!Lose
<1>3. <<>> \in Seq(News) /\ Len(<<>>) = 0
  BY EmptySeq
<1>4. PresenceTypes'
  <2>1. /\ up' \subseteq {Teller, Hearer} /\ seated' \in [{Teller, Hearer} -> {"none", "open", "ghost"}]
        /\ news' \in [{Teller, Hearer} -> Seq(News)] /\ sees' \in [{Teller, Hearer} -> BOOLEAN]
    BY <1>1, <1>2, <1>3 DEF PresenceTypes
  <2>2. \A e \in {Teller, Hearer} : e \in up' <=> seated'[e] = "open"
    BY <1>1, <1>2 DEF PresenceTypes
  <2>3. Teller \notin up' => sees'[Teller] = FALSE
    BY <1>1, <1>2 DEF PresenceTypes
  <2>4. \A i \in 1 .. Len(news'[Teller]) : news'[Teller][i].kind = "peer"
    BY <1>1, <1>2, <1>3 DEF PresenceTypes
  <2> QED
    BY <1>1, <1>2, <2>1, <2>2, <2>3, <2>4 DEF PresenceTypes
<1>5. Noticing'
  <2>1. CASE d = Teller
    BY <1>2, <2>1 DEF Noticing
  <2>2. CASE d = Hearer
    <3>1. /\ news'[Teller] = news[Teller] /\ sees'[Teller] = sees[Teller]
          /\ seated[Hearer] = "open" /\ seated'[Hearer] = "ghost" /\ (Teller \in up' => Teller \in up)
      BY <1>1, <1>2, <2>2, TwoDevices DEF PresenceTypes
    <3> QED
      BY <1>1, <3>1 DEF Noticing
  <2> QED
    BY <2>1, <2>2
<1>6. up' # {Teller, Hearer}
  BY <1>2
<1> QED
  BY <1>4, <1>5, <1>6 DEF PresenceInv, Informing

LEMMA NoticeInforms ==
  ASSUME PresenceInv, NEW d \in {Teller, Hearer}, Presence!RelayNotices(d)
  PROVE  PresenceInv'
<1>1. PresenceTypes /\ Noticing
  BY DEF PresenceInv
<1> DEFINE p == Presence!Partner(d)
           off == Presence!Notice(FALSE)
<1>2. /\ seated[d] = "ghost" /\ d \notin up /\ seated' = [seated EXCEPT ![d] = "none"]
      /\ news' = Presence!Told(p, off) /\ UNCHANGED <<up, sees, presence, outbox, view, replaced>>
  BY Zenon DEF Presence!RelayNotices
<1>3. /\ p \in {Teller, Hearer} /\ p # d /\ off \in News /\ off.kind = "peer" /\ ~off.online
  BY TwoDevices, NewsAreTyped
<1>4. {d, p} = {Teller, Hearer}
  BY <1>3
<1> HIDE DEF p, off
<1>5. /\ news' \in [{Teller, Hearer} -> Seq(News)] /\ news'[d] = news[d]
      /\ p \notin up => news'[p] = news[p]
      /\ p \in up => news'[p] = Append(news[p], off)
  BY <1>1, <1>2, <1>3, ToldIsBehind
<1>6. /\ seated' \in [{Teller, Hearer} -> {"none", "open", "ghost"}]
      /\ seated'[d] = "none" /\ seated'[p] = seated[p]
  BY <1>1, <1>2, <1>3 DEF PresenceTypes
<1>7. ASSUME Teller = p, Teller \in up
      PROVE  /\ Len(news[Teller]) \in Nat /\ Len(news'[Teller]) = Len(news[Teller]) + 1 /\ news'[Teller] # <<>>
             /\ news'[Teller][Len(news'[Teller])] = off
             /\ \A i \in 1 .. Len(news[Teller]) : news'[Teller][i] = news[Teller][i]
  <2>1. news[Teller] \in Seq(News)
    BY <1>1 DEF PresenceTypes
  <2> QED
    BY <1>3, <1>5, <1>7, <2>1, Behind
<1>8. PresenceTypes'
  <2>1. \A i \in 1 .. Len(news'[Teller]) : news'[Teller][i].kind = "peer"
    <3>0. \A i \in 1 .. Len(news[Teller]) : news[Teller][i].kind = "peer"
      BY <1>1 DEF PresenceTypes
    <3>1. CASE d = Teller \/ p \notin up
      BY <1>4, <1>5, <3>0, <3>1
    <3>2. CASE p = Teller /\ Teller \in up
      BY <1>3, <1>7, <3>0, <3>2
    <3> QED
      BY <1>4, <3>1, <3>2
  <2>2. \A e \in {Teller, Hearer} : e \in up' <=> seated'[e] = "open"
    BY <1>1, <1>2, <1>4, <1>6 DEF PresenceTypes
  <2> QED
    BY <1>1, <1>2, <1>5, <1>6, <2>1, <2>2 DEF PresenceTypes
<1>9. Noticing'
  <2>1. CASE d = Teller
    BY <1>2, <2>1 DEF Noticing
  <2>2. CASE d = Hearer /\ Teller \in up
    <3>1. p = Teller
      BY <1>4, <2>2, TwoDevices
    <3> QED
      BY <1>3, <1>6, <1>7, <2>2, <3>1 DEF Noticing
  <2>3. CASE Teller \notin up
    BY <1>2, <2>3 DEF Noticing
  <2> QED
    BY <2>1, <2>2, <2>3
<1>10. up' # {Teller, Hearer}
  BY <1>2
<1> QED
  BY <1>8, <1>9, <1>10 DEF PresenceInv, Informing

\* What Hearer is to know moves up with its line.
LEMMA KnownMovesUp ==
  ASSUME PresenceTypes, Known, news[Hearer] # <<>>, news'[Hearer] = Tail(news[Hearer]),
         UNCHANGED presence,
         view' = IF Head(news[Hearer]).kind = "presence" THEN Head(news[Hearer]).value
                 ELSE IF Head(news[Hearer]).online THEN view ELSE Presence!Unknown
  PROVE  Known'
<1>1. /\ news'[Hearer] \in Seq(News) /\ Len(news[Hearer]) \in Nat /\ Len(news[Hearer]) > 0
      /\ Len(news'[Hearer]) = Len(news[Hearer]) - 1 /\ Head(news[Hearer]) = news[Hearer][1]
      /\ \A i \in 1 .. Len(news'[Hearer]) : news'[Hearer][i] = news[Hearer][i + 1]
  <2>1. news[Hearer] \in Seq(News)
    BY DEF PresenceTypes
  <2> QED
    BY <2>1, Ahead
<1>2. ASSUME \A k \in 1 .. Len(news[Hearer]) : Harmless(news[Hearer][k]),
             view = presence \/ news[Hearer][1].kind = "presence"
      PROVE  Known'
  <2>1. Harmless(news[Hearer][1])
    BY <1>1, <1>2
  <2>2. view' = presence'
    BY <1>1, <1>2, <2>1 DEF Harmless
  <2>3. (\A k \in 1 .. Len(news[Hearer]) : Harmless(news[Hearer][k]))'
    BY <1>1, <1>2 DEF Harmless
  <2> QED
    BY <2>2, <2>3 DEF Known
<1>3. ASSUME NEW i \in 1 .. Len(news[Hearer]), i # 1, news[Hearer][i].kind = "presence",
             \A k \in i .. Len(news[Hearer]) : Harmless(news[Hearer][k])
      PROVE  Known'
  <2>1. i - 1 \in 1 .. Len(news'[Hearer]) /\ news'[Hearer][i - 1].kind = "presence"
    BY <1>1, <1>3
  <2>2. ASSUME NEW k \in i - 1 .. Len(news'[Hearer]) PROVE Harmless(news[Hearer][k])'
    <3>1. k \in 1 .. Len(news'[Hearer]) /\ k + 1 \in i .. Len(news[Hearer])
      BY <1>1, <1>3, <2>2
    <3> QED
      BY <1>1, <1>3, <3>1 DEF Harmless
  <2> QED
    BY <2>1, <2>2 DEF Known
<1> QED
  BY <1>2, <1>3 DEF Known

LEMMA HearInforms ==
  ASSUME PresenceInv, NEW d \in {Teller, Hearer}, Presence!Hear(d)
  PROVE  PresenceInv'
<1>1. PresenceTypes /\ Noticing /\ Informing
  BY DEF PresenceInv
<1> DEFINE notice == Head(news[d])
<1>2. /\ d \in up /\ news[d] # <<>> /\ notice.kind = "peer"
      /\ news' = [news EXCEPT ![d] = Tail(@)] /\ sees' = [sees EXCEPT ![d] = notice.online]
      /\ view' = (IF d = Hearer /\ ~notice.online THEN Presence!Unknown ELSE view)
      /\ UNCHANGED <<up, seated, presence>>
  BY DEF Presence!Hear
<1>3. IF d = Teller /\ notice.online /\ ~sees[Teller]
      THEN outbox' = Append(outbox, presence) /\ replaced' = FALSE
      ELSE UNCHANGED <<outbox, replaced>>
  BY DEF Presence!Hear, Presence!CameOnline, Presence!SendPresence
<1>4. news[d] \in Seq(News) /\ news'[d] = Tail(news[d])
  BY <1>1, <1>2 DEF PresenceTypes
<1>5. /\ news'[d] \in Seq(News) /\ Len(news[d]) \in Nat /\ Len(news[d]) > 0
      /\ Len(news'[d]) = Len(news[d]) - 1 /\ notice = news[d][1] /\ notice \in News
      /\ \A i \in 1 .. Len(news'[d]) : news'[d][i] = news[d][i + 1]
      /\ (news'[d] = <<>> <=> Len(news[d]) = 1)
  BY <1>2, <1>4, Ahead
<1>6. notice.online \in BOOLEAN
  BY <1>2, <1>5, NewsAreTyped
<1> HIDE DEF notice
<1>7. outbox' \in Seq(Presence!Values) /\ (outbox' # outbox => outbox' # <<>> /\ outbox'[Len(outbox')] = presence)
  <2>1. outbox \in Seq(Presence!Values) /\ presence \in Presence!Values
    BY <1>1 DEF PresenceTypes
  <2> QED
    BY <1>3, <2>1, Behind
<1>8. PresenceTypes'
  <2>1. news' \in [{Teller, Hearer} -> Seq(News)]
    BY <1>1, <1>2, <1>4, <1>5 DEF PresenceTypes
  <2>2. sees' \in [{Teller, Hearer} -> BOOLEAN]
    BY <1>1, <1>2, <1>6 DEF PresenceTypes
  <2>3. Teller \notin up => sees'[Teller] = FALSE
    BY <1>1, <1>2 DEF PresenceTypes
  <2>4. \A i \in 1 .. Len(news'[Teller]) : news'[Teller][i].kind = "peer"
    <3>0. \A i \in 1 .. Len(news[Teller]) : news[Teller][i].kind = "peer"
      BY <1>1 DEF PresenceTypes
    <3>1. CASE d = Teller
      <4>1. ASSUME NEW i \in 1 .. Len(news'[Teller])
            PROVE  i + 1 \in 1 .. Len(news[Teller]) /\ news'[Teller][i] = news[Teller][i + 1]
        BY <1>5, <3>1
      <4> QED
        BY <3>0, <4>1
    <3>2. CASE d # Teller
      BY <1>1, <1>2, <3>2 DEF PresenceTypes
    <3> QED
      BY <3>1, <3>2
  <2> QED
    BY <1>1, <1>2, <1>7, <2>1, <2>2, <2>3, <2>4 DEF PresenceTypes
<1>9. CASE d = Teller
  <2>1. /\ sees'[Teller] = notice.online /\ news'[Hearer] = news[Hearer] /\ view' = view
    BY <1>1, <1>2, <1>9, TwoDevices DEF PresenceTypes
  <2>2. Noticing'
    <3>1. seated[Hearer] # "none" <=> news[Teller][Len(news[Teller])].online
      BY <1>1, <1>2, <1>9 DEF Noticing
    <3>2. ASSUME news'[Teller] = <<>> PROVE seated'[Hearer] # "none" <=> sees'[Teller]
      BY <1>2, <1>5, <1>9, <2>1, <3>1, <3>2
    <3>3. ASSUME news'[Teller] # <<>>
          PROVE  seated'[Hearer] # "none" <=> news'[Teller][Len(news'[Teller])].online
      <4>1. news'[Teller][Len(news'[Teller])] = news[Teller][Len(news[Teller])]
        BY <1>5, <1>9, <3>3
      <4> QED
        BY <1>2, <3>1, <4>1
    <3> QED
      BY <3>2, <3>3 DEF Noticing
  <2>3. ASSUME outbox' = outbox, replaced' = replaced, EdgeToCome, ~(notice.online /\ ~sees[Teller])
        PROVE  EdgeToCome'
    <3>1. CASE ~notice.online
      BY <2>1, <3>1 DEF EdgeToCome
    <3>2. CASE sees[Teller]
      <4>1. PICK i \in 1 .. Len(news[Teller]) : ~news[Teller][i].online
        BY <2>3, <3>2 DEF EdgeToCome
      <4>2. CASE i = 1
        BY <1>5, <1>9, <3>1, <4>1, <4>2
      <4>3. CASE i # 1
        <5>1. i - 1 \in 1 .. Len(news'[Teller]) /\ news'[Teller][i - 1] = news[Teller][i]
          BY <1>5, <1>9, <4>1, <4>3
        <5> QED
          BY <4>1, <5>1 DEF EdgeToCome
      <4> QED
        BY <4>2, <4>3
    <3> QED
      BY <2>3, <3>1, <3>2
  <2>4. Known => Known'
    BY <1>2, <2>1 DEF Known, Harmless
  <2>5. Informing'
    <3>1. CASE notice.online /\ ~sees[Teller]
      <4>1. outbox' = Append(outbox, presence) /\ outbox \in Seq(Presence!Values) /\ presence \in Presence!Values
        BY <1>1, <1>3, <1>9, <3>1 DEF PresenceTypes
      <4>2. outbox' # <<>> /\ outbox'[Len(outbox')] = presence'
        BY <1>2, <4>1, Behind
      <4> QED
        BY <4>2 DEF Informing
    <3>2. CASE ~(notice.online /\ ~sees[Teller])
      <4>1. outbox' = outbox /\ replaced' = replaced
        BY <1>3, <3>2
      <4> QED
        BY <1>1, <1>2, <2>3, <2>4, <3>2, <4>1 DEF Informing
    <3> QED
      BY <3>1, <3>2
  <2> QED
    BY <1>8, <2>2, <2>5 DEF PresenceInv
<1>10. CASE d = Hearer
  <2>1. /\ sees'[Teller] = sees[Teller] /\ news'[Teller] = news[Teller]
        /\ UNCHANGED <<outbox, replaced, up, seated, presence>>
    BY <1>1, <1>2, <1>3, <1>10, TwoDevices DEF PresenceTypes
  <2>2. Noticing'
    BY <1>1, <2>1 DEF Noticing
  <2>3. Known => Known'
    BY <1>1, <1>2, <1>4, <1>10, KnownMovesUp DEF notice
  <2>4. EdgeToCome => EdgeToCome'
    BY <2>1 DEF EdgeToCome
  <2>5. Informing'
    BY <1>1, <2>1, <2>3, <2>4 DEF Informing
  <2> QED
    BY <1>8, <2>2, <2>5 DEF PresenceInv
<1> QED
  BY <1>9, <1>10

LEMMA PresenceIsHeard ==
  ASSUME PresenceInv, Presence!HearPresence
  PROVE  PresenceInv'
<1>1. PresenceTypes /\ Noticing /\ Informing
  BY DEF PresenceInv
<1>2. /\ news[Hearer] # <<>> /\ Head(news[Hearer]).kind = "presence"
      /\ view' = Head(news[Hearer]).value /\ news' = [news EXCEPT ![Hearer] = Tail(@)]
      /\ UNCHANGED <<up, seated, sees, presence, outbox, replaced>>
  BY DEF Presence!HearPresence
<1>3. /\ news[Hearer] \in Seq(News) /\ news'[Hearer] = Tail(news[Hearer]) /\ news'[Teller] = news[Teller]
  BY <1>1, <1>2, TwoDevices DEF PresenceTypes
<1>4. news'[Hearer] \in Seq(News)
  BY <1>2, <1>3, Ahead
<1>5. news' \in [{Teller, Hearer} -> Seq(News)]
  BY <1>1, <1>2, <1>3, <1>4 DEF PresenceTypes
<1>6. PresenceTypes'
  BY <1>1, <1>2, <1>3, <1>5 DEF PresenceTypes
<1>7. Noticing'
  BY <1>1, <1>2, <1>3 DEF Noticing
<1>8. Known => Known'
  BY <1>1, <1>2, <1>3, KnownMovesUp
<1>9. EdgeToCome => EdgeToCome'
  BY <1>2, <1>3 DEF EdgeToCome
<1>10. Informing'
  BY <1>1, <1>2, <1>8, <1>9 DEF Informing
<1> QED
  BY <1>6, <1>7, <1>10 DEF PresenceInv

\* A change that is not sent is one that the edge will send.
LEMMA ChangeInforms ==
  ASSUME PresenceInv, Presence!Change
  PROVE  PresenceInv'
<1>1. PresenceTypes /\ Noticing /\ Informing
  BY DEF PresenceInv
<1>2. /\ presence' \in Presence!Values
      /\ IF sees[Teller] THEN outbox' = Append(outbox, presence') /\ replaced' = FALSE
         ELSE UNCHANGED <<outbox, replaced>>
      /\ UNCHANGED <<up, seated, news, sees, view>>
  BY DEF Presence!Change, Presence!SendPresence
<1>3. CASE sees[Teller]
  <2>1. outbox \in Seq(Presence!Values) /\ outbox' = Append(outbox, presence')
    BY <1>1, <1>2, <1>3 DEF PresenceTypes
  <2>2. outbox' \in Seq(Presence!Values) /\ outbox' # <<>> /\ outbox'[Len(outbox')] = presence'
    BY <1>2, <2>1, Behind
  <2>3. PresenceTypes' /\ Noticing'
    BY <1>1, <1>2, <2>2 DEF PresenceTypes, Noticing
  <2> QED
    BY <2>2, <2>3 DEF PresenceInv, Informing
<1>4. CASE ~sees[Teller]
  <2>1. PresenceTypes' /\ Noticing'
    BY <1>1, <1>2, <1>4 DEF PresenceTypes, Noticing
  <2>2. EdgeToCome'
    BY <1>2, <1>4 DEF EdgeToCome
  <2> QED
    BY <2>1, <2>2 DEF PresenceInv, Informing
<1> QED
  BY <1>3, <1>4

\* The last that is flushed is the presence as it is.
LEMMA FlushInforms ==
  ASSUME PresenceInv, Presence!Flush
  PROVE  PresenceInv'
<1>1. PresenceTypes /\ Noticing /\ Informing
  BY DEF PresenceInv
<1> DEFINE frame == Presence!Presence(Head(outbox))
<1>2. /\ outbox # <<>> /\ news' = Presence!Told(Hearer, frame) /\ outbox' = Tail(outbox)
      /\ UNCHANGED <<up, seated, sees, presence, view, replaced>>
  BY DEF Presence!Flush
<1>3. outbox \in Seq(Presence!Values)
  BY <1>1 DEF PresenceTypes
<1>4. /\ outbox' \in Seq(Presence!Values) /\ Len(outbox) \in Nat /\ Len(outbox) > 0
      /\ Len(outbox') = Len(outbox) - 1 /\ Head(outbox) = outbox[1] /\ outbox[1] \in Presence!Values
      /\ \A i \in 1 .. Len(outbox') : outbox'[i] = outbox[i + 1]
      /\ (outbox' = <<>> <=> Len(outbox) = 1)
  <2> HIDE DEF frame
  <2> QED
    BY <1>2, <1>3, Ahead
<1>5. frame \in News /\ frame.kind = "presence" /\ frame.value = outbox[1]
  BY <1>4, NewsAreTyped
<1> HIDE DEF frame
<1>6. /\ news' \in [{Teller, Hearer} -> Seq(News)] /\ news'[Teller] = news[Teller]
      /\ Hearer \in up => news'[Hearer] = Append(news[Hearer], frame)
  BY <1>1, <1>2, <1>5, ToldIsBehind, TwoDevices
<1>7. PresenceTypes' /\ Noticing'
  BY <1>1, <1>2, <1>4, <1>6 DEF PresenceTypes, Noticing
<1>8. ASSUME Hearer \in up, outbox[Len(outbox)] = presence
      PROVE  \/ outbox' # <<>> /\ outbox'[Len(outbox')] = presence'
             \/ outbox' = <<>> /\ Known'
  <2>1. CASE Len(outbox) = 1
    <3>1. outbox' = <<>> /\ frame.value = presence'
      BY <1>2, <1>4, <1>5, <1>8, <2>1
    <3>2. news[Hearer] \in Seq(News) /\ news'[Hearer] = Append(news[Hearer], frame)
      BY <1>1, <1>6, <1>8 DEF PresenceTypes
    <3>3. /\ Len(news[Hearer]) \in Nat /\ Len(news'[Hearer]) = Len(news[Hearer]) + 1
          /\ news'[Hearer][Len(news[Hearer]) + 1] = frame
      BY <1>5, <3>2, Behind
    <3>4. PICK n \in Nat : n = Len(news'[Hearer]) /\ n > 0
      BY <3>3
    <3>5. n \in 1 .. Len(news'[Hearer]) /\ news'[Hearer][n].kind = "presence" /\ news'[Hearer][n].value = presence'
      BY <1>5, <3>1, <3>3, <3>4
    <3>6. (\A k \in n .. Len(news[Hearer]) : Harmless(news[Hearer][k]))'
      BY <3>4, <3>5 DEF Harmless
    <3> QED
      BY <3>1, <3>5, <3>6 DEF Known
  <2>2. CASE Len(outbox) # 1
    BY <1>2, <1>4, <1>8, <2>2
  <2> QED
    BY <2>1, <2>2
<1>9. EdgeToCome => EdgeToCome'
  BY <1>2, <1>6 DEF EdgeToCome
<1>10. Informing'
  BY <1>1, <1>2, <1>8, <1>9 DEF Informing
<1> QED
  BY <1>7, <1>10 DEF PresenceInv

LEMMA PresenceKeeps ==
  ASSUME PresenceInv, [Presence!Next]_(Presence!vars)
  PROVE  PresenceInv'
<1>1. CASE UNCHANGED Presence!vars
  <2>1. UNCHANGED <<up, seated, news, sees, presence, outbox, view, replaced>>
    BY <1>1 DEF Presence!vars
  <2> QED
    BY <2>1 DEF PresenceInv, PresenceTypes, Noticing, Informing, EdgeToCome, Known, Harmless
<1>2. ASSUME NEW d \in {Teller, Hearer},
             Presence!Connect(d) \/ Presence!Lose(d) \/ Presence!RelayNotices(d) \/ Presence!Hear(d)
      PROVE  PresenceInv'
  BY <1>2, ConnectInforms, LoseInforms, NoticeInforms, HearInforms
<1>3. CASE Presence!HearPresence \/ Presence!Change \/ Presence!Flush
  BY <1>3, PresenceIsHeard, ChangeInforms, FlushInforms
<1> QED
  BY <1>1, <1>2, <1>3, TwoDevices DEF Presence!Next

LEMMA InformedKnows == PresenceInv => Presence!PeerKnowsNoticed
<1> SUFFICES ASSUME PresenceInv, Presence!Quiet, ~replaced PROVE view = presence
  BY DEF Presence!PeerKnowsNoticed
<1>1. PresenceTypes /\ Noticing /\ Informing
  BY DEF PresenceInv
<1>2. up = {Teller, Hearer} /\ outbox = <<>> /\ news[Teller] = <<>> /\ news[Hearer] = <<>>
  BY TwoDevices DEF Presence!Quiet
<1>3. seated[Hearer] = "open" /\ sees[Teller]
  BY <1>1, <1>2 DEF PresenceTypes, Noticing
<1>4. 1 .. Len(news[Teller]) = {} /\ 1 .. Len(news[Hearer]) = {}
  BY <1>2
<1>5. ~EdgeToCome
  BY <1>3, <1>4 DEF EdgeToCome
<1>6. Known
  BY <1>1, <1>2, <1>5 DEF Informing
<1> QED
  BY <1>4, <1>6 DEF Known

-----------------------------------------------------------------------------
(* A step of the whole is a step of each part, or leaves it alone          *)

LEMMA StepsOfFront == [Next]_vars => [Front!Next]_(Front!vars)
<1> SUFFICES ASSUME [Next]_vars, ~Front!Next PROVE UNCHANGED Front!vars
  OBVIOUS
<1>1. UNCHANGED frontVars
  BY DEF Next, vars, NextCloudflare, NextFront, NextReconnect, NextBytes, NextLoop, NextPulse,
         NextPresence, NextVoice, NextView, NextPointer, NextTaskbar, NextRecovery, edgeVars
<1> QED
  BY <1>1 DEF frontVars, Front!vars, Front!passing

LEMMA StepsOfReconnect == [Next]_vars => [Backoff!Next]_(Backoff!vars)
<1> SUFFICES ASSUME [Next]_vars, ~Backoff!Next PROVE UNCHANGED Backoff!vars
  OBVIOUS
<1>1. UNCHANGED reconnectVars
  BY DEF Next, vars, NextCloudflare, NextFront, NextReconnect, NextBytes, NextLoop, NextPulse,
         NextPresence, NextVoice, NextView, NextPointer, NextTaskbar, NextRecovery, edgeVars
<1> QED
  BY <1>1 DEF reconnectVars, Backoff!vars

LEMMA StepsOfBytes == [Next]_vars => [Bytes!Next]_(Bytes!vars)
<1> SUFFICES ASSUME [Next]_vars, ~Bytes!Next PROVE UNCHANGED Bytes!vars
  OBVIOUS
<1>1. UNCHANGED bytesVars
  BY DEF Next, vars, NextCloudflare, NextFront, NextReconnect, NextBytes, NextLoop, NextPulse,
         NextPresence, NextVoice, NextView, NextPointer, NextTaskbar, NextRecovery, linkVars
<1> QED
  BY <1>1 DEF bytesVars, Bytes!vars, Bytes!address, Bytes!adapter

LEMMA StepsOfLoop == [Next]_vars => [Loop!Next]_(Loop!vars)
<1> SUFFICES ASSUME [Next]_vars, ~Loop!Next PROVE UNCHANGED Loop!vars
  OBVIOUS
<1>1. UNCHANGED loopVars
  BY DEF Next, vars, NextCloudflare, NextFront, NextReconnect, NextBytes, NextLoop, NextPulse,
         NextPresence, NextVoice, NextView, NextPointer, NextTaskbar, NextRecovery, linkVars
<1> QED
  BY <1>1 DEF loopVars, Loop!vars, Loop!queues, Loop!pacing, Loop!world

LEMMA StepsOfRecovery == [Next]_vars => [Restart!Next]_(Restart!vars)
<1> SUFFICES ASSUME [Next]_vars, ~Restart!Next PROVE UNCHANGED Restart!vars
  OBVIOUS
<1>1. UNCHANGED recoveryVars
  BY DEF Next, vars, NextCloudflare, NextFront, NextReconnect, NextBytes, NextLoop, NextPulse,
         NextPresence, NextVoice, NextView, NextPointer, NextTaskbar, NextRecovery, shellVars
<1> QED
  BY <1>1 DEF recoveryVars, Restart!vars, Restart!file, Restart!process, Restart!told

LEMMA StepsOfCloudflare == [Next]_vars => [Cloudflare!Next]_(Cloudflare!vars)
<1> SUFFICES ASSUME [Next]_vars, ~Cloudflare!Next PROVE UNCHANGED Cloudflare!vars
  OBVIOUS
<1>1. UNCHANGED cloudflareVars
  BY DEF Next, vars, NextCloudflare, NextFront, NextReconnect, NextBytes, NextLoop, NextPulse,
         NextPresence, NextVoice, NextView, NextPointer, NextTaskbar, NextRecovery, edgeVars
<1> QED
  BY <1>1 DEF cloudflareVars, Cloudflare!vars

LEMMA StepsOfPulse == [Next]_vars => [Pulse!Next]_(Pulse!vars)
<1> SUFFICES ASSUME [Next]_vars, ~Pulse!Next PROVE UNCHANGED Pulse!vars
  OBVIOUS
<1>1. UNCHANGED pulseVars
  BY DEF Next, vars, NextCloudflare, NextFront, NextReconnect, NextBytes, NextLoop, NextPulse,
         NextPresence, NextVoice, NextView, NextPointer, NextTaskbar, NextRecovery, linkVars
<1> QED
  BY <1>1 DEF pulseVars, Pulse!vars, Pulse!world

LEMMA StepsOfPresence == [Next]_vars => [Presence!Next]_(Presence!vars)
<1> SUFFICES ASSUME [Next]_vars, ~Presence!Next PROVE UNCHANGED Presence!vars
  OBVIOUS
<1>1. UNCHANGED presenceVars
  BY DEF Next, vars, NextCloudflare, NextFront, NextReconnect, NextBytes, NextLoop, NextPulse,
         NextPresence, NextVoice, NextView, NextPointer, NextTaskbar, NextRecovery, windowVars
<1> QED
  BY <1>1 DEF presenceVars, Presence!vars

LEMMA EachBegins ==
  Init => /\ Front!Init /\ Backoff!Init /\ Bytes!Init /\ Loop!Init
          /\ Restart!Init /\ Cloudflare!Init /\ Pulse!Init /\ Presence!Init
BY DEF Init

-----------------------------------------------------------------------------
(* The theorems                                                            *)

\* No text disappears between the three queues of the session's loop, and none
\* overtakes another, however often a connection is lost, sent again or given
\* back (flush, live and run_session in manager.rs).
THEOREM NoTextIsLost == Spec => []TextsAccounted
<1>1. Init => LinedUp
  BY EachBegins, InitLinedUp
<1>2. LinedUp /\ [Next]_vars => LinedUp'
  BY StepsOfLoop, LoopKeepsLine
<1>3. LinedUp => TextsAccounted
  BY LineIsAccounted DEF TextsAccounted
<1> QED
  BY <1>1, <1>2, <1>3, PTL DEF Spec

\* When the loop wakes for a chunk, one goes out, or it is the direct leg that
\* cannot take it: the time it slept was enough for every bucket that pays,
\* whatever else it did in between (wait_duration, send_next_chunk and Bucket
\* in manager.rs).
THEOREM SleepIsLongEnough == Spec => WakesToSend
<1>1. Init => Saving
  BY EachBegins, InitSaving
<1>2. Saving /\ [Next]_vars => Saving'
  BY StepsOfLoop, LoopKeepsSaving
<1>3. Saving /\ [Next]_vars
      => [Loop!SendNextChunk => todo' < todo \/ (route = "direct" /\ ~writable)]_(Loop!vars)
  BY SavingWakes
<1> QED
  BY <1>1, <1>2, <1>3, PTL DEF Spec, WakesToSend, Loop!WakesToSend

\* The first bytes of a connection arrive in order and whole, in two pieces
\* with a pause between them exactly where a proxy needs that, and the relay's
\* reader stops behind the head, for any data and any sizes of the reads and
\* writes (SplitFirstWrite in client.rs, read_head in http.rs).
THEOREM FirstBytesArrive == Spec => []FirstBytesHold
<1>1. Init => FirstBytesKept
  BY EachBegins, InitFirstBytesKept
<1>2. FirstBytesKept /\ [Next]_vars => FirstBytesKept'
  BY StepsOfBytes, BytesKept
<1>3. FirstBytesKept => FirstBytesHold
  BY KeptHolds DEF FirstBytesHold
<1> QED
  BY <1>1, <1>2, <1>3, PTL DEF Spec

\* With the delays and the price of a failure that the code has, the relay
\* refuses an address exactly when its account is overdrawn, though it looks
\* at a table late and sweeps it; and a client that reconnects by itself
\* cannot overdraw it, however often it is refused, accepted and lost again, as
\* long as the user does not start it by hand more often than the quota pays
\* for (note_handshake_failure in relay.rs, Backoff in manager.rs).
THEOREM HonestClientIsAdmitted == RealPace => (Spec => []FailuresCounted)
<1> SUFFICES ASSUME RealPace PROVE Spec => []FailuresCounted
  OBVIOUS
<1>1. Init => Owed /\ Addressed /\ Paced
  BY EachBegins, InitOwed, InitPaced
<1>2. Owed /\ Addressed /\ Paced /\ [Next]_vars => (Owed /\ Addressed /\ Paced)'
  BY StepsOfFront, StepsOfReconnect, OwesOn, KeepsPace
<1>3. Owed /\ Addressed /\ Paced => FailuresCounted
  BY OwedIsExact, PacedIsAllowed DEF FailuresCounted
<1> QED
  BY <1>1, <1>2, <1>3, PTL DEF Spec

\* The process never restarts itself twice within the window (watch_startup,
\* claim_auto_restart and auto_restart_allowed in recovery.rs), whoever else
\* starts it, whether the directory can be written or not, and however the
\* clock is set back.
THEOREM NoRestartLoop == Spec => RestartsApart
<1>1. Init => Stamped
  BY EachBegins, InitStamped
<1>2. Stamped /\ [Next]_vars => Stamped'
  BY StepsOfRecovery, NextKeepsStamped
<1>3. Stamped /\ [Next]_vars => [Restart!AutoRestart => restarted = Window \/ ahead]_(Restart!vars)
  BY StampedForbids
<1> QED
  BY <1>1, <1>2, <1>3, PTL DEF Spec, RestartsApart, Restart!RestartsApart

\* On the Cloudflare relay the two devices of a pair have the truth about each
\* other once everything is delivered, however often they reconnect before the
\* relay knows that they were gone, are refused or replaced, or are taken for
\* stale, and however late their sockets close (fetch, webSocketClose and
\* announceOffline in pair.ts); a third device could be told wrong.
THEOREM PairIsAnnounced == TwoIds => (Spec => []PresenceAgrees)
<1> SUFFICES ASSUME TwoIds PROVE Spec => []PresenceAgrees
  OBVIOUS
<1>1. Init => Announced
  BY EachBegins, InitAnnounced
<1>2. Announced /\ [Next]_vars => Announced'
  BY StepsOfCloudflare, PairAnnounces
<1>3. Announced => PresenceAgrees
  BY AnnouncedAgrees DEF PresenceAgrees
<1> QED
  BY <1>1, <1>2, <1>3, PTL DEF Spec

\* With limits as the code's, where an interval or a repetition and the time
\* under way fit into what the peer waits, the peer sees this cat as it is when
\* it has been left alone for an interval and a latency: pressed for as long as
\* it is pressed, with the pointer where it is (usePairActivity.ts,
\* keepAlive.ts); and it has the presence, active or away, once both are
\* connected, however often either was lost (usePairState.ts).
THEOREM PeerSeesTheCat == RealLimits => (Spec => []PeerSees)
<1> SUFFICES ASSUME RealLimits PROVE Spec => []PeerSees
  OBVIOUS
<1>1. Init => Pulsing /\ PresenceInv
  BY EachBegins, InitPulsing, InitPresence
<1>2. Pulsing /\ PresenceInv /\ [Next]_vars => (Pulsing /\ PresenceInv)'
  BY StepsOfPulse, StepsOfPresence, PulseKeeps, PresenceKeeps
<1>3. Pulsing /\ PresenceInv => PeerSees
  BY PulsingMirrors, InformedKnows DEF PeerSees
<1> QED
  BY <1>1, <1>2, <1>3, PTL DEF Spec

=============================================================================
