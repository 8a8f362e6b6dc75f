-------------------------- MODULE TransferProofs --------------------------
(***************************************************************************)
(* Theorems about Transfer for any messages, chunks, limits and faults:    *)
(* its types and bounds, that a delivered file is whole and a received one *)
(* is there, that nothing but a lost connection leaves a gap, and that     *)
(* without one no transfer waits for a frame that will not come.           *)
(***************************************************************************)
EXTENDS Transfer, SequenceTheorems, FiniteSetTheorems, TLAPS

AnyFrame == [type : Types, id : Ids, seq : Nat]

StatusesOf(d) ==
  IF d = "A" THEN {"absent", "pending", "sent", "delivered", "failed"}
  ELSE {"absent", "pending", "received", "failed"}
PhasesOf(d) ==
  IF d = "A" THEN {"none", "waiting", "sending"} ELSE {"none", "deciding", "receiving"}

-----------------------------------------------------------------------------
(* The inductive invariant: types and bounds                               *)

LinkTypes ==
  /\ conn \in [Devices -> {"off", "backoff", "live"}]
  /\ channel \in BOOLEAN /\ leg \in [Devices -> {"closed", "verified", "dead"}]

AskTypes == asked \in Seq(Ids) /\ tries \in [Msgs -> Nat]

TableTypes ==
  /\ phase \in [Devices -> [Ids -> {"none", "waiting", "sending", "deciding", "receiving"}]]
  /\ \A d \in Devices : phase[d] \in [Ids -> PhasesOf(d)]
  /\ route \in [Ids -> Legs] /\ sent \in [Ids -> Nat] /\ got \in [Ids -> Nat]
  /\ reg \in [Devices -> [Msgs -> Ids \cup {NoId}]]
  /\ status \in [Devices -> [Msgs -> {"absent", "pending", "sent", "delivered", "received", "failed"}]]
  /\ \A d \in Devices : status[d] \in [Msgs -> StatusesOf(d)]
  /\ file \in [Msgs -> BOOLEAN]

HistoryTypes == whole \subseteq Msgs /\ gap \subseteq Ids /\ calm \subseteq Ids /\ faults \in Nat

\* The chunks that B has, that A has sent, and that there are.
Counted == \A t \in Ids : got[t] <= sent[t] /\ sent[t] <= Chunks[Msg(t)]

\* MAX_ACTIVE_TRANSFERS.
Placed == \A d \in Devices : IsFiniteSet(Table(d)) /\ Cardinality(Table(d)) <= Slots[d]

-----------------------------------------------------------------------------
(* The inductive invariant: identifiers and frames                         *)

AskedIds == {asked[i] : i \in DOMAIN asked}

\* The attempts that no session has taken up yet, and the others.
Fresh == {t \in Ids : tries[t[1]] < t[2]} \cup AskedIds
Begun == Ids \ Fresh

\* What can be on its way to each device.  TRANSFER_VERIFIED is only ever sent
\* of a file that B has whole, and a chunk only after A has counted it.
ToA ==
  {f \in AnyFrame : /\ f.type \in {"accept", "reject", "verified", "refused", "cancel"}
                    /\ f.id \in Begun
                    /\ f.type = "verified" => Msg(f.id) \in whole}
ToB ==
  {f \in AnyFrame : /\ f.type \in {"offer", "chunk", "complete", "cancel"}
                    /\ f.id \in Begun
                    /\ f.type = "chunk" => f.seq < sent[f.id]
                    /\ f.type = "offer" => f.seq = 0}

\* The frames of a table of wires are among SA on the way to A, SB on the way to B.
Carries(w, SA, SB) ==
  /\ w \in [Legs -> [Devices -> Seq(AnyFrame)]]
  /\ \A l \in Legs : w[l]["A"] \in Seq(SA) /\ w[l]["B"] \in Seq(SB)
Holds(q, SA, SB) ==
  /\ q \in [Devices -> Seq(AnyFrame)]
  /\ q["A"] \in Seq(SB) /\ q["B"] \in Seq(SA)

Wired == Carries(wire, ToA, ToB) /\ Holds(queue, ToA, ToB)

\* A request is taken up once, and its number has been given out.
AskedOnce ==
  /\ \A i, j \in DOMAIN asked : asked[i] = asked[j] => i = j
  /\ \A i \in DOMAIN asked : asked[i][2] <= tries[asked[i][1]]

\* An attempt that nobody has taken up has left no trace.
Untouched ==
  \A t \in Fresh :
    /\ \A d \in Devices : phase[d][t] = "none"
    /\ sent[t] = 0 /\ got[t] = 0 /\ t \notin calm /\ t \notin gap

\* An offer that was not accepted has sent nothing.
WaitingUnsent == \A t \in Ids : phase["A"][t] = "waiting" => sent[t] = 0

\* A connected session has nothing that waits for a connection.
QueueDrained == \A d \in Devices : conn[d] = "live" => queue[d] = <<>>

TableSound == TableTypes /\ Counted /\ Placed /\ WaitingUnsent /\ ReceivedHasFile
AskSound == AskTypes /\ AskedOnce

Sound ==
  /\ LinkTypes /\ HistoryTypes
  /\ AskSound /\ TableSound
  /\ Wired /\ Untouched /\ QueueDrained /\ DeliveredIsWhole

LEMMA SoundTypes == Sound => TypeOK
<1> SUFFICES ASSUME Sound PROVE TypeOK
  OBVIOUS
<1>1. /\ status["A"] \in [Msgs -> {"absent", "pending", "sent", "delivered", "failed"}]
      /\ status["B"] \in [Msgs -> {"absent", "pending", "received", "failed"}]
  BY DEF Sound, TableSound, TableTypes, StatusesOf, Devices
<1>2. phase \in [Devices -> [Ids -> {"none", "waiting", "sending", "deciding", "receiving"}]]
  BY DEF Sound, TableSound, TableTypes
<1>3. \A d \in Devices : Cardinality(Table(d)) <= Slots[d]
  BY DEF Sound, TableSound, Placed
<1> QED
  BY <1>1, <1>2, <1>3 DEF TypeOK, Sound, LinkTypes, TableSound, TableTypes, Counted

LEMMA InitSound == Init => Sound
<1> SUFFICES ASSUME Init PROVE Sound
  OBVIOUS
<1> USE DEF Init
<1>1. LinkTypes /\ HistoryTypes
  BY DEF LinkTypes, HistoryTypes
<1>2. AskSound
  BY EmptySeq DEF AskTypes, AskSound, AskedOnce
<1>3. TableTypes
  <2>1. phase \in [Devices -> [Ids -> {"none", "waiting", "sending", "deciding", "receiving"}]]
    OBVIOUS
  <2>2. status \in [Devices -> [Msgs -> {"absent", "pending", "sent", "delivered", "received", "failed"}]]
    OBVIOUS
  <2>3. \A d \in Devices : /\ phase[d] \in [Ids -> PhasesOf(d)]
                           /\ status[d] \in [Msgs -> StatusesOf(d)]
    BY DEF PhasesOf, StatusesOf
  <2> QED
    BY <2>1, <2>2, <2>3 DEF TableTypes, Legs, NoId
<1>4. Counted
  BY FileAssumption DEF Counted, Ids, Msg
<1>5. Placed
  <2>1. \A d \in Devices : Table(d) = {}
    BY DEF Table
  <2>2. IsFiniteSet({}) /\ Cardinality({}) = 0
    BY FS_EmptySet
  <2>3. \A d \in Devices : Slots[d] \in Nat
    BY CountAssumption DEF Devices
  <2>4. \A d \in Devices : IsFiniteSet(Table(d)) /\ Cardinality(Table(d)) = 0
    BY <2>1, <2>2
  <2> QED
    BY <2>3, <2>4 DEF Placed
<1>6. Wired
  <2>1. Carries(wire, ToA, ToB)
    BY EmptySeq DEF Carries, Devices
  <2>2. Holds(queue, ToA, ToB)
    BY EmptySeq DEF Holds, Devices
  <2> QED
    BY <2>1, <2>2 DEF Wired
<1>7. Untouched /\ WaitingUnsent /\ QueueDrained
  BY DEF Untouched, Fresh, AskedIds, WaitingUnsent, QueueDrained, Devices, Ids
<1>8. DeliveredIsWhole /\ ReceivedHasFile
  BY DEF DeliveredIsWhole, ReceivedHasFile, Devices
<1> QED
  BY <1>1, <1>2, <1>3, <1>4, <1>5, <1>6, <1>7, <1>8 DEF Sound, TableSound

-----------------------------------------------------------------------------
(* Frames on the wires                                                     *)

\* What a broken connection leaves of a sequence is a sequence of the same.
LEMMA PrefixIsSeq ==
  ASSUME NEW S, NEW s \in Seq(S), NEW t \in Prefixes(s)
  PROVE  t \in Seq(S)
<1>1. PICK n \in 0 .. Len(s) : t = SubSeq(s, 1, n)
  BY DEF Prefixes
<1>2. Len(s) \in Nat
  BY LenProperties
<1>3. \A i \in 1 .. n : s[i] \in S
  BY <1>2, ElementOfSeq
<1> QED
  BY <1>1, <1>2, <1>3, SubSeqProperties

LEMMA TakeFirst ==
  ASSUME NEW S, NEW s \in Seq(S), s # <<>>
  PROVE  Head(s) \in S /\ Tail(s) \in Seq(S)
BY HeadTailProperties

LEMMA OneFrame ==
  ASSUME NEW S, NEW f \in S
  PROVE  <<f>> \in Seq(S)
OBVIOUS

\* More may travel than does.
LEMMA CarriesMore ==
  ASSUME NEW w, NEW SA, NEW SB, NEW TA, NEW TB, SA \subseteq TA, SB \subseteq TB
  PROVE  /\ Carries(w, SA, SB) => Carries(w, TA, TB)
         /\ Holds(w, SA, SB) => Holds(w, TA, TB)
BY SeqMonotonic DEF Carries, Holds

\* A device puts frames that belong there on a leg.
LEMMA PutCarries ==
  ASSUME NEW SA, NEW SB, SA \subseteq AnyFrame, SB \subseteq AnyFrame, Carries(wire, SA, SB),
         NEW l \in Legs, NEW d \in Devices, NEW s \in Seq(IF d = "A" THEN SA ELSE SB)
  PROVE  Carries(Put(l, d, s), SA, SB)
<1>1. CASE l = "direct" /\ ~channel
  BY <1>1 DEF Put
<1>2. CASE ~(l = "direct" /\ ~channel)
  <2> DEFINE w == Put(l, d, s)
  <2>1. w = [wire EXCEPT ![l][d] = @ \o s]
    BY <1>2 DEF Put
  <2>2. wire \in [Legs -> [Devices -> Seq(AnyFrame)]]
    BY DEF Carries
  <2>3. \A k \in Legs, e \in Devices : w[k][e] = IF k = l /\ e = d THEN wire[l][d] \o s ELSE wire[k][e]
    BY <2>1, <2>2
  <2>4. wire[l][d] \o s \in Seq(IF d = "A" THEN SA ELSE SB)
    <3>1. wire[l][d] \in Seq(IF d = "A" THEN SA ELSE SB)
      BY DEF Carries, Devices
    <3> QED
      BY <3>1, ConcatProperties
  <2>5. wire[l][d] \o s \in Seq(AnyFrame)
    BY <2>4, SeqMonotonic
  <2>6. w \in [Legs -> [Devices -> Seq(AnyFrame)]]
    BY <2>1, <2>2, <2>5
  <2>7. \A k \in Legs : w[k]["A"] \in Seq(SA) /\ w[k]["B"] \in Seq(SB)
    BY <2>3, <2>4 DEF Carries, Devices
  <2> QED
    BY <2>6, <2>7 DEF Carries
<1> QED
  BY <1>1, <1>2

\* A device takes the first frame off.
LEMMA TookCarries ==
  ASSUME NEW SA, NEW SB, SA \subseteq AnyFrame, SB \subseteq AnyFrame, Carries(wire, SA, SB),
         NEW l \in Legs, NEW d \in Devices, wire[l][d] # <<>>
  PROVE  /\ Carries(Took(d, l), SA, SB)
         /\ Head(wire[l][d]) \in IF d = "A" THEN SA ELSE SB
<1> DEFINE w == Took(d, l)
<1>1. w = [wire EXCEPT ![l][d] = Tail(@)]
  BY DEF Took
<1>2. wire \in [Legs -> [Devices -> Seq(AnyFrame)]]
  BY DEF Carries
<1>3. \A k \in Legs, e \in Devices : w[k][e] = IF k = l /\ e = d THEN Tail(wire[l][d]) ELSE wire[k][e]
  BY <1>1, <1>2
<1>4. /\ Tail(wire[l][d]) \in Seq(IF d = "A" THEN SA ELSE SB)
      /\ Head(wire[l][d]) \in IF d = "A" THEN SA ELSE SB
  <2>1. wire[l][d] \in Seq(IF d = "A" THEN SA ELSE SB)
    BY DEF Carries, Devices
  <2> QED
    BY <2>1, TakeFirst
<1>5. Tail(wire[l][d]) \in Seq(AnyFrame)
  BY <1>4, SeqMonotonic
<1>6. w \in [Legs -> [Devices -> Seq(AnyFrame)]]
  BY <1>1, <1>2, <1>5
<1>7. \A k \in Legs : w[k]["A"] \in Seq(SA) /\ w[k]["B"] \in Seq(SB)
  BY <1>3, <1>4 DEF Carries, Devices
<1> QED
  BY <1>4, <1>6, <1>7 DEF Carries

\* It takes one off and answers on the same leg.
LEMMA AnswerCarries ==
  ASSUME NEW SA, NEW SB, SA \subseteq AnyFrame, SB \subseteq AnyFrame, Carries(wire, SA, SB),
         NEW l \in Legs, NEW d \in Devices, wire[l][d] # <<>>,
         NEW s \in Seq(IF Other(d) = "A" THEN SA ELSE SB)
  PROVE  Carries(Answer(d, l, s), SA, SB)
<1> DEFINE k == Took(d, l)
<1>1. Carries(k, SA, SB)
  BY TookCarries
<1>2. CASE l = "direct" /\ ~channel
  BY <1>1, <1>2 DEF Answer
<1>3. CASE ~(l = "direct" /\ ~channel)
  <2> DEFINE w == Answer(d, l, s)
             e == Other(d)
  <2>0. e \in Devices
    BY DEF Other, Devices
  <2>1. w = [k EXCEPT ![l][e] = @ \o s]
    BY <1>3 DEF Answer
  <2> HIDE DEF k, w, e
  <2>2. k \in [Legs -> [Devices -> Seq(AnyFrame)]]
    BY <1>1 DEF Carries
  <2>3. \A g \in Legs, f \in Devices : w[g][f] = IF g = l /\ f = e THEN k[l][e] \o s ELSE k[g][f]
    BY <2>0, <2>1, <2>2
  <2>4. k[l][e] \o s \in Seq(IF e = "A" THEN SA ELSE SB)
    <3>1. k[l][e] \in Seq(IF e = "A" THEN SA ELSE SB)
      BY <1>1, <2>0 DEF Carries, Devices
    <3>2. s \in Seq(IF e = "A" THEN SA ELSE SB)
      BY DEF e
    <3> QED
      BY <3>1, <3>2, ConcatProperties
  <2>5. k[l][e] \o s \in Seq(AnyFrame)
    BY <2>4, SeqMonotonic
  <2>6. w \in [Legs -> [Devices -> Seq(AnyFrame)]]
    BY <2>0, <2>1, <2>2, <2>5
  <2>7. \A g \in Legs : w[g]["A"] \in Seq(SA) /\ w[g]["B"] \in Seq(SB)
    BY <1>1, <2>0, <2>3, <2>4 DEF Carries, Devices
  <2>8. Carries(w, SA, SB)
    BY <2>6, <2>7 DEF Carries
  <2> QED
    BY <2>8 DEF w
<1> QED
  BY <1>2, <1>3

-----------------------------------------------------------------------------
(* The tables                                                              *)

\* Sessions leave the tables, and none enters.
Shrinks == \A d \in Devices, t \in Ids : phase'[d][t] \in {phase[d][t], "none"}

\* The same sessions or fewer fit as well.
LEMMA FewerFit ==
  ASSUME Placed, \A d \in Devices : Table(d)' \subseteq Table(d)
  PROVE  Placed'
<1> SUFFICES ASSUME NEW d \in Devices
             PROVE  IsFiniteSet(Table(d)') /\ Cardinality(Table(d)') <= Slots[d]
  BY DEF Placed, Table
<1>1. Table(d)' \subseteq Table(d)
  OBVIOUS
<1>2. IsFiniteSet(Table(d)) /\ Cardinality(Table(d)) <= Slots[d] /\ Slots[d] \in Nat
  BY CountAssumption DEF Placed, Devices
<1>3. IsFiniteSet(Table(d)') /\ Cardinality(Table(d)') <= Cardinality(Table(d))
  BY <1>1, <1>2, FS_Subset
<1>4. Cardinality(Table(d)') \in Nat /\ Cardinality(Table(d)) \in Nat
  BY <1>2, <1>3, FS_CardinalityType
<1> QED
  BY <1>2, <1>3, <1>4

LEMMA ShrinksFit ==
  ASSUME Placed, Shrinks
  PROVE  Placed'
<1>1. \A d \in Devices : Table(d)' \subseteq Table(d)
  BY DEF Shrinks, Table
<1> QED
  BY <1>1, FewerFit

\* One more fits when there is a place for it.
LEMMA PlacedOneMore ==
  ASSUME Placed, NEW d \in Devices, HasPlace(d), NEW t \in Ids,
         \A e \in Devices : Table(e)' \subseteq Table(e) \cup (IF e = d THEN {t} ELSE {})
  PROVE  Placed'
<1> SUFFICES ASSUME NEW e \in Devices
             PROVE  IsFiniteSet(Table(e)') /\ Cardinality(Table(e)') <= Slots[e]
  BY DEF Placed, Table
<1>1. IsFiniteSet(Table(e)) /\ Cardinality(Table(e)) <= Slots[e] /\ Slots[e] \in Nat
  BY CountAssumption DEF Placed, Devices
<1>2. Cardinality(Table(e)) \in Nat
  BY <1>1, FS_CardinalityType
<1>3. CASE e # d
  <2>1. IsFiniteSet(Table(e)') /\ Cardinality(Table(e)') <= Cardinality(Table(e))
    BY <1>1, <1>3, FS_Subset
  <2>2. Cardinality(Table(e)') \in Nat
    BY <2>1, FS_CardinalityType
  <2> QED
    BY <1>1, <1>2, <2>1, <2>2
<1>4. CASE e = d
  <2>1. /\ IsFiniteSet(Table(e) \cup {t})
        /\ Cardinality(Table(e) \cup {t}) = IF t \in Table(e) THEN Cardinality(Table(e)) ELSE Cardinality(Table(e)) + 1
    BY <1>1, FS_AddElement
  <2>2. Cardinality(Table(e)) < Slots[e]
    BY <1>4 DEF HasPlace
  <2>3. Cardinality(Table(e) \cup {t}) <= Slots[e] /\ Cardinality(Table(e) \cup {t}) \in Nat
    BY <1>1, <1>2, <2>1, <2>2
  <2>4. IsFiniteSet(Table(e)') /\ Cardinality(Table(e)') <= Cardinality(Table(e) \cup {t})
    <3>1. Table(e)' \subseteq Table(e) \cup {t}
      BY <1>4
    <3> QED
      BY <2>1, <3>1, FS_Subset
  <2>5. Cardinality(Table(e)') \in Nat
    BY <2>4, FS_CardinalityType
  <2> QED
    BY <1>1, <2>3, <2>4, <2>5
<1> QED
  BY <1>3, <1>4

\* What Close does, entry by entry.
Closed(d, T, r) ==
  /\ phase' \in [Devices -> [Ids -> {"none", "waiting", "sending", "deciding", "receiving"}]]
  /\ \A e \in Devices, t \in Ids : phase'[e][t] = IF e = d /\ t \in T THEN "none" ELSE phase[e][t]
  /\ reg' \in [Devices -> [Msgs -> Ids \cup {NoId}]]
  /\ status' \in [Devices -> [Msgs -> {"absent", "pending", "sent", "delivered", "received", "failed"}]]
  /\ \A e \in Devices, m \in Msgs :
       status'[e][m] = IF e = d /\ m \in {Msg(t) : t \in T} THEN r ELSE status[e][m]
  /\ file' \in [Msgs -> BOOLEAN]
  /\ \A m \in Msgs : file[m] /\ ~(d = "B" /\ m \in {Msg(t) : t \in T}) => file'[m]

LEMMA CloseEffect ==
  ASSUME TableTypes, NEW d \in Devices, NEW T \in SUBSET Ids, NEW r \in StatusesOf(d), Close(d, T, r)
  PROVE  Closed(d, T, r)
<1> DEFINE M == {Msg(t) : t \in T}
           P == {Msg(t) : t \in {u \in T : phase[d][u] = "receiving"}}
           np == [t \in Ids |-> IF t \in T THEN "none" ELSE phase[d][t]]
           nr == [m \in Msgs |-> IF m \in M THEN NoId ELSE reg[d][m]]
           ns == [m \in Msgs |-> IF m \in M THEN r ELSE status[d][m]]
<1>1. /\ phase' = [phase EXCEPT ![d] = np]
      /\ reg' = [reg EXCEPT ![d] = nr]
      /\ status' = [status EXCEPT ![d] = ns]
      /\ file' = [m \in Msgs |-> file[m] /\ ~(d = "B" /\ m \in P)]
  BY DEF Close
<1>2. P \subseteq M
  OBVIOUS
<1>3. np \in [Ids -> {"none", "waiting", "sending", "deciding", "receiving"}]
  BY DEF TableTypes
<1>4. nr \in [Msgs -> Ids \cup {NoId}]
  BY DEF TableTypes
<1>5. ns \in [Msgs -> {"absent", "pending", "sent", "delivered", "received", "failed"}]
  BY DEF TableTypes, StatusesOf
<1>6. file' \in [Msgs -> BOOLEAN] /\ \A m \in Msgs : file[m] /\ ~(d = "B" /\ m \in M) => file'[m]
  BY <1>1, <1>2 DEF TableTypes
<1>7. \A e \in Devices, t \in Ids : phase'[e][t] = IF e = d /\ t \in T THEN "none" ELSE phase[e][t]
  <2> HIDE DEF M, P, nr, ns
  <2> QED
    BY <1>1 DEF TableTypes
<1>8. \A e \in Devices, m \in Msgs : status'[e][m] = IF e = d /\ m \in M THEN r ELSE status[e][m]
  <2> HIDE DEF M, P, nr, np
  <2> QED
    BY <1>1 DEF TableTypes
<1> HIDE DEF np, nr, ns
<1> QED
  BY <1>1, <1>3, <1>4, <1>5, <1>6, <1>7, <1>8 DEF TableTypes, Closed

\* The sessions of a device that leave its table leave it sound.
LEMMA CloseKeepsTables ==
  ASSUME TableSound, NEW d \in Devices, NEW T \in SUBSET Ids, NEW r \in StatusesOf(d), r # "received",
         Close(d, T, r), UNCHANGED <<route, sent, got>>
  PROVE  TableSound' /\ Shrinks
<1>0. TableTypes /\ Counted /\ Placed /\ WaitingUnsent /\ ReceivedHasFile
  BY DEF TableSound
<1>a. Closed(d, T, r)
  BY <1>0, CloseEffect
<1>1. Shrinks
  BY <1>a DEF Closed, Shrinks
<1>2. TableTypes'
  <2>1. ASSUME NEW e \in Devices
        PROVE  phase'[e] \in [Ids -> PhasesOf(e)] /\ status'[e] \in [Msgs -> StatusesOf(e)]
    <3>1. \A t \in Ids : phase[e][t] \in PhasesOf(e) /\ "none" \in PhasesOf(e)
      BY <1>0 DEF TableTypes, PhasesOf
    <3>2. \A m \in Msgs : status[e][m] \in StatusesOf(e)
      BY <1>0 DEF TableTypes
    <3>3. \A t \in Ids : phase'[e][t] \in PhasesOf(e)
      BY <1>a, <3>1 DEF Closed
    <3>4. \A m \in Msgs : status'[e][m] \in StatusesOf(e)
      BY <1>a, <3>2 DEF Closed
    <3> QED
      BY <1>a, <3>3, <3>4 DEF Closed
  <2> QED
    BY <1>0, <1>a, <2>1 DEF TableTypes, Closed
<1>3. Placed'
  BY <1>0, <1>1, ShrinksFit
<1>4. Counted'
  BY <1>0 DEF Counted
<1>5. WaitingUnsent'
  BY <1>0, <1>1 DEF Shrinks, WaitingUnsent, Devices
<1>6. ReceivedHasFile'
  <2> SUFFICES ASSUME NEW m \in Msgs, status'["B"][m] = "received" PROVE file'[m]
    BY DEF ReceivedHasFile
  <2>1. status["B"][m] = "received" /\ ~(d = "B" /\ m \in {Msg(t) : t \in T})
    BY <1>a DEF Closed, Devices
  <2>2. file[m]
    BY <1>0, <2>1 DEF ReceivedHasFile
  <2> QED
    BY <1>a, <2>1, <2>2 DEF Closed
<1> QED
  BY <1>1, <1>2, <1>3, <1>4, <1>5, <1>6 DEF TableSound

LEMMA CloseOneKeepsTables ==
  ASSUME TableSound, NEW d \in Devices, NEW t \in Ids, NEW r \in StatusesOf(d), r # "received",
         CloseOne(d, t, r), UNCHANGED <<route, sent, got>>
  PROVE  TableSound' /\ Shrinks
<1>1. CASE phase[d][t] = "none"
  <2>1. UNCHANGED <<phase, route, sent, got, reg, status, file>>
    BY <1>1 DEF CloseOne
  <2>2. Table(d)' = Table(d)
    BY <2>1 DEF Table
  <2> QED
    BY <2>1 DEF TableSound, TableTypes, Counted, Placed, Table, WaitingUnsent, ReceivedHasFile, Shrinks
<1>2. CASE phase[d][t] # "none"
  <2>1. Close(d, {t}, r)
    BY <1>2 DEF CloseOne
  <2> QED
    BY <2>1, CloseKeepsTables
<1> QED
  BY <1>1, <1>2

LEMMA SameTables ==
  ASSUME TableSound, UNCHANGED tables
  PROVE  TableSound' /\ Shrinks
BY DEF tables, TableSound, TableTypes, Counted, Placed, Table, WaitingUnsent, ReceivedHasFile, Shrinks

\* A session that goes on in another phase.
LEMMA PhaseOn ==
  ASSUME TableSound, NEW d \in Devices, NEW t \in Ids, phase[d][t] # "none",
         NEW p \in PhasesOf(d), p # "waiting", phase' = [phase EXCEPT ![d][t] = p],
         UNCHANGED <<route, sent, got, reg, status, file>>
  PROVE  TableSound' /\ \A e \in Devices, u \in Ids : u # t => phase'[e][u] = phase[e][u]
<1>1. TableTypes /\ Counted /\ Placed /\ WaitingUnsent /\ ReceivedHasFile
  BY DEF TableSound
<1>2. p \in {"none", "waiting", "sending", "deciding", "receiving"}
  BY DEF PhasesOf
<1>3. \A e \in Devices, u \in Ids : phase'[e][u] = IF e = d /\ u = t THEN p ELSE phase[e][u]
  BY <1>1 DEF TableTypes
<1>4. TableTypes'
  <2>1. phase' \in [Devices -> [Ids -> {"none", "waiting", "sending", "deciding", "receiving"}]]
    BY <1>1, <1>2 DEF TableTypes
  <2>2. ASSUME NEW e \in Devices PROVE phase'[e] \in [Ids -> PhasesOf(e)]
    BY <1>1, <1>3, <2>1 DEF TableTypes
  <2> QED
    BY <1>1, <2>1, <2>2 DEF TableTypes
<1>5. Placed'
  <2>1. \A e \in Devices : Table(e)' \subseteq Table(e)
    BY <1>3 DEF Table
  <2> QED
    BY <1>1, <2>1, FewerFit
<1>6. Counted' /\ ReceivedHasFile' /\ WaitingUnsent'
  BY <1>1, <1>3 DEF Counted, ReceivedHasFile, WaitingUnsent, Devices
<1> QED
  BY <1>3, <1>4, <1>5, <1>6 DEF TableSound

\* A new session in the table of d, where its message gets another status.
Enters(d, t, p, r, l) ==
  /\ phase' = [phase EXCEPT ![d][t] = p]
  /\ route' = [route EXCEPT ![t] = l]
  /\ reg' = [reg EXCEPT ![d][Msg(t)] = t]
  /\ status' = [status EXCEPT ![d][Msg(t)] = r]
  /\ file' \in {file, [file EXCEPT ![Msg(t)] = FALSE]} /\ (d = "A" => file' = file)
  /\ UNCHANGED <<sent, got>>

LEMMA EnterTable ==
  ASSUME TableSound, NEW d \in Devices, NEW t \in Ids, HasPlace(d),
         NEW p \in PhasesOf(d), p = "waiting" => sent[t] = 0,
         NEW r \in StatusesOf(d), r # "received", NEW l \in Legs, Enters(d, t, p, r, l)
  PROVE  /\ TableSound'
         /\ \A e \in Devices, u \in Ids : u # t => phase'[e][u] = phase[e][u]
         /\ \A m \in Msgs : status'["A"][m] \in {r, status["A"][m]}
<1> USE DEF Enters
<1>1. TableTypes /\ Counted /\ Placed /\ WaitingUnsent /\ ReceivedHasFile
  BY DEF TableSound
<1>2. /\ p \in {"none", "waiting", "sending", "deciding", "receiving"}
      /\ r \in {"absent", "pending", "sent", "delivered", "received", "failed"}
      /\ Msg(t) \in Msgs
  BY DEF PhasesOf, StatusesOf, Msg, Ids
<1>3. \A e \in Devices, u \in Ids : phase'[e][u] = IF e = d /\ u = t THEN p ELSE phase[e][u]
  BY <1>1 DEF TableTypes
<1>4. \A e \in Devices, m \in Msgs : status'[e][m] = IF e = d /\ m = Msg(t) THEN r ELSE status[e][m]
  BY <1>1, <1>2 DEF TableTypes
<1>5. TableTypes'
  <2>1. phase' \in [Devices -> [Ids -> {"none", "waiting", "sending", "deciding", "receiving"}]]
    BY <1>1, <1>2 DEF TableTypes
  <2>2. status' \in [Devices -> [Msgs -> {"absent", "pending", "sent", "delivered", "received", "failed"}]]
    BY <1>1, <1>2 DEF TableTypes
  <2>3. ASSUME NEW e \in Devices PROVE phase'[e] \in [Ids -> PhasesOf(e)]
    BY <1>1, <1>3, <2>1 DEF TableTypes
  <2>4. ASSUME NEW e \in Devices PROVE status'[e] \in [Msgs -> StatusesOf(e)]
    BY <1>1, <1>4, <2>2 DEF TableTypes
  <2>5. reg' \in [Devices -> [Msgs -> Ids \cup {NoId}]]
    BY <1>1, <1>2 DEF TableTypes
  <2>6. file' \in [Msgs -> BOOLEAN]
    BY <1>1 DEF TableTypes
  <2>7. route' \in [Ids -> Legs] /\ sent' \in [Ids -> Nat] /\ got' \in [Ids -> Nat]
    BY <1>1 DEF TableTypes
  <2> QED
    BY <2>1, <2>2, <2>3, <2>4, <2>5, <2>6, <2>7 DEF TableTypes
<1>6. Placed'
  <2>1. \A e \in Devices : Table(e)' \subseteq Table(e) \cup (IF e = d THEN {t} ELSE {})
    BY <1>3 DEF Table
  <2> QED
    BY <1>1, <2>1, PlacedOneMore
<1>7. Counted'
  BY <1>1 DEF Counted
<1>8. WaitingUnsent'
  BY <1>1, <1>3 DEF WaitingUnsent, Devices
<1>9. ReceivedHasFile'
  <2> SUFFICES ASSUME NEW m \in Msgs, status'["B"][m] = "received" PROVE file'[m]
    BY DEF ReceivedHasFile
  <2>1. status["B"][m] = "received" /\ ~(d = "B" /\ m = Msg(t))
    BY <1>4 DEF Devices
  <2>2. file[m]
    BY <1>1, <2>1 DEF ReceivedHasFile
  <2> QED
    BY <1>1, <2>1, <2>2 DEF TableTypes, Devices
<1>10. \A m \in Msgs : status'["A"][m] \in {r, status["A"][m]}
  BY <1>4 DEF Devices
<1> QED
  BY <1>3, <1>5, <1>6, <1>7, <1>8, <1>9, <1>10 DEF TableSound

-----------------------------------------------------------------------------
(* What a step must do to keep it all                                      *)

\* Attempts are taken up, chunks are sent and files become whole for good.
Grows ==
  /\ Fresh' \subseteq Fresh
  /\ whole \subseteq whole'
  /\ \A t \in Ids : sent[t] <= sent'[t]

\* Nothing happens to an attempt that has not been taken up.
Spares ==
  \A t \in Fresh' :
    /\ \A d \in Devices : phase'[d][t] \in {phase[d][t], "none"}
    /\ sent'[t] = sent[t] /\ got'[t] = got[t]
    /\ t \in calm' => t \in calm
    /\ t \in gap' => t \in gap

LEMMA ToAreFrames == /\ ToA \subseteq AnyFrame /\ ToB \subseteq AnyFrame
                     /\ ToA' \subseteq AnyFrame /\ ToB' \subseteq AnyFrame
BY DEF ToA, ToB

\* Then every frame that may be on its way may still be.
LEMMA FramesStay ==
  ASSUME Sound, Grows, sent' \in [Ids -> Nat]
  PROVE  ToA \subseteq ToA' /\ ToB \subseteq ToB'
<1>1. Begun \subseteq Begun'
  BY DEF Grows, Begun
<1>2. ToA \subseteq ToA'
  BY <1>1 DEF Grows, ToA
<1>3. ToB \subseteq ToB'
  <2>1. sent \in [Ids -> Nat]
    BY DEF Sound, TableSound, TableTypes
  <2> SUFFICES ASSUME NEW f \in ToB PROVE f \in ToB'
    OBVIOUS
  <2>2. f \in AnyFrame /\ f.type \in {"offer", "chunk", "complete", "cancel"} /\ f.id \in Begun'
    BY <1>1 DEF ToB
  <2>3. f.id \in Ids /\ f.seq \in Nat
    BY <2>2 DEF AnyFrame
  <2>4. f.type = "chunk" => f.seq < sent'[f.id]
    <3>1. f.type = "chunk" => f.seq < sent[f.id]
      BY DEF ToB
    <3> QED
      BY <2>1, <2>3, <3>1 DEF Grows
  <2> QED
    BY <2>2, <2>4 DEF ToB
<1> QED
  BY <1>2, <1>3

LEMMA StepKeepsSound ==
  ASSUME Sound, LinkTypes', HistoryTypes', AskSound', TableSound', Grows, Spares,
         Carries(wire', ToA', ToB'), Holds(queue', ToA', ToB'), QueueDrained', DeliveredIsWhole'
  PROVE  Sound'
<1>1. Untouched'
  <2> SUFFICES ASSUME NEW t \in Fresh'
               PROVE  /\ \A d \in Devices : phase'[d][t] = "none"
                      /\ sent'[t] = 0 /\ got'[t] = 0 /\ t \notin calm' /\ t \notin gap'
    BY DEF Untouched
  <2>1. t \in Fresh
    BY DEF Grows
  <2> QED
    BY <2>1 DEF Sound, Untouched, Spares
<1>2. Wired'
  BY DEF Wired
<1> QED
  BY <1>1, <1>2 DEF Sound

LEMMA SameAsks ==
  ASSUME AskSound, UNCHANGED <<asked, tries>>
  PROVE  AskSound' /\ Fresh' = Fresh
BY DEF AskSound, AskTypes, AskedOnce, Fresh, AskedIds

\* Steps that take up no attempt, send no chunk and store no file.
LEMMA PlainStep ==
  ASSUME Sound, UNCHANGED <<asked, tries, sent, got, whole>>,
         LinkTypes', TableSound', faults' \in Nat, calm' \subseteq calm, gap' \subseteq gap \cup Begun,
         \A t \in Fresh, d \in Devices : phase'[d][t] = "none",
         Carries(wire', ToA, ToB), Holds(queue', ToA, ToB), QueueDrained',
         \A m \in Msgs : status'["A"][m] = "delivered" => m \in whole
  PROVE  Sound'
<1>1. AskSound' /\ Fresh' = Fresh
  BY SameAsks DEF Sound
<1>2. ToA' = ToA /\ ToB' = ToB
  BY <1>1 DEF ToA, ToB, Begun
<1>3. HistoryTypes'
  BY DEF Sound, HistoryTypes, Begun
<1>4. sent \in [Ids -> Nat]
  BY DEF Sound, TableSound, TableTypes
<1>5. Grows
  BY <1>1, <1>4 DEF Grows
<1>6. Spares
  BY <1>1 DEF Spares, Begun
<1>7. DeliveredIsWhole'
  BY DEF DeliveredIsWhole
<1> QED
  BY <1>1, <1>2, <1>3, <1>5, <1>6, <1>7, StepKeepsSound

\* ... and from whose tables sessions only leave.
LEMMA PlainShrink ==
  ASSUME Sound, UNCHANGED <<asked, tries, sent, got, whole>>,
         LinkTypes', TableSound', Shrinks, faults' \in Nat, calm' \subseteq calm, gap' \subseteq gap \cup Begun,
         Carries(wire', ToA, ToB), Holds(queue', ToA, ToB), QueueDrained',
         \A m \in Msgs : status'["A"][m] = "delivered" => m \in whole
  PROVE  Sound'
<1>1. \A t \in Fresh, d \in Devices : t \in Ids /\ phase[d][t] = "none"
  BY DEF Sound, AskSound, AskTypes, Untouched, Fresh, AskedIds
<1>2. \A t \in Fresh, d \in Devices : phase'[d][t] = "none"
  BY <1>1 DEF Shrinks
<1> QED
  BY <1>2, PlainStep

\* ... and that leave the tables and the history as they are.
LEMMA PlainMove ==
  ASSUME Sound, UNCHANGED <<asked, tries, tables, whole, gap>>, calm' \subseteq calm, faults' \in Nat,
         LinkTypes', Carries(wire', ToA, ToB), Holds(queue', ToA, ToB), QueueDrained'
  PROVE  Sound'
<1>1. TableSound' /\ Shrinks
  BY SameTables DEF Sound
<1>2. \A m \in Msgs : status'["A"][m] = "delivered" => m \in whole
  BY DEF Sound, DeliveredIsWhole, tables
<1>3. UNCHANGED <<sent, got>>
  BY DEF tables
<1> QED
  BY <1>1, <1>2, <1>3, PlainShrink

-----------------------------------------------------------------------------
(* The direct leg and the sessions                                         *)

\* Whoever closes without success marks nothing as delivered.
LEMMA CloseDeliversNothing ==
  ASSUME TableSound, DeliveredIsWhole, NEW d \in Devices, NEW T \in SUBSET Ids, Close(d, T, "failed")
  PROVE  \A m \in Msgs : status'["A"][m] = "delivered" => m \in whole
<1>1. Closed(d, T, "failed")
  BY CloseEffect DEF TableSound, StatusesOf
<1> QED
  BY <1>1 DEF Closed, DeliveredIsWhole, Devices

\* A cancel belongs on every wire once its attempt has been taken up.
LEMMA CancelsTravel ==
  ASSUME Sound, NEW T \in SUBSET Begun, IsFiniteSet(T), NEW order \in Orders(T)
  PROVE  /\ [i \in DOMAIN order |-> Frame("cancel", order[i], 0)] \in Seq(ToA)
         /\ [i \in DOMAIN order |-> Frame("cancel", order[i], 0)] \in Seq(ToB)
<1>1. Cardinality(T) \in Nat
  BY FS_CardinalityType
<1>2. order \in [1 .. Cardinality(T) -> T]
  BY DEF Orders
<1>3. \A t \in T : Frame("cancel", t, 0) \in ToA /\ Frame("cancel", t, 0) \in ToB
  BY DEF Frame, ToA, ToB, AnyFrame, Types, Begun
<1>4. /\ [i \in DOMAIN order |-> Frame("cancel", order[i], 0)] \in [1 .. Cardinality(T) -> ToA]
      /\ [i \in DOMAIN order |-> Frame("cancel", order[i], 0)] \in [1 .. Cardinality(T) -> ToB]
  BY <1>2, <1>3
<1> QED
  BY <1>1, <1>4, SeqDef

\* The sessions in a table belong to attempts that were taken up.
LEMMA TableBegun ==
  ASSUME Sound, NEW d \in Devices, NEW t \in Ids, phase[d][t] # "none"
  PROVE  t \in Begun
BY DEF Sound, Untouched, Begun

LEMMA DirectLostMoves ==
  ASSUME Sound, NEW d \in Devices, DirectLost(d)
  PROVE  /\ TableSound' /\ Shrinks /\ UNCHANGED <<sent, got>>
         /\ Carries(wire', ToA, ToB)
         /\ \A m \in Msgs : status'["A"][m] = "delivered" => m \in whole
<1> DEFINE T == {t \in Table(d) : route[t] = "direct"}
<1>1. Close(d, T, "failed") /\ UNCHANGED <<route, sent, got>>
  BY DEF DirectLost
<1>2. T \in SUBSET Ids /\ T \in SUBSET Begun
  BY TableBegun DEF Table
<1>3. IsFiniteSet(T)
  <2>1. IsFiniteSet(Table(d)) /\ T \subseteq Table(d)
    BY DEF Sound, TableSound, Placed
  <2> QED
    BY <2>1, FS_Subset
<1>4. PICK order \in Orders(T) :
        wire' = [wire EXCEPT !["relay"][Other(d)] =
                   @ \o [i \in DOMAIN order |-> Frame("cancel", order[i], 0)]]
  BY DEF DirectLost
<1> DEFINE s == [i \in DOMAIN order |-> Frame("cancel", order[i], 0)]
<1>5. s \in Seq(ToA) /\ s \in Seq(ToB)
  BY <1>2, <1>3, CancelsTravel
<1>6. wire' = Put("relay", Other(d), s)
  BY <1>4 DEF Put
<1> HIDE DEF T, s
<1>7. Carries(wire', ToA, ToB)
  <2>1. Other(d) \in Devices /\ "relay" \in Legs
    BY DEF Other, Devices, Legs
  <2> QED
    BY <1>5, <1>6, <2>1, PutCarries, ToAreFrames DEF Sound, Wired
<1>8. "failed" \in StatusesOf(d) /\ "failed" # "received"
  BY DEF StatusesOf
<1> QED
  BY <1>1, <1>2, <1>7, <1>8, CloseKeepsTables, CloseDeliversNothing DEF Sound

\* The channel, the leg and the connection.
LEMMA LegStepsKeepSound ==
  ASSUME Sound
  PROVE  /\ OpenChannel => Sound'
         /\ Break => Sound'
         /\ \A d \in Devices : Verify(d) \/ LegLost(d) \/ ProbeTimeout(d) => Sound'
<1>a. /\ Carries(wire, ToA, ToB) /\ Holds(queue, ToA, ToB) /\ faults \in Nat
      /\ LinkTypes /\ QueueDrained
  BY DEF Sound, Wired, HistoryTypes
<1>1. ASSUME OpenChannel PROVE Sound'
  <2>1. /\ channel' = TRUE
        /\ UNCHANGED <<conn, leg, wire, queue, asked, tries, tables, history, faults>>
    BY <1>1 DEF OpenChannel
  <2>2. LinkTypes' /\ QueueDrained'
    BY <1>a, <2>1 DEF LinkTypes, QueueDrained
  <2> QED
    BY <1>a, <2>1, <2>2, PlainMove DEF history
<1>2. ASSUME Break PROVE Sound'
  <2>1. /\ channel' = FALSE /\ faults' = faults + 1
        /\ UNCHANGED <<conn, leg, queue, asked, tries, tables, history>>
    BY <1>2 DEF Break, Fault
  <2>2. PICK toA \in Prefixes(wire["direct"]["A"]), toB \in Prefixes(wire["direct"]["B"]) :
          wire' = [wire EXCEPT !["direct"]["A"] = toA, !["direct"]["B"] = toB]
    BY <1>2 DEF Break
  <2>3. toA \in Seq(ToA) /\ toB \in Seq(ToB)
    BY <1>a, PrefixIsSeq DEF Carries, Legs
  <2>4. toA \in Seq(AnyFrame) /\ toB \in Seq(AnyFrame)
    BY <2>3, ToAreFrames, SeqMonotonic
  <2>5. Carries(wire', ToA, ToB)
    BY <1>a, <2>2, <2>3, <2>4 DEF Carries, Legs, Devices
  <2>6. LinkTypes' /\ QueueDrained'
    BY <1>a, <2>1 DEF LinkTypes, QueueDrained
  <2>7. faults' \in Nat
    BY <1>a, <2>1
  <2> QED
    BY <1>a, <2>1, <2>5, <2>6, <2>7, PlainMove DEF history
<1>3. ASSUME NEW d \in Devices, Verify(d) PROVE Sound'
  <2>1. /\ leg' = [leg EXCEPT ![d] = "verified"]
        /\ UNCHANGED <<conn, channel, wire, queue, asked, tries, tables, history, faults>>
    BY <1>3 DEF Verify
  <2>2. LinkTypes' /\ QueueDrained'
    BY <1>a, <2>1 DEF LinkTypes, QueueDrained
  <2> QED
    BY <1>a, <2>1, <2>2, PlainMove DEF history
<1>4. ASSUME NEW d \in Devices, LegLost(d) PROVE Sound'
  <2>1. /\ leg' = [leg EXCEPT ![d] = "closed"] /\ DirectLost(d)
        /\ UNCHANGED <<conn, channel, queue, asked, tries, history, faults>>
    BY <1>4 DEF LegLost
  <2>2. LinkTypes' /\ QueueDrained'
    BY <1>a, <2>1 DEF LinkTypes, QueueDrained
  <2> QED
    BY <1>a, <2>1, <2>2, DirectLostMoves, PlainShrink DEF history
<1>5. ASSUME NEW d \in Devices, ProbeTimeout(d) PROVE Sound'
  <2>1. /\ leg' = [leg EXCEPT ![d] = "dead"] /\ DirectLost(d) /\ faults' = faults + 1
        /\ calm' \subseteq calm
        /\ UNCHANGED <<conn, channel, queue, asked, tries, whole, gap>>
    BY <1>5 DEF ProbeTimeout, Fault
  <2>2. LinkTypes' /\ QueueDrained' /\ faults' \in Nat
    BY <1>a, <2>1 DEF LinkTypes, QueueDrained
  <2> QED
    BY <1>a, <2>1, <2>2, DirectLostMoves, PlainShrink
<1> QED
  BY <1>1, <1>2, <1>3, <1>4, <1>5

\* What is left of the wires when the connection of d ends.
LEMMA HangupCuts ==
  ASSUME Sound, NEW d \in Devices, NEW to \in {"off", "backoff"},
         NEW left \in Prefixes(wire["relay"][Other(d)]), Hangup(d, to, left)
  PROVE  Carries(wire', ToA, ToB) /\ LinkTypes' /\ calm' = {} /\ conn' = [conn EXCEPT ![d] = to]
<1>a. Carries(wire, ToA, ToB) /\ LinkTypes
  BY DEF Sound, Wired
<1>1. PICK direct \in Prefixes(wire["direct"][Other(d)]) :
        wire' = [wire EXCEPT !["relay"][Other(d)] = left,
                             !["direct"][Other(d)] = direct, !["direct"][d] = <<>>]
  BY DEF Hangup
<1>2. LinkTypes' /\ calm' = {} /\ conn' = [conn EXCEPT ![d] = to]
  BY <1>a DEF Hangup, LinkTypes
<1>3. CASE d = "A"
  <2>1. Other(d) = "B"
    BY <1>3 DEF Other
  <2>2. left \in Seq(ToB) /\ direct \in Seq(ToB)
    BY <1>a, <2>1, PrefixIsSeq DEF Carries, Legs
  <2>3. left \in Seq(AnyFrame) /\ direct \in Seq(AnyFrame) /\ <<>> \in Seq(AnyFrame) /\ <<>> \in Seq(ToA)
    BY <2>2, ToAreFrames, SeqMonotonic, EmptySeq
  <2>4. wire' = [wire EXCEPT !["relay"]["B"] = left, !["direct"]["B"] = direct, !["direct"]["A"] = <<>>]
    BY <1>1, <1>3, <2>1
  <2>5. Carries(wire', ToA, ToB)
    BY <1>a, <2>2, <2>3, <2>4 DEF Carries, Legs, Devices
  <2> QED
    BY <1>2, <2>5
<1>4. CASE d = "B"
  <2>1. Other(d) = "A"
    BY <1>4 DEF Other
  <2>2. left \in Seq(ToA) /\ direct \in Seq(ToA)
    BY <1>a, <2>1, PrefixIsSeq DEF Carries, Legs
  <2>3. left \in Seq(AnyFrame) /\ direct \in Seq(AnyFrame) /\ <<>> \in Seq(AnyFrame) /\ <<>> \in Seq(ToB)
    BY <2>2, ToAreFrames, SeqMonotonic, EmptySeq
  <2>4. wire' = [wire EXCEPT !["relay"]["A"] = left, !["direct"]["A"] = direct, !["direct"]["B"] = <<>>]
    BY <1>1, <1>4, <2>1
  <2>5. Carries(wire', ToA, ToB)
    BY <1>a, <2>2, <2>3, <2>4 DEF Carries, Legs, Devices
  <2> QED
    BY <1>2, <2>5
<1> QED
  BY <1>3, <1>4 DEF Devices

\* All sessions of d end, and nothing else changes in the tables.
LEMMA CloseAllMoves ==
  ASSUME Sound, NEW d \in Devices, Close(d, Table(d), "failed"), UNCHANGED <<route, sent, got>>
  PROVE  /\ TableSound' /\ Shrinks
         /\ \A m \in Msgs : status'["A"][m] = "delivered" => m \in whole
<1>1. Table(d) \in SUBSET Ids /\ "failed" \in StatusesOf(d) /\ "failed" # "received"
  BY DEF Table, StatusesOf
<1> QED
  BY <1>1, CloseKeepsTables, CloseDeliversNothing DEF Sound

\* A lost request is no longer in A's channel, and never comes back.
LEMMA AsksEnd ==
  ASSUME AskSound, asked' \in {asked, <<>>}, UNCHANGED tries
  PROVE  AskSound' /\ Fresh' \subseteq Fresh
<1>1. CASE asked' = asked
  BY <1>1, SameAsks
<1>2. CASE asked' = <<>>
  BY <1>2, EmptySeq DEF AskSound, AskTypes, AskedOnce, Fresh, AskedIds
<1> QED
  BY <1>1, <1>2

\* The steps that take commands and queue from a session.
LEMMA SessionEndsSound ==
  ASSUME Sound, asked' \in {asked, <<>>}, UNCHANGED <<tries, sent, got, whole, gap>>,
         LinkTypes', TableSound', Shrinks, faults' \in Nat, calm' \subseteq calm,
         Carries(wire', ToA, ToB), Holds(queue', ToA, ToB), QueueDrained',
         \A m \in Msgs : status'["A"][m] = "delivered" => m \in whole
  PROVE  Sound'
<1>1. AskSound' /\ Fresh' \subseteq Fresh
  BY AsksEnd DEF Sound
<1>2. sent \in [Ids -> Nat]
  BY DEF Sound, TableSound, TableTypes
<1>3. Grows
  BY <1>1, <1>2 DEF Grows
<1>4. ToA \subseteq ToA' /\ ToB \subseteq ToB'
  BY <1>2, <1>3, FramesStay
<1>5. Carries(wire', ToA', ToB') /\ Holds(queue', ToA', ToB')
  BY <1>4, CarriesMore
<1>6. HistoryTypes'
  BY DEF Sound, HistoryTypes
<1>7. Spares
  <2>1. Fresh' \subseteq Ids
    BY <1>1 DEF AskSound, AskTypes, Fresh, AskedIds
  <2> QED
    BY <2>1 DEF Spares, Shrinks
<1>8. DeliveredIsWhole'
  BY DEF DeliveredIsWhole
<1> QED
  BY <1>1, <1>3, <1>5, <1>6, <1>7, <1>8, StepKeepsSound

\* The queue of d, emptied, and the queue with one more of d's frames.
LEMMA QueueMoves ==
  ASSUME Sound, NEW d \in Devices
  PROVE  /\ Holds([queue EXCEPT ![d] = <<>>], ToA, ToB)
         /\ \A f \in IF Other(d) = "A" THEN ToA ELSE ToB : Holds([queue EXCEPT ![d] = Append(@, f)], ToA, ToB)
<1>1. Holds(queue, ToA, ToB)
  BY DEF Sound, Wired
<1>2. Holds([queue EXCEPT ![d] = <<>>], ToA, ToB)
  <2>1. <<>> \in Seq(AnyFrame) /\ <<>> \in Seq(ToA) /\ <<>> \in Seq(ToB)
    BY EmptySeq
  <2> QED
    BY <1>1, <2>1 DEF Holds, Devices
<1>3. ASSUME NEW f \in IF Other(d) = "A" THEN ToA ELSE ToB
      PROVE  Holds([queue EXCEPT ![d] = Append(@, f)], ToA, ToB)
  <2>1. CASE d = "A"
    <3>1. Append(queue["A"], f) \in Seq(ToB)
      BY <1>1, <1>3, <2>1, AppendProperties DEF Holds, Other
    <3>2. Append(queue["A"], f) \in Seq(AnyFrame)
      BY <3>1, ToAreFrames, SeqMonotonic
    <3> QED
      BY <1>1, <2>1, <3>1, <3>2 DEF Holds, Devices
  <2>2. CASE d = "B"
    <3>1. Append(queue["B"], f) \in Seq(ToA)
      BY <1>1, <1>3, <2>2, AppendProperties DEF Holds, Other
    <3>2. Append(queue["B"], f) \in Seq(AnyFrame)
      BY <3>1, ToAreFrames, SeqMonotonic
    <3> QED
      BY <1>1, <2>2, <3>1, <3>2 DEF Holds, Devices
  <2> QED
    BY <2>1, <2>2 DEF Devices
<1> QED
  BY <1>2, <1>3

LEMMA SessionStepsKeepSound ==
  ASSUME Sound, NEW d \in Devices
  PROVE  /\ StartSession(d) \/ Connect(d) \/ Drop(d) => Sound'
         /\ LoseConnection(d) \/ Disconnect(d) \/ GiveUp(d) => Sound'
<1>a. /\ Carries(wire, ToA, ToB) /\ Holds(queue, ToA, ToB) /\ faults \in Nat
      /\ LinkTypes /\ QueueDrained
      /\ Other(d) \in Devices /\ "relay" \in Legs
      /\ queue \in [Devices -> Seq(AnyFrame)]
  BY DEF Sound, Wired, HistoryTypes, Other, Devices, Legs, Holds
<1>1. ASSUME StartSession(d) PROVE Sound'
  <2>1. /\ conn' = [conn EXCEPT ![d] = "backoff"]
        /\ UNCHANGED <<channel, leg, wire, queue, asked, tries, tables, history, faults>>
    BY <1>1 DEF StartSession
  <2>2. LinkTypes' /\ QueueDrained'
    BY <1>a, <2>1 DEF LinkTypes, QueueDrained
  <2> QED
    BY <1>a, <2>1, <2>2, PlainMove DEF history
<1>2. ASSUME Connect(d) PROVE Sound'
  <2>1. /\ conn' = [conn EXCEPT ![d] = "live"] /\ queue' = [queue EXCEPT ![d] = <<>>]
        /\ wire' = Put("relay", Other(d), queue[d])
        /\ UNCHANGED <<channel, leg, asked, tries, tables, history, faults>>
    BY <1>2 DEF Connect
  <2>2. LinkTypes' /\ QueueDrained'
    BY <1>a, <2>1 DEF LinkTypes, QueueDrained
  <2>3. queue[d] \in Seq(IF Other(d) = "A" THEN ToA ELSE ToB)
    BY <1>a DEF Holds, Other, Devices
  <2>4. Carries(wire', ToA, ToB)
    BY <1>a, <2>1, <2>3, PutCarries, ToAreFrames
  <2>5. Holds(queue', ToA, ToB)
    BY <2>1, QueueMoves
  <2> QED
    BY <1>a, <2>1, <2>2, <2>4, <2>5, PlainMove DEF history
<1>3. ASSUME Drop(d) PROVE Sound'
  <2>1. /\ wire' = Took(d, "relay") /\ wire["relay"][d] # <<>>
        /\ UNCHANGED <<links, queue, asked, tries, tables, history, faults>>
    BY <1>3 DEF Drop
  <2>2. LinkTypes' /\ QueueDrained'
    BY <1>a, <2>1 DEF LinkTypes, QueueDrained, links
  <2>3. Carries(wire', ToA, ToB)
    BY <1>a, <2>1, TookCarries, ToAreFrames
  <2> QED
    BY <1>a, <2>1, <2>2, <2>3, PlainMove DEF history
<1>4. ASSUME LoseConnection(d) PROVE Sound'
  <2> DEFINE out == wire["relay"][Other(d)]
             last == out[Len(out)]
  <2>1. PICK left \in Prefixes(out) :
          /\ Hangup(d, "backoff", left)
          /\ \/ UNCHANGED queue
             \/ left # out /\ queue' = [queue EXCEPT ![d] = Append(@, last)]
    BY <1>4 DEF LoseConnection
  <2>2. /\ Close(d, Table(d), "failed") /\ faults' = faults + 1
        /\ UNCHANGED <<asked, tries, route, sent, got, whole, gap>>
    BY <1>4 DEF LoseConnection, Fault
  <2>3. Carries(wire', ToA, ToB) /\ LinkTypes' /\ calm' = {} /\ conn' = [conn EXCEPT ![d] = "backoff"]
    BY <2>1, HangupCuts
  <2>4. left # out => last \in IF Other(d) = "A" THEN ToA ELSE ToB
    <3>1. out \in Seq(IF Other(d) = "A" THEN ToA ELSE ToB)
      BY <1>a DEF Carries, Devices
    <3> SUFFICES ASSUME left # out PROVE last \in IF Other(d) = "A" THEN ToA ELSE ToB
      OBVIOUS
    <3>2. PICK n \in 0 .. Len(out) : left = SubSeq(out, 1, n)
      BY DEF Prefixes
    <3>3. n # Len(out)
      BY <3>1, <3>2, SubSeqFull
    <3>4. Len(out) \in 1 .. Len(out)
      BY <3>1, <3>2, <3>3, LenProperties
    <3> QED
      BY <3>1, <3>4, ElementOfSeq
  <2>5. Holds(queue', ToA, ToB)
    BY <1>a, <2>1, <2>4, QueueMoves
  <2>6. QueueDrained'
    BY <1>a, <2>1, <2>3 DEF QueueDrained, LinkTypes
  <2>7. faults' \in Nat /\ calm' \subseteq calm
    BY <1>a, <2>2, <2>3
  <2>8. /\ TableSound' /\ Shrinks
        /\ \A m \in Msgs : status'["A"][m] = "delivered" => m \in whole
    BY <2>2, CloseAllMoves
  <2> QED
    BY <2>2, <2>3, <2>5, <2>6, <2>7, <2>8, SessionEndsSound
<1>5. ASSUME Disconnect(d) PROVE Sound'
  <2>1. PICK left \in Prefixes(wire["relay"][Other(d)]) : Hangup(d, "off", left)
    BY <1>5 DEF Disconnect
  <2>2. /\ Close(d, Table(d), "failed") /\ faults' = faults + 1
        /\ queue' = [queue EXCEPT ![d] = <<>>] /\ asked' \in {asked, <<>>}
        /\ UNCHANGED <<tries, route, sent, got, whole, gap>>
    BY <1>5 DEF Disconnect, Fault
  <2>3. Carries(wire', ToA, ToB) /\ LinkTypes' /\ calm' = {} /\ conn' = [conn EXCEPT ![d] = "off"]
    BY <2>1, HangupCuts
  <2>4. Holds(queue', ToA, ToB)
    BY <2>2, QueueMoves
  <2>5. QueueDrained'
    BY <1>a, <2>2, <2>3 DEF QueueDrained, LinkTypes
  <2>6. faults' \in Nat /\ calm' \subseteq calm
    BY <1>a, <2>2, <2>3
  <2>7. /\ TableSound' /\ Shrinks
        /\ \A m \in Msgs : status'["A"][m] = "delivered" => m \in whole
    BY <2>2, CloseAllMoves
  <2> QED
    BY <2>2, <2>3, <2>4, <2>5, <2>6, <2>7, SessionEndsSound
<1>6. ASSUME GiveUp(d) PROVE Sound'
  <2>1. /\ conn' = [conn EXCEPT ![d] = "off"] /\ faults' = faults + 1
        /\ phase' = [phase EXCEPT ![d] = [t \in Ids |-> "none"]]
        /\ queue' = [queue EXCEPT ![d] = <<>>] /\ asked' \in {asked, <<>>}
        /\ UNCHANGED <<channel, leg, wire, tries, route, sent, got, reg, status, file, history>>
    BY <1>6 DEF GiveUp, Fault
  <2>2. Holds(queue', ToA, ToB)
    BY <2>1, QueueMoves
  <2>3. QueueDrained' /\ LinkTypes'
    BY <1>a, <2>1 DEF QueueDrained, LinkTypes
  <2>4. faults' \in Nat /\ calm' \subseteq calm
    BY <1>a, <2>1 DEF history
  <2>5. TableTypes /\ Counted /\ Placed /\ WaitingUnsent /\ ReceivedHasFile /\ DeliveredIsWhole
    BY DEF Sound, TableSound
  <2>6. /\ phase' \in [Devices -> [Ids -> {"none", "waiting", "sending", "deciding", "receiving"}]]
        /\ \A e \in Devices, t \in Ids : phase'[e][t] = IF e = d THEN "none" ELSE phase[e][t]
    BY <2>1, <2>5 DEF TableTypes
  <2>7. Shrinks
    BY <2>6 DEF Shrinks
  <2>8. TableTypes'
    <3>1. ASSUME NEW e \in Devices PROVE phase'[e] \in [Ids -> PhasesOf(e)]
      <4>1. \A t \in Ids : phase[e][t] \in PhasesOf(e) /\ "none" \in PhasesOf(e)
        BY <2>5 DEF TableTypes, PhasesOf
      <4> QED
        BY <2>6, <4>1
    <3> QED
      BY <2>1, <2>5, <2>6, <3>1 DEF TableTypes
  <2>9. TableSound'
    <3>1. Placed'
      BY <2>5, <2>7, ShrinksFit
    <3>2. Counted' /\ ReceivedHasFile'
      BY <2>1, <2>5 DEF Counted, ReceivedHasFile
    <3>3. WaitingUnsent'
      BY <2>1, <2>5, <2>7 DEF Shrinks, WaitingUnsent, Devices
    <3> QED
      BY <2>8, <3>1, <3>2, <3>3 DEF TableSound
  <2>10. \A m \in Msgs : status'["A"][m] = "delivered" => m \in whole
    BY <2>1, <2>5 DEF DeliveredIsWhole
  <2> QED
    BY <1>a, <2>1, <2>2, <2>3, <2>4, <2>7, <2>9, <2>10, SessionEndsSound DEF history
<1> QED
  BY <1>1, <1>2, <1>3, <1>4, <1>5, <1>6

-----------------------------------------------------------------------------
(* What A reads, and what the users say                                    *)

\* Only a verdict of success marks a message as delivered.
LEMMA CloseOneDelivers ==
  ASSUME Sound, NEW d \in Devices, NEW t \in Ids, NEW r \in StatusesOf(d), CloseOne(d, t, r),
         r = "delivered" => Msg(t) \in whole
  PROVE  \A m \in Msgs : status'["A"][m] = "delivered" => m \in whole
<1>0. DeliveredIsWhole /\ TableTypes
  BY DEF Sound, TableSound
<1>1. CASE phase[d][t] = "none"
  BY <1>0, <1>1 DEF CloseOne, DeliveredIsWhole
<1>2. CASE phase[d][t] # "none"
  <2>1. Closed(d, {t}, r)
    BY <1>0, <1>2, CloseEffect DEF CloseOne
  <2> QED
    BY <1>0, <2>1 DEF Closed, DeliveredIsWhole, Devices
<1> QED
  BY <1>1, <1>2

\* The answers each device may give to an attempt that has been taken up.
LEMMA AnswersTravel ==
  ASSUME NEW t \in Begun
  PROVE  /\ \A type \in {"accept", "reject", "refused", "cancel"} : <<Frame(type, t, 0)>> \in Seq(ToA)
         /\ \A type \in {"offer", "complete", "cancel"} : <<Frame(type, t, 0)>> \in Seq(ToB)
<1>1. /\ \A type \in {"accept", "reject", "refused", "cancel"} : Frame(type, t, 0) \in ToA
      /\ \A type \in {"offer", "complete", "cancel"} : Frame(type, t, 0) \in ToB
  BY DEF Frame, ToA, ToB, AnyFrame, Types, Begun
<1> QED
  BY <1>1

LEMMA ReadAKeepsSound ==
  ASSUME Sound, NEW l \in Legs, ReadA(l)
  PROVE  Sound'
<1>a. /\ Carries(wire, ToA, ToB) /\ Holds(queue, ToA, ToB) /\ faults \in Nat
      /\ LinkTypes /\ QueueDrained /\ TableSound /\ TableTypes
      /\ "A" \in Devices /\ Other("A") = "B"
  BY DEF Sound, TableSound, Wired, HistoryTypes, Other, Devices
<1> DEFINE f == Head(wire[l]["A"])
           t == f.id
<1>b. wire[l]["A"] # <<>> /\ UNCHANGED <<links, queue, asked, tries, faults>>
  BY DEF ReadA, Reads
<1>c. Carries(Took("A", l), ToA, ToB) /\ f \in ToA
  BY <1>a, <1>b, TookCarries, ToAreFrames
<1>d. t \in Begun /\ t \in Ids
  BY <1>c DEF ToA, Begun
<1>e. LinkTypes' /\ QueueDrained' /\ Holds(queue', ToA, ToB) /\ faults' \in Nat
  BY <1>a, <1>b DEF LinkTypes, QueueDrained, links
<1> HIDE DEF f
<1>1. CASE f.type = "accept" /\ phase["A"][t] # "waiting"
  <2>1. wire' = Took("A", l) /\ UNCHANGED <<tables, history>>
    BY <1>1 DEF ReadA, OnAccept, Ignore, f
  <2> QED
    BY <1>b, <1>c, <1>e, <2>1, PlainMove DEF history
<1>2. CASE f.type = "accept" /\ phase["A"][t] = "waiting"
  <2> DEFINE s == IF Chunks[Msg(t)] = 0 THEN <<Frame("complete", t, 0)>> ELSE <<>>
  <2>1. /\ phase' = [phase EXCEPT !["A"][t] = "sending"] /\ wire' = Answer("A", l, s)
        /\ UNCHANGED <<route, sent, got, reg, status, file, history>>
    BY <1>2 DEF ReadA, OnAccept, f
  <2>2. "sending" \in PhasesOf("A")
    BY DEF PhasesOf
  <2>3. /\ TableSound'
        /\ \A e \in Devices, u \in Ids : u # t => phase'[e][u] = phase[e][u]
    BY <1>a, <1>2, <1>d, <2>1, <2>2, PhaseOn
  <2>4. \A u \in Fresh, e \in Devices : phase'[e][u] = "none"
    BY <1>d, <2>3 DEF Sound, AskSound, AskTypes, Untouched, Begun, Fresh, AskedIds
  <2>5. s \in Seq(ToB)
    BY <1>d, AnswersTravel, EmptySeq
  <2>6. Carries(wire', ToA, ToB)
    BY <1>a, <1>b, <2>1, <2>5, AnswerCarries, ToAreFrames
  <2>7. \A m \in Msgs : status'["A"][m] = "delivered" => m \in whole
    BY <2>1 DEF Sound, DeliveredIsWhole
  <2> QED
    BY <1>b, <1>e, <2>1, <2>3, <2>4, <2>6, <2>7, PlainStep DEF history
<1>3. CASE f.type # "accept"
  <2>1. /\ CloseOne("A", t, Verdict(f.type)) /\ wire' = Took("A", l)
        /\ UNCHANGED <<route, sent, got, history>>
    BY <1>3 DEF ReadA, OnVerdict, f
  <2>2. /\ Verdict(f.type) \in StatusesOf("A") /\ Verdict(f.type) # "received"
        /\ Verdict(f.type) = "delivered" => Msg(t) \in whole
    BY <1>c DEF Verdict, StatusesOf, ToA
  <2>3. TableSound' /\ Shrinks
    BY <1>a, <1>d, <2>1, <2>2, CloseOneKeepsTables
  <2>4. \A m \in Msgs : status'["A"][m] = "delivered" => m \in whole
    BY <1>a, <1>d, <2>1, <2>2, CloseOneDelivers
  <2> QED
    BY <1>b, <1>c, <1>e, <2>1, <2>3, <2>4, PlainShrink DEF history
<1> QED
  BY <1>1, <1>2, <1>3

LEMMA AnswersKeepSound ==
  ASSUME Sound, NEW m \in Msgs, NEW l \in Legs, Accept(m, l) \/ Reject(m, l) \/ Cancel(m, l)
  PROVE  Sound'
<1>a. /\ Carries(wire, ToA, ToB) /\ Holds(queue, ToA, ToB) /\ faults \in Nat
      /\ LinkTypes /\ QueueDrained /\ TableSound /\ TableTypes
      /\ "A" \in Devices /\ "B" \in Devices
  BY DEF Sound, TableSound, Wired, HistoryTypes, Devices
<1>b. \A d \in Devices : reg[d][m] # NoId => reg[d][m] \in Ids
  BY <1>a DEF TableTypes
<1>1. CASE Accept(m, l)
  <2> DEFINE t == reg["B"][m]
  <2>1. /\ t # NoId /\ phase["B"][t] = "deciding"
        /\ phase' = [phase EXCEPT !["B"][t] = "receiving"] /\ wire' = Put(l, "A", <<Frame("accept", t, 0)>>)
        /\ UNCHANGED <<links, queue, asked, tries, route, sent, got, reg, status, file, history, faults>>
    BY <1>1 DEF Accept
  <2> HIDE DEF t
  <2>2. t \in Ids /\ "receiving" \in PhasesOf("B")
    BY <1>a, <1>b, <2>1 DEF t, PhasesOf
  <2>3. t \in Begun
    BY <1>a, <2>1, <2>2, TableBegun
  <2>4. /\ TableSound'
        /\ \A e \in Devices, u \in Ids : u # t => phase'[e][u] = phase[e][u]
    BY <1>a, <2>1, <2>2, PhaseOn
  <2>5. \A u \in Fresh, e \in Devices : phase'[e][u] = "none"
    BY <2>3, <2>4 DEF Sound, AskSound, AskTypes, Untouched, Begun, Fresh, AskedIds
  <2>6. Carries(wire', ToA, ToB)
    BY <1>a, <2>1, <2>3, AnswersTravel, PutCarries, ToAreFrames
  <2>7. LinkTypes' /\ QueueDrained' /\ Holds(queue', ToA, ToB)
    BY <1>a, <2>1 DEF LinkTypes, QueueDrained, links
  <2>8. \A k \in Msgs : status'["A"][k] = "delivered" => k \in whole
    BY <2>1 DEF Sound, DeliveredIsWhole
  <2> QED
    BY <1>a, <2>1, <2>4, <2>5, <2>6, <2>7, <2>8, PlainStep DEF history
<1>2. ASSUME NEW d \in Devices, NEW from, from # "none", NEW type \in {"reject", "cancel"},
             type = "reject" => d = "B", Decline(d, m, l, from, type)
      PROVE  Sound'
  <2> DEFINE t == reg[d][m]
  <2>1. /\ t # NoId /\ phase[d][t] = from /\ CloseOne(d, t, "failed")
        /\ wire' = Put(l, Other(d), <<Frame(type, t, 0)>>)
        /\ UNCHANGED <<links, queue, asked, tries, route, sent, got, history, faults>>
    BY <1>2 DEF Decline
  <2> HIDE DEF t
  <2>2. t \in Ids /\ "failed" \in StatusesOf(d)
    BY <1>a, <1>b, <2>1 DEF t, StatusesOf
  <2>3. t \in Begun
    BY <1>a, <1>2, <2>1, <2>2, TableBegun
  <2>4. TableSound' /\ Shrinks
    BY <1>a, <2>1, <2>2, CloseOneKeepsTables
  <2>5. \A k \in Msgs : status'["A"][k] = "delivered" => k \in whole
    BY <2>1, <2>2, CloseOneDelivers
  <2>6. <<Frame(type, t, 0)>> \in Seq(IF Other(d) = "A" THEN ToA ELSE ToB) /\ Other(d) \in Devices
    BY <1>2, <2>3, AnswersTravel DEF Other, Devices
  <2>7. Carries(wire', ToA, ToB)
    BY <1>a, <2>1, <2>6, PutCarries, ToAreFrames
  <2>8. LinkTypes' /\ QueueDrained' /\ Holds(queue', ToA, ToB)
    BY <1>a, <2>1 DEF LinkTypes, QueueDrained, links
  <2> QED
    BY <1>a, <2>1, <2>4, <2>5, <2>7, <2>8, PlainShrink DEF history
<1>3. CASE Reject(m, l)
  BY <1>a, <1>2, <1>3 DEF Reject, NeedsDecision
<1>4. CASE Cancel(m, l)
  <2>1. PICK d \in Devices : Decline(d, m, l, CanCancel(d), "cancel")
    BY <1>4 DEF Cancel
  <2>2. CanCancel(d) # "none"
    BY DEF CanCancel
  <2> QED
    BY <1>2, <2>1, <2>2
<1> QED
  BY <1>1, <1>3, <1>4

-----------------------------------------------------------------------------
(* What B reads                                                            *)

\* B stores the file of an attempt whose chunks it has counted to the end.
LEMMA FinishKeepsSound ==
  ASSUME Sound, NEW l \in Legs, wire[l]["B"] # <<>>, NEW t \in Begun, Finish(t, l),
         got' \in [Ids -> Nat], got'[t] = Chunks[Msg(t)], \A u \in Ids \ {t} : got'[u] = got[u],
         sent[t] = Chunks[Msg(t)], phase["B"][t] = "receiving",
         UNCHANGED <<route, sent, links, queue, asked, tries>>
  PROVE  Sound'
<1>a. /\ Carries(wire, ToA, ToB) /\ Holds(queue, ToA, ToB) /\ faults \in Nat
      /\ LinkTypes /\ QueueDrained /\ AskSound /\ DeliveredIsWhole /\ HistoryTypes
      /\ TableTypes /\ Counted /\ Placed /\ WaitingUnsent /\ ReceivedHasFile
      /\ "A" \in Devices /\ "B" \in Devices /\ Other("B") = "A"
  BY DEF Sound, TableSound, Wired, HistoryTypes, Other, Devices
<1>b. t \in Ids /\ Msg(t) \in Msgs /\ Chunks[Msg(t)] \in Nat
  BY FileAssumption DEF Begun, Ids, Msg
<1>c. LinkTypes' /\ QueueDrained'
  BY <1>a DEF LinkTypes, QueueDrained, links
<1>d. AskSound' /\ Fresh' = Fresh
  BY <1>a, SameAsks
<1>e. Counted'
  <2>1. ASSUME NEW u \in Ids PROVE got'[u] <= sent'[u] /\ sent'[u] <= Chunks[Msg(u)]
    <3>1. CASE u = t
      BY <1>b, <3>1
    <3>2. CASE u # t
      BY <1>a, <3>2 DEF Counted
    <3> QED
      BY <3>1, <3>2
  <2> QED
    BY <2>1 DEF Counted
<1>f. \A u \in Fresh : u \in Ids /\ u # t
  BY <1>a DEF AskSound, AskTypes, Fresh, AskedIds, Begun
<1>1. CASE /\ phase' = [phase EXCEPT !["B"][t] = "none"]
           /\ reg' = [reg EXCEPT !["B"][Msg(t)] = NoId]
           /\ status' = [status EXCEPT !["B"][Msg(t)] = "received"]
           /\ file' = [file EXCEPT ![Msg(t)] = TRUE]
           /\ whole' = IF Whole(t) THEN whole \cup {Msg(t)} ELSE whole
           /\ wire' = Answer("B", l, <<Frame("verified", t, 0)>>)
           /\ UNCHANGED <<gap, calm, faults>>
  <2>1. whole' = whole \cup {Msg(t)}
    BY <1>1 DEF Whole
  <2>2. \A e \in Devices, u \in Ids : phase'[e][u] = IF e = "B" /\ u = t THEN "none" ELSE phase[e][u]
    BY <1>1, <1>a DEF TableTypes
  <2>3. \A e \in Devices, m \in Msgs :
          status'[e][m] = IF e = "B" /\ m = Msg(t) THEN "received" ELSE status[e][m]
    BY <1>1, <1>a DEF TableTypes
  <2>4. Shrinks
    BY <2>2 DEF Shrinks
  <2>5. TableTypes'
    <3>1. phase' \in [Devices -> [Ids -> {"none", "waiting", "sending", "deciding", "receiving"}]]
      BY <1>1, <1>a DEF TableTypes
    <3>2. status' \in [Devices -> [Msgs -> {"absent", "pending", "sent", "delivered", "received", "failed"}]]
      BY <1>1, <1>a DEF TableTypes
    <3>3. ASSUME NEW e \in Devices PROVE phase'[e] \in [Ids -> PhasesOf(e)]
      <4>1. \A u \in Ids : phase[e][u] \in PhasesOf(e) /\ "none" \in PhasesOf(e)
        BY <1>a DEF TableTypes, PhasesOf
      <4> QED
        BY <2>2, <3>1, <4>1
    <3>4. ASSUME NEW e \in Devices PROVE status'[e] \in [Msgs -> StatusesOf(e)]
      <4>1. \A m \in Msgs : status[e][m] \in StatusesOf(e) /\ "received" \in StatusesOf("B")
        BY <1>a DEF TableTypes, StatusesOf
      <4> QED
        BY <2>3, <3>2, <4>1
    <3>5. reg' \in [Devices -> [Msgs -> Ids \cup {NoId}]] /\ file' \in [Msgs -> BOOLEAN]
      BY <1>1, <1>a DEF TableTypes
    <3> QED
      BY <1>a, <3>1, <3>2, <3>3, <3>4, <3>5 DEF TableTypes
  <2>6. TableSound'
    <3>1. Placed'
      BY <1>a, <2>4, ShrinksFit
    <3>2. WaitingUnsent'
      BY <1>a, <2>2 DEF WaitingUnsent
    <3>3. ReceivedHasFile'
      BY <1>a, <1>1, <2>3 DEF ReceivedHasFile, TableTypes
    <3> QED
      BY <1>e, <2>5, <3>1, <3>2, <3>3 DEF TableSound
  <2>7. Grows
    BY <1>a, <1>d, <2>1 DEF Grows, TableTypes
  <2>8. ToA \subseteq ToA' /\ ToB \subseteq ToB'
    BY <1>a, <2>7, FramesStay DEF TableTypes
  <2>9. <<Frame("verified", t, 0)>> \in Seq(ToA')
    <3>1. Frame("verified", t, 0) \in ToA'
      BY <1>b, <1>d, <2>1 DEF Frame, ToA, AnyFrame, Types, Begun
    <3> QED
      BY <3>1
  <2>10. Carries(wire', ToA', ToB')
    <3>1. Carries(wire, ToA', ToB')
      BY <1>a, <2>8, CarriesMore
    <3> QED
      BY <1>a, <1>1, <2>9, <3>1, AnswerCarries, ToAreFrames
  <2>11. Holds(queue', ToA', ToB')
    BY <1>a, <2>8, CarriesMore
  <2>12. Spares
    BY <1>d, <1>f, <1>1, <2>2 DEF Spares
  <2>13. DeliveredIsWhole' /\ HistoryTypes'
    BY <1>a, <1>b, <1>1, <2>1, <2>3 DEF DeliveredIsWhole, HistoryTypes
  <2> QED
    BY <1>c, <1>d, <2>6, <2>7, <2>10, <2>11, <2>12, <2>13, StepKeepsSound
<1>2. CASE /\ Fault
           /\ Close("B", {t}, "failed")
           /\ wire' = Answer("B", l, <<Frame("refused", t, 0)>>)
           /\ UNCHANGED history
  <2>1. Closed("B", {t}, "failed")
    BY <1>a, <1>b, <1>2, CloseEffect DEF StatusesOf
  <2>2. Shrinks
    BY <2>1 DEF Closed, Shrinks
  <2>3. TableTypes'
    <3>1. ASSUME NEW e \in Devices PROVE phase'[e] \in [Ids -> PhasesOf(e)]
      <4>1. \A u \in Ids : phase[e][u] \in PhasesOf(e) /\ "none" \in PhasesOf(e)
        BY <1>a DEF TableTypes, PhasesOf
      <4> QED
        BY <2>1, <4>1 DEF Closed
    <3>2. ASSUME NEW e \in Devices PROVE status'[e] \in [Msgs -> StatusesOf(e)]
      <4>1. \A m \in Msgs : status[e][m] \in StatusesOf(e) /\ "failed" \in StatusesOf(e)
        BY <1>a DEF TableTypes, StatusesOf
      <4> QED
        BY <2>1, <4>1 DEF Closed
    <3> QED
      BY <1>a, <2>1, <3>1, <3>2 DEF TableTypes, Closed
  <2>4. TableSound'
    <3>1. Placed'
      BY <1>a, <2>2, ShrinksFit
    <3>2. WaitingUnsent'
      BY <1>a, <2>2 DEF WaitingUnsent, Shrinks
    <3>3. ReceivedHasFile'
      <4> SUFFICES ASSUME NEW m \in Msgs, status'["B"][m] = "received" PROVE file'[m]
        BY DEF ReceivedHasFile
      <4>1. status["B"][m] = "received" /\ m \notin {Msg(u) : u \in {t}}
        BY <1>a, <2>1 DEF Closed
      <4>2. file[m]
        BY <1>a, <4>1 DEF ReceivedHasFile
      <4> QED
        BY <2>1, <4>1, <4>2 DEF Closed
    <3> QED
      BY <1>e, <2>3, <3>1, <3>2, <3>3 DEF TableSound
  <2>5. Grows
    BY <1>a, <1>d, <1>2 DEF Grows, TableTypes, history
  <2>6. ToA \subseteq ToA' /\ ToB \subseteq ToB'
    BY <1>a, <2>5, FramesStay DEF TableTypes
  <2>7. Carries(wire', ToA, ToB)
    BY <1>a, <1>2, AnswersTravel, AnswerCarries, ToAreFrames
  <2>8. Carries(wire', ToA', ToB') /\ Holds(queue', ToA', ToB')
    BY <1>a, <2>6, <2>7, CarriesMore
  <2>9. Spares
    BY <1>d, <1>f, <1>2, <2>2 DEF Spares, Shrinks, history
  <2>10. DeliveredIsWhole'
    BY <1>a, <1>2, <2>1 DEF DeliveredIsWhole, history, Closed
  <2>11. HistoryTypes'
    BY <1>a, <1>2 DEF HistoryTypes, history, Fault
  <2> QED
    BY <1>c, <1>d, <2>4, <2>5, <2>8, <2>9, <2>10, <2>11, StepKeepsSound
<1> QED
  BY <1>1, <1>2 DEF Finish

LEMMA ReadBKeepsSound ==
  ASSUME Sound, NEW l \in Legs, ReadB(l)
  PROVE  Sound'
<1>a. /\ Carries(wire, ToA, ToB) /\ Holds(queue, ToA, ToB) /\ faults \in Nat
      /\ LinkTypes /\ QueueDrained /\ AskSound /\ DeliveredIsWhole /\ HistoryTypes
      /\ TableSound /\ TableTypes /\ Counted /\ Placed /\ WaitingUnsent /\ ReceivedHasFile
      /\ "B" \in Devices /\ Other("B") = "A"
  BY DEF Sound, TableSound, Wired, HistoryTypes, Other, Devices
<1> DEFINE f == Head(wire[l]["B"])
           t == f.id
<1>b. wire[l]["B"] # <<>> /\ UNCHANGED <<links, queue, asked, tries>>
  BY DEF ReadB, Reads
<1>c. Carries(Took("B", l), ToA, ToB) /\ f \in ToB
  BY <1>a, <1>b, TookCarries, ToAreFrames
<1>d. /\ t \in Begun /\ t \in Ids /\ Msg(t) \in Msgs /\ Chunks[Msg(t)] \in Nat
      /\ f.type = "chunk" => f.seq < sent[t]
  BY <1>c, FileAssumption DEF ToB, Begun, Ids, Msg
<1>e. LinkTypes' /\ QueueDrained' /\ Holds(queue', ToA, ToB)
  BY <1>a, <1>b DEF LinkTypes, QueueDrained, links
<1>f. got[t] \in Nat /\ sent[t] \in Nat /\ got[t] <= sent[t] /\ sent[t] <= Chunks[Msg(t)]
  BY <1>a, <1>d DEF TableTypes, Counted
<1> HIDE DEF f
<1>1. CASE wire' = Took("B", l) /\ UNCHANGED <<tables, history, faults>>
  BY <1>a, <1>b, <1>c, <1>e, <1>1, PlainMove DEF history
<1>2. CASE f.type = "offer" /\ OnOffer(l) /\ UNCHANGED faults
  <2>1. CASE phase["B"][t] # "none"
    BY <1>1, <1>2, <2>1 DEF OnOffer, Ignore, f
  <2>2. CASE phase["B"][t] = "none" /\ ~HasPlace("B")
    <3>1. wire' = Answer("B", l, <<Frame("reject", t, 0)>>) /\ UNCHANGED <<tables, history>>
      BY <1>2, <2>2 DEF OnOffer, f
    <3>2. Carries(wire', ToA, ToB)
      BY <1>a, <1>b, <1>d, <3>1, AnswersTravel, AnswerCarries, ToAreFrames
    <3> QED
      BY <1>a, <1>b, <1>2, <1>e, <3>1, <3>2, PlainMove DEF history
  <2>3. CASE phase["B"][t] = "none" /\ HasPlace("B")
    <3> DEFINE p == IF Msg(t) \in Big THEN "deciding" ELSE "receiving"
               s == IF Msg(t) \in Big THEN <<>> ELSE <<Frame("accept", t, 0)>>
    <3>1. /\ phase' = [phase EXCEPT !["B"][t] = p]
          /\ reg' = [reg EXCEPT !["B"][Msg(t)] = t]
          /\ status' = [status EXCEPT !["B"][Msg(t)] = "pending"]
          /\ file' = [file EXCEPT ![Msg(t)] = FALSE]
          /\ wire' = Answer("B", l, s)
          /\ UNCHANGED <<route, sent, got, history>>
      BY <1>2, <2>3 DEF OnOffer, f
    <3>2. /\ p \in PhasesOf("B") /\ p # "waiting"
          /\ "pending" \in StatusesOf("B") /\ "pending" # "received"
      BY DEF PhasesOf, StatusesOf
    <3>3. route[t] \in Legs /\ route' = [route EXCEPT ![t] = route[t]]
      BY <1>a, <1>d, <3>1 DEF TableTypes
    <3>4. s \in Seq(ToA)
      BY <1>d, AnswersTravel, EmptySeq
    <3>0. Enters("B", t, p, "pending", route[t])
      BY <3>1, <3>3 DEF Enters
    <3> HIDE DEF p, s
    <3>5. /\ TableSound'
          /\ \A e \in Devices, u \in Ids : u # t => phase'[e][u] = phase[e][u]
          /\ \A m \in Msgs : status'["A"][m] \in {"pending", status["A"][m]}
      BY <1>a, <1>d, <2>3, <3>0, <3>1, <3>2, <3>3, EnterTable
    <3>6. \A u \in Fresh, e \in Devices : phase'[e][u] = "none"
      BY <1>d, <3>5 DEF Sound, AskSound, AskTypes, Untouched, Begun, Fresh, AskedIds
    <3>7. Carries(wire', ToA, ToB)
      BY <1>a, <1>b, <3>1, <3>4, AnswerCarries, ToAreFrames
    <3>8. \A m \in Msgs : status'["A"][m] = "delivered" => m \in whole
      BY <1>a, <3>5 DEF DeliveredIsWhole
    <3> QED
      BY <1>a, <1>b, <1>2, <1>e, <3>1, <3>5, <3>6, <3>7, <3>8, PlainStep DEF history
  <2> QED
    BY <2>1, <2>2, <2>3
<1>3. CASE f.type = "chunk" /\ OnChunk(l)
  <2>1. CASE ~(phase["B"][t] = "receiving" /\ InTurn(f))
    BY <1>1, <1>3, <2>1 DEF OnChunk, Ignore, f
  <2>2. CASE phase["B"][t] = "receiving" /\ InTurn(f)
    <3>1. /\ got' = [got EXCEPT ![t] = @ + 1] /\ UNCHANGED <<route, sent>>
          /\ IF got[t] + 1 < Chunks[Msg(t)]
             THEN wire' = Took("B", l) /\ UNCHANGED <<phase, reg, status, file, history, faults>>
             ELSE Finish(t, l)
      BY <1>3, <2>2 DEF OnChunk, f
    <3>2. f.seq = got[t] /\ got[t] < Chunks[Msg(t)] /\ got[t] < sent[t]
      BY <1>3, <1>d, <2>2 DEF InTurn
    <3>3. /\ got' \in [Ids -> Nat] /\ got'[t] = got[t] + 1 /\ got'[t] <= sent[t]
          /\ \A u \in Ids \ {t} : got'[u] = got[u]
      BY <1>a, <1>d, <1>f, <3>1, <3>2 DEF TableTypes
    <3>4. CASE got[t] + 1 < Chunks[Msg(t)]
      <4>1. wire' = Took("B", l) /\ UNCHANGED <<phase, reg, status, file, history, faults>>
        BY <3>1, <3>4
      <4>2. TableSound'
        <5>1. Counted'
          BY <1>a, <1>d, <1>f, <3>1, <3>3 DEF Counted
        <5>2. TableTypes'
          BY <1>a, <3>1, <3>3, <4>1 DEF TableTypes
        <5>3. Placed' /\ WaitingUnsent' /\ ReceivedHasFile'
          BY <1>a, <3>1, <4>1 DEF Placed, Table, WaitingUnsent, ReceivedHasFile
        <5> QED
          BY <5>1, <5>2, <5>3 DEF TableSound
      <4>3. AskSound' /\ Fresh' = Fresh
        BY <1>a, <1>b, SameAsks
      <4>4. Grows
        BY <1>a, <3>1, <4>1, <4>3 DEF Grows, TableTypes, history
      <4>5. \A u \in Fresh : u \in Ids /\ u # t
        BY <1>a, <1>d DEF AskSound, AskTypes, Fresh, AskedIds, Begun
      <4>6. Spares
        BY <3>1, <3>3, <4>1, <4>3, <4>5 DEF Spares, history
      <4>7. ToA \subseteq ToA' /\ ToB \subseteq ToB'
        BY <1>a, <3>1, <4>4, FramesStay DEF TableTypes
      <4>8. Carries(wire', ToA', ToB') /\ Holds(queue', ToA', ToB')
        BY <1>c, <1>e, <4>1, <4>7, CarriesMore
      <4>9. DeliveredIsWhole' /\ HistoryTypes'
        BY <1>a, <4>1 DEF DeliveredIsWhole, HistoryTypes, history
      <4> QED
        BY <1>e, <4>2, <4>3, <4>4, <4>6, <4>8, <4>9, StepKeepsSound
    <3>5. CASE ~(got[t] + 1 < Chunks[Msg(t)])
      <4>1. Finish(t, l)
        BY <3>1, <3>5
      <4>2. got'[t] = Chunks[Msg(t)] /\ sent[t] = Chunks[Msg(t)]
        BY <1>d, <1>f, <3>2, <3>3, <3>5
      <4> QED
        BY <1>b, <1>d, <2>2, <3>1, <3>3, <4>1, <4>2, FinishKeepsSound
    <3> QED
      BY <3>4, <3>5
  <2> QED
    BY <2>1, <2>2
<1>4. CASE f.type = "complete" /\ OnComplete(l)
  <2>1. CASE phase["B"][t] # "receiving"
    BY <1>1, <1>4, <2>1 DEF OnComplete, Ignore, f
  <2>2. CASE phase["B"][t] = "receiving" /\ Missing(t)
    <3>1. /\ UNCHANGED <<route, sent, got>> /\ Close("B", {t}, "failed")
          /\ wire' = Answer("B", l, <<Frame("refused", t, 0)>>)
          /\ gap' = gap \cup {t} /\ UNCHANGED <<whole, calm, faults>>
      BY <1>4, <2>2 DEF OnComplete, f
    <3>2. "failed" \in StatusesOf("B") /\ "failed" # "received"
      BY DEF StatusesOf
    <3>3. {t} \in SUBSET Ids
      BY <1>d
    <3>4. TableSound' /\ Shrinks
      BY <1>a, <3>1, <3>2, <3>3, CloseKeepsTables
    <3>5. \A m \in Msgs : status'["A"][m] = "delivered" => m \in whole
      BY <1>a, <3>1, <3>3, CloseDeliversNothing
    <3>6. Carries(wire', ToA, ToB)
      BY <1>a, <1>b, <1>d, <3>1, AnswersTravel, AnswerCarries, ToAreFrames
    <3> QED
      BY <1>a, <1>b, <1>d, <1>e, <3>1, <3>4, <3>5, <3>6, PlainShrink
  <2>3. CASE phase["B"][t] = "receiving" /\ ~Missing(t)
    <3>1. UNCHANGED <<route, sent, got>> /\ Finish(t, l)
      BY <1>4, <2>3 DEF OnComplete, f
    <3>2. got[t] = Chunks[Msg(t)] /\ sent[t] = Chunks[Msg(t)]
      BY <1>d, <1>f, <2>3 DEF Missing
    <3>3. got' \in [Ids -> Nat]
      BY <1>a, <3>1 DEF TableTypes
    <3> QED
      BY <1>b, <1>d, <2>3, <3>1, <3>2, <3>3, FinishKeepsSound
  <2> QED
    BY <2>1, <2>2, <2>3
<1>5. CASE f.type = "cancel" /\ OnCancel(l) /\ UNCHANGED faults
  <2>1. /\ CloseOne("B", t, "failed") /\ wire' = Took("B", l)
        /\ UNCHANGED <<route, sent, got, history>>
    BY <1>5 DEF OnCancel, f
  <2>2. "failed" \in StatusesOf("B") /\ "failed" # "received" /\ "failed" # "delivered"
    BY DEF StatusesOf
  <2>3. TableSound' /\ Shrinks
    BY <1>a, <1>d, <2>1, <2>2, CloseOneKeepsTables
  <2>4. \A m \in Msgs : status'["A"][m] = "delivered" => m \in whole
    BY <1>a, <1>d, <2>1, <2>2, CloseOneDelivers
  <2> QED
    BY <1>a, <1>b, <1>c, <1>e, <1>5, <2>1, <2>3, <2>4, PlainShrink DEF history
<1> QED
  BY <1>2, <1>3, <1>4, <1>5 DEF ReadB, f

-----------------------------------------------------------------------------
(* Requests, offers and chunks                                             *)

LEMMA AskKeepsSound ==
  ASSUME Sound, NEW m \in Msgs, Send(m) \/ Retry(m)
  PROVE  Sound'
<1>a. /\ Carries(wire, ToA, ToB) /\ Holds(queue, ToA, ToB) /\ HistoryTypes
      /\ LinkTypes /\ QueueDrained /\ AskTypes /\ AskedOnce /\ DeliveredIsWhole
      /\ TableTypes /\ Counted /\ Placed /\ WaitingUnsent /\ ReceivedHasFile
  BY DEF Sound, TableSound, AskSound, Wired
<1>1. PICK r \in {"failed", "pending"} : status' = [status EXCEPT !["A"][m] = r]
  BY DEF Send, Retry
<1> DEFINE t == <<m, tries[m] + 1>>
<1>2. /\ tries[m] < MaxTries /\ tries' = [tries EXCEPT ![m] = @ + 1]
      /\ asked' \in {asked, Append(asked, t)}
      /\ UNCHANGED <<links, wire, queue, phase, route, sent, got, reg, file, history, faults>>
  BY DEF Send, Retry, Ask
<1>3. t \in Ids /\ tries'[m] = tries[m] + 1 /\ \A k \in Msgs \ {m} : tries'[k] = tries[k]
  BY <1>a, <1>2, CountAssumption DEF AskTypes, Ids
<1>4. tries' \in [Msgs -> Nat] /\ \A k \in Msgs : tries[k] \in Nat /\ tries[k] <= tries'[k]
  BY <1>a, <1>2 DEF AskTypes
<1> HIDE DEF t
<1>5. AskSound' /\ Fresh' \subseteq Fresh
  <2>0. /\ asked \in Seq(Ids) /\ t[1] = m /\ t[2] = tries[m] + 1 /\ tries[m] \in Nat
        /\ \A i \in 1 .. Len(asked) : asked[i] \in Ids
        /\ Len(asked) \in Nat /\ DOMAIN asked = 1 .. Len(asked)
    BY <1>a, <1>4, LenProperties, ElementOfSeq DEF AskTypes, t
  <2>1. CASE asked' = asked
    <3>1. AskedOnce'
      <4>1. ASSUME NEW i \in DOMAIN asked
            PROVE  asked[i][2] <= tries'[asked[i][1]]
        <5>1. asked[i] \in Ids
          BY <2>0
        <5>2. asked[i][2] <= tries[asked[i][1]] /\ asked[i][1] \in Msgs /\ asked[i][2] \in Nat
          BY <1>a, <5>1 DEF AskedOnce, Ids
        <5> QED
          BY <1>4, <5>2
      <4> QED
        BY <1>a, <2>1, <4>1 DEF AskedOnce
    <3>2. Fresh' \subseteq Fresh
      BY <1>4, <2>1 DEF Fresh, AskedIds, Ids
    <3> QED
      BY <1>a, <1>4, <2>1, <3>1, <3>2 DEF AskSound, AskTypes
  <2>2. CASE asked' = Append(asked, t)
    <3>1. /\ asked' \in Seq(Ids) /\ DOMAIN asked' = 1 .. Len(asked) + 1
          /\ \A i \in 1 .. Len(asked) : asked'[i] = asked[i]
          /\ asked'[Len(asked) + 1] = t
      BY <1>3, <2>0, <2>2, AppendProperties, LenProperties
    <3>2. \A i \in DOMAIN asked : asked[i] # t
      BY <1>a, <2>0 DEF AskedOnce
    <3>3. AskedOnce'
      <4>1. ASSUME NEW i \in DOMAIN asked', NEW j \in DOMAIN asked', asked'[i] = asked'[j]
            PROVE  i = j
        BY <1>a, <2>0, <3>1, <3>2, <4>1 DEF AskedOnce
      <4>2. ASSUME NEW i \in DOMAIN asked'
            PROVE  asked'[i][2] <= tries'[asked'[i][1]]
        <5>1. CASE i = Len(asked) + 1
          BY <1>3, <2>0, <3>1, <5>1
        <5>2. CASE i # Len(asked) + 1
          <6>1. i \in DOMAIN asked /\ asked'[i] = asked[i] /\ asked[i] \in Ids
            BY <2>0, <3>1, <5>2
          <6>2. asked[i][2] <= tries[asked[i][1]] /\ asked[i][1] \in Msgs /\ asked[i][2] \in Nat
            BY <1>a, <6>1 DEF AskedOnce, Ids
          <6> QED
            BY <1>4, <6>1, <6>2
        <5> QED
          BY <5>1, <5>2
      <4> QED
        BY <4>1, <4>2 DEF AskedOnce
    <3>4. Fresh' \subseteq Fresh
      <4>1. AskedIds' \subseteq AskedIds \cup {t}
        BY <2>0, <3>1 DEF AskedIds
      <4>2. t \in Fresh
        BY <1>3, <2>0 DEF Fresh
      <4>3. \A u \in Ids : tries'[u[1]] < u[2] => tries[u[1]] < u[2]
        BY <1>4 DEF Ids
      <4> QED
        BY <4>1, <4>2, <4>3 DEF Fresh
    <3> QED
      BY <1>4, <3>1, <3>3, <3>4 DEF AskSound, AskTypes
  <2> QED
    BY <1>2, <2>1, <2>2
<1>6. TableSound'
  <2>1. /\ status' \in [Devices -> [Msgs -> {"absent", "pending", "sent", "delivered", "received", "failed"}]]
        /\ \A e \in Devices, k \in Msgs : status'[e][k] = IF e = "A" /\ k = m THEN r ELSE status[e][k]
    BY <1>a, <1>1 DEF TableTypes
  <2>2. ASSUME NEW e \in Devices PROVE status'[e] \in [Msgs -> StatusesOf(e)]
    <3>1. \A k \in Msgs : status[e][k] \in StatusesOf(e) /\ r \in StatusesOf("A")
      BY <1>a DEF TableTypes, StatusesOf
    <3> QED
      BY <2>1, <3>1
  <2>3. TableTypes'
    BY <1>a, <1>2, <2>1, <2>2 DEF TableTypes
  <2>4. Counted' /\ Placed' /\ WaitingUnsent'
    BY <1>a, <1>2 DEF Counted, Placed, Table, WaitingUnsent
  <2>5. ReceivedHasFile'
    BY <1>a, <1>2, <2>1 DEF ReceivedHasFile, Devices
  <2> QED
    BY <2>3, <2>4, <2>5 DEF TableSound
<1>7. Grows
  BY <1>a, <1>2, <1>5 DEF Grows, TableTypes, history
<1>8. Carries(wire', ToA', ToB') /\ Holds(queue', ToA', ToB')
  BY <1>a, <1>2, <1>7, FramesStay, CarriesMore DEF TableTypes
<1>9. Spares
  BY <1>2 DEF Spares, history
<1>10. DeliveredIsWhole'
  BY <1>a, <1>1, <1>2 DEF DeliveredIsWhole, TableTypes, history, Devices
<1>11. LinkTypes' /\ HistoryTypes' /\ QueueDrained'
  BY <1>a, <1>2 DEF LinkTypes, HistoryTypes, QueueDrained, links, history
<1> QED
  BY <1>5, <1>6, <1>7, <1>8, <1>9, <1>10, <1>11, StepKeepsSound

\* The session takes the first request, which then is no longer fresh.
LEMMA TakeRequest ==
  ASSUME AskSound, asked # <<>>, asked' = Tail(asked), UNCHANGED tries
  PROVE  /\ AskSound' /\ Fresh' \subseteq Fresh
         /\ Head(asked) \in Ids /\ Head(asked) \in Fresh /\ Head(asked) \notin Fresh'
<1>1. AskTypes /\ AskedOnce
  BY DEF AskSound
<1>2. /\ asked \in Seq(Ids) /\ Len(asked) \in Nat /\ DOMAIN asked = 1 .. Len(asked)
      /\ \A i \in 1 .. Len(asked) : asked[i] \in Ids
  BY <1>1, LenProperties, ElementOfSeq DEF AskTypes
<1>3. /\ asked' \in Seq(Ids) /\ Len(asked) >= 1 /\ DOMAIN asked' = 1 .. Len(asked) - 1
      /\ \A i \in 1 .. Len(asked) - 1 : asked'[i] = asked[i + 1]
      /\ Head(asked) = asked[1]
  <2>1. Tail(asked) \in Seq(Ids) /\ Len(Tail(asked)) = Len(asked) - 1
    BY <1>2, HeadTailProperties
  <2>2. Len(asked) >= 1
    BY <1>2, EmptySeq
  <2>3. \A i \in 1 .. Len(Tail(asked)) : Tail(asked)[i] = asked[i + 1]
    BY <1>2, HeadTailProperties
  <2>4. DOMAIN Tail(asked) = 1 .. Len(Tail(asked))
    BY <2>1, LenProperties
  <2> QED
    BY <1>2, <2>1, <2>2, <2>3, <2>4
<1>4. \A i \in DOMAIN asked' : i + 1 \in DOMAIN asked /\ asked'[i] = asked[i + 1]
  BY <1>2, <1>3
<1>5. AskedOnce'
  <2>1. ASSUME NEW i \in DOMAIN asked', NEW j \in DOMAIN asked', asked'[i] = asked'[j]
        PROVE  i = j
    <3>1. i + 1 = j + 1
      BY <1>1, <1>4, <2>1 DEF AskedOnce
    <3>2. i \in Int /\ j \in Int
      BY <1>2, <1>3
    <3> QED
      BY <3>1, <3>2
  <2>2. \A i \in DOMAIN asked' : asked'[i][2] <= tries'[asked'[i][1]]
    BY <1>1, <1>4 DEF AskedOnce
  <2> QED
    BY <2>1, <2>2 DEF AskedOnce
<1>6. AskSound'
  BY <1>1, <1>3, <1>5 DEF AskSound, AskTypes
<1>7. AskedIds' \subseteq AskedIds
  BY <1>4 DEF AskedIds
<1>8. Head(asked) \in AskedIds /\ Head(asked) \in Ids
  BY <1>2, <1>3 DEF AskedIds
<1>9. Head(asked) \notin AskedIds'
  <2> SUFFICES ASSUME NEW i \in DOMAIN asked', asked'[i] = asked[1] PROVE FALSE
    BY <1>3 DEF AskedIds
  <2>1. i + 1 = 1
    BY <1>1, <1>2, <1>3, <1>4 DEF AskedOnce
  <2> QED
    BY <1>2, <1>3, <2>1
<1>10. ~(tries[Head(asked)[1]] < Head(asked)[2])
  <2>1. asked[1][2] <= tries[asked[1][1]] /\ asked[1][2] \in Nat /\ asked[1][1] \in Msgs
    BY <1>1, <1>2, <1>3 DEF AskedOnce, Ids
  <2> QED
    BY <1>1, <1>3, <2>1 DEF AskTypes
<1> QED
  BY <1>6, <1>7, <1>8, <1>9, <1>10 DEF Fresh

\* A offers the first request, on the wire or in the queue.
LEMMA OpenKeepsSound ==
  ASSUME Sound, asked # <<>>, asked' = Tail(asked), UNCHANGED <<links, tries, whole, gap, faults>>,
         HasPlace("A"), NEW l \in Legs, Open(Head(asked), l), calm' \subseteq calm \cup {Head(asked)},
         Carries(wire', ToA', ToB'), Holds(queue', ToA', ToB'), QueueDrained'
  PROVE  Sound'
<1>a. /\ HistoryTypes /\ LinkTypes /\ AskSound /\ DeliveredIsWhole /\ TableSound /\ TableTypes
      /\ "A" \in Devices
  BY DEF Sound, TableSound, Devices
<1> DEFINE t == Head(asked)
<1>1. AskSound' /\ Fresh' \subseteq Fresh /\ t \in Ids /\ t \in Fresh /\ t \notin Fresh'
  BY <1>a, TakeRequest
<1> HIDE DEF t
<1>2. Enters("A", t, "waiting", "sent", l)
  BY DEF Open, Enters, t
<1>3. "waiting" \in PhasesOf("A") /\ "sent" \in StatusesOf("A") /\ "sent" # "received"
  BY DEF PhasesOf, StatusesOf
<1>4. sent[t] = 0
  BY <1>1 DEF Sound, Untouched
<1>5. /\ TableSound'
      /\ \A e \in Devices, u \in Ids : u # t => phase'[e][u] = phase[e][u]
      /\ \A m \in Msgs : status'["A"][m] \in {"sent", status["A"][m]}
  BY <1>a, <1>1, <1>2, <1>3, <1>4, EnterTable
<1>6. UNCHANGED <<sent, got>>
  BY <1>2 DEF Enters
<1>7. Grows
  BY <1>a, <1>1, <1>6 DEF Grows, TableTypes
<1>8. Spares
  <2>1. \A u \in Fresh' : u \in Ids /\ u # t
    BY <1>1 DEF AskSound, AskTypes, Fresh, AskedIds
  <2> QED
    BY <1>5, <1>6, <2>1 DEF Spares, t
<1>9. HistoryTypes' /\ LinkTypes'
  BY <1>a, <1>1 DEF HistoryTypes, LinkTypes, links, t
<1>10. DeliveredIsWhole'
  BY <1>a, <1>5 DEF DeliveredIsWhole
<1> QED
  BY <1>1, <1>5, <1>7, <1>8, <1>9, <1>10, StepKeepsSound

LEMMA StartsKeepSound ==
  ASSUME Sound, StartFull \/ Start \/ StartQueued
  PROVE  Sound'
<1>a. /\ Carries(wire, ToA, ToB) /\ Holds(queue, ToA, ToB) /\ HistoryTypes
      /\ LinkTypes /\ QueueDrained /\ AskSound /\ DeliveredIsWhole /\ TableSound /\ TableTypes
      /\ "A" \in Devices /\ "B" \in Devices /\ "relay" \in Legs /\ "direct" \in Legs
  BY DEF Sound, TableSound, Wired, Devices, Legs
<1> DEFINE t == Head(asked)
<1>b. asked # <<>> /\ asked' = Tail(asked) /\ UNCHANGED <<links, tries, whole, gap, faults>>
  BY DEF StartFull, Start, StartQueued, history
<1>c. AskSound' /\ Fresh' \subseteq Fresh /\ t \in Ids /\ t \notin Fresh'
  BY <1>a, <1>b, TakeRequest
<1>d. Frame("offer", t, 0) \in ToB'
  BY <1>c DEF Frame, ToB, AnyFrame, Types, Begun
<1>e. UNCHANGED sent => ToA \subseteq ToA' /\ ToB \subseteq ToB'
  <2> SUFFICES ASSUME UNCHANGED sent PROVE ToA \subseteq ToA' /\ ToB \subseteq ToB'
    OBVIOUS
  <2>1. Grows
    BY <1>a, <1>b, <1>c DEF Grows, TableTypes
  <2> QED
    BY <1>a, <2>1, FramesStay DEF TableTypes
<1> HIDE DEF t
<1>1. CASE StartFull
  <2>1. UNCHANGED <<wire, queue, tables, history, sent, got>>
    BY <1>1 DEF StartFull, tables
  <2>2. TableSound' /\ Shrinks
    BY <1>a, <2>1, SameTables
  <2>3. Grows
    BY <1>a, <1>b, <1>c, <2>1 DEF Grows, TableTypes
  <2>4. Spares
    <3>1. Fresh' \subseteq Ids
      BY <1>c DEF AskSound, AskTypes, Fresh, AskedIds
    <3> QED
      BY <2>1, <2>2, <3>1 DEF Spares, Shrinks, history
  <2>5. Carries(wire', ToA', ToB') /\ Holds(queue', ToA', ToB')
    BY <1>a, <1>e, <2>1, CarriesMore
  <2>6. LinkTypes' /\ HistoryTypes' /\ QueueDrained'
    BY <1>a, <1>b, <2>1 DEF LinkTypes, links, HistoryTypes, history, QueueDrained
  <2>7. DeliveredIsWhole'
    BY <1>a, <2>1 DEF DeliveredIsWhole, tables, history
  <2> QED
    BY <1>c, <2>2, <2>3, <2>4, <2>5, <2>6, <2>7, StepKeepsSound
<1>2. CASE Start
  <2>1. PICK l \in Legs : Open(t, l) /\ wire' = Put(l, "B", <<Frame("offer", t, 0)>>)
    BY <1>2, <1>a DEF Start, t
  <2>2. HasPlace("A") /\ UNCHANGED queue /\ calm' \subseteq calm \cup {t}
    BY <1>2 DEF Start, t
  <2>3. ToA \subseteq ToA' /\ ToB \subseteq ToB'
    BY <1>e, <2>1 DEF Open
  <2>4. Carries(wire', ToA', ToB')
    <3>1. Carries(wire, ToA', ToB')
      BY <1>a, <2>3, CarriesMore
    <3>2. <<Frame("offer", t, 0)>> \in Seq(ToB')
      BY <1>d
    <3> QED
      BY <1>a, <2>1, <3>1, <3>2, PutCarries, ToAreFrames
  <2>5. Holds(queue', ToA', ToB') /\ QueueDrained'
    <3>1. Holds(queue', ToA', ToB')
      BY <1>a, <2>2, <2>3, CarriesMore
    <3> QED
      BY <1>a, <1>b, <2>2, <3>1 DEF QueueDrained, links
  <2> QED
    BY <1>b, <2>1, <2>2, <2>4, <2>5, OpenKeepsSound DEF t
<1>3. CASE StartQueued
  <2>1. /\ conn["A"] = "backoff" /\ HasPlace("A") /\ Open(t, "relay")
        /\ queue' = [queue EXCEPT !["A"] = Append(@, Frame("offer", t, 0))]
        /\ UNCHANGED <<wire, history>>
    BY <1>3 DEF StartQueued, t
  <2>2. ToA \subseteq ToA' /\ ToB \subseteq ToB'
    BY <1>e, <2>1 DEF Open
  <2>3. Carries(wire', ToA', ToB')
    BY <1>a, <2>1, <2>2, CarriesMore
  <2>4. Holds(queue', ToA', ToB')
    <3>1. Holds(queue, ToA', ToB')
      BY <1>a, <2>2, CarriesMore
    <3>2. Append(queue["A"], Frame("offer", t, 0)) \in Seq(ToB')
      BY <1>d, <3>1, AppendProperties DEF Holds
    <3>3. Append(queue["A"], Frame("offer", t, 0)) \in Seq(AnyFrame)
      BY <3>2, ToAreFrames, SeqMonotonic
    <3> QED
      BY <2>1, <3>1, <3>2, <3>3 DEF Holds, Devices
  <2>5. QueueDrained'
    BY <1>a, <1>b, <2>1 DEF QueueDrained, links, Holds
  <2>6. calm' \subseteq calm \cup {t}
    BY <2>1 DEF history
  <2> QED
    BY <1>a, <1>b, <2>1, <2>3, <2>4, <2>5, <2>6, OpenKeepsSound DEF t
<1> QED
  BY <1>1, <1>2, <1>3

LEMMA SqueezeKeepsSound ==
  ASSUME Sound, Squeezed
  PROVE  Sound'
<1>a. /\ Carries(wire, ToA, ToB) /\ Holds(queue, ToA, ToB) /\ faults \in Nat
      /\ LinkTypes /\ QueueDrained /\ DeliveredIsWhole
      /\ TableSound /\ TableTypes /\ Counted /\ Placed /\ WaitingUnsent /\ ReceivedHasFile
      /\ "A" \in Devices
  BY DEF Sound, TableSound, Wired, HistoryTypes, Devices
<1> DEFINE old == Head(queue["A"])
           m == Msg(old.id)
           u == reg["A"][m]
<1>1. /\ conn["A"] = "backoff" /\ queue["A"] # <<>> /\ faults' = faults + 1
      /\ queue' = [queue EXCEPT !["A"] = Tail(@)]
      /\ \/ UNCHANGED <<phase, reg, status, file>>
         \/ u # NoId /\ CloseOne("A", u, "failed")
         \/ status' = [status EXCEPT !["A"][m] = "failed"] /\ UNCHANGED <<phase, reg, file>>
      /\ UNCHANGED <<links, wire, asked, tries, route, sent, got, history>>
  BY DEF Squeezed, Fault
<1>2. Tail(queue["A"]) \in Seq(ToB) /\ old \in ToB
  BY <1>a, <1>1, TakeFirst DEF Holds
<1>3. m \in Msgs
  BY <1>2 DEF ToB, AnyFrame, Ids, Msg
<1> HIDE DEF m
<1>4. u # NoId => u \in Ids
  BY <1>a, <1>3 DEF TableTypes
<1> HIDE DEF u, old
<1>5. Holds(queue', ToA, ToB)
  <2>1. Tail(queue["A"]) \in Seq(AnyFrame)
    BY <1>2, ToAreFrames, SeqMonotonic
  <2> QED
    BY <1>a, <1>1, <1>2, <2>1 DEF Holds, Devices
<1>6. LinkTypes' /\ QueueDrained'
  BY <1>a, <1>1 DEF LinkTypes, QueueDrained, links, Holds
<1>7. faults' \in Nat
  BY <1>a, <1>1
<1>8. /\ TableSound' /\ Shrinks
      /\ \A k \in Msgs : status'["A"][k] = "delivered" => k \in whole
  <2>1. CASE UNCHANGED <<phase, reg, status, file>>
    <3>1. UNCHANGED tables
      BY <1>1, <2>1 DEF tables
    <3> QED
      BY <1>a, <2>1, <3>1, SameTables DEF DeliveredIsWhole
  <2>2. CASE u # NoId /\ CloseOne("A", u, "failed")
    <3>1. "failed" \in StatusesOf("A") /\ "failed" # "received"
      BY DEF StatusesOf
    <3> QED
      BY <1>a, <1>1, <1>4, <2>2, <3>1, CloseOneKeepsTables, CloseOneDelivers
  <2>3. CASE status' = [status EXCEPT !["A"][m] = "failed"] /\ UNCHANGED <<phase, reg, file>>
    <3>1. /\ status' \in [Devices -> [Msgs -> {"absent", "pending", "sent", "delivered", "received", "failed"}]]
          /\ \A e \in Devices, k \in Msgs : status'[e][k] = IF e = "A" /\ k = m THEN "failed" ELSE status[e][k]
      BY <1>a, <1>3, <2>3 DEF TableTypes
    <3>2. ASSUME NEW e \in Devices PROVE status'[e] \in [Msgs -> StatusesOf(e)]
      <4>1. \A k \in Msgs : status[e][k] \in StatusesOf(e) /\ "failed" \in StatusesOf(e)
        BY <1>a DEF TableTypes, StatusesOf
      <4> QED
        BY <3>1, <4>1
    <3>3. TableTypes'
      BY <1>a, <1>1, <2>3, <3>1, <3>2 DEF TableTypes
    <3>4. Counted' /\ Placed' /\ WaitingUnsent' /\ Shrinks
      BY <1>a, <1>1, <2>3 DEF Counted, Placed, Table, WaitingUnsent, Shrinks
    <3>5. ReceivedHasFile'
      BY <1>a, <1>1, <2>3, <3>1 DEF ReceivedHasFile, Devices
    <3>6. \A k \in Msgs : status'["A"][k] = "delivered" => k \in whole
      BY <1>a, <3>1 DEF DeliveredIsWhole
    <3> QED
      BY <3>3, <3>4, <3>5, <3>6 DEF TableSound
  <2> QED
    BY <1>1, <2>1, <2>2, <2>3
<1> QED
  BY <1>a, <1>1, <1>5, <1>6, <1>7, <1>8, PlainShrink DEF history

LEMMA SendChunkKeepsSound ==
  ASSUME Sound, NEW t \in Ids, SendChunk(t)
  PROVE  Sound'
<1>a. /\ Carries(wire, ToA, ToB) /\ Holds(queue, ToA, ToB) /\ HistoryTypes
      /\ LinkTypes /\ QueueDrained /\ AskSound /\ DeliveredIsWhole
      /\ TableTypes /\ Counted /\ Placed /\ WaitingUnsent /\ ReceivedHasFile
      /\ "A" \in Devices /\ "B" \in Devices
  BY DEF Sound, TableSound, Wired, Devices
<1> DEFINE n == sent[t]
           end == IF n + 1 < Chunks[Msg(t)] THEN <<>> ELSE <<Frame("complete", t, 0)>>
<1>1. /\ phase["A"][t] = "sending" /\ n < Chunks[Msg(t)]
      /\ wire' = Put(route[t], "B", <<Frame("chunk", t, n)>> \o end)
      /\ sent' = [sent EXCEPT ![t] = @ + 1]
      /\ UNCHANGED <<links, queue, asked, tries, phase, route, got, reg, status, file, history, faults>>
  BY DEF SendChunk
<1>2. t \in Begun
  BY <1>a, <1>1, TableBegun
<1>3. /\ sent' \in [Ids -> Nat] /\ n \in Nat /\ sent'[t] = n + 1
      /\ \A u \in Ids \ {t} : sent'[u] = sent[u]
  BY <1>a, <1>1 DEF TableTypes
<1>4. AskSound' /\ Fresh' = Fresh
  BY <1>a, <1>1, SameAsks
<1>5. Counted'
  <2>1. ASSUME NEW u \in Ids PROVE got'[u] <= sent'[u] /\ sent'[u] <= Chunks[Msg(u)]
    <3>1. got[u] <= sent[u] /\ sent[u] <= Chunks[Msg(u)] /\ got[u] \in Nat /\ Chunks[Msg(u)] \in Nat
      BY <1>a, FileAssumption DEF Counted, TableTypes, Ids, Msg
    <3> QED
      BY <1>1, <1>3, <3>1
  <2> QED
    BY <2>1 DEF Counted
<1>6. TableSound'
  <2>1. TableTypes'
    BY <1>a, <1>1, <1>3 DEF TableTypes
  <2>2. Placed' /\ ReceivedHasFile'
    BY <1>a, <1>1 DEF Placed, Table, ReceivedHasFile
  <2>3. WaitingUnsent'
    BY <1>a, <1>1, <1>3 DEF WaitingUnsent
  <2> QED
    BY <1>5, <2>1, <2>2, <2>3 DEF TableSound
<1>7. Grows
  <2>1. \A u \in Ids : sent[u] \in Nat
    BY <1>a DEF TableTypes
  <2> QED
    BY <1>1, <1>3, <1>4, <2>1 DEF Grows, history
<1>8. ToA \subseteq ToA' /\ ToB \subseteq ToB'
  BY <1>3, <1>7, FramesStay
<1>9. <<Frame("chunk", t, n)>> \o end \in Seq(ToB')
  <2>1. Frame("chunk", t, n) \in ToB' /\ Frame("complete", t, 0) \in ToB'
    BY <1>2, <1>3, <1>4 DEF Frame, ToB, AnyFrame, Types, Begun
  <2>2. <<Frame("chunk", t, n)>> \in Seq(ToB') /\ end \in Seq(ToB')
    BY <2>1, EmptySeq
  <2> QED
    BY <2>2, ConcatProperties
<1>10. Carries(wire', ToA', ToB') /\ Holds(queue', ToA', ToB')
  <2>1. Carries(wire, ToA', ToB') /\ Holds(queue, ToA', ToB')
    BY <1>a, <1>8, CarriesMore
  <2>2. route[t] \in Legs
    BY <1>a DEF TableTypes
  <2> QED
    BY <1>a, <1>1, <1>9, <2>1, <2>2, PutCarries, ToAreFrames
<1>11. Spares
  <2>1. \A u \in Fresh : u \in Ids /\ u # t
    BY <1>a, <1>2 DEF AskSound, AskTypes, Fresh, AskedIds, Begun
  <2> QED
    BY <1>1, <1>3, <1>4, <2>1 DEF Spares, history
<1>12. LinkTypes' /\ HistoryTypes' /\ QueueDrained' /\ DeliveredIsWhole'
  BY <1>a, <1>1 DEF LinkTypes, links, HistoryTypes, history, QueueDrained, DeliveredIsWhole
<1> QED
  BY <1>4, <1>6, <1>7, <1>10, <1>11, <1>12, StepKeepsSound

-----------------------------------------------------------------------------
(* Types, whole files and received files                                   *)

LEMMA StutterKeepsSound == Sound /\ UNCHANGED vars => Sound'
<1> SUFFICES ASSUME Sound, UNCHANGED vars PROVE Sound'
  OBVIOUS
<1>1. /\ UNCHANGED <<asked, tries, tables, whole, gap, conn, channel, leg, wire, queue>>
      /\ calm' \subseteq calm /\ faults' = faults
  BY DEF vars, history, links
<1>2. LinkTypes' /\ QueueDrained' /\ faults' \in Nat
  BY <1>1 DEF Sound, LinkTypes, QueueDrained, HistoryTypes
<1>3. Carries(wire', ToA, ToB) /\ Holds(queue', ToA, ToB)
  BY <1>1 DEF Sound, Wired
<1> QED
  BY <1>1, <1>2, <1>3, PlainMove

LEMMA NextKeepsSound == Sound /\ [Next]_vars => Sound'
<1> SUFFICES ASSUME Sound, Next PROVE Sound'
  BY StutterKeepsSound
<1>1. CASE User
  BY <1>1, AskKeepsSound, AnswersKeepSound DEF User
<1>2. CASE Transfers
  BY <1>2, StartsKeepSound, SendChunkKeepsSound, ReadAKeepsSound, ReadBKeepsSound DEF Transfers, Read
<1>3. CASE Network
  BY <1>3, LegStepsKeepSound, SqueezeKeepsSound, SessionStepsKeepSound DEF Network
<1> QED
  BY <1>1, <1>2, <1>3 DEF Next

\* The inductive invariant holds in every behaviour.
THEOREM SoundAlways == Spec => []Sound
<1> QED
  BY InitSound, NextKeepsSound, PTL DEF Spec

\* Types, the bounds of the tables (MAX_ACTIVE_TRANSFERS), and that B has no
\* more chunks than A has sent (handle_transfer_chunk, send_next_chunk).
THEOREM TypeCorrect == Spec => []TypeOK
<1> QED
  BY SoundAlways, SoundTypes, PTL

\* A message that A shows as delivered is stored whole on B, for any number of
\* attempts, chunks and faults.
THEOREM DeliveredFilesAreWhole == Spec => []DeliveredIsWhole
<1>1. Sound => DeliveredIsWhole
  BY DEF Sound
<1> QED
  BY <1>1, SoundAlways, PTL

\* A message that B shows as received has its file.
THEOREM ReceivedFilesAreThere == Spec => []ReceivedHasFile
<1>1. Sound => ReceivedHasFile
  BY DEF Sound, TableSound
<1> QED
  BY <1>1, SoundAlways, PTL

\* What either side shows as done is done (close_transfer, history.rs), for any
\* number of attempts at any number of messages, chunks and faults.
THEOREM StatusesAreTrue == Spec => []StatusIsTrue
<1>1. DeliveredIsWhole /\ ReceivedHasFile => StatusIsTrue
  BY DEF StatusIsTrue
<1> QED
  BY <1>1, DeliveredFilesAreWhole, ReceivedFilesAreThere, PTL

-----------------------------------------------------------------------------
(* Nothing but a lost connection leaves a gap: the invariant               *)

Has(s, type, t) == \E i \in DOMAIN s : s[i].type = type /\ s[i].id = t
HasChunk(s, t, k) == \E i \in DOMAIN s : s[i].type = "chunk" /\ s[i].id = t /\ s[i].seq = k

\* An offer is sent once.
OneOffer(s, t) ==
  \A i, j \in DOMAIN s :
    s[i].type = "offer" /\ s[i].id = t /\ s[j].type = "offer" /\ s[j].id = t => i = j

\* Before s[n] come the chunks of t from number g up to number h.
Before(s, t, n, g, h) ==
  \A k \in g .. h - 1 :
    \E j \in 1 .. n - 1 : s[j].type = "chunk" /\ s[j].id = t /\ s[j].seq = k

\* The chunks of t in s go on from number g, none missing, and its end is behind
\* the last of them.
InLine(s, t, g) ==
  /\ \A i \in DOMAIN s :
       /\ s[i].type = "chunk" /\ s[i].id = t => g <= s[i].seq /\ Before(s, t, i, g, s[i].seq)
       /\ s[i].type = "complete" /\ s[i].id = t => Before(s, t, i, g, Chunks[Msg(t)])
  /\ \A i, j \in DOMAIN s :
       s[i].type = "chunk" /\ s[i].id = t /\ s[j].type = "chunk" /\ s[j].id = t /\ i < j
         => s[i].seq < s[j].seq

\* Nothing has told A that B accepts, and so A has sent nothing.
NotAccepted(t) ==
  /\ phase["A"][t] # "sending"
  /\ \A l \in Legs : /\ ~Has(wire[l]["A"], "accept", t)
                     /\ ~Has(wire[l]["B"], "chunk", t) /\ ~Has(wire[l]["B"], "complete", t)

\* Offers and chunks take the leg the transfer is pinned to.
Pinned(t) ==
  /\ \A l \in Legs : Has(wire[l]["B"], "offer", t) \/ Has(wire[l]["B"], "chunk", t) => l = route[t]
  /\ route[t] = "direct" /\ phase["A"][t] # "none" => leg["A"] = "verified"

Offered(t) ==
  \A l \in Legs :
    /\ OneOffer(wire[l]["B"], t)
    /\ Has(wire[l]["B"], "offer", t) => phase["B"][t] = "none" /\ NotAccepted(t)

Deciding(t) == phase["B"][t] = "deciding" => NotAccepted(t)

\* While B receives, what A has sent and B has not is on its way, in order: all of
\* it while A sends and the leg is there, else a first part of it.
Receiving(t) ==
  phase["B"][t] = "receiving" =>
    /\ \A l \in Legs : InLine(wire[l]["B"], t, got[t])
    /\ phase["A"][t] = "sending" /\ (route[t] = "relay" \/ channel) =>
         \A k \in got[t] .. sent[t] - 1 : HasChunk(wire[route[t]]["B"], t, k)

Calm(t) == Pinned(t) /\ Offered(t) /\ Deciding(t) /\ Receiving(t)
CalmLive == calm # {} => conn["A"] = "live" /\ conn["B"] = "live"

CalmSound == CalmLive /\ (\A t \in calm : Calm(t)) /\ GapNeedsLoss

-----------------------------------------------------------------------------
(* Frames in line                                                          *)

\* Frames that come behind the others, none of them an offer, a chunk or the end
\* of t, leave the line of t as it was.
LEMMA LineBehind ==
  ASSUME NEW s \in Seq(AnyFrame), NEW u \in Seq(AnyFrame), NEW t,
         \A type \in {"offer", "chunk", "complete"} : ~Has(u, type, t)
  PROVE  /\ \A type \in {"offer", "chunk", "complete"} : Has(s \o u, type, t) => Has(s, type, t)
         /\ \A k : HasChunk(s, t, k) => HasChunk(s \o u, t, k)
         /\ OneOffer(s, t) => OneOffer(s \o u, t)
         /\ \A g \in Nat : InLine(s, t, g) => InLine(s \o u, t, g)
<1> DEFINE v == s \o u
<1>1. /\ Len(s) \in Nat /\ Len(u) \in Nat /\ DOMAIN s = 1 .. Len(s) /\ DOMAIN u = 1 .. Len(u)
      /\ DOMAIN v = 1 .. Len(s) + Len(u)
      /\ \A i \in DOMAIN s : v[i] = s[i]
  BY ConcatProperties, LenProperties
<1>2. \A i \in DOMAIN v : i \notin DOMAIN s => i - Len(s) \in DOMAIN u /\ v[i] = u[i - Len(s)]
  BY <1>1, ConcatProperties
<1> HIDE DEF v
<1>3. \A i \in DOMAIN v : v[i].type \in {"offer", "chunk", "complete"} /\ v[i].id = t => i \in DOMAIN s
  BY <1>2 DEF Has
<1>4. \A type \in {"offer", "chunk", "complete"} : Has(v, type, t) => Has(s, type, t)
  BY <1>1, <1>3 DEF Has
<1>5. \A k : HasChunk(s, t, k) => HasChunk(v, t, k)
  BY <1>1 DEF HasChunk
<1>6. OneOffer(s, t) => OneOffer(v, t)
  BY <1>1, <1>3 DEF OneOffer
<1>7. ASSUME NEW g \in Nat, InLine(s, t, g)
      PROVE  InLine(v, t, g)
  <2>1. ASSUME NEW i \in DOMAIN s, NEW h, Before(s, t, i, g, h)
        PROVE  Before(v, t, i, g, h)
    BY <1>1, <2>1 DEF Before
  <2> QED
    BY <1>1, <1>3, <1>7, <2>1 DEF InLine
<1> QED
  BY <1>4, <1>5, <1>6, <1>7 DEF v

\* What is left of a line when it is cut is a line.
LEMMA LineCut ==
  ASSUME NEW s \in Seq(AnyFrame), NEW v \in Prefixes(s), NEW t
  PROVE  /\ \A type : Has(v, type, t) => Has(s, type, t)
         /\ OneOffer(s, t) => OneOffer(v, t)
         /\ \A g \in Nat : InLine(s, t, g) => InLine(v, t, g)
<1>1. PICK n \in 0 .. Len(s) : v = SubSeq(s, 1, n)
  BY DEF Prefixes
<1>2. /\ Len(s) \in Nat /\ DOMAIN s = 1 .. Len(s) /\ DOMAIN v \subseteq DOMAIN s
      /\ DOMAIN v = 1 .. n /\ \A i \in DOMAIN v : v[i] = s[i]
  <2>1. Len(s) \in Nat /\ DOMAIN s = 1 .. Len(s)
    BY LenProperties
  <2>2. \A i \in 1 .. n : s[i] \in AnyFrame
    BY <2>1, ElementOfSeq
  <2>3. /\ v \in Seq(AnyFrame)
        /\ Len(v) = IF 1 <= n THEN n - 1 + 1 ELSE 0
        /\ \A i \in 1 .. n - 1 + 1 : v[i] = s[1 + i - 1]
    BY <1>1, <2>1, <2>2, SubSeqProperties
  <2>4. Len(v) = n /\ DOMAIN v = 1 .. n
    BY <2>1, <2>3, LenProperties
  <2> QED
    BY <2>1, <2>3, <2>4
<1>3. \A type : Has(v, type, t) => Has(s, type, t)
  BY <1>2 DEF Has
<1>4. OneOffer(s, t) => OneOffer(v, t)
  BY <1>2 DEF OneOffer
<1>5. ASSUME NEW g \in Nat, InLine(s, t, g)
      PROVE  InLine(v, t, g)
  <2>1. ASSUME NEW i \in DOMAIN v, NEW h, Before(s, t, i, g, h)
        PROVE  Before(v, t, i, g, h)
    BY <1>2, <2>1 DEF Before
  <2> QED
    BY <1>2, <1>5, <2>1 DEF InLine
<1> QED
  BY <1>3, <1>4, <1>5

\* The first frame is taken off.
LEMMA LineTail ==
  ASSUME NEW s \in Seq(AnyFrame), s # <<>>, NEW t
  PROVE  /\ \A type : Has(Tail(s), type, t) => Has(s, type, t)
         /\ OneOffer(s, t) => OneOffer(Tail(s), t)
         /\ OneOffer(s, t) /\ Head(s).type = "offer" /\ Head(s).id = t => ~Has(Tail(s), "offer", t)
         /\ ~(Head(s).type = "chunk" /\ Head(s).id = t) =>
              /\ \A g \in Nat : InLine(s, t, g) => InLine(Tail(s), t, g)
              /\ \A k : HasChunk(s, t, k) => HasChunk(Tail(s), t, k)
<1> DEFINE v == Tail(s)
<1>1. /\ Len(s) \in Nat /\ Len(s) >= 1 /\ DOMAIN s = 1 .. Len(s)
      /\ DOMAIN v = 1 .. Len(s) - 1
      /\ Head(s) = s[1]
      /\ \A i \in DOMAIN v : i + 1 \in DOMAIN s /\ v[i] = s[i + 1]
  <2>1. Len(s) \in Nat /\ DOMAIN s = 1 .. Len(s) /\ Len(s) >= 1
    BY LenProperties, EmptySeq
  <2>2. v \in Seq(AnyFrame) /\ Len(v) = Len(s) - 1 /\ \A i \in 1 .. Len(v) : v[i] = s[i + 1]
    BY HeadTailProperties
  <2>3. DOMAIN v = 1 .. Len(v)
    BY <2>2, LenProperties
  <2> QED
    BY <2>1, <2>2, <2>3
<1> HIDE DEF v
<1>2. \A type : Has(v, type, t) => Has(s, type, t)
  BY <1>1 DEF Has
<1>3. OneOffer(s, t) => OneOffer(v, t)
  <2> SUFFICES ASSUME OneOffer(s, t), NEW i \in DOMAIN v, NEW j \in DOMAIN v,
                      v[i].type = "offer", v[i].id = t, v[j].type = "offer", v[j].id = t
               PROVE  i = j
    BY DEF OneOffer
  <2>1. i + 1 = j + 1
    BY <1>1 DEF OneOffer
  <2>2. i \in Int /\ j \in Int
    BY <1>1
  <2> QED
    BY <2>1, <2>2
<1>4. OneOffer(s, t) /\ Head(s).type = "offer" /\ Head(s).id = t => ~Has(v, "offer", t)
  <2> SUFFICES ASSUME OneOffer(s, t), Head(s).type = "offer", Head(s).id = t,
                      NEW i \in DOMAIN v, v[i].type = "offer", v[i].id = t
               PROVE  FALSE
    BY DEF Has
  <2>1. 1 \in DOMAIN s /\ i + 1 \in DOMAIN s /\ s[1].type = "offer" /\ s[1].id = t
        /\ s[i + 1].type = "offer" /\ s[i + 1].id = t
    BY <1>1
  <2>2. i + 1 = 1
    BY <2>1 DEF OneOffer
  <2>3. i \in Nat /\ i >= 1
    BY <1>1
  <2> QED
    BY <2>2, <2>3
<1>5. ASSUME ~(Head(s).type = "chunk" /\ Head(s).id = t)
      PROVE  /\ \A g \in Nat : InLine(s, t, g) => InLine(v, t, g)
             /\ \A k : HasChunk(s, t, k) => HasChunk(v, t, k)
  <2>1. \A j \in DOMAIN s : s[j].type = "chunk" /\ s[j].id = t => j - 1 \in DOMAIN v /\ v[j - 1] = s[j]
    <3> SUFFICES ASSUME NEW j \in DOMAIN s, s[j].type = "chunk", s[j].id = t
                 PROVE  j - 1 \in DOMAIN v /\ v[j - 1] = s[j]
      OBVIOUS
    <3>1. j # 1
      BY <1>1, <1>5
    <3>2. j - 1 \in DOMAIN v /\ (j - 1) + 1 = j
      BY <1>1, <3>1
    <3> QED
      BY <1>1, <3>2
  <2>2. \A k : HasChunk(s, t, k) => HasChunk(v, t, k)
    BY <2>1 DEF HasChunk
  <2>3. ASSUME NEW i \in DOMAIN v, NEW g, NEW h, Before(s, t, i + 1, g, h)
        PROVE  Before(v, t, i, g, h)
    <3> SUFFICES ASSUME NEW k \in g .. h - 1
                 PROVE  \E j \in 1 .. i - 1 : v[j].type = "chunk" /\ v[j].id = t /\ v[j].seq = k
      BY DEF Before
    <3>1. PICK j \in 1 .. (i + 1) - 1 : s[j].type = "chunk" /\ s[j].id = t /\ s[j].seq = k
      BY <2>3 DEF Before
    <3>2. j \in DOMAIN s
      BY <1>1
    <3>3. v[j - 1] = s[j] /\ j - 1 \in DOMAIN v
      BY <2>1, <3>1, <3>2
    <3>4. j - 1 \in 1 .. i - 1
      BY <1>1, <3>3
    <3> QED
      BY <3>1, <3>3, <3>4
  <2>4. ASSUME NEW g \in Nat, InLine(s, t, g)
        PROVE  InLine(v, t, g)
    <3>1. ASSUME NEW i \in DOMAIN v
          PROVE  /\ v[i].type = "chunk" /\ v[i].id = t => g <= v[i].seq /\ Before(v, t, i, g, v[i].seq)
                 /\ v[i].type = "complete" /\ v[i].id = t => Before(v, t, i, g, Chunks[Msg(t)])
      BY <1>1, <2>3, <2>4 DEF InLine
    <3>2. ASSUME NEW i \in DOMAIN v, NEW j \in DOMAIN v, v[i].type = "chunk", v[i].id = t,
                 v[j].type = "chunk", v[j].id = t, i < j
          PROVE  v[i].seq < v[j].seq
      <4>1. i + 1 < j + 1
        BY <1>1, <3>2
      <4> QED
        BY <1>1, <2>4, <3>2, <4>1 DEF InLine
    <3> QED
      BY <3>1, <3>2 DEF InLine
  <2> QED
    BY <2>2, <2>4
<1> QED
  BY <1>2, <1>3, <1>4, <1>5 DEF v

\* A chunk that comes first is the one that is next, and takes the line on.
LEMMA LineChunk ==
  ASSUME NEW s \in Seq(AnyFrame), s # <<>>, NEW t, NEW g \in Nat, InLine(s, t, g),
         Head(s).type = "chunk", Head(s).id = t
  PROVE  /\ Head(s).seq = g
         /\ InLine(Tail(s), t, g + 1)
         /\ \A k \in Nat : g < k /\ HasChunk(s, t, k) => HasChunk(Tail(s), t, k)
<1> DEFINE v == Tail(s)
<1>1. /\ Len(s) \in Nat /\ Len(s) >= 1 /\ DOMAIN s = 1 .. Len(s)
      /\ DOMAIN v = 1 .. Len(s) - 1
      /\ Head(s) = s[1]
      /\ \A i \in DOMAIN v : i + 1 \in DOMAIN s /\ v[i] = s[i + 1]
      /\ \A i \in DOMAIN s : s[i] \in AnyFrame
  <2>1. Len(s) \in Nat /\ DOMAIN s = 1 .. Len(s) /\ Len(s) >= 1
    BY LenProperties, EmptySeq
  <2>2. v \in Seq(AnyFrame) /\ Len(v) = Len(s) - 1 /\ \A i \in 1 .. Len(v) : v[i] = s[i + 1]
    BY HeadTailProperties
  <2>3. DOMAIN v = 1 .. Len(v)
    BY <2>2, LenProperties
  <2>4. \A i \in DOMAIN s : s[i] \in AnyFrame
    BY <2>1, ElementOfSeq
  <2> QED
    BY <2>1, <2>2, <2>3, <2>4
<1> HIDE DEF v
<1>2. s[1].type = "chunk" /\ s[1].id = t /\ s[1].seq \in Nat /\ 1 \in DOMAIN s
  BY <1>1 DEF AnyFrame
<1>3. s[1].seq = g
  <2>1. g <= s[1].seq /\ Before(s, t, 1, g, s[1].seq)
    BY <1>2 DEF InLine
  <2>2. g \notin g .. s[1].seq - 1
    BY <2>1 DEF Before
  <2> QED
    BY <1>2, <2>1, <2>2
<1>4. \A j \in DOMAIN s : j # 1 => j - 1 \in DOMAIN v /\ v[j - 1] = s[j]
  <2> SUFFICES ASSUME NEW j \in DOMAIN s, j # 1 PROVE j - 1 \in DOMAIN v /\ v[j - 1] = s[j]
    OBVIOUS
  <2>1. j - 1 \in DOMAIN v /\ (j - 1) + 1 = j
    BY <1>1
  <2> QED
    BY <1>1, <2>1
<1>5. \A k \in Nat : g < k /\ HasChunk(s, t, k) => HasChunk(v, t, k)
  <2> SUFFICES ASSUME NEW k \in Nat, g < k, HasChunk(s, t, k) PROVE HasChunk(v, t, k)
    OBVIOUS
  <2>1. PICK j \in DOMAIN s : s[j].type = "chunk" /\ s[j].id = t /\ s[j].seq = k
    BY DEF HasChunk
  <2>2. j # 1
    BY <1>3, <2>1
  <2> QED
    BY <1>4, <2>1, <2>2 DEF HasChunk
<1>6. ASSUME NEW i \in DOMAIN v, NEW h, Before(s, t, i + 1, g, h)
      PROVE  Before(v, t, i, g + 1, h)
  <2> SUFFICES ASSUME NEW k \in g + 1 .. h - 1
               PROVE  \E j \in 1 .. i - 1 : v[j].type = "chunk" /\ v[j].id = t /\ v[j].seq = k
    BY DEF Before
  <2>1. k \in g .. h - 1 /\ k # g
    OBVIOUS
  <2>2. PICK j \in 1 .. (i + 1) - 1 : s[j].type = "chunk" /\ s[j].id = t /\ s[j].seq = k
    BY <1>6, <2>1 DEF Before
  <2>3. j \in DOMAIN s /\ j # 1
    BY <1>1, <1>3, <2>1, <2>2
  <2>4. v[j - 1] = s[j] /\ j - 1 \in DOMAIN v
    BY <1>4, <2>3
  <2>5. j - 1 \in 1 .. i - 1
    BY <1>1, <2>4
  <2> QED
    BY <2>2, <2>4, <2>5
<1>7. InLine(v, t, g + 1)
  <2>1. ASSUME NEW i \in DOMAIN v, v[i].type = "chunk", v[i].id = t
        PROVE  g + 1 <= v[i].seq /\ Before(v, t, i, g + 1, v[i].seq)
    <3>1. s[i + 1] = v[i] /\ i + 1 \in DOMAIN s /\ 1 < i + 1 /\ v[i].seq \in Nat
      BY <1>1 DEF AnyFrame
    <3>2. s[1].seq < s[i + 1].seq
      BY <1>2, <2>1, <3>1 DEF InLine
    <3>3. Before(s, t, i + 1, g, s[i + 1].seq)
      BY <2>1, <3>1 DEF InLine
    <3> QED
      BY <1>3, <1>6, <3>1, <3>2, <3>3
  <2>2. ASSUME NEW i \in DOMAIN v, v[i].type = "complete", v[i].id = t
        PROVE  Before(v, t, i, g + 1, Chunks[Msg(t)])
    <3>1. s[i + 1] = v[i] /\ i + 1 \in DOMAIN s
      BY <1>1
    <3> QED
      BY <1>6, <2>2, <3>1 DEF InLine
  <2>3. ASSUME NEW i \in DOMAIN v, NEW j \in DOMAIN v, v[i].type = "chunk", v[i].id = t,
               v[j].type = "chunk", v[j].id = t, i < j
        PROVE  v[i].seq < v[j].seq
    <3>1. i + 1 < j + 1
      BY <1>1, <2>3
    <3> QED
      BY <1>1, <2>3, <3>1 DEF InLine
  <2> QED
    BY <2>1, <2>2, <2>3 DEF InLine
<1> QED
  BY <1>1, <1>3, <1>5, <1>7 DEF v

\* The next chunk is put behind all the others, and behind the last one the end.
LEMMA LineSend ==
  ASSUME NEW s \in Seq(AnyFrame), NEW t \in Ids, NEW g \in Nat, NEW n \in Nat, InLine(s, t, g), g <= n,
         \A k \in g .. n - 1 : HasChunk(s, t, k),
         \A i \in DOMAIN s : s[i].type = "chunk" /\ s[i].id = t => s[i].seq < n,
         NEW end \in {<<>>, <<Frame("complete", t, 0)>>}, n < Chunks[Msg(t)],
         n + 1 < Chunks[Msg(t)] => end = <<>>
  PROVE  /\ InLine(s \o (<<Frame("chunk", t, n)>> \o end), t, g)
         /\ \A k \in g .. n : HasChunk(s \o (<<Frame("chunk", t, n)>> \o end), t, k)
<1> DEFINE u == <<Frame("chunk", t, n)>> \o end
           v == s \o u
<1>0. Frame("chunk", t, n) \in AnyFrame /\ Frame("complete", t, 0) \in AnyFrame
  BY DEF Frame, AnyFrame, Types
<1>1. /\ u \in Seq(AnyFrame) /\ Len(u) \in 1 .. 2 /\ u[1] = Frame("chunk", t, n)
      /\ Len(u) = 2 => end # <<>> /\ u[2] = Frame("complete", t, 0)
  <2> DEFINE a == <<Frame("chunk", t, n)>>
             b == <<Frame("complete", t, 0)>>
  <2>1. /\ a \in Seq(AnyFrame) /\ Len(a) = 1 /\ a[1] = Frame("chunk", t, n)
        /\ b \in Seq(AnyFrame) /\ Len(b) = 1 /\ b[1] = Frame("complete", t, 0)
    BY <1>0
  <2>2. u = a \o end /\ end \in {<<>>, b}
    OBVIOUS
  <2> HIDE DEF a, b, u
  <2>3. CASE end = <<>>
    <3>1. u = a
      BY <2>1, <2>2, <2>3, ConcatEmptySeq
    <3> QED
      BY <2>1, <3>1
  <2>4. CASE end = b
    <3>1. /\ a \o b \in Seq(AnyFrame) /\ Len(a \o b) = Len(a) + Len(b)
          /\ \A i \in 1 .. Len(a) + Len(b) : (a \o b)[i] = IF i <= Len(a) THEN a[i] ELSE b[i - Len(a)]
      BY <2>1, ConcatProperties
    <3>2. (a \o b)[1] = a[1] /\ (a \o b)[2] = b[1] /\ b # <<>> /\ Len(a \o b) = 2
      BY <2>1, <3>1
    <3> QED
      BY <2>1, <2>2, <2>4, <3>1, <3>2
  <2> QED
    BY <2>2, <2>3, <2>4
<1> HIDE DEF u
<1>2. /\ Len(s) \in Nat /\ DOMAIN s = 1 .. Len(s) /\ DOMAIN v = 1 .. Len(s) + Len(u)
      /\ \A i \in DOMAIN s : v[i] = s[i]
      /\ v[Len(s) + 1] = Frame("chunk", t, n) /\ Len(s) + 1 \in DOMAIN v
      /\ \A i \in DOMAIN v : i \in DOMAIN s \/ i = Len(s) + 1 \/ (i = Len(s) + 2 /\ v[i] = Frame("complete", t, 0) /\ end # <<>>)
  <2>1. Len(s) \in Nat /\ DOMAIN s = 1 .. Len(s)
    BY LenProperties
  <2>2. v \in Seq(AnyFrame) /\ Len(v) = Len(s) + Len(u) /\ DOMAIN v = 1 .. Len(v)
    BY <1>1, ConcatProperties, LenProperties
  <2>3. \A i \in 1 .. Len(s) + Len(u) : v[i] = IF i <= Len(s) THEN s[i] ELSE u[i - Len(s)]
    BY <1>1, ConcatProperties
  <2> HIDE DEF v
  <2>4. \A i \in DOMAIN s : v[i] = s[i]
    BY <1>1, <2>1, <2>3
  <2>5. Len(s) + 1 \in DOMAIN v /\ v[Len(s) + 1] = u[1]
    BY <1>1, <2>1, <2>2, <2>3
  <2>6. \A i \in DOMAIN v : i \in DOMAIN s \/ i = Len(s) + 1 \/ (i = Len(s) + 2 /\ v[i] = u[2] /\ Len(u) = 2)
    BY <1>1, <2>1, <2>2, <2>3
  <2> QED
    BY <1>1, <2>1, <2>2, <2>4, <2>5, <2>6
<1> HIDE DEF v
<1>3. \A k \in g .. n - 1 : \E j \in 1 .. Len(s) : v[j].type = "chunk" /\ v[j].id = t /\ v[j].seq = k
  BY <1>2 DEF HasChunk
<1>4. v[Len(s) + 1].type = "chunk" /\ v[Len(s) + 1].id = t /\ v[Len(s) + 1].seq = n
  BY <1>2 DEF Frame
<1>5. \A k \in g .. n : \E j \in 1 .. Len(s) + 1 : v[j].type = "chunk" /\ v[j].id = t /\ v[j].seq = k
  <2> SUFFICES ASSUME NEW k \in g .. n
               PROVE  \E j \in 1 .. Len(s) + 1 : v[j].type = "chunk" /\ v[j].id = t /\ v[j].seq = k
    OBVIOUS
  <2>1. CASE k = n
    BY <1>2, <1>4, <2>1
  <2>2. CASE k # n
    <3>1. k \in g .. n - 1
      BY <2>2
    <3> QED
      BY <1>2, <1>3, <3>1
  <2> QED
    BY <2>1, <2>2
<1>6. ASSUME NEW i \in DOMAIN v, v[i].type = "chunk", v[i].id = t
      PROVE  g <= v[i].seq /\ Before(v, t, i, g, v[i].seq)
  <2>1. CASE i \in DOMAIN s
    <3>1. v[i] = s[i] /\ s[i].type = "chunk" /\ s[i].id = t
      BY <1>2, <1>6, <2>1
    <3>2. g <= s[i].seq /\ Before(s, t, i, g, s[i].seq)
      BY <2>1, <3>1 DEF InLine
    <3>3. Before(v, t, i, g, s[i].seq)
      BY <1>2, <2>1, <3>2 DEF Before
    <3> QED
      BY <3>1, <3>2, <3>3
  <2>2. CASE i = Len(s) + 1
    <3>1. i - 1 = Len(s)
      BY <1>2, <2>2
    <3> QED
      BY <1>3, <1>4, <2>2, <3>1 DEF Before
  <2>3. CASE v[i] = Frame("complete", t, 0)
    BY <1>6, <2>3 DEF Frame
  <2> QED
    BY <1>2, <2>1, <2>2, <2>3
<1>7. ASSUME NEW i \in DOMAIN v, v[i].type = "complete", v[i].id = t
      PROVE  Before(v, t, i, g, Chunks[Msg(t)])
  <2>1. CASE i \in DOMAIN s
    <3>1. v[i] = s[i] /\ s[i].type = "complete" /\ s[i].id = t
      BY <1>2, <1>7, <2>1
    <3>2. Before(s, t, i, g, Chunks[Msg(t)])
      BY <2>1, <3>1 DEF InLine
    <3> QED
      BY <1>2, <2>1, <3>2 DEF Before
  <2>2. CASE i = Len(s) + 1
    BY <1>4, <1>7, <2>2
  <2>3. CASE i = Len(s) + 2 /\ end # <<>>
    <3>1. Chunks[Msg(t)] \in Nat
      BY FileAssumption DEF Ids, Msg
    <3>2. Chunks[Msg(t)] - 1 = n
      BY <2>3, <3>1
    <3>3. i - 1 = Len(s) + 1
      BY <1>2, <2>3
    <3> QED
      BY <1>5, <3>2, <3>3 DEF Before
  <2> QED
    BY <1>2, <2>1, <2>2, <2>3
<1>8. ASSUME NEW i \in DOMAIN v, NEW j \in DOMAIN v, v[i].type = "chunk", v[i].id = t,
             v[j].type = "chunk", v[j].id = t, i < j
      PROVE  v[i].seq < v[j].seq
  <2>1. \A k \in DOMAIN v : v[k].type = "chunk" => k \in DOMAIN s \/ k = Len(s) + 1
    BY <1>2 DEF Frame
  <2>2. i \in DOMAIN s
    BY <1>2, <1>8, <2>1
  <2>3. CASE j \in DOMAIN s
    BY <1>2, <1>8, <2>2, <2>3 DEF InLine
  <2>4. CASE j = Len(s) + 1
    BY <1>2, <1>4, <1>8, <2>2, <2>4
  <2> QED
    BY <1>8, <2>1, <2>3, <2>4
<1>9. \A k \in g .. n : HasChunk(v, t, k)
  <2> SUFFICES ASSUME NEW k \in g .. n PROVE HasChunk(v, t, k)
    OBVIOUS
  <2>1. PICK j \in 1 .. Len(s) + 1 : v[j].type = "chunk" /\ v[j].id = t /\ v[j].seq = k
    BY <1>5
  <2>2. j \in DOMAIN v
    BY <1>1, <1>2
  <2> QED
    BY <2>1, <2>2 DEF HasChunk
<1>10. InLine(v, t, g)
  BY <1>6, <1>7, <1>8 DEF InLine
<1> QED
  BY <1>9, <1>10 DEF v, u

\* The end of an empty file is in line wherever it is put, and so is nothing.
LEMMA LineEmpty ==
  ASSUME NEW s \in Seq(AnyFrame), NEW t \in Ids, ~Has(s, "chunk", t),
         ~Has(s, "complete", t) \/ Chunks[Msg(t)] = 0
  PROVE  \A g \in Nat : InLine(s, t, g)
<1> SUFFICES ASSUME NEW g \in Nat PROVE InLine(s, t, g)
  OBVIOUS
<1>1. \A i \in DOMAIN s : ~(s[i].type = "chunk" /\ s[i].id = t)
  BY DEF Has
<1>2. ASSUME NEW i \in DOMAIN s, s[i].type = "complete", s[i].id = t
      PROVE  Before(s, t, i, g, Chunks[Msg(t)])
  <2>1. Chunks[Msg(t)] = 0
    BY <1>2 DEF Has
  <2>2. g .. 0 - 1 = {}
    OBVIOUS
  <2> QED
    BY <2>1, <2>2 DEF Before
<1> QED
  BY <1>1, <1>2 DEF InLine

-----------------------------------------------------------------------------
(* Steps of the wires that mean nothing to a transfer                      *)

Wires == [Legs -> [Devices -> Seq(AnyFrame)]]

\* Nothing is new on the wires that the invariant speaks of.
Quiet(w, v, t) ==
  \A l \in Legs :
    /\ Has(v[l]["A"], "accept", t) => Has(w[l]["A"], "accept", t)
    /\ \A type \in {"offer", "chunk", "complete"} : Has(v[l]["B"], type, t) => Has(w[l]["B"], type, t)
    /\ OneOffer(w[l]["B"], t) => OneOffer(v[l]["B"], t)

\* What was in line stays in line ...
InOrder(w, v, t) ==
  \A l \in Legs, g \in Nat : InLine(w[l]["B"], t, g) => InLine(v[l]["B"], t, g)

\* ... and what was on its way still is.
OnItsWay(w, v, t, l) == \A k : HasChunk(w[l]["B"], t, k) => HasChunk(v[l]["B"], t, k)

Unmoved(w, v, t) == Quiet(w, v, t) /\ InOrder(w, v, t) /\ \A l \in Legs : OnItsWay(w, v, t, l)

LEMMA UnmovedTwice ==
  ASSUME NEW w, NEW v, NEW x, NEW t, Unmoved(v, x, t)
  PROVE  /\ Unmoved(w, v, t) => Unmoved(w, x, t)
         /\ Quiet(w, v, t) => Quiet(w, x, t)
BY DEF Unmoved, Quiet, InOrder, OnItsWay

LEMMA HasBehind ==
  ASSUME NEW s \in Seq(AnyFrame), NEW u \in Seq(AnyFrame), NEW t, NEW type, Has(s \o u, type, t)
  PROVE  Has(s, type, t) \/ Has(u, type, t)
<1>1. PICK i \in DOMAIN (s \o u) : (s \o u)[i].type = type /\ (s \o u)[i].id = t
  BY DEF Has
<1>2. /\ Len(s) \in Nat /\ Len(u) \in Nat /\ DOMAIN s = 1 .. Len(s) /\ DOMAIN u = 1 .. Len(u)
      /\ i \in 1 .. Len(s) + Len(u)
  BY <1>1, ConcatProperties, LenProperties
<1>3. CASE i <= Len(s)
  <2>1. i \in DOMAIN s /\ (s \o u)[i] = s[i]
    BY <1>2, <1>3, ConcatProperties
  <2> QED
    BY <1>1, <2>1 DEF Has
<1>4. CASE ~(i <= Len(s))
  <2>1. i - Len(s) \in DOMAIN u /\ (s \o u)[i] = u[i - Len(s)]
    BY <1>2, <1>4, ConcatProperties
  <2> QED
    BY <1>1, <2>1 DEF Has
<1> QED
  BY <1>3, <1>4

\* Frames that say nothing of t to the device they go to.
Strange(d, s, t) ==
  IF d = "A" THEN ~Has(s, "accept", t)
  ELSE \A type \in {"offer", "chunk", "complete"} : ~Has(s, type, t)

LEMMA HasOne ==
  ASSUME NEW f, NEW t
  PROVE  /\ \A type : Has(<<f>>, type, t) => f.type = type /\ f.id = t
         /\ \A type : ~Has(<<>>, type, t)
BY DEF Has

LEMMA StrangeOne ==
  ASSUME NEW f, NEW t, NEW d
  PROVE  /\ f.id # t => Strange(d, <<f>>, t)
         /\ f.type \in {"reject", "cancel", "verified", "refused"} => Strange(d, <<f>>, t)
         /\ Strange(d, <<>>, t)
<1>1. \A type : Has(<<f>>, type, t) => f.type = type /\ f.id = t
  BY HasOne
<1>2. \A type : ~Has(<<>>, type, t)
  BY HasOne
<1>3. f.id # t => Strange(d, <<f>>, t)
  BY <1>1 DEF Strange
<1>4. f.type \in {"reject", "cancel", "verified", "refused"} => Strange(d, <<f>>, t)
  BY <1>1 DEF Strange
<1>5. Strange(d, <<>>, t)
  BY <1>2 DEF Strange
<1> QED
  BY <1>3, <1>4, <1>5

Behind(w, l, d, s) == [w EXCEPT ![l][d] = @ \o s]

LEMMA UnmovedByPut ==
  ASSUME NEW w \in Wires, NEW l \in Legs, NEW d \in Devices, NEW s \in Seq(AnyFrame), NEW t, Strange(d, s, t)
  PROVE  Unmoved(w, Behind(w, l, d, s), t)
<1> DEFINE v == Behind(w, l, d, s)
<1>1. \A k \in Legs, e \in Devices : v[k][e] = IF k = l /\ e = d THEN w[k][e] \o s ELSE w[k][e]
  BY DEF Wires, Behind
<1>2. \A k \in Legs, e \in Devices : w[k][e] \in Seq(AnyFrame)
  BY DEF Wires
<1> HIDE DEF v
<1>3. ASSUME NEW k \in Legs, Has(v[k]["A"], "accept", t)
      PROVE  Has(w[k]["A"], "accept", t)
  <2>1. CASE k = l /\ d = "A"
    <3>1. v[k]["A"] = w[k]["A"] \o s /\ w[k]["A"] \in Seq(AnyFrame)
      BY <1>1, <1>2, <2>1
    <3> QED
      BY <1>3, <2>1, <3>1, HasBehind DEF Strange
  <2>2. CASE ~(k = l /\ d = "A")
    BY <1>1, <1>3, <2>2 DEF Devices
  <2> QED
    BY <2>1, <2>2
<1>4. ASSUME NEW k \in Legs
      PROVE  /\ \A type \in {"offer", "chunk", "complete"} : Has(v[k]["B"], type, t) => Has(w[k]["B"], type, t)
             /\ OneOffer(w[k]["B"], t) => OneOffer(v[k]["B"], t)
             /\ \A g \in Nat : InLine(w[k]["B"], t, g) => InLine(v[k]["B"], t, g)
             /\ \A h : HasChunk(w[k]["B"], t, h) => HasChunk(v[k]["B"], t, h)
  <2>1. CASE k = l /\ d = "B"
    <3>1. v[k]["B"] = w[k]["B"] \o s /\ w[k]["B"] \in Seq(AnyFrame)
      BY <1>1, <1>2, <2>1
    <3>2. \A type \in {"offer", "chunk", "complete"} : ~Has(s, type, t)
      BY <2>1 DEF Strange
    <3> QED
      BY <3>1, <3>2, LineBehind
  <2>2. CASE ~(k = l /\ d = "B")
    <3>1. v[k]["B"] = w[k]["B"]
      BY <1>1, <2>2 DEF Devices
    <3> QED
      BY <3>1
  <2> QED
    BY <2>1, <2>2
<1>5. Unmoved(w, v, t)
  BY <1>3, <1>4 DEF Unmoved, Quiet, InOrder, OnItsWay
<1> QED
  BY <1>5 DEF v

LEMMA PutUnmoved ==
  ASSUME wire \in Wires, NEW l \in Legs, NEW d \in Devices, NEW s \in Seq(AnyFrame), NEW t, Strange(d, s, t)
  PROVE  Unmoved(wire, Put(l, d, s), t)
<1>1. CASE l = "direct" /\ ~channel
  BY <1>1 DEF Put, Unmoved, Quiet, InOrder, OnItsWay
<1>2. CASE ~(l = "direct" /\ ~channel)
  <2>1. Put(l, d, s) = Behind(wire, l, d, s)
    BY <1>2 DEF Put, Behind
  <2> QED
    BY <2>1, UnmovedByPut
<1> QED
  BY <1>1, <1>2

\* The frame that d takes off the leg is a chunk of t.
NextChunk(d, l, t) == d = "B" /\ Head(wire[l]["B"]).type = "chunk" /\ Head(wire[l]["B"]).id = t

\* Taking a frame off is quiet; it moves a transfer on when it is one of its chunks.
LEMMA TookQuiet ==
  ASSUME wire \in Wires, NEW l \in Legs, NEW d \in Devices, wire[l][d] # <<>>, NEW t
  PROVE  /\ Took(d, l) \in Wires
         /\ Quiet(wire, Took(d, l), t)
         /\ ~NextChunk(d, l, t) => Unmoved(wire, Took(d, l), t)
<1> DEFINE v == Took(d, l)
<1>1. v = [wire EXCEPT ![l][d] = Tail(@)]
  BY DEF Took
<1>2. wire[l][d] \in Seq(AnyFrame) /\ Tail(wire[l][d]) \in Seq(AnyFrame)
  BY TakeFirst DEF Wires
<1>3. \A k \in Legs, e \in Devices : v[k][e] = IF k = l /\ e = d THEN Tail(wire[k][e]) ELSE wire[k][e]
  BY <1>1 DEF Wires
<1>4. v \in Wires
  BY <1>1, <1>2 DEF Wires
<1> HIDE DEF v
<1>5. ASSUME NEW k \in Legs, Has(v[k]["A"], "accept", t)
      PROVE  Has(wire[k]["A"], "accept", t)
  <2>1. CASE k = l /\ d = "A"
    <3>1. v[k]["A"] = Tail(wire[k]["A"]) /\ wire[k]["A"] \in Seq(AnyFrame) /\ wire[k]["A"] # <<>>
      BY <1>2, <1>3, <2>1
    <3> QED
      BY <1>5, <3>1, LineTail
  <2>2. CASE ~(k = l /\ d = "A")
    BY <1>3, <1>5, <2>2 DEF Devices
  <2> QED
    BY <2>1, <2>2
<1>6. ASSUME NEW k \in Legs
      PROVE  /\ \A type \in {"offer", "chunk", "complete"} : Has(v[k]["B"], type, t) => Has(wire[k]["B"], type, t)
             /\ OneOffer(wire[k]["B"], t) => OneOffer(v[k]["B"], t)
             /\ ~NextChunk(d, l, t) =>
                    /\ \A g \in Nat : InLine(wire[k]["B"], t, g) => InLine(v[k]["B"], t, g)
                    /\ \A h : HasChunk(wire[k]["B"], t, h) => HasChunk(v[k]["B"], t, h)
  <2>1. CASE k = l /\ d = "B"
    <3>1. v[k]["B"] = Tail(wire[k]["B"]) /\ wire[k]["B"] \in Seq(AnyFrame) /\ wire[k]["B"] # <<>>
      BY <1>2, <1>3, <2>1
    <3>2. /\ \A type : Has(v[k]["B"], type, t) => Has(wire[k]["B"], type, t)
          /\ OneOffer(wire[k]["B"], t) => OneOffer(v[k]["B"], t)
      BY <3>1, LineTail
    <3>3. ASSUME ~NextChunk(d, l, t)
          PROVE  /\ \A g \in Nat : InLine(wire[k]["B"], t, g) => InLine(v[k]["B"], t, g)
                 /\ \A h : HasChunk(wire[k]["B"], t, h) => HasChunk(v[k]["B"], t, h)
      <4>1. ~(Head(wire[k]["B"]).type = "chunk" /\ Head(wire[k]["B"]).id = t)
        BY <2>1, <3>3 DEF NextChunk
      <4> DEFINE q == wire[k]["B"]
      <4>2. q \in Seq(AnyFrame) /\ q # <<>> /\ ~(Head(q).type = "chunk" /\ Head(q).id = t) /\ v[k]["B"] = Tail(q)
        BY <3>1, <4>1
      <4> HIDE DEF q
      <4>3. /\ \A g \in Nat : InLine(q, t, g) => InLine(Tail(q), t, g)
            /\ \A h : HasChunk(q, t, h) => HasChunk(Tail(q), t, h)
        BY <4>2, LineTail
      <4> QED
        BY <4>2, <4>3 DEF q
    <3> QED
      BY <3>2, <3>3
  <2>2. CASE ~(k = l /\ d = "B")
    <3>1. v[k]["B"] = wire[k]["B"]
      BY <1>3, <2>2 DEF Devices
    <3> QED
      BY <3>1
  <2> QED
    BY <2>1, <2>2
<1>7. Quiet(wire, v, t)
  BY <1>5, <1>6 DEF Quiet
<1>8. ~NextChunk(d, l, t) => Unmoved(wire, v, t)
  BY <1>6, <1>7 DEF Unmoved, InOrder, OnItsWay
<1> QED
  BY <1>4, <1>7, <1>8 DEF v

LEMMA AnswerQuiet ==
  ASSUME wire \in Wires, NEW l \in Legs, NEW d \in Devices, wire[l][d] # <<>>,
         NEW s \in Seq(AnyFrame), NEW t, Strange(Other(d), s, t)
  PROVE  /\ Quiet(wire, Answer(d, l, s), t)
         /\ ~NextChunk(d, l, t) => Unmoved(wire, Answer(d, l, s), t)
<1> DEFINE v == Took(d, l)
           e == Other(d)
<1>1. /\ v \in Wires /\ Quiet(wire, v, t)
      /\ ~NextChunk(d, l, t) => Unmoved(wire, v, t)
  BY TookQuiet
<1>2. e \in Devices /\ Strange(e, s, t)
  BY DEF Other, Devices
<1> HIDE DEF v, e
<1>3. Unmoved(v, Answer(d, l, s), t)
  <2>1. CASE l = "direct" /\ ~channel
    BY <2>1 DEF Answer, Unmoved, Quiet, InOrder, OnItsWay, v
  <2>2. CASE ~(l = "direct" /\ ~channel)
    <3>1. Answer(d, l, s) = Behind(v, l, e, s)
      BY <2>2 DEF Answer, Behind, v, e
    <3> QED
      BY <1>1, <1>2, <3>1, UnmovedByPut
  <2> QED
    BY <2>1, <2>2
<1> QED
  BY <1>1, <1>3, UnmovedTwice

-----------------------------------------------------------------------------
(* Steps that mean nothing to a transfer, or end it                        *)

LEMMA StillNotAccepted ==
  ASSUME NEW t \in Ids, NotAccepted(t), Quiet(wire, wire', t), phase'["A"][t] \in {phase["A"][t], "none"}
  PROVE  NotAccepted(t)'
<1>1. phase'["A"][t] # "sending"
  BY DEF NotAccepted
<1>2. ASSUME NEW l \in Legs
      PROVE  /\ ~Has(wire'[l]["A"], "accept", t)
             /\ ~Has(wire'[l]["B"], "chunk", t) /\ ~Has(wire'[l]["B"], "complete", t)
  BY DEF NotAccepted, Quiet
<1> QED
  BY <1>1, <1>2 DEF NotAccepted

LEMMA CalmStays ==
  ASSUME NEW t \in Ids, Calm(t), Quiet(wire, wire', t), route[t] \in Legs,
         phase'["A"][t] \in {phase["A"][t], "none"}, phase'["B"][t] \in {phase["B"][t], "none"},
         route'[t] = route[t],
         route[t] = "direct" /\ phase'["A"][t] # "none" => leg'["A"] = "verified",
         phase'["B"][t] = "receiving" =>
           /\ got'[t] = got[t] /\ got[t] \in Nat /\ sent'[t] = sent[t] /\ InOrder(wire, wire', t)
           /\ phase'["A"][t] = "sending" /\ (route[t] = "relay" \/ channel') =>
                (route[t] = "relay" \/ channel) /\ OnItsWay(wire, wire', t, route[t])
  PROVE  Calm(t)'
<1>a. Pinned(t) /\ Offered(t) /\ Deciding(t) /\ Receiving(t)
  BY DEF Calm
<1>1. Pinned(t)'
  <2>1. \A l \in Legs : Has(wire'[l]["B"], "offer", t) \/ Has(wire'[l]["B"], "chunk", t) => l = route'[t]
    BY <1>a DEF Pinned, Quiet
  <2> QED
    BY <2>1 DEF Pinned
<1>2. Offered(t)'
  <2> SUFFICES ASSUME NEW l \in Legs
               PROVE  /\ OneOffer(wire'[l]["B"], t)
                      /\ Has(wire'[l]["B"], "offer", t) => phase'["B"][t] = "none" /\ NotAccepted(t)'
    BY DEF Offered
  <2>1. OneOffer(wire'[l]["B"], t)
    BY <1>a DEF Offered, Quiet
  <2>2. ASSUME Has(wire'[l]["B"], "offer", t)
        PROVE  phase'["B"][t] = "none" /\ NotAccepted(t)'
    <3>1. Has(wire[l]["B"], "offer", t)
      BY <2>2 DEF Quiet
    <3>2. phase["B"][t] = "none" /\ NotAccepted(t)
      BY <1>a, <3>1 DEF Offered
    <3> QED
      BY <3>2, StillNotAccepted
  <2> QED
    BY <2>1, <2>2
<1>3. Deciding(t)'
  <2> SUFFICES ASSUME phase'["B"][t] = "deciding" PROVE NotAccepted(t)'
    BY DEF Deciding
  <2> QED
    BY <1>a, StillNotAccepted DEF Deciding
<1>4. Receiving(t)'
  <2> SUFFICES ASSUME phase'["B"][t] = "receiving"
               PROVE  /\ \A l \in Legs : InLine(wire'[l]["B"], t, got'[t])
                      /\ phase'["A"][t] = "sending" /\ (route'[t] = "relay" \/ channel') =>
                           \A k \in got'[t] .. sent'[t] - 1 : HasChunk(wire'[route'[t]]["B"], t, k)
    BY DEF Receiving
  <2>1. phase["B"][t] = "receiving" /\ got'[t] = got[t] /\ got[t] \in Nat /\ sent'[t] = sent[t]
    OBVIOUS
  <2>2. \A l \in Legs : InLine(wire'[l]["B"], t, got[t])
    <3>1. \A l \in Legs : InLine(wire[l]["B"], t, got[t])
      BY <1>a, <2>1 DEF Receiving
    <3> QED
      BY <2>1, <3>1 DEF InOrder
  <2>3. ASSUME phase'["A"][t] = "sending", route'[t] = "relay" \/ channel', NEW k \in got'[t] .. sent'[t] - 1
        PROVE  HasChunk(wire'[route'[t]]["B"], t, k)
    <3>1. /\ phase["A"][t] = "sending" /\ (route[t] = "relay" \/ channel) /\ k \in got[t] .. sent[t] - 1
          /\ OnItsWay(wire, wire', t, route[t])
      BY <2>1, <2>3
    <3>2. HasChunk(wire[route[t]]["B"], t, k)
      BY <1>a, <2>1, <3>1 DEF Receiving
    <3> QED
      BY <3>1, <3>2 DEF OnItsWay
  <2> QED
    BY <2>1, <2>2, <2>3
<1> QED
  BY <1>1, <1>2, <1>3, <1>4 DEF Calm

\* The usual case: links, route and counts stay, and B has no chunk of it to read.
LEMMA CalmUnmoved ==
  ASSUME TableTypes, NEW t \in Ids, Calm(t), Unmoved(wire, wire', t),
         phase'["A"][t] \in {phase["A"][t], "none"}, phase'["B"][t] \in {phase["B"][t], "none"},
         route'[t] = route[t], got'[t] = got[t], sent'[t] = sent[t], UNCHANGED <<channel, leg>>
  PROVE  Calm(t)'
<1>1. Quiet(wire, wire', t) /\ InOrder(wire, wire', t) /\ route[t] \in Legs /\ got[t] \in Nat
      /\ OnItsWay(wire, wire', t, route[t])
  BY DEF Unmoved, TableTypes
<1>2. route[t] = "direct" /\ phase'["A"][t] # "none" => leg'["A"] = "verified"
  BY DEF Calm, Pinned
<1> QED
  BY <1>1, <1>2, CalmStays

\* A read or ended transfer: it is neither received nor sent any more.
LEMMA CalmEndsOnB ==
  ASSUME TableTypes, NEW t \in Ids, Calm(t), Quiet(wire, wire', t),
         phase'["A"][t] \in {phase["A"][t], "none"}, phase'["B"][t] \in {phase["B"][t], "none"},
         phase'["B"][t] # "receiving", route'[t] = route[t], UNCHANGED leg
  PROVE  Calm(t)'
<1>1. route[t] \in Legs
  BY DEF TableTypes
<1>2. route[t] = "direct" /\ phase'["A"][t] # "none" => leg'["A"] = "verified"
  BY DEF Calm, Pinned
<1> QED
  BY <1>1, <1>2, CalmStays

\* What the calm transfers ask of a step that starts none.
LEMMA CalmSoundStep ==
  ASSUME CalmSound, calm' \subseteq calm, UNCHANGED conn, \A t \in calm' : t \notin gap',
         \A t \in calm' : Calm(t)'
  PROVE  CalmSound'
BY DEF CalmSound, CalmLive, GapNeedsLoss

\* A step while a device is not connected, or one that disconnects.
LEMMA NoneCalm ==
  ASSUME calm' = {}
  PROVE  CalmSound'
BY DEF CalmSound, CalmLive, GapNeedsLoss

LEMMA NotLiveNoneCalm ==
  ASSUME CalmSound, NEW d \in Devices, conn[d] # "live"
  PROVE  calm = {}
BY DEF CalmSound, CalmLive, Devices

-----------------------------------------------------------------------------
(* Nothing but a lost connection leaves a gap: the steps                   *)

LEMMA CalmFacts ==
  ASSUME Sound, CalmSound
  PROVE  /\ wire \in Wires /\ TableTypes
         /\ \A t \in calm : t \in Ids /\ Calm(t) /\ t \notin gap
<1>1. wire \in Wires
  BY DEF Sound, Wired, Carries, Wires
<1>2. TableTypes /\ calm \subseteq Ids
  BY DEF Sound, TableSound, HistoryTypes
<1> QED
  BY <1>1, <1>2 DEF CalmSound, GapNeedsLoss

\* A step that moves no calm transfer: the wires, and the tables as they shrink.
LEMMA CalmGoesOn ==
  ASSUME Sound, CalmSound, Shrinks, UNCHANGED <<links, route, sent, got, gap>>, calm' \subseteq calm,
         \A t \in calm : Unmoved(wire, wire', t)
  PROVE  CalmSound'
<1>1. ASSUME NEW t \in calm'
      PROVE  Calm(t)' /\ t \notin gap'
  <2>1. t \in calm /\ t \in Ids /\ Calm(t) /\ t \notin gap /\ TableTypes
    BY CalmFacts
  <2>2. /\ phase'["A"][t] \in {phase["A"][t], "none"} /\ phase'["B"][t] \in {phase["B"][t], "none"}
        /\ route'[t] = route[t] /\ got'[t] = got[t] /\ sent'[t] = sent[t] /\ UNCHANGED <<channel, leg>>
    BY <2>1 DEF Shrinks, Devices, links
  <2> QED
    BY <2>1, <2>2, CalmUnmoved
<1>2. UNCHANGED conn
  BY DEF links
<1> QED
  BY <1>1, <1>2, CalmSoundStep

LEMMA StillUnmoved ==
  ASSUME UNCHANGED wire
  PROVE  \A t : Unmoved(wire, wire', t)
BY DEF Unmoved, Quiet, InOrder, OnItsWay

\* Requests, and reports of a full table.
LEMMA AskKeepsCalm ==
  ASSUME Sound, CalmSound
  PROVE  /\ \A m \in Msgs : Send(m) \/ Retry(m) => CalmSound'
         /\ StartFull => CalmSound'
         /\ UNCHANGED vars => CalmSound'
<1>1. ASSUME UNCHANGED <<links, wire, phase, route, sent, got, history>> PROVE CalmSound'
  <2>1. Shrinks
    BY <1>1 DEF Shrinks
  <2>2. UNCHANGED <<links, route, sent, got, gap>> /\ calm' \subseteq calm
    BY <1>1 DEF history
  <2>3. \A t \in calm : Unmoved(wire, wire', t)
    BY <1>1, StillUnmoved
  <2> QED
    BY <2>1, <2>2, <2>3, CalmGoesOn
<1>2. ASSUME NEW m \in Msgs, Send(m) \/ Retry(m) PROVE CalmSound'
  BY <1>1, <1>2 DEF Send, Retry, Ask
<1>3. ASSUME StartFull \/ UNCHANGED vars PROVE CalmSound'
  BY <1>1, <1>3 DEF StartFull, tables, vars
<1> QED
  BY <1>2, <1>3

\* Nothing is calm before both are connected, nor after one has lost the other.
LEMMA SessionStepsKeepCalm ==
  ASSUME Sound, CalmSound, NEW d \in Devices
  PROVE  /\ StartSession(d) \/ Connect(d) \/ GiveUp(d) \/ Drop(d) => CalmSound'
         /\ Squeezed \/ StartQueued => CalmSound'
         /\ LoseConnection(d) \/ Disconnect(d) => CalmSound'
<1>1. ASSUME StartSession(d) \/ Connect(d) \/ GiveUp(d) \/ Drop(d) PROVE CalmSound'
  <2>1. conn[d] # "live" /\ UNCHANGED calm
    BY <1>1 DEF StartSession, Connect, GiveUp, Drop, history
  <2> QED
    BY <2>1, NotLiveNoneCalm, NoneCalm
<1>2. ASSUME Squeezed \/ StartQueued PROVE CalmSound'
  <2>1. conn["A"] # "live" /\ UNCHANGED calm
    BY <1>2 DEF Squeezed, StartQueued, history
  <2> QED
    BY <2>1, NotLiveNoneCalm, NoneCalm DEF Devices
<1>3. ASSUME LoseConnection(d) \/ Disconnect(d) PROVE CalmSound'
  <2>1. calm' = {}
    BY <1>3 DEF LoseConnection, Disconnect, Hangup
  <2> QED
    BY <2>1, NoneCalm
<1> QED
  BY <1>1, <1>2, <1>3

\* A cancel is none of the frames that the invariant speaks of.
LEMMA CancelsStrange ==
  ASSUME NEW T \in SUBSET Ids, NEW order \in [1 .. Cardinality(T) -> T], NEW t, NEW d \in Devices
  PROVE  Strange(d, [i \in DOMAIN order |-> Frame("cancel", order[i], 0)], t)
<1> DEFINE s == [i \in DOMAIN order |-> Frame("cancel", order[i], 0)]
<1>1. DOMAIN s = DOMAIN order /\ \A i \in DOMAIN s : s[i].type = "cancel"
  BY DEF Frame
<1> HIDE DEF s
<1>2. Strange(d, s, t)
  BY <1>1 DEF Strange, Has
<1> QED
  BY <1>2 DEF s

\* The sessions on a leg that is lost leave the table, and A is told by the relay.
LEMMA DirectLostCalm ==
  ASSUME Sound, NEW d \in Devices, DirectLost(d)
  PROVE  /\ Shrinks /\ UNCHANGED <<route, sent, got>>
         /\ \A t : Unmoved(wire, wire', t)
         /\ \A t \in Ids : route[t] = "direct" => phase'[d][t] = "none"
<1> DEFINE T == {t \in Table(d) : route[t] = "direct"}
<1>1. Close(d, T, "failed") /\ UNCHANGED <<route, sent, got>>
  BY DEF DirectLost
<1>2. T \in SUBSET Ids /\ T \in SUBSET Begun
  BY TableBegun DEF Table
<1>3. IsFiniteSet(T)
  <2>1. IsFiniteSet(Table(d)) /\ T \subseteq Table(d)
    BY DEF Sound, TableSound, Placed
  <2> QED
    BY <2>1, FS_Subset
<1>4. PICK order \in Orders(T) :
        wire' = [wire EXCEPT !["relay"][Other(d)] =
                   @ \o [i \in DOMAIN order |-> Frame("cancel", order[i], 0)]]
  BY DEF DirectLost
<1> DEFINE s == [i \in DOMAIN order |-> Frame("cancel", order[i], 0)]
<1>5. s \in Seq(AnyFrame)
  <2>1. s \in Seq(ToA)
    BY <1>2, <1>3, CancelsTravel
  <2> QED
    BY <2>1, ToAreFrames, SeqMonotonic
<1>6. wire' = Put("relay", Other(d), s)
  BY <1>4 DEF Put
<1>7. \A t : Strange(Other(d), s, t)
  <2>1. order \in [1 .. Cardinality(T) -> T] /\ Other(d) \in Devices
    BY DEF Orders, Other, Devices
  <2> HIDE DEF T
  <2> QED
    BY <1>2, <2>1, CancelsStrange
<1>8. \A t \in Ids : route[t] = "direct" => phase'[d][t] = "none"
  <2>1. Closed(d, T, "failed")
    BY <1>1, <1>2, CloseEffect DEF Sound, TableSound, StatusesOf
  <2>2. \A t \in Ids : phase'[d][t] = IF t \in T THEN "none" ELSE phase[d][t]
    BY <2>1 DEF Closed
  <2> QED
    BY <2>2 DEF Table
<1>9. Shrinks
  BY DirectLostMoves
<1> HIDE DEF s
<1>10. \A t : Unmoved(wire, wire', t)
  <2>1. Other(d) \in Devices /\ "relay" \in Legs /\ wire \in Wires
    BY DEF Other, Devices, Legs, Sound, Wired, Carries, Wires
  <2> QED
    BY <1>5, <1>6, <1>7, <2>1, PutUnmoved
<1> QED
  BY <1>1, <1>8, <1>9, <1>10

\* The channel opens and breaks, and the devices notice it.
LEMMA LegStepsKeepCalm ==
  ASSUME Sound, CalmSound
  PROVE  /\ OpenChannel => CalmSound'
         /\ Break => CalmSound'
         /\ \A d \in Devices : Verify(d) \/ LegLost(d) \/ ProbeTimeout(d) => CalmSound'
<1>a. wire \in Wires /\ TableTypes
  BY CalmFacts
<1>1. ASSUME OpenChannel PROVE CalmSound'
  <2>1. UNCHANGED <<conn, leg, wire, phase, route, sent, got, gap, calm>> /\ leg["A"] # "verified"
    BY <1>1 DEF OpenChannel, tables, history, Devices
  <2>2. ASSUME NEW t \in calm'
        PROVE  Calm(t)' /\ t \notin gap'
    <3>1. t \in Ids /\ Calm(t) /\ t \notin gap /\ route[t] \in Legs /\ got[t] \in Nat
      BY <1>a, <2>1, <2>2, CalmFacts DEF TableTypes
    <3>2. route[t] = "direct" => phase["A"][t] = "none"
      BY <2>1, <3>1 DEF Calm, Pinned
    <3>3. Quiet(wire, wire', t) /\ InOrder(wire, wire', t) /\ OnItsWay(wire, wire', t, route[t])
      BY <2>1 DEF Quiet, InOrder, OnItsWay
    <3>4. phase'["A"][t] = "sending" => route[t] = "relay"
      BY <2>1, <3>1, <3>2 DEF Legs
    <3>5. Calm(t)'
      BY <2>1, <3>1, <3>2, <3>3, <3>4, CalmStays
    <3> QED
      BY <2>1, <3>1, <3>5
  <2> QED
    BY <2>1, <2>2, CalmSoundStep
<1>2. ASSUME Break PROVE CalmSound'
  <2>1. channel' = FALSE /\ UNCHANGED <<conn, leg, phase, route, sent, got, gap, calm>>
    BY <1>2 DEF Break, tables, history
  <2>2. PICK toA \in Prefixes(wire["direct"]["A"]), toB \in Prefixes(wire["direct"]["B"]) :
          wire' = [wire EXCEPT !["direct"]["A"] = toA, !["direct"]["B"] = toB]
    BY <1>2 DEF Break
  <2>3. /\ wire["direct"]["A"] \in Seq(AnyFrame) /\ wire["direct"]["B"] \in Seq(AnyFrame)
        /\ wire'["direct"]["A"] = toA /\ wire'["direct"]["B"] = toB
        /\ \A d \in Devices : wire'["relay"][d] = wire["relay"][d]
    BY <1>a, <2>2 DEF Wires, Legs, Devices
  <2>4. ASSUME NEW t \in calm'
        PROVE  Calm(t)' /\ t \notin gap'
    <3>1. t \in Ids /\ Calm(t) /\ t \notin gap /\ route[t] \in Legs /\ got[t] \in Nat
      BY <1>a, <2>1, <2>4, CalmFacts DEF TableTypes
    <3>2. /\ \A type : Has(toA, type, t) => Has(wire["direct"]["A"], type, t)
          /\ \A type : Has(toB, type, t) => Has(wire["direct"]["B"], type, t)
          /\ OneOffer(wire["direct"]["B"], t) => OneOffer(toB, t)
          /\ \A g \in Nat : InLine(wire["direct"]["B"], t, g) => InLine(toB, t, g)
      BY <2>3, LineCut
    <3>3. Quiet(wire, wire', t)
      BY <2>3, <3>2 DEF Quiet, Legs, Devices
    <3>4. InOrder(wire, wire', t)
      BY <2>3, <3>2 DEF InOrder, Legs, Devices
    <3>5. OnItsWay(wire, wire', t, "relay")
      BY <2>3 DEF OnItsWay, Devices
    <3>6. route[t] = "direct" /\ phase'["A"][t] # "none" => leg'["A"] = "verified"
      BY <2>1, <3>1 DEF Calm, Pinned
    <3>7. Calm(t)'
      BY <2>1, <3>1, <3>3, <3>4, <3>5, <3>6, CalmStays
    <3> QED
      BY <2>1, <3>1, <3>7
  <2> QED
    BY <2>1, <2>4, CalmSoundStep
<1>3. ASSUME NEW d \in Devices, UNCHANGED <<conn, channel, route, sent, got, gap>>, calm' \subseteq calm,
             \A t : Unmoved(wire, wire', t), Shrinks,
             \A t \in Ids : route[t] = "direct" /\ phase'["A"][t] # "none" /\ leg["A"] = "verified"
                              => leg'["A"] = "verified"
      PROVE  CalmSound'
  <2>1. ASSUME NEW t \in calm'
        PROVE  Calm(t)' /\ t \notin gap'
    <3>1. t \in calm /\ t \in Ids /\ Calm(t) /\ t \notin gap /\ route[t] \in Legs /\ got[t] \in Nat
      BY <1>a, <1>3, <2>1, CalmFacts DEF TableTypes
    <3>2. phase'["A"][t] \in {phase["A"][t], "none"} /\ phase'["B"][t] \in {phase["B"][t], "none"}
      BY <1>3, <3>1 DEF Shrinks, Devices
    <3>3. route[t] = "direct" /\ phase'["A"][t] # "none" => leg'["A"] = "verified"
      BY <1>3, <3>1, <3>2 DEF Calm, Pinned
    <3>4. Quiet(wire, wire', t) /\ InOrder(wire, wire', t) /\ OnItsWay(wire, wire', t, route[t])
      BY <1>3, <3>1 DEF Unmoved
    <3>5. Calm(t)'
      BY <1>3, <3>1, <3>2, <3>3, <3>4, CalmStays
    <3> QED
      BY <1>3, <3>1, <3>5
  <2> QED
    BY <1>3, <2>1, CalmSoundStep
<1>4. ASSUME NEW d \in Devices, Verify(d) PROVE CalmSound'
  <2>1. /\ leg' = [leg EXCEPT ![d] = "verified"] /\ leg \in [Devices -> {"closed", "verified", "dead"}]
        /\ UNCHANGED <<conn, channel, wire, phase, route, sent, got, gap, calm>>
    BY <1>4 DEF Verify, tables, history, Sound, LinkTypes
  <2>2. Shrinks /\ \A t : Unmoved(wire, wire', t)
    BY <2>1, StillUnmoved DEF Shrinks
  <2>3. leg["A"] = "verified" => leg'["A"] = "verified"
    BY <2>1 DEF Devices
  <2> QED
    BY <1>3, <2>1, <2>2, <2>3
<1>5. ASSUME NEW d \in Devices, LegLost(d) \/ ProbeTimeout(d) PROVE CalmSound'
  <2>1. /\ DirectLost(d) /\ leg \in [Devices -> {"closed", "verified", "dead"}]
        /\ UNCHANGED <<conn, channel, gap>> /\ calm' \subseteq calm
        /\ leg' = [leg EXCEPT ![d] = "closed"] \/ leg' = [leg EXCEPT ![d] = "dead"]
    BY <1>5 DEF LegLost, ProbeTimeout, history, Sound, LinkTypes
  <2>2. /\ Shrinks /\ UNCHANGED <<route, sent, got>>
        /\ \A t : Unmoved(wire, wire', t)
        /\ \A t \in Ids : route[t] = "direct" => phase'[d][t] = "none"
    BY <2>1, DirectLostCalm
  <2>3. d # "A" => leg'["A"] = leg["A"]
    BY <2>1 DEF Devices
  <2> QED
    BY <1>3, <2>1, <2>2, <2>3
<1> QED
  BY <1>1, <1>2, <1>4, <1>5

\* A step of one transfer leaves the others as they are.
LEMMA CalmBut ==
  ASSUME Sound, CalmSound, NEW u \in Ids, UNCHANGED <<links, calm>>, gap' \subseteq gap \cup {u},
         \A t \in Ids : t # u =>
           /\ Unmoved(wire, wire', t)
           /\ phase'["A"][t] \in {phase["A"][t], "none"} /\ phase'["B"][t] \in {phase["B"][t], "none"}
           /\ route'[t] = route[t] /\ got'[t] = got[t] /\ sent'[t] = sent[t],
         u \in calm => Calm(u)' /\ u \notin gap'
  PROVE  CalmSound'
<1>1. ASSUME NEW t \in calm'
      PROVE  Calm(t)' /\ t \notin gap'
  <2>1. t \in calm /\ t \in Ids /\ Calm(t) /\ t \notin gap /\ TableTypes
    BY CalmFacts
  <2>2. CASE t = u
    BY <2>1, <2>2
  <2>3. CASE t # u
    <3>1. Calm(t)'
      BY <2>1, <2>3, CalmUnmoved DEF links
    <3> QED
      BY <2>1, <2>3, <3>1
  <2> QED
    BY <2>2, <2>3
<1> QED
  BY <1>1, CalmSoundStep DEF links

\* Nothing of an attempt that was not taken up is on its way.
LEMMA FreshUnsent ==
  ASSUME Sound, NEW t \in Fresh, NEW l \in Legs, NEW d \in Devices, NEW type
  PROVE  ~Has(wire[l][d], type, t)
<1> SUFFICES ASSUME NEW i \in DOMAIN wire[l][d], wire[l][d][i].id = t
             PROVE  FALSE
  BY DEF Has
<1>1. wire[l]["A"] \in Seq(ToA) /\ wire[l]["B"] \in Seq(ToB)
  BY DEF Sound, Wired, Carries
<1>2. CASE d = "A"
  <2>1. wire[l][d][i] \in ToA
    BY <1>1, <1>2, ElementOfSeq, LenProperties
  <2> QED
    BY <2>1 DEF ToA, Begun
<1>3. CASE d = "B"
  <2>1. wire[l][d][i] \in ToB
    BY <1>1, <1>3, ElementOfSeq, LenProperties
  <2> QED
    BY <2>1 DEF ToB, Begun
<1> QED
  BY <1>2, <1>3 DEF Devices

\* The first offer of t, behind frames that are not t's.
LEMMA OfferBehind ==
  ASSUME NEW s \in Seq(AnyFrame), NEW f \in AnyFrame, NEW t, \A type : ~Has(s, type, t)
  PROVE  OneOffer(s \o <<f>>, t)
<1> DEFINE v == s \o <<f>>
<1>1. <<f>> \in Seq(AnyFrame) /\ Len(<<f>>) = 1
  OBVIOUS
<1>2. /\ Len(s) \in Nat /\ DOMAIN s = 1 .. Len(s) /\ DOMAIN v = 1 .. Len(s) + 1
      /\ \A i \in DOMAIN s : v[i] = s[i]
  BY <1>1, ConcatProperties, LenProperties
<1> HIDE DEF v
<1>3. \A i \in DOMAIN v : v[i].id = t => i = Len(s) + 1
  <2> SUFFICES ASSUME NEW i \in DOMAIN v, v[i].id = t, i # Len(s) + 1 PROVE FALSE
    OBVIOUS
  <2>1. i \in DOMAIN s /\ s[i].id = t
    BY <1>2
  <2>2. Has(s, s[i].type, t)
    BY <2>1 DEF Has
  <2> QED
    BY <2>2
<1>4. OneOffer(v, t)
  BY <1>3 DEF OneOffer
<1> QED
  BY <1>4 DEF v

\* What Put does to each wire.
LEMMA PutEffect ==
  ASSUME wire \in Wires, NEW l \in Legs, NEW d \in Devices, NEW s
  PROVE  \A k \in Legs, e \in Devices :
           Put(l, d, s)[k][e] = IF k = l /\ e = d /\ (l = "direct" => channel) THEN wire[k][e] \o s ELSE wire[k][e]
BY DEF Put, Wires

\* The transfer that starts, pinned to a leg, with its offer on the wire.
LEMMA StartIsCalm ==
  ASSUME Sound, NEW t \in Fresh, t \in Ids, NEW l \in Legs, l = "direct" => leg["A"] = "verified",
         phase' = [phase EXCEPT !["A"][t] = "waiting"], route' = [route EXCEPT ![t] = l],
         wire' = Put(l, "B", <<Frame("offer", t, 0)>>), UNCHANGED leg
  PROVE  Calm(t)'
<1> DEFINE s == <<Frame("offer", t, 0)>>
<1>1. wire \in Wires /\ TableTypes
  BY DEF Sound, TableSound, Wired, Carries, Wires
<1>2. phase["A"][t] = "none" /\ phase["B"][t] = "none"
  BY DEF Sound, Untouched, Devices
<1>3. phase'["A"][t] = "waiting" /\ phase'["B"][t] = "none" /\ route'[t] = l
  BY <1>1, <1>2 DEF TableTypes, Devices
<1>4. Frame("offer", t, 0) \in AnyFrame /\ s \in Seq(AnyFrame)
  BY DEF Frame, AnyFrame, Types
<1>5. \A type : Has(s, type, t) => type = "offer"
  BY HasOne DEF Frame
<1> HIDE DEF s
<1>6. "B" \in Devices /\ "A" \in Devices
  BY DEF Devices
<1>7. \A k \in Legs, e \in Devices : \A type : ~Has(wire[k][e], type, t)
  BY FreshUnsent
<1>8. \A k \in Legs : /\ wire'[k]["A"] = wire[k]["A"]
                      /\ wire'[k]["B"] = wire[k]["B"] \/ (k = l /\ wire'[k]["B"] = wire[k]["B"] \o s)
                      /\ wire[k]["B"] \in Seq(AnyFrame)
  <2>1. wire' = Put(l, "B", s)
    BY DEF s
  <2>2. \A k \in Legs : wire[k]["B"] \in Seq(AnyFrame)
    BY <1>1, <1>6 DEF Wires
  <2>3. \A k \in Legs, e \in Devices :
          wire'[k][e] = IF k = l /\ e = "B" /\ (l = "direct" => channel) THEN wire[k][e] \o s ELSE wire[k][e]
    BY <1>1, <1>6, <2>1, PutEffect
  <2> QED
    BY <1>6, <2>2, <2>3
<1>9. ASSUME NEW k \in Legs, NEW type, Has(wire'[k]["B"], type, t)
      PROVE  type = "offer" /\ k = l
  <2>1. k = l /\ wire'[k]["B"] = wire[k]["B"] \o s /\ wire[k]["B"] \in Seq(AnyFrame)
    BY <1>6, <1>7, <1>8, <1>9
  <2> DEFINE q == wire[k]["B"]
  <2>2. q \in Seq(AnyFrame) /\ Has(q \o s, type, t) /\ ~Has(q, type, t)
    BY <1>6, <1>7, <1>9, <2>1
  <2> HIDE DEF q
  <2>3. Has(s, type, t)
    BY <1>4, <2>2, HasBehind
  <2> QED
    BY <1>5, <2>1, <2>3
<1>10. \A k \in Legs : ~Has(wire'[k]["A"], "accept", t)
  BY <1>6, <1>7, <1>8
<1>11. NotAccepted(t)'
  <2>1. phase'["A"][t] # "sending"
    BY <1>3
  <2> QED
    BY <1>9, <1>10, <2>1 DEF NotAccepted
<1>12. ASSUME NEW k \in Legs PROVE OneOffer(wire'[k]["B"], t)
  <2> DEFINE q == wire[k]["B"]
  <2>1. q \in Seq(AnyFrame) /\ \A type : ~Has(q, type, t)
    BY <1>6, <1>7, <1>8
  <2>2. wire'[k]["B"] = q \/ wire'[k]["B"] = q \o <<Frame("offer", t, 0)>>
    BY <1>8 DEF s
  <2> HIDE DEF q
  <2>3. OneOffer(q, t)
    BY <2>1 DEF OneOffer, Has
  <2>4. OneOffer(q \o <<Frame("offer", t, 0)>>, t)
    BY <1>4, <2>1, OfferBehind
  <2> QED
    BY <2>2, <2>3, <2>4
<1>13. Offered(t)'
  BY <1>3, <1>11, <1>12 DEF Offered
<1>14. Pinned(t)'
  BY <1>3, <1>9 DEF Pinned
<1>15. Deciding(t)' /\ Receiving(t)'
  BY <1>3 DEF Deciding, Receiving
<1> QED
  BY <1>13, <1>14, <1>15 DEF Calm

LEMMA StartKeepsCalm ==
  ASSUME Sound, CalmSound, Start
  PROVE  CalmSound'
<1>0. PICK u, l : u = Head(asked) /\ l = IF leg["A"] = "verified" THEN "direct" ELSE "relay"
  OBVIOUS
<1> DEFINE s == <<Frame("offer", u, 0)>>
<1>1. /\ conn["A"] = "live" /\ asked # <<>> /\ asked' = Tail(asked)
      /\ Open(u, l) /\ wire' = Put(l, "B", <<Frame("offer", u, 0)>>)
      /\ calm' = IF conn["B"] = "live" THEN calm \cup {u} ELSE calm
      /\ UNCHANGED <<links, tries, gap>>
  BY <1>0 DEF Start
<1>2. AskSound
  BY DEF Sound
<1>3. u \in Fresh /\ u \in Ids
  BY <1>0, <1>1, <1>2, TakeRequest
<1>4. l \in Legs /\ (l = "direct" => leg["A"] = "verified")
  BY <1>0 DEF Legs
<1>5. wire \in Wires /\ TableTypes
  BY CalmFacts
<1>6. /\ phase' = [phase EXCEPT !["A"][u] = "waiting"] /\ route' = [route EXCEPT ![u] = l]
      /\ UNCHANGED <<sent, got, channel, leg, conn>>
  BY <1>1 DEF Open, links
<1>7. Calm(u)'
  BY <1>1, <1>3, <1>4, <1>6, StartIsCalm
<1>8. ASSUME NEW t \in calm, t # u
      PROVE  Calm(t)' /\ t \notin gap
  <2>1. t \in Ids /\ Calm(t) /\ t \notin gap
    BY CalmFacts
  <2>2. s \in Seq(AnyFrame) /\ Strange("B", s, t) /\ "B" \in Devices
    <3>1. Frame("offer", u, 0) \in AnyFrame /\ Frame("offer", u, 0).id # t
      BY <1>3, <1>8 DEF Frame, AnyFrame, Types
    <3> QED
      BY <3>1, HasOne DEF Strange, Devices
  <2>3. Unmoved(wire, wire', t)
    <3>1. wire' = Put(l, "B", s)
      BY <1>1
    <3> HIDE DEF s
    <3> QED
      BY <1>4, <1>5, <2>2, <3>1, PutUnmoved
  <2>4. /\ phase'["A"][t] = phase["A"][t] /\ phase'["B"][t] = phase["B"][t]
        /\ route'[t] = route[t] /\ got'[t] = got[t] /\ sent'[t] = sent[t] /\ UNCHANGED <<channel, leg>>
    BY <1>3, <1>5, <1>6, <1>8, <2>1 DEF TableTypes, Devices
  <2>5. Calm(t)'
    BY <1>5, <2>1, <2>3, <2>4, CalmUnmoved
  <2> QED
    BY <2>1, <2>5
<1>9. u \notin gap
  BY <1>3 DEF Sound, Untouched
<1>10. ASSUME NEW t \in calm' PROVE Calm(t)' /\ t \notin gap'
  <2>1. t = u \/ (t # u /\ t \in calm)
    BY <1>1, <1>10
  <2> QED
    BY <1>1, <1>7, <1>8, <1>9, <2>1
<1>11. CalmLive'
  BY <1>1, <1>6 DEF CalmSound, CalmLive
<1> QED
  BY <1>10, <1>11 DEF CalmSound, GapNeedsLoss

\* The users' answers.
LEMMA AnswersKeepCalm ==
  ASSUME Sound, CalmSound, NEW m \in Msgs, NEW l \in Legs
  PROVE  /\ Reject(m, l) \/ Cancel(m, l) => CalmSound'
         /\ Accept(m, l) => CalmSound'
<1>a. wire \in Wires /\ TableTypes /\ TableSound
  BY CalmFacts DEF Sound
<1>1. ASSUME NEW d \in Devices, NEW from, NEW type \in {"reject", "cancel"}, Decline(d, m, l, from, type)
      PROVE  CalmSound'
  <2> DEFINE u == reg[d][m]
             s == <<Frame(type, u, 0)>>
  <2>1. /\ u # NoId /\ CloseOne(d, u, "failed") /\ wire' = Put(l, Other(d), s)
        /\ UNCHANGED <<links, route, sent, got, history>>
    BY <1>1 DEF Decline
  <2>2. u \in Ids /\ Other(d) \in Devices
    BY <1>a, <2>1 DEF TableTypes, Other, Devices
  <2>3. s \in Seq(AnyFrame) /\ \A t : Strange(Other(d), s, t)
    <3>1. Frame(type, u, 0) \in AnyFrame /\ Frame(type, u, 0).type = type
      BY <2>2 DEF Frame, AnyFrame, Types
    <3> QED
      BY <3>1, StrangeOne
  <2> HIDE DEF s, u
  <2>4. \A t : Unmoved(wire, wire', t)
    BY <1>a, <2>1, <2>2, <2>3, PutUnmoved
  <2>5. Shrinks
    <3>1. "failed" \in StatusesOf(d) /\ "failed" # "received"
      BY DEF StatusesOf
    <3> QED
      BY <1>a, <2>1, <2>2, <3>1, CloseOneKeepsTables
  <2>6. UNCHANGED <<links, route, sent, got, gap>> /\ calm' \subseteq calm
    BY <2>1 DEF history
  <2> QED
    BY <2>4, <2>5, <2>6, CalmGoesOn
<1>2. ASSUME Accept(m, l) PROVE CalmSound'
  <2>0. PICK u : u = reg["B"][m]
    OBVIOUS
  <2> DEFINE s == <<Frame("accept", u, 0)>>
  <2>1. /\ u # NoId /\ phase["B"][u] = "deciding" /\ wire' = Put(l, "A", s)
        /\ phase' = [phase EXCEPT !["B"][u] = "receiving"]
        /\ UNCHANGED <<links, route, sent, got, history>>
    BY <1>2, <2>0 DEF Accept
  <2>2. u \in Ids /\ "A" \in Devices /\ "B" \in Devices
    BY <1>a, <2>0, <2>1 DEF TableTypes, Devices
  <2>3. s \in Seq(AnyFrame) /\ \A t : t # u => Strange("A", s, t)
    <3>1. Frame("accept", u, 0) \in AnyFrame /\ Frame("accept", u, 0).id = u
      BY <2>2 DEF Frame, AnyFrame, Types
    <3> QED
      BY <3>1, StrangeOne
  <2> HIDE DEF s
  <2>4. \A t \in Ids : t # u => Unmoved(wire, wire', t)
    BY <1>a, <2>1, <2>2, <2>3, PutUnmoved
  <2>5. /\ \A t \in Ids, d \in Devices : t # u => phase'[d][t] = phase[d][t]
        /\ phase'["B"][u] = "receiving" /\ phase'["A"][u] = phase["A"][u]
    BY <1>a, <2>1, <2>2 DEF TableTypes, Devices
  <2>6. \A k \in Legs : wire'[k]["B"] = wire[k]["B"] /\ wire[k]["B"] \in Seq(AnyFrame)
    <3>1. \A k \in Legs : wire'[k]["B"] = wire[k]["B"]
      BY <1>a, <2>1, <2>2, PutEffect
    <3> QED
      BY <1>a, <2>2, <3>1 DEF Wires
  <2>7. ASSUME u \in calm PROVE Calm(u)' /\ u \notin gap'
    <3>1. Calm(u) /\ u \notin gap /\ UNCHANGED <<gap, leg>>
      BY <2>1, <2>7, CalmFacts DEF history, links
    <3>2. NotAccepted(u) /\ \A k \in Legs : ~Has(wire'[k]["B"], "offer", u)
      BY <2>1, <2>6, <3>1 DEF Calm, Deciding, Offered
    <3>3. \A k \in Legs : ~Has(wire'[k]["B"], "chunk", u) /\ ~Has(wire'[k]["B"], "complete", u)
      BY <2>6, <3>2 DEF NotAccepted
    <3>4. phase'["A"][u] # "sending"
      BY <2>5, <3>2 DEF NotAccepted
    <3>5. Pinned(u)'
      BY <2>1, <2>5, <3>1, <3>2, <3>3 DEF Calm, Pinned
    <3>6. Offered(u)'
      BY <3>2 DEF Offered, OneOffer, Has
    <3>7. Deciding(u)'
      BY <2>5 DEF Deciding
    <3>8. Receiving(u)'
      <4>1. \A k \in Legs : InLine(wire'[k]["B"], u, got'[u])
        <5>1. got'[u] \in Nat
          BY <1>a, <2>1, <2>2 DEF TableTypes
        <5>2. \A k \in Legs : wire'[k]["B"] \in Seq(AnyFrame)
          BY <2>6
        <5> QED
          BY <2>2, <3>3, <5>1, <5>2, LineEmpty
      <4> QED
        BY <3>4, <4>1 DEF Receiving
    <3> QED
      BY <3>1, <3>5, <3>6, <3>7, <3>8 DEF Calm
  <2>8. UNCHANGED <<links, calm>> /\ gap' \subseteq gap \cup {u}
    BY <2>1 DEF history
  <2>9. \A t \in Ids : t # u => route'[t] = route[t] /\ got'[t] = got[t] /\ sent'[t] = sent[t]
    BY <2>1
  <2>10. \A t \in Ids : t # u =>
           /\ Unmoved(wire, wire', t)
           /\ phase'["A"][t] \in {phase["A"][t], "none"} /\ phase'["B"][t] \in {phase["B"][t], "none"}
           /\ route'[t] = route[t] /\ got'[t] = got[t] /\ sent'[t] = sent[t]
    BY <2>2, <2>4, <2>5, <2>9
  <2> QED
    BY <2>2, <2>7, <2>8, <2>10, CalmBut
<1>3. ASSUME Reject(m, l) \/ Cancel(m, l) PROVE CalmSound'
  BY <1>1, <1>3 DEF Reject, Cancel, Devices
<1> QED
  BY <1>2, <1>3

\* Whose frames they are.
LEMMA ChunkFrames ==
  ASSUME NEW t \in Ids, NEW n \in Nat, NEW end \in {<<>>, <<Frame("complete", t, 0)>>}
  PROVE  /\ <<Frame("chunk", t, n)>> \o end \in Seq(AnyFrame)
         /\ \A u, type : Has(<<Frame("chunk", t, n)>> \o end, type, u) => u = t /\ type \in {"chunk", "complete"}
<1> DEFINE a == <<Frame("chunk", t, n)>>
           b == <<Frame("complete", t, 0)>>
<1>1. Frame("chunk", t, n) \in AnyFrame /\ Frame("complete", t, 0) \in AnyFrame
  BY DEF Frame, AnyFrame, Types
<1>2. a \in Seq(AnyFrame) /\ end \in Seq(AnyFrame)
  <2>1. a \in Seq(AnyFrame) /\ b \in Seq(AnyFrame) /\ <<>> \in Seq(AnyFrame)
    BY <1>1, EmptySeq
  <2>2. end = <<>> \/ end = b
    OBVIOUS
  <2> HIDE DEF a, b
  <2> QED
    BY <2>1, <2>2
<1>3. /\ \A u, type : Has(a, type, u) => u = t /\ type = "chunk"
      /\ \A u, type : Has(b, type, u) => u = t /\ type = "complete"
      /\ \A u, type : ~Has(<<>>, type, u)
  BY HasOne DEF Frame
<1> HIDE DEF a
<1>4. \A u, type : Has(end, type, u) => u = t /\ type = "complete"
  BY <1>3
<1>5. \A u, type : Has(a \o end, type, u) => Has(a, type, u) \/ Has(end, type, u)
  BY <1>2, HasBehind
<1>6. a \o end \in Seq(AnyFrame)
  BY <1>2, ConcatProperties
<1> QED
  BY <1>3, <1>4, <1>5, <1>6 DEF a

\* A sends the next chunk, on the wire of the leg it is pinned to.
LEMMA SendIsCalm ==
  ASSUME Sound, NEW t \in Ids, Calm(t), NEW n, n = sent[t], n < Chunks[Msg(t)], phase["A"][t] = "sending",
         NEW end \in {<<>>, <<Frame("complete", t, 0)>>}, n + 1 < Chunks[Msg(t)] => end = <<>>,
         wire' = Put(route[t], "B", <<Frame("chunk", t, n)>> \o end),
         sent' = [sent EXCEPT ![t] = n + 1], UNCHANGED <<links, phase, route, got>>
  PROVE  Calm(t)'
<1> DEFINE u == <<Frame("chunk", t, n)>> \o end
<1>1. /\ wire \in Wires /\ TableTypes /\ n \in Nat /\ got[t] \in Nat /\ route[t] \in Legs
      /\ got[t] <= n /\ sent'[t] = n + 1 /\ "A" \in Devices /\ "B" \in Devices
  BY DEF Sound, TableSound, TableTypes, Wired, Carries, Wires, Counted, Devices
<1>2. u \in Seq(AnyFrame) /\ \A type : Has(u, type, t) => type \in {"chunk", "complete"}
  BY <1>1, ChunkFrames
<1>3. wire' = Put(route[t], "B", u)
  OBVIOUS
<1> HIDE DEF u
<1>4. \A k \in Legs, e \in Devices :
        wire'[k][e] = IF k = route[t] /\ e = "B" /\ (route[t] = "direct" => channel) THEN wire[k][e] \o u ELSE wire[k][e]
  BY <1>1, <1>3, PutEffect
<1>5. Pinned(t) /\ Offered(t) /\ Deciding(t) /\ Receiving(t)
  BY DEF Calm
<1>6. /\ \A k \in Legs : ~Has(wire[k]["B"], "offer", t)
      /\ phase["B"][t] # "deciding"
  BY <1>5 DEF Offered, Deciding, NotAccepted
<1>7. \A k \in Legs : wire[k]["B"] \in Seq(AnyFrame)
  BY <1>1 DEF Wires
<1>8. ASSUME NEW k \in Legs, NEW type \in {"offer", "chunk"}, Has(wire'[k]["B"], type, t)
      PROVE  type = "chunk" /\ k = route[t]
  <2>1. CASE wire'[k]["B"] = wire[k]["B"]
    BY <1>5, <1>6, <1>8, <2>1 DEF Pinned
  <2>2. CASE k = route[t] /\ wire'[k]["B"] = wire[k]["B"] \o u
    <3> DEFINE q == wire[k]["B"]
    <3>1. q \in Seq(AnyFrame) /\ Has(q \o u, type, t) /\ ~Has(q, "offer", t)
      BY <1>6, <1>7, <1>8, <2>2
    <3> HIDE DEF q
    <3>2. Has(q, type, t) \/ Has(u, type, t)
      BY <1>2, <3>1, HasBehind
    <3> QED
      BY <1>2, <2>2, <3>1, <3>2
  <2> QED
    BY <1>1, <1>4, <2>1, <2>2
<1>9. Pinned(t)'
  BY <1>5, <1>8 DEF Pinned, links
<1>10. Offered(t)'
  <2>1. \A k \in Legs : ~Has(wire'[k]["B"], "offer", t)
    BY <1>8
  <2> QED
    BY <2>1 DEF Offered, OneOffer, Has
<1>11. Deciding(t)'
  BY <1>6 DEF Deciding
<1>12. ASSUME phase["B"][t] = "receiving"
       PROVE  /\ \A l \in Legs : InLine(wire'[l]["B"], t, got[t])
              /\ route[t] = "relay" \/ channel =>
                   \A k \in got[t] .. n : HasChunk(wire'[route[t]]["B"], t, k)
  <2>1. \A l \in Legs : InLine(wire[l]["B"], t, got[t])
    BY <1>5, <1>12 DEF Receiving
  <2>2. CASE ~(route[t] = "direct" => channel)
    <3>1. \A l \in Legs : wire'[l]["B"] = wire[l]["B"]
      BY <1>1, <1>4, <2>2
    <3> QED
      BY <2>1, <2>2, <3>1
  <2>3. CASE route[t] = "direct" => channel
    <3> DEFINE q == wire[route[t]]["B"]
    <3>1. q \in Seq(AnyFrame) /\ InLine(q, t, got[t])
      BY <1>1, <1>7, <2>1
    <3>2. \A k \in got[t] .. n - 1 : HasChunk(q, t, k)
      BY <1>1, <1>5, <1>12, <2>3 DEF Receiving, Legs
    <3>3. \A i \in DOMAIN q : q[i].type = "chunk" /\ q[i].id = t => q[i].seq < n
      <4>1. q \in Seq(ToB)
        BY <1>1 DEF Sound, Wired, Carries
      <4>2. \A i \in DOMAIN q : q[i] \in ToB
        BY <4>1, ElementOfSeq, LenProperties
      <4> QED
        BY <4>2 DEF ToB
    <3>4. wire'[route[t]]["B"] = q \o u
      BY <1>1, <1>4, <2>3
    <3> HIDE DEF q
    <3>5. InLine(q \o u, t, got[t]) /\ \A k \in got[t] .. n : HasChunk(q \o u, t, k)
      <4>1. /\ InLine(q \o (<<Frame("chunk", t, n)>> \o end), t, got[t])
            /\ \A k \in got[t] .. n : HasChunk(q \o (<<Frame("chunk", t, n)>> \o end), t, k)
        BY <1>1, <3>1, <3>2, <3>3, LineSend
      <4> QED
        BY <4>1 DEF u
    <3>6. \A l \in Legs : l # route[t] => wire'[l]["B"] = wire[l]["B"]
      BY <1>1, <1>4
    <3>7. \A l \in Legs : InLine(wire'[l]["B"], t, got[t])
      <4> SUFFICES ASSUME NEW l \in Legs PROVE InLine(wire'[l]["B"], t, got[t])
        OBVIOUS
      <4>1. CASE l = route[t]
        BY <3>4, <3>5, <4>1
      <4>2. CASE l # route[t]
        BY <2>1, <3>6, <4>2
      <4> QED
        BY <4>1, <4>2
    <3> QED
      BY <3>4, <3>5, <3>7
  <2> QED
    BY <2>2, <2>3
<1>13. Receiving(t)'
  <2>1. /\ phase'["B"][t] = phase["B"][t] /\ got'[t] = got[t] /\ route'[t] = route[t]
        /\ channel' = channel /\ sent'[t] = n + 1 /\ (n + 1) - 1 = n
    BY <1>1 DEF links
  <2> QED
    BY <1>12, <2>1 DEF Receiving
<1> QED
  BY <1>9, <1>10, <1>11, <1>13 DEF Calm

LEMMA SendChunkKeepsCalm ==
  ASSUME Sound, CalmSound, NEW u \in Ids, SendChunk(u)
  PROVE  CalmSound'
<1>0. PICK n, end : n = sent[u] /\ end = IF n + 1 < Chunks[Msg(u)] THEN <<>> ELSE <<Frame("complete", u, 0)>>
  OBVIOUS
<1>1. /\ phase["A"][u] = "sending" /\ n < Chunks[Msg(u)]
      /\ wire' = Put(route[u], "B", <<Frame("chunk", u, n)>> \o end)
      /\ sent' = [sent EXCEPT ![u] = n + 1]
      /\ UNCHANGED <<links, phase, route, got, history>>
  BY <1>0 DEF SendChunk
<1>2. /\ wire \in Wires /\ TableTypes /\ n \in Nat /\ route[u] \in Legs /\ "B" \in Devices
      /\ end \in {<<>>, <<Frame("complete", u, 0)>>}
  BY <1>0, CalmFacts DEF TableTypes, Devices
<1> DEFINE s == <<Frame("chunk", u, n)>> \o end
<1>3. s \in Seq(AnyFrame) /\ \A t : t # u => Strange("B", s, t)
  <2>1. s \in Seq(AnyFrame) /\ \A t, type : Has(s, type, t) => t = u
    BY <1>2, ChunkFrames
  <2> HIDE DEF s
  <2> QED
    BY <2>1 DEF Strange
<1>4. wire' = Put(route[u], "B", s)
  BY <1>1
<1> HIDE DEF s
<1>5. \A t \in Ids : t # u => Unmoved(wire, wire', t)
  BY <1>2, <1>3, <1>4, PutUnmoved
<1>6. \A t \in Ids : t # u =>
        /\ Unmoved(wire, wire', t)
        /\ phase'["A"][t] \in {phase["A"][t], "none"} /\ phase'["B"][t] \in {phase["B"][t], "none"}
        /\ route'[t] = route[t] /\ got'[t] = got[t] /\ sent'[t] = sent[t]
  BY <1>1, <1>2, <1>5 DEF TableTypes
<1>7. UNCHANGED <<links, calm>> /\ gap' \subseteq gap \cup {u}
  BY <1>1 DEF history
<1>8. ASSUME u \in calm PROVE Calm(u)' /\ u \notin gap'
  <2>1. Calm(u) /\ u \notin gap'
    BY <1>1, <1>8, CalmFacts DEF history
  <2>2. n + 1 < Chunks[Msg(u)] => end = <<>>
    BY <1>0
  <2>3. Calm(u)'
    BY <1>0, <1>1, <1>2, <2>1, <2>2, SendIsCalm
  <2> QED
    BY <2>1, <2>3
<1> QED
  BY <1>6, <1>7, <1>8, CalmBut

\* What an answer leaves to the device that gave it, and to the other one.
LEMMA AnswerEffect ==
  ASSUME wire \in Wires, NEW l \in Legs, NEW d \in Devices, wire[l][d] # <<>>, NEW s
  PROVE  \A k \in Legs :
           /\ d = "A" => Answer(d, l, s)[k]["B"] \in {wire[k]["B"], wire[k]["B"] \o s}
           /\ d = "B" => /\ Answer(d, l, s)[k]["B"] = IF k = l THEN Tail(wire[k]["B"]) ELSE wire[k]["B"]
                         /\ Took(d, l)[k]["B"] = IF k = l THEN Tail(wire[k]["B"]) ELSE wire[k]["B"]
<1> DEFINE v == Took(d, l)
           e == Other(d)
           w == Answer(d, l, s)
<1>1. \A k \in Legs, c \in Devices : v[k][c] = IF k = l /\ c = d THEN Tail(wire[k][c]) ELSE wire[k][c]
  BY DEF Took, Wires
<1>2. v \in Wires
  BY TookQuiet
<1>3. w = IF l = "direct" /\ ~channel THEN v ELSE [v EXCEPT ![l][e] = @ \o s]
  BY DEF Answer
<1>4. e \in Devices /\ (e = "B" <=> d = "A") /\ (d = "A" \/ d = "B") /\ "B" \in Devices
  BY DEF Other, Devices
<1> HIDE DEF v, e, w
<1>5. \A k \in Legs, c \in Devices : w[k][c] = v[k][c] \/ (c = e /\ w[k][c] = v[k][c] \o s)
  BY <1>2, <1>3, <1>4 DEF Wires
<1>6. \A k \in Legs : /\ d = "A" => w[k]["B"] \in {wire[k]["B"], wire[k]["B"] \o s}
                      /\ d = "B" => w[k]["B"] = v[k]["B"]
  BY <1>1, <1>4, <1>5
<1>7. \A k \in Legs : d = "B" => v[k]["B"] = IF k = l THEN Tail(wire[k]["B"]) ELSE wire[k]["B"]
  BY <1>1, <1>4
<1> QED
  BY <1>6, <1>7 DEF v, w

\* A is told that B accepts: until then it has sent nothing of the file.
LEMMA AcceptedIsCalm ==
  ASSUME Sound, NEW t \in Ids, Calm(t), NEW l \in Legs, Has(wire[l]["A"], "accept", t),
         phase["A"][t] = "waiting", phase' = [phase EXCEPT !["A"][t] = "sending"],
         wire' = Answer("A", l, IF Chunks[Msg(t)] = 0 THEN <<Frame("complete", t, 0)>> ELSE <<>>),
         UNCHANGED <<links, route, sent, got>>
  PROVE  Calm(t)'
<1> DEFINE s == IF Chunks[Msg(t)] = 0 THEN <<Frame("complete", t, 0)>> ELSE <<>>
<1>1. /\ wire \in Wires /\ TableTypes /\ got[t] = 0 /\ sent[t] = 0
      /\ "A" \in Devices /\ "B" \in Devices /\ Chunks[Msg(t)] \in Nat
  <2>1. wire \in Wires /\ TableTypes /\ Counted /\ WaitingUnsent
    BY DEF Sound, TableSound, Wired, Carries, Wires
  <2>2. Chunks[Msg(t)] \in Nat
    BY FileAssumption DEF Ids, Msg
  <2>3. sent[t] = 0 /\ got[t] \in Nat /\ got[t] <= sent[t]
    BY <2>1 DEF WaitingUnsent, Counted, TableTypes
  <2>4. got[t] = 0
    BY <2>3
  <2> QED
    BY <2>1, <2>2, <2>3, <2>4 DEF Devices
<1>2. s \in Seq(AnyFrame) /\ \A type : Has(s, type, t) => type = "complete" /\ Chunks[Msg(t)] = 0
  <2>1. Frame("complete", t, 0) \in AnyFrame /\ Frame("complete", t, 0).type = "complete"
    BY DEF Frame, AnyFrame, Types
  <2>2. <<Frame("complete", t, 0)>> \in Seq(AnyFrame) /\ <<>> \in Seq(AnyFrame)
    BY <2>1, EmptySeq
  <2>3. /\ \A type : Has(<<Frame("complete", t, 0)>>, type, t) => type = "complete"
        /\ \A type : ~Has(<<>>, type, t)
    BY <2>1, HasOne
  <2> QED
    BY <2>2, <2>3
<1>3. wire' = Answer("A", l, s)
  OBVIOUS
<1> HIDE DEF s
<1>4. \A k \in Legs : wire'[k]["B"] \in {wire[k]["B"], wire[k]["B"] \o s} /\ wire[k]["B"] \in Seq(AnyFrame)
  <2>1. wire[l]["A"] # <<>>
    BY DEF Has
  <2>2. \A k \in Legs : Answer("A", l, s)[k]["B"] \in {wire[k]["B"], wire[k]["B"] \o s}
    BY <1>1, <2>1, AnswerEffect
  <2> QED
    BY <1>1, <1>3, <2>2 DEF Wires
<1>5. Pinned(t) /\ Offered(t) /\ Deciding(t) /\ Receiving(t)
  BY DEF Calm
<1>6. /\ \A k \in Legs : ~Has(wire[k]["B"], "offer", t)
      /\ phase["B"][t] # "deciding"
  BY <1>5 DEF Offered, Deciding, NotAccepted
<1>7. \A k \in Legs : ~Has(wire[k]["B"], "chunk", t)
  <2> SUFFICES ASSUME NEW k \in Legs, NEW i \in DOMAIN wire[k]["B"],
                      wire[k]["B"][i].type = "chunk", wire[k]["B"][i].id = t
               PROVE  FALSE
    BY DEF Has
  <2>1. wire[k]["B"] \in Seq(ToB)
    BY DEF Sound, Wired, Carries
  <2>2. wire[k]["B"][i] \in ToB
    BY <2>1, ElementOfSeq, LenProperties
  <2> QED
    BY <1>1, <2>2 DEF ToB, AnyFrame
<1>8. ASSUME NEW k \in Legs, NEW type, Has(wire'[k]["B"], type, t)
      PROVE  Has(wire[k]["B"], type, t) \/ (type = "complete" /\ Chunks[Msg(t)] = 0)
  <2> DEFINE q == wire[k]["B"]
  <2>1. q \in Seq(AnyFrame) /\ (Has(q, type, t) \/ Has(q \o s, type, t))
    BY <1>4, <1>8
  <2> HIDE DEF q
  <2>2. Has(q, type, t) \/ Has(s, type, t)
    BY <1>2, <2>1, HasBehind
  <2> QED
    BY <1>2, <2>2 DEF q
<1>9. \A k \in Legs : ~Has(wire'[k]["B"], "offer", t) /\ ~Has(wire'[k]["B"], "chunk", t)
  BY <1>6, <1>7, <1>8
<1>10. /\ phase'["A"][t] = "sending" /\ phase'["B"][t] = phase["B"][t] /\ route'[t] = route[t]
       /\ got'[t] = 0 /\ sent'[t] = 0 /\ UNCHANGED leg
  BY <1>1 DEF TableTypes, links
<1>11. Pinned(t)'
  BY <1>5, <1>9, <1>10 DEF Pinned
<1>12. Offered(t)'
  BY <1>9 DEF Offered, OneOffer, Has
<1>13. Deciding(t)'
  BY <1>6, <1>10 DEF Deciding
<1>14. ASSUME phase["B"][t] = "receiving"
       PROVE  \A k \in Legs : InLine(wire'[k]["B"], t, 0)
  <2> SUFFICES ASSUME NEW k \in Legs PROVE InLine(wire'[k]["B"], t, 0)
    OBVIOUS
  <2>1. Has(wire[k]["B"], "complete", t) => Chunks[Msg(t)] = 0
    <3> SUFFICES ASSUME NEW i \in DOMAIN wire[k]["B"], wire[k]["B"][i].type = "complete", wire[k]["B"][i].id = t,
                        Chunks[Msg(t)] # 0
                 PROVE  FALSE
      BY DEF Has
    <3>1. Before(wire[k]["B"], t, i, 0, Chunks[Msg(t)])
      BY <1>1, <1>5, <1>14 DEF Receiving, InLine
    <3>2. 0 \in 0 .. Chunks[Msg(t)] - 1
      BY <1>1
    <3>3. i \in Nat /\ DOMAIN wire[k]["B"] = 1 .. Len(wire[k]["B"]) /\ Len(wire[k]["B"]) \in Nat
      BY <1>4, LenProperties
    <3>4. PICK j \in 1 .. i - 1 : wire[k]["B"][j].type = "chunk" /\ wire[k]["B"][j].id = t
      BY <3>1, <3>2 DEF Before
    <3>5. j \in DOMAIN wire[k]["B"]
      BY <3>3
    <3> QED
      BY <1>7, <3>4, <3>5 DEF Has
  <2>2. wire'[k]["B"] \in Seq(AnyFrame)
    <3>1. wire[k]["B"] \in Seq(AnyFrame) /\ wire[k]["B"] \o s \in Seq(AnyFrame)
      BY <1>2, <1>4, ConcatProperties
    <3> QED
      BY <1>4, <3>1
  <2>3. ~Has(wire'[k]["B"], "chunk", t) /\ (~Has(wire'[k]["B"], "complete", t) \/ Chunks[Msg(t)] = 0)
    BY <1>8, <1>9, <2>1
  <2> QED
    BY <2>2, <2>3, LineEmpty
<1>15. Receiving(t)'
  <2>1. 0 .. 0 - 1 = {}
    OBVIOUS
  <2> QED
    BY <1>10, <1>14, <2>1 DEF Receiving
<1> QED
  BY <1>11, <1>12, <1>13, <1>15 DEF Calm

LEMMA ReadAKeepsCalm ==
  ASSUME Sound, CalmSound, NEW l \in Legs, ReadA(l)
  PROVE  CalmSound'
<1>a. wire \in Wires /\ TableTypes /\ TableSound /\ "A" \in Devices /\ "B" \in Devices /\ Other("A") = "B"
  BY CalmFacts DEF Sound, Devices, Other
<1>0. PICK f, u : f = Head(wire[l]["A"]) /\ u = f.id
  OBVIOUS
<1>1. wire[l]["A"] # <<>> /\ UNCHANGED links
  BY DEF ReadA, Reads
<1>2. f \in ToA /\ u \in Ids
  <2>1. wire[l]["A"] \in Seq(ToA)
    BY DEF Sound, Wired, Carries
  <2> QED
    BY <1>0, <1>1, <2>1, TakeFirst DEF ToA, AnyFrame
<1>3. \A t : ~NextChunk("A", l, t)
  BY DEF NextChunk
<1>4. ASSUME wire' = Took("A", l), Shrinks, UNCHANGED <<route, sent, got, history>>
      PROVE  CalmSound'
  <2>1. \A t : Unmoved(wire, wire', t)
    BY <1>a, <1>1, <1>3, <1>4, TookQuiet
  <2> QED
    BY <1>1, <1>4, <2>1, CalmGoesOn DEF history
<1>5. ASSUME f.type # "accept" PROVE CalmSound'
  <2>1. /\ CloseOne("A", u, Verdict(f.type)) /\ wire' = Took("A", l)
        /\ UNCHANGED <<route, sent, got, history>>
    BY <1>0, <1>5 DEF ReadA, OnVerdict
  <2>2. Verdict(f.type) \in StatusesOf("A") /\ Verdict(f.type) # "received"
    BY DEF Verdict, StatusesOf
  <2>3. Shrinks
    BY <1>a, <1>2, <2>1, <2>2, CloseOneKeepsTables
  <2> QED
    BY <1>4, <2>1, <2>3
<1>6. ASSUME f.type = "accept", phase["A"][u] # "waiting" PROVE CalmSound'
  <2>1. wire' = Took("A", l) /\ UNCHANGED <<tables, history>>
    BY <1>0, <1>6 DEF ReadA, OnAccept, Ignore
  <2> QED
    BY <1>4, <2>1 DEF tables, Shrinks
<1>7. ASSUME f.type = "accept", phase["A"][u] = "waiting" PROVE CalmSound'
  <2>0. PICK s : s = IF Chunks[Msg(u)] = 0 THEN <<Frame("complete", u, 0)>> ELSE <<>>
    OBVIOUS
  <2>1. /\ phase' = [phase EXCEPT !["A"][u] = "sending"]
        /\ wire' = Answer("A", l, s)
        /\ UNCHANGED <<route, sent, got, history>>
    BY <1>0, <1>7, <2>0 DEF ReadA, OnAccept
  <2>2. s \in Seq(AnyFrame) /\ \A t : t # u => Strange("B", s, t)
    <3>1. Frame("complete", u, 0) \in AnyFrame /\ Frame("complete", u, 0).id = u
      BY <1>2 DEF Frame, AnyFrame, Types
    <3>2. /\ <<Frame("complete", u, 0)>> \in Seq(AnyFrame) /\ <<>> \in Seq(AnyFrame)
          /\ \A t : t # u => Strange("B", <<Frame("complete", u, 0)>>, t)
          /\ \A t : Strange("B", <<>>, t)
      BY <3>1, StrangeOne, EmptySeq
    <3> QED
      BY <2>0, <3>2
  <2>3. \A t \in Ids : t # u => Unmoved(wire, wire', t)
    BY <1>a, <1>1, <1>3, <2>1, <2>2, AnswerQuiet
  <2>4. \A t \in Ids : t # u =>
          /\ Unmoved(wire, wire', t)
          /\ phase'["A"][t] \in {phase["A"][t], "none"} /\ phase'["B"][t] \in {phase["B"][t], "none"}
          /\ route'[t] = route[t] /\ got'[t] = got[t] /\ sent'[t] = sent[t]
    BY <1>a, <2>1, <2>3 DEF TableTypes
  <2>5. UNCHANGED <<links, calm>> /\ gap' \subseteq gap \cup {u}
    BY <1>1, <2>1 DEF history
  <2>6. ASSUME u \in calm PROVE Calm(u)' /\ u \notin gap'
    <3>1. Calm(u) /\ u \notin gap'
      BY <2>1, <2>6, CalmFacts DEF history
    <3>2. Has(wire[l]["A"], "accept", u)
      <4> DEFINE q == wire[l]["A"]
      <4>1. q \in Seq(AnyFrame) /\ q # <<>> /\ Head(q) = f
        BY <1>0, <1>1, <1>a DEF Wires
      <4>2. Len(q) \in Nat /\ Len(q) >= 1 /\ DOMAIN q = 1 .. Len(q) /\ Head(q) = q[1]
        BY <4>1, LenProperties, EmptySeq
      <4> QED
        BY <1>0, <1>7, <4>1, <4>2 DEF Has
    <3>3. wire' = Answer("A", l, IF Chunks[Msg(u)] = 0 THEN <<Frame("complete", u, 0)>> ELSE <<>>)
      BY <2>0, <2>1
    <3>4. Calm(u)'
      BY <1>1, <1>2, <1>7, <2>1, <3>1, <3>2, <3>3, AcceptedIsCalm
    <3> QED
      BY <3>1, <3>4
  <2> QED
    BY <1>2, <2>4, <2>5, <2>6, CalmBut
<1> QED
  BY <1>5, <1>6, <1>7

\* What the first frame to B is, and what is left behind it.
LEMMA FirstToB ==
  ASSUME Sound, NEW l \in Legs, wire[l]["B"] # <<>>
  PROVE  /\ wire[l]["B"] \in Seq(AnyFrame) /\ Head(wire[l]["B"]) \in ToB /\ Head(wire[l]["B"]).id \in Ids
         /\ wire[l]["B"][1] = Head(wire[l]["B"]) /\ 1 \in DOMAIN wire[l]["B"]
         /\ Has(wire[l]["B"], Head(wire[l]["B"]).type, Head(wire[l]["B"]).id)
<1> DEFINE q == wire[l]["B"]
<1>1. q \in Seq(AnyFrame) /\ q \in Seq(ToB) /\ q # <<>>
  BY DEF Sound, Wired, Carries, Devices
<1> HIDE DEF q
<1>2. Head(q) \in ToB /\ Head(q).id \in Ids
  BY <1>1, TakeFirst DEF ToB, AnyFrame
<1>3. q[1] = Head(q) /\ 1 \in DOMAIN q
  BY <1>1, LenProperties, EmptySeq
<1>4. Has(q, Head(q).type, Head(q).id)
  BY <1>3 DEF Has
<1> QED
  BY <1>1, <1>2, <1>3, <1>4 DEF q

\* B takes the offer up: nothing of the file can be on its way yet.
LEMMA OfferedIsCalm ==
  ASSUME Sound, NEW t \in Ids, Calm(t), NEW l \in Legs, wire[l]["B"] # <<>>,
         Head(wire[l]["B"]).type = "offer", Head(wire[l]["B"]).id = t,
         NEW p \in {"deciding", "receiving"}, phase' = [phase EXCEPT !["B"][t] = p],
         NEW s \in Seq(AnyFrame), p = "deciding" => s = <<>>, wire' = Answer("B", l, s),
         UNCHANGED <<links, route, sent, got>>
  PROVE  Calm(t)'
<1>1. /\ wire \in Wires /\ TableTypes /\ got[t] \in Nat /\ "A" \in Devices /\ "B" \in Devices
      /\ \A k \in Legs : wire[k]["B"] \in Seq(AnyFrame)
  BY DEF Sound, TableSound, TableTypes, Wired, Carries, Wires, Devices
<1>2. Pinned(t) /\ Offered(t)
  BY DEF Calm
<1>3. Has(wire[l]["B"], "offer", t)
  BY FirstToB
<1>4. NotAccepted(t) /\ l = route[t] /\ OneOffer(wire[l]["B"], t)
  BY <1>2, <1>3 DEF Pinned, Offered
<1>5. \A k \in Legs : wire'[k]["B"] = IF k = l THEN Tail(wire[k]["B"]) ELSE wire[k]["B"]
  BY <1>1, AnswerEffect
<1>6. \A k \in Legs : ~Has(wire'[k]["B"], "offer", t)
  <2> SUFFICES ASSUME NEW k \in Legs PROVE ~Has(wire'[k]["B"], "offer", t)
    OBVIOUS
  <2>1. CASE k = l
    <3> DEFINE q == wire[l]["B"]
    <3>1. q \in Seq(AnyFrame) /\ q # <<>> /\ OneOffer(q, t) /\ Head(q).type = "offer" /\ Head(q).id = t
          /\ wire'[k]["B"] = Tail(q)
      BY <1>1, <1>4, <1>5, <2>1
    <3> HIDE DEF q
    <3> QED
      BY <3>1, LineTail
  <2>2. CASE k # l
    BY <1>2, <1>4, <1>5, <2>2 DEF Pinned
  <2> QED
    BY <2>1, <2>2
<1>7. \A k \in Legs, type \in {"chunk", "complete"} : ~Has(wire'[k]["B"], type, t)
  <2> SUFFICES ASSUME NEW k \in Legs, NEW type \in {"chunk", "complete"}, Has(wire'[k]["B"], type, t) PROVE FALSE
    OBVIOUS
  <2>0. Has(wire'[k]["B"], type, t)
    OBVIOUS
  <2>1. Has(wire[k]["B"], type, t)
    <3> DEFINE q == wire[k]["B"]
    <3>1. q \in Seq(AnyFrame) /\ (wire'[k]["B"] = q \/ (q # <<>> /\ wire'[k]["B"] = Tail(q)))
      BY <1>1, <1>5
    <3> HIDE DEF q
    <3>2. q # <<>> => (Has(Tail(q), type, t) => Has(q, type, t))
      BY <3>1, LineTail
    <3>3. Has(q, type, t)
      BY <2>0, <3>1, <3>2
    <3> QED
      BY <3>3 DEF q
  <2> QED
    BY <1>4, <2>1 DEF NotAccepted
<1>8. /\ phase'["A"][t] = phase["A"][t] /\ phase'["B"][t] = p /\ phase["A"][t] # "sending"
      /\ route'[t] = route[t] /\ got'[t] = got[t] /\ UNCHANGED leg
  BY <1>1, <1>4 DEF TableTypes, NotAccepted, links
<1>9. Pinned(t)'
  BY <1>2, <1>6, <1>7, <1>8 DEF Pinned
<1>10. Offered(t)'
  BY <1>6 DEF Offered, OneOffer, Has
<1>11. Deciding(t)'
  <2> SUFFICES ASSUME phase'["B"][t] = "deciding" PROVE NotAccepted(t)'
    BY DEF Deciding
  <2>1. s = <<>>
    BY <1>8
  <2>2. Quiet(wire, wire', t)
    <3>1. Other("B") = "A" /\ Strange("A", <<>>, t) /\ <<>> \in Seq(AnyFrame)
      BY StrangeOne, EmptySeq DEF Other
    <3> QED
      BY <1>1, <2>1, <3>1, AnswerQuiet
  <2>3. \A k \in Legs : ~Has(wire'[k]["A"], "accept", t)
    BY <1>4, <2>2 DEF Quiet, NotAccepted
  <2> QED
    BY <1>7, <1>8, <2>3 DEF NotAccepted
<1>12. Receiving(t)'
  <2>1. \A k \in Legs : wire'[k]["B"] \in Seq(AnyFrame)
    <3>1. \A k \in Legs : wire[k]["B"] # <<>> => Tail(wire[k]["B"]) \in Seq(AnyFrame)
      BY <1>1, TakeFirst
    <3> QED
      BY <1>1, <1>5, <3>1
  <2>2. \A k \in Legs : InLine(wire'[k]["B"], t, got[t])
    BY <1>1, <1>7, <2>1, LineEmpty
  <2> QED
    BY <1>8, <2>2 DEF Receiving
<1> QED
  BY <1>9, <1>10, <1>11, <1>12 DEF Calm

\* A line without chunks goes on from any number it could go on from.
LEMMA LineOn ==
  ASSUME NEW s \in Seq(AnyFrame), NEW t \in Ids, NEW g \in Nat, InLine(s, t, g), ~Has(s, "chunk", t)
  PROVE  InLine(s, t, g + 1)
<1>1. \A i \in DOMAIN s : ~(s[i].type = "chunk" /\ s[i].id = t)
  BY DEF Has
<1>2. ASSUME NEW i \in DOMAIN s, s[i].type = "complete", s[i].id = t
      PROVE  Before(s, t, i, g + 1, Chunks[Msg(t)])
  <2>1. Before(s, t, i, g, Chunks[Msg(t)])
    BY <1>2 DEF InLine
  <2>2. Chunks[Msg(t)] \in Nat
    BY FileAssumption DEF Ids, Msg
  <2>3. g + 1 .. Chunks[Msg(t)] - 1 \subseteq g .. Chunks[Msg(t)] - 1
    BY <2>2
  <2> QED
    BY <2>1, <2>3 DEF Before
<1> QED
  BY <1>1, <1>2 DEF InLine

\* B takes the chunk that is next, and waits for more.
LEMMA ChunkIsCalm ==
  ASSUME Sound, NEW t \in Ids, Calm(t), NEW l \in Legs, wire[l]["B"] # <<>>, phase["B"][t] = "receiving",
         Head(wire[l]["B"]).type = "chunk", Head(wire[l]["B"]).id = t,
         got' = [got EXCEPT ![t] = @ + 1], wire' = Took("B", l), UNCHANGED <<links, phase, route, sent>>
  PROVE  Calm(t)'
<1>1. /\ wire \in Wires /\ TableTypes /\ got[t] \in Nat /\ sent[t] \in Nat /\ "B" \in Devices /\ got'[t] = got[t] + 1
      /\ \A k \in Legs : wire[k]["B"] \in Seq(AnyFrame)
  BY DEF Sound, TableSound, TableTypes, Wired, Carries, Wires, Devices
<1>2. Pinned(t) /\ Offered(t) /\ Receiving(t)
  BY DEF Calm
<1>3. l = route[t]
  BY <1>2, FirstToB DEF Pinned
<1>4. \A k \in Legs : wire'[k]["B"] = IF k = l THEN Tail(wire[k]["B"]) ELSE wire[k]["B"]
  BY <1>1, AnswerEffect
<1>5. Quiet(wire, wire', t)
  BY <1>1, TookQuiet
<1> DEFINE q == wire[l]["B"]
<1>6. q \in Seq(AnyFrame) /\ q # <<>> /\ InLine(q, t, got[t]) /\ Head(q).type = "chunk" /\ Head(q).id = t
      /\ wire'[l]["B"] = Tail(q)
  BY <1>1, <1>2, <1>4 DEF Receiving
<1> HIDE DEF q
<1>7. /\ InLine(Tail(q), t, got[t] + 1)
      /\ \A k \in Nat : got[t] < k /\ HasChunk(q, t, k) => HasChunk(Tail(q), t, k)
  BY <1>1, <1>6, LineChunk
<1>8. ASSUME NEW k \in Legs PROVE InLine(wire'[k]["B"], t, got[t] + 1)
  <2>1. CASE k = l
    BY <1>6, <1>7, <2>1
  <2>2. CASE k # l
    <3>1. wire'[k]["B"] = wire[k]["B"] /\ ~Has(wire[k]["B"], "chunk", t) /\ InLine(wire[k]["B"], t, got[t])
      BY <1>2, <1>3, <1>4, <2>2 DEF Pinned, Receiving
    <3>2. InLine(wire[k]["B"], t, got[t] + 1)
      BY <1>1, <3>1, LineOn
    <3> QED
      BY <3>1, <3>2
  <2> QED
    BY <2>1, <2>2
<1>9. ASSUME phase["A"][t] = "sending", route[t] = "relay" \/ channel, NEW k \in got[t] + 1 .. sent[t] - 1
      PROVE  HasChunk(wire'[l]["B"], t, k)
  <2>1. k \in got[t] .. sent[t] - 1 /\ k \in Nat /\ got[t] < k
    BY <1>1, <1>9
  <2>2. HasChunk(q, t, k)
    BY <1>2, <1>3, <1>9, <2>1 DEF Receiving, q
  <2> QED
    BY <1>6, <1>7, <2>1, <2>2
<1>10. Receiving(t)'
  BY <1>1, <1>3, <1>8, <1>9 DEF Receiving, links
<1>11. \A k \in Legs : ~Has(wire[k]["B"], "offer", t)
  BY <1>2 DEF Offered
<1>12. Pinned(t)' /\ Offered(t)' /\ Deciding(t)'
  <2>1. \A k \in Legs : ~Has(wire'[k]["B"], "offer", t)
    BY <1>5, <1>11 DEF Quiet
  <2>2. Offered(t)'
    BY <2>1 DEF Offered, OneOffer, Has
  <2>3. Pinned(t)'
    BY <1>2, <1>5 DEF Pinned, Quiet, links
  <2>4. Deciding(t)'
    BY DEF Deciding
  <2> QED
    BY <2>2, <2>3, <2>4
<1> QED
  BY <1>10, <1>12 DEF Calm

\* B ends one transfer, or none, and leaves the others alone.
EndsOnB(u) ==
  \A t \in Ids : /\ phase'["A"][t] = phase["A"][t]
                 /\ phase'["B"][t] = IF t = u THEN "none" ELSE phase["B"][t]

LEMMA EndOnBKeepsCalm ==
  ASSUME Sound, CalmSound, NEW u \in Ids, NEW l \in Legs, wire[l]["B"] # <<>>, Head(wire[l]["B"]).id = u,
         EndsOnB(u), NEW s \in Seq(AnyFrame), \A t : Strange("A", s, t), wire' = Answer("B", l, s),
         \A t \in Ids : t # u => got'[t] = got[t], UNCHANGED <<links, route, sent, calm>>,
         gap' \subseteq gap \cup {u}, u \in calm => u \notin gap'
  PROVE  CalmSound'
<1>1. wire \in Wires /\ TableTypes /\ "B" \in Devices /\ Other("B") = "A"
  BY CalmFacts DEF Devices, Other
<1>2. \A t : Quiet(wire, wire', t) /\ (t # u => Unmoved(wire, wire', t))
  <2>1. \A t : Quiet(wire, wire', t) /\ (~NextChunk("B", l, t) => Unmoved(wire, wire', t))
    BY <1>1, AnswerQuiet
  <2> QED
    BY <2>1 DEF NextChunk
<1>3. \A t \in Ids : t # u =>
        /\ Unmoved(wire, wire', t)
        /\ phase'["A"][t] \in {phase["A"][t], "none"} /\ phase'["B"][t] \in {phase["B"][t], "none"}
        /\ route'[t] = route[t] /\ got'[t] = got[t] /\ sent'[t] = sent[t]
  BY <1>2 DEF EndsOnB
<1>4. ASSUME u \in calm PROVE Calm(u)' /\ u \notin gap'
  <2>1. Calm(u) /\ u \in calm
    BY <1>4, CalmFacts
  <2>2. /\ phase'["A"][u] \in {phase["A"][u], "none"} /\ phase'["B"][u] \in {phase["B"][u], "none"}
        /\ phase'["B"][u] # "receiving" /\ route'[u] = route[u] /\ UNCHANGED leg
    BY DEF EndsOnB, links
  <2>3. Calm(u)'
    BY <1>1, <1>2, <2>1, <2>2, CalmEndsOnB
  <2> QED
    BY <2>1, <2>3
<1> QED
  BY <1>3, <1>4, CalmBut

LEMMA CloseEndsOnB ==
  ASSUME TableTypes, NEW u \in Ids, Close("B", {u}, "failed")
  PROVE  EndsOnB(u)
<1>1. Closed("B", {u}, "failed")
  BY CloseEffect DEF Devices, StatusesOf
<1> QED
  BY <1>1 DEF Closed, EndsOnB, Devices

\* B finishes the file, well or not, and answers.
LEMMA FinishKeepsCalm ==
  ASSUME Sound, CalmSound, NEW u \in Ids, NEW l \in Legs, wire[l]["B"] # <<>>, Head(wire[l]["B"]).id = u,
         \A t \in Ids : t # u => got'[t] = got[t], UNCHANGED <<links, route, sent>>, Finish(u, l)
  PROVE  CalmSound'
<1>1. TableTypes
  BY CalmFacts
<1>2. PICK type \in {"verified", "refused"} : wire' = Answer("B", l, <<Frame(type, u, 0)>>)
  BY DEF Finish
<1>3. EndsOnB(u) /\ UNCHANGED <<gap, calm>>
  <2>1. CASE /\ phase' = [phase EXCEPT !["B"][u] = "none"] /\ UNCHANGED <<gap, calm>>
    BY <1>1, <2>1 DEF TableTypes, EndsOnB, Devices
  <2>2. CASE Close("B", {u}, "failed") /\ UNCHANGED history
    BY <1>1, <2>2, CloseEndsOnB DEF history
  <2> QED
    BY <2>1, <2>2 DEF Finish
<1> DEFINE s == <<Frame(type, u, 0)>>
<1>4. s \in Seq(AnyFrame) /\ \A t : Strange("A", s, t)
  <2>1. Frame(type, u, 0) \in AnyFrame /\ Frame(type, u, 0).type = type
    BY DEF Frame, AnyFrame, Types
  <2> QED
    BY <2>1, StrangeOne
<1>5. wire' = Answer("B", l, s)
  BY <1>2
<1> HIDE DEF s
<1>6. gap' \subseteq gap \cup {u} /\ (u \in calm => u \notin gap')
  BY <1>3, CalmFacts
<1> QED
  BY <1>3, <1>4, <1>5, <1>6, EndOnBKeepsCalm

LEMMA ReadBKeepsCalm ==
  ASSUME Sound, CalmSound, NEW l \in Legs, ReadB(l)
  PROVE  CalmSound'
<1>a. wire \in Wires /\ TableTypes /\ TableSound /\ "A" \in Devices /\ "B" \in Devices /\ Other("B") = "A"
  BY CalmFacts DEF Sound, Devices, Other
<1>0. PICK f, u : f = Head(wire[l]["B"]) /\ u = f.id
  OBVIOUS
<1>1. wire[l]["B"] # <<>> /\ UNCHANGED links
  BY DEF ReadB, Reads
<1>2. f \in ToB /\ u \in Ids /\ Head(wire[l]["B"]) = f /\ Head(wire[l]["B"]).id = u
  BY <1>0, <1>1, FirstToB
<1>3. ASSUME wire' = Took("B", l), UNCHANGED <<tables, history>>, f.type # "chunk" \/ phase["B"][u] # "receiving"
      PROVE  CalmSound'
  <2>1. \A t : Quiet(wire, wire', t) /\ (~NextChunk("B", l, t) => Unmoved(wire, wire', t))
    BY <1>a, <1>1, <1>3, TookQuiet
  <2>2. \A t : t # u \/ f.type # "chunk" => Unmoved(wire, wire', t)
    BY <1>0, <2>1 DEF NextChunk
  <2>3. UNCHANGED <<phase, route, sent, got, calm, gap>>
    BY <1>3 DEF tables, history
  <2>4. ASSUME u \in calm PROVE Calm(u)' /\ u \notin gap'
    <3>1. Calm(u) /\ u \notin gap'
      BY <2>3, <2>4, CalmFacts
    <3>2. CASE f.type # "chunk"
      <4>1. Unmoved(wire, wire', u)
        BY <2>2, <3>2
      <4>2. Calm(u)'
        BY <1>a, <1>1, <1>2, <2>3, <3>1, <4>1, CalmUnmoved DEF links
      <4> QED
        BY <3>1, <4>2
    <3>3. CASE phase["B"][u] # "receiving"
      <4>1. Calm(u)'
        BY <1>a, <1>1, <1>2, <2>1, <2>3, <3>1, <3>3, CalmEndsOnB DEF links
      <4> QED
        BY <3>1, <4>1
    <3> QED
      BY <1>3, <3>2, <3>3
  <2>5. \A t \in Ids : t # u =>
          /\ Unmoved(wire, wire', t)
          /\ phase'["A"][t] \in {phase["A"][t], "none"} /\ phase'["B"][t] \in {phase["B"][t], "none"}
          /\ route'[t] = route[t] /\ got'[t] = got[t] /\ sent'[t] = sent[t]
    BY <2>2, <2>3
  <2>6. UNCHANGED <<links, calm>> /\ gap' \subseteq gap \cup {u}
    BY <1>1, <2>3
  <2> QED
    BY <1>2, <2>4, <2>5, <2>6, CalmBut
<1>4. ASSUME f.type = "offer" PROVE CalmSound'
  <2>0. OnOffer(l)
    BY <1>0, <1>4 DEF ReadB
  <2>1. CASE phase["B"][u] # "none"
    <3>1. wire' = Took("B", l) /\ UNCHANGED <<tables, history>>
      BY <1>0, <2>0, <2>1 DEF OnOffer, Ignore
    <3> QED
      BY <1>3, <1>4, <3>1
  <2>2. CASE phase["B"][u] = "none" /\ ~HasPlace("B")
    <3> DEFINE s == <<Frame("reject", u, 0)>>
    <3>1. wire' = Answer("B", l, s) /\ UNCHANGED <<tables, history>>
      BY <1>0, <2>0, <2>2 DEF OnOffer
    <3>2. s \in Seq(AnyFrame) /\ \A t : Strange("A", s, t)
      <4>1. Frame("reject", u, 0) \in AnyFrame /\ Frame("reject", u, 0).type = "reject"
        BY <1>2 DEF Frame, AnyFrame, Types
      <4> QED
        BY <4>1, StrangeOne
    <3> HIDE DEF s
    <3>3. \A t : ~NextChunk("B", l, t)
      BY <1>0, <1>4 DEF NextChunk
    <3>4. \A t : Unmoved(wire, wire', t)
      BY <1>a, <1>1, <3>1, <3>2, <3>3, AnswerQuiet
    <3>5. Shrinks /\ UNCHANGED <<links, route, sent, got, gap>> /\ calm' \subseteq calm
      BY <1>1, <3>1 DEF Shrinks, tables, history
    <3> QED
      BY <3>4, <3>5, CalmGoesOn
  <2>3. CASE phase["B"][u] = "none" /\ HasPlace("B")
    <3>0. PICK p, s : /\ p = IF Msg(u) \in Big THEN "deciding" ELSE "receiving"
                      /\ s = IF Msg(u) \in Big THEN <<>> ELSE <<Frame("accept", u, 0)>>
      OBVIOUS
    <3>1. /\ phase' = [phase EXCEPT !["B"][u] = p] /\ wire' = Answer("B", l, s)
          /\ UNCHANGED <<route, sent, got, history>>
      BY <1>0, <2>0, <2>3, <3>0 DEF OnOffer
    <3>2. s \in Seq(AnyFrame) /\ (\A t : t # u => Strange("A", s, t)) /\ (p = "deciding" => s = <<>>)
      <4>1. Frame("accept", u, 0) \in AnyFrame /\ Frame("accept", u, 0).id = u
        BY <1>2 DEF Frame, AnyFrame, Types
      <4>2. /\ <<Frame("accept", u, 0)>> \in Seq(AnyFrame) /\ <<>> \in Seq(AnyFrame)
            /\ \A t : t # u => Strange("A", <<Frame("accept", u, 0)>>, t)
            /\ \A t : Strange("A", <<>>, t)
        BY <4>1, StrangeOne, EmptySeq
      <4> QED
        BY <3>0, <4>2
    <3>3. \A t : ~NextChunk("B", l, t)
      BY <1>0, <1>4 DEF NextChunk
    <3>4. \A t : t # u => Unmoved(wire, wire', t)
      BY <1>a, <1>1, <3>1, <3>2, <3>3, AnswerQuiet
    <3>5. \A t \in Ids : t # u =>
            /\ Unmoved(wire, wire', t)
            /\ phase'["A"][t] \in {phase["A"][t], "none"} /\ phase'["B"][t] \in {phase["B"][t], "none"}
            /\ route'[t] = route[t] /\ got'[t] = got[t] /\ sent'[t] = sent[t]
      BY <1>a, <3>1, <3>4 DEF TableTypes
    <3>6. ASSUME u \in calm PROVE Calm(u)' /\ u \notin gap'
      <4>1. Calm(u) /\ u \notin gap'
        BY <3>1, <3>6, CalmFacts DEF history
      <4>2. p \in {"deciding", "receiving"} /\ Head(wire[l]["B"]).type = "offer"
        BY <1>0, <1>4, <3>0
      <4>3. Calm(u)'
        BY <1>1, <1>2, <3>1, <3>2, <4>1, <4>2, OfferedIsCalm
      <4> QED
        BY <4>1, <4>3
    <3>7. UNCHANGED <<links, calm>> /\ gap' \subseteq gap \cup {u}
      BY <1>1, <3>1 DEF history
    <3> QED
      BY <1>2, <3>5, <3>6, <3>7, CalmBut
  <2> QED
    BY <2>1, <2>2, <2>3
<1>5. ASSUME f.type = "chunk" PROVE CalmSound'
  <2>0. OnChunk(l) /\ Head(wire[l]["B"]).type = "chunk"
    BY <1>0, <1>5 DEF ReadB
  <2>1. CASE phase["B"][u] # "receiving"
    <3>1. wire' = Took("B", l) /\ UNCHANGED <<tables, history>>
      BY <1>0, <2>0, <2>1 DEF OnChunk, Ignore
    <3> QED
      BY <1>3, <2>1, <3>1
  <2>2. CASE phase["B"][u] = "receiving" /\ ~InTurn(f)
    <3>1. wire' = Took("B", l) /\ UNCHANGED <<tables, history>>
      BY <1>0, <2>0, <2>2 DEF OnChunk, Ignore
    <3>2. u \notin calm
      <4> SUFFICES ASSUME u \in calm PROVE FALSE
        OBVIOUS
      <4> DEFINE q == wire[l]["B"]
      <4>1. Receiving(u) /\ got[u] \in Nat
        BY <1>a, <1>2, CalmFacts DEF Calm, TableTypes
      <4>2. q \in Seq(AnyFrame) /\ q # <<>> /\ InLine(q, u, got[u]) /\ Head(q).type = "chunk" /\ Head(q).id = u
        BY <1>a, <1>1, <1>2, <2>0, <2>2, <4>1 DEF Wires, Receiving
      <4> HIDE DEF q
      <4>3. Head(q).seq = got[u]
        BY <1>2, <4>1, <4>2, LineChunk
      <4>4. f.seq = got[u]
        BY <1>2, <4>3 DEF q
      <4>5. f.seq < sent[u] /\ sent[u] <= Chunks[Msg(u)] /\ f.seq \in Nat /\ sent[u] \in Nat /\ Chunks[Msg(u)] \in Nat
        BY <1>a, <1>0, <1>2, <1>5, FileAssumption DEF ToB, AnyFrame, TableSound, Counted, TableTypes, Ids, Msg
      <4> QED
        BY <1>0, <2>2, <4>4, <4>5 DEF InTurn
    <3>3. \A t : t # u => Unmoved(wire, wire', t)
      <4>1. \A t : ~NextChunk("B", l, t) => Unmoved(wire, wire', t)
        BY <1>a, <1>1, <3>1, TookQuiet
      <4> QED
        BY <1>0, <4>1 DEF NextChunk
    <3>4. \A t \in calm : Unmoved(wire, wire', t)
      BY <3>2, <3>3
    <3>5. Shrinks /\ UNCHANGED <<links, route, sent, got, gap>> /\ calm' \subseteq calm
      BY <1>1, <3>1 DEF Shrinks, tables, history
    <3> QED
      BY <3>4, <3>5, CalmGoesOn
  <2>3. CASE phase["B"][u] = "receiving" /\ InTurn(f)
    <3>1. /\ got' = [got EXCEPT ![u] = @ + 1] /\ UNCHANGED <<route, sent>>
          /\ \/ wire' = Took("B", l) /\ UNCHANGED <<phase, history>>
             \/ Finish(u, l)
      BY <1>0, <2>0, <2>3 DEF OnChunk
    <3>2. \A t \in Ids : t # u => got'[t] = got[t]
      BY <1>a, <3>1 DEF TableTypes
    <3>3. CASE Finish(u, l)
      BY <1>1, <1>2, <3>1, <3>2, <3>3, FinishKeepsCalm
    <3>4. CASE wire' = Took("B", l) /\ UNCHANGED <<phase, history>>
      <4>1. \A t : t # u => Unmoved(wire, wire', t)
        <5>1. \A t : ~NextChunk("B", l, t) => Unmoved(wire, wire', t)
          BY <1>a, <1>1, <3>4, TookQuiet
        <5> QED
          BY <1>0, <5>1 DEF NextChunk
      <4>2. \A t \in Ids : t # u =>
              /\ Unmoved(wire, wire', t)
              /\ phase'["A"][t] \in {phase["A"][t], "none"} /\ phase'["B"][t] \in {phase["B"][t], "none"}
              /\ route'[t] = route[t] /\ got'[t] = got[t] /\ sent'[t] = sent[t]
        BY <3>1, <3>2, <3>4, <4>1
      <4>3. ASSUME u \in calm PROVE Calm(u)' /\ u \notin gap'
        <5>1. Calm(u) /\ u \notin gap'
          BY <3>4, <4>3, CalmFacts DEF history
        <5>2. Calm(u)'
          BY <1>1, <1>2, <2>0, <2>3, <3>1, <3>4, <5>1, ChunkIsCalm
        <5> QED
          BY <5>1, <5>2
      <4>4. UNCHANGED <<links, calm>> /\ gap' \subseteq gap \cup {u}
        BY <1>1, <3>4 DEF history
      <4> QED
        BY <1>2, <4>2, <4>3, <4>4, CalmBut
    <3> QED
      BY <3>1, <3>3, <3>4
  <2> QED
    BY <2>1, <2>2, <2>3
<1>6. ASSUME f.type = "complete" PROVE CalmSound'
  <2>0. OnComplete(l) /\ Head(wire[l]["B"]).type = "complete"
    BY <1>0, <1>6 DEF ReadB
  <2>1. CASE phase["B"][u] # "receiving"
    <3>1. wire' = Took("B", l) /\ UNCHANGED <<tables, history>>
      BY <1>0, <2>0, <2>1 DEF OnComplete, Ignore
    <3> QED
      BY <1>3, <2>1, <3>1
  <2>2. CASE phase["B"][u] = "receiving" /\ Missing(u)
    <3> DEFINE s == <<Frame("refused", u, 0)>>
    <3>1. /\ Close("B", {u}, "failed") /\ wire' = Answer("B", l, s) /\ gap' = gap \cup {u}
          /\ UNCHANGED <<route, sent, got, calm>>
      BY <1>0, <2>0, <2>2 DEF OnComplete
    <3>2. s \in Seq(AnyFrame) /\ \A t : Strange("A", s, t)
      <4>1. Frame("refused", u, 0) \in AnyFrame /\ Frame("refused", u, 0).type = "refused"
        BY <1>2 DEF Frame, AnyFrame, Types
      <4> QED
        BY <4>1, StrangeOne
    <3> HIDE DEF s
    <3>3. EndsOnB(u)
      BY <1>a, <1>2, <3>1, CloseEndsOnB
    <3>4. u \notin calm
      <4> SUFFICES ASSUME u \in calm PROVE FALSE
        OBVIOUS
      <4>1. Receiving(u) /\ got[u] \in Nat
        BY <1>a, <1>2, CalmFacts DEF Calm, TableTypes
      <4>2. InLine(wire[l]["B"], u, got[u])
        BY <2>2, <4>1 DEF Receiving
      <4>3. 1 \in DOMAIN wire[l]["B"] /\ wire[l]["B"][1].type = "complete" /\ wire[l]["B"][1].id = u
        BY <1>1, <1>2, <2>0, FirstToB
      <4>4. Before(wire[l]["B"], u, 1, got[u], Chunks[Msg(u)])
        BY <4>2, <4>3 DEF InLine
      <4>5. Chunks[Msg(u)] \in Nat /\ got[u] < Chunks[Msg(u)]
        BY <1>2, <2>2, FileAssumption DEF Ids, Msg, Missing
      <4>6. got[u] \in got[u] .. Chunks[Msg(u)] - 1
        BY <4>1, <4>5
      <4> QED
        BY <4>4, <4>6 DEF Before
    <3>5. gap' \subseteq gap \cup {u} /\ \A t \in Ids : t # u => got'[t] = got[t]
      BY <3>1
    <3> QED
      BY <1>1, <1>2, <3>1, <3>2, <3>3, <3>4, <3>5, EndOnBKeepsCalm
  <2>3. CASE phase["B"][u] = "receiving" /\ ~Missing(u)
    <3>1. Finish(u, l) /\ UNCHANGED <<route, sent, got>>
      BY <1>0, <2>0, <2>3 DEF OnComplete
    <3> QED
      BY <1>1, <1>2, <3>1, FinishKeepsCalm
  <2> QED
    BY <2>1, <2>2, <2>3
<1>7. ASSUME f.type = "cancel" PROVE CalmSound'
  <2>1. /\ CloseOne("B", u, "failed") /\ wire' = Took("B", l)
        /\ UNCHANGED <<route, sent, got, history>>
    BY <1>0, <1>7 DEF ReadB, OnCancel
  <2>2. Shrinks
    <3>1. "failed" \in StatusesOf("B") /\ "failed" # "received"
      BY DEF StatusesOf
    <3> QED
      BY <1>a, <1>2, <2>1, <3>1, CloseOneKeepsTables
  <2>3. \A t : Unmoved(wire, wire', t)
    <3>1. \A t : ~NextChunk("B", l, t)
      BY <1>0, <1>7 DEF NextChunk
    <3> QED
      BY <1>a, <1>1, <2>1, <3>1, TookQuiet
  <2>4. UNCHANGED <<links, route, sent, got, gap>> /\ calm' \subseteq calm
    BY <1>1, <2>1 DEF history
  <2> QED
    BY <2>2, <2>3, <2>4, CalmGoesOn
<1>8. f.type \in {"offer", "chunk", "complete", "cancel"}
  BY <1>2 DEF ToB
<1> QED
  BY <1>4, <1>5, <1>6, <1>7, <1>8

LEMMA NextKeepsCalm == Sound /\ CalmSound /\ [Next]_vars => CalmSound'
<1> SUFFICES ASSUME Sound, CalmSound, [Next]_vars PROVE CalmSound'
  OBVIOUS
<1>1. CASE User
  BY <1>1, AskKeepsCalm, AnswersKeepCalm DEF User
<1>2. CASE Transfers
  <2>1. StartFull \/ Start \/ StartQueued \/ (\E t \in Ids : SendChunk(t)) \/ (\E l \in Legs : ReadA(l) \/ ReadB(l))
    BY <1>2 DEF Transfers, Read
  <2>2. "A" \in Devices
    BY DEF Devices
  <2> QED
    BY <2>1, <2>2, AskKeepsCalm, StartKeepsCalm, SessionStepsKeepCalm, SendChunkKeepsCalm,
       ReadAKeepsCalm, ReadBKeepsCalm
<1>3. CASE Network
  <2>1. "A" \in Devices
    BY DEF Devices
  <2> QED
    BY <1>3, <2>1, LegStepsKeepCalm, SessionStepsKeepCalm DEF Network
<1>4. CASE UNCHANGED vars
  BY <1>4, AskKeepsCalm
<1> QED
  BY <1>1, <1>2, <1>3, <1>4 DEF Next

-----------------------------------------------------------------------------
(* Nothing but a lost connection leaves a gap: the theorem                 *)

\* B never misses a chunk of a file that was offered with both devices online
\* and no connection lost since: cancels, retries, congestion, a channel that
\* breaks or a probe that times out do not part the end of a file from its
\* chunks (send_next_chunk, direct_lost).
THEOREM GapsNeedLoss == Spec => []GapNeedsLoss
<1>1. Init => CalmSound
  BY DEF Init, CalmSound, CalmLive, GapNeedsLoss
<1>2. Sound /\ CalmSound /\ [Next]_vars => CalmSound'
  BY NextKeepsCalm
<1>3. CalmSound => GapNeedsLoss
  BY DEF CalmSound
<1> QED
  BY <1>1, <1>2, <1>3, SoundAlways, PTL DEF Spec

-----------------------------------------------------------------------------
(* Nothing hangs: the invariant                                            *)

Comes(d, type, t) == \E l \in Legs : Has(wire[l][d], type, t)

\* What closes t on A comes when B is through with it.
EndedOnB(t) ==
  \A type \in Verdicts : Comes("A", type, t) => phase["B"][t] = "none" /\ ~Comes("B", "offer", t)

\* What closes it on B comes when A is.  An offer that A has ended before B read
\* it was on a channel that is gone.
EndedOnA(t) ==
  /\ Comes("B", "cancel", t) => phase["A"][t] = "none"
  /\ phase["A"][t] = "none" /\ Comes("B", "offer", t) => route[t] = "direct" /\ ~channel

\* Only what is pinned to the direct leg is ever on it.
Straight(t) == \A d \in Devices : \A type : Has(wire["direct"][d], type, t) => route[t] = "direct"

\* A device that has closed its leg has no transfer on it.
OnLeg(t) == phase["B"][t] # "none" /\ route[t] = "direct" => leg["B"] # "closed"

Going(t) ==
  SenderGoesOn(t) /\ ReceiverGoesOn(t) /\ EndedOnB(t) /\ EndedOnA(t) /\ Straight(t) /\ OnLeg(t)

GoingSound == \A t \in calm : Going(t)

LEMMA ComingIs ==
  ASSUME NEW d, NEW types, NEW t
  PROVE  Coming(d, types, t) <=> \E type \in types : Comes(d, type, t)
BY DEF Coming, Comes, Has

LEMMA ComingIsNext ==
  ASSUME NEW d, NEW types, NEW t
  PROVE  Coming(d, types, t)' <=> \E type \in types : Comes(d, type, t)'
BY DEF Coming, Comes, Has

-----------------------------------------------------------------------------
(* Nothing hangs: the frames of a transfer                                 *)

\* Of the frames of t, d may have taken off some of the types L, and those of
\* the types G are put on leg l to the other device, when the leg is there.
Flows(t, l, d, L, G) ==
  /\ \A c \in Devices : \A type :
       /\ Comes(c, type, t)' => Comes(c, type, t) \/ (c # d /\ type \in G)
       /\ Comes(c, type, t) => Comes(c, type, t)' \/ (c = d /\ type \in L)
       /\ Has(wire'["direct"][c], type, t) => Has(wire["direct"][c], type, t) \/ (l = "direct" /\ type \in G)
  /\ (l = "direct" => channel) => \A type \in G : Comes(Other(d), type, t)'

LEMMA HasBoth ==
  ASSUME NEW s \in Seq(AnyFrame), NEW u \in Seq(AnyFrame), NEW t, NEW type
  PROVE  Has(s \o u, type, t) <=> Has(s, type, t) \/ Has(u, type, t)
<1>1. /\ Len(s) \in Nat /\ Len(u) \in Nat /\ DOMAIN s = 1 .. Len(s) /\ DOMAIN u = 1 .. Len(u)
      /\ DOMAIN (s \o u) = 1 .. Len(s) + Len(u)
  BY ConcatProperties, LenProperties
<1>2. ASSUME Has(s, type, t) PROVE Has(s \o u, type, t)
  <2>1. PICK i \in DOMAIN s : s[i].type = type /\ s[i].id = t
    BY <1>2 DEF Has
  <2>2. i \in DOMAIN (s \o u) /\ (s \o u)[i] = s[i]
    BY <1>1, ConcatProperties
  <2> QED
    BY <2>1, <2>2 DEF Has
<1>3. ASSUME Has(u, type, t) PROVE Has(s \o u, type, t)
  <2>1. PICK i \in DOMAIN u : u[i].type = type /\ u[i].id = t
    BY <1>3 DEF Has
  <2>2. Len(s) + i \in DOMAIN (s \o u) /\ (s \o u)[Len(s) + i] = u[i]
    <3>1. Len(s) + i \in 1 .. Len(s) + Len(u) /\ ~(Len(s) + i <= Len(s)) /\ (Len(s) + i) - Len(s) = i
      BY <1>1
    <3> QED
      BY <1>1, <3>1, ConcatProperties
  <2> QED
    BY <2>1, <2>2 DEF Has
<1> QED
  BY <1>2, <1>3, HasBehind

LEMMA HasRest ==
  ASSUME NEW s \in Seq(AnyFrame), s # <<>>, NEW t, NEW type
  PROVE  /\ Has(Tail(s), type, t) => Has(s, type, t)
         /\ Has(s, type, t) => Has(Tail(s), type, t) \/ (Head(s).type = type /\ Head(s).id = t)
         /\ Has(s, Head(s).type, Head(s).id)
<1>1. /\ Len(s) \in Nat /\ Len(s) >= 1 /\ DOMAIN s = 1 .. Len(s) /\ Head(s) = s[1]
  BY LenProperties, EmptySeq
<1>2. /\ DOMAIN Tail(s) = 1 .. Len(s) - 1
      /\ \A i \in 1 .. Len(s) - 1 : Tail(s)[i] = s[i + 1]
  <2>1. Tail(s) \in Seq(AnyFrame) /\ Len(Tail(s)) = Len(s) - 1 /\ \A i \in 1 .. Len(Tail(s)) : Tail(s)[i] = s[i + 1]
    BY HeadTailProperties
  <2> QED
    BY <2>1, LenProperties
<1>3. ASSUME NEW i \in DOMAIN s, s[i].type = type, s[i].id = t, i # 1
      PROVE  Has(Tail(s), type, t)
  <2>1. i - 1 \in 1 .. Len(s) - 1 /\ (i - 1) + 1 = i
    BY <1>1, <1>3
  <2>2. Tail(s)[i - 1] = s[i] /\ i - 1 \in DOMAIN Tail(s)
    BY <1>2, <2>1
  <2> QED
    BY <1>3, <2>2 DEF Has
<1>4. Has(s, type, t) => Has(Tail(s), type, t) \/ (Head(s).type = type /\ Head(s).id = t)
  BY <1>1, <1>3 DEF Has
<1>5. Has(s, Head(s).type, Head(s).id)
  BY <1>1 DEF Has
<1> QED
  BY <1>4, <1>5, LineTail

\* What d puts on a leg.
LEMMA PutFlows ==
  ASSUME wire \in Wires, NEW l \in Legs, NEW d \in Devices, NEW s \in Seq(AnyFrame), NEW t, NEW G,
         \A type : Has(s, type, t) <=> type \in G, wire' = Put(l, Other(d), s)
  PROVE  Flows(t, l, d, {}, G)
<1> DEFINE e == Other(d)
           there == l = "direct" => channel
<1>1. /\ e \in Devices /\ e # d /\ \A c \in Devices : c = e \/ c = d
      /\ \A k \in Legs, c \in Devices : wire[k][c] \in Seq(AnyFrame)
  BY DEF Other, Devices, Wires
<1>2. \A k \in Legs, c \in Devices :
        wire'[k][c] = IF k = l /\ c = e /\ there THEN wire[k][c] \o s ELSE wire[k][c]
  BY <1>1, PutEffect
<1> HIDE DEF e, there
<1>3. \A k \in Legs, c \in Devices : \A type :
        Has(wire'[k][c], type, t) <=> Has(wire[k][c], type, t) \/ (k = l /\ c = e /\ there /\ type \in G)
  <2> SUFFICES ASSUME NEW k \in Legs, NEW c \in Devices, NEW type
               PROVE  Has(wire'[k][c], type, t)
                        <=> Has(wire[k][c], type, t) \/ (k = l /\ c = e /\ there /\ type \in G)
    OBVIOUS
  <2> DEFINE q == wire[k][c]
  <2>1. q \in Seq(AnyFrame)
    BY <1>1
  <2>2. wire'[k][c] = IF k = l /\ c = e /\ there THEN q \o s ELSE q
    BY <1>2
  <2> HIDE DEF q
  <2>3. Has(q \o s, type, t) <=> Has(q, type, t) \/ type \in G
    BY <2>1, HasBoth
  <2> QED
    BY <2>2, <2>3 DEF q
<1>4. "direct" \in Legs
  BY DEF Legs
<1> QED
  BY <1>1, <1>3, <1>4 DEF Flows, Comes, e, there

\* What d takes off a leg ...
LEMMA TookFlows ==
  ASSUME wire \in Wires, NEW l \in Legs, NEW d \in Devices, wire[l][d] # <<>>, NEW t, NEW L,
         Head(wire[l][d]).id = t => Head(wire[l][d]).type \in L, wire' = Took(d, l)
  PROVE  Flows(t, l, d, L, {})
<1>1. \A k \in Legs, c \in Devices : wire'[k][c] = IF k = l /\ c = d THEN Tail(wire[k][c]) ELSE wire[k][c]
  BY DEF Took, Wires
<1> DEFINE q == wire[l][d]
<1>2. q \in Seq(AnyFrame) /\ q # <<>> /\ (Head(q).id = t => Head(q).type \in L)
  BY DEF Wires
<1> HIDE DEF q
<1>3. /\ \A type : Has(Tail(q), type, t) => Has(q, type, t)
      /\ \A type : Has(q, type, t) => Has(Tail(q), type, t) \/ type \in L
  BY <1>2, HasRest
<1>4. \A k \in Legs, c \in Devices : \A type :
        /\ Has(wire'[k][c], type, t) => Has(wire[k][c], type, t)
        /\ Has(wire[k][c], type, t) => Has(wire'[k][c], type, t) \/ (c = d /\ type \in L)
  BY <1>1, <1>3 DEF q
<1>5. "direct" \in Legs
  BY DEF Legs
<1> QED
  BY <1>4, <1>5 DEF Flows, Comes

\* ... and answers on it.
LEMMA AnswerFlows ==
  ASSUME wire \in Wires, NEW l \in Legs, NEW d \in Devices, wire[l][d] # <<>>, NEW t, NEW L,
         Head(wire[l][d]).id = t => Head(wire[l][d]).type \in L,
         NEW s \in Seq(AnyFrame), NEW G, \A type : Has(s, type, t) <=> type \in G, wire' = Answer(d, l, s)
  PROVE  Flows(t, l, d, L, G)
<1> DEFINE e == Other(d)
           there == l = "direct" => channel
           v == Took(d, l)
<1>1. /\ e \in Devices /\ e # d /\ \A c \in Devices : c = e \/ c = d
      /\ \A k \in Legs, c \in Devices : wire[k][c] \in Seq(AnyFrame)
  BY DEF Other, Devices, Wires
<1>2. v \in Wires /\ \A k \in Legs, c \in Devices : v[k][c] = IF k = l /\ c = d THEN Tail(wire[k][c]) ELSE wire[k][c]
  <2>1. v \in Wires
    BY TookQuiet
  <2> QED
    BY <2>1 DEF Took, Wires
<1>3. wire' = IF there THEN [v EXCEPT ![l][e] = @ \o s] ELSE v
  BY DEF Answer
<1> HIDE DEF v, e, there
<1>4. \A k \in Legs, c \in Devices : wire'[k][c] = IF k = l /\ c = e /\ there THEN v[k][c] \o s ELSE v[k][c]
  BY <1>1, <1>2, <1>3 DEF Wires
<1>5. \A k \in Legs, c \in Devices :
        wire'[k][c] = IF k = l /\ c = d THEN Tail(wire[k][c])
                      ELSE IF k = l /\ c = e /\ there THEN wire[k][c] \o s ELSE wire[k][c]
  BY <1>1, <1>2, <1>4
<1> DEFINE q == wire[l][d]
           r == wire[l][e]
<1>6. q \in Seq(AnyFrame) /\ q # <<>> /\ (Head(q).id = t => Head(q).type \in L) /\ r \in Seq(AnyFrame)
  BY <1>1
<1> HIDE DEF q, r
<1>7. /\ \A type : Has(Tail(q), type, t) => Has(q, type, t)
      /\ \A type : Has(q, type, t) => Has(Tail(q), type, t) \/ type \in L
  BY <1>6, HasRest
<1>8. \A type : Has(r \o s, type, t) <=> Has(r, type, t) \/ type \in G
  BY <1>6, HasBoth
<1>9. \A k \in Legs, c \in Devices : \A type :
        /\ Has(wire'[k][c], type, t) => Has(wire[k][c], type, t) \/ (k = l /\ c = e /\ type \in G)
        /\ Has(wire[k][c], type, t) => Has(wire'[k][c], type, t) \/ (c = d /\ type \in L)
  <2> SUFFICES ASSUME NEW k \in Legs, NEW c \in Devices, NEW type
               PROVE  /\ Has(wire'[k][c], type, t) => Has(wire[k][c], type, t) \/ (k = l /\ c = e /\ type \in G)
                      /\ Has(wire[k][c], type, t) => Has(wire'[k][c], type, t) \/ (c = d /\ type \in L)
    OBVIOUS
  <2>1. CASE k = l /\ c = d
    <3>1. wire[k][c] = q /\ wire'[k][c] = Tail(q)
      BY <1>5, <2>1 DEF q
    <3> QED
      BY <1>7, <2>1, <3>1
  <2>2. CASE k = l /\ c = e /\ there
    <3>1. wire[k][c] = r /\ wire'[k][c] = r \o s
      BY <1>1, <1>5, <2>2 DEF r
    <3> QED
      BY <1>8, <2>2, <3>1
  <2>3. CASE ~(k = l /\ c = d) /\ ~(k = l /\ c = e /\ there)
    <3>1. wire'[k][c] = wire[k][c]
      BY <1>5, <2>3
    <3> QED
      BY <3>1
  <2> QED
    BY <2>1, <2>2, <2>3
<1>10. there => \A type \in G : Has(wire'[l][e], type, t)
  <2>1. there => wire'[l][e] = r \o s
    BY <1>1, <1>5 DEF r
  <2> QED
    BY <1>8, <2>1
<1>11. "direct" \in Legs
  BY DEF Legs
<1> QED
  BY <1>1, <1>9, <1>10, <1>11 DEF Flows, Comes, e, there

LEMMA ComingView ==
  ASSUME NEW t
  PROVE  /\ Coming("A", Verdicts, t) <=> \E type \in Verdicts : Comes("A", type, t)
         /\ Coming("A", {"accept"}, t) <=> Comes("A", "accept", t)
         /\ Coming("B", {"offer"}, t) <=> Comes("B", "offer", t)
         /\ Coming("B", {"complete"}, t) <=> Comes("B", "complete", t)
         /\ Coming("B", {"cancel"}, t) <=> Comes("B", "cancel", t)
         /\ Coming("A", Verdicts, t)' <=> \E type \in Verdicts : Comes("A", type, t)'
         /\ Coming("A", {"accept"}, t)' <=> Comes("A", "accept", t)'
         /\ Coming("B", {"offer"}, t)' <=> Comes("B", "offer", t)'
         /\ Coming("B", {"complete"}, t)' <=> Comes("B", "complete", t)'
         /\ Coming("B", {"cancel"}, t)' <=> Comes("B", "cancel", t)'
<1>1. \A d, types : Coming(d, types, t) <=> \E type \in types : Comes(d, type, t)
  BY ComingIs
<1>2. \A d, types : Coming(d, types, t)' <=> \E type \in types : Comes(d, type, t)'
  BY ComingIsNext
<1> QED
  BY <1>1, <1>2

-----------------------------------------------------------------------------
(* Nothing hangs: what can happen to a transfer                            *)

\* Nothing, when the frames that are taken off mean nothing to it.
LEMMA GoesOnAsItIs ==
  ASSUME NEW t \in Ids, Going(t), NEW l \in Legs, NEW d \in Devices, NEW L, Flows(t, l, d, L, {}),
         \A type \in L : \/ type = "chunk"
                         \/ d = "A" /\ type = "accept" /\ phase["A"][t] # "waiting"
                         \/ d = "B" /\ type = "complete" /\ phase["B"][t] # "receiving",
         \A c \in Devices : /\ phase'[c][t] = phase[c][t]
                            /\ phase[c][t] # "none" /\ route[t] = "direct" /\ leg[c] # "closed" => leg'[c] # "closed",
         route'[t] = route[t], sent'[t] = sent[t], route[t] = "direct" => channel' = channel
  PROVE  Going(t)'
<1>1. SenderGoesOn(t) /\ ReceiverGoesOn(t) /\ EndedOnB(t) /\ EndedOnA(t) /\ Straight(t) /\ OnLeg(t)
  BY DEF Going
<1>2. /\ \A c \in Devices : \A type : Comes(c, type, t)' => Comes(c, type, t)
      /\ \A c \in Devices : \A type : Comes(c, type, t) => Comes(c, type, t)' \/ (c = d /\ type \in L)
      /\ "A" \in Devices /\ "B" \in Devices
  BY DEF Flows, Devices
<1>3. /\ \A type \in Verdicts : Comes("A", type, t) => Comes("A", type, t)'
      /\ Comes("B", "offer", t) => Comes("B", "offer", t)'
      /\ Comes("B", "cancel", t) => Comes("B", "cancel", t)'
      /\ phase["A"][t] = "waiting" /\ Comes("A", "accept", t) => Comes("A", "accept", t)'
      /\ phase["B"][t] = "receiving" /\ Comes("B", "complete", t) => Comes("B", "complete", t)'
  BY <1>2 DEF Verdicts
<1>4. /\ phase'["A"][t] = phase["A"][t] /\ phase'["B"][t] = phase["B"][t]
      /\ phase["A"][t] # "none" /\ CutOff("A", t) => CutOff("A", t)'
      /\ phase["B"][t] # "none" /\ CutOff("B", t) => CutOff("B", t)'
  BY <1>2 DEF CutOff
<1>5. SenderGoesOn(t)'
  BY <1>1, <1>3, <1>4, ComingView DEF SenderGoesOn
<1>6. ReceiverGoesOn(t)'
  BY <1>1, <1>3, <1>4, ComingView DEF ReceiverGoesOn
<1>7. EndedOnB(t)' /\ EndedOnA(t)'
  BY <1>1, <1>2, <1>4 DEF EndedOnB, EndedOnA
<1>8. Straight(t)'
  BY <1>1 DEF Straight, Flows
<1>9. OnLeg(t)'
  BY <1>1, <1>2, <1>4 DEF OnLeg
<1> QED
  BY <1>5, <1>6, <1>7, <1>8, <1>9 DEF Going

\* What was pinned stays where it is pinned.
LEMMA StaysStraight ==
  ASSUME NEW t, Straight(t), NEW l \in Legs, NEW d \in Devices, NEW L, NEW G, Flows(t, l, d, L, G),
         l = "direct" => route[t] = "direct", route'[t] = route[t]
  PROVE  Straight(t)'
BY DEF Straight, Flows

\* A reads that B is through with it.
LEMMA SenderIsTold ==
  ASSUME NEW t \in Ids, Going(t), NEW l \in Legs, NEW type \in Verdicts, Flows(t, l, "A", {type}, {}),
         Comes("A", type, t), phase'["A"][t] = "none", phase'["B"][t] = phase["B"][t],
         route'[t] = route[t], UNCHANGED <<channel, leg>>
  PROVE  Going(t)'
<1>1. SenderGoesOn(t) /\ ReceiverGoesOn(t) /\ EndedOnB(t) /\ EndedOnA(t) /\ Straight(t) /\ OnLeg(t)
  BY DEF Going
<1>2. phase["B"][t] = "none" /\ ~Comes("B", "offer", t)
  BY <1>1 DEF EndedOnB
<1>3. \A c \in Devices : \A x : Comes(c, x, t)' => Comes(c, x, t)
  BY DEF Flows
<1>4. SenderGoesOn(t)' /\ ReceiverGoesOn(t)' /\ OnLeg(t)'
  BY <1>2 DEF SenderGoesOn, ReceiverGoesOn, OnLeg
<1>5. EndedOnB(t)' /\ EndedOnA(t)'
  BY <1>1, <1>2, <1>3 DEF EndedOnB, EndedOnA, Devices
<1>6. Straight(t)'
  BY <1>1 DEF Straight, Flows
<1> QED
  BY <1>4, <1>5, <1>6 DEF Going

\* A ends it and tells B.
LEMMA SenderEnds ==
  ASSUME NEW t \in Ids, Going(t), NEW l \in Legs, Flows(t, l, "A", {}, {"cancel"}),
         l = "direct" => route[t] = "direct",
         phase'["A"][t] = "none", phase'["B"][t] = phase["B"][t], route'[t] = route[t],
         UNCHANGED channel, leg'["B"] = leg["B"],
         Comes("B", "offer", t) => route[t] = "direct" /\ ~channel
  PROVE  Going(t)'
<1>1. SenderGoesOn(t) /\ ReceiverGoesOn(t) /\ EndedOnB(t) /\ EndedOnA(t) /\ Straight(t) /\ OnLeg(t)
  BY DEF Going
<1>2. /\ \A c \in Devices : \A x : Comes(c, x, t)' => Comes(c, x, t) \/ (c # "A" /\ x = "cancel")
      /\ (l = "direct" => channel) => Comes("B", "cancel", t)'
  BY DEF Flows, Other
<1>3. OnLeg(t)'
  BY <1>1 DEF OnLeg
<1>4. ReceiverGoesOn(t)'
  BY <1>1, <1>2, <1>3, ComingView DEF ReceiverGoesOn, CutOff, OnLeg
<1>5. SenderGoesOn(t)'
  BY DEF SenderGoesOn
<1>6. EndedOnB(t)' /\ EndedOnA(t)'
  BY <1>1, <1>2 DEF EndedOnB, EndedOnA, Devices
<1>7. Straight(t)'
  BY <1>1, StaysStraight DEF Devices
<1> QED
  BY <1>3, <1>4, <1>5, <1>6, <1>7 DEF Going

\* B ends it, or refuses it, and tells A.
LEMMA ReceiverEnds ==
  ASSUME NEW t \in Ids, Going(t), Pinned(t), NEW l \in Legs, NEW L, NEW type \in Verdicts,
         Flows(t, l, "B", L, {type}), "cancel" \notin L, l = "direct" => route[t] = "direct",
         phase'["A"][t] = phase["A"][t], phase'["B"][t] = "none", ~Comes("B", "offer", t)',
         route'[t] = route[t], UNCHANGED channel, leg'["A"] = leg["A"]
  PROVE  Going(t)'
<1>1. SenderGoesOn(t) /\ ReceiverGoesOn(t) /\ EndedOnB(t) /\ EndedOnA(t) /\ Straight(t) /\ OnLeg(t)
  BY DEF Going
<1>2. /\ \A c \in Devices : \A x : Comes(c, x, t)' => Comes(c, x, t) \/ (c # "B" /\ x = type)
      /\ (l = "direct" => channel) => Comes("A", type, t)'
  BY DEF Flows, Other
<1>3. SenderGoesOn(t)'
  <2>1. CASE l = "direct" => channel
    BY <1>2, <2>1, ComingView DEF SenderGoesOn
  <2>2. CASE ~(l = "direct" => channel)
    <3>1. phase["A"][t] # "none" => leg["A"] = "verified"
      BY <2>2 DEF Pinned
    <3>2. phase'["A"][t] # "none" => CutOff("A", t)'
      BY <2>2, <3>1 DEF CutOff
    <3> QED
      BY <3>2 DEF SenderGoesOn
  <2> QED
    BY <2>1, <2>2
<1>4. ReceiverGoesOn(t)' /\ OnLeg(t)'
  BY DEF ReceiverGoesOn, OnLeg
<1>5. EndedOnB(t)' /\ EndedOnA(t)'
  BY <1>1, <1>2 DEF EndedOnB, EndedOnA, Devices
<1>6. Straight(t)'
  BY <1>1, StaysStraight DEF Devices
<1> QED
  BY <1>3, <1>4, <1>5, <1>6 DEF Going

\* B reads that A is through with it.
LEMMA ReceiverIsTold ==
  ASSUME NEW t \in Ids, Going(t), NEW l \in Legs, Flows(t, l, "B", {"cancel"}, {}), Comes("B", "cancel", t),
         phase'["A"][t] = phase["A"][t], phase'["B"][t] = "none", route'[t] = route[t], UNCHANGED <<channel, leg>>
  PROVE  Going(t)'
<1>1. SenderGoesOn(t) /\ ReceiverGoesOn(t) /\ EndedOnB(t) /\ EndedOnA(t) /\ Straight(t) /\ OnLeg(t)
  BY DEF Going
<1>2. phase["A"][t] = "none"
  BY <1>1 DEF EndedOnA
<1>3. \A c \in Devices : \A x : Comes(c, x, t)' => Comes(c, x, t)
  BY DEF Flows
<1>4. SenderGoesOn(t)' /\ ReceiverGoesOn(t)' /\ OnLeg(t)'
  BY <1>2 DEF SenderGoesOn, ReceiverGoesOn, OnLeg
<1>5. EndedOnB(t)' /\ EndedOnA(t)'
  BY <1>1, <1>2, <1>3 DEF EndedOnB, EndedOnA, Devices
<1>6. Straight(t)'
  BY <1>1 DEF Straight, Flows
<1> QED
  BY <1>4, <1>5, <1>6 DEF Going

\* B takes the offer up: it asks its user, or accepts at once.
LEMMA ReceiverBegins ==
  ASSUME NEW t \in Ids, Going(t), Pinned(t), NEW l \in Legs, l = route[t],
         NEW p, NEW G, (p = "deciding" /\ G = {}) \/ (p = "receiving" /\ G = {"accept"}),
         Flows(t, l, "B", {"offer"}, G), Comes("B", "offer", t), ~Comes("B", "offer", t)',
         phase["A"][t] \in {"none", "waiting"}, phase'["A"][t] = phase["A"][t],
         phase["B"][t] = "none", phase'["B"][t] = p,
         l = "direct" => leg["B"] # "closed", route'[t] = route[t], UNCHANGED <<channel, leg>>
  PROVE  Going(t)'
<1>1. SenderGoesOn(t) /\ ReceiverGoesOn(t) /\ EndedOnB(t) /\ EndedOnA(t) /\ Straight(t) /\ OnLeg(t)
  BY DEF Going
<1>2. /\ \A c \in Devices : \A x : Comes(c, x, t)' => Comes(c, x, t) \/ (c # "B" /\ x \in G)
      /\ (l = "direct" => channel) => \A x \in G : Comes("A", x, t)'
  BY DEF Flows, Other
<1>3. OnLeg(t)'
  BY DEF OnLeg
<1>4. ReceiverGoesOn(t)'
  BY <1>1 DEF ReceiverGoesOn, EndedOnA, CutOff
<1>5. SenderGoesOn(t)'
  <2>1. CASE p = "deciding"
    BY <2>1 DEF SenderGoesOn
  <2>2. CASE p = "receiving" /\ (l = "direct" => channel)
    BY <1>2, <2>2, ComingView DEF SenderGoesOn
  <2>3. CASE ~(l = "direct" => channel)
    BY <2>3 DEF SenderGoesOn, CutOff, Pinned
  <2> QED
    BY <2>1, <2>2, <2>3
<1>6. EndedOnB(t)' /\ EndedOnA(t)'
  <2>1. \A x \in Verdicts : ~Comes("A", x, t)
    BY <1>1 DEF EndedOnB
  <2> QED
    BY <1>1, <1>2, <2>1 DEF EndedOnB, EndedOnA, Devices, Verdicts
<1>7. Straight(t)'
  BY <1>1, StaysStraight DEF Devices
<1> QED
  BY <1>3, <1>4, <1>5, <1>6, <1>7 DEF Going

\* B's user accepts.
LEMMA ReceiverAccepts ==
  ASSUME NEW t \in Ids, Going(t), Pinned(t), NEW l \in Legs, l = "direct" => route[t] = "direct",
         Flows(t, l, "B", {}, {"accept"}), phase["A"][t] \in {"none", "waiting"}, phase'["A"][t] = phase["A"][t],
         phase["B"][t] = "deciding", phase'["B"][t] = "receiving", route'[t] = route[t], UNCHANGED <<channel, leg>>
  PROVE  Going(t)'
<1>1. SenderGoesOn(t) /\ ReceiverGoesOn(t) /\ EndedOnB(t) /\ EndedOnA(t) /\ Straight(t) /\ OnLeg(t)
  BY DEF Going
<1>2. /\ \A c \in Devices : \A x : Comes(c, x, t)' => Comes(c, x, t) \/ (c # "B" /\ x = "accept")
      /\ \A c \in Devices : \A x : Comes(c, x, t) => Comes(c, x, t)'
      /\ (l = "direct" => channel) => Comes("A", "accept", t)'
  BY DEF Flows, Other
<1>3. OnLeg(t)'
  BY <1>1 DEF OnLeg
<1>4. ReceiverGoesOn(t)'
  BY <1>1, <1>2, ComingView DEF ReceiverGoesOn, CutOff, Devices
<1>5. SenderGoesOn(t)'
  <2>1. CASE l = "direct" => channel
    BY <1>2, <2>1, ComingView DEF SenderGoesOn
  <2>2. CASE ~(l = "direct" => channel)
    BY <2>2 DEF SenderGoesOn, CutOff, Pinned
  <2> QED
    BY <2>1, <2>2
<1>6. EndedOnB(t)' /\ EndedOnA(t)'
  <2>1. \A x \in Verdicts : ~Comes("A", x, t)
    BY <1>1 DEF EndedOnB
  <2> QED
    BY <1>1, <1>2, <2>1 DEF EndedOnB, EndedOnA, Devices, Verdicts
<1>7. Straight(t)'
  BY <1>1, StaysStraight DEF Devices
<1> QED
  BY <1>3, <1>4, <1>5, <1>6, <1>7 DEF Going

\* A reads that B accepts: it has the chunks to send, or has sent the end.
LEMMA SenderBegins ==
  ASSUME NEW t \in Ids, Going(t), Pinned(t), NEW l \in Legs, Comes("A", "accept", t), l = "direct" => route[t] = "direct",
         NEW G, Chunks[Msg(t)] \in Nat, G = (IF Chunks[Msg(t)] = 0 THEN {"complete"} ELSE {}),
         Flows(t, l, "A", {"accept"}, G), sent'[t] = 0,
         Comes("B", "offer", t) => FALSE, phase["B"][t] # "deciding",
         phase["A"][t] = "waiting", phase'["A"][t] = "sending", phase'["B"][t] = phase["B"][t],
         route'[t] = route[t], UNCHANGED <<channel, leg>>
  PROVE  Going(t)'
<1>1. SenderGoesOn(t) /\ ReceiverGoesOn(t) /\ EndedOnB(t) /\ EndedOnA(t) /\ Straight(t) /\ OnLeg(t)
  BY DEF Going
<1>2. /\ \A c \in Devices : \A x : Comes(c, x, t)' => Comes(c, x, t) \/ (c # "A" /\ x = "complete")
      /\ \A c \in Devices : \A x : Comes(c, x, t) => Comes(c, x, t)' \/ (c = "A" /\ x = "accept")
      /\ (l = "direct" => channel) => \A x \in G : Comes("B", x, t)'
  BY DEF Flows, Other
<1>3. OnLeg(t)' /\ ReceiverGoesOn(t)'
  BY <1>1 DEF OnLeg, ReceiverGoesOn
<1>4. SenderGoesOn(t)'
  <2>1. CASE CutOff("A", t)
    BY <2>1 DEF SenderGoesOn, CutOff
  <2>2. CASE Coming("A", Verdicts, t)
    <3>1. Coming("A", Verdicts, t)'
      BY <1>2, <2>2, ComingView DEF Verdicts, Devices
    <3> QED
      BY <3>1 DEF SenderGoesOn
  <2>3. CASE phase["B"][t] = "receiving" /\ Chunks[Msg(t)] # 0
    BY <2>3 DEF SenderGoesOn
  <2>4. CASE phase["B"][t] = "receiving" /\ Chunks[Msg(t)] = 0 /\ (l = "direct" => channel)
    <3>1. Coming("B", {"complete"}, t)'
      BY <1>2, <2>4, ComingView
    <3> QED
      BY <2>4, <3>1 DEF SenderGoesOn
  <2>5. CASE ~(l = "direct" => channel)
    BY <2>5 DEF SenderGoesOn, CutOff, Pinned
  <2>6. CutOff("A", t) \/ Coming("A", Verdicts, t) \/ phase["B"][t] = "receiving"
    BY <1>1, ComingView DEF SenderGoesOn
  <2> QED
    BY <2>1, <2>2, <2>3, <2>4, <2>5, <2>6
<1>5. EndedOnB(t)' /\ EndedOnA(t)'
  BY <1>1, <1>2 DEF EndedOnB, EndedOnA, Devices, Verdicts
<1>6. Straight(t)'
  BY <1>1, StaysStraight DEF Devices
<1> QED
  BY <1>3, <1>4, <1>5, <1>6 DEF Going

\* A sends the next chunk, and the end behind the last one.
LEMMA SenderSends ==
  ASSUME NEW t \in Ids, Going(t), Pinned(t), NEW l \in Legs, l = route[t],
         NEW G \in SUBSET {"chunk", "complete"}, Flows(t, l, "A", {}, G),
         sent'[t] < Chunks[Msg(t)] \/ "complete" \in G,
         phase["A"][t] = "sending", phase'["A"][t] = "sending", phase'["B"][t] = phase["B"][t],
         route'[t] = route[t], UNCHANGED <<channel, leg>>
  PROVE  Going(t)'
<1>1. SenderGoesOn(t) /\ ReceiverGoesOn(t) /\ EndedOnB(t) /\ EndedOnA(t) /\ Straight(t) /\ OnLeg(t)
  BY DEF Going
<1>2. /\ \A c \in Devices : \A x : Comes(c, x, t)' => Comes(c, x, t) \/ (c # "A" /\ x \in {"chunk", "complete"})
      /\ \A c \in Devices : \A x : Comes(c, x, t) => Comes(c, x, t)'
      /\ (l = "direct" => channel) => \A x \in G : Comes("B", x, t)'
  BY DEF Flows, Other
<1>3. OnLeg(t)' /\ ReceiverGoesOn(t)'
  BY <1>1 DEF OnLeg, ReceiverGoesOn
<1>4. SenderGoesOn(t)'
  <2>1. CASE CutOff("A", t) \/ phase["B"][t] = "deciding"
    BY <2>1 DEF SenderGoesOn, CutOff
  <2>2. CASE Coming("A", Verdicts, t)
    <3>1. Coming("A", Verdicts, t)'
      BY <1>2, <2>2, ComingView DEF Devices
    <3> QED
      BY <3>1 DEF SenderGoesOn
  <2>3. CASE phase["B"][t] = "receiving" /\ (l = "direct" => channel)
    BY <1>2, <2>3, ComingView DEF SenderGoesOn
  <2>4. CASE ~(l = "direct" => channel)
    BY <2>4 DEF SenderGoesOn, CutOff, Pinned
  <2> QED
    BY <1>1, <2>1, <2>2, <2>3, <2>4 DEF SenderGoesOn
<1>5. EndedOnB(t)' /\ EndedOnA(t)'
  BY <1>1, <1>2 DEF EndedOnB, EndedOnA, Devices, Verdicts
<1>6. Straight(t)'
  BY <1>1, StaysStraight DEF Devices
<1> QED
  BY <1>3, <1>4, <1>5, <1>6 DEF Going

\* A offers it.
LEMMA SenderOffers ==
  ASSUME NEW t \in Ids, \A c \in Devices, k \in Legs : \A type : ~Has(wire[k][c], type, t),
         NEW l \in Legs, l = "direct" => leg["A"] = "verified", Flows(t, l, "A", {}, {"offer"}),
         phase'["A"][t] = "waiting", phase'["B"][t] = "none", route'[t] = l, UNCHANGED <<channel, leg>>
  PROVE  Going(t)'
<1>1. \A c \in Devices : \A type : ~Comes(c, type, t)
  BY DEF Comes
<1>2. /\ \A c \in Devices : \A x : Comes(c, x, t)' => c # "A" /\ x = "offer"
      /\ (l = "direct" => channel) => Comes("B", "offer", t)'
      /\ \A c \in Devices : \A x : Has(wire'["direct"][c], x, t) => l = "direct"
  BY <1>1 DEF Flows, Other, Legs
<1>3. SenderGoesOn(t)'
  <2>1. CASE l = "direct" => channel
    BY <1>2, <2>1, ComingView DEF SenderGoesOn
  <2>2. CASE ~(l = "direct" => channel)
    BY <2>2 DEF SenderGoesOn, CutOff
  <2> QED
    BY <2>1, <2>2
<1>4. ReceiverGoesOn(t)' /\ OnLeg(t)'
  BY DEF ReceiverGoesOn, OnLeg
<1>5. EndedOnB(t)' /\ EndedOnA(t)'
  BY <1>2 DEF EndedOnB, EndedOnA, Devices, Verdicts
<1>6. Straight(t)'
  BY <1>2 DEF Straight
<1> QED
  BY <1>3, <1>4, <1>5, <1>6 DEF Going

-----------------------------------------------------------------------------
(* Nothing hangs: the links and the sessions                               *)

LEMMA HasExactly ==
  ASSUME NEW f, NEW t, NEW type
  PROVE  /\ Has(<<f>>, type, t) <=> f.type = type /\ f.id = t
         /\ ~Has(<<>>, type, t)
BY DEF Has

\* One frame of u, put on a leg, or given in answer.
LEMMA PutOne ==
  ASSUME wire \in Wires, NEW l \in Legs, NEW d \in Devices, NEW u \in Ids, NEW type \in Types,
         wire' = Put(l, Other(d), <<Frame(type, u, 0)>>)
  PROVE  \A t : Flows(t, l, d, {}, IF t = u THEN {type} ELSE {})
<1> SUFFICES ASSUME NEW t PROVE Flows(t, l, d, {}, IF t = u THEN {type} ELSE {})
  OBVIOUS
<1> DEFINE f == Frame(type, u, 0)
           s == <<f>>
<1>1. f \in AnyFrame /\ f.type = type /\ f.id = u
  BY DEF Frame, AnyFrame
<1> HIDE DEF f
<1>2. s \in Seq(AnyFrame) /\ \A x : Has(s, x, t) <=> x \in IF t = u THEN {type} ELSE {}
  BY <1>1, HasExactly
<1>3. wire' = Put(l, Other(d), s)
  BY DEF f
<1> HIDE DEF s
<1> QED
  BY <1>2, <1>3, PutFlows

LEMMA AnswerOne ==
  ASSUME wire \in Wires, NEW l \in Legs, NEW d \in Devices, wire[l][d] # <<>>, NEW u \in Ids, NEW first,
         Head(wire[l][d]).id = u, Head(wire[l][d]).type = first
  PROVE  /\ wire' = Took(d, l) \/ wire' = Answer(d, l, <<>>) =>
              \A t : Flows(t, l, d, IF t = u THEN {first} ELSE {}, {})
         /\ \A type \in Types : wire' = Answer(d, l, <<Frame(type, u, 0)>>) =>
              \A t : Flows(t, l, d, IF t = u THEN {first} ELSE {}, IF t = u THEN {type} ELSE {})
<1> DEFINE L(t) == IF t = u THEN {first} ELSE {}
<1>1. \A t : Head(wire[l][d]).id = t => Head(wire[l][d]).type \in L(t)
  OBVIOUS
<1> HIDE DEF L
<1>2. ASSUME wire' = Took(d, l), NEW t PROVE Flows(t, l, d, L(t), {})
  BY <1>1, <1>2, TookFlows
<1>3. ASSUME wire' = Answer(d, l, <<>>), NEW t PROVE Flows(t, l, d, L(t), {})
  <2>1. <<>> \in Seq(AnyFrame) /\ \A x : Has(<<>>, x, t) <=> x \in {}
    BY HasExactly, EmptySeq
  <2> QED
    BY <1>1, <1>3, <2>1, AnswerFlows
<1>4. ASSUME NEW type \in Types, wire' = Answer(d, l, <<Frame(type, u, 0)>>), NEW t
      PROVE  Flows(t, l, d, L(t), IF t = u THEN {type} ELSE {})
  <2> DEFINE f == Frame(type, u, 0)
             s == <<f>>
  <2>1. f \in AnyFrame /\ f.type = type /\ f.id = u
    BY DEF Frame, AnyFrame
  <2> HIDE DEF f
  <2>2. s \in Seq(AnyFrame) /\ \A x : Has(s, x, t) <=> x \in IF t = u THEN {type} ELSE {}
    BY <2>1, HasExactly
  <2>3. wire' = Answer(d, l, s)
    BY <1>4 DEF f
  <2> HIDE DEF s
  <2> QED
    BY <1>1, <2>2, <2>3, AnswerFlows
<1> QED
  BY <1>2, <1>3, <1>4 DEF L

LEMMA StillFlows ==
  ASSUME UNCHANGED wire, NEW t, NEW l \in Legs, NEW d \in Devices
  PROVE  Flows(t, l, d, {}, {})
BY DEF Flows, Comes

\* A transfer that a step does not concern.
LEMMA GoesOnAlone ==
  ASSUME NEW t \in Ids, Going(t), NEW l \in Legs, NEW d \in Devices, Flows(t, l, d, {}, {}),
         \A c \in Devices : phase'[c][t] = phase[c][t],
         route'[t] = route[t], sent'[t] = sent[t], UNCHANGED <<channel, leg>>
  PROVE  Going(t)'
BY GoesOnAsItIs

\* A step of one transfer leaves the others as they are.
LEMMA GoingBut ==
  ASSUME Sound, GoingSound, NEW u \in Ids, NEW l \in Legs, NEW d \in Devices, calm' \subseteq calm \cup {u},
         UNCHANGED <<channel, leg>>,
         \A t \in Ids : t # u =>
           /\ Flows(t, l, d, {}, {}) /\ \A c \in Devices : phase'[c][t] = phase[c][t]
           /\ route'[t] = route[t] /\ sent'[t] = sent[t],
         u \in calm' => Going(u)'
  PROVE  GoingSound'
<1> SUFFICES ASSUME NEW t \in calm' PROVE Going(t)'
  BY DEF GoingSound
<1>1. CASE t = u
  BY <1>1
<1>2. CASE t # u
  <2>1. t \in Ids /\ Going(t)
    BY <1>2 DEF GoingSound, Sound, HistoryTypes
  <2> QED
    BY <1>2, <2>1, GoesOnAlone
<1> QED
  BY <1>1, <1>2

\* Requests, and reports of a full table.
LEMMA AskKeepsGoing ==
  ASSUME Sound, GoingSound
  PROVE  /\ \A m \in Msgs : Send(m) \/ Retry(m) => GoingSound'
         /\ StartFull => GoingSound'
         /\ UNCHANGED vars => GoingSound'
<1>1. ASSUME UNCHANGED <<links, wire, phase, route, sent, calm>> PROVE GoingSound'
  <2> SUFFICES ASSUME NEW t \in calm PROVE Going(t)'
    BY <1>1 DEF GoingSound
  <2>1. t \in Ids /\ Going(t) /\ "relay" \in Legs /\ "A" \in Devices
    BY DEF GoingSound, Sound, HistoryTypes, Legs, Devices
  <2>2. Flows(t, "relay", "A", {}, {})
    BY <1>1, <2>1, StillFlows
  <2>3. UNCHANGED <<channel, leg>>
    BY <1>1 DEF links
  <2> QED
    BY <1>1, <2>1, <2>2, <2>3, GoesOnAlone
<1>2. ASSUME NEW m \in Msgs, Send(m) \/ Retry(m) PROVE GoingSound'
  BY <1>1, <1>2 DEF Send, Retry, Ask, history
<1>3. ASSUME StartFull \/ UNCHANGED vars PROVE GoingSound'
  BY <1>1, <1>3 DEF StartFull, tables, history, vars
<1> QED
  BY <1>2, <1>3

\* Nothing is calm while one of them is not connected.
LEMMA SessionStepsKeepGoing ==
  ASSUME Sound, CalmSound, NEW d \in Devices
  PROVE  /\ StartSession(d) \/ Connect(d) \/ GiveUp(d) \/ Drop(d) => GoingSound'
         /\ Squeezed \/ StartQueued => GoingSound'
         /\ LoseConnection(d) \/ Disconnect(d) => GoingSound'
<1>1. ASSUME StartSession(d) \/ Connect(d) \/ GiveUp(d) \/ Drop(d) PROVE calm' = {}
  <2>1. conn[d] # "live" /\ UNCHANGED calm
    BY <1>1 DEF StartSession, Connect, GiveUp, Drop, history
  <2> QED
    BY <2>1, NotLiveNoneCalm
<1>2. ASSUME Squeezed \/ StartQueued PROVE calm' = {}
  <2>1. conn["A"] # "live" /\ UNCHANGED calm
    BY <1>2 DEF Squeezed, StartQueued, history
  <2> QED
    BY <2>1, NotLiveNoneCalm DEF Devices
<1>3. ASSUME LoseConnection(d) \/ Disconnect(d) PROVE calm' = {}
  BY <1>3 DEF LoseConnection, Disconnect, Hangup
<1> QED
  BY <1>1, <1>2, <1>3 DEF GoingSound

LEMMA GoingFacts ==
  ASSUME Sound, CalmSound, GoingSound
  PROVE  /\ wire \in Wires /\ TableTypes
         /\ \A t \in calm : /\ t \in Ids /\ Calm(t) /\ Going(t) /\ route[t] \in Legs
                            /\ Pinned(t) /\ Offered(t) /\ Deciding(t)
<1>1. wire \in Wires /\ TableTypes /\ \A t \in calm : t \in Ids /\ Calm(t)
  BY CalmFacts
<1> QED
  BY <1>1 DEF GoingSound, Calm, TableTypes

\* The channel opens: until then nobody had a transfer on it.
LEMMA OpenChannelKeepsGoing ==
  ASSUME Sound, CalmSound, GoingSound, OpenChannel
  PROVE  GoingSound'
<1>1. /\ UNCHANGED <<leg, wire, phase, route, sent, calm>>
      /\ leg["A"] = "closed" /\ leg["B"] = "closed" /\ wire["direct"]["B"] = <<>>
  BY DEF OpenChannel, tables, history, Devices
<1> SUFFICES ASSUME NEW t \in calm PROVE Going(t)'
  BY <1>1 DEF GoingSound
<1>2. t \in Ids /\ Going(t) /\ Pinned(t) /\ route[t] \in Legs
  BY GoingFacts
<1>3. \A d \in Devices : \A type : Comes(d, type, t)' <=> Comes(d, type, t)
  BY <1>1 DEF Comes
<1>4. route[t] = "direct" => phase["A"][t] = "none" /\ phase["B"][t] = "none"
  BY <1>1, <1>2 DEF Going, Pinned, OnLeg
<1>5. route[t] = "direct" => ~Comes("B", "offer", t)
  BY <1>1, <1>2 DEF Pinned, Comes, Has
<1>6. route[t] = "direct" => Going(t)'
  <2> SUFFICES ASSUME route[t] = "direct" PROVE Going(t)'
    OBVIOUS
  <2>1. SenderGoesOn(t)' /\ ReceiverGoesOn(t)' /\ OnLeg(t)'
    BY <1>1, <1>4 DEF SenderGoesOn, ReceiverGoesOn, OnLeg
  <2>2. EndedOnB(t)' /\ EndedOnA(t)' /\ Straight(t)'
    BY <1>1, <1>3, <1>4, <1>5 DEF EndedOnB, EndedOnA, Straight, Devices
  <2> QED
    BY <2>1, <2>2 DEF Going
<1>7. route[t] # "direct" => Going(t)'
  <2>1. Flows(t, "relay", "A", {}, {}) /\ "relay" \in Legs /\ "A" \in Devices
    BY <1>1, StillFlows DEF Legs, Devices
  <2> QED
    BY <1>1, <1>2, <2>1, GoesOnAsItIs
<1> QED
  BY <1>6, <1>7

\* The channel breaks: what was pinned to it is cut off, the rest was not on it.
LEMMA BreakKeepsGoing ==
  ASSUME Sound, CalmSound, GoingSound, Break
  PROVE  GoingSound'
<1>0. wire \in Wires
  BY GoingFacts
<1>1. channel' = FALSE /\ UNCHANGED <<leg, phase, route, sent, calm>>
  BY DEF Break, tables, history
<1>2. PICK toA \in Prefixes(wire["direct"]["A"]), toB \in Prefixes(wire["direct"]["B"]) :
        wire' = [wire EXCEPT !["direct"]["A"] = toA, !["direct"]["B"] = toB]
  BY DEF Break
<1>3. /\ wire["direct"]["A"] \in Seq(AnyFrame) /\ wire["direct"]["B"] \in Seq(AnyFrame)
      /\ wire'["direct"]["A"] = toA /\ wire'["direct"]["B"] = toB
      /\ \A d \in Devices : wire'["relay"][d] = wire["relay"][d]
  BY <1>0, <1>2 DEF Wires, Legs, Devices
<1> SUFFICES ASSUME NEW t \in calm PROVE Going(t)'
  BY <1>1 DEF GoingSound
<1>4. t \in Ids /\ Going(t) /\ Pinned(t) /\ route[t] \in Legs
  BY GoingFacts
<1>5. \A d \in Devices : \A type : Has(wire'["direct"][d], type, t) => Has(wire["direct"][d], type, t)
  BY <1>3, LineCut DEF Devices
<1>6. \A d \in Devices : \A type :
        Comes(d, type, t) <=> Has(wire["relay"][d], type, t) \/ Has(wire["direct"][d], type, t)
  BY DEF Comes, Legs
<1>7. \A d \in Devices : \A type :
        Comes(d, type, t)' <=> Has(wire'["relay"][d], type, t) \/ Has(wire'["direct"][d], type, t)
  BY DEF Comes, Legs
<1>8. CASE route[t] = "direct"
  <2>1. \A d \in Devices : \A type : Comes(d, type, t)' => Comes(d, type, t)
    BY <1>3, <1>5, <1>6, <1>7
  <2>2. SenderGoesOn(t)' /\ ReceiverGoesOn(t)' /\ OnLeg(t)'
    BY <1>1, <1>4, <1>8 DEF SenderGoesOn, ReceiverGoesOn, OnLeg, CutOff, Going, Pinned
  <2>3. EndedOnB(t)' /\ EndedOnA(t)' /\ Straight(t)'
    BY <1>1, <1>4, <1>8, <2>1 DEF EndedOnB, EndedOnA, Straight, Going, Devices
  <2> QED
    BY <2>2, <2>3 DEF Going
<1>9. CASE route[t] # "direct"
  <2>1. \A d \in Devices : \A type : ~Has(wire["direct"][d], type, t)
    BY <1>4, <1>9 DEF Going, Straight
  <2>2. Flows(t, "relay", "A", {}, {})
    BY <1>3, <1>5, <1>6, <1>7, <2>1 DEF Flows
  <2>3. "relay" \in Legs /\ "A" \in Devices
    BY DEF Legs, Devices
  <2> QED
    BY <1>1, <1>4, <1>9, <2>2, <2>3, GoesOnAsItIs
<1> QED
  BY <1>8, <1>9

LEMMA VerifyKeepsGoing ==
  ASSUME Sound, CalmSound, GoingSound, NEW d \in Devices, Verify(d)
  PROVE  GoingSound'
<1>1. UNCHANGED <<channel, wire, phase, route, sent, calm>> /\ leg' = [leg EXCEPT ![d] = "verified"]
      /\ leg \in [Devices -> {"closed", "verified", "dead"}]
  BY DEF Verify, tables, history, Sound, LinkTypes
<1> SUFFICES ASSUME NEW t \in calm PROVE Going(t)'
  BY <1>1 DEF GoingSound
<1>2. t \in Ids /\ Going(t) /\ "relay" \in Legs
  BY GoingFacts DEF Legs
<1>3. Flows(t, "relay", d, {}, {})
  BY <1>1, <1>2, StillFlows
<1>4. \A c \in Devices : leg[c] # "closed" => leg'[c] # "closed"
  BY <1>1
<1> QED
  BY <1>1, <1>2, <1>3, <1>4, GoesOnAsItIs

\* The cancels of the transfers that were on a lost leg.
LEMMA CancelFlows ==
  ASSUME Sound, NEW d \in Devices, DirectLost(d), NEW t \in Ids
  PROVE  /\ UNCHANGED <<route, sent>>
         /\ \A c \in Devices :
              phase'[c][t] = IF c = d /\ route[t] = "direct" THEN "none" ELSE phase[c][t]
         /\ Flows(t, "relay", d, {}, IF phase[d][t] # "none" /\ route[t] = "direct" THEN {"cancel"} ELSE {})
<1> DEFINE T == {u \in Table(d) : route[u] = "direct"}
<1>1. Close(d, T, "failed") /\ UNCHANGED <<route, sent, got>>
  BY DEF DirectLost
<1>2. T \in SUBSET Ids /\ T \in SUBSET Begun /\ (t \in T <=> phase[d][t] # "none" /\ route[t] = "direct")
  BY TableBegun DEF Table
<1>3. IsFiniteSet(T)
  <2>1. IsFiniteSet(Table(d)) /\ T \subseteq Table(d)
    BY DEF Sound, TableSound, Placed
  <2> QED
    BY <2>1, FS_Subset
<1>4. PICK order \in Orders(T) :
        wire' = [wire EXCEPT !["relay"][Other(d)] =
                   @ \o [i \in DOMAIN order |-> Frame("cancel", order[i], 0)]]
  BY DEF DirectLost
<1> DEFINE s == [i \in DOMAIN order |-> Frame("cancel", order[i], 0)]
<1>5. s \in Seq(AnyFrame)
  <2>1. s \in Seq(ToA)
    BY <1>2, <1>3, CancelsTravel
  <2> QED
    BY <2>1, ToAreFrames, SeqMonotonic
<1>6. wire' = Put("relay", Other(d), s)
  BY <1>4 DEF Put
<1>7. \A type : Has(s, type, t) <=> type \in IF t \in T THEN {"cancel"} ELSE {}
  <2>1. /\ DOMAIN s = DOMAIN order /\ \A i \in DOMAIN s : s[i].type = "cancel" /\ s[i].id = order[i]
    BY DEF Frame
  <2>2. order \in [1 .. Cardinality(T) -> T]
    BY <1>4 DEF Orders
  <2>3. t \in T => \E i \in DOMAIN order : order[i] = t
    <3> HIDE DEF T
    <3>1. Cardinality(T) \in Nat
      BY <1>3, FS_CardinalityType
    <3>2. order \in Injection(1 .. Cardinality(T), T)
      BY <1>4, <2>2 DEF Orders, Injection, IsInjective
    <3>3. IsFiniteSet(1 .. Cardinality(T)) /\ Cardinality(1 .. Cardinality(T)) = Cardinality(T)
      BY <3>1, FS_Interval
    <3>4. order \in Surjection(1 .. Cardinality(T), T)
      BY <1>3, <3>2, <3>3, FS_Injection
    <3> QED
      BY <3>4 DEF Surjection
  <2> HIDE DEF s, T
  <2> QED
    BY <2>1, <2>2, <2>3 DEF Has
<1>8. Closed(d, T, "failed")
  BY <1>1, <1>2, CloseEffect DEF Sound, TableSound, StatusesOf
<1>9. \A c \in Devices : phase'[c][t] = IF c = d /\ t \in T THEN "none" ELSE phase[c][t]
  BY <1>8 DEF Closed
<1>10. \A c \in Devices : phase'[c][t] = IF c = d /\ route[t] = "direct" THEN "none" ELSE phase[c][t]
  BY <1>2, <1>9
<1> HIDE DEF s, T
<1>11. Flows(t, "relay", d, {}, IF t \in T THEN {"cancel"} ELSE {})
  <2>1. wire \in Wires /\ "relay" \in Legs
    BY DEF Legs, Sound, Wired, Carries, Wires
  <2> QED
    BY <1>5, <1>6, <1>7, <2>1, PutFlows
<1> QED
  BY <1>1, <1>2, <1>10, <1>11

-----------------------------------------------------------------------------
(* Nothing hangs: the steps                                                *)

\* A lost leg takes the transfers on it along, and the relay tells the other side.
LEMMA LostLegGoing ==
  ASSUME Sound, CalmSound, GoingSound, NEW d \in Devices, DirectLost(d), UNCHANGED channel,
         \A c \in Devices : c # d => leg'[c] = leg[c], NEW t \in calm,
         d = "A" /\ route[t] = "direct" /\ Comes("B", "offer", t) => ~channel
  PROVE  Going(t)'
<1>1. /\ t \in Ids /\ Going(t) /\ Pinned(t) /\ Offered(t)
      /\ "relay" \in Legs /\ "A" \in Devices /\ "B" \in Devices
  BY GoingFacts DEF Legs, Devices
<1>2. /\ UNCHANGED <<route, sent>>
      /\ \A c \in Devices :
           phase'[c][t] = IF c = d /\ route[t] = "direct" THEN "none" ELSE phase[c][t]
      /\ Flows(t, "relay", d, {}, IF phase[d][t] # "none" /\ route[t] = "direct" THEN {"cancel"} ELSE {})
  BY <1>1, CancelFlows
<1>3. CASE d = "A" /\ phase[d][t] # "none" /\ route[t] = "direct"
  <2>1. /\ Flows(t, "relay", "A", {}, {"cancel"}) /\ leg'["B"] = leg["B"]
        /\ phase'["A"][t] = "none" /\ phase'["B"][t] = phase["B"][t]
    BY <1>1, <1>2, <1>3
  <2> QED
    BY <1>1, <1>2, <1>3, <2>1, SenderEnds
<1>4. CASE d = "B" /\ phase[d][t] # "none" /\ route[t] = "direct"
  <2>1. /\ Flows(t, "relay", "B", {}, {"cancel"}) /\ leg'["A"] = leg["A"]
        /\ phase'["A"][t] = phase["A"][t] /\ phase'["B"][t] = "none"
    BY <1>1, <1>2, <1>4
  <2>2. ~Comes("B", "offer", t)'
    BY <1>1, <1>4, <2>1 DEF Flows, Offered, Comes
  <2>3. "cancel" \in Verdicts
    BY DEF Verdicts
  <2> QED
    BY <1>1, <1>2, <2>1, <2>2, <2>3, ReceiverEnds
<1>5. CASE phase[d][t] = "none" \/ route[t] # "direct"
  <2>1. Flows(t, "relay", d, {}, {}) /\ \A c \in Devices : phase'[c][t] = phase[c][t]
    BY <1>2, <1>5
  <2>2. \A c \in Devices : phase[c][t] # "none" /\ route[t] = "direct" /\ leg[c] # "closed" => leg'[c] # "closed"
    BY <1>5
  <2> QED
    BY <1>1, <1>2, <2>1, <2>2, GoesOnAsItIs
<1> QED
  BY <1>3, <1>4, <1>5 DEF Devices

\* The channel is gone, or its probe is not answered.
LEMMA LegLostKeepsGoing ==
  ASSUME Sound, CalmSound, GoingSound, NEW d \in Devices, LegLost(d) \/ ProbeTimeout(d)
  PROVE  GoingSound'
<1>1. /\ DirectLost(d) /\ UNCHANGED channel /\ \A c \in Devices : c # d => leg'[c] = leg[c]
      /\ calm' \subseteq calm
  BY DEF LegLost, ProbeTimeout, history, Sound, LinkTypes
<1> SUFFICES ASSUME NEW t \in calm' PROVE Going(t)'
  BY DEF GoingSound
<1>2. ASSUME route[t] = "direct", Comes("B", "offer", t) PROVE ~channel
  <2>1. CASE LegLost(d)
    BY <2>1 DEF LegLost
  <2>2. CASE ProbeTimeout(d)
    <3>1. Pinned(t) /\ "B" \in Devices
      BY <1>1, GoingFacts DEF Devices
    <3>2. Has(wire["direct"]["B"], "offer", t)
      BY <1>2, <3>1 DEF Comes, Pinned
    <3> DEFINE q == wire["direct"]["B"]
    <3>3. PICK i \in DOMAIN q : q[i].type = "offer" /\ q[i].id = t
      BY <3>2 DEF Has
    <3>4. q \in Seq(ToB)
      BY DEF Sound, Wired, Carries, Legs
    <3>5. Frame("offer", t, 0) \notin {q[j] : j \in DOMAIN q}
      BY <2>2 DEF ProbeTimeout
    <3> HIDE DEF q
    <3>6. q[i] \in ToB
      BY <3>3, <3>4, ElementOfSeq, LenProperties
    <3>7. q[i] = Frame("offer", t, 0)
      BY <3>3, <3>6 DEF ToB, AnyFrame, Frame
    <3> QED
      BY <3>3, <3>5, <3>7
  <2> QED
    BY <2>1, <2>2
<1> QED
  BY <1>1, <1>2, LostLegGoing

\* A offers a file.
LEMMA StartKeepsGoing ==
  ASSUME Sound, CalmSound, GoingSound, Start
  PROVE  GoingSound'
<1>0. PICK u, l : u = Head(asked) /\ l = IF leg["A"] = "verified" THEN "direct" ELSE "relay"
  OBVIOUS
<1>1. /\ conn["A"] = "live" /\ asked # <<>> /\ asked' = Tail(asked)
      /\ Open(u, l) /\ wire' = Put(l, "B", <<Frame("offer", u, 0)>>)
      /\ calm' = IF conn["B"] = "live" THEN calm \cup {u} ELSE calm
      /\ UNCHANGED <<links, tries>>
  BY <1>0 DEF Start
<1>2. AskSound
  BY DEF Sound
<1>3. u \in Fresh /\ u \in Ids
  BY <1>0, <1>1, <1>2, TakeRequest
<1>4. l \in Legs /\ (l = "direct" => leg["A"] = "verified") /\ "A" \in Devices /\ Other("A") = "B"
      /\ "offer" \in Types
  BY <1>0 DEF Legs, Devices, Other, Types
<1>5. wire \in Wires /\ TableTypes
  BY GoingFacts
<1>6. \A t : Flows(t, l, "A", {}, IF t = u THEN {"offer"} ELSE {})
  <2>1. wire' = Put(l, Other("A"), <<Frame("offer", u, 0)>>)
    BY <1>1, <1>4
  <2> QED
    BY <1>3, <1>4, <1>5, <2>1, PutOne
<1>7. /\ phase' = [phase EXCEPT !["A"][u] = "waiting"] /\ route' = [route EXCEPT ![u] = l]
      /\ UNCHANGED <<sent, channel, leg>>
  BY <1>1 DEF Open, links
<1>8. \A t \in Ids : t # u =>
        /\ Flows(t, l, "A", {}, {}) /\ \A c \in Devices : phase'[c][t] = phase[c][t]
        /\ route'[t] = route[t] /\ sent'[t] = sent[t]
  BY <1>3, <1>5, <1>6, <1>7 DEF TableTypes
<1>9. Going(u)'
  <2>1. \A c \in Devices, k \in Legs : \A type : ~Has(wire[k][c], type, u)
    BY <1>3, FreshUnsent
  <2>2. phase["B"][u] = "none"
    BY <1>3 DEF Sound, Untouched, Devices
  <2>3. phase'["A"][u] = "waiting" /\ phase'["B"][u] = "none" /\ route'[u] = l
    BY <1>3, <1>5, <1>7, <2>2 DEF TableTypes, Devices
  <2>4. Flows(u, l, "A", {}, {"offer"})
    BY <1>6
  <2> QED
    BY <1>3, <1>4, <1>7, <2>1, <2>3, <2>4, SenderOffers
<1>10. calm' \subseteq calm \cup {u} /\ UNCHANGED <<channel, leg>>
  BY <1>1, <1>7
<1> QED
  BY <1>3, <1>4, <1>8, <1>9, <1>10, GoingBut

\* A sends a chunk.
LEMMA SendChunkKeepsGoing ==
  ASSUME Sound, CalmSound, GoingSound, NEW u \in Ids, SendChunk(u)
  PROVE  GoingSound'
<1>0. PICK n, end : n = sent[u] /\ end = IF n + 1 < Chunks[Msg(u)] THEN <<>> ELSE <<Frame("complete", u, 0)>>
  OBVIOUS
<1>1. /\ phase["A"][u] = "sending" /\ n < Chunks[Msg(u)]
      /\ wire' = Put(route[u], "B", <<Frame("chunk", u, n)>> \o end)
      /\ sent' = [sent EXCEPT ![u] = n + 1]
      /\ UNCHANGED <<links, phase, route, got, history>>
  BY <1>0 DEF SendChunk
<1>2. /\ wire \in Wires /\ TableTypes /\ n \in Nat /\ route[u] \in Legs /\ "A" \in Devices /\ Other("A") = "B"
      /\ end \in {<<>>, <<Frame("complete", u, 0)>>}
  BY <1>0, GoingFacts DEF TableTypes, Devices, Other
<1> DEFINE a == <<Frame("chunk", u, n)>>
           s == a \o end
           G(t) == IF t # u THEN {} ELSE IF n + 1 < Chunks[Msg(u)] THEN {"chunk"} ELSE {"chunk", "complete"}
<1>3. s \in Seq(AnyFrame) /\ \A t, type : Has(s, type, t) => t = u
  BY <1>2, ChunkFrames
<1>4. \A type : Has(s, type, u) <=> type \in G(u)
  <2>1. Frame("chunk", u, n) \in AnyFrame /\ Frame("complete", u, 0) \in AnyFrame
    BY <1>2 DEF Frame, AnyFrame, Types
  <2>2. a \in Seq(AnyFrame) /\ <<Frame("complete", u, 0)>> \in Seq(AnyFrame) /\ <<>> \in Seq(AnyFrame)
    BY <2>1, EmptySeq
  <2>3. end \in Seq(AnyFrame)
    BY <1>2, <2>2
  <2>4. \A type : Has(a, type, u) <=> type = "chunk"
    BY HasExactly DEF Frame
  <2>5. \A type : Has(end, type, u) <=> type = "complete" /\ ~(n + 1 < Chunks[Msg(u)])
    <3>1. \A type : /\ Has(<<Frame("complete", u, 0)>>, type, u) <=> type = "complete"
                    /\ ~Has(<<>>, type, u)
      BY HasExactly DEF Frame
    <3> QED
      BY <1>0, <3>1
  <2> HIDE DEF a
  <2>6. \A type : Has(a \o end, type, u) <=> Has(a, type, u) \/ Has(end, type, u)
    BY <2>2, <2>3, HasBoth
  <2> QED
    BY <2>4, <2>5, <2>6
<1>5. wire' = Put(route[u], Other("A"), s)
  BY <1>1, <1>2
<1> HIDE DEF s
<1>6. \A t : Flows(t, route[u], "A", {}, G(t))
  <2> SUFFICES ASSUME NEW t PROVE Flows(t, route[u], "A", {}, G(t))
    OBVIOUS
  <2>1. \A type : Has(s, type, t) <=> type \in G(t)
    BY <1>3, <1>4
  <2> HIDE DEF G
  <2> QED
    BY <1>2, <1>3, <1>5, <2>1, PutFlows
<1>7. \A t \in Ids : t # u =>
        /\ Flows(t, route[u], "A", {}, {}) /\ \A c \in Devices : phase'[c][t] = phase[c][t]
        /\ route'[t] = route[t] /\ sent'[t] = sent[t]
  BY <1>1, <1>2, <1>6 DEF TableTypes
<1>8. calm' \subseteq calm \cup {u} /\ UNCHANGED <<channel, leg>>
  BY <1>1 DEF history, links
<1>9. ASSUME u \in calm' PROVE Going(u)'
  <2>1. Going(u) /\ Pinned(u)
    BY <1>1, <1>9, GoingFacts DEF history
  <2>2. G(u) \in SUBSET {"chunk", "complete"} /\ Flows(u, route[u], "A", {}, G(u))
    BY <1>6
  <2>3. sent'[u] < Chunks[Msg(u)] \/ "complete" \in G(u)
    BY <1>1, <1>2 DEF TableTypes
  <2>4. phase'["A"][u] = "sending" /\ phase'["B"][u] = phase["B"][u] /\ route'[u] = route[u]
    BY <1>1
  <2> HIDE DEF G
  <2> QED
    BY <1>1, <1>2, <1>8, <2>1, <2>2, <2>3, <2>4, SenderSends
<1> QED
  BY <1>2, <1>7, <1>8, <1>9, GoingBut

\* What ends one session of a device ends no other.
LEMMA CloseOneEnds ==
  ASSUME TableTypes, NEW d \in Devices, NEW u \in Ids, NEW r \in StatusesOf(d), CloseOne(d, u, r)
  PROVE  \A t \in Ids, c \in Devices : phase'[c][t] = IF c = d /\ t = u THEN "none" ELSE phase[c][t]
<1>1. CASE phase[d][u] = "none"
  BY <1>1 DEF CloseOne
<1>2. CASE phase[d][u] # "none"
  <2>1. Close(d, {u}, r) /\ {u} \in SUBSET Ids
    BY <1>2 DEF CloseOne
  <2>2. Closed(d, {u}, r)
    BY <2>1, CloseEffect
  <2> QED
    BY <2>2 DEF Closed
<1> QED
  BY <1>1, <1>2

\* The users' answers.
LEMMA AnswersKeepGoing ==
  ASSUME Sound, CalmSound, GoingSound, NEW m \in Msgs, NEW l \in Legs
  PROVE  /\ Reject(m, l) \/ Cancel(m, l) => GoingSound'
         /\ Accept(m, l) => GoingSound'
<1>a. wire \in Wires /\ TableTypes /\ "A" \in Devices /\ "B" \in Devices /\ Other("A") = "B" /\ Other("B") = "A"
  BY GoingFacts DEF Devices, Other
<1>1. ASSUME NEW d \in Devices, NEW from, NEW type \in {"reject", "cancel"}, Decline(d, m, l, from, type),
             d = "A" => from = "sending" /\ type = "cancel", from # "none"
      PROVE  GoingSound'
  <2>0. PICK u : u = reg[d][m]
    OBVIOUS
  <2>1. /\ u # NoId /\ CloseOne(d, u, "failed") /\ wire' = Put(l, Other(d), <<Frame(type, u, 0)>>)
        /\ phase[d][u] = from /\ l \in Legged(d, u)
        /\ UNCHANGED <<links, route, sent, history>>
    BY <1>1, <2>0 DEF Decline
  <2>2. u \in Ids /\ type \in Types /\ type \in Verdicts /\ (l = "direct" => route[u] = "direct")
    BY <1>a, <2>0, <2>1 DEF TableTypes, Legged, Types, Verdicts
  <2>3. \A t : Flows(t, l, d, {}, IF t = u THEN {type} ELSE {})
    BY <1>a, <2>1, <2>2, PutOne
  <2>4. \A t \in Ids, c \in Devices : phase'[c][t] = IF c = d /\ t = u THEN "none" ELSE phase[c][t]
    <3>1. "failed" \in StatusesOf(d)
      BY DEF StatusesOf
    <3> QED
      BY <1>a, <2>1, <2>2, <3>1, CloseOneEnds
  <2>5. UNCHANGED <<channel, leg, calm>>
    BY <2>1 DEF links, history
  <2>6. ASSUME u \in calm PROVE Going(u)'
    <3>1. Going(u) /\ Pinned(u) /\ Offered(u)
      BY <2>6, GoingFacts
    <3>2. ~Comes("B", "offer", u)
      BY <1>1, <2>1, <3>1 DEF Offered, NotAccepted, Comes, Devices
    <3>3. Flows(u, l, d, {}, {type})
      BY <2>3
    <3>4. CASE d = "A"
      <4>1. Flows(u, l, "A", {}, {"cancel"}) /\ phase'["A"][u] = "none" /\ phase'["B"][u] = phase["B"][u]
        BY <1>a, <1>1, <2>2, <2>4, <3>3, <3>4
      <4> QED
        BY <2>1, <2>2, <2>5, <3>1, <3>2, <4>1, SenderEnds
    <3>5. CASE d = "B"
      <4>1. Flows(u, l, "B", {}, {type}) /\ phase'["B"][u] = "none" /\ phase'["A"][u] = phase["A"][u]
        BY <1>a, <2>2, <2>4, <3>3, <3>5
      <4>2. ~Comes("B", "offer", u)'
        BY <1>a, <3>2, <4>1 DEF Flows
      <4> QED
        BY <2>1, <2>2, <2>5, <3>1, <4>1, <4>2, ReceiverEnds
    <3> QED
      BY <3>4, <3>5 DEF Devices
  <2>7. \A t \in Ids : t # u =>
          /\ Flows(t, l, d, {}, {}) /\ \A c \in Devices : phase'[c][t] = phase[c][t]
          /\ route'[t] = route[t] /\ sent'[t] = sent[t]
    BY <2>1, <2>3, <2>4
  <2> QED
    BY <2>2, <2>5, <2>6, <2>7, GoingBut
<1>2. ASSUME Accept(m, l) PROVE GoingSound'
  <2>0. PICK u : u = reg["B"][m]
    OBVIOUS
  <2>1. /\ u # NoId /\ phase["B"][u] = "deciding" /\ wire' = Put(l, "A", <<Frame("accept", u, 0)>>)
        /\ phase' = [phase EXCEPT !["B"][u] = "receiving"] /\ l \in Legged("B", u)
        /\ UNCHANGED <<links, route, sent, history>>
    BY <1>2, <2>0 DEF Accept
  <2>2. u \in Ids /\ "accept" \in Types /\ (l = "direct" => route[u] = "direct")
    BY <1>a, <2>0, <2>1 DEF TableTypes, Legged, Types
  <2>3. \A t : Flows(t, l, "B", {}, IF t = u THEN {"accept"} ELSE {})
    <3>1. wire' = Put(l, Other("B"), <<Frame("accept", u, 0)>>)
      BY <1>a, <2>1
    <3> QED
      BY <1>a, <2>2, <3>1, PutOne
  <2>4. \A t \in Ids, c \in Devices : phase'[c][t] = IF c = "B" /\ t = u THEN "receiving" ELSE phase[c][t]
    BY <1>a, <2>1, <2>2 DEF TableTypes
  <2>5. UNCHANGED <<channel, leg, calm>>
    BY <2>1 DEF links, history
  <2>6. ASSUME u \in calm PROVE Going(u)'
    <3>1. Going(u) /\ Pinned(u) /\ Deciding(u)
      BY <2>6, GoingFacts
    <3>2. phase["A"][u] \in {"none", "waiting"}
      BY <1>a, <2>1, <2>2, <3>1 DEF Deciding, NotAccepted, TableTypes, PhasesOf
    <3>3. Flows(u, l, "B", {}, {"accept"}) /\ phase'["A"][u] = phase["A"][u] /\ phase'["B"][u] = "receiving"
      BY <1>a, <2>2, <2>3, <2>4
    <3> QED
      BY <2>1, <2>2, <2>5, <3>1, <3>2, <3>3, ReceiverAccepts
  <2>7. \A t \in Ids : t # u =>
          /\ Flows(t, l, "B", {}, {}) /\ \A c \in Devices : phase'[c][t] = phase[c][t]
          /\ route'[t] = route[t] /\ sent'[t] = sent[t]
    BY <2>1, <2>3, <2>4
  <2> QED
    BY <1>a, <2>2, <2>5, <2>6, <2>7, GoingBut
<1>3. ASSUME Reject(m, l) \/ Cancel(m, l) PROVE GoingSound'
  BY <1>a, <1>1, <1>3 DEF Reject, Cancel, NeedsDecision, CanCancel
<1> QED
  BY <1>2, <1>3

-----------------------------------------------------------------------------
(* Nothing hangs: the frames that are read                                 *)

LEMMA HasFirst ==
  ASSUME wire \in Wires, NEW l \in Legs, NEW d \in Devices, wire[l][d] # <<>>
  PROVE  Comes(d, Head(wire[l][d]).type, Head(wire[l][d]).id)
<1> DEFINE q == wire[l][d]
<1>1. q \in Seq(AnyFrame) /\ q # <<>>
  BY DEF Wires
<1> HIDE DEF q
<1>2. Has(q, Head(q).type, Head(q).id)
  BY <1>1, HasRest
<1> QED
  BY <1>2 DEF q, Comes

LEMMA ReadAKeepsGoing ==
  ASSUME Sound, CalmSound, GoingSound, NEW l \in Legs, ReadA(l)
  PROVE  GoingSound'
<1>a. wire \in Wires /\ TableTypes /\ WaitingUnsent /\ "A" \in Devices /\ "B" \in Devices
  BY GoingFacts DEF Sound, TableSound, Devices
<1>0. PICK f, u, type : f = Head(wire[l]["A"]) /\ u = f.id /\ type = f.type
  OBVIOUS
<1>1. wire[l]["A"] # <<>> /\ UNCHANGED <<channel, leg>>
  BY DEF ReadA, Reads, links
<1>2. f \in ToA /\ u \in Ids /\ type \in {"accept", "reject", "verified", "refused", "cancel"}
  <2>1. wire[l]["A"] \in Seq(ToA)
    BY DEF Sound, Wired, Carries
  <2> QED
    BY <1>0, <1>1, <2>1, TakeFirst DEF ToA, AnyFrame
<1>3. Comes("A", type, u)
  BY <1>a, <1>0, <1>1, HasFirst
<1>4. wire' = Took("A", l) => \A t : Flows(t, l, "A", IF t = u THEN {type} ELSE {}, {})
  BY <1>a, <1>0, <1>1, <1>2, AnswerOne
<1>5. ASSUME type # "accept" PROVE GoingSound'
  <2>1. /\ CloseOne("A", u, Verdict(type)) /\ wire' = Took("A", l)
        /\ UNCHANGED <<route, sent, history>>
    BY <1>0, <1>5 DEF ReadA, OnVerdict
  <2>2. \A t \in Ids, c \in Devices : phase'[c][t] = IF c = "A" /\ t = u THEN "none" ELSE phase[c][t]
    <3>1. Verdict(type) \in StatusesOf("A")
      BY DEF Verdict, StatusesOf
    <3> QED
      BY <1>a, <1>2, <2>1, <3>1, CloseOneEnds
  <2>3. ASSUME u \in calm PROVE Going(u)'
    <3>1. type \in Verdicts
      BY <1>2, <1>5 DEF Verdicts
    <3>2. Going(u)
      BY <2>3, GoingFacts
    <3>3. /\ Flows(u, l, "A", {type}, {}) /\ phase'["A"][u] = "none" /\ phase'["B"][u] = phase["B"][u]
          /\ route'[u] = route[u]
      BY <1>a, <1>2, <1>4, <2>1, <2>2
    <3> QED
      BY <1>1, <1>2, <1>3, <3>1, <3>2, <3>3, SenderIsTold
  <2>4. \A t \in Ids : t # u =>
          /\ Flows(t, l, "A", {}, {}) /\ \A c \in Devices : phase'[c][t] = phase[c][t]
          /\ route'[t] = route[t] /\ sent'[t] = sent[t]
    BY <1>4, <2>1, <2>2
  <2>5. UNCHANGED calm
    BY <2>1 DEF history
  <2> QED
    BY <1>a, <1>1, <1>2, <2>3, <2>4, <2>5, GoingBut
<1>6. ASSUME type = "accept", phase["A"][u] # "waiting" PROVE GoingSound'
  <2>1. wire' = Took("A", l) /\ UNCHANGED <<phase, route, sent, calm>>
    BY <1>0, <1>6 DEF ReadA, OnAccept, Ignore, tables, history
  <2>2. ASSUME u \in calm PROVE Going(u)'
    <3>1. Going(u) /\ Flows(u, l, "A", {type}, {})
      BY <1>4, <2>1, <2>2, GoingFacts
    <3> QED
      BY <1>a, <1>1, <1>2, <1>6, <2>1, <3>1, GoesOnAsItIs
  <2>3. \A t \in Ids : t # u => Flows(t, l, "A", {}, {})
    BY <1>4, <2>1
  <2> QED
    BY <1>a, <1>1, <1>2, <2>1, <2>2, <2>3, GoingBut
<1>7. ASSUME type = "accept", phase["A"][u] = "waiting" PROVE GoingSound'
  <2>1. /\ phase' = [phase EXCEPT !["A"][u] = "sending"]
        /\ wire' = Answer("A", l, IF Chunks[Msg(u)] = 0 THEN <<Frame("complete", u, 0)>> ELSE <<>>)
        /\ UNCHANGED <<route, sent, history>>
    BY <1>0, <1>7 DEF ReadA, OnAccept
  <2> DEFINE G == IF Chunks[Msg(u)] = 0 THEN {"complete"} ELSE {}
  <2>2. \A t : Flows(t, l, "A", IF t = u THEN {type} ELSE {}, IF t = u THEN G ELSE {})
    <3>1. CASE Chunks[Msg(u)] = 0
      <4>1. wire' = Answer("A", l, <<Frame("complete", u, 0)>>) /\ "complete" \in Types
        BY <2>1, <3>1 DEF Types
      <4>2. \A t : Flows(t, l, "A", IF t = u THEN {type} ELSE {}, IF t = u THEN {"complete"} ELSE {})
        BY <1>a, <1>0, <1>1, <1>2, <4>1, AnswerOne
      <4> QED
        BY <3>1, <4>2
    <3>2. CASE Chunks[Msg(u)] # 0
      <4>1. wire' = Answer("A", l, <<>>)
        BY <2>1, <3>2
      <4>2. \A t : Flows(t, l, "A", IF t = u THEN {type} ELSE {}, {})
        BY <1>a, <1>0, <1>1, <1>2, <4>1, AnswerOne
      <4> QED
        BY <3>2, <4>2
    <3> QED
      BY <3>1, <3>2
  <2>3. \A t \in Ids, c \in Devices : phase'[c][t] = IF c = "A" /\ t = u THEN "sending" ELSE phase[c][t]
    BY <1>a, <1>2, <2>1 DEF TableTypes
  <2>4. ASSUME u \in calm PROVE Going(u)'
    <3>1. Going(u) /\ Pinned(u) /\ Offered(u) /\ Deciding(u)
      BY <2>4, GoingFacts
    <3>2. ~NotAccepted(u)
      BY <1>3, <1>7 DEF NotAccepted, Comes
    <3>3. ~Comes("B", "offer", u) /\ phase["B"][u] # "deciding"
      BY <3>1, <3>2 DEF Offered, Deciding, Comes
    <3>4. l = "direct" => route[u] = "direct"
      <4>1. l = "direct" => Has(wire["direct"]["A"], "accept", u)
        <5> DEFINE q == wire[l]["A"]
        <5>1. q \in Seq(AnyFrame) /\ q # <<>> /\ Head(q) = f
          BY <1>a, <1>0, <1>1 DEF Wires
        <5> HIDE DEF q
        <5>2. Has(q, Head(q).type, Head(q).id)
          BY <5>1, HasRest
        <5> QED
          BY <1>0, <1>7, <5>1, <5>2 DEF q
      <4> QED
        BY <1>a, <3>1, <4>1 DEF Going, Straight
    <3>5. Chunks[Msg(u)] \in Nat /\ sent'[u] = 0
      BY <1>a, <1>2, <1>7, <2>1, FileAssumption DEF WaitingUnsent, Ids, Msg
    <3>6. /\ Flows(u, l, "A", {"accept"}, G) /\ phase'["A"][u] = "sending" /\ phase'["B"][u] = phase["B"][u]
          /\ route'[u] = route[u] /\ Comes("A", "accept", u)
      BY <1>a, <1>2, <1>3, <1>7, <2>1, <2>2, <2>3
    <3> QED
      BY <1>1, <1>2, <1>7, <3>1, <3>3, <3>4, <3>5, <3>6, SenderBegins
  <2>5. \A t \in Ids : t # u =>
          /\ Flows(t, l, "A", {}, {}) /\ \A c \in Devices : phase'[c][t] = phase[c][t]
          /\ route'[t] = route[t] /\ sent'[t] = sent[t]
    BY <2>1, <2>2, <2>3
  <2>6. UNCHANGED calm
    BY <2>1 DEF history
  <2> QED
    BY <1>a, <1>1, <1>2, <2>4, <2>5, <2>6, GoingBut
<1> QED
  BY <1>5, <1>6, <1>7

\* B has read the offer, and there was one.
LEMMA OfferIsRead ==
  ASSUME wire \in Wires, NEW l \in Legs, NEW u \in Ids, Pinned(u), Offered(u), wire[l]["B"] # <<>>,
         Head(wire[l]["B"]).id = u, Head(wire[l]["B"]).type = "offer", NEW s, wire' = Answer("B", l, s)
  PROVE  l = route[u] /\ phase["B"][u] = "none" /\ NotAccepted(u) /\ ~Comes("B", "offer", u)'
<1> DEFINE q == wire[l]["B"]
<1>1. q \in Seq(AnyFrame) /\ q # <<>> /\ "B" \in Devices /\ Head(q).id = u /\ Head(q).type = "offer"
  BY DEF Wires, Devices
<1>2. OneOffer(q, u)
  BY DEF Offered
<1>3. \A k \in Legs : wire'[k]["B"] = IF k = l THEN Tail(wire[k]["B"]) ELSE wire[k]["B"]
  BY <1>1, AnswerEffect
<1>4. wire'[l]["B"] = Tail(q)
  BY <1>3
<1> HIDE DEF q
<1>5. Has(q, "offer", u) /\ ~Has(Tail(q), "offer", u)
  BY <1>1, <1>2, HasRest, LineTail
<1>6. l = route[u] /\ phase["B"][u] = "none" /\ NotAccepted(u)
  BY <1>5 DEF Pinned, Offered, q
<1>7. \A k \in Legs : ~Has(wire'[k]["B"], "offer", u)
  BY <1>3, <1>4, <1>5, <1>6 DEF Pinned
<1> QED
  BY <1>6, <1>7 DEF Comes

\* B ends a transfer with an answer, or refuses one that it does not have.
LEMMA EndOnBKeepsGoing ==
  ASSUME Sound, CalmSound, GoingSound, NEW u \in Ids, NEW l \in Legs, wire[l]["B"] # <<>>,
         Head(wire[l]["B"]).id = u, Head(wire[l]["B"]).type # "cancel", EndsOnB(u),
         NEW type \in Verdicts, wire' = Answer("B", l, <<Frame(type, u, 0)>>),
         UNCHANGED <<links, route, sent, calm>>,
         phase["B"][u] = "receiving" \/ Head(wire[l]["B"]).type = "offer"
  PROVE  GoingSound'
<1>1. wire \in Wires /\ "A" \in Devices /\ "B" \in Devices /\ type \in Types /\ UNCHANGED <<channel, leg>>
  BY GoingFacts DEF Devices, Verdicts, Types, links
<1>2. PICK first : first = Head(wire[l]["B"]).type
  OBVIOUS
<1>3. \A t : Flows(t, l, "B", IF t = u THEN {first} ELSE {}, IF t = u THEN {type} ELSE {})
  BY <1>1, <1>2, AnswerOne
<1>4. ASSUME u \in calm PROVE Going(u)'
  <2>1. Going(u) /\ Pinned(u) /\ Offered(u)
    BY <1>4, GoingFacts
  <2>2. Flows(u, l, "B", {first}, {type}) /\ phase'["A"][u] = phase["A"][u] /\ phase'["B"][u] = "none"
    BY <1>3 DEF EndsOnB
  <2>3. ~Comes("B", "offer", u)'
    <3>1. CASE Head(wire[l]["B"]).type = "offer"
      BY <1>1, <2>1, <3>1, OfferIsRead
    <3>2. CASE phase["B"][u] = "receiving"
      <4>1. ~Comes("B", "offer", u)
        BY <2>1, <3>2 DEF Offered, Comes
      <4> QED
        BY <1>1, <2>2, <4>1 DEF Flows
    <3> QED
      BY <3>1, <3>2
  <2>4. l = "direct" => route[u] = "direct"
    <3> DEFINE q == wire[l]["B"]
    <3>1. q \in Seq(AnyFrame) /\ q # <<>> /\ Head(q).id = u
      BY <1>1 DEF Wires
    <3> HIDE DEF q
    <3>2. Has(q, Head(q).type, u)
      BY <3>1, HasRest
    <3> QED
      BY <1>1, <2>1, <3>2 DEF Going, Straight, q
  <2>5. "cancel" \notin {first} /\ route'[u] = route[u]
    BY <1>2
  <2> QED
    BY <1>1, <2>1, <2>2, <2>3, <2>4, <2>5, ReceiverEnds
<1>5. \A t \in Ids : t # u =>
        /\ Flows(t, l, "B", {}, {}) /\ \A c \in Devices : phase'[c][t] = phase[c][t]
        /\ route'[t] = route[t] /\ sent'[t] = sent[t]
  BY <1>3 DEF EndsOnB, Devices
<1> QED
  BY <1>1, <1>4, <1>5, GoingBut

\* B finishes the file, well or not.
LEMMA FinishKeepsGoing ==
  ASSUME Sound, CalmSound, GoingSound, NEW u \in Ids, NEW l \in Legs, wire[l]["B"] # <<>>,
         Head(wire[l]["B"]).id = u, Head(wire[l]["B"]).type # "cancel", phase["B"][u] = "receiving",
         UNCHANGED <<links, route, sent>>, Finish(u, l)
  PROVE  GoingSound'
<1>1. TableTypes
  BY GoingFacts
<1>2. PICK type \in {"verified", "refused"} : wire' = Answer("B", l, <<Frame(type, u, 0)>>)
  BY DEF Finish
<1>3. EndsOnB(u) /\ UNCHANGED calm
  <2>1. CASE phase' = [phase EXCEPT !["B"][u] = "none"] /\ UNCHANGED calm
    BY <1>1, <2>1 DEF TableTypes, EndsOnB, Devices
  <2>2. CASE Close("B", {u}, "failed") /\ UNCHANGED history
    BY <1>1, <2>2, CloseEndsOnB DEF history
  <2> QED
    BY <2>1, <2>2 DEF Finish
<1>4. type \in Verdicts
  BY DEF Verdicts
<1> QED
  BY <1>2, <1>3, <1>4, EndOnBKeepsGoing

LEMMA ReadBKeepsGoing ==
  ASSUME Sound, CalmSound, GoingSound, NEW l \in Legs, ReadB(l)
  PROVE  GoingSound'
<1>a. wire \in Wires /\ TableTypes /\ "A" \in Devices /\ "B" \in Devices
  BY GoingFacts DEF Devices
<1>0. PICK f, u, type : f = Head(wire[l]["B"]) /\ u = f.id /\ type = f.type
  OBVIOUS
<1>1. wire[l]["B"] # <<>> /\ UNCHANGED links /\ UNCHANGED <<channel, leg>>
      /\ (l = "direct" => leg["B"] # "closed")
  BY DEF ReadB, Reads, links
<1>2. /\ f \in ToB /\ u \in Ids /\ Head(wire[l]["B"]).type = type /\ Head(wire[l]["B"]).id = u
      /\ type \in {"offer", "chunk", "complete", "cancel"}
  <2>1. f \in ToB /\ u \in Ids
    BY <1>0, <1>1, FirstToB
  <2> QED
    BY <1>0, <2>1 DEF ToB
<1>3. Comes("B", type, u)
  BY <1>a, <1>0, <1>1, HasFirst
<1>4. wire' = Took("B", l) => \A t : Flows(t, l, "B", IF t = u THEN {type} ELSE {}, {})
  BY <1>a, <1>1, <1>2, AnswerOne
<1>5. ASSUME wire' = Took("B", l), UNCHANGED <<phase, route, sent, calm>>,
             type = "chunk" \/ (type = "complete" /\ phase["B"][u] # "receiving") \/ (type = "offer" /\ phase["B"][u] # "none")
      PROVE  GoingSound'
  <2>1. ASSUME u \in calm PROVE Going(u)'
    <3>1. Going(u) /\ Flows(u, l, "B", {type}, {}) /\ Offered(u)
      BY <1>4, <1>5, <2>1, GoingFacts
    <3>2. type # "offer"
      BY <1>3, <1>5, <3>1 DEF Comes, Offered
    <3> QED
      BY <1>a, <1>1, <1>2, <1>5, <3>1, <3>2, GoesOnAsItIs
  <2>2. \A t \in Ids : t # u => Flows(t, l, "B", {}, {})
    BY <1>4, <1>5
  <2> QED
    BY <1>a, <1>1, <1>2, <1>5, <2>1, <2>2, GoingBut
<1>6. ASSUME type = "offer" PROVE GoingSound'
  <2>0. OnOffer(l)
    BY <1>2, <1>6 DEF ReadB
  <2>1. CASE phase["B"][u] # "none"
    <3>1. wire' = Took("B", l) /\ UNCHANGED <<phase, route, sent, calm>>
      BY <1>2, <2>0, <2>1 DEF OnOffer, Ignore, tables, history
    <3> QED
      BY <1>5, <1>6, <2>1, <3>1
  <2>2. CASE phase["B"][u] = "none" /\ ~HasPlace("B")
    <3>1. wire' = Answer("B", l, <<Frame("reject", u, 0)>>) /\ UNCHANGED <<phase, route, sent, calm>>
      BY <1>2, <2>0, <2>2 DEF OnOffer, tables, history
    <3>2. EndsOnB(u) /\ "reject" \in Verdicts
      BY <2>2, <3>1 DEF EndsOnB, Verdicts
    <3> QED
      BY <1>1, <1>2, <1>6, <3>1, <3>2, EndOnBKeepsGoing
  <2>3. CASE phase["B"][u] = "none" /\ HasPlace("B")
    <3>0. PICK p, s, G : /\ p = IF Msg(u) \in Big THEN "deciding" ELSE "receiving"
                         /\ s = IF Msg(u) \in Big THEN <<>> ELSE <<Frame("accept", u, 0)>>
                         /\ G = IF Msg(u) \in Big THEN {} ELSE {"accept"}
      OBVIOUS
    <3>1. /\ phase' = [phase EXCEPT !["B"][u] = p] /\ wire' = Answer("B", l, s)
          /\ UNCHANGED <<route, sent, calm>>
      BY <1>2, <2>0, <2>3, <3>0 DEF OnOffer, history
    <3>2. \A t : Flows(t, l, "B", IF t = u THEN {"offer"} ELSE {}, IF t = u THEN G ELSE {})
      <4>1. CASE Msg(u) \in Big
        <5>1. wire' = Answer("B", l, <<>>) /\ G = {}
          BY <3>0, <3>1, <4>1
        <5>2. Head(wire[l]["B"]).type = "offer" /\ Head(wire[l]["B"]).id = u
          BY <1>2, <1>6
        <5>3. \A t : Flows(t, l, "B", IF t = u THEN {"offer"} ELSE {}, {})
          BY <1>a, <1>1, <1>2, <5>1, <5>2, AnswerOne
        <5> QED
          BY <5>1, <5>3
      <4>2. CASE Msg(u) \notin Big
        <5>1. wire' = Answer("B", l, <<Frame("accept", u, 0)>>) /\ G = {"accept"} /\ "accept" \in Types
          BY <3>0, <3>1, <4>2 DEF Types
        <5>2. Head(wire[l]["B"]).type = "offer" /\ Head(wire[l]["B"]).id = u
          BY <1>2, <1>6
        <5>3. \A t : Flows(t, l, "B", IF t = u THEN {"offer"} ELSE {}, IF t = u THEN {"accept"} ELSE {})
          BY <1>a, <1>1, <1>2, <5>1, <5>2, AnswerOne
        <5> QED
          BY <5>1, <5>3
      <4> QED
        BY <4>1, <4>2
    <3>3. \A t \in Ids, c \in Devices : phase'[c][t] = IF c = "B" /\ t = u THEN p ELSE phase[c][t]
      BY <1>a, <1>2, <3>1 DEF TableTypes
    <3>4. ASSUME u \in calm PROVE Going(u)'
      <4>1. Going(u) /\ Pinned(u) /\ Offered(u)
        BY <3>4, GoingFacts
      <4>2. l = route[u] /\ NotAccepted(u) /\ ~Comes("B", "offer", u)'
        BY <1>a, <1>1, <1>2, <1>6, <3>1, <4>1, OfferIsRead
      <4>3. phase["A"][u] \in {"none", "waiting"}
        BY <1>a, <1>2, <4>2 DEF NotAccepted, TableTypes, PhasesOf
      <4>4. /\ Flows(u, l, "B", {"offer"}, G) /\ Comes("B", "offer", u)
            /\ phase'["A"][u] = phase["A"][u] /\ phase'["B"][u] = p /\ route'[u] = route[u]
        BY <1>a, <1>2, <1>3, <1>6, <3>1, <3>2, <3>3
      <4>5. (p = "deciding" /\ G = {}) \/ (p = "receiving" /\ G = {"accept"})
        BY <3>0
      <4> QED
        BY <1>1, <1>2, <2>3, <4>1, <4>2, <4>3, <4>4, <4>5, ReceiverBegins
    <3>5. \A t \in Ids : t # u =>
            /\ Flows(t, l, "B", {}, {}) /\ \A c \in Devices : phase'[c][t] = phase[c][t]
            /\ route'[t] = route[t] /\ sent'[t] = sent[t]
      BY <3>1, <3>2, <3>3
    <3> QED
      BY <1>a, <1>1, <1>2, <3>1, <3>4, <3>5, GoingBut
  <2> QED
    BY <2>1, <2>2, <2>3
<1>7. ASSUME type = "chunk" PROVE GoingSound'
  <2>0. OnChunk(l)
    BY <1>2, <1>7 DEF ReadB
  <2>1. \/ wire' = Took("B", l) /\ UNCHANGED <<phase, route, sent, calm>>
        \/ phase["B"][u] = "receiving" /\ Finish(u, l) /\ UNCHANGED <<route, sent>>
    BY <1>0, <2>0 DEF OnChunk, Ignore, tables, history
  <2> QED
    BY <1>1, <1>2, <1>5, <1>7, <2>1, FinishKeepsGoing
<1>8. ASSUME type = "complete" PROVE GoingSound'
  <2>0. OnComplete(l)
    BY <1>2, <1>8 DEF ReadB
  <2>1. CASE phase["B"][u] # "receiving"
    <3>1. wire' = Took("B", l) /\ UNCHANGED <<phase, route, sent, calm>>
      BY <1>2, <2>0, <2>1 DEF OnComplete, Ignore, tables, history
    <3> QED
      BY <1>5, <1>8, <2>1, <3>1
  <2>2. CASE phase["B"][u] = "receiving" /\ Missing(u)
    <3>1. /\ Close("B", {u}, "failed") /\ wire' = Answer("B", l, <<Frame("refused", u, 0)>>)
          /\ UNCHANGED <<route, sent, calm>>
      BY <1>2, <2>0, <2>2 DEF OnComplete
    <3>2. EndsOnB(u) /\ "refused" \in Verdicts
      BY <1>a, <1>2, <3>1, CloseEndsOnB DEF Verdicts
    <3> QED
      BY <1>1, <1>2, <1>8, <2>2, <3>1, <3>2, EndOnBKeepsGoing
  <2>3. CASE phase["B"][u] = "receiving" /\ ~Missing(u)
    <3>1. Finish(u, l) /\ UNCHANGED <<route, sent>>
      BY <1>2, <2>0, <2>3 DEF OnComplete
    <3> QED
      BY <1>1, <1>2, <1>8, <2>3, <3>1, FinishKeepsGoing
  <2> QED
    BY <2>1, <2>2, <2>3
<1>9. ASSUME type = "cancel" PROVE GoingSound'
  <2>1. /\ CloseOne("B", u, "failed") /\ wire' = Took("B", l)
        /\ UNCHANGED <<route, sent, calm>>
    BY <1>2, <1>9 DEF ReadB, OnCancel, history
  <2>2. \A t \in Ids, c \in Devices : phase'[c][t] = IF c = "B" /\ t = u THEN "none" ELSE phase[c][t]
    <3>1. "failed" \in StatusesOf("B")
      BY DEF StatusesOf
    <3> QED
      BY <1>a, <1>2, <2>1, <3>1, CloseOneEnds
  <2>3. ASSUME u \in calm PROVE Going(u)'
    <3>1. /\ Going(u) /\ Flows(u, l, "B", {"cancel"}, {}) /\ Comes("B", "cancel", u)
          /\ phase'["A"][u] = phase["A"][u] /\ phase'["B"][u] = "none" /\ route'[u] = route[u]
      BY <1>a, <1>2, <1>3, <1>4, <1>9, <2>1, <2>2, <2>3, GoingFacts
    <3> QED
      BY <1>1, <1>2, <3>1, ReceiverIsTold
  <2>4. \A t \in Ids : t # u =>
          /\ Flows(t, l, "B", {}, {}) /\ \A c \in Devices : phase'[c][t] = phase[c][t]
          /\ route'[t] = route[t] /\ sent'[t] = sent[t]
    BY <1>4, <2>1, <2>2
  <2> QED
    BY <1>a, <1>1, <1>2, <2>1, <2>3, <2>4, GoingBut
<1> QED
  BY <1>2, <1>6, <1>7, <1>8, <1>9

LEMMA NextKeepsGoing == Sound /\ CalmSound /\ GoingSound /\ [Next]_vars => GoingSound'
<1> SUFFICES ASSUME Sound, CalmSound, GoingSound, [Next]_vars PROVE GoingSound'
  OBVIOUS
<1>1. CASE User
  BY <1>1, AskKeepsGoing, AnswersKeepGoing DEF User
<1>2. CASE Transfers
  <2>1. StartFull \/ Start \/ StartQueued \/ (\E t \in Ids : SendChunk(t)) \/ (\E l \in Legs : ReadA(l) \/ ReadB(l))
    BY <1>2 DEF Transfers, Read
  <2>2. "A" \in Devices
    BY DEF Devices
  <2> QED
    BY <2>1, <2>2, AskKeepsGoing, StartKeepsGoing, SessionStepsKeepGoing, SendChunkKeepsGoing,
       ReadAKeepsGoing, ReadBKeepsGoing
<1>3. CASE Network
  <2>1. "A" \in Devices
    BY DEF Devices
  <2> QED
    BY <1>3, <2>1, OpenChannelKeepsGoing, BreakKeepsGoing, VerifyKeepsGoing, LegLostKeepsGoing,
       SessionStepsKeepGoing DEF Network
<1>4. CASE UNCHANGED vars
  BY <1>4, AskKeepsGoing
<1> QED
  BY <1>1, <1>2, <1>3, <1>4 DEF Next

-----------------------------------------------------------------------------
(* Nothing hangs: the theorems                                             *)

\* CalmSound, the invariant of GapsNeedLoss, holds of every state.
THEOREM CalmAlwaysSound == Spec => []CalmSound
<1>1. Init => CalmSound
  BY DEF Init, CalmSound, CalmLive, GapNeedsLoss
<1>2. Sound /\ CalmSound /\ [Next]_vars => CalmSound'
  BY NextKeepsCalm
<1> QED
  BY <1>1, <1>2, SoundAlways, PTL DEF Spec

\* While neither device has lost its connection, no transfer waits for a frame
\* that will not come: what one side waits for is on its way, is still to be
\* sent, or goes with a leg whose loss will be noticed (the transfer arms of
\* manager.rs, direct_lost).
THEOREM NothingEverHangs == Spec => []NothingHangs
<1>1. Init => GoingSound
  BY DEF Init, GoingSound
<1>2. Sound /\ CalmSound /\ GoingSound /\ [Next]_vars => GoingSound'
  BY NextKeepsGoing
<1>3. GoingSound => NothingHangs
  BY DEF GoingSound, NothingHangs, Going
<1> QED
  BY <1>1, <1>2, <1>3, SoundAlways, CalmAlwaysSound, PTL DEF Spec

\* Both halves of what is checked of the transfers offered with both devices
\* online: no gap without a lost connection, and nothing hangs.
THEOREM CalmAlwaysHolds == Spec => []CalmHolds
<1>1. GapNeedsLoss /\ NothingHangs => CalmHolds
  BY DEF CalmHolds
<1> QED
  BY <1>1, GapsNeedLoss, NothingEverHangs, PTL

=============================================================================
