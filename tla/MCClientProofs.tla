--------------------------- MODULE MCClientProofs ---------------------------
(* The invariants of the client's parts, as MCClient has them side by side, *)
(* for any users, keys, callers and bounds: the session (PairSession), the   *)
(* codes carried by hand (ManualSession), the keys that are lit (KeyLights), *)
(* and all of them taken together with the direct leg, whose proofs are in   *)
(* PairLegProofs.                                                           *)
EXTENDS MCClient, SequenceTheorems, TLAPS

-----------------------------------------------------------------------------
(* The session: why two are never both current, however commands overlap.  *)

\* Generations are given out once: nobody has one that is still to come, and
\* no two sessions share one.
GivenOnce ==
  /\ generation \in Nat
  /\ number \in [Session!Sessions -> Nat]
  /\ \A s \in Session!Sessions : number[s] <= generation
  /\ \A s, t \in Session!Sessions : number[s] = number[t] /\ number[s] # 0 => s = t

LEMMA InitGivenOnce == Session!Init => GivenOnce
BY DEF Session!Init, GivenOnce

\* Cancelling only makes sessions older; a start takes the next generation in
\* the step that makes it, whatever came between its other accesses.
LEMMA NextGivenOnce ==
  ASSUME GivenOnce, [Session!Next]_(Session!vars)
  PROVE  GivenOnce'
<1>0. CASE UNCHANGED <<generation, number>>
  BY <1>0 DEF GivenOnce
<1>1. ASSUME NEW a \in Session!Actors, Session!Outdate(a) PROVE GivenOnce'
  BY <1>1 DEF Session!Outdate, GivenOnce
<1>2. ASSUME NEW c \in Callers, Session!Renew(c) PROVE GivenOnce'
  <2>1. generation' = generation + 1
        /\ number' = [number EXCEPT ![made[c]] = generation + 1]
    BY <1>2 DEF Session!Renew
  <2>2. number' = [s \in Session!Sessions |-> IF s = made[c] THEN generation + 1 ELSE number[s]]
    BY <2>1 DEF GivenOnce
  <2>3. generation' \in Nat /\ number' \in [Session!Sessions -> Nat]
    <3>1. generation + 1 \in Nat
      BY DEF GivenOnce
    <3>2. \A s \in Session!Sessions : (IF s = made[c] THEN generation + 1 ELSE number[s]) \in Nat
      BY <3>1 DEF GivenOnce
    <3> QED
      BY <2>1, <2>2, <3>1, <3>2
  <2>4. \A s \in Session!Sessions : number'[s] <= generation'
    BY <2>1, <2>2 DEF GivenOnce
  <2>5. ASSUME NEW s \in Session!Sessions, NEW t \in Session!Sessions,
               number'[s] = number'[t], number'[s] # 0
        PROVE  s = t
    <3>1. number[s] \in Nat /\ number[t] \in Nat /\ generation \in Nat
          /\ number[s] <= generation /\ number[t] <= generation
      BY DEF GivenOnce
    <3>2. (s = made[c]) <=> (t = made[c])
      BY <2>2, <2>5, <3>1
    <3>3. CASE s = made[c]
      BY <3>2, <3>3
    <3>4. CASE s # made[c]
      BY <2>2, <2>5, <3>2, <3>4 DEF GivenOnce
    <3> QED
      BY <3>3, <3>4
  <2> QED
    BY <2>3, <2>4, <2>5 DEF GivenOnce
<1>3. ASSUME NEW a \in Session!Actors,
             Session!TakeSender(a) \/ Session!ClearPending(a) \/ Session!TellSession(a)
      PROVE  UNCHANGED <<generation, number>>
  BY <1>3 DEF Session!TakeSender, Session!ClearPending, Session!TellSession, Session!shared
<1>4. ASSUME NEW c \in Callers, Session!Call(c)
      PROVE  UNCHANGED <<generation, number>>
  BY <1>4 DEF Session!Call, Session!Start, Session!Disconnect, Session!SendReplaceable,
              Session!Begin, Session!shared
<1>5. ASSUME NEW c \in Callers,
             \/ Session!Install(c) \/ Session!Spawn(c)
             \/ Session!InsertSnapshot(c) \/ Session!WakeSession(c)
      PROVE  UNCHANGED <<generation, number>>
  BY <1>5 DEF Session!Install, Session!Spawn, Session!InsertSnapshot, Session!WakeSession,
              Session!shared
<1>6. ASSUME NEW s \in Session!Sessions,
             Session!Reads(s) \/ Session!Proceeds(s) \/ Session!Breaks(s)
      PROVE  UNCHANGED <<generation, number>>
  BY <1>6 DEF Session!Reads, Session!ToldToEnd, Session!Flush, Session!Proceeds,
              Session!LoopTop, Session!DialOpens, Session!AfterLoss, Session!BackoffEnds,
              Session!Breaks, Session!ConnectionLost, Session!FailHard, Session!Ended,
              Session!Local, Session!shared
<1> QED
  BY <1>0, <1>1, <1>2, <1>3, <1>4, <1>5, <1>6 DEF Session!Next, Session!Access,
                                                  Session!Command, Session!vars,
                                                  Session!shared

\* However starts, disconnections and fatal errors overlap, at most one session
\* is current (start, cancel_current, fail_hard and the generation checks of
\* run_session in manager.rs).
THEOREM NeverTwoCurrent == Session!Spec => []Session!OneCurrent
<1>1. Session!Init => GivenOnce
  BY InitGivenOnce
<1>2. GivenOnce /\ [Session!Next]_(Session!vars) => GivenOnce'
  BY NextGivenOnce
<1>3. GivenOnce => Session!OneCurrent
  BY DEF GivenOnce, Session!OneCurrent
<1> QED
  BY <1>1, <1>2, <1>3, PTL DEF Session!Spec

-----------------------------------------------------------------------------
(* Type correctness: nobody names a session that has not been started, nor  *)
(* has a generation that is still to come.                                  *)

SessionTypes == sessions \in Nat /\ Session!TypeOK

LEMMA InitSessionTypes == Session!Init => SessionTypes
BY DEF Session!Init, SessionTypes, Session!TypeOK, Session!Actors

\* Only a start makes a session, and only it and a cancellation raise the
\* generation; what is handed on has been there before.
LEMMA NextSessionTypes ==
  ASSUME SessionTypes, [Session!Next]_(Session!vars)
  PROVE  SessionTypes'
<1> USE DEF SessionTypes, Session!TypeOK
<1>0. CASE UNCHANGED <<sender, generation, sessions, number, made, held>>
  BY <1>0
<1>1. ASSUME NEW a \in Session!Actors, Session!TakeSender(a) PROVE SessionTypes'
  BY <1>1 DEF Session!TakeSender
<1>2. ASSUME NEW a \in Session!Actors, Session!TellSession(a) PROVE SessionTypes'
  BY <1>2 DEF Session!TellSession, Session!shared
<1>3. ASSUME NEW a \in Session!Actors, Session!Outdate(a) PROVE SessionTypes'
  <2>1. number \in [Session!Sessions -> 0 .. generation + 1]
    OBVIOUS
  <2> QED
    BY <1>3, <2>1 DEF Session!Outdate
<1>4. ASSUME NEW c \in Callers, Session!Install(c) PROVE SessionTypes'
  <2>1. /\ sessions' = sessions + 1 /\ sender' = sessions + 1
        /\ held' = [held EXCEPT ![c] = 0] /\ made' = [made EXCEPT ![c] = sessions + 1]
        /\ generation' = generation /\ number' = number
    BY <1>4 DEF Session!Install
  <2>2. 0 .. sessions \subseteq 0 .. sessions + 1 /\ 0 \in 0 .. sessions + 1
        /\ sessions + 1 \in 0 .. sessions + 1
    OBVIOUS
  <2>3. made' \in [Callers -> 0 .. sessions + 1]
    BY <2>1, <2>2
  <2>4. held' \in [Session!Actors -> 0 .. sessions + 1]
    BY <2>1, <2>2
  <2> QED
    BY <2>1, <2>2, <2>3, <2>4
<1>5. ASSUME NEW c \in Callers, Session!Renew(c) PROVE SessionTypes'
  <2>1. /\ generation' = generation + 1
        /\ number' = [number EXCEPT ![made[c]] = generation + 1]
        /\ sender' = sender /\ sessions' = sessions /\ made' = made /\ held' = held
    BY <1>5 DEF Session!Renew
  <2>2. /\ number \in [Session!Sessions -> 0 .. generation + 1]
        /\ generation + 1 \in 0 .. generation + 1
    OBVIOUS
  <2>3. number' \in [Session!Sessions -> 0 .. generation + 1]
    BY <2>1, <2>2
  <2> QED
    BY <2>1, <2>3
<1>6. ASSUME NEW c \in Callers, Session!Spawn(c) PROVE SessionTypes'
  BY <1>6 DEF Session!Spawn, Session!shared
<1>7. ASSUME NEW c \in Callers, Session!InsertSnapshot(c) PROVE SessionTypes'
  <2>1. /\ held' = [held EXCEPT ![c] = IF queued THEN 0 ELSE held[c]]
        /\ sender' = sender /\ generation' = generation
        /\ sessions' = sessions /\ number' = number /\ made' = made
    BY <1>7 DEF Session!InsertSnapshot
  <2>2. (IF queued THEN 0 ELSE held[c]) \in 0 .. sessions
    BY DEF Session!Actors
  <2>3. held' \in [Session!Actors -> 0 .. sessions]
    BY <2>1, <2>2
  <2> QED
    BY <2>1, <2>3
<1>8. ASSUME NEW c \in Callers, Session!WakeSession(c) PROVE SessionTypes'
  <2>1. /\ held' = [held EXCEPT ![c] = 0] /\ sender' = sender /\ generation' = generation
        /\ sessions' = sessions /\ number' = number /\ made' = made
    BY <1>8 DEF Session!WakeSession
  <2>2. 0 \in 0 .. sessions
    OBVIOUS
  <2>3. held' \in [Session!Actors -> 0 .. sessions]
    BY <2>1, <2>2
  <2> QED
    BY <2>1, <2>3
<1>9. ASSUME NEW c \in Callers, Session!Call(c) PROVE SessionTypes'
  BY <1>9 DEF Session!Call, Session!Start, Session!Disconnect, Session!SendReplaceable,
              Session!Begin, Session!shared
<1>10. ASSUME NEW a \in Session!Actors, Session!ClearPending(a)
       PROVE  UNCHANGED <<sender, generation, sessions, number, made, held>>
  BY <1>10 DEF Session!ClearPending
<1>11. ASSUME NEW s \in Session!Sessions,
             Session!Reads(s) \/ Session!Proceeds(s) \/ Session!Breaks(s)
       PROVE  UNCHANGED <<sender, generation, sessions, number, made, held>>
  BY <1>11 DEF Session!Reads, Session!ToldToEnd, Session!Flush, Session!Proceeds,
               Session!LoopTop, Session!DialOpens, Session!AfterLoss, Session!BackoffEnds,
               Session!Breaks, Session!ConnectionLost, Session!FailHard, Session!Ended,
               Session!Local, Session!shared
<1> QED
  BY <1>0, <1>1, <1>2, <1>3, <1>4, <1>5, <1>6, <1>7, <1>8, <1>9, <1>10, <1>11
     DEF Session!Next, Session!Access, Session!Command, Session!vars, Session!shared

\* Senders, clones of them and numbers are those of sessions that were started
\* and of generations that were reached, for any callers and bounds (start,
\* cancel_current and send_replaceable in manager.rs).
THEOREM SessionTypeCorrect == Session!Spec => []Session!TypeOK
<1>1. Session!Init => SessionTypes
  BY InitSessionTypes
<1>2. SessionTypes /\ [Session!Next]_(Session!vars) => SessionTypes'
  BY NextSessionTypes
<1>3. SessionTypes => Session!TypeOK
  BY DEF SessionTypes
<1> QED
  BY <1>1, <1>2, <1>3, PTL DEF Session!Spec

-----------------------------------------------------------------------------
(* Codes carried by hand                                                    *)

Phases == {"none", "gathering", "offer", "answer", "joining", "connected", "failed"}
Ices == {"none", "gathering", "waiting", "checking", "up", "down"}
Codes == [kind : {"offer", "answer"}, by : Manual!Users, sid : Nat, nr : Nat]

ManualTypes ==
  /\ phase \in [Manual!Users -> Phases] /\ ice \in [Manual!Users -> Ices]
  /\ role \in [Manual!Users -> {"none", "host", "guest"}]
  /\ sid \in [Manual!Users -> Nat] /\ nr \in [Manual!Users -> Nat]
  /\ told \in [Manual!Users -> BOOLEAN]
  /\ texts \subseteq Codes /\ left \subseteq texts
  /\ spawned \in Nat

\* A code says what its author is, a leg that gathers belongs to a session, and
\* the panel shows what the leg does.
Roles ==
  \A d \in Manual!Users :
    /\ phase[d] = "answer" => role[d] = "guest"
    /\ phase[d] \in {"offer", "joining"} => role[d] = "host"
    /\ ice[d] = "gathering" => role[d] \in {"host", "guest"}
    /\ phase[d] = "gathering" => ice[d] = "gathering" /\ ~told[d]
    /\ phase[d] = "offer" => ice[d] = "waiting"
    /\ phase[d] \in {"answer", "joining"} => ice[d] = "checking"
    /\ phase[d] = "connected" <=> ice[d] = "up"

\* The offers of the device with the smaller id that still count: there is one
\* at most, it is that of the session the device hosts, and it has been told.
Counts(code) == code \in texts \ left /\ code.kind = "offer" /\ code.by = Low
OfferIsOwn ==
  \A code \in Codes : Counts(code) =>
    /\ code = Manual!Own(Low) /\ role[Low] = "host" /\ told[Low]
    /\ phase[Low] \in {"offer", "joining", "connected"}

ManualSound == ManualTypes /\ Roles /\ OfferIsOwn

LEMMA InitManual == Manual!ManualAssumption /\ Manual!Init => ManualSound
BY DEF Manual!ManualAssumption, Manual!Init, ManualSound, ManualTypes, Roles, OfferIsOwn, Counts,
       Phases, Ices

\* Who gives a session up takes the offer of it back.
LEMMA GivenUpCountsNot ==
  ASSUME ManualSound, Manual!GivesUp(Low), texts' = texts
  PROVE  OfferIsOwn' /\ left' \subseteq texts'
<1>1. ASSUME NEW code \in Codes, Counts(code)' PROVE FALSE
  <2>1. Counts(code)
    BY <1>1 DEF Counts, Manual!GivesUp
  <2>2. code = Manual!Own(Low) /\ code \in texts
    BY <2>1 DEF ManualSound, OfferIsOwn, Counts
  <2>3. code \in left'
    BY <2>2 DEF Manual!GivesUp
  <2> QED
    BY <1>1, <2>3 DEF Counts
<1>2. left' \subseteq texts'
  BY DEF ManualSound, ManualTypes, Manual!GivesUp
<1> QED
  BY <1>1, <1>2 DEF OfferIsOwn

\* What the other device does leaves the offer as it is.
LEMMA OthersOfferStays ==
  ASSUME ManualSound,
         role'[Low] = role[Low], told'[Low] = told[Low], phase'[Low] = phase[Low],
         sid'[Low] = sid[Low], nr'[Low] = nr[Low],
         \A code \in Codes : Counts(code)' => Counts(code)
  PROVE  OfferIsOwn'
BY DEF ManualSound, OfferIsOwn, Manual!Own, Manual!Code

LEMMA UserIsOther ==
  ASSUME Manual!ManualAssumption, NEW d \in Manual!Users, d # Low
  PROVE  d = High /\ Low \in Manual!Users
BY DEF Manual!Users

\* A new session gathers, with the role and the number it is given.
LEMMA SpawnKeepsTypes ==
  ASSUME ManualSound, NEW d \in Manual!Users, NEW r \in {"host", "guest"}, NEW s \in Nat, NEW x,
         Manual!SpawnManual(d, r, s, x), left' \subseteq texts'
  PROVE  ManualTypes' /\ Roles'
<1>t. ManualTypes /\ Roles
  BY DEF ManualSound
<1>1. /\ spawned' = spawned + 1 /\ UNCHANGED texts
      /\ phase' = [phase EXCEPT ![d] = "gathering"] /\ role' = [role EXCEPT ![d] = r]
      /\ nr' = [nr EXCEPT ![d] = spawned']
      /\ sid' = [sid EXCEPT ![d] = IF r = "host" THEN spawned' ELSE s]
      /\ ice' = [ice EXCEPT ![d] = "gathering"] /\ told' = [told EXCEPT ![d] = FALSE]
  BY DEF Manual!SpawnManual
<1>2. spawned' \in Nat /\ (IF r = "host" THEN spawned' ELSE s) \in Nat
  BY <1>t, <1>1 DEF ManualTypes
<1>3. sid' \in [Manual!Users -> Nat] /\ nr' \in [Manual!Users -> Nat]
  BY <1>t, <1>1, <1>2 DEF ManualTypes
<1>4. phase' \in [Manual!Users -> Phases] /\ ice' \in [Manual!Users -> Ices]
      /\ role' \in [Manual!Users -> {"none", "host", "guest"}]
      /\ told' \in [Manual!Users -> BOOLEAN]
  BY <1>t, <1>1 DEF ManualTypes, Phases, Ices
<1>5. ManualTypes'
  BY <1>t, <1>1, <1>2, <1>3, <1>4 DEF ManualTypes
<1>6. Roles'
  BY <1>t, <1>1 DEF ManualTypes, Roles
<1> QED
  BY <1>5, <1>6

LEMMA SpawnLeavesOther ==
  ASSUME ManualSound, NEW d, d # Low, Low \in Manual!Users, NEW r, NEW s, NEW x,
         Manual!SpawnManual(d, r, s, x), left \subseteq left'
  PROVE  OfferIsOwn'
<1>1. /\ role'[Low] = role[Low] /\ told'[Low] = told[Low] /\ phase'[Low] = phase[Low]
      /\ sid'[Low] = sid[Low] /\ nr'[Low] = nr[Low] /\ texts' = texts
  BY DEF Manual!SpawnManual, ManualSound, ManualTypes
<1>2. \A code \in Codes : Counts(code)' => Counts(code)
  BY <1>1 DEF Counts
<1> QED
  BY <1>1, <1>2, OthersOfferStays

LEMMA HostKeepsSound ==
  ASSUME Manual!ManualAssumption, ManualSound, NEW d \in Manual!Users, Manual!StartManualOffer(d)
  PROVE  ManualSound'
<1>1. Manual!SpawnManual(d, "host", 0, 0) /\ Manual!GivesUp(d)
  BY DEF Manual!StartManualOffer
<1>2. texts' = texts /\ left \subseteq left' /\ left' \subseteq texts'
  BY <1>1 DEF Manual!SpawnManual, Manual!GivesUp, ManualSound, ManualTypes
<1>3. ManualTypes' /\ Roles'
  BY <1>1, <1>2, SpawnKeepsTypes
<1>4. OfferIsOwn'
  <2>1. CASE d = Low
    BY <1>1, <1>2, <2>1, GivenUpCountsNot
  <2>2. CASE d # Low
    BY <1>1, <1>2, <2>2, UserIsOther, SpawnLeavesOther
  <2> QED
    BY <2>1, <2>2
<1> QED
  BY <1>3, <1>4 DEF ManualSound

\* Who becomes the guest: the device with the smaller id only when no offer of
\* its own counts any more.
LEMMA GuestKeepsSound ==
  ASSUME Manual!ManualAssumption, ManualSound, NEW d \in Manual!Users, NEW code \in texts,
         Manual!JoinManual(d, code)
  PROVE  ManualSound'
<1>1. /\ Manual!ValidOffer(d, code) /\ UNCHANGED left
      /\ Manual!SpawnManual(d, "guest", code.sid, code.nr)
  BY DEF Manual!JoinManual
<1>2. code \in Codes /\ code.sid \in Nat /\ left' \subseteq texts' /\ texts' = texts
  BY <1>1 DEF Manual!SpawnManual, ManualSound, ManualTypes, Codes
<1>3. ManualTypes' /\ Roles'
  BY <1>1, <1>2, SpawnKeepsTypes
<1>4. OfferIsOwn'
  <2>1. CASE d = Low
    <3>1. ASSUME NEW c \in Codes, Counts(c)' PROVE FALSE
      <4>1. Counts(c)
        BY <1>1, <1>2, <3>1 DEF Counts
      <4>2. c = Manual!Own(Low) /\ role[Low] = "host" /\ c \in texts
            /\ phase[Low] \in {"offer", "joining", "connected"}
        BY <4>1 DEF ManualSound, OfferIsOwn, Counts
      <4>3. phase[Low] = "offer"
        BY <1>1, <2>1, <4>2 DEF Manual!ValidOffer
      <4> QED
        BY <1>1, <2>1, <4>2, <4>3 DEF Manual!ValidOffer, Manual!Hosting
    <3> QED
      BY <3>1 DEF OfferIsOwn
  <2>2. CASE d # Low
    BY <1>1, <2>2, UserIsOther, SpawnLeavesOther
  <2> QED
    BY <2>1, <2>2
<1> QED
  BY <1>3, <1>4 DEF ManualSound

LEMMA DisconnectKeepsSound ==
  ASSUME Manual!ManualAssumption, ManualSound, NEW d \in Manual!Users, Manual!Disconnect(d)
  PROVE  ManualSound'
<1>t. ManualTypes /\ Roles
  BY DEF ManualSound
<1>1. /\ phase' = [phase EXCEPT ![d] = "none"] /\ ice' = [ice EXCEPT ![d] = "none"]
      /\ sid' = [sid EXCEPT ![d] = 0] /\ nr' = [nr EXCEPT ![d] = 0]
      /\ role' = [role EXCEPT ![d] = "none"] /\ told' = [told EXCEPT ![d] = FALSE]
      /\ Manual!GivesUp(d) /\ UNCHANGED <<texts, spawned>>
  BY DEF Manual!Disconnect
<1>2. texts' = texts /\ left \subseteq left' /\ left' \subseteq texts'
  BY <1>1 DEF Manual!GivesUp, ManualSound, ManualTypes
<1>3. sid' \in [Manual!Users -> Nat] /\ nr' \in [Manual!Users -> Nat]
  BY <1>t, <1>1 DEF ManualTypes
<1>4. phase' \in [Manual!Users -> Phases] /\ ice' \in [Manual!Users -> Ices]
      /\ role' \in [Manual!Users -> {"none", "host", "guest"}]
      /\ told' \in [Manual!Users -> BOOLEAN]
  BY <1>t, <1>1 DEF ManualTypes, Phases, Ices
<1>5. ManualTypes' /\ Roles'
  BY <1>t, <1>1, <1>2, <1>3, <1>4 DEF ManualTypes, Roles
<1>6. OfferIsOwn'
  <2>1. CASE d = Low
    BY <1>1, <1>2, <2>1, GivenUpCountsNot
  <2>2. CASE d # Low
    <3>1. /\ role'[Low] = role[Low] /\ told'[Low] = told[Low] /\ phase'[Low] = phase[Low]
          /\ sid'[Low] = sid[Low] /\ nr'[Low] = nr[Low]
      BY <1>t, <1>1, <2>2, UserIsOther DEF ManualTypes
    <3>2. \A code \in Codes : Counts(code)' => Counts(code)
      BY <1>2 DEF Counts
    <3> QED
      BY <3>1, <3>2, OthersOfferStays
  <2> QED
    BY <2>1, <2>2
<1> QED
  BY <1>5, <1>6 DEF ManualSound

LEMMA AnswerKeepsSound ==
  ASSUME Manual!ManualAssumption, ManualSound, NEW d \in Manual!Users, NEW code \in texts,
         Manual!ApplyManualAnswer(d, code)
  PROVE  ManualSound'
<1>t. ManualTypes /\ Roles /\ OfferIsOwn
  BY DEF ManualSound
<1>1. /\ phase[d] = "offer" /\ phase' = [phase EXCEPT ![d] = "joining"]
      /\ UNCHANGED <<role, sid, nr, told, texts, left, spawned>>
      /\ ice' = [ice EXCEPT ![d] = "checking"] \/ ice' = ice
  BY DEF Manual!ApplyManualAnswer, Manual!Expects
<1>2. phase' \in [Manual!Users -> Phases] /\ ice' \in [Manual!Users -> Ices]
  BY <1>t, <1>1 DEF ManualTypes, Phases, Ices
<1>3. ManualTypes'
  BY <1>t, <1>1, <1>2 DEF ManualTypes
<1>4. Roles'
  <2>1. ice' = [ice EXCEPT ![d] = "checking"]
    BY <1>t, <1>1 DEF Roles, Manual!ApplyManualAnswer
  <2> QED
    BY <1>t, <1>1, <2>1 DEF ManualTypes, Roles
<1>5. OfferIsOwn'
  <2>1. Low \in Manual!Users
    BY DEF Manual!Users
  <2>2. phase'[Low] = phase[Low] \/ phase'[Low] = "joining"
    BY <1>t, <1>1, <2>1 DEF ManualTypes
  <2> QED
    BY <1>t, <1>1, <2>2 DEF OfferIsOwn, Counts, Manual!Own, Manual!Code
<1> QED
  BY <1>3, <1>4, <1>5 DEF ManualSound

\* The code is told once: before that no offer of this session counts.
LEMMA CodeWaitKeepsSound ==
  ASSUME Manual!ManualAssumption, ManualSound, NEW d \in Manual!Users, Manual!CodeWait(d)
  PROVE  ManualSound'
<1>t. ManualTypes /\ Roles /\ OfferIsOwn
  BY DEF ManualSound
<1>1. /\ ice[d] = "gathering" /\ ~told[d] /\ told' = [told EXCEPT ![d] = TRUE]
      /\ ice' = [ice EXCEPT ![d] = IF role[d] = "host" THEN "waiting" ELSE "checking"]
      /\ UNCHANGED <<role, sid, nr, spawned>>
  BY DEF Manual!CodeWait
<1>2. ice' \in [Manual!Users -> Ices] /\ told' \in [Manual!Users -> BOOLEAN]
  BY <1>t, <1>1 DEF ManualTypes, Ices
<1>3. role[d] \in {"host", "guest"}
  BY <1>t, <1>1 DEF Roles
<1>4. \A e \in Manual!Users : ice'[e] = "gathering" => ice[e] = "gathering"
  BY <1>t, <1>1 DEF ManualTypes
<1>5. CASE Manual!NoCandidates(d)
  <2>1. phase' = [phase EXCEPT ![d] = "failed"] /\ UNCHANGED <<texts, left>>
    BY <1>5 DEF Manual!NoCandidates
  <2>2. phase' \in [Manual!Users -> Phases]
    BY <1>t, <2>1 DEF ManualTypes, Phases
  <2>3. ManualTypes'
    BY <1>t, <1>1, <1>2, <2>1, <2>2 DEF ManualTypes
  <2>4. Roles'
    BY <1>t, <1>1, <1>4, <2>1 DEF ManualTypes, Roles
  <2>5. ASSUME NEW c \in Codes, Counts(c)'
        PROVE  /\ c = Manual!Own(Low)' /\ role'[Low] = "host" /\ told'[Low]
               /\ phase'[Low] \in {"offer", "joining", "connected"}
    <3>1. Counts(c)
      BY <2>1, <2>5 DEF Counts
    <3>2. /\ c = Manual!Own(Low) /\ role[Low] = "host" /\ told[Low]
          /\ phase[Low] \in {"offer", "joining", "connected"}
      BY <1>t, <3>1 DEF OfferIsOwn
    <3>3. d # Low
      BY <1>1, <3>2
    <3>4. told'[Low] = told[Low] /\ phase'[Low] = phase[Low]
      BY <1>t, <1>1, <2>1, <3>3, UserIsOther DEF ManualTypes
    <3> QED
      BY <1>1, <3>2, <3>4 DEF Manual!Own, Manual!Code
  <2> QED
    BY <2>3, <2>4, <2>5 DEF ManualSound, OfferIsOwn
<1>6. CASE Manual!PublishCode(d)
  <2> DEFINE kind == IF role[d] = "host" THEN "offer" ELSE "answer"
             new == Manual!Code(kind, d)
  <2>1. phase' = [phase EXCEPT ![d] = kind] /\ texts' = texts \cup {new} /\ left' = left
    BY <1>6 DEF Manual!PublishCode
  <2>2. kind \in {"offer", "answer"} /\ kind \in Phases
    BY DEF Phases
  <2>3. new \in Codes /\ new.kind = kind /\ new.by = d
    BY <1>t, <2>2 DEF Manual!Code, Codes, ManualTypes
  <2>4. phase' \in [Manual!Users -> Phases]
    BY <1>t, <2>1, <2>2 DEF ManualTypes
  <2>5. ManualTypes'
    <3> HIDE DEF new, kind
    <3> QED
      BY <1>t, <1>1, <1>2, <2>1, <2>3, <2>4 DEF ManualTypes
  <2>6. Roles'
    BY <1>t, <1>1, <1>3, <1>4, <2>1 DEF ManualTypes, Roles
  <2>7. ASSUME NEW c \in Codes, Counts(c)'
        PROVE  /\ c = Manual!Own(Low)' /\ role'[Low] = "host" /\ told'[Low]
               /\ phase'[Low] \in {"offer", "joining", "connected"}
    <3>1. CASE Counts(c)
      <4>1. /\ c = Manual!Own(Low) /\ role[Low] = "host" /\ told[Low]
            /\ phase[Low] \in {"offer", "joining", "connected"}
        BY <1>t, <3>1 DEF OfferIsOwn
      <4>2. d # Low
        BY <1>1, <4>1
      <4>3. told'[Low] = told[Low] /\ phase'[Low] = phase[Low]
        BY <1>t, <1>1, <2>1, <4>2, UserIsOther DEF ManualTypes
      <4> QED
        BY <1>1, <4>1, <4>3 DEF Manual!Own, Manual!Code
    <3>2. CASE ~Counts(c)
      <4>1. c = new /\ c.kind = "offer" /\ c.by = Low
        BY <2>1, <2>7, <3>2 DEF Counts
      <4>2. d = Low /\ kind = "offer"
        BY <2>3, <4>1
      <4>3. role[Low] = "host" /\ phase'[Low] = "offer" /\ told'[Low]
        BY <1>t, <1>1, <2>1, <4>2 DEF ManualTypes
      <4>4. new = Manual!Own(Low)'
        BY <1>1, <4>2 DEF Manual!Own, Manual!Code
      <4> QED
        BY <1>1, <4>1, <4>3, <4>4
    <3> QED
      BY <3>1, <3>2
  <2> QED
    BY <2>5, <2>6, <2>7 DEF ManualSound, OfferIsOwn
<1> QED
  BY <1>5, <1>6 DEF Manual!CodeWait

LEMMA DownKeepsSound ==
  ASSUME Manual!ManualAssumption, ManualSound, NEW d \in Manual!Users, Manual!Down(d)
  PROVE  ManualSound'
<1>t. ManualTypes /\ Roles
  BY DEF ManualSound
<1>1. /\ ice' = [ice EXCEPT ![d] = "down"] /\ phase' = [phase EXCEPT ![d] = "failed"]
      /\ Manual!GivesUp(d) /\ UNCHANGED <<role, sid, nr, told, texts, spawned>>
  BY DEF Manual!Down
<1>2. texts' = texts /\ left \subseteq left' /\ left' \subseteq texts'
  BY <1>1 DEF Manual!GivesUp, ManualSound, ManualTypes
<1>3. phase' \in [Manual!Users -> Phases] /\ ice' \in [Manual!Users -> Ices]
  BY <1>t, <1>1 DEF ManualTypes, Phases, Ices
<1>4. ManualTypes' /\ Roles'
  BY <1>t, <1>1, <1>2, <1>3 DEF ManualTypes, Roles
<1>5. OfferIsOwn'
  <2>1. CASE d = Low
    BY <1>1, <1>2, <2>1, GivenUpCountsNot
  <2>2. CASE d # Low
    <3>1. /\ role'[Low] = role[Low] /\ told'[Low] = told[Low] /\ phase'[Low] = phase[Low]
          /\ sid'[Low] = sid[Low] /\ nr'[Low] = nr[Low]
      BY <1>t, <1>1, <2>2, UserIsOther DEF ManualTypes
    <3>2. \A code \in Codes : Counts(code)' => Counts(code)
      BY <1>2 DEF Counts
    <3> QED
      BY <3>1, <3>2, OthersOfferStays
  <2> QED
    BY <2>1, <2>2
<1> QED
  BY <1>4, <1>5 DEF ManualSound

LEMMA UpKeepsSound ==
  ASSUME ManualSound, Manual!Up
  PROVE  ManualSound'
<1>t. ManualTypes /\ Roles /\ OfferIsOwn
  BY DEF ManualSound
<1>1. /\ ice' = [d \in Manual!Users |-> "up"] /\ phase' = [d \in Manual!Users |-> "connected"]
      /\ UNCHANGED <<role, sid, nr, told, texts, left, spawned>>
  BY DEF Manual!Up
<1>2. ManualTypes' /\ Roles'
  BY <1>t, <1>1 DEF ManualTypes, Roles, Phases, Ices
<1>3. phase'[Low] = "connected"
  BY <1>1 DEF Manual!Users
<1>4. OfferIsOwn'
  BY <1>t, <1>1, <1>3 DEF OfferIsOwn, Counts, Manual!Own, Manual!Code
<1> QED
  BY <1>2, <1>4 DEF ManualSound

LEMMA ExpireKeepsSound ==
  ASSUME ManualSound, Manual!Expire
  PROVE  ManualSound'
<1>t. ManualTypes /\ Roles /\ OfferIsOwn
  BY DEF ManualSound
<1>1. PICK code \in texts : /\ texts' = texts \ {code} /\ left' = left \ {code}
                            /\ UNCHANGED <<phase, role, sid, nr, ice, told, spawned>>
  BY DEF Manual!Expire, Manual!personal
<1>2. ManualTypes' /\ Roles'
  BY <1>t, <1>1 DEF ManualTypes, Roles
<1>3. \A c \in Codes : Counts(c)' => Counts(c)
  BY <1>1 DEF Counts
<1>4. OfferIsOwn'
  BY <1>1, <1>3, OthersOfferStays
<1> QED
  BY <1>2, <1>4 DEF ManualSound

LEMMA ManualKeepsSound ==
  ASSUME Manual!ManualAssumption, ManualSound, [Manual!Next]_(Manual!vars)
  PROVE  ManualSound'
<1>0. CASE UNCHANGED Manual!vars
  BY <1>0 DEF Manual!vars, Manual!personal, ManualSound, ManualTypes, Roles, OfferIsOwn, Counts,
              Manual!Own, Manual!Code
<1>1. ASSUME NEW d \in Manual!Users, Manual!Command(d) PROVE ManualSound'
  BY <1>1, HostKeepsSound, GuestKeepsSound, DisconnectKeepsSound, AnswerKeepsSound
     DEF Manual!Command, Manual!PasteManual
<1>2. ASSUME NEW d \in Manual!Users, Manual!Leg(d) PROVE ManualSound'
  BY <1>2, CodeWaitKeepsSound, DownKeepsSound
     DEF Manual!Leg, Manual!NotBuilt, Manual!Fails, Manual!Breaks
<1> QED
  BY <1>0, <1>1, <1>2, UpKeepsSound, ExpireKeepsSound DEF Manual!Next

LEMMA ManualSoundShows ==
  ASSUME Manual!ManualAssumption, ManualSound
  PROVE  Manual!TypeOK /\ Manual!NotBothGuests
<1>1. Manual!TypeOK
  BY DEF ManualSound, ManualTypes, Roles, Manual!TypeOK, Phases, Ices
<1>2. Low \in Manual!Users
  BY DEF Manual!Users
<1>3. ASSUME Manual!Waits(Low), NEW code \in texts, code.kind = "offer", code.by = Low
      PROVE  code \in left
  <2>1. code \in Codes
    BY DEF ManualSound, ManualTypes
  <2>2. role[Low] # "host"
    BY <1>3 DEF Manual!Waits
  <2> QED
    BY <1>3, <2>1, <2>2 DEF ManualSound, OfferIsOwn, Counts
<1>4. Manual!NotBothGuests
  BY <1>2, <1>3 DEF Manual!NotBothGuests
<1> QED
  BY <1>1, <1>4

-----------------------------------------------------------------------------
(* The keys that are lit                                                    *)

Probes == {"none", "asked", "down", "up"}
KeyEvents == [key : Keys, pressed : BOOLEAN]

LightsTypes ==
  /\ down \subseteq Keys /\ sure \subseteq down
  /\ pending \in Seq(KeyEvents)
  /\ timer \in [Keys -> 0 .. Lights!Off] /\ age \in [Keys -> 0 .. Lights!Off]
  /\ probe \in [Keys -> Probes] /\ waited \in [Keys -> Nat]
  /\ fresh \in [Keys -> BOOLEAN]
  /\ lit \in Seq(Keys)

ShownIsLast == IF lit = <<>> THEN shown = Lights!None ELSE shown = lit[Len(lit)]

\* Why a key that is down is not taken for released.  Either its timer runs,
\* and its age is what the timer has run; or the question of this round is out,
\* for one tick at most, and the system will say that it is down.  An answer
\* that says otherwise belongs to an earlier round.
TimerRuns(k) ==
  /\ timer[k] \in 0 .. Lights!ReArm
  /\ age[k] # Lights!Off => age[k] + timer[k] <= Lights!ReArm
IsAsked(k) ==
  /\ timer[k] = Lights!Off /\ fresh[k] /\ probe[k] \in {"asked", "down"} /\ waited[k] \in 0 .. 1
  /\ age[k] # Lights!Off => age[k] <= Lights!ReArm + waited[k]
Watched(k) ==
  /\ Lights!IsLit(k)
  /\ probe[k] = "up" => ~fresh[k]
  /\ TimerRuns(k) \/ IsAsked(k)

LightsSound == LightsTypes /\ ShownIsLast /\ \A k \in sure : Watched(k)

LEMMA Limits ==
  ASSUME Lights!KeyAssumption
  PROVE  /\ Lights!ReArm \in Nat /\ Delay \in 1 .. Lights!ReArm
         /\ Lights!HoldLimit = Lights!ReArm + 2 /\ Lights!Old = Lights!ReArm + 3
         /\ Lights!Off = Lights!ReArm + 4
<1>1. Delay \in Nat \ {0}
  BY DEF Lights!KeyAssumption
<1>2. /\ Lights!ReArm = (IF Delay > 2 THEN Delay ELSE 2)
      /\ Lights!HoldLimit = (IF Delay > 2 THEN Delay ELSE 2) + 2
      /\ Lights!Old = Lights!HoldLimit + 1 /\ Lights!Off = Lights!HoldLimit + 2
  BY DEF Lights!ReArm, Lights!HoldLimit, Lights!Old, Lights!Off, Lights!Greater,
         Lights!TicksPerSecond
<1>3. Lights!ReArm \in Nat /\ Delay \in 1 .. Lights!ReArm
  BY <1>1, <1>2
<1> QED
  BY <1>2, <1>3

LEMMA InitLights == Lights!KeyAssumption /\ Lights!Init => LightsSound
<1> SUFFICES ASSUME Lights!KeyAssumption, Lights!Init PROVE LightsSound
  OBVIOUS
<1>1. Lights!Off \in 0 .. Lights!Off
  BY Limits
<1>2. LightsTypes
  BY <1>1 DEF Lights!Init, LightsTypes, Probes
<1>3. ShownIsLast /\ sure = {}
  BY DEF Lights!Init, ShownIsLast
<1> QED
  BY <1>2, <1>3 DEF LightsSound

\* Deleting a key takes nothing else away, and keeps what is at the end.
LEMMA WithoutKeepsOthers ==
  ASSUME lit \in Seq(Keys), NEW k
  PROVE  /\ Lights!Without(k) \in Seq(Keys)
         /\ \A j : Lights!IsLit(j) /\ j # k => \E i \in DOMAIN Lights!Without(k) : Lights!Without(k)[i] = j
         /\ lit # <<>> /\ lit[Len(lit)] # k =>
              /\ Lights!Without(k) # <<>>
              /\ Lights!Without(k)[Len(Lights!Without(k))] = lit[Len(lit)]
         /\ Lights!IsLit(k) => \E p \in DOMAIN lit :
              /\ lit[p] = k /\ DOMAIN Lights!Without(k) = 1 .. Len(lit) - 1
              /\ \A i \in 1 .. Len(lit) - 1 :
                   Lights!Without(k)[i] = IF i < p THEN lit[i] ELSE lit[i + 1]
<1> DEFINE n == Len(lit)
           p == Lights!Place(k)
           a == SubSeq(lit, 1, p - 1)
           b == SubSeq(lit, p + 1, n)
           rest == a \o b
<1>n. n \in Nat /\ DOMAIN lit = 1 .. n /\ (lit # <<>> => n > 0)
  OBVIOUS
<1>l. \A j : Lights!IsLit(j) <=> \E i \in 1 .. n : lit[i] = j
  BY <1>n DEF Lights!IsLit, Lights!ToSet
<1>1. CASE ~Lights!IsLit(k)
  <2>1. Lights!Without(k) = lit
    BY <1>1 DEF Lights!Without
  <2> QED
    BY <1>1, <1>l, <1>n, <2>1
<1>2. CASE Lights!IsLit(k)
  <2>1. p \in 1 .. n /\ lit[p] = k
    BY <1>2, <1>l, <1>n DEF Lights!Place
  <2>2. Lights!Without(k) = rest
    BY <1>2 DEF Lights!Without, Lights!RemoveAt
  <2> HIDE DEF p
  <2>3. /\ a \in Seq(Keys) /\ Len(a) = p - 1
        /\ \A i \in 1 .. p - 1 : a[i] = lit[i]
    <3>1. \A i \in 1 .. p - 1 : lit[i] \in Keys
      BY <1>n, <2>1
    <3>2. 1 \in Int /\ p - 1 \in Int
      BY <1>n, <2>1
    <3>3. /\ a \in Seq(Keys)
          /\ Len(a) = IF 1 <= p - 1 THEN p - 1 - 1 + 1 ELSE 0
          /\ \A i \in 1 .. p - 1 - 1 + 1 : a[i] = lit[1 + i - 1]
      BY <3>1, <3>2, SubSeqProperties
    <3> HIDE DEF a
    <3> QED
      BY <1>n, <2>1, <3>3
  <2>4. /\ b \in Seq(Keys) /\ Len(b) = n - p
        /\ \A i \in 1 .. n - p : b[i] = lit[p + i]
    <3>1. \A i \in p + 1 .. n : lit[i] \in Keys
      BY <1>n, <2>1
    <3>2. p + 1 \in Int /\ n \in Int
      BY <1>n, <2>1
    <3>3. /\ b \in Seq(Keys)
          /\ Len(b) = IF p + 1 <= n THEN n - (p + 1) + 1 ELSE 0
          /\ \A i \in 1 .. n - (p + 1) + 1 : b[i] = lit[p + 1 + i - 1]
      BY <3>1, <3>2, SubSeqProperties
    <3> HIDE DEF b, n
    <3>4. Len(b) = n - p
      BY <1>n, <2>1, <3>3
    <3>5. ASSUME NEW i \in 1 .. n - p PROVE b[i] = lit[p + i]
      <4>1. i \in 1 .. n - (p + 1) + 1 /\ p + 1 + i - 1 = p + i
        BY <1>n, <2>1
      <4> QED
        BY <3>3, <4>1
    <3> QED
      BY <3>3, <3>4, <3>5
  <2> HIDE DEF a, b
  <2>5. rest \in Seq(Keys) /\ Len(rest) = n - 1 /\ DOMAIN rest = 1 .. n - 1
        /\ \A i \in 1 .. n - 1 : rest[i] = IF i <= p - 1 THEN a[i] ELSE b[i - (p - 1)]
    <3>1. /\ rest \in Seq(Keys) /\ Len(rest) = Len(a) + Len(b)
          /\ \A i \in 1 .. Len(a) + Len(b) :
               rest[i] = IF i <= Len(a) THEN a[i] ELSE b[i - Len(a)]
      BY <2>3, <2>4, ConcatProperties
    <3>2. Len(a) + Len(b) = n - 1
      BY <1>n, <2>1, <2>3, <2>4
    <3> HIDE DEF rest
    <3>3. DOMAIN rest = 1 .. Len(rest)
      BY <3>1
    <3>4. Len(a) = p - 1
      BY <2>3
    <3> QED
      BY <3>1, <3>2, <3>3, <3>4
  <2>6. \A i \in 1 .. n - 1 : rest[i] = IF i < p THEN lit[i] ELSE lit[i + 1]
    <3> HIDE DEF rest
    <3>1. ASSUME NEW i \in 1 .. n - 1, i < p PROVE rest[i] = lit[i]
      <4>1. i <= p - 1 /\ i \in 1 .. p - 1
        BY <1>n, <2>1, <3>1
      <4> QED
        BY <2>3, <2>5, <4>1
    <3>2. ASSUME NEW i \in 1 .. n - 1, ~(i < p) PROVE rest[i] = lit[i + 1]
      <4>1. i - (p - 1) \in 1 .. n - p /\ p + (i - (p - 1)) = i + 1 /\ ~(i <= p - 1)
        BY <1>n, <2>1, <3>2
      <4>2. rest[i] = b[i - (p - 1)]
        BY <2>5, <4>1
      <4> QED
        BY <2>4, <4>1, <4>2
    <3> QED
      BY <3>1, <3>2
  <2> HIDE DEF rest, n
  <2>7. ASSUME NEW j, Lights!IsLit(j), j # k PROVE \E i \in DOMAIN rest : rest[i] = j
    <3>1. PICK i \in 1 .. n : lit[i] = j
      BY <1>l, <2>7
    <3>2. i # p
      BY <2>1, <2>7, <3>1
    <3>3. CASE i < p
      BY <1>n, <2>1, <2>5, <2>6, <3>1, <3>3
    <3>4. CASE i > p
      <4>1. i - 1 \in 1 .. n - 1 /\ ~(i - 1 < p) /\ (i - 1) + 1 = i
        BY <1>n, <2>1, <3>4
      <4> QED
        BY <2>5, <2>6, <3>1, <4>1
    <3> QED
      BY <1>n, <2>1, <3>2, <3>3, <3>4
  <2>8. ASSUME lit[n] # k PROVE rest # <<>> /\ rest[Len(rest)] = lit[n]
    <3>1. p < n
      BY <1>n, <2>1, <2>8
    <3>2. n - 1 \in 1 .. n - 1 /\ ~(n - 1 < p) /\ (n - 1) + 1 = n
      BY <1>n, <2>1, <3>1
    <3> QED
      BY <2>5, <2>6, <3>2
  <2>9. \E x \in DOMAIN lit : /\ lit[x] = k /\ DOMAIN rest = 1 .. n - 1
          /\ \A i \in 1 .. n - 1 : rest[i] = IF i < x THEN lit[i] ELSE lit[i + 1]
    BY <1>n, <2>1, <2>5, <2>6
  <2> QED
    BY <2>2, <2>5, <2>7, <2>8, <2>9 DEF n
<1> QED
  BY <1>1, <1>2

\* A step that leaves a key's round alone, and does not take it out of what is
\* lit, leaves it watched.
LEMMA SameRound ==
  ASSUME NEW k, Watched(k), Lights!IsLit(k)',
         timer'[k] = timer[k], age'[k] = age[k], probe'[k] = probe[k],
         waited'[k] = waited[k], fresh'[k] = fresh[k]
  PROVE  Watched(k)'
BY DEF Watched, TimerRuns, IsAsked

\* What is released, and what is pressed, is the one key.
LEMMA ReleaseLeavesOthers ==
  ASSUME LightsTypes, ShownIsLast, NEW k \in Keys, Lights!Release(k)
  PROVE  /\ lit' \in Seq(Keys) /\ ShownIsLast'
         /\ \A j : Lights!IsLit(j) /\ j # k => Lights!IsLit(j)'
<1>1. lit' = Lights!Without(k)
  BY DEF Lights!Release
<1>2. lit \in Seq(Keys)
  BY DEF LightsTypes
<1>3. lit' \in Seq(Keys) /\ \A j : Lights!IsLit(j) /\ j # k => Lights!IsLit(j)'
  BY <1>1, <1>2, WithoutKeepsOthers DEF Lights!IsLit, Lights!ToSet
<1>4. ShownIsLast'
  <2>1. CASE shown = k
    BY <2>1 DEF Lights!Release, ShownIsLast, Lights!Last
  <2>2. CASE shown # k /\ lit = <<>>
    <3>1. ~Lights!IsLit(k)
      BY <2>2 DEF Lights!IsLit, Lights!ToSet
    <3> QED
      BY <1>1, <2>2, <3>1 DEF Lights!Without, Lights!Release, ShownIsLast
  <2>3. CASE shown # k /\ lit # <<>>
    <3>1. shown = lit[Len(lit)] /\ shown' = shown
      BY <2>3 DEF ShownIsLast, Lights!Release
    <3>2. lit' # <<>> /\ lit'[Len(lit')] = lit[Len(lit)]
      BY <1>1, <1>2, <2>3, <3>1, WithoutKeepsOthers
    <3> QED
      BY <3>1, <3>2 DEF ShownIsLast
  <2> QED
    BY <2>1, <2>2, <2>3
<1> QED
  BY <1>3, <1>4

LEMMA PressLeavesOthers ==
  ASSUME LightsTypes, ShownIsLast, NEW k \in Keys, Lights!Press(k)
  PROVE  /\ lit' \in Seq(Keys) /\ ShownIsLast' /\ Lights!IsLit(k)'
         /\ \A j : Lights!IsLit(j) => Lights!IsLit(j)'
<1>1. lit \in Seq(Keys)
  BY DEF LightsTypes
<1>2. CASE Lights!IsLit(k)
  BY <1>1, <1>2 DEF Lights!Press, Lights!display, ShownIsLast, Lights!IsLit
<1>3. CASE ~Lights!IsLit(k)
  <2>1. lit' = Append(lit, k) /\ shown' = k
    BY <1>3 DEF Lights!Press
  <2>2. /\ lit' \in Seq(Keys) /\ lit' # <<>> /\ Len(lit') = Len(lit) + 1
        /\ lit'[Len(lit) + 1] = k /\ \A i \in 1 .. Len(lit) : lit'[i] = lit[i]
    BY <1>1, <2>1
  <2>3. DOMAIN lit' = 1 .. Len(lit) + 1 /\ DOMAIN lit = 1 .. Len(lit) /\ Len(lit) \in Nat
    BY <1>1, <2>2
  <2>4. ShownIsLast'
    BY <2>1, <2>2 DEF ShownIsLast
  <2>5. Lights!IsLit(k)'
    BY <2>2, <2>3 DEF Lights!IsLit, Lights!ToSet
  <2>6. ASSUME NEW j, Lights!IsLit(j) PROVE Lights!IsLit(j)'
    <3>1. PICK i \in 1 .. Len(lit) : lit[i] = j
      BY <2>3, <2>6 DEF Lights!IsLit, Lights!ToSet
    <3>2. lit'[i] = j /\ i \in DOMAIN lit'
      BY <2>2, <2>3, <3>1
    <3> QED
      BY <3>2 DEF Lights!IsLit, Lights!ToSet
  <2> QED
    BY <2>2, <2>4, <2>5, <2>6
<1> QED
  BY <1>2, <1>3

\* No key is held twice, so a key that is deleted is dark.
LitOnce == \A i, j \in DOMAIN lit : lit[i] = lit[j] => i = j

LEMMA ReleaseTakesKey ==
  ASSUME LightsTypes, LitOnce, NEW k \in Keys, Lights!Release(k)
  PROVE  LitOnce' /\ ~Lights!IsLit(k)' /\ \A j : Lights!IsLit(j)' => Lights!IsLit(j)
<1> DEFINE n == Len(lit)
<1>1. lit' = Lights!Without(k) /\ lit \in Seq(Keys)
  BY DEF Lights!Release, LightsTypes
<1>2. n \in Nat /\ DOMAIN lit = 1 .. n
  BY <1>1
<1>3. CASE ~Lights!IsLit(k)
  BY <1>1, <1>3 DEF Lights!Without, Lights!IsLit, LitOnce
<1>4. CASE Lights!IsLit(k)
  <2>1. PICK p \in DOMAIN lit :
          /\ lit[p] = k /\ DOMAIN lit' = 1 .. n - 1
          /\ \A i \in 1 .. n - 1 : lit'[i] = IF i < p THEN lit[i] ELSE lit[i + 1]
    BY <1>1, <1>4, WithoutKeepsOthers
  <2> HIDE DEF n
  <2> DEFINE Was(i) == IF i < p THEN i ELSE i + 1
  <2>2. ASSUME NEW i \in DOMAIN lit' PROVE Was(i) \in DOMAIN lit \ {p} /\ lit'[i] = lit[Was(i)]
    BY <1>2, <2>1
  <2>3. ASSUME NEW i \in DOMAIN lit', NEW j \in DOMAIN lit', Was(i) = Was(j) PROVE i = j
    BY <1>2, <2>1, <2>3
  <2> HIDE DEF Was
  <2>4. LitOnce'
    BY <2>2, <2>3 DEF LitOnce
  <2>5. \A i \in DOMAIN lit' : lit'[i] # k /\ \E x \in DOMAIN lit : lit[x] = lit'[i]
    BY <2>1, <2>2 DEF LitOnce
  <2> QED
    BY <2>4, <2>5 DEF Lights!IsLit, Lights!ToSet
<1> QED
  BY <1>3, <1>4

LEMMA PressAddsKey ==
  ASSUME LightsTypes, LitOnce, NEW k \in Keys, Lights!Press(k)
  PROVE  LitOnce' /\ \A j : Lights!IsLit(j)' /\ j # k => Lights!IsLit(j)
<1>1. lit \in Seq(Keys)
  BY DEF LightsTypes
<1>2. CASE Lights!IsLit(k)
  BY <1>2 DEF Lights!Press, Lights!display, Lights!IsLit, LitOnce
<1>3. CASE ~Lights!IsLit(k)
  <2>1. lit' = Append(lit, k)
    BY <1>3 DEF Lights!Press
  <2>2. /\ Len(lit) \in Nat /\ DOMAIN lit = 1 .. Len(lit) /\ DOMAIN lit' = 1 .. Len(lit) + 1
        /\ lit'[Len(lit) + 1] = k /\ \A i \in 1 .. Len(lit) : lit'[i] = lit[i]
    BY <1>1, <2>1
  <2>3. \A i \in DOMAIN lit : lit[i] # k
    BY <1>3 DEF Lights!IsLit, Lights!ToSet
  <2>4. LitOnce'
    BY <2>2, <2>3 DEF LitOnce
  <2>5. \A i \in DOMAIN lit' : lit'[i] = k \/ \E x \in DOMAIN lit : lit[x] = lit'[i]
    BY <2>2
  <2> QED
    BY <2>4, <2>5 DEF Lights!IsLit, Lights!ToSet
<1> QED
  BY <1>2, <1>3

\* What the keyboard does never touches what the window knows.
LEMMA SentIsTyped ==
  ASSUME LightsTypes, NEW k \in Keys, NEW p \in BOOLEAN, Lights!Sent(Lights!Event(k, p))
  PROVE  pending' \in Seq(KeyEvents)
<1>1. Lights!Event(k, p) \in KeyEvents
  BY DEF Lights!Event, KeyEvents
<1>2. pending' = Append(pending, Lights!Event(k, p)) /\ pending \in Seq(KeyEvents)
  BY DEF Lights!Sent, LightsTypes
<1> QED
  BY <1>1, <1>2

LEMMA KeyboardKeepsSound ==
  ASSUME LightsSound, UNCHANGED <<timer, probe, waited, fresh, lit, shown, age>>,
         pending' \in Seq(KeyEvents), down' \subseteq Keys, sure' \subseteq down',
         sure' \subseteq sure
  PROVE  LightsSound'
<1>1. LightsTypes' /\ ShownIsLast'
  BY DEF LightsSound, LightsTypes, ShownIsLast
<1>2. ASSUME NEW k \in sure' PROVE Watched(k)'
  BY <1>2, SameRound DEF LightsSound, Watched, Lights!IsLit, Lights!ToSet
<1> QED
  BY <1>1, <1>2 DEF LightsSound

LEMMA KeyDownKeepsSound ==
  ASSUME LightsSound, NEW k \in Keys, Lights!KeyDown(k)
  PROVE  LightsSound'
<1>1. /\ down' = down \cup {k} /\ Lights!Sent(Lights!Event(k, TRUE))
      /\ UNCHANGED <<timer, probe, waited, fresh, lit, shown, age, sure>>
  BY DEF Lights!KeyDown, Lights!display
<1>2. pending' \in Seq(KeyEvents)
  BY <1>1, SentIsTyped DEF LightsSound
<1> QED
  BY <1>1, <1>2, KeyboardKeepsSound DEF LightsSound, LightsTypes

LEMMA RepeatKeepsSound ==
  ASSUME LightsSound, Lights!Repeat
  PROVE  LightsSound'
<1>1. /\ last \in down /\ Lights!Sent(Lights!Event(last, TRUE))
      /\ UNCHANGED <<down, timer, probe, waited, fresh, lit, shown, age, sure>>
  BY DEF Lights!Repeat, Lights!display
<1>2. pending' \in Seq(KeyEvents)
  BY <1>1, SentIsTyped DEF LightsSound, LightsTypes
<1> QED
  BY <1>1, <1>2, KeyboardKeepsSound DEF LightsSound, LightsTypes

LEMMA KeyUpKeepsSound ==
  ASSUME LightsSound, NEW k \in Keys, Lights!KeyUp(k)
  PROVE  LightsSound'
<1>1. /\ down' = down \ {k} /\ sure' = sure \ {k}
      /\ Lights!Sent(Lights!Event(k, FALSE)) \/ pending' = pending
      /\ UNCHANGED <<timer, probe, waited, fresh, lit, shown, age>>
  BY DEF Lights!KeyUp, Lights!display
<1>2. pending' \in Seq(KeyEvents)
  BY <1>1, SentIsTyped DEF LightsSound, LightsTypes
<1> QED
  BY <1>1, <1>2, KeyboardKeepsSound DEF LightsSound, LightsTypes

LEMMA TakenIsTyped ==
  ASSUME LightsTypes, Lights!Taken
  PROVE  /\ pending' \in Seq(KeyEvents)
         /\ Lights!Next1.key \in Keys /\ Lights!Next1.pressed \in BOOLEAN
<1>1. pending \in Seq(KeyEvents) /\ pending # <<>> /\ pending' = Tail(pending)
  BY DEF LightsTypes, Lights!Taken
<1>2. Head(pending) \in KeyEvents /\ Tail(pending) \in Seq(KeyEvents)
  BY <1>1
<1> QED
  BY <1>1, <1>2 DEF KeyEvents, Lights!Next1

\* A press begins a new round, in which no answer of an earlier one counts.
LEMMA PressKeepsSound ==
  ASSUME Lights!KeyAssumption, LightsSound, Lights!HandlePress
  PROVE  LightsSound'
<1>t. LightsTypes /\ ShownIsLast
  BY DEF LightsSound
<1>1. PICK k \in Keys : k = Lights!Next1.key
  BY <1>t, TakenIsTyped DEF Lights!HandlePress
<1>2. /\ Lights!Press(k) /\ age' = [age EXCEPT ![k] = 0]
      /\ timer' = [timer EXCEPT ![k] = Delay] /\ fresh' = [fresh EXCEPT ![k] = FALSE]
      /\ sure' = sure \cup ({k} \cap down)
      /\ UNCHANGED <<down, probe, waited>>
  BY <1>1 DEF Lights!HandlePress
<1>3. pending' \in Seq(KeyEvents)
  BY <1>t, TakenIsTyped DEF Lights!HandlePress
<1>4. /\ lit' \in Seq(Keys) /\ ShownIsLast' /\ Lights!IsLit(k)'
      /\ \A j : Lights!IsLit(j) => Lights!IsLit(j)'
  BY <1>t, <1>2, PressLeavesOthers
<1>5. Delay \in 0 .. Lights!Off /\ 0 \in 0 .. Lights!Off
  BY Limits
<1>6. timer' \in [Keys -> 0 .. Lights!Off] /\ age' \in [Keys -> 0 .. Lights!Off]
  BY <1>t, <1>2, <1>5 DEF LightsTypes
<1>7. LightsTypes'
  BY <1>t, <1>2, <1>3, <1>4, <1>6 DEF LightsTypes
<1>8. Watched(k)'
  <2>1. age'[k] = 0 /\ timer'[k] = Delay /\ ~fresh'[k]
    BY <1>t, <1>2 DEF LightsTypes
  <2>2. 0 + Delay <= Lights!ReArm /\ Delay \in 0 .. Lights!ReArm /\ 0 # Lights!Off
        /\ Lights!Off' = Lights!Off /\ Lights!ReArm' = Lights!ReArm
    BY Limits DEF Lights!Off, Lights!ReArm, Lights!HoldLimit, Lights!Greater,
                  Lights!TicksPerSecond
  <2> QED
    BY <1>4, <2>1, <2>2 DEF Watched, TimerRuns
<1>9. ASSUME NEW j \in sure', j # k PROVE Watched(j)'
  <2>1. j \in sure /\ Watched(j)
    BY <1>2, <1>9 DEF LightsSound
  <2>2. j \in Keys
    BY <1>t, <2>1 DEF LightsTypes
  <2>3. timer'[j] = timer[j] /\ age'[j] = age[j] /\ probe'[j] = probe[j]
        /\ waited'[j] = waited[j] /\ fresh'[j] = fresh[j] /\ Lights!IsLit(j)'
    BY <1>t, <1>2, <1>4, <1>9, <2>1, <2>2 DEF LightsTypes, Watched
  <2> QED
    BY <2>1, <2>3, SameRound
<1> QED
  BY <1>4, <1>7, <1>8, <1>9 DEF LightsSound

LEMMA ReleaseKeepsSound ==
  ASSUME Lights!KeyAssumption, LightsSound, Lights!HandleRelease
  PROVE  LightsSound'
<1>t. LightsTypes /\ ShownIsLast
  BY DEF LightsSound
<1>1. PICK k \in Keys : k = Lights!Next1.key
  BY <1>t, TakenIsTyped DEF Lights!HandleRelease
<1>2. /\ Lights!Release(k) /\ age' = [age EXCEPT ![k] = Lights!Off]
      /\ timer' = [timer EXCEPT ![k] = Lights!Off] /\ fresh' = [fresh EXCEPT ![k] = FALSE]
      /\ sure' = sure \ {k}
      /\ UNCHANGED <<down, probe, waited>>
  BY <1>1 DEF Lights!HandleRelease
<1>3. pending' \in Seq(KeyEvents)
  BY <1>t, TakenIsTyped DEF Lights!HandleRelease
<1>4. /\ lit' \in Seq(Keys) /\ ShownIsLast'
      /\ \A j : Lights!IsLit(j) /\ j # k => Lights!IsLit(j)'
  BY <1>t, <1>2, ReleaseLeavesOthers
<1>5. Lights!Off \in 0 .. Lights!Off
  BY Limits
<1>6. timer' \in [Keys -> 0 .. Lights!Off] /\ age' \in [Keys -> 0 .. Lights!Off]
  BY <1>t, <1>2, <1>5 DEF LightsTypes
<1>7. LightsTypes'
  BY <1>t, <1>2, <1>3, <1>4, <1>6 DEF LightsTypes
<1>8. ASSUME NEW j \in sure' PROVE Watched(j)'
  <2>1. j \in sure /\ Watched(j) /\ j # k
    BY <1>2, <1>8 DEF LightsSound
  <2>2. j \in Keys
    BY <1>t, <2>1 DEF LightsTypes
  <2>3. timer'[j] = timer[j] /\ age'[j] = age[j] /\ probe'[j] = probe[j]
        /\ waited'[j] = waited[j] /\ fresh'[j] = fresh[j] /\ Lights!IsLit(j)'
    BY <1>t, <1>2, <1>4, <2>1, <2>2 DEF LightsTypes, Watched
  <2> QED
    BY <2>1, <2>3, SameRound
<1> QED
  BY <1>4, <1>7, <1>8 DEF LightsSound

\* The timer ends: the question goes out, in the round it belongs to.
LEMMA FireKeepsSound ==
  ASSUME Lights!KeyAssumption, LightsSound, NEW k \in Keys, Lights!Fire(k)
  PROVE  LightsSound'
<1>t. LightsTypes /\ ShownIsLast
  BY DEF LightsSound
<1>1. /\ timer[k] = 0 /\ timer' = [timer EXCEPT ![k] = Lights!Off]
      /\ probe' = [probe EXCEPT ![k] = "asked"] /\ waited' = [waited EXCEPT ![k] = 0]
      /\ fresh' = [fresh EXCEPT ![k] = TRUE]
      /\ UNCHANGED <<down, pending, lit, shown, age, sure>>
  BY DEF Lights!Fire, Lights!system, Lights!display
<1>2. Lights!Off \in 0 .. Lights!Off /\ Lights!ReArm \in Nat /\ Lights!Off # 0
      /\ Lights!Off \notin 0 .. Lights!ReArm
  BY Limits
<1>3. timer' \in [Keys -> 0 .. Lights!Off]
  BY <1>t, <1>1, <1>2 DEF LightsTypes
<1>4. LightsTypes' /\ ShownIsLast'
  BY <1>t, <1>1, <1>3 DEF LightsTypes, ShownIsLast, Probes
<1>5. ASSUME NEW j \in sure' PROVE Watched(j)'
  <2>1. j \in sure /\ Watched(j) /\ j \in Keys /\ Lights!IsLit(j)'
    BY <1>t, <1>1, <1>5 DEF LightsSound, LightsTypes, Watched, Lights!IsLit, Lights!ToSet
  <2>2. CASE j = k
    <3>1. timer'[k] = Lights!Off /\ probe'[k] = "asked" /\ waited'[k] = 0 /\ fresh'[k]
          /\ age'[k] = age[k]
      BY <1>t, <1>1 DEF LightsTypes
    <3>2. TimerRuns(k)
      BY <1>1, <1>2, <2>1, <2>2 DEF Watched, IsAsked
    <3>3. age[k] # Lights!Off => age[k] <= Lights!ReArm + 0
      BY <1>t, <1>1, <1>2, <3>2 DEF TimerRuns, LightsTypes
    <3>4. IsAsked(k)'
      BY <3>1, <3>3 DEF IsAsked
    <3> QED
      BY <2>1, <2>2, <3>1, <3>4 DEF Watched
  <2>3. CASE j # k
    <3>1. timer'[j] = timer[j] /\ age'[j] = age[j] /\ probe'[j] = probe[j]
          /\ waited'[j] = waited[j] /\ fresh'[j] = fresh[j]
      BY <1>t, <1>1, <2>1, <2>3 DEF LightsTypes
    <3> QED
      BY <2>1, <3>1, SameRound
  <2> QED
    BY <2>2, <2>3
<1> QED
  BY <1>4, <1>5 DEF LightsSound

\* The system says what is so when it is asked.
LEMMA AskedKeepsSound ==
  ASSUME LightsSound, NEW k \in Keys, Lights!IsKeyDown(k)
  PROVE  LightsSound'
<1>t. LightsTypes /\ ShownIsLast
  BY DEF LightsSound
<1>1. /\ probe[k] = "asked"
      /\ probe' = [probe EXCEPT ![k] = IF k \in down THEN "down" ELSE "up"]
      /\ UNCHANGED <<down, pending, timer, waited, fresh, lit, shown, age, sure>>
  BY DEF Lights!IsKeyDown, Lights!system, Lights!display
<1>2. LightsTypes' /\ ShownIsLast'
  BY <1>t, <1>1 DEF LightsTypes, ShownIsLast, Probes
<1>3. ASSUME NEW j \in sure' PROVE Watched(j)'
  <2>1. j \in sure /\ Watched(j) /\ j \in Keys /\ j \in down /\ Lights!IsLit(j)'
    BY <1>t, <1>1, <1>3 DEF LightsSound, LightsTypes, Watched, Lights!IsLit, Lights!ToSet
  <2>2. probe'[j] = IF j = k THEN "down" ELSE probe[j]
    BY <1>t, <1>1, <2>1 DEF LightsTypes
  <2>3. (TimerRuns(j) \/ IsAsked(j))'
    BY <1>1, <2>1, <2>2 DEF Watched, TimerRuns, IsAsked
  <2>4. probe'[j] = "up" => ~fresh'[j]
    BY <1>1, <2>1, <2>2 DEF Watched
  <2> QED
    BY <2>1, <2>3, <2>4 DEF Watched
<1> QED
  BY <1>2, <1>3 DEF LightsSound

\* An answer of this round finds a key that is down, and the next round begins;
\* one of an earlier round changes nothing.
LEMMA AnswerKeepsLights ==
  ASSUME Lights!KeyAssumption, LightsSound, NEW k \in Keys, Lights!Answer(k)
  PROVE  LightsSound'
<1>t. LightsTypes /\ ShownIsLast
  BY DEF LightsSound
<1>1. /\ probe[k] \in {"down", "up"} /\ probe' = [probe EXCEPT ![k] = "none"]
      /\ UNCHANGED <<down, pending, waited, fresh, sure>>
  BY DEF Lights!Answer, Lights!system
<1>2. Lights!ReArm \in 0 .. Lights!Off /\ 0 \in 0 .. Lights!Off /\ Lights!ReArm \in Nat
      /\ 0 # Lights!Off /\ Lights!Off \in 0 .. Lights!Off
  BY Limits
<1>p. probe' \in [Keys -> Probes]
  BY <1>t, <1>1 DEF LightsTypes, Probes
<1>3. ASSUME NEW j \in sure', j # k, lit' = lit \/ Lights!Release(k),
             timer'[j] = timer[j], age'[j] = age[j]
      PROVE  Watched(j)'
  <2>1. j \in sure /\ Watched(j) /\ j \in Keys
    BY <1>t, <1>1, <1>3 DEF LightsSound, LightsTypes
  <2>2. Lights!IsLit(j)'
    <3>1. Lights!IsLit(j)
      BY <2>1 DEF Watched
    <3>2. CASE lit' = lit
      BY <3>1, <3>2 DEF Lights!IsLit, Lights!ToSet
    <3>3. CASE Lights!Release(k)
      BY <1>t, <1>3, <3>1, <3>3, ReleaseLeavesOthers
    <3> QED
      BY <1>3, <3>2, <3>3
  <2>3. probe'[j] = probe[j] /\ waited'[j] = waited[j] /\ fresh'[j] = fresh[j]
    BY <1>t, <1>1, <1>3, <2>1 DEF LightsTypes
  <2> QED
    BY <1>3, <2>1, <2>2, <2>3, SameRound
<1>4. CASE ~fresh[k] /\ UNCHANGED <<timer, lit, shown, age>>
  <2>1. LightsTypes' /\ ShownIsLast'
    BY <1>t, <1>1, <1>p, <1>4 DEF LightsTypes, ShownIsLast
  <2>2. ASSUME k \in sure' PROVE Watched(k)'
    <3>1. Watched(k) /\ k \in sure
      BY <1>1, <2>2 DEF LightsSound
    <3>2. TimerRuns(k) /\ Lights!IsLit(k)
      BY <1>4, <3>1 DEF Watched, IsAsked
    <3>3. TimerRuns(k)' /\ Lights!IsLit(k)'
      BY <1>4, <3>2 DEF TimerRuns, Lights!IsLit, Lights!ToSet
    <3> QED
      BY <1>1, <1>4, <3>3 DEF Watched
  <2> QED
    BY <1>3, <1>4, <2>1, <2>2 DEF LightsSound
<1>5. CASE /\ fresh[k] /\ probe[k] = "down"
           /\ timer' = [timer EXCEPT ![k] = Lights!ReArm]
           /\ age' = [age EXCEPT ![k] = IF age[k] = Lights!Off THEN Lights!Off ELSE 0]
           /\ UNCHANGED <<lit, shown>>
  <2>1. timer' \in [Keys -> 0 .. Lights!Off] /\ age' \in [Keys -> 0 .. Lights!Off]
    BY <1>t, <1>2, <1>5 DEF LightsTypes
  <2>2. LightsTypes' /\ ShownIsLast'
    BY <1>t, <1>1, <1>p, <1>5, <2>1 DEF LightsTypes, ShownIsLast
  <2>3. ASSUME k \in sure' PROVE Watched(k)'
    <3>1. Watched(k) /\ k \in sure
      BY <1>1, <2>3 DEF LightsSound
    <3>2. timer'[k] = Lights!ReArm /\ age'[k] \in {0, Lights!Off} /\ probe'[k] = "none"
      BY <1>t, <1>1, <1>5 DEF LightsTypes
    <3>3. TimerRuns(k)'
      BY <1>2, <3>2 DEF TimerRuns, Lights!Off, Lights!ReArm, Lights!HoldLimit, Lights!Greater,
                        Lights!TicksPerSecond
    <3>4. Lights!IsLit(k)'
      BY <1>5, <3>1 DEF Watched, Lights!IsLit, Lights!ToSet
    <3> QED
      BY <3>2, <3>3, <3>4 DEF Watched
  <2>4. ASSUME NEW j \in sure', j # k PROVE Watched(j)'
    <3>1. j \in Keys
      BY <1>t, <1>1, <2>4 DEF LightsTypes
    <3>2. timer'[j] = timer[j] /\ age'[j] = age[j]
      BY <1>t, <1>5, <2>4, <3>1 DEF LightsTypes
    <3> QED
      BY <1>3, <1>5, <2>4, <3>2
  <2> QED
    BY <2>2, <2>3, <2>4 DEF LightsSound
<1>6. CASE fresh[k] /\ probe[k] = "up" /\ Lights!Release(k) /\ UNCHANGED <<timer, age>>
  <2>1. lit' \in Seq(Keys) /\ ShownIsLast'
    BY <1>t, <1>6, ReleaseLeavesOthers
  <2>2. LightsTypes'
    BY <1>t, <1>1, <1>p, <1>6, <2>1 DEF LightsTypes
  <2>3. k \notin sure'
    BY <1>1, <1>6 DEF LightsSound, Watched
  <2> QED
    BY <1>3, <1>6, <2>1, <2>2, <2>3 DEF LightsSound
<1> QED
  BY <1>1, <1>4, <1>5, <1>6
     DEF Lights!Answer, Lights!Current, Lights!Rearmed, Lights!display

LEMMA ResetKeepsSound ==
  ASSUME Lights!KeyAssumption, LightsSound, Lights!ResetActivity
  PROVE  LightsSound'
<1>t. LightsTypes /\ ShownIsLast
  BY DEF LightsSound
<1>1. /\ age' = [k \in Keys |-> Lights!Off]
      /\ UNCHANGED <<down, pending, timer, probe, waited, fresh, lit, shown, sure>>
  BY DEF Lights!ResetActivity, Lights!system, Lights!display
<1>2. Lights!Off \in 0 .. Lights!Off
  BY Limits
<1>3. LightsTypes' /\ ShownIsLast'
  BY <1>t, <1>1, <1>2 DEF LightsTypes, ShownIsLast
<1>4. ASSUME NEW j \in sure' PROVE Watched(j)'
  <2>1. j \in Keys /\ Watched(j)
    BY <1>t, <1>1, <1>4 DEF LightsSound, LightsTypes
  <2>2. age'[j] = Lights!Off /\ Lights!Off' = Lights!Off
    BY <1>1, <2>1 DEF Lights!Off, Lights!HoldLimit, Lights!Greater, Lights!TicksPerSecond
  <2> QED
    BY <1>1, <2>1, <2>2 DEF Watched, TimerRuns, IsAsked, Lights!IsLit, Lights!ToSet
<1> QED
  BY <1>3, <1>4 DEF LightsSound

\* Time takes from the timer what it adds to the age; a question is out for one
\* tick at most.
LEMMA TickKeepsSound ==
  ASSUME Lights!KeyAssumption, LightsSound, Lights!Tick
  PROVE  LightsSound'
<1>t. LightsTypes /\ ShownIsLast
  BY DEF LightsSound
<1>1. /\ \A k \in Keys : timer[k] # 0 /\ (probe[k] # "none" => waited[k] < 1)
      /\ timer' = [k \in Keys |-> IF timer[k] = Lights!Off THEN Lights!Off ELSE timer[k] - 1]
      /\ waited' = [k \in Keys |-> IF probe[k] = "none" THEN 0 ELSE waited[k] + 1]
      /\ age' = [k \in Keys |-> IF age[k] \in {Lights!Off, Lights!Old} THEN age[k]
                                ELSE age[k] + 1]
      /\ UNCHANGED <<down, pending, probe, fresh, lit, shown, sure>>
  BY DEF Lights!Tick, Lights!ProbeTicks, Lights!display
<1>2. PICK r \in Nat : r = Lights!ReArm
  BY Limits
<1>3. Lights!Off = r + 4 /\ Lights!Old = r + 3
  BY <1>2, Limits
<1>4. \A k \in Keys : /\ timer[k] \in 0 .. r + 4 /\ age[k] \in 0 .. r + 4 /\ waited[k] \in Nat
  BY <1>t, <1>3 DEF LightsTypes
<1>5. ASSUME NEW k \in Keys
      PROVE  /\ timer'[k] \in 0 .. r + 4 /\ age'[k] \in 0 .. r + 4 /\ waited'[k] \in Nat
  <2>1. timer'[k] = IF timer[k] = r + 4 THEN r + 4 ELSE timer[k] - 1
    BY <1>1, <1>3
  <2>2. age'[k] = IF age[k] \in {r + 4, r + 3} THEN age[k] ELSE age[k] + 1
    BY <1>1, <1>3
  <2>3. waited'[k] \in Nat
    BY <1>1, <1>4
  <2>4. timer'[k] \in 0 .. r + 4
    <3>1. timer[k] \in 0 .. r + 4 /\ timer[k] # 0
      BY <1>1, <1>4
    <3> QED
      BY <2>1, <3>1
  <2>5. age'[k] \in 0 .. r + 4
    BY <1>4, <2>2
  <2> QED
    BY <2>3, <2>4, <2>5
<1>6. LightsTypes' /\ ShownIsLast'
  <2>1. /\ timer' \in [Keys -> 0 .. Lights!Off] /\ age' \in [Keys -> 0 .. Lights!Off]
        /\ waited' \in [Keys -> Nat]
    BY <1>1, <1>3, <1>5
  <2> QED
    BY <1>t, <1>1, <2>1 DEF LightsTypes, ShownIsLast
<1>7. ASSUME NEW k \in sure' PROVE Watched(k)'
  <2>1. k \in Keys /\ Watched(k)
    BY <1>t, <1>1, <1>7 DEF LightsSound, LightsTypes
  <2>2. timer[k] \in 0 .. r + 4 /\ age[k] \in 0 .. r + 4 /\ waited[k] \in Nat /\ timer[k] # 0
    BY <1>1, <1>4, <2>1
  <2>3. Lights!IsLit(k)' /\ (probe'[k] = "up" => ~fresh'[k])
    BY <1>1, <2>1 DEF Watched, Lights!IsLit, Lights!ToSet
  <2>4. CASE TimerRuns(k)
    <3>1. timer[k] \in 0 .. r /\ (age[k] # r + 4 => age[k] + timer[k] <= r)
      BY <1>2, <1>3, <2>4 DEF TimerRuns
    <3>2. timer'[k] = timer[k] - 1
      BY <1>1, <1>3, <2>1, <3>1
    <3>3. age'[k] = IF age[k] = r + 4 THEN r + 4 ELSE age[k] + 1
      <4>1. age[k] # r + 3
        BY <2>2, <3>1
      <4> QED
        BY <1>1, <1>3, <2>1, <4>1
    <3>4. timer'[k] \in 0 .. r /\ (age'[k] # r + 4 => age'[k] + timer'[k] <= r)
      BY <2>2, <3>1, <3>2, <3>3
    <3>5. TimerRuns(k)'
      BY <1>2, <1>3, <3>4 DEF TimerRuns, Lights!Off, Lights!ReArm, Lights!HoldLimit
    <3> QED
      BY <2>3, <3>5 DEF Watched
  <2>5. CASE IsAsked(k)
    <3>1. /\ timer[k] = r + 4 /\ fresh[k] /\ probe[k] \in {"asked", "down"}
          /\ waited[k] \in 0 .. 1 /\ (age[k] # r + 4 => age[k] <= r + waited[k])
      BY <1>2, <1>3, <2>5 DEF IsAsked
    <3>2. waited[k] = 0
      BY <1>1, <2>1, <2>2, <3>1
    <3>3. timer'[k] = r + 4 /\ waited'[k] = 1
      BY <1>1, <1>3, <2>1, <3>1, <3>2
    <3>4. age'[k] = IF age[k] = r + 4 THEN r + 4 ELSE age[k] + 1
      <4>1. age[k] # r + 3
        BY <2>2, <3>1, <3>2
      <4> QED
        BY <1>1, <1>3, <2>1, <4>1
    <3>5. age'[k] # r + 4 => age'[k] <= r + 1
      BY <2>2, <3>1, <3>2, <3>4
    <3>6. IsAsked(k)'
      BY <1>1, <1>2, <1>3, <3>1, <3>3, <3>5
         DEF IsAsked, Lights!Off, Lights!ReArm, Lights!HoldLimit
    <3> QED
      BY <2>3, <3>6 DEF Watched
  <2> QED
    BY <2>1, <2>4, <2>5 DEF Watched
<1> QED
  BY <1>6, <1>7 DEF LightsSound

LEMMA LightsKeepSound ==
  ASSUME Lights!KeyAssumption, LightsSound, [Lights!Next]_(Lights!vars)
  PROVE  LightsSound'
<1>0. CASE UNCHANGED Lights!vars
  <2>1. UNCHANGED <<down, pending, timer, probe, waited, fresh, lit, shown, age, sure>>
    BY <1>0 DEF Lights!vars, Lights!system, Lights!display
  <2> QED
    BY <2>1, KeyboardKeepsSound DEF LightsSound, LightsTypes
<1>1. ASSUME NEW k \in Keys, Lights!KeyDown(k) \/ Lights!KeyUp(k) \/ Lights!Window(k)
      PROVE  LightsSound'
  BY <1>1, KeyDownKeepsSound, KeyUpKeepsSound, FireKeepsSound, AskedKeepsSound, AnswerKeepsLights
     DEF Lights!Window
<1>2. CASE Lights!Repeat \/ Lights!Handle \/ Lights!ResetActivity \/ Lights!Tick
  BY <1>2, RepeatKeepsSound, PressKeepsSound, ReleaseKeepsSound, ResetKeepsSound, TickKeepsSound
     DEF Lights!Handle
<1> QED
  BY <1>0, <1>1, <1>2 DEF Lights!Next

\* A key's round has a timer, or the question that its timer asked.
Alert(k) == timer[k] # Lights!Off \/ (probe[k] # "none" /\ fresh[k])
Looked == LitOnce /\ \A k \in Keys : Lights!IsLit(k) => Alert(k)

LEMMA InitLooked == Lights!Init => Looked
BY DEF Lights!Init, Looked, LitOnce, Lights!IsLit, Lights!ToSet

\* A press begins a round and a release ends it; a question takes over from the
\* timer, and an answer that counts hands back to it or takes the key out.  An
\* answer that does not count belongs to a round before the one that the timer
\* is for.
LEMMA LightsKeepLooked ==
  ASSUME Lights!KeyAssumption, LightsSound, Looked, [Lights!Next]_(Lights!vars)
  PROVE  Looked'
<1>t. LightsTypes /\ LitOnce
  BY DEF LightsSound, Looked
<1>o. Lights!Off' = Lights!Off /\ Delay # Lights!Off /\ Lights!ReArm # Lights!Off
      /\ Lights!Off \in Nat
  BY Limits DEF Lights!Off, Lights!HoldLimit, Lights!ReArm, Lights!Greater,
                Lights!TicksPerSecond
<1>0. ASSUME UNCHANGED <<timer, probe, fresh, lit>> PROVE Looked'
  BY <1>0, <1>o DEF Looked, LitOnce, Alert, Lights!IsLit, Lights!ToSet
<1>s. ASSUME NEW j, Lights!IsLit(j), j \in Keys,
             timer'[j] = timer[j], probe'[j] = probe[j], fresh'[j] = fresh[j]
      PROVE  Alert(j)'
  BY <1>s, <1>o DEF Looked, Alert
<1>1. ASSUME Lights!HandlePress PROVE Looked'
  <2>1. PICK k \in Keys : k = Lights!Next1.key
    BY <1>t, <1>1, TakenIsTyped DEF Lights!HandlePress
  <2>2. /\ Lights!Press(k) /\ timer' = [timer EXCEPT ![k] = Delay]
        /\ fresh' = [fresh EXCEPT ![k] = FALSE] /\ probe' = probe
    BY <1>1, <2>1 DEF Lights!HandlePress
  <2>3. LitOnce' /\ \A j : Lights!IsLit(j)' /\ j # k => Lights!IsLit(j)
    BY <1>t, <2>2, PressAddsKey
  <2>4. Alert(k)'
    BY <1>t, <1>o, <2>2 DEF Alert, LightsTypes
  <2>5. ASSUME NEW j \in Keys, j # k, Lights!IsLit(j)' PROVE Alert(j)'
    BY <1>t, <1>s, <2>2, <2>3, <2>5 DEF LightsTypes
  <2> QED
    BY <2>3, <2>4, <2>5 DEF Looked
<1>2. ASSUME Lights!HandleRelease PROVE Looked'
  <2>1. PICK k \in Keys : k = Lights!Next1.key
    BY <1>t, <1>2, TakenIsTyped DEF Lights!HandleRelease
  <2>2. /\ Lights!Release(k) /\ timer' = [timer EXCEPT ![k] = Lights!Off]
        /\ fresh' = [fresh EXCEPT ![k] = FALSE] /\ probe' = probe
    BY <1>2, <2>1 DEF Lights!HandleRelease
  <2>3. LitOnce' /\ ~Lights!IsLit(k)' /\ \A j : Lights!IsLit(j)' => Lights!IsLit(j)
    BY <1>t, <2>2, ReleaseTakesKey
  <2>4. ASSUME NEW j \in Keys, j # k, Lights!IsLit(j)' PROVE Alert(j)'
    BY <1>t, <1>s, <2>2, <2>3, <2>4 DEF LightsTypes
  <2> QED
    BY <2>3, <2>4 DEF Looked
<1>3. ASSUME NEW k \in Keys, Lights!Fire(k) PROVE Looked'
  <2>1. /\ timer' = [timer EXCEPT ![k] = Lights!Off] /\ probe' = [probe EXCEPT ![k] = "asked"]
        /\ fresh' = [fresh EXCEPT ![k] = TRUE] /\ lit' = lit
    BY <1>3 DEF Lights!Fire, Lights!display
  <2>2. LitOnce' /\ \A j : Lights!IsLit(j)' => Lights!IsLit(j)
    BY <1>t, <2>1 DEF LitOnce, Lights!IsLit
  <2>3. Alert(k)'
    BY <1>t, <2>1 DEF Alert, LightsTypes
  <2>4. ASSUME NEW j \in Keys, j # k, Lights!IsLit(j)' PROVE Alert(j)'
    BY <1>t, <1>s, <2>1, <2>2, <2>4 DEF LightsTypes
  <2> QED
    BY <2>2, <2>3, <2>4 DEF Looked
<1>4. ASSUME NEW k \in Keys, Lights!IsKeyDown(k) PROVE Looked'
  <2>1. /\ probe[k] = "asked" /\ UNCHANGED <<timer, fresh, lit>>
        /\ probe' = [probe EXCEPT ![k] = IF k \in down THEN "down" ELSE "up"]
    BY <1>4 DEF Lights!IsKeyDown, Lights!display
  <2>2. LitOnce' /\ \A j : Lights!IsLit(j)' => Lights!IsLit(j)
    BY <1>t, <2>1 DEF LitOnce, Lights!IsLit
  <2>3. \A j \in Keys : probe[j] # "none" => probe'[j] # "none"
    BY <1>t, <2>1 DEF LightsTypes
  <2> QED
    BY <1>o, <2>1, <2>2, <2>3 DEF Looked, Alert
<1>5. ASSUME NEW k \in Keys, Lights!Answer(k) PROVE Looked'
  <2>1. probe' = [probe EXCEPT ![k] = "none"] /\ fresh' = fresh
    BY <1>5 DEF Lights!Answer
  <2>2. ASSUME NEW j \in Keys, j # k, Lights!IsLit(j), timer'[j] = timer[j] PROVE Alert(j)'
    BY <1>t, <1>s, <2>1, <2>2 DEF LightsTypes
  <2>3. CASE ~fresh[k] /\ UNCHANGED <<timer, lit>>
    <3>1. LitOnce' /\ \A j : Lights!IsLit(j)' => Lights!IsLit(j)
      BY <1>t, <2>3 DEF LitOnce, Lights!IsLit
    <3>2. Lights!IsLit(k) => Alert(k)'
      BY <1>o, <2>3 DEF Looked, Alert
    <3> QED
      BY <2>2, <2>3, <3>1, <3>2 DEF Looked
  <2>4. CASE timer' = [timer EXCEPT ![k] = Lights!ReArm] /\ UNCHANGED lit
    <3>1. LitOnce' /\ \A j : Lights!IsLit(j)' => Lights!IsLit(j)
      BY <1>t, <2>4 DEF LitOnce, Lights!IsLit
    <3>2. Alert(k)'
      BY <1>t, <1>o, <2>4 DEF Alert, LightsTypes
    <3>3. \A j \in Keys : j # k => timer'[j] = timer[j]
      BY <1>t, <2>4 DEF LightsTypes
    <3> QED
      BY <2>2, <3>1, <3>2, <3>3 DEF Looked
  <2>5. CASE Lights!Release(k) /\ UNCHANGED timer
    <3>1. LitOnce' /\ ~Lights!IsLit(k)' /\ \A j : Lights!IsLit(j)' => Lights!IsLit(j)
      BY <1>t, <2>5, ReleaseTakesKey
    <3> QED
      BY <2>2, <2>5, <3>1 DEF Looked
  <2> QED
    BY <1>5, <2>3, <2>4, <2>5 DEF Lights!Answer, Lights!Current, Lights!Rearmed, Lights!display
<1>6. ASSUME Lights!Tick PROVE Looked'
  <2>1. /\ timer' = [k \in Keys |-> IF timer[k] = Lights!Off THEN Lights!Off ELSE timer[k] - 1]
        /\ UNCHANGED <<probe, fresh, lit>>
    BY <1>6 DEF Lights!Tick, Lights!display
  <2>2. LitOnce' /\ \A j : Lights!IsLit(j)' => Lights!IsLit(j)
    BY <1>t, <2>1 DEF LitOnce, Lights!IsLit
  <2>3. ASSUME NEW k \in Keys, timer[k] # Lights!Off PROVE timer'[k] # Lights!Off
    <3>1. timer[k] \in 0 .. Lights!Off /\ timer'[k] = timer[k] - 1
      BY <1>t, <2>1, <2>3 DEF LightsTypes
    <3> QED
      BY <1>o, <3>1
  <2> QED
    BY <1>o, <2>1, <2>2, <2>3 DEF Looked, Alert
<1>7. ASSUME NEW k \in Keys, Lights!KeyDown(k) \/ Lights!KeyUp(k) PROVE Looked'
  BY <1>0, <1>7 DEF Lights!KeyDown, Lights!KeyUp, Lights!display
<1>8. ASSUME UNCHANGED Lights!vars \/ Lights!Repeat \/ Lights!ResetActivity PROVE Looked'
  BY <1>0, <1>8 DEF Lights!vars, Lights!Repeat, Lights!ResetActivity, Lights!display
<1> QED
  BY <1>1, <1>2, <1>3, <1>4, <1>5, <1>6, <1>7, <1>8 DEF Lights!Next, Lights!Window, Lights!Handle

LEMMA LightsSoundShows ==
  ASSUME Lights!KeyAssumption, LightsSound, Looked
  PROVE  /\ Lights!TypeOK /\ Lights!LitWhileDown /\ Lights!NeverDropped
         /\ Lights!LitIsWatched
<1>1. Lights!TypeOK
  BY DEF LightsSound, LightsTypes, ShownIsLast, Lights!TypeOK, Lights!Last
<1>2. Lights!LitWhileDown
  BY DEF LightsSound, Watched, Lights!LitWhileDown
<1>3. ASSUME NEW k \in sure, age[k] # Lights!Off PROVE age[k] <= Lights!HoldLimit
  <2>1. k \in Keys /\ Watched(k)
    BY DEF LightsSound, LightsTypes
  <2>2. age[k] \in Nat /\ timer[k] \in Nat /\ waited[k] \in Nat
    BY <2>1, Limits DEF LightsSound, LightsTypes
  <2>3. Lights!ReArm \in Nat /\ Lights!HoldLimit = Lights!ReArm + 2
    BY Limits
  <2>4. CASE TimerRuns(k)
    BY <1>3, <2>2, <2>3, <2>4 DEF TimerRuns
  <2>5. CASE IsAsked(k)
    BY <1>3, <2>2, <2>3, <2>5 DEF IsAsked
  <2> QED
    BY <2>1, <2>4, <2>5 DEF Watched
<1>4. Lights!LitIsWatched
  BY DEF Looked, Alert, Lights!LitIsWatched
<1> QED
  BY <1>1, <1>2, <1>3, <1>4 DEF Lights!NeverDropped

-----------------------------------------------------------------------------
(* The four together: one of them moves, the others stay as they are        *)

Sound ==
  /\ GivenOnce /\ SessionTypes
  /\ Leg!LegSound
  /\ ManualSound /\ LightsSound /\ Looked

LEMMA InitSound == Init => Sound
<1> SUFFICES ASSUME Init PROVE Sound
  OBVIOUS
<1>1. GivenOnce /\ SessionTypes
  BY InitGivenOnce, InitSessionTypes DEF Init
<1>2. Leg!LegSound
  BY Leg!InitLeg, Assumptions DEF Init, Assumptions
<1>3. ManualSound
  BY InitManual, Assumptions DEF Init, Assumptions
<1>4. LightsSound /\ Looked
  BY InitLights, InitLooked, Assumptions DEF Init, Assumptions
<1> QED
  BY <1>1, <1>2, <1>3, <1>4 DEF Sound

\* A step of the whole is a step or a stutter of each.
LEMMA NextIsEach ==
  ASSUME [Next]_vars
  PROVE  /\ [Session!Next]_(Session!vars) /\ [Leg!Next]_(Leg!vars)
         /\ [Manual!Next]_(Manual!vars) /\ [Lights!Next]_(Lights!vars)
<1>1. UNCHANGED sessionVars => UNCHANGED Session!vars
  BY DEF sessionVars, Session!vars, Session!shared
<1>2. UNCHANGED legVars => UNCHANGED Leg!vars
  BY DEF legVars, Leg!vars, Leg!leg, Leg!budget
<1>3. UNCHANGED manualVars => UNCHANGED Manual!vars
  BY DEF manualVars, Manual!vars, Manual!personal
<1>4. UNCHANGED lightsVars => UNCHANGED Lights!vars
  BY DEF lightsVars, Lights!vars, Lights!system, Lights!display
<1> QED
  BY <1>1, <1>2, <1>3, <1>4 DEF Next, NextSession, NextLeg, NextManual, NextLights, vars

LEMMA NextKeepsSound ==
  ASSUME Sound, [Next]_vars
  PROVE  Sound'
<1>1. GivenOnce' /\ SessionTypes'
  BY NextIsEach, NextGivenOnce, NextSessionTypes DEF Sound
<1>2. Leg!LegSound'
  BY NextIsEach, Leg!NextKeepsLeg, Assumptions DEF Sound, Assumptions
<1>3. ManualSound'
  BY NextIsEach, ManualKeepsSound, Assumptions DEF Sound, Assumptions
<1>4. LightsSound' /\ Looked'
  BY NextIsEach, LightsKeepSound, LightsKeepLooked, Assumptions DEF Sound, Assumptions
<1> QED
  BY <1>1, <1>2, <1>3, <1>4 DEF Sound

LEMMA SoundShows ==
  ASSUME Sound
  PROVE  TypeOK /\ OneCurrent /\ LegGoesOn /\ NotBothGuests /\ KeysLit
<1>1. Session!TypeOK /\ OneCurrent
  BY DEF Sound, SessionTypes, GivenOnce, OneCurrent, Session!OneCurrent
<1>2. Leg!TypeOK /\ LegGoesOn
  BY Leg!ArmedIsTyped, Leg!SustainedShows DEF Sound, Leg!LegSound, Leg!Armed, LegGoesOn
<1>3. Manual!TypeOK /\ NotBothGuests
  BY ManualSoundShows, Assumptions DEF Sound, Assumptions, NotBothGuests
<1>4. Lights!TypeOK /\ KeysLit
  BY LightsSoundShows, Assumptions DEF Sound, Assumptions, KeysLit
<1> QED
  BY <1>1, <1>2, <1>3, <1>4 DEF TypeOK

\* The joint invariant holds in every state of the four.
THEOREM SoundAlways == FairSpec => []Sound
<1>1. Init => Sound
  BY InitSound
<1>2. Sound /\ [Next]_vars => Sound'
  BY NextKeepsSound
<1> QED
  BY <1>1, <1>2, PTL DEF FairSpec

\* Type correctness of the four; the key shown is always the last one held
\* (manager.rs, p2p.rs, manual.rs, keyHighlight.ts).
THEOREM TypeCorrect == FairSpec => []TypeOK
BY SoundAlways, SoundShows, PTL

\* Two sessions are never both current, however many callers start and end them
\* and wherever their accesses fall (start and cancel_current in manager.rs).
THEOREM NeverTwoSessions == FairSpec => []OneCurrent
BY SoundAlways, SoundShows, PTL

\* The side that offers always has a round, a retry or a report that will arm
\* one, and between two devices that are there its round has not come to nothing
\* (Leg::fail, Leg::start and Leg::handle in p2p.rs).
THEOREM LegsGoOn == FairSpec => []LegGoesOn
BY SoundAlways, SoundShows, PTL

\* Two users who paste each other's codes never both wait as guests while the
\* offer to be kept still counts (validate_manual_offer in manager.rs).
THEOREM NeverBothGuests == FairSpec => []NotBothGuests
BY SoundAlways, SoundShows, PTL

\* A key that is down stays lit and stays in the snapshots for the peer, for
\* any delay, any keys and any answers of an earlier round; and whatever is lit
\* has a timer or a question that can put it out (keyAutoRelease.ts,
\* keyHighlight.ts, keepAlive.ts).
THEOREM HeldKeysStayLit == FairSpec => []KeysLit
BY SoundAlways, SoundShows, PTL

=============================================================================
