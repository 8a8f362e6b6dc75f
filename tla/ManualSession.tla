--------------------------- MODULE ManualSession ---------------------------
(***************************************************************************)
(* Pairing by codes that the users carry by hand (manager.rs, manual.rs and *)
(* the manual branches of p2p.rs): a host's offer, a guest's answer, and    *)
(* one connection, never retried.  The users may generate, paste, cancel    *)
(* and start over in any order, and any code may be pasted on either side   *)
(* as long as it has not expired.                                           *)
(*                                                                         *)
(* Abstractions.  A code is its kind, its author and the session it is for; *)
(* both devices use the same secret.  The commands of a window come one at  *)
(* a time, and a session takes them, and what its leg reports, at once.     *)
(* There is no session with a server.                                       *)
(***************************************************************************)
EXTENDS Naturals

CONSTANTS
  Low, High,   \* device ids, in their order
  MaxSpawns,   \* bound: manual sessions started
  MaxBreaks    \* bound: connections that break without a reason here

ManualAssumption == Low # High /\ {MaxSpawns, MaxBreaks} \subseteq Nat

Users == {Low, High}
Other(d) == IF d = Low THEN High ELSE Low

VARIABLES
  phase,   \* ManualPhase, "none" without a ManualStatus
  role,    \* ManualRole, "none" before the first session
  sid,     \* ManualSession::session_id: the number of the session that made it
  nr,      \* the number of the device's own session
  ice,     \* its connection: none, gathering, waiting, checking, up, down
  told,    \* the code of this session has been handed out
  remote,  \* the session whose description the connection has been given
  texts,   \* codes the users have that are not expired
  left,    \* those of them whose author has given the session up
  spawned, breaks

personal == <<phase, role, sid, nr, ice, told, remote>>
vars == <<personal, texts, left, spawned, breaks>>

Init ==
  /\ phase = [d \in Users |-> "none"] /\ role = [d \in Users |-> "none"]
  /\ sid = [d \in Users |-> 0] /\ nr = [d \in Users |-> 0]
  /\ ice = [d \in Users |-> "none"] /\ told = [d \in Users |-> FALSE]
  /\ remote = [d \in Users |-> 0]
  /\ texts = {} /\ left = {} /\ spawned = 0 /\ breaks = MaxBreaks

Code(kind, d) == [kind |-> kind, by |-> d, sid |-> sid[d], nr |-> nr[d]]
Own(d) == Code("offer", d)
GivesUp(d) == left' = left \cup ({Own(d)} \cap texts)
Hosting(d) == role[d] = "host" /\ phase[d] \in {"gathering", "offer"}

-----------------------------------------------------------------------------
(* Commands                                                                *)

\* spawn_manual: the current session is cancelled, its queue dropped with it.
SpawnManual(d, r, s, description) ==
  /\ spawned < MaxSpawns /\ spawned' = spawned + 1
  /\ phase' = [phase EXCEPT ![d] = "gathering"] /\ role' = [role EXCEPT ![d] = r]
  /\ nr' = [nr EXCEPT ![d] = spawned']
  /\ sid' = [sid EXCEPT ![d] = IF r = "host" THEN spawned' ELSE s]
  /\ ice' = [ice EXCEPT ![d] = "gathering"] /\ told' = [told EXCEPT ![d] = FALSE]
  /\ remote' = [remote EXCEPT ![d] = description]
  /\ UNCHANGED <<texts, breaks>>

StartManualOffer(d) ==
  /\ SpawnManual(d, "host", 0, 0)
  /\ GivesUp(d)

Disconnect(d) ==
  /\ phase[d] # "none"
  /\ phase' = [phase EXCEPT ![d] = "none"] /\ ice' = [ice EXCEPT ![d] = "none"]
  /\ sid' = [sid EXCEPT ![d] = 0] /\ nr' = [nr EXCEPT ![d] = 0]
  /\ role' = [role EXCEPT ![d] = "none"] /\ remote' = [remote EXCEPT ![d] = 0]
  /\ told' = [told EXCEPT ![d] = FALSE]
  /\ GivesUp(d)
  /\ UNCHANGED <<texts, spawned, breaks>>

\* Mutant of ValidOffer: whoever pastes an offer becomes the guest.
ValidAnyOffer(d, code) ==
  /\ code.by # d
  /\ phase[d] \notin {"joining", "connected", "answer"}

\* validate_manual_offer: when both have an offer out, the one of the smaller
\* id is kept, as long as it is good.
ValidOffer(d, code) ==
  /\ code.by # d
  /\ phase[d] \notin {"joining", "connected", "answer"}
  /\ ~(Hosting(d) /\ d = Low /\ (phase[d] = "gathering" \/ Own(d) \in texts))

\* join_manual.
JoinManual(d, code) ==
  /\ code.kind = "offer" /\ ValidOffer(d, code)
  /\ SpawnManual(d, "guest", code.sid, code.nr)
  /\ UNCHANGED left

\* Mutant of Expects: the phase is not looked at.
ExpectsAlways(d) == TRUE

Expects(d) == phase[d] = "offer"

\* apply_manual_answer, and live's Command::ManualSignal: the leg takes an
\* answer once.
ApplyManualAnswer(d, code) ==
  /\ sid[d] # 0
  /\ code.kind = "answer" /\ code.by # d /\ code.sid = sid[d] /\ Expects(d)
  /\ phase' = [phase EXCEPT ![d] = "joining"]
  /\ IF ice[d] = "waiting"
     THEN /\ ice' = [ice EXCEPT ![d] = "checking"]
          /\ remote' = [remote EXCEPT ![d] = code.nr]
     ELSE UNCHANGED <<ice, remote>>
  /\ UNCHANGED <<role, sid, nr, told, texts, left, spawned, breaks>>

\* paste_manual, and pair_manual_answer; decode refuses what has expired.
PasteManual(d) ==
  \E code \in texts : JoinManual(d, code) \/ ApplyManualAnswer(d, code)

-----------------------------------------------------------------------------
(* The leg, and what the session publishes of it                           *)

\* emit_code and publish_manual_code, once: with the candidates there are, at
\* the end of gathering or at the deadline that does not wait for it.
PublishCode(d) ==
  LET kind == IF role[d] = "host" THEN "offer" ELSE "answer" IN
  /\ phase' = [phase EXCEPT ![d] = kind]
  /\ texts' = texts \cup {Code(kind, d)}
  /\ UNCHANGED <<left, breaks>>

\* Without candidates there is no code; the leg stays as it is.
NoCandidates(d) ==
  /\ breaks > 0 /\ breaks' = breaks - 1
  /\ phase' = [phase EXCEPT ![d] = "failed"]
  /\ UNCHANGED <<texts, left>>

CodeWait(d) ==
  /\ ice[d] = "gathering" /\ ~told[d]
  /\ told' = [told EXCEPT ![d] = TRUE]
  /\ ice' = [ice EXCEPT ![d] = IF role[d] = "host" THEN "waiting" ELSE "checking"]
  /\ PublishCode(d) \/ NoCandidates(d)
  /\ UNCHANGED <<role, sid, nr, remote, spawned>>

\* Input::Failed, Unreachable: no second round.
Down(d) ==
  /\ ice' = [ice EXCEPT ![d] = "down"]
  /\ phase' = [phase EXCEPT ![d] = "failed"]
  /\ GivesUp(d)
  /\ UNCHANGED <<role, sid, nr, told, remote, texts, spawned>>

NotBuilt(d) == ice[d] = "gathering" /\ breaks > 0 /\ breaks' = breaks - 1 /\ Down(d)

Joined(d) == nr[Other(d)] # 0 /\ remote[d] = nr[Other(d)]

\* Each side has the other's description: both channels open, and the first
\* frame proves them.
Up ==
  /\ \A d \in Users : ice[d] = "checking" /\ Joined(d)
  /\ ice' = [d \in Users |-> "up"]
  /\ phase' = [d \in Users |-> "connected"]
  /\ UNCHANGED <<role, sid, nr, told, remote, texts, left, spawned, breaks>>

\* MANUAL_FAILED_TIMEOUT: the other side does not answer, or has gone.
Fails(d) ==
  /\ ice[d] = "checking" \/ (ice[d] = "up" /\ (ice[Other(d)] # "up" \/ ~Joined(d)))
  /\ Down(d)
  /\ UNCHANGED breaks

Breaks(d) == ice[d] = "up" /\ breaks > 0 /\ breaks' = breaks - 1 /\ Down(d)

\* OFFER_TTL_MS, ANSWER_TTL_MS.
Expire ==
  \E code \in texts :
    /\ texts' = texts \ {code} /\ left' = left \ {code}
    /\ UNCHANGED <<personal, spawned, breaks>>

Command(d) == StartManualOffer(d) \/ PasteManual(d) \/ Disconnect(d)
Leg(d) == CodeWait(d) \/ NotBuilt(d) \/ Fails(d) \/ Breaks(d)

Next ==
  \/ \E d \in Users : Command(d) \/ Leg(d)
  \/ Up \/ Expire

Spec == Init /\ [][Next]_vars

\* Timers of the leg expire.
Fairness == \A d \in Users : WF_vars(CodeWait(d)) /\ WF_vars(Fails(d))

FairSpec == Spec /\ Fairness

-----------------------------------------------------------------------------
(* Correctness                                                             *)

TypeOK ==
  /\ \A d \in Users :
       /\ phase[d] \in {"none", "gathering", "offer", "answer", "joining", "connected", "failed"}
       /\ ice[d] \in {"none", "gathering", "waiting", "checking", "up", "down"}
       /\ phase[d] \in {"answer"} => role[d] = "guest"
       /\ phase[d] \in {"offer", "joining"} => role[d] = "host"
       /\ phase[d] = "gathering" => ice[d] = "gathering" /\ ~told[d]
       /\ phase[d] = "offer" => ice[d] = "waiting"
       /\ phase[d] \in {"answer", "joining"} => ice[d] = "checking"
       /\ phase[d] = "connected" <=> ice[d] = "up"
  /\ left \subseteq texts

\* Two users who paste each other's offers do not both end up as guests that
\* wait for an answer nobody can take, unless the offer that should have been
\* kept was given up or had expired (validate_manual_offer).
Waits(d) == role[d] = "guest" /\ phase[d] \in {"gathering", "answer"}
NotBothGuests ==
  (\A d \in Users : Waits(d) /\ Joined(d) = FALSE /\ sid[d] # 0) =>
    \A code \in texts :
      code.kind = "offer" /\ code.by = Low /\ code.sid = sid[High] =>
        code \in left

\* No panel stays on "generating" or "connecting": it comes to a code, to a
\* connection or to a failure that it shows (apply_manual_answer's phases,
\* CODE_GATHER_TIMEOUT, the leg's failure).
PhaseEnds ==
  \A d \in Users : []<>(phase[d] \notin {"gathering", "answer", "joining"})

=============================================================================
