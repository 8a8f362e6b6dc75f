------------------------------ MODULE MCClient ------------------------------
(* Parts of the desktop client that run next to each other without touching *)
(* each other's state here: one of them is chosen and moves, the others stay *)
(* as they begin.  Fairness is stated for the part that moves.               *)
EXTENDS Integers, Sequences, FiniteSets, TLC

CONSTANTS
  Callers, MaxSessions, MaxGeneration,
  Small, Large, Connections, Misbuilds, MaxDrops, MaxFaults, MaxLate, MaxSignals,
  Low, High, MaxSpawns, MaxBreaks,
  Keys, Delay, MaxEvents

VARIABLES
  part,
  sender, generation, snapshot, queued, sessions, channel, number, made, held, todo,
  state, sig, ready, knows, offerer, pc, remote, lanes, open, retry, broken, late, drops, faults,
  phase, role, sid, nr, ice, told, described, texts, left, spawned, breaks,
  down, last, pending, quota, timer, probe, waited, fresh, lit, shown, age, sure

sessionVars == <<sender, generation, snapshot, queued, sessions, channel, number, made, held, todo>>
legVars == <<state, sig, ready, knows, offerer, pc, remote, lanes, open, retry, broken, late, drops,
             faults>>
manualVars == <<phase, role, sid, nr, ice, told, described, texts, left, spawned, breaks>>
lightsVars == <<down, last, pending, quota, timer, probe, waited, fresh, lit, shown, age, sure>>
vars == <<part, sessionVars, legVars, manualVars, lightsVars>>

Session == INSTANCE PairSession
Leg == INSTANCE PairLegProofs
Manual == INSTANCE ManualSession WITH remote <- described
Lights == INSTANCE KeyLights

ASSUME Assumptions ==
  /\ Session!SessionAssumption /\ Session!CallerAssumption
  /\ Leg!LegAssumption /\ Manual!ManualAssumption /\ Lights!KeyAssumption

Init ==
  /\ part \in {"session", "leg", "manual", "lights"}
  /\ Session!Init /\ Leg!Init /\ Manual!Init /\ Lights!Init

Moves(p) == part = p /\ UNCHANGED part

NextSession == Moves("session") /\ Session!Next /\ UNCHANGED <<legVars, manualVars, lightsVars>>
NextLeg == Moves("leg") /\ Leg!Next /\ UNCHANGED <<sessionVars, manualVars, lightsVars>>
NextManual == Moves("manual") /\ Manual!Next /\ UNCHANGED <<sessionVars, legVars, lightsVars>>
NextLights == Moves("lights") /\ Lights!Next /\ UNCHANGED <<sessionVars, legVars, manualVars>>
Next == NextSession \/ NextLeg \/ NextManual \/ NextLights

\* The fairness of each module, while it is the one that moves.
Of(p, A) == part = p /\ A

FairSession ==
  /\ \A a \in Session!Actors : WF_sessionVars(Of("session", Session!Access(a)))
  /\ \A c \in Callers : WF_sessionVars(Of("session", Session!Command(c)))
  /\ \A s \in Session!Sessions :
       /\ WF_sessionVars(Of("session", Session!Proceeds(s)))
       /\ SF_sessionVars(Of("session", Session!Reads(s)))

FairLeg ==
  \A d \in Leg!Devices :
    /\ WF_legVars(Of("leg", Leg!Session(d))) /\ WF_legVars(Of("leg", Leg!Read(d)))
    /\ WF_legVars(Of("leg", Leg!Failed(d))) /\ WF_legVars(Of("leg", Leg!Retry(d)))
    /\ WF_legVars(Of("leg", Leg!Expires(d))) /\ WF_legVars(Of("leg", Leg!Open(d)))

FairManual ==
  \A d \in Manual!Users :
    /\ WF_manualVars(Of("manual", Manual!CodeWait(d)))
    /\ WF_manualVars(Of("manual", Manual!Fails(d)))

FairLights ==
  /\ WF_lightsVars(Of("lights", Lights!Handle)) /\ WF_lightsVars(Of("lights", Lights!Tick))
  /\ \A k \in Keys : WF_lightsVars(Of("lights", Lights!Window(k)))

FairSpec == Init /\ [][Next]_vars /\ FairSession /\ FairLeg /\ FairManual /\ FairLights

\* Type correctness of the four.
TypeOK == Session!TypeOK /\ Leg!TypeOK /\ Manual!TypeOK /\ Lights!TypeOK

\* Two sessions are never both current, however starts and disconnections
\* overlap (start and cancel_current in manager.rs).
OneCurrent == Session!OneCurrent

\* A session that the manager has let go ends (fail_hard, run_session).
AbandonedEnds == Session!AbandonedEnds

\* The device that must offer has its retry pending or a round that goes on: no
\* report of a failure is lost between two rounds, and no offer or answer within
\* one (Leg::fail and Leg::handle in p2p.rs).
LegGoesOn == Leg!RetryArmed /\ Leg!RoundGoesOn

\* The direct leg comes up once the offerer has heard the other's hello, after
\* every failed round and late report (drive and Leg::handle in p2p.rs).
HeardComesUp == Leg!HeardComesUp

\* Two users who exchange codes by hand never both answer each other
\* (manual_join in manager.rs).
NotBothGuests == Manual!NotBothGuests

\* No manual session stays in a phase in which the user only waits.
PhaseEnds == Manual!PhaseEnds

\* A key that is down stays lit, here and for the peer, and whatever is lit is
\* looked after (keyAutoRelease.ts).
KeysLit == Lights!LitWhileDown /\ Lights!NeverDropped /\ Lights!LitIsWatched

\* A key whose release was never reported goes dark (keyAutoRelease.ts).
GoesDark == Lights!GoesDark
=============================================================================
