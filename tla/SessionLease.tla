---------------------------- MODULE SessionLease ----------------------------
(***************************************************************************)
(* What the relay promises about its session places, without saying how it *)
(* counts.  A session is leased exactly as long as somebody holds it.      *)
(* Opening a session that nobody holds needs a free place under each of    *)
(* its labels (its tier, the key and the public IP that opened it); taking *)
(* part in a session that is held needs none, however full the relay is.   *)
(* The last holder to leave gives the places back in the same step.        *)
(***************************************************************************)
EXTENDS Naturals, FiniteSets

CONSTANTS Sessions, Holders,
          LabelSets,  \* the sets of labels a session may be opened under
          Places      \* how many sessions each label may have at once

Labels == UNION LabelSets

VARIABLES holders,  \* who holds each session
          labels    \* what each leased session is counted under

vars == <<holders, labels>>

Leased == {s \in Sessions : holders[s] # {}}
Under(l) == {s \in Leased : l \in labels[s]}

Init ==
  /\ holders = [s \in Sessions |-> {}]
  /\ labels = [s \in Sessions |-> {}]

Open(s) ==
  /\ holders[s] = {}
  /\ \E L \in LabelSets :
       /\ \A l \in L : Cardinality(Under(l)) < Places[l]
       /\ labels' = [labels EXCEPT ![s] = L]
  /\ \E h \in Holders : holders' = [holders EXCEPT ![s] = {h}]

Share(s) ==
  /\ holders[s] # {}
  /\ \E h \in Holders \ holders[s] : holders' = [holders EXCEPT ![s] = @ \cup {h}]
  /\ UNCHANGED labels

Leave(s) ==
  \E H \in (SUBSET holders[s]) \ {{}} :
    /\ holders' = [holders EXCEPT ![s] = @ \ H]
    /\ labels' = [labels EXCEPT ![s] = IF H = holders[s] THEN {} ELSE @]

Next == \E s \in Sessions : Open(s) \/ Share(s) \/ Leave(s)

Spec == Init /\ [][Next]_vars

\* No label ever has more leased sessions than places.
WithinPlaces == \A l \in Labels : Cardinality(Under(l)) <= Places[l]
=============================================================================
