------------------------------ MODULE Mailbox ------------------------------
(***************************************************************************)
(* What a chat promises about text messages, without connections, queues   *)
(* or retries.  A message that its author has kept is shown to the other   *)
(* side at most once, and never one that was not kept.  The author's       *)
(* double tick may come and go, but it never claims a message that the     *)
(* other side has not stored.                                              *)
(***************************************************************************)
EXTENDS Naturals

CONSTANT Messages

VARIABLES kept,    \* the messages that the author's store has ever held
          shown,   \* how often each message was shown to the other side
          ticked   \* the messages marked as delivered

vars == <<kept, shown, ticked>>

Init ==
  /\ kept = {}
  /\ shown = [m \in Messages |-> 0]
  /\ ticked = {}

Keep(m) ==
  /\ m \notin kept
  /\ kept' = kept \cup {m}
  /\ UNCHANGED <<shown, ticked>>

Show(m) ==
  /\ m \in kept /\ shown[m] = 0
  /\ shown' = [shown EXCEPT ![m] = 1]
  /\ UNCHANGED <<kept, ticked>>

Tick ==
  /\ ticked' \in SUBSET {m \in Messages : shown[m] = 1}
  /\ UNCHANGED <<kept, shown>>

Next == Tick \/ \E m \in Messages : Keep(m) \/ Show(m)

Spec == Init /\ [][Next]_vars
=============================================================================
