---------------------------- MODULE MCRelayRoom ----------------------------
(* One full room that four connections of three devices come to: the first  *)
(* device twice.  Replacement, staleness, stalled peers, overlapping ends.  *)
EXTENDS RelayRoom, TLC

CONSTANTS r1, d1, d2, d3, t1, k1, i1, c1, c2, c3, c4

Ask(d) == [room |-> r1, dev |-> d, token |-> t1, tier |-> "full", key |-> k1, ip |-> i1]
MCRequests == {Ask(d) : d \in Devices}
MCSessions == [full |-> 1, public |-> 0]
MCQueueCap == [full |-> 1, public |-> 1]

\* Which device comes how often, and the symmetries that leave it as it is.
Comers == (c1 :> d1) @@ (c2 :> d1) @@ (c3 :> d2) @@ (c4 :> d3)
Symm == {f \in Permutations(Conns \cup Devices) : \A c \in Conns : f[c] \in Conns /\ Comers[f[c]] = f[Comers[c]]}

\* Bounds of the run: data frames are sent only between the first two
\* connections, while both are read, and a writer fails only at the end.
Sends(c) == phase[c] \in {"allowed", "forwarding"}
Bound ==
  /\ \A c \in Conns : Dev(c) = Comers[c]
  /\ \A c \in Conns : wr[c] = "down" => phase[c] = "done"
  /\ \A c \in Conns : Sends(c) =>
       /\ queue[c] = <<>>
       /\ \E d \in Conns : phase[d] = "reading" /\ \A e \in Conns \ {c, d} : phase[e] = "new"
=============================================================================
