-------------------------- MODULE MCRelayAdmission --------------------------
(* Several rooms of both tiers that compete for places: two pairs on the    *)
(* full tier, public rooms of one IP, a wrong token, a wrong tier.          *)
EXTENDS RelayRoom, TLC

CONSTANTS r1, r2, r3, d1, d2, d3, t1, t2, k1, k2, i1, i2

Ask(r, d, t, tier, k, i) ==
  [room |-> r, dev |-> d, token |-> t, tier |-> tier, key |-> k, ip |-> i]
MCRequests ==
  { Ask(r1, d1, t1, "full", k1, i1), Ask(r1, d2, t1, "full", k2, i2),
    Ask(r1, d3, t1, "full", k1, i1), Ask(r1, d1, t2, "public", k1, i1),
    Ask(r2, d1, t1, "full", k2, i2),
    Ask(r3, d1, t1, "public", k1, i1), Ask(r3, d2, t1, "public", k2, i1) }
MCSessions == [full |-> 1, public |-> 2]
MCQueueCap == [full |-> 1, public |-> 1]
Symm == Permutations(Conns)

\* Bounds of the run: nobody sends a data frame, a writer fails only at the
\* end, and a connection is noticed to be old only beside a peer.
Bound ==
  /\ \A c \in Conns : phase[c] # "allowed" /\ (wr[c] = "down" => phase[c] = "done")
  /\ \A c \in old : Others(c) # {}
=============================================================================
