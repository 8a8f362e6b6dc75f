--------------------------- MODULE MCRelayFrames ---------------------------
(* One full room with every step of the relay: data frames that fill the    *)
(* queues, writers that fail, any devices.                                  *)
EXTENDS RelayRoom, TLC

MCRequests ==
  {[room |-> r, dev |-> d, token |-> t, tier |-> "full", key |-> k, ip |-> i] :
     r \in RoomIds, d \in Devices, t \in Tokens, k \in Keys, i \in Ips}
MCSessions == [full |-> 1, public |-> 0]
MCQueueCap == [full |-> 1, public |-> 1]
Symm == Permutations(Conns) \cup Permutations(Devices)
=============================================================================
