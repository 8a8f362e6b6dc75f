----------------------------- MODULE MCTransfer -----------------------------
EXTENDS Transfer
MCMsgs == {1, 2}
MCChunks == <<2, 0>>
MCSlots == [A |-> 1, B |-> 2]
MCBig == {1}
=============================================================================
