------------------------------ MODULE MCNocRing ------------------------------
EXTENDS NocRing

\* 16 and 31 bytes in the ring of 64, urgent and not: one may end at the ring's
\* end, the other a byte before it.
MCPackets == {[payloadLength |-> 2, latencyCritical |-> FALSE],
              [payloadLength |-> 17, latencyCritical |-> TRUE]}

\* For the demonstration of TimeoutHonoured, which TimerLoop breaks.
MCDummyPacket == {DummyPacket}
=============================================================================
