------------------------------- MODULE MCSnull ------------------------------
EXTENDS Snull

\* sn0 is asked to transmit two packets, sn1 one: each finds packets of the
\* other on its way, and with pools of one the queue of sn0 must stop.
Asked == [d \in Ifs |-> 2 - d]
=============================================================================
