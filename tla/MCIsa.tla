------------------------------- MODULE MCIsa -------------------------------
EXTENDS Isa
\* Every code of the AMO group and the privileged instructions, which have more bits.
MCSamples ==
    {OP_AMO \cup {13} \cup hi : hi \in SUBSET (27 .. 31)}
    \cup {OP_SYSTEM \cup Shl(t[1], 20) : t \in PrivTypes}
    \cup {OP_SYSTEM \cup {25, 28, b} : b \in 7 .. 31}
=============================================================================
