--------------------------- MODULE MCNativeBatch ---------------------------
EXTENDS NativeBatch

\* A gate without angles, RX of a constant and of either parameter, CRX, and U
\* with a constant between two parameters.
SomeGates ==
    {[kind |-> "fixed", args |-> <<>>],
     [kind |-> "shiftable", args |-> <<0>>],
     [kind |-> "shiftable", args |-> <<1>>],
     [kind |-> "shiftable", args |-> <<2>>],
     [kind |-> "rotating", args |-> <<1>>],
     [kind |-> "rotating", args |-> <<1, 0, 2>>]}
=============================================================================
