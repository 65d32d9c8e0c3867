--------------------------- MODULE MCCunqaBackend ---------------------------
EXTENDS CunqaBackend, TLC

\* The first vQPU of the registry is wider than the second.
Widest1 == (1 :> 2) @@ (2 :> 1)

\* Symmetric cluster: every circuit fits everywhere.
Wide == [q \in Vqpus |-> 2]
=============================================================================
