--------------------------- MODULE MCLocalRuntime ---------------------------
EXTENDS LocalRuntime

Angle(type, qubits, a) == Gate(type, qubits, <<Constant(a)>>)

\* Every type, and for those on two qubits both orders and a distance of two.
SomeGates ==
    {Gate("H", <<0>>, <<>>), Gate("X", <<1>>, <<>>), Gate("Y", <<0>>, <<>>),
     Gate("Z", <<2>>, <<>>), Gate("S", <<0>>, <<>>), Dagger(Gate("S", <<2>>, <<>>)),
     Gate("T", <<1>>, <<>>), Dagger(Gate("T", <<0>>, <<>>)),
     Gate("U", <<1>>, <<Constant(1), Constant(2), Constant(3)>>),
     Angle("RX", <<2>>, 1), Angle("RY", <<1>>, 3), Angle("RZ", <<0>>, -5),
     Gate("CNOT", <<0, 2>>, <<>>), Gate("CNOT", <<2, 1>>, <<>>),
     Gate("CZ", <<1, 0>>, <<>>), Gate("SWAP", <<2, 0>>, <<>>),
     Angle("CRX", <<2, 0>>, 6), Angle("CRY", <<0, 1>>, 2), Angle("CRZ", <<1, 2>>, -2),
     \* two that are refused, and one that is until a parameter is allocated
     Gate("CZ", <<1, 1>>, <<>>), Gate("X", <<4>>, <<>>),
     Gate("RX", <<0>>, <<Scaled(2, Free(0))>>)}

Local(rotations, reps, e, final) ==
    [what |-> "two_local", rotations |-> rotations, reps |-> reps,
     entanglement |-> e, final |-> final]

Triangle == <<[u |-> 0, v |-> 1, w |-> 2], [u |-> 2, v |-> 0, w |-> 4]>>

Cut(constant) == [what |-> "maxcut", n |-> 3, edges |-> Triangle, constant |-> constant]

Term(coeff, paulis) == [coeff |-> coeff, paulis |-> paulis]

Strings(n, terms) == [what |-> "pauli_terms", n |-> n, terms |-> terms]

\* A term on every qubit, one on a single qubit, and the identity.
Diagonal == Strings(3, <<Term(1, <<"Z", "Z", "Z">>), Term(-2, <<"I", "Z", "I">>),
                         Term(3, <<"I", "I", "I">>)>>)

SomeRecipes ==
    {Local(<<"RX">>, 1, "Full", FALSE), Local(<<"RZ", "RY">>, 0, "Linear", FALSE),
     Local(<<"RX", "RZ">>, 0, "Full", TRUE), Local(<<"RY">>, 2, "Circular", TRUE),
     [what |-> "real_amplitudes", reps |-> 1, entanglement |-> "Pairwise"],
     [what |-> "efficient_su2", reps |-> 1, entanglement |-> "Linear"],
     [what |-> "basis_state", bits |-> 5], [what |-> "basis_state", bits |-> 1],
     [what |-> "qaoa_layers", cost |-> Cut(TRUE), p |-> 1],
     [what |-> "qaoa_layers", cost |-> Cut(FALSE), p |-> 2],
     [what |-> "qaoa", cost |-> Cut(FALSE), p |-> 1],
     [what |-> "qaoa", cost |-> Diagonal, p |-> 1],
     \* one that is refused, for its X
     [what |-> "qaoa", cost |-> Strings(1, <<Term(1, <<"X">>)>>), p |-> 1]}

SomeThetas == {[i \in 1 .. 40 |-> (3 * i + 1) % 8]}

SomeHamiltonians ==
    {Strings(1, <<Term(1, <<"Z">>), Term(2, <<"Y">>)>>),
     Strings(3, <<Term(1, <<"X", "Y", "Z">>), Term(2, <<"I", "Y", "Y">>),
                  Term(3, <<"Y", "Y", "Y">>)>>),
     [what |-> "ising", n |-> 1, J |-> 1, h |-> 0, periodic |-> FALSE],
     [what |-> "ising", n |-> 3, J |-> 2, h |-> 1, periodic |-> FALSE],
     [what |-> "heisenberg", n |-> 3, J |-> 1, delta |-> 3, periodic |-> TRUE]}
=============================================================================
