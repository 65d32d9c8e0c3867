------------------------------- MODULE Ansatz ------------------------------
(***************************************************************************)
(* The ansatz library: every append_xxx as the circuit it leaves.          *)
(***************************************************************************)
EXTENDS Circuits, Observables

Evens(n) == [i \in 1 .. n \div 2 |-> <<2 * i - 2, 2 * i - 1>>]
Odds(n) == [i \in 1 .. (n - 1) \div 2 |-> <<2 * i - 1, 2 * i>>]
Chain(n) == [i \in 1 .. n - 1 |-> <<i - 1, i>>]
AllPairs(n) ==
    FoldLeft(LAMBDA s, i : s \o [k \in 1 .. n - 1 - i |-> <<i, i + k>>],
             <<>>, [i \in 1 .. n |-> i - 1])

EntanglementPairs(n, e) ==
    CASE n < 2 -> <<>>
      [] n >= 2 /\ e = "Linear" -> Chain(n)
      [] n >= 2 /\ e = "Circular" -> Chain(n) \o (IF n > 2 THEN <<<<n - 1, 0>>>> ELSE <<>>)
      [] n >= 2 /\ e = "Full" -> AllPairs(n)
      [] n >= 2 /\ e = "Pairwise" -> Evens(n) \o Odds(n)

\* One rotation of a layer: RX, RY or RZ, with a parameter of its own on every qubit.
RotationLayer(c, axis) ==
    AddGates(NewParams(c, c.n),
             [q \in 1 .. c.n |-> Gate(axis, <<q - 1>>, <<Fresh(c, c.n)[q]>>)])

Layer(c, rotations) == FoldLeft(RotationLayer, c, rotations)

Entangle(c, e) ==
    LET pairs == EntanglementPairs(c.n, e) IN
    AddGates(c, [k \in DOMAIN pairs |-> Gate("CNOT", pairs[k], <<>>)])

\* append_two_local: without a repetition the final layer is never left out.
TwoLocal(c, rotations, reps, e, final) ==
    LET repeated == FoldLeft(LAMBDA d, r : Entangle(Layer(d, rotations), e),
                             c, [r \in 1 .. reps |-> r]) IN
    IF final \/ reps = 0 THEN Layer(repeated, rotations) ELSE repeated

RealAmplitudes(c, reps, e) == TwoLocal(c, <<"RY">>, reps, e, TRUE)
EfficientSU2(c, reps, e) == TwoLocal(c, <<"RY", "RZ">>, reps, e, TRUE)

\* The qubits of a set, in ascending order.
Ascending(n, set) ==
    FoldLeft(LAMBDA s, q : IF q \in set THEN Append(s, q) ELSE s,
             <<>>, [q \in 1 .. n |-> q - 1])

\* append_basis_state: bits beyond the circuit are refused only after the X
\* gates of the others are in the circuit.
BasisState(c, bits) ==
    LET set == Ascending(c.n, {q \in 0 .. c.n - 1 : Set(bits, q)}) IN
    AddGates(c, [k \in DOMAIN set |-> Gate("X", <<set[k]>>, <<>>)])
BasisStateThrows(c, bits) == bits \div 2^c.n # 0

-----------------------------------------------------------------------------
(* QAOA *)

CostGadget_NoFanOut(c, m, gamma) ==
    LET qs == Ascending(c.n, m.z)
        fanIn == [k \in 1 .. Len(qs) - 1 |-> Gate("CNOT", <<qs[k], Last(qs)>>, <<>>)] IN
    IF m.z = {} THEN c
    ELSE AddGates(c, fanIn
                     \o <<Gate("RZ", <<Last(qs)>>, <<Scaled(2 * m.coeff, gamma)>>)>>)

\* A cost term: fan-in onto its last qubit, RZ, fan-out in reverse order.
CostGadget(c, m, gamma) ==
    LET qs == Ascending(c.n, m.z)
        fanIn == [k \in 1 .. Len(qs) - 1 |-> Gate("CNOT", <<qs[k], Last(qs)>>, <<>>)] IN
    IF m.z = {} THEN c
    ELSE AddGates(c, fanIn
                     \o <<Gate("RZ", <<Last(qs)>>, <<Scaled(2 * m.coeff, gamma)>>)>>
                     \o Reverse(fanIn))

QaoaLayer(c, masks) ==
    LET gamma == Free(c.params)
        beta == Free(c.params + 1)
        costs == FoldLeft(LAMBDA d, m : CostGadget(d, m, gamma), NewParams(c, 2), masks) IN
    AddGates(costs, [q \in 1 .. c.n |-> Gate("RX", <<q - 1>>, <<Scaled(2, beta)>>)])

QaoaAccepts(c, n, masks) == c.n = n /\ IsDiagonal(masks)

QaoaLayers(c, masks, p) ==
    FoldLeft(LAMBDA d, l : QaoaLayer(d, masks), c, [l \in 1 .. p |-> l])

Qaoa(n, masks, p) ==
    QaoaLayers(AddGates(NewCircuit(n), [q \in 1 .. n |-> Gate("H", <<q - 1>>, <<>>)]),
               masks, p)
=============================================================================
