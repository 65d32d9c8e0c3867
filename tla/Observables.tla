---------------------------- MODULE Observables ----------------------------
(***************************************************************************)
(* Observable: Pauli strings as masks, its expectation value, and the      *)
(* Hamiltonian builders.  The two bit masks of a term are sets of qubits.  *)
(***************************************************************************)
EXTENDS Gates, FiniteSetsExt, SequencesExt

\* A term from its factors, <<Pauli, qubit>>, each qubit once.
Mask(coeff, factors) ==
    LET on(paulis) == {f[2] : f \in {g \in factors : g[1] \in paulis}} IN
    [coeff |-> coeff, x |-> on({"X", "Y"}), z |-> on({"Y", "Z"}),
     ny |-> Cardinality(on({"Y"}))]

\* The dense form: character k acts on qubit k.
Dense(coeff, paulis) ==
    Mask(coeff, {<<paulis[k], k - 1>> : k \in {i \in DOMAIN paulis : paulis[i] # "I"}})

IsDiagonal(masks) == \A t \in DOMAIN masks : masks[t].x = {}

\* Bits of basis state j are tested and flipped with the masks.
Set(j, q) == (j \div 2^q) % 2 = 1
Odd(j, mask) == Cardinality({q \in mask : Set(j, q)}) % 2 = 1
Flip(j, mask) ==
    j + FoldSet(LAMBDA q, s : s + (IF Set(j, q) THEN -(2^q) ELSE 2^q), 0, mask)

Signed(odd, a) == IF odd THEN Complex(-a[1], -a[2]) ELSE a

\* The entry of an observable with Z and I only.
DiagonalCost(masks, j) ==
    FoldLeft(LAMBDA v, m : v + (IF Odd(j, m.z) THEN -m.coeff ELSE m.coeff), 0, masks)

TimesPowerOfI_Reversed(ny, a) ==
    CASE ny % 4 = 0 -> a
      [] ny % 4 = 1 -> <<a[2], -a[1]>>
      [] ny % 4 = 2 -> <<-a[1], -a[2]>>
      [] ny % 4 = 3 -> <<-a[2], a[1]>>

\* Multiplication by i^ny.
TimesPowerOfI(ny, a) ==
    CASE ny % 4 = 0 -> a
      [] ny % 4 = 1 -> <<-a[2], a[1]>>
      [] ny % 4 = 2 -> <<-a[1], -a[2]>>
      [] ny % 4 = 3 -> <<a[2], -a[1]>>

\* sum_j conj(psi[j ^ x]) (-1)^{parity(j & z)} psi[j]
TermSum(psi, m) ==
    FoldSet(LAMBDA j, s :
                Plus(s, Signed(Odd(j, m.z), Times(Conj(psi[Flip(j, m.x)]), psi[j]))),
            Zero, DOMAIN psi)

ExpectationValue(psi, masks) ==
    FoldLeft(LAMBDA v, m : (v + m.coeff * TimesPowerOfI(m.ny, TermSum(psi, m))[1]) % Prime,
             0, masks)

-----------------------------------------------------------------------------
(* hamiltonians.cpp *)

\* Edges are records of two endpoints and an even weight.
Maxcut(n, edges, constant) ==
    LET total == FoldLeft(LAMBDA s, e : s - e.w \div 2, 0, edges) IN
    [k \in DOMAIN edges |->
        Mask(edges[k].w \div 2, {<<"Z", edges[k].u>>, <<"Z", edges[k].v>>})]
        \o (IF constant /\ total # 0 THEN <<Mask(total, {})>> ELSE <<>>)

CutValue(edges, bits) ==
    FoldLeft(LAMBDA s, e : IF Set(bits, e.u) # Set(bits, e.v) THEN s + e.w ELSE s, 0, edges)

\* Periodic chains have at least three sites, open ones two.
ChainAllowed(n, periodic) == n >= (IF periodic THEN 3 ELSE 2)

Bonds(n, periodic) == [i \in 1 .. (IF periodic THEN n ELSE n - 1) |-> <<i - 1, i % n>>]

Pair(coeff, p, bond) == Mask(coeff, {<<p, bond[1]>>, <<p, bond[2]>>})

IsingChain(n, J, h, periodic) ==
    LET bonds == Bonds(n, periodic) IN
    [b \in DOMAIN bonds |-> Pair(-J, "Z", bonds[b])]
        \o (IF h = 0 THEN <<>> ELSE [q \in 1 .. n |-> Mask(-h, {<<"X", q - 1>>})])

HeisenbergChain(n, J, delta, periodic) ==
    FoldLeft(LAMBDA terms, bond :
                 terms \o <<Pair(J, "X", bond), Pair(J, "Y", bond)>>
                       \o (IF delta = 0 THEN <<>> ELSE <<Pair(J * delta, "Z", bond)>>),
             <<>>, Bonds(n, periodic))
=============================================================================
