----------------------------- MODULE Simulator -----------------------------
(***************************************************************************)
(* What backend.hpp promises of a simulated device: initialize() leaves    *)
(* |0...0>, and apply_gate() acts on the current state with the gate's     *)
(* textbook definition, in one step.  Qubit q is bit q of a basis state.   *)
(* Nothing here is derived from the kernels or from their matrices.        *)
(***************************************************************************)
EXTENDS Gates, Circuits

CONSTANT Widths   \* numbers of qubits

VARIABLES
    psi,       \* basis state -> amplitude; <<>> when the device holds none
    applied    \* the gates applied since initialize()

vars == <<psi, applied>>

-----------------------------------------------------------------------------
(* Textbook definitions *)

Bit(j, q) == (j \div 2^q) % 2
WithBit(j, q, b) == j + (b - Bit(j, q)) * 2^q

Basis(n) == 0 .. 2^n - 1
Ket(j, n) == [i \in Basis(n) |-> IF i = j THEN One ELSE Zero]

\* Matrices are row-major.
Pauli(p) ==
    CASE p = "I" -> <<One, Zero, Zero, One>>
      [] p = "X" -> <<Zero, One, One, Zero>>
      [] p = "Y" -> <<Zero, Complex(0, -1), Complex(0, 1), Zero>>
      [] p = "Z" -> <<One, Zero, Zero, Complex(-1, 0)>>

Scale(a, m) == [k \in 1 .. 4 |-> Times(a, m[k])]
Sum(m1, m2) == [k \in 1 .. 4 |-> Plus(m1[k], m2[k])]
Product(m1, m2) ==
    [k \in 1 .. 4 |->
        LET row == 2 * ((k - 1) \div 2)
            column == (k - 1) % 2 IN
        Plus(Times(m1[row + 1], m2[column + 1]), Times(m1[row + 2], m2[column + 3]))]

\* exp(-i a P / 2)
Rotation(p, a) ==
    Sum(Scale(Complex(Cos(a), 0), Pauli("I")), Scale(Complex(0, -Sin(a)), Pauli(p)))

\* The root of Z that turns |1> by k * pi/8.
ZRoot(k) ==
    Sum(Scale(Times(Complex(16, 0), Plus(One, Phase(k))), Pauli("I")),
        Scale(Times(Complex(16, 0), Plus(One, Phase(k + 8))), Pauli("Z")))

Definition(g) ==
    LET a == [i \in DOMAIN g.args |-> g.args[i].offset]
        sign == IF g.dagger THEN -1 ELSE 1 IN
    CASE g.type \in {"X", "CNOT"} -> Pauli("X")
      [] g.type = "Y" -> Pauli("Y")
      [] g.type \in {"Z", "CZ"} -> Pauli("Z")
      [] g.type = "H" -> Scale(Complex(Cos(2), 0), Sum(Pauli("X"), Pauli("Z")))
      [] g.type = "S" -> ZRoot(sign * 4)
      [] g.type = "T" -> ZRoot(sign * 2)
      [] g.type \in {"RX", "CRX"} -> Rotation("X", a[1])
      [] g.type \in {"RY", "CRY"} -> Rotation("Y", a[1])
      [] g.type \in {"RZ", "CRZ"} -> Rotation("Z", a[1])
      [] g.type = "U" ->
            Scale(Phase(a[2] + a[3]),
                  Product(Rotation("Z", a[2]),
                          Product(Rotation("Y", a[1]), Rotation("Z", a[3]))))

\* A matrix on one qubit, where the control, if any, is set.
Acted(m, control, q, s) ==
    [j \in DOMAIN s |->
        IF \E c \in control : Bit(j, c) = 0 THEN s[j]
        ELSE Plus(Times(m[2 * Bit(j, q) + 1], s[WithBit(j, q, 0)]),
                  Times(m[2 * Bit(j, q) + 2], s[WithBit(j, q, 1)]))]

Exchanged(a, b, s) ==
    [j \in DOMAIN s |-> s[WithBit(WithBit(j, a, Bit(j, b)), b, Bit(j, a))]]

Act(g, s) ==
    CASE g.type = "SWAP" -> Exchanged(g.qubits[1], g.qubits[2], s)
      [] g.type \in OneQubit -> Acted(Definition(g), {}, g.qubits[1], s)
      [] OTHER -> Acted(Definition(g), {g.qubits[1]}, g.qubits[2], s)

-----------------------------------------------------------------------------

Init == psi = <<>> /\ applied = <<>>

Initialize(n) == applied' = <<>> /\ psi' = Ket(0, n)

ApplyGate ==
    /\ psi # <<>> /\ Len(applied') = Len(applied) + 1
    /\ LET g == applied'[Len(applied')] IN
       applied' = Append(applied, g) /\ psi' = Act(g, psi)

\* An initialization that fails may lose the state before it.
Lose == applied' = <<>> /\ psi' = <<>>

Next == (\E n \in Widths : Initialize(n)) \/ ApplyGate \/ Lose

Spec == Init /\ [][Next]_vars
=============================================================================
