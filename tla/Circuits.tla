----------------------------- MODULE Circuits ------------------------------
(***************************************************************************)
(* Circuit: a list of gates, the qubits to read and the number of symbolic *)
(* parameters.  A builder call returns the circuit it leaves; whether it   *)
(* threw is a predicate of its own.  Qubits and parameters count from 0.   *)
(***************************************************************************)
EXTENDS Integers, Sequences, FiniteSets

\* A Param: scale * theta[index] + offset, or offset when index is -1.
Param == [index : Int, scale : Int, offset : Int]
Constant(x) == [index |-> -1, scale |-> 0, offset |-> x]
Free(i) == [index |-> i, scale |-> 1, offset |-> 0]
Scaled(c, a) == [a EXCEPT !.scale = c * @, !.offset = c * @]
IsSymbolic(a) == a.index >= 0
Resolve(a, theta) ==
    IF IsSymbolic(a) THEN a.scale * theta[a.index + 1] + a.offset ELSE a.offset

OneQubit == {"H", "X", "Y", "Z", "S", "T", "U", "RX", "RY", "RZ"}
TwoQubit == {"CNOT", "CZ", "SWAP", "CRX", "CRY", "CRZ"}

Gate(type, qubits, args) ==
    [type |-> type, qubits |-> qubits, args |-> args, dagger |-> FALSE]

\* The Params of a builder.
Arguments(type) ==
    CASE type = "U" -> 3
      [] type \in {"RX", "RY", "RZ", "CRX", "CRY", "CRZ"} -> 1
      [] OTHER -> 0

\* What a builder may be asked for; its qubits need not be those of a circuit.
GateOp ==
    {g \in [type : OneQubit \cup TwoQubit, qubits : Seq(Nat), args : Seq(Param),
            dagger : BOOLEAN] :
        /\ Len(g.qubits) = IF g.type \in OneQubit THEN 1 ELSE 2
        /\ Len(g.args) = Arguments(g.type)}

Dagger(g) == [g EXCEPT !.dagger = TRUE]

NewCircuit(n) == [n |-> n, params |-> 0, ops |-> <<>>, measured |-> <<>>]

\* The checks of the two-qubit builders and of add_gate().
Accepts(c, g) ==
    /\ g.type \in TwoQubit => g.qubits[1] # g.qubits[2]
    /\ \A i \in DOMAIN g.qubits : g.qubits[i] < c.n
    /\ \A i \in DOMAIN g.args : IsSymbolic(g.args[i]) => g.args[i].index < c.params

AddGate(c, g) == [c EXCEPT !.ops = Append(@, g)]
AddGates(c, gates) == [c EXCEPT !.ops = @ \o gates]

NewParams(c, k) == [c EXCEPT !.params = @ + k]
Fresh(c, k) == [i \in 1 .. k |-> Free(c.params + i - 1)]

Measure(c, q) == [c EXCEPT !.measured = Append(@, q)]

GateIsParametric(g) == \E i \in DOMAIN g.args : IsSymbolic(g.args[i])
IsParametric(c) == \E k \in DOMAIN c.ops : GateIsParametric(c.ops[k])

BindAccepts(c, theta) == Len(theta) = c.params

\* bind() without a shift: NativeBatch has the shifts.
BindGate(g, theta) ==
    [g EXCEPT !.args = [i \in DOMAIN @ |-> Constant(Resolve(@[i], theta))]]
Bind(c, theta) ==
    [c EXCEPT !.params = 0, !.ops = [k \in DOMAIN @ |-> BindGate(@[k], theta)]]
=============================================================================
