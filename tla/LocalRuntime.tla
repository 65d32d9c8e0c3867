---------------------------- MODULE LocalRuntime ----------------------------
(***************************************************************************)
(* A caller that builds circuits, gate by gate or with the ansatz library, *)
(* and QuantumRuntime running them on a state-vector backend: initialize,  *)
(* the gates in order, and a reading of the state.                         *)
(***************************************************************************)
EXTENDS StateVector, Ansatz, Translations

CONSTANTS
    Widths,      \* qubits of a circuit
    GateSet,     \* gates a caller adds
    Readable,    \* qubits a caller measures
    Recipes,     \* calls of the ansatz library
    Thetas,      \* parameter vectors, of which bind() is given the first entries
    Hamiltonians,\* observables measured: Pauli strings, or calls of a builder
    MaxCalls,    \* builder calls made (a bound)
    MaxRuns      \* circuits run (a bound)

Entanglements == {"Linear", "Circular", "Full", "Pairwise"}

\* An observable that passes the library's checks of its qubits.
IsHamiltonian(o) ==
    /\ o.n \in Nat
    /\ \/ /\ o.what = "pauli_terms"
          /\ o.terms \in Seq([coeff : Int, paulis : [1 .. o.n -> {"I", "X", "Y", "Z"}]])
       \/ o.what = "ising" /\ {o.J, o.h} \subseteq Int /\ o.periodic \in BOOLEAN
       \/ o.what = "heisenberg" /\ {o.J, o.delta} \subseteq Int /\ o.periodic \in BOOLEAN

\* What QAOA minimises: the cut of a graph, or Pauli strings of the caller's.
IsCost(o) ==
    /\ o.n \in Widths
    /\ \/ o.what = "pauli_terms" /\ IsHamiltonian(o)
       \/ /\ o.what = "maxcut" /\ o.constant \in BOOLEAN
          /\ o.edges \in Seq({e \in [u : 0 .. o.n - 1, v : 0 .. o.n - 1, w : Int] :
                               e.u # e.v /\ e.w % 2 = 0})

\* A call that passes the library's checks of its rotations and edges.
IsRecipe(r) ==
    \/ /\ r.what = "two_local" /\ r.rotations \in Seq({"RX", "RY", "RZ"}) \ {<<>>}
       /\ r.reps \in Nat /\ r.entanglement \in Entanglements
    \/ /\ r.what \in {"real_amplitudes", "efficient_su2"}
       /\ r.reps \in Nat /\ r.entanglement \in Entanglements
    \/ r.what = "basis_state" /\ r.bits \in Nat
    \/ r.what \in {"qaoa_layers", "qaoa"} /\ r.p \in Nat /\ IsCost(r.cost)

\* The angles that spellings halve are even, so that the halves are numbers here.
Halved(g) ==
    g.type \in Controlled =>
        \A i \in DOMAIN g.args : g.args[i].scale % 2 = 0 /\ g.args[i].offset % 2 = 0

ASSUME RuntimeAssumption ==
    /\ Widths \subseteq Nat \ {0}   \* Circuit's constructor throws on no qubits
    /\ Readable \subseteq Nat
    /\ GateSet \subseteq {g \in GateOp : Halved(g)}
    /\ \A r \in Recipes : IsRecipe(r)
    /\ \A o \in Hamiltonians : IsHamiltonian(o)
    /\ Thetas \subseteq Seq(Int)
    /\ {MaxCalls, MaxRuns} \subseteq Nat

VARIABLES
    circuit,     \* the circuit being built and run
    recipe,      \* the ansatz call made last, and the circuit it was made on
    calls,       \* builder calls made
    runs,        \* circuits run
    pc,          \* where the caller is
    rtWidth,     \* the runtime's num_qubits_
    next,        \* gates of the circuit submitted
    result,      \* what the caller was given last
    before,      \* history: the state the kernel in progress started from
    applied      \* history: the gates that made the state

building == <<circuit, recipe, calls>>
history  == <<before, applied>>
vars     == <<kind, mem, width, dim, items, host, circuit, recipe, calls, runs,
              pc, rtWidth, next, result, before, applied>>

None == [what |-> "none"]
Thrown == [what |-> "threw"]

Init ==
    /\ BackendInit
    /\ circuit \in {NewCircuit(n) : n \in Widths}
    /\ recipe = None /\ calls = 0 /\ runs = 0 /\ pc = "build"
    /\ rtWidth = 0 /\ next = 0 /\ result = None
    /\ before = <<>> /\ applied = <<>>

-----------------------------------------------------------------------------
(* Building *)

Built(c, throws, made) ==
    /\ pc = "build" /\ calls < MaxCalls
    /\ calls' = calls + 1
    /\ circuit' = c
    /\ recipe' = made
    /\ result' = IF throws THEN Thrown ELSE None
    /\ UNCHANGED <<backend, runs, pc, rtWidth, next, history>>

AddsGate ==
    \E g \in GateSet :
        IF Accepts(circuit, g) THEN Built(AddGate(circuit, g), FALSE, None)
        ELSE Built(circuit, TRUE, None)

Measures ==
    \E q \in Readable :
        IF q < circuit.n THEN Built(Measure(circuit, q), FALSE, None)
        ELSE Built(circuit, TRUE, None)

AllocatesParameter == Built(NewParams(circuit, 1), FALSE, None)

Made(r) == [what |-> r.what, ask |-> r, from |-> circuit]

Masks(o) ==
    CASE o.what = "pauli_terms" ->
            [k \in DOMAIN o.terms |-> Dense(o.terms[k].coeff, o.terms[k].paulis)]
      [] o.what = "ising" -> IsingChain(o.n, o.J, o.h, o.periodic)
      [] o.what = "heisenberg" -> HeisenbergChain(o.n, o.J, o.delta, o.periodic)
      [] o.what = "maxcut" -> Maxcut(o.n, o.edges, o.constant)

\* Only the call that throws after its gates leaves a circuit that has changed.
CallsLibrary ==
    \E r \in Recipes :
        \/ r.what = "two_local"
           /\ Built(TwoLocal(circuit, r.rotations, r.reps, r.entanglement, r.final),
                    FALSE, Made(r))
        \/ r.what = "real_amplitudes"
           /\ Built(RealAmplitudes(circuit, r.reps, r.entanglement), FALSE, Made(r))
        \/ r.what = "efficient_su2"
           /\ Built(EfficientSU2(circuit, r.reps, r.entanglement), FALSE, Made(r))
        \/ r.what = "basis_state"
           /\ Built(BasisState(circuit, r.bits), BasisStateThrows(circuit, r.bits), Made(r))
        \/ r.what = "qaoa_layers" /\ QaoaAccepts(circuit, r.cost.n, Masks(r.cost))
           /\ Built(QaoaLayers(circuit, Masks(r.cost), r.p), FALSE, Made(r))
        \/ r.what = "qaoa_layers" /\ ~QaoaAccepts(circuit, r.cost.n, Masks(r.cost))
           /\ Built(circuit, TRUE, None)
        \/ r.what = "qaoa" /\ IsDiagonal(Masks(r.cost))
           /\ Built(Qaoa(r.cost.n, Masks(r.cost), r.p), FALSE,
                    [Made(r) EXCEPT !.from = NewCircuit(r.cost.n)])
        \/ r.what = "qaoa" /\ ~IsDiagonal(Masks(r.cost))
           /\ Built(circuit, TRUE, None)

\* Qubits and readout of the bound copy are those of the circuit.
Binds ==
    \E t \in Thetas, missing \in {0, 1} :
        LET theta == SubSeq(t, 1, circuit.params - missing) IN
        /\ circuit.params \in 1 .. Len(t)
        /\ IF BindAccepts(circuit, theta) THEN Built(Bind(circuit, theta), FALSE, None)
           ELSE Built(circuit, TRUE, None)

NextCircuit ==
    /\ pc \in {"ran", "threw", "read"} /\ runs < MaxRuns
    /\ \E n \in Widths : circuit' = NewCircuit(n)
    /\ recipe' = None /\ result' = None
    /\ pc' = "build"
    /\ UNCHANGED <<backend, calls, runs, rtWidth, next, history>>

-----------------------------------------------------------------------------
(* QuantumRuntime::run *)

\* A parametric circuit is refused before anything changes.
Run ==
    /\ pc = "build" /\ runs < MaxRuns
    /\ runs' = runs + 1
    /\ IF IsParametric(circuit)
       THEN pc' = "threw" /\ result' = Thrown /\ UNCHANGED rtWidth
       ELSE pc' = "initialize" /\ result' = None /\ rtWidth' = circuit.n
    /\ recipe' = None
    /\ UNCHANGED <<backend, circuit, calls, next, history>>

Initializes ==
    /\ pc = "initialize" /\ host = "idle"
    /\ InitializeCPU(rtWidth) \/ InitializeGPU(rtWidth)
    /\ pc' = "gates" /\ next' = 0
    /\ before' = <<>> /\ applied' = <<>>
    /\ UNCHANGED <<building, runs, rtWidth, result>>

\* The exception leaves run(), and the runtime's width is the new one.
InitializeFails ==
    /\ pc = "initialize" /\ host = "idle"
    /\ \/ InitializeThrows(rtWidth) /\ UNCHANGED <<backend, history>>
       \/ InitializeCPUFails(rtWidth) /\ UNCHANGED history
       \/ InitializeGPUFails(rtWidth) /\ before' = <<>> /\ applied' = <<>>
    /\ pc' = "threw" /\ result' = Thrown
    /\ UNCHANGED <<building, runs, rtWidth, next>>

SubmitsGate ==
    /\ pc = "gates" /\ next < Len(circuit.ops)
    /\ SubmitKernel(circuit.ops[next + 1])
    /\ next' = next + 1
    /\ before' = mem
    /\ UNCHANGED <<building, runs, pc, rtWidth, result, applied>>

HostWaits ==
    /\ \/ Seed /\ UNCHANGED history
       \/ Wait /\ IF host = "kernel" THEN applied' = SubSeq(circuit.ops, 1, next)
                                          /\ before' = <<>>
                  ELSE UNCHANGED history
    /\ UNCHANGED <<building, runs, pc, rtWidth, next, result>>

DeviceWorks ==
    /\ \E w \in items : Read(w) \/ Write(w)
    /\ UNCHANGED <<building, runs, pc, rtWidth, next, result, history>>

RunReturns ==
    /\ pc = "gates" /\ host = "idle" /\ next = Len(circuit.ops)
    /\ pc' = "ran" /\ next' = 0
    /\ UNCHANGED <<backend, building, runs, rtWidth, result, history>>

-----------------------------------------------------------------------------
(* Reading: sample_counts() and expectation() are run() and then this *)

Given(what, value) ==
    /\ result' = [what |-> what, value |-> value]
    /\ pc' = "read"
    /\ UNCHANGED <<backend, building, runs, rtWidth, next, history>>

\* state_vector(), also after a run that threw.
ReadsState ==
    /\ pc \in {"ran", "threw"}
    /\ IF StateThrows THEN Given("threw", <<>>) ELSE Given("state", mem)

Which ==
    IF circuit.measured = <<>> THEN [k \in 1 .. rtWidth |-> k - 1] ELSE circuit.measured

\* The text of a readout: its last bit first.
Text(readout) == Reverse(readout)

\* One shot of sample_counts(): any index with a nonzero probability.
SamplesOnce ==
    /\ pc = "ran"
    /\ \E j \in Support : Given("shot", Text(Readout(j, Which)))

TakesExpectation ==
    /\ pc = "ran"
    /\ \E o \in Hamiltonians :
          /\ o.n = circuit.n
          /\ IF o.what # "pauli_terms" /\ ~ChainAllowed(o.n, o.periodic)
             THEN Given("threw", <<>>)
             ELSE Given("expectation", [of |-> o, energy |-> ExpectationValue(mem, Masks(o))])

\* The end of qaoa(): of the outcomes sampled, taken in ascending order, the
\* first of the lowest cost.
Cheapest(masks, samples) ==
    LET cost == [j \in samples |-> DiagonalCost(masks, j)] IN
    Min({j \in samples : \A i \in samples : cost[j] <= cost[i]})

TakesAnswer ==
    /\ pc = "ran" /\ circuit.measured = <<>>
    /\ \E r \in Recipes, samples \in SUBSET Support :
          /\ r.what = "qaoa" /\ r.cost.n = circuit.n /\ IsDiagonal(Masks(r.cost))
          /\ Cardinality(samples) \in 1 .. 2
          /\ LET best == Cheapest(Masks(r.cost), samples) IN
             Given("answer", [ask |-> r, samples |-> samples, best |-> best,
                              cost |-> DiagonalCost(Masks(r.cost), best)])

Next ==
    \/ AddsGate \/ Measures \/ AllocatesParameter \/ CallsLibrary \/ Binds
    \/ NextCircuit \/ Run \/ Initializes \/ InitializeFails \/ SubmitsGate
    \/ HostWaits \/ DeviceWorks \/ RunReturns
    \/ ReadsState \/ SamplesOnce \/ TakesExpectation \/ TakesAnswer

Spec == Init /\ [][Next]_vars

-----------------------------------------------------------------------------
(* What is promised *)

\* A gate on as many qubits as its type has, all of the circuit and no two the same.
WellFormed(g, n) ==
    \/ g.type \in OneQubit /\ g.qubits \in [1 .. 1 -> 0 .. n - 1]
    \/ /\ g.type \in TwoQubit /\ g.qubits \in [1 .. 2 -> 0 .. n - 1]
       /\ g.qubits[1] # g.qubits[2]

TypeOK ==
    /\ circuit.n \in Widths /\ circuit.params \in Nat
    /\ \A k \in DOMAIN circuit.ops : WellFormed(circuit.ops[k], circuit.n)
    /\ calls \in 0 .. MaxCalls /\ runs \in 0 .. MaxRuns
    /\ pc \in {"build", "initialize", "gates", "ran", "threw", "read"}
    /\ host \in {"idle", "zeroing", "seeding", "kernel"}
    /\ {rtWidth, width} \subseteq {0} \cup Widths /\ next \in 0 .. Len(circuit.ops)
    /\ kind = "GPU" /\ mem # <<>> => Cardinality(DOMAIN mem) = dim
    /\ \A i \in DOMAIN mem : mem[i] \in (0 .. Prime - 1) \X (0 .. Prime - 1)
    /\ \A w \in items : Len(w.do) = 4 \/ (Len(w.do) = 1 /\ w.read = <<>>)

\* The device as the caller of the backend sees it: between two calls.
Promised == INSTANCE Simulator WITH
    psi <- IF host = "kernel" THEN before ELSE IF host = "idle" THEN mem ELSE <<>>

\* Backend: "Allocate/reset the state vector to |0...0>", "Apply a single gate
\* operation to the current state", on either device, however its work items
\* interleave and whatever failed before.
ImplementsSimulator == Promised!Spec

\* No two work items on their way touch the same amplitude, none is outside of
\* memory that is there, and none is left when run() has returned or thrown.
WorkItemsIndependent ==
    /\ \A w \in items : \A k \in DOMAIN w.cells : w.cells[k] \in DOMAIN mem
    /\ \A v, w \in items : v = w \/
          \A i \in DOMAIN v.cells, k \in DOMAIN w.cells : v.cells[i] # w.cells[k]
    /\ pc \in {"ran", "threw", "read"} => items = {}

\* The one of the two that is not empty: to compare them, TLC computes a state
\* once and for all.
Computed(s) == CHOOSE t \in {<<>>, s} : t # <<>>

RunAll(gates, s) == FoldLeft(LAMBDA t, g : Computed(Promised!Act(g, t)), s, gates)

\* hamiltonians.hpp: "H = -J sum_i Z_i Z_{i+1} - h sum_i X_i", and "H = J sum_i
\* (X_i X_{i+1} + Y_i Y_{i+1} + Delta Z_i Z_{i+1})": as a coefficient for every
\* Pauli string, character k on qubit k.
DocumentedTerms(o) ==
    LET Ends(i) == {i, (i % o.n) + 1}
        bonds == 1 .. (IF o.periodic THEN o.n ELSE o.n - 1)
        Str(p, at) == [k \in 1 .. o.n |-> IF k \in at THEN p ELSE "I"]
        Sites(p, c) == {[coeff |-> c, paulis |-> Str(p, {i})] : i \in 1 .. o.n}
        Links(p, c) == {[coeff |-> c, paulis |-> Str(p, Ends(i))] : i \in bonds} IN
    CASE o.what = "pauli_terms" ->
            {[at |-> k, coeff |-> o.terms[k].coeff, paulis |-> o.terms[k].paulis] :
                k \in DOMAIN o.terms}
      [] o.what = "ising" -> Links("Z", -o.J) \cup Sites("X", -o.h)
      [] o.what = "heisenberg" ->
            Links("X", o.J) \cup Links("Y", o.J) \cup Links("Z", o.J * o.delta)

\* A term's operator, qubit by qubit, and the real part of <s|P|s>.
PauliActed(paulis, s) ==
    FoldLeft(LAMBDA t, k : Computed(Promised!Acted(Promised!Pauli(paulis[k]), {}, k - 1, t)),
             s, [k \in DOMAIN paulis |-> k])

Inner(s, t) == FoldSet(LAMBDA j, v : Plus(v, Times(Conj(s[j]), t[j])), Zero, DOMAIN s)

\* What a string of Z and I makes of basis state j: qubit k - 1 at character k.
Eigenvalue(paulis, j) ==
    LET ones == {k \in DOMAIN paulis : paulis[k] = "Z" /\ Promised!Bit(j, k - 1) = 1} IN
    IF Cardinality(ones) % 2 = 1 THEN -1 ELSE 1

\* The value of a diagonal cost on basis state j: for a graph "exactly -(weight
\* of the edges cut)", up to the constant.
CostValue(o, j) ==
    CASE o.what = "maxcut" ->
            (IF o.constant THEN 0 ELSE FoldLeft(LAMBDA w, e : w + e.w, 0, o.edges) \div 2)
                - CutValue(o.edges, j)
      [] o.what = "pauli_terms" ->
            FoldLeft(LAMBDA v, t : v + t.coeff * Eigenvalue(t.paulis, j), 0, o.terms)

\* What the caller reads is of the circuit it built: a shot is an outcome of the
\* final state, its text having the qubit measured first as its last character;
\* an expectation is that of the observable's Pauli strings; the answer of
\* qaoa() is an outcome sampled that no other has less cost than, at its cost.
ReadsTheCircuit ==
    pc = "read" =>
        LET final == RunAll(circuit.ops, Promised!Ket(0, circuit.n))
            qubits == IF circuit.measured # <<>> THEN circuit.measured
                      ELSE [k \in 1 .. circuit.n |-> k - 1]
            Energy(t) == t.coeff * Inner(final, PauliActed(t.paulis, final))[1]
            v == result.value IN
        CASE result.what = "shot" ->
                \E j \in DOMAIN final :
                    /\ final[j] # Zero
                    /\ Reverse(v) = [k \in DOMAIN qubits |-> Promised!Bit(j, qubits[k])]
          [] result.what = "expectation" ->
                v.energy = FoldSet(LAMBDA t, e : (e + Energy(t)) % Prime, 0,
                                   DocumentedTerms(v.of))
          [] result.what = "answer" ->
                /\ v.best \in v.samples /\ final[v.best] # Zero
                /\ \A j \in v.samples :
                      CostValue(v.ask.cost, v.best) <= CostValue(v.ask.cost, j)
                /\ v.cost = CostValue(v.ask.cost, v.best)
          [] result.what \in {"state", "threw"} -> TRUE

-----------------------------------------------------------------------------
(* The ansatz library's documentation *)

Added(from, c) == SubSeq(c.ops, Len(from.ops) + 1, Len(c.ops))

DocumentedPairs(n, e) ==
    LET q == 0 .. n - 1 IN
    {p \in q \X q :
        \/ e = "Full" /\ p[1] < p[2]
        \/ e # "Full" /\ p[2] = p[1] + 1
        \/ e = "Circular" /\ n > 2 /\ p = <<n - 1, 0>>}

\* "[rotation layer, entangling block] x reps, then a final rotation layer",
\* parameters "layer by layer; within a layer, rotation by rotation; within a
\* rotation, qubit 0..n-1"; a pairwise block in two layers.
LayeredAsDocumented(from, c, rotations, reps, e, final) ==
    LET n == c.n
        layer == n * Len(rotations)
        pairs == DocumentedPairs(n, e)
        block == layer + Cardinality(pairs)
        layers == reps + (IF final THEN 1 ELSE 0)
        gates == Added(from, c)
        Cnot(r, i) == gates[(r - 1) * block + layer + i] IN
    /\ c.params = from.params + layers * layer
    /\ Len(gates) = layers * layer + reps * Cardinality(pairs)
    /\ \A l \in 1 .. layers, k \in 1 .. layer :
          gates[(l - 1) * block + k] =
              Gate(rotations[((k - 1) \div n) + 1], <<(k - 1) % n>>,
                   <<Free(from.params + (l - 1) * layer + k - 1)>>)
    /\ \A r \in 1 .. reps :
          /\ \A i \in 1 .. Cardinality(pairs) : Cnot(r, i).type = "CNOT"
          /\ {Cnot(r, i).qubits : i \in 1 .. Cardinality(pairs)} = pairs
          /\ e = "Pairwise" => \A i, k \in 1 .. Cardinality(pairs) :
                i < k => Cnot(r, i).qubits[1] % 2 <= Cnot(r, k).qubits[1] % 2

\* One layer: exp(-i gamma C), and then exp(-i beta X) on every qubit.
DocumentedLayer(n, cost, gamma, beta, s) ==
    FoldLeft(LAMBDA t, q : Computed(Promised!Acted(Promised!Rotation("X", 2 * beta), {}, q, t)),
             [j \in DOMAIN s |-> Times(Phase(-2 * gamma * CostValue(cost, j)), s[j])],
             [q \in 1 .. n |-> q - 1])

DocumentedLayers(n, cost, p, at, theta, s) ==
    FoldLeft(LAMBDA t, l : DocumentedLayer(n, cost, theta[at + 2 * l - 1], theta[at + 2 * l], t),
             s, [l \in 1 .. p |-> l])

\* qaoa() has "H on every qubit" first.
QaoaAsDocumented(from, c, cost, p, start) ==
    /\ c.params = from.params + 2 * p
    /\ \A theta \in {t \in Thetas : Len(t) >= c.params} :
          LET gates == Bind([c EXCEPT !.ops = Added(from, c)], theta).ops
              Meant(s) == DocumentedLayers(c.n, cost, p, from.params, theta, s)
              kets == [j \in Promised!Basis(c.n) |-> Promised!Ket(j, c.n)]
              ran == Computed([j \in DOMAIN kets |-> RunAll(gates, kets[j])])
              meant == Computed([j \in DOMAIN kets |-> Meant(RunAll(start, kets[j]))]) IN
          \E global \in 0 .. 15 : \A i, j \in DOMAIN kets :
              ran[j][i] = Times(Phase(global), meant[j][i])

\* What call r of the library makes of circuit from.  Nothing is claimed of the
\* call without repetitions and without a final layer: the documentation gives it
\* no layer, and the code one.
AsDocumented(from, c, r) ==
    CASE r.what = "two_local" ->
            \/ r.reps = 0 /\ ~r.final
            \/ LayeredAsDocumented(from, c, r.rotations, r.reps, r.entanglement, r.final)
      [] r.what = "real_amplitudes" ->
            LayeredAsDocumented(from, c, <<"RY">>, r.reps, r.entanglement, TRUE)
      [] r.what = "efficient_su2" ->
            LayeredAsDocumented(from, c, <<"RY", "RZ">>, r.reps, r.entanglement, TRUE)
      [] r.what = "basis_state" ->
            RunAll(Added(from, c), Promised!Ket(0, c.n)) = Promised!Ket(r.bits, c.n)
      [] r.what = "qaoa_layers" -> QaoaAsDocumented(from, c, r.cost, r.p, <<>>)
      [] r.what = "qaoa" ->
            QaoaAsDocumented(from, c, r.cost, r.p,
                             [q \in 1 .. c.n |-> Gate("H", <<q - 1>>, <<>>)])

\* ansatz.hpp, of what a call of the library that returned has added.
AnsatzAsDocumented ==
    recipe # None /\ result = None => AsDocumented(recipe.from, circuit, recipe.ask)

-----------------------------------------------------------------------------
(* The remote backends' spellings *)

\* What qelib1.inc and CUNQA mean by an instruction.
Meaning(i) ==
    LET args == [k \in DOMAIN i.angles |-> Constant(i.angles[k])] IN
    CASE i.label = "CX" -> Gate("CNOT", i.qubits, args)
      [] i.label = "SDG" -> Dagger(Gate("S", i.qubits, args))
      [] i.label = "TDG" -> Dagger(Gate("T", i.qubits, args))
      [] OTHER -> Gate(i.label, i.qubits, args)

\* On every basis state of the qubits up to the gate's last.
SameAction(g, spelling) ==
    LET n == 1 + Max(Range(g.qubits))
        gates == [k \in DOMAIN spelling |-> Meaning(spelling[k])] IN
    \A j \in Promised!Basis(n) :
        RunAll(gates, Promised!Ket(j, n)) = Promised!Act(g, Promised!Ket(j, n))

\* The gate whose angle the text keeps: that of half the angle, where the half is
\* what is written.
Rounded(g) ==
    [g EXCEPT !.args = [i \in DOMAIN @ |->
        Constant(IF g.type \in Controlled THEN 2 * Printed(@[i].offset \div 2)
                 ELSE Printed(@[i].offset))]]

\* A gate sent to a remote backend does what the simulators do for it, on every
\* state, up to the digits of its angle; only U is refused, and by both.
TranslationIsExact ==
    ~IsParametric(circuit) /\ pc = "build" =>
        \A g \in Range(circuit.ops) :
            IF g.type = "U" THEN CunqaSpelling(g) = Refused /\ QasmSpelling(g) = Refused
            ELSE SameAction(g, CunqaSpelling(g)) /\ SameAction(Rounded(g), QasmSpelling(g))
=============================================================================
