-------------------------- MODULE LocalRuntimeProofs ------------------------
(***************************************************************************)
(* The circuits a caller makes, the work items of the simulators' kernels, *)
(* that the kernels do what the gates are defined to do, and that so do    *)
(* the instructions a remote backend is sent, for circuits of every width  *)
(* and calls of every size.                                                *)
(***************************************************************************)
EXTENDS LocalRuntime, FiniteSetTheorems, SequenceTheorems, WellFoundedInduction, TLAPS

-----------------------------------------------------------------------------
(* Induction, and what a fold computes *)

Less == OpToRel(<, Nat)

LEMMA LeastNumber ==
    ASSUME NEW T \in SUBSET Nat, T # {}
    PROVE  \E m \in T : \A k \in T : m <= k
<1>1. PICK m \in T : \A k \in T : ~ (<<k, m>> \in Less)
  BY WFMin, NatLessThanWellFounded, Zenon DEF Less
<1>2. ASSUME NEW k \in T, ~ (m <= k) PROVE FALSE
  <2>1. k \in Nat /\ m \in Nat /\ k < m
    BY <1>2
  <2>2. <<k, m>> \in Less
    BY <2>1, Zenon DEF Less, OpToRel
  <2> QED BY <1>1, <2>2
<1> QED BY <1>2

\* Induction up to n, for the numbers of a set.
LEMMA Climb ==
    ASSUME NEW n \in Nat, NEW T, 0 \in T, \A k \in 1 .. n : k - 1 \in T => k \in T
    PROVE  \A k \in 0 .. n : k \in T
<1> DEFINE Missing == {k \in 0 .. n : k \notin T}
<1> SUFFICES ASSUME Missing # {} PROVE FALSE
  OBVIOUS
<1>1. PICK m \in Missing : \A k \in Missing : m <= k
  <2>1. Missing \in SUBSET Nat
    OBVIOUS
  <2> HIDE DEF Missing
  <2> QED BY <2>1, LeastNumber
<1>2. m # 0 /\ m \in 1 .. n
  OBVIOUS
<1>3. m - 1 \notin Missing /\ m - 1 \in 0 .. n
  BY <1>1, <1>2
<1> QED BY <1>2, <1>3

LEMMA Greatest ==
    ASSUME NEW n \in Nat, NEW S \in SUBSET (1 .. n), S # {}
    PROVE  Max(S) \in S /\ \A k \in S : k <= Max(S)
<1> DEFINE T == {n - k : k \in S}
<1>1. T \in SUBSET Nat /\ T # {}
  <2>1. \A k \in S : n - k \in Nat
    OBVIOUS
  <2> QED BY <2>1
<1>2. PICK m \in T : \A k \in T : m <= k
  <2> HIDE DEF T
  <2> QED BY <1>1, LeastNumber
<1>3. PICK x \in S : m = n - x
  OBVIOUS
<1>4. ASSUME NEW k \in S PROVE x >= k
  <2>1. n - k \in T
    OBVIOUS
  <2>2. n - x <= n - k
    <3> HIDE DEF T
    <3> QED BY <1>2, <1>3, <2>1
  <2>3. x \in 1 .. n /\ k \in 1 .. n
    OBVIOUS
  <2> QED BY <2>2, <2>3
<1>5. Max(S) \in S /\ \A k \in S : Max(S) >= k
  BY <1>3, <1>4 DEF Max
<1> QED BY <1>5

LEMMA GreatestOfAll ==
    ASSUME NEW n \in Nat \ {0}
    PROVE  Max(1 .. n) = n /\ (1 .. n) \ {n} = 1 .. n - 1
<1>1. n \in 1 .. n
  OBVIOUS
<1>2. Max(1 .. n) \in 1 .. n /\ n <= Max(1 .. n)
  BY <1>1, Greatest
<1> QED BY <1>2

LEMMA PartOfAll ==
    ASSUME NEW n \in Nat, NEW k \in 1 .. n
    PROVE  1 .. k \in SUBSET (1 .. n) /\ 1 .. k # {} /\ k \in Nat \ {0}
<1>1. k \in 1 .. k /\ \A j \in 1 .. k : j \in 1 .. n
  OBVIOUS
<1> QED BY <1>1

\* The function a fold is defined by exists, ...
Folds(it, n, base, step, V) ==
    /\ it \in [SUBSET (1 .. n) -> V]
    /\ \A S \in SUBSET (1 .. n) :
          it[S] = IF S = {} THEN base ELSE step[<<it[S \ {Max(S)}], Max(S)>>]

LEMMA FoldExists ==
    ASSUME NEW n \in Nat, NEW V, NEW base \in V, NEW step,
           \A v \in V, k \in 1 .. n : step[<<v, k>>] \in V
    PROVE  \E it : Folds(it, n, base, step, V)
<1> DEFINE Follows(it, k) == Folds(it, k, base, step, V)
           T == {k \in 0 .. n : \E it : Follows(it, k)}
<1> USE DEF Folds
<1>1. 0 \in T
  <2> DEFINE it == [S \in SUBSET (1 .. 0) |-> base]
  <2>1. Follows(it, 0)
    OBVIOUS
  <2> HIDE DEF Follows, it
  <2> QED BY <2>1
<1>2. ASSUME NEW k \in 1 .. n, k - 1 \in T PROVE k \in T
  <2>1. PICK it : Follows(it, k - 1)
    BY <1>2
  <2> DEFINE more == [S \in SUBSET (1 .. k) |->
                        IF k \in S THEN step[<<it[S \ {k}], k>>] ELSE it[S]]
  <2>2. /\ \A S \in SUBSET (1 .. k) : S \ {k} \in SUBSET (1 .. k - 1)
        /\ \A S \in SUBSET (1 .. k) : k \notin S => S \in SUBSET (1 .. k - 1)
    <3>1. (1 .. k) \ {k} = 1 .. k - 1
      OBVIOUS
    <3> QED BY <3>1, Zenon
  <2>3. more \in [SUBSET (1 .. k) -> V]
    <3>1. ASSUME NEW S \in SUBSET (1 .. k) PROVE more[S] \in V
      <4>1. it[S \ {k}] \in V
        BY <2>1, <2>2
      <4>2. k \notin S => S = S \ {k}
        OBVIOUS
      <4> QED BY <4>1, <4>2
    <3> QED BY <3>1
  <2>4. ASSUME NEW S \in SUBSET (1 .. k), S # {}
        PROVE  more[S] = step[<<more[S \ {Max(S)}], Max(S)>>]
    <3>1. Max(S) \in S /\ \A j \in S : j <= Max(S)
      BY <2>4, Greatest
    <3>2. CASE k \in S
      <4>1. Max(S) = k
        <5>1. Max(S) \in 1 .. k /\ k <= Max(S)
          BY <3>1, <3>2
        <5> QED BY <5>1
      <4>2. more[S \ {k}] = it[S \ {k}]
        BY <2>2
      <4> QED BY <3>2, <4>1, <4>2
    <3>3. CASE k \notin S
      <4>1. S \in SUBSET (1 .. k - 1)
        BY <3>3
      <4>2. it[S] = step[<<it[S \ {Max(S)}], Max(S)>>]
        BY <2>1, <2>4, <4>1
      <4>3. more[S \ {Max(S)}] = it[S \ {Max(S)}]
        BY <3>3
      <4> QED BY <3>3, <4>2, <4>3
    <3> QED BY <3>2, <3>3
  <2>5. more[{}] = base
    BY <2>1
  <2> HIDE DEF more
  <2>6. Follows(more, k)
    BY <2>3, <2>4, <2>5
  <2> HIDE DEF Follows
  <2> QED BY <2>6
<1>3. n \in T
  <2>1. \A k \in 0 .. n : k \in T
    <3> HIDE DEF T
    <3> QED BY <1>1, <1>2, Climb
  <2> HIDE DEF T
  <2> QED BY <2>1
<1> QED BY <1>3

\* ... and takes a value of V[n] to the whole sequence when every step stays in V.
LEMMA FoldClimbs ==
    ASSUME NEW n \in Nat, NEW V, NEW it, it[{}] \in V[0],
           \A k \in 1 .. n : it[1 .. k - 1] \in V[k - 1] => it[1 .. k] \in V[k]
    PROVE  it[1 .. n] \in V[n]
<1> DEFINE T == {k \in 0 .. n : it[1 .. k] \in V[k]}
<1>1. 0 \in T
  <2>1. 1 .. 0 = {}
    OBVIOUS
  <2> QED BY <2>1
<1>2. \A k \in 1 .. n : k - 1 \in T => k \in T
  OBVIOUS
<1>3. n \in T
  <2>1. n \in 0 .. n
    OBVIOUS
  <2> HIDE DEF T
  <2> QED BY <1>1, <1>2, <2>1, Climb
<1> QED BY <1>3

-----------------------------------------------------------------------------
(* Circuits whose gates are all well-formed *)

GatesOn(n, p) ==
    {g \in GateOp : WellFormed(g, n) /\ Halved(g)
                      /\ \A i \in DOMAIN g.args : g.args[i].index < p}

CircuitsOn(n) ==
    {c \in [n : {n}, params : Nat, ops : Seq(GateOp), measured : Seq(Nat)] :
        \A k \in DOMAIN c.ops : c.ops[k] \in GatesOn(n, c.params)}

LEMMA CircuitFacts ==
    ASSUME NEW n \in Nat, NEW c \in CircuitsOn(n)
    PROVE  /\ c = [n |-> n, params |-> c.params, ops |-> c.ops, measured |-> c.measured]
           /\ c.n = n /\ c.params \in Nat /\ c.measured \in Seq(Nat)
           /\ c.ops \in Seq(GateOp) /\ c.ops \in Seq(GatesOn(n, c.params))
<1>1. /\ c \in [n : {n}, params : Nat, ops : Seq(GateOp), measured : Seq(Nat)]
      /\ \A k \in DOMAIN c.ops : c.ops[k] \in GatesOn(n, c.params)
  BY DEF CircuitsOn
<1>2. c.ops \in Seq(GateOp) /\ c.ops = [k \in 1 .. Len(c.ops) |-> c.ops[k]]
  BY <1>1
<1>3. c.ops \in Seq(GatesOn(n, c.params))
  BY <1>1, <1>2
<1> QED BY <1>1, <1>3

LEMMA MakesCircuit ==
    ASSUME NEW n \in Nat, NEW p \in Nat, NEW gates \in Seq(GatesOn(n, p)),
           NEW m \in Seq(Nat)
    PROVE  [n |-> n, params |-> p, ops |-> gates, measured |-> m] \in CircuitsOn(n)
<1>1. GatesOn(n, p) \subseteq GateOp
  BY DEF GatesOn
<1>2. gates \in Seq(GateOp) /\ \A k \in DOMAIN gates : gates[k] \in GatesOn(n, p)
  BY <1>1
<1> QED BY <1>2 DEF CircuitsOn

LEMMA MoreParams ==
    ASSUME NEW n \in Nat, NEW p \in Nat, NEW q \in Nat, p <= q
    PROVE  GatesOn(n, p) \subseteq GatesOn(n, q)
<1>1. ASSUME NEW g \in GatesOn(n, p), NEW i \in DOMAIN g.args
      PROVE  g.args[i].index < q
  <2>1. g.args[i].index < p /\ g.args \in Seq(Param)
    BY DEF GatesOn, GateOp
  <2>2. g.args[i].index \in Int
    <3>1. g.args[i] \in Param
      BY <2>1
    <3> QED BY <3>1 DEF Param
  <2> QED BY <2>1, <2>2
<1> QED BY <1>1 DEF GatesOn

LEMMA OtherGates ==
    ASSUME NEW c, NEW x,
           c = [n |-> c.n, params |-> c.params, ops |-> c.ops, measured |-> c.measured]
    PROVE  [c EXCEPT !.ops = x]
           = [n |-> c.n, params |-> c.params, ops |-> x, measured |-> c.measured]
OBVIOUS

LEMMA OtherParams ==
    ASSUME NEW c, NEW x,
           c = [n |-> c.n, params |-> c.params, ops |-> c.ops, measured |-> c.measured]
    PROVE  [c EXCEPT !.params = x]
           = [n |-> c.n, params |-> x, ops |-> c.ops, measured |-> c.measured]
OBVIOUS

LEMMA AddsGates ==
    ASSUME NEW n \in Nat, NEW c \in CircuitsOn(n), NEW gates \in Seq(GatesOn(n, c.params))
    PROVE  /\ AddGates(c, gates) \in CircuitsOn(n)
           /\ AddGates(c, gates).params = c.params
<1>1. AddGates(c, gates)
      = [n |-> n, params |-> c.params, ops |-> c.ops \o gates, measured |-> c.measured]
  <2> DEFINE x == c.ops \o gates
  <2>1. AddGates(c, gates) = [c EXCEPT !.ops = x]
    BY DEF AddGates
  <2> HIDE DEF x
  <2>2. [c EXCEPT !.ops = x]
        = [n |-> c.n, params |-> c.params, ops |-> x, measured |-> c.measured]
    BY CircuitFacts, OtherGates
  <2> QED BY <2>1, <2>2, CircuitFacts DEF x
<1>2. c.ops \o gates \in Seq(GatesOn(n, c.params))
  BY CircuitFacts
<1>3. c.params \in Nat /\ c.measured \in Seq(Nat)
  BY CircuitFacts
<1>4. AddGates(c, gates) \in CircuitsOn(n)
  BY <1>1, <1>2, <1>3, MakesCircuit
<1> QED BY <1>1, <1>4

LEMMA AllocatesParams ==
    ASSUME NEW n \in Nat, NEW c \in CircuitsOn(n), NEW k \in Nat
    PROVE  /\ NewParams(c, k) \in CircuitsOn(n)
           /\ NewParams(c, k).params = c.params + k
<1>1. NewParams(c, k)
      = [n |-> n, params |-> c.params + k, ops |-> c.ops, measured |-> c.measured]
  <2>1. c = [n |-> c.n, params |-> c.params, ops |-> c.ops, measured |-> c.measured]
    BY CircuitFacts
  <2>2. NewParams(c, k)
        = [n |-> c.n, params |-> c.params + k, ops |-> c.ops, measured |-> c.measured]
    BY <2>1 DEF NewParams
  <2> QED BY <2>2, CircuitFacts
<1>2. c.params + k \in Nat /\ c.ops \in Seq(GatesOn(n, c.params + k))
  <2>1. c.params \in Nat /\ c.params + k \in Nat /\ c.params <= c.params + k
    BY CircuitFacts
  <2>2. GatesOn(n, c.params) \subseteq GatesOn(n, c.params + k)
    BY <2>1, MoreParams
  <2>3. c.ops \in Seq(GatesOn(n, c.params))
    BY CircuitFacts
  <2> QED BY <2>1, <2>2, <2>3
<1> QED BY <1>1, <1>2, CircuitFacts, MakesCircuit

Args(p) == {a \in Param : a.index < p}

LEMMA GateRecord ==
    ASSUME NEW type \in OneQubit \cup TwoQubit, NEW Q, NEW qubits \in Q, NEW A, NEW args \in A
    PROVE  Gate(type, qubits, args)
           \in [type : OneQubit \cup TwoQubit, qubits : Q, args : A, dagger : BOOLEAN]
BY DEF Gate

LEMMA MakesOne ==
    ASSUME NEW n \in Nat, NEW p \in Nat, NEW type \in OneQubit, NEW q \in 0 .. n - 1,
           NEW args \in Seq(Args(p)), Len(args) = Arguments(type)
    PROVE  Gate(type, <<q>>, args) \in GatesOn(n, p)
<1> DEFINE g == Gate(type, <<q>>, args)
<1>1. g = [type |-> type, qubits |-> <<q>>, args |-> args, dagger |-> FALSE]
  BY DEF Gate
<1>2. args \in Seq(Param) /\ \A i \in DOMAIN args : args[i].index < p
  BY DEF Args
<1>3. <<q>> \in Seq(Nat) /\ Len(<<q>>) = 1 /\ <<q>> \in [1 .. 1 -> 0 .. n - 1]
  OBVIOUS
<1>4. g \in GateOp
  <2>1. g \in [type : OneQubit \cup TwoQubit, qubits : Seq(Nat), args : Seq(Param),
              dagger : BOOLEAN]
    BY <1>2, <1>3, GateRecord
  <2>2. g.type \in OneQubit /\ Len(g.qubits) = 1 /\ Len(g.args) = Arguments(g.type)
    BY <1>1, <1>3
  <2> QED BY <2>1, <2>2 DEF GateOp
<1>5. WellFormed(g, n) /\ Halved(g)
  BY <1>1, <1>3 DEF WellFormed, Halved, Controlled, OneQubit
<1> QED BY <1>1, <1>2, <1>4, <1>5 DEF GatesOn

LEMMA MakesTwo ==
    ASSUME NEW n \in Nat, NEW p \in Nat, NEW c \in 0 .. n - 1, NEW t \in 0 .. n - 1, c # t
    PROVE  Gate("CNOT", <<c, t>>, <<>>) \in GatesOn(n, p)
<1> DEFINE g == Gate("CNOT", <<c, t>>, <<>>)
<1>1. g = [type |-> "CNOT", qubits |-> <<c, t>>, args |-> <<>>, dagger |-> FALSE]
  BY DEF Gate
<1>2. /\ <<c, t>> \in Seq(Nat) /\ Len(<<c, t>>) = 2 /\ <<c, t>> \in [1 .. 2 -> 0 .. n - 1]
      /\ <<c, t>>[1] # <<c, t>>[2]
  OBVIOUS
<1>3. <<>> \in Seq(Param) /\ Len(<<>>) = 0 /\ DOMAIN <<>> = {}
  OBVIOUS
<1>4. g \in GateOp
  <2>1. "CNOT" \in TwoQubit /\ "CNOT" \notin OneQubit /\ Arguments("CNOT") = 0
    BY DEF OneQubit, TwoQubit, Arguments
  <2>2. g \in [type : OneQubit \cup TwoQubit, qubits : Seq(Nat), args : Seq(Param),
              dagger : BOOLEAN]
    BY <1>2, <1>3, <2>1, GateRecord
  <2>3. g.type \notin OneQubit /\ Len(g.qubits) = 2 /\ Len(g.args) = Arguments(g.type)
    BY <1>1, <1>2, <1>3, <2>1
  <2> QED BY <2>2, <2>3 DEF GateOp
<1>5. WellFormed(g, n) /\ Halved(g)
  BY <1>1, <1>2 DEF WellFormed, TwoQubit, Halved, Controlled
<1> QED BY <1>1, <1>3, <1>4, <1>5 DEF GatesOn

-----------------------------------------------------------------------------
(* The ansatz library makes well-formed gates only *)

Axes == {"RX", "RY", "RZ"}

LEMMA FreeArgument ==
    ASSUME NEW p \in Nat, NEW i \in Nat, i < p
    PROVE  Free(i) \in Args(p) /\ \A k \in Int : Scaled(k, Free(i)) \in Args(p)
<1>1. Free(i) = [index |-> i, scale |-> 1, offset |-> 0]
  BY DEF Free
<1>2. ASSUME NEW k \in Int
      PROVE  Scaled(k, Free(i)) = [index |-> i, scale |-> k, offset |-> 0]
  <2> DEFINE r == [Free(i) EXCEPT !.scale = k * @]
  <2>1. Scaled(k, Free(i)) = [r EXCEPT !.offset = k * @]
    BY Zenon DEF Scaled
  <2>2. k * 1 = k /\ k * 0 = 0
    OBVIOUS
  <2>3. r = [index |-> i, scale |-> k * 1, offset |-> 0]
    BY <1>1
  <2> HIDE DEF r
  <2>4. [r EXCEPT !.offset = k * @] = [index |-> i, scale |-> k * 1, offset |-> k * 0]
    BY <2>3
  <2> QED BY <2>1, <2>2, <2>4
<1>3. Free(i) \in Args(p)
  BY <1>1 DEF Args, Param
<1>4. ASSUME NEW k \in Int PROVE Scaled(k, Free(i)) \in Args(p)
  BY <1>2 DEF Args, Param
<1> QED BY <1>3, <1>4

LEMMA RotationLayerType ==
    ASSUME NEW n \in Nat, NEW c \in CircuitsOn(n), NEW axis \in Axes
    PROVE  RotationLayer(c, axis) \in CircuitsOn(n)
<1> DEFINE d == NewParams(c, n)
           gates == [q \in 1 .. n |-> Gate(axis, <<q - 1>>, <<Fresh(c, n)[q]>>)]
<1>1. c.params \in Nat /\ c.n = n
  BY CircuitFacts
<1>2. d \in CircuitsOn(n) /\ d.params = c.params + n
  BY AllocatesParams
<1>3. axis \in OneQubit /\ Arguments(axis) = 1
  BY DEF Axes, OneQubit, Arguments
<1>4. ASSUME NEW q \in 1 .. n
      PROVE  Gate(axis, <<q - 1>>, <<Fresh(c, n)[q]>>) \in GatesOn(n, d.params)
  <2>1. Fresh(c, n)[q] = Free(c.params + q - 1)
    BY DEF Fresh
  <2>2. d.params \in Nat /\ c.params + q - 1 \in Nat /\ c.params + q - 1 < d.params
    BY <1>1, <1>2
  <2> HIDE DEF d
  <2>3. Fresh(c, n)[q] \in Args(d.params)
    BY <2>1, <2>2, FreeArgument
  <2>4. <<Fresh(c, n)[q]>> \in Seq(Args(d.params)) /\ Len(<<Fresh(c, n)[q]>>) = 1
    BY <2>3
  <2>5. q - 1 \in 0 .. n - 1
    OBVIOUS
  <2> QED BY <1>3, <2>2, <2>4, <2>5, MakesOne
<1>5. gates \in Seq(GatesOn(n, d.params))
  BY <1>4
<1>6. RotationLayer(c, axis) = AddGates(d, gates)
  BY <1>1 DEF RotationLayer
<1> HIDE DEF d, gates
<1> QED BY <1>2, <1>5, <1>6, AddsGates

LEMMA LayerType ==
    ASSUME NEW n \in Nat, NEW c \in CircuitsOn(n), NEW rotations \in Seq(Axes)
    PROVE  Layer(c, rotations) \in CircuitsOn(n)
<1> DEFINE N == Len(rotations)
           V == CircuitsOn(n)
           base == c
           whole == Layer(c, rotations)
           Next1(d, k) == RotationLayer(d, rotations[k])
           F(it) == [S \in SUBSET (1 .. N) |->
                       IF S = {} THEN base ELSE Next1(it[S \ {Max(S)}], Max(S))]
<1>1. N \in Nat /\ base \in V
  OBVIOUS
<1>2. \A d \in V, k \in 1 .. N : Next1(d, k) \in V
  BY RotationLayerType
<1>3. whole = (CHOOSE it : it = F(it))[1 .. N]
  <2>1. DOMAIN rotations = 1 .. N
    OBVIOUS
  <2> QED BY <2>1 DEF Layer, FoldLeft, MapThenFoldSet
<1> HIDE DEF N, V, base, Next1, whole
<1>4. \E it : it = F(it)
  <2> DEFINE step == [p \in V \X (1 .. N) |-> Next1(p[1], p[2])]
  <2>1. \A d \in V, k \in 1 .. N : step[<<d, k>>] = Next1(d, k)
    OBVIOUS
  <2> HIDE DEF step
  <2>2. PICK it : Folds(it, N, base, step, V)
    <3>1. \A d \in V, k \in 1 .. N : step[<<d, k>>] \in V
      BY <1>2, <2>1
    <3> QED BY <1>1, <3>1, FoldExists
  <2>3. /\ it \in [SUBSET (1 .. N) -> V]
        /\ \A S \in SUBSET (1 .. N) :
              it[S] = IF S = {} THEN base ELSE step[<<it[S \ {Max(S)}], Max(S)>>]
    BY <2>2 DEF Folds
  <2>4. ASSUME NEW S \in SUBSET (1 .. N)
        PROVE  it[S] = IF S = {} THEN base ELSE Next1(it[S \ {Max(S)}], Max(S))
    <3>1. CASE S # {}
      <4>1. Max(S) \in 1 .. N /\ it[S \ {Max(S)}] \in V
        BY <1>1, <2>3, <3>1, Greatest
      <4> QED BY <2>1, <2>3, <3>1, <4>1
    <3> QED BY <2>3, <3>1
  <2>5. it = F(it)
    BY <2>3, <2>4
  <2> QED BY <2>5
<1>5. PICK it : it = F(it) /\ whole = it[1 .. N]
  BY <1>3, <1>4
<1>6. it[{}] = base
  BY <1>5
<1>7. ASSUME NEW k \in 1 .. N PROVE it[1 .. k] = Next1(it[1 .. k - 1], k)
  <2>1. Max(1 .. k) = k /\ (1 .. k) \ {k} = 1 .. k - 1
    BY <1>1, PartOfAll, GreatestOfAll
  <2>2. 1 .. k \in SUBSET (1 .. N) /\ 1 .. k # {}
    BY <1>1, PartOfAll
  <2> QED BY <1>5, <2>1, <2>2
<1>8. it[1 .. N] \in V
  <2> DEFINE W == [k \in 0 .. N |-> V]
  <2>1. it[{}] \in W[0] /\ W[N] = V
    BY <1>1, <1>6
  <2>2. \A k \in 1 .. N : it[1 .. k - 1] \in W[k - 1] => it[1 .. k] \in W[k]
    BY <1>1, <1>2, <1>7
  <2> HIDE DEF W
  <2> QED BY <1>1, <2>1, <2>2, FoldClimbs
<1> QED BY <1>5, <1>8 DEF V, whole

PairsOf(n) == {p \in (0 .. n - 1) \X (0 .. n - 1) : p[1] # p[2]}

LEMMA AllPairsType ==
    ASSUME NEW n \in Nat
    PROVE  AllPairs(n) \in Seq(PairsOf(n))
<1> DEFINE from == [i \in 1 .. n |-> i - 1]
           row(i) == [k \in 1 .. n - 1 - i |-> <<i, i + k>>]
           N == n
           V == Seq(PairsOf(n))
           base == <<>>
           whole == AllPairs(n)
           Next1(d, k) == d \o row(from[k])
           F(it) == [S \in SUBSET (1 .. N) |->
                       IF S = {} THEN base ELSE Next1(it[S \ {Max(S)}], Max(S))]
<1>1. N \in Nat /\ base \in V
  OBVIOUS
<1>2. \A d \in V, k \in 1 .. N : Next1(d, k) \in V
  <2>1. ASSUME NEW k \in 1 .. n PROVE row(from[k]) \in Seq(PairsOf(n))
    <3>1. from[k] = k - 1 /\ k - 1 \in 0 .. n - 1
      OBVIOUS
    <3>2. n - 1 - (k - 1) \in Nat
      OBVIOUS
    <3>3. \A j \in 1 .. n - 1 - (k - 1) : <<k - 1, k - 1 + j>> \in PairsOf(n)
      BY <3>1 DEF PairsOf
    <3> QED BY <3>1, <3>2, <3>3
  <2> HIDE DEF row, from
  <2> QED BY <2>1
<1>3. whole = (CHOOSE it : it = F(it))[1 .. N]
  BY DEF AllPairs, FoldLeft, MapThenFoldSet
<1> HIDE DEF N, V, base, Next1, whole
<1>4. \E it : it = F(it)
  <2> DEFINE step == [p \in V \X (1 .. N) |-> Next1(p[1], p[2])]
  <2>1. \A d \in V, k \in 1 .. N : step[<<d, k>>] = Next1(d, k)
    OBVIOUS
  <2> HIDE DEF step
  <2>2. PICK it : Folds(it, N, base, step, V)
    <3>1. \A d \in V, k \in 1 .. N : step[<<d, k>>] \in V
      BY <1>2, <2>1
    <3> QED BY <1>1, <3>1, FoldExists
  <2>3. /\ it \in [SUBSET (1 .. N) -> V]
        /\ \A S \in SUBSET (1 .. N) :
              it[S] = IF S = {} THEN base ELSE step[<<it[S \ {Max(S)}], Max(S)>>]
    BY <2>2 DEF Folds
  <2>4. ASSUME NEW S \in SUBSET (1 .. N)
        PROVE  it[S] = IF S = {} THEN base ELSE Next1(it[S \ {Max(S)}], Max(S))
    <3>1. CASE S # {}
      <4>1. Max(S) \in 1 .. N /\ it[S \ {Max(S)}] \in V
        BY <1>1, <2>3, <3>1, Greatest
      <4> QED BY <2>1, <2>3, <3>1, <4>1
    <3> QED BY <2>3, <3>1
  <2>5. it = F(it)
    BY <2>3, <2>4
  <2> QED BY <2>5
<1>5. PICK it : it = F(it) /\ whole = it[1 .. N]
  BY <1>3, <1>4
<1>6. it[{}] = base
  BY <1>5
<1>7. ASSUME NEW k \in 1 .. N PROVE it[1 .. k] = Next1(it[1 .. k - 1], k)
  <2>1. Max(1 .. k) = k /\ (1 .. k) \ {k} = 1 .. k - 1
    BY <1>1, PartOfAll, GreatestOfAll
  <2>2. 1 .. k \in SUBSET (1 .. N) /\ 1 .. k # {}
    BY <1>1, PartOfAll
  <2> QED BY <1>5, <2>1, <2>2
<1>8. it[1 .. N] \in V
  <2> DEFINE W == [k \in 0 .. N |-> V]
  <2>1. it[{}] \in W[0] /\ W[N] = V
    BY <1>1, <1>6
  <2>2. \A k \in 1 .. N : it[1 .. k - 1] \in W[k - 1] => it[1 .. k] \in W[k]
    BY <1>1, <1>2, <1>7
  <2> HIDE DEF W
  <2> QED BY <1>1, <2>1, <2>2, FoldClimbs
<1> QED BY <1>5, <1>8 DEF V, whole

LEMMA EntanglementType ==
    ASSUME NEW n \in Nat, NEW e \in Entanglements
    PROVE  EntanglementPairs(n, e) \in Seq(PairsOf(n))
<1>1. CASE n < 2
  BY <1>1 DEF EntanglementPairs
<1>2. CASE n >= 2
  <2>1. Chain(n) \in Seq(PairsOf(n))
    <3>1. \A i \in 1 .. n - 1 : <<i - 1, i>> \in PairsOf(n)
      BY DEF PairsOf
    <3>2. n - 1 \in Nat
      BY <1>2
    <3> QED BY <3>1, <3>2 DEF Chain
  <2>2. Evens(n) \in Seq(PairsOf(n))
    <3>1. n \div 2 \in Nat /\ \A i \in 1 .. n \div 2 : <<2 * i - 2, 2 * i - 1>> \in PairsOf(n)
      BY DEF PairsOf
    <3> QED BY <3>1 DEF Evens
  <2>3. Odds(n) \in Seq(PairsOf(n))
    <3>1. /\ (n - 1) \div 2 \in Nat
          /\ \A i \in 1 .. (n - 1) \div 2 : <<2 * i - 1, 2 * i>> \in PairsOf(n)
      BY <1>2 DEF PairsOf
    <3> QED BY <3>1 DEF Odds
  <2>4. (IF n > 2 THEN <<<<n - 1, 0>>>> ELSE <<>>) \in Seq(PairsOf(n))
    <3>1. n > 2 => <<n - 1, 0>> \in PairsOf(n)
      BY DEF PairsOf
    <3> QED BY <3>1
  <2>5. AllPairs(n) \in Seq(PairsOf(n))
    BY AllPairsType
  <2>6. CASE e = "Linear"
    BY <1>2, <2>1, <2>6 DEF EntanglementPairs
  <2>7. CASE e = "Circular"
    BY <1>2, <2>1, <2>4, <2>7 DEF EntanglementPairs
  <2>8. CASE e = "Full"
    BY <1>2, <2>5, <2>8 DEF EntanglementPairs
  <2>9. CASE e = "Pairwise"
    BY <1>2, <2>2, <2>3, <2>9 DEF EntanglementPairs
  <2> QED BY <2>6, <2>7, <2>8, <2>9 DEF Entanglements
<1> QED BY <1>1, <1>2

LEMMA EntangleType ==
    ASSUME NEW n \in Nat, NEW c \in CircuitsOn(n), NEW e \in Entanglements
    PROVE  Entangle(c, e) \in CircuitsOn(n)
<1> DEFINE pairs == EntanglementPairs(n, e)
           gates == [k \in DOMAIN pairs |-> Gate("CNOT", pairs[k], <<>>)]
<1>1. pairs \in Seq(PairsOf(n))
  BY EntanglementType
<1>2. c.n = n /\ c.params \in Nat
  BY CircuitFacts
<1>3. Entangle(c, e) = AddGates(c, gates)
  BY <1>2 DEF Entangle
<1> HIDE DEF pairs
<1>4. \A k \in DOMAIN pairs : Gate("CNOT", pairs[k], <<>>) \in GatesOn(n, c.params)
  <2>1. ASSUME NEW k \in DOMAIN pairs
        PROVE  Gate("CNOT", pairs[k], <<>>) \in GatesOn(n, c.params)
    <3>1. pairs[k] \in PairsOf(n)
      BY <1>1
    <3>2. PICK a \in 0 .. n - 1, b \in 0 .. n - 1 : pairs[k] = <<a, b>> /\ a # b
      BY <3>1 DEF PairsOf
    <3> QED BY <1>2, <3>2, MakesTwo
  <2> QED BY <2>1
<1>5. gates \in Seq(GatesOn(n, c.params))
  BY <1>1, <1>4
<1> QED BY <1>3, <1>5, AddsGates

LEMMA TwoLocalType ==
    ASSUME NEW n \in Nat, NEW c \in CircuitsOn(n), NEW rotations \in Seq(Axes),
           NEW reps \in Nat, NEW e \in Entanglements, NEW final
    PROVE  TwoLocal(c, rotations, reps, e, final) \in CircuitsOn(n)
<1> DEFINE N == reps
           V == CircuitsOn(n)
           base == c
           whole == FoldLeft(LAMBDA d, r : Entangle(Layer(d, rotations), e), c, [r \in 1 .. reps |-> r])
           Next1(d, k) == Entangle(Layer(d, rotations), e)
           F(it) == [S \in SUBSET (1 .. N) |->
                       IF S = {} THEN base ELSE Next1(it[S \ {Max(S)}], Max(S))]
<1>1. N \in Nat /\ base \in V
  OBVIOUS
<1>2. \A d \in V, k \in 1 .. N : Next1(d, k) \in V
  BY LayerType, EntangleType
<1>3. whole = (CHOOSE it : it = F(it))[1 .. N]
  BY DEF FoldLeft, MapThenFoldSet
<1> HIDE DEF N, V, base, Next1, whole
<1>4. \E it : it = F(it)
  <2> DEFINE step == [p \in V \X (1 .. N) |-> Next1(p[1], p[2])]
  <2>1. \A d \in V, k \in 1 .. N : step[<<d, k>>] = Next1(d, k)
    OBVIOUS
  <2> HIDE DEF step
  <2>2. PICK it : Folds(it, N, base, step, V)
    <3>1. \A d \in V, k \in 1 .. N : step[<<d, k>>] \in V
      BY <1>2, <2>1
    <3> QED BY <1>1, <3>1, FoldExists
  <2>3. /\ it \in [SUBSET (1 .. N) -> V]
        /\ \A S \in SUBSET (1 .. N) :
              it[S] = IF S = {} THEN base ELSE step[<<it[S \ {Max(S)}], Max(S)>>]
    BY <2>2 DEF Folds
  <2>4. ASSUME NEW S \in SUBSET (1 .. N)
        PROVE  it[S] = IF S = {} THEN base ELSE Next1(it[S \ {Max(S)}], Max(S))
    <3>1. CASE S # {}
      <4>1. Max(S) \in 1 .. N /\ it[S \ {Max(S)}] \in V
        BY <1>1, <2>3, <3>1, Greatest
      <4> QED BY <2>1, <2>3, <3>1, <4>1
    <3> QED BY <2>3, <3>1
  <2>5. it = F(it)
    BY <2>3, <2>4
  <2> QED BY <2>5
<1>5. PICK it : it = F(it) /\ whole = it[1 .. N]
  BY <1>3, <1>4
<1>6. it[{}] = base
  BY <1>5
<1>7. ASSUME NEW k \in 1 .. N PROVE it[1 .. k] = Next1(it[1 .. k - 1], k)
  <2>1. Max(1 .. k) = k /\ (1 .. k) \ {k} = 1 .. k - 1
    BY <1>1, PartOfAll, GreatestOfAll
  <2>2. 1 .. k \in SUBSET (1 .. N) /\ 1 .. k # {}
    BY <1>1, PartOfAll
  <2> QED BY <1>5, <2>1, <2>2
<1>8. it[1 .. N] \in V
  <2> DEFINE W == [k \in 0 .. N |-> V]
  <2>1. it[{}] \in W[0] /\ W[N] = V
    BY <1>1, <1>6
  <2>2. \A k \in 1 .. N : it[1 .. k - 1] \in W[k - 1] => it[1 .. k] \in W[k]
    BY <1>1, <1>2, <1>7
  <2> HIDE DEF W
  <2> QED BY <1>1, <2>1, <2>2, FoldClimbs
<1>9. whole \in CircuitsOn(n)
  BY <1>5, <1>8 DEF V
<1>10. TwoLocal(c, rotations, reps, e, final)
       = IF final \/ reps = 0 THEN Layer(whole, rotations) ELSE whole
  BY DEF TwoLocal, whole
<1>11. Layer(whole, rotations) \in CircuitsOn(n)
  BY <1>9, LayerType
<1> QED BY <1>9, <1>10, <1>11

InOrder(d, k, set) ==
    /\ \A i \in 1 .. Len(d) : d[i] \in set /\ d[i] < k
    /\ \A i, j \in 1 .. Len(d) : i # j => d[i] # d[j]
    /\ \A q \in 0 .. k - 1 : q \in set => \E i \in 1 .. Len(d) : d[i] = q

LEMMA InOrderGrows ==
    ASSUME NEW n \in Nat, NEW k \in 1 .. n, NEW set, NEW s \in Seq(0 .. n - 1),
           InOrder(s, k - 1, set)
    PROVE  /\ k - 1 \in set => InOrder(Append(s, k - 1), k, set)
           /\ k - 1 \notin set => InOrder(s, k, set)
<1>1. \A q \in 0 .. k - 1 : q = k - 1 \/ q \in 0 .. (k - 1) - 1
  OBVIOUS
<1>2. \A i \in 1 .. Len(s) : s[i] \in Nat /\ s[i] < k - 1 /\ s[i] < k /\ s[i] \in set
  BY DEF InOrder
<1>3. ASSUME k - 1 \notin set PROVE InOrder(s, k, set)
  BY <1>1, <1>2, <1>3 DEF InOrder
<1>4. ASSUME k - 1 \in set PROVE InOrder(Append(s, k - 1), k, set)
  <2> DEFINE t == Append(s, k - 1)
  <2>1. /\ Len(t) = Len(s) + 1 /\ Len(s) \in Nat /\ t[Len(t)] = k - 1
        /\ \A i \in 1 .. Len(s) : t[i] = s[i]
    OBVIOUS
  <2>2. \A i \in 1 .. Len(t) : i = Len(t) \/ i \in 1 .. Len(s)
    BY <2>1
  <2> HIDE DEF t
  <2>3. \A i \in 1 .. Len(t) : t[i] \in set /\ t[i] < k
    BY <1>2, <1>4, <2>1, <2>2, SMTT(20)
  <2>4. \A i, j \in 1 .. Len(t) : i # j => t[i] # t[j]
    BY <1>2, <2>1, <2>2 DEF InOrder
  <2>5. ASSUME NEW q \in 0 .. k - 1, q \in set PROVE \E i \in 1 .. Len(t) : t[i] = q
    <3>1. CASE q = k - 1
      <4>1. Len(t) \in 1 .. Len(t)
        BY <2>1
      <4> QED BY <2>1, <3>1, <4>1
    <3>2. CASE q \in 0 .. (k - 1) - 1
      <4>1. PICK i \in 1 .. Len(s) : s[i] = q
        BY <2>5, <3>2 DEF InOrder
      <4>2. i \in 1 .. Len(t)
        BY <2>1
      <4> QED BY <2>1, <4>1, <4>2
    <3> QED BY <1>1, <3>1, <3>2
  <2> QED BY <2>3, <2>4, <2>5 DEF InOrder, t
<1> QED BY <1>3, <1>4

LEMMA AscendingFacts ==
    ASSUME NEW n \in Nat, NEW set, NEW s, s = Ascending(n, set)
    PROVE  /\ s \in Seq(0 .. n - 1)
           /\ \A i \in 1 .. Len(s) : s[i] \in set
           /\ \A i, j \in 1 .. Len(s) : i # j => s[i] # s[j]
           /\ \A q \in 0 .. n - 1 : q \in set => \E i \in 1 .. Len(s) : s[i] = q
<1> DEFINE from == [q \in 1 .. n |-> q - 1]
           N == n
           V == Seq(0 .. n - 1)
           base == <<>>
           whole == Ascending(n, set)
           Next1(d, k) == IF from[k] \in set THEN Append(d, from[k]) ELSE d
           F(it) == [S \in SUBSET (1 .. N) |->
                       IF S = {} THEN base ELSE Next1(it[S \ {Max(S)}], Max(S))]
<1>1. N \in Nat /\ base \in V
  OBVIOUS
<1>2. \A d \in V, k \in 1 .. N : Next1(d, k) \in V
  <2>1. ASSUME NEW d \in V, NEW k \in 1 .. N PROVE Next1(d, k) \in V
    <3>1. from[k] \in 0 .. n - 1
      OBVIOUS
    <3> HIDE DEF from
    <3>2. Append(d, from[k]) \in Seq(0 .. n - 1)
      BY <3>1
    <3> QED BY <3>2
  <2> QED BY <2>1
<1>3. whole = (CHOOSE it : it = F(it))[1 .. N]
  BY DEF Ascending, FoldLeft, MapThenFoldSet
<1> HIDE DEF N, V, base, Next1, whole
<1>4. \E it : it = F(it)
  <2> DEFINE step == [p \in V \X (1 .. N) |-> Next1(p[1], p[2])]
  <2>1. \A d \in V, k \in 1 .. N : step[<<d, k>>] = Next1(d, k)
    OBVIOUS
  <2> HIDE DEF step
  <2>2. PICK it : Folds(it, N, base, step, V)
    <3>1. \A d \in V, k \in 1 .. N : step[<<d, k>>] \in V
      BY <1>2, <2>1
    <3> QED BY <1>1, <3>1, FoldExists
  <2>3. /\ it \in [SUBSET (1 .. N) -> V]
        /\ \A S \in SUBSET (1 .. N) :
              it[S] = IF S = {} THEN base ELSE step[<<it[S \ {Max(S)}], Max(S)>>]
    BY <2>2 DEF Folds
  <2>4. ASSUME NEW S \in SUBSET (1 .. N)
        PROVE  it[S] = IF S = {} THEN base ELSE Next1(it[S \ {Max(S)}], Max(S))
    <3>1. CASE S # {}
      <4>1. Max(S) \in 1 .. N /\ it[S \ {Max(S)}] \in V
        BY <1>1, <2>3, <3>1, Greatest
      <4> QED BY <2>1, <2>3, <3>1, <4>1
    <3> QED BY <2>3, <3>1
  <2>5. it = F(it)
    BY <2>3, <2>4
  <2> QED BY <2>5
<1>5. PICK it : it = F(it) /\ whole = it[1 .. N]
  BY <1>3, <1>4
<1>6. it[{}] = base
  BY <1>5
<1>7. ASSUME NEW k \in 1 .. N PROVE it[1 .. k] = Next1(it[1 .. k - 1], k)
  <2>1. Max(1 .. k) = k /\ (1 .. k) \ {k} = 1 .. k - 1
    BY <1>1, PartOfAll, GreatestOfAll
  <2>2. 1 .. k \in SUBSET (1 .. N) /\ 1 .. k # {}
    BY <1>1, PartOfAll
  <2> QED BY <1>5, <2>1, <2>2
<1>8. it[1 .. N] \in {d \in V : InOrder(d, N, set)}
  <2> DEFINE W == [k \in 0 .. N |-> {d \in V : InOrder(d, k, set)}]
  <2>1. it[{}] \in W[0] /\ W[N] = {d \in V : InOrder(d, N, set)}
    <3>1. InOrder(base, 0, set)
      BY DEF base, InOrder
    <3> QED BY <1>1, <1>6, <3>1
  <2>2. ASSUME NEW k \in 1 .. N, it[1 .. k - 1] \in W[k - 1]
        PROVE  it[1 .. k] \in W[k]
    <3> DEFINE old == it[1 .. k - 1]
               new == it[1 .. k]
    <3>1. old \in Seq(0 .. n - 1) /\ InOrder(old, k - 1, set) /\ k - 1 \in 0 .. n - 1
      <4>1. k - 1 \in 0 .. N /\ k - 1 \in 0 .. n - 1
        BY DEF N
      <4>2. W[k - 1] = {d \in V : InOrder(d, k - 1, set)}
        BY <4>1
      <4> QED BY <2>2, <4>1, <4>2 DEF V
    <3>2. new = IF k - 1 \in set THEN Append(old, k - 1) ELSE old
      BY <1>7 DEF Next1, N
    <3>3. new \in V
      <4> HIDE DEF old, new
      <4>1. Append(old, k - 1) \in Seq(0 .. n - 1)
        BY <3>1
      <4> QED BY <3>1, <3>2, <4>1 DEF V
    <3>4. InOrder(new, k, set)
      <4> HIDE DEF old, new
      <4>1. k \in 1 .. n
        BY DEF N
      <4> QED BY <3>1, <3>2, <4>1, InOrderGrows
    <3>5. k \in 0 .. N
      BY <1>1
    <3> QED BY <3>3, <3>4, <3>5
  <2> HIDE DEF W
  <2> QED BY <1>1, <2>1, <2>2, FoldClimbs
<1>9. whole \in Seq(0 .. n - 1) /\ InOrder(whole, n, set)
  BY <1>5, <1>8 DEF V, N
<1>10. s = whole
  BY DEF whole
<1> QED BY <1>9, <1>10 DEF InOrder

LEMMA BasisStateType ==
    ASSUME NEW n \in Nat, NEW c \in CircuitsOn(n), NEW bits
    PROVE  BasisState(c, bits) \in CircuitsOn(n)
<1> DEFINE qs == Ascending(n, {q \in 0 .. n - 1 : Set(bits, q)})
           gates == [k \in DOMAIN qs |-> Gate("X", <<qs[k]>>, <<>>)]
<1>1. c.n = n /\ c.params \in Nat
  BY CircuitFacts
<1>2. BasisState(c, bits) = AddGates(c, gates)
  BY <1>1 DEF BasisState
<1>3. qs \in Seq(0 .. n - 1)
  BY AscendingFacts
<1> HIDE DEF qs
<1>4. ASSUME NEW k \in DOMAIN qs PROVE Gate("X", <<qs[k]>>, <<>>) \in GatesOn(n, c.params)
  <2>1. "X" \in OneQubit /\ Arguments("X") = 0
    BY DEF OneQubit, Arguments
  <2>2. qs[k] \in 0 .. n - 1 /\ <<>> \in Seq(Args(c.params)) /\ Len(<<>>) = 0
    BY <1>3
  <2> QED BY <1>1, <2>1, <2>2, MakesOne
<1>5. gates \in Seq(GatesOn(n, c.params))
  <2>1. DOMAIN qs = 1 .. Len(qs) /\ Len(qs) \in Nat
    BY <1>3
  <2> QED BY <1>4, <2>1
<1> QED BY <1>2, <1>5, AddsGates

\* The terms of a cost observable.
CostTerms(n) == [coeff : Int, x : {{}}, z : SUBSET (0 .. n - 1), ny : Nat]

LEMMA ZMask ==
    ASSUME NEW n \in Nat, NEW coeff \in Int, NEW factors,
           \A f \in factors : f[1] = "Z" /\ f[2] \in 0 .. n - 1
    PROVE  Mask(coeff, factors) \in CostTerms(n)
<1> DEFINE On(paulis) == {f[2] : f \in {g \in factors : g[1] \in paulis}}
<1>1. Cardinality({}) = 0
  BY FS_EmptySet
<1>2. On({"X", "Y"}) = {} /\ On({"Y"}) = {} /\ On({"Y", "Z"}) \subseteq 0 .. n - 1
  OBVIOUS
<1>3. Mask(coeff, factors)
      = [coeff |-> coeff, x |-> On({"X", "Y"}), z |-> On({"Y", "Z"}),
         ny |-> Cardinality(On({"Y"}))]
  BY DEF Mask
<1> HIDE DEF On
<1>4. Mask(coeff, factors)
      = [coeff |-> coeff, x |-> {}, z |-> On({"Y", "Z"}), ny |-> 0]
  BY <1>1, <1>2, <1>3
<1> QED BY <1>2, <1>4 DEF CostTerms

LEMMA EdgeFacts ==
    ASSUME NEW n \in Nat, NEW edges \in Seq([u : 0 .. n - 1, v : 0 .. n - 1, w : Int]),
           NEW k \in 1 .. Len(edges)
    PROVE  /\ edges[k].u \in 0 .. n - 1 /\ edges[k].v \in 0 .. n - 1
           /\ edges[k].w \in Int
<1> DEFINE E == [u : 0 .. n - 1, v : 0 .. n - 1, w : Int]
<1>1. edges[k] \in E
  <2> HIDE DEF E
  <2>1. edges \in Seq(E)
    BY DEF E
  <2> QED BY <2>1
<1> QED BY <1>1

LEMMA MaxcutType ==
    ASSUME NEW n \in Nat, NEW edges \in Seq([u : 0 .. n - 1, v : 0 .. n - 1, w : Int]),
           NEW constant
    PROVE  Maxcut(n, edges, constant) \in Seq(CostTerms(n))
<1> DEFINE N == Len(edges)
           V == Int
           base == 0
           whole == FoldLeft(LAMBDA s, e : s - e.w \div 2, 0, edges)
           Next1(d, k) == d - edges[k].w \div 2
           F(it) == [S \in SUBSET (1 .. N) |->
                       IF S = {} THEN base ELSE Next1(it[S \ {Max(S)}], Max(S))]
<1>1. N \in Nat /\ base \in V
  OBVIOUS
<1>2. \A d \in V, k \in 1 .. N : Next1(d, k) \in V
  <2>1. \A k \in 1 .. N : edges[k].w \in Int
    BY EdgeFacts
  <2>2. \A w \in Int : w \div 2 \in Int
    BY SMTT(20)
  <2> QED BY <2>1, <2>2, SMTT(20)
<1>3. whole = (CHOOSE it : it = F(it))[1 .. N]
  <2>1. DOMAIN edges = 1 .. N
    OBVIOUS
  <2> QED BY <2>1 DEF FoldLeft, MapThenFoldSet
<1> HIDE DEF N, V, base, Next1, whole
<1>4. \E it : it = F(it)
  <2> DEFINE step == [p \in V \X (1 .. N) |-> Next1(p[1], p[2])]
  <2>1. \A d \in V, k \in 1 .. N : step[<<d, k>>] = Next1(d, k)
    OBVIOUS
  <2> HIDE DEF step
  <2>2. PICK it : Folds(it, N, base, step, V)
    <3>1. \A d \in V, k \in 1 .. N : step[<<d, k>>] \in V
      BY <1>2, <2>1
    <3> QED BY <1>1, <3>1, FoldExists
  <2>3. /\ it \in [SUBSET (1 .. N) -> V]
        /\ \A S \in SUBSET (1 .. N) :
              it[S] = IF S = {} THEN base ELSE step[<<it[S \ {Max(S)}], Max(S)>>]
    BY <2>2 DEF Folds
  <2>4. ASSUME NEW S \in SUBSET (1 .. N)
        PROVE  it[S] = IF S = {} THEN base ELSE Next1(it[S \ {Max(S)}], Max(S))
    <3>1. CASE S # {}
      <4>1. Max(S) \in 1 .. N /\ it[S \ {Max(S)}] \in V
        BY <1>1, <2>3, <3>1, Greatest
      <4> QED BY <2>1, <2>3, <3>1, <4>1
    <3> QED BY <2>3, <3>1
  <2>5. it = F(it)
    BY <2>3, <2>4
  <2> QED BY <2>5
<1>5. PICK it : it = F(it) /\ whole = it[1 .. N]
  BY <1>3, <1>4
<1>6. it[{}] = base
  BY <1>5
<1>7. ASSUME NEW k \in 1 .. N PROVE it[1 .. k] = Next1(it[1 .. k - 1], k)
  <2>1. Max(1 .. k) = k /\ (1 .. k) \ {k} = 1 .. k - 1
    BY <1>1, PartOfAll, GreatestOfAll
  <2>2. 1 .. k \in SUBSET (1 .. N) /\ 1 .. k # {}
    BY <1>1, PartOfAll
  <2> QED BY <1>5, <2>1, <2>2
<1>8. it[1 .. N] \in V
  <2> DEFINE W == [k \in 0 .. N |-> V]
  <2>1. it[{}] \in W[0] /\ W[N] = V
    BY <1>1, <1>6
  <2>2. \A k \in 1 .. N : it[1 .. k - 1] \in W[k - 1] => it[1 .. k] \in W[k]
    BY <1>1, <1>2, <1>7
  <2> HIDE DEF W
  <2> QED BY <1>1, <2>1, <2>2, FoldClimbs
<1>9. whole \in Int
  BY <1>5, <1>8 DEF V
<1> DEFINE terms == [k \in DOMAIN edges |->
              Mask(edges[k].w \div 2, {<<"Z", edges[k].u>>, <<"Z", edges[k].v>>})]
           last == IF constant /\ whole # 0 THEN <<Mask(whole, {})>> ELSE <<>>
<1>10. terms \in Seq(CostTerms(n))
  <2>1. ASSUME NEW k \in 1 .. Len(edges)
        PROVE  Mask(edges[k].w \div 2, {<<"Z", edges[k].u>>, <<"Z", edges[k].v>>})
               \in CostTerms(n)
    <3> DEFINE factors == {<<"Z", edges[k].u>>, <<"Z", edges[k].v>>}
    <3>1. /\ edges[k].u \in 0 .. n - 1 /\ edges[k].v \in 0 .. n - 1
          /\ edges[k].w \in Int
      BY EdgeFacts
    <3>2. edges[k].w \div 2 \in Int
      BY <3>1, SMTT(20)
    <3>3. \A f \in factors : f[1] = "Z" /\ f[2] \in 0 .. n - 1
      BY <3>1, SMTT(20)
    <3> HIDE DEF factors
    <3>4. Mask(edges[k].w \div 2, factors) \in CostTerms(n)
      BY <3>2, <3>3, ZMask
    <3> QED BY <3>4 DEF factors
  <2>2. DOMAIN edges = 1 .. Len(edges) /\ Len(edges) \in Nat
    OBVIOUS
  <2>3. terms = [k \in 1 .. Len(edges) |-> terms[k]] /\
        \A k \in 1 .. Len(edges) : terms[k] \in CostTerms(n)
    BY <2>1, <2>2
  <2> HIDE DEF terms
  <2> QED BY <2>2, <2>3
<1>11. last \in Seq(CostTerms(n))
  <2>1. Mask(whole, {}) \in CostTerms(n)
    <3>1. \A f \in {} : f[1] = "Z" /\ f[2] \in 0 .. n - 1
      OBVIOUS
    <3> QED BY <1>9, <3>1, ZMask
  <2> QED BY <2>1
<1>12. Maxcut(n, edges, constant) = terms \o last
  BY DEF Maxcut, whole
<1> HIDE DEF terms, last
<1> QED BY <1>10, <1>11, <1>12

LEMMA DiagonalMask ==
    ASSUME NEW n \in Nat, NEW coeff \in Int, NEW P \in [1 .. n -> {"I", "X", "Y", "Z"}],
           Dense(coeff, P).x = {}
    PROVE  Dense(coeff, P) \in CostTerms(n)
<1> DEFINE factors == {<<P[k], k - 1>> : k \in {i \in DOMAIN P : P[i] # "I"}}
           On(paulis) == {f[2] : f \in {g \in factors : g[1] \in paulis}}
<1>1. \A f \in factors : f[2] \in 0 .. n - 1
  OBVIOUS
<1> HIDE DEF factors
<1>2. \A paulis : On(paulis) \in SUBSET (0 .. n - 1)
  BY <1>1
<1>3. Dense(coeff, P)
      = [coeff |-> coeff, x |-> On({"X", "Y"}), z |-> On({"Y", "Z"}),
         ny |-> Cardinality(On({"Y"}))]
  BY DEF Dense, Mask, factors
<1>4. IsFiniteSet(0 .. n - 1)
  BY FS_Interval
<1>5. On({"Y"}) \in SUBSET (0 .. n - 1) /\ On({"Y", "Z"}) \in SUBSET (0 .. n - 1)
  BY <1>2
<1>6. Cardinality(On({"Y"})) \in Nat
  BY <1>4, <1>5, FS_Subset, FS_CardinalityType
<1> HIDE DEF On
<1>7. On({"X", "Y"}) \in {{}}
  BY <1>3
<1> QED BY <1>3, <1>5, <1>6, <1>7 DEF CostTerms

\* The masks of an accepted cost: those of terms with Z and I only.
LEMMA CostMasksType ==
    ASSUME NEW o, IsCost(o), IsDiagonal(Masks(o))
    PROVE  o.n \in Widths /\ o.n \in Nat /\ Masks(o) \in Seq(CostTerms(o.n))
<1>1. o.n \in Widths /\ o.n \in Nat
  BY RuntimeAssumption DEF IsCost
<1>2. CASE o.what = "maxcut"
  <2> DEFINE All == [u : 0 .. o.n - 1, v : 0 .. o.n - 1, w : Int]
             Some == {e \in All : e.u # e.v /\ e.w % 2 = 0}
  <2>1. o.edges \in Seq(Some)
    BY <1>2 DEF IsCost
  <2>2. Some \subseteq All
    OBVIOUS
  <2>3. Masks(o) = Maxcut(o.n, o.edges, o.constant)
    BY <1>2 DEF Masks
  <2> HIDE DEF Some, All
  <2>4. o.edges \in Seq(All)
    BY <2>1, <2>2
  <2> QED BY <1>1, <2>3, <2>4, MaxcutType DEF All
<1>3. CASE o.what # "maxcut"
  <2> DEFINE Term1 == [coeff : Int, paulis : [1 .. o.n -> {"I", "X", "Y", "Z"}]]
             Row(t) == Dense(t.coeff, t.paulis)
  <2>1. o.what = "pauli_terms" /\ o.terms \in Seq(Term1)
    BY <1>3 DEF IsCost, IsHamiltonian
  <2>2. Masks(o) = [k \in DOMAIN o.terms |-> Row(o.terms[k])]
    BY <2>1 DEF Masks
  <2>3. \A t \in Term1 : t.coeff \in Int /\ t.paulis \in [1 .. o.n -> {"I", "X", "Y", "Z"}]
    OBVIOUS
  <2> HIDE DEF Term1, Row
  <2>4. DOMAIN o.terms = 1 .. Len(o.terms) /\ Len(o.terms) \in Nat
    BY <2>1
  <2>5. ASSUME NEW k \in 1 .. Len(o.terms) PROVE Row(o.terms[k]) \in CostTerms(o.n)
    <3>1. o.terms[k] \in Term1
      BY <2>1
    <3>2. Row(o.terms[k]).x = {}
      BY <2>2, <2>4 DEF IsDiagonal
    <3> QED BY <1>1, <2>3, <3>1, <3>2, DiagonalMask DEF Row
  <2> QED BY <1>1, <2>2, <2>4, <2>5
<1> QED BY <1>1, <1>2, <1>3

LEMMA CostGadgetType ==
    ASSUME NEW n \in Nat, NEW c \in CircuitsOn(n), NEW m \in CostTerms(n),
           NEW i \in Nat, i < c.params
    PROVE  /\ CostGadget(c, m, Free(i)) \in CircuitsOn(n)
           /\ CostGadget(c, m, Free(i)).params = c.params
<1>1. m.coeff \in Int /\ m.z \in SUBSET (0 .. n - 1)
  BY DEF CostTerms
<1>2. c.n = n /\ c.params \in Nat
  BY CircuitFacts
<1>3. CASE m.z = {}
  BY <1>3 DEF CostGadget
<1>4. CASE m.z # {}
  <2> DEFINE qs == Ascending(n, m.z)
             fanIn == [k \in 1 .. Len(qs) - 1 |-> Gate("CNOT", <<qs[k], Last(qs)>>, <<>>)]
             turn == Gate("RZ", <<Last(qs)>>, <<Scaled(2 * m.coeff, Free(i))>>)
             Gs == GatesOn(n, c.params)
  <2>1. CostGadget(c, m, Free(i)) = AddGates(c, fanIn \o <<turn>> \o Reverse(fanIn))
    BY <1>2, <1>4 DEF CostGadget
  <2>2. /\ qs \in Seq(0 .. n - 1)
        /\ \A a, b \in 1 .. Len(qs) : a # b => qs[a] # qs[b]
        /\ \A q \in 0 .. n - 1 : q \in m.z => \E a \in 1 .. Len(qs) : qs[a] = q
    <3>1. \A set : Ascending(n, set) \in Seq(0 .. n - 1)
      BY AscendingFacts
    <3>2. \A set : \A a, b \in 1 .. Len(Ascending(n, set)) :
            a # b => Ascending(n, set)[a] # Ascending(n, set)[b]
      BY AscendingFacts
    <3>3. \A set : \A q \in 0 .. n - 1 :
            q \in set => \E a \in 1 .. Len(Ascending(n, set)) : Ascending(n, set)[a] = q
      BY AscendingFacts
    <3> QED BY <3>1, <3>2, <3>3
  <2> HIDE DEF qs
  <2>3. Len(qs) \in 1 .. Len(qs) /\ Len(qs) - 1 \in Nat
    <3>1. \E a \in 1 .. Len(qs) : TRUE
      BY <1>1, <1>4, <2>2
    <3> QED BY <2>2, <3>1
  <2>4. Last(qs) = qs[Len(qs)] /\ Last(qs) \in 0 .. n - 1
    BY <2>2, <2>3 DEF Last
  <2>5. ASSUME NEW k \in 1 .. Len(qs) - 1
        PROVE  Gate("CNOT", <<qs[k], Last(qs)>>, <<>>) \in Gs
    <3>1. k \in 1 .. Len(qs) /\ k # Len(qs)
      BY <2>3
    <3>2. qs[k] \in 0 .. n - 1 /\ qs[k] # Last(qs)
      BY <2>2, <2>3, <2>4, <3>1
    <3> QED BY <1>2, <2>4, <3>2, MakesTwo
  <2>6. fanIn \in Seq(Gs)
    BY <2>3, <2>5
  <2>7. turn \in Gs
    <3>1. 2 * m.coeff \in Int
      BY <1>1
    <3> DEFINE arg == Scaled(2 * m.coeff, Free(i))
    <3>2. arg \in Args(c.params)
      BY <1>2, <3>1, FreeArgument
    <3> HIDE DEF arg
    <3>3. <<arg>> \in Seq(Args(c.params)) /\ Len(<<arg>>) = 1
      BY <3>2
    <3>4. "RZ" \in OneQubit /\ Arguments("RZ") = 1
      BY DEF OneQubit, Arguments
    <3>5. Gate("RZ", <<Last(qs)>>, <<arg>>) \in Gs
      BY <1>2, <2>4, <3>3, <3>4, MakesOne
    <3> QED BY <3>5 DEF arg
  <2> HIDE DEF fanIn, turn, Gs
  <2>8. Reverse(fanIn) \in Seq(Gs)
    <3>1. Reverse(fanIn) = [k \in 1 .. Len(fanIn) |-> fanIn[(Len(fanIn) - k) + 1]]
      BY Zenon DEF Reverse
    <3>2. Len(fanIn) \in Nat /\ \A k \in 1 .. Len(fanIn) : fanIn[(Len(fanIn) - k) + 1] \in Gs
      BY <2>6
    <3> QED BY <3>1, <3>2
  <2>9. fanIn \o <<turn>> \o Reverse(fanIn) \in Seq(Gs)
    BY <2>6, <2>7, <2>8
  <2> DEFINE gates == fanIn \o <<turn>> \o Reverse(fanIn)
  <2>10. gates \in Seq(GatesOn(n, c.params))
    BY <2>9 DEF Gs
  <2> HIDE DEF gates
  <2>11. AddGates(c, gates) \in CircuitsOn(n) /\ AddGates(c, gates).params = c.params
    BY <2>10, AddsGates
  <2> QED BY <2>1, <2>11 DEF gates
<1> QED BY <1>3, <1>4

LEMMA QaoaLayerType ==
    ASSUME NEW n \in Nat, NEW c \in CircuitsOn(n), NEW masks \in Seq(CostTerms(n))
    PROVE  QaoaLayer(c, masks) \in CircuitsOn(n)
<1> DEFINE gamma == Free(c.params)
           N == Len(masks)
           V == {d \in CircuitsOn(n) : d.params = c.params + 2}
           base == NewParams(c, 2)
           whole == FoldLeft(LAMBDA d, m : CostGadget(d, m, gamma), base, masks)
           Next1(d, k) == CostGadget(d, masks[k], gamma)
           F(it) == [S \in SUBSET (1 .. N) |->
                       IF S = {} THEN base ELSE Next1(it[S \ {Max(S)}], Max(S))]
<1>1. N \in Nat /\ base \in V
  BY AllocatesParams
<1>2. \A d \in V, k \in 1 .. N : Next1(d, k) \in V
  <2>1. ASSUME NEW d \in V, NEW k \in 1 .. N PROVE Next1(d, k) \in V
    <3>1. masks[k] \in CostTerms(n)
      OBVIOUS
    <3>2. c.params \in Nat /\ d \in CircuitsOn(n) /\ d.params = c.params + 2
      BY CircuitFacts
    <3>3. c.params < d.params
      BY <3>2
    <3> QED BY <3>1, <3>2, <3>3, CostGadgetType
  <2> QED BY <2>1
<1>3. whole = (CHOOSE it : it = F(it))[1 .. N]
  <2>1. DOMAIN masks = 1 .. N
    OBVIOUS
  <2> QED BY <2>1 DEF FoldLeft, MapThenFoldSet
<1> HIDE DEF N, V, base, Next1, whole
<1>4. \E it : it = F(it)
  <2> DEFINE step == [p \in V \X (1 .. N) |-> Next1(p[1], p[2])]
  <2>1. \A d \in V, k \in 1 .. N : step[<<d, k>>] = Next1(d, k)
    OBVIOUS
  <2> HIDE DEF step
  <2>2. PICK it : Folds(it, N, base, step, V)
    <3>1. \A d \in V, k \in 1 .. N : step[<<d, k>>] \in V
      BY <1>2, <2>1
    <3> QED BY <1>1, <3>1, FoldExists
  <2>3. /\ it \in [SUBSET (1 .. N) -> V]
        /\ \A S \in SUBSET (1 .. N) :
              it[S] = IF S = {} THEN base ELSE step[<<it[S \ {Max(S)}], Max(S)>>]
    BY <2>2 DEF Folds
  <2>4. ASSUME NEW S \in SUBSET (1 .. N)
        PROVE  it[S] = IF S = {} THEN base ELSE Next1(it[S \ {Max(S)}], Max(S))
    <3>1. CASE S # {}
      <4>1. Max(S) \in 1 .. N /\ it[S \ {Max(S)}] \in V
        BY <1>1, <2>3, <3>1, Greatest
      <4> QED BY <2>1, <2>3, <3>1, <4>1
    <3> QED BY <2>3, <3>1
  <2>5. it = F(it)
    BY <2>3, <2>4
  <2> QED BY <2>5
<1>5. PICK it : it = F(it) /\ whole = it[1 .. N]
  BY <1>3, <1>4
<1>6. it[{}] = base
  BY <1>5
<1>7. ASSUME NEW k \in 1 .. N PROVE it[1 .. k] = Next1(it[1 .. k - 1], k)
  <2>1. Max(1 .. k) = k /\ (1 .. k) \ {k} = 1 .. k - 1
    BY <1>1, PartOfAll, GreatestOfAll
  <2>2. 1 .. k \in SUBSET (1 .. N) /\ 1 .. k # {}
    BY <1>1, PartOfAll
  <2> QED BY <1>5, <2>1, <2>2
<1>8. it[1 .. N] \in V
  <2> DEFINE W == [k \in 0 .. N |-> V]
  <2>1. it[{}] \in W[0] /\ W[N] = V
    BY <1>1, <1>6
  <2>2. \A k \in 1 .. N : it[1 .. k - 1] \in W[k - 1] => it[1 .. k] \in W[k]
    BY <1>1, <1>2, <1>7
  <2> HIDE DEF W
  <2> QED BY <1>1, <2>1, <2>2, FoldClimbs
<1> DEFINE beta == Free(c.params + 1)
           gates == [q \in 1 .. n |-> Gate("RX", <<q - 1>>, <<Scaled(2, beta)>>)]
<1>9. whole \in CircuitsOn(n) /\ whole.params = c.params + 2
  BY <1>5, <1>8 DEF V
<1>10. whole.n = n /\ whole.params \in Nat /\ c.params \in Nat /\ c.n = n
  BY <1>9, CircuitFacts
<1>11. QaoaLayer(c, masks) = AddGates(whole, gates)
  BY <1>10 DEF QaoaLayer, whole, base
<1>12. ASSUME NEW q \in 1 .. n
       PROVE  Gate("RX", <<q - 1>>, <<Scaled(2, beta)>>) \in GatesOn(n, whole.params)
  <2> DEFINE arg == Scaled(2, beta)
  <2>1. arg \in Args(whole.params)
    <3>1. c.params + 1 \in Nat /\ c.params + 1 < whole.params
      BY <1>9, <1>10
    <3> QED BY <1>10, <3>1, FreeArgument
  <2> HIDE DEF arg
  <2>2. <<arg>> \in Seq(Args(whole.params)) /\ Len(<<arg>>) = 1
    BY <2>1
  <2>3. "RX" \in OneQubit /\ Arguments("RX") = 1 /\ q - 1 \in 0 .. n - 1
    BY DEF OneQubit, Arguments
  <2>4. Gate("RX", <<q - 1>>, <<arg>>) \in GatesOn(n, whole.params)
    BY <1>10, <2>2, <2>3, MakesOne
  <2> QED BY <2>4 DEF arg
<1>13. gates \in Seq(GatesOn(n, whole.params))
  BY <1>12
<1> HIDE DEF gates
<1> QED BY <1>9, <1>11, <1>13, AddsGates

LEMMA QaoaLayersType ==
    ASSUME NEW n \in Nat, NEW c \in CircuitsOn(n), NEW masks \in Seq(CostTerms(n)),
           NEW p \in Nat
    PROVE  QaoaLayers(c, masks, p) \in CircuitsOn(n)
<1> DEFINE N == p
           V == CircuitsOn(n)
           base == c
           whole == QaoaLayers(c, masks, p)
           Next1(d, k) == QaoaLayer(d, masks)
           F(it) == [S \in SUBSET (1 .. N) |->
                       IF S = {} THEN base ELSE Next1(it[S \ {Max(S)}], Max(S))]
<1>1. N \in Nat /\ base \in V
  OBVIOUS
<1>2. \A d \in V, k \in 1 .. N : Next1(d, k) \in V
  BY QaoaLayerType
<1>3. whole = (CHOOSE it : it = F(it))[1 .. N]
  BY DEF QaoaLayers, FoldLeft, MapThenFoldSet
<1> HIDE DEF N, V, base, Next1, whole
<1>4. \E it : it = F(it)
  <2> DEFINE step == [x \in V \X (1 .. N) |-> Next1(x[1], x[2])]
  <2>1. \A d \in V, k \in 1 .. N : step[<<d, k>>] = Next1(d, k)
    OBVIOUS
  <2> HIDE DEF step
  <2>2. PICK it : Folds(it, N, base, step, V)
    <3>1. \A d \in V, k \in 1 .. N : step[<<d, k>>] \in V
      BY <1>2, <2>1
    <3> QED BY <1>1, <3>1, FoldExists
  <2>3. /\ it \in [SUBSET (1 .. N) -> V]
        /\ \A S \in SUBSET (1 .. N) :
              it[S] = IF S = {} THEN base ELSE step[<<it[S \ {Max(S)}], Max(S)>>]
    BY <2>2 DEF Folds
  <2>4. ASSUME NEW S \in SUBSET (1 .. N)
        PROVE  it[S] = IF S = {} THEN base ELSE Next1(it[S \ {Max(S)}], Max(S))
    <3>1. CASE S # {}
      <4>1. Max(S) \in 1 .. N /\ it[S \ {Max(S)}] \in V
        BY <1>1, <2>3, <3>1, Greatest
      <4> QED BY <2>1, <2>3, <3>1, <4>1
    <3> QED BY <2>3, <3>1
  <2>5. it = F(it)
    BY <2>3, <2>4
  <2> QED BY <2>5
<1>5. PICK it : it = F(it) /\ whole = it[1 .. N]
  BY <1>3, <1>4
<1>6. it[{}] = base
  BY <1>5
<1>7. ASSUME NEW k \in 1 .. N PROVE it[1 .. k] = Next1(it[1 .. k - 1], k)
  <2>1. Max(1 .. k) = k /\ (1 .. k) \ {k} = 1 .. k - 1
    BY <1>1, PartOfAll, GreatestOfAll
  <2>2. 1 .. k \in SUBSET (1 .. N) /\ 1 .. k # {}
    BY <1>1, PartOfAll
  <2> QED BY <1>5, <2>1, <2>2
<1>8. it[1 .. N] \in V
  <2> DEFINE W == [k \in 0 .. N |-> V]
  <2>1. it[{}] \in W[0] /\ W[N] = V
    BY <1>1, <1>6
  <2>2. \A k \in 1 .. N : it[1 .. k - 1] \in W[k - 1] => it[1 .. k] \in W[k]
    BY <1>1, <1>2, <1>7
  <2> HIDE DEF W
  <2> QED BY <1>1, <2>1, <2>2, FoldClimbs
<1> QED BY <1>5, <1>8 DEF V, whole

LEMMA EmptyCircuit ==
    ASSUME NEW n \in Nat
    PROVE  NewCircuit(n) \in CircuitsOn(n) /\ NewCircuit(n).params = 0
<1>1. NewCircuit(n) = [n |-> n, params |-> 0, ops |-> <<>>, measured |-> <<>>]
  BY DEF NewCircuit
<1>2. <<>> \in Seq(GatesOn(n, 0)) /\ <<>> \in Seq(Nat) /\ 0 \in Nat
  OBVIOUS
<1>3. [n |-> n, params |-> 0, ops |-> <<>>, measured |-> <<>>] \in CircuitsOn(n)
  BY <1>2, MakesCircuit
<1> QED BY <1>1, <1>3

LEMMA QaoaType ==
    ASSUME NEW n \in Nat, NEW masks \in Seq(CostTerms(n)), NEW p \in Nat
    PROVE  Qaoa(n, masks, p) \in CircuitsOn(n)
<1> DEFINE c == NewCircuit(n)
           gates == [q \in 1 .. n |-> Gate("H", <<q - 1>>, <<>>)]
<1>1. c \in CircuitsOn(n) /\ c.params = 0
  BY EmptyCircuit
<1> HIDE DEF c
<1>2. ASSUME NEW q \in 1 .. n PROVE Gate("H", <<q - 1>>, <<>>) \in GatesOn(n, 0)
  <2>1. "H" \in OneQubit /\ Arguments("H") = 0 /\ q - 1 \in 0 .. n - 1
    BY DEF OneQubit, Arguments
  <2>2. <<>> \in Seq(Args(0)) /\ Len(<<>>) = 0
    OBVIOUS
  <2> QED BY <2>1, <2>2, MakesOne
<1>3. gates \in Seq(GatesOn(n, c.params))
  BY <1>1, <1>2
<1> HIDE DEF gates
<1>4. AddGates(c, gates) \in CircuitsOn(n)
  BY <1>1, <1>3, AddsGates
<1>5. QaoaLayers(AddGates(c, gates), masks, p) \in CircuitsOn(n)
  BY <1>4, QaoaLayersType
<1> QED BY <1>5 DEF Qaoa, c, gates

-----------------------------------------------------------------------------
(* The builder *)

LEMMA AddGateType ==
    ASSUME NEW n \in Nat, NEW c \in CircuitsOn(n), NEW g \in GateOp, Accepts(c, g), Halved(g)
    PROVE  AddGate(c, g) \in CircuitsOn(n)
<1>1. c.n = n /\ c.params \in Nat
  BY CircuitFacts
<1>2. /\ g.type \in OneQubit \cup TwoQubit /\ g.qubits \in Seq(Nat) /\ g.args \in Seq(Param)
      /\ Len(g.qubits) = IF g.type \in OneQubit THEN 1 ELSE 2
  BY DEF GateOp
<1>3. ASSUME NEW i \in DOMAIN g.args PROVE g.args[i].index < c.params
  <2>1. g.args[i] \in Param
    BY <1>2
  <2>2. g.args[i].index \in Int
    BY <2>1 DEF Param
  <2>3. g.args[i].index >= 0 => g.args[i].index < c.params
    BY DEF Accepts, IsSymbolic
  <2> QED BY <1>1, <2>2, <2>3
<1>4. WellFormed(g, n)
  <2>1. \A i \in DOMAIN g.qubits : g.qubits[i] \in 0 .. n - 1
    BY <1>1, <1>2 DEF Accepts
  <2>2. CASE g.type \in OneQubit
    <3>1. Len(g.qubits) = 1 /\ g.qubits = [i \in 1 .. 1 |-> g.qubits[i]]
      BY <1>2, <2>2
    <3>2. g.qubits \in [1 .. 1 -> 0 .. n - 1]
      BY <1>2, <2>1, <3>1
    <3> QED BY <2>2, <3>2 DEF WellFormed
  <2>3. CASE g.type \notin OneQubit
    <3>1. Len(g.qubits) = 2 /\ g.qubits = [i \in 1 .. 2 |-> g.qubits[i]] /\ g.type \in TwoQubit
      <4>1. Len(g.qubits) = 2 /\ g.type \in TwoQubit
        BY <1>2, <2>3
      <4> QED BY <1>2, <4>1
    <3>2. g.qubits \in [1 .. 2 -> 0 .. n - 1]
      BY <1>2, <2>1, <3>1
    <3>3. g.qubits[1] # g.qubits[2]
      BY <3>1 DEF Accepts
    <3> QED BY <3>1, <3>2, <3>3 DEF WellFormed
  <2> QED BY <2>2, <2>3
<1>5. g \in GatesOn(n, c.params)
  BY <1>3, <1>4 DEF GatesOn
<1>6. c.ops \in Seq(GatesOn(n, c.params)) /\ c.measured \in Seq(Nat)
  BY CircuitFacts
<1>7. Append(c.ops, g) \in Seq(GatesOn(n, c.params))
  BY <1>5, <1>6
<1>8. AddGate(c, g) = [n |-> n, params |-> c.params, ops |-> Append(c.ops, g),
                       measured |-> c.measured]
  <2> DEFINE x == Append(c.ops, g)
  <2>1. AddGate(c, g) = [c EXCEPT !.ops = x]
    BY DEF AddGate
  <2> HIDE DEF x
  <2>2. [c EXCEPT !.ops = x]
        = [n |-> c.n, params |-> c.params, ops |-> x, measured |-> c.measured]
    BY CircuitFacts, OtherGates
  <2> QED BY <1>1, <2>1, <2>2 DEF x
<1> QED BY <1>1, <1>6, <1>7, <1>8, MakesCircuit

LEMMA MeasureType ==
    ASSUME NEW n \in Nat, NEW c \in CircuitsOn(n), NEW q \in Nat
    PROVE  Measure(c, q) \in CircuitsOn(n)
<1>1. /\ c = [n |-> c.n, params |-> c.params, ops |-> c.ops, measured |-> c.measured]
      /\ c.n = n /\ c.params \in Nat /\ c.ops \in Seq(GatesOn(n, c.params))
      /\ c.measured \in Seq(Nat)
  BY CircuitFacts
<1> DEFINE m == Append(c.measured, q)
<1>2. m \in Seq(Nat)
  BY <1>1
<1>3. Measure(c, q) = [c EXCEPT !.measured = m]
  BY DEF Measure
<1> HIDE DEF m
<1>4. Measure(c, q) = [n |-> n, params |-> c.params, ops |-> c.ops, measured |-> m]
  BY <1>1, <1>3
<1> QED BY <1>1, <1>2, <1>4, MakesCircuit

LEMMA BoundGate ==
    ASSUME NEW n \in Nat, NEW p \in Nat, NEW g \in GatesOn(n, p), NEW args \in Seq(Args(0)),
           Len(args) = Len(g.args), Halved([g EXCEPT !.args = args])
    PROVE  [g EXCEPT !.args = args] \in GatesOn(n, 0)
<1>1. /\ g \in [type : OneQubit \cup TwoQubit, qubits : Seq(Nat), args : Seq(Param),
               dagger : BOOLEAN]
      /\ Len(g.qubits) = IF g.type \in OneQubit THEN 1 ELSE 2
      /\ Len(g.args) = Arguments(g.type) /\ WellFormed(g, n)
  BY DEF GatesOn, GateOp
<1> DEFINE h == [g EXCEPT !.args = args]
<1>2. args \in Seq(Param) /\ \A i \in DOMAIN args : args[i].index < 0
  BY DEF Args
<1>3. h \in [type : OneQubit \cup TwoQubit, qubits : Seq(Nat), args : Seq(Param),
            dagger : BOOLEAN]
  BY <1>1, <1>2
<1>4. h.type = g.type /\ h.qubits = g.qubits /\ h.args = args
  BY <1>1
<1> HIDE DEF h
<1>5. h \in GateOp
  BY <1>1, <1>3, <1>4 DEF GateOp
<1>6. WellFormed(h, n) /\ Halved(h)
  BY <1>1, <1>4 DEF WellFormed, h
<1> QED BY <1>2, <1>4, <1>5, <1>6 DEF GatesOn, h

LEMMA BindType ==
    ASSUME NEW n \in Nat, NEW c \in CircuitsOn(n), NEW theta \in Seq(Int),
           Len(theta) = c.params
    PROVE  Bind(c, theta) \in CircuitsOn(n)
<1>1. /\ c = [n |-> c.n, params |-> c.params, ops |-> c.ops, measured |-> c.measured]
      /\ c.n = n /\ c.params \in Nat /\ c.ops \in Seq(GatesOn(n, c.params))
      /\ c.measured \in Seq(Nat)
  BY CircuitFacts
<1> DEFINE bound == [k \in DOMAIN c.ops |-> BindGate(c.ops[k], theta)]
           none == [c EXCEPT !.params = 0]
<1>2. ASSUME NEW a \in Args(c.params) PROVE Constant(Resolve(a, theta)) \in Args(0)
  <2>1. a.index \in Int /\ a.scale \in Int /\ a.offset \in Int /\ a.index < c.params
    BY DEF Args, Param
  <2>2. Resolve(a, theta) \in Int
    <3>1. CASE a.index >= 0
      <4>1. a.index + 1 \in 1 .. Len(theta)
        BY <1>1, <2>1, <3>1
      <4>2. theta[a.index + 1] \in Int
        BY <4>1
      <4>3. a.scale * theta[a.index + 1] + a.offset \in Int
        BY <2>1, <4>2
      <4> QED BY <3>1, <4>3 DEF Resolve, IsSymbolic
    <3>2. CASE ~ (a.index >= 0)
      BY <2>1, <3>2 DEF Resolve, IsSymbolic
    <3> QED BY <3>1, <3>2
  <2> QED BY <2>2 DEF Constant, Args, Param
<1>a. ASSUME NEW a \in Args(c.params), a.scale % 2 = 0, a.offset % 2 = 0
      PROVE  Resolve(a, theta) % 2 = 0
  <2>1. a.index \in Int /\ a.scale \in Int /\ a.offset \in Int /\ a.index < c.params
    BY DEF Args, Param
  <2>2. CASE a.index >= 0
    <3>1. a.index + 1 \in 1 .. Len(theta)
      BY <1>1, <2>1, <2>2
    <3>2. theta[a.index + 1] \in Int
      BY <3>1
    <3>3. ASSUME NEW x \in Int, NEW y \in Int, NEW z \in Int, x % 2 = 0, z % 2 = 0
          PROVE  (x * y + z) % 2 = 0
      <4>1. PICK k \in Int, l \in Int : x = 2 * k /\ z = 2 * l
        <5>1. x \div 2 \in Int /\ z \div 2 \in Int /\ x = 2 * (x \div 2) /\ z = 2 * (z \div 2)
          BY <3>3
        <5> QED BY <5>1
      <4>2. x * y + z = 2 * (k * y + l) /\ k * y + l \in Int
        BY <4>1
      <4> QED BY <4>2
    <3>4. (a.scale * theta[a.index + 1] + a.offset) % 2 = 0
      BY <1>a, <2>1, <3>2, <3>3
    <3> QED BY <2>2, <3>4 DEF Resolve, IsSymbolic
  <2>3. CASE ~ (a.index >= 0)
    BY <1>a, <2>3 DEF Resolve, IsSymbolic
  <2> QED BY <2>2, <2>3
<1>3. ASSUME NEW k \in DOMAIN c.ops PROVE BindGate(c.ops[k], theta) \in GatesOn(n, 0)
  <2> DEFINE g == c.ops[k]
             args == [i \in DOMAIN g.args |-> Constant(Resolve(g.args[i], theta))]
  <2>1. g \in GatesOn(n, c.params)
    BY <1>1
  <2>2. BindGate(g, theta) = [g EXCEPT !.args = args]
    BY DEF BindGate
  <2> HIDE DEF g
  <2>3. g.args \in Seq(Param) /\ \A i \in DOMAIN g.args : g.args[i].index < c.params
    BY <2>1 DEF GatesOn, GateOp
  <2>4. \A i \in 1 .. Len(g.args) : g.args[i] \in Args(c.params)
    BY <2>3 DEF Args
  <2>5. \A i \in 1 .. Len(g.args) : Constant(Resolve(g.args[i], theta)) \in Args(0)
    BY <1>2, <2>4
  <2>6. DOMAIN g.args = 1 .. Len(g.args) /\ Len(g.args) \in Nat
    BY <2>3
  <2>7. args \in Seq(Args(0)) /\ Len(args) = Len(g.args)
    BY <2>5, <2>6
  <2>8. Halved([g EXCEPT !.args = args])
    <3> DEFINE h == [g EXCEPT !.args = args]
    <3>1. h.type = g.type /\ h.args = args
      BY <2>1 DEF GatesOn, GateOp
    <3>2. ASSUME g.type \in Controlled, NEW i \in DOMAIN g.args
          PROVE  args[i].scale % 2 = 0 /\ args[i].offset % 2 = 0
      <4>1. g.args[i] \in Args(c.params) /\ g.args[i].scale % 2 = 0 /\ g.args[i].offset % 2 = 0
        BY <2>1, <2>4, <2>6, <3>2 DEF GatesOn, Halved
      <4>2. Resolve(g.args[i], theta) % 2 = 0
        BY <1>a, <4>1
      <4>3. args[i].scale = 0 /\ args[i].offset = Resolve(g.args[i], theta) /\ 0 % 2 = 0
        BY DEF Constant
      <4> QED BY <4>2, <4>3
    <3>3. DOMAIN args = DOMAIN g.args
      OBVIOUS
    <3> HIDE DEF h, args
    <3>4. Halved(h)
      BY <3>1, <3>2, <3>3 DEF Halved
    <3> QED BY <3>4 DEF h
  <2> HIDE DEF args
  <2>9. [g EXCEPT !.args = args] \in GatesOn(n, 0)
    BY <1>1, <2>1, <2>7, <2>8, BoundGate
  <2> QED BY <2>2, <2>9 DEF g
<1>4. none = [n |-> n, params |-> 0, ops |-> c.ops, measured |-> c.measured]
  BY <1>1, OtherParams
<1>5. Bind(c, theta) = [none EXCEPT !.ops = bound]
  <2>1. \A x : [c EXCEPT !.params = 0, !.ops = x] = [none EXCEPT !.ops = x]
    BY <1>1
  <2>2. Bind(c, theta) = [c EXCEPT !.params = 0, !.ops = bound]
    BY Zenon DEF Bind
  <2> QED BY <2>1, <2>2
<1>6. bound \in Seq(GatesOn(n, 0))
  <2>1. DOMAIN c.ops = 1 .. Len(c.ops) /\ Len(c.ops) \in Nat
    BY <1>1
  <2> QED BY <1>3, <2>1
<1> HIDE DEF bound, none
<1>7. Bind(c, theta) = [n |-> n, params |-> 0, ops |-> bound, measured |-> c.measured]
  BY <1>4, <1>5
<1> QED BY <1>1, <1>6, <1>7, MakesCircuit

-----------------------------------------------------------------------------
(* Amplitudes *)

Amplitude == (0 .. Prime - 1) \X (0 .. Prime - 1)

LEMMA ComplexType ==
    ASSUME NEW re \in Int, NEW im \in Int
    PROVE  Complex(re, im) \in Amplitude
BY DEF Complex, Amplitude, Prime

LEMMA ArithmeticType ==
    ASSUME NEW a \in Amplitude, NEW b \in Amplitude
    PROVE  Plus(a, b) \in Amplitude /\ Times(a, b) \in Amplitude
<1>1. a[1] \in Int /\ a[2] \in Int /\ b[1] \in Int /\ b[2] \in Int
  BY DEF Amplitude, Prime
<1>2. /\ a[1] + b[1] \in Int /\ a[2] + b[2] \in Int
      /\ a[1] * b[1] - a[2] * b[2] \in Int /\ a[1] * b[2] + a[2] * b[1] \in Int
  BY <1>1
<1> QED BY <1>2, ComplexType DEF Plus, Times

LEMMA CosType == ASSUME NEW k \in Int PROVE Cos(k) \in Int /\ Sin(k) \in Int
<1> DEFINE table == <<1, 7, 4, 18, 0, -18, -4, -7, -1, -7, -4, -18, 0, 18, 4, 7>>
<1>1. \A i \in 1 .. 16 : table[i] \in Int
  OBVIOUS
<1>2. \A j \in Int : (j % 16) + 1 \in 1 .. 16
  OBVIOUS
<1>3. \A j \in Int : Cos(j) = table[(j % 16) + 1]
  BY DEF Cos
<1> HIDE DEF table
<1>4. \A j \in Int : Cos(j) \in Int
  BY <1>1, <1>2, <1>3
<1> QED BY <1>4 DEF Sin

LEMMA ConstantsType ==
    /\ Zero \in Amplitude /\ One \in Amplitude /\ Garbage \in Amplitude
    /\ \A k \in Int : Phase(k) \in Amplitude
BY ComplexType, CosType DEF Zero, One, Garbage, Phase

IsMatrix(m) == Len(m) = 4 /\ \A k \in 1 .. 4 : m[k] \in Amplitude

LEMMA FourEntries ==
    ASSUME NEW a \in Amplitude, NEW b \in Amplitude, NEW c \in Amplitude, NEW d \in Amplitude
    PROVE  IsMatrix(<<a, b, c, d>>)
BY DEF IsMatrix

LEMMA MatricesType ==
    /\ IsMatrix(HMatrix) /\ IsMatrix(XMatrix) /\ IsMatrix(YMatrix) /\ IsMatrix(ZMatrix)
    /\ \A dagger \in BOOLEAN : IsMatrix(SMatrix(dagger)) /\ IsMatrix(TMatrix(dagger))
    /\ \A t \in Int : IsMatrix(RXMatrix(t)) /\ IsMatrix(RYMatrix(t)) /\ IsMatrix(RZMatrix(t))
    /\ \A t, f, l \in Int : IsMatrix(UMatrix(t, f, l))
<1>1. /\ Zero \in Amplitude /\ One \in Amplitude
      /\ \A k \in Int : Phase(k) \in Amplitude
  BY ConstantsType
<1>2. IsMatrix(HMatrix)
  BY ComplexType, FourEntries, SMTT(20) DEF HMatrix
<1>3. IsMatrix(XMatrix) /\ IsMatrix(YMatrix) /\ IsMatrix(ZMatrix)
  <2>1. /\ Complex(0, -1) \in Amplitude /\ Complex(0, 1) \in Amplitude
        /\ Complex(-1, 0) \in Amplitude
    BY ComplexType
  <2> QED BY <1>1, <2>1, FourEntries DEF XMatrix, YMatrix, ZMatrix
<1>4. ASSUME NEW dagger \in BOOLEAN PROVE IsMatrix(SMatrix(dagger)) /\ IsMatrix(TMatrix(dagger))
  <2>1. /\ (IF dagger THEN -1 ELSE 1) \in Int /\ (IF dagger THEN -2 ELSE 2) \in Int
    OBVIOUS
  <2>2. /\ Complex(0, IF dagger THEN -1 ELSE 1) \in Amplitude
        /\ Phase(IF dagger THEN -2 ELSE 2) \in Amplitude
    BY <1>1, <2>1, ComplexType
  <2> QED BY <1>1, <2>2, FourEntries DEF SMatrix, TMatrix
<1>5. ASSUME NEW t \in Int
      PROVE  IsMatrix(RXMatrix(t)) /\ IsMatrix(RYMatrix(t)) /\ IsMatrix(RZMatrix(t))
  <2>1. Cos(t) \in Int /\ Sin(t) \in Int /\ -Sin(t) \in Int /\ -t \in Int
    BY CosType
  <2>2. /\ Complex(Cos(t), 0) \in Amplitude /\ Complex(0, -Sin(t)) \in Amplitude
        /\ Complex(-Sin(t), 0) \in Amplitude /\ Complex(Sin(t), 0) \in Amplitude
    BY <2>1, ComplexType
  <2> QED BY <1>1, <2>1, <2>2, FourEntries DEF RXMatrix, RYMatrix, RZMatrix
<1>6. ASSUME NEW t \in Int, NEW f \in Int, NEW l \in Int PROVE IsMatrix(UMatrix(t, f, l))
  <2>1. Cos(t) \in Int /\ Sin(t) \in Int /\ -Sin(t) \in Int
    BY CosType
  <2>2. /\ Complex(Cos(t), 0) \in Amplitude /\ Complex(-Sin(t), 0) \in Amplitude
        /\ Complex(Sin(t), 0) \in Amplitude
    BY <2>1, ComplexType
  <2>3. /\ Phase(2 * l) \in Amplitude /\ Phase(2 * f) \in Amplitude
        /\ Phase(2 * (f + l)) \in Amplitude
    BY <1>1
  <2> QED BY <2>2, <2>3, ArithmeticType, FourEntries DEF UMatrix
<1> QED BY <1>2, <1>3, <1>4, <1>5, <1>6

LEMMA MatrixType ==
    ASSUME NEW g \in GateOp
    PROVE  IsMatrix(Matrix(g))
<1> DEFINE a == [i \in DOMAIN g.args |-> g.args[i].offset]
<1>1. /\ g.type \in OneQubit \cup TwoQubit /\ g.args \in Seq(Param) /\ g.dagger \in BOOLEAN
      /\ Len(g.args) = Arguments(g.type)
  BY DEF GateOp
<1>2. \A i \in 1 .. Len(g.args) : a[i] \in Int
  <2>1. \A i \in 1 .. Len(g.args) : g.args[i] \in Param
    BY <1>1
  <2>2. DOMAIN g.args = 1 .. Len(g.args)
    BY <1>1
  <2> QED BY <2>1, <2>2 DEF Param
<1> HIDE DEF a
<1>3. CASE g.type = "U"
  <2>1. a[1] \in Int /\ a[2] \in Int /\ a[3] \in Int
    BY <1>1, <1>2, <1>3 DEF Arguments
  <2>2. Matrix(g) = UMatrix(a[1], a[2], a[3])
    BY <1>3 DEF Matrix, a
  <2> QED BY <2>1, <2>2, MatricesType
<1>4. CASE g.type \in {"RX", "RY", "RZ", "CRX", "CRY", "CRZ"}
  <2>1. a[1] \in Int
    BY <1>1, <1>2, <1>4 DEF Arguments
  <2>2. Matrix(g) \in {RXMatrix(a[1]), RYMatrix(a[1]), RZMatrix(a[1])}
    BY <1>4 DEF Matrix, a
  <2> QED BY <2>1, <2>2, MatricesType
<1>5. CASE g.type \in {"H", "X", "CNOT", "SWAP", "Y", "Z", "CZ", "S", "T"}
  <2>1. Matrix(g) \in {HMatrix, XMatrix, YMatrix, ZMatrix, SMatrix(g.dagger), TMatrix(g.dagger)}
    BY <1>5 DEF Matrix
  <2> QED BY <1>1, <2>1, MatricesType
<1> QED BY <1>1, <1>3, <1>4, <1>5 DEF OneQubit, TwoQubit

-----------------------------------------------------------------------------
(* Division *)

LEMMA Division ==
    ASSUME NEW i \in Nat, NEW m \in Nat \ {0}
    PROVE  /\ i = m * (i \div m) + (i % m)
           /\ i % m \in 0 .. m - 1 /\ i \div m \in Nat
OBVIOUS

LEMMA DivisionIsUnique ==
    ASSUME NEW m \in Nat \ {0}, NEW a \in Int, NEW b \in Int,
           NEW r \in 0 .. m - 1, NEW s \in 0 .. m - 1,
           a * m + r = b * m + s
    PROVE  a = b /\ r = s
<1>1. CASE a < b
  <2>1. (b - a) * m >= m
    <3>1. b - a \in Nat /\ b - a >= 1
      BY <1>1
    <3> QED BY <3>1
  <2>2. (b - a) * m = b * m - a * m
    OBVIOUS
  <2> QED BY <2>1, <2>2
<1>2. CASE a > b
  <2>1. (a - b) * m >= m
    <3>1. a - b \in Nat /\ a - b >= 1
      BY <1>2
    <3> QED BY <3>1
  <2>2. (a - b) * m = a * m - b * m
    OBVIOUS
  <2> QED BY <2>1, <2>2
<1>3. CASE a = b
  BY <1>3
<1> QED BY <1>1, <1>2, <1>3

LEMMA QuotientIsBelow ==
    ASSUME NEW m \in Nat \ {0}, NEW k \in Nat, NEW a \in Nat, NEW r \in 0 .. m - 1,
           a * m + r < k * m
    PROVE  a + 1 <= k
<1> SUFFICES ASSUME a >= k PROVE FALSE
  OBVIOUS
<1>1. (a - k) * m >= 0
  <2>1. a - k \in Nat
    OBVIOUS
  <2> QED BY <2>1
<1>2. (a - k) * m = a * m - k * m
  OBVIOUS
<1> QED BY <1>1, <1>2

LEMMA ProductIsAbove ==
    ASSUME NEW m \in Nat \ {0}, NEW k \in Nat, NEW a \in Nat, NEW r \in 0 .. m - 1,
           a + 1 <= k
    PROVE  a * m + r < k * m
<1>1. (k - a) * m >= m
  <2>1. k - a \in Nat /\ k - a >= 1
    OBVIOUS
  <2> QED BY <2>1
<1>2. (k - a) * m = k * m - a * m
  OBVIOUS
<1> QED BY <1>1, <1>2

-----------------------------------------------------------------------------
(* The indices of a matrix kernel's work items *)

LEMMA FirstIndex ==
    ASSUME NEW m \in Nat \ {0}, NEW i \in Nat
    PROVE  \E a \in Nat, r \in 0 .. m - 1 :
              i = a * m + r /\ I0(i, m) = (2 * a) * m + r
<1> DEFINE a == i \div m
           r == i % m
<1>1. i = m * a + r /\ r \in 0 .. m - 1 /\ a \in Nat
  BY Division
<1>2. I0(i, m) = 2 * (i - r) + r
  BY DEF I0
<1> HIDE DEF a, r
<1>3. m * a = a * m /\ 2 * (a * m) = (2 * a) * m
  BY <1>1
<1>4. i = a * m + r /\ I0(i, m) = (2 * a) * m + r
  BY <1>1, <1>2, <1>3
<1> QED BY <1>1, <1>4

\* Both are inside a state of 2 * m * k amplitudes, ...
LEMMA PairInside ==
    ASSUME NEW m \in Nat \ {0}, NEW k \in Nat, NEW i \in Nat, i < k * m
    PROVE  I0(i, m) \in Nat /\ I0(i, m) + m < (2 * k) * m
<1>1. PICK a \in Nat, r \in 0 .. m - 1 : i = a * m + r /\ I0(i, m) = (2 * a) * m + r
  BY FirstIndex
<1>2. a + 1 <= k
  BY <1>1, QuotientIsBelow
<1>3. (2 * a + 1) + 1 <= 2 * k /\ 2 * a + 1 \in Nat /\ 2 * k \in Nat
  BY <1>2
<1>4. (2 * a + 1) * m + r < (2 * k) * m
  BY <1>3, ProductIsAbove
<1>5. (2 * a + 1) * m = (2 * a) * m + m /\ (2 * a) * m \in Nat
  OBVIOUS
<1> QED BY <1>1, <1>4, <1>5

\* ... and two work items share none.
LEMMA PairsApart ==
    ASSUME NEW m \in Nat \ {0}, NEW i \in Nat, NEW j \in Nat
    PROVE  /\ I0(i, m) = I0(j, m) => i = j
           /\ I0(i, m) # I0(j, m) + m
<1>1. PICK a \in Nat, r \in 0 .. m - 1 : i = a * m + r /\ I0(i, m) = (2 * a) * m + r
  BY FirstIndex
<1>2. PICK b \in Nat, s \in 0 .. m - 1 : j = b * m + s /\ I0(j, m) = (2 * b) * m + s
  BY FirstIndex
<1>3. ASSUME I0(i, m) = I0(j, m) PROVE i = j
  <2>1. 2 * a = 2 * b /\ r = s
    <3>1. 2 * a \in Int /\ 2 * b \in Int
      OBVIOUS
    <3>2. (2 * a) * m + r = (2 * b) * m + s
      BY <1>1, <1>2, <1>3
    <3> QED BY <3>1, <3>2, DivisionIsUnique
  <2>2. a = b
    BY <2>1
  <2> QED BY <1>1, <1>2, <2>1, <2>2
<1>4. ASSUME I0(i, m) = I0(j, m) + m PROVE FALSE
  <2>1. (2 * b + 1) * m = (2 * b) * m + m
    OBVIOUS
  <2>2. (2 * a) * m + r = (2 * b + 1) * m + s
    BY <1>1, <1>2, <1>4, <2>1
  <2>3. 2 * a \in Int /\ 2 * b + 1 \in Int
    OBVIOUS
  <2>4. 2 * a = 2 * b + 1
    BY <2>2, <2>3, DivisionIsUnique
  <2> QED BY <2>4
<1> QED BY <1>3, <1>4

-----------------------------------------------------------------------------
(* The indices of the swap kernel's work items, with m and l the masks of its *)
(* two qubits                                                                 *)

EvenPart(i, m) == (i \div m) % 2 = 0

LEMMA Parity ==
    ASSUME NEW i \in Nat, NEW m \in Nat \ {0}
    PROVE  /\ EvenPart(i, m) => \E h \in Nat, r \in 0 .. m - 1 : i = (2 * h) * m + r
           /\ ~EvenPart(i, m) => \E h \in Nat, r \in 0 .. m - 1 : i = (2 * h + 1) * m + r
<1>1. PICK a \in Nat, r \in 0 .. m - 1 : a = i \div m /\ i = m * a + r
  BY Division
<1>2. m * a = a * m
  BY <1>1
<1>3. CASE a % 2 = 0
  <2>1. PICK h \in Nat : a = 2 * h
    BY <1>3
  <2>2. i = (2 * h) * m + r
    BY <1>1, <1>2, <2>1
  <2> QED BY <1>1, <1>3, <2>2 DEF EvenPart
<1>4. CASE a % 2 # 0
  <2>1. PICK h \in Nat : a = 2 * h + 1
    BY <1>4
  <2>2. i = (2 * h + 1) * m + r
    BY <1>1, <1>2, <2>1
  <2> QED BY <1>1, <1>4, <2>2 DEF EvenPart
<1> QED BY <1>3, <1>4

\* The partner of an index is inside the state too.
LEMMA PartnerInside ==
    ASSUME NEW m \in Nat \ {0}, NEW l \in Nat \ {0}, NEW k \in Nat, NEW i \in Nat,
           i < (2 * k) * m, EvenPart(i, m), ~EvenPart(i, l)
    PROVE  i + m - l \in Nat /\ i + m - l < (2 * k) * m
<1>1. PICK h \in Nat, r \in 0 .. m - 1 : i = (2 * h) * m + r
  BY Parity
<1>2. PICK g \in Nat, s \in 0 .. l - 1 : i = (2 * g + 1) * l + s
  BY Parity
<1>3. i >= l
  <2>1. (2 * g + 1) * l = (2 * g) * l + l /\ (2 * g) * l \in Nat
    OBVIOUS
  <2> QED BY <1>2, <2>1
<1>4. 2 * h + 1 <= 2 * k /\ 2 * h \in Nat /\ 2 * k \in Nat
  BY <1>1, QuotientIsBelow
<1>5. (2 * h + 1) + 1 <= 2 * k
  BY <1>4
<1>6. (2 * h + 1) * m + r < (2 * k) * m
  BY <1>4, <1>5, ProductIsAbove
<1>7. (2 * h + 1) * m = (2 * h) * m + m /\ (2 * h) * m \in Nat /\ (2 * k) * m \in Nat
  OBVIOUS
<1> QED BY <1>1, <1>3, <1>6, <1>7

\* An index that a work item starts from is no other item's partner.
LEMMA PartnersApart ==
    ASSUME NEW m \in Nat \ {0}, NEW l \in Nat \ {0}, NEW k \in Nat \ {0},
           l = (2 * k) * m \/ m = (2 * k) * l,
           NEW i \in Nat, EvenPart(i, m), ~EvenPart(i, l),
           NEW j \in Nat, EvenPart(j, m), ~EvenPart(j, l)
    PROVE  i # j + m - l
<1> SUFFICES ASSUME i = j + m - l PROVE FALSE
  OBVIOUS
<1>1. CASE l = (2 * k) * m
  <2>1. PICK a \in Nat, r \in 0 .. m - 1 : i = (2 * a) * m + r
    BY Parity
  <2>2. PICK b \in Nat, s \in 0 .. m - 1 : j = (2 * b) * m + s
    BY Parity
  <2>3. (2 * b + 1 - 2 * k) * m = (2 * b) * m + m - (2 * k) * m
    OBVIOUS
  <2>4. (2 * a) * m + r = (2 * b + 1 - 2 * k) * m + s
    BY <1>1, <2>1, <2>2, <2>3
  <2>5. 2 * a \in Int /\ 2 * b + 1 - 2 * k \in Int
    OBVIOUS
  <2>6. 2 * a = 2 * b + 1 - 2 * k
    BY <2>4, <2>5, DivisionIsUnique
  <2> QED BY <2>6
<1>2. CASE m = (2 * k) * l
  <2>1. PICK a \in Nat, r \in 0 .. l - 1 : i = (2 * a + 1) * l + r
    BY Parity
  <2>2. PICK b \in Nat, s \in 0 .. l - 1 : j = (2 * b + 1) * l + s
    BY Parity
  <2>3. (2 * b + 2 * k) * l = (2 * b + 1) * l + (2 * k) * l - l
    OBVIOUS
  <2>4. (2 * a + 1) * l + r = (2 * b + 2 * k) * l + s
    BY <1>2, <2>1, <2>2, <2>3
  <2>5. 2 * a + 1 \in Int /\ 2 * b + 2 * k \in Int
    OBVIOUS
  <2>6. 2 * a + 1 = 2 * b + 2 * k
    BY <2>4, <2>5, DivisionIsUnique
  <2> QED BY <2>6
<1> QED BY <1>1, <1>2

-----------------------------------------------------------------------------
(* A kernel *)

\* The powers of two, of which the provers know nothing.
Powers ==
    \A p \in Nat :
        /\ 2^p \in Nat \ {0}
        /\ \A q \in Nat : p < q => \E k \in Nat \ {0} : 2^q = (2 * k) * 2^p

\* What ** and << compute, one step at a time.
Doubling == 2^0 = 1 /\ \A p \in Nat : 2^(p + 1) = 2 * 2^p

\* What the proofs use of it most: powers divide larger powers.
LEMMA PowersDivide == ASSUME Doubling PROVE Powers
<1>1. \A p \in Nat : 2^p \in Nat \ {0}
  <2> SUFFICES ASSUME NEW p \in Nat PROVE 2^p \in Nat \ {0}
    OBVIOUS
  <2> DEFINE T == {k \in 0 .. p : 2^k \in Nat \ {0}}
  <2>1. 0 \in T
    BY DEF Doubling
  <2>2. ASSUME NEW k \in 1 .. p, k - 1 \in T PROVE k \in T
    <3>1. k - 1 \in Nat /\ (k - 1) + 1 = k
      OBVIOUS
    <3>2. 2^k = 2 * 2^(k - 1)
      BY <3>1 DEF Doubling
    <3> QED BY <2>2, <3>2
  <2> HIDE DEF T
  <2>3. p \in T
    BY <2>1, <2>2, Climb
  <2> QED BY <2>3 DEF T
<1>2. ASSUME NEW p \in Nat, NEW q \in Nat, p < q
      PROVE  \E k \in Nat \ {0} : 2^q = (2 * k) * 2^p
  <2> DEFINE N == q - p - 1
             x == 2^p
             T == {d \in 0 .. N : \E k \in Nat \ {0} : 2^(p + 1 + d) = (2 * k) * x}
  <2>0. N \in Nat /\ x \in Nat \ {0}
    BY <1>1, <1>2
  <2>1. 0 \in T
    <3>1. p + 1 + 0 = p + 1 /\ 2^(p + 1) = 2 * x
      BY DEF Doubling
    <3> HIDE DEF x
    <3>2. 2 * x = (2 * 1) * x
      BY <2>0
    <3> QED BY <2>0, <3>1, <3>2
  <2>2. ASSUME NEW d \in 1 .. N, d - 1 \in T PROVE d \in T
    <3>1. PICK k \in Nat \ {0} : 2^(p + 1 + (d - 1)) = (2 * k) * x
      BY <2>2
    <3>2. p + 1 + (d - 1) \in Nat /\ (p + 1 + (d - 1)) + 1 = p + 1 + d
      BY <2>0
    <3>3. 2^(p + 1 + d) = 2 * 2^(p + 1 + (d - 1))
      BY <3>2 DEF Doubling
    <3> HIDE DEF x
    <3>4. 2 * ((2 * k) * x) = (2 * (2 * k)) * x /\ 2 * k \in Nat \ {0}
      BY <2>0
    <3>5. 2^(p + 1 + d) = (2 * (2 * k)) * x
      BY <3>1, <3>3, <3>4
    <3> DEFINE l == 2 * k
    <3>6. l \in Nat \ {0} /\ 2^(p + 1 + d) = (2 * l) * x
      BY <3>4, <3>5
    <3> HIDE DEF l
    <3>7. \E h \in Nat \ {0} : 2^(p + 1 + d) = (2 * h) * x
      BY <3>6
    <3> QED BY <3>7
  <2> HIDE DEF T, N
  <2>3. N \in T
    BY <2>0, <2>1, <2>2, Climb
  <2>4. p + 1 + N = q
    BY DEF N
  <2> QED BY <2>3, <2>4 DEF T
<1> QED BY <1>1, <1>2 DEF Powers

Within(c, N) == DOMAIN c \subseteq 1 .. 2 /\ \A i \in DOMAIN c : c[i] \in 0 .. N - 1

Apart(c, d) == \A i \in DOMAIN c, k \in DOMAIN d : c[i] # d[k]

LEMMA MatrixCells ==
    ASSUME Powers, NEW n \in Nat, NEW q \in 0 .. n - 1, Dim = 2^n
    PROVE  /\ \A c \in Pairs(q) : Within(c, 2^n)
           /\ \A c, d \in Pairs(q) : c = d \/ Apart(c, d)
<1> DEFINE m == 2^q
<1>1. q \in Nat /\ q < n
  OBVIOUS
<1>2. m \in Nat \ {0} /\ 2^n \in Nat
  BY <1>1 DEF Powers
<1>3. PICK k \in Nat \ {0} : 2^n = (2 * k) * m
  BY <1>1 DEF Powers
<1> HIDE DEF m
<1>4. Dim \div 2 = k * m /\ k * m \in Nat
  <2>1. (2 * k) * m = 2 * (k * m) /\ k * m \in Nat
    BY <1>2
  <2> QED BY <1>3, <2>1
<1>5. Pairs(q) = {<<I0(i, m), I0(i, m) + m>> : i \in 0 .. k * m - 1}
  BY <1>4 DEF Pairs, m
<1>6. ASSUME NEW c \in Pairs(q) PROVE Within(c, 2^n)
  <2>1. PICK i \in 0 .. k * m - 1 : c = <<I0(i, m), I0(i, m) + m>>
    BY <1>5
  <2>2. i \in Nat /\ i < k * m
    BY <1>4
  <2>3. I0(i, m) \in Nat /\ I0(i, m) + m < (2 * k) * m
    BY <1>2, <2>2, PairInside
  <2> QED BY <1>2, <1>3, <2>1, <2>3 DEF Within
<1>7. ASSUME NEW c \in Pairs(q), NEW d \in Pairs(q), c # d PROVE Apart(c, d)
  <2>1. PICK i \in 0 .. k * m - 1 : c = <<I0(i, m), I0(i, m) + m>>
    BY <1>5
  <2>2. PICK j \in 0 .. k * m - 1 : d = <<I0(j, m), I0(j, m) + m>>
    BY <1>5
  <2>3. i \in Nat /\ j \in Nat /\ i < k * m /\ j < k * m /\ i # j
    BY <1>4, <1>7, <2>1, <2>2
  <2>4. /\ I0(i, m) # I0(j, m) /\ I0(i, m) # I0(j, m) + m /\ I0(j, m) # I0(i, m) + m
    BY <1>2, <2>3, PairsApart
  <2>5. I0(i, m) \in Nat /\ I0(j, m) \in Nat
    BY <1>2, <2>3, PairInside
  <2> QED BY <1>2, <2>1, <2>2, <2>4, <2>5 DEF Apart
<1> QED BY <1>6, <1>7

LEMMA SwapCells ==
    ASSUME Powers, NEW n \in Nat, NEW a \in 0 .. n - 1, NEW b \in 0 .. n - 1, a # b,
           Dim = 2^n
    PROVE  /\ \A c \in SwapPairs(a, b) : Within(c, 2^n)
           /\ \A c, d \in SwapPairs(a, b) : c = d \/ Apart(c, d)
<1> DEFINE m == 2^a
           l == 2^b
           Starts(i) == i < 2^n /\ EvenPart(i, m) /\ ~EvenPart(i, l)
<1>1. a \in Nat /\ b \in Nat /\ a < n
  OBVIOUS
<1>2. m \in Nat \ {0} /\ l \in Nat \ {0} /\ 2^n \in Nat
  BY <1>1 DEF Powers
<1>3. PICK k \in Nat \ {0} : 2^n = (2 * k) * m
  BY <1>1 DEF Powers
<1>4. PICK e \in Nat \ {0} : l = (2 * e) * m \/ m = (2 * e) * l
  <2>1. a < b \/ b < a
    OBVIOUS
  <2> QED BY <1>1, <2>1 DEF Powers
<1>5. \A c \in SwapPairs(a, b) :
        \E i \in Nat : c = <<i, i + m - l>> /\ Starts(i)
  <2> SUFFICES ASSUME NEW c \in SwapPairs(a, b)
               PROVE  \E i \in Nat : c = <<i, i + m - l>> /\ Starts(i)
    OBVIOUS
  <2>1. PICK i \in 0 .. Dim - 1 :
          BitOf(i, a) = 0 /\ BitOf(i, b) = 1 /\ c = <<i, i + 2^a - 2^b>>
    BY DEF SwapPairs
  <2>2. i \in Nat /\ i < 2^n
    BY <1>2
  <2>3. EvenPart(i, m) /\ ~EvenPart(i, l)
    BY <2>1 DEF BitOf, EvenPart
  <2> QED BY <2>1, <2>2, <2>3
<1>6. ASSUME NEW i \in Nat, Starts(i) PROVE i + m - l \in 0 .. 2^n - 1
  <2> HIDE DEF m, l
  <2>1. i < (2 * k) * m /\ EvenPart(i, m) /\ ~EvenPart(i, l) /\ k \in Nat
    BY <1>3, <1>6
  <2>2. i + m - l \in Nat /\ i + m - l < (2 * k) * m
    BY <1>2, <2>1, PartnerInside
  <2> QED BY <1>2, <1>3, <2>2
<1>7. ASSUME NEW i \in Nat, Starts(i), NEW j \in Nat, Starts(j)
      PROVE  i # j + m - l
  <2> HIDE DEF m, l
  <2> QED BY <1>2, <1>4, <1>7, PartnersApart
<1>8. ASSUME NEW c \in SwapPairs(a, b) PROVE Within(c, 2^n)
  <2>1. PICK i \in Nat : c = <<i, i + m - l>> /\ Starts(i)
    BY <1>5
  <2>2. i + m - l \in 0 .. 2^n - 1
    BY <1>6, <2>1
  <2> HIDE DEF m, l
  <2> QED BY <1>2, <2>1, <2>2 DEF Within
<1>9. ASSUME NEW c \in SwapPairs(a, b), NEW d \in SwapPairs(a, b), c # d
      PROVE  Apart(c, d)
  <2>1. PICK i \in Nat : c = <<i, i + m - l>> /\ Starts(i)
    BY <1>5
  <2>2. PICK j \in Nat : d = <<j, j + m - l>> /\ Starts(j)
    BY <1>5
  <2>3. i # j + m - l /\ j # i + m - l
    BY <1>7, <2>1, <2>2
  <2> HIDE DEF m, l
  <2>4. i # j /\ i + m - l # j + m - l
    BY <1>2, <1>9, <2>1, <2>2
  <2> QED BY <2>1, <2>2, <2>3, <2>4 DEF Apart
<1> QED BY <1>8, <1>9

\* The work items of a gate stay inside the state, and apart from each other.
LEMMA GateCells ==
    ASSUME Powers, NEW n \in Nat, NEW g, WellFormed(g, n), Dim = 2^n
    PROVE  /\ \A c \in Cells(g) : Within(c, 2^n)
           /\ \A c, d \in Cells(g) : c = d \/ Apart(c, d)
<1>1. CASE g.type \in OneQubit /\ g.qubits \in [1 .. 1 -> 0 .. n - 1]
  <2>1. Cells(g) = Pairs(g.qubits[1])
    BY <1>1 DEF Cells, OneQubit
  <2>2. g.qubits[1] \in 0 .. n - 1
    BY <1>1
  <2> QED BY <2>1, <2>2, MatrixCells
<1>2. CASE /\ g.type \in TwoQubit /\ g.qubits \in [1 .. 2 -> 0 .. n - 1]
           /\ g.qubits[1] # g.qubits[2]
  <2>1. g.qubits[1] \in 0 .. n - 1 /\ g.qubits[2] \in 0 .. n - 1
    BY <1>2
  <2>2. CASE g.type = "SWAP"
    <3>1. Cells(g) = SwapPairs(g.qubits[1], g.qubits[2])
      BY <2>2 DEF Cells, OneQubit
    <3> QED BY <1>2, <2>1, <3>1, SwapCells
  <2>3. CASE g.type # "SWAP"
    <3>1. Cells(g) = ControlledPairs(g.qubits[1], g.qubits[2])
      BY <1>2, <2>3 DEF Cells, OneQubit, TwoQubit
    <3>2. Cells(g) \subseteq Pairs(g.qubits[2])
      BY <3>1 DEF ControlledPairs
    <3> QED BY <2>1, <3>2, MatrixCells
  <2> QED BY <2>2, <2>3
<1> QED BY <1>1, <1>2 DEF WellFormed

-----------------------------------------------------------------------------
(* The work items in memory *)

\* Items are only there inside a call of run(), ...
Busy ==
    /\ host = "idle" => items = {}
    /\ host # "idle" => pc = "gates"

\* ... whose width is the circuit's, and whose memory is as long as that says.
Shape ==
    /\ pc \in {"initialize", "gates"} => rtWidth = circuit.n /\ rtWidth \in Nat
    /\ pc = "gates" =>
          DOMAIN mem = 0 .. 2^rtWidth - 1 /\ (kind = "GPU" => dim = 2^rtWidth)

IsItem(w) == w = [cells |-> w.cells, do |-> w.do, read |-> w.read]

Independent ==
    /\ \A w \in items : IsItem(w) /\ \A k \in DOMAIN w.cells : w.cells[k] \in DOMAIN mem
    /\ \A v, w \in items : v = w \/ Apart(v.cells, w.cells)

KInv == Busy /\ Shape /\ Independent

LEMMA InitKInv == Init => KInv
BY DEF Init, BackendInit, KInv, Busy, Shape, Independent

LEMMA ItemFields ==
    ASSUME NEW cells, NEW do
    PROVE  /\ IsItem(Item(cells, do)) /\ Item(cells, do).cells = cells
BY DEF IsItem, Item

\* A step of the device leaves the items and the memory where they are.
LEMMA DeviceKeeps == ASSUME KInv, DeviceWorks PROVE KInv'
<1>1. UNCHANGED <<kind, dim, host, circuit, pc, rtWidth>>
  BY DEF DeviceWorks, Read, Write, building
<1>2. PICK w \in items : Read(w) \/ Write(w)
  BY DEF DeviceWorks
<1>3. host # "idle"
  BY <1>2 DEF KInv, Busy
<1>4. CASE Read(w)
  <2>1. PICK x : items' = (items \ {w}) \cup {[w EXCEPT !.read = x]}
    BY <1>4 DEF Read
  <2>2. mem' = mem
    BY <1>4 DEF Read
  <2>3. IsItem([w EXCEPT !.read = x]) /\ [w EXCEPT !.read = x].cells = w.cells
    BY DEF KInv, Independent, IsItem
  <2> DEFINE new == [w EXCEPT !.read = x]
  <2> HIDE DEF new
  <2>4. items' = (items \ {w}) \cup {new} /\ IsItem(new) /\ new.cells = w.cells
    BY <2>1, <2>3 DEF new
  <2>5. \A v \in items' : IsItem(v) /\ \A k \in DOMAIN v.cells : v.cells[k] \in DOMAIN mem'
    BY <2>2, <2>4 DEF KInv, Independent
  <2>6. ASSUME NEW u \in items', NEW v \in items', u # v PROVE Apart(u.cells, v.cells)
    <3>1. CASE u \in items \ {w} /\ v \in items \ {w}
      BY <2>6, <3>1 DEF KInv, Independent
    <3>2. CASE u = new /\ v \in items \ {w}
      BY <2>4, <3>2 DEF KInv, Independent
    <3>3. CASE u \in items \ {w} /\ v = new
      BY <2>4, <3>3 DEF KInv, Independent
    <3> QED BY <2>4, <2>6, <3>1, <3>2, <3>3
  <2>7. Independent'
    BY <2>5, <2>6 DEF Independent
  <2> QED BY <1>1, <1>3, <2>2, <2>7 DEF KInv, Busy, Shape
<1>5. CASE Write(w)
  <2>1. DOMAIN mem' = DOMAIN mem /\ items' = items \ {w}
    BY <1>5 DEF Write
  <2>2. Independent'
    BY <2>1 DEF KInv, Independent
  <2> QED BY <1>1, <1>3, <2>1, <2>2 DEF KInv, Busy, Shape
<1> QED BY <1>2, <1>4, <1>5

\* initialize() gives each amplitude an item of its own, or has none.
LEMMA InitializesKeeps == ASSUME Powers, KInv, Initializes PROVE KInv'
<1>1. /\ pc = "initialize" /\ pc' = "gates" /\ host = "idle" /\ items = {}
      /\ UNCHANGED <<circuit, rtWidth>> /\ rtWidth = circuit.n /\ rtWidth \in Nat
  BY DEF Initializes, building, KInv, Busy, Shape
<1>2. CASE InitializeCPU(rtWidth)
  <2>1. /\ kind' = "CPU" /\ DOMAIN mem' = 0 .. 2^rtWidth - 1
        /\ items' = {} /\ host' = "idle"
    BY <1>1, <1>2 DEF InitializeCPU
  <2> QED BY <1>1, <2>1 DEF KInv, Busy, Shape, Independent
<1>3. CASE InitializeGPU(rtWidth)
  <2>1. /\ dim' = 2^rtWidth /\ DOMAIN mem' = 0 .. 2^rtWidth - 1
        /\ items' = {Item(<<i>>, <<Zero>>) : i \in 0 .. 2^rtWidth - 1}
        /\ host' = "zeroing"
    BY <1>3 DEF InitializeGPU
  <2>2. \A v \in items' : \E i \in DOMAIN mem' : v = Item(<<i>>, <<Zero>>)
    BY <2>1
  <2>3. \A i : DOMAIN <<i>> = {1} /\ <<i>>[1] = i
    OBVIOUS
  <2>a. \A v \in items' : \E i \in DOMAIN mem' :
          v = Item(<<i>>, <<Zero>>) /\ IsItem(v) /\ v.cells = <<i>>
    BY <2>2, ItemFields
  <2>b. ASSUME NEW u \in items', NEW v \in items', u # v PROVE Apart(u.cells, v.cells)
    <3>1. PICK i \in DOMAIN mem' : u = Item(<<i>>, <<Zero>>) /\ u.cells = <<i>>
      BY <2>a
    <3>2. PICK j \in DOMAIN mem' : v = Item(<<j>>, <<Zero>>) /\ v.cells = <<j>>
      BY <2>a
    <3>3. i # j
      BY <2>b, <3>1, <3>2
    <3> QED BY <2>3, <3>1, <3>2, <3>3 DEF Apart
  <2>c. ASSUME NEW v \in items'
        PROVE  IsItem(v) /\ \A k \in DOMAIN v.cells : v.cells[k] \in DOMAIN mem'
    BY <2>a, <2>3
  <2>4. Independent'
    BY <2>b, <2>c DEF Independent
  <2> QED BY <1>1, <2>1, <2>4 DEF KInv, Busy, Shape
<1> QED BY <1>2, <1>3 DEF Initializes

LEMMA HostKeeps == ASSUME Powers, KInv, HostWaits PROVE KInv'
<1>1. /\ UNCHANGED <<kind, mem, dim, circuit, pc, rtWidth>>
      /\ host # "idle" /\ pc = "gates"
  BY DEF HostWaits, Seed, Wait, building, KInv, Busy
<1>2. CASE Seed
  <2>1. items' = {Item(<<0>>, <<One>>)} /\ host' = "seeding"
    BY <1>2 DEF Seed
  <2>2. 0 \in DOMAIN mem
    BY <1>1 DEF KInv, Shape, Powers
  <2>3. DOMAIN <<0>> = {1} /\ <<0>>[1] = 0
    OBVIOUS
  <2>4. Independent'
    BY <1>1, <2>1, <2>2, <2>3, ItemFields DEF Independent
  <2> QED BY <1>1, <2>1, <2>4 DEF KInv, Busy, Shape
<1>3. CASE Wait
  <2>1. items' = {} /\ host' = "idle"
    BY <1>3 DEF Wait
  <2> QED BY <1>1, <2>1 DEF KInv, Busy, Shape, Independent
<1> QED BY <1>2, <1>3 DEF HostWaits

\* A kernel is submitted to an idle device, for a gate that is well-formed.
LEMMA SubmitsKeeps == ASSUME Powers, TypeOK, KInv, SubmitsGate PROVE KInv'
<1> DEFINE g == circuit.ops[next + 1]
           N == 2^rtWidth
<1>1. /\ pc = "gates" /\ host = "idle" /\ items = {} /\ host' = "kernel"
      /\ items' = {Item(cells, Matrix(g)) : cells \in Cells(g)}
      /\ UNCHANGED <<kind, mem, dim, circuit, pc, rtWidth>>
  BY DEF SubmitsGate, SubmitKernel, building, KInv, Busy
<1>2. WellFormed(g, rtWidth)
  <2>1. next + 1 \in DOMAIN circuit.ops
    BY DEF SubmitsGate, TypeOK
  <2> QED BY <1>1, <2>1 DEF TypeOK, KInv, Shape
<1>3. rtWidth \in Nat /\ DOMAIN mem = 0 .. N - 1 /\ (kind = "GPU" => dim = N)
  BY <1>1 DEF KInv, Shape
<1>4. Dim = N
  <2>1. N \in Nat \ {0}
    BY <1>3 DEF Powers
  <2>2. Cardinality(DOMAIN mem) = N
    BY <1>3, <2>1, FS_Interval
  <2> QED BY <1>3, <2>2 DEF Dim
<1>5. /\ \A c \in Cells(g) : Within(c, N)
      /\ \A c, d \in Cells(g) : c = d \/ Apart(c, d)
  BY <1>2, <1>3, <1>4, GateCells
<1> HIDE DEF g, N
<1>6. \A v \in items' :
        \E c \in Cells(g) : v = Item(c, Matrix(g)) /\ v.cells = c /\ IsItem(v)
  BY <1>1, ItemFields
<1>7. Independent'
  BY <1>1, <1>3, <1>5, <1>6 DEF Independent, Within
<1> QED BY <1>1, <1>3, <1>7 DEF KInv, Busy, Shape, N

\* A caller that builds, reads, or whose initialize() failed.
LEMMA OthersKeep ==
    ASSUME TypeOK, KInv,
           \/ AddsGate \/ Measures \/ AllocatesParameter \/ CallsLibrary \/ Binds
           \/ NextCircuit \/ Run \/ InitializeFails \/ RunReturns
           \/ ReadsState \/ SamplesOnce \/ TakesExpectation \/ TakesAnswer
           \/ UNCHANGED vars
    PROVE  KInv'
<1> USE RuntimeAssumption
<1>1. CASE AddsGate \/ Measures \/ AllocatesParameter \/ CallsLibrary \/ Binds
  <2>1. \E c, throws, made : Built(c, throws, made)
    BY <1>1 DEF AddsGate, Measures, AllocatesParameter, CallsLibrary, Binds
  <2>2. pc = "build" /\ UNCHANGED <<kind, mem, dim, items, host, pc, rtWidth>>
    BY <2>1 DEF Built, backend
  <2> QED BY <2>2 DEF KInv, Busy, Shape, Independent
<1>2. CASE NextCircuit \/ Run
  <2>1. /\ pc # "gates" /\ pc' # "gates" /\ UNCHANGED <<kind, mem, dim, items, host>>
        /\ pc' \in {"build", "threw"}
             \/ (pc' = "initialize" /\ rtWidth' = circuit.n /\ circuit' = circuit)
    BY <1>2 DEF NextCircuit, Run, backend
  <2>2. circuit.n \in Nat
    BY DEF TypeOK
  <2> QED BY <2>1, <2>2 DEF KInv, Busy, Shape, Independent
<1>3. CASE InitializeFails
  <2>1. /\ pc = "initialize" /\ pc' = "threw" /\ host = "idle"
        /\ items' = items /\ host' = host
    BY <1>3 DEF InitializeFails, InitializeCPUFails, InitializeGPUFails, backend
  <2>2. items = {}
    BY <2>1 DEF KInv, Busy
  <2> QED BY <2>1, <2>2 DEF KInv, Busy, Shape, Independent
<1>4. CASE RunReturns
  <2>1. pc' = "ran" /\ host = "idle" /\ UNCHANGED <<kind, mem, dim, items, host>>
    BY <1>4 DEF RunReturns, backend
  <2> QED BY <2>1 DEF KInv, Busy, Shape, Independent
<1>5. CASE ReadsState \/ SamplesOnce \/ TakesExpectation \/ TakesAnswer
  <2>1. pc \in {"ran", "threw"} /\ \E what, value : Given(what, value)
    BY <1>5 DEF ReadsState, SamplesOnce, TakesExpectation, TakesAnswer
  <2>2. pc' = "read" /\ UNCHANGED <<kind, mem, dim, items, host>>
    BY <2>1 DEF Given, backend
  <2> QED BY <2>1, <2>2 DEF KInv, Busy, Shape, Independent
<1>6. CASE UNCHANGED vars
  BY <1>6 DEF vars, KInv, Busy, Shape, Independent
<1> QED BY <1>1, <1>2, <1>3, <1>4, <1>5, <1>6

LEMMA Step == ASSUME Powers, TypeOK, KInv, [Next]_vars PROVE KInv'
BY DeviceKeeps, InitializesKeeps, HostKeeps, SubmitsKeeps, OthersKeep DEF Next

-----------------------------------------------------------------------------
(* The inductive invariant *)

\* The caller's circuit holds well-formed gates, of parameters it has.
CircuitOK == circuit.n \in Widths /\ circuit \in CircuitsOn(circuit.n)

ControlOK ==
    /\ calls \in 0 .. MaxCalls /\ runs \in 0 .. MaxRuns
    /\ pc \in {"build", "initialize", "gates", "ran", "threw", "read"}
    /\ host \in {"idle", "zeroing", "seeding", "kernel"}
    /\ {rtWidth, width} \subseteq {0} \cup Widths
    /\ next \in 0 .. Len(circuit.ops) /\ (pc # "gates" => next = 0)

\* An item sets one cell, or applies a matrix to two, which it has read or not.
Sound(w) ==
    \/ /\ Len(w.do) = 1 /\ w.do[1] \in Amplitude
       /\ DOMAIN w.cells = 1 .. 1 /\ w.read = <<>>
    \/ /\ IsMatrix(w.do) /\ DOMAIN w.cells = 1 .. 2
       /\ w.read = <<>> \/ (w.read[1] \in Amplitude /\ w.read[2] \in Amplitude)

MemoryOK ==
    /\ kind = "GPU" /\ mem # <<>> => Cardinality(DOMAIN mem) = dim
    /\ \A i \in DOMAIN mem : mem[i] \in Amplitude
    /\ \A w \in items : Sound(w)

IInv == CircuitOK /\ ControlOK /\ MemoryOK /\ KInv

LEMMA OneCell ==
    ASSUME NEW i, NEW a \in Amplitude
    PROVE  Sound(Item(<<i>>, <<a>>))
BY DEF Sound, Item

LEMMA TwoCells ==
    ASSUME NEW i, NEW j, NEW m, IsMatrix(m)
    PROVE  Sound(Item(<<i, j>>, m))
BY DEF Sound, Item

\* initialize() makes a state of 2^n amplitudes.
LEMMA Amplitudes ==
    ASSUME Powers, NEW n \in Nat
    PROVE  Cardinality(0 .. 2^n - 1) = 2^n
<1>1. 2^n \in Nat \ {0}
  BY DEF Powers
<1> QED BY <1>1, FS_Interval

LEMMA InitIInv == ASSUME Init PROVE IInv
<1>1. PICK n \in Widths : circuit = NewCircuit(n)
  BY DEF Init
<1>2. n \in Nat
  BY RuntimeAssumption
<1>3. circuit \in CircuitsOn(n) /\ circuit.n = n /\ Len(circuit.ops) \in Nat
  BY <1>1, <1>2, EmptyCircuit, CircuitFacts
<1>4. CircuitOK
  BY <1>3 DEF CircuitOK
<1>5. ControlOK
  BY <1>3, RuntimeAssumption DEF Init, BackendInit, ControlOK
<1>6. MemoryOK
  BY DEF Init, BackendInit, MemoryOK
<1> QED BY <1>4, <1>5, <1>6, InitKInv DEF IInv

LEMMA IInvTypes == ASSUME IInv PROVE TypeOK
<1>1. circuit.n \in Nat
  BY RuntimeAssumption DEF IInv, CircuitOK
<1>2. /\ circuit.params \in Nat /\ Len(circuit.ops) \in Nat
      /\ \A k \in DOMAIN circuit.ops : circuit.ops[k] \in GatesOn(circuit.n, circuit.params)
  BY <1>1, CircuitFacts DEF IInv, CircuitOK
<1>3. \A k \in DOMAIN circuit.ops : WellFormed(circuit.ops[k], circuit.n)
  BY <1>2 DEF GatesOn
<1>4. \A w \in items : Len(w.do) = 4 \/ (Len(w.do) = 1 /\ w.read = <<>>)
  BY DEF IInv, MemoryOK, Sound, IsMatrix
<1> QED BY <1>2, <1>3, <1>4 DEF IInv, CircuitOK, ControlOK, MemoryOK, Amplitude, TypeOK

-----------------------------------------------------------------------------
(* A call of the caller's *)

\* Whatever a call of the builder leaves, or throws at, holds well-formed gates.
LEMMA BuiltKeeps ==
    ASSUME IInv, NEW n \in Widths, NEW c \in CircuitsOn(n), NEW throws, NEW made,
           Built(c, throws, made)
    PROVE  CircuitOK' /\ ControlOK' /\ MemoryOK'
<1>1. n \in Nat
  BY RuntimeAssumption
<1>2. c.n = n /\ Len(c.ops) \in Nat
  BY <1>1, CircuitFacts
<1>3. /\ pc = "build" /\ calls < MaxCalls /\ calls' = calls + 1 /\ circuit' = c
      /\ UNCHANGED <<kind, mem, width, dim, items, host, runs, pc, rtWidth, next>>
  BY DEF Built, backend
<1>4. CircuitOK'
  BY <1>2, <1>3 DEF CircuitOK
<1>5. ControlOK'
  BY <1>2, <1>3, RuntimeAssumption DEF IInv, ControlOK
<1>6. MemoryOK'
  BY <1>3 DEF IInv, MemoryOK
<1> QED BY <1>4, <1>5, <1>6

LEMMA CallsAnsatz ==
    ASSUME IInv, CallsLibrary
    PROVE  \E n \in Widths : \E c \in CircuitsOn(n) : \E throws, made : Built(c, throws, made)
<1> DEFINE n == circuit.n
           Builds(c) == \E throws, made : Built(c, throws, made)
<1>1. n \in Widths /\ n \in Nat /\ circuit \in CircuitsOn(n)
  BY RuntimeAssumption DEF IInv, CircuitOK
<1>2. PICK r \in Recipes :
        \/ /\ r.what = "two_local"
           /\ Builds(TwoLocal(circuit, r.rotations, r.reps, r.entanglement, r.final))
        \/ /\ r.what = "real_amplitudes"
           /\ Builds(RealAmplitudes(circuit, r.reps, r.entanglement))
        \/ /\ r.what = "efficient_su2"
           /\ Builds(EfficientSU2(circuit, r.reps, r.entanglement))
        \/ r.what = "basis_state" /\ Builds(BasisState(circuit, r.bits))
        \/ /\ r.what = "qaoa_layers" /\ QaoaAccepts(circuit, r.cost.n, Masks(r.cost))
           /\ Builds(QaoaLayers(circuit, Masks(r.cost), r.p))
        \/ /\ r.what = "qaoa" /\ IsDiagonal(Masks(r.cost))
           /\ Builds(Qaoa(r.cost.n, Masks(r.cost), r.p))
        \/ r.what \in {"qaoa_layers", "qaoa"} /\ Builds(circuit)
  BY DEF CallsLibrary
<1>3. IsRecipe(r)
  BY RuntimeAssumption
<1> HIDE DEF Builds, n
<1>4. CASE r.what = "two_local"
  <2>1. /\ r.rotations \in Seq(Axes) /\ r.reps \in Nat /\ r.entanglement \in Entanglements
    BY <1>3, <1>4 DEF IsRecipe, Axes
  <2>2. TwoLocal(circuit, r.rotations, r.reps, r.entanglement, r.final) \in CircuitsOn(n)
    BY <1>1, <2>1, TwoLocalType
  <2> QED BY <1>1, <1>2, <1>4, <2>2 DEF Builds
<1>5. CASE r.what \in {"real_amplitudes", "efficient_su2"}
  <2>1. r.reps \in Nat /\ r.entanglement \in Entanglements
    BY <1>3, <1>5 DEF IsRecipe
  <2>2. <<"RY">> \in Seq(Axes) /\ <<"RY", "RZ">> \in Seq(Axes)
    BY DEF Axes
  <2>3. /\ RealAmplitudes(circuit, r.reps, r.entanglement) \in CircuitsOn(n)
        /\ EfficientSU2(circuit, r.reps, r.entanglement) \in CircuitsOn(n)
    BY <1>1, <2>1, <2>2, TwoLocalType DEF RealAmplitudes, EfficientSU2
  <2> QED BY <1>1, <1>2, <1>5, <2>3 DEF Builds
<1>6. CASE r.what = "basis_state"
  <2>1. BasisState(circuit, r.bits) \in CircuitsOn(n)
    BY <1>1, BasisStateType
  <2> QED BY <1>1, <1>2, <1>6, <2>1 DEF Builds
<1>7. CASE r.what \in {"qaoa_layers", "qaoa"}
  <2>1. r.p \in Nat /\ IsCost(r.cost)
    BY <1>3, <1>7 DEF IsRecipe
  <2>2. ASSUME IsDiagonal(Masks(r.cost))
        PROVE  /\ r.cost.n \in Widths /\ r.cost.n \in Nat
               /\ Masks(r.cost) \in Seq(CostTerms(r.cost.n))
    BY <2>1, <2>2, CostMasksType
  <2>3. ASSUME IsDiagonal(Masks(r.cost))
        PROVE  r.cost.n \in Widths /\ Qaoa(r.cost.n, Masks(r.cost), r.p) \in CircuitsOn(r.cost.n)
    BY <2>1, <2>2, <2>3, QaoaType
  <2>4. ASSUME QaoaAccepts(circuit, r.cost.n, Masks(r.cost))
        PROVE  QaoaLayers(circuit, Masks(r.cost), r.p) \in CircuitsOn(n)
    <3>1. r.cost.n = n /\ IsDiagonal(Masks(r.cost))
      BY <2>4 DEF QaoaAccepts, n
    <3> QED BY <1>1, <2>1, <2>2, <3>1, QaoaLayersType
  <2> QED BY <1>1, <1>2, <1>7, <2>3, <2>4 DEF Builds
<1> QED BY <1>2, <1>4, <1>5, <1>6, <1>7

LEMMA CallsBuilder ==
    ASSUME IInv, AddsGate \/ Measures \/ AllocatesParameter \/ Binds
    PROVE  \E n \in Widths : \E c \in CircuitsOn(n) : \E throws, made : Built(c, throws, made)
<1> DEFINE n == circuit.n
           Builds(c) == \E throws, made : Built(c, throws, made)
<1>1. n \in Widths /\ n \in Nat /\ circuit \in CircuitsOn(n)
  BY RuntimeAssumption DEF IInv, CircuitOK
<1> HIDE DEF n
<1>2. CASE AddsGate
  <2>1. PICK g \in GateSet : Builds(circuit) \/ (Accepts(circuit, g) /\ Builds(AddGate(circuit, g)))
    BY <1>2 DEF AddsGate
  <2>2. g \in GateOp /\ Halved(g)
    BY RuntimeAssumption
  <2>3. Accepts(circuit, g) => AddGate(circuit, g) \in CircuitsOn(n)
    BY <1>1, <2>2, AddGateType
  <2> HIDE DEF Builds
  <2> QED BY <1>1, <2>1, <2>3 DEF Builds
<1>3. CASE Measures
  <2>1. PICK q \in Readable : Builds(circuit) \/ Builds(Measure(circuit, q))
    BY <1>3 DEF Measures
  <2>2. q \in Nat
    BY RuntimeAssumption
  <2>3. Measure(circuit, q) \in CircuitsOn(n)
    BY <1>1, <2>2, MeasureType
  <2> HIDE DEF Builds
  <2> QED BY <1>1, <2>1, <2>3 DEF Builds
<1>4. CASE AllocatesParameter
  <2>1. Builds(NewParams(circuit, 1))
    BY <1>4 DEF AllocatesParameter
  <2>2. NewParams(circuit, 1) \in CircuitsOn(n)
    BY <1>1, AllocatesParams
  <2> HIDE DEF Builds
  <2> QED BY <1>1, <2>1, <2>2 DEF Builds
<1>5. CASE Binds
  <2>1. PICK t \in Thetas, missing \in {0, 1} :
          /\ circuit.params \in 1 .. Len(t)
          /\ \/ Builds(circuit)
             \/ /\ BindAccepts(circuit, SubSeq(t, 1, circuit.params - missing))
                /\ Builds(Bind(circuit, SubSeq(t, 1, circuit.params - missing)))
    BY <1>5 DEF Binds
  <2> DEFINE theta == SubSeq(t, 1, circuit.params - missing)
  <2>2. theta \in Seq(Int)
    <3>1. t \in Seq(Int)
      BY RuntimeAssumption
    <3>2. circuit.params - missing \in 0 .. Len(t)
      BY <2>1, <3>1
    <3> QED BY <3>1, <3>2
  <2> HIDE DEF theta
  <2>3. BindAccepts(circuit, theta) => Bind(circuit, theta) \in CircuitsOn(n)
    BY <1>1, <2>2, BindType DEF BindAccepts
  <2> HIDE DEF Builds
  <2> QED BY <1>1, <2>1, <2>3 DEF Builds, theta
<1> QED BY <1>2, <1>3, <1>4, <1>5

-----------------------------------------------------------------------------
(* A run *)

\* Another circuit, a run begun or refused, or at its end: memory is left alone.
LEMMA ControlKeeps ==
    ASSUME IInv, NextCircuit \/ Run \/ RunReturns
    PROVE  CircuitOK' /\ ControlOK' /\ MemoryOK'
<1>1. UNCHANGED <<kind, mem, width, dim, items, host>>
  BY DEF NextCircuit, Run, RunReturns, backend
<1>2. MemoryOK'
  BY <1>1 DEF IInv, MemoryOK
<1>3. CASE NextCircuit
  <2>1. PICK n \in Widths : circuit' = NewCircuit(n)
    BY <1>3 DEF NextCircuit
  <2>2. NewCircuit(n) \in CircuitsOn(n) /\ NewCircuit(n).n = n /\ Len(NewCircuit(n).ops) \in Nat
    BY RuntimeAssumption, EmptyCircuit, CircuitFacts
  <2>3. CircuitOK'
    BY <2>1, <2>2 DEF CircuitOK
  <2>4. /\ pc \in {"ran", "threw", "read"} /\ pc' = "build"
        /\ UNCHANGED <<calls, runs, rtWidth, next>>
    BY <1>3 DEF NextCircuit
  <2>5. ControlOK'
    BY <1>1, <2>1, <2>2, <2>4 DEF IInv, ControlOK
  <2> QED BY <1>2, <2>3, <2>5
<1>4. CASE Run \/ RunReturns
  <2>1. UNCHANGED <<circuit, calls>>
    BY <1>4 DEF Run, RunReturns, building
  <2>2. CircuitOK'
    BY <2>1 DEF IInv, CircuitOK
  <2>3. CASE Run
    <3>1. /\ pc = "build" /\ runs < MaxRuns /\ runs' = runs + 1 /\ next' = next
          /\ pc' \in {"threw", "initialize"} /\ rtWidth' \in {rtWidth, circuit.n}
      BY <2>3 DEF Run
    <3> QED BY <1>1, <1>2, <2>1, <2>2, <3>1, RuntimeAssumption DEF IInv, CircuitOK, ControlOK
  <2>4. CASE RunReturns
    <3>1. pc' = "ran" /\ next' = 0 /\ UNCHANGED <<runs, rtWidth>>
      BY <2>4 DEF RunReturns
    <3>2. Len(circuit.ops) \in Nat
      BY RuntimeAssumption, CircuitFacts DEF IInv, CircuitOK
    <3> QED BY <1>1, <1>2, <2>1, <2>2, <3>1, <3>2 DEF IInv, ControlOK
  <2> QED BY <1>4, <2>3, <2>4
<1> QED BY <1>3, <1>4

\* initialize(), or its exception.
LEMMA InitializesTypes ==
    ASSUME Powers, IInv, Initializes \/ InitializeFails
    PROVE  CircuitOK' /\ ControlOK' /\ MemoryOK'
<1>1. /\ pc = "initialize" /\ host = "idle" /\ items = {} /\ rtWidth \in Nat
      /\ UNCHANGED <<circuit, calls, runs, rtWidth>>
      /\ pc' \in {"gates", "threw"} /\ next = 0
  BY DEF Initializes, InitializeFails, building, IInv, ControlOK, KInv, Busy, Shape
<1>2. next' = 0 /\ width' \in {width, rtWidth} /\ host' \in {"idle", "zeroing"}
  BY <1>1 DEF Initializes, InitializeFails, InitializeCPU, InitializeGPU,
              InitializeCPUFails, InitializeGPUFails, backend
<1>3. CircuitOK'
  BY <1>1 DEF IInv, CircuitOK
<1>4. ControlOK'
  BY <1>1, <1>2 DEF IInv, ControlOK
<1>5. MemoryOK'
  <2>1. Zero \in Amplitude /\ One \in Amplitude /\ Garbage \in Amplitude
    BY ConstantsType
  <2>2. CASE InitializeCPU(rtWidth)
    <3>1. /\ kind' = "CPU" /\ items' = {}
          /\ mem' = [i \in 0 .. 2^rtWidth - 1 |-> IF i = 0 THEN One ELSE Zero]
      BY <1>1, <2>2 DEF InitializeCPU
    <3> QED BY <2>1, <3>1 DEF MemoryOK
  <2>3. CASE InitializeGPU(rtWidth)
    <3>1. /\ mem' = [i \in 0 .. 2^rtWidth - 1 |-> Garbage] /\ dim' = 2^rtWidth
          /\ items' = {Item(<<i>>, <<Zero>>) : i \in 0 .. 2^rtWidth - 1}
      BY <2>3 DEF InitializeGPU
    <3>2. \A w \in items' : Sound(w)
      BY <2>1, <3>1, OneCell
    <3>3. Cardinality(DOMAIN mem') = dim'
      BY <1>1, <3>1, Amplitudes
    <3>4. \A i \in DOMAIN mem' : mem'[i] \in Amplitude
      BY <2>1, <3>1
    <3> QED BY <3>2, <3>3, <3>4 DEF MemoryOK
  <2>4. CASE InitializeFails
    <3>1. /\ items' = {}
          /\ (mem' = mem /\ dim' = dim /\ kind' = kind) \/ mem' = <<>>
      BY <1>1, <2>4 DEF InitializeFails, InitializeCPUFails, InitializeGPUFails, backend
    <3> QED BY <3>1 DEF IInv, MemoryOK
  <2> QED BY <2>2, <2>3, <2>4 DEF Initializes
<1> QED BY <1>3, <1>4, <1>5

\* The items of a gate apply its matrix to two amplitudes each.
LEMMA GateItems ==
    ASSUME NEW n \in Nat, NEW g \in GateOp, WellFormed(g, n), NEW cells \in Cells(g)
    PROVE  Sound(Item(cells, Matrix(g)))
<1>1. \E i, j : cells = <<i, j>>
  <2>1. \A q : \A p \in Pairs(q) : \E i, j : p = <<i, j>>
    BY DEF Pairs
  <2>2. \A c, t : \A p \in ControlledPairs(c, t) : \E i, j : p = <<i, j>>
    BY <2>1 DEF ControlledPairs
  <2>3. \A a, b : \A p \in SwapPairs(a, b) : \E i, j : p = <<i, j>>
    BY DEF SwapPairs
  <2>4. CASE g.type = "SWAP"
    BY <2>3, <2>4 DEF Cells, OneQubit
  <2>5. CASE g.type \in OneQubit
    BY <2>1, <2>5 DEF Cells, OneQubit
  <2>6. CASE g.type \notin OneQubit /\ g.type # "SWAP"
    BY <2>2, <2>6 DEF Cells, OneQubit, TwoQubit, WellFormed
  <2> QED BY <2>4, <2>5, <2>6
<1> QED BY <1>1, MatrixType, TwoCells

LEMMA SubmitsTypes ==
    ASSUME IInv, SubmitsGate
    PROVE  CircuitOK' /\ ControlOK' /\ MemoryOK'
<1> DEFINE g == circuit.ops[next + 1]
<1>1. /\ pc = "gates" /\ next < Len(circuit.ops) /\ next' = next + 1
      /\ items = {} /\ items' = {Item(cells, Matrix(g)) : cells \in Cells(g)}
      /\ host' = "kernel"
      /\ UNCHANGED <<kind, mem, width, dim, circuit, calls, runs, pc, rtWidth>>
  BY DEF SubmitsGate, SubmitKernel, building, IInv, KInv, Busy
<1>2. circuit.n \in Nat
  BY RuntimeAssumption DEF IInv, CircuitOK
<1>3. Len(circuit.ops) \in Nat /\ circuit.ops \in Seq(GatesOn(circuit.n, circuit.params))
  BY <1>2, CircuitFacts DEF IInv, CircuitOK
<1>4. g \in GatesOn(circuit.n, circuit.params)
  <2>1. next + 1 \in 1 .. Len(circuit.ops)
    BY <1>1, <1>3 DEF IInv, ControlOK
  <2> QED BY <1>3, <2>1
<1>5. g \in GateOp /\ WellFormed(g, circuit.n)
  BY <1>4 DEF GatesOn
<1> HIDE DEF g
<1>6. \A w \in items' : Sound(w)
  BY <1>1, <1>2, <1>5, GateItems
<1>7. MemoryOK'
  BY <1>1, <1>6 DEF IInv, MemoryOK
<1>8. CircuitOK'
  BY <1>1 DEF IInv, CircuitOK
<1>9. ControlOK'
  BY <1>1, <1>3 DEF IInv, ControlOK
<1> QED BY <1>7, <1>8, <1>9

LEMMA HostTypes ==
    ASSUME IInv, HostWaits
    PROVE  CircuitOK' /\ ControlOK' /\ MemoryOK'
<1>1. /\ UNCHANGED <<kind, mem, width, dim, circuit, calls, runs, pc, rtWidth, next>>
      /\ host' \in {"idle", "seeding"}
      /\ items' \subseteq {Item(<<0>>, <<One>>)}
  BY DEF HostWaits, Seed, Wait, building
<1>2. Sound(Item(<<0>>, <<One>>))
  BY ConstantsType, OneCell
<1>3. MemoryOK'
  BY <1>1, <1>2 DEF IInv, MemoryOK
<1> QED BY <1>1, <1>3 DEF IInv, CircuitOK, ControlOK

\* What an item with its cells read writes.
LEMMA WrittenType ==
    ASSUME NEW w, Sound(w), Sets(w) \/ w.read # <<>>
    PROVE  \A k \in DOMAIN w.cells : Written(w)[k] \in Amplitude
<1>1. CASE Len(w.do) = 1
  BY <1>1 DEF Sound, IsMatrix, Written, Sets
<1>2. CASE Len(w.do) # 1
  <2>1. /\ IsMatrix(w.do) /\ DOMAIN w.cells = 1 .. 2
        /\ w.read[1] \in Amplitude /\ w.read[2] \in Amplitude
    BY <1>2 DEF Sound, Sets
  <2>2. /\ w.do[1] \in Amplitude /\ w.do[2] \in Amplitude
        /\ w.do[3] \in Amplitude /\ w.do[4] \in Amplitude
    BY <2>1 DEF IsMatrix
  <2> DEFINE first == Plus(Times(w.do[1], w.read[1]), Times(w.do[2], w.read[2]))
             second == Plus(Times(w.do[3], w.read[1]), Times(w.do[4], w.read[2]))
  <2>3. first \in Amplitude /\ second \in Amplitude
    BY <2>1, <2>2, ArithmeticType
  <2>4. Written(w) = <<first, second>>
    BY <1>2 DEF Written, Sets
  <2> HIDE DEF first, second
  <2> QED BY <2>1, <2>3, <2>4
<1> QED BY <1>1, <1>2

\* A step of the device reads amplitudes and leaves amplitudes.
LEMMA DeviceTypes ==
    ASSUME Powers, IInv, DeviceWorks
    PROVE  CircuitOK' /\ ControlOK' /\ MemoryOK'
<1>1. UNCHANGED <<kind, width, dim, host, circuit, calls, runs, pc, rtWidth, next>>
  BY DEF DeviceWorks, Read, Write, building
<1>2. CircuitOK' /\ ControlOK'
  BY <1>1 DEF IInv, CircuitOK, ControlOK
<1>3. PICK w \in items : Read(w) \/ Write(w)
  BY DEF DeviceWorks
<1>4. Sound(w) /\ IsItem(w) /\ \A k \in DOMAIN w.cells : w.cells[k] \in DOMAIN mem
  BY DEF IInv, MemoryOK, KInv, Independent
<1>5. \A i \in DOMAIN mem : mem[i] \in Amplitude
  BY DEF IInv, MemoryOK
<1>6. CASE Read(w)
  <2> DEFINE x == [k \in DOMAIN w.cells |-> mem[w.cells[k]]]
             new == [w EXCEPT !.read = x]
  <2>1. items' = (items \ {w}) \cup {new} /\ mem' = mem /\ ~Sets(w)
    BY <1>6 DEF Read
  <2>2. IsMatrix(w.do) /\ DOMAIN w.cells = 1 .. 2
    BY <1>4, <2>1 DEF Sound, Sets
  <2>3. x[1] \in Amplitude /\ x[2] \in Amplitude
    BY <1>4, <1>5, <2>2
  <2> HIDE DEF x
  <2>4. new.cells = w.cells /\ new.do = w.do /\ new.read = x
    BY <1>4 DEF IsItem
  <2> HIDE DEF new
  <2>5. Sound(new)
    BY <2>2, <2>3, <2>4 DEF Sound
  <2> QED BY <1>1, <1>2, <2>1, <2>5 DEF IInv, MemoryOK
<1>7. CASE Write(w)
  <2>1. /\ Sets(w) \/ w.read # <<>>
        /\ items' = items \ {w} /\ DOMAIN mem' = DOMAIN mem
        /\ \A i \in DOMAIN mem : mem'[i] =
              IF \E k \in DOMAIN w.cells : w.cells[k] = i
              THEN Written(w)[CHOOSE k \in DOMAIN w.cells : w.cells[k] = i]
              ELSE mem[i]
    BY <1>7 DEF Write
  <2>2. \A k \in DOMAIN w.cells : Written(w)[k] \in Amplitude
    BY <1>4, <2>1, WrittenType
  <2>3. \A i \in DOMAIN mem' : mem'[i] \in Amplitude
    <3> SUFFICES ASSUME NEW i \in DOMAIN mem PROVE mem'[i] \in Amplitude
      BY <2>1
    <3>1. CASE \E k \in DOMAIN w.cells : w.cells[k] = i
      <4> DEFINE at == CHOOSE k \in DOMAIN w.cells : w.cells[k] = i
      <4>1. at \in DOMAIN w.cells
        BY <3>1
      <4>2. mem'[i] = Written(w)[at]
        BY <2>1, <3>1
      <4> HIDE DEF at
      <4> QED BY <2>2, <4>1, <4>2
    <3>2. CASE ~ \E k \in DOMAIN w.cells : w.cells[k] = i
      BY <1>5, <2>1, <3>2
    <3> QED BY <3>1, <3>2
  <2>4. kind = "GPU" => Cardinality(DOMAIN mem') = dim'
    <3>1. host # "idle" /\ pc = "gates"
      BY DEF IInv, KInv, Busy
    <3>2. rtWidth \in Nat /\ DOMAIN mem = 0 .. 2^rtWidth - 1 /\ (kind = "GPU" => dim = 2^rtWidth)
      BY <3>1 DEF IInv, KInv, Shape
    <3> QED BY <1>1, <2>1, <3>2, Amplitudes
  <2> QED BY <1>1, <1>2, <2>1, <2>3, <2>4 DEF IInv, MemoryOK
<1> QED BY <1>3, <1>6, <1>7

\* What the caller reads, it only reads.
LEMMA ReadingTypes ==
    ASSUME IInv, ReadsState \/ SamplesOnce \/ TakesExpectation \/ TakesAnswer
    PROVE  CircuitOK' /\ ControlOK' /\ MemoryOK'
<1>1. pc \in {"ran", "threw"} /\ \E what, value : Given(what, value)
  BY DEF ReadsState, SamplesOnce, TakesExpectation, TakesAnswer
<1>2. /\ pc' = "read"
      /\ UNCHANGED <<kind, mem, width, dim, items, host, circuit, calls, runs, rtWidth, next>>
  BY <1>1 DEF Given, backend, building
<1> QED BY <1>1, <1>2 DEF IInv, CircuitOK, ControlOK, MemoryOK

-----------------------------------------------------------------------------
(* Arithmetic modulo 31 *)

\* Simulator counts with the amplitudes the kernels count with.
LEMMA SameArithmetic ==
    /\ \A re, im : Promised!Complex(re, im) = Complex(re, im)
    /\ \A a, b : Promised!Plus(a, b) = Plus(a, b) /\ Promised!Times(a, b) = Times(a, b)
    /\ \A k : Promised!Cos(k) = Cos(k) /\ Promised!Sin(k) = Sin(k)
              /\ Promised!Phase(k) = Phase(k)
    /\ Promised!Zero = Zero /\ Promised!One = One
<1>1. \A re, im : Promised!Complex(re, im) = Complex(re, im)
  BY DEF Promised!Complex, Complex, Promised!Prime, Prime
<1>2. \A k : Promised!Cos(k) = Cos(k)
  BY DEF Promised!Cos, Cos
<1>3. \A k : Promised!Sin(k) = Sin(k)
  BY <1>2 DEF Promised!Sin, Sin
<1> QED BY <1>1, <1>2, <1>3 DEF Promised!Plus, Plus, Promised!Times, Times, Promised!Phase, Phase,
                                Promised!Zero, Zero, Promised!One, One

\* A factor, or a term, may be reduced before or after.
LEMMA Reduced ==
    ASSUME NEW x \in Int, NEW y \in Int, NEW u \in Int, NEW v \in Int
    PROVE  /\ ((x % Prime) * u + (y % Prime) * v) % Prime = (x * u + y * v) % Prime
           /\ ((x % Prime) * u - (y % Prime) * v) % Prime = (x * u - y * v) % Prime
<1> DEFINE a == x \div Prime
           b == y \div Prime
<1>1. /\ a \in Int /\ b \in Int /\ x % Prime \in Int /\ y % Prime \in Int
      /\ x % Prime = x - Prime * a /\ y % Prime = y - Prime * b
  BY DEF Prime
<1> HIDE DEF a, b
<1>2. /\ (x % Prime) * u = x * u - Prime * (a * u)
      /\ (y % Prime) * v = y * v - Prime * (b * v)
  <2>1. /\ (x - Prime * a) * u = x * u - Prime * (a * u)
        /\ (y - Prime * b) * v = y * v - Prime * (b * v)
    BY <1>1 DEF Prime
  <2> QED BY <1>1, <2>1
<1>3. /\ x * u \in Int /\ y * v \in Int /\ a * u \in Int /\ b * v \in Int
  BY <1>1
<1>4. \A z, k, l \in Int :
        /\ (z - Prime * k - Prime * l) % Prime = z % Prime
        /\ (z - Prime * k + Prime * l) % Prime = z % Prime
  BY DEF Prime
<1>5. /\ (x % Prime) * u + (y % Prime) * v
           = (x * u + y * v) - Prime * (a * u) - Prime * (b * v)
      /\ (x % Prime) * u - (y % Prime) * v
           = (x * u - y * v) - Prime * (a * u) + Prime * (b * v)
  <2> DEFINE xu == (x % Prime) * u
             yv == (y % Prime) * v
             k == Prime * (a * u)
             l == Prime * (b * v)
  <2>1. k \in Int /\ l \in Int
    BY <1>3 DEF Prime
  <2>2. xu = x * u - k /\ yv = y * v - l
    BY <1>2
  <2> HIDE DEF xu, yv, k, l
  <2>3. xu + yv = (x * u + y * v) - k - l /\ xu - yv = (x * u - y * v) - k + l
    BY <1>3, <2>1, <2>2
  <2> QED BY <2>3 DEF xu, yv, k, l
<1> HIDE DEF a, b
<1> QED BY <1>3, <1>4, <1>5

\* An amplitude is its two parts.
LEMMA Parts ==
    ASSUME NEW a \in Amplitude
    PROVE  /\ a[1] \in Int /\ a[2] \in Int /\ a = <<a[1], a[2]>>
           /\ a = Complex(a[1], a[2])
BY DEF Amplitude, Complex, Prime

\* Products may be reordered and regrouped.
LEMMA Associative ==
    ASSUME NEW a \in Amplitude, NEW b \in Amplitude, NEW c \in Amplitude
    PROVE  Times(a, b) = Times(b, a) /\ Times(Times(a, b), c) = Times(a, Times(b, c))
<1>1. /\ a[1] \in Int /\ a[2] \in Int /\ b[1] \in Int /\ b[2] \in Int
      /\ c[1] \in Int /\ c[2] \in Int
  BY Parts
<1> DEFINE a1 == a[1]
           a2 == a[2]
           b1 == b[1]
           b2 == b[2]
           c1 == c[1]
           c2 == c[2]
           p == a1 * b1 - a2 * b2
           q == a1 * b2 + a2 * b1
           r == b1 * c1 - b2 * c2
           s == b1 * c2 + b2 * c1
<1>2. Times(a, b) = <<p % Prime, q % Prime>> /\ Times(b, c) = <<r % Prime, s % Prime>>
  BY DEF Times, Complex
<1>3. Times(b, a) = Times(a, b)
  <2>1. b1 * a1 - b2 * a2 = p /\ b1 * a2 + b2 * a1 = q
    BY <1>1
  <2> QED BY <1>2, <2>1 DEF Times, Complex
<1>4. Times(Times(a, b), c) = <<((p % Prime) * c1 - (q % Prime) * c2) % Prime,
                                ((p % Prime) * c2 + (q % Prime) * c1) % Prime>>
  BY <1>2 DEF Times, Complex
<1>5. Times(a, Times(b, c)) = <<(a1 * (r % Prime) - a2 * (s % Prime)) % Prime,
                                (a1 * (s % Prime) + a2 * (r % Prime)) % Prime>>
  BY <1>2 DEF Times, Complex
<1>6. /\ p * c1 - q * c2 = r * a1 - s * a2
      /\ p * c2 + q * c1 = s * a1 + r * a2
  <2> HIDE DEF a1, a2, b1, b2, c1, c2
  <2> SUFFICES ASSUME a1 \in Int, a2 \in Int, b1 \in Int, b2 \in Int, c1 \in Int, c2 \in Int
               PROVE  /\ (a1 * b1 - a2 * b2) * c1 - (a1 * b2 + a2 * b1) * c2
                           = (b1 * c1 - b2 * c2) * a1 - (b1 * c2 + b2 * c1) * a2
                      /\ (a1 * b1 - a2 * b2) * c2 + (a1 * b2 + a2 * b1) * c1
                           = (b1 * c2 + b2 * c1) * a1 + (b1 * c1 - b2 * c2) * a2
    BY <1>1 DEF a1, a2, b1, b2, c1, c2
  <2> QED OBVIOUS
<1>7. /\ p \in Int /\ q \in Int /\ r \in Int /\ s \in Int
      /\ a1 \in Int /\ a2 \in Int /\ c1 \in Int /\ c2 \in Int
  BY <1>1
<1> HIDE DEF p, q, r, s, a1, a2, c1, c2
<1>8. /\ ((p % Prime) * c1 - (q % Prime) * c2) % Prime = (p * c1 - q * c2) % Prime
      /\ ((p % Prime) * c2 + (q % Prime) * c1) % Prime = (p * c2 + q * c1) % Prime
  BY <1>7, Reduced
<1>9. /\ ((r % Prime) * a1 - (s % Prime) * a2) % Prime = (r * a1 - s * a2) % Prime
      /\ ((s % Prime) * a1 + (r % Prime) * a2) % Prime = (s * a1 + r * a2) % Prime
  BY <1>7, Reduced
<1>10. /\ (r % Prime) * a1 = a1 * (r % Prime) /\ (s % Prime) * a2 = a2 * (s % Prime)
       /\ (s % Prime) * a1 = a1 * (s % Prime) /\ (r % Prime) * a2 = a2 * (r % Prime)
  <2>1. \A x, y \in Int : x * y = y * x
    OBVIOUS
  <2>2. r % Prime \in Int /\ s % Prime \in Int
    BY <1>7 DEF Prime
  <2> QED BY <1>7, <2>1, <2>2
<1> QED BY <1>3, <1>4, <1>5, <1>6, <1>8, <1>9, <1>10 DEF a1, a2, c1, c2

\* What 0 and 1 do.
LEMMA Units ==
    ASSUME NEW a \in Amplitude
    PROVE  /\ Plus(a, Zero) = a /\ Plus(Zero, a) = a
           /\ Times(a, Zero) = Zero /\ Times(Zero, a) = Zero
           /\ Times(a, One) = a /\ Times(One, a) = a
<1>1. a[1] \in 0 .. 30 /\ a[2] \in 0 .. 30 /\ a = <<a[1], a[2]>>
  BY DEF Amplitude, Prime
<1>2. Zero = <<0, 0>> /\ One = <<1, 0>>
  BY DEF Zero, One, Complex, Prime
<1> QED BY <1>1, <1>2 DEF Plus, Times, Complex, Prime

\* Products of real and imaginary amplitudes by -1, i and -i.
LEMMA Axis ==
    ASSUME NEW x \in Int, NEW y \in Int
    PROVE  /\ Times(Complex(x, 0), Complex(-1, 0)) = Complex(-x, 0)
           /\ Times(Complex(0, x), Complex(0, -1)) = Complex(x, 0)
           /\ Times(Complex(0, x), Complex(0, 1)) = Complex(-x, 0)
           /\ Times(Complex(0, x), Complex(-1, 0)) = Complex(0, -x)
           /\ Plus(Complex(x, 0), Complex(0, y)) = Complex(x, y)
BY DEF Times, Plus, Complex, Prime

\* cos and sin of a, of the next angle and of the opposite one.
LEMMA Circle ==
    ASSUME NEW a \in Int
    PROVE  /\ \E k, l \in Int : /\ Cos(a + 1) = 7 * Cos(a) - 18 * Sin(a) + 31 * k
                               /\ Sin(a + 1) = 18 * Cos(a) + 7 * Sin(a) + 31 * l
           /\ Cos(-a) = Cos(a) /\ Sin(-a) = -Sin(a)
<1> DEFINE c == <<1, 7, 4, 18, 0, -18, -4, -7, -1, -7, -4, -18, 0, 18, 4, 7, 1>>
           s == <<0, 18, 4, 7, 1, 7, 4, 18, 0, -18, -4, -7, -1, -7, -4, -18, 0>>
           x == <<0, 9, 2, 0, 0, 8, 3, 12, 0, -9, -2, 0, 0, -8, -3, -12>>
           y == <<0, -8, -3, -12, 0, 9, 2, 0, 0, 8, 3, 12, 0, -9, -2, 0>>
           i == (a % 16) + 1
           o == ((-a) % 16) + 1
           j == ((a + 1) % 16) + 1
<1>1. \A n \in 1 .. 16 : /\ c[n] \in Int /\ s[n] \in Int /\ x[n] \in Int /\ y[n] \in Int
  OBVIOUS
<1>2. \A n \in 1 .. 16 : /\ c[n + 1] = 7 * c[n] - 18 * s[n] + 31 * x[n]
                        /\ s[n + 1] = 18 * c[n] + 7 * s[n] + 31 * y[n]
  OBVIOUS
<1>3. \A n \in 1 .. 16 : c[18 - n] = c[n] /\ s[18 - n] = -s[n]
  OBVIOUS
<1>4. \A n \in 1 .. 16 : s[n] = IF n <= 4 THEN c[n + 12] ELSE c[n - 4]
  OBVIOUS
<1>5. c[17] = c[1] /\ s[17] = s[1]
  OBVIOUS
<1>6. \A b \in Int : Cos(b) = c[(b % 16) + 1]
  <2> DEFINE table == <<1, 7, 4, 18, 0, -18, -4, -7, -1, -7, -4, -18, 0, 18, 4, 7>>
  <2>1. \A n \in 1 .. 16 : table[n] = c[n]
    OBVIOUS
  <2>2. \A b \in Int : Cos(b) = table[(b % 16) + 1] /\ (b % 16) + 1 \in 1 .. 16
    BY DEF Cos
  <2> HIDE DEF table, c
  <2> QED BY <2>1, <2>2
<1> HIDE DEF c, s, x, y
<1>7. \A b \in Int : Sin(b) = s[(b % 16) + 1]
  <2> SUFFICES ASSUME NEW b \in Int PROVE Sin(b) = s[(b % 16) + 1]
    OBVIOUS
  <2>1. Sin(b) = c[((b - 4) % 16) + 1]
    BY <1>6 DEF Sin
  <2> DEFINE n == (b % 16) + 1
  <2>2. n \in 1 .. 16 /\ ((b - 4) % 16) + 1 = IF n <= 4 THEN n + 12 ELSE n - 4
    OBVIOUS
  <2> HIDE DEF n
  <2>3. Sin(b) = s[n]
    BY <1>4, <2>1, <2>2
  <2> QED BY <2>3 DEF n
<1>8. /\ i \in 1 .. 16 /\ j = (IF i = 16 THEN 1 ELSE i + 1)
      /\ o = (IF i = 1 THEN 1 ELSE 18 - i)
  OBVIOUS
<1>9. /\ Cos(a) = c[i] /\ Sin(a) = s[i] /\ Cos(a + 1) = c[j] /\ Sin(a + 1) = s[j]
      /\ Cos(-a) = c[o] /\ Sin(-a) = s[o]
  BY <1>6, <1>7
<1> HIDE DEF i, j, o
<1>10. c[j] = c[i + 1] /\ s[j] = s[i + 1]
  BY <1>5, <1>8
<1>11. c[o] = c[i] /\ s[o] = -s[i]
  <2>1. c[1] = c[17] /\ s[1] = s[17] /\ c[17] = c[1] /\ s[17] = -s[1]
    BY <1>3, <1>5
  <2> QED BY <1>3, <1>8, <2>1
<1>12. x[i] \in Int /\ y[i] \in Int
  BY <1>1, <1>8
<1>13. /\ c[i + 1] = 7 * c[i] - 18 * s[i] + 31 * x[i]
       /\ s[i + 1] = 18 * c[i] + 7 * s[i] + 31 * y[i]
  BY <1>2, <1>8
<1> QED BY <1>9, <1>10, <1>11, <1>12, <1>13

\* No turn, and the smallest.
LEMMA FirstAngles == Phase(0) = One /\ Phase(1) = <<7, 18>>
<1>1. ASSUME NEW x \in Int, NEW k \in Int, NEW r \in 0 .. 15, x = 16 * k + r
      PROVE  x % 16 = r
  BY <1>1
<1>2. (0 - 4) % 16 = 12 /\ (1 - 4) % 16 = 13
  <2>1. /\ 0 - 4 \in Int /\ 1 - 4 \in Int /\ -1 \in Int /\ 12 \in 0 .. 15 /\ 13 \in 0 .. 15
        /\ 0 - 4 = 16 * (-1) + 12 /\ 1 - 4 = 16 * (-1) + 13
    OBVIOUS
  <2> QED BY <1>1, <2>1
<1>3. Sin(0) = 0 /\ Sin(1) = 18
  BY <1>2 DEF Sin, Cos
<1>4. Cos(0) = 1 /\ Cos(1) = 7
  BY DEF Cos
<1> QED BY <1>3, <1>4 DEF Phase, One, Complex, Prime

\* One more step of a turn.
LEMMA TurnsOn ==
    ASSUME NEW a \in Int
    PROVE  /\ Times(Phase(a), Phase(1)) = Phase(a + 1)
           /\ Phase(-a) = Complex(Cos(a), -Sin(a))
<1> DEFINE c == Cos(a)
           s == Sin(a)
<1>1. c \in Int /\ s \in Int
  BY CosType
<1>2. Phase(-a) = Complex(c, -s)
  BY Circle DEF Phase
<1>3. PICK k \in Int, l \in Int : /\ Cos(a + 1) = 7 * c - 18 * s + 31 * k
                                 /\ Sin(a + 1) = 18 * c + 7 * s + 31 * l
  BY Circle
<1>4. Phase(1) = <<7, 18>>
  BY FirstAngles
<1>5. Phase(a) = <<c % Prime, s % Prime>>
  BY DEF Phase, Complex
<1>6. Times(Phase(a), Phase(1)) = <<((c % Prime) * 7 - (s % Prime) * 18) % Prime,
                                    ((c % Prime) * 18 + (s % Prime) * 7) % Prime>>
  BY <1>4, <1>5 DEF Times, Complex
<1>7. Phase(a + 1) = <<(7 * c - 18 * s + 31 * k) % Prime, (18 * c + 7 * s + 31 * l) % Prime>>
  BY <1>3 DEF Phase, Complex
<1> HIDE DEF c, s
<1>8. /\ ((c % Prime) * 7 - (s % Prime) * 18) % Prime = (c * 7 - s * 18) % Prime
      /\ ((c % Prime) * 18 + (s % Prime) * 7) % Prime = (c * 18 + s * 7) % Prime
  BY <1>1, Reduced
<1>9. /\ (7 * c - 18 * s + 31 * k) % Prime = (c * 7 - s * 18) % Prime
      /\ (18 * c + 7 * s + 31 * l) % Prime = (c * 18 + s * 7) % Prime
  BY <1>1 DEF Prime
<1> QED BY <1>2, <1>6, <1>7, <1>8, <1>9 DEF c, s

\* A turn by a and one by b are a turn by their sum.
LEMMA TurnsAdd ==
    ASSUME NEW a \in Int, NEW b \in Int
    PROVE  Times(Phase(a), Phase(b)) = Phase(a + b)
<1> DEFINE T == {k \in 0 .. 15 : \A x \in Int : Times(Phase(x), Phase(k)) = Phase(x + k)}
<1>1. \A x \in Int : Phase(x) \in Amplitude
  BY ConstantsType
<1>2. Phase(0) = One /\ One \in Amplitude
  BY ConstantsType, FirstAngles
<1>3. 0 \in T
  <2>1. \A x \in Int : Times(Phase(x), Phase(0)) = Phase(x + 0)
    BY <1>1, <1>2, Units
  <2> QED BY <2>1
<1>4. ASSUME NEW k \in 1 .. 15, k - 1 \in T PROVE k \in T
  <2>1. ASSUME NEW x \in Int PROVE Times(Phase(x), Phase(k)) = Phase(x + k)
    <3>1. Phase(k) = Times(Phase(k - 1), Phase(1))
      <4>1. k - 1 \in Int /\ (k - 1) + 1 = k
        OBVIOUS
      <4> QED BY <4>1, TurnsOn
    <3>2. Times(Phase(x), Phase(k)) = Times(Times(Phase(x), Phase(k - 1)), Phase(1))
      <4>1. k - 1 \in Int /\ 1 \in Int
        OBVIOUS
      <4> QED BY <1>1, <3>1, <4>1, Associative
    <3>3. Times(Phase(x), Phase(k - 1)) = Phase(x + (k - 1))
      BY <1>4
    <3>4. x + (k - 1) \in Int /\ (x + (k - 1)) + 1 = x + k
      OBVIOUS
    <3> QED BY <3>2, <3>3, <3>4, TurnsOn
  <2> QED BY <2>1
<1>5. 15 \in Nat /\ \A k \in 1 .. 15 : k - 1 \in T => k \in T
  BY <1>4
<1> HIDE DEF T
<1>6. \A k \in 0 .. 15 : k \in T
  BY <1>3, <1>5, Climb
<1>7. b % 16 \in T /\ b % 16 \in Int
  <2>1. b % 16 \in 0 .. 15
    OBVIOUS
  <2> QED BY <1>6, <2>1
<1>8. Times(Phase(a), Phase(b % 16)) = Phase(a + (b % 16))
  BY <1>7 DEF T
<1>9. \A x, y \in Int : x % 16 = y % 16 => Cos(x) = Cos(y) /\ Sin(x) = Sin(y)
  <2>1. \A x, y \in Int : x % 16 = y % 16 => (x - 4) % 16 = (y - 4) % 16
    OBVIOUS
  <2> QED BY <2>1 DEF Cos, Sin
<1>10. Phase(b) = Phase(b % 16) /\ Phase(a + b) = Phase(a + (b % 16))
  <2>1. /\ b % 16 \in Int /\ (b % 16) % 16 = b % 16
        /\ a + b \in Int /\ a + (b % 16) \in Int /\ (a + b) % 16 = (a + (b % 16)) % 16
    OBVIOUS
  <2> QED BY <1>9, <2>1 DEF Phase
<1> QED BY <1>8, <1>10

-----------------------------------------------------------------------------
(* The matrices are those of the gates' definitions *)

\* The entries of a product, ...
LEMMA Products ==
    ASSUME NEW a, NEW b
    PROVE  LET m == Promised!Product(a, b) IN
           /\ m[1] = Plus(Times(a[1], b[1]), Times(a[2], b[3]))
           /\ m[2] = Plus(Times(a[1], b[2]), Times(a[2], b[4]))
           /\ m[3] = Plus(Times(a[3], b[1]), Times(a[4], b[3]))
           /\ m[4] = Plus(Times(a[3], b[2]), Times(a[4], b[4]))
<1> DEFINE m == Promised!Product(a, b)
           row(k) == 2 * ((k - 1) \div 2)
           column(k) == (k - 1) % 2
<1>1. \A k \in 1 .. 4 : m[k] = Plus(Times(a[row(k) + 1], b[column(k) + 1]),
                                 Times(a[row(k) + 2], b[column(k) + 3]))
  BY SameArithmetic, Zenon DEF Promised!Product
<1>2. /\ row(1) = 0 /\ row(2) = 0 /\ row(3) = 2 /\ row(4) = 2
      /\ column(1) = 0 /\ column(2) = 1 /\ column(3) = 0 /\ column(4) = 1
  OBVIOUS
<1> HIDE DEF m, row, column
<1>3. /\ m[1] = Plus(Times(a[0 + 1], b[0 + 1]), Times(a[0 + 2], b[0 + 3]))
      /\ m[2] = Plus(Times(a[0 + 1], b[1 + 1]), Times(a[0 + 2], b[1 + 3]))
      /\ m[3] = Plus(Times(a[2 + 1], b[0 + 1]), Times(a[2 + 2], b[0 + 3]))
      /\ m[4] = Plus(Times(a[2 + 1], b[1 + 1]), Times(a[2 + 2], b[1 + 3]))
  BY <1>1, <1>2
<1> QED BY <1>3 DEF m

\* ... of the Pauli matrices, which are the kernels', ...
LEMMA PauliEntries ==
    /\ Promised!Pauli("I") = <<One, Zero, Zero, One>>
    /\ Promised!Pauli("X") = XMatrix /\ Promised!Pauli("Y") = YMatrix
    /\ Promised!Pauli("Z") = ZMatrix
BY SameArithmetic DEF Promised!Pauli, XMatrix, YMatrix, ZMatrix

\* ... of a multiple and of a sum.
LEMMA Scales ==
    ASSUME NEW a, NEW m, NEW k \in 1 .. 4
    PROVE  /\ Promised!Scale(a, m)[k] = Times(a, m[k])
           /\ \A p : Promised!Sum(m, p)[k] = Plus(m[k], p[k])
BY SameArithmetic DEF Promised!Scale, Promised!Sum

\* A rotation about an axis is the matrix of RX, RY or RZ.
LEMMA Rotations ==
    ASSUME NEW t \in Int, NEW k \in 1 .. 4
    PROVE  /\ Promised!Rotation("X", t)[k] = RXMatrix(t)[k]
           /\ Promised!Rotation("Y", t)[k] = RYMatrix(t)[k]
           /\ Promised!Rotation("Z", t)[k] = RZMatrix(t)[k]
<1> DEFINE c == Complex(Cos(t), 0)
           s == Complex(0, -Sin(t))
<1>1. /\ Cos(t) \in Int /\ Sin(t) \in Int /\ -Sin(t) \in Int /\ -(-Sin(t)) = Sin(t)
  BY CosType
<1>2. c \in Amplitude /\ s \in Amplitude /\ Zero \in Amplitude /\ One \in Amplitude
  BY <1>1, ComplexType, ConstantsType
<1>3. /\ Times(s, Complex(0, -1)) = Complex(-Sin(t), 0)
      /\ Times(s, Complex(0, 1)) = Complex(Sin(t), 0)
      /\ Times(s, Complex(-1, 0)) = Complex(0, Sin(t))
  BY <1>1, Axis
<1>4. /\ Plus(c, Complex(0, Sin(t))) = Phase(t) /\ Plus(c, s) = Phase(-t)
  BY <1>1, Axis, TurnsOn DEF Phase
<1>5. ASSUME NEW p
      PROVE  Promised!Rotation(p, t)[k]
             = Plus(Times(c, Promised!Pauli("I")[k]), Times(s, Promised!Pauli(p)[k]))
  <2>1. Promised!Complex(Promised!Cos(t), 0) = c /\ Promised!Complex(0, -Promised!Sin(t)) = s
    BY SameArithmetic
  <2>2. Promised!Rotation(p, t) = Promised!Sum(Promised!Scale(c, Promised!Pauli("I")),
                                              Promised!Scale(s, Promised!Pauli(p)))
    BY <2>1, Zenon DEF Promised!Rotation
  <2> DEFINE left == Promised!Scale(c, Promised!Pauli("I"))
             right == Promised!Scale(s, Promised!Pauli(p))
  <2>3. /\ left[k] = Times(c, Promised!Pauli("I")[k])
        /\ right[k] = Times(s, Promised!Pauli(p)[k])
    BY Scales
  <2> HIDE DEF c, s, left, right
  <2>4. Promised!Sum(left, right)[k] = Plus(left[k], right[k])
    BY Scales
  <2>5. Promised!Rotation(p, t) = Promised!Sum(left, right)
    BY <2>2 DEF left, right
  <2> QED BY <2>3, <2>4, <2>5
<1>6. /\ Complex(0, -1) \in Amplitude /\ Complex(0, 1) \in Amplitude /\ Complex(-1, 0) \in Amplitude
      /\ \A x \in Int : Complex(x, 0) \in Amplitude /\ Complex(0, x) \in Amplitude
  BY ComplexType
<1> HIDE DEF c, s
<1>7. /\ Times(c, One) = c /\ Times(c, Zero) = Zero /\ Times(s, One) = s /\ Times(s, Zero) = Zero
      /\ Plus(Zero, s) = s /\ Plus(c, Zero) = c /\ Plus(Zero, Zero) = Zero
      /\ Plus(Zero, Complex(Sin(t), 0)) = Complex(Sin(t), 0)
      /\ Plus(Zero, Complex(-Sin(t), 0)) = Complex(-Sin(t), 0)
  BY <1>1, <1>2, <1>6, Units
<1>8. k = 1 \/ k = 2 \/ k = 3 \/ k = 4
  OBVIOUS
<1>9. Promised!Rotation("X", t)[k] = RXMatrix(t)[k]
  BY <1>5, <1>7, <1>8, PauliEntries DEF XMatrix, RXMatrix, c, s
<1>10. Promised!Rotation("Y", t)[k] = RYMatrix(t)[k]
  BY <1>3, <1>5, <1>7, <1>8, PauliEntries DEF YMatrix, RYMatrix, c
<1>11. Promised!Rotation("Z", t)[k] = RZMatrix(t)[k]
  BY <1>3, <1>4, <1>5, <1>7, <1>8, PauliEntries DEF ZMatrix, RZMatrix
<1> QED BY <1>9, <1>10, <1>11

\* Half of 1 + p and half of 1 - p, modulo 31.
LEMMA Halves ==
    ASSUME NEW p \in Amplitude
    PROVE  LET h == Complex(16, 0)
               x == Times(h, Plus(One, p))
               y == Times(h, Plus(One, Times(p, Complex(-1, 0)))) IN
           Plus(x, y) = One /\ Plus(x, Times(y, Complex(-1, 0))) = p
<1> DEFINE u == p[1]
           v == p[2]
           h == Complex(16, 0)
           x == Times(h, Plus(One, p))
           y == Times(h, Plus(One, Times(p, Complex(-1, 0))))
<1>1. u \in 0 .. 30 /\ v \in 0 .. 30 /\ p = <<u, v>>
  BY DEF Amplitude, Prime
<1>2. h = <<16, 0>> /\ One = <<1, 0>> /\ Complex(-1, 0) = <<30, 0>>
  <2>1. ASSUME NEW a \in Int, NEW k \in Int, NEW r \in 0 .. 30, a = 31 * k + r
        PROVE  a % 31 = r
    BY <2>1
  <2>2. (-1) % 31 = 30
    <3>1. -1 \in Int /\ 30 \in 0 .. 30 /\ -1 = 31 * (-1) + 30
      OBVIOUS
    <3> QED BY <2>1, <3>1
  <2> QED BY <2>2 DEF Complex, One, Prime
<1> HIDE DEF u, v, h
<1>3. Times(p, Complex(-1, 0)) = <<(30 * u) % 31, (30 * v) % 31>>
  BY <1>1, <1>2 DEF Times, Complex, Prime
<1>4. Plus(One, p) = <<(1 + u) % 31, v>>
  BY <1>1, <1>2 DEF Plus, Complex, Prime
<1>5. x = <<(16 * ((1 + u) % 31)) % 31, (16 * v) % 31>>
  BY <1>1, <1>2, <1>4 DEF Times, Complex, Prime
<1>6. Plus(One, Times(p, Complex(-1, 0))) = <<(1 + ((30 * u) % 31)) % 31, (30 * v) % 31>>
  BY <1>1, <1>2, <1>3 DEF Plus, Complex, Prime
<1>7. y = <<(16 * ((1 + ((30 * u) % 31)) % 31)) % 31, (16 * ((30 * v) % 31)) % 31>>
  BY <1>1, <1>2, <1>6 DEF Times, Complex, Prime
<1>8. \A b \in 0 .. 30 :
        /\ (((16 * ((1 + b) % 31)) % 31)
              + ((16 * ((1 + ((30 * b) % 31)) % 31)) % 31)) % 31 = 1
        /\ (((16 * b) % 31) + ((16 * ((30 * b) % 31)) % 31)) % 31 = 0
  OBVIOUS
<1>9. \A b \in 0 .. 30 :
        /\ (((16 * ((1 + b) % 31)) % 31)
              + ((30 * ((16 * ((1 + ((30 * b) % 31)) % 31)) % 31)) % 31)) % 31 = b
        /\ (((16 * b) % 31) + ((30 * ((16 * ((30 * b) % 31)) % 31)) % 31)) % 31 = b
  OBVIOUS
<1> HIDE DEF x, y
<1>10. Plus(x, y) = One
  BY <1>1, <1>2, <1>5, <1>7, <1>8 DEF Plus, Complex, Prime
<1>11. Plus(x, Times(y, Complex(-1, 0))) = p
  <2>1. Times(y, Complex(-1, 0)) = <<(30 * y[1]) % 31, (30 * y[2]) % 31>>
    BY <1>1, <1>2, <1>7 DEF Times, Complex, Prime
  <2> QED BY <1>1, <1>5, <1>7, <1>9, <2>1 DEF Plus, Complex, Prime
<1> QED BY <1>10, <1>11 DEF x, y, h

\* A root of Z leaves |0> and turns |1>: S, T and their inverses.
LEMMA RootsOfZ ==
    ASSUME NEW t \in Int
    PROVE  LET m == Promised!ZRoot(t) IN
           m[1] = One /\ m[2] = Zero /\ m[3] = Zero /\ m[4] = Phase(t)
<1> DEFINE m == Promised!ZRoot(t)
           h == Complex(16, 0)
           x == Times(h, Plus(One, Phase(t)))
           y == Times(h, Plus(One, Phase(t + 8)))
           minus == Complex(-1, 0)
<1>1. Phase(8) = minus
  <2>1. /\ 8 % 16 = 8 /\ (8 - 4) % 16 = 4
    OBVIOUS
  <2>2. Cos(8) = -1 /\ Sin(8) = 0
    BY <2>1 DEF Cos, Sin
  <2> QED BY <2>2 DEF Phase
<1>2. /\ Phase(t) \in Amplitude /\ Phase(t + 8) \in Amplitude /\ One \in Amplitude
      /\ Zero \in Amplitude /\ h \in Amplitude /\ minus \in Amplitude
  BY ConstantsType, ComplexType
<1>3. Phase(t + 8) = Times(Phase(t), minus)
  BY <1>1, TurnsAdd
<1>4. Plus(x, y) = One /\ Plus(x, Times(y, minus)) = Phase(t)
  BY <1>2, <1>3, Halves
<1>5. x \in Amplitude /\ y \in Amplitude
  BY <1>2, ArithmeticType
<1>6. ASSUME NEW k \in 1 .. 4
      PROVE  m[k] = Plus(Times(x, Promised!Pauli("I")[k]), Times(y, Promised!Pauli("Z")[k]))
  <2>1. /\ Promised!Times(Promised!Complex(16, 0), Promised!Plus(Promised!One, Promised!Phase(t))) = x
        /\ Promised!Times(Promised!Complex(16, 0), Promised!Plus(Promised!One, Promised!Phase(t + 8))) = y
    BY SameArithmetic
  <2>2. m = Promised!Sum(Promised!Scale(x, Promised!Pauli("I")),
                         Promised!Scale(y, Promised!Pauli("Z")))
    BY <2>1, Zenon DEF Promised!ZRoot
  <2> DEFINE left == Promised!Scale(x, Promised!Pauli("I"))
             right == Promised!Scale(y, Promised!Pauli("Z"))
  <2>3. /\ left[k] = Times(x, Promised!Pauli("I")[k])
        /\ right[k] = Times(y, Promised!Pauli("Z")[k])
    BY Scales
  <2> HIDE DEF m, x, y, left, right
  <2>4. Promised!Sum(left, right)[k] = Plus(left[k], right[k])
    BY Scales
  <2>5. m = Promised!Sum(left, right)
    BY <2>2 DEF left, right
  <2> QED BY <2>3, <2>4, <2>5
<1> HIDE DEF m, x, y, minus
<1>7. /\ Times(x, One) = x /\ Times(x, Zero) = Zero /\ Times(y, One) = y /\ Times(y, Zero) = Zero
      /\ Plus(Zero, Zero) = Zero
  BY <1>2, <1>5, Units
<1>8. /\ Promised!Pauli("I") = <<One, Zero, Zero, One>>
      /\ Promised!Pauli("Z") = <<One, Zero, Zero, minus>>
  BY PauliEntries DEF ZMatrix, minus
<1>9. /\ m[1] = Plus(Times(x, One), Times(y, One)) /\ m[2] = Plus(Times(x, Zero), Times(y, Zero))
      /\ m[3] = Plus(Times(x, Zero), Times(y, Zero)) /\ m[4] = Plus(Times(x, One), Times(y, minus))
  BY <1>6, <1>8
<1> QED BY <1>4, <1>7, <1>9 DEF m

\* Three turns about each other's axis, with an amplitude in between.
LEMMA TurnsAbout ==
    ASSUME NEW d \in Int, NEW x \in Int, NEW y \in Int, NEW a \in Amplitude
    PROVE  Times(Phase(d), Times(Phase(x), Times(a, Phase(y)))) = Times(a, Phase(d + x + y))
<1>1. Phase(d) \in Amplitude /\ Phase(x) \in Amplitude /\ Phase(y) \in Amplitude
  BY ConstantsType
<1>2. Times(Phase(d), Phase(x)) = Phase(d + x) /\ Phase(d + x) \in Amplitude
  BY ConstantsType, TurnsAdd
<1>3. Times(a, Phase(y)) \in Amplitude
  BY <1>1, ArithmeticType
<1>4. Times(Phase(d), Times(Phase(x), Times(a, Phase(y)))) = Times(Phase(d + x), Times(a, Phase(y)))
  BY <1>1, <1>2, <1>3, Associative
<1>5. Times(Phase(d + x), Times(a, Phase(y))) = Times(Times(a, Phase(y)), Phase(d + x))
  BY <1>2, <1>3, Associative
<1>6. Times(Times(a, Phase(y)), Phase(d + x)) = Times(a, Times(Phase(y), Phase(d + x)))
  BY <1>1, <1>2, Associative
<1>7. Times(Phase(y), Phase(d + x)) = Phase(d + x + y)
  <2>1. d + x \in Int /\ y + (d + x) = d + x + y
    OBVIOUS
  <2> QED BY <2>1, TurnsAdd
<1> QED BY <1>4, <1>5, <1>6, <1>7

\* U is the three rotations it is defined by, up to the phase it is defined with.
LEMMA GeneralGate ==
    ASSUME NEW t \in Int, NEW f \in Int, NEW l \in Int, NEW k \in 1 .. 4
    PROVE  Promised!Scale(Promised!Phase(f + l),
                          Promised!Product(Promised!Rotation("Z", f),
                                           Promised!Product(Promised!Rotation("Y", t),
                                                            Promised!Rotation("Z", l))))[k]
           = UMatrix(t, f, l)[k]
<1> DEFINE c == Complex(Cos(t), 0)
           s == Complex(Sin(t), 0)
           r == Complex(-Sin(t), 0)
           ry == Promised!Rotation("Y", t)
           rl == Promised!Rotation("Z", l)
           rf == Promised!Rotation("Z", f)
           inner == Promised!Product(ry, rl)
           outer == Promised!Product(rf, inner)
<1>1. ry[1] = c /\ ry[2] = r /\ ry[3] = s /\ ry[4] = c
  BY Rotations DEF RYMatrix
<1>2. /\ rl[1] = Phase(-l) /\ rl[2] = Zero /\ rl[3] = Zero /\ rl[4] = Phase(l)
      /\ rf[1] = Phase(-f) /\ rf[2] = Zero /\ rf[3] = Zero /\ rf[4] = Phase(f)
  BY Rotations DEF RZMatrix
<1>3. /\ inner[1] = Plus(Times(ry[1], rl[1]), Times(ry[2], rl[3]))
      /\ inner[2] = Plus(Times(ry[1], rl[2]), Times(ry[2], rl[4]))
      /\ inner[3] = Plus(Times(ry[3], rl[1]), Times(ry[4], rl[3]))
      /\ inner[4] = Plus(Times(ry[3], rl[2]), Times(ry[4], rl[4]))
  BY Products
<1>4. /\ outer[1] = Plus(Times(rf[1], inner[1]), Times(rf[2], inner[3]))
      /\ outer[2] = Plus(Times(rf[1], inner[2]), Times(rf[2], inner[4]))
      /\ outer[3] = Plus(Times(rf[3], inner[1]), Times(rf[4], inner[3]))
      /\ outer[4] = Plus(Times(rf[3], inner[2]), Times(rf[4], inner[4]))
  BY Products
<1>5. /\ c \in Amplitude /\ s \in Amplitude /\ r \in Amplitude
      /\ -f \in Int /\ -l \in Int /\ f + l \in Int
      /\ \A x \in Int : Phase(x) \in Amplitude
  BY CosType, ComplexType, ConstantsType
<1> HIDE DEF c, s, r, ry, rl, rf, inner, outer
<1>6. /\ inner[1] = Times(c, Phase(-l)) /\ inner[2] = Times(r, Phase(l))
      /\ inner[3] = Times(s, Phase(-l)) /\ inner[4] = Times(c, Phase(l))
  <2>1. \A a, b \in Amplitude : /\ Times(a, b) \in Amplitude
                                /\ Plus(Times(a, b), Zero) = Times(a, b)
                                /\ Plus(Zero, Times(a, b)) = Times(a, b)
                                /\ Times(a, Zero) = Zero
    BY ArithmeticType, Units
  <2> QED BY <1>1, <1>2, <1>3, <1>5, <2>1
<1>7. /\ inner[1] \in Amplitude /\ inner[2] \in Amplitude
      /\ inner[3] \in Amplitude /\ inner[4] \in Amplitude
  BY <1>5, <1>6, ArithmeticType
<1>8. /\ outer[1] = Times(Phase(-f), inner[1]) /\ outer[2] = Times(Phase(-f), inner[2])
      /\ outer[3] = Times(Phase(f), inner[3]) /\ outer[4] = Times(Phase(f), inner[4])
  <2>1. \A a, b \in Amplitude : /\ Times(a, b) \in Amplitude
                                /\ Plus(Times(a, b), Zero) = Times(a, b)
                                /\ Plus(Zero, Times(a, b)) = Times(a, b)
                                /\ Times(Zero, a) = Zero
    BY ArithmeticType, Units
  <2> QED BY <1>2, <1>4, <1>5, <1>7, <2>1
<1>9. /\ (f + l) + (-f) + (-l) = 0 /\ (f + l) + (-f) + l = 2 * l
      /\ (f + l) + f + (-l) = 2 * f /\ (f + l) + f + l = 2 * (f + l)
  OBVIOUS
<1>10. /\ Times(Phase(f + l), outer[1]) = Times(c, Phase(0))
       /\ Times(Phase(f + l), outer[2]) = Times(r, Phase(2 * l))
       /\ Times(Phase(f + l), outer[3]) = Times(s, Phase(2 * f))
       /\ Times(Phase(f + l), outer[4]) = Times(c, Phase(2 * (f + l)))
  <2>1. Times(Phase(f + l), outer[1]) = Times(c, Phase((f + l) + (-f) + (-l)))
    <3>1. \A d, x, y \in Int : Times(Phase(d), Times(Phase(x), Times(c, Phase(y))))
                               = Times(c, Phase(d + x + y))
      BY <1>5, TurnsAbout
    <3>2. Times(Phase(f + l), outer[1])
          = Times(Phase(f + l), Times(Phase(-f), Times(c, Phase(-l))))
      BY <1>6, <1>8
    <3> DEFINE d == f + l
               x == -f
               y == -l
    <3>3. d \in Int /\ x \in Int /\ y \in Int
      BY <1>5
    <3> HIDE DEF d, x, y
    <3>4. Times(Phase(d), Times(Phase(x), Times(c, Phase(y)))) = Times(c, Phase(d + x + y))
      BY <3>1, <3>3
    <3> QED BY <3>2, <3>4 DEF d, x, y
  <2>2. Times(Phase(f + l), outer[2]) = Times(r, Phase((f + l) + (-f) + l))
    BY <1>5, <1>6, <1>8, TurnsAbout
  <2>3. Times(Phase(f + l), outer[3]) = Times(s, Phase((f + l) + f + (-l)))
    BY <1>5, <1>6, <1>8, TurnsAbout
  <2>4. Times(Phase(f + l), outer[4]) = Times(c, Phase((f + l) + f + l))
    BY <1>5, <1>6, <1>8, TurnsAbout
  <2> QED BY <1>9, <2>1, <2>2, <2>3, <2>4
<1>11. Times(c, Phase(0)) = c
  BY <1>5, FirstAngles, Units
<1>12. /\ UMatrix(t, f, l)[1] = c /\ UMatrix(t, f, l)[2] = Times(r, Phase(2 * l))
       /\ UMatrix(t, f, l)[3] = Times(s, Phase(2 * f))
       /\ UMatrix(t, f, l)[4] = Times(c, Phase(2 * (f + l)))
  BY DEF UMatrix, c, s, r
<1>13. Promised!Scale(Promised!Phase(f + l), outer)[k] = Times(Phase(f + l), outer[k])
  BY SameArithmetic, Scales
<1>14. k = 1 \/ k = 2 \/ k = 3 \/ k = 4
  OBVIOUS
<1>15. Promised!Scale(Promised!Phase(f + l), outer)[k] = UMatrix(t, f, l)[k]
  BY <1>10, <1>11, <1>12, <1>13, <1>14
<1> QED BY <1>15 DEF outer, inner, ry, rl, rf

\* The angles of H and S.
LEMMA SmallAngles ==
    /\ Cos(2) = 4 /\ Phase(4) = Complex(0, 1) /\ Phase(-4) = Complex(0, -1)
<1>1. Cos(2) = 4 /\ Cos(4) = 0
  BY DEF Cos
<1>2. Sin(4) = 1
  BY DEF Sin, Cos
<1>3. Phase(-4) = Complex(Cos(4), -Sin(4))
  BY TurnsOn
<1> QED BY <1>1, <1>2, <1>3 DEF Phase

\* H is the sum of X and Z, over the root of two.
LEMMA Hadamard ==
    ASSUME NEW k \in 1 .. 4
    PROVE  Promised!Scale(Complex(4, 0),
                          Promised!Sum(Promised!Pauli("X"), Promised!Pauli("Z")))[k] = HMatrix[k]
<1> DEFINE h == Complex(4, 0)
           sum == Promised!Sum(Promised!Pauli("X"), Promised!Pauli("Z"))
           minus == Complex(-1, 0)
<1>1. Zero \in Amplitude /\ One \in Amplitude /\ minus \in Amplitude /\ h \in Amplitude
  BY ComplexType, ConstantsType
<1>2. \A i \in 1 .. 4 : sum[i] = Plus(Promised!Pauli("X")[i], Promised!Pauli("Z")[i])
  BY Scales
<1>3. /\ Promised!Pauli("X") = <<Zero, One, One, Zero>>
      /\ Promised!Pauli("Z") = <<One, Zero, Zero, minus>>
  BY PauliEntries DEF XMatrix, ZMatrix
<1> HIDE DEF sum
<1>4. Promised!Scale(h, sum)[k] = Times(h, sum[k])
  BY Scales
<1>5. Times(h, minus) = Complex(-4, 0)
  BY Axis
<1> HIDE DEF minus, h
<1>6. /\ Plus(Zero, One) = One /\ Plus(One, Zero) = One /\ Plus(Zero, minus) = minus
      /\ Times(h, One) = h
  BY <1>1, Units
<1>7. sum[1] = One /\ sum[2] = One /\ sum[3] = One /\ sum[4] = minus
  BY <1>2, <1>3, <1>6
<1>8. k = 1 \/ k = 2 \/ k = 3 \/ k = 4
  OBVIOUS
<1>9. HMatrix = <<h, h, h, Complex(-4, 0)>>
  BY DEF HMatrix, h
<1>10. Promised!Scale(h, sum)[k] = HMatrix[k]
  BY <1>4, <1>5, <1>6, <1>7, <1>8, <1>9
<1> QED BY <1>10 DEF h, sum

\* The matrix a kernel is given is the gate's definition, entry by entry.
LEMMA MatrixIsMeant ==
    ASSUME NEW g \in GateOp, g.type # "SWAP", NEW k \in 1 .. 4
    PROVE  Promised!Definition(g)[k] = Matrix(g)[k]
<1> DEFINE a == [i \in DOMAIN g.args |-> g.args[i].offset]
           sign == IF g.dagger THEN -1 ELSE 1
<1>1. /\ g.type \in OneQubit \cup TwoQubit /\ g.args \in Seq(Param) /\ g.dagger \in BOOLEAN
      /\ Len(g.args) = Arguments(g.type)
  BY DEF GateOp
<1>2. \A i \in 1 .. Len(g.args) : a[i] \in Int
  <2>1. \A i \in 1 .. Len(g.args) : g.args[i] \in Param
    BY <1>1
  <2>2. DOMAIN g.args = 1 .. Len(g.args)
    BY <1>1
  <2> QED BY <2>1, <2>2 DEF Param
<1> HIDE DEF a
<1>3. CASE g.type \in {"X", "CNOT"}
  <2>1. Promised!Definition(g) = Promised!Pauli("X") /\ Matrix(g) = XMatrix
    BY <1>3 DEF Promised!Definition, Matrix
  <2> QED BY <2>1, PauliEntries
<1>4. CASE g.type = "Y"
  <2>1. Promised!Definition(g) = Promised!Pauli("Y") /\ Matrix(g) = YMatrix
    BY <1>4 DEF Promised!Definition, Matrix
  <2> QED BY <2>1, PauliEntries
<1>5. CASE g.type \in {"Z", "CZ"}
  <2>1. Promised!Definition(g) = Promised!Pauli("Z") /\ Matrix(g) = ZMatrix
    BY <1>5 DEF Promised!Definition, Matrix
  <2> QED BY <2>1, PauliEntries
<1>6. CASE g.type = "H"
  <2>1. /\ Promised!Definition(g) = Promised!Scale(Promised!Complex(Promised!Cos(2), 0),
                                       Promised!Sum(Promised!Pauli("X"), Promised!Pauli("Z")))
        /\ Matrix(g) = HMatrix
    BY <1>6 DEF Promised!Definition, Matrix
  <2>2. Promised!Complex(Promised!Cos(2), 0) = Complex(4, 0)
    BY SameArithmetic, SmallAngles
  <2> QED BY <2>1, <2>2, Hadamard
<1>7. CASE g.type = "S"
  <2>1. Promised!Definition(g) = Promised!ZRoot(sign * 4) /\ Matrix(g) = SMatrix(g.dagger)
    BY <1>7 DEF Promised!Definition, Matrix
  <2>2. Promised!ZRoot(sign * 4)[k] = SMatrix(g.dagger)[k]
    <3>1. sign * 4 \in Int /\ sign * 4 = IF g.dagger THEN -4 ELSE 4
      BY <1>1
    <3>2. Phase(sign * 4) = Complex(0, IF g.dagger THEN -1 ELSE 1)
      BY <1>1, <3>1, SmallAngles
    <3> QED BY <3>1, <3>2, RootsOfZ DEF SMatrix
  <2> QED BY <2>1, <2>2
<1>8. CASE g.type = "T"
  <2>1. Promised!Definition(g) = Promised!ZRoot(sign * 2) /\ Matrix(g) = TMatrix(g.dagger)
    BY <1>8 DEF Promised!Definition, Matrix
  <2>2. Promised!ZRoot(sign * 2)[k] = TMatrix(g.dagger)[k]
    <3>1. sign * 2 \in Int /\ sign * 2 = IF g.dagger THEN -2 ELSE 2
      BY <1>1
    <3>2. Phase(sign * 2) = Phase(IF g.dagger THEN -2 ELSE 2)
      BY <3>1
    <3> QED BY <3>1, <3>2, RootsOfZ DEF TMatrix
  <2> QED BY <2>1, <2>2
<1>9. CASE g.type = "U"
  <2>1. a[1] \in Int /\ a[2] \in Int /\ a[3] \in Int
    BY <1>1, <1>2, <1>9 DEF Arguments
  <2>2. Matrix(g) = UMatrix(a[1], a[2], a[3])
    BY <1>9 DEF Matrix, a
  <2> DEFINE whole(t, f, l) ==
               Promised!Scale(Promised!Phase(f + l),
                              Promised!Product(Promised!Rotation("Z", f),
                                   Promised!Product(Promised!Rotation("Y", t),
                                                    Promised!Rotation("Z", l))))
  <2>3. Promised!Definition(g) = whole(a[1], a[2], a[3])
    BY <1>9 DEF Promised!Definition, a
  <2>4. \A t, f, l \in Int : whole(t, f, l)[k] = UMatrix(t, f, l)[k]
    BY GeneralGate
  <2> HIDE DEF whole
  <2>5. whole(a[1], a[2], a[3])[k] = UMatrix(a[1], a[2], a[3])[k]
    BY <2>1, <2>4
  <2>6. Promised!Definition(g)[k] = UMatrix(a[1], a[2], a[3])[k]
    BY <2>3, <2>5
  <2> QED BY <2>2, <2>6
<1>10. CASE g.type \in {"RX", "CRX", "RY", "CRY", "RZ", "CRZ"}
  <2>1. a[1] \in Int
    BY <1>1, <1>2, <1>10 DEF Arguments
  <2>2. \/ Promised!Definition(g) = Promised!Rotation("X", a[1]) /\ Matrix(g) = RXMatrix(a[1])
        \/ Promised!Definition(g) = Promised!Rotation("Y", a[1]) /\ Matrix(g) = RYMatrix(a[1])
        \/ Promised!Definition(g) = Promised!Rotation("Z", a[1]) /\ Matrix(g) = RZMatrix(a[1])
    BY <1>10 DEF Promised!Definition, Matrix, a
  <2> QED BY <2>1, <2>2, Rotations
<1> QED BY <1>1, <1>3, <1>4, <1>5, <1>6, <1>7, <1>8, <1>9, <1>10 DEF OneQubit, TwoQubit

-----------------------------------------------------------------------------
(* The bits of an index *)

\* The quotient of a * m + r by m.
LEMMA Quotient ==
    ASSUME NEW m \in Nat \ {0}, NEW a \in Int, NEW r \in 0 .. m - 1, NEW i \in Nat, i = a * m + r
    PROVE  i \div m = a
<1>1. /\ i = m * (i \div m) + (i % m) /\ i % m \in 0 .. m - 1 /\ i \div m \in Nat
  BY Division
<1> DEFINE b == i \div m
           s == i % m
<1>2. b \in Int /\ s \in 0 .. m - 1 /\ i = m * b + s
  BY <1>1
<1> HIDE DEF b, s
<1>3. m * b = b * m
  BY <1>2
<1>4. a * m + r = b * m + s
  BY <1>2, <1>3
<1>5. a = b
  BY <1>2, <1>4, DivisionIsUnique
<1> QED BY <1>5 DEF b

\* Adding an even multiple of l does not change the bit of l, nor does adding a
\* smaller power where its bit is clear.
LEMMA OtherBit ==
    ASSUME NEW l \in Nat \ {0}, NEW m \in Nat \ {0}, NEW k \in Nat \ {0},
           m = (2 * k) * l \/ l = (2 * k) * m,
           NEW i \in Nat, EvenPart(i, m)
    PROVE  ((i + m) \div l) % 2 = (i \div l) % 2
<1>1. PICK a \in Nat, r \in 0 .. l - 1 : i = a * l + r
  <2> DEFINE a == i \div l
             r == i % l
  <2>1. i = l * a + r /\ r \in 0 .. l - 1 /\ a \in Nat
    BY Division
  <2> HIDE DEF a, r
  <2>2. l * a = a * l
    BY <2>1
  <2> QED BY <2>1, <2>2
<1>2. i \div l = a
  BY <1>1, Quotient
<1>3. CASE m = (2 * k) * l
  <2>1. (a + 2 * k) * l = a * l + (2 * k) * l
    OBVIOUS
  <2> DEFINE b == a + 2 * k
             j == i + m
  <2>2. j = b * l + r /\ b \in Int /\ j \in Nat
    BY <1>1, <1>3, <2>1
  <2>3. b % 2 = a % 2
    OBVIOUS
  <2> HIDE DEF b, j
  <2>4. j \div l = b
    BY <2>2, Quotient
  <2> QED BY <1>2, <2>3, <2>4 DEF j
<1>4. CASE l = (2 * k) * m
  <2>1. PICK h \in Nat, e \in 0 .. m - 1 : i = (2 * h) * m + e
    BY Parity
  <2>2. r + m < l
    <3> DEFINE b == r \div m
               f == r % m
    <3>1. r \in Nat /\ r = m * b + f /\ f \in 0 .. m - 1 /\ b \in Nat
      <4>1. r \in Nat
        OBVIOUS
      <4> QED BY <4>1, Division
    <3> HIDE DEF b, f
    <3>2. m * b = b * m
      BY <3>1
    <3>3. (a * (2 * k) + b) * m = a * ((2 * k) * m) + b * m
      <4>1. \A x, y, z, t \in Int : (x * y + z) * t = x * (y * t) + z * t
        OBVIOUS
      <4> QED BY <3>1, <4>1
    <3>4. (2 * h) * m + e = (a * (2 * k) + b) * m + f
      BY <1>1, <1>4, <2>1, <3>1, <3>2, <3>3
    <3>5. a * (2 * k) \in Nat /\ a * (2 * k) = 2 * (a * k) /\ a * k \in Nat
      OBVIOUS
    <3>6. 2 * h = a * (2 * k) + b
      BY <3>1, <3>4, <3>5, DivisionIsUnique
    <3>7. b * m + f < (2 * k) * m /\ 2 * k \in Nat
      BY <1>4, <3>1, <3>2
    <3>8. b + 1 <= 2 * k
      BY <3>1, <3>7, QuotientIsBelow
    <3>9. (b + 1) + 1 <= 2 * k
      BY <3>1, <3>5, <3>6, <3>8
    <3>10. b + 1 \in Nat /\ (b + 1) * m + f < (2 * k) * m
      BY <3>1, <3>7, <3>9, ProductIsAbove
    <3>11. (b + 1) * m = b * m + m
      BY <3>1
    <3> QED BY <1>4, <3>1, <3>2, <3>10, <3>11
  <2>3. i + m = a * l + (r + m) /\ r + m \in 0 .. l - 1 /\ i + m \in Nat
    BY <1>1, <2>2
  <2>4. (i + m) \div l = a
    BY <2>3, Quotient, SMTT(20)
  <2> QED BY <1>2, <2>4
<1> QED BY <1>3, <1>4

\* Setting a bit that is clear sets it and leaves the others.
LEMMA SetsBit ==
    ASSUME Powers, NEW q \in Nat, NEW i \in Nat, BitOf(i, q) = 0
    PROVE  /\ i + 2^q \in Nat /\ BitOf(i + 2^q, q) = 1
           /\ \A c \in Nat \ {q} : BitOf(i + 2^q, c) = BitOf(i, c)
           /\ \A n \in Nat : q < n /\ i < 2^n => i + 2^q < 2^n
<1> DEFINE m == 2^q
<1>1. m \in Nat \ {0} /\ EvenPart(i, m)
  BY DEF Powers, BitOf, EvenPart
<1>2. ASSUME NEW c \in Nat, c # q PROVE BitOf(i + m, c) = BitOf(i, c)
  <2> DEFINE l == 2^c
  <2>1. l \in Nat \ {0}
    BY DEF Powers
  <2>2. PICK k \in Nat \ {0} : m = (2 * k) * l \/ l = (2 * k) * m
    <3>1. CASE c < q
      <4>1. \E k \in Nat \ {0} : m = (2 * k) * l
        BY <3>1 DEF Powers
      <4> HIDE DEF m, l
      <4> QED BY <4>1
    <3>2. CASE q < c
      <4>1. \E k \in Nat \ {0} : l = (2 * k) * m
        BY <3>2 DEF Powers
      <4> HIDE DEF m, l
      <4> QED BY <4>1
    <3> QED BY <1>2, <3>1, <3>2
  <2> HIDE DEF l, m
  <2>3. ((i + m) \div l) % 2 = (i \div l) % 2
    BY <1>1, <2>1, <2>2, OtherBit
  <2> QED BY <2>3 DEF BitOf, l
<1>3. PICK h \in Nat, r \in 0 .. m - 1 : i = (2 * h) * m + r
  <2> HIDE DEF m
  <2> QED BY <1>1, Parity
<1>4. BitOf(i + m, q) = 1
  <2> HIDE DEF m
  <2>1. (2 * h + 1) * m = (2 * h) * m + m
    BY <1>1
  <2> DEFINE a == 2 * h + 1
             j == i + m
  <2>2. j = a * m + r /\ j \in Nat /\ a \in Int
    BY <1>1, <1>3, <2>1
  <2> HIDE DEF j, a
  <2>3. j \div m = a
    BY <1>1, <2>2, Quotient
  <2> QED BY <2>3 DEF BitOf, m, j, a
<1>5. ASSUME NEW n \in Nat, q < n, i < 2^n PROVE i + m < 2^n
  <2>1. PICK k \in Nat \ {0} : 2^n = (2 * k) * m
    BY <1>5 DEF Powers
  <2> HIDE DEF m
  <2>2. 2 * h + 1 <= 2 * k
    <3>1. 2 * h \in Nat /\ 2 * k \in Nat /\ (2 * h) * m + r < (2 * k) * m
      BY <1>3, <1>5, <2>1
    <3> QED BY <1>1, <3>1, QuotientIsBelow
  <2>3. (2 * h + 1) + 1 <= 2 * k
    BY <2>2
  <2>4. (2 * h + 1) * m + r < (2 * k) * m
    <3>1. 2 * h + 1 \in Nat /\ 2 * k \in Nat
      OBVIOUS
    <3> QED BY <1>1, <2>3, <3>1, ProductIsAbove
  <2>5. (2 * h + 1) * m = (2 * h) * m + m /\ (2 * h) * m \in Nat
    BY <1>1
  <2> QED BY <1>1, <1>3, <2>1, <2>4, <2>5
<1>6. i + m \in Nat
  BY <1>1
<1> HIDE DEF m
<1>7. /\ \A c \in Nat \ {q} : BitOf(i + m, c) = BitOf(i, c)
      /\ \A n \in Nat : q < n /\ i < 2^n => i + m < 2^n
  BY <1>2, <1>5
<1> QED BY <1>4, <1>6, <1>7 DEF m

\* And clearing one that is set.
LEMMA ClearsBit ==
    ASSUME Powers, NEW q \in Nat, NEW i \in Nat, BitOf(i, q) = 1
    PROVE  /\ i - 2^q \in Nat /\ BitOf(i - 2^q, q) = 0
           /\ \A c \in Nat \ {q} : BitOf(i - 2^q, c) = BitOf(i, c)
<1> DEFINE m == 2^q
           j == i - m
<1>1. m \in Nat \ {0} /\ ~EvenPart(i, m)
  BY DEF Powers, BitOf, EvenPart
<1>2. PICK h \in Nat, r \in 0 .. m - 1 : i = (2 * h + 1) * m + r
  BY <1>1, Parity
<1>3. j \in Nat /\ BitOf(j, q) = 0 /\ j + m = i
  <2> HIDE DEF m
  <2>1. (2 * h + 1) * m = (2 * h) * m + m /\ (2 * h) * m \in Nat
    BY <1>1
  <2> DEFINE a == 2 * h
  <2>2. j = a * m + r /\ j \in Nat /\ a \in Int /\ j + m = i
    BY <1>1, <1>2, <2>1
  <2> HIDE DEF j, a
  <2>3. j \div m = a
    BY <1>1, <2>2, Quotient
  <2> QED BY <2>2, <2>3 DEF BitOf, m, a
<1> HIDE DEF j
<1>4. \A c \in Nat \ {q} : BitOf(j + 2^q, c) = BitOf(j, c)
  BY <1>3, SetsBit
<1> QED BY <1>3, <1>4 DEF j, m

\* A bit is 0 or 1, and Simulator's is the kernels'.
LEMMA BitIsOne ==
    ASSUME Powers, NEW q \in Nat, NEW i \in Nat
    PROVE  (BitOf(i, q) = 0 \/ BitOf(i, q) = 1) /\ Promised!Bit(i, q) = BitOf(i, q)
<1>1. 2^q \in Nat \ {0}
  BY DEF Powers
<1>2. i \div 2^q \in Nat
  BY <1>1, Division
<1>3. \A x \in Nat : x % 2 = 0 \/ x % 2 = 1
  OBVIOUS
<1> QED BY <1>2, <1>3 DEF BitOf, Promised!Bit

-----------------------------------------------------------------------------
(* What a kernel computes *)

Indices(n) == 0 .. 2^n - 1
IsState(s, n) == s \in [Indices(n) -> Amplitude]

\* A matrix kernel has an item for each index whose bit is clear.
LEMMA PairsAre ==
    ASSUME Powers, NEW n \in Nat, NEW q \in 0 .. n - 1, Dim = 2^n
    PROVE  /\ \A p \in Pairs(q) : \E i \in Indices(n) : BitOf(i, q) = 0 /\ p = <<i, i + 2^q>>
           /\ \A i \in Indices(n) : BitOf(i, q) = 0 => <<i, i + 2^q>> \in Pairs(q)
<1> DEFINE m == 2^q
<1>1. q \in Nat /\ q < n
  OBVIOUS
<1>2. m \in Nat \ {0} /\ 2^n \in Nat
  BY <1>1 DEF Powers
<1>3. PICK k \in Nat \ {0} : 2^n = (2 * k) * m
  BY <1>1 DEF Powers
<1>a. \A i \in Nat : BitOf(i, q) = (i \div m) % 2 /\ (BitOf(i, q) = 0 <=> EvenPart(i, m))
  BY DEF BitOf, EvenPart
<1>b. ASSUME NEW x, <<x, x + m>> \in Pairs(q) PROVE <<x, x + 2^q>> \in Pairs(q)
  BY <1>b
<1>c. ASSUME NEW x, NEW p, p = <<x, x + m>> PROVE p = <<x, x + 2^q>>
  BY <1>c
<1> HIDE DEF m
<1>4. Dim \div 2 = k * m /\ k * m \in Nat
  <2>1. (2 * k) * m = 2 * (k * m) /\ k * m \in Nat
    BY <1>2
  <2> QED BY <1>3, <2>1
<1>5. Pairs(q) = {<<I0(i, m), I0(i, m) + m>> : i \in 0 .. k * m - 1}
  BY <1>4 DEF Pairs, m
<1>6. ASSUME NEW p \in Pairs(q)
      PROVE  \E i \in Indices(n) : BitOf(i, q) = 0 /\ p = <<i, i + 2^q>>
  <2>1. PICK x \in 0 .. k * m - 1 : p = <<I0(x, m), I0(x, m) + m>>
    BY <1>5
  <2>2. x \in Nat /\ x < k * m
    BY <1>4
  <2>3. I0(x, m) \in Nat /\ I0(x, m) + m < (2 * k) * m
    BY <1>2, <2>2, PairInside
  <2>4. PICK a \in Nat, r \in 0 .. m - 1 : x = a * m + r /\ I0(x, m) = (2 * a) * m + r
    BY <1>2, <2>2, FirstIndex, Zenon
  <2> DEFINE i == I0(x, m)
             b == 2 * a
  <2>5. i \in Nat /\ i = b * m + r /\ b \in Int
    BY <2>3, <2>4
  <2>6. b % 2 = 0
    OBVIOUS
  <2>7. i \in Indices(n) /\ p = <<i, i + m>>
    BY <1>2, <1>3, <2>1, <2>3 DEF Indices
  <2> HIDE DEF i, b
  <2>8. i \div m = b
    BY <1>2, <2>5, Quotient
  <2>9. BitOf(i, q) = 0
    BY <1>a, <2>5, <2>6, <2>8
  <2>10. p = <<i, i + 2^q>>
    BY <1>c, <2>7
  <2> QED BY <2>7, <2>9, <2>10
<1>7. ASSUME NEW i \in Indices(n), BitOf(i, q) = 0 PROVE <<i, i + 2^q>> \in Pairs(q)
  <2>1. i \in Nat /\ i < 2^n
    BY <1>2 DEF Indices
  <2>2. PICK h \in Nat, r \in 0 .. m - 1 : i = (2 * h) * m + r
    <3>1. EvenPart(i, m)
      BY <1>7, <1>a, <2>1
    <3> QED BY <1>2, <2>1, <3>1, Parity
  <2>3. h + 1 <= k
    <3>1. 2 * h \in Nat /\ 2 * k \in Nat /\ (2 * h) * m + r < (2 * k) * m
      BY <1>3, <2>1, <2>2
    <3>2. 2 * h + 1 <= 2 * k
      BY <1>2, <3>1, QuotientIsBelow
    <3> QED BY <3>2
  <2> DEFINE x == h * m + r
  <2>4. x \in Nat /\ x < k * m
    BY <1>2, <2>3, ProductIsAbove
  <2>5. I0(x, m) = i
    <3>1. PICK b \in Nat, e \in 0 .. m - 1 : x = b * m + e /\ I0(x, m) = (2 * b) * m + e
      BY <1>2, <2>4, FirstIndex
    <3>2. h * m + r = b * m + e
      BY <3>1
    <3> HIDE DEF x
    <3>3. h = b /\ r = e
      BY <1>2, <3>2, DivisionIsUnique
    <3> QED BY <2>2, <3>1, <3>3
  <2>6. x \in 0 .. k * m - 1
    BY <1>4, <2>4
  <2> HIDE DEF x
  <2>7. <<i, i + m>> \in Pairs(q)
    BY <1>5, <2>5, <2>6
  <2> QED BY <1>b, <2>7
<1> QED BY <1>6, <1>7

\* The matrix m takes the amplitudes of s at i and o to those of t.
AtPair(m, s, t, i, o) ==
    /\ t[i] = Plus(Times(m[1], s[i]), Times(m[2], s[o]))
    /\ t[o] = Plus(Times(m[3], s[i]), Times(m[4], s[o]))

Blocked(i, control) == \E c \in control : BitOf(i, c) = 0

\* The definition of a gate, at the two cells of an item.
LEMMA ActedAt ==
    ASSUME Powers, NEW n \in Nat, NEW q \in 0 .. n - 1, NEW control \in SUBSET (Nat \ {q}),
           NEW m, NEW s, IsState(s, n), NEW t, t = Promised!Acted(m, control, q, s),
           NEW i \in Indices(n), BitOf(i, q) = 0
    PROVE  /\ i + 2^q \in Indices(n)
           /\ Blocked(i, control) => t[i] = s[i] /\ t[i + 2^q] = s[i + 2^q]
           /\ ~Blocked(i, control) => AtPair(m, s, t, i, i + 2^q)
<1> DEFINE o == i + 2^q
           blocked == \E c \in control : BitOf(i, c) = 0
<1>1. q \in Nat /\ q < n /\ i \in Nat /\ i < 2^n /\ 2^q \in Nat /\ 2^n \in Nat
  BY DEF Powers, Indices
<1>2. o \in Nat /\ o < 2^n /\ BitOf(o, q) = 1 /\ \A c \in control : BitOf(o, c) = BitOf(i, c)
  BY <1>1, SetsBit
<1>3. o \in Indices(n) /\ DOMAIN s = Indices(n)
  BY <1>1, <1>2 DEF Indices, IsState
<1>4. \A j \in Indices(n) : j \in Nat
  BY <1>1 DEF Indices
<1>5. \A j \in Indices(n), c \in Nat : Promised!Bit(j, c) = BitOf(j, c)
  BY <1>4, BitIsOne
<1>6. \A j \in Indices(n) :
        t[j] = IF \E c \in control : Promised!Bit(j, c) = 0 THEN s[j]
               ELSE Plus(Times(m[2 * Promised!Bit(j, q) + 1], s[Promised!WithBit(j, q, 0)]),
                         Times(m[2 * Promised!Bit(j, q) + 2], s[Promised!WithBit(j, q, 1)]))
  BY <1>3, SameArithmetic DEF Promised!Acted
<1>7. /\ Promised!WithBit(i, q, 0) = i /\ Promised!WithBit(i, q, 1) = o
      /\ Promised!WithBit(o, q, 0) = i /\ Promised!WithBit(o, q, 1) = o
  <2>1. Promised!Bit(i, q) = 0 /\ Promised!Bit(o, q) = 1
    BY <1>1, <1>2, <1>3, <1>5
  <2> QED BY <1>1, <2>1 DEF Promised!WithBit
<1>8. /\ 2 * Promised!Bit(i, q) + 1 = 1 /\ 2 * Promised!Bit(i, q) + 2 = 2
      /\ 2 * Promised!Bit(o, q) + 1 = 3 /\ 2 * Promised!Bit(o, q) + 2 = 4
  BY <1>1, <1>2, <1>3, <1>5
<1>9. /\ (\E c \in control : Promised!Bit(i, c) = 0) <=> blocked
      /\ (\E c \in control : Promised!Bit(o, c) = 0) <=> blocked
  BY <1>2, <1>3, <1>5
<1> HIDE DEF o, blocked
<1>10. /\ t[i] = IF blocked THEN s[i] ELSE Plus(Times(m[1], s[i]), Times(m[2], s[o]))
       /\ t[o] = IF blocked THEN s[o] ELSE Plus(Times(m[3], s[i]), Times(m[4], s[o]))
  BY <1>3, <1>6, <1>7, <1>8, <1>9
<1> QED BY <1>3, <1>10 DEF o, blocked, AtPair, Blocked

\* The items on cells C take the state s to t, by the matrix m.
Computes(C, m, s, t, n) ==
    /\ t = [j \in Indices(n) |-> t[j]]
    /\ \A c \in C : AtPair(m, s, t, c[1], c[2])
    /\ \A j \in Indices(n) : (\A c \in C : j # c[1] /\ j # c[2]) => t[j] = s[j]

\* Every index belongs to one whose bit is clear.
LEMMA Partner ==
    ASSUME Powers, NEW n \in Nat, NEW q \in 0 .. n - 1, NEW j \in Indices(n)
    PROVE  \E i \in Indices(n) : BitOf(i, q) = 0 /\ (j = i \/ j = i + 2^q)
<1>1. q \in Nat /\ j \in Nat /\ 2^q \in Nat /\ 2^n \in Nat /\ j < 2^n
  BY DEF Powers, Indices
<1>2. CASE BitOf(j, q) = 0
  BY <1>2
<1>3. CASE BitOf(j, q) = 1
  <2> DEFINE i == j - 2^q
  <2>1. i \in Nat /\ BitOf(i, q) = 0
    BY <1>1, <1>3, ClearsBit
  <2>2. i \in Indices(n) /\ j = i + 2^q
    BY <1>1, <2>1 DEF Indices
  <2> QED BY <2>1, <2>2
<1> QED BY <1>1, <1>2, <1>3, BitIsOne

\* The items of a matrix kernel, controlled or not.
LEMMA MatrixKernel ==
    ASSUME Powers, NEW n \in Nat, NEW q \in 0 .. n - 1, NEW control \in SUBSET (Nat \ {q}),
           NEW m, NEW s, IsState(s, n), Dim = 2^n
    PROVE  Computes({p \in Pairs(q) : \A c \in control : BitOf(p[1], c) = 1}, m, s,
                    Promised!Acted(m, control, q, s), n)
<1> DEFINE t == Promised!Acted(m, control, q, s)
           C == {p \in Pairs(q) : \A c \in control : BitOf(p[1], c) = 1}
<1>1. t = [j \in Indices(n) |-> t[j]]
  BY DEF Promised!Acted, IsState
<1>a. t = Promised!Acted(m, control, q, s)
  OBVIOUS
<1> HIDE DEF t
<1>2. \A i \in Indices(n) : BitOf(i, q) = 0 =>
        /\ i + 2^q \in Indices(n)
        /\ Blocked(i, control) => t[i] = s[i] /\ t[i + 2^q] = s[i + 2^q]
        /\ ~Blocked(i, control) => AtPair(m, s, t, i, i + 2^q)
  <2> SUFFICES ASSUME NEW i \in Indices(n), BitOf(i, q) = 0
               PROVE  /\ i + 2^q \in Indices(n)
                      /\ Blocked(i, control) => t[i] = s[i] /\ t[i + 2^q] = s[i + 2^q]
                      /\ ~Blocked(i, control) => AtPair(m, s, t, i, i + 2^q)
    OBVIOUS
  <2> HIDE DEF C
  <2>1. \A u : u = Promised!Acted(m, control, q, s) =>
          /\ i + 2^q \in Indices(n)
          /\ Blocked(i, control) => u[i] = s[i] /\ u[i + 2^q] = s[i + 2^q]
          /\ ~Blocked(i, control) => AtPair(m, s, u, i, i + 2^q)
    BY ActedAt
  <2> QED BY <1>a, <2>1
<1>3. \A i \in Indices(n) : Blocked(i, control) <=> ~ \A c \in control : BitOf(i, c) = 1
  <2>1. \A i \in Indices(n) : i \in Nat
    BY DEF Indices, Powers
  <2>2. \A i \in Indices(n), c \in control : BitOf(i, c) = 0 \/ BitOf(i, c) = 1
    BY <2>1, BitIsOne
  <2> QED BY <2>2 DEF Blocked
<1>4. ASSUME NEW p \in C PROVE AtPair(m, s, t, p[1], p[2])
  <2>1. PICK i \in Indices(n) : BitOf(i, q) = 0 /\ p = <<i, i + 2^q>>
    BY PairsAre
  <2>2. ~Blocked(i, control)
    BY <1>3, <2>1
  <2> QED BY <1>2, <2>1, <2>2
<1>5. ASSUME NEW j \in Indices(n), \A c \in C : j # c[1] /\ j # c[2]
      PROVE  t[j] = s[j]
  <2>1. PICK i \in Indices(n) : BitOf(i, q) = 0 /\ (j = i \/ j = i + 2^q)
    BY Partner
  <2>2. <<i, i + 2^q>> \in Pairs(q)
    BY <2>1, PairsAre
  <2> DEFINE o == i + 2^q
  <2>3. <<i, o>>[1] = i /\ <<i, o>>[2] = o
    OBVIOUS
  <2>4. Blocked(i, control)
    <3> SUFFICES ASSUME ~Blocked(i, control) PROVE FALSE
      OBVIOUS
    <3> HIDE DEF o
    <3>1. \A c \in control : BitOf(i, c) = 1
      BY <1>3
    <3>2. <<i, o>> \in C
      BY <2>2, <2>3, <3>1 DEF o
    <3> QED BY <1>5, <2>1, <2>3, <3>2 DEF o
  <2> QED BY <1>2, <2>1, <2>4
<1> HIDE DEF C
<1>6. Computes(C, m, s, t, n)
  BY <1>1, <1>4, <1>5 DEF Computes
<1> QED BY <1>6 DEF C, t

\* The indices a swap starts from, and their partners.
LEMMA SwapCases ==
    ASSUME Powers, NEW n \in Nat, NEW a \in 0 .. n - 1, NEW b \in 0 .. n - 1, a # b,
           NEW s, IsState(s, n), NEW j \in Indices(n)
    PROVE  LET t == Promised!Exchanged(a, b, s) IN
           /\ BitOf(j, a) = BitOf(j, b) => t[j] = s[j]
           /\ BitOf(j, a) = 0 /\ BitOf(j, b) = 1 =>
                /\ j + 2^a - 2^b \in Indices(n) /\ t[j] = s[j + 2^a - 2^b]
                /\ t[j + 2^a - 2^b] = s[j]
           /\ BitOf(j, a) = 1 /\ BitOf(j, b) = 0 =>
                \E i \in Indices(n) :
                    BitOf(i, a) = 0 /\ BitOf(i, b) = 1 /\ j = i + 2^a - 2^b
<1> DEFINE t == Promised!Exchanged(a, b, s)
           ma == 2^a
           mb == 2^b
<1>1. /\ a \in Nat /\ b \in Nat /\ ma \in Nat /\ mb \in Nat /\ 2^n \in Nat /\ a < n /\ b < n
      /\ DOMAIN s = Indices(n) /\ \A i \in Indices(n) : i \in Nat /\ i < 2^n
  BY DEF Powers, Indices, IsState
<1>2. \A i \in Indices(n), c \in Nat : Promised!Bit(i, c) = BitOf(i, c)
  BY <1>1, BitIsOne
<1>3. \A x : \A i \in Nat, c \in Nat : Promised!WithBit(i, c, x) = i + (x - BitOf(i, c)) * 2^c
  BY BitIsOne DEF Promised!WithBit
<1>4. \A i \in Indices(n) :
        t[i] = s[Promised!WithBit(Promised!WithBit(i, a, BitOf(i, b)), b, BitOf(i, a))]
  BY <1>1, <1>2 DEF Promised!Exchanged
<1> HIDE DEF t
<1>5. ASSUME BitOf(j, a) = BitOf(j, b) PROVE t[j] = s[j]
  <2>1. BitOf(j, a) \in Int
    BY <1>1, BitIsOne
  <2>2. Promised!WithBit(j, a, BitOf(j, b)) = j
    BY <1>1, <1>3, <1>5, <2>1
  <2>3. Promised!WithBit(j, b, BitOf(j, a)) = j
    BY <1>1, <1>3, <1>5, <2>1
  <2> QED BY <1>4, <2>2, <2>3
<1>6. ASSUME BitOf(j, a) = 0, BitOf(j, b) = 1
      PROVE  /\ j + ma - mb \in Indices(n) /\ t[j] = s[j + ma - mb]
             /\ t[j + ma - mb] = s[j]
  <2> DEFINE u == j + ma
             o == j + ma - mb
             d == j - mb
  <2>1. /\ u \in Nat /\ BitOf(u, a) = 1 /\ BitOf(u, b) = 1 /\ u < 2^n
    BY <1>1, <1>6, SetsBit
  <2>2. /\ u - mb \in Nat /\ BitOf(u - mb, b) = 0 /\ BitOf(u - mb, a) = 1
    <3> HIDE DEF u
    <3> QED BY <1>1, <2>1, ClearsBit
  <2>3. o = u - mb
    BY <1>1
  <2>4. o \in Indices(n) /\ BitOf(o, b) = 0 /\ BitOf(o, a) = 1
    BY <1>1, <2>1, <2>2, <2>3 DEF Indices
  <2>5. d \in Nat /\ BitOf(d, b) = 0 /\ BitOf(d, a) = 0
    BY <1>1, <1>6, ClearsBit
  <2>6. Promised!WithBit(j, a, 1) = u
    BY <1>1, <1>3, <1>6
  <2>7. Promised!WithBit(u, b, 0) = o
    <3>1. Promised!WithBit(u, b, 0) = u + (0 - 1) * mb
      BY <1>1, <1>3, <2>1
    <3> QED BY <1>1, <3>1
  <2>8. Promised!WithBit(o, a, 0) = d
    <3>1. Promised!WithBit(o, a, 0) = o + (0 - 1) * ma
      <4> HIDE DEF o
      <4> QED BY <1>1, <1>3, <2>4
    <3> QED BY <1>1, <3>1
  <2>9. Promised!WithBit(d, b, 1) = j
    <3>1. Promised!WithBit(d, b, 1) = d + (1 - 0) * mb
      <4> HIDE DEF d
      <4> QED BY <1>1, <1>3, <2>5
    <3> QED BY <1>1, <3>1
  <2>10. t[j] = s[o]
    BY <1>4, <1>6, <2>6, <2>7
  <2>11. t[o] = s[j]
    BY <1>4, <2>4, <2>8, <2>9
  <2> QED BY <2>4, <2>10, <2>11
<1>7. ASSUME BitOf(j, a) = 1, BitOf(j, b) = 0
      PROVE  \E i \in Indices(n) :
                BitOf(i, a) = 0 /\ BitOf(i, b) = 1 /\ j = i + ma - mb
  <2> DEFINE d == j - ma
             i == d + mb
  <2>1. d \in Nat /\ BitOf(d, a) = 0 /\ BitOf(d, b) = 0 /\ d < 2^n
    BY <1>1, <1>7, ClearsBit
  <2>2. i \in Nat /\ BitOf(i, b) = 1 /\ BitOf(i, a) = 0 /\ i < 2^n
    <3> HIDE DEF d
    <3> QED BY <1>1, <2>1, SetsBit
  <2>3. i \in Indices(n) /\ j = i + ma - mb
    BY <1>1, <2>2 DEF Indices
  <2> QED BY <2>2, <2>3
<1> QED BY <1>5, <1>6, <1>7 DEF t, ma, mb

\* The items of a swap.
LEMMA SwapKernel ==
    ASSUME Powers, NEW n \in Nat, NEW a \in 0 .. n - 1, NEW b \in 0 .. n - 1, a # b,
           NEW s, IsState(s, n), Dim = 2^n
    PROVE  Computes(SwapPairs(a, b), XMatrix, s, Promised!Exchanged(a, b, s), n)
<1> DEFINE t == Promised!Exchanged(a, b, s)
           Starts(i) == BitOf(i, a) = 0 /\ BitOf(i, b) = 1
           partner(i) == i + 2^a - 2^b
<1>1. t = [j \in Indices(n) |-> t[j]]
  BY DEF Promised!Exchanged, IsState
<1>2. \A j \in Indices(n) :
        /\ BitOf(j, a) = BitOf(j, b) => t[j] = s[j]
        /\ Starts(j) => partner(j) \in Indices(n) /\ t[j] = s[partner(j)] /\ t[partner(j)] = s[j]
        /\ BitOf(j, a) = 1 /\ BitOf(j, b) = 0 =>
             \E i \in Indices(n) : Starts(i) /\ j = partner(i)
  BY SwapCases
<1>3. SwapPairs(a, b) = {<<i, partner(i)>> : i \in {k \in Indices(n) : Starts(k)}}
  BY DEF SwapPairs, Indices
<1>4. \A j \in Indices(n), c \in {a, b} : BitOf(j, c) = 0 \/ BitOf(j, c) = 1
  <2>1. \A j \in Indices(n) : j \in Nat
    BY DEF Powers, Indices
  <2> QED BY <2>1, BitIsOne
<1>5. ASSUME NEW x \in Amplitude, NEW y \in Amplitude
      PROVE  /\ Plus(Times(XMatrix[1], x), Times(XMatrix[2], y)) = y
             /\ Plus(Times(XMatrix[3], x), Times(XMatrix[4], y)) = x
  <2>1. Times(Zero, x) = Zero /\ Times(One, x) = x /\ Times(Zero, y) = Zero /\ Times(One, y) = y
    BY Units
  <2>2. Plus(Zero, y) = y /\ Plus(x, Zero) = x
    BY Units
  <2> QED BY <2>1, <2>2 DEF XMatrix
<1> HIDE DEF t, Starts, partner
<1>6. ASSUME NEW p \in SwapPairs(a, b) PROVE AtPair(XMatrix, s, t, p[1], p[2])
  <2>1. PICK i \in Indices(n) : Starts(i) /\ p = <<i, partner(i)>>
    BY <1>3
  <2>2. partner(i) \in Indices(n) /\ t[i] = s[partner(i)] /\ t[partner(i)] = s[i]
    BY <1>2, <2>1
  <2>3. s[i] \in Amplitude /\ s[partner(i)] \in Amplitude
    BY <2>2 DEF IsState
  <2> QED BY <1>5, <2>1, <2>2, <2>3 DEF AtPair
<1>7. ASSUME NEW j \in Indices(n), \A c \in SwapPairs(a, b) : j # c[1] /\ j # c[2]
      PROVE  t[j] = s[j]
  <2>1. ASSUME NEW i \in Indices(n), Starts(i) PROVE j # i /\ j # partner(i)
    <3>1. <<i, partner(i)>> \in SwapPairs(a, b)
      BY <1>3, <2>1
    <3>2. <<i, partner(i)>>[1] = i /\ <<i, partner(i)>>[2] = partner(i)
      OBVIOUS
    <3> QED BY <1>7, <3>1, <3>2
  <2>2. ~Starts(j) /\ ~(BitOf(j, a) = 1 /\ BitOf(j, b) = 0)
    BY <1>2, <2>1
  <2>3. BitOf(j, a) = BitOf(j, b)
    BY <1>4, <2>2 DEF Starts
  <2> QED BY <1>2, <2>3
<1>8. Computes(SwapPairs(a, b), XMatrix, s, t, n)
  BY <1>1, <1>6, <1>7 DEF Computes
<1> QED BY <1>8 DEF t

\* The items of a gate compute what the gate is defined to do.
LEMMA GateKernel ==
    ASSUME Powers, NEW n \in Nat, NEW g \in GateOp, WellFormed(g, n),
           NEW s, IsState(s, n), Dim = 2^n
    PROVE  Computes(Cells(g), Matrix(g), s, Promised!Act(g, s), n)
<1> DEFINE d == Promised!Definition(g)
           m == Matrix(g)
<1>1. ASSUME g.type # "SWAP", NEW C, NEW t, Computes(C, d, s, t, n)
      PROVE  Computes(C, m, s, t, n)
  <2>1. d[1] = m[1] /\ d[2] = m[2] /\ d[3] = m[3] /\ d[4] = m[4]
    BY <1>1, MatrixIsMeant
  <2> HIDE DEF d, m
  <2> QED BY <1>1, <2>1 DEF Computes, AtPair
<1>2. CASE g.type \in OneQubit /\ g.qubits \in [1 .. 1 -> 0 .. n - 1]
  <2> DEFINE q == g.qubits[1]
  <2>1. q \in 0 .. n - 1 /\ g.type # "SWAP"
    BY <1>2 DEF OneQubit
  <2>2. Cells(g) = Pairs(q) /\ Promised!Act(g, s) = Promised!Acted(d, {}, q, s)
    BY <1>2 DEF Cells, OneQubit, Promised!Act, Promised!OneQubit
  <2>3. {p \in Pairs(q) : \A c \in {} : BitOf(p[1], c) = 1} = Pairs(q)
    OBVIOUS
  <2> HIDE DEF q, d
  <2>4. {} \in SUBSET (Nat \ {q})
    OBVIOUS
  <2>5. Computes({p \in Pairs(q) : \A c \in {} : BitOf(p[1], c) = 1}, d, s,
                 Promised!Acted(d, {}, q, s), n)
    BY <2>1, <2>4, MatrixKernel
  <2>6. Computes(Cells(g), d, s, Promised!Act(g, s), n)
    BY <2>2, <2>3, <2>5
  <2> QED BY <1>1, <2>1, <2>6
<1>3. CASE /\ g.type \in TwoQubit /\ g.qubits \in [1 .. 2 -> 0 .. n - 1]
           /\ g.qubits[1] # g.qubits[2]
  <2> DEFINE a == g.qubits[1]
             b == g.qubits[2]
  <2>1. a \in 0 .. n - 1 /\ b \in 0 .. n - 1 /\ a # b
    BY <1>3
  <2>2. CASE g.type = "SWAP"
    <3>1. /\ Cells(g) = SwapPairs(a, b) /\ m = XMatrix
          /\ Promised!Act(g, s) = Promised!Exchanged(a, b, s)
      <4>1. Cells(g) = SwapPairs(a, b)
        BY <2>2 DEF Cells, OneQubit
      <4>2. m = XMatrix
        BY <2>2 DEF Matrix
      <4>3. Promised!Act(g, s) = Promised!Exchanged(a, b, s)
        BY <2>2 DEF Promised!Act, Promised!OneQubit
      <4> QED BY <4>1, <4>2, <4>3
    <3> HIDE DEF a, b, m
    <3>2. Computes(SwapPairs(a, b), XMatrix, s, Promised!Exchanged(a, b, s), n)
      BY <2>1, SwapKernel
    <3>3. Computes(Cells(g), m, s, Promised!Act(g, s), n)
      BY <3>1, <3>2
    <3> QED BY <3>3 DEF m
  <2>3. CASE g.type # "SWAP"
    <3>1. /\ Cells(g) = ControlledPairs(a, b)
          /\ Promised!Act(g, s) = Promised!Acted(d, {a}, b, s)
      BY <1>3, <2>3 DEF Cells, OneQubit, TwoQubit, Promised!Act, Promised!OneQubit
    <3>2. {p \in Pairs(b) : \A c \in {a} : BitOf(p[1], c) = 1} = ControlledPairs(a, b)
      BY DEF ControlledPairs
    <3> HIDE DEF a, b, d
    <3>3. {a} \in SUBSET (Nat \ {b})
      BY <2>1
    <3>4. Computes({p \in Pairs(b) : \A c \in {a} : BitOf(p[1], c) = 1}, d, s,
                   Promised!Acted(d, {a}, b, s), n)
      BY <2>1, <3>3, MatrixKernel
    <3>5. Computes(Cells(g), d, s, Promised!Act(g, s), n)
      BY <3>1, <3>2, <3>4
    <3> QED BY <1>1, <2>3, <3>5
  <2> QED BY <2>2, <2>3
<1> QED BY <1>2, <1>3 DEF WellFormed

\* The two cells of an item are not the same.
LEMMA CellsDiffer ==
    ASSUME Powers, NEW n \in Nat, NEW g, WellFormed(g, n), Dim = 2^n, NEW c \in Cells(g)
    PROVE  c = <<c[1], c[2]>> /\ c[1] \in Indices(n) /\ c[2] \in Indices(n) /\ c[1] # c[2]
<1>1. \A i \in Indices(n) : i \in Nat
  BY DEF Powers, Indices
<1>2. ASSUME NEW q \in 0 .. n - 1, NEW p \in Pairs(q) PROVE p = <<p[1], p[2]>> /\ p[1] # p[2]
  <2>1. PICK i \in Indices(n) : p = <<i, i + 2^q>>
    BY <1>2, PairsAre
  <2>2. 2^q \in Nat \ {0} /\ i \in Nat
    BY <1>1 DEF Powers
  <2> QED BY <2>1, <2>2
<1>3. ASSUME NEW a \in 0 .. n - 1, NEW b \in 0 .. n - 1, a # b, NEW p \in SwapPairs(a, b)
      PROVE  p = <<p[1], p[2]>> /\ p[1] # p[2]
  <2> DEFINE x == 2^a
             y == 2^b
  <2>1. PICK i \in Indices(n) : p = <<i, i + x - y>>
    BY <1>3 DEF SwapPairs, Indices
  <2>a. a \in Nat /\ b \in Nat
    OBVIOUS
  <2>2. x \in Nat \ {0} /\ y \in Nat \ {0} /\ i \in Nat
    BY <1>1, <2>a DEF Powers
  <2>3. \E k \in Nat \ {0} : x = (2 * k) * y \/ y = (2 * k) * x
    <3>1. CASE b < a
      <4>1. \E k \in Nat \ {0} : x = (2 * k) * y
        BY <2>a, <3>1 DEF Powers
      <4> HIDE DEF x, y
      <4> QED BY <4>1
    <3>2. CASE a < b
      <4>1. \E k \in Nat \ {0} : y = (2 * k) * x
        BY <2>a, <3>2 DEF Powers
      <4> HIDE DEF x, y
      <4> QED BY <4>1
    <3> QED BY <1>3, <3>1, <3>2
  <2> HIDE DEF x, y
  <2>4. x # y
    <3>1. ASSUME NEW u \in Nat \ {0}, NEW k \in Nat \ {0} PROVE u # (2 * k) * u
      <4>1. (2 * k) * u = u + (2 * k - 1) * u /\ (2 * k - 1) * u > 0
        <5>1. 2 * k - 1 \in Nat \ {0}
          OBVIOUS
        <5>2. \A v \in Nat \ {0} : v * u > 0
          OBVIOUS
        <5> QED BY <5>1, <5>2
      <4> QED BY <4>1
    <3> QED BY <2>2, <2>3, <3>1
  <2> QED BY <2>1, <2>2, <2>4
<1>4. c = <<c[1], c[2]>> /\ c[1] # c[2]
  <2>1. CASE g.type \in OneQubit /\ g.qubits \in [1 .. 1 -> 0 .. n - 1]
    <3>1. c \in Pairs(g.qubits[1]) /\ g.qubits[1] \in 0 .. n - 1
      BY <2>1 DEF Cells, OneQubit
    <3> QED BY <1>2, <3>1
  <2>2. CASE g.type = "SWAP" /\ g.type \in TwoQubit /\ g.qubits \in [1 .. 2 -> 0 .. n - 1]
             /\ g.qubits[1] # g.qubits[2]
    <3>1. c \in SwapPairs(g.qubits[1], g.qubits[2])
      BY <2>2 DEF Cells, OneQubit
    <3>2. g.qubits[1] \in 0 .. n - 1 /\ g.qubits[2] \in 0 .. n - 1
      BY <2>2
    <3> QED BY <1>3, <2>2, <3>1, <3>2
  <2>3. CASE g.type # "SWAP" /\ g.type \in TwoQubit /\ g.qubits \in [1 .. 2 -> 0 .. n - 1]
    <3>1. c \in ControlledPairs(g.qubits[1], g.qubits[2])
      BY <2>3 DEF Cells, OneQubit, TwoQubit
    <3>2. c \in Pairs(g.qubits[2]) /\ g.qubits[2] \in 0 .. n - 1
      BY <2>3, <3>1 DEF ControlledPairs
    <3> QED BY <1>2, <3>2
  <2> QED BY <2>1, <2>2, <2>3 DEF WellFormed
<1>5. Within(c, 2^n)
  BY GateCells
<1> QED BY <1>4, <1>5 DEF Within, Indices

\* A kernel leaves one state only.
LEMMA OneOutcome ==
    ASSUME NEW C, NEW m, NEW s, NEW t, NEW u, NEW n,
           Computes(C, m, s, t, n), Computes(C, m, s, u, n)
    PROVE  t = u
<1>1. ASSUME NEW j \in Indices(n) PROVE t[j] = u[j]
  <2>1. CASE \A c \in C : j # c[1] /\ j # c[2]
    BY <2>1 DEF Computes
  <2>2. CASE ~ \A c \in C : j # c[1] /\ j # c[2]
    BY <2>2 DEF Computes, AtPair
  <2> QED BY <2>1, <2>2
<1>2. t = [j \in Indices(n) |-> t[j]] /\ u = [j \in Indices(n) |-> u[j]]
  BY DEF Computes
<1> QED BY <1>1, <1>2

-----------------------------------------------------------------------------
(* The state, at every step of a call *)

Current == circuit.ops[next]

\* A kernel in progress: an item that is still there has not changed its cells,
\* and has read, if it has, what the kernel found; where there is none the cells
\* are what the gate's matrix makes them.
AtWork ==
    /\ next \in 1 .. Len(circuit.ops) /\ applied = SubSeq(circuit.ops, 1, next - 1)
    /\ IsState(before, rtWidth) /\ IsState(mem, rtWidth)
    /\ \A w \in items :
          /\ w.cells \in Cells(Current) /\ w.do = Matrix(Current)
          /\ \A k \in 1 .. 2 : /\ mem[w.cells[k]] = before[w.cells[k]]
                               /\ w.read # <<>> => w.read[k] = before[w.cells[k]]
    /\ \A c \in Cells(Current) : \/ \E w \in items : w.cells = c
                                 \/ AtPair(Matrix(Current), before, mem, c[1], c[2])
    /\ \A j \in Indices(rtWidth) :
          (\A c \in Cells(Current) : j # c[1] /\ j # c[2]) => mem[j] = before[j]

\* The GPU's initialize() up to the wait between its two tasks, ...
Zeroed ==
    /\ next = 0 /\ applied = <<>> /\ IsState(mem, rtWidth)
    /\ \A w \in items : w.do = <<Zero>>
    /\ \A i \in Indices(rtWidth) : mem[i] = Zero \/ \E w \in items : w.cells = <<i>>

\* ... and after it.
Seeded ==
    /\ next = 0 /\ applied = <<>> /\ IsState(mem, rtWidth)
    /\ \A w \in items : w.do = <<One>> /\ w.cells = <<0>>
    /\ \A i \in Indices(rtWidth) : i # 0 => mem[i] = Zero
    /\ items = {} => mem[0] = One

Between == IsState(mem, rtWidth) /\ applied = SubSeq(circuit.ops, 1, next)

Stages ==
    /\ host = "kernel" => AtWork
    /\ host = "zeroing" => Zeroed
    /\ host = "seeding" => Seeded
    /\ host = "idle" /\ pc = "gates" => Between

SInv == IInv /\ Stages

\* Where the runtime is inside a call, the gates and the memory are what they seem.
LEMMA InCall ==
    ASSUME Powers, IInv, pc = "gates"
    PROVE  /\ rtWidth \in Nat /\ rtWidth = circuit.n /\ rtWidth \in Widths
           /\ DOMAIN mem = Indices(rtWidth) /\ Dim = 2^rtWidth
           /\ Len(circuit.ops) \in Nat /\ circuit.ops \in Seq(GateOp)
           /\ \A k \in 1 .. Len(circuit.ops) :
                 circuit.ops[k] \in GateOp /\ WellFormed(circuit.ops[k], rtWidth)
<1>1. /\ rtWidth \in Nat /\ rtWidth = circuit.n /\ DOMAIN mem = 0 .. 2^rtWidth - 1
      /\ (kind = "GPU" => dim = 2^rtWidth)
  BY DEF IInv, KInv, Shape
<1>2. rtWidth \in Widths
  BY <1>1 DEF IInv, CircuitOK
<1>3. Dim = 2^rtWidth
  BY <1>1, Amplitudes DEF Dim
<1>4. Len(circuit.ops) \in Nat /\ circuit.ops \in Seq(GatesOn(circuit.n, circuit.params))
  BY <1>1, CircuitFacts DEF IInv, CircuitOK
<1>5. \A k \in 1 .. Len(circuit.ops) : circuit.ops[k] \in GatesOn(circuit.n, circuit.params)
  BY <1>4
<1>6. \A k \in 1 .. Len(circuit.ops) :
        circuit.ops[k] \in GateOp /\ WellFormed(circuit.ops[k], rtWidth)
  BY <1>1, <1>5 DEF GatesOn
<1>7. circuit.ops \in Seq(GateOp)
  BY <1>4, <1>6
<1> QED BY <1>1, <1>2, <1>3, <1>4, <1>6, <1>7 DEF Indices

\* What a device's step leaves alone.
LEMMA DeviceFrame ==
    ASSUME Powers, SInv, IInv', DeviceWorks
    PROVE  /\ UNCHANGED <<kind, dim, host, circuit, pc, rtWidth, next, before, applied>>
           /\ host # "idle" /\ pc = "gates" /\ DOMAIN mem' = Indices(rtWidth)
           /\ \A i \in Indices(rtWidth) : mem'[i] \in Amplitude
           /\ Cells(Current)' = Cells(Current) /\ Matrix(Current)' = Matrix(Current)
<1>1. UNCHANGED <<kind, dim, host, circuit, pc, rtWidth, next, before, applied>>
  BY DEF DeviceWorks, Read, Write, building, history
<1>2. host # "idle" /\ pc = "gates"
  BY DEF DeviceWorks, SInv, IInv, KInv, Busy
<1>3. DOMAIN mem = Indices(rtWidth) /\ DOMAIN mem' = Indices(rtWidth)
  <2>1. DOMAIN mem = Indices(rtWidth)
    BY <1>2, InCall DEF SInv
  <2>2. DOMAIN mem' = DOMAIN mem
    BY DEF DeviceWorks, Read, Write
  <2> QED BY <2>1, <2>2
<1>4. \A i \in Indices(rtWidth) : mem'[i] \in Amplitude
  BY <1>3 DEF IInv, MemoryOK
<1>5. Dim' = Dim
  BY <1>1, <1>3 DEF Dim
<1>6. Cells(Current)' = Cells(Current)
  BY <1>1, <1>5 DEF Cells, Pairs, ControlledPairs, SwapPairs, Current
<1>7. Matrix(Current)' = Matrix(Current)
  BY <1>1 DEF Current
<1> QED BY <1>1, <1>2, <1>3, <1>4, <1>6, <1>7

\* An item reads the amplitudes the kernel found.
LEMMA ReadStages ==
    ASSUME Powers, SInv, IInv', DeviceWorks, NEW w \in items, Read(w)
    PROVE  Stages'
<1> DEFINE x == [k \in DOMAIN w.cells |-> mem[w.cells[k]]]
           new == [w EXCEPT !.read = x]
<1>1. /\ UNCHANGED <<kind, dim, host, circuit, pc, rtWidth, next, before, applied>>
      /\ host # "idle" /\ pc = "gates"
      /\ Cells(Current)' = Cells(Current) /\ Matrix(Current)' = Matrix(Current)
  BY DeviceFrame
<1>2. /\ items' = (items \ {w}) \cup {new} /\ mem' = mem /\ ~Sets(w)
  BY DEF Read
<1>3. IsItem(w) /\ Sound(w) /\ Len(w.do) # 1 /\ DOMAIN w.cells = 1 .. 2
  BY <1>2 DEF SInv, IInv, KInv, Independent, MemoryOK, Sets, Sound
<1>4. new.cells = w.cells /\ new.do = w.do /\ new.read = x
  BY <1>3 DEF IsItem
<1>5. x[1] = mem[w.cells[1]] /\ x[2] = mem[w.cells[2]]
  BY <1>3
<1> HIDE DEF x, new
<1>6. host = "kernel"
  <2>1. host \in {"idle", "zeroing", "seeding", "kernel"}
    BY DEF SInv, IInv, ControlOK
  <2>2. Len(<<Zero>>) = 1 /\ Len(<<One>>) = 1
    OBVIOUS
  <2> QED BY <1>1, <1>3, <2>1, <2>2 DEF SInv, Stages, Zeroed, Seeded
<1>7. AtWork
  BY <1>6 DEF SInv, Stages
<1>8. AtWork'
  <2>1. \A v \in items' :
          /\ v.cells \in Cells(Current) /\ v.do = Matrix(Current)
          /\ \A k \in 1 .. 2 : /\ mem[v.cells[k]] = before[v.cells[k]]
                               /\ v.read # <<>> => v.read[k] = before[v.cells[k]]
    <3> SUFFICES ASSUME NEW v \in items'
                 PROVE  /\ v.cells \in Cells(Current) /\ v.do = Matrix(Current)
                        /\ \A k \in 1 .. 2 : /\ mem[v.cells[k]] = before[v.cells[k]]
                                             /\ v.read # <<>> => v.read[k] = before[v.cells[k]]
      OBVIOUS
    <3>1. CASE v \in items
      BY <1>7, <3>1 DEF AtWork
    <3>2. CASE v = new
      <4>1. /\ w.cells \in Cells(Current) /\ w.do = Matrix(Current)
            /\ mem[w.cells[1]] = before[w.cells[1]] /\ mem[w.cells[2]] = before[w.cells[2]]
        BY <1>7 DEF AtWork
      <4>2. \A k \in 1 .. 2 : k = 1 \/ k = 2
        OBVIOUS
      <4> QED BY <1>4, <1>5, <3>2, <4>1, <4>2
    <3> QED BY <1>2, <3>1, <3>2
  <2>2. \A c \in Cells(Current) : \/ \E v \in items' : v.cells = c
                                  \/ AtPair(Matrix(Current), before, mem, c[1], c[2])
    BY <1>2, <1>4, <1>7 DEF AtWork
  <2> QED BY <1>1, <1>2, <1>7, <2>1, <2>2 DEF AtWork
<1> QED BY <1>1, <1>6, <1>8 DEF Stages

\* An item's write: its cells change, and no others.
LEMMA WriteCells ==
    ASSUME SInv, NEW w \in items, Write(w)
    PROVE  /\ items' = items \ {w} /\ (Sets(w) \/ w.read # <<>>)
           /\ mem' = [i \in DOMAIN mem |-> mem'[i]]
           /\ \A i \in DOMAIN mem : (\A k \in DOMAIN w.cells : w.cells[k] # i) => mem'[i] = mem[i]
           /\ \A k \in DOMAIN w.cells :
                 (\A l \in DOMAIN w.cells : w.cells[l] = w.cells[k] => l = k) =>
                    mem'[w.cells[k]] = Written(w)[k]
<1>1. /\ Sets(w) \/ w.read # <<>>
      /\ items' = items \ {w}
      /\ mem' = [i \in DOMAIN mem |->
                   IF \E k \in DOMAIN w.cells : w.cells[k] = i
                   THEN Written(w)[CHOOSE k \in DOMAIN w.cells : w.cells[k] = i]
                   ELSE mem[i]]
  BY DEF Write
<1>2. \A k \in DOMAIN w.cells : w.cells[k] \in DOMAIN mem
  BY DEF SInv, IInv, KInv, Independent
<1>3. ASSUME NEW k \in DOMAIN w.cells, \A l \in DOMAIN w.cells : w.cells[l] = w.cells[k] => l = k
      PROVE  mem'[w.cells[k]] = Written(w)[k]
  <2> DEFINE at == CHOOSE l \in DOMAIN w.cells : w.cells[l] = w.cells[k]
  <2>1. mem'[w.cells[k]] = Written(w)[at]
    BY <1>1, <1>2
  <2>2. at = k
    BY <1>3
  <2> QED BY <2>1, <2>2
<1>4. mem' = [i \in DOMAIN mem |-> mem'[i]]
  BY <1>1
<1>5. \A i \in DOMAIN mem : (\A k \in DOMAIN w.cells : w.cells[k] # i) => mem'[i] = mem[i]
  BY <1>1
<1> QED BY <1>1, <1>3, <1>4, <1>5

\* An item writes what its cells are to be, whatever the others have done.
LEMMA WriteStages ==
    ASSUME Powers, SInv, IInv', DeviceWorks, NEW w \in items, Write(w)
    PROVE  Stages'
<1>1. /\ UNCHANGED <<kind, dim, host, circuit, pc, rtWidth, next, before, applied>>
      /\ host # "idle" /\ pc = "gates" /\ DOMAIN mem' = Indices(rtWidth)
      /\ \A i \in Indices(rtWidth) : mem'[i] \in Amplitude
      /\ Cells(Current)' = Cells(Current) /\ Matrix(Current)' = Matrix(Current)
  BY DeviceFrame
<1>2. /\ DOMAIN mem = Indices(rtWidth) /\ Dim = 2^rtWidth /\ rtWidth \in Nat
      /\ \A k \in 1 .. Len(circuit.ops) :
            circuit.ops[k] \in GateOp /\ WellFormed(circuit.ops[k], rtWidth)
  BY <1>1, InCall DEF SInv
<1>3. /\ items' = items \ {w} /\ (Sets(w) \/ w.read # <<>>)
      /\ mem' = [i \in Indices(rtWidth) |-> mem'[i]]
      /\ \A i \in Indices(rtWidth) :
            (\A k \in DOMAIN w.cells : w.cells[k] # i) => mem'[i] = mem[i]
      /\ \A k \in DOMAIN w.cells :
            (\A l \in DOMAIN w.cells : w.cells[l] = w.cells[k] => l = k) =>
               mem'[w.cells[k]] = Written(w)[k]
  BY <1>2, WriteCells
<1>4. /\ IsItem(w) /\ Sound(w)
      /\ \A v \in items : v = w \/ Apart(v.cells, w.cells)
      /\ \A k \in DOMAIN w.cells : w.cells[k] \in Indices(rtWidth)
  BY <1>2 DEF SInv, IInv, KInv, Independent, MemoryOK
<1>5. IsState(mem', rtWidth)
  BY <1>1, <1>3 DEF IsState
<1>6. host \in {"idle", "zeroing", "seeding", "kernel"}
  BY DEF SInv, IInv, ControlOK
<1>7. \A x : Len(<<x>>) = 1 /\ <<x>>[1] = x
  OBVIOUS
<1>8. CASE host = "zeroing"
  <2>1. Zeroed /\ w.do = <<Zero>>
    BY <1>8 DEF SInv, Stages, Zeroed
  <2>2. DOMAIN w.cells = 1 .. 1 /\ Written(w) = <<Zero>>
    BY <1>4, <1>7, <2>1 DEF Sound, IsMatrix, Written, Sets
  <2>3. mem'[w.cells[1]] = Zero
    BY <1>3, <1>7, <2>2
  <2>4. ASSUME NEW i \in Indices(rtWidth)
        PROVE  mem'[i] = Zero \/ \E v \in items' : v.cells = <<i>>
    <3>1. CASE w.cells[1] = i
      BY <2>3, <3>1
    <3>2. CASE w.cells[1] # i
      <4>1. mem'[i] = mem[i]
        BY <1>3, <2>2, <3>2
      <4>2. mem[i] = Zero \/ \E v \in items : v.cells = <<i>>
        BY <2>1 DEF Zeroed
      <4>3. ASSUME NEW v \in items, v.cells = <<i>> PROVE v \in items'
        BY <1>3, <1>7, <3>2, <4>3
      <4> QED BY <4>1, <4>2, <4>3
    <3> QED BY <3>1, <3>2
  <2>5. Zeroed'
    BY <1>1, <1>3, <1>5, <2>1, <2>4 DEF Zeroed
  <2> QED BY <1>1, <1>8, <2>5 DEF Stages
<1>9. CASE host = "seeding"
  <2>1. Seeded /\ w.do = <<One>> /\ w.cells = <<0>>
    BY <1>9 DEF SInv, Stages, Seeded
  <2>2. DOMAIN w.cells = 1 .. 1 /\ Written(w) = <<One>> /\ w.cells[1] = 0
    BY <1>4, <1>7, <2>1 DEF Sound, IsMatrix, Written, Sets
  <2>3. mem'[0] = One
    BY <1>3, <1>7, <2>2
  <2>4. \A i \in Indices(rtWidth) : i # 0 => mem'[i] = Zero
    BY <1>3, <2>1, <2>2 DEF Seeded
  <2>5. Seeded'
    BY <1>1, <1>3, <1>5, <2>1, <2>3, <2>4 DEF Seeded
  <2> QED BY <1>1, <1>9, <2>5 DEF Stages
<1>10. CASE host = "kernel"
  <2> DEFINE m == Matrix(Current)
             C == Cells(Current)
  <2>1. AtWork
    BY <1>10 DEF SInv, Stages
  <2>2. Current \in GateOp /\ WellFormed(Current, rtWidth)
    BY <1>2, <2>1 DEF AtWork, Current
  <2>3. /\ \A c \in C : c = <<c[1], c[2]>> /\ c[1] # c[2]
                        /\ c[1] \in Indices(rtWidth) /\ c[2] \in Indices(rtWidth)
        /\ \A c, d \in C : c = d \/ Apart(c, d)
    BY <1>2, <2>2, CellsDiffer, GateCells
  <2>4. IsMatrix(m)
    BY <2>2, MatrixType
  <2>5. w.cells \in C /\ w.do = m /\ DOMAIN w.cells = 1 .. 2 /\ w.cells[1] # w.cells[2]
    <3>1. w.cells \in C /\ w.do = m
      BY <2>1 DEF AtWork
    <3>2. \A x, y : DOMAIN <<x, y>> = 1 .. 2
      OBVIOUS
    <3> QED BY <2>3, <3>1, <3>2
  <2>6. w.read[1] = before[w.cells[1]] /\ w.read[2] = before[w.cells[2]] /\ ~Sets(w)
    <3>1. ~Sets(w)
      BY <2>4, <2>5 DEF Sets, IsMatrix
    <3>2. w.read # <<>>
      BY <1>3, <3>1
    <3> QED BY <2>1, <3>1, <3>2 DEF AtWork
  <2>7. AtPair(m, before, mem', w.cells[1], w.cells[2])
    <3>1. /\ mem'[w.cells[1]] = Written(w)[1] /\ mem'[w.cells[2]] = Written(w)[2]
      BY <1>3, <2>5
    <3>2. Written(w) = <<Plus(Times(m[1], before[w.cells[1]]), Times(m[2], before[w.cells[2]])),
                         Plus(Times(m[3], before[w.cells[1]]), Times(m[4], before[w.cells[2]]))>>
      BY <2>5, <2>6 DEF Written
    <3> HIDE DEF m
    <3> QED BY <3>1, <3>2 DEF AtPair
  <2>8. ASSUME NEW c \in C, c # w.cells
        PROVE  mem'[c[1]] = mem[c[1]] /\ mem'[c[2]] = mem[c[2]]
    <3>1. Apart(c, w.cells) /\ c = <<c[1], c[2]>>
          /\ c[1] \in Indices(rtWidth) /\ c[2] \in Indices(rtWidth)
      BY <2>3, <2>5, <2>8
    <3>2. DOMAIN c = 1 .. 2
      BY <3>1
    <3> HIDE DEF C
    <3>3. \A k \in DOMAIN w.cells : w.cells[k] # c[1] /\ w.cells[k] # c[2]
      BY <3>1, <3>2 DEF Apart
    <3> QED BY <1>3, <3>1, <3>3
  <2> HIDE DEF m, C
  <2>9. ASSUME NEW v \in items'
        PROVE  /\ v.cells \in C /\ v.do = m
               /\ \A k \in 1 .. 2 : /\ mem'[v.cells[k]] = before[v.cells[k]]
                                    /\ v.read # <<>> => v.read[k] = before[v.cells[k]]
    <3>1. v \in items /\ v # w
      BY <1>3
    <3>2. /\ v.cells \in C /\ v.do = m
          /\ \A k \in 1 .. 2 : /\ mem[v.cells[k]] = before[v.cells[k]]
                               /\ v.read # <<>> => v.read[k] = before[v.cells[k]]
      BY <2>1, <3>1 DEF AtWork, m, C
    <3>3. v.cells # w.cells
      <4>1. Apart(v.cells, w.cells)
        BY <1>4, <3>1
      <4> QED BY <2>5, <4>1 DEF Apart
    <3>4. mem'[v.cells[1]] = mem[v.cells[1]] /\ mem'[v.cells[2]] = mem[v.cells[2]]
      BY <2>8, <3>2, <3>3
    <3>5. \A k \in 1 .. 2 : k = 1 \/ k = 2
      OBVIOUS
    <3> QED BY <3>2, <3>4, <3>5
  <2>10. ASSUME NEW c \in C
         PROVE  (\E v \in items' : v.cells = c) \/ AtPair(m, before, mem', c[1], c[2])
    <3>1. CASE c = w.cells
      BY <2>7, <3>1
    <3>2. CASE c # w.cells
      <4>1. (\E v \in items : v.cells = c) \/ AtPair(m, before, mem, c[1], c[2])
        BY <2>1 DEF AtWork, m, C
      <4>2. CASE \E v \in items : v.cells = c
        BY <1>3, <3>2, <4>2
      <4>3. CASE AtPair(m, before, mem, c[1], c[2])
        BY <2>8, <3>2, <4>3 DEF AtPair
      <4> QED BY <4>1, <4>2, <4>3
    <3> QED BY <3>1, <3>2
  <2>11. ASSUME NEW j \in Indices(rtWidth), \A c \in C : j # c[1] /\ j # c[2]
         PROVE  mem'[j] = before[j]
    <3>1. mem[j] = before[j]
      BY <2>1, <2>11 DEF AtWork, C
    <3>2. \A k \in DOMAIN w.cells : w.cells[k] # j
      <4>1. j # w.cells[1] /\ j # w.cells[2]
        BY <2>5, <2>11
      <4> QED BY <2>5, <4>1
    <3> QED BY <1>3, <3>1, <3>2
  <2>12. AtWork'
    BY <1>1, <1>5, <2>1, <2>9, <2>10, <2>11 DEF AtWork, m, C
  <2> QED BY <1>1, <1>10, <2>12 DEF Stages
<1> QED BY <1>1, <1>6, <1>8, <1>9, <1>10

\* The gates up to the k-th, one after those before it.
LEMMA NoGates ==
    ASSUME NEW s \in Seq(GateOp)
    PROVE  /\ SubSeq(s, 1, 0) = <<>>
           /\ \A k \in 1 .. Len(s) : SubSeq(s, 1, k) = Append(SubSeq(s, 1, k - 1), s[k])
                                     /\ Len(SubSeq(s, 1, k)) = k
<1>1. SubSeq(s, 1, 0) = <<>>
  OBVIOUS
<1>2. ASSUME NEW k \in 1 .. Len(s)
      PROVE  SubSeq(s, 1, k) = Append(SubSeq(s, 1, k - 1), s[k]) /\ Len(SubSeq(s, 1, k)) = k
  OBVIOUS
<1> QED BY <1>1, <1>2

\* A wait returns when every item is done: with |0...0>, or with the gate applied.
LEMMA HostStages ==
    ASSUME Powers, SInv, HostWaits
    PROVE  /\ Stages'
           /\ Wait => UNCHANGED <<mem, rtWidth>>
           /\ Wait /\ host = "seeding" =>
                mem = Promised!Ket(0, rtWidth) /\ applied = <<>> /\ applied' = <<>>
           /\ Wait /\ host = "kernel" =>
                /\ mem = Promised!Act(Current, before)
                /\ applied' = Append(applied, Current) /\ applied \in Seq(GateOp)
<1>1. /\ UNCHANGED <<kind, mem, dim, circuit, pc, rtWidth, next>>
      /\ host # "idle" /\ pc = "gates"
  BY DEF HostWaits, Seed, Wait, building, SInv, IInv, KInv, Busy
<1>2. /\ rtWidth \in Nat /\ DOMAIN mem = Indices(rtWidth) /\ Dim = 2^rtWidth
      /\ circuit.ops \in Seq(GateOp) /\ Len(circuit.ops) \in Nat
      /\ \A k \in 1 .. Len(circuit.ops) :
            circuit.ops[k] \in GateOp /\ WellFormed(circuit.ops[k], rtWidth)
  BY <1>1, InCall DEF SInv
<1>3. CASE Seed
  <2>1. /\ host = "zeroing" /\ items = {} /\ items' = {Item(<<0>>, <<One>>)}
        /\ host' = "seeding" /\ applied' = applied
    BY <1>3, <1>1 DEF HostWaits, Seed, Wait, history
  <2>2. Zeroed
    BY <2>1 DEF SInv, Stages
  <2>3. \A i \in Indices(rtWidth) : mem[i] = Zero
    BY <2>1, <2>2 DEF Zeroed
  <2>4. \A w \in items' : w.do = <<One>> /\ w.cells = <<0>>
    BY <2>1 DEF Item
  <2>5. Seeded'
    BY <1>1, <2>1, <2>2, <2>3, <2>4 DEF Zeroed, Seeded
  <2> QED BY <2>1, <2>5 DEF Stages, Wait
<1>4. CASE Wait /\ host = "seeding"
  <2>1. items = {} /\ host' = "idle" /\ applied' = applied
    BY <1>4 DEF HostWaits, Seed, Wait, history
  <2>2. Seeded
    BY <1>4 DEF SInv, Stages
  <2>3. mem = Promised!Ket(0, rtWidth)
    <3>1. mem = [i \in Indices(rtWidth) |-> mem[i]]
      BY <2>2 DEF Seeded, IsState
    <3>2. \A i \in Indices(rtWidth) : mem[i] = IF i = 0 THEN One ELSE Zero
      BY <2>1, <2>2 DEF Seeded
    <3>3. Promised!Ket(0, rtWidth) = [i \in Indices(rtWidth) |-> IF i = 0 THEN One ELSE Zero]
      BY SameArithmetic DEF Promised!Ket, Promised!Basis, Indices
    <3> QED BY <3>1, <3>2, <3>3
  <2>4. applied = <<>> /\ next = 0
    BY <2>2 DEF Seeded
  <2>5. Between'
    BY <1>1, <1>2, <2>1, <2>2, <2>4, NoGates DEF Between, Seeded
  <2> QED BY <1>1, <1>4, <2>1, <2>3, <2>4, <2>5 DEF Stages
<1>5. CASE Wait /\ host = "kernel"
  <2>1. /\ items = {} /\ host' = "idle" /\ applied' = SubSeq(circuit.ops, 1, next)
    BY <1>5 DEF HostWaits, Seed, Wait
  <2>2. AtWork
    BY <1>5 DEF SInv, Stages
  <2>3. Current \in GateOp /\ WellFormed(Current, rtWidth)
    BY <1>2, <2>2 DEF AtWork, Current
  <2>4. mem = Promised!Act(Current, before)
    <3>1. Computes(Cells(Current), Matrix(Current), before, Promised!Act(Current, before), rtWidth)
      BY <1>2, <2>2, <2>3, GateKernel DEF AtWork
    <3>2. mem = [j \in Indices(rtWidth) |-> mem[j]]
      BY <2>2 DEF AtWork, IsState
    <3>3. Computes(Cells(Current), Matrix(Current), before, mem, rtWidth)
      BY <2>1, <2>2, <3>2 DEF AtWork, Computes
    <3> QED BY <3>1, <3>3, OneOutcome
  <2>5. applied = SubSeq(circuit.ops, 1, next - 1) /\ next \in 1 .. Len(circuit.ops)
    BY <2>2 DEF AtWork
  <2>6. applied' = Append(applied, Current) /\ applied \in Seq(GateOp)
    <3>1. applied' = Append(applied, Current)
      BY <1>2, <2>1, <2>5, NoGates DEF Current
    <3>2. SubSeq(circuit.ops, 1, next - 1) \in Seq(GateOp)
      BY <1>2, <2>5
    <3> QED BY <2>5, <3>1, <3>2
  <2>7. Between'
    BY <1>1, <2>1, <2>2 DEF Between, AtWork
  <2> QED BY <1>1, <1>5, <2>1, <2>4, <2>6, <2>7 DEF Stages
<1> QED BY <1>3, <1>4, <1>5 DEF HostWaits, Wait

\* A kernel starts from the state there is.
LEMMA SubmitsStages ==
    ASSUME Powers, SInv, SubmitsGate
    PROVE  /\ Stages' /\ UNCHANGED <<mem, applied>>
           /\ host = "idle" /\ host' = "kernel" /\ before' = mem
<1> DEFINE g == circuit.ops[next + 1]
<1>1. /\ pc = "gates" /\ next < Len(circuit.ops) /\ next' = next + 1 /\ before' = mem
      /\ items = {} /\ items' = {Item(cells, Matrix(g)) : cells \in Cells(g)}
      /\ host = "idle" /\ host' = "kernel"
      /\ UNCHANGED <<kind, mem, width, dim, circuit, pc, rtWidth, applied>>
  BY DEF SubmitsGate, SubmitKernel, building, SInv, IInv, KInv, Busy
<1>2. Between /\ DOMAIN mem = Indices(rtWidth)
  BY <1>1, InCall DEF SInv, Stages
<1>3. next' \in 1 .. Len(circuit.ops) /\ next' - 1 = next
  BY <1>1 DEF SInv, IInv, ControlOK
<1>4. Current' = g
  BY <1>1 DEF Current
<1>5. Dim' = Dim
  BY <1>1 DEF Dim
<1>6. Cells(Current)' = Cells(g)
  BY <1>1, <1>5 DEF Cells, Pairs, ControlledPairs, SwapPairs, Current
<1>7. Matrix(Current)' = Matrix(g)
  BY <1>4
<1> HIDE DEF g
<1>8. ASSUME NEW w \in items'
      PROVE  w.cells \in Cells(g) /\ w.do = Matrix(g) /\ w.read = <<>>
  BY <1>1 DEF Item
<1>9. ASSUME NEW c \in Cells(g) PROVE \E w \in items' : w.cells = c
  <2>1. Item(c, Matrix(g)) \in items' /\ Item(c, Matrix(g)).cells = c
    BY <1>1 DEF Item
  <2> QED BY <2>1
<1>10. AtWork'
  BY <1>1, <1>2, <1>3, <1>6, <1>7, <1>8, <1>9 DEF AtWork, Between
<1> QED BY <1>1, <1>10 DEF Stages

\* The CPU's initialize() is done at once; the GPU's drops the state first.
LEMMA InitializesStages ==
    ASSUME Powers, SInv, Initializes
    PROVE  /\ Stages' /\ host = "idle" /\ applied' = <<>>
           /\ \/ host' = "idle" /\ mem' = Promised!Ket(0, rtWidth) /\ rtWidth \in Widths
              \/ host' = "zeroing"
<1>1. /\ pc = "initialize" /\ host = "idle" /\ items = {} /\ applied' = <<>> /\ next' = 0
      /\ UNCHANGED <<circuit, rtWidth>> /\ rtWidth = circuit.n /\ rtWidth \in Nat
  BY DEF Initializes, building, SInv, IInv, KInv, Busy, Shape
<1>2. rtWidth \in Widths /\ circuit.ops \in Seq(GatesOn(circuit.n, circuit.params))
  BY <1>1, CircuitFacts DEF SInv, IInv, CircuitOK
<1>3. SubSeq(circuit.ops, 1, 0) = <<>>
  BY <1>2
<1>4. Zero \in Amplitude /\ One \in Amplitude /\ Garbage \in Amplitude
  BY ConstantsType
<1>5. CASE InitializeCPU(rtWidth)
  <2>1. /\ host' = "idle"
        /\ mem' = [i \in Indices(rtWidth) |-> IF i = 0 THEN One ELSE Zero]
    BY <1>1, <1>5 DEF InitializeCPU, Indices
  <2>2. mem' = Promised!Ket(0, rtWidth)
    BY <2>1, SameArithmetic DEF Promised!Ket, Promised!Basis, Indices
  <2>3. IsState(mem', rtWidth)
    BY <1>4, <2>1 DEF IsState
  <2>4. Between'
    BY <1>1, <1>3, <2>3 DEF Between
  <2> QED BY <1>1, <1>2, <2>1, <2>2, <2>4 DEF Stages
<1>6. CASE InitializeGPU(rtWidth)
  <2>1. /\ host' = "zeroing" /\ mem' = [i \in Indices(rtWidth) |-> Garbage]
        /\ items' = {Item(<<i>>, <<Zero>>) : i \in Indices(rtWidth)}
    BY <1>6 DEF InitializeGPU, Indices
  <2>2. IsState(mem', rtWidth)
    BY <1>4, <2>1 DEF IsState
  <2>3. \A w \in items' : w.do = <<Zero>>
    BY <2>1 DEF Item
  <2>4. ASSUME NEW i \in Indices(rtWidth) PROVE \E w \in items' : w.cells = <<i>>
    <3>1. Item(<<i>>, <<Zero>>) \in items' /\ Item(<<i>>, <<Zero>>).cells = <<i>>
      BY <2>1 DEF Item
    <3> QED BY <3>1
  <2>5. Zeroed'
    BY <1>1, <2>2, <2>3, <2>4 DEF Zeroed
  <2> QED BY <1>1, <2>1, <2>5 DEF Stages
<1> QED BY <1>5, <1>6 DEF Initializes

\* A caller that builds or reads; an initialize() that fails may lose the memory.
LEMMA OthersStages ==
    ASSUME SInv,
           \/ AddsGate \/ Measures \/ AllocatesParameter \/ CallsLibrary \/ Binds
           \/ NextCircuit \/ Run \/ InitializeFails \/ RunReturns
           \/ ReadsState \/ SamplesOnce \/ TakesExpectation \/ TakesAnswer
           \/ UNCHANGED vars
    PROVE  /\ Stages'
           /\ \/ UNCHANGED <<host, mem, before, applied>>
              \/ host = "idle" /\ host' = "idle" /\ mem' = <<>> /\ applied' = <<>>
<1>1. CASE AddsGate \/ Measures \/ AllocatesParameter \/ CallsLibrary \/ Binds
  <2>1. \E c, throws, made : Built(c, throws, made)
    BY <1>1 DEF AddsGate, Measures, AllocatesParameter, CallsLibrary, Binds
  <2>2. pc = "build" /\ UNCHANGED <<mem, host, pc, before, applied>>
    BY <2>1 DEF Built, backend, history
  <2> QED BY <2>2 DEF SInv, IInv, KInv, Busy, Stages
<1>2. CASE NextCircuit \/ Run \/ RunReturns
  <2>1. /\ pc # "gates" \/ host = "idle"
        /\ pc' \in {"build", "threw", "initialize", "ran"}
        /\ UNCHANGED <<mem, host, before, applied>>
    BY <1>2 DEF NextCircuit, Run, RunReturns, backend, history
  <2> QED BY <2>1 DEF SInv, IInv, KInv, Busy, Stages
<1>3. CASE InitializeFails
  <2>1. /\ host = "idle" /\ host' = "idle" /\ pc' = "threw"
        /\ \/ UNCHANGED <<mem, before, applied>>
           \/ mem' = <<>> /\ applied' = <<>>
    BY <1>3 DEF InitializeFails, InitializeCPUFails, InitializeGPUFails, backend, history
  <2> QED BY <2>1 DEF Stages
<1>4. CASE ReadsState \/ SamplesOnce \/ TakesExpectation \/ TakesAnswer
  <2>1. pc \in {"ran", "threw"} /\ \E what, value : Given(what, value)
    BY <1>4 DEF ReadsState, SamplesOnce, TakesExpectation, TakesAnswer
  <2>2. pc' = "read" /\ UNCHANGED <<mem, host, before, applied>>
    BY <2>1 DEF Given, backend, history
  <2> QED BY <2>1, <2>2 DEF SInv, IInv, KInv, Busy, Stages
<1>5. CASE UNCHANGED vars
  <2>1. UNCHANGED <<kind, mem, dim, items, host, circuit, pc, rtWidth, next, before, applied>>
    BY <1>5 DEF vars
  <2>2. Dim' = Dim /\ Current' = Current
    BY <2>1 DEF Dim, Current
  <2>3. Cells(Current)' = Cells(Current) /\ Matrix(Current)' = Matrix(Current)
    BY <2>1, <2>2 DEF Cells, Pairs, ControlledPairs, SwapPairs, Current
  <2> QED BY <2>1, <2>3 DEF SInv, Stages, AtWork, Zeroed, Seeded, Between
<1> QED BY <1>1, <1>2, <1>3, <1>4, <1>5

-----------------------------------------------------------------------------
(* The results *)

LEMMA StepIInv == ASSUME Powers, IInv, [Next]_vars PROVE IInv'
<1>1. KInv'
  BY IInvTypes, Step DEF IInv
<1>2. CircuitOK' /\ ControlOK' /\ MemoryOK'
  <2>1. CASE AddsGate \/ Measures \/ AllocatesParameter \/ Binds
    BY <2>1, CallsBuilder, BuiltKeeps
  <2>2. CASE CallsLibrary
    BY <2>2, CallsAnsatz, BuiltKeeps
  <2>3. CASE NextCircuit \/ Run \/ RunReturns
    BY <2>3, ControlKeeps
  <2>4. CASE Initializes \/ InitializeFails
    BY <2>4, InitializesTypes
  <2>5. CASE SubmitsGate
    BY <2>5, SubmitsTypes
  <2>6. CASE HostWaits
    BY <2>6, HostTypes
  <2>7. CASE DeviceWorks
    BY <2>7, DeviceTypes
  <2>8. CASE ReadsState \/ SamplesOnce \/ TakesExpectation \/ TakesAnswer
    BY <2>8, ReadingTypes
  <2>9. CASE UNCHANGED vars
    BY <2>9 DEF vars, IInv, CircuitOK, ControlOK, MemoryOK
  <2> QED BY <2>1, <2>2, <2>3, <2>4, <2>5, <2>6, <2>7, <2>8, <2>9 DEF Next
<1> QED BY <1>1, <1>2 DEF IInv

\* Whatever calls of the builder and of the ansatz library made a circuit, for any
\* number of qubits, layers, edges and repetitions, its gates are well-formed; the
\* state has the amplitudes its width says, and each work item what it needs.
THEOREM TypeCorrect ==
    ASSUME Doubling
    PROVE  Spec => []TypeOK
<1>p. Powers
  BY PowersDivide
<1>1. Init => IInv
  BY InitIInv
<1>2. IInv /\ [Next]_vars => IInv'
  BY <1>p, StepIInv
<1>3. IInv => TypeOK
  BY IInvTypes
<1> QED BY <1>1, <1>2, <1>3, PTL DEF Spec

\* However wide the circuit, the work items of a kernel in progress never touch
\* an amplitude of another's nor leave the state: the device may run them in any
\* order, or at the same time.
THEOREM ItemsAreIndependent ==
    ASSUME Doubling
    PROVE  Spec => []WorkItemsIndependent
<1>p. Powers
  BY PowersDivide
<1>1. Init => IInv
  BY InitIInv
<1>2. IInv /\ [Next]_vars => IInv'
  BY <1>p, StepIInv
<1>3. IInv => WorkItemsIndependent
  BY DEF IInv, KInv, Busy, Independent, Apart, WorkItemsIndependent
<1> QED BY <1>1, <1>2, <1>3, PTL DEF Spec

-----------------------------------------------------------------------------
(* The refinement *)

LEMMA InitSInv == ASSUME Init PROVE SInv /\ Promised!Init
<1>1. host = "idle" /\ pc = "build" /\ mem = <<>> /\ applied = <<>>
  BY DEF Init, BackendInit
<1>2. Promised!Init
  BY <1>1 DEF Promised!Init
<1> QED BY <1>1, <1>2, InitIInv DEF SInv, Stages

\* A state is not the empty function.
LEMMA NotNothing ==
    ASSUME Powers, NEW n \in Nat, NEW s, IsState(s, n)
    PROVE  s # <<>>
<1>1. 0 \in Indices(n)
  BY DEF Powers, Indices
<1> QED BY <1>1 DEF IsState

\* The state as the caller of the backend sees it.
State == IF host = "kernel" THEN before ELSE IF host = "idle" THEN mem ELSE <<>>

\* Every step is one of Simulator's, or none.
LEMMA Refines ==
    ASSUME Powers, SInv, [Next]_vars
    PROVE  SInv' /\ [Promised!Next]_Promised!vars
<1>1. IInv'
  BY StepIInv DEF SInv
<1>2. ASSUME State' = State, applied' = applied PROVE [Promised!Next]_Promised!vars
  BY <1>2 DEF Promised!vars, State
<1>3. ASSUME State' = <<>>, applied' = <<>> PROVE [Promised!Next]_Promised!vars
  BY <1>3 DEF Promised!Next, Promised!Lose, State
<1>4. ASSUME NEW n \in Widths, State' = Promised!Ket(0, n), applied' = <<>>
      PROVE  [Promised!Next]_Promised!vars
  BY <1>4 DEF Promised!Next, Promised!Initialize, State
<1>5. ASSUME NEW g, State # <<>>, applied \in Seq(GateOp), g \in GateOp,
             applied' = Append(applied, g), State' = Promised!Act(g, State)
      PROVE  [Promised!Next]_Promised!vars
  <2>1. Len(applied') = Len(applied) + 1 /\ applied'[Len(applied')] = g
    BY <1>5
  <2> QED BY <1>5, <2>1 DEF Promised!Next, Promised!ApplyGate, State
<1>6. CASE DeviceWorks
  <2>1. PICK w \in items : Read(w) \/ Write(w)
    BY <1>6 DEF DeviceWorks
  <2>2. Stages'
    BY <1>1, <1>6, <2>1, ReadStages, WriteStages
  <2>3. UNCHANGED <<host, before, applied>> /\ host # "idle"
    BY <1>1, <1>6, DeviceFrame
  <2>4. State' = State
    BY <2>3 DEF State
  <2> QED BY <1>1, <1>2, <2>2, <2>3, <2>4 DEF SInv
<1>7. CASE HostWaits
  <2>1. Stages'
    BY <1>7, HostStages
  <2>2. CASE Seed
    <3>1. host = "zeroing" /\ host' = "seeding" /\ applied' = applied
      BY <1>7, <2>2 DEF HostWaits, Seed, Wait, history
    <3>2. State' = State
      BY <3>1 DEF State
    <3> QED BY <1>1, <1>2, <2>1, <3>1, <3>2 DEF SInv
  <2>3. CASE Wait /\ host = "seeding"
    <3>1. /\ mem' = mem /\ mem = Promised!Ket(0, rtWidth) /\ applied' = <<>>
          /\ host' = "idle" /\ pc = "gates"
      BY <1>7, <2>3, HostStages DEF Wait, SInv, IInv, KInv, Busy
    <3>2. rtWidth \in Widths
      BY <3>1, InCall DEF SInv
    <3>3. State' = Promised!Ket(0, rtWidth)
      BY <3>1 DEF State
    <3> QED BY <1>1, <1>4, <2>1, <3>1, <3>2, <3>3 DEF SInv
  <2>4. CASE Wait /\ host = "kernel"
    <3>1. /\ mem' = mem /\ mem = Promised!Act(Current, before)
          /\ applied' = Append(applied, Current) /\ applied \in Seq(GateOp)
          /\ host' = "idle" /\ pc = "gates"
      BY <1>7, <2>4, HostStages DEF Wait, SInv, IInv, KInv, Busy
    <3>2. AtWork
      BY <2>4 DEF SInv, Stages
    <3>3. Current \in GateOp /\ rtWidth \in Nat
      BY <3>1, <3>2, InCall DEF SInv, AtWork, Current
    <3>4. State = before /\ State' = mem
      BY <2>4, <3>1 DEF State
    <3>5. before # <<>>
      BY <3>2, <3>3, NotNothing DEF AtWork
    <3> QED BY <1>1, <1>5, <2>1, <3>1, <3>3, <3>4, <3>5 DEF SInv
  <2> QED BY <1>7, <2>2, <2>3, <2>4 DEF HostWaits, Wait
<1>8. CASE SubmitsGate
  <2>1. /\ Stages' /\ UNCHANGED <<mem, applied>> /\ host = "idle" /\ host' = "kernel"
        /\ before' = mem
    BY <1>8, SubmitsStages
  <2>2. State' = State
    BY <2>1 DEF State
  <2> QED BY <1>1, <1>2, <2>1, <2>2 DEF SInv
<1>9. CASE Initializes
  <2>1. /\ Stages' /\ host = "idle" /\ applied' = <<>>
        /\ \/ host' = "idle" /\ mem' = Promised!Ket(0, rtWidth) /\ rtWidth \in Widths
           \/ host' = "zeroing"
    BY <1>9, InitializesStages
  <2>2. CASE host' = "zeroing"
    <3>1. State' = <<>>
      BY <2>2 DEF State
    <3> QED BY <1>1, <1>3, <2>1, <3>1 DEF SInv
  <2>3. CASE host' = "idle" /\ mem' = Promised!Ket(0, rtWidth) /\ rtWidth \in Widths
    <3>1. State' = Promised!Ket(0, rtWidth)
      BY <2>3 DEF State
    <3> QED BY <1>1, <1>4, <2>1, <2>3, <3>1 DEF SInv
  <2> QED BY <2>1, <2>2, <2>3
<1>10. CASE \/ AddsGate \/ Measures \/ AllocatesParameter \/ CallsLibrary \/ Binds
            \/ NextCircuit \/ Run \/ InitializeFails \/ RunReturns
            \/ ReadsState \/ SamplesOnce \/ TakesExpectation \/ TakesAnswer
            \/ UNCHANGED vars
  <2>1. /\ Stages'
        /\ \/ UNCHANGED <<host, mem, before, applied>>
           \/ host = "idle" /\ host' = "idle" /\ mem' = <<>> /\ applied' = <<>>
    BY <1>10, OthersStages
  <2>2. CASE UNCHANGED <<host, mem, before, applied>>
    <3>1. State' = State
      BY <2>2 DEF State
    <3> QED BY <1>1, <1>2, <2>1, <2>2, <3>1 DEF SInv
  <2>3. CASE host' = "idle" /\ mem' = <<>> /\ applied' = <<>>
    <3>1. State' = <<>>
      BY <2>3 DEF State
    <3> QED BY <1>1, <1>3, <2>1, <2>3, <3>1 DEF SInv
  <2> QED BY <2>1, <2>2, <2>3
<1> QED BY <1>6, <1>7, <1>8, <1>9, <1>10 DEF Next

\* For circuits of every width, on either device, and however the work items of a
\* kernel interleave: a call of initialize() leaves |0...0>, and one of apply_gate()
\* the textbook definition of its gate applied to the state before, in one step as
\* the caller sees it; an initialize() that fails may lose the state, and nothing
\* else ever touches it.
THEOREM KernelsImplementGates ==
    ASSUME Doubling
    PROVE  Spec => ImplementsSimulator
<1>p. Powers
  BY PowersDivide
<1>1. Init => SInv /\ Promised!Init
  BY InitSInv
<1>2. SInv /\ [Next]_vars => SInv' /\ [Promised!Next]_Promised!vars
  BY <1>p, Refines
<1> QED BY <1>1, <1>2, PTL DEF Spec, ImplementsSimulator, Promised!Spec

-----------------------------------------------------------------------------
(* The gates of a circuit, one after the other *)

\* Comparing a state with the empty function changes nothing.
LEMMA ComputedIs ==
    ASSUME NEW s, s # <<>>
    PROVE  Computed(s) = s
BY DEF Computed

\* Setting a bit of an index, to 0 or to 1.
LEMMA BitSet ==
    ASSUME Powers, NEW n \in Nat, NEW q \in 0 .. n - 1, NEW j \in Indices(n), NEW b \in {0, 1}
    PROVE  LET k == Promised!WithBit(j, q, b) IN
           /\ k \in Indices(n) /\ k \in Nat /\ BitOf(k, q) = b
           /\ \A c \in Nat \ {q} : BitOf(k, c) = BitOf(j, c)
           /\ BitOf(j, q) = b => k = j
<1>1. q \in Nat /\ q < n /\ j \in Nat /\ j < 2^n /\ 2^q \in Nat /\ 2^n \in Nat
  BY DEF Powers, Indices
<1>2. Promised!Bit(j, q) = BitOf(j, q) /\ BitOf(j, q) \in {0, 1}
  BY <1>1, BitIsOne
<1>3. Promised!WithBit(j, q, b) = j + (b - BitOf(j, q)) * 2^q
  BY <1>2 DEF Promised!WithBit
<1>4. CASE BitOf(j, q) = b
  <2>1. Promised!WithBit(j, q, b) = j
    BY <1>1, <1>2, <1>3, <1>4
  <2> QED BY <1>1, <1>4, <2>1
<1>5. CASE BitOf(j, q) = 0 /\ b = 1
  <2>1. Promised!WithBit(j, q, b) = j + 2^q
    BY <1>1, <1>3, <1>5
  <2>2. /\ j + 2^q \in Nat /\ BitOf(j + 2^q, q) = 1 /\ j + 2^q < 2^n
        /\ \A c \in Nat \ {q} : BitOf(j + 2^q, c) = BitOf(j, c)
    BY <1>1, <1>5, SetsBit
  <2> QED BY <1>1, <1>5, <2>1, <2>2 DEF Indices
<1>6. CASE BitOf(j, q) = 1 /\ b = 0
  <2>1. Promised!WithBit(j, q, b) = j - 2^q
    BY <1>1, <1>3, <1>6
  <2>2. /\ j - 2^q \in Nat /\ BitOf(j - 2^q, q) = 0
        /\ \A c \in Nat \ {q} : BitOf(j - 2^q, c) = BitOf(j, c)
    BY <1>1, <1>6, ClearsBit
  <2> QED BY <1>1, <1>6, <2>1, <2>2 DEF Indices
<1> QED BY <1>2, <1>4, <1>5, <1>6

Entries(m) == \A k \in 1 .. 4 : m[k] \in Amplitude

LEMMA DefinitionType ==
    ASSUME NEW g \in GateOp, g.type # "SWAP"
    PROVE  Entries(Promised!Definition(g))
<1>1. IsMatrix(Matrix(g))
  BY MatrixType
<1> QED BY <1>1, MatrixIsMeant DEF IsMatrix, Entries

LEMMA ActedType ==
    ASSUME Powers, NEW n \in Nat, NEW q \in 0 .. n - 1, NEW control, NEW m, Entries(m),
           NEW s, IsState(s, n)
    PROVE  IsState(Promised!Acted(m, control, q, s), n)
<1> DEFINE lo(j) == Promised!WithBit(j, q, 0)
           up(j) == Promised!WithBit(j, q, 1)
           r(j) == 2 * Promised!Bit(j, q)
           x(j) == Times(m[r(j) + 1], s[lo(j)])
           y(j) == Times(m[r(j) + 2], s[up(j)])
<1>1. ASSUME NEW j \in Indices(n)
      PROVE  s[j] \in Amplitude /\ Plus(x(j), y(j)) \in Amplitude
  <2>1. j \in Nat /\ q \in Nat
    BY DEF Powers, Indices
  <2>2. Promised!Bit(j, q) = 0 \/ Promised!Bit(j, q) = 1
    BY <2>1, BitIsOne
  <2>3. r(j) + 1 \in 1 .. 4 /\ r(j) + 2 \in 1 .. 4
    BY <2>2
  <2>4. lo(j) \in Indices(n) /\ up(j) \in Indices(n)
    BY BitSet
  <2> HIDE DEF lo, up, r
  <2>5. /\ m[r(j) + 1] \in Amplitude /\ m[r(j) + 2] \in Amplitude
        /\ s[lo(j)] \in Amplitude /\ s[up(j)] \in Amplitude /\ s[j] \in Amplitude
    BY <2>3, <2>4 DEF Entries, IsState
  <2>6. x(j) \in Amplitude /\ y(j) \in Amplitude
    BY <2>5, ArithmeticType
  <2> QED BY <2>5, <2>6, ArithmeticType
<1>2. DOMAIN s = Indices(n)
  BY DEF IsState
<1>3. Promised!Acted(m, control, q, s)
        = [j \in Indices(n) |-> IF \E c \in control : Promised!Bit(j, c) = 0 THEN s[j]
                                ELSE Plus(x(j), y(j))]
  BY <1>2, SameArithmetic DEF Promised!Acted
<1> HIDE DEF x, y
<1> QED BY <1>1, <1>3 DEF IsState

LEMMA ActType ==
    ASSUME Powers, NEW n \in Nat, NEW g \in GateOp, WellFormed(g, n), NEW s, IsState(s, n)
    PROVE  IsState(Promised!Act(g, s), n)
<1>1. CASE g.type \in OneQubit /\ g.qubits \in [1 .. 1 -> 0 .. n - 1]
  <2>1. g.type # "SWAP" /\ g.qubits[1] \in 0 .. n - 1
    BY <1>1 DEF OneQubit
  <2>2. Promised!Act(g, s) = Promised!Acted(Promised!Definition(g), {}, g.qubits[1], s)
    BY <1>1, <2>1 DEF Promised!Act, Promised!OneQubit, OneQubit
  <2> QED BY <2>1, <2>2, DefinitionType, ActedType
<1>2. CASE /\ g.type \in TwoQubit /\ g.qubits \in [1 .. 2 -> 0 .. n - 1]
           /\ g.type # "SWAP"
  <2>1. g.qubits[2] \in 0 .. n - 1
    BY <1>2
  <2>2. Promised!Act(g, s) = Promised!Acted(Promised!Definition(g), {g.qubits[1]}, g.qubits[2], s)
    BY <1>2 DEF Promised!Act, Promised!OneQubit, TwoQubit
  <2> QED BY <1>2, <2>1, <2>2, DefinitionType, ActedType
<1>3. CASE /\ g.type = "SWAP" /\ g.qubits \in [1 .. 2 -> 0 .. n - 1]
  <2> DEFINE a == g.qubits[1]
             b == g.qubits[2]
             from(j) == Promised!WithBit(Promised!WithBit(j, a, Promised!Bit(j, b)), b,
                                         Promised!Bit(j, a))
  <2>1. a \in 0 .. n - 1 /\ b \in 0 .. n - 1
    BY <1>3
  <2>2. Promised!Act(g, s) = Promised!Exchanged(a, b, s)
    BY <1>3 DEF Promised!Act, Promised!OneQubit
  <2>3. ASSUME NEW j \in Indices(n) PROVE from(j) \in Indices(n)
    <3>1. j \in Nat /\ a \in Nat /\ b \in Nat
      BY <2>1 DEF Powers, Indices
    <3>2. Promised!Bit(j, a) \in {0, 1} /\ Promised!Bit(j, b) \in {0, 1}
      BY <3>1, BitIsOne
    <3> HIDE DEF a, b
    <3>3. Promised!WithBit(j, a, Promised!Bit(j, b)) \in Indices(n)
      BY <2>1, <3>2, BitSet
    <3> QED BY <2>1, <3>2, <3>3, BitSet
  <2>4. Promised!Exchanged(a, b, s) = [j \in Indices(n) |-> s[from(j)]]
    BY DEF Promised!Exchanged, IsState
  <2> HIDE DEF from
  <2> QED BY <2>2, <2>3, <2>4 DEF IsState
<1> QED BY <1>1, <1>2, <1>3 DEF WellFormed

\* Gates that a circuit of n qubits may hold.
GatesFit(gates, n) ==
    gates \in Seq(GateOp) /\ \A k \in 1 .. Len(gates) : WellFormed(gates[k], n)

\* A run is a step for each gate.
Runs(f, gates, s, n) ==
    /\ f[0] = s
    /\ \A k \in 0 .. Len(gates) : IsState(f[k], n)
    /\ \A k \in 1 .. Len(gates) : f[k] = Promised!Act(gates[k], f[k - 1])

LEMMA RunSteps ==
    ASSUME Powers, NEW n \in Nat, NEW gates, GatesFit(gates, n), NEW s, IsState(s, n)
    PROVE  \E f : Runs(f, gates, s, n) /\ RunAll(gates, s) = f[Len(gates)]
<1> DEFINE N == Len(gates)
           V == [Indices(n) -> Amplitude]
           base == s
           whole == RunAll(gates, s)
           Next1(t, k) == Computed(Promised!Act(gates[k], t))
           F(it) == [S \in SUBSET (1 .. N) |->
                       IF S = {} THEN base ELSE Next1(it[S \ {Max(S)}], Max(S))]
<1>1. N \in Nat /\ base \in V
  BY DEF GatesFit, IsState
<1>2. \A t \in V, k \in 1 .. N :
        Next1(t, k) \in V /\ Next1(t, k) = Promised!Act(gates[k], t)
  <2> SUFFICES ASSUME NEW t \in V, NEW k \in 1 .. N
               PROVE  Next1(t, k) \in V /\ Next1(t, k) = Promised!Act(gates[k], t)
    OBVIOUS
  <2> DEFINE u == Promised!Act(gates[k], t)
  <2>1. gates[k] \in GateOp /\ WellFormed(gates[k], n) /\ IsState(t, n)
    BY DEF GatesFit, IsState
  <2>2. IsState(u, n)
    BY <2>1, ActType
  <2> HIDE DEF u
  <2>3. u # <<>>
    BY <2>2, NotNothing
  <2>4. Computed(u) = u
    BY <2>3, ComputedIs
  <2> QED BY <2>2, <2>4 DEF IsState, u
<1>3. whole = (CHOOSE it : it = F(it))[1 .. N]
  <2>1. DOMAIN gates = 1 .. N
    BY DEF GatesFit
  <2> QED BY <2>1 DEF RunAll, FoldLeft, MapThenFoldSet
<1> HIDE DEF N, V, base, Next1, whole
<1>4. \E it : it = F(it)
  <2> DEFINE step == [p \in V \X (1 .. N) |-> Next1(p[1], p[2])]
  <2>1. \A d \in V, k \in 1 .. N : step[<<d, k>>] = Next1(d, k)
    OBVIOUS
  <2> HIDE DEF step
  <2>2. PICK it : Folds(it, N, base, step, V)
    <3>1. \A d \in V, k \in 1 .. N : step[<<d, k>>] \in V
      BY <1>2, <2>1
    <3> QED BY <1>1, <3>1, FoldExists
  <2>3. /\ it \in [SUBSET (1 .. N) -> V]
        /\ \A S \in SUBSET (1 .. N) :
              it[S] = IF S = {} THEN base ELSE step[<<it[S \ {Max(S)}], Max(S)>>]
    BY <2>2 DEF Folds
  <2>4. ASSUME NEW S \in SUBSET (1 .. N)
        PROVE  it[S] = IF S = {} THEN base ELSE Next1(it[S \ {Max(S)}], Max(S))
    <3>1. CASE S # {}
      <4>1. Max(S) \in 1 .. N /\ it[S \ {Max(S)}] \in V
        BY <1>1, <2>3, <3>1, Greatest
      <4> QED BY <2>1, <2>3, <3>1, <4>1
    <3> QED BY <2>3, <3>1
  <2>5. it = F(it)
    BY <2>3, <2>4
  <2> QED BY <2>5
<1>5. PICK it : it = F(it) /\ whole = it[1 .. N]
  BY <1>3, <1>4
<1>6. it[{}] = base
  BY <1>5
<1>7. ASSUME NEW k \in 1 .. N PROVE it[1 .. k] = Next1(it[1 .. k - 1], k)
  <2>1. Max(1 .. k) = k /\ (1 .. k) \ {k} = 1 .. k - 1
    BY <1>1, PartOfAll, GreatestOfAll
  <2>2. 1 .. k \in SUBSET (1 .. N) /\ 1 .. k # {}
    BY <1>1, PartOfAll
  <2> QED BY <1>5, <2>1, <2>2
<1> DEFINE f == [k \in 0 .. N |-> it[1 .. k]]
<1>8. f[0] = base /\ f[N] = whole
  <2>1. 1 .. 0 = {} /\ 0 \in 0 .. N /\ N \in 0 .. N
    BY <1>1
  <2> QED BY <1>5, <1>6, <2>1
<1>9. \A k \in 1 .. N : f[k] = Next1(f[k - 1], k)
  <2>1. \A k \in 1 .. N : k - 1 \in 0 .. N /\ k \in 0 .. N
    BY <1>1
  <2> QED BY <1>7, <2>1
<1> HIDE DEF f
<1>10. \A k \in 0 .. N : f[k] \in V
  <2> DEFINE T == {k \in 0 .. N : f[k] \in V}
  <2>1. 0 \in T
    BY <1>1, <1>8
  <2>2. \A k \in 1 .. N : k - 1 \in T => k \in T
    BY <1>2, <1>9
  <2>3. \A k \in 0 .. N : k \in T
    <3> HIDE DEF T
    <3> QED BY <1>1, <2>1, <2>2, Climb
  <2> QED BY <2>3
<1>11. \A k \in 1 .. N : f[k] = Promised!Act(gates[k], f[k - 1])
  <2>1. \A k \in 1 .. N : k - 1 \in 0 .. N
    BY <1>1
  <2> QED BY <1>2, <1>9, <1>10, <2>1
<1>12. Runs(f, gates, s, n)
  BY <1>8, <1>10, <1>11 DEF Runs, V, N, base, IsState
<1> QED BY <1>8, <1>12 DEF whole, N

\* There is one run only.
LEMMA OneRun ==
    ASSUME Powers, NEW n \in Nat, NEW gates, GatesFit(gates, n), NEW s, IsState(s, n),
           NEW f, f[0] = s,
           \A k \in 1 .. Len(gates) : f[k] = Promised!Act(gates[k], f[k - 1])
    PROVE  RunAll(gates, s) = f[Len(gates)] /\ IsState(f[Len(gates)], n)
<1>1. PICK h : Runs(h, gates, s, n) /\ RunAll(gates, s) = h[Len(gates)]
  BY RunSteps
<1> DEFINE N == Len(gates)
           T == {k \in 0 .. N : h[k] = f[k]}
<1>2. N \in Nat
  BY DEF GatesFit
<1>3. 0 \in T
  BY <1>1, <1>2 DEF Runs
<1>4. \A k \in 1 .. N : k - 1 \in T => k \in T
  BY <1>1 DEF Runs
<1>5. \A k \in 0 .. N : k \in T
  <2> HIDE DEF T, N
  <2> QED BY <1>2, <1>3, <1>4, Climb
<1>6. N \in T
  BY <1>2, <1>5
<1> QED BY <1>1, <1>2, <1>6 DEF Runs

-----------------------------------------------------------------------------
(* Matrices on a qubit, controlled and not *)

\* Sums may be reordered and regrouped.
LEMMA Additive ==
    ASSUME NEW a \in Amplitude, NEW b \in Amplitude, NEW c \in Amplitude
    PROVE  Plus(a, b) = Plus(b, a) /\ Plus(Plus(a, b), c) = Plus(a, Plus(b, c))
<1>1. /\ a[1] \in Int /\ a[2] \in Int /\ b[1] \in Int /\ b[2] \in Int
      /\ c[1] \in Int /\ c[2] \in Int
  BY Parts
<1>2. \A x, y, z \in Int :
        /\ (x + y) % 31 = (y + x) % 31
        /\ (((x + y) % 31) + z) % 31 = (x + ((y + z) % 31)) % 31
  OBVIOUS
<1> QED BY <1>1, <1>2 DEF Plus, Complex, Prime

\* A product with a sum is the sum of the products.
LEMMA Distributive ==
    ASSUME NEW a \in Amplitude, NEW b \in Amplitude, NEW c \in Amplitude
    PROVE  /\ Times(a, Plus(b, c)) = Plus(Times(a, b), Times(a, c))
           /\ Times(Plus(b, c), a) = Plus(Times(b, a), Times(c, a))
<1> DEFINE a1 == a[1]
           a2 == a[2]
           b1 == b[1]
           b2 == b[2]
           c1 == c[1]
           c2 == c[2]
           p == b1 + c1
           q == b2 + c2
<1>1. /\ a1 \in Int /\ a2 \in Int /\ b1 \in Int /\ b2 \in Int
      /\ c1 \in Int /\ c2 \in Int
  BY Parts
<1>2. Plus(b, c) = <<p % Prime, q % Prime>>
  BY DEF Plus, Complex
<1> HIDE DEF a1, a2, b1, b2, c1, c2
<1>3. p \in Int /\ q \in Int
  BY <1>1
<1>4. Times(Plus(b, c), a) = <<((p % Prime) * a1 - (q % Prime) * a2) % Prime,
                              ((p % Prime) * a2 + (q % Prime) * a1) % Prime>>
  BY <1>2 DEF Times, Complex, a1, a2
<1>5. /\ ((p % Prime) * a1 - (q % Prime) * a2) % Prime = (p * a1 - q * a2) % Prime
      /\ ((p % Prime) * a2 + (q % Prime) * a1) % Prime = (p * a2 + q * a1) % Prime
  <2> HIDE DEF p, q
  <2> QED BY <1>1, <1>3, Reduced
<1> DEFINE x == b1 * a1 - b2 * a2
           y == c1 * a1 - c2 * a2
           u == b1 * a2 + b2 * a1
           v == c1 * a2 + c2 * a1
<1>6. p * a1 - q * a2 = x + y /\ p * a2 + q * a1 = u + v
  <2> SUFFICES ASSUME a1 \in Int, a2 \in Int, b1 \in Int, b2 \in Int, c1 \in Int, c2 \in Int
               PROVE  /\ (b1 + c1) * a1 - (b2 + c2) * a2 = (b1 * a1 - b2 * a2) + (c1 * a1 - c2 * a2)
                      /\ (b1 + c1) * a2 + (b2 + c2) * a1 = (b1 * a2 + b2 * a1) + (c1 * a2 + c2 * a1)
    BY <1>1
  <2> QED OBVIOUS
<1>7. /\ Times(b, a) = <<x % Prime, u % Prime>> /\ Times(c, a) = <<y % Prime, v % Prime>>
  BY DEF Times, Complex, a1, a2, b1, b2, c1, c2
<1>8. x \in Int /\ y \in Int /\ u \in Int /\ v \in Int
  BY <1>1
<1>9. \A k, l \in Int : ((k % 31) + (l % 31)) % 31 = (k + l) % 31
  OBVIOUS
<1>10. Times(Plus(b, c), a) = <<(x + y) % Prime, (u + v) % Prime>>
  BY <1>4, <1>5, <1>6
<1> HIDE DEF x, y, u, v
<1>11. Plus(Times(b, a), Times(c, a)) = <<(x + y) % Prime, (u + v) % Prime>>
  BY <1>7, <1>8, <1>9 DEF Plus, Complex, Prime
<1>12. Plus(b, c) \in Amplitude
  BY ArithmeticType
<1>13. /\ Times(a, Plus(b, c)) = Times(Plus(b, c), a)
       /\ Times(a, b) = Times(b, a) /\ Times(a, c) = Times(c, a)
  BY <1>12, Associative
<1> QED BY <1>10, <1>11, <1>13

\* A row of a matrix times what another makes of two amplitudes.
LEMMA Rows ==
    ASSUME NEW p, NEW q, NEW a, NEW b, NEW c, NEW d, NEW x, NEW y,
           {p, q, a, b, c, d, x, y} \subseteq Amplitude
    PROVE  Plus(Times(p, Plus(Times(a, x), Times(b, y))), Times(q, Plus(Times(c, x), Times(d, y))))
           = Plus(Times(Plus(Times(p, a), Times(q, c)), x), Times(Plus(Times(p, b), Times(q, d)),
               y))
<1>1. \A u, v \in Amplitude : Times(u, v) \in Amplitude /\ Plus(u, v) \in Amplitude
  BY ArithmeticType
<1> /\ p \in Amplitude /\ q \in Amplitude /\ a \in Amplitude /\ b \in Amplitude
    /\ c \in Amplitude /\ d \in Amplitude /\ x \in Amplitude /\ y \in Amplitude
  OBVIOUS
<1>2. \A u, v, w \in Amplitude :
        /\ Times(u, Plus(v, w)) = Plus(Times(u, v), Times(u, w))
        /\ Times(Plus(v, w), u) = Plus(Times(v, u), Times(w, u))
  BY Distributive
<1>3. \A u, v, w \in Amplitude : Times(Times(u, v), w) = Times(u, Times(v, w))
  BY Associative
<1>4. \A u, v, w \in Amplitude :
        Plus(u, v) = Plus(v, u) /\ Plus(Plus(u, v), w) = Plus(u, Plus(v, w))
  BY Additive
<1> DEFINE ax == Times(a, x)
           by2 == Times(b, y)
           cx == Times(c, x)
           dy == Times(d, y)
           pa == Times(p, a)
           pb == Times(p, b)
           qc == Times(q, c)
           qd == Times(q, d)
<1>a. /\ ax \in Amplitude /\ by2 \in Amplitude /\ cx \in Amplitude /\ dy \in Amplitude
      /\ pa \in Amplitude /\ pb \in Amplitude /\ qc \in Amplitude /\ qd \in Amplitude
  BY <1>1
<1>b. /\ Times(p, ax) = Times(pa, x) /\ Times(p, by2) = Times(pb, y)
      /\ Times(q, cx) = Times(qc, x) /\ Times(q, dy) = Times(qd, y)
  BY <1>3
<1> HIDE DEF ax, by2, cx, dy, pa, pb, qc, qd
<1>5. /\ Times(p, Plus(ax, by2)) = Plus(Times(pa, x), Times(pb, y))
      /\ Times(q, Plus(cx, dy)) = Plus(Times(qc, x), Times(qd, y))
  <2>1. /\ Times(p, Plus(ax, by2)) = Plus(Times(p, ax), Times(p, by2))
        /\ Times(q, Plus(cx, dy)) = Plus(Times(q, cx), Times(q, dy))
    BY <1>2, <1>a
  <2> QED BY <1>b, <2>1
<1>6. /\ Times(Plus(pa, qc), x) = Plus(Times(pa, x), Times(qc, x))
      /\ Times(Plus(pb, qd), y) = Plus(Times(pb, y), Times(qd, y))
  BY <1>2, <1>a
<1>7. \A k, l, m, n \in Amplitude : Plus(Plus(k, l), Plus(m, n)) = Plus(Plus(k, m), Plus(l, n))
  BY <1>1, <1>4
<1>8. /\ Times(pa, x) \in Amplitude /\ Times(pb, y) \in Amplitude
      /\ Times(qc, x) \in Amplitude /\ Times(qd, y) \in Amplitude
  BY <1>1, <1>a
<1>9. Plus(Times(p, Plus(ax, by2)), Times(q, Plus(cx, dy)))
        = Plus(Times(Plus(pa, qc), x), Times(Plus(pb, qd), y))
  BY <1>5, <1>6, <1>7, <1>8
<1> QED BY <1>9 DEF ax, by2, cx, dy, pa, pb, qc, qd

\* A row of a matrix times two amplitudes.
Row(p, q, x, y) == Plus(Times(p, x), Times(q, y))

LEMMA RowType ==
    ASSUME NEW p, NEW q, NEW x, NEW y, {p, q, x, y} \subseteq Amplitude
    PROVE  Row(p, q, x, y) \in Amplitude
<1>1. Times(p, x) \in Amplitude /\ Times(q, y) \in Amplitude
  BY ArithmeticType
<1> QED BY <1>1, ArithmeticType DEF Row

LEMMA RowOfRows ==
    ASSUME NEW p, NEW q, NEW a, NEW b, NEW c, NEW d, NEW x, NEW y,
           {p, q, a, b, c, d, x, y} \subseteq Amplitude
    PROVE  Row(p, q, Row(a, b, x, y), Row(c, d, x, y)) = Row(Row(p, q, a, c), Row(p, q, b, d), x, y)
<1> /\ p \in Amplitude /\ q \in Amplitude /\ a \in Amplitude /\ b \in Amplitude
    /\ c \in Amplitude /\ d \in Amplitude /\ x \in Amplitude /\ y \in Amplitude
  OBVIOUS
<1> QED BY Rows DEF Row

Side(a, b, c, j) == IF BitOf(j, c) = 0 THEN a ELSE b

\* A matrix on qubit t: one where qubit c is clear, another where it is set.
Branch(a, b, c, t, s) ==
    [j \in DOMAIN s |->
        LET m == Side(a, b, c, j) IN
        Row(m[2 * BitOf(j, t) + 1], m[2 * BitOf(j, t) + 2],
            s[Promised!WithBit(j, t, 0)], s[Promised!WithBit(j, t, 1)])]

Identity == <<One, Zero, Zero, One>>

LEMMA BranchAt ==
    ASSUME Powers, NEW n \in Nat, NEW c \in 0 .. n - 1, NEW t \in 0 .. n - 1, c # t,
           NEW a, Entries(a), NEW b, Entries(b), NEW s, IsState(s, n)
    PROVE  /\ IsState(Branch(a, b, c, t, s), n)
           /\ \A j \in Indices(n) : \A m :
                 m = Side(a, b, c, j) =>
                   LET x == s[Promised!WithBit(j, t, 0)]
                       y == s[Promised!WithBit(j, t, 1)]
                       u == Branch(a, b, c, t, s) IN
                   /\ x \in Amplitude /\ y \in Amplitude
                   /\ u[Promised!WithBit(j, t, 0)] = Row(m[1], m[2], x, y)
                   /\ u[Promised!WithBit(j, t, 1)] = Row(m[3], m[4], x, y)
                   /\ BitOf(j, t) = 0 => u[j] = Row(m[1], m[2], x, y)
                   /\ BitOf(j, t) = 1 => u[j] = Row(m[3], m[4], x, y)
                   /\ BitOf(j, t) = 0 \/ BitOf(j, t) = 1
<1> DEFINE lo(j) == Promised!WithBit(j, t, 0)
           up(j) == Promised!WithBit(j, t, 1)
           M(j) == Side(a, b, c, j)
           u == Branch(a, b, c, t, s)
<1>1. \A j \in Indices(n) : j \in Nat
  BY DEF Powers, Indices
<1>2. \A j \in Indices(n) : BitOf(j, t) = 0 \/ BitOf(j, t) = 1
  BY <1>1, BitIsOne
<1>3. \A j \in Indices(n) :
        /\ lo(j) \in Indices(n) /\ BitOf(lo(j), t) = 0
        /\ up(j) \in Indices(n) /\ BitOf(up(j), t) = 1
        /\ BitOf(lo(j), c) = BitOf(j, c) /\ BitOf(up(j), c) = BitOf(j, c)
        /\ BitOf(j, t) = 0 => lo(j) = j
        /\ BitOf(j, t) = 1 => up(j) = j
  <2>1. 0 \in {0, 1} /\ 1 \in {0, 1} /\ c \in Nat \ {t}
    OBVIOUS
  <2> QED BY <2>1, BitSet
<1>4. \A j \in Indices(n) :
        /\ lo(lo(j)) = lo(j) /\ up(up(j)) = up(j)
        /\ lo(up(j)) = lo(j) /\ up(lo(j)) = up(j)
  <2> SUFFICES ASSUME NEW j \in Indices(n)
               PROVE  /\ lo(lo(j)) = lo(j) /\ up(up(j)) = up(j)
                      /\ lo(up(j)) = lo(j) /\ up(lo(j)) = up(j)
    OBVIOUS
  <2>1. lo(lo(j)) = lo(j) /\ up(up(j)) = up(j)
    <3> HIDE DEF lo, up
    <3> QED BY <1>3
  <2>2. /\ Promised!Bit(j, t) = BitOf(j, t) /\ Promised!Bit(lo(j), t) = 0
        /\ Promised!Bit(up(j), t) = 1
    <3>1. lo(j) \in Nat /\ up(j) \in Nat /\ j \in Nat /\ t \in Nat
      <4> HIDE DEF lo, up
      <4> QED BY <1>1, <1>3
    <3> HIDE DEF lo, up
    <3> QED BY <1>3, <3>1, BitIsOne
  <2>3. /\ lo(up(j)) = up(j) + (0 - 1) * 2^t /\ up(lo(j)) = lo(j) + (1 - 0) * 2^t
        /\ lo(j) = j + (0 - BitOf(j, t)) * 2^t /\ up(j) = j + (1 - BitOf(j, t)) * 2^t
    BY <2>2 DEF Promised!WithBit
  <2>4. 2^t \in Nat /\ j \in Nat /\ (BitOf(j, t) = 0 \/ BitOf(j, t) = 1)
    BY <1>1, <1>2 DEF Powers
  <2> HIDE DEF lo, up
  <2> QED BY <2>1, <2>3, <2>4
<1>5. \A j \in Indices(n) :
        u[j] = Row(M(j)[2 * BitOf(j, t) + 1], M(j)[2 * BitOf(j, t) + 2], s[lo(j)], s[up(j)])
  BY DEF Branch, IsState
<1>6. \A j \in Indices(n) : s[lo(j)] \in Amplitude /\ s[up(j)] \in Amplitude
  BY <1>3 DEF IsState
<1>7. u = [j \in Indices(n) |-> u[j]]
  BY DEF Branch, IsState
<1>8. \A j \in Indices(n) : Entries(M(j))
  BY DEF Side
<1>m. \A j \in Indices(n) : M(lo(j)) = M(j) /\ M(up(j)) = M(j)
  BY <1>3 DEF Side
<1> HIDE DEF lo, up, M, u
<1>9. \A j \in Indices(n) :
        /\ BitOf(j, t) = 0 => u[j] = Row(M(j)[1], M(j)[2], s[lo(j)], s[up(j)])
        /\ BitOf(j, t) = 1 => u[j] = Row(M(j)[3], M(j)[4], s[lo(j)], s[up(j)])
  <2>1. 2 * 0 + 1 = 1 /\ 2 * 0 + 2 = 2 /\ 2 * 1 + 1 = 3 /\ 2 * 1 + 2 = 4
    OBVIOUS
  <2> QED BY <1>5, <2>1
<1>10. \A j \in Indices(n) :
        /\ u[lo(j)] = Row(M(j)[1], M(j)[2], s[lo(j)], s[up(j)])
        /\ u[up(j)] = Row(M(j)[3], M(j)[4], s[lo(j)], s[up(j)])
  BY <1>3, <1>4, <1>9, <1>m
<1>11. \A j \in Indices(n) : u[j] \in Amplitude
  <2> SUFFICES ASSUME NEW j \in Indices(n) PROVE u[j] \in Amplitude
    OBVIOUS
  <2>1. \A k \in 1 .. 4 : M(j)[k] \in Amplitude
    BY <1>8 DEF Entries
  <2>2. /\ M(j)[1] \in Amplitude /\ M(j)[2] \in Amplitude
        /\ M(j)[3] \in Amplitude /\ M(j)[4] \in Amplitude
    <3>1. 1 \in 1 .. 4 /\ 2 \in 1 .. 4 /\ 3 \in 1 .. 4 /\ 4 \in 1 .. 4
      OBVIOUS
    <3> QED BY <2>1, <3>1
  <2>3. s[lo(j)] \in Amplitude /\ s[up(j)] \in Amplitude
    BY <1>6
  <2>4. /\ Row(M(j)[1], M(j)[2], s[lo(j)], s[up(j)]) \in Amplitude
        /\ Row(M(j)[3], M(j)[4], s[lo(j)], s[up(j)]) \in Amplitude
    BY <2>2, <2>3, RowType
  <2> QED BY <1>2, <1>9, <2>4
<1>12. IsState(u, n)
  BY <1>7, <1>11 DEF IsState
<1> QED BY <1>2, <1>6, <1>9, <1>10, <1>12 DEF lo, up, M, u

\* The same for one pair of amplitudes.
LEMMA BranchRow ==
    ASSUME Powers, NEW n \in Nat, NEW c \in 0 .. n - 1, NEW t \in 0 .. n - 1, c # t,
           NEW a, NEW b, NEW s, NEW j, Entries(a), Entries(b), IsState(s, n), j \in Indices(n)
    PROVE  LET x == s[Promised!WithBit(j, t, 0)]
               y == s[Promised!WithBit(j, t, 1)]
               m == Side(a, b, c, j)
               u == Branch(a, b, c, t, s) IN
           /\ x \in Amplitude /\ y \in Amplitude
           /\ u[Promised!WithBit(j, t, 0)] = Row(m[1], m[2], x, y)
           /\ u[Promised!WithBit(j, t, 1)] = Row(m[3], m[4], x, y)
           /\ \/ BitOf(j, t) = 0 /\ u[j] = Row(m[1], m[2], x, y)
              \/ BitOf(j, t) = 1 /\ u[j] = Row(m[3], m[4], x, y)
<1> DEFINE m == Side(a, b, c, j)
<1>1. m = Side(a, b, c, j)
  OBVIOUS
<1> HIDE DEF m
<1> QED BY <1>1, BranchAt DEF m

\* Two in a row are their products.
LEMMA Branches ==
    ASSUME Powers, NEW n \in Nat, NEW c \in 0 .. n - 1, NEW t \in 0 .. n - 1, c # t,
           NEW a, NEW b, NEW d, NEW e, NEW s, Entries(a), Entries(b), Entries(d), Entries(e),
           IsState(s, n)
    PROVE  /\ Branch(a, b, c, t, Branch(d, e, c, t, s))
                = Branch(Promised!Product(a, d), Promised!Product(b, e), c, t, s)
           /\ Entries(Promised!Product(a, d)) /\ Entries(Promised!Product(b, e))
<1> DEFINE u == Branch(d, e, c, t, s)
           v == Branch(a, b, c, t, u)
           ad == Promised!Product(a, d)
           be == Promised!Product(b, e)
           w == Branch(ad, be, c, t, s)
           lo(j) == Promised!WithBit(j, t, 0)
           up(j) == Promised!WithBit(j, t, 1)
<1>1. ASSUME NEW m1, NEW m2, Entries(m1), Entries(m2) PROVE Entries(Promised!Product(m1, m2))
  <2>2. \A k \in 1 .. 4 : m1[k] \in Amplitude /\ m2[k] \in Amplitude
    BY <1>1 DEF Entries
  <2> DEFINE p == Promised!Product(m1, m2)
  <2>3. /\ p[1] = Row(m1[1], m1[2], m2[1], m2[3])
        /\ p[2] = Row(m1[1], m1[2], m2[2], m2[4])
        /\ p[3] = Row(m1[3], m1[4], m2[1], m2[3])
        /\ p[4] = Row(m1[3], m1[4], m2[2], m2[4])
    BY Products DEF Row
  <2> HIDE DEF p
  <2>4. /\ m1[1] \in Amplitude /\ m1[2] \in Amplitude /\ m1[3] \in Amplitude /\ m1[4] \in Amplitude
        /\ m2[1] \in Amplitude /\ m2[2] \in Amplitude /\ m2[3] \in Amplitude /\ m2[4] \in Amplitude
    BY <2>2
  <2>5. p[1] \in Amplitude /\ p[2] \in Amplitude /\ p[3] \in Amplitude /\ p[4] \in Amplitude
    BY <2>3, <2>4, RowType
  <2>6. \A k \in 1 .. 4 : k = 1 \/ k = 2 \/ k = 3 \/ k = 4
    OBVIOUS
  <2> QED BY <2>5, <2>6 DEF Entries, p
<1>2. Entries(ad) /\ Entries(be)
  BY <1>1
<1>3. IsState(u, n)
  BY BranchAt
<1>4. IsState(v, n)
  <2> HIDE DEF u
  <2> QED BY <1>3, BranchAt
<1>5. IsState(w, n)
  <2> HIDE DEF ad, be
  <2> QED BY <1>2, BranchAt
<1> HIDE DEF u, v, w, ad, be
<1>6. ASSUME NEW j \in Indices(n) PROVE v[j] = w[j]
  <2> DEFINE m1 == Side(a, b, c, j)
             m2 == Side(d, e, c, j)
             m == Side(ad, be, c, j)
             x == s[Promised!WithBit(j, t, 0)]
             y == s[Promised!WithBit(j, t, 1)]
             f == u[Promised!WithBit(j, t, 0)]
             g == u[Promised!WithBit(j, t, 1)]
  <2>1. Entries(m1) /\ Entries(m2)
    BY DEF Side
  <2>2. m = Promised!Product(m1, m2)
    BY DEF ad, be, Side
  <2>3. /\ x \in Amplitude /\ y \in Amplitude
        /\ f = Row(m2[1], m2[2], x, y) /\ g = Row(m2[3], m2[4], x, y)
    <3>2. u = Branch(d, e, c, t, s)
      BY DEF u
    <3> QED BY <3>2, BranchRow
  <2>4. \/ BitOf(j, t) = 0 /\ w[j] = Row(m[1], m[2], x, y)
        \/ BitOf(j, t) = 1 /\ w[j] = Row(m[3], m[4], x, y)
    <3>2. w = Branch(ad, be, c, t, s)
      BY DEF w
    <3> QED BY <1>2, <3>2, BranchRow
  <2>5. \/ BitOf(j, t) = 0 /\ v[j] = Row(m1[1], m1[2], f, g)
        \/ BitOf(j, t) = 1 /\ v[j] = Row(m1[3], m1[4], f, g)
    <3>2. v = Branch(a, b, c, t, u)
      BY DEF v
    <3> QED BY <1>3, <3>2, BranchRow
  <2> HIDE DEF m1, m2, m, x, y, f, g
  <2>6. /\ m[1] = Row(m1[1], m1[2], m2[1], m2[3])
        /\ m[2] = Row(m1[1], m1[2], m2[2], m2[4])
        /\ m[3] = Row(m1[3], m1[4], m2[1], m2[3])
        /\ m[4] = Row(m1[3], m1[4], m2[2], m2[4])
    BY <2>2, Products DEF Row
  <2>7. /\ m1[1] \in Amplitude /\ m1[2] \in Amplitude /\ m1[3] \in Amplitude /\ m1[4] \in Amplitude
        /\ m2[1] \in Amplitude /\ m2[2] \in Amplitude /\ m2[3] \in Amplitude /\ m2[4] \in Amplitude
    BY <2>1 DEF Entries
  <2>8. Row(m1[1], m1[2], f, g) = Row(m[1], m[2], x, y)
    BY <2>3, <2>6, <2>7, RowOfRows
  <2>9. Row(m1[3], m1[4], f, g) = Row(m[3], m[4], x, y)
    BY <2>3, <2>6, <2>7, RowOfRows
  <2> QED BY <2>4, <2>5, <2>8, <2>9
<1>7. v = w
  BY <1>4, <1>5, <1>6 DEF IsState
<1> QED BY <1>2, <1>7 DEF u, v, w, ad, be

Same(a, b) == \A k \in 1 .. 4 : a[k] = b[k]

\* Only the four entries count.
LEMMA SameBranch ==
    ASSUME Powers, NEW n \in Nat, NEW c \in 0 .. n - 1, NEW t \in 0 .. n - 1,
           NEW a, NEW b, NEW d, NEW e, NEW s, Same(a, d), Same(b, e), IsState(s, n)
    PROVE  Branch(a, b, c, t, s) = Branch(d, e, c, t, s)
<1>1. ASSUME NEW j \in Indices(n)
               PROVE 2 * BitOf(j, t) + 1 \in 1 .. 4 /\ 2 * BitOf(j, t) + 2 \in 1 .. 4
  <2>1. j \in Nat /\ t \in Nat
    BY DEF Powers, Indices
  <2>2. BitOf(j, t) = 0 \/ BitOf(j, t) = 1
    BY <2>1, BitIsOne
  <2> QED BY <2>2
<1>2. DOMAIN s = Indices(n)
  BY DEF IsState
<1> QED BY <1>1, <1>2 DEF Branch, Same, Side

\* A gate on one qubit, and a controlled one, as a branch.
AreBranches(m, c, t, s) ==
    /\ Promised!Acted(m, {}, t, s) = Branch(m, m, c, t, s)
    /\ Promised!Acted(m, {c}, t, s) = Branch(Identity, m, c, t, s)

LEMMA ActedBranch ==
    ASSUME Powers, NEW n \in Nat, NEW c \in 0 .. n - 1, NEW t \in 0 .. n - 1,
           NEW m, NEW s, c # t, Entries(m), IsState(s, n)
    PROVE  AreBranches(m, c, t, s)
<1> DEFINE lo(j) == Promised!WithBit(j, t, 0)
           up(j) == Promised!WithBit(j, t, 1)
           v(k) == Promised!Acted(m, k, t, s)
           Of(k, j) == Row(k[2 * BitOf(j, t) + 1], k[2 * BitOf(j, t) + 2], s[lo(j)], s[up(j)])
<1>1. DOMAIN s = Indices(n) /\ \A j \in Indices(n) : j \in Nat /\ s[j] \in Amplitude
  BY DEF IsState, Powers, Indices
<1>2. \A j \in Indices(n) :
        /\ Promised!Bit(j, t) = BitOf(j, t) /\ Promised!Bit(j, c) = BitOf(j, c)
        /\ BitOf(j, t) = 0 \/ BitOf(j, t) = 1
  BY <1>1, BitIsOne
<1>3. ASSUME NEW k
      PROVE  v(k) = [j \in Indices(n) |-> IF \E d \in k : BitOf(j, d) = 0 /\ d = c THEN s[j]
                                       ELSE Of(m, j)]
             \/ ~(k \subseteq {c})
  <2> SUFFICES ASSUME k \subseteq {c}
               PROVE  v(k) = [j \in Indices(n) |->
                                IF \E d \in k : BitOf(j, d) = 0 /\ d = c THEN s[j] ELSE Of(m, j)]
    OBVIOUS
  <2>1. v(k) = [j \in Indices(n) |->
            IF \E d \in k : Promised!Bit(j, d) = 0 THEN s[j]
            ELSE Row(m[2 * Promised!Bit(j, t) + 1], m[2 * Promised!Bit(j, t) + 2],
                     s[lo(j)], s[up(j)])]
    BY <1>1, SameArithmetic DEF Promised!Acted, Row
  <2>2. \A j \in Indices(n) : (\E d \in k : Promised!Bit(j, d) = 0)
                              <=> \E d \in k : BitOf(j, d) = 0 /\ d = c
    <3> HIDE DEF lo, up, Of, v
    <3>1. \A j \in Indices(n), d \in k : d = c /\ Promised!Bit(j, d) = BitOf(j, d)
      BY <1>2
    <3> QED BY <3>1
  <2>3. \A j \in Indices(n) :
          Of(m, j) = Row(m[2 * Promised!Bit(j, t) + 1], m[2 * Promised!Bit(j, t) + 2],
                         s[lo(j)], s[up(j)])
    <3> SUFFICES ASSUME NEW j \in Indices(n)
                 PROVE  Of(m, j) = Row(m[2 * Promised!Bit(j, t) + 1], m[2 * Promised!Bit(j, t) + 2],
                                       s[lo(j)], s[up(j)])
      OBVIOUS
    <3>1. Promised!Bit(j, t) = BitOf(j, t)
      BY <1>2
    <3> HIDE DEF lo, up, v
    <3> QED BY <3>1, Zenon
  <2> HIDE DEF Of, v, lo, up
  <2> QED BY <2>1, <2>2, <2>3
<1>4. v({}) = Branch(m, m, c, t, s)
  <2>1. v({}) = [j \in Indices(n) |-> Of(m, j)]
    BY <1>3
  <2> QED BY <1>1, <2>1 DEF Branch, Side
<1>5. v({c}) = Branch(Identity, m, c, t, s)
  <2>1. v({c}) = [j \in Indices(n) |-> IF BitOf(j, c) = 0 THEN s[j] ELSE Of(m, j)]
    <3>1. \A j : (\E d \in {c} : BitOf(j, d) = 0 /\ d = c) <=> BitOf(j, c) = 0
      OBVIOUS
    <3>2. v({c}) = [j \in Indices(n) |-> IF \E d \in {c} : BitOf(j, d) = 0 /\ d = c THEN s[j]
                                      ELSE Of(m, j)]
      BY <1>3
    <3> HIDE DEF Of, v
    <3> QED BY <3>1, <3>2
  <2>2. ASSUME NEW j \in Indices(n) PROVE Of(Identity, j) = s[j]
    <3>1. lo(j) \in Indices(n) /\ up(j) \in Indices(n)
      BY BitSet
    <3>2. (BitOf(j, t) = 0 => lo(j) = j) /\ (BitOf(j, t) = 1 => up(j) = j)
      BY BitSet
    <3> HIDE DEF lo, up
    <3>3. s[lo(j)] \in Amplitude /\ s[up(j)] \in Amplitude
      BY <1>1, <3>1
    <3>4. /\ Times(One, s[lo(j)]) = s[lo(j)] /\ Times(Zero, s[lo(j)]) = Zero
          /\ Times(One, s[up(j)]) = s[up(j)] /\ Times(Zero, s[up(j)]) = Zero
          /\ Plus(s[lo(j)], Zero) = s[lo(j)] /\ Plus(Zero, s[up(j)]) = s[up(j)]
      BY <3>3, Units
    <3>5. /\ Identity[1] = One /\ Identity[2] = Zero /\ Identity[3] = Zero /\ Identity[4] = One
      BY DEF Identity
    <3>6. 2 * 0 + 1 = 1 /\ 2 * 0 + 2 = 2 /\ 2 * 1 + 1 = 3 /\ 2 * 1 + 2 = 4
      OBVIOUS
    <3> QED BY <1>2, <3>2, <3>4, <3>5, <3>6 DEF Row
  <2>3. Branch(Identity, m, c, t, s)
          = [j \in Indices(n) |-> IF BitOf(j, c) = 0 THEN Of(Identity, j) ELSE Of(m, j)]
    BY <1>1 DEF Branch, Side
  <2> HIDE DEF Of
  <2> QED BY <2>1, <2>2, <2>3
<1> QED BY <1>4, <1>5 DEF AreBranches

-----------------------------------------------------------------------------
(* Gates as branches *)

\* Two branches in a row, where their products are known.
LEMMA BranchOn ==
    ASSUME Powers, NEW n \in Nat, NEW c \in 0 .. n - 1, NEW t \in 0 .. n - 1, c # t,
           NEW a, NEW b, NEW d, NEW e, NEW p, NEW q, NEW s,
           Entries(a), Entries(b), Entries(d), Entries(e),
           Same(Promised!Product(d, a), p), Same(Promised!Product(e, b), q), IsState(s, n)
    PROVE  /\ Branch(d, e, c, t, Branch(a, b, c, t, s)) = Branch(p, q, c, t, s)
           /\ Entries(p) /\ Entries(q)
<1> DEFINE da == Promised!Product(d, a)
           eb == Promised!Product(e, b)
<1>1. /\ Branch(d, e, c, t, Branch(a, b, c, t, s)) = Branch(da, eb, c, t, s)
      /\ Entries(da) /\ Entries(eb)
  BY Branches
<1>2. Same(da, p) /\ Same(eb, q)
  OBVIOUS
<1> HIDE DEF da, eb
<1>3. Branch(da, eb, c, t, s) = Branch(p, q, c, t, s)
  BY <1>2, SameBranch
<1>4. Entries(p) /\ Entries(q)
  BY <1>1, <1>2 DEF Entries, Same
<1> QED BY <1>1, <1>3, <1>4

LEMMA IdentityEntries == Entries(Identity)
<1>1. \A k \in 1 .. 4 : k = 1 \/ k = 2 \/ k = 3 \/ k = 4
  OBVIOUS
<1> QED BY <1>1, ConstantsType DEF Entries, Identity

\* A gate on one qubit acts alike wherever another is.
LEMMA OneBranch ==
    ASSUME Powers, NEW n \in Nat, NEW c \in 0 .. n - 1, NEW t \in 0 .. n - 1,
           NEW g \in GateOp, NEW s, c # t, g.type \in OneQubit, g.qubits[1] = t, IsState(s, n)
    PROVE  Promised!Act(g, s) = Branch(Matrix(g), Matrix(g), c, t, s)
<1>0. PICK m : m = Promised!Definition(g)
  OBVIOUS
<1>1. g.type # "SWAP"
  BY DEF OneQubit
<1>2. Promised!Act(g, s) = Promised!Acted(m, {}, t, s)
  BY <1>0, <1>1 DEF Promised!Act, Promised!OneQubit, OneQubit
<1>3. Entries(m) /\ Same(m, Matrix(g))
  BY <1>0, <1>1, DefinitionType, MatrixIsMeant DEF Same
<1>4. AreBranches(m, c, t, s)
  BY <1>3, ActedBranch
<1>5. Branch(m, m, c, t, s) = Branch(Matrix(g), Matrix(g), c, t, s)
  BY <1>3, SameBranch
<1> QED BY <1>2, <1>4, <1>5 DEF AreBranches

\* A controlled one acts where its control is set.
LEMMA ControlBranch ==
    ASSUME Powers, NEW n \in Nat, NEW c \in 0 .. n - 1, NEW t \in 0 .. n - 1,
           NEW g \in GateOp, NEW s, c # t, g.type \in TwoQubit, g.type # "SWAP",
           g.qubits[1] = c, g.qubits[2] = t, IsState(s, n)
    PROVE  Promised!Act(g, s) = Branch(Identity, Matrix(g), c, t, s)
<1>0. PICK m : m = Promised!Definition(g)
  OBVIOUS
<1>2. Promised!Act(g, s) = Promised!Acted(m, {c}, t, s)
  BY <1>0 DEF Promised!Act, Promised!OneQubit, TwoQubit
<1>3. Entries(m) /\ Same(m, Matrix(g))
  BY <1>0, DefinitionType, MatrixIsMeant DEF Same
<1>4. AreBranches(m, c, t, s)
  BY <1>3, ActedBranch
<1>5. Branch(Identity, m, c, t, s) = Branch(Identity, Matrix(g), c, t, s)
  <2>1. Same(Identity, Identity)
    BY DEF Same
  <2> QED BY <1>3, <2>1, SameBranch
<1> QED BY <1>2, <1>4, <1>5 DEF AreBranches

-----------------------------------------------------------------------------
(* Products of the gates' matrices *)

\* A matrix by its entries.
Square(p, q, r, s) == <<p, q, r, s>>

LEMMA SameSquare ==
    ASSUME NEW m, NEW p, NEW q, NEW r, NEW s
    PROVE  Same(m, Square(p, q, r, s)) <=> m[1] = p /\ m[2] = q /\ m[3] = r /\ m[4] = s
<1>1. \A k \in 1 .. 4 : k = 1 \/ k = 2 \/ k = 3 \/ k = 4
  OBVIOUS
<1> QED BY <1>1 DEF Same, Square

\* The identity, X and a diagonal before a matrix.
LEMMA SimpleProducts ==
    ASSUME NEW p, NEW q, NEW r, NEW s, NEW x, NEW y, {p, q, r, s, x, y} \subseteq Amplitude
    PROVE  LET m == Square(p, q, r, s) IN
           /\ Same(Promised!Product(Identity, m), m)
           /\ Same(Promised!Product(XMatrix, m), Square(r, s, p, q))
           /\ Same(Promised!Product(Square(x, Zero, Zero, y), m),
                   Square(Times(x, p), Times(x, q), Times(y, r), Times(y, s)))
<1> DEFINE m == Square(p, q, r, s)
           d == Square(x, Zero, Zero, y)
<1>1. /\ p \in Amplitude /\ q \in Amplitude /\ r \in Amplitude /\ s \in Amplitude
      /\ x \in Amplitude /\ y \in Amplitude
  OBVIOUS
<1>2. /\ Times(x, p) \in Amplitude /\ Times(x, q) \in Amplitude
      /\ Times(y, r) \in Amplitude /\ Times(y, s) \in Amplitude
  BY <1>1, ArithmeticType
<1>3. \A a \in Amplitude : /\ Plus(a, Zero) = a /\ Plus(Zero, a) = a
                          /\ Times(Zero, a) = Zero /\ Times(One, a) = a
  BY Units
<1>4. /\ m[1] = p /\ m[2] = q /\ m[3] = r /\ m[4] = s
      /\ d[1] = x /\ d[2] = Zero /\ d[3] = Zero /\ d[4] = y
  BY DEF Square
<1>5. /\ Identity[1] = One /\ Identity[2] = Zero /\ Identity[3] = Zero /\ Identity[4] = One
      /\ XMatrix[1] = Zero /\ XMatrix[2] = One /\ XMatrix[3] = One /\ XMatrix[4] = Zero
  BY DEF Identity, XMatrix
<1> HIDE DEF m, d
<1>6. Same(Promised!Product(Identity, m), Square(p, q, r, s))
  BY <1>1, <1>3, <1>4, <1>5, Products, SameSquare
<1>7. Same(Promised!Product(XMatrix, m), Square(r, s, p, q))
  BY <1>1, <1>3, <1>4, <1>5, Products, SameSquare
<1>8. Same(Promised!Product(d, m), Square(Times(x, p), Times(x, q), Times(y, r), Times(y, s)))
  BY <1>1, <1>2, <1>3, <1>4, Products, SameSquare
<1> QED BY <1>6, <1>7, <1>8 DEF m, d

\* Real amplitudes.
LEMMA Reals ==
    ASSUME NEW x \in Int, NEW y \in Int
    PROVE  /\ Times(Complex(x, 0), Complex(y, 0)) = Complex(x * y, 0)
           /\ Plus(Complex(x, 0), Complex(y, 0)) = Complex(x + y, 0)
           /\ Complex(x, 0) \in Amplitude
<1> DEFINE a == x % 31
           b == y % 31
<1>1. a \in Int /\ b \in Int /\ 0 % 31 = 0
  OBVIOUS
<1>2. (a * b) % 31 = (x * y) % 31
  <2>1. ((x % Prime) * b + (0 % Prime) * 0) % Prime = (x * b + 0 * 0) % Prime
    BY <1>1, Reduced
  <2>2. ((y % Prime) * x + (0 % Prime) * 0) % Prime = (y * x + 0 * 0) % Prime
    BY <1>1, Reduced
  <2>3. (x % Prime) * b + (0 % Prime) * 0 = a * b /\ x * b + 0 * 0 = x * b
    BY <1>1 DEF Prime
  <2>4. (y % Prime) * x + (0 % Prime) * 0 = x * b /\ y * x + 0 * 0 = x * y
    BY <1>1 DEF Prime
  <2> HIDE DEF a, b
  <2> QED BY <2>1, <2>2, <2>3, <2>4 DEF Prime
<1>3. (a + b) % 31 = (x + y) % 31
  OBVIOUS
<1>4. Complex(x, 0) = <<a, 0>> /\ Complex(y, 0) = <<b, 0>>
  BY <1>1 DEF Complex, Prime
<1>5. a * 0 = 0 /\ 0 * b = 0 /\ 0 * 0 = 0 /\ a * b - 0 = a * b /\ a * b \in Int
  BY <1>1
<1> HIDE DEF a, b
<1>6. Times(Complex(x, 0), Complex(y, 0)) = Complex(x * y, 0)
  BY <1>1, <1>2, <1>4, <1>5 DEF Times, Complex, Prime
<1>7. Plus(Complex(x, 0), Complex(y, 0)) = Complex(x + y, 0)
  BY <1>1, <1>3, <1>4 DEF Plus, Complex, Prime
<1> QED BY <1>6, <1>7, ComplexType

\* cos and sin of twice an angle.
LEMMA TwiceAnAngle ==
    ASSUME NEW h \in Int
    PROVE  LET c == Cos(h)
               s == Sin(h) IN
           /\ Complex(c * c + s * s, 0) = One
           /\ Complex(c * c - s * s, 0) = Complex(Cos(2 * h), 0)
           /\ Complex(c * s + s * c, 0) = Complex(Sin(2 * h), 0)
           /\ Complex(-(c * s) - s * c, 0) = Complex(-Sin(2 * h), 0)
<1> DEFINE c == Cos(h)
           s == Sin(h)
           p == c % Prime
           q == s % Prime
           r == (-s) % Prime
<1>1. /\ c \in Int /\ s \in Int /\ -s \in Int /\ p \in Int /\ q \in Int /\ r \in Int
      /\ -h \in Int /\ h + (-h) = 0 /\ h + h = 2 * h
  BY CosType DEF Prime
<1>2. Phase(h) = <<p, q>> /\ Phase(-h) = <<p, r>>
  BY TurnsOn DEF Phase, Complex
<1>3. Times(Phase(h), Phase(-h)) = One /\ Times(Phase(h), Phase(h)) = Phase(2 * h)
  BY <1>1, TurnsAdd, FirstAngles
<1>4. /\ Times(Phase(h), Phase(-h))[1] = (p * p - q * r) % Prime
      /\ Times(Phase(h), Phase(h))[1] = (p * p - q * q) % Prime
      /\ Times(Phase(h), Phase(h))[2] = (p * q + q * p) % Prime
  BY <1>2 DEF Times, Complex
<1>5. /\ Phase(2 * h)[1] = Cos(2 * h) % Prime /\ Phase(2 * h)[2] = Sin(2 * h) % Prime
      /\ One[1] = 1 % Prime
  BY DEF Phase, One, Complex
<1>6. /\ (p * p - q * r) % Prime = (c * c + s * s) % Prime
      /\ (p * p - q * q) % Prime = (c * c - s * s) % Prime
      /\ (p * q + q * p) % Prime = (c * s + s * c) % Prime
  <2>0. p = c % Prime /\ q = s % Prime /\ r = (-s) % Prime
    OBVIOUS
  <2> HIDE DEF c, s, p, q, r
  <2>a. \A x, y, u, v \in Int :
          /\ ((x % Prime) * u + (y % Prime) * v) % Prime = (x * u + y * v) % Prime
          /\ ((x % Prime) * u - (y % Prime) * v) % Prime = (x * u - y * v) % Prime
    BY Reduced
  <2>1. /\ (p * p - q * r) % Prime = (c * p - s * r) % Prime
        /\ (p * p - q * q) % Prime = (c * p - s * q) % Prime
        /\ (p * q + q * p) % Prime = (c * q + s * p) % Prime
    <3>1. /\ ((c % Prime) * p - (s % Prime) * r) % Prime = (c * p - s * r) % Prime
          /\ ((c % Prime) * p - (s % Prime) * q) % Prime = (c * p - s * q) % Prime
          /\ ((c % Prime) * q + (s % Prime) * p) % Prime = (c * q + s * p) % Prime
      BY <1>1, <2>a
    <3> QED BY <2>0, <3>1, Zenon
  <2>2. /\ (p * c - r * s) % Prime = (c * c - (-s) * s) % Prime
        /\ (p * c - q * s) % Prime = (c * c - s * s) % Prime
        /\ (q * c + p * s) % Prime = (s * c + c * s) % Prime
    <3>1. /\ ((c % Prime) * c - ((-s) % Prime) * s) % Prime = (c * c - (-s) * s) % Prime
          /\ ((c % Prime) * c - (s % Prime) * s) % Prime = (c * c - s * s) % Prime
          /\ ((s % Prime) * c + (c % Prime) * s) % Prime = (s * c + c * s) % Prime
      BY <1>1, <2>a
    <3> QED BY <2>0, <3>1, Zenon
  <2>3. /\ c * p - s * r = p * c - r * s /\ c * p - s * q = p * c - q * s
        /\ c * q + s * p = q * c + p * s
    <3> HIDE DEF p, q, r
    <3> QED BY <1>1
  <2>4. c * c - (-s) * s = c * c + s * s /\ s * c + c * s = c * s + s * c
    BY <1>1
  <2> HIDE DEF p, q, r
  <2> QED BY <2>1, <2>2, <2>3, <2>4
<1> HIDE DEF p, q, r
<1>7. /\ (c * c + s * s) % Prime = 1 % Prime /\ (c * c - s * s) % Prime = Cos(2 * h) % Prime
      /\ (c * s + s * c) % Prime = Sin(2 * h) % Prime
  BY <1>3, <1>4, <1>5, <1>6
<1>8. (-(c * s) - s * c) % Prime = (-Sin(2 * h)) % Prime
  <2>1. \A x, y \in Int : x % 31 = y % 31 => (-x) % 31 = (-y) % 31
    OBVIOUS
  <2>2. c * s + s * c \in Int /\ Sin(2 * h) \in Int /\ -(c * s) - s * c = -(c * s + s * c)
    <3>1. c * s \in Int /\ s * c \in Int
      BY <1>1
    <3> DEFINE u == c * s
               v == s * c
    <3> HIDE DEF u, v
    <3>2. u \in Int /\ v \in Int => u + v \in Int /\ -u - v = -(u + v)
      OBVIOUS
    <3> QED BY <3>1, <3>2, CosType DEF u, v
  <2> QED BY <1>7, <2>1, <2>2 DEF Prime
<1> QED BY <1>7, <1>8 DEF Complex, One

-----------------------------------------------------------------------------
(* Two halves of a turn *)

LEMMA SquareEntries ==
    ASSUME NEW p, NEW q, NEW r, NEW s, {p, q, r, s} \subseteq Amplitude
    PROVE  Entries(Square(p, q, r, s))
<1>1. \A k \in 1 .. 4 : k = 1 \/ k = 2 \/ k = 3 \/ k = 4
  OBVIOUS
<1> QED BY <1>1 DEF Entries, Square

\* The matrices of the spellings.
LEMMA SpelledMatrices ==
    ASSUME NEW h \in Int
    PROVE  /\ Identity = Square(One, Zero, Zero, One)
           /\ XMatrix = Square(Zero, One, One, Zero)
           /\ RZMatrix(h) = Square(Phase(-h), Zero, Zero, Phase(h))
           /\ RZMatrix(-h) = Square(Phase(h), Zero, Zero, Phase(-h))
           /\ RYMatrix(h) = Square(Complex(Cos(h), 0), Complex(-Sin(h), 0),
                                   Complex(Sin(h), 0), Complex(Cos(h), 0))
           /\ RYMatrix(-h) = Square(Complex(Cos(h), 0), Complex(Sin(h), 0),
                                    Complex(-Sin(h), 0), Complex(Cos(h), 0))
<1>1. -(-h) = h /\ -(-Sin(h)) = Sin(h)
  BY CosType
<1>2. Cos(-h) = Cos(h) /\ Sin(-h) = -Sin(h)
  BY Circle
<1> QED BY <1>1, <1>2 DEF Identity, XMatrix, RZMatrix, RYMatrix, Square

\* R(h), CNOT, R(-h), CNOT about Z: nothing, or the whole turn.
LEMMA HalvesAboutZ ==
    ASSUME Powers, NEW n \in Nat, NEW c \in 0 .. n - 1, NEW t \in 0 .. n - 1,
           NEW h \in Int, NEW s, c # t, IsState(s, n)
    PROVE  LET u1 == Branch(RZMatrix(h), RZMatrix(h), c, t, s)
               u2 == Branch(Identity, XMatrix, c, t, u1)
               u3 == Branch(RZMatrix(-h), RZMatrix(-h), c, t, u2)
               u4 == Branch(Identity, XMatrix, c, t, u3) IN
           u4 = Branch(Identity, RZMatrix(2 * h), c, t, s)
<1> DEFINE p == Phase(h)
           q == Phase(-h)
           p2 == Phase(2 * h)
           q2 == Phase(-(2 * h))
           z == Square(q, Zero, Zero, p)
           w == Square(p, Zero, Zero, q)
           b2 == Square(Zero, p, q, Zero)
           b3 == Square(Zero, p2, q2, Zero)
           b4 == Square(q2, Zero, Zero, p2)
           i == Square(One, Zero, Zero, One)
           x == Square(Zero, One, One, Zero)
           u1 == Branch(z, z, c, t, s)
           u2 == Branch(i, x, c, t, u1)
           u3 == Branch(w, w, c, t, u2)
           u4 == Branch(i, x, c, t, u3)
<1>1. /\ Zero \in Amplitude /\ One \in Amplitude /\ p \in Amplitude /\ q \in Amplitude
      /\ p2 \in Amplitude /\ q2 \in Amplitude
  BY ConstantsType
<1>2. /\ Times(p, p) = p2 /\ Times(q, q) = q2 /\ Times(p, q) = One /\ Times(q, p) = One
  <2>1. -h \in Int /\ h + h = 2 * h /\ (-h) + (-h) = -(2 * h) /\ h + (-h) = 0 /\ (-h) + h = 0
    OBVIOUS
  <2> QED BY <2>1, TurnsAdd, FirstAngles
<1>3. Times(p, Zero) = Zero /\ Times(q, Zero) = Zero
  BY <1>1, Units
<1>4. /\ i = Identity /\ x = XMatrix /\ z = RZMatrix(h) /\ w = RZMatrix(-h) /\ b4 = RZMatrix(2 * h)
  BY SpelledMatrices
<1> HIDE DEF p, q, p2, q2
<1>5. /\ Entries(z) /\ Entries(w) /\ Entries(b2) /\ Entries(b3) /\ Entries(b4) /\ Entries(i)
      /\ Entries(x)
  BY <1>1, SquareEntries
<1>6. Same(Promised!Product(i, z), z) /\ Same(Promised!Product(x, z), b2)
  BY <1>1, <1>4, SimpleProducts
<1>7. Same(Promised!Product(w, z), i) /\ Same(Promised!Product(w, b2), b3)
  <2>1. Same(Promised!Product(w, z), Square(Times(p, q), Times(p, Zero), Times(q, Zero), Times(q,
          p)))
    BY <1>1, SimpleProducts
  <2>2. Same(Promised!Product(w, b2), Square(Times(p, Zero), Times(p, p), Times(q, q), Times(q,
          Zero)))
    BY <1>1, SimpleProducts
  <2> QED BY <1>2, <1>3, <2>1, <2>2
<1>8. Same(Promised!Product(i, i), i) /\ Same(Promised!Product(x, b3), b4)
  BY <1>1, <1>4, SimpleProducts
<1> HIDE DEF z, w, b2, b3, b4, i, x
<1>9. u2 = Branch(z, b2, c, t, s)
  BY <1>5, <1>6, BranchOn
<1>10. u3 = Branch(i, b3, c, t, s)
  <2>1. Branch(w, w, c, t, Branch(z, b2, c, t, s)) = Branch(i, b3, c, t, s)
    BY <1>5, <1>7, BranchOn
  <2> HIDE DEF u2
  <2> QED BY <1>9, <2>1
<1>11. u4 = Branch(i, b4, c, t, s)
  <2>1. Branch(i, x, c, t, Branch(i, b3, c, t, s)) = Branch(i, b4, c, t, s)
    BY <1>5, <1>8, BranchOn
  <2> HIDE DEF u3
  <2> QED BY <1>10, <2>1
<1> QED BY <1>4, <1>11

\* The same about Y.
LEMMA HalvesAboutY ==
    ASSUME Powers, NEW n \in Nat, NEW c \in 0 .. n - 1, NEW t \in 0 .. n - 1,
           NEW h \in Int, NEW s, c # t, IsState(s, n)
    PROVE  LET u1 == Branch(RYMatrix(h), RYMatrix(h), c, t, s)
               u2 == Branch(Identity, XMatrix, c, t, u1)
               u3 == Branch(RYMatrix(-h), RYMatrix(-h), c, t, u2)
               u4 == Branch(Identity, XMatrix, c, t, u3) IN
           u4 = Branch(Identity, RYMatrix(2 * h), c, t, s)
<1> DEFINE p == Complex(Cos(h), 0)
           q == Complex(Sin(h), 0)
           m == Complex(-Sin(h), 0)
           p2 == Complex(Cos(2 * h), 0)
           q2 == Complex(Sin(2 * h), 0)
           m2 == Complex(-Sin(2 * h), 0)
           z == Square(p, m, q, p)
           w == Square(p, q, m, p)
           b2 == Square(q, p, p, m)
           b3 == Square(q2, p2, p2, m2)
           b4 == Square(p2, m2, q2, p2)
           i == Square(One, Zero, Zero, One)
           x == Square(Zero, One, One, Zero)
           u1 == Branch(z, z, c, t, s)
           u2 == Branch(i, x, c, t, u1)
           u3 == Branch(w, w, c, t, u2)
           u4 == Branch(i, x, c, t, u3)
<1>0. /\ Cos(h) \in Int /\ Sin(h) \in Int /\ -Sin(h) \in Int /\ 2 * h \in Int
      /\ Cos(2 * h) \in Int /\ Sin(2 * h) \in Int /\ -Sin(2 * h) \in Int
  <2>1. 2 * h \in Int
    OBVIOUS
  <2> QED BY <2>1, CosType
<1>1. /\ Zero \in Amplitude /\ One \in Amplitude /\ p \in Amplitude /\ q \in Amplitude
      /\ m \in Amplitude /\ p2 \in Amplitude /\ q2 \in Amplitude /\ m2 \in Amplitude
  BY <1>0, ComplexType, ConstantsType
<1>2. /\ Plus(Times(p, p), Times(q, q)) = One /\ Plus(Times(m, m), Times(p, p)) = One
      /\ Plus(Times(p, m), Times(q, p)) = Zero /\ Plus(Times(m, p), Times(p, q)) = Zero
      /\ Plus(Times(p, q), Times(q, p)) = q2 /\ Plus(Times(p, p), Times(q, m)) = p2
      /\ Plus(Times(m, q), Times(p, p)) = p2 /\ Plus(Times(m, p), Times(p, m)) = m2
  <2> DEFINE C == Cos(h)
             S == Sin(h)
  <2>1. /\ Complex(C * C + S * S, 0) = One /\ Complex(C * C - S * S, 0) = p2
        /\ Complex(C * S + S * C, 0) = q2 /\ Complex(-(C * S) - S * C, 0) = m2
    BY TwiceAnAngle
  <2>2. C \in Int /\ S \in Int /\ -S \in Int
    BY <1>0
  <2>3. /\ p = Complex(C, 0) /\ q = Complex(S, 0) /\ m = Complex(-S, 0) /\ Zero = Complex(0, 0)
    BY DEF Zero
  <2> HIDE DEF C, S, p, q, m, p2, q2, m2
  <2>4. \A a, b, d, e \in Int : Plus(Times(Complex(a, 0), Complex(b, 0)), Times(Complex(d, 0),
          Complex(e, 0)))
                                = Complex(a * b + d * e, 0)
    <3> SUFFICES ASSUME NEW a \in Int, NEW b \in Int, NEW d \in Int, NEW e \in Int
                 PROVE  Plus(Times(Complex(a, 0), Complex(b, 0)), Times(Complex(d, 0), Complex(e,
                          0)))
                        = Complex(a * b + d * e, 0)
      OBVIOUS
    <3>1. Times(Complex(a, 0), Complex(b, 0)) = Complex(a * b, 0)
      BY Reals
    <3>2. Times(Complex(d, 0), Complex(e, 0)) = Complex(d * e, 0)
      BY Reals
    <3>3. a * b \in Int /\ d * e \in Int
      OBVIOUS
    <3> QED BY <3>1, <3>2, <3>3, Reals
  <2>r. \E R \in Int : R = -S
    BY <2>2
  <2>5. /\ Plus(Times(p, p), Times(q, q)) = Complex(C * C + S * S, 0)
        /\ Plus(Times(m, m), Times(p, p)) = Complex((-S) * (-S) + C * C, 0)
        /\ Plus(Times(p, m), Times(q, p)) = Complex(C * (-S) + S * C, 0)
        /\ Plus(Times(m, p), Times(p, q)) = Complex((-S) * C + C * S, 0)
        /\ Plus(Times(p, q), Times(q, p)) = Complex(C * S + S * C, 0)
        /\ Plus(Times(p, p), Times(q, m)) = Complex(C * C + S * (-S), 0)
        /\ Plus(Times(m, q), Times(p, p)) = Complex((-S) * S + C * C, 0)
        /\ Plus(Times(m, p), Times(p, m)) = Complex((-S) * C + C * (-S), 0)
    <3>1. PICK R \in Int : R = -S
      BY <2>r
    <3>2. m = Complex(R, 0)
      BY <2>3, <3>1
    <3>3. \A k, l, i2, j \in {C, S, R} :
            Plus(Times(Complex(k, 0), Complex(l, 0)), Times(Complex(i2, 0), Complex(j, 0)))
            = Complex(k * l + i2 * j, 0)
      BY <2>2, <2>4, <3>1
    <3>p. p = Complex(C, 0) /\ q = Complex(S, 0)
      BY <2>3
    <3>s. C \in {C, S, R} /\ S \in {C, S, R} /\ R \in {C, S, R}
      OBVIOUS
    <3>4. /\ Plus(Times(p, p), Times(q, q)) = Complex(C * C + S * S, 0)
          /\ Plus(Times(m, m), Times(p, p)) = Complex(R * R + C * C, 0)
          /\ Plus(Times(p, m), Times(q, p)) = Complex(C * R + S * C, 0)
          /\ Plus(Times(m, p), Times(p, q)) = Complex(R * C + C * S, 0)
      BY ONLY <3>2, <3>3, <3>p, <3>s, Zenon
    <3>5. /\ Plus(Times(p, q), Times(q, p)) = Complex(C * S + S * C, 0)
          /\ Plus(Times(p, p), Times(q, m)) = Complex(C * C + S * R, 0)
          /\ Plus(Times(m, q), Times(p, p)) = Complex(R * S + C * C, 0)
          /\ Plus(Times(m, p), Times(p, m)) = Complex(R * C + C * R, 0)
      BY ONLY <3>2, <3>3, <3>p, <3>s, Zenon
    <3> QED BY <3>1, <3>4, <3>5
  <2>6. /\ (-S) * (-S) + C * C = C * C + S * S /\ C * (-S) + S * C = 0 /\ (-S) * C + C * S = 0
        /\ C * C + S * (-S) = C * C - S * S /\ (-S) * S + C * C = C * C - S * S
        /\ (-S) * C + C * (-S) = -(C * S) - S * C
    BY <2>2
  <2> QED BY <2>1, <2>3, <2>5, <2>6
<1>4. /\ i = Identity /\ x = XMatrix /\ z = RYMatrix(h) /\ w = RYMatrix(-h) /\ b4 = RYMatrix(2 * h)
  BY <1>0, SpelledMatrices
<1> HIDE DEF p, q, m, p2, q2, m2
<1>5. /\ Entries(z) /\ Entries(w) /\ Entries(b2) /\ Entries(b3) /\ Entries(b4) /\ Entries(i)
      /\ Entries(x)
  BY <1>1, SquareEntries
<1>6. Same(Promised!Product(i, z), z) /\ Same(Promised!Product(x, z), b2)
  BY <1>1, <1>4, SimpleProducts
<1>e. /\ z[1] = p /\ z[2] = m /\ z[3] = q /\ z[4] = p
      /\ w[1] = p /\ w[2] = q /\ w[3] = m /\ w[4] = p
      /\ b2[1] = q /\ b2[2] = p /\ b2[3] = p /\ b2[4] = m
  BY DEF Square
<1>8. Same(Promised!Product(i, i), i) /\ Same(Promised!Product(x, b3), b4)
  BY <1>1, <1>4, SimpleProducts
<1>i. i = Square(One, Zero, Zero, One) /\ b3 = Square(q2, p2, p2, m2)
  OBVIOUS
<1> HIDE DEF z, w, b2, b3, b4, i, x
<1>7. Same(Promised!Product(w, z), i) /\ Same(Promised!Product(w, b2), b3)
  <2>1. LET v == Promised!Product(w, z) IN
        v[1] = One /\ v[2] = Zero /\ v[3] = Zero /\ v[4] = One
    BY <1>2, <1>e, Products
  <2>2. LET v == Promised!Product(w, b2) IN
        v[1] = q2 /\ v[2] = p2 /\ v[3] = p2 /\ v[4] = m2
    BY <1>2, <1>e, Products
  <2> QED BY <1>i, <2>1, <2>2, SameSquare
<1>9. u2 = Branch(z, b2, c, t, s)
  BY <1>5, <1>6, BranchOn
<1>10. u3 = Branch(i, b3, c, t, s)
  <2>1. Branch(w, w, c, t, Branch(z, b2, c, t, s)) = Branch(i, b3, c, t, s)
    BY <1>5, <1>7, BranchOn
  <2> HIDE DEF u2
  <2> QED BY <1>9, <2>1
<1>11. u4 = Branch(i, b4, c, t, s)
  <2>1. Branch(i, x, c, t, Branch(i, b3, c, t, s)) = Branch(i, b4, c, t, s)
    BY <1>5, <1>8, BranchOn
  <2> HIDE DEF u3
  <2> QED BY <1>10, <2>1
<1> QED BY <1>4, <1>11

\* Between two H a turn about Z is one about X.
LEMMA TurnBetween ==
    ASSUME NEW x \in Int
    PROVE  LET hz == Promised!Product(RZMatrix(x), HMatrix) IN
           Same(Promised!Product(HMatrix, hz), RXMatrix(x))
<1> DEFINE p == Phase(x)
           q == Phase(-x)
           four == Complex(4, 0)
           less == Complex(-4, 0)
           C == Cos(x)
           S == Sin(x)
           hz == Promised!Product(RZMatrix(x), HMatrix)
<1>1. C \in Int /\ S \in Int /\ -S \in Int
  BY CosType
<1>2. p = Complex(C, S) /\ q = Complex(C, -S)
  BY TurnsOn DEF Phase
<1>3. /\ p \in Amplitude /\ q \in Amplitude /\ four \in Amplitude /\ less \in Amplitude
      /\ Zero \in Amplitude
  BY ComplexType, ConstantsType
<1>4. /\ RZMatrix(x)[1] = q /\ RZMatrix(x)[2] = Zero /\ RZMatrix(x)[3] = Zero /\ RZMatrix(x)[4] = p
      /\ HMatrix[1] = four /\ HMatrix[2] = four /\ HMatrix[3] = four /\ HMatrix[4] = less
  BY DEF RZMatrix, HMatrix
<1>5. \A u, v \in Int :
        LET a == Complex(u, v) IN
        /\ Times(Complex(4, 0), Times(a, Complex(4, 0))) = Complex(16 * u, 16 * v)
        /\ Times(Complex(4, 0), Times(a, Complex(-4, 0))) = Complex(-16 * u, -16 * v)
        /\ Times(Complex(-4, 0), Times(a, Complex(4, 0))) = Complex(-16 * u, -16 * v)
        /\ Times(Complex(-4, 0), Times(a, Complex(-4, 0))) = Complex(16 * u, 16 * v)
  BY DEF Times, Complex, Prime
<1>6. /\ Plus(Complex(16 * C, 16 * S), Complex(16 * C, 16 * (-S))) = Complex(C, 0)
      /\ Plus(Complex(16 * C, 16 * (-S)), Complex(16 * C, 16 * S)) = Complex(C, 0)
      /\ Plus(Complex(16 * C, 16 * (-S)), Complex(-16 * C, -16 * S)) = Complex(0, -S)
  <2> HIDE DEF C, S
  <2> QED BY <1>1 DEF Plus, Complex, Prime
<1> HIDE DEF p, q, four, less, C, S, hz
<1>7. /\ hz[1] = Times(q, four) /\ hz[2] = Times(q, four)
      /\ hz[3] = Times(p, four) /\ hz[4] = Times(p, less)
  <2>1. /\ Times(q, four) \in Amplitude /\ Times(p, four) \in Amplitude
             /\ Times(p, less) \in Amplitude
    BY <1>3, ArithmeticType
  <2>2. /\ hz[1] = Plus(Times(q, four), Times(Zero, four)) /\ hz[2]
             = Plus(Times(q, four), Times(Zero, less))
        /\ hz[3] = Plus(Times(Zero, four), Times(p, four)) /\ hz[4]
             = Plus(Times(Zero, four), Times(p, less))
    BY <1>4, Products DEF hz
  <2> QED BY <1>3, <2>1, <2>2, Units
<1>8. /\ Times(four, Times(q, four)) = Complex(16 * C, 16 * (-S))
      /\ Times(four, Times(p, four)) = Complex(16 * C, 16 * S)
      /\ Times(four, Times(p, less)) = Complex(-16 * C, -16 * S)
      /\ Times(less, Times(p, four)) = Complex(-16 * C, -16 * S)
      /\ Times(less, Times(p, less)) = Complex(16 * C, 16 * S)
  BY <1>1, <1>2, <1>5 DEF four, less
<1>9. LET v == Promised!Product(HMatrix, hz) IN
      v[1] = Complex(C, 0) /\ v[2] = Complex(0, -S) /\ v[3] = Complex(0, -S) /\ v[4] = Complex(C, 0)
  BY <1>4, <1>6, <1>7, <1>8, Products
<1>10. /\ RXMatrix(x)[1] = Complex(C, 0) /\ RXMatrix(x)[2] = Complex(0, -S)
       /\ RXMatrix(x)[3] = Complex(0, -S) /\ RXMatrix(x)[4] = Complex(C, 0)
  BY DEF RXMatrix, C, S
<1>11. \A k \in 1 .. 4 : k = 1 \/ k = 2 \/ k = 3 \/ k = 4
  OBVIOUS
<1>12. Same(Promised!Product(HMatrix, hz), RXMatrix(x))
  BY <1>9, <1>10, <1>11 DEF Same
<1> QED BY <1>12 DEF hz

LEMMA HalvesAboutX ==
    ASSUME Powers, NEW n \in Nat, NEW c \in 0 .. n - 1, NEW t \in 0 .. n - 1,
           NEW x \in Int, NEW s, c # t, IsState(s, n)
    PROVE  LET u1 == Branch(HMatrix, HMatrix, c, t, s)
               u2 == Branch(Identity, RZMatrix(x), c, t, u1)
               u3 == Branch(HMatrix, HMatrix, c, t, u2) IN
           u3 = Branch(Identity, RXMatrix(x), c, t, s)
<1> DEFINE h == HMatrix
           i == Identity
           z == RZMatrix(x)
           r == RXMatrix(x)
           a == Promised!Product(i, h)
           b == Promised!Product(z, h)
           u1 == Branch(h, h, c, t, s)
           u2 == Branch(i, z, c, t, u1)
           u3 == Branch(h, h, c, t, u2)
<1>1. Entries(h) /\ Entries(i) /\ Entries(z) /\ Entries(r)
  BY MatricesType, IdentityEntries DEF IsMatrix, Entries
<1>2. Same(Promised!Product(h, b), r)
  BY TurnBetween
<1>3. Same(Promised!Product(h, a), i)
  <2> DEFINE o == RZMatrix(16)
             r0 == RXMatrix(16)
             b0 == Promised!Product(o, h)
             C == Cos(16)
             S == Sin(16)
  <2>1. C = 1 /\ S <= 0 /\ S >= 0 /\ S \in Int
    <3>1. 16 % 16 = 0 /\ (16 - 4) % 16 = 12
      OBVIOUS
    <3> QED BY <3>1 DEF Cos, Sin
  <2>2. Complex(C, S) = One /\ Complex(C, -S) = One /\ Complex(C, 0) = One /\ Complex(0, -S) = Zero
    <3> HIDE DEF C, S
    <3> QED BY <2>1 DEF Complex, One, Zero, Prime
  <2>3. Phase(16) = One /\ Phase(-16) = One
    <3>1. Phase(-16) = Complex(C, -S)
      BY TurnsOn
    <3> QED BY <2>2, <3>1 DEF Phase
  <2>4. o = i /\ r0 = i
    BY <2>2, <2>3 DEF RZMatrix, RXMatrix, Identity
  <2>5. Same(Promised!Product(h, b0), r0)
    BY TurnBetween
  <2> HIDE DEF h, i, o, r0
  <2> QED BY <2>4, <2>5
<1>4. Entries(a) /\ Entries(b) /\ u2 = Branch(a, b, c, t, s)
  <2> HIDE DEF h, i, z
  <2> QED BY <1>1, Branches
<1> HIDE DEF h, i, z, r, a, b
<1>5. Branch(h, h, c, t, Branch(a, b, c, t, s)) = Branch(i, r, c, t, s)
  BY <1>1, <1>2, <1>3, <1>4, BranchOn
<1>6. u3 = Branch(i, r, c, t, s)
  <2> HIDE DEF u2
  <2> QED BY <1>4, <1>5
<1> QED BY <1>6 DEF h, i, z, r

-----------------------------------------------------------------------------
(* What an instruction does *)

LEMMA KetType ==
    ASSUME Powers, NEW n \in Nat, NEW j
    PROVE  IsState(Promised!Ket(j, n), n) /\ Promised!Basis(n) = Indices(n)
<1>1. Promised!Basis(n) = Indices(n)
  BY DEF Promised!Basis, Indices
<1>2. Zero \in Amplitude /\ One \in Amplitude
  BY ConstantsType
<1> QED BY <1>1, <1>2, SameArithmetic DEF Promised!Ket, IsState

LEMMA NoAngles == [k \in DOMAIN <<>> |-> Constant(<<>>[k])] = <<>>
OBVIOUS

LEMMA OneAngle == ASSUME NEW h PROVE [k \in DOMAIN <<h>> |-> Constant(<<h>>[k])] = <<Constant(h)>>
OBVIOUS

LEMMA ConstantArgument ==
    ASSUME NEW h \in Int
    PROVE  <<Constant(h)>> \in Seq(Args(0)) /\ Len(<<Constant(h)>>) = 1 /\ Constant(h).offset = h
<1>1. Constant(h) \in Args(0) /\ Constant(h).offset = h
  BY DEF Args, Param, Constant
<1> QED BY <1>1

\* An instruction's gate, as the branch it makes.
Acts(g, a, b, c, t, n) ==
    /\ g \in GateOp /\ WellFormed(g, n) /\ Entries(a) /\ Entries(b)
    /\ \A s : IsState(s, n) => Promised!Act(g, s) = Branch(a, b, c, t, s)

LEMMA ActsTurn ==
    ASSUME Powers, NEW n \in Nat, NEW c \in 0 .. n - 1, NEW t \in 0 .. n - 1, NEW h \in Int, c # t
    PROVE  /\ Acts(Meaning(Instruction("RZ", <<t>>, <<h>>)), RZMatrix(h), RZMatrix(h), c, t, n)
           /\ Acts(Meaning(Instruction("RY", <<t>>, <<h>>)), RYMatrix(h), RYMatrix(h), c, t, n)
<1> DEFINE z == Gate("RZ", <<t>>, <<Constant(h)>>)
           y == Gate("RY", <<t>>, <<Constant(h)>>)
<1>1. /\ Meaning(Instruction("RZ", <<t>>, <<h>>)) = z
      /\ Meaning(Instruction("RY", <<t>>, <<h>>)) = y
  BY OneAngle DEF Meaning, Instruction
<1>2. /\ "RZ" \in OneQubit /\ "RY" \in OneQubit /\ Arguments("RZ") = 1 /\ Arguments("RY") = 1
  BY DEF OneQubit, Arguments
<1>3. z \in GatesOn(n, 0) /\ y \in GatesOn(n, 0)
  BY <1>2, ConstantArgument, MakesOne
<1>4. /\ z.type = "RZ" /\ z.qubits[1] = t /\ z.args = <<Constant(h)>>
      /\ y.type = "RY" /\ y.qubits[1] = t /\ y.args = <<Constant(h)>>
  BY DEF Gate
<1>5. [i \in DOMAIN <<Constant(h)>> |-> <<Constant(h)>>[i].offset][1] = h
  BY ConstantArgument
<1>6. Matrix(z) = RZMatrix(h) /\ Matrix(y) = RYMatrix(h)
  BY <1>4, <1>5 DEF Matrix
<1>7. Entries(RZMatrix(h)) /\ Entries(RYMatrix(h))
  BY MatricesType DEF IsMatrix, Entries
<1> HIDE DEF z, y
<1>8. ASSUME NEW s, IsState(s, n)
      PROVE  /\ Promised!Act(z, s) = Branch(Matrix(z), Matrix(z), c, t, s)
             /\ Promised!Act(y, s) = Branch(Matrix(y), Matrix(y), c, t, s)
  <2>1. z \in GateOp /\ y \in GateOp /\ z.type \in OneQubit /\ y.type \in OneQubit
    BY <1>2, <1>3, <1>4 DEF GatesOn
  <2>2. Promised!Act(z, s) = Branch(Matrix(z), Matrix(z), c, t, s)
    BY <1>4, <1>8, <2>1, OneBranch
  <2>3. Promised!Act(y, s) = Branch(Matrix(y), Matrix(y), c, t, s)
    BY <1>4, <1>8, <2>1, OneBranch
  <2> QED BY <2>2, <2>3
<1> QED BY <1>1, <1>3, <1>6, <1>7, <1>8 DEF Acts, GatesOn

LEMMA ActsFixed ==
    ASSUME Powers, NEW n \in Nat, NEW c \in 0 .. n - 1, NEW t \in 0 .. n - 1, c # t
    PROVE  /\ Acts(Meaning(Instruction("H", <<t>>, <<>>)), HMatrix, HMatrix, c, t, n)
           /\ Acts(Meaning(Instruction("CX", <<c, t>>, <<>>)), Identity, XMatrix, c, t, n)
<1> DEFINE h == Gate("H", <<t>>, <<>>)
           x == Gate("CNOT", <<c, t>>, <<>>)
<1>1. /\ Meaning(Instruction("H", <<t>>, <<>>)) = h
      /\ Meaning(Instruction("CX", <<c, t>>, <<>>)) = x
  BY NoAngles DEF Meaning, Instruction
<1>2. /\ "H" \in OneQubit /\ "CNOT" \in TwoQubit /\ Arguments("H") = 0
      /\ <<>> \in Seq(Args(0)) /\ Len(<<>>) = 0 /\ "CNOT" # "SWAP"
  BY DEF OneQubit, TwoQubit, Arguments
<1>3. h \in GatesOn(n, 0) /\ x \in GatesOn(n, 0)
  BY <1>2, MakesOne, MakesTwo
<1>4. /\ h.type = "H" /\ h.qubits[1] = t
      /\ x.type = "CNOT" /\ x.qubits[1] = c /\ x.qubits[2] = t
  BY DEF Gate
<1>6. Matrix(h) = HMatrix /\ Matrix(x) = XMatrix
  BY <1>4 DEF Matrix
<1>7. Entries(HMatrix) /\ Entries(XMatrix) /\ Entries(Identity)
  BY MatricesType, IdentityEntries DEF IsMatrix, Entries
<1> HIDE DEF h, x
<1>8. ASSUME NEW s, IsState(s, n)
      PROVE  /\ Promised!Act(h, s) = Branch(Matrix(h), Matrix(h), c, t, s)
             /\ Promised!Act(x, s) = Branch(Identity, Matrix(x), c, t, s)
  <2>1. h \in GateOp /\ x \in GateOp /\ h.type \in OneQubit /\ x.type \in TwoQubit
          /\ x.type # "SWAP"
    BY <1>2, <1>3, <1>4 DEF GatesOn
  <2>2. Promised!Act(h, s) = Branch(Matrix(h), Matrix(h), c, t, s)
    BY <1>4, <1>8, <2>1, OneBranch
  <2>3. Promised!Act(x, s) = Branch(Identity, Matrix(x), c, t, s)
    BY <1>4, <1>8, <2>1, ControlBranch
  <2> QED BY <2>2, <2>3
<1> QED BY <1>1, <1>3, <1>6, <1>7, <1>8 DEF Acts, GatesOn

LEMMA ActsType ==
    ASSUME Powers, NEW n \in Nat, NEW c, NEW t, NEW g, NEW a, NEW b, NEW s,
           Acts(g, a, b, c, t, n), IsState(s, n)
    PROVE  /\ Promised!Act(g, s) = Branch(a, b, c, t, s)
           /\ IsState(Branch(a, b, c, t, s), n) /\ g \in GateOp /\ WellFormed(g, n)
BY ActType DEF Acts

\* The gates of a spelling.
Gates(spelling) == [k \in DOMAIN spelling |-> Meaning(spelling[k])]

LEMMA RunOfOne ==
    ASSUME Powers, NEW n \in Nat, NEW gates, NEW s, NEW u,
           GatesFit(gates, n), Len(gates) = 1, IsState(s, n), u = Promised!Act(gates[1], s)
    PROVE  RunAll(gates, s) = u
<1> DEFINE f == [k \in 0 .. 1 |-> <<s, u>>[k + 1]]
<1>1. f[0] = s /\ f[1] = u
  OBVIOUS
<1> HIDE DEF f
<1>2. \A k \in 1 .. 1 : k = 1
  OBVIOUS
<1>3. 1 - 1 = 0
  OBVIOUS
<1>4. \A k \in 1 .. Len(gates) : f[k] = Promised!Act(gates[k], f[k - 1])
  BY <1>1, <1>2, <1>3
<1>5. RunAll(gates, s) = f[Len(gates)] /\ IsState(f[Len(gates)], n)
  BY <1>1, <1>4, OneRun
<1> QED BY <1>1, <1>5

LEMMA RunOfFour ==
    ASSUME Powers, NEW n \in Nat, NEW gates, NEW s, NEW u1, NEW u2, NEW u3, NEW u4,
           GatesFit(gates, n), Len(gates) = 4, IsState(s, n),
           u1 = Promised!Act(gates[1], s), u2 = Promised!Act(gates[2], u1),
           u3 = Promised!Act(gates[3], u2), u4 = Promised!Act(gates[4], u3)
    PROVE  RunAll(gates, s) = u4
<1> DEFINE f == [k \in 0 .. 4 |-> <<s, u1, u2, u3, u4>>[k + 1]]
<1>1. f[0] = s /\ f[1] = u1 /\ f[2] = u2 /\ f[3] = u3 /\ f[4] = u4
  OBVIOUS
<1> HIDE DEF f
<1>2. \A k \in 1 .. 4 : k = 1 \/ k = 2 \/ k = 3 \/ k = 4
  OBVIOUS
<1>3. 1 - 1 = 0 /\ 2 - 1 = 1 /\ 3 - 1 = 2 /\ 4 - 1 = 3
  OBVIOUS
<1>4. \A k \in 1 .. Len(gates) : f[k] = Promised!Act(gates[k], f[k - 1])
  BY <1>1, <1>2, <1>3
<1>5. RunAll(gates, s) = f[Len(gates)] /\ IsState(f[Len(gates)], n)
  BY <1>1, <1>4, OneRun
<1> QED BY <1>1, <1>5

LEMMA RunOfSix ==
    ASSUME Powers, NEW n \in Nat, NEW gates, NEW s, NEW u1, NEW u2, NEW u3, NEW u4, NEW u5, NEW u6,
           GatesFit(gates, n), Len(gates) = 6, IsState(s, n),
           u1 = Promised!Act(gates[1], s), u2 = Promised!Act(gates[2], u1),
           u3 = Promised!Act(gates[3], u2), u4 = Promised!Act(gates[4], u3),
           u5 = Promised!Act(gates[5], u4), u6 = Promised!Act(gates[6], u5)
    PROVE  RunAll(gates, s) = u6
<1> DEFINE f == [k \in 0 .. 6 |-> <<s, u1, u2, u3, u4, u5, u6>>[k + 1]]
<1>1. /\ f[0] = s /\ f[1] = u1 /\ f[2] = u2 /\ f[3] = u3 /\ f[4] = u4 /\ f[5] = u5
      /\ f[6] = u6
  OBVIOUS
<1> HIDE DEF f
<1>2. \A k \in 1 .. 6 : k = 1 \/ k = 2 \/ k = 3 \/ k = 4 \/ k = 5 \/ k = 6
  OBVIOUS
<1>3. 1 - 1 = 0 /\ 2 - 1 = 1 /\ 3 - 1 = 2 /\ 4 - 1 = 3 /\ 5 - 1 = 4 /\ 6 - 1 = 5
  OBVIOUS
<1>4. \A k \in 1 .. Len(gates) : f[k] = Promised!Act(gates[k], f[k - 1])
  BY <1>1, <1>2, <1>3
<1>5. RunAll(gates, s) = f[Len(gates)] /\ IsState(f[Len(gates)], n)
  BY <1>1, <1>4, OneRun
<1> QED BY <1>1, <1>5

-----------------------------------------------------------------------------
(* Spellings *)

LEMMA GatesAre ==
    ASSUME NEW spelling, NEW N \in Nat,
           DOMAIN spelling = 1 .. N, NEW n,
           \A k \in 1 .. N : Meaning(spelling[k]) \in GateOp /\ WellFormed(Meaning(spelling[k]), n)
    PROVE  /\ GatesFit(Gates(spelling), n) /\ Len(Gates(spelling)) = N
           /\ \A k \in 1 .. N : Gates(spelling)[k] = Meaning(spelling[k])
<1> DEFINE gates == Gates(spelling)
<1>1. gates \in [1 .. N -> GateOp] /\ \A k \in 1 .. N : gates[k] = Meaning(spelling[k])
  BY DEF Gates
<1> HIDE DEF gates
<1>2. gates \in Seq(GateOp) /\ Len(gates) = N
  BY <1>1
<1> QED BY <1>1, <1>2 DEF GatesFit, gates

\* A controlled rotation: its qubits, and the angle that is halved.
LEMMA ControlledGate ==
    ASSUME Powers, NEW n \in Nat, NEW g \in GateOp, WellFormed(g, n), g.type \in Controlled,
           g.args[1].offset % 2 = 0, NEW s, IsState(s, n)
    PROVE  LET c == g.qubits[1]
               t == g.qubits[2]
               half == g.args[1].offset \div 2 IN
           /\ c \in 0 .. n - 1 /\ t \in 0 .. n - 1 /\ c # t
           /\ half \in Int /\ -half \in Int /\ g.args[1].offset = 2 * half
           /\ Promised!Act(g, s) = Branch(Identity, Matrix(g), c, t, s)
           /\ g.type = "CRX" => Matrix(g) = RXMatrix(2 * half)
           /\ g.type = "CRY" => Matrix(g) = RYMatrix(2 * half)
           /\ g.type = "CRZ" => Matrix(g) = RZMatrix(2 * half)
<1> DEFINE c == g.qubits[1]
           t == g.qubits[2]
           x == g.args[1].offset
           half == x \div 2
<1>1. g.type \in TwoQubit /\ g.type \notin OneQubit /\ g.type # "SWAP" /\ Arguments(g.type) = 1
  BY DEF Controlled, TwoQubit, OneQubit, Arguments
<1>2. c \in 0 .. n - 1 /\ t \in 0 .. n - 1 /\ c # t
  BY <1>1 DEF WellFormed
<1>3. g.args \in Seq(Param) /\ Len(g.args) = 1 /\ g.args[1] \in Param /\ 1 \in DOMAIN g.args
  <2>1. g.args \in Seq(Param) /\ Len(g.args) = 1
    BY <1>1 DEF GateOp
  <2> QED BY <2>1
<1>4. x \in Int
  BY <1>3 DEF Param
<1>5. half \in Int /\ -half \in Int /\ x = 2 * half
  <2>1. \A y \in Int : y % 2 = 0 => y \div 2 \in Int /\ y = 2 * (y \div 2)
    OBVIOUS
  <2>2. \A y \in Int : -y \in Int
    OBVIOUS
  <2> QED BY <1>4, <2>1, <2>2, Zenon
<1>6. [i \in DOMAIN g.args |-> g.args[i].offset][1] = x
  BY <1>3
<1>7. /\ g.type = "CRX" => Matrix(g) = RXMatrix(x)
      /\ g.type = "CRY" => Matrix(g) = RYMatrix(x)
      /\ g.type = "CRZ" => Matrix(g) = RZMatrix(x)
  BY <1>6 DEF Matrix
<1>8. Promised!Act(g, s) = Branch(Identity, Matrix(g), c, t, s)
  BY <1>1, <1>2, ControlBranch
<1> QED BY <1>2, <1>5, <1>7, <1>8

\* R(h), CNOT, R(-h), CNOT is the controlled turn by twice the angle.
LEMMA SandwichTurns ==
    ASSUME Powers, NEW n \in Nat, NEW c \in 0 .. n - 1, NEW t \in 0 .. n - 1, c # t,
           NEW h \in Int, -h \in Int
    PROVE  /\ \A s : IsState(s, n) => RunAll(Gates(Sandwich("RZ", c, t, h)), s)
                                        = Branch(Identity, RZMatrix(2 * h), c, t, s)
           /\ \A s : IsState(s, n) => RunAll(Gates(Sandwich("RY", c, t, h)), s)
                                        = Branch(Identity, RYMatrix(2 * h), c, t, s)
<1> DEFINE x == Instruction("CX", <<c, t>>, <<>>)
<1>1. Acts(Meaning(x), Identity, XMatrix, c, t, n)
  BY ActsFixed
<1>2. ASSUME NEW axis \in {"RY", "RZ"}, NEW m1, NEW m2, NEW s, IsState(s, n),
             Acts(Meaning(Instruction(axis, <<t>>, <<h>>)), m1, m1, c, t, n),
             Acts(Meaning(Instruction(axis, <<t>>, <<-h>>)), m2, m2, c, t, n)
      PROVE  RunAll(Gates(Sandwich(axis, c, t, h)), s)
             = Branch(Identity, XMatrix, c, t, Branch(m2, m2, c, t,
                 Branch(Identity, XMatrix, c, t, Branch(m1, m1, c, t, s))))
  <2> DEFINE u1 == Branch(m1, m1, c, t, s)
             u2 == Branch(Identity, XMatrix, c, t, u1)
             u3 == Branch(m2, m2, c, t, u2)
             u4 == Branch(Identity, XMatrix, c, t, u3)
             i1 == Instruction(axis, <<t>>, <<h>>)
             i3 == Instruction(axis, <<t>>, <<-h>>)
             spelling == <<i1, x, i3, x>>
             gates == Gates(spelling)
  <2>1. spelling = Sandwich(axis, c, t, h)
    BY DEF Sandwich
  <2>2. /\ Meaning(i1) \in GateOp /\ WellFormed(Meaning(i1), n)
        /\ Meaning(i3) \in GateOp /\ WellFormed(Meaning(i3), n)
        /\ Meaning(x) \in GateOp /\ WellFormed(Meaning(x), n)
    BY <1>1, <1>2 DEF Acts
  <2>3. DOMAIN spelling = 1 .. 4 /\ spelling[1] = i1 /\ spelling[2] = x /\ spelling[3] = i3
        /\ spelling[4] = x
    OBVIOUS
  <2>4. \A k \in 1 .. 4 : k = 1 \/ k = 2 \/ k = 3 \/ k = 4
    OBVIOUS
  <2> HIDE DEF i1, i3, x, spelling
  <2>5. /\ GatesFit(gates, n) /\ Len(gates) = 4 /\ gates[1] = Meaning(i1) /\ gates[2] = Meaning(x)
        /\ gates[3] = Meaning(i3) /\ gates[4] = Meaning(x)
    <3>1. \A k \in 1 .. 4 : Meaning(spelling[k]) \in GateOp /\ WellFormed(Meaning(spelling[k]), n)
      BY <2>2, <2>3, <2>4
    <3>2. /\ GatesFit(gates, n) /\ Len(gates) = 4
          /\ \A k \in 1 .. 4 : gates[k] = Meaning(spelling[k])
      BY <2>3, <3>1, GatesAre
    <3> QED BY <2>3, <3>2
  <2> HIDE DEF gates
  <2>6. u1 = Promised!Act(gates[1], s) /\ IsState(u1, n)
    BY <1>2, <2>5, ActsType DEF i1
  <2> HIDE DEF u1
  <2>7. u2 = Promised!Act(gates[2], u1) /\ IsState(u2, n)
    BY <1>1, <2>5, <2>6, ActsType
  <2> HIDE DEF u2
  <2>8. u3 = Promised!Act(gates[3], u2) /\ IsState(u3, n)
    BY <1>2, <2>5, <2>7, ActsType DEF i3
  <2> HIDE DEF u3
  <2>9. u4 = Promised!Act(gates[4], u3)
    BY <1>1, <2>5, <2>8, ActsType
  <2> HIDE DEF u4
  <2>10. RunAll(gates, s) = u4
    BY <1>2, <2>5, <2>6, <2>7, <2>8, <2>9, RunOfFour
  <2> QED BY <2>1, <2>10 DEF u4, u3, u2, u1, gates
<1> HIDE DEF x
<1>3. /\ Acts(Meaning(Instruction("RZ", <<t>>, <<h>>)), RZMatrix(h), RZMatrix(h), c, t, n)
      /\ Acts(Meaning(Instruction("RY", <<t>>, <<h>>)), RYMatrix(h), RYMatrix(h), c, t, n)
  BY ActsTurn
<1>4. /\ Acts(Meaning(Instruction("RZ", <<t>>, <<-h>>)), RZMatrix(-h), RZMatrix(-h), c, t, n)
      /\ Acts(Meaning(Instruction("RY", <<t>>, <<-h>>)), RYMatrix(-h), RYMatrix(-h), c, t, n)
  BY ActsTurn
<1>5. ASSUME NEW s, IsState(s, n)
      PROVE  RunAll(Gates(Sandwich("RZ", c, t, h)), s) = Branch(Identity, RZMatrix(2 * h), c, t, s)
  <2>1. RunAll(Gates(Sandwich("RZ", c, t, h)), s)
          = Branch(Identity, XMatrix, c, t, Branch(RZMatrix(-h), RZMatrix(-h), c, t,
              Branch(Identity, XMatrix, c, t, Branch(RZMatrix(h), RZMatrix(h), c, t, s))))
    BY <1>2, <1>3, <1>4, <1>5
  <2>2. Branch(Identity, XMatrix, c, t, Branch(RZMatrix(-h), RZMatrix(-h), c, t,
              Branch(Identity, XMatrix, c, t, Branch(RZMatrix(h), RZMatrix(h), c, t, s))))
        = Branch(Identity, RZMatrix(2 * h), c, t, s)
    BY <1>5, HalvesAboutZ
  <2> QED BY <2>1, <2>2
<1>6. ASSUME NEW s, IsState(s, n)
      PROVE  RunAll(Gates(Sandwich("RY", c, t, h)), s) = Branch(Identity, RYMatrix(2 * h), c, t, s)
  <2>1. RunAll(Gates(Sandwich("RY", c, t, h)), s)
          = Branch(Identity, XMatrix, c, t, Branch(RYMatrix(-h), RYMatrix(-h), c, t,
              Branch(Identity, XMatrix, c, t, Branch(RYMatrix(h), RYMatrix(h), c, t, s))))
    BY <1>2, <1>3, <1>4, <1>6
  <2>2. Branch(Identity, XMatrix, c, t, Branch(RYMatrix(-h), RYMatrix(-h), c, t,
              Branch(Identity, XMatrix, c, t, Branch(RYMatrix(h), RYMatrix(h), c, t, s))))
        = Branch(Identity, RYMatrix(2 * h), c, t, s)
    BY <1>6, HalvesAboutY
  <2> QED BY <2>1, <2>2
<1> QED BY <1>5, <1>6

LEMMA Wraps ==
    ASSUME NEW a, NEW b, NEW d, NEW e
    PROVE  LET s == <<a>> \o <<b, d, e, d>> \o <<a>> IN
           /\ DOMAIN s = 1 .. 6 /\ s[1] = a /\ s[2] = b /\ s[3] = d /\ s[4] = e /\ s[5] = d
           /\ s[6] = a
<1> DEFINE S == {a, b, d, e}
           one == <<a>>
           four == <<b, d, e, d>>
           five == one \o four
           six == five \o one
<1>1. one \in Seq(S) /\ Len(one) = 1 /\ one[1] = a
  OBVIOUS
<1>2. four \in Seq(S) /\ Len(four) = 4 /\ four[1] = b /\ four[2] = d /\ four[3] = e /\ four[4] = d
  OBVIOUS
<1> HIDE DEF S, one, four
<1>3. /\ five \in Seq(S) /\ Len(five) = 5
      /\ five[1] = a /\ five[2] = b /\ five[3] = d /\ five[4] = e /\ five[5] = d
  <2>1. /\ five \in Seq(S) /\ Len(five) = Len(one) + Len(four)
        /\ \A i \in 1 .. Len(one) + Len(four) :
              five[i] = IF i <= Len(one) THEN one[i] ELSE four[i - Len(one)]
    BY <1>1, <1>2, ConcatProperties
  <2> HIDE DEF five
  <2> QED BY <1>1, <1>2, <2>1
<1> HIDE DEF five
<1>4. /\ six \in Seq(S) /\ Len(six) = 6
      /\ six[1] = a /\ six[2] = b /\ six[3] = d /\ six[4] = e /\ six[5] = d /\ six[6] = a
  <2>1. /\ six \in Seq(S) /\ Len(six) = Len(five) + Len(one)
        /\ \A i \in 1 .. Len(five) + Len(one) :
              six[i] = IF i <= Len(five) THEN five[i] ELSE one[i - Len(five)]
    BY <1>1, <1>3, ConcatProperties
  <2> HIDE DEF six
  <2> QED BY <1>1, <1>3, <2>1
<1> HIDE DEF six
<1>5. DOMAIN six = 1 .. 6
  BY <1>4
<1> QED BY <1>4, <1>5 DEF six, five, four, one

\* Between two H, the controlled turn about X.
LEMMA WrappedTurns ==
    ASSUME Powers, NEW n \in Nat, NEW c \in 0 .. n - 1, NEW t \in 0 .. n - 1, c # t,
           NEW h \in Int, -h \in Int, NEW s, IsState(s, n)
    PROVE  LET i == Instruction("H", <<t>>, <<>>) IN
           RunAll(Gates(<<i>> \o Sandwich("RZ", c, t, h) \o <<i>>), s)
             = Branch(Identity, RXMatrix(2 * h), c, t, s)
<1> DEFINE i == Instruction("H", <<t>>, <<>>)
           x == Instruction("CX", <<c, t>>, <<>>)
           i1 == Instruction("RZ", <<t>>, <<h>>)
           i3 == Instruction("RZ", <<t>>, <<-h>>)
           spelling == <<i>> \o <<i1, x, i3, x>> \o <<i>>
           gates == Gates(spelling)
           z == RZMatrix(h)
           w == RZMatrix(-h)
           u1 == Branch(HMatrix, HMatrix, c, t, s)
           u2 == Branch(z, z, c, t, u1)
           u3 == Branch(Identity, XMatrix, c, t, u2)
           u4 == Branch(w, w, c, t, u3)
           u5 == Branch(Identity, XMatrix, c, t, u4)
           u6 == Branch(HMatrix, HMatrix, c, t, u5)
<1>1. spelling = <<i>> \o Sandwich("RZ", c, t, h) \o <<i>>
  BY DEF Sandwich
<1>2. /\ Acts(Meaning(i), HMatrix, HMatrix, c, t, n) /\ Acts(Meaning(x), Identity, XMatrix, c, t, n)
  BY ActsFixed
<1>3. Acts(Meaning(i1), z, z, c, t, n) /\ Acts(Meaning(i3), w, w, c, t, n)
  BY ActsTurn
<1>4. DOMAIN spelling = 1 .. 6 /\ spelling[1] = i /\ spelling[2] = i1 /\ spelling[3] = x
      /\ spelling[4] = i3 /\ spelling[5] = x /\ spelling[6] = i
  BY Wraps
<1>5. \A k \in 1 .. 6 : k = 1 \/ k = 2 \/ k = 3 \/ k = 4 \/ k = 5 \/ k = 6
  OBVIOUS
<1>6. /\ Meaning(i) \in GateOp /\ WellFormed(Meaning(i), n)
      /\ Meaning(i1) \in GateOp /\ WellFormed(Meaning(i1), n)
      /\ Meaning(i3) \in GateOp /\ WellFormed(Meaning(i3), n)
      /\ Meaning(x) \in GateOp /\ WellFormed(Meaning(x), n)
  BY <1>2, <1>3 DEF Acts
<1> HIDE DEF i, x, i1, i3, spelling, z, w
<1>7. /\ GatesFit(gates, n) /\ Len(gates) = 6 /\ gates[1] = Meaning(i) /\ gates[2] = Meaning(i1)
      /\ gates[3] = Meaning(x) /\ gates[4] = Meaning(i3) /\ gates[5] = Meaning(x)
      /\ gates[6] = Meaning(i)
  <2>1. \A k \in 1 .. 6 : Meaning(spelling[k]) \in GateOp /\ WellFormed(Meaning(spelling[k]), n)
    BY <1>4, <1>5, <1>6
  <2>2. /\ GatesFit(gates, n) /\ Len(gates) = 6
        /\ \A k \in 1 .. 6 : gates[k] = Meaning(spelling[k])
    BY <1>4, <2>1, GatesAre
  <2> QED BY <1>4, <2>2
<1> HIDE DEF gates
<1>8. u1 = Promised!Act(gates[1], s) /\ IsState(u1, n)
  BY <1>2, <1>7, ActsType
<1>z. u5 = Branch(Identity, RZMatrix(2 * h), c, t, u1)
  <2> HIDE DEF u1
  <2> QED BY <1>8, HalvesAboutZ DEF z, w
<1>y. Branch(HMatrix, HMatrix, c, t, Branch(Identity, RZMatrix(2 * h), c, t, u1))
        = Branch(Identity, RXMatrix(2 * h), c, t, s)
  <2>1. 2 * h \in Int
    OBVIOUS
  <2> QED BY <2>1, HalvesAboutX
<1> HIDE DEF u1
<1>9. u2 = Promised!Act(gates[2], u1) /\ IsState(u2, n)
  BY <1>3, <1>7, <1>8, ActsType
<1> HIDE DEF u2
<1>10. u3 = Promised!Act(gates[3], u2) /\ IsState(u3, n)
  BY <1>2, <1>7, <1>9, ActsType
<1> HIDE DEF u3
<1>11. u4 = Promised!Act(gates[4], u3) /\ IsState(u4, n)
  BY <1>3, <1>7, <1>10, ActsType
<1> HIDE DEF u4
<1>12. u5 = Promised!Act(gates[5], u4) /\ IsState(u5, n)
  BY <1>2, <1>7, <1>11, ActsType
<1>13. u6 = Branch(Identity, RXMatrix(2 * h), c, t, s)
  <2> HIDE DEF u5
  <2> QED BY <1>z, <1>y
<1> HIDE DEF u5
<1>14. u6 = Promised!Act(gates[6], u5)
  BY <1>2, <1>7, <1>12, ActsType
<1> HIDE DEF u6
<1>15. RunAll(gates, s) = u6
  BY <1>7, <1>8, <1>9, <1>10, <1>11, <1>12, <1>14, RunOfSix
<1> QED BY <1>1, <1>13, <1>15 DEF gates, i

\* What a gate does depends on its type, its qubits and its angles; the dagger
\* of S and T apart.
LEMMA SameGate ==
    ASSUME NEW g \in GateOp, NEW h \in GateOp, NEW s,
           h.type = g.type, h.qubits = g.qubits, Len(h.args) = Len(g.args),
           \A i \in 1 .. Len(g.args) : h.args[i].offset = g.args[i].offset,
           g.type \in {"S", "T"} => h.dagger = g.dagger
    PROVE  Promised!Act(h, s) = Promised!Act(g, s)
<1> DEFINE a == [i \in DOMAIN g.args |-> g.args[i].offset]
           b == [i \in DOMAIN h.args |-> h.args[i].offset]
<1>1. g.args \in Seq(Param) /\ h.args \in Seq(Param)
  BY DEF GateOp
<1>2. DOMAIN g.args = 1 .. Len(g.args) /\ DOMAIN h.args = 1 .. Len(g.args)
  BY <1>1
<1>3. a = b
  BY <1>2
<1>4. Promised!Definition(h) = Promised!Definition(g)
  <2>1. CASE g.type \in {"S", "T"}
    BY <2>1 DEF Promised!Definition
  <2>2. CASE g.type \notin {"S", "T"}
    <3> HIDE DEF a, b
    <3>1. /\ a = [i \in DOMAIN g.args |-> g.args[i].offset]
          /\ b = [i \in DOMAIN h.args |-> h.args[i].offset]
      BY DEF a, b
    <3> QED BY <1>3, <2>2, <3>1 DEF Promised!Definition
  <2> QED BY <2>1, <2>2
<1> QED BY <1>4 DEF Promised!Act

\* A gate that is spelled by one instruction.
LEMMA OneInstruction ==
    ASSUME NEW g \in GateOp, Label(g) \in Known
    PROVE  LET h == Meaning(Instruction(Label(g), g.qubits, Angles(g))) IN
           /\ h \in GateOp /\ h.type = g.type /\ h.qubits = g.qubits
           /\ \A s : Promised!Act(h, s) = Promised!Act(g, s)
<1> DEFINE i == Instruction(Label(g), g.qubits, Angles(g))
           args == [k \in DOMAIN Angles(g) |-> Constant(Angles(g)[k])]
           h == Meaning(i)
<1>1. /\ g.type \in OneQubit \cup TwoQubit /\ g.qubits \in Seq(Nat) /\ g.args \in Seq(Param)
      /\ g.dagger \in BOOLEAN
      /\ Len(g.qubits) = (IF g.type \in OneQubit THEN 1 ELSE 2)
      /\ Len(g.args) = Arguments(g.type)
  BY DEF GateOp
<1>2. DOMAIN g.args = 1 .. Len(g.args) /\ \A k \in 1 .. Len(g.args) : g.args[k] \in Param
  BY <1>1
<1>3. /\ args = [k \in 1 .. Len(g.args) |-> Constant(g.args[k].offset)]
      /\ \A k \in 1 .. Len(g.args) : /\ Constant(g.args[k].offset) \in Param
                                    /\ Constant(g.args[k].offset).offset = g.args[k].offset
  BY <1>2 DEF Angles, Constant, Param
<1>4. /\ args \in Seq(Param) /\ Len(args) = Len(g.args)
      /\ \A k \in 1 .. Len(g.args) : args[k].offset = g.args[k].offset
  <2> HIDE DEF args
  <2>1. Len(g.args) \in Nat
    BY <1>1
  <2> QED BY <1>3, <2>1
<1> HIDE DEF args
<1>5. i = [label |-> Label(g), qubits |-> g.qubits, angles |-> Angles(g)]
  BY DEF Instruction
<1>6. h = CASE Label(g) = "CX" -> Gate("CNOT", g.qubits, args)
            [] Label(g) = "SDG" -> Dagger(Gate("S", g.qubits, args))
            [] Label(g) = "TDG" -> Dagger(Gate("T", g.qubits, args))
            [] OTHER -> Gate(Label(g), g.qubits, args)
  BY <1>5 DEF Meaning, args
<1> HIDE DEF i, h
<1>7. /\ h \in [type : {g.type}, qubits : {g.qubits}, args : {args}, dagger : BOOLEAN]
      /\ g.type \in {"S", "T"} => h.dagger = g.dagger
  <2>1. CASE Label(g) = "CX"
    <3>1. g.type = "CNOT"
      BY <1>1, <2>1 DEF Label, OneQubit, TwoQubit
    <3>2. h = [type |-> "CNOT", qubits |-> g.qubits, args |-> args, dagger |-> FALSE]
      BY <1>6, <2>1 DEF Gate
    <3> QED BY <3>1, <3>2
  <2>2. CASE Label(g) = "SDG"
    <3>1. g.type = "S" /\ g.dagger = TRUE
      BY <1>1, <2>2 DEF Label, OneQubit, TwoQubit
    <3>2. h = [type |-> "S", qubits |-> g.qubits, args |-> args, dagger |-> TRUE]
      BY <1>6, <2>2 DEF Gate, Dagger
    <3> QED BY <3>1, <3>2
  <2>3. CASE Label(g) = "TDG"
    <3>1. g.type = "T" /\ g.dagger = TRUE
      BY <1>1, <2>3 DEF Label, OneQubit, TwoQubit
    <3>2. h = [type |-> "T", qubits |-> g.qubits, args |-> args, dagger |-> TRUE]
      BY <1>6, <2>3 DEF Gate, Dagger
    <3> QED BY <3>1, <3>2
  <2>4. CASE Label(g) \notin {"CX", "SDG", "TDG"}
    <3>1. Label(g) = g.type /\ (g.type \in {"S", "T"} => g.dagger = FALSE)
      BY <1>1, <2>4 DEF Label, OneQubit, TwoQubit
    <3>2. h = [type |-> g.type, qubits |-> g.qubits, args |-> args, dagger |-> FALSE]
      BY <1>6, <2>4, <3>1 DEF Gate
    <3> QED BY <3>1, <3>2
  <2> QED BY <2>1, <2>2, <2>3, <2>4
<1>8. h.type = g.type /\ h.qubits = g.qubits /\ h.args = args /\ h.dagger \in BOOLEAN
  BY <1>7
<1>9. h \in GateOp
  <2>1. h \in [type : OneQubit \cup TwoQubit, qubits : Seq(Nat), args : Seq(Param),
          dagger : BOOLEAN]
    BY <1>1, <1>4, <1>7
  <2> QED BY <1>1, <1>4, <1>8, <2>1 DEF GateOp
<1>10. ASSUME NEW s PROVE Promised!Act(h, s) = Promised!Act(g, s)
  BY <1>4, <1>7, <1>8, <1>9, SameGate
<1> QED BY <1>8, <1>9, <1>10 DEF h, i

\* The instructions a gate is spelled by do together what it does.
LEMMA Spells ==
    ASSUME Powers, NEW n \in Nat, NEW g \in GateOp, NEW s, WellFormed(g, n), g.type # "U",
           g.type \in Controlled => g.args[1].offset % 2 = 0, IsState(s, n)
    PROVE  RunAll(Gates(Spelled(g)), s) = Promised!Act(g, s)
<1> DEFINE c == g.qubits[1]
           t == g.qubits[2]
           half == g.args[1].offset \div 2
           i == Instruction("H", <<t>>, <<>>)
<1>0. g.type \in OneQubit \cup TwoQubit /\ g.dagger \in BOOLEAN
  BY DEF GateOp
<1>1. CASE g.type \in Controlled
  <2>1. Label(g) = g.type /\ g.type \notin Known
    BY <1>1 DEF Label, Controlled, Known
  <2>2. Spelled(g) = Deconstructed(g)
    BY <1>1, <2>1 DEF Spelled
  <2>3. /\ c \in 0 .. n - 1 /\ t \in 0 .. n - 1 /\ c # t /\ half \in Int /\ -half \in Int
        /\ Promised!Act(g, s) = Branch(Identity, Matrix(g), c, t, s)
        /\ g.type = "CRX" => Matrix(g) = RXMatrix(2 * half)
        /\ g.type = "CRY" => Matrix(g) = RYMatrix(2 * half)
        /\ g.type = "CRZ" => Matrix(g) = RZMatrix(2 * half)
    BY <1>1, ControlledGate
  <2>4. /\ g.type = "CRZ" => Deconstructed(g) = Sandwich("RZ", c, t, half)
        /\ g.type = "CRY" => Deconstructed(g) = Sandwich("RY", c, t, half)
        /\ g.type = "CRX" => Deconstructed(g) = <<i>> \o Sandwich("RZ", c, t, half) \o <<i>>
    BY DEF Deconstructed
  <2>5. g.type = "CRX" \/ g.type = "CRY" \/ g.type = "CRZ"
    BY <1>1 DEF Controlled
  <2> HIDE DEF c, t, half
  <2>6. /\ RunAll(Gates(Sandwich("RZ", c, t, half)), s)
             = Branch(Identity, RZMatrix(2 * half), c, t, s)
        /\ RunAll(Gates(Sandwich("RY", c, t, half)), s)
             = Branch(Identity, RYMatrix(2 * half), c, t, s)
    BY <2>3, SandwichTurns
  <2>7. RunAll(Gates(<<i>> \o Sandwich("RZ", c, t, half) \o <<i>>), s)
          = Branch(Identity, RXMatrix(2 * half), c, t, s)
    BY <2>3, WrappedTurns
  <2> HIDE DEF i
  <2> QED BY <2>2, <2>3, <2>4, <2>5, <2>6, <2>7
<1>2. CASE g.type \notin Controlled
  <2> DEFINE one == Instruction(Label(g), g.qubits, Angles(g))
             spelling == <<one>>
             h == Meaning(one)
  <2>1. Label(g) \in Known /\ Label(g) \notin Controlled
    BY <1>0, <1>2 DEF Label, Controlled, Known, OneQubit, TwoQubit
  <2>2. Spelled(g) = spelling
    BY ONLY <2>1, Zenon DEF Spelled, spelling, one
  <2>3. /\ h \in GateOp /\ h.type = g.type /\ h.qubits = g.qubits
        /\ \A u : Promised!Act(h, u) = Promised!Act(g, u)
    BY <2>1, OneInstruction
  <2>4. DOMAIN spelling = 1 .. 1 /\ spelling[1] = one /\ \A k \in 1 .. 1 : k = 1
    OBVIOUS
  <2> HIDE DEF one, spelling
  <2>5. h \in GateOp /\ WellFormed(h, n)
    BY <2>3 DEF WellFormed
  <2>6. \A k \in 1 .. 1 : Meaning(spelling[k]) \in GateOp /\ WellFormed(Meaning(spelling[k]), n)
    BY <2>4, <2>5
  <2>7. /\ GatesFit(Gates(spelling), n) /\ Len(Gates(spelling)) = 1
        /\ \A k \in 1 .. 1 : Gates(spelling)[k] = Meaning(spelling[k])
    BY <2>4, <2>6, GatesAre
  <2>8. Gates(spelling)[1] = h
    BY <2>4, <2>7
  <2> HIDE DEF h
  <2>9. RunAll(Gates(spelling), s) = Promised!Act(h, s)
    BY <2>7, <2>8, RunOfOne
  <2> QED BY <2>2, <2>3, <2>9
<1> QED BY <1>1, <1>2

-----------------------------------------------------------------------------
(* The gate's own qubits *)

LEMMA LastQubit ==
    ASSUME NEW g \in GateOp, NEW n \in Nat, WellFormed(g, n)
    PROVE  LET m == 1 + Max(Range(g.qubits)) IN m \in Nat /\ WellFormed(g, m)
<1> DEFINE S == Range(g.qubits)
<1>1. ASSUME NEW x \in S, \A y \in S : x >= y, S \subseteq Nat
      PROVE  Max(S) \in S /\ \A y \in S : Max(S) >= y
  BY <1>1 DEF Max
<1>2. CASE g.type \in OneQubit /\ g.qubits \in [1 .. 1 -> 0 .. n - 1]
  <2> DEFINE q == g.qubits[1]
  <2>1. q \in Nat /\ S = {q}
    BY <1>2 DEF Range
  <2> HIDE DEF S, q
  <2>2. Max(S) = q
    BY <1>1, <2>1
  <2>3. 1 + q \in Nat /\ q \in 0 .. (1 + q) - 1
    BY <2>1
  <2>4. g.qubits \in [1 .. 1 -> 0 .. (1 + q) - 1]
    BY <1>2, <2>3 DEF q
  <2> QED BY <1>2, <2>2, <2>3, <2>4 DEF WellFormed, S
<1>3. CASE /\ g.type \in TwoQubit /\ g.qubits \in [1 .. 2 -> 0 .. n - 1]
           /\ g.qubits[1] # g.qubits[2]
  <2> DEFINE p == g.qubits[1]
             q == g.qubits[2]
             m == Max(S)
  <2>1. p \in Nat /\ q \in Nat /\ S = {p, q}
    BY <1>3 DEF Range
  <2>2. \A k \in 1 .. 2 : k = 1 \/ k = 2
    OBVIOUS
  <2> HIDE DEF S
  <2>3. m \in {p, q} /\ m >= p /\ m >= q
    BY <1>1, <2>1
  <2>4. g.qubits = [k \in 1 .. 2 |-> g.qubits[k]]
    BY <1>3
  <2> HIDE DEF p, q, m
  <2>5. m \in Nat /\ 1 + m \in Nat /\ p \in 0 .. (1 + m) - 1 /\ q \in 0 .. (1 + m) - 1
    BY <2>1, <2>3
  <2>6. g.qubits \in [1 .. 2 -> 0 .. (1 + m) - 1]
    BY <2>2, <2>4, <2>5 DEF p, q
  <2> QED BY <1>3, <2>5, <2>6 DEF WellFormed, S, m
<1> QED BY <1>2, <1>3 DEF WellFormed

LEMMA SpellsSame ==
    ASSUME Powers, NEW n \in Nat, NEW g \in GateOp, WellFormed(g, n), g.type # "U",
           g.type \in Controlled => g.args[1].offset % 2 = 0
    PROVE  SameAction(g, Spelled(g))
<1> DEFINE m == 1 + Max(Range(g.qubits))
<1>1. m \in Nat /\ WellFormed(g, m)
  BY LastQubit
<1> HIDE DEF m
<1>2. ASSUME NEW j
      PROVE  RunAll(Gates(Spelled(g)), Promised!Ket(j, m)) = Promised!Act(g, Promised!Ket(j, m))
  BY <1>1, Spells, KetType
<1> QED BY <1>2 DEF SameAction, Gates, m

Worded(i) == [i EXCEPT !.angles = [k \in DOMAIN @ |-> Printed(@[k])]]
Words(spelling) == [k \in DOMAIN spelling |-> Worded(spelling[k])]

\* The text keeps the sign of an angle, and is exact for what it has printed.
LEMMA PrintedFacts ==
    ASSUME TranslationAssumption, NEW a \in Int
    PROVE  Printed(a) \in Int /\ Printed(-a) = -Printed(a) /\ (2 * Printed(a)) \div 2 = Printed(a)
           /\ (2 * Printed(a)) % 2 = 0
<1>1. Grain \in Int /\ Grain > 0
  BY DEF TranslationAssumption
<1>2. 0 % Grain = 0 /\ a % Grain \in Int /\ (-a) % Grain \in Int
  BY <1>1
<1>3. Printed(a) \in Int /\ Printed(-a) = -Printed(a)
  <2>1. CASE a > 0
    BY <1>2, <2>1 DEF Printed
  <2>2. CASE a < 0
    <3>1. -a >= 0 /\ -(-a) = a
      BY <2>2
    <3> QED BY <1>2, <2>2, <3>1 DEF Printed
  <2>3. CASE a >= 0 /\ a <= 0
    <3>1. -a = a /\ -a >= 0
      BY <2>3
    <3>2. a % Grain = 0
      <4>1. a = 0
        BY <2>3
      <4> QED BY <1>2, <4>1
    <3>3. Printed(a) = a
      BY <2>3, <3>2 DEF Printed
    <3> QED BY <2>3, <3>1, <3>3
  <2> QED BY <2>1, <2>2, <2>3
<1> QED BY <1>3

LEMMA WordedIs ==
    ASSUME NEW label, NEW qubits
    PROVE  /\ Worded(Instruction(label, qubits, <<>>)) = Instruction(label, qubits, <<>>)
           /\ \A h : Worded(Instruction(label, qubits, <<h>>))
                       = Instruction(label, qubits, <<Printed(h)>>)
<1>1. [k \in DOMAIN <<>> |-> Printed(<<>>[k])] = <<>>
  OBVIOUS
<1>2. ASSUME NEW h PROVE [k \in DOMAIN <<h>> |-> Printed(<<h>>[k])] = <<Printed(h)>>
  OBVIOUS
<1> QED BY <1>1, <1>2 DEF Worded, Instruction

LEMMA WordsOfFour ==
    ASSUME NEW a, NEW b, NEW d
    PROVE  Words(<<a, b, d, b>>) = <<Worded(a), Worded(b), Worded(d), Worded(b)>>
BY DEF Words

LEMMA WordsOfSix ==
    ASSUME NEW a, NEW b, NEW d, NEW e
    PROVE  Words(<<a>> \o <<b, d, e, d>> \o <<a>>)
             = <<Worded(a)>> \o <<Worded(b), Worded(d), Worded(e), Worded(d)>> \o <<Worded(a)>>
<1> DEFINE s == <<a>> \o <<b, d, e, d>> \o <<a>>
           t == <<Worded(a)>> \o <<Worded(b), Worded(d), Worded(e), Worded(d)>> \o <<Worded(a)>>
           S == {Worded(a), Worded(b), Worded(d), Worded(e)}
<1>1. DOMAIN s = 1 .. 6 /\ s[1] = a /\ s[2] = b /\ s[3] = d /\ s[4] = e /\ s[5] = d /\ s[6] = a
  BY Wraps
<1>2. DOMAIN t = 1 .. 6 /\ t[1] = Worded(a) /\ t[2] = Worded(b) /\ t[3] = Worded(d)
      /\ t[4] = Worded(e) /\ t[5] = Worded(d) /\ t[6] = Worded(a)
  BY Wraps
<1>3. t = [k \in DOMAIN t |-> t[k]]
  <2>1. <<Worded(a)>> \in Seq(S) /\ <<Worded(b), Worded(d), Worded(e), Worded(d)>> \in Seq(S)
    OBVIOUS
  <2>2. t \in Seq(S)
    <3> HIDE DEF S
    <3> QED BY <2>1
  <2> HIDE DEF t, S
  <2> QED BY <2>2
<1> HIDE DEF s, t
<1>4. \A k \in 1 .. 6 : k = 1 \/ k = 2 \/ k = 3 \/ k = 4 \/ k = 5 \/ k = 6
  OBVIOUS
<1>5. \A k \in 1 .. 6 : Worded(s[k]) = t[k]
  BY <1>1, <1>2, <1>4
<1>6. Words(s) = [k \in 1 .. 6 |-> Worded(s[k])]
  BY <1>1 DEF Words
<1>7. t = [k \in 1 .. 6 |-> t[k]]
  BY <1>2, <1>3
<1> QED BY <1>5, <1>6, <1>7 DEF s, t

\* The text of a gate spells the gate whose angle is the one printed.
LEMMA RoundedSpelling ==
    ASSUME TranslationAssumption, NEW n, NEW g \in GateOp, WellFormed(g, n), g.type # "U"
    PROVE  /\ Rounded(g) \in GateOp /\ Rounded(g).type = g.type /\ WellFormed(Rounded(g), n)
           /\ g.type \in Controlled => Rounded(g).args[1].offset % 2 = 0
           /\ QasmSpelling(g) = Spelled(Rounded(g))
<1> DEFINE kept(a) == IF g.type \in Controlled THEN 2 * Printed(a.offset \div 2)
                      ELSE Printed(a.offset)
           args == [i \in DOMAIN g.args |-> Constant(kept(g.args[i]))]
           r == Rounded(g)
           half == g.args[1].offset \div 2
           c == g.qubits[1]
           t == g.qubits[2]
<1>1. /\ g \in [type : OneQubit \cup TwoQubit, qubits : Seq(Nat), args : Seq(Param),
                dagger : BOOLEAN]
      /\ Len(g.qubits) = (IF g.type \in OneQubit THEN 1 ELSE 2)
      /\ Len(g.args) = Arguments(g.type)
      /\ DOMAIN g.args = 1 .. Len(g.args) /\ Len(g.args) \in Nat
      /\ \A i \in 1 .. Len(g.args) : g.args[i] \in Param
  BY DEF GateOp
<1>2. ASSUME NEW i \in 1 .. Len(g.args) PROVE kept(g.args[i]) \in Int
  <2>1. g.args[i].offset \in Int /\ g.args[i].offset \div 2 \in Int
    BY <1>1 DEF Param
  <2>2. Printed(g.args[i].offset) \in Int /\ Printed(g.args[i].offset \div 2) \in Int
    BY <2>1, PrintedFacts
  <2> QED BY <2>2
<1>3. r = [type |-> g.type, qubits |-> g.qubits, args |-> args, dagger |-> g.dagger]
  <2>1. r = [g EXCEPT !.args = args]
    BY Zenon DEF Rounded
  <2> HIDE DEF args, r
  <2> QED BY <1>1, <2>1
<1> HIDE DEF r
<1>4. args \in Seq(Param) /\ Len(args) = Len(g.args)
  <2>1. \A i \in 1 .. Len(g.args) : Constant(kept(g.args[i])) \in Param
    BY <1>2 DEF Constant, Param
  <2>2. args = [i \in 1 .. Len(g.args) |-> Constant(kept(g.args[i]))]
    BY <1>1
  <2> HIDE DEF args, kept
  <2> QED BY <1>1, <2>1, <2>2
<1>5. \A i \in DOMAIN g.args : args[i].offset = kept(g.args[i])
  BY DEF Constant
<1> HIDE DEF args
<1>6. r \in GateOp /\ r.type = g.type /\ r.qubits = g.qubits /\ r.args = args
      /\ r.dagger = g.dagger
  BY <1>1, <1>3, <1>4 DEF GateOp
<1>7. WellFormed(r, n)
  BY <1>6 DEF WellFormed
<1>8. ASSUME g.type \in Controlled
      PROVE  /\ half \in Int /\ args[1].offset = 2 * Printed(half)
             /\ r.args[1].offset \div 2 = Printed(half) /\ r.args[1].offset % 2 = 0
             /\ -half \in Int /\ Printed(half) \in Int /\ Printed(-half) = -Printed(half)
  <2>1. Len(g.args) = 1
    BY <1>1, <1>8 DEF Controlled, Arguments
  <2>2. g.args[1].offset \in Int
    BY <1>1, <2>1 DEF Param
  <2>3. args[1].offset = 2 * Printed(half)
    BY <1>1, <1>5, <1>8, <2>1
  <2>4. half \in Int /\ -half \in Int
    BY <2>2
  <2> HIDE DEF half
  <2>5. /\ Printed(half) \in Int /\ Printed(-half) = -Printed(half)
        /\ (2 * Printed(half)) \div 2 = Printed(half) /\ (2 * Printed(half)) % 2 = 0
    BY <2>4, PrintedFacts
  <2> QED BY <1>6, <2>3, <2>4, <2>5
<1>9. Label(r) = Label(g)
  BY <1>6 DEF Label
<1> HIDE DEF kept, half
<1>10. QasmSpelling(g) = Spelled(r)
  <2>1. CASE g.type \in Controlled
    <3> DEFINE x == Instruction("CX", <<c, t>>, <<>>)
               h == Instruction("H", <<t>>, <<>>)
               p == Printed(half)
    <3>1. /\ Label(g) = g.type /\ g.type \notin Known
          /\ g.type = "CRX" \/ g.type = "CRY" \/ g.type = "CRZ"
      BY <2>1 DEF Label, Controlled, Known
    <3>2. Spelled(g) = Deconstructed(g) /\ Spelled(r) = Deconstructed(r)
      BY <1>9, <2>1, <3>1 DEF Spelled
    <3>3. /\ g.type = "CRZ" => Deconstructed(g) = Sandwich("RZ", c, t, half)
          /\ g.type = "CRY" => Deconstructed(g) = Sandwich("RY", c, t, half)
          /\ g.type = "CRX" => Deconstructed(g) = <<h>> \o Sandwich("RZ", c, t, half) \o <<h>>
      BY DEF Deconstructed, half
    <3>4. r.args[1].offset \div 2 = p
      BY <1>8, <2>1
    <3>5. /\ g.type = "CRZ" => Deconstructed(r) = Sandwich("RZ", c, t, p)
          /\ g.type = "CRY" => Deconstructed(r) = Sandwich("RY", c, t, p)
          /\ g.type = "CRX" => Deconstructed(r) = <<h>> \o Sandwich("RZ", c, t, p) \o <<h>>
      BY <1>6, <3>4 DEF Deconstructed
    <3>6. Worded(x) = x /\ Worded(h) = h
      BY WordedIs
    <3>7. ASSUME NEW axis
          PROVE  /\ Worded(Instruction(axis, <<t>>, <<half>>)) = Instruction(axis, <<t>>, <<p>>)
                 /\ Worded(Instruction(axis, <<t>>, <<-half>>)) = Instruction(axis, <<t>>, <<-p>>)
      <4>1. Printed(-half) = -p
        BY <1>8, <2>1
      <4> HIDE DEF p
      <4>2. Worded(Instruction(axis, <<t>>, <<half>>)) = Instruction(axis, <<t>>, <<Printed(half)>>)
        BY WordedIs
      <4>3. Worded(Instruction(axis, <<t>>, <<-half>>))
              = Instruction(axis, <<t>>, <<Printed(-half)>>)
        BY WordedIs
      <4> QED BY <4>1, <4>2, <4>3 DEF p
    <3> HIDE DEF x, h, p
    <3>8. ASSUME NEW axis PROVE Words(Sandwich(axis, c, t, half)) = Sandwich(axis, c, t, p)
      <4>1. Sandwich(axis, c, t, half) = <<Instruction(axis, <<t>>, <<half>>), x,
                                           Instruction(axis, <<t>>, <<-half>>), x>>
        BY DEF Sandwich, x
      <4>2. Sandwich(axis, c, t, p) = <<Instruction(axis, <<t>>, <<p>>), x,
                                        Instruction(axis, <<t>>, <<-p>>), x>>
        BY DEF Sandwich, x
      <4>3. Words(Sandwich(axis, c, t, half))
              = <<Worded(Instruction(axis, <<t>>, <<half>>)), Worded(x),
                  Worded(Instruction(axis, <<t>>, <<-half>>)), Worded(x)>>
        BY ONLY <4>1, WordsOfFour
      <4> QED BY ONLY <3>6, <3>7, <4>2, <4>3
    <3>9. Words(<<h>> \o Sandwich("RZ", c, t, half) \o <<h>>)
            = <<h>> \o Sandwich("RZ", c, t, p) \o <<h>>
      <4> DEFINE u == Instruction("RZ", <<t>>, <<half>>)
                 v == Instruction("RZ", <<t>>, <<-half>>)
      <4>1. Sandwich("RZ", c, t, half) = <<u, x, v, x>>
        BY DEF Sandwich, x
      <4>2. Sandwich("RZ", c, t, p) = <<Worded(u), x, Worded(v), x>>
        <5>1. Sandwich("RZ", c, t, p) = <<Instruction("RZ", <<t>>, <<p>>), x,
                                          Instruction("RZ", <<t>>, <<-p>>), x>>
          BY DEF Sandwich, x
        <5> QED BY <3>7, <5>1
      <4> HIDE DEF u, v
      <4>3. Words(<<h>> \o <<u, x, v, x>> \o <<h>>)
              = <<Worded(h)>> \o <<Worded(u), Worded(x), Worded(v), Worded(x)>> \o <<Worded(h)>>
        BY ONLY WordsOfSix
      <4> QED BY ONLY <3>6, <4>1, <4>2, <4>3
    <3>10. Words(Spelled(g)) = Spelled(r)
      <4>1. CASE g.type = "CRX"
        BY ONLY <3>2, <3>3, <3>5, <3>9, <4>1
      <4>2. CASE g.type = "CRY"
        BY ONLY <3>2, <3>3, <3>5, <3>8, <4>2
      <4>3. CASE g.type = "CRZ"
        BY ONLY <3>2, <3>3, <3>5, <3>8, <4>3
      <4> QED BY <3>1, <4>1, <4>2, <4>3
    <3>11. Spelled(g) # Refused
      <4>1. ASSUME NEW axis PROVE Sandwich(axis, c, t, half) # <<>>
        BY DEF Sandwich
      <4>2. <<h>> \o Sandwich("RZ", c, t, half) \o <<h>> # <<>>
        <5>1. DOMAIN (<<h>> \o Sandwich("RZ", c, t, half) \o <<h>>) = 1 .. 6
          BY Wraps DEF Sandwich
        <5> HIDE DEF h
        <5> QED BY <5>1
      <4>3. CASE g.type = "CRX"
        BY ONLY <3>2, <3>3, <4>2, <4>3 DEF Refused
      <4>4. CASE g.type = "CRY"
        BY ONLY <3>2, <3>3, <4>1, <4>4 DEF Refused
      <4>5. CASE g.type = "CRZ"
        BY ONLY <3>2, <3>3, <4>1, <4>5 DEF Refused
      <4> QED BY <3>1, <4>3, <4>4, <4>5
    <3> QED BY <3>10, <3>11 DEF QasmSpelling, Words, Worded
  <2>2. CASE g.type \notin Controlled
    <3> DEFINE i == Instruction(Label(g), g.qubits, Angles(g))
    <3>1. Label(g) \in Known /\ Label(g) \notin Controlled
      BY <1>1, <2>2 DEF Label, Controlled, Known, OneQubit, TwoQubit
    <3>2. Spelled(g) = <<i>>
      BY ONLY <3>1, Zenon DEF Spelled, i
    <3>3. Spelled(r) = <<Instruction(Label(r), r.qubits, Angles(r))>>
      BY ONLY <1>9, <3>1, Zenon DEF Spelled
    <3>4. Angles(r) = [k \in DOMAIN g.args |-> Printed(g.args[k].offset)]
      <4>1. DOMAIN args = DOMAIN g.args
        BY <1>1, <1>4
      <4>2. \A k \in DOMAIN g.args : args[k].offset = Printed(g.args[k].offset)
        BY <1>5, <2>2 DEF kept
      <4> QED BY <1>6, <4>1, <4>2 DEF Angles
    <3>5. Worded(i) = Instruction(Label(g), g.qubits,
                                  [k \in DOMAIN g.args |-> Printed(g.args[k].offset)])
      <4>1. [k \in DOMAIN Angles(g) |-> Printed(Angles(g)[k])]
              = [k \in DOMAIN g.args |-> Printed(g.args[k].offset)]
        BY DEF Angles
      <4>2. i = [label |-> Label(g), qubits |-> g.qubits, angles |-> Angles(g)]
        BY DEF Instruction
      <4>3. Worded(i) = [label |-> Label(g), qubits |-> g.qubits,
                         angles |-> [k \in DOMAIN Angles(g) |-> Printed(Angles(g)[k])]]
        BY <4>2 DEF Worded
      <4> QED BY ONLY <4>1, <4>3 DEF Instruction
    <3>6. Spelled(r) = <<Worded(i)>>
      BY <1>6, <1>9, <3>3, <3>4, <3>5
    <3> HIDE DEF i
    <3>7. Words(<<i>>) = <<Worded(i)>> /\ <<i>> # Refused
      BY DEF Words, Refused
    <3> QED BY <3>2, <3>6, <3>7 DEF QasmSpelling, Words, Worded
  <2> QED BY <2>1, <2>2
<1> QED BY <1>6, <1>7, <1>8, <1>10 DEF r

LEMMA BothRefuse ==
    ASSUME NEW g, g.type = "U"
    PROVE  CunqaSpelling(g) = Refused /\ QasmSpelling(g) = Refused
<1>1. Label(g) = "U"
  BY DEF Label
<1>2. Spelled(g) = Refused
  BY <1>1 DEF Spelled, Known, Controlled
<1> QED BY <1>2 DEF CunqaSpelling, QasmSpelling

\* What either remote backend is sent for a gate of the circuit does what the
\* simulators do for it, on every state of its qubits.
LEMMA Translates == ASSUME Powers, IInv PROVE TranslationIsExact
<1> SUFFICES ASSUME NEW g \in Range(circuit.ops), ~IsParametric(circuit)
             PROVE  IF g.type = "U" THEN CunqaSpelling(g) = Refused /\ QasmSpelling(g) = Refused
                    ELSE SameAction(g, CunqaSpelling(g)) /\ SameAction(Rounded(g), QasmSpelling(g))
  BY DEF TranslationIsExact
<1> DEFINE n == circuit.n
<1>1. n \in Nat /\ circuit \in CircuitsOn(n)
  BY RuntimeAssumption DEF IInv, CircuitOK
<1>2. g \in GatesOn(n, circuit.params) /\ GateIsParametric(g) = FALSE
  <2>1. PICK k \in DOMAIN circuit.ops : g = circuit.ops[k]
    BY DEF Range
  <2> QED BY <1>1, <2>1 DEF CircuitsOn, IsParametric, GateIsParametric
<1>3. g \in GateOp /\ WellFormed(g, n) /\ Halved(g)
  BY <1>2 DEF GatesOn
<1>4. CASE g.type = "U"
  BY <1>4, BothRefuse
<1>5. CASE g.type # "U"
  <2>1. g.type \in Controlled => g.args[1].offset % 2 = 0
    <3>1. g.type \in Controlled => 1 \in DOMAIN g.args
      BY <1>3 DEF GateOp, Controlled, Arguments
    <3> QED BY <1>3, <3>1 DEF Halved
  <2>2. SameAction(g, CunqaSpelling(g))
    BY <1>1, <1>3, <1>5, <2>1, SpellsSame DEF CunqaSpelling
  <2> DEFINE r == Rounded(g)
  <2>3. /\ r \in GateOp /\ r.type = g.type /\ WellFormed(r, n)
        /\ g.type \in Controlled => r.args[1].offset % 2 = 0
        /\ QasmSpelling(g) = Spelled(r)
    BY <1>3, <1>5, RoundedSpelling, TranslationAssumption
  <2> HIDE DEF r
  <2>4. SameAction(r, QasmSpelling(g))
    BY <1>1, <1>5, <2>3, SpellsSame
  <2> QED BY <1>5, <2>2, <2>4 DEF r
<1> QED BY <1>4, <1>5

\* What deconstruct_gate(), gate_to_instruction() and to_qasm2() make of a gate
\* the library built does to any state of any number of qubits what the
\* simulators do for the gate, up to the digits of its angle; both refuse U, and
\* nothing else.
THEOREM TranslationsAreExact ==
    ASSUME Doubling
    PROVE  Spec => []TranslationIsExact
<1>p. Powers
  BY PowersDivide
<1>1. Init => IInv
  BY InitIInv
<1>2. IInv /\ [Next]_vars => IInv'
  BY <1>p, StepIInv
<1>3. IInv => TranslationIsExact
  BY <1>p, Translates
<1> QED BY <1>1, <1>2, <1>3, PTL DEF Spec

-----------------------------------------------------------------------------
(* What a call has added *)

\* What a call has added is what is appended to the circuit it was made on.
LEMMA AddedIs ==
    ASSUME NEW S, NEW c, c.ops \in Seq(S), NEW gates \in Seq(S), NEW d, d.ops = c.ops \o gates
    PROVE  Added(c, d) = gates
<1> DEFINE a == c.ops
           N == Len(a)
           L == Len(gates)
<1>1. N \in Nat /\ L \in Nat /\ Len(a \o gates) = N + L
  OBVIOUS
<1>2. \A k \in 1 .. L : (a \o gates)[N + k] = gates[k]
  OBVIOUS
<1>3. Added(c, d) = SubSeq(a \o gates, N + 1, N + L)
  BY <1>1 DEF Added
<1> DEFINE w == a \o gates
           m == N + 1
           l == N + L
           u == SubSeq(w, m, l)
<1>4. w \in Seq(S) /\ Len(w) = l /\ m \in Nat /\ l \in Nat /\ m >= 1
  BY <1>1
<1>5. l - m + 1 = L
  BY <1>1
<1> HIDE DEF w
<1>6. /\ u \in Seq(S) /\ Len(u) = L
      /\ \A k \in 1 .. L : u[k] = w[m + k - 1]
  <2> HIDE DEF m, l, N, L
  <2>1. \A k \in m .. l : w[k] \in S
    BY <1>4
  <2>2. u \in Seq(S) /\ Len(u) = IF m <= l THEN l - m + 1 ELSE 0
    BY <1>4, <2>1
  <2>3. \A k \in 1 .. l - m + 1 : u[k] = w[m + k - 1]
    BY <1>4, <2>1
  <2> QED BY <1>1, <1>4, <1>5, <2>2, <2>3
<1>7. \A k \in 1 .. L : u[k] = gates[k]
  <2>1. \A k \in 1 .. L : m + k - 1 = N + k
    BY <1>1
  <2> QED BY <1>2, <1>6, <2>1 DEF w
<1> HIDE DEF u, m, l
<1>8. u = gates
  BY <1>6, <1>7
<1> QED BY <1>3, <1>8 DEF u, m, l, w

LEMMA Regroups ==
    ASSUME NEW a \in Seq(GateOp), NEW b \in Seq(GateOp), NEW d \in Seq(GateOp)
    PROVE  (a \o b) \o d = a \o (b \o d)
BY ConcatAssociative

-----------------------------------------------------------------------------
(* The pairs of an entangling block *)

\* A sequence of the elements of a set, each of them once.
Lists(s, S) ==
    /\ s \in Seq(S)
    /\ \A x \in S : \E i \in 1 .. Len(s) : s[i] = x
    /\ \A i, j \in 1 .. Len(s) : s[i] = s[j] => i = j

LEMMA ListsAll ==
    ASSUME NEW S, NEW s, Lists(s, S)
    PROVE  /\ Cardinality(S) = Len(s) /\ Len(s) \in Nat
           /\ {s[i] : i \in 1 .. Len(s)} = S
<1>1. /\ s \in Seq(S) /\ Len(s) \in Nat /\ s \in [1 .. Len(s) -> S]
      /\ \A x \in S : \E i \in 1 .. Len(s) : s[i] = x
      /\ \A i, j \in 1 .. Len(s) : s[i] = s[j] => i = j
  BY DEF Lists
<1>2. s \in Bijection(1 .. Len(s), S)
  BY <1>1 DEF Bijection, Injection, Surjection, IsInjective
<1>3. ExistsBijection(1 .. Len(s), S)
  BY <1>2 DEF ExistsBijection
<1>4. Cardinality(S) = Len(s)
  BY <1>1, <1>3, FS_CountingElements
<1>5. {s[i] : i \in 1 .. Len(s)} = S
  BY <1>1
<1> QED BY <1>1, <1>4, <1>5

LEMMA ListsJoin ==
    ASSUME NEW S, NEW s, Lists(s, S), NEW T, NEW t, Lists(t, T), S \cap T = {},
           NEW U, U = S \cup T
    PROVE  Lists(s \o t, U)
<1> DEFINE w == s \o t
           a == Len(s)
           b == Len(t)
<1>1. /\ a \in Nat /\ b \in Nat /\ s \in Seq(S) /\ t \in Seq(T)
      /\ \A i \in 1 .. a : s[i] \in S
      /\ \A i \in 1 .. b : t[i] \in T
      /\ \A x \in S : \E i \in 1 .. a : s[i] = x
      /\ \A x \in T : \E i \in 1 .. b : t[i] = x
      /\ \A i, j \in 1 .. a : s[i] = s[j] => i = j
      /\ \A i, j \in 1 .. b : t[i] = t[j] => i = j
  BY DEF Lists
<1>2. /\ Len(w) = a + b
      /\ \A i \in 1 .. a + b : w[i] = IF i <= a THEN s[i] ELSE t[i - a]
  <2>1. s \in Seq(U) /\ t \in Seq(U)
    BY <1>1
  <2> QED BY <2>1, ConcatProperties
<1>3. w \in Seq(U)
  <2>1. s \in Seq(U) /\ t \in Seq(U)
    BY <1>1
  <2> QED BY <2>1, ConcatProperties
<1> HIDE DEF w, a, b
<1>4. ASSUME NEW x \in U PROVE \E i \in 1 .. a + b : w[i] = x
  <2>1. CASE x \in S
    <3>1. PICK i \in 1 .. a : s[i] = x
      BY <1>1, <2>1
    <3>2. i \in 1 .. a + b /\ i <= a
      BY <1>1
    <3> QED BY <1>2, <3>1, <3>2
  <2>2. CASE x \in T
    <3>1. PICK i \in 1 .. b : t[i] = x
      BY <1>1, <2>2
    <3>2. a + i \in 1 .. a + b /\ ~(a + i <= a) /\ (a + i) - a = i
      BY <1>1
    <3> QED BY <1>2, <3>1, <3>2
  <2> QED BY <2>1, <2>2
<1>5. ASSUME NEW i \in 1 .. a + b, NEW j \in 1 .. a + b, w[i] = w[j] PROVE i = j
  <2>1. CASE i <= a /\ j <= a
    BY <1>1, <1>2, <1>5, <2>1
  <2>2. CASE ~(i <= a) /\ ~(j <= a)
    <3>1. i - a \in 1 .. b /\ j - a \in 1 .. b
      BY <1>1, <2>2
    <3>2. t[i - a] = t[j - a]
      BY <1>2, <1>5, <2>2
    <3>3. i - a = j - a
      BY <1>1, <3>1, <3>2
    <3> QED BY <1>1, <3>3
  <2>3. CASE i <= a /\ ~(j <= a)
    <3>1. i \in 1 .. a /\ j - a \in 1 .. b
      BY <1>1, <2>3
    <3>2. s[i] = t[j - a]
      BY <1>2, <1>5, <2>3
    <3> QED BY <1>1, <3>1, <3>2
  <2>4. CASE ~(i <= a) /\ j <= a
    <3>1. j \in 1 .. a /\ i - a \in 1 .. b
      BY <1>1, <2>4
    <3>2. s[j] = t[i - a]
      BY <1>2, <1>5, <2>4
    <3> QED BY <1>1, <3>1, <3>2
  <2> QED BY <2>1, <2>2, <2>3, <2>4
<1> QED BY <1>2, <1>3, <1>4, <1>5 DEF Lists, w

\* The pairs of neighbours, the lower one being of S.
Neighbours(S) == {<<i, i + 1>> : i \in S}

LEMMA ChainLists ==
    ASSUME NEW n \in Nat, n >= 2
    PROVE  Lists(Chain(n), Neighbours(0 .. n - 2))
<1> DEFINE s == Chain(n)
           S == Neighbours(0 .. n - 2)
<1>1. s = [i \in 1 .. n - 1 |-> <<i - 1, i>>] /\ n - 1 \in Nat
  BY DEF Chain
<1>2. ASSUME NEW i \in 1 .. n - 1 PROVE s[i] = <<i - 1, (i - 1) + 1>> /\ i - 1 \in 0 .. n - 2
  BY <1>1
<1>3. Len(s) = n - 1 /\ s \in Seq(S)
  BY <1>1, <1>2 DEF Neighbours
<1>4. ASSUME NEW x \in S PROVE \E i \in 1 .. n - 1 : s[i] = x
  <2>1. PICK a \in 0 .. n - 2 : x = <<a, a + 1>>
    BY DEF Neighbours
  <2>2. a + 1 \in 1 .. n - 1 /\ (a + 1) - 1 = a
    OBVIOUS
  <2> QED BY <1>1, <2>1, <2>2
<1>5. ASSUME NEW i \in 1 .. n - 1, NEW j \in 1 .. n - 1, s[i] = s[j] PROVE i = j
  BY <1>1, <1>5
<1> QED BY <1>3, <1>4, <1>5 DEF Lists

LEMMA EvensList ==
    ASSUME NEW n \in Nat, n >= 2
    PROVE  /\ Lists(Evens(n), Neighbours({i \in 0 .. n - 2 : i % 2 = 0}))
           /\ \A i \in 1 .. Len(Evens(n)) : Evens(n)[i][1] % 2 = 0
<1> DEFINE s == Evens(n)
           E == {i \in 0 .. n - 2 : i % 2 = 0}
           N == n \div 2
<1>1. s = [i \in 1 .. N |-> <<2 * i - 2, 2 * i - 1>>] /\ N \in Nat
  BY DEF Evens
<1>2. ASSUME NEW i \in 1 .. N
      PROVE  s[i] = <<2 * i - 2, (2 * i - 2) + 1>> /\ 2 * i - 2 \in E
  <2>1. s[i] = <<2 * i - 2, 2 * i - 1>>
    BY <1>1
  <2> QED BY <2>1
<1>3. Len(s) = N /\ s \in Seq(Neighbours(E))
  <2>1. Len(s) = N /\ s = [i \in 1 .. N |-> s[i]]
    BY <1>1
  <2>2. \A i \in 1 .. N : s[i] \in Neighbours(E)
    BY <1>2, Zenon DEF Neighbours
  <2> HIDE DEF N, E, s
  <2> QED BY <1>1, <2>1, <2>2
<1>4. ASSUME NEW x \in Neighbours(E) PROVE \E i \in 1 .. N : s[i] = x
  <2>1. PICK a \in E : x = <<a, a + 1>>
    BY DEF Neighbours
  <2> DEFINE i == (a \div 2) + 1
  <2>2. i \in 1 .. N /\ 2 * i - 2 = a /\ 2 * i - 1 = a + 1
    OBVIOUS
  <2> HIDE DEF i
  <2> QED BY <1>1, <2>1, <2>2
<1>5. ASSUME NEW i \in 1 .. N, NEW j \in 1 .. N, s[i] = s[j] PROVE i = j
  <2>1. s[i][1] = 2 * i - 2 /\ s[j][1] = 2 * j - 2
    BY <1>1
  <2> QED BY <1>5, <2>1
<1>6. \A i \in 1 .. N : s[i][1] % 2 = 0
  BY <1>2
<1> QED BY <1>3, <1>4, <1>5, <1>6 DEF Lists

LEMMA OddsList ==
    ASSUME NEW n \in Nat, n >= 2
    PROVE  /\ Lists(Odds(n), Neighbours({i \in 0 .. n - 2 : i % 2 = 1}))
           /\ \A i \in 1 .. Len(Odds(n)) : Odds(n)[i][1] % 2 = 1
<1> DEFINE s == Odds(n)
           E == {i \in 0 .. n - 2 : i % 2 = 1}
           N == (n - 1) \div 2
<1>1. s = [i \in 1 .. N |-> <<2 * i - 1, 2 * i>>] /\ N \in Nat
  BY DEF Odds
<1>2. ASSUME NEW i \in 1 .. N
      PROVE  s[i] = <<2 * i - 1, (2 * i - 1) + 1>> /\ 2 * i - 1 \in E
  <2>1. s[i] = <<2 * i - 1, 2 * i>>
    BY <1>1
  <2> QED BY <2>1
<1>3. Len(s) = N /\ s \in Seq(Neighbours(E))
  <2>1. Len(s) = N /\ s = [i \in 1 .. N |-> s[i]]
    BY <1>1
  <2>2. \A i \in 1 .. N : s[i] \in Neighbours(E)
    BY <1>2, Zenon DEF Neighbours
  <2> HIDE DEF N, E, s
  <2> QED BY <1>1, <2>1, <2>2
<1>4. ASSUME NEW x \in Neighbours(E) PROVE \E i \in 1 .. N : s[i] = x
  <2>1. PICK a \in E : x = <<a, a + 1>>
    BY DEF Neighbours
  <2> DEFINE i == (a + 1) \div 2
  <2>2. i \in 1 .. N /\ 2 * i - 1 = a /\ 2 * i = a + 1
    OBVIOUS
  <2> HIDE DEF i
  <2> QED BY <1>1, <2>1, <2>2
<1>5. ASSUME NEW i \in 1 .. N, NEW j \in 1 .. N, s[i] = s[j] PROVE i = j
  <2>1. s[i][1] = 2 * i - 1 /\ s[j][1] = 2 * j - 1
    BY <1>1
  <2> QED BY <1>5, <2>1
<1>6. \A i \in 1 .. N : s[i][1] % 2 = 1
  BY <1>2
<1> QED BY <1>3, <1>4, <1>5, <1>6 DEF Lists

\* The pairs whose first is below k.
Below(n, k) == {p \in (0 .. n - 1) \X (0 .. n - 1) : p[1] < p[2] /\ p[1] < k}

LEMMA RowLists ==
    ASSUME NEW n \in Nat, NEW k \in 1 .. n
    PROVE  Lists([j \in 1 .. n - 1 - (k - 1) |-> <<k - 1, (k - 1) + j>>],
                 Below(n, k) \ Below(n, k - 1))
<1> DEFINE N == n - k
           s == [j \in 1 .. N |-> <<k - 1, (k - 1) + j>>]
           S == Below(n, k) \ Below(n, k - 1)
<1>0. n - 1 - (k - 1) = N /\ N \in Nat
  OBVIOUS
<1>1. ASSUME NEW j \in 1 .. N PROVE s[j] = <<k - 1, (k - 1) + j>> /\ s[j] \in S
  <2>1. s[j] = <<k - 1, (k - 1) + j>>
    OBVIOUS
  <2>2. k - 1 \in 0 .. n - 1 /\ (k - 1) + j \in 0 .. n - 1
    OBVIOUS
  <2> QED BY <2>1, <2>2 DEF Below
<1>2. Len(s) = N /\ s \in Seq(S)
  <2>1. Len(s) = N /\ s = [j \in 1 .. N |-> s[j]]
    BY <1>0
  <2>2. \A j \in 1 .. N : s[j] \in S
    BY <1>1
  <2> HIDE DEF N, S, s
  <2> QED BY <1>0, <2>1, <2>2
<1>3. ASSUME NEW x \in S PROVE \E j \in 1 .. N : s[j] = x
  <2>1. PICK a \in 0 .. n - 1, b \in 0 .. n - 1 : x = <<a, b>> /\ a < b /\ a < k /\ ~(a < k - 1)
    BY DEF Below
  <2>2. a = k - 1 /\ b - (k - 1) \in 1 .. N /\ (k - 1) + (b - (k - 1)) = b
    BY <2>1
  <2> QED BY <1>1, <2>1, <2>2
<1>4. ASSUME NEW i \in 1 .. N, NEW j \in 1 .. N, s[i] = s[j] PROVE i = j
  <2>1. s[i][2] = (k - 1) + i /\ s[j][2] = (k - 1) + j
    BY <1>1
  <2> QED BY <1>4, <2>1
<1>5. Lists(s, S)
  BY <1>2, <1>3, <1>4 DEF Lists
<1> QED BY <1>0, <1>5

LEMMA AllPairsList ==
    ASSUME NEW n \in Nat
    PROVE  Lists(AllPairs(n), Below(n, n))
<1> DEFINE from == [i \in 1 .. n |-> i - 1]
           row(i) == [k \in 1 .. n - 1 - i |-> <<i, i + k>>]
           N == n
           V == Seq(PairsOf(n))
           base == <<>>
           whole == AllPairs(n)
           Next1(d, k) == d \o row(from[k])
           F(it) == [S \in SUBSET (1 .. N) |->
                       IF S = {} THEN base ELSE Next1(it[S \ {Max(S)}], Max(S))]
<1>1. N \in Nat /\ base \in V
  OBVIOUS
<1>2. \A d \in V, k \in 1 .. N : Next1(d, k) \in V
  <2>1. ASSUME NEW k \in 1 .. n PROVE row(from[k]) \in Seq(PairsOf(n))
    <3>1. from[k] = k - 1 /\ k - 1 \in 0 .. n - 1
      OBVIOUS
    <3>2. n - 1 - (k - 1) \in Nat
      OBVIOUS
    <3>3. \A j \in 1 .. n - 1 - (k - 1) : <<k - 1, k - 1 + j>> \in PairsOf(n)
      BY <3>1 DEF PairsOf
    <3> QED BY <3>1, <3>2, <3>3
  <2> HIDE DEF row, from
  <2> QED BY <2>1
<1>3. whole = (CHOOSE it : it = F(it))[1 .. N]
  BY DEF AllPairs, FoldLeft, MapThenFoldSet
<1>g. ASSUME NEW k \in 1 .. n, NEW d
      PROVE  Next1(d, k) = d \o [j \in 1 .. n - 1 - (k - 1) |-> <<k - 1, (k - 1) + j>>]
  <2>1. from[k] = k - 1
    OBVIOUS
  <2> HIDE DEF from
  <2> QED BY <2>1
<1> HIDE DEF N, V, base, Next1, whole
<1>4. \E it : it = F(it)
  <2> DEFINE step == [p \in V \X (1 .. N) |-> Next1(p[1], p[2])]
  <2>1. \A d \in V, k \in 1 .. N : step[<<d, k>>] = Next1(d, k)
    OBVIOUS
  <2> HIDE DEF step
  <2>2. PICK it : Folds(it, N, base, step, V)
    <3>1. \A d \in V, k \in 1 .. N : step[<<d, k>>] \in V
      BY <1>2, <2>1
    <3> QED BY <1>1, <3>1, FoldExists
  <2>3. /\ it \in [SUBSET (1 .. N) -> V]
        /\ \A S \in SUBSET (1 .. N) :
              it[S] = IF S = {} THEN base ELSE step[<<it[S \ {Max(S)}], Max(S)>>]
    BY <2>2 DEF Folds
  <2>4. ASSUME NEW S \in SUBSET (1 .. N)
        PROVE  it[S] = IF S = {} THEN base ELSE Next1(it[S \ {Max(S)}], Max(S))
    <3>1. CASE S # {}
      <4>1. Max(S) \in 1 .. N /\ it[S \ {Max(S)}] \in V
        BY <1>1, <2>3, <3>1, Greatest
      <4> QED BY <2>1, <2>3, <3>1, <4>1
    <3> QED BY <2>3, <3>1
  <2>5. it = F(it)
    BY <2>3, <2>4
  <2> QED BY <2>5
<1>5. PICK it : it = F(it) /\ whole = it[1 .. N]
  BY <1>3, <1>4
<1>6. it[{}] = base
  BY <1>5
<1>7. ASSUME NEW k \in 1 .. N PROVE it[1 .. k] = Next1(it[1 .. k - 1], k)
  <2>1. Max(1 .. k) = k /\ (1 .. k) \ {k} = 1 .. k - 1
    BY <1>1, PartOfAll, GreatestOfAll
  <2>2. 1 .. k \in SUBSET (1 .. N) /\ 1 .. k # {}
    BY <1>1, PartOfAll
  <2> QED BY <1>5, <2>1, <2>2
<1> DEFINE f == [k \in 0 .. N |-> it[1 .. k]]
<1>8. f[0] = base /\ f[N] = whole
  <2>1. 1 .. 0 = {} /\ 0 \in 0 .. N /\ N \in 0 .. N
    BY <1>1
  <2> QED BY <1>5, <1>6, <2>1
<1>9. \A k \in 1 .. N : f[k] = Next1(f[k - 1], k)
  <2>1. \A k \in 1 .. N : k - 1 \in 0 .. N /\ k \in 0 .. N
    BY <1>1
  <2> QED BY <1>7, <2>1
<1> HIDE DEF f
<1>10. \A k \in 0 .. N : f[k] \in V
  <2> DEFINE T == {k \in 0 .. N : f[k] \in V}
  <2>1. 0 \in T
    BY <1>1, <1>8
  <2>2. \A k \in 1 .. N : k - 1 \in T => k \in T
    BY <1>2, <1>9
  <2>3. \A k \in 0 .. N : k \in T
    <3> HIDE DEF T
    <3> QED BY <1>1, <2>1, <2>2, Climb
  <2> QED BY <2>3
<1> DEFINE T == {k \in 0 .. n : Lists(f[k], Below(n, k))}
<1>11. 0 \in T
  <2>1. Below(n, 0) = {}
    BY DEF Below
  <2>2. f[0] = <<>> /\ Len(<<>>) = 0
    BY <1>8 DEF base
  <2>3. Lists(f[0], {})
    BY <2>2 DEF Lists
  <2> QED BY <2>1, <2>3
<1>12. ASSUME NEW k \in 1 .. n, k - 1 \in T PROVE k \in T
  <2> DEFINE t == [j \in 1 .. n - 1 - (k - 1) |-> <<k - 1, (k - 1) + j>>]
             S == Below(n, k - 1)
             U == Below(n, k)
             R == U \ S
  <2>1. Lists(t, R)
    BY RowLists
  <2>2. f[k] = f[k - 1] \o t
    BY <1>9, <1>g DEF N
  <2>3. Lists(f[k - 1], S)
    BY <1>12
  <2>4. U = S \cup R /\ S \cap R = {}
    <3>1. S \subseteq U
      BY DEF Below
    <3> QED BY <3>1
  <2> HIDE DEF S, U, R, t
  <2>5. Lists(f[k - 1] \o t, U)
    BY <2>1, <2>3, <2>4, ListsJoin
  <2>6. Lists(f[k], Below(n, k))
    BY <2>2, <2>5 DEF U
  <2>7. k \in 0 .. n
    OBVIOUS
  <2> QED BY <2>6, <2>7
<1>13. \A k \in 0 .. n : k \in T
  <2> HIDE DEF T
  <2> QED BY <1>11, <1>12, Climb
<1>14. n \in 0 .. n
  OBVIOUS
<1> QED BY <1>8, <1>13, <1>14 DEF whole, N

\* The pairs of an entangling block are those documented, each of them once.
LEMMA PairsAreDocumented ==
    ASSUME NEW n \in Nat, NEW e \in Entanglements
    PROVE  Lists(EntanglementPairs(n, e), DocumentedPairs(n, e))
<1> DEFINE D == DocumentedPairs(n, e)
           chain == Neighbours(0 .. n - 2)
           q == 0 .. n - 1
<1>0. D = {p \in q \X q : \/ e = "Full" /\ p[1] < p[2]
                          \/ e # "Full" /\ p[2] = p[1] + 1
                          \/ e = "Circular" /\ n > 2 /\ p = <<n - 1, 0>>}
  BY DEF DocumentedPairs
<1>1. chain = {p \in q \X q : p[2] = p[1] + 1}
  <2>1. ASSUME NEW i \in 0 .. n - 2 PROVE <<i, i + 1>> \in q \X q
    OBVIOUS
  <2>2. ASSUME NEW p \in q \X q, p[2] = p[1] + 1
        PROVE  p[1] \in 0 .. n - 2 /\ p = <<p[1], p[1] + 1>>
    <3>1. PICK a \in q, b \in q : p = <<a, b>>
      OBVIOUS
    <3> QED BY <2>2, <3>1
  <2>3. chain \subseteq {p \in q \X q : p[2] = p[1] + 1}
    <3> SUFFICES ASSUME NEW x \in chain PROVE x \in q \X q /\ x[2] = x[1] + 1
      OBVIOUS
    <3>1. PICK i \in 0 .. n - 2 : x = <<i, i + 1>>
      BY DEF Neighbours
    <3> QED BY <2>1, <3>1
  <2>4. ASSUME NEW p \in q \X q, p[2] = p[1] + 1 PROVE p \in chain
    BY <2>2, <2>4, Zenon DEF Neighbours
  <2> QED BY <2>3, <2>4
<1> HIDE DEF D, chain
<1>2. CASE n < 2
  <2>1. EntanglementPairs(n, e) = <<>>
    BY <1>2 DEF EntanglementPairs
  <2>2. D = {}
    <3> SUFFICES ASSUME NEW p \in D PROVE FALSE
      OBVIOUS
    <3>1. PICK a \in q, b \in q : p = <<a, b>>
      BY <1>0
    <3>2. a = 0 /\ b = 0
      BY <1>2
    <3> QED BY <1>0, <1>2, <3>1, <3>2
  <2>3. Lists(<<>>, {})
    <3>1. <<>> \in Seq({}) /\ Len(<<>>) = 0
      OBVIOUS
    <3> QED BY <3>1 DEF Lists
  <2> QED BY <2>1, <2>2, <2>3 DEF D
<1>3. CASE n >= 2
  <2>1. Lists(Chain(n), chain)
    BY <1>3, ChainLists DEF chain
  <2>2. CASE e = "Linear"
    <3>1. D = chain
      BY <1>0, <1>1, <2>2
    <3>2. EntanglementPairs(n, e) = Chain(n)
      BY <1>3, <2>2 DEF EntanglementPairs
    <3> QED BY <2>1, <3>1, <3>2 DEF D
  <2>3. CASE e = "Circular"
    <3>1. CASE n > 2
      <4> DEFINE p == <<n - 1, 0>>
                 last == <<p>>
      <4>1. EntanglementPairs(n, e) = Chain(n) \o last
        BY <1>3, <2>3, <3>1 DEF EntanglementPairs
      <4>2. p \in q \X q /\ p \notin chain
        BY <1>1, <3>1
      <4>3. D = chain \cup {p}
        BY <1>0, <1>1, <2>3, <3>1, <4>2
      <4> HIDE DEF p
      <4>4. Lists(last, {p})
        <5>1. last \in Seq({p}) /\ Len(last) = 1 /\ last[1] = p
          OBVIOUS
        <5> HIDE DEF last
        <5> QED BY <5>1 DEF Lists
      <4>5. chain \cap {p} = {}
        BY <4>2
      <4> DEFINE T == {p}
      <4> HIDE DEF T, last
      <4>6. Lists(last, T) /\ chain \cap T = {} /\ D = chain \cup T
        BY <4>3, <4>4, <4>5 DEF T
      <4>7. Lists(Chain(n) \o last, D)
        BY <2>1, <4>6, ListsJoin
      <4> QED BY <4>1, <4>7 DEF D
    <3>2. CASE n = 2
      <4>1. EntanglementPairs(n, e) = Chain(n) \o <<>>
        BY <2>3, <3>2 DEF EntanglementPairs
      <4>2. Chain(n) \o <<>> = Chain(n)
        <5>1. Chain(n) \in Seq(chain)
          BY <2>1 DEF Lists
        <5> HIDE DEF q
        <5> QED BY <5>1, ConcatEmptySeq
      <4>3. D = chain
        BY <1>0, <1>1, <2>3, <3>2
      <4> QED BY <2>1, <4>1, <4>2, <4>3 DEF D
    <3> QED BY <1>3, <3>1, <3>2
  <2>4. CASE e = "Full"
    <3>1. D = Below(n, n)
      <4>1. D = {p \in q \X q : p[1] < p[2]}
        BY <1>0, <2>4
      <4>2. Below(n, n) = {p \in q \X q : p[1] < p[2] /\ p[1] < n}
        BY DEF Below
      <4>3. ASSUME NEW p \in q \X q PROVE p[1] < n
        <5>1. p[1] \in q
          OBVIOUS
        <5> QED BY <5>1
      <4> QED BY <4>1, <4>2, <4>3
    <3>2. EntanglementPairs(n, e) = AllPairs(n)
      BY <1>3, <2>4 DEF EntanglementPairs
    <3> QED BY <3>1, <3>2, AllPairsList DEF D
  <2>5. CASE e = "Pairwise"
    <3> DEFINE E == {i \in 0 .. n - 2 : i % 2 = 0}
               O == {i \in 0 .. n - 2 : i % 2 = 1}
               S == Neighbours(E)
               T == Neighbours(O)
    <3>1. EntanglementPairs(n, e) = Evens(n) \o Odds(n)
      BY <1>3, <2>5 DEF EntanglementPairs
    <3>2. Lists(Evens(n), S) /\ Lists(Odds(n), T)
      BY <1>3, EvensList, OddsList
    <3>3. 0 .. n - 2 = E \cup O /\ E \cap O = {}
      OBVIOUS
    <3> HIDE DEF E, O
    <3>4. D = S \cup T
      <4>1. D = chain
        BY <1>0, <1>1, <2>5
      <4>2. chain = {<<i, i + 1>> : i \in E \cup O}
        BY <3>3 DEF chain, Neighbours
      <4> QED BY <4>1, <4>2 DEF Neighbours
    <3>5. S \cap T = {}
      <4> SUFFICES ASSUME NEW x \in S, x \in T PROVE FALSE
        OBVIOUS
      <4>1. PICK i \in E : x = <<i, i + 1>>
        BY DEF Neighbours
      <4>2. PICK j \in O : x = <<j, j + 1>>
        BY DEF Neighbours
      <4>3. i = j
        BY <4>1, <4>2
      <4> QED BY <3>3, <4>3
    <3> HIDE DEF S, T
    <3>6. Lists(Evens(n) \o Odds(n), D)
      BY <3>2, <3>4, <3>5, ListsJoin
    <3> QED BY <3>1, <3>6 DEF D
  <2> QED BY <2>2, <2>3, <2>4, <2>5 DEF Entanglements
<1> QED BY <1>2, <1>3

\* A pairwise block has the pairs of even qubits first.
LEMMA EvensFirst ==
    ASSUME NEW n \in Nat, NEW pairs, pairs = EntanglementPairs(n, "Pairwise"),
           NEW i \in 1 .. Len(pairs), NEW k \in 1 .. Len(pairs), i < k
    PROVE  pairs[i][1] % 2 <= pairs[k][1] % 2
<1>1. CASE n < 2
  BY <1>1 DEF EntanglementPairs
<1>2. CASE n >= 2
  <2> DEFINE s == Evens(n)
             t == Odds(n)
             a == Len(s)
             b == Len(t)
  <2>1. pairs = s \o t
    BY <1>2 DEF EntanglementPairs
  <2>2. /\ \A j \in 1 .. a : s[j][1] % 2 = 0
        /\ \A j \in 1 .. b : t[j][1] % 2 = 1
    BY <1>2, EvensList, OddsList
  <2>3. s \in Seq(PairsOf(n)) /\ t \in Seq(PairsOf(n))
    <3>1. n \div 2 \in Nat /\ \A j \in 1 .. n \div 2 : <<2 * j - 2, 2 * j - 1>> \in PairsOf(n)
      BY DEF PairsOf
    <3>2. /\ (n - 1) \div 2 \in Nat
          /\ \A j \in 1 .. (n - 1) \div 2 : <<2 * j - 1, 2 * j>> \in PairsOf(n)
      BY <1>2 DEF PairsOf
    <3> QED BY <3>1, <3>2 DEF Evens, Odds
  <2> HIDE DEF s, t
  <2>4. /\ a \in Nat /\ b \in Nat /\ Len(pairs) = a + b
        /\ \A j \in 1 .. a + b : pairs[j] = IF j <= a THEN s[j] ELSE t[j - a]
    BY <2>1, <2>3, ConcatProperties
  <2> HIDE DEF a, b
  <2>5. CASE i <= a
    <3>1. pairs[i][1] % 2 = 0
      <4>1. i \in 1 .. a /\ pairs[i] = s[i]
        BY <2>4, <2>5
      <4> QED BY <2>2, <4>1
    <3>2. pairs[k][1] % 2 \in {0, 1}
      <4>1. CASE k <= a
        <5>1. k \in 1 .. a /\ pairs[k] = s[k]
          BY <2>4, <4>1
        <5> QED BY <2>2, <5>1
      <4>2. CASE ~(k <= a)
        <5>1. k - a \in 1 .. b /\ pairs[k] = t[k - a]
          BY <2>4, <4>2
        <5> QED BY <2>2, <5>1
      <4> QED BY <4>1, <4>2
    <3> QED BY <3>1, <3>2
  <2>6. CASE ~(i <= a)
    <3>1. /\ i - a \in 1 .. b /\ pairs[i] = t[i - a]
          /\ k - a \in 1 .. b /\ pairs[k] = t[k - a]
      BY <2>4, <2>6
    <3>2. t[i - a][1] % 2 = 1 /\ t[k - a][1] % 2 = 1
      BY <2>2, <3>1
    <3> QED BY <3>1, <3>2
  <2> QED BY <2>5, <2>6
<1> QED BY <1>1, <1>2

-----------------------------------------------------------------------------
(* A rotation layer *)

TurnsFrom(axis, at, n) == [q \in 1 .. n |-> Gate(axis, <<q - 1>>, <<Free(at + q - 1)>>)]

LEMMA OneRotation ==
    ASSUME NEW n \in Nat, NEW c \in CircuitsOn(n), NEW axis \in Axes
    PROVE  LET d == RotationLayer(c, axis)
               w == TurnsFrom(axis, c.params, n) IN
           /\ d \in CircuitsOn(n) /\ d.params = c.params + n /\ d.ops = c.ops \o w
           /\ w \in Seq(GateOp) /\ Len(w) = n
           /\ \A q \in 1 .. n : w[q] = Gate(axis, <<q - 1>>, <<Free(c.params + q - 1)>>)
<1> DEFINE d == NewParams(c, n)
           gates == [q \in 1 .. n |-> Gate(axis, <<q - 1>>, <<Fresh(c, n)[q]>>)]
           w == TurnsFrom(axis, c.params, n)
<1>1. c.params \in Nat /\ c.n = n
  BY CircuitFacts
<1>2. d \in CircuitsOn(n) /\ d.params = c.params + n
  BY AllocatesParams
<1>3. axis \in OneQubit /\ Arguments(axis) = 1
  BY DEF Axes, OneQubit, Arguments
<1>4. ASSUME NEW q \in 1 .. n
      PROVE  /\ Fresh(c, n)[q] = Free(c.params + q - 1)
             /\ Gate(axis, <<q - 1>>, <<Fresh(c, n)[q]>>) \in GatesOn(n, d.params)
  <2>1. Fresh(c, n)[q] = Free(c.params + q - 1)
    BY DEF Fresh
  <2>2. d.params \in Nat /\ c.params + q - 1 \in Nat /\ c.params + q - 1 < d.params
    BY <1>1, <1>2
  <2> HIDE DEF d
  <2>3. Fresh(c, n)[q] \in Args(d.params)
    BY <2>1, <2>2, FreeArgument
  <2>4. <<Fresh(c, n)[q]>> \in Seq(Args(d.params)) /\ Len(<<Fresh(c, n)[q]>>) = 1
    BY <2>3
  <2>5. q - 1 \in 0 .. n - 1
    OBVIOUS
  <2> QED BY <1>3, <2>1, <2>2, <2>4, <2>5, MakesOne
<1>5. gates \in Seq(GatesOn(n, d.params))
  BY <1>4
<1>6. RotationLayer(c, axis) = AddGates(d, gates)
  BY <1>1 DEF RotationLayer
<1>7. gates = w
  <2> DEFINE m(q) == Gate(axis, <<q - 1>>, <<Fresh(c, n)[q]>>)
             r(q) == Gate(axis, <<q - 1>>, <<Free(c.params + q - 1)>>)
  <2>1. \A q \in 1 .. n : m(q) = r(q)
    BY <1>4
  <2>2. gates = [q \in 1 .. n |-> m(q)] /\ w = [q \in 1 .. n |-> r(q)]
    BY DEF TurnsFrom
  <2> HIDE DEF m, r, gates, w
  <2> QED BY <2>1, <2>2
<1>8. /\ Len(w) = n
      /\ \A q \in 1 .. n : w[q] = Gate(axis, <<q - 1>>, <<Free(c.params + q - 1)>>)
  BY DEF TurnsFrom
<1>9. d.ops = c.ops
  <2>1. c = [n |-> n, params |-> c.params, ops |-> c.ops, measured |-> c.measured]
    BY CircuitFacts
  <2> QED BY <2>1 DEF NewParams
<1> HIDE DEF d, gates, w
<1>10. AddGates(d, gates).ops = d.ops \o gates
  <2>1. d = [n |-> n, params |-> d.params, ops |-> d.ops, measured |-> d.measured]
    BY <1>2, CircuitFacts
  <2> QED BY <2>1 DEF AddGates
<1>11. AddGates(d, gates) \in CircuitsOn(n) /\ AddGates(d, gates).params = d.params
  BY <1>2, <1>5, AddsGates
<1>12. gates \in Seq(GateOp)
  <2>1. \A g \in GatesOn(n, d.params) : g \in GateOp
    BY DEF GatesOn
  <2> QED BY <1>5, <2>1
<1> QED BY <1>2, <1>6, <1>7, <1>8, <1>9, <1>10, <1>11, <1>12 DEF w

\* Gate i of the rotations.
Rotated(n, rotations, at, i) ==
    Gate(rotations[((i - 1) \div n) + 1], <<(i - 1) % n>>, <<Free(at + i - 1)>>)

\* Circuit d is c and then k of the rotations, on every qubit.
Rotates(c, d, rotations, n, k) ==
    /\ d.params = c.params + k * n
    /\ \E g \in Seq(GateOp) :
          /\ d.ops = c.ops \o g /\ Len(g) = k * n
          /\ \A i \in 1 .. k * n : g[i] = Rotated(n, rotations, c.params, i)

LEMMA PlaceOf ==
    ASSUME NEW n \in Nat, NEW k \in Nat \ {0}, NEW i \in 1 .. k * n, ~(i <= (k - 1) * n)
    PROVE  /\ i - (k - 1) * n \in 1 .. n /\ n # 0
           /\ (i - 1) \div n = k - 1 /\ (i - 1) % n = (i - (k - 1) * n) - 1
<1> DEFINE a == (k - 1) * n
           q == i - a
<1>1. a \in Int /\ k * n = a + n
  BY SMT
<1> HIDE DEF a
<1>2. q \in 1 .. n /\ n # 0 /\ i - 1 \in Nat /\ i - 1 = a + (q - 1) /\ q - 1 \in 0 .. n - 1
  BY <1>1 DEF a
<1>3. /\ i - 1 = n * ((i - 1) \div n) + ((i - 1) % n)
      /\ (i - 1) % n \in 0 .. n - 1 /\ (i - 1) \div n \in Nat
  BY <1>2, Division
<1> DEFINE b == (i - 1) \div n
           r == (i - 1) % n
           s == q - 1
           j == k - 1
<1>4. j * n + s = b * n + r
  <2>1. n * b = b * n
    BY <1>3
  <2> QED BY <1>2, <1>3, <2>1 DEF a
<1>5. j \in Int /\ b \in Int /\ r \in 0 .. n - 1 /\ s \in 0 .. n - 1 /\ n \in Nat \ {0}
  BY <1>2, <1>3
<1> HIDE DEF j, b, r, s
<1>6. j = b /\ s = r
  BY <1>4, <1>5, DivisionIsUnique
<1> QED BY <1>2, <1>6 DEF a, j, b, r, s

LEMMA RotatesOnce ==
    ASSUME NEW n \in Nat, NEW c \in CircuitsOn(n), NEW d \in CircuitsOn(n),
           NEW rotations \in Seq(Axes), NEW k \in 1 .. Len(rotations),
           Rotates(c, d, rotations, n, k - 1)
    PROVE  Rotates(c, RotationLayer(d, rotations[k]), rotations, n, k)
<1> DEFINE axis == rotations[k]
           e == RotationLayer(d, axis)
           w == TurnsFrom(axis, d.params, n)
           at == c.params
           a == (k - 1) * n
           b == k * n
<1>1. PICK g \in Seq(GateOp) :
         /\ d.ops = c.ops \o g /\ Len(g) = a
         /\ \A i \in 1 .. a : g[i] = Rotated(n, rotations, at, i)
  BY DEF Rotates
<1>2. d.params = at + a
  BY DEF Rotates
<1>3. axis \in Axes /\ c.ops \in Seq(GateOp) /\ at \in Nat /\ k \in Nat \ {0}
  BY CircuitFacts
<1> HIDE DEF axis
<1>4. /\ e.params = d.params + n /\ e.ops = d.ops \o w
      /\ w \in Seq(GateOp) /\ Len(w) = n
      /\ \A q \in 1 .. n : w[q] = Gate(axis, <<q - 1>>, <<Free(d.params + q - 1)>>)
  BY <1>3, OneRotation
<1> HIDE DEF e, w
<1>5. a \in Nat /\ b = a + n /\ b \in Nat
  <2>1. Len(g) \in Nat
    OBVIOUS
  <2>2. (k - 1) * n + n = k * n
    OBVIOUS
  <2> QED BY <1>1, <2>1, <2>2
<1>6. ASSUME NEW i \in 1 .. b, ~(i <= a)
      PROVE  /\ i - a \in 1 .. n
             /\ (i - 1) \div n = k - 1 /\ (i - 1) % n = (i - a) - 1
  BY <1>3, <1>6, PlaceOf
<1> HIDE DEF a, b
<1>7. e.ops = c.ops \o (g \o w)
  <2> DEFINE o == c.ops
  <2>1. o \in Seq(GateOp) /\ w \in Seq(GateOp) /\ e.ops = (o \o g) \o w
    BY <1>1, <1>3, <1>4
  <2> HIDE DEF o
  <2>2. (o \o g) \o w = o \o (g \o w)
    BY <2>1, Regroups
  <2> QED BY <2>1, <2>2 DEF o
<1> DEFINE x == g \o w
<1>8. /\ x \in Seq(GateOp) /\ Len(x) = b
      /\ \A i \in 1 .. b : x[i] = IF i <= a THEN g[i] ELSE w[i - a]
  BY <1>1, <1>4, <1>5, ConcatProperties
<1>9. ASSUME NEW i \in 1 .. b PROVE x[i] = Rotated(n, rotations, at, i)
  <2>1. CASE i <= a
    BY <1>1, <1>5, <1>8, <2>1
  <2>2. CASE ~(i <= a)
    <3> DEFINE q == i - a
    <3>1. q \in 1 .. n /\ (i - 1) \div n = k - 1 /\ (i - 1) % n = q - 1
      BY <1>6, <2>2
    <3>2. x[i] = w[q]
      BY <1>8, <2>2
    <3>3. d.params + q - 1 = at + i - 1
      BY <1>2, <1>3, <1>5
    <3> HIDE DEF q, x
    <3>4. w[q] = Gate(axis, <<q - 1>>, <<Free(d.params + q - 1)>>)
      BY <1>4, <3>1
    <3>5. Rotated(n, rotations, at, i)
            = Gate(rotations[(k - 1) + 1], <<q - 1>>, <<Free(at + i - 1)>>)
      BY <3>1, Zenon DEF Rotated
    <3>6. (k - 1) + 1 = k
      OBVIOUS
    <3> QED BY <3>2, <3>3, <3>4, <3>5, <3>6 DEF axis
  <2> QED BY <2>1, <2>2
<1>10. e.params = at + b
  BY <1>2, <1>3, <1>4, <1>5
<1> HIDE DEF x
<1>11. e.ops = c.ops \o x
  BY <1>7 DEF x
<1> QED BY <1>8, <1>9, <1>10, <1>11 DEF Rotates, e, axis, b

LEMMA LayerIs ==
    ASSUME NEW n \in Nat, NEW c \in CircuitsOn(n), NEW rotations \in Seq(Axes)
    PROVE  Rotates(c, Layer(c, rotations), rotations, n, Len(rotations))
<1> DEFINE N == Len(rotations)
           V == CircuitsOn(n)
           base == c
           whole == Layer(c, rotations)
           Next1(d, k) == RotationLayer(d, rotations[k])
           F(it) == [S \in SUBSET (1 .. N) |->
                       IF S = {} THEN base ELSE Next1(it[S \ {Max(S)}], Max(S))]
<1>1. N \in Nat /\ base \in V
  OBVIOUS
<1>2. \A d \in V, k \in 1 .. N : Next1(d, k) \in V
  BY RotationLayerType
<1>3. whole = (CHOOSE it : it = F(it))[1 .. N]
  <2>1. DOMAIN rotations = 1 .. N
    OBVIOUS
  <2> QED BY <2>1 DEF Layer, FoldLeft, MapThenFoldSet
<1>g. \A d, k : Next1(d, k) = RotationLayer(d, rotations[k])
  OBVIOUS
<1> HIDE DEF N, V, base, Next1, whole
<1>4. \E it : it = F(it)
  <2> DEFINE step == [p \in V \X (1 .. N) |-> Next1(p[1], p[2])]
  <2>1. \A d \in V, k \in 1 .. N : step[<<d, k>>] = Next1(d, k)
    OBVIOUS
  <2> HIDE DEF step
  <2>2. PICK it : Folds(it, N, base, step, V)
    <3>1. \A d \in V, k \in 1 .. N : step[<<d, k>>] \in V
      BY <1>2, <2>1
    <3> QED BY <1>1, <3>1, FoldExists
  <2>3. /\ it \in [SUBSET (1 .. N) -> V]
        /\ \A S \in SUBSET (1 .. N) :
              it[S] = IF S = {} THEN base ELSE step[<<it[S \ {Max(S)}], Max(S)>>]
    BY <2>2 DEF Folds
  <2>4. ASSUME NEW S \in SUBSET (1 .. N)
        PROVE  it[S] = IF S = {} THEN base ELSE Next1(it[S \ {Max(S)}], Max(S))
    <3>1. CASE S # {}
      <4>1. Max(S) \in 1 .. N /\ it[S \ {Max(S)}] \in V
        BY <1>1, <2>3, <3>1, Greatest
      <4> QED BY <2>1, <2>3, <3>1, <4>1
    <3> QED BY <2>3, <3>1
  <2>5. it = F(it)
    BY <2>3, <2>4
  <2> QED BY <2>5
<1>5. PICK it : it = F(it) /\ whole = it[1 .. N]
  BY <1>3, <1>4
<1>6. it[{}] = base
  BY <1>5
<1>7. ASSUME NEW k \in 1 .. N PROVE it[1 .. k] = Next1(it[1 .. k - 1], k)
  <2>1. Max(1 .. k) = k /\ (1 .. k) \ {k} = 1 .. k - 1
    BY <1>1, PartOfAll, GreatestOfAll
  <2>2. 1 .. k \in SUBSET (1 .. N) /\ 1 .. k # {}
    BY <1>1, PartOfAll
  <2> QED BY <1>5, <2>1, <2>2
<1> DEFINE f == [k \in 0 .. N |-> it[1 .. k]]
<1>8. f[0] = base /\ f[N] = whole
  <2>1. 1 .. 0 = {} /\ 0 \in 0 .. N /\ N \in 0 .. N
    BY <1>1
  <2> QED BY <1>5, <1>6, <2>1
<1>9. \A k \in 1 .. N : f[k] = Next1(f[k - 1], k)
  <2>1. \A k \in 1 .. N : k - 1 \in 0 .. N /\ k \in 0 .. N
    BY <1>1
  <2> QED BY <1>7, <2>1
<1> HIDE DEF f
<1>10. \A k \in 0 .. N : f[k] \in V
  <2> DEFINE T == {k \in 0 .. N : f[k] \in V}
  <2>1. 0 \in T
    BY <1>1, <1>8
  <2>2. \A k \in 1 .. N : k - 1 \in T => k \in T
    BY <1>2, <1>9
  <2>3. \A k \in 0 .. N : k \in T
    <3> HIDE DEF T
    <3> QED BY <1>1, <2>1, <2>2, Climb
  <2> QED BY <2>3
<1> DEFINE T == {k \in 0 .. N : Rotates(c, f[k], rotations, n, k)}
<1>11. 0 \in T
  <2> DEFINE k == 0
             g == <<>>
  <2>1. g \in Seq(GateOp) /\ Len(g) = k * n /\ 1 .. k * n = {} /\ k \in 0 .. N
    BY <1>1
  <2>2. c.ops = c.ops \o g /\ c.params = c.params + k * n
    <3>1. c.ops \in Seq(GateOp) /\ c.params \in Nat
      BY CircuitFacts
    <3> QED BY <3>1, ConcatEmptySeq
  <2>3. f[k] = c
    BY <1>8 DEF base
  <2> HIDE DEF k, g
  <2>4. Rotates(c, c, rotations, n, k)
    BY <2>1, <2>2 DEF Rotates
  <2> QED BY <2>1, <2>3, <2>4 DEF k
<1>12. ASSUME NEW k \in 1 .. N, k - 1 \in T PROVE k \in T
  <2> DEFINE d == f[k - 1]
  <2>1. k - 1 \in 0 .. N /\ k \in 0 .. N /\ k \in 1 .. Len(rotations)
    BY <1>1 DEF N
  <2>2. d \in CircuitsOn(n)
    BY <1>10, <2>1 DEF V
  <2>3. Rotates(c, d, rotations, n, k - 1)
    BY <1>12
  <2>4. f[k] = RotationLayer(d, rotations[k])
    BY <1>9, <1>g
  <2> HIDE DEF d
  <2>5. Rotates(c, RotationLayer(d, rotations[k]), rotations, n, k)
    BY <2>1, <2>2, <2>3, RotatesOnce
  <2>6. Rotates(c, f[k], rotations, n, k)
    BY <2>4, <2>5
  <2> QED BY <2>1, <2>6
<1>13. \A k \in 0 .. N : k \in T
  <2> HIDE DEF T
  <2> QED BY <1>1, <1>11, <1>12, Climb
<1>14. N \in 0 .. N
  BY <1>1
<1> QED BY <1>8, <1>13, <1>14 DEF whole, N

-----------------------------------------------------------------------------
(* The layers of an ansatz *)

Links(pairs) == [k \in DOMAIN pairs |-> Gate("CNOT", pairs[k], <<>>)]

LinkedBy(c, d, n, pairs, w) ==
    /\ d \in CircuitsOn(n) /\ d.params = c.params /\ d.ops = c.ops \o w
    /\ w \in Seq(GateOp) /\ Len(w) = Len(pairs) /\ Len(pairs) \in Nat
    /\ \A i \in 1 .. Len(pairs) : w[i] = Gate("CNOT", pairs[i], <<>>)

LEMMA EntangleIs ==
    ASSUME NEW n \in Nat, NEW c \in CircuitsOn(n), NEW ent \in Entanglements,
           NEW pairs, pairs = EntanglementPairs(n, ent)
    PROVE  LinkedBy(c, Entangle(c, ent), n, pairs, Links(pairs))
<1> DEFINE w == Links(pairs)
           d == Entangle(c, ent)
<1>1. pairs \in Seq(PairsOf(n))
  BY EntanglementType
<1>2. c.n = n /\ c.params \in Nat
  BY CircuitFacts
<1>3. d = AddGates(c, w)
  BY <1>2 DEF Entangle, Links
<1>4. \A k \in DOMAIN pairs : Gate("CNOT", pairs[k], <<>>) \in GatesOn(n, c.params)
  <2>1. ASSUME NEW k \in DOMAIN pairs
        PROVE  Gate("CNOT", pairs[k], <<>>) \in GatesOn(n, c.params)
    <3>1. pairs[k] \in PairsOf(n)
      BY <1>1
    <3>2. PICK a \in 0 .. n - 1, b \in 0 .. n - 1 : pairs[k] = <<a, b>> /\ a # b
      BY <3>1 DEF PairsOf
    <3> QED BY <1>2, <3>2, MakesTwo
  <2> QED BY <2>1
<1>5. w \in Seq(GatesOn(n, c.params))
  BY <1>1, <1>4 DEF Links
<1>6. /\ Len(pairs) \in Nat /\ Len(w) = Len(pairs)
      /\ \A i \in 1 .. Len(pairs) : w[i] = Gate("CNOT", pairs[i], <<>>)
  BY <1>1 DEF Links
<1> HIDE DEF w, d
<1>7. w \in Seq(GateOp)
  <2>1. \A g \in GatesOn(n, c.params) : g \in GateOp
    BY DEF GatesOn
  <2> QED BY <1>5, <2>1
<1>8. AddGates(c, w).ops = c.ops \o w
  <2>1. c = [n |-> n, params |-> c.params, ops |-> c.ops, measured |-> c.measured]
    BY CircuitFacts
  <2> QED BY <2>1 DEF AddGates
<1>9. d \in CircuitsOn(n) /\ d.params = c.params
  BY <1>3, <1>5, AddsGates
<1> QED BY <1>3, <1>6, <1>7, <1>8, <1>9 DEF w, d, LinkedBy

\* Circuit d is c and then rotation layers, each of the first ones before a
\* block of links.
Layered(c, d, rotations, n, pairs, reps, layers) ==
    LET layer == n * Len(rotations)
        block == layer + Len(pairs) IN
    /\ d.params = c.params + layers * layer
    /\ \E g \in Seq(GateOp) :
          /\ d.ops = c.ops \o g /\ Len(g) = layers * layer + reps * Len(pairs)
          /\ \A l \in 1 .. layers, k \in 1 .. layer :
                g[(l - 1) * block + k] = Rotated(n, rotations, c.params + (l - 1) * layer, k)
          /\ \A r \in 1 .. reps, i \in 1 .. Len(pairs) :
                g[(r - 1) * block + layer + i] = Gate("CNOT", pairs[i], <<>>)

LEMMA InItsBlock ==
    ASSUME NEW block \in Nat, NEW r \in Nat, NEW s \in 1 .. r, NEW m \in 1 .. block
    PROVE  (s - 1) * block + m \in 1 .. r * block
<1>1. (s - 1) * block \in Nat /\ (s - 1) * block + block = s * block
  <2>1. s - 1 \in Nat
    OBVIOUS
  <2> QED BY <2>1
<1>2. s * block <= r * block
  <2>1. (r - s) * block \in Nat
    <3>1. r - s \in Nat
      OBVIOUS
    <3> QED BY <3>1
  <2>2. (r - s) * block + s * block = r * block
    OBVIOUS
  <2> QED BY <2>1, <2>2
<1> DEFINE a == (s - 1) * block
           b == s * block
           c == r * block
<1>3. a \in Nat /\ a + block = b /\ b <= c /\ c \in Int
  BY <1>1, <1>2
<1> HIDE DEF a, b, c
<1>4. a + m \in 1 .. c
  BY <1>3
<1> QED BY <1>4 DEF a, c

JoinsTo(a, b, x) ==
    /\ x \in Seq(GateOp) /\ Len(x) = Len(a) + Len(b)
    /\ \A i \in 1 .. Len(a) : x[i] = a[i]
    /\ \A i \in 1 .. Len(b) : x[Len(a) + i] = b[i]

LEMMA AndThen ==
    ASSUME NEW a \in Seq(GateOp), NEW b \in Seq(GateOp), NEW o \in Seq(GateOp)
    PROVE  JoinsTo(a, b, a \o b) /\ (o \o a) \o b = o \o (a \o b)
<1> DEFINE x == a \o b
<1>1. /\ x \in Seq(GateOp) /\ Len(x) = Len(a) + Len(b) /\ Len(a) \in Nat /\ Len(b) \in Nat
      /\ \A i \in 1 .. Len(a) + Len(b) : x[i] = IF i <= Len(a) THEN a[i] ELSE b[i - Len(a)]
  BY ConcatProperties
<1>2. (o \o a) \o b = o \o x
  BY Regroups
<1> HIDE DEF x
<1>3. \A i \in 1 .. Len(a) : x[i] = a[i]
  BY <1>1
<1>4. ASSUME NEW i \in 1 .. Len(b) PROVE x[Len(a) + i] = b[i]
  <2>1. Len(a) + i \in 1 .. Len(a) + Len(b) /\ ~(Len(a) + i <= Len(a)) /\ (Len(a) + i) - Len(a) = i
    BY <1>1
  <2> QED BY <1>1, <2>1
<1> QED BY <1>1, <1>2, <1>3, <1>4 DEF x, JoinsTo

\* One rotation layer more.
LEMMA LayerMore ==
    ASSUME NEW n \in Nat, NEW c \in CircuitsOn(n), NEW d \in CircuitsOn(n),
           NEW rotations \in Seq(Axes), NEW pairs, Len(pairs) \in Nat, NEW r \in Nat,
           Layered(c, d, rotations, n, pairs, r, r)
    PROVE  Layered(c, Layer(d, rotations), rotations, n, pairs, r, r + 1)
<1> DEFINE layer == n * Len(rotations)
           P == Len(pairs)
           block == layer + P
           e == Layer(d, rotations)
           at == c.params
<1>1. /\ d.params = at + r * layer
      /\ \E g \in Seq(GateOp) :
            /\ d.ops = c.ops \o g /\ Len(g) = r * layer + r * P
            /\ \A l \in 1 .. r, k \in 1 .. layer :
                  g[(l - 1) * block + k] = Rotated(n, rotations, at + (l - 1) * layer, k)
            /\ \A s \in 1 .. r, i \in 1 .. P :
                  g[(s - 1) * block + layer + i] = Gate("CNOT", pairs[i], <<>>)
  BY DEF Layered
<1>2. PICK g \in Seq(GateOp) :
         /\ d.ops = c.ops \o g /\ Len(g) = r * layer + r * P
         /\ \A l \in 1 .. r, k \in 1 .. layer :
               g[(l - 1) * block + k] = Rotated(n, rotations, at + (l - 1) * layer, k)
         /\ \A s \in 1 .. r, i \in 1 .. P :
               g[(s - 1) * block + layer + i] = Gate("CNOT", pairs[i], <<>>)
  BY <1>1
<1>3. Rotates(d, e, rotations, n, Len(rotations))
  BY LayerIs
<1>4. /\ layer \in Nat /\ Len(rotations) * n = layer /\ P \in Nat /\ at \in Nat
      /\ c.ops \in Seq(GateOp)
  BY CircuitFacts
<1>5. PICK u \in Seq(GateOp) :
         /\ e.ops = d.ops \o u /\ Len(u) = layer
         /\ \A i \in 1 .. layer : u[i] = Rotated(n, rotations, d.params, i)
  BY <1>3, <1>4 DEF Rotates
<1>6. e.params = d.params + layer
  BY <1>3, <1>4 DEF Rotates
<1> HIDE DEF layer, P, e
<1> DEFINE x == g \o u
           a == r * block
<1>7. /\ block \in Nat /\ Len(g) = a /\ a \in Nat
      /\ a + layer = (r + 1) * layer + r * P /\ r * layer + layer = (r + 1) * layer
  BY <1>2, <1>4
<1>8. /\ x \in Seq(GateOp) /\ Len(x) = a + layer /\ e.ops = c.ops \o x
      /\ \A i \in 1 .. a : x[i] = g[i]
      /\ \A i \in 1 .. layer : x[a + i] = u[i]
  <2> DEFINE o == c.ops
  <2>1. o \in Seq(GateOp) /\ e.ops = (o \o g) \o u
    BY <1>2, <1>4, <1>5
  <2> HIDE DEF o, a
  <2>2. /\ x \in Seq(GateOp) /\ Len(x) = Len(g) + Len(u)
        /\ \A i \in 1 .. Len(g) : x[i] = g[i]
        /\ \A i \in 1 .. Len(u) : x[Len(g) + i] = u[i]
        /\ (o \o g) \o u = o \o x
    <3>1. u \in Seq(GateOp) /\ o \in Seq(GateOp)
      BY <2>1
    <3>2. JoinsTo(g, u, g \o u) /\ (o \o g) \o u = o \o (g \o u)
      BY <3>1, AndThen
    <3> QED BY <3>2 DEF JoinsTo
  <2> HIDE DEF x
  <2> QED BY <1>5, <1>7, <2>1, <2>2 DEF o
<1> HIDE DEF x
<1>9. ASSUME NEW l \in 1 .. r + 1, NEW k \in 1 .. layer
      PROVE  x[(l - 1) * block + k] = Rotated(n, rotations, at + (l - 1) * layer, k)
  <2>1. CASE l \in 1 .. r
    <3>1. k \in 1 .. block
      BY <1>4
    <3> DEFINE j == (l - 1) * block + k
    <3>2. j \in 1 .. a
      <4> HIDE DEF block
      <4> QED BY <1>7, <2>1, <3>1, InItsBlock
    <3>3. g[j] = Rotated(n, rotations, at + (l - 1) * layer, k)
      BY <1>2, <2>1
    <3> HIDE DEF j
    <3>4. x[j] = g[j]
      BY <1>8, <3>2
    <3> QED BY <3>3, <3>4 DEF j
  <2>2. CASE l = r + 1
    <3>1. l - 1 = r
      BY <2>2
    <3>2. x[a + k] = u[k] /\ u[k] = Rotated(n, rotations, at + r * layer, k)
      BY <1>1, <1>5, <1>8
    <3> QED BY <3>1, <3>2
  <2> QED BY <2>1, <2>2
<1>10. ASSUME NEW s \in 1 .. r, NEW i \in 1 .. P
       PROVE  x[(s - 1) * block + layer + i] = Gate("CNOT", pairs[i], <<>>)
  <2> DEFINE m == layer + i
             j == (s - 1) * block + m
  <2>1. m \in 1 .. block
    BY <1>4
  <2>2. (s - 1) * block + layer + i = j
    <3>1. (s - 1) * block \in Int
      BY <1>7
    <3> QED BY <1>4, <3>1
  <2> HIDE DEF m
  <2>3. j \in 1 .. a
    <3> HIDE DEF block
    <3> QED BY <1>7, <2>1, InItsBlock
  <2>4. g[j] = Gate("CNOT", pairs[i], <<>>)
    BY <1>2, <2>2
  <2> HIDE DEF j
  <2>5. x[j] = g[j]
    BY <1>8, <2>3
  <2> QED BY <2>2, <2>4, <2>5
<1>11. e.params = at + (r + 1) * layer
  <2> DEFINE y == r * layer
             z == (r + 1) * layer
  <2>1. y \in Int /\ y + layer = z /\ d.params = at + y
    BY <1>1, <1>4, <1>7
  <2> HIDE DEF y, z
  <2>2. e.params = at + z
    BY <1>4, <1>6, <2>1
  <2> QED BY <2>2 DEF z
<1>12. Len(x) = (r + 1) * layer + r * P
  BY <1>7, <1>8
<1> QED BY <1>8, <1>9, <1>10, <1>11, <1>12 DEF Layered, layer, P, e

\* One block of links more.
LEMMA BlockMore ==
    ASSUME NEW n \in Nat, NEW c \in CircuitsOn(n), NEW d \in CircuitsOn(n),
           NEW rotations \in Seq(Axes), NEW ent \in Entanglements,
           NEW pairs, pairs = EntanglementPairs(n, ent), NEW r \in Nat \ {0}, NEW q, q = r - 1,
           Layered(c, d, rotations, n, pairs, q, r)
    PROVE  Layered(c, Entangle(d, ent), rotations, n, pairs, r, r)
<1> DEFINE layer == n * Len(rotations)
           P == Len(pairs)
           block == layer + P
           e == Entangle(d, ent)
           at == c.params
           v == Links(pairs)
<1>1. /\ d.params = at + r * layer
      /\ \E g \in Seq(GateOp) :
            /\ d.ops = c.ops \o g /\ Len(g) = r * layer + q * P
            /\ \A l \in 1 .. r, k \in 1 .. layer :
                  g[(l - 1) * block + k] = Rotated(n, rotations, at + (l - 1) * layer, k)
            /\ \A s \in 1 .. q, i \in 1 .. P :
                  g[(s - 1) * block + layer + i] = Gate("CNOT", pairs[i], <<>>)
  BY DEF Layered
<1>2. PICK g \in Seq(GateOp) :
         /\ d.ops = c.ops \o g /\ Len(g) = r * layer + q * P
         /\ \A l \in 1 .. r, k \in 1 .. layer :
               g[(l - 1) * block + k] = Rotated(n, rotations, at + (l - 1) * layer, k)
         /\ \A s \in 1 .. q, i \in 1 .. P :
               g[(s - 1) * block + layer + i] = Gate("CNOT", pairs[i], <<>>)
  BY <1>1
<1>3. /\ e.params = d.params /\ e.ops = d.ops \o v
      /\ v \in Seq(GateOp) /\ Len(v) = P /\ P \in Nat
      /\ \A i \in 1 .. P : v[i] = Gate("CNOT", pairs[i], <<>>)
  <2>1. LinkedBy(d, Entangle(d, ent), n, pairs, Links(pairs))
    BY EntangleIs
  <2> QED BY <2>1 DEF LinkedBy
<1>4. layer \in Nat /\ at \in Nat /\ c.ops \in Seq(GateOp) /\ q \in Nat
  BY CircuitFacts
<1> HIDE DEF layer, P, e, v
<1> DEFINE x == g \o v
           b == q * block
           a == b + layer
<1>5. block \in Nat /\ Len(g) = a /\ b \in Nat /\ a \in Nat /\ a + P = r * layer + r * P
  <2>1. q * layer + layer = r * layer /\ q * P + P = r * P /\ q * block = q * layer + q * P
    BY <1>3, <1>4
  <2>2. q * layer \in Nat /\ q * P \in Nat
    BY <1>3, <1>4
  <2> DEFINE y1 == q * layer
             y2 == q * P
             z1 == r * layer
             z2 == r * P
  <2>3. /\ y1 \in Nat /\ y2 \in Nat /\ y1 + layer = z1 /\ y2 + P = z2 /\ b = y1 + y2
        /\ Len(g) = z1 + y2
    BY <1>2, <2>1, <2>2
  <2> HIDE DEF y1, y2, z1, z2, b
  <2>4. block \in Nat /\ Len(g) = a /\ b \in Nat /\ a \in Nat /\ a + P = z1 + z2
    BY <1>3, <1>4, <2>3
  <2> QED BY <2>4 DEF z1, z2
<1>6. /\ x \in Seq(GateOp) /\ Len(x) = a + P /\ e.ops = c.ops \o x
      /\ \A i \in 1 .. a : x[i] = g[i]
      /\ \A i \in 1 .. P : x[a + i] = v[i]
  <2> DEFINE o == c.ops
  <2>1. o \in Seq(GateOp) /\ e.ops = (o \o g) \o v
    BY <1>2, <1>3, <1>4
  <2> HIDE DEF o, a
  <2>2. /\ x \in Seq(GateOp) /\ Len(x) = Len(g) + Len(v)
        /\ \A i \in 1 .. Len(g) : x[i] = g[i]
        /\ \A i \in 1 .. Len(v) : x[Len(g) + i] = v[i]
        /\ (o \o g) \o v = o \o x
    <3>1. v \in Seq(GateOp) /\ o \in Seq(GateOp)
      BY <1>3, <2>1
    <3>2. JoinsTo(g, v, g \o v) /\ (o \o g) \o v = o \o (g \o v)
      BY <3>1, AndThen
    <3> QED BY <3>2 DEF JoinsTo
  <2> HIDE DEF x
  <2> QED BY <1>3, <1>5, <2>1, <2>2 DEF o
<1> HIDE DEF x
<1>7. ASSUME NEW s \in 1 .. q, NEW m \in 1 .. block
      PROVE  (s - 1) * block + m \in 1 .. b
  <2> HIDE DEF block
  <2> QED BY <1>4, <1>5, InItsBlock
<1>8. ASSUME NEW l \in 1 .. r, NEW k \in 1 .. layer
      PROVE  x[(l - 1) * block + k] = Rotated(n, rotations, at + (l - 1) * layer, k)
  <2> DEFINE j == (l - 1) * block + k
  <2>1. j \in 1 .. a
    <3>1. CASE l \in 1 .. q
      <4>1. k \in 1 .. block
        BY <1>3, <1>4
      <4>2. j \in 1 .. b
        BY <1>7, <3>1, <4>1
      <4> HIDE DEF j, b
      <4> QED BY <1>4, <1>5, <4>2
    <3>2. CASE l - 1 = q
      <4>1. j = b + k
        BY <3>2
      <4> HIDE DEF j, b
      <4> QED BY <1>4, <1>5, <4>1
    <3> QED BY <1>4, <3>1, <3>2
  <2>2. g[j] = Rotated(n, rotations, at + (l - 1) * layer, k)
    BY <1>2
  <2> HIDE DEF j
  <2>3. x[j] = g[j]
    BY <1>6, <2>1
  <2> QED BY <2>2, <2>3 DEF j
<1>9. ASSUME NEW s \in 1 .. r, NEW i \in 1 .. P
      PROVE  x[(s - 1) * block + layer + i] = Gate("CNOT", pairs[i], <<>>)
  <2>1. CASE s \in 1 .. q
    <3> DEFINE m == layer + i
               j == (s - 1) * block + m
    <3>1. m \in 1 .. block
      BY <1>3, <1>4
    <3>2. (s - 1) * block + layer + i = j
      <4>1. (s - 1) * block \in Int
        BY <1>5
      <4> QED BY <1>3, <1>4, <4>1
    <3> HIDE DEF m
    <3>3. j \in 1 .. b
      BY <1>7, <2>1, <3>1
    <3>4. g[j] = Gate("CNOT", pairs[i], <<>>)
      BY <1>2, <2>1, <3>2
    <3> HIDE DEF j, b
    <3>5. x[j] = g[j]
      BY <1>4, <1>5, <1>6, <3>3, SMTT(20)
    <3> QED BY <3>2, <3>4, <3>5
  <2>2. CASE s - 1 = q
    <3>1. x[a + i] = Gate("CNOT", pairs[i], <<>>)
      BY <1>3, <1>6
    <3> QED BY <2>2, <3>1
  <2> QED BY <1>4, <2>1, <2>2
<1>10. e.params = at + r * layer
  BY <1>1, <1>3
<1>11. Len(x) = r * layer + r * P
  BY <1>5, <1>6
<1> QED BY <1>6, <1>8, <1>9, <1>10, <1>11 DEF Layered, layer, P, e

LEMMA TwoLocalIs ==
    ASSUME NEW n \in Nat, NEW c \in CircuitsOn(n), NEW rotations \in Seq(Axes),
           NEW reps \in Nat, NEW ent \in Entanglements, NEW final,
           NEW pairs, pairs = EntanglementPairs(n, ent)
    PROVE  Layered(c, TwoLocal(c, rotations, reps, ent, final), rotations, n, pairs, reps,
                   reps + (IF final \/ reps = 0 THEN 1 ELSE 0))
<1> DEFINE N == reps
           V == CircuitsOn(n)
           base == c
           whole == FoldLeft(LAMBDA d, r : Entangle(Layer(d, rotations), ent),
                             c, [r \in 1 .. reps |-> r])
           Next1(d, k) == Entangle(Layer(d, rotations), ent)
           F(it) == [S \in SUBSET (1 .. N) |->
                       IF S = {} THEN base ELSE Next1(it[S \ {Max(S)}], Max(S))]
<1>1. N \in Nat /\ base \in V
  OBVIOUS
<1>2. \A d \in V, k \in 1 .. N : Next1(d, k) \in V
  BY LayerType, EntangleType
<1>3. whole = (CHOOSE it : it = F(it))[1 .. N]
  BY DEF FoldLeft, MapThenFoldSet
<1>g. \A d, k : Next1(d, k) = Entangle(Layer(d, rotations), ent)
  OBVIOUS
<1> HIDE DEF N, V, base, Next1, whole
<1>4. \E it : it = F(it)
  <2> DEFINE step == [p \in V \X (1 .. N) |-> Next1(p[1], p[2])]
  <2>1. \A d \in V, k \in 1 .. N : step[<<d, k>>] = Next1(d, k)
    OBVIOUS
  <2> HIDE DEF step
  <2>2. PICK it : Folds(it, N, base, step, V)
    <3>1. \A d \in V, k \in 1 .. N : step[<<d, k>>] \in V
      BY <1>2, <2>1
    <3> QED BY <1>1, <3>1, FoldExists
  <2>3. /\ it \in [SUBSET (1 .. N) -> V]
        /\ \A S \in SUBSET (1 .. N) :
              it[S] = IF S = {} THEN base ELSE step[<<it[S \ {Max(S)}], Max(S)>>]
    BY <2>2 DEF Folds
  <2>4. ASSUME NEW S \in SUBSET (1 .. N)
        PROVE  it[S] = IF S = {} THEN base ELSE Next1(it[S \ {Max(S)}], Max(S))
    <3>1. CASE S # {}
      <4>1. Max(S) \in 1 .. N /\ it[S \ {Max(S)}] \in V
        BY <1>1, <2>3, <3>1, Greatest
      <4> QED BY <2>1, <2>3, <3>1, <4>1
    <3> QED BY <2>3, <3>1
  <2>5. it = F(it)
    BY <2>3, <2>4
  <2> QED BY <2>5
<1>5. PICK it : it = F(it) /\ whole = it[1 .. N]
  BY <1>3, <1>4
<1>6. it[{}] = base
  BY <1>5
<1>7. ASSUME NEW k \in 1 .. N PROVE it[1 .. k] = Next1(it[1 .. k - 1], k)
  <2>1. Max(1 .. k) = k /\ (1 .. k) \ {k} = 1 .. k - 1
    BY <1>1, PartOfAll, GreatestOfAll
  <2>2. 1 .. k \in SUBSET (1 .. N) /\ 1 .. k # {}
    BY <1>1, PartOfAll
  <2> QED BY <1>5, <2>1, <2>2
<1> DEFINE f == [k \in 0 .. N |-> it[1 .. k]]
<1>8. f[0] = base /\ f[N] = whole
  <2>1. 1 .. 0 = {} /\ 0 \in 0 .. N /\ N \in 0 .. N
    BY <1>1
  <2> QED BY <1>5, <1>6, <2>1
<1>9. \A k \in 1 .. N : f[k] = Next1(f[k - 1], k)
  <2>1. \A k \in 1 .. N : k - 1 \in 0 .. N /\ k \in 0 .. N
    BY <1>1
  <2> QED BY <1>7, <2>1
<1> HIDE DEF f
<1>10. \A k \in 0 .. N : f[k] \in V
  <2> DEFINE T == {k \in 0 .. N : f[k] \in V}
  <2>1. 0 \in T
    BY <1>1, <1>8
  <2>2. \A k \in 1 .. N : k - 1 \in T => k \in T
    BY <1>2, <1>9
  <2>3. \A k \in 0 .. N : k \in T
    <3> HIDE DEF T
    <3> QED BY <1>1, <2>1, <2>2, Climb
  <2> QED BY <2>3
<1> DEFINE T == {k \in 0 .. N : Layered(c, f[k], rotations, n, pairs, k, k)}
<1>p. Len(pairs) \in Nat
  <2>1. pairs \in Seq(PairsOf(n))
    BY EntanglementType
  <2> QED BY <2>1
<1>11. 0 \in T
  <2> DEFINE k == 0
             g == <<>>
             layer == n * Len(rotations)
  <2>1. layer \in Nat
    OBVIOUS
  <2> HIDE DEF layer
  <2>2. /\ g \in Seq(GateOp) /\ Len(g) = k * layer + k * Len(pairs)
        /\ 1 .. k = {} /\ k \in 0 .. N
    BY <1>1, <1>p, <2>1
  <2>3. c.ops = c.ops \o g /\ c.params = c.params + k * layer
    <3>1. c.ops \in Seq(GateOp) /\ c.params \in Nat
      BY CircuitFacts
    <3> QED BY <2>1, <3>1, ConcatEmptySeq
  <2>4. f[k] = c
    BY <1>8 DEF base
  <2> HIDE DEF k, g
  <2>5. Layered(c, c, rotations, n, pairs, k, k)
    BY <2>2, <2>3 DEF Layered, layer
  <2> QED BY <2>2, <2>4, <2>5 DEF k
<1>12. ASSUME NEW k \in 1 .. N, k - 1 \in T PROVE k \in T
  <2> DEFINE d == f[k - 1]
             e == Layer(d, rotations)
             q == k - 1
  <2>1. /\ q \in 0 .. N /\ k \in 0 .. N /\ q \in Nat /\ k \in Nat \ {0} /\ q = k - 1
        /\ q + 1 = k
    BY <1>1
  <2>2. d \in CircuitsOn(n)
    BY <1>10, <2>1 DEF V
  <2>3. Layered(c, d, rotations, n, pairs, q, q)
    BY <1>12
  <2>4. f[k] = Entangle(e, ent)
    BY <1>9, <1>g
  <2> HIDE DEF d, q
  <2>5. Layered(c, e, rotations, n, pairs, q, q + 1)
    BY <1>p, <2>1, <2>2, <2>3, LayerMore
  <2>6. e \in CircuitsOn(n)
    BY <2>2, LayerType
  <2> HIDE DEF e
  <2>7. Layered(c, e, rotations, n, pairs, q, k)
    BY <2>1, <2>5
  <2>8. Layered(c, Entangle(e, ent), rotations, n, pairs, k, k)
    BY <2>1, <2>6, <2>7, BlockMore
  <2>9. Layered(c, f[k], rotations, n, pairs, k, k)
    BY <2>4, <2>8
  <2> QED BY <2>1, <2>9
<1>13. \A k \in 0 .. N : k \in T
  <2> HIDE DEF T
  <2> QED BY <1>1, <1>11, <1>12, Climb
<1>14. N \in 0 .. N
  BY <1>1
<1>15. Layered(c, whole, rotations, n, pairs, reps, reps) /\ whole \in CircuitsOn(n)
  BY <1>8, <1>10, <1>13, <1>14 DEF N, V
<1>16. TwoLocal(c, rotations, reps, ent, final)
         = IF final \/ reps = 0 THEN Layer(whole, rotations) ELSE whole
  BY DEF TwoLocal, whole
<1> HIDE DEF f, T
<1>17. CASE final \/ reps = 0
  <2>1. Layered(c, Layer(whole, rotations), rotations, n, pairs, reps, reps + 1)
    BY <1>p, <1>15, LayerMore
  <2>2. /\ TwoLocal(c, rotations, reps, ent, final) = Layer(whole, rotations)
        /\ reps + (IF final \/ reps = 0 THEN 1 ELSE 0) = reps + 1
    BY <1>16, <1>17
  <2> QED BY <2>1, <2>2
<1>18. CASE ~(final \/ reps = 0)
  <2>1. /\ TwoLocal(c, rotations, reps, ent, final) = whole
        /\ reps + (IF final \/ reps = 0 THEN 1 ELSE 0) = reps
    BY <1>16, <1>18
  <2> QED BY <1>15, <2>1
<1> QED BY <1>17, <1>18

LayeredParts(at, to, gates, n, rotations, reps, e, pairs, P, layer, block, layers) ==
    /\ to = at + layers * layer
    /\ Len(gates) = layers * layer + reps * P
    /\ \A l \in 1 .. layers, k \in 1 .. layer :
          gates[(l - 1) * block + k] =
              Gate(rotations[((k - 1) \div n) + 1], <<(k - 1) % n>>,
                   <<Free(at + (l - 1) * layer + k - 1)>>)
    /\ \A r \in 1 .. reps :
          /\ \A i \in 1 .. P : gates[(r - 1) * block + layer + i].type = "CNOT"
          /\ {gates[(r - 1) * block + layer + i].qubits : i \in 1 .. P} = pairs
          /\ e = "Pairwise" => \A i, k \in 1 .. P :
                i < k => gates[(r - 1) * block + layer + i].qubits[1] % 2
                           <= gates[(r - 1) * block + layer + k].qubits[1] % 2

LEMMA PartsAreDocumented ==
    ASSUME NEW from, NEW c, NEW rotations, NEW reps, NEW e, NEW final, 
           LayeredParts(from.params, c.params, Added(from, c), c.n, rotations, reps, e,
                 DocumentedPairs(c.n, e), Cardinality(DocumentedPairs(c.n, e)),
                 c.n * Len(rotations),
                 c.n * Len(rotations) + Cardinality(DocumentedPairs(c.n, e)),
                 reps + (IF final THEN 1 ELSE 0))
    PROVE  LayeredAsDocumented(from, c, rotations, reps, e, final)
  BY Zenon DEF LayeredParts, LayeredAsDocumented

LEMMA TwoLocalIsDocumented ==
    ASSUME NEW n \in Nat, NEW c \in CircuitsOn(n), NEW rotations \in Seq(Axes),
           NEW reps \in Nat, NEW ent \in Entanglements, NEW final,
           final \/ reps # 0
    PROVE  LayeredAsDocumented(c, TwoLocal(c, rotations, reps, ent, final),
                               rotations, reps, ent, final)
<1> DEFINE d == TwoLocal(c, rotations, reps, ent, final)
           pairs == EntanglementPairs(n, ent)
           layers == reps + (IF final THEN 1 ELSE 0)
           layer == n * Len(rotations)
           P == Len(pairs)
           block == layer + P
           D == DocumentedPairs(n, ent)
           gates == Added(c, d)
           Cnot(r, i) == gates[(r - 1) * block + layer + i]
<1>1. Lists(pairs, D)
  BY PairsAreDocumented
<1>2. Cardinality(D) = P /\ P \in Nat /\ {pairs[i] : i \in 1 .. P} = D
  BY <1>1, ListsAll
<1>3. d \in CircuitsOn(n)
  BY TwoLocalType
<1>4. d.n = n /\ c.ops \in Seq(GateOp)
  BY <1>3, CircuitFacts
<1>5. Layered(c, d, rotations, n, pairs, reps, layers)
  <2> HIDE DEF pairs, d, layers
  <2>1. pairs = EntanglementPairs(n, ent)
    BY DEF pairs
  <2>2. Layered(c, d, rotations, n, pairs, reps, reps + (IF final \/ reps = 0 THEN 1 ELSE 0))
    BY <2>1, TwoLocalIs DEF d
  <2>3. layers = reps + (IF final \/ reps = 0 THEN 1 ELSE 0)
    BY Zenon DEF layers
  <2> QED BY <2>2, <2>3, Zenon
<1> HIDE DEF d, layers
<1>6. d.params = c.params + layers * layer
  BY <1>5 DEF Layered
<1>7. PICK g \in Seq(GateOp) :
         /\ d.ops = c.ops \o g /\ Len(g) = layers * layer + reps * P
         /\ \A l \in 1 .. layers, k \in 1 .. layer :
               g[(l - 1) * block + k] = Rotated(n, rotations, c.params + (l - 1) * layer, k)
         /\ \A r \in 1 .. reps, i \in 1 .. P :
               g[(r - 1) * block + layer + i] = Gate("CNOT", pairs[i], <<>>)
  BY <1>5 DEF Layered
<1>8. gates = g
  <2>1. d.ops = c.ops \o g
    BY <1>7
  <2>2. c.ops \in Seq(GateOp)
    BY <1>4
  <2> QED BY <2>1, <2>2, AddedIs
<1>9. Len(gates) = layers * layer + reps * P
  BY <1>7, <1>8
<1>10. \A l \in 1 .. layers, k \in 1 .. layer :
          gates[(l - 1) * block + k] =
              Gate(rotations[((k - 1) \div n) + 1], <<(k - 1) % n>>,
                   <<Free(c.params + (l - 1) * layer + k - 1)>>)
  BY <1>7, <1>8 DEF Rotated
<1>11. ASSUME NEW r \in 1 .. reps
       PROVE  /\ \A i \in 1 .. P : Cnot(r, i).type = "CNOT"
              /\ {Cnot(r, i).qubits : i \in 1 .. P} = D
              /\ ent = "Pairwise" => \A i, k \in 1 .. P :
                    i < k => Cnot(r, i).qubits[1] % 2 <= Cnot(r, k).qubits[1] % 2
  <2>1. ASSUME NEW i \in 1 .. P
        PROVE  Cnot(r, i).type = "CNOT" /\ Cnot(r, i).qubits = pairs[i]
    <3>1. Cnot(r, i) = Gate("CNOT", pairs[i], <<>>)
      BY <1>7, <1>8
    <3> HIDE DEF Cnot, pairs
    <3> QED BY <3>1 DEF Gate
  <2>2. {Cnot(r, i).qubits : i \in 1 .. P} = {pairs[i] : i \in 1 .. P}
    <3> HIDE DEF Cnot, P, pairs
    <3> QED BY <2>1
  <2>3. ASSUME ent = "Pairwise", NEW i \in 1 .. P, NEW k \in 1 .. P, i < k
        PROVE  Cnot(r, i).qubits[1] % 2 <= Cnot(r, k).qubits[1] % 2
    <3>1. pairs = EntanglementPairs(n, "Pairwise") /\ i \in 1 .. Len(pairs) /\ k \in 1 .. Len(pairs)
      BY <2>3
    <3>2. Cnot(r, i).qubits = pairs[i] /\ Cnot(r, k).qubits = pairs[k]
      BY <2>1
    <3> HIDE DEF pairs, Cnot, P
    <3>3. pairs[i][1] % 2 <= pairs[k][1] % 2
      BY <2>3, <3>1, EvensFirst
    <3> QED BY <3>2, <3>3
  <2> HIDE DEF Cnot, P, pairs
  <2> QED BY <1>2, <2>1, <2>2, <2>3
<1>12. /\ d.params = c.params + layers * (d.n * Len(rotations))
       /\ Cardinality(DocumentedPairs(d.n, ent)) = P
  BY <1>2, <1>4, <1>6
<1> HIDE DEF pairs, P, gates
<1> HIDE DEF D, layer, block
<1>13. LayeredParts(c.params, d.params, gates, n, rotations, reps, ent, D, P, layer, block, layers)
  BY <1>6, <1>9, <1>10, <1>11, Zenon DEF LayeredParts, Cnot
<1>14. LayeredParts(c.params, d.params, Added(c, d), d.n, rotations, reps, ent,
             DocumentedPairs(d.n, ent), Cardinality(DocumentedPairs(d.n, ent)),
             d.n * Len(rotations),
             d.n * Len(rotations) + Cardinality(DocumentedPairs(d.n, ent)),
             reps + (IF final THEN 1 ELSE 0))
  <2>1. /\ n = d.n /\ D = DocumentedPairs(d.n, ent)
        /\ P = Cardinality(DocumentedPairs(d.n, ent)) /\ layer = d.n * Len(rotations)
        /\ gates = Added(c, d)
        /\ layers = reps + (IF final THEN 1 ELSE 0)
    BY <1>4, <1>12 DEF D, layer, gates, layers
  <2>2. block = d.n * Len(rotations) + Cardinality(DocumentedPairs(d.n, ent))
    BY <1>4, <1>12 DEF layer, block
  <2> QED BY <1>13, <2>1, <2>2, Zenon
<1>15. LayeredAsDocumented(c, d, rotations, reps, ent, final)
  BY <1>14, PartsAreDocumented, Zenon
<1> QED BY <1>15 DEF d
=============================================================================
