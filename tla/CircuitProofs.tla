---------------------------- MODULE CircuitProofs ----------------------------
(***************************************************************************)
(* Proofs about what LocalRuntime makes and reads of whole circuits: what  *)
(* a caller is given is what its circuit says, and what the ansatz library *)
(* builds is what its documentation says.                                  *)
(***************************************************************************)
EXTENDS LocalRuntimeProofs

\* One gate more is one step more.
LEMMA RunOneMore ==
    ASSUME Powers, NEW n \in Nat, NEW gates, GatesFit(gates, n), NEW g \in GateOp,
           WellFormed(g, n), NEW s, IsState(s, n)
    PROVE  RunAll(Append(gates, g), s) = Promised!Act(g, RunAll(gates, s))
<1> DEFINE N == Len(gates)
           more == Append(gates, g)
<1>1. PICK f : Runs(f, gates, s, n) /\ RunAll(gates, s) = f[N]
  BY RunSteps
<1>2. /\ N \in Nat /\ more \in Seq(GateOp) /\ Len(more) = N + 1 /\ more[N + 1] = g
      /\ \A k \in 1 .. N : more[k] = gates[k]
  BY DEF GatesFit
<1>3. GatesFit(more, n)
  <2>1. ASSUME NEW k \in 1 .. N + 1 PROVE WellFormed(more[k], n)
    <3>1. k = N + 1 \/ k \in 1 .. N
      BY <1>2
    <3> QED BY <1>2, <3>1 DEF GatesFit
  <2> QED BY <1>2, <2>1 DEF GatesFit
<1> DEFINE h == [k \in 0 .. N + 1 |-> IF k <= N THEN f[k] ELSE Promised!Act(g, f[N])]
<1> HIDE DEF more, N
<1>4. h[0] = s /\ h[N] = f[N] /\ h[N + 1] = Promised!Act(g, f[N])
  BY <1>1, <1>2 DEF Runs
<1>5. \A k \in 1 .. N + 1 : h[k] = Promised!Act(more[k], h[k - 1])
  <2> SUFFICES ASSUME NEW k \in 1 .. N + 1 PROVE h[k] = Promised!Act(more[k], h[k - 1])
    OBVIOUS
  <2>1. CASE k = N + 1
    <3>1. k - 1 = N
      BY <1>2, <2>1
    <3> QED BY <1>2, <1>4, <2>1, <3>1
  <2>2. CASE k \in 1 .. N
    <3>1. k - 1 \in 0 .. N /\ k \in 0 .. N
      BY <1>2, <2>2
    <3>2. h[k] = f[k] /\ h[k - 1] = f[k - 1]
      BY <1>2, <3>1
    <3>3. f[k] = Promised!Act(gates[k], f[k - 1])
      BY <1>1, <2>2 DEF Runs, N
    <3> QED BY <1>2, <2>2, <3>2, <3>3
  <2> QED BY <1>2, <2>1, <2>2
<1> HIDE DEF h
<1>6. RunAll(more, s) = h[N + 1]
  BY <1>2, <1>3, <1>4, <1>5, OneRun
<1> QED BY <1>1, <1>4, <1>6 DEF more, N

LEMMA RunOfNone ==
    ASSUME Powers, NEW n \in Nat, NEW s, IsState(s, n)
    PROVE  RunAll(<<>>, s) = s
<1>1. GatesFit(<<>>, n) /\ Len(<<>>) = 0
  BY DEF GatesFit
<1>2. PICK f : Runs(f, <<>>, s, n) /\ RunAll(<<>>, s) = f[0]
  BY <1>1, RunSteps
<1> QED BY <1>2 DEF Runs

-----------------------------------------------------------------------------
(* The state that is read *)

Prepared(n) == Promised!Ket(0, n)

\* Inside run(), the state is what the gates applied so far make of |0...0>.
Followed ==
    /\ pc = "gates" /\ host = "idle" => mem = RunAll(applied, Prepared(rtWidth))
    /\ pc = "gates" /\ host = "kernel" => before = RunAll(applied, Prepared(rtWidth))

\* After it, it is what all of the circuit's do.
Finished ==
    pc = "ran" => /\ circuit.n \in Nat /\ rtWidth = circuit.n /\ IsState(mem, circuit.n)
                  /\ mem = RunAll(circuit.ops, Prepared(circuit.n))

LEMMA InitFollows == ASSUME Init PROVE Followed /\ Finished /\ (pc # "read")
BY DEF Init, Followed, Finished

LEMMA FollowsSteps ==
    ASSUME Powers, SInv, Followed, Finished, [Next]_vars
    PROVE  Followed' /\ Finished'
<1>0. IInv /\ Stages
  BY DEF SInv
<1>1. IInv'
  BY <1>0, StepIInv
<1>2. CASE DeviceWorks
  <2>1. UNCHANGED <<host, pc, rtWidth, before, applied>> /\ host # "idle" /\ pc = "gates"
    BY <1>1, <1>2, DeviceFrame
  <2> QED BY <2>1 DEF Followed, Finished
<1>3. CASE HostWaits
  <2>1. pc = "gates" /\ pc' = pc /\ rtWidth' = rtWidth
    BY <1>0, <1>3 DEF HostWaits, Seed, Wait, IInv, KInv, Busy
  <2>2. rtWidth \in Nat
    BY <1>0, <2>1, InCall
  <2>3. CASE Seed
    <3>1. host' = "seeding"
      BY <2>3 DEF Seed
    <3> QED BY <2>1, <3>1 DEF Followed, Finished
  <2>4. CASE Wait /\ host = "seeding"
    <3>1. host' = "idle" /\ mem' = Prepared(rtWidth) /\ applied' = <<>>
      BY <1>3, <2>4, HostStages DEF Wait, Prepared
    <3>2. RunAll(<<>>, Prepared(rtWidth)) = Prepared(rtWidth)
      BY <2>2, RunOfNone, KetType DEF Prepared
    <3> QED BY <2>1, <3>1, <3>2 DEF Followed, Finished
  <2>5. CASE Wait /\ host = "kernel"
    <3>1. /\ host' = "idle" /\ mem' = Promised!Act(Current, before)
          /\ applied' = Append(applied, Current) /\ applied \in Seq(GateOp)
      BY <1>3, <2>5, HostStages DEF Wait
    <3>2. AtWork
      BY <1>0, <2>5 DEF Stages
    <3>3. /\ Current \in GateOp /\ WellFormed(Current, rtWidth) /\ GatesFit(applied, rtWidth)
      <4>1. /\ circuit.ops \in Seq(GateOp) /\ next \in 1 .. Len(circuit.ops)
            /\ applied = SubSeq(circuit.ops, 1, next - 1)
            /\ \A k \in 1 .. Len(circuit.ops) :
                  circuit.ops[k] \in GateOp /\ WellFormed(circuit.ops[k], rtWidth)
        BY <1>0, <2>1, <3>2, InCall DEF AtWork
      <4>2. /\ Len(applied) = next - 1 /\ \A k \in 1 .. next - 1 : applied[k] = circuit.ops[k]
        BY <4>1
      <4>3. \A k \in 1 .. next - 1 : k \in 1 .. Len(circuit.ops)
        BY <4>1
      <4> QED BY <3>1, <4>1, <4>2, <4>3 DEF Current, GatesFit
    <3>4. before = RunAll(applied, Prepared(rtWidth))
      BY <2>1, <2>5 DEF Followed
    <3>5. RunAll(Append(applied, Current), Prepared(rtWidth)) = Promised!Act(Current, before)
      BY <2>2, <3>3, <3>4, RunOneMore, KetType DEF Prepared
    <3> QED BY <2>1, <3>1, <3>5 DEF Followed, Finished
  <2> QED BY <1>3, <2>3, <2>4, <2>5 DEF HostWaits, Wait
<1>4. CASE SubmitsGate
  <2>1. pc = "gates" /\ UNCHANGED <<pc, rtWidth>>
    BY <1>4 DEF SubmitsGate
  <2>2. /\ UNCHANGED <<mem, applied>> /\ host = "idle" /\ host' = "kernel" /\ before' = mem
    BY <1>4, SubmitsStages
  <2> QED BY <2>1, <2>2 DEF Followed, Finished
<1>5. CASE Initializes
  <2>1. pc' = "gates" /\ rtWidth' = rtWidth
    BY <1>5 DEF Initializes
  <2>2. /\ applied' = <<>>
        /\ \/ host' = "idle" /\ mem' = Prepared(rtWidth)
           \/ host' = "zeroing"
    BY <1>5, InitializesStages DEF Prepared
  <2>3. rtWidth \in Nat
    BY <1>0, <1>5 DEF Initializes, IInv, KInv, Shape
  <2>4. RunAll(<<>>, Prepared(rtWidth)) = Prepared(rtWidth)
    BY <2>3, RunOfNone, KetType DEF Prepared
  <2> QED BY <2>1, <2>2, <2>4 DEF Followed, Finished
<1>6. CASE RunReturns
  <2>1. /\ pc = "gates" /\ host = "idle" /\ next = Len(circuit.ops) /\ pc' = "ran"
        /\ UNCHANGED <<mem, circuit, rtWidth>>
    BY <1>6 DEF RunReturns, backend, building
  <2>2. rtWidth \in Nat /\ rtWidth = circuit.n /\ circuit.ops \in Seq(GateOp)
    BY <1>0, <2>1, InCall
  <2>3. IsState(mem, rtWidth) /\ applied = SubSeq(circuit.ops, 1, Len(circuit.ops))
    BY <1>0, <2>1 DEF Stages, Between
  <2>4. applied = circuit.ops
    BY <2>2, <2>3
  <2> QED BY <2>1, <2>2, <2>3, <2>4 DEF Followed, Finished
<1>7. CASE \/ AddsGate \/ Measures \/ AllocatesParameter \/ CallsLibrary \/ Binds
           \/ NextCircuit \/ Run \/ InitializeFails
           \/ ReadsState \/ SamplesOnce \/ TakesExpectation \/ TakesAnswer
  <2>1. pc' \notin {"gates", "ran"}
    <3>1. CASE AddsGate \/ Measures \/ AllocatesParameter \/ CallsLibrary \/ Binds
      <4>1. \A c, x, m : Built(c, x, m) => pc' = "build"
        BY DEF Built
      <4> QED BY <3>1, <4>1 DEF AddsGate, Measures, AllocatesParameter, CallsLibrary, Binds
    <3>2. CASE ReadsState \/ SamplesOnce \/ TakesExpectation \/ TakesAnswer
      <4>1. \A w, v : Given(w, v) => pc' = "read"
        BY DEF Given
      <4> QED BY <3>2, <4>1 DEF ReadsState, SamplesOnce, TakesExpectation, TakesAnswer
    <3> QED BY <1>7, <3>1, <3>2 DEF NextCircuit, Run, InitializeFails
  <2> QED BY <2>1 DEF Followed, Finished
<1>8. CASE UNCHANGED vars
  BY <1>8 DEF vars, Followed, Finished
<1> QED BY <1>2, <1>3, <1>4, <1>5, <1>6, <1>7, <1>8 DEF Next

-----------------------------------------------------------------------------
(* Sums over a finite set, whatever the order *)

\* Induction over the subsets of a finite set.
LEMMA Subsets ==
    ASSUME NEW D, IsFiniteSet(D), NEW G, {} \in G,
           \A T \in SUBSET D : T # {} /\ (\A x \in T : T \ {x} \in G) => T \in G
    PROVE  \A T \in SUBSET D : T \in G
<1> DEFINE N == Cardinality(D)
           L == {k \in 0 .. N : \A T \in SUBSET D : Cardinality(T) = k => T \in G}
<1>1. N \in Nat
  BY FS_CardinalityType
<1>2. \A T \in SUBSET D : IsFiniteSet(T) /\ Cardinality(T) \in Nat /\ Cardinality(T) <= N
  BY FS_Subset, FS_CardinalityType
<1>3. 0 \in L
  <2>1. \A T \in SUBSET D : Cardinality(T) = 0 => T = {}
    BY <1>2, FS_EmptySet
  <2> QED BY <1>1, <2>1
<1>4. ASSUME NEW k \in 1 .. N, k - 1 \in L PROVE k \in L
  <2>1. ASSUME NEW T \in SUBSET D, Cardinality(T) = k PROVE T \in G
    <3>1. T # {}
      <4>1. k # 0
        BY <1>1
      <4>2. Cardinality({}) = 0
        BY FS_EmptySet
      <4> QED BY ONLY <2>1, <4>1, <4>2, Zenon
    <3>2. ASSUME NEW x \in T PROVE T \ {x} \in G
      <4>1. Cardinality(T \ {x}) = k - 1 /\ T \ {x} \in SUBSET D
        BY <1>2, <2>1, FS_RemoveElement
      <4> QED BY <1>4, <4>1
    <3> QED BY <3>1, <3>2
  <2> QED BY <2>1
<1>5. \A k \in 0 .. N : k \in L
  <2> HIDE DEF L, N
  <2> QED BY <1>1, <1>3, <1>4, Climb
<1> QED BY <1>1, <1>2, <1>5

\* An addition on V in which the order of two summands does not matter.
Adds(V, add, zero) ==
    /\ zero \in V
    /\ \A a, b \in V : add[<<a, b>>] \in V
    /\ \A a, b, d \in V : add[<<add[<<a, b>>], d>>] = add[<<add[<<a, d>>], b>>]

\* The sums of the summands c[x] over the subsets of D.
IsSum(sum, D, c, V, add, zero) ==
    /\ sum \in [SUBSET D -> V] /\ sum[{}] = zero
    /\ \A T \in SUBSET D : \A x \in T : sum[T] = add[<<sum[T \ {x}], c[x]>>]

LEMMA SumExists ==
    ASSUME NEW D, IsFiniteSet(D), NEW V, NEW add, NEW zero, Adds(V, add, zero),
           NEW c, \A x \in D : c[x] \in V
    PROVE  \E sum : IsSum(sum, D, c, V, add, zero)
<1> DEFINE Has(T) == \E sum : IsSum(sum, T, c, V, add, zero)
           G == {T \in SUBSET D : Has(T)}
<1>1. {} \in G
  <2> DEFINE sum == [T \in SUBSET {} |-> zero]
  <2>1. IsSum(sum, {}, c, V, add, zero)
    BY DEF IsSum, Adds
  <2> HIDE DEF sum
  <2> QED BY <2>1
<1>2. ASSUME NEW E \in SUBSET D, E # {}, \A x \in E : E \ {x} \in G PROVE E \in G
  <2>1. PICK y \in E : TRUE
    BY <1>2
  <2>2. PICK sum : IsSum(sum, E \ {y}, c, V, add, zero)
    BY <1>2
  <2> DEFINE more == [T \in SUBSET E |->
                        IF y \in T THEN add[<<sum[T \ {y}], c[y]>>] ELSE sum[T]]
  <2>3. \A T \in SUBSET E : /\ T \ {y} \in SUBSET (E \ {y})
                            /\ y \notin T => T \in SUBSET (E \ {y}) /\ T \ {y} = T
    OBVIOUS
  <2>4. \A T \in SUBSET E : sum[T \ {y}] \in V
    BY <2>2, <2>3 DEF IsSum
  <2>5. \A x \in E : c[x] \in V
    OBVIOUS
  <2>6. more \in [SUBSET E -> V]
    <3>1. ASSUME NEW T \in SUBSET E PROVE more[T] \in V
      <4>1. CASE y \in T
        BY <2>4, <2>5, <4>1 DEF Adds
      <4>2. CASE y \notin T
        <5>1. sum[T] = sum[T \ {y}]
          BY <2>3, <4>2
        <5> QED BY <2>4, <4>2, <5>1
      <4> QED BY <4>1, <4>2
    <3> QED BY <3>1
  <2>7. more[{}] = zero
    BY <2>2 DEF IsSum
  <2>8. ASSUME NEW T \in SUBSET E, NEW x \in T
        PROVE  more[T] = add[<<more[T \ {x}], c[x]>>]
    <3>1. T \ {x} \in SUBSET E
      OBVIOUS
    <3>2. CASE x = y
      <4>1. more[T] = add[<<sum[T \ {y}], c[y]>>] /\ more[T \ {x}] = sum[T \ {y}]
        BY <3>1, <3>2
      <4> QED BY <3>2, <4>1
    <3>3. CASE x # y /\ y \in T
      <4>1. more[T] = add[<<sum[T \ {y}], c[y]>>]
        BY <3>3
      <4>2. more[T \ {x}] = add[<<sum[(T \ {x}) \ {y}], c[y]>>]
        BY <3>1, <3>3
      <4>3. sum[T \ {y}] = add[<<sum[(T \ {y}) \ {x}], c[x]>>]
        BY <2>2, <2>3, <3>3 DEF IsSum
      <4>4. (T \ {x}) \ {y} = (T \ {y}) \ {x}
        OBVIOUS
      <4> DEFINE a == sum[(T \ {y}) \ {x}]
      <4>5. a \in V /\ c[x] \in V /\ c[y] \in V
        BY <2>4, <2>5, <3>1, <4>4
      <4> HIDE DEF a
      <4>6. add[<<add[<<a, c[x]>>], c[y]>>] = add[<<add[<<a, c[y]>>], c[x]>>]
        BY <4>5 DEF Adds
      <4> QED BY <4>1, <4>2, <4>3, <4>4, <4>6 DEF a
    <3>4. CASE x # y /\ y \notin T
      <4>1. more[T] = sum[T] /\ more[T \ {x}] = sum[T \ {x}]
        BY <3>1, <3>4
      <4>2. sum[T] = add[<<sum[T \ {x}], c[x]>>]
        BY <2>2, <2>3, <3>4 DEF IsSum
      <4> QED BY <4>1, <4>2
    <3> QED BY <3>2, <3>3, <3>4
  <2> HIDE DEF more
  <2>9. IsSum(more, E, c, V, add, zero)
    BY <2>6, <2>7, <2>8 DEF IsSum
  <2> QED BY <2>9
<1>3. \A T \in SUBSET D : T \in G
  <2> HIDE DEF G
  <2> QED BY <1>1, <1>2, Subsets
<1> QED BY <1>3

\* Whatever adds the elements of every subset one by one has the sums.
Collects(it, D, c, V, add, zero, pick) ==
    /\ it[{}] = zero
    /\ \A T \in SUBSET D : T # {} =>
          /\ pick[T] \in T
          /\ it[T \ {pick[T]}] \in V => it[T] = add[<<it[T \ {pick[T]}], c[pick[T]]>>]

LEMMA SumIs ==
    ASSUME NEW D, NEW V, NEW add, NEW zero, NEW c, NEW sum, NEW it, NEW pick, IsFiniteSet(D),
           IsSum(sum, D, c, V, add, zero), Collects(it, D, c, V, add, zero, pick)
    PROVE  \A T \in SUBSET D : it[T] = sum[T]
<1> DEFINE G == {T \in SUBSET D : it[T] = sum[T]}
<1>1. {} \in G
  BY DEF IsSum, Collects
<1>2. ASSUME NEW T \in SUBSET D, T # {}, \A x \in T : T \ {x} \in G PROVE T \in G
  <2> DEFINE x == pick[T]
             rest == T \ {x}
  <2>1. x \in T
    BY <1>2 DEF Collects
  <2>2. rest \in SUBSET D /\ it[rest] = sum[rest]
    BY <1>2, <2>1
  <2>3. sum[rest] \in V /\ sum[T] = add[<<sum[rest], c[x]>>]
    BY <2>1, <2>2 DEF IsSum
  <2>4. it[T] = add[<<it[rest], c[x]>>]
    BY <1>2, <2>2, <2>3 DEF Collects
  <2> HIDE DEF x, rest
  <2> QED BY <2>2, <2>3, <2>4
<1> HIDE DEF G
<1>3. \A T \in SUBSET D : T \in G
  BY <1>1, <1>2, Subsets
<1> QED BY <1>3 DEF G

LEMMA SumIsUnique ==
    ASSUME NEW D, IsFiniteSet(D), NEW V, NEW add, NEW zero, NEW c, NEW sum, NEW more, NEW d,
           IsSum(sum, D, c, V, add, zero), IsSum(more, D, d, V, add, zero),
           \A x \in D : c[x] = d[x]
    PROVE  \A T \in SUBSET D : more[T] = sum[T]
<1> DEFINE pick == [T \in SUBSET D |-> CHOOSE x \in T : TRUE]
<1>1. \A T \in SUBSET D : T # {} => pick[T] \in T
  OBVIOUS
<1> HIDE DEF pick
<1>2. ASSUME NEW T \in SUBSET D, T # {}
      PROVE  more[T] = add[<<more[T \ {pick[T]}], c[pick[T]]>>]
  <2>1. pick[T] \in T /\ pick[T] \in D
    BY <1>1, <1>2
  <2> QED BY <2>1 DEF IsSum
<1>3. more[{}] = zero
  BY DEF IsSum
<1>4. Collects(more, D, c, V, add, zero, pick)
  BY <1>1, <1>2, <1>3 DEF Collects
<1> QED BY <1>4, SumIs

\* Sums of what h makes of the summands, h keeping sums.
LEMMA MappedSum ==
    ASSUME NEW D, IsFiniteSet(D), NEW V, NEW add, NEW zero, Adds(V, add, zero), NEW c,
           \A x \in D : c[x] \in V, NEW sum, IsSum(sum, D, c, V, add, zero),
           NEW h, h[zero] = zero, \A a \in V : h[a] \in V,
           \A a, b \in V : h[add[<<a, b>>]] = add[<<h[a], h[b]>>],
           NEW d, \A x \in D : d[x] = h[c[x]], NEW more, IsSum(more, D, d, V, add, zero)
    PROVE  more[D] = h[sum[D]]
<1> DEFINE mapped == [T \in SUBSET D |-> h[sum[T]]]
<1>1. IsSum(mapped, D, d, V, add, zero)
  <2>1. \A T \in SUBSET D : sum[T] \in V
    BY DEF IsSum
  <2>2. mapped \in [SUBSET D -> V] /\ mapped[{}] = zero
    BY <2>1 DEF IsSum
  <2>3. ASSUME NEW T \in SUBSET D, NEW x \in T
        PROVE  mapped[T] = add[<<mapped[T \ {x}], d[x]>>]
    <3>1. T \ {x} \in SUBSET D /\ x \in D
      OBVIOUS
    <3>2. sum[T] = add[<<sum[T \ {x}], c[x]>>]
      BY DEF IsSum
    <3>3. sum[T \ {x}] \in V /\ c[x] \in V
      BY <2>1, <3>1
    <3>4. h[sum[T]] = add[<<h[sum[T \ {x}]], h[c[x]]>>]
      BY <3>2, <3>3
    <3> QED BY <3>1, <3>4
  <2> HIDE DEF mapped
  <2> QED BY <2>2, <2>3 DEF IsSum
<1>2. \A T \in SUBSET D : more[T] = mapped[T]
  <2> HIDE DEF mapped
  <2> QED BY <1>1, SumIsUnique
<1> QED BY <1>2

\* Sums of the same summands in another order.
LEMMA ReorderedSum ==
    ASSUME NEW D, IsFiniteSet(D), NEW V, NEW add, NEW zero, NEW c, NEW sum,
           IsSum(sum, D, c, V, add, zero), NEW h, \A x \in D : h[x] \in D,
           \A x, y \in D : h[x] = h[y] => x = y, \A y \in D : \E x \in D : h[x] = y,
           NEW d, \A x \in D : d[x] = c[h[x]], NEW more, IsSum(more, D, d, V, add, zero)
    PROVE  more[D] = sum[D]
<1> DEFINE image(T) == {h[x] : x \in T}
           mapped == [T \in SUBSET D |-> sum[image(T)]]
<1>0. image({}) = {} /\ image(D) = D /\ \A T \in SUBSET D : image(T) \in SUBSET D
  OBVIOUS
<1>1. IsSum(mapped, D, d, V, add, zero)
  <2>2. mapped \in [SUBSET D -> V] /\ mapped[{}] = zero
    BY <1>0 DEF IsSum
  <2>3. ASSUME NEW T \in SUBSET D, NEW x \in T
        PROVE  mapped[T] = add[<<mapped[T \ {x}], d[x]>>]
    <3>1. T \ {x} \in SUBSET D /\ x \in D /\ h[x] \in image(T)
      OBVIOUS
    <3>2. image(T \ {x}) = image(T) \ {h[x]}
      OBVIOUS
    <3>3. image(T) \in SUBSET D
      BY <1>0
    <3> HIDE DEF image
    <3>4. sum[image(T)] = add[<<sum[image(T) \ {h[x]}], c[h[x]]>>]
      BY <3>1, <3>3 DEF IsSum
    <3> QED BY <3>1, <3>2, <3>4
  <2> HIDE DEF mapped
  <2> QED BY <2>2, <2>3 DEF IsSum
<1>2. \A T \in SUBSET D : more[T] = mapped[T]
  <2> HIDE DEF mapped
  <2> QED BY <1>1, SumIsUnique
<1>3. more[D] = sum[image(D)]
  <2> HIDE DEF image
  <2> QED BY <1>2
<1> QED BY <1>0, <1>3

\* The sum of the c[x].
Total(D, c, V, add, zero) == (CHOOSE sum : IsSum(sum, D, c, V, add, zero))[D]

LEMMA TotalIs ==
    ASSUME NEW D, NEW c, NEW V, NEW add, NEW zero, NEW sum, IsFiniteSet(D),
           IsSum(sum, D, c, V, add, zero)
    PROVE  \A T \in SUBSET D : Total(T, c, V, add, zero) = sum[T]
<1> SUFFICES ASSUME NEW T \in SUBSET D PROVE Total(T, c, V, add, zero) = sum[T]
  OBVIOUS
<1> DEFINE part == [E \in SUBSET T |-> sum[E]]
           chosen == CHOOSE s : IsSum(s, T, c, V, add, zero)
<1>1. IsSum(part, T, c, V, add, zero)
  <2>1. /\ part \in [SUBSET T -> V] /\ part[{}] = zero
    BY DEF IsSum
  <2>2. ASSUME NEW E \in SUBSET T, NEW x \in E
        PROVE  part[E] = add[<<part[E \ {x}], c[x]>>]
    <3>1. E \in SUBSET D /\ E \ {x} \in SUBSET T
      OBVIOUS
    <3>2. sum[E] = add[<<sum[E \ {x}], c[x]>>]
      BY <3>1 DEF IsSum
    <3> QED BY <3>1, <3>2
  <2> HIDE DEF part
  <2> QED BY <2>1, <2>2 DEF IsSum
<1>2. IsSum(chosen, T, c, V, add, zero)
  <2> HIDE DEF part
  <2> QED BY <1>1
<1>3. IsFiniteSet(T) /\ T \in SUBSET T
  BY FS_Subset
<1> HIDE DEF part, chosen
<1>4. chosen[T] = part[T]
  BY <1>1, <1>2, <1>3, SumIsUnique
<1> QED BY <1>3, <1>4 DEF chosen, part, Total

LEMMA TotalFacts ==
    ASSUME NEW D, NEW c, NEW V, NEW add, NEW zero, IsFiniteSet(D), Adds(V, add, zero),
           \A x \in D : c[x] \in V
    PROVE  /\ Total(D, c, V, add, zero) \in V /\ Total({}, c, V, add, zero) = zero
           /\ \A x \in D : Total(D, c, V, add, zero)
                             = add[<<Total(D \ {x}, c, V, add, zero), c[x]>>]
           /\ \E sum : /\ IsSum(sum, D, c, V, add, zero)
                       /\ \A T \in SUBSET D : Total(T, c, V, add, zero) = sum[T]
<1>1. PICK sum : IsSum(sum, D, c, V, add, zero)
  BY SumExists
<1>2. \A T \in SUBSET D : Total(T, c, V, add, zero) = sum[T]
  BY <1>1, TotalIs
<1>3. D \in SUBSET D /\ {} \in SUBSET D /\ \A x \in D : D \ {x} \in SUBSET D
  OBVIOUS
<1> QED BY <1>1, <1>2, <1>3, SMTT(30) DEF IsSum

LEMMA TotalSum ==
    ASSUME NEW D, NEW c, NEW V, NEW add, NEW zero, IsFiniteSet(D), Adds(V, add, zero),
           \A x \in D : c[x] \in V
    PROVE  \E sum : IsSum(sum, D, c, V, add, zero) /\ Total(D, c, V, add, zero) = sum[D]
<1>1. D \in SUBSET D
  OBVIOUS
<1> QED BY <1>1, TotalFacts

LEMMA TotalSame ==
    ASSUME NEW D, NEW c, NEW d, NEW V, NEW add, NEW zero, IsFiniteSet(D), Adds(V, add, zero),
           \A x \in D : c[x] \in V /\ d[x] = c[x]
    PROVE  Total(D, d, V, add, zero) = Total(D, c, V, add, zero)
<1>1. PICK s : IsSum(s, D, c, V, add, zero) /\ Total(D, c, V, add, zero) = s[D]
  <2>1. D \in SUBSET D
    OBVIOUS
  <2> QED BY <2>1, TotalFacts
<1>2. PICK t : IsSum(t, D, d, V, add, zero) /\ Total(D, d, V, add, zero) = t[D]
  <2>1. D \in SUBSET D /\ \A x \in D : d[x] \in V
    OBVIOUS
  <2> QED BY <2>1, TotalFacts
<1>3. \A x \in D : c[x] = d[x]
  OBVIOUS
<1>4. t[D] = s[D]
  BY <1>1, <1>2, <1>3, SumIsUnique
<1> QED BY <1>1, <1>2, <1>4

LEMMA TotalMapped ==
    ASSUME NEW D, NEW c, NEW d, NEW h, NEW V, NEW add, NEW zero, IsFiniteSet(D),
           Adds(V, add, zero), \A x \in D : c[x] \in V /\ d[x] = h[c[x]],
           h[zero] = zero, \A a \in V : h[a] \in V,
           \A a, b \in V : h[add[<<a, b>>]] = add[<<h[a], h[b]>>]
    PROVE  Total(D, d, V, add, zero) = h[Total(D, c, V, add, zero)]
<1>0. D \in SUBSET D
  OBVIOUS
<1>1. PICK s : IsSum(s, D, c, V, add, zero) /\ Total(D, c, V, add, zero) = s[D]
  BY <1>0, TotalFacts
<1>2. PICK t : IsSum(t, D, d, V, add, zero) /\ Total(D, d, V, add, zero) = t[D]
  <2>1. \A x \in D : d[x] \in V
    OBVIOUS
  <2> QED BY <1>0, <2>1, TotalFacts
<1>3. (\A x \in D : c[x] \in V) /\ (\A x \in D : d[x] = h[c[x]])
  OBVIOUS
<1>4. t[D] = h[s[D]]
  BY <1>1, <1>2, <1>3, MappedSum
<1> QED BY <1>1, <1>2, <1>4

LEMMA TotalReordered ==
    ASSUME NEW D, NEW c, NEW d, NEW h, NEW V, NEW add, NEW zero, IsFiniteSet(D),
           Adds(V, add, zero), \A x \in D : c[x] \in V /\ d[x] = c[h[x]] /\ h[x] \in D,
           \A x, y \in D : h[x] = h[y] => x = y, \A y \in D : \E x \in D : h[x] = y
    PROVE  Total(D, d, V, add, zero) = Total(D, c, V, add, zero)
<1>0. D \in SUBSET D
  OBVIOUS
<1>1. PICK s : IsSum(s, D, c, V, add, zero) /\ Total(D, c, V, add, zero) = s[D]
  BY <1>0, TotalFacts
<1>2. PICK t : IsSum(t, D, d, V, add, zero) /\ Total(D, d, V, add, zero) = t[D]
  <2>1. \A x \in D : d[x] \in V
    OBVIOUS
  <2> QED BY <1>0, <2>1, TotalFacts
<1>3. (\A x \in D : h[x] \in D) /\ (\A x \in D : d[x] = c[h[x]])
  OBVIOUS
<1>4. t[D] = s[D]
  BY <1>1, <1>2, <1>3, ReorderedSum
<1> QED BY <1>1, <1>2, <1>4

-----------------------------------------------------------------------------
(* Sums of numbers, of amplitudes, and of numbers modulo the prime *)

IntAdd == [p \in Int \X Int |-> p[1] + p[2]]
ModAdd == [p \in Int \X Int |-> (p[1] + p[2]) % Prime]
AmpAdd == [p \in Amplitude \X Amplitude |-> Plus(p[1], p[2])]

LEMMA Additions ==
    /\ Adds(Int, IntAdd, 0) /\ Adds(Int, ModAdd, 0) /\ Adds(Amplitude, AmpAdd, Zero)
    /\ \A a, b \in Int : IntAdd[<<a, b>>] = a + b /\ ModAdd[<<a, b>>] = (a + b) % Prime
    /\ \A a, b \in Amplitude : AmpAdd[<<a, b>>] = Plus(a, b)
<1>1. \A a, b \in Int : IntAdd[<<a, b>>] = a + b /\ ModAdd[<<a, b>>] = (a + b) % Prime
  BY DEF IntAdd, ModAdd
<1>2. \A a, b \in Amplitude : AmpAdd[<<a, b>>] = Plus(a, b)
  BY DEF AmpAdd
<1>3. Adds(Int, IntAdd, 0)
  BY <1>1 DEF Adds
<1>4. Adds(Int, ModAdd, 0)
  <2>1. \A a, b, d \in Int : (((a + b) % Prime) + d) % Prime = (((a + d) % Prime) + b) % Prime
    BY DEF Prime
  <2>2. \A a, b \in Int : (a + b) % Prime \in Int
    BY DEF Prime
  <2> QED BY <1>1, <2>1, <2>2 DEF Adds
<1>5. Adds(Amplitude, AmpAdd, Zero)
  <2>1. Zero \in Amplitude
    BY ConstantsType
  <2>2. \A a, b \in Amplitude : Plus(a, b) \in Amplitude
    BY ArithmeticType
  <2>3. ASSUME NEW a \in Amplitude, NEW b \in Amplitude, NEW d \in Amplitude
        PROVE  Plus(Plus(a, b), d) = Plus(Plus(a, d), b)
    <3>1. /\ a[1] \in Int /\ a[2] \in Int /\ b[1] \in Int /\ b[2] \in Int
          /\ d[1] \in Int /\ d[2] \in Int
      BY DEF Amplitude
    <3>2. \A x, y, z \in Int : (((x + y) % 31) + z) % 31 = (((x + z) % 31) + y) % 31
      OBVIOUS
    <3>3. /\ Plus(Plus(a, b), d) = <<(((a[1] + b[1]) % 31) + d[1]) % 31,
                                       (((a[2] + b[2]) % 31) + d[2]) % 31>>
          /\ Plus(Plus(a, d), b) = <<(((a[1] + d[1]) % 31) + b[1]) % 31,
                                       (((a[2] + d[2]) % 31) + b[2]) % 31>>
      BY DEF Plus, Complex, Prime
    <3>4. /\ (((a[1] + b[1]) % 31) + d[1]) % 31 = (((a[1] + d[1]) % 31) + b[1]) % 31
          /\ (((a[2] + b[2]) % 31) + d[2]) % 31 = (((a[2] + d[2]) % 31) + b[2]) % 31
      BY <3>1, <3>2
    <3> QED BY <3>3, <3>4
  <2>4. /\ \A a, b \in Amplitude : AmpAdd[<<a, b>>] \in Amplitude
        /\ \A a, b, d \in Amplitude :
              AmpAdd[<<AmpAdd[<<a, b>>], d>>] = AmpAdd[<<AmpAdd[<<a, d>>], b>>]
    <3> HIDE DEF AmpAdd
    <3>1. ASSUME NEW a \in Amplitude, NEW b \in Amplitude
          PROVE  AmpAdd[<<a, b>>] = Plus(a, b) /\ AmpAdd[<<a, b>>] \in Amplitude
      BY <1>2, <2>2
    <3>2. ASSUME NEW a \in Amplitude, NEW b \in Amplitude, NEW d \in Amplitude
          PROVE  AmpAdd[<<AmpAdd[<<a, b>>], d>>] = AmpAdd[<<AmpAdd[<<a, d>>], b>>]
      <4>1. AmpAdd[<<AmpAdd[<<a, b>>], d>>] = Plus(Plus(a, b), d)
        BY <1>2, <3>1
      <4>2. AmpAdd[<<AmpAdd[<<a, d>>], b>>] = Plus(Plus(a, d), b)
        BY <1>2, <3>1
      <4> QED BY <2>3, <4>1, <4>2
    <3> QED BY <3>1, <3>2
  <2> QED BY <2>1, <2>4 DEF Adds
<1> QED BY <1>1, <1>2, <1>3, <1>4, <1>5

IntTotal(D, c) == Total(D, c, Int, IntAdd, 0)
ModTotal(D, c) == Total(D, c, Int, ModAdd, 0)
AmpTotal(D, c) == Total(D, c, Amplitude, AmpAdd, Zero)

LEMMA IntTotals ==
    ASSUME NEW D, NEW c, IsFiniteSet(D), \A x \in D : c[x] \in Int
    PROVE  /\ IntTotal(D, c) \in Int /\ IntTotal({}, c) = 0
           /\ \A x \in D : IntTotal(D, c) = IntTotal(D \ {x}, c) + c[x]
<1>1. /\ IntTotal(D, c) \in Int /\ IntTotal({}, c) = 0
      /\ \A x \in D : IntTotal(D, c) = IntAdd[<<IntTotal(D \ {x}, c), c[x]>>]
  BY TotalFacts, Additions DEF IntTotal
<1>2. \A x \in D : IntTotal(D \ {x}, c) \in Int
  <2> SUFFICES ASSUME NEW x \in D PROVE IntTotal(D \ {x}, c) \in Int
    OBVIOUS
  <2>1. IsFiniteSet(D \ {x}) /\ \A y \in D \ {x} : c[y] \in Int
    BY FS_RemoveElement
  <2> QED BY <2>1, TotalFacts, Additions DEF IntTotal
<1> QED BY <1>1, <1>2, Additions

LEMMA ModTotals ==
    ASSUME NEW D, NEW c, IsFiniteSet(D), \A x \in D : c[x] \in Int
    PROVE  /\ ModTotal(D, c) \in Int /\ ModTotal({}, c) = 0
           /\ \A x \in D : ModTotal(D, c) = (ModTotal(D \ {x}, c) + c[x]) % Prime
<1>1. /\ ModTotal(D, c) \in Int /\ ModTotal({}, c) = 0
      /\ \A x \in D : ModTotal(D, c) = ModAdd[<<ModTotal(D \ {x}, c), c[x]>>]
  BY TotalFacts, Additions DEF ModTotal
<1>2. \A x \in D : ModTotal(D \ {x}, c) \in Int
  <2> SUFFICES ASSUME NEW x \in D PROVE ModTotal(D \ {x}, c) \in Int
    OBVIOUS
  <2>1. IsFiniteSet(D \ {x}) /\ \A y \in D \ {x} : c[y] \in Int
    BY FS_RemoveElement
  <2> QED BY <2>1, TotalFacts, Additions DEF ModTotal
<1> QED BY <1>1, <1>2, Additions

LEMMA HaveSums ==
    ASSUME NEW D, NEW c, IsFiniteSet(D)
    PROVE  /\ (\A x \in D : c[x] \in Int) =>
                \E sum : IsSum(sum, D, c, Int, IntAdd, 0) /\ IntTotal(D, c) = sum[D]
           /\ (\A x \in D : c[x] \in Int) =>
                \E sum : IsSum(sum, D, c, Int, ModAdd, 0) /\ ModTotal(D, c) = sum[D]
           /\ (\A x \in D : c[x] \in Amplitude) =>
                \E sum : IsSum(sum, D, c, Amplitude, AmpAdd, Zero) /\ AmpTotal(D, c) = sum[D]
<1>1. ASSUME \A x \in D : c[x] \in Int
      PROVE  \E sum : IsSum(sum, D, c, Int, IntAdd, 0) /\ IntTotal(D, c) = sum[D]
  <2> DEFINE V == Int
             add == IntAdd
             zero == 0
  <2>1. (\A x \in D : c[x] \in V) /\ Adds(V, add, zero)
    BY <1>1, Additions
  <2>2. \A s : IntTotal(D, c) = s[D] <=> Total(D, c, V, add, zero) = s[D]
    BY DEF IntTotal
  <2> HIDE DEF V, add, zero
  <2>3. \E sum : IsSum(sum, D, c, V, add, zero) /\ Total(D, c, V, add, zero) = sum[D]
    BY <2>1, TotalSum
  <2>4. \E sum : IsSum(sum, D, c, V, add, zero) /\ IntTotal(D, c) = sum[D]
    BY <2>2, <2>3
  <2> QED BY <2>4 DEF V, add, zero
<1>2. ASSUME \A x \in D : c[x] \in Int
      PROVE  \E sum : IsSum(sum, D, c, Int, ModAdd, 0) /\ ModTotal(D, c) = sum[D]
  <2> DEFINE V == Int
             add == ModAdd
             zero == 0
  <2>1. (\A x \in D : c[x] \in V) /\ Adds(V, add, zero)
    BY <1>2, Additions
  <2>2. \A s : ModTotal(D, c) = s[D] <=> Total(D, c, V, add, zero) = s[D]
    BY DEF ModTotal
  <2> HIDE DEF V, add, zero
  <2>3. \E sum : IsSum(sum, D, c, V, add, zero) /\ Total(D, c, V, add, zero) = sum[D]
    BY <2>1, TotalSum
  <2>4. \E sum : IsSum(sum, D, c, V, add, zero) /\ ModTotal(D, c) = sum[D]
    BY <2>2, <2>3
  <2> QED BY <2>4 DEF V, add, zero
<1>3. ASSUME \A x \in D : c[x] \in Amplitude
      PROVE  \E sum : IsSum(sum, D, c, Amplitude, AmpAdd, Zero) /\ AmpTotal(D, c) = sum[D]
  <2> DEFINE V == Amplitude
             add == AmpAdd
             zero == Zero
  <2>1. (\A x \in D : c[x] \in V) /\ Adds(V, add, zero)
    BY <1>3, Additions
  <2>2. \A s : AmpTotal(D, c) = s[D] <=> Total(D, c, V, add, zero) = s[D]
    BY DEF AmpTotal
  <2> HIDE DEF V, add, zero
  <2>3. \E sum : IsSum(sum, D, c, V, add, zero) /\ Total(D, c, V, add, zero) = sum[D]
    BY <2>1, TotalSum
  <2>4. \E sum : IsSum(sum, D, c, V, add, zero) /\ AmpTotal(D, c) = sum[D]
    BY <2>2, <2>3
  <2> QED BY <2>4 DEF V, add, zero
<1> QED BY <1>1, <1>2, <1>3

\* The order folds take their elements in.
Topmost(N) == [T \in SUBSET (1 .. N) |-> Max(T)]
SomeOf(D) == [T \in SUBSET D |-> CHOOSE x \in T : TRUE]

LEMMA Orders ==
    /\ \A N \in Nat : \A T \in SUBSET (1 .. N) : T # {} =>
          Max(T) \in T /\ Topmost(N)[T] = Max(T) /\ Max(T) \in 1 .. N
              /\ T \ {Max(T)} \in SUBSET (1 .. N)
    /\ \A D : \A T \in SUBSET D : T # {} =>
          /\ (CHOOSE x \in T : TRUE) \in T /\ SomeOf(D)[T] = CHOOSE x \in T : TRUE
          /\ (CHOOSE x \in T : TRUE) \in D /\ T \ {CHOOSE x \in T : TRUE} \in SUBSET D
<1>1. ASSUME NEW N \in Nat, NEW T \in SUBSET (1 .. N), T # {}
      PROVE  Max(T) \in T /\ Max(T) \in 1 .. N
  BY <1>1, Greatest
<1>2. \A N : \A T \in SUBSET (1 .. N) : Topmost(N)[T] = Max(T)
  BY DEF Topmost
<1>3. \A D : \A T \in SUBSET D : T # {} => (CHOOSE x \in T : TRUE) \in T
  OBVIOUS
<1>4. \A D : \A T \in SUBSET D : SomeOf(D)[T] = CHOOSE x \in T : TRUE
  BY DEF SomeOf
<1> QED BY <1>1, <1>2, <1>3, <1>4

\* The folds are sums: the entry of a diagonal observable, ...
LEMMA CostFold ==
    ASSUME NEW masks, Len(masks) \in Nat, DOMAIN masks = 1 .. Len(masks),
           NEW j, \A x \in 1 .. Len(masks) : masks[x].coeff \in Int
    PROVE  DiagonalCost(masks, j)
             = IntTotal(1 .. Len(masks), [x \in 1 .. Len(masks) |->
                   IF Odd(j, masks[x].z) THEN -masks[x].coeff ELSE masks[x].coeff])
<1> DEFINE N == Len(masks)
           c == [x \in 1 .. Len(masks) |->
                   IF Odd(j, masks[x].z) THEN -masks[x].coeff ELSE masks[x].coeff]
           whole == DiagonalCost(masks, j)
           then(s, x) == s + (IF Odd(j, masks[x].z) THEN -masks[x].coeff ELSE masks[x].coeff)
           one(T) == Max(T)
           F(it) == [T \in SUBSET (1 .. N) |->
                       IF T = {} THEN 0 ELSE then(it[T \ {one(T)}], one(T))]
<1>0. N \in Nat
  OBVIOUS
<1>1. IsFiniteSet(1 .. N) /\ \A x \in 1 .. N : c[x] \in Int
  <2>1. IsFiniteSet(1 .. N)
    BY <1>0, FS_Interval
  <2>2. \A x \in 1 .. N : c[x] \in Int
    OBVIOUS
  <2> QED BY <2>1, <2>2
<1>2. whole = (CHOOSE it : it = F(it))[1 .. N]
  BY DEF FoldLeft, MapThenFoldSet, DiagonalCost
<1>3. \A s \in Int, x \in 1 .. N : then(s, x) = IntAdd[<<s, c[x]>>]
  BY <1>1, Additions
<1>p. \A T \in SUBSET (1 .. N) : T # {} =>
         /\ one(T) \in T /\ one(T) \in 1 .. N /\ T \ {one(T)} \in SUBSET (1 .. N)
         /\ Topmost(N)[T] = one(T)
  BY <1>0, Orders
<1> HIDE DEF c, whole, then, one, N
<1>4. PICK sum : /\ IsSum(sum, 1 .. N, c, Int, IntAdd, 0) /\ IntTotal(1 .. N, c) = sum[1 .. N]
  BY <1>1, HaveSums
<1>5. sum = F(sum)
  <2>1. ASSUME NEW T \in SUBSET (1 .. N)
        PROVE  sum[T] = IF T = {} THEN 0 ELSE then(sum[T \ {one(T)}], one(T))
    <3>1. CASE T # {}
      <4>1. one(T) \in T /\ one(T) \in 1 .. N /\ T \ {one(T)} \in SUBSET (1 .. N)
        BY <1>p, <3>1
      <4>2. /\ sum[T \ {one(T)}] \in Int
            /\ sum[T] = IntAdd[<<sum[T \ {one(T)}], c[one(T)]>>]
        BY <1>4, <4>1 DEF IsSum
      <4> QED BY <1>3, <3>1, <4>1, <4>2
    <3>2. CASE T = {}
      BY <1>4, <3>2 DEF IsSum
    <3> QED BY <3>1, <3>2
  <2>2. sum = [T \in SUBSET (1 .. N) |-> sum[T]]
    BY <1>4 DEF IsSum
  <2> QED BY <2>1, <2>2
<1>6. PICK it : it = F(it) /\ whole = it[1 .. N]
  BY <1>2, <1>5
<1>7. Collects(it, 1 .. N, c, Int, IntAdd, 0, Topmost(N))
  <2>1. it[{}] = 0
    BY <1>6
  <2>2. ASSUME NEW T \in SUBSET (1 .. N), T # {}, it[T \ {Topmost(N)[T]}] \in Int
        PROVE  it[T] = IntAdd[<<it[T \ {Topmost(N)[T]}], c[Topmost(N)[T]]>>]
    <3>1. Topmost(N)[T] = one(T) /\ one(T) \in 1 .. N
      BY <1>p, <2>2
    <3>2. it[T] = then(it[T \ {one(T)}], one(T))
      BY <1>6, <2>2
    <3> QED BY <1>3, <2>2, <3>1, <3>2
  <2>3. \A T \in SUBSET (1 .. N) : T # {} => Topmost(N)[T] \in T
    BY <1>p
  <2> QED BY <2>1, <2>2, <2>3 DEF Collects
<1>8. it[1 .. N] = sum[1 .. N]
  <2>1. 1 .. N \in SUBSET (1 .. N)
    OBVIOUS
  <2> QED BY <1>1, <1>4, <1>7, <2>1, SumIs
<1> QED BY <1>4, <1>6, <1>8 DEF c, whole, N

\* ... the value of a cut, ...
LEMMA CutFold ==
    ASSUME NEW edges, Len(edges) \in Nat, DOMAIN edges = 1 .. Len(edges),
           NEW j, \A x \in 1 .. Len(edges) : edges[x].w \in Int
    PROVE  CutValue(edges, j)
             = IntTotal(1 .. Len(edges), [x \in 1 .. Len(edges) |-> IF Set(j,
                 edges[x].u) # Set(j, edges[x].v) THEN edges[x].w ELSE 0])
<1> DEFINE N == Len(edges)
           c == [x \in 1 .. Len(edges) |-> IF Set(j, edges[x].u) # Set(j,
               edges[x].v) THEN edges[x].w ELSE 0]
           whole == CutValue(edges, j)
           then(s, x) == IF Set(j, edges[x].u) # Set(j, edges[x].v) THEN s + edges[x].w ELSE s
           one(T) == Max(T)
           F(it) == [T \in SUBSET (1 .. N) |->
                       IF T = {} THEN 0 ELSE then(it[T \ {one(T)}], one(T))]
<1>0. N \in Nat
  OBVIOUS
<1>1. IsFiniteSet(1 .. N) /\ \A x \in 1 .. N : c[x] \in Int
  <2>1. IsFiniteSet(1 .. N)
    BY <1>0, FS_Interval
  <2>2. \A x \in 1 .. N : c[x] \in Int
    OBVIOUS
  <2> QED BY <2>1, <2>2
<1>2. whole = (CHOOSE it : it = F(it))[1 .. N]
  BY DEF FoldLeft, MapThenFoldSet, CutValue
<1>3. \A s \in Int, x \in 1 .. N : then(s, x) = IntAdd[<<s, c[x]>>]
  BY <1>1, Additions
<1>p. \A T \in SUBSET (1 .. N) : T # {} =>
         /\ one(T) \in T /\ one(T) \in 1 .. N /\ T \ {one(T)} \in SUBSET (1 .. N)
         /\ Topmost(N)[T] = one(T)
  BY <1>0, Orders
<1> HIDE DEF c, whole, then, one, N
<1>4. PICK sum : /\ IsSum(sum, 1 .. N, c, Int, IntAdd, 0) /\ IntTotal(1 .. N, c) = sum[1 .. N]
  BY <1>1, HaveSums
<1>5. sum = F(sum)
  <2>1. ASSUME NEW T \in SUBSET (1 .. N)
        PROVE  sum[T] = IF T = {} THEN 0 ELSE then(sum[T \ {one(T)}], one(T))
    <3>1. CASE T # {}
      <4>1. one(T) \in T /\ one(T) \in 1 .. N /\ T \ {one(T)} \in SUBSET (1 .. N)
        BY <1>p, <3>1
      <4>2. /\ sum[T \ {one(T)}] \in Int
            /\ sum[T] = IntAdd[<<sum[T \ {one(T)}], c[one(T)]>>]
        BY <1>4, <4>1 DEF IsSum
      <4> QED BY <1>3, <3>1, <4>1, <4>2
    <3>2. CASE T = {}
      BY <1>4, <3>2 DEF IsSum
    <3> QED BY <3>1, <3>2
  <2>2. sum = [T \in SUBSET (1 .. N) |-> sum[T]]
    BY <1>4 DEF IsSum
  <2> QED BY <2>1, <2>2
<1>6. PICK it : it = F(it) /\ whole = it[1 .. N]
  BY <1>2, <1>5
<1>7. Collects(it, 1 .. N, c, Int, IntAdd, 0, Topmost(N))
  <2>1. it[{}] = 0
    BY <1>6
  <2>2. ASSUME NEW T \in SUBSET (1 .. N), T # {}, it[T \ {Topmost(N)[T]}] \in Int
        PROVE  it[T] = IntAdd[<<it[T \ {Topmost(N)[T]}], c[Topmost(N)[T]]>>]
    <3>1. Topmost(N)[T] = one(T) /\ one(T) \in 1 .. N
      BY <1>p, <2>2
    <3>2. it[T] = then(it[T \ {one(T)}], one(T))
      BY <1>6, <2>2
    <3> QED BY <1>3, <2>2, <3>1, <3>2
  <2>3. \A T \in SUBSET (1 .. N) : T # {} => Topmost(N)[T] \in T
    BY <1>p
  <2> QED BY <2>1, <2>2, <2>3 DEF Collects
<1>8. it[1 .. N] = sum[1 .. N]
  <2>1. 1 .. N \in SUBSET (1 .. N)
    OBVIOUS
  <2> QED BY <1>1, <1>4, <1>7, <2>1, SumIs
<1> QED BY <1>4, <1>6, <1>8 DEF c, whole, N

\* ... the weight of all edges, ...
LEMMA WholeFold ==
    ASSUME NEW edges, Len(edges) \in Nat, DOMAIN edges = 1 .. Len(edges),
           \A x \in 1 .. Len(edges) : edges[x].w \in Int
    PROVE  FoldLeft(LAMBDA w, e : w + e.w, 0, edges)
             = IntTotal(1 .. Len(edges), [x \in 1 .. Len(edges) |-> edges[x].w])
<1> DEFINE N == Len(edges)
           c == [x \in 1 .. Len(edges) |-> edges[x].w]
           whole == FoldLeft(LAMBDA w, e : w + e.w, 0, edges)
           then(s, x) == s + edges[x].w
           one(T) == Max(T)
           F(it) == [T \in SUBSET (1 .. N) |->
                       IF T = {} THEN 0 ELSE then(it[T \ {one(T)}], one(T))]
<1>0. N \in Nat
  OBVIOUS
<1>1. IsFiniteSet(1 .. N) /\ \A x \in 1 .. N : c[x] \in Int
  <2>1. IsFiniteSet(1 .. N)
    BY <1>0, FS_Interval
  <2>2. \A x \in 1 .. N : c[x] \in Int
    OBVIOUS
  <2> QED BY <2>1, <2>2
<1>2. whole = (CHOOSE it : it = F(it))[1 .. N]
  BY DEF FoldLeft, MapThenFoldSet
<1>3. \A s \in Int, x \in 1 .. N : then(s, x) = IntAdd[<<s, c[x]>>]
  BY <1>1, Additions
<1>p. \A T \in SUBSET (1 .. N) : T # {} =>
         /\ one(T) \in T /\ one(T) \in 1 .. N /\ T \ {one(T)} \in SUBSET (1 .. N)
         /\ Topmost(N)[T] = one(T)
  BY <1>0, Orders
<1> HIDE DEF c, whole, then, one, N
<1>4. PICK sum : /\ IsSum(sum, 1 .. N, c, Int, IntAdd, 0) /\ IntTotal(1 .. N, c) = sum[1 .. N]
  BY <1>1, HaveSums
<1>5. sum = F(sum)
  <2>1. ASSUME NEW T \in SUBSET (1 .. N)
        PROVE  sum[T] = IF T = {} THEN 0 ELSE then(sum[T \ {one(T)}], one(T))
    <3>1. CASE T # {}
      <4>1. one(T) \in T /\ one(T) \in 1 .. N /\ T \ {one(T)} \in SUBSET (1 .. N)
        BY <1>p, <3>1
      <4>2. /\ sum[T \ {one(T)}] \in Int
            /\ sum[T] = IntAdd[<<sum[T \ {one(T)}], c[one(T)]>>]
        BY <1>4, <4>1 DEF IsSum
      <4> QED BY <1>3, <3>1, <4>1, <4>2
    <3>2. CASE T = {}
      BY <1>4, <3>2 DEF IsSum
    <3> QED BY <3>1, <3>2
  <2>2. sum = [T \in SUBSET (1 .. N) |-> sum[T]]
    BY <1>4 DEF IsSum
  <2> QED BY <2>1, <2>2
<1>6. PICK it : it = F(it) /\ whole = it[1 .. N]
  BY <1>2, <1>5
<1>7. Collects(it, 1 .. N, c, Int, IntAdd, 0, Topmost(N))
  <2>1. it[{}] = 0
    BY <1>6
  <2>2. ASSUME NEW T \in SUBSET (1 .. N), T # {}, it[T \ {Topmost(N)[T]}] \in Int
        PROVE  it[T] = IntAdd[<<it[T \ {Topmost(N)[T]}], c[Topmost(N)[T]]>>]
    <3>1. Topmost(N)[T] = one(T) /\ one(T) \in 1 .. N
      BY <1>p, <2>2
    <3>2. it[T] = then(it[T \ {one(T)}], one(T))
      BY <1>6, <2>2
    <3> QED BY <1>3, <2>2, <3>1, <3>2
  <2>3. \A T \in SUBSET (1 .. N) : T # {} => Topmost(N)[T] \in T
    BY <1>p
  <2> QED BY <2>1, <2>2, <2>3 DEF Collects
<1>8. it[1 .. N] = sum[1 .. N]
  <2>1. 1 .. N \in SUBSET (1 .. N)
    OBVIOUS
  <2> QED BY <1>1, <1>4, <1>7, <2>1, SumIs
<1> QED BY <1>4, <1>6, <1>8 DEF c, whole, N

\* ... the constant of a cost, ...
LEMMA HalvesFold ==
    ASSUME NEW edges, Len(edges) \in Nat, DOMAIN edges = 1 .. Len(edges),
           \A x \in 1 .. Len(edges) : edges[x].w \in Int
    PROVE  FoldLeft(LAMBDA s, e : s - e.w \div 2, 0, edges)
             = IntTotal(1 .. Len(edges), [x \in 1 .. Len(edges) |-> -(edges[x].w \div 2)])
<1> DEFINE N == Len(edges)
           c == [x \in 1 .. Len(edges) |-> -(edges[x].w \div 2)]
           whole == FoldLeft(LAMBDA s, e : s - e.w \div 2, 0, edges)
           then(s, x) == s - edges[x].w \div 2
           one(T) == Max(T)
           F(it) == [T \in SUBSET (1 .. N) |->
                       IF T = {} THEN 0 ELSE then(it[T \ {one(T)}], one(T))]
<1>0. N \in Nat
  OBVIOUS
<1>1. IsFiniteSet(1 .. N) /\ \A x \in 1 .. N : c[x] \in Int
  <2>1. IsFiniteSet(1 .. N)
    BY <1>0, FS_Interval
  <2>2. \A x \in 1 .. N : c[x] \in Int
    OBVIOUS
  <2> QED BY <2>1, <2>2
<1>2. whole = (CHOOSE it : it = F(it))[1 .. N]
  BY DEF FoldLeft, MapThenFoldSet
<1>3. \A s \in Int, x \in 1 .. N : then(s, x) = IntAdd[<<s, c[x]>>]
  BY <1>1, Additions
<1>p. \A T \in SUBSET (1 .. N) : T # {} =>
         /\ one(T) \in T /\ one(T) \in 1 .. N /\ T \ {one(T)} \in SUBSET (1 .. N)
         /\ Topmost(N)[T] = one(T)
  BY <1>0, Orders
<1> HIDE DEF c, whole, then, one, N
<1>4. PICK sum : /\ IsSum(sum, 1 .. N, c, Int, IntAdd, 0) /\ IntTotal(1 .. N, c) = sum[1 .. N]
  BY <1>1, HaveSums
<1>5. sum = F(sum)
  <2>1. ASSUME NEW T \in SUBSET (1 .. N)
        PROVE  sum[T] = IF T = {} THEN 0 ELSE then(sum[T \ {one(T)}], one(T))
    <3>1. CASE T # {}
      <4>1. one(T) \in T /\ one(T) \in 1 .. N /\ T \ {one(T)} \in SUBSET (1 .. N)
        BY <1>p, <3>1
      <4>2. /\ sum[T \ {one(T)}] \in Int
            /\ sum[T] = IntAdd[<<sum[T \ {one(T)}], c[one(T)]>>]
        BY <1>4, <4>1 DEF IsSum
      <4> QED BY <1>3, <3>1, <4>1, <4>2
    <3>2. CASE T = {}
      BY <1>4, <3>2 DEF IsSum
    <3> QED BY <3>1, <3>2
  <2>2. sum = [T \in SUBSET (1 .. N) |-> sum[T]]
    BY <1>4 DEF IsSum
  <2> QED BY <2>1, <2>2
<1>6. PICK it : it = F(it) /\ whole = it[1 .. N]
  BY <1>2, <1>5
<1>7. Collects(it, 1 .. N, c, Int, IntAdd, 0, Topmost(N))
  <2>1. it[{}] = 0
    BY <1>6
  <2>2. ASSUME NEW T \in SUBSET (1 .. N), T # {}, it[T \ {Topmost(N)[T]}] \in Int
        PROVE  it[T] = IntAdd[<<it[T \ {Topmost(N)[T]}], c[Topmost(N)[T]]>>]
    <3>1. Topmost(N)[T] = one(T) /\ one(T) \in 1 .. N
      BY <1>p, <2>2
    <3>2. it[T] = then(it[T \ {one(T)}], one(T))
      BY <1>6, <2>2
    <3> QED BY <1>3, <2>2, <3>1, <3>2
  <2>3. \A T \in SUBSET (1 .. N) : T # {} => Topmost(N)[T] \in T
    BY <1>p
  <2> QED BY <2>1, <2>2, <2>3 DEF Collects
<1>8. it[1 .. N] = sum[1 .. N]
  <2>1. 1 .. N \in SUBSET (1 .. N)
    OBVIOUS
  <2> QED BY <1>1, <1>4, <1>7, <2>1, SumIs
<1> QED BY <1>4, <1>6, <1>8 DEF c, whole, N

\* ... an expectation value, ...
LEMMA EnergyFold ==
    ASSUME NEW masks, Len(masks) \in Nat, DOMAIN masks = 1 .. Len(masks),
           NEW psi,
           \A x \in 1 .. Len(masks) :
               masks[x].coeff * TimesPowerOfI(masks[x].ny, TermSum(psi, masks[x]))[1] \in Int
    PROVE  ExpectationValue(psi, masks)
             = ModTotal(1 .. Len(masks), [x \in 1 .. Len(masks)
                 |-> masks[x].coeff * TimesPowerOfI(masks[x].ny, TermSum(psi, masks[x]))[1]])
<1> DEFINE N == Len(masks)
           c == [x \in 1 .. Len(masks) |-> masks[x].coeff * TimesPowerOfI(masks[x].ny,
               TermSum(psi, masks[x]))[1]]
           whole == ExpectationValue(psi, masks)
           then(s, x) == (s + masks[x].coeff * TimesPowerOfI(masks[x].ny, TermSum(psi,
               masks[x]))[1]) % Prime
           one(T) == Max(T)
           F(it) == [T \in SUBSET (1 .. N) |->
                       IF T = {} THEN 0 ELSE then(it[T \ {one(T)}], one(T))]
<1>0. N \in Nat
  OBVIOUS
<1>1. IsFiniteSet(1 .. N) /\ \A x \in 1 .. N : c[x] \in Int
  <2>1. IsFiniteSet(1 .. N)
    BY <1>0, FS_Interval
  <2>2. \A x \in 1 .. N : c[x] \in Int
    OBVIOUS
  <2> QED BY <2>1, <2>2
<1>2. whole = (CHOOSE it : it = F(it))[1 .. N]
  BY DEF FoldLeft, MapThenFoldSet, ExpectationValue
<1>3. \A s \in Int, x \in 1 .. N : then(s, x) = ModAdd[<<s, c[x]>>]
  BY <1>1, Additions
<1>p. \A T \in SUBSET (1 .. N) : T # {} =>
         /\ one(T) \in T /\ one(T) \in 1 .. N /\ T \ {one(T)} \in SUBSET (1 .. N)
         /\ Topmost(N)[T] = one(T)
  BY <1>0, Orders
<1> HIDE DEF c, whole, then, one, N
<1>4. PICK sum : /\ IsSum(sum, 1 .. N, c, Int, ModAdd, 0) /\ ModTotal(1 .. N, c) = sum[1 .. N]
  BY <1>1, HaveSums
<1>5. sum = F(sum)
  <2>1. ASSUME NEW T \in SUBSET (1 .. N)
        PROVE  sum[T] = IF T = {} THEN 0 ELSE then(sum[T \ {one(T)}], one(T))
    <3>1. CASE T # {}
      <4>1. one(T) \in T /\ one(T) \in 1 .. N /\ T \ {one(T)} \in SUBSET (1 .. N)
        BY <1>p, <3>1
      <4>2. /\ sum[T \ {one(T)}] \in Int
            /\ sum[T] = ModAdd[<<sum[T \ {one(T)}], c[one(T)]>>]
        BY <1>4, <4>1 DEF IsSum
      <4> QED BY <1>3, <3>1, <4>1, <4>2
    <3>2. CASE T = {}
      BY <1>4, <3>2 DEF IsSum
    <3> QED BY <3>1, <3>2
  <2>2. sum = [T \in SUBSET (1 .. N) |-> sum[T]]
    BY <1>4 DEF IsSum
  <2> QED BY <2>1, <2>2
<1>6. PICK it : it = F(it) /\ whole = it[1 .. N]
  BY <1>2, <1>5
<1>7. Collects(it, 1 .. N, c, Int, ModAdd, 0, Topmost(N))
  <2>1. it[{}] = 0
    BY <1>6
  <2>2. ASSUME NEW T \in SUBSET (1 .. N), T # {}, it[T \ {Topmost(N)[T]}] \in Int
        PROVE  it[T] = ModAdd[<<it[T \ {Topmost(N)[T]}], c[Topmost(N)[T]]>>]
    <3>1. Topmost(N)[T] = one(T) /\ one(T) \in 1 .. N
      BY <1>p, <2>2
    <3>2. it[T] = then(it[T \ {one(T)}], one(T))
      BY <1>6, <2>2
    <3> QED BY <1>3, <2>2, <3>1, <3>2
  <2>3. \A T \in SUBSET (1 .. N) : T # {} => Topmost(N)[T] \in T
    BY <1>p
  <2> QED BY <2>1, <2>2, <2>3 DEF Collects
<1>8. it[1 .. N] = sum[1 .. N]
  <2>1. 1 .. N \in SUBSET (1 .. N)
    OBVIOUS
  <2> QED BY <1>1, <1>4, <1>7, <2>1, SumIs
<1> QED BY <1>4, <1>6, <1>8 DEF c, whole, N

\* ... the sum of a term, ...
LEMMA TermFold ==
    ASSUME NEW psi, NEW m, IsFiniteSet(DOMAIN psi),
           \A x \in DOMAIN psi :
               Signed(Odd(x, m.z), Times(Conj(psi[Flip(x, m.x)]), psi[x])) \in Amplitude
    PROVE  TermSum(psi, m)
             = AmpTotal(DOMAIN psi, [x \in DOMAIN psi |-> Signed(Odd(x, m.z),
                 Times(Conj(psi[Flip(x, m.x)]), psi[x]))])
<1> DEFINE c == [x \in DOMAIN psi |-> Signed(Odd(x, m.z), Times(Conj(psi[Flip(x, m.x)]), psi[x]))]
           whole == TermSum(psi, m)
           then(s, x) == Plus(s, Signed(Odd(x, m.z), Times(Conj(psi[Flip(x, m.x)]), psi[x])))
           one(T) == CHOOSE x \in T : TRUE
           F(it) == [T \in SUBSET (DOMAIN psi) |->
                       IF T = {} THEN Zero ELSE then(it[T \ {one(T)}], one(T))]
<1>1. IsFiniteSet(DOMAIN psi) /\ \A x \in DOMAIN psi : c[x] \in Amplitude
  OBVIOUS
<1>2. whole = (CHOOSE it : it = F(it))[DOMAIN psi]
  BY DEF FoldSet, MapThenFoldSet, TermSum
<1>3. \A s \in Amplitude, x \in DOMAIN psi : then(s, x) = AmpAdd[<<s, c[x]>>]
  BY <1>1, Additions
<1>p. \A T \in SUBSET (DOMAIN psi) : T # {} =>
         /\ one(T) \in T /\ one(T) \in DOMAIN psi /\ T \ {one(T)} \in SUBSET (DOMAIN psi)
         /\ SomeOf(DOMAIN psi)[T] = one(T)
  BY Orders
<1> HIDE DEF c, whole, then, one
<1>4. PICK sum : /\ IsSum(sum, DOMAIN psi, c, Amplitude, AmpAdd, Zero)
                    /\ AmpTotal(DOMAIN psi, c) = sum[DOMAIN psi]
  BY <1>1, HaveSums
<1>5. sum = F(sum)
  <2>1. ASSUME NEW T \in SUBSET (DOMAIN psi)
        PROVE  sum[T] = IF T = {} THEN Zero ELSE then(sum[T \ {one(T)}], one(T))
    <3>1. CASE T # {}
      <4>1. one(T) \in T /\ one(T) \in DOMAIN psi /\ T \ {one(T)} \in SUBSET (DOMAIN psi)
        BY <1>p, <3>1
      <4>2. /\ sum[T \ {one(T)}] \in Amplitude
            /\ sum[T] = AmpAdd[<<sum[T \ {one(T)}], c[one(T)]>>]
        BY <1>4, <4>1 DEF IsSum
      <4> QED BY <1>3, <3>1, <4>1, <4>2
    <3>2. CASE T = {}
      BY <1>4, <3>2 DEF IsSum
    <3> QED BY <3>1, <3>2
  <2>2. sum = [T \in SUBSET (DOMAIN psi) |-> sum[T]]
    BY <1>4 DEF IsSum
  <2> QED BY <2>1, <2>2
<1>6. PICK it : it = F(it) /\ whole = it[DOMAIN psi]
  BY <1>2, <1>5
<1>7. Collects(it, DOMAIN psi, c, Amplitude, AmpAdd, Zero, SomeOf(DOMAIN psi))
  <2>1. it[{}] = Zero
    BY <1>6
  <2>2. ASSUME NEW T \in SUBSET (DOMAIN psi), T # {}, it[T \ {SomeOf(DOMAIN psi)[T]}] \in Amplitude
        PROVE  it[T] = AmpAdd[<<it[T \ {SomeOf(DOMAIN psi)[T]}], c[SomeOf(DOMAIN psi)[T]]>>]
    <3>1. SomeOf(DOMAIN psi)[T] = one(T) /\ one(T) \in DOMAIN psi
      BY <1>p, <2>2
    <3>2. it[T] = then(it[T \ {one(T)}], one(T))
      BY <1>6, <2>2
    <3> QED BY <1>3, <2>2, <3>1, <3>2
  <2>3. \A T \in SUBSET (DOMAIN psi) : T # {} => SomeOf(DOMAIN psi)[T] \in T
    BY <1>p
  <2> QED BY <2>1, <2>2, <2>3 DEF Collects
<1>8. it[DOMAIN psi] = sum[DOMAIN psi]
  <2>1. DOMAIN psi \in SUBSET (DOMAIN psi)
    OBVIOUS
  <2> QED BY <1>1, <1>4, <1>7, <2>1, SumIs
<1> QED BY <1>4, <1>6, <1>8 DEF c, whole

\* ... an inner product, ...
LEMMA InnerFold ==
    ASSUME NEW s0, NEW t0, IsFiniteSet(DOMAIN s0),
           \A x \in DOMAIN s0 : Times(Conj(s0[x]), t0[x]) \in Amplitude
    PROVE  Inner(s0, t0)
             = AmpTotal(DOMAIN s0, [x \in DOMAIN s0 |-> Times(Conj(s0[x]), t0[x])])
<1> DEFINE c == [x \in DOMAIN s0 |-> Times(Conj(s0[x]), t0[x])]
           whole == Inner(s0, t0)
           then(s, x) == Plus(s, Times(Conj(s0[x]), t0[x]))
           one(T) == CHOOSE x \in T : TRUE
           F(it) == [T \in SUBSET (DOMAIN s0) |->
                       IF T = {} THEN Zero ELSE then(it[T \ {one(T)}], one(T))]
<1>1. IsFiniteSet(DOMAIN s0) /\ \A x \in DOMAIN s0 : c[x] \in Amplitude
  OBVIOUS
<1>2. whole = (CHOOSE it : it = F(it))[DOMAIN s0]
  BY DEF FoldSet, MapThenFoldSet, Inner
<1>3. \A s \in Amplitude, x \in DOMAIN s0 : then(s, x) = AmpAdd[<<s, c[x]>>]
  BY <1>1, Additions
<1>p. \A T \in SUBSET (DOMAIN s0) : T # {} =>
         /\ one(T) \in T /\ one(T) \in DOMAIN s0 /\ T \ {one(T)} \in SUBSET (DOMAIN s0)
         /\ SomeOf(DOMAIN s0)[T] = one(T)
  BY Orders
<1> HIDE DEF c, whole, then, one
<1>4. PICK sum : /\ IsSum(sum, DOMAIN s0, c, Amplitude, AmpAdd, Zero)
                   /\ AmpTotal(DOMAIN s0, c) = sum[DOMAIN s0]
  BY <1>1, HaveSums
<1>5. sum = F(sum)
  <2>1. ASSUME NEW T \in SUBSET (DOMAIN s0)
        PROVE  sum[T] = IF T = {} THEN Zero ELSE then(sum[T \ {one(T)}], one(T))
    <3>1. CASE T # {}
      <4>1. one(T) \in T /\ one(T) \in DOMAIN s0 /\ T \ {one(T)} \in SUBSET (DOMAIN s0)
        BY <1>p, <3>1
      <4>2. /\ sum[T \ {one(T)}] \in Amplitude
            /\ sum[T] = AmpAdd[<<sum[T \ {one(T)}], c[one(T)]>>]
        BY <1>4, <4>1 DEF IsSum
      <4> QED BY <1>3, <3>1, <4>1, <4>2
    <3>2. CASE T = {}
      BY <1>4, <3>2 DEF IsSum
    <3> QED BY <3>1, <3>2
  <2>2. sum = [T \in SUBSET (DOMAIN s0) |-> sum[T]]
    BY <1>4 DEF IsSum
  <2> QED BY <2>1, <2>2
<1>6. PICK it : it = F(it) /\ whole = it[DOMAIN s0]
  BY <1>2, <1>5
<1>7. Collects(it, DOMAIN s0, c, Amplitude, AmpAdd, Zero, SomeOf(DOMAIN s0))
  <2>1. it[{}] = Zero
    BY <1>6
  <2>2. ASSUME NEW T \in SUBSET (DOMAIN s0), T # {}, it[T \ {SomeOf(DOMAIN s0)[T]}] \in Amplitude
        PROVE  it[T] = AmpAdd[<<it[T \ {SomeOf(DOMAIN s0)[T]}], c[SomeOf(DOMAIN s0)[T]]>>]
    <3>1. SomeOf(DOMAIN s0)[T] = one(T) /\ one(T) \in DOMAIN s0
      BY <1>p, <2>2
    <3>2. it[T] = then(it[T \ {one(T)}], one(T))
      BY <1>6, <2>2
    <3> QED BY <1>3, <2>2, <3>1, <3>2
  <2>3. \A T \in SUBSET (DOMAIN s0) : T # {} => SomeOf(DOMAIN s0)[T] \in T
    BY <1>p
  <2> QED BY <2>1, <2>2, <2>3 DEF Collects
<1>8. it[DOMAIN s0] = sum[DOMAIN s0]
  <2>1. DOMAIN s0 \in SUBSET (DOMAIN s0)
    OBVIOUS
  <2> QED BY <1>1, <1>4, <1>7, <2>1, SumIs
<1> QED BY <1>4, <1>6, <1>8 DEF c, whole

\* ... the energy of documented terms, ...
LEMMA DocumentedFold ==
    ASSUME NEW D, NEW psi, IsFiniteSet(D),
           \A x \in D : x.coeff * Inner(psi, PauliActed(x.paulis, psi))[1] \in Int
    PROVE  FoldSet(LAMBDA t, e : (e + t.coeff * Inner(psi, PauliActed(t.paulis,
             psi))[1]) % Prime, 0, D)
             = ModTotal(D, [x \in D |-> x.coeff * Inner(psi, PauliActed(x.paulis, psi))[1]])
<1> DEFINE c == [x \in D |-> x.coeff * Inner(psi, PauliActed(x.paulis, psi))[1]]
           whole ==
             FoldSet(LAMBDA t, e : (e + t.coeff * Inner(psi, PauliActed(t.paulis, psi))[1]) % Prime,
                     0, D)
           then(s, x) == (s + x.coeff * Inner(psi, PauliActed(x.paulis, psi))[1]) % Prime
           one(T) == CHOOSE x \in T : TRUE
           F(it) == [T \in SUBSET (D) |->
                       IF T = {} THEN 0 ELSE then(it[T \ {one(T)}], one(T))]
<1>1. IsFiniteSet(D) /\ \A x \in D : c[x] \in Int
  OBVIOUS
<1>2. whole = (CHOOSE it : it = F(it))[D]
  BY DEF FoldSet, MapThenFoldSet
<1>3. \A s \in Int, x \in D : then(s, x) = ModAdd[<<s, c[x]>>]
  BY <1>1, Additions
<1>p. \A T \in SUBSET (D) : T # {} =>
         /\ one(T) \in T /\ one(T) \in D /\ T \ {one(T)} \in SUBSET (D)
         /\ SomeOf(D)[T] = one(T)
  BY Orders
<1> HIDE DEF c, whole, then, one
<1>4. PICK sum : /\ IsSum(sum, D, c, Int, ModAdd, 0) /\ ModTotal(D, c) = sum[D]
  BY <1>1, HaveSums
<1>5. sum = F(sum)
  <2>1. ASSUME NEW T \in SUBSET (D)
        PROVE  sum[T] = IF T = {} THEN 0 ELSE then(sum[T \ {one(T)}], one(T))
    <3>1. CASE T # {}
      <4>1. one(T) \in T /\ one(T) \in D /\ T \ {one(T)} \in SUBSET (D)
        BY <1>p, <3>1
      <4>2. /\ sum[T \ {one(T)}] \in Int
            /\ sum[T] = ModAdd[<<sum[T \ {one(T)}], c[one(T)]>>]
        BY <1>4, <4>1 DEF IsSum
      <4> QED BY <1>3, <3>1, <4>1, <4>2
    <3>2. CASE T = {}
      BY <1>4, <3>2 DEF IsSum
    <3> QED BY <3>1, <3>2
  <2>2. sum = [T \in SUBSET (D) |-> sum[T]]
    BY <1>4 DEF IsSum
  <2> QED BY <2>1, <2>2
<1>6. PICK it : it = F(it) /\ whole = it[D]
  BY <1>2, <1>5
<1>7. Collects(it, D, c, Int, ModAdd, 0, SomeOf(D))
  <2>1. it[{}] = 0
    BY <1>6
  <2>2. ASSUME NEW T \in SUBSET (D), T # {}, it[T \ {SomeOf(D)[T]}] \in Int
        PROVE  it[T] = ModAdd[<<it[T \ {SomeOf(D)[T]}], c[SomeOf(D)[T]]>>]
    <3>1. SomeOf(D)[T] = one(T) /\ one(T) \in D
      BY <1>p, <2>2
    <3>2. it[T] = then(it[T \ {one(T)}], one(T))
      BY <1>6, <2>2
    <3> QED BY <1>3, <2>2, <3>1, <3>2
  <2>3. \A T \in SUBSET (D) : T # {} => SomeOf(D)[T] \in T
    BY <1>p
  <2> QED BY <2>1, <2>2, <2>3 DEF Collects
<1>8. it[D] = sum[D]
  <2>1. D \in SUBSET (D)
    OBVIOUS
  <2> QED BY <1>1, <1>4, <1>7, <2>1, SumIs
<1> QED BY <1>4, <1>6, <1>8 DEF c, whole

\* ... and the distance to a basis state with other bits.
LEMMA FlipFold ==
    ASSUME NEW j, NEW mask, IsFiniteSet(mask), \A x \in mask : 2^x \in Int
    PROVE  FoldSet(LAMBDA q, s : s + (IF Set(j, q) THEN -(2^q) ELSE 2^q), 0, mask)
             = IntTotal(mask, [x \in mask |-> IF Set(j, x) THEN -(2^x) ELSE 2^x])
<1> DEFINE c == [x \in mask |-> IF Set(j, x) THEN -(2^x) ELSE 2^x]
           whole == FoldSet(LAMBDA q, s : s + (IF Set(j, q) THEN -(2^q) ELSE 2^q), 0, mask)
           then(s, x) == s + (IF Set(j, x) THEN -(2^x) ELSE 2^x)
           one(T) == CHOOSE x \in T : TRUE
           F(it) == [T \in SUBSET (mask) |->
                       IF T = {} THEN 0 ELSE then(it[T \ {one(T)}], one(T))]
<1>1. IsFiniteSet(mask) /\ \A x \in mask : c[x] \in Int
  OBVIOUS
<1>2. whole = (CHOOSE it : it = F(it))[mask]
  BY DEF FoldSet, MapThenFoldSet
<1>3. \A s \in Int, x \in mask : then(s, x) = IntAdd[<<s, c[x]>>]
  BY <1>1, Additions
<1>p. \A T \in SUBSET (mask) : T # {} =>
         /\ one(T) \in T /\ one(T) \in mask /\ T \ {one(T)} \in SUBSET (mask)
         /\ SomeOf(mask)[T] = one(T)
  BY Orders
<1> HIDE DEF c, whole, then, one
<1>4. PICK sum : /\ IsSum(sum, mask, c, Int, IntAdd, 0) /\ IntTotal(mask, c) = sum[mask]
  BY <1>1, HaveSums
<1>5. sum = F(sum)
  <2>1. ASSUME NEW T \in SUBSET (mask)
        PROVE  sum[T] = IF T = {} THEN 0 ELSE then(sum[T \ {one(T)}], one(T))
    <3>1. CASE T # {}
      <4>1. one(T) \in T /\ one(T) \in mask /\ T \ {one(T)} \in SUBSET (mask)
        BY <1>p, <3>1
      <4>2. /\ sum[T \ {one(T)}] \in Int
            /\ sum[T] = IntAdd[<<sum[T \ {one(T)}], c[one(T)]>>]
        BY <1>4, <4>1 DEF IsSum
      <4> QED BY <1>3, <3>1, <4>1, <4>2
    <3>2. CASE T = {}
      BY <1>4, <3>2 DEF IsSum
    <3> QED BY <3>1, <3>2
  <2>2. sum = [T \in SUBSET (mask) |-> sum[T]]
    BY <1>4 DEF IsSum
  <2> QED BY <2>1, <2>2
<1>6. PICK it : it = F(it) /\ whole = it[mask]
  BY <1>2, <1>5
<1>7. Collects(it, mask, c, Int, IntAdd, 0, SomeOf(mask))
  <2>1. it[{}] = 0
    BY <1>6
  <2>2. ASSUME NEW T \in SUBSET (mask), T # {}, it[T \ {SomeOf(mask)[T]}] \in Int
        PROVE  it[T] = IntAdd[<<it[T \ {SomeOf(mask)[T]}], c[SomeOf(mask)[T]]>>]
    <3>1. SomeOf(mask)[T] = one(T) /\ one(T) \in mask
      BY <1>p, <2>2
    <3>2. it[T] = then(it[T \ {one(T)}], one(T))
      BY <1>6, <2>2
    <3> QED BY <1>3, <2>2, <3>1, <3>2
  <2>3. \A T \in SUBSET (mask) : T # {} => SomeOf(mask)[T] \in T
    BY <1>p
  <2> QED BY <2>1, <2>2, <2>3 DEF Collects
<1>8. it[mask] = sum[mask]
  <2>1. mask \in SUBSET (mask)
    OBVIOUS
  <2> QED BY <1>1, <1>4, <1>7, <2>1, SumIs
<1> QED BY <1>4, <1>6, <1>8 DEF c, whole

-----------------------------------------------------------------------------
(* A cost, and the cuts it stands for *)

\* Sums up to k, one summand at a time.
LEMMA TotalClimbs ==
    ASSUME NEW N \in Nat, NEW c, \A x \in 1 .. N : c[x] \in Int
    PROVE  /\ IntTotal(1 .. 0, c) = 0
           /\ \A k \in 0 .. N : IntTotal(1 .. k, c) \in Int
           /\ \A k \in 1 .. N : IntTotal(1 .. k, c) = IntTotal(1 .. k - 1, c) + c[k]
<1>1. ASSUME NEW k \in 0 .. N PROVE IsFiniteSet(1 .. k) /\ \A x \in 1 .. k : c[x] \in Int
  <2>1. IsFiniteSet(1 .. k)
    BY FS_Interval
  <2>2. \A x \in 1 .. k : x \in 1 .. N
    OBVIOUS
  <2> QED BY <2>1, <2>2
<1>2. IntTotal(1 .. 0, c) = 0
  <2>1. 1 .. 0 = {} /\ 0 \in 0 .. N
    OBVIOUS
  <2>2. IntTotal({}, c) = 0
    BY <1>1, <2>1, IntTotals
  <2> QED BY ONLY <2>1, <2>2, Zenon
<1>3. ASSUME NEW k \in 0 .. N PROVE IntTotal(1 .. k, c) \in Int
  BY <1>1, IntTotals
<1>4. ASSUME NEW k \in 1 .. N PROVE IntTotal(1 .. k, c) = IntTotal(1 .. k - 1, c) + c[k]
  <2>1. (1 .. k) \ {k} = 1 .. k - 1 /\ k \in 1 .. k /\ k \in 0 .. N
    OBVIOUS
  <2>2. IntTotal(1 .. k, c) = IntTotal((1 .. k) \ {k}, c) + c[k]
    BY <1>1, <2>1, IntTotals
  <2> QED BY <2>1, <2>2
<1> QED BY <1>2, <1>3, <1>4

LEMMA Differences ==
    ASSUME NEW N \in Nat, NEW a, NEW b, NEW c,
           \A x \in 1 .. N : a[x] \in Int /\ b[x] \in Int /\ c[x] = a[x] - b[x]
    PROVE  /\ IntTotal(1 .. N, a) \in Int /\ IntTotal(1 .. N, b) \in Int
           /\ IntTotal(1 .. N, c) = IntTotal(1 .. N, a) - IntTotal(1 .. N, b)
<1>1. /\ \A x \in 1 .. N : a[x] \in Int
      /\ \A x \in 1 .. N : b[x] \in Int
      /\ \A x \in 1 .. N : c[x] \in Int
  OBVIOUS
<1>2. /\ IntTotal(1 .. 0, a) = 0
      /\ \A k \in 0 .. N : IntTotal(1 .. k, a) \in Int
      /\ \A k \in 1 .. N : IntTotal(1 .. k, a) = IntTotal(1 .. k - 1, a) + a[k]
  BY <1>1, TotalClimbs
<1>3. /\ IntTotal(1 .. 0, b) = 0
      /\ \A k \in 0 .. N : IntTotal(1 .. k, b) \in Int
      /\ \A k \in 1 .. N : IntTotal(1 .. k, b) = IntTotal(1 .. k - 1, b) + b[k]
  BY <1>1, TotalClimbs
<1>4. /\ IntTotal(1 .. 0, c) = 0
      /\ \A k \in 0 .. N : IntTotal(1 .. k, c) \in Int
      /\ \A k \in 1 .. N : IntTotal(1 .. k, c) = IntTotal(1 .. k - 1, c) + c[k]
  BY <1>1, TotalClimbs
<1> DEFINE T == {k \in 0 .. N : IntTotal(1 .. k, c) = IntTotal(1 .. k, a) - IntTotal(1 .. k, b)}
<1>5. 0 \in T
  BY <1>2, <1>3, <1>4
<1>6. ASSUME NEW k \in 1 .. N, k - 1 \in T PROVE k \in T
  <2>1. k - 1 \in 0 .. N /\ k \in 0 .. N
    OBVIOUS
  <2>2. IntTotal(1 .. k - 1, c) = IntTotal(1 .. k - 1, a) - IntTotal(1 .. k - 1, b)
    BY <1>6
  <2>3. /\ IntTotal(1 .. k, a) = IntTotal(1 .. k - 1, a) + a[k]
        /\ IntTotal(1 .. k, b) = IntTotal(1 .. k - 1, b) + b[k]
        /\ IntTotal(1 .. k, c) = IntTotal(1 .. k - 1, c) + c[k]
    BY <1>2, <1>3, <1>4
  <2>4. /\ IntTotal(1 .. k - 1, a) \in Int /\ IntTotal(1 .. k - 1, b) \in Int
        /\ a[k] \in Int /\ b[k] \in Int /\ c[k] = a[k] - b[k]
    BY <1>2, <1>3, <2>1
  <2>5. IntTotal(1 .. k, c) = IntTotal(1 .. k, a) - IntTotal(1 .. k, b)
    BY ONLY <2>2, <2>3, <2>4
  <2> QED BY <2>1, <2>5
<1>7. \A k \in 0 .. N : k \in T
  <2> HIDE DEF T
  <2> QED BY <1>5, <1>6, Climb
<1>8. N \in 0 .. N
  OBVIOUS
<1> QED BY <1>2, <1>3, <1>7, <1>8

\* The parity of two bits.
LEMMA OddOfTwo ==
    ASSUME NEW j, NEW u, NEW v, u # v
    PROVE  /\ Odd(j, {u, v}) <=> (Set(j, u) # Set(j, v))
           /\ ~Odd(j, {})
<1>1. Cardinality({}) = 0 /\ (\A x : Cardinality({x}) = 1)
  BY FS_EmptySet, FS_Singleton
<1>2. Cardinality({u, v}) = 2
  <2> DEFINE S == {u}
  <2>1. {u, v} = S \cup {v} /\ v \notin S /\ IsFiniteSet(S) /\ Cardinality(S) = 1
    BY <1>1, FS_Singleton
  <2> HIDE DEF S
  <2>2. Cardinality(S \cup {v}) = Cardinality(S) + 1
    BY <2>1, FS_AddElement
  <2> QED BY <2>1, <2>2
<1>7. ~Odd(j, {})
  <2>1. {q \in {} : Set(j, q)} = {}
    OBVIOUS
  <2>2. Cardinality({q \in {} : Set(j, q)}) = 0
    BY <1>1, <2>1, Zenon
  <2>3. Odd(j, {}) <=> Cardinality({q \in {} : Set(j, q)}) % 2 = 1
    BY DEF Odd
  <2> DEFINE c == Cardinality({q \in {} : Set(j, q)})
  <2> HIDE DEF c
  <2>4. c = 0 /\ (Odd(j, {}) <=> c % 2 = 1)
    BY ONLY <2>2, <2>3, Zenon DEF c
  <2> QED BY <2>4
<1> DEFINE on == {q \in {u, v} : Set(j, q)}
<1>o. Odd(j, {u, v}) <=> Cardinality(on) % 2 = 1
  BY DEF Odd
<1>b. Set(j, u) \in BOOLEAN /\ Set(j, v) \in BOOLEAN
  BY DEF Set
<1>p. SUFFICES Odd(j, {u, v}) <=> ~(Set(j, u) <=> Set(j, v))
  BY <1>b, <1>7, Zenon
<1>3. CASE Set(j, u) /\ Set(j, v)
  <2>1. on = {u, v}
    BY <1>3
  <2> HIDE DEF on
  <2>2. Cardinality(on) = 2
    BY <1>2, <2>1, Zenon
  <2>3. ~(Cardinality(on) % 2 = 1)
    BY <2>2
  <2> QED BY <1>o, <1>3, <2>3, Zenon
<1>4. CASE Set(j, u) /\ ~Set(j, v)
  <2>1. on = {u}
    BY <1>4
  <2> HIDE DEF on
  <2>2. Cardinality(on) = 1
    BY <1>1, <2>1, Zenon
  <2>3. (Cardinality(on) % 2 = 1)
    BY <2>2
  <2> QED BY <1>o, <1>4, <2>3, Zenon
<1>5. CASE ~Set(j, u) /\ Set(j, v)
  <2>1. on = {v}
    BY <1>5
  <2> HIDE DEF on
  <2>2. Cardinality(on) = 1
    BY <1>1, <2>1, Zenon
  <2>3. (Cardinality(on) % 2 = 1)
    BY <2>2
  <2> QED BY <1>o, <1>5, <2>3, Zenon
<1>6. CASE ~Set(j, u) /\ ~Set(j, v)
  <2>1. on = {}
    BY <1>6
  <2> HIDE DEF on
  <2>2. Cardinality(on) = 0
    BY <1>1, <2>1, Zenon
  <2>3. ~(Cardinality(on) % 2 = 1)
    BY <2>2
  <2> QED BY <1>o, <1>6, <2>3, Zenon
<1> QED BY <1>3, <1>4, <1>5, <1>6

Edges(n) == {e \in [u : 0 .. n - 1, v : 0 .. n - 1, w : Int] : e.u # e.v /\ e.w % 2 = 0}

\* The terms of maxcut(): one for each edge, and a constant unless it is zero.
LEMMA CostTermsAre ==
    ASSUME NEW n \in Nat, NEW edges \in Seq(Edges(n)), NEW constant
    PROVE  LET m == Maxcut(n, edges, constant)
               N == Len(edges)
               total == FoldLeft(LAMBDA s, e : s - e.w \div 2, 0, edges) IN
           /\ N \in Nat /\ DOMAIN edges = 1 .. N /\ Len(m) \in Nat /\ DOMAIN m = 1 .. Len(m)
           /\ \A k \in 1 .. N : m[k].coeff = edges[k].w \div 2 /\ m[k].z = {edges[k].u, edges[k].v}
           /\ \A k \in 1 .. Len(m) : m[k].coeff \in Int
           /\ IF constant /\ total # 0
              THEN Len(m) = N + 1 /\ m[N + 1].coeff = total /\ m[N + 1].z = {}
              ELSE Len(m) = N
<1> DEFINE N == Len(edges)
           total == FoldLeft(LAMBDA s, e : s - e.w \div 2, 0, edges)
           m == Maxcut(n, edges, constant)
           factors(k) == {<<"Z", edges[k].u>>, <<"Z", edges[k].v>>}
           terms == [k \in DOMAIN edges |-> Mask(edges[k].w \div 2, factors(k))]
           last == IF constant /\ total # 0 THEN <<Mask(total, {})>> ELSE <<>>
<1>1. N \in Nat /\ DOMAIN edges = 1 .. N /\ \A k \in 1 .. N : edges[k] \in Edges(n)
  OBVIOUS
<1>2. ASSUME NEW c, NEW f
      PROVE  /\ Mask(c, f).coeff = c
             /\ Mask(c, f).z = {g[2] : g \in {h \in f : h[1] \in {"Y", "Z"}}}
  BY DEF Mask
<1>3. m = terms \o last
  BY DEF Maxcut
<1>4. edges \in Seq([u : 0 .. n - 1, v : 0 .. n - 1, w : Int])
  <2> DEFINE E == Edges(n)
             F == [u : 0 .. n - 1, v : 0 .. n - 1, w : Int]
  <2>1. \A e \in E : e \in F
    BY DEF Edges
  <2> HIDE DEF E, F
  <2>2. edges \in Seq(F)
    <3>1. edges \in Seq(E)
      BY DEF E
    <3> QED BY <2>1, <3>1
  <2> QED BY <2>2 DEF F
<1>5. m \in Seq(CostTerms(n))
  BY <1>4, MaxcutType
<1>6. Len(m) \in Nat /\ DOMAIN m = 1 .. Len(m) /\ \A k \in 1 .. Len(m) : m[k].coeff \in Int
  <2> HIDE DEF m
  <2>1. Len(m) \in Nat /\ DOMAIN m = 1 .. Len(m) /\ \A k \in 1 .. Len(m) : m[k] \in CostTerms(n)
    BY <1>5
  <2> QED BY <2>1 DEF CostTerms
<1>7. \A k \in 1 .. N : /\ terms[k].coeff = edges[k].w \div 2
                        /\ terms[k].z = {edges[k].u, edges[k].v}
  <2> SUFFICES ASSUME NEW k \in 1 .. N
               PROVE  /\ terms[k].coeff = edges[k].w \div 2
                      /\ terms[k].z = {edges[k].u, edges[k].v}
    OBVIOUS
  <2>1. terms[k] = Mask(edges[k].w \div 2, factors(k))
    BY <1>1
  <2> DEFINE u == edges[k].u
             v == edges[k].v
  <2>2. {g[2] : g \in {h \in factors(k) : h[1] \in {"Y", "Z"}}} = {edges[k].u, edges[k].v}
    <3> HIDE DEF u, v
    <3>1. {h \in {<<"Z", u>>, <<"Z", v>>} : h[1] \in {"Y", "Z"}} = {<<"Z", u>>, <<"Z", v>>}
      OBVIOUS
    <3>2. {g[2] : g \in {<<"Z", u>>, <<"Z", v>>}} = {u, v}
      OBVIOUS
    <3> QED BY <3>1, <3>2, Zenon DEF u, v, factors
  <2> HIDE DEF factors, terms
  <2> QED BY <1>2, <2>1, <2>2
<1>8. Mask(total, {}).coeff = total /\ Mask(total, {}).z = {}
  <2> HIDE DEF total
  <2> QED BY <1>2
<1> DEFINE S == {terms[k] : k \in 1 .. N} \cup {Mask(total, {})}
<1>9. terms \in Seq(S) /\ Len(terms) = N
  <2> HIDE DEF factors, total
  <2>1. terms = [k \in 1 .. N |-> terms[k]] /\ \A k \in 1 .. N : terms[k] \in S
    BY <1>1
  <2> HIDE DEF terms, S, N
  <2> QED BY <1>1, <2>1
<1>10. /\ last \in Seq(S)
       /\ constant /\ total # 0 => Len(last) = 1 /\ last[1] = Mask(total, {})
       /\ ~(constant /\ total # 0) => Len(last) = 0
  <2> DEFINE z == Mask(total, {})
             which == constant /\ total # 0
  <2>1. z \in S
    OBVIOUS
  <2>2. last = IF which THEN <<z>> ELSE <<>>
    OBVIOUS
  <2> HIDE DEF terms, total, z, which, S, last
  <2>3. /\ last \in Seq(S) /\ (which => Len(last) = 1 /\ last[1] = z)
        /\ (~which => Len(last) = 0)
    <3>1. CASE which
      BY <2>1, <2>2, <3>1
    <3>2. CASE ~which
      BY <2>1, <2>2, <3>2
    <3> QED BY <3>1, <3>2
  <2> QED BY <2>3 DEF z, which
<1> HIDE DEF terms, last, S, total, N, m
<1>11. /\ Len(m) = N + Len(last)
       /\ \A k \in 1 .. N + Len(last) : m[k] = IF k <= N THEN terms[k] ELSE last[k - N]
  BY <1>3, <1>9, <1>10, ConcatProperties
<1>12. Len(last) \in Nat
  BY <1>10
<1>13. \A k \in 1 .. N : m[k] = terms[k]
  BY <1>1, <1>11, <1>12
<1>14. constant /\ total # 0 => Len(m) = N + 1 /\ m[N + 1] = Mask(total, {})
  <2> SUFFICES ASSUME constant /\ total # 0 PROVE Len(m) = N + 1 /\ m[N + 1] = Mask(total, {})
    OBVIOUS
  <2>1. Len(last) = 1 /\ last[1] = Mask(total, {})
    BY <1>10
  <2>2. N + 1 \in 1 .. N + Len(last) /\ ~(N + 1 <= N) /\ (N + 1) - N = 1
    BY <1>1, <2>1
  <2> QED BY <1>11, <2>1, <2>2
<1>15. ~(constant /\ total # 0) => Len(m) = N
  BY <1>1, <1>10, <1>11
<1> QED BY <1>1, <1>6, <1>7, <1>8, <1>13, <1>14, <1>15 DEF m, N, total

\* The cost of an outcome is minus the value of its cut, up to the constant.
LEMMA CostIsCut ==
    ASSUME NEW n \in Nat, NEW edges \in Seq(Edges(n)), NEW constant, NEW j
    PROVE  /\ CutValue(edges, j) \in Int
           /\ DiagonalCost(Maxcut(n, edges, constant), j)
                = -CutValue(edges, j)
                  + (IF constant THEN 0 ELSE FoldLeft(LAMBDA w, e : w + e.w, 0, edges) \div 2)
<1> DEFINE N == Len(edges)
           m == Maxcut(n, edges, constant)
           total == FoldLeft(LAMBDA s, e : s - e.w \div 2, 0, edges)
           whole == FoldLeft(LAMBDA w, e : w + e.w, 0, edges)
           half == [x \in 1 .. N |-> edges[x].w \div 2]
           neg == [x \in 1 .. N |-> -(edges[x].w \div 2)]
           weight == [x \in 1 .. N |-> edges[x].w]
           cut == [x \in 1 .. N |->
                      IF Set(j, edges[x].u) # Set(j, edges[x].v) THEN edges[x].w ELSE 0]
           cost == [x \in 1 .. Len(m) |-> IF Odd(j, m[x].z) THEN -m[x].coeff ELSE m[x].coeff]
<1> HIDE DEF N, m, total, whole, half, neg, weight, cut, cost
<1>1. /\ N \in Nat /\ DOMAIN edges = 1 .. N /\ Len(m) \in Nat /\ DOMAIN m = 1 .. Len(m)
      /\ \A k \in 1 .. N : m[k].coeff = edges[k].w \div 2 /\ m[k].z = {edges[k].u, edges[k].v}
      /\ \A k \in 1 .. Len(m) : m[k].coeff \in Int
      /\ IF constant /\ total # 0
         THEN Len(m) = N + 1 /\ m[N + 1].coeff = total /\ m[N + 1].z = {}
         ELSE Len(m) = N
  BY CostTermsAre DEF N, m, total
<1>n. /\ N \in Nat /\ DOMAIN edges = 1 .. N /\ Len(m) \in Nat /\ DOMAIN m = 1 .. Len(m)
      /\ Len(m) = N \/ Len(m) = N + 1
  BY <1>1, Zenon
<1>l. N \in Nat /\ Len(m) \in Nat /\ (Len(m) = N \/ Len(m) = N + 1)
  BY <1>n, Zenon
<1>k. N \in Nat
  BY <1>l
<1>2. \A k \in 1 .. N : edges[k].w \in Int /\ edges[k].w % 2 = 0 /\ edges[k].u # edges[k].v
  <2> SUFFICES ASSUME NEW k \in 1 .. N
               PROVE  edges[k].w \in Int /\ edges[k].w % 2 = 0 /\ edges[k].u # edges[k].v
    OBVIOUS
  <2> DEFINE E == Edges(n)
  <2>1. edges \in Seq(E) /\ N = Len(edges)
    BY DEF N
  <2> HIDE DEF E
  <2>2. edges[k] \in E
    BY <2>1
  <2> QED BY <2>2 DEF Edges, E
<1>3. \A k \in 1 .. N : edges[k].w \in Int
  BY <1>2
<1>4. CutValue(edges, j) = IntTotal(1 .. N, cut)
  BY <1>n, <1>3, CutFold DEF N, cut
<1>5. whole = IntTotal(1 .. N, weight)
  BY <1>n, <1>3, WholeFold DEF N, weight, whole
<1>6. total = IntTotal(1 .. N, neg)
  BY <1>n, <1>3, HalvesFold DEF N, total, neg
<1>7. DiagonalCost(m, j) = IntTotal(1 .. Len(m), cost)
  BY <1>1, CostFold DEF cost
<1>8. \A k \in 1 .. N : /\ half[k] = edges[k].w \div 2 /\ neg[k] = -(edges[k].w \div 2)
                        /\ weight[k] = edges[k].w
  BY DEF half, neg, weight
<1>9. ASSUME NEW k \in 1 .. N PROVE half[k] \in Int /\ neg[k] \in Int /\ weight[k] \in Int
                                     /\ half[k] = weight[k] - half[k]
                                     /\ neg[k] = half[k] - weight[k]
  <2> DEFINE w == edges[k].w
  <2>1. w \in Int /\ w % 2 = 0
    BY <1>2
  <2>2. half[k] = w \div 2 /\ neg[k] = -(w \div 2) /\ weight[k] = w
    BY <1>8
  <2> HIDE DEF w
  <2> QED BY <2>1, <2>2
<1>10. ASSUME NEW k \in 1 .. N
       PROVE  cut[k] \in Int /\ k \in 1 .. Len(m) /\ cost[k] = half[k] - cut[k]
  <2>1. k \in 1 .. Len(m)
    BY <1>l
  <2> DEFINE u == edges[k].u
             v == edges[k].v
             w == edges[k].w
             o == Odd(j, {u, v})
             d == Set(j, u) # Set(j, v)
  <2>2. w \in Int /\ w % 2 = 0 /\ u # v
    BY <1>2
  <2>3. o \in BOOLEAN /\ d \in BOOLEAN
    BY DEF Odd, Set
  <2>4. o <=> d
    <3> HIDE DEF u, v
    <3> QED BY <2>2, OddOfTwo
  <2>5. cut[k] = IF d THEN w ELSE 0
    BY DEF cut
  <2>6. cost[k] = IF o THEN -(w \div 2) ELSE w \div 2
    <3>1. m[k].coeff = w \div 2 /\ m[k].z = {u, v}
      BY <1>1
    <3>2. cost[k] = IF Odd(j, m[k].z) THEN -m[k].coeff ELSE m[k].coeff
      BY <2>1 DEF cost
    <3> HIDE DEF w, u, v
    <3> QED BY <3>1, <3>2
  <2>7. half[k] = w \div 2
    BY <1>8
  <2> HIDE DEF w, o, d
  <2>8. CASE o
    <3>1. cut[k] = w /\ cost[k] = -(w \div 2)
      BY <2>4, <2>5, <2>6, <2>8
    <3> QED BY <3>1, <2>1, <2>2, <2>7
  <2>9. CASE ~o
    <3>1. cut[k] = 0 /\ cost[k] = w \div 2
      BY <2>4, <2>5, <2>6, <2>9
    <3> QED BY <3>1, <2>1, <2>2, <2>7
  <2> QED BY <2>8, <2>9
<1>11. ASSUME NEW k \in 1 .. Len(m) PROVE cost[k] \in Int
  <2>1. m[k].coeff \in Int
    BY <1>1
  <2>2. cost[k] = IF Odd(j, m[k].z) THEN -m[k].coeff ELSE m[k].coeff
    BY DEF cost
  <2> QED BY <2>1, <2>2
<1>12. constant /\ total # 0 => cost[N + 1] = total
  <2> SUFFICES ASSUME constant /\ total # 0 PROVE cost[N + 1] = total
    OBVIOUS
  <2>1. Len(m) = N + 1 /\ m[N + 1].coeff = total /\ m[N + 1].z = {}
    BY <1>1
  <2>2. ~Odd(j, {})
    <3> DEFINE u == 0
               v == 1
    <3>1. u # v
      OBVIOUS
    <3> HIDE DEF u, v
    <3> QED BY <3>1, OddOfTwo
  <2>3. N + 1 \in 1 .. Len(m)
    BY <1>1, <2>1
  <2>4. cost[N + 1] = IF Odd(j, m[N + 1].z) THEN -m[N + 1].coeff ELSE m[N + 1].coeff
    BY <2>3 DEF cost
  <2> QED BY <2>1, <2>2, <2>4
<1> DEFINE C == CutValue(edges, j)
           D == DiagonalCost(m, j)
           H == IntTotal(1 .. N, half)
           W == IntTotal(1 .. N, weight)
           G == IntTotal(1 .. N, neg)
           K == IntTotal(1 .. N, cost)
<1> HIDE DEF C, D, H, W, G, K
<1>13. H \in Int /\ W \in Int /\ H = W - H
  <2>1. \A x \in 1 .. N : weight[x] \in Int /\ half[x] \in Int /\ half[x] = weight[x] - half[x]
    BY <1>9
  <2>2. /\ IntTotal(1 .. N, weight) \in Int /\ IntTotal(1 .. N, half) \in Int
        /\ IntTotal(1 .. N, half) = IntTotal(1 .. N, weight) - IntTotal(1 .. N, half)
    BY <1>k, <2>1, Differences
  <2> QED BY <2>2 DEF H, W
<1>14. G = H - W
  <2>1. \A x \in 1 .. N : half[x] \in Int /\ weight[x] \in Int /\ neg[x] = half[x] - weight[x]
    BY <1>9
  <2>2. /\ IntTotal(1 .. N, half) \in Int /\ IntTotal(1 .. N, weight) \in Int
        /\ IntTotal(1 .. N, neg) = IntTotal(1 .. N, half) - IntTotal(1 .. N, weight)
    BY <1>k, <2>1, Differences
  <2> QED BY <2>2 DEF H, W, G
<1>15. C \in Int /\ K = H - C
  <2>1. \A x \in 1 .. N : half[x] \in Int /\ cut[x] \in Int /\ cost[x] = half[x] - cut[x]
    BY <1>9, <1>10
  <2>2. /\ IntTotal(1 .. N, half) \in Int /\ IntTotal(1 .. N, cut) \in Int
        /\ IntTotal(1 .. N, cost) = IntTotal(1 .. N, half) - IntTotal(1 .. N, cut)
    BY <1>k, <2>1, Differences
  <2> QED BY <1>4, <2>2 DEF C, K, H
<1>16. CASE constant /\ total # 0
  <2>1. Len(m) = N + 1 /\ cost[N + 1] = total
    BY <1>1, <1>12, <1>16
  <2>2. \A x \in 1 .. N + 1 : cost[x] \in Int
    BY <1>11, <2>1
  <2>3. N + 1 \in Nat /\ N + 1 \in 1 .. N + 1 /\ (N + 1) - 1 = N
    BY <1>l
  <2> DEFINE M == N + 1
  <2>4. IntTotal(1 .. M, cost) = IntTotal(1 .. M - 1, cost) + cost[M]
    <3>1. M \in Nat /\ M \in 1 .. M /\ \A x \in 1 .. M : cost[x] \in Int
      BY <2>2, <2>3
    <3> HIDE DEF M
    <3> QED BY <3>1, TotalClimbs
  <2>5. D = K + total
    BY <1>7, <2>1, <2>3, <2>4 DEF D, K
  <2>6. total = G
    BY <1>6 DEF G
  <2>7. D = -C + 0
    BY <1>13, <1>14, <1>15, <2>5, <2>6
  <2> QED BY <1>15, <1>16, <2>7 DEF C, D, m
<1>17. CASE ~(constant /\ total # 0)
  <2>1. Len(m) = N
    BY <1>1, <1>17
  <2>2. D = K
    BY <1>7, <2>1 DEF D, K
  <2>3. total = G /\ whole = W
    BY <1>5, <1>6 DEF G, W
  <2>4. CASE constant
    <3>1. total = 0
      BY <1>17, <2>4
    <3>2. D = -C + 0
      BY <1>13, <1>14, <1>15, <2>2, <2>3, <3>1
    <3> QED BY <1>15, <2>4, <3>2 DEF C, D, m
  <2>5. CASE ~constant
    <3>1. W \div 2 = H
      BY <1>13
    <3>2. D = -C + whole \div 2
      BY <1>13, <1>15, <2>2, <2>3, <3>1
    <3> QED BY <1>15, <2>5, <3>2 DEF C, D, m, whole
  <2> QED BY <2>4, <2>5
<1> QED BY <1>16, <1>17

-----------------------------------------------------------------------------
(* What a caller is given *)

Final(c) == RunAll(c.ops, Promised!Ket(0, c.n))
Asked(c) == IF c.measured # <<>> THEN c.measured ELSE [k \in 1 .. c.n |-> k - 1]

\* What each reading should be, of the circuit that was run.
IsShot(c, v) ==
    \E j \in DOMAIN Final(c) :
        /\ Final(c)[j] # Zero
        /\ Reverse(v) = [k \in DOMAIN Asked(c) |-> Promised!Bit(j, Asked(c)[k])]

IsEnergy(c, v) ==
    v.energy = FoldSet(LAMBDA t, e :
                           (e + t.coeff * Inner(Final(c), PauliActed(t.paulis, Final(c)))[1])
                               % Prime,
                       0, DocumentedTerms(v.of))

IsAnswer(c, v) ==
    /\ v.best \in v.samples /\ Final(c)[v.best] # Zero
    /\ \A j \in v.samples : CostValue(v.ask.cost, v.best) <= CostValue(v.ask.cost, j)
    /\ v.cost = CostValue(v.ask.cost, v.best)

Reads(c, r) ==
    \/ r.what \in {"state", "threw"}
    \/ r.what = "shot" /\ IsShot(c, r.value)
    \/ r.what = "expectation" /\ IsEnergy(c, r.value)
    \/ r.what = "answer" /\ IsAnswer(c, r.value)

\* Each way to come to a reading is looked at by itself.
LEMMA ReadsWhatIsThere ==
    ASSUME Reads(circuit, result)
    PROVE  ReadsTheCircuit
<1>1. CASE result.what \in {"state", "threw"}
  BY <1>1 DEF ReadsTheCircuit
<1>2. CASE result.what = "shot" /\ IsShot(circuit, result.value)
  <2> DEFINE goal == IsShot(circuit, result.value)
  <2>1. goal
    BY <1>2
  <2> QED BY <1>2, <2>1 DEF ReadsTheCircuit, IsShot, Final, Asked
<1>3. CASE result.what = "expectation" /\ IsEnergy(circuit, result.value)
  BY <1>3 DEF ReadsTheCircuit, IsEnergy, Final
<1>4. CASE result.what = "answer" /\ IsAnswer(circuit, result.value)
  BY <1>4 DEF ReadsTheCircuit, IsAnswer, Final
<1> QED BY <1>1, <1>2, <1>3, <1>4 DEF Reads

LEMMA Backwards ==
    ASSUME NEW n \in Nat, NEW s, DOMAIN s = 1 .. n, s = [k \in 1 .. n |-> s[k]]
    PROVE  Reverse(Reverse(s)) = s
<1> DEFINE r == [k \in 1 .. n |-> s[(n - k) + 1]]
           t == [k \in 1 .. n |-> r[(n - k) + 1]]
<1>1. Len(s) = n
  OBVIOUS
<1>2. Reverse(s) = r
  BY <1>1 DEF Reverse
<1>3. Len(r) = n
  OBVIOUS
<1>4. Reverse(r) = t
  <2> HIDE DEF r
  <2> QED BY <1>3 DEF Reverse
<1>5. ASSUME NEW k \in 1 .. n PROVE t[k] = s[k]
  <2>1. (n - k) + 1 \in 1 .. n /\ (n - ((n - k) + 1)) + 1 = k
    OBVIOUS
  <2>2. t[k] = r[(n - k) + 1]
    OBVIOUS
  <2>3. r[(n - k) + 1] = s[(n - ((n - k) + 1)) + 1]
    BY <2>1
  <2> HIDE DEF t, r
  <2> QED BY <2>1, <2>2, <2>3
<1>6. t = [k \in 1 .. n |-> t[k]]
  OBVIOUS
<1>7. t = s
  <2> HIDE DEF t
  <2> QED BY <1>5, <1>6
<1> QED BY <1>2, <1>4, <1>7

\* What is known when a reading is taken.
LEMMA WhenRan ==
    ASSUME SInv, Finished, pc = "ran"
    PROVE  /\ circuit.n \in Nat /\ rtWidth = circuit.n
           /\ IsState(Final(circuit), circuit.n) /\ mem = Final(circuit)
           /\ circuit.ops \in Seq(GateOp) /\ circuit.measured \in Seq(Nat)
<1>1. /\ circuit.n \in Nat /\ rtWidth = circuit.n /\ IsState(mem, circuit.n)
      /\ mem = RunAll(circuit.ops, Prepared(circuit.n))
  BY DEF Finished
<1>2. mem = Final(circuit)
  BY <1>1 DEF Final, Prepared
<1>3. circuit \in CircuitsOn(circuit.n)
  BY DEF SInv, IInv, CircuitOK
<1>4. circuit.ops \in Seq(GateOp) /\ circuit.measured \in Seq(Nat)
  <2> DEFINE c == circuit
             m == circuit.n
  <2>1. m \in Nat /\ c \in CircuitsOn(m)
    BY <1>1, <1>3
  <2> HIDE DEF c, m
  <2>2. c.ops \in Seq(GateOp) /\ c.measured \in Seq(Nat)
    BY <2>1, CircuitFacts
  <2> QED BY <2>2 DEF c
<1> QED BY <1>1, <1>2, <1>4

\* Only what can happen is sampled.
LEMMA Possible ==
    ASSUME NEW j \in Support
    PROVE  j \in DOMAIN mem /\ mem[j] # Zero
<1>1. j \in DOMAIN mem /\ Norm(mem[j]) # 0
  BY DEF Support
<1>2. Norm(Zero) = 0
  BY DEF Norm, Zero, Complex, Prime
<1> QED BY <1>1, <1>2

LEMMA ShotIsRight ==
    ASSUME SInv, Finished, SamplesOnce
    PROVE  Reads(circuit, result)'
<1>1. pc = "ran"
  BY DEF SamplesOnce
<1>2. PICK j \in Support : Given("shot", Text(Readout(j, Which)))
  BY DEF SamplesOnce
<1>3. /\ result' = [what |-> "shot", value |-> Text(Readout(j, Which))] /\ circuit' = circuit
  BY <1>2 DEF Given, building
<1>4. /\ circuit.n \in Nat /\ rtWidth = circuit.n /\ mem = Final(circuit)
      /\ circuit.measured \in Seq(Nat)
  BY <1>1, WhenRan
<1>5. j \in DOMAIN Final(circuit) /\ Final(circuit)[j] # Zero
  BY <1>4, Possible
<1>6. Which = Asked(circuit)
  BY <1>4 DEF Which, Asked
<1>7. PICK n \in Nat : DOMAIN Asked(circuit) = 1 .. n
  <2>1. CASE circuit.measured = <<>>
    BY <1>4, <2>1 DEF Asked
  <2>2. CASE circuit.measured # <<>>
    <3> DEFINE m == circuit.measured
    <3>1. m \in Seq(Nat)
      BY <1>4
    <3> HIDE DEF m
    <3>2. DOMAIN m = 1 .. Len(m) /\ Len(m) \in Nat
      BY <3>1
    <3> QED BY <2>2, <3>2 DEF Asked, m
  <2> QED BY <2>1, <2>2
<1> DEFINE qubits == Asked(circuit)
           bits == [k \in DOMAIN qubits |-> Promised!Bit(j, qubits[k])]
<1>8. Readout(j, qubits) = bits
  BY DEF Readout, Promised!Bit, BitOf
<1>9. Reverse(Reverse(bits)) = bits
  <2>1. DOMAIN bits = 1 .. n /\ bits = [k \in 1 .. n |-> bits[k]]
    BY <1>7
  <2> HIDE DEF bits
  <2> QED BY <2>1, Backwards
<1>10. result'.what = "shot" /\ result'.value = Reverse(bits)
  BY <1>3, <1>6, <1>8 DEF Text
<1>11. IsShot(circuit, result'.value)
  <2>1. Reverse(result'.value) = bits
    BY <1>9, <1>10
  <2> QED BY <1>5, <2>1 DEF IsShot
<1> QED BY <1>3, <1>10, <1>11 DEF Reads

\* A finite set has an element of the least cost, ...
LEMMA LeastCost ==
    ASSUME NEW S, IsFiniteSet(S), S # {}, NEW cost, \A x \in S : cost[x] \in Int
    PROVE  \E x \in S : \A y \in S : cost[x] <= cost[y]
<1> DEFINE G == {T \in SUBSET S : T # {} => \E x \in T : \A y \in T : cost[x] <= cost[y]}
<1>1. {} \in G
  OBVIOUS
<1>2. ASSUME NEW T \in SUBSET S, T # {}, \A x \in T : T \ {x} \in G
      PROVE  T \in G
  <2>1. PICK t \in T : TRUE
    BY <1>2
  <2> DEFINE R == T \ {t}
  <2>2. R \in G
    BY <1>2
  <2>3. CASE R = {}
    <3>1. \A y \in T : y = t
      BY <2>3
    <3>2. cost[t] \in Int
      BY <2>1
    <3> QED BY <2>1, <3>1, <3>2
  <2>4. CASE R # {}
    <3>1. PICK r \in R : \A y \in R : cost[r] <= cost[y]
      BY <2>2, <2>4
    <3>2. r \in T /\ cost[r] \in Int /\ cost[t] \in Int /\ \A y \in T : cost[y] \in Int
      BY <2>1, <3>1
    <3>3. CASE cost[t] <= cost[r]
      <4>1. \A y \in T : cost[t] <= cost[y]
        BY <3>1, <3>2, <3>3
      <4> QED BY <2>1, <4>1
    <3>4. CASE ~(cost[t] <= cost[r])
      <4>1. \A y \in T : cost[r] <= cost[y]
        BY <3>1, <3>2, <3>4
      <4> QED BY <3>2, <4>1
    <3> QED BY <3>3, <3>4
  <2> QED BY <2>3, <2>4
<1>3. \A T \in SUBSET S : T \in G
  <2> HIDE DEF G
  <2> QED BY <1>1, <1>2, Subsets
<1> QED BY <1>3

\* ... and cheapest() is the first of them.
LEMMA CheapestIs ==
    ASSUME NEW masks, NEW S \in SUBSET Nat, IsFiniteSet(S), S # {},
           \A x \in S : DiagonalCost(masks, x) \in Int
    PROVE  /\ Cheapest(masks, S) \in S
           /\ \A x \in S : DiagonalCost(masks, Cheapest(masks, S)) <= DiagonalCost(masks, x)
<1> DEFINE cost == [j \in S |-> DiagonalCost(masks, j)]
           B == {j \in S : \A i \in S : cost[j] <= cost[i]}
<1>1. \A x \in S : cost[x] \in Int /\ cost[x] = DiagonalCost(masks, x)
  OBVIOUS
<1>2. B # {} /\ B \in SUBSET Nat
  <2> HIDE DEF cost
  <2>1. \E x \in S : \A y \in S : cost[x] <= cost[y]
    BY <1>1, LeastCost
  <2> QED BY <2>1
<1>3. Cheapest(masks, S) = Min(B)
  BY DEF Cheapest
<1>4. Min(B) \in B
  <2> HIDE DEF B
  <2>1. PICK m \in B : \A k \in B : m <= k
    BY <1>2, LeastNumber
  <2> QED BY <2>1 DEF Min
<1>5. Min(B) \in S /\ \A i \in S : cost[Min(B)] <= cost[i]
  BY <1>4
<1> HIDE DEF cost, B
<1> QED BY <1>1, <1>3, <1>5

\* There are finitely many basis states.
LEMMA FiniteIndices ==
    ASSUME Powers, NEW n \in Nat
    PROVE  Indices(n) \in SUBSET Nat /\ IsFiniteSet(Indices(n))
<1> DEFINE m == 2^n
<1>1. m \in Nat /\ Indices(n) = 0 .. m - 1
  BY DEF Powers, Indices
<1> HIDE DEF m
<1>2. IsFiniteSet(0 .. m - 1)
  BY <1>1, FS_Interval
<1> QED BY <1>1, <1>2

-----------------------------------------------------------------------------
(* Flipping bits of an index *)

LEMMA IntSame ==
    ASSUME NEW D, NEW c, NEW d, IsFiniteSet(D), \A x \in D : c[x] \in Int /\ d[x] = c[x]
    PROVE  IntTotal(D, d) = IntTotal(D, c)
<1> DEFINE V == Int
           add == IntAdd
           zero == 0
<1>1. (\A x \in D : c[x] \in V /\ d[x] = c[x]) /\ Adds(V, add, zero)
  BY Additions
<1>2. /\ IntTotal(D, c) = Total(D, c, V, add, zero)
      /\ IntTotal(D, d) = Total(D, d, V, add, zero)
  BY DEF IntTotal
<1> HIDE DEF V, add, zero
<1>3. Total(D, d, V, add, zero) = Total(D, c, V, add, zero)
  BY <1>1, TotalSame
<1> QED BY <1>2, <1>3

\* What flipping a bit adds to an index.
Turn(j) == [x \in Nat |-> IF Set(j, x) THEN -(2^x) ELSE 2^x]

LEMMA TurnIs ==
    ASSUME Powers, NEW j, NEW x \in Nat
    PROVE  Turn(j)[x] \in Int /\ 2^x \in Int /\ Turn(j)[x] = IF Set(j, x) THEN -(2^x) ELSE 2^x
BY DEF Turn, Powers

LEMMA FlipIs ==
    ASSUME Powers, NEW M \in SUBSET Nat, IsFiniteSet(M), NEW j \in Int
    PROVE  /\ Flip(j, M) = j + IntTotal(M, Turn(j)) /\ IntTotal(M, Turn(j)) \in Int
           /\ Flip(j, M) \in Int
<1> DEFINE c == [x \in M |-> IF Set(j, x) THEN -(2^x) ELSE 2^x]
           t == Turn(j)
<1>1. \A x \in M : t[x] \in Int /\ 2^x \in Int /\ c[x] = t[x]
  BY TurnIs
<1>2. Flip(j, M) = j + IntTotal(M, c)
  <2> DEFINE s == FoldSet(LAMBDA q, s : s + (IF Set(j, q) THEN -(2^q) ELSE 2^q), 0, M)
  <2>1. Flip(j, M) = j + s
    BY DEF Flip
  <2>2. s = IntTotal(M, c)
    BY <1>1, FlipFold
  <2> QED BY <2>1, <2>2
<1> HIDE DEF c, t
<1>3. IntTotal(M, c) = IntTotal(M, t)
  BY <1>1, IntSame
<1>4. IntTotal(M, t) \in Int
  BY <1>1, IntTotals
<1> QED BY <1>2, <1>3, <1>4 DEF t

LEMMA FlipOneLess ==
    ASSUME Powers, NEW M \in SUBSET Nat, IsFiniteSet(M), NEW j \in Int, NEW q \in M
    PROVE  /\ Flip(j, {}) = j
           /\ Flip(j, M) = Flip(j, M \ {q}) + Turn(j)[q]
<1> DEFINE t == Turn(j)
           R == M \ {q}
<1>1. \A x \in M : t[x] \in Int
  BY TurnIs
<1>2. IsFiniteSet(R) /\ R \in SUBSET Nat /\ IsFiniteSet({}) /\ {} \in SUBSET Nat
  BY FS_RemoveElement, FS_EmptySet
<1>3. /\ Flip(j, M) = j + IntTotal(M, t) /\ Flip(j, {}) = j + IntTotal({}, t)
      /\ Flip(j, R) = j + IntTotal(R, t) /\ IntTotal(R, t) \in Int
  BY <1>2, FlipIs
<1> HIDE DEF t
<1>4. IntTotal({}, t) = 0 /\ IntTotal(M, t) = IntTotal(R, t) + t[q]
  BY <1>1, IntTotals
<1> HIDE DEF R
<1>5. t[q] \in Int
  BY <1>1
<1> QED BY <1>3, <1>4, <1>5 DEF t, R

\* The index stays one of the state, and just the bits asked for are flipped.
Flips(j, M, n) ==
    /\ Flip(j, M) \in Indices(n)
    /\ \A q \in 0 .. n - 1 :
          BitOf(Flip(j, M), q) = IF q \in M THEN 1 - BitOf(j, q) ELSE BitOf(j, q)

\* One bit more.
LEMMA Toggles ==
    ASSUME Powers, NEW n \in Nat, NEW q \in 0 .. n - 1, NEW i \in Indices(n),
           NEW t, t = IF BitOf(i, q) = 1 THEN i - 2^q ELSE i + 2^q
    PROVE  /\ t \in Indices(n) /\ BitOf(t, q) = 1 - BitOf(i, q)
           /\ \A c \in 0 .. n - 1 : c # q => BitOf(t, c) = BitOf(i, c)
<1>1. q \in Nat /\ i \in Nat /\ 2^n \in Int /\ 2^q \in Int /\ i < 2^n /\ q < n /\ 2^q > 0
  BY DEF Indices, Powers
<1>2. BitOf(i, q) = 0 \/ BitOf(i, q) = 1
  BY <1>1, BitIsOne
<1>3. CASE BitOf(i, q) = 0
  <2>1. /\ i + 2^q \in Nat /\ BitOf(i + 2^q, q) = 1
        /\ \A c \in Nat \ {q} : BitOf(i + 2^q, c) = BitOf(i, c)
        /\ \A m \in Nat : q < m /\ i < 2^m => i + 2^q < 2^m
    BY <1>1, <1>3, SetsBit
  <2>2. t = i + 2^q
    BY <1>3
  <2>3. t < 2^n
    BY <1>1, <2>1, <2>2
  <2>4. t \in Indices(n)
    BY <1>1, <2>1, <2>2, <2>3 DEF Indices
  <2> QED BY <1>3, <2>1, <2>2, <2>4
<1>4. CASE BitOf(i, q) = 1
  <2>1. /\ i - 2^q \in Nat /\ BitOf(i - 2^q, q) = 0
        /\ \A c \in Nat \ {q} : BitOf(i - 2^q, c) = BitOf(i, c)
    BY <1>1, <1>4, ClearsBit
  <2>2. t = i - 2^q
    BY <1>4
  <2>3. t < 2^n
    BY <1>1, <2>2
  <2>4. t \in Indices(n)
    BY <1>1, <2>1, <2>2, <2>3 DEF Indices
  <2> QED BY <1>4, <2>1, <2>2, <2>4
<1> QED BY <1>2, <1>3, <1>4

LEMMA FlipBits ==
    ASSUME Powers, NEW n \in Nat, NEW j \in Indices(n)
    PROVE  \A M \in SUBSET (0 .. n - 1) : Flips(j, M, n)
<1> DEFINE D == 0 .. n - 1
           G == {M \in SUBSET D : Flips(j, M, n)}
<1>1. IsFiniteSet(D) /\ D \in SUBSET Nat
  BY FS_Interval
<1>2. j \in Int
  BY DEF Indices
<1>3. {} \in G
  <2>1. Flip(j, {}) = j
    <3> DEFINE t == Turn(j)
               E == {}
    <3>1. IsFiniteSet(E) /\ E \in SUBSET Nat /\ \A x \in E : t[x] \in Int
      BY FS_EmptySet
    <3>2. Flip(j, E) = j + IntTotal(E, t)
      BY <1>2, <3>1, FlipIs
    <3>3. IntTotal({}, t) = 0
      <4> HIDE DEF t
      <4> QED BY <3>1, IntTotals
    <3> QED BY <1>2, <3>2, <3>3
  <2>2. \A q \in D : BitOf(j, q) = IF q \in {} THEN 1 - BitOf(j, q) ELSE BitOf(j, q)
    OBVIOUS
  <2>3. Flips(j, {}, n)
    BY <2>1, <2>2 DEF Flips
  <2> QED BY <2>3
<1>4. ASSUME NEW M \in SUBSET D, M # {}, \A x \in M : M \ {x} \in G
      PROVE  M \in G
  <2>1. PICK q \in M : TRUE
    BY <1>4
  <2> DEFINE R == M \ {q}
             i == Flip(j, R)
             t == Flip(j, M)
  <2>2. R \in G
    BY <1>4
  <2>3. /\ i \in Indices(n)
        /\ \A c \in D : BitOf(i, c) = IF c \in R THEN 1 - BitOf(j, c) ELSE BitOf(j, c)
    BY <2>2 DEF Flips
  <2>4. IsFiniteSet(M) /\ M \in SUBSET Nat
    BY <1>1, FS_Subset
  <2>5. t = i + Turn(j)[q]
    BY <1>2, <2>1, <2>4, FlipOneLess
  <2>6. q \in D /\ q \in Nat
    BY <1>1, <2>1
  <2> HIDE DEF i, t
  <2>7. BitOf(i, q) = BitOf(j, q)
    BY <2>3, <2>6
  <2>8. t = IF BitOf(i, q) = 1 THEN i - 2^q ELSE i + 2^q
    <3>1. Turn(j)[q] = (IF Set(j, q) THEN -(2^q) ELSE 2^q) /\ 2^q \in Int /\ i \in Int
      BY <2>3, <2>6, TurnIs DEF Indices
    <3>2. Set(j, q) <=> BitOf(i, q) = 1
      BY <2>7 DEF Set, BitOf
    <3>3. CASE BitOf(i, q) = 1
      <4>1. Turn(j)[q] = -(2^q)
        BY <3>1, <3>2, <3>3
      <4> QED BY <2>5, <3>1, <3>3, <4>1
    <3>4. CASE BitOf(i, q) # 1
      <4>1. Turn(j)[q] = 2^q
        BY <3>1, <3>2, <3>4
      <4> QED BY <2>5, <3>1, <3>4, <4>1
    <3> QED BY <3>3, <3>4
  <2>9. /\ t \in Indices(n) /\ BitOf(t, q) = 1 - BitOf(i, q)
        /\ \A c \in 0 .. n - 1 : c # q => BitOf(t, c) = BitOf(i, c)
    BY <2>3, <2>6, <2>8, Toggles
  <2>10. ASSUME NEW c \in D
         PROVE  BitOf(t, c) = IF c \in M THEN 1 - BitOf(j, c) ELSE BitOf(j, c)
    <3>1. CASE c = q
      BY <2>1, <2>7, <2>9, <3>1
    <3>2. CASE c # q
      <4>1. BitOf(t, c) = BitOf(i, c) /\ (c \in M <=> c \in R)
        BY <2>9, <3>2
      <4> HIDE DEF R
      <4> QED BY <2>3, <4>1
    <3> QED BY <3>1, <3>2
  <2> QED BY <2>9, <2>10 DEF Flips, t
<1>5. \A M \in SUBSET D : M \in G
  <2> HIDE DEF G, D
  <2> QED BY <1>1, <1>3, <1>4, Subsets
<1> QED BY <1>5

\* Where all signs change, the sum does.
LEMMA Negated ==
    ASSUME NEW D, IsFiniteSet(D), NEW c, NEW d, \A x \in D : c[x] \in Int /\ d[x] = -c[x]
    PROVE  IntTotal(D, c) \in Int /\ IntTotal(D, d) = -IntTotal(D, c)
<1> DEFINE G == {T \in SUBSET D : IntTotal(T, d) + IntTotal(T, c) = 0}
<1>1. ASSUME NEW T \in SUBSET D
      PROVE  /\ IntTotal(T, c) \in Int /\ IntTotal({}, c) = 0
             /\ \A x \in T : IntTotal(T, c) = IntTotal(T \ {x}, c) + c[x]
             /\ IntTotal(T, d) \in Int /\ IntTotal({}, d) = 0
             /\ \A x \in T : IntTotal(T, d) = IntTotal(T \ {x}, d) + d[x]
  <2>1. /\ IsFiniteSet(T)
        /\ \A x \in T : c[x] \in Int
        /\ \A x \in T : d[x] \in Int
    BY FS_Subset
  <2> QED BY <2>1, IntTotals
<1>2. {} \in G
  <2>1. IntTotal({}, c) = 0 /\ IntTotal({}, d) = 0
    BY <1>1
  <2> QED BY <2>1
<1>3. ASSUME NEW T \in SUBSET D, T # {}, \A x \in T : T \ {x} \in G
      PROVE  T \in G
  <2>1. PICK x \in T : TRUE
    BY <1>3
  <2> DEFINE R == T \ {x}
  <2>2. R \in G /\ R \in SUBSET D
    BY <1>3
  <2>3. IntTotal(R, d) + IntTotal(R, c) = 0 /\ IntTotal(R, d) \in Int /\ IntTotal(R, c) \in Int
    BY <1>1, <2>2
  <2>4. IntTotal(T, c) = IntTotal(R, c) + c[x] /\ IntTotal(T, d) = IntTotal(R, d) + d[x]
    BY <1>1
  <2>5. c[x] \in Int /\ d[x] = -c[x]
    OBVIOUS
  <2> HIDE DEF R
  <2>6. IntTotal(T, d) + IntTotal(T, c) = 0
    BY <2>3, <2>4, <2>5
  <2> QED BY <2>6
<1>4. \A T \in SUBSET D : T \in G
  <2> HIDE DEF G
  <2> QED BY <1>2, <1>3, Subsets
<1>5. D \in SUBSET D
  OBVIOUS
<1>6. /\ IntTotal(D, d) + IntTotal(D, c) = 0
      /\ IntTotal(D, c) \in Int /\ IntTotal(D, d) \in Int
  BY <1>1, <1>4, <1>5
<1> QED BY <1>6

\* Flipped twice, a bit is as it was.
LEMMA FlipTwice ==
    ASSUME Powers, NEW n \in Nat, NEW j \in Indices(n), NEW M \in SUBSET (0 .. n - 1)
    PROVE  Flip(Flip(j, M), M) = j
<1> DEFINE i == Flip(j, M)
           c == Turn(j)
           d == Turn(i)
<1>1. IsFiniteSet(0 .. n - 1) /\ 0 .. n - 1 \in SUBSET Nat
  BY FS_Interval
<1>2. IsFiniteSet(M) /\ M \in SUBSET Nat
  BY <1>1, FS_Subset
<1>3. Flips(j, M, n)
  BY FlipBits
<1>4. j \in Int /\ i \in Int
  BY <1>3 DEF Indices, Flips
<1>5. i = j + IntTotal(M, c)
  BY <1>2, <1>4, FlipIs
<1>6. Flip(i, M) = i + IntTotal(M, d)
  <2> HIDE DEF i
  <2> QED BY <1>2, <1>4, FlipIs
<1>7. ASSUME NEW x \in M PROVE c[x] \in Int /\ d[x] = -c[x]
  <2>1. x \in Nat /\ x \in 0 .. n - 1
    BY <1>2
  <2>2. BitOf(i, x) = 1 - BitOf(j, x)
    BY <1>3, <2>1 DEF Flips
  <2> HIDE DEF i
  <2>3. /\ 2^x \in Int /\ c[x] = (IF Set(j, x) THEN -(2^x) ELSE 2^x)
        /\ d[x] = (IF Set(i, x) THEN -(2^x) ELSE 2^x)
    BY <2>1, TurnIs
  <2>4. j \in Nat
    BY DEF Indices
  <2>5. BitOf(j, x) = 0 \/ BitOf(j, x) = 1
    BY <2>1, <2>4, BitIsOne
  <2>6. (Set(j, x) <=> BitOf(j, x) = 1) /\ (Set(i, x) <=> BitOf(i, x) = 1)
    BY DEF Set, BitOf
  <2>7. CASE BitOf(j, x) = 0
    <3>1. ~Set(j, x) /\ Set(i, x)
      BY <2>2, <2>6, <2>7
    <3> HIDE DEF c, d
    <3>2. c[x] = 2^x /\ d[x] = -(2^x)
      BY <2>3, <3>1
    <3> QED BY <2>3, <3>2
  <2>8. CASE BitOf(j, x) = 1
    <3>1. Set(j, x) /\ ~Set(i, x)
      BY <2>2, <2>6, <2>8
    <3> HIDE DEF c, d
    <3>2. c[x] = -(2^x) /\ d[x] = 2^x
      BY <2>3, <3>1
    <3> QED BY <2>3, <3>2
  <2> QED BY <2>5, <2>7, <2>8
<1> HIDE DEF c, d
<1>8. IntTotal(M, c) \in Int /\ IntTotal(M, d) = -IntTotal(M, c)
  BY <1>2, <1>7, Negated
<1> HIDE DEF i
<1>9. Flip(i, M) = j
  BY <1>4, <1>5, <1>6, <1>8
<1> QED BY <1>9 DEF i

-----------------------------------------------------------------------------
(* A Pauli string, qubit by qubit *)

LEMMA OddOneMore ==
    ASSUME NEW j, NEW M, IsFiniteSet(M), NEW q, q \notin M
    PROVE  /\ Odd(j, M) \in BOOLEAN
           /\ Set(j, q) => (Odd(j, M \cup {q}) <=> ~Odd(j, M))
           /\ ~Set(j, q) => (Odd(j, M \cup {q}) <=> Odd(j, M))
<1> DEFINE on == {x \in M : Set(j, x)}
           more == {x \in M \cup {q} : Set(j, x)}
           a == Cardinality(on)
           b == Cardinality(more)
<1>1. IsFiniteSet(on) /\ q \notin on
  <2>1. on \subseteq M
    OBVIOUS
  <2>2. q \notin on
    OBVIOUS
  <2> HIDE DEF on
  <2> QED BY <2>1, <2>2, FS_Subset
<1>2. a \in Nat
  <2> HIDE DEF on
  <2> QED BY <1>1, FS_CardinalityType
<1>3. (Odd(j, M) <=> a % 2 = 1) /\ (Odd(j, M \cup {q}) <=> b % 2 = 1)
  BY DEF Odd
<1>t. Odd(j, M) \in BOOLEAN
  BY DEF Odd
<1>4. CASE Set(j, q)
  <2>1. more = on \cup {q}
    BY <1>4
  <2>2. Cardinality(on \cup {q}) = Cardinality(on) + 1
    <3> HIDE DEF on
    <3> QED BY <1>1, FS_AddElement
  <2>3. b = a + 1
    BY <2>1, <2>2
  <2> HIDE DEF a, b, on, more
  <2>4. b % 2 = 1 <=> ~(a % 2 = 1)
    BY <1>2, <2>3
  <2> QED BY <1>t, <1>3, <1>4, <2>4, Zenon
<1>5. CASE ~Set(j, q)
  <2>1. more = on
    BY <1>5
  <2>2. b = a
    BY <2>1
  <2> HIDE DEF a, b, on, more
  <2> QED BY <1>t, <1>3, <1>5, <2>2, Zenon
<1> QED BY <1>4, <1>5

LEMMA Negatives == ASSUME NEW x \in Int PROVE (30 * x) % 31 = (-x) % 31
OBVIOUS

LEMMA MinusOne ==
    ASSUME NEW x \in Int, x = 1
    PROVE  30 % 31 = (-1) % 31
<1>1. (30 * x) % 31 = (-x) % 31
  BY Negatives
<1>2. 30 * x = 30 /\ -x = -1
  OBVIOUS
<1> QED BY <1>1, <1>2, Zenon

\* A sign is a factor.
Sign(odd) == IF odd THEN Complex(-1, 0) ELSE One

LEMMA SignedIs ==
    ASSUME NEW a \in Amplitude, NEW odd \in BOOLEAN
    PROVE  /\ Signed(odd, a) = Times(Sign(odd), a)
           /\ Sign(odd) \in Amplitude /\ Signed(odd, a) \in Amplitude
           /\ Signed(~odd, a) = Times(Complex(-1, 0), Signed(odd, a))
<1> DEFINE m == Complex(-1, 0)
<1>1. m \in Amplitude /\ One \in Amplitude
  BY ComplexType, ConstantsType
<1>2. Times(m, a) = Complex(-a[1], -a[2])
  <2>1. a[1] \in 0 .. 30 /\ a[2] \in 0 .. 30
    BY DEF Amplitude, Prime
  <2> DEFINE x == a[1]
             y == a[2]
             u == 30 * x - 0 * y
             v == 30 * y + 0 * x
  <2>2. m[1] = 30 /\ m[2] = 0
    <3>2. 1 \in Int /\ 30 % 31 = 30 /\ 0 % 31 = 0
      OBVIOUS
    <3>3. 30 % 31 = (-1) % 31
      BY <3>2, MinusOne, Zenon
    <3>1. m = <<30, 0>>
      BY <3>2, <3>3, Zenon DEF Complex, Prime
    <3> HIDE DEF m
    <3> QED BY <3>1
  <2>3. Times(m, a) = Complex(u, v)
    <3> HIDE DEF m
    <3> QED BY <2>2 DEF Times
  <2> HIDE DEF x, y
  <2>4. x \in Int /\ y \in Int
    BY <2>1 DEF x, y
  <2>5. u % 31 = (-x) % 31 /\ v % 31 = (-y) % 31
    BY <2>4
  <2> HIDE DEF u, v
  <2>6. Complex(u, v) = Complex(-x, -y)
    BY <2>5 DEF Complex, Prime
  <2> QED BY <2>3, <2>6 DEF x, y
<1>3. Times(m, m) = One /\ Times(One, a) = a
  <2>1. Times(Complex(-1, 0), Complex(-1, 0)) = Complex(-(-1), 0)
    BY Axis
  <2>2. Complex(-(-1), 0) = One
    BY DEF One
  <2> QED BY <2>1, <2>2, Units
<1>4. Times(m, Times(m, a)) = a
  BY <1>1, <1>3, Associative
<1>5. Times(m, a) \in Amplitude
  BY <1>1, ArithmeticType
<1> HIDE DEF m
<1>6. CASE odd
  <2>1. Signed(odd, a) = Times(m, a) /\ Sign(odd) = m /\ Signed(~odd, a) = a
    BY <1>2, <1>6 DEF Signed, Sign, m
  <2> QED BY <1>1, <1>4, <1>5, <2>1 DEF m
<1>7. CASE ~odd
  <2>1. Signed(odd, a) = a /\ Sign(odd) = One /\ Signed(~odd, a) = Times(m, a)
    BY <1>2, <1>7 DEF Signed, Sign, m
  <2> QED BY <1>1, <1>3, <1>4, <1>5, <2>1 DEF m
<1> QED BY <1>6, <1>7

\* The index with bit q flipped.
Toggled(j, q) == IF BitOf(j, q) = 1 THEN j - 2^q ELSE j + 2^q

\* A bit flipped first, or with the others.
LEMMA ToggleFlip ==
    ASSUME Powers, NEW n \in Nat, NEW j \in Indices(n), NEW q \in 0 .. n - 1,
           NEW M \in SUBSET (0 .. n - 1), q \notin M
    PROVE  /\ Toggled(j, q) \in Indices(n)
           /\ Flip(Toggled(j, q), M) = Flip(j, M \cup {q})
<1> DEFINE o == Toggled(j, q)
           N == M \cup {q}
           c == Turn(j)
           d == Turn(o)
<1>1. IsFiniteSet(0 .. n - 1) /\ 0 .. n - 1 \in SUBSET Nat
  BY FS_Interval
<1>2. /\ IsFiniteSet(M) /\ M \in SUBSET Nat /\ q \in Nat
      /\ IsFiniteSet(N) /\ N \in SUBSET Nat /\ N \ {q} = M /\ q \in N
  <2>1. M \in SUBSET Nat /\ q \in Nat /\ N \in SUBSET Nat /\ N \ {q} = M /\ q \in N
    BY <1>1
  <2>2. N \subseteq 0 .. n - 1
    OBVIOUS
  <2> HIDE DEF N
  <2>3. IsFiniteSet(M) /\ IsFiniteSet(N)
    BY <1>1, <2>2, FS_Subset
  <2> QED BY <2>1, <2>3
<1>3. /\ o \in Indices(n)
      /\ \A x \in 0 .. n - 1 : x # q => BitOf(o, x) = BitOf(j, x)
  BY Toggles DEF Toggled
<1>4. j \in Int /\ o \in Int
  <2> HIDE DEF o
  <2> QED BY <1>3 DEF Indices
<1>5. o = j + c[q] /\ c[q] \in Int
  <2>1. 2^q \in Int /\ c[q] \in Int /\ c[q] = IF Set(j, q) THEN -(2^q) ELSE 2^q
    BY <1>2, TurnIs
  <2>2. Set(j, q) <=> BitOf(j, q) = 1
    BY DEF Set, BitOf
  <2> HIDE DEF c
  <2>3. CASE Set(j, q)
    BY <1>4, <2>1, <2>2, <2>3 DEF Toggled
  <2>4. CASE ~Set(j, q)
    BY <1>4, <2>1, <2>2, <2>4 DEF Toggled
  <2> QED BY <2>3, <2>4
<1>6. \A x \in M : c[x] \in Int /\ d[x] = c[x]
  <2> SUFFICES ASSUME NEW x \in M PROVE c[x] \in Int /\ d[x] = c[x]
    OBVIOUS
  <2>1. x \in Nat /\ x \in 0 .. n - 1 /\ x # q
    BY <1>2
  <2> HIDE DEF o
  <2>2. BitOf(o, x) = BitOf(j, x)
    BY <1>3, <2>1
  <2>3. Set(j, x) <=> Set(o, x)
    BY <2>2 DEF Set, BitOf
  <2>4. /\ c[x] \in Int /\ c[x] = (IF Set(j, x) THEN -(2^x) ELSE 2^x)
        /\ d[x] = (IF Set(o, x) THEN -(2^x) ELSE 2^x)
    BY <2>1, TurnIs
  <2> HIDE DEF c, d
  <2> QED BY <2>3, <2>4
<1>7. IntTotal(M, d) = IntTotal(M, c)
  <2> HIDE DEF c, d
  <2> QED BY <1>2, <1>6, IntSame
<1>8. Flip(o, M) = o + IntTotal(M, d)
  <2> HIDE DEF o
  <2> QED BY <1>2, <1>4, FlipIs
<1>9. Flip(j, M) = j + IntTotal(M, c) /\ IntTotal(M, c) \in Int
  BY <1>2, <1>4, FlipIs
<1>10. Flip(j, N) = Flip(j, M) + c[q]
  <2> HIDE DEF N
  <2>1. Flip(j, N) = Flip(j, N \ {q}) + Turn(j)[q]
    BY <1>2, <1>4, FlipOneLess
  <2> QED BY <1>2, <2>1
<1> HIDE DEF o, c, d, N
<1>11. Flip(o, M) = Flip(j, N)
  BY <1>4, <1>5, <1>7, <1>8, <1>9, <1>10
<1> QED BY <1>3, <1>11 DEF o, N

-----------------------------------------------------------------------------
(* One Pauli matrix on one qubit *)

LEMMA ImaginaryUnit ==
    ASSUME NEW x \in Int, x = 1
    PROVE  Times(Phase(4), Complex(-1, 0)) = Complex(0, -1) /\ Phase(4) = Complex(0, 1)
<1>1. Times(Complex(0, x), Complex(-1, 0)) = Complex(0, -x)
  BY Axis
<1> QED BY <1>1, SmallAngles, Zenon

Letters == {"I", "X", "Y", "Z"}

\* What the matrix multiplies an amplitude by, and which one.
Weight(p, bit) ==
    CASE p \in {"I", "X"} -> One
      [] p = "Z" -> Sign(bit = 1)
      [] p = "Y" -> Times(Phase(4), Sign(bit = 0))
Source(p, j, q) == IF p \in {"X", "Y"} THEN Toggled(j, q) ELSE j

LEMMA PauliRow ==
    ASSUME Powers, NEW n \in Nat, NEW q \in 0 .. n - 1, NEW s, IsState(s, n),
           NEW p \in Letters, NEW j \in Indices(n)
    PROVE  /\ Source(p, j, q) \in Indices(n)
           /\ Promised!Acted(Promised!Pauli(p), {}, q, s)[j]
                = Times(Weight(p, BitOf(j, q)), s[Source(p, j, q)])
<1> DEFINE m == Promised!Pauli(p)
           t == Promised!Acted(m, {}, q, s)
<1>1. PICK i \in Indices(n) : BitOf(i, q) = 0 /\ (j = i \/ j = i + 2^q)
  BY Partner
<1> DEFINE o == i + 2^q
<1>2. i \in Nat /\ q \in Nat /\ 2^q \in Nat
  BY DEF Powers, Indices
<1>3. o \in Indices(n) /\ AtPair(m, s, t, i, o)
  <2>1. {} \in SUBSET (Nat \ {q}) /\ ~Blocked(i, {})
    BY DEF Blocked
  <2> HIDE DEF m, t
  <2>2. t = Promised!Acted(m, {}, q, s)
    BY DEF t
  <2> QED BY <1>1, <2>1, <2>2, ActedAt
<1>4. t[i] = Plus(Times(m[1], s[i]), Times(m[2], s[o]))
      /\ t[o] = Plus(Times(m[3], s[i]), Times(m[4], s[o]))
  <2> HIDE DEF m, t, o
  <2> QED BY <1>3 DEF AtPair
<1>5. s[i] \in Amplitude /\ s[o] \in Amplitude
  BY <1>1, <1>3 DEF IsState
<1>6. BitOf(i, q) = 0 /\ BitOf(o, q) = 1
  BY <1>1, <1>2, SetsBit
<1>7. Toggled(i, q) = o /\ Toggled(o, q) = i
  <2>1. o - 2^q = i
    BY <1>2
  <2> QED BY <1>6, <2>1 DEF Toggled
<1> DEFINE a == s[i]
           b == s[o]
<1>8. Plus(a, Zero) = a /\ Plus(Zero, a) = a /\ Plus(b, Zero) = b /\ Plus(Zero, b) = b
      /\ Times(Zero, a) = Zero /\ Times(Zero, b) = Zero /\ Times(One, a) = a /\ Times(One, b) = b
  BY <1>5, Units
<1>9. Complex(-1, 0) \in Amplitude /\ Complex(0, -1) \in Amplitude /\ Complex(0, 1) \in Amplitude
  BY ComplexType
<1>10. /\ Times(Complex(-1, 0), b) \in Amplitude
       /\ Times(Complex(0, -1), b) \in Amplitude /\ Times(Complex(0, 1), a) \in Amplitude
  BY <1>5, <1>9, ArithmeticType
<1>11. /\ Plus(Zero, Times(Complex(-1, 0), b)) = Times(Complex(-1, 0), b)
       /\ Plus(Zero, Times(Complex(0, -1), b)) = Times(Complex(0, -1), b)
       /\ Plus(Times(Complex(0, 1), a), Zero) = Times(Complex(0, 1), a)
  BY <1>10, Units
<1>12. /\ Sign(FALSE) = One /\ Sign(TRUE) = Complex(-1, 0)
       /\ Times(Phase(4), Sign(TRUE)) = Complex(0, -1)
       /\ Times(Phase(4), Sign(FALSE)) = Complex(0, 1)
  <2>1. Sign(FALSE) = One /\ Sign(TRUE) = Complex(-1, 0)
    BY DEF Sign
  <2>2. Times(Phase(4), Complex(-1, 0)) = Complex(0, -1) /\ Phase(4) = Complex(0, 1)
    BY ImaginaryUnit
  <2>3. Times(Complex(0, 1), One) = Complex(0, 1)
    BY <1>9, Units
  <2> QED BY <2>1, <2>2, <2>3, Zenon
<1>13. BitOf(i, q) = 1 <=> FALSE
  BY <1>6
<1>14. BitOf(o, q) = 0 <=> FALSE
  BY <1>6
<1>15. /\ Sign(BitOf(i, q) = 1) = Sign(FALSE) /\ Sign(BitOf(o, q) = 1) = Sign(TRUE)
       /\ Sign(BitOf(i, q) = 0) = Sign(TRUE) /\ Sign(BitOf(o, q) = 0) = Sign(FALSE)
  BY <1>6, <1>13, <1>14 DEF Sign
<1> HIDE DEF t, o, a, b
<1>16. CASE p = "I"
  <2>1. m[1] = One /\ m[2] = Zero /\ m[3] = Zero /\ m[4] = One
    BY <1>16, PauliEntries
  <2> HIDE DEF m
  <2>2. t[i] = a /\ t[o] = b
    BY <1>4, <1>8, <2>1, Zenon DEF a, b
  <2>3. Weight(p, BitOf(j, q)) = One /\ Source(p, j, q) = j
    BY <1>16 DEF Weight, Source
  <2> QED BY <1>1, <1>3, <1>8, <2>2, <2>3 DEF t, a, b, o, m
<1>17. CASE p = "X"
  <2>1. m[1] = Zero /\ m[2] = One /\ m[3] = One /\ m[4] = Zero
    BY <1>17, PauliEntries DEF XMatrix
  <2> HIDE DEF m
  <2>2. t[i] = b /\ t[o] = a
    BY <1>4, <1>8, <2>1, Zenon DEF a, b
  <2>3. Weight(p, BitOf(j, q)) = One /\ Source(p, j, q) = Toggled(j, q)
    BY <1>17 DEF Weight, Source
  <2> QED BY <1>1, <1>3, <1>7, <1>8, <2>2, <2>3 DEF t, a, b, o, m
<1>18. CASE p = "Z"
  <2>1. m[1] = One /\ m[2] = Zero /\ m[3] = Zero /\ m[4] = Complex(-1, 0)
    BY <1>18, PauliEntries DEF ZMatrix
  <2> HIDE DEF m
  <2>2. t[i] = a /\ t[o] = Times(Complex(-1, 0), b)
    BY <1>4, <1>8, <1>11, <2>1, Zenon DEF a, b
  <2>3. \A bit : Weight(p, bit) = Sign(bit = 1)
    BY <1>18 DEF Weight
  <2>4. Source(p, j, q) = j
    BY <1>18 DEF Source
  <2>5. Weight(p, BitOf(i, q)) = One /\ Weight(p, BitOf(o, q)) = Complex(-1, 0)
    BY <1>12, <1>15, <2>3, Zenon
  <2> QED BY <1>1, <1>3, <1>8, <2>2, <2>4, <2>5 DEF t, a, b, o, m
<1>19. CASE p = "Y"
  <2>1. m[1] = Zero /\ m[2] = Complex(0, -1) /\ m[3] = Complex(0, 1) /\ m[4] = Zero
    BY <1>19, PauliEntries DEF YMatrix
  <2> HIDE DEF m
  <2>2. t[i] = Times(Complex(0, -1), b) /\ t[o] = Times(Complex(0, 1), a)
    BY <1>4, <1>8, <1>11, <2>1, Zenon DEF a, b
  <2>3. \A bit : Weight(p, bit) = Times(Phase(4), Sign(bit = 0))
    BY <1>19 DEF Weight
  <2>4. Source(p, j, q) = Toggled(j, q)
    BY <1>19 DEF Source
  <2>5. Weight(p, BitOf(i, q)) = Complex(0, -1) /\ Weight(p, BitOf(o, q)) = Complex(0, 1)
    BY <1>12, <1>15, <2>3, Zenon
  <2> QED BY <1>1, <1>3, <1>7, <2>2, <2>4, <2>5 DEF t, a, b, o, m
<1> QED BY <1>16, <1>17, <1>18, <1>19 DEF Letters

-----------------------------------------------------------------------------
(* The Pauli matrices of a string, one after the other *)

LEMMA FactorsMove ==
    ASSUME NEW i, NEW w, NEW f, NEW a, {i, w, f, a} \subseteq Amplitude
    PROVE  /\ Times(w, Times(f, a)) = Times(f, Times(w, a))
           /\ Times(Times(i, w), Times(f, a)) = Times(Times(i, f), Times(w, a))
<1>1. i \in Amplitude /\ w \in Amplitude /\ f \in Amplitude /\ a \in Amplitude
  OBVIOUS
<1>2. Times(f, a) \in Amplitude /\ Times(w, a) \in Amplitude
  BY <1>1, ArithmeticType
<1>3. Times(w, Times(f, a)) = Times(Times(w, f), a)
  BY <1>1, Associative
<1>4. Times(w, f) = Times(f, w)
  BY <1>1, Associative
<1>5. Times(Times(f, w), a) = Times(f, Times(w, a))
  BY <1>1, Associative
<1>6. Times(w, Times(f, a)) = Times(f, Times(w, a))
  BY <1>3, <1>4, <1>5, Zenon
<1>7. Times(Times(i, w), Times(f, a)) = Times(i, Times(w, Times(f, a)))
  BY <1>1, <1>2, Associative
<1>8. Times(Times(i, f), Times(w, a)) = Times(i, Times(f, Times(w, a)))
  BY <1>1, <1>2, Associative
<1> QED BY <1>6, <1>7, <1>8, Zenon

LEMMA SignsMeet ==
    ASSUME NEW a \in Amplitude, NEW odd \in BOOLEAN, NEW b \in BOOLEAN, NEW more,
           more <=> (IF b THEN ~odd ELSE odd), more \in BOOLEAN
    PROVE  Times(Sign(b), Signed(odd, a)) = Signed(more, a)
<1>1. /\ Signed(odd, a) \in Amplitude
      /\ Signed(~odd, a) = Times(Complex(-1, 0), Signed(odd, a))
  BY SignedIs
<1>2. CASE b
  <2>1. Sign(b) = Complex(-1, 0)
    BY <1>2 DEF Sign
  <2>2. more = ~odd
    BY <1>2
  <2> QED BY <1>1, <2>1, <2>2, Zenon
<1>3. CASE ~b
  <2>1. Sign(b) = One
    BY <1>3 DEF Sign
  <2>2. more = odd
    BY <1>3
  <2>3. Times(One, Signed(odd, a)) = Signed(odd, a)
    BY <1>1, Units
  <2> QED BY <2>1, <2>2, <2>3, Zenon
<1> QED BY <1>2, <1>3

\* The qubits, of the first k, whose letter is one of these.
Sites(P, k, letters) == {x \in 0 .. k - 1 : P[x + 1] \in letters}
Strings(n) == [1 .. n -> Letters]

LEMMA SitesGrow ==
    ASSUME NEW n \in Nat, NEW P \in Strings(n), NEW k \in 1 .. n, NEW letters
    PROVE  /\ Sites(P, k - 1, letters) \in SUBSET (0 .. n - 1)
           /\ IsFiniteSet(Sites(P, k - 1, letters))
           /\ k - 1 \in 0 .. n - 1 /\ k - 1 \notin Sites(P, k - 1, letters)
           /\ P[k] \in letters => Sites(P, k, letters) = Sites(P, k - 1, letters) \cup {k - 1}
           /\ P[k] \notin letters => Sites(P, k, letters) = Sites(P, k - 1, letters)
<1> DEFINE q == k - 1
           S == Sites(P, q, letters)
           T == Sites(P, k, letters)
<1>1. q \in Nat /\ q \in 0 .. n - 1 /\ q + 1 = k
  OBVIOUS
<1>2. S \subseteq 0 .. q - 1
  BY DEF Sites
<1>3. S \in SUBSET (0 .. n - 1) /\ q \notin S
  <2> HIDE DEF S
  <2>1. \A x \in 0 .. q - 1 : x \in 0 .. n - 1 /\ x # q
    BY <1>1
  <2> HIDE DEF q
  <2> QED BY <1>2, <2>1
<1>4. IsFiniteSet(S)
  <2>1. IsFiniteSet(0 .. q - 1)
    BY <1>1, FS_Interval
  <2> HIDE DEF S
  <2> QED BY <1>2, <2>1, FS_Subset
<1>5. 0 .. k - 1 = (0 .. q - 1) \cup {q}
  BY <1>1
<1>6. T = {x \in 0 .. k - 1 : P[x + 1] \in letters} /\ S = {x \in 0 .. q - 1 : P[x + 1] \in letters}
  BY DEF Sites
<1>7. P[q + 1] = P[k]
  BY <1>1
<1> HIDE DEF q, S, T
<1>8. P[k] \in letters => T = S \cup {q}
  BY <1>5, <1>6, <1>7, Zenon
<1>9. P[k] \notin letters => T = S
  BY <1>5, <1>6, <1>7, Zenon
<1> QED BY <1>1, <1>3, <1>4, <1>8, <1>9 DEF q, S, T

Turned(P, k) == Phase(4 * Cardinality(Sites(P, k, {"Y"})))
Shifted(P, k, j) == Flip(j, Sites(P, k, {"X", "Y"}))
Parities(P, k, j) == Odd(Shifted(P, k, j), Sites(P, k, {"Y", "Z"}))

\* What the first k letters do to a state.
After(P, k, s) ==
    [j \in DOMAIN s |-> Times(Turned(P, k), Signed(Parities(P, k, j), s[Shifted(P, k, j)]))]

LEMMA OneMoreY ==
    ASSUME NEW n \in Nat, NEW P \in Strings(n), NEW k \in 1 .. n
    PROVE  /\ Turned(P, k - 1) \in Amplitude
           /\ P[k] = "Y" => Turned(P, k) = Times(Phase(4), Turned(P, k - 1))
           /\ P[k] # "Y" => Turned(P, k) = Turned(P, k - 1)
<1> DEFINE S == Sites(P, k - 1, {"Y"})
           T == Sites(P, k, {"Y"})
           a == Cardinality(S)
           b == Cardinality(T)
<1>1. /\ IsFiniteSet(S) /\ k - 1 \notin S
      /\ P[k] \in {"Y"} => T = S \cup {k - 1}
      /\ P[k] \notin {"Y"} => T = S
  BY SitesGrow, SMTT(20)
<1> HIDE DEF S, T
<1>2. a \in Nat
  BY <1>1, FS_CardinalityType
<1>3. P[k] = "Y" => b = a + 1
  <2> SUFFICES ASSUME P[k] = "Y" PROVE b = a + 1
    OBVIOUS
  <2>1. Cardinality(S \cup {k - 1}) = Cardinality(S) + 1
    BY <1>1, FS_AddElement
  <2> QED BY <1>1, <2>1
<1>4. P[k] # "Y" => b = a
  BY <1>1
<1>5. Turned(P, k - 1) = Phase(4 * a) /\ Turned(P, k) = Phase(4 * b)
  BY DEF Turned, S, T
<1> HIDE DEF a, b
<1>6. 4 * a \in Int /\ 4 \in Int
  BY <1>2
<1>7. Times(Phase(4), Phase(4 * a)) = Phase(4 + 4 * a) /\ Phase(4 * a) \in Amplitude
  BY <1>6, TurnsAdd, ConstantsType
<1>8. P[k] = "Y" => 4 * b = 4 + 4 * a
  BY <1>2, <1>3
<1> QED BY <1>4, <1>5, <1>7, <1>8

\* The index whose amplitude comes to j, before letter k and after.
LEMMA OneMoreLetter ==
    ASSUME Powers, NEW n \in Nat, NEW P \in Strings(n), NEW k \in 1 .. n, NEW j \in Indices(n)
    PROVE  LET p == P[k]
               q == k - 1
               o == Source(p, j, q) IN
           /\ Shifted(P, k, j) = Shifted(P, q, o) /\ Shifted(P, k, j) \in Indices(n)
           /\ Parities(P, q, o) \in BOOLEAN /\ Parities(P, k, j) \in BOOLEAN
           /\ p \in {"I", "X"} => (Parities(P, k, j) <=> Parities(P, q, o))
           /\ p = "Z" => (Parities(P, k, j) <=>
                            (IF BitOf(j, q) = 1 THEN ~Parities(P, q, o) ELSE Parities(P, q, o)))
           /\ p = "Y" => (Parities(P, k, j) <=>
                            (IF BitOf(j, q) = 0 THEN ~Parities(P, q, o) ELSE Parities(P, q, o)))
<1> DEFINE p == P[k]
           q == k - 1
           o == Source(p, j, q)
           X == Sites(P, q, {"X", "Y"})
           Y == Sites(P, k, {"X", "Y"})
           Z == Sites(P, q, {"Y", "Z"})
           W == Sites(P, k, {"Y", "Z"})
           f == Flip(o, X)
<1>0. \A letters :
        /\ Sites(P, k - 1, letters) \in SUBSET (0 .. n - 1)
        /\ IsFiniteSet(Sites(P, k - 1, letters))
        /\ k - 1 \in 0 .. n - 1 /\ k - 1 \notin Sites(P, k - 1, letters)
        /\ P[k] \in letters => Sites(P, k, letters) = Sites(P, k - 1, letters) \cup {k - 1}
        /\ P[k] \notin letters => Sites(P, k, letters) = Sites(P, k - 1, letters)
  BY SitesGrow
<1>1. /\ X \in SUBSET (0 .. n - 1) /\ q \notin X /\ IsFiniteSet(X) /\ q \in 0 .. n - 1
      /\ p \in {"X", "Y"} => Y = X \cup {q}
      /\ p \notin {"X", "Y"} => Y = X
  BY <1>0, Zenon
<1>2. /\ Z \in SUBSET (0 .. n - 1) /\ q \notin Z /\ IsFiniteSet(Z)
      /\ p \in {"Y", "Z"} => W = Z \cup {q}
      /\ p \notin {"Y", "Z"} => W = Z
  BY <1>0, Zenon
<1>3. p \in Letters
  BY DEF Strings
<1> HIDE DEF p, q, X, Y, Z, W
<1>4. /\ Toggled(j, q) \in Indices(n) /\ Flip(Toggled(j, q), X) = Flip(j, X \cup {q})
      /\ BitOf(Toggled(j, q), q) = 1 - BitOf(j, q)
  <2>1. Toggled(j, q) \in Indices(n) /\ Flip(Toggled(j, q), X) = Flip(j, X \cup {q})
    BY <1>1, ToggleFlip
  <2>2. BitOf(Toggled(j, q), q) = 1 - BitOf(j, q)
    BY <1>1, Toggles DEF Toggled
  <2> QED BY <2>1, <2>2
<1>5. BitOf(j, q) = 0 \/ BitOf(j, q) = 1
  <2>1. q \in Nat /\ n \in Nat
    BY <1>1
  <2>2. Indices(n) \in SUBSET Nat
    BY FiniteIndices
  <2>3. j \in Nat
    BY <2>2
  <2> QED BY <2>1, <2>3, BitIsOne
<1>6. /\ o \in Indices(n) /\ f = Flip(j, Y)
      /\ p \in {"X", "Y"} => BitOf(o, q) = 1 - BitOf(j, q)
      /\ p \notin {"X", "Y"} => o = j
  <2>1. CASE p \in {"X", "Y"}
    BY <1>1, <1>4, <2>1 DEF Source
  <2>2. CASE p \notin {"X", "Y"}
    BY <1>1, <2>2 DEF Source
  <2> QED BY <2>1, <2>2
<1> HIDE DEF o
<1>7. f \in Indices(n) /\ BitOf(f, q) = BitOf(o, q)
  BY <1>1, <1>6, FlipBits DEF Flips
<1> HIDE DEF f
<1>8. /\ Odd(f, Z) \in BOOLEAN
      /\ Set(f, q) => (Odd(f, Z \cup {q}) <=> ~Odd(f, Z))
      /\ ~Set(f, q) => (Odd(f, Z \cup {q}) <=> Odd(f, Z))
  BY <1>2, OddOneMore
<1>9. Set(f, q) <=> BitOf(f, q) = 1
  BY DEF Set, BitOf
<1>10. /\ Shifted(P, k, j) = f /\ Shifted(P, q, o) = f
       /\ (Parities(P, q, o) <=> Odd(f, Z)) /\ (Parities(P, k, j) <=> Odd(f, W))
       /\ Parities(P, q, o) \in BOOLEAN /\ Parities(P, k, j) \in BOOLEAN
  <2>1. Shifted(P, k, j) = f /\ Shifted(P, q, o) = f
    BY <1>6 DEF Shifted, X, Y, f
  <2> QED BY <2>1, Zenon DEF Parities, Z, W, Odd
<1>11. p \in {"I", "X"} => (Odd(f, W) <=> Odd(f, Z))
  BY <1>2
<1>12. p = "Z" => (Set(f, q) <=> BitOf(j, q) = 1)
  BY <1>6, <1>7, <1>9
<1>13. p = "Y" => (Set(f, q) <=> BitOf(j, q) = 0)
  BY <1>5, <1>6, <1>7, <1>9
<1>14. p \in {"Y", "Z"} => (Odd(f, W) <=> Odd(f, Z \cup {q}))
  BY <1>2
<1>15. p = "Z" => (Odd(f, W) <=> (IF BitOf(j, q) = 1 THEN ~Odd(f, Z) ELSE Odd(f, Z)))
  <2>1. p = "Z" => p \in {"Y", "Z"}
    OBVIOUS
  <2> QED BY <1>8, <1>12, <1>14, <2>1, Zenon
<1>16. p = "Y" => (Odd(f, W) <=> (IF BitOf(j, q) = 0 THEN ~Odd(f, Z) ELSE Odd(f, Z)))
  <2>1. p = "Y" => p \in {"Y", "Z"}
    OBVIOUS
  <2> QED BY <1>8, <1>13, <1>14, <2>1, Zenon
<1>17. /\ p \in {"I", "X"} => (Parities(P, k, j) <=> Parities(P, q, o))
       /\ p = "Z" => (Parities(P, k, j) <=>
                        (IF BitOf(j, q) = 1 THEN ~Parities(P, q, o) ELSE Parities(P, q, o)))
       /\ p = "Y" => (Parities(P, k, j) <=>
                        (IF BitOf(j, q) = 0 THEN ~Parities(P, q, o) ELSE Parities(P, q, o)))
  BY <1>10, <1>11, <1>15, <1>16, Zenon
<1>18. Shifted(P, k, j) = Shifted(P, q, o) /\ Shifted(P, k, j) \in Indices(n)
  BY <1>7, <1>10
<1> QED BY <1>10, <1>17, <1>18, Zenon DEF p, q, o

LEMMA AfterType ==
    ASSUME Powers, NEW n \in Nat, NEW P \in Strings(n), NEW k \in 0 .. n, NEW s, IsState(s, n)
    PROVE  /\ IsState(After(P, k, s), n)
           /\ k = 0 => After(P, k, s) = s
<1>1. Sites(P, 0, {"Y"}) = {} /\ Sites(P, 0, {"X", "Y"}) = {} /\ Sites(P, 0, {"Y", "Z"}) = {}
  BY DEF Sites
<1>2. DOMAIN s = Indices(n) /\ \A j \in Indices(n) : s[j] \in Amplitude
  BY DEF IsState
<1>3. After(P, k, s) = [j \in Indices(n) |->
          Times(Turned(P, k), Signed(Parities(P, k, j), s[Shifted(P, k, j)]))]
  BY <1>2 DEF After
<1>4. CASE k = 0
  <2>1. Turned(P, 0) = One
    <3>1. Cardinality({}) = 0
      BY FS_EmptySet
    <3>2. 4 * 0 = 0
      OBVIOUS
    <3>3. Turned(P, 0) = Phase(0)
      BY <1>1, <3>1, <3>2, Zenon DEF Turned
    <3> QED BY <3>3, FirstAngles
  <2>2. ASSUME NEW j \in Indices(n)
        PROVE  Times(Turned(P, 0), Signed(Parities(P, 0, j), s[Shifted(P, 0, j)])) = s[j]
    <3>1. {} \in SUBSET Nat /\ IsFiniteSet({})
      BY FS_EmptySet
    <3>2. j \in Nat
      BY FiniteIndices
    <3>3. j \in Int
      BY <3>2
    <3>4. Flip(j, {}) = j
      <4>1. \A M : M \in SUBSET Nat /\ IsFiniteSet(M) =>
                     Flip(j, M) = j + IntTotal(M, Turn(j)) /\ IntTotal(M, Turn(j)) \in Int
        BY <3>3, FlipIs
      <4>2. Flip(j, {}) = j + IntTotal({}, Turn(j))
        BY <3>1, <4>1
      <4>3. \A c, D : IsFiniteSet(D) /\ (\A x \in D : c[x] \in Int) => IntTotal({}, c) = 0
        BY IntTotals
      <4>4. IntTotal({}, Turn(j)) = 0
        BY <3>1, <4>3
      <4> QED BY <3>3, <4>2, <4>4
    <3>5. Shifted(P, 0, j) = j
      BY <1>1, <3>4 DEF Shifted
    <3>6. ~Parities(P, 0, j)
      BY <1>1, <3>5, OddOfTwo DEF Parities
    <3>7. Signed(Parities(P, 0, j), s[j]) = s[j]
      BY <3>6 DEF Signed
    <3>8. s[j] \in Amplitude
      BY <1>2
    <3>9. Times(One, s[j]) = s[j]
      BY <3>8, Units
    <3> QED BY <2>1, <3>5, <3>7, <3>9, Zenon
  <2>3. s = [j \in Indices(n) |-> s[j]]
    BY DEF IsState
  <2>4. After(P, k, s) = s
    BY <1>3, <1>4, <2>2, <2>3
  <2> QED BY <2>4
<1>5. CASE k # 0
  <2>1. k \in 1 .. n
    BY <1>5
  <2>2. Turned(P, k) \in Amplitude
    <3>1. Turned(P, k - 1) \in Amplitude
      BY <2>1, OneMoreY
    <3>2. Phase(4) \in Amplitude
      BY ConstantsType
    <3>3. Times(Phase(4), Turned(P, k - 1)) \in Amplitude
      BY <3>1, <3>2, ArithmeticType
    <3> QED BY <2>1, <3>1, <3>3, OneMoreY
  <2>3. ASSUME NEW j \in Indices(n)
        PROVE  Times(Turned(P, k), Signed(Parities(P, k, j), s[Shifted(P, k, j)])) \in Amplitude
    <3>1. Shifted(P, k, j) \in Indices(n) /\ Parities(P, k, j) \in BOOLEAN
      BY <2>1, OneMoreLetter
    <3>2. s[Shifted(P, k, j)] \in Amplitude
      BY <1>2, <3>1
    <3>3. Signed(Parities(P, k, j), s[Shifted(P, k, j)]) \in Amplitude
      BY <3>1, <3>2, SignedIs
    <3> QED BY <2>2, <3>3, ArithmeticType
  <2> QED BY <1>3, <1>5, <2>3 DEF IsState
<1> QED BY <1>4, <1>5

LEMMA AfterStep ==
    ASSUME Powers, NEW n \in Nat, NEW P \in Strings(n), NEW k \in 1 .. n, NEW s, IsState(s, n)
    PROVE  Promised!Acted(Promised!Pauli(P[k]), {}, k - 1, After(P, k - 1, s)) = After(P, k, s)
<1> DEFINE p == P[k]
           q == k - 1
           t == After(P, q, s)
           u == Promised!Acted(Promised!Pauli(p), {}, q, t)
<1>1. p \in Letters /\ q \in 0 .. n - 1 /\ q \in 0 .. n /\ k \in 0 .. n
  BY DEF Strings
<1>2. IsState(t, n)
  <2> HIDE DEF q
  <2> QED BY <1>1, AfterType
<1>3. DOMAIN s = Indices(n) /\ \A j \in Indices(n) : s[j] \in Amplitude
  BY DEF IsState
<1>4. DOMAIN t = Indices(n)
  BY <1>2 DEF IsState
<1>5. ASSUME NEW j \in Indices(n)
      PROVE  u[j] = Times(Turned(P, k), Signed(Parities(P, k, j), s[Shifted(P, k, j)]))
  <2> DEFINE o == Source(p, j, q)
             w == Weight(p, BitOf(j, q))
             f == Shifted(P, k, j)
             odd == Parities(P, q, o)
             more == Parities(P, k, j)
             a == s[f]
             before1 == Turned(P, q)
             now == Turned(P, k)
             i == Phase(4)
  <2>1. o \in Indices(n) /\ u[j] = Times(w, t[o])
    BY <1>1, <1>2, PauliRow
  <2>2. /\ f = Shifted(P, q, o) /\ f \in Indices(n) /\ odd \in BOOLEAN /\ more \in BOOLEAN
        /\ p \in {"I", "X"} => (more <=> odd)
        /\ p = "Z" => (more <=> (IF BitOf(j, q) = 1 THEN ~odd ELSE odd))
        /\ p = "Y" => (more <=> (IF BitOf(j, q) = 0 THEN ~odd ELSE odd))
    BY OneMoreLetter
  <2>3. t[o] = Times(before1, Signed(odd, s[Shifted(P, q, o)]))
    BY <1>3, <2>1 DEF After
  <2>4. t[o] = Times(before1, Signed(odd, a))
    BY <2>2, <2>3, Zenon
  <2>5. /\ before1 \in Amplitude
        /\ p = "Y" => now = Times(i, before1)
        /\ p # "Y" => now = before1
    BY OneMoreY
  <2>6. a \in Amplitude /\ i \in Amplitude
    BY <1>3, <2>2, ConstantsType
  <2> HIDE DEF p, q, o, w, f, odd, more, a, before1, now, i
  <2>7. Signed(odd, a) \in Amplitude
    BY <2>2, <2>6, SignedIs
  <2>8. Times(before1, Signed(odd, a)) \in Amplitude
    BY <2>5, <2>7, ArithmeticType
  <2>9. CASE p \in {"I", "X"}
    <3>1. w = One
      BY <2>9 DEF w, Weight
    <3>2. u[j] = Times(before1, Signed(odd, a))
      BY <2>1, <2>4, <2>8, <3>1, Units
    <3>3. more = odd /\ now = before1
      BY <2>2, <2>5, <2>9
    <3>4. u[j] = Times(now, Signed(more, a))
      BY <3>2, <3>3, Zenon
    <3> QED BY <3>4 DEF now, more, a, f
  <2>10. CASE p = "Z"
    <3> DEFINE b == BitOf(j, q) = 1
    <3>1. w = Sign(b)
      BY <2>10 DEF w, Weight
    <3>2. Sign(b) \in Amplitude /\ b \in BOOLEAN
      BY SignedIs, <2>6
    <3>3. now = before1
      BY <2>5, <2>10
    <3>4. more <=> (IF b THEN ~odd ELSE odd)
      BY <2>2, <2>10
    <3> HIDE DEF b
    <3>5. Times(Sign(b), Signed(odd, a)) = Signed(more, a)
      BY <2>2, <2>6, <3>2, <3>4, SignsMeet
    <3>6. Times(Sign(b), Times(before1, Signed(odd, a)))
          = Times(before1, Times(Sign(b), Signed(odd, a)))
      <4>1. {i, Sign(b), before1, Signed(odd, a)} \subseteq Amplitude
        BY <2>5, <2>6, <2>7, <3>2
      <4> QED BY <4>1, FactorsMove
    <3>7. u[j] = Times(now, Signed(more, a))
      BY <2>1, <2>4, <3>1, <3>3, <3>5, <3>6, Zenon
    <3> QED BY <3>7 DEF now, more, a, f
  <2>11. CASE p = "Y"
    <3> DEFINE b == BitOf(j, q) = 0
    <3>1. w = Times(i, Sign(b))
      BY <2>11 DEF w, Weight, i
    <3>2. Sign(b) \in Amplitude /\ b \in BOOLEAN
      BY SignedIs, <2>6
    <3>3. now = Times(i, before1)
      BY <2>5, <2>11
    <3>4. more <=> (IF b THEN ~odd ELSE odd)
      BY <2>2, <2>11
    <3> HIDE DEF b
    <3>5. Times(Sign(b), Signed(odd, a)) = Signed(more, a)
      BY <2>2, <2>6, <3>2, <3>4, SignsMeet
    <3>6. Times(Times(i, Sign(b)), Times(before1, Signed(odd, a)))
          = Times(Times(i, before1), Times(Sign(b), Signed(odd, a)))
      <4>1. {i, Sign(b), before1, Signed(odd, a)} \subseteq Amplitude
        BY <2>5, <2>6, <2>7, <3>2
      <4> QED BY <4>1, FactorsMove
    <3>7. u[j] = Times(now, Signed(more, a))
      BY <2>1, <2>4, <3>1, <3>3, <3>5, <3>6, Zenon
    <3> QED BY <3>7 DEF now, more, a, f
  <2> QED BY <1>1, <2>9, <2>10, <2>11 DEF Letters
<1>6. u = [j \in Indices(n) |-> u[j]]
  <2>1. DOMAIN u = Indices(n)
    BY <1>4 DEF Promised!Acted
  <2>2. u = [j \in DOMAIN u |-> u[j]]
    BY DEF Promised!Acted
  <2> QED BY <2>1, <2>2
<1> HIDE DEF u
<1>7. u = After(P, k, s)
  BY <1>3, <1>5, <1>6 DEF After
<1> QED BY <1>7 DEF u, t, p, q

\* All the letters of a string, on a state.
LEMMA PauliActs ==
    ASSUME Powers, NEW n \in Nat, NEW P \in Strings(n), NEW s, IsState(s, n)
    PROVE  PauliActed(P, s) = After(P, n, s)
<1> DEFINE seq == [k \in DOMAIN P |-> k]
           V == [Indices(n) -> Amplitude]
           base == s
           whole == PauliActed(P, s)
           Next1(t, k) == Computed(Promised!Acted(Promised!Pauli(P[seq[k]]), {}, seq[k] - 1, t))
           F(it) == [S \in SUBSET (1 .. n) |->
                       IF S = {} THEN base ELSE Next1(it[S \ {Max(S)}], Max(S))]
<1>1. base \in V
  BY DEF IsState
<1>2. \A t \in V, k \in 1 .. n :
        Next1(t, k) \in V /\ Next1(t, k) = Promised!Acted(Promised!Pauli(P[k]), {}, k - 1, t)
  <2> SUFFICES ASSUME NEW t \in V, NEW k \in 1 .. n
               PROVE  /\ Next1(t, k) \in V
                      /\ Next1(t, k) = Promised!Acted(Promised!Pauli(P[k]), {}, k - 1, t)
    OBVIOUS
  <2> DEFINE m == Promised!Pauli(P[k])
             u == Promised!Acted(m, {}, k - 1, t)
  <2>1. seq[k] = k
    BY DEF Strings
  <2>2. k - 1 \in 0 .. n - 1 /\ IsState(t, n)
    BY DEF IsState
  <2>3. Entries(m)
    <3>1. P[k] \in {"I", "X", "Y", "Z"}
      BY DEF Strings, Letters
    <3>2. {Zero, One, Complex(0, -1), Complex(0, 1), Complex(-1, 0)} \subseteq Amplitude
      BY ComplexType, ConstantsType
    <3> QED BY <3>1, <3>2, PauliEntries DEF Entries, XMatrix, YMatrix, ZMatrix
  <2> HIDE DEF m
  <2>4. IsState(u, n)
    BY <2>2, <2>3, ActedType
  <2> HIDE DEF u
  <2>5. u # <<>>
    BY <2>4, NotNothing
  <2>6. Computed(u) = u
    BY <2>5, ComputedIs
  <2>7. Next1(t, k) = Computed(u)
    BY <2>1 DEF u, m
  <2> HIDE DEF Next1
  <2>8. Next1(t, k) = u
    BY <2>6, <2>7
  <2> QED BY <2>4, <2>8 DEF IsState, u, m
<1>3. whole = (CHOOSE it : it = F(it))[1 .. n]
  <2>1. DOMAIN seq = 1 .. n
    BY DEF Strings
  <2> QED BY <2>1 DEF PauliActed, FoldLeft, MapThenFoldSet
<1> HIDE DEF seq, V, base, Next1, whole
<1>4. \E it : it = F(it)
  <2> DEFINE step == [p \in V \X (1 .. n) |-> Next1(p[1], p[2])]
  <2>1. \A d \in V, k \in 1 .. n : step[<<d, k>>] = Next1(d, k)
    OBVIOUS
  <2> HIDE DEF step
  <2>2. PICK it : Folds(it, n, base, step, V)
    <3>1. \A d \in V, k \in 1 .. n : step[<<d, k>>] \in V
      BY <1>2, <2>1
    <3> QED BY <1>1, <3>1, FoldExists
  <2>3. /\ it \in [SUBSET (1 .. n) -> V]
        /\ \A S \in SUBSET (1 .. n) :
              it[S] = IF S = {} THEN base ELSE step[<<it[S \ {Max(S)}], Max(S)>>]
    BY <2>2 DEF Folds
  <2>4. ASSUME NEW S \in SUBSET (1 .. n)
        PROVE  it[S] = IF S = {} THEN base ELSE Next1(it[S \ {Max(S)}], Max(S))
    <3>1. CASE S # {}
      <4>1. Max(S) \in 1 .. n /\ it[S \ {Max(S)}] \in V
        BY <2>3, <3>1, Greatest
      <4> QED BY <2>1, <2>3, <3>1, <4>1
    <3> QED BY <2>3, <3>1
  <2>5. it = F(it)
    BY <2>3, <2>4
  <2> QED BY <2>5
<1>5. PICK it : it = F(it) /\ whole = it[1 .. n]
  BY <1>3, <1>4
<1>6. it[{}] = base
  BY <1>5
<1>7. ASSUME NEW k \in 1 .. n PROVE it[1 .. k] = Next1(it[1 .. k - 1], k)
  <2>1. Max(1 .. k) = k /\ (1 .. k) \ {k} = 1 .. k - 1
    BY PartOfAll, GreatestOfAll
  <2>2. 1 .. k \in SUBSET (1 .. n) /\ 1 .. k # {}
    BY PartOfAll
  <2> QED BY <1>5, <2>1, <2>2
<1> DEFINE f == [k \in 0 .. n |-> it[1 .. k]]
<1>8. f[0] = base /\ f[n] = whole
  <2>1. 1 .. 0 = {} /\ 0 \in 0 .. n /\ n \in 0 .. n
    OBVIOUS
  <2> QED BY <1>5, <1>6, <2>1
<1>9. \A k \in 1 .. n : f[k] = Next1(f[k - 1], k)
  <2>1. \A k \in 1 .. n : k - 1 \in 0 .. n /\ k \in 0 .. n
    OBVIOUS
  <2> QED BY <1>7, <2>1
<1> HIDE DEF f
<1> DEFINE T == {k \in 0 .. n : f[k] = After(P, k, s)}
<1>10. 0 \in T
  <2>1. 0 \in 0 .. n
    OBVIOUS
  <2>2. After(P, 0, s) = s
    BY <2>1, AfterType
  <2> QED BY <1>8, <2>1, <2>2 DEF base
<1>11. ASSUME NEW k \in 1 .. n, k - 1 \in T PROVE k \in T
  <2>1. f[k - 1] = After(P, k - 1, s) /\ k - 1 \in 0 .. n /\ k \in 0 .. n
    BY <1>11
  <2>2. IsState(After(P, k - 1, s), n)
    BY <2>1, AfterType
  <2>3. f[k - 1] \in V
    BY <2>1, <2>2 DEF V, IsState
  <2>4. f[k] = Promised!Acted(Promised!Pauli(P[k]), {}, k - 1, After(P, k - 1, s))
    BY <1>2, <1>9, <2>1, <2>3
  <2>5. f[k] = After(P, k, s)
    BY <2>4, AfterStep
  <2> QED BY <2>1, <2>5
<1>12. \A k \in 0 .. n : k \in T
  <2> HIDE DEF T
  <2> QED BY <1>10, <1>11, Climb
<1>13. f[n] = After(P, n, s)
  BY <1>12
<1> QED BY <1>8, <1>13 DEF whole

-----------------------------------------------------------------------------
(* Sums of amplitudes *)

LEMMA AmpTotals ==
    ASSUME NEW D, NEW c, IsFiniteSet(D), \A x \in D : c[x] \in Amplitude
    PROVE  /\ AmpTotal(D, c) \in Amplitude /\ AmpTotal({}, c) = Zero
           /\ \A x \in D : AmpTotal(D, c) = Plus(AmpTotal(D \ {x}, c), c[x])
<1>1. /\ AmpTotal(D, c) \in Amplitude /\ AmpTotal({}, c) = Zero
      /\ \A x \in D : AmpTotal(D, c) = AmpAdd[<<AmpTotal(D \ {x}, c), c[x]>>]
  BY TotalFacts, Additions DEF AmpTotal
<1>2. \A x \in D : AmpTotal(D \ {x}, c) \in Amplitude
  <2> SUFFICES ASSUME NEW x \in D PROVE AmpTotal(D \ {x}, c) \in Amplitude
    OBVIOUS
  <2>1. IsFiniteSet(D \ {x}) /\ \A y \in D \ {x} : c[y] \in Amplitude
    BY FS_RemoveElement
  <2> QED BY <2>1, TotalFacts, Additions DEF AmpTotal
<1> QED BY <1>1, <1>2, Additions

\* A common factor, taken out.
LEMMA AmpScaled ==
    ASSUME NEW D, NEW c, NEW d, NEW f \in Amplitude, IsFiniteSet(D),
           \A x \in D : c[x] \in Amplitude /\ d[x] = Times(f, c[x])
    PROVE  AmpTotal(D, d) = Times(f, AmpTotal(D, c)) /\ AmpTotal(D, c) \in Amplitude
<1> DEFINE G == {T \in SUBSET D : AmpTotal(T, d) = Times(f, AmpTotal(T, c))}
<1>1. \A x \in D : c[x] \in Amplitude /\ d[x] \in Amplitude
  BY ArithmeticType
<1>2. ASSUME NEW T \in SUBSET D
      PROVE  /\ AmpTotal(T, c) \in Amplitude /\ AmpTotal({}, c) = Zero
             /\ \A x \in T : AmpTotal(T, c) = Plus(AmpTotal(T \ {x}, c), c[x])
             /\ AmpTotal(T, d) \in Amplitude /\ AmpTotal({}, d) = Zero
             /\ \A x \in T : AmpTotal(T, d) = Plus(AmpTotal(T \ {x}, d), d[x])
  <2>1. /\ IsFiniteSet(T)
        /\ \A x \in T : c[x] \in Amplitude
        /\ \A x \in T : d[x] \in Amplitude
    BY <1>1, FS_Subset
  <2> QED BY <2>1, AmpTotals
<1>3. {} \in G
  <2>1. AmpTotal({}, c) = Zero /\ AmpTotal({}, d) = Zero
    BY <1>2
  <2>2. Times(f, Zero) = Zero
    BY Units
  <2> QED BY <2>1, <2>2
<1>4. ASSUME NEW T \in SUBSET D, T # {}, \A x \in T : T \ {x} \in G
      PROVE  T \in G
  <2>1. PICK x \in T : TRUE
    BY <1>4
  <2> DEFINE R == T \ {x}
  <2>2. R \in G /\ R \in SUBSET D
    BY <1>4
  <2>3. AmpTotal(R, d) = Times(f, AmpTotal(R, c)) /\ AmpTotal(R, c) \in Amplitude
    BY <1>2, <2>2
  <2>4. AmpTotal(T, c) = Plus(AmpTotal(R, c), c[x]) /\ AmpTotal(T, d) = Plus(AmpTotal(R, d), d[x])
    BY <1>2
  <2>5. c[x] \in Amplitude /\ d[x] = Times(f, c[x])
    OBVIOUS
  <2> HIDE DEF R
  <2>6. Times(f, Plus(AmpTotal(R, c), c[x])) = Plus(Times(f, AmpTotal(R, c)), Times(f, c[x]))
    BY <2>3, <2>5, Distributive
  <2>7. AmpTotal(T, d) = Times(f, AmpTotal(T, c))
    BY <2>3, <2>4, <2>5, <2>6, Zenon
  <2> QED BY <2>7
<1>5. \A T \in SUBSET D : T \in G
  <2> HIDE DEF G
  <2> QED BY <1>3, <1>4, Subsets
<1>6. D \in SUBSET D
  OBVIOUS
<1> QED BY <1>2, <1>5, <1>6

LEMMA AmpReordered ==
    ASSUME NEW D, NEW c, NEW d, NEW h, IsFiniteSet(D),
           \A x \in D : c[x] \in Amplitude /\ d[x] = c[h[x]] /\ h[x] \in D,
           \A x, y \in D : h[x] = h[y] => x = y, \A y \in D : \E x \in D : h[x] = y
    PROVE  AmpTotal(D, d) = AmpTotal(D, c)
<1> DEFINE V == Amplitude
           add == AmpAdd
           zero == Zero
<1>1. (\A x \in D : c[x] \in V /\ d[x] = c[h[x]] /\ h[x] \in D) /\ Adds(V, add, zero)
  BY Additions
<1>2. /\ AmpTotal(D, c) = Total(D, c, V, add, zero)
      /\ AmpTotal(D, d) = Total(D, d, V, add, zero)
  BY DEF AmpTotal
<1> HIDE DEF V, add, zero
<1>3. Total(D, d, V, add, zero) = Total(D, c, V, add, zero)
  BY <1>1, TotalReordered
<1> QED BY <1>2, <1>3

-----------------------------------------------------------------------------
(* The masks of a string *)

LEMMA DenseIs ==
    ASSUME NEW n \in Nat, NEW P \in Strings(n), NEW coeff
    PROVE  LET m == Dense(coeff, P) IN
           /\ m.coeff = coeff /\ m.ny = Cardinality(Sites(P, n, {"Y"}))
           /\ m.x = Sites(P, n, {"X", "Y"}) /\ m.z = Sites(P, n, {"Y", "Z"})
<1> DEFINE K == {i \in DOMAIN P : P[i] # "I"}
           F == {<<P[k], k - 1>> : k \in K}
           on(L) == {f[2] : f \in {g \in F : g[1] \in L}}
<1>1. DOMAIN P = 1 .. n
  BY DEF Strings
<1>2. ASSUME NEW L, "I" \notin L
      PROVE  on(L) = Sites(P, n, L)
  <2>1. ASSUME NEW y \in on(L) PROVE y \in Sites(P, n, L)
    <3>1. PICK f \in F : f[1] \in L /\ y = f[2]
      OBVIOUS
    <3>2. PICK k \in K : f = <<P[k], k - 1>>
      OBVIOUS
    <3>3. k \in 1 .. n /\ P[k] \in L /\ y = k - 1
      BY <1>1, <3>1, <3>2
    <3>4. y \in 0 .. n - 1 /\ y + 1 = k
      BY <3>3
    <3> QED BY <3>3, <3>4 DEF Sites
  <2>2. ASSUME NEW y \in Sites(P, n, L) PROVE y \in on(L)
    <3> DEFINE k == y + 1
               f == <<P[k], k - 1>>
    <3>1. y \in 0 .. n - 1 /\ P[k] \in L
      BY DEF Sites
    <3>2. k \in 1 .. n /\ k - 1 = y
      BY <3>1
    <3>3. P[k] # "I"
      BY <1>2, <3>1
    <3>4. k \in K
      BY <1>1, <3>2, <3>3
    <3>5. f \in F
      BY <3>4
    <3>6. f[1] \in L /\ f[2] = y
      BY <3>1, <3>2
    <3> HIDE DEF f, F
    <3> QED BY <3>5, <3>6
  <2> HIDE DEF on
  <2> QED BY <2>1, <2>2
<1>3. /\ on({"X", "Y"}) = Sites(P, n, {"X", "Y"}) /\ on({"Y", "Z"}) = Sites(P, n, {"Y", "Z"})
      /\ on({"Y"}) = Sites(P, n, {"Y"})
  <2>1. "I" \notin {"X", "Y"} /\ "I" \notin {"Y", "Z"} /\ "I" \notin {"Y"}
    OBVIOUS
  <2> HIDE DEF on
  <2> QED BY <1>2, <2>1
<1>4. Dense(coeff, P) = [coeff |-> coeff, x |-> on({"X", "Y"}), z |-> on({"Y", "Z"}),
                         ny |-> Cardinality(on({"Y"}))]
  BY DEF Dense, Mask
<1> HIDE DEF on
<1> QED BY <1>3, <1>4

-----------------------------------------------------------------------------
(* The cost of an outcome *)

LEMMA OneLower ==
    ASSUME NEW S \in SUBSET Nat, IsFiniteSet(S), NEW T, T = {k - 1 : k \in S}
    PROVE  IsFiniteSet(T) /\ Cardinality(T) = Cardinality(S)
<1> DEFINE f == [k \in S |-> k - 1]
<1>1. \A k, l \in S : k - 1 = l - 1 => k = l
  OBVIOUS
<1>2. f \in Bijection(S, T)
  BY <1>1 DEF Bijection, Injection, Surjection, IsInjective
<1>3. ExistsBijection(S, T)
  BY <1>2 DEF ExistsBijection
<1> QED BY <1>3, FS_Bijection

\* A string of Z and I turns an outcome by the parity of its mask.
LEMMA ParityIsEigenvalue ==
    ASSUME NEW n \in Nat, NEW P \in Strings(n), NEW coeff, Dense(coeff, P).x = {}, NEW j
    PROVE  Eigenvalue(P, j) = IF Odd(j, Dense(coeff, P).z) THEN -1 ELSE 1
<1> DEFINE ones == {k \in DOMAIN P : P[k] = "Z" /\ Promised!Bit(j, k - 1) = 1}
           z == Sites(P, n, {"Y", "Z"})
           on == {q \in z : Set(j, q)}
<1>1. Dense(coeff, P).z = z /\ Sites(P, n, {"X", "Y"}) = {}
  BY DenseIs
<1>2. DOMAIN P = 1 .. n /\ \A k \in 1 .. n : k - 1 \in 0 .. n - 1 /\ (k - 1) + 1 = k
  BY DEF Strings
<1>3. \A q : Promised!Bit(j, q) = 1 <=> Set(j, q)
  BY DEF Promised!Bit, Set
<1>4. ones \in SUBSET Nat /\ IsFiniteSet(ones)
  <2>1. ones \subseteq 1 .. n /\ 1 .. n \in SUBSET Nat
    BY <1>2
  <2>2. IsFiniteSet(1 .. n)
    BY FS_Interval
  <2> HIDE DEF ones
  <2> QED BY <2>1, <2>2, FS_Subset
<1>5. on = {k - 1 : k \in ones}
  <2>1. ASSUME NEW q \in on PROVE q \in {k - 1 : k \in ones}
    <3>1. q \in 0 .. n - 1 /\ P[q + 1] \in {"Y", "Z"} /\ Set(j, q)
      BY DEF Sites
    <3>2. P[q + 1] # "Y"
      <4>1. q \notin Sites(P, n, {"X", "Y"})
        BY <1>1
      <4> QED BY <3>1, <4>1 DEF Sites
    <3>3. q + 1 \in 1 .. n /\ (q + 1) - 1 = q
      BY <3>1
    <3>4. P[q + 1] = "Z" /\ Promised!Bit(j, (q + 1) - 1) = 1
      BY <1>3, <3>1, <3>2, <3>3
    <3>5. q + 1 \in ones
      BY <1>2, <3>3, <3>4
    <3> HIDE DEF ones
    <3> QED BY <3>3, <3>5
  <2>2. ASSUME NEW k \in ones PROVE k - 1 \in on
    <3>1. k \in 1 .. n /\ P[k] = "Z" /\ Set(j, k - 1)
      BY <1>2, <1>3
    <3>2. k - 1 \in 0 .. n - 1 /\ P[(k - 1) + 1] = "Z"
      BY <1>2, <3>1
    <3>3. k - 1 \in z
      BY <3>2 DEF Sites
    <3> QED BY <3>1, <3>3
  <2> HIDE DEF on, ones
  <2> QED BY <2>1, <2>2
<1>6. Cardinality(on) = Cardinality(ones)
  <2> HIDE DEF on, ones
  <2> QED BY <1>4, <1>5, OneLower
<1>7. Eigenvalue(P, j) = IF Cardinality(ones) % 2 = 1 THEN -1 ELSE 1
  BY DEF Eigenvalue
<1>8. Odd(j, z) <=> Cardinality(on) % 2 = 1
  BY DEF Odd
<1> HIDE DEF on, ones, z
<1> QED BY <1>1, <1>6, <1>7, <1>8

\* The documented value, a sum over the strings of a cost.
LEMMA ValueFold ==
    ASSUME NEW terms, Len(terms) \in Nat, DOMAIN terms = 1 .. Len(terms), NEW j,
           \A x \in 1 .. Len(terms) : terms[x].coeff * Eigenvalue(terms[x].paulis, j) \in Int
    PROVE  FoldLeft(LAMBDA v, t : v + t.coeff * Eigenvalue(t.paulis, j), 0, terms)
             = IntTotal(1 .. Len(terms), [x \in 1 .. Len(terms) |->
                   terms[x].coeff * Eigenvalue(terms[x].paulis, j)])
<1> DEFINE N == Len(terms)
           c == [x \in 1 .. Len(terms) |-> terms[x].coeff * Eigenvalue(terms[x].paulis, j)]
           whole == FoldLeft(LAMBDA v, t : v + t.coeff * Eigenvalue(t.paulis, j), 0, terms)
           then(s, x) == s + terms[x].coeff * Eigenvalue(terms[x].paulis, j)
           one(T) == Max(T)
           F(it) == [T \in SUBSET (1 .. N) |->
                       IF T = {} THEN 0 ELSE then(it[T \ {one(T)}], one(T))]
<1>0. N \in Nat
  OBVIOUS
<1>1. IsFiniteSet(1 .. N) /\ \A x \in 1 .. N : c[x] \in Int
  <2>1. IsFiniteSet(1 .. N)
    BY <1>0, FS_Interval
  <2>2. \A x \in 1 .. N : c[x] \in Int
    OBVIOUS
  <2> QED BY <2>1, <2>2
<1>2. whole = (CHOOSE it : it = F(it))[1 .. N]
  BY DEF FoldLeft, MapThenFoldSet
<1>3. \A s \in Int, x \in 1 .. N : then(s, x) = IntAdd[<<s, c[x]>>]
  BY <1>1, Additions
<1>p. \A T \in SUBSET (1 .. N) : T # {} =>
         /\ one(T) \in T /\ one(T) \in 1 .. N /\ T \ {one(T)} \in SUBSET (1 .. N)
         /\ Topmost(N)[T] = one(T)
  BY <1>0, Orders
<1> HIDE DEF c, whole, then, one, N
<1>4. PICK sum : /\ IsSum(sum, 1 .. N, c, Int, IntAdd, 0) /\ IntTotal(1 .. N, c) = sum[1 .. N]
  BY <1>1, HaveSums
<1>5. sum = F(sum)
  <2>1. ASSUME NEW T \in SUBSET (1 .. N)
        PROVE  sum[T] = IF T = {} THEN 0 ELSE then(sum[T \ {one(T)}], one(T))
    <3>1. CASE T # {}
      <4>1. one(T) \in T /\ one(T) \in 1 .. N /\ T \ {one(T)} \in SUBSET (1 .. N)
        BY <1>p, <3>1
      <4>2. /\ sum[T \ {one(T)}] \in Int
            /\ sum[T] = IntAdd[<<sum[T \ {one(T)}], c[one(T)]>>]
        BY <1>4, <4>1 DEF IsSum
      <4> QED BY <1>3, <3>1, <4>1, <4>2
    <3>2. CASE T = {}
      BY <1>4, <3>2 DEF IsSum
    <3> QED BY <3>1, <3>2
  <2>2. sum = [T \in SUBSET (1 .. N) |-> sum[T]]
    BY <1>4 DEF IsSum
  <2> QED BY <2>1, <2>2
<1>6. PICK it : it = F(it) /\ whole = it[1 .. N]
  BY <1>2, <1>5
<1>7. Collects(it, 1 .. N, c, Int, IntAdd, 0, Topmost(N))
  <2>1. it[{}] = 0
    BY <1>6
  <2>2. ASSUME NEW T \in SUBSET (1 .. N), T # {}, it[T \ {Topmost(N)[T]}] \in Int
        PROVE  it[T] = IntAdd[<<it[T \ {Topmost(N)[T]}], c[Topmost(N)[T]]>>]
    <3>1. Topmost(N)[T] = one(T) /\ one(T) \in 1 .. N
      BY <1>p, <2>2
    <3>2. it[T] = then(it[T \ {one(T)}], one(T))
      BY <1>6, <2>2
    <3> QED BY <1>3, <2>2, <3>1, <3>2
  <2>3. \A T \in SUBSET (1 .. N) : T # {} => Topmost(N)[T] \in T
    BY <1>p
  <2> QED BY <2>1, <2>2, <2>3 DEF Collects
<1>8. it[1 .. N] = sum[1 .. N]
  <2>1. 1 .. N \in SUBSET (1 .. N)
    OBVIOUS
  <2> QED BY <1>1, <1>4, <1>7, <2>1, SumIs
<1> QED BY <1>4, <1>6, <1>8 DEF c, whole, N

LEMMA StringsValue ==
    ASSUME NEW o, IsCost(o), o.what = "pauli_terms", IsDiagonal(Masks(o)), NEW j
    PROVE  CostValue(o, j) \in Int /\ DiagonalCost(Masks(o), j) = CostValue(o, j)
<1> DEFINE n == o.n
           terms == o.terms
           masks == Masks(o)
           N == Len(terms)
           T == [coeff : Int, paulis : [1 .. o.n -> {"I", "X", "Y", "Z"}]]
           documented == [x \in 1 .. N |-> terms[x].coeff * Eigenvalue(terms[x].paulis, j)]
           coded == [x \in 1 .. Len(masks) |->
                       IF Odd(j, masks[x].z) THEN -masks[x].coeff ELSE masks[x].coeff]
<1>1. n \in Nat /\ terms \in Seq(T)
  BY RuntimeAssumption DEF IsCost, IsHamiltonian
<1>2. masks = [k \in DOMAIN terms |-> Dense(terms[k].coeff, terms[k].paulis)]
  BY DEF Masks
<1>3. \A t \in T : t.coeff \in Int /\ t.paulis \in Strings(n)
  BY DEF Strings, Letters
<1> HIDE DEF T, n
<1>4. N \in Nat /\ DOMAIN terms = 1 .. N /\ \A x \in 1 .. N : terms[x] \in T
  BY <1>1
<1>5. Len(masks) = N /\ DOMAIN masks = 1 .. N
  BY <1>2, <1>4
<1>6. ASSUME NEW x \in 1 .. N
      PROVE  /\ masks[x].coeff \in Int /\ terms[x].coeff * Eigenvalue(terms[x].paulis, j) \in Int
             /\ terms[x].coeff * Eigenvalue(terms[x].paulis, j)
                  = IF Odd(j, masks[x].z) THEN -masks[x].coeff ELSE masks[x].coeff
  <2> DEFINE P == terms[x].paulis
             c == terms[x].coeff
             odd == Odd(j, Dense(c, P).z)
  <2>1. c \in Int /\ P \in Strings(n)
    BY <1>3, <1>4
  <2>2. masks[x] = Dense(c, P)
    BY <1>2, <1>4
  <2>3. Dense(c, P).x = {}
    BY <1>5, <2>2 DEF IsDiagonal
  <2>4. Dense(c, P).coeff = c
    BY <1>1, <2>1, DenseIs
  <2>5. Eigenvalue(P, j) = IF odd THEN -1 ELSE 1
    BY <1>1, <2>1, <2>3, ParityIsEigenvalue
  <2>6. odd \in BOOLEAN
    BY DEF Odd
  <2> HIDE DEF masks, P, c, odd
  <2>7. /\ c * Eigenvalue(P, j) \in Int
        /\ c * Eigenvalue(P, j) = IF odd THEN -c ELSE c
    BY <2>1, <2>5, <2>6
  <2> QED BY <2>1, <2>2, <2>4, <2>7, Zenon DEF P, c, odd
<1>7. IsFiniteSet(1 .. N)
  BY <1>4, FS_Interval
<1>8. DiagonalCost(masks, j) = IntTotal(1 .. Len(masks), coded)
  <2> DEFINE m == masks
  <2>1. Len(m) \in Nat /\ DOMAIN m = 1 .. Len(m) /\ \A x \in 1 .. Len(m) : m[x].coeff \in Int
    BY <1>4, <1>5, <1>6
  <2> HIDE DEF m
  <2>2. DiagonalCost(m, j) = IntTotal(1 .. Len(m), [x \in 1 .. Len(m) |->
                                IF Odd(j, m[x].z) THEN -m[x].coeff ELSE m[x].coeff])
    BY <2>1, CostFold
  <2> QED BY <2>2, Zenon DEF m
<1>9. CostValue(o, j) = IntTotal(1 .. N, documented)
  <2> DEFINE t == terms
  <2>1. /\ Len(t) \in Nat /\ DOMAIN t = 1 .. Len(t)
        /\ \A x \in 1 .. Len(t) : t[x].coeff * Eigenvalue(t[x].paulis, j) \in Int
    BY <1>4, <1>6
  <2> HIDE DEF t
  <2>2. FoldLeft(LAMBDA v, s : v + s.coeff * Eigenvalue(s.paulis, j), 0, t)
          = IntTotal(1 .. Len(t), [x \in 1 .. Len(t) |->
                        t[x].coeff * Eigenvalue(t[x].paulis, j)])
    BY <2>1, ValueFold
  <2>3. CostValue(o, j) = FoldLeft(LAMBDA v, s : v + s.coeff * Eigenvalue(s.paulis, j), 0, o.terms)
    BY DEF CostValue
  <2> QED BY <2>2, <2>3, Zenon DEF t
<1>10. \A x \in 1 .. N : documented[x] \in Int /\ coded[x] = documented[x]
  BY <1>5, <1>6
<1> HIDE DEF documented, coded, masks, N
<1>11. IntTotal(1 .. N, coded) = IntTotal(1 .. N, documented) /\ IntTotal(1 .. N, documented) \in Int
  BY <1>7, <1>10, IntSame, IntTotals
<1>12. DiagonalCost(masks, j) = CostValue(o, j) /\ CostValue(o, j) \in Int
  BY <1>5, <1>8, <1>9, <1>11
<1> QED BY <1>12 DEF masks

LEMMA CutsValue ==
    ASSUME NEW o, IsCost(o), o.what = "maxcut", NEW j
    PROVE  CostValue(o, j) \in Int /\ DiagonalCost(Masks(o), j) = CostValue(o, j)
<1> DEFINE n == o.n
           e == o.edges
           c == o.constant
           whole == FoldLeft(LAMBDA w, x : w + x.w, 0, e)
           rest == IF c THEN 0 ELSE whole \div 2
           weight == [x \in 1 .. Len(e) |-> e[x].w]
<1>1. n \in Nat /\ e \in Seq(Edges(n)) /\ c \in BOOLEAN
  BY RuntimeAssumption DEF IsCost, Edges
<1>2. Masks(o) = Maxcut(n, e, c)
  BY DEF Masks
<1>3. CostValue(o, j) = rest - CutValue(e, j)
  BY DEF CostValue
<1> HIDE DEF n, e, c
<1>4. /\ CutValue(e, j) \in Int
      /\ DiagonalCost(Maxcut(n, e, c), j) = -CutValue(e, j) + rest
  BY <1>1, CostIsCut
<1>5. Len(e) \in Nat /\ DOMAIN e = 1 .. Len(e) /\ \A x \in 1 .. Len(e) : e[x].w \in Int
  <2> DEFINE E == Edges(n)
  <2>1. \A x \in E : x.w \in Int
    BY DEF Edges
  <2>2. e \in Seq(E)
    BY <1>1
  <2> HIDE DEF E
  <2> QED BY <2>1, <2>2
<1>6. whole = IntTotal(1 .. Len(e), weight)
  BY <1>5, WholeFold
<1>7. IsFiniteSet(1 .. Len(e)) /\ \A x \in 1 .. Len(e) : weight[x] \in Int
  BY <1>5, FS_Interval
<1> HIDE DEF weight, whole
<1>8. whole \in Int
  BY <1>6, <1>7, IntTotals
<1>9. rest \in Int
  BY <1>8
<1> HIDE DEF rest
<1> QED BY <1>2, <1>3, <1>4, <1>9

\* What qaoa() reports is what the documentation calls the cost of an outcome.
LEMMA CostIsValue ==
    ASSUME NEW o, IsCost(o), IsDiagonal(Masks(o)), NEW j
    PROVE  CostValue(o, j) \in Int /\ DiagonalCost(Masks(o), j) = CostValue(o, j)
BY StringsValue, CutsValue DEF IsCost

LEMMA AnswerIsRight ==
    ASSUME Powers, SInv, Finished, TakesAnswer
    PROVE  Reads(circuit, result)'
<1>1. pc = "ran"
  BY DEF TakesAnswer
<1>2. PICK r \in Recipes, samples \in SUBSET Support :
         /\ r.what = "qaoa" /\ r.cost.n = circuit.n /\ IsDiagonal(Masks(r.cost))
         /\ Cardinality(samples) \in 1 .. 2
         /\ LET best == Cheapest(Masks(r.cost), samples) IN
            Given("answer", [ask |-> r, samples |-> samples, best |-> best,
                             cost |-> DiagonalCost(Masks(r.cost), best)])
  BY DEF TakesAnswer
<1> DEFINE m == Masks(r.cost)
           best == Cheapest(m, samples)
           n == circuit.n
           v == [ask |-> r, samples |-> samples, best |-> best, cost |-> DiagonalCost(m, best)]
<1>3. result' = [what |-> "answer", value |-> v] /\ circuit' = circuit
  BY <1>2 DEF Given, building
<1>4. n \in Nat /\ IsState(Final(circuit), n) /\ mem = Final(circuit)
  BY <1>1, WhenRan
<1>5. IsCost(r.cost) /\ IsDiagonal(m)
  BY <1>2, RuntimeAssumption DEF IsRecipe
<1>6. \A j : CostValue(r.cost, j) \in Int /\ DiagonalCost(m, j) = CostValue(r.cost, j)
  <2> DEFINE o == r.cost
  <2>1. IsCost(o) /\ IsDiagonal(Masks(o))
    BY <1>5
  <2> HIDE DEF o
  <2>2. \A j : CostValue(o, j) \in Int /\ DiagonalCost(Masks(o), j) = CostValue(o, j)
    BY <2>1, CostIsValue
  <2> QED BY <2>2 DEF o
<1>7. /\ samples \in SUBSET Nat /\ samples # {} /\ IsFiniteSet(samples)
      /\ \A j \in samples : j \in DOMAIN Final(circuit) /\ Final(circuit)[j] # Zero
  <2>1. \A j \in samples : j \in DOMAIN mem /\ mem[j] # Zero
    BY Possible
  <2>2. DOMAIN mem = Indices(n)
    BY <1>4 DEF IsState
  <2>3. Indices(n) \in SUBSET Nat /\ IsFiniteSet(Indices(n))
    <3> DEFINE k == n
    <3>1. k \in Nat
      BY <1>4
    <3> HIDE DEF k
    <3>2. Indices(k) \in SUBSET Nat /\ IsFiniteSet(Indices(k))
      BY <3>1, FiniteIndices
    <3> QED BY <3>2 DEF k
  <2>4. samples \subseteq Indices(n)
    BY <2>1, <2>2
  <2>5. IsFiniteSet(samples)
    BY <2>3, <2>4, FS_Subset
  <2>6. samples # {}
    <3>1. Cardinality(samples) # 0
      BY <1>2
    <3> QED BY <3>1, FS_EmptySet
  <2> QED BY <1>4, <2>1, <2>3, <2>4, <2>5, <2>6
<1> HIDE DEF m
<1>8. best \in samples /\ \A j \in samples : DiagonalCost(m, best) <= DiagonalCost(m, j)
  <2>1. \A j \in samples : DiagonalCost(m, j) \in Int
    BY <1>6
  <2> QED BY <1>7, <2>1, CheapestIs
<1> HIDE DEF best
<1>9. IsAnswer(circuit, v)
  <2>1. v.ask = r /\ v.samples = samples /\ v.best = best /\ v.cost = DiagonalCost(m, best)
    OBVIOUS
  <2> HIDE DEF v
  <2>2. \A j \in samples : CostValue(r.cost, best) <= CostValue(r.cost, j)
    BY <1>6, <1>8
  <2> QED BY <1>6, <1>7, <1>8, <2>1, <2>2 DEF IsAnswer
<1>10. result'.what = "answer" /\ result'.value = v
  BY <1>3
<1> HIDE DEF v
<1> QED BY <1>3, <1>9, <1>10 DEF Reads

\* A sign can be taken out of a product.
LEMMA SignOut ==
    ASSUME NEW f \in Amplitude, NEW a \in Amplitude, NEW b \in Amplitude, NEW odd \in BOOLEAN
    PROVE  /\ Times(a, Times(f, Signed(odd, b))) = Times(f, Signed(odd, Times(a, b)))
           /\ Signed(odd, Times(a, b)) \in Amplitude
<1> DEFINE s == Sign(odd)
           ab == Times(a, b)
<1>1. s \in Amplitude /\ Signed(odd, b) = Times(s, b)
  BY SignedIs
<1>2. ab \in Amplitude
  BY ArithmeticType
<1> HIDE DEF s, ab
<1>3. Signed(odd, ab) = Times(s, ab) /\ Signed(odd, ab) \in Amplitude
  BY <1>2, SignedIs DEF s
<1>4. Times(s, b) \in Amplitude
  BY <1>1, ArithmeticType
<1>5. Times(a, Times(f, Times(s, b))) = Times(f, Times(a, Times(s, b)))
  <2>1. {f, a, f, Times(s, b)} \subseteq Amplitude
    BY <1>4
  <2> QED BY <2>1, FactorsMove
<1>6. Times(a, Times(s, b)) = Times(s, Times(a, b))
  <2>1. {f, a, s, b} \subseteq Amplitude
    BY <1>1
  <2> QED BY <2>1, FactorsMove
<1> QED BY <1>1, <1>3, <1>5, <1>6 DEF ab

LEMMA ConjType ==
    ASSUME NEW a \in Amplitude
    PROVE  Conj(a) \in Amplitude
<1>1. a[1] \in Int /\ -a[2] \in Int
  BY Parts
<1> QED BY <1>1, ComplexType DEF Conj

\* <s|P|s>: the sum that the code computes, turned by the power of i it applies.
LEMMA InnerIs ==
    ASSUME Powers, NEW n \in Nat, NEW P \in Strings(n), NEW s, IsState(s, n), NEW coeff
    PROVE  /\ Inner(s, PauliActed(P, s)) = Times(Turned(P, n), TermSum(s, Dense(coeff, P)))
           /\ TermSum(s, Dense(coeff, P)) \in Amplitude /\ Turned(P, n) \in Amplitude
<1> DEFINE m == Dense(coeff, P)
           D == Indices(n)
           X == Sites(P, n, {"X", "Y"})
           Z == Sites(P, n, {"Y", "Z"})
           F == Turned(P, n)
           h == [j \in D |-> Flip(j, X)]
           t == PauliActed(P, s)
           a == [j \in D |-> Times(Conj(s[j]), t[j])]
           b == [j \in D |-> Signed(Odd(j, Z), Times(Conj(s[Flip(j, X)]), s[j]))]
           c == [j \in D |-> b[h[j]]]
<1>1. DOMAIN s = D /\ (\A j \in D : s[j] \in Amplitude) /\ IsFiniteSet(D)
  BY FiniteIndices DEF IsState
<1>2. m.x = X /\ m.z = Z
  BY DenseIs
<1>3. X \in SUBSET (0 .. n - 1)
  BY DEF Sites
<1>4. F \in Amplitude
  <2>1. Cardinality(Sites(P, n, {"Y"})) \in Nat
    <3>1. IsFiniteSet(0 .. n - 1) /\ Sites(P, n, {"Y"}) \subseteq 0 .. n - 1
      BY FS_Interval DEF Sites
    <3>2. IsFiniteSet(Sites(P, n, {"Y"}))
      BY <3>1, FS_Subset
    <3> QED BY <3>2, FS_CardinalityType
  <2> DEFINE y == Cardinality(Sites(P, n, {"Y"}))
  <2> HIDE DEF y
  <2>2. 4 * y \in Int
    BY <2>1 DEF y
  <2> QED BY <2>2, ConstantsType DEF Turned, y
<1>5. \A j \in D : h[j] \in D /\ h[h[j]] = j
  <2> SUFFICES ASSUME NEW j \in D PROVE h[j] \in D /\ h[h[j]] = j
    OBVIOUS
  <2> HIDE DEF X
  <2>1. Flip(j, X) \in D
    BY <1>3, FlipBits DEF Flips
  <2>2. Flip(Flip(j, X), X) = j
    BY <1>3, FlipTwice
  <2> HIDE DEF D
  <2> QED BY <2>1, <2>2
<1>6. \A j \in D : h[j] = Flip(j, X)
  BY DEF h
<1> HIDE DEF h
<1>7. \A j \in D : b[j] = Signed(Odd(j, Z), Times(Conj(s[h[j]]), s[j]))
  BY <1>6
<1>8. \A j \in D : Odd(j, Z) \in BOOLEAN
  BY DEF Odd
<1> HIDE DEF b, Z
<1>9. \A j \in D : b[j] \in Amplitude
  <2> SUFFICES ASSUME NEW j \in D PROVE b[j] \in Amplitude
    OBVIOUS
  <2>1. s[h[j]] \in Amplitude /\ s[j] \in Amplitude
    BY <1>1, <1>5
  <2>2. Conj(s[h[j]]) \in Amplitude
    BY <2>1, ConjType
  <2>3. Odd(j, Z) \in BOOLEAN
    BY <1>8
  <2>4. Signed(Odd(j, Z), Times(Conj(s[h[j]]), s[j])) \in Amplitude
    BY <1>4, <2>1, <2>2, <2>3, SignOut
  <2> QED BY <1>7, <2>4
<1>10. \A j \in D : t[j] = Times(F, Signed(Odd(h[j], Z), s[h[j]]))
  <2>1. t = After(P, n, s)
    BY PauliActs
  <2> HIDE DEF t
  <2> QED BY <1>1, <1>6, <2>1 DEF After, Shifted, Parities, Z
<1> HIDE DEF t, F
<1>11. \A j \in D : a[j] = Times(F, c[j]) /\ c[j] \in Amplitude
  <2> SUFFICES ASSUME NEW j \in D PROVE a[j] = Times(F, c[j]) /\ c[j] \in Amplitude
    OBVIOUS
  <2>1. s[h[j]] \in Amplitude /\ s[j] \in Amplitude /\ h[j] \in D /\ h[h[j]] = j
    BY <1>1, <1>5
  <2>2. Conj(s[j]) \in Amplitude
    BY <2>1, ConjType
  <2>3. Odd(h[j], Z) \in BOOLEAN
    BY <1>8, <2>1
  <2>4. Times(Conj(s[j]), Times(F, Signed(Odd(h[j], Z), s[h[j]])))
        = Times(F, Signed(Odd(h[j], Z), Times(Conj(s[j]), s[h[j]])))
    <3> DEFINE x == Conj(s[j])
               y == s[h[j]]
               odd == Odd(h[j], Z)
    <3>1. x \in Amplitude /\ y \in Amplitude /\ odd \in BOOLEAN
      BY <2>1, <2>2, <2>3
    <3> HIDE DEF x, y, odd
    <3>2. Times(x, Times(F, Signed(odd, y))) = Times(F, Signed(odd, Times(x, y)))
      BY <1>4, <3>1, SignOut
    <3> QED BY <3>2 DEF x, y, odd
  <2>5. c[j] = b[h[j]]
    OBVIOUS
  <2>6. b[h[j]] = Signed(Odd(h[j], Z), Times(Conj(s[j]), s[h[j]]))
    BY <1>7, <2>1
  <2>7. a[j] = Times(Conj(s[j]), t[j]) /\ t[j] = Times(F, Signed(Odd(h[j], Z), s[h[j]]))
    BY <1>10
  <2> HIDE DEF a, c
  <2>8. c[j] \in Amplitude
    BY <1>9, <2>1, <2>5
  <2> QED BY <2>4, <2>5, <2>6, <2>7, <2>8
<1>12. \A j \in D : c[j] = b[h[j]]
  OBVIOUS
<1>13. Inner(s, t) = AmpTotal(D, a)
  <2>1. a = [j \in DOMAIN s |-> Times(Conj(s[j]), t[j])]
    BY <1>1
  <2>2. \A j \in DOMAIN s : Times(Conj(s[j]), t[j]) \in Amplitude
    <3> SUFFICES ASSUME NEW j \in D PROVE Times(Conj(s[j]), t[j]) \in Amplitude
      BY <1>1
    <3>1. a[j] = Times(Conj(s[j]), t[j])
      OBVIOUS
    <3> HIDE DEF a, c
    <3>2. Times(F, c[j]) \in Amplitude
      BY <1>4, <1>11, ArithmeticType
    <3> QED BY <1>11, <3>1, <3>2
  <2> HIDE DEF a, D
  <2> QED BY <1>1, <2>1, <2>2, InnerFold
<1>14. TermSum(s, m) = AmpTotal(D, b)
  <2>1. b = [j \in DOMAIN s |-> Signed(Odd(j, m.z), Times(Conj(s[Flip(j, m.x)]), s[j]))]
    BY <1>1, <1>2 DEF b
  <2>2. \A j \in DOMAIN s :
           Signed(Odd(j, m.z), Times(Conj(s[Flip(j, m.x)]), s[j])) \in Amplitude
    BY <1>1, <1>9, <2>1
  <2> HIDE DEF b, D, m
  <2> QED BY <1>1, <2>1, <2>2, TermFold
<1> HIDE DEF a, c, D, m
<1>15. AmpTotal(D, a) = Times(F, AmpTotal(D, c))
  BY <1>1, <1>4, <1>11, AmpScaled
<1>16. AmpTotal(D, c) = AmpTotal(D, b) /\ AmpTotal(D, b) \in Amplitude
  <2>1. \A x \in D : b[x] \in Amplitude /\ c[x] = b[h[x]] /\ h[x] \in D
    BY <1>5, <1>9, <1>12
  <2>2. \A x, y \in D : h[x] = h[y] => x = y
    BY <1>5
  <2>3. \A y \in D : \E x \in D : h[x] = y
    BY <1>5
  <2>4. AmpTotal(D, c) = AmpTotal(D, b)
    BY <1>1, <2>1, <2>2, <2>3, AmpReordered
  <2> QED BY <1>1, <1>9, <2>4, AmpTotals
<1>17. Inner(s, t) = Times(F, TermSum(s, m)) /\ TermSum(s, m) \in Amplitude
  BY <1>13, <1>14, <1>15, <1>16, Zenon
<1> QED BY <1>4, <1>17 DEF t, F, m

-----------------------------------------------------------------------------
(* Powers of i *)

LEMMA FourAngles ==
    ASSUME NEW k \in Int
    PROVE  /\ k % 16 = 0 => Cos(k) = 1 /\ Sin(k) = 0
           /\ k % 16 = 4 => Cos(k) = 0 /\ Sin(k) = 1
           /\ k % 16 = 8 => Cos(k) = -1 /\ Sin(k) = 0
           /\ k % 16 = 12 => Cos(k) = 0 /\ Sin(k) = -1
<1> DEFINE i == (k % 16) + 1
           l == ((k - 4) % 16) + 1
           t == <<1, 7, 4, 18, 0, -18, -4, -7, -1, -7, -4, -18, 0, 18, 4, 7>>
<1>1. /\ k % 16 = 0 => i = 1 /\ l = 13
      /\ k % 16 = 4 => i = 5 /\ l = 1
      /\ k % 16 = 8 => i = 9 /\ l = 5
      /\ k % 16 = 12 => i = 13 /\ l = 9
  OBVIOUS
<1>2. t[1] = 1 /\ t[5] = 0 /\ t[9] = -1 /\ t[13] = 0
  OBVIOUS
<1>3. Cos(k) = t[i] /\ Sin(k) = t[l]
  BY DEF Cos, Sin
<1> HIDE DEF i, l, t
<1> QED BY <1>1, <1>2, <1>3

LEMMA PowersOfI ==
    ASSUME NEW ny \in Nat, NEW a \in Amplitude
    PROVE  /\ TimesPowerOfI(ny, a)[1] \in Int
           /\ Times(Phase(4 * ny), a)[1] = TimesPowerOfI(ny, a)[1] % Prime
<1> DEFINE k == 4 * ny
           x == Cos(k)
           y == Sin(k)
           u == a[1]
           v == a[2]
           r == TimesPowerOfI(ny, a)[1]
<1>1. k \in Int /\ ny % 4 \in 0 .. 3
  OBVIOUS
<1>2. /\ ny % 4 = 0 => k % 16 = 0
      /\ ny % 4 = 1 => k % 16 = 4
      /\ ny % 4 = 2 => k % 16 = 8
      /\ ny % 4 = 3 => k % 16 = 12
  OBVIOUS
<1>3. /\ ny % 4 = 0 => r = u
      /\ ny % 4 = 1 => r = -v
      /\ ny % 4 = 2 => r = -u
      /\ ny % 4 = 3 => r = v
  BY DEF TimesPowerOfI
<1> HIDE DEF k
<1>4. /\ k % 16 = 0 => x = 1 /\ y = 0
      /\ k % 16 = 4 => x = 0 /\ y = 1
      /\ k % 16 = 8 => x = -1 /\ y = 0
      /\ k % 16 = 12 => x = 0 /\ y = -1
  BY <1>1, FourAngles
<1>5. u \in Int /\ v \in Int
  BY Parts
<1>6. x \in Int /\ y \in Int
  BY <1>1, CosType
<1>7. Times(Phase(k), a)[1] = ((x % Prime) * u - (y % Prime) * v) % Prime
  BY DEF Times, Phase, Complex
<1> HIDE DEF x, y, u, v, r
<1>8. Times(Phase(k), a)[1] = (x * u - y * v) % Prime
  BY <1>5, <1>6, <1>7, Reduced
<1>9. r \in Int /\ x * u - y * v = r
  BY <1>1, <1>2, <1>3, <1>4, <1>5
<1> QED BY <1>8, <1>9 DEF k, r

LEMMA Rounds ==
    ASSUME NEW x \in Int, NEW u \in Int
    PROVE  (u * (x % Prime)) % Prime = (u * x) % Prime
<1>1. PICK d \in Int : x = 31 * d + (x % Prime)
  BY DEF Prime
<1> DEFINE r == x % Prime
<1>2. r \in Int
  BY DEF Prime
<1> HIDE DEF r
<1>3. u * x = 31 * (u * d) + u * r
  BY <1>1, <1>2 DEF r
<1>4. u * d \in Int /\ u * r \in Int
  BY <1>2
<1> DEFINE e == u * d
           f == u * r
<1>5. (31 * e + f) % Prime = f % Prime
  <2> HIDE DEF e, f
  <2> QED BY <1>4 DEF Prime, e, f
<1> QED BY <1>3, <1>5 DEF r

-----------------------------------------------------------------------------
(* What a string contributes *)

\* As the code computes it from masks, and as the observable means it.
Share(psi, m) == m.coeff * TimesPowerOfI(m.ny, TermSum(psi, m))[1]
Meant(psi, t) == t.coeff * Inner(psi, PauliActed(t.paulis, psi))[1]

LEMMA SharesAgree ==
    ASSUME Powers, NEW n \in Nat, NEW P \in Strings(n), NEW psi, IsState(psi, n),
           NEW t, t.coeff \in Int, t.paulis = P, NEW m, m = Dense(t.coeff, P)
    PROVE  /\ Share(psi, m) \in Int /\ Meant(psi, t) \in Int
           /\ Share(psi, m) % Prime = Meant(psi, t) % Prime
           /\ m.coeff = t.coeff
<1> DEFINE c == t.coeff
           ny == Cardinality(Sites(P, n, {"Y"}))
           a == TermSum(psi, m)
           x == TimesPowerOfI(ny, a)[1]
           y == Inner(psi, PauliActed(P, psi))[1]
<1>1. m.coeff = c /\ m.ny = ny
  BY DenseIs
<1>2. /\ Inner(psi, PauliActed(P, psi)) = Times(Turned(P, n), a)
      /\ a \in Amplitude /\ Turned(P, n) = Phase(4 * ny)
  BY InnerIs DEF Turned
<1>3. ny \in Nat
  <2>1. IsFiniteSet(0 .. n - 1) /\ Sites(P, n, {"Y"}) \subseteq 0 .. n - 1
    BY FS_Interval DEF Sites
  <2>2. IsFiniteSet(Sites(P, n, {"Y"}))
    BY <2>1, FS_Subset
  <2> QED BY <2>2, FS_CardinalityType
<1>4. Share(psi, m) = c * x /\ Meant(psi, t) = c * y
  BY <1>1 DEF Share, Meant
<1>5. y = Times(Phase(4 * ny), a)[1]
  BY <1>2
<1> HIDE DEF ny, a
<1>6. x \in Int /\ y = x % Prime
  BY <1>2, <1>3, <1>5, PowersOfI
<1> HIDE DEF c, x, y
<1>7. c \in Int
  BY DEF c
<1>8. (c * (x % Prime)) % Prime = (c * x) % Prime
  BY <1>6, <1>7, Rounds
<1>9. x % Prime \in Int
  BY <1>6 DEF Prime
<1>10. c * x \in Int /\ c * y \in Int
  BY <1>6, <1>7, <1>9
<1>11. m.coeff = t.coeff
  BY <1>1 DEF c
<1> QED BY <1>4, <1>6, <1>8, <1>10, <1>11, Zenon

-----------------------------------------------------------------------------
(* Sums modulo the prime *)

LEMMA ModIsReduced ==
    ASSUME NEW D, NEW c, IsFiniteSet(D), \A x \in D : c[x] \in Int
    PROVE  ModTotal(D, c) \in Int /\ ModTotal(D, c) % Prime = ModTotal(D, c)
<1>1. /\ ModTotal(D, c) \in Int /\ ModTotal({}, c) = 0
      /\ \A x \in D : ModTotal(D, c) = (ModTotal(D \ {x}, c) + c[x]) % Prime
  BY ModTotals
<1>2. CASE D = {}
  <2>1. 0 % Prime = 0
    BY DEF Prime
  <2> QED BY <1>1, <1>2, <2>1
<1>3. CASE D # {}
  <2>1. PICK x \in D : TRUE
    BY <1>3
  <2> DEFINE a == ModTotal(D \ {x}, c)
             b == c[x]
             r == ModTotal(D, c)
  <2>2. r = (a + b) % Prime /\ b \in Int
    BY <1>1
  <2>3. a \in Int
    <3>1. IsFiniteSet(D \ {x}) /\ \A y \in D \ {x} : c[y] \in Int
      BY FS_RemoveElement
    <3> QED BY <3>1, ModTotals
  <2> HIDE DEF a, b, r
  <2>4. r % Prime = r
    BY <2>2, <2>3 DEF Prime
  <2> QED BY <1>1, <2>4 DEF r
<1> QED BY <1>2, <1>3

LEMMA SameRemainder ==
    ASSUME NEW a \in Int, NEW b \in Int, NEW c \in Int
    PROVE  /\ b % Prime = c % Prime => (a + b) % Prime = (a + c) % Prime
           /\ b % Prime = 0 => (a + b) % Prime = a % Prime
BY DEF Prime

\* The same sum, over some terms and over all that matter.
LEMMA ModTransfers ==
    ASSUME NEW D, NEW I, NEW f, NEW c, NEW d, IsFiniteSet(D), IsFiniteSet(I),
           \A k \in I : f[k] \in D /\ c[k] \in Int /\ c[k] % Prime = d[f[k]] % Prime,
           \A x \in D : d[x] \in Int,
           \A k, l \in I : f[k] = f[l] => k = l,
           \A x \in D : (\A k \in I : f[k] # x) => d[x] % Prime = 0
    PROVE  ModTotal(D, d) = ModTotal(I, c)
<1> DEFINE Pre(T) == {k \in I : f[k] \in T}
           G == {T \in SUBSET D : ModTotal(T, d) = ModTotal(Pre(T), c)}
<1>1. ASSUME NEW T \in SUBSET D
      PROVE  /\ ModTotal(T, d) \in Int /\ ModTotal({}, d) = 0
             /\ ModTotal(T, d) % Prime = ModTotal(T, d)
             /\ \A x \in T : ModTotal(T, d) = (ModTotal(T \ {x}, d) + d[x]) % Prime
  <2>1. IsFiniteSet(T) /\ \A x \in T : d[x] \in Int
    BY FS_Subset
  <2> QED BY <2>1, ModTotals, ModIsReduced
<1>2. ASSUME NEW J \in SUBSET I
      PROVE  /\ ModTotal(J, c) \in Int /\ ModTotal({}, c) = 0
             /\ \A k \in J : ModTotal(J, c) = (ModTotal(J \ {k}, c) + c[k]) % Prime
  <2>1. IsFiniteSet(J) /\ \A k \in J : c[k] \in Int
    BY FS_Subset
  <2> QED BY <2>1, ModTotals
<1>3. {} \in G
  <2>1. Pre({}) = {}
    OBVIOUS
  <2>2. ModTotal({}, d) = 0
    BY <1>1
  <2>3. ModTotal({}, c) = 0
    BY <1>2
  <2> HIDE DEF Pre
  <2> QED BY <2>1, <2>2, <2>3
<1>4. ASSUME NEW T \in SUBSET D, T # {}, \A x \in T : T \ {x} \in G
      PROVE  T \in G
  <2>1. PICK x \in T : TRUE
    BY <1>4
  <2> DEFINE R == T \ {x}
             p == Pre(R)
             a == ModTotal(R, d)
  <2>2. R \in G /\ R \in SUBSET D
    BY <1>4
  <2>3. a = ModTotal(p, c)
    BY <2>2
  <2>4. ModTotal(T, d) = (a + d[x]) % Prime /\ d[x] \in Int
    BY <1>1
  <2>5. a \in Int /\ a % Prime = a
    BY <1>1, <2>2
  <2>6. CASE \E k \in I : f[k] = x
    <3>1. PICK k \in I : f[k] = x
      BY <2>6
    <3>2. Pre(T) \ {k} = p /\ k \in Pre(T) /\ Pre(T) \in SUBSET I
      BY <3>1
    <3>3. ModTotal(Pre(T), c) = (ModTotal(p, c) + c[k]) % Prime
      <4> HIDE DEF Pre, p
      <4> QED BY <1>2, <3>2
    <3>4. c[k] \in Int /\ c[k] % Prime = d[x] % Prime
      BY <3>1
    <3> HIDE DEF Pre, p, a, R
    <3>5. (a + c[k]) % Prime = (a + d[x]) % Prime
      BY <2>4, <2>5, <3>4, SameRemainder
    <3>6. ModTotal(T, d) = ModTotal(Pre(T), c)
      BY <2>3, <2>4, <3>3, <3>5
    <3> QED BY <3>6
  <2>7. CASE ~ \E k \in I : f[k] = x
    <3>1. Pre(T) = p
      BY <2>7
    <3>2. d[x] % Prime = 0
      BY <2>7
    <3> HIDE DEF Pre, p, a, R
    <3>3. (a + d[x]) % Prime = a
      BY <2>4, <2>5, <3>2, SameRemainder
    <3>4. ModTotal(T, d) = ModTotal(Pre(T), c)
      BY <2>3, <2>4, <3>1, <3>3
    <3> QED BY <3>4
  <2> QED BY <2>6, <2>7
<1>5. \A T \in SUBSET D : T \in G
  <2> HIDE DEF G
  <2> QED BY <1>3, <1>4, Subsets
<1>6. Pre(D) = I /\ D \in SUBSET D
  OBVIOUS
<1> HIDE DEF Pre
<1> QED BY <1>5, <1>6

-----------------------------------------------------------------------------
(* From masks to strings *)

\* An observable's strings, each with its masks in the list that the code has.
SpelledOut(masks, D, f, n) ==
    /\ IsFiniteSet(D) /\ masks \in Seq({Dense(t.coeff, t.paulis) : t \in D})
    /\ \A t \in D : t.coeff \in Int /\ t.paulis \in Strings(n)
    /\ \A k \in 1 .. Len(masks) :
          f[k] \in D /\ masks[k] = Dense(f[k].coeff, f[k].paulis)
    /\ \A k, l \in 1 .. Len(masks) : f[k] = f[l] => k = l
    /\ \A t \in D : (\A k \in 1 .. Len(masks) : f[k] # t) => t.coeff = 0

\* What the documentation makes of the strings D on a state.
Expected(psi, D) ==
    FoldSet(LAMBDA t, e : (e + t.coeff * Inner(psi, PauliActed(t.paulis, psi))[1]) % Prime, 0, D)

LEMMA EnergyIs ==
    ASSUME Powers, NEW n \in Nat, NEW psi, IsState(psi, n), NEW masks, NEW D, NEW f,
           SpelledOut(masks, D, f, n)
    PROVE  ExpectationValue(psi, masks) = Expected(psi, D)
<1> DEFINE N == Len(masks)
           I == 1 .. N
           c == [k \in I |-> Share(psi, masks[k])]
           d == [t \in D |-> Meant(psi, t)]
<1>1. /\ IsFiniteSet(D) /\ N \in Nat /\ DOMAIN masks = I
      /\ \A t \in D : t.coeff \in Int /\ t.paulis \in Strings(n)
      /\ \A k \in I : f[k] \in D /\ masks[k] = Dense(f[k].coeff, f[k].paulis)
      /\ \A k, l \in I : f[k] = f[l] => k = l
      /\ \A t \in D : (\A k \in I : f[k] # t) => t.coeff = 0
  <2> DEFINE S == {Dense(t.coeff, t.paulis) : t \in D}
  <2>1. masks \in Seq(S)
    BY DEF SpelledOut
  <2> HIDE DEF S
  <2>2. N \in Nat /\ DOMAIN masks = I
    BY <2>1
  <2> QED BY <2>2, Zenon DEF SpelledOut
<1>2. ASSUME NEW t \in D
      PROVE  d[t] \in Int /\ (t.coeff = 0 => d[t] % Prime = 0)
  <2> DEFINE m == Dense(t.coeff, t.paulis)
             P == t.paulis
             y == Inner(psi, PauliActed(t.paulis, psi))[1]
  <2>1. t.coeff \in Int /\ P \in Strings(n)
    BY <1>1
  <2> HIDE DEF P
  <2>2. t.paulis = P /\ m = Dense(t.coeff, P)
    BY DEF P
  <2> HIDE DEF m
  <2>3. Meant(psi, t) \in Int
    BY <2>1, <2>2, SharesAgree
  <2>4. d[t] = Meant(psi, t)
    OBVIOUS
  <2>5. Meant(psi, t) = t.coeff * y
    BY DEF Meant
  <2>6. y \in Int
    <3> DEFINE z == t.coeff
    <3> HIDE DEF z
    <3>1. /\ Inner(psi, PauliActed(P, psi)) = Times(Turned(P, n), TermSum(psi, Dense(z, P)))
          /\ TermSum(psi, Dense(z, P)) \in Amplitude /\ Turned(P, n) \in Amplitude
      BY <2>1, InnerIs
    <3>2. Inner(psi, PauliActed(P, psi)) \in Amplitude
      BY <3>1, ArithmeticType
    <3> QED BY <3>2, Parts DEF P
  <2> HIDE DEF y, d
  <2>7. t.coeff = 0 => d[t] % Prime = 0
    BY <2>1, <2>4, <2>5, <2>6 DEF Prime
  <2> QED BY <2>3, <2>4, <2>7
<1>3. ASSUME NEW k \in I
      PROVE  /\ c[k] \in Int /\ c[k] % Prime = d[f[k]] % Prime
  <2> DEFINE t == f[k]
             P == t.paulis
             m == masks[k]
  <2>1. t \in D /\ t.coeff \in Int /\ P \in Strings(n) /\ m = Dense(t.coeff, P)
    BY <1>1
  <2>2. d[t] = Meant(psi, t) /\ c[k] = Share(psi, m) /\ t.paulis = P
    BY <2>1
  <2> HIDE DEF t, P, m, c, d
  <2>3. Share(psi, m) \in Int /\ Share(psi, m) % Prime = Meant(psi, t) % Prime
    BY <2>1, <2>2, SharesAgree
  <2> QED BY <2>2, <2>3 DEF t
<1>4. ExpectationValue(psi, masks) = ModTotal(I, c)
  <2>1. c = [k \in 1 .. Len(masks) |->
               masks[k].coeff * TimesPowerOfI(masks[k].ny, TermSum(psi, masks[k]))[1]]
    BY DEF Share
  <2>2. \A k \in 1 .. Len(masks) :
           masks[k].coeff * TimesPowerOfI(masks[k].ny, TermSum(psi, masks[k]))[1] \in Int
    BY <1>3, <2>1
  <2>3. Len(masks) \in Nat /\ DOMAIN masks = 1 .. Len(masks)
    BY <1>1
  <2> HIDE DEF c
  <2>4. ExpectationValue(psi, masks)
          = ModTotal(1 .. Len(masks),
                     [x \in 1 .. Len(masks) |->
                        masks[x].coeff * TimesPowerOfI(masks[x].ny, TermSum(psi, masks[x]))[1]])
    BY <2>2, <2>3, EnergyFold
  <2> QED BY <2>1, <2>4
<1>5. FoldSet(LAMBDA t, e : (e + t.coeff * Inner(psi, PauliActed(t.paulis, psi))[1]) % Prime, 0, D)
        = ModTotal(D, d)
  <2>1. d = [x \in D |-> x.coeff * Inner(psi, PauliActed(x.paulis, psi))[1]]
    BY DEF Meant
  <2>2. \A x \in D : x.coeff * Inner(psi, PauliActed(x.paulis, psi))[1] \in Int
    BY <1>2, <2>1
  <2>3. FoldSet(LAMBDA t, e : (e + t.coeff * Inner(psi, PauliActed(t.paulis, psi))[1]) % Prime,
          0, D)
          = ModTotal(D, [x \in D |-> x.coeff * Inner(psi, PauliActed(x.paulis, psi))[1]])
    <3>1. IsFiniteSet(D)
      BY <1>1
    <3> QED BY <2>2, <3>1, DocumentedFold
  <2> HIDE DEF d
  <2> QED BY <2>1, <2>3
<1>6. IsFiniteSet(I)
  BY <1>1, FS_Interval
<1>7. ModTotal(D, d) = ModTotal(I, c)
  <2>1. \A k \in I : f[k] \in D /\ c[k] \in Int /\ c[k] % Prime = d[f[k]] % Prime
    BY <1>1, <1>3
  <2>2. \A x \in D : d[x] \in Int
    BY <1>2
  <2>3. \A x \in D : (\A k \in I : f[k] # x) => d[x] % Prime = 0
    BY <1>1, <1>2
  <2> HIDE DEF I, c, d
  <2> QED BY <1>1, <1>6, <2>1, <2>2, <2>3, ModTransfers, SMTT(30)
<1>8. Expected(psi, D) = ModTotal(D, d)
  BY <1>5, Zenon DEF Expected
<1> HIDE DEF c, d
<1> QED BY <1>4, <1>7, <1>8

LEMMA SpellsIndexed ==
    ASSUME NEW n \in Nat, NEW N \in Nat, NEW g, NEW masks, NEW D,
           \A k \in 1 .. N : g[k].coeff \in Int /\ g[k].paulis \in Strings(n),
           \A k, l \in 1 .. N : g[k] = g[l] => k = l,
           D = {g[k] : k \in 1 .. N},
           masks = [k \in 1 .. N |-> Dense(g[k].coeff, g[k].paulis)]
    PROVE  SpelledOut(masks, D, g, n)
<1> DEFINE S == {Dense(t.coeff, t.paulis) : t \in D}
<1>1. IsFiniteSet(1 .. N)
  <2>1. 1 \in Int /\ N \in Int
    OBVIOUS
  <2> QED BY <2>1, FS_Interval
<1>2. IsFiniteSet(D)
  <2> DEFINE h == [k \in 1 .. N |-> g[k]]
  <2>1. D = {h[k] : k \in 1 .. N}
    OBVIOUS
  <2>2. h \in Surjection(1 .. N, D)
    BY <2>1 DEF Surjection
  <2> QED BY <1>1, <2>2, FS_Surjection
<1>3. \A k \in 1 .. N : masks[k] \in S /\ g[k] \in D
  OBVIOUS
<1>4. DOMAIN masks = 1 .. N /\ masks = [k \in 1 .. N |-> masks[k]]
  OBVIOUS
<1>5. masks \in Seq(S) /\ Len(masks) = N
  <2> HIDE DEF S
  <2> QED BY <1>3, <1>4
<1>6. \A t \in D : t.coeff \in Int /\ t.paulis \in Strings(n)
  OBVIOUS
<1>7. \A k \in 1 .. N : masks[k] = Dense(g[k].coeff, g[k].paulis)
  OBVIOUS
<1>8. \A t \in D : \E k \in 1 .. N : g[k] = t
  OBVIOUS
<1>9. \A k \in 1 .. Len(masks) : g[k] \in D /\ masks[k] = Dense(g[k].coeff, g[k].paulis)
  BY <1>3, <1>5, <1>7
<1>10. \A k, l \in 1 .. Len(masks) : g[k] = g[l] => k = l
  BY <1>5
<1>11. \A t \in D : (\A k \in 1 .. Len(masks) : g[k] # t) => t.coeff = 0
  BY <1>5, <1>8
<1> QED BY <1>2, <1>5, <1>6, <1>9, <1>10, <1>11, Zenon DEF SpelledOut

\* Strings with coefficient 0 need no masks.
LEMMA SpellsNone ==
    ASSUME NEW n \in Nat, NEW D, NEW f, IsFiniteSet(D),
           \A t \in D : t.coeff \in Int /\ t.coeff = 0 /\ t.paulis \in Strings(n)
    PROVE  SpelledOut(<<>>, D, f, n)
<1>1. Len(<<>>) = 0 /\ 1 .. 0 = {} /\ <<>> \in Seq({Dense(t.coeff, t.paulis) : t \in D})
  OBVIOUS
<1> QED BY <1>1 DEF SpelledOut

LEMMA SpellsMore ==
    ASSUME NEW n \in Nat, NEW m, NEW D, NEW f, NEW p, NEW E, NEW g,
           SpelledOut(m, D, f, n), SpelledOut(p, E, g, n), D \cap E = {}
    PROVE  \E h : SpelledOut(m \o p, D \cup E, h, n)
<1> DEFINE S == {Dense(t.coeff, t.paulis) : t \in D \cup E}
           M == Len(m)
           N == Len(p)
           w == m \o p
           h == [k \in 1 .. M + N |-> IF k <= M THEN f[k] ELSE g[k - M]]
<1>1. m \in Seq(S) /\ p \in Seq(S)
  <2> DEFINE A == {Dense(t.coeff, t.paulis) : t \in D}
             B == {Dense(t.coeff, t.paulis) : t \in E}
  <2>1. m \in Seq(A) /\ p \in Seq(B)
    BY DEF SpelledOut
  <2>2. A \subseteq S /\ B \subseteq S
    OBVIOUS
  <2> HIDE DEF A, B, S
  <2> QED BY <2>1, <2>2
<1> HIDE DEF S
<1>2. M \in Nat /\ N \in Nat
  BY <1>1
<1>3. /\ w \in Seq(S) /\ Len(w) = M + N
      /\ \A k \in 1 .. M + N : w[k] = IF k <= M THEN m[k] ELSE p[k - M]
  BY <1>1, ConcatProperties
<1>4. /\ IsFiniteSet(D)
      /\ \A t \in D : t.coeff \in Int /\ t.paulis \in Strings(n)
      /\ \A k \in 1 .. M : f[k] \in D /\ m[k] = Dense(f[k].coeff, f[k].paulis)
      /\ \A k, l \in 1 .. M : f[k] = f[l] => k = l
      /\ \A t \in D : (\A k \in 1 .. M : f[k] # t) => t.coeff = 0
  BY Zenon DEF SpelledOut
<1>5. /\ IsFiniteSet(E)
      /\ \A t \in E : t.coeff \in Int /\ t.paulis \in Strings(n)
      /\ \A k \in 1 .. N : g[k] \in E /\ p[k] = Dense(g[k].coeff, g[k].paulis)
      /\ \A k, l \in 1 .. N : g[k] = g[l] => k = l
      /\ \A t \in E : (\A k \in 1 .. N : g[k] # t) => t.coeff = 0
  BY Zenon DEF SpelledOut
<1> HIDE DEF M, N, w
<1>6. IsFiniteSet(D \cup E)
  BY <1>4, <1>5, FS_Union
<1>7. \A k \in 1 .. M + N :
         /\ k <= M => k \in 1 .. M /\ h[k] = f[k] /\ w[k] = m[k]
         /\ ~(k <= M) => k - M \in 1 .. N /\ h[k] = g[k - M] /\ w[k] = p[k - M]
  BY <1>2, <1>3
<1>8. /\ \A k \in 1 .. M : k \in 1 .. M + N /\ h[k] = f[k]
      /\ \A k \in 1 .. N : k + M \in 1 .. M + N /\ h[k + M] = g[k]
  BY <1>2
<1> HIDE DEF h
<1>9. \A k \in 1 .. M + N : h[k] \in D \cup E /\ w[k] = Dense(h[k].coeff, h[k].paulis)
  <2> SUFFICES ASSUME NEW k \in 1 .. M + N
               PROVE  h[k] \in D \cup E /\ w[k] = Dense(h[k].coeff, h[k].paulis)
    OBVIOUS
  <2>1. CASE k <= M
    BY <1>4, <1>7, <2>1, Zenon
  <2>2. CASE ~(k <= M)
    BY <1>5, <1>7, <2>2, Zenon
  <2> QED BY <2>1, <2>2
<1>10. \A k, l \in 1 .. M + N : h[k] = h[l] => k = l
  <2> SUFFICES ASSUME NEW k \in 1 .. M + N, NEW l \in 1 .. M + N, h[k] = h[l]
               PROVE  k = l
    OBVIOUS
  <2>1. CASE k <= M /\ l <= M
    BY <1>4, <1>7, <2>1, Zenon
  <2>2. CASE ~(k <= M) /\ ~(l <= M)
    <3>1. /\ k - M \in 1 .. N /\ l - M \in 1 .. N
          /\ h[k] = g[k - M] /\ h[l] = g[l - M]
      BY <1>7, <2>2, Zenon
    <3>2. g[k - M] = g[l - M]
      BY <3>1
    <3>3. k - M = l - M
      BY <1>5, <3>1, <3>2
    <3> QED BY <1>2, <3>3
  <2>3. CASE (k <= M /\ ~(l <= M)) \/ (~(k <= M) /\ l <= M)
    <3>1. (h[k] \in D /\ h[l] \in E) \/ (h[k] \in E /\ h[l] \in D)
      BY <1>4, <1>5, <1>7, <2>3, Zenon
    <3> QED BY <3>1
  <2> QED BY <2>1, <2>2, <2>3
<1>11. \A t \in D \cup E : (\A k \in 1 .. M + N : h[k] # t) => t.coeff = 0
  <2> SUFFICES ASSUME NEW t \in D \cup E, \A k \in 1 .. M + N : h[k] # t
               PROVE  t.coeff = 0
    OBVIOUS
  <2>1. CASE t \in D
    <3>1. \A k \in 1 .. M : f[k] # t
      BY <1>8
    <3> QED BY <1>4, <2>1, <3>1
  <2>2. CASE t \in E
    <3>1. \A k \in 1 .. N : g[k] # t
      BY <1>8
    <3> QED BY <1>5, <2>2, <3>1
  <2> QED BY <2>1, <2>2
<1>12. \A t \in D \cup E : t.coeff \in Int /\ t.paulis \in Strings(n)
  BY <1>4, <1>5
<1>13. SpelledOut(w, D \cup E, h, n)
  BY <1>3, <1>6, <1>9, <1>10, <1>11, <1>12, Zenon DEF SpelledOut, S
<1> QED BY <1>13 DEF w

-----------------------------------------------------------------------------
(* Strings with one letter on some sites *)

Signs == {"X", "Y", "Z"}
OnSites(p, at, n) == [k \in 1 .. n |-> IF k \in at THEN p ELSE "I"]

LEMMA OnSitesMasks ==
    ASSUME NEW n \in Nat, NEW p \in Signs, NEW at \in SUBSET (1 .. n), NEW coeff
    PROVE  /\ OnSites(p, at, n) \in Strings(n)
           /\ Dense(coeff, OnSites(p, at, n)) = Mask(coeff, {<<p, k - 1>> : k \in at})
<1> DEFINE P == OnSites(p, at, n)
<1>1. DOMAIN P = 1 .. n /\ \A k \in 1 .. n : P[k] = IF k \in at THEN p ELSE "I"
  BY DEF OnSites
<1>2. P \in Strings(n)
  BY DEF OnSites, Strings, Letters, Signs
<1> HIDE DEF P
<1>3. p # "I"
  BY DEF Signs
<1>4. {i \in DOMAIN P : P[i] # "I"} = at
  BY <1>1, <1>3
<1>5. \A k \in at : P[k] = p
  BY <1>1
<1>6. {<<P[k], k - 1>> : k \in at} = {<<p, k - 1>> : k \in at}
  BY <1>5
<1>7. Dense(coeff, P) = Mask(coeff, {<<P[k], k - 1>> : k \in {i \in DOMAIN P : P[i] # "I"}})
  BY DEF Dense
<1> QED BY <1>2, <1>4, <1>6, <1>7, Zenon DEF P

LEMMA OnSitesDiffer ==
    ASSUME NEW n \in Nat, NEW p \in Signs, NEW r \in Signs, NEW at \in SUBSET (1 .. n),
           NEW on \in SUBSET (1 .. n), OnSites(p, at, n) = OnSites(r, on, n)
    PROVE  at = on /\ (at # {} => p = r)
<1> DEFINE P == OnSites(p, at, n)
           R == OnSites(r, on, n)
<1>1. \A k \in 1 .. n : P[k] = (IF k \in at THEN p ELSE "I") /\ R[k] = (IF k \in on THEN r ELSE "I")
  BY DEF OnSites
<1>2. P = R
  OBVIOUS
<1> HIDE DEF P, R
<1>3. p # "I" /\ r # "I"
  BY DEF Signs
<1>4. \A k \in 1 .. n : k \in at <=> k \in on
  BY <1>1, <1>2, <1>3
<1>5. at = on
  BY <1>4
<1>6. ASSUME at # {} PROVE p = r
  <2>1. PICK k \in at : TRUE
    BY <1>6
  <2> QED BY <1>1, <1>2, <1>5, <2>1
<1> QED BY <1>5, <1>6

-----------------------------------------------------------------------------
(* The two ends of a bond *)

Ends(i, n) == {i, (i % n) + 1}
Bonded(n, periodic) == IF periodic THEN n ELSE n - 1
Link(p, coeff, i, n) == [coeff |-> coeff, paulis |-> OnSites(p, Ends(i, n), n)]
Site(p, coeff, i, n) == [coeff |-> coeff, paulis |-> OnSites(p, {i}, n)]

LEMMA NextSite ==
    ASSUME NEW n \in Nat, n >= 2, NEW i \in 1 .. n
    PROVE  /\ i < n => i % n = i
           /\ i = n => i % n = 0
           /\ i % n \in 0 .. n - 1
<1>1. n \in Nat \ {0} /\ i \in Nat
  OBVIOUS
<1> DEFINE d == i \div n
           r == i % n
<1>2. i = n * d + r /\ r \in 0 .. n - 1 /\ d \in Nat
  BY <1>1, Division
<1> HIDE DEF d, r
<1>3. CASE i < n
  <2>1. i = 0 * n + i /\ i = d * n + r /\ i \in 0 .. n - 1 /\ 0 \in Int /\ d \in Int
    BY <1>1, <1>2, <1>3
  <2> DEFINE zero == 0
  <2>2. zero \in Int /\ zero * n + i = d * n + r
    BY <2>1
  <2> HIDE DEF zero
  <2>3. i = r
    BY <1>1, <1>2, <2>1, <2>2, DivisionIsUnique
  <2> QED BY <1>2, <1>3, <2>3 DEF r
<1>4. CASE i = n
  <2> DEFINE one == 1
             zero == 0
  <2>1. one \in Int /\ zero \in 0 .. n - 1 /\ d \in Int /\ one * n + zero = d * n + r
    BY <1>1, <1>2, <1>4
  <2>2. zero = r
    <3> HIDE DEF one, zero
    <3> QED BY <1>1, <1>2, <2>1, DivisionIsUnique
  <2> QED BY <1>2, <1>4, <2>2 DEF r
<1> QED BY <1>3, <1>4

LEMMA BondFacts ==
    ASSUME NEW n \in Nat, NEW periodic \in BOOLEAN, ChainAllowed(n, periodic)
    PROVE  /\ n >= 2 /\ Bonded(n, periodic) \in Nat /\ Bonded(n, periodic) <= n
           /\ \A i \in 1 .. Bonded(n, periodic) :
                 /\ i \in 1 .. n /\ Ends(i, n) \in SUBSET (1 .. n)
                 /\ \A k \in 1 .. Bonded(n, periodic) : Ends(i, n) = Ends(k, n) => i = k
<1> DEFINE B == Bonded(n, periodic)
<1>1. /\ n >= 2 /\ B \in Nat /\ B <= n
      /\ periodic => n >= 3 /\ B = n
      /\ ~periodic => B = n - 1
  BY DEF ChainAllowed, Bonded
<1> HIDE DEF B
<1>2. ASSUME NEW i \in 1 .. B
      PROVE  /\ i \in 1 .. n /\ Ends(i, n) \in SUBSET (1 .. n)
             /\ \A k \in 1 .. B : Ends(i, n) = Ends(k, n) => i = k
  <2>1. \A k \in 1 .. B : /\ k \in 1 .. n
                          /\ k < n => k % n = k
                          /\ k = n => k % n = 0
                          /\ k % n \in 0 .. n - 1
    <3> SUFFICES ASSUME NEW k \in 1 .. B
                 PROVE  /\ k \in 1 .. n
                        /\ k < n => k % n = k
                        /\ k = n => k % n = 0
                        /\ k % n \in 0 .. n - 1
      OBVIOUS
    <3>1. k \in 1 .. n
      BY <1>1
    <3> QED BY <1>1, <3>1, NextSite
  <2>2. i \in 1 .. n /\ (i % n) + 1 \in 1 .. n
    BY <2>1
  <2>3. Ends(i, n) \in SUBSET (1 .. n)
    BY <2>2 DEF Ends
  <2>4. ASSUME NEW k \in 1 .. B, Ends(i, n) = Ends(k, n)
        PROVE  i = k
    <3> DEFINE x == (i % n) + 1
               y == (k % n) + 1
    <3>1. {i, x} = {k, y}
      BY <2>4 DEF Ends
    <3>2. (i = k /\ x = y) \/ (i = y /\ x = k)
      <4> HIDE DEF x, y
      <4> QED BY <3>1
    <3>3. /\ i < n => x = i + 1
          /\ i = n => x = 1
          /\ k < n => y = k + 1
          /\ k = n => y = 1
      BY <2>1
    <3>4. i \in 1 .. n /\ k \in 1 .. n
      BY <2>1
    <3> HIDE DEF x, y
    <3>5. CASE periodic
      BY <1>1, <3>2, <3>3, <3>4, <3>5
    <3>6. CASE ~periodic
      <4>1. i < n /\ k < n
        BY <1>1, <3>6
      <4> QED BY <3>2, <3>3, <3>4, <4>1
    <3> QED BY <3>5, <3>6
  <2> QED BY <2>2, <2>3, <2>4
<1> QED BY <1>1, <1>2 DEF B

\* The masks of a bond, of a site, and their strings.
LEMMA LinkMasks ==
    ASSUME NEW n \in Nat, NEW p \in Signs, NEW coeff \in Int, NEW i \in 1 .. n,
           Ends(i, n) \in SUBSET (1 .. n), NEW t, t = Link(p, coeff, i, n)
    PROVE  /\ t.coeff \in Int /\ t.coeff = coeff /\ t.paulis \in Strings(n)
           /\ t.paulis = OnSites(p, Ends(i, n), n)
           /\ Dense(t.coeff, t.paulis) = Pair(coeff, p, <<i - 1, i % n>>)
<1> DEFINE P == OnSites(p, Ends(i, n), n)
           x == (i % n) + 1
<1>1. t.coeff = coeff /\ t.paulis = P
  BY DEF Link
<1>2. P \in Strings(n) /\ Dense(coeff, P) = Mask(coeff, {<<p, k - 1>> : k \in Ends(i, n)})
  BY OnSitesMasks
<1>3. {<<p, k - 1>> : k \in Ends(i, n)} = {<<p, i - 1>>, <<p, x - 1>>}
  BY DEF Ends
<1>4. i \in 1 .. n /\ n \in Nat \ {0} /\ i \in Nat
  OBVIOUS
<1>5. i % n \in Int
  BY <1>4, Division
<1>6. x - 1 = i % n
  BY <1>5
<1>7. Pair(coeff, p, <<i - 1, i % n>>) = Mask(coeff, {<<p, i - 1>>, <<p, i % n>>})
  BY DEF Pair
<1> HIDE DEF P, x
<1>8. Dense(coeff, P) = Pair(coeff, p, <<i - 1, i % n>>)
  BY <1>2, <1>3, <1>6, <1>7, Zenon
<1> QED BY <1>1, <1>2, <1>8 DEF P

IsSite(t, p, coeff, i, n) ==
    /\ t.coeff \in Int /\ t.coeff = coeff /\ t.paulis \in Strings(n)
    /\ t.paulis = OnSites(p, {i}, n)
    /\ Dense(t.coeff, t.paulis) = Mask(coeff, {<<p, i - 1>>})

LEMMA SiteMasks ==
    ASSUME NEW n \in Nat, NEW p \in Signs, NEW coeff \in Int, NEW i \in 1 .. n
    PROVE  IsSite(Site(p, coeff, i, n), p, coeff, i, n)
<1> DEFINE P == OnSites(p, {i}, n)
           t == Site(p, coeff, i, n)
<1>1. t.coeff = coeff /\ t.paulis = P
  BY DEF Site
<1>2. P \in Strings(n) /\ Dense(coeff, P) = Mask(coeff, {<<p, k - 1>> : k \in {i}})
  BY OnSitesMasks
<1>3. {<<p, k - 1>> : k \in {i}} = {<<p, i - 1>>}
  OBVIOUS
<1> HIDE DEF P, t
<1>4. IsSite(t, p, coeff, i, n)
  BY <1>1, <1>2, <1>3, Zenon DEF P, IsSite
<1> QED BY <1>4 DEF t

-----------------------------------------------------------------------------
(* Each kind of observable *)

LEMMA GivenStrings ==
    ASSUME NEW o, IsHamiltonian(o), o.what = "pauli_terms"
    PROVE  \E f : SpelledOut(Masks(o), DocumentedTerms(o), f, o.n)
<1> DEFINE n == o.n
           N == Len(o.terms)
           g == [k \in 1 .. N |->
                   [at |-> k, coeff |-> o.terms[k].coeff, paulis |-> o.terms[k].paulis]]
           masks == Masks(o)
           D == DocumentedTerms(o)
           R == [coeff : Int, paulis : [1 .. n -> Letters]]
<1>1. n \in Nat /\ o.terms \in Seq(R)
  BY DEF IsHamiltonian, Letters
<1> HIDE DEF R
<1>2. N \in Nat /\ DOMAIN o.terms = 1 .. N /\ \A k \in 1 .. N : o.terms[k] \in R
  BY <1>1
<1>3. \A k \in 1 .. N : o.terms[k].coeff \in Int /\ o.terms[k].paulis \in Strings(n)
  BY <1>2 DEF R, Strings
<1>4. masks = [k \in 1 .. N |-> Dense(o.terms[k].coeff, o.terms[k].paulis)]
  BY <1>2 DEF Masks
<1>5. D = {[at |-> k, coeff |-> o.terms[k].coeff, paulis |-> o.terms[k].paulis] : k \in 1 .. N}
  BY <1>2 DEF DocumentedTerms
<1> HIDE DEF masks, D, N, n
<1>6. \A k \in 1 .. N : /\ g[k].coeff = o.terms[k].coeff /\ g[k].paulis = o.terms[k].paulis
                        /\ g[k].at = k
                        /\ g[k] = [at |-> k, coeff |-> o.terms[k].coeff,
                                   paulis |-> o.terms[k].paulis]
  OBVIOUS
<1>7. D = {g[k] : k \in 1 .. N}
  BY <1>5
<1> HIDE DEF g
<1>8. masks = [k \in 1 .. N |-> Dense(g[k].coeff, g[k].paulis)]
  BY <1>4, <1>6
<1>9. \A k \in 1 .. N : g[k].coeff \in Int /\ g[k].paulis \in Strings(n)
  BY <1>3, <1>6
<1>10. \A k, l \in 1 .. N : g[k] = g[l] => k = l
  BY <1>6
<1>11. N \in Nat
  BY <1>2
<1>12. SpelledOut(masks, D, g, n)
  BY <1>1, <1>7, <1>8, <1>9, <1>10, <1>11, SpellsIndexed
<1> QED BY <1>12 DEF masks, D, n

\* The bonds of a chain with one letter.
LEMMA SpellsLinks ==
    ASSUME NEW n \in Nat, NEW periodic \in BOOLEAN, ChainAllowed(n, periodic),
           NEW p \in Signs, NEW coeff \in Int
    PROVE  LET bonds == Bonds(n, periodic) IN
           \E f : SpelledOut([b \in DOMAIN bonds |-> Pair(coeff, p, bonds[b])],
                         {Link(p, coeff, i, n) : i \in 1 .. Bonded(n, periodic)}, f, n)
<1> DEFINE B == Bonded(n, periodic)
           bonds == Bonds(n, periodic)
           masks == [b \in DOMAIN bonds |-> Pair(coeff, p, bonds[b])]
           g == [i \in 1 .. B |-> Link(p, coeff, i, n)]
           D == {Link(p, coeff, i, n) : i \in 1 .. B}
<1>1. /\ B \in Nat
      /\ \A i \in 1 .. B :
            /\ i \in 1 .. n /\ Ends(i, n) \in SUBSET (1 .. n)
            /\ \A k \in 1 .. B : Ends(i, n) = Ends(k, n) => i = k
  BY BondFacts
<1>2. DOMAIN bonds = 1 .. B /\ \A i \in 1 .. B : bonds[i] = <<i - 1, i % n>>
  BY DEF Bonds, Bonded
<1> HIDE DEF B, bonds
<1>3. \A i \in 1 .. B :
         /\ g[i].coeff \in Int /\ g[i].paulis \in Strings(n)
         /\ g[i].paulis = OnSites(p, Ends(i, n), n)
         /\ Dense(g[i].coeff, g[i].paulis) = Pair(coeff, p, <<i - 1, i % n>>)
  <2> SUFFICES ASSUME NEW i \in 1 .. B
               PROVE  /\ g[i].coeff \in Int /\ g[i].paulis \in Strings(n)
                      /\ g[i].paulis = OnSites(p, Ends(i, n), n)
                      /\ Dense(g[i].coeff, g[i].paulis) = Pair(coeff, p, <<i - 1, i % n>>)
    OBVIOUS
  <2>1. g[i] = Link(p, coeff, i, n)
    OBVIOUS
  <2> HIDE DEF g
  <2>2. i \in 1 .. n /\ Ends(i, n) \in SUBSET (1 .. n)
    BY <1>1
  <2> QED BY <2>1, <2>2, LinkMasks
<1>4. D = {g[i] : i \in 1 .. B}
  OBVIOUS
<1> HIDE DEF g, D
<1>5. masks = [i \in 1 .. B |-> Dense(g[i].coeff, g[i].paulis)]
  BY <1>2, <1>3
<1>6. \A i, k \in 1 .. B : g[i] = g[k] => i = k
  <2> SUFFICES ASSUME NEW i \in 1 .. B, NEW k \in 1 .. B, g[i] = g[k]
               PROVE  i = k
    OBVIOUS
  <2>1. Ends(i, n) \in SUBSET (1 .. n) /\ Ends(k, n) \in SUBSET (1 .. n)
    BY <1>1
  <2>2. OnSites(p, Ends(i, n), n) = OnSites(p, Ends(k, n), n)
    BY <1>3
  <2>3. Ends(i, n) = Ends(k, n)
    BY <2>1, <2>2, OnSitesDiffer
  <2> QED BY <1>1, <2>3
<1> HIDE DEF masks
<1>7. \A i \in 1 .. B : g[i].coeff \in Int /\ g[i].paulis \in Strings(n)
  BY <1>3
<1>8. SpelledOut(masks, D, g, n)
  BY <1>1, <1>4, <1>5, <1>6, <1>7, SpellsIndexed
<1> QED BY <1>8 DEF masks, D, bonds, B

AllSites(p, coeff, n) == {Site(p, coeff, i, n) : i \in 1 .. n}
SiteList(p, coeff, n) == [q \in 1 .. n |-> Mask(coeff, {<<p, q - 1>>})]

LEMMA SpellsSites ==
    ASSUME NEW n \in Nat, NEW p \in Signs, NEW coeff \in Int
    PROVE  /\ \E f : SpelledOut(SiteList(p, coeff, n), AllSites(p, coeff, n), f, n)
           /\ IsFiniteSet(AllSites(p, coeff, n))
           /\ \A t \in AllSites(p, coeff, n) : t.coeff = coeff /\ t.paulis \in Strings(n)
<1> DEFINE masks == [q \in 1 .. n |-> Mask(coeff, {<<p, q - 1>>})]
           g == [i \in 1 .. n |-> Site(p, coeff, i, n)]
           D == {Site(p, coeff, i, n) : i \in 1 .. n}
<1>1. \A i \in 1 .. n :
         /\ g[i].coeff \in Int /\ g[i].coeff = coeff /\ g[i].paulis \in Strings(n)
         /\ g[i].paulis = OnSites(p, {i}, n)
         /\ Dense(g[i].coeff, g[i].paulis) = Mask(coeff, {<<p, i - 1>>})
  <2> SUFFICES ASSUME NEW i \in 1 .. n
               PROVE  /\ g[i].coeff \in Int /\ g[i].coeff = coeff /\ g[i].paulis \in Strings(n)
                      /\ g[i].paulis = OnSites(p, {i}, n)
                      /\ Dense(g[i].coeff, g[i].paulis) = Mask(coeff, {<<p, i - 1>>})
    OBVIOUS
  <2>1. g[i] = Site(p, coeff, i, n)
    OBVIOUS
  <2> HIDE DEF g
  <2>2. IsSite(g[i], p, coeff, i, n)
    BY <2>1, SiteMasks
  <2> QED BY <2>2, Zenon DEF IsSite
<1>2. D = {g[i] : i \in 1 .. n}
  OBVIOUS
<1> HIDE DEF g, D
<1>3. masks = [i \in 1 .. n |-> Dense(g[i].coeff, g[i].paulis)]
  BY <1>1
<1>4. \A i, k \in 1 .. n : g[i] = g[k] => i = k
  <2> SUFFICES ASSUME NEW i \in 1 .. n, NEW k \in 1 .. n, g[i] = g[k]
               PROVE  i = k
    OBVIOUS
  <2>1. {i} \in SUBSET (1 .. n) /\ {k} \in SUBSET (1 .. n)
    OBVIOUS
  <2>2. OnSites(p, {i}, n) = OnSites(p, {k}, n)
    BY <1>1
  <2>3. {i} = {k}
    BY <2>1, <2>2, OnSitesDiffer
  <2> QED BY <2>3
<1> HIDE DEF masks
<1>5. \A i \in 1 .. n : g[i].coeff \in Int /\ g[i].paulis \in Strings(n)
  BY <1>1
<1>6. SpelledOut(masks, D, g, n)
  BY <1>2, <1>3, <1>4, <1>5, SpellsIndexed
<1>7. IsFiniteSet(D)
  BY <1>6 DEF SpelledOut
<1>8. \A t \in D : t.coeff = coeff /\ t.paulis \in Strings(n)
  BY <1>1, <1>2
<1> QED BY <1>6, <1>7, <1>8 DEF masks, D, AllSites, SiteList

LEMMA IsingStrings ==
    ASSUME NEW o, IsHamiltonian(o), o.what = "ising", ChainAllowed(o.n, o.periodic)
    PROVE  \E f : SpelledOut(Masks(o), DocumentedTerms(o), f, o.n)
<1> DEFINE n == o.n
           J == -o.J
           h == -o.h
           B == Bonded(n, o.periodic)
           bonds == Bonds(n, o.periodic)
           m == [b \in DOMAIN bonds |-> Pair(J, "Z", bonds[b])]
           D == {Link("Z", J, i, n) : i \in 1 .. B}
           p == [q \in 1 .. n |-> Mask(h, {<<"X", q - 1>>})]
           E == {Site("X", h, i, n) : i \in 1 .. n}
           rest == IF o.h = 0 THEN <<>> ELSE p
<1>1. /\ n \in Nat /\ o.J \in Int /\ o.h \in Int /\ J \in Int /\ h \in Int
      /\ o.periodic \in BOOLEAN /\ "Z" \in Signs /\ "X" \in Signs
  BY DEF IsHamiltonian, Signs
<1>2. Masks(o) = m \o rest
  BY DEF Masks, IsingChain
<1>3. DocumentedTerms(o) = D \cup E
  BY DEF DocumentedTerms, Link, Site, OnSites, Ends, Bonded
<1>4. o.h = 0 => h = 0
  <2>1. o.h + h = 0
    BY <1>1
  <2> HIDE DEF h
  <2> QED BY <1>1, <2>1
<1> HIDE DEF J, h, n
<1>5. PICK f : SpelledOut(m, D, f, n)
  <2>1. ChainAllowed(n, o.periodic)
    BY DEF n
  <2> QED BY <1>1, <2>1, SpellsLinks
<1>6. /\ \E g : SpelledOut(p, E, g, n)
      /\ IsFiniteSet(E) /\ \A t \in E : t.coeff = h /\ t.paulis \in Strings(n)
  <2>1. p = SiteList("X", h, n) /\ E = AllSites("X", h, n)
    BY DEF SiteList, AllSites
  <2> HIDE DEF p, E
  <2> QED BY <1>1, <2>1, SpellsSites
<1>7. D \cap E = {}
  <2> SUFFICES ASSUME NEW i \in 1 .. B, NEW k \in 1 .. n,
                      Link("Z", J, i, n) = Site("X", h, k, n)
               PROVE  FALSE
    OBVIOUS
  <2>1. i \in 1 .. n /\ Ends(i, n) \in SUBSET (1 .. n)
    <3>1. ChainAllowed(n, o.periodic)
      BY DEF n
    <3> QED BY <1>1, <3>1, BondFacts
  <2>2. {k} \in SUBSET (1 .. n)
    OBVIOUS
  <2>3. OnSites("Z", Ends(i, n), n) = OnSites("X", {k}, n)
    BY DEF Link, Site
  <2>4. Ends(i, n) # {} => "Z" = "X"
    BY <1>1, <2>1, <2>2, <2>3, OnSitesDiffer
  <2>5. Ends(i, n) # {}
    BY DEF Ends
  <2> QED BY <2>4, <2>5
<1> HIDE DEF m, D, p, E
<1>8. PICK g : SpelledOut(rest, E, g, n)
  <2>1. CASE o.h = 0
    <3>1. \A t \in E : t.coeff \in Int /\ t.coeff = 0 /\ t.paulis \in Strings(n)
      BY <1>1, <1>4, <1>6, <2>1
    <3>2. \A g : SpelledOut(<<>>, E, g, n)
      BY <1>1, <1>6, <3>1, SpellsNone
    <3> QED BY <2>1, <3>2
  <2>2. CASE o.h # 0
    BY <1>6, <2>2
  <2> QED BY <2>1, <2>2
<1> HIDE DEF rest
<1>9. \E f1 : SpelledOut(m \o rest, D \cup E, f1, n)
  BY <1>1, <1>5, <1>7, <1>8, SpellsMore
<1> QED BY <1>2, <1>3, <1>9 DEF n

-----------------------------------------------------------------------------
(* The Heisenberg chain, bond by bond *)

LEMMA LinksDiffer ==
    ASSUME NEW n \in Nat, NEW periodic \in BOOLEAN, ChainAllowed(n, periodic),
           NEW i \in 1 .. Bonded(n, periodic), NEW k \in 1 .. Bonded(n, periodic),
           NEW p \in Signs, NEW r \in Signs, NEW c, NEW d,
           Link(p, c, i, n) = Link(r, d, k, n)
    PROVE  i = k /\ p = r
<1>1. /\ Ends(i, n) \in SUBSET (1 .. n) /\ Ends(k, n) \in SUBSET (1 .. n)
      /\ Ends(i, n) = Ends(k, n) => i = k
  BY BondFacts
<1>2. OnSites(p, Ends(i, n), n) = OnSites(r, Ends(k, n), n)
  BY DEF Link
<1>3. Ends(i, n) = Ends(k, n) /\ (Ends(i, n) # {} => p = r)
  BY <1>1, <1>2, OnSitesDiffer
<1>4. Ends(i, n) # {}
  BY DEF Ends
<1> QED BY <1>1, <1>3, <1>4

\* The strings of the first k bonds.
Linked(J, Jd, k, n) ==
    {Link("X", J, i, n) : i \in 1 .. k} \cup {Link("Y", J, i, n) : i \in 1 .. k}
        \cup {Link("Z", Jd, i, n) : i \in 1 .. k}

\* A bond's string and its mask.
IsLink(t, m, coeff, n) ==
    t.coeff \in Int /\ t.coeff = coeff /\ t.paulis \in Strings(n) /\ m = Dense(t.coeff, t.paulis)

LEMMA LinkIs ==
    ASSUME NEW n \in Nat, NEW p \in Signs, NEW coeff \in Int, NEW i \in 1 .. n,
           Ends(i, n) \in SUBSET (1 .. n)
    PROVE  IsLink(Link(p, coeff, i, n), Pair(coeff, p, <<i - 1, i % n>>), coeff, n)
<1> DEFINE t == Link(p, coeff, i, n)
<1>1. t = Link(p, coeff, i, n)
  OBVIOUS
<1> HIDE DEF t
<1>2. /\ t.coeff \in Int /\ t.coeff = coeff /\ t.paulis \in Strings(n)
      /\ t.paulis = OnSites(p, Ends(i, n), n)
      /\ Dense(t.coeff, t.paulis) = Pair(coeff, p, <<i - 1, i % n>>)
  BY <1>1, LinkMasks
<1>3. IsLink(t, Pair(coeff, p, <<i - 1, i % n>>), coeff, n)
  BY <1>2, Zenon DEF IsLink
<1> QED BY <1>1, <1>3

LEMMA TwoInARow ==
    ASSUME NEW a, NEW b
    PROVE  <<a>> \o <<b>> = <<a, b>>
<1> DEFINE S == {a, b}
           s == <<a>>
           t == <<b>>
           u == <<a, b>>
           w == s \o t
<1>1. s \in Seq(S) /\ t \in Seq(S) /\ u \in Seq(S)
  OBVIOUS
<1>2. Len(s) = 1 /\ Len(t) = 1 /\ Len(u) = 2 /\ s[1] = a /\ t[1] = b /\ u[1] = a /\ u[2] = b
  OBVIOUS
<1> HIDE DEF S, s, t, u
<1>3. /\ w \in Seq(S) /\ Len(w) = Len(s) + Len(t)
      /\ \A i \in 1 .. Len(s) + Len(t) : w[i] = IF i <= Len(s) THEN s[i] ELSE t[i - Len(s)]
  BY <1>1, ConcatProperties
<1> HIDE DEF w
<1>4. Len(w) = 2 /\ w[1] = a /\ w[2] = b
  BY <1>2, <1>3
<1>5. w = [i \in 1 .. 2 |-> w[i]] /\ u = [i \in 1 .. 2 |-> u[i]]
  BY <1>1, <1>2, <1>3, <1>4
<1>6. \A i \in 1 .. 2 : w[i] = u[i]
  BY <1>2, <1>4
<1>7. w = u
  BY <1>5, <1>6
<1> QED BY <1>7 DEF s, t, u, w

LEMMA SpellsOne ==
    ASSUME NEW n \in Nat, NEW t, t.coeff \in Int, t.paulis \in Strings(n), NEW m,
           m = Dense(t.coeff, t.paulis)
    PROVE  \E f : SpelledOut(<<m>>, {t}, f, n)
<1> DEFINE N == 1
           g == [k \in 1 .. N |-> t]
           masks == <<m>>
           D == {t}
<1>1. N \in Nat /\ (\A k \in 1 .. N : g[k] = t) /\ (\A k, l \in 1 .. N : k = l) /\ 1 \in 1 .. N
  OBVIOUS
<1>2. masks = [k \in 1 .. N |-> Dense(g[k].coeff, g[k].paulis)]
  <2>1. masks = [k \in 1 .. N |-> m]
    OBVIOUS
  <2> HIDE DEF g, masks, N
  <2> QED BY <1>1, <2>1
<1> HIDE DEF g, masks, N
<1>3. D = {g[k] : k \in 1 .. N}
  BY <1>1
<1> HIDE DEF D
<1>4. \A k \in 1 .. N : g[k].coeff \in Int /\ g[k].paulis \in Strings(n)
  BY <1>1
<1>5. \A k, l \in 1 .. N : g[k] = g[l] => k = l
  BY <1>1
<1>6. SpelledOut(masks, D, g, n)
  BY <1>1, <1>2, <1>3, <1>4, <1>5, SpellsIndexed
<1> QED BY <1>6 DEF masks, D

\* What one step of the fold appends.
WithBond(terms, J, delta, bond) ==
    (terms \o <<Pair(J, "X", bond), Pair(J, "Y", bond)>>)
        \o (IF delta = 0 THEN <<>> ELSE <<Pair(J * delta, "Z", bond)>>)

LEMMA SpellsBond ==
    ASSUME NEW n \in Nat, NEW periodic \in BOOLEAN, ChainAllowed(n, periodic),
           NEW J \in Int, NEW delta \in Int, NEW Jd \in Int, Jd = J * delta,
           NEW k \in 1 .. Bonded(n, periodic), NEW terms, NEW f,
           SpelledOut(terms, Linked(J, Jd, k - 1, n), f, n)
    PROVE  \E h : SpelledOut(WithBond(terms, J, delta, <<k - 1, k % n>>), Linked(J, Jd, k, n), h, n)
<1> DEFINE bond == <<k - 1, k % n>>
           B == Bonded(n, periodic)
           x == Link("X", J, k, n)
           y == Link("Y", J, k, n)
           z == Link("Z", Jd, k, n)
           a == Pair(J, "X", bond)
           b == Pair(J, "Y", bond)
           c == Pair(Jd, "Z", bond)
           E == Linked(J, Jd, k - 1, n)
           rest == IF delta = 0 THEN <<>> ELSE <<c>>
<1>1. "X" \in Signs /\ "Y" \in Signs /\ "Z" \in Signs
  BY DEF Signs
<1>2. /\ B \in Nat /\ k \in 1 .. B /\ k \in 1 .. n /\ Ends(k, n) \in SUBSET (1 .. n)
      /\ \A i \in 1 .. k - 1 : i \in 1 .. B /\ i # k
  <2>1. B \in Nat /\ k \in 1 .. n /\ Ends(k, n) \in SUBSET (1 .. n)
    BY BondFacts
  <2>2. k \in 1 .. B
    OBVIOUS
  <2> HIDE DEF B
  <2>3. \A i \in 1 .. k - 1 : i \in 1 .. B /\ i # k
    BY <2>1, <2>2
  <2> QED BY <2>1, <2>2, <2>3
<1>3. x.coeff \in Int /\ x.paulis \in Strings(n) /\ a = Dense(x.coeff, x.paulis)
  <2>1. IsLink(x, a, J, n)
    BY <1>1, <1>2, LinkIs
  <2> HIDE DEF x, a
  <2> QED BY <2>1, Zenon DEF IsLink
<1>4. y.coeff \in Int /\ y.paulis \in Strings(n) /\ b = Dense(y.coeff, y.paulis)
  <2>1. IsLink(y, b, J, n)
    BY <1>1, <1>2, LinkIs
  <2> HIDE DEF y, b
  <2> QED BY <2>1, Zenon DEF IsLink
<1>5. /\ z.coeff \in Int /\ z.paulis \in Strings(n) /\ c = Dense(z.coeff, z.paulis)
      /\ z.coeff = Jd
  <2>1. IsLink(z, c, Jd, n)
    BY <1>1, <1>2, LinkIs
  <2> HIDE DEF z, c
  <2> QED BY <2>1, Zenon DEF IsLink
<1>6. "X" # "Y" /\ "X" # "Z" /\ "Y" # "Z"
  OBVIOUS
<1>7. x # y /\ x # z /\ y # z
  BY <1>1, <1>2, <1>6, LinksDiffer
<1>8. x \notin E /\ y \notin E /\ z \notin E
  <2>1. ASSUME NEW p \in Signs, NEW d, NEW r \in Signs, NEW e, NEW i \in 1 .. k - 1
        PROVE  Link(p, d, k, n) # Link(r, e, i, n)
    <3>1. i \in 1 .. B /\ i # k /\ k \in 1 .. B
      BY <1>2
    <3>2. Link(p, d, k, n) = Link(r, e, i, n) => k = i
      BY <3>1, LinksDiffer
    <3> QED BY <3>1, <3>2
  <2>2. \A p \in Signs : \A d : \A r \in Signs : \A e : \A i \in 1 .. k - 1 :
           Link(p, d, k, n) # Link(r, e, i, n)
    BY <2>1
  <2> QED BY <1>1, <2>2, Zenon DEF Linked
<1>9. Linked(J, Jd, k, n) = ((E \cup {x}) \cup {y}) \cup {z}
  <2>1. 1 .. k = (1 .. k - 1) \cup {k}
    OBVIOUS
  <2>2. /\ {Link("X", J, i, n) : i \in 1 .. k} = {Link("X", J, i, n) : i \in 1 .. k - 1} \cup {x}
        /\ {Link("Y", J, i, n) : i \in 1 .. k} = {Link("Y", J, i, n) : i \in 1 .. k - 1} \cup {y}
        /\ {Link("Z", Jd, i, n) : i \in 1 .. k} = {Link("Z", Jd, i, n) : i \in 1 .. k - 1} \cup {z}
    BY <2>1
  <2> DEFINE X == {Link("X", J, i, n) : i \in 1 .. k - 1}
             Y == {Link("Y", J, i, n) : i \in 1 .. k - 1}
             Z == {Link("Z", Jd, i, n) : i \in 1 .. k - 1}
  <2>3. E = X \cup Y \cup Z /\ Linked(J, Jd, k, n)
          = (X \cup {x}) \cup (Y \cup {y}) \cup (Z \cup {z})
    BY <2>2 DEF Linked
  <2> HIDE DEF E, X, Y, Z, x, y, z
  <2> QED BY <2>3
<1>10. WithBond(terms, J, delta, bond) = (terms \o <<a, b>>) \o rest
  BY DEF WithBond
<1> HIDE DEF x, y, z, a, b, c, E
<1>11. PICK f1 : SpelledOut(<<a>>, {x}, f1, n)
  BY <1>3, SpellsOne
<1>12. PICK f2 : SpelledOut(<<b>>, {y}, f2, n)
  BY <1>4, SpellsOne
<1>13. PICK f3 : SpelledOut(rest, {z}, f3, n)
  <2>1. CASE delta = 0
    <3>1. Jd = 0
      BY <2>1
    <3>2. IsFiniteSet({z}) /\ \A t \in {z} : t.coeff \in Int /\ t.coeff = 0
            /\ t.paulis \in Strings(n)
      BY <1>5, <3>1, FS_Singleton
    <3>3. \A g : SpelledOut(<<>>, {z}, g, n)
      BY <3>2, SpellsNone
    <3> QED BY <2>1, <3>3
  <2>2. CASE delta # 0
    <3>1. \E g : SpelledOut(<<c>>, {z}, g, n)
      BY <1>5, SpellsOne
    <3> QED BY <2>2, <3>1
  <2> QED BY <2>1, <2>2
<1> HIDE DEF rest
<1>14. SpelledOut(terms, E, f, n)
  BY DEF E
<1>15. PICK g1 : SpelledOut(<<a>> \o <<b>>, {x} \cup {y}, g1, n)
  <2>1. {x} \cap {y} = {}
    BY <1>7
  <2> QED BY <1>11, <1>12, <2>1, SpellsMore
<1>16. <<a>> \o <<b>> = <<a, b>>
  BY TwoInARow, Zenon
<1>17. PICK g2 : SpelledOut(terms \o <<a, b>>, E \cup ({x} \cup {y}), g2, n)
  <2>1. E \cap ({x} \cup {y}) = {}
    BY <1>8
  <2>2. SpelledOut(<<a, b>>, {x} \cup {y}, g1, n)
    BY <1>15, <1>16, Zenon
  <2> QED BY <1>14, <2>1, <2>2, SpellsMore
<1>18. PICK g3 : SpelledOut((terms \o <<a, b>>) \o rest, (E \cup ({x} \cup {y})) \cup {z}, g3, n)
  <2>1. (E \cup ({x} \cup {y})) \cap {z} = {}
    BY <1>7, <1>8
  <2> QED BY <1>13, <1>17, <2>1, SpellsMore
<1>19. (E \cup ({x} \cup {y})) \cup {z} = Linked(J, Jd, k, n)
  BY <1>9
<1> QED BY <1>10, <1>18, <1>19, Zenon

LEMMA HeisenbergStrings ==
    ASSUME NEW o, IsHamiltonian(o), o.what = "heisenberg", ChainAllowed(o.n, o.periodic)
    PROVE  \E f : SpelledOut(Masks(o), DocumentedTerms(o), f, o.n)
<1> DEFINE n == o.n
           J == o.J
           delta == o.delta
           Jd == o.J * o.delta
           B == Bonded(n, o.periodic)
           bonds == Bonds(n, o.periodic)
           S == {Pair(c, p, bonds[b]) : c \in {J, Jd}, p \in Signs, b \in 1 .. B}
           V == Seq(S)
           base == <<>>
           whole == Masks(o)
           Next1(t, k) == WithBond(t, J, delta, bonds[k])
           F(it) == [R \in SUBSET (1 .. B) |->
                       IF R = {} THEN base ELSE Next1(it[R \ {Max(R)}], Max(R))]
<1>1. /\ n \in Nat /\ J \in Int /\ delta \in Int /\ Jd \in Int /\ Jd = J * delta
      /\ o.periodic \in BOOLEAN /\ ChainAllowed(n, o.periodic)
  BY DEF IsHamiltonian
<1>2. B \in Nat /\ DOMAIN bonds = 1 .. B /\ \A k \in 1 .. B : bonds[k] = <<k - 1, k % n>>
  <2>1. B \in Nat
    BY <1>1, BondFacts
  <2>2. DOMAIN bonds = 1 .. B /\ \A k \in 1 .. B : bonds[k] = <<k - 1, k % n>>
    BY DEF Bonds, Bonded
  <2> QED BY <2>1, <2>2
<1>3. base \in V
  OBVIOUS
<1>4. \A t \in V, k \in 1 .. B : Next1(t, k) \in V
  <2> SUFFICES ASSUME NEW t \in V, NEW k \in 1 .. B
               PROVE  Next1(t, k) \in V
    OBVIOUS
  <2> DEFINE a == Pair(J, "X", bonds[k])
             b == Pair(J, "Y", bonds[k])
             c == Pair(Jd, "Z", bonds[k])
             two == <<a, b>>
             rest == IF delta = 0 THEN <<>> ELSE <<c>>
  <2>1. a \in S /\ b \in S /\ c \in S
    <3>1. "X" \in Signs /\ "Y" \in Signs /\ "Z" \in Signs
      BY DEF Signs
    <3>2. J \in {J, Jd} /\ Jd \in {J, Jd}
      OBVIOUS
    <3>3. \A c1 \in {J, Jd}, p \in Signs : Pair(c1, p, bonds[k]) \in S
      OBVIOUS
    <3> QED BY <3>1, <3>2, <3>3
  <2>2. Next1(t, k) = (t \o two) \o rest
    BY <1>1 DEF WithBond
  <2> HIDE DEF a, b, c, S
  <2>3. two \in Seq(S) /\ rest \in Seq(S) /\ t \in Seq(S)
    BY <2>1
  <2> HIDE DEF two, rest
  <2>4. (t \o two) \o rest \in Seq(S)
    BY <2>3
  <2> QED BY <2>2, <2>4
<1>5. whole = (CHOOSE it : it = F(it))[1 .. B]
  <2>1. whole = HeisenbergChain(n, J, delta, o.periodic)
    BY DEF Masks
  <2> QED BY <1>2, <2>1 DEF HeisenbergChain, WithBond, FoldLeft, MapThenFoldSet
<1>6. DocumentedTerms(o) = Linked(J, Jd, B, n)
  BY DEF DocumentedTerms, Link, OnSites, Ends, Bonded, Linked
<1> HIDE DEF V, S, base, Next1, whole, B, n, J, delta, Jd, bonds
<1>7. \E it : it = F(it)
  <2> DEFINE step == [p \in V \X (1 .. B) |-> Next1(p[1], p[2])]
  <2>1. \A d \in V, k \in 1 .. B : step[<<d, k>>] = Next1(d, k)
    OBVIOUS
  <2> HIDE DEF step
  <2>2. PICK it : Folds(it, B, base, step, V)
    <3>1. \A d \in V, k \in 1 .. B : step[<<d, k>>] \in V
      BY <1>4, <2>1
    <3> QED BY <1>2, <1>3, <3>1, FoldExists
  <2>3. /\ it \in [SUBSET (1 .. B) -> V]
        /\ \A R \in SUBSET (1 .. B) :
              it[R] = IF R = {} THEN base ELSE step[<<it[R \ {Max(R)}], Max(R)>>]
    BY <2>2 DEF Folds
  <2>4. ASSUME NEW R \in SUBSET (1 .. B)
        PROVE  it[R] = IF R = {} THEN base ELSE Next1(it[R \ {Max(R)}], Max(R))
    <3>1. CASE R # {}
      <4>1. Max(R) \in 1 .. B /\ it[R \ {Max(R)}] \in V
        BY <1>2, <2>3, <3>1, Greatest
      <4> QED BY <2>1, <2>3, <3>1, <4>1
    <3> QED BY <2>3, <3>1
  <2>5. it = F(it)
    BY <2>3, <2>4
  <2> QED BY <2>5
<1>8. PICK it : it = F(it) /\ whole = it[1 .. B]
  BY <1>5, <1>7
<1>9. it[{}] = base
  BY <1>8
<1>10. ASSUME NEW k \in 1 .. B PROVE it[1 .. k] = Next1(it[1 .. k - 1], k)
  <2>1. Max(1 .. k) = k /\ (1 .. k) \ {k} = 1 .. k - 1
    BY <1>2, PartOfAll, GreatestOfAll
  <2>2. 1 .. k \in SUBSET (1 .. B) /\ 1 .. k # {}
    BY <1>2, PartOfAll
  <2> QED BY <1>8, <2>1, <2>2
<1> DEFINE T == {k \in 0 .. B : \E f : SpelledOut(it[1 .. k], Linked(J, Jd, k, n), f, n)}
<1>11. 0 \in T
  <2> DEFINE D == Linked(J, Jd, 0, n)
  <2>1. 1 .. 0 = {} /\ 0 \in 0 .. B
    BY <1>2
  <2>2. D = {}
    BY <2>1 DEF Linked
  <2> HIDE DEF D
  <2>3. IsFiniteSet(D) /\ \A t \in D : t.coeff \in Int /\ t.coeff = 0 /\ t.paulis \in Strings(n)
    BY <2>2, FS_EmptySet
  <2>4. \A f : SpelledOut(<<>>, D, f, n)
    BY <1>1, <2>3, SpellsNone
  <2>5. it[1 .. 0] = <<>>
    BY <1>9, <2>1 DEF base
  <2> QED BY <2>1, <2>4, <2>5 DEF D
<1>12. ASSUME NEW k \in 1 .. B, k - 1 \in T PROVE k \in T
  <2>1. PICK f : SpelledOut(it[1 .. k - 1], Linked(J, Jd, k - 1, n), f, n)
    BY <1>12
  <2>2. k \in 0 .. B /\ k \in 1 .. Bonded(n, o.periodic)
    BY <1>2 DEF B
  <2>3. it[1 .. k] = WithBond(it[1 .. k - 1], J, delta, <<k - 1, k % n>>)
    BY <1>2, <1>10 DEF Next1
  <2> DEFINE terms == it[1 .. k - 1]
  <2>4. SpelledOut(terms, Linked(J, Jd, k - 1, n), f, n)
    BY <2>1
  <2> HIDE DEF terms
  <2>5. \E h : SpelledOut(WithBond(terms, J, delta, <<k - 1, k % n>>), Linked(J, Jd, k, n), h, n)
    BY <1>1, <2>2, <2>4, SpellsBond
  <2>6. \E h : SpelledOut(it[1 .. k], Linked(J, Jd, k, n), h, n)
    BY <2>3, <2>5 DEF terms
  <2> QED BY <2>2, <2>6
<1>13. \A k \in 0 .. B : k \in T
  <2> HIDE DEF T
  <2> QED BY <1>2, <1>11, <1>12, Climb
<1>14. \E f : SpelledOut(it[1 .. B], Linked(J, Jd, B, n), f, n)
  <2>1. B \in 0 .. B
    BY <1>2
  <2> QED BY <1>13, <2>1
<1> QED BY <1>6, <1>8, <1>14 DEF whole, n

-----------------------------------------------------------------------------
(* The expectation, and the theorem *)

LEMMA StringsOf ==
    ASSUME NEW o, IsHamiltonian(o), o.what # "pauli_terms" => ChainAllowed(o.n, o.periodic)
    PROVE  \E f : SpelledOut(Masks(o), DocumentedTerms(o), f, o.n)
<1>1. CASE o.what = "pauli_terms"
  BY <1>1, GivenStrings
<1>2. CASE o.what = "ising"
  <2>1. ChainAllowed(o.n, o.periodic)
    BY <1>2
  <2> QED BY <1>2, <2>1, IsingStrings
<1>3. CASE o.what = "heisenberg"
  <2>1. ChainAllowed(o.n, o.periodic)
    BY <1>3
  <2> QED BY <1>3, <2>1, HeisenbergStrings
<1> QED BY <1>1, <1>2, <1>3 DEF IsHamiltonian

LEMMA ExpectationIsRight ==
    ASSUME Powers, SInv, Finished, TakesExpectation
    PROVE  Reads(circuit, result)'
<1>1. pc = "ran"
  BY DEF TakesExpectation
<1>2. PICK o \in Hamiltonians :
         /\ o.n = circuit.n
         /\ IF o.what # "pauli_terms" /\ ~ChainAllowed(o.n, o.periodic)
            THEN Given("threw", <<>>)
            ELSE Given("expectation", [of |-> o, energy |-> ExpectationValue(mem, Masks(o))])
  BY DEF TakesExpectation
<1>3. CASE Given("threw", <<>>)
  BY <1>3 DEF Given, Reads
<1>4. CASE /\ o.what # "pauli_terms" => ChainAllowed(o.n, o.periodic)
           /\ Given("expectation", [of |-> o, energy |-> ExpectationValue(mem, Masks(o))])
  <2> DEFINE e == ExpectationValue(mem, Masks(o))
             v == [of |-> o, energy |-> e]
             n == circuit.n
             psi == Final(circuit)
  <2>1. result' = [what |-> "expectation", value |-> v] /\ circuit' = circuit
    BY <1>4 DEF Given, building
  <2>2. n \in Nat /\ IsState(psi, n) /\ mem = psi
    BY <1>1, WhenRan
  <2>3. PICK f : SpelledOut(Masks(o), DocumentedTerms(o), f, o.n)
    <3>1. IsHamiltonian(o)
      BY RuntimeAssumption
    <3> QED BY <1>4, <3>1, StringsOf
  <2>4. e = Expected(psi, DocumentedTerms(o))
    <3> DEFINE masks == Masks(o)
               D == DocumentedTerms(o)
    <3>1. SpelledOut(masks, D, f, n)
      BY <1>2, <2>3
    <3> HIDE DEF masks, D, psi, n
    <3>9. n \in Nat
      BY <2>2
    <3>10. IsState(psi, n)
      BY <2>2
    <3>2. ExpectationValue(psi, masks) = Expected(psi, D)
      BY <3>1, <3>9, <3>10, EnergyIs
    <3>3. e = ExpectationValue(psi, masks)
      BY <2>2 DEF masks
    <3> QED BY <3>2, <3>3, Zenon DEF D
  <2>5. v.of = o /\ v.energy = e
    OBVIOUS
  <2> HIDE DEF v, e
  <2>6. IsEnergy(circuit, v)
    BY <2>4, <2>5, Zenon DEF IsEnergy, Expected, psi
  <2>7. result'.what = "expectation" /\ result'.value = v
    BY <2>1
  <2> QED BY <2>1, <2>6, <2>7 DEF Reads
<1> QED BY <1>2, <1>3, <1>4

\* Nothing else comes to a reading, and a reading stays until the next circuit.
Read1 == pc = "read" => Reads(circuit, result)

LEMMA ReadSteps ==
    ASSUME Powers, SInv, Finished, Read1, [Next]_vars
    PROVE  Read1'
<1>0. IInv
  BY DEF SInv
<1>1. CASE ReadsState
  <2>1. Given("threw", <<>>) \/ Given("state", mem)
    BY <1>1 DEF ReadsState
  <2> QED BY <2>1 DEF Given, Reads, Read1
<1>2. CASE SamplesOnce
  BY <1>2, ShotIsRight DEF Read1
<1>3. CASE TakesExpectation
  BY <1>3, ExpectationIsRight DEF Read1
<1>4. CASE TakesAnswer
  BY <1>4, AnswerIsRight DEF Read1
<1>5. CASE \/ AddsGate \/ Measures \/ AllocatesParameter \/ CallsLibrary \/ Binds
           \/ NextCircuit \/ Run \/ InitializeFails \/ Initializes \/ SubmitsGate
           \/ HostWaits \/ DeviceWorks \/ RunReturns
  <2>1. pc' # "read"
    <3>1. CASE AddsGate \/ Measures \/ AllocatesParameter \/ CallsLibrary \/ Binds
      <4>1. \A c, x, m : Built(c, x, m) => pc' = "build"
        BY DEF Built
      <4> QED BY <3>1, <4>1 DEF AddsGate, Measures, AllocatesParameter, CallsLibrary, Binds
    <3>2. CASE HostWaits
      BY <1>0, <3>2 DEF HostWaits, Seed, Wait, IInv, KInv, Busy
    <3>3. CASE DeviceWorks
      <4>1. IInv'
        BY <1>0, StepIInv
      <4>2. pc' = pc /\ pc = "gates"
        BY <3>3, <4>1, DeviceFrame
      <4> QED BY <4>2
    <3> QED BY <1>5, <3>1, <3>2, <3>3
            DEF NextCircuit, Run, InitializeFails, Initializes, SubmitsGate, RunReturns
  <2> QED BY <2>1 DEF Read1
<1>6. CASE UNCHANGED vars
  BY <1>6 DEF vars, Read1
<1> QED BY <1>1, <1>2, <1>3, <1>4, <1>5, <1>6 DEF Next

\* For circuits of every width, on either device, and however the work items of
\* the kernels interleave: what sample_counts(), expectation() and qaoa() return
\* is of the circuit the caller built, run from |0...0>: a shot is an outcome of
\* its final state, an expectation that of the observable's Pauli strings, and the
\* answer of qaoa() the largest cut among its samples, at its cost.
THEOREM ReadingsAreOfTheCircuit ==
    ASSUME Doubling
    PROVE  Spec => []ReadsTheCircuit
<1>p. Powers
  BY PowersDivide
<1> DEFINE I == SInv /\ Followed /\ Finished /\ Read1
<1>1. Init => I
  <2> SUFFICES ASSUME Init PROVE I
    OBVIOUS
  <2> QED BY <1>p, InitSInv, InitFollows DEF Read1
<1>2. I /\ [Next]_vars => I'
  <2> SUFFICES ASSUME I, [Next]_vars PROVE I'
    OBVIOUS
  <2>1. SInv'
    BY <1>p, Refines
  <2>2. Followed' /\ Finished'
    BY <1>p, FollowsSteps
  <2>3. Read1'
    BY <1>p, ReadSteps
  <2> QED BY <2>1, <2>2, <2>3
<1>3. I => ReadsTheCircuit
  <2> SUFFICES ASSUME I PROVE ReadsTheCircuit
    OBVIOUS
  <2>1. CASE pc = "read"
    BY <1>p, <2>1, ReadsWhatIsThere DEF Read1
  <2>2. CASE pc # "read"
    BY <2>2 DEF ReadsTheCircuit
  <2> QED BY <2>1, <2>2
<1> HIDE DEF I
<1> QED BY <1>1, <1>2, <1>3, PTL DEF Spec

-----------------------------------------------------------------------------
(* append_basis_state() *)

\* Half as many numbers have one bit less, and zero has none.
LEMMA ZeroBits ==
    ASSUME Doubling, NEW n \in Nat, NEW i \in Indices(n), \A q \in 0 .. n - 1 : BitOf(i, q) = 0
    PROVE  i = 0
<1>0. Powers
  BY PowersDivide
<1> DEFINE T == {d \in 0 .. n : i < 2^(n - d)}
<1>1. 0 \in T /\ i \in Nat
  BY <1>0 DEF Powers, Indices
<1>2. ASSUME NEW d \in 1 .. n, d - 1 \in T PROVE d \in T
  <2> DEFINE m == n - d
             x == 2^m
  <2>1. m \in 0 .. n - 1 /\ m \in Nat /\ n - (d - 1) = m + 1
    OBVIOUS
  <2>2. x \in Nat \ {0} /\ 2^(m + 1) = 2 * x
    BY <1>0, <2>1 DEF Powers, Doubling
  <2>3. i < 2 * x
    BY <1>2, <2>1, <2>2
  <2>4. (i \div x) % 2 = 0
    BY <2>1 DEF BitOf
  <2> HIDE DEF x, m
  <2> DEFINE a == i \div x
             r == i % x
  <2>5. i = x * a + r /\ r \in 0 .. x - 1 /\ a \in Nat
    BY <1>1, <2>2, Division
  <2> HIDE DEF a, r
  <2>6. a + 1 <= 2
    <3>1. a * x + r < 2 * x
      BY <2>2, <2>3, <2>5
    <3> QED BY <2>2, <2>5, <3>1, QuotientIsBelow
  <2>7. a % 2 = 0
    BY <2>4 DEF a
  <2>8. a = 0
    BY <2>5, <2>6, <2>7
  <2>9. i < x
    BY <2>2, <2>5, <2>8
  <2> QED BY <2>9 DEF x, m
<1> HIDE DEF T
<1>3. n \in T
  BY <1>1, <1>2, Climb
<1>4. n - n = 0 /\ i < 2^(n - n)
  BY <1>3 DEF T
<1>5. i < 1
  BY <1>4 DEF Doubling
<1> QED BY <1>1, <1>5

\* X sets a bit that is clear.
LEMMA SetsKet ==
    ASSUME Powers, NEW n \in Nat, NEW q \in 0 .. n - 1, NEW j \in Indices(n), BitOf(j, q) = 0
    PROVE  /\ j + 2^q \in Indices(n)
           /\ Promised!Act(Gate("X", <<q>>, <<>>), Promised!Ket(j, n)) = Promised!Ket(j + 2^q, n)
<1> DEFINE s == Promised!Ket(j, n)
           t == Promised!Acted(Promised!Pauli("X"), {}, q, s)
           b == j + 2^q
<1>0. q \in Nat /\ j \in Nat /\ 2^q \in Nat
  BY DEF Indices, Powers
<1>1. IsState(s, n) /\ Promised!Basis(n) = Indices(n)
  BY KetType
<1>2. b \in Indices(n) /\ BitOf(b, q) = 1
  BY <1>0, SetsBit DEF Indices
<1>3. Promised!Act(Gate("X", <<q>>, <<>>), s) = t
  <2> DEFINE g == Gate("X", <<q>>, <<>>)
  <2>1. g.type = "X" /\ g.qubits[1] = q /\ "X" \in OneQubit
    BY DEF Gate, OneQubit
  <2> HIDE DEF g
  <2>2. Promised!Definition(g) = Promised!Pauli("X")
    BY <2>1 DEF Promised!Definition
  <2>3. Promised!Act(g, s) = t
    BY <2>1, <2>2 DEF Promised!Act, Promised!OneQubit, OneQubit
  <2> QED BY <2>3 DEF g
<1>4. IsState(t, n)
  <2>1. Entries(Promised!Pauli("X"))
    <3>1. XMatrix = <<Zero, One, One, Zero>> /\ Zero \in Amplitude /\ One \in Amplitude
      BY ConstantsType DEF XMatrix
    <3> QED BY <3>1, PauliEntries DEF Entries
  <2> QED BY <1>1, <2>1, ActedType
<1>5. ASSUME NEW i \in Indices(n)
      PROVE  t[i] = IF i = b THEN One ELSE Zero
  <2> DEFINE o == Toggled(i, q)
  <2>1. i \in Nat /\ (BitOf(i, q) = 0 \/ BitOf(i, q) = 1)
    BY <1>0, BitIsOne DEF Indices
  <2>2. o \in Indices(n) /\ BitOf(o, q) = 1 - BitOf(i, q)
    BY Toggles DEF Toggled
  <2>3. t[i] = Times(One, s[o])
    <3>1. "X" \in Letters
      BY DEF Letters
    <3>2. t[i] = Times(Weight("X", BitOf(i, q)), s[Source("X", i, q)])
      BY <1>1, <3>1, PauliRow
    <3> QED BY <3>2 DEF Weight, Source
  <2>4. s[o] \in Amplitude /\ s[o] = IF o = j THEN One ELSE Zero
    BY <1>1, <2>2 DEF IsState, Promised!Ket, Promised!One, One, Promised!Zero, Zero,
       Promised!Complex, Complex, Promised!Prime, Prime
  <2>5. o = j <=> i = b
    <3>1. CASE BitOf(i, q) = 1
      <4>1. o = i - 2^q
        BY <3>1 DEF Toggled
      <4> QED BY <1>0, <2>1, <4>1
    <3>2. CASE BitOf(i, q) = 0
      BY <1>2, <2>2, <3>2
    <3> QED BY <2>1, <3>1, <3>2
  <2> HIDE DEF o, b, t, s
  <2> QED BY <2>3, <2>4, <2>5, Units
<1>6. Promised!Ket(b, n) = [i \in Indices(n) |-> IF i = b THEN One ELSE Zero]
  BY <1>1 DEF Promised!Ket, Promised!One, One, Promised!Zero, Zero,
     Promised!Complex, Complex, Promised!Prime, Prime
<1>7. t = [i \in Indices(n) |-> t[i]]
  BY <1>4 DEF IsState
<1> HIDE DEF t, b, s
<1>8. t = Promised!Ket(b, n)
  BY <1>5, <1>6, <1>7
<1> QED BY <1>2, <1>3, <1>8 DEF b, s

\* One more bit set in a number that has only those of M.
LEMMA SetsOneMore ==
    ASSUME Powers, NEW n \in Nat, NEW q \in 0 .. n - 1, NEW M \in SUBSET (0 .. n - 1), q \notin M
    PROVE  /\ Flip(0, M) \in Indices(n) /\ BitOf(Flip(0, M), q) = 0
           /\ Flip(0, M \cup {q}) = Flip(0, M) + 2^q
<1>1. 0 \in Indices(n) /\ q \in Nat
  BY DEF Powers, Indices
<1>2. BitOf(0, q) = 0
  <2> DEFINE x == 2^q
  <2>1. x \in Nat \ {0}
    BY <1>1 DEF Powers
  <2>2. BitOf(0, q) = (0 \div x) % 2
    BY DEF BitOf
  <2> HIDE DEF x
  <2>3. 0 \div x = 0
    BY <2>1
  <2> QED BY <2>2, <2>3
<1>3. Flips(0, M, n)
  BY <1>1, FlipBits
<1>4. Flip(0, M) \in Indices(n) /\ BitOf(Flip(0, M), q) = 0
  BY <1>2, <1>3 DEF Flips
<1>5. M \cup {q} \in SUBSET Nat /\ IsFiniteSet(M \cup {q}) /\ (M \cup {q}) \ {q} = M
  <2>1. IsFiniteSet(0 .. n - 1)
    BY FS_Interval
  <2>2. IsFiniteSet(M \cup {q})
    BY <2>1, FS_Subset
  <2> QED BY <2>2
<1>6. Flip(0, M \cup {q}) = Flip(0, M) + Turn(0)[q]
  <2> DEFINE P == M \cup {q}
  <2>1. P \in SUBSET Nat /\ IsFiniteSet(P) /\ q \in P /\ P \ {q} = M
    BY <1>5
  <2> HIDE DEF P
  <2>2. Flip(0, P) = Flip(0, P \ {q}) + Turn(0)[q]
    BY <2>1, FlipOneLess
  <2> QED BY <2>1, <2>2 DEF P
<1>7. Turn(0)[q] = 2^q
  BY <1>1, <1>2 DEF Turn, Set, BitOf
<1> QED BY <1>4, <1>6, <1>7

\* A number below 2^n is what setting its bits makes of zero.
LEMMA FromItsBits ==
    ASSUME Doubling, NEW n \in Nat, NEW bits \in Indices(n)
    PROVE  Flip(0, {q \in 0 .. n - 1 : Set(bits, q)}) = bits
<1> DEFINE M == {q \in 0 .. n - 1 : Set(bits, q)}
           z == Flip(bits, M)
<1>1. Powers /\ M \in SUBSET (0 .. n - 1) /\ bits \in Nat
  BY PowersDivide DEF Indices
<1>2. Flips(bits, M, n)
  BY <1>1, FlipBits
<1>3. ASSUME NEW q \in 0 .. n - 1 PROVE BitOf(z, q) = 0
  <2>1. BitOf(z, q) = IF q \in M THEN 1 - BitOf(bits, q) ELSE BitOf(bits, q)
    BY <1>2 DEF Flips
  <2>2. BitOf(bits, q) = 0 \/ BitOf(bits, q) = 1
    BY <1>1, BitIsOne
  <2>3. q \in M <=> BitOf(bits, q) = 1
    BY DEF Set, BitOf
  <2> HIDE DEF M
  <2> QED BY <2>1, <2>2, <2>3
<1>4. z \in Indices(n)
  BY <1>2 DEF Flips
<1>5. z = 0
  <2> HIDE DEF z
  <2> QED BY <1>3, <1>4, ZeroBits
<1>6. Flip(z, M) = bits
  <2> HIDE DEF M
  <2> QED BY <1>1, FlipTwice
<1> QED BY <1>5, <1>6

\* A basis state is prepared bit by bit.
LEMMA BasisStateIs ==
    ASSUME Doubling, NEW n \in Nat, NEW c \in CircuitsOn(n), NEW bits \in Nat,
           ~BasisStateThrows(c, bits)
    PROVE  RunAll(Added(c, BasisState(c, bits)), Promised!Ket(0, n)) = Promised!Ket(bits, n)
<1> DEFINE M == {q \in 0 .. n - 1 : Set(bits, q)}
           set == Ascending(n, M)
           N == Len(set)
           gates == [k \in DOMAIN set |-> Gate("X", <<set[k]>>, <<>>)]
           Part(k) == {set[i] : i \in 1 .. k}
           f == [k \in 0 .. N |-> Promised!Ket(Flip(0, Part(k)), n)]
<1>0. Powers /\ c.n = n /\ c.ops \in Seq(GateOp)
  BY PowersDivide, CircuitFacts
<1>1. bits \in Indices(n)
  <2> DEFINE x == 2^n
  <2>1. bits \div x = 0
    BY <1>0 DEF BasisStateThrows
  <2>2. x \in Nat \ {0}
    BY <1>0 DEF Powers
  <2> HIDE DEF x
  <2>3. bits = x * (bits \div x) + (bits % x) /\ bits % x \in 0 .. x - 1
    BY <2>2, Division
  <2>4. bits \in 0 .. x - 1
    BY <2>1, <2>2, <2>3
  <2> QED BY <2>4 DEF x, Indices
<1>2. /\ set \in Seq(0 .. n - 1)
      /\ \A i \in 1 .. N : set[i] \in M
      /\ \A i, j \in 1 .. N : i # j => set[i] # set[j]
      /\ \A q \in 0 .. n - 1 : q \in M => \E i \in 1 .. N : set[i] = q
  <2> HIDE DEF M
  <2> QED BY AscendingFacts
<1>3. BasisState(c, bits) = AddGates(c, gates)
  BY <1>0 DEF BasisState
<1>4. Part(N) = M
  <2> HIDE DEF set, N
  <2> QED BY <1>2 DEF M
<1> HIDE DEF M, set
<1>5. N \in Nat /\ DOMAIN set = 1 .. N
  BY <1>2
<1> HIDE DEF N
<1>6. gates \in Seq(GatesOn(n, c.params)) /\ gates \in Seq(GateOp) /\ Len(gates) = N
  <2>1. ASSUME NEW k \in 1 .. N PROVE Gate("X", <<set[k]>>, <<>>) \in GatesOn(n, c.params)
    <3>1. "X" \in OneQubit /\ Arguments("X") = 0 /\ set[k] \in 0 .. n - 1
      BY <1>2, <1>5 DEF OneQubit, Arguments, N
    <3>2. <<>> \in Seq(Args(c.params)) /\ Len(<<>>) = 0 /\ c.params \in Nat
      BY CircuitFacts
    <3> QED BY <3>1, <3>2, MakesOne
  <2>2. GatesOn(n, c.params) \subseteq GateOp
    BY DEF GatesOn
  <2> QED BY <1>5, <2>1, <2>2
<1>7. GatesFit(gates, n)
  <2>1. \A k \in 1 .. N : gates[k] \in GatesOn(n, c.params)
    BY <1>6
  <2> QED BY <1>6, <2>1 DEF GatesFit, GatesOn
<1>8. f[0] = Promised!Ket(0, n) /\ IsState(Promised!Ket(0, n), n)
  <2>1. Part(0) = {}
    OBVIOUS
  <2>2. 0 \in 0 .. N
    BY <1>5
  <2>3. Flip(0, {}) = 0
    <3>1. IsFiniteSet({0})
      BY FS_Singleton, Zenon
    <3>2. {0} \in SUBSET Nat /\ 0 \in {0} /\ 0 \in Int
      OBVIOUS
    <3> QED BY <1>0, <3>1, <3>2, FlipOneLess
  <2> QED BY <1>0, <2>1, <2>2, <2>3, KetType
<1>9. ASSUME NEW k \in 1 .. N PROVE f[k] = Promised!Act(gates[k], f[k - 1])
  <2> DEFINE q == set[k]
             P == Part(k - 1)
             j == Flip(0, P)
  <2>1. k \in 0 .. N /\ k - 1 \in 0 .. N
    BY <1>5
  <2>2. q \in 0 .. n - 1
    BY <1>2, <1>5 DEF N
  <2>3. P \in SUBSET (0 .. n - 1) /\ q \notin P /\ Part(k) = P \cup {q}
    <3>1. \A i \in 1 .. k - 1 : i \in 1 .. N /\ i # k
      BY <1>5
    <3>2. 1 .. k = (1 .. k - 1) \cup {k}
      BY <1>5
    <3>3. \A i \in 1 .. k - 1 : set[i] \in 0 .. n - 1 /\ set[i] # q
      BY <1>2, <3>1 DEF N
    <3> QED BY <3>2, <3>3
  <2>4. gates[k] = Gate("X", <<q>>, <<>>)
    BY <1>5
  <2> HIDE DEF q, P, gates
  <2>5. j \in Indices(n) /\ BitOf(j, q) = 0 /\ Flip(0, P \cup {q}) = j + 2^q
    BY <1>0, <2>2, <2>3, SetsOneMore
  <2>6. f[k] = Promised!Ket(Flip(0, Part(k)), n) /\ f[k - 1] = Promised!Ket(j, n)
    BY <2>1 DEF P
  <2> HIDE DEF f, j, Part
  <2>7. Promised!Act(Gate("X", <<q>>, <<>>), Promised!Ket(j, n)) = Promised!Ket(j + 2^q, n)
    BY <1>0, <2>2, <2>5, SetsKet
  <2> QED BY <2>3, <2>4, <2>5, <2>6, <2>7
<1>10. f[N] = Promised!Ket(bits, n)
  <2>1. N \in 0 .. N
    BY <1>5
  <2>2. Flip(0, Part(N)) = bits
    BY <1>1, <1>4, FromItsBits DEF M
  <2> QED BY <2>1, <2>2
<1> HIDE DEF f
<1>11. RunAll(gates, Promised!Ket(0, n)) = f[N]
  <2> HIDE DEF gates
  <2> QED BY <1>0, <1>6, <1>7, <1>8, <1>9, OneRun
<1>12. Added(c, BasisState(c, bits)) = gates
  <2>1. AddGates(c, gates).ops = c.ops \o gates
    <3>1. c = [n |-> n, params |-> c.params, ops |-> c.ops, measured |-> c.measured]
      BY CircuitFacts
    <3> HIDE DEF gates
    <3> QED BY <3>1 DEF AddGates
  <2> HIDE DEF gates
  <2> QED BY <1>0, <1>3, <1>6, <2>1, AddedIs
<1> QED BY <1>10, <1>11, <1>12

-----------------------------------------------------------------------------
(* Runs of circuits put together *)

\* To run two lists of gates is to run the one and then the other.
LEMMA RunJoins ==
    ASSUME Powers, NEW n \in Nat, NEW a, GatesFit(a, n), NEW b, GatesFit(b, n),
           NEW s, IsState(s, n)
    PROVE  /\ GatesFit(a \o b, n) /\ IsState(RunAll(a, s), n)
           /\ RunAll(a \o b, s) = RunAll(b, RunAll(a, s))
<1> DEFINE N == Len(a)
           L == Len(b)
           w == a \o b
<1>1. /\ a \in Seq(GateOp) /\ b \in Seq(GateOp) /\ N \in Nat /\ L \in Nat
      /\ w \in Seq(GateOp) /\ Len(w) = N + L
      /\ \A k \in 1 .. N : w[k] = a[k]
      /\ \A k \in 1 .. L : w[N + k] = b[k]
  BY DEF GatesFit
<1> HIDE DEF w
<1>2. \A k \in 1 .. N + L : k \in 1 .. N \/ (k - N \in 1 .. L /\ N + (k - N) = k)
  BY <1>1
<1>3. GatesFit(w, n)
  <2>1. ASSUME NEW k \in 1 .. N + L PROVE WellFormed(w[k], n)
    <3>1. CASE k \in 1 .. N
      BY <1>1, <3>1 DEF GatesFit
    <3>2. CASE k - N \in 1 .. L /\ N + (k - N) = k
      <4>1. w[k] = b[k - N]
        BY <1>1, <3>2
      <4> QED BY <3>2, <4>1 DEF GatesFit
    <3> QED BY <1>2, <3>1, <3>2
  <2> QED BY <1>1, <2>1 DEF GatesFit
<1>4. PICK f : Runs(f, a, s, n) /\ RunAll(a, s) = f[N]
  BY RunSteps
<1>5. IsState(f[N], n) /\ f[0] = s /\ \A k \in 1 .. N : f[k] = Promised!Act(a[k], f[k - 1])
  BY <1>1, <1>4 DEF Runs
<1>6. PICK h : Runs(h, b, f[N], n) /\ RunAll(b, f[N]) = h[L]
  BY <1>5, RunSteps
<1>7. h[0] = f[N] /\ \A k \in 1 .. L : h[k] = Promised!Act(b[k], h[k - 1])
  BY <1>6 DEF Runs
<1> HIDE DEF N, L
<1> DEFINE e == [k \in 0 .. N + L |-> IF k <= N THEN f[k] ELSE h[k - N]]
<1>8. /\ e[0] = s
      /\ \A k \in 0 .. N : e[k] = f[k]
      /\ \A k \in 0 .. L : e[N + k] = h[k]
  <2>1. \A k \in 0 .. N : k \in 0 .. N + L /\ k <= N
    BY <1>1
  <2>2. ASSUME NEW k \in 0 .. L PROVE e[N + k] = h[k]
    <3>1. N + k \in 0 .. N + L /\ (N + k) - N = k
      BY <1>1
    <3>2. CASE k = 0
      <4>1. N + k = N
        BY <1>1, <3>2
      <4>2. e[N] = f[N]
        BY <1>1, <3>1, <4>1
      <4> QED BY <1>7, <3>2, <4>1, <4>2
    <3>3. CASE k # 0
      <4>1. ~(N + k <= N)
        BY <1>1, <3>3
      <4> QED BY <3>1, <4>1
    <3> QED BY <3>2, <3>3
  <2> QED BY <1>1, <1>5, <2>1, <2>2
<1> HIDE DEF e
<1>9. ASSUME NEW k \in 1 .. N + L PROVE e[k] = Promised!Act(w[k], e[k - 1])
  <2>1. CASE k \in 1 .. N
    <3>1. k \in 0 .. N /\ k - 1 \in 0 .. N
      BY <1>1, <2>1
    <3> QED BY <1>1, <1>5, <1>8, <2>1, <3>1
  <2>2. CASE k - N \in 1 .. L /\ N + (k - N) = k
    <3> DEFINE i == k - N
    <3>1. i \in 1 .. L /\ i \in 0 .. L /\ i - 1 \in 0 .. L /\ N + i = k /\ N + (i - 1) = k - 1
      BY <1>1, <2>2
    <3> HIDE DEF i
    <3>2. e[k] = h[i] /\ e[k - 1] = h[i - 1] /\ w[k] = b[i]
      BY <1>1, <1>8, <3>1
    <3> QED BY <1>7, <3>1, <3>2
  <2> QED BY <1>2, <2>1, <2>2
<1>10. RunAll(w, s) = e[N + L]
  <2>1. \A k \in 1 .. Len(w) : e[k] = Promised!Act(w[k], e[k - 1])
    BY <1>1, <1>9
  <2>2. RunAll(w, s) = e[Len(w)]
    BY <1>3, <1>8, <2>1, OneRun
  <2> QED BY <1>1, <2>2
<1>11. e[N + L] = h[L]
  <2>1. L \in 0 .. L
    BY <1>1
  <2> QED BY <1>8, <2>1, Zenon
<1> QED BY <1>3, <1>4, <1>5, <1>6, <1>10, <1>11 DEF w

\* A scalar goes through a gate, ...
Rescaled(z, s) == [j \in DOMAIN s |-> Times(z, s[j])]

LEMMA RescaledType ==
    ASSUME NEW n \in Nat, NEW z \in Amplitude, NEW s, IsState(s, n)
    PROVE  /\ IsState(Rescaled(z, s), n)
           /\ \A j \in Indices(n) : Rescaled(z, s)[j] = Times(z, s[j])
BY ArithmeticType DEF IsState, Rescaled

LEMMA ActedRescaled ==
    ASSUME Powers, NEW n \in Nat, NEW q \in 0 .. n - 1, NEW control, NEW m, Entries(m),
           NEW z \in Amplitude, NEW s, IsState(s, n)
    PROVE  Promised!Acted(m, control, q, Rescaled(z, s))
             = Rescaled(z, Promised!Acted(m, control, q, s))
<1> DEFINE r == Rescaled(z, s)
           t == Promised!Acted(m, control, q, s)
           u == Promised!Acted(m, control, q, r)
<1>1. IsState(r, n) /\ \A j \in Indices(n) : r[j] = Times(z, s[j])
  BY RescaledType
<1>2. IsState(t, n) /\ IsState(u, n)
  <2> HIDE DEF r
  <2> QED BY <1>1, ActedType
<1>3. ASSUME NEW j \in Indices(n) PROVE u[j] = Times(z, t[j])
  <2> DEFINE x == Promised!WithBit(j, q, 0)
             y == Promised!WithBit(j, q, 1)
             b == Promised!Bit(j, q)
             blocked == \E c \in control : Promised!Bit(j, c) = 0
  <2>1. x \in Indices(n) /\ y \in Indices(n)
    BY BitSet
  <2>2. b \in {0, 1}
    <3>1. j \in Nat /\ q \in Nat
      BY DEF Indices
    <3> QED BY <3>1, BitIsOne
  <2>3. DOMAIN s = Indices(n) /\ DOMAIN r = Indices(n)
    BY <1>1 DEF IsState
  <2>4. /\ t[j] = IF blocked THEN s[j]
                  ELSE Plus(Times(m[2 * b + 1], s[x]), Times(m[2 * b + 2], s[y]))
        /\ u[j] = IF blocked THEN r[j]
                  ELSE Plus(Times(m[2 * b + 1], r[x]), Times(m[2 * b + 2], r[y]))
    <3> HIDE DEF r
    <3> QED BY <2>3, SameArithmetic DEF Promised!Acted
  <2> HIDE DEF x, y, b, blocked, r, t, u
  <2>5. m[2 * b + 1] \in Amplitude /\ m[2 * b + 2] \in Amplitude
    <3>1. 2 * b + 1 \in 1 .. 4 /\ 2 * b + 2 \in 1 .. 4
      BY <2>2
    <3> QED BY <3>1 DEF Entries
  <2>6. s[x] \in Amplitude /\ s[y] \in Amplitude /\ r[x] = Times(z, s[x]) /\ r[y] = Times(z, s[y])
        /\ r[j] = Times(z, s[j])
    BY <1>1, <2>1 DEF IsState
  <2> DEFINE p == m[2 * b + 1]
             o == m[2 * b + 2]
             v == s[x]
             w == s[y]
  <2>7. p \in Amplitude /\ o \in Amplitude /\ v \in Amplitude /\ w \in Amplitude
    BY <2>5, <2>6
  <2>8. /\ t[j] = IF blocked THEN s[j] ELSE Plus(Times(p, v), Times(o, w))
        /\ u[j] = IF blocked THEN Times(z, s[j]) ELSE Plus(Times(p, Times(z, v)), Times(o, Times(z,
            w)))
    BY <2>4, <2>6
  <2> HIDE DEF p, o, v, w
  <2>9. Plus(Times(p, Times(z, v)), Times(o, Times(z, w))) = Times(z, Plus(Times(p, v), Times(o, w)))
    <3>1. Times(p, Times(z, v)) = Times(z, Times(p, v)) /\ Times(o, Times(z, w)) = Times(z, Times(o, w))
      BY <2>7, FactorsMove
    <3>2. Times(p, v) \in Amplitude /\ Times(o, w) \in Amplitude
      BY <2>7, ArithmeticType
    <3> QED BY <3>1, <3>2, Distributive
  <2> QED BY <2>8, <2>9
<1> HIDE DEF u, t, r
<1>4. u = [j \in Indices(n) |-> u[j]] /\ DOMAIN t = Indices(n)
  BY <1>2 DEF IsState
<1>5. u = Rescaled(z, t)
  BY <1>3, <1>4 DEF Rescaled
<1> QED BY <1>5 DEF u, t, r

\* ... and through a run of gates with matrices.
LEMMA RunRescaled ==
    ASSUME Powers, NEW n \in Nat, NEW gates, GatesFit(gates, n),
           \A k \in 1 .. Len(gates) : gates[k].type # "SWAP",
           NEW z \in Amplitude, NEW s, IsState(s, n)
    PROVE  RunAll(gates, Rescaled(z, s)) = Rescaled(z, RunAll(gates, s))
<1> DEFINE N == Len(gates)
<1>1. PICK f : Runs(f, gates, s, n) /\ RunAll(gates, s) = f[N]
  BY RunSteps
<1> DEFINE e == [k \in 0 .. N |-> Rescaled(z, f[k])]
<1>2. N \in Nat /\ e[0] = Rescaled(z, s) /\ e[N] = Rescaled(z, f[N])
  BY <1>1 DEF GatesFit, Runs
<1>3. ASSUME NEW k \in 1 .. N PROVE e[k] = Promised!Act(gates[k], e[k - 1])
  <2> DEFINE g == gates[k]
             t == f[k - 1]
  <2>1. k \in 0 .. N /\ k - 1 \in 0 .. N
    BY <1>2
  <2>2. IsState(t, n) /\ f[k] = Promised!Act(g, t)
    BY <1>1, <2>1 DEF Runs
  <2>3. g \in GateOp /\ WellFormed(g, n) /\ g.type # "SWAP"
    BY DEF GatesFit
  <2>4. e[k] = Rescaled(z, f[k]) /\ e[k - 1] = Rescaled(z, t)
    BY <2>1
  <2> HIDE DEF g, t, e
  <2>5. Entries(Promised!Definition(g))
    BY <2>3, DefinitionType
  <2>6. Promised!Act(g, Rescaled(z, t)) = Rescaled(z, Promised!Act(g, t))
    <3> DEFINE m == Promised!Definition(g)
    <3>1. CASE g.type \in OneQubit
      <4>1. g.qubits[1] \in 0 .. n - 1
        BY <2>3, <3>1 DEF WellFormed, OneQubit, TwoQubit
      <4>2. \A u : Promised!Act(g, u) = Promised!Acted(m, {}, g.qubits[1], u)
        BY <2>3, <3>1 DEF Promised!Act, Promised!OneQubit, OneQubit
      <4> HIDE DEF m
      <4> QED BY <2>2, <2>5, <4>1, <4>2, ActedRescaled DEF m
    <3>2. CASE g.type \notin OneQubit
      <4>1. g.qubits[2] \in 0 .. n - 1
        BY <2>3, <3>2 DEF WellFormed
      <4>2. \A u : Promised!Act(g, u) = Promised!Acted(m, {g.qubits[1]}, g.qubits[2], u)
        BY <2>3, <3>2 DEF Promised!Act, Promised!OneQubit, OneQubit
      <4> HIDE DEF m
      <4> QED BY <2>2, <2>5, <4>1, <4>2, ActedRescaled DEF m
    <3> QED BY <3>1, <3>2
  <2> QED BY <2>2, <2>4, <2>6 DEF g
<1>4. IsState(Rescaled(z, s), n)
  BY RescaledType
<1> HIDE DEF e
<1>5. RunAll(gates, Rescaled(z, s)) = e[N]
  BY <1>2, <1>3, <1>4, OneRun
<1> QED BY <1>1, <1>2, <1>5

-----------------------------------------------------------------------------
(* A cost term *)

\* Phases of their own for the basis states.
Phased(h, s) == [j \in DOMAIN s |-> Times(Phase(h[j]), s[j])]
Phases(n) == [Indices(n) -> Int]

LEMMA PhasedType ==
    ASSUME NEW n \in Nat, NEW h \in Phases(n), NEW s, IsState(s, n)
    PROVE  /\ IsState(Phased(h, s), n)
           /\ \A j \in Indices(n) : Phased(h, s)[j] = Times(Phase(h[j]), s[j])
<1>1. ASSUME NEW j \in Indices(n) PROVE Times(Phase(h[j]), s[j]) \in Amplitude
  <2>1. h[j] \in Int /\ s[j] \in Amplitude
    BY DEF Phases, IsState
  <2> QED BY <2>1, ConstantsType, ArithmeticType
<1>2. DOMAIN s = Indices(n)
  BY DEF IsState
<1> QED BY <1>1, <1>2 DEF IsState, Phased

\* Phases add up.
LEMMA PhasedTwice ==
    ASSUME NEW n \in Nat, NEW h \in Phases(n), NEW k \in Phases(n), NEW l \in Phases(n),
           \A j \in Indices(n) : l[j] = k[j] + h[j], NEW s, IsState(s, n)
    PROVE  Phased(k, Phased(h, s)) = Phased(l, s)
<1>1. IsState(Phased(h, s), n) /\ IsState(Phased(k, Phased(h, s)), n) /\ IsState(Phased(l, s), n)
  BY PhasedType
<1>2. ASSUME NEW j \in Indices(n)
      PROVE  Phased(k, Phased(h, s))[j] = Phased(l, s)[j]
  <2>1. h[j] \in Int /\ k[j] \in Int /\ s[j] \in Amplitude
    BY DEF Phases, IsState
  <2>2. Phased(k, Phased(h, s))[j] = Times(Phase(k[j]), Times(Phase(h[j]), s[j]))
    BY <1>1, PhasedType
  <2>3. Phase(k[j]) \in Amplitude /\ Phase(h[j]) \in Amplitude
    BY <2>1, ConstantsType
  <2>4. Times(Phase(k[j]), Times(Phase(h[j]), s[j])) = Times(Phase(k[j] + h[j]), s[j])
    <3> DEFINE p == Phase(k[j])
               q == Phase(h[j])
               x == s[j]
    <3>1. Times(p, q) = Phase(k[j] + h[j])
      BY <2>1, TurnsAdd
    <3>2. p \in Amplitude /\ q \in Amplitude /\ x \in Amplitude
      BY <2>1, <2>3
    <3> HIDE DEF p, q, x
    <3>3. Times(p, Times(q, x)) = Times(Times(p, q), x)
      BY <3>2, Associative
    <3> QED BY <3>1, <3>3 DEF p, q, x
  <2>5. Phased(l, s)[j] = Times(Phase(k[j] + h[j]), s[j])
    BY PhasedType
  <2> QED BY <2>2, <2>4, <2>5
<1> DEFINE a == Phased(k, Phased(h, s))
           b == Phased(l, s)
<1>3. a \in [Indices(n) -> Amplitude] /\ b \in [Indices(n) -> Amplitude]
  BY <1>1 DEF IsState
<1>4. \A j \in Indices(n) : a[j] = b[j]
  BY <1>2
<1> HIDE DEF a, b
<1>5. a = b
  BY <1>3, <1>4
<1> QED BY <1>5 DEF a, b

Link2(c, t) == Gate("CNOT", <<c, t>>, <<>>)
Turn2(t, a) == Gate("RZ", <<t>>, <<Constant(a)>>)

\* RZ turns by the bit of its qubit.
LEMMA TurnRow ==
    ASSUME Powers, NEW n \in Nat, NEW t \in 0 .. n - 1, NEW a \in Int
    PROVE  /\ Turn2(t, a) \in GateOp /\ WellFormed(Turn2(t, a), n)
           /\ \A s : IsState(s, n) => \A j \in Indices(n) :
                 Promised!Act(Turn2(t, a), s)[j]
                   = Times(Phase(IF BitOf(j, t) = 1 THEN a ELSE -a), s[j])
<1> DEFINE g == Turn2(t, a)
           m == Promised!Definition(g)
<1>1. "RZ" \in OneQubit /\ Arguments("RZ") = 1
  BY DEF OneQubit, Arguments
<1>2. g \in GatesOn(n, 0)
  BY <1>1, ConstantArgument, MakesOne DEF Turn2
<1>3. g.type = "RZ" /\ g.qubits[1] = t /\ g.args = <<Constant(a)>>
  BY DEF Gate, Turn2
<1>4. [i \in DOMAIN <<Constant(a)>> |-> <<Constant(a)>>[i].offset][1] = a
  BY ConstantArgument
<1>5. Matrix(g) = RZMatrix(a)
  BY <1>3, <1>4 DEF Matrix
<1> HIDE DEF g
<1>6. g \in GateOp /\ WellFormed(g, n) /\ g.type \in OneQubit /\ g.type # "SWAP"
  BY <1>1, <1>2, <1>3 DEF GatesOn
<1>7. m[1] = Phase(-a) /\ m[2] = Zero /\ m[3] = Zero /\ m[4] = Phase(a)
  <2>1. \A k \in 1 .. 4 : m[k] = RZMatrix(a)[k]
    BY <1>5, <1>6, MatrixIsMeant
  <2> HIDE DEF m
  <2>2. m[1] = RZMatrix(a)[1] /\ m[2] = RZMatrix(a)[2] /\ m[3] = RZMatrix(a)[3]
        /\ m[4] = RZMatrix(a)[4]
    BY <2>1
  <2> QED BY <2>2 DEF RZMatrix
<1> HIDE DEF m
<1>8. ASSUME NEW s, IsState(s, n), NEW j \in Indices(n)
      PROVE  Promised!Act(g, s)[j] = Times(Phase(IF BitOf(j, t) = 1 THEN a ELSE -a), s[j])
  <2> DEFINE u == Promised!Act(g, s)
  <2>1. u = Promised!Acted(m, {}, t, s)
    BY <1>3, <1>6 DEF Promised!Act, Promised!OneQubit, OneQubit, m
  <2>2. PICK i \in Indices(n) : BitOf(i, t) = 0 /\ (j = i \/ j = i + 2^t)
    BY Partner
  <2> DEFINE o == i + 2^t
  <2>3. i \in Nat /\ t \in Nat
    BY DEF Indices, Powers
  <2>4. o \in Indices(n) /\ AtPair(m, s, u, i, o)
    <3>1. {} \in SUBSET (Nat \ {t}) /\ ~Blocked(i, {})
      BY DEF Blocked
    <3> HIDE DEF u
    <3> QED BY <1>8, <2>1, <2>2, <3>1, ActedAt
  <2> HIDE DEF u, o
  <2>5. /\ u[i] = Plus(Times(m[1], s[i]), Times(m[2], s[o]))
        /\ u[o] = Plus(Times(m[3], s[i]), Times(m[4], s[o]))
    BY <2>4 DEF AtPair
  <2> DEFINE x == s[i]
             y == s[o]
             p == Phase(-a)
             q == Phase(a)
  <2>6. x \in Amplitude /\ y \in Amplitude /\ p \in Amplitude /\ q \in Amplitude
    BY <1>8, <2>2, <2>4, ConstantsType DEF IsState
  <2>7. u[i] = Plus(Times(p, x), Times(Zero, y)) /\ u[o] = Plus(Times(Zero, x), Times(q, y))
    BY <1>7, <2>5
  <2> HIDE DEF x, y, p, q
  <2>8. u[i] = Times(p, x) /\ u[o] = Times(q, y)
    <3>1. Times(p, x) \in Amplitude /\ Times(q, y) \in Amplitude
      BY <2>6, ArithmeticType
    <3> QED BY <2>6, <2>7, <3>1, Units
  <2>9. BitOf(i, t) # 1 /\ BitOf(o, t) = 1
    BY <2>2, <2>3, SetsBit DEF o
  <2>10. CASE j = i
    BY <2>8, <2>9, <2>10, Zenon DEF p, x, u
  <2>11. CASE j = o
    BY <2>8, <2>9, <2>11, Zenon DEF q, y, u
  <2> QED BY <2>2, <2>10, <2>11 DEF o
<1> QED BY <1>6, <1>8 DEF g

\* CNOT takes its amplitudes from the index with the target flipped, or not.
LEMMA LinkRow ==
    ASSUME Powers, NEW n \in Nat, NEW c \in 0 .. n - 1, NEW t \in 0 .. n - 1, c # t
    PROVE  /\ Link2(c, t) \in GateOp /\ WellFormed(Link2(c, t), n)
           /\ \A s : IsState(s, n) => \A j \in Indices(n) :
                 Promised!Act(Link2(c, t), s)[j]
                   = s[IF BitOf(j, c) = 1 THEN Toggled(j, t) ELSE j]
<1> DEFINE g == Link2(c, t)
           m == Promised!Definition(g)
<1>1. g \in GatesOn(n, 0)
  BY MakesTwo DEF Link2
<1>2. g.type = "CNOT" /\ g.qubits[1] = c /\ g.qubits[2] = t
  BY DEF Gate, Link2
<1>3. Matrix(g) = XMatrix
  BY <1>2 DEF Matrix
<1> HIDE DEF g
<1>4. g \in GateOp /\ WellFormed(g, n) /\ g.type # "SWAP"
  BY <1>1, <1>2 DEF GatesOn
<1>5. m[1] = Zero /\ m[2] = One /\ m[3] = One /\ m[4] = Zero
  <2>1. \A k \in 1 .. 4 : m[k] = XMatrix[k]
    BY <1>3, <1>4, MatrixIsMeant
  <2> HIDE DEF m
  <2>2. m[1] = XMatrix[1] /\ m[2] = XMatrix[2] /\ m[3] = XMatrix[3] /\ m[4] = XMatrix[4]
    BY <2>1
  <2> QED BY <2>2 DEF XMatrix
<1> HIDE DEF m
<1>6. ASSUME NEW s, IsState(s, n), NEW j \in Indices(n)
      PROVE  Promised!Act(g, s)[j] = s[IF BitOf(j, c) = 1 THEN Toggled(j, t) ELSE j]
  <2> DEFINE u == Promised!Act(g, s)
  <2>1. u = Promised!Acted(m, {c}, t, s)
    BY <1>2, <1>4 DEF Promised!Act, Promised!OneQubit, m
  <2>2. PICK i \in Indices(n) : BitOf(i, t) = 0 /\ (j = i \/ j = i + 2^t)
    BY Partner
  <2> DEFINE o == i + 2^t
  <2>3. i \in Nat /\ t \in Nat /\ c \in Nat /\ 2^t \in Nat
    BY DEF Indices, Powers
  <2>4. /\ o \in Indices(n)
        /\ Blocked(i, {c}) => u[i] = s[i] /\ u[o] = s[o]
        /\ ~Blocked(i, {c}) => AtPair(m, s, u, i, o)
    <3> DEFINE C == {c}
    <3>1. C \in SUBSET (Nat \ {t})
      BY <2>3
    <3>2. u = Promised!Acted(m, C, t, s)
      BY <2>1
    <3> HIDE DEF u, C
    <3>3. IsState(s, n) /\ BitOf(i, t) = 0
      BY <1>6, <2>2
    <3>4. /\ i + 2^t \in Indices(n)
          /\ Blocked(i, C) => u[i] = s[i] /\ u[i + 2^t] = s[i + 2^t]
          /\ ~Blocked(i, C) => AtPair(m, s, u, i, i + 2^t)
      BY <3>1, <3>2, <3>3, ActedAt
    <3> QED BY <3>4, Zenon DEF C
  <2>5. BitOf(i, t) = 0 /\ BitOf(o, t) = 1 /\ BitOf(o, c) = BitOf(i, c)
    BY <2>2, <2>3, SetsBit
  <2>6. BitOf(i, c) = 0 \/ BitOf(i, c) = 1
    BY <2>3, BitIsOne
  <2>7. Blocked(i, {c}) <=> BitOf(i, c) = 0
    BY DEF Blocked
  <2>8. Toggled(i, t) = o /\ Toggled(o, t) = i
    <3>1. o - 2^t = i
      BY <2>3
    <3> HIDE DEF o
    <3> QED BY <2>5, <3>1 DEF Toggled, o
  <2> HIDE DEF u, o
  <2>9. CASE BitOf(i, c) = 0
    <3>1. u[i] = s[i] /\ u[o] = s[o] /\ BitOf(i, c) # 1 /\ BitOf(o, c) # 1
      BY <2>4, <2>5, <2>7, <2>9
    <3> QED BY <2>2, <3>1, Zenon DEF u, o
  <2>10. CASE BitOf(i, c) = 1
    <3> DEFINE x == s[i]
               y == s[o]
    <3>1. x \in Amplitude /\ y \in Amplitude
      BY <1>6, <2>2, <2>4 DEF IsState
    <3>2. /\ u[i] = Plus(Times(m[1], x), Times(m[2], y))
          /\ u[o] = Plus(Times(m[3], x), Times(m[4], y))
      BY <2>4, <2>7, <2>10 DEF AtPair
    <3>3. /\ u[i] = Plus(Times(Zero, x), Times(One, y))
          /\ u[o] = Plus(Times(One, x), Times(Zero, y))
      BY <1>5, <3>2
    <3> HIDE DEF x, y
    <3>4. u[i] = y /\ u[o] = x
      BY <3>1, <3>3, Units
    <3>5. BitOf(o, c) = 1
      BY <2>5, <2>10
    <3> QED BY <2>2, <2>8, <2>10, <3>4, <3>5, Zenon DEF u, o, x, y
  <2> QED BY <2>6, <2>9, <2>10
<1> QED BY <1>4, <1>6 DEF g

\* The index that a fan of CNOTs onto qubit t, from these qubits, takes from.
Steered(j, C, t) == IF Odd(j, C) THEN Toggled(j, t) ELSE j

LEMMA OddOthers ==
    ASSUME Powers, NEW n \in Nat, NEW t \in 0 .. n - 1, NEW C \in SUBSET ((0 .. n - 1) \ {t}),
           NEW j \in Indices(n)
    PROVE  /\ Toggled(j, t) \in Indices(n) /\ Toggled(Toggled(j, t), t) = j
           /\ BitOf(Toggled(j, t), t) = 1 - BitOf(j, t)
           /\ Odd(Toggled(j, t), C) = Odd(j, C)
<1> DEFINE i == Toggled(j, t)
<1>1. /\ i \in Indices(n) /\ BitOf(i, t) = 1 - BitOf(j, t)
      /\ \A c \in 0 .. n - 1 : c # t => BitOf(i, c) = BitOf(j, c)
  BY Toggles DEF Toggled
<1>2. j \in Nat /\ t \in Nat /\ 2^t \in Nat /\ (BitOf(j, t) = 0 \/ BitOf(j, t) = 1)
  <2>1. j \in Nat /\ t \in Nat /\ 2^t \in Nat
    BY DEF Indices, Powers
  <2> QED BY <2>1, BitIsOne
<1>3. Toggled(i, t) = j
  <2>1. CASE BitOf(j, t) = 0
    <3>1. i = j + 2^t /\ BitOf(i, t) = 1
      BY <1>1, <2>1 DEF Toggled
    <3>2. Toggled(i, t) = i - 2^t
      BY <3>1 DEF Toggled
    <3> HIDE DEF i
    <3> QED BY <1>2, <3>1, <3>2
  <2>2. CASE BitOf(j, t) = 1
    <3>1. i = j - 2^t /\ BitOf(i, t) = 0
      BY <1>1, <2>2 DEF Toggled
    <3>2. Toggled(i, t) = i + 2^t
      BY <3>1 DEF Toggled
    <3> HIDE DEF i
    <3> QED BY <1>2, <3>1, <3>2
  <2> QED BY <1>2, <2>1, <2>2
<1> HIDE DEF i
<1>4. {q \in C : Set(i, q)} = {q \in C : Set(j, q)}
  <2>1. \A q \in C : Set(i, q) <=> Set(j, q)
    BY <1>1 DEF Set, BitOf
  <2> QED BY <2>1
<1>5. Odd(i, C) = Odd(j, C)
  BY <1>4 DEF Odd
<1> QED BY <1>1, <1>3, <1>5 DEF i

LEMMA SteeredIs ==
    ASSUME Powers, NEW n \in Nat, NEW t \in 0 .. n - 1, NEW C \in SUBSET ((0 .. n - 1) \ {t}),
           NEW j \in Indices(n)
    PROVE  /\ Steered(j, C, t) \in Indices(n) /\ Steered(Steered(j, C, t), C, t) = j
           /\ BitOf(Steered(j, C, t), t) = 1 <=> Odd(j, C \cup {t})
<1> DEFINE i == Toggled(j, t)
<1>1. /\ i \in Indices(n) /\ Toggled(i, t) = j /\ BitOf(i, t) = 1 - BitOf(j, t)
      /\ Odd(i, C) = Odd(j, C)
  BY OddOthers
<1>2. BitOf(j, t) = 0 \/ BitOf(j, t) = 1
  <2>1. j \in Nat /\ t \in Nat
    BY DEF Indices
  <2> QED BY <2>1, BitIsOne
<1>3. IsFiniteSet(C) /\ t \notin C
  <2>1. IsFiniteSet(0 .. n - 1) /\ C \subseteq 0 .. n - 1
    BY FS_Interval
  <2> QED BY <2>1, FS_Subset
<1>4. /\ Odd(j, C) \in BOOLEAN
      /\ Set(j, t) => (Odd(j, C \cup {t}) <=> ~Odd(j, C))
      /\ ~Set(j, t) => (Odd(j, C \cup {t}) <=> Odd(j, C))
  BY <1>3, OddOneMore
<1>5. Set(j, t) <=> BitOf(j, t) = 1
  BY DEF Set, BitOf
<1> HIDE DEF i
<1>6. CASE Odd(j, C)
  <2>1. Steered(j, C, t) = i /\ Steered(i, C, t) = j
    BY <1>1, <1>6 DEF Steered, i
  <2>2. BitOf(i, t) = 1 <=> ~Set(j, t)
    BY <1>1, <1>2, <1>5
  <2> QED BY <1>1, <1>4, <1>6, <2>1, <2>2
<1>7. CASE ~Odd(j, C)
  <2>1. Steered(j, C, t) = j
    BY <1>7 DEF Steered
  <2> QED BY <1>4, <1>5, <1>7, <2>1
<1> QED BY <1>6, <1>7

LEMMA OneLinkMore ==
    ASSUME Powers, NEW n \in Nat, NEW t \in 0 .. n - 1, NEW C \in SUBSET ((0 .. n - 1) \ {t}),
           NEW c \in 0 .. n - 1, c # t, c \notin C, NEW j \in Indices(n)
    PROVE  LET i == IF BitOf(j, c) = 1 THEN Toggled(j, t) ELSE j IN
           i \in Indices(n) /\ Steered(i, C, t) = Steered(j, C \cup {c}, t)
<1> DEFINE k == Toggled(j, t)
<1>1. k \in Indices(n) /\ Toggled(k, t) = j /\ Odd(k, C) = Odd(j, C)
  BY OddOthers
<1>3. IsFiniteSet(C)
  <2>1. IsFiniteSet(0 .. n - 1) /\ C \subseteq 0 .. n - 1
    BY FS_Interval
  <2> QED BY <2>1, FS_Subset
<1>4. /\ Odd(j, C) \in BOOLEAN
      /\ Set(j, c) => (Odd(j, C \cup {c}) <=> ~Odd(j, C))
      /\ ~Set(j, c) => (Odd(j, C \cup {c}) <=> Odd(j, C))
  BY <1>3, OddOneMore
<1>5. Set(j, c) <=> BitOf(j, c) = 1
  BY DEF Set, BitOf
<1> DEFINE D == C \cup {c}
<1>g. /\ Set(j, c) => (Odd(j, D) <=> ~Odd(j, C))
      /\ ~Set(j, c) => (Odd(j, D) <=> Odd(j, C))
  BY <1>4
<1> HIDE DEF k, D
<1>6. CASE Set(j, c)
  <2>1. Odd(j, C) => Steered(k, C, t) = j /\ Steered(j, D, t) = j
    BY <1>1, <1>g, <1>6 DEF Steered
  <2>2. ~Odd(j, C) => Steered(k, C, t) = k /\ Steered(j, D, t) = k
    BY <1>1, <1>g, <1>6 DEF Steered, k
  <2> QED BY <1>1, <1>5, <1>6, <2>1, <2>2, Zenon DEF k, D
<1>7. CASE ~Set(j, c)
  <2>1. Steered(j, C, t) = Steered(j, D, t)
    BY <1>g, <1>7 DEF Steered
  <2> QED BY <1>5, <1>7, <2>1, Zenon DEF D
<1> QED BY <1>6, <1>7

\* A fan of CNOTs onto qubit t, from qubits of its own each.
FanOf(cs, t) == [k \in 1 .. Len(cs) |-> Link2(cs[k], t)]
IsFan(cs, t, n) ==
    /\ cs \in Seq((0 .. n - 1) \ {t}) /\ t \in 0 .. n - 1
    /\ \A i, k \in 1 .. Len(cs) : i # k => cs[i] # cs[k]
FirstOf(cs, k) == {cs[i] : i \in 1 .. k}

LEMMA FanFits ==
    ASSUME Powers, NEW n \in Nat, NEW t, NEW cs, IsFan(cs, t, n)
    PROVE  GatesFit(FanOf(cs, t), n) /\ Len(FanOf(cs, t)) = Len(cs)
<1> DEFINE N == Len(cs)
<1>1. N \in Nat /\ \A k \in 1 .. N : cs[k] \in 0 .. n - 1 /\ cs[k] # t /\ t \in 0 .. n - 1
  BY DEF IsFan
<1>2. ASSUME NEW k \in 1 .. N
      PROVE  Link2(cs[k], t) \in GateOp /\ WellFormed(Link2(cs[k], t), n)
  BY <1>1, LinkRow
<1> DEFINE g == FanOf(cs, t)
<1>3. g = [k \in 1 .. N |-> Link2(cs[k], t)]
  BY DEF FanOf
<1> HIDE DEF g, N
<1>4. g \in Seq(GateOp) /\ Len(g) = N /\ \A k \in 1 .. N : WellFormed(g[k], n)
  BY <1>1, <1>2, <1>3
<1> QED BY <1>4 DEF GatesFit, g, N

LEMMA FanRuns ==
    ASSUME Powers, NEW n \in Nat, NEW t, NEW cs, IsFan(cs, t, n), NEW s, IsState(s, n),
           NEW j \in Indices(n)
    PROVE  /\ RunAll(FanOf(cs, t), s)[j] = s[Steered(j, FirstOf(cs, Len(cs)), t)]
           /\ IsState(RunAll(FanOf(cs, t), s), n)
<1> DEFINE N == Len(cs)
           D == Indices(n)
           C(k) == FirstOf(cs, k)
           f == [k \in 0 .. N |-> [i \in D |-> s[Steered(i, C(k), t)]]]
           gates == FanOf(cs, t)
<1>1. /\ N \in Nat /\ t \in 0 .. n - 1
      /\ \A k \in 1 .. N : cs[k] \in 0 .. n - 1 /\ cs[k] # t
      /\ \A i, k \in 1 .. N : i # k => cs[i] # cs[k]
  BY DEF IsFan
<1>2. ASSUME NEW k \in 0 .. N PROVE C(k) \in SUBSET ((0 .. n - 1) \ {t})
  <2>1. \A i \in 1 .. k : i \in 1 .. N
    BY <1>1
  <2> QED BY <1>1, <2>1 DEF FirstOf
<1>3. ASSUME NEW k \in 1 .. N
      PROVE  C(k) = C(k - 1) \cup {cs[k]} /\ cs[k] \notin C(k - 1) /\ k - 1 \in 0 .. N
  <2>1. 1 .. k = (1 .. k - 1) \cup {k} /\ k - 1 \in 0 .. N
    BY <1>1
  <2>2. \A i \in 1 .. k - 1 : i \in 1 .. N /\ i # k
    BY <1>1
  <2>3. \A i \in 1 .. k - 1 : cs[i] # cs[k]
    BY <1>1, <2>2
  <2> QED BY <2>1, <2>3 DEF FirstOf
<1>4. gates = [k \in 1 .. N |-> Link2(cs[k], t)] /\ GatesFit(gates, n) /\ Len(gates) = N
  BY FanFits DEF FanOf
<1>5. DOMAIN s = D /\ \A i \in D : s[i] \in Amplitude
  BY DEF IsState
<1> HIDE DEF gates, N, C, D
<1>6. ASSUME NEW k \in 0 .. N, NEW i \in D
      PROVE  f[k][i] = s[Steered(i, C(k), t)] /\ Steered(i, C(k), t) \in D
  <2>1. Steered(i, C(k), t) \in D
    BY <1>1, <1>2, <1>6, SteeredIs DEF D
  <2> QED BY <2>1
<1>7. ASSUME NEW k \in 0 .. N PROVE IsState(f[k], n)
  <2>1. \A i \in D : s[Steered(i, C(k), t)] \in Amplitude
    BY <1>5, <1>6
  <2>2. f[k] = [i \in D |-> s[Steered(i, C(k), t)]]
    OBVIOUS
  <2> HIDE DEF f
  <2> QED BY <2>1, <2>2 DEF IsState, D
<1>8. f[0] = s
  <2>1. C(0) = {}
    BY DEF C, FirstOf
  <2>2. \A i : ~Odd(i, {})
    <3>1. Cardinality({}) = 0
      BY FS_EmptySet
    <3>2. \A i : {q \in {} : Set(i, q)} = {}
      OBVIOUS
    <3>3. 0 % 2 # 1
      OBVIOUS
    <3> QED BY <3>1, <3>2, <3>3 DEF Odd
  <2>3. \A i \in D : Steered(i, C(0), t) = i
    BY <2>1, <2>2 DEF Steered
  <2>4. 0 \in 0 .. N
    BY <1>1
  <2>5. f[0] = [i \in D |-> s[Steered(i, C(0), t)]]
    BY <2>4
  <2>6. s = [i \in D |-> s[i]]
    BY DEF IsState, D
  <2> HIDE DEF f
  <2> QED BY <2>3, <2>5, <2>6
<1>9. ASSUME NEW k \in 1 .. N PROVE f[k] = Promised!Act(gates[k], f[k - 1])
  <2> DEFINE u == f[k - 1]
             v == Promised!Act(gates[k], u)
             c == cs[k]
  <2>1. c \in 0 .. n - 1 /\ c # t /\ gates[k] = Link2(c, t) /\ k \in 0 .. N
    BY <1>1, <1>4
  <2>2. IsState(u, n)
    BY <1>3, <1>7
  <2>3. IsState(v, n)
    <3> HIDE DEF u
    <3>1. gates[k] \in GateOp /\ WellFormed(gates[k], n)
      <4>1. k \in 1 .. Len(gates)
        BY <1>4
      <4> DEFINE all == gates
      <4>2. all \in Seq(GateOp) /\ k \in 1 .. Len(all) /\ WellFormed(all[k], n)
        BY <1>4, <4>1 DEF GatesFit
      <4> HIDE DEF all
      <4>3. all[k] \in GateOp
        BY <4>2
      <4> QED BY <4>2, <4>3 DEF all
    <3> QED BY <2>2, <3>1, ActType
  <2>4. ASSUME NEW i \in D PROVE v[i] = f[k][i]
    <3> DEFINE o == IF BitOf(i, c) = 1 THEN Toggled(i, t) ELSE i
    <3>1. v[i] = u[o]
      <4> HIDE DEF u, c
      <4>1. Promised!Act(Link2(c, t), u)[i] = u[o]
        BY <1>1, <2>1, <2>2, <2>4, LinkRow DEF D
      <4> QED BY <2>1, <4>1
    <3>2. o \in D /\ Steered(o, C(k - 1), t) = Steered(i, C(k - 1) \cup {c}, t)
      <4>1. k - 1 \in 0 .. N /\ c \notin C(k - 1) /\ i \in Indices(n)
        BY <1>3, <2>4 DEF D
      <4>2. C(k - 1) \in SUBSET ((0 .. n - 1) \ {t})
        BY <1>2, <4>1
      <4> DEFINE B == C(k - 1)
      <4> HIDE DEF c, B
      <4>3. B \in SUBSET ((0 .. n - 1) \ {t}) /\ c \notin B
        BY <4>1, <4>2 DEF B
      <4>4. /\ (IF BitOf(i, c) = 1 THEN Toggled(i, t) ELSE i) \in Indices(n)
            /\ Steered(IF BitOf(i, c) = 1 THEN Toggled(i, t) ELSE i, B, t)
                 = Steered(i, B \cup {c}, t)
        BY <1>1, <2>1, <4>1, <4>3, OneLinkMore
      <4> QED BY <4>4 DEF B, D
    <3> HIDE DEF o
    <3>3. u[o] = s[Steered(o, C(k - 1), t)]
      BY <1>3, <1>6, <3>2
    <3>4. f[k][i] = s[Steered(i, C(k), t)]
      BY <1>6, <2>1
    <3>5. C(k) = C(k - 1) \cup {c}
      BY <1>3
    <3> HIDE DEF u, v, c, f
    <3> QED BY <3>1, <3>2, <3>3, <3>4, <3>5
  <2>5. v = [i \in D |-> v[i]]
    <3> HIDE DEF v
    <3> QED BY <2>3 DEF IsState, D
  <2>6. f[k] = [i \in D |-> f[k][i]]
    <3>1. IsState(f[k], n)
      BY <1>7, <2>1
    <3> HIDE DEF f
    <3> QED BY <3>1 DEF IsState, D
  <2> HIDE DEF v, f
  <2>7. f[k] = v
    BY <2>4, <2>5, <2>6
  <2> QED BY <2>7 DEF v
<1>10. RunAll(gates, s) = f[N] /\ IsState(f[N], n)
  <2> HIDE DEF f
  <2>1. \A k \in 1 .. Len(gates) : f[k] = Promised!Act(gates[k], f[k - 1])
    BY <1>4, <1>9
  <2>2. RunAll(gates, s) = f[Len(gates)] /\ IsState(f[Len(gates)], n)
    BY <1>4, <1>8, <2>1, OneRun, ZenonT(60)
  <2> QED BY <1>4, <2>2
<1>11. f[N][j] = s[Steered(j, C(N), t)]
  <2>1. N \in 0 .. N /\ j \in D
    BY <1>1 DEF D
  <2> QED BY <1>6, <2>1
<1> HIDE DEF f
<1> QED BY <1>10, <1>11 DEF gates, N, C

LEMMA FanReversed ==
    ASSUME NEW n \in Nat, NEW t, NEW cs, IsFan(cs, t, n)
    PROVE  /\ IsFan(Reverse(cs), t, n) /\ Reverse(FanOf(cs, t)) = FanOf(Reverse(cs), t)
           /\ FirstOf(Reverse(cs), Len(Reverse(cs))) = FirstOf(cs, Len(cs))
<1> DEFINE N == Len(cs)
           rs == Reverse(cs)
           S == (0 .. n - 1) \ {t}
           back(k) == (N - k) + 1
<1>1. N \in Nat /\ cs \in Seq(S) /\ t \in 0 .. n - 1 /\ \A i, k \in 1 .. N : i # k => cs[i] # cs[k]
  BY DEF IsFan
<1>2. rs = [k \in 1 .. N |-> cs[back(k)]]
  BY Zenon DEF Reverse
<1>3. \A k \in 1 .. N : back(k) \in 1 .. N /\ back(back(k)) = k
  BY <1>1
<1>b. \A i, k \in 1 .. N : i # k => back(i) # back(k)
  BY <1>1
<1> HIDE DEF N, S, rs, back
<1>4. Len(rs) = N /\ rs \in Seq(S) /\ \A k \in 1 .. N : rs[k] = cs[back(k)]
  <2>1. \A k \in 1 .. N : cs[k] \in S
    BY <1>1 DEF N
  <2>2. \A k \in 1 .. N : cs[back(k)] \in S
    BY <1>3, <2>1
  <2> QED BY <1>1, <1>2, <2>2
<1>5. \A i, k \in 1 .. N : i # k => rs[i] # rs[k]
  BY <1>1, <1>3, <1>4, <1>b
<1>6. IsFan(rs, t, n)
  BY <1>1, <1>4, <1>5 DEF IsFan, S
<1>7. FirstOf(rs, N) = FirstOf(cs, N)
  <2>1. \A k \in 1 .. N : \E i \in 1 .. N : cs[k] = rs[i]
    BY <1>3, <1>4
  <2>2. \A k \in 1 .. N : \E i \in 1 .. N : rs[k] = cs[i]
    BY <1>3, <1>4
  <2> QED BY <2>1, <2>2 DEF FirstOf
<1>8. Reverse(FanOf(cs, t)) = FanOf(rs, t)
  <2> DEFINE g == FanOf(cs, t)
  <2>1. g = [k \in 1 .. N |-> Link2(cs[k], t)]
    BY DEF FanOf, N
  <2>2. Len(g) = N
    BY <1>1, <2>1
  <2>3. Reverse(g) = [k \in 1 .. Len(g) |-> g[(Len(g) - k) + 1]]
    BY Zenon DEF Reverse
  <2>4. Reverse(g) = [k \in 1 .. N |-> g[back(k)]]
    BY <2>2, <2>3 DEF back
  <2>5. \A k \in 1 .. N : g[back(k)] = Link2(rs[k], t)
    BY <1>3, <1>4, <2>1
  <2> HIDE DEF g
  <2>6. Reverse(g) = [k \in 1 .. N |-> Link2(rs[k], t)]
    BY <2>4, <2>5
  <2>7. FanOf(rs, t) = [k \in 1 .. N |-> Link2(rs[k], t)]
    BY <1>4 DEF FanOf
  <2> QED BY <2>6, <2>7 DEF g
<1> QED BY <1>4, <1>6, <1>7, <1>8 DEF rs, N

\* A fan, a turn of its target, and the fan backwards.
Fanned(cs, g, t) == FanOf(cs, t) \o <<g>> \o FanOf(Reverse(cs), t)
ByOdd(z, a, n) == [j \in Indices(n) |-> IF Odd(j, z) THEN a ELSE -a]

\* It turns by the parity of its qubits.
LEMMA FanTurns ==
    ASSUME Powers, NEW n \in Nat, NEW t, NEW cs, IsFan(cs, t, n), NEW a \in Int,
           NEW z, z = FirstOf(cs, Len(cs)) \cup {t}
    PROVE  /\ GatesFit(Fanned(cs, Turn2(t, a), t), n) /\ ByOdd(z, a, n) \in Phases(n)
           /\ \A s : IsState(s, n) =>
                 RunAll(Fanned(cs, Turn2(t, a), t), s) = Phased(ByOdd(z, a, n), s)
<1> DEFINE rs == Reverse(cs)
           C == FirstOf(cs, Len(cs))
           A == FanOf(cs, t)
           T == <<Turn2(t, a)>>
           B == FanOf(rs, t)
           h == ByOdd(z, a, n)
<1>1. IsFan(rs, t, n) /\ FirstOf(rs, Len(rs)) = C
  BY FanReversed
<1>2. t \in 0 .. n - 1 /\ C \in SUBSET ((0 .. n - 1) \ {t})
  <2>1. Len(cs) \in Nat /\ \A k \in 1 .. Len(cs) : cs[k] \in (0 .. n - 1) \ {t}
    BY DEF IsFan
  <2>2. t \in 0 .. n - 1
    BY DEF IsFan
  <2> QED BY <2>1, <2>2 DEF FirstOf
<1>3. Turn2(t, a) \in GateOp /\ WellFormed(Turn2(t, a), n)
  BY <1>2, TurnRow
<1>4. GatesFit(A, n) /\ GatesFit(B, n)
  <2> HIDE DEF rs
  <2> QED BY <1>1, FanFits
<1>5. GatesFit(T, n)
  BY <1>3 DEF GatesFit
<1>6. h \in Phases(n) /\ \A j \in Indices(n) : h[j] = IF Odd(j, z) THEN a ELSE -a
  BY DEF ByOdd, Phases
<1> HIDE DEF rs, C, A, T, B, h
<1>7. ASSUME NEW s, IsState(s, n)
      PROVE  GatesFit((A \o T) \o B, n) /\ RunAll((A \o T) \o B, s) = Phased(h, s)
  <2> DEFINE u == RunAll(A, s)
             v == RunAll(T, u)
             w == RunAll(B, v)
  <2>1. GatesFit(A \o T, n) /\ IsState(u, n) /\ RunAll(A \o T, s) = v
    BY <1>4, <1>5, <1>7, RunJoins
  <2>2. IsState(v, n)
    <3> HIDE DEF u
    <3> QED BY <1>5, <2>1, RunJoins
  <2>3. GatesFit((A \o T) \o B, n) /\ RunAll((A \o T) \o B, s) = w
    <3> DEFINE AT == A \o T
    <3>1. GatesFit(AT, n) /\ RunAll(AT, s) = v
      BY <2>1
    <3> HIDE DEF AT, v
    <3>2. GatesFit(AT \o B, n) /\ RunAll(AT \o B, s) = RunAll(B, RunAll(AT, s))
      BY <1>4, <1>7, <3>1, RunJoins
    <3> QED BY <3>1, <3>2 DEF AT
  <2>4. ASSUME NEW j \in Indices(n) PROVE w[j] = Times(Phase(h[j]), s[j])
    <3> DEFINE J == Steered(j, C, t)
    <3>1. J \in Indices(n) /\ Steered(J, C, t) = j /\ (BitOf(J, t) = 1 <=> Odd(j, z))
      BY <1>2, <2>4, SteeredIs DEF C
    <3>2. w[j] = v[J]
      <4> HIDE DEF v
      <4>1. RunAll(FanOf(rs, t), v)[j] = v[Steered(j, FirstOf(rs, Len(rs)), t)]
        BY <1>1, <2>2, <2>4, FanRuns
      <4> QED BY <1>1, <4>1 DEF B
    <3> HIDE DEF J
    <3>3. v[J] = Times(Phase(IF BitOf(J, t) = 1 THEN a ELSE -a), u[J])
      <4> HIDE DEF u
      <4>1. v = Promised!Act(Turn2(t, a), u)
        <5>1. Len(T) = 1 /\ T[1] = Turn2(t, a)
          BY DEF T
        <5> QED BY <1>5, <2>1, <5>1, RunOfOne
      <4> HIDE DEF v
      <4> QED BY <1>2, <2>1, <3>1, <4>1, TurnRow
    <3>4. u[J] = s[j]
      <4>1. RunAll(FanOf(cs, t), s)[J] = s[Steered(J, C, t)]
        BY <1>7, <3>1, FanRuns DEF C
      <4> QED BY <3>1, <4>1 DEF A
    <3>5. (IF BitOf(J, t) = 1 THEN a ELSE -a) = h[j]
      BY <1>6, <3>1
    <3> HIDE DEF u, v, w
    <3> QED BY <3>2, <3>3, <3>4, <3>5
  <2>5. IsState(w, n)
    <3> HIDE DEF v
    <3> QED BY <1>4, <2>2, RunJoins
  <2>6. w = [j \in Indices(n) |-> w[j]] /\ DOMAIN s = Indices(n)
    <3> HIDE DEF w
    <3> QED BY <1>7, <2>5 DEF IsState
  <2> HIDE DEF w
  <2>7. w = Phased(h, s)
    BY <2>4, <2>6 DEF Phased
  <2> QED BY <2>3, <2>7
<1>8. Fanned(cs, Turn2(t, a), t) = (A \o T) \o B
  BY DEF Fanned, A, T, B, rs
<1>9. GatesFit((A \o T) \o B, n)
  <2> DEFINE AT == A \o T
  <2>1. GatesFit(AT, n)
    BY <1>4, <1>5 DEF GatesFit
  <2> HIDE DEF AT
  <2>2. GatesFit(AT \o B, n)
    BY <1>4, <2>1 DEF GatesFit
  <2> QED BY <2>2 DEF AT
<1> QED BY <1>6, <1>7, <1>8, <1>9 DEF h

-----------------------------------------------------------------------------
(* Gates with their parameters bound *)

Bound(gates, theta) == [k \in DOMAIN gates |-> BindGate(gates[k], theta)]

LEMMA BindsFixed ==
    ASSUME NEW type, NEW qubits, NEW theta
    PROVE  BindGate(Gate(type, qubits, <<>>), theta) = Gate(type, qubits, <<>>)
<1> DEFINE none == [i \in DOMAIN <<>> |-> Constant(Resolve(<<>>[i], theta))]
<1>1. none = <<>>
  OBVIOUS
<1> DEFINE g == Gate(type, qubits, <<>>)
<1>2. BindGate(g, theta) = Gate(type, qubits, none)
  <2>1. g = [type |-> type, qubits |-> qubits, args |-> <<>>, dagger |-> FALSE]
    BY DEF Gate
  <2>2. g.args = <<>>
    BY <2>1
  <2>3. BindGate(g, theta) = [g EXCEPT !.args = none]
    <3> HIDE DEF g
    <3> QED BY <2>2 DEF BindGate
  <2> HIDE DEF g, none
  <2> QED BY <2>1, <2>3 DEF Gate
<1> HIDE DEF none
<1> QED BY <1>1, <1>2

\* Parameter i, scaled by k, is r.
Gives(theta, i, k, r) ==
    i \in Nat /\ k \in Int /\ theta[i + 1] \in Int /\ r = k * theta[i + 1]

LEMMA BindsScaled ==
    ASSUME NEW type, NEW qubits, NEW theta, NEW i, NEW k, NEW r, Gives(theta, i, k, r)
    PROVE  BindGate(Gate(type, qubits, <<Scaled(k, Free(i))>>), theta)
             = Gate(type, qubits, <<Constant(r)>>)
<1> DEFINE arg == Scaled(k, Free(i))
           x == Resolve(arg, theta)
           one == [a \in DOMAIN <<arg>> |-> Constant(Resolve(<<arg>>[a], theta))]
<1>g. i \in Nat /\ k \in Int /\ theta[i + 1] \in Int /\ r = k * theta[i + 1]
  BY DEF Gives
<1>1. x = k * theta[i + 1]
  <2>1. arg = [index |-> i, scale |-> k, offset |-> 0]
    <3>1. Free(i) = [index |-> i, scale |-> 1, offset |-> 0]
      BY DEF Free
    <3>2. k * 1 = k /\ k * 0 = 0
      BY <1>g
    <3> DEFINE x1 == [Free(i) EXCEPT !.scale = k * @]
    <3>3. arg = [x1 EXCEPT !.offset = k * @]
      BY Zenon DEF Scaled
    <3>4. x1 = [index |-> i, scale |-> k * 1, offset |-> 0]
      BY <3>1
    <3> HIDE DEF x1
    <3>5. [x1 EXCEPT !.offset = k * @] = [index |-> i, scale |-> k * 1, offset |-> k * 0]
      BY <3>4
    <3> QED BY <3>2, <3>3, <3>5
  <2>2. arg.index = i /\ arg.scale = k /\ arg.offset = 0
    BY <2>1
  <2> HIDE DEF arg
  <2> DEFINE y == theta[i + 1]
  <2>3. x = k * y + 0
    <3>1. IsSymbolic(arg)
      BY <1>g, <2>2 DEF IsSymbolic
    <3>2. x = arg.scale * theta[arg.index + 1] + arg.offset
      BY <3>1, Zenon DEF Resolve
    <3> QED BY <2>2, <3>2, Zenon
  <2>4. y \in Int /\ k \in Int
    BY <1>g
  <2> HIDE DEF y, x
  <2>5. k * y + 0 = k * y
    BY <2>4
  <2> QED BY <2>3, <2>5 DEF y
<1> HIDE DEF arg
<1>2. one = <<Constant(x)>>
  OBVIOUS
<1> DEFINE g == Gate(type, qubits, <<arg>>)
<1>3. BindGate(g, theta) = Gate(type, qubits, one)
  <2>1. g = [type |-> type, qubits |-> qubits, args |-> <<arg>>, dagger |-> FALSE]
    BY DEF Gate
  <2>2. g.args = <<arg>>
    BY <2>1
  <2>3. BindGate(g, theta) = [g EXCEPT !.args = one]
    <3> HIDE DEF g
    <3> QED BY <2>2 DEF BindGate
  <2> HIDE DEF g, one
  <2> QED BY <2>1, <2>3 DEF Gate
<1> HIDE DEF one, x
<1>4. x = r
  BY <1>1, <1>g
<1> QED BY <1>2, <1>3, <1>4 DEF arg

LEMMA BoundJoins ==
    ASSUME NEW S, NEW a \in Seq(S), NEW b \in Seq(S), NEW theta
    PROVE  Bound(a \o b, theta) = Bound(a, theta) \o Bound(b, theta)
<1> DEFINE g(x) == BindGate(x, theta)
           G == {g(x) : x \in S}
           u == Bound(a, theta)
           v == Bound(b, theta)
           w == Bound(a \o b, theta)
           M == Len(a)
           N == Len(b)
<1>1. M \in Nat /\ N \in Nat /\ DOMAIN a = 1 .. M /\ DOMAIN b = 1 .. N
  OBVIOUS
<1>2. /\ a \o b \in Seq(S) /\ Len(a \o b) = M + N /\ DOMAIN (a \o b) = 1 .. M + N
      /\ \A k \in 1 .. M + N : (a \o b)[k] = IF k <= M THEN a[k] ELSE b[k - M]
  OBVIOUS
<1>3. u = [k \in 1 .. M |-> g(a[k])] /\ v = [k \in 1 .. N |-> g(b[k])]
  BY <1>1 DEF Bound
<1>4. w = [k \in 1 .. M + N |-> g((a \o b)[k])]
  BY <1>2 DEF Bound
<1>5. (\A k \in 1 .. M : a[k] \in S) /\ (\A k \in 1 .. N : b[k] \in S)
  BY <1>1
<1>6. \A x \in S : g(x) \in G
  OBVIOUS
<1> HIDE DEF g, G, M, N
<1>7. u \in Seq(G) /\ v \in Seq(G) /\ Len(u) = M /\ Len(v) = N
  <2> HIDE DEF u, v
  <2>1. u \in Seq(G) /\ Len(u) = M
    BY <1>1, <1>3, <1>5, <1>6
  <2>2. v \in Seq(G) /\ Len(v) = N
    BY <1>1, <1>3, <1>5, <1>6
  <2> QED BY <2>1, <2>2
<1> HIDE DEF u, v, w
<1> DEFINE x == u \o v
<1>8. /\ DOMAIN x = 1 .. M + N /\ x = [k \in DOMAIN x |-> x[k]]
      /\ \A k \in 1 .. M + N : x[k] = IF k <= M THEN u[k] ELSE v[k - M]
  <2>1. x \in Seq(G) /\ Len(x) = M + N
    BY <1>7
  <2>2. DOMAIN x = 1 .. M + N
    BY <2>1
  <2>3. \A k \in 1 .. M + N : x[k] = IF k <= M THEN u[k] ELSE v[k - M]
    <3>1. M \in Nat /\ N \in Nat
      BY <1>1
    <3>2. \A k \in 1 .. M : x[k] = u[k]
      BY <1>7
    <3>3. \A k \in 1 .. N : x[M + k] = v[k]
      BY <1>7
    <3> HIDE DEF x
    <3>4. ASSUME NEW k \in 1 .. M + N PROVE x[k] = IF k <= M THEN u[k] ELSE v[k - M]
      <4>1. CASE k <= M
        BY <3>1, <3>2, <4>1
      <4>2. CASE ~(k <= M)
        <5>1. k - M \in 1 .. N /\ M + (k - M) = k
          BY <3>1, <4>2
        <5> QED BY <3>3, <4>2, <5>1
      <4> QED BY <4>1, <4>2
    <3> QED BY <3>4
  <2> HIDE DEF x
  <2>4. x = [k \in DOMAIN x |-> x[k]]
    BY <2>1
  <2> QED BY <2>2, <2>3, <2>4
<1> HIDE DEF x
<1>9. ASSUME NEW k \in 1 .. M + N PROVE w[k] = x[k]
  <2>1. CASE k <= M
    <3>1. k \in 1 .. M
      BY <1>1, <2>1
    <3>2. w[k] = g(a[k]) /\ u[k] = g(a[k])
      BY <1>2, <1>3, <1>4, <2>1, <3>1
    <3> QED BY <1>8, <2>1, <3>2
  <2>2. CASE ~(k <= M)
    <3>1. k - M \in 1 .. N
      BY <1>1, <2>2
    <3>2. w[k] = g(b[k - M]) /\ v[k - M] = g(b[k - M])
      BY <1>2, <1>3, <1>4, <2>2, <3>1
    <3> QED BY <1>8, <2>2, <3>2
  <2> QED BY <2>1, <2>2
<1>10. w = x
  BY <1>4, <1>8, <1>9
<1> QED BY <1>10 DEF w, x, u, v

-----------------------------------------------------------------------------
(* append_cost_gadget() *)

LEMMA FanBound ==
    ASSUME NEW cs, NEW t, NEW theta
    PROVE  Bound(FanOf(cs, t), theta) = FanOf(cs, t)
<1> DEFINE g(k) == Link2(cs[k], t)
           w == FanOf(cs, t)
<1>1. w = [k \in 1 .. Len(cs) |-> g(k)]
  BY DEF FanOf
<1>2. \A k : BindGate(g(k), theta) = g(k)
  BY BindsFixed DEF Link2
<1> HIDE DEF g, w
<1>3. DOMAIN w = 1 .. Len(cs) /\ \A k \in 1 .. Len(cs) : w[k] = g(k)
  BY <1>1
<1>4. Bound(w, theta) = [k \in 1 .. Len(cs) |-> BindGate(w[k], theta)]
  BY <1>3 DEF Bound
<1>5. [k \in 1 .. Len(cs) |-> BindGate(w[k], theta)] = [k \in 1 .. Len(cs) |-> g(k)]
  BY <1>2, <1>3
<1> QED BY <1>1, <1>4, <1>5 DEF w

SymbolicTurn(t, k, i) == Gate("RZ", <<t>>, <<Scaled(k, Free(i))>>)

LEMMA TurnBound ==
    ASSUME NEW n \in Nat, NEW t \in 0 .. n - 1, NEW theta, NEW i, NEW k, NEW a,
           Gives(theta, i, k, a)
    PROVE  /\ SymbolicTurn(t, k, i) \in GateOp
           /\ BindGate(SymbolicTurn(t, k, i), theta) = Turn2(t, a)
<1> DEFINE arg == Scaled(k, Free(i))
<1>1. i \in Nat /\ k \in Int
  BY DEF Gives
<1>2. arg \in Args(i + 1)
  BY <1>1, FreeArgument
<1>3. BindGate(Gate("RZ", <<t>>, <<arg>>), theta) = Gate("RZ", <<t>>, <<Constant(a)>>)
  <2> DEFINE qs == <<t>>
             rz == "RZ"
  <2> HIDE DEF qs, rz
  <2>1. BindGate(Gate(rz, qs, <<Scaled(k, Free(i))>>), theta) = Gate(rz, qs, <<Constant(a)>>)
    BY BindsScaled
  <2> QED BY <2>1, Zenon DEF qs, rz
<1>4. SymbolicTurn(t, k, i) = Gate("RZ", <<t>>, <<arg>>)
  BY Zenon DEF SymbolicTurn
<1> HIDE DEF arg
<1>5. Gate("RZ", <<t>>, <<arg>>) \in GatesOn(n, i + 1)
  <2>1. "RZ" \in OneQubit /\ Arguments("RZ") = 1 /\ i + 1 \in Nat
    BY <1>1 DEF OneQubit, Arguments
  <2>2. <<arg>> \in Seq(Args(i + 1)) /\ Len(<<arg>>) = 1
    BY <1>2
  <2> QED BY <2>1, <2>2, MakesOne
<1>6. SymbolicTurn(t, k, i) \in GateOp
  BY <1>4, <1>5 DEF GatesOn
<1> QED BY <1>3, <1>4, <1>6, Zenon DEF Turn2

LEMMA FannedBound ==
    ASSUME Powers, NEW n \in Nat, NEW cs, NEW t, IsFan(cs, t, n), NEW theta, NEW i, NEW k,
           NEW a, Gives(theta, i, k, a)
    PROVE  /\ Fanned(cs, SymbolicTurn(t, k, i), t) \in Seq(GateOp)
           /\ Bound(Fanned(cs, SymbolicTurn(t, k, i), t), theta) = Fanned(cs, Turn2(t, a), t)
<1> DEFINE g == SymbolicTurn(t, k, i)
           A == FanOf(cs, t)
           B == FanOf(Reverse(cs), t)
           all == GateOp
           T == <<g>>
           U == <<Turn2(t, a)>>
<1>1. A \in Seq(all) /\ B \in Seq(all)
  <2>1. IsFan(Reverse(cs), t, n)
    BY FanReversed
  <2> QED BY <2>1, FanFits DEF GatesFit
<1>2. g \in all /\ BindGate(g, theta) = Turn2(t, a)
  <2>1. t \in 0 .. n - 1
    BY DEF IsFan
  <2> QED BY <2>1, TurnBound
<1>3. Bound(A, theta) = A /\ Bound(B, theta) = B
  BY FanBound
<1> HIDE DEF g, A, B, all
<1>4. T \in Seq(all) /\ Bound(T, theta) = U
  <2> DEFINE z == Turn2(t, a)
             w == Bound(T, theta)
  <2>0. T \in Seq(all) /\ DOMAIN T = 1 .. 1 /\ T[1] = g
    BY <1>2
  <2> HIDE DEF z, T
  <2>1. w = [x \in 1 .. 1 |-> BindGate(T[x], theta)]
    BY <2>0 DEF Bound
  <2>2. \A x \in 1 .. 1 : BindGate(T[x], theta) = z
    BY <1>2, <2>0 DEF z
  <2> HIDE DEF w
  <2>3. w = [x \in 1 .. 1 |-> z]
    BY <2>1, <2>2
  <2>4. w = <<z>>
    BY <2>3
  <2> QED BY <2>0, <2>4 DEF w, z
<1> HIDE DEF T, U
<1> DEFINE AT == A \o T
<1>5. AT \in Seq(all) /\ AT \o B \in Seq(all)
  BY <1>1, <1>4
<1>6. Bound(AT, theta) = A \o U
  <2>1. A \in Seq(all) /\ T \in Seq(all)
    BY <1>1, <1>4
  <2> HIDE DEF AT
  <2>2. Bound(A \o T, theta) = Bound(A, theta) \o Bound(T, theta)
    BY <2>1, BoundJoins
  <2> QED BY <1>3, <1>4, <2>2, Zenon DEF AT
<1> HIDE DEF AT
<1>7. Bound(AT \o B, theta) = (A \o U) \o B
  <2>1. Bound(AT \o B, theta) = Bound(AT, theta) \o Bound(B, theta)
    BY <1>1, <1>5, BoundJoins
  <2> QED BY <1>3, <1>6, <2>1, Zenon
<1> QED BY <1>5, <1>7 DEF AT, A, B, T, U, g, Fanned, all

\* A term with qubits: a fan onto the last of them, RZ, and the fan backwards.
GadgetOn(d, m, i, cs, t, n) ==
    /\ IsFan(cs, t, n) /\ m.z = FirstOf(cs, Len(cs)) \cup {t}
    /\ CostGadget(d, m, Free(i)) = AddGates(d, Fanned(cs, SymbolicTurn(t, 2 * m.coeff, i), t))

LEMMA GadgetIs ==
    ASSUME NEW n \in Nat, NEW d, d.n = n, NEW m, m.z \in SUBSET (0 .. n - 1), m.z # {}, NEW i
    PROVE  \E cs, t : GadgetOn(d, m, i, cs, t, n)
<1> DEFINE qs == Ascending(d.n, m.z)
           N == Len(qs)
           t == Last(qs)
           cs == [k \in 1 .. N - 1 |-> qs[k]]
           rs == Reverse(cs)
           fanIn == [k \in 1 .. N - 1 |-> Gate("CNOT", <<qs[k], t>>, <<>>)]
           turn == Gate("RZ", <<t>>, <<Scaled(2 * m.coeff, Free(i))>>)
<1>1. CostGadget(d, m, Free(i)) = AddGates(d, fanIn \o <<turn>> \o Reverse(fanIn))
  BY Zenon DEF CostGadget
<1>2. turn = SymbolicTurn(t, 2 * m.coeff, i)
  BY Zenon DEF SymbolicTurn
<1> DEFINE set == m.z
<1>s. set \in SUBSET (0 .. n - 1) /\ set # {}
  OBVIOUS
<1>3. /\ qs \in Seq(0 .. n - 1)
      /\ \A x \in 1 .. N : qs[x] \in set
      /\ \A x, y \in 1 .. N : x # y => qs[x] # qs[y]
      /\ \A q \in 0 .. n - 1 : q \in set => \E x \in 1 .. N : qs[x] = q
  <2>1. qs = Ascending(n, set)
    OBVIOUS
  <2> HIDE DEF qs, set
  <2> QED BY <2>1, AscendingFacts
<1>t. t = qs[N]
  BY DEF Last
<1> HIDE DEF set, qs, turn
<1>4. N \in Nat /\ N >= 1 /\ N \in 1 .. N /\ t \in 0 .. n - 1
  <2>1. PICK q \in 0 .. n - 1 : q \in set
    BY <1>s
  <2>2. PICK x \in 1 .. N : qs[x] = q
    BY <1>3, <2>1
  <2>3. N \in Nat
    BY <1>3
  <2>4. N >= 1 /\ N \in 1 .. N
    BY <2>2, <2>3
  <2> QED BY <1>3, <1>t, <2>3, <2>4
<1> HIDE DEF t
<1>5. DOMAIN cs = 1 .. N - 1 /\ Len(cs) = N - 1 /\ \A k \in 1 .. N - 1 : cs[k] = qs[k] /\ k \in 1 .. N /\ k # N
  BY <1>4
<1>6. IsFan(cs, t, n)
  <2> DEFINE S == (0 .. n - 1) \ {t}
  <2>1. \A k \in 1 .. N - 1 : cs[k] \in S
    <3>1. ASSUME NEW k \in 1 .. N - 1 PROVE cs[k] \in S
      <4>1. k \in 1 .. N /\ k # N /\ cs[k] = qs[k]
        BY <1>5
      <4>2. qs[k] # qs[N] /\ qs[k] \in 0 .. n - 1
        BY <1>3, <1>4, <4>1
      <4> QED BY <1>t, <4>1, <4>2
    <3> QED BY <3>1
  <2> HIDE DEF S
  <2>2. cs \in Seq(S)
    <3>1. N - 1 \in Nat /\ cs = [k \in 1 .. N - 1 |-> cs[k]]
      BY <1>4
    <3> HIDE DEF cs
    <3> QED BY <2>1, <3>1
  <2>3. \A x, k \in 1 .. Len(cs) : x # k => cs[x] # cs[k]
    <3> HIDE DEF cs
    <3> QED BY <1>3, <1>5
  <2> QED BY <1>4, <2>2, <2>3 DEF IsFan, S
<1>7. set = FirstOf(cs, Len(cs)) \cup {t}
  <2>1. ASSUME NEW q \in set PROVE q \in FirstOf(cs, Len(cs)) \cup {t}
    <3>1. PICK x \in 1 .. N : qs[x] = q
      BY <1>3, <1>s, <2>1
    <3>2. x = N \/ x \in 1 .. N - 1
      BY <1>4
    <3> HIDE DEF cs
    <3> QED BY <1>5, <1>t, <3>1, <3>2 DEF FirstOf
  <2>2. ASSUME NEW q \in FirstOf(cs, Len(cs)) \cup {t} PROVE q \in set
    <3> HIDE DEF cs
    <3> QED BY <1>3, <1>4, <1>5, <1>t, <2>2, SMTT(20) DEF FirstOf
  <2> QED BY <2>1, <2>2
<1>8. fanIn = FanOf(cs, t)
  <2>1. FanOf(cs, t) = [k \in 1 .. N - 1 |-> Link2(cs[k], t)]
    <3> HIDE DEF cs
    <3> QED BY <1>5 DEF FanOf
  <2>2. \A k \in 1 .. N - 1 : Link2(cs[k], t) = Gate("CNOT", <<qs[k], t>>, <<>>)
    <3> HIDE DEF cs
    <3> QED BY <1>5 DEF Link2
  <2> HIDE DEF cs
  <2> QED BY <2>1, <2>2
<1> HIDE DEF cs, fanIn
<1>9. Reverse(fanIn) = FanOf(rs, t)
  BY <1>6, <1>8, FanReversed
<1>10. CostGadget(d, m, Free(i)) = AddGates(d, Fanned(cs, SymbolicTurn(t, 2 * m.coeff, i), t))
  BY <1>1, <1>2, <1>8, <1>9, Zenon DEF Fanned
<1>11. GadgetOn(d, m, i, cs, t, n)
  BY <1>6, <1>7, <1>10, Zenon DEF GadgetOn, set
<1> QED BY <1>11

-----------------------------------------------------------------------------
(* A layer of QAOA, as it is documented *)

RXs(n, beta) == [q \in 1 .. n |-> Gate("RX", <<q - 1>>, <<Constant(2 * beta)>>)]

\* What a diagonal cost turns the basis states by.
Priced(cost, n) == \A j \in Indices(n) : CostValue(cost, j) \in Int
CostTurns(cost, gamma, n) == [j \in Indices(n) |-> -2 * gamma * CostValue(cost, j)]

LEMMA OneRx ==
    ASSUME NEW n \in Nat, NEW q \in 0 .. n - 1, NEW h \in Int
    PROVE  LET g == Gate("RX", <<q>>, <<Constant(h)>>) IN
           /\ g \in GatesOn(n, 0) /\ g \in GateOp /\ WellFormed(g, n) /\ g.type = "RX"
           /\ \A s : Promised!Act(g, s) = Promised!Acted(Promised!Rotation("X", h), {}, q, s)
<1> DEFINE g == Gate("RX", <<q>>, <<Constant(h)>>)
<1>1. "RX" \in OneQubit /\ Arguments("RX") = 1 /\ "RX" # "SWAP" /\ "RX" \in Promised!OneQubit
  BY DEF OneQubit, Arguments, Promised!OneQubit
<1>2. g \in GatesOn(n, 0)
  BY <1>1, ConstantArgument, MakesOne
<1>3. g.type = "RX" /\ g.qubits[1] = q /\ g.args = <<Constant(h)>>
  BY DEF Gate
<1>4. [i \in DOMAIN <<Constant(h)>> |-> <<Constant(h)>>[i].offset][1] = h
  BY ConstantArgument
<1> HIDE DEF g
<1>5. Promised!Definition(g) = Promised!Rotation("X", h)
  BY <1>3, <1>4 DEF Promised!Definition
<1>6. \A s : Promised!Act(g, s) = Promised!Acted(Promised!Rotation("X", h), {}, q, s)
  BY <1>1, <1>3, <1>5 DEF Promised!Act
<1>7. g \in GateOp /\ WellFormed(g, n)
  BY <1>2 DEF GatesOn
<1> QED BY <1>2, <1>3, <1>6, <1>7 DEF g

LEMMA RxFit ==
    ASSUME NEW n \in Nat, NEW beta \in Int
    PROVE  LET w == RXs(n, beta) IN
           /\ GatesFit(w, n) /\ Len(w) = n
           /\ \A k \in 1 .. n : /\ w[k].type = "RX"
                                /\ \A s : Promised!Act(w[k], s) = Promised!Acted(
                                     Promised!Rotation("X", 2 * beta), {}, k - 1, s)
<1> DEFINE h == 2 * beta
           w == RXs(n, beta)
<1>1. h \in Int
  OBVIOUS
<1>2. w = [q \in 1 .. n |-> Gate("RX", <<q - 1>>, <<Constant(h)>>)]
  BY DEF RXs
<1> HIDE DEF h, w
<1>3. ASSUME NEW k \in 1 .. n
      PROVE  /\ w[k] \in GateOp /\ WellFormed(w[k], n) /\ w[k].type = "RX"
             /\ \A s : Promised!Act(w[k], s)
                         = Promised!Acted(Promised!Rotation("X", h), {}, k - 1, s)
  <2> DEFINE q == k - 1
             g == Gate("RX", <<q>>, <<Constant(h)>>)
  <2>1. q \in 0 .. n - 1 /\ w[k] = g
    BY <1>2
  <2> HIDE DEF q
  <2>2. /\ g \in GateOp /\ WellFormed(g, n) /\ g.type = "RX"
        /\ \A s : Promised!Act(g, s) = Promised!Acted(Promised!Rotation("X", h), {}, q, s)
    BY <1>1, <2>1, OneRx
  <2> HIDE DEF g
  <2> QED BY <2>1, <2>2 DEF q
<1>4. DOMAIN w = 1 .. n /\ w = [k \in 1 .. n |-> w[k]]
  BY <1>2
<1>5. w \in Seq(GateOp) /\ Len(w) = n
  BY <1>3, <1>4
<1> QED BY <1>3, <1>5 DEF GatesFit, w, h

LEMMA CostTurnsType ==
    ASSUME NEW n \in Nat, NEW cost, Priced(cost, n), NEW gamma \in Int
    PROVE  CostTurns(cost, gamma, n) \in Phases(n)
<1>1. ASSUME NEW j \in Indices(n) PROVE -2 * gamma * CostValue(cost, j) \in Int
  <2> DEFINE x == CostValue(cost, j)
  <2>1. x \in Int
    BY DEF Priced
  <2> HIDE DEF x
  <2>2. -2 * gamma * x \in Int
    BY <2>1
  <2> QED BY <2>2 DEF x
<1> DEFINE f(j) == -2 * gamma * CostValue(cost, j)
<1>2. \A j \in Indices(n) : f(j) \in Int
  BY <1>1
<1>3. CostTurns(cost, gamma, n) = [j \in Indices(n) |-> f(j)]
  BY DEF CostTurns
<1> HIDE DEF f
<1> QED BY <1>2, <1>3 DEF Phases

\* A documented layer is a run of RX gates after the phases of the cost.
LEMMA LayerIsRun ==
    ASSUME Powers, NEW n \in Nat, NEW cost, Priced(cost, n), NEW gamma \in Int,
           NEW beta \in Int, NEW s, IsState(s, n)
    PROVE  /\ DocumentedLayer(n, cost, gamma, beta, s)
                = RunAll(RXs(n, beta), Phased(CostTurns(cost, gamma, n), s))
           /\ IsState(DocumentedLayer(n, cost, gamma, beta, s), n)
<1> DEFINE N == n
           V == [Indices(n) -> Amplitude]
           base == [j \in DOMAIN s |-> Times(Phase(-2 * gamma * CostValue(cost, j)), s[j])]
           from == [q \in 1 .. n |-> q - 1]
           whole == DocumentedLayer(n, cost, gamma, beta, s)
           rot == Promised!Rotation("X", 2 * beta)
           Next1(t, k) == Computed(Promised!Acted(rot, {}, from[k], t))
           F(it) == [S \in SUBSET (1 .. N) |->
                       IF S = {} THEN base ELSE Next1(it[S \ {Max(S)}], Max(S))]
           w == RXs(n, beta)
<1>w. /\ GatesFit(w, n) /\ Len(w) = n
      /\ \A k \in 1 .. n : \A t : Promised!Act(w[k], t) = Promised!Acted(rot, {}, k - 1, t)
  BY RxFit
<1>b. base = Phased(CostTurns(cost, gamma, n), s) /\ IsState(base, n)
  <2>1. DOMAIN s = Indices(n)
    BY DEF IsState
  <2>2. CostTurns(cost, gamma, n) \in Phases(n)
    BY CostTurnsType
  <2>3. base = Phased(CostTurns(cost, gamma, n), s)
    BY <2>1 DEF Phased, CostTurns
  <2> HIDE DEF base
  <2> QED BY <2>2, <2>3, PhasedType
<1>1. N \in Nat /\ base \in V
  BY <1>b DEF IsState
<1>3. whole = (CHOOSE it : it = F(it))[1 .. N]
  <2>1. DOMAIN from = 1 .. N /\ Len(from) = N
    OBVIOUS
  <2> HIDE DEF from
  <2>2. DocumentedLayer(n, cost, gamma, beta, s)
          = FoldLeft(LAMBDA t, q : Computed(Promised!Acted(rot, {}, q, t)), base, from)
    BY DEF DocumentedLayer, from
  <2> QED BY <2>1, <2>2 DEF FoldLeft, MapThenFoldSet
<1> HIDE DEF w
<1>2. \A t \in V, k \in 1 .. N :
        Next1(t, k) \in V /\ Next1(t, k) = Promised!Act(w[k], t)
  <2> SUFFICES ASSUME NEW t \in V, NEW k \in 1 .. N
               PROVE  Next1(t, k) \in V /\ Next1(t, k) = Promised!Act(w[k], t)
    OBVIOUS
  <2> DEFINE u == Promised!Act(w[k], t)
  <2>1. w[k] \in GateOp /\ WellFormed(w[k], n) /\ IsState(t, n)
    BY <1>w DEF GatesFit, IsState
  <2>2. IsState(u, n)
    BY <2>1, ActType
  <2>3. from[k] = k - 1
    OBVIOUS
  <2>4. u = Promised!Acted(rot, {}, from[k], t)
    BY <1>w, <2>3
  <2> HIDE DEF u, rot, from
  <2>5. u # <<>>
    BY <2>2, NotNothing
  <2>6. Computed(u) = u
    BY <2>5, ComputedIs
  <2> QED BY <2>2, <2>4, <2>6 DEF IsState, u
<1> HIDE DEF N, V, base, Next1, whole
<1>4. \E it : it = F(it)
  <2> DEFINE step == [p \in V \X (1 .. N) |-> Next1(p[1], p[2])]
  <2>1. \A d \in V, k \in 1 .. N : step[<<d, k>>] = Next1(d, k)
    OBVIOUS
  <2> HIDE DEF step
  <2>2. PICK it : Folds(it, N, base, step, V)
    <3>1. \A d \in V, k \in 1 .. N : step[<<d, k>>] \in V
      BY <1>2, <2>1
    <3> QED BY <1>1, <3>1, FoldExists
  <2>3. /\ it \in [SUBSET (1 .. N) -> V]
        /\ \A S \in SUBSET (1 .. N) :
              it[S] = IF S = {} THEN base ELSE step[<<it[S \ {Max(S)}], Max(S)>>]
    BY <2>2 DEF Folds
  <2>4. ASSUME NEW S \in SUBSET (1 .. N)
        PROVE  it[S] = IF S = {} THEN base ELSE Next1(it[S \ {Max(S)}], Max(S))
    <3>1. CASE S # {}
      <4>1. Max(S) \in 1 .. N /\ it[S \ {Max(S)}] \in V
        BY <1>1, <2>3, <3>1, Greatest
      <4> QED BY <2>1, <2>3, <3>1, <4>1
    <3> QED BY <2>3, <3>1
  <2>5. it = F(it)
    BY <2>3, <2>4
  <2> QED BY <2>5
<1>5. PICK it : it = F(it) /\ whole = it[1 .. N]
  BY <1>3, <1>4
<1>6. it[{}] = base
  BY <1>5
<1>7. ASSUME NEW k \in 1 .. N PROVE it[1 .. k] = Next1(it[1 .. k - 1], k)
  <2>1. Max(1 .. k) = k /\ (1 .. k) \ {k} = 1 .. k - 1
    BY <1>1, PartOfAll, GreatestOfAll
  <2>2. 1 .. k \in SUBSET (1 .. N) /\ 1 .. k # {}
    BY <1>1, PartOfAll
  <2> QED BY <1>5, <2>1, <2>2
<1> DEFINE f == [k \in 0 .. N |-> it[1 .. k]]
<1>8. f[0] = base /\ f[N] = whole
  <2>1. 1 .. 0 = {} /\ 0 \in 0 .. N /\ N \in 0 .. N
    BY <1>1
  <2> QED BY <1>5, <1>6, <2>1
<1>9. \A k \in 1 .. N : f[k] = Next1(f[k - 1], k)
  <2>1. \A k \in 1 .. N : k - 1 \in 0 .. N /\ k \in 0 .. N
    BY <1>1
  <2> QED BY <1>7, <2>1
<1> HIDE DEF f
<1>10. \A k \in 0 .. N : f[k] \in V
  <2> DEFINE T == {k \in 0 .. N : f[k] \in V}
  <2>1. 0 \in T
    BY <1>1, <1>8
  <2>2. \A k \in 1 .. N : k - 1 \in T => k \in T
    BY <1>2, <1>9
  <2>3. \A k \in 0 .. N : k \in T
    <3> HIDE DEF T
    <3> QED BY <1>1, <2>1, <2>2, Climb
  <2> QED BY <2>3
<1>11. \A k \in 1 .. Len(w) : f[k] = Promised!Act(w[k], f[k - 1])
  <2>1. \A k \in 1 .. N : k - 1 \in 0 .. N
    BY <1>1
  <2>2. \A k \in 1 .. N : f[k] = Promised!Act(w[k], f[k - 1])
    BY <1>2, <1>9, <1>10, <2>1
  <2>3. Len(w) = N
    BY <1>w DEF N
  <2> QED BY <2>2, <2>3
<1>12. RunAll(w, base) = f[Len(w)] /\ IsState(f[Len(w)], n)
  <2>1. IsState(base, n) /\ f[0] = base
    BY <1>b, <1>8
  <2> QED BY <1>w, <1>11, <2>1, OneRun
<1>13. f[Len(w)] = whole
  BY <1>w, <1>8 DEF N
<1> QED BY <1>b, <1>12, <1>13 DEF whole, w

\* The layers follow each other, as they are documented ...
LayerRun(f, p, n, cost, at, theta, s) ==
    /\ f[0] = s /\ DocumentedLayers(n, cost, p, at, theta, s) = f[p]
    /\ \A k \in 0 .. p : IsState(f[k], n)
    /\ \A k \in 1 .. p :
          f[k] = DocumentedLayer(n, cost, theta[at + 2 * k - 1], theta[at + 2 * k], f[k - 1])

LEMMA DocumentedSteps ==
    ASSUME Powers, NEW n \in Nat, NEW cost, Priced(cost, n), NEW p \in Nat, NEW at \in Nat,
           NEW theta, \A i \in 1 .. at + 2 * p : theta[i] \in Int, NEW s, IsState(s, n)
    PROVE  \E f : LayerRun(f, p, n, cost, at, theta, s)
<1> DEFINE N == p
           V == [Indices(n) -> Amplitude]
           base == s
           from == [l \in 1 .. p |-> l]
           whole == DocumentedLayers(n, cost, p, at, theta, s)
           Lay(t, l) == DocumentedLayer(n, cost, theta[at + 2 * l - 1], theta[at + 2 * l], t)
           Next1(t, k) == Lay(t, from[k])
           F(it) == [S \in SUBSET (1 .. N) |->
                       IF S = {} THEN base ELSE Next1(it[S \ {Max(S)}], Max(S))]
<1>1. N \in Nat /\ base \in V
  BY DEF IsState
<1>2. \A t \in V, k \in 1 .. N : Next1(t, k) \in V
  <2> SUFFICES ASSUME NEW t \in V, NEW k \in 1 .. N PROVE Next1(t, k) \in V
    OBVIOUS
  <2>1. at + 2 * k - 1 \in 1 .. at + 2 * p /\ at + 2 * k \in 1 .. at + 2 * p /\ from[k] = k
    OBVIOUS
  <2> DEFINE gamma == theta[at + 2 * k - 1]
             beta == theta[at + 2 * k]
  <2>2. gamma \in Int /\ beta \in Int /\ IsState(t, n)
    BY <2>1 DEF IsState
  <2>3. Next1(t, k) = DocumentedLayer(n, cost, gamma, beta, t)
    BY <2>1
  <2> HIDE DEF gamma, beta, Next1
  <2>4. IsState(DocumentedLayer(n, cost, gamma, beta, t), n)
    BY <2>2, LayerIsRun
  <2> QED BY <2>3, <2>4 DEF IsState
<1>3. whole = (CHOOSE it : it = F(it))[1 .. N]
  <2>1. DOMAIN from = 1 .. N /\ Len(from) = N
    OBVIOUS
  <2> HIDE DEF from
  <2>2. DocumentedLayers(n, cost, p, at, theta, s)
          = FoldLeft(LAMBDA t, l : Lay(t, l), base, from)
    BY DEF DocumentedLayers, from
  <2> QED BY <2>1, <2>2 DEF FoldLeft, MapThenFoldSet
<1>f. \A k \in 1 .. N : from[k] = k
  OBVIOUS
<1>g. ASSUME NEW k \in 1 .. N, NEW t
      PROVE  Next1(t, k) = DocumentedLayer(n, cost, theta[at + 2 * k - 1], theta[at + 2 * k], t)
  BY <1>f
<1> HIDE DEF N, V, base, Next1, whole
<1>4. \E it : it = F(it)
  <2> DEFINE step == [x \in V \X (1 .. N) |-> Next1(x[1], x[2])]
  <2>1. \A d \in V, k \in 1 .. N : step[<<d, k>>] = Next1(d, k)
    OBVIOUS
  <2> HIDE DEF step
  <2>2. PICK it : Folds(it, N, base, step, V)
    <3>1. \A d \in V, k \in 1 .. N : step[<<d, k>>] \in V
      BY <1>2, <2>1
    <3> QED BY <1>1, <3>1, FoldExists
  <2>3. /\ it \in [SUBSET (1 .. N) -> V]
        /\ \A S \in SUBSET (1 .. N) :
              it[S] = IF S = {} THEN base ELSE step[<<it[S \ {Max(S)}], Max(S)>>]
    BY <2>2 DEF Folds
  <2>4. ASSUME NEW S \in SUBSET (1 .. N)
        PROVE  it[S] = IF S = {} THEN base ELSE Next1(it[S \ {Max(S)}], Max(S))
    <3>1. CASE S # {}
      <4>1. Max(S) \in 1 .. N /\ it[S \ {Max(S)}] \in V
        BY <1>1, <2>3, <3>1, Greatest
      <4> QED BY <2>1, <2>3, <3>1, <4>1
    <3> QED BY <2>3, <3>1
  <2>5. it = F(it)
    BY <2>3, <2>4
  <2> QED BY <2>5
<1>5. PICK it : it = F(it) /\ whole = it[1 .. N]
  BY <1>3, <1>4
<1>6. it[{}] = base
  BY <1>5
<1>7. ASSUME NEW k \in 1 .. N PROVE it[1 .. k] = Next1(it[1 .. k - 1], k)
  <2>1. Max(1 .. k) = k /\ (1 .. k) \ {k} = 1 .. k - 1
    BY <1>1, PartOfAll, GreatestOfAll
  <2>2. 1 .. k \in SUBSET (1 .. N) /\ 1 .. k # {}
    BY <1>1, PartOfAll
  <2> QED BY <1>5, <2>1, <2>2
<1> DEFINE f == [k \in 0 .. N |-> it[1 .. k]]
<1>8. f[0] = base /\ f[N] = whole
  <2>1. 1 .. 0 = {} /\ 0 \in 0 .. N /\ N \in 0 .. N
    BY <1>1
  <2> QED BY <1>5, <1>6, <2>1
<1>9. \A k \in 1 .. N : f[k] = Next1(f[k - 1], k)
  <2>1. \A k \in 1 .. N : k - 1 \in 0 .. N /\ k \in 0 .. N
    BY <1>1
  <2> QED BY <1>7, <2>1
<1> HIDE DEF f
<1>10. \A k \in 0 .. N : f[k] \in V
  <2> DEFINE T == {k \in 0 .. N : f[k] \in V}
  <2>1. 0 \in T
    BY <1>1, <1>8
  <2>2. \A k \in 1 .. N : k - 1 \in T => k \in T
    BY <1>2, <1>9
  <2>3. \A k \in 0 .. N : k \in T
    <3> HIDE DEF T
    <3> QED BY <1>1, <2>1, <2>2, Climb
  <2> QED BY <2>3
<1>11. ASSUME NEW k \in 1 .. N
       PROVE  f[k] = DocumentedLayer(n, cost, theta[at + 2 * k - 1], theta[at + 2 * k], f[k - 1])
  BY <1>9, <1>g, Zenon
<1>12. LayerRun(f, p, n, cost, at, theta, s)
  <2>1. f[0] = s /\ DocumentedLayers(n, cost, p, at, theta, s) = f[p]
    BY <1>8 DEF base, whole, N
  <2>2. \A k \in 0 .. p : IsState(f[k], n)
    BY <1>10 DEF N, V, IsState
  <2>3. \A k \in 1 .. p : f[k] = DocumentedLayer(n, cost, theta[at + 2 * k - 1],
                                                 theta[at + 2 * k], f[k - 1])
    BY <1>11, Zenon DEF N
  <2> QED BY <2>1, <2>2, <2>3, Zenon DEF LayerRun
<1> QED BY <1>12

AnglesTo(theta, k) == \A i \in 1 .. k : theta[i] \in Int

\* The growth of the documented layers, for a state.
GrowsTo(n, cost, p, at, theta, s) ==
    /\ DocumentedLayers(n, cost, 0, at, theta, s) = s
    /\ \A l \in 0 .. p : IsState(DocumentedLayers(n, cost, l, at, theta, s), n)
    /\ \A l \in 1 .. p : DocumentedLayers(n, cost, l, at, theta, s)
          = DocumentedLayer(n, cost, theta[at + 2 * l - 1], theta[at + 2 * l],
                            DocumentedLayers(n, cost, l - 1, at, theta, s))

LEMMA DocumentedGrows ==
    ASSUME Powers, NEW n \in Nat, NEW cost, Priced(cost, n), NEW p \in Nat, NEW at \in Nat,
           NEW theta, NEW top, top = at + 2 * p, AnglesTo(theta, top), NEW s, IsState(s, n)
    PROVE  GrowsTo(n, cost, p, at, theta, s)
<1> DEFINE D(l) == DocumentedLayers(n, cost, l, at, theta, s)
           Lay(l, t) == DocumentedLayer(n, cost, theta[at + 2 * l - 1], theta[at + 2 * l], t)
           Steps(f, l) == /\ f[0] = s /\ D(l) = f[l]
                          /\ \A i \in 0 .. l : IsState(f[i], n)
                          /\ \A i \in 1 .. l : f[i] = Lay(i, f[i - 1])
<1>r. \A f, l : LayerRun(f, l, n, cost, at, theta, s) => Steps(f, l)
  BY Zenon DEF LayerRun
<1>1. ASSUME NEW l \in 0 .. p PROVE \E f : Steps(f, l)
  <2>1. \A i \in 1 .. at + 2 * l : theta[i] \in Int
    BY DEF AnglesTo
  <2>2. l \in Nat
    OBVIOUS
  <2>3. PICK f : LayerRun(f, l, n, cost, at, theta, s)
    BY <2>1, <2>2, DocumentedSteps
  <2>4. Steps(f, l)
    BY <1>r, <2>3
  <2> HIDE DEF Steps
  <2> QED BY <2>4
<1> HIDE DEF D, Lay
<1>2. D(0) = s
  BY <1>1
<1>3. \A l \in 0 .. p : IsState(D(l), n)
  <2>1. \A l \in 0 .. p : l \in 0 .. l
    OBVIOUS
  <2> QED BY <1>1, <2>1
<1>4. ASSUME NEW l \in 1 .. p PROVE D(l) = Lay(l, D(l - 1))
  <2>0. l - 1 \in 0 .. p /\ l \in 0 .. p /\ l \in 1 .. l /\ l - 1 \in Nat /\ l - 1 \in 0 .. l - 1
    OBVIOUS
  <2>1. PICK f : Steps(f, l)
    BY <1>1, <2>0
  <2>2. PICK g : Steps(g, l - 1)
    BY <1>1, <2>0
  <2> DEFINE T == {k \in 0 .. l - 1 : f[k] = g[k]}
  <2>3. 0 \in T
    BY <2>0, <2>1, <2>2
  <2>4. ASSUME NEW k \in 1 .. l - 1, k - 1 \in T PROVE k \in T
    <3>1. k \in 1 .. l /\ k \in 0 .. l - 1 /\ k - 1 \in 0 .. l - 1
      BY <2>0
    <3>2. f[k] = Lay(k, f[k - 1]) /\ g[k] = Lay(k, g[k - 1]) /\ f[k - 1] = g[k - 1]
      BY <2>1, <2>2, <2>4, <3>1
    <3> QED BY <3>1, <3>2
  <2>5. \A k \in 0 .. l - 1 : k \in T
    <3> HIDE DEF T
    <3> QED BY <2>0, <2>3, <2>4, Climb
  <2>6. f[l - 1] = g[l - 1]
    BY <2>0, <2>5
  <2> QED BY <2>0, <2>1, <2>2, <2>6
<1> QED BY <1>2, <1>3, <1>4 DEF D, Lay, GrowsTo

\* ... and as they are built.
LEMMA QaoaSteps ==
    ASSUME NEW n \in Nat, NEW c \in CircuitsOn(n), NEW masks \in Seq(CostTerms(n)),
           NEW p \in Nat
    PROVE  \E f : /\ f[0] = c /\ QaoaLayers(c, masks, p) = f[p]
                  /\ \A k \in 0 .. p : f[k] \in CircuitsOn(n)
                  /\ \A k \in 1 .. p : f[k] = QaoaLayer(f[k - 1], masks)
<1> DEFINE N == p
           V == CircuitsOn(n)
           base == c
           whole == QaoaLayers(c, masks, p)
           Next1(d, k) == QaoaLayer(d, masks)
           F(it) == [S \in SUBSET (1 .. N) |->
                       IF S = {} THEN base ELSE Next1(it[S \ {Max(S)}], Max(S))]
<1>1. N \in Nat /\ base \in V
  OBVIOUS
<1>2. \A d \in V, k \in 1 .. N : Next1(d, k) \in V
  BY QaoaLayerType
<1>3. whole = (CHOOSE it : it = F(it))[1 .. N]
  BY DEF QaoaLayers, FoldLeft, MapThenFoldSet
<1>g. \A d, k : Next1(d, k) = QaoaLayer(d, masks)
  OBVIOUS
<1> HIDE DEF N, V, base, Next1, whole
<1>4. \E it : it = F(it)
  <2> DEFINE step == [x \in V \X (1 .. N) |-> Next1(x[1], x[2])]
  <2>1. \A d \in V, k \in 1 .. N : step[<<d, k>>] = Next1(d, k)
    OBVIOUS
  <2> HIDE DEF step
  <2>2. PICK it : Folds(it, N, base, step, V)
    <3>1. \A d \in V, k \in 1 .. N : step[<<d, k>>] \in V
      BY <1>2, <2>1
    <3> QED BY <1>1, <3>1, FoldExists
  <2>3. /\ it \in [SUBSET (1 .. N) -> V]
        /\ \A S \in SUBSET (1 .. N) :
              it[S] = IF S = {} THEN base ELSE step[<<it[S \ {Max(S)}], Max(S)>>]
    BY <2>2 DEF Folds
  <2>4. ASSUME NEW S \in SUBSET (1 .. N)
        PROVE  it[S] = IF S = {} THEN base ELSE Next1(it[S \ {Max(S)}], Max(S))
    <3>1. CASE S # {}
      <4>1. Max(S) \in 1 .. N /\ it[S \ {Max(S)}] \in V
        BY <1>1, <2>3, <3>1, Greatest
      <4> QED BY <2>1, <2>3, <3>1, <4>1
    <3> QED BY <2>3, <3>1
  <2>5. it = F(it)
    BY <2>3, <2>4
  <2> QED BY <2>5
<1>5. PICK it : it = F(it) /\ whole = it[1 .. N]
  BY <1>3, <1>4
<1>6. it[{}] = base
  BY <1>5
<1>7. ASSUME NEW k \in 1 .. N PROVE it[1 .. k] = Next1(it[1 .. k - 1], k)
  <2>1. Max(1 .. k) = k /\ (1 .. k) \ {k} = 1 .. k - 1
    BY <1>1, PartOfAll, GreatestOfAll
  <2>2. 1 .. k \in SUBSET (1 .. N) /\ 1 .. k # {}
    BY <1>1, PartOfAll
  <2> QED BY <1>5, <2>1, <2>2
<1> DEFINE f == [k \in 0 .. N |-> it[1 .. k]]
<1>8. f[0] = base /\ f[N] = whole
  <2>1. 1 .. 0 = {} /\ 0 \in 0 .. N /\ N \in 0 .. N
    BY <1>1
  <2> QED BY <1>5, <1>6, <2>1
<1>9. \A k \in 1 .. N : f[k] = Next1(f[k - 1], k)
  <2>1. \A k \in 1 .. N : k - 1 \in 0 .. N /\ k \in 0 .. N
    BY <1>1
  <2> QED BY <1>7, <2>1
<1> HIDE DEF f
<1>10. \A k \in 0 .. N : f[k] \in V
  <2> DEFINE T == {k \in 0 .. N : f[k] \in V}
  <2>1. 0 \in T
    BY <1>1, <1>8
  <2>2. \A k \in 1 .. N : k - 1 \in T => k \in T
    BY <1>2, <1>9
  <2>3. \A k \in 0 .. N : k \in T
    <3> HIDE DEF T
    <3> QED BY <1>1, <2>1, <2>2, Climb
  <2> QED BY <2>3
<1> QED BY <1>8, <1>9, <1>10, <1>g DEF N, V, base, whole

LEMMA QaoaGrows ==
    ASSUME NEW n \in Nat, NEW c \in CircuitsOn(n), NEW masks \in Seq(CostTerms(n)),
           NEW p \in Nat
    PROVE  /\ QaoaLayers(c, masks, 0) = c
           /\ \A l \in 0 .. p : QaoaLayers(c, masks, l) \in CircuitsOn(n)
           /\ \A l \in 1 .. p :
                 QaoaLayers(c, masks, l) = QaoaLayer(QaoaLayers(c, masks, l - 1), masks)
<1> DEFINE D(l) == QaoaLayers(c, masks, l)
           Lay(l, t) == QaoaLayer(t, masks)
           Steps(f, l) == /\ f[0] = c /\ D(l) = f[l]
                          /\ \A k \in 0 .. l : f[k] \in CircuitsOn(n)
                          /\ \A k \in 1 .. l : f[k] = Lay(k, f[k - 1])
<1>1. ASSUME NEW l \in 0 .. p PROVE \E f : Steps(f, l)
  <2>2. l \in Nat
    OBVIOUS
  <2> QED BY <2>2, QaoaSteps
<1> HIDE DEF D, Lay
<1>2. D(0) = c
  BY <1>1
<1>3. \A l \in 0 .. p : D(l) \in CircuitsOn(n)
  <2>1. \A l \in 0 .. p : l \in 0 .. l
    OBVIOUS
  <2> QED BY <1>1, <2>1
<1>4. ASSUME NEW l \in 1 .. p PROVE D(l) = Lay(l, D(l - 1))
  <2>0. l - 1 \in 0 .. p /\ l \in 0 .. p /\ l \in 1 .. l /\ l - 1 \in Nat /\ l - 1 \in 0 .. l - 1
    OBVIOUS
  <2>1. PICK f : Steps(f, l)
    BY <1>1, <2>0
  <2>2. PICK g : Steps(g, l - 1)
    BY <1>1, <2>0
  <2> DEFINE T == {k \in 0 .. l - 1 : f[k] = g[k]}
  <2>3. 0 \in T
    BY <2>0, <2>1, <2>2
  <2>4. ASSUME NEW k \in 1 .. l - 1, k - 1 \in T PROVE k \in T
    <3>1. k \in 1 .. l /\ k \in 0 .. l - 1 /\ k - 1 \in 0 .. l - 1
      BY <2>0
    <3>2. f[k] = Lay(k, f[k - 1]) /\ g[k] = Lay(k, g[k - 1]) /\ f[k - 1] = g[k - 1]
      BY <2>1, <2>2, <2>4, <3>1
    <3> QED BY <3>1, <3>2
  <2>5. \A k \in 0 .. l - 1 : k \in T
    <3> HIDE DEF T
    <3> QED BY <2>0, <2>3, <2>4, Climb
  <2>6. f[l - 1] = g[l - 1]
    BY <2>0, <2>5
  <2> QED BY <2>0, <2>1, <2>2, <2>6
<1> QED BY <1>2, <1>3, <1>4 DEF D, Lay

LEMMA CostSteps ==
    ASSUME NEW n \in Nat, NEW c \in CircuitsOn(n), NEW masks \in Seq(CostTerms(n))
    PROVE  \E f : /\ f[0] = NewParams(c, 2)
                  /\ QaoaLayer(c, masks) = AddGates(f[Len(masks)],
                        [q \in 1 .. n |-> Gate("RX", <<q - 1>>, <<Scaled(2, Free(c.params + 1))>>)])
                  /\ \A k \in 0 .. Len(masks) :
                        f[k] \in CircuitsOn(n) /\ f[k].params = c.params + 2
                  /\ \A k \in 1 .. Len(masks) :
                        f[k] = CostGadget(f[k - 1], masks[k], Free(c.params))
<1> DEFINE gamma == Free(c.params)
           N == Len(masks)
           V == {d \in CircuitsOn(n) : d.params = c.params + 2}
           base == NewParams(c, 2)
           whole == FoldLeft(LAMBDA d, m : CostGadget(d, m, gamma), base, masks)
           Next1(d, k) == CostGadget(d, masks[k], gamma)
           F(it) == [S \in SUBSET (1 .. N) |->
                       IF S = {} THEN base ELSE Next1(it[S \ {Max(S)}], Max(S))]
<1>1. N \in Nat /\ base \in V
  BY AllocatesParams
<1>2. \A d \in V, k \in 1 .. N : Next1(d, k) \in V
  <2>1. ASSUME NEW d \in V, NEW k \in 1 .. N PROVE Next1(d, k) \in V
    <3>1. masks[k] \in CostTerms(n)
      OBVIOUS
    <3>2. c.params \in Nat /\ d \in CircuitsOn(n) /\ d.params = c.params + 2
      BY CircuitFacts
    <3>3. c.params < d.params
      BY <3>2
    <3> QED BY <3>1, <3>2, <3>3, CostGadgetType
  <2> QED BY <2>1
<1>3. whole = (CHOOSE it : it = F(it))[1 .. N]
  <2>1. DOMAIN masks = 1 .. N
    OBVIOUS
  <2> QED BY <2>1 DEF FoldLeft, MapThenFoldSet
<1>g. \A d, k : Next1(d, k) = CostGadget(d, masks[k], Free(c.params))
  OBVIOUS
<1> HIDE DEF N, V, base, Next1, whole
<1>4. \E it : it = F(it)
  <2> DEFINE step == [x \in V \X (1 .. N) |-> Next1(x[1], x[2])]
  <2>1. \A d \in V, k \in 1 .. N : step[<<d, k>>] = Next1(d, k)
    OBVIOUS
  <2> HIDE DEF step
  <2>2. PICK it : Folds(it, N, base, step, V)
    <3>1. \A d \in V, k \in 1 .. N : step[<<d, k>>] \in V
      BY <1>2, <2>1
    <3> QED BY <1>1, <3>1, FoldExists
  <2>3. /\ it \in [SUBSET (1 .. N) -> V]
        /\ \A S \in SUBSET (1 .. N) :
              it[S] = IF S = {} THEN base ELSE step[<<it[S \ {Max(S)}], Max(S)>>]
    BY <2>2 DEF Folds
  <2>4. ASSUME NEW S \in SUBSET (1 .. N)
        PROVE  it[S] = IF S = {} THEN base ELSE Next1(it[S \ {Max(S)}], Max(S))
    <3>1. CASE S # {}
      <4>1. Max(S) \in 1 .. N /\ it[S \ {Max(S)}] \in V
        BY <1>1, <2>3, <3>1, Greatest
      <4> QED BY <2>1, <2>3, <3>1, <4>1
    <3> QED BY <2>3, <3>1
  <2>5. it = F(it)
    BY <2>3, <2>4
  <2> QED BY <2>5
<1>5. PICK it : it = F(it) /\ whole = it[1 .. N]
  BY <1>3, <1>4
<1>6. it[{}] = base
  BY <1>5
<1>7. ASSUME NEW k \in 1 .. N PROVE it[1 .. k] = Next1(it[1 .. k - 1], k)
  <2>1. Max(1 .. k) = k /\ (1 .. k) \ {k} = 1 .. k - 1
    BY <1>1, PartOfAll, GreatestOfAll
  <2>2. 1 .. k \in SUBSET (1 .. N) /\ 1 .. k # {}
    BY <1>1, PartOfAll
  <2> QED BY <1>5, <2>1, <2>2
<1> DEFINE f == [k \in 0 .. N |-> it[1 .. k]]
<1>8. f[0] = base /\ f[N] = whole
  <2>1. 1 .. 0 = {} /\ 0 \in 0 .. N /\ N \in 0 .. N
    BY <1>1
  <2> QED BY <1>5, <1>6, <2>1
<1>9. \A k \in 1 .. N : f[k] = Next1(f[k - 1], k)
  <2>1. \A k \in 1 .. N : k - 1 \in 0 .. N /\ k \in 0 .. N
    BY <1>1
  <2> QED BY <1>7, <2>1
<1> HIDE DEF f
<1>10. \A k \in 0 .. N : f[k] \in V
  <2> DEFINE T == {k \in 0 .. N : f[k] \in V}
  <2>1. 0 \in T
    BY <1>1, <1>8
  <2>2. \A k \in 1 .. N : k - 1 \in T => k \in T
    BY <1>2, <1>9
  <2>3. \A k \in 0 .. N : k \in T
    <3> HIDE DEF T
    <3> QED BY <1>1, <2>1, <2>2, Climb
  <2> QED BY <2>3
<1> DEFINE beta == Free(c.params + 1)
           gates == [q \in 1 .. n |-> Gate("RX", <<q - 1>>, <<Scaled(2, beta)>>)]
<1>11. whole \in CircuitsOn(n) /\ whole.n = n /\ c.n = n
  <2>1. N \in 0 .. N
    BY <1>1
  <2>2. whole \in CircuitsOn(n)
    BY <1>8, <1>10, <2>1 DEF V
  <2> QED BY <2>2, CircuitFacts
<1>12. QaoaLayer(c, masks) = AddGates(whole, gates)
  BY <1>11 DEF QaoaLayer, whole, base
<1> HIDE DEF gates, gamma
<1>13. QaoaLayer(c, masks) = AddGates(f[N], gates)
  BY <1>8, <1>12
<1>14. \A k \in 0 .. N : f[k] \in CircuitsOn(n) /\ f[k].params = c.params + 2
  BY <1>10 DEF V
<1>15. \A k \in 1 .. N : f[k] = CostGadget(f[k - 1], masks[k], Free(c.params))
  BY <1>9, <1>g, Zenon
<1> QED BY <1>8, <1>13, <1>14, <1>15 DEF N, base, gates

-----------------------------------------------------------------------------
(* The cost terms of a layer, one after the other *)

\* Circuit d is c and then gates that multiply by the phases h.
Turns(c, d, theta, h, n) ==
    \E gates \in Seq(GateOp) :
        /\ d.ops = c.ops \o gates /\ GatesFit(Bound(gates, theta), n)
        /\ \A s : IsState(s, n) => RunAll(Bound(gates, theta), s) = Phased(h, s)

NoPhases(n) == [j \in Indices(n) |-> 0]

LEMMA StartsUnturned ==
    ASSUME Powers, NEW n \in Nat, NEW c, c.ops \in Seq(GateOp), NEW d, d.ops = c.ops, NEW theta
    PROVE  Turns(c, d, theta, NoPhases(n), n) /\ NoPhases(n) \in Phases(n)
<1>1. <<>> \in Seq(GateOp) /\ d.ops = c.ops \o <<>>
  BY ConcatEmptySeq
<1>2. Bound(<<>>, theta) = <<>>
  BY DEF Bound
<1>3. GatesFit(<<>>, n) /\ Len(<<>>) = 0
  BY DEF GatesFit
<1>4. NoPhases(n) \in Phases(n) /\ \A j \in Indices(n) : NoPhases(n)[j] = 0
  BY DEF NoPhases, Phases
<1>5. ASSUME NEW s, IsState(s, n) PROVE RunAll(<<>>, s) = Phased(NoPhases(n), s)
  <2> DEFINE f == [k \in 0 .. 0 |-> s]
             t == Phased(NoPhases(n), s)
             none == <<>>
  <2>1. f[0] = s
    OBVIOUS
  <2>2. GatesFit(none, n) /\ Len(none) = 0
    BY <1>3
  <2> HIDE DEF f, none
  <2>3. \A k \in 1 .. Len(none) : f[k] = Promised!Act(none[k], f[k - 1])
    BY <2>2
  <2>4. RunAll(none, s) = f[Len(none)]
    BY <1>5, <2>1, <2>2, <2>3, OneRun
  <2>5. IsState(t, n) /\ \A j \in Indices(n) : t[j] = Times(Phase(0), s[j])
    BY <1>4, <1>5, PhasedType
  <2>6. ASSUME NEW j \in Indices(n) PROVE t[j] = s[j]
    <3>1. Phase(0) = One /\ s[j] \in Amplitude
      BY <1>5, FirstAngles DEF IsState
    <3> QED BY <2>5, <3>1, Units
  <2> HIDE DEF t
  <2>7. t = s
    BY <1>5, <2>5, <2>6 DEF IsState
  <2> QED BY <2>1, <2>2, <2>4, <2>7 DEF none, t
<1>6. /\ d.ops = c.ops \o <<>> /\ GatesFit(Bound(<<>>, theta), n)
      /\ \A s : IsState(s, n) => RunAll(Bound(<<>>, theta), s) = Phased(NoPhases(n), s)
  BY <1>1, <1>2, <1>3, <1>5
<1> QED BY <1>1, <1>4, <1>6 DEF Turns

\* A term with qubits turns by their parity.
AddsPhase(l, h, z, a, n) ==
    \A j \in Indices(n) : l[j] = (IF Odd(j, z) THEN a ELSE -a) + h[j]

LEMMA GadgetTurnsOn ==
    ASSUME Powers, NEW n \in Nat, NEW c, c.ops \in Seq(GateOp), NEW d \in CircuitsOn(n),
           NEW m \in CostTerms(n), m.z # {},
           NEW i, NEW theta, NEW a, Gives(theta, i, 2 * m.coeff, a),
           NEW h \in Phases(n), NEW l \in Phases(n), Turns(c, d, theta, h, n),
           AddsPhase(l, h, m.z, a, n)
    PROVE  Turns(c, CostGadget(d, m, Free(i)), theta, l, n)
<1> DEFINE x == 2 * m.coeff
           y == theta[i + 1]
<1>0. a \in Int
  <2>1. x \in Int /\ y \in Int /\ a = x * y
    BY DEF Gives
  <2> HIDE DEF x, y
  <2> QED BY <2>1
<1>1. PICK cs, q : GadgetOn(d, m, i, cs, q, n)
  <2>1. d.n = n /\ m.z \in SUBSET (0 .. n - 1)
    BY CircuitFacts DEF CostTerms
  <2> QED BY <2>1, GadgetIs
<1>e. IsFan(cs, q, n) /\ m.z = FirstOf(cs, Len(cs)) \cup {q}
  BY <1>1 DEF GadgetOn
<1>2. PICK gates \in Seq(GateOp) :
         /\ d.ops = c.ops \o gates /\ GatesFit(Bound(gates, theta), n)
         /\ \A s : IsState(s, n) => RunAll(Bound(gates, theta), s) = Phased(h, s)
  BY DEF Turns
<1> DEFINE more == Fanned(cs, SymbolicTurn(q, x, i), q)
           bound == Fanned(cs, Turn2(q, a), q)
           k == ByOdd(m.z, a, n)
<1> HIDE DEF x
<1>b. more \in Seq(GateOp) /\ Bound(more, theta) = bound
  <2>1. Gives(theta, i, x, a)
    BY DEF x
  <2> QED BY <1>e, <2>1, FannedBound
<1>3. more \in Seq(GateOp)
  BY <1>b
<1>4. Bound(more, theta) = bound
  BY <1>b
<1>5. /\ GatesFit(bound, n) /\ k \in Phases(n)
      /\ \A s : IsState(s, n) => RunAll(bound, s) = Phased(k, s)
  <2> DEFINE z == m.z
  <2>1. z = FirstOf(cs, Len(cs)) \cup {q}
    BY <1>e
  <2> HIDE DEF z
  <2>2. /\ GatesFit(Fanned(cs, Turn2(q, a), q), n) /\ ByOdd(z, a, n) \in Phases(n)
        /\ \A s : IsState(s, n) =>
              RunAll(Fanned(cs, Turn2(q, a), q), s) = Phased(ByOdd(z, a, n), s)
    BY <1>0, <1>e, <2>1, FanTurns
  <2> QED BY <2>2 DEF z
<1>6. ASSUME NEW j \in Indices(n) PROVE l[j] = k[j] + h[j]
  <2>1. k[j] = IF Odd(j, m.z) THEN a ELSE -a
    BY DEF ByOdd
  <2> HIDE DEF k
  <2>2. l[j] = (IF Odd(j, m.z) THEN a ELSE -a) + h[j]
    BY DEF AddsPhase
  <2> QED BY <2>1, <2>2
<1> HIDE DEF more, bound, k
<1> DEFINE all == gates \o more
           e == CostGadget(d, m, Free(i))
<1>7. all \in Seq(GateOp) /\ e.ops = c.ops \o all
  <2>1. all \in Seq(GateOp) /\ (c.ops \o gates) \o more = c.ops \o all
    <3>1. gates \o more \in Seq(GateOp)
      BY <1>3, ConcatProperties
    <3>2. (c.ops \o gates) \o more = c.ops \o (gates \o more)
      BY <1>3, Regroups
    <3> QED BY <3>1, <3>2, Zenon
  <2>2. AddGates(d, more).ops = d.ops \o more
    <3>1. d = [n |-> n, params |-> d.params, ops |-> d.ops, measured |-> d.measured]
      BY CircuitFacts
    <3> QED BY <3>1 DEF AddGates
  <2>3. e = AddGates(d, more)
    BY <1>1, Zenon DEF more, GadgetOn, x
  <2> HIDE DEF all, e
  <2> QED BY <1>2, <2>1, <2>2, <2>3
<1>8. Bound(all, theta) = Bound(gates, theta) \o bound
  <2>1. Bound(gates \o more, theta) = Bound(gates, theta) \o Bound(more, theta)
    BY <1>3, BoundJoins
  <2> QED BY <1>4, <2>1, Zenon
<1> HIDE DEF all, e
<1> DEFINE front == Bound(gates, theta)
<1>9. GatesFit(front \o bound, n)
  <2>1. \E s : IsState(s, n)
    BY KetType
  <2> HIDE DEF front
  <2>2. GatesFit(front, n)
    BY <1>2 DEF front
  <2> QED BY <1>5, <2>1, <2>2, RunJoins
<1>10. ASSUME NEW s, IsState(s, n) PROVE RunAll(front \o bound, s) = Phased(l, s)
  <2>0. GatesFit(front, n) /\ RunAll(front, s) = Phased(h, s)
    BY <1>2, <1>10
  <2> HIDE DEF front
  <2>1. RunAll(front \o bound, s) = RunAll(bound, RunAll(front, s))
    BY <1>5, <1>10, <2>0, RunJoins
  <2> DEFINE t == Phased(h, s)
  <2>2. IsState(t, n)
    BY <1>10, PhasedType
  <2>3. RunAll(bound, t) = Phased(k, t)
    BY <1>5, <2>2
  <2>4. Phased(k, t) = Phased(l, s)
    BY <1>5, <1>6, <1>10, PhasedTwice
  <2> HIDE DEF t
  <2> QED BY <2>0, <2>1, <2>3, <2>4 DEF t
<1>11. /\ e.ops = c.ops \o all /\ GatesFit(Bound(all, theta), n)
       /\ \A s : IsState(s, n) => RunAll(Bound(all, theta), s) = Phased(l, s)
  BY <1>7, <1>8, <1>9, <1>10
<1> QED BY <1>7, <1>11 DEF Turns, e

\* What each term turns by, and what the first k do.
TermPhases(masks, gamma, j) ==
    [x \in 1 .. Len(masks) |->
        IF masks[x].z = {} THEN 0
        ELSE IF Odd(j, masks[x].z) THEN (2 * masks[x].coeff) * gamma
        ELSE -((2 * masks[x].coeff) * gamma)]
TurnsOf(masks, gamma, k, n) ==
    [j \in Indices(n) |-> IntTotal(1 .. k, TermPhases(masks, gamma, j))]

LEMMA TermPhasesType ==
    ASSUME NEW n \in Nat, NEW masks \in Seq(CostTerms(n)), NEW gamma \in Int, NEW j,
           NEW x \in 1 .. Len(masks)
    PROVE  /\ TermPhases(masks, gamma, j)[x] \in Int
           /\ TermPhases(masks, gamma, j)[x]
                = IF masks[x].z = {} THEN 0
                  ELSE IF Odd(j, masks[x].z) THEN (2 * masks[x].coeff) * gamma
                  ELSE -((2 * masks[x].coeff) * gamma)
           /\ masks[x] \in CostTerms(n) /\ masks[x].coeff \in Int
<1>1. masks[x] \in CostTerms(n)
  OBVIOUS
<1>2. masks[x].coeff \in Int
  BY <1>1 DEF CostTerms
<1> DEFINE c == masks[x].coeff
           a == (2 * c) * gamma
<1>3. TermPhases(masks, gamma, j)[x]
        = IF masks[x].z = {} THEN 0 ELSE IF Odd(j, masks[x].z) THEN a ELSE -a
  BY DEF TermPhases
<1>4. a \in Int
  <2>1. c \in Int
    BY <1>2
  <2> HIDE DEF c
  <2>2. (2 * c) * gamma \in Int
    BY <2>1
  <2> QED BY <2>2
<1> HIDE DEF a
<1>5. TermPhases(masks, gamma, j)[x] \in Int
  BY <1>3, <1>4
<1> QED BY <1>1, <1>2, <1>3, <1>5 DEF a, c

LEMMA TurnsOfGrow ==
    ASSUME NEW n \in Nat, NEW masks \in Seq(CostTerms(n)), NEW gamma \in Int
    PROVE  /\ TurnsOf(masks, gamma, 0, n) = NoPhases(n)
           /\ \A k \in 0 .. Len(masks) : TurnsOf(masks, gamma, k, n) \in Phases(n)
           /\ \A k \in 1 .. Len(masks) : \A j \in Indices(n) :
                 TurnsOf(masks, gamma, k, n)[j]
                   = TermPhases(masks, gamma, j)[k] + TurnsOf(masks, gamma, k - 1, n)[j]
<1> DEFINE N == Len(masks)
           C(k, j) == IntTotal(1 .. k, TermPhases(masks, gamma, j))
           h(k) == TurnsOf(masks, gamma, k, n)
<1>1. N \in Nat
  OBVIOUS
<1>2. ASSUME NEW j
      PROVE  /\ C(0, j) = 0 /\ \A k \in 0 .. N : C(k, j) \in Int
             /\ \A k \in 1 .. N : C(k, j) = C(k - 1, j) + TermPhases(masks, gamma, j)[k]
             /\ \A k \in 1 .. N : TermPhases(masks, gamma, j)[k] \in Int
  <2> DEFINE c == TermPhases(masks, gamma, j)
  <2>1. \A k \in 1 .. N : c[k] \in Int
    BY TermPhasesType
  <2> HIDE DEF c, N
  <2>2. /\ IntTotal(1 .. 0, c) = 0
        /\ \A k \in 0 .. N : IntTotal(1 .. k, c) \in Int
        /\ \A k \in 1 .. N : IntTotal(1 .. k, c) = IntTotal(1 .. k - 1, c) + c[k]
    BY <1>1, <2>1, TotalClimbs
  <2> QED BY <2>1, <2>2 DEF c
<1>3. \A k : h(k) = [j \in Indices(n) |-> C(k, j)]
  BY DEF TurnsOf
<1> HIDE DEF C, h, N
<1>4. h(0) = NoPhases(n)
  BY <1>2, <1>3 DEF NoPhases
<1>5. \A k \in 0 .. N : h(k) \in Phases(n)
  BY <1>2, <1>3 DEF Phases
<1>6. ASSUME NEW k \in 1 .. N, NEW j \in Indices(n)
      PROVE  h(k)[j] = TermPhases(masks, gamma, j)[k] + h(k - 1)[j]
  <2>1. k - 1 \in 0 .. N
    BY <1>1
  <2>2. h(k)[j] = C(k, j) /\ h(k - 1)[j] = C(k - 1, j)
    BY <1>3
  <2> DEFINE x == TermPhases(masks, gamma, j)[k]
             y == C(k - 1, j)
  <2>3. C(k, j) = y + x /\ x \in Int /\ y \in Int
    BY <1>2, <2>1
  <2> HIDE DEF x, y
  <2>4. C(k, j) = x + y
    BY <2>3
  <2> QED BY <2>2, <2>4 DEF x, y
<1> QED BY <1>4, <1>5, <1>6 DEF h, N

LEMMA EmptyGadget ==
    ASSUME NEW d, NEW m, m.z = {}, NEW g
    PROVE  CostGadget(d, m, g) = d
BY DEF CostGadget

\* All the terms of a cost; one without qubits is not a gate.
LEMMA CostsTurn ==
    ASSUME Powers, NEW n \in Nat, NEW c \in CircuitsOn(n), NEW masks \in Seq(CostTerms(n)),
           NEW theta, theta[c.params + 1] \in Int, NEW f, f[0] = NewParams(c, 2),
           \A k \in 0 .. Len(masks) : f[k] \in CircuitsOn(n),
           \A k \in 1 .. Len(masks) : f[k] = CostGadget(f[k - 1], masks[k], Free(c.params))
    PROVE  Turns(c, f[Len(masks)], theta,
                 TurnsOf(masks, theta[c.params + 1], Len(masks), n), n)
<1> DEFINE N == Len(masks)
           gamma == theta[c.params + 1]
           h(k) == TurnsOf(masks, gamma, k, n)
<1>1. N \in Nat
  OBVIOUS
<1>2. c.params \in Nat /\ c.ops \in Seq(GateOp) /\ gamma \in Int
  BY CircuitFacts
<1>3. /\ h(0) = NoPhases(n) /\ \A k \in 0 .. N : h(k) \in Phases(n)
      /\ \A k \in 1 .. N : \A j \in Indices(n) :
            h(k)[j] = TermPhases(masks, gamma, j)[k] + h(k - 1)[j]
  BY <1>2, TurnsOfGrow
<1>g. gamma = theta[c.params + 1]
  OBVIOUS
<1>t. \A k \in 1 .. N : \A j :
        /\ TermPhases(masks, gamma, j)[k]
             = IF masks[k].z = {} THEN 0
               ELSE IF Odd(j, masks[k].z) THEN (2 * masks[k].coeff) * gamma
               ELSE -((2 * masks[k].coeff) * gamma)
        /\ masks[k] \in CostTerms(n) /\ masks[k].coeff \in Int
  <2> HIDE DEF gamma, h
  <2>1. gamma \in Int
    BY <1>2
  <2> QED BY <2>1, TermPhasesType
<1>f. /\ f[0] = NewParams(c, 2) /\ \A k \in 0 .. N : f[k] \in CircuitsOn(n)
      /\ \A k \in 1 .. N : f[k] = CostGadget(f[k - 1], masks[k], Free(c.params))
  OBVIOUS
<1> HIDE DEF N, gamma, h
<1> DEFINE T == {k \in 0 .. N : Turns(c, f[k], theta, h(k), n)}
<1>4. 0 \in T
  <2>1. f[0].ops = c.ops
    <3>1. c = [n |-> n, params |-> c.params, ops |-> c.ops, measured |-> c.measured]
      BY CircuitFacts
    <3> QED BY <3>1 DEF NewParams
  <2>2. Turns(c, f[0], theta, NoPhases(n), n)
    BY <1>2, <2>1, StartsUnturned
  <2> QED BY <1>1, <1>3, <2>2
<1>5. ASSUME NEW k \in 1 .. N, k - 1 \in T PROVE k \in T
  <2> DEFINE d == f[k - 1]
             m == masks[k]
             a == (2 * m.coeff) * gamma
  <2>0. k - 1 \in 0 .. N /\ k \in 0 .. N
    BY <1>1
  <2>1. d \in CircuitsOn(n) /\ f[k] = CostGadget(d, m, Free(c.params))
    BY <1>f, <2>0
  <2>2. m \in CostTerms(n) /\ m.coeff \in Int
    BY <1>t
  <2>3. Turns(c, d, theta, h(k - 1), n)
    BY <1>5
  <2>t. \A j : TermPhases(masks, gamma, j)[k]
                = IF m.z = {} THEN 0 ELSE IF Odd(j, m.z) THEN a ELSE -a
    BY <1>t
  <2> HIDE DEF m, a
  <2>4. \A j \in Indices(n) : h(k)[j] = (IF m.z = {} THEN 0 ELSE IF Odd(j, m.z) THEN a ELSE -a)
                                       + h(k - 1)[j]
    BY <1>3, <2>t
  <2> USE DEF m, a
  <2>5. h(k) \in Phases(n) /\ h(k - 1) \in Phases(n)
    BY <1>3, <2>0
  <2>6. Gives(theta, c.params, 2 * m.coeff, a)
    <3> DEFINE x == 2 * m.coeff
    <3>1. x \in Int
      BY <2>2
    <3> HIDE DEF x
    <3>2. a = x * theta[c.params + 1]
      BY <1>g DEF x
    <3> HIDE DEF a
    <3>3. Gives(theta, c.params, x, a)
      BY <1>2, <1>g, <3>1, <3>2 DEF Gives
    <3> QED BY <3>3 DEF x
  <2> HIDE DEF d, m, a
  <2>7. CASE m.z # {}
    <3>1. AddsPhase(h(k), h(k - 1), m.z, a, n)
      BY <2>4, <2>7 DEF AddsPhase
    <3>2. Turns(c, CostGadget(d, m, Free(c.params)), theta, h(k), n)
      BY <1>2, <2>1, <2>2, <2>3, <2>5, <2>6, <2>7, <3>1, GadgetTurnsOn
    <3> QED BY <2>0, <2>1, <3>2
  <2>8. CASE m.z = {}
    <3>1. f[k] = d
      BY <2>1, <2>8, EmptyGadget
    <3>2. \A j \in Indices(n) : h(k)[j] = 0 + h(k - 1)[j] /\ h(k - 1)[j] \in Int
      BY <2>4, <2>5, <2>8 DEF Phases
    <3>3. h(k) = h(k - 1)
      <4>1. \A j \in Indices(n) : h(k)[j] = h(k - 1)[j]
        BY <3>2
      <4> QED BY <2>5, <4>1 DEF Phases
    <3> QED BY <2>0, <2>3, <3>1, <3>3
  <2> QED BY <2>7, <2>8
<1>6. N \in T
  <2>1. \A k \in 0 .. N : k \in T
    <3> HIDE DEF T
    <3> QED BY <1>1, <1>4, <1>5, Climb
  <2> QED BY <1>1, <2>1
<1> QED BY <1>6 DEF N, h, gamma

States(n) == [Indices(n) -> Amplitude]

\* Circuit d is c and then gates that do F to a state.
Does(c, d, theta, n, F) ==
    \E gates \in Seq(GateOp) :
        /\ d.ops = c.ops \o gates /\ GatesFit(Bound(gates, theta), n)
        /\ \A s : IsState(s, n) => RunAll(Bound(gates, theta), s) = F[s]

LEMMA DoesBoth ==
    ASSUME Powers, NEW n \in Nat, NEW theta, NEW c, c.ops \in Seq(GateOp), NEW d, NEW e,
           NEW F, \A s : IsState(s, n) => IsState(F[s], n), NEW G,
           Does(c, d, theta, n, F), Does(d, e, theta, n, G),
           NEW H, \A s : IsState(s, n) => H[s] = G[F[s]]
    PROVE  Does(c, e, theta, n, H)
<1>1. PICK a \in Seq(GateOp) :
         /\ d.ops = c.ops \o a /\ GatesFit(Bound(a, theta), n)
         /\ \A s : IsState(s, n) => RunAll(Bound(a, theta), s) = F[s]
  BY DEF Does
<1>2. PICK b \in Seq(GateOp) :
         /\ e.ops = d.ops \o b /\ GatesFit(Bound(b, theta), n)
         /\ \A s : IsState(s, n) => RunAll(Bound(b, theta), s) = G[s]
  BY DEF Does
<1> DEFINE all == a \o b
           front == Bound(a, theta)
           back == Bound(b, theta)
<1>3. all \in Seq(GateOp) /\ e.ops = c.ops \o all
  <2>1. all \in Seq(GateOp)
    BY ConcatProperties
  <2>2. (c.ops \o a) \o b = c.ops \o (a \o b)
    BY Regroups
  <2> QED BY <1>1, <1>2, <2>1, <2>2
<1>4. Bound(all, theta) = front \o back
  BY BoundJoins
<1>5. /\ GatesFit(front, n) /\ GatesFit(back, n)
      /\ \A s : IsState(s, n) => RunAll(front, s) = F[s]
      /\ \A s : IsState(s, n) => RunAll(back, s) = G[s]
  BY <1>1, <1>2
<1> HIDE DEF all, front, back
<1>6. GatesFit(front \o back, n)
  <2>1. \E s : IsState(s, n)
    BY KetType
  <2> QED BY <1>5, <2>1, RunJoins
<1>7. ASSUME NEW s, IsState(s, n) PROVE RunAll(front \o back, s) = H[s]
  <2>1. RunAll(front \o back, s) = RunAll(back, RunAll(front, s))
    BY <1>5, <1>7, RunJoins
  <2>2. RunAll(front, s) = F[s] /\ IsState(F[s], n)
    BY <1>5, <1>7
  <2>3. RunAll(back, F[s]) = G[F[s]]
    BY <1>5, <2>2
  <2>4. H[s] = G[F[s]]
    BY <1>7
  <2> QED BY <2>1, <2>2, <2>3, <2>4, Zenon
<1>8. /\ e.ops = c.ops \o all /\ GatesFit(Bound(all, theta), n)
      /\ \A s : IsState(s, n) => RunAll(Bound(all, theta), s) = H[s]
  BY <1>3, <1>4, <1>6, <1>7
<1> QED BY <1>3, <1>8 DEF Does

\* The mixing gates.
Mixers(n, i) == [q \in 1 .. n |-> Gate("RX", <<q - 1>>, <<Scaled(2, Free(i))>>)]

LEMMA MixersBound ==
    ASSUME NEW n \in Nat, NEW i \in Nat, NEW theta, theta[i + 1] \in Int
    PROVE  /\ Mixers(n, i) \in Seq(GateOp)
           /\ Bound(Mixers(n, i), theta) = RXs(n, theta[i + 1])
<1> DEFINE w == Mixers(n, i)
           arg == Scaled(2, Free(i))
           a == 2 * theta[i + 1]
           r == Constant(a)
<1>1. w = [q \in 1 .. n |-> Gate("RX", <<q - 1>>, <<arg>>)]
  BY DEF Mixers
<1>2. RXs(n, theta[i + 1]) = [q \in 1 .. n |-> Gate("RX", <<q - 1>>, <<r>>)]
  BY DEF RXs
<1>3. arg \in Args(i + 1)
  BY FreeArgument
<1>4. Gives(theta, i, 2, a)
  BY DEF Gives
<1>5. ASSUME NEW q \in 1 .. n
      PROVE  BindGate(Gate("RX", <<q - 1>>, <<arg>>), theta) = Gate("RX", <<q - 1>>, <<r>>)
  <2> DEFINE qs == <<q - 1>>
             rx == "RX"
  <2> HIDE DEF qs, rx, a
  <2>1. BindGate(Gate(rx, qs, <<Scaled(2, Free(i))>>), theta) = Gate(rx, qs, <<Constant(a)>>)
    BY <1>4, BindsScaled
  <2> QED BY <2>1, Zenon DEF qs, rx
<1> HIDE DEF arg, r, w
<1>6. ASSUME NEW q \in 1 .. n PROVE Gate("RX", <<q - 1>>, <<arg>>) \in GateOp
  <2>1. <<arg>> \in Seq(Args(i + 1)) /\ Len(<<arg>>) = 1
    BY <1>3
  <2>2. "RX" \in OneQubit /\ Arguments("RX") = 1 /\ i + 1 \in Nat /\ q - 1 \in 0 .. n - 1
    BY DEF OneQubit, Arguments
  <2>3. Gate("RX", <<q - 1>>, <<arg>>) \in GatesOn(n, i + 1)
    BY <2>1, <2>2, MakesOne
  <2> QED BY <2>3 DEF GatesOn
<1>7. w \in Seq(GateOp) /\ DOMAIN w = 1 .. n
  <2> DEFINE m(q) == Gate("RX", <<q - 1>>, <<arg>>)
  <2>1. w = [q \in 1 .. n |-> m(q)]
    BY <1>1
  <2>2. \A q \in 1 .. n : m(q) \in GateOp
    BY <1>6
  <2> HIDE DEF m
  <2> QED BY <2>1, <2>2
<1>8. Bound(w, theta) = [q \in 1 .. n |-> BindGate(w[q], theta)]
  BY <1>7 DEF Bound
<1>9. \A q \in 1 .. n : BindGate(w[q], theta) = Gate("RX", <<q - 1>>, <<r>>)
  BY <1>1, <1>5
<1>10. Bound(w, theta) = RXs(n, theta[i + 1])
  <2> DEFINE m(q) == Gate("RX", <<q - 1>>, <<r>>)
  <2>1. RXs(n, theta[i + 1]) = [q \in 1 .. n |-> m(q)]
    BY <1>2
  <2>2. \A q \in 1 .. n : BindGate(w[q], theta) = m(q)
    BY <1>9
  <2> HIDE DEF m
  <2>3. [q \in 1 .. n |-> BindGate(w[q], theta)] = [q \in 1 .. n |-> m(q)]
    BY <2>2
  <2> QED BY <1>8, <2>1, <2>3, Zenon
<1> QED BY <1>7, <1>10 DEF w

NoSwap(gates) == \A k \in 1 .. Len(gates) : gates[k].type # "SWAP"

LEMMA RxRescaled ==
    ASSUME Powers, NEW n \in Nat, NEW gates, GatesFit(gates, n), NoSwap(gates),
           NEW z \in Amplitude, NEW s, IsState(s, n)
    PROVE  RunAll(gates, Rescaled(z, s)) = Rescaled(z, RunAll(gates, s))
<1>1. \A k \in 1 .. Len(gates) : gates[k].type # "SWAP"
  BY DEF NoSwap
<1> QED BY <1>1, RunRescaled

\* The terms of a cost: its value is what they sum to.
Costed(cost, masks, n) ==
    /\ masks \in Seq(CostTerms(n))
    /\ \A j \in Indices(n) : /\ CostValue(cost, j) \in Int
                            /\ DiagonalCost(masks, j) = CostValue(cost, j)

LEMMA CostedIsPriced ==
    ASSUME NEW n, NEW cost, NEW masks, Costed(cost, masks, n)
    PROVE  Priced(cost, n) /\ masks \in Seq(CostTerms(n))
BY DEF Costed, Priced

\* The constant of a cost, which no gate is for.
Idles(masks) == [x \in 1 .. Len(masks) |-> IF masks[x].z = {} THEN masks[x].coeff ELSE 0]
Idle(masks) == IntTotal(1 .. Len(masks), Idles(masks))

LEMMA NoneIsEven == ASSUME NEW j PROVE ~Odd(j, {})
<1>1. 0 # 1
  OBVIOUS
<1> QED BY <1>1, OddOfTwo

\* Every basis state is turned by its cost, but for the constant.
LEMMA TurnsOfCost ==
    ASSUME NEW n \in Nat, NEW cost, NEW masks, Costed(cost, masks, n), NEW gamma \in Int,
           NEW j \in Indices(n)
    PROVE  /\ Idle(masks) \in Int
           /\ TurnsOf(masks, gamma, Len(masks), n)[j]
                = 2 * gamma * Idle(masks) + CostTurns(cost, gamma, n)[j]
<1> DEFINE N == Len(masks)
           E == [x \in 1 .. Len(masks) |->
                   IF Odd(j, masks[x].z) THEN -masks[x].coeff ELSE masks[x].coeff]
           t == TermPhases(masks, gamma, j)
           i == Idles(masks)
           P(k) == IntTotal(1 .. k, t)
           I(k) == IntTotal(1 .. k, i)
           D(k) == IntTotal(1 .. k, E)
           g == 2 * gamma
<1>1. N \in Nat /\ DOMAIN masks = 1 .. N /\ masks \in Seq(CostTerms(n))
  BY CostedIsPriced
<1>2. DiagonalCost(masks, j) = D(N)
  <2>1. \A x \in 1 .. N : masks[x].coeff \in Int
    BY <1>1, TermPhasesType
  <2>2. Len(masks) \in Nat /\ DOMAIN masks = 1 .. Len(masks)
    BY <1>1
  <2> QED BY <2>1, <2>2, CostFold
<1>3. TurnsOf(masks, gamma, N, n)[j] = P(N) /\ Idle(masks) = I(N)
  BY DEF TurnsOf, Idle
<1>4. CostTurns(cost, gamma, n)[j] = -2 * gamma * CostValue(cost, j)
  BY DEF CostTurns
<1>5. DiagonalCost(masks, j) = CostValue(cost, j)
  BY DEF Costed
<1>g. g \in Int
  OBVIOUS
<1>6. ASSUME NEW x \in 1 .. N
      PROVE  t[x] \in Int /\ i[x] \in Int /\ E[x] \in Int /\ t[x] = g * i[x] - g * E[x]
  <2> DEFINE c == masks[x].coeff
             z == masks[x].z
             o == Odd(j, z)
  <2>1. t[x] = (IF z = {} THEN 0 ELSE IF o THEN (2 * c) * gamma ELSE -((2 * c) * gamma))
    BY <1>1, TermPhasesType
  <2>2. c \in Int
    BY <1>1, TermPhasesType
  <2>3. i[x] = IF z = {} THEN c ELSE 0
    BY DEF Idles
  <2>4. E[x] = IF o THEN -c ELSE c
    OBVIOUS
  <2>5. z = {} => ~o
    <3>1. ~Odd(j, {})
      BY NoneIsEven
    <3> QED BY <3>1
  <2>6. o \in BOOLEAN
    BY DEF Odd
  <2> HIDE DEF c, z, o, t, i, E, g
  <2>7. (2 * c) * gamma = g * c /\ g * c \in Int /\ g * (-c) = -(g * c) /\ g * 0 = 0
    BY <1>g, <2>2 DEF g
  <2> DEFINE y == g * c
             nc == -c
             ny == g * nc
  <2>8. y \in Int /\ nc \in Int /\ ny = -y /\ g * 0 = 0
    BY <2>2, <2>7
  <2>9. t[x] = (IF z = {} THEN 0 ELSE IF o THEN y ELSE -y) /\ E[x] = IF o THEN nc ELSE c
    BY <2>1, <2>4, <2>7
  <2>10. CASE z = {}
    <3>1. i[x] = c /\ E[x] = c /\ t[x] = 0
      BY <2>3, <2>5, <2>9, <2>10
    <3>2. g * i[x] = y /\ g * E[x] = y
      BY <3>1
    <3> HIDE DEF y, nc, ny
    <3> QED BY <2>2, <2>8, <3>1, <3>2
  <2>11. CASE z # {} /\ o
    <3>1. i[x] = 0 /\ E[x] = nc /\ t[x] = y
      BY <2>3, <2>9, <2>11
    <3>2. g * i[x] = 0 /\ g * E[x] = ny
      BY <2>8, <3>1
    <3> HIDE DEF y, nc, ny
    <3> QED BY <2>2, <2>8, <3>1, <3>2
  <2>12. CASE z # {} /\ ~o
    <3>1. i[x] = 0 /\ E[x] = c /\ t[x] = -y
      BY <2>3, <2>9, <2>12
    <3>2. g * i[x] = 0 /\ g * E[x] = y
      BY <2>8, <3>1
    <3> HIDE DEF y, nc, ny
    <3> QED BY <2>2, <2>8, <3>1, <3>2
  <2> QED BY <2>6, <2>10, <2>11, <2>12
<1> HIDE DEF t, i, E, g, N
<1>7. /\ P(0) = 0 /\ \A k \in 0 .. N : P(k) \in Int
      /\ \A k \in 1 .. N : P(k) = P(k - 1) + t[k]
  BY <1>1, <1>6, TotalClimbs
<1>8. /\ I(0) = 0 /\ \A k \in 0 .. N : I(k) \in Int
      /\ \A k \in 1 .. N : I(k) = I(k - 1) + i[k]
  BY <1>1, <1>6, TotalClimbs
<1>9. /\ D(0) = 0 /\ \A k \in 0 .. N : D(k) \in Int
      /\ \A k \in 1 .. N : D(k) = D(k - 1) + E[k]
  BY <1>1, <1>6, TotalClimbs
<1> HIDE DEF P, I, D
<1> DEFINE T == {k \in 0 .. N : P(k) = g * I(k) - g * D(k)}
<1>10. 0 \in T
  BY <1>1, <1>7, <1>8, <1>9, <1>g
<1>11. ASSUME NEW a \in Int, NEW b \in Int, NEW c \in Int, NEW d \in Int, NEW h \in Int
       PROVE  (h * a - h * b) + (h * c - h * d) = h * (a + c) - h * (b + d)
  OBVIOUS
<1>12. ASSUME NEW k \in 1 .. N, k - 1 \in T PROVE k \in T
  <2> DEFINE a == I(k - 1)
             b == D(k - 1)
             c == i[k]
             d == E[k]
  <2>1. k - 1 \in 0 .. N /\ k \in 0 .. N
    BY <1>1
  <2>2. a \in Int /\ b \in Int /\ c \in Int /\ d \in Int
    BY <1>6, <1>8, <1>9, <2>1
  <2>3. P(k) = (g * a - g * b) + (g * c - g * d)
    <3>1. P(k - 1) = g * a - g * b
      BY <1>12
    <3>2. t[k] = g * c - g * d
      BY <1>6
    <3>3. P(k) = P(k - 1) + t[k]
      BY <1>7
    <3> QED BY <3>1, <3>2, <3>3, Zenon
  <2>4. I(k) = a + c /\ D(k) = b + d
    BY <1>8, <1>9
  <2> HIDE DEF a, b, c, d
  <2>5. (g * a - g * b) + (g * c - g * d) = g * (a + c) - g * (b + d)
    BY <1>11, <1>g, <2>2
  <2>6. P(k) = g * I(k) - g * D(k)
    BY <2>3, <2>4, <2>5, Zenon
  <2> QED BY <2>1, <2>6
<1>13. P(N) = g * I(N) - g * D(N) /\ I(N) \in Int /\ D(N) \in Int
  <2>1. \A k \in 0 .. N : k \in T
    <3> HIDE DEF T
    <3> QED BY <1>1, <1>10, <1>12, Climb
  <2>2. N \in 0 .. N
    BY <1>1
  <2> QED BY <1>8, <1>9, <2>1, <2>2
<1> DEFINE a == I(N)
           b == D(N)
<1> HIDE DEF a, b
<1>14. a \in Int /\ b \in Int /\ P(N) = g * a - g * b
  BY <1>13 DEF a, b
<1>15. g * a - g * b = 2 * gamma * a + (-2 * gamma * b)
  BY <1>14 DEF g
<1> QED BY <1>2, <1>3, <1>4, <1>5, <1>14, <1>15 DEF a, b, N

\* What a layer does is what is documented, up to a phase of the whole state.
LayerAs(n, cost, gamma, beta, x) ==
    [s \in States(n) |-> Rescaled(Phase(x), DocumentedLayer(n, cost, gamma, beta, s))]

LEMMA WholeTurn ==
    ASSUME NEW n \in Nat, NEW cost, NEW masks, Costed(cost, masks, n), NEW gamma \in Int,
           NEW x, x = 2 * gamma * Idle(masks), NEW s, IsState(s, n)
    PROVE  /\ x \in Int
           /\ TurnsOf(masks, gamma, Len(masks), n) \in Phases(n)
           /\ Phased(TurnsOf(masks, gamma, Len(masks), n), s)
                = Rescaled(Phase(x), Phased(CostTurns(cost, gamma, n), s))
<1> DEFINE N == Len(masks)
           h == TurnsOf(masks, gamma, N, n)
           k == CostTurns(cost, gamma, n)
<1>1. N \in Nat /\ N \in 0 .. N /\ masks \in Seq(CostTerms(n)) /\ Priced(cost, n)
  BY CostedIsPriced
<1>3. h \in Phases(n) /\ k \in Phases(n)
  BY <1>1, TurnsOfGrow, CostTurnsType
<1>4. x \in Int
  <2> DEFINE W == Idle(masks)
  <2>1. W \in Int
    <3>1. \A y \in 1 .. N : Idles(masks)[y] \in Int
      <4>1. \A y \in 1 .. N : masks[y].coeff \in Int
        BY <1>1, TermPhasesType
      <4> QED BY <4>1 DEF Idles
    <3> DEFINE c == Idles(masks)
    <3> HIDE DEF c, N
    <3>2. IntTotal(1 .. N, c) \in Int
      BY <1>1, <3>1, TotalClimbs DEF c
    <3> QED BY <3>2 DEF Idle, c, N
  <2> HIDE DEF W
  <2>2. 2 * gamma * W \in Int
    BY <2>1
  <2> QED BY <2>2 DEF W
<1>5. ASSUME NEW j \in Indices(n) PROVE h[j] = x + k[j]
  <2> HIDE DEF k
  <2>1. TurnsOf(masks, gamma, Len(masks), n)[j] = 2 * gamma * Idle(masks) + k[j]
    BY TurnsOfCost DEF k
  <2> QED BY <2>1
<1> HIDE DEF h, k
<1> DEFINE t == Phased(k, s)
           u == Phased(h, s)
           v == Rescaled(Phase(x), t)
<1>6. /\ IsState(t, n) /\ \A j \in Indices(n) : t[j] = Times(Phase(k[j]), s[j])
  BY <1>3, PhasedType
<1>7. /\ IsState(u, n) /\ \A j \in Indices(n) : u[j] = Times(Phase(h[j]), s[j])
  BY <1>3, PhasedType
<1> HIDE DEF t, u
<1>8. Phase(x) \in Amplitude
  BY <1>4, ConstantsType
<1>9. IsState(v, n) /\ \A j \in Indices(n) : v[j] = Times(Phase(x), t[j])
  <2> DEFINE z == Phase(x)
  <2> HIDE DEF z
  <2>1. z \in Amplitude
    BY <1>8 DEF z
  <2>2. IsState(Rescaled(z, t), n) /\ \A j \in Indices(n) : Rescaled(z, t)[j] = Times(z, t[j])
    BY <1>6, <2>1, RescaledType
  <2> QED BY <2>2 DEF z
<1> HIDE DEF v
<1>10. ASSUME NEW j \in Indices(n) PROVE u[j] = v[j]
  <2> DEFINE p == Phase(x)
             q == Phase(k[j])
             y == s[j]
  <2>1. k[j] \in Int /\ y \in Amplitude
    BY <1>3 DEF Phases, IsState
  <2>2. p \in Amplitude /\ q \in Amplitude
    BY <1>4, <2>1, ConstantsType
  <2>3. Times(p, q) = Phase(h[j])
    <3>1. Times(p, q) = Phase(x + k[j])
      BY <1>4, <2>1, TurnsAdd
    <3> QED BY <1>5, <3>1
  <2>4. u[j] = Times(Phase(h[j]), y) /\ v[j] = Times(p, Times(q, y))
    BY <1>6, <1>7, <1>9
  <2> HIDE DEF p, q, y
  <2>5. Times(p, Times(q, y)) = Times(Times(p, q), y)
    BY <2>1, <2>2, Associative
  <2> QED BY <2>3, <2>4, <2>5
<1>11. u = v
  BY <1>7, <1>9, <1>10 DEF IsState
<1> QED BY <1>3, <1>4, <1>11 DEF h, k, t, u, v

LEMMA RescaledTwice ==
    ASSUME NEW n \in Nat, NEW x \in Int, NEW y \in Int, NEW s, IsState(s, n)
    PROVE  Rescaled(Phase(x), Rescaled(Phase(y), s)) = Rescaled(Phase(x + y), s)
<1> DEFINE p == Phase(x)
           q == Phase(y)
           r == Phase(x + y)
<1>1. p \in Amplitude /\ q \in Amplitude /\ r \in Amplitude
  BY ConstantsType
<1>2. Times(p, q) = r
  BY TurnsAdd
<1> HIDE DEF p, q, r
<1> DEFINE t == Rescaled(q, s)
           u == Rescaled(p, t)
           v == Rescaled(r, s)
<1>3. IsState(t, n) /\ \A j \in Indices(n) : t[j] = Times(q, s[j])
  BY <1>1, RescaledType
<1> HIDE DEF t
<1>4. /\ IsState(u, n) /\ \A j \in Indices(n) : u[j] = Times(p, t[j])
  BY <1>1, <1>3, RescaledType
<1>5. /\ IsState(v, n) /\ \A j \in Indices(n) : v[j] = Times(r, s[j])
  BY <1>1, RescaledType
<1> HIDE DEF u, v
<1>6. ASSUME NEW j \in Indices(n) PROVE u[j] = v[j]
  <2> DEFINE y1 == s[j]
  <2>1. y1 \in Amplitude
    BY DEF IsState
  <2>2. u[j] = Times(p, Times(q, y1)) /\ v[j] = Times(r, y1)
    BY <1>3, <1>4, <1>5
  <2> HIDE DEF y1
  <2>3. Times(p, Times(q, y1)) = Times(Times(p, q), y1)
    BY <1>1, <2>1, Associative
  <2> QED BY <1>2, <2>2, <2>3
<1>7. u = v
  BY <1>4, <1>5, <1>6 DEF IsState
<1> QED BY <1>7 DEF p, q, r, t, u, v

LEMMA PhasedRescaled ==
    ASSUME NEW n \in Nat, NEW h \in Phases(n), NEW z \in Amplitude, NEW s, IsState(s, n)
    PROVE  Phased(h, Rescaled(z, s)) = Rescaled(z, Phased(h, s))
<1> DEFINE t == Rescaled(z, s)
           u == Phased(h, s)
           a == Phased(h, t)
           b == Rescaled(z, u)
<1>1. IsState(t, n) /\ \A j \in Indices(n) : t[j] = Times(z, s[j])
  BY RescaledType
<1>2. IsState(u, n) /\ \A j \in Indices(n) : u[j] = Times(Phase(h[j]), s[j])
  BY PhasedType
<1> HIDE DEF t, u
<1>3. IsState(a, n) /\ \A j \in Indices(n) : a[j] = Times(Phase(h[j]), t[j])
  BY <1>1, PhasedType
<1>4. IsState(b, n) /\ \A j \in Indices(n) : b[j] = Times(z, u[j])
  BY <1>2, RescaledType
<1> HIDE DEF a, b
<1>5. ASSUME NEW j \in Indices(n) PROVE a[j] = b[j]
  <2> DEFINE p == Phase(h[j])
             y == s[j]
  <2>1. p \in Amplitude /\ y \in Amplitude
    <3>1. h[j] \in Int
      BY DEF Phases
    <3> QED BY <3>1, ConstantsType DEF IsState
  <2>2. a[j] = Times(p, Times(z, y)) /\ b[j] = Times(z, Times(p, y))
    BY <1>1, <1>2, <1>3, <1>4
  <2> HIDE DEF p, y
  <2>3. Times(p, Times(z, y)) = Times(Times(p, z), y)
    BY <2>1, Associative
  <2>4. Times(z, Times(p, y)) = Times(Times(z, p), y)
    BY <2>1, Associative
  <2>5. Times(p, z) = Times(z, p)
    BY <2>1, Associative
  <2> QED BY <2>2, <2>3, <2>4, <2>5
<1>6. a = b
  BY <1>3, <1>4, <1>5 DEF IsState
<1> QED BY <1>6 DEF a, b, t, u

LEMMA LayerRescaled ==
    ASSUME Powers, NEW n \in Nat, NEW cost, Priced(cost, n), NEW gamma \in Int,
           NEW beta \in Int, NEW z \in Amplitude, NEW s, IsState(s, n)
    PROVE  DocumentedLayer(n, cost, gamma, beta, Rescaled(z, s))
             = Rescaled(z, DocumentedLayer(n, cost, gamma, beta, s))
<1> DEFINE w == RXs(n, beta)
           k == CostTurns(cost, gamma, n)
           t == Rescaled(z, s)
           u == Phased(k, s)
<1>1. IsState(t, n)
  BY RescaledType
<1>2. /\ GatesFit(w, n) /\ Len(w) = n /\ \A i \in 1 .. n : w[i].type = "RX"
  BY RxFit
<1>3. k \in Phases(n)
  BY CostTurnsType
<1>4. IsState(u, n)
  BY <1>3, PhasedType
<1>5. DocumentedLayer(n, cost, gamma, beta, t) = RunAll(w, Phased(k, t))
  BY <1>1, LayerIsRun
<1>6. DocumentedLayer(n, cost, gamma, beta, s) = RunAll(w, u)
  BY LayerIsRun
<1>7. Phased(k, t) = Rescaled(z, u)
  BY <1>3, PhasedRescaled
<1> HIDE DEF w, u, k, t
<1>8. \A i \in 1 .. Len(w) : w[i].type # "SWAP"
  BY <1>2
<1>9. RunAll(w, Rescaled(z, u)) = Rescaled(z, RunAll(w, u))
  <2>1. GatesFit(w, n) /\ IsState(u, n)
    BY <1>2, <1>4
  <2>2. NoSwap(w)
    BY <1>8 DEF NoSwap
  <2> QED BY <2>1, <2>2, RxRescaled
<1>10. DocumentedLayer(n, cost, gamma, beta, t)
         = Rescaled(z, DocumentedLayer(n, cost, gamma, beta, s))
  BY <1>5, <1>6, <1>7, <1>9, Zenon
<1> QED BY <1>10 DEF t

\* A layer of the library does what is documented.
LEMMA LayerDoes ==
    ASSUME Powers, NEW n \in Nat, NEW c \in CircuitsOn(n), NEW cost, NEW masks,
           Costed(cost, masks, n), NEW theta,
           NEW gamma \in Int, gamma = theta[c.params + 1],
           NEW beta \in Int, beta = theta[c.params + 2],
           NEW x, x = 2 * gamma * Idle(masks)
    PROVE  /\ masks \in Seq(CostTerms(n)) /\ QaoaLayer(c, masks) \in CircuitsOn(n)
           /\ QaoaLayer(c, masks).params = c.params + 2 /\ x \in Int
           /\ Does(c, QaoaLayer(c, masks), theta, n, LayerAs(n, cost, gamma, beta, x))
<1> DEFINE d == QaoaLayer(c, masks)
           i == c.params + 1
<1>1. masks \in Seq(CostTerms(n)) /\ Priced(cost, n)
  BY CostedIsPriced
<1>2. c.params \in Nat /\ i \in Nat /\ c.ops \in Seq(GateOp) /\ i + 1 = c.params + 2
  BY CircuitFacts
<1>3. PICK f : /\ f[0] = NewParams(c, 2)
               /\ d = AddGates(f[Len(masks)],
                     [q \in 1 .. n |-> Gate("RX", <<q - 1>>, <<Scaled(2, Free(c.params + 1))>>)])
               /\ \A k \in 0 .. Len(masks) :
                     f[k] \in CircuitsOn(n) /\ f[k].params = c.params + 2
               /\ \A k \in 1 .. Len(masks) :
                     f[k] = CostGadget(f[k - 1], masks[k], Free(c.params))
  BY <1>1, CostSteps
<1> DEFINE e == f[Len(masks)]
           h == TurnsOf(masks, gamma, Len(masks), n)
           w == RXs(n, beta)
           mix == Mixers(n, i)
<1>4. e \in CircuitsOn(n) /\ e.params = c.params + 2
  <2>1. Len(masks) \in 0 .. Len(masks)
    BY <1>1
  <2> QED BY <1>3, <2>1
<1>5. Turns(c, e, theta, h, n)
  BY <1>1, <1>3, CostsTurn
<1>6. d = AddGates(e, mix)
  BY <1>3 DEF Mixers
<1> HIDE DEF e, h, w, mix, d, i
<1>7. mix \in Seq(GateOp) /\ Bound(mix, theta) = w
  <2>1. theta[i + 1] \in Int /\ theta[i + 1] = beta
    BY <1>2
  <2> QED BY <1>2, <2>1, MixersBound DEF mix, w
<1>8. d.ops = e.ops \o mix /\ d.params = c.params + 2
  <2>1. e = [n |-> n, params |-> e.params, ops |-> e.ops, measured |-> e.measured]
    BY <1>4, CircuitFacts
  <2> QED BY <1>4, <1>6, <2>1 DEF AddGates
<1>9. GatesFit(w, n)
  BY RxFit DEF w
<1> DEFINE F == [s \in States(n) |-> Phased(h, s)]
           G == [s \in States(n) |-> RunAll(w, s)]
           H == LayerAs(n, cost, gamma, beta, x)
<1>10. \A s : IsState(s, n) => s \in States(n)
  BY DEF IsState, States
<1>11. Does(c, e, theta, n, F)
  <2>1. \A s : IsState(s, n) => F[s] = Phased(h, s)
    BY <1>10
  <2> HIDE DEF F
  <2> QED BY <1>5, <2>1 DEF Does, Turns
<1>12. Does(e, d, theta, n, G)
  <2>1. \A s : IsState(s, n) => G[s] = RunAll(w, s)
    BY <1>10
  <2> HIDE DEF G
  <2> QED BY <1>7, <1>8, <1>9, <2>1 DEF Does
<1>13. ASSUME NEW s, IsState(s, n)
       PROVE  /\ F[s] = Phased(h, s) /\ IsState(F[s], n) /\ x \in Int
              /\ G[F[s]] = RunAll(w, F[s])
              /\ H[s] = Rescaled(Phase(x), DocumentedLayer(n, cost, gamma, beta, s))
              /\ Phased(h, s) = Rescaled(Phase(x), Phased(CostTurns(cost, gamma, n), s))
  <2>1. F[s] = Phased(h, s)
    BY <1>10, <1>13
  <2>2. /\ h \in Phases(n) /\ x \in Int
        /\ Phased(h, s) = Rescaled(Phase(x), Phased(CostTurns(cost, gamma, n), s))
    BY <1>13, WholeTurn DEF h
  <2>3. IsState(Phased(h, s), n)
    BY <1>13, <2>2, PhasedType
  <2>4. H[s] = Rescaled(Phase(x), DocumentedLayer(n, cost, gamma, beta, s))
    BY <1>10, <1>13 DEF LayerAs
  <2> HIDE DEF F
  <2>5. F[s] \in States(n)
    BY <1>10, <2>1, <2>3
  <2>6. G[F[s]] = RunAll(w, F[s])
    BY <2>5
  <2> QED BY <2>1, <2>2, <2>3, <2>4, <2>6
<1> HIDE DEF F, G, H
<1>14. ASSUME NEW s, IsState(s, n) PROVE H[s] = G[F[s]]
  <2> DEFINE u == Phased(CostTurns(cost, gamma, n), s)
             z == Phase(x)
  <2>1. IsState(u, n)
    BY <1>1, <1>14, CostTurnsType, PhasedType
  <2>2. DocumentedLayer(n, cost, gamma, beta, s) = RunAll(w, u)
    BY <1>1, <1>14, LayerIsRun DEF w
  <2>3. z \in Amplitude
    BY <1>13, <1>14, ConstantsType
  <2>4. G[F[s]] = RunAll(w, Rescaled(z, u)) /\ H[s] = Rescaled(z, RunAll(w, u))
    BY <1>13, <1>14, <2>2
  <2> HIDE DEF u, z
  <2>5. \A k \in 1 .. Len(w) : w[k].type # "SWAP"
    <3>1. Len(w) = n /\ \A k \in 1 .. n : w[k].type = "RX"
      BY RxFit DEF w
    <3> QED BY <3>1
  <2>7. NoSwap(w)
    BY <2>5 DEF NoSwap
  <2>6. RunAll(w, Rescaled(z, u)) = Rescaled(z, RunAll(w, u))
    BY <1>9, <2>1, <2>3, <2>7, RxRescaled
  <2> QED BY <2>4, <2>6
<1>15. Does(c, d, theta, n, H)
  <2>1. \A s : IsState(s, n) => IsState(F[s], n)
    BY <1>13
  <2> QED BY <1>2, <1>11, <1>12, <1>14, <2>1, DoesBoth
<1>16. d \in CircuitsOn(n)
  BY <1>1, QaoaLayerType DEF d
<1>17. x \in Int
  <2>1. \E s : IsState(s, n)
    BY KetType
  <2> QED BY <1>13, <2>1
<1> QED BY <1>1, <1>8, <1>15, <1>16, <1>17 DEF d, H

LEMMA WholeTurns ==
    ASSUME NEW x \in Int
    PROVE  x % 16 \in 0 .. 15 /\ Phase(x) = Phase(x % 16)
<1>1. \A y, z \in Int : y % 16 = z % 16 => Cos(y) = Cos(z) /\ Sin(y) = Sin(z)
  <2>1. \A y, z \in Int : y % 16 = z % 16 => (y - 4) % 16 = (z - 4) % 16
    OBVIOUS
  <2> QED BY <2>1 DEF Cos, Sin
<1>2. x % 16 \in 0 .. 15 /\ x % 16 \in Int /\ (x % 16) % 16 = x % 16
  OBVIOUS
<1> QED BY <1>1, <1>2 DEF Phase

\* What l layers do to a state, up to a phase of the whole of it.
LayersAs(n, cost, l, at, theta, x) ==
    [s \in States(n) |-> Rescaled(Phase(x), DocumentedLayers(n, cost, l, at, theta, s))]

DoesAsDocumented(c, d, n, cost, l, theta) ==
    \E x \in Int : Does(c, d, theta, n, LayersAs(n, cost, l, c.params, theta, x))

LEMMA NoLayerDoes ==
    ASSUME Powers, NEW n \in Nat, NEW c \in CircuitsOn(n), NEW cost, Priced(cost, n),
           NEW theta, AnglesTo(theta, c.params)
    PROVE  DoesAsDocumented(c, c, n, cost, 0, theta)
<1> DEFINE x == 0
           at == c.params
           F == LayersAs(n, cost, 0, at, theta, x)
<1>1. at \in Nat /\ c.ops \in Seq(GateOp) /\ 0 \in Nat /\ at + 2 * 0 = at
  BY CircuitFacts
<1>2. Turns(c, c, theta, NoPhases(n), n)
  BY <1>1, StartsUnturned
<1>3. AnglesTo(theta, at) /\ at = at + 2 * 0
  BY <1>1
<1>4. ASSUME NEW s, IsState(s, n) PROVE F[s] = Phased(NoPhases(n), s)
  <2>1. DocumentedLayers(n, cost, 0, at, theta, s) = s
    <3>1. GrowsTo(n, cost, 0, at, theta, s)
      BY <1>1, <1>3, <1>4, DocumentedGrows
    <3> QED BY <3>1 DEF GrowsTo
  <2>2. s \in States(n)
    BY <1>4 DEF IsState, States
  <2>3. F[s] = Rescaled(Phase(x), s)
    BY <2>1, <2>2 DEF LayersAs
  <2>4. DOMAIN s = Indices(n)
    BY <1>4 DEF IsState
  <2>5. \A j \in Indices(n) : NoPhases(n)[j] = x
    BY DEF NoPhases
  <2>6. Rescaled(Phase(x), s) = Phased(NoPhases(n), s)
    BY <2>4, <2>5, Zenon DEF Rescaled, Phased
  <2> QED BY <2>3, <2>6
<1> HIDE DEF F
<1>5. Does(c, c, theta, n, F)
  BY <1>2, <1>4 DEF Turns, Does
<1>6. x \in Int
  OBVIOUS
<1> HIDE DEF x
<1> QED BY <1>5, <1>6 DEF F, DoesAsDocumented

LEMMA OneLayerMore ==
    ASSUME Powers, NEW n \in Nat, NEW c \in CircuitsOn(n), NEW cost, NEW masks,
           Costed(cost, masks, n), NEW theta,
           NEW p \in Nat, NEW top, top = c.params + 2 * p, AnglesTo(theta, top),
           NEW l \in 1 .. p,
           NEW d \in CircuitsOn(n), d.params = c.params + 2 * (l - 1),
           DoesAsDocumented(c, d, n, cost, l - 1, theta)
    PROVE  /\ QaoaLayer(d, masks).params = c.params + 2 * l
           /\ DoesAsDocumented(c, QaoaLayer(d, masks), n, cost, l, theta)
<1> DEFINE at == c.params
           e == QaoaLayer(d, masks)
           gamma == theta[at + 2 * l - 1]
           beta == theta[at + 2 * l]
           y == 2 * gamma * Idle(masks)
           Doc(k, s) == DocumentedLayers(n, cost, k, at, theta, s)
           G == LayerAs(n, cost, gamma, beta, y)
<1>1. at \in Nat /\ c.ops \in Seq(GateOp) /\ l - 1 \in 0 .. p /\ l \in 0 .. p
  BY CircuitFacts
<1>c. Priced(cost, n)
  BY CostedIsPriced
<1>2. /\ d.params + 1 = at + 2 * l - 1 /\ d.params + 2 = at + 2 * l
      /\ at + 2 * l - 1 \in 1 .. at + 2 * p /\ at + 2 * l \in 1 .. at + 2 * p
  <2> DEFINE m == d.params
  <2>1. m = at + 2 * (l - 1) /\ at \in Nat /\ l \in 1 .. p /\ p \in Nat
    BY <1>1
  <2> HIDE DEF m, at
  <2>2. m + 1 = at + 2 * l - 1 /\ m + 2 = at + 2 * l
    BY <2>1
  <2>3. at + 2 * l - 1 \in 1 .. at + 2 * p /\ at + 2 * l \in 1 .. at + 2 * p
    BY <2>1
  <2> QED BY <2>2, <2>3 DEF m
<1>3. /\ gamma \in Int /\ gamma = theta[d.params + 1]
      /\ beta \in Int /\ beta = theta[d.params + 2]
  BY <1>2 DEF AnglesTo
<1> HIDE DEF gamma, beta
<1>4. y \in Int /\ e.params = d.params + 2 /\ Does(d, e, theta, n, G)
  <2> HIDE DEF y, G, e
  <2> DEFINE z == 2 * gamma * Idle(masks)
  <2>1. y = z
    BY DEF y
  <2> QED BY <1>3, <2>1, LayerDoes DEF e, G
<1> HIDE DEF y
<1>5. PICK x \in Int : Does(c, d, theta, n, LayersAs(n, cost, l - 1, at, theta, x))
  BY DEF DoesAsDocumented
<1> DEFINE F == LayersAs(n, cost, l - 1, at, theta, x)
           v == y + x
           H == LayersAs(n, cost, l, at, theta, v)
<1>6. v \in Int /\ Phase(x) \in Amplitude /\ Phase(y) \in Amplitude
  BY <1>4, ConstantsType
<1>7. ASSUME NEW s, IsState(s, n) PROVE IsState(F[s], n) /\ H[s] = G[F[s]]
  <2> DEFINE a == Doc(l - 1, s)
             b == Doc(l, s)
             r == Rescaled(Phase(x), a)
  <2>1. IsState(a, n) /\ IsState(b, n) /\ b = DocumentedLayer(n, cost, gamma, beta, a)
    <3>1. GrowsTo(n, cost, p, at, theta, s)
      BY <1>1, <1>c, <1>7, DocumentedGrows
    <3>2. /\ IsState(Doc(l - 1, s), n) /\ IsState(Doc(l, s), n)
          /\ Doc(l, s) = DocumentedLayer(n, cost, theta[at + 2 * l - 1], theta[at + 2 * l],
                                         Doc(l - 1, s))
      BY <1>1, <3>1 DEF GrowsTo
    <3> QED BY <3>2 DEF gamma, beta
  <2>2. s \in States(n)
    BY <1>7 DEF IsState, States
  <2>3. F[s] = r /\ H[s] = Rescaled(Phase(v), b)
    BY <2>2 DEF LayersAs
  <2> HIDE DEF a, b, F, H
  <2>4. IsState(r, n)
    <3> DEFINE z == Phase(x)
    <3>1. z \in Amplitude
      BY <1>6
    <3> HIDE DEF z
    <3>2. IsState(Rescaled(z, a), n)
      BY <2>1, <3>1, RescaledType
    <3> QED BY <3>2 DEF z
  <2>5. r \in States(n)
    BY <2>4 DEF IsState, States
  <2>6. G[r] = Rescaled(Phase(y), DocumentedLayer(n, cost, gamma, beta, r))
    BY <2>5 DEF LayerAs
  <2>7. DocumentedLayer(n, cost, gamma, beta, r) = Rescaled(Phase(x), b)
    <3> DEFINE z == Phase(x)
    <3>1. z \in Amplitude
      BY <1>6
    <3> HIDE DEF z
    <3>2. DocumentedLayer(n, cost, gamma, beta, Rescaled(z, a))
            = Rescaled(z, DocumentedLayer(n, cost, gamma, beta, a))
      BY <1>3, <1>c, <2>1, <3>1, LayerRescaled
    <3> QED BY <2>1, <3>2 DEF z
  <2>8. Rescaled(Phase(y), Rescaled(Phase(x), b)) = Rescaled(Phase(v), b)
    BY <1>4, <2>1, RescaledTwice
  <2> QED BY <2>3, <2>4, <2>6, <2>7, <2>8
<1>8. Does(c, d, theta, n, F)
  BY <1>5
<1> HIDE DEF F, G, H, e
<1>9. Does(c, e, theta, n, H)
  <2>1. \A s : IsState(s, n) => IsState(F[s], n)
    BY <1>7
  <2>2. \A s : IsState(s, n) => H[s] = G[F[s]]
    BY <1>7
  <2>3. c.ops \in Seq(GateOp) /\ Does(d, e, theta, n, G)
    BY <1>1, <1>4
  <2> QED BY <1>8, <2>1, <2>2, <2>3, DoesBoth
<1>10. e.params = c.params + 2 * l
  BY <1>1, <1>4
<1> HIDE DEF v
<1> QED BY <1>6, <1>9, <1>10 DEF e, H, DoesAsDocumented

LEMMA LayersDo ==
    ASSUME Powers, NEW n \in Nat, NEW c \in CircuitsOn(n), NEW cost, NEW masks,
           Costed(cost, masks, n), NEW theta,
           NEW p \in Nat, NEW top, top = c.params + 2 * p, AnglesTo(theta, top)
    PROVE  /\ QaoaLayers(c, masks, p) \in CircuitsOn(n)
           /\ QaoaLayers(c, masks, p).params = c.params + 2 * p
           /\ DoesAsDocumented(c, QaoaLayers(c, masks, p), n, cost, p, theta)
<1> DEFINE D(l) == QaoaLayers(c, masks, l)
           T == {l \in 0 .. p : /\ D(l).params = c.params + 2 * l
                                /\ DoesAsDocumented(c, D(l), n, cost, l, theta)}
<1>1. c.params \in Nat
  BY CircuitFacts
<1>2. masks \in Seq(CostTerms(n)) /\ Priced(cost, n)
  BY CostedIsPriced
<1>3. /\ D(0) = c /\ \A l \in 0 .. p : D(l) \in CircuitsOn(n)
      /\ \A l \in 1 .. p : D(l) = QaoaLayer(D(l - 1), masks)
  BY <1>2, QaoaGrows
<1> HIDE DEF D
<1>4. 0 \in T
  <2>1. AnglesTo(theta, c.params)
    BY <1>1 DEF AnglesTo
  <2>2. DoesAsDocumented(c, c, n, cost, 0, theta)
    BY <1>2, <2>1, NoLayerDoes
  <2>3. c.params = c.params + 2 * 0 /\ 0 \in 0 .. p
    BY <1>1
  <2> QED BY <1>3, <2>2, <2>3
<1>5. ASSUME NEW l \in 1 .. p, l - 1 \in T PROVE l \in T
  <2> DEFINE d == D(l - 1)
  <2>1. l - 1 \in 0 .. p /\ l \in 0 .. p
    OBVIOUS
  <2>2. /\ d \in CircuitsOn(n) /\ d.params = c.params + 2 * (l - 1)
        /\ DoesAsDocumented(c, d, n, cost, l - 1, theta)
    BY <1>3, <1>5, <2>1
  <2>3. D(l) = QaoaLayer(d, masks)
    BY <1>3
  <2> HIDE DEF d
  <2>4. /\ QaoaLayer(d, masks).params = c.params + 2 * l
        /\ DoesAsDocumented(c, QaoaLayer(d, masks), n, cost, l, theta)
    BY <2>2, OneLayerMore
  <2> QED BY <2>1, <2>3, <2>4
<1>6. \A l \in 0 .. p : l \in T
  <2> HIDE DEF T
  <2> QED BY <1>4, <1>5, Climb
<1>7. p \in 0 .. p
  OBVIOUS
<1> QED BY <1>3, <1>6, <1>7 DEF D

LEMMA NotEmptyComputed ==
    ASSUME NEW n \in Nat, NEW s, DOMAIN s = Indices(n), Indices(n) # {}
    PROVE  Computed(s) = s
<1>1. s # <<>>
  <2>1. DOMAIN <<>> = {}
    OBVIOUS
  <2> QED BY <2>1
<1> QED BY <1>1, ComputedIs

StartedAs(n, cost, p, at, theta, x, start) ==
    [s \in States(n) |-> Rescaled(Phase(x),
        DocumentedLayers(n, cost, p, at, theta, RunAll(start, s)))]

StartsAndDoes(from, c, n, cost, p, start) ==
    \A theta \in Thetas : Len(theta) >= c.params =>
        \E x \in Int : Does(from, c, theta, n,
                            StartedAs(n, cost, p, from.params, theta, x, start))

LEMMA MeantIs ==
    ASSUME Powers, NEW n \in Nat, NEW from \in CircuitsOn(n), NEW c \in CircuitsOn(n),
           NEW cost, Priced(cost, n), NEW p \in Nat, c.params = from.params + 2 * p,
           NEW start, GatesFit(start, n), StartsAndDoes(from, c, n, cost, p, start)
    PROVE  QaoaAsDocumented(from, c, cost, p, start)
<1> DEFINE at == from.params
           Gs(theta) == Bind([c EXCEPT !.ops = Added(from, c)], theta).ops
           Doc(theta, s) == DocumentedLayers(c.n, cost, p, at, theta, s)
           kets == [j \in Promised!Basis(c.n) |-> Promised!Ket(j, c.n)]
           Ran(theta) == [j \in DOMAIN kets |-> RunAll(Gs(theta), kets[j])]
           Wanted(theta) == [j \in DOMAIN kets |-> Doc(theta, RunAll(start, kets[j]))]
           Goal(theta) == \E global \in 0 .. 15 : \A i, j \in DOMAIN kets :
              Computed(Ran(theta))[j][i] = Times(Phase(global), Computed(Wanted(theta))[j][i])
<1>1. /\ c.n = n /\ from.ops \in Seq(GateOp) /\ c.ops \in Seq(GateOp) /\ at \in Nat
      /\ c = [n |-> n, params |-> c.params, ops |-> c.ops, measured |-> c.measured]
  BY CircuitFacts
<1>2. /\ DOMAIN kets = Indices(n) /\ Indices(n) # {}
      /\ \A j \in Indices(n) : kets[j] = Promised!Ket(j, n) /\ IsState(kets[j], n)
  <2>1. 0 \in Indices(n) /\ \A j \in Indices(n) : j \in Nat
    BY DEF Powers, Indices
  <2>2. \A j \in Indices(n) : IsState(Promised!Ket(j, n), n) /\ Promised!Basis(n) = Indices(n)
    BY <2>1, KetType
  <2>3. Promised!Basis(n) = Indices(n)
    BY <2>1, <2>2
  <2> QED BY <1>1, <2>1, <2>2, <2>3
<1> HIDE DEF kets
<1>3. ASSUME NEW theta \in Thetas, Len(theta) >= c.params
      PROVE  Goal(theta)
  <2>1. theta \in Seq(Int) /\ c.params = at + 2 * p /\ AnglesTo(theta, c.params)
    <3>1. theta \in Seq(Int)
      BY RuntimeAssumption
    <3>2. \A i \in 1 .. c.params : i \in 1 .. Len(theta)
      BY <1>1, <1>3, <3>1
    <3> QED BY <3>1, <3>2 DEF AnglesTo
  <2>2. PICK x \in Int : Does(from, c, theta, n, StartedAs(n, cost, p, at, theta, x, start))
    BY <1>3 DEF StartsAndDoes
  <2> DEFINE F == StartedAs(n, cost, p, at, theta, x, start)
  <2>3. PICK gates \in Seq(GateOp) :
           /\ c.ops = from.ops \o gates /\ GatesFit(Bound(gates, theta), n)
           /\ \A s : IsState(s, n) => RunAll(Bound(gates, theta), s) = F[s]
    BY <2>2 DEF Does
  <2>4. Added(from, c) = gates
    <3>1. from.ops \in Seq(GateOp)
      BY <1>1
    <3>2. c.ops = from.ops \o gates
      BY <2>3
    <3> QED BY <3>1, <3>2, AddedIs
  <2>5. Gs(theta) = Bound(gates, theta)
    <3> DEFINE d == [c EXCEPT !.ops = gates]
    <3>1. d.ops = gates
      <4> DEFINE ps == c.params
                 o == c.ops
                 me == c.measured
      <4>1. c = [n |-> n, params |-> ps, ops |-> o, measured |-> me]
        BY <1>1
      <4> HIDE DEF ps, o, me
      <4> QED BY <4>1
    <3> HIDE DEF d
    <3>2. Bind(d, theta).ops = [k \in DOMAIN d.ops |-> BindGate(d.ops[k], theta)]
      BY <3>1 DEF Bind
    <3>3. Gs(theta) = Bind(d, theta).ops
      BY <2>4 DEF d
    <3> QED BY <3>1, <3>2, <3>3 DEF Bound
  <2>6. ASSUME NEW j \in Indices(n)
        PROVE  /\ Ran(theta)[j] = Rescaled(Phase(x), Wanted(theta)[j])
               /\ IsState(Wanted(theta)[j], n)
    <3> DEFINE s == kets[j]
               u == RunAll(start, s)
    <3>1. IsState(s, n) /\ s \in States(n)
      BY <1>2 DEF IsState, States
    <3>2. IsState(u, n)
      BY <3>1, RunJoins
    <3>3. IsState(Doc(theta, u), n)
      <4>1. GrowsTo(n, cost, p, at, theta, u)
        <5> HIDE DEF u
        <5> QED BY <1>1, <2>1, <3>2, DocumentedGrows
      <4>2. p \in 0 .. p
        OBVIOUS
      <4> QED BY <1>1, <4>1, <4>2 DEF GrowsTo
    <3>4. F[s] = Rescaled(Phase(x), Doc(theta, u))
      BY <1>1, <3>1 DEF StartedAs
    <3>5. Wanted(theta)[j] = Doc(theta, u) /\ Ran(theta)[j] = RunAll(Gs(theta), s)
      BY <1>2
    <3>6. RunAll(Gs(theta), s) = F[s]
      BY <2>3, <2>5, <3>1
    <3> QED BY <3>3, <3>4, <3>5, <3>6
  <2>7. Computed(Ran(theta)) = Ran(theta) /\ Computed(Wanted(theta)) = Wanted(theta)
    <3> DEFINE r == Ran(theta)
               m == Wanted(theta)
    <3>1. DOMAIN r = Indices(n) /\ DOMAIN m = Indices(n)
      BY <1>2
    <3> HIDE DEF r, m
    <3>2. Computed(r) = r /\ Computed(m) = m
      BY <1>2, <3>1, NotEmptyComputed
    <3> QED BY <3>2 DEF r, m
  <2>8. x % 16 \in 0 .. 15 /\ Phase(x) = Phase(x % 16)
    BY WholeTurns
  <2> DEFINE r == Ran(theta)
             m == Wanted(theta)
  <2>9. \A j \in Indices(n) : r[j] = Rescaled(Phase(x), m[j]) /\ IsState(m[j], n)
    BY <2>6
  <2> HIDE DEF r, m
  <2>10. ASSUME NEW i \in Indices(n), NEW j \in Indices(n)
         PROVE  r[j][i] = Times(Phase(x), m[j][i])
    <3> DEFINE y == m[j]
               z == Phase(x)
    <3>1. z \in Amplitude /\ IsState(y, n) /\ r[j] = Rescaled(z, y)
      BY <2>9, ConstantsType
    <3> HIDE DEF y, z
    <3>2. Rescaled(z, y)[i] = Times(z, y[i])
      BY <3>1, RescaledType
    <3> QED BY <3>1, <3>2 DEF y, z
  <2>11. \A i, j \in DOMAIN kets :
            Computed(r)[j][i] = Times(Phase(x % 16), Computed(m)[j][i])
    BY <1>2, <2>7, <2>8, <2>10 DEF r, m
  <2> QED BY <2>8, <2>11 DEF r, m
<1>4. \A theta \in {t \in Thetas : Len(t) >= c.params} : Goal(theta)
  BY <1>3
<1>5. c.params = from.params + 2 * p
  OBVIOUS
<1> QED BY <1>4, <1>5, Zenon DEF QaoaAsDocumented, kets

LEMMA NothingRuns ==
    ASSUME Powers, NEW n \in Nat, NEW s, IsState(s, n)
    PROVE  RunAll(<<>>, s) = s /\ GatesFit(<<>>, n)
<1> DEFINE f == [k \in 0 .. 0 |-> s]
           none == <<>>
<1>1. f[0] = s
  OBVIOUS
<1>2. GatesFit(none, n) /\ Len(none) = 0
  BY DEF GatesFit
<1> HIDE DEF f, none
<1>3. \A k \in 1 .. Len(none) : f[k] = Promised!Act(none[k], f[k - 1])
  BY <1>2
<1>4. RunAll(none, s) = f[Len(none)]
  BY <1>1, <1>2, <1>3, OneRun
<1> QED BY <1>1, <1>2, <1>4 DEF none

LEMMA QaoaLayersAreDocumented ==
    ASSUME Powers, NEW n \in Nat, NEW c \in CircuitsOn(n), NEW cost, NEW masks,
           Costed(cost, masks, n), NEW p \in Nat
    PROVE  QaoaAsDocumented(c, QaoaLayers(c, masks, p), cost, p, <<>>)
<1> DEFINE d == QaoaLayers(c, masks, p)
           at == c.params
           none == <<>>
<1>1. d \in CircuitsOn(n) /\ d.params = at + 2 * p /\ at \in Nat
  <2> DEFINE theta == [i \in 1 .. at + 2 * p |-> 0]
             top == at + 2 * p
  <2>1. AnglesTo(theta, top) /\ top = c.params + 2 * p
    BY DEF AnglesTo
  <2> HIDE DEF theta, top
  <2>3. /\ d \in CircuitsOn(n) /\ d.params = c.params + 2 * p
        /\ DoesAsDocumented(c, d, n, cost, p, theta)
    BY <2>1, LayersDo
  <2> QED BY <2>3, CircuitFacts
<1>2. ASSUME NEW theta \in Thetas, Len(theta) >= d.params
      PROVE  \E x \in Int : Does(c, d, theta, n,
                                 StartedAs(n, cost, p, at, theta, x, none))
  <2>1. AnglesTo(theta, d.params)
    <3>1. theta \in Seq(Int)
      BY RuntimeAssumption
    <3>2. \A i \in 1 .. d.params : i \in 1 .. Len(theta)
      BY <1>1, <1>2, <3>1
    <3> QED BY <3>1, <3>2 DEF AnglesTo
  <2> DEFINE top == d.params
  <2>2. top = c.params + 2 * p /\ AnglesTo(theta, top)
    BY <1>1, <2>1
  <2> HIDE DEF top
  <2>3. DoesAsDocumented(c, d, n, cost, p, theta)
    BY <2>2, LayersDo
  <2>4. PICK x \in Int : Does(c, d, theta, n, LayersAs(n, cost, p, at, theta, x))
    BY <2>3 DEF DoesAsDocumented
  <2>5. LayersAs(n, cost, p, at, theta, x) = StartedAs(n, cost, p, at, theta, x, none)
    <3>1. \A s \in States(n) : RunAll(none, s) = s
      BY NothingRuns DEF IsState, States
    <3> QED BY <3>1 DEF LayersAs, StartedAs
  <2> QED BY <2>4, <2>5
<1> HIDE DEF d, none
<1>3. StartsAndDoes(c, d, n, cost, p, none)
  BY <1>2 DEF StartsAndDoes
<1>4. GatesFit(none, n)
  <2>1. \E s : IsState(s, n)
    BY KetType
  <2> QED BY <2>1, NothingRuns DEF none
<1>5. QaoaAsDocumented(c, d, cost, p, none)
  <2>1. Priced(cost, n)
    BY CostedIsPriced
  <2> QED BY <1>1, <1>3, <1>4, <2>1, MeantIs
<1> QED BY <1>5 DEF d, none

Hadamards(n) == [q \in 1 .. n |-> Gate("H", <<q - 1>>, <<>>)]

LEMMA HadamardsFit ==
    ASSUME NEW n \in Nat, NEW theta
    PROVE  /\ Hadamards(n) \in Seq(GatesOn(n, 0)) /\ Hadamards(n) \in Seq(GateOp)
           /\ GatesFit(Hadamards(n), n) /\ Bound(Hadamards(n), theta) = Hadamards(n)
<1> DEFINE m(q) == Gate("H", <<q - 1>>, <<>>)
           w == Hadamards(n)
<1>1. ASSUME NEW q \in 1 .. n
      PROVE  /\ m(q) \in GatesOn(n, 0) /\ m(q) \in GateOp /\ WellFormed(m(q), n)
             /\ BindGate(m(q), theta) = m(q)
  <2>1. "H" \in OneQubit /\ Arguments("H") = 0 /\ q - 1 \in 0 .. n - 1
    BY DEF OneQubit, Arguments
  <2>2. <<>> \in Seq(Args(0)) /\ Len(<<>>) = 0
    OBVIOUS
  <2>3. m(q) \in GatesOn(n, 0)
    BY <2>1, <2>2, MakesOne
  <2>4. BindGate(m(q), theta) = m(q)
    <3> DEFINE h == "H"
               qs == <<q - 1>>
    <3> HIDE DEF h, qs
    <3>1. BindGate(Gate(h, qs, <<>>), theta) = Gate(h, qs, <<>>)
      BY BindsFixed
    <3> QED BY <3>1 DEF h, qs
  <2> HIDE DEF m
  <2> QED BY <2>3, <2>4 DEF GatesOn
<1>2. w = [q \in 1 .. n |-> m(q)]
  BY DEF Hadamards
<1> HIDE DEF m, w
<1>3. /\ w \in Seq(GatesOn(n, 0)) /\ w \in Seq(GateOp) /\ Len(w) = n /\ DOMAIN w = 1 .. n
      /\ \A q \in 1 .. n : w[q] = m(q)
  BY <1>1, <1>2
<1>4. GatesFit(w, n)
  BY <1>1, <1>3 DEF GatesFit
<1>5. Bound(w, theta) = w
  <2>1. Bound(w, theta) = [q \in 1 .. n |-> BindGate(w[q], theta)]
    BY <1>3 DEF Bound
  <2>2. [q \in 1 .. n |-> BindGate(w[q], theta)] = [q \in 1 .. n |-> m(q)]
    BY <1>1, <1>3
  <2> QED BY <1>2, <2>1, <2>2
<1> QED BY <1>3, <1>4, <1>5 DEF w

LEMMA QaoaIsDocumented ==
    ASSUME Powers, NEW n \in Nat, NEW cost, NEW masks, Costed(cost, masks, n), NEW p \in Nat
    PROVE  QaoaAsDocumented(NewCircuit(n), Qaoa(n, masks, p), cost, p,
                            [q \in 1 .. n |-> Gate("H", <<q - 1>>, <<>>)])
<1> DEFINE c == NewCircuit(n)
           w == Hadamards(n)
           e == AddGates(c, w)
           d == QaoaLayers(e, masks, p)
<1>1. /\ c \in CircuitsOn(n) /\ c.params = 0 /\ c.ops = <<>> /\ c.ops \in Seq(GateOp)
  BY EmptyCircuit DEF NewCircuit
<1>2. /\ w \in Seq(GatesOn(n, 0)) /\ w \in Seq(GateOp) /\ GatesFit(w, n)
      /\ \A theta : Bound(w, theta) = w
  BY HadamardsFit
<1>3. Qaoa(n, masks, p) = d
  BY DEF Qaoa, Hadamards
<1> HIDE DEF c, w
<1>4. e \in CircuitsOn(n) /\ e.params = 0
  BY <1>1, <1>2, AddsGates
<1>5. e.ops = c.ops \o w
  <2>1. c = [n |-> n, params |-> 0, ops |-> <<>>, measured |-> <<>>]
    BY DEF c, NewCircuit
  <2> QED BY <2>1 DEF AddGates
<1> HIDE DEF e
<1>6. d \in CircuitsOn(n) /\ d.params = 2 * p
  <2> DEFINE theta == [i \in 1 .. e.params + 2 * p |-> 0]
             top == e.params + 2 * p
  <2>1. AnglesTo(theta, top) /\ top = e.params + 2 * p
    BY DEF AnglesTo
  <2> HIDE DEF theta, top
  <2>3. /\ d \in CircuitsOn(n) /\ d.params = e.params + 2 * p
        /\ DoesAsDocumented(e, d, n, cost, p, theta)
    BY <1>4, <2>1, LayersDo
  <2> QED BY <1>4, <2>3
<1>7. ASSUME NEW theta \in Thetas, Len(theta) >= d.params
      PROVE  \E x \in Int : Does(c, d, theta, n, StartedAs(n, cost, p, c.params, theta, x, w))
  <2>1. AnglesTo(theta, d.params)
    <3>1. theta \in Seq(Int)
      BY RuntimeAssumption
    <3>2. \A i \in 1 .. d.params : i \in 1 .. Len(theta)
      BY <1>6, <1>7, <3>1
    <3> QED BY <3>1, <3>2 DEF AnglesTo
  <2> DEFINE top == d.params
  <2>2. top = e.params + 2 * p /\ AnglesTo(theta, top)
    BY <1>4, <1>6, <2>1
  <2> HIDE DEF top
  <2>3. DoesAsDocumented(e, d, n, cost, p, theta)
    BY <1>4, <2>2, LayersDo
  <2>4. PICK x \in Int : Does(e, d, theta, n, LayersAs(n, cost, p, e.params, theta, x))
    BY <2>3 DEF DoesAsDocumented
  <2> DEFINE F == [s \in States(n) |-> RunAll(w, s)]
             G == LayersAs(n, cost, p, e.params, theta, x)
             H == StartedAs(n, cost, p, c.params, theta, x, w)
  <2>5. \A s : IsState(s, n) => s \in States(n)
    BY DEF IsState, States
  <2>6. Does(c, e, theta, n, F)
    <3>1. \A s : IsState(s, n) => F[s] = RunAll(w, s)
      BY <2>5
    <3> HIDE DEF F
    <3> QED BY <1>2, <1>5, <3>1 DEF Does
  <2>7. \A s : IsState(s, n) => IsState(F[s], n)
    <3>1. ASSUME NEW s, IsState(s, n) PROVE IsState(RunAll(w, s), n)
      BY <1>2, <3>1, RunJoins
    <3> QED BY <2>5, <3>1
  <2>8. ASSUME NEW s, IsState(s, n) PROVE H[s] = G[F[s]]
    <3> DEFINE t == RunAll(w, s)
    <3>1. t \in States(n) /\ F[s] = t
      BY <2>5, <2>7, <2>8
    <3>2. H[s] = Rescaled(Phase(x), DocumentedLayers(n, cost, p, c.params, theta, t))
      BY <2>5, <2>8 DEF StartedAs
    <3> HIDE DEF t
    <3>3. G[t] = Rescaled(Phase(x), DocumentedLayers(n, cost, p, e.params, theta, t))
      BY <3>1 DEF LayersAs
    <3> QED BY <1>1, <1>4, <3>1, <3>2, <3>3
  <2>9. \A s : IsState(s, n) => H[s] = G[F[s]]
    BY <2>8
  <2> HIDE DEF F, G, H
  <2>10. Does(e, d, theta, n, G)
    BY <2>4 DEF G
  <2>11. c.ops \in Seq(GateOp)
    BY <1>1
  <2> HIDE DEF d
  <2>12. Does(c, d, theta, n, H)
    BY <2>6, <2>7, <2>9, <2>10, <2>11, DoesBoth
  <2> QED BY <2>12 DEF H
<1> HIDE DEF d
<1>8. StartsAndDoes(c, d, n, cost, p, w)
  BY <1>7 DEF StartsAndDoes
<1>9. d.params = c.params + 2 * p
  BY <1>1, <1>6
<1>10. QaoaAsDocumented(c, d, cost, p, w)
  <2>1. Priced(cost, n)
    BY CostedIsPriced
  <2> QED BY <1>1, <1>2, <1>6, <1>8, <1>9, <2>1, MeantIs
<1> QED BY <1>3, <1>10 DEF c, w, Hadamards

-----------------------------------------------------------------------------
(* The calls of the library *)

\* What call r, made on circuit c, has built when it returns.
Delivers(c, r) ==
    \/ /\ r.what = "two_local"
       /\ AsDocumented(c, TwoLocal(c, r.rotations, r.reps, r.entanglement, r.final), r)
    \/ /\ r.what = "real_amplitudes"
       /\ AsDocumented(c, RealAmplitudes(c, r.reps, r.entanglement), r)
    \/ /\ r.what = "efficient_su2"
       /\ AsDocumented(c, EfficientSU2(c, r.reps, r.entanglement), r)
    \/ /\ r.what = "basis_state"
       /\ ~BasisStateThrows(c, r.bits) => AsDocumented(c, BasisState(c, r.bits), r)
    \/ /\ r.what = "qaoa_layers"
       /\ QaoaAccepts(c, r.cost.n, Masks(r.cost)) =>
             AsDocumented(c, QaoaLayers(c, Masks(r.cost), r.p), r)
    \/ /\ r.what = "qaoa"
       /\ IsDiagonal(Masks(r.cost)) =>
             AsDocumented(NewCircuit(r.cost.n), Qaoa(r.cost.n, Masks(r.cost), r.p), r)

\* The value of a diagonal cost is what its terms add up to.
LEMMA DiagonalCosts ==
    ASSUME NEW o, IsCost(o), IsDiagonal(Masks(o))
    PROVE  o.n \in Nat /\ Costed(o, Masks(o), o.n)
<1>1. o.n \in Nat /\ Masks(o) \in Seq(CostTerms(o.n))
  BY CostMasksType
<1>2. \A j \in Indices(o.n) : CostValue(o, j) \in Int /\ DiagonalCost(Masks(o), j) = CostValue(o, j)
  BY CostIsValue
<1> QED BY <1>1, <1>2 DEF Costed

LEMMA CallDelivers ==
    ASSUME Doubling, NEW n \in Nat, NEW c \in CircuitsOn(n), NEW r, IsRecipe(r)
    PROVE  Delivers(c, r)
<1>p. Powers
  BY PowersDivide
<1>n. c.n = n
  BY CircuitFacts
<1>1. CASE r.what = "two_local"
  <2>1. /\ r.rotations \in Seq(Axes) /\ r.reps \in Nat /\ r.entanglement \in Entanglements
    BY <1>1 DEF IsRecipe, Axes
  <2> DEFINE d == TwoLocal(c, r.rotations, r.reps, r.entanglement, r.final)
  <2>2. r.reps # 0 \/ r.final =>
          LayeredAsDocumented(c, d, r.rotations, r.reps, r.entanglement, r.final)
    BY <2>1, TwoLocalIsDocumented
  <2> HIDE DEF d
  <2>3. AsDocumented(c, d, r)
    BY <1>1, <2>2 DEF AsDocumented
  <2> QED BY <1>1, <2>3 DEF Delivers, d
<1>2. CASE r.what = "real_amplitudes"
  <2>1. r.reps \in Nat /\ r.entanglement \in Entanglements
    BY <1>2 DEF IsRecipe
  <2> DEFINE d == RealAmplitudes(c, r.reps, r.entanglement)
  <2>2. LayeredAsDocumented(c, d, <<"RY">>, r.reps, r.entanglement, TRUE)
    <3> DEFINE one == <<"RY">>
    <3>1. one \in Seq(Axes)
      BY DEF Axes
    <3>2. d = TwoLocal(c, one, r.reps, r.entanglement, TRUE)
      BY DEF RealAmplitudes
    <3> HIDE DEF one, d
    <3>3. LayeredAsDocumented(c, d, one, r.reps, r.entanglement, TRUE)
      BY <2>1, <3>1, <3>2, TwoLocalIsDocumented
    <3> QED BY <3>3 DEF one
  <2> HIDE DEF d
  <2>3. AsDocumented(c, d, r)
    BY <1>2, <2>2 DEF AsDocumented
  <2> QED BY <1>2, <2>3 DEF Delivers, d
<1>3. CASE r.what = "efficient_su2"
  <2>1. r.reps \in Nat /\ r.entanglement \in Entanglements
    BY <1>3 DEF IsRecipe
  <2> DEFINE d == EfficientSU2(c, r.reps, r.entanglement)
  <2>2. LayeredAsDocumented(c, d, <<"RY", "RZ">>, r.reps, r.entanglement, TRUE)
    <3> DEFINE two == <<"RY", "RZ">>
    <3>1. two \in Seq(Axes)
      BY DEF Axes
    <3>2. d = TwoLocal(c, two, r.reps, r.entanglement, TRUE)
      BY DEF EfficientSU2
    <3> HIDE DEF two, d
    <3>3. LayeredAsDocumented(c, d, two, r.reps, r.entanglement, TRUE)
      BY <2>1, <3>1, <3>2, TwoLocalIsDocumented
    <3> QED BY <3>3 DEF two
  <2> HIDE DEF d
  <2>3. AsDocumented(c, d, r)
    BY <1>3, <2>2 DEF AsDocumented
  <2> QED BY <1>3, <2>3 DEF Delivers, d
<1>4. CASE r.what = "basis_state"
  <2>1. r.bits \in Nat
    BY <1>4 DEF IsRecipe
  <2> DEFINE d == BasisState(c, r.bits)
  <2>2. d.n = n
    BY BasisStateType, CircuitFacts
  <2>3. ASSUME ~BasisStateThrows(c, r.bits) PROVE AsDocumented(c, d, r)
    <3>1. RunAll(Added(c, d), Promised!Ket(0, n)) = Promised!Ket(r.bits, n)
      BY <2>1, <2>3, BasisStateIs
    <3> HIDE DEF d
    <3>2. RunAll(Added(c, d), Promised!Ket(0, d.n)) = Promised!Ket(r.bits, d.n)
      BY <2>2, <3>1
    <3> QED BY <1>4, <3>2 DEF AsDocumented
  <2> QED BY <1>4, <2>3 DEF Delivers
<1>5. CASE r.what \in {"qaoa_layers", "qaoa"}
  <2> DEFINE masks == Masks(r.cost)
             m == r.cost.n
             layers == QaoaLayers(c, masks, r.p)
             whole == Qaoa(m, masks, r.p)
             start == [q \in 1 .. whole.n |-> Gate("H", <<q - 1>>, <<>>)]
  <2>1. r.p \in Nat /\ IsCost(r.cost)
    BY <1>5 DEF IsRecipe
  <2>2. IsDiagonal(masks) => m \in Nat /\ Costed(r.cost, masks, m)
    BY <2>1, DiagonalCosts
  <2>3. CASE r.what = "qaoa_layers"
    <3>1. ASSUME QaoaAccepts(c, m, masks) PROVE AsDocumented(c, layers, r)
      <4>1. m = n /\ IsDiagonal(masks)
        BY <1>n, <3>1 DEF QaoaAccepts
      <4>2. Costed(r.cost, masks, n)
        BY <2>2, <4>1
      <4> HIDE DEF masks
      <4>3. QaoaAsDocumented(c, layers, r.cost, r.p, <<>>)
        BY <1>p, <2>1, <4>2, QaoaLayersAreDocumented
      <4> HIDE DEF layers
      <4> QED BY <2>3, <4>3 DEF AsDocumented
    <3> QED BY <2>3, <3>1 DEF Delivers
  <2>4. CASE r.what = "qaoa"
    <3>1. ASSUME IsDiagonal(masks) PROVE AsDocumented(NewCircuit(m), whole, r)
      <4>1. m \in Nat /\ Costed(r.cost, masks, m)
        BY <2>2, <3>1
      <4> HIDE DEF masks, m
      <4>2. QaoaAsDocumented(NewCircuit(m), whole, r.cost, r.p,
                             [q \in 1 .. m |-> Gate("H", <<q - 1>>, <<>>)])
        BY <1>p, <2>1, <4>1, QaoaIsDocumented
      <4>3. whole.n = m
        <5>1. masks \in Seq(CostTerms(m))
          BY <4>1 DEF Costed
        <5>2. whole \in CircuitsOn(m)
          BY <2>1, <4>1, <5>1, QaoaType
        <5> HIDE DEF whole
        <5> QED BY <4>1, <5>2, CircuitFacts
      <4> HIDE DEF whole
      <4>4. QaoaAsDocumented(NewCircuit(m), whole, r.cost, r.p, start)
        BY <4>2, <4>3
      <4> HIDE DEF start
      <4> QED BY <2>4, <4>4 DEF AsDocumented, start
    <3> QED BY <2>4, <3>1 DEF Delivers
  <2> QED BY <1>5, <2>3, <2>4
<1> QED BY <1>1, <1>2, <1>3, <1>4, <1>5 DEF IsRecipe

\* Call r left circuit c, or threw, having been made on circuit from.
Returns(r, c, throws, from) ==
    /\ circuit' = c /\ result' = (IF throws THEN Thrown ELSE None)
    /\ recipe' = [what |-> r.what, ask |-> r, from |-> from]

LEMMA ReturnsDocumented ==
    ASSUME NEW r, NEW c, NEW throws \in BOOLEAN, NEW from, Returns(r, c, throws, from),
           ~throws => AsDocumented(from, c, r)
    PROVE  AnsatzAsDocumented'
<1>1. Thrown # None
  BY DEF Thrown, None
<1>2. circuit' = c /\ result' = (IF throws THEN Thrown ELSE None)
  BY DEF Returns
<1>3. recipe'.from = from /\ recipe'.ask = r
  BY DEF Returns
<1>4. ASSUME result' = None PROVE AsDocumented(recipe'.from, circuit', recipe'.ask)
  <2>1. ~throws
    BY <1>1, <1>2, <1>4
  <2> QED BY <1>2, <1>3, <2>1
<1> QED BY <1>4 DEF AnsatzAsDocumented

LEMMA CallsReturn ==
    ASSUME CallsLibrary
    PROVE  \E r \in Recipes :
        \/ /\ r.what = "two_local"
           /\ Returns(r, TwoLocal(circuit, r.rotations, r.reps, r.entanglement, r.final),
                      FALSE, circuit)
        \/ /\ r.what = "real_amplitudes"
           /\ Returns(r, RealAmplitudes(circuit, r.reps, r.entanglement), FALSE, circuit)
        \/ /\ r.what = "efficient_su2"
           /\ Returns(r, EfficientSU2(circuit, r.reps, r.entanglement), FALSE, circuit)
        \/ /\ r.what = "basis_state"
           /\ Returns(r, BasisState(circuit, r.bits), BasisStateThrows(circuit, r.bits), circuit)
        \/ /\ r.what = "qaoa_layers" /\ QaoaAccepts(circuit, r.cost.n, Masks(r.cost))
           /\ Returns(r, QaoaLayers(circuit, Masks(r.cost), r.p), FALSE, circuit)
        \/ recipe' = None
        \/ /\ r.what = "qaoa" /\ IsDiagonal(Masks(r.cost))
           /\ Returns(r, Qaoa(r.cost.n, Masks(r.cost), r.p), FALSE, NewCircuit(r.cost.n))
<1>1. ASSUME NEW r, NEW c, NEW throws, Built(c, throws, Made(r))
      PROVE  Returns(r, c, throws, circuit)
  BY <1>1 DEF Built, Made, Returns
<1>2. ASSUME NEW r, NEW c, NEW from, Built(c, FALSE, [Made(r) EXCEPT !.from = from])
      PROVE  Returns(r, c, FALSE, from)
  <2>1. [Made(r) EXCEPT !.from = from] = [what |-> r.what, ask |-> r, from |-> from]
    BY DEF Made
  <2> QED BY <1>2, <2>1 DEF Built, Returns
<1>3. ASSUME NEW c, NEW throws, Built(c, throws, None) PROVE recipe' = None
  BY <1>3 DEF Built
<1> QED BY <1>1, <1>2, <1>3, Zenon DEF CallsLibrary

\* A call of the library, as it leaves circuit and result.
LEMMA CallsAsDocumented ==
    ASSUME Doubling, IInv, CallsLibrary
    PROVE  AnsatzAsDocumented'
<1>1. circuit.n \in Nat /\ circuit \in CircuitsOn(circuit.n)
  BY RuntimeAssumption DEF IInv, CircuitOK
<1>2. PICK r \in Recipes :
        \/ /\ r.what = "two_local"
           /\ Returns(r, TwoLocal(circuit, r.rotations, r.reps, r.entanglement, r.final),
                      FALSE, circuit)
        \/ /\ r.what = "real_amplitudes"
           /\ Returns(r, RealAmplitudes(circuit, r.reps, r.entanglement), FALSE, circuit)
        \/ /\ r.what = "efficient_su2"
           /\ Returns(r, EfficientSU2(circuit, r.reps, r.entanglement), FALSE, circuit)
        \/ /\ r.what = "basis_state"
           /\ Returns(r, BasisState(circuit, r.bits), BasisStateThrows(circuit, r.bits), circuit)
        \/ /\ r.what = "qaoa_layers" /\ QaoaAccepts(circuit, r.cost.n, Masks(r.cost))
           /\ Returns(r, QaoaLayers(circuit, Masks(r.cost), r.p), FALSE, circuit)
        \/ recipe' = None
        \/ /\ r.what = "qaoa" /\ IsDiagonal(Masks(r.cost))
           /\ Returns(r, Qaoa(r.cost.n, Masks(r.cost), r.p), FALSE, NewCircuit(r.cost.n))
  BY CallsReturn, Zenon
<1>3. Delivers(circuit, r)
  BY <1>1, <1>2, RuntimeAssumption, CallDelivers
<1>4. CASE recipe' = None
  BY <1>4 DEF AnsatzAsDocumented
<1>5. CASE r.what = "two_local"
  <2> DEFINE c == TwoLocal(circuit, r.rotations, r.reps, r.entanglement, r.final)
  <2>1. AsDocumented(circuit, c, r)
    BY <1>3, <1>5 DEF Delivers
  <2>2. CASE Returns(r, c, FALSE, circuit)
    <3> HIDE DEF c
    <3> QED BY <2>1, <2>2, ReturnsDocumented
  <2> QED BY <1>2, <1>4, <1>5, <2>2
<1>6. CASE r.what = "real_amplitudes"
  <2> DEFINE c == RealAmplitudes(circuit, r.reps, r.entanglement)
  <2>1. AsDocumented(circuit, c, r)
    BY <1>3, <1>6 DEF Delivers
  <2>2. CASE Returns(r, c, FALSE, circuit)
    <3> HIDE DEF c
    <3> QED BY <2>1, <2>2, ReturnsDocumented
  <2> QED BY <1>2, <1>4, <1>6, <2>2
<1>7. CASE r.what = "efficient_su2"
  <2> DEFINE c == EfficientSU2(circuit, r.reps, r.entanglement)
  <2>1. AsDocumented(circuit, c, r)
    BY <1>3, <1>7 DEF Delivers
  <2>2. CASE Returns(r, c, FALSE, circuit)
    <3> HIDE DEF c
    <3> QED BY <2>1, <2>2, ReturnsDocumented
  <2> QED BY <1>2, <1>4, <1>7, <2>2
<1>8. CASE r.what = "basis_state"
  <2> DEFINE c == BasisState(circuit, r.bits)
             throws == BasisStateThrows(circuit, r.bits)
  <2>1. ~throws => AsDocumented(circuit, c, r)
    BY <1>3, <1>8 DEF Delivers
  <2>2. throws \in BOOLEAN
    BY DEF BasisStateThrows
  <2>3. CASE Returns(r, c, throws, circuit)
    <3> HIDE DEF c, throws
    <3> QED BY <2>1, <2>2, <2>3, ReturnsDocumented
  <2> QED BY <1>2, <1>4, <1>8, <2>3
<1>9. CASE r.what = "qaoa_layers"
  <2> DEFINE c == QaoaLayers(circuit, Masks(r.cost), r.p)
             accepted == QaoaAccepts(circuit, r.cost.n, Masks(r.cost))
  <2>1. accepted => AsDocumented(circuit, c, r)
    BY <1>3, <1>9 DEF Delivers
  <2>2. CASE accepted /\ Returns(r, c, FALSE, circuit)
    <3> HIDE DEF c, accepted
    <3> QED BY <2>1, <2>2, ReturnsDocumented
  <2> QED BY <1>2, <1>4, <1>9, <2>2
<1>10. CASE r.what = "qaoa"
  <2> DEFINE c == Qaoa(r.cost.n, Masks(r.cost), r.p)
             from == NewCircuit(r.cost.n)
             accepted == IsDiagonal(Masks(r.cost))
  <2>1. accepted => AsDocumented(from, c, r)
    BY <1>3, <1>10 DEF Delivers
  <2>2. CASE accepted /\ Returns(r, c, FALSE, from)
    <3> HIDE DEF c, from, accepted
    <3> QED BY <2>1, <2>2, ReturnsDocumented
  <2> QED BY <1>2, <1>4, <1>10, <2>2
<1> QED BY <1>2, <1>4, <1>5, <1>6, <1>7, <1>8, <1>9, <1>10

\* Nothing else makes one; and a circuit is not changed under the call's result.
LEMMA OthersAsDocumented ==
    ASSUME AnsatzAsDocumented, [Next]_vars, ~CallsLibrary
    PROVE  AnsatzAsDocumented'
<1>1. CASE AddsGate \/ Measures \/ AllocatesParameter \/ Binds \/ NextCircuit \/ Run
  <2>1. recipe' = None
    BY <1>1, Zenon DEF AddsGate, Measures, AllocatesParameter, Binds, Built, NextCircuit, Run
  <2> QED BY <2>1 DEF AnsatzAsDocumented
<1>2. CASE InitializeFails
  <2>1. result' = Thrown
    BY <1>2 DEF InitializeFails
  <2> QED BY <2>1 DEF AnsatzAsDocumented, Thrown, None
<1>3. CASE ReadsState \/ SamplesOnce \/ TakesExpectation \/ TakesAnswer
  <2>1. \E what, value : Given(what, value)
    BY <1>3 DEF ReadsState, SamplesOnce, TakesExpectation, TakesAnswer
  <2>2. PICK what, value : result' = [what |-> what, value |-> value]
    BY <2>1 DEF Given
  <2>3. DOMAIN result' = {"what", "value"} /\ DOMAIN None = {"what"}
    BY <2>2 DEF None
  <2> QED BY <2>3 DEF AnsatzAsDocumented
<1>4. CASE UNCHANGED <<circuit, recipe, result>>
  BY <1>4 DEF AnsatzAsDocumented
<1>5. CASE Initializes \/ SubmitsGate \/ HostWaits \/ DeviceWorks \/ RunReturns
  BY <1>4, <1>5 DEF Initializes, SubmitsGate, HostWaits, DeviceWorks, RunReturns, building
<1>6. CASE UNCHANGED vars
  BY <1>4, <1>6 DEF vars
<1> QED BY <1>1, <1>2, <1>3, <1>5, <1>6 DEF Next

\* Every ansatz of the library is, for any number of qubits, layers, repetitions
\* and rotations and any diagonal cost, on any circuit already built, what its
\* documentation says: the order and the parameters of the layers, the pairs
\* entangled, the basis state prepared, and for qaoa() the product of the
\* exponentials.  Only of a call without repetitions and without a final layer,
\* where the code adds a layer and the documentation has none, nothing is said.
THEOREM AnsatzIsAsDocumented ==
    ASSUME Doubling
    PROVE  Spec => []AnsatzAsDocumented
<1>p. Powers
  BY PowersDivide
<1> DEFINE DInv == IInv /\ AnsatzAsDocumented
<1>1. Init => DInv
  BY InitIInv DEF Init, AnsatzAsDocumented
<1>2. DInv /\ [Next]_vars => DInv'
  <2> SUFFICES ASSUME DInv, [Next]_vars PROVE DInv'
    OBVIOUS
  <2>1. IInv'
    BY <1>p, StepIInv
  <2>2. AnsatzAsDocumented'
    BY CallsAsDocumented, OthersAsDocumented
  <2> QED BY <2>1, <2>2
<1>3. DInv => AnsatzAsDocumented
  OBVIOUS
<1> QED BY <1>1, <1>2, <1>3, PTL DEF Spec

=============================================================================
