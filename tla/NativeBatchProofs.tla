------------------------- MODULE NativeBatchProofs -------------------------
(***************************************************************************)
(* Proofs about NativeBatch, for every ansatz, every batch and every pace  *)
(* of the device: the memory the device works on, the batch that is built, *)
(* what the device has computed so far, and the gradient.                  *)
(***************************************************************************)
EXTENDS NativeBatch, TLAPS

Running == {"submit", "wait"}

Over == {"returned", "combined", "refused"}

Threw == {"threw"}

\* What is pending and what is allocated, by the host's place in the function.
MemoryInv ==
    /\ pc \in {"build", "scan", "check", "allocate", "stage"} \cup Running \cup Over
            \cup Threw
    /\ pc \notin Running \cup Threw => queue = <<>>
    /\ pc \in Running => staging = "alive"
    /\ mem = IF pc \in {"stage"} \cup Running \cup Threw THEN Wanted ELSE {}

LEMMA InitMemory == Init => MemoryInv
BY DEF Init, MemoryInv, Running, Over, Threw

\* One step of the device leaves the host, the memory and the buffers alone.
LEMMA ExecuteKeeps ==
    Execute => /\ queue # <<>> /\ UNCHANGED <<params, observable, pc, mem, staging>>
BY DEF Execute, request

LEMMA MemoryStep == MemoryInv /\ [Next]_vars => MemoryInv'
<1> SUFFICES ASSUME MemoryInv, [Next]_vars PROVE MemoryInv'
  OBVIOUS
<1> USE DEF MemoryInv, Running, Over, Threw, Wanted, Unused, request, batch, device
<1>1. CASE BuildBatch
  BY <1>1 DEF BuildBatch
<1>2. CASE BuildRefused
  BY <1>2 DEF BuildRefused
<1>3. CASE Ask
  BY <1>3 DEF Ask
<1>13. CASE ScanOperation
  BY <1>13 DEF ScanOperation, Scan
<1>14. CASE ScanParameter
  BY <1>14 DEF ScanParameter, Scan
<1>15. CASE EndScan
  BY <1>15 DEF EndScan
<1>4. CASE Check
  BY <1>4 DEF Check
<1>5. CASE Allocate
  BY <1>5 DEF Allocate
<1>6. CASE AllocationFails
  BY <1>6 DEF AllocationFails
<1>7. CASE Stage
  BY <1>7 DEF Stage
<1>8. CASE Submit
  BY <1>8 DEF Submit
<1>9. CASE Finish
  BY <1>9 DEF Finish
<1>10. CASE Execute
  BY <1>10, ExecuteKeeps
<1>11. CASE Combine
  BY <1>11 DEF Combine
<1>12. CASE UNCHANGED vars
  BY <1>12 DEF vars
<1>16. CASE SubmissionThrows
  BY <1>16 DEF SubmissionThrows
<1> QED
  BY <1>1, <1>2, <1>3, <1>4, <1>5, <1>6, <1>7, <1>8, <1>9, <1>10, <1>11,
     <1>12, <1>13, <1>14, <1>15, <1>16 DEF Next

\* The host's place, the queue, the allocations and the staging buffers agree.
THEOREM Memory == Spec => []MemoryInv
BY InitMemory, MemoryStep, PTL DEF Spec

\* Nothing the device still has to run was freed under it, nor went out of scope
\* unless SYCL has thrown.
THEOREM PendingIsSafe == Spec => []PendingWorkIsSafe
<1>1. MemoryInv => PendingWorkIsSafe
  BY DEF MemoryInv, PendingWorkIsSafe, Source, Running, Threw
<1> QED
  BY <1>1, Memory, PTL

\* A call that ends of its own accord, with a result, a refusal or a failed
\* allocation, leaves no device memory behind.  After an exception of SYCL all of
\* it is left (MemoryInv).
THEOREM FreedOnOwnExit == Spec => []FreedOnExit
<1>1. MemoryInv => FreedOnExit
  BY DEF MemoryInv, FreedOnExit, Running, Threw
<1> QED
  BY <1>1, Memory, PTL

-----------------------------------------------------------------------------
(* The batch *)

Term == [param : 1 .. params, weight : 0 .. Len(ops)]

\* The ansatz and what is asked of it: nothing changes them.
RequestInv ==
    /\ ops \in Seq(Gates) /\ Len(ops) <= MaxOps
    /\ \A k \in 1 .. Len(ops) :
          \A j \in 1 .. Len(ops[k].args) : ops[k].args[j] <= params
    /\ params \in 0 .. MaxParams
    /\ method \in {"shift", "difference", "none"} /\ sized \in BOOLEAN
    /\ observable \in {"fits", "empty", "other"}

\* The batch is complete once the host is past the scan.
Built == {"check", "allocate", "stage", "submit", "wait", "returned", "combined",
          "threw"}

RowsInv ==
    /\ pc \in {"build", "scan", "refused"} \cup Built
    /\ scanned \in Nat
    /\ rows \in Seq(Row) /\ \A b \in 1 .. Len(rows) : Bindable(rows[b])
    /\ terms \in Seq(Term)
    /\ pc = "build" => scanned = 0 /\ rows = <<>> /\ terms = <<>>
    /\ method = "none" => pc # "scan" /\ terms = <<>>
    /\ method # "none" /\ pc # "build" => Len(rows) = 2 * Len(terms) + 1

\* The terms are the parametric operations gone through, in circuit order, and
\* term t has rows 2t and 2t + 1.
ShiftInv ==
    method = "shift" =>
        /\ scanned <= Len(ops)
        /\ \A t \in 1 .. Len(terms) :
              /\ terms[t].weight \in 1 .. scanned
              /\ Parametric(ops[terms[t].weight])
              /\ ops[terms[t].weight].kind = "shiftable"
              /\ terms[t].param = ops[terms[t].weight].args[1]
              /\ rows[2 * t] = Shifted(terms[t].weight, 1)
              /\ rows[2 * t + 1] = Shifted(terms[t].weight, -1)
        /\ \A t, u \in 1 .. Len(terms) : t < u => terms[t].weight < terms[u].weight
        /\ \A k \in 1 .. scanned :
              Parametric(ops[k]) =>
                  /\ ops[k].kind = "shiftable"
                  /\ \E t \in 1 .. Len(terms) : terms[t].weight = k
        /\ pc \in Built => scanned = Len(ops)

\* The terms are the parameters gone through, and term t has rows 2t and 2t + 1.
DifferenceInv ==
    method = "difference" =>
        /\ scanned <= params /\ Len(terms) = scanned
        /\ \A t \in 1 .. Len(terms) :
              /\ terms[t] = [param |-> t, weight |-> 0]
              /\ rows[2 * t] = Bumped(t, 1) /\ rows[2 * t + 1] = Bumped(t, -1)
        /\ pc \in Built => scanned = params

BatchInv == RequestInv /\ RowsInv /\ ShiftInv /\ DifferenceInv

-----------------------------------------------------------------------------
(* The device *)

First == IF Unused("theta") THEN 0 ELSE 1

\* The copies that come before the states are set: theta, the shifts, the masks.
Copies == First + 2 + (IF Unused("masks") THEN 0 ELSE 1)

Done == issued - Len(queue)

Commands ==
    [name : {"theta", "shiftOp", "shift", "masks", "zero", "one", "gate", "energy",
             "out"}, op : Nat]

\* The energies of a whole batch, and those of its requests' first n gates.
Results == [b \in 1 .. Len(rows) |-> Bound(rows[b])]
Prefix(r, n) == [k \in 1 .. n |-> Bound(r)[k]]

Applied(d) ==
    IF d <= Copies + 2 THEN 0
    ELSE IF d <= Copies + 2 + Len(ops) THEN d - (Copies + 2) ELSE Len(ops)

\* What the first d commands of the program leave on the device: what is loaded,
\* the states, the energies and what was copied back.
Leaves(d, arrays, states, energies, copied) ==
    /\ params # 0 /\ d >= 1 => "theta" \in arrays
    /\ d >= First + 1 => "shiftOp" \in arrays
    /\ d >= First + 2 => "shift" \in arrays
    /\ ~Unused("masks") /\ d >= First + 3 => "masks" \in arrays
    /\ d >= Copies + 1 =>
          states = [b \in 1 .. Len(rows) |-> Prefix(rows[b], Applied(d))]
    /\ d >= Copies + 2 => "one" \in arrays
    /\ d >= Copies + Len(ops) + 3 => energies = Results
    /\ d >= Copies + Len(ops) + 4 => copied = Results
    /\ d < Copies + Len(ops) + 4 => copied = <<>>

\* The queue is the part of the program that is issued and not done.
QueueInv ==
    /\ issued \in 0 .. Len(Program)
    /\ queue \in Seq(Commands) /\ Len(queue) <= issued
    /\ \A i \in 1 .. Len(queue) : queue[i] = Program[Done + i]
    /\ pc \in {"build", "scan", "check", "allocate", "stage"} => issued = 0 /\ out = <<>>
    /\ pc = "submit" => issued < Len(Program)
    /\ pc = "wait" => issued = Len(Program)

DeviceInv ==
    /\ pc \in Running => Leaves(Done, loaded, path, energy, out)
    /\ pc \in {"returned", "combined"} => out = Results

-----------------------------------------------------------------------------
(* Requests *)

\* A request that moves parameters, or none, is one bind() accepts ...
LEMMA MovedRow ==
    ASSUME RequestInv, NEW f \in [1 .. params -> {-1, 0, 1}]
    PROVE  Moved(f) \in Row /\ Bindable(Moved(f))
BY DEF Moved, Row, Bindable, RequestInv

LEMMA PlainRow ==
    ASSUME RequestInv
    PROVE  Plain \in Row /\ Bindable(Plain)
BY MovedRow DEF Plain, Theta

LEMMA BumpedRow ==
    ASSUME RequestInv, NEW i \in 1 .. params, NEW s \in {-1, 1}
    PROVE  Bumped(i, s) \in Row /\ Bindable(Bumped(i, s))
BY MovedRow DEF Bumped, Theta

\* ... and so is one that shifts an operation with an angle.
LEMMA ShiftedRow ==
    ASSUME RequestInv, NEW k \in 1 .. Len(ops), NEW s \in {-1, 1}, Parametric(ops[k])
    PROVE  Shifted(k, s) \in Row /\ Bindable(Shifted(k, s))
<1>1. Len(ops) \in Nat /\ params \in Nat /\ ops[k] \in Gates
  BY NativeAssumption DEF RequestInv
<1>2. ops[k].args # <<>>
  BY <1>1, NativeAssumption DEF Parametric
<1> QED
  BY <1>1, <1>2 DEF Shifted, Theta, Row, Bindable

\* One more pair of requests, and its term.
LEMMA AddPair ==
    ASSUME rows \in Seq(Row), terms \in Seq(Term), Len(rows) = 2 * Len(terms) + 1,
           NEW up \in Row, NEW down \in Row, NEW term \in Term,
           Add(up, down, term)
    PROVE  /\ rows' \in Seq(Row) /\ terms' \in Seq(Term)
           /\ Len(terms') = Len(terms) + 1 /\ Len(rows') = Len(rows) + 2
           /\ \A b \in 1 .. Len(rows) : rows'[b] = rows[b]
           /\ rows'[2 * Len(terms')] = up /\ rows'[2 * Len(terms') + 1] = down
           /\ \A t \in 1 .. Len(terms) : terms'[t] = terms[t]
           /\ terms'[Len(terms')] = term
<1>1. rows' = rows \o <<up, down>> /\ terms' = Append(terms, term)
  BY DEF Add
<1>2. <<up, down>> \in Seq(Row) /\ Len(<<up, down>>) = 2
  OBVIOUS
<1> QED
  BY <1>1, <1>2

-----------------------------------------------------------------------------
(* The batch: the scan *)

LEMMA InitBatch == Init => BatchInv
<1> SUFFICES ASSUME Init PROVE BatchInv
  OBVIOUS
<1>1. RequestInv
  <2>1. PICK n \in 0 .. MaxOps :
           ops \in [1 .. n -> {g \in Gates : \A i \in 1 .. Len(g.args) :
                                                g.args[i] <= params}]
    BY DEF Init
  <2>2. n \in Nat /\ n <= MaxOps
    BY NativeAssumption
  <2>3. ops \in Seq(Gates) /\ Len(ops) = n
    BY <2>1, <2>2
  <2> QED
    BY <2>1, <2>2, <2>3 DEF Init, RequestInv
<1>2. RowsInv
  BY <1>1 DEF Init, RowsInv, RequestInv
<1> QED
  BY <1>1, <1>2 DEF Init, BatchInv, ShiftInv, DifferenceInv, RequestInv, Built

\* From the check on nothing touches the batch.
LEMMA LaterSteps ==
    ASSUME Check \/ Allocate \/ AllocationFails \/ Stage \/ Submit \/ Finish
           \/ SubmissionThrows \/ Combine
    PROVE  /\ UNCHANGED <<request, batch>>
           /\ pc \in Built /\ pc' \in Built \cup {"refused"}
BY DEF Check, Allocate, AllocationFails, Stage, Submit, Finish, SubmissionThrows, Combine,
       Built, batch

\* What a request means depends on the ansatz alone.
LEMMA Frame ==
    ASSUME RequestInv, UNCHANGED request
    PROVE  /\ RequestInv' /\ ops' = ops /\ params' = params /\ method' = method
           /\ Row' = Row /\ Term' = Term /\ Plain' = Plain
           /\ \A k, s : Shifted(k, s)' = Shifted(k, s)
           /\ \A i, s : Bumped(i, s)' = Bumped(i, s)
           /\ \A r : Bindable(r)' <=> Bindable(r)
<1>1. ops' = ops /\ params' = params /\ method' = method /\ sized' = sized
      /\ observable' = observable
  BY DEF request
<1>2. Theta' = Theta
  BY <1>1 DEF Theta
<1> QED
  BY <1>1, <1>2
     DEF RequestInv, Row, Term, Plain, Moved, Shifted, Bumped, Bindable

LEMMA BatchKept ==
    ASSUME BatchInv, UNCHANGED <<request, batch>>,
           pc' = pc \/ (pc \in Built /\ pc' \in Built \cup {"refused"})
    PROVE  BatchInv'
<1> USE DEF BatchInv
<1>1. UNCHANGED <<rows, terms, scanned>> /\ UNCHANGED request
  BY DEF batch
<1>2. RowsInv'
  BY <1>1, Frame DEF RowsInv, Built
<1>3. ShiftInv'
  BY <1>1, Frame DEF ShiftInv, Built
<1>4. DifferenceInv'
  BY <1>1, Frame DEF DifferenceInv, Built
<1> QED
  BY <1>1, <1>2, <1>3, <1>4, Frame

LEMMA BuildBatchStep == ASSUME BatchInv, BuildBatch PROVE BatchInv'
<1> USE DEF BatchInv
<1>1. /\ pc = "build" /\ method # "none" /\ rows' = <<Plain>> /\ pc' = "scan"
      /\ UNCHANGED <<scanned, terms>> /\ UNCHANGED request
      /\ scanned = 0 /\ terms = <<>>
  BY DEF BuildBatch, RowsInv
<1>2. Plain \in Row /\ Bindable(Plain)
  BY PlainRow
<1>3. Len(rows') = 1 /\ rows' \in Seq(Row) /\ rows'[1] = Plain
  BY <1>1, <1>2
<1>4. RowsInv'
  BY <1>1, <1>2, <1>3, Frame DEF RowsInv, Built
<1>5. Len(ops) \in Nat /\ params \in Nat
  BY NativeAssumption DEF RequestInv
<1>6. ShiftInv' /\ DifferenceInv'
  BY <1>1, <1>5, Frame DEF ShiftInv, DifferenceInv, Built
<1> QED
  BY <1>1, <1>4, <1>6, Frame

LEMMA AskStep == ASSUME BatchInv, Ask PROVE BatchInv'
<1> USE DEF BatchInv
<1>1. /\ pc = "build" /\ method = "none" /\ pc' = "check"
      /\ UNCHANGED <<scanned, terms>> /\ UNCHANGED request
  BY DEF Ask
<1>2. rows' \in Seq(Row) /\ \A b \in 1 .. Len(rows') : Bindable(rows'[b])
  <2>1. CASE rows' \in {<<Plain>>, <<>>}
    <3> DEFINE plain == Plain
    <3>1. plain \in Row /\ Bindable(plain) /\ rows' \in {<<plain>>, <<>>}
      BY <2>1, PlainRow
    <3> HIDE DEF plain
    <3>2. CASE rows' = <<plain>>
      BY <3>1, <3>2
    <3>3. CASE rows' = <<>>
      BY <3>3
    <3> QED
      BY <3>1, <3>2, <3>3
  <2>2. ASSUME NEW delta \in [1 .. params -> {-1, 1}],
               rows' = <<Moved(delta), Moved([i \in 1 .. params |-> -delta[i]])>>
        PROVE  rows' \in Seq(Row) /\ \A b \in 1 .. Len(rows') : Bindable(rows'[b])
    <3> DEFINE back == [i \in 1 .. params |-> -delta[i]]
    <3>1. delta \in [1 .. params -> {-1, 0, 1}] /\ back \in [1 .. params -> {-1, 0, 1}]
      OBVIOUS
    <3>2. rows' = <<Moved(delta), Moved(back)>>
      BY <2>2
    <3> HIDE DEF back
    <3>3. /\ Moved(delta) \in Row /\ Bindable(Moved(delta))
          /\ Moved(back) \in Row /\ Bindable(Moved(back))
      BY <3>1, MovedRow
    <3> QED
      BY <3>2, <3>3
  <2> QED
    BY <2>1, <2>2 DEF Ask
<1>3. RowsInv'
  BY <1>1, <1>2, Frame DEF RowsInv, Built
<1> QED
  BY <1>1, <1>3, Frame DEF ShiftInv, DifferenceInv

LEMMA SkippedStep ==
    ASSUME BatchInv, ScanOperation, ~Parametric(ops[scanned + 1])
    PROVE  BatchInv'
<1> USE DEF BatchInv
<1>1. /\ pc = "scan" /\ pc' = "scan" /\ scanned' = scanned + 1
      /\ UNCHANGED <<rows, terms>> /\ UNCHANGED request
      /\ method = "shift" /\ scanned < Len(ops)
  BY DEF ScanOperation, Scan
<1>2. scanned \in Nat /\ Len(ops) \in Nat
  BY DEF RowsInv, RequestInv
<1>3. RowsInv'
  BY <1>1, <1>2, Frame DEF RowsInv, Built
<1>4. ShiftInv'
  <2>1. /\ ops' = ops /\ method' = "shift" /\ pc' \notin Built
        /\ \A k, s : Shifted(k, s)' = Shifted(k, s)
    BY <1>1, Frame DEF Built
  <2>2. scanned' \in Nat /\ scanned' <= Len(ops)
    BY <1>1, <1>2
  <2>3. 1 .. scanned' = (1 .. scanned) \cup {scanned + 1}
    BY <1>1, <1>2
  <2>4. \A k \in 1 .. scanned' :
          Parametric(ops[k]) =>
              /\ ops[k].kind = "shiftable"
              /\ \E t \in 1 .. Len(terms) : terms[t].weight = k
    BY <1>1, <2>3 DEF ShiftInv
  <2>5. \A t \in 1 .. Len(terms) :
           /\ terms[t].weight \in 1 .. scanned'
           /\ Parametric(ops[terms[t].weight])
           /\ ops[terms[t].weight].kind = "shiftable"
           /\ terms[t].param = ops[terms[t].weight].args[1]
           /\ rows[2 * t] = Shifted(terms[t].weight, 1)
           /\ rows[2 * t + 1] = Shifted(terms[t].weight, -1)
    BY <1>1, <2>3 DEF ShiftInv
  <2> QED
    BY <1>1, <2>1, <2>2, <2>4, <2>5 DEF ShiftInv
<1> QED
  BY <1>1, <1>3, <1>4, Frame DEF DifferenceInv

LEMMA ShiftedStep ==
    ASSUME BatchInv, ScanOperation, Parametric(ops[scanned + 1])
    PROVE  BatchInv'
<1> DEFINE k    == scanned + 1
           up   == Shifted(k, 1)
           down == Shifted(k, -1)
           term == [param |-> ops[k].args[1], weight |-> k]
           n    == Len(terms)
<1> USE DEF BatchInv
<1>1. /\ pc = "scan" /\ pc' = "scan" /\ scanned' = k
      /\ UNCHANGED request /\ method = "shift" /\ scanned < Len(ops)
      /\ ops[k].kind = "shiftable" /\ Add(up, down, term)
  BY DEF ScanOperation, Scan, Refusable
<1>2. scanned \in Nat /\ Len(ops) \in Nat /\ k \in 1 .. Len(ops)
  BY <1>1 DEF RowsInv, RequestInv
<1>3. ops[k] \in Gates /\ Len(ops[k].args) = 1 /\ ops[k].args[1] \in Nat
  BY <1>1, <1>2, NativeAssumption DEF RequestInv
<1>4. ops[k].args[1] \in 1 .. params
  BY <1>2, <1>3, NativeAssumption DEF Parametric, RequestInv
<1>5. term \in Term
  BY <1>2, <1>4 DEF Term
<1>6. up \in Row /\ Bindable(up) /\ down \in Row /\ Bindable(down)
  BY <1>2, ShiftedRow
<1>7. rows \in Seq(Row) /\ terms \in Seq(Term) /\ Len(rows) = 2 * Len(terms) + 1
  BY <1>1 DEF RowsInv
<1>8. term.weight = k /\ term.param = ops[k].args[1]
  OBVIOUS
<1> HIDE DEF up, down, term
<1>9. /\ rows' \in Seq(Row) /\ terms' \in Seq(Term)
      /\ Len(terms') = n + 1 /\ Len(rows') = Len(rows) + 2
      /\ \A b \in 1 .. Len(rows) : rows'[b] = rows[b]
      /\ rows'[2 * (n + 1)] = up /\ rows'[2 * (n + 1) + 1] = down
      /\ \A t \in 1 .. n : terms'[t] = terms[t]
      /\ terms'[n + 1] = term
  BY <1>1, <1>5, <1>6, <1>7, AddPair
<1>10. n \in Nat /\ Len(rows) = 2 * n + 1
  BY <1>7
<1> HIDE DEF n
<1>11. RowsInv'
  <2>1. \A b \in 1 .. Len(rows') : Bindable(rows'[b])
    <3> SUFFICES ASSUME NEW b \in 1 .. Len(rows') PROVE Bindable(rows'[b])
      OBVIOUS
    <3>1. b \in 1 .. Len(rows) \/ b = 2 * (n + 1) \/ b = 2 * (n + 1) + 1
      BY <1>9, <1>10
    <3> QED
      BY <3>1, <1>6, <1>9 DEF RowsInv
  <2> QED
    BY <1>1, <1>2, <1>9, <1>10, <2>1, Frame DEF RowsInv, Built
<1>12. ShiftInv'
  <2>1. \A t \in 1 .. n + 1 :
              /\ terms'[t].weight \in 1 .. k
              /\ Parametric(ops[terms'[t].weight])
              /\ ops[terms'[t].weight].kind = "shiftable"
              /\ terms'[t].param = ops[terms'[t].weight].args[1]
              /\ rows'[2 * t] = Shifted(terms'[t].weight, 1)
              /\ rows'[2 * t + 1] = Shifted(terms'[t].weight, -1)
    <3> SUFFICES ASSUME NEW t \in 1 .. n + 1
                 PROVE  /\ terms'[t].weight \in 1 .. k
                        /\ Parametric(ops[terms'[t].weight])
                        /\ ops[terms'[t].weight].kind = "shiftable"
                        /\ terms'[t].param = ops[terms'[t].weight].args[1]
                        /\ rows'[2 * t] = Shifted(terms'[t].weight, 1)
                        /\ rows'[2 * t + 1] = Shifted(terms'[t].weight, -1)
      OBVIOUS
    <3>1. CASE t = n + 1
      BY <3>1, <1>1, <1>2, <1>8, <1>9 DEF up, down
    <3>2. CASE t \in 1 .. n
      <4>1. 2 * t \in 1 .. Len(rows) /\ 2 * t + 1 \in 1 .. Len(rows)
        BY <3>2, <1>10
      <4>2. /\ terms[t].weight \in 1 .. scanned
            /\ Parametric(ops[terms[t].weight])
            /\ ops[terms[t].weight].kind = "shiftable"
            /\ terms[t].param = ops[terms[t].weight].args[1]
            /\ rows[2 * t] = Shifted(terms[t].weight, 1)
            /\ rows[2 * t + 1] = Shifted(terms[t].weight, -1)
        BY <3>2, <1>1 DEF ShiftInv, n
      <4>3. /\ terms'[t] = terms[t]
            /\ rows'[2 * t] = rows[2 * t] /\ rows'[2 * t + 1] = rows[2 * t + 1]
        BY <3>2, <4>1, <1>9
      <4> QED
        BY <4>2, <4>3, <1>2
    <3> QED
      BY <1>10, <3>1, <3>2
  <2>2. \A t, u \in 1 .. n + 1 : t < u => terms'[t].weight < terms'[u].weight
    <3> SUFFICES ASSUME NEW t \in 1 .. n + 1, NEW u \in 1 .. n + 1, t < u
                 PROVE  terms'[t].weight < terms'[u].weight
      OBVIOUS
    <3>1. t \in 1 .. n /\ terms'[t] = terms[t] /\ terms[t].weight \in 1 .. scanned
      BY <1>1, <1>9, <1>10 DEF ShiftInv, n
    <3>2. CASE u = n + 1
      BY <3>1, <3>2, <1>2, <1>8, <1>9
    <3>3. CASE u \in 1 .. n
      BY <3>1, <3>3, <1>1, <1>9 DEF ShiftInv, n
    <3> QED
      BY <1>10, <3>2, <3>3
  <2>3. \A l \in 1 .. k :
              Parametric(ops[l]) =>
                  /\ ops[l].kind = "shiftable"
                  /\ \E t \in 1 .. n + 1 : terms'[t].weight = l
    <3> SUFFICES ASSUME NEW l \in 1 .. k, Parametric(ops[l])
                 PROVE  /\ ops[l].kind = "shiftable"
                        /\ \E t \in 1 .. n + 1 : terms'[t].weight = l
      OBVIOUS
    <3>1. CASE l = k
      BY <3>1, <1>1, <1>8, <1>9, <1>10
    <3>2. CASE l \in 1 .. scanned
      BY <3>2, <1>1, <1>9, <1>10 DEF ShiftInv, n
    <3> QED
      BY <1>2, <3>1, <3>2
  <2> HIDE DEF k
  <2>4. scanned' = k /\ Len(terms') = n + 1 /\ k <= Len(ops) /\ pc' \notin Built
    BY <1>1, <1>2, <1>9 DEF Built
  <2>5. ops' = ops /\ \A l, s : Shifted(l, s)' = Shifted(l, s)
    BY <1>1, Frame
  <2> QED
    BY <2>1, <2>2, <2>3, <2>4, <2>5 DEF ShiftInv
<1> QED
  BY <1>1, <1>11, <1>12, Frame DEF DifferenceInv

LEMMA ParameterStep == ASSUME BatchInv, ScanParameter PROVE BatchInv'
<1> DEFINE i    == scanned + 1
           up   == Bumped(i, 1)
           down == Bumped(i, -1)
           term == [param |-> i, weight |-> 0]
           n    == Len(terms)
<1> USE DEF BatchInv
<1>1. /\ pc = "scan" /\ pc' = "scan" /\ scanned' = i
      /\ UNCHANGED request /\ method = "difference" /\ scanned < params
      /\ Add(up, down, term)
  BY DEF ScanParameter, Scan
<1>2. scanned \in Nat /\ Len(ops) \in Nat /\ params \in Nat /\ i \in 1 .. params
  BY <1>1, NativeAssumption DEF RowsInv, RequestInv
<1>3. term \in Term
  BY <1>2 DEF Term
<1>4. up \in Row /\ Bindable(up) /\ down \in Row /\ Bindable(down)
  BY <1>2, BumpedRow
<1>5. rows \in Seq(Row) /\ terms \in Seq(Term) /\ Len(rows) = 2 * Len(terms) + 1
  BY <1>1 DEF RowsInv
<1> HIDE DEF up, down, term
<1>6. /\ rows' \in Seq(Row) /\ terms' \in Seq(Term)
      /\ Len(terms') = n + 1 /\ Len(rows') = Len(rows) + 2
      /\ \A b \in 1 .. Len(rows) : rows'[b] = rows[b]
      /\ rows'[2 * (n + 1)] = up /\ rows'[2 * (n + 1) + 1] = down
      /\ \A t \in 1 .. n : terms'[t] = terms[t]
      /\ terms'[n + 1] = term
  BY <1>1, <1>3, <1>4, <1>5, AddPair
<1>7. n \in Nat /\ Len(rows) = 2 * n + 1 /\ n + 1 = i
  BY <1>1, <1>5 DEF DifferenceInv
<1> HIDE DEF n
<1>8. RowsInv'
  <2>1. \A b \in 1 .. Len(rows') : Bindable(rows'[b])
    <3> SUFFICES ASSUME NEW b \in 1 .. Len(rows') PROVE Bindable(rows'[b])
      OBVIOUS
    <3>1. b \in 1 .. Len(rows) \/ b = 2 * (n + 1) \/ b = 2 * (n + 1) + 1
      BY <1>6, <1>7
    <3> QED
      BY <3>1, <1>4, <1>6 DEF RowsInv
  <2> QED
    BY <1>1, <1>2, <1>6, <1>7, <2>1, Frame DEF RowsInv, Built
<1>9. DifferenceInv'
  <2>1. \A t \in 1 .. n + 1 :
              /\ terms'[t] = [param |-> t, weight |-> 0]
              /\ rows'[2 * t] = Bumped(t, 1) /\ rows'[2 * t + 1] = Bumped(t, -1)
    <3> SUFFICES ASSUME NEW t \in 1 .. n + 1
                 PROVE  /\ terms'[t] = [param |-> t, weight |-> 0]
                        /\ rows'[2 * t] = Bumped(t, 1)
                        /\ rows'[2 * t + 1] = Bumped(t, -1)
      OBVIOUS
    <3>1. CASE t = n + 1
      BY <3>1, <1>6, <1>7 DEF up, down, term
    <3>2. CASE t \in 1 .. n
      <4>1. 2 * t \in 1 .. Len(rows) /\ 2 * t + 1 \in 1 .. Len(rows)
        BY <3>2, <1>7
      <4>2. /\ terms[t] = [param |-> t, weight |-> 0]
            /\ rows[2 * t] = Bumped(t, 1) /\ rows[2 * t + 1] = Bumped(t, -1)
        BY <3>2, <1>1 DEF DifferenceInv, n
      <4>3. /\ terms'[t] = terms[t]
            /\ rows'[2 * t] = rows[2 * t] /\ rows'[2 * t + 1] = rows[2 * t + 1]
        BY <3>2, <4>1, <1>6
      <4> QED
        BY <4>2, <4>3
    <3> QED
      BY <1>7, <3>1, <3>2
  <2>2. scanned' = n + 1 /\ Len(terms') = n + 1 /\ n + 1 <= params /\ pc' \notin Built
    BY <1>1, <1>2, <1>6, <1>7 DEF Built
  <2>3. params' = params /\ \A l, s : Bumped(l, s)' = Bumped(l, s)
    BY <1>1, Frame
  <2> QED
    BY <2>1, <2>2, <2>3 DEF DifferenceInv
<1> QED
  BY <1>1, <1>8, <1>9, Frame DEF ShiftInv

LEMMA EndScanStep == ASSUME BatchInv, EndScan PROVE BatchInv'
<1> USE DEF BatchInv
<1>1. /\ pc = "scan" /\ pc' = "check" /\ UNCHANGED <<scanned, rows, terms>>
      /\ UNCHANGED request
      /\ scanned = IF method = "shift" THEN Len(ops) ELSE params
  BY DEF EndScan, batch
<1>2. RowsInv'
  BY <1>1, Frame DEF RowsInv, Built
<1>3. ShiftInv'
  BY <1>1, Frame DEF ShiftInv
<1>4. DifferenceInv'
  BY <1>1, Frame DEF DifferenceInv
<1> QED
  BY <1>1, <1>2, <1>3, <1>4, Frame

LEMMA BatchStep == BatchInv /\ [Next]_vars => BatchInv'
<1> SUFFICES ASSUME BatchInv, [Next]_vars PROVE BatchInv'
  OBVIOUS
<1>1. CASE BuildBatch
  BY <1>1, BuildBatchStep
<1>2. CASE ScanOperation
  BY <1>2, SkippedStep, ShiftedStep
<1>3. CASE ScanParameter
  BY <1>3, ParameterStep
<1>4. CASE EndScan
  BY <1>4, EndScanStep
<1>5. CASE Ask
  BY <1>5, AskStep
<1>6. CASE BuildRefused
  <2>1. /\ pc = "scan" /\ pc' = "refused" /\ UNCHANGED <<scanned, rows, terms>>
        /\ UNCHANGED request
    BY <1>6 DEF BuildRefused, batch
  <2>2. RowsInv'
    BY <2>1, Frame DEF BatchInv, RowsInv, Built
  <2>3. ShiftInv' /\ DifferenceInv'
    BY <2>1, Frame DEF BatchInv, ShiftInv, DifferenceInv, Built
  <2> QED
    BY <2>1, <2>2, <2>3, Frame DEF BatchInv
<1>7. CASE Check \/ Allocate \/ AllocationFails \/ Stage \/ Submit \/ Finish
           \/ SubmissionThrows \/ Combine
  BY <1>7, LaterSteps, BatchKept
<1>8. CASE Execute
  BY <1>8, BatchKept DEF Execute
<1>9. CASE UNCHANGED vars
  <2>1. UNCHANGED <<request, batch>> /\ pc' = pc
    BY <1>9 DEF vars, request, batch
  <2> QED
    BY <2>1, BatchKept
<1> QED
  BY <1>1, <1>2, <1>3, <1>4, <1>5, <1>6, <1>7, <1>8, <1>9 DEF Next

\* The batch built so far: what its requests and its terms are, and which of
\* them belong together.
THEOREM BatchIsBuilt == Spec => []BatchInv
BY InitBatch, BatchStep, PTL DEF Spec

-----------------------------------------------------------------------------
(* The program and the queue *)

LEMMA Joined ==
    ASSUME NEW s \in Seq(Commands), NEW t \in Seq(Commands)
    PROVE  /\ s \o t \in Seq(Commands) /\ Len(s \o t) = Len(s) + Len(t)
           /\ \A i \in 1 .. Len(s) : (s \o t)[i] = s[i]
           /\ \A i \in 1 .. Len(t) : (s \o t)[Len(s) + i] = t[i]
OBVIOUS

\* The commands by their places.
LEMMA ProgramIs ==
    ASSUME RequestInv
    PROVE  /\ Program \in Seq(Commands) /\ Len(Program) = Copies + Len(ops) + 4
           /\ Len(ops) \in Nat /\ First \in {0, 1} /\ (params # 0 <=> First = 1)
           /\ Copies \in {First + 2, First + 3}
           /\ ~Unused("masks") <=> Copies = First + 3
           /\ params # 0 => Program[1] = Command("theta")
           /\ Program[First + 1] = Command("shiftOp")
           /\ Program[First + 2] = Command("shift")
           /\ ~Unused("masks") => Program[First + 3] = Command("masks")
           /\ Program[Copies + 1] = Command("zero")
           /\ Program[Copies + 2] = Command("one")
           /\ \A k \in 1 .. Len(ops) :
                 Program[Copies + 2 + k] = [name |-> "gate", op |-> k]
           /\ Program[Copies + Len(ops) + 3] = Command("energy")
           /\ Program[Copies + Len(ops) + 4] = Command("out")
<1> DEFINE head   == IF Unused("theta") THEN <<>> ELSE <<Command("theta")>>
           pair   == <<Command("shiftOp"), Command("shift")>>
           mask   == IF Unused("masks") THEN <<>> ELSE <<Command("masks")>>
           starts == <<Command("zero"), Command("one")>>
           gates  == [k \in DOMAIN ops |-> [name |-> "gate", op |-> k]]
           tail   == <<Command("energy"), Command("out")>>
<1>1. Len(ops) \in Nat /\ DOMAIN ops = 1 .. Len(ops)
  BY DEF RequestInv
<1>2. \A name \in {"theta", "shiftOp", "shift", "masks", "zero", "one", "energy", "out"} :
        Command(name) \in Commands
  BY DEF Command, Commands
<1>3. /\ head \in Seq(Commands) /\ Len(head) = First
      /\ params # 0 => First = 1 /\ head[1] = Command("theta")
  BY <1>2 DEF First, Unused
<1>4. /\ pair \in Seq(Commands) /\ Len(pair) = 2
      /\ pair[1] = Command("shiftOp") /\ pair[2] = Command("shift")
  BY <1>2
<1>5. /\ gates \in Seq(Commands) /\ Len(gates) = Len(ops)
      /\ \A k \in 1 .. Len(ops) : gates[k] = [name |-> "gate", op |-> k]
  BY <1>1 DEF Commands
<1>6. /\ tail \in Seq(Commands) /\ Len(tail) = 2
      /\ tail[1] = Command("energy") /\ tail[2] = Command("out")
  BY <1>2
<1>7. /\ First \in {0, 1} /\ (params # 0 <=> First = 1)
      /\ Copies \in {First + 2, First + 3} /\ Copies \in Nat
      /\ ~Unused("masks") <=> Copies = First + 3
  BY DEF First, Copies, Unused
<1>8. /\ mask \in Seq(Commands) /\ Len(mask) = Copies - (First + 2)
      /\ ~Unused("masks") => mask[1] = Command("masks")
  BY <1>2, <1>7 DEF Copies
<1>9. /\ starts \in Seq(Commands) /\ Len(starts) = 2
      /\ starts[1] = Command("zero") /\ starts[2] = Command("one")
  BY <1>2
<1>10. Program = ((((head \o pair) \o mask) \o starts) \o gates) \o tail
  BY DEF Program
<1> HIDE DEF head, pair, mask, starts, gates, tail
<1> DEFINE two == head \o pair
           three == two \o mask
           four == three \o starts
           five == four \o gates
<1>11. /\ two \in Seq(Commands) /\ Len(two) = First + 2
       /\ \A i \in 1 .. First : two[i] = head[i]
       /\ \A i \in 1 .. 2 : two[First + i] = pair[i]
  <2>1. /\ head \o pair \in Seq(Commands) /\ Len(head \o pair) = Len(head) + Len(pair)
        /\ \A i \in 1 .. Len(head) : (head \o pair)[i] = head[i]
        /\ \A i \in 1 .. Len(pair) : (head \o pair)[Len(head) + i] = pair[i]
    BY <1>3, <1>4, Joined
  <2> QED
    BY <2>1, <1>3, <1>4, <1>7
<1> HIDE DEF two
<1>12. /\ three \in Seq(Commands) /\ Len(three) = Copies
       /\ \A i \in 1 .. First + 2 : three[i] = two[i]
       /\ ~Unused("masks") => three[First + 3] = Command("masks")
  <2>1. /\ two \o mask \in Seq(Commands) /\ Len(two \o mask) = Len(two) + Len(mask)
        /\ \A i \in 1 .. Len(two) : (two \o mask)[i] = two[i]
        /\ \A i \in 1 .. Len(mask) : (two \o mask)[Len(two) + i] = mask[i]
    BY <1>8, <1>11, Joined
  <2>2. ~Unused("masks") => /\ 1 \in 1 .. Len(mask)
                           /\ Len(two) + 1 = First + 3
    BY <1>7, <1>8, <1>11
  <2>3. /\ Len(two) + Len(mask) = Copies
        /\ 1 .. Len(two) = 1 .. First + 2
    BY <1>7, <1>8, <1>11
  <2>4. ~Unused("masks") => three[First + 3] = mask[1]
    BY <2>1, <2>2
  <2> QED
    BY <2>1, <2>3, <2>4, <1>8
<1> HIDE DEF three
<1>13. /\ four \in Seq(Commands) /\ Len(four) = Copies + 2
       /\ \A i \in 1 .. Copies : four[i] = three[i]
       /\ \A i \in 1 .. 2 : four[Copies + i] = starts[i]
  BY <1>7, <1>9, <1>12, Joined
<1> HIDE DEF four
<1>14. /\ five \in Seq(Commands) /\ Len(five) = Copies + 2 + Len(ops)
       /\ \A i \in 1 .. Copies + 2 : five[i] = four[i]
       /\ \A k \in 1 .. Len(ops) : five[Copies + 2 + k] = gates[k]
  BY <1>1, <1>5, <1>7, <1>13, Joined
<1>15. Program = five \o tail
  BY <1>10 DEF two, three, four
<1> HIDE DEF five
<1>16. /\ Program \in Seq(Commands) /\ Len(Program) = Copies + Len(ops) + 4
       /\ \A i \in 1 .. Copies + 2 + Len(ops) : Program[i] = five[i]
       /\ \A i \in 1 .. 2 : Program[Copies + 2 + Len(ops) + i] = tail[i]
  <2>1. /\ five \o tail \in Seq(Commands) /\ Len(five \o tail) = Len(five) + Len(tail)
        /\ \A i \in 1 .. Len(five) : (five \o tail)[i] = five[i]
        /\ \A i \in 1 .. Len(tail) : (five \o tail)[Len(five) + i] = tail[i]
    BY <1>6, <1>14, Joined
  <2>2. Len(five) = Copies + 2 + Len(ops) /\ Len(tail) = 2
    BY <1>6, <1>14
  <2>3. (Copies + 2 + Len(ops)) + 2 = Copies + Len(ops) + 4
    BY <1>1, <1>7
  <2> QED
    BY <2>1, <2>2, <2>3, <1>15
<1>17. \A i \in 1 .. Copies + 2 : Program[i] = four[i]
  BY <1>1, <1>7, <1>14, <1>16
<1>18. \A i \in 1 .. Copies : Program[i] = three[i]
  BY <1>7, <1>13, <1>17
<1>19. \A i \in 1 .. First + 2 : Program[i] = two[i]
  BY <1>7, <1>12, <1>18
<1>20. params # 0 => Program[1] = Command("theta")
  <2> SUFFICES ASSUME params # 0 PROVE Program[1] = Command("theta")
    OBVIOUS
  <2>1. First = 1 /\ head[1] = Command("theta")
    BY <1>3
  <2>2. Program[1] = two[1] /\ two[1] = head[1]
    BY <2>1, <1>11, <1>19
  <2> QED
    BY <2>1, <2>2
<1>21. /\ Program[First + 1] = Command("shiftOp")
       /\ Program[First + 2] = Command("shift")
  <2>1. /\ Program[First + 1] = two[First + 1] /\ two[First + 1] = pair[1]
        /\ Program[First + 2] = two[First + 2] /\ two[First + 2] = pair[2]
    BY <1>7, <1>11, <1>19
  <2> QED
    BY <1>4, <2>1
<1>22. ~Unused("masks") => Program[First + 3] = Command("masks")
  BY <1>7, <1>12, <1>18
<1>23. /\ Program[Copies + 1] = Command("zero")
       /\ Program[Copies + 2] = Command("one")
  <2>1. /\ Program[Copies + 1] = four[Copies + 1] /\ four[Copies + 1] = starts[1]
        /\ Program[Copies + 2] = four[Copies + 2] /\ four[Copies + 2] = starts[2]
    BY <1>7, <1>13, <1>17
  <2> QED
    BY <1>9, <2>1
<1>24. \A k \in 1 .. Len(ops) :
          Program[Copies + 2 + k] = [name |-> "gate", op |-> k]
  <2> SUFFICES ASSUME NEW k \in 1 .. Len(ops)
               PROVE  Program[Copies + 2 + k] = [name |-> "gate", op |-> k]
    OBVIOUS
  <2>1. Copies + 2 + k \in 1 .. Copies + 2 + Len(ops)
    BY <1>1, <1>7
  <2> QED
    BY <2>1, <1>5, <1>14, <1>16
<1>25. /\ Program[Copies + Len(ops) + 3] = Command("energy")
       /\ Program[Copies + Len(ops) + 4] = Command("out")
  <2>1. /\ Program[Copies + 2 + Len(ops) + 1] = tail[1]
        /\ Program[Copies + 2 + Len(ops) + 2] = tail[2]
    BY <1>16
  <2>2. /\ Copies + 2 + Len(ops) + 1 = Copies + Len(ops) + 3
        /\ Copies + 2 + Len(ops) + 2 = Copies + Len(ops) + 4
    BY <1>1, <1>7
  <2> QED
    BY <1>6, <2>1, <2>2
<1> QED
  BY <1>1, <1>7, <1>16, <1>20, <1>21, <1>22, <1>23, <1>24, <1>25, Zenon

LEMMA InitQueue == Init => QueueInv
<1> SUFFICES ASSUME Init PROVE QueueInv
  OBVIOUS
<1>1. RequestInv
  BY InitBatch DEF BatchInv
<1>2. Len(Program) \in Nat /\ Len(Program) > 0
  BY <1>1, ProgramIs
<1> QED
  BY <1>2 DEF Init, QueueInv, Done

\* One more command at the end of the queue, or one less at its front.
LEMMA Enqueued ==
    ASSUME NEW q \in Seq(Commands), NEW c \in Commands
    PROVE  /\ Append(q, c) \in Seq(Commands) /\ Len(Append(q, c)) = Len(q) + 1
           /\ \A i \in 1 .. Len(q) : Append(q, c)[i] = q[i]
           /\ Append(q, c)[Len(q) + 1] = c
OBVIOUS

LEMMA Dequeued ==
    ASSUME NEW q \in Seq(Commands), q # <<>>
    PROVE  /\ Tail(q) \in Seq(Commands) /\ Len(Tail(q)) = Len(q) - 1 /\ Len(q) > 0
           /\ \A i \in 1 .. Len(q) - 1 : Tail(q)[i] = q[i + 1]
           /\ Head(q) = q[1]
OBVIOUS

LEMMA QueueStep == BatchInv /\ MemoryInv /\ QueueInv /\ [Next]_vars => QueueInv'
<1> SUFFICES ASSUME BatchInv, MemoryInv, QueueInv, [Next]_vars PROVE QueueInv'
  OBVIOUS
<1>1. RequestInv /\ Len(Program) \in Nat /\ Program \in Seq(Commands)
  BY ProgramIs DEF BatchInv
<1>2. issued \in Nat /\ Len(queue) \in Nat
  BY <1>1 DEF QueueInv
<1>3. UNCHANGED request => Program' = Program
  BY DEF request, Program, Command, Unused
<1>4. ASSUME UNCHANGED <<request, issued, queue, out>>,
             \/ pc' = pc
             \/ /\ pc' \in {"check", "allocate", "stage", "scan", "build"}
                /\ pc \in {"build", "scan", "check", "allocate", "stage"}
             \/ pc' \in {"refused", "returned", "combined", "threw"}
             \/ pc = "stage" /\ pc' = "submit"
      PROVE  QueueInv'
  <2>1. Len(Program) > 0
    BY <1>1, ProgramIs
  <2> QED
    BY <1>1, <1>3, <1>4, <2>1 DEF QueueInv, Done
<1>5. CASE BuildBatch
  BY <1>5, <1>4 DEF BuildBatch, device
<1>6. CASE ScanOperation
  BY <1>6, <1>4 DEF ScanOperation, Scan, device
<1>7. CASE BuildRefused
  BY <1>7, <1>4 DEF BuildRefused, device
<1>8. CASE ScanParameter
  BY <1>8, <1>4 DEF ScanParameter, Scan, device
<1>9. CASE EndScan
  BY <1>9, <1>4 DEF EndScan, device
<1>10. CASE Ask
  BY <1>10, <1>4 DEF Ask, device
<1>11. CASE Check
  BY <1>11, <1>4 DEF Check, device
<1>12. CASE Allocate
  BY <1>12, <1>4 DEF Allocate
<1>13. CASE AllocationFails
  BY <1>13, <1>4 DEF AllocationFails, device
<1>14. CASE Stage
  BY <1>14, <1>4 DEF Stage, device
<1>15. CASE Finish
  BY <1>15, <1>4 DEF Finish, device
<1>16. CASE Combine
  BY <1>16, <1>4 DEF Combine, device
<1>17. CASE UNCHANGED vars
  BY <1>17, <1>4 DEF vars, request
<1>20. CASE SubmissionThrows
  BY <1>20, <1>4 DEF SubmissionThrows, device
<1>18. CASE Submit
  <2> DEFINE c == Program[issued + 1]
  <2>1. /\ pc = "submit" /\ issued < Len(Program) /\ queue' = Append(queue, c)
        /\ issued' = issued + 1 /\ out' = out /\ UNCHANGED request
        /\ pc' = IF issued' = Len(Program) THEN "wait" ELSE "submit"
    BY <1>18 DEF Submit, QueueInv
  <2>2. c \in Commands /\ queue \in Seq(Commands)
    BY <1>1, <1>2, <2>1 DEF QueueInv
  <2>3. Done' = Done
    BY <1>2, <2>1, <2>2, Enqueued DEF Done
  <2> DEFINE n == Len(queue)
  <2>4. /\ queue' \in Seq(Commands) /\ Len(queue') = n + 1
        /\ \A i \in 1 .. n : queue'[i] = queue[i]
        /\ queue'[n + 1] = c /\ Done + n = issued
    BY <1>2, <2>1, <2>2, Enqueued DEF Done
  <2>5. \A i \in 1 .. n + 1 : queue'[i] = Program[Done + i]
    <3> SUFFICES ASSUME NEW i \in 1 .. n + 1 PROVE queue'[i] = Program[Done + i]
      OBVIOUS
    <3>1. CASE i = n + 1
      BY <3>1, <2>4, <1>2 DEF Done
    <3>2. CASE i \in 1 .. n
      BY <3>2, <2>4 DEF QueueInv
    <3> QED
      BY <1>2, <3>1, <3>2
  <2> HIDE DEF n, c
  <2>6. n \in Nat /\ n <= issued
    BY DEF n, QueueInv
  <2> QED
    BY <1>1, <1>2, <1>3, <2>1, <2>3, <2>4, <2>5, <2>6 DEF QueueInv
<1>19. CASE Execute
  <2>1. /\ queue # <<>> /\ queue' = Tail(queue) /\ UNCHANGED <<issued, pc>>
        /\ UNCHANGED request
    BY <1>19 DEF Execute
  <2>2. queue \in Seq(Commands)
    BY DEF QueueInv
  <2> DEFINE n == Len(queue)
  <2>3. /\ queue' \in Seq(Commands) /\ Len(queue') = n - 1 /\ n > 0
        /\ \A i \in 1 .. n - 1 : queue'[i] = queue[i + 1]
    BY <2>1, <2>2, Dequeued
  <2>4. Done' = Done + 1 /\ Done \in Int
    BY <1>2, <2>1, <2>3 DEF Done
  <2>5. \A i \in 1 .. n - 1 : queue'[i] = Program[Done' + i]
    <3> SUFFICES ASSUME NEW i \in 1 .. n - 1 PROVE queue'[i] = Program[Done' + i]
      OBVIOUS
    <3>1. i + 1 \in 1 .. n /\ Done' + i = Done + (i + 1)
      BY <1>2, <2>4
    <3> QED
      BY <3>1, <2>3 DEF QueueInv
  <2>6. pc \in Running \cup Threw
    BY <2>1 DEF MemoryInv
  <2> HIDE DEF n
  <2>7. n <= issued /\ n \in Nat
    BY DEF n, QueueInv
  <2> QED
    BY <1>1, <1>2, <1>3, <2>1, <2>3, <2>4, <2>5, <2>6, <2>7
       DEF QueueInv, Running, Threw
<1> QED
  BY <1>5, <1>6, <1>7, <1>8, <1>9, <1>10, <1>11, <1>12, <1>13, <1>14, <1>15,
     <1>16, <1>17, <1>18, <1>19, <1>20 DEF Next

-----------------------------------------------------------------------------
(* What the device computes *)

\* A kernel works out the angles bind() would, once it has what it reads.
LEMMA KernelIs ==
    ASSUME RequestInv, NEW r, NEW k \in 1 .. Len(ops),
           params # 0 => "theta" \in loaded, {"shiftOp", "shift"} \subseteq loaded
    PROVE  Kernel(r, k) = Bound(r)[k]
<1>1. ops[k] \in Gates /\ DOMAIN ops = 1 .. Len(ops)
  BY DEF RequestInv
<1>2. ops[k].args \in Seq(Nat)
  BY <1>1, NativeAssumption
<1>3. \A j \in DOMAIN ops[k].args : DeviceAngle(r, k, j) = Angle(r, k, j)
  <2> SUFFICES ASSUME NEW j \in DOMAIN ops[k].args
               PROVE  DeviceAngle(r, k, j) = Angle(r, k, j)
    OBVIOUS
  <2>1. j \in 1 .. Len(ops[k].args) /\ ops[k].args[j] \in Nat
    BY <1>2
  <2>2. ops[k].args[j] <= params /\ params \in Nat
    BY <2>1, NativeAssumption DEF RequestInv
  <2>3. ops[k].args[j] = 0 \/ "theta" \in loaded
    BY <2>1, <2>2
  <2> QED
    BY <2>3 DEF DeviceAngle, Angle
<1> QED
  BY <1>1, <1>3 DEF Kernel, Bound

\* One gate more.
LEMMA AppendPrefix ==
    ASSUME NEW r, NEW n \in Nat
    PROVE  Append(Prefix(r, n), Bound(r)[n + 1]) = Prefix(r, n + 1)
<1> DEFINE S == {Bound(r)[k] : k \in 1 .. n + 1}
<1>1. /\ Prefix(r, n) \in Seq(S) /\ Len(Prefix(r, n)) = n
      /\ \A k \in 1 .. n : Prefix(r, n)[k] = Bound(r)[k]
  BY DEF Prefix
<1>2. /\ Prefix(r, n + 1) \in Seq(S) /\ Len(Prefix(r, n + 1)) = n + 1
      /\ \A k \in 1 .. n + 1 : Prefix(r, n + 1)[k] = Bound(r)[k]
  BY DEF Prefix
<1>3. Bound(r)[n + 1] \in S
  OBVIOUS
<1> DEFINE p == Prefix(r, n)
           q == Prefix(r, n + 1)
           x == Bound(r)[n + 1]
<1>4. \A k \in 1 .. n : p[k] = q[k]
  <2> SUFFICES ASSUME NEW k \in 1 .. n PROVE p[k] = q[k]
    OBVIOUS
  <2>1. k \in 1 .. n + 1
    OBVIOUS
  <2> QED
    BY <2>1, <1>1, <1>2
<1>5. q[n + 1] = x
  BY <1>2
<1> HIDE DEF p, q, x, S
<1> QED
  BY <1>1, <1>2, <1>3, <1>4, <1>5 DEF p, q, x

\* All the gates, and none.
LEMMA WholePrefix ==
    ASSUME RequestInv, NEW r
    PROVE  Prefix(r, Len(ops)) = Bound(r) /\ Prefix(r, 0) = <<>>
<1>1. Len(ops) \in Nat /\ DOMAIN ops = 1 .. Len(ops)
  BY DEF RequestInv
<1>2. Prefix(r, Len(ops)) = Bound(r)
  BY <1>1 DEF Prefix, Bound
<1>3. Prefix(r, 0) = <<>>
  BY DEF Prefix
<1> QED
  BY <1>2, <1>3

\* The staging buffers are alive while the copies run.
LEMMA CopyDoes ==
    ASSUME MemoryInv, pc \in Running,
           NEW name \in {"theta", "shiftOp", "shift", "masks"}, Run(Command(name))
    PROVE  loaded' = loaded \cup {name} /\ UNCHANGED <<path, energy, out>>
BY DEF MemoryInv, Run, Command, Copy, Source

\* One command of the program carries the device on by one.
LEMMA CommandDoes ==
    ASSUME RequestInv, MemoryInv, pc \in Running, rows \in Seq(Row),
           NEW d \in Nat, d < Len(Program), Run(Program[d + 1]),
           Leaves(d, loaded, path, energy, out)
    PROVE  Leaves(d + 1, loaded', path', energy', out')
<1> DEFINE L == Len(ops)
           B == Len(rows)
<1>1. /\ L \in Nat /\ First \in {0, 1} /\ d < Copies + L + 4
      /\ (params # 0 <=> First = 1) /\ B \in Nat /\ DOMAIN rows = 1 .. B
      /\ Copies \in {First + 2, First + 3} /\ Copies \in Nat
      /\ ~Unused("masks") <=> Copies = First + 3
  <2>1. /\ L \in Nat /\ First \in {0, 1} /\ (params # 0 <=> First = 1)
        /\ Copies \in {First + 2, First + 3}
        /\ ~Unused("masks") <=> Copies = First + 3
        /\ Len(Program) = Copies + L + 4
    BY ProgramIs, Zenon
  <2>2. B \in Nat /\ DOMAIN rows = 1 .. B
    OBVIOUS
  <2> QED
    BY <2>1, <2>2
<1>2. CASE d + 1 <= First
  <2>3. d = 0 /\ First = 1 /\ d + 1 = 1 /\ params # 0
    BY <1>1, <1>2
  <2>1. d = 0 /\ First = 1 /\ Program[d + 1] = Command("theta")
    BY <2>3, ProgramIs, Zenon
  <2>2. loaded' = loaded \cup {"theta"} /\ UNCHANGED <<path, energy, out>>
    BY <2>1, CopyDoes
  <2> QED
    BY <1>1, <2>1, <2>2 DEF Leaves
<1>3. CASE d + 1 = First + 1
  <2>1. loaded' = loaded \cup {"shiftOp"} /\ UNCHANGED <<path, energy, out>>
    BY <1>3, CopyDoes, ProgramIs
  <2> QED
    BY <1>1, <1>3, <2>1 DEF Leaves
<1>4. CASE d + 1 = First + 2
  <2>1. loaded' = loaded \cup {"shift"} /\ UNCHANGED <<path, energy, out>>
    BY <1>4, CopyDoes, ProgramIs
  <2> QED
    BY <1>1, <1>4, <2>1 DEF Leaves
<1>5. CASE d + 1 = First + 3 /\ ~Unused("masks")
  <2>1. loaded' = loaded \cup {"masks"} /\ UNCHANGED <<path, energy, out>>
    BY <1>5, CopyDoes, ProgramIs
  <2> QED
    BY <1>1, <1>5, <2>1 DEF Leaves
<1>6. CASE d + 1 = Copies + 1
  <2>1. Run(Command("zero"))
    BY <1>6, ProgramIs
  <2>2. /\ path' = [b \in 1 .. B |-> <<>>] /\ loaded' = loaded \ {"one"}
        /\ UNCHANGED <<energy, out>>
    BY <1>1, <2>1 DEF Run, Command, Copy, Zero
  <2>3. Applied(d + 1) = 0
    BY <1>1, <1>6 DEF Applied
  <2>4. path' = [b \in 1 .. B |-> Prefix(rows[b], Applied(d + 1))]
    BY <2>2, <2>3, WholePrefix
  <2> QED
    BY <1>1, <1>6, <2>2, <2>4 DEF Leaves
<1>7. CASE d + 1 = Copies + 2
  <2>1. Run(Command("one"))
    BY <1>7, ProgramIs
  <2>2. loaded' = loaded \cup {"one"} /\ UNCHANGED <<path, energy, out>>
    BY <2>1 DEF Run, Command, Copy, One
  <2>3. Applied(d + 1) = Applied(d)
    BY <1>1, <1>7 DEF Applied
  <2> QED
    BY <1>1, <1>7, <2>2, <2>3 DEF Leaves
<1>8. CASE d + 1 \in Copies + 3 .. Copies + 2 + L
  <2> DEFINE k == d + 1 - (Copies + 2)
  <2>1. k \in 1 .. L /\ d + 1 = Copies + 2 + k
    BY <1>1, <1>8
  <2>2. Program[d + 1] = [name |-> "gate", op |-> k]
    BY <2>1, ProgramIs
  <2>3. Applied(d) = k - 1 /\ Applied(d + 1) = k
    BY <1>1, <2>1 DEF Applied
  <2> HIDE DEF k
  <2>8. ApplyGate(k)
    BY <2>2 DEF Run, Copy
  <2>4. /\ path' = [b \in 1 .. B |-> Append(path[b], Kernel(rows[b], k))]
        /\ UNCHANGED <<loaded, energy, out>>
    BY <1>1, <2>8 DEF ApplyGate
  <2>5. /\ path = [b \in 1 .. B |-> Prefix(rows[b], k - 1)]
        /\ params # 0 => "theta" \in loaded
        /\ {"shiftOp", "shift"} \subseteq loaded
    BY <1>1, <2>1, <2>3 DEF Leaves
  <2>6. \A b \in 1 .. B :
           Append(path[b], Kernel(rows[b], k)) = Prefix(rows[b], k)
    <3> SUFFICES ASSUME NEW b \in 1 .. B
                 PROVE  Append(path[b], Kernel(rows[b], k)) = Prefix(rows[b], k)
      OBVIOUS
    <3>1. path[b] = Prefix(rows[b], k - 1)
      BY <2>5
    <3>2. Kernel(rows[b], k) = Bound(rows[b])[k]
      BY <2>1, <2>5, KernelIs
    <3>3. k - 1 \in Nat /\ (k - 1) + 1 = k
      BY <1>1, <2>1
    <3> QED
      BY <3>1, <3>2, <3>3, AppendPrefix
  <2>7. path' = [b \in 1 .. B |-> Prefix(rows[b], Applied(d + 1))]
    BY <2>3, <2>4, <2>6
  <2> QED
    BY <1>1, <2>1, <2>4, <2>7, SMTT(20) DEF Leaves
<1>9. CASE d + 1 = Copies + L + 3
  <2>1. Run(Command("energy"))
    BY <1>9, ProgramIs
  <2>2. /\ Applied(d) = L /\ Applied(d + 1) = L
    BY <1>1, <1>9 DEF Applied
  <2>3. /\ path = [b \in 1 .. B |-> Prefix(rows[b], L)]
        /\ "one" \in loaded /\ (~Unused("masks") => "masks" \in loaded)
    BY <1>1, <1>9, <2>2 DEF Leaves
  <2>6. {"one"} \cup ({"masks"} \cap Wanted) \subseteq loaded
    BY <2>3 DEF Wanted
  <2>4. energy' = [b \in 1 .. B |-> path[b]] /\ UNCHANGED <<loaded, path, out>>
    BY <1>1, <2>1, <2>6 DEF Run, Command, Copy, Energies
  <2>5. energy' = Results
    BY <2>3, <2>4, WholePrefix DEF Results
  <2> QED
    BY <1>1, <1>9, <2>2, <2>4, <2>5 DEF Leaves
<1>10. CASE d + 1 = Copies + L + 4
  <2>1. Run(Command("out"))
    BY <1>10, ProgramIs
  <2>2. out' = energy /\ UNCHANGED <<loaded, path, energy>>
    BY <2>1 DEF Run, Command, Copy, CopyOut
  <2>3. Applied(d + 1) = Applied(d)
    BY <1>1, <1>10 DEF Applied
  <2> QED
    BY <1>1, <1>10, <2>2, <2>3 DEF Leaves
<1> QED
  BY <1>1, <1>2, <1>3, <1>4, <1>5, <1>6, <1>7, <1>8, <1>9, <1>10

\* The definitions of this part depend on the ansatz and the rows alone.
LEMMA LeavesKept ==
    ASSUME UNCHANGED <<request, rows>>, NEW d,
           Leaves(d, loaded', path', energy', out')
    PROVE  Leaves(d, loaded, path, energy, out)' /\ Results' = Results
<1>1. /\ ops' = ops /\ params' = params /\ rows' = rows
      /\ observable' = observable
  BY DEF request
<1>2. /\ First' = First /\ Copies' = Copies
      /\ Unused("masks")' <=> Unused("masks")
  BY <1>1 DEF First, Copies, Unused
<1>3. \A r : Bound(r)' = Bound(r)
  BY <1>1 DEF Bound, Angle
<1>4. Results' = Results
  BY <1>1, <1>3 DEF Results
<1>5. Applied(d)' = Applied(d)
  BY <1>1, <1>2 DEF Applied
<1>6. \A r, n : Prefix(r, n)' = Prefix(r, n)
  BY <1>1, <1>3 DEF Prefix
<1>7. [b \in 1 .. Len(rows) |-> Prefix(rows[b], Applied(d))]'
        = [b \in 1 .. Len(rows) |-> Prefix(rows[b], Applied(d))]
  BY <1>1, <1>5, <1>6
<1> QED
  BY <1>1, <1>2, <1>4, <1>7 DEF Leaves

LEMMA DeviceStep ==
    BatchInv /\ MemoryInv /\ QueueInv /\ DeviceInv /\ [Next]_vars => DeviceInv'
<1> SUFFICES ASSUME BatchInv, MemoryInv, QueueInv, DeviceInv, [Next]_vars
             PROVE  DeviceInv'
  OBVIOUS
<1>1. /\ RequestInv /\ rows \in Seq(Row) /\ Len(Program) \in Nat
      /\ Len(Program) = Copies + Len(ops) + 4 /\ Len(ops) \in Nat /\ First \in {0, 1}
      /\ Copies \in {First + 2, First + 3} /\ Copies \in Nat
  BY ProgramIs DEF BatchInv, RowsInv
<1>2. CASE BuildBatch \/ ScanOperation \/ BuildRefused \/ ScanParameter \/ EndScan
           \/ Ask \/ Allocate \/ AllocationFails \/ SubmissionThrows
  BY <1>2 DEF BuildBatch, ScanOperation, BuildRefused, ScanParameter, EndScan, Ask,
              Allocate, AllocationFails, SubmissionThrows, Scan, DeviceInv, Running
<1>3. CASE Check
  <2>1. /\ out' = out /\ out = <<>> /\ rows' = rows /\ pc' \notin Running
        /\ pc' = "returned" => rows = <<>> /\ pc' # "combined"
    BY <1>3 DEF Check, QueueInv, Running, device, batch
  <2>2. rows = <<>> => Results' = <<>>
    BY <2>1 DEF Results
  <2> QED
    BY <2>1, <2>2, <1>3 DEF DeviceInv, Check
<1>4. CASE Stage
  <2>1. /\ issued = 0 /\ out = <<>> /\ queue = <<>> /\ Done = 0
    BY <1>4 DEF Stage, QueueInv, MemoryInv, Running, Done
  <2>2. /\ UNCHANGED <<request, rows, issued, queue, loaded, path, energy, out>>
        /\ pc' = "submit"
    BY <1>4 DEF Stage, batch, device
  <2>3. Done' = 0
    BY <2>1, <2>2 DEF Done
  <2>4. Leaves(0, loaded', path', energy', out')
    BY <1>1, <2>1, <2>2 DEF Leaves
  <2> QED
    BY <2>2, <2>3, <2>4, LeavesKept DEF DeviceInv
<1>5. CASE Submit
  <2>1. /\ UNCHANGED <<request, rows, loaded, path, energy, out>>
        /\ pc = "submit" /\ pc' \in Running
        /\ issued' = issued + 1 /\ queue' = Append(queue, Program[issued + 1])
    BY <1>5 DEF Submit, batch, Running
  <2>2. issued \in Nat /\ queue \in Seq(Commands) /\ Len(queue') = Len(queue) + 1
    BY <1>1, <2>1 DEF QueueInv
  <2>3. Done' = Done
    BY <2>1, <2>2 DEF Done
  <2>4. Leaves(Done, loaded', path', energy', out')
    BY <2>1 DEF DeviceInv, Running
  <2> QED
    BY <2>1, <2>3, <2>4, LeavesKept DEF DeviceInv, Running
<1>6. CASE Finish
  <2>1. /\ UNCHANGED <<request, rows, loaded, path, energy, out>>
        /\ pc = "wait" /\ queue = <<>> /\ pc' = "returned"
    BY <1>6 DEF Finish, batch, device
  <2>2. Done = Copies + Len(ops) + 4
    BY <1>1, <2>1 DEF QueueInv, Done
  <2>3. Leaves(Done, loaded', path', energy', out')
    BY <2>1 DEF DeviceInv, Running
  <2>4. out' = Results
    BY <1>1, <2>2, <2>3 DEF Leaves
  <2> QED
    BY <2>1, <2>3, <2>4, LeavesKept DEF DeviceInv, Running
<1>7. CASE Execute
  <2>1. /\ queue # <<>> /\ Run(Head(queue)) /\ queue' = Tail(queue)
        /\ UNCHANGED <<request, rows, pc, issued>>
    BY <1>7 DEF Execute, batch
  <2>0. CASE pc \in Threw
    BY <2>0, <2>1 DEF DeviceInv, Running, Threw
  <2>2. pc \in Running \cup Threw /\ queue \in Seq(Commands) /\ issued \in Nat
        /\ issued <= Len(Program)
    BY <1>1, <2>1 DEF MemoryInv, QueueInv
  <2> SUFFICES ASSUME pc \in Running PROVE DeviceInv'
    BY <2>0, <2>2
  <2>3. /\ Len(queue') = Len(queue) - 1 /\ Len(queue) > 0 /\ Len(queue) \in Nat
        /\ Head(queue) = queue[1]
    BY <2>1, <2>2, Dequeued
  <2>4. Done \in Nat /\ Done < Len(Program) /\ Done' = Done + 1
    BY <1>1, <2>1, <2>2, <2>3 DEF Done, QueueInv
  <2>5. Head(queue) = Program[Done + 1]
    BY <2>3 DEF QueueInv
  <2>6. Leaves(Done, loaded, path, energy, out)
    BY <2>2 DEF DeviceInv
  <2>7. Leaves(Done + 1, loaded', path', energy', out')
    BY <1>1, <2>1, <2>2, <2>4, <2>5, <2>6, CommandDoes
  <2> QED
    BY <2>1, <2>2, <2>4, <2>7, LeavesKept DEF DeviceInv, Running
<1>8. CASE Combine
  <2>1. /\ UNCHANGED <<request, rows, out>> /\ pc = "returned" /\ pc' = "combined"
    BY <1>8 DEF Combine, batch, device
  <2>2. Results' = Results
    BY <2>1 DEF request, Results, Bound, Angle
  <2> QED
    BY <2>1, <2>2 DEF DeviceInv, Running
<1>9. CASE UNCHANGED vars
  <2>1. UNCHANGED <<request, rows, pc, issued, queue, loaded, path, energy, out>>
    BY <1>9 DEF vars, request
  <2>2. Results' = Results
    BY <2>1 DEF request, Results, Bound, Angle
  <2>3. Done' = Done
    BY <2>1 DEF Done
  <2>4. CASE pc \in Running
    BY <2>1, <2>3, <2>4, LeavesKept DEF DeviceInv, Running
  <2> QED
    BY <2>1, <2>2, <2>4 DEF DeviceInv
<1> QED
  BY <1>2, <1>3, <1>4, <1>5, <1>6, <1>7, <1>8, <1>9 DEF Next

NativeInv == BatchInv /\ MemoryInv /\ QueueInv /\ DeviceInv

\* What is queued is the rest of the program, and what the device holds is what
\* the commands before it leave, however far the host is ahead.
THEOREM DeviceFollowsProgram == Spec => []NativeInv
<1>1. Init => NativeInv
  BY InitBatch, InitMemory, InitQueue DEF NativeInv, Init, DeviceInv, Running
<1>2. NativeInv /\ [Next]_vars => NativeInv'
  BY BatchStep, MemoryStep, QueueStep, DeviceStep DEF NativeInv
<1> QED
  BY <1>1, <1>2, PTL DEF Spec

\* The energies returned are those of the circuits bind() makes for the requests,
\* and bind() accepts every one of the requests.
THEOREM EnergiesAreBound == Spec => []AgreesWithBind
<1>1. NativeInv => AgreesWithBind
  <2> SUFFICES ASSUME NativeInv, pc = "returned", NEW b \in DOMAIN out
               PROVE  Bindable(rows[b]) /\ out[b] = Bound(rows[b])
    BY DEF AgreesWithBind
  <2>1. out = Results
    BY DEF NativeInv, DeviceInv
  <2>2. b \in 1 .. Len(rows) /\ out[b] = Bound(rows[b])
    BY <2>1 DEF Results
  <2> QED
    BY <2>2 DEF NativeInv, BatchInv, RowsInv
<1> QED
  BY <1>1, DeviceFollowsProgram, PTL

-----------------------------------------------------------------------------
(* The gradient *)

\* The energies of term t are at 2t and 2t + 1, behind the plain one.
LEMMA TermEnergies ==
    ASSUME NativeInv, pc = "returned", method # "none", NEW t \in 1 .. Len(terms)
    PROVE  out[2 * t] = Bound(rows[2 * t]) /\ out[2 * t + 1] = Bound(rows[2 * t + 1])
<1>1. Len(rows) = 2 * Len(terms) + 1 /\ Len(terms) \in Nat
  BY DEF NativeInv, BatchInv, RowsInv
<1>2. 2 * t \in 1 .. Len(rows) /\ 2 * t + 1 \in 1 .. Len(rows)
  BY <1>1
<1>3. out = [b \in 1 .. Len(rows) |-> Bound(rows[b])]
  BY DEF NativeInv, DeviceInv, Results
<1> QED
  BY <1>2, <1>3

\* The entry of parameter i as its terms make it.
Entry(i) ==
    {[weight |-> terms[t].weight, plus |-> out[2 * t], minus |-> out[2 * t + 1]] :
       t \in {u \in DOMAIN terms : terms[u].param = i}}

LEMMA DifferenceEntry ==
    ASSUME NativeInv, pc = "returned", method = "difference", NEW i \in 1 .. params
    PROVE  Entry(i) = {[weight |-> 0, plus |-> Bound(Bumped(i, 1)),
                        minus |-> Bound(Bumped(i, -1))]}
<1>1. DifferenceInv /\ pc \in Built /\ terms \in Seq(Term)
  BY DEF NativeInv, BatchInv, RowsInv, Built
<1>2. Len(terms) = params /\ DOMAIN terms = 1 .. params
  BY <1>1 DEF DifferenceInv
<1>3. \A t \in 1 .. params : terms[t] = [param |-> t, weight |-> 0]
  BY <1>1, <1>2 DEF DifferenceInv
<1>4. {u \in DOMAIN terms : terms[u].param = i} = {i}
  BY <1>2, <1>3
<1>5. out[2 * i] = Bound(Bumped(i, 1)) /\ out[2 * i + 1] = Bound(Bumped(i, -1))
  BY <1>1, <1>2, TermEnergies DEF DifferenceInv
<1>6. terms[i].weight = 0
  <2>1. terms[i] = [param |-> i, weight |-> 0]
    BY <1>3
  <2> QED
    BY <2>1
<1> QED
  BY <1>4, <1>5, <1>6 DEF Entry

LEMMA ShiftEntry ==
    ASSUME NativeInv, pc = "returned", method = "shift", NEW i \in 1 .. params
    PROVE  Entry(i) = {[weight |-> k, plus |-> Bound(Shifted(k, 1)),
                        minus |-> Bound(Shifted(k, -1))] :
                       k \in {l \in DOMAIN ops : ops[l].args = <<i>>}}
<1> DEFINE E(k) == [weight |-> k, plus |-> Bound(Shifted(k, 1)),
                    minus |-> Bound(Shifted(k, -1))]
           K == {l \in DOMAIN ops : ops[l].args = <<i>>}
           T == {u \in DOMAIN terms : terms[u].param = i}
<1>1. /\ ShiftInv /\ pc \in Built /\ terms \in Seq(Term)
      /\ ops \in Seq(Gates) /\ DOMAIN ops = 1 .. Len(ops) /\ i \in Nat /\ i # 0
  BY NativeAssumption DEF NativeInv, BatchInv, RowsInv, RequestInv, Built
<1>2. \A t \in T : /\ terms[t].weight \in K
                   /\ out[2 * t] = Bound(Shifted(terms[t].weight, 1))
                   /\ out[2 * t + 1] = Bound(Shifted(terms[t].weight, -1))
  <2> SUFFICES ASSUME NEW t \in 1 .. Len(terms), terms[t].param = i
               PROVE  /\ terms[t].weight \in K
                      /\ out[2 * t] = Bound(Shifted(terms[t].weight, 1))
                      /\ out[2 * t + 1] = Bound(Shifted(terms[t].weight, -1))
    BY <1>1
  <2> DEFINE k == terms[t].weight
  <2>1. /\ k \in 1 .. Len(ops) /\ ops[k].kind = "shiftable" /\ ops[k].args[1] = i
        /\ rows[2 * t] = Shifted(k, 1) /\ rows[2 * t + 1] = Shifted(k, -1)
    BY <1>1 DEF ShiftInv
  <2>2. ops[k] \in Gates
    BY <1>1, <2>1
  <2>3. ops[k].args \in Seq(Nat) /\ Len(ops[k].args) = 1
    BY <2>1, <2>2, NativeAssumption
  <2> DEFINE a == ops[k].args
  <2>5. a \in Seq(Nat) /\ Len(a) = 1 /\ a[1] = i
    BY <2>1, <2>3
  <2> HIDE DEF a
  <2>6. a = <<i>>
    BY <2>5
  <2>4. ops[k].args = <<i>>
    BY <2>6 DEF a
  <2> QED
    BY <1>1, <2>1, <2>4, TermEnergies
<1>3. \A k \in K : \E t \in T : terms[t].weight = k
  <2> SUFFICES ASSUME NEW k \in 1 .. Len(ops), ops[k].args = <<i>>
               PROVE  \E t \in T : terms[t].weight = k
    BY <1>1
  <2>1. Parametric(ops[k])
    BY <1>1 DEF Parametric
  <2>2. PICK t \in 1 .. Len(terms) : terms[t].weight = k
    BY <1>1, <2>1 DEF ShiftInv
  <2>3. terms[t].param = ops[k].args[1]
    BY <1>1, <2>2 DEF ShiftInv
  <2> QED
    BY <1>1, <2>2, <2>3
<1>4. Entry(i) = {E(terms[t].weight) : t \in T}
  BY <1>2 DEF Entry
<1> HIDE DEF E, K, T
<1>5. {E(terms[t].weight) : t \in T} = {E(k) : k \in K}
  BY <1>2, <1>3
<1> QED
  BY <1>4, <1>5 DEF E, K

\* No term is there twice.
LEMMA TermsDiffer ==
    ASSUME NativeInv, method # "none", NEW t \in DOMAIN terms, NEW u \in DOMAIN terms,
           terms[t] = terms[u]
    PROVE  t = u
<1>1. terms \in Seq(Term) /\ ShiftInv /\ DifferenceInv
      /\ method \in {"shift", "difference"}
  BY DEF NativeInv, BatchInv, RowsInv, RequestInv
<1>2. t \in 1 .. Len(terms) /\ u \in 1 .. Len(terms)
  BY <1>1
<1>3. CASE method = "difference"
  <2>1. /\ terms[t] = [param |-> t, weight |-> 0]
        /\ terms[u] = [param |-> u, weight |-> 0]
    BY <1>1, <1>2, <1>3 DEF DifferenceInv
  <2>2. [param |-> t, weight |-> 0].param = [param |-> u, weight |-> 0].param
    BY <2>1
  <2> QED
    BY <2>2
<1>4. CASE method = "shift"
  <2>1. terms[t].weight \in Int /\ terms[u].weight \in Int
    BY <1>1, <1>2, <1>4 DEF ShiftInv
  <2>2. ~(t < u) /\ ~(u < t)
    BY <1>1, <1>2, <1>4, <2>1 DEF ShiftInv
  <2> QED
    BY <1>2, <2>2
<1> QED
  BY <1>1, <1>3, <1>4

LEMMA CombineIsExact == ASSUME NativeInv, Combine PROVE GradientIsExact'
<1>1. /\ pc = "returned" /\ method # "none" /\ UNCHANGED <<terms>> /\ UNCHANGED request
      /\ grad' = [i \in 1 .. params |-> Entry(i)]
  BY DEF Combine, Entry, batch
<1>2. method \in {"shift", "difference"} /\ RequestInv
  BY <1>1 DEF NativeInv, BatchInv, RequestInv
<1>3. /\ ops' = ops /\ params' = params /\ method' = method
      /\ \A k, s : Shifted(k, s)' = Shifted(k, s)
      /\ \A k, s : Bumped(k, s)' = Bumped(k, s)
  BY <1>1, <1>2, Frame
<1>4. \A r : Bound(r)' = Bound(r)
  BY <1>3 DEF Bound, Angle
<1>5. \A t, u \in DOMAIN terms : terms[t] = terms[u] => t = u
  BY <1>1, TermsDiffer
<1>6. CASE method = "difference"
  <2>1. \A i \in 1 .. params :
           grad'[i] = {[weight |-> 0, plus |-> Bound(Bumped(i, 1)),
                        minus |-> Bound(Bumped(i, -1))]}
    BY <1>1, <1>6, DifferenceEntry
  <2> QED
    BY <1>1, <1>3, <1>4, <1>5, <1>6, <2>1 DEF GradientIsExact
<1>7. CASE method = "shift"
  <2>1. \A i \in 1 .. params :
           grad'[i] = {[weight |-> k, plus |-> Bound(Shifted(k, 1)),
                        minus |-> Bound(Shifted(k, -1))] :
                       k \in {l \in DOMAIN ops : ops[l].args = <<i>>}}
    BY <1>1, <1>7, ShiftEntry
  <2> QED
    BY <1>1, <1>3, <1>4, <1>5, <1>7, <2>1 DEF GradientIsExact
<1> QED
  BY <1>2, <1>6, <1>7

\* The gradient is the parameter-shift rule over every occurrence of a parameter,
\* each once, or the central difference, for every ansatz.
THEOREM GradientExact == Spec => []GradientIsExact
<1>1. Init => GradientIsExact
  BY DEF Init, GradientIsExact
<1>2. NativeInv /\ GradientIsExact /\ [Next]_vars => GradientIsExact'
  <2> SUFFICES ASSUME NativeInv, GradientIsExact, [Next]_vars PROVE GradientIsExact'
    OBVIOUS
  <2>1. CASE Combine
    BY <2>1, CombineIsExact
  <2>2. CASE UNCHANGED vars
    <3>1. UNCHANGED <<ops, params, method, pc, terms, grad>> /\ UNCHANGED request
      BY <2>2 DEF vars, request
    <3>2. /\ \A k, s : Shifted(k, s)' = Shifted(k, s)
          /\ \A k, s : Bumped(k, s)' = Bumped(k, s)
      BY <3>1, Frame DEF NativeInv, BatchInv
    <3>3. \A r : Bound(r)' = Bound(r)
      BY <3>1 DEF Bound, Angle
    <3> QED
      BY <3>1, <3>2, <3>3 DEF GradientIsExact
  <2>3. CASE Execute
    <3>1. pc' # "combined"
      BY <2>3 DEF Execute, NativeInv, MemoryInv, Running, Threw
    <3> QED
      BY <3>1 DEF GradientIsExact
  <2>4. CASE Next /\ ~Combine /\ ~Execute
    <3>1. pc' # "combined"
      BY <2>4 DEF Next, BuildBatch, ScanOperation, BuildRefused, ScanParameter,
                  EndScan, Ask, Check, Allocate, AllocationFails, Stage, Submit,
                  Finish, SubmissionThrows, Scan
    <3> QED
      BY <3>1 DEF GradientIsExact
  <2> QED
    BY <2>1, <2>2, <2>3, <2>4
<1> QED
  BY <1>1, <1>2, DeviceFollowsProgram, PTL DEF Spec

-----------------------------------------------------------------------------
(* Types *)

\* The device's arrays: there is no state before the allocation, and one row of
\* it for each request afterwards.
ShapeInv ==
    /\ staging \in {"none", "alive", "gone"}
    /\ loaded \subseteq {"theta", "shiftOp", "shift", "masks", "one"}
    /\ Len(path) = Len(rows) \/ path = <<>>
    /\ pc \in {"build", "scan", "check", "allocate"} => path = <<>>
    /\ energy # <<>> => Len(energy) = Len(rows)
    /\ out # <<>> => Len(out) = Len(rows)
    /\ pc \in {"build", "scan", "check", "allocate"} => energy = <<>> /\ out = <<>>

LEMMA RunShape ==
    ASSUME NEW c, Run(c), ShapeInv, rows \in Seq(Row)
    PROVE  /\ loaded' \subseteq {"theta", "shiftOp", "shift", "masks", "one"}
           /\ Len(path') = Len(rows) \/ path' = <<>>
           /\ energy' # <<>> => Len(energy') = Len(rows)
           /\ out' # <<>> => Len(out') = Len(rows)
<1>1. Len(rows) \in Nat /\ DOMAIN rows = 1 .. Len(rows)
  OBVIOUS
<1>2. CASE Copy(c.name)
  BY <1>2 DEF Copy, ShapeInv
<1>3. CASE Zero
  BY <1>1, <1>3 DEF Zero, ShapeInv
<1>4. CASE One \/ CopyOut
  BY <1>4 DEF One, CopyOut, ShapeInv
<1>6. CASE Energies
  <2> DEFINE e(b) == IF {"one"} \cup ({"masks"} \cap Wanted) \subseteq loaded
                     THEN path[b] ELSE Append(path[b], <<Uninitialized>>)
  <2> HIDE DEF e
  <2>1. energy' = [b \in 1 .. Len(rows) |-> e(b)] /\ UNCHANGED <<loaded, path, out>>
    BY <1>1, <1>6 DEF Energies, e
  <2>2. Len(energy') = Len(rows)
    BY <1>1, <2>1
  <2> QED
    BY <2>1, <2>2 DEF ShapeInv
<1>5. CASE ApplyGate(c.op)
  BY <1>1, <1>5 DEF ApplyGate, ShapeInv
<1> QED
  BY <1>2, <1>3, <1>4, <1>5, <1>6 DEF Run

LEMMA ShapeStep == NativeInv /\ ShapeInv /\ [Next]_vars => ShapeInv'
<1> SUFFICES ASSUME NativeInv, ShapeInv, [Next]_vars PROVE ShapeInv'
  OBVIOUS
<1> USE DEF ShapeInv
<1>1. rows \in Seq(Row) /\ Len(rows) \in Nat /\ DOMAIN rows = 1 .. Len(rows)
  BY DEF NativeInv, BatchInv, RowsInv
<1>2. pc \in {"build", "scan", "check", "allocate", "stage"} => out = <<>>
  BY DEF NativeInv, QueueInv
<1>3. CASE BuildBatch \/ EndScan \/ BuildRefused \/ Ask
  BY <1>2, <1>3 DEF BuildBatch, EndScan, BuildRefused, Ask, device, batch
<1>4. CASE ScanOperation \/ ScanParameter
  BY <1>2, <1>4 DEF ScanOperation, ScanParameter, Scan, device, batch
<1>5. CASE Check \/ AllocationFails
  BY <1>2, <1>5 DEF Check, AllocationFails, device, batch
<1>6. CASE Allocate
  BY <1>1, <1>6 DEF Allocate, batch
<1>7. CASE Stage \/ Submit \/ Finish \/ Combine \/ SubmissionThrows
  BY <1>7 DEF Stage, Submit, Finish, Combine, SubmissionThrows, device, batch
<1>8. CASE Execute
  <2>1. Run(Head(queue)) /\ queue # <<>> /\ UNCHANGED <<pc, staging, rows>>
    BY <1>8 DEF Execute, batch
  <2>2. pc \in Running \cup Threw
    BY <2>1 DEF NativeInv, MemoryInv
  <2> QED
    BY <1>1, <2>1, <2>2, RunShape DEF Running, Threw
<1>9. CASE UNCHANGED vars
  BY <1>9 DEF vars
<1> QED
  BY <1>3, <1>4, <1>5, <1>6, <1>7, <1>8, <1>9 DEF Next

\* Type correctness of the evaluation, its batch and its device included.
THEOREM TypeCorrect == Spec => []TypeOK
<1>1. Init => ShapeInv
  BY DEF Init, ShapeInv
<1>2. NativeInv /\ ShapeInv => TypeOK
  <2> SUFFICES ASSUME NativeInv, ShapeInv PROVE TypeOK
    OBVIOUS
  <2> USE DEF NativeInv, BatchInv
  <2>1. /\ rows \in Seq(Row) /\ terms \in Seq(Term) /\ scanned \in Nat
        /\ Len(Program) \in Nat /\ Len(rows) \in Nat
    BY ProgramIs DEF RowsInv
  <2>2. mem \subseteq Buffers
    BY DEF MemoryInv, Wanted
  <2>3. issued \in Nat /\ Len(queue) <= issued
    BY <2>1 DEF QueueInv
  <2> QED
    BY <2>1, <2>2, <2>3
       DEF TypeOK, RequestInv, MemoryInv, ShapeInv, Term, Running, Over, Threw
<1> QED
  BY <1>1, <1>2, ShapeStep, DeviceFollowsProgram, PTL DEF Spec
=============================================================================
