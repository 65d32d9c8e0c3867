---------------------------- MODULE StateVector ----------------------------
(***************************************************************************)
(* CPUBackend and GPUBackend: a state vector, and kernels that transform   *)
(* it in place.  A kernel is a set of work items the device runs in any    *)
(* order and at the same time: an item reads its cells in one step and     *)
(* writes them in a later one.  The host waits for each kernel.  The queue *)
(* is out-of-order, and orders nothing by itself.                          *)
(***************************************************************************)
EXTENDS Gates, Circuits

CONSTANTS
    MaxQubits   \* the widest state initialize() accepts: 30 in the code

VARIABLES
    kind,       \* "CPU" or "GPU"
    mem,        \* index -> amplitude; <<>> for no memory (a null pointer)
    width,      \* num_qubits_
    dim,        \* the GPU's dim_
    items,      \* work items submitted and not yet done
    host        \* "idle", or what the host is in: "zeroing", "seeding", "kernel"

backend == <<kind, mem, width, dim, items, host>>

Garbage == Complex(5, 6)   \* what fresh memory holds

BackendInit ==
    /\ kind \in {"CPU", "GPU"} /\ mem = <<>> /\ width = 0 /\ dim = 0 /\ items = {} /\ host = "idle"

\* The number of amplitudes a kernel ranges over.
Dim == IF kind = "GPU" THEN dim ELSE Cardinality(DOMAIN mem)

-----------------------------------------------------------------------------
(* Work items *)

\* An item: the cells it works on, the amplitude it sets or the matrix it
\* applies, and what it has read.
Item(cells, do) == [cells |-> cells, do |-> do, read |-> <<>>]

I0_Unshifted(i, mask) == i

\* (high << 1) | low
I0(i, mask) == LET low == i % mask IN 2 * (i - low) + low

BitOf(i, q) == (i \div 2^q) % 2

\* i0 and i1 of every work item, for a matrix on qubit q.
Pairs(q) == {<<I0(i, 2^q), I0(i, 2^q) + 2^q>> : i \in 0 .. (Dim \div 2) - 1}

ControlledPairs(c, t) == {p \in Pairs(t) : BitOf(p[1], c) = 1}

\* Of two basis states that a swap exchanges only one takes action.
SwapPairs(a, b) ==
    {<<i, i + 2^a - 2^b>> : i \in {k \in 0 .. Dim - 1 : BitOf(k, a) = 0 /\ BitOf(k, b) = 1}}

Matrix(g) ==
    LET a == [i \in DOMAIN g.args |-> g.args[i].offset] IN
    CASE g.type = "H" -> HMatrix
      [] g.type \in {"X", "CNOT", "SWAP"} -> XMatrix
      [] g.type = "Y" -> YMatrix
      [] g.type \in {"Z", "CZ"} -> ZMatrix
      [] g.type = "S" -> SMatrix(g.dagger)
      [] g.type = "T" -> TMatrix(g.dagger)
      [] g.type = "U" -> UMatrix(a[1], a[2], a[3])
      [] g.type \in {"RX", "CRX"} -> RXMatrix(a[1])
      [] g.type \in {"RY", "CRY"} -> RYMatrix(a[1])
      [] g.type \in {"RZ", "CRZ"} -> RZMatrix(a[1])

Cells(g) ==
    CASE g.type = "SWAP" -> SwapPairs(g.qubits[1], g.qubits[2])
      [] g.type \in OneQubit -> Pairs(g.qubits[1])
      [] OTHER -> ControlledPairs(g.qubits[1], g.qubits[2])

\* What an item writes: an amplitude, or a matrix times the two it has read.
Sets(w) == Len(w.do) = 1

Written(w) ==
    IF Sets(w) THEN w.do
    ELSE <<Plus(Times(w.do[1], w.read[1]), Times(w.do[2], w.read[2])),
           Plus(Times(w.do[3], w.read[1]), Times(w.do[4], w.read[2]))>>

Read(w) ==
    /\ ~Sets(w) /\ w.read = <<>>
    /\ items' = (items \ {w}) \cup
                {[w EXCEPT !.read = [k \in DOMAIN w.cells |-> mem[w.cells[k]]]]}
    /\ UNCHANGED <<kind, mem, width, dim, host>>

Write(w) ==
    /\ Sets(w) \/ w.read # <<>>
    /\ mem' = [i \in DOMAIN mem |->
                 IF \E k \in DOMAIN w.cells : w.cells[k] = i
                 THEN Written(w)[CHOOSE k \in DOMAIN w.cells : w.cells[k] = i]
                 ELSE mem[i]]
    /\ items' = items \ {w}
    /\ UNCHANGED <<kind, width, dim, host>>

-----------------------------------------------------------------------------
(* initialize() *)

InitializeThrows(n) == n = 0 \/ n > MaxQubits

\* The CPU's vector is assigned by the host, in one go.
InitializeCPU(n) ==
    /\ kind = "CPU" /\ ~InitializeThrows(n)
    /\ width' = n
    /\ mem' = [i \in 0 .. 2^n - 1 |-> IF i = 0 THEN One ELSE Zero]
    /\ UNCHANGED <<kind, dim, items, host>>

\* A vector that cannot grow throws, and keeps its old contents.
InitializeCPUFails(n) ==
    /\ kind = "CPU" /\ ~InitializeThrows(n) /\ 2^n > Cardinality(DOMAIN mem)
    /\ width' = n
    /\ UNCHANGED <<kind, mem, dim, items, host>>

InitializeGPU_StaleDim(n) ==
    /\ kind = "GPU" /\ ~InitializeThrows(n)
    /\ width' = n
    /\ mem' = [i \in 0 .. 2^n - 1 |-> Garbage]
    /\ items' = {Item(<<i>>, <<Zero>>) : i \in 0 .. 2^n - 1}
    /\ host' = "zeroing"
    /\ UNCHANGED <<kind, dim>>

\* The GPU frees its memory first; then the allocation may fail.
InitializeGPU(n) ==
    /\ kind = "GPU" /\ ~InitializeThrows(n)
    /\ width' = n /\ dim' = 2^n
    /\ mem' = [i \in 0 .. 2^n - 1 |-> Garbage]
    /\ items' = {Item(<<i>>, <<Zero>>) : i \in 0 .. 2^n - 1}
    /\ host' = "zeroing"
    /\ UNCHANGED kind

InitializeGPUFails(n) ==
    /\ kind = "GPU" /\ ~InitializeThrows(n)
    /\ width' = n /\ dim' = 2^n
    /\ mem' = <<>>
    /\ UNCHANGED <<kind, items, host>>

Seed_NoWait ==
    /\ host = "zeroing"
    /\ items' = items \cup {Item(<<0>>, <<One>>)}
    /\ host' = "seeding"
    /\ UNCHANGED <<kind, mem, width, dim>>

\* |0...0>: when all is zero, a single task sets the first amplitude.
Seed ==
    /\ host = "zeroing" /\ items = {}
    /\ items' = {Item(<<0>>, <<One>>)}
    /\ host' = "seeding"
    /\ UNCHANGED <<kind, mem, width, dim>>

-----------------------------------------------------------------------------
(* apply_gate() *)

SubmitKernel(g) ==
    /\ host = "idle"
    /\ items' = items \cup {Item(cells, Matrix(g)) : cells \in Cells(g)}
    /\ host' = "kernel"
    /\ UNCHANGED <<kind, mem, width, dim>>

\* wait() returns once every item is done, and the host's call with it.
Wait ==
    /\ host \in {"seeding", "kernel"} /\ items = {}
    /\ host' = "idle"
    /\ UNCHANGED <<kind, mem, width, dim, items>>

-----------------------------------------------------------------------------
(* Reading *)

\* get_state(): the GPU's throws without memory.
StateThrows == kind = "GPU" /\ mem = <<>>

Support == {j \in DOMAIN mem : Norm(mem[j]) # 0}

\* The readout of full index j: bit k is that of which[k].
Readout(j, which) ==
    [k \in DOMAIN which |-> BitOf(j, which[k])]
=============================================================================
