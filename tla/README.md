# A TLA+ development of QSYCL

QSYCL is a C++ framework for quantum circuits on SYCL devices and on remote
quantum processors. A program builds a `Circuit`, hands it to a
`QuantumRuntime`, and the runtime drives one `Backend`: a state-vector simulator
(CPU, GPU), or a stand-in for a remote machine (QMIO, CUNQA). On top of that sit
variational algorithms: `VQA::minimize`, `vqe`, `qaoa`.

This directory models the parts of the framework that are hard to test: the
remote backends with their network, their retries and their fallback; the
simulators' kernels with their concurrent work items; the circuits, ansatz
layers and observables a program builds, and what the remote backends write for
a gate; the estimation of an observable from shots; the batched evaluation that
runs behind the host; the optimization loops; the decoder of the server's
replies. Source paths below are relative to the repository.

## Inventory

| Component | State | Operations | Interacts with | What makes it correct |
|---|---|---|---|---|
| QMIO transport (`backends/qpu/qmio/qmio_backend.cpp`, `send_and_receive`) | the REQ socket kept in `conn_`, the attempt counter, a deadline | connect, send, receive, back off | the QPU server, over ZeroMQ | a circuit runs at most once on the hardware; an error says truthfully whether it may have run; every call ends |
| QMIO backend and QPU dispatcher (`qmio_backend.cpp`, `backends/qpu/qpu_backend.cpp`) | `device_available_`, `num_qubits_`, `gate_buffer_`, the CPU fallback | constructor, `initialize`, `apply_gate`, `sample`, `expectation_batch` | transport, fallback, runtime | hardware failures are never answered by a simulation; what is answered is what was asked |
| CUNQA backend (`backends/cunqa/cunqa_backend.cpp`) | `using_cunqa_`, `qpu_` (vQPU and DEALER socket), buffer, fallback | discovery, `initialize`, `apply_gate`, `sample`, `expectation_batch` | vQPU processes, the registry file `qpus.json` | falling back is consistent and final; answers match the circuit; a lost vQPU does not hang the client |
| Shot-based expectation (`src/shot_expectation.cpp`) | groups and their bases | `group_qwc`, one circuit per group | any backend's `initialize`/`apply_gate`/`sample` | groups commute qubit by qubit, one rotation serves each term, each term counts once |
| Native batch (`src/native_vqa.cpp`, `src/gradient_utils.cpp`) | device arrays, an in-order queue, host staging buffers | `build_gradient_batch`, `expectation_batch` | a SYCL device that runs behind the host | energies are those of `Circuit::bind`; nothing is read after it was freed |
| Optimization loops (`src/vqa.cpp`, `src/native_vqa.cpp`, `src/algorithms/algorithms.cpp`) | theta (host and device), history, best restart | `minimize`, `run_native_vqa_core`, `run_restarts` | runtime, optimizer device | a result belongs to one point; the best restart is the best |
| Circuit and parameters (`src/circuit.cpp`, `parameter.hpp`) | operations, number of parameters, measured qubits | gates, `new_param`, `measure`, `bind` | everything | a gate is refused or well-formed; `bind` resolves and shifts exactly one angle |
| Observable (`src/observable.cpp`) | terms and their masks | `add_term`, `expectation_value` | backends, algorithms | masks describe the Pauli strings, the value is that of the operator |
| Runtime (`src/runtime.cpp`) | the backend, the last circuit's width | `run`, `state_vector`, `sample`, `sample_counts`, `expectation` | a backend | what is read is of the circuit that was run; nothing follows an `initialize` that failed |
| CPU and GPU backends (`backends/cpu`, `backends/gpu`) | the state vector, the GPU's memory and its out-of-order queue | `initialize`, gate kernels, `get_state`, `sample` | a SYCL device that runs work items in any order | a gate acts on the state as its definition says; work items are independent; memory that could not be had is not used |
| Spelling of gates (`backends/qpu/utils/qasm2_export.cpp`, `deconstruct_gate` and `gate_to_instruction` of `cunqa_backend.cpp`) | none | one gate to remote instructions | QMIO and CUNQA backends | the instructions do what the simulators do for the gate |
| `safe_pickle` (`backends/qpu/utils`) | a decoder's stack | encode, decode | QMIO backend | only plain data is decoded, to what it means |
| Ansatz and Hamiltonian builders, `qaoa()` (`src/algorithms`) | none | pure functions | circuits, observables | right pairs, right parameters in the documented order, right operator |
| Factory and selectors (`src/backend_factory.cpp`, `src/device_selector.cpp`) | none | a switch over names | runtime | the backend asked for |

Threads: the framework makes every call on one thread. The concurrency is with
what that thread waits for: sockets, vQPU processes that are killed when their
allocation ends, a registry file rewritten by other programs, a device and its
queue, and the work items of a kernel among each other.

## Modules

Each component is a module; `MC*` modules only give values to constants. The
mapping from definitions to source lines is in `PROJECT.json`.

* **Submission** is the abstract promise of a submission to hardware: a call is
  new, open, released to the device, and ends refused (it will never run),
  answered (it ran once) or unknown. It runs at most once.
* **QmioTransport** is `send_and_receive`. `pc` is the place in the loop;
  `socket`, `req` and `sockets` are `conn_->socket` with the lock-step state of a
  REQ socket; `outgoing`, `inbox`, `replies` and `executed` are the network and
  the server. Each of the loop's `continue`, `throw` and `return` is an action.
  `elapsed` is the time the call's blocking operations have taken so far: each
  takes any time up to `recv_timeout_`, and the pause exactly
  `retry_backoff_ * attempt`. The environment passes on, executes, and loses
  requests and replies at its own pace; `linger = 0` is `ResetSocket`, which
  discards what is still in the pipe.
* **QmioBackend** extends it with the constructor's choice of an endpoint, the
  dispatcher `QPUBackend` and `submit_circuit`. The dispatcher calls the transport
  (`Submit`) and goes on when it has returned (`Submitted`, `SubmissionFails`); a
  gate that OpenQASM 2.0 does not have throws before it (`TranslationFails`).
* **CunqaBackend** is the CUNQA client with the vQPUs (`Serve`, `Die`), their
  registry (`Raise`, `Deregister`, `Rewrite`) and the DEALER socket, whose replies
  are matched to tasks by order alone.
* **RemoteBackend** is the contract both remote backends implement: each answer,
  by the device or the local simulator, is for the circuit built since the last
  `initialize()`, and local is for good. `ImplementsContract` in both modules is
  the refinement (`asked` is the current circuit, the flag decides `local`).
* **ShotExpectation** is `group_qwc` and the measurement loop, one action per
  term and per group. Amplitudes are left out.
* **NativeBatch** is one gradient on a native backend: `build_gradient_batch`, the
  host side of `native::expectation_batch` submitting one command after the
  other, the device executing them later, and the combination of the energies.
  The loop over the operations and their parameters is a loop of actions
  (`BuildBatch`, `ScanOperation`, `BuildRefused`, `ScanParameter`, `EndScan`); `Ask`
  is a caller's own batch, or SPSA's pair of moved vectors. An energy is represented
  by the angles the row's circuit was run with, so a wrong, missing or misplaced
  shift is visible. Unwritten or freed memory reads as `Garbage`. Any of SYCL's
  submissions and waits may throw (`SubmissionThrows`): the unwinding destroys the
  staging buffers with copies still queued and skips the frees. No operation is a
  MEASURE: `measure()` records the qubit and adds no operation, so the `continue`
  for one in `compile()` is never taken.
* **VqaLoop** is `run_restarts` around `minimize()`, with the host's loop and the
  native one as two values of `native`. A parameter vector is a pair: which
  restart, how many updates. Energies are any of a few values, `NaN` and the two
  infinities included.
* **PickleDecoder** is `safe_pickle::decode`, one action per opcode family, reading
  what Python's pickler (external) writes for a reply. A reply is a heap of objects
  that may share parts. The pickler is a stack of calls, one for each object it is in
  the middle of (`Save`, `Return`); `Writes` says which opcodes it may write next and
  `After` where it is then. It memoizes by number (protocol 3) or implicitly (4), and
  fills a list or a dict in batches of any size, where CPython's are of 1000 and of
  one: the decoder does not depend on it. How operands are laid out in bytes is left
  out.
* **Gates** has amplitudes, angles and the matrices of `gates.hpp`; **Circuits** the
  builder calls of `Circuit` with their checks, and `bind`; **Observables** the
  masks, `expectation_value` and the Hamiltonian builders; **Ansatz** the circuits
  of `ansatz.cpp`; **Translations** what QMIO and CUNQA write for a gate. They are
  operators without state.
* **StateVector** is a simulator: `kind` says which one. A kernel is a set of work
  items, each of which reads its amplitudes in one step (`Read`) and writes them in
  a later one (`Write`), in any order and at the same time as the others. The host
  submits (`SubmitKernel`) and waits (`Wait`). The GPU's `initialize` is a kernel
  that zeroes and a task that sets the first amplitude; its allocation may fail
  when the old memory is already gone.
* **LocalRuntime** extends it with a caller who builds circuits, gate by gate or
  with the library, and `QuantumRuntime`: `initialize`, the gates in order, and then
  a reading of the state (a shot, an expectation, the answer of `qaoa()`). Numbers are
  integers, so that what the code halves is taken to be even: the weights of a
  graph's edges (`IsCost`) and the angles of the controlled rotations, which the
  remote spellings halve (`Halved`). Graphs without self-loops and observables that
  pass their checks (`IsHamiltonian`) are those the library's builders return at all.
* **Simulator** is the abstract specification of a simulated device: `initialize`
  is |0...0>, and a gate acts in one step by its textbook definition, tensor
  products and all, with nothing taken from the kernels. `ImplementsSimulator` is
  the refinement; while a kernel runs the abstract state is the one it started from.
  It is checked by a run and proved for every width.

Proof modules: **QmioProofs**, **CunqaProofs**, **ShotExpectationProofs**,
**NativeBatchProofs**, **VqaLoopProofs**, **PickleDecoderProofs**,
**LocalRuntimeProofs**, and on top of the last **CircuitProofs**.

## Runs

| Run | Question | Bounds |
|---|---|---|
| `qmio_retries` | safety, termination and refinement of the transport, and how far a call overruns a deadline set by the user | 2 calls (a second call is what a stale socket or reply would harm), 3 attempts (so that the pause grows), a deadline that some calls meet and others do not |
| `qmio_whole` | the backend as a whole, with and without a device, and the default deadline | 2 circuits, 2 calls, 3 attempts, a pause longer than the timeouts (so that the deadline formula needs its pause term), 2 gates, one of them without translation, widths below and above the fallback's limit |
| `cunqa_safety` | what is answered, by whom, from which state | 2 vQPUs of different sizes, 1 death, 2 circuits, 2 samples, a gate without translation |
| `cunqa_returns` | does `sample()` end, and how often does it run a circuit, with interrupted receives | the same, no deaths |
| `cunqa_expired` (violation) | the same with one death | 1 circuit, 1 sample |
| `cunqa_mixed_batch` (violation) | is a batch answered by one source? | 3 circuits, 2 samples |
| `cunqa_capacity` (violation) | does a vQPU only get circuits it supports? | 2 vQPUs of sizes 2 and 1 |
| `shot_groups` | grouping and counting | every observable of up to 4 terms on 2 qubits; the fourth term meets groups whose basis has grown |
| `native_gradient` | gradients on a native backend | every ansatz of up to 3 gates of 6 kinds and 2 parameters, both methods |
| `vqa_restarts` | the loops and the choice of the best restart | 2 restarts, 3 iterations, 5 energies: two finite ones, both infinities and `NaN` |
| `pickle_replies` | does a pickled reply decode to what it means? | 4 objects, containers of up to 2 parts under a root of up to 4, so that a mark opens inside a mark, a list comes in several batches, a tuple needs a mark, and a part is shared from different depths |
| `local_runs` | what is the state after a run, and what is read from it; are the builders, the ansatz library and the spellings right | 1 to 3 and a too wide 4 qubits, every gate type, with either order and a gap between two qubits, rings of two and three, costs with a term on one, two and three qubits and the identity, 2 builder calls, 2 runs, one shot, up to two outcomes for `qaoa()` |

All runs set `CHECK_DEADLOCK FALSE`: the callers make a bounded number of calls
and then stop, which is a state without successors and no fault.

Two calls, circuits or samples are enough for the properties at hand because a
call can only be harmed by what the previous one left behind (the socket, the
buffer, a reply under way, the fallback's state), and everything left behind is
in the model. What the bounds could hide in the transport, the remote backends,
the grouping and the loops is
covered by the proofs, which have no bounds.

`local_runs` computes with amplitudes that are pairs modulo 31, where 2 has a
square root and the cosine and sine of pi/8 exist, so that every identity among
the gates' complex numbers holds and a wrong index, sign or factor shows as it
would with real ones, but for coincidences of one in 31. Three qubits are the
fewest on which a two-qubit gate has a qubit between its own, a ring differs from
a chain, and a Pauli string can have three Y; that the index arithmetic is right
for more of them is proved. Two runs show what a first one leaves behind. An item
reads once and writes once, which is enough because no two items share an
amplitude (`WorkItemsIndependent`): finer interleavings would end in the same
states. `Grain` stands for the six digits of a printed angle.

### What the violations show

* `cunqa_expired`: the receive of the CUNQA client has no timeout. When the
  vQPU's allocation ends under it, `sample()` never returns, where the README and
  the comment in `sample()` say that this very case ends in the fallback.
* `cunqa_mixed_batch`: `expectation_batch` goes through `sample()`, which falls
  back by itself. The comment in `expectation_batch` says that it does not.
* `cunqa_capacity`: the width is compared in `initialize()` only; the resubmission
  may go to a vQPU that is too small.

### Remarks

What follows was met while modelling. It is no violation of a property a run
checks.

* The deadline of a QMIO call is compared with the clock at the top of an attempt
  only; the pause, the connect, the send and the receive that follow can end after
  it. With the default deadline a call is bounded by it (`DefaultBoundsCall`); with
  one set by the user the overrun is less than the last pause and three timeouts
  (`DeadlineOverrun`), where the header says the call is bounded by it.
* `QmioBackend`'s constructor ends in a compiled-in address when neither the
  argument, nor `$ZMQ_SERVER`, nor the registry file gives one, where its header
  says there is none (`Endpoint`). Its timeouts are 64-bit counts narrowed to the
  `int` of the socket options. The error "no reply" is wrapped like any other,
  where the comment says it is rethrown as it is.
* In `CunqaBackend`, `Interrupts = FALSE` is a real restriction of
  `ImplementsContract`: when a signal interrupts a receive twice in one `sample()`,
  the socket is kept with a reply still to come, which the next task's receive takes
  for its own. The proof makes the same assumption, and no other.
* A circuit too wide for the fallback makes the fallback's `initialize` throw after
  `using_cunqa_` went false: `get_state()` then reports an older circuit. The CUNQA
  context is destroyed with the default linger, which a task that a dead vQPU never
  took can block.
* A failed `initialize` of the CPU backend leaves its old state readable.
  `append_basis_state` throws for bits beyond the circuit after the gates for the
  others have been added. A `Param` of another circuit is only checked for its
  range. More than 64 measured qubits shift a 64-bit readout out of its width.
* The QASM header says `OPENQASM 3.0` and includes `qelib1.inc`, which is of 2.0.
* When one of the submissions of the native batch throws (`SubmissionThrows`), the
  unwinding destroys the staging buffers before the queue has run the copies from
  them, where the comment on them says that they outlive the copies, and it leaves
  the device memory allocated. `PendingWorkIsSafe` claims nothing of the buffers after
  that, and `FreedOnExit` nothing of the memory.
* The exception of `run_restarts` says that it is thrown when all restarts produced a
  non-finite energy. Minus infinity passes both of its comparisons, hides every
  finite energy and is returned as the best, which is what `BestIsLowest` says.
* `append_two_local` with `reps = 0` and without a final layer adds a rotation layer,
  where the documentation's layout and its number of parameters (`ansatz.hpp`) have
  none. `AnsatzAsDocumented` says nothing of that call.
* An exception out of an evaluation in the native loop unwinds past the frees of its
  optimizer's memory. A shift of a gate without an angle is
  refused by `bind()` and ignored by the native kernel, where `circuit.hpp` says
  that they agree; no batch the repository builds contains one.
* `RoundTrip` excepts two kinds of reply: those with a filled list or dict referred
  to twice, which the header of `safe_pickle` excludes, and those with a number and
  a string of the same text as keys of one dict. The same header says that `decode`
  throws on invalid UTF-8, which it does not check.

## Fairness

* `qmio_retries` (`CallReturns`): weak fairness of the calling thread. Every socket
  operation has a timeout, so the thread is never blocked for good; nothing is
  assumed of the server or the network.
* `cunqa_returns`, `cunqa_expired` (`SampleReturns`): weak fairness of the calling
  thread inside `sample()` and of every vQPU that is up and has a task. A vQPU that
  has died owes nothing.
* Everything else is safety, and needs no fairness; the proofs are of the
  specifications without it.

## Proofs

Everything below is checked by TLAPS for all values of the constants allowed by
the modules' assumptions.

* **The transport** (`QmioProofs`). `AtMostOnce`, `HonestOutcome`,
  `KeptSocketIsClean` are not inductive. `IInv` adds that requests and replies
  under way are of past calls or of the one that is receiving, and carry its
  socket's identity; that a request has one copy somewhere or was executed at most
  once; that a socket outside the receive is fresh or in step. `Invariant` is
  `Spec => []IInv`; `RunsOnce`, `ErrorsAreHonest`, `SocketStaysClean` and
  `NothingDepartsLate` follow, and `TransportImplementsSubmission` is the
  refinement of `Submission`, step by step.
* **The QMIO backend** (`QmioProofs`). Each of its steps is one of the
  transport's or leaves the transport alone (`BackendKeepsTransport`), so that the
  transport's invariant holds of the whole. Added to it: the thread is in the
  transport only while it submits; with a device nothing is simulated and without
  one nothing is submitted; what is under way is the caller's circuit, and so is what
  came back. `NeverSilentlySimulated` and the refinement `BackendImplementsContract`
  follow.
* **The CUNQA backend** (`CunqaProofs`). The invariant has a client's part (the
  buffer holds the caller's circuit as long as it may be submitted, the fallback from
  then on: `FallbackIsCurrent`) and one of the wires. There, every task has its own
  pair of a `sample()` and a socket, and for every `sample()` the runs so far and the
  sockets it has a task on are together no more than the submissions it has made,
  which are two at most. This needs counting because a task outlives the socket it
  came from; `AtMostTwoRuns` follows, interrupted receives included. Without
  interrupts a socket moreover holds one task or its reply, and only while its
  `sample()` receives, which gives `CunqaImplementsContract`.
* **The transport's time** (`QmioProofs`). The time spent is bounded by what the
  attempts so far can have taken, which is a sum of an arithmetic progression;
  `DeadlineOverrun`, `DefaultBoundsCall` and `DefaultDeadlineIsIdle` follow.
* **The grouping** (`ShotExpectationProofs`). `GroupingInv` says that a group's
  basis is exactly the union of its members' letters, and that a term clashes
  with some member of every earlier group; `Partition`, `GroupsCommute`,
  `RotationServesAll` and `NoGroupToSpare` follow, for every number of qubits and
  terms. `CountedSoFar`, what the groups measured so far have added, gives
  `EveryTermCounted`.
* **The native batch** (`NativeBatchProofs`). `PendingWorkIsSafe` and
  `FreedOnExit`, which are of the exits the function has of its own (a result, a
  refusal, a failed allocation) and claim nothing of an exception of SYCL, from an invariant that ties the queue, the memory and the staging
  buffers to the host's place in the function, for every ansatz and every batch.
  Two more invariants give the values. `BatchInv`, on the host: after every step of
  the scan, the terms stand for the parameters of the gates scanned so far, each
  term once, and each points at rows that hold its shifts; nothing touches the batch
  afterwards (`GradientIsExact`). `NativeInv`, across the two threads: wherever the
  device stands in the queue, its program is the prefix of the commands that have
  run, its angles are those the host wrote for the row of that prefix, and the
  energies out so far are those of the rows before (`AgreesWithBind`). The proof of
  the second is one lemma per command, each in terms of what a read of device memory
  returns when the copies before it have run.
* **The loops** (`VqaLoopProofs`). The history has as many energies as theta has had
  updates, on the host and on the device; it is steep until the loop ends; the best
  restart is the first of the lowest judged so far, where minus infinity is below
  every number, as it is to the code. `OnePoint`, `FirstPlateau` and
  `LowestWins` follow for every number of restarts and iterations.
* **The pickle decoder** (`PickleDecoderProofs`). `RepliesRoundTrip`: a reply with
  any number of objects, nested and shared in any way, is decoded without one of the
  errors `decode()` can throw, leaves nothing on the stack or among the marks, and is
  what the server meant, but for aliased containers and colliding keys. `RoundTrip`
  only speaks of the end. The invariant splits the decoder's stack among the calls of
  the pickler (`LevelsInv`): each has its object, if it has begun one, and above it
  the parts not yet put in it, each of which is what it means (`Fits`); a call that
  has opened a mark has exactly one in `marks`, at the height where its parts begin.
  `MemoInv` says that a memoized value is that of an object without its parts, which
  is its whole value unless it is a filled list or dict; that such a one is not
  fetched again needs `MetInv`, by which the pickler came to each object it has met
  by a reference it is past, so that another one makes the reply aliased (`Shared`).
  One lemma per opcode then shows that it finds what it takes. `MeantBy` is recursive
  over the objects; that it is what it says is proved by a least counterexample
  (`MeaningExists`), as objects refer to later ones only, which is also the
  assumption that replies have no cycles.
* **The circuits and the kernels** (`LocalRuntimeProofs`). `TypeCorrect`: whatever
  calls of the builder and of the ansatz library made a circuit, for any number of
  qubits, rotations, repetitions and layers and any cost, its gates are on as many qubits
  as their type has, all of the circuit and no two the same; every amplitude is a
  number, the GPU's memory is as long as `dim` says and every work item has what it
  applies. The invariant (`IInv`) adds that a gate's parameters are the circuit's own
  (`GatesOn`), that no gate is submitted outside of a run, and that an item has
  two amplitudes to multiply by its matrix (`Sound`). The lemmas on the library
  (`LayerType`, `EntanglementType`, `TwoLocalType`, `BasisStateType`, `MaxcutType`,
  `CostGadgetType`, `QaoaLayersType`) take its loops one at a time. A loop is a fold
  of the community modules, a recursive function chosen by its equation: that there
  is such a function (`FoldExists`), and that what each step keeps holds at its end
  (`FoldClimbs`), is proved by a least counterexample (`Climb`), in place of the
  induction theorems of the library.

  `ItemsAreIndependent`: for circuits of every width, the work items of a kernel
  never share an amplitude and never leave the state. It rests on the same invariant
  and on the arithmetic of the indices: the two of a work item are `2am + r` and
  `(2a+1)m + r` for a mask `m`, and an index a swap starts from has the opposite
  bits of every partner.

  `KernelsImplementGates`: LocalRuntime implements Simulator. For circuits of every
  width, on either device, and for every order in which the items read and write,
  `initialize()` leaves |0...0> and `apply_gate()` the textbook definition of its
  gate. The refinement's steps: an `initialize` of the GPU is `Lose` when it starts
  and `Initialize` at its last wait; the `Wait` for a gate's kernel is `ApplyGate`;
  every other step stutters. The argument has three parts.
  - *The arithmetic*: amplitudes are numbers mod 31, whose sums and products are
    shown to commute, associate and distribute, and turns to add up.
  - *The definition* (`MatrixIsMeant`, `GateKernel`): the matrix the host hands to a
    kernel is the gate's definition entry by entry, every index of the state is in
    exactly one work item, or in none where a control is not set, and the partner of
    an index differs from it in the gate's bit alone; so what the items write is, cell
    by cell, the gate's definition applied to the state.
  - *The interleavings* (`Stages`): an item still to be done finds its cells as the
    kernel found them, and has read them right if it has read; a cell that no item
    left is to write is as the matrix makes it. That this survives another item's step
    is independence (`CellsDiffer`), and when no item is left it says that the memory
    is the gate's result. The GPU's `initialize` has stages of its own: zeroed by
    items in any order, and then the one task that sets the first amplitude.

  `Stages` was found with TLC before it was proved. The theorems of this module and
  those of `CircuitProofs` have one hypothesis: `Doubling`, that 2^0 = 1 and
  2^(p + 1) = 2 * 2^p, since the provers know nothing of `^`. Most lemmas use what
  follows from it, that a power of two is positive and an even multiple of every
  smaller one (`PowersDivide`).

  `TranslationsAreExact`: the instructions a remote backend is sent for a gate do to
  any state of any width what the simulators do for the gate, with the angle the
  text has. A spelling is a fold of gates over a state. A gate on two qubits acts on
  each pair of amplitudes by one of two matrices, as the control says
  (`Branch`), so that two gates around a third are products of 2x2 matrices, and the
  decomposition of a controlled rotation is the identity `X R(-a) X = R(a)` for the
  axes that X turns over, between two Hadamards for the third.
* **Whole circuits** (`CircuitProofs`), on the definitions of `Simulator`.

  `ReadingsAreOfTheCircuit`: whatever is read is of the caller's circuit. The
  invariant is `Stages` with `Followed` (between two gates the state is the gates
  submitted so far, run from |0...0>, and while a kernel runs the one it started
  from is), `Finished` (after `run()` it is all of the circuit's) and `Read1` (what
  was given last is right). The readings are sums. Each loop of the code that adds
  up is shown to be the sum of a function over a set, in whatever order
  (`SumExists`, `SumIs`), so that two of them are equal when their addends are, one
  to one (`ModTransfers`, `AmpReordered`):
  - *A shot* is an outcome the final state has an amplitude for, and its text is the
    readout the other way round, twice (`ShotIsRight`).
  - *An expectation* (`ExpectationIsRight`). The masks of a term say which amplitude
    each amplitude meets and with which sign; `PauliActs` computes, letter by letter,
    what the term's operators do to a state, a power of i and a sign at a flipped
    index, and `EnergyIs` that the sum over the masks is `<s|P|s>`, real part by real
    part: with the `ny` factors of Y counted modulo 4, and the conjugate on the right
    side (`SharesAgree`). The builders of Hamiltonians give one mask for each string
    of the documented operator and none twice, or leave out only those with the
    coefficient 0 (`GivenStrings`, `IsingStrings`, `HeisenbergStrings`).
  - *The answer of* `qaoa()`: what the masks make of a readout is the value of the cost
    on it (`CostIsValue`), minus the weight of the edges it cuts for a graph
    (`CutsValue`) and the coefficients with the signs of their strings otherwise
    (`StringsValue`), so that the first of the lowest is an outcome that none sampled
    costs less than (`AnswerIsRight`).

  `AnsatzIsAsDocumented`: what a call of the ansatz library adds to whatever circuit
  it is made on is what `ansatz.hpp` says, for any number of qubits, rotations,
  repetitions and layers, and any diagonal cost; of the layers of a call without
  repetitions and without a final layer, where the code and its documentation
  disagree, it says nothing. The invariant is that of `TypeCorrect`, as every
  other step forgets the call or leaves its circuit alone; the work is in the calls.
  - *Layers* (`TwoLocalIsDocumented`): every gate's place, type, qubit and parameter
    is computed from its number, by induction on the rotations of a layer
    (`RotatesOnce`) and on the repetitions (`LayerMore`, `BlockMore`); a block holds
    each pair of its pattern once, the even ones first when it is pairwise
    (`PairsAreDocumented`, `EvensFirst`).
  - *A basis state* (`BasisStateIs`): each X sets one bit of the index, and when the
    call does not throw no bit is left.
  - *QAOA* (`QaoaLayersAreDocumented`, `QaoaIsDocumented`), for any diagonal cost and
    all angles: the fan-in of a term on any number of qubits leaves their parity on the
    last, and the fan-out undoes it (`FanTurns`), so that a gadget is a diagonal that
    turns an index by the sign of its term (`GadgetTurnsOn`); the gadgets
    of a layer add their angles up to `2 gamma` times the value of the cost, but for
    the angle of the identity terms, which is the same for every index (`CostsTurn`,
    `WholeTurn`); this global phase goes through all that follows (`RunRescaled`), and
    the layers' phases add up (`LayersDo`).

Every safety invariant and action property the runs check is thus proved, except in
the runs that expect a violation. Only model-checked is liveness (`CallReturns`,
`SampleReturns`), which is out of the prover's reach.

## Not modelled

* Numerics: floating point, Adam's moments, the arithmetic of the native kernels.
  Updates are counted; the simulators' amplitudes are exact.
* Probabilities of outcomes: a shot is any outcome of nonzero probability.
* Texts: headers, registers and measure lines of QASM, JSON, the bytes of a pickle,
  `encode_str_tuple`, the strings of observables. To the QMIO modules a reply
  decodes or does not: the formats `counts_from_json` accepts are left out.
* Of `safe_pickle::decode`: `POP`, `POP_MARK` and `DUP`, which no pickler writes for
  data without cycles, and the refused opcodes.
* Uses of `QuantumRuntime::backend()`, which hands out the backend itself; random
  starting points and the brute-force ground energy.
* Exceptions thrown by SYCL submissions, except in the native batch, and destructors
  that block.
* Factory, device selectors, examples, scripts and build files: without state.

## Plan

1. Done: all modules above, with one run for each question; proofs of the
   transport and its timing, of both remote backends with their contract, of the
   grouping, of the native batch's memory safety and values, of the loops, of the
   pickle decoder, of the circuits' well-formedness, of the kernels' independence, of
   the refinement of the simulator's specification by the kernels, of the spellings,
   of everything that is read of a state and of the circuits of the ansatz library.
2. A module for `counts_from_json`, with the three formats of a reply.
3. The remaining opcodes of the pickle decoder.
