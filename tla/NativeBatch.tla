---------------------------- MODULE NativeBatch ----------------------------
(***************************************************************************)
(* One gradient of a variational ansatz on a native backend: the batch     *)
(* build_gradient_batch makes, native::expectation_batch evaluating it     *)
(* through an in-order SYCL queue that runs behind the host, and the       *)
(* caller turning the energies into a gradient.  An energy stands for the  *)
(* angles its row's circuit was run with: all that tells two requests      *)
(* apart.  The device is external and runs at its own pace.                *)
(***************************************************************************)
EXTENDS Integers, Sequences

CONSTANTS
    Gates,      \* gates an ansatz may use: a kind, and its angles' parameters
    MaxOps,     \* gates in an ansatz (a bound)
    MaxParams   \* parameters of an ansatz (a bound)

\* A "fixed" gate has no angle, a "shiftable" one is RX, RY or RZ, which have
\* one, and "rotating" is U, CRX, CRY or CRZ.  An angle is parameter 1, 2, ...
\* or 0, a constant.
ASSUME NativeAssumption ==
    /\ Gates \subseteq [kind : {"fixed", "shiftable", "rotating"}, args : Seq(Nat)]
    /\ \A g \in Gates : /\ g.args = <<>> <=> g.kind = "fixed"
                        /\ g.kind = "shiftable" => Len(g.args) = 1
    /\ MaxOps \in Nat /\ MaxParams \in Nat

VARIABLES
    ops,      \* the ansatz's operations
    params,   \* its num_params()
    method,   \* the gradient asked for: "shift" (ParameterShift), "difference"
              \* (FiniteDifference), or "none": energies only
    sized,    \* whether theta has num_params() entries
    observable, \* "fits" the ansatz, fits and is "empty" (no terms), or has
              \* "other" qubits
    pc,       \* how far the host is
    scanned,  \* operations, or parameters, build_gradient_batch is past
    rows,     \* the batch's requests
    terms,    \* the gradient terms, in the order of their pairs of requests
    mem,      \* live device allocations
    staging,  \* the host buffers sop and sval: "none", "alive" or "gone"
    issued,   \* commands submitted so far
    queue,    \* those of them the device has not run yet
    loaded,   \* what the device's arrays hold of the host's
    path,     \* the device state of each row: the angles applied to it
    energy,   \* the device's energies
    out,      \* the energies returned
    grad      \* the gradient: what each parameter's entry is the sum of

request == <<ops, params, method, sized, observable>>
batch   == <<scanned, rows, terms>>
device  == <<queue, loaded, path, energy, out>>
vars    == <<ops, params, method, sized, observable, pc, scanned, rows, terms, mem, staging,
             issued, queue, loaded, path, energy, out, grad>>

Buffers == {"state", "theta", "shiftOp", "shift", "masks", "energy"}

Garbage == 2   \* what is read from memory nobody wrote, or that is gone

Parametric(g) == \E i \in 1 .. Len(g.args) : g.args[i] # 0

\* One request: where each parameter is from theta, in steps; the operation whose
\* first angle is shifted (0 is none), and how.
Row == [theta : [1 .. params -> {-1, 0, 1}], op : 0 .. Len(ops), shift : {-1, 0, 1}]

Theta == [i \in 1 .. params |-> 0]
Moved(theta) == [theta |-> theta, op |-> 0, shift |-> 0]

Plain == Moved(Theta)
Shifted(k, s) == [theta |-> Theta, op |-> k, shift |-> s]
Bumped(i, s) == Moved([Theta EXCEPT ![i] = s])

TypeOK ==
    /\ ops \in Seq(Gates) /\ Len(ops) <= MaxOps
    /\ params \in 0 .. MaxParams
    /\ method \in {"shift", "difference", "none"} /\ sized \in BOOLEAN
    /\ observable \in {"fits", "empty", "other"}
    /\ pc \in {"build", "scan", "check", "allocate", "stage", "submit", "wait",
               "returned", "combined", "refused", "threw"}
    /\ scanned \in Nat
    /\ rows \in Seq(Row)
    /\ terms \in Seq([param : 1 .. params, weight : 0 .. Len(ops)])
    /\ mem \subseteq Buffers
    /\ staging \in {"none", "alive", "gone"}
    /\ issued \in Nat /\ Len(queue) <= issued
    /\ loaded \subseteq {"theta", "shiftOp", "shift", "masks", "one"}
    /\ Len(path) = Len(rows) \/ path = <<>>
    /\ out # <<>> => Len(out) = Len(rows)

Init ==
    /\ params \in 0 .. MaxParams
    /\ \E n \in 0 .. MaxOps :
          ops \in [1 .. n -> {g \in Gates : \A i \in 1 .. Len(g.args) :
                                               g.args[i] <= params}]
    /\ method \in {"shift", "difference", "none"} /\ sized \in BOOLEAN
    /\ observable \in {"fits", "empty", "other"}
    /\ pc = "build" /\ scanned = 0 /\ rows = <<>> /\ terms = <<>> /\ mem = {}
    /\ staging = "none" /\ issued = 0 /\ queue = <<>> /\ loaded = {}
    /\ path = <<>> /\ energy = <<>> /\ out = <<>> /\ grad = <<>>

-----------------------------------------------------------------------------
(* What a request means: Circuit::bind *)

\* The j-th angle of operation k: its parameter as the request has it, plus the
\* shift when it is the first angle of the operation the request shifts.
Angle(r, k, j) ==
    LET a == ops[k].args[j] IN
    [arg   |-> a,
     bump  |-> IF a = 0 THEN 0 ELSE r.theta[a],
     shift |-> IF j = 1 /\ k = r.op THEN r.shift ELSE 0]

\* bind() refuses a shift of anything but an operation with an angle.
Bindable(r) == r.op # 0 => r.op <= Len(ops) /\ ops[r.op].args # <<>>

Bound(r) == [k \in DOMAIN ops |-> [j \in DOMAIN ops[k].args |-> Angle(r, k, j)]]

-----------------------------------------------------------------------------
(* build_gradient_batch *)

\* Request 0 is the plain energy.
BuildBatch ==
    /\ pc = "build" /\ method # "none"
    /\ rows' = <<Plain>>
    /\ pc' = "scan"
    /\ UNCHANGED <<request, scanned, terms, mem, staging, issued, device, grad>>

\* A pair of requests, one up and one down, and the term that goes with it.
Add(up, down, term) ==
    /\ rows' = rows \o <<up, down>>
    /\ terms' = Append(terms, term)

Scan == pc = "scan" /\ scanned' = scanned + 1 /\ pc' = pc

Refusable(k) == Parametric(ops[k]) /\ ops[k].kind # "shiftable"

ScanOperation_ZeroBased ==
    /\ Scan /\ method = "shift" /\ scanned < Len(ops)
    /\ LET k == scanned + 1 IN
       /\ ~Refusable(k)
       /\ IF Parametric(ops[k])
          THEN Add(Shifted(k, 1), Shifted(k, -1),
                   [param |-> ops[k].args[1] - 1, weight |-> k])
          ELSE UNCHANGED <<rows, terms>>
    /\ UNCHANGED <<request, mem, staging, issued, device, grad>>

\* Parameter shift: a parametric operation is shifted up and down; the weight
\* is half the scale of the occurrence (here its number).
ScanOperation ==
    /\ Scan /\ method = "shift" /\ scanned < Len(ops)
    /\ LET k == scanned + 1 IN
       /\ ~Refusable(k)
       /\ IF Parametric(ops[k])
          THEN Add(Shifted(k, 1), Shifted(k, -1),
                   [param |-> ops[k].args[1], weight |-> k])
          ELSE UNCHANGED <<rows, terms>>
    /\ UNCHANGED <<request, mem, staging, issued, device, grad>>

BuildRefused ==
    /\ pc = "scan" /\ method = "shift" /\ scanned < Len(ops)
    /\ Refusable(scanned + 1)
    /\ pc' = "refused"
    /\ UNCHANGED <<request, batch, mem, staging, issued, device, grad>>

\* Finite differences: each parameter is moved up and down; the weight is
\* 0.5 / epsilon for all.
ScanParameter ==
    /\ Scan /\ method = "difference" /\ scanned < params
    /\ LET i == scanned + 1
       IN  Add(Bumped(i, 1), Bumped(i, -1), [param |-> i, weight |-> 0])
    /\ UNCHANGED <<request, mem, staging, issued, device, grad>>

EndScan ==
    /\ pc = "scan"
    /\ scanned = IF method = "shift" THEN Len(ops) ELSE params
    /\ pc' = "check"
    /\ UNCHANGED <<request, batch, mem, staging, issued, device, grad>>

\* A batch of a caller's own: VQA::cost and the final energy, an SPSA pair, or
\* none at all.
Ask ==
    /\ pc = "build" /\ method = "none"
    /\ \/ rows' \in {<<Plain>>, <<>>}
       \/ \E delta \in [1 .. params -> {-1, 1}] :
             rows' = <<Moved(delta), Moved([i \in 1 .. params |-> -delta[i]])>>
    /\ pc' = "check"
    /\ UNCHANGED <<request, scanned, terms, mem, staging, issued, device, grad>>

-----------------------------------------------------------------------------
(* native::expectation_batch, on the host *)

Check ==
    /\ pc = "check"
    /\ pc' = IF observable = "other" \/ (rows # <<>> /\ ~sized) THEN "refused"
             ELSE IF rows = <<>> THEN "returned" ELSE "allocate"
    /\ UNCHANGED <<request, batch, mem, staging, issued, device, grad>>

Unused(buffer) == \/ buffer = "theta" /\ params = 0
                  \/ buffer = "masks" /\ observable = "empty"

Wanted == {buffer \in Buffers : ~Unused(buffer)}

Uninitialized == [arg |-> 0, bump |-> Garbage, shift |-> Garbage]

Allocate ==
    /\ pc = "allocate"
    /\ mem' = Wanted
    /\ path' = [b \in DOMAIN rows |-> <<<<Uninitialized>>>>]
    /\ pc' = "stage"
    /\ UNCHANGED <<request, batch, staging, issued, queue, loaded, energy, out,
                   grad>>

AllocationFails_Leaks ==
    /\ pc = "allocate"
    /\ \E got \in SUBSET Wanted : got # Wanted /\ mem' = got
    /\ pc' = "refused"
    /\ UNCHANGED <<request, batch, staging, issued, device, grad>>

\* Whatever was allocated is freed again before the throw.
AllocationFails ==
    /\ pc = "allocate"
    /\ mem' = {}
    /\ pc' = "refused"
    /\ UNCHANGED <<request, batch, staging, issued, device, grad>>

Stage ==
    /\ pc = "stage"
    /\ staging' = "alive"
    /\ pc' = "submit"
    /\ UNCHANGED <<request, batch, mem, issued, device, grad>>

Command(c) == [name |-> c, op |-> 0]

\* The commands, in the order they are submitted.
Program ==
    (IF Unused("theta") THEN <<>> ELSE <<Command("theta")>>)
        \o <<Command("shiftOp"), Command("shift")>>
        \o (IF Unused("masks") THEN <<>> ELSE <<Command("masks")>>)
        \o <<Command("zero"), Command("one")>>
        \o [k \in DOMAIN ops |-> [name |-> "gate", op |-> k]]
        \o <<Command("energy"), Command("out")>>

Submit_DropsStaging ==
    /\ pc = "submit"
    /\ queue' = Append(queue, Program[issued + 1])
    /\ issued' = issued + 1
    /\ staging' = IF Program[issued + 1].name = "shift" THEN "gone" ELSE staging
    /\ pc' = IF issued' = Len(Program) THEN "wait" ELSE "submit"
    /\ UNCHANGED <<request, batch, mem, loaded, path, energy, out, grad>>

Submit ==
    /\ pc = "submit"
    /\ queue' = Append(queue, Program[issued + 1])
    /\ issued' = issued + 1
    /\ pc' = IF issued' = Len(Program) THEN "wait" ELSE "submit"
    /\ UNCHANGED <<request, batch, mem, staging, loaded, path, energy, out, grad>>

Finish_NoWait ==
    /\ pc = "wait"
    /\ mem' = {} /\ staging' = "gone"
    /\ pc' = "returned"
    /\ UNCHANGED <<request, batch, issued, device, grad>>

\* The wait for the last copy, and with it for everything before it; then the
\* memory is freed and the staging buffers go out of scope.
Finish ==
    /\ pc = "wait" /\ queue = <<>>
    /\ mem' = {} /\ staging' = "gone"
    /\ pc' = "returned"
    /\ UNCHANGED <<request, batch, issued, device, grad>>

\* A call of SYCL throws, or the staging buffers cannot be had.  Nothing catches
\* it: the frees are passed over, and the staging buffers, declared after the
\* queue, are destroyed before it, with whatever was submitted still to run.
SubmissionThrows ==
    /\ pc \in {"stage", "submit", "wait"}
    /\ staging' = "gone"
    /\ pc' = "threw"
    /\ UNCHANGED <<request, batch, mem, issued, device, grad>>

-----------------------------------------------------------------------------
(* The device *)

\* The copies of the staging buffers read them when they run.
Source(name) == name \in {"shiftOp", "shift"} => staging = "alive"

\* A gate's angles, as its kernel works them out for a row from what was loaded.
DeviceAngle(r, k, j) ==
    LET meant == Angle(r, k, j) IN
    [arg   |-> meant.arg,
     bump  |-> IF meant.arg = 0 \/ "theta" \in loaded THEN meant.bump ELSE Garbage,
     shift |-> IF j > 1 \/ {"shiftOp", "shift"} \subseteq loaded
               THEN meant.shift ELSE Garbage]

Kernel(r, k) == [j \in DOMAIN ops[k].args |-> DeviceAngle(r, k, j)]

Copy(name) ==
    /\ name \in {"theta", "shiftOp", "shift", "masks"}
    /\ loaded' = IF Source(name) THEN loaded \cup {name} ELSE loaded
    /\ UNCHANGED <<path, energy, out>>

Zero ==
    /\ path' = [b \in DOMAIN rows |-> <<>>]
    /\ loaded' = loaded \ {"one"}
    /\ UNCHANGED <<energy, out>>

One == loaded' = loaded \cup {"one"} /\ UNCHANGED <<path, energy, out>>

ApplyGate(k) ==
    /\ path' = [b \in DOMAIN rows |-> Append(path[b], Kernel(rows[b], k))]
    /\ UNCHANGED <<loaded, energy, out>>

Energies ==
    /\ energy' = [b \in DOMAIN rows |->
                    IF {"one"} \cup ({"masks"} \cap Wanted) \subseteq loaded
                    THEN path[b]
                    ELSE Append(path[b], <<Uninitialized>>)]
    /\ UNCHANGED <<loaded, path, out>>

CopyOut == out' = energy /\ UNCHANGED <<loaded, path, energy>>

Run(c) ==
    \/ Copy(c.name)
    \/ c.name = "zero" /\ Zero
    \/ c.name = "one" /\ One
    \/ c.name = "gate" /\ ApplyGate(c.op)
    \/ c.name = "energy" /\ Energies
    \/ c.name = "out" /\ CopyOut

\* The queue is in-order: one command after the other, in submission order.
Execute ==
    /\ queue # <<>>
    /\ Run(Head(queue))
    /\ queue' = Tail(queue)
    /\ UNCHANGED <<request, pc, batch, mem, staging, issued, grad>>

-----------------------------------------------------------------------------
(* The caller *)

Combine_OffByOne ==
    /\ pc = "returned" /\ method # "none"
    /\ grad' = [i \in 1 .. params |->
                  {[weight |-> terms[t].weight, plus |-> out[2 * t - 1],
                    minus |-> out[2 * t]] :
                   t \in {u \in DOMAIN terms : terms[u].param = i}}]
    /\ pc' = "combined"
    /\ UNCHANGED <<request, batch, mem, staging, issued, device>>

\* Term t weighs the difference of its pair of energies, and adds to the entry
\* of its parameter: the entry is kept as the set of what was added to it.
Combine ==
    /\ pc = "returned" /\ method # "none"
    /\ grad' = [i \in 1 .. params |->
                  {[weight |-> terms[t].weight, plus |-> out[2 * t],
                    minus |-> out[2 * t + 1]] :
                   t \in {u \in DOMAIN terms : terms[u].param = i}}]
    /\ pc' = "combined"
    /\ UNCHANGED <<request, batch, mem, staging, issued, device>>

Next ==
    \/ BuildBatch \/ ScanOperation \/ BuildRefused \/ ScanParameter \/ EndScan
    \/ Ask
    \/ Check \/ Allocate \/ AllocationFails \/ Stage \/ Submit \/ Finish
    \/ SubmissionThrows
    \/ Execute
    \/ Combine

Spec == Init /\ [][Next]_vars

-----------------------------------------------------------------------------
(* What the evaluation promises *)

\* "Semantics of shifted evaluation live HERE, so host fallbacks and native
\* backends agree on them": an energy the native backend returns is that of the
\* circuit bind() makes for the request, which exists.
AgreesWithBind ==
    pc = "returned" =>
        \A b \in DOMAIN out : Bindable(rows[b]) /\ out[b] = Bound(rows[b])

\* The gradient is the parameter-shift rule, summed over every occurrence of a
\* parameter, each once, and nothing else, or its central difference.
GradientIsExact ==
    pc = "combined" =>
        /\ \A t, u \in DOMAIN terms : terms[t] = terms[u] => t = u
        /\ \A i \in 1 .. params :
            grad[i] = IF method = "difference"
                THEN {[weight |-> 0, plus |-> Bound(Bumped(i, 1)),
                       minus |-> Bound(Bumped(i, -1))]}
                ELSE {[weight |-> k, plus |-> Bound(Shifted(k, 1)),
                       minus |-> Bound(Shifted(k, -1))] :
                      k \in {l \in DOMAIN ops : ops[l].args = <<i>>}}

\* Nothing the device still has to run lacks what it reads or writes: no memory
\* is freed under it, and the staging buffers outlive their copies, but for those
\* an exception takes with it.
PendingWorkIsSafe ==
    queue # <<>> =>
        /\ mem = Wanted
        /\ pc # "threw" => \A i \in DOMAIN queue : Source(queue[i].name)

\* A result, a refused request and a failed allocation leave no device memory
\* behind.  An exception of SYCL's own does, and is not claimed here.
FreedOnExit == pc \in {"returned", "combined", "refused"} => mem = {}
=============================================================================
