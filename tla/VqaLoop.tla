------------------------------ MODULE VqaLoop ------------------------------
(***************************************************************************)
(* run_restarts over VQA::minimize: the host's optimization loop, or the   *)
(* native one (run_native_vqa_core), whose parameters live on the          *)
(* optimizer's device.  A parameter vector stands for the restart it is of *)
(* and the updates made to it; an energy is whatever the backend answers,  *)
(* infinite and not-a-number included.                                     *)
(***************************************************************************)
EXTENDS Integers, Sequences, FiniteSets

CONSTANTS
    MaxRestarts,    \* restarts asked for (a bound)
    MaxIterations,  \* largest max_iterations asked for (a bound)
    Finite,         \* the finite energies
    Tolerance,      \* VQAOptions::tolerance
    GradientBatch   \* requests in the ansatz's gradient batch

ASSUME VqaAssumption ==
    /\ MaxRestarts \in Nat /\ MaxIterations \in Nat
    /\ Finite \subseteq Nat
    /\ Tolerance \in Nat
    /\ GradientBatch \in Nat \ {0}

NaN == -1
Infinity == -2
MinusInfinity == -3
Energies == Finite \cup {NaN, Infinity, MinusInfinity}

VARIABLES
    restarts,    \* restarts asked for
    limit,       \* max_iterations
    optimizer,   \* "SPSA", or "gradient" for Adam and gradient descent
    native,      \* whether the backend runs the optimization itself
    pc,          \* where the caller is
    r,           \* the restart in progress, counted from 1
    k,           \* its iteration
    theta,       \* the host's parameters: <<restart, updates>>
    thetaDev,    \* the optimizer device's
    allocated,   \* device arrays of the optimizer
    prev,        \* the energy of the iteration before
    result,      \* the VQAResult being filled
    sweep        \* what run_restarts has gathered

options == <<restarts, limit, optimizer, native>>
vars == <<restarts, limit, optimizer, native, pc, r, k, theta, thetaDev,
          allocated, prev, result, sweep>>

Parameters == (0 .. MaxRestarts) \X (0 .. MaxIterations)

NoResult == [theta |-> <<0, 0>>, energy |-> 0, measuredAt |-> <<0, 0>>,
             iterations |-> 0, evaluations |-> 0, history |-> <<>>,
             converged |-> FALSE]

TypeOK ==
    /\ restarts \in 0 .. MaxRestarts /\ limit \in 0 .. MaxIterations
    /\ optimizer \in {"SPSA", "gradient"} /\ native \in BOOLEAN
    /\ pc \in {"sweep", "upload", "loop", "final", "judge", "returned", "failed"}
    /\ r \in 0 .. restarts /\ k \in 0 .. limit
    /\ theta \in Parameters /\ thetaDev \in Parameters
    /\ allocated \subseteq {"theta", "grad", "m", "v"}
    /\ prev \in Energies \cup {0}
    /\ result.history \in Seq(Energies) /\ Len(result.history) <= limit
    /\ result.iterations \in 0 .. limit
    /\ sweep.energies \in Seq(Energies) /\ Len(sweep.energies) <= restarts
    /\ sweep.bestRestart \in 0 .. restarts
    /\ {result.evaluations, sweep.evaluations} \subseteq Nat

Init ==
    /\ restarts \in 0 .. MaxRestarts /\ limit \in 0 .. MaxIterations
    /\ optimizer \in {"SPSA", "gradient"} /\ native \in BOOLEAN
    /\ pc = "sweep" /\ r = 0 /\ k = 0
    /\ theta = <<0, 0>> /\ thetaDev = <<0, 0>> /\ allocated = {}
    /\ prev = 0 /\ result = NoResult
    /\ sweep = [best |-> NoResult, bestEnergy |-> Infinity, bestRestart |-> 0,
                energies |-> <<>>, evaluations |-> 0]

-----------------------------------------------------------------------------
(* Comparisons of doubles *)

\* a < b
Below(a, b) ==
    /\ NaN \notin {a, b} /\ a # b
    /\ a = MinusInfinity \/ b = Infinity \/ ({a, b} \subseteq Finite /\ a < b)

\* fabs(a - b) < tolerance
Close(a, b) ==
    {a, b} \subseteq Finite /\ a - b < Tolerance /\ b - a < Tolerance

-----------------------------------------------------------------------------
(* minimize() *)

BatchSize == IF optimizer = "SPSA" THEN 2 ELSE GradientBatch

Updated(t) == <<t[1], t[2] + 1>>

\* The next restart, from a starting point of its own; the seed differs too.
StartRestart ==
    /\ pc = "sweep" /\ r < restarts
    /\ r' = r + 1 /\ k' = 0
    /\ theta' = <<r + 1, 0>>
    /\ prev' = 0 /\ result' = NoResult
    /\ pc' = IF native THEN "upload" ELSE "loop"
    /\ UNCHANGED <<options, thetaDev, allocated, sweep>>

\* The optimizer's state moves to its device; m and v are Adam's.
Upload ==
    /\ pc = "upload"
    /\ allocated' \in {{"theta", "grad"}, {"theta", "grad", "m", "v"}}
    /\ optimizer = "SPSA" => "m" \notin allocated'
    /\ thetaDev' = theta
    /\ pc' = "loop"
    /\ UNCHANGED <<options, r, k, theta, prev, result, sweep>>

\* An allocation fails; the others are freed and the call throws.
UploadFails ==
    /\ pc = "upload"
    /\ pc' = "failed"
    /\ UNCHANGED <<options, r, k, theta, thetaDev, allocated, prev, result,
                   sweep>>

Iterate_StalePrev ==
    /\ pc = "loop" /\ k < limit
    /\ IF native
       THEN thetaDev' = Updated(thetaDev) /\ theta' = thetaDev'
       ELSE theta' = Updated(theta) /\ UNCHANGED thetaDev
    /\ \E e \in Energies :
          LET done == k > 0 /\ Close(e, prev) IN
          /\ result' = [result EXCEPT !.history = Append(@, e),
                                      !.iterations = k + 1,
                                      !.evaluations = @ + BatchSize,
                                      !.converged = done]
          /\ pc' = IF done THEN "final" ELSE "loop"
          /\ prev' = IF k = 0 THEN e ELSE prev
    /\ k' = k + 1
    /\ UNCHANGED <<options, r, allocated, sweep>>

Iterate_NoReadBack ==
    /\ pc = "loop" /\ k < limit
    /\ IF native
       THEN thetaDev' = Updated(thetaDev) /\ UNCHANGED theta
       ELSE theta' = Updated(theta) /\ UNCHANGED thetaDev
    /\ \E e \in Energies :
          LET done == k > 0 /\ Close(e, prev) IN
          /\ result' = [result EXCEPT !.history = Append(@, e),
                                      !.iterations = k + 1,
                                      !.evaluations = @ + BatchSize,
                                      !.converged = done]
          /\ pc' = IF done THEN "final" ELSE "loop"
          /\ prev' = IF done THEN prev ELSE e
    /\ k' = k + 1
    /\ UNCHANGED <<options, r, allocated, sweep>>

\* One iteration: the batch is evaluated at theta, theta is updated, on the
\* device and read back when the loop is native, and the energy is compared
\* with that of the iteration before.
Iterate ==
    /\ pc = "loop" /\ k < limit
    /\ IF native
       THEN thetaDev' = Updated(thetaDev) /\ theta' = thetaDev'
       ELSE theta' = Updated(theta) /\ UNCHANGED thetaDev
    /\ \E e \in Energies :
          LET done == k > 0 /\ Close(e, prev) IN
          /\ result' = [result EXCEPT !.history = Append(@, e),
                                      !.iterations = k + 1,
                                      !.evaluations = @ + BatchSize,
                                      !.converged = done]
          /\ pc' = IF done THEN "final" ELSE "loop"
          /\ prev' = IF done THEN prev ELSE e
    /\ k' = k + 1
    /\ UNCHANGED <<options, r, allocated, sweep>>

\* The backend throws out of an evaluation, which reaches the caller; a native
\* loop's device arrays are not freed.
EvaluationFails ==
    /\ pc = "loop" /\ k < limit
    /\ pc' = "failed"
    /\ UNCHANGED <<options, r, k, theta, thetaDev, allocated, prev, result,
                   sweep>>

EndLoop ==
    /\ pc = "loop" /\ k = limit
    /\ pc' = "final"
    /\ UNCHANGED <<options, r, k, theta, thetaDev, allocated, prev, result,
                   sweep>>

\* The arrays are freed, and the energy of the final parameters is evaluated.
Conclude ==
    /\ pc = "final"
    /\ allocated' = {}
    /\ \E e \in Energies :
          result' = [result EXCEPT !.theta = theta, !.energy = e,
                                   !.measuredAt = theta, !.evaluations = @ + 1]
    /\ pc' = "judge"
    /\ UNCHANGED <<options, r, k, theta, thetaDev, prev, sweep>>

ConclusionFails ==
    /\ pc = "final"
    /\ allocated' = {}
    /\ pc' = "failed"
    /\ UNCHANGED <<options, r, k, theta, thetaDev, prev, result, sweep>>

-----------------------------------------------------------------------------
(* run_restarts() *)

Improves_NotAbove(e) == ~Below(sweep.bestEnergy, e)

\* Written so that a not-a-number energy is never selected as the best.
Improves(e) == Below(e, sweep.bestEnergy)

Judge_CountsBest ==
    /\ pc = "judge"
    /\ LET better == Improves(result.energy) IN
       sweep' = [best |-> IF better THEN result ELSE sweep.best,
                 bestEnergy |-> IF better THEN result.energy ELSE sweep.bestEnergy,
                 bestRestart |-> IF better THEN r + 1 ELSE sweep.bestRestart,
                 energies |-> Append(sweep.energies, result.energy),
                 evaluations |-> sweep.evaluations + result.evaluations]
    /\ pc' = "sweep"
    /\ UNCHANGED <<options, r, k, theta, thetaDev, allocated, prev, result>>

Judge ==
    /\ pc = "judge"
    /\ LET better == Improves(result.energy) IN
       sweep' = [best |-> IF better THEN result ELSE sweep.best,
                 bestEnergy |-> IF better THEN result.energy ELSE sweep.bestEnergy,
                 bestRestart |-> IF better THEN r ELSE sweep.bestRestart,
                 energies |-> Append(sweep.energies, result.energy),
                 evaluations |-> sweep.evaluations + result.evaluations]
    /\ pc' = "sweep"
    /\ UNCHANGED <<options, r, k, theta, thetaDev, allocated, prev, result>>

\* Without a restart, or when none has beaten the infinite energy it starts
\* from, the sweep throws.
EndSweep ==
    /\ pc = "sweep" /\ r = restarts
    /\ pc' = IF Below(sweep.bestEnergy, Infinity) THEN "returned" ELSE "failed"
    /\ UNCHANGED <<options, r, k, theta, thetaDev, allocated, prev, result,
                   sweep>>

Next ==
    \/ StartRestart \/ Upload \/ UploadFails
    \/ Iterate \/ EvaluationFails \/ EndLoop \/ Conclude \/ ConclusionFails
    \/ Judge \/ EndSweep

Spec == Init /\ [][Next]_vars

-----------------------------------------------------------------------------
(* What the results promise *)

\* A result is of one point: its theta has gone through exactly the iterations
\* reported, wherever they were computed, and its energy was measured there.
ResultOfOnePoint ==
    pc = "judge" =>
        /\ result.theta = <<r, result.iterations>>
        /\ result.measuredAt = result.theta
        /\ Len(result.history) = result.iterations

\* converged says that the last two energies of the history are within the
\* tolerance, and the loop stops at the first such pair: otherwise it has used
\* up its iterations.
StopsAtFirstPlateau ==
    pc = "judge" =>
        LET h == result.history IN
        /\ \A i \in 2 .. Len(h) :
              Close(h[i], h[i - 1]) <=> (i = Len(h) /\ result.converged)
        /\ ~result.converged => result.iterations = limit

\* The restart returned is the first of those with the lowest energy, whatever
\* the others gave: never one that is not a number or plus infinity.  An
\* energy of minus infinity is the lowest there is, and wins.
BestIsLowest ==
    pc = "returned" =>
        LET won == sweep.energies[sweep.bestRestart] IN
        /\ won \in Finite \cup {MinusInfinity} /\ sweep.best.energy = won
        /\ \A i \in 1 .. Len(sweep.energies) :
              /\ ~Below(sweep.energies[i], won)
              /\ i < sweep.bestRestart => sweep.energies[i] # won
=============================================================================
