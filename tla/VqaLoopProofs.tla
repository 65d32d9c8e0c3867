--------------------------- MODULE VqaLoopProofs ---------------------------
(***************************************************************************)
(* Proofs about VqaLoop for every number of restarts and iterations, every *)
(* set of energies and every tolerance.                                    *)
(***************************************************************************)
EXTENDS VqaLoop, TLAPS

Results ==
    [theta : Parameters, energy : Energies \cup {0}, measuredAt : Parameters,
     iterations : Nat, evaluations : Nat, history : Seq(Energies),
     converged : BOOLEAN]

Sweeps ==
    [best : Results, bestEnergy : Energies, bestRestart : Nat,
     energies : Seq(Energies), evaluations : Nat]

Running == pc \in {"upload", "loop", "final"}

\* The loop is at one point: theta has gone through k updates, wherever they
\* were made, and the history has an energy for each.
AtOnePoint ==
    /\ pc \in {"upload", "loop", "final", "judge"} => r \in 1 .. restarts
    /\ Running =>
          /\ theta = <<r, k>>
          /\ result.iterations = k /\ Len(result.history) = k
    /\ native /\ pc \in {"loop", "final"} => thetaDev = theta
    /\ pc = "upload" => k = 0
    /\ pc = "judge" => result.energy \in Energies

\* The history so far has no plateau, and prev is its last energy.
Steep(h) == \A i \in 2 .. Len(h) : ~Close(h[i], h[i - 1])

Searching ==
    pc \in {"upload", "loop"} =>
        /\ ~result.converged /\ Steep(result.history)
        /\ k > 0 => prev = result.history[k]

Ended(h) ==
    /\ \A i \in 2 .. Len(h) :
          Close(h[i], h[i - 1]) <=> (i = Len(h) /\ result.converged)
    /\ ~result.converged => result.iterations = limit

PlateauFound == pc \in {"final", "judge"} => Ended(result.history)

\* Of the restarts judged so far, the best is the first of the lowest.
BestSoFar ==
    LET es == sweep.energies IN
    /\ pc \in {"sweep", "returned"} => Len(es) = r
    /\ pc \in {"upload", "loop", "final", "judge"} => Len(es) = r - 1
    /\ sweep.bestRestart \in 0 .. Len(es)
    /\ \A i \in 1 .. Len(es) : ~Below(es[i], sweep.bestEnergy)
    /\ sweep.bestRestart = 0 => sweep.bestEnergy = Infinity
    /\ sweep.bestRestart # 0 =>
          /\ es[sweep.bestRestart] = sweep.bestEnergy
          /\ sweep.best.energy = sweep.bestEnergy
          /\ sweep.bestEnergy \in Finite \cup {MinusInfinity}
          /\ \A i \in 1 .. sweep.bestRestart - 1 : es[i] # sweep.bestEnergy

Returning == pc = "returned" => Below(sweep.bestEnergy, Infinity)

IInv ==
    /\ TypeOK /\ result \in Results /\ sweep \in Sweeps
    /\ Len(sweep.energies) <= r
    /\ AtOnePoint /\ Searching /\ PlateauFound /\ ResultOfOnePoint
    /\ BestSoFar /\ Returning
-----------------------------------------------------------------------------
(* Energies *)

\* Plus infinity and NaN are below nothing.
LEMMA BelowIsSome ==
    \A a, b \in Energies : Below(a, b) => a \in Finite \cup {MinusInfinity}
BY DEF Energies, Below

\* What was not below the best is not below, nor equal to, a new best.
LEMMA BelowImproves ==
    \A a, b, c \in Energies : ~Below(a, b) /\ Below(c, b) => ~Below(a, c) /\ a # c
BY VqaAssumption DEF Energies, Below, NaN, Infinity, MinusInfinity

LEMMA NotBelowItself == \A a \in Energies : ~Below(a, a)
BY VqaAssumption DEF Energies, Below, NaN, Infinity, MinusInfinity

LEMMA Appended ==
    ASSUME NEW S, NEW s \in Seq(S), NEW e \in S
    PROVE  /\ Append(s, e) \in Seq(S)
           /\ Len(Append(s, e)) = Len(s) + 1
           /\ \A i \in 1 .. Len(s) : Append(s, e)[i] = s[i]
           /\ Append(s, e)[Len(s) + 1] = e
OBVIOUS

-----------------------------------------------------------------------------
(* The inductive invariant *)

LEMMA InitIInv == Init => IInv
<1> SUFFICES ASSUME Init PROVE IInv
  OBVIOUS
<1> USE VqaAssumption DEF Init
<1>1. NoResult \in Results
  BY DEF NoResult, Results, Parameters
<1>2. sweep \in Sweeps /\ Len(sweep.energies) <= r
  BY <1>1 DEF Sweeps, Energies
<1>3. TypeOK
  BY <1>1, <1>2 DEF TypeOK, Parameters, NoResult, Energies
<1>4. AtOnePoint /\ Searching /\ PlateauFound /\ ResultOfOnePoint /\ Returning
  BY DEF AtOnePoint, Running, Searching, PlateauFound, ResultOfOnePoint, Returning
<1>5. BestSoFar
  BY DEF BestSoFar
<1> QED BY <1>1, <1>2, <1>3, <1>4, <1>5 DEF IInv

\* One iteration: the history grows by one energy, in step with the updates.
LEMMA IterateStep == IInv /\ Iterate => IInv'
<1> SUFFICES ASSUME IInv, Iterate PROVE IInv'
  OBVIOUS
<1> USE VqaAssumption
<1>0. PICK e \in Energies :
        LET done == k > 0 /\ Close(e, prev) IN
        /\ result' = [result EXCEPT !.history = Append(@, e),
                                    !.iterations = k + 1,
                                    !.evaluations = @ + BatchSize,
                                    !.converged = done]
        /\ pc' = IF done THEN "final" ELSE "loop"
        /\ prev' = IF done THEN prev ELSE e
  BY DEF Iterate
<1> DEFINE h == result.history
           done == k > 0 /\ Close(e, prev)
<1>1. /\ result \in Results /\ h \in Seq(Energies) /\ Len(h) = k /\ k \in Nat
      /\ k < limit /\ theta = <<r, k>> /\ r \in Nat /\ result.evaluations \in Nat
      /\ native => thetaDev = theta
      /\ limit \in 0 .. MaxIterations /\ r \in 0 .. MaxRestarts
  BY DEF IInv, Iterate, AtOnePoint, Running, Results, TypeOK
<1>2. BatchSize \in Nat
  BY DEF BatchSize
<1>3. /\ result'.history = Append(h, e) /\ result'.iterations = k + 1
      /\ result'.evaluations = result.evaluations + BatchSize
      /\ result'.converged = done
      /\ result' \in Results
  <2>1. Append(h, e) \in Seq(Energies)
    BY <1>1, Appended
  <2>2. k + 1 \in Nat /\ result.evaluations + BatchSize \in Nat
    BY <1>1, <1>2
  <2>3. done \in BOOLEAN
    BY DEF Close
  <2> QED BY <1>0, <1>1, <2>1, <2>2, <2>3 DEF Results
<1>4. /\ theta' = <<r, k + 1>> /\ theta' \in Parameters
      /\ native => thetaDev' = theta'
      /\ ~native => thetaDev' = thetaDev
  BY <1>1 DEF Iterate, Updated, Parameters
<1>5. /\ Len(result'.history) = k + 1
      /\ \A i \in 1 .. k : result'.history[i] = h[i]
      /\ result'.history[k + 1] = e
  BY <1>1, <1>3, Appended
<1>6. TypeOK'
  <2>1. prev' \in Energies \cup {0}
    BY <1>0 DEF IInv, TypeOK
  <2>2. thetaDev' \in Parameters
    BY <1>4 DEF IInv, TypeOK
  <2>3. /\ result'.history \in Seq(Energies) /\ Len(result'.history) <= limit'
        /\ result'.iterations \in 0 .. limit'
        /\ result'.evaluations \in Nat
    <3>1. limit' = limit
      BY DEF Iterate, options
    <3>2. result'.history \in Seq(Energies) /\ result'.evaluations \in Nat
      BY <1>3 DEF Results
    <3> QED BY <1>1, <1>3, <1>5, <3>1, <3>2
  <2>4. k' \in 0 .. limit' /\ pc' \in {"final", "loop"}
    BY <1>0, <1>1 DEF Iterate, options
  <2> QED BY <1>4, <2>1, <2>2, <2>3, <2>4 DEF IInv, TypeOK, Iterate, options
<1>7. AtOnePoint'
  BY <1>0, <1>1, <1>3, <1>4, <1>5 DEF IInv, AtOnePoint, Running, Iterate, options
<1>8. \A i \in 2 .. k : ~Close(result'.history[i], result'.history[i - 1])
  <2> SUFFICES ASSUME NEW i \in 2 .. k
               PROVE  ~Close(result'.history[i], result'.history[i - 1])
    OBVIOUS
  <2>1. result'.history[i] = h[i] /\ result'.history[i - 1] = h[i - 1]
    BY <1>1, <1>5
  <2>2. ~Close(h[i], h[i - 1])
    BY <1>1 DEF IInv, Searching, Steep, Iterate
  <2> QED BY <2>1, <2>2
<1>9. k > 0 => result'.history[k] = prev
  BY <1>1, <1>5 DEF IInv, Searching, Iterate
<1>10. CASE done
  <2>1. pc' = "final" /\ k > 0 /\ result'.converged
    BY <1>0, <1>3, <1>10
  <2>2. Close(result'.history[k + 1], result'.history[k])
    BY <1>5, <1>9, <1>10
  <2>3. PlateauFound'
    BY <1>1, <1>5, <1>8, <2>1, <2>2 DEF PlateauFound, Ended
  <2> QED BY <1>1, <1>3, <1>6, <1>7, <2>1, <2>3
          DEF IInv, Searching, ResultOfOnePoint, BestSoFar, Returning, Iterate, options
<1>11. CASE ~done
  <2>1. pc' = "loop" /\ prev' = e /\ ~result'.converged
    BY <1>0, <1>3, <1>11
  <2>2. k > 0 => ~Close(result'.history[k + 1], result'.history[k])
    BY <1>5, <1>9, <1>11
  <2>3. Steep(result'.history)
    BY <1>1, <1>5, <1>8, <2>2 DEF Steep
  <2>4. Searching'
    BY <1>1, <1>5, <2>1, <2>3 DEF Searching, Iterate
  <2> QED BY <1>1, <1>3, <1>6, <1>7, <2>1, <2>4
          DEF IInv, PlateauFound, ResultOfOnePoint, BestSoFar, Returning, Iterate, options
<1> QED BY <1>10, <1>11

\* A restart is judged: the best so far is kept or replaced.
LEMMA JudgeStep == IInv /\ Judge => IInv'
<1> SUFFICES ASSUME IInv, Judge PROVE IInv'
  OBVIOUS
<1> USE VqaAssumption
<1> DEFINE es == sweep.energies
           e == result.energy
           better == Below(e, sweep.bestEnergy)
<1>1. /\ result \in Results /\ sweep \in Sweeps /\ es \in Seq(Energies)
      /\ Len(es) = r - 1 /\ r \in 1 .. restarts /\ restarts \in Nat
      /\ e \in Energies
      /\ sweep.bestEnergy \in Energies /\ sweep.bestRestart \in 0 .. r - 1
      /\ sweep.evaluations \in Nat /\ result.evaluations \in Nat
  BY DEF IInv, Judge, AtOnePoint, BestSoFar, Sweeps, Results, TypeOK
<1>2. /\ sweep'.best = IF better THEN result ELSE sweep.best
      /\ sweep'.bestEnergy = IF better THEN e ELSE sweep.bestEnergy
      /\ sweep'.bestRestart = IF better THEN r ELSE sweep.bestRestart
      /\ sweep'.energies = Append(es, e)
      /\ sweep'.evaluations = sweep.evaluations + result.evaluations
      /\ sweep' = [best |-> sweep'.best, bestEnergy |-> sweep'.bestEnergy,
                   bestRestart |-> sweep'.bestRestart, energies |-> sweep'.energies,
                   evaluations |-> sweep'.evaluations]
  BY DEF Judge, Improves
<1>3. /\ sweep'.energies \in Seq(Energies) /\ Len(sweep'.energies) = r
      /\ \A i \in 1 .. r - 1 : sweep'.energies[i] = es[i]
      /\ sweep'.energies[r] = e
  BY <1>1, <1>2, Appended
<1>4. sweep' \in Sweeps
  <2>1. sweep'.best \in Results /\ sweep'.bestEnergy \in Energies
        /\ sweep'.bestRestart \in Nat /\ sweep'.evaluations \in Nat
    BY <1>1, <1>2 DEF Sweeps
  <2> QED BY <1>2, <1>3, <2>1 DEF Sweeps
<1>5. sweep'.bestRestart \in 0 .. r
  BY <1>1, <1>2
<1>6. TypeOK'
  BY <1>1, <1>3, <1>4, <1>5 DEF IInv, TypeOK, Judge, options, Sweeps
<1>7. BestSoFar'
  <2>1. CASE better
    <3>1. sweep'.bestRestart = r /\ sweep'.bestEnergy = e /\ sweep'.best.energy = e
      BY <1>2, <2>1
    <3>2. e \in Finite \cup {MinusInfinity}
      BY <1>1, <2>1, BelowIsSome
    <3>3. \A i \in 1 .. r - 1 : ~Below(es[i], e) /\ es[i] # e
      <4> SUFFICES ASSUME NEW i \in 1 .. r - 1 PROVE ~Below(es[i], e) /\ es[i] # e
        OBVIOUS
      <4>1. es[i] \in Energies /\ ~Below(es[i], sweep.bestEnergy)
        BY <1>1 DEF IInv, BestSoFar
      <4> QED BY <1>1, <2>1, <4>1, BelowImproves
    <3>4. \A i \in 1 .. r : ~Below(sweep'.energies[i], e)
      BY <1>1, <1>3, <3>3, NotBelowItself, SMTT(20)
    <3> QED BY <1>1, <1>3, <3>1, <3>2, <3>3, <3>4 DEF BestSoFar, Judge
  <2>2. CASE ~better
    <3>1. /\ sweep'.bestRestart = sweep.bestRestart
          /\ sweep'.bestEnergy = sweep.bestEnergy /\ sweep'.best = sweep.best
      BY <1>2, <2>2
    <3>2. \A i \in 1 .. r : ~Below(sweep'.energies[i], sweep.bestEnergy)
      BY <1>1, <1>3, <2>2 DEF IInv, BestSoFar
    <3> QED BY <1>1, <1>3, <3>1, <3>2 DEF IInv, BestSoFar, Judge
  <2> QED BY <2>1, <2>2
<1> QED BY <1>1, <1>3, <1>4, <1>6, <1>7
        DEF IInv, AtOnePoint, Running, Searching, PlateauFound, ResultOfOnePoint,
            Returning, Judge, options

\* The other steps leave the history, or the sweep, as it is.
LEMMA QuietStep ==
    IInv /\ (StartRestart \/ Upload \/ UploadFails \/ EvaluationFails \/ EndLoop
                \/ Conclude \/ ConclusionFails \/ EndSweep \/ UNCHANGED vars) => IInv'
<1> SUFFICES ASSUME IInv PROVE
      StartRestart \/ Upload \/ UploadFails \/ EvaluationFails \/ EndLoop
         \/ Conclude \/ ConclusionFails \/ EndSweep \/ UNCHANGED vars => IInv'
  OBVIOUS
<1> USE VqaAssumption
<1>1. CASE StartRestart
  <2>1. /\ result' = NoResult /\ theta' \in Parameters /\ r' \in 1 .. restarts
        /\ NoResult \in Results /\ Len(NoResult.history) = 0
        /\ NoResult.history \in Seq(Energies)
        /\ NoResult.iterations = 0 /\ NoResult.evaluations = 0 /\ ~NoResult.converged
    <3>1. NoResult \in Results
      BY DEF NoResult, Results, Parameters
    <3>2. /\ Len(NoResult.history) = 0 /\ NoResult.history \in Seq(Energies)
          /\ NoResult.iterations = 0 /\ NoResult.evaluations = 0 /\ ~NoResult.converged
      BY DEF NoResult
    <3>3. r + 1 \in 1 .. restarts /\ r + 1 \in 0 .. MaxRestarts /\ 0 \in 0 .. MaxIterations
      BY <1>1 DEF StartRestart, IInv, TypeOK
    <3>4. result' = NoResult /\ r' = r + 1 /\ theta' = <<r + 1, 0>>
      BY <1>1 DEF StartRestart
    <3> QED BY <3>1, <3>2, <3>3, <3>4 DEF Parameters
  <2>2. TypeOK'
    BY <1>1, <2>1 DEF StartRestart, IInv, TypeOK, options
  <2>3. AtOnePoint' /\ Searching' /\ PlateauFound' /\ ResultOfOnePoint' /\ Returning'
    <3>1. pc' = IF native THEN "upload" ELSE "loop"
      BY <1>1 DEF StartRestart
    <3> QED BY <1>1, <2>1, <3>1 DEF StartRestart, AtOnePoint, Running, Searching, Steep,
              PlateauFound, ResultOfOnePoint, Returning, options
  <2>4. BestSoFar' /\ Len(sweep'.energies) <= r'
    BY <1>1 DEF StartRestart, IInv, BestSoFar, TypeOK
  <2> QED BY <1>1, <2>1, <2>2, <2>3, <2>4 DEF StartRestart, IInv
<1>2. CASE Upload
  BY <1>2 DEF Upload, IInv, TypeOK, AtOnePoint, Running, Searching, PlateauFound,
      ResultOfOnePoint, BestSoFar, Returning, options
<1>3. CASE UploadFails \/ EvaluationFails
  BY <1>3 DEF UploadFails, EvaluationFails, IInv, TypeOK, AtOnePoint, Running, Searching,
      PlateauFound, ResultOfOnePoint, BestSoFar, Returning, options
<1>4. CASE EndLoop
  BY <1>4 DEF EndLoop, IInv, TypeOK, AtOnePoint, Running, Searching, Steep, PlateauFound,
      Ended, ResultOfOnePoint, BestSoFar, Returning, options, Results
<1>5. CASE Conclude
  <2>0. PICK e \in Energies :
          result' = [result EXCEPT !.theta = theta, !.energy = e,
                                   !.measuredAt = theta, !.evaluations = @ + 1]
    BY <1>5 DEF Conclude
  <2>1. /\ result'.theta = theta /\ result'.energy = e /\ result'.measuredAt = theta
        /\ result'.evaluations = result.evaluations + 1
        /\ result'.history = result.history /\ result'.iterations = result.iterations
        /\ result'.converged = result.converged /\ result' \in Results
    <3>1. result \in Results /\ theta \in Parameters
      BY DEF IInv, TypeOK
    <3>2. result.evaluations + 1 \in Nat
      BY <3>1 DEF Results
    <3> QED BY <2>0, <3>1, <3>2 DEF Results
  <2>2. TypeOK'
    BY <1>5, <2>1 DEF Conclude, IInv, TypeOK, options, Results
  <2>3. AtOnePoint' /\ ResultOfOnePoint' /\ PlateauFound'
    BY <1>5, <2>1 DEF Conclude, IInv, AtOnePoint, Running, ResultOfOnePoint, PlateauFound,
        Ended, options
  <2> QED BY <1>5, <2>1, <2>2, <2>3 DEF Conclude, IInv, Searching, BestSoFar, Returning
<1>6. CASE ConclusionFails
  BY <1>6 DEF ConclusionFails, IInv, TypeOK, AtOnePoint, Running, Searching, PlateauFound,
      ResultOfOnePoint, BestSoFar, Returning, options
<1>7. CASE EndSweep
  BY <1>7 DEF EndSweep, IInv, TypeOK, AtOnePoint, Running, Searching, PlateauFound,
      ResultOfOnePoint, BestSoFar, Returning, options
<1>8. CASE UNCHANGED vars
  BY <1>8 DEF vars, IInv, TypeOK, AtOnePoint, Running, Searching, Steep, PlateauFound,
      Ended, ResultOfOnePoint, BestSoFar, Returning, Close, Below
<1> QED BY <1>1, <1>2, <1>3, <1>4, <1>5, <1>6, <1>7, <1>8

LEMMA InductiveStep == IInv /\ [Next]_vars => IInv'
BY IterateStep, JudgeStep, QuietStep DEF Next

LEMMA Invariant == Spec => []IInv
BY InitIInv, InductiveStep, PTL DEF Spec

-----------------------------------------------------------------------------
(* What follows *)

\* Every variable keeps its type: no counter of the loops passes what the caller
\* asked for.
THEOREM TypeCorrect == Spec => []TypeOK
<1>1. IInv => TypeOK
  BY DEF IInv
<1> QED BY <1>1, Invariant, PTL

\* A result is of one point, with the host's loop and with the native one.
THEOREM OnePoint == Spec => []ResultOfOnePoint
<1>1. IInv => ResultOfOnePoint
  BY DEF IInv
<1> QED BY <1>1, Invariant, PTL

\* The loop stops at the first plateau, or has used up its iterations.
THEOREM FirstPlateau == Spec => []StopsAtFirstPlateau
<1>1. IInv => StopsAtFirstPlateau
  BY DEF IInv, PlateauFound, Ended, StopsAtFirstPlateau
<1> QED BY <1>1, Invariant, PTL

\* The restart returned is the first of those with the lowest energy, even among
\* energies that are infinite, either way, or not a number.
THEOREM LowestWins == Spec => []BestIsLowest
<1>1. IInv => BestIsLowest
  <2> SUFFICES ASSUME IInv, pc = "returned"
               PROVE  LET won == sweep.energies[sweep.bestRestart] IN
                      /\ won \in Finite \cup {MinusInfinity} /\ sweep.best.energy = won
                      /\ \A i \in 1 .. Len(sweep.energies) :
                            /\ ~Below(sweep.energies[i], won)
                            /\ i < sweep.bestRestart => sweep.energies[i] # won
    BY DEF BestIsLowest
  <2>1. Below(sweep.bestEnergy, Infinity)
    BY DEF IInv, Returning
  <2>2. sweep.bestRestart # 0
    BY <2>1 DEF IInv, BestSoFar, Below
  <2> QED BY <2>2 DEF IInv, BestSoFar, Sweeps
<1> QED BY <1>1, Invariant, PTL
=============================================================================
