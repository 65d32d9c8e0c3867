-------------------------- MODULE ShotExpectation --------------------------
(***************************************************************************)
(* shot_based_expectation: the terms of an observable are grouped greedily *)
(* into qubit-wise commuting groups (group_qwc), then every group is       *)
(* measured with one circuit, rotated so that each of its terms reads in   *)
(* the computational basis.  Amplitudes and signs are left out: what is    *)
(* modelled is which terms a circuit measures, in which bases, and which   *)
(* terms the total has taken in.                                           *)
(***************************************************************************)
EXTENDS Naturals, Sequences, FiniteSets

CONSTANTS
    Qubits,      \* the qubits of the observable
    MaxTerms     \* terms in an observable (a bound)

ASSUME ShotAssumption == MaxTerms \in Nat

Letters == {"I", "X", "Y", "Z"}

VARIABLES
    masks,       \* the observable's terms: a letter per qubit
    shots,       \* whether any shot is asked for
    pc,          \* "group", "measure" or "done"
    t,           \* the term being placed
    groups,      \* terms of each group
    groupBasis,  \* the letter each group has fixed for a qubit, "I" for none
    g,           \* the group being measured
    rotated,     \* letter each qubit of the submitted circuit is read in
    counted      \* how often each term entered the total

vars == <<masks, shots, pc, t, groups, groupBasis, g, rotated, counted>>

Term == [Qubits -> Letters]

TypeOK ==
    /\ masks \in Seq(Term) /\ Len(masks) <= MaxTerms
    /\ shots \in BOOLEAN
    /\ pc \in {"group", "measure", "done"}
    /\ t \in 1 .. Len(masks) + 1
    /\ groups \in Seq(SUBSET (1 .. Len(masks)))
    /\ groupBasis \in Seq(Term)
    /\ Len(groupBasis) = Len(groups)
    /\ g \in 1 .. Len(groups) + 1
    /\ rotated \in [Qubits -> {"X", "Y", "Z"}]
    /\ counted \in [1 .. Len(masks) -> Nat]

Init ==
    /\ \E n \in 0 .. MaxTerms : masks \in [1 .. n -> Term]
    /\ shots \in BOOLEAN
    /\ pc = "group" /\ t = 1 /\ groups = <<>> /\ groupBasis = <<>>
    /\ g = 1 /\ rotated = [q \in Qubits |-> "Z"]
    /\ counted = [i \in 1 .. Len(masks) |-> 0]

-----------------------------------------------------------------------------
(* group_qwc *)

Compatible_SharedQubitOnly(m, b) ==
    \E q \in Qubits : b[q] = "I" \/ b[q] = m[q]

\* A term fits a group when every qubit it acts on is free there, or fixed to
\* the same letter.
Compatible(m, b) ==
    \A q \in Qubits : m[q] # "I" => b[q] \in {"I", m[q]}

\* The qubits the term acts on are fixed to its letters.
Merge(m, b) == [q \in Qubits |-> IF m[q] # "I" THEN m[q] ELSE b[q]]

Fits(m) == {i \in 1 .. Len(groups) : Compatible(m, groupBasis[i])}

PlaceInGroup_Everywhere ==
    /\ pc = "group" /\ t <= Len(masks) /\ Fits(masks[t]) # {}
    /\ groups' = [i \in DOMAIN groups |->
                    IF i \in Fits(masks[t]) THEN groups[i] \cup {t} ELSE groups[i]]
    /\ groupBasis' = [i \in DOMAIN groups |->
                        IF i \in Fits(masks[t]) THEN Merge(masks[t], groupBasis[i])
                                                ELSE groupBasis[i]]
    /\ t' = t + 1
    /\ UNCHANGED <<masks, shots, pc, g, rotated, counted>>

\* The first group the term fits in takes it.
PlaceInGroup ==
    /\ pc = "group" /\ t <= Len(masks)
    /\ \E i \in Fits(masks[t]) :
          /\ \A j \in Fits(masks[t]) : i <= j
          /\ groups' = [groups EXCEPT ![i] = @ \cup {t}]
          /\ groupBasis' = [groupBasis EXCEPT ![i] = Merge(masks[t], @)]
    /\ t' = t + 1
    /\ UNCHANGED <<masks, shots, pc, g, rotated, counted>>

OpenGroup_NoBasis ==
    /\ pc = "group" /\ t <= Len(masks) /\ Fits(masks[t]) = {}
    /\ groups' = Append(groups, {t})
    /\ t' = t + 1
    /\ UNCHANGED <<masks, shots, pc, groupBasis, g, rotated, counted>>

OpenGroup_Eager ==
    /\ pc = "group" /\ t <= Len(masks)
    /\ groups' = Append(groups, {t})
    /\ groupBasis' = Append(groupBasis, masks[t])
    /\ t' = t + 1
    /\ UNCHANGED <<masks, shots, pc, g, rotated, counted>>

\* A term that fits nowhere opens a group.
OpenGroup ==
    /\ pc = "group" /\ t <= Len(masks) /\ Fits(masks[t]) = {}
    /\ groups' = Append(groups, {t})
    /\ groupBasis' = Append(groupBasis, masks[t])
    /\ t' = t + 1
    /\ UNCHANGED <<masks, shots, pc, g, rotated, counted>>

Grouped ==
    /\ pc = "group" /\ t > Len(masks)
    /\ pc' = "measure"
    /\ UNCHANGED <<masks, shots, t, groups, groupBasis, g, rotated, counted>>

-----------------------------------------------------------------------------
(* The measurement loop *)

\* needs_y and needs_x: the masks of the group's terms, OR-ed.
NeedsY(i) == {q \in Qubits : \E k \in groups[i] : masks[k][q] = "Y"}
NeedsX(i) == {q \in Qubits : \E k \in groups[i] : masks[k][q] = "X"}

\* S-dagger then H for Y, H for X, nothing for Z and I.
Rotation(i) ==
    [q \in Qubits |-> IF q \in NeedsY(i) THEN "Y"
                      ELSE IF q \in NeedsX(i) THEN "X" ELSE "Z"]

Measure_FirstTermOnly ==
    /\ pc = "measure" /\ g <= Len(groups)
    /\ rotated' = Rotation(g)
    /\ counted' = IF shots
                  THEN [k \in DOMAIN counted |->
                          IF \E j \in groups[g] : k = j /\ \A l \in groups[g] : j <= l
                          THEN counted[k] + 1 ELSE counted[k]]
                  ELSE counted
    /\ g' = g + 1
    /\ UNCHANGED <<masks, shots, pc, t, groups, groupBasis>>

\* A circuit of its own for every group: bound, rotated, initialized, applied
\* and sampled; its outcomes are read for each of its terms.  Without outcomes
\* the group is skipped.
Measure ==
    /\ pc = "measure" /\ g <= Len(groups)
    /\ rotated' = Rotation(g)
    /\ counted' = IF shots
                  THEN [k \in DOMAIN counted |->
                          IF k \in groups[g] THEN counted[k] + 1 ELSE counted[k]]
                  ELSE counted
    /\ g' = g + 1
    /\ UNCHANGED <<masks, shots, pc, t, groups, groupBasis>>

Finish ==
    /\ pc = "measure" /\ g > Len(groups)
    /\ pc' = "done"
    /\ UNCHANGED <<masks, shots, t, groups, groupBasis, g, rotated, counted>>

Next == PlaceInGroup \/ OpenGroup \/ Grouped \/ Measure \/ Finish

Spec == Init /\ [][Next]_vars

-----------------------------------------------------------------------------
(* What the estimate relies on *)

Placed(k) == {i \in 1 .. Len(groups) : k \in groups[i]}

\* Every placed term is in exactly one group, and no group holds another.
Partition ==
    /\ \A k \in 1 .. t - 1 : \E i \in 1 .. Len(groups) : Placed(k) = {i}
    /\ \A i \in 1 .. Len(groups) :
          groups[i] # {} /\ groups[i] \subseteq 1 .. t - 1

QubitwiseCommute(m, n) ==
    \A q \in Qubits : m[q] = "I" \/ n[q] = "I" \/ m[q] = n[q]

\* "Every term in a QWC group agrees on each qubit's basis by construction": any
\* two terms of a group commute qubit by qubit, although each was compared with
\* the group's basis only.
GroupsCommute ==
    \A i \in 1 .. Len(groups) : \A j, k \in groups[i] :
        QubitwiseCommute(masks[j], masks[k])

\* OR-ing the masks of a group is safe: the rotation chosen for a qubit is the
\* one each of the group's terms on that qubit needs.
RotationServesAll ==
    \A i \in 1 .. Len(groups) : \A k \in groups[i] : \A q \in Qubits :
        masks[k][q] # "I" => Rotation(i)[q] = masks[k][q]

\* The grouping is greedy: a term of a later group clashes with some term of
\* every earlier one, so no two groups could have been one.
NoGroupToSpare ==
    \A i, j \in 1 .. Len(groups) : i < j =>
        \A k \in groups[j] :
            \E l \in groups[i] : ~QubitwiseCommute(masks[k], masks[l])

\* The total takes in every term once, unless no shots were asked for: then it
\* takes in none, not even an identity term's constant.
EveryTermCounted ==
    pc = "done" =>
        \A k \in 1 .. Len(masks) : counted[k] = IF shots THEN 1 ELSE 0
=============================================================================
