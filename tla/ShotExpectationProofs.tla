----------------------- MODULE ShotExpectationProofs -----------------------
(***************************************************************************)
(* Proofs about ShotExpectation for every number of qubits and terms.      *)
(***************************************************************************)
EXTENDS ShotExpectation, SequenceTheorems, TLAPS

\* The step put term t in group i, the first one it fits in or a new one.
PutIn(i) ==
    /\ i \in 1 .. Len(groups') /\ Len(groups) <= Len(groups')
    /\ \A j \in 1 .. Len(groups') : j # i =>
          /\ j \in 1 .. Len(groups)
          /\ groups'[j] = groups[j] /\ groupBasis'[j] = groupBasis[j]
    /\ \A j \in 1 .. i - 1 : ~Compatible(masks[t], groupBasis[j])
    /\ \/ /\ i \in 1 .. Len(groups) /\ Compatible(masks[t], groupBasis[i])
          /\ groups'[i] = groups[i] \cup {t}
          /\ groupBasis'[i] = Merge(masks[t], groupBasis[i])
       \/ /\ i = Len(groups) + 1
          /\ groups'[i] = {t} /\ groupBasis'[i] = masks[t]

Place == PlaceInGroup \/ OpenGroup

\* A group's basis has the letter of each of its terms, and no other.
BasisOfMembers ==
    \A i \in 1 .. Len(groups) : \A q \in Qubits :
        /\ \A k \in groups[i] : masks[k][q] # "I" => groupBasis[i][q] = masks[k][q]
        /\ groupBasis[i][q] # "I" => \E k \in groups[i] : masks[k][q] = groupBasis[i][q]

\* A term in a later group fits in no earlier one.
FirstFit ==
    \A j \in 1 .. Len(groups) : \A i \in 1 .. j - 1 : \A k \in groups[j] :
        \E q \in Qubits : \E l \in groups[i] :
            masks[k][q] # "I" /\ masks[l][q] \notin {"I", masks[k][q]}

\* The groups measured so far are those whose terms the total has taken in.
CountedSoFar ==
    \A k \in 1 .. Len(masks) :
        counted[k] = IF shots /\ \E i \in 1 .. g - 1 : k \in groups[i] THEN 1 ELSE 0

Phases ==
    /\ pc = "group" => g = 1
    /\ pc # "group" => t = Len(masks) + 1
    /\ pc = "done" => g = Len(groups) + 1

GroupingInv == TypeOK /\ Partition /\ BasisOfMembers /\ FirstFit

IInv == GroupingInv /\ Phases /\ CountedSoFar

-----------------------------------------------------------------------------
(* Type correctness *)

LEMMA MergeType ==
    ASSUME NEW m \in Term, NEW b \in Term PROVE Merge(m, b) \in Term
BY DEF Merge, Term

LEMMA InitType == Init => TypeOK
<1> SUFFICES ASSUME Init PROVE TypeOK
  OBVIOUS
<1>1. PICK n \in 0 .. MaxTerms : masks \in [1 .. n -> Term]
  BY DEF Init
<1>2. masks \in Seq(Term) /\ Len(masks) = n
  BY <1>1, IsASeq, LenProperties, ShotAssumption
<1>3. n <= MaxTerms
  BY <1>1, ShotAssumption
<1>4. groups = <<>> /\ groupBasis = <<>> /\ t = 1 /\ g = 1
  BY DEF Init
<1>5. rotated \in [Qubits -> {"X", "Y", "Z"}] /\ counted \in [1 .. Len(masks) -> Nat]
  BY DEF Init
<1>6. shots \in BOOLEAN /\ pc \in {"group", "measure", "done"}
  BY DEF Init
<1> QED
  BY <1>2, <1>3, <1>4, <1>5, <1>6 DEF TypeOK

\* One group takes in the term, and the groups before it clash with the term.
LEMMA PlacePuts == TypeOK /\ Place => \E i \in Nat : PutIn(i)
<1> SUFFICES ASSUME TypeOK, Place PROVE \E i \in Nat : PutIn(i)
  OBVIOUS
<1> USE DEF TypeOK
<1>1. CASE PlaceInGroup
  <2>1. PICK i \in Fits(masks[t]) :
            /\ \A j \in Fits(masks[t]) : i <= j
            /\ groups' = [groups EXCEPT ![i] = groups[i] \cup {t}]
            /\ groupBasis' = [groupBasis EXCEPT ![i] = Merge(masks[t], groupBasis[i])]
    BY <1>1 DEF PlaceInGroup
  <2>2. i \in 1 .. Len(groups) /\ Compatible(masks[t], groupBasis[i])
    BY <2>1 DEF Fits
  <2>3. \A j \in 1 .. i - 1 : ~Compatible(masks[t], groupBasis[j])
    BY <2>1, <2>2 DEF Fits
  <2>4. /\ Len(groups') = Len(groups)
        /\ groups'[i] = groups[i] \cup {t}
        /\ groupBasis'[i] = Merge(masks[t], groupBasis[i])
        /\ \A j \in 1 .. Len(groups) : j # i =>
              groups'[j] = groups[j] /\ groupBasis'[j] = groupBasis[j]
    BY <2>1, <2>2
  <2>5. PutIn(i)
    BY <2>2, <2>3, <2>4 DEF PutIn
  <2> QED
    BY <2>2, <2>5
<1>2. CASE OpenGroup
  <2> DEFINE n == Len(groups) + 1
  <2>1. \A j \in 1 .. Len(groups) : ~Compatible(masks[t], groupBasis[j])
    BY <1>2 DEF OpenGroup, Fits
  <2>2. /\ Len(groups') = n
        /\ groups'[n] = {t} /\ groupBasis'[n] = masks[t]
        /\ \A j \in 1 .. Len(groups) :
              groups'[j] = groups[j] /\ groupBasis'[j] = groupBasis[j]
    BY <1>2 DEF OpenGroup
  <2>3. PutIn(n)
    BY <2>1, <2>2 DEF PutIn
  <2> QED
    BY <2>3
<1> QED
  BY <1>1, <1>2 DEF Place

LEMMA TypeStep == TypeOK /\ [Next]_vars => TypeOK'
<1> SUFFICES ASSUME TypeOK, [Next]_vars PROVE TypeOK'
  OBVIOUS
<1> USE DEF TypeOK
<1>1. CASE Place
  <2>1. t \in 1 .. Len(masks) /\ masks[t] \in Term
    BY <1>1 DEF Place, PlaceInGroup, OpenGroup
  <2>2. UNCHANGED <<masks, shots, pc, g, rotated, counted>> /\ t' = t + 1
    BY <1>1 DEF Place, PlaceInGroup, OpenGroup
  <2>3. /\ groups' \in Seq(SUBSET (1 .. Len(masks))) /\ groupBasis' \in Seq(Term)
        /\ Len(groupBasis') = Len(groups') /\ Len(groups) <= Len(groups')
    <3>1. CASE PlaceInGroup
      <4>1. PICK i \in 1 .. Len(groups) :
                /\ groups' = [groups EXCEPT ![i] = groups[i] \cup {t}]
                /\ groupBasis' = [groupBasis EXCEPT ![i] = Merge(masks[t], groupBasis[i])]
        BY <3>1 DEF PlaceInGroup, Fits
      <4>2. Merge(masks[t], groupBasis[i]) \in Term
        BY <2>1, MergeType
      <4>3. groups[i] \cup {t} \in SUBSET (1 .. Len(masks))
        BY <2>1
      <4> QED
        BY <4>1, <4>2, <4>3, ExceptSeq
    <3>2. CASE OpenGroup
      BY <2>1, <3>2, AppendProperties DEF OpenGroup
    <3> QED
      BY <1>1, <3>1, <3>2 DEF Place
  <2> QED
    BY <2>1, <2>2, <2>3
<1>2. CASE Grouped
  BY <1>2 DEF Grouped
<1>3. CASE Measure
  <2>1. rotated' \in [Qubits -> {"X", "Y", "Z"}]
    BY <1>3 DEF Measure, Rotation
  <2>2. counted' \in [1 .. Len(masks) -> Nat]
    BY <1>3 DEF Measure
  <2>3. g' \in 1 .. Len(groups) + 1
    BY <1>3 DEF Measure
  <2> QED
    BY <1>3, <2>1, <2>2, <2>3 DEF Measure
<1>4. CASE Finish
  BY <1>4 DEF Finish
<1>5. CASE UNCHANGED vars
  BY <1>5 DEF vars
<1> QED
  BY <1>1, <1>2, <1>3, <1>4, <1>5 DEF Next, Place

\* Terms, groups and bases keep their types, however many terms are placed.
THEOREM TypeCorrect == Spec => []TypeOK
BY InitType, TypeStep, PTL DEF Spec

-----------------------------------------------------------------------------
(* Grouping *)

LEMMA PlaceKeeps ==
    TypeOK /\ Place => /\ t \in 1 .. Len(masks) /\ masks[t] \in Term /\ t' = t + 1
                      /\ UNCHANGED <<masks, shots, pc, g, rotated, counted>>
BY DEF TypeOK, Place, PlaceInGroup, OpenGroup

\* The term placed is in the group that took it and in no other.
LEMMA PartitionStep == TypeOK /\ Partition /\ Place => Partition'
<1> SUFFICES ASSUME TypeOK, Partition, Place PROVE Partition'
  OBVIOUS
<1>0. t \in Nat \ {0} /\ t' = t + 1 /\ Len(groups) \in Nat
  BY PlaceKeeps DEF TypeOK
<1>1. PICK i \in Nat : PutIn(i)
  BY PlacePuts
<1>2. i \in 1 .. Len(groups') /\ t \in groups'[i]
  BY <1>1 DEF PutIn
<1>3. \A j \in 1 .. Len(groups') : groups'[j] # {} /\ groups'[j] \subseteq 1 .. t
  <2> TAKE j \in 1 .. Len(groups')
  <2>1. CASE j = i
    <3>1. CASE i \in 1 .. Len(groups)
      <4>1. groups[i] \subseteq 1 .. t - 1
        BY <3>1 DEF Partition
      <4>2. groups'[i] = groups[i] \cup {t}
        BY <1>0, <1>1, <3>1 DEF PutIn
      <4>3. t \in 1 .. t /\ 1 .. t - 1 \subseteq 1 .. t
        BY <1>0
      <4> QED
        BY <2>1, <4>1, <4>2, <4>3
    <3>2. CASE i = Len(groups) + 1
      <4>1. groups'[i] = {t}
        BY <1>0, <1>1, <3>2 DEF PutIn
      <4> QED
        BY <1>0, <2>1, <4>1
    <3> QED
      BY <1>1, <3>1, <3>2 DEF PutIn
  <2>2. CASE j # i
    BY <1>0, <1>1, <2>2 DEF PutIn, Partition
  <2> QED
    BY <2>1, <2>2
<1>4. \A j \in 1 .. Len(groups) : t \notin groups[j]
  BY <1>0 DEF Partition
<1>5. \A j \in 1 .. Len(groups') : t \in groups'[j] <=> j = i
  BY <1>1, <1>2, <1>4 DEF PutIn
<1>6. \A k \in 1 .. t - 1 : \A j \in 1 .. Len(groups') :
          k \in groups'[j] <=> j \in 1 .. Len(groups) /\ k \in groups[j]
  <2> TAKE k \in 1 .. t - 1
  <2> TAKE j \in 1 .. Len(groups')
  <2>1. k # t
    BY <1>0
  <2>2. CASE j = i
    BY <1>0, <1>1, <2>1, <2>2 DEF PutIn
  <2>3. CASE j # i
    BY <1>1, <2>3 DEF PutIn
  <2> QED
    BY <2>2, <2>3
<1>7. \A k \in 1 .. t' - 1 : \E j \in 1 .. Len(groups') : Placed(k)' = {j}
  <2> TAKE k \in 1 .. t' - 1
  <2>1. CASE k = t
    <3>1. \A j \in 1 .. Len(groups') : k \in groups'[j] <=> j = i
      BY <1>5, <2>1
    <3>2. Placed(k)' = {i}
      BY <1>2, <3>1 DEF Placed
    <3> QED
      BY <1>2, <3>2
  <2>2. CASE k # t
    <3>1. k \in 1 .. t - 1
      BY <1>0, <2>2
    <3>2. PICK j \in 1 .. Len(groups) : Placed(k) = {j}
      BY <3>1 DEF Partition
    <3>3. j \in 1 .. Len(groups')
      BY <1>0, <1>1 DEF PutIn
    <3>4. Placed(k)' = {j}
      BY <1>6, <3>1, <3>2, <3>3 DEF Placed
    <3> QED
      BY <3>3, <3>4
  <2> QED
    BY <2>1, <2>2
<1>8. \A j \in 1 .. Len(groups') : groups'[j] # {} /\ groups'[j] \subseteq 1 .. t' - 1
  BY <1>0, <1>3
<1> QED
  BY <1>7, <1>8 DEF Partition

\* Merging a compatible term's letters into a basis leaves the other terms'
\* letters alone.
LEMMA MergeAgrees ==
    ASSUME NEW m \in Term, NEW b \in Term, Compatible(m, b), NEW q \in Qubits
    PROVE  /\ m[q] # "I" => Merge(m, b)[q] = m[q]
           /\ b[q] # "I" => Merge(m, b)[q] = b[q]
           /\ Merge(m, b)[q] # "I" => Merge(m, b)[q] \in {m[q], b[q]} 
BY DEF Merge, Compatible

LEMMA BasisStep == TypeOK /\ BasisOfMembers /\ Place => BasisOfMembers'
<1> SUFFICES ASSUME TypeOK, BasisOfMembers, Place,
                    NEW j \in 1 .. Len(groups'), NEW q \in Qubits
             PROVE  /\ \A k \in groups'[j] :
                          masks[k][q] # "I" => groupBasis'[j][q] = masks[k][q]
                    /\ groupBasis'[j][q] # "I" =>
                          \E k \in groups'[j] : masks[k][q] = groupBasis'[j][q]
  BY PlaceKeeps DEF BasisOfMembers
<1>0. masks[t] \in Term
  BY PlaceKeeps
<1>1. PICK i \in Nat : PutIn(i)
  BY PlacePuts
<1>2. CASE j # i
  BY <1>1, <1>2 DEF PutIn, BasisOfMembers
<1>3. CASE j = i /\ i \in 1 .. Len(groups)
  <2>1. /\ Compatible(masks[t], groupBasis[i])
        /\ groups'[i] = groups[i] \cup {t}
        /\ groupBasis'[i] = Merge(masks[t], groupBasis[i])
    BY <1>1, <1>3 DEF PutIn, TypeOK
  <2>2. groupBasis[i] \in Term
    BY <1>3 DEF TypeOK
  <2>3. /\ masks[t][q] # "I" => groupBasis'[i][q] = masks[t][q]
        /\ groupBasis[i][q] # "I" => groupBasis'[i][q] = groupBasis[i][q]
        /\ groupBasis'[i][q] # "I" => groupBasis'[i][q] \in {masks[t][q], groupBasis[i][q]}
    BY <1>0, <2>1, <2>2, MergeAgrees
  <2>4. /\ \A k \in groups[i] : masks[k][q] # "I" => groupBasis[i][q] = masks[k][q]
        /\ groupBasis[i][q] # "I" =>
              \E k \in groups[i] : masks[k][q] = groupBasis[i][q]
    BY <1>3 DEF BasisOfMembers
  <2> QED
    BY <1>3, <2>1, <2>3, <2>4
<1>4. CASE j = i /\ i \notin 1 .. Len(groups)
  BY <1>1, <1>4 DEF PutIn
<1> QED
  BY <1>2, <1>3, <1>4

\* Where a term and a basis clash, a term of the basis's group does.
LEMMA FirstFitStep == TypeOK /\ BasisOfMembers /\ FirstFit /\ Place => FirstFit'
<1> DEFINE Clash(k, i, q) ==
        \E l \in groups[i] : masks[k][q] # "I" /\ masks[l][q] \notin {"I", masks[k][q]}
<1> SUFFICES ASSUME TypeOK, BasisOfMembers, FirstFit, Place PROVE FirstFit'
  OBVIOUS
<1> masks' = masks
  BY PlaceKeeps
<1> SUFFICES ASSUME NEW j \in 1 .. Len(groups'), NEW i \in 1 .. j - 1,
                    NEW k \in groups'[j]
             PROVE  \E q \in Qubits : \E l \in groups'[i] :
                        masks[k][q] # "I" /\ masks[l][q] \notin {"I", masks[k][q]}
  BY DEF FirstFit
<1>0. masks[t] \in Term /\ Len(groups) \in Nat
  BY PlaceKeeps DEF TypeOK
<1>1. PICK p \in Nat : PutIn(p)
  BY PlacePuts
<1>2. Len(groups') \in Nat /\ i \in 1 .. Len(groups)
  <2>1. Len(groups') \in Nat
    BY TypeStep DEF Next, Place, TypeOK
  <2>2. CASE i = p
    BY <1>0, <1>1, <2>1, <2>2 DEF PutIn
  <2>3. CASE i # p
    BY <1>0, <1>1, <2>1, <2>3 DEF PutIn
  <2> QED
    BY <2>1, <2>2, <2>3
<1>3. groups[i] \subseteq groups'[i]
  BY <1>0, <1>1, <1>2 DEF PutIn
<1>4. \E q \in Qubits : Clash(k, i, q)
  <2>1. CASE k = t /\ j = p
    <3>1. ~Compatible(masks[t], groupBasis[i])
      BY <1>1, <2>1 DEF PutIn
    <3>2. PICK q \in Qubits : masks[t][q] # "I" /\ groupBasis[i][q] \notin {"I", masks[t][q]}
      BY <3>1 DEF Compatible
    <3>3. PICK l \in groups[i] : masks[l][q] = groupBasis[i][q]
      BY <1>2, <3>2 DEF BasisOfMembers
    <3> QED
      BY <2>1, <3>2, <3>3
  <2>2. CASE ~(k = t /\ j = p)
    <3>1. j \in 1 .. Len(groups) /\ k \in groups[j]
      BY <1>1, <2>2 DEF PutIn
    <3> QED
      BY <3>1 DEF FirstFit
  <2> QED
    BY <2>1, <2>2
<1> QED
  BY <1>3, <1>4

LEMMA GroupingStep == GroupingInv /\ [Next]_vars => GroupingInv'
<1> SUFFICES ASSUME GroupingInv, [Next]_vars PROVE GroupingInv'
  OBVIOUS
<1>1. TypeOK'
  BY TypeStep DEF GroupingInv
<1>2. CASE Place
  BY <1>1, <1>2, PartitionStep, BasisStep, FirstFitStep DEF GroupingInv
<1>3. CASE UNCHANGED <<masks, t, groups, groupBasis>>
  <2>1. Partition'
    BY <1>3 DEF GroupingInv, Partition, Placed
  <2>2. BasisOfMembers' /\ FirstFit'
    BY <1>3 DEF GroupingInv, BasisOfMembers, FirstFit
  <2> QED
    BY <1>1, <2>1, <2>2 DEF GroupingInv
<1>4. Place \/ UNCHANGED <<masks, t, groups, groupBasis>>
  BY DEF Next, Place, Grouped, Measure, Finish, vars
<1> QED
  BY <1>2, <1>3, <1>4

LEMMA InitGrouping == Init => GroupingInv
<1> SUFFICES ASSUME Init PROVE GroupingInv
  OBVIOUS
<1>1. groups = <<>> /\ t = 1 /\ Len(groups) = 0
  BY DEF Init
<1> QED
  BY <1>1, InitType DEF GroupingInv, Partition, BasisOfMembers, FirstFit

\* The invariant of the grouping, for every observable.
THEOREM Grouping == Spec => []GroupingInv
BY InitGrouping, GroupingStep, PTL DEF Spec

\* Every placed term is in exactly one group.
THEOREM GroupsPartition == Spec => []Partition
BY Grouping, PTL DEF GroupingInv

LEMMA MembersAgree ==
    ASSUME GroupingInv, NEW i \in 1 .. Len(groups), NEW j \in groups[i],
           NEW q \in Qubits
    PROVE  /\ j \in 1 .. Len(masks) /\ masks[j] \in Term
           /\ masks[j][q] # "I" => masks[j][q] = groupBasis[i][q]
<1>1. j \in 1 .. Len(masks)
  BY DEF GroupingInv, TypeOK
<1>2. masks[j] \in Term
  BY <1>1 DEF GroupingInv, TypeOK
<1> QED
  BY <1>1, <1>2 DEF GroupingInv, BasisOfMembers

\* Terms that share a group commute qubit by qubit, although each of them was
\* compared with the group's basis only.
THEOREM GroupMembersCommute == Spec => []GroupsCommute
<1>1. GroupingInv => GroupsCommute
  <2> SUFFICES ASSUME GroupingInv, NEW i \in 1 .. Len(groups),
                      NEW j \in groups[i], NEW k \in groups[i], NEW q \in Qubits
               PROVE  \/ masks[j][q] = "I" \/ masks[k][q] = "I"
                      \/ masks[j][q] = masks[k][q]
    BY DEF GroupsCommute, QubitwiseCommute
  <2> QED
    BY MembersAgree
<1> QED
  BY <1>1, Grouping, PTL

\* The one circuit of a group reads each qubit in the basis that each of the
\* group's terms needs.
THEOREM OneRotationPerGroup == Spec => []RotationServesAll
<1>1. GroupingInv => RotationServesAll
  <2> SUFFICES ASSUME GroupingInv, NEW i \in 1 .. Len(groups),
                      NEW k \in groups[i], NEW q \in Qubits, masks[k][q] # "I"
               PROVE  Rotation(i)[q] = masks[k][q]
    BY DEF RotationServesAll
  <2>1. masks[k][q] \in {"X", "Y", "Z"}
    BY MembersAgree DEF Term, Letters
  <2>2. \A l \in groups[i] : masks[l][q] \in {"I", masks[k][q]}
    BY MembersAgree
  <2>3. /\ q \in NeedsY(i) <=> masks[k][q] = "Y"
        /\ q \in NeedsX(i) <=> masks[k][q] = "X"
    BY <2>1, <2>2 DEF NeedsY, NeedsX
  <2> QED
    BY <2>1, <2>3 DEF Rotation
<1> QED
  BY <1>1, Grouping, PTL

\* No two groups could have been one: the greedy choice wastes no circuit that
\* way.
THEOREM GroupsAreNeeded == Spec => []NoGroupToSpare
<1>1. GroupingInv => NoGroupToSpare
  <2> SUFFICES ASSUME GroupingInv, NEW i \in 1 .. Len(groups),
                      NEW j \in 1 .. Len(groups), i < j, NEW k \in groups[j]
               PROVE  \E l \in groups[i] : ~QubitwiseCommute(masks[k], masks[l])
    BY DEF NoGroupToSpare
  <2>1. i \in 1 .. j - 1
    BY DEF GroupingInv, TypeOK
  <2>2. PICK q \in Qubits : \E l \in groups[i] :
            masks[k][q] # "I" /\ masks[l][q] \notin {"I", masks[k][q]}
    BY <2>1 DEF GroupingInv, FirstFit
  <2> QED
    BY <2>2 DEF QubitwiseCommute
<1> QED
  BY <1>1, Grouping, PTL

-----------------------------------------------------------------------------
(* Counting *)

LEMMA PhasesStep == GroupingInv /\ Phases /\ [Next]_vars => Phases'
<1> SUFFICES ASSUME GroupingInv, Phases, [Next]_vars PROVE Phases'
  OBVIOUS
<1> USE DEF GroupingInv, TypeOK, Phases
<1>1. CASE Place
  BY <1>1 DEF Place, PlaceInGroup, OpenGroup
<1>2. CASE Grouped
  BY <1>2 DEF Grouped
<1>3. CASE Measure
  BY <1>3 DEF Measure
<1>4. CASE Finish
  <2>1. Len(groups) \in Nat /\ g \in Nat /\ g <= Len(groups) + 1
    OBVIOUS
  <2>2. g = Len(groups) + 1
    BY <1>4, <2>1 DEF Finish
  <2> QED
    BY <1>4, <2>2 DEF Finish
<1>5. CASE UNCHANGED vars
  BY <1>5 DEF vars
<1> QED
  BY <1>1, <1>2, <1>3, <1>4, <1>5 DEF Next, Place

\* The group a measurement takes in has none of the terms counted before.
LEMMA CountedStep ==
    GroupingInv /\ Phases /\ CountedSoFar /\ [Next]_vars => CountedSoFar'
<1> SUFFICES ASSUME GroupingInv, Phases, CountedSoFar, [Next]_vars
             PROVE  CountedSoFar'
  OBVIOUS
<1>1. CASE Place
  <2>1. g = 1 /\ UNCHANGED <<masks, shots, g, counted>>
    BY <1>1, PlaceKeeps DEF GroupingInv, Phases, Place, PlaceInGroup, OpenGroup
  <2> QED
    BY <2>1 DEF CountedSoFar
<1>2. CASE Measure
  <2>1. g \in 1 .. Len(groups) /\ Len(groups) \in Nat
    BY <1>2 DEF Measure, GroupingInv, TypeOK
  <2>0. g' - 1 = g /\ UNCHANGED <<masks, shots, groups>>
    BY <1>2, <2>1 DEF Measure
  <2> SUFFICES \A k \in 1 .. Len(masks) :
          counted'[k] = IF shots /\ \E i \in 1 .. g : k \in groups[i] THEN 1 ELSE 0
    BY <2>0, Zenon DEF CountedSoFar
  <2> TAKE k \in 1 .. Len(masks)
  <2>2. counted[k] = IF shots /\ \E i \in 1 .. g - 1 : k \in groups[i] THEN 1 ELSE 0
    BY DEF CountedSoFar
  <2>3. k \in DOMAIN counted
    BY DEF GroupingInv, TypeOK
  <2>4. CASE ~shots
    BY <1>2, <2>2, <2>4 DEF Measure
  <2>5. CASE shots /\ k \in groups[g]
    <3>1. k \in 1 .. t - 1
      BY <2>1, <2>5 DEF GroupingInv, Partition
    <3>2. PICK p \in 1 .. Len(groups) : Placed(k) = {p}
      BY <3>1 DEF GroupingInv, Partition
    <3>3. \A i \in 1 .. Len(groups) : k \in groups[i] <=> i = p
      BY <3>2 DEF Placed
    <3>4. \A i \in 1 .. g - 1 : k \notin groups[i]
      BY <2>1, <2>5, <3>3
    <3>5. counted'[k] = counted[k] + 1
      BY <1>2, <2>3, <2>5 DEF Measure
    <3> QED
      BY <2>1, <2>2, <2>5, <3>4, <3>5
  <2>6. CASE shots /\ k \notin groups[g]
    <3>1. counted'[k] = counted[k]
      BY <1>2, <2>3, <2>6 DEF Measure
    <3> QED
      BY <2>1, <2>2, <2>6, <3>1
  <2> QED
    BY <2>4, <2>5, <2>6
<1>3. CASE UNCHANGED <<masks, shots, groups, g, counted>>
  BY <1>3 DEF CountedSoFar
<1>4. Place \/ Measure \/ UNCHANGED <<masks, shots, groups, g, counted>>
  BY DEF Next, Place, Grouped, Finish, vars
<1> QED
  BY <1>1, <1>2, <1>3, <1>4

LEMMA InitCounted == Init => Phases /\ CountedSoFar
<1> SUFFICES ASSUME Init PROVE Phases /\ CountedSoFar
  OBVIOUS
<1>1. Phases
  BY DEF Init, Phases
<1>2. CountedSoFar
  BY DEF Init, CountedSoFar
<1> QED
  BY <1>1, <1>2

\* The total takes in every term of the observable exactly once, or none of
\* them when no shots are asked for.
THEOREM TermsCountedOnce == Spec => []EveryTermCounted
<1>1. Init => IInv
  BY InitGrouping, InitCounted DEF IInv
<1>2. IInv /\ [Next]_vars => IInv'
  BY GroupingStep, PhasesStep, CountedStep DEF IInv
<1>3. IInv => EveryTermCounted
  <2> SUFFICES ASSUME IInv, pc = "done", NEW k \in 1 .. Len(masks)
               PROVE  counted[k] = IF shots THEN 1 ELSE 0
    BY DEF EveryTermCounted
  <2>1. k \in 1 .. t - 1 /\ 1 .. g - 1 = 1 .. Len(groups)
    BY DEF IInv, GroupingInv, TypeOK, Phases
  <2>2. \E i \in 1 .. g - 1 : k \in groups[i]
    BY <2>1 DEF IInv, GroupingInv, Partition, Placed
  <2> QED
    BY <2>2 DEF IInv, CountedSoFar
<1> QED
  BY <1>1, <1>2, <1>3, PTL DEF Spec
=============================================================================
