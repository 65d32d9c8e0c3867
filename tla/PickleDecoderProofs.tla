------------------------ MODULE PickleDecoderProofs ------------------------
(***************************************************************************)
(* Proofs about PickleDecoder: every reply that a pickler of protocol 3 or *)
(* 4 writes, of any size and shape, is decoded without an error, and to    *)
(* what it means.                                                          *)
(***************************************************************************)
EXTENDS PickleDecoder, SequenceTheorems, WellFoundedInduction, TLAPS

(* The reply *)

\* What the pickler may rely on of the objects of a reply, object 0 included.
LEMMA ReplyFacts ==
    ASSUME reply \in Replies
    PROVE  /\ Last \in Nat /\ Last > 0 /\ DOMAIN reply = 1 .. Last
           /\ Kids(0) = <<1>> /\ Size(0) = 1 /\ Kids(0)[1] = 1 /\ Kind(0) = "reply"
           /\ \A i \in 1 .. Last :
                 /\ Kids(i) = reply[i].kids /\ Kind(i) = reply[i].kind
                 /\ Kind(i) \in Kinds /\ Kids(i) \in Seq(Nat)
           /\ \A i \in 0 .. Last :
                 /\ Size(i) \in Nat /\ DOMAIN Kids(i) = 1 .. Size(i)
                 /\ Kind(i) \in {"atom", "str"} => Size(i) = 0
                 /\ \A k \in 1 .. Size(i) : Kids(i)[k] \in i + 1 .. Last
                 /\ Kind(i) = "dict" =>
                       /\ Size(i) % 2 = 0
                       /\ \A k \in 1 .. Size(i) :
                             k % 2 = 1 => Kind(Kids(i)[k]) \in {"atom", "str"}
<1>1. /\ reply \in Seq(Object) /\ reply # <<>>
      /\ \A i \in DOMAIN reply :
            /\ reply[i].kind \in {"atom", "str"} => reply[i].kids = <<>>
            /\ \A k \in DOMAIN reply[i].kids : reply[i].kids[k] \in i + 1 .. Len(reply)
            /\ reply[i].kind = "dict" =>
                  /\ Len(reply[i].kids) % 2 = 0
                  /\ \A k \in DOMAIN reply[i].kids :
                        k % 2 = 1 => reply[reply[i].kids[k]].kind \in {"atom", "str"}
  BY PickleAssumption
<1>2. Last \in Nat /\ Last > 0 /\ DOMAIN reply = 1 .. Last
  BY <1>1 DEF Last
<1>3. \A i \in 1 .. Last : reply[i] \in Object
  BY <1>1 DEF Last
<1>4. \A i \in 1 .. Last :
         reply[i].kind \in Kinds /\ reply[i].kids \in Seq(Nat)
  BY <1>3 DEF Object
<1>5. \A i \in 1 .. Last : Kids(i) = reply[i].kids /\ Kind(i) = reply[i].kind
  BY <1>2 DEF Kids, Kind
<1>6. Kids(0) = <<1>> /\ Size(0) = 1 /\ Kids(0)[1] = 1 /\ Kind(0) = "reply"
  BY DEF Kids, Kind, Size
<1>7. ASSUME NEW i \in 1 .. Last
      PROVE  /\ Size(i) \in Nat /\ DOMAIN Kids(i) = 1 .. Size(i)
             /\ Kind(i) \in {"atom", "str"} => Size(i) = 0
             /\ \A k \in 1 .. Size(i) : Kids(i)[k] \in i + 1 .. Last
             /\ Kind(i) = "dict" =>
                   /\ Size(i) % 2 = 0
                   /\ \A k \in 1 .. Size(i) :
                         k % 2 = 1 => Kind(Kids(i)[k]) \in {"atom", "str"}
  <2>1. Size(i) \in Nat /\ DOMAIN Kids(i) = 1 .. Size(i)
    BY <1>4, <1>5 DEF Size
  <2>6. /\ reply[i].kind \in {"atom", "str"} => reply[i].kids = <<>>
        /\ reply[i].kind = "dict" =>
              /\ Len(reply[i].kids) % 2 = 0
              /\ \A k \in DOMAIN reply[i].kids :
                    k % 2 = 1 => reply[reply[i].kids[k]].kind \in {"atom", "str"}
    BY <1>1, <1>2
  <2>2. Kind(i) \in {"atom", "str"} => Size(i) = 0
    BY <1>5, <2>6, EmptySeq DEF Size
  <2>3. \A k \in 1 .. Size(i) : Kids(i)[k] \in i + 1 .. Last
    BY <1>1, <1>2, <1>5, <2>1 DEF Last
  <2>4. ASSUME Kind(i) = "dict"
        PROVE  /\ Size(i) % 2 = 0
               /\ \A k \in 1 .. Size(i) :
                     k % 2 = 1 => reply[Kids(i)[k]].kind \in {"atom", "str"}
    BY <1>5, <2>1, <2>4, <2>6 DEF Size
  <2>5. \A k \in 1 .. Size(i) : Kind(Kids(i)[k]) = reply[Kids(i)[k]].kind
    BY <1>2, <1>5, <2>1, <2>3
  <2> QED
    BY <2>1, <2>2, <2>3, <2>4, <2>5
<1>8. /\ Size(0) \in Nat /\ DOMAIN Kids(0) = 1 .. Size(0)
      /\ \A k \in 1 .. Size(0) : Kids(0)[k] \in 1 .. Last
  BY <1>2 DEF Kids, Size
<1>9. \A i \in 0 .. Last : i = 0 \/ i \in 1 .. Last
  BY <1>2
<1> HIDE DEF Last
<1>10. /\ \A k \in 1 .. Size(0) : Kids(0)[k] \in 0 + 1 .. Last
       /\ Kind(0) \notin {"atom", "str", "dict"}
  BY <1>6, <1>8
<1> QED
  BY <1>2, <1>4, <1>5, <1>6, <1>7, <1>8, <1>9, <1>10

-----------------------------------------------------------------------------
(* What its objects mean *)

Values == MeantBy(reply)

\* The meaning of an object, given that of its parts.
Meant(g, i) ==
    LET o == reply[i]
        parts == [k \in DOMAIN o.kids |-> g[o.kids[k]]] IN
    CASE o.kind = "atom" -> Json("atom", o.text, <<>>, {})
      [] o.kind = "str" -> Json("string", o.text, <<>>, {})
      [] o.kind \in {"list", "tuple"} -> Json("array", "", parts, {})
      [] o.kind = "dict" ->
            Json("object", "", <<>>,
                 {<<Key(parts[k]), parts[k + 1]>> : k \in Keys(parts)})

LEMMA MeantIsLocal ==
    ASSUME NEW g, NEW h, NEW i,
           \A k \in DOMAIN reply[i].kids : g[reply[i].kids[k]] = h[reply[i].kids[k]]
    PROVE  Meant(g, i) = Meant(h, i)
<1>1. [k \in DOMAIN reply[i].kids |-> g[reply[i].kids[k]]]
      = [k \in DOMAIN reply[i].kids |-> h[reply[i].kids[k]]]
  OBVIOUS
<1> QED
  BY <1>1 DEF Meant

\* The objects are given their meanings from the last to the first.
LEMMA MeaningExists ==
    ASSUME reply \in Replies
    PROVE  \E g : g = [i \in DOMAIN reply |-> Meant(g, i)]
<1> DEFINE From(n, g) ==
        /\ g = [i \in 1 .. Last |-> g[i]]
        /\ \A i \in 1 .. Last : i > Last - n => g[i] = Meant(g, i)
           Fails == {n \in 0 .. Last : ~ \E g : From(n, g)}
<1>1. Last \in Nat /\ DOMAIN reply = 1 .. Last
  BY ReplyFacts
<1>2. From(0, [i \in 1 .. Last |-> Null])
  BY <1>1
<1>3. ASSUME NEW n \in 1 .. Last, NEW g, From(n - 1, g)
      PROVE  \E h : From(n, h)
  <2> DEFINE h == [i \in 1 .. Last |-> IF i = Last - n + 1 THEN Meant(g, i) ELSE g[i]]
  <2>1. ASSUME NEW i \in 1 .. Last, i > Last - n
        PROVE  h[i] = Meant(h, i)
    <3>1. \A k \in DOMAIN reply[i].kids : reply[i].kids[k] \in i + 1 .. Last
      BY ReplyFacts
    <3>2. \A k \in DOMAIN reply[i].kids : h[reply[i].kids[k]] = g[reply[i].kids[k]]
      BY <1>1, <2>1, <3>1
    <3>3. Meant(h, i) = Meant(g, i)
      <4> HIDE DEF h
      <4> QED
        BY <3>2, MeantIsLocal
    <3>4. h[i] = Meant(g, i)
      BY <1>1, <1>3, <2>1
    <3> QED
      BY <3>3, <3>4
  <2>2. h = [i \in 1 .. Last |-> h[i]]
    OBVIOUS
  <2>3. From(n, h)
    <3> HIDE DEF h
    <3> QED
      BY <2>1, <2>2
  <2> QED
    BY <2>3
<1>4. Fails = {}
  <2> SUFFICES ASSUME Fails # {} PROVE FALSE
    OBVIOUS
  <2> DEFINE Less == OpToRel(<, Nat)
  <2>1. Fails \subseteq Nat
    BY <1>1
  <2>2. PICK n \in Fails : \A m \in Fails : ~ (<<m, n>> \in Less)
    <3> HIDE DEF Fails
    <3> QED
      BY <2>1, WFMin, NatLessThanWellFounded, Zenon
  <2>3. n # 0
    <3> HIDE DEF From
    <3> QED
      BY <1>2
  <2>4. n - 1 \in 0 .. Last /\ n - 1 \in Nat /\ n \in 1 .. Last /\ n - 1 < n
    BY <1>1, <2>3
  <2>5. <<n - 1, n>> \in Less
    BY <2>4, <2>1, Zenon DEF OpToRel
  <2>6. n - 1 \notin Fails
    <3> HIDE DEF Less, Fails
    <3> QED
      BY <2>2, <2>5
  <2>7. PICK g : From(n - 1, g)
    <3> HIDE DEF From
    <3> QED
      BY <2>4, <2>6
  <2> HIDE DEF From
  <2> QED
    BY <1>3, <2>4, <2>7
<1>5. PICK g : From(Last, g)
  <2> HIDE DEF From
  <2>1. Last \in 0 .. Last
    BY <1>1
  <2>2. Last \notin Fails
    <3> HIDE DEF Fails
    <3> QED
      BY <1>4
  <2> QED
    BY <2>1, <2>2
<1>6. \A i \in 1 .. Last : g[i] = Meant(g, i)
  BY <1>1, <1>5
<1>7. g = [i \in 1 .. Last |-> Meant(g, i)]
  BY <1>5, <1>6
<1> QED
  BY <1>1, <1>7

LEMMA MeaningOfParts ==
    ASSUME reply \in Replies
    PROVE  \A i \in 1 .. Last : Values[i] = Meant(Values, i)
<1>1. Values = [i \in DOMAIN reply |-> Meant(Values, i)]
  BY MeaningExists DEF Values, MeantBy, Meant
<1>2. DOMAIN reply = 1 .. Last
  BY ReplyFacts
<1> HIDE DEF Values
<1> QED
  BY <1>1, <1>2
\* What an object's JSON is when its first m parts are in it.
Partial(i, m) ==
    CASE Kind(i) = "list" ->
            Json("array", "", [k \in 1 .. m |-> Values[Kids(i)[k]]], {})
      [] Kind(i) = "dict" ->
            Json("object", "", <<>>,
                 {<<Key(Values[Kids(i)[k]]), Values[Kids(i)[k + 1]]>> :
                  k \in {k \in 1 .. m : k % 2 = 1}})
      [] OTHER -> Values[i]

JKind(i) ==
    CASE Kind(i) = "atom" -> "atom"
      [] Kind(i) = "str" -> "string"
      [] Kind(i) = "dict" -> "object"
      [] OTHER -> "array"

JKinds == {"atom", "string", "array", "object"}

Clean == ~Aliased /\ ~KeysCollide

LEMMA ScalarMeaning ==
    ASSUME reply \in Replies, NEW i \in 1 .. Last, Kind(i) \in {"atom", "str"}
    PROVE  Values[i] = Json(JKind(i), reply[i].text, <<>>, {})
<1>1. Values[i] = Meant(Values, i) /\ Kind(i) = reply[i].kind
  BY MeaningOfParts, ReplyFacts
<1> QED
  BY <1>1 DEF Meant, JKind

LEMMA WholeMeaning ==
    ASSUME reply \in Replies, NEW i \in 1 .. Last
    PROVE  /\ Partial(i, Size(i)) = Values[i]
           /\ Kind(i) = "tuple" =>
                 Values[i] = Json("array", "",
                                  [k \in 1 .. Size(i) |-> Values[Kids(i)[k]]], {})
<1> DEFINE parts == [k \in 1 .. Size(i) |-> Values[Kids(i)[k]]]
           pairs == {<<Key(Values[Kids(i)[k]]), Values[Kids(i)[k + 1]]>> :
                     k \in {k \in 1 .. Size(i) : k % 2 = 1}}
<1>1. /\ Values[i] = Meant(Values, i)
      /\ Kids(i) = reply[i].kids /\ Kind(i) = reply[i].kind /\ Kind(i) \in Kinds
      /\ Size(i) \in Nat /\ DOMAIN Kids(i) = 1 .. Size(i)
      /\ Kind(i) = "dict" => Size(i) % 2 = 0
  BY MeaningOfParts, ReplyFacts
<1>2. parts = [k \in DOMAIN reply[i].kids |-> Values[reply[i].kids[k]]]
  BY <1>1
<1>3. ASSUME Kind(i) = "dict"
      PROVE  pairs = {<<Key(parts[k]), parts[k + 1]>> : k \in Keys(parts)}
  <2>1. Keys(parts) = {k \in 1 .. Size(i) : k % 2 = 1}
    BY DEF Keys
  <2>2. \A k \in Keys(parts) : k \in 1 .. Size(i) /\ k + 1 \in 1 .. Size(i)
    BY <1>1, <1>3, <2>1
  <2>3. \A k \in Keys(parts) :
           parts[k] = Values[Kids(i)[k]] /\ parts[k + 1] = Values[Kids(i)[k + 1]]
    BY <2>2
  <2> HIDE DEF parts
  <2> QED
    BY <2>1, <2>3
<1>4. /\ Kind(i) \in {"list", "tuple"} => Values[i] = Json("array", "", parts, {})
      /\ Kind(i) = "dict" =>
            Values[i] = Json("object", "", <<>>,
                             {<<Key(parts[k]), parts[k + 1]>> : k \in Keys(parts)})
  <2> HIDE DEF parts
  <2> QED
    BY <1>1, <1>2 DEF Meant
<1>5. /\ Kind(i) = "list" => Partial(i, Size(i)) = Json("array", "", parts, {})
      /\ Kind(i) = "dict" => Partial(i, Size(i)) = Json("object", "", <<>>, pairs)
      /\ Kind(i) \notin {"list", "dict"} => Partial(i, Size(i)) = Values[i]
  BY DEF Partial
<1> QED
  BY <1>3, <1>4, <1>5

\* A list or dict without its parts is the empty container.
LEMMA EmptyMeaning ==
    ASSUME reply \in Replies, NEW i \in 1 .. Last
    PROVE  /\ Kind(i) = "list" => Partial(i, 0) = EmptyArray
           /\ Kind(i) = "dict" => Partial(i, 0) = EmptyObject
<1>1. [k \in 1 .. 0 |-> Values[Kids(i)[k]]] = <<>>
  OBVIOUS
<1>2. {k \in 1 .. 0 : k % 2 = 1} = {}
  OBVIOUS
<1>3. {<<Key(Values[Kids(i)[k]]), Values[Kids(i)[k + 1]]>> :
       k \in {k \in 1 .. 0 : k % 2 = 1}} = {}
  BY <1>2
<1> QED
  BY <1>1, <1>3 DEF Partial, EmptyArray, EmptyObject

-----------------------------------------------------------------------------
(* Sequences *)

IsSeq(s) == \E S : s \in Seq(S)

LEMMA EmptyIsSeq == IsSeq(<<>>) /\ Len(<<>>) = 0
BY EmptySeq DEF IsSeq

LEMMA SeqLen == ASSUME NEW s, IsSeq(s) PROVE Len(s) \in Nat
BY DEF IsSeq

\* The top n elements replaced by one.
Swap(s, n, v) == Append(SubSeq(s, 1, Len(s) - n), v)

LEMMA Swapped ==
    ASSUME NEW s, IsSeq(s), NEW n \in 0 .. Len(s), NEW v
    PROVE  /\ IsSeq(Swap(s, n, v)) /\ Len(Swap(s, n, v)) = Len(s) - n + 1
           /\ \A i \in 1 .. Len(s) - n : Swap(s, n, v)[i] = s[i]
           /\ Swap(s, n, v)[Len(s) - n + 1] = v
<1> DEFINE u == SubSeq(s, 1, Len(s) - n)
           t == Swap(s, n, v)
<1>1. PICK S : s \in Seq(S)
  BY DEF IsSeq
<1> DEFINE T == S \cup {v}
<1>2. Len(s) \in Nat /\ \A i \in 1 .. Len(s) : s[i] \in T
  BY <1>1, ElementOfSeq
<1>6. v \in T
  OBVIOUS
<1> HIDE DEF T
<1>3. /\ u \in Seq(T) /\ Len(u) = Len(s) - n
      /\ \A i \in 1 .. Len(s) - n : u[i] = s[i]
  <2>1. \A i \in 1 .. Len(s) - n : s[i] \in T
    BY <1>2
  <2>2. Len(s) - n \in Int /\ 1 \in Int /\ (1 <= Len(s) - n \/ Len(s) - n = 0)
    BY <1>2
  <2>3. /\ u \in Seq(T)
        /\ Len(u) = IF 1 <= Len(s) - n THEN Len(s) - n - 1 + 1 ELSE 0
        /\ \A i \in 1 .. Len(s) - n - 1 + 1 : u[i] = s[1 + i - 1]
    BY <2>1, <2>2, SubSeqProperties
  <2> HIDE DEF u
  <2> QED
    BY <1>2, <2>2, <2>3
<1>7. t = Append(u, v)
  BY DEF Swap
<1> HIDE DEF u, t
<1>4. /\ t \in Seq(T) /\ Len(t) = Len(u) + 1
      /\ \A i \in 1 .. Len(u) : t[i] = u[i]
      /\ t[Len(u) + 1] = v
  BY <1>3, <1>6, <1>7, AppendProperties
<1>8. /\ IsSeq(t) /\ Len(t) = Len(s) - n + 1
      /\ \A i \in 1 .. Len(s) - n : t[i] = s[i]
      /\ t[Len(s) - n + 1] = v
  BY <1>3, <1>4 DEF IsSeq
<1> QED
  BY <1>8 DEF t

\* What is left when the elements above the first n are taken.
LEMMA Cut ==
    ASSUME NEW s, IsSeq(s), NEW n \in 0 .. Len(s)
    PROVE  /\ IsSeq(SubSeq(s, 1, n)) /\ Len(SubSeq(s, 1, n)) = n
           /\ \A i \in 1 .. n : SubSeq(s, 1, n)[i] = s[i]
           /\ IsSeq(SubSeq(s, n + 1, Len(s)))
           /\ Len(SubSeq(s, n + 1, Len(s))) = Len(s) - n
           /\ \A i \in 1 .. Len(s) - n : SubSeq(s, n + 1, Len(s))[i] = s[n + i]
<1>1. PICK S : s \in Seq(S)
  BY DEF IsSeq
<1>2. Len(s) \in Nat /\ \A i \in 1 .. Len(s) : s[i] \in S
  BY <1>1, ElementOfSeq
<1> DEFINE u == SubSeq(s, 1, n)
           w == SubSeq(s, n + 1, Len(s))
<1>3. /\ u \in Seq(S) /\ Len(u) = IF 1 <= n THEN n - 1 + 1 ELSE 0
      /\ \A i \in 1 .. n - 1 + 1 : u[i] = s[1 + i - 1]
  <2>1. \A i \in 1 .. n : s[i] \in S
    BY <1>2
  <2> QED
    BY <2>1, SubSeqProperties
<1>4. /\ w \in Seq(S)
      /\ Len(w) = IF n + 1 <= Len(s) THEN Len(s) - (n + 1) + 1 ELSE 0
      /\ \A i \in 1 .. Len(s) - (n + 1) + 1 : w[i] = s[n + 1 + i - 1]
  <2>1. \A i \in n + 1 .. Len(s) : s[i] \in S
    BY <1>2
  <2>2. n + 1 \in Int /\ Len(s) \in Int
    BY <1>2
  <2> QED
    BY <2>1, <2>2, SubSeqProperties
<1> HIDE DEF u, w
<1>5. IsSeq(u) /\ Len(u) = n /\ \A i \in 1 .. n : u[i] = s[i]
  BY <1>3 DEF IsSeq
<1>6. IsSeq(w) /\ Len(w) = Len(s) - n /\ \A i \in 1 .. Len(s) - n : w[i] = s[n + i]
  BY <1>2, <1>4 DEF IsSeq
<1> QED
  BY <1>5, <1>6 DEF u, w

\* The first m values of a function followed by the next ones.
LEMMA Joined ==
    ASSUME NEW F, NEW m \in Nat, NEW s, IsSeq(s),
           \A j \in 1 .. Len(s) : s[j] = F[m + j]
    PROVE  [k \in 1 .. m |-> F[k]] \o s = [k \in 1 .. m + Len(s) |-> F[k]]
<1>1. PICK S : s \in Seq(S)
  BY DEF IsSeq
<1> DEFINE r == [k \in 1 .. m |-> F[k]]
           T == S \cup {F[k] : k \in 1 .. m}
<1>2. Len(s) \in Nat
  BY <1>1
<1>3. r \in Seq(T) /\ Len(r) = m
  OBVIOUS
<1>4. s \in Seq(T)
  BY <1>1, SeqMonotonic
<1>7. \A k \in 1 .. m : r[k] = F[k]
  OBVIOUS
<1> HIDE DEF r, T
<1>5. /\ r \o s \in Seq(T) /\ Len(r \o s) = m + Len(s)
      /\ \A k \in 1 .. m + Len(s) :
            (r \o s)[k] = IF k <= m THEN r[k] ELSE s[k - m]
  BY <1>3, <1>4, ConcatProperties
<1>6. \A k \in 1 .. m + Len(s) : (r \o s)[k] = F[k]
  <2> TAKE k \in 1 .. m + Len(s)
  <2>1. CASE k <= m
    BY <1>5, <1>7, <2>1
  <2>2. CASE k > m
    <3>1. k - m \in 1 .. Len(s) /\ m + (k - m) = k
      BY <1>2, <2>2
    <3> QED
      BY <1>5, <2>2, <3>1
  <2>3. k <= m \/ k > m
    BY <1>2
  <2> QED
    BY <2>1, <2>2, <2>3
<1>8. r \o s = [k \in 1 .. m + Len(s) |-> (r \o s)[k]]
  BY <1>5, LenProperties
<1>9. r \o s = [k \in 1 .. m + Len(s) |-> F[k]]
  BY <1>6, <1>8
<1> QED
  BY <1>9 DEF r

-----------------------------------------------------------------------------
(* Filling a container *)

LEMMA ItemsOfArray ==
    ASSUME NEW r, NEW s, NEW v, v = Json("array", "", r, {})
    PROVE  WithItems(v, s) = Json("array", "", r \o s, {})
BY DEF WithItems, Json

More(s) == {<<Key(s[j]), s[j + 1]>> :
            j \in {j \in Keys(s) :
                   \A k \in Keys(s) : j < k => Key(s[j]) # Key(s[k])}}

LEMMA EntriesOfObject ==
    ASSUME NEW r, NEW s, NEW v, v = Json("object", "", <<>>, r)
    PROVE  WithEntries(v, s)
           = Json("object", "", <<>>,
                  {e \in r : \A j \in Keys(s) : e[1] # Key(s[j])} \cup More(s))
<1>1. v.kind = "object" /\ v.text = "" /\ v.items = <<>> /\ v.entries = r
  BY DEF Json
<1> QED
  BY <1>1 DEF WithEntries, More

LEMMA ItemsGrow ==
    ASSUME reply \in Replies, NEW i \in 1 .. Last, Kind(i) = "list",
           NEW m \in Nat, NEW s, IsSeq(s),
           \A j \in 1 .. Len(s) : s[j] = Values[Kids(i)[m + j]]
    PROVE  WithItems(Partial(i, m), s) = Partial(i, m + Len(s))
<1> DEFINE F == [k \in 1 .. m + Len(s) |-> Values[Kids(i)[k]]]
<1>1. Len(s) \in Nat
  BY SeqLen
<1>2. /\ [k \in 1 .. m |-> F[k]] = [k \in 1 .. m |-> Values[Kids(i)[k]]]
      /\ [k \in 1 .. m + Len(s) |-> F[k]] = F
  BY <1>1
<1>8. \A j \in 1 .. Len(s) : s[j] = F[m + j]
  BY <1>1
<1>3. [k \in 1 .. m |-> F[k]] \o s = [k \in 1 .. m + Len(s) |-> F[k]]
  <2> HIDE DEF F
  <2> QED
    BY <1>8, Joined, Zenon
<1>4. [k \in 1 .. m |-> Values[Kids(i)[k]]] \o s = F
  BY <1>2, <1>3
<1>5. Partial(i, m) = Json("array", "", [k \in 1 .. m |-> Values[Kids(i)[k]]], {})
  BY DEF Partial
<1>6. Partial(i, m + Len(s)) = Json("array", "", F, {})
  BY DEF Partial
<1> HIDE DEF F
<1>7. WithItems(Partial(i, m), s) = Json("array", "", F, {})
  BY <1>4, <1>5, ItemsOfArray
<1> QED
  BY <1>6, <1>7

LEMMA TupleMade ==
    ASSUME reply \in Replies, NEW i \in 1 .. Last, Kind(i) = "tuple",
           NEW s, IsSeq(s), Len(s) = Size(i),
           \A j \in 1 .. Len(s) : s[j] = Values[Kids(i)[j]]
    PROVE  WithItems(EmptyArray, s) = Values[i]
<1> DEFINE F == [k \in 1 .. Size(i) |-> Values[Kids(i)[k]]]
<1>1. Values[i] = Json("array", "", F, {})
  BY WholeMeaning
<1>2. /\ [k \in 1 .. 0 |-> F[k]] = <<>>
      /\ [k \in 1 .. 0 + Len(s) |-> F[k]] = F
  BY SeqLen
<1>5. (\A j \in 1 .. Len(s) : s[j] = F[0 + j]) /\ 0 \in Nat
  BY SeqLen
<1>3. [k \in 1 .. 0 |-> F[k]] \o s = [k \in 1 .. 0 + Len(s) |-> F[k]]
  <2> HIDE DEF F
  <2> QED
    BY <1>5, Joined, Zenon
<1>4. <<>> \o s = F
  BY <1>2, <1>3
<1> HIDE DEF F
<1> QED
  BY <1>1, <1>4 DEF WithItems, EmptyArray, Json

LEMMA EntriesGrow ==
    ASSUME reply \in Replies, NEW i \in 1 .. Last, Kind(i) = "dict", ~KeysCollide,
           NEW m \in Nat, m % 2 = 0, NEW s, IsSeq(s), Len(s) % 2 = 0,
           m + Len(s) <= Size(i),
           \A j \in 1 .. Len(s) : s[j] = Values[Kids(i)[m + j]]
    PROVE  WithEntries(Partial(i, m), s) = Partial(i, m + Len(s))
<1> DEFINE Pair(k) == <<Key(Values[Kids(i)[k]]), Values[Kids(i)[k + 1]]>>
           Odd(n) == {k \in 1 .. n : k % 2 = 1}
           kept == {e \in {Pair(k) : k \in Odd(m)} :
                    \A j \in Keys(s) : e[1] # Key(s[j])}
<1>1. Len(s) \in Nat /\ DOMAIN s = 1 .. Len(s) /\ Size(i) \in Nat
  <2>1. PICK S : s \in Seq(S)
    BY DEF IsSeq
  <2> QED
    BY <2>1, ReplyFacts
<1>2. Keys(s) = Odd(Len(s))
  BY <1>1 DEF Keys
<1>3. \A j, k \in Odd(Size(i)) :
         j # k => Key(Values[Kids(i)[j]]) # Key(Values[Kids(i)[k]])
  <2>6. i \in 0 .. Last
    OBVIOUS
  <2>1. /\ Kind(i) = reply[i].kind /\ Kids(i) = reply[i].kids
        /\ DOMAIN Kids(i) = 1 .. Size(i)
        /\ \A k \in 1 .. Size(i) : Kids(i)[k] \in i + 1 .. Last
        /\ \A k \in 1 .. Size(i) : k % 2 = 1 => Kind(Kids(i)[k]) \in {"atom", "str"}
    BY <2>6, ReplyFacts
  <2>2. \A k \in Odd(Size(i)) :
           Kids(i)[k] \in 1 .. Last /\ Kind(Kids(i)[k]) \in {"atom", "str"}
    BY <1>1, <2>1
  <2>3. ASSUME NEW k \in Odd(Size(i))
        PROVE  Key(Values[Kids(i)[k]]) = reply[Kids(i)[k]].text
    <3> DEFINE c == Kids(i)[k]
    <3>1. c \in 1 .. Last /\ Kind(c) \in {"atom", "str"}
      BY <2>2
    <3> HIDE DEF c
    <3>2. Values[c] = Json(JKind(c), reply[c].text, <<>>, {})
      BY <3>1, ScalarMeaning
    <3>3. Values[c].text = reply[c].text
      BY <3>2 DEF Json
    <3> QED
      BY <3>3 DEF Key, c
  <2>4. Keys(reply[i].kids) = Odd(Size(i))
    BY <2>1 DEF Keys
  <2>5. \A j, k \in Odd(Size(i)) :
           j # k => reply[Kids(i)[j]].text # reply[Kids(i)[k]].text
    BY <2>1, <2>4 DEF KeysCollide
  <2> HIDE DEF Odd
  <2> QED
    BY <2>3, <2>5
<1>4. \A j \in Odd(Len(s)) :
         /\ j + 1 \in 1 .. Len(s) /\ m + j \in Odd(Size(i)) /\ m + j > m
         /\ s[j] = Values[Kids(i)[m + j]] /\ s[j + 1] = Values[Kids(i)[m + j + 1]]
  <2> TAKE j \in Odd(Len(s))
  <2>1. j \in 1 .. Len(s) /\ j % 2 = 1 /\ j + 1 \in 1 .. Len(s)
    BY <1>1
  <2>2. m + j \in 1 .. Size(i) /\ (m + j) % 2 = 1 /\ m + j > m /\ m + (j + 1) = m + j + 1
    BY <1>1, <2>1
  <2> QED
    BY <2>1, <2>2
<1>5. Odd(m) \subseteq Odd(Size(i)) /\ \A k \in Odd(m) : k <= m
  BY <1>1
<1>6. kept = {Pair(k) : k \in Odd(m)}
  <2>1. \A k \in Odd(m), j \in Odd(Len(s)) : Pair(k)[1] # Key(s[j])
    <3> TAKE k \in Odd(m), j \in Odd(Len(s))
    <3>6. k \in Odd(Size(i)) /\ k <= m
      <4> HIDE DEF Odd
      <4> QED
        BY <1>5
    <3>4. k \in Nat /\ k <= m /\ k \in Odd(Size(i))
      BY <3>6
    <3>5. m + j \in Odd(Size(i)) /\ m + j > m
      BY <1>4
    <3>1. k \in Odd(Size(i)) /\ m + j \in Odd(Size(i)) /\ k # m + j
      BY <3>4, <3>5
    <3>2. Key(Values[Kids(i)[k]]) # Key(Values[Kids(i)[m + j]])
      <4> HIDE DEF Odd
      <4> QED
        BY <1>3, <3>1
    <3>3. s[j] = Values[Kids(i)[m + j]]
      BY <1>4
    <3> QED
      BY <3>2, <3>3
  <2> HIDE DEF Pair, Odd
  <2> QED
    BY <1>2, <2>1
<1>7. {j \in Keys(s) : \A k \in Keys(s) : j < k => Key(s[j]) # Key(s[k])} = Odd(Len(s))
  <2>1. \A j, k \in Odd(Len(s)) : j < k => Key(s[j]) # Key(s[k])
    <3> TAKE j, k \in Odd(Len(s))
    <3> HAVE j < k
    <3>4. j \in Nat /\ k \in Nat
      OBVIOUS
    <3>5. m + j \in Odd(Size(i)) /\ m + k \in Odd(Size(i))
      BY <1>4
    <3>1. m + j \in Odd(Size(i)) /\ m + k \in Odd(Size(i)) /\ m + j # m + k
      BY <3>4, <3>5
    <3>2. Key(Values[Kids(i)[m + j]]) # Key(Values[Kids(i)[m + k]])
      <4> HIDE DEF Odd
      <4> QED
        BY <1>3, <3>1
    <3>3. s[j] = Values[Kids(i)[m + j]] /\ s[k] = Values[Kids(i)[m + k]]
      BY <1>4
    <3> QED
      BY <3>2, <3>3
  <2> HIDE DEF Odd
  <2> QED
    BY <1>2, <2>1
<1>8. More(s) = {Pair(m + j) : j \in Odd(Len(s))}
  <2>1. \A j \in Odd(Len(s)) : <<Key(s[j]), s[j + 1]>> = Pair(m + j)
    BY <1>4
  <2> HIDE DEF Pair, Odd
  <2> QED
    BY <1>7, <2>1 DEF More
<1>9. {Pair(k) : k \in Odd(m)} \cup {Pair(m + j) : j \in Odd(Len(s))}
      = {Pair(k) : k \in Odd(m + Len(s))}
  <2>1. \A k \in Odd(m) : k \in Odd(m + Len(s))
    BY <1>1
  <2>2. \A j \in Odd(Len(s)) : m + j \in Odd(m + Len(s))
    BY <1>1
  <2>3. \A k \in Odd(m + Len(s)) :
           k \in Odd(m) \/ \E j \in Odd(Len(s)) : k = m + j
    <3> TAKE k \in Odd(m + Len(s))
    <3>1. CASE k <= m
      BY <3>1
    <3>2. CASE k > m
      <4>1. k - m \in Odd(Len(s)) /\ k = m + (k - m)
        BY <1>1, <3>2
      <4> QED
        BY <4>1
    <3> QED
      BY <1>1, <3>1, <3>2
  <2> HIDE DEF Pair, Odd
  <2> QED
    BY <2>1, <2>2, <2>3
<1>10. /\ Partial(i, m) = Json("object", "", <<>>, {Pair(k) : k \in Odd(m)})
       /\ Partial(i, m + Len(s))
             = Json("object", "", <<>>, {Pair(k) : k \in Odd(m + Len(s))})
  BY DEF Partial
<1>11. WithEntries(Partial(i, m), s) = Json("object", "", <<>>, kept \cup More(s))
  <2> DEFINE old == {Pair(k) : k \in Odd(m)}
  <2>1. Partial(i, m) = Json("object", "", <<>>, old)
    BY <1>10
  <2>2. kept = {e \in old : \A j \in Keys(s) : e[1] # Key(s[j])}
    OBVIOUS
  <2> HIDE DEF old, kept
  <2> QED
    BY <2>1, <2>2, EntriesOfObject
<1> HIDE DEF Pair, Odd, kept
<1> QED
  BY <1>6, <1>8, <1>9, <1>10, <1>11

-----------------------------------------------------------------------------
(* The invariant *)

\* A value of the decoder's is of the right kind always, and right in replies
\* without aliased containers and colliding keys.
Fits(v, i, m) == v.kind = JKind(i) /\ (Clean => v = Partial(i, m))

Filled == {"list", "dict"}

\* What a call has on the stack: first the object, if it has begun, ...
Own(f) ==
    IF f.step \in {"memo", "end"} \/ (f.step # "open" /\ Kind(f.obj) \in Filled)
    THEN 1 ELSE 0

\* ... then the parts that are not yet put in it.
Depth(f) == Own(f) + (f.done - f.start)

Opened(f) == IF f.step = "marked" THEN 1 ELSE 0

Steps == {"open", "memo", "fill", "marked", "end"}

Frame == [obj : 0 .. Last, step : Steps, start : Nat, done : Nat]

FrameOK(f) ==
    /\ f \in Frame /\ f.start <= f.done /\ f.done <= Size(f.obj)
    /\ Kind(f.obj) = "dict" => f.start % 2 = 0
    /\ f.step \notin {"fill", "marked"} => f.start = f.done
    /\ f.step = "open" =>
          f.done = 0 /\ f.obj > 0 /\ (Kind(f.obj) = "tuple" => Size(f.obj) = 0)
    /\ f.step = "memo" =>
          /\ Kind(f.obj) \in {"str", "list", "dict", "tuple"}
          /\ Kind(f.obj) \in Filled => f.done = 0
          /\ Kind(f.obj) = "tuple" => f.done = Size(f.obj) /\ f.done > 0
    /\ f.step = "fill" =>
          /\ Kind(f.obj) \in {"list", "dict", "tuple", "reply"}
          /\ f.done - f.start <= Unit(f.obj)
    /\ f.step = "marked" =>
          Kind(f.obj) \in Filled \/ (Kind(f.obj) = "tuple" /\ Size(f.obj) > 3)
    /\ f.step \in {"fill", "marked"} /\ Kind(f.obj) \notin Filled =>
          f.start = 0 /\ Size(f.obj) > 0
    /\ f.step = "end" =>
          Kind(f.obj) \in {"atom", "str", "tuple"} /\ f.done = Size(f.obj)

\* An object is memoized once its call is past that.
MemoStep(f) ==
    \/ Kind(f.obj) \in Filled /\ f.step \in {"fill", "marked"}
    \/ f.step = "end" /\ (Kind(f.obj) = "str" \/ Size(f.obj) > 0)

CallsInv ==
    /\ calls \in Seq(Frame) /\ Len(calls) > 0 /\ calls[1].obj = 0
    /\ \A l \in 1 .. Len(calls) :
          FrameOK(calls[l]) /\ (calls[l].obj \in Saved <=> MemoStep(calls[l]))
    /\ \A l \in 1 .. Len(calls) - 1 :
          Wants(calls[l]) /\ calls[l + 1].obj = Part(calls[l])
    /\ \A k, l \in 1 .. Len(calls) : k < l => calls[k].obj < calls[l].obj

MemoInv ==
    /\ saved \in Seq(1 .. Last)
    /\ \A n, m \in 1 .. Len(saved) : saved[n] = saved[m] => n = m
    /\ IsSeq(memo) /\ Len(memo) = Len(saved)
    /\ \A n \in 1 .. Len(saved) : Fits(memo[n], saved[n], 0)

Passed(i, k) ==
    \/ i \in Saved /\ \A l \in 1 .. Len(calls) : calls[l].obj # i
    \/ \E l \in 1 .. Len(calls) :
          /\ calls[l].obj = i
          /\ k <= calls[l].done \/ (k = calls[l].done + 1 /\ l < Len(calls))

\* The pickler came to every object it has met by a reference it is past.
MetInv ==
    \A j \in 1 .. Last :
        j \in Saved \/ (\E l \in 1 .. Len(calls) : calls[l].obj = j)
        => \E i \in 0 .. Last : \E k \in 1 .. Size(i) :
              Kids(i)[k] = j /\ Passed(i, k)

\* The part of the stack above b is that of a call.
Holds(st, f, b) ==
    /\ Own(f) = 1 => Fits(st[b + 1], f.obj, f.start)
    /\ \A j \in 1 .. f.done - f.start :
          Fits(st[b + Own(f) + j], Kids(f.obj)[f.start + j],
               Size(Kids(f.obj)[f.start + j]))

\* Call l has its part of the stack above base[l], and its mark above mk[l].
LevelsInv(base, mk) ==
    /\ base \in [1 .. Len(calls) -> Nat] /\ mk \in [1 .. Len(calls) -> Nat]
    /\ base[1] = 0 /\ mk[1] = 0
    /\ \A l \in 1 .. Len(calls) - 1 :
          /\ base[l + 1] = base[l] + Depth(calls[l])
          /\ mk[l + 1] = mk[l] + Opened(calls[l])
    /\ \A k, l \in 1 .. Len(calls) : k < l =>
          /\ base[k] + Depth(calls[k]) <= base[l]
          /\ mk[k] + Opened(calls[k]) <= mk[l]
    /\ Len(stack) = base[Len(calls)] + Depth(Current)
    /\ Len(marks) = mk[Len(calls)] + Opened(Current)
    /\ \A l \in 1 .. Len(calls) :
          /\ Holds(stack, calls[l], base[l])
          /\ Opened(calls[l]) = 1 => marks[mk[l] + 1] = base[l] + Own(calls[l])
          /\ \A i \in 1 .. mk[l] : marks[i] <= base[l]

StackInv ==
    /\ IsSeq(stack) /\ \A i \in 1 .. Len(stack) : stack[i].kind \in JKinds
    /\ marks \in Seq(Nat)
    /\ \A i, j \in 1 .. Len(marks) : i < j => marks[i] <= marks[j]

ReadingInv ==
    /\ CallsInv /\ MemoInv /\ MetInv /\ StackInv
    /\ \E base, mk : LevelsInv(base, mk)

IInv ==
    /\ reply \in Replies /\ protocol \in {3, 4}
    /\ outcome \in {"reading", "returned"}
    /\ IsSeq(memo) /\ Len(memo) = Len(saved)
    /\ outcome = "reading" => ReadingInv
    /\ outcome = "returned" =>
          stack = <<>> /\ marks = <<>> /\ (Clean => result = Values[1])

-----------------------------------------------------------------------------
(* The steps of a call *)

\* Nothing that is said about the reply changes with the state.
LEMMA ReplyKept ==
    ASSUME reply' = reply
    PROVE  /\ Last' = Last /\ Frame' = Frame /\ (Clean <=> Clean') /\ Values' = Values
           /\ \A i : Kids(i)' = Kids(i) /\ Kind(i)' = Kind(i) /\ Size(i)' = Size(i)
           /\ \A f : /\ Own(f)' = Own(f) /\ Depth(f)' = Depth(f)
                     /\ Opened(f)' = Opened(f) /\ Part(f)' = Part(f)
                     /\ (Wants(f)' <=> Wants(f)) /\ (FrameOK(f)' <=> FrameOK(f))
                     /\ MemoStep(f)' <=> MemoStep(f)
           /\ \A v, i, m : Fits(v, i, m)' <=> Fits(v, i, m)
           /\ \A st, f, b : Holds(st, f, b)' <=> Holds(st, f, b)
<1>1. /\ Last' = Last /\ Values' = Values
      /\ \A i : Kids(i)' = Kids(i) /\ Kind(i)' = Kind(i) /\ Size(i)' = Size(i)
  BY DEF Last, Values, Kids, Kind, Size
<1>2. Frame' = Frame /\ (Clean <=> Clean')
  BY <1>1 DEF Frame, Clean, Aliased, KeysCollide
<1>3. \A i : Unit(i)' = Unit(i)
  BY <1>1 DEF Unit
<1>4. \A f : /\ Own(f)' = Own(f) /\ Depth(f)' = Depth(f)
             /\ Opened(f)' = Opened(f) /\ Part(f)' = Part(f)
             /\ (Wants(f)' <=> Wants(f)) /\ (FrameOK(f)' <=> FrameOK(f))
             /\ MemoStep(f)' <=> MemoStep(f)
  <2> TAKE f
  <2>1. Kids(f.obj)' = Kids(f.obj) /\ Kind(f.obj)' = Kind(f.obj) /\ Size(f.obj)' = Size(f.obj)
        /\ Unit(f.obj)' = Unit(f.obj)
    BY <1>1, <1>3
  <2>2. Own(f)' = Own(f) /\ Part(f)' = Part(f) /\ (Wants(f)' <=> Wants(f))
    BY <2>1 DEF Own, Part, Wants
  <2>3. Depth(f)' = Depth(f) /\ Opened(f)' = Opened(f) /\ (MemoStep(f)' <=> MemoStep(f))
    BY <2>1, <2>2 DEF Depth, Opened, MemoStep
  <2>4. FrameOK(f)' <=> FrameOK(f)
    BY <1>2, <2>1 DEF FrameOK
  <2> QED
    BY <2>2, <2>3, <2>4
<1>5. \A i : JKind(i)' = JKind(i)
  BY <1>1 DEF JKind
<1>6. \A i, m : Partial(i, m)' = Partial(i, m)
  BY <1>1 DEF Partial
<1>7. \A v, i, m : Fits(v, i, m)' <=> Fits(v, i, m)
  BY <1>2, <1>5, <1>6 DEF Fits
<1>8. \A st, f, b : Holds(st, f, b)' <=> Holds(st, f, b)
  BY <1>1, <1>4, <1>7 DEF Holds
<1> QED
  BY <1>1, <1>2, <1>4, <1>7, <1>8

LEMMA CurrentCall ==
    ASSUME CallsInv
    PROVE  /\ Len(calls) \in Nat /\ Len(calls) \in 1 .. Len(calls)
           /\ Current = calls[Len(calls)] /\ Current \in Frame /\ FrameOK(Current)
           /\ Current.obj \in Saved <=> MemoStep(Current)
           /\ \A l \in 1 .. Len(calls) - 1 :
                 calls[l].obj < Current.obj /\ FrameOK(calls[l]) /\ calls[l] \in Frame
           /\ Current.obj = 0 => Len(calls) = 1
           /\ Current.obj > 0 => Len(calls) > 1
<1>1. Len(calls) \in Nat /\ Len(calls) \in 1 .. Len(calls)
  BY DEF CallsInv
<1>2. \A l \in 1 .. Len(calls) : FrameOK(calls[l]) /\ calls[l] \in Frame
  BY DEF CallsInv, FrameOK
<1>3. \A l \in 1 .. Len(calls) - 1 : calls[l].obj < calls[Len(calls)].obj
  BY <1>1 DEF CallsInv
<1>4. calls[Len(calls)].obj \in Saved <=> MemoStep(calls[Len(calls)])
  BY <1>1 DEF CallsInv
<1>5. \A l \in 1 .. Len(calls) : calls[l].obj >= 0
  BY <1>2 DEF Frame
<1>6. calls[1].obj = 0
  BY DEF CallsInv
<1>7. /\ calls[Len(calls)].obj = 0 => Len(calls) = 1
      /\ calls[Len(calls)].obj > 0 => Len(calls) > 1
  <2>1. CASE Len(calls) = 1
    BY <1>6, <2>1
  <2>2. CASE Len(calls) > 1
    <3>1. 1 \in 1 .. Len(calls) - 1 /\ calls[Len(calls)] \in Frame
      BY <1>1, <1>2, <2>2
    <3>2. 0 < calls[Len(calls)].obj
      BY <1>3, <1>6, <3>1
    <3> QED
      BY <2>2, <3>2
  <2>4. Len(calls) \in Nat /\ Len(calls) > 0
    BY DEF CallsInv
  <2>3. Len(calls) = 1 \/ Len(calls) > 1
    <3> DEFINE n == Len(calls)
    <3>1. n \in Nat /\ n > 0
      BY <2>4
    <3> HIDE DEF n
    <3>2. n = 1 \/ n > 1
      BY <3>1
    <3> QED
      BY <3>2 DEF n
  <2> QED
    BY <2>1, <2>2, <2>3
<1> QED
  BY <1>1, <1>2, <1>3, <1>4, <1>7 DEF Current

\* The innermost call moves on.
Moves(g) ==
    /\ reply' = reply /\ FrameOK(g) /\ g.obj = Current.obj
    /\ calls' = Append(SubSeq(calls, 1, Len(calls) - 1), g)

LEMMA CallsMove ==
    ASSUME CallsInv, NEW g, Moves(g)
    PROVE  /\ calls' \in Seq(Frame) /\ Len(calls') = Len(calls)
           /\ \A l \in 1 .. Len(calls) - 1 : calls'[l] = calls[l]
           /\ calls'[Len(calls)] = g /\ Current' = g
           /\ \A l \in 1 .. Len(calls) : calls'[l].obj = calls[l].obj
<1>1. Len(calls) \in Nat /\ Len(calls) > 0 /\ calls \in Seq(Frame)
  BY DEF CallsInv
<1>2. g \in Frame /\ g.obj = calls[Len(calls)].obj
  BY DEF Moves, FrameOK, Current
<1> DEFINE u == SubSeq(calls, 1, Len(calls) - 1)
<1>3. u \in Seq(Frame)
  <2>1. \A i \in 1 .. Len(calls) - 1 : calls[i] \in Frame
    BY <1>1
  <2>2. 1 \in Int /\ Len(calls) - 1 \in Int
    BY <1>1
  <2> QED
    BY <2>1, <2>2, SubSeqProperties
<1>4. Append(u, g) \in Seq(Frame)
  BY <1>2, <1>3, AppendProperties
<1>5. /\ Len(Swap(calls, 1, g)) = Len(calls) - 1 + 1
      /\ \A l \in 1 .. Len(calls) - 1 : Swap(calls, 1, g)[l] = calls[l]
      /\ Swap(calls, 1, g)[Len(calls) - 1 + 1] = g
  <2>1. IsSeq(calls) /\ 1 \in 0 .. Len(calls)
    BY <1>1 DEF IsSeq
  <2> QED
    BY <2>1, Swapped
<1>6. calls' = Append(u, g) /\ calls' = Swap(calls, 1, g)
  BY DEF Moves, Swap
<1> HIDE DEF u
<1>7. /\ calls' \in Seq(Frame) /\ Len(calls') = Len(calls)
      /\ \A l \in 1 .. Len(calls) - 1 : calls'[l] = calls[l]
      /\ calls'[Len(calls)] = g
  BY <1>1, <1>4, <1>5, <1>6
<1>8. \A l \in 1 .. Len(calls) : calls'[l].obj = calls[l].obj
  BY <1>1, <1>2, <1>7
<1> QED
  BY <1>7, <1>8 DEF Current

LEMMA CallsStay ==
    ASSUME CallsInv, NEW g, Moves(g),
           \/ Saved' = Saved /\ (MemoStep(g) <=> MemoStep(Current))
           \/ Saved' = Saved \cup {g.obj} /\ MemoStep(g)
    PROVE  CallsInv'
<1> DEFINE n == Len(calls)
<1>1. /\ n \in Nat /\ n > 0 /\ calls[1].obj = 0
      /\ \A l \in 1 .. n :
            FrameOK(calls[l]) /\ (calls[l].obj \in Saved <=> MemoStep(calls[l]))
      /\ \A l \in 1 .. n - 1 :
            Wants(calls[l]) /\ calls[l + 1].obj = Part(calls[l])
      /\ \A k, l \in 1 .. n : k < l => calls[k].obj < calls[l].obj
  BY DEF CallsInv
<1>2. /\ calls' \in Seq(Frame) /\ Len(calls') = n
      /\ \A l \in 1 .. n - 1 : calls'[l] = calls[l]
      /\ calls'[n] = g
      /\ \A l \in 1 .. n : calls'[l].obj = calls[l].obj
  BY CallsMove
<1>3. reply' = reply /\ FrameOK(g) /\ g.obj = calls[n].obj
  BY DEF Moves, Current
<1>4. Current = calls[n] /\ (Current.obj \in Saved <=> MemoStep(Current))
  BY <1>1 DEF Current
<1>5. calls' \in Seq(Frame') /\ Len(calls') > 0 /\ calls'[1].obj = 0
  BY <1>1, <1>2, <1>3, ReplyKept
<1>6. ASSUME NEW l \in 1 .. n
      PROVE  FrameOK(calls'[l]) /\ (calls'[l].obj \in Saved' <=> MemoStep(calls'[l]))
  <2>1. CASE l = n
    BY <1>1, <1>2, <1>3, <1>4, <2>1
  <2>2. CASE l < n
    <3>1. calls[l].obj # g.obj
      <4>1. calls[l].obj < calls[n].obj /\ calls[l] \in Frame /\ calls[n] \in Frame
        BY <1>1, <2>2 DEF FrameOK
      <4> QED
        BY <4>1, <1>3 DEF Frame
    <3>2. calls'[l] = calls[l]
      BY <1>1, <1>2, <2>2
    <3> QED
      BY <1>1, <3>1, <3>2
  <2> QED
    BY <1>1, <2>1, <2>2
<1>7. \A l \in 1 .. n - 1 :
         Wants(calls'[l]) /\ calls'[l + 1].obj = Part(calls'[l])
  <2> TAKE l \in 1 .. n - 1
  <2>1. l + 1 \in 1 .. n /\ calls'[l] = calls[l]
    BY <1>1, <1>2
  <2> QED
    BY <1>1, <1>2, <2>1
<1>8. \A k, l \in 1 .. n : k < l => calls'[k].obj < calls'[l].obj
  BY <1>1, <1>2
<1>9. /\ \A l \in 1 .. n :
            FrameOK(calls[l])' /\ (calls[l].obj \in Saved <=> MemoStep(calls[l]))'
      /\ \A l \in 1 .. n - 1 :
            Wants(calls[l])' /\ (calls[l + 1].obj = Part(calls[l]))'
  BY <1>3, <1>6, <1>7, ReplyKept
<1> QED
  BY <1>2, <1>5, <1>8, <1>9 DEF CallsInv

LEMMA MetStay ==
    ASSUME reply \in Replies, CallsInv, MetInv, NEW g, Moves(g), g.done >= Current.done,
           Saved' = Saved \/ Saved' = Saved \cup {g.obj}
    PROVE  MetInv'
<1> DEFINE n == Len(calls)
<1>1. n \in Nat /\ n \in 1 .. n /\ Current = calls[n] /\ Current \in Frame /\ g \in Frame
      /\ \A l \in 1 .. n - 1 : calls[l] \in Frame
  BY CurrentCall DEF Moves, FrameOK
<1>2. /\ Len(calls') = n /\ calls'[n] = g
      /\ \A l \in 1 .. n - 1 : calls'[l] = calls[l]
      /\ \A l \in 1 .. n : calls'[l].obj = calls[l].obj
  BY CallsMove
<1>3. g.obj = calls[n].obj /\ reply' = reply
  BY <1>1 DEF Moves
<1>4. /\ Last' = Last
      /\ \A i : Kids(i)' = Kids(i) /\ Size(i)' = Size(i)
  BY <1>3, ReplyKept
<1>5. ASSUME NEW j \in 1 .. Last,
             j \in Saved' \/ (\E l \in 1 .. n : calls'[l].obj = j)
      PROVE  j \in Saved \/ (\E l \in 1 .. n : calls[l].obj = j)
  BY <1>1, <1>2, <1>3, <1>5
<1>6. ASSUME NEW i, NEW k \in Nat, Passed(i, k)
      PROVE  \/ i \in Saved' /\ \A l \in 1 .. n : calls'[l].obj # i
             \/ \E l \in 1 .. n :
                   /\ calls'[l].obj = i
                   /\ k <= calls'[l].done \/ (k = calls'[l].done + 1 /\ l < n)
  <2>1. CASE i \in Saved /\ \A l \in 1 .. n : calls[l].obj # i
    BY <1>2, <2>1
  <2>2. ASSUME NEW l \in 1 .. n, calls[l].obj = i,
               k <= calls[l].done \/ (k = calls[l].done + 1 /\ l < n)
        PROVE  /\ calls'[l].obj = i
               /\ k <= calls'[l].done \/ (k = calls'[l].done + 1 /\ l < n)
    <3>1. CASE l = n
      <4>1. k <= Current.done /\ calls'[l] = g
        BY <1>1, <1>2, <2>2, <3>1
      <4>2. k <= g.done
        BY <1>1, <4>1 DEF Frame
      <4> QED
        BY <1>2, <2>2, <4>1, <4>2
    <3>2. CASE l < n
      <4>1. calls'[l] = calls[l]
        BY <1>1, <1>2, <3>2
      <4> QED
        BY <2>2, <4>1
    <3> QED
      BY <1>1, <3>1, <3>2
  <2> QED
    BY <1>6, <2>1, <2>2 DEF Passed
<1>9. ASSUME NEW i, NEW k \in Nat, Passed(i, k) PROVE Passed(i, k)'
  <2>1. \/ i \in Saved' /\ \A l \in 1 .. n : calls'[l].obj # i
        \/ \E l \in 1 .. n :
              /\ calls'[l].obj = i
              /\ k <= calls'[l].done \/ (k = calls'[l].done + 1 /\ l < n)
    BY <1>6, <1>9
  <2> HIDE DEF n
  <2> QED
    BY <1>2, <2>1 DEF Passed
<1>10. \A i \in 0 .. Last : Size(i) \in Nat
  BY ReplyFacts
<1>7. \A i \in 0 .. Last : \A k \in 1 .. Size(i) : Passed(i, k) => Passed(i, k)'
  BY <1>9, <1>10
<1>8. \A j \in 1 .. Last :
         j \in Saved' \/ (\E l \in 1 .. n : calls'[l].obj = j)
         => \E i \in 0 .. Last : \E k \in 1 .. Size(i) :
               Kids(i)[k] = j /\ Passed(i, k)'
  BY <1>5, <1>7 DEF MetInv
<1> QED
  BY <1>2, <1>4, <1>8 DEF MetInv

LEMMA FrameNumbers ==
    ASSUME NEW f, FrameOK(f)
    PROVE  /\ f.obj \in 0 .. Last /\ f.start \in Nat /\ f.done \in Nat
           /\ f.done - f.start \in Nat /\ f.step \in Steps
           /\ Own(f) \in {0, 1} /\ Opened(f) \in {0, 1} /\ Depth(f) \in Nat
           /\ Depth(f) = Own(f) + (f.done - f.start)
<1>1. f.obj \in 0 .. Last /\ f.step \in Steps
  BY DEF FrameOK, Frame
<1>2. f.start \in Nat /\ f.done \in Nat /\ f.start <= f.done
  BY DEF FrameOK, Frame
<1>3. f.done - f.start \in Nat
  BY <1>2
<1>4. Own(f) \in {0, 1} /\ Opened(f) \in {0, 1}
  BY DEF Own, Opened
<1> QED
  BY <1>1, <1>2, <1>3, <1>4 DEF Depth

\* What a call holds depends on its part of the stack alone.
LEMMA HoldsBelow ==
    ASSUME NEW f, FrameOK(f), NEW b \in Nat, NEW st, NEW u, Holds(st, f, b),
           \A j \in 1 .. b + Depth(f) : u[j] = st[j]
    PROVE  Holds(u, f, b)
<1>1. /\ Own(f) \in {0, 1} /\ f.done - f.start \in Nat
      /\ Depth(f) = Own(f) + (f.done - f.start)
  BY FrameNumbers
<1>2. Own(f) = 1 => u[b + 1] = st[b + 1]
  BY <1>1
<1>3. \A j \in 1 .. f.done - f.start : u[b + Own(f) + j] = st[b + Own(f) + j]
  BY <1>1
<1> QED
  BY <1>2, <1>3 DEF Holds

LEMMA LevelsStay ==
    ASSUME CallsInv, NEW g, Moves(g),
           NEW base, NEW mk, LevelsInv(base, mk),
           NEW B, B = base[Len(calls)], NEW M, M = mk[Len(calls)],
           Len(stack') = B + Depth(g), Holds(stack', g, B),
           \A j \in 1 .. B : stack'[j] = stack[j],
           Len(marks') = M + Opened(g),
           \A j \in 1 .. M : marks'[j] = marks[j],
           Opened(g) = 1 => marks'[M + 1] = B + Own(g)
    PROVE  LevelsInv(base, mk)'
<1> DEFINE n == Len(calls)
<1>1. n \in Nat /\ n \in 1 .. n /\ \A l \in 1 .. n - 1 : FrameOK(calls[l])
  BY CurrentCall
<1>2. /\ Len(calls') = n /\ calls'[n] = g /\ Current' = g
      /\ \A l \in 1 .. n - 1 : calls'[l] = calls[l]
  BY CallsMove
<1>3. reply' = reply /\ FrameOK(g)
  BY DEF Moves
<1>4. /\ base \in [1 .. n -> Nat] /\ mk \in [1 .. n -> Nat]
      /\ base[1] = 0 /\ mk[1] = 0
      /\ \A l \in 1 .. n - 1 :
            /\ base[l + 1] = base[l] + Depth(calls[l])
            /\ mk[l + 1] = mk[l] + Opened(calls[l])
      /\ \A k, l \in 1 .. n : k < l =>
            /\ base[k] + Depth(calls[k]) <= base[l]
            /\ mk[k] + Opened(calls[k]) <= mk[l]
      /\ \A l \in 1 .. n :
            /\ Holds(stack, calls[l], base[l])
            /\ Opened(calls[l]) = 1 => marks[mk[l] + 1] = base[l] + Own(calls[l])
            /\ \A i \in 1 .. mk[l] : marks[i] <= base[l]
  BY DEF LevelsInv
<1>5. B \in Nat /\ M \in Nat /\ B = base[n] /\ M = mk[n]
  BY <1>1, <1>4
<1>6. \A l \in 1 .. n - 1 :
         /\ base[l] \in Nat /\ mk[l] \in Nat
         /\ Depth(calls[l]) \in Nat /\ Opened(calls[l]) \in {0, 1}
         /\ base[l] + Depth(calls[l]) <= B /\ mk[l] + Opened(calls[l]) <= M
  <2> TAKE l \in 1 .. n - 1
  <2>1. l \in 1 .. n /\ n \in 1 .. n /\ l < n
    BY <1>1
  <2>2. base[l] + Depth(calls[l]) <= B /\ mk[l] + Opened(calls[l]) <= M
    BY <1>4, <1>5, <2>1
  <2>3. base[l] \in Nat /\ mk[l] \in Nat
    BY <1>4, <2>1
  <2> QED
    BY <1>1, <2>2, <2>3, FrameNumbers
<1>7. \A l \in 1 .. n - 1 : Holds(stack', calls[l], base[l])
  <2> TAKE l \in 1 .. n - 1
  <2>1. /\ FrameOK(calls[l]) /\ base[l] \in Nat /\ Depth(calls[l]) \in Nat
        /\ Holds(stack, calls[l], base[l]) /\ base[l] + Depth(calls[l]) <= B
    BY <1>1, <1>4, <1>6
  <2>2. \A j \in 1 .. base[l] + Depth(calls[l]) : stack'[j] = stack[j]
    BY <1>5, <2>1
  <2> QED
    BY <2>1, <2>2, HoldsBelow
<1>8. \A l \in 1 .. n : Holds(stack', calls'[l], base[l])
  <2> TAKE l \in 1 .. n
  <2>1. l = n \/ l \in 1 .. n - 1
    BY <1>1
  <2> HIDE DEF n
  <2> QED
    BY <1>2, <1>5, <1>7, <2>1
<1>9. \A l \in 1 .. n :
         Opened(calls'[l]) = 1 => marks'[mk[l] + 1] = base[l] + Own(calls'[l])
  <2> TAKE l \in 1 .. n
  <2>1. CASE l = n
    BY <1>2, <1>5, <2>1
  <2>2. CASE l \in 1 .. n - 1
    <3>1. Opened(calls[l]) = 1 => mk[l] + 1 \in 1 .. M
      BY <1>5, <1>6, <2>2
    <3> QED
      BY <1>2, <1>4, <2>2, <3>1
  <2>3. l = n \/ l \in 1 .. n - 1
    BY <1>1
  <2> QED
    BY <2>1, <2>2, <2>3
<1>10. \A l \in 1 .. n : \A i \in 1 .. mk[l] : marks'[i] <= base[l]
  <2> TAKE l \in 1 .. n
  <2> TAKE i \in 1 .. mk[l]
  <2>1. mk[l] \in Nat /\ mk[l] <= M
    <3>1. l = n \/ l \in 1 .. n - 1
      BY <1>1
    <3>2. mk[n] <= M
      BY <1>5
    <3>3. \A k \in 1 .. n - 1 : mk[k] <= M
      BY <1>5, <1>6
    <3> QED
      BY <1>4, <3>1, <3>2, <3>3
  <2>2. i \in 1 .. M
    BY <1>5, <2>1
  <2> QED
    BY <1>4, <2>2
<1>11. /\ \A l \in 1 .. n - 1 :
             /\ base[l + 1] = base[l] + Depth(calls'[l])
             /\ mk[l + 1] = mk[l] + Opened(calls'[l])
       /\ \A k, l \in 1 .. n : k < l =>
             /\ base[k] + Depth(calls'[k]) <= base[l]
             /\ mk[k] + Opened(calls'[k]) <= mk[l]
  <2>1. \A k, l \in 1 .. n : k < l => calls'[k] = calls[k]
    BY <1>1, <1>2
  <2> QED
    BY <1>2, <1>4, <2>1
<1> HIDE DEF n
<1>12. \A l \in 1 .. n :
          /\ (Holds(stack, calls[l], base[l]))'
          /\ Depth(calls[l])' = Depth(calls'[l]) /\ Own(calls[l])' = Own(calls'[l])
          /\ Opened(calls[l])' = Opened(calls'[l])
  BY <1>3, <1>8, ReplyKept
<1>13. /\ Len(stack') = base[n] + Depth(Current)' /\ Len(marks') = mk[n] + Opened(Current)'
  BY <1>2, <1>3, <1>5, ReplyKept
<1>14. \A l \in 1 .. n :
          /\ (Holds(stack, calls[l], base[l]))'
          /\ Opened(calls[l])' = 1 => marks'[mk[l] + 1] = base[l] + Own(calls[l])'
          /\ \A i \in 1 .. mk[l] : marks'[i] <= base[l]
  BY <1>9, <1>10, <1>12
<1>15. /\ \A l \in 1 .. n - 1 :
             /\ base[l + 1] = base[l] + Depth(calls[l])'
             /\ mk[l + 1] = mk[l] + Opened(calls[l])'
       /\ \A k, l \in 1 .. n : k < l =>
             /\ base[k] + Depth(calls[k])' <= base[l]
             /\ mk[k] + Opened(calls[k])' <= mk[l]
  BY <1>3, <1>11, ReplyKept
<1> QED
  BY <1>2, <1>4, <1>13, <1>14, <1>15 DEF LevelsInv


-----------------------------------------------------------------------------
(* The pickler *)

Opcodes ==
    {"ATOM", "STR", "EMPTY_LIST", "EMPTY_DICT", "EMPTY_TUPLE", "MEMOIZE", "PUT",
     "MARK", "GET", "APPEND", "SETITEM", "TUPLE_N", "APPENDS", "SETITEMS", "TUPLE"}

\* What an opcode does to the call that writes it.
LEMMA AfterOpcode ==
    ASSUME reply \in Replies, NEW f, FrameOK(f), NEW op \in Opcodes, Writes(op, f)
    PROVE  LET g == After(op, f) IN
           /\ FrameOK(g) /\ g.obj = f.obj /\ g.done >= f.done
           /\ op \notin {"MEMOIZE", "PUT"} => (MemoStep(g) <=> MemoStep(f))
           /\ op \in {"MEMOIZE", "PUT"} => MemoStep(g) /\ ~MemoStep(f)
<1>1. /\ f.obj \in 0 .. Last /\ f.start \in Nat /\ f.done \in Nat /\ f.step \in Steps
      /\ f.start <= f.done /\ f.done <= Size(f.obj)
  BY FrameNumbers DEF FrameOK
<1>2. /\ Size(f.obj) \in Nat /\ Unit(f.obj) \in Nat
      /\ Kind(f.obj) \in {"atom", "str"} => Size(f.obj) = 0
      /\ Kind(f.obj) = "dict" => Unit(f.obj) = 2
  BY <1>1, ReplyFacts DEF Unit
<1> DEFINE i == f.obj
           u == Unit(i)
           n == Size(i)
           K == Kind(i)
<1>3. ASSUME NEW step \in Steps, NEW start \in Nat, NEW done \in Nat
      PROVE  /\ At(i, step, start, done) \in Frame
             /\ At(i, step, start, done).obj = i
             /\ At(i, step, start, done).step = step
             /\ At(i, step, start, done).start = start
             /\ At(i, step, start, done).done = done
  BY <1>1 DEF At, Frame
<1>4. CASE op \in {"ATOM", "EMPTY_TUPLE"}
  <2>1. /\ f.step = "open" /\ K \in {"atom", "tuple"}
        /\ After(op, f) = At(i, "end", f.done, f.done)
    BY <1>4 DEF Writes, After
  <2>2. f.done = 0 /\ f.start = 0 /\ n = 0
    BY <1>1, <1>2, <2>1 DEF FrameOK
  <2> QED
    BY <1>1, <1>3, <1>4, <2>1, <2>2 DEF FrameOK, MemoStep, Filled, Steps
<1>5. CASE op \in {"STR", "EMPTY_LIST", "EMPTY_DICT"}
  <2>1. /\ f.step = "open" /\ K \in {"str", "list", "dict"}
        /\ After(op, f) = At(i, "memo", f.done, f.done)
    BY <1>5 DEF Writes, After
  <2>2. f.done = 0 /\ f.start = 0
    BY <1>1, <1>2, <2>1 DEF FrameOK
  <2> QED
    BY <1>1, <1>3, <1>5, <2>1, <2>2 DEF FrameOK, MemoStep, Filled, Steps
<1>6. CASE op \in {"MEMOIZE", "PUT"}
  <2>1. /\ f.step = "memo"
        /\ After(op, f) = At(i, IF K \in Filled THEN "fill" ELSE "end", f.done, f.done)
    BY <1>6 DEF Writes, After, Filled
  <2>2. /\ K \in {"str", "list", "dict", "tuple"} /\ f.start = f.done
        /\ K \in Filled => f.done = 0
        /\ K = "tuple" => f.done = n /\ n > 0
        /\ K = "str" => f.done = n
    BY <1>1, <1>2, <2>1 DEF FrameOK
  <2>3. CASE K \in Filled
    <3> DEFINE g == At(i, "fill", 0, 0)
    <3>1. After(op, f) = g /\ f.done = 0
      BY <2>1, <2>2, <2>3
    <3>2. /\ g \in Frame /\ g.obj = i /\ g.step = "fill" /\ g.start = 0 /\ g.done = 0
      BY <1>3 DEF Steps
    <3> HIDE DEF g
    <3>3. FrameOK(g)
      BY <1>2, <2>3, <3>2 DEF FrameOK, Filled
    <3>4. MemoStep(g) /\ ~MemoStep(f)
      BY <2>1, <2>3, <3>2 DEF MemoStep, Filled
    <3> QED
      BY <1>6, <3>1, <3>2, <3>3, <3>4
  <2>4. CASE K \notin Filled
    BY <1>1, <1>2, <1>3, <1>6, <2>1, <2>2, <2>4 DEF FrameOK, MemoStep, Filled, Steps
  <2> QED
    BY <2>3, <2>4
<1>7. CASE op = "MARK"
  <2>1. /\ f.step = "fill" /\ f.done = f.start /\ n > 0
        /\ K \in {"list", "dict"} \/ u = 0
        /\ After(op, f) = At(i, "marked", f.start, f.done)
    BY <1>7 DEF Writes, After
  <2>2. K \notin {"list", "dict"} => K = "tuple" /\ n > 3
    <3>1. K \in {"list", "dict", "tuple", "reply"}
      BY <2>1 DEF FrameOK
    <3>2. K = "reply" => i = 0 /\ n = 1
      <4>1. /\ Last \in Nat /\ Size(0) = 1
            /\ \A j \in 1 .. Last : Kind(j) \in Kinds
        BY ReplyFacts
      <4>2. i \in 0 .. Last /\ "reply" \notin Kinds
        BY <1>1 DEF Kinds
      <4>3. i = 0 \/ i \in 1 .. Last
        BY <4>1, <4>2
      <4> HIDE DEF i
      <4>4. i = 0 => n = 1
        BY <4>1
      <4>5. i \in 1 .. Last => K # "reply"
        BY <4>1, <4>2
      <4> QED
        BY <4>3, <4>4, <4>5
    <3> QED
      BY <1>1, <1>2, <2>1, <3>1, <3>2 DEF Unit
  <2> QED
    BY <1>1, <1>3, <1>7, <2>1, <2>2 DEF FrameOK, MemoStep, Filled, Steps
<1>8. CASE op = "GET"
  <2>1. /\ f.done < n
        /\ f.step = "marked" \/ (f.step = "fill" /\ f.done - f.start < u)
        /\ After(op, f) = At(i, f.step, f.start, f.done + 1)
    BY <1>8 DEF Writes, After, Wants
  <2> DEFINE g == After(op, f)
  <2>2. /\ g \in Frame /\ g.obj = i /\ g.step = f.step /\ g.start = f.start
        /\ g.done = f.done + 1
    BY <1>1, <1>3, <2>1
  <2> HIDE DEF g
  <2>3. /\ g.start <= g.done /\ g.done <= n
        /\ g.step = "fill" => g.done - g.start <= u
    BY <1>1, <1>2, <2>1, <2>2
  <2>4. g.step \in {"fill", "marked"}
    BY <2>1, <2>2
  <2>5. FrameOK(g)
    BY <2>2, <2>3, <2>4 DEF FrameOK
  <2>6. MemoStep(g) <=> MemoStep(f)
    BY <2>2 DEF MemoStep
  <2>7. g.done >= f.done
    BY <1>1, <2>2
  <2> QED
    BY <1>8, <2>2, <2>5, <2>6, <2>7 DEF g
<1>9. CASE op \in {"APPEND", "SETITEM"}
  <2>1. /\ f.step = "fill" /\ K \in Filled /\ f.done - f.start = u
        /\ After(op, f) = At(i, "fill", f.done, f.done)
    BY <1>9 DEF Writes, After, Filled
  <2>2. K = "dict" => f.done % 2 = 0
    BY <1>1, <1>2, <2>1 DEF FrameOK
  <2> QED
    BY <1>1, <1>2, <1>3, <1>9, <2>1, <2>2 DEF FrameOK, MemoStep, Filled, Steps
<1>10. CASE op = "TUPLE_N"
  <2>1. /\ f.step = "fill" /\ K = "tuple" /\ u > 0 /\ f.done - f.start = u
        /\ After(op, f) = At(i, "memo", f.done, f.done)
    BY <1>10 DEF Writes, After
  <2>2. f.start = 0 /\ n > 0
    BY <2>1 DEF FrameOK, Filled
  <2>3. f.done = n
    BY <1>1, <1>2, <2>1, <2>2 DEF Unit
  <2> QED
    BY <1>1, <1>3, <1>10, <2>1, <2>2, <2>3 DEF FrameOK, MemoStep, Filled, Steps
<1>11. CASE op \in {"APPENDS", "SETITEMS"}
  <2>1. /\ f.step = "marked" /\ K \in Filled
        /\ K = "dict" => (f.done - f.start) % 2 = 0
        /\ After(op, f) = At(i, "fill", f.done, f.done)
    BY <1>11 DEF Writes, After, Filled
  <2>2. K = "dict" => f.done % 2 = 0
    BY <1>1, <2>1 DEF FrameOK
  <2> QED
    BY <1>1, <1>2, <1>3, <1>11, <2>1, <2>2 DEF FrameOK, MemoStep, Filled, Steps
<1>12. CASE op = "TUPLE"
  <2>1. /\ f.step = "marked" /\ K = "tuple" /\ f.done = n
        /\ After(op, f) = At(i, "memo", f.done, f.done)
    BY <1>12 DEF Writes, After
  <2>2. n > 0
    BY <2>1 DEF FrameOK, Filled
  <2> QED
    BY <1>1, <1>3, <1>12, <2>1, <2>2 DEF FrameOK, MemoStep, Filled, Steps
<1> QED
  BY <1>4, <1>5, <1>6, <1>7, <1>8, <1>9, <1>10, <1>11, <1>12 DEF Opcodes

LEMMA OpcodeRead ==
    ASSUME reply \in Replies, CallsInv, NEW names \in SUBSET Opcodes, Reading(names)
    PROVE  \E op \in names : \E g :
              /\ g = After(op, Current) /\ Writes(op, Current)
              /\ Moves(g) /\ g.done >= Current.done /\ protocol' = protocol
              /\ op \notin {"MEMOIZE", "PUT"} =>
                    saved' = saved /\ (MemoStep(g) <=> MemoStep(Current))
              /\ op \in {"MEMOIZE", "PUT"} =>
                    /\ saved' = Append(saved, Current.obj)
                    /\ MemoStep(g) /\ ~MemoStep(Current)
<1>1. PICK op \in names :
         /\ Writes(op, Current)
         /\ calls' = Append(SubSeq(calls, 1, Len(calls) - 1), After(op, Current))
         /\ saved' = IF op \in {"MEMOIZE", "PUT"} THEN Append(saved, Current.obj)
                                                  ELSE saved
  BY DEF Reading
<1>2. reply' = reply /\ protocol' = protocol
  BY DEF Reading
<1>3. FrameOK(Current)
  BY CurrentCall
<1> DEFINE g == After(op, Current)
<1>4. /\ FrameOK(g) /\ g.obj = Current.obj /\ g.done >= Current.done
      /\ op \notin {"MEMOIZE", "PUT"} => (MemoStep(g) <=> MemoStep(Current))
      /\ op \in {"MEMOIZE", "PUT"} => MemoStep(g) /\ ~MemoStep(Current)
  BY <1>1, <1>3, AfterOpcode
<1>5. Moves(g)
  BY <1>1, <1>2, <1>4 DEF Moves
<1> HIDE DEF g
<1>6. g = After(op, Current)
  BY DEF g
<1> QED
  BY <1>1, <1>2, <1>4, <1>5, <1>6

-----------------------------------------------------------------------------
(* The decoder *)

\* Where the innermost call's part of the stack and of the marks begins.
LEMMA CurrentLevel ==
    ASSUME CallsInv, StackInv, NEW base, NEW mk, LevelsInv(base, mk),
           NEW B, B = base[Len(calls)], NEW M, M = mk[Len(calls)]
    PROVE  /\ B \in Nat /\ M \in Nat
           /\ Len(stack) = B + Depth(Current) /\ Len(marks) = M + Opened(Current)
           /\ Depth(Current) \in Nat /\ Opened(Current) \in {0, 1}
           /\ Own(Current) \in {0, 1}
           /\ Depth(Current) = Own(Current) + (Current.done - Current.start)
           /\ Holds(stack, Current, B)
           /\ Opened(Current) = 1 => marks[M + 1] = B + Own(Current)
           /\ \A i \in 1 .. M : marks[i] <= B
<1>1. Len(calls) \in 1 .. Len(calls) /\ FrameOK(Current) /\ Current = calls[Len(calls)]
  BY CurrentCall
<1>2. base \in [1 .. Len(calls) -> Nat] /\ mk \in [1 .. Len(calls) -> Nat]
  BY DEF LevelsInv
<1>3. /\ Holds(stack, calls[Len(calls)], base[Len(calls)])
      /\ Opened(calls[Len(calls)]) = 1 =>
            marks[mk[Len(calls)] + 1] = base[Len(calls)] + Own(calls[Len(calls)])
      /\ \A i \in 1 .. mk[Len(calls)] : marks[i] <= base[Len(calls)]
  BY <1>1 DEF LevelsInv
<1>4. /\ Len(stack) = base[Len(calls)] + Depth(Current)
      /\ Len(marks) = mk[Len(calls)] + Opened(Current)
  BY DEF LevelsInv
<1>5. B \in Nat /\ M \in Nat
  BY <1>1, <1>2
<1> QED
  BY <1>1, <1>3, <1>4, <1>5, FrameNumbers

LEMMA MemoStay ==
    ASSUME MemoInv, reply' = reply, saved' = saved, memo' = memo
    PROVE  MemoInv' /\ Saved' = Saved
<1>1. \A n \in 1 .. Len(saved) : Fits(memo[n], saved[n], 0)'
  BY ReplyKept DEF MemoInv
<1> QED
  BY <1>1, ReplyKept DEF MemoInv, Saved

LEMMA MarkTaken ==
    ASSUME StackInv, Len(marks) > 0, Unmark
    PROVE  /\ marks' \in Seq(Nat) /\ Len(marks') = Len(marks) - 1
           /\ \A i \in 1 .. Len(marks) - 1 : marks'[i] = marks[i]
<1>1. marks \in Seq(Nat) /\ Len(marks) \in Nat
  BY DEF StackInv
<1>2. \A i \in 1 .. Len(marks) - 1 : marks[i] \in Nat
  BY <1>1
<1>3. 1 \in Int /\ Len(marks) - 1 \in Int
  BY <1>1
<1>4. /\ SubSeq(marks, 1, Len(marks) - 1) \in Seq(Nat)
      /\ Len(SubSeq(marks, 1, Len(marks) - 1))
            = IF 1 <= Len(marks) - 1 THEN Len(marks) - 1 - 1 + 1 ELSE 0
      /\ \A i \in 1 .. Len(marks) - 1 - 1 + 1 :
            SubSeq(marks, 1, Len(marks) - 1)[i] = marks[1 + i - 1]
  BY <1>2, <1>3, SubSeqProperties
<1>5. marks' = SubSeq(marks, 1, Len(marks) - 1)
  BY DEF Unmark
<1> DEFINE n == Len(marks)
<1>6. n \in Nat /\ n > 0
  BY <1>1
<1> HIDE DEF n
<1>7. /\ (IF 1 <= n - 1 THEN n - 1 - 1 + 1 ELSE 0) = n - 1
      /\ 1 .. n - 1 - 1 + 1 = 1 .. n - 1
      /\ \A i \in 1 .. n - 1 : 1 + i - 1 = i
  BY <1>6
<1> QED
  BY <1>4, <1>5, <1>7 DEF n

LEMMA StackReplaced ==
    ASSUME IsSeq(stack), NEW n \in 0 .. Len(stack), NEW v, Replace(n, v)
    PROVE  /\ IsSeq(stack') /\ Len(stack') = Len(stack) - n + 1
           /\ \A i \in 1 .. Len(stack) - n : stack'[i] = stack[i]
           /\ stack'[Len(stack) - n + 1] = v
<1>1. stack' = Swap(stack, n, v)
  BY DEF Replace, Below, Swap
<1> QED
  BY <1>1, Swapped

\* An opcode takes everything the call has on the stack and leaves the object.
LEMMA OwnValue ==
    ASSUME reply \in Replies, ReadingInv, NEW g, Moves(g), g.done >= Current.done,
           MemoStep(g) <=> MemoStep(Current), saved' = saved, memo' = memo,
           g.start = g.done, Own(g) = 1, Opened(g) = 0,
           NEW v, Replace(Depth(Current), v),
           Fits(v, g.obj, g.done),
           \/ Opened(Current) = 0 /\ marks' = marks
           \/ Opened(Current) = 1 /\ Unmark
    PROVE  ReadingInv'
<1>1. PICK base, mk : LevelsInv(base, mk)
  BY DEF ReadingInv
<1> DEFINE B == base[Len(calls)]
           M == mk[Len(calls)]
<1>2. CallsInv /\ MemoInv /\ MetInv /\ StackInv
  BY DEF ReadingInv
<1>3. /\ B \in Nat /\ M \in Nat
      /\ Len(stack) = B + Depth(Current) /\ Len(marks) = M + Opened(Current)
      /\ Depth(Current) \in Nat
      /\ \A i \in 1 .. M : marks[i] <= B
  BY <1>1, <1>2, CurrentLevel
<1>4. reply' = reply /\ FrameOK(g)
  BY DEF Moves
<1>5. MemoInv' /\ Saved' = Saved
  BY <1>2, <1>4, MemoStay
<1>6. CallsInv' /\ MetInv'
  BY <1>2, <1>5, CallsStay, MetStay
<1> HIDE DEF B, M
<1>7. /\ IsSeq(stack') /\ Len(stack') = B + 1
      /\ \A i \in 1 .. B : stack'[i] = stack[i]
      /\ stack'[B + 1] = v
  <2>1. IsSeq(stack) /\ Depth(Current) \in 0 .. Len(stack) /\ Len(stack) - Depth(Current) = B
    BY <1>2, <1>3 DEF StackInv
  <2>2. /\ IsSeq(stack') /\ Len(stack') = Len(stack) - Depth(Current) + 1
        /\ \A i \in 1 .. Len(stack) - Depth(Current) : stack'[i] = stack[i]
        /\ stack'[Len(stack) - Depth(Current) + 1] = v
    BY <2>1, StackReplaced
  <2> QED
    BY <2>1, <2>2
<1>8. /\ marks' \in Seq(Nat) /\ Len(marks') = M
      /\ \A i \in 1 .. M : marks'[i] = marks[i]
  <2>1. CASE Opened(Current) = 0 /\ marks' = marks
    BY <1>2, <1>3, <2>1 DEF StackInv
  <2>2. CASE Opened(Current) = 1 /\ Unmark
    <3>1. Len(marks) > 0 /\ Len(marks) - 1 = M
      BY <1>3, <2>2
    <3> QED
      BY <1>2, <2>2, <3>1, MarkTaken
  <2> QED
    BY <2>1, <2>2
<1>9. Depth(g) = 1 /\ g.done - g.start = 0
  BY <1>4, FrameNumbers
<1>10. Holds(stack', g, B)
  <2>1. Fits(stack'[B + 1], g.obj, g.start)
    BY <1>7
  <2>2. 1 .. g.done - g.start = {}
    BY <1>9
  <2> QED
    BY <2>1, <2>2 DEF Holds
<1>11. LevelsInv(base, mk)'
  <2>1. /\ Len(stack') = B + Depth(g) /\ Len(marks') = M + Opened(g)
        /\ (Opened(g) = 1 => marks'[M + 1] = B + Own(g))
    BY <1>3, <1>7, <1>8, <1>9
  <2>2. B = base[Len(calls)] /\ M = mk[Len(calls)]
    BY DEF B, M
  <2> QED
    BY <1>1, <1>2, <1>7, <1>8, <1>10, <2>1, <2>2, LevelsStay
<1>12. StackInv'
  <2>1. v.kind \in JKinds
    BY DEF Fits, JKind, JKinds
  <2>2. \A i \in 1 .. Len(stack') : stack'[i].kind \in JKinds
    <3> TAKE i \in 1 .. Len(stack')
    <3>1. i = B + 1 \/ i \in 1 .. B
      BY <1>3, <1>7
    <3>2. \A j \in 1 .. B : j \in 1 .. Len(stack)
      BY <1>3
    <3> QED
      BY <1>2, <1>7, <2>1, <3>1, <3>2 DEF StackInv
  <2>3. \A i, j \in 1 .. Len(marks') : i < j => marks'[i] <= marks'[j]
    <3>1. \A i \in 1 .. M : i \in 1 .. Len(marks)
      BY <1>3, <1>8 DEF Opened
    <3> QED
      BY <1>2, <1>8, <3>1 DEF StackInv
  <2> QED
    BY <1>7, <1>8, <2>2, <2>3 DEF StackInv
<1> QED
  BY <1>5, <1>6, <1>11, <1>12 DEF ReadingInv

LEMMA JsonKind ==
    ASSUME NEW kind, NEW text, NEW items, NEW entries
    PROVE  Json(kind, text, items, entries).kind = kind
BY DEF Json

LEMMA ValueKinds ==
    ASSUME reply \in Replies, NEW i \in 1 .. Last
    PROVE  /\ Fits(Values[i], i, Size(i))
           /\ Kind(i) \notin Filled => \A m : Partial(i, m) = Values[i]
<1>1. Partial(i, Size(i)) = Values[i]
  BY WholeMeaning
<1>2. Kind(i) \notin Filled => \A m : Partial(i, m) = Values[i]
  BY DEF Partial, Filled
<1>3. Kind(i) \in Kinds
  BY ReplyFacts
<1>4. Kind(i) \in {"atom", "str"} => Values[i].kind = JKind(i)
  <2> SUFFICES ASSUME Kind(i) \in {"atom", "str"} PROVE Values[i].kind = JKind(i)
    OBVIOUS
  <2>1. Values[i] = Json(JKind(i), reply[i].text, <<>>, {})
    BY ScalarMeaning
  <2> QED
    BY <2>1, JsonKind
<1>5. Kind(i) = "tuple" => Values[i].kind = JKind(i)
  <2> SUFFICES ASSUME Kind(i) = "tuple" PROVE Values[i].kind = JKind(i)
    OBVIOUS
  <2>1. PICK parts : Values[i] = Json("array", "", parts, {})
    BY WholeMeaning
  <2>2. Json("array", "", parts, {}).kind = "array"
    BY DEF Json
  <2>3. Values[i].kind = "array"
    BY <2>1, <2>2
  <2> QED
    BY <2>3 DEF JKind
<1>6. Kind(i) = "list" => Values[i].kind = JKind(i)
  <2> SUFFICES ASSUME Kind(i) = "list" PROVE Partial(i, Size(i)).kind = "array"
    BY <1>1 DEF JKind
  <2> QED
    BY DEF Partial, Json
<1>7. Kind(i) = "dict" => Values[i].kind = JKind(i)
  <2> SUFFICES ASSUME Kind(i) = "dict" PROVE Partial(i, Size(i)).kind = "object"
    BY <1>1 DEF JKind
  <2> QED
    BY DEF Partial, Json
<1> QED
  BY <1>1, <1>2, <1>3, <1>4, <1>5, <1>6, <1>7 DEF Fits, Kinds

LEMMA ArrayGrown ==
    ASSUME reply \in Replies, NEW i \in 1 .. Last, Kind(i) = "list", NEW m \in Nat,
           NEW v, v.kind = "array", Clean => v = Partial(i, m), NEW s, IsSeq(s),
           Clean => \A j \in 1 .. Len(s) : s[j] = Values[Kids(i)[m + j]]
    PROVE  Fits(WithItems(v, s), i, m + Len(s))
<1>1. WithItems(v, s).kind = "array"
  BY DEF WithItems, Json
<1>2. Clean => WithItems(v, s) = Partial(i, m + Len(s))
  BY ItemsGrow
<1> QED
  BY <1>1, <1>2 DEF Fits, JKind

LEMMA ObjectGrown ==
    ASSUME reply \in Replies, NEW i \in 1 .. Last, Kind(i) = "dict",
           NEW m \in Nat, m % 2 = 0,
           NEW v, v.kind = "object", Clean => v = Partial(i, m), NEW s, IsSeq(s),
           Len(s) % 2 = 0, m + Len(s) <= Size(i),
           Clean => \A j \in 1 .. Len(s) : s[j] = Values[Kids(i)[m + j]]
    PROVE  Fits(WithEntries(v, s), i, m + Len(s))
<1>1. WithEntries(v, s).kind = "object"
  BY DEF WithEntries, Json
<1>2. Clean => WithEntries(v, s) = Partial(i, m + Len(s))
  BY EntriesGrow DEF Clean
<1> QED
  BY <1>1, <1>2 DEF Fits, JKind

LEMMA TupleFits ==
    ASSUME reply \in Replies, NEW i \in 1 .. Last, Kind(i) = "tuple", NEW m,
           NEW s, IsSeq(s), Len(s) = Size(i),
           Clean => \A j \in 1 .. Len(s) : s[j] = Values[Kids(i)[j]]
    PROVE  Fits(WithItems(EmptyArray, s), i, m)
<1>1. WithItems(EmptyArray, s).kind = "array"
  BY DEF WithItems, EmptyArray, Json
<1>2. Clean => WithItems(EmptyArray, s) = Values[i]
  BY TupleMade
<1>3. Partial(i, m) = Values[i]
  BY ValueKinds DEF Filled
<1> QED
  BY <1>1, <1>2, <1>3 DEF Fits, JKind

\* The object and the parts an opcode finds on the stack.
LEMMA OnStack ==
    ASSUME reply \in Replies, CallsInv, StackInv,
           NEW base, NEW mk, LevelsInv(base, mk), NEW B, B = base[Len(calls)]
    PROVE  /\ Own(Current) = 1 =>
                 /\ stack[B + 1].kind = JKind(Current.obj)
                 /\ Clean => stack[B + 1] = Partial(Current.obj, Current.start)
           /\ Clean => \A j \in 1 .. Current.done - Current.start :
                 stack[B + Own(Current) + j] = Values[Kids(Current.obj)[Current.start + j]]
<1> DEFINE f == Current
<1>1. Holds(stack, f, B) /\ FrameOK(f)
  BY CurrentLevel, CurrentCall
<1>2. /\ f.obj \in 0 .. Last /\ f.start \in Nat /\ f.done \in Nat
      /\ f.done <= Size(f.obj)
  BY <1>1, FrameNumbers DEF FrameOK
<1>3. \A k \in 1 .. Size(f.obj) : Kids(f.obj)[k] \in 1 .. Last
  <2>1. \A k \in 1 .. Size(f.obj) : Kids(f.obj)[k] \in f.obj + 1 .. Last
    BY <1>2, ReplyFacts
  <2> QED
    BY <1>2, <2>1
<1>4. ASSUME Clean, NEW j \in 1 .. f.done - f.start
      PROVE  stack[B + Own(f) + j] = Values[Kids(f.obj)[f.start + j]]
  <2> DEFINE i == Kids(f.obj)[f.start + j]
  <2>1. f.start + j \in 1 .. Size(f.obj)
    <3>1. Size(f.obj) \in Nat
      BY <1>2, ReplyFacts
    <3> QED
      BY <1>2, <3>1
  <2>2. i \in 1 .. Last
    BY <1>3, <2>1
  <2>3. Fits(stack[B + Own(f) + j], i, Size(i))
    BY <1>1 DEF Holds
  <2> HIDE DEF i
  <2>4. stack[B + Own(f) + j] = Values[i]
    BY <1>4, <2>2, <2>3, WholeMeaning DEF Fits
  <2> QED
    BY <2>4 DEF i
<1>5. Own(f) = 1 => Fits(stack[B + 1], f.obj, f.start)
  BY <1>1 DEF Holds
<1> QED
  BY <1>4, <1>5 DEF Fits

-----------------------------------------------------------------------------
(* The opcodes that leave the value of an object *)

ValueOps == Opcodes \ {"MEMOIZE", "PUT", "MARK", "GET"}

LEMMA LeavesValue ==
    ASSUME NEW f, NEW op \in ValueOps, Writes(op, f)
    PROVE  LET g == After(op, f) IN
           /\ g.obj = f.obj /\ g.start = f.done /\ g.done = f.done
           /\ Own(g) = 1 /\ Opened(g) = 0
<1>1. CASE op \in {"ATOM", "EMPTY_TUPLE"}
  <2>1. After(op, f) = At(f.obj, "end", f.done, f.done)
    BY <1>1 DEF After
  <2> QED
    BY <2>1 DEF At, Own, Opened
<1>2. CASE op \in {"STR", "EMPTY_LIST", "EMPTY_DICT", "TUPLE_N", "TUPLE"}
  <2>1. After(op, f) = At(f.obj, "memo", f.done, f.done)
    BY <1>2 DEF After
  <2> QED
    BY <2>1 DEF At, Own, Opened
<1>3. CASE op \in {"APPEND", "SETITEM", "APPENDS", "SETITEMS"}
  <2>1. After(op, f) = At(f.obj, "fill", f.done, f.done)
    BY <1>3 DEF After
  <2>2. Kind(f.obj) \in Filled
    BY <1>3 DEF Writes, Filled
  <2> QED
    BY <2>1, <2>2 DEF At, Own, Opened
<1> QED
  BY <1>1, <1>2, <1>3 DEF ValueOps, Opcodes

LEMMA ValueOp ==
    ASSUME reply \in Replies, ReadingInv, NEW names \in SUBSET ValueOps,
           Reading(names), memo' = memo,
           NEW v, Replace(Depth(Current), v), Fits(v, Current.obj, Current.done),
           \/ Opened(Current) = 0 /\ marks' = marks
           \/ Opened(Current) = 1 /\ Unmark
    PROVE  ReadingInv'
<1>1. CallsInv /\ names \in SUBSET Opcodes
  BY DEF ReadingInv, ValueOps
<1>6. PICK op \in names : \E g :
         /\ g = After(op, Current) /\ Writes(op, Current)
         /\ Moves(g) /\ g.done >= Current.done
         /\ op \notin {"MEMOIZE", "PUT"} =>
               saved' = saved /\ (MemoStep(g) <=> MemoStep(Current))
  BY <1>1, OpcodeRead
<1>2. PICK g :
         /\ g = After(op, Current) /\ Writes(op, Current)
         /\ Moves(g) /\ g.done >= Current.done
         /\ op \notin {"MEMOIZE", "PUT"} =>
               saved' = saved /\ (MemoStep(g) <=> MemoStep(Current))
  BY <1>6
<1>3. op \in ValueOps /\ op \notin {"MEMOIZE", "PUT"}
  BY DEF ValueOps
<1>4. /\ g.obj = Current.obj /\ g.start = Current.done /\ g.done = Current.done
      /\ Own(g) = 1 /\ Opened(g) = 0
  BY <1>2, <1>3, LeavesValue
<1>5. Fits(v, g.obj, g.done) /\ g.start = g.done
  BY <1>4
<1> QED
  BY <1>2, <1>3, <1>4, <1>5, OwnValue

\* The call that writes an opcode.
LEMMA WhoWrites ==
    ASSUME reply \in Replies, CallsInv, NEW names, Reading(names)
    PROVE  /\ \E op \in names : Writes(op, Current)
           /\ FrameOK(Current) /\ Current.obj \in 0 .. Last
           /\ Current.start \in Nat /\ Current.done \in Nat
           /\ Current.start <= Current.done /\ Current.done <= Size(Current.obj)
           /\ Size(Current.obj) \in Nat
           /\ Kind(Current.obj) # "reply" => Current.obj \in 1 .. Last
<1>1. FrameOK(Current)
  BY CurrentCall
<1>2. Current.obj = 0 => Kind(Current.obj) = "reply"
  BY ReplyFacts
<1>3. Current.obj \in 0 .. Last => Size(Current.obj) \in Nat
  BY ReplyFacts
<1>4. Last \in Nat
  BY ReplyFacts
<1> QED
  BY <1>1, <1>2, <1>3, <1>4, FrameNumbers DEF Reading, FrameOK

LEMMA LiteralStep ==
    ASSUME reply \in Replies, ReadingInv, Literal
    PROVE  ReadingInv' /\ outcome' = outcome
<1> DEFINE f == Current
           i == f.obj
           v == Json(IF Kind(i) = "str" THEN "string" ELSE "atom",
                     reply[i].text, <<>>, {})
<1>1. CallsInv /\ Reading({"ATOM", "STR"}) /\ Replace(0, v)
      /\ marks' = marks /\ memo' = memo /\ outcome' = outcome
  BY DEF ReadingInv, Literal, Operand
<1>2. f.step = "open" /\ Kind(i) \in {"atom", "str"} /\ i \in 1 .. Last /\ f.start = f.done
  <2>1. PICK op \in {"ATOM", "STR"} : Writes(op, f)
    BY <1>1, WhoWrites
  <2>2. f.step = "open" /\ Kind(i) \in {"atom", "str"}
    BY <2>1 DEF Writes
  <2> QED
    BY <1>1, <2>2, WhoWrites DEF FrameOK
<1>3. Own(f) = 0 /\ Opened(f) = 0 /\ Depth(f) = 0
  BY <1>1, <1>2, WhoWrites DEF Own, Opened, Depth
<1>4. v = Values[i]
  BY <1>2, ScalarMeaning DEF JKind
<1>5. Fits(v, i, f.done)
  <2>1. Values[i].kind = JKind(i) /\ Partial(i, f.done) = Values[i]
    BY <1>2, ValueKinds DEF Fits, Filled
  <2> HIDE DEF v
  <2> QED
    BY <1>4, <2>1 DEF Fits
<1>6. {"ATOM", "STR"} \in SUBSET ValueOps
  BY DEF ValueOps, Opcodes
<1> HIDE DEF v
<1> QED
  BY <1>1, <1>3, <1>5, <1>6, ValueOp

LEMMA EmptyContainerStep ==
    ASSUME reply \in Replies, ReadingInv, EmptyContainer
    PROVE  ReadingInv' /\ outcome' = outcome
<1> DEFINE f == Current
           i == f.obj
           v == IF Kind(i) = "dict" THEN EmptyObject ELSE EmptyArray
           names == {"EMPTY_LIST", "EMPTY_TUPLE", "EMPTY_DICT"}
<1>1. CallsInv /\ Reading(names) /\ Replace(0, v)
      /\ marks' = marks /\ memo' = memo /\ outcome' = outcome
  BY DEF ReadingInv, EmptyContainer
<1>2. f.step = "open" /\ Kind(i) \in {"list", "tuple", "dict"}
  <2>1. PICK op \in names : Writes(op, f)
    BY <1>1, WhoWrites
  <2> QED
    BY <2>1 DEF Writes
<1>3. /\ i \in 1 .. Last /\ f.start = 0 /\ f.done = 0
      /\ Kind(i) = "tuple" => Size(i) = 0
  BY <1>1, <1>2, WhoWrites DEF FrameOK
<1>4. Own(f) = 0 /\ Opened(f) = 0 /\ Depth(f) = 0
  BY <1>2, <1>3 DEF Own, Opened, Depth
<1>5. v.kind = JKind(i)
  BY <1>2 DEF EmptyObject, EmptyArray, Json, JKind
<1>6. v = Partial(i, 0)
  <2>1. CASE Kind(i) \in {"list", "dict"}
    BY <1>3, <2>1, EmptyMeaning
  <2>2. CASE Kind(i) = "tuple"
    <3>1. [k \in 1 .. Size(i) |-> Values[Kids(i)[k]]] = <<>>
      BY <1>3, <2>2
    <3>2. Values[i] = EmptyArray
      BY <1>3, <2>2, <3>1, WholeMeaning DEF EmptyArray
    <3> QED
      BY <2>2, <3>2 DEF Partial
  <2> QED
    BY <1>2, <2>1, <2>2
<1>7. names \in SUBSET ValueOps
  BY DEF ValueOps, Opcodes
<1> HIDE DEF v, names
<1>8. Fits(v, i, f.done)
  BY <1>3, <1>5, <1>6 DEF Fits
<1> QED
  BY <1>1, <1>4, <1>7, <1>8, ValueOp

\* What the opcode of a call finds on the stack.
LEMMA Found ==
    ASSUME reply \in Replies, ReadingInv
    PROVE  \E B, M \in Nat :
              LET f == Current IN
              /\ IsSeq(stack) /\ Len(stack) = B + Depth(f)
              /\ Len(marks) = M + Opened(f) /\ Depth(f) = Own(f) + (f.done - f.start)
              /\ Own(f) = 1 =>
                    /\ stack[B + 1].kind = JKind(f.obj)
                    /\ Clean => stack[B + 1] = Partial(f.obj, f.start)
              /\ Clean => \A j \in 1 .. f.done - f.start :
                    stack[B + Own(f) + j] = Values[Kids(f.obj)[f.start + j]]
              /\ Opened(f) = 1 => marks[M + 1] = B + Own(f)
<1>1. CallsInv /\ StackInv
  BY DEF ReadingInv
<1>2. PICK base, mk : LevelsInv(base, mk)
  BY DEF ReadingInv
<1> DEFINE B == base[Len(calls)]
           M == mk[Len(calls)]
<1>3. /\ B \in Nat /\ M \in Nat
      /\ Len(stack) = B + Depth(Current) /\ Len(marks) = M + Opened(Current)
      /\ Depth(Current) = Own(Current) + (Current.done - Current.start)
      /\ Opened(Current) = 1 => marks[M + 1] = B + Own(Current)
  BY <1>1, <1>2, CurrentLevel
<1>4. /\ Own(Current) = 1 =>
            /\ stack[B + 1].kind = JKind(Current.obj)
            /\ Clean => stack[B + 1] = Partial(Current.obj, Current.start)
      /\ Clean => \A j \in 1 .. Current.done - Current.start :
            stack[B + Own(Current) + j] = Values[Kids(Current.obj)[Current.start + j]]
  BY <1>1, <1>2, OnStack
<1>5. IsSeq(stack)
  BY <1>1 DEF StackInv
<1> HIDE DEF B, M
<1> QED
  BY <1>3, <1>4, <1>5

LEMMA OneOrTwo ==
    ASSUME NEW a, NEW b
    PROVE  /\ IsSeq(<<a>>) /\ Len(<<a>>) = 1 /\ <<a>>[1] = a
           /\ IsSeq(<<a, b>>) /\ Len(<<a, b>>) = 2
           /\ <<a, b>>[1] = a /\ <<a, b>>[2] = b
<1>1. <<a>> \in Seq({a}) /\ <<a, b>> \in Seq({a, b})
  OBVIOUS
<1> QED
  BY <1>1 DEF IsSeq

LEMMA AppendItemStep ==
    ASSUME reply \in Replies, ReadingInv, AppendItem
    PROVE  ReadingInv' /\ outcome' = outcome
<1> DEFINE f == Current
           i == f.obj
           v == WithItems(stack[Len(stack) - 1], <<Top>>)
<1>1. CallsInv /\ Reading({"APPEND"})
  BY DEF ReadingInv, AppendItem
<1>2. /\ f.step = "fill" /\ Kind(i) = "list" /\ f.done - f.start = 1
  <2>1. Writes("APPEND", f)
    BY <1>1, WhoWrites
  <2> QED
    BY <2>1 DEF Writes, Unit
<1>3. Own(f) = 1 /\ Opened(f) = 0 /\ i \in 1 .. Last /\ f.start \in Nat /\ f.done = f.start + 1
  BY <1>1, <1>2, WhoWrites DEF Own, Opened, Filled
<1>4. PICK B, M \in Nat :
         /\ Len(stack) = B + Depth(f) /\ Depth(f) = Own(f) + (f.done - f.start)
         /\ Own(f) = 1 =>
               /\ stack[B + 1].kind = JKind(i)
               /\ Clean => stack[B + 1] = Partial(i, f.start)
         /\ Clean => \A j \in 1 .. f.done - f.start :
               stack[B + Own(f) + j] = Values[Kids(i)[f.start + j]]
  BY Found
<1>5. /\ Depth(f) = 2 /\ Len(stack) = B + 2 /\ Len(stack) - 1 = B + 1
      /\ stack[B + 1].kind = "array" /\ Top = stack[B + 2]
      /\ Clean => stack[B + 1] = Partial(i, f.start) /\ Top = Values[Kids(i)[f.start + 1]]
  <2>1. Depth(f) = 2 /\ Len(stack) = B + 2 /\ Len(stack) - 1 = B + 1
    BY <1>2, <1>3, <1>4
  <2>2. stack[B + 1].kind = "array" /\ (Clean => stack[B + 1] = Partial(i, f.start))
    BY <1>2, <1>3, <1>4 DEF JKind
  <2>3. 1 \in 1 .. f.done - f.start /\ B + Own(f) + 1 = B + 2
    BY <1>2, <1>3
  <2>4. Top = stack[B + 2]
    BY <2>1 DEF Top
  <2> QED
    BY <1>4, <2>1, <2>2, <2>3, <2>4
<1>6. ~(Len(stack) < 2 \/ stack[Len(stack) - 1].kind # "array")
  BY <1>5
<1>7. Replace(2, v) /\ marks' = marks /\ memo' = memo /\ outcome' = outcome
  BY <1>6 DEF AppendItem
<1>8. Fits(v, i, f.done)
  <2>1. IsSeq(<<Top>>) /\ Len(<<Top>>) = 1 /\ <<Top>>[1] = Top
    BY OneOrTwo
  <2>2. Clean => \A j \in 1 .. Len(<<Top>>) : <<Top>>[j] = Values[Kids(i)[f.start + j]]
    BY <1>5, <2>1
  <2>3. Fits(WithItems(stack[B + 1], <<Top>>), i, f.start + Len(<<Top>>))
    BY <1>2, <1>3, <1>5, <2>1, <2>2, ArrayGrown
  <2> QED
    BY <1>3, <1>5, <2>1, <2>3
<1>9. {"APPEND"} \in SUBSET ValueOps
  BY DEF ValueOps, Opcodes
<1> HIDE DEF v
<1> QED
  BY <1>1, <1>3, <1>5, <1>7, <1>8, <1>9, ValueOp

LEMMA SetItemStep ==
    ASSUME reply \in Replies, ReadingInv, SetItem
    PROVE  ReadingInv' /\ outcome' = outcome
<1> DEFINE f == Current
           i == f.obj
           s == <<stack[Len(stack) - 1], Top>>
           v == WithEntries(stack[Len(stack) - 2], s)
<1>1. CallsInv /\ Reading({"SETITEM"})
  BY DEF ReadingInv, SetItem
<1>2. /\ f.step = "fill" /\ Kind(i) = "dict" /\ f.done - f.start = 2
  <2>1. Writes("SETITEM", f)
    BY <1>1, WhoWrites
  <2> QED
    BY <2>1 DEF Writes, Unit
<1>3. /\ Own(f) = 1 /\ Opened(f) = 0 /\ i \in 1 .. Last /\ f.start \in Nat
      /\ f.done = f.start + 2 /\ f.start % 2 = 0 /\ f.done <= Size(i)
  BY <1>1, <1>2, WhoWrites DEF Own, Opened, Filled, FrameOK
<1>4. PICK B, M \in Nat :
         /\ Len(stack) = B + Depth(f) /\ Depth(f) = Own(f) + (f.done - f.start)
         /\ Own(f) = 1 =>
               /\ stack[B + 1].kind = JKind(i)
               /\ Clean => stack[B + 1] = Partial(i, f.start)
         /\ Clean => \A j \in 1 .. f.done - f.start :
               stack[B + Own(f) + j] = Values[Kids(i)[f.start + j]]
  BY Found
<1>5. /\ Depth(f) = 3 /\ Len(stack) = B + 3
      /\ Len(stack) - 2 = B + 1 /\ Len(stack) - 1 = B + 2
      /\ stack[B + 1].kind = "object" /\ Top = stack[B + 3]
      /\ Clean =>
            /\ stack[B + 1] = Partial(i, f.start)
            /\ stack[B + 2] = Values[Kids(i)[f.start + 1]]
            /\ stack[B + 3] = Values[Kids(i)[f.start + 2]]
  <2>1. /\ Depth(f) = 3 /\ Len(stack) = B + 3
        /\ Len(stack) - 2 = B + 1 /\ Len(stack) - 1 = B + 2
    BY <1>2, <1>3, <1>4
  <2>2. stack[B + 1].kind = "object" /\ (Clean => stack[B + 1] = Partial(i, f.start))
    BY <1>2, <1>3, <1>4 DEF JKind
  <2>3. /\ 1 \in 1 .. f.done - f.start /\ B + Own(f) + 1 = B + 2
        /\ 2 \in 1 .. f.done - f.start /\ B + Own(f) + 2 = B + 3
    BY <1>2, <1>3
  <2>4. Top = stack[B + 3]
    BY <2>1 DEF Top
  <2>5. Clean => /\ stack[B + Own(f) + 1] = Values[Kids(i)[f.start + 1]]
                 /\ stack[B + Own(f) + 2] = Values[Kids(i)[f.start + 2]]
    BY <1>4, <2>3
  <2> QED
    BY <2>1, <2>2, <2>3, <2>4, <2>5
<1>6. ~(Len(stack) < 3 \/ stack[Len(stack) - 2].kind # "object")
  BY <1>5
<1>7. Replace(3, v) /\ marks' = marks /\ memo' = memo /\ outcome' = outcome
  BY <1>6 DEF SetItem
<1>8. Fits(v, i, f.done)
  <2>1. IsSeq(s) /\ Len(s) = 2 /\ s[1] = stack[Len(stack) - 1] /\ s[2] = Top
    BY OneOrTwo
  <2> HIDE DEF s
  <2>2. Clean => \A j \in 1 .. Len(s) : s[j] = Values[Kids(i)[f.start + j]]
    BY <1>5, <2>1
  <2>3. Len(s) % 2 = 0 /\ f.start + Len(s) = f.done
    BY <1>3, <2>1
  <2>4. Fits(WithEntries(stack[B + 1], s), i, f.start + Len(s))
    BY <1>2, <1>3, <1>5, <2>1, <2>2, <2>3, ObjectGrown
  <2> QED
    BY <1>5, <2>3, <2>4
<1>9. {"SETITEM"} \in SUBSET ValueOps
  BY DEF ValueOps, Opcodes
<1> HIDE DEF v, s
<1> QED
  BY <1>1, <1>3, <1>5, <1>7, <1>8, <1>9, ValueOp

LEMMA SmallTupleStep ==
    ASSUME reply \in Replies, ReadingInv, SmallTuple
    PROVE  ReadingInv' /\ outcome' = outcome
<1> DEFINE f == Current
           i == f.obj
           n == Size(i)
           s == [k \in 1 .. n |-> stack[Len(stack) - n + k]]
           v == WithItems(EmptyArray, s)
<1>1. CallsInv /\ Reading({"TUPLE_N"})
  BY DEF ReadingInv, SmallTuple
<1>2. /\ f.step = "fill" /\ Kind(i) = "tuple" /\ f.done - f.start = n
  <2>1. Writes("TUPLE_N", f)
    BY <1>1, WhoWrites
  <2> QED
    BY <2>1 DEF Writes, Unit
<1>3. /\ Own(f) = 0 /\ Opened(f) = 0 /\ i \in 1 .. Last /\ f.start = 0 /\ f.done = n
      /\ n \in Nat
  BY <1>1, <1>2, WhoWrites DEF Own, Opened, Filled, FrameOK
<1>4. PICK B, M \in Nat :
         /\ Len(stack) = B + Depth(f) /\ Depth(f) = Own(f) + (f.done - f.start)
         /\ Clean => \A j \in 1 .. f.done - f.start :
               stack[B + Own(f) + j] = Values[Kids(i)[f.start + j]]
  BY Found
<1>5. Depth(f) = n /\ Len(stack) = B + n /\ Len(stack) - n = B
  BY <1>3, <1>4
<1>6. ~(Len(stack) < n)
  BY <1>3, <1>5
<1>7. Replace(n, v) /\ marks' = marks /\ memo' = memo /\ outcome' = outcome
  BY <1>6 DEF SmallTuple
<1>8. Fits(v, i, f.done)
  <2>1. IsSeq(s) /\ Len(s) = n /\ \A j \in 1 .. n : s[j] = stack[B + j]
    <3>1. s \in Seq({stack[Len(stack) - n + k] : k \in 1 .. n})
      BY <1>3
    <3>2. \A j \in 1 .. n : s[j] = stack[B + j]
      BY <1>5
    <3>3. Len(s) = n
      BY <1>3
    <3> QED
      BY <3>1, <3>2, <3>3 DEF IsSeq
  <2> HIDE DEF s
  <2>2. Clean => \A j \in 1 .. Len(s) : s[j] = Values[Kids(i)[j]]
    <3>1. \A j \in 1 .. n : B + Own(f) + j = B + j /\ f.start + j = j
      BY <1>3
    <3>2. f.done - f.start = n
      BY <1>3
    <3> QED
      BY <1>4, <2>1, <3>1, <3>2
  <2> QED
    BY <1>2, <1>3, <2>1, <2>2, TupleFits
<1>9. {"TUPLE_N"} \in SUBSET ValueOps
  BY DEF ValueOps, Opcodes
<1> HIDE DEF v, s
<1> QED
  BY <1>1, <1>3, <1>5, <1>7, <1>8, <1>9, ValueOp


\* What the opcode for many finds above the mark, and below it.
LEMMA AboveMark ==
    ASSUME reply \in Replies, ReadingInv, Opened(Current) = 1
    PROVE  LET f == Current IN
           /\ Marked /\ Height \in Nat
           /\ IsSeq(Items) /\ Len(Items) = f.done - f.start
           /\ Depth(f) = Own(f) + Len(Items)
           /\ Own(f) = 1 =>
                 /\ Height # 0 /\ stack[Height].kind = JKind(f.obj)
                 /\ Clean => stack[Height] = Partial(f.obj, f.start)
           /\ Clean => \A j \in 1 .. Len(Items) :
                 Items[j] = Values[Kids(f.obj)[f.start + j]]
<1> DEFINE f == Current
<1>1. PICK B, M \in Nat :
         /\ IsSeq(stack) /\ Len(stack) = B + Depth(f)
         /\ Len(marks) = M + Opened(f) /\ Depth(f) = Own(f) + (f.done - f.start)
         /\ Own(f) = 1 =>
               /\ stack[B + 1].kind = JKind(f.obj)
               /\ Clean => stack[B + 1] = Partial(f.obj, f.start)
         /\ Clean => \A j \in 1 .. f.done - f.start :
               stack[B + Own(f) + j] = Values[Kids(f.obj)[f.start + j]]
         /\ Opened(f) = 1 => marks[M + 1] = B + Own(f)
  BY Found
<1>2. FrameOK(f)
  BY CurrentCall DEF ReadingInv
<1>3. Own(f) \in {0, 1} /\ f.done - f.start \in Nat
  BY <1>2, FrameNumbers
<1>4. Len(marks) = M + 1 /\ Height = B + Own(f)
  BY <1>1 DEF Height
<1>5. Height \in 0 .. Len(stack) /\ Len(stack) - Height = f.done - f.start
      /\ Len(stack) \in Nat
  BY <1>1, <1>3, <1>4
<1>6. Marked
  <2>1. marks # <<>>
    BY <1>4, EmptyIsSeq
  <2> QED
    BY <1>5, <2>1 DEF Marked
<1>7. /\ IsSeq(Items) /\ Len(Items) = f.done - f.start
      /\ \A j \in 1 .. f.done - f.start : Items[j] = stack[Height + j]
  BY <1>1, <1>5, Cut DEF Items
<1>8. Own(f) = 1 =>
         /\ Height # 0 /\ stack[Height].kind = JKind(f.obj)
         /\ Clean => stack[Height] = Partial(f.obj, f.start)
  BY <1>1, <1>4
<1>9. Clean => \A j \in 1 .. Len(Items) : Items[j] = Values[Kids(f.obj)[f.start + j]]
  BY <1>1, <1>4, <1>7
<1>10. Depth(f) = Own(f) + Len(Items) /\ Height \in Nat
  BY <1>1, <1>5, <1>7
<1> QED
  BY <1>6, <1>7, <1>8, <1>9, <1>10

LEMMA AppendItemsStep ==
    ASSUME reply \in Replies, ReadingInv, AppendItems
    PROVE  ReadingInv' /\ outcome' = outcome
<1> DEFINE f == Current
           i == f.obj
<1>1. CallsInv /\ Reading({"APPENDS"})
  BY DEF ReadingInv, AppendItems
<1>2. f.step = "marked" /\ Kind(i) = "list"
  <2>1. Writes("APPENDS", f)
    BY <1>1, WhoWrites
  <2> QED
    BY <2>1 DEF Writes
<1>3. /\ Own(f) = 1 /\ Opened(f) = 1 /\ i \in 1 .. Last
      /\ f.start \in Nat /\ f.done \in Nat
  BY <1>1, <1>2, WhoWrites DEF Own, Opened, Filled
<1>4. /\ Marked /\ Height # 0 /\ stack[Height].kind = "array"
      /\ Clean => stack[Height] = Partial(i, f.start)
      /\ IsSeq(Items) /\ f.start + Len(Items) = f.done /\ Depth(f) = Len(Items) + 1
      /\ Clean => \A j \in 1 .. Len(Items) : Items[j] = Values[Kids(i)[f.start + j]]
  <2>1. JKind(i) = "array"
    BY <1>2 DEF JKind
  <2> QED
    BY <1>3, <2>1, AboveMark
<1>5. /\ Replace(Len(Items) + 1, WithItems(stack[Height], Items))
      /\ Unmark /\ memo' = memo /\ outcome' = outcome
  BY <1>4 DEF AppendItems
<1>6. Fits(WithItems(stack[Height], Items), i, f.start + Len(Items))
  BY <1>2, <1>3, <1>4, ArrayGrown
<1>7. {"APPENDS"} \in SUBSET ValueOps
  BY DEF ValueOps, Opcodes
<1>8. /\ Replace(Depth(f), WithItems(stack[Height], Items))
      /\ Fits(WithItems(stack[Height], Items), i, f.done)
  BY <1>4, <1>5, <1>6
<1> QED
  BY <1>1, <1>3, <1>5, <1>7, <1>8, ValueOp

LEMMA SetItemsStep ==
    ASSUME reply \in Replies, ReadingInv, SetItems
    PROVE  ReadingInv' /\ outcome' = outcome
<1> DEFINE f == Current
           i == f.obj
<1>1. CallsInv /\ Reading({"SETITEMS"})
  BY DEF ReadingInv, SetItems
<1>2. f.step = "marked" /\ Kind(i) = "dict" /\ (f.done - f.start) % 2 = 0
  <2>1. Writes("SETITEMS", f)
    BY <1>1, WhoWrites
  <2> QED
    BY <2>1 DEF Writes
<1>3. /\ Own(f) = 1 /\ Opened(f) = 1 /\ i \in 1 .. Last
      /\ f.start \in Nat /\ f.start % 2 = 0 /\ f.done \in Nat /\ f.done <= Size(i)
  BY <1>1, <1>2, WhoWrites DEF Own, Opened, Filled, FrameOK
<1>4. /\ Marked /\ Height # 0 /\ stack[Height].kind = "object"
      /\ Clean => stack[Height] = Partial(i, f.start)
      /\ IsSeq(Items) /\ f.start + Len(Items) = f.done /\ Depth(f) = Len(Items) + 1
      /\ Len(Items) % 2 = 0
      /\ Clean => \A j \in 1 .. Len(Items) : Items[j] = Values[Kids(i)[f.start + j]]
  <2>1. JKind(i) = "object"
    BY <1>2 DEF JKind
  <2> QED
    BY <1>2, <1>3, <2>1, AboveMark
<1>5. /\ Replace(Len(Items) + 1, WithEntries(stack[Height], Items))
      /\ Unmark /\ memo' = memo /\ outcome' = outcome
  BY <1>4 DEF SetItems
<1>6. Fits(WithEntries(stack[Height], Items), i, f.start + Len(Items))
  BY <1>2, <1>3, <1>4, ObjectGrown
<1>7. {"SETITEMS"} \in SUBSET ValueOps
  BY DEF ValueOps, Opcodes
<1>8. /\ Replace(Depth(f), WithEntries(stack[Height], Items))
      /\ Fits(WithEntries(stack[Height], Items), i, f.done)
  BY <1>4, <1>5, <1>6
<1> QED
  BY <1>1, <1>3, <1>5, <1>7, <1>8, ValueOp

LEMMA MarkedTupleStep ==
    ASSUME reply \in Replies, ReadingInv, MarkedTuple
    PROVE  ReadingInv' /\ outcome' = outcome
<1> DEFINE f == Current
           i == f.obj
<1>1. CallsInv /\ Reading({"TUPLE"})
  BY DEF ReadingInv, MarkedTuple
<1>2. f.step = "marked" /\ Kind(i) = "tuple" /\ f.done = Size(i)
  <2>1. Writes("TUPLE", f)
    BY <1>1, WhoWrites
  <2> QED
    BY <2>1 DEF Writes
<1>3. /\ Own(f) = 0 /\ Opened(f) = 1 /\ i \in 1 .. Last
      /\ f.start = 0 /\ Size(i) \in Nat
  BY <1>1, <1>2, WhoWrites DEF Own, Opened, Filled, FrameOK
<1>4. /\ Marked /\ IsSeq(Items) /\ Len(Items) = Size(i) /\ Depth(f) = Len(Items)
      /\ Clean => \A j \in 1 .. Len(Items) : Items[j] = Values[Kids(i)[j]]
  <2>1. \A j \in 1 .. Len(Items) : f.start + j = j
    BY <1>3
  <2>2. /\ Marked /\ IsSeq(Items) /\ Len(Items) = f.done - f.start
        /\ Depth(f) = Own(f) + Len(Items)
        /\ Clean => \A j \in 1 .. Len(Items) : Items[j] = Values[Kids(i)[f.start + j]]
    BY <1>3, AboveMark
  <2> QED
    BY <1>2, <1>3, <2>1, <2>2
<1>5. /\ Replace(Len(Items), WithItems(EmptyArray, Items))
      /\ Unmark /\ memo' = memo /\ outcome' = outcome
  BY <1>4 DEF MarkedTuple
<1>6. Fits(WithItems(EmptyArray, Items), i, f.done)
  BY <1>2, <1>3, <1>4, TupleFits
<1>7. {"TUPLE"} \in SUBSET ValueOps
  BY DEF ValueOps, Opcodes
<1>8. Replace(Depth(f), WithItems(EmptyArray, Items))
  BY <1>4, <1>5
<1> QED
  BY <1>1, <1>3, <1>5, <1>6, <1>7, <1>8, ValueOp


-----------------------------------------------------------------------------
(* The mark, the memo and the parts that were memoized *)

LEMMA MarkStep ==
    ASSUME reply \in Replies, ReadingInv, Mark
    PROVE  ReadingInv' /\ outcome' = outcome
<1> DEFINE f == Current
<1>1. /\ CallsInv /\ MemoInv /\ MetInv /\ StackInv /\ Reading({"MARK"})
      /\ marks' = Append(marks, Len(stack)) /\ stack' = stack
      /\ memo' = memo /\ outcome' = outcome
  BY DEF ReadingInv, Mark
<1>2. PICK g :
         /\ g = After("MARK", f) /\ Writes("MARK", f) /\ Moves(g) /\ g.done >= f.done
         /\ saved' = saved /\ (MemoStep(g) <=> MemoStep(f))
  <2>1. {"MARK"} \in SUBSET Opcodes
    BY DEF Opcodes
  <2> QED
    BY <1>1, <2>1, OpcodeRead
<1>3. /\ f.step = "fill" /\ f.done = f.start
      /\ g.obj = f.obj /\ g.step = "marked" /\ g.start = f.start /\ g.done = f.done
  BY <1>2 DEF Writes, After, At
<1>4. Own(g) = Own(f) /\ Opened(g) = 1 /\ Opened(f) = 0
  BY <1>3 DEF Own, Opened
<1>5. FrameOK(g) /\ reply' = reply
  BY <1>2 DEF Moves
<1>6. MemoInv' /\ Saved' = Saved
  BY <1>1, <1>2, <1>5, MemoStay
<1>7. CallsInv' /\ MetInv'
  BY <1>1, <1>2, <1>6, CallsStay, MetStay
<1>8. PICK base, mk : LevelsInv(base, mk)
  BY DEF ReadingInv
<1> DEFINE B == base[Len(calls)]
           M == mk[Len(calls)]
<1>9. /\ B \in Nat /\ M \in Nat
      /\ Len(stack) = B + Depth(f) /\ Len(marks) = M + Opened(f)
      /\ Depth(f) = Own(f) + (f.done - f.start) /\ Own(f) \in {0, 1}
      /\ Holds(stack, f, B) /\ \A i \in 1 .. M : marks[i] <= B
  BY <1>1, <1>8, CurrentLevel
<1>17. B = base[Len(calls)] /\ M = mk[Len(calls)]
  OBVIOUS
<1> HIDE DEF B, M
<1>10. f.start \in Nat /\ f.done \in Nat
  BY <1>1, CurrentCall, FrameNumbers
<1>11. Len(stack) = B + Own(f) /\ Len(marks) = M /\ Depth(g) = Own(f)
  BY <1>3, <1>4, <1>9, <1>10 DEF Depth
<1>12. /\ marks' \in Seq(Nat) /\ Len(marks') = M + 1 /\ marks'[M + 1] = B + Own(f)
       /\ \A i \in 1 .. M : marks'[i] = marks[i]
  <2>1. marks \in Seq(Nat) /\ Len(stack) \in Nat
    BY <1>1, <1>9, <1>11 DEF StackInv
  <2> QED
    BY <1>1, <1>11, <2>1, AppendProperties
<1>13. Holds(stack', g, B)
  <2>1. Own(g) = 1 => Fits(stack'[B + 1], g.obj, g.start)
    BY <1>1, <1>3, <1>4, <1>9 DEF Holds
  <2>2. 1 .. g.done - g.start = {}
    BY <1>3, <1>10
  <2> QED
    BY <2>1, <2>2 DEF Holds
<1>14. LevelsInv(base, mk)'
  <2>1. /\ Len(stack') = B + Depth(g) /\ Len(marks') = M + Opened(g)
        /\ marks'[M + 1] = B + Own(g) /\ \A j \in 1 .. B : stack'[j] = stack[j]
    BY <1>1, <1>4, <1>11, <1>12
  <2> QED
    BY <1>1, <1>2, <1>8, <1>12, <1>13, <1>17, <2>1, LevelsStay
<1>15. StackInv'
  <2>1. \A i, j \in 1 .. Len(marks') : i < j => marks'[i] <= marks'[j]
    <3> TAKE i, j \in 1 .. Len(marks')
    <3> HAVE i < j
    <3>1. i \in 1 .. M /\ (j \in 1 .. M \/ j = M + 1)
      BY <1>9, <1>12
    <3>2. CASE j \in 1 .. M
      BY <1>1, <1>11, <1>12, <3>1, <3>2 DEF StackInv
    <3>3. CASE j = M + 1
      <4>1. marks'[i] = marks[i] /\ marks[i] <= B /\ marks'[j] = B + Own(f)
        BY <1>9, <1>12, <3>1, <3>3
      <4>2. marks[i] \in Nat
        BY <1>1, <1>11, <3>1 DEF StackInv
      <4> QED
        BY <1>9, <4>1, <4>2
    <3> QED
      BY <3>1, <3>2, <3>3
  <2> QED
    BY <1>1, <1>12, <2>1 DEF StackInv
<1> QED
  BY <1>1, <1>6, <1>7, <1>14, <1>15 DEF ReadingInv

\* The call when one more of its parts has been written.
LEMMA NextPart ==
    ASSUME reply \in Replies, NEW f, FrameOK(f), Wants(f)
    PROVE  LET g == At(f.obj, f.step, f.start, f.done + 1) IN
           /\ FrameOK(g) /\ g.obj = f.obj /\ g.done = f.done + 1 /\ g.start = f.start
           /\ (MemoStep(g) <=> MemoStep(f))
           /\ Own(g) = Own(f) /\ Opened(g) = Opened(f) /\ Depth(g) = Depth(f) + 1
           /\ Part(f) \in f.obj + 1 .. Last /\ Part(f) = Kids(f.obj)[f.done + 1]
           /\ f.done + 1 \in 1 .. Size(f.obj)
<1> DEFINE g == At(f.obj, f.step, f.start, f.done + 1)
<1>1. /\ f.obj \in 0 .. Last /\ f.start \in Nat /\ f.done \in Nat /\ f.step \in Steps
      /\ f.start <= f.done /\ f.done <= Size(f.obj)
  BY FrameNumbers DEF FrameOK
<1>2. Size(f.obj) \in Nat /\ Unit(f.obj) \in Nat
  BY <1>1, ReplyFacts DEF Unit
<1>3. /\ f.done < Size(f.obj) /\ f.step \in {"fill", "marked"}
      /\ f.step = "fill" => f.done - f.start < Unit(f.obj)
  BY DEF Wants
<1>4. /\ g \in Frame /\ g.obj = f.obj /\ g.step = f.step /\ g.start = f.start
      /\ g.done = f.done + 1
  BY <1>1 DEF At, Frame
<1> HIDE DEF g
<1>5. /\ g.start <= g.done /\ g.done <= Size(f.obj)
      /\ g.step = "fill" => g.done - g.start <= Unit(f.obj)
  BY <1>1, <1>2, <1>3, <1>4
<1>6. g.step \in {"fill", "marked"}
  BY <1>3, <1>4
<1>7. FrameOK(g)
  BY <1>4, <1>5, <1>6 DEF FrameOK
<1>8. (MemoStep(g) <=> MemoStep(f)) /\ Own(g) = Own(f) /\ Opened(g) = Opened(f)
  BY <1>4 DEF MemoStep, Own, Opened
<1>9. Depth(g) = Depth(f) + 1
  <2>1. Own(f) \in {0, 1}
    BY DEF Own
  <2> QED
    BY <1>1, <1>4, <1>8, <2>1 DEF Depth
<1>10. f.done + 1 \in 1 .. Size(f.obj)
  BY <1>1, <1>2, <1>3
<1>11. Part(f) = Kids(f.obj)[f.done + 1] /\ Part(f) \in f.obj + 1 .. Last
  BY <1>1, <1>10, ReplyFacts DEF Part
<1> QED
  BY <1>4, <1>7, <1>8, <1>9, <1>10, <1>11 DEF g

LEMMA PartAdded ==
    ASSUME reply \in Replies, NEW f, FrameOK(f), Wants(f), NEW b \in Nat,
           NEW st, Holds(st, f, b), NEW u,
           \A j \in 1 .. b + Depth(f) : u[j] = st[j],
           Fits(u[b + Depth(f) + 1], Part(f), Size(Part(f)))
    PROVE  Holds(u, At(f.obj, f.step, f.start, f.done + 1), b)
<1> DEFINE g == At(f.obj, f.step, f.start, f.done + 1)
<1>1. /\ g.obj = f.obj /\ g.done = f.done + 1 /\ g.start = f.start
      /\ Own(g) = Own(f) /\ Part(f) = Kids(f.obj)[f.done + 1]
  BY NextPart
<1>2. /\ f.start \in Nat /\ f.done \in Nat /\ f.done - f.start \in Nat
      /\ Own(f) \in {0, 1} /\ Depth(f) = Own(f) + (f.done - f.start)
  BY FrameNumbers
<1> HIDE DEF g
<1>3. Holds(u, f, b)
  BY HoldsBelow
<1>4. Own(g) = 1 => Fits(u[b + 1], g.obj, g.start)
  BY <1>1, <1>3 DEF Holds
<1>5. ASSUME NEW j \in 1 .. g.done - g.start
      PROVE  Fits(u[b + Own(g) + j], Kids(g.obj)[g.start + j],
                  Size(Kids(g.obj)[g.start + j]))
  <2>1. CASE j \in 1 .. f.done - f.start
    BY <1>1, <1>3, <2>1 DEF Holds
  <2>2. CASE j = f.done - f.start + 1
    <3>1. f.start + j = f.done + 1 /\ b + Own(f) + j = b + Depth(f) + 1
      BY <1>2, <2>2
    <3> QED
      BY <1>1, <3>1
  <2>3. j \in 1 .. f.done - f.start \/ j = f.done - f.start + 1
    BY <1>1, <1>2
  <2> QED
    BY <2>1, <2>2, <2>3
<1> QED
  BY <1>4, <1>5 DEF Holds, g


\* A memoized part is complete: it is not an aliased container.
LEMMA Shared ==
    ASSUME reply \in Replies, CallsInv, MetInv, Clean,
           Wants(Current), Part(Current) \in Saved, Kind(Part(Current)) \in Filled
    PROVE  Size(Part(Current)) = 0
<1> DEFINE f == Current
           p == Part(f)
<1>1. FrameOK(f) /\ Len(calls) \in Nat /\ Len(calls) \in 1 .. Len(calls)
      /\ f = calls[Len(calls)] /\ \A l \in 1 .. Len(calls) - 1 : calls[l].obj < f.obj
  BY CurrentCall
<1>2. /\ p \in f.obj + 1 .. Last /\ p = Kids(f.obj)[f.done + 1]
      /\ f.done + 1 \in 1 .. Size(f.obj)
      /\ f.obj \in 0 .. Last /\ f.done \in Nat
  BY <1>1, NextPart, FrameNumbers
<1>3. p \in 1 .. Last
  BY <1>2
<1>12. PICK i \in 0 .. Last : \E k \in 1 .. Size(i) : Kids(i)[k] = p /\ Passed(i, k)
  BY <1>3 DEF MetInv
<1>4. PICK k \in 1 .. Size(i) : Kids(i)[k] = p /\ Passed(i, k)
  BY <1>12
<1>5. ~Passed(f.obj, f.done + 1)
  <2>1. \A l \in 1 .. Len(calls) : l \in 1 .. Len(calls) - 1 \/ l = Len(calls)
    BY <1>1
  <2>2. \A l \in 1 .. Len(calls) : calls[l].obj = f.obj => l = Len(calls)
    <3> TAKE l \in 1 .. Len(calls)
    <3>1. CASE l \in 1 .. Len(calls) - 1
      <4>1. calls[l].obj < f.obj /\ calls[l] \in Frame
        BY <1>1, <3>1, CurrentCall
      <4>2. calls[l].obj # f.obj
        BY <1>2, <4>1 DEF Frame
      <4> QED
        BY <4>2
    <3> QED
      BY <2>1, <3>1
  <2>3. ~(f.done + 1 <= f.done)
    BY <1>2
  <2>5. ~(Len(calls) < Len(calls))
    BY <1>1
  <2>4. \E l \in 1 .. Len(calls) : calls[l].obj = f.obj
    BY <1>1
  <2> QED
    BY <1>1, <2>2, <2>3, <2>4, <2>5 DEF Passed
<1>6. <<i, k>> # <<f.obj, f.done + 1>>
  BY <1>4, <1>5
<1>7. i \in 1 .. Last /\ f.obj \in 1 .. Last
  <2>1. p \in i + 1 .. Last
    BY <1>4, ReplyFacts
  <2>2. Size(0) = 1
    BY ReplyFacts
  <2>3. i = 0 => p = 1 /\ k = 1
    BY <1>4, <2>2, ReplyFacts
  <2>4. f.obj = 0 => p = 1 /\ f.done + 1 = 1
    BY <1>2, <2>2, ReplyFacts
  <2>5. p = 1 => i = 0 /\ f.obj = 0
    BY <1>2, <1>4, <2>1
  <2>6. i # 0 /\ f.obj # 0
    BY <1>6, <2>3, <2>4, <2>5
  <2> QED
    BY <1>2, <1>4, <2>6
<1>8. /\ reply[i].kids = Kids(i) /\ k \in DOMAIN reply[i].kids
      /\ reply[f.obj].kids = Kids(f.obj) /\ f.done + 1 \in DOMAIN reply[f.obj].kids
      /\ reply[p].kind = Kind(p) /\ reply[p].kids = Kids(p)
  BY <1>2, <1>3, <1>4, <1>7, ReplyFacts
<1>9. reply[p].kids # <<>> => Aliased
  <2>1. reply[i].kids[k] = p /\ reply[f.obj].kids[f.done + 1] = p
    BY <1>2, <1>4, <1>8
  <2>2. Kind(p) \in {"list", "dict"}
    BY DEF Filled
  <2> HIDE DEF f, p
  <2> QED
    BY <1>6, <1>7, <1>8, <2>1, <2>2 DEF Aliased
<1>10. Kids(p) = <<>>
  BY <1>8, <1>9 DEF Clean
<1> QED
  BY <1>10, EmptyIsSeq DEF Size

LEMMA GetStep ==
    ASSUME reply \in Replies, ReadingInv, Get
    PROVE  ReadingInv' /\ outcome' = outcome
<1> DEFINE f == Current
           p == Part(f)
<1>1. CallsInv /\ MemoInv /\ MetInv /\ StackInv /\ Reading({"GET"})
  BY DEF ReadingInv, Get
<1>2. PICK g :
         /\ g = After("GET", f) /\ Writes("GET", f) /\ Moves(g) /\ g.done >= f.done
         /\ saved' = saved /\ (MemoStep(g) <=> MemoStep(f))
  <2>1. {"GET"} \in SUBSET Opcodes
    BY DEF Opcodes
  <2> QED
    BY <1>1, <2>1, OpcodeRead
<1>3. /\ Wants(f) /\ p \in Saved /\ FrameOK(f)
      /\ g = At(f.obj, f.step, f.start, f.done + 1)
  BY <1>1, <1>2, CurrentCall DEF Writes, After
<1>4. /\ Own(g) = Own(f) /\ Opened(g) = Opened(f) /\ Depth(g) = Depth(f) + 1
      /\ p \in 1 .. Last /\ reply' = reply
  <2>1. p \in f.obj + 1 .. Last /\ f.obj \in 0 .. Last
    BY <1>3, NextPart, FrameNumbers
  <2> QED
    BY <1>2, <1>3, <2>1, NextPart DEF Moves
<1>5. Number(p) \in 1 .. Len(saved) /\ saved[Number(p)] = p
  <2>1. DOMAIN saved = 1 .. Len(saved)
    BY <1>1 DEF MemoInv
  <2>2. \E n \in DOMAIN saved : saved[n] = p
    BY <1>3 DEF Saved
  <2> QED
    BY <2>1, <2>2 DEF Number
<1>6. Len(memo) = Len(saved) /\ Fits(memo[Number(p)], p, 0) /\ Len(saved) \in Nat
  <2>1. Len(saved) \in Nat /\ Len(memo) = Len(saved)
    BY <1>1 DEF MemoInv
  <2> QED
    BY <1>1, <1>5, <2>1 DEF MemoInv
<1> DEFINE v == memo[Number(p) - 1 + 1]
<1>7. Number(p) - 1 + 1 = Number(p) /\ ~(Number(p) - 1 >= Len(memo))
  BY <1>5, <1>6
<1>8. Replace(0, v) /\ marks' = marks /\ memo' = memo /\ outcome' = outcome
  BY <1>7 DEF Get
<1>9. v = memo[Number(p)]
  BY <1>7
<1> HIDE DEF v
<1>10. Fits(v, p, Size(p))
  <2>1. Fits(v, p, 0)
    BY <1>6, <1>9
  <2>2. Clean => Partial(p, 0) = Partial(p, Size(p))
    <3>1. CASE Kind(p) \in Filled
      BY <1>1, <1>3, <3>1, Shared
    <3>2. CASE Kind(p) \notin Filled
      <4>1. \A m : Partial(p, m) = Values[p]
        BY <1>4, <3>2, ValueKinds
      <4> QED
        BY <4>1
    <3> QED
      BY <3>1, <3>2
  <2> QED
    BY <2>1, <2>2 DEF Fits
<1>11. MemoInv' /\ Saved' = Saved
  BY <1>1, <1>2, <1>4, <1>8, MemoStay
<1>12. CallsInv' /\ MetInv'
  BY <1>1, <1>2, <1>11, CallsStay, MetStay
<1>13. PICK base, mk : LevelsInv(base, mk)
  BY DEF ReadingInv
<1> DEFINE B == base[Len(calls)]
           M == mk[Len(calls)]
<1>14. /\ B \in Nat /\ M \in Nat
       /\ Len(stack) = B + Depth(f) /\ Len(marks) = M + Opened(f)
       /\ Depth(f) \in Nat /\ Opened(f) \in {0, 1}
       /\ Opened(f) = 1 => marks[M + 1] = B + Own(f)
       /\ Holds(stack, f, B)
  BY <1>1, <1>13, CurrentLevel
<1>15. B = base[Len(calls)] /\ M = mk[Len(calls)]
  OBVIOUS
<1> HIDE DEF B, M
<1>16. /\ IsSeq(stack') /\ Len(stack') = Len(stack) + 1
       /\ \A i \in 1 .. Len(stack) : stack'[i] = stack[i]
       /\ stack'[Len(stack) + 1] = v
  <2>1. IsSeq(stack) /\ Len(stack) \in Nat
    BY <1>1, SeqLen DEF StackInv
  <2>2. 0 \in 0 .. Len(stack) /\ Len(stack) - 0 = Len(stack)
    BY <2>1
  <2> QED
    BY <1>8, <2>1, <2>2, StackReplaced
<1>17. Holds(stack', g, B)
  <2>1. Fits(stack'[B + Depth(f) + 1], p, Size(p))
    BY <1>10, <1>14, <1>16
  <2>2. \A j \in 1 .. B + Depth(f) : stack'[j] = stack[j]
    BY <1>14, <1>16
  <2> QED
    BY <1>3, <1>14, <2>1, <2>2, PartAdded
<1>18. LevelsInv(base, mk)'
  <2>1. /\ Len(stack') = B + Depth(g) /\ Len(marks') = M + Opened(g)
        /\ \A j \in 1 .. B : stack'[j] = stack[j]
        /\ \A j \in 1 .. M : marks'[j] = marks[j]
        /\ Opened(g) = 1 => marks'[M + 1] = B + Own(g)
    BY <1>4, <1>8, <1>14, <1>16
  <2> QED
    BY <1>1, <1>2, <1>13, <1>15, <1>17, <2>1, LevelsStay
<1>19. StackInv'
  <2>1. v.kind \in JKinds
    BY <1>10 DEF Fits, JKind, JKinds
  <2>2. \A i \in 1 .. Len(stack') : stack'[i].kind \in JKinds
    <3> TAKE i \in 1 .. Len(stack')
    <3>1. i = Len(stack) + 1 \/ i \in 1 .. Len(stack)
      BY <1>14, <1>16
    <3> QED
      BY <1>1, <1>16, <2>1, <3>1 DEF StackInv
  <2> QED
    BY <1>1, <1>8, <1>16, <2>2 DEF StackInv
<1> QED
  BY <1>8, <1>11, <1>12, <1>18, <1>19 DEF ReadingInv


\* The memo when it has got one more value.
LEMMA MemoGrown ==
    ASSUME reply \in Replies, MemoInv, reply' = reply,
           NEW i \in 1 .. Last, i \notin Saved, saved' = Append(saved, i),
           MemoPut(Len(saved)), stack # <<>>, Fits(Top, i, 0)
    PROVE  MemoInv' /\ Saved' = Saved \cup {i}
<1> DEFINE n == Len(saved)
<1>1. /\ saved \in Seq(1 .. Last) /\ n \in Nat /\ DOMAIN saved = 1 .. n
      /\ IsSeq(memo) /\ Len(memo) = n
      /\ \A k, m \in 1 .. n : saved[k] = saved[m] => k = m
      /\ \A k \in 1 .. n : Fits(memo[k], saved[k], 0)
  BY DEF MemoInv
<1>2. memo' = [k \in 1 .. n + 1 |->
                  IF k = n + 1 THEN Top ELSE IF k <= n THEN memo[k] ELSE Null]
  <2>1. ~(n < Len(memo))
    BY <1>1
  <2>2. memo' = [k \in 1 .. (IF n < Len(memo) THEN Len(memo) ELSE n + 1) |->
                    IF k = n + 1 THEN Top
                    ELSE IF k <= Len(memo) THEN memo[k] ELSE Null]
    BY DEF MemoPut
  <2> QED
    BY <1>1, <2>1, <2>2
<1>3. /\ saved' \in Seq(1 .. Last) /\ Len(saved') = n + 1 /\ saved'[n + 1] = i
      /\ \A k \in 1 .. n : saved'[k] = saved[k]
  BY <1>1, AppendProperties
<1>4. /\ IsSeq(memo') /\ Len(memo') = n + 1 /\ memo'[n + 1] = Top
      /\ \A k \in 1 .. n : memo'[k] = memo[k]
  <2> DEFINE F(k) == IF k = n + 1 THEN Top ELSE IF k <= n THEN memo[k] ELSE Null
  <2>1. memo' \in Seq({F(k) : k \in 1 .. n + 1})
    BY <1>1, <1>2
  <2>2. IsSeq(memo')
    <3> HIDE DEF F
    <3> QED
      BY <2>1 DEF IsSeq
  <2>3. Len(memo') = n + 1 /\ memo'[n + 1] = Top /\ \A k \in 1 .. n : memo'[k] = memo[k]
    BY <1>1, <1>2
  <2> QED
    BY <2>2, <2>3
<1> HIDE DEF n
<1>5. \A k \in 1 .. n + 1 : k \in 1 .. n \/ k = n + 1
  BY <1>1
<1>6. \A k \in 1 .. n : saved[k] \in Saved /\ saved[k] # i
  BY <1>1 DEF Saved
<1>7. \A k, m \in 1 .. n + 1 : saved'[k] = saved'[m] => k = m
  BY <1>1, <1>3, <1>5, <1>6
<1>8. \A k \in 1 .. n + 1 : Fits(memo'[k], saved'[k], 0)
  BY <1>1, <1>3, <1>4, <1>5
<1>9. Saved' = Saved \cup {i}
  <2>1. DOMAIN saved' = 1 .. n + 1
    BY <1>3
  <2>2. Saved' = {saved'[k] : k \in 1 .. n + 1}
    BY <2>1 DEF Saved
  <2>3. Saved = {saved[k] : k \in 1 .. n}
    BY <1>1 DEF Saved
  <2>4. 1 .. n + 1 = 1 .. n \cup {n + 1}
    BY <1>1
  <2> QED
    BY <1>3, <2>2, <2>3, <2>4
<1>10. \A k \in 1 .. Len(saved') : Fits(memo[k], saved[k], 0)'
  BY <1>3, <1>8, ReplyKept
<1>11. Last' = Last
  BY ReplyKept
<1> QED
  BY <1>3, <1>4, <1>7, <1>9, <1>10, <1>11 DEF MemoInv

LEMMA MemoizeStep ==
    ASSUME reply \in Replies, ReadingInv, Put \/ Memoize
    PROVE  ReadingInv' /\ outcome' = outcome
<1> DEFINE f == Current
           names == {"MEMOIZE", "PUT"}
<1>1. /\ CallsInv /\ MemoInv /\ MetInv /\ StackInv
      /\ Reading(names) /\ MemoPut(Len(saved))
  BY DEF ReadingInv, Put, Memoize, MemoInv, Reading
<1>20. PICK op \in names : \E g :
         /\ g = After(op, f) /\ Writes(op, f) /\ Moves(g) /\ g.done >= f.done
         /\ saved' = Append(saved, f.obj) /\ MemoStep(g) /\ ~MemoStep(f)
  <2>1. names \in SUBSET Opcodes
    BY DEF Opcodes
  <2> HIDE DEF f
  <2>2. PICK op \in names : \E g :
           /\ g = After(op, Current) /\ Writes(op, Current)
           /\ Moves(g) /\ g.done >= Current.done
           /\ op \in {"MEMOIZE", "PUT"} =>
                 /\ saved' = Append(saved, Current.obj)
                 /\ MemoStep(g) /\ ~MemoStep(Current)
    BY <1>1, <2>1, OpcodeRead
  <2> QED
    BY <2>2 DEF f
<1>2. PICK g :
         /\ g = After(op, f) /\ Writes(op, f) /\ Moves(g) /\ g.done >= f.done
         /\ saved' = Append(saved, f.obj) /\ MemoStep(g) /\ ~MemoStep(f)
  BY <1>20
<1>3. /\ f.step = "memo"
      /\ g = At(f.obj, IF Kind(f.obj) \in {"list", "dict"} THEN "fill" ELSE "end",
                f.done, f.done)
  <2>1. CASE op = "MEMOIZE"
    BY <1>2, <2>1 DEF Writes, After
  <2>2. CASE op = "PUT"
    BY <1>2, <2>2 DEF Writes, After
  <2> QED
    BY <2>1, <2>2
<1>4. /\ f.start = f.done /\ Kind(f.obj) \in {"str", "list", "dict", "tuple"}
      /\ Kind(f.obj) \in Filled => f.done = 0
      /\ f.obj \in 1 .. Last /\ f.done \in Nat
  BY <1>1, <1>3, WhoWrites DEF FrameOK
<1>5. /\ g.obj = f.obj /\ g.start = f.done /\ g.done = f.done
      /\ Own(g) = 1 /\ Opened(g) = 0 /\ Own(f) = 1 /\ Opened(f) = 0
  BY <1>3 DEF At, Own, Opened, Filled
<1>6. Depth(f) = 1 /\ Depth(g) = 1
  BY <1>4, <1>5 DEF Depth
<1>7. PICK base, mk : LevelsInv(base, mk)
  BY DEF ReadingInv
<1> DEFINE B == base[Len(calls)]
           M == mk[Len(calls)]
<1>8. /\ B \in Nat /\ M \in Nat
      /\ Len(stack) = B + 1 /\ Len(marks) = M /\ Holds(stack, f, B)
  BY <1>1, <1>5, <1>6, <1>7, CurrentLevel
<1>9. B = base[Len(calls)] /\ M = mk[Len(calls)]
  OBVIOUS
<1> HIDE DEF B, M
<1>10. stack # <<>> /\ Top = stack[B + 1]
  BY <1>8, EmptyIsSeq DEF Top
<1>11. Fits(Top, f.obj, 0)
  <2>1. Fits(Top, f.obj, f.done)
    BY <1>4, <1>5, <1>8, <1>10 DEF Holds
  <2>2. CASE Kind(f.obj) \in Filled
    BY <1>4, <2>1, <2>2
  <2>3. CASE Kind(f.obj) \notin Filled
    <3>1. Partial(f.obj, 0) = Partial(f.obj, f.done)
      BY <2>3 DEF Partial, Filled
    <3> QED
      BY <2>1, <3>1 DEF Fits
  <2> QED
    BY <2>2, <2>3
<1>12. f.obj \notin Saved /\ reply' = reply
  BY <1>1, <1>2, CurrentCall DEF Moves
<1>13. MemoInv' /\ Saved' = Saved \cup {f.obj}
  BY <1>1, <1>2, <1>4, <1>10, <1>11, <1>12, MemoGrown
<1>14. CallsInv' /\ MetInv'
  BY <1>1, <1>2, <1>5, <1>13, CallsStay, MetStay
<1>15. stack' = stack /\ marks' = marks /\ outcome' = outcome
  BY <1>1, <1>10 DEF MemoPut
<1>16. Holds(stack', g, B)
  <2>1. Own(g) = 1 => Fits(stack'[B + 1], g.obj, g.start)
    BY <1>4, <1>5, <1>8, <1>15 DEF Holds
  <2>2. 1 .. g.done - g.start = {}
    BY <1>4, <1>5
  <2> QED
    BY <2>1, <2>2 DEF Holds
<1>17. LevelsInv(base, mk)'
  <2>1. /\ Len(stack') = B + Depth(g) /\ Len(marks') = M + Opened(g)
        /\ \A j \in 1 .. B : stack'[j] = stack[j]
        /\ \A j \in 1 .. M : marks'[j] = marks[j]
        /\ Opened(g) = 1 => marks'[M + 1] = B + Own(g)
    BY <1>5, <1>6, <1>8, <1>15
  <2> QED
    BY <1>1, <1>2, <1>7, <1>9, <1>16, <2>1, LevelsStay
<1>18. StackInv'
  BY <1>1, <1>15 DEF StackInv
<1> QED
  BY <1>13, <1>14, <1>15, <1>17, <1>18 DEF ReadingInv

LEMMA StopStep ==
    ASSUME reply \in Replies, ReadingInv, Stop
    PROVE  /\ outcome' = "returned" /\ stack' = <<>> /\ marks' = <<>>
           /\ Clean => result' = Values[1]
           /\ reply' = reply /\ protocol' = protocol
           /\ IsSeq(memo') /\ Len(memo') = Len(saved')
<1> DEFINE f == Current
<1>1. CallsInv /\ MemoInv /\ StackInv /\ Reading({"STOP"})
  BY DEF ReadingInv, Stop
<1>2. f.step = "fill" /\ Kind(f.obj) = "reply" /\ f.done - f.start = Unit(f.obj)
  <2>1. Writes("STOP", f)
    BY <1>1, WhoWrites
  <2> QED
    BY <2>1 DEF Writes
<1>3. f.obj = 0
  <2>1. f.obj \in 0 .. Last /\ Last \in Nat
    BY <1>1, WhoWrites, ReplyFacts
  <2>2. \A i \in 1 .. Last : Kind(i) # "reply"
    BY ReplyFacts DEF Kinds
  <2> QED
    BY <1>2, <2>1, <2>2
<1>4. /\ f.start = 0 /\ f.done = 1 /\ Size(0) = 1 /\ Kids(0)[1] = 1
      /\ Own(f) = 0 /\ Opened(f) = 0 /\ Depth(f) = 1
  <2>1. f.start = 0 /\ Size(0) = 1 /\ Kids(0)[1] = 1 /\ f.done \in Nat
    BY <1>1, <1>2, WhoWrites, ReplyFacts DEF FrameOK, Filled
  <2>2. Unit(0) = 1
    BY <1>2, <1>3, <2>1 DEF Unit
  <2>3. Own(f) = 0 /\ Opened(f) = 0
    BY <1>2 DEF Own, Opened, Filled
  <2>4. f.done = 1
    BY <1>2, <1>3, <2>1, <2>2
  <2> QED
    BY <2>1, <2>3, <2>4 DEF Depth
<1>5. PICK base, mk : LevelsInv(base, mk)
  BY DEF ReadingInv
<1>6. Len(calls) = 1 /\ base[1] = 0 /\ mk[1] = 0
  BY <1>1, <1>3, <1>5, CurrentCall DEF LevelsInv
<1>7. Len(stack) = 1 /\ Len(marks) = 0 /\ Holds(stack, f, 0)
  <2>1. 0 = base[Len(calls)] /\ 0 = mk[Len(calls)]
    BY <1>6
  <2>2. Len(stack) = 0 + Depth(f) /\ Len(marks) = 0 + Opened(f) /\ Holds(stack, f, 0)
    BY <1>1, <1>5, <2>1, CurrentLevel
  <2> QED
    BY <1>4, <2>2
<1>8. stack # <<>> /\ Top = stack[1]
  BY <1>7, EmptyIsSeq DEF Top
<1>9. Clean => Top = Values[1]
  <2>1. Fits(stack[1], 1, Size(1))
    BY <1>3, <1>4, <1>7 DEF Holds
  <2>2. 1 \in 1 .. Last
    BY ReplyFacts
  <2> QED
    BY <1>8, <2>1, <2>2, WholeMeaning DEF Fits
<1>10. /\ outcome' = "returned" /\ result' = Top /\ stack' = Below(1)
       /\ marks' = marks /\ memo' = memo
  BY <1>8 DEF Stop
<1>11. stack' = <<>>
  <2>1. 0 \in 0 .. Len(stack) /\ IsSeq(stack)
    BY <1>1, <1>7 DEF StackInv
  <2>2. stack' = SubSeq(stack, 1, 0)
    BY <1>7, <1>10 DEF Below
  <2>3. IsSeq(stack') /\ Len(stack') = 0
    BY <2>1, <2>2, Cut
  <2> QED
    BY <2>3, EmptySeq DEF IsSeq
<1>12. marks' = <<>>
  BY <1>1, <1>7, <1>10, EmptySeq DEF StackInv
<1>13. saved' = saved /\ reply' = reply /\ protocol' = protocol
  BY <1>1 DEF Reading
<1> QED
  BY <1>1, <1>9, <1>10, <1>11, <1>12, <1>13 DEF MemoInv


-----------------------------------------------------------------------------
(* Calls and returns of the pickler *)

\* A call that has just begun has nothing on the stack.
LEMMA NewCall ==
    ASSUME reply \in Replies, NEW i \in 1 .. Last
    PROVE  /\ FrameOK(Call(i)) /\ Call(i) \in Frame /\ Call(i).obj = i
           /\ Call(i).start = 0 /\ Call(i).done = 0
           /\ ~MemoStep(Call(i))
           /\ Own(Call(i)) = 0 /\ Opened(Call(i)) = 0 /\ Depth(Call(i)) = 0
           /\ \A st, b : Holds(st, Call(i), b)
<1> DEFINE g == Call(i)
           s == IF Kind(i) \in {"tuple", "reply"} /\ Size(i) > 0 THEN "fill" ELSE "open"
<1>1. /\ Kind(i) \in Kinds /\ Size(i) \in Nat /\ Unit(i) \in Nat
      /\ Last \in Nat /\ i \in 0 .. Last
  BY ReplyFacts DEF Unit
<1>2. g.obj = i /\ g.step = s /\ g.start = 0 /\ g.done = 0 /\ g \in Frame
  BY <1>1 DEF Call, At, Frame, Steps
<1>3. /\ s \in {"fill", "open"}
      /\ s = "fill" <=> (Kind(i) = "tuple" /\ Size(i) > 0)
  BY <1>1 DEF Kinds
<1> HIDE DEF g, s
<1>4. FrameOK(g)
  BY <1>1, <1>2, <1>3 DEF FrameOK, Filled
<1>5. ~MemoStep(g) /\ Own(g) = 0 /\ Opened(g) = 0
  BY <1>2, <1>3 DEF MemoStep, Own, Opened, Filled
<1>6. Depth(g) = 0
  BY <1>2, <1>5 DEF Depth
<1>7. 1 .. g.done - g.start = {}
  BY <1>2
<1>8. \A st, b : Holds(st, g, b)
  BY <1>5, <1>7 DEF Holds
<1> QED
  BY <1>2, <1>4, <1>5, <1>6, <1>8 DEF g

LEMMA SaveStep ==
    ASSUME reply \in Replies, ReadingInv, Save
    PROVE  ReadingInv' /\ outcome' = outcome
<1> DEFINE f == Current
           p == Part(f)
           n == Len(calls)
           g == Call(p)
<1>1. /\ CallsInv /\ MemoInv /\ MetInv /\ StackInv
      /\ Wants(f) /\ p \notin Saved /\ calls' = Append(calls, g)
      /\ reply' = reply /\ saved' = saved /\ stack' = stack /\ marks' = marks
      /\ memo' = memo /\ outcome' = outcome
  BY DEF ReadingInv, Save
<1>2. /\ n \in Nat /\ n \in 1 .. n /\ f = calls[n] /\ FrameOK(f)
      /\ \A l \in 1 .. n - 1 : calls[l].obj < f.obj /\ calls[l] \in Frame
  BY <1>1, CurrentCall
<1>3. /\ p \in f.obj + 1 .. Last /\ p = Kids(f.obj)[f.done + 1]
      /\ f.done + 1 \in 1 .. Size(f.obj)
      /\ f.obj \in 0 .. Last /\ f.done \in Nat
  BY <1>1, <1>2, NextPart, FrameNumbers
<1>4. p \in 1 .. Last /\ f.obj < p
  BY <1>3
<1>5. /\ FrameOK(g) /\ g \in Frame /\ g.obj = p /\ ~MemoStep(g)
      /\ g.start = 0 /\ g.done = 0
      /\ Own(g) = 0 /\ Opened(g) = 0 /\ Depth(g) = 0
      /\ \A st, b : Holds(st, g, b)
  BY <1>4, NewCall
<1> HIDE DEF g
<1>6. /\ calls' \in Seq(Frame) /\ Len(calls') = n + 1 /\ calls'[n + 1] = g
      /\ \A l \in 1 .. n : calls'[l] = calls[l]
  <2>1. calls \in Seq(Frame)
    BY <1>1 DEF CallsInv
  <2> QED
    BY <1>1, <1>5, <2>1, AppendProperties
<1>7. MemoInv' /\ Saved' = Saved
  BY <1>1, MemoStay
<1>8. /\ calls[1].obj = 0 /\ n > 0
      /\ \A l \in 1 .. n : FrameOK(calls[l]) /\ (calls[l].obj \in Saved <=> MemoStep(calls[l]))
      /\ \A l \in 1 .. n - 1 : Wants(calls[l]) /\ calls[l + 1].obj = Part(calls[l])
      /\ \A k, l \in 1 .. n : k < l => calls[k].obj < calls[l].obj
  BY <1>1 DEF CallsInv
<1>9. Current' = g
  BY <1>6 DEF Current
<1> HIDE DEF n
<1>10. \A l \in 1 .. n + 1 : l \in 1 .. n \/ l = n + 1
  BY <1>2
<1>11. CallsInv'
  <2>1. \A l \in 1 .. n + 1 :
           FrameOK(calls'[l]) /\ (calls'[l].obj \in Saved <=> MemoStep(calls'[l]))
    BY <1>1, <1>5, <1>6, <1>8, <1>10
  <2>2. \A l \in 1 .. n : Wants(calls'[l]) /\ calls'[l + 1].obj = Part(calls'[l])
    <3> TAKE l \in 1 .. n
    <3>1. CASE l = n
      BY <1>1, <1>2, <1>5, <1>6, <3>1
    <3>2. CASE l \in 1 .. n - 1
      <4>1. l + 1 \in 1 .. n
        BY <1>2, <3>2
      <4> QED
        BY <1>6, <1>8, <3>2, <4>1
    <3>3. l = n \/ l \in 1 .. n - 1
      BY <1>2
    <3> QED
      BY <3>1, <3>2, <3>3
  <2>3. \A k, l \in 1 .. n + 1 : k < l => calls'[k].obj < calls'[l].obj
    <3> TAKE k, l \in 1 .. n + 1
    <3> HAVE k < l
    <3>1. k \in 1 .. n /\ k \in Nat
      BY <1>2
    <3>2. CASE l \in 1 .. n
      BY <1>6, <1>8, <3>1, <3>2
    <3>3. CASE l = n + 1
      <4>1. calls[k] \in Frame /\ (calls[k].obj < f.obj \/ calls[k].obj = f.obj)
        <5>1. k = n \/ k \in 1 .. n - 1
          BY <1>2, <3>1
        <5> QED
          BY <1>2, <5>1 DEF FrameOK
      <4>2. calls[k].obj < p
        BY <1>3, <1>4, <4>1 DEF Frame
      <4> QED
        BY <1>5, <1>6, <3>1, <3>3, <4>2
    <3> QED
      BY <1>10, <3>2, <3>3
  <2>4. calls'[1].obj = 0 /\ n + 1 > 0 /\ n + 1 - 1 = n
    BY <1>2, <1>6, <1>8
  <2>5. /\ \A l \in 1 .. n + 1 :
              FrameOK(calls[l])' /\ (calls[l].obj \in Saved <=> MemoStep(calls[l]))'
        /\ \A l \in 1 .. n :
              Wants(calls[l])' /\ (calls[l + 1].obj = Part(calls[l]))'
    BY <1>1, <1>7, <2>1, <2>2, ReplyKept
  <2>6. Frame' = Frame
    BY <1>1, ReplyKept
  <2>8. Len(calls') - 1 = n
    <3>1. \A m : m = n + 1 => m - 1 = n
      BY <1>2
    <3> QED
      BY <1>6, <3>1, Zenon
  <2>7. \A l \in 1 .. Len(calls') - 1 :
           Wants(calls[l])' /\ (calls[l + 1].obj = Part(calls[l]))'
    BY <2>5, <2>8, Zenon
  <2> QED
    BY <1>6, <2>3, <2>4, <2>5, <2>6, <2>7 DEF CallsInv
<1>12. MetInv'
  <2>1. ASSUME NEW i, NEW k \in Nat, Passed(i, k)
        PROVE  \/ i \in Saved /\ \A l \in 1 .. n + 1 : calls'[l].obj # i
               \/ \E l \in 1 .. n + 1 :
                     /\ calls'[l].obj = i
                     /\ k <= calls'[l].done \/ (k = calls'[l].done + 1 /\ l < n + 1)
    <3>1. CASE i \in Saved /\ \A l \in 1 .. n : calls[l].obj # i
      BY <1>1, <1>5, <1>6, <1>10, <3>1
    <3>2. CASE \E l \in 1 .. n :
                  /\ calls[l].obj = i
                  /\ k <= calls[l].done \/ (k = calls[l].done + 1 /\ l < n)
      <4>1. PICK l \in 1 .. n :
                  /\ calls[l].obj = i
                  /\ k <= calls[l].done \/ (k = calls[l].done + 1 /\ l < n)
        BY <3>2
      <4>2. l \in 1 .. n + 1 /\ l < n + 1 /\ calls'[l] = calls[l]
        BY <1>2, <1>6
      <4> QED
        BY <4>1, <4>2
    <3> QED
      BY <2>1, <3>1, <3>2 DEF Passed, n
  <2>2. ASSUME NEW i, NEW k \in Nat, Passed(i, k) PROVE Passed(i, k)'
    <3>1. \/ i \in Saved /\ \A l \in 1 .. n + 1 : calls'[l].obj # i
          \/ \E l \in 1 .. n + 1 :
                /\ calls'[l].obj = i
                /\ k <= calls'[l].done \/ (k = calls'[l].done + 1 /\ l < n + 1)
      BY <2>1, <2>2
    <3> QED
      BY <1>6, <1>7, <3>1 DEF Passed
  <2>3. ASSUME NEW i, NEW k, i = f.obj, k = f.done + 1 PROVE Passed(i, k)'
    <3>1. n \in 1 .. n + 1 /\ n < n + 1 /\ calls'[n].obj = i /\ k = calls'[n].done + 1
      BY <1>2, <1>6, <2>3
    <3> QED
      BY <1>6, <3>1 DEF Passed
  <2>4. ASSUME NEW j \in 1 .. Last,
               j \in Saved \/ (\E l \in 1 .. n + 1 : calls'[l].obj = j)
        PROVE  \E i \in 0 .. Last : \E k \in 1 .. Size(i) :
                  Kids(i)[k] = j /\ Passed(i, k)'
    <3>1. CASE j = p
      <4>1. PICK i, k : i = f.obj /\ k = f.done + 1
        OBVIOUS
      <4>2. i \in 0 .. Last /\ k \in 1 .. Size(i) /\ Kids(i)[k] = j
        BY <1>3, <3>1, <4>1
      <4> QED
        BY <2>3, <4>1, <4>2
    <3>2. CASE j # p
      <4>1. j \in Saved \/ (\E l \in 1 .. n : calls[l].obj = j)
        BY <1>5, <1>6, <1>10, <2>4, <3>2
      <4>2. PICK i \in 0 .. Last : \E k \in 1 .. Size(i) : Kids(i)[k] = j /\ Passed(i, k)
        BY <1>1, <4>1 DEF MetInv, n
      <4>3. PICK k \in 1 .. Size(i) : Kids(i)[k] = j /\ Passed(i, k)
        BY <4>2
      <4>4. k \in Nat
        BY ReplyFacts
      <4> QED
        BY <2>2, <4>3, <4>4
    <3> QED
      BY <3>1, <3>2
  <2>5. /\ Last' = Last /\ \A i : Kids(i)' = Kids(i) /\ Size(i)' = Size(i)
    BY <1>1, ReplyKept
  <2> QED
    BY <1>6, <1>7, <2>4, <2>5 DEF MetInv
<1>13. PICK base, mk : LevelsInv(base, mk)
  BY DEF ReadingInv
<1> DEFINE B == base[n] + Depth(f)
           M == mk[n] + Opened(f)
<1>14. /\ base[n] \in Nat /\ mk[n] \in Nat
       /\ Len(stack) = B /\ Len(marks) = M
       /\ Depth(f) \in Nat /\ Opened(f) \in {0, 1} /\ Own(f) \in {0, 1}
       /\ Depth(f) = Own(f) + (f.done - f.start) /\ f.done - f.start \in Nat
       /\ Opened(f) = 1 => marks[mk[n] + 1] = base[n] + Own(f)
       /\ \A i \in 1 .. mk[n] : marks[i] <= base[n]
  <2> DEFINE b == base[n]
             m == mk[n]
  <2>1. b = base[Len(calls)] /\ m = mk[Len(calls)]
    BY DEF n
  <2> HIDE DEF b, m, f
  <2>2. /\ b \in Nat /\ m \in Nat
        /\ Len(stack) = b + Depth(f) /\ Len(marks) = m + Opened(f)
        /\ Depth(f) \in Nat /\ Opened(f) \in {0, 1} /\ Own(f) \in {0, 1}
        /\ Depth(f) = Own(f) + (f.done - f.start)
        /\ Opened(f) = 1 => marks[m + 1] = b + Own(f)
        /\ \A i \in 1 .. m : marks[i] <= b
    BY <1>1, <1>13, <2>1, CurrentLevel DEF f
  <2>3. f.done - f.start \in Nat
    BY <1>2, FrameNumbers
  <2> QED
    BY <2>2, <2>3 DEF b, m
<1>15. /\ base \in [1 .. n -> Nat] /\ mk \in [1 .. n -> Nat]
       /\ base[1] = 0 /\ mk[1] = 0
       /\ \A l \in 1 .. n - 1 :
             /\ base[l + 1] = base[l] + Depth(calls[l])
             /\ mk[l + 1] = mk[l] + Opened(calls[l])
       /\ \A k, l \in 1 .. n : k < l =>
             /\ base[k] + Depth(calls[k]) <= base[l]
             /\ mk[k] + Opened(calls[k]) <= mk[l]
       /\ \A l \in 1 .. n :
             /\ Holds(stack, calls[l], base[l])
             /\ Opened(calls[l]) = 1 => marks[mk[l] + 1] = base[l] + Own(calls[l])
             /\ \A i \in 1 .. mk[l] : marks[i] <= base[l]
  BY <1>13 DEF LevelsInv, n
<1>16. B \in Nat /\ M \in Nat /\ base[n] <= B /\ mk[n] <= M
  BY <1>14
<1> HIDE DEF B, M
<1>23. PICK base2 : /\ base2 \in [1 .. n + 1 -> Nat] /\ base2[n + 1] = B
                    /\ \A l \in 1 .. n : base2[l] = base[l]
  <2> DEFINE e == [l \in 1 .. n + 1 |-> IF l = n + 1 THEN B ELSE base[l]]
  <2>1. /\ e \in [1 .. n + 1 -> Nat] /\ e[n + 1] = B
        /\ \A l \in 1 .. n : e[l] = base[l]
    BY <1>2, <1>15, <1>16
  <2> HIDE DEF e
  <2> QED
    BY <2>1, Zenon
<1>24. PICK mk2 : /\ mk2 \in [1 .. n + 1 -> Nat] /\ mk2[n + 1] = M
                  /\ \A l \in 1 .. n : mk2[l] = mk[l]
  <2> DEFINE e == [l \in 1 .. n + 1 |-> IF l = n + 1 THEN M ELSE mk[l]]
  <2>1. /\ e \in [1 .. n + 1 -> Nat] /\ e[n + 1] = M
        /\ \A l \in 1 .. n : e[l] = mk[l]
    BY <1>2, <1>15, <1>16
  <2> HIDE DEF e
  <2> QED
    BY <2>1, Zenon
<1>17. /\ base2 \in [1 .. n + 1 -> Nat] /\ mk2 \in [1 .. n + 1 -> Nat]
       /\ base2[n + 1] = B /\ mk2[n + 1] = M
       /\ \A l \in 1 .. n : base2[l] = base[l] /\ mk2[l] = mk[l]
  BY <1>23, <1>24
<1>21. B = base[n] + Depth(f) /\ M = mk[n] + Opened(f)
  BY DEF B, M
<1> HIDE DEF f
<1>18. /\ \A l \in 1 .. n :
             /\ base2[l + 1] = base2[l] + Depth(calls'[l])
             /\ mk2[l + 1] = mk2[l] + Opened(calls'[l])
       /\ \A k, l \in 1 .. n + 1 : k < l =>
             /\ base2[k] + Depth(calls'[k]) <= base2[l]
             /\ mk2[k] + Opened(calls'[k]) <= mk2[l]
  <2>1. ASSUME NEW l \in 1 .. n
        PROVE  /\ base2[l + 1] = base2[l] + Depth(calls'[l])
               /\ mk2[l + 1] = mk2[l] + Opened(calls'[l])
    <3>1. CASE l = n
      BY <1>2, <1>6, <1>17, <1>21, <3>1
    <3>2. CASE l \in 1 .. n - 1
      <4>1. l + 1 \in 1 .. n
        BY <1>2, <3>2
      <4> QED
        BY <1>6, <1>15, <1>17, <3>2, <4>1
    <3>3. l = n \/ l \in 1 .. n - 1
      BY <1>2
    <3> QED
      BY <3>1, <3>2, <3>3
  <2>2. ASSUME NEW k \in 1 .. n
        PROVE  base[k] + Depth(calls[k]) <= B /\ mk[k] + Opened(calls[k]) <= M
    <3>1. CASE k = n
      BY <1>2, <1>16, <1>21, <3>1
    <3>2. CASE k \in 1 .. n - 1
      <4>1. k < n /\ n \in 1 .. n
        BY <1>2, <3>2
      <4>2. base[k] + Depth(calls[k]) <= base[n] /\ mk[k] + Opened(calls[k]) <= mk[n]
        BY <1>15, <4>1
      <4>3. /\ base[k] \in Nat /\ mk[k] \in Nat
            /\ Depth(calls[k]) \in Nat /\ Opened(calls[k]) \in {0, 1}
        BY <1>8, <1>15, FrameNumbers
      <4> QED
        BY <1>14, <1>16, <4>2, <4>3
    <3>3. k = n \/ k \in 1 .. n - 1
      BY <1>2
    <3> QED
      BY <3>1, <3>2, <3>3
  <2>3. ASSUME NEW k \in 1 .. n + 1, NEW l \in 1 .. n + 1, k < l
        PROVE  /\ base2[k] + Depth(calls'[k]) <= base2[l]
               /\ mk2[k] + Opened(calls'[k]) <= mk2[l]
    <3>1. k \in 1 .. n
      BY <1>2, <2>3
    <3> QED
      BY <1>6, <1>10, <1>15, <1>17, <2>2, <2>3, <3>1
  <2> QED
    BY <2>1, <2>3
<1>19. \A l \in 1 .. n + 1 :
          /\ Holds(stack, calls'[l], base2[l])
          /\ Opened(calls'[l]) = 1 => marks[mk2[l] + 1] = base2[l] + Own(calls'[l])
          /\ \A i \in 1 .. mk2[l] : marks[i] <= base2[l]
  <2> TAKE l \in 1 .. n + 1
  <2>1. CASE l \in 1 .. n
    BY <1>6, <1>15, <1>17, <2>1
  <2>2. CASE l = n + 1
    <3>1. \A i \in 1 .. M : marks[i] <= B
      <4> TAKE i \in 1 .. M
      <4>1. CASE i \in 1 .. mk[n]
        <5>1. marks[i] \in Nat
          BY <1>1, <1>14 DEF StackInv
        <5> QED
          BY <1>14, <1>16, <4>1, <5>1
      <4>2. CASE i = mk[n] + 1
        <5>1. Opened(f) = 1
          BY <1>14, <1>21, <4>2
        <5> QED
          BY <1>14, <1>21, <4>2, <5>1
      <4>3. i \in 1 .. mk[n] \/ i = mk[n] + 1
        BY <1>14, <1>21
      <4> QED
        BY <4>1, <4>2, <4>3
    <3> QED
      BY <1>5, <1>6, <1>17, <2>2, <3>1
  <2> QED
    BY <1>10, <2>1, <2>2
<1>20. LevelsInv(base2, mk2)'
  <2>1. base2[1] = 0 /\ mk2[1] = 0
    BY <1>2, <1>15, <1>17
  <2>2. Len(stack') = base2[n + 1] + Depth(g) /\ Len(marks') = mk2[n + 1] + Opened(g)
    BY <1>1, <1>5, <1>14, <1>16, <1>17
  <2>3. /\ \A l \in 1 .. n :
              /\ base2[l + 1] = base2[l] + Depth(calls[l])'
              /\ mk2[l + 1] = mk2[l] + Opened(calls[l])'
        /\ \A k, l \in 1 .. n + 1 : k < l =>
              /\ base2[k] + Depth(calls[k])' <= base2[l]
              /\ mk2[k] + Opened(calls[k])' <= mk2[l]
    BY <1>1, <1>18, ReplyKept
  <2>4. Len(stack') = base2[n + 1] + Depth(Current)' /\ Len(marks') = mk2[n + 1] + Opened(Current)'
    BY <1>1, <1>9, <2>2, ReplyKept
  <2>5. \A l \in 1 .. n + 1 :
           /\ Holds(stack, calls[l], base2[l])'
           /\ Opened(calls[l])' = 1 => marks'[mk2[l] + 1] = base2[l] + Own(calls[l])'
           /\ \A i \in 1 .. mk2[l] : marks'[i] <= base2[l]
    BY <1>1, <1>19, ReplyKept
  <2>6. n + 1 - 1 = n
    BY <1>2
  <2>8. Len(calls') - 1 = n
    <3>1. \A m : m = n + 1 => m - 1 = n
      BY <1>2
    <3> QED
      BY <1>6, <3>1, Zenon
  <2>7. \A l \in 1 .. Len(calls') - 1 :
              /\ base2[l + 1] = base2[l] + Depth(calls[l])'
              /\ mk2[l + 1] = mk2[l] + Opened(calls[l])'
    BY <2>3, <2>8, Zenon
  <2> QED
    BY <1>6, <1>17, <2>1, <2>3, <2>4, <2>5, <2>7 DEF LevelsInv
<1>22. StackInv'
  BY <1>1 DEF StackInv
<1> QED
  BY <1>1, <1>7, <1>11, <1>12, <1>20, <1>22 DEF ReadingInv


\* A call that is finished has just the value of its object on the stack.
LEMMA FinishedCall ==
    ASSUME reply \in Replies, NEW f, FrameOK(f), Finished(f)
    PROVE  /\ Own(f) = 1 /\ Opened(f) = 0 /\ Depth(f) = 1
           /\ f.start = Size(f.obj)
           /\ Size(f.obj) > 0 => MemoStep(f)
<1>1. /\ f.obj \in 0 .. Last /\ f.start \in Nat /\ f.done \in Nat
      /\ f.start <= f.done /\ f.done <= Size(f.obj)
  BY FrameNumbers DEF FrameOK
<1>2. Size(f.obj) \in Nat
  BY <1>1, ReplyFacts
<1>3. CASE f.step = "end"
  <2>1. f.start = f.done /\ f.done = Size(f.obj)
    BY <1>3 DEF FrameOK
  <2>2. Own(f) = 1 /\ Opened(f) = 0 /\ (Size(f.obj) > 0 => MemoStep(f))
    BY <1>3 DEF Own, Opened, MemoStep
  <2> QED
    BY <1>1, <2>1, <2>2 DEF Depth
<1>4. CASE f.step = "fill" /\ f.start = Size(f.obj)
  <2>1. f.done = f.start
    BY <1>1, <1>2, <1>4
  <2>2. Kind(f.obj) \in Filled
    BY <1>4 DEF FrameOK
  <2>3. Own(f) = 1 /\ Opened(f) = 0 /\ MemoStep(f)
    BY <1>4, <2>2 DEF Own, Opened, MemoStep
  <2> QED
    BY <1>1, <1>4, <2>1, <2>3 DEF Depth
<1> QED
  BY <1>3, <1>4 DEF Finished

LEMMA ReturnStep ==
    ASSUME reply \in Replies, ReadingInv, Return
    PROVE  ReadingInv' /\ outcome' = outcome
<1> DEFINE n == Len(calls)
           f == calls[n - 1]
           c == calls[n]
           g == At(f.obj, f.step, f.start, f.done + 1)
<1>1. /\ CallsInv /\ MemoInv /\ MetInv /\ StackInv
      /\ Finished(c) /\ n > 1
      /\ calls' = Append(SubSeq(calls, 1, n - 2), g)
      /\ reply' = reply /\ saved' = saved /\ stack' = stack /\ marks' = marks
      /\ memo' = memo /\ outcome' = outcome
  BY DEF ReadingInv, Return, Current
<1>2. /\ n \in Nat /\ calls \in Seq(Frame) /\ calls[1].obj = 0
      /\ \A l \in 1 .. n : FrameOK(calls[l]) /\ (calls[l].obj \in Saved <=> MemoStep(calls[l]))
      /\ \A l \in 1 .. n - 1 : Wants(calls[l]) /\ calls[l + 1].obj = Part(calls[l])
      /\ \A k, l \in 1 .. n : k < l => calls[k].obj < calls[l].obj
  BY <1>1 DEF CallsInv
<1>3. /\ n - 1 \in 1 .. n /\ n \in 1 .. n /\ n - 1 \in 1 .. n - 1 /\ n - 1 + 1 = n
      /\ n - 1 \in Nat /\ n - 2 \in Nat /\ n - 2 + 1 = n - 1
  BY <1>1, <1>2
<1>4. FrameOK(f) /\ FrameOK(c) /\ Wants(f) /\ c.obj = Part(f)
  BY <1>2, <1>3
<1>5. /\ FrameOK(g) /\ g.obj = f.obj /\ g.done = f.done + 1 /\ g.start = f.start
      /\ (MemoStep(g) <=> MemoStep(f))
      /\ Own(g) = Own(f) /\ Opened(g) = Opened(f) /\ Depth(g) = Depth(f) + 1
      /\ g \in Frame /\ f.done \in Nat
  BY <1>4, NextPart, FrameNumbers DEF FrameOK
<1>6. /\ Own(c) = 1 /\ Opened(c) = 0 /\ Depth(c) = 1 /\ c.start = Size(c.obj)
      /\ Size(c.obj) > 0 => MemoStep(c)
  BY <1>1, <1>4, FinishedCall
<1>7. /\ calls' \in Seq(Frame) /\ Len(calls') = n - 1 /\ calls'[n - 1] = g
      /\ \A l \in 1 .. n - 2 : calls'[l] = calls[l]
  <2>1. IsSeq(calls) /\ n - 2 \in 0 .. n
    BY <1>2, <1>3 DEF IsSeq
  <2> DEFINE u == SubSeq(calls, 1, n - 2)
  <2>2. Len(u) = n - 2 /\ \A l \in 1 .. n - 2 : u[l] = calls[l]
    BY <2>1, Cut
  <2>3. u \in Seq(Frame)
    <3>1. \A l \in 1 .. n - 2 : calls[l] \in Frame
      BY <1>2, <1>3 DEF FrameOK
    <3>2. 1 \in Int /\ n - 2 \in Int
      BY <1>3
    <3> QED
      BY <3>1, <3>2, SubSeqProperties
  <2>4. calls' = Append(u, g)
    BY <1>1
  <2> HIDE DEF u, g, n
  <2>5. /\ calls' \in Seq(Frame) /\ Len(calls') = Len(u) + 1 /\ calls'[Len(u) + 1] = g
        /\ \A l \in 1 .. Len(u) : calls'[l] = u[l]
    BY <1>5, <2>3, <2>4, AppendProperties
  <2> QED
    BY <1>3, <2>2, <2>5
<1>8. MemoInv' /\ Saved' = Saved
  BY <1>1, MemoStay
<1>9. Current' = g
  BY <1>7 DEF Current
<1> HIDE DEF g
<1>10. \A l \in 1 .. n - 1 : l \in 1 .. n /\ (l \in 1 .. n - 2 \/ l = n - 1)
  <2> HIDE DEF n
  <2> QED
    BY <1>3
<1>11. \A l \in 1 .. n - 1 : calls'[l].obj = calls[l].obj
  BY <1>5, <1>7, <1>10
<1> HIDE DEF f, c
<1>26. f = calls[n - 1] /\ c = calls[n]
  BY DEF f, c
<1> HIDE DEF n
<1>12. CallsInv'
  <2>1. \A l \in 1 .. n - 1 :
           FrameOK(calls'[l]) /\ (calls'[l].obj \in Saved <=> MemoStep(calls'[l]))
    BY <1>2, <1>5, <1>7, <1>10, <1>26
  <2>2. \A l \in 1 .. n - 2 : Wants(calls'[l]) /\ calls'[l + 1].obj = Part(calls'[l])
    <3> TAKE l \in 1 .. n - 2
    <3>1. l \in 1 .. n - 1 /\ l + 1 \in 1 .. n - 1
      BY <1>3
    <3> QED
      BY <1>2, <1>7, <1>11, <3>1
  <2>3. \A k, l \in 1 .. n - 1 : k < l => calls'[k].obj < calls'[l].obj
    BY <1>2, <1>10, <1>11
  <2>4. calls'[1].obj = 0 /\ n - 1 > 0
    BY <1>2, <1>3, <1>11
  <2>5. /\ \A l \in 1 .. n - 1 :
              FrameOK(calls[l])' /\ (calls[l].obj \in Saved <=> MemoStep(calls[l]))'
        /\ \A l \in 1 .. n - 2 :
              Wants(calls[l])' /\ (calls[l + 1].obj = Part(calls[l]))'
    BY <1>1, <1>8, <2>1, <2>2, ReplyKept
  <2>6. Frame' = Frame
    BY <1>1, ReplyKept
  <2>8. Len(calls') - 1 = n - 2
    <3>1. \A m : m = n - 1 => m - 1 = n - 2
      BY <1>3
    <3> QED
      BY <1>7, <3>1, Zenon
  <2>7. \A l \in 1 .. Len(calls') - 1 :
           Wants(calls[l])' /\ (calls[l + 1].obj = Part(calls[l]))'
    BY <2>5, <2>8, Zenon
  <2> QED
    BY <1>7, <2>3, <2>4, <2>5, <2>6, <2>7 DEF CallsInv
<1>13. MetInv'
  <2>1. ASSUME NEW i \in 0 .. Last, NEW k \in 1 .. Size(i), Passed(i, k)
        PROVE  \/ i \in Saved /\ \A l \in 1 .. n - 1 : calls'[l].obj # i
               \/ \E l \in 1 .. n - 1 :
                     /\ calls'[l].obj = i
                     /\ k <= calls'[l].done \/ (k = calls'[l].done + 1 /\ l < n - 1)
    <3>4. k \in Nat /\ k >= 1 /\ Size(i) \in Nat /\ k <= Size(i)
      BY ReplyFacts
    <3>1. CASE i \in Saved /\ \A l \in 1 .. n : calls[l].obj # i
      BY <1>10, <1>11, <3>1
    <3>2. ASSUME NEW l \in 1 .. n, calls[l].obj = i,
                 k <= calls[l].done \/ (k = calls[l].done + 1 /\ l < n)
          PROVE  \/ i \in Saved /\ \A m \in 1 .. n - 1 : calls'[m].obj # i
                 \/ \E m \in 1 .. n - 1 :
                       /\ calls'[m].obj = i
                       /\ k <= calls'[m].done \/ (k = calls'[m].done + 1 /\ m < n - 1)
      <4>1. CASE l = n
        <5>1. i = c.obj /\ Size(i) > 0
          BY <1>26, <3>2, <3>4, <4>1
        <5>2. i \in Saved
          BY <1>2, <1>3, <1>6, <1>26, <5>1
        <5>3. \A m \in 1 .. n - 1 : calls'[m].obj # i
          <6> TAKE m \in 1 .. n - 1
          <6>1. m \in 1 .. n /\ m < n
            BY <1>3, <1>10
          <6>2. calls[m].obj < calls[n].obj /\ calls[m] \in Frame /\ calls[n] \in Frame
            BY <1>2, <1>3, <6>1 DEF FrameOK
          <6>3. calls[m].obj # calls[n].obj
            BY <6>2 DEF Frame
          <6> QED
            BY <1>11, <1>26, <5>1, <6>3
        <5> QED
          BY <5>2, <5>3
      <4>2. CASE l = n - 1
        <5>1. calls'[l].obj = i /\ l \in 1 .. n - 1 /\ calls'[l] = g
          BY <1>3, <1>7, <1>11, <3>2, <4>2
        <5>2. k <= g.done
          BY <1>5, <1>26, <3>2, <3>4, <4>2
        <5> QED
          BY <5>1, <5>2
      <4>3. CASE l \in 1 .. n - 2
        <5>1. l \in 1 .. n - 1 /\ l < n - 1 /\ calls'[l] = calls[l]
          BY <1>3, <1>7, <4>3
        <5> QED
          BY <3>2, <5>1
      <4>4. l = n \/ l = n - 1 \/ l \in 1 .. n - 2
        BY <1>3
      <4> QED
        BY <4>1, <4>2, <4>3, <4>4
    <3>3. \/ i \in Saved /\ \A l \in 1 .. n : calls[l].obj # i
          \/ \E l \in 1 .. n :
                /\ calls[l].obj = i
                /\ k <= calls[l].done \/ (k = calls[l].done + 1 /\ l < n)
      BY <2>1 DEF Passed, n
    <3> QED
      BY <3>1, <3>2, <3>3
  <2>2. ASSUME NEW i \in 0 .. Last, NEW k \in 1 .. Size(i), Passed(i, k)
        PROVE  Passed(i, k)'
    <3>1. \/ i \in Saved /\ \A l \in 1 .. n - 1 : calls'[l].obj # i
          \/ \E l \in 1 .. n - 1 :
                /\ calls'[l].obj = i
                /\ k <= calls'[l].done \/ (k = calls'[l].done + 1 /\ l < n - 1)
      BY <2>1, <2>2
    <3> QED
      BY <1>7, <1>8, <3>1 DEF Passed
  <2>3. ASSUME NEW j \in 1 .. Last,
               j \in Saved \/ (\E l \in 1 .. n - 1 : calls'[l].obj = j)
        PROVE  \E i \in 0 .. Last : \E k \in 1 .. Size(i) :
                  Kids(i)[k] = j /\ Passed(i, k)'
    <3>1. j \in Saved \/ (\E l \in 1 .. n : calls[l].obj = j)
      BY <1>10, <1>11, <2>3
    <3>2. \E i \in 0 .. Last : \E k \in 1 .. Size(i) : Kids(i)[k] = j /\ Passed(i, k)
      BY <1>1, <3>1 DEF MetInv, n
    <3> QED
      BY <2>2, <3>2
  <2>4. /\ Last' = Last /\ \A i : Kids(i)' = Kids(i) /\ Size(i)' = Size(i)
    BY <1>1, ReplyKept
  <2> QED
    BY <1>7, <1>8, <2>3, <2>4 DEF MetInv
<1>14. PICK base, mk : LevelsInv(base, mk)
  BY DEF ReadingInv
<1>15. /\ base \in [1 .. n -> Nat] /\ mk \in [1 .. n -> Nat]
       /\ base[1] = 0 /\ mk[1] = 0
       /\ \A l \in 1 .. n - 1 :
             /\ base[l + 1] = base[l] + Depth(calls[l])
             /\ mk[l + 1] = mk[l] + Opened(calls[l])
       /\ \A k, l \in 1 .. n : k < l =>
             /\ base[k] + Depth(calls[k]) <= base[l]
             /\ mk[k] + Opened(calls[k]) <= mk[l]
       /\ Len(stack) = base[n] + Depth(calls[n])
       /\ Len(marks) = mk[n] + Opened(calls[n])
       /\ \A l \in 1 .. n :
             /\ Holds(stack, calls[l], base[l])
             /\ Opened(calls[l]) = 1 => marks[mk[l] + 1] = base[l] + Own(calls[l])
             /\ \A i \in 1 .. mk[l] : marks[i] <= base[l]
  BY <1>14 DEF LevelsInv, n, Current
<1>16. PICK base2 : /\ base2 \in [1 .. n - 1 -> Nat]
                    /\ \A l \in 1 .. n - 1 : base2[l] = base[l]
  <2> DEFINE e == [l \in 1 .. n - 1 |-> base[l]]
  <2>1. e \in [1 .. n - 1 -> Nat] /\ \A l \in 1 .. n - 1 : e[l] = base[l]
    BY <1>10, <1>15
  <2> HIDE DEF e
  <2> QED
    BY <2>1, Zenon
<1>17. PICK mk2 : /\ mk2 \in [1 .. n - 1 -> Nat]
                  /\ \A l \in 1 .. n - 1 : mk2[l] = mk[l]
  <2> DEFINE e == [l \in 1 .. n - 1 |-> mk[l]]
  <2>1. e \in [1 .. n - 1 -> Nat] /\ \A l \in 1 .. n - 1 : e[l] = mk[l]
    BY <1>10, <1>15
  <2> HIDE DEF e
  <2> QED
    BY <2>1, Zenon
<1> DEFINE b == base[n - 1]
           m == mk[n - 1]
<1>18. /\ b \in Nat /\ m \in Nat /\ base2[n - 1] = b /\ mk2[n - 1] = m
       /\ base[n] = b + Depth(f) /\ mk[n] = m + Opened(f)
       /\ Depth(f) \in Nat /\ Opened(f) \in {0, 1}
       /\ Len(stack) = b + Depth(f) + 1 /\ Len(marks) = m + Opened(f)
       /\ Holds(stack, f, b) /\ Holds(stack, c, base[n])
       /\ Opened(f) = 1 => marks[m + 1] = b + Own(f)
       /\ \A i \in 1 .. m : marks[i] <= b
  <2>1. /\ Depth(f) \in Nat /\ Opened(f) \in {0, 1} /\ b \in Nat /\ m \in Nat
    BY <1>3, <1>4, <1>15, FrameNumbers
  <2>2. base[n] = b + Depth(f) /\ mk[n] = m + Opened(f)
    BY <1>3, <1>15, <1>26
  <2>3. Len(stack) = base[n] + 1 /\ Len(marks) = mk[n] + 0
    BY <1>6, <1>15, <1>26
  <2>4. /\ Holds(stack, f, b) /\ Holds(stack, c, base[n])
        /\ Opened(f) = 1 => marks[m + 1] = b + Own(f)
        /\ \A i \in 1 .. m : marks[i] <= b
    BY <1>3, <1>15, <1>26
  <2>5. base2[n - 1] = b /\ mk2[n - 1] = m
    BY <1>3, <1>16, <1>17
  <2> HIDE DEF b, m
  <2> QED
    BY <2>1, <2>2, <2>3, <2>4, <2>5
<1> HIDE DEF b, m
<1>19. Holds(stack, g, b)
  <2>1. Fits(stack[base[n] + 1], c.obj, c.start)
    BY <1>6, <1>18 DEF Holds
  <2>2. Fits(stack[b + Depth(f) + 1], Part(f), Size(Part(f)))
    BY <1>4, <1>6, <1>18, <2>1
  <2> QED
    BY <1>4, <1>18, <2>2, PartAdded DEF g
<1>20. \A l \in 1 .. n - 1 :
          /\ Holds(stack, calls'[l], base2[l])
          /\ Opened(calls'[l]) = 1 => marks[mk2[l] + 1] = base2[l] + Own(calls'[l])
          /\ \A i \in 1 .. mk2[l] : marks[i] <= base2[l]
  <2> TAKE l \in 1 .. n - 1
  <2>1. CASE l = n - 1
    BY <1>5, <1>7, <1>18, <1>19, <2>1
  <2>2. CASE l \in 1 .. n - 2
    BY <1>7, <1>10, <1>15, <1>16, <1>17, <2>2
  <2> QED
    BY <1>10, <2>1, <2>2
<1>21. /\ \A l \in 1 .. n - 2 :
             /\ base2[l + 1] = base2[l] + Depth(calls'[l])
             /\ mk2[l + 1] = mk2[l] + Opened(calls'[l])
       /\ \A k, l \in 1 .. n - 1 : k < l =>
             /\ base2[k] + Depth(calls'[k]) <= base2[l]
             /\ mk2[k] + Opened(calls'[k]) <= mk2[l]
  <2>1. \A l \in 1 .. n - 2 :
           /\ base2[l + 1] = base2[l] + Depth(calls'[l])
           /\ mk2[l + 1] = mk2[l] + Opened(calls'[l])
    <3> TAKE l \in 1 .. n - 2
    <3>1. l \in 1 .. n - 1 /\ l + 1 \in 1 .. n - 1
      BY <1>3
    <3> QED
      BY <1>7, <1>15, <1>16, <1>17, <3>1
  <2>2. \A k, l \in 1 .. n - 1 : k < l =>
           /\ base2[k] + Depth(calls'[k]) <= base2[l]
           /\ mk2[k] + Opened(calls'[k]) <= mk2[l]
    <3> TAKE k, l \in 1 .. n - 1
    <3> HAVE k < l
    <3>1. k \in 1 .. n - 2 /\ k \in 1 .. n /\ l \in 1 .. n
      BY <1>3
    <3> QED
      BY <1>7, <1>15, <1>16, <1>17, <3>1
  <2> QED
    BY <2>1, <2>2
<1>22. LevelsInv(base2, mk2)'
  <2>1. base2[1] = 0 /\ mk2[1] = 0
    BY <1>3, <1>15, <1>16, <1>17
  <2>2. Len(stack') = base2[n - 1] + Depth(g) /\ Len(marks') = mk2[n - 1] + Opened(g)
    BY <1>1, <1>5, <1>18
  <2>3. /\ \A l \in 1 .. n - 2 :
              /\ base2[l + 1] = base2[l] + Depth(calls[l])'
              /\ mk2[l + 1] = mk2[l] + Opened(calls[l])'
        /\ \A k, l \in 1 .. n - 1 : k < l =>
              /\ base2[k] + Depth(calls[k])' <= base2[l]
              /\ mk2[k] + Opened(calls[k])' <= mk2[l]
    BY <1>1, <1>21, ReplyKept
  <2>4. Len(stack') = base2[n - 1] + Depth(Current)' /\ Len(marks') = mk2[n - 1] + Opened(Current)'
    BY <1>1, <1>9, <2>2, ReplyKept
  <2>5. \A l \in 1 .. n - 1 :
           /\ Holds(stack, calls[l], base2[l])'
           /\ Opened(calls[l])' = 1 => marks'[mk2[l] + 1] = base2[l] + Own(calls[l])'
           /\ \A i \in 1 .. mk2[l] : marks'[i] <= base2[l]
    BY <1>1, <1>20, ReplyKept
  <2>8. Len(calls') - 1 = n - 2
    <3>1. \A k : k = n - 1 => k - 1 = n - 2
      BY <1>3
    <3> QED
      BY <1>7, <3>1, Zenon
  <2>7. \A l \in 1 .. Len(calls') - 1 :
              /\ base2[l + 1] = base2[l] + Depth(calls[l])'
              /\ mk2[l + 1] = mk2[l] + Opened(calls[l])'
    BY <2>3, <2>8, Zenon
  <2> QED
    BY <1>7, <1>16, <1>17, <2>1, <2>3, <2>4, <2>5, <2>7 DEF LevelsInv
<1>23. StackInv'
  BY <1>1 DEF StackInv
<1> QED
  BY <1>1, <1>8, <1>12, <1>13, <1>22, <1>23 DEF ReadingInv


-----------------------------------------------------------------------------
(* The theorems *)

LEMMA InitInv == ASSUME Init PROVE IInv
<1> DEFINE f == At(0, "fill", 0, 0)
<1>1. /\ reply \in Replies /\ protocol \in {3, 4} /\ outcome = "reading"
      /\ calls = <<f>> /\ saved = <<>> /\ stack = <<>> /\ marks = <<>> /\ memo = <<>>
  BY DEF Init
<1>2. f.obj = 0 /\ f.step = "fill" /\ f.start = 0 /\ f.done = 0
  BY DEF At
<1>3. /\ Last \in Nat /\ Kind(0) = "reply" /\ Size(0) = 1
  BY <1>1, ReplyFacts
<1>4. f \in Frame
  BY <1>3 DEF At, Frame, Steps
<1> HIDE DEF f
<1>5. FrameOK(f)
  <2>1. Unit(0) \in Nat
    BY <1>3 DEF Unit
  <2> QED
    BY <1>2, <1>3, <1>4, <2>1 DEF FrameOK, Filled
<1>6. ~MemoStep(f) /\ Own(f) = 0 /\ Opened(f) = 0
  BY <1>2, <1>3 DEF MemoStep, Own, Opened, Filled
<1>7. Depth(f) = 0 /\ Holds(stack, f, 0)
  <2>1. 1 .. f.done - f.start = {}
    BY <1>2
  <2> QED
    BY <1>2, <1>6, <2>1 DEF Depth, Holds
<1>8. /\ calls \in Seq(Frame) /\ Len(calls) = 1 /\ calls[1] = f /\ Current = f
      /\ \A l \in 1 .. 1 : l = 1
  BY <1>1, <1>4 DEF Current
<1>9. IsSeq(<<>>) /\ Len(<<>>) = 0 /\ Saved = {} /\ 1 .. 0 = {}
  BY <1>1, EmptyIsSeq DEF Saved
<1>10. CallsInv
  <2>1. \A l \in 1 .. Len(calls) : calls[l] = f
    BY <1>8
  <2>2. 1 .. Len(calls) - 1 = {}
    BY <1>8
  <2>3. \A k, l \in 1 .. Len(calls) : ~(k < l)
    BY <1>8
  <2> QED
    BY <1>2, <1>5, <1>6, <1>8, <1>9, <2>1, <2>2, <2>3 DEF CallsInv
<1>11. MemoInv
  <2>1. saved \in Seq(1 .. Last)
    BY <1>1
  <2> QED
    BY <1>1, <1>9, <2>1 DEF MemoInv
<1>12. MetInv
  BY <1>2, <1>3, <1>8, <1>9 DEF MetInv
<1>13. StackInv
  <2>1. marks \in Seq(Nat)
    BY <1>1
  <2> QED
    BY <1>1, <1>9, <2>1 DEF StackInv
<1>14. \E base, mk : LevelsInv(base, mk)
  <2>1. PICK e : e \in [1 .. 1 -> Nat] /\ e[1] = 0
    <3> DEFINE e == [l \in 1 .. 1 |-> 0]
    <3>1. e \in [1 .. 1 -> Nat] /\ e[1] = 0
      OBVIOUS
    <3> HIDE DEF e
    <3> QED
      BY <3>1, Zenon
  <2>2. 1 .. Len(calls) - 1 = {} /\ \A k, l \in 1 .. Len(calls) : ~(k < l)
    BY <1>8
  <2>3. \A l \in 1 .. Len(calls) :
           /\ Holds(stack, calls[l], e[l])
           /\ Opened(calls[l]) # 1 /\ 1 .. e[l] = {}
    BY <1>6, <1>7, <1>8, <1>9, <2>1
  <2>4. /\ Len(stack) = e[Len(calls)] + Depth(Current)
        /\ Len(marks) = e[Len(calls)] + Opened(Current)
    BY <1>1, <1>6, <1>7, <1>8, <1>9, <2>1
  <2>5. LevelsInv(e, e)
    BY <1>8, <2>1, <2>2, <2>3, <2>4 DEF LevelsInv
  <2> QED
    BY <2>5
<1>15. ReadingInv
  BY <1>10, <1>11, <1>12, <1>13, <1>14 DEF ReadingInv
<1> QED
  BY <1>1, <1>9, <1>15 DEF IInv

LEMMA Stutter == ASSUME ReadingInv, UNCHANGED vars PROVE ReadingInv'
<1>1. /\ reply' = reply /\ calls' = calls /\ saved' = saved /\ stack' = stack
      /\ marks' = marks /\ memo' = memo
  BY DEF vars
<1>2. CallsInv /\ MemoInv /\ MetInv /\ StackInv
  BY DEF ReadingInv
<1>3. MemoInv' /\ Saved' = Saved
  BY <1>1, <1>2, MemoStay
<1>4. CallsInv'
  <2>1. \A l : /\ FrameOK(calls[l])' <=> FrameOK(calls[l])
               /\ MemoStep(calls[l])' <=> MemoStep(calls[l])
               /\ Wants(calls[l])' <=> Wants(calls[l])
               /\ Part(calls[l])' = Part(calls[l])
    BY <1>1, ReplyKept
  <2>2. Frame' = Frame
    BY <1>1, ReplyKept
  <2> QED
    BY <1>1, <1>2, <1>3, <2>1, <2>2 DEF CallsInv
<1>5. MetInv'
  <2>1. \A i, k : Passed(i, k)' <=> Passed(i, k)
    BY <1>1, <1>3 DEF Passed
  <2>2. Last' = Last /\ \A i : Kids(i)' = Kids(i) /\ Size(i)' = Size(i)
    BY <1>1, ReplyKept
  <2> QED
    BY <1>1, <1>2, <1>3, <2>1, <2>2 DEF MetInv
<1>6. StackInv'
  BY <1>1, <1>2 DEF StackInv
<1>7. PICK base, mk : LevelsInv(base, mk)
  BY DEF ReadingInv
<1>8. LevelsInv(base, mk)'
  <2>1. \A l : /\ Depth(calls[l])' = Depth(calls[l])
               /\ Own(calls[l])' = Own(calls[l]) /\ Opened(calls[l])' = Opened(calls[l])
               /\ Holds(stack, calls[l], base[l])' <=> Holds(stack, calls[l], base[l])
    BY <1>1, ReplyKept
  <2>2. Depth(Current)' = Depth(Current) /\ Opened(Current)' = Opened(Current)
    BY <1>1, <2>1 DEF Current
  <2> QED
    BY <1>1, <1>7, <2>1, <2>2 DEF LevelsInv
<1> QED
  BY <1>3, <1>4, <1>5, <1>6, <1>8 DEF ReadingInv

\* While the decoder reads, the invariant says no more than ReadingInv.
LEMMA StillReading ==
    ASSUME IInv, ReadingInv', outcome = "reading", outcome' = outcome,
           reply' = reply, protocol' = protocol
    PROVE  IInv'
BY DEF IInv, ReadingInv, MemoInv

LEMMA StepInv == ASSUME IInv, [Next]_vars PROVE IInv'
<1>1. reply \in Replies /\ (outcome = "reading" => ReadingInv)
  BY DEF IInv
<1>2. CASE Save
  <2>1. outcome = "reading" /\ reply' = reply /\ protocol' = protocol
    BY <1>2 DEF Save
  <2> QED
    BY <1>1, <1>2, <2>1, SaveStep, StillReading
<1>3. CASE Return
  <2>1. outcome = "reading" /\ reply' = reply /\ protocol' = protocol
    BY <1>3 DEF Return
  <2> QED
    BY <1>1, <1>3, <2>1, ReturnStep, StillReading
<1>4. ASSUME NEW names, Reading(names)
      PROVE  outcome = "reading" /\ reply' = reply /\ protocol' = protocol /\ ReadingInv
  BY <1>1, <1>4 DEF Reading
<1>5. CASE Literal
  BY <1>1, <1>4, <1>5, LiteralStep, StillReading DEF Literal
<1>6. CASE EmptyContainer
  BY <1>1, <1>4, <1>6, EmptyContainerStep, StillReading DEF EmptyContainer
<1>7. CASE Mark
  BY <1>1, <1>4, <1>7, MarkStep, StillReading DEF Mark
<1>8. CASE Put
  BY <1>1, <1>4, <1>8, MemoizeStep, StillReading DEF Put
<1>9. CASE Memoize
  BY <1>1, <1>4, <1>9, MemoizeStep, StillReading DEF Memoize
<1>10. CASE Get
  BY <1>1, <1>4, <1>10, GetStep, StillReading DEF Get
<1>11. CASE AppendItem
  BY <1>1, <1>4, <1>11, AppendItemStep, StillReading DEF AppendItem
<1>12. CASE SetItem
  BY <1>1, <1>4, <1>12, SetItemStep, StillReading DEF SetItem
<1>13. CASE SmallTuple
  BY <1>1, <1>4, <1>13, SmallTupleStep, StillReading DEF SmallTuple
<1>14. CASE AppendItems
  BY <1>1, <1>4, <1>14, AppendItemsStep, StillReading DEF AppendItems
<1>15. CASE SetItems
  BY <1>1, <1>4, <1>15, SetItemsStep, StillReading DEF SetItems
<1>16. CASE MarkedTuple
  BY <1>1, <1>4, <1>16, MarkedTupleStep, StillReading DEF MarkedTuple
<1>17. CASE Stop
  <2>1. ReadingInv
    BY <1>4, <1>17 DEF Stop
  <2>2. /\ outcome' = "returned" /\ stack' = <<>> /\ marks' = <<>>
        /\ Clean => result' = Values[1]
        /\ reply' = reply /\ protocol' = protocol
        /\ IsSeq(memo') /\ Len(memo') = Len(saved')
    BY <1>1, <1>17, <2>1, StopStep
  <2>3. (Clean <=> Clean') /\ Values' = Values
    BY <2>2, ReplyKept
  <2>4. Clean' => result' = Values'[1]
    BY <2>2, <2>3
  <2> QED
    BY <2>2, <2>4 DEF IInv
<1>18. CASE UNCHANGED vars
  <2>1. CASE outcome = "reading"
    <3>1. ReadingInv' /\ outcome' = outcome /\ reply' = reply /\ protocol' = protocol
      BY <1>1, <1>18, <2>1, Stutter DEF vars
    <3> QED
      BY <2>1, <3>1, StillReading
  <2>2. CASE outcome # "reading"
    <3>1. (Clean <=> Clean') /\ Values' = Values
      BY <1>18, ReplyKept DEF vars
    <3>2. /\ reply' = reply /\ protocol' = protocol /\ outcome' = outcome
          /\ memo' = memo /\ saved' = saved /\ stack' = stack /\ marks' = marks
          /\ result' = result
      BY <1>18 DEF vars
    <3> QED
      BY <2>2, <3>1, <3>2 DEF IInv
  <2> QED
    BY <2>1, <2>2
<1> QED
  BY <1>2, <1>3, <1>5, <1>6, <1>7, <1>8, <1>9, <1>10, <1>11, <1>12, <1>13, <1>14,
     <1>15, <1>16, <1>17, <1>18 DEF Next

THEOREM Invariant == Spec => []IInv
<1>1. Init => IInv
  BY InitInv
<1>2. IInv /\ [Next]_vars => IInv'
  BY StepInv
<1> QED
  BY <1>1, <1>2, PTL DEF Spec

\* The values on the stack are JSON, and the marks ascend and are heights of it.
THEOREM TypeCorrect == Spec => []TypeOK
<1>1. ASSUME IInv PROVE TypeOK
  <2>1. /\ protocol \in {3, 4} /\ outcome \in {"reading", "returned"}
        /\ Len(memo) \in Nat /\ Len(memo) = Len(saved)
    BY <1>1, SeqLen DEF IInv
  <2>2. CASE outcome = "returned"
    <3>1. DOMAIN stack = {} /\ DOMAIN marks = {}
      BY <1>1, <2>2 DEF IInv
    <3> QED
      BY <2>1, <3>1 DEF TypeOK
  <2>3. CASE outcome = "reading"
    <3>1. CallsInv /\ StackInv
      BY <1>1, <2>3 DEF IInv, ReadingInv
    <3>2. PICK base, mk : LevelsInv(base, mk)
      BY <1>1, <2>3 DEF IInv, ReadingInv
    <3> DEFINE B == base[Len(calls)]
               M == mk[Len(calls)]
    <3>3. /\ B \in Nat /\ M \in Nat
          /\ Len(stack) = B + Depth(Current) /\ Len(marks) = M + Opened(Current)
          /\ Depth(Current) \in Nat /\ Opened(Current) \in {0, 1}
          /\ Own(Current) \in {0, 1}
          /\ Depth(Current) = Own(Current) + (Current.done - Current.start)
          /\ Opened(Current) = 1 => marks[M + 1] = B + Own(Current)
          /\ \A i \in 1 .. M : marks[i] <= B
      BY <3>1, <3>2, CurrentLevel
    <3>4. Current.done - Current.start \in Nat
      BY <3>1, CurrentCall, FrameNumbers
    <3> HIDE DEF B, M
    <3>5. DOMAIN marks = 1 .. Len(marks) /\ \A i \in 1 .. Len(marks) : marks[i] \in Nat
      BY <3>1 DEF StackInv
    <3>6. \A i \in 1 .. Len(marks) : marks[i] <= Len(stack)
      <4> TAKE i \in 1 .. Len(marks)
      <4>1. CASE i \in 1 .. M
        BY <3>3, <3>5, <4>1
      <4>2. CASE i = M + 1
        <5>1. Opened(Current) = 1
          BY <3>3, <4>2
        <5> QED
          BY <3>3, <3>4, <4>2, <5>1
      <4>3. i \in 1 .. M \/ i = M + 1
        BY <3>3
      <4> QED
        BY <4>1, <4>2, <4>3
    <3>7. DOMAIN stack = 1 .. Len(stack)
      <4>1. PICK S : stack \in Seq(S)
        BY <3>1 DEF StackInv, IsSeq
      <4> QED
        BY <4>1
    <3>8. \A i \in DOMAIN stack : stack[i].kind \in {"atom", "string", "array", "object"}
      BY <3>1, <3>7 DEF StackInv, JKinds
    <3>9. \A i \in DOMAIN marks :
             /\ marks[i] <= Len(stack)
             /\ \A j \in DOMAIN marks : i < j => marks[i] <= marks[j]
      BY <3>1, <3>5, <3>6 DEF StackInv
    <3> QED
      BY <2>1, <2>3, <3>8, <3>9 DEF TypeOK
  <2> QED
    BY <2>1, <2>2, <2>3
<1> QED
  BY <1>1, Invariant, PTL

\* A reply of any size and shape, whatever it shares and whatever batches its
\* containers come in, is decoded without an error, leaves nothing on the stack
\* and, unless containers are aliased or keys collide, is what the server meant.
THEOREM RepliesRoundTrip == Spec => []RoundTrip
<1>1. ASSUME IInv PROVE RoundTrip
  BY <1>1 DEF IInv, RoundTrip, Clean, Values
<1> QED
  BY <1>1, Invariant, PTL

=============================================================================
