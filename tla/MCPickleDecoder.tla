-------------------------- MODULE MCPickleDecoder --------------------------
EXTENDS PickleDecoder

Obj(kind, text, kids) == [kind |-> kind, text |-> text, kids |-> kids]

LeafTexts == {"", "0", "a"}

EmptyOnes == {Obj(kind, "", <<>>) : kind \in {"list", "tuple", "dict"}}

\* Containers of at most n objects among those of s.
Containers(s, n) ==
    {Obj(kind, "", kids) : kind \in {"list", "tuple"},
                           kids \in UNION {[1 .. m -> s] : m \in 1 .. n}}
    \cup {Obj("dict", "", kids) : kids \in [1 .. 2 -> s]}

\* Lists that come in several batches, and tuples and dicts of four objects.
Roots ==
    Containers(2 .. 4, 2) \cup
    {Obj(kind, "", kids) : kind \in {"dict", "tuple"}, kids \in [1 .. 4 -> 2 .. 4]} \cup
    {Obj("list", "", kids) : kids \in {<<2, 3, 4>>, <<4, 3, 2>>, <<2, 2, 3>>}}

WellKeyed(r) ==
    \A i \in 1 .. 4 : r[i].kind = "dict" =>
        \A k \in DOMAIN r[i].kids :
            k % 2 = 1 => r[r[i].kids[k]].kind \in {"atom", "str"}

Used(r, i) == \E j \in 1 .. i - 1 : \E k \in DOMAIN r[j].kids : r[j].kids[k] = i

\* Replies of four objects, each of them used.
FourObjects ==
    {r \in {<<a, b, c, d>> : a \in Roots,
                b \in {Obj("str", "a", <<>>)} \cup Containers(3 .. 4, 2),
                c \in {Obj("str", "0", <<>>)} \cup Containers({4}, 2),
                d \in {Obj("atom", "0", <<>>), Obj("str", "", <<>>)} \cup EmptyOnes} :
        WellKeyed(r) /\ \A i \in 2 .. 4 : Used(r, i)}
=============================================================================
