--------------------------- MODULE PickleDecoder ---------------------------
(***************************************************************************)
(* safe_pickle::decode: the stack machine that turns the pickled reply of  *)
(* the QPU server into JSON.  What it reads is what Python's pickler       *)
(* writes for a reply, here a heap of objects that may share parts; the    *)
(* pickler is external.  An opcode is one step; how a length, a number or  *)
(* a text is laid out in bytes is left out.                                *)
(***************************************************************************)
EXTENDS Naturals, Sequences, FiniteSets

CONSTANTS
    Texts,    \* the texts of the atoms and strings
    Replies   \* the replies: sequences of objects, the first of them sent

Kinds == {"atom", "str", "list", "tuple", "dict"}

Object == [kind : Kinds, text : Texts, kids : Seq(Nat)]

\* An object refers to later objects only.  A dict's keys and values alternate.
\* An atom is None, a Boolean or a number, by its text.
ASSUME PickleAssumption ==
    /\ Replies \subseteq Seq(Object) \ {<<>>}
    /\ \A r \in Replies : \A i \in DOMAIN r :
          /\ r[i].kind \in {"atom", "str"} => r[i].kids = <<>>
          /\ \A k \in DOMAIN r[i].kids : r[i].kids[k] \in i + 1 .. Len(r)
          /\ r[i].kind = "dict" =>
                /\ Len(r[i].kids) % 2 = 0
                /\ \A k \in DOMAIN r[i].kids :
                      k % 2 = 1 => r[r[i].kids[k]].kind \in {"atom", "str"}

VARIABLES
    reply,     \* the objects of the server's reply
    protocol,  \* the pickler's: 4 memoizes implicitly, 3 by number
    calls,     \* the objects the pickler is in the middle of, innermost last
    saved,     \* the objects it has memoized, in the order of their numbers
    stack, marks, memo,
    outcome,   \* "reading", "returned" or "refused"
    result

vars == <<reply, protocol, calls, saved, stack, marks, memo, outcome, result>>

Json(kind, text, items, entries) ==
    [kind |-> kind, text |-> text, items |-> items, entries |-> entries]

Null == Json("atom", "null", <<>>, {})
EmptyArray == Json("array", "", <<>>, {})
EmptyObject == Json("object", "", <<>>, {})

\* The marks are ascending heights of the stack, which is all pop_mark asks.
TypeOK ==
    /\ protocol \in {3, 4}
    /\ outcome \in {"reading", "returned", "refused"}
    /\ \A i \in DOMAIN stack : stack[i].kind \in {"atom", "string", "array", "object"}
    /\ \A i \in DOMAIN marks :
          /\ marks[i] <= Len(stack)
          /\ \A j \in DOMAIN marks : i < j => marks[i] <= marks[j]
    /\ Len(memo) <= Len(saved)

-----------------------------------------------------------------------------
(* Python's pickler: external *)

\* Object 0 is the call that dumps the reply.
Kids(i) == IF i = 0 THEN <<1>> ELSE reply[i].kids
Kind(i) == IF i = 0 THEN "reply" ELSE reply[i].kind
Size(i) == Len(Kids(i))

\* Where the pickler is with an object: the step it is at, how many parts it has
\* written, and how many of them are already in the container.
At(i, step, start, done) ==
    [obj |-> i, step |-> step, start |-> start, done |-> done]

\* A tuple is made of its parts once they are written, a list or a dict is
\* memoized first and filled afterwards.
Call(i) ==
    At(i, IF Kind(i) \in {"tuple", "reply"} /\ Size(i) > 0 THEN "fill" ELSE "open",
       0, 0)

\* The parts an opcode takes when there is no mark below them.
Unit(i) ==
    CASE Kind(i) = "list" -> 1
      [] Kind(i) = "dict" -> 2
      [] Kind(i) \in {"tuple", "reply"} -> IF Size(i) <= 3 THEN Size(i) ELSE 0
      [] OTHER -> 0

\* The next part is due.
Wants(f) ==
    /\ f.done < Size(f.obj)
    /\ f.step = "marked" \/ (f.step = "fill" /\ f.done - f.start < Unit(f.obj))

Part(f) == Kids(f.obj)[f.done + 1]

Finished(f) == f.step = "end" \/ (f.step = "fill" /\ f.start = Size(f.obj))

Saved == {saved[n] : n \in DOMAIN saved}
Number(i) == CHOOSE n \in DOMAIN saved : saved[n] = i

\* The opcodes the pickler may write next.  A list or a dict is filled in batches
\* (of 1000, but here of any size, and even an empty one), each of them between a
\* mark and the opcode for many, or one unit by the opcode for one.
Writes(op, f) ==
    LET kind == Kind(f.obj)
        unit == f.step = "fill" /\ Unit(f.obj) > 0 /\ f.done - f.start = Unit(f.obj) IN
    CASE op = "ATOM" -> f.step = "open" /\ kind = "atom"
      [] op = "STR" -> f.step = "open" /\ kind = "str"
      [] op = "EMPTY_LIST" -> f.step = "open" /\ kind = "list"
      [] op = "EMPTY_DICT" -> f.step = "open" /\ kind = "dict"
      [] op = "EMPTY_TUPLE" -> f.step = "open" /\ kind = "tuple"
      [] op = "MEMOIZE" -> f.step = "memo" /\ protocol = 4
      [] op = "PUT" -> f.step = "memo" /\ protocol = 3
      [] op = "MARK" -> /\ f.step = "fill" /\ f.done = f.start
                        /\ kind \in {"list", "dict"} \/ Unit(f.obj) = 0
                        /\ Size(f.obj) > 0
      [] op = "GET" -> Wants(f) /\ Part(f) \in Saved
      [] op = "APPEND" -> unit /\ kind = "list"
      [] op = "SETITEM" -> unit /\ kind = "dict"
      [] op = "TUPLE_N" -> unit /\ kind = "tuple"
      [] op = "STOP" -> unit /\ kind = "reply"
      [] op = "APPENDS" -> f.step = "marked" /\ kind = "list"
      [] op = "SETITEMS" -> /\ f.step = "marked" /\ kind = "dict"
                            /\ (f.done - f.start) % 2 = 0
      [] op = "TUPLE" -> /\ f.step = "marked" /\ kind = "tuple"
                         /\ f.done = Size(f.obj)

\* Where it is when it has written one.
After(op, f) ==
    CASE op = "MARK" -> At(f.obj, "marked", f.start, f.done)
      [] op = "GET" -> At(f.obj, f.step, f.start, f.done + 1)
      [] op \in {"STR", "EMPTY_LIST", "EMPTY_DICT", "TUPLE_N", "TUPLE"} ->
            At(f.obj, "memo", f.done, f.done)
      [] op \in {"APPEND", "SETITEM", "APPENDS", "SETITEMS"} ->
            At(f.obj, "fill", f.done, f.done)
      [] op \in {"MEMOIZE", "PUT"} ->
            At(f.obj, IF Kind(f.obj) \in {"list", "dict"} THEN "fill" ELSE "end",
               f.done, f.done)
      [] op \in {"ATOM", "EMPTY_TUPLE", "STOP"} -> At(f.obj, "end", f.done, f.done)

Current == calls[Len(calls)]

\* It turns to a part it has not memoized, and comes back from it.
Save ==
    /\ outcome = "reading" /\ Wants(Current) /\ Part(Current) \notin Saved
    /\ calls' = Append(calls, Call(Part(Current)))
    /\ UNCHANGED <<reply, protocol, saved, stack, marks, memo, outcome, result>>

Return ==
    /\ outcome = "reading" /\ Finished(Current) /\ Len(calls) > 1
    /\ LET f == calls[Len(calls) - 1] IN
       calls' = Append(SubSeq(calls, 1, Len(calls) - 2),
                       At(f.obj, f.step, f.start, f.done + 1))
    /\ UNCHANGED <<reply, protocol, saved, stack, marks, memo, outcome, result>>

-----------------------------------------------------------------------------
(* decode() *)

Init ==
    /\ reply \in Replies /\ protocol \in {3, 4}
    /\ calls = <<At(0, "fill", 0, 0)>> /\ saved = <<>>
    /\ stack = <<>> /\ marks = <<>> /\ memo = <<>>
    /\ outcome = "reading" /\ result = Null

\* The next byte is an opcode of these, written by the pickler.
Reading(names) ==
    /\ outcome = "reading"
    /\ \E op \in names :
          /\ Writes(op, Current)
          /\ calls' = Append(SubSeq(calls, 1, Len(calls) - 1), After(op, Current))
          /\ saved' = IF op \in {"MEMOIZE", "PUT"} THEN Append(saved, Current.obj)
                                                  ELSE saved
    /\ UNCHANGED <<reply, protocol>>

Throw == outcome' = "refused" /\ UNCHANGED <<stack, marks, memo, result>>

Below(n) == SubSeq(stack, 1, Len(stack) - n)
Top == stack[Len(stack)]

\* An opcode takes n values off the stack and leaves one.
Replace(n, v) == stack' = Append(Below(n), v)

\* The text or number after the opcode, however many bytes it takes.
Operand == reply[Current.obj].text

Literal ==
    /\ Reading({"ATOM", "STR"})
    /\ Replace(0, Json(IF Kind(Current.obj) = "str" THEN "string" ELSE "atom",
                       Operand, <<>>, {}))
    /\ UNCHANGED <<marks, memo, outcome, result>>

EmptyContainer ==
    /\ Reading({"EMPTY_LIST", "EMPTY_TUPLE", "EMPTY_DICT"})
    /\ Replace(0, IF Kind(Current.obj) = "dict" THEN EmptyObject ELSE EmptyArray)
    /\ UNCHANGED <<marks, memo, outcome, result>>

Mark ==
    /\ Reading({"MARK"})
    /\ marks' = Append(marks, Len(stack))
    /\ UNCHANGED <<stack, memo, outcome, result>>

\* The memo grows up to the index, and holds a copy.
MemoPut(n) ==
    IF stack = <<>> THEN Throw
    ELSE /\ memo' = [k \in 1 .. (IF n < Len(memo) THEN Len(memo) ELSE n + 1) |->
                        IF k = n + 1 THEN Top
                        ELSE IF k <= Len(memo) THEN memo[k] ELSE Null]
         /\ UNCHANGED <<stack, marks, outcome, result>>

\* A pickler numbers what it memoizes from 0.
Put == Reading({"PUT"}) /\ MemoPut(Len(saved))

Memoize == Reading({"MEMOIZE"}) /\ MemoPut(Len(memo))

Get ==
    /\ Reading({"GET"})
    /\ LET n == Number(Part(Current)) - 1 IN
       IF n >= Len(memo) THEN Throw
       ELSE /\ Replace(0, memo[n + 1])
            /\ UNCHANGED <<marks, memo, outcome, result>>

\* Non-string keys are dumped: a key is its text either way.
Key(v) == v.text

Keys(kvs) == {i \in DOMAIN kvs : i % 2 = 1}

\* The object with the pairs of a sequence set in it, the last of a key's.
WithEntries(v, kvs) ==
    Json(v.kind, v.text, v.items,
         {e \in v.entries : \A i \in Keys(kvs) : e[1] # Key(kvs[i])}
         \cup {<<Key(kvs[i]), kvs[i + 1]>> :
               i \in {j \in Keys(kvs) :
                      \A k \in Keys(kvs) : j < k => Key(kvs[j]) # Key(kvs[k])}})

WithItems(v, more) == Json(v.kind, v.text, v.items \o more, v.entries)

AppendItem ==
    /\ Reading({"APPEND"})
    /\ IF Len(stack) < 2 \/ stack[Len(stack) - 1].kind # "array" THEN Throw
       ELSE /\ Replace(2, WithItems(stack[Len(stack) - 1], <<Top>>))
            /\ UNCHANGED <<marks, memo, outcome, result>>

SetItem ==
    /\ Reading({"SETITEM"})
    /\ IF Len(stack) < 3 \/ stack[Len(stack) - 2].kind # "object" THEN Throw
       ELSE /\ Replace(3, WithEntries(stack[Len(stack) - 2],
                                      <<stack[Len(stack) - 1], Top>>))
            /\ UNCHANGED <<marks, memo, outcome, result>>

SmallTuple_Reversed ==
    /\ Reading({"TUPLE_N"})
    /\ LET n == Size(Current.obj) IN
       IF Len(stack) < n THEN Throw
       ELSE /\ Replace(n, WithItems(EmptyArray,
                                    [k \in 1 .. n |-> stack[Len(stack) + 1 - k]]))
            /\ UNCHANGED <<marks, memo, outcome, result>>

SmallTuple ==
    /\ Reading({"TUPLE_N"})
    /\ LET n == Size(Current.obj) IN
       IF Len(stack) < n THEN Throw
       ELSE /\ Replace(n, WithItems(EmptyArray,
                                    [k \in 1 .. n |-> stack[Len(stack) - n + k]]))
            /\ UNCHANGED <<marks, memo, outcome, result>>

Height == marks[Len(marks)]
Items == SubSeq(stack, Height + 1, Len(stack))

\* pop_mark succeeds.
Marked == marks # <<>> /\ Height <= Len(stack)

Unmark == marks' = SubSeq(marks, 1, Len(marks) - 1)

AppendItems_KeepsMark ==
    /\ Reading({"APPENDS"})
    /\ IF ~Marked \/ Height = 0 \/ stack[Height].kind # "array" THEN Throw
       ELSE /\ Replace(Len(Items) + 1, WithItems(stack[Height], Items))
            /\ UNCHANGED <<marks, memo, outcome, result>>

AppendItems ==
    /\ Reading({"APPENDS"})
    /\ IF ~Marked \/ Height = 0 \/ stack[Height].kind # "array" THEN Throw
       ELSE /\ Replace(Len(Items) + 1, WithItems(stack[Height], Items))
            /\ Unmark /\ UNCHANGED <<memo, outcome, result>>

SetItems ==
    /\ Reading({"SETITEMS"})
    /\ IF \/ ~Marked \/ Height = 0 \/ stack[Height].kind # "object"
          \/ Len(Items) % 2 = 1
       THEN Throw
       ELSE /\ Replace(Len(Items) + 1, WithEntries(stack[Height], Items))
            /\ Unmark /\ UNCHANGED <<memo, outcome, result>>

MarkedTuple ==
    /\ Reading({"TUPLE"})
    /\ IF ~Marked THEN Throw
       ELSE /\ Replace(Len(Items), WithItems(EmptyArray, Items))
            /\ Unmark /\ UNCHANGED <<memo, outcome, result>>

Stop ==
    /\ Reading({"STOP"})
    /\ IF stack = <<>> THEN Throw
       ELSE /\ outcome' = "returned" /\ result' = Top /\ stack' = Below(1)
            /\ UNCHANGED <<marks, memo>>

Next ==
    \/ Save \/ Return
    \/ Literal \/ EmptyContainer \/ Mark \/ Put \/ Memoize \/ Get
    \/ AppendItem \/ SetItem \/ SmallTuple
    \/ AppendItems \/ SetItems \/ MarkedTuple \/ Stop

Spec == Init /\ [][Next]_vars

-----------------------------------------------------------------------------
(* What decoding promises *)

Last == Len(reply)

\* The JSON the objects of a reply stand for: "list/tuple -> array, dict ->
\* object", the rest themselves.
MeantBy(r) ==
    LET M[i \in DOMAIN r] ==
          LET o == r[i]
              parts == [k \in DOMAIN o.kids |-> M[o.kids[k]]] IN
          CASE o.kind = "atom" -> Json("atom", o.text, <<>>, {})
            [] o.kind = "str" -> Json("string", o.text, <<>>, {})
            [] o.kind \in {"list", "tuple"} -> Json("array", "", parts, {})
            [] o.kind = "dict" ->
                  Json("object", "", <<>>,
                       {<<Key(parts[k]), parts[k + 1]>> : k \in Keys(parts)})
    IN M

\* "It only matters for cyclic/aliased structures": a list or dict that is
\* filled after it was memoized and then referred to again.
Aliased ==
    \E i, j \in 1 .. Last : \E k \in DOMAIN reply[i].kids, m \in DOMAIN reply[j].kids :
        /\ <<i, k>> # <<j, m>> /\ reply[i].kids[k] = reply[j].kids[m]
        /\ LET o == reply[reply[i].kids[k]] IN
           o.kind \in {"list", "dict"} /\ o.kids # <<>>

\* Keys that are different in Python and the same text in JSON.
KeysCollide ==
    \E i \in 1 .. Last : reply[i].kind = "dict" /\
        \E j, k \in Keys(reply[i].kids) :
            j # k /\ reply[reply[i].kids[j]].text = reply[reply[i].kids[k]].text

\* Nothing a pickler writes for plain data is refused, and nothing is left over.
\* What the server pickled is what the client decodes, however the parts of the
\* reply nest and share strings, numbers and tuples, and whatever batches a
\* container comes in; except for aliased containers and colliding keys.
RoundTrip ==
    /\ outcome # "refused"
    /\ outcome = "returned" =>
          /\ stack = <<>> /\ marks = <<>>
          /\ ~Aliased /\ ~KeysCollide => result = MeantBy(reply)[1]
=============================================================================
