---------------------------- MODULE CunqaProofs ----------------------------
(***************************************************************************)
(* Proofs about CunqaBackend for every cluster, every circuit and every    *)
(* number of calls and deaths.                                             *)
(***************************************************************************)
EXTENDS CunqaBackend, FiniteSetTheorems, WellFoundedInduction, TLAPS

\* Where the thread can be with a handle, and where without one.
Handle ==
    /\ usingCunqa => qpu.vqpu \in Vqpus /\ qpu.sock = sockets /\ sockets > 0
    /\ pc \in {"send", "recv", "rediscover"} => usingCunqa
    /\ pc = "replay" => ~usingCunqa
    /\ pc = "rediscover" => ~retried
    /\ pc # "idle" => samples \in 1 .. MaxSamples /\ ready

\* The circuit is in the buffer as long as it may be submitted, and in the
\* fallback after that.
Source ==
    /\ usingCunqa \/ pc # "idle" => buffer = asked
    /\ FallbackHoldsCircuit

\* Every task was submitted by some sample(), on some socket, ...
Known ==
    \A q \in Vqpus : \A i \in 1 .. Len(inbox[q]) :
        inbox[q][i].sample \in 1 .. samples /\ inbox[q][i].sock \in 1 .. sockets

\* ... and no two by the same sample() on the same one.
Unique ==
    \A p, q \in Vqpus : \A i \in 1 .. Len(inbox[p]), j \in 1 .. Len(inbox[q]) :
        inbox[p][i].sample = inbox[q][j].sample /\ inbox[p][i].sock = inbox[q][j].sock
            => p = q /\ i = j

Pending(k) ==
    \E q \in Vqpus : \E i \in 1 .. Len(inbox[q]) : inbox[q][i].sock = k

FreshSocket == pc = "send" /\ retried => ~Pending(qpu.sock)

\* The sockets on which a sample() has a task that is not served yet.
Open(s) ==
    {k \in 1 .. sockets : \E q \in Vqpus : \E i \in 1 .. Len(inbox[q]) :
        inbox[q][i].sample = s /\ inbox[q][i].sock = k}

\* How often a sample() can have submitted its circuit.
Budget(s) ==
    IF s > samples \/ (s = samples /\ pc = "send" /\ ~retried) THEN 0
    ELSE IF s = samples /\ (pc = "send" \/ ~retried) THEN 1
    ELSE 2

Counted == \A s \in 1 .. MaxSamples : runs[s] + Cardinality(Open(s)) <= Budget(s)

\* Unless receives are interrupted, a socket holds one task or its reply, and
\* that only while its sample() receives.
OnePending ==
    ~Interrupts =>
        /\ pc # "recv" => mail = <<>> /\ ~Pending(qpu.sock)
        /\ pc = "recv" =>
              \/ /\ mail = <<>>
                 /\ \A q \in Vqpus : \A i \in 1 .. Len(inbox[q]) :
                       inbox[q][i].sock = qpu.sock =>
                           inbox[q][i].sample = samples /\ inbox[q][i].circuit = asked
              \/ Len(mail) = 1 /\ mail[1].circuit = asked /\ ~Pending(qpu.sock)

Client == TypeOK /\ Handle /\ Source
Wire == Known /\ Unique /\ FreshSocket /\ Counted /\ OnePending

IInv == Client /\ Wire

-----------------------------------------------------------------------------
(* Sequences, sets and circuits *)

LEMMA Appended ==
    ASSUME NEW S, NEW s \in Seq(S), NEW e \in S
    PROVE  /\ Append(s, e) \in Seq(S)
           /\ Len(Append(s, e)) = Len(s) + 1
           /\ \A i \in 1 .. Len(s) : Append(s, e)[i] = s[i]
           /\ Append(s, e)[Len(s) + 1] = e
OBVIOUS

LEMMA Shortened ==
    ASSUME NEW S, NEW s \in Seq(S), s # <<>>
    PROVE  /\ Tail(s) \in Seq(S) /\ Len(s) \in Nat \ {0}
           /\ Len(Tail(s)) = Len(s) - 1
           /\ \A i \in 1 .. Len(s) - 1 : Tail(s)[i] = s[i + 1]
           /\ Head(s) = s[1] /\ Head(s) \in S
OBVIOUS

\* The first vQPU of a registry that lists any is one of it.
LEMMA FrontListed == ASSUME registry \subseteq Vqpus, registry # {}
                     PROVE  Front(registry) \in registry
<1> USE CunqaAssumption
<1>1. PICK q \in registry : \A p \in registry : ~(<<p, q>> \in OpToRel(<, Nat))
  BY NatLessThanWellFounded, WFMin, Zenon
<1>2. \A p \in registry : ~(p < q)
  <2> SUFFICES ASSUME NEW p \in registry, p < q PROVE <<p, q>> \in OpToRel(<, Nat)
    BY <1>1, Zenon
  <2>1. p \in Nat /\ q \in Nat
    OBVIOUS
  <2>2. <<p, q>> \in Nat \X Nat /\ <<p, q>>[1] = p /\ <<p, q>>[2] = q
    BY <2>1
  <2>3. <<p, q>>[1] < <<p, q>>[2]
    BY <2>2
  <2> QED BY <2>2, <2>3, Zenon DEF OpToRel
<1>3. \A p \in registry : q <= p
  BY <1>2
<1> QED BY <1>3 DEF Front

LEMMA EmptyCircuit == ASSUME NEW n \in Widths, asked \in Circuit
                      PROVE  Empty(n) \in Circuit /\ Len(Empty(n).gates) = 0
BY CunqaAssumption DEF Empty, Circuit

LEMMA LongerCircuit ==
    ASSUME NEW c \in Circuit, NEW g \in Gates
    PROVE  WithGate(c, g) \in Circuit /\ Len(WithGate(c, g).gates) = Len(c.gates) + 1
BY DEF WithGate, Circuit

LEMMA NoCircuitType == NoCircuit \in Circuit /\ Len(NoCircuit.gates) = 0
BY DEF NoCircuit, Circuit

LEMMA OpenIsFinite ==
    ASSUME TypeOK, NEW s
    PROVE  IsFiniteSet(Open(s)) /\ Cardinality(Open(s)) \in Nat
<1>1. IsFiniteSet(1 .. sockets)
  BY FS_Interval DEF TypeOK
<1>2. Open(s) \subseteq 1 .. sockets
  BY DEF Open
<1> QED BY <1>1, <1>2, FS_Subset, FS_CardinalityType

\* A sample() that has not submitted yet has no task anywhere.
LEMMA NothingSent ==
    ASSUME TypeOK, Known, Counted, NEW s \in 1 .. MaxSamples, Budget(s) = 0
    PROVE  \A q \in Vqpus : \A i \in 1 .. Len(inbox[q]) : inbox[q][i].sample # s
<1>1. Cardinality(Open(s)) = 0
  BY OpenIsFinite DEF Counted, TypeOK
<1>2. Open(s) = {}
  BY <1>1, OpenIsFinite, FS_EmptySet
<1> QED BY <1>2 DEF Open, Known

-----------------------------------------------------------------------------
(* The initial states *)

LEMMA InitIInv == Init => IInv
<1> SUFFICES ASSUME Init PROVE IInv
  OBVIOUS
<1> USE CunqaAssumption
<1>1. /\ pc = "idle" /\ retried = FALSE /\ buffer = NoCircuit /\ fallback = NoCircuit
      /\ asked = NoCircuit /\ ready = FALSE /\ samples = 0 /\ answer = NoAnswer
      /\ batch = "off" /\ rowsBy = {} /\ life \in [Vqpus -> {"unborn", "up"}]
      /\ registry \subseteq Vqpus /\ readable = TRUE
      /\ inbox = [q \in Vqpus |-> <<>>] /\ mail = <<>>
      /\ runs = [s \in 1 .. MaxSamples |-> 0]
  BY DEF Init
<1>2. \/ /\ usingCunqa = TRUE /\ qpu = [vqpu |-> Front(registry), sock |-> 1]
         /\ sockets = 1 /\ registry # {}
      \/ usingCunqa = FALSE /\ qpu = NoHandle /\ sockets = 0
  BY DEF Init
<1>3. registry # {} => Front(registry) \in Vqpus
  BY <1>1, FrontListed
<1>4. usingCunqa \in BOOLEAN /\ sockets \in Nat
      /\ qpu \in [vqpu : Vqpus \cup {0}, sock : Nat] /\ (usingCunqa <=> qpu # NoHandle)
  <2>1. CASE usingCunqa = TRUE
    <3>1. qpu = [vqpu |-> Front(registry), sock |-> 1] /\ sockets = 1
          /\ Front(registry) \in Vqpus
      BY <1>2, <1>3, <2>1
    <3>2. qpu.sock = 1 /\ NoHandle.sock = 0
      BY <3>1 DEF NoHandle
    <3> QED BY <2>1, <3>1, <3>2
  <2>2. CASE usingCunqa = FALSE
    <3>1. qpu = NoHandle /\ sockets = 0
      BY <1>2, <2>2
    <3>2. NoHandle \in [vqpu : Vqpus \cup {0}, sock : Nat]
      BY DEF NoHandle
    <3> QED BY <2>2, <3>1, <3>2
  <2> QED BY <1>2, <2>1, <2>2
<1>5. TypeOK
  <2>1. /\ buffer \in Circuit /\ fallback \in Circuit /\ asked \in Circuit
        /\ \A c \in {buffer, fallback, asked} : Len(c.gates) <= MaxGates
    BY <1>1, NoCircuitType
  <2>2. answer \in [by : {"nobody", "device", "local"}, asked : Circuit, got : Circuit]
    BY <1>1, NoCircuitType DEF NoAnswer
  <2>3. life \in [Vqpus -> {"unborn", "up", "down"}]
    BY <1>1
  <2>4. inbox \in [Vqpus -> Seq(Task)] /\ mail \in Seq(Reply)
        /\ runs \in [1 .. MaxSamples -> Nat]
    BY <1>1
  <2>5. pc \in {"idle", "send", "recv", "rediscover", "replay"}
        /\ batch \in {"off", "init", "build"} /\ rowsBy \subseteq {"device", "local"}
    BY <1>1
  <2>6. retried \in BOOLEAN /\ ready \in BOOLEAN /\ readable \in BOOLEAN
    BY <1>1
  <2>7. samples \in 0 .. MaxSamples
    BY <1>1
  <2> QED BY <1>1, <1>4, <2>1, <2>2, <2>3, <2>4, <2>5, <2>6, <2>7 DEF TypeOK
<1>6. Handle /\ Source
  BY <1>1, <1>2, <1>3 DEF Handle, Source, FallbackHoldsCircuit
<1>7. Known /\ Unique /\ FreshSocket /\ OnePending
  BY <1>1 DEF Known, Unique, FreshSocket, OnePending, Pending
<1>8. Counted
  <2> SUFFICES ASSUME NEW s \in 1 .. MaxSamples
               PROVE  runs[s] + Cardinality(Open(s)) <= Budget(s)
    BY DEF Counted
  <2>1. Open(s) = {} /\ runs[s] = 0
    BY <1>1 DEF Open
  <2> QED BY <1>1, <2>1, FS_EmptySet DEF Budget
<1> QED BY <1>5, <1>6, <1>7, <1>8 DEF IInv, Client, Wire

-----------------------------------------------------------------------------
(* Every step keeps the client's part of the invariant *)

\* Calls outside of sample().
LEMMA ClientBuilds ==
    ASSUME IInv,
           \/ \E n \in Widths : Initialize(n)
           \/ \E g \in Gates : ApplyGate(g)
           \/ BeginBatch \/ EndBatch \/ SampleLocally \/ Sample
    PROVE  Client'
<1> USE CunqaAssumption
<1>1. ASSUME NEW n \in Widths, Initialize(n) PROVE Client'
  <2>1. Empty(n) \in Circuit /\ Len(Empty(n).gates) = 0
    BY EmptyCircuit DEF IInv, Client, TypeOK
  <2>2. /\ buffer' = Empty(n) /\ asked' = Empty(n) /\ pc = "idle"
        /\ UNCHANGED <<pc, retried, usingCunqa, qpu, sockets, samples, answer, rowsBy,
                       life, registry, readable, inbox, mail, runs>>
    BY <1>1 DEF Initialize, cluster, wire
  <2>3. /\ ready' \in BOOLEAN /\ batch' \in {"off", "build"}
        /\ fallback' \in {fallback, Empty(n)}
        /\ ~usingCunqa /\ ready' => fallback' = Empty(n)
    <3>1. CASE usingCunqa
      <4>1. ready' = (n <= Capacity[qpu.vqpu]) /\ fallback' = fallback
        BY <1>1, <3>1 DEF Initialize
      <4>2. ready' \in BOOLEAN
        <5>1. qpu.vqpu \in Vqpus
          BY <3>1 DEF IInv, Client, Handle
        <5>2. n \in Nat /\ Capacity[qpu.vqpu] \in Nat
          BY <5>1
        <5> QED BY <4>1, <5>2
      <4> QED BY <1>1, <3>1, <4>1, <4>2 DEF Initialize
    <3>2. CASE ~usingCunqa
      <4>1. /\ ready' = (n <= CpuLimit)
            /\ fallback' = IF n <= CpuLimit THEN Empty(n) ELSE fallback
        BY <1>1, <3>2 DEF Initialize
      <4>2. ready' \in BOOLEAN
        <5>1. n \in Nat /\ CpuLimit \in Nat
          OBVIOUS
        <5> QED BY <4>1, <5>1
      <4> QED BY <1>1, <3>2, <4>1, <4>2 DEF Initialize
    <3> QED BY <3>1, <3>2
  <2>4. TypeOK'
    BY <2>1, <2>2, <2>3 DEF IInv, Client, TypeOK
  <2>5. Handle' /\ Source'
    BY <2>2, <2>3 DEF IInv, Client, Handle, Source, FallbackHoldsCircuit
  <2> QED BY <2>4, <2>5 DEF Client
<1>2. ASSUME NEW g \in Gates, ApplyGate(g) PROVE Client'
  <2>1. /\ pc = "idle" /\ ready /\ asked' = WithGate(asked, g)
        /\ UNCHANGED <<pc, retried, usingCunqa, qpu, sockets, ready, samples, answer, batch,
                       rowsBy, life, registry, readable, inbox, mail, runs>>
    BY <1>2 DEF ApplyGate, cluster, wire
  <2>2. IF usingCunqa THEN buffer' = asked' /\ fallback' = fallback
        ELSE fallback' = asked' /\ buffer' = buffer
    BY <1>2, <2>1 DEF ApplyGate, IInv, Client, Source, FallbackHoldsCircuit
  <2>3. asked' \in Circuit /\ Len(asked'.gates) <= MaxGates
    <3>1. asked \in Circuit /\ Len(asked.gates) < MaxGates /\ Len(asked.gates) \in Nat
      BY <1>2 DEF ApplyGate, IInv, Client, TypeOK, Circuit
    <3> QED BY <2>1, <3>1, LongerCircuit
  <2>4. TypeOK'
    BY <2>1, <2>2, <2>3 DEF IInv, Client, TypeOK
  <2>5. Handle' /\ Source'
    BY <2>1, <2>2 DEF IInv, Client, Handle, Source, FallbackHoldsCircuit
  <2> QED BY <2>4, <2>5 DEF Client
<1>3. ASSUME BeginBatch \/ EndBatch PROVE Client'
  <2>1. /\ batch' \in {"init", "off"} /\ (rowsBy' = rowsBy \/ rowsBy' = {})
        /\ UNCHANGED <<pc, retried, buffer, usingCunqa, qpu, sockets, fallback, asked, ready,
                       samples, answer, life, registry, readable, inbox, mail, runs>>
    BY <1>3 DEF BeginBatch, EndBatch, backend, cluster, wire
  <2> QED BY <2>1 DEF IInv, Client, TypeOK, Handle, Source, FallbackHoldsCircuit
<1>4. ASSUME SampleLocally PROVE Client'
  <2>1. /\ answer' = [by |-> "local", asked |-> asked, got |-> fallback]
        /\ batch' \in {"init", "off"} /\ rowsBy' \subseteq {"device", "local"}
        /\ pc' = "idle" /\ pc = "idle"
        /\ UNCHANGED <<retried, buffer, usingCunqa, qpu, sockets, fallback, asked, ready,
                       samples, life, registry, readable, inbox, mail, runs>>
    BY <1>4 DEF SampleLocally, Return, cluster, wire, IInv, Client, TypeOK
  <2> QED BY <2>1 DEF IInv, Client, TypeOK, Handle, Source, FallbackHoldsCircuit
<1>5. ASSUME Sample PROVE Client'
  <2>1. /\ pc = "idle" /\ usingCunqa /\ ready /\ samples < MaxSamples
        /\ pc' = "send" /\ retried' = FALSE /\ samples' = samples + 1
        /\ UNCHANGED <<buffer, usingCunqa, qpu, sockets, fallback, asked, ready, answer,
                       batch, rowsBy, life, registry, readable, inbox, mail, runs>>
    BY <1>5 DEF Sample, cluster, wire
  <2>2. samples' \in 1 .. MaxSamples
    BY <2>1 DEF IInv, Client, TypeOK
  <2>a. samples' \in 0 .. MaxSamples
    BY <2>2
  <2>b. retried' \in BOOLEAN
    BY <2>1
  <2>3. samples' \in 0 .. MaxSamples /\ retried' \in BOOLEAN
    BY <2>a, <2>b
  <2>4. TypeOK'
    BY <2>1, <2>3 DEF IInv, Client, TypeOK
  <2>5. Handle' /\ Source'
    BY <2>1, <2>2 DEF IInv, Client, Handle, Source, FallbackHoldsCircuit
  <2> QED BY <2>4, <2>5 DEF Client
<1> QED BY <1>1, <1>2, <1>3, <1>4, <1>5

\* A submission that fails is caught once, and ends the call the second time.
LEMMA ClientCatches ==
    ASSUME IInv, pc \in {"send", "recv"}, SubmissionFails,
           UNCHANGED <<buffer, usingCunqa, qpu, sockets, fallback, life, registry, readable>>,
           inbox' \in [Vqpus -> Seq(Task)], mail' \in Seq(Reply),
           runs' \in [1 .. MaxSamples -> Nat]
    PROVE  Client'
<1>1. CASE retried
  <2>1. /\ pc' = "idle" /\ ready' = FALSE /\ batch' = "off"
        /\ answer' = [by |-> "nobody", asked |-> asked, got |-> NoCircuit]
        /\ UNCHANGED <<retried, asked, samples, rowsBy>>
    BY <1>1 DEF SubmissionFails, Throw
  <2>2. answer' \in [by : {"nobody", "device", "local"}, asked : Circuit, got : Circuit]
    BY <2>1, NoCircuitType DEF IInv, Client, TypeOK
  <2>3. TypeOK'
    BY <2>1, <2>2 DEF IInv, Client, TypeOK
  <2> QED BY <2>1, <2>3 DEF IInv, Client, Handle, Source, FallbackHoldsCircuit
<1>2. CASE ~retried
  <2>1. /\ pc' = "rediscover"
        /\ UNCHANGED <<retried, asked, ready, samples, answer, batch, rowsBy>>
    BY <1>2 DEF SubmissionFails, caller
  <2>2. TypeOK'
    BY <2>1 DEF IInv, Client, TypeOK
  <2> QED BY <1>2, <2>1, <2>2 DEF IInv, Client, Handle, Source, FallbackHoldsCircuit
<1> QED BY <1>1, <1>2

\* What sample() does by itself, and a signal.
LEMMA ClientSamples == ASSUME IInv, InSample \/ ReceiveInterrupted PROVE Client'
<1> USE CunqaAssumption
<1>1. ASSUME Submit PROVE Client'
  <2>1. /\ pc = "send" /\ pc' = "recv"
        /\ UNCHANGED <<retried, buffer, usingCunqa, qpu, sockets, fallback, asked, ready,
                       samples, answer, batch, rowsBy, life, registry, readable, mail, runs>>
    BY <1>1 DEF Submit, caller, cluster
  <2>2. inbox' \in [Vqpus -> Seq(Task)]
    <3>1. qpu.vqpu \in Vqpus
      BY <2>1 DEF IInv, Client, Handle
    <3>2. [sock |-> qpu.sock, sample |-> samples, circuit |-> buffer] \in Task
      BY DEF IInv, Client, TypeOK, Task
    <3>3. Append(inbox[qpu.vqpu], [sock |-> qpu.sock, sample |-> samples,
                                   circuit |-> buffer]) \in Seq(Task)
      <4>1. inbox[qpu.vqpu] \in Seq(Task)
        BY <3>1 DEF IInv, Client, TypeOK
      <4> QED BY <3>2, <4>1, Appended
    <3> QED BY <1>1, <3>1, <3>3 DEF Submit, IInv, Client, TypeOK
  <2>3. TypeOK'
    BY <2>1, <2>2 DEF IInv, Client, TypeOK
  <2> QED BY <2>1, <2>3 DEF IInv, Client, Handle, Source, FallbackHoldsCircuit
<1>2. ASSUME TranslationFails \/ ReceiveInterrupted PROVE Client'
  BY <1>2, ClientCatches
     DEF TranslationFails, ReceiveInterrupted, cluster, wire, IInv, Client, TypeOK
<1>3. ASSUME Receive PROVE Client'
  <2>1. /\ pc = "recv" /\ mail # <<>> /\ mail' = Tail(mail)
        /\ UNCHANGED <<buffer, usingCunqa, qpu, sockets, fallback, life, registry, readable,
                       inbox, runs>>
    BY <1>3 DEF Receive, cluster
  <2>2. mail' \in Seq(Reply) /\ Head(mail) \in Reply
    BY <2>1, Shortened DEF IInv, Client, TypeOK
  <2>3. CASE Head(mail).ok
    <3>1. /\ answer' = [by |-> "device", asked |-> asked, got |-> Head(mail).circuit]
          /\ batch' \in {"init", "off"} /\ rowsBy' \subseteq {"device", "local"}
          /\ pc' = "idle" /\ UNCHANGED <<retried, asked, ready, samples>>
      BY <1>3, <2>3 DEF Receive, Return, IInv, Client, TypeOK
    <3>2. answer' \in [by : {"nobody", "device", "local"}, asked : Circuit, got : Circuit]
      BY <2>2, <3>1 DEF IInv, Client, TypeOK, Reply
    <3>3. TypeOK'
      BY <2>1, <2>2, <3>1, <3>2 DEF IInv, Client, TypeOK
    <3> QED BY <2>1, <3>1, <3>3 DEF IInv, Client, Handle, Source, FallbackHoldsCircuit
  <2>4. CASE ~Head(mail).ok
    BY <1>3, <2>1, <2>2, <2>4, ClientCatches DEF Receive, IInv, Client, TypeOK
  <2> QED BY <2>3, <2>4
<1>4. ASSUME Rediscover PROVE Client'
  <2>1. /\ pc = "rediscover" /\ mail' = <<>> /\ retried' = TRUE
        /\ UNCHANGED <<buffer, fallback, asked, ready, samples, answer, batch, rowsBy, life,
                       registry, readable, inbox, runs>>
    BY <1>4 DEF Rediscover, DiscoverQpu, caller, cluster
  <2>2. mail' \in Seq(Reply)
    BY <2>1
  <2>3. CASE readable /\ registry # {}
    <3>1. /\ usingCunqa' = TRUE /\ pc' = "send" /\ sockets' = sockets + 1
          /\ qpu' = [vqpu |-> Front(registry), sock |-> sockets + 1]
      BY <1>4, <2>3 DEF Rediscover, DiscoverQpu
    <3>2. Front(registry) \in Vqpus /\ sockets \in Nat
      BY <2>3, FrontListed DEF IInv, Client, TypeOK
    <3>3. /\ qpu' \in [vqpu : Vqpus \cup {0}, sock : Nat] /\ qpu' # NoHandle
          /\ qpu'.vqpu = Front(registry) /\ qpu'.sock = sockets + 1
      <4>1. qpu'.sock = sockets + 1 /\ NoHandle.sock = 0
        BY <3>1 DEF NoHandle
      <4> QED BY <3>1, <3>2, <4>1
    <3>4. TypeOK'
      BY <2>1, <2>2, <3>1, <3>2, <3>3 DEF IInv, Client, TypeOK
    <3>5. Handle' /\ Source'
      BY <2>1, <3>1, <3>2, <3>3 DEF IInv, Client, Handle, Source, FallbackHoldsCircuit
    <3> QED BY <3>4, <3>5 DEF Client
  <2>4. CASE ~(readable /\ registry # {})
    <3>1. usingCunqa' = FALSE /\ pc' = "replay" /\ qpu' = NoHandle /\ sockets' = sockets
      BY <1>4, <2>4 DEF Rediscover, DiscoverQpu
    <3>2. NoHandle \in [vqpu : Vqpus \cup {0}, sock : Nat]
      BY DEF NoHandle
    <3>3. TypeOK'
      BY <2>1, <2>2, <3>1, <3>2 DEF IInv, Client, TypeOK
    <3>4. Handle' /\ Source'
      BY <2>1, <3>1 DEF IInv, Client, Handle, Source, FallbackHoldsCircuit
    <3> QED BY <3>3, <3>4 DEF Client
  <2> QED BY <2>3, <2>4
<1>5. ASSUME Replay PROVE Client'
  <2>1. /\ pc = "replay" /\ pc' = "idle"
        /\ UNCHANGED <<retried, buffer, usingCunqa, qpu, sockets, asked, samples, life,
                       registry, readable, inbox, mail, runs>>
    BY <1>5 DEF Replay, Return, Throw, cluster, wire
  <2>2. \/ /\ fallback' = buffer /\ ready' = ready
           /\ answer' = [by |-> "local", asked |-> asked, got |-> buffer]
        \/ /\ fallback' = fallback /\ ready' = FALSE
           /\ answer' = [by |-> "nobody", asked |-> asked, got |-> NoCircuit]
    BY <1>5 DEF Replay, Return, Throw
  <2>3. batch' \in {"init", "off"} /\ rowsBy' \subseteq {"device", "local"}
    BY <1>5 DEF Replay, Return, Throw, IInv, Client, TypeOK
  <2>4. answer' \in [by : {"nobody", "device", "local"}, asked : Circuit, got : Circuit]
    BY <2>2, NoCircuitType DEF IInv, Client, TypeOK
  <2>5. TypeOK'
    BY <2>1, <2>2, <2>3, <2>4 DEF IInv, Client, TypeOK
  <2>6. Handle' /\ Source'
    BY <2>1, <2>2 DEF IInv, Client, Handle, Source, FallbackHoldsCircuit
  <2> QED BY <2>5, <2>6 DEF Client
<1> QED BY <1>1, <1>2, <1>3, <1>4, <1>5 DEF InSample

\* The cluster, at its own pace.
LEMMA ClientRests ==
    ASSUME IInv,
           \/ \E q \in Vqpus : Serve(q)
           \/ Cluster \/ Rewrite \/ UNCHANGED vars
    PROVE  Client'
<1>1. ASSUME NEW q \in Vqpus, Serve(q) PROVE Client'
  <2>1. /\ inbox[q] # <<>> /\ inbox' = [inbox EXCEPT ![q] = Tail(@)]
        /\ UNCHANGED <<pc, retried, buffer, usingCunqa, qpu, sockets, fallback, asked, ready,
                       samples, answer, batch, rowsBy, life, registry, readable>>
    BY <1>1 DEF Serve, backend, caller, cluster
  <2>2. inbox[q] \in Seq(Task) /\ Tail(inbox[q]) \in Seq(Task) /\ Head(inbox[q]) \in Task
    BY <2>1, Shortened DEF IInv, Client, TypeOK
  <2>3. inbox' \in [Vqpus -> Seq(Task)]
    BY <2>1, <2>2 DEF IInv, Client, TypeOK
  <2>4. PICK ok \in BOOLEAN :
          /\ runs' = IF ok THEN [runs EXCEPT ![Head(inbox[q]).sample] = @ + 1] ELSE runs
          /\ mail' = IF Head(inbox[q]).sock = qpu.sock
                     THEN Append(mail, [ok |-> ok, circuit |-> Head(inbox[q]).circuit])
                     ELSE mail
    BY <1>1 DEF Serve
  <2>5. mail' \in Seq(Reply)
    <3>1. [ok |-> ok, circuit |-> Head(inbox[q]).circuit] \in Reply
      BY <2>2 DEF Task, Reply
    <3> QED BY <2>4, <3>1 DEF IInv, Client, TypeOK
  <2>6. runs' \in [1 .. MaxSamples -> Nat]
    <3>1. runs \in [1 .. MaxSamples -> Nat]
      BY DEF IInv, Client, TypeOK
    <3>2. CASE ok
      <4>1. runs' = [runs EXCEPT ![Head(inbox[q]).sample] = @ + 1]
        BY <2>4, <3>2
      <4>2. Head(inbox[q]).sample \in 1 .. MaxSamples
        <5>1. Head(inbox[q]) = inbox[q][1] /\ Len(inbox[q]) \in Nat \ {0}
          BY <2>1, <2>2, Shortened
        <5>2. inbox[q][1].sample \in 1 .. samples
          BY <5>1 DEF IInv, Wire, Known
        <5>3. samples \in 0 .. MaxSamples /\ MaxSamples \in Nat
          BY CunqaAssumption DEF IInv, Client, TypeOK
        <5>4. inbox[q][1].sample \in 1 .. MaxSamples
          BY <5>2, <5>3
        <5> QED BY <5>1, <5>4
      <4>3. runs[Head(inbox[q]).sample] + 1 \in Nat
        BY <3>1, <4>2
      <4> QED BY <3>1, <4>1, <4>3
    <3>3. CASE ~ok
      BY <2>4, <3>1, <3>3
    <3> QED BY <3>2, <3>3
  <2>7. TypeOK'
    BY <2>1, <2>3, <2>5, <2>6 DEF IInv, Client, TypeOK
  <2> QED BY <2>1, <2>7 DEF IInv, Client, Handle, Source, FallbackHoldsCircuit
<1>2. ASSUME Cluster PROVE Client'
  <2>1. /\ life' \in [Vqpus -> {"unborn", "up", "down"}] /\ registry' \subseteq Vqpus
        /\ readable' = readable /\ mail' = mail /\ runs' = runs
        /\ UNCHANGED <<pc, retried, buffer, usingCunqa, qpu, sockets, fallback, asked, ready,
                       samples, answer, batch, rowsBy>>
    BY <1>2 DEF Cluster, Raise, Die, Deregister, backend, caller, wire, IInv, Client, TypeOK
  <2>2. inbox' \in [Vqpus -> Seq(Task)]
    <3>1. inbox' = inbox \/ \E q \in Vqpus : inbox' = [inbox EXCEPT ![q] = <<>>]
      BY <1>2 DEF Cluster, Raise, Die, Deregister, wire
    <3>2. inbox \in [Vqpus -> Seq(Task)] /\ <<>> \in Seq(Task)
      BY DEF IInv, Client, TypeOK
    <3> QED BY <3>1, <3>2
  <2>3. TypeOK'
    BY <2>1, <2>2 DEF IInv, Client, TypeOK
  <2> QED BY <2>1, <2>3 DEF IInv, Client, Handle, Source, FallbackHoldsCircuit
<1>3. ASSUME Rewrite \/ UNCHANGED vars PROVE Client'
  <2>1. /\ readable' \in BOOLEAN
        /\ UNCHANGED <<pc, retried, buffer, usingCunqa, qpu, sockets, fallback, asked, ready,
                       samples, answer, batch, rowsBy, life, registry, inbox, mail, runs>>
    BY <1>3 DEF Rewrite, vars, backend, caller, wire, IInv, Client, TypeOK
  <2> QED BY <2>1 DEF IInv, Client, TypeOK, Handle, Source, FallbackHoldsCircuit
<1> QED BY <1>1, <1>2, <1>3

-----------------------------------------------------------------------------
(* Every step keeps what is on the wires in order *)

\* What a step that touches no task leaves true.
LEMMA SameTasks ==
    ASSUME IInv, UNCHANGED <<inbox, samples, sockets>>
    PROVE  Known' /\ Unique' /\ (\A s : Open(s)' = Open(s)) /\ (\A k : Pending(k)' = Pending(k))
<1>1. Known'
  BY DEF IInv, Wire, Known
<1>2. Unique'
  BY DEF IInv, Wire, Unique
<1>3. \A s : Open(s)' = Open(s)
  BY DEF Open
<1>4. \A k : Pending(k)' = Pending(k)
  BY DEF Pending
<1> QED BY <1>1, <1>2, <1>3, <1>4

\* Counting: a step that submits nothing, and does not lower the budget.
LEMMA SameCount ==
    ASSUME IInv, runs' = runs, UNCHANGED <<inbox, samples, sockets>>,
           \A s \in 1 .. MaxSamples : Budget(s)' >= Budget(s)
    PROVE  Counted'
<1> SUFFICES ASSUME NEW s \in 1 .. MaxSamples
             PROVE  runs'[s] + Cardinality(Open(s)') <= Budget(s)'
  BY DEF Counted
<1>1. runs[s] + Cardinality(Open(s)) <= Budget(s) /\ Cardinality(Open(s)) \in Nat
      /\ runs[s] \in Nat
  BY OpenIsFinite DEF IInv, Client, TypeOK, Wire, Counted
<1>2. Open(s)' = Open(s)
  BY SameTasks
<1>3. Budget(s) \in Nat /\ Budget(s)' \in Nat
  BY DEF Budget
<1> QED BY <1>1, <1>2, <1>3

\* Between calls, and for the cluster's other steps.
LEMMA WireRests ==
    ASSUME IInv, UNCHANGED <<inbox, mail, runs, samples, sockets, pc, retried, qpu>>,
           asked' = asked \/ pc = "idle"
    PROVE  Wire'
<1>1. \A s \in 1 .. MaxSamples : Budget(s)' >= Budget(s)
  BY DEF Budget
<1>2. Counted'
  BY <1>1, SameCount
<1>3. FreshSocket'
  BY SameTasks DEF IInv, Wire, FreshSocket
<1>4. OnePending'
  BY SameTasks DEF IInv, Wire, OnePending
<1> QED BY <1>2, <1>3, <1>4, SameTasks DEF Wire

\* A step that ends the wait, with the socket clean unless it was interrupted.
LEMMA WireEnds ==
    ASSUME IInv, UNCHANGED <<inbox, runs, samples, sockets, qpu>>,
           pc' \in {"idle", "rediscover"}, pc # "idle", retried' = retried,
           ~Interrupts => mail' = <<>> /\ ~Pending(qpu.sock)
    PROVE  Wire'
<1>1. \A s \in 1 .. MaxSamples : Budget(s)' >= Budget(s)
  BY DEF Budget, IInv, Client, TypeOK
<1>2. Counted'
  BY <1>1, SameCount
<1>3. FreshSocket' /\ OnePending'
  BY SameTasks DEF FreshSocket, OnePending
<1> QED BY <1>2, <1>3, SameTasks DEF Wire

LEMMA WireSample == ASSUME IInv, Sample PROVE Wire'
<1>1. /\ pc = "idle" /\ pc' = "send" /\ retried' = FALSE /\ samples' = samples + 1
      /\ UNCHANGED <<inbox, mail, runs, sockets, qpu>>
  BY DEF Sample, wire
<1>2. Known' /\ Unique'
  BY <1>1 DEF IInv, Client, TypeOK, Wire, Known, Unique
<1>3. FreshSocket' /\ OnePending'
  BY <1>1 DEF IInv, Wire, FreshSocket, OnePending, Pending
<1>4. Counted'
  <2> SUFFICES ASSUME NEW s \in 1 .. MaxSamples
               PROVE  runs'[s] + Cardinality(Open(s)') <= Budget(s)'
    BY DEF Counted
  <2>1. runs[s] + Cardinality(Open(s)) <= Budget(s) /\ Cardinality(Open(s)) \in Nat
        /\ runs[s] \in Nat
    BY OpenIsFinite DEF IInv, Client, TypeOK, Wire, Counted
  <2>2. Open(s)' = Open(s)
    BY <1>1 DEF Open
  <2>3. Budget(s)' >= Budget(s)
    BY <1>1 DEF Budget, IInv, Client, TypeOK
  <2>4. Budget(s) \in Nat /\ Budget(s)' \in Nat
    BY DEF Budget
  <2> QED BY <1>1, <2>1, <2>2, <2>3, <2>4
<1> QED BY <1>2, <1>3, <1>4 DEF Wire

\* A submission to a vQPU that is up adds one task, the only one of its sample()
\* on its socket.
LEMMA WireSubmit == ASSUME IInv, Submit PROVE Wire'
<1> DEFINE v == qpu.vqpu
           task == [sock |-> qpu.sock, sample |-> samples, circuit |-> buffer]
<1>0. /\ pc = "send" /\ pc' = "recv" /\ usingCunqa /\ buffer = asked
      /\ UNCHANGED <<retried, qpu, sockets, asked, samples, mail, runs>>
      /\ v \in Vqpus /\ qpu.sock = sockets /\ sockets \in Nat \ {0}
      /\ samples \in 1 .. MaxSamples /\ MaxSamples \in Nat
      /\ qpu.sock \in 1 .. sockets
  BY CunqaAssumption DEF Submit, caller, IInv, Client, Handle, Source, TypeOK
<1>1. CASE life[v] # "up"
  <2>1. inbox' = inbox
    BY <1>1 DEF Submit
  <2>2. \A s \in 1 .. MaxSamples : Budget(s)' >= Budget(s)
    BY <1>0 DEF Budget, IInv, Client, TypeOK
  <2>3. Counted'
    BY <1>0, <2>1, <2>2, SameCount
  <2>4. FreshSocket'
    BY <1>0 DEF FreshSocket
  <2>5. OnePending'
    BY <1>0, <2>1 DEF OnePending, IInv, Wire, Pending
  <2> QED BY <1>0, <2>1, <2>3, <2>4, <2>5, SameTasks DEF Wire
<1>2. CASE life[v] = "up"
  <2>1. inbox' = [inbox EXCEPT ![v] = Append(@, task)]
    BY <1>2 DEF Submit
  <2>2. inbox \in [Vqpus -> Seq(Task)] /\ task \in Task
    <3>1. inbox \in [Vqpus -> Seq(Task)]
      BY DEF IInv, Client, TypeOK
    <3>2. qpu.sock \in Nat /\ samples \in Nat
      BY <1>0
    <3>3. buffer \in Circuit
      BY DEF IInv, Client, TypeOK
    <3> QED BY <3>1, <3>2, <3>3 DEF Task
  <2>3. inbox[v] \in Seq(Task) /\ Len(inbox[v]) \in Nat
    BY <1>0, <2>2
  <2>4. /\ inbox'[v] = Append(inbox[v], task)
        /\ \A q \in Vqpus : q # v => inbox'[q] = inbox[q]
    BY <1>0, <2>1, <2>2
  <2>5. /\ Len(inbox'[v]) = Len(inbox[v]) + 1
        /\ \A i \in 1 .. Len(inbox[v]) : inbox'[v][i] = inbox[v][i]
        /\ inbox'[v][Len(inbox[v]) + 1] = task
    BY <2>2, <2>3, <2>4, Appended
  \* Every task is an old one at its old place, or the new one at its own.
  <2>6. \A q \in Vqpus : \A i \in 1 .. Len(inbox'[q]) :
          \/ i \in 1 .. Len(inbox[q]) /\ inbox'[q][i] = inbox[q][i]
          \/ q = v /\ i = Len(inbox[v]) + 1 /\ inbox'[q][i] = task
    BY <2>3, <2>4, <2>5
  <2>7. \A q \in Vqpus : \A i \in 1 .. Len(inbox[q]) :
          i \in 1 .. Len(inbox'[q]) /\ inbox'[q][i] = inbox[q][i]
    BY <2>3, <2>4, <2>5
  <2>8. Len(inbox[v]) + 1 \in 1 .. Len(inbox'[v])
    BY <2>3, <2>5
  <2>9. task.sample = samples /\ task.sock = qpu.sock /\ task.circuit = asked
    BY <1>0
  <2>10. Known'
    BY <1>0, <2>6, <2>9 DEF IInv, Wire, Known
  <2>11. \A q \in Vqpus : \A i \in 1 .. Len(inbox[q]) :
           ~(inbox[q][i].sample = samples /\ inbox[q][i].sock = qpu.sock)
    <3>1. CASE retried
      BY <1>0, <3>1 DEF IInv, Wire, FreshSocket, Pending
    <3>2. CASE ~retried
      <4>1. Budget(samples) = 0
        BY <1>0, <3>2 DEF Budget
      <4> QED BY <1>0, <4>1, NothingSent DEF IInv, Client, Wire
    <3> QED BY <3>1, <3>2
  <2>12. Unique'
    <3> SUFFICES ASSUME NEW p \in Vqpus, NEW q \in Vqpus,
                        NEW i \in 1 .. Len(inbox'[p]), NEW j \in 1 .. Len(inbox'[q]),
                        inbox'[p][i].sample = inbox'[q][j].sample,
                        inbox'[p][i].sock = inbox'[q][j].sock
                 PROVE  p = q /\ i = j
      BY DEF Unique
    <3>a. Unique
      BY DEF IInv, Wire
    <3>1. CASE i \in 1 .. Len(inbox[p]) /\ inbox'[p][i] = inbox[p][i]
      <4>1. CASE j \in 1 .. Len(inbox[q]) /\ inbox'[q][j] = inbox[q][j]
        BY <3>a, <3>1, <4>1 DEF Unique
      <4>2. CASE q = v /\ j = Len(inbox[v]) + 1 /\ inbox'[q][j] = task
        <5>1. inbox[p][i].sample = samples /\ inbox[p][i].sock = qpu.sock
          BY <2>9, <3>1, <4>2
        <5> QED BY <2>11, <3>1, <5>1
      <4> QED BY <2>6, <4>1, <4>2
    <3>2. CASE p = v /\ i = Len(inbox[v]) + 1 /\ inbox'[p][i] = task
      <4>1. CASE j \in 1 .. Len(inbox[q]) /\ inbox'[q][j] = inbox[q][j]
        <5>1. inbox[q][j].sample = samples /\ inbox[q][j].sock = qpu.sock
          BY <2>9, <3>2, <4>1
        <5> QED BY <2>11, <4>1, <5>1
      <4>2. CASE q = v /\ j = Len(inbox[v]) + 1 /\ inbox'[q][j] = task
        BY <3>2, <4>2
      <4> QED BY <2>6, <4>1, <4>2
    <3> QED BY <2>6, <3>1, <3>2
  <2>13. FreshSocket'
    BY <1>0 DEF FreshSocket
  <2>14. OnePending'
    <3> SUFFICES ASSUME ~Interrupts, NEW q \in Vqpus, NEW i \in 1 .. Len(inbox'[q]),
                        inbox'[q][i].sock = qpu.sock
                 PROVE  inbox'[q][i].sample = samples /\ inbox'[q][i].circuit = asked
      BY <1>0 DEF OnePending, IInv, Wire
    <3>1. ~Pending(qpu.sock)
      BY <1>0 DEF IInv, Wire, OnePending
    <3> QED BY <2>6, <2>9, <3>1 DEF Pending
  <2>15. Counted'
    <3> SUFFICES ASSUME NEW s \in 1 .. MaxSamples
                 PROVE  runs'[s] + Cardinality(Open(s)') <= Budget(s)'
      BY DEF Counted
    <3>1. /\ runs[s] + Cardinality(Open(s)) <= Budget(s)
          /\ IsFiniteSet(Open(s)) /\ Cardinality(Open(s)) \in Nat /\ runs[s] \in Nat
      BY OpenIsFinite DEF IInv, Client, TypeOK, Wire, Counted
    <3>2. CASE s = samples
      <4>1. Open(s)' = Open(s) \cup {qpu.sock}
        <5>1. ASSUME NEW k \in Open(s)' PROVE k \in Open(s) \cup {qpu.sock}
          <6>1. k \in 1 .. sockets
            BY <1>0 DEF Open
          <6>2. PICK q \in Vqpus : \E i \in 1 .. Len(inbox'[q]) :
                  inbox'[q][i].sample = s /\ inbox'[q][i].sock = k
            BY DEF Open
          <6>a. PICK i \in 1 .. Len(inbox'[q]) :
                  inbox'[q][i].sample = s /\ inbox'[q][i].sock = k
            BY <6>2
          <6>3. CASE i \in 1 .. Len(inbox[q]) /\ inbox'[q][i] = inbox[q][i]
            BY <6>1, <6>a, <6>3 DEF Open
          <6>4. CASE inbox'[q][i] = task
            BY <2>9, <6>a, <6>4
          <6> QED BY <2>6, <6>3, <6>4
        <5>2. ASSUME NEW k \in Open(s) PROVE k \in Open(s)'
          BY <1>0, <2>7 DEF Open
        <5>3. qpu.sock \in Open(s)'
          BY <1>0, <2>5, <2>8, <2>9, <3>2 DEF Open
        <5> QED BY <5>1, <5>2, <5>3
      <4>2. qpu.sock \notin Open(s)
        BY <2>11, <3>2 DEF Open
      <4>3. Cardinality(Open(s)') = Cardinality(Open(s)) + 1
        BY <3>1, <4>1, <4>2, FS_AddElement
      <4>4. Budget(s)' = Budget(s) + 1 /\ Budget(s) \in Nat
        BY <1>0, <3>2 DEF Budget
      <4> QED BY <1>0, <3>1, <4>3, <4>4
    <3>3. CASE s # samples
      <4>1. Open(s)' = Open(s)
        <5>1. ASSUME NEW k \in Open(s)' PROVE k \in Open(s)
          <6>1. k \in 1 .. sockets
            BY <1>0 DEF Open
          <6>2. PICK q \in Vqpus : \E i \in 1 .. Len(inbox'[q]) :
                  inbox'[q][i].sample = s /\ inbox'[q][i].sock = k
            BY DEF Open
          <6>a. PICK i \in 1 .. Len(inbox'[q]) :
                  inbox'[q][i].sample = s /\ inbox'[q][i].sock = k
            BY <6>2
          <6>3. i \in 1 .. Len(inbox[q]) /\ inbox'[q][i] = inbox[q][i]
            BY <2>6, <2>9, <3>3, <6>a
          <6> QED BY <6>1, <6>a, <6>3 DEF Open
        <5>2. ASSUME NEW k \in Open(s) PROVE k \in Open(s)'
          BY <1>0, <2>7 DEF Open
        <5> QED BY <5>1, <5>2
      <4>2. Budget(s)' = Budget(s)
        BY <1>0, <3>3 DEF Budget
      <4> QED BY <1>0, <3>1, <4>1, <4>2
    <3> QED BY <3>2, <3>3
  <2> QED BY <2>10, <2>12, <2>13, <2>14, <2>15 DEF Wire
<1> QED BY <1>1, <1>2

LEMMA WireReceive == ASSUME IInv, Receive PROVE Wire'
<1>1. /\ pc = "recv" /\ mail # <<>> /\ mail' = Tail(mail)
      /\ UNCHANGED <<buffer, usingCunqa, qpu, sockets, fallback, inbox, runs>>
  BY DEF Receive
<1>2. ~Interrupts => mail' = <<>> /\ ~Pending(qpu.sock)
  <2> SUFFICES ASSUME ~Interrupts PROVE mail' = <<>> /\ ~Pending(qpu.sock)
    OBVIOUS
  <2>1. Len(mail) = 1 /\ ~Pending(qpu.sock)
    BY <1>1 DEF IInv, Wire, OnePending
  <2>2. mail \in Seq(Reply)
    BY DEF IInv, Client, TypeOK
  <2>3. Tail(mail) = <<>>
    BY <1>1, <2>1, <2>2
  <2> QED BY <1>1, <2>1, <2>3
<1>3. /\ pc' \in {"idle", "rediscover"}
      /\ UNCHANGED <<retried, samples>>
  BY DEF Receive, Return, SubmissionFails, Throw, caller
<1> QED BY <1>1, <1>2, <1>3, WireEnds

\* The calls that end without having waited.
LEMMA WireFails ==
    ASSUME IInv, TranslationFails \/ ReceiveInterrupted
    PROVE  Wire'
<1>1. /\ pc \in {"send", "recv"} /\ pc' \in {"idle", "rediscover"}
      /\ UNCHANGED <<inbox, mail, runs, samples, sockets, qpu, retried>>
  BY DEF TranslationFails, ReceiveInterrupted, SubmissionFails, Throw, caller, wire
<1>2. ~Interrupts => mail' = <<>> /\ ~Pending(qpu.sock)
  BY <1>1 DEF TranslationFails, ReceiveInterrupted, IInv, Wire, OnePending
<1> QED BY <1>1, <1>2, WireEnds

LEMMA WireReplay == ASSUME IInv, Replay PROVE Wire'
<1>1. /\ pc = "replay" /\ pc' = "idle"
      /\ UNCHANGED <<inbox, mail, runs, samples, sockets, qpu, retried>>
  BY DEF Replay, Return, Throw, wire
<1>2. ~Interrupts => mail' = <<>> /\ ~Pending(qpu.sock)
  BY <1>1 DEF IInv, Wire, OnePending
<1> QED BY <1>1, <1>2, WireEnds

\* A handle that is found again has a socket no task was ever sent on.
LEMMA WireRediscover == ASSUME IInv, Rediscover PROVE Wire'
<1>0. /\ pc = "rediscover" /\ mail' = <<>> /\ retried' = TRUE /\ ~retried
      /\ UNCHANGED <<inbox, runs, samples, asked>>
      /\ sockets \in Nat /\ pc' \in {"send", "replay"}
  BY DEF Rediscover, DiscoverQpu, caller, IInv, Client, Handle, TypeOK
<1>1. \/ pc' = "send" /\ sockets' = sockets + 1 /\ qpu'.sock = sockets + 1
      \/ pc' = "replay" /\ sockets' = sockets /\ qpu'.sock = 0
  BY DEF Rediscover, DiscoverQpu, NoHandle
<1>2. sockets' \in Nat /\ 1 .. sockets \subseteq 1 .. sockets'
  BY <1>0, <1>1
<1>3. Known' /\ Unique'
  BY <1>0, <1>2 DEF IInv, Wire, Known, Unique
<1>4. ~Pending(qpu.sock)'
  <2> SUFFICES ASSUME NEW q \in Vqpus, NEW i \in 1 .. Len(inbox[q]),
                      inbox[q][i].sock = qpu'.sock
               PROVE  FALSE
    BY <1>0 DEF Pending
  <2>1. inbox[q][i].sock \in 1 .. sockets
    BY DEF IInv, Wire, Known
  <2> QED BY <1>0, <1>1, <2>1
<1>5. FreshSocket' /\ OnePending'
  BY <1>0, <1>4 DEF FreshSocket, OnePending
<1>6. Counted'
  <2> SUFFICES ASSUME NEW s \in 1 .. MaxSamples
               PROVE  runs'[s] + Cardinality(Open(s)') <= Budget(s)'
    BY DEF Counted
  <2>1. runs[s] + Cardinality(Open(s)) <= Budget(s) /\ Cardinality(Open(s)) \in Nat
        /\ runs[s] \in Nat
    BY OpenIsFinite DEF IInv, Client, TypeOK, Wire, Counted
  <2>2. Open(s)' = Open(s)
    BY <1>0, <1>2 DEF Open, IInv, Wire, Known
  <2>3. Budget(s)' >= Budget(s)
    BY <1>0 DEF Budget, IInv, Client, TypeOK
  <2>4. Budget(s) \in Nat /\ Budget(s)' \in Nat
    BY DEF Budget
  <2> QED BY <1>0, <2>1, <2>2, <2>3, <2>4
<1> QED BY <1>3, <1>5, <1>6 DEF Wire

\* A task that is served is pending no more, and its reply, if its socket is
\* still open, is the only one.
LEMMA WireServe == ASSUME IInv, NEW v \in Vqpus, Serve(v) PROVE Wire'
<1> DEFINE task == Head(inbox[v])
<1>1. /\ inbox[v] # <<>> /\ inbox' = [inbox EXCEPT ![v] = Tail(@)]
      /\ UNCHANGED <<pc, retried, qpu, sockets, asked, samples>>
  BY DEF Serve, backend, caller
<1>2. inbox \in [Vqpus -> Seq(Task)] /\ inbox[v] \in Seq(Task)
  BY DEF IInv, Client, TypeOK
<1>3. /\ Len(inbox[v]) \in Nat \ {0} /\ Len(inbox'[v]) = Len(inbox[v]) - 1
      /\ \A i \in 1 .. Len(inbox[v]) - 1 : inbox'[v][i] = inbox[v][i + 1]
      /\ task = inbox[v][1] /\ task \in Task
      /\ \A q \in Vqpus : q # v => inbox'[q] = inbox[q]
  BY <1>1, <1>2, Shortened
<1>4. 1 \in 1 .. Len(inbox[v])
  BY <1>3
<1> DEFINE old(q, i) == IF q = v THEN i + 1 ELSE i
\* Every task left was there before, one place further back if it waits for v.
<1>5. \A q \in Vqpus : \A i \in 1 .. Len(inbox'[q]) :
        /\ old(q, i) \in 1 .. Len(inbox[q]) /\ inbox'[q][i] = inbox[q][old(q, i)]
        /\ ~(q = v /\ old(q, i) = 1)
  <2> SUFFICES ASSUME NEW q \in Vqpus, NEW i \in 1 .. Len(inbox'[q])
               PROVE  /\ old(q, i) \in 1 .. Len(inbox[q])
                      /\ inbox'[q][i] = inbox[q][old(q, i)]
                      /\ ~(q = v /\ old(q, i) = 1)
    OBVIOUS
  <2>1. CASE q = v
    BY <1>3, <2>1
  <2>2. CASE q # v
    BY <1>3, <2>2
  <2> QED BY <2>1, <2>2
<1>6. \A q \in Vqpus : \A i \in 1 .. Len(inbox[q]) :
        \/ q = v /\ i = 1
        \/ \E j \in 1 .. Len(inbox'[q]) : inbox'[q][j] = inbox[q][i]
  <2> SUFFICES ASSUME NEW q \in Vqpus, NEW i \in 1 .. Len(inbox[q]), ~(q = v /\ i = 1)
               PROVE  \E j \in 1 .. Len(inbox'[q]) : inbox'[q][j] = inbox[q][i]
    OBVIOUS
  <2>1. CASE q = v
    <3>1. i - 1 \in 1 .. Len(inbox[v]) - 1 /\ (i - 1) + 1 = i
      BY <1>3, <2>1
    <3> QED BY <1>3, <2>1, <3>1
  <2>2. CASE q # v
    BY <1>3, <2>2
  <2> QED BY <2>1, <2>2
<1>7. Known /\ Unique
  BY DEF IInv, Wire
\* What is left is not the task that was served.
<1>8. \A q \in Vqpus : \A i \in 1 .. Len(inbox'[q]) :
        ~(inbox'[q][i].sample = task.sample /\ inbox'[q][i].sock = task.sock)
  <2> SUFFICES ASSUME NEW q \in Vqpus, NEW i \in 1 .. Len(inbox'[q]),
                      inbox'[q][i].sample = task.sample, inbox'[q][i].sock = task.sock
               PROVE  FALSE
    OBVIOUS
  <2>1. old(q, i) \in 1 .. Len(inbox[q]) /\ inbox'[q][i] = inbox[q][old(q, i)]
        /\ ~(q = v /\ old(q, i) = 1)
    BY <1>5
  <2>2. q = v /\ old(q, i) = 1
    <3> HIDE DEF old
    <3> QED BY <1>3, <1>4, <1>7, <2>1 DEF Unique
  <2> QED BY <2>1, <2>2
<1>9. task.sample \in 1 .. samples /\ task.sock \in 1 .. sockets
  BY <1>3, <1>4, <1>7 DEF Known
<1>10. Known'
  <2> HIDE DEF old
  <2> QED BY <1>1, <1>5, <1>7 DEF Known
<1>11. Unique'
  <2> SUFFICES ASSUME NEW p \in Vqpus, NEW q \in Vqpus,
                      NEW i \in 1 .. Len(inbox'[p]), NEW j \in 1 .. Len(inbox'[q]),
                      inbox'[p][i].sample = inbox'[q][j].sample,
                      inbox'[p][i].sock = inbox'[q][j].sock
               PROVE  p = q /\ i = j
    BY DEF Unique
  <2>1. /\ old(p, i) \in 1 .. Len(inbox[p]) /\ inbox'[p][i] = inbox[p][old(p, i)]
        /\ old(q, j) \in 1 .. Len(inbox[q]) /\ inbox'[q][j] = inbox[q][old(q, j)]
    BY <1>5
  <2>2. p = q /\ old(p, i) = old(q, j)
    <3> HIDE DEF old
    <3> QED BY <1>7, <2>1 DEF Unique
  <2>3. i \in Nat /\ j \in Nat
    <3>1. Len(inbox'[p]) \in Nat /\ Len(inbox'[q]) \in Nat
      BY <1>2, <1>3
    <3> QED BY <3>1
  <2> QED BY <2>2, <2>3
<1>12. \A k : Pending(k)' => Pending(k)
  <2> SUFFICES ASSUME NEW k, NEW q \in Vqpus, NEW i \in 1 .. Len(inbox'[q]),
                      inbox'[q][i].sock = k
               PROVE  Pending(k)
    BY DEF Pending
  <2>1. old(q, i) \in 1 .. Len(inbox[q]) /\ inbox'[q][i] = inbox[q][old(q, i)]
    BY <1>5
  <2> HIDE DEF old
  <2> QED BY <2>1 DEF Pending
<1>13. FreshSocket'
  BY <1>1, <1>12 DEF IInv, Wire, FreshSocket
<1>14. PICK ok \in BOOLEAN :
          /\ runs' = IF ok THEN [runs EXCEPT ![task.sample] = @ + 1] ELSE runs
          /\ mail' = IF task.sock = qpu.sock
                     THEN Append(mail, [ok |-> ok, circuit |-> task.circuit])
                     ELSE mail
  BY DEF Serve
<1> HIDE DEF old, task
<1>15. OnePending'
  <2> SUFFICES ASSUME ~Interrupts
               PROVE  /\ pc # "recv" => mail' = <<>> /\ ~Pending(qpu.sock)'
                      /\ pc = "recv" =>
                           \/ /\ mail' = <<>>
                              /\ \A q \in Vqpus : \A i \in 1 .. Len(inbox'[q]) :
                                    inbox'[q][i].sock = qpu.sock =>
                                        /\ inbox'[q][i].sample = samples
                                        /\ inbox'[q][i].circuit = asked
                           \/ /\ Len(mail') = 1 /\ mail'[1].circuit = asked
                              /\ ~Pending(qpu.sock)'
    BY <1>1 DEF OnePending, Pending
  <2>1. /\ pc # "recv" => mail = <<>> /\ ~Pending(qpu.sock)
        /\ pc = "recv" =>
             \/ /\ mail = <<>>
                /\ \A q \in Vqpus : \A i \in 1 .. Len(inbox[q]) :
                      inbox[q][i].sock = qpu.sock =>
                          inbox[q][i].sample = samples /\ inbox[q][i].circuit = asked
             \/ Len(mail) = 1 /\ mail[1].circuit = asked /\ ~Pending(qpu.sock)
    BY DEF IInv, Wire, OnePending
  <2>2. Pending(qpu.sock)' => Pending(qpu.sock)
    BY <1>1, <1>12 DEF Pending
  <2>3. CASE task.sock # qpu.sock
    <3>1. mail' = mail
      BY <1>14, <2>3
    <3> QED BY <1>5, <2>1, <2>2, <3>1
  <2>4. CASE task.sock = qpu.sock
    <3>1. Pending(qpu.sock)
      BY <1>3, <1>4, <2>4 DEF Pending
    <3>2. pc = "recv" /\ mail = <<>> /\ task.sample = samples /\ task.circuit = asked
      BY <1>3, <1>4, <2>1, <2>4, <3>1
    <3>3. mail' = <<[ok |-> ok, circuit |-> task.circuit]>>
      BY <1>14, <2>4, <3>2
    <3>4. Len(mail') = 1 /\ mail'[1].circuit = asked
      BY <3>2, <3>3
    <3>5. ~Pending(qpu.sock)'
      <4> SUFFICES ASSUME NEW q \in Vqpus, NEW i \in 1 .. Len(inbox'[q]),
                          inbox'[q][i].sock = qpu.sock
                   PROVE  FALSE
        BY <1>1 DEF Pending
      <4>1. inbox'[q][i].sample = samples
        BY <1>5, <2>1, <3>1, <3>2
      <4> QED BY <1>8, <2>4, <3>2, <4>1
    <3> QED BY <3>2, <3>4, <3>5
  <2> QED BY <2>3, <2>4
<1>16. Counted'
  <2> SUFFICES ASSUME NEW s \in 1 .. MaxSamples
               PROVE  runs'[s] + Cardinality(Open(s)') <= Budget(s)'
    BY DEF Counted
  <2>1. /\ runs[s] + Cardinality(Open(s)) <= Budget(s)
        /\ IsFiniteSet(Open(s)) /\ Cardinality(Open(s)) \in Nat
        /\ runs \in [1 .. MaxSamples -> Nat]
    BY OpenIsFinite DEF IInv, Client, TypeOK, Wire, Counted
  <2>2. Budget(s)' = Budget(s) /\ Budget(s) \in Nat
    BY <1>1 DEF Budget
  <2>3. Open(s)' \subseteq Open(s)
    <3> SUFFICES ASSUME NEW k \in Open(s)' PROVE k \in Open(s)
      OBVIOUS
    <3>1. PICK q \in Vqpus : \E i \in 1 .. Len(inbox'[q]) :
                  inbox'[q][i].sample = s /\ inbox'[q][i].sock = k
      BY DEF Open
    <3>2. k \in 1 .. sockets
      BY <1>1 DEF Open
    <3> QED BY <1>5, <3>1, <3>2 DEF Open
  <2>4. CASE s = task.sample
    <3>1. Open(s)' = Open(s) \ {task.sock}
      <4>1. task.sock \notin Open(s)'
        BY <1>8, <2>4 DEF Open
      <4>2. ASSUME NEW k \in Open(s), k # task.sock PROVE k \in Open(s)'
        <5>1. PICK q \in Vqpus : \E i \in 1 .. Len(inbox[q]) :
                  inbox[q][i].sample = s /\ inbox[q][i].sock = k
          BY DEF Open
        <5>2. \E j \in 1 .. Len(inbox'[q]) :
                  inbox'[q][j].sample = s /\ inbox'[q][j].sock = k
          <6>1. PICK i \in 1 .. Len(inbox[q]) :
                  inbox[q][i].sample = s /\ inbox[q][i].sock = k
            BY <5>1
          <6>2. ~(q = v /\ i = 1)
            BY <1>3, <4>2, <6>1
          <6> QED BY <1>6, <6>1, <6>2
        <5>3. k \in 1 .. sockets'
          BY <1>1 DEF Open
        <5> QED BY <5>2, <5>3 DEF Open
      <4> QED BY <2>3, <4>1, <4>2
    <3>2. task.sock \in Open(s)
      BY <1>3, <1>4, <1>9, <2>4 DEF Open
    <3>3. Cardinality(Open(s)') = Cardinality(Open(s)) - 1
      BY <2>1, <3>1, <3>2, FS_RemoveElement
    <3>4. runs'[s] \in {runs[s], runs[s] + 1}
      BY <1>14, <2>1, <2>4
    <3> QED BY <2>1, <2>2, <3>3, <3>4
  <2>5. CASE s # task.sample
    <3>1. runs'[s] = runs[s]
      BY <1>14, <2>1, <2>5
    <3>2. Cardinality(Open(s)') <= Cardinality(Open(s)) /\ Cardinality(Open(s)') \in Nat
      BY <2>1, <2>3, FS_Subset, FS_CardinalityType
    <3> QED BY <2>1, <2>2, <3>1, <3>2
  <2> QED BY <2>4, <2>5
<1> QED BY <1>10, <1>11, <1>13, <1>15, <1>16 DEF Wire

\* What a vQPU that dies held is pending no more.
LEMMA WireDie == ASSUME IInv, NEW v \in Vqpus, Die(v) PROVE Wire'
<1>1. /\ inbox' = [inbox EXCEPT ![v] = <<>>] /\ inbox \in [Vqpus -> Seq(Task)]
      /\ UNCHANGED <<pc, retried, qpu, sockets, asked, samples, mail, runs>>
  BY DEF Die, backend, caller, IInv, Client, TypeOK
<1>2. \A q \in Vqpus : \A i \in 1 .. Len(inbox'[q]) :
        i \in 1 .. Len(inbox[q]) /\ inbox'[q][i] = inbox[q][i]
  <2> SUFFICES ASSUME NEW q \in Vqpus, NEW i \in 1 .. Len(inbox'[q])
               PROVE  i \in 1 .. Len(inbox[q]) /\ inbox'[q][i] = inbox[q][i]
    OBVIOUS
  <2>1. CASE q = v
    BY <1>1, <2>1
  <2>2. CASE q # v
    BY <1>1, <2>2
  <2> QED BY <2>1, <2>2
<1>3. Known' /\ Unique'
  BY <1>1, <1>2 DEF IInv, Wire, Known, Unique
<1>4. \A k : Pending(k)' => Pending(k)
  BY <1>2 DEF Pending
<1>5. FreshSocket'
  BY <1>1, <1>4 DEF IInv, Wire, FreshSocket
<1>6. OnePending'
  <2> SUFFICES ASSUME ~Interrupts PROVE OnePending'
    BY DEF OnePending
  <2>1. Pending(qpu.sock)' => Pending(qpu.sock)
    BY <1>1, <1>4 DEF Pending
  <2> QED BY <1>1, <1>2, <2>1 DEF IInv, Wire, OnePending
<1>7. Counted'
  <2> SUFFICES ASSUME NEW s \in 1 .. MaxSamples
               PROVE  runs'[s] + Cardinality(Open(s)') <= Budget(s)'
    BY DEF Counted
  <2>1. /\ runs[s] + Cardinality(Open(s)) <= Budget(s)
        /\ IsFiniteSet(Open(s)) /\ Cardinality(Open(s)) \in Nat /\ runs[s] \in Nat
    BY OpenIsFinite DEF IInv, Client, TypeOK, Wire, Counted
  <2>2. Open(s)' \subseteq Open(s)
    BY <1>1, <1>2 DEF Open
  <2>3. Cardinality(Open(s)') <= Cardinality(Open(s)) /\ Cardinality(Open(s)') \in Nat
    BY <2>1, <2>2, FS_Subset, FS_CardinalityType
  <2>4. Budget(s)' = Budget(s) /\ Budget(s) \in Nat
    BY <1>1 DEF Budget
  <2> QED BY <1>1, <2>1, <2>3, <2>4
<1> QED BY <1>3, <1>5, <1>6, <1>7 DEF Wire

-----------------------------------------------------------------------------
(* The invariant *)

\* Each action, by what it does to the wires.
LEMMA WireStep == ASSUME IInv, [Next]_vars PROVE Wire'
<1>1. CASE \/ \E n \in Widths : Initialize(n)
           \/ \E g \in Gates : ApplyGate(g)
           \/ BeginBatch \/ EndBatch \/ SampleLocally
  <2>1. /\ pc = "idle" /\ pc' = "idle"
        /\ UNCHANGED <<inbox, mail, runs, samples, sockets, retried, qpu>>
    BY <1>1 DEF Initialize, ApplyGate, BeginBatch, EndBatch, SampleLocally, Return,
                backend, wire
  <2> QED BY <2>1, WireRests
<1>2. CASE Sample
  BY <1>2, WireSample
<1>3. CASE InSample \/ ReceiveInterrupted
  BY <1>3, WireSubmit, WireReceive, WireFails, WireRediscover, WireReplay DEF InSample
<1>4. CASE \E q \in Vqpus : Serve(q)
  BY <1>4, WireServe
<1>5. CASE Cluster
  <2>1. ASSUME NEW q \in Vqpus, Die(q) PROVE Wire'
    BY <2>1, WireDie
  <2>2. ASSUME NEW q \in Vqpus, Raise(q) \/ Deregister(q) PROVE Wire'
    BY <2>2, WireRests DEF Raise, Deregister, backend, caller, wire
  <2> QED BY <1>5, <2>1, <2>2 DEF Cluster
<1>6. CASE Rewrite \/ UNCHANGED vars
  BY <1>6, WireRests DEF Rewrite, vars, backend, caller, wire
<1> QED BY <1>1, <1>2, <1>3, <1>4, <1>5, <1>6 DEF Next

LEMMA InductiveStep == IInv /\ [Next]_vars => IInv'
<1> SUFFICES ASSUME IInv, [Next]_vars PROVE IInv'
  OBVIOUS
<1>1. Client'
  BY ClientBuilds, ClientSamples, ClientRests DEF Next
<1> QED BY <1>1, WireStep DEF IInv

LEMMA Invariant == Spec => []IInv
BY InitIInv, InductiveStep, PTL DEF Spec

-----------------------------------------------------------------------------
(* The results *)

\* Type correctness: the handle, the buffers and the replies keep their shape, no
\* circuit grows past its bound, and using_cunqa_ says whether there is a handle.
THEOREM CunqaTypeCorrect == Spec => []TypeOK
<1>1. IInv => TypeOK
  BY DEF IInv, Client
<1> QED BY <1>1, Invariant, PTL

\* Whatever call the device was lost in, the CPU fallback holds the caller's
\* circuit from then on: sample() and get_state() cannot disagree.
THEOREM FallbackIsCurrent == Spec => []FallbackHoldsCircuit
<1>1. IInv => FallbackHoldsCircuit
  BY DEF IInv, Client, Source
<1> QED BY <1>1, Invariant, PTL

\* One sample() makes vQPUs run its circuit at most twice, even when receives are
\* interrupted and tasks outlive the sockets they came from.
THEOREM AtMostTwoRuns == Spec => []RunsAtMostTwice
<1>1. IInv => RunsAtMostTwice
  <2> SUFFICES ASSUME IInv, NEW s \in 1 .. MaxSamples PROVE runs[s] <= 2
    BY DEF RunsAtMostTwice
  <2>1. runs[s] + Cardinality(Open(s)) <= Budget(s) /\ Cardinality(Open(s)) \in Nat
        /\ runs[s] \in Nat
    BY OpenIsFinite DEF IInv, Client, TypeOK, Wire, Counted
  <2>2. Budget(s) \in {0, 1, 2}
    BY DEF Budget
  <2> QED BY <2>1, <2>2
<1> QED BY <1>1, Invariant, PTL

\* Unless receives are interrupted, a step of the backend is a step of the
\* contract, or one it does not see.
LEMMA ContractStep ==
    ASSUME ~Interrupts, IInv, [Next]_vars
    PROVE  [Contract!RNext]_(Contract!rvars)
<1> SUFFICES Contract!RNext \/ UNCHANGED <<asked, usingCunqa, answer>>
  BY DEF Contract!rvars
<1>1. ASSUME NEW n \in Widths, Initialize(n) PROVE Contract!Begin(n)
  BY <1>1 DEF Initialize, Empty, Contract!Begin
<1>2. ASSUME NEW g \in Gates, ApplyGate(g) PROVE Contract!Extend(g)
  BY <1>2 DEF ApplyGate, WithGate, Contract!Extend
<1>3. ASSUME SampleLocally PROVE ~usingCunqa /\ Contract!AnswerBy("local")
  BY <1>3 DEF SampleLocally, Return, Contract!AnswerBy, IInv, Client, Source,
              FallbackHoldsCircuit
<1>4. ASSUME Throw, UNCHANGED usingCunqa PROVE Contract!AnswerError
  BY <1>4 DEF Throw, Contract!AnswerError, NoCircuit, Contract!NoCircuit
<1>5. ASSUME SubmissionFails, UNCHANGED usingCunqa
      PROVE  Contract!AnswerError \/ UNCHANGED <<asked, usingCunqa, answer>>
  BY <1>4, <1>5 DEF SubmissionFails, caller
<1>6. ASSUME Receive
      PROVE  Contract!RNext \/ UNCHANGED <<asked, usingCunqa, answer>>
  <2>1. CASE Head(mail).ok
    <3>1. /\ pc = "recv" /\ mail # <<>> /\ asked' = asked /\ usingCunqa' = usingCunqa
          /\ answer' = [by |-> "device", asked |-> asked, got |-> Head(mail).circuit]
      BY <1>6, <2>1 DEF Receive, Return
    <3>2. Head(mail).circuit = asked
      <4>1. mail[1].circuit = asked
        BY <3>1 DEF IInv, Wire, OnePending
      <4>2. Head(mail) = mail[1]
        BY <3>1, Shortened DEF IInv, Client, TypeOK
      <4> QED BY <4>1, <4>2
    <3>3. usingCunqa
      BY <3>1 DEF IInv, Client, Handle
    <3>4. Contract!AnswerBy("device")
      BY <3>1, <3>2 DEF Contract!AnswerBy
    <3> QED BY <3>3, <3>4 DEF Contract!RNext
  <2>2. CASE ~Head(mail).ok
    BY <1>5, <1>6, <2>2 DEF Receive, Contract!RNext
  <2> QED BY <2>1, <2>2
<1>7. ASSUME TranslationFails \/ ReceiveInterrupted
      PROVE  Contract!RNext \/ UNCHANGED <<asked, usingCunqa, answer>>
  BY <1>5, <1>7 DEF TranslationFails, ReceiveInterrupted, Contract!RNext
<1>8. ASSUME Rediscover
      PROVE  Contract!GoLocal \/ UNCHANGED <<asked, usingCunqa, answer>>
  <2>1. /\ asked' = asked /\ answer' = answer /\ usingCunqa
        /\ usingCunqa' = TRUE \/ usingCunqa' = FALSE
    BY <1>8 DEF Rediscover, DiscoverQpu, caller, IInv, Client, Handle
  <2>2. CASE usingCunqa' = TRUE
    <3>1. usingCunqa' = usingCunqa
      BY <2>1, <2>2 DEF IInv, Client, TypeOK
    <3> QED BY <2>1, <3>1
  <2>3. CASE usingCunqa' = FALSE
    BY <2>1, <2>3 DEF Contract!GoLocal
  <2> QED BY <2>1, <2>2, <2>3
<1>9. ASSUME Replay PROVE Contract!RNext
  <2>1. pc = "replay" /\ ~usingCunqa /\ buffer = asked /\ usingCunqa' = usingCunqa
    BY <1>9 DEF Replay, IInv, Client, Handle, Source
  <2>2. CASE buffer.width <= CpuLimit
    BY <1>9, <2>1, <2>2 DEF Replay, Return, Contract!RNext, Contract!AnswerBy
  <2>3. CASE ~(buffer.width <= CpuLimit)
    BY <1>4, <1>9, <2>1, <2>3 DEF Replay, Contract!RNext
  <2> QED BY <2>2, <2>3
<1>10. ASSUME \/ BeginBatch \/ EndBatch \/ Sample \/ Submit
              \/ \E q \in Vqpus : Serve(q)
              \/ Cluster \/ Rewrite \/ UNCHANGED vars
       PROVE  UNCHANGED <<asked, usingCunqa, answer>>
  BY <1>10 DEF BeginBatch, EndBatch, Sample, Submit, Serve, Cluster, Raise, Die,
               Deregister, Rewrite, vars, backend, caller
<1> QED BY <1>1, <1>2, <1>3, <1>6, <1>7, <1>8, <1>9, <1>10
        DEF Next, InSample, Contract!RNext

\* As long as no receive is interrupted, the backend implements the contract of
\* RemoteBackend: every answer is of the circuit that was asked for, from the
\* device before it is given up and from the fallback for good afterwards.
THEOREM CunqaImplementsContract ==
    ASSUME ~Interrupts
    PROVE  Spec => ImplementsContract
<1>1. Init => Contract!RInit
  BY DEF Init, Contract!RInit, NoCircuit, Contract!NoCircuit, NoAnswer, Contract!NoAnswer
<1>2. IInv /\ [Next]_vars => [Contract!RNext]_(Contract!rvars)
  BY ContractStep
<1> QED BY <1>1, <1>2, Invariant, PTL DEF Spec, ImplementsContract, Contract!RSpec
=============================================================================
