---------------------------- MODULE CunqaBackend ----------------------------
(***************************************************************************)
(* CUNQABackend: circuits are buffered and submitted whole to the first    *)
(* vQPU of the registry over a ZeroMQ DEALER socket; a failed submission   *)
(* re-probes the registry, resubmits once, or falls back for good to the   *)
(* CPU simulator.  The vQPU processes, their registry file and the network *)
(* run concurrently and are external.                                      *)
(***************************************************************************)
EXTENDS Naturals, Sequences, FiniteSets

CONSTANTS
    Vqpus,        \* vQPUs, numbered in the order of their registry keys
    Capacity,     \* max_qubits of each
    Widths,       \* numbers of qubits the caller asks for
    Translatable, \* gates deconstruct_gate and gate_to_instruction handle
    Exotic,       \* gates one of them throws on
    CpuLimit,     \* widest circuit the CPU fallback accepts (30 in the code)
    Interrupts,   \* whether a blocking receive may fail (EINTR)
    MaxDeaths,    \* vQPU processes that die (a bound)
    MaxCircuits,  \* calls of initialize() (a bound)
    MaxGates,     \* gates in a circuit (a bound)
    MaxSamples    \* calls of sample() (a bound)

ASSUME CunqaAssumption ==
    /\ Vqpus \subseteq Nat
    /\ Capacity \in [Vqpus -> Nat]
    /\ Widths \subseteq Nat \ {0}
    /\ Translatable \cap Exotic = {}
    /\ CpuLimit \in Nat
    /\ Interrupts \in BOOLEAN
    /\ {MaxDeaths, MaxCircuits, MaxGates, MaxSamples} \subseteq Nat

VARIABLES
    pc,          \* "idle" between calls, else the point reached in sample()
    retried,     \* sample() is past its catch block
    buffer,      \* num_qubits_ and gate_buffer_, with the initialize() they are of
    usingCunqa,  \* using_cunqa_
    qpu,         \* qpu_: the vQPU and the socket connected to it, or NoHandle
    sockets,     \* sockets opened so far: the next identity
    fallback,    \* the circuit whose state the CPU fallback holds
    asked,       \* the circuit the caller has built since its last initialize()
    ready,       \* that initialize() succeeded, and no sample() of it has thrown
    samples,     \* calls of sample() so far
    answer,      \* the last answer: by whom, to which circuit, of which circuit
    batch,       \* expectation_batch in progress ("off" if none): its next call
    rowsBy,      \* who answered the rows of the current or last batch
    life,        \* each vQPU process: "unborn", "up" or "down"
    registry,    \* vQPUs listed in qpus.json
    readable,    \* qpus.json can be opened and parsed
    inbox,       \* tasks each vQPU has received and not yet served
    mail,        \* replies to the open socket, in order
    runs         \* how often a vQPU ran the circuit of each sample()

backend == <<pc, retried, buffer, usingCunqa, qpu, sockets, fallback>>
caller  == <<asked, ready, samples, answer, batch, rowsBy>>
cluster == <<life, registry, readable>>
wire    == <<inbox, mail, runs>>
vars    == <<pc, retried, buffer, usingCunqa, qpu, sockets, fallback,
             asked, ready, samples, answer, batch, rowsBy,
             life, registry, readable, inbox, mail, runs>>

Gates == Translatable \cup Exotic

NoHandle == [vqpu |-> 0, sock |-> 0]
NoCircuit == [id |-> 0, width |-> 0, gates |-> <<>>]
NoAnswer == [by |-> "nobody", asked |-> NoCircuit, got |-> NoCircuit]

Circuit == [id : Nat, width : Nat, gates : Seq(Gates)]
Task == [sock : Nat, sample : Nat, circuit : Circuit]
Reply == [ok : BOOLEAN, circuit : Circuit]

TypeOK ==
    /\ pc \in {"idle", "send", "recv", "rediscover", "replay"}
    /\ retried \in BOOLEAN /\ usingCunqa \in BOOLEAN /\ ready \in BOOLEAN
    /\ buffer \in Circuit /\ fallback \in Circuit /\ asked \in Circuit
    /\ qpu \in [vqpu : Vqpus \cup {0}, sock : Nat]
    /\ usingCunqa <=> qpu # NoHandle   \* the flag guards every use of qpu_
    /\ sockets \in Nat /\ samples \in 0 .. MaxSamples
    /\ answer \in [by : {"nobody", "device", "local"}, asked : Circuit,
                   got : Circuit]
    /\ batch \in {"off", "init", "build"}
    /\ rowsBy \subseteq {"device", "local"}
    /\ life \in [Vqpus -> {"unborn", "up", "down"}]
    /\ registry \subseteq Vqpus /\ readable \in BOOLEAN
    /\ inbox \in [Vqpus -> Seq(Task)]
    /\ mail \in Seq(Reply)
    /\ runs \in [1 .. MaxSamples -> Nat]
    /\ \A c \in {buffer, fallback, asked} : Len(c.gates) <= MaxGates

-----------------------------------------------------------------------------
(* Discovery *)

\* candidates.front(): nlohmann's objects iterate in key order.
Front(S) == CHOOSE q \in S : \A r \in S : q <= r

DiscoverQpu_KeepsFlag ==
    /\ mail' = <<>>
    /\ IF readable /\ registry # {}
       THEN /\ usingCunqa' = TRUE
            /\ qpu' = [vqpu |-> Front(registry), sock |-> sockets + 1]
            /\ sockets' = sockets + 1
       ELSE qpu' = NoHandle /\ UNCHANGED <<usingCunqa, sockets>>

\* discover_qpu(): a new handle, with a socket of its own, or none for good; an
\* unreadable registry is the same as an empty one.  Replies to a socket that is
\* closed are lost.
DiscoverQpu ==
    /\ mail' = <<>>
    /\ IF readable /\ registry # {}
       THEN /\ usingCunqa' = TRUE
            /\ qpu' = [vqpu |-> Front(registry), sock |-> sockets + 1]
            /\ sockets' = sockets + 1
       ELSE /\ usingCunqa' = FALSE /\ qpu' = NoHandle /\ UNCHANGED sockets

\* The constructor discovers whatever the registry lists at that moment.
Init ==
    /\ pc = "idle" /\ retried = FALSE
    /\ buffer = NoCircuit /\ fallback = NoCircuit /\ asked = NoCircuit
    /\ ready = FALSE /\ samples = 0 /\ answer = NoAnswer
    /\ batch = "off" /\ rowsBy = {}
    /\ life \in [Vqpus -> {"unborn", "up"}]
    /\ registry = {q \in Vqpus : life[q] = "up"} /\ readable = TRUE
    /\ usingCunqa = (registry # {})
    /\ qpu = IF usingCunqa THEN [vqpu |-> Front(registry), sock |-> 1]
                           ELSE NoHandle
    /\ sockets = IF usingCunqa THEN 1 ELSE 0
    /\ inbox = [q \in Vqpus |-> <<>>] /\ mail = <<>>
    /\ runs = [s \in 1 .. MaxSamples |-> 0]

-----------------------------------------------------------------------------
(* Building a circuit *)

Empty(n) == [id |-> asked.id + 1, width |-> n, gates |-> <<>>]

\* The calls expectation_batch makes are all for the ansatz's qubits.
SameAnsatz(n) == batch = "init" /\ rowsBy # {} => n = asked.width

Initialize_KeepsBuffer(n) ==
    /\ pc = "idle" /\ batch # "build" /\ SameAnsatz(n) /\ asked.id < MaxCircuits
    /\ buffer' = [Empty(n) EXCEPT !.gates = buffer.gates] /\ asked' = Empty(n)
    /\ IF usingCunqa
       THEN /\ ready' = (n <= Capacity[qpu.vqpu])
            /\ UNCHANGED fallback
       ELSE /\ ready' = (n <= CpuLimit)
            /\ fallback' = IF n <= CpuLimit THEN Empty(n) ELSE fallback
    /\ batch' = IF batch = "off" \/ ~ready' THEN "off" ELSE "build"
    /\ UNCHANGED <<pc, retried, usingCunqa, qpu, sockets, samples, answer,
                   rowsBy, cluster, wire>>

\* initialize(): the buffer is cleared before anything can throw.
Initialize(n) ==
    /\ pc = "idle" /\ batch # "build" /\ SameAnsatz(n) /\ asked.id < MaxCircuits
    /\ buffer' = Empty(n) /\ asked' = Empty(n)
    /\ IF usingCunqa
       THEN /\ ready' = (n <= Capacity[qpu.vqpu])
            /\ UNCHANGED fallback
       ELSE /\ ready' = (n <= CpuLimit)
            /\ fallback' = IF n <= CpuLimit THEN Empty(n) ELSE fallback
    /\ batch' = IF batch = "off" \/ ~ready' THEN "off" ELSE "build"
    /\ UNCHANGED <<pc, retried, usingCunqa, qpu, sockets, samples, answer,
                   rowsBy, cluster, wire>>

WithGate(c, g) == [c EXCEPT !.gates = Append(@, g)]

\* apply_gate(): buffered for the device, executed by the fallback.
ApplyGate(g) ==
    /\ pc = "idle" /\ ready /\ batch # "init" /\ Len(asked.gates) < MaxGates
    /\ asked' = WithGate(asked, g)
    /\ IF usingCunqa
       THEN buffer' = WithGate(buffer, g) /\ UNCHANGED fallback
       ELSE fallback' = WithGate(fallback, g) /\ UNCHANGED buffer
    /\ UNCHANGED <<pc, retried, usingCunqa, qpu, sockets, ready, samples,
                   answer, batch, rowsBy, cluster, wire>>

\* expectation_batch() on the device: rows of initialize(), apply_gate() and
\* sample() calls.  (Without a vQPU the fallback evaluates the batch itself, on
\* buffers of its own.)
BeginBatch ==
    /\ pc = "idle" /\ batch = "off" /\ usingCunqa
    /\ batch' = "init" /\ rowsBy' = {}
    /\ UNCHANGED <<backend, asked, ready, samples, answer, cluster, wire>>

EndBatch ==
    /\ pc = "idle" /\ batch = "init"
    /\ batch' = "off"
    /\ UNCHANGED <<backend, asked, ready, samples, answer, rowsBy, cluster,
                   wire>>

-----------------------------------------------------------------------------
(* sample() *)

\* A row is done; expectation_batch goes on to the next one.
Return(who, circuit) ==
    /\ pc' = "idle"
    /\ answer' = [by |-> who, asked |-> asked, got |-> circuit]
    /\ batch' = IF batch = "off" THEN "off" ELSE "init"
    /\ rowsBy' = IF batch = "off" THEN rowsBy ELSE rowsBy \cup {who}
    /\ UNCHANGED <<asked, ready, samples>>

\* The exception reaches the caller and ends a batch.  The backend's callers,
\* QuantumRuntime::sample and shot_based_expectation, never sample again without
\* an initialize().
Throw ==
    /\ pc' = "idle"
    /\ ready' = FALSE
    /\ answer' = [by |-> "nobody", asked |-> asked, got |-> NoCircuit]
    /\ batch' = "off"
    /\ UNCHANGED <<asked, samples, rowsBy>>

SubmissionFails_NoLimit ==
    pc' = "rediscover" /\ UNCHANGED <<retried, caller>>

\* An exception out of run_on_cunqa: caught the first time only.
SubmissionFails ==
    IF retried
    THEN Throw /\ UNCHANGED retried
    ELSE pc' = "rediscover" /\ UNCHANGED <<retried, caller>>

SampleLocally ==
    /\ pc = "idle" /\ ready /\ batch # "init" /\ ~usingCunqa
    /\ Return("local", fallback)
    /\ UNCHANGED <<retried, buffer, usingCunqa, qpu, sockets, fallback,
                   cluster, wire>>

Sample ==
    /\ pc = "idle" /\ ready /\ batch # "init" /\ usingCunqa
    /\ samples < MaxSamples
    /\ pc' = "send" /\ retried' = FALSE /\ samples' = samples + 1
    /\ UNCHANGED <<buffer, usingCunqa, qpu, sockets, fallback, asked, ready,
                   answer, batch, rowsBy, cluster, wire>>

\* A gate that is malformed for its decomposition, or that no instruction is for.
Untranslatable == \E i \in 1 .. Len(buffer.gates) : buffer.gates[i] \in Exotic

Submit_SkipsEmpty ==
    /\ pc = "send" /\ ~Untranslatable
    /\ pc' = "recv"
    /\ inbox' = IF life[qpu.vqpu] = "up" /\ buffer.gates # <<>>
                THEN [inbox EXCEPT ![qpu.vqpu] =
                        Append(@, [sock |-> qpu.sock, sample |-> samples,
                                   circuit |-> buffer])]
                ELSE inbox
    /\ UNCHANGED <<retried, buffer, usingCunqa, qpu, sockets, fallback, caller,
                   cluster, mail, runs>>

\* run_on_cunqa() up to recv: the instructions are built before anything is
\* sent.  A vQPU that is gone receives nothing, and the send still succeeds.
Submit ==
    /\ pc = "send" /\ ~Untranslatable
    /\ pc' = "recv"
    /\ inbox' = IF life[qpu.vqpu] = "up"
                THEN [inbox EXCEPT ![qpu.vqpu] =
                        Append(@, [sock |-> qpu.sock, sample |-> samples,
                                   circuit |-> buffer])]
                ELSE inbox
    /\ UNCHANGED <<retried, buffer, usingCunqa, qpu, sockets, fallback, caller,
                   cluster, mail, runs>>

TranslationFails ==
    /\ pc = "send" /\ Untranslatable
    /\ SubmissionFails
    /\ UNCHANGED <<buffer, usingCunqa, qpu, sockets, fallback, cluster, wire>>

\* The next reply on the socket, whatever task it is the reply to.
Receive ==
    /\ pc = "recv" /\ mail # <<>>
    /\ mail' = Tail(mail)
    /\ IF Head(mail).ok
       THEN Return("device", Head(mail).circuit) /\ UNCHANGED retried
       ELSE SubmissionFails
    /\ UNCHANGED <<buffer, usingCunqa, qpu, sockets, fallback, cluster, inbox,
                   runs>>

\* No receive timeout is set: only a signal ends a receive without a reply.
ReceiveInterrupted ==
    /\ Interrupts /\ pc = "recv"
    /\ SubmissionFails
    /\ UNCHANGED <<buffer, usingCunqa, qpu, sockets, fallback, cluster, wire>>

Rediscover ==
    /\ pc = "rediscover"
    /\ DiscoverQpu
    /\ retried' = TRUE
    /\ pc' = IF usingCunqa' THEN "send" ELSE "replay"
    /\ UNCHANGED <<buffer, fallback, caller, cluster, inbox, runs>>

Replay_NoGates ==
    /\ pc = "replay"
    /\ IF buffer.width <= CpuLimit
       THEN /\ fallback' = [buffer EXCEPT !.gates = <<>>]
            /\ Return("local", [buffer EXCEPT !.gates = <<>>])
       ELSE Throw /\ UNCHANGED fallback
    /\ UNCHANGED <<retried, buffer, usingCunqa, qpu, sockets, cluster, wire>>

\* The fallback runs the buffered circuit, unless it is too wide for it.
Replay ==
    /\ pc = "replay"
    /\ IF buffer.width <= CpuLimit
       THEN fallback' = buffer /\ Return("local", buffer)
       ELSE Throw /\ UNCHANGED fallback
    /\ UNCHANGED <<retried, buffer, usingCunqa, qpu, sockets, cluster, wire>>

\* What sample() does by itself.
InSample ==
    Submit \/ TranslationFails \/ Receive \/ Rediscover \/ Replay

-----------------------------------------------------------------------------
(* The vQPUs, their registry and their replies: external *)

\* A vQPU runs its oldest task, or reports an error.
Serve(q) ==
    /\ life[q] = "up" /\ inbox[q] # <<>>
    /\ LET task == Head(inbox[q]) IN
       \E ok \in BOOLEAN :
          /\ runs' = IF ok THEN [runs EXCEPT ![task.sample] = @ + 1] ELSE runs
          /\ mail' = IF task.sock = qpu.sock
                     THEN Append(mail, [ok |-> ok, circuit |-> task.circuit])
                     ELSE mail
    /\ inbox' = [inbox EXCEPT ![q] = Tail(@)]
    /\ UNCHANGED <<backend, caller, cluster>>

\* qraise
Raise(q) ==
    /\ life[q] = "unborn"
    /\ life' = [life EXCEPT ![q] = "up"]
    /\ registry' = registry \cup {q}
    /\ UNCHANGED <<backend, caller, readable, wire>>

\* The allocation's time box expires: what the process was doing is lost.
Die(q) ==
    /\ life[q] = "up"
    /\ Cardinality({r \in Vqpus : life[r] = "down"}) < MaxDeaths
    /\ life' = [life EXCEPT ![q] = "down"]
    /\ inbox' = [inbox EXCEPT ![q] = <<>>]
    /\ UNCHANGED <<backend, caller, registry, readable, mail, runs>>

\* Its registry entry goes, before or after the process does.
Deregister(q) ==
    /\ q \in registry
    /\ registry' = registry \ {q}
    /\ UNCHANGED <<backend, caller, life, readable, wire>>

\* The registry is being rewritten, or is complete again.
Rewrite ==
    /\ readable' = ~readable
    /\ UNCHANGED <<backend, caller, life, registry, wire>>

Cluster == \E q \in Vqpus : Raise(q) \/ Die(q) \/ Deregister(q)

Next ==
    \/ \E n \in Widths : Initialize(n)
    \/ \E g \in Gates : ApplyGate(g)
    \/ BeginBatch \/ EndBatch
    \/ SampleLocally \/ Sample
    \/ InSample
    \/ ReceiveInterrupted
    \/ \E q \in Vqpus : Serve(q)
    \/ Cluster
    \/ Rewrite

Spec == Init /\ [][Next]_vars

\* The calling thread runs whenever it can, and so does a vQPU that is up.
FairSpec == Spec /\ WF_vars(InSample) /\ \A q \in Vqpus : WF_vars(Serve(q))

-----------------------------------------------------------------------------
(* What the backend promises *)

\* The state the fallback would report is that of the caller's circuit: sample()
\* never answers from a simulation that get_state() and probabilities() would
\* contradict, whichever call the device was lost in.
FallbackHoldsCircuit ==
    ~usingCunqa /\ pc = "idle" /\ ready => fallback = asked

\* One sample() runs its circuit on vQPUs at most twice: the resubmission after
\* a failure is not itself retried.
RunsAtMostTwice == \A s \in 1 .. MaxSamples : runs[s] <= 2

Contract == INSTANCE RemoteBackend
    WITH current <- asked, local <- ~usingCunqa

\* The backend implements the contract of RemoteBackend: nobody is answered with
\* the results of another circuit.
ImplementsContract == Contract!RSpec

\* Every sample() returns or throws: with what the README says, "Fallback to
\* CPUBackend happens transparently whenever ... a submission fails at run time
\* (e.g. a time-boxed qraise allocation expired mid-session)".
SampleReturns == pc # "idle" ~> pc = "idle"

\* A batch is answered by one source: expectation_batch "doesn't catch a
\* mid-batch submission failure and silently switch some rows to the fallback".
BatchNotMixed == Cardinality(rowsBy) <= 1

\* No vQPU is sent a circuit wider than it supports, the case in which
\* initialize() throws "circuit needs n qubits but the discovered vQPU only
\* supports m".
FitsVqpu ==
    \A q \in Vqpus : \A i \in 1 .. Len(inbox[q]) :
        inbox[q][i].circuit.width <= Capacity[q]
=============================================================================
