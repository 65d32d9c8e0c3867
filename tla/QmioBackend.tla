---------------------------- MODULE QmioBackend ----------------------------
(***************************************************************************)
(* QmioBackend whole: its constructor, the dispatcher QPUBackend it        *)
(* derives from, and the transport its submit_circuit() goes through.  The *)
(* dispatcher runs on the transport's thread: it calls the transport and   *)
(* waits for it to return.                                                 *)
(***************************************************************************)
EXTENDS QmioTransport, Sequences

CONSTANTS
    Widths,       \* numbers of qubits the caller asks for
    Gates,        \* gates the caller applies
    Exotic,       \* those of them that OpenQASM 2.0 does not have, U for one
    CpuLimit,     \* widest circuit the CPU fallback accepts (30 in the code)
    Environments, \* what the constructor may find
    MaxCircuits,  \* calls of initialize() (a bound)
    MaxGates      \* gates in a circuit (a bound)

\* Constructor argument, $ZMQ_SERVER, $STORE, and the first line of the registry
\* file under $STORE.  "" is the empty string, "unset" or "absent" is nothing.
AllEnvironments ==
    [argument : {"", "tcp"}, zmqServer : {"unset", "", "tcp"},
     store : {"unset", "set"}, file : {"absent", "", "tcp"}]

ASSUME QmioBackendAssumption ==
    /\ Environments \subseteq AllEnvironments
    /\ Widths \subseteq Nat \ {0}
    /\ Exotic \subseteq Gates
    /\ CpuLimit \in Nat
    /\ MaxCircuits \in Nat /\ MaxGates \in Nat

VARIABLES
    env,          \* what the constructor finds in its environment
    available,    \* device_available_
    stage,        \* "idle", or "submitting" while submit_circuit() runs
    carried,      \* the circuit each call's request carries
    received,     \* the circuit whose counts the transport returned
    buffer,       \* num_qubits_ and gate_buffer_
    fallback,     \* the circuit whose state the CPU fallback holds
    asked,        \* the circuit the caller has built since its last initialize()
    ready,        \* that initialize() succeeded, and no sample() of it has thrown
    answer,       \* the last answer: by whom, to which circuit, of which circuit
    batch,        \* expectation_batch in progress ("off" if none): its next call
    rowsBy        \* who answered the rows of the current or last batch

transport == vars
building  == <<buffer, fallback, asked, ready>>
answering == <<answer, batch, rowsBy>>
bvars == <<vars, env, available, stage, carried, received, buffer, fallback,
           asked, ready, answer, batch, rowsBy>>

NoCircuit == [id |-> 0, width |-> 0, gates |-> <<>>]
NoAnswer == [by |-> "nobody", asked |-> NoCircuit, got |-> NoCircuit]

Circuit == [id : 0 .. MaxCircuits, width : Widths \cup {0}, gates : Seq(Gates)]

BTypeOK ==
    /\ env \in Environments
    /\ available \in BOOLEAN /\ ready \in BOOLEAN
    /\ stage \in {"idle", "submitting"}
    /\ carried \in [Calls -> Circuit]
    /\ received \in Circuit
    /\ {buffer, fallback, asked} \subseteq Circuit
    /\ \A c \in {buffer, fallback, asked} : Len(c.gates) <= MaxGates
    /\ answer.by \in {"nobody", "device", "local"}
    /\ {answer.asked, answer.got} \subseteq Circuit
    /\ batch \in {"off", "init", "build"}
    /\ rowsBy \subseteq {"device", "local"}

-----------------------------------------------------------------------------
(* The constructor *)

\* qpu_registry_path() throws without $STORE, and is asked for it only when
\* neither the argument nor $ZMQ_SERVER decides.
ConstructorThrows(e) ==
    e.argument = "" /\ e.zmqServer = "unset" /\ e.store = "unset"

\* One address is compiled in, for when the registry file cannot be opened.
Endpoint(e) ==
    IF e.argument # "" THEN e.argument
    ELSE IF e.zmqServer # "unset" THEN e.zmqServer
    ELSE IF e.file # "absent" THEN e.file
    ELSE "tcp://10.255.3.70:5556"

BInit ==
    /\ Init
    /\ env \in {e \in Environments : ~ConstructorThrows(e)}
    /\ available = (Endpoint(env) # "")
    /\ stage = "idle"
    /\ carried = [c \in Calls |-> NoCircuit] /\ received = NoCircuit
    /\ buffer = NoCircuit /\ fallback = NoCircuit /\ asked = NoCircuit
    /\ ready = FALSE
    /\ answer = NoAnswer /\ batch = "off" /\ rowsBy = {}

-----------------------------------------------------------------------------
(* Building a circuit *)

Empty(n) == [id |-> asked.id + 1, width |-> n, gates |-> <<>>]

\* The calls expectation_batch makes are all for the ansatz's qubits.
SameAnsatz(n) == batch = "init" /\ rowsBy # {} => n = asked.width

Initialize_KeepsBuffer(n) ==
    /\ stage = "idle" /\ batch # "build" /\ SameAnsatz(n)
    /\ asked.id < MaxCircuits
    /\ buffer' = [Empty(n) EXCEPT !.gates = buffer.gates]
    /\ asked' = Empty(n)
    /\ fallback' = IF ~available /\ n <= CpuLimit THEN Empty(n) ELSE fallback
    /\ ready' = (available \/ n <= CpuLimit)
    /\ batch' = IF batch = "off" \/ ~ready' THEN "off" ELSE "build"
    /\ UNCHANGED <<transport, env, available, stage, carried, received, answer,
                   rowsBy>>

\* initialize(): the buffer is cleared before the fallback can throw.  The width
\* is not compared with anything the device supports.
Initialize(n) ==
    /\ stage = "idle" /\ batch # "build" /\ SameAnsatz(n)
    /\ asked.id < MaxCircuits
    /\ buffer' = Empty(n)
    /\ asked' = Empty(n)
    /\ fallback' = IF ~available /\ n <= CpuLimit THEN Empty(n) ELSE fallback
    /\ ready' = (available \/ n <= CpuLimit)
    /\ batch' = IF batch = "off" \/ ~ready' THEN "off" ELSE "build"
    /\ UNCHANGED <<transport, env, available, stage, carried, received, answer,
                   rowsBy>>

WithGate(c, g) == [c EXCEPT !.gates = Append(@, g)]

ApplyGate(g) ==
    /\ stage = "idle" /\ ready /\ batch # "init"
    /\ Len(asked.gates) < MaxGates
    /\ asked' = WithGate(asked, g)
    /\ IF available
       THEN buffer' = WithGate(buffer, g) /\ UNCHANGED fallback
       ELSE fallback' = WithGate(fallback, g) /\ UNCHANGED buffer
    /\ UNCHANGED <<transport, env, available, stage, carried, received, ready,
                   answering>>

\* expectation_batch() on the device (without one the fallback evaluates it).
BeginBatch ==
    /\ stage = "idle" /\ batch = "off" /\ available
    /\ batch' = "init" /\ rowsBy' = {}
    /\ UNCHANGED <<transport, env, available, stage, carried, received,
                   building, answer>>

EndBatch ==
    /\ stage = "idle" /\ batch = "init"
    /\ batch' = "off"
    /\ UNCHANGED <<transport, env, available, stage, carried, received,
                   building, answer, rowsBy>>

-----------------------------------------------------------------------------
(* sample() *)

AnswerBy(who, circuit) ==
    /\ answer' = [by |-> who, asked |-> asked, got |-> circuit]
    /\ batch' = IF batch = "off" THEN "off" ELSE "init"
    /\ rowsBy' = IF batch = "off" THEN rowsBy ELSE rowsBy \cup {who}
    /\ UNCHANGED ready

\* The exception reaches the caller and ends a batch; the runtime and
\* shot_based_expectation never sample again without an initialize().
Rethrow ==
    /\ answer' = [by |-> "nobody", asked |-> asked, got |-> NoCircuit]
    /\ batch' = "off"
    /\ ready' = FALSE
    /\ UNCHANGED rowsBy

SampleLocally ==
    /\ stage = "idle" /\ ready /\ batch # "init" /\ ~available
    /\ AnswerBy("local", fallback)
    /\ UNCHANGED <<transport, env, available, stage, carried, received, buffer,
                   fallback, asked>>

Untranslatable == \E i \in 1 .. Len(buffer.gates) : buffer.gates[i] \in Exotic

\* submit_circuit(): the request is encoded from the buffer and handed to
\* send_and_receive().
Submit ==
    /\ stage = "idle" /\ ready /\ batch # "init" /\ available
    /\ ~Untranslatable
    /\ Call
    /\ stage' = "submitting"
    /\ carried' = [carried EXCEPT ![call'] = buffer]
    /\ UNCHANGED <<env, available, received, building, answering>>

\* to_qasm2() throws before the transport is called.
TranslationFails ==
    /\ stage = "idle" /\ ready /\ batch # "init" /\ available
    /\ Untranslatable
    /\ Rethrow
    /\ UNCHANGED <<transport, env, available, stage, carried, received, buffer,
                   fallback, asked>>

\* The thread inside send_and_receive(), and the world around it.
Transport ==
    /\ \/ (Proceed \/ Environment) /\ UNCHANGED received
       \/ \E m \in replies : \E d \in 0 .. RecvTimeout :
             Recv(m, d) /\ received' = carried[m.call]
    /\ UNCHANGED <<env, available, stage, carried, building, answering>>

Submitted ==
    /\ stage = "submitting" /\ pc = "idle" /\ outcome[call] = "answered"
    /\ stage' = "idle"
    /\ AnswerBy("device", received)
    /\ UNCHANGED <<transport, env, available, carried, received, buffer,
                   fallback, asked>>

SubmissionFails_FallsBack ==
    /\ stage = "submitting" /\ pc = "idle" /\ outcome[call] # "answered"
    /\ stage' = "idle"
    /\ available' = FALSE
    /\ fallback' = buffer
    /\ AnswerBy("local", buffer)
    /\ UNCHANGED <<transport, env, carried, received, buffer, asked>>

\* recheck_device() is the base class's no-op: the device is still considered
\* available, and the exception is rethrown.
SubmissionFails ==
    /\ stage = "submitting" /\ pc = "idle" /\ outcome[call] # "answered"
    /\ stage' = "idle"
    /\ Rethrow
    /\ UNCHANGED <<transport, env, available, carried, received, buffer,
                   fallback, asked>>

BNext ==
    \/ \E n \in Widths : Initialize(n)
    \/ \E g \in Gates : ApplyGate(g)
    \/ BeginBatch \/ EndBatch
    \/ SampleLocally \/ Submit \/ TranslationFails \/ Transport \/ Submitted
    \/ SubmissionFails

BSpec == BInit /\ [][BNext]_bvars

-----------------------------------------------------------------------------
(* What the backend promises *)

\* A failed run on the QPU is never answered by a simulation: whoever gets an
\* answer from the fallback never had a device to submit to.
NoSilentSimulation == answer.by = "local" => call = 0

Contract == INSTANCE RemoteBackend WITH current <- asked, local <- ~available

\* The backend implements the contract of RemoteBackend: what the device answered
\* is the circuit the caller built since its last initialize(), through buffering,
\* submission, retries and stray replies.
ImplementsContract == Contract!RSpec
=============================================================================
