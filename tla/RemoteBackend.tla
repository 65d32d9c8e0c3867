--------------------------- MODULE RemoteBackend ---------------------------
(***************************************************************************)
(* What a backend that stands in front of a remote QPU promises the        *)
(* runtime: whoever answers a sample, the device or the local simulator,   *)
(* answers for the circuit built since the last initialize(); and once the *)
(* backend has gone local it stays local.                                  *)
(***************************************************************************)
EXTENDS Naturals, Sequences

CONSTANTS
    Widths,    \* numbers of qubits the caller asks for
    Gates      \* gates the caller applies

VARIABLES
    current,   \* the circuit under construction
    local,     \* answers come from the local simulator
    answer     \* the last answer: who gave it, what was asked, what was run

rvars == <<current, local, answer>>

NoCircuit == [id |-> 0, width |-> 0, gates |-> <<>>]

NoAnswer == [by |-> "nobody", asked |-> NoCircuit, got |-> NoCircuit]

RInit == current = NoCircuit /\ local \in BOOLEAN /\ answer = NoAnswer

\* initialize(): a new, empty circuit.
Begin(n) ==
    /\ current' = [id |-> current.id + 1, width |-> n, gates |-> <<>>]
    /\ UNCHANGED <<local, answer>>

Extend(g) ==
    /\ current' = [current EXCEPT !.gates = Append(@, g)]
    /\ UNCHANGED <<local, answer>>

\* The device is given up for good.
GoLocal == ~local /\ local' = TRUE /\ UNCHANGED <<current, answer>>

AnswerBy(who) ==
    /\ answer' = [by |-> who, asked |-> current, got |-> current]
    /\ UNCHANGED <<current, local>>

\* sample() throws.
AnswerError ==
    /\ answer' = [by |-> "nobody", asked |-> current, got |-> NoCircuit]
    /\ UNCHANGED <<current, local>>

RNext ==
    \/ \E n \in Widths : Begin(n)
    \/ \E g \in Gates : Extend(g)
    \/ GoLocal
    \/ ~local /\ AnswerBy("device")
    \/ local /\ AnswerBy("local")
    \/ AnswerError

RSpec == RInit /\ [][RNext]_rvars
=============================================================================
