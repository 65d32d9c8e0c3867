---------------------------- MODULE Translations ----------------------------
(***************************************************************************)
(* How the remote backends spell a gate: to_qasm2() for QMIO,              *)
(* deconstruct_gate() and gate_to_instruction() for CUNQA.  A spelling is  *)
(* a sequence of instructions, empty when the translation throws.          *)
(***************************************************************************)
EXTENDS Circuits

CONSTANT Grain   \* what an angle printed in QASM is a multiple of

ASSUME TranslationAssumption == Grain \in Nat \ {0}

Refused == <<>>

\* Circuit's builders label a gate with its type, but for these.
Label(g) ==
    CASE g.type = "CNOT" -> "CX"
      [] g.type = "S" /\ g.dagger -> "SDG"
      [] g.type = "T" /\ g.dagger -> "TDG"
      [] OTHER -> g.type

Known == {"X", "Y", "Z", "H", "S", "SDG", "T", "TDG", "CX", "CZ", "SWAP",
          "RX", "RY", "RZ"}
Controlled == {"CRX", "CRY", "CRZ"}

Instruction(label, qubits, angles) ==
    [label |-> label, qubits |-> qubits, angles |-> angles]

Angles(g) == [i \in DOMAIN g.args |-> g.args[i].offset]

Sandwich_SameSign(label, c, t, half) ==
    <<Instruction(label, <<t>>, <<half>>), Instruction("CX", <<c, t>>, <<>>),
      Instruction(label, <<t>>, <<half>>), Instruction("CX", <<c, t>>, <<>>)>>

\* R(theta/2), CNOT, R(-theta/2), CNOT, for an axis X anticommutes with.
Sandwich(label, c, t, half) ==
    <<Instruction(label, <<t>>, <<half>>), Instruction("CX", <<c, t>>, <<>>),
      Instruction(label, <<t>>, <<-half>>), Instruction("CX", <<c, t>>, <<>>)>>

\* X commutes with itself: CRX is CRZ between two changes of basis.
Deconstructed(g) ==
    LET c == g.qubits[1]
        t == g.qubits[2]
        half == g.args[1].offset \div 2
        h == Instruction("H", <<t>>, <<>>) IN
    CASE g.type = "CRZ" -> Sandwich("RZ", c, t, half)
      [] g.type = "CRY" -> Sandwich("RY", c, t, half)
      [] g.type = "CRX" -> <<h>> \o Sandwich("RZ", c, t, half) \o <<h>>

Spelled(g) ==
    CASE Label(g) \in Known -> <<Instruction(Label(g), g.qubits, Angles(g))>>
      [] Label(g) \in Controlled -> Deconstructed(g)
      [] OTHER -> Refused

\* CUNQA's JSON keeps every digit of an angle.
CunqaSpelling(g) == Spelled(g)

\* QASM text keeps six digits, of the magnitude: the sign survives.
Printed(a) == IF a >= 0 THEN a - (a % Grain) ELSE a + ((-a) % Grain)

QasmSpelling(g) ==
    IF Spelled(g) = Refused THEN Refused
    ELSE [k \in DOMAIN Spelled(g) |->
            [Spelled(g)[k] EXCEPT !.angles = [i \in DOMAIN @ |-> Printed(@[i])]]]
=============================================================================
