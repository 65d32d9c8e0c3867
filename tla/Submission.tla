----------------------------- MODULE Submission -----------------------------
(***************************************************************************)
(* What submitting a circuit to real hardware promises its caller: the     *)
(* device runs it at most once, an answer means it ran, and an error that  *)
(* invites a resubmission ("refused") means it never did and never will.   *)
(* Every other error leaves the run's fate "unknown", and a run may still  *)
(* happen after the caller has been told so.                               *)
(***************************************************************************)
EXTENDS Naturals

CONSTANT MaxCalls   \* how many submissions the behaviour contains

VARIABLES
    fate,      \* what the caller knows of each submission
    runs       \* how often the device has run each submission

svars == <<fate, runs>>

Calls == 1 .. MaxCalls

Fates == {"new", "open", "released", "answered", "refused", "unknown"}

SInit ==
    /\ fate = [c \in Calls |-> "new"]
    /\ runs = [c \in Calls |-> 0]

Become(c, f) == fate' = [fate EXCEPT ![c] = f]

\* The caller asks for a run.
Open(c) == fate[c] = "new" /\ Become(c, "open") /\ UNCHANGED runs

\* The request leaves the caller's hands: from now on it may run.
Release(c) == fate[c] = "open" /\ Become(c, "released") /\ UNCHANGED runs

\* The error that promises the request never left.
Refuse(c) == fate[c] = "open" /\ Become(c, "refused") /\ UNCHANGED runs

\* The error that promises nothing.
GiveUp(c) == fate[c] = "released" /\ Become(c, "unknown") /\ UNCHANGED runs

\* The device runs a released request, at most once, possibly after the
\* caller gave up on it.
Run(c) ==
    /\ fate[c] \in {"released", "unknown"}
    /\ runs[c] = 0
    /\ runs' = [runs EXCEPT ![c] = 1]
    /\ UNCHANGED fate

\* The device's answer, which exists only once the device has run it.
Answer(c) ==
    /\ fate[c] = "released"
    /\ runs[c] = 1
    /\ Become(c, "answered")
    /\ UNCHANGED runs

SNext ==
    \E c \in Calls :
        Open(c) \/ Release(c) \/ Refuse(c) \/ GiveUp(c) \/ Run(c) \/ Answer(c)

SSpec == SInit /\ [][SNext]_svars
=============================================================================
