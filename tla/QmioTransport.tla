--------------------------- MODULE QmioTransport ---------------------------
(***************************************************************************)
(* QmioBackend::send_and_receive and the socket it keeps between calls:    *)
(* the Lazy-Pirate client of the QMIO quantum computer.  One thread makes  *)
(* the calls; the ZeroMQ REQ socket, the network and the QPU server run    *)
(* concurrently with it and are external.  Time is the sum of what the     *)
(* client's own blocking operations take.                                  *)
(***************************************************************************)
EXTENDS Integers

CONSTANTS
    MaxCalls,        \* calls of submit_circuit in a behaviour (a bound)
    MaxRetries,      \* max_retries_      ($QMIO_MAX_RETRIES)
    RecvTimeout,     \* recv_timeout_     ($QMIO_RECV_TIMEOUT_MS)
    RetryBackoff,    \* retry_backoff_    ($QMIO_RETRY_BACKOFF_MS)
    GlobalOverride   \* $QMIO_GLOBAL_TIMEOUT_MS, or -1 when it is unset

ASSUME QmioAssumption ==
    /\ MaxCalls \in Nat
    /\ MaxRetries \in Nat
    /\ RecvTimeout \in Nat
    /\ RetryBackoff \in Nat
    /\ GlobalOverride \in Nat \cup {-1}

VARIABLES
    pc,          \* where the calling thread is in send_and_receive
    call,        \* number of the call in progress, or of the last one
    attempt,     \* the loop counter
    elapsed,     \* time since the call computed its deadline
    socket,      \* identity of conn_->socket, 0 when it is null
    req,         \* lock-step state of the REQ socket: "ready" to send, or
                 \* "awaiting" the reply it must receive first
    sockets,     \* sockets created so far: the next identity
    outgoing,    \* requests handed to a socket and still in its pipe
    inbox,       \* requests that reached the QPU server
    replies,     \* replies on their way back
    executed,    \* how often the device has run each call's circuit
    outcome      \* how each call ended

client  == <<pc, call, attempt, elapsed, outcome>>
conn    == <<socket, req, sockets>>
network == <<outgoing, inbox, replies, executed>>
vars    == <<pc, call, attempt, elapsed, outcome, socket, req, sockets,
             outgoing, inbox, replies, executed>>

Calls == 1 .. MaxCalls

\* Errors thrown before the request was handed over ("exhausted", "deadline"),
\* after it ("unanswered"), on a reply ("oversize", "undecodable"); or a result.
Outcomes == {"none", "exhausted", "deadline", "unanswered", "oversize",
             "undecodable", "answered"}

Message == [call : Calls, sock : Nat]

TypeOK ==
    /\ pc \in {"idle", "loop", "connect", "send", "recv"}
    /\ call \in 0 .. MaxCalls
    /\ pc # "idle" => call \in Calls
    /\ attempt \in 0 .. MaxRetries + 1
    /\ pc \in {"connect", "send", "recv"} => attempt <= MaxRetries
    /\ elapsed \in Nat
    /\ socket \in Nat /\ sockets \in Nat
    /\ req \in {"ready", "awaiting"}
    /\ outgoing \subseteq Message
    /\ inbox \subseteq Message
    /\ replies \subseteq Message
    /\ executed \in [Calls -> Nat]
    /\ outcome \in [Calls -> Outcomes]

-----------------------------------------------------------------------------
(* The constructor's default deadline: enough for every attempt to spend   *)
(* its full timeout connecting, sending and receiving, and for every       *)
(* back-off pause.                                                         *)

BackoffSum == RetryBackoff * ((MaxRetries * (MaxRetries + 1)) \div 2)

DefaultGlobal == (MaxRetries + 1) * 3 * RecvTimeout + BackoffSum

GlobalTimeout_NoBackoff == (MaxRetries + 1) * 3 * RecvTimeout

GlobalTimeout == IF GlobalOverride = -1 THEN DefaultGlobal ELSE GlobalOverride

Init ==
    /\ pc = "idle" /\ call = 0 /\ attempt = 0 /\ elapsed = 0
    /\ outcome = [c \in Calls |-> "none"]
    /\ socket = 0 /\ req = "ready" /\ sockets = 0
    /\ outgoing = {} /\ inbox = {} /\ replies = {}
    /\ executed = [c \in Calls |-> 0]

-----------------------------------------------------------------------------
(* Helpers *)

\* A blocking socket operation returns within the socket's timeout.
Spend(d) == d \in 0 .. RecvTimeout /\ elapsed' = elapsed + d

ResetSocket_Lingering ==
    /\ socket' = 0
    /\ req' = "ready"
    /\ UNCHANGED <<sockets, outgoing, inbox, replies, executed>>

\* conn_->socket.reset(): the socket has linger 0, so what is still in its
\* pipe is discarded.
ResetSocket ==
    /\ socket' = 0
    /\ req' = "ready"
    /\ outgoing' = {m \in outgoing : m.sock # socket}
    /\ UNCHANGED <<sockets, inbox, replies, executed>>

Return(o) ==
    /\ pc' = "idle"
    /\ outcome' = [outcome EXCEPT ![call] = o]
    /\ UNCHANGED <<call, attempt>>

\* continue: the next iteration starts with its loop condition.
Retry ==
    /\ pc' = "loop"
    /\ attempt' = attempt + 1
    /\ UNCHANGED <<call, outcome>>

-----------------------------------------------------------------------------
(* The calling thread *)

Call ==
    /\ pc = "idle" /\ call < MaxCalls
    /\ pc' = "loop" /\ call' = call + 1 /\ attempt' = 0 /\ elapsed' = 0
    /\ UNCHANGED <<outcome, conn, network>>

Exhausted ==
    /\ pc = "loop" /\ attempt > MaxRetries
    /\ Return("exhausted")
    /\ UNCHANGED <<elapsed, conn, network>>

StartAttempt_Unbounded ==
    /\ pc = "loop" /\ elapsed < GlobalTimeout
    /\ pc' = "connect"
    /\ elapsed' = elapsed + RetryBackoff * attempt
    /\ UNCHANGED <<call, attempt, outcome, conn, network>>

StartAttempt_NoDeadline ==
    /\ pc = "loop" /\ attempt <= MaxRetries
    /\ pc' = "connect"
    /\ elapsed' = elapsed + RetryBackoff * attempt
    /\ UNCHANGED <<call, attempt, outcome, conn, network>>

\* The deadline is looked at here and nowhere else.
DeadlinePassed ==
    /\ pc = "loop" /\ attempt <= MaxRetries /\ elapsed >= GlobalTimeout
    /\ Return("deadline")
    /\ UNCHANGED <<elapsed, conn, network>>

\* No pause before the first attempt, a linearly growing one before the others.
StartAttempt ==
    /\ pc = "loop" /\ attempt <= MaxRetries /\ elapsed < GlobalTimeout
    /\ pc' = "connect"
    /\ elapsed' = elapsed + RetryBackoff * attempt
    /\ UNCHANGED <<call, attempt, outcome, conn, network>>

KeepSocket ==
    /\ pc = "connect" /\ socket # 0
    /\ pc' = "send"
    /\ UNCHANGED <<call, attempt, elapsed, outcome, conn, network>>

Connect(d) ==
    /\ pc = "connect" /\ socket = 0
    /\ Spend(d)
    /\ pc' = "send"
    /\ sockets' = sockets + 1 /\ socket' = sockets + 1 /\ req' = "ready"
    /\ UNCHANGED <<call, attempt, outcome, network>>

ConnectFails(d) ==
    /\ pc = "connect" /\ socket = 0
    /\ Spend(d)
    /\ Retry
    /\ UNCHANGED <<conn, network>>

\* A REQ socket refuses a second send before its reply (EFSM).
Send(d) ==
    /\ pc = "send" /\ req = "ready"
    /\ Spend(d)
    /\ pc' = "recv"
    /\ req' = "awaiting"
    /\ outgoing' = outgoing \cup {[call |-> call, sock |-> socket]}
    /\ UNCHANGED <<call, attempt, outcome, socket, sockets, inbox, replies,
                   executed>>

\* A send that times out or throws has queued nothing.
SendFails(d) ==
    /\ pc = "send"
    /\ Spend(d)
    /\ ResetSocket
    /\ Retry

RecvFails_Retries(d) ==
    /\ pc = "recv"
    /\ Spend(d)
    /\ ResetSocket
    /\ Retry

RecvFails_KeepsSocket(d) ==
    /\ pc = "recv"
    /\ Spend(d)
    /\ Return("unanswered")
    /\ UNCHANGED <<conn, network>>

RecvFails_NoTimeout(d) == FALSE /\ d = 0 /\ UNCHANGED vars

\* Both ways out of the receive without a reply: the "no reply arrived" error
\* is thrown inside the try and is caught and wrapped by the same handler.
RecvFails(d) ==
    /\ pc = "recv"
    /\ Spend(d)
    /\ ResetSocket
    /\ Return("unanswered")

\* A reply: too long (thrown without a reset, the socket being in step again),
\* one that submit_circuit cannot decode into counts, or the counts.
Recv(m, d) ==
    /\ pc = "recv" /\ m \in replies /\ m.sock = socket
    /\ Spend(d)
    /\ req' = "ready"
    /\ replies' = replies \ {m}
    /\ \E o \in {"answered", "oversize", "undecodable"} : Return(o)
    /\ UNCHANGED <<socket, sockets, outgoing, inbox, executed>>

\* Everything the thread does by itself.
Proceed ==
    \/ Exhausted \/ DeadlinePassed \/ StartAttempt \/ KeepSocket
    \/ \E d \in 0 .. RecvTimeout :
          Connect(d) \/ ConnectFails(d) \/ Send(d) \/ SendFails(d) \/ RecvFails(d)

ClientStep ==
    \/ Proceed
    \/ \E m \in replies : \E d \in 0 .. RecvTimeout : Recv(m, d)

-----------------------------------------------------------------------------
(* The network and the QPU server: external, at their own pace *)

Transmit(m) ==
    /\ outgoing' = outgoing \ {m} /\ inbox' = inbox \cup {m}
    /\ UNCHANGED <<client, conn, replies, executed>>

Execute(m) ==
    /\ inbox' = inbox \ {m}
    /\ executed' = [executed EXCEPT ![m.call] = @ + 1]
    /\ replies' = replies \cup {m}
    /\ UNCHANGED <<client, conn, outgoing>>

\* A server restart or a broken connection.
LoseRequest(m) ==
    /\ inbox' = inbox \ {m}
    /\ UNCHANGED <<client, conn, outgoing, replies, executed>>

LoseReply(m) ==
    /\ replies' = replies \ {m}
    /\ UNCHANGED <<client, conn, outgoing, inbox, executed>>

Environment ==
    \/ \E m \in outgoing : Transmit(m)
    \/ \E m \in inbox : Execute(m) \/ LoseRequest(m)
    \/ \E m \in replies : LoseReply(m)

Next == Call \/ ClientStep \/ Environment

Spec == Init /\ [][Next]_vars

\* The thread runs whenever it can; nothing is assumed of the QPU.
FairSpec == Spec /\ WF_vars(ClientStep)

-----------------------------------------------------------------------------
(* What the transport promises *)

\* No circuit is run twice on real hardware, whatever is retried: the reason
\* send_and_receive never resends once a send has succeeded.
AtMostOnce == \A c \in Calls : executed[c] <= 1

InFlight == outgoing \cup inbox

Unsent == {"exhausted", "deadline"}
Answered == {"answered", "oversize", "undecodable"}

\* The error tells the truth: one that does not warn of a possible execution
\* ("exhausted ... attempts", "global timeout exceeded") is thrown only when the
\* device has not run the circuit and no longer can, and a call that got as far
\* as a reply was run exactly once.
HonestOutcome ==
    \A c \in Calls :
        /\ outcome[c] \in Unsent =>
              executed[c] = 0 /\ \A m \in InFlight : m.call # c
        /\ outcome[c] \in Answered => executed[c] = 1

\* The socket kept from one call to the next is in step: outside the receive it
\* awaits nothing, and nothing of an earlier call can still arrive on it.
KeptSocketIsClean ==
    pc # "recv" =>
        /\ req = "ready"
        /\ \A m \in InFlight \cup replies : m.sock # socket

\* A request leaves the machine only while its caller waits for the reply: a
\* failed call's request, discarded with its socket, never departs later.
NoLateDeparture ==
    [][\A m \in inbox' \ inbox : pc = "recv" /\ m.call = call]_vars

\* send_and_receive stays within the global timeout: what the header says of it
\* ("Bounded by ... global_timeout_ across all attempts").
WithinGlobalTimeout == elapsed <= GlobalTimeout

\* What a deadline looked at only between attempts does guarantee: a call
\* overruns it by less than the last attempt's pause and three operations.
OverrunBounded ==
    GlobalTimeout > 0 =>
        elapsed < GlobalTimeout + MaxRetries * RetryBackoff + 3 * RecvTimeout

\* The default deadline never cuts a legitimate retry sequence short, as the
\* constructor says of its formula (unless every timeout is configured as 0).
DefaultNeverFires ==
    GlobalOverride = -1 /\ DefaultGlobal > 0 =>
        \A c \in Calls : outcome[c] # "deadline"

\* Every call returns or throws, even when the server never answers.
CallReturns == pc # "idle" ~> pc = "idle"

\* The transport implements the at-most-once submission.
FateOf(c) ==
    CASE c > call -> "new"
      [] c <= call /\ outcome[c] \in Unsent -> "refused"
      [] c <= call /\ outcome[c] \in Answered -> "answered"
      [] c <= call /\ outcome[c] = "unanswered" -> "unknown"
      [] c <= call /\ outcome[c] = "none" ->
            IF pc = "recv" THEN "released" ELSE "open"

Fate == [c \in Calls |-> FateOf(c)]

Abstract == INSTANCE Submission WITH fate <- Fate, runs <- executed

\* Every step of the transport and of its environment is a step of Submission,
\* or invisible to it.
ImplementsSubmission == Abstract!SSpec
=============================================================================
