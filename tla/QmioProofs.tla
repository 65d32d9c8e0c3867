----------------------------- MODULE QmioProofs -----------------------------
(***************************************************************************)
(* Proofs about QmioTransport and QmioBackend, for every number of calls,  *)
(* every retry count and timeout, every environment and every circuit: the *)
(* transport, its time, and the backend as a whole, which keeps what the   *)
(* transport promises and implements the contract of RemoteBackend.        *)
(***************************************************************************)
EXTENDS QmioBackend, TLAPS


\* A call that has sent nothing yet.
Fresh(c) == executed[c] = 0 /\ \A m \in InFlight : m.call # c

\* One copy of a request at most, and only before its execution.
Copies ==
    /\ \A m \in InFlight : m.call <= call /\ executed[m.call] = 0
    /\ \A m, n \in InFlight : m.call = n.call => m = n
    /\ outgoing \cap inbox = {}
    /\ \A m \in replies : executed[m.call] = 1

\* Which calls have not sent.
Unreleased ==
    /\ pc \in {"loop", "connect", "send"} => Fresh(call)
    /\ \A c \in Calls : c > call => Fresh(c)
    /\ \A c \in Calls : outcome[c] \in Unsent => Fresh(c)

\* Whose socket every message travels on.
Sockets ==
    /\ socket <= sockets
    /\ pc \in {"send", "recv"} => socket # 0
    /\ \A m \in InFlight \cup replies : m.sock \in 1 .. sockets
    /\ \A m \in outgoing : m.sock = socket
    /\ pc = "recv" => \A m \in InFlight \cup replies :
                          m.sock = socket => m.call = call

\* When a call's outcome is decided.
Decided ==
    \A c \in Calls :
        outcome[c] = "none" <=> c > call \/ (c = call /\ pc # "idle")

IInv == /\ TypeOK /\ Copies /\ Unreleased /\ Sockets /\ Decided
        /\ AtMostOnce /\ HonestOutcome /\ KeptSocketIsClean

-----------------------------------------------------------------------------
(* Type correctness *)

LEMMA PauseType == TypeOK => RetryBackoff * attempt \in Nat
<1> SUFFICES ASSUME NEW b \in Nat, NEW k \in Nat PROVE b * k \in Nat
  BY QmioAssumption DEF TypeOK
<1> QED BY SMT

\* Every step, of the client and of its environment, keeps every variable in
\* its type; in particular the loop counter never passes max_retries_ + 1.
LEMMA TypeStep == TypeOK /\ [Next]_vars => TypeOK'
<1> SUFFICES ASSUME TypeOK, [Next]_vars PROVE TypeOK'
  OBVIOUS
<1> USE QmioAssumption DEF TypeOK, Calls, Message, Outcomes
<1>1. CASE Call
  BY <1>1 DEF Call, conn, network
<1>2. CASE Exhausted
  BY <1>2 DEF Exhausted, Return, conn, network
<1>3. CASE DeadlinePassed
  BY <1>3 DEF DeadlinePassed, Return, conn, network
<1>4. CASE StartAttempt
  <2>1. elapsed' \in Nat
    BY <1>4, PauseType DEF StartAttempt
  <2>2. QED BY <1>4, <2>1 DEF StartAttempt, conn, network
<1>5. CASE KeepSocket
  BY <1>5 DEF KeepSocket, conn, network
<1>6. ASSUME NEW d \in 0 .. RecvTimeout, Connect(d)
      PROVE  TypeOK'
  BY <1>6 DEF Connect, Spend, network
<1>7. ASSUME NEW d \in 0 .. RecvTimeout, ConnectFails(d)
      PROVE  TypeOK'
  BY <1>7 DEF ConnectFails, Spend, Retry, conn, network
<1>8. ASSUME NEW d \in 0 .. RecvTimeout, Send(d)
      PROVE  TypeOK'
  BY <1>8 DEF Send, Spend
<1>9. ASSUME NEW d \in 0 .. RecvTimeout, SendFails(d)
      PROVE  TypeOK'
  BY <1>9 DEF SendFails, Spend, Retry, ResetSocket
<1>10. ASSUME NEW d \in 0 .. RecvTimeout, RecvFails(d)
      PROVE  TypeOK'
  BY <1>10 DEF RecvFails, Spend, Return, ResetSocket
<1>11. ASSUME NEW m \in replies, NEW d \in 0 .. RecvTimeout, Recv(m, d)
      PROVE  TypeOK'
  BY <1>11 DEF Recv, Spend, Return
<1>12. ASSUME NEW m \in outgoing, Transmit(m)
      PROVE  TypeOK'
  BY <1>12 DEF Transmit, client, conn
<1>13. ASSUME NEW m \in inbox, Execute(m)
      PROVE  TypeOK'
  BY <1>13 DEF Execute, client, conn
<1>14. ASSUME NEW m \in inbox, LoseRequest(m)
      PROVE  TypeOK'
  BY <1>14 DEF LoseRequest, client, conn
<1>15. ASSUME NEW m \in replies, LoseReply(m)
      PROVE  TypeOK'
  BY <1>15 DEF LoseReply, client, conn
<1>16. CASE UNCHANGED vars
  BY <1>16 DEF vars
<1> QED
  BY <1>1, <1>2, <1>3, <1>4, <1>5, <1>6, <1>7, <1>8, <1>9, <1>10, <1>11, <1>12, <1>13, <1>14, <1>15, <1>16
     DEF Next, ClientStep, Proceed, Environment

\* TypeOK is an invariant of the transport for every value of the constants.
THEOREM TypeCorrect == Spec => []TypeOK
<1>1. Init => TypeOK
  BY QmioAssumption DEF Init, TypeOK, Calls, Message, Outcomes
<1> QED BY <1>1, TypeStep, PTL DEF Spec

-----------------------------------------------------------------------------
(* The inductive invariant *)

LEMMA InitIInv == Init => IInv
<1> SUFFICES ASSUME Init PROVE IInv
  OBVIOUS
<1>1. TypeOK
  BY QmioAssumption DEF Init, TypeOK, Calls, Message, Outcomes
<1>2. Copies /\ Unreleased /\ Sockets /\ Decided
  BY QmioAssumption DEF Init, Copies, Unreleased, Sockets, Decided, Fresh,
                        InFlight, Calls, Unsent
<1>3. AtMostOnce /\ HonestOutcome /\ KeptSocketIsClean
  BY DEF Init, AtMostOnce, HonestOutcome, KeptSocketIsClean, InFlight, Unsent,
         Answered
<1> QED BY <1>1, <1>2, <1>3 DEF IInv

\* IInv is preserved.  Under every action: what it does to the copies of a
\* request and to the outcomes, then what it does to the sockets.
LEMMA InductiveStep == IInv /\ [Next]_vars => IInv'
<1> SUFFICES ASSUME IInv, [Next]_vars PROVE IInv'
  OBVIOUS
<1> DEFINE Runs == Copies /\ Unreleased /\ Decided /\ AtMostOnce /\ HonestOutcome
           Wires == Sockets /\ KeptSocketIsClean
<1> USE QmioAssumption
<1>0. TypeOK'
  BY TypeStep DEF IInv
<1>1. CASE Call
  <2>1. Runs'
    BY <1>1 DEF Call, conn, network, IInv, TypeOK, Copies, Unreleased,
           Decided, AtMostOnce, HonestOutcome, Sockets, KeptSocketIsClean,
           Fresh, InFlight, Calls, Message, Unsent, Answered
  <2>2. Wires'
    BY <1>1 DEF Call, conn, network, IInv, TypeOK, Copies, Sockets,
           KeptSocketIsClean, InFlight, Message
  <2>3. QED BY <1>0, <2>1, <2>2 DEF IInv
<1>2. CASE Exhausted
  <2>1. Runs'
    BY <1>2 DEF Exhausted, Return, conn, network, IInv, TypeOK, Copies, Unreleased,
           Decided, AtMostOnce, HonestOutcome, Sockets, KeptSocketIsClean,
           Fresh, InFlight, Calls, Message, Unsent, Answered
  <2>2. Wires'
    BY <1>2 DEF Exhausted, Return, conn, network, IInv, TypeOK, Copies, Sockets,
           KeptSocketIsClean, InFlight, Message
  <2>3. QED BY <1>0, <2>1, <2>2 DEF IInv
<1>3. CASE DeadlinePassed
  <2>1. Runs'
    BY <1>3 DEF DeadlinePassed, Return, conn, network, IInv, TypeOK, Copies, Unreleased,
           Decided, AtMostOnce, HonestOutcome, Sockets, KeptSocketIsClean,
           Fresh, InFlight, Calls, Message, Unsent, Answered
  <2>2. Wires'
    BY <1>3 DEF DeadlinePassed, Return, conn, network, IInv, TypeOK, Copies, Sockets,
           KeptSocketIsClean, InFlight, Message
  <2>3. QED BY <1>0, <2>1, <2>2 DEF IInv
<1>4. CASE StartAttempt
  <2>1. Runs'
    BY <1>4 DEF StartAttempt, conn, network, IInv, TypeOK, Copies, Unreleased,
           Decided, AtMostOnce, HonestOutcome, Sockets, KeptSocketIsClean,
           Fresh, InFlight, Calls, Message, Unsent, Answered
  <2>2. Wires'
    BY <1>4 DEF StartAttempt, conn, network, IInv, TypeOK, Copies, Sockets,
           KeptSocketIsClean, InFlight, Message
  <2>3. QED BY <1>0, <2>1, <2>2 DEF IInv
<1>5. CASE KeepSocket
  <2>1. Runs'
    BY <1>5 DEF KeepSocket, conn, network, IInv, TypeOK, Copies, Unreleased,
           Decided, AtMostOnce, HonestOutcome, Sockets, KeptSocketIsClean,
           Fresh, InFlight, Calls, Message, Unsent, Answered
  <2>2. Wires'
    BY <1>5 DEF KeepSocket, conn, network, IInv, TypeOK, Copies, Sockets,
           KeptSocketIsClean, InFlight, Message
  <2>3. QED BY <1>0, <2>1, <2>2 DEF IInv
<1>6. ASSUME NEW d \in 0 .. RecvTimeout, Connect(d)
      PROVE  IInv'
  <2>1. Runs'
    BY <1>6 DEF Connect, Spend, network, IInv, TypeOK, Copies, Unreleased,
           Decided, AtMostOnce, HonestOutcome, Sockets, KeptSocketIsClean,
           Fresh, InFlight, Calls, Message, Unsent, Answered
  <2>2. Wires'
    BY <1>6 DEF Connect, Spend, network, IInv, TypeOK, Copies, Sockets,
           KeptSocketIsClean, InFlight, Message
  <2>3. QED BY <1>0, <2>1, <2>2 DEF IInv
<1>7. ASSUME NEW d \in 0 .. RecvTimeout, ConnectFails(d)
      PROVE  IInv'
  <2>1. Runs'
    BY <1>7 DEF ConnectFails, Spend, Retry, conn, network, IInv, TypeOK, Copies, Unreleased,
           Decided, AtMostOnce, HonestOutcome, Sockets, KeptSocketIsClean,
           Fresh, InFlight, Calls, Message, Unsent, Answered
  <2>2. Wires'
    BY <1>7 DEF ConnectFails, Spend, Retry, conn, network, IInv, TypeOK, Copies, Sockets,
           KeptSocketIsClean, InFlight, Message
  <2>3. QED BY <1>0, <2>1, <2>2 DEF IInv
<1>8. ASSUME NEW d \in 0 .. RecvTimeout, Send(d)
      PROVE  IInv'
  <2>1. Runs'
    BY <1>8 DEF Send, Spend, IInv, TypeOK, Copies, Unreleased,
           Decided, AtMostOnce, HonestOutcome, Sockets, KeptSocketIsClean,
           Fresh, InFlight, Calls, Message, Unsent, Answered
  <2>2. Wires'
    BY <1>8 DEF Send, Spend, IInv, TypeOK, Copies, Sockets,
           KeptSocketIsClean, InFlight, Message
  <2>3. QED BY <1>0, <2>1, <2>2 DEF IInv
<1>9. ASSUME NEW d \in 0 .. RecvTimeout, SendFails(d)
      PROVE  IInv'
  <2>1. Runs'
    BY <1>9 DEF SendFails, Spend, Retry, ResetSocket, IInv, TypeOK, Copies, Unreleased,
           Decided, AtMostOnce, HonestOutcome, Sockets, KeptSocketIsClean,
           Fresh, InFlight, Calls, Message, Unsent, Answered
  <2>2. Wires'
    BY <1>9 DEF SendFails, Spend, Retry, ResetSocket, IInv, TypeOK, Copies, Sockets,
           KeptSocketIsClean, InFlight, Message
  <2>3. QED BY <1>0, <2>1, <2>2 DEF IInv
<1>10. ASSUME NEW d \in 0 .. RecvTimeout, RecvFails(d)
      PROVE  IInv'
  <2>1. Runs'
    BY <1>10 DEF RecvFails, Spend, Return, ResetSocket, IInv, TypeOK, Copies, Unreleased,
           Decided, AtMostOnce, HonestOutcome, Sockets, KeptSocketIsClean,
           Fresh, InFlight, Calls, Message, Unsent, Answered
  <2>2. Wires'
    BY <1>10 DEF RecvFails, Spend, Return, ResetSocket, IInv, TypeOK, Copies, Sockets,
           KeptSocketIsClean, InFlight, Message
  <2>3. QED BY <1>0, <2>1, <2>2 DEF IInv
<1>11. ASSUME NEW m \in replies, NEW d \in 0 .. RecvTimeout, Recv(m, d)
      PROVE  IInv'
  <2>1. Runs'
    BY <1>11 DEF Recv, Spend, Return, IInv, TypeOK, Copies, Unreleased,
           Decided, AtMostOnce, HonestOutcome, Sockets, KeptSocketIsClean,
           Fresh, InFlight, Calls, Message, Unsent, Answered
  <2>2. Wires'
    BY <1>11 DEF Recv, Spend, Return, IInv, TypeOK, Copies, Sockets,
           KeptSocketIsClean, InFlight, Message
  <2>3. QED BY <1>0, <2>1, <2>2 DEF IInv
<1>12. ASSUME NEW m \in outgoing, Transmit(m)
      PROVE  IInv'
  <2>1. Runs'
    BY <1>12 DEF Transmit, client, conn, IInv, TypeOK, Copies, Unreleased,
           Decided, AtMostOnce, HonestOutcome, Sockets, KeptSocketIsClean,
           Fresh, InFlight, Calls, Message, Unsent, Answered
  <2>2. Wires'
    BY <1>12 DEF Transmit, client, conn, IInv, TypeOK, Copies, Sockets,
           KeptSocketIsClean, InFlight, Message
  <2>3. QED BY <1>0, <2>1, <2>2 DEF IInv
<1>13. ASSUME NEW m \in inbox, Execute(m)
      PROVE  IInv'
  <2>1. Runs'
    BY <1>13 DEF Execute, client, conn, IInv, TypeOK, Copies, Unreleased,
           Decided, AtMostOnce, HonestOutcome, Sockets, KeptSocketIsClean,
           Fresh, InFlight, Calls, Message, Unsent, Answered
  <2>2. Wires'
    BY <1>13 DEF Execute, client, conn, IInv, TypeOK, Copies, Sockets,
           KeptSocketIsClean, InFlight, Message
  <2>3. QED BY <1>0, <2>1, <2>2 DEF IInv
<1>14. ASSUME NEW m \in inbox, LoseRequest(m)
      PROVE  IInv'
  <2>1. Runs'
    BY <1>14 DEF LoseRequest, client, conn, IInv, TypeOK, Copies, Unreleased,
           Decided, AtMostOnce, HonestOutcome, Sockets, KeptSocketIsClean,
           Fresh, InFlight, Calls, Message, Unsent, Answered
  <2>2. Wires'
    BY <1>14 DEF LoseRequest, client, conn, IInv, TypeOK, Copies, Sockets,
           KeptSocketIsClean, InFlight, Message
  <2>3. QED BY <1>0, <2>1, <2>2 DEF IInv
<1>15. ASSUME NEW m \in replies, LoseReply(m)
      PROVE  IInv'
  <2>1. Runs'
    BY <1>15 DEF LoseReply, client, conn, IInv, TypeOK, Copies, Unreleased,
           Decided, AtMostOnce, HonestOutcome, Sockets, KeptSocketIsClean,
           Fresh, InFlight, Calls, Message, Unsent, Answered
  <2>2. Wires'
    BY <1>15 DEF LoseReply, client, conn, IInv, TypeOK, Copies, Sockets,
           KeptSocketIsClean, InFlight, Message
  <2>3. QED BY <1>0, <2>1, <2>2 DEF IInv
<1>16. CASE UNCHANGED vars
  BY <1>16 DEF vars, IInv, TypeOK, Copies, Unreleased, Decided, AtMostOnce,
        HonestOutcome, Sockets, KeptSocketIsClean, Fresh, InFlight
<1> QED
  BY <1>1, <1>2, <1>3, <1>4, <1>5, <1>6, <1>7, <1>8, <1>9, <1>10, <1>11, <1>12, <1>13, <1>14, <1>15, <1>16
     DEF Next, ClientStep, Proceed, Environment

THEOREM Invariant == Spec => []IInv
  BY InitIInv, InductiveStep, PTL DEF Spec

-----------------------------------------------------------------------------
(* What follows from it *)

\* No circuit is run twice, however many attempts, calls and lost messages.
THEOREM RunsOnce == Spec => []AtMostOnce
  BY Invariant, PTL DEF IInv

\* An error that does not warn of an execution means there was and will be none.
THEOREM ErrorsAreHonest == Spec => []HonestOutcome
  BY Invariant, PTL DEF IInv

\* The socket kept between calls never holds anything of an earlier call.
THEOREM SocketStaysClean == Spec => []KeptSocketIsClean
  BY Invariant, PTL DEF IInv

\* No request departs after its caller has been told of a failure.
THEOREM NothingDepartsLate == Spec => NoLateDeparture
<1> DEFINE Departs == \A m \in inbox' \ inbox : pc = "recv" /\ m.call = call
<1>1. IInv /\ [Next]_vars => [Departs]_vars
  <2> SUFFICES ASSUME IInv, [Next]_vars, NEW m \in inbox', m \notin inbox
               PROVE  pc = "recv" /\ m.call = call
    OBVIOUS
  <2>1. m \in outgoing
    BY DEF Next, ClientStep, Proceed, Environment, Call, Exhausted, DeadlinePassed,
           StartAttempt, KeepSocket, Connect, ConnectFails, Send, SendFails,
           RecvFails, Recv, Transmit, Execute, LoseRequest, LoseReply, vars,
           client, conn, network, ResetSocket
  <2>2. m.sock = socket
    BY <2>1 DEF IInv, Sockets
  <2> QED BY <2>1, <2>2 DEF IInv, Sockets, KeptSocketIsClean, InFlight
<1> QED BY <1>1, Invariant, PTL DEF Spec, NoLateDeparture

-----------------------------------------------------------------------------
(* Refinement of Submission *)

\* The cases of Fate, before and after a step.
LEMMA FateValues ==
  ASSUME TypeOK, TypeOK', NEW c \in Calls
  PROVE  /\ c > call => FateOf(c) = "new"
         /\ c <= call /\ outcome[c] \in Unsent => FateOf(c) = "refused"
         /\ c <= call /\ outcome[c] \in Answered => FateOf(c) = "answered"
         /\ c <= call /\ outcome[c] = "unanswered" => FateOf(c) = "unknown"
         /\ c <= call /\ outcome[c] = "none" /\ pc = "recv"
               => FateOf(c) = "released"
         /\ c <= call /\ outcome[c] = "none" /\ pc # "recv"
               => FateOf(c) = "open"
         /\ c > call' => FateOf(c)' = "new"
         /\ c <= call' /\ outcome'[c] \in Unsent => FateOf(c)' = "refused"
         /\ c <= call' /\ outcome'[c] \in Answered => FateOf(c)' = "answered"
         /\ c <= call' /\ outcome'[c] = "unanswered" => FateOf(c)' = "unknown"
         /\ c <= call' /\ outcome'[c] = "none" /\ pc' = "recv"
               => FateOf(c)' = "released"
         /\ c <= call' /\ outcome'[c] = "none" /\ pc' # "recv"
               => FateOf(c)' = "open"
<1>1. call \in Int /\ call' \in Int /\ c \in Int
  BY QmioAssumption DEF TypeOK, Calls
<1>2. /\ c > call => FateOf(c) = "new"
      /\ c <= call /\ outcome[c] \in Unsent => FateOf(c) = "refused"
      /\ c <= call /\ outcome[c] \in Answered => FateOf(c) = "answered"
      /\ c <= call /\ outcome[c] = "unanswered" => FateOf(c) = "unknown"
      /\ c <= call /\ outcome[c] = "none" =>
            FateOf(c) = IF pc = "recv" THEN "released" ELSE "open"
  BY <1>1 DEF FateOf, Unsent, Answered
<1>3. /\ c > call' => FateOf(c)' = "new"
      /\ c <= call' /\ outcome'[c] \in Unsent => FateOf(c)' = "refused"
      /\ c <= call' /\ outcome'[c] \in Answered => FateOf(c)' = "answered"
      /\ c <= call' /\ outcome'[c] = "unanswered" => FateOf(c)' = "unknown"
      /\ c <= call' /\ outcome'[c] = "none" =>
            FateOf(c)' = IF pc' = "recv" THEN "released" ELSE "open"
  BY <1>1 DEF FateOf, Unsent, Answered
<1> QED BY <1>2, <1>3

\* A step that moves the fate of one call, or of none.
LEMMA FateMoves ==
  ASSUME NEW k \in Calls, NEW f, FateOf(k)' = f,
         \A c \in Calls \ {k} : FateOf(c)' = FateOf(c)
  PROVE  Fate' = [Fate EXCEPT ![k] = f]
  BY DEF Fate

LEMMA FateRests ==
  ASSUME \A c \in Calls : FateOf(c)' = FateOf(c)
  PROVE  Fate' = Fate
  BY DEF Fate

LEMMA RefinedInit == Init => Abstract!SInit
<1> SUFFICES ASSUME Init PROVE Abstract!SInit
  OBVIOUS
<1>1. Fate = [c \in Calls |-> "new"]
  BY QmioAssumption DEF Init, Fate, FateOf, Calls
<1> QED BY <1>1 DEF Init, Abstract!SInit, Abstract!Calls, Calls


LEMMA FateAt == \A c \in Calls : Fate[c] = FateOf(c)
  BY DEF Fate

\* The fate of every call but the one in progress rests with the client's
\* variables.
LEMMA RefinedStep ==
  IInv /\ IInv' /\ [Next]_vars => [Abstract!SNext]_<<Fate, executed>>
<1> SUFFICES ASSUME IInv, IInv', [Next]_vars
             PROVE  Abstract!SNext \/ (Fate' = Fate /\ executed' = executed)
  OBVIOUS
<1> USE QmioAssumption DEF Abstract!Become, Abstract!Calls
<1>t. TypeOK /\ TypeOK'
  BY DEF IInv
<1>d. Decided /\ Decided'
  BY DEF IInv
<1>1. CASE Call
  <2>1. PICK k \in Calls : k = call'
    BY <1>1, <1>t DEF Call, TypeOK, Calls
  <2>2. FateOf(k)' = "open" /\ executed' = executed
    BY <1>1, <1>t, <1>d, <2>1, FateValues
       DEF Call, conn, network, TypeOK, Calls, Decided, Unsent, Answered
  <2>3. \A c \in Calls \ {k} : FateOf(c)' = FateOf(c)
    <3> SUFFICES ASSUME NEW c \in Calls, c # k
                 PROVE  FateOf(c)' = FateOf(c)
      OBVIOUS
    <3>1. CASE c > call
      <4>1. c > call'
        BY <1>1, <1>t, <2>1, <3>1 DEF Call, TypeOK, Calls
      <4>2. FateOf(c)' = "new" /\ FateOf(c) = "new"
        BY <1>t, <3>1, <4>1, FateValues
      <4> QED BY <4>2
    <3>2. CASE c <= call
      <4>1. c <= call' /\ outcome'[c] = outcome[c] /\ outcome[c] \in Outcomes
            /\ outcome[c] # "none"
        BY <1>1, <1>t, <1>d, <3>2 DEF Call, TypeOK, Calls, Decided
      <4>2. \/ outcome[c] \in Unsent \/ outcome[c] \in Answered
            \/ outcome[c] = "unanswered"
        BY <4>1 DEF Outcomes, Unsent, Answered
      <4> QED BY <1>t, <3>2, <4>1, <4>2, FateValues
    <3> QED BY <3>1, <3>2, <1>t DEF TypeOK, Calls
  <2>4. Fate' = [Fate EXCEPT ![k] = "open"]
    BY <2>1, <2>2, <2>3, FateMoves
  <2>5. Fate[k] = "new"
    BY <1>1, <1>t, <1>d, <2>1, FateValues, FateAt
       DEF Call, TypeOK, Calls, Decided
  <2>6. QED BY <2>1, <2>2, <2>4, <2>5 DEF Abstract!SNext, Abstract!Open, Calls
<1>2. CASE Exhausted
  <2>1. PICK k \in Calls : k = call
    BY <1>2, <1>t DEF Exhausted, TypeOK, Calls
  <2>2. FateOf(k)' = "refused" /\ executed' = executed
    BY <1>2, <1>t, <1>d, <2>1, FateValues
       DEF Exhausted, Return, conn, network, TypeOK, Calls, Decided, Unsent, Answered
  <2>3. \A c \in Calls \ {k} : FateOf(c)' = FateOf(c)
    BY <1>2, <1>t, <2>1 DEF Exhausted, Return, conn, network, FateOf, TypeOK, Calls
  <2>4. Fate' = [Fate EXCEPT ![k] = "refused"]
    BY <2>1, <2>2, <2>3, FateMoves
  <2>5. Fate[k] = "open"
    BY <1>2, <1>t, <1>d, <2>1, FateValues, FateAt
       DEF Exhausted, TypeOK, Calls, Decided
  <2>6. QED BY <2>1, <2>2, <2>4, <2>5 DEF Abstract!SNext, Abstract!Refuse, Calls
<1>3. CASE DeadlinePassed
  <2>1. PICK k \in Calls : k = call
    BY <1>3, <1>t DEF DeadlinePassed, TypeOK, Calls
  <2>2. FateOf(k)' = "refused" /\ executed' = executed
    BY <1>3, <1>t, <1>d, <2>1, FateValues
       DEF DeadlinePassed, Return, conn, network, TypeOK, Calls, Decided, Unsent, Answered
  <2>3. \A c \in Calls \ {k} : FateOf(c)' = FateOf(c)
    BY <1>3, <1>t, <2>1 DEF DeadlinePassed, Return, conn, network, FateOf, TypeOK, Calls
  <2>4. Fate' = [Fate EXCEPT ![k] = "refused"]
    BY <2>1, <2>2, <2>3, FateMoves
  <2>5. Fate[k] = "open"
    BY <1>3, <1>t, <1>d, <2>1, FateValues, FateAt
       DEF DeadlinePassed, TypeOK, Calls, Decided
  <2>6. QED BY <2>1, <2>2, <2>4, <2>5 DEF Abstract!SNext, Abstract!Refuse, Calls
<1>4. CASE StartAttempt
  <2>1. \A c \in Calls : FateOf(c)' = FateOf(c)
    BY <1>4 DEF StartAttempt, conn, network, FateOf
  <2>2. QED BY <1>4, <2>1, FateRests DEF StartAttempt, conn, network
<1>5. CASE KeepSocket
  <2>1. \A c \in Calls : FateOf(c)' = FateOf(c)
    BY <1>5 DEF KeepSocket, conn, network, FateOf
  <2>2. QED BY <1>5, <2>1, FateRests DEF KeepSocket, conn, network
<1>6. ASSUME NEW d \in 0 .. RecvTimeout, Connect(d)
      PROVE  Abstract!SNext \/ (Fate' = Fate /\ executed' = executed)
  <2>1. \A c \in Calls : FateOf(c)' = FateOf(c)
    BY <1>6 DEF Connect, Spend, network, FateOf
  <2>2. QED BY <1>6, <2>1, FateRests DEF Connect, Spend, network
<1>7. ASSUME NEW d \in 0 .. RecvTimeout, ConnectFails(d)
      PROVE  Abstract!SNext \/ (Fate' = Fate /\ executed' = executed)
  <2>1. \A c \in Calls : FateOf(c)' = FateOf(c)
    BY <1>7 DEF ConnectFails, Spend, Retry, conn, network, FateOf
  <2>2. QED BY <1>7, <2>1, FateRests DEF ConnectFails, Spend, Retry, conn, network
<1>8. ASSUME NEW d \in 0 .. RecvTimeout, Send(d)
      PROVE  Abstract!SNext \/ (Fate' = Fate /\ executed' = executed)
  <2>1. PICK k \in Calls : k = call
    BY <1>8, <1>t DEF Send, TypeOK, Calls
  <2>2. FateOf(k)' = "released" /\ executed' = executed
    BY <1>8, <1>t, <1>d, <2>1, FateValues
       DEF Send, Spend, TypeOK, Calls, Decided, Unsent, Answered
  <2>3. \A c \in Calls \ {k} : FateOf(c)' = FateOf(c)
    BY <1>8, <1>t, <2>1 DEF Send, Spend, FateOf, TypeOK, Calls
  <2>4. Fate' = [Fate EXCEPT ![k] = "released"]
    BY <2>1, <2>2, <2>3, FateMoves
  <2>5. Fate[k] = "open"
    BY <1>8, <1>t, <1>d, <2>1, FateValues, FateAt
       DEF Send, TypeOK, Calls, Decided
  <2>6. QED BY <2>1, <2>2, <2>4, <2>5 DEF Abstract!SNext, Abstract!Release, Calls
<1>9. ASSUME NEW d \in 0 .. RecvTimeout, SendFails(d)
      PROVE  Abstract!SNext \/ (Fate' = Fate /\ executed' = executed)
  <2>1. \A c \in Calls : FateOf(c)' = FateOf(c)
    BY <1>9 DEF SendFails, Spend, Retry, ResetSocket, FateOf
  <2>2. QED BY <1>9, <2>1, FateRests DEF SendFails, Spend, Retry, ResetSocket
<1>10. ASSUME NEW d \in 0 .. RecvTimeout, RecvFails(d)
      PROVE  Abstract!SNext \/ (Fate' = Fate /\ executed' = executed)
  <2>1. PICK k \in Calls : k = call
    BY <1>10, <1>t DEF RecvFails, TypeOK, Calls
  <2>2. FateOf(k)' = "unknown" /\ executed' = executed
    BY <1>10, <1>t, <1>d, <2>1, FateValues
       DEF RecvFails, Spend, Return, ResetSocket, TypeOK, Calls, Decided, Unsent, Answered
  <2>3. \A c \in Calls \ {k} : FateOf(c)' = FateOf(c)
    BY <1>10, <1>t, <2>1 DEF RecvFails, Spend, Return, ResetSocket, FateOf, TypeOK, Calls
  <2>4. Fate' = [Fate EXCEPT ![k] = "unknown"]
    BY <2>1, <2>2, <2>3, FateMoves
  <2>5. Fate[k] = "released"
    BY <1>10, <1>t, <1>d, <2>1, FateValues, FateAt
       DEF RecvFails, TypeOK, Calls, Decided
  <2>6. QED BY <2>1, <2>2, <2>4, <2>5 DEF Abstract!SNext, Abstract!GiveUp, Calls
<1>11. ASSUME NEW m \in replies, NEW d \in 0 .. RecvTimeout, Recv(m, d)
      PROVE  Abstract!SNext \/ (Fate' = Fate /\ executed' = executed)
  <2>1. PICK k \in Calls : k = call
    BY <1>11, <1>t DEF Recv, TypeOK, Calls
  <2>2. FateOf(k)' = "answered" /\ executed' = executed
    BY <1>11, <1>t, <1>d, <2>1, FateValues
       DEF Recv, Spend, Return, TypeOK, Calls, Decided, Unsent, Answered
  <2>3. \A c \in Calls \ {k} : FateOf(c)' = FateOf(c)
    BY <1>11, <1>t, <2>1 DEF Recv, Spend, Return, FateOf, TypeOK, Calls
  <2>4. Fate' = [Fate EXCEPT ![k] = "answered"]
    BY <2>1, <2>2, <2>3, FateMoves
  <2>5. Fate[k] = "released" /\ executed[k] = 1
    <3>1. pc = "recv" /\ m.sock = socket
      BY <1>11 DEF Recv
    <3>2. m.call = k /\ executed[k] = 1
      BY <2>1, <3>1 DEF IInv, Sockets, Copies
    <3>3. outcome[k] = "none" /\ k <= call
      BY <1>t, <1>d, <2>1, <3>1 DEF Decided, TypeOK, Calls
    <3>4. FateOf(k) = "released"
      BY <1>t, <2>1, <3>1, <3>3, FateValues
    <3> QED BY <3>2, <3>4, FateAt
  <2>6. QED BY <2>1, <2>2, <2>4, <2>5 DEF Abstract!SNext, Abstract!Answer, Calls
<1>12. ASSUME NEW m \in outgoing, Transmit(m)
      PROVE  Abstract!SNext \/ (Fate' = Fate /\ executed' = executed)
  <2>1. \A c \in Calls : FateOf(c)' = FateOf(c)
    BY <1>12 DEF Transmit, client, conn, FateOf
  <2>2. QED BY <1>12, <2>1, FateRests DEF Transmit, client, conn
<1>13. ASSUME NEW m \in inbox, Execute(m)
      PROVE  Abstract!SNext \/ (Fate' = Fate /\ executed' = executed)
  <2>1. m.call \in Calls
    BY <1>13, <1>t DEF TypeOK, Message
  <2>2. executed[m.call] = 0 /\ m.call <= call
    BY <1>13 DEF IInv, Copies, InFlight
  <2>3. executed' = [executed EXCEPT ![m.call] = 1]
    BY <1>13, <1>t, <2>1, <2>2 DEF Execute, TypeOK
  <2>4. FateOf(m.call) \in {"released", "unknown"}
    <3>1. outcome[m.call] \notin Unsent
      BY <1>13, <2>1 DEF IInv, Unreleased, Fresh, InFlight
    <3>2. outcome[m.call] \notin Answered
      BY <1>13, <2>1, <2>2 DEF IInv, HonestOutcome
    <3>3. outcome[m.call] = "none" => pc = "recv" /\ m.call = call
      BY <1>13, <1>t, <1>d, <2>1, <2>2
         DEF IInv, Unreleased, Fresh, InFlight, Decided, TypeOK, Calls
    <3>4. QED BY <1>t, <2>1, <2>2, <3>1, <3>2, <3>3, FateValues
              DEF TypeOK, Outcomes, Unsent, Answered
  <2>5. Fate' = Fate
    BY <1>13, FateRests DEF Execute, FateOf, client
  <2>6. Abstract!Run(m.call)
    BY <2>1, <2>2, <2>3, <2>4, <2>5, FateAt DEF Abstract!Run
  <2>7. QED BY <2>1, <2>6 DEF Abstract!SNext, Calls
<1>14. ASSUME NEW m \in inbox, LoseRequest(m)
      PROVE  Abstract!SNext \/ (Fate' = Fate /\ executed' = executed)
  <2>1. \A c \in Calls : FateOf(c)' = FateOf(c)
    BY <1>14 DEF LoseRequest, client, conn, FateOf
  <2>2. QED BY <1>14, <2>1, FateRests DEF LoseRequest, client, conn
<1>15. ASSUME NEW m \in replies, LoseReply(m)
      PROVE  Abstract!SNext \/ (Fate' = Fate /\ executed' = executed)
  <2>1. \A c \in Calls : FateOf(c)' = FateOf(c)
    BY <1>15 DEF LoseReply, client, conn, FateOf
  <2>2. QED BY <1>15, <2>1, FateRests DEF LoseReply, client, conn
<1>16. CASE UNCHANGED vars
  BY <1>16, FateRests DEF vars, FateOf
<1> QED
  BY <1>1, <1>2, <1>3, <1>4, <1>5, <1>6, <1>7, <1>8, <1>9, <1>10, <1>11, <1>12, <1>13, <1>14, <1>15, <1>16
     DEF Next, ClientStep, Proceed, Environment

\* send_and_receive implements the at-most-once submission: each of its steps,
\* and each step of the network and the server, is a step of Submission or
\* changes nothing Submission sees.
THEOREM TransportImplementsSubmission == Spec => ImplementsSubmission
<1>1. Init => Abstract!SInit
  BY RefinedInit
<1>2. IInv /\ IInv' /\ [Next]_vars => [Abstract!SNext]_(Abstract!svars)
  BY RefinedStep DEF Abstract!svars
<1> QED
  BY <1>1, <1>2, Invariant, PTL DEF Spec, ImplementsSubmission, Abstract!SSpec

-----------------------------------------------------------------------------
(* The time a call takes, for every timeout, retry count and back-off *)

LEMMA ProductNat == \A a, b \in Nat : a * b \in Nat
  BY SMT

LEMMA ProductMonotone == \A a, b, c \in Nat : a <= b => c * a <= c * b
<1> SUFFICES ASSUME NEW a \in Nat, NEW b \in Nat, NEW c \in Nat, a <= b
             PROVE  c * a <= c * b
  OBVIOUS
<1>1. c * (b - a) \in Nat
  BY ProductNat, SMT
<1>2. c * b = c * a + c * (b - a)
  BY SMT
<1> QED BY <1>1, <1>2, ProductNat, SMT

\* The sum of the pauses 1, 2, ..., k - 1.
Pauses(k) == (k * (k - 1)) \div 2

LEMMA PausesNat == \A k \in Nat : Pauses(k) \in Nat
<1> SUFFICES ASSUME NEW k \in Nat PROVE Pauses(k) \in Nat
  OBVIOUS
<1>1. CASE k = 0
  BY <1>1 DEF Pauses
<1>2. CASE k # 0
  <2>1. k * (k - 1) \in Nat
    BY <1>2, ProductNat
  <2> QED BY <2>1 DEF Pauses
<1> QED BY <1>1, <1>2

LEMMA PausesStep == \A k \in Nat : Pauses(k + 1) = Pauses(k) + k
<1> SUFFICES ASSUME NEW k \in Nat PROVE Pauses(k + 1) = Pauses(k) + k
  OBVIOUS
<1>1. (k + 1) * ((k + 1) - 1) = k * (k - 1) + 2 * k
  BY SMT
<1>2. k * (k - 1) \in Int
  BY SMT
<1>3. \A x \in Int : (x + 2 * k) \div 2 = x \div 2 + k
  BY SMT
<1> QED BY <1>1, <1>2, <1>3 DEF Pauses

LEMMA GlobalTimeoutType == GlobalTimeout \in Nat
<1>1. Pauses(MaxRetries + 1) \in Nat
  BY PausesNat, QmioAssumption
<1>2. (MaxRetries * (MaxRetries + 1)) \div 2 = Pauses(MaxRetries + 1)
  BY QmioAssumption DEF Pauses
<1>3. BackoffSum \in Nat
  BY <1>1, <1>2, ProductNat, QmioAssumption DEF BackoffSum
<1>4. (MaxRetries + 1) * 3 * RecvTimeout \in Nat
  BY ProductNat, QmioAssumption
<1> QED BY <1>3, <1>4, QmioAssumption DEF GlobalTimeout, DefaultGlobal

-----------------------------------------------------------------------------
(* How far a call can overrun its deadline *)

Slack == GlobalTimeout + MaxRetries * RetryBackoff

\* What is left of the slack at each point of an attempt.
Overrun ==
    GlobalTimeout > 0 =>
        /\ pc = "connect" => elapsed < Slack
        /\ pc = "send" => elapsed < Slack + RecvTimeout
        /\ pc = "recv" => elapsed < Slack + 2 * RecvTimeout
        /\ elapsed < Slack + 3 * RecvTimeout

LEMMA SlackType == Slack \in Nat /\ GlobalTimeout <= Slack
  BY GlobalTimeoutType, ProductNat, QmioAssumption DEF Slack

LEMMA OverrunStep ==
  TypeOK /\ Overrun /\ [Next]_vars => Overrun'
<1> SUFFICES ASSUME TypeOK, Overrun, [Next]_vars, GlobalTimeout > 0
             PROVE  Overrun'
  BY DEF Overrun
<1> USE QmioAssumption, SlackType, GlobalTimeoutType DEF Overrun, TypeOK
<1>1. CASE StartAttempt
  <2>1. RetryBackoff * attempt <= MaxRetries * RetryBackoff
        /\ RetryBackoff * attempt \in Nat
    <3>1. attempt \in Nat /\ attempt <= MaxRetries
      BY <1>1 DEF StartAttempt
    <3>2. RetryBackoff * attempt <= RetryBackoff * MaxRetries
      BY <3>1, ProductMonotone
    <3>3. RetryBackoff * MaxRetries = MaxRetries * RetryBackoff
      BY SMT
    <3> QED BY <3>1, <3>2, <3>3, ProductNat
  <2>2. elapsed' < Slack
    BY <1>1, <2>1, ProductNat DEF StartAttempt, Slack
  <2> QED BY <1>1, <2>2 DEF StartAttempt
<1>2. CASE Call \/ Exhausted \/ DeadlinePassed \/ KeepSocket
  BY <1>2 DEF Call, Exhausted, DeadlinePassed, KeepSocket, Return
<1>3. ASSUME NEW d \in 0 .. RecvTimeout,
             Connect(d) \/ ConnectFails(d) \/ Send(d) \/ SendFails(d)
                \/ RecvFails(d) \/ \E m \in replies : Recv(m, d)
      PROVE  Overrun'
  BY <1>3 DEF Connect, ConnectFails, Send, SendFails, RecvFails, Recv, Spend,
              Return, Retry
<1>4. CASE Environment
  BY <1>4 DEF Environment, Transmit, Execute, LoseRequest, LoseReply, client
<1>5. CASE UNCHANGED vars
  BY <1>5 DEF vars
<1> QED BY <1>1, <1>2, <1>3, <1>4, <1>5 DEF Next, ClientStep, Proceed

\* The deadline, looked at only at the start of an attempt, is overrun by less
\* than that attempt's pause and three blocking operations.
THEOREM DeadlineOverrun == Spec => []OverrunBounded
<1>1. Init => Overrun
  BY QmioAssumption, SlackType, GlobalTimeoutType DEF Init, Overrun
<1>2. Overrun => OverrunBounded
  BY DEF Overrun, OverrunBounded, Slack
<1> QED BY <1>1, <1>2, OverrunStep, TypeCorrect, PTL DEF Spec

-----------------------------------------------------------------------------
(* The default deadline *)

\* Time the first k attempts can take.
Budget(k) == k * (3 * RecvTimeout) + RetryBackoff * Pauses(k)

InBudget ==
    GlobalOverride = -1 =>
        /\ pc = "loop" => elapsed <= Budget(attempt)
        /\ pc = "connect" =>
              elapsed <= Budget(attempt) + RetryBackoff * attempt
        /\ pc = "send" =>
              elapsed <= Budget(attempt) + RetryBackoff * attempt + RecvTimeout
        /\ pc = "recv" =>
              elapsed <= Budget(attempt) + RetryBackoff * attempt
                            + 2 * RecvTimeout
        /\ pc = "idle" => elapsed <= DefaultGlobal

LEMMA BudgetType == \A k \in Nat : Budget(k) \in Nat
  BY ProductNat, PausesNat, QmioAssumption DEF Budget

LEMMA BudgetStep ==
  \A k \in Nat :
     Budget(k + 1) = Budget(k) + RetryBackoff * k + 3 * RecvTimeout
<1> SUFFICES ASSUME NEW k \in Nat
             PROVE  Budget(k + 1)
                       = Budget(k) + RetryBackoff * k + 3 * RecvTimeout
  OBVIOUS
<1>1. Pauses(k + 1) = Pauses(k) + k /\ Pauses(k) \in Nat
  BY PausesStep, PausesNat
<1>2. \A b, p, q \in Nat : b * (p + q) = b * p + b * q
  BY SMT
<1>3. RetryBackoff * Pauses(k + 1)
         = RetryBackoff * Pauses(k) + RetryBackoff * k
  BY <1>1, <1>2, QmioAssumption
<1>4. \A r \in Nat : (k + 1) * r = k * r + r
  BY SMT
<1>5. (k + 1) * (3 * RecvTimeout) = k * (3 * RecvTimeout) + 3 * RecvTimeout
  BY <1>4, QmioAssumption
<1> QED
  BY <1>3, <1>5, <1>1, ProductNat, QmioAssumption DEF Budget

LEMMA PausesMonotone ==
  \A j, k \in Nat : j <= k => Pauses(j) <= Pauses(k)
<1> SUFFICES ASSUME NEW j \in Nat, NEW k \in Nat, j <= k
             PROVE  Pauses(j) <= Pauses(k)
  OBVIOUS
<1>1. CASE j = 0
  BY <1>1, PausesNat DEF Pauses
<1>2. CASE j # 0
  <2>1. j * (j - 1) <= j * (k - 1)
    BY <1>2, ProductMonotone
  <2>2. (k - 1) * j <= (k - 1) * k
    BY <1>2, ProductMonotone
  <2>3. j * (k - 1) = (k - 1) * j /\ (k - 1) * k = k * (k - 1)
    BY SMT
  <2>4. j * (j - 1) \in Nat /\ k * (k - 1) \in Nat /\ j * (k - 1) \in Nat
    BY <1>2, ProductNat
  <2>5. j * (j - 1) <= k * (k - 1)
    BY <2>1, <2>2, <2>3, <2>4
  <2> QED BY <2>4, <2>5 DEF Pauses
<1> QED BY <1>1, <1>2

LEMMA BudgetMonotone ==
  \A j, k \in Nat : j <= k => Budget(j) <= Budget(k)
<1> SUFFICES ASSUME NEW j \in Nat, NEW k \in Nat, j <= k
             PROVE  Budget(j) <= Budget(k)
  OBVIOUS
<1>1. RetryBackoff * Pauses(j) <= RetryBackoff * Pauses(k)
  BY PausesMonotone, PausesNat, ProductMonotone, QmioAssumption
<1>2. (3 * RecvTimeout) * j <= (3 * RecvTimeout) * k
  BY ProductMonotone, QmioAssumption
<1>3. \A r \in Nat : r * j = j * r /\ r * k = k * r
  BY SMT
<1>4. j * (3 * RecvTimeout) <= k * (3 * RecvTimeout)
  BY <1>2, <1>3, QmioAssumption
<1>5. /\ RetryBackoff * Pauses(j) \in Nat /\ RetryBackoff * Pauses(k) \in Nat
      /\ j * (3 * RecvTimeout) \in Nat /\ k * (3 * RecvTimeout) \in Nat
  BY PausesNat, ProductNat, QmioAssumption
<1> QED BY <1>1, <1>4, <1>5 DEF Budget

\* The constructor's formula is the budget of all the attempts.
LEMMA DefaultIsBudget == DefaultGlobal = Budget(MaxRetries + 1)
<1>1. BackoffSum = RetryBackoff * Pauses(MaxRetries + 1)
  <2>1. (MaxRetries + 1) * ((MaxRetries + 1) - 1)
           = MaxRetries * (MaxRetries + 1)
    BY QmioAssumption, SMT
  <2> QED BY <2>1 DEF BackoffSum, Pauses
<1>2. \A n, r \in Nat : n * 3 * r = n * (3 * r)
  BY SMT
<1>3. (MaxRetries + 1) * 3 * RecvTimeout = (MaxRetries + 1) * (3 * RecvTimeout)
  BY <1>2, QmioAssumption
<1> QED BY <1>1, <1>3 DEF DefaultGlobal, Budget

LEMMA InBudgetStep == TypeOK /\ InBudget /\ [Next]_vars => InBudget'
<1> SUFFICES ASSUME TypeOK, InBudget, [Next]_vars, GlobalOverride = -1
             PROVE  InBudget'
  BY DEF InBudget
<1> USE QmioAssumption DEF InBudget, TypeOK
<1> DEFINE Pause == RetryBackoff * attempt
           Spent == Budget(attempt)
<1>1. /\ attempt \in Nat /\ Pause \in Nat /\ Spent \in Nat
      /\ Budget(attempt + 1) = Spent + Pause + 3 * RecvTimeout
  BY BudgetType, BudgetStep, ProductNat
<1>2. Budget(0) = 0
  BY ProductNat, PausesNat DEF Budget, Pauses
<1>3. pc # "idle" => Budget(attempt) <= DefaultGlobal
  BY <1>1, BudgetMonotone, DefaultIsBudget
<1>4. attempt <= MaxRetries => Budget(attempt + 1) <= DefaultGlobal
  BY <1>1, BudgetMonotone, DefaultIsBudget
<1>5. CASE Call
  BY <1>5, <1>2 DEF Call
<1>6. CASE Exhausted \/ DeadlinePassed
  <2>1. elapsed' <= DefaultGlobal
    BY <1>6, <1>1, <1>3, GlobalTimeoutType
       DEF Exhausted, DeadlinePassed, GlobalTimeout
  <2> QED BY <1>6, <2>1 DEF Exhausted, DeadlinePassed, Return
<1>7. CASE StartAttempt \/ KeepSocket
  BY <1>7, <1>1 DEF StartAttempt, KeepSocket
<1>8. ASSUME NEW d \in 0 .. RecvTimeout, Connect(d) \/ Send(d)
      PROVE  InBudget'
  BY <1>8, <1>1 DEF Connect, Send, Spend
<1>9. ASSUME NEW d \in 0 .. RecvTimeout, ConnectFails(d) \/ SendFails(d)
      PROVE  InBudget'
  <2>1. elapsed' <= Budget(attempt + 1)
    BY <1>9, <1>1 DEF ConnectFails, SendFails, Spend
  <2> QED BY <1>9, <2>1 DEF ConnectFails, SendFails, Retry
<1>10. ASSUME NEW d \in 0 .. RecvTimeout,
              RecvFails(d) \/ \E m \in replies : Recv(m, d)
       PROVE  InBudget'
  <2>1. elapsed' <= Budget(attempt + 1)
    BY <1>10, <1>1 DEF RecvFails, Recv, Spend
  <2>2. attempt <= MaxRetries
    BY <1>10 DEF RecvFails, Recv
  <2>3. elapsed' <= DefaultGlobal
    BY <1>1, <1>4, <1>10, <2>1, <2>2, GlobalTimeoutType
       DEF GlobalTimeout, RecvFails, Recv, Spend
  <2> QED BY <1>10, <2>3 DEF RecvFails, Recv, Return
<1>11. CASE Environment
  BY <1>11 DEF Environment, Transmit, Execute, LoseRequest, LoseReply, client
<1>12. CASE UNCHANGED vars
  BY <1>12 DEF vars
<1> QED
  BY <1>5, <1>6, <1>7, <1>8, <1>9, <1>10, <1>11, <1>12 DEF Next, ClientStep, Proceed

\* With the default deadline the header's bound is met: no call takes longer
\* than the global timeout.
THEOREM DefaultBoundsCall ==
  Spec => [](GlobalOverride = -1 => WithinGlobalTimeout)
<1>1. Init => InBudget
  BY GlobalTimeoutType DEF Init, InBudget, GlobalTimeout
<1>2. TypeOK /\ InBudget => (GlobalOverride = -1 => WithinGlobalTimeout)
  <2> SUFFICES ASSUME TypeOK, InBudget, GlobalOverride = -1
               PROVE  elapsed <= DefaultGlobal
    BY DEF WithinGlobalTimeout, GlobalTimeout
  <2> USE QmioAssumption DEF TypeOK, InBudget
  <2>1. /\ attempt \in Nat /\ RetryBackoff * attempt \in Nat
        /\ Budget(attempt) \in Nat
        /\ Budget(attempt + 1)
              = Budget(attempt) + RetryBackoff * attempt + 3 * RecvTimeout
    BY BudgetType, BudgetStep, ProductNat
  <2>2. attempt <= MaxRetries => Budget(attempt + 1) <= DefaultGlobal
    BY <2>1, BudgetMonotone, DefaultIsBudget
  <2>3. Budget(attempt) <= DefaultGlobal
    BY <2>1, BudgetMonotone, DefaultIsBudget
  <2>4. DefaultGlobal \in Nat
    BY GlobalTimeoutType DEF GlobalTimeout
  <2> QED BY <2>1, <2>2, <2>3, <2>4
<1> QED BY <1>1, <1>2, InBudgetStep, TypeCorrect, PTL DEF Spec

\* Unless every timeout is 0 the last attempt alone takes some of the budget.
LEMMA LastAttemptCounts ==
  DefaultGlobal > 0 => Budget(MaxRetries) < DefaultGlobal
<1> SUFFICES ASSUME DefaultGlobal > 0 PROVE Budget(MaxRetries) < DefaultGlobal
  OBVIOUS
<1> USE QmioAssumption
<1>1. /\ DefaultGlobal
            = Budget(MaxRetries) + RetryBackoff * MaxRetries + 3 * RecvTimeout
      /\ Budget(MaxRetries) \in Nat /\ RetryBackoff * MaxRetries \in Nat
  BY BudgetStep, BudgetType, ProductNat, DefaultIsBudget
<1>2. RetryBackoff * MaxRetries + 3 * RecvTimeout = 0 => FALSE
  <2> SUFFICES ASSUME RetryBackoff * MaxRetries + 3 * RecvTimeout = 0
               PROVE  FALSE
    OBVIOUS
  <2>1. RecvTimeout = 0 /\ RetryBackoff * MaxRetries = 0
    BY <1>1
  <2>2. \A b, n \in Nat : b * n = 0 => b = 0 \/ n = 0
    BY SMT
  <2>3. RetryBackoff * Pauses(MaxRetries) = 0
    <3>1. CASE RetryBackoff = 0
      BY <3>1, PausesNat
    <3>2. CASE MaxRetries = 0
      BY <3>2 DEF Pauses
    <3> QED BY <2>1, <2>2, <3>1, <3>2
  <2>4. MaxRetries * (3 * RecvTimeout) = 0
    BY <2>1
  <2> QED BY <1>1, <2>1, <2>3, <2>4 DEF Budget
<1> QED BY <1>1, <1>2

LEMMA NeverFiresStep ==
  TypeOK /\ InBudget /\ DefaultNeverFires /\ [Next]_vars => DefaultNeverFires'
<1> SUFFICES ASSUME TypeOK, InBudget, DefaultNeverFires, [Next]_vars,
                    GlobalOverride = -1, DefaultGlobal > 0, NEW c \in Calls
             PROVE  outcome'[c] # "deadline"
  BY DEF DefaultNeverFires
<1> USE QmioAssumption DEF TypeOK
<1>1. outcome[c] # "deadline"
  BY DEF DefaultNeverFires
<1>2. ~DeadlinePassed
  <2> SUFFICES ASSUME DeadlinePassed PROVE FALSE
    OBVIOUS
  <2>1. attempt \in Nat /\ attempt <= MaxRetries /\ elapsed <= Budget(attempt)
    BY DEF DeadlinePassed, InBudget
  <2>2. Budget(attempt) <= Budget(MaxRetries)
    BY <2>1, BudgetMonotone
  <2>3. Budget(attempt) \in Nat /\ Budget(MaxRetries) \in Nat
        /\ DefaultGlobal \in Nat /\ elapsed >= DefaultGlobal
    BY <2>1, BudgetType, GlobalTimeoutType DEF GlobalTimeout, DeadlinePassed
  <2> QED BY <2>1, <2>2, <2>3, LastAttemptCounts
<1>3. CASE ClientStep
  BY <1>1, <1>2, <1>3
     DEF ClientStep, Proceed, Exhausted, StartAttempt, KeepSocket, Connect,
         ConnectFails, Send, SendFails, RecvFails, Recv, Return, Retry
<1> QED
  BY <1>1, <1>3
     DEF Next, Call, Environment, Transmit, Execute, LoseRequest, LoseReply,
         client, vars

\* The default deadline is never what ends a call: it cuts no legitimate
\* sequence of retries short, whatever the timeouts (unless all are 0).
THEOREM DefaultDeadlineIsIdle == Spec => []DefaultNeverFires
<1>1. Init => InBudget /\ DefaultNeverFires
  BY GlobalTimeoutType, QmioAssumption
     DEF Init, InBudget, GlobalTimeout, DefaultNeverFires, Calls
<1> QED BY <1>1, InBudgetStep, NeverFiresStep, TypeCorrect, PTL DEF Spec

-----------------------------------------------------------------------------
(* The backend as a whole *)

\* The dispatcher's thread is in the transport only while it submits.
OneThread == stage = "idle" => pc = "idle"

\* With a device the buffer is the caller's circuit and nothing was simulated;
\* without one nothing is ever submitted, and the fallback holds the circuit.
OneSource ==
    /\ available => buffer = asked /\ answer.by # "local"
    /\ ~available => call = 0 /\ stage = "idle" /\ (ready => fallback = asked)

\* What is under way is the caller's circuit, and so is what has come back.
Delivery ==
    stage = "submitting" =>
        /\ call \in Calls /\ carried[call] = asked
        /\ pc = "idle" /\ outcome[call] = "answered" => received = asked

BInv == IInv /\ BTypeOK /\ OneThread /\ OneSource /\ Delivery

-----------------------------------------------------------------------------
(* The transport inside the backend *)

\* The backend drives the transport through its calls only: each step of the
\* whole is one of the transport's or none.
LEMMA TransportStep == [BNext]_bvars => [Next]_vars
<1> SUFFICES ASSUME [BNext]_bvars PROVE Next \/ vars' = vars
  BY DEF vars
<1>1. CASE Submit
  BY <1>1 DEF Submit, Next
<1>2. CASE Transport
  BY <1>2 DEF Transport, Next, ClientStep
<1>3. ASSUME NEW n \in Widths, Initialize(n) PROVE vars' = vars
  BY <1>3 DEF Initialize, transport
<1>4. ASSUME NEW g \in Gates, ApplyGate(g) PROVE vars' = vars
  BY <1>4 DEF ApplyGate, transport
<1>5. CASE BeginBatch \/ EndBatch \/ SampleLocally \/ TranslationFails \/ Submitted
           \/ SubmissionFails
  BY <1>5 DEF BeginBatch, EndBatch, SampleLocally, TranslationFails, Submitted,
              SubmissionFails, transport
<1>6. CASE bvars' = bvars
  BY <1>6 DEF bvars
<1> QED BY <1>1, <1>2, <1>3, <1>4, <1>5, <1>6 DEF BNext

\* Everything proved of the transport holds of the backend that uses it.
THEOREM BackendKeepsTransport == BSpec => Spec
<1>1. BInit => Init
  BY DEF BInit
<1> QED BY <1>1, TransportStep, PTL DEF BSpec, Spec

-----------------------------------------------------------------------------
(* The inductive invariant *)

LEMMA EmptyCircuit ==
    ASSUME NEW n \in Widths, asked \in Circuit, asked.id < MaxCircuits
    PROVE  Empty(n) \in Circuit /\ Len(Empty(n).gates) = 0
<1>1. asked.id + 1 \in 0 .. MaxCircuits
  BY QmioBackendAssumption DEF Circuit
<1> QED BY <1>1 DEF Empty, Circuit

LEMMA LongerCircuit ==
    ASSUME NEW c \in Circuit, NEW g \in Gates
    PROVE  WithGate(c, g) \in Circuit /\ Len(WithGate(c, g).gates) = Len(c.gates) + 1
BY DEF WithGate, Circuit

LEMMA InitBInv == BInit => BInv
<1> SUFFICES ASSUME BInit PROVE BInv
  OBVIOUS
<1> USE QmioBackendAssumption
<1>1. IInv
  BY InitIInv DEF BInit
<1>2. NoCircuit \in Circuit /\ Len(NoCircuit.gates) = 0
  BY DEF NoCircuit, Circuit
<1>3. BTypeOK
  <2>1. available \in BOOLEAN
    BY Zenon DEF BInit
  <2>2. /\ env \in Environments /\ stage = "idle" /\ ready = FALSE
        /\ carried = [c \in Calls |-> NoCircuit] /\ received = NoCircuit
        /\ buffer = NoCircuit /\ fallback = NoCircuit /\ asked = NoCircuit
        /\ answer = NoAnswer /\ batch = "off" /\ rowsBy = {}
    BY DEF BInit
  <2>3. ready \in BOOLEAN /\ stage \in {"idle", "submitting"} /\ batch \in {"off", "init", "build"}
    BY <2>2
  <2>4. /\ carried \in [Calls -> Circuit] /\ received \in Circuit
        /\ {buffer, fallback, asked} \subseteq Circuit
        /\ \A c \in {buffer, fallback, asked} : Len(c.gates) <= MaxGates
    BY <1>2, <2>2
  <2>5. /\ answer.by \in {"nobody", "device", "local"}
        /\ {answer.asked, answer.got} \subseteq Circuit
        /\ rowsBy \subseteq {"device", "local"}
    BY <1>2, <2>2 DEF NoAnswer
  <2> QED BY <2>1, <2>2, <2>3, <2>4, <2>5 DEF BTypeOK
<1>4. OneThread /\ OneSource /\ Delivery
  BY DEF BInit, Init, OneThread, OneSource, Delivery, NoAnswer
<1> QED BY <1>1, <1>3, <1>4 DEF BInv

\* The thread inside the transport, and the world around it: a call that ends
\* answered was answered by the reply to its own request.
LEMMA TransportKeeps == BInv /\ Transport => BTypeOK' /\ OneThread' /\ OneSource' /\ Delivery'
<1> SUFFICES ASSUME BInv, Transport
             PROVE  BTypeOK' /\ OneThread' /\ OneSource' /\ Delivery'
  OBVIOUS
<1> USE QmioAssumption
<1>0. UNCHANGED <<env, available, stage, carried, buffer, fallback, asked, ready,
                  answer, batch, rowsBy>>
  BY DEF Transport, building, answering
<1>1. CASE Environment /\ UNCHANGED received
  <2>1. UNCHANGED <<pc, call, outcome>>
    BY <1>1 DEF Environment, Transmit, Execute, LoseRequest, LoseReply, client
  <2> QED BY <1>0, <1>1, <2>1 DEF BInv, BTypeOK, OneThread, OneSource, Delivery
<1>2. CASE Proceed /\ UNCHANGED received
  <2>1. pc # "idle" /\ call' = call
    BY <1>2 DEF Proceed, Exhausted, DeadlinePassed, StartAttempt, KeepSocket, Connect,
        ConnectFails, Send, SendFails, RecvFails, Return, Retry
  <2>2. stage = "submitting" /\ call \in Calls /\ outcome[call] = "none"
    BY <2>1 DEF BInv, BTypeOK, OneThread, IInv, TypeOK, Decided
  <2>3. outcome'[call] # "answered"
    BY <1>2, <2>2 DEF Proceed, Exhausted, DeadlinePassed, StartAttempt, KeepSocket, Connect,
        ConnectFails, Send, SendFails, RecvFails, Return, Retry, BInv, IInv, TypeOK
  <2> QED BY <1>0, <1>2, <2>1, <2>2, <2>3
          DEF BInv, BTypeOK, OneThread, OneSource, Delivery
<1>3. ASSUME NEW m \in replies, NEW d \in 0 .. RecvTimeout, Recv(m, d),
             received' = carried[m.call]
      PROVE  BTypeOK' /\ OneThread' /\ OneSource' /\ Delivery'
  <2>1. pc = "recv" /\ m.sock = socket /\ call' = call
    BY <1>3 DEF Recv, Return
  <2>2. m.call = call /\ call \in Calls /\ stage = "submitting"
    BY <2>1 DEF BInv, IInv, TypeOK, Sockets, OneThread, BTypeOK
  <2>3. received' = asked /\ received' \in Circuit
    BY <1>3, <2>2 DEF BInv, Delivery, BTypeOK
  <2> QED BY <1>0, <2>1, <2>2, <2>3 DEF BInv, BTypeOK, OneThread, OneSource, Delivery
<1> QED BY <1>1, <1>2, <1>3 DEF Transport

LEMMA BInductiveStep == BInv /\ [BNext]_bvars => BInv'
<1> SUFFICES ASSUME BInv, [BNext]_bvars PROVE BInv'
  OBVIOUS
<1> DEFINE Rest == BTypeOK /\ OneThread /\ OneSource /\ Delivery
<1> USE QmioBackendAssumption
<1>0. IInv'
  BY TransportStep, InductiveStep DEF BInv
<1>1. ASSUME NEW n \in Widths, Initialize(n) PROVE Rest'
  <2>1. Empty(n) \in Circuit /\ Len(Empty(n).gates) = 0
    BY <1>1, EmptyCircuit DEF Initialize, BInv, BTypeOK
  <2>2. ready' \in BOOLEAN /\ batch' \in {"off", "build"}
    BY <1>1 DEF Initialize, BInv, BTypeOK
  <2>3. UNCHANGED <<pc, call, outcome>>
    BY <1>1 DEF Initialize, transport, vars
  <2>4. BTypeOK'
    BY <1>1, <2>1, <2>2, <2>3 DEF Initialize, BInv, BTypeOK
  <2> QED BY <1>1, <2>3, <2>4
          DEF Initialize, BInv, OneThread, OneSource, Delivery, BTypeOK
<1>2. ASSUME NEW g \in Gates, ApplyGate(g) PROVE Rest'
  <2>1. /\ WithGate(asked, g) \in Circuit
        /\ Len(WithGate(asked, g).gates) <= MaxGates
    <3>1. asked \in Circuit /\ Len(asked.gates) < MaxGates /\ Len(asked.gates) \in Nat
      BY <1>2 DEF ApplyGate, BInv, BTypeOK, Circuit
    <3> QED BY <3>1, LongerCircuit
  <2>2. IF available THEN buffer' = asked' /\ fallback' = fallback
                     ELSE fallback' = asked' /\ buffer' = buffer
    BY <1>2 DEF ApplyGate, BInv, OneSource
  <2>3. UNCHANGED <<pc, call, outcome>>
    BY <1>2 DEF ApplyGate, transport, vars
  <2>4. BTypeOK'
    BY <1>2, <2>1, <2>2 DEF ApplyGate, BInv, BTypeOK, answering
  <2> QED BY <1>2, <2>2, <2>3, <2>4
          DEF ApplyGate, BInv, OneThread, OneSource, Delivery, BTypeOK, answering
<1>3. ASSUME BeginBatch \/ EndBatch PROVE Rest'
  <2>1. UNCHANGED <<pc, call, outcome, env, available, stage, carried, received, buffer,
                    fallback, asked, ready, answer>>
        /\ batch' \in {"init", "off"} /\ (rowsBy' = rowsBy \/ rowsBy' = {})
    BY <1>3 DEF BeginBatch, EndBatch, transport, vars, building
  <2> QED BY <2>1 DEF BInv, BTypeOK, OneThread, OneSource, Delivery
<1>4. ASSUME SampleLocally PROVE Rest'
  <2>1. UNCHANGED <<pc, call, outcome, env, available, stage, carried, received, buffer,
                    fallback, asked, ready>>
        /\ answer' = [by |-> "local", asked |-> asked, got |-> fallback]
        /\ batch' \in {"init", "off"} /\ rowsBy' \subseteq {"device", "local"}
        /\ ~available
    BY <1>4 DEF SampleLocally, AnswerBy, transport, vars, BInv, BTypeOK
  <2> QED BY <2>1 DEF BInv, BTypeOK, OneThread, OneSource, Delivery
<1>5. ASSUME Submit PROVE Rest'
  <2>1. /\ pc' = "loop" /\ call' = call + 1 /\ UNCHANGED outcome
        /\ stage' = "submitting" /\ stage = "idle" /\ available
        /\ carried' = [carried EXCEPT ![call'] = buffer]
        /\ UNCHANGED <<env, available, received, buffer, fallback, asked, ready,
                       answer, batch, rowsBy>>
    BY <1>5 DEF Submit, Call, building, answering
  <2>2. call' \in Calls
    BY <1>5, QmioAssumption DEF Submit, Call, BInv, IInv, TypeOK, Calls
  <2>3. carried'[call'] = asked' /\ carried' \in [Calls -> Circuit]
    BY <2>1, <2>2 DEF BInv, BTypeOK, OneSource
  <2> QED BY <2>1, <2>2, <2>3 DEF BInv, BTypeOK, OneThread, OneSource, Delivery
<1>6. ASSUME Transport PROVE Rest'
  BY <1>6, TransportKeeps
<1>7. ASSUME Submitted PROVE Rest'
  <2>1. UNCHANGED <<pc, call, outcome, env, available, carried, received, buffer,
                    fallback, asked, ready>>
        /\ answer' = [by |-> "device", asked |-> asked, got |-> received]
        /\ batch' \in {"init", "off"} /\ rowsBy' \subseteq {"device", "local"}
        /\ available /\ stage' = "idle" /\ pc = "idle"
    BY <1>7 DEF Submitted, AnswerBy, transport, vars, BInv, BTypeOK, OneSource
  <2> QED BY <2>1 DEF BInv, BTypeOK, OneThread, OneSource, Delivery
<1>8. ASSUME TranslationFails \/ SubmissionFails PROVE Rest'
  <2>1. UNCHANGED <<pc, call, outcome, env, available, carried, received, buffer,
                    fallback, asked, rowsBy>>
        /\ answer' = [by |-> "nobody", asked |-> asked, got |-> NoCircuit]
        /\ batch' = "off" /\ ready' = FALSE
    BY <1>8 DEF TranslationFails, SubmissionFails, Rethrow, transport, vars
  <2>2. available /\ stage' = "idle" /\ pc = "idle"
    BY <1>8 DEF TranslationFails, SubmissionFails, transport, vars, BInv, BTypeOK, OneSource,
                OneThread
  <2>3. NoCircuit \in Circuit
    BY DEF NoCircuit, Circuit
  <2> QED BY <2>1, <2>2, <2>3 DEF BInv, BTypeOK, OneThread, OneSource, Delivery
<1>9. ASSUME bvars' = bvars PROVE Rest'
  BY <1>9 DEF bvars, vars, BInv, BTypeOK, OneThread, OneSource, Delivery
<1> QED BY <1>0, <1>1, <1>2, <1>3, <1>4, <1>5, <1>6, <1>7, <1>8, <1>9 DEF BInv, BNext

LEMMA BInvariant == BSpec => []BInv
BY InitBInv, BInductiveStep, PTL DEF BSpec

-----------------------------------------------------------------------------
(* What follows *)

\* Every variable of the backend keeps its type.
THEOREM BackendTypeCorrect == BSpec => []BTypeOK
<1>1. BInv => BTypeOK
  BY DEF BInv
<1> QED BY <1>1, BInvariant, PTL

\* An answer of the fallback means that nothing was ever submitted: the failure
\* of a device is never papered over by a simulation.
THEOREM NeverSilentlySimulated == BSpec => []NoSilentSimulation
<1>1. BInv => NoSilentSimulation
  BY DEF BInv, OneSource, NoSilentSimulation
<1> QED BY <1>1, BInvariant, PTL

LEMMA ContractStep == BInv /\ [BNext]_bvars => [Contract!RNext]_(Contract!rvars)
<1> SUFFICES ASSUME BInv, [BNext]_bvars
             PROVE  Contract!RNext \/ UNCHANGED <<asked, ~available, answer>>
  BY DEF Contract!rvars
<1>1. ASSUME NEW n \in Widths, Initialize(n) PROVE Contract!RNext
  <2>1. Contract!Begin(n)
    BY <1>1 DEF Initialize, Contract!Begin, Empty
  <2> QED BY <2>1 DEF Contract!RNext
<1>2. ASSUME NEW g \in Gates, ApplyGate(g) PROVE Contract!RNext
  <2>1. Contract!Extend(g)
    BY <1>2 DEF ApplyGate, Contract!Extend, WithGate, answering
  <2> QED BY <2>1 DEF Contract!RNext
<1>3. CASE BeginBatch \/ EndBatch \/ Submit \/ Transport
  BY <1>3 DEF BeginBatch, EndBatch, Submit, Transport, building, answering
<1>4. CASE SampleLocally
  <2>1. ~available /\ Contract!AnswerBy("local")
    BY <1>4 DEF SampleLocally, AnswerBy, Contract!AnswerBy, BInv, OneSource
  <2> QED BY <2>1 DEF Contract!RNext
<1>5. CASE Submitted
  <2>1. received = asked
    BY <1>5 DEF Submitted, BInv, Delivery
  <2>2. available /\ Contract!AnswerBy("device")
    BY <1>5, <2>1 DEF Submitted, AnswerBy, Contract!AnswerBy, BInv, OneSource, BTypeOK
  <2> QED BY <2>2 DEF Contract!RNext
<1>6. CASE TranslationFails \/ SubmissionFails
  <2>1. Contract!AnswerError
    BY <1>6 DEF TranslationFails, SubmissionFails, Rethrow, Contract!AnswerError, NoCircuit,
        Contract!NoCircuit
  <2> QED BY <2>1 DEF Contract!RNext
<1>7. CASE bvars' = bvars
  BY <1>7 DEF bvars
<1> QED BY <1>1, <1>2, <1>3, <1>4, <1>5, <1>6, <1>7 DEF BNext

\* QmioBackend implements the contract of a remote backend: whatever is lost,
\* retried or late, an answer is of the circuit that was asked.
THEOREM BackendImplementsContract == BSpec => ImplementsContract
<1>1. BInit => Contract!RInit
  BY DEF BInit, Contract!RInit, NoCircuit, Contract!NoCircuit, NoAnswer, Contract!NoAnswer
<1> QED BY <1>1, BInvariant, ContractStep, PTL
        DEF BSpec, ImplementsContract, Contract!RSpec
=============================================================================
