--------------------------- MODULE MCQmioBackend ---------------------------
EXTENDS QmioBackend

\* $QMIO_GLOBAL_TIMEOUT_MS is not set.
Unset == -1

\* A device named by the caller, and an empty $ZMQ_SERVER (no device).
TwoEnvironments ==
    {[argument |-> "tcp", zmqServer |-> "unset", store |-> "unset",
      file |-> "absent"],
     [argument |-> "", zmqServer |-> "", store |-> "set", file |-> "tcp"]}
=============================================================================
