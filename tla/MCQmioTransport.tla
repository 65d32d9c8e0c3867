-------------------------- MODULE MCQmioTransport --------------------------
(* $QMIO_GLOBAL_TIMEOUT_MS is set in every run of this module.             *)
EXTENDS QmioTransport
=============================================================================
