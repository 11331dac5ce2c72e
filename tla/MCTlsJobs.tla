------------------------------- MODULE MCTlsJobs -------------------------------
(* Instances of TlsJobs for TLC.                                            *)
EXTENDS TlsJobs

CONSTANTS w1, w2

=============================================================================
