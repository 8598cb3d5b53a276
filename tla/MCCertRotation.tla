---------------------------- MODULE MCCertRotation ----------------------------
(* CertRotation for TLC.                                                      *)
EXTENDS CertRotation

\* One CA that signs everything else.
OneCA == [c \in Cert |-> "ca"]
===============================================================================
