---------------------------- MODULE MCCertificates ----------------------------
(* Instances of Certificates for TLC. *)
EXTENDS CertificatesProps, TLC

Symmetric == Permutations(Adders)

=============================================================================
