-------------------------- MODULE MC_HttpLifecycle --------------------------
(***************************************************************************)
(* Model-checking instances of HttpLifecycle.                              *)
(***************************************************************************)
EXTENDS HttpLifecycle, TLC

CONSTANTS c1, c2, bad, k1, k2

\* Two good certificates, so a rotation changes what is presented, and one
\* that OpenSSL rejects.
MCCerts == {c1, c2, bad}
MCValidCerts == {c1, c2}
MCClients == {k1, k2}

\* Clients are interchangeable, and so are the two good certificates.
MCSymmetry == Permutations(MCClients) \cup Permutations({c1, c2})

=============================================================================
