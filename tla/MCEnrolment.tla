----------------------------- MODULE MCEnrolment -----------------------------
(* Instances of Enrolment for TLC. *)
EXTENDS EnrolmentDevice

CONSTANTS Wrong, t1, t2

MCAddresses == {Server, Wrong}

MCThreads == {t1, t2}

\* Nothing, the server, or another address.
MCOffers == {NoUrl, Server, Wrong}

\* Nothing is configured, or an address, or a token, or both.
MCPresets ==
  {[url |-> u, token |-> k] : u \in {NoUrl, Server, Wrong}, k \in BOOLEAN}

=============================================================================
