--------------------------- MODULE EnrolmentDevice ---------------------------
(***************************************************************************)
(* Enrolment implements Device: the token is on its way while a thread has *)
(* been given it and has not stored its settings back.                     *)
(***************************************************************************)
EXTENDS Enrolment

Handed == \E t \in Active : pc[t] \in {"token", "kept"}

OneDevice == INSTANCE Device WITH handed <- Handed

\* However the setup screen's worker, the poll, the main loop and power cuts
\* interleave, the copies of self._config that the threads take and store back
\* are not to be told from one register that is read and written in one step:
\* nothing stored back undoes an address or a token, a device that holds a
\* token asks for none, and a token saved is used after a restart
\* (attempt_registration, _register_from_setup, _poll_registration).
ImplementsDevice == OneDevice!Spec

=============================================================================
