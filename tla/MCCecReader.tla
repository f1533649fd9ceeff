---------------------------- MODULE MCCecReader ----------------------------
(* Instances of CecReader for TLC. *)
EXTENDS CecReader

CONSTANTS in1, in2

MCAddrs == {in1, in2}

\* One message of each kind that Decode tells apart; the two that name an
\* input are about this one or another, as the link changes.
MCSent ==
  {<<"standby", NoAddr>>, <<"view on", NoAddr>>, <<"path", in1>>, <<"source", in1>>}

=============================================================================
