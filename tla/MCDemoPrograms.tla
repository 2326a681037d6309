--------------------------- MODULE MCDemoPrograms ---------------------------
(***************************************************************************)
(* Instances of DemoPrograms for TLC.                                      *)
(***************************************************************************)
EXTENDS DemoPrograms

CONSTANTS w0, d1, d2

OneNumbered == <<w0>>
TwoStrings == <<d1, d2>>

\* The receivers of the shared topics, a sender with each of them, and the sender to
\* a client with two receivers.
DemoLaunches ==
  {{HMX_CLIENT_2, HMX_CLIENT_4}, {HMX_CLIENT_1, HMX_CLIENT_2}, {HMX_CLIENT_1, HMX_CLIENT_4},
   {HMX_CLIENT_2, HMX_CLIENT_3, HMX_CLIENT_5}, {HMX_CLIENT_3, HMX_CLIENT_4, HMX_CLIENT_5}}

\* What the programs send
ProgramRequests == UNION {{Program(c)[k] : k \in DOMAIN Program(c)} : c \in Clients}
=============================================================================
