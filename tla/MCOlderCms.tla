----------------------------- MODULE MCOlderCms -----------------------------
(***************************************************************************)
(* Instances of OlderCms for TLC.                                          *)
(***************************************************************************)
EXTENDS OlderCms, TLC

CONSTANTS other, echo   \* clients that make calls the programs do not make

OtherRequests ==
  {Subcribe(other, wan), SendMsg(other, ALL, d1),
   Subcribe(echo, wan), Unsubcribe(echo, ALL), SendToMsg(echo, echo, d1)}

Cast(calls) == [c \in Clients |-> IF c \in DOMAIN calls THEN calls[c] ELSE 0]

\* Programs alone and together, and clients that subscribe, publish to ALL, talk to
\* themselves and leave.
OlderCasts ==
  {Cast(echo :> 6), Cast(mqa :> 1 @@ other :> 2), Cast(mqa :> 1 @@ echo :> 2),
   Cast(mqa :> 1 @@ mqb :> 1), Cast(mqa :> 1 @@ send2 :> 3), Cast(mqb :> 1 @@ send1 :> 2)}

\* A receiver that is stopped, beside two subscribers.
StopCasts == {Cast(mqa :> 1 @@ mqb :> 1 @@ other :> 1)}
=============================================================================
