----------------------------- MODULE MCHmxCms -----------------------------
(***************************************************************************)
(* Instances of HmxCms for TLC: the requests the client programs make in   *)
(* each scenario.                                                          *)
(***************************************************************************)
EXTENDS CmsRefinement, TLC

CONSTANTS a, b, c3, wan, lan, d1, d2

\* The subscribers a and c3 of the group scenario make the same requests.
SubscribersAlike == Permutations({a, c3})

Sub(c, t) == [tag |-> "SUBCRIBE", source |-> c, topic |-> t, data |-> d1]
Unsub(c, t) == [tag |-> "UNSUBCRIBE", source |-> c, topic |-> t, data |-> d1]
Pub(c, t, d) == [tag |-> "SEND", source |-> c, topic |-> t, data |-> d]
To(c, t, d) == [tag |-> "SEND_TO", source |-> c, topic |-> t, data |-> d]

\* One subscriber, one publisher whose messages differ or not.
OverflowRequests ==
  {Sub(a, wan), Pub(b, wan, d1), Pub(b, wan, d2)}

\* A subscriber of two topics, and messages to one topic, to ALL and to the client:
\* a purge deletes several rows, within the loop of a SEND or outside one.
DropRequests ==
  {Sub(a, lan), Sub(a, wan), Pub(b, wan, d1), Pub(b, ALL, d1), To(b, a, d1)}

\* Two subscribers of one topic: purges of one while a loop visits both.
GroupRequests ==
  {Sub(a, wan), Sub(c3, wan), Pub(b, wan, d1), Pub(b, ALL, d1)}

\* Subscriptions against the topic limit, beside the messages of a publisher.
RegistryRequests ==
  [tag : {"SUBCRIBE"}, source : Clients, topic : Topics, data : {d1}] \cup
  [tag : {"UNSUBCRIBE"}, source : Clients, topic : Topics \cup {ALL}, data : {d1}] \cup
  {Pub(a, wan, d1)}

\* One subscriber and one publisher that come and go, as the server does.
OutageRequests ==
  {Sub(a, wan), Pub(b, wan, d1)}

\* A client with a row before the row of the other subscriber.
StaleRowRequests ==
  {Sub(a, lan), Sub(c3, wan), Sub(a, wan), Pub(b, wan, d1)}

\* A subscriber that also sends to itself beside a publisher that also controls the
\* server (known and unknown level, unknown control, receive error report); any of
\* them may block on the full server queue.
ProgressRequests ==
  {Sub(a, wan), Unsub(a, ALL), To(a, a, d1), Pub(b, ALL, d1)} \cup
  [tag : {"CONFIG"}, source : {b}, topic : {SET_LOG}, data : {d1, d2}] \cup
  [tag : {"CONFIG", "RESPONSE"}, source : {b}, topic : {wan}, data : {d1}]
=============================================================================
