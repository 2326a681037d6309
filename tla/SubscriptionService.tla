------------------------ MODULE SubscriptionService ------------------------
(***************************************************************************)
(* What the broker promises its clients about subscriptions, without       *)
(* lists, row numbers, queues or loops: a set of subscriptions that each   *)
(* request changes in one step, and one answer at a time, which tells what *)
(* the request did.  The broker may drop a client, and may stop, which     *)
(* ends every subscription.                                                *)
(***************************************************************************)
EXTENDS Naturals, FiniteSets

CONSTANTS Clients,     \* who may subscribe
          TopicNames,  \* what they may subscribe to
          ALL,         \* the name that stands for all topics of a client
          EMPTY,       \* the topic that does not count
          max_topic,   \* how many topics there may be
          NoReply      \* no answer is on its way

VARIABLES subs,        \* the subscriptions: pairs of a client and a topic
          reply        \* the answer on its way, or NoReply

ServiceInit == subs = {} /\ reply = NoReply

SubsOf(c) == {s \in subs : s.client_name = c}

Known == {s.topic : s \in subs}

Answer(c, t, data) == reply' = [client_name |-> c, topic |-> t, data |-> data]

\* A topic that has a subscriber, or one more topic, is accepted.
Subscribe(c, t) ==
  /\ reply = NoReply
  /\ t \in Known \/ Cardinality(Known \ {EMPTY}) < max_topic
  /\ subs' = subs \cup {[client_name |-> c, topic |-> t]}
  /\ Answer(c, t, "SUBCRIBE_SUCCESS")

Refuse(c, t) ==
  /\ reply = NoReply
  /\ t \notin Known /\ Cardinality(Known \ {EMPTY}) = max_topic
  /\ Answer(c, t, "SUBCRIBE_FAIL")
  /\ UNCHANGED subs

\* One subscription ends, and only if there is one.
Unsubscribe(c, t) ==
  /\ reply = NoReply
  /\ subs' = subs \ {[client_name |-> c, topic |-> t]}
  /\ Answer(c, t, IF [client_name |-> c, topic |-> t] \in subs
                  THEN "UNSUBCRIBE_SUCCESS" ELSE "UNSUBCRIBE_FAIL")

\* All subscriptions of a client end at once: at its request, or because it
\* counts as crashed.
EndAll(c) ==
  /\ reply = NoReply
  /\ subs' = subs \ SubsOf(c)
  /\ UNCHANGED reply

\* The answer to the request for all; it is never a failure.
ConfirmAll(c) ==
  /\ reply = NoReply
  /\ SubsOf(c) = {}
  /\ Answer(c, ALL, "UNSUBCRIBE_SUCCESS")
  /\ UNCHANGED subs

\* The answer is delivered, or lost.
Delivered == reply' = NoReply /\ UNCHANGED subs

Stop == subs' = {} /\ reply' = NoReply

ServiceNext ==
  \/ \E c \in Clients : \/ EndAll(c) \/ ConfirmAll(c)
                        \/ \E t \in TopicNames :
                             \/ Subscribe(c, t) \/ Refuse(c, t)
                             \/ Unsubscribe(c, t)
  \/ Delivered
  \/ Stop

ServiceSpec == ServiceInit /\ [][ServiceNext]_<<subs, reply>>
=============================================================================
