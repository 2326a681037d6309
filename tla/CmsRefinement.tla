--------------------------- MODULE CmsRefinement ---------------------------
(***************************************************************************)
(* The broker implements SubscriptionService: the loops over row numbers,  *)
(* which delete one row a step, look like one step from outside.           *)
(***************************************************************************)
EXTENDS HmxCms

\* Rows that are still in the list although their subscription has ended:
\* those a deletion loop has not come to yet.
EndedRows ==
  IF server = "delete" THEN index_gr
  ELSE IF server = "purge" THEN crash_gr ELSE {}

Subscriptions == {Row(head_client, i) : i \in Indexes(head_client) \ EndedRows}

\* The server is about to send an answer to a SUBSCRIBE or an UNSUBSCRIBE.
Replying ==
  /\ server \in {"send", "evict", "overwrite"}
  /\ call.msg.tag = "RESPONSE"
  /\ call.msg.data \in {"SUBCRIBE_SUCCESS", "SUBCRIBE_FAIL",
                        "UNSUBCRIBE_SUCCESS", "UNSUBCRIBE_FAIL"}

CurrentReply ==
  IF Replying
  THEN [client_name |-> call.msg.source, topic |-> call.msg.topic, data |-> call.msg.data]
  ELSE NoMsg

Service == INSTANCE SubscriptionService
             WITH subs <- Subscriptions, reply <- CurrentReply,
                  TopicNames <- FieldNames, NoReply <- NoMsg

\* The client list, its deletion loops and the answers, whatever the queues,
\* the crash list, restarts and the other clients do, amount to the service:
\* nobody is answered before what the answer says has happened, and nobody
\* else's subscription is touched.
ImplementsService == Service!ServiceSpec
=============================================================================
