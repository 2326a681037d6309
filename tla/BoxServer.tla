----------------------------- MODULE BoxServer -----------------------------
(***************************************************************************)
(* The broker of hung123/cms_box, told as the difference to CmsServer: the *)
(* same process, queues and lists, with the loops over row numbers walked  *)
(* from the first row up, a client list that accepts the index -1, and     *)
(* pointers that are used without looking whether they are NULL.           *)
(***************************************************************************)
EXTENDS CmsClient, BoxRegistry

\* The string behind CMS_UNSUBCRIBE_SUCCESS in this version's header.
UnsubcribeSuccess == "SUBCRIBE_SUCCESS"

\* cms_server_init, and what ends the process: as in CmsServer
BoxStart == ServerStart
BoxStop == ServerStop

\* A NULL pointer is used: the process dies, its queue stays.
Fault ==
  /\ ServerGone
  /\ UNCHANGED names
  /\ SetQueues(mqs)

\* cms_server_start: take the next message
BoxReceive == Receive

\* The handler ends without an answer.
NoAnswer ==
  /\ server' = "recv"
  /\ msg' = NoMsg
  /\ UNCHANGED <<mqd_tmp, call>>

\* SUBCRIBE: at the limit nothing is answered, not even to who has the topic
BoxSubcribe ==
  /\ server = "handle"
  /\ msg.tag = "SUBCRIBE"
  /\ \E num_topic \in box_count_topic(head_client) :
       LET data == box_create_data(msg.source, msg.topic)
       IN \/ /\ num_topic = max_topic
             /\ NoAnswer
             /\ UNCHANGED <<head_client, purged>>
          \/ /\ num_topic # max_topic
             /\ Open(msg.source)
             /\ Respond("SUBCRIBE_SUCCESS")
             /\ head_client' = IF box_index_by_data(head_client, data) # NotFound
                               THEN head_client
                               ELSE box_add_client(head_client, data)
             /\ purged' = purged \ {msg.source}
             /\ UNCHANGED msg
  /\ UNCHANGED <<mqs, names, ownDescs, head_monitor, loopVars, crash_gr, ret,
                 fixedVars>>

\* UNSUBCRIBE ALL: collect the client's rows, of which there may be none
BoxUnsubcribeAll ==
  /\ server = "handle"
  /\ msg.tag = "UNSUBCRIBE"
  /\ msg.topic = ALL
  /\ Open(msg.source)
  /\ index_gr' = box_index_by_name(head_client, msg.source)
  /\ server' = "delete"
  /\ UNCHANGED <<mqs, names, ownDescs, lists, msg, call, purgeVars, fixedVars,
                 targets, reached>>

\* one round of the loop that deletes them, from the first row up: a deletion
\* moves the rows behind it, whose numbers were taken before
BoxDeleteRow ==
  /\ server = "delete"
  /\ \E i \in index_gr :
       /\ IsFirst(i, index_gr)
       /\ head_client' = box_delete_client(head_client, i)
       /\ ret' = (ret /\ CanDelete(head_client, i))
       /\ index_gr' = index_gr \ {i}
  /\ UNCHANGED <<kernelVars, server, head_monitor, msg, call, crash_gr, fixedVars,
                 targets, reached, purged>>

BoxDeleteDone ==
  /\ server = "delete"
  /\ index_gr = {}
  /\ Respond(IF ret THEN UnsubcribeSuccess ELSE "UNSUBCRIBE_FAIL")
  /\ ret' = TRUE
  /\ UNCHANGED <<kernelVars, lists, msg, loopVars, crash_gr, fixedVars, purged>>

\* UNSUBCRIBE one topic: the index is used whether the row was found or not
BoxUnsubcribe ==
  /\ server = "handle"
  /\ msg.tag = "UNSUBCRIBE"
  /\ msg.topic # ALL
  /\ Open(msg.source)
  /\ LET i == box_index_by_data(head_client, box_create_data(msg.source, msg.topic))
     IN /\ ~DeleteFaults(head_client, i)
        /\ head_client' = box_delete_client(head_client, i)
        /\ Respond(IF CanDelete(head_client, i) THEN UnsubcribeSuccess ELSE "UNSUBCRIBE_FAIL")
  /\ UNCHANGED <<mqs, names, ownDescs, head_monitor, msg, loopVars, purgeVars, fixedVars>>

BoxUnsubcribeFault ==
  /\ server = "handle"
  /\ msg.tag = "UNSUBCRIBE"
  /\ msg.topic # ALL
  /\ DeleteFaults(head_client,
       box_index_by_data(head_client, box_create_data(msg.source, msg.topic)))
  /\ Fault

\* SEND: every row for "ALL", the rows of the topic otherwise
BoxSend ==
  /\ server = "handle"
  /\ msg.tag = "SEND"
  /\ index_gr' = IF msg.topic = ALL THEN box_length(head_client)
                 ELSE box_index_by_topic(head_client, msg.topic)
  /\ targets' = {Row(head_client, i).client_name : i \in index_gr'}
  /\ server' = "loop"
  /\ UNCHANGED <<kernelVars, lists, msg, call, purgeVars, fixedVars, reached>>

\* one round of its loop, from the first row up: the sender's own row, ...
BoxLoopSkip ==
  /\ server = "loop"
  /\ \E i \in index_gr :
       /\ IsFirst(i, index_gr)
       /\ HasIndex(head_client, i)
       /\ Row(head_client, i).client_name = msg.source
       /\ index_gr' = index_gr \ {i}
  /\ UNCHANGED <<kernelVars, server, lists, msg, call, purgeVars, fixedVars,
                 targets, reached>>

\* ... the row of another client, ...
BoxLoopOpen ==
  /\ server = "loop"
  /\ \E i \in index_gr :
       /\ IsFirst(i, index_gr)
       /\ HasIndex(head_client, i)
       /\ LET client_name == Row(head_client, i).client_name
          IN /\ client_name # msg.source
             /\ Open(client_name)
             /\ CallSend(msg, client_name)
       /\ index_gr' = index_gr \ {i}
  /\ UNCHANGED <<mqs, names, ownDescs, lists, msg, purgeVars, fixedVars, targets, reached>>

\* ... or a row a purge within the loop has moved or deleted
BoxLoopFault ==
  /\ server = "loop"
  /\ \E i \in index_gr : IsFirst(i, index_gr) /\ BoxNoRow(head_client, i)
  /\ Fault

BoxLoopDone == LoopDone

BoxSendTo == HandleSendTo

\* cms_msg_handler
BoxMsgHandler ==
  \/ BoxSubcribe
  \/ BoxUnsubcribeAll \/ BoxDeleteRow \/ BoxDeleteDone
  \/ BoxUnsubcribe \/ BoxUnsubcribeFault
  \/ BoxSend \/ BoxLoopSkip \/ BoxLoopOpen \/ BoxLoopFault \/ BoxLoopDone
  \/ BoxSendTo

---------------------------------------------------------------------------
(* cms_server_send and cms_full_queue_handler.                             *)

\* mq_send succeeds: the client's payload is forgotten
BoxSendOk == SendOk

\* the queue could not be opened; there is no retry
BoxSendBad == SendBad

\* mq_send fails with EAGAIN: store the message in the crash list or count it
BoxSendFull == SendFull

\* remove the oldest message, or give up when the client has emptied the queue
BoxEvict == Evict
BoxEvictEmpty == EvictEmpty

\* An answer to a client that had no payload yet: its pointer is still NULL when
\* the crash test reads it.
AnswerFaults == call.msg.tag = "RESPONSE" /\ ~call.pl

\* add the new message, and stop here unless the client counts as crashed
BoxOverwrite == server = "overwrite" /\ ~AnswerFaults /\ Overwrite

BoxAnswerFault ==
  /\ server = "overwrite"
  /\ AnswerFaults
  /\ ServerGone
  /\ UNCHANGED names
  /\ SetQueues(Enqueue(mqd_tmp, call.msg))

BoxCrashedAnswer == OverwriteCrashedAnswer
BoxCrashed == OverwriteCrashed

\* one round of the loop that deletes a crashed client's rows, from the first up
BoxPurgeRow ==
  /\ server = "purge"
  /\ \E i \in crash_gr :
       /\ IsFirst(i, crash_gr)
       /\ head_client' = box_delete_client(head_client, i)
       /\ ret' = (ret /\ CanDelete(head_client, i))
       /\ crash_gr' = crash_gr \ {i}
  /\ UNCHANGED <<kernelVars, server, head_monitor, msg, call, loopVars, fixedVars,
                 purged>>

BoxUnlink == Unlink

\* cms_server_send
BoxServerSend ==
  \/ BoxSendOk \/ BoxSendBad \/ BoxSendFull
  \/ BoxEvict \/ BoxEvictEmpty
  \/ BoxOverwrite \/ BoxAnswerFault \/ BoxCrashedAnswer \/ BoxCrashed
  \/ BoxPurgeRow \/ BoxUnlink

BoxServerStep == BoxReceive \/ BoxMsgHandler \/ BoxServerSend
=============================================================================
