----------------------------- MODULE HungServer -----------------------------
(***************************************************************************)
(* The broker of hung/cms, a draft of the one of hung123/cms_box: the same *)
(* handler of messages, and a crash list that is searched by destination   *)
(* instead of by client.  Its crash test looks at the message the previous *)
(* full queue lost, in memory that the test itself frees.                  *)
(***************************************************************************)
EXTENDS BoxServer

VARIABLES
  oldest_cms_msg,  \* the message last evicted; NoMsg: nothing written there (yet, or since free)
  oldest_freed,    \* the memory was freed and not written since
  recv_ok,         \* the pointer cms_server_start never sets happens to be usable
  count_err        \* failed mq_receive calls in a row, empty queue aside

hungVars == <<oldest_cms_msg, oldest_freed, recv_ok, count_err>>
oldestVars == <<oldest_cms_msg, oldest_freed>>

HungInit ==
  /\ oldest_cms_msg = NoMsg
  /\ oldest_freed = FALSE
  /\ recv_ok = TRUE
  /\ count_err = 0

\* cms_server_init
HungStart ==
  /\ ServerStart
  /\ oldest_cms_msg' = NoMsg
  /\ oldest_freed' = FALSE
  /\ recv_ok' \in BOOLEAN
  /\ count_err' = 0

HungStop == ServerStop /\ UNCHANGED hungVars

\* cms_server_start: take the next message into wherever its pointer points
HungReceive ==
  /\ recv_ok
  /\ Receive
  /\ count_err' = 0
  /\ UNCHANGED <<oldestVars, recv_ok>>

\* the pointer is not usable: the message is gone (EFAULT), ...
HungReceiveLost ==
  /\ server = "recv"
  /\ ~recv_ok
  /\ mqs[mqd] # <<>>
  /\ count_err < 3
  /\ mqs' = Dequeue(mqd)
  /\ count_err' = count_err + 1
  /\ UNCHANGED <<names, ownDescs, mqd_tmp, serverVars, oldestVars, recv_ok>>

\* ... and the fourth time in a row the server stops
HungReceiveStop ==
  /\ server = "recv"
  /\ ~recv_ok
  /\ mqs[mqd] # <<>>
  /\ count_err = 3
  /\ ServerGone
  /\ names' = [names EXCEPT ![SRV] = NoQ]
  /\ SetQueues(Dequeue(mqd))
  /\ UNCHANGED hungVars

\* cms_msg_handler
HungMsgHandler == BoxMsgHandler /\ UNCHANGED hungVars

---------------------------------------------------------------------------
(* The crash list.  The destination of a payload is kept in its field      *)
(* topic.                                                                  *)

\* create_payload, add_to_monitor
hung_add_to_monitor(list, m, client_name) ==
  add_to_monitor(list, create_payload(m.source, m.topic, m.data, client_name))

\* delete_from_monitor: the first payload for the destination
hung_delete_from_monitor(list, destination) ==
  LET at == {k \in DOMAIN list : list[k].topic = destination}
      p == CHOOSE k \in at : \A j \in at : k <= j
  IN IF at = {} THEN list
     ELSE [k \in 1 .. Len(list) - 1 |-> IF k < p THEN list[k] ELSE list[k + 1]]

\* get_payload_monitor_list: the search ends before the last payload, ...
HungPositions(list, destination) ==
  {k \in DOMAIN list : list[k].topic = destination /\ (k = 1 \/ k < Len(list))}

\* ... and runs off a list of one that is for another destination.
HungSearchFaults(list, destination) == Len(list) = 1 /\ list[1].topic # destination

HungFirst(list, destination) ==
  CHOOSE k \in HungPositions(list, destination) :
    \A j \in HungPositions(list, destination) : k <= j

---------------------------------------------------------------------------
(* cms_server_send and cms_full_queue_handler.                             *)

Full == server = "send" /\ mqd_tmp # NoQ /\ ~HasRoom(mqd_tmp, ClientCap)

\* mq_send succeeds; payloads are not forgotten
HungSendOk ==
  /\ server = "send"
  /\ mqd_tmp # NoQ
  /\ HasRoom(mqd_tmp, ClientCap)
  /\ Reaches
  /\ Return
  /\ UNCHANGED <<names, ownDescs, lists, purgeVars, fixedVars, hungVars>>
  /\ SetQueues(Enqueue(mqd_tmp, call.msg))

HungSendBad == SendBad /\ UNCHANGED hungVars

\* an answer that finds the queue full is lost
HungAnswerLost ==
  /\ Full
  /\ call.msg.tag = "RESPONSE"
  /\ Return
  /\ UNCHANGED <<names, ownDescs, lists, loopVars, purgeVars, fixedVars, hungVars>>
  /\ SetQueues(mqs)

HungSearchFault ==
  /\ Full
  /\ call.msg.tag # "RESPONSE"
  /\ HungSearchFaults(head_monitor, call.msg.topic)
  /\ Fault
  /\ UNCHANGED hungVars

\* The results the test "pl is the message last evicted" may have: it adds up three
\* strcmp results, which cancel out when two or three differ, and the memory it
\* compares with may hold no message.
OldestAgrees(pl) ==
  IF oldest_cms_msg = NoMsg THEN BOOLEAN
  ELSE LET differs == {f \in {"source", "topic", "data"} : pl[f] # oldest_cms_msg[f]}
       IN CASE Cardinality(differs) = 0 -> {TRUE}
            [] Cardinality(differs) = 1 -> {FALSE}
            [] OTHER -> BOOLEAN

\* A forwarded message finds the queue full: the payload for its destination is
\* counted, whosever it is, or one is added.
HungFull ==
  /\ Full
  /\ call.msg.tag # "RESPONSE"
  /\ ~HungSearchFaults(head_monitor, call.msg.topic)
  /\ LET topic == call.msg.topic
         found == HungPositions(head_monitor, topic) # {}
         p == HungFirst(head_monitor, topic)
         counted == [head_monitor EXCEPT ![p].send_count = @ + 1]
     IN \/ /\ ~found
           /\ head_monitor' = hung_add_to_monitor(head_monitor, call.msg, call.client_name)
           /\ server' = "evict"
           /\ UNCHANGED <<call, crash_gr, oldestVars>>
        \/ /\ found
           /\ \/ counted[p].send_count < max_msg
              \/ FALSE \in OldestAgrees(counted[p])
           /\ head_monitor' = counted
           /\ server' = "evict"
           /\ UNCHANGED <<call, crash_gr, oldestVars>>
        \/ /\ found   \* the client of the payload counts as crashed; the message is dropped
           /\ counted[p].send_count >= max_msg
           /\ TRUE \in OldestAgrees(counted[p])
           /\ ~oldest_freed
           /\ head_monitor' = hung_delete_from_monitor(counted, counted[p].topic)
           /\ crash_gr' = box_index_by_name(head_client, counted[p].client_name)
           /\ call' = [call EXCEPT !.client_name = counted[p].client_name]
           /\ server' = "purge"
           /\ oldest_cms_msg' = NoMsg
           /\ oldest_freed' = TRUE
  /\ UNCHANGED <<kernelVars, head_client, msg, loopVars, ret, purged, fixedVars,
                 recv_ok, count_err>>

\* the same with memory that is free already: the C library ends the process
HungDoubleFree ==
  /\ Full
  /\ call.msg.tag # "RESPONSE"
  /\ oldest_freed
  /\ HungPositions(head_monitor, call.msg.topic) # {}
  /\ head_monitor[HungFirst(head_monitor, call.msg.topic)].send_count + 1 >= max_msg
  /\ ~HungSearchFaults(head_monitor, call.msg.topic)
  /\ Fault
  /\ UNCHANGED hungVars

\* remove the oldest message and remember it, ...
HungEvict ==
  /\ Evict
  /\ oldest_cms_msg' = Head(mqs[mqd_tmp])
  /\ oldest_freed' = FALSE
  /\ UNCHANGED <<recv_ok, count_err>>

HungEvictEmpty == EvictEmpty /\ UNCHANGED hungVars

\* ... and add the new one
HungOverwrite ==
  /\ server = "overwrite"
  /\ Reaches
  /\ Return
  /\ UNCHANGED <<names, ownDescs, lists, purgeVars, fixedVars, hungVars>>
  /\ SetQueues(Enqueue(mqd_tmp, call.msg))

HungPurgeRow == BoxPurgeRow /\ UNCHANGED hungVars

\* the name of the crashed client stays
HungPurgeDone ==
  /\ server = "purge"
  /\ crash_gr = {}
  /\ purged' = purged \cup {call.client_name}
  /\ ret' = TRUE
  /\ Return
  /\ UNCHANGED <<names, ownDescs, lists, loopVars, crash_gr, fixedVars, hungVars>>
  /\ SetQueues(mqs)

HungServerSend ==
  \/ HungSendOk \/ HungSendBad \/ HungAnswerLost \/ HungSearchFault
  \/ HungFull \/ HungDoubleFree
  \/ HungEvict \/ HungEvictEmpty \/ HungOverwrite
  \/ HungPurgeRow \/ HungPurgeDone

HungServerStep ==
  HungReceive \/ HungReceiveLost \/ HungReceiveStop \/ HungMsgHandler \/ HungServerSend
=============================================================================
