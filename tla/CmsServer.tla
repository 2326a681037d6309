----------------------------- MODULE CmsServer -----------------------------
(***************************************************************************)
(* The broker process (hmxcms_server.c).  It is single threaded: one       *)
(* message of its queue is handled at a time.  A step ends at each system  *)
(* call on a queue another process uses; the private work between two      *)
(* system calls belongs to the step of the call it follows or precedes,    *)
(* except that the loops over row numbers take one step per row.           *)
(***************************************************************************)
EXTENDS PosixMq, CmsRegistry, CmsMonitor

CONSTANTS Topics,          \* topic names clients use
          ALL,             \* the destination "ALL"
          EMPTY,           \* the empty string as a topic
          SET_LOG,         \* CMS_CTRL_SET_LOG
          Datas,           \* payloads of the clients
          LogLevels,       \* the payloads that name a log level
          max_topic,       \* max_topic of cms_server.conf
          NoMsg,           \* no message in a local variable
          Outages,         \* which of "sigint", "kill" may hit the server
          MaxServerStarts  \* bound: times the server is started

ASSUME ServerAssumption ==
         /\ max_topic \in Nat \ {0}
         /\ LogLevels \subseteq Datas
         /\ MaxServerStarts \in Nat

Tags == {"SUBCRIBE", "UNSUBCRIBE", "SEND", "SEND_TO", "RESPONSE", "CONFIG"}

Replies == {"SUBCRIBE_SUCCESS", "SUBCRIBE_FAIL", "UNSUBCRIBE_SUCCESS",
            "UNSUBCRIBE_FAIL", "CONFIG_SUCCESS", "CONFIG_FAIL"}

\* What the source and topic fields may hold.
FieldNames == Topics \cup Clients \cup {ALL, EMPTY, SET_LOG}

\* cms_msg_t: the topic field of a SEND_TO carries the destination client
Messages == {m \in [tag : Tags, source : Clients, topic : FieldNames,
                    data : Datas \cup Replies] :
               m.tag = "SEND_TO" => m.topic \in Clients}

VARIABLES
  server,        \* where the server is; "down" when there is no process
  head_client,   \* the client list
  head_monitor,  \* the crash list
  msg,           \* the message cms_msg_handler works on
  index_gr,      \* cms_msg_handler: rows its loop still has to visit
  call,          \* cms_server_send / cms_full_queue_handler: arguments and locals
  crash_gr,      \* cms_full_queue_handler: rows of the crashed client left to delete
  ret,           \* whether every delete_client of the current loop succeeded
  log_level,     \* cms_set_log_level
  serverStarts,  \* how often the server was started (bounded by MaxServerStarts)
  targets,       \* history: subscribers of the destination when a SEND was taken up
  reached,       \* history: clients in whose queue the message of the current SEND was put
  purged         \* history: clients dropped as crashed that have not subscribed again

ownDescs == <<mqd, my_mq, mqserver, leaked>>
lists == <<head_client, head_monitor>>
loopVars == <<index_gr, targets, reached>>
purgeVars == <<crash_gr, ret, purged>>
fixedVars == <<log_level, serverStarts>>
serverVars == <<server, head_client, head_monitor, msg, index_gr, call, crash_gr,
                ret, log_level, serverStarts, targets, reached, purged>>

NoCall == [msg |-> NoMsg, client_name |-> SRV, pl |-> FALSE, oldest |-> NoMsg]

ServerInit ==
  /\ server = "down"
  /\ head_client = <<>>
  /\ head_monitor = <<>>
  /\ msg = NoMsg
  /\ index_gr = {}
  /\ call = NoCall
  /\ crash_gr = {}
  /\ ret = TRUE
  /\ log_level = "INFO"
  /\ serverStarts = 0
  /\ targets = {}
  /\ reached = {}
  /\ purged = {}

---------------------------------------------------------------------------
(* cms_server_init and the end of the process.                             *)

\* mq_open with O_CREAT: the queue a killed server left is taken over with
\* what it holds, otherwise a new one is created.
ServerStart ==
  /\ server = "down"
  /\ serverStarts < MaxServerStarts
  /\ IF names[SRV] # NoQ
     THEN /\ mqd' = names[SRV]
          /\ UNCHANGED names
     ELSE /\ Creatable # {}
          /\ mqd' = CHOOSE q \in Creatable : TRUE
          /\ names' = [names EXCEPT ![SRV] = mqd']
  /\ server' = "recv"
  /\ serverStarts' = serverStarts + 1
  /\ UNCHANGED <<mqs, mqd_tmp, my_mq, mqserver, leaked, lists, msg, call, loopVars,
                 purgeVars, log_level>>

\* All the memory and the descriptors of the process are gone.
ServerGone ==
  /\ server # "down"
  /\ server' = "down"
  /\ head_client' = <<>>
  /\ head_monitor' = <<>>
  /\ msg' = NoMsg
  /\ index_gr' = {}
  /\ call' = NoCall
  /\ crash_gr' = {}
  /\ ret' = TRUE
  /\ log_level' = "INFO"
  /\ targets' = {}
  /\ reached' = {}
  /\ purged' = {}
  /\ mqd' = NoQ
  /\ mqd_tmp' = NoQ
  /\ LeaksClosed(SRV)
  /\ UNCHANGED <<my_mq, mqserver, serverStarts>>

\* cms_sig_handler: SIGINT at any point runs cms_server_stop, which frees the
\* lists, unlinks the server queue and exits
ServerStop ==
  /\ "sigint" \in Outages
  /\ ServerGone
  /\ names' = [names EXCEPT ![SRV] = NoQ]
  /\ SetQueues(mqs)

\* any other death of the process: its queue stays
ServerKill ==
  /\ "kill" \in Outages
  /\ ServerGone
  /\ UNCHANGED names
  /\ SetQueues(mqs)

---------------------------------------------------------------------------
(* cms_server_start: take the next message.                                *)

Receive ==
  /\ server = "recv"
  /\ mqs[mqd] # <<>>
  /\ msg' = Head(mqs[mqd])
  /\ mqs' = Dequeue(mqd)
  /\ server' = "handle"
  /\ UNCHANGED <<names, ownDescs, mqd_tmp, lists, call, loopVars, purgeVars,
                 fixedVars>>

\* mq_open of a client queue by name, for the call of cms_server_send that follows
Open(client_name) == mqd_tmp' = names[client_name]

\* Call cms_server_send with message m for client_name
CallSend(m, client_name) ==
  /\ call' = [msg |-> m, client_name |-> client_name, pl |-> FALSE, oldest |-> NoMsg]
  /\ server' = "send"

\* Seeded fault: the answer keeps the tag of the request.
RespondSameTag(reply) ==
  CallSend([tag |-> msg.tag, source |-> msg.source, topic |-> msg.topic,
            data |-> reply], msg.source)

\* Answer the client that sent the message being handled
\* (cms_server_create_message, cms_server_send)
Respond(reply) ==
  CallSend([tag |-> "RESPONSE", source |-> msg.source, topic |-> msg.topic,
            data |-> reply], msg.source)

---------------------------------------------------------------------------
(* cms_msg_handler, one action per tag and outcome.                        *)

\* Seeded fault: the limit is tested with ">".
TopicLimitPassed ==
  /\ count_topic(head_client, EMPTY) > max_topic
  /\ get_index_by_topic(head_client, msg.topic) = {}

\* Seeded fault: the limit is tested for a topic that is known as well.
TopicLimitAny == count_topic(head_client, EMPTY) = max_topic

\* The topic is new and the limit is reached.
TopicLimitHit ==
  /\ count_topic(head_client, EMPTY) = max_topic
  /\ get_index_by_topic(head_client, msg.topic) = {}

HandleSubcribe ==
  /\ server = "handle"
  /\ msg.tag = "SUBCRIBE"
  /\ Open(msg.source)
  /\ LET data == create_data(msg.source, msg.topic)
     IN IF TopicLimitHit
        THEN /\ Respond("SUBCRIBE_FAIL")
             /\ UNCHANGED <<head_client, purged>>
        ELSE /\ Respond("SUBCRIBE_SUCCESS")
             /\ head_client' = IF get_index_by_data(head_client, data) # {}
                               THEN head_client
                               ELSE add_client(head_client, data)
             /\ purged' = purged \ {msg.source}
  /\ UNCHANGED <<mqs, names, ownDescs, head_monitor, msg, loopVars, crash_gr, ret,
                 fixedVars>>

\* UNSUBCRIBE ALL: collect the client's rows; without any the answer is success
\* and the "break" behind it leaves the client's queue open
HandleUnsubcribeAll ==
  /\ server = "handle"
  /\ msg.tag = "UNSUBCRIBE"
  /\ msg.topic = ALL
  /\ Open(msg.source)
  /\ index_gr' = get_index_by_name(head_client, msg.source)
  /\ IF index_gr' = {}
     THEN /\ Respond("UNSUBCRIBE_SUCCESS")
          /\ Leak(SRV, mqd_tmp')
     ELSE /\ server' = "delete"
          /\ UNCHANGED <<call, leaked>>
  /\ UNCHANGED <<mqs, names, mqd, my_mq, mqserver, lists, msg, purgeVars, fixedVars,
                 targets, reached>>

\* one round of the loop that deletes the rows, from the last row down
DeleteRow ==
  /\ server = "delete"
  /\ \E i \in index_gr :
       /\ IsLast(i, index_gr)
       /\ head_client' = delete_client(head_client, i)
       /\ ret' = (ret /\ CanDelete(head_client, i))
       /\ index_gr' = index_gr \ {i}
  /\ UNCHANGED <<kernelVars, server, head_monitor, msg, call, crash_gr, fixedVars,
                 targets, reached, purged>>

DeleteDone ==
  /\ server = "delete"
  /\ index_gr = {}
  /\ Respond(IF ret THEN "UNSUBCRIBE_SUCCESS" ELSE "UNSUBCRIBE_FAIL")
  /\ ret' = TRUE
  /\ UNCHANGED <<kernelVars, lists, msg, loopVars, crash_gr, fixedVars, purged>>

\* UNSUBCRIBE one topic; not found leaves the client's queue open as well
HandleUnsubcribe ==
  /\ server = "handle"
  /\ msg.tag = "UNSUBCRIBE"
  /\ msg.topic # ALL
  /\ Open(msg.source)
  /\ LET found == get_index_by_data(head_client, create_data(msg.source, msg.topic))
     IN \/ /\ found = {}
           /\ Respond("UNSUBCRIBE_FAIL")
           /\ Leak(SRV, mqd_tmp')
           /\ UNCHANGED head_client
        \/ \E i \in found :
             /\ head_client' = delete_client(head_client, i)
             /\ Respond(IF CanDelete(head_client, i)
                        THEN "UNSUBCRIBE_SUCCESS" ELSE "UNSUBCRIBE_FAIL")
             /\ UNCHANGED leaked
  /\ UNCHANGED <<mqs, names, mqd, my_mq, mqserver, head_monitor, msg, loopVars, purgeVars,
                 fixedVars>>

\* SEND: every row for "ALL", the rows of the topic otherwise
HandleSend ==
  /\ server = "handle"
  /\ msg.tag = "SEND"
  /\ index_gr' = IF msg.topic = ALL THEN Indexes(head_client)
                 ELSE get_index_by_topic(head_client, msg.topic)
  /\ targets' = {Row(head_client, i).client_name : i \in index_gr'}
  /\ server' = "loop"
  /\ UNCHANGED <<kernelVars, lists, msg, call, purgeVars, fixedVars, reached>>

\* one round of the SEND loop that sends nothing: no such row any more, or
\* the row is the sender's own
LoopSkip ==
  /\ server = "loop"
  /\ \E i \in index_gr :
       /\ IsLast(i, index_gr)
       /\ HasIndex(head_client, i) => Row(head_client, i).client_name = msg.source
       /\ index_gr' = index_gr \ {i}
  /\ UNCHANGED <<kernelVars, server, lists, msg, call, purgeVars, fixedVars,
                 targets, reached>>

\* one round of the SEND loop that opens the queue of the row's client
LoopOpen ==
  /\ server = "loop"
  /\ \E i \in index_gr :
       /\ IsLast(i, index_gr)
       /\ HasIndex(head_client, i)
       /\ LET client_name == Row(head_client, i).client_name
          IN /\ client_name # msg.source
             /\ Open(client_name)
             /\ CallSend(msg, client_name)
       /\ index_gr' = index_gr \ {i}
  /\ UNCHANGED <<mqs, names, ownDescs, lists, msg, purgeVars, fixedVars, targets, reached>>

LoopDone ==
  /\ server = "loop"
  /\ index_gr = {}
  /\ server' = "recv"
  /\ msg' = NoMsg
  /\ targets' = {}
  /\ reached' = {}
  /\ UNCHANGED <<kernelVars, lists, call, index_gr, purgeVars, fixedVars>>

HandleSendTo ==
  /\ server = "handle"
  /\ msg.tag = "SEND_TO"
  /\ Open(msg.topic)
  /\ CallSend(msg, msg.topic)
  /\ UNCHANGED <<mqs, names, ownDescs, lists, msg, loopVars, purgeVars, fixedVars>>

\* Seeded fault: the level is set without looking whether there is such a level.
set_log_any(level) == level

\* The level after a CONFIG that asks for one; an unknown level changes nothing.
set_log(level) == IF level \in LogLevels THEN level ELSE log_level

\* CONFIG: set the log level and answer; an unknown level is answered with a
\* failure
HandleConfigLog ==
  /\ server = "handle"
  /\ msg.tag = "CONFIG"
  /\ msg.topic = SET_LOG
  /\ Open(msg.source)
  /\ log_level' = set_log(msg.data)
  /\ Respond(IF msg.data \in LogLevels THEN "CONFIG_SUCCESS" ELSE "CONFIG_FAIL")
  /\ UNCHANGED <<mqs, names, ownDescs, lists, msg, loopVars, purgeVars, serverStarts>>

\* Seeded fault: the server exits on a message it has no handler for.
ExitIgnored ==
  /\ server = "handle"
  /\ msg.tag \in {"CONFIG", "RESPONSE"}
  /\ msg.topic # SET_LOG
  /\ ServerGone
  /\ UNCHANGED names
  /\ SetQueues(mqs)

\* CONFIG with any other control (the client's queue stays open), and RESPONSE (a
\* client reports a receive error, the server logs it): nothing is answered
HandleIgnored ==
  /\ server = "handle"
  /\ \/ msg.tag = "CONFIG" /\ msg.topic # SET_LOG /\ Leak(SRV, names[msg.source])
     \/ msg.tag = "RESPONSE" /\ UNCHANGED leaked
  /\ server' = "recv"
  /\ msg' = NoMsg
  /\ UNCHANGED <<mqs, names, mqd, mqd_tmp, my_mq, mqserver, lists, call, loopVars,
                 purgeVars, fixedVars>>

---------------------------------------------------------------------------
(* cms_server_send and cms_full_queue_handler.                             *)

\* cms_server_send returns: close the client queue, then go on with the loop
\* of a SEND or end the handler
Return ==
  /\ mqd_tmp' = NoQ
  /\ call' = NoCall
  /\ IF msg.tag = "SEND"
     THEN server' = "loop" /\ UNCHANGED msg
     ELSE server' = "recv" /\ msg' = NoMsg

\* mq_send succeeds.  For the history of a SEND this counts if the name of the
\* client still refers to the queue the message is put in.
Reaches ==
  /\ reached' = reached \cup
       {c \in {call.client_name} : msg.tag = "SEND" /\ names[c] = mqd_tmp}
  /\ UNCHANGED <<index_gr, targets>>

\* mq_send succeeds: the client is alive again, forget its payload
SendOk ==
  /\ server = "send"
  /\ mqd_tmp # NoQ
  /\ HasRoom(mqd_tmp, ClientCap)
  /\ head_monitor' = delete_from_monitor(head_monitor, call.client_name)
  /\ Reaches
  /\ Return
  /\ UNCHANGED <<names, ownDescs, head_client, purgeVars, fixedVars>>
  /\ SetQueues(Enqueue(mqd_tmp, call.msg))

\* the queue could not be opened: mq_send and the retry both fail (EBADF)
SendBad ==
  /\ server = "send"
  /\ mqd_tmp = NoQ
  /\ Return
  /\ UNCHANGED <<mqs, names, ownDescs, lists, loopVars, purgeVars, fixedVars>>

\* The payload stored for a message that found its queue full: an answer is
\* stored with source and topic in each other's place.
FullPayload ==
  LET m == call.msg
  IN IF m.tag = "RESPONSE"
     THEN create_payload(m.topic, m.source, m.data, call.client_name)
     ELSE create_payload(m.source, m.topic, m.data, call.client_name)

\* Seeded fault: the client queue is opened without O_NONBLOCK, so that mq_send
\* waits for room and never fails with EAGAIN.
SendBlocks == FALSE

\* mq_send fails with EAGAIN: store the message in the crash list or count it
SendFull ==
  /\ server = "send"
  /\ mqd_tmp # NoQ
  /\ ~HasRoom(mqd_tmp, ClientCap)
  /\ call' = [call EXCEPT !.pl = Monitored(head_monitor, call.client_name)]
  /\ head_monitor' = IF Monitored(head_monitor, call.client_name)
                     THEN CountOne(head_monitor, call.client_name)
                     ELSE add_to_monitor(head_monitor, FullPayload)
  /\ server' = "evict"
  /\ UNCHANGED <<kernelVars, head_client, msg, loopVars, purgeVars, fixedVars>>

\* Seeded fault: the oldest message is read but not removed.
EvictNothing ==
  /\ server = "evict"
  /\ mqs[mqd_tmp] # <<>>
  /\ call' = [call EXCEPT !.oldest = Head(mqs[mqd_tmp])]
  /\ server' = "overwrite"
  /\ UNCHANGED <<kernelVars, lists, msg, loopVars, purgeVars, fixedVars>>

\* remove the oldest message of the full queue
Evict ==
  /\ server = "evict"
  /\ mqs[mqd_tmp] # <<>>
  /\ call' = [call EXCEPT !.oldest = Head(mqs[mqd_tmp])]
  /\ mqs' = Dequeue(mqd_tmp)
  /\ server' = "overwrite"
  /\ UNCHANGED <<names, ownDescs, mqd_tmp, lists, msg, loopVars, purgeVars,
                 fixedVars>>

\* the client has emptied the queue meanwhile: give up
EvictEmpty ==
  /\ server = "evict"
  /\ mqs[mqd_tmp] = <<>>
  /\ Return
  /\ UNCHANGED <<names, ownDescs, lists, loopVars, purgeVars, fixedVars>>
  /\ SetQueues(mqs)

\* The removed message is the one the payload pl was stored for.  The branch
\* for an answer compares pl->topic with the source of the removed message.
OldestIsMonitored(pl, oldest) ==
  /\ pl.source = oldest.source
  /\ pl.topic = IF call.msg.tag = "RESPONSE" THEN oldest.source ELSE oldest.topic
  /\ pl.data = oldest.data

\* The client counts as crashed.
ClientCrashed ==
  /\ call.pl
  /\ LET pl == get_payload_monitor_list(head_monitor, call.client_name)
     IN pl.send_count >= max_msg /\ OldestIsMonitored(pl, call.oldest)

\* add the new message; the client is not taken for crashed
Overwrite ==
  /\ server = "overwrite"
  /\ ~ClientCrashed
  /\ Reaches
  /\ Return
  /\ UNCHANGED <<names, ownDescs, lists, purgeVars, fixedVars>>
  /\ SetQueues(Enqueue(mqd_tmp, call.msg))

\* an answer: the crashed client's payload goes, nothing else
OverwriteCrashedAnswer ==
  /\ server = "overwrite"
  /\ ClientCrashed
  /\ call.msg.tag = "RESPONSE"
  /\ head_monitor' = delete_from_monitor(head_monitor, call.client_name)
  /\ Return
  /\ UNCHANGED <<names, ownDescs, head_client, loopVars, purgeVars, fixedVars>>
  /\ SetQueues(Enqueue(mqd_tmp, call.msg))

\* a forwarded message: forget the payload and collect the client's rows
OverwriteCrashed ==
  /\ server = "overwrite"
  /\ ClientCrashed
  /\ call.msg.tag # "RESPONSE"
  /\ mqs' = Enqueue(mqd_tmp, call.msg)
  /\ head_monitor' = delete_from_monitor(head_monitor, call.client_name)
  /\ crash_gr' = get_index_by_name(head_client, call.client_name)
  /\ server' = "purge"
  /\ Reaches
  /\ UNCHANGED <<names, ownDescs, mqd_tmp, head_client, msg, call, ret, fixedVars,
                 purged>>

\* one round of the loop that deletes them, from the last row down
PurgeRow ==
  /\ server = "purge"
  /\ \E i \in crash_gr :
       /\ IsLast(i, crash_gr)
       /\ head_client' = delete_client(head_client, i)
       /\ ret' = (ret /\ CanDelete(head_client, i))
       /\ crash_gr' = crash_gr \ {i}
  /\ UNCHANGED <<kernelVars, server, head_monitor, msg, call, loopVars, fixedVars,
                 purged>>

\* unlink the name of the crashed client, whatever queue it refers to by now
Unlink ==
  /\ server = "purge"
  /\ crash_gr = {}
  /\ names' = IF ret THEN [names EXCEPT ![call.client_name] = NoQ] ELSE names
  /\ purged' = purged \cup {call.client_name}
  /\ ret' = TRUE
  /\ Return
  /\ UNCHANGED <<ownDescs, lists, loopVars, crash_gr, fixedVars>>
  /\ SetQueues(mqs)

---------------------------------------------------------------------------
\* What the running server does by itself.
ServerStep ==
  \/ Receive
  \/ HandleSubcribe \/ HandleUnsubcribeAll \/ DeleteRow \/ DeleteDone
  \/ HandleUnsubcribe \/ HandleSend \/ LoopSkip \/ LoopOpen \/ LoopDone
  \/ HandleSendTo \/ HandleConfigLog \/ HandleIgnored
  \/ SendOk \/ SendBad \/ SendFull
  \/ Evict \/ EvictEmpty
  \/ Overwrite \/ OverwriteCrashedAnswer \/ OverwriteCrashed
  \/ PurgeRow \/ Unlink

ServerOutage == ServerStop \/ ServerKill
=============================================================================
