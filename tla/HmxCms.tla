------------------------------ MODULE HmxCms ------------------------------
(***************************************************************************)
(* The whole system: the broker, its clients and the queues between them,  *)
(* and what it has to get right.                                           *)
(***************************************************************************)
EXTENDS CmsClient

vars == <<kernelVars, serverVars, clientVars>>

KernelInit ==
  /\ mqs = [q \in QIds |-> <<>>]
  /\ names = [n \in Names |-> NoQ]
  /\ mqd = NoQ
  /\ mqd_tmp = NoQ
  /\ my_mq = [c \in Clients |-> NoQ]
  /\ mqserver = [c \in Clients |-> NoQ]
  /\ leaked = [n \in Names |-> {}]

Init == KernelInit /\ ServerInit /\ ClientInit

Next ==
  \/ (ServerStart \/ ServerStep \/ ServerOutage) /\ UNCHANGED clientVars
  \/ \E c \in Clients : ClientStep(c)

Spec == Init /\ [][Next]_vars

---------------------------------------------------------------------------
(* Types.                                                                  *)

Rows == [client_name : Clients, topic : FieldNames]

Payloads == [source : FieldNames, topic : FieldNames,
             data : Datas \cup Replies, client_name : Clients, send_count : Nat]

Calls == [msg : Messages \cup {NoMsg}, client_name : Names, pl : BOOLEAN,
          oldest : Messages \cup {NoMsg}]

KernelTypeOK ==
  /\ mqs \in [QIds -> Seq(Messages)]
  /\ names \in [Names -> QIds \cup {NoQ}]
  /\ mqd \in QIds \cup {NoQ}
  /\ mqd_tmp \in QIds \cup {NoQ}
  /\ my_mq \in [Clients -> QIds \cup {NoQ}]
  /\ mqserver \in [Clients -> QIds \cup {NoQ}]
  /\ leaked \in [Names -> SUBSET QIds]

ServerTypeOK ==
  /\ server \in {"down", "recv", "handle", "delete", "loop", "send", "evict",
                 "overwrite", "purge"}
  /\ head_client \in Seq(Rows)
  /\ head_monitor \in Seq(Payloads)
  /\ msg \in Messages \cup {NoMsg}
  /\ index_gr \subseteq Nat
  /\ call \in Calls
  /\ crash_gr \subseteq Nat
  /\ ret \in BOOLEAN
  /\ log_level \in {"INFO"} \cup LogLevels
  /\ serverStarts \in Nat
  /\ targets \subseteq Clients
  /\ reached \subseteq Clients
  /\ purged \subseteq Clients

ClientTypeOK ==
  /\ client \in [Clients -> {"off", "idle", "sending", "waiting"}]
  /\ request \in [Clients -> Messages \cup {NoMsg}]
  /\ requests \in Nat
  /\ clientStarts \in Nat

\* Every variable, the messages in the queues, the rows, the payloads and the
\* locals of the handler included, has its type.
TypeOK == KernelTypeOK /\ ServerTypeOK /\ ClientTypeOK

\* What the locals hold where the server and the clients stand: a message and a
\* descriptor are there before they are used.
LocalsReady ==
  /\ server # "down" => mqd \in QIds
  /\ server \notin {"down", "recv"} => msg \in Messages
  /\ server \in {"send", "evict", "overwrite", "purge"} =>
       call.msg \in Messages /\ call.client_name \in Clients
  /\ server \in {"evict", "overwrite", "purge"} => mqd_tmp \in QIds
  /\ server = "overwrite" => call.oldest \in Messages
  /\ \A c \in Clients :
       /\ client[c] # "off" => my_mq[c] \in QIds
       /\ client[c] = "sending" => mqserver[c] \in QIds /\ request[c] \in Messages

---------------------------------------------------------------------------
(* The client list.                                                        *)

\* SUBCRIBE of a pair that is there already adds nothing (get_index_by_data
\* before add_client), so a client gets one copy of a message for its topic
\* and one delete_client ends a subscription: no two rows are equal.
NoDuplicateRows ==
  \A i, j \in DOMAIN head_client : head_client[i] = head_client[j] => i = j

\* The limit is tested with "==" and only for a topic that is new, so it works
\* only while the list never names more than max_topic topics.
TopicLimit == count_topic(head_client, EMPTY) <= max_topic

\* The loops of UNSUBSCRIBE ALL and of the purge hold row numbers taken before
\* the first deletion.  Because they delete from the last row down, the
\* numbers left stay exactly the rows the client still has.
DeleteIndexesFresh ==
  /\ server = "delete" => index_gr = get_index_by_name(head_client, msg.source)
  /\ server = "purge" => crash_gr = get_index_by_name(head_client, call.client_name)

\* For the same reason delete_client is never asked for a row that is not
\* there: UNSUBSCRIBE ALL never answers with a failure, and a purge never ends
\* without unlinking the client's queue name.
DeletesSucceed == ret

\* A client that was dropped as crashed and has not subscribed again receives
\* nothing by topic: the purge left it no row, and no other step gives it one.
PurgedHaveNoRows ==
  \A c \in purged : get_index_by_name(head_client, c) = {}

---------------------------------------------------------------------------
(* The crash list.                                                         *)

\* A payload is added only when the client has none, so that the first match
\* of get_payload_monitor_list is the payload and one delete_from_monitor
\* clears the client.
OneMonitorEntryPerClient ==
  \A i, j \in DOMAIN head_monitor :
    head_monitor[i].client_name = head_monitor[j].client_name => i = j

\* Payload e was stored for message m.
StoredFor(e, m) ==
  /\ e.data = m.data
  /\ IF m.tag = "RESPONSE" THEN e.source = m.topic /\ e.topic = m.source
                           ELSE e.source = m.source /\ e.topic = m.topic

\* What the crash test rests on: while a monitored client's queue is full, its
\* send_count tells where in the queue the message is that was stored when the
\* queue was first found full, so that this message is the one evicted when
\* send_count reaches the capacity, and only if the client took nothing.  The
\* client whose queue the server is working on is exempt until the server is done.
MonitorTracksQueue ==
  \A k \in DOMAIN head_monitor :
    LET e == head_monitor[k]
        q == names[e.client_name]
    IN (/\ q # NoQ
        /\ ~HasRoom(q, ClientCap)
        /\ e.send_count < ClientCap
        /\ ~(server \in {"evict", "overwrite"} /\ call.client_name = e.client_name))
       => StoredFor(e, mqs[q][ClientCap - e.send_count])

\* Only the server sends to client queues, so the room that mq_receive made
\* in a full queue is still there for the mq_send that follows.
RoomAfterEvict == server = "overwrite" => HasRoom(mqd_tmp, ClientCap)

---------------------------------------------------------------------------
(* Delivery.                                                               *)

\* When the loop of a SEND ends, its message was put in the queue of every
\* subscriber the destination had when it was taken up, the sender excepted, and
\* of nobody else.  Who is left out has nothing to read: its queue has no name any
\* more, or is empty, because the client emptied it while the full-queue handler
\* worked on it, or was started again.  For a topic the other exemption is a
\* subscriber dropped as crashed within the loop: its deletion moves the rows the
\* loop's row numbers stand for.
SendReachesSubscribers ==
  (server = "loop" /\ index_gr = {} /\ (msg.topic = ALL \/ targets \cap purged = {})) =>
    /\ reached \subseteq targets \ {msg.source}
    /\ \A c \in (targets \ {msg.source}) \ reached :
         names[c] = NoQ \/ mqs[names[c]] = <<>>

---------------------------------------------------------------------------
(* Answers.                                                                *)

Subscribed(c, topic) == get_index_by_data(head_client, create_data(c, topic)) # {}

\* The server takes c for crashed, or did and c has not subscribed again.
Dropped(c) == c \in purged \/ (server = "purge" /\ call.client_name = c)

\* An answer in the queue of a client belongs to the call the client waits in
\* and is still true: a client takes any RESPONSE for its own, and the server
\* answers by name.  Only a purge may undo what a SUBCRIBE_SUCCESS says.  (The
\* library has no call that sends CONFIG, so nobody waits for its answers.)
AnswersAreOwnAndTrue ==
  \A c \in Clients : my_mq[c] # NoQ =>
    \A k \in DOMAIN mqs[my_mq[c]] :
      LET m == mqs[my_mq[c]][k]
      IN m.tag = "RESPONSE" /\ m.data \notin {"CONFIG_SUCCESS", "CONFIG_FAIL"} =>
           /\ client[c] = "waiting"
           /\ m.topic = request[c].topic
           /\ m.data = "SUBCRIBE_SUCCESS" =>
                request[c].tag = "SUBCRIBE" /\ (Subscribed(c, m.topic) \/ Dropped(c))
           /\ m.data = "UNSUBCRIBE_SUCCESS" =>
                request[c].tag = "UNSUBCRIBE" /\ ~Subscribed(c, m.topic)

---------------------------------------------------------------------------
(* Progress.                                                               *)

\* The server loop runs for ever and none of its calls block (its descriptors
\* are O_NONBLOCK); a client in a blocking mq_send is woken in turn when the
\* server queue gets room; a client in its waiting loop keeps polling.
FairSpec ==
  /\ Spec
  /\ WF_vars(ServerStep /\ UNCHANGED clientVars)
  /\ \A c \in Clients : SF_vars(Send(c)) /\ WF_vars(Await(c))

\* The handler of every message ends: its loops shrink their row numbers, and
\* no full, empty, unlinked or orphaned client queue holds the server up.
HandlerReturns == server = "handle" ~> server \in {"recv", "down"}

\* A client blocked on the full server queue gets its message in, however the
\* other clients fill it: the server never waits for a client in turn.
SenderUnblocked ==
  \A c \in Clients : client[c] = "sending" ~> client[c] # "sending"

\* A call of cms_subcribe_topic or cms_unsubcribe_topic returns (or its
\* process ends).
SubscribeReturns ==
  \A c \in Clients : client[c] = "waiting" ~> client[c] # "waiting"

---------------------------------------------------------------------------
(* What comments and headers of the program say, and the code does not do. *)

\* hmxcms_server.c:94: "client crashed".  A client the server drops as crashed
\* has no running process.
OnlyCrashedClientsDropped ==
  server = "purge" => client[call.client_name] = "off"

\* hmxcms_lib.h:123, cms_client_send: "destination is group of clients
\* interested in the topic".  When the loop of a SEND ends the message was put in
\* the queue of every client that had the topic, the sender excepted, unless the
\* queue has no name any more or is empty.
TopicGroupReached ==
  (server = "loop" /\ index_gr = {}) =>
    \A c \in (targets \ {msg.source}) \ reached :
      names[c] = NoQ \/ mqs[names[c]] = <<>>
=============================================================================
