----------------------------- MODULE DemoProofs -----------------------------
(***************************************************************************)
(* Theorems about the programs of the demo: what a receiver was told about *)
(* its subscriptions stays true, whatever programs run together and        *)
(* however long their lists of calls are.                                  *)
(***************************************************************************)
EXTENDS DemoPrograms, CmsAnswerProofs

---------------------------------------------------------------------------
(* The programs.                                                           *)

\* What a program may send: it neither unsubscribes nor configures the broker.
Sent == {m \in Messages : m.tag \in {"SUBCRIBE", "SEND", "SEND_TO"}}

LEMMA StringsAreData == \A k \in CallNumbers : String(k) \in Datas
<1>1. strings \in Seq(Datas)
  BY ProgramAssumption
<1>2. \A n \in Nat : \A k \in 1 .. 2 * n : (k + 1) \div 2 \in 1 .. n
  OBVIOUS
<1>3. \A k \in CallNumbers : (k + 1) \div 2 \in DOMAIN strings
  BY <1>1, <1>2 DEF CallNumbers
<1>4. QED
  BY <1>1, <1>3 DEF String

\* The programs are lists of SUBSCRIBE, SEND and SEND_TO calls.
LEMMA ProgramCalls ==
  ASSUME NEW c \in Clients
  PROVE  Program(c) \in Seq([tag : {"SUBCRIBE", "SEND", "SEND_TO"}, source : Clients,
                            topic : Topics \cup Clients, data : Datas])
<1> DEFINE Called == [tag : {"SUBCRIBE", "SEND", "SEND_TO"}, source : Clients,
                      topic : Topics \cup Clients, data : Datas]
<1>1. \A d \in Clients, t \in Topics \cup Clients :
        /\ cms_subcribe_topic(d, t) \in Called
        /\ \A x \in Datas : /\ cms_client_send(d, t, x) \in Called
                           /\ cms_client_send_to(d, t, x) \in Called
  BY ProgramAssumption DEF cms_subcribe_topic, cms_client_send, cms_client_send_to
<1>2. /\ {HMX_CLIENT_1, HMX_CLIENT_2, HMX_CLIENT_3, HMX_CLIENT_4, HMX_CLIENT_5} \subseteq Clients
      /\ numbered \in Seq(Topics) /\ {wan, lan, gpon} \subseteq Topics
      /\ 2 * Len(strings) \in Nat
  BY ProgramAssumption
<1> HIDE DEF Called
<1>3. \A d \in Clients, topics \in Seq(Topics) : Subcribes(d, topics) \in Seq(Called)
  <2> SUFFICES ASSUME NEW d \in Clients, NEW topics \in Seq(Topics)
               PROVE  Subcribes(d, topics) \in Seq(Called)
    OBVIOUS
  <2>1. \A k \in DOMAIN topics : cms_subcribe_topic(d, topics[k]) \in Called
    BY <1>1
  <2>2. Len(topics) \in Nat /\ DOMAIN topics = 1 .. Len(topics)
    OBVIOUS
  <2>3. QED
    BY <2>1, <2>2 DEF Subcribes
<1>4. receive_wan \in Seq(Called) /\ receive_lan \in Seq(Called) /\ receive_gpon \in Seq(Called)
  <2>1. /\ <<wan>> \o numbered \in Seq(Topics) /\ <<lan>> \in Seq(Topics)
        /\ <<gpon>> \o numbered \in Seq(Topics)
    BY <1>2
  <2>2. QED
    BY <1>2, <1>3, <2>1 DEF receive_wan, receive_lan, receive_gpon
<1>5. send_wan_gpon \in Seq(Called)
  BY <1>1, <1>2, StringsAreData DEF send_wan_gpon, CallNumbers
<1>6. send_wan_lan \in Seq(Called)
  BY <1>1, <1>2, StringsAreData DEF send_wan_lan, CallNumbers
<1>7. CASE c = HMX_CLIENT_1
  BY <1>5, <1>7, ProgramAssumption DEF Program, Called
<1>8. CASE c = HMX_CLIENT_2
  BY <1>4, <1>8, ProgramAssumption DEF Program, Called
<1>9. CASE c = HMX_CLIENT_3
  BY <1>4, <1>9, ProgramAssumption DEF Program, Called
<1>10. CASE c = HMX_CLIENT_4
  BY <1>4, <1>10, ProgramAssumption DEF Program, Called
<1>11. CASE c = HMX_CLIENT_5
  BY <1>6, <1>11, ProgramAssumption DEF Program, Called
<1>12. QED
  BY <1>7, <1>8, <1>9, <1>10, <1>11, ProgramAssumption

\* The call a program makes next is a request.
LEMMA NextCall ==
  ASSUME NEW c \in Clients, NEW k \in Nat \ {0}, ~(k > Len(Program(c)))
  PROVE  Program(c)[k] \in Sent \cap Requests
<1> DEFINE Called == [tag : {"SUBCRIBE", "SEND", "SEND_TO"}, source : Clients,
                      topic : Topics \cup Clients, data : Datas]
<1>0. Program(c) \in Seq(Called) /\ \A m \in Called : m.tag \in {"SUBCRIBE", "SEND", "SEND_TO"}
  BY ProgramCalls
<1> HIDE DEF Called
<1>1. k \in DOMAIN Program(c) /\ Program(c)[k] \in Called
  BY <1>0
<1>2. Program(c)[k] \in Requests /\ Program(c)[k] \in Messages
  BY <1>1, RequestAssumption, ClientAssumption
<1>3. QED
  BY <1>0, <1>1, <1>2 DEF Sent

\* Where the programs stand, and the shape of the histories.
Standing ==
  /\ pc \in [Clients -> Nat \ {0}]
  /\ told = [c \in Clients |-> told[c]]
  /\ refused = [c \in Clients |-> refused[c]]

\* A step of the broker or a program is one of the composed system, in which no
\* process ends.
LEMMA ProgramSteps ==
  ASSUME Standing, [DemoNext]_demoVars
  PROVE  \/ RunServer /\ ServerStart /\ UNCHANGED clientVars
         \/ RunServer /\ ServerStep /\ UNCHANGED clientVars
         \/ \E c \in Clients :
              /\ \/ Start(c) \/ Send(c) \/ Await(c) \/ Take(c)
                 \/ \E r \in Sent \cap Requests : Call(c, r)
              /\ RunAwait(c) \/ (UNCHANGED <<told, refused>> /\ ~Await(c))
              /\ UNCHANGED missed
         \/ UNCHANGED <<vars, told, refused, missed>>
<1>1. CASE RunServer
  BY <1>1 DEF RunServer
<1>2. ASSUME NEW c \in Clients, RunCall(c)
      PROVE  \/ \E r \in Sent \cap Requests : Call(c, r)
             \/ UNCHANGED vars
  BY <1>2, NextCall DEF RunCall, Finished, Standing
<1>3. ASSUME NEW c \in Clients, RunProgram(c)
      PROVE  \/ /\ \/ Start(c) \/ Send(c) \/ Await(c) \/ Take(c)
                   \/ \E r \in Sent \cap Requests : Call(c, r)
                /\ RunAwait(c) \/ (UNCHANGED <<told, refused>> /\ ~Await(c))
                /\ UNCHANGED missed
             \/ UNCHANGED <<vars, told, refused, missed>>
  <2>1. CASE RunInit(c)
    BY <2>1 DEF RunInit, programVars, Start, Await
  <2>2. CASE RunCall(c)
    BY <1>2, <2>2 DEF RunCall, programVars, Await
  <2>3. CASE RunSend(c)
    BY <2>3 DEF RunSend, programVars, Send, Await
  <2>4. CASE RunAwait(c)
    BY <2>4 DEF RunAwait
  <2>5. CASE RunReceive(c)
    BY <2>5 DEF RunReceive, programVars, Take, Await
  <2>6. QED
    BY <1>3, <2>1, <2>2, <2>3, <2>4, <2>5 DEF RunProgram
<1>4. CASE UNCHANGED demoVars
  BY <1>4 DEF demoVars, programVars
<1>5. QED
  BY <1>1, <1>3, <1>4 DEF DemoNext

LEMMA StandingStep == Standing /\ [DemoNext]_demoVars => Standing'
<1> SUFFICES ASSUME Standing, [DemoNext]_demoVars PROVE Standing'
  OBVIOUS
<1> USE DEF Standing
<1>1. CASE RunServer \/ UNCHANGED demoVars
  BY <1>1 DEF RunServer, demoVars, programVars
<1>2. ASSUME NEW c \in Clients, RunProgram(c)
      PROVE  Standing'
  <2>1. CASE RunCall(c)
    <3>1. UNCHANGED <<told, refused>> /\ pc' = [pc EXCEPT ![c] = @ + 1]
      BY <2>1 DEF RunCall
    <3>2. QED
      BY <3>1
  <2>2. CASE RunAwait(c)
    <3>1. /\ UNCHANGED pc
          /\ \E add : told' = [told EXCEPT ![c] = @ \cup add] \/ UNCHANGED told
          /\ \E add : refused' = [refused EXCEPT ![c] = @ \cup add] \/ UNCHANGED refused
      BY <2>2 DEF RunAwait
    <3>2. QED
      BY <3>1
  <2>3. CASE RunInit(c) \/ RunSend(c) \/ RunReceive(c)
    BY <2>3 DEF RunInit, RunSend, RunReceive, programVars
  <2>4. QED
    BY <1>2, <2>1, <2>2, <2>3 DEF RunProgram
<1>3. QED
  BY <1>1, <1>2 DEF DemoNext

\* The programs and the broker behave as clients and broker of HmxCms do, so what is
\* proved of it is true of them.
THEOREM ProgramsAreClients == DemoSpec => Spec /\ []Standing
<1>1. DemoInit => Init /\ Standing
  BY DEF DemoInit, Standing
<1>2. Standing /\ [DemoNext]_demoVars => [Next]_vars
  <2> SUFFICES ASSUME Standing, [DemoNext]_demoVars PROVE [Next]_vars
    OBVIOUS
  <2>1. ASSUME NEW c \in Clients,
               \/ Start(c) \/ Send(c) \/ Await(c) \/ Take(c)
               \/ \E r \in Sent \cap Requests : Call(c, r)
        PROVE  Next
    BY <2>1 DEF Next, ClientStep
  <2>2. CASE (ServerStart \/ ServerStep) /\ UNCHANGED clientVars
    BY <2>2 DEF Next
  <2>3. QED
    BY <2>1, <2>2, ProgramSteps
<1>3. QED
  BY <1>1, <1>2, StandingStep, PTL DEF DemoSpec, Spec

\* No program is killed and none sends CONFIG, and the broker is not stopped.
LEMMA DemoAnswers == DemoSpec => []AnswerInv
<1>1. /\ TypeInv /\ TypeInv' /\ QueueInv /\ RowsInv /\ AnswerInv /\ Standing
      /\ [DemoNext]_demoVars
      => AnswerInv'
  <2> SUFFICES ASSUME TypeInv, TypeInv', QueueInv, RowsInv, AnswerInv, Standing,
                      [DemoNext]_demoVars
               PROVE  AnswerInv'
    OBVIOUS
  <2>1. ASSUME NEW c \in Clients,
               \/ Start(c) \/ Send(c) \/ Await(c) \/ Take(c)
               \/ \E r \in Sent \cap Requests : Call(c, r)
        PROVE  AnswerInv'
    <3>1. \A r \in Sent \cap Requests : r \in Messages /\ r.tag # "CONFIG"
      BY DEF Sent
    <3>2. QED
      BY <2>1, <3>1, ClientAnswers
  <2>2. CASE (ServerStart \/ ServerStep) /\ UNCHANGED clientVars
    BY <2>2, ServerAnswers
  <2>3. CASE UNCHANGED vars
    BY <2>3, StutterAnswers
  <2>4. QED
    BY <2>1, <2>2, <2>3, ProgramSteps
<1>2. DemoInit => AnswerInv
  BY InitAnswers DEF DemoInit
<1>3. QED
  BY <1>1, <1>2, ProgramsAreClients, TypeInvariant, QueueInvariant, RowsInvariant, PTL
     DEF DemoSpec

---------------------------------------------------------------------------
(* The invariant.                                                          *)

\* No client is, or is being, dropped as crashed.
NobodyDropped == missed = {} /\ server # "purge"

\* The limit is reached without the topic.
Excluded(topic) ==
  /\ topic \notin ListTopics(head_client)
  /\ count_topic(head_client, EMPTY) = max_topic

\* What is on its way here: requests, and answers to SUBSCRIBE.  What refuses a topic
\* is still so, as long as nobody is dropped.
Usual ==
  Sent \cup
  {m \in Answers :
     \/ m.data = "SUBCRIBE_SUCCESS"
     \/ m.data = "SUBCRIBE_FAIL" /\ (NobodyDropped => Excluded(m.topic))}

Traffic ==
  /\ mqs \in [QIds -> Seq(Usual)]
  /\ server \notin {"down", "recv"} => msg \in Usual
  /\ server \in {"send", "evict", "overwrite", "purge"} => call.msg \in Usual
  /\ server # "delete"
  /\ \A c \in Clients : client[c] = "sending" => request[c] \in Sent

\* What the programs were told is still so: what was granted except to a client that
\* is dropped, what was refused as long as nobody is.
WhatWasTold ==
  /\ purged \subseteq missed
  /\ \A c \in Clients \ missed :
       (server = "purge" => call.client_name # c) => \A topic \in told[c] : Subscribed(c, topic)
  /\ NobodyDropped => \A c \in Clients : \A topic \in refused[c] : Excluded(topic)

DemoInv == Traffic /\ WhatWasTold

---------------------------------------------------------------------------
(* What stays.                                                             *)

\* Who is dropped is missed.
LEMMA DroppedStay ==
  ASSUME RunServer, ServerStart \/ ServerStep
  PROVE  /\ NobodyDropped' => NobodyDropped
         /\ missed \subseteq missed'
         /\ purged \subseteq missed => purged' \subseteq missed'
         /\ server = "purge" /\ server' # "purge" => call.client_name \in missed'
         /\ server = "purge" /\ server' = "purge" => UNCHANGED call
<1>1. missed' = missed \cup purged'
  BY DEF RunServer
<1>2. server = "purge" /\ server' # "purge" => call.client_name \in purged'
  BY DEF ServerStep, ServerStart, Receive, HandleSubcribe, HandleUnsubcribeAll, DeleteRow,
     DeleteDone, HandleUnsubcribe, HandleSend, LoopSkip, LoopOpen, LoopDone, HandleSendTo,
     HandleConfigLog, HandleIgnored, SendOk, SendBad, SendFull, Evict, EvictEmpty,
     Overwrite, OverwriteCrashedAnswer, OverwriteCrashed, PurgeRow, Unlink
<1>3. server = "purge" /\ server' = "purge" => UNCHANGED call
  BY DEF ServerStep, ServerStart, Receive, HandleSubcribe, HandleUnsubcribeAll, DeleteRow,
     DeleteDone, HandleUnsubcribe, HandleSend, LoopSkip, LoopOpen, LoopDone, HandleSendTo,
     HandleConfigLog, HandleIgnored, SendOk, SendBad, SendFull, Evict, EvictEmpty,
     Overwrite, OverwriteCrashedAnswer, OverwriteCrashed, PurgeRow, Unlink, Return
<1>4. QED
  BY <1>1, <1>2, <1>3 DEF NobodyDropped

\* What the handlers of this module do to the client list: the limit refuses a topic,
\* a row is added within it, or a row of the client that is dropped goes.
LEMMA ListSteps ==
  ASSUME TypeInv, RowsInv, Traffic, ServerStart \/ ServerStep
  PROVE  \/ UNCHANGED head_client
         \/ /\ HandleSubcribe /\ ~TopicLimitHit
            /\ head_client' = add_client(head_client, create_data(msg.source, msg.topic))
         \/ /\ server = "purge" /\ server' = "purge" /\ UNCHANGED call
            /\ \E i \in get_index_by_name(head_client, call.client_name) :
                 head_client' = delete_client(head_client, i)
<1>1. ~HandleUnsubcribe /\ ~DeleteRow
  BY DEF HandleUnsubcribe, DeleteRow, Traffic, Usual, Sent, Answers
<1>2. CASE HandleSubcribe
  BY <1>2, SubcribeList
<1>3. CASE PurgeRow
  BY <1>3 DEF PurgeRow, RowsInv, DeleteIndexesFresh
<1>4. CASE Listless
  BY <1>4, ListlessStep
<1>5. QED
  BY <1>1, <1>2, <1>3, <1>4 DEF ServerStep, Listless

\* A topic that is excluded stays so: only topics of the list are granted now.
LEMMA ExcludedStays ==
  ASSUME TypeInv, RowsInv, Traffic, ServerStart \/ ServerStep, NobodyDropped', NEW topic,
         Excluded(topic)
  PROVE  Excluded(topic)'
<1>1. head_client \in Seq(Rows)
  BY DEF TypeInv, TypeOK, ServerTypeOK
<1>2. CASE UNCHANGED head_client
  BY <1>2 DEF Excluded
<1>3. CASE /\ HandleSubcribe /\ ~TopicLimitHit
           /\ head_client' = add_client(head_client, create_data(msg.source, msg.topic))
  <2>1. get_index_by_topic(head_client, msg.topic) # {}
    BY <1>3 DEF TopicLimitHit, Excluded
  <2>2. msg.topic \in ListTopics(head_client)
    BY <2>1 DEF get_index_by_topic, ListTopics
  <2>3. /\ create_data(msg.source, msg.topic) \in Rows
        /\ create_data(msg.source, msg.topic).topic = msg.topic
    BY <1>3, SubcribeList DEF create_data
  <2>4. ListTopics(head_client') = ListTopics(head_client)
    <3> DEFINE data == create_data(msg.source, msg.topic)
    <3>1. data \in Rows /\ data.topic = msg.topic
      BY <2>3
    <3> HIDE DEF data
    <3>2. ListTopics(add_client(head_client, data)) = ListTopics(head_client) \cup {data.topic}
      BY <1>1, <3>1, AddedTopics
    <3>3. head_client' = add_client(head_client, data)
      BY <1>3 DEF data
    <3>4. QED
      BY <2>2, <3>1, <3>2, <3>3
  <2>5. QED
    BY <2>4 DEF Excluded, count_topic
<1>4. server' # "purge"
  BY DEF NobodyDropped
<1>5. QED
  BY <1>2, <1>3, <1>4, ListSteps

\* A client that is not being dropped stays subscribed.
LEMMA SubscribedStays ==
  ASSUME TypeInv, TypeInv', RowsInv, Traffic, ServerStart \/ ServerStep, NEW c \in Clients,
         server' = "purge" => call'.client_name # c, NEW topic, Subscribed(c, topic)
  PROVE  Subscribed(c, topic)'
<1>1. head_client \in Seq(Rows)
  BY DEF TypeInv, TypeOK, ServerTypeOK
<1>2. CASE UNCHANGED head_client
  BY <1>2 DEF Subscribed
<1>3. CASE /\ HandleSubcribe
           /\ head_client' = add_client(head_client, create_data(msg.source, msg.topic))
  <2>1. RowSet(head_client) \subseteq RowSet(head_client')
    BY <1>1, <1>3, SubcribeList, AddedRows
  <2>2. QED
    BY <2>1, SubscribedRow
<1>4. CASE /\ server' = "purge" /\ UNCHANGED call
           /\ \E i \in get_index_by_name(head_client, call.client_name) :
                head_client' = delete_client(head_client, i)
  BY <1>4, DeletionKeepsOthers
<1>5. QED
  BY <1>2, <1>3, <1>4, ListSteps

---------------------------------------------------------------------------
(* Traffic.                                                                *)

\* What the queues hold after the system calls of a step.
LEMMA QueuesHold ==
  ASSUME NEW S, mqs \in [QIds -> Seq(S)], NEW q \in QIds,
         \/ UNCHANGED mqs \/ SetQueues(mqs)
         \/ mqs[q] # <<>> /\ mqs' = Dequeue(q)
         \/ \E m \in S : mqs' = Enqueue(q, m) \/ SetQueues(Enqueue(q, m))
  PROVE  mqs' \in [QIds -> Seq(S)]
<1>1. mqs[q] # <<>> => Dequeue(q) \in [QIds -> Seq(S)]
  BY HeadTailType DEF Dequeue
<1>2. \A m \in S : Enqueue(q, m) \in [QIds -> Seq(S)]
  BY AppendType DEF Enqueue
<1>3. ASSUME NEW content \in [QIds -> Seq(S)], SetQueues(content)
      PROVE  mqs' \in [QIds -> Seq(S)]
  BY <1>3 DEF SetQueues
<1>4. QED
  BY <1>1, <1>2, <1>3

\* What the server passes on or answers.
LEMMA ServerTraffic ==
  ASSUME TypeInv, TypeInv', RowsInv, Traffic, UNCHANGED clientVars,
         ServerStart \/ ServerStep, Usual \subseteq Usual'
  PROVE  Traffic'
<1> USE DEF ownDescs, lists, loopVars, purgeVars, fixedVars, kernelVars
<1>1. /\ mqs \in [QIds -> Seq(Usual')]
      /\ server \notin {"down", "recv"} => msg \in Usual'
      /\ server \in {"send", "evict", "overwrite", "purge"} => call.msg \in Usual'
  <2>1. Seq(Usual) \subseteq Seq(Usual')
    OBVIOUS
  <2>2. QED
    BY <2>1 DEF Traffic
<1>2. /\ server # "down" => mqd \in QIds
      /\ server \in {"evict", "overwrite", "purge"} => mqd_tmp \in QIds
      /\ mqd_tmp \in QIds \cup {NoQ} /\ call \in Calls
      /\ server \notin {"down", "recv"} => msg \in Messages
      /\ server \in {"send", "evict", "overwrite", "purge"} => call.msg \in Messages
  BY DEF TypeInv, TypeOK, KernelTypeOK, ServerTypeOK, LocalsReady
<1>3. ~HandleUnsubcribe /\ ~HandleUnsubcribeAll /\ ~DeleteRow /\ ~DeleteDone /\ ~HandleConfigLog
  BY DEF HandleUnsubcribe, HandleUnsubcribeAll, DeleteRow, DeleteDone, HandleConfigLog,
     Traffic, Usual, Sent, Answers
<1>4. \A c \in Clients : client'[c] = "sending" => request'[c] \in Sent
  BY DEF Traffic, clientVars
<1> HIDE DEF Usual
<1>5. CASE Receive
  <2>1. Head(mqs[mqd]) \in Usual' /\ mqs' \in [QIds -> Seq(Usual')]
    BY <1>1, <1>2, <1>5, QueuesHold, HeadTailType DEF Receive
  <2>2. msg' = Head(mqs[mqd]) /\ server' = "handle"
    BY <1>5 DEF Receive
  <2>3. QED
    BY <1>4, <2>1, <2>2 DEF Traffic
<1>6. CASE Evict
  <2>1. mqs' \in [QIds -> Seq(Usual')]
    BY <1>1, <1>2, <1>6, QueuesHold DEF Evict
  <2>2. server = "evict" /\ server' = "overwrite" /\ UNCHANGED msg /\ call'.msg = call.msg
    BY <1>2, <1>6 DEF Evict, Calls
  <2>3. QED
    BY <1>1, <1>4, <2>1, <2>2 DEF Traffic
<1>7. CASE SendOk \/ Overwrite \/ OverwriteCrashedAnswer
  <2>1. mqd_tmp \in QIds /\ call.msg \in Usual' /\ SetQueues(Enqueue(mqd_tmp, call.msg)) /\ Return
        /\ server \in {"send", "overwrite"}
    BY <1>1, <1>2, <1>7 DEF SendOk, Overwrite, OverwriteCrashedAnswer
  <2>2. mqs' \in [QIds -> Seq(Usual')]
    BY <1>1, <2>1, QueuesHold
  <2>3. QED
    BY <1>1, <1>4, <2>1, <2>2 DEF Traffic, Return
<1>8. CASE OverwriteCrashed
  <2>1. mqd_tmp \in QIds /\ call.msg \in Usual' /\ mqs' = Enqueue(mqd_tmp, call.msg)
        /\ UNCHANGED <<msg, call>> /\ server' = "purge" /\ server = "overwrite"
    BY <1>1, <1>2, <1>8 DEF OverwriteCrashed
  <2>2. mqs' \in [QIds -> Seq(Usual')]
    BY <1>1, <2>1, QueuesHold
  <2>3. QED
    BY <1>1, <1>4, <2>1, <2>2 DEF Traffic
<1>9. CASE EvictEmpty \/ Unlink \/ SendBad
  <2>1. mqs' \in [QIds -> Seq(Usual')]
    <3>1. mqd \in QIds /\ (UNCHANGED mqs \/ SetQueues(mqs))
      BY <1>2, <1>9 DEF EvictEmpty, Unlink, SendBad
    <3>2. QED
      BY <1>1, <3>1, QueuesHold
  <2>2. Return /\ server \in {"evict", "purge", "send"}
    BY <1>9 DEF EvictEmpty, Unlink, SendBad
  <2>3. QED
    BY <1>1, <1>4, <2>1, <2>2 DEF Traffic, Return
<1>10. CASE HandleSubcribe
  <2>1. UNCHANGED <<mqs, msg>> /\ server = "handle" /\ server' = "send"
        /\ msg \in Messages /\ msg \in Usual'
    BY <1>1, <1>2, <1>10 DEF HandleSubcribe, Respond, CallSend
  <2>2. \A reply \in Replies : Respond(reply) =>
          /\ call'.msg \in Answers /\ call'.msg.data = reply /\ call'.msg.topic = msg.topic
    BY <2>1, AnswerType DEF Respond, CallSend, Answers
  <2>3. call'.msg \in Usual'
    <3>1. CASE TopicLimitHit
      <4>1. msg.topic \notin ListTopics(head_client)
        BY <3>1 DEF TopicLimitHit, get_index_by_topic, ListTopics
      <4>2. Excluded(msg.topic)'
        BY <1>10, <2>1, <3>1, <4>1 DEF HandleSubcribe, TopicLimitHit, Excluded
      <4>3. Respond("SUBCRIBE_FAIL") /\ "SUBCRIBE_FAIL" \in Replies
        BY <1>10, <3>1 DEF HandleSubcribe, Replies
      <4>4. (/\ call.msg \in Answers /\ call.msg.data = "SUBCRIBE_FAIL"
             /\ Excluded(call.msg.topic))'
        BY <2>1, <2>2, <4>2, <4>3 DEF Excluded
      <4>5. QED
        BY <4>4 DEF Usual
    <3>2. CASE ~TopicLimitHit
      <4>1. Respond("SUBCRIBE_SUCCESS") /\ "SUBCRIBE_SUCCESS" \in Replies
        BY <1>10, <3>2 DEF HandleSubcribe, Replies
      <4>2. QED
        BY <2>2, <4>1 DEF Usual
    <3>3. QED
      BY <3>1, <3>2
  <2>4. QED
    BY <1>1, <1>4, <2>1, <2>3 DEF Traffic
<1>11. CASE \/ HandleSend \/ LoopSkip \/ LoopOpen \/ LoopDone \/ HandleSendTo
            \/ HandleIgnored \/ SendFull \/ PurgeRow \/ ServerStart
  <2>1. /\ UNCHANGED mqs /\ server' # "delete"
        /\ server' \notin {"down", "recv"} => server \notin {"down", "recv"} /\ UNCHANGED msg
        /\ server' \in {"send", "evict", "overwrite", "purge"} =>
             \/ call'.msg = msg /\ server \notin {"down", "recv"}
             \/ call'.msg = call.msg /\ server \in {"send", "evict", "overwrite", "purge"}
    BY <1>2, <1>11 DEF HandleSend, LoopSkip, LoopOpen, LoopDone, HandleSendTo, HandleIgnored,
       SendFull, PurgeRow, ServerStart, CallSend, Calls, Traffic
  <2>2. QED
    BY <1>1, <1>4, <2>1 DEF Traffic
<1>12. QED
  BY <1>3, <1>5, <1>6, <1>7, <1>8, <1>9, <1>10, <1>11 DEF ServerStep

\* What the programs send and take.
LEMMA ProgramTraffic ==
  ASSUME TypeInv, Traffic, NEW c \in Clients, UNCHANGED missed,
         \/ Start(c) \/ Send(c) \/ Await(c) \/ Take(c)
         \/ \E r \in Sent \cap Requests : Call(c, r)
  PROVE  Traffic'
<1>1. UNCHANGED serverVars
  BY DEF Start, Call, Send, Await, Take
<1>2. Usual' = Usual
  BY <1>1 DEF serverVars, Usual, NobodyDropped, Excluded
<1>3. mqs' \in [QIds -> Seq(Usual)]
  <2>0. mqs \in [QIds -> Seq(Usual)]
    BY DEF Traffic
  <2>1. CASE Start(c)
    BY <2>0, <2>1, CreatableType, QueuesHold DEF Start
  <2>2. CASE Send(c)
    <3>1. mqserver[c] \in QIds /\ request[c] \in Usual
      BY <2>2 DEF Send, TypeInv, LocalsReady, Traffic, Usual
    <3>2. SetQueues(Enqueue(mqserver[c], request[c]))
      BY <2>2 DEF Send
    <3>3. QED
      BY <2>0, <3>1, <3>2, QueuesHold
  <2>3. CASE Await(c) \/ Take(c)
    <3>1. my_mq[c] \in QIds /\ mqs[my_mq[c]] # <<>> /\ mqs' = Dequeue(my_mq[c])
      BY <2>3 DEF Await, Take, TypeInv, LocalsReady
    <3>2. QED
      BY <2>0, <3>1, QueuesHold
  <2>4. CASE \E r \in Sent \cap Requests : Call(c, r)
    BY <2>0, <2>4 DEF Call
  <2>5. QED
    BY <2>1, <2>2, <2>3, <2>4
<1>4. \A d \in Clients : client'[d] = "sending" => request'[d] \in Sent
  <2>1. /\ client \in [Clients -> {"off", "idle", "sending", "waiting"}]
        /\ request \in [Clients -> Messages \cup {NoMsg}]
    BY DEF TypeInv, TypeOK, ClientTypeOK
  <2>2. QED
    BY <2>1 DEF Start, Call, Send, Await, Take, clientVars, Traffic
<1>5. QED
  BY <1>1, <1>2, <1>3, <1>4 DEF Traffic, serverVars

---------------------------------------------------------------------------
(* What the programs are told.                                             *)

\* The broker keeps it true.
LEMMA ServerKeepsWord ==
  ASSUME TypeInv, TypeInv', RowsInv, Traffic, WhatWasTold, RunServer,
         ServerStart \/ ServerStep
  PROVE  WhatWasTold'
<1>1. UNCHANGED <<told, refused>>
  BY DEF RunServer
<1>2. purged' \subseteq missed'
  BY DroppedStay DEF WhatWasTold
<1>3. ASSUME NEW c \in Clients \ missed', server' = "purge" => call'.client_name # c,
             NEW topic \in told[c]
      PROVE  Subscribed(c, topic)'
  <2>1. c \in Clients \ missed /\ (server = "purge" => call.client_name # c)
    BY <1>3, DroppedStay
  <2>2. Subscribed(c, topic)
    BY <1>3, <2>1 DEF WhatWasTold
  <2>3. QED
    BY <1>3, <2>2, SubscribedStays
<1>4. ASSUME NobodyDropped', NEW c \in Clients, NEW topic \in refused[c]
      PROVE  Excluded(topic)'
  BY <1>4, DroppedStay, ExcludedStays DEF WhatWasTold
<1>5. QED
  BY <1>1, <1>2, <1>3, <1>4 DEF WhatWasTold

\* An answer that ends a call is true when the program takes it.
LEMMA AwaitTells ==
  ASSUME TypeInv, AnswerInv, Standing, Traffic, WhatWasTold, NEW c \in Clients, RunAwait(c)
  PROVE  WhatWasTold'
<1> DEFINE m == Head(mqs[my_mq[c]])
           add == IF m.tag = "RESPONSE" THEN {request[c].topic} ELSE {}
<1>1. /\ UNCHANGED <<head_client, server, call, purged, missed>>
      /\ client[c] = "waiting" /\ mqs[my_mq[c]] # <<>> /\ my_mq[c] \in QIds
  BY DEF RunAwait, Await, serverVars, TypeInv, LocalsReady
<1>2. \/ /\ Result(m) = "CMS_SUCCESS"
         /\ told' = [told EXCEPT ![c] = @ \cup add]
         /\ UNCHANGED refused
      \/ /\ Result(m) # "CMS_SUCCESS"
         /\ refused' = [refused EXCEPT ![c] = @ \cup add]
         /\ UNCHANGED told
  BY DEF RunAwait
<1>3. m = mqs[my_mq[c]][1] /\ 1 \in DOMAIN mqs[my_mq[c]] /\ m \in Usual
  BY <1>1, HeadTailType DEF Traffic
<1>4. my_mq[c] # NoQ
  BY <1>1, KernelAssumption
<1>5. m.tag = "RESPONSE" /\ m.data = "SUBCRIBE_SUCCESS" =>
        m.topic = request[c].topic /\ (Subscribed(c, m.topic) \/ Dropped(c))
  BY <1>3, <1>4, AnswersSuffice DEF AnswersAreOwnAndTrue
<1>6. m.tag = "RESPONSE" /\ m.data # "SUBCRIBE_SUCCESS" =>
        /\ m.data = "SUBCRIBE_FAIL" /\ m.topic = request[c].topic
        /\ NobodyDropped => Excluded(m.topic)
  <2>1. m.tag = "RESPONSE" /\ m.data # "SUBCRIBE_SUCCESS" =>
          m.data = "SUBCRIBE_FAIL" /\ (NobodyDropped => Excluded(m.topic))
    BY <1>3 DEF Usual, Sent
  <2>2. QED
    BY <1>3, <1>4, <2>1, AnswersSuffice DEF AnswersAreOwnAndTrue
<1>7. \A d \in Clients, topic \in add :
        Result(m) = "CMS_SUCCESS" /\ c \notin missed /\ (server = "purge" => call.client_name # c)
          => Subscribed(c, topic)
  BY <1>5 DEF Result, Dropped, WhatWasTold
<1>8. \A topic \in add : Result(m) # "CMS_SUCCESS" /\ NobodyDropped => Excluded(topic)
  BY <1>6 DEF Result
<1> HIDE DEF add, m
<1>9. \A d \in Clients : /\ told'[d] \subseteq told[d] \cup
                               (IF d = c /\ Result(m) = "CMS_SUCCESS" THEN add ELSE {})
                         /\ refused'[d] \subseteq refused[d] \cup
                               (IF d = c /\ Result(m) # "CMS_SUCCESS" THEN add ELSE {})
  BY <1>2 DEF Standing
<1>10. ASSUME NEW d \in Clients \ missed, server = "purge" => call.client_name # d,
              NEW topic \in told'[d]
       PROVE  Subscribed(d, topic)
  BY <1>7, <1>9, <1>10 DEF WhatWasTold
<1>11. ASSUME NobodyDropped, NEW d \in Clients, NEW topic \in refused'[d]
       PROVE  Excluded(topic)
  BY <1>8, <1>9, <1>11 DEF WhatWasTold
<1>12. QED
  BY <1>1, <1>10, <1>11 DEF WhatWasTold, NobodyDropped, Excluded, Subscribed

\* Nothing the programs were told has changed without a step of the broker.
LEMMA WordStands ==
  ASSUME WhatWasTold, UNCHANGED <<serverVars, told, refused, missed>>
  PROVE  WhatWasTold'
BY DEF serverVars, WhatWasTold, NobodyDropped, Excluded, Subscribed

---------------------------------------------------------------------------
(* The theorems.                                                           *)

LEMMA DemoStep ==
  ASSUME TypeInv, TypeInv', RowsInv, AnswerInv, Standing, DemoInv, [DemoNext]_demoVars
  PROVE  DemoInv'
<1>1. CASE RunServer /\ (ServerStart \/ ServerStep) /\ UNCHANGED clientVars
  <2>1. Usual \subseteq Usual'
    BY <1>1, DroppedStay, ExcludedStays DEF Usual, DemoInv
  <2>2. QED
    BY <1>1, <2>1, ServerTraffic, ServerKeepsWord DEF DemoInv
<1>2. ASSUME NEW c \in Clients, UNCHANGED missed,
             \/ Start(c) \/ Send(c) \/ Await(c) \/ Take(c)
             \/ \E r \in Sent \cap Requests : Call(c, r),
             RunAwait(c) \/ UNCHANGED <<told, refused>>
      PROVE  DemoInv'
  <2>1. Traffic'
    BY <1>2, ProgramTraffic DEF DemoInv
  <2>2. UNCHANGED serverVars
    BY <1>2 DEF Start, Call, Send, Await, Take
  <2>3. QED
    BY <1>2, <2>1, <2>2, AwaitTells, WordStands DEF DemoInv
<1>3. CASE UNCHANGED <<vars, told, refused, missed>>
  <2>1. UNCHANGED <<serverVars, mqs, client, request>>
    BY <1>3 DEF vars, kernelVars, clientVars
  <2>2. Usual' = Usual
    BY <1>3, <2>1 DEF serverVars, Usual, NobodyDropped, Excluded
  <2>3. Traffic'
    BY <2>1, <2>2 DEF serverVars, DemoInv, Traffic
  <2>4. QED
    BY <1>3, <2>1, <2>3, WordStands DEF DemoInv
<1>4. QED
  BY <1>1, <1>2, <1>3, ProgramSteps

\* What is on its way and what was told, inductive with the answers, the rows and the
\* types.
THEOREM DemoInvariant == DemoSpec => []DemoInv
<1>1. DemoInit => DemoInv
  <2> SUFFICES ASSUME DemoInit PROVE DemoInv
    OBVIOUS
  <2>1. mqs = [q \in QIds |-> <<>>] /\ server = "down" /\ purged = {} /\ missed = {}
        /\ \A c \in Clients : client[c] = "off" /\ told[c] = {} /\ refused[c] = {}
    BY DEF DemoInit, Init, KernelInit, ServerInit, ClientInit
  <2>2. QED
    BY <2>1 DEF DemoInv, Traffic, WhatWasTold
<1>2. TypeInv /\ TypeInv' /\ RowsInv /\ AnswerInv /\ Standing /\ DemoInv /\ [DemoNext]_demoVars
      => DemoInv'
  BY DemoStep
<1>3. QED
  BY <1>1, <1>2, ProgramsAreClients, DemoAnswers, TypeInvariant, RowsInvariant, PTL DEF DemoSpec

\* A topic a receiver was told CMS_SUCCESS for stays its topic as long as it is not
\* dropped itself: the rows the purges of others delete are never its rows.
THEOREM ToldTopicsStay == DemoSpec => []ToldStaysListed
<1>1. Receivers \subseteq Clients
  BY ProgramAssumption DEF Receivers
<1>2. DemoInv => ToldStaysListed
  BY <1>1 DEF DemoInv, WhatWasTold, ToldStaysListed
<1>3. QED
  BY <1>2, DemoInvariant, PTL

\* As long as nobody is dropped, no topic is granted to one receiver and refused to
\* another, in whatever order their calls come and however many topics they share.
THEOREM SharedTopicsSettled == DemoSpec => []SharedTopicsAgree
<1>1. Receivers \subseteq Clients
  BY ProgramAssumption DEF Receivers
<1>2. ASSUME NEW c, NEW topic, Subscribed(c, topic)
      PROVE  topic \in ListTopics(head_client)
  <2>1. PICK i \in Indexes(head_client) : Row(head_client, i) = create_data(c, topic)
    BY <1>2 DEF Subscribed, get_index_by_data
  <2>2. QED
    BY <2>1 DEF ListTopics, create_data
<1>3. DemoInv => SharedTopicsAgree
  BY <1>1, <1>2 DEF DemoInv, WhatWasTold, SharedTopicsAgree, NobodyDropped, Excluded
<1>4. QED
  BY <1>3, DemoInvariant, PTL

=============================================================================
