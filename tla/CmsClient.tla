----------------------------- MODULE CmsClient -----------------------------
(***************************************************************************)
(* The client processes: programs linked with the client library           *)
(* (lib/hmxcms_lib.c), each under one client name.  A library call ends at *)
(* each system call; between the mq_open of the server queue and its       *)
(* blocking mq_send the client is "sending", in the loop that waits for an *)
(* answer it is "waiting".                                                 *)
(***************************************************************************)
EXTENDS CmsServer

CONSTANTS Requests,         \* the messages client programs may send
          Exits,            \* which of "close", "crash" may end a client
          MaxRequests,      \* bound: messages sent in all
          MaxClientStarts   \* bound: client processes started in all

ASSUME ClientAssumption ==
         /\ Requests \subseteq Messages
         /\ MaxRequests \in Nat
         /\ MaxClientStarts \in Nat

VARIABLES
  client,        \* per name: "off" (no process), "idle", "sending" or "waiting"
  request,       \* per name: the message of the library call in progress
  requests,      \* messages sent so far (bounded by MaxRequests)
  clientStarts   \* processes started so far (bounded by MaxClientStarts)

clientVars == <<client, request, requests, clientStarts>>

\* Calls that wait for an answer after they have sent their message.
Answered == {"SUBCRIBE", "UNSUBCRIBE"}

ClientInit ==
  /\ client = [c \in Clients |-> "off"]
  /\ request = [c \in Clients |-> NoMsg]
  /\ requests = 0
  /\ clientStarts = 0

\* cms_client_init: drop whatever queue the name refers to and create a new
\* one.  A second call in one process loses the first descriptor.
Start(c) ==
  /\ client[c] \in {"off", "idle"}
  /\ clientStarts < MaxClientStarts
  /\ Creatable # {}
  /\ Leak(c, my_mq[c])
  /\ my_mq' = [my_mq EXCEPT ![c] = CHOOSE q \in Creatable : TRUE]
  /\ names' = [names EXCEPT ![c] = my_mq'[c]]
  /\ client' = [client EXCEPT ![c] = "idle"]
  /\ clientStarts' = clientStarts + 1
  /\ UNCHANGED <<mqd, mqd_tmp, mqserver, serverVars, request, requests>>
  /\ SetQueues(mqs)

\* cms_subcribe_topic, cms_unsubcribe_topic, cms_client_send and
\* cms_client_send_to up to their mq_open of the server queue; without a
\* server queue the call returns CMS_ERROR and changes nothing
Call(c, r) ==
  /\ client[c] = "idle"
  /\ r.source = c
  /\ requests < MaxRequests
  /\ names[SRV] # NoQ
  /\ mqserver' = [mqserver EXCEPT ![c] = names[SRV]]
  /\ client' = [client EXCEPT ![c] = "sending"]
  /\ request' = [request EXCEPT ![c] = r]
  /\ requests' = requests + 1
  /\ UNCHANGED <<mqs, names, mqd, mqd_tmp, my_mq, leaked, serverVars, clientStarts>>

\* the mq_send of the call, which blocks while the server queue is full, and
\* its mq_close
Send(c) ==
  /\ client[c] = "sending"
  /\ HasRoom(mqserver[c], max_msg)
  /\ mqserver' = [mqserver EXCEPT ![c] = NoQ]
  /\ IF request[c].tag \in Answered
     THEN /\ client' = [client EXCEPT ![c] = "waiting"]
          /\ UNCHANGED request
     ELSE /\ client' = [client EXCEPT ![c] = "idle"]
          /\ request' = [request EXCEPT ![c] = NoMsg]
  /\ UNCHANGED <<names, mqd, mqd_tmp, my_mq, leaked, serverVars, requests,
                 clientStarts>>
  /\ SetQueues(Enqueue(mqserver[c], request[c]))

\* the waiting loop of cms_subcribe_topic and cms_unsubcribe_topic: any
\* RESPONSE ends the call, any other message is read and lost
Await(c) ==
  /\ client[c] = "waiting"
  /\ mqs[my_mq[c]] # <<>>
  /\ mqs' = Dequeue(my_mq[c])
  /\ IF Head(mqs[my_mq[c]]).tag = "RESPONSE"
     THEN /\ client' = [client EXCEPT ![c] = "idle"]
          /\ request' = [request EXCEPT ![c] = NoMsg]
     ELSE UNCHANGED <<client, request>>
  /\ UNCHANGED <<names, ownDescs, mqd_tmp, serverVars, requests, clientStarts>>

\* cms_client_receive of an idle client: it polls until a message is there
Take(c) ==
  /\ client[c] = "idle"
  /\ mqs[my_mq[c]] # <<>>
  /\ mqs' = Dequeue(my_mq[c])
  /\ UNCHANGED <<names, ownDescs, mqd_tmp, serverVars, clientVars>>

\* The client process ends: its descriptors are closed.
Gone(c) ==
  /\ client[c] # "off"
  /\ client' = [client EXCEPT ![c] = "off"]
  /\ request' = [request EXCEPT ![c] = NoMsg]
  /\ my_mq' = [my_mq EXCEPT ![c] = NoQ]
  /\ mqserver' = [mqserver EXCEPT ![c] = NoQ]
  /\ LeaksClosed(c)
  /\ UNCHANGED <<mqd, mqd_tmp, serverVars, requests, clientStarts>>

\* cms_client_close, the last call of a program: the name goes too
Close(c) ==
  /\ "close" \in Exits
  /\ client[c] = "idle"
  /\ Gone(c)
  /\ names' = [names EXCEPT ![c] = NoQ]
  /\ SetQueues(mqs)

\* the process dies anywhere in a call: its name and its queue stay
Crash(c) ==
  /\ "crash" \in Exits
  /\ Gone(c)
  /\ UNCHANGED names
  /\ SetQueues(mqs)

ClientStep(c) ==
  \/ Start(c)
  \/ \E r \in Requests : Call(c, r)
  \/ Send(c) \/ Await(c) \/ Take(c)
  \/ Close(c) \/ Crash(c)
=============================================================================
