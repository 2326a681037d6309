---------------------------- MODULE OlderClients ----------------------------
(***************************************************************************)
(* The client programs of hung123/cms_box and hung/cms with the client     *)
(* library they are linked with: two receivers, one of which subscribes to *)
(* "wan" and one to "lan", and senders.  A further client makes any calls  *)
(* of the library.  The library polls: cms_client_receive returns at once  *)
(* when the queue is empty.                                                *)
(***************************************************************************)
EXTENDS HungServer

CONSTANTS mqa, mqb, send1, send2,  \* the names the programs use
          wan, lan,                \* the topics they use
          d1, d2,                  \* two data strings
          Garbage,                 \* what an unset response may look like: "answer", "other"
          Casts                    \* which clients run together; bound: their calls

ASSUME OlderAssumption ==
         /\ {mqa, mqb, send1, send2} \subseteq Clients
         /\ mqa # mqb /\ send1 # send2 /\ {mqa, mqb} \cap {send1, send2} = {}
         /\ {wan, lan} \subseteq Topics
         /\ {d1, d2} \subseteq Datas
         /\ Garbage \subseteq {"answer", "other"}
         /\ Casts \subseteq [Clients -> Nat]

VARIABLES
  build,    \* which version runs: "cms_box" or "cms"
  cast,     \* per client: the statements of its program that run (0: it is not started)
  pc,       \* per client: the statement of its program that is next
  sigint,   \* per client: SIGINT came, its handler runs and never returns
  response  \* per client: the variable of cms_unsubcribe_topic was written in this call

programVars == <<build, cast, pc, sigint, response>>

ProgramInit ==
  /\ build \in {"cms_box", "cms"}
  /\ cast \in Casts
  /\ pc = [c \in Clients |-> 1]
  /\ sigint = [c \in Clients |-> FALSE]
  /\ response = [c \in Clients |-> FALSE]

---------------------------------------------------------------------------
(* The messages of the library calls.                                      *)

Subcribe(c, topic) == [tag |-> "SUBCRIBE", source |-> c, topic |-> topic, data |-> d1]
Unsubcribe(c, topic) == [tag |-> "UNSUBCRIBE", source |-> c, topic |-> topic, data |-> d1]
SendMsg(c, topic, data) == [tag |-> "SEND", source |-> c, topic |-> topic, data |-> data]
SendToMsg(c, dest, data) == [tag |-> "SEND_TO", source |-> c, topic |-> dest, data |-> data]

---------------------------------------------------------------------------
(* The programs: the calls each makes, over and over in a sender (600      *)
(* times), once in a receiver; their results are ignored.                  *)

hmxcms_receive == <<Subcribe(mqa, wan)>>
hmxcms_receive2 == <<Subcribe(mqb, lan)>>
hmxcms_send == <<SendToMsg(send2, mqa, d1), SendMsg(send2, wan, d2),
                 SendMsg(send2, lan, d1), SendMsg(send2, lan, d2)>>

hung_receive == <<Subcribe(mqa, wan)>>
hung_receive2 == <<Subcribe(mqb, lan)>>
hung_send == <<SendMsg(send2, wan, d1), SendMsg(send2, wan, d2),
               SendMsg(send2, lan, d1), SendMsg(send2, lan, d2)>>
hung_send1 == <<SendMsg(send1, wan, d1), SendMsg(send1, wan, d2)>>

Receivers == {mqa, mqb}
Senders == {send1, send2}

Round(c) ==
  CASE c = mqa -> IF build = "cms" THEN hung_receive ELSE hmxcms_receive
    [] c = mqb -> IF build = "cms" THEN hung_receive2 ELSE hmxcms_receive2
    [] c = send2 -> IF build = "cms" THEN hung_send ELSE hmxcms_send
    [] c = send1 /\ build = "cms" -> hung_send1
    [] OTHER -> <<>>

Statement(c) == Round(c)[((pc[c] - 1) % Len(Round(c))) + 1]

---------------------------------------------------------------------------
(* The library.                                                            *)

\* cms_client_init (init_client), once per process; bound: no program is started
\* a second time
box_client_init(c) ==
  /\ client[c] = "off"
  /\ cast[c] > 0
  /\ pc[c] = 1
  /\ Start(c)
  /\ sigint' = [sigint EXCEPT ![c] = FALSE]
  /\ response' = [response EXCEPT ![c] = FALSE]
  /\ UNCHANGED <<build, cast, pc>>

\* The next statement of the program; without a server queue it fails at once.
RunStatement(c) ==
  /\ client[c] = "idle"
  /\ ~sigint[c]
  /\ Round(c) # <<>>
  /\ pc[c] <= cast[c]
  /\ IF names[SRV] = NoQ
     THEN UNCHANGED <<kernelVars, serverVars, clientVars>>
     ELSE Call(c, Statement(c))
  /\ pc' = [pc EXCEPT ![c] = @ + 1]
  /\ response' = [response EXCEPT ![c] = FALSE]
  /\ UNCHANGED <<build, cast, sigint>>

\* Any call of the library, by a client that is none of the programs.
FreeCall(c) ==
  /\ c \notin Receivers \cup Senders
  /\ pc[c] <= cast[c]
  /\ \E r \in Requests : Call(c, r)
  /\ pc' = [pc EXCEPT ![c] = @ + 1]
  /\ response' = [response EXCEPT ![c] = FALSE]
  /\ UNCHANGED <<build, cast, sigint>>

\* cms_client_send, cms_client_send_to and the other calls: the blocking mq_send
box_client_send(c) == Send(c) /\ UNCHANGED programVars

\* cms_subcribe_topic: a poll finds a message, which ends the call if it is an answer
box_subcribe_topic(c) ==
  /\ request[c] # NoMsg /\ request[c].tag = "SUBCRIBE"
  /\ Await(c)
  /\ UNCHANGED programVars

\* The call the client waits in returns.
CallReturns(c) ==
  /\ client' = [client EXCEPT ![c] = "idle"]
  /\ request' = [request EXCEPT ![c] = NoMsg]
  /\ UNCHANGED <<requests, clientStarts>>

\* a poll finds nothing: the call returns CMS_ERROR, and the answer may still come
box_subcribe_gives_up(c) ==
  /\ client[c] = "waiting"
  /\ request[c].tag = "SUBCRIBE"
  /\ mqs[my_mq[c]] = <<>>
  /\ CallReturns(c)
  /\ UNCHANGED <<kernelVars, serverVars, programVars>>

\* cms_unsubcribe_topic: a poll finds a message
box_unsubcribe_topic(c) ==
  /\ request[c] # NoMsg /\ request[c].tag = "UNSUBCRIBE"
  /\ Await(c)
  /\ response' = [response EXCEPT ![c] = TRUE]
  /\ UNCHANGED <<build, cast, pc, sigint>>

\* a poll finds nothing, and the response nobody wrote is read all the same
box_unsubcribe_unset(c) ==
  /\ client[c] = "waiting"
  /\ request[c].tag = "UNSUBCRIBE"
  /\ mqs[my_mq[c]] = <<>>
  /\ ~response[c]
  /\ "answer" \in Garbage
  /\ CallReturns(c)
  /\ UNCHANGED <<kernelVars, serverVars, programVars>>

\* cms_client_receive in the loop of a receiver, or of the free client
box_client_receive(c) ==
  /\ c \notin Senders
  /\ ~sigint[c]
  /\ c \in Receivers => pc[c] > cast[c]
  /\ Take(c)
  /\ UNCHANGED programVars

\* cms_client_close at the end of a sender, or of a receiver's signal handler
box_client_close(c) ==
  /\ \/ c \in Senders /\ pc[c] > cast[c]
     \/ sigint[c] /\ pc[c] > cast[c] + 1
  /\ Close(c)
  /\ UNCHANGED programVars

\* The same code in hung/cms, under other names.
hung_init_client(c) == box_client_init(c)
hung_send_call(c) == box_client_send(c)
hung_subcribe_topic(c) == box_subcribe_topic(c) \/ box_subcribe_gives_up(c)
hung_unsubcribe_topic(c) == box_unsubcribe_topic(c) \/ box_unsubcribe_unset(c)
hung_receive_call(c) == box_client_receive(c)
hung_close_client(c) == box_client_close(c)

---------------------------------------------------------------------------
(* SIGINT at a receiver, in the middle of whatever call it is in.          *)

\* cms_sig_handler of hung123/cms_box: the interrupted call is abandoned,
\* cms_unsubcribe_topic is called, ...
box_sig_handler(c) ==
  /\ build = "cms_box"
  /\ "sigint" \in Exits
  /\ c \in Receivers
  /\ client[c] # "off"
  /\ ~sigint[c]
  /\ sigint' = [sigint EXCEPT ![c] = TRUE]
  /\ pc' = [pc EXCEPT ![c] = cast[c] + 1]
  /\ response' = [response EXCEPT ![c] = FALSE]
  /\ client' = [client EXCEPT ![c] = "idle"]
  /\ request' = [request EXCEPT ![c] = NoMsg]
  /\ mqserver' = [mqserver EXCEPT ![c] = NoQ]
  /\ Leak(c, mqserver[c])
  /\ UNCHANGED <<mqs, names, mqd, mqd_tmp, my_mq, serverVars, requests, clientStarts, build, cast>>

\* ... with the topic of the program, before the queue is closed
box_sig_unsubcribe(c) ==
  /\ sigint[c]
  /\ client[c] = "idle"
  /\ pc[c] = cast[c] + 1
  /\ IF names[SRV] = NoQ
     THEN UNCHANGED <<kernelVars, serverVars, clientVars>>
     ELSE Call(c, Unsubcribe(c, Round(c)[1].topic))
  /\ pc' = [pc EXCEPT ![c] = @ + 1]
  /\ response' = [response EXCEPT ![c] = FALSE]
  /\ UNCHANGED <<build, cast, sigint>>

\* cms_sig_handler of hung/cms: the process just ends, its queue stays
hung_sig_handler(c) ==
  /\ build = "cms"
  /\ c \in Receivers
  /\ Crash(c)
  /\ pc' = [pc EXCEPT ![c] = cast[c] + 1]
  /\ UNCHANGED <<build, cast, sigint, response>>

BoxClientStep(c) ==
  \/ box_client_init(c) \/ RunStatement(c) \/ FreeCall(c)
  \/ box_client_send(c) \/ box_client_receive(c) \/ box_client_close(c)
  \/ box_subcribe_topic(c) \/ box_subcribe_gives_up(c)
  \/ box_unsubcribe_topic(c) \/ box_unsubcribe_unset(c)
  \/ box_sig_handler(c) \/ box_sig_unsubcribe(c)

HungClientStep(c) ==
  \/ hung_init_client(c) \/ RunStatement(c) \/ FreeCall(c)
  \/ hung_send_call(c) \/ hung_receive_call(c) \/ hung_close_client(c)
  \/ hung_subcribe_topic(c) \/ hung_unsubcribe_topic(c)
  \/ hung_sig_handler(c)
=============================================================================
