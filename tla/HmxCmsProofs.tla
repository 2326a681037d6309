--------------------------- MODULE HmxCmsProofs ---------------------------
(***************************************************************************)
(* Theorems about HmxCms for every set of clients, topics and queues and   *)
(* every capacity: types, what the locals hold, and the queues between the *)
(* broker and its clients.                                                 *)
(***************************************************************************)
EXTENDS HmxCms, SequenceTheorems, TLAPS

---------------------------------------------------------------------------
(* Sequences with one element added, removed or replaced.                  *)

\* Adding at the tail: what add_client, add_to_monitor and mq_send do.
LEMMA AppendType ==
  ASSUME NEW S, NEW s \in Seq(S), NEW e \in S
  PROVE  Append(s, e) \in Seq(S)
OBVIOUS

\* Removing at the head: what mq_receive does to a queue that is not empty.
LEMMA HeadTailType ==
  ASSUME NEW S, NEW s \in Seq(S), s # <<>>
  PROVE  Head(s) \in S /\ Tail(s) \in Seq(S)
OBVIOUS

\* Unlinking a node: delete_client yields a list of rows again, one shorter
\* when it succeeds.
LEMMA DeleteClientType ==
  ASSUME NEW S, NEW list \in Seq(S), NEW i \in Nat
  PROVE  /\ delete_client(list, i) \in Seq(S)
         /\ CanDelete(list, i) => Len(delete_client(list, i)) = Len(list) - 1
<1>1. CASE CanDelete(list, i)
  <2> DEFINE n == Len(list) - 1
             s == [k \in 1 .. n |-> IF k <= i THEN list[k] ELSE list[k + 1]]
  <2>1. n \in Nat
    BY <1>1 DEF CanDelete
  <2>2. s \in [1 .. n -> S]
    BY <2>1
  <2>3. s \in Seq(S) /\ Len(s) = n
    BY <2>1, <2>2
  <2>4. QED
    BY <1>1, <2>3 DEF delete_client
<1>2. CASE ~CanDelete(list, i)
  BY <1>2 DEF delete_client
<1>3. QED
  BY <1>1, <1>2

\* Unlinking a payload: delete_from_monitor yields a list of payloads again.
LEMMA DeleteFromMonitorType ==
  ASSUME NEW S, NEW list \in Seq(S), NEW c
  PROVE  delete_from_monitor(list, c) \in Seq(S)
<1>1. CASE Monitored(list, c)
  <2> DEFINE n == Len(list) - 1
             p == FirstPosition(list, c)
             s == [k \in 1 .. n |-> IF k < p THEN list[k] ELSE list[k + 1]]
  <2>1. n \in Nat
    BY <1>1 DEF Monitored, MonitorPositions
  <2>2. s \in [1 .. n -> S]
    <3> HIDE DEF p
    <3> QED BY <2>1
  <2>3. s \in Seq(S)
    BY <2>1, <2>2
  <2>4. QED
    BY <1>1, <2>3 DEF delete_from_monitor
<1>2. CASE ~Monitored(list, c)
  BY <1>2 DEF delete_from_monitor
<1>3. QED
  BY <1>1, <1>2

\* A payload counted once more is a payload.
LEMMA CountedType ==
  ASSUME NEW e \in Payloads
  PROVE  [e EXCEPT !.send_count = e.send_count + 1] \in Payloads
BY DEF Payloads

\* Counting: CountOne changes no field but send_count, and keeps its type.
LEMMA CountOneType ==
  ASSUME NEW list \in Seq(Payloads), NEW c
  PROVE  CountOne(list, c) \in Seq(Payloads)
<1> DEFINE p == FirstPosition(list, c)
<1>1. CASE p \in 1 .. Len(list)
  <2>1. list[p] \in Payloads
    BY <1>1
  <2>2. [list[p] EXCEPT !.send_count = @ + 1] \in Payloads
    BY <2>1, CountedType
  <2> HIDE DEF p
  <2>3. [list EXCEPT ![p] = [list[p] EXCEPT !.send_count = @ + 1]] \in Seq(Payloads)
    BY <1>1, <2>2, ExceptSeq
  <2>4. QED
    BY <2>3 DEF CountOne, p
<1>2. CASE p \notin 1 .. Len(list)
  <2> HIDE DEF p
  <2>1. \A e : [list EXCEPT ![p] = e] = list
    BY <1>2
  <2>2. QED
    BY <2>1 DEF CountOne, p
<1>3. QED
  BY <1>1, <1>2

\* SetQueues keeps the contents it is given or empties a queue.
LEMMA SetQueuesType ==
  ASSUME NEW R, NEW content \in [QIds -> Seq(Messages)]
  PROVE  [q \in QIds |-> IF q \in R THEN content[q] ELSE <<>>] \in [QIds -> Seq(Messages)]
OBVIOUS

\* mq_open with O_CREAT yields a queue when one can be created.
LEMMA CreatableType ==
  Creatable # {} => (CHOOSE q \in Creatable : TRUE) \in QIds
BY DEF Creatable

\* Lost descriptors are descriptors of queues.
LEMMA LeakType ==
  ASSUME leaked \in [Names -> SUBSET QIds], NEW n \in Names, NEW q \in QIds \cup {NoQ},
         Leak(n, q) \/ LeaksClosed(n) \/ UNCHANGED leaked
  PROVE  leaked' \in [Names -> SUBSET QIds]
BY DEF Leak, LeaksClosed

\* The history of a SEND holds clients.
LEMMA ReachesType ==
  ASSUME reached \subseteq Clients, call.client_name \in Clients, Reaches
  PROVE  reached' \subseteq Clients /\ index_gr' = index_gr /\ targets' = targets
BY DEF Reaches

---------------------------------------------------------------------------
(* Messages, payloads and calls.                                           *)

\* The fields of a message, and the destination of a SEND_TO.
LEMMA MessageFields ==
  ASSUME NEW m \in Messages
  PROVE  /\ m.source \in Clients
         /\ m.topic \in FieldNames
         /\ m.data \in Datas \cup Replies
         /\ m.tag = "SEND_TO" => m.topic \in Clients
BY DEF Messages

\* What the server answers is a message.
LEMMA AnswerType ==
  ASSUME NEW m \in Messages, NEW reply \in Replies
  PROVE  [tag |-> "RESPONSE", source |-> m.source, topic |-> m.topic,
          data |-> reply] \in Messages
BY DEF Messages, Tags

\* The frames of cms_server_send.
LEMMA CallType ==
  /\ NoCall \in Calls
  /\ \A m \in Messages, c \in Clients :
       [msg |-> m, client_name |-> c, pl |-> FALSE, oldest |-> NoMsg] \in Calls
BY DEF NoCall, Calls, Names

\* What the full-queue handler writes into a frame.
LEMMA CallUpdateType ==
  ASSUME NEW f \in Calls
  PROVE  /\ f.msg \in Messages \cup {NoMsg}
         /\ \A b \in BOOLEAN : [f EXCEPT !.pl = b] \in Calls
         /\ \A m \in Messages : [f EXCEPT !.oldest = m] \in Calls
BY DEF Calls

\* What SendFull stores is a payload.
LEMMA FullPayloadType ==
  ASSUME call.msg \in Messages, call.client_name \in Clients
  PROVE  FullPayload \in Payloads
BY MessageFields DEF FullPayload, create_payload, Payloads, FieldNames

\* What a SUBCRIBE adds is a row, and the lookups yield row numbers.
LEMMA RowType ==
  ASSUME NEW m \in Messages
  PROVE  create_data(m.source, m.topic) \in Rows
BY MessageFields DEF create_data, Rows

\* The lookups yield numbers of rows.
LEMMA IndexType ==
  ASSUME NEW list \in Seq(Rows)
  PROVE  /\ Indexes(list) \subseteq Nat
         /\ \A x : get_index_by_topic(list, x) \subseteq Nat
         /\ \A x : get_index_by_name(list, x) \subseteq Nat
         /\ \A x : get_index_by_data(list, x) \subseteq Nat
         /\ \A i \in Indexes(list) : Row(list, i) \in Rows
BY DEF Indexes, get_index_by_topic, get_index_by_name, get_index_by_data, Row


\* What Respond leaves in the frame of cms_server_send.
LEMMA RespondType ==
  ASSUME msg \in Messages, NEW reply \in Replies, Respond(reply)
  PROVE  /\ call' \in Calls
         /\ call'.msg \in Messages
         /\ call'.client_name \in Clients
         /\ server' = "send"
<1> DEFINE m == [tag |-> "RESPONSE", source |-> msg.source, topic |-> msg.topic,
                 data |-> reply]
<1>1. m \in Messages /\ msg.source \in Clients
  BY AnswerType, MessageFields
<1>2. /\ call' = [msg |-> m, client_name |-> msg.source, pl |-> FALSE, oldest |-> NoMsg]
      /\ server' = "send"
  BY DEF Respond, CallSend
<1> HIDE DEF m
<1>3. QED
  BY <1>1, <1>2, CallType

\* What Return leaves: no descriptor, no frame, and a message if the loop goes on.
LEMMA ReturnType ==
  ASSUME msg \in Messages, Return
  PROVE  /\ mqd_tmp' = NoQ
         /\ call' \in Calls
         /\ server' \in {"loop", "recv"}
         /\ msg' \in Messages \cup {NoMsg}
         /\ server' = "loop" => msg' \in Messages
BY CallType DEF Return

---------------------------------------------------------------------------
(* Type correctness.                                                       *)

\* The types need the locals to be ready where they are used.
TypeInv == TypeOK /\ LocalsReady

\* Each step of the server keeps the types and finds its locals ready.
LEMMA ServerStepType ==
  ASSUME TypeInv, UNCHANGED clientVars, ServerStart \/ ServerStep \/ ServerOutage
  PROVE  TypeInv'
<1> USE DEF TypeInv, TypeOK, clientVars, kernelVars, ownDescs, lists, loopVars,
            purgeVars, fixedVars
<1>a. ClientTypeOK'
  BY DEF ClientTypeOK
<1>b. server \notin {"down", "recv"} => msg \in Messages /\ msg.source \in Clients
  BY MessageFields DEF LocalsReady
<1>1. CASE Receive
  <2>1. mqd \in QIds /\ mqs[mqd] \in Seq(Messages)
    BY <1>1 DEF Receive, LocalsReady, KernelTypeOK
  <2>2. msg' \in Messages /\ Tail(mqs[mqd]) \in Seq(Messages)
    BY <1>1, <2>1, HeadTailType DEF Receive
  <2>3. KernelTypeOK'
    BY <1>1, <2>1, <2>2 DEF Receive, KernelTypeOK, Dequeue
  <2>4. ServerTypeOK'
    BY <1>1, <2>2 DEF Receive, ServerTypeOK
  <2>5. LocalsReady'
    BY <1>1, <2>2 DEF Receive, LocalsReady
  <2>6. QED BY <1>a, <2>3, <2>4, <2>5
<1>2. CASE HandleSubcribe
  <2>1. msg \in Messages /\ msg.source \in Names
    BY <1>2, <1>b DEF HandleSubcribe, Names
  <2>2. PICK reply \in Replies : Respond(reply)
    BY <1>2 DEF HandleSubcribe, Replies
  <2>3. head_client' \in Seq(Rows) /\ purged' \subseteq purged
    <3> DEFINE data == create_data(msg.source, msg.topic)
    <3>1. data \in Rows /\ head_client \in Seq(Rows)
      BY <2>1, RowType DEF ServerTypeOK
    <3>2. Append(head_client, data) \in Seq(Rows)
      BY <3>1, AppendType
    <3>3. QED
      BY <1>2, <3>1, <3>2 DEF HandleSubcribe, add_client
  <2>4. KernelTypeOK'
    BY <1>2, <2>1 DEF HandleSubcribe, KernelTypeOK, Open
  <2>5. ServerTypeOK'
    BY <1>2, <2>1, <2>2, <2>3, RespondType DEF HandleSubcribe, ServerTypeOK
  <2>6. LocalsReady'
    BY <1>2, <2>1, <2>2, RespondType DEF HandleSubcribe, LocalsReady
  <2>7. QED BY <1>a, <2>4, <2>5, <2>6
<1>3. CASE HandleUnsubcribeAll
  <2>1. msg \in Messages /\ msg.source \in Names
    BY <1>3, <1>b DEF HandleUnsubcribeAll, Names
  <2>2. index_gr' \subseteq Nat
    BY <1>3, IndexType DEF HandleUnsubcribeAll, ServerTypeOK
  <2>3. /\ call' \in Calls
        /\ server' \in {"send", "delete"}
        /\ server' = "send" => call'.msg \in Messages /\ call'.client_name \in Clients
    <3>1. CASE index_gr' = {}
      BY <1>3, <2>1, <3>1, RespondType DEF HandleUnsubcribeAll, Replies
    <3>2. CASE index_gr' # {}
      BY <1>3, <3>2 DEF HandleUnsubcribeAll, ServerTypeOK
    <3>3. QED BY <3>1, <3>2
  <2>4. KernelTypeOK'
    <3>1. mqd_tmp' \in QIds \cup {NoQ}
      BY <1>3, <2>1 DEF HandleUnsubcribeAll, KernelTypeOK, Open
    <3>2. Leak(SRV, mqd_tmp') \/ UNCHANGED leaked
      BY <1>3 DEF HandleUnsubcribeAll
    <3>3. leaked' \in [Names -> SUBSET QIds]
      BY <3>1, <3>2, LeakType DEF KernelTypeOK, Names
    <3>4. QED
      BY <1>3, <3>1, <3>3 DEF HandleUnsubcribeAll, KernelTypeOK
  <2>5. ServerTypeOK'
    BY <1>3, <2>1, <2>2, <2>3 DEF HandleUnsubcribeAll, ServerTypeOK
  <2>6. LocalsReady'
    BY <1>3, <2>1, <2>3 DEF HandleUnsubcribeAll, LocalsReady
  <2>7. QED BY <1>a, <2>4, <2>5, <2>6
<1>4. CASE DeleteRow
  <2>1. PICK i \in index_gr :
          /\ head_client' = delete_client(head_client, i)
          /\ ret' = (ret /\ CanDelete(head_client, i))
          /\ index_gr' = index_gr \ {i}
    BY <1>4 DEF DeleteRow
  <2>2. i \in Nat /\ head_client' \in Seq(Rows)
    BY <2>1, DeleteClientType DEF ServerTypeOK
  <2>3. ret' \in BOOLEAN
    BY <2>1 DEF ServerTypeOK, CanDelete
  <2>4. KernelTypeOK'
    BY <1>4 DEF DeleteRow, KernelTypeOK
  <2>5. ServerTypeOK'
    BY <1>4, <2>1, <2>2, <2>3 DEF DeleteRow, ServerTypeOK
  <2>6. LocalsReady'
    BY <1>4 DEF DeleteRow, LocalsReady
  <2>7. QED BY <1>a, <2>4, <2>5, <2>6
<1>5. CASE DeleteDone
  <2>1. msg \in Messages
    BY <1>5, <1>b DEF DeleteDone
  <2>2. PICK reply \in Replies : Respond(reply)
    BY <1>5 DEF DeleteDone, Replies
  <2>3. KernelTypeOK'
    BY <1>5 DEF DeleteDone, KernelTypeOK
  <2>4. ServerTypeOK'
    BY <1>5, <2>1, <2>2, RespondType DEF DeleteDone, ServerTypeOK
  <2>5. LocalsReady'
    BY <1>5, <2>1, <2>2, RespondType DEF DeleteDone, LocalsReady
  <2>6. QED BY <1>a, <2>3, <2>4, <2>5
<1>6. CASE HandleUnsubcribe
  <2>1. msg \in Messages /\ msg.source \in Names
    BY <1>6, <1>b DEF HandleUnsubcribe, Names
  <2>2. PICK reply \in Replies : Respond(reply)
    BY <1>6 DEF HandleUnsubcribe, Replies
  <2>3. head_client' \in Seq(Rows)
    <3> DEFINE found == get_index_by_data(head_client, create_data(msg.source, msg.topic))
    <3>1. \/ head_client' = head_client
          \/ \E i \in found : head_client' = delete_client(head_client, i)
      BY <1>6 DEF HandleUnsubcribe
    <3>2. found \subseteq Nat /\ head_client \in Seq(Rows)
      BY IndexType DEF ServerTypeOK
    <3> HIDE DEF found
    <3>3. QED
      BY <3>1, <3>2, DeleteClientType
  <2>4. KernelTypeOK'
    <3>1. mqd_tmp' \in QIds \cup {NoQ}
      BY <1>6, <2>1 DEF HandleUnsubcribe, KernelTypeOK, Open
    <3>2. Leak(SRV, mqd_tmp') \/ UNCHANGED leaked
      BY <1>6 DEF HandleUnsubcribe
    <3>3. leaked' \in [Names -> SUBSET QIds]
      BY <3>1, <3>2, LeakType DEF KernelTypeOK, Names
    <3>4. QED
      BY <1>6, <3>1, <3>3 DEF HandleUnsubcribe, KernelTypeOK
  <2>5. ServerTypeOK'
    BY <1>6, <2>1, <2>2, <2>3, RespondType DEF HandleUnsubcribe, ServerTypeOK
  <2>6. LocalsReady'
    BY <1>6, <2>1, <2>2, RespondType DEF HandleUnsubcribe, LocalsReady
  <2>7. QED BY <1>a, <2>4, <2>5, <2>6
<1>7. CASE HandleSend
  <2>1. index_gr' \subseteq Indexes(head_client)
    BY <1>7 DEF HandleSend, get_index_by_topic
  <2>2. index_gr' \subseteq Nat /\ targets' \subseteq Clients
    <3>1. \A i \in index_gr' : i \in Nat /\ Row(head_client, i) \in Rows
      BY <2>1, IndexType DEF ServerTypeOK
    <3>2. \A r \in Rows : r.client_name \in Clients
      BY DEF Rows
    <3>3. targets' = {Row(head_client, i).client_name : i \in index_gr'}
      BY <1>7 DEF HandleSend
    <3>4. QED BY <3>1, <3>2, <3>3
  <2>3. KernelTypeOK'
    BY <1>7 DEF HandleSend, KernelTypeOK
  <2>4. ServerTypeOK'
    BY <1>7, <2>2 DEF HandleSend, ServerTypeOK
  <2>5. LocalsReady'
    BY <1>7 DEF HandleSend, LocalsReady
  <2>6. QED BY <1>a, <2>3, <2>4, <2>5
<1>8. CASE LoopSkip
  <2>1. KernelTypeOK'
    BY <1>8 DEF LoopSkip, KernelTypeOK
  <2>2. ServerTypeOK'
    BY <1>8 DEF LoopSkip, ServerTypeOK
  <2>3. LocalsReady'
    BY <1>8 DEF LoopSkip, LocalsReady
  <2>4. QED BY <1>a, <2>1, <2>2, <2>3
<1>9. CASE LoopOpen
  <2>1. msg \in Messages
    BY <1>9, <1>b DEF LoopOpen
  <2>2. PICK i \in index_gr :
          /\ HasIndex(head_client, i)
          /\ Open(Row(head_client, i).client_name)
          /\ CallSend(msg, Row(head_client, i).client_name)
          /\ index_gr' = index_gr \ {i}
    BY <1>9 DEF LoopOpen
  <2> DEFINE name == Row(head_client, i).client_name
  <2>3. name \in Clients
    <3>1. i \in Indexes(head_client)
      BY <2>2 DEF ServerTypeOK, HasIndex, Indexes
    <3>2. Row(head_client, i) \in Rows
      BY <3>1, IndexType DEF ServerTypeOK
    <3>3. QED BY <3>2 DEF Rows
  <2>4. /\ call' = [msg |-> msg, client_name |-> name, pl |-> FALSE, oldest |-> NoMsg]
        /\ server' = "send"
        /\ mqd_tmp' = names[name]
    BY <2>2 DEF CallSend, Open
  <2> HIDE DEF name
  <2>5. KernelTypeOK'
    BY <1>9, <2>3, <2>4 DEF LoopOpen, KernelTypeOK, Names
  <2>6. ServerTypeOK'
    BY <1>9, <2>1, <2>2, <2>3, <2>4, CallType DEF LoopOpen, ServerTypeOK
  <2>7. LocalsReady'
    BY <1>9, <2>1, <2>3, <2>4 DEF LoopOpen, LocalsReady
  <2>8. QED BY <1>a, <2>5, <2>6, <2>7
<1>10. CASE LoopDone
  <2>1. KernelTypeOK'
    BY <1>10 DEF LoopDone, KernelTypeOK
  <2>2. ServerTypeOK'
    BY <1>10 DEF LoopDone, ServerTypeOK
  <2>3. LocalsReady'
    BY <1>10 DEF LoopDone, LocalsReady
  <2>4. QED BY <1>a, <2>1, <2>2, <2>3
<1>11. CASE HandleSendTo
  <2>1. msg \in Messages /\ msg.topic \in Clients
    BY <1>11, <1>b, MessageFields DEF HandleSendTo
  <2>2. /\ call' = [msg |-> msg, client_name |-> msg.topic, pl |-> FALSE, oldest |-> NoMsg]
        /\ server' = "send"
        /\ mqd_tmp' = names[msg.topic]
    BY <1>11 DEF HandleSendTo, CallSend, Open
  <2>3. KernelTypeOK'
    BY <1>11, <2>1, <2>2 DEF HandleSendTo, KernelTypeOK, Names
  <2>4. ServerTypeOK'
    BY <1>11, <2>1, <2>2, CallType DEF HandleSendTo, ServerTypeOK
  <2>5. LocalsReady'
    BY <1>11, <2>1, <2>2 DEF HandleSendTo, LocalsReady
  <2>6. QED BY <1>a, <2>3, <2>4, <2>5
<1>12. CASE HandleConfigLog
  <2>1. msg \in Messages /\ msg.source \in Names
    BY <1>12, <1>b DEF HandleConfigLog, Names
  <2>2. PICK reply \in Replies : Respond(reply)
    BY <1>12 DEF HandleConfigLog, Replies
  <2>3. KernelTypeOK'
    BY <1>12, <2>1 DEF HandleConfigLog, KernelTypeOK, Open
  <2>4. ServerTypeOK'
    BY <1>12, <2>1, <2>2, RespondType DEF HandleConfigLog, ServerTypeOK, set_log
  <2>5. LocalsReady'
    BY <1>12, <2>1, <2>2, RespondType DEF HandleConfigLog, LocalsReady
  <2>6. QED BY <1>a, <2>3, <2>4, <2>5
<1>13. CASE HandleIgnored
  <2>1. KernelTypeOK'
    <3>1. names[msg.source] \in QIds \cup {NoQ}
      BY <1>13, <1>b DEF HandleIgnored, KernelTypeOK, Names
    <3>2. Leak(SRV, names[msg.source]) \/ UNCHANGED leaked
      BY <1>13 DEF HandleIgnored
    <3>3. leaked' \in [Names -> SUBSET QIds]
      BY <3>1, <3>2, LeakType DEF KernelTypeOK, Names
    <3>4. QED
      BY <1>13, <3>3 DEF HandleIgnored, KernelTypeOK
  <2>2. ServerTypeOK'
    BY <1>13 DEF HandleIgnored, ServerTypeOK
  <2>3. LocalsReady'
    BY <1>13 DEF HandleIgnored, LocalsReady
  <2>4. QED BY <1>a, <2>1, <2>2, <2>3
<1>14. CASE SendOk
  <2>1. /\ msg \in Messages /\ call.msg \in Messages
        /\ Return
    BY <1>14, <1>b DEF SendOk, LocalsReady
  <2>2. Enqueue(mqd_tmp, call.msg) \in [QIds -> Seq(Messages)]
    BY <2>1, AppendType DEF KernelTypeOK, Enqueue
  <2>3. head_monitor' \in Seq(Payloads)
    BY <1>14, DeleteFromMonitorType DEF SendOk, ServerTypeOK
  <2>4. KernelTypeOK'
    BY <1>14, <2>1, <2>2, ReturnType, SetQueuesType DEF SendOk, KernelTypeOK, SetQueues
  <2>5. ServerTypeOK'
    BY <1>14, <1>b, <2>1, <2>3, ReturnType, ReachesType DEF SendOk, ServerTypeOK, LocalsReady
  <2>6. LocalsReady'
    BY <1>14, <2>1, ReturnType DEF SendOk, LocalsReady
  <2>7. QED BY <1>a, <2>4, <2>5, <2>6
<1>15. CASE SendBad
  <2>1. /\ msg \in Messages /\ call.msg \in Messages
        /\ Return
    BY <1>15, <1>b DEF SendBad, LocalsReady
  <2>2. KernelTypeOK'
    BY <1>15, <2>1, ReturnType, SetQueuesType DEF SendBad, KernelTypeOK, SetQueues
  <2>3. ServerTypeOK'
    BY <1>15, <2>1, ReturnType DEF SendBad, ServerTypeOK
  <2>4. LocalsReady'
    BY <1>15, <2>1, ReturnType DEF SendBad, LocalsReady
  <2>5. QED BY <1>a, <2>2, <2>3, <2>4
<1>16. CASE SendFull
  <2>1. call.msg \in Messages /\ call.client_name \in Clients
    BY <1>16 DEF SendFull, LocalsReady
  <2>2. head_monitor' \in Seq(Payloads)
    <3>1. CountOne(head_monitor, call.client_name) \in Seq(Payloads)
      BY CountOneType DEF ServerTypeOK
    <3>2. Append(head_monitor, FullPayload) \in Seq(Payloads)
      BY <2>1, FullPayloadType, AppendType DEF ServerTypeOK
    <3>3. QED
      BY <1>16, <3>1, <3>2 DEF SendFull, add_to_monitor
  <2>3. /\ call' \in Calls
        /\ call'.msg = call.msg /\ call'.client_name = call.client_name
    BY <1>16, CallUpdateType DEF SendFull, ServerTypeOK, Calls, Monitored
  <2>4. KernelTypeOK'
    BY <1>16 DEF SendFull, KernelTypeOK
  <2>5. ServerTypeOK'
    BY <1>16, <2>2, <2>3 DEF SendFull, ServerTypeOK
  <2>6. LocalsReady'
    BY <1>16, <2>1, <2>3 DEF SendFull, KernelTypeOK, LocalsReady
  <2>7. QED BY <1>a, <2>4, <2>5, <2>6
<1>17. CASE Evict
  <2>1. mqd_tmp \in QIds /\ mqs[mqd_tmp] \in Seq(Messages) /\ mqs[mqd_tmp] # <<>>
    BY <1>17 DEF Evict, LocalsReady, KernelTypeOK
  <2>2. Head(mqs[mqd_tmp]) \in Messages /\ Tail(mqs[mqd_tmp]) \in Seq(Messages)
    BY <2>1, HeadTailType
  <2>3. /\ call' \in Calls
        /\ call'.msg = call.msg /\ call'.client_name = call.client_name
        /\ call'.oldest \in Messages
    BY <1>17, <2>2, CallUpdateType DEF Evict, ServerTypeOK, Calls
  <2>4. KernelTypeOK'
    BY <1>17, <2>1, <2>2 DEF Evict, KernelTypeOK, Dequeue
  <2>5. ServerTypeOK'
    BY <1>17, <2>3 DEF Evict, ServerTypeOK
  <2>6. LocalsReady'
    BY <1>17, <2>1, <2>3 DEF Evict, LocalsReady
  <2>7. QED BY <1>a, <2>4, <2>5, <2>6
<1>18. CASE EvictEmpty
  <2>1. /\ msg \in Messages /\ call.msg \in Messages
        /\ Return
    BY <1>18, <1>b DEF EvictEmpty, LocalsReady
  <2>2. KernelTypeOK'
    BY <1>18, <2>1, ReturnType, SetQueuesType DEF EvictEmpty, KernelTypeOK, SetQueues
  <2>3. ServerTypeOK'
    BY <1>18, <2>1, ReturnType DEF EvictEmpty, ServerTypeOK
  <2>4. LocalsReady'
    BY <1>18, <2>1, ReturnType DEF EvictEmpty, LocalsReady
  <2>5. QED BY <1>a, <2>2, <2>3, <2>4
<1>19. CASE Overwrite
  <2>1. /\ msg \in Messages /\ call.msg \in Messages
        /\ Return
    BY <1>19, <1>b DEF Overwrite, LocalsReady
  <2>2. Enqueue(mqd_tmp, call.msg) \in [QIds -> Seq(Messages)]
    BY <2>1, AppendType DEF KernelTypeOK, Enqueue
  <2>3. KernelTypeOK'
    BY <1>19, <2>1, <2>2, ReturnType, SetQueuesType DEF Overwrite, KernelTypeOK, SetQueues
  <2>4. ServerTypeOK'
    BY <1>19, <1>b, <2>1, ReturnType, ReachesType DEF Overwrite, ServerTypeOK, LocalsReady
  <2>5. LocalsReady'
    BY <1>19, <2>1, ReturnType DEF Overwrite, LocalsReady
  <2>6. QED BY <1>a, <2>3, <2>4, <2>5
<1>20. CASE OverwriteCrashedAnswer
  <2>1. /\ msg \in Messages /\ call.msg \in Messages
        /\ Return
    BY <1>20, <1>b DEF OverwriteCrashedAnswer, LocalsReady
  <2>2. Enqueue(mqd_tmp, call.msg) \in [QIds -> Seq(Messages)]
    BY <2>1, AppendType DEF KernelTypeOK, Enqueue
  <2>3. head_monitor' \in Seq(Payloads)
    BY <1>20, DeleteFromMonitorType DEF OverwriteCrashedAnswer, ServerTypeOK
  <2>4. KernelTypeOK'
    BY <1>20, <2>1, <2>2, ReturnType, SetQueuesType DEF OverwriteCrashedAnswer, KernelTypeOK, SetQueues
  <2>5. ServerTypeOK'
    BY <1>20, <2>1, <2>3, ReturnType DEF OverwriteCrashedAnswer, ServerTypeOK
  <2>6. LocalsReady'
    BY <1>20, <2>1, ReturnType DEF OverwriteCrashedAnswer, LocalsReady
  <2>7. QED BY <1>a, <2>4, <2>5, <2>6
<1>21. CASE OverwriteCrashed
  <2>1. Enqueue(mqd_tmp, call.msg) \in [QIds -> Seq(Messages)]
    BY <1>21, AppendType DEF OverwriteCrashed, LocalsReady, KernelTypeOK, Enqueue
  <2>2. head_monitor' \in Seq(Payloads) /\ crash_gr' \subseteq Nat
    BY <1>21, DeleteFromMonitorType, IndexType DEF OverwriteCrashed, ServerTypeOK
  <2>3. KernelTypeOK'
    BY <1>21, <2>1 DEF OverwriteCrashed, KernelTypeOK
  <2>4. ServerTypeOK'
    BY <1>21, <1>b, <2>2, ReachesType DEF OverwriteCrashed, ServerTypeOK, LocalsReady
  <2>5. LocalsReady'
    BY <1>21 DEF OverwriteCrashed, LocalsReady
  <2>6. QED BY <1>a, <2>3, <2>4, <2>5
<1>22. CASE PurgeRow
  <2>1. PICK i \in crash_gr :
          /\ head_client' = delete_client(head_client, i)
          /\ ret' = (ret /\ CanDelete(head_client, i))
          /\ crash_gr' = crash_gr \ {i}
    BY <1>22 DEF PurgeRow
  <2>2. i \in Nat /\ head_client' \in Seq(Rows)
    BY <2>1, DeleteClientType DEF ServerTypeOK
  <2>3. ret' \in BOOLEAN
    BY <2>1 DEF ServerTypeOK, CanDelete
  <2>4. KernelTypeOK'
    BY <1>22 DEF PurgeRow, KernelTypeOK
  <2>5. ServerTypeOK'
    BY <1>22, <2>1, <2>2, <2>3 DEF PurgeRow, ServerTypeOK
  <2>6. LocalsReady'
    BY <1>22 DEF PurgeRow, LocalsReady
  <2>7. QED BY <1>a, <2>4, <2>5, <2>6
<1>23. CASE Unlink
  <2>1. msg \in Messages /\ call.client_name \in Clients /\ Return
    BY <1>23, <1>b DEF Unlink, LocalsReady
  <2>2. KernelTypeOK'
    BY <1>23, <2>1, ReturnType, SetQueuesType DEF Unlink, KernelTypeOK, SetQueues
  <2>3. ServerTypeOK'
    BY <1>23, <2>1, ReturnType DEF Unlink, ServerTypeOK
  <2>4. LocalsReady'
    BY <1>23, <2>1, ReturnType DEF Unlink, LocalsReady
  <2>5. QED BY <1>a, <2>2, <2>3, <2>4
<1>24. CASE ServerStart
  <2>1. mqd' \in QIds /\ names' \in [Names -> QIds \cup {NoQ}]
    <3>1. CASE names[SRV] # NoQ
      BY <1>24, <3>1 DEF ServerStart, KernelTypeOK, Names
    <3>2. CASE names[SRV] = NoQ
      BY <1>24, <3>2, CreatableType DEF ServerStart, KernelTypeOK
    <3>3. QED BY <3>1, <3>2
  <2>2. KernelTypeOK'
    BY <1>24, <2>1 DEF ServerStart, KernelTypeOK
  <2>3. ServerTypeOK'
    BY <1>24 DEF ServerStart, ServerTypeOK
  <2>4. LocalsReady'
    BY <1>24, <2>1 DEF ServerStart, LocalsReady
  <2>5. QED BY <1>a, <2>2, <2>3, <2>4
<1>25. CASE ServerStop
  <2>1. KernelTypeOK'
    <3>1. leaked' \in [Names -> SUBSET QIds]
      BY <1>25, LeakType DEF ServerStop, ServerGone, KernelTypeOK, Names
    <3>2. QED
      BY <1>25, <3>1, SetQueuesType DEF ServerStop, ServerGone, KernelTypeOK, SetQueues
  <2>2. ServerTypeOK'
    BY <1>25, CallType, EmptySeq DEF ServerStop, ServerGone, ServerTypeOK
  <2>3. LocalsReady'
    BY <1>25 DEF ServerStop, ServerGone, LocalsReady
  <2>4. QED BY <1>a, <2>1, <2>2, <2>3
<1>26. CASE ServerKill
  <2>1. KernelTypeOK'
    <3>1. leaked' \in [Names -> SUBSET QIds]
      BY <1>26, LeakType DEF ServerKill, ServerGone, KernelTypeOK, Names
    <3>2. QED
      BY <1>26, <3>1, SetQueuesType DEF ServerKill, ServerGone, KernelTypeOK, SetQueues
  <2>2. ServerTypeOK'
    BY <1>26, CallType, EmptySeq DEF ServerKill, ServerGone, ServerTypeOK
  <2>3. LocalsReady'
    BY <1>26 DEF ServerKill, ServerGone, LocalsReady
  <2>4. QED BY <1>a, <2>1, <2>2, <2>3
<1>27. QED
  BY <1>1, <1>2, <1>3, <1>4, <1>5, <1>6, <1>7, <1>8, <1>9, <1>10, <1>11,
     <1>12, <1>13, <1>14, <1>15, <1>16, <1>17, <1>18, <1>19, <1>20, <1>21,
     <1>22, <1>23, <1>24, <1>25, <1>26 DEF ServerStep, ServerOutage

\* A call with any message, a request of the clients or not.
LEMMA CallKeepsType ==
  ASSUME TypeInv, NEW c \in Clients, NEW r \in Messages, Call(c, r)
  PROVE  TypeInv'
<1> USE DEF TypeInv, TypeOK, ownDescs, serverVars, clientVars
<1>1. names[SRV] \in QIds
  BY DEF Call, KernelTypeOK, Names
<1>2. KernelTypeOK'
  BY <1>1 DEF Call, KernelTypeOK
<1>3. ServerTypeOK' /\ ClientTypeOK'
  BY <1>1 DEF Call, ServerTypeOK, ClientTypeOK
<1>4. LocalsReady'
  BY <1>1 DEF Call, KernelTypeOK, ClientTypeOK, LocalsReady
<1>5. QED
  BY <1>2, <1>3, <1>4

\* Each step of a client keeps the types and finds its locals ready.
LEMMA ClientStepType ==
  ASSUME TypeInv, NEW c \in Clients, ClientStep(c)
  PROVE  TypeInv'
<1> USE DEF TypeInv, TypeOK, ownDescs, serverVars, clientVars
<1>1. CASE Start(c)
  <2>1. my_mq'[c] \in QIds /\ my_mq' = [my_mq EXCEPT ![c] = my_mq'[c]]
    BY <1>1, CreatableType DEF Start, KernelTypeOK
  <2>2. KernelTypeOK'
    <3>1. leaked' \in [Names -> SUBSET QIds]
      <4>1. Leak(c, my_mq[c]) /\ my_mq[c] \in QIds \cup {NoQ} /\ c \in Names
        BY <1>1 DEF Start, KernelTypeOK, Names
      <4>2. QED BY <4>1, LeakType DEF KernelTypeOK
    <3>2. names' \in [Names -> QIds \cup {NoQ}]
      BY <1>1, <2>1 DEF Start, KernelTypeOK
    <3>3. QED
      BY <1>1, <2>1, <3>1, <3>2, SetQueuesType DEF Start, KernelTypeOK, SetQueues
  <2>3. ServerTypeOK' /\ ClientTypeOK'
    BY <1>1 DEF Start, ServerTypeOK, ClientTypeOK
  <2>4. LocalsReady'
    BY <1>1, <2>1 DEF Start, KernelTypeOK, ClientTypeOK, LocalsReady
  <2>5. QED BY <2>2, <2>3, <2>4
<1>2. ASSUME NEW r \in Requests, Call(c, r)
      PROVE  TypeInv'
  BY <1>2, ClientAssumption, CallKeepsType
<1>3. CASE Send(c)
  <2>1. Enqueue(mqserver[c], request[c]) \in [QIds -> Seq(Messages)]
    BY <1>3, AppendType DEF Send, Enqueue, LocalsReady, KernelTypeOK
  <2>2. KernelTypeOK'
    BY <1>3, <2>1, SetQueuesType DEF Send, KernelTypeOK, SetQueues
  <2>3. ServerTypeOK' /\ ClientTypeOK'
    BY <1>3 DEF Send, ServerTypeOK, ClientTypeOK
  <2>4. LocalsReady'
    BY <1>3 DEF Send, KernelTypeOK, ClientTypeOK, LocalsReady
  <2>5. QED BY <2>2, <2>3, <2>4
<1>4. CASE Await(c) \/ Take(c)
  <2>1. mqs' = Dequeue(my_mq[c]) /\ mqs[my_mq[c]] # <<>> /\ my_mq[c] \in QIds
    BY <1>4 DEF Await, Take, LocalsReady
  <2>2. KernelTypeOK'
    BY <1>4, <2>1, HeadTailType DEF Await, Take, KernelTypeOK, Dequeue
  <2>3. ServerTypeOK' /\ ClientTypeOK'
    BY <1>4 DEF Await, Take, ServerTypeOK, ClientTypeOK
  <2>4. LocalsReady'
    BY <1>4 DEF Await, Take, ClientTypeOK, LocalsReady
  <2>5. QED BY <2>2, <2>3, <2>4
<1>5. CASE Close(c) \/ Crash(c)
  <2>1. /\ names' \in [Names -> QIds \cup {NoQ}]
        /\ Gone(c)
        /\ SetQueues(mqs)
    BY <1>5 DEF Close, Crash, KernelTypeOK, Names
  <2>2. KernelTypeOK'
    <3>1. leaked' \in [Names -> SUBSET QIds]
      BY <2>1, LeakType DEF Gone, KernelTypeOK, Names
    <3>2. QED
      BY <2>1, <3>1, SetQueuesType DEF Gone, KernelTypeOK, SetQueues
  <2>3. ServerTypeOK' /\ ClientTypeOK'
    BY <1>5 DEF Close, Crash, Gone, ServerTypeOK, ClientTypeOK
  <2>4. LocalsReady'
    BY <1>5 DEF Close, Crash, Gone, KernelTypeOK, ClientTypeOK, LocalsReady
  <2>5. QED BY <2>2, <2>3, <2>4
<1>6. QED
  BY <1>1, <1>2, <1>3, <1>4, <1>5 DEF ClientStep

\* The locals are ready and typed from the start.
LEMMA InitType ==
  ASSUME Init
  PROVE  TypeInv
<1>1. KernelTypeOK
  BY EmptySeq DEF Init, KernelInit, KernelTypeOK
<1>2. ServerTypeOK
  BY EmptySeq, CallType DEF Init, ServerInit, ServerTypeOK
<1>3. ClientTypeOK /\ LocalsReady
  BY ClientAssumption DEF Init, ServerInit, ClientInit, ClientTypeOK, LocalsReady
<1>4. QED BY <1>1, <1>2, <1>3 DEF TypeInv, TypeOK

\* The type invariant with the locals it needs is inductive.
THEOREM TypeInvariant == Spec => []TypeInv
<1>1. Init => TypeInv
  BY InitType
<1>2. TypeInv /\ [Next]_vars => TypeInv'
  <2> SUFFICES ASSUME TypeInv, [Next]_vars PROVE TypeInv'
    OBVIOUS
  <2>1. CASE (ServerStart \/ ServerStep \/ ServerOutage) /\ UNCHANGED clientVars
    BY <2>1, ServerStepType
  <2>2. CASE \E c \in Clients : ClientStep(c)
    BY <2>2, ClientStepType
  <2>3. CASE UNCHANGED vars
    BY <2>3 DEF vars, kernelVars, serverVars, clientVars, TypeInv, TypeOK,
       KernelTypeOK, ServerTypeOK, ClientTypeOK, LocalsReady
  <2>4. QED
    BY <2>1, <2>2, <2>3 DEF Next
<1>3. QED
  BY <1>1, <1>2, PTL DEF Spec

\* Every variable keeps its type, for any sets of clients, topics, requests and
\* queues and any capacities.
THEOREM TypeCorrect == Spec => []TypeOK
<1>1. TypeInv => TypeOK
  BY DEF TypeInv
<1>2. QED
  BY <1>1, TypeInvariant, PTL

---------------------------------------------------------------------------
(* The queues: whose messages one holds across restarts of either side, and *)
(* that there is room for the message the full-queue handler adds.          *)

\* q is, or was, the queue of a client that can still be sent to.
ClientSide(q) ==
  q = mqd_tmp \/ \E c \in Clients : q = names[c] \/ q = my_mq[c]

\* q is, or was, the queue of the server that can still be sent to.
ServerSide(q) ==
  q = mqd \/ q = names[SRV] \/ \E c \in Clients : q = mqserver[c]

\* No queue is on both sides, whoever reuses what.
Sides == \A q \in QIds : ~(ClientSide(q) /\ ServerSide(q))

\* A client queue never holds more than it has room for.
Bounded == \A q \in QIds : ClientSide(q) => Len(mqs[q]) <= ClientCap

\* A queue to be created holds nothing.
NewAreEmpty == \A q \in Creatable : mqs[q] = <<>>

\* The server has a client queue open only while it works on a message for it,
\* and its own only while it runs.
Opened ==
  /\ server \in {"down", "recv", "handle", "loop"} => mqd_tmp = NoQ
  /\ server = "down" => mqd = NoQ

QueueInv == Sides /\ Bounded /\ NewAreEmpty /\ Opened /\ RoomAfterEvict

\* A client has the server queue open only while it sends.
SendersOnly == \A c \in Clients : client[c] # "sending" => mqserver[c] = NoQ

---------------------------------------------------------------------------
(* Lemmas about one step.                                                  *)

LEMMA EmptyHasRoom == Len(<<>>) = 0
OBVIOUS

\* The message a queue of a step gains or loses.
LEMMA QueueChange ==
  ASSUME KernelTypeOK, NEW q \in QIds, NEW m \in Messages
  PROVE  /\ Enqueue(q, m) \in [QIds -> Seq(Messages)]
         /\ Len(Enqueue(q, m)[q]) = Len(mqs[q]) + 1
         /\ \A p \in QIds \ {q} : Enqueue(q, m)[p] = mqs[p] /\ Dequeue(q)[p] = mqs[p]
         /\ mqs[q] # <<>> => Len(Dequeue(q)[q]) = Len(mqs[q]) - 1
         /\ \A p \in QIds : Len(mqs[p]) \in Nat
BY DEF KernelTypeOK, Enqueue, Dequeue

\* What SetQueues leaves.
LEMMA AfterSetQueues ==
  ASSUME NEW content, SetQueues(content)
  PROVE  /\ NewAreEmpty'
         /\ \A q \in QIds : mqs'[q] = content[q] \/ mqs'[q] = <<>>
         /\ \A q \in Referenced' : mqs'[q] = content[q]
<1>1. \A q \in QIds : mqs'[q] = IF q \in Referenced' THEN content[q] ELSE <<>>
  BY DEF SetQueues
<1>2. Creatable' = QIds \ Referenced' /\ Referenced' \subseteq QIds
  BY DEF Creatable, Referenced
<1>3. QED
  BY <1>1, <1>2 DEF NewAreEmpty

\* Fewer queues on the client side, with no more in them than there may be.
LEMMA BoundedAfter ==
  ASSUME NEW content, SetQueues(content),
         \A q \in QIds : ClientSide(q)' => Len(content[q]) <= ClientCap
  PROVE  Bounded'
<1>1. ASSUME NEW q \in QIds, ClientSide(q)'
      PROVE  Len(mqs'[q]) <= ClientCap
  BY <1>1, AfterSetQueues, EmptyHasRoom, KernelAssumption
<1>2. QED
  BY <1>1 DEF Bounded

\* The server opens the queue of a client for what it sends next.
LEMMA OpenStep ==
  ASSUME TypeInv, QueueInv, NEW c \in Clients, Open(c),
         server \in {"handle", "loop"}, server' \in {"send", "delete"},
         UNCHANGED <<mqs, names, mqd, my_mq, mqserver>>,
         \A n \in Names : leaked[n] \subseteq leaked'[n]
  PROVE  QueueInv'
<1>1. mqd_tmp = NoQ /\ mqd_tmp' = names[c]
  BY DEF QueueInv, Opened, Open
<1>2. ASSUME NEW q \in QIds
      PROVE  (ClientSide(q)' => ClientSide(q)) /\ (ServerSide(q)' <=> ServerSide(q))
  BY <1>1, <1>2 DEF ClientSide, ServerSide
<1>3. Sides' /\ Bounded'
  BY <1>2 DEF QueueInv, Sides, Bounded
<1>4. Referenced \subseteq Referenced'
  BY <1>1, KernelAssumption DEF Referenced, Names
<1>5. NewAreEmpty'
  BY <1>4 DEF QueueInv, NewAreEmpty, Creatable
<1>6. QED
  BY <1>3, <1>5 DEF QueueInv, Opened, RoomAfterEvict

\* The server closes the queue of a client, whose contents it may have changed;
\* the name of a client may go.
LEMMA CloseStep ==
  ASSUME TypeInv, QueueInv, NEW content, SetQueues(content), Return,
         UNCHANGED <<mqd, my_mq, mqserver, leaked>>,
         \A n \in Names : names'[n] \in {names[n], NoQ},
         \A q \in QIds : \/ Len(content[q]) <= Len(mqs[q])
                         \/ q = mqd_tmp /\ Len(content[q]) <= ClientCap,
         \A q \in QIds : Len(content[q]) \in Nat
  PROVE  QueueInv'
<1>1. mqd_tmp' = NoQ /\ server' \in {"loop", "recv"}
  BY DEF Return
<1>2. ASSUME NEW q \in QIds
      PROVE  (ClientSide(q)' => ClientSide(q)) /\ (ServerSide(q)' => ServerSide(q))
  BY <1>1, <1>2, KernelAssumption DEF ClientSide, ServerSide, Names
<1>3. Sides'
  BY <1>2 DEF QueueInv, Sides
<1>4. ASSUME NEW q \in QIds, ClientSide(q)'
      PROVE  Len(content[q]) <= ClientCap
  <2>1. Len(mqs[q]) <= ClientCap /\ Len(mqs[q]) \in Nat
    BY <1>2, <1>4 DEF QueueInv, Bounded, TypeInv, TypeOK, KernelTypeOK
  <2>2. QED
    BY <2>1, KernelAssumption
<1>5. Bounded'
  BY <1>4, BoundedAfter
<1>6. QED
  BY <1>1, <1>3, <1>5, AfterSetQueues DEF QueueInv, Opened, RoomAfterEvict

\* Nothing about the queues changes but what the client side holds less of.
LEMMA SameQueues ==
  ASSUME TypeInv, QueueInv, UNCHANGED kernelVars,
         server' \in {"recv", "handle", "loop"} => mqd_tmp = NoQ,
         server' \notin {"down", "overwrite"}
  PROVE  QueueInv'
<1>1. \A q \in QIds : (ClientSide(q)' <=> ClientSide(q)) /\ (ServerSide(q)' <=> ServerSide(q))
  BY DEF kernelVars, ClientSide, ServerSide
<1>2. Creatable' = Creatable
  BY DEF kernelVars, Creatable, Referenced
<1>3. QED
  BY <1>1, <1>2 DEF kernelVars, QueueInv, Sides, Bounded, NewAreEmpty, Opened, RoomAfterEvict

\* The server's steps that open a client queue.
LEMMA OpeningSteps ==
  ASSUME TypeInv, QueueInv,
         \/ HandleSubcribe \/ HandleUnsubcribeAll \/ HandleUnsubcribe
         \/ LoopOpen \/ HandleSendTo \/ HandleConfigLog
  PROVE  QueueInv'
<1> USE DEF ownDescs
<1>1. server \in {"handle", "loop"} /\ msg \in Messages /\ head_client \in Seq(Rows)
  BY DEF HandleSubcribe, HandleUnsubcribeAll, HandleUnsubcribe, LoopOpen, HandleSendTo,
     HandleConfigLog, TypeInv, TypeOK, ServerTypeOK, LocalsReady
<1>2. leaked \in [Names -> SUBSET QIds]
  BY DEF TypeInv, TypeOK, KernelTypeOK
<1>3. CASE HandleUnsubcribeAll \/ HandleUnsubcribe
  <2>1. /\ Open(msg.source) /\ msg.source \in Clients
        /\ server' \in {"send", "delete"}
        /\ UNCHANGED <<mqs, names, mqd, my_mq, mqserver>>
        /\ Leak(SRV, mqd_tmp') \/ UNCHANGED leaked
    BY <1>1, <1>3, MessageFields DEF HandleUnsubcribeAll, HandleUnsubcribe, Respond, CallSend
  <2>2. \A n \in Names : leaked[n] \subseteq leaked'[n]
    BY <1>2, <2>1 DEF Leak
  <2>3. QED
    BY <1>1, <2>1, <2>2, OpenStep
<1>4. CASE HandleSubcribe \/ HandleConfigLog
  <2>1. /\ Open(msg.source) /\ msg.source \in Clients
        /\ server' \in {"send", "delete"}
        /\ UNCHANGED <<mqs, names, mqd, my_mq, mqserver, leaked>>
    BY <1>1, <1>4, MessageFields DEF HandleSubcribe, HandleConfigLog, Respond, CallSend
  <2>2. QED
    BY <1>1, <2>1, OpenStep
<1>5. CASE HandleSendTo
  <2>1. /\ Open(msg.topic) /\ msg.topic \in Clients
        /\ server' \in {"send", "delete"}
        /\ UNCHANGED <<mqs, names, mqd, my_mq, mqserver, leaked>>
    BY <1>1, <1>5, MessageFields DEF HandleSendTo, CallSend
  <2>2. QED
    BY <1>1, <2>1, OpenStep
<1>6. CASE LoopOpen
  <2>1. PICK i \in index_gr :
          /\ HasIndex(head_client, i)
          /\ Open(Row(head_client, i).client_name)
          /\ server' = "send"
    BY <1>6 DEF LoopOpen, CallSend
  <2>2. i \in Indexes(head_client)
    BY <1>1, <2>1 DEF HasIndex, Indexes, TypeInv, TypeOK, ServerTypeOK
  <2>3. Row(head_client, i).client_name \in Clients
    BY <1>1, <2>2, IndexType DEF Rows
  <2>4. UNCHANGED <<mqs, names, mqd, my_mq, mqserver, leaked>>
    BY <1>6 DEF LoopOpen
  <2>5. QED
    BY <1>1, <2>1, <2>3, <2>4, OpenStep
<1>7. QED
  BY <1>3, <1>4, <1>5, <1>6

\* The server's steps that close one.
LEMMA ClosingSteps ==
  ASSUME TypeInv, QueueInv,
         \/ SendOk \/ SendBad \/ EvictEmpty
         \/ Overwrite \/ OverwriteCrashedAnswer \/ Unlink
  PROVE  QueueInv'
<1> USE DEF ownDescs
<1>0. KernelTypeOK /\ mqs \in [QIds -> Seq(Messages)] /\ names \in [Names -> QIds \cup {NoQ}]
  BY DEF TypeInv, TypeOK, KernelTypeOK
<1>1. \A q \in QIds : Len(mqs[q]) \in Nat
  BY <1>0
<1>2. CASE SendBad
  <2>1. UNCHANGED kernelVars /\ mqd_tmp = NoQ /\ server' \in {"loop", "recv"}
    BY <1>2 DEF SendBad, Return, kernelVars
  <2>2. QED
    BY <2>1, SameQueues
<1>3. CASE EvictEmpty
  <2>1. SetQueues(mqs) /\ Return /\ UNCHANGED <<names, mqd, my_mq, mqserver, leaked>>
    BY <1>3 DEF EvictEmpty
  <2>2. QED
    BY <1>1, <2>1, CloseStep
<1>4. CASE Unlink
  <2>1. /\ SetQueues(mqs) /\ Return /\ UNCHANGED <<mqd, my_mq, mqserver, leaked>>
        /\ names' = [names EXCEPT ![call.client_name] = NoQ] \/ names' = names
    BY <1>4 DEF Unlink
  <2>2. \A n \in Names : names'[n] \in {names[n], NoQ}
    BY <1>0, <2>1
  <2>3. QED
    BY <1>1, <2>1, <2>2, CloseStep
<1>5. CASE SendOk \/ Overwrite \/ OverwriteCrashedAnswer
  <2> DEFINE content == Enqueue(mqd_tmp, call.msg)
  <2>1. /\ SetQueues(content) /\ Return
        /\ UNCHANGED <<names, mqd, my_mq, mqserver, leaked>>
    BY <1>5 DEF SendOk, Overwrite, OverwriteCrashedAnswer
  <2>2. call.msg \in Messages /\ mqd_tmp \in QIds
    BY <1>0, <1>5 DEF SendOk, Overwrite, OverwriteCrashedAnswer, TypeInv, LocalsReady,
       KernelTypeOK
  <2>3. HasRoom(mqd_tmp, ClientCap)
    BY <1>5 DEF SendOk, Overwrite, OverwriteCrashedAnswer, QueueInv, RoomAfterEvict
  <2>4. /\ Len(content[mqd_tmp]) = Len(mqs[mqd_tmp]) + 1
        /\ \A p \in QIds \ {mqd_tmp} : content[p] = mqs[p]
    BY <1>0, <2>2, QueueChange
  <2>5. Len(content[mqd_tmp]) <= ClientCap
    BY <1>1, <2>2, <2>3, <2>4, KernelAssumption DEF HasRoom
  <2> HIDE DEF content
  <2>6. \A q \in QIds : \/ Len(content[q]) <= Len(mqs[q])
                        \/ q = mqd_tmp /\ Len(content[q]) <= ClientCap
    BY <1>1, <2>4, <2>5
  <2>7. \A q \in QIds : Len(content[q]) \in Nat
    BY <1>1, <2>4
  <2>8. QED
    BY <2>1, <2>6, <2>7, CloseStep
<1>6. QED
  BY <1>2, <1>3, <1>4, <1>5

\* The server's steps that change what is in a queue and no name or descriptor.
LEMMA ContentSteps ==
  ASSUME TypeInv, QueueInv, Receive \/ Evict \/ OverwriteCrashed
  PROVE  QueueInv'
<1> USE DEF ownDescs
<1>0. KernelTypeOK
  BY DEF TypeInv, TypeOK
<1>1. /\ UNCHANGED <<names, mqd, mqd_tmp, my_mq, mqserver, leaked>>
  BY DEF Receive, Evict, OverwriteCrashed
<1>2. /\ \A q \in QIds : (ClientSide(q)' <=> ClientSide(q)) /\ (ServerSide(q)' <=> ServerSide(q))
      /\ Creatable' = Creatable
  BY <1>1 DEF ClientSide, ServerSide, Creatable, Referenced
<1>3. \A q \in QIds : Len(mqs[q]) \in Nat
  BY <1>0 DEF KernelTypeOK
<1>4. mqd \notin Creatable /\ mqd_tmp \notin Creatable
  BY <1>0, KernelAssumption DEF Creatable, Referenced, KernelTypeOK
<1>5. CASE Receive
  <2>1. mqd \in QIds /\ mqs' = Dequeue(mqd) /\ server = "recv" /\ server' = "handle"
    BY <1>5 DEF Receive, TypeInv, LocalsReady
  <2>2. \A p \in QIds \ {mqd} : mqs'[p] = mqs[p]
    BY <1>0, <2>1 DEF Dequeue, KernelTypeOK
  <2>3. ~ClientSide(mqd)
    BY <2>1 DEF QueueInv, Sides, ServerSide
  <2>4. Bounded' /\ Sides'
    BY <1>2, <2>2, <2>3 DEF QueueInv, Bounded, Sides
  <2>5. NewAreEmpty'
    BY <1>2, <1>4, <2>2 DEF QueueInv, NewAreEmpty, Creatable
  <2>6. QED
    BY <1>1, <2>1, <2>4, <2>5 DEF QueueInv, Opened, RoomAfterEvict
<1>6. CASE Evict
  <2>1. /\ mqd_tmp \in QIds /\ mqs' = Dequeue(mqd_tmp) /\ mqs[mqd_tmp] # <<>>
        /\ server' = "overwrite"
    BY <1>6 DEF Evict, TypeInv, LocalsReady
  <2>2. /\ \A p \in QIds \ {mqd_tmp} : mqs'[p] = mqs[p]
        /\ Len(mqs'[mqd_tmp]) = Len(mqs[mqd_tmp]) - 1
    BY <1>0, <2>1 DEF Dequeue, KernelTypeOK
  <2>3. Len(mqs[mqd_tmp]) <= ClientCap
    BY <2>1 DEF QueueInv, Bounded, ClientSide
  <2>4. Len(mqs'[mqd_tmp]) < ClientCap
    BY <1>3, <2>1, <2>2, <2>3, KernelAssumption
  <2>5. Bounded' /\ Sides'
    BY <1>2, <2>2, <2>4, KernelAssumption DEF QueueInv, Bounded, Sides
  <2>6. NewAreEmpty'
    BY <1>2, <1>4, <2>2 DEF QueueInv, NewAreEmpty, Creatable
  <2>7. RoomAfterEvict'
    BY <1>1, <2>4 DEF RoomAfterEvict, HasRoom
  <2>8. QED
    BY <2>1, <2>5, <2>6, <2>7 DEF QueueInv, Opened
<1>7. CASE OverwriteCrashed
  <2>1. /\ mqd_tmp \in QIds /\ call.msg \in Messages
        /\ mqs' = Enqueue(mqd_tmp, call.msg)
        /\ server = "overwrite" /\ server' = "purge"
    BY <1>7 DEF OverwriteCrashed, TypeInv, LocalsReady
  <2>2. /\ \A p \in QIds \ {mqd_tmp} : mqs'[p] = mqs[p]
        /\ Len(mqs'[mqd_tmp]) = Len(mqs[mqd_tmp]) + 1
    BY <1>0, <2>1 DEF Enqueue, KernelTypeOK
  <2>3. Len(mqs[mqd_tmp]) < ClientCap
    BY <2>1 DEF QueueInv, RoomAfterEvict, HasRoom
  <2>4. Len(mqs'[mqd_tmp]) <= ClientCap
    BY <1>3, <2>1, <2>2, <2>3, KernelAssumption
  <2>5. Bounded' /\ Sides'
    BY <1>2, <2>2, <2>4 DEF QueueInv, Bounded, Sides
  <2>6. NewAreEmpty'
    BY <1>2, <1>4, <2>2 DEF QueueInv, NewAreEmpty, Creatable
  <2>7. QED
    BY <2>1, <2>5, <2>6 DEF QueueInv, Opened, RoomAfterEvict
<1>8. QED
  BY <1>5, <1>6, <1>7

\* The server's steps on its own memory.
LEMMA PrivateSteps ==
  ASSUME TypeInv, QueueInv,
         \/ HandleSend \/ LoopSkip \/ LoopDone \/ DeleteRow \/ DeleteDone
         \/ PurgeRow \/ SendFull
  PROVE  QueueInv'
<1>1. /\ UNCHANGED kernelVars
      /\ server \in {"handle", "loop"} \/ server' \in {"send", "delete", "purge", "evict"}
      /\ server' \notin {"down", "overwrite"}
  BY DEF HandleSend, LoopSkip, LoopDone, DeleteRow, DeleteDone, PurgeRow, SendFull,
     Respond, CallSend
<1>2. server' \in {"recv", "handle", "loop"} => mqd_tmp = NoQ
  BY <1>1 DEF QueueInv, Opened
<1>3. QED
  BY <1>1, <1>2, SameQueues

\* A message that is not answered: at most one descriptor more is lost.
LEMMA IgnoredStep ==
  ASSUME TypeInv, QueueInv, HandleIgnored
  PROVE  QueueInv'
<1>1. /\ UNCHANGED <<mqs, names, mqd, mqd_tmp, my_mq, mqserver>>
      /\ server = "handle" /\ server' = "recv"
      /\ Leak(SRV, names[msg.source]) \/ UNCHANGED leaked
  BY DEF HandleIgnored
<1>2. leaked \in [Names -> SUBSET QIds]
  BY DEF TypeInv, TypeOK, KernelTypeOK
<1>3. \A n \in Names : leaked[n] \subseteq leaked'[n]
  BY <1>1, <1>2 DEF Leak
<1>4. Referenced \subseteq Referenced'
  BY <1>1, <1>3 DEF Referenced
<1>5. NewAreEmpty'
  BY <1>1, <1>4 DEF QueueInv, NewAreEmpty, Creatable
<1>6. \A q \in QIds : (ClientSide(q)' <=> ClientSide(q)) /\ (ServerSide(q)' <=> ServerSide(q))
  BY <1>1 DEF ClientSide, ServerSide
<1>7. QED
  BY <1>1, <1>5, <1>6 DEF QueueInv, Sides, Bounded, Opened, RoomAfterEvict

---------------------------------------------------------------------------
(* Lemmas about a start, an outage and the steps of a client.              *)

\* Neither side gains a queue, and no content of a client queue changes except
\* that a queue nothing refers to any more is gone.
LEMMA ReleaseStep ==
  ASSUME TypeInv, QueueInv, NEW content, SetQueues(content),
         \A q \in QIds : ClientSide(q)' => ClientSide(q),
         \A q \in QIds : ServerSide(q)' => ServerSide(q),
         \A q \in QIds : ClientSide(q) => content[q] = mqs[q],
         \/ UNCHANGED <<server, mqd, mqd_tmp>>
         \/ server' = "down" /\ mqd' = NoQ /\ mqd_tmp' = NoQ
  PROVE  QueueInv'
<1>1. Sides' /\ Opened'
  BY DEF QueueInv, Sides, Opened
<1>2. Bounded'
  BY BoundedAfter DEF QueueInv, Bounded
<1>3. ASSUME server' = "overwrite"
      PROVE  HasRoom(mqd_tmp, ClientCap)'
  <2>1. server = "overwrite" /\ mqd_tmp' = mqd_tmp /\ mqd_tmp \in QIds
    BY <1>3 DEF TypeInv, LocalsReady
  <2>2. mqs'[mqd_tmp] = content[mqd_tmp]
    BY <2>1, AfterSetQueues DEF Referenced
  <2>3. content[mqd_tmp] = mqs[mqd_tmp]
    BY <2>1 DEF ClientSide
  <2>4. QED
    BY <2>1, <2>2, <2>3 DEF QueueInv, RoomAfterEvict, HasRoom
<1>4. QED
  BY <1>1, <1>2, <1>3, AfterSetQueues DEF QueueInv, RoomAfterEvict

\* The server takes over the queue its name still refers to, or a new one.
LEMMA StartStep ==
  ASSUME TypeInv, QueueInv, ServerStart, UNCHANGED clientVars
  PROVE  QueueInv'
<1>0. names \in [Names -> QIds \cup {NoQ}] /\ SRV \in Names /\ Clients \subseteq Names
  BY DEF TypeInv, TypeOK, KernelTypeOK, Names
<1>1. /\ UNCHANGED <<mqs, mqd_tmp, my_mq, mqserver, leaked>>
      /\ server = "down" /\ server' = "recv"
      /\ names' = [names EXCEPT ![SRV] = mqd']
      /\ mqd' = names[SRV] \/ (names[SRV] = NoQ /\ mqd' \in Creatable)
  <2>1. Creatable # {} => (CHOOSE q \in Creatable : TRUE) \in Creatable
    OBVIOUS
  <2>2. CASE names[SRV] # NoQ
    <3>1. names' = names
      BY <2>2 DEF ServerStart
    <3>m. mqd' = names[SRV]
      BY <2>2 DEF ServerStart
    <3>2. names = [names EXCEPT ![SRV] = names[SRV]]
      BY <1>0
    <3>3. names' = [names EXCEPT ![SRV] = mqd']
      BY <3>1, <3>2, <3>m, Zenon
    <3>4. mqd' = names[SRV] \/ (names[SRV] = NoQ /\ mqd' \in Creatable)
      BY <3>m
    <3>5. UNCHANGED <<mqs, mqd_tmp, my_mq, mqserver, leaked>> /\ server = "down" /\ server' = "recv"
      BY <2>2 DEF ServerStart
    <3>6. QED
      BY <3>3, <3>4, <3>5, Zenon
  <2>3. CASE names[SRV] = NoQ
    BY <1>0, <2>1, <2>3 DEF ServerStart
  <2>4. QED
    BY <2>2, <2>3
<1>2. \A c \in Clients : names'[c] = names[c]
  BY <1>0, <1>1, KernelAssumption
<1>3. names'[SRV] = mqd'
  BY <1>0, <1>1
<1>4. ASSUME NEW q \in QIds
      PROVE  /\ ClientSide(q)' <=> ClientSide(q)
             /\ ServerSide(q)' => ServerSide(q) \/ q \in Creatable
  BY <1>1, <1>2, <1>3 DEF ClientSide, ServerSide
<1>5. \A q \in Creatable : ~ClientSide(q)
  BY <1>0, KernelAssumption DEF Creatable, Referenced, ClientSide
<1>6. Sides' /\ Bounded'
  BY <1>1, <1>4, <1>5 DEF QueueInv, Sides, Bounded
<1>7. NewAreEmpty' /\ Opened' /\ RoomAfterEvict'
  <2>1. ASSUME NEW q \in QIds, q \in Creatable', q \notin Creatable
        PROVE  q = mqd
    <3>1. q \in Referenced /\ q \notin Referenced'
      BY <2>1 DEF Creatable
    <3>2. CASE q = names[SRV]
      BY <1>1, <3>1, <3>2, KernelAssumption DEF Referenced
    <3>3. CASE q # names[SRV]
      <4>1. \A n \in Names : names[n] = q => names'[n] = q
        BY <1>2, <3>3 DEF Names
      <4>2. QED
        BY <1>1, <3>1, <4>1 DEF Referenced
    <3>4. QED
      BY <3>2, <3>3
  <2>2. mqd = NoQ
    BY <1>1 DEF QueueInv, Opened
  <2>3. QED
    BY <1>1, <2>1, <2>2, KernelAssumption DEF QueueInv, NewAreEmpty, Opened, RoomAfterEvict, Creatable
<1>8. QED
  BY <1>6, <1>7 DEF QueueInv

\* The broker ends: its descriptors go, and on SIGINT its name.
LEMMA OutageStep ==
  ASSUME TypeInv, QueueInv, ServerOutage, UNCHANGED clientVars
  PROVE  QueueInv'
<1>0. names \in [Names -> QIds \cup {NoQ}]
  BY DEF TypeInv, TypeOK, KernelTypeOK
<1>1. /\ SetQueues(mqs) /\ server' = "down" /\ mqd' = NoQ /\ mqd_tmp' = NoQ
      /\ UNCHANGED <<my_mq, mqserver>>
      /\ names' = [names EXCEPT ![SRV] = NoQ] \/ names' = names
  BY DEF ServerOutage, ServerStop, ServerKill, ServerGone
<1>2. \A n \in Names : names'[n] \in {names[n], NoQ}
  BY <1>0, <1>1
<1>3. ASSUME NEW q \in QIds
      PROVE  (ClientSide(q)' => ClientSide(q)) /\ (ServerSide(q)' => ServerSide(q))
  BY <1>1, <1>2, KernelAssumption DEF ClientSide, ServerSide, Names
<1>4. QED
  BY <1>1, <1>3, ReleaseStep

\* A client creates its queue: nobody else can have it yet.
LEMMA ClientStart ==
  ASSUME TypeInv, QueueInv, NEW c \in Clients, Start(c)
  PROVE  QueueInv'
<1>0. /\ names \in [Names -> QIds \cup {NoQ}] /\ my_mq \in [Clients -> QIds \cup {NoQ}]
      /\ c \in Names /\ c # SRV
  BY KernelAssumption DEF TypeInv, TypeOK, KernelTypeOK, Names
<1>1. /\ SetQueues(mqs) /\ UNCHANGED <<mqd, mqd_tmp, mqserver, server>>
      /\ my_mq' = [my_mq EXCEPT ![c] = my_mq'[c]]
      /\ names' = [names EXCEPT ![c] = my_mq'[c]]
  BY <1>0 DEF Start, serverVars
<1>2. my_mq'[c] \in Creatable
  <2>1. Creatable # {} => (CHOOSE q \in Creatable : TRUE) \in Creatable
    OBVIOUS
  <2>2. QED
    BY <1>0, <2>1 DEF Start
<1>3. /\ names'[SRV] = names[SRV]
      /\ \A d \in Clients : /\ names'[d] \in {names[d], my_mq'[c]}
                            /\ my_mq'[d] \in {my_mq[d], my_mq'[c]}
  BY <1>0, <1>1 DEF Names
<1>4. ASSUME NEW q \in QIds
      PROVE  /\ ClientSide(q)' => ClientSide(q) \/ q \in Creatable
             /\ ServerSide(q)' => ServerSide(q)
  BY <1>1, <1>2, <1>3 DEF ClientSide, ServerSide
<1>5. \A q \in Creatable : ~ServerSide(q)
  BY DEF Creatable, Referenced, ServerSide, Names
<1>6. Sides'
  BY <1>4, <1>5 DEF QueueInv, Sides
<1>7. ASSUME NEW q \in QIds, ClientSide(q)'
      PROVE  Len(mqs[q]) <= ClientCap
  BY <1>4, <1>7, EmptyHasRoom, KernelAssumption DEF QueueInv, Bounded, NewAreEmpty
<1>8. Bounded'
  BY <1>1, <1>7, BoundedAfter
<1>9. ASSUME server' = "overwrite"
      PROVE  HasRoom(mqd_tmp, ClientCap)'
  <2>1. server = "overwrite" /\ mqd_tmp' = mqd_tmp /\ mqd_tmp \in QIds
    BY <1>1, <1>9 DEF TypeInv, LocalsReady
  <2>2. mqd_tmp \in Referenced'
    BY <2>1 DEF Referenced
  <2>3. mqs'[mqd_tmp] = mqs[mqd_tmp]
    BY <1>1, <2>2, AfterSetQueues
  <2>4. QED
    BY <2>1, <2>3 DEF QueueInv, RoomAfterEvict, HasRoom
<1>10. QED
  BY <1>1, <1>6, <1>8, <1>9, AfterSetQueues DEF QueueInv, Opened, RoomAfterEvict

\* A client opens the server queue.
LEMMA ClientCall ==
  ASSUME TypeInv, QueueInv, SendersOnly, NEW c \in Clients, NEW r, Call(c, r)
  PROVE  QueueInv'
<1>0. mqserver \in [Clients -> QIds \cup {NoQ}]
  BY DEF TypeInv, TypeOK, KernelTypeOK
<1>1. /\ UNCHANGED <<mqs, names, mqd, mqd_tmp, my_mq, leaked, server>>
      /\ mqserver' = [mqserver EXCEPT ![c] = names[SRV]]
      /\ client[c] = "idle"
  BY DEF Call, serverVars
<1>2. \A d \in Clients : mqserver'[d] \in {mqserver[d], names[SRV]}
  BY <1>0, <1>1
<1>3. ASSUME NEW q \in QIds
      PROVE  (ClientSide(q)' <=> ClientSide(q)) /\ (ServerSide(q)' => ServerSide(q))
  BY <1>1, <1>2 DEF ClientSide, ServerSide
<1>4. Referenced \subseteq Referenced'
  <2>1. mqserver[c] = NoQ
    BY <1>1 DEF SendersOnly
  <2>2. \A d \in Clients : mqserver[d] # NoQ => mqserver'[d] = mqserver[d]
    BY <1>0, <1>1, <2>1
  <2>3. QED
    BY <1>1, <2>2, KernelAssumption DEF Referenced
<1>5. NewAreEmpty'
  BY <1>1, <1>4 DEF QueueInv, NewAreEmpty, Creatable
<1>6. Sides' /\ Bounded'
  BY <1>1, <1>3 DEF QueueInv, Sides, Bounded
<1>7. Opened' /\ RoomAfterEvict'
  BY <1>1 DEF QueueInv, Opened, RoomAfterEvict, HasRoom
<1>8. QED
  BY <1>5, <1>6, <1>7 DEF QueueInv

\* A client sends: what it fills is a server queue.
LEMMA ClientSend ==
  ASSUME TypeInv, QueueInv, NEW c \in Clients, Send(c)
  PROVE  QueueInv'
<1> DEFINE content == Enqueue(mqserver[c], request[c])
<1>0. /\ mqserver \in [Clients -> QIds \cup {NoQ}]
      /\ mqs \in [QIds -> Seq(Messages)]
  BY DEF TypeInv, TypeOK, KernelTypeOK
<1>1. /\ SetQueues(content) /\ UNCHANGED <<names, mqd, mqd_tmp, my_mq, server>>
      /\ mqserver' = [mqserver EXCEPT ![c] = NoQ]
      /\ client[c] = "sending"
  BY DEF Send, serverVars
<1>2. \A d \in Clients : mqserver'[d] \in {mqserver[d], NoQ}
  BY <1>0, <1>1
<1>3. ASSUME NEW q \in QIds
      PROVE  (ClientSide(q)' => ClientSide(q)) /\ (ServerSide(q)' => ServerSide(q))
  BY <1>1, <1>2, KernelAssumption DEF ClientSide, ServerSide
<1>4. ASSUME NEW q \in QIds, ClientSide(q)
      PROVE  content[q] = mqs[q]
  <2>1. q # mqserver[c]
    BY <1>4 DEF QueueInv, Sides, ServerSide
  <2>2. QED
    BY <1>0, <2>1 DEF Enqueue
<1> HIDE DEF content
<1>5. QED
  BY <1>1, <1>3, <1>4, ReleaseStep

\* A client takes a message of its queue.
LEMMA ClientReceive ==
  ASSUME TypeInv, QueueInv, NEW c \in Clients, Await(c) \/ Take(c)
  PROVE  QueueInv'
<1> USE DEF ownDescs
<1>0. mqs \in [QIds -> Seq(Messages)]
  BY DEF TypeInv, TypeOK, KernelTypeOK
<1>1. /\ UNCHANGED <<names, mqd, mqd_tmp, my_mq, mqserver, leaked, server>>
      /\ mqs' = Dequeue(my_mq[c]) /\ mqs[my_mq[c]] # <<>>
      /\ my_mq[c] \in QIds
  BY DEF Await, Take, serverVars, TypeInv, LocalsReady
<1>2. /\ \A q \in QIds : (ClientSide(q)' <=> ClientSide(q)) /\ (ServerSide(q)' <=> ServerSide(q))
      /\ Creatable' = Creatable
  BY <1>1 DEF ClientSide, ServerSide, Creatable, Referenced
<1>3. \A q \in QIds : /\ Len(mqs[q]) \in Nat /\ Len(mqs'[q]) \in Nat
                      /\ Len(mqs'[q]) <= Len(mqs[q])
                      /\ q # my_mq[c] => mqs'[q] = mqs[q]
  BY <1>0, <1>1 DEF Dequeue
<1>4. Sides' /\ Bounded'
  BY <1>2, <1>3, KernelAssumption DEF QueueInv, Sides, Bounded
<1>5. NewAreEmpty'
  BY <1>1, <1>2, <1>3 DEF QueueInv, NewAreEmpty, Creatable, Referenced
<1>6. ASSUME server' = "overwrite"
      PROVE  HasRoom(mqd_tmp, ClientCap)'
  <2>1. mqd_tmp' = mqd_tmp /\ mqd_tmp \in QIds /\ Len(mqs[mqd_tmp]) < ClientCap
    BY <1>1, <1>6 DEF TypeInv, LocalsReady, QueueInv, RoomAfterEvict, HasRoom
  <2>2. QED
    BY <1>3, <2>1, KernelAssumption DEF HasRoom
<1>7. QED
  BY <1>1, <1>4, <1>5, <1>6 DEF QueueInv, Opened, RoomAfterEvict

\* A client ends: its descriptors go, and on a close its name.
LEMMA ClientEnd ==
  ASSUME TypeInv, QueueInv, NEW c \in Clients, Close(c) \/ Crash(c)
  PROVE  QueueInv'
<1>0. /\ names \in [Names -> QIds \cup {NoQ}] /\ my_mq \in [Clients -> QIds \cup {NoQ}]
      /\ mqserver \in [Clients -> QIds \cup {NoQ}]
  BY DEF TypeInv, TypeOK, KernelTypeOK
<1>1. /\ SetQueues(mqs) /\ UNCHANGED <<mqd, mqd_tmp, server>>
      /\ my_mq' = [my_mq EXCEPT ![c] = NoQ]
      /\ mqserver' = [mqserver EXCEPT ![c] = NoQ]
      /\ names' = [names EXCEPT ![c] = NoQ] \/ names' = names
  BY DEF Close, Crash, Gone, serverVars
<1>2. /\ \A n \in Names : names'[n] \in {names[n], NoQ}
      /\ \A d \in Clients : my_mq'[d] \in {my_mq[d], NoQ} /\ mqserver'[d] \in {mqserver[d], NoQ}
  BY <1>0, <1>1
<1>3. ASSUME NEW q \in QIds
      PROVE  (ClientSide(q)' => ClientSide(q)) /\ (ServerSide(q)' => ServerSide(q))
  BY <1>1, <1>2, KernelAssumption DEF ClientSide, ServerSide, Names
<1>4. QED
  BY <1>1, <1>3, ReleaseStep

\* Who has the server queue open changes with the state of the client only.
LEMMA SendersStep ==
  ASSUME TypeInv, SendersOnly, [Next]_vars
  PROVE  SendersOnly'
<1> USE DEF ownDescs, kernelVars
<1>0. /\ mqserver \in [Clients -> QIds \cup {NoQ}]
      /\ client \in [Clients -> {"off", "idle", "sending", "waiting"}]
  BY DEF TypeInv, TypeOK, KernelTypeOK, ClientTypeOK
<1>1. CASE UNCHANGED <<mqserver, client>>
  BY <1>1 DEF SendersOnly
<1>2. CASE UNCHANGED vars
  BY <1>1, <1>2 DEF vars, clientVars
<1>3. CASE (ServerStart \/ ServerStep \/ ServerOutage) /\ UNCHANGED clientVars
  <2>1. mqserver' = mqserver
    BY <1>3 DEF ServerStart, ServerStep, ServerOutage, ServerStop, ServerKill, ServerGone,
       Receive, HandleSubcribe, HandleUnsubcribeAll, DeleteRow, DeleteDone,
       HandleUnsubcribe, HandleSend, LoopSkip, LoopOpen, LoopDone, HandleSendTo,
       HandleConfigLog, HandleIgnored, SendOk, SendBad, SendFull, Evict, EvictEmpty,
       Overwrite, OverwriteCrashedAnswer, OverwriteCrashed, PurgeRow, Unlink
  <2>2. QED
    BY <1>1, <1>3, <2>1 DEF clientVars
<1>4. ASSUME NEW c \in Clients, ClientStep(c)
      PROVE  SendersOnly'
  <2>1. \A d \in Clients \ {c} : client'[d] = client[d] /\ mqserver'[d] = mqserver[d]
    BY <1>0, <1>4 DEF ClientStep, Start, Call, Send, Await, Take, Close, Crash, Gone, clientVars
  <2>2. client'[c] # "sending" => mqserver'[c] = NoQ
    BY <1>0, <1>4 DEF SendersOnly, ClientStep, Start, Call, Send, Await, Take, Close, Crash,
       Gone, clientVars
  <2>3. QED
    BY <2>1, <2>2 DEF SendersOnly
<1>5. QED
  BY <1>2, <1>3, <1>4 DEF Next

---------------------------------------------------------------------------
(* The theorems.                                                           *)

LEMMA InitQueues ==
  ASSUME Init
  PROVE  QueueInv /\ SendersOnly
<1>1. /\ mqs = [q \in QIds |-> <<>>] /\ mqd = NoQ /\ mqd_tmp = NoQ /\ server = "down"
      /\ names = [n \in Names |-> NoQ]
      /\ my_mq = [c \in Clients |-> NoQ] /\ mqserver = [c \in Clients |-> NoQ]
  BY DEF Init, KernelInit, ServerInit
<1>2. \A q \in QIds : ~ClientSide(q)
  BY <1>1, KernelAssumption DEF ClientSide, Names
<1>3. QED
  BY <1>1, <1>2 DEF QueueInv, Sides, Bounded, NewAreEmpty, Creatable, Opened,
     RoomAfterEvict, SendersOnly

\* No queue is ever on both sides, no client queue is over-full and no queue is
\* created with something in it, across all restarts of the broker and of its
\* clients and all queues it loses: RoomAfterEvict is not inductive, because the
\* room is there only while nobody else can fill the queue the server has open.
THEOREM QueueInvariant == Spec => [](QueueInv /\ SendersOnly)
<1>1. Init => QueueInv /\ SendersOnly
  BY InitQueues
<1>2. ASSUME TypeInv, QueueInv, SendersOnly, [Next]_vars
      PROVE  QueueInv'
  <2>1. CASE UNCHANGED vars
    <3>1. UNCHANGED <<kernelVars, server>>
      BY <2>1 DEF vars, serverVars
    <3>2. \A q \in QIds : (ClientSide(q)' <=> ClientSide(q)) /\ (ServerSide(q)' <=> ServerSide(q))
      BY <3>1 DEF kernelVars, ClientSide, ServerSide
    <3>3. Creatable' = Creatable
      BY <3>1 DEF kernelVars, Creatable, Referenced
    <3>4. Sides' /\ Bounded' /\ NewAreEmpty'
      BY <1>2, <3>1, <3>2, <3>3 DEF kernelVars, QueueInv, Sides, Bounded, NewAreEmpty
    <3>5. Opened' /\ RoomAfterEvict'
      BY <1>2, <3>1 DEF kernelVars, QueueInv, Opened, RoomAfterEvict, HasRoom
    <3>6. QED
      BY <3>4, <3>5 DEF QueueInv
  <2>2. CASE ServerStart /\ UNCHANGED clientVars
    BY <1>2, <2>2, StartStep
  <2>3. CASE ServerOutage /\ UNCHANGED clientVars
    BY <1>2, <2>3, OutageStep
  <2>4. CASE ServerStep
    BY <1>2, <2>4, OpeningSteps, ClosingSteps, ContentSteps, PrivateSteps, IgnoredStep
       DEF ServerStep
  <2>5. ASSUME NEW c \in Clients, ClientStep(c)
        PROVE  QueueInv'
    BY <1>2, <2>5, ClientStart, ClientCall, ClientSend, ClientReceive, ClientEnd
       DEF ClientStep
  <2>6. QED
    BY <1>2, <2>1, <2>2, <2>3, <2>4, <2>5 DEF Next
<1>3. TypeInv /\ QueueInv /\ SendersOnly /\ [Next]_vars => (QueueInv /\ SendersOnly)'
  BY <1>2, SendersStep
<1>4. QED
  BY <1>1, <1>3, TypeInvariant, PTL DEF Spec

\* The message the full-queue handler adds always finds the room the handler
\* made: only the server sends to client queues.
THEOREM RoomForNew == Spec => []RoomAfterEvict
<1>1. QueueInv => RoomAfterEvict
  BY DEF QueueInv
<1>2. QED
  BY <1>1, QueueInvariant, PTL
=============================================================================
