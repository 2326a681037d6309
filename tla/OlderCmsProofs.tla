--------------------------- MODULE OlderCmsProofs ---------------------------
(***************************************************************************)
(* Theorems about the older brokers and their programs: what is still true *)
(* of their queues and client list.  A step they share with CmsServer or   *)
(* CmsClient is covered by the lemmas about those modules.                 *)
(***************************************************************************)
EXTENDS OlderCms, CmsListProofs, FiniteSetTheorems

---------------------------------------------------------------------------
(* Types of the server's own steps.                                        *)

\* What the lookups of the older list return.
LEMMA BoxLookups ==
  ASSUME NEW list \in Seq(Rows)
  PROVE  /\ box_length(list) \subseteq Nat
         /\ \A x : box_index_by_topic(list, x) \subseteq Nat
         /\ \A x : box_index_by_name(list, x) \subseteq Nat
BY IndexType DEF box_length, box_index_by_topic, box_index_by_name

LEMMA BoxFound ==
  ASSUME NEW list \in Seq(Rows), NEW data
  PROVE  \/ /\ box_index_by_data(list, data) = NotFound
            /\ get_index_by_data(list, data) = {}
         \/ /\ box_index_by_data(list, data) \in get_index_by_data(list, data)
            /\ box_index_by_data(list, data) \in Nat
            /\ box_index_by_data(list, data) < Len(list)
<1>1. CASE get_index_by_data(list, data) = {}
  BY <1>1 DEF box_index_by_data
<1>2. CASE get_index_by_data(list, data) # {}
  <2>1. box_index_by_data(list, data) \in get_index_by_data(list, data)
    BY <1>2 DEF box_index_by_data
  <2>2. QED
    BY <2>1, FoundRow
<1>3. QED
  BY <1>1, <1>2

\* What box_delete_client deletes is a row with a number, whatever it was asked for.
LEMMA BoxDeletes ==
  ASSUME NEW list \in Seq(Rows), NEW i \in Nat \cup {NotFound}
  PROVE  /\ box_delete_client(list, i) \in Seq(Rows)
         /\ \E k \in Nat : box_delete_client(list, i) = delete_client(list, k)
         /\ i \in Nat => box_delete_client(list, i) = delete_client(list, i)
<1>1. i \in Nat => i # NotFound
  BY DEF NotFound
<1>2. PICK k \in Nat : box_delete_client(list, i) = delete_client(list, k)
  BY <1>1 DEF box_delete_client
<1>3. box_delete_client(list, i) \in Seq(Rows)
  BY <1>2, DeleteClientType
<1>4. QED
  BY <1>1, <1>2, <1>3 DEF box_delete_client

\* The process ends, with whatever it leaves in the queues.
LEMMA GoneType ==
  ASSUME TypeInv, ServerGone, UNCHANGED clientVars,
         names' \in [Names -> QIds \cup {NoQ}],
         NEW content \in [QIds -> Seq(Messages)], SetQueues(content)
  PROVE  TypeInv'
<1> USE DEF TypeInv, TypeOK, clientVars
<1>1. leaked' \in [Names -> SUBSET QIds]
  BY LeakType DEF ServerGone, KernelTypeOK, Names
<1>2. KernelTypeOK'
  BY <1>1, SetQueuesType DEF ServerGone, KernelTypeOK, SetQueues
<1>3. ServerTypeOK'
  BY CallType, EmptySeq DEF ServerGone, ServerTypeOK
<1>4. ClientTypeOK' /\ LocalsReady'
  BY DEF ServerGone, ClientTypeOK, LocalsReady
<1>5. QED
  BY <1>2, <1>3, <1>4

\* The handler returns from a queue it had open.
LEMMA ReturnsType ==
  ASSUME TypeInv, UNCHANGED clientVars, server \notin {"down", "recv"}, Return,
         NEW content \in [QIds -> Seq(Messages)], SetQueues(content),
         UNCHANGED <<names, ownDescs, lists, index_gr, targets, crash_gr, fixedVars>>,
         ret' \in BOOLEAN, reached' \subseteq Clients, purged' \subseteq Clients
  PROVE  TypeInv'
<1> USE DEF TypeInv, TypeOK, clientVars, ownDescs, lists, fixedVars
<1>1. msg \in Messages
  BY DEF LocalsReady
<1>2. KernelTypeOK'
  BY <1>1, ReturnType, SetQueuesType DEF KernelTypeOK, SetQueues
<1>3. ServerTypeOK'
  BY <1>1, ReturnType DEF ServerTypeOK
<1>4. ClientTypeOK' /\ LocalsReady'
  BY <1>1, ReturnType DEF ClientTypeOK, LocalsReady
<1>5. QED
  BY <1>2, <1>3, <1>4

\* The message the server is about to add to a queue it has open.
LEMMA AddedType ==
  ASSUME TypeInv, server \in {"send", "overwrite"}
  PROVE  Enqueue(mqd_tmp, call.msg) \in [QIds -> Seq(Messages)]
BY AppendType DEF TypeInv, TypeOK, LocalsReady, KernelTypeOK, Enqueue

\* The steps of hung123/cms_box that CmsServer does not have.
BoxOwnStep ==
  \/ BoxSubcribe \/ BoxUnsubcribeAll \/ BoxDeleteRow \/ BoxDeleteDone
  \/ BoxUnsubcribe \/ BoxUnsubcribeFault
  \/ BoxSend \/ BoxLoopSkip \/ BoxLoopOpen \/ BoxLoopFault
  \/ BoxAnswerFault \/ BoxPurgeRow

LEMMA BoxOwnType ==
  ASSUME TypeInv, BoxOwnStep, UNCHANGED clientVars
  PROVE  TypeInv'
<1> USE DEF TypeInv, TypeOK, clientVars, kernelVars, ownDescs, lists, loopVars,
            purgeVars, fixedVars
<1>a. ClientTypeOK'
  BY DEF ClientTypeOK
<1>b. server \notin {"down", "recv"} => msg \in Messages /\ msg.source \in Clients
  BY MessageFields DEF LocalsReady
<1>c. head_client \in Seq(Rows) /\ mqs \in [QIds -> Seq(Messages)]
  BY DEF ServerTypeOK, KernelTypeOK
<1>1. CASE BoxSubcribe
  <2>1. msg \in Messages /\ msg.source \in Names
    BY <1>1, <1>b DEF BoxSubcribe, Names
  <2>2. head_client' \in Seq(Rows) /\ purged' \subseteq purged
    <3> DEFINE data == create_data(msg.source, msg.topic)
    <3>1. data \in Rows
      BY <2>1, RowType
    <3>2. Append(head_client, data) \in Seq(Rows)
      BY <1>c, <3>1, AppendType
    <3>3. QED
      BY <1>1, <1>c, <3>1, <3>2 DEF BoxSubcribe, box_add_client, add_client, box_create_data
  <2>3. CASE NoAnswer
    <3>1. KernelTypeOK'
      BY <1>1, <2>3 DEF BoxSubcribe, NoAnswer, KernelTypeOK
    <3>2. ServerTypeOK'
      BY <1>1, <2>2, <2>3 DEF BoxSubcribe, NoAnswer, ServerTypeOK
    <3>3. LocalsReady'
      BY <1>1, <2>3 DEF BoxSubcribe, NoAnswer, LocalsReady
    <3>4. QED BY <1>a, <3>1, <3>2, <3>3
  <2>4. CASE Open(msg.source) /\ Respond("SUBCRIBE_SUCCESS") /\ UNCHANGED msg
    <3>1. "SUBCRIBE_SUCCESS" \in Replies
      BY DEF Replies
    <3>2. KernelTypeOK'
      BY <1>1, <2>1, <2>4 DEF BoxSubcribe, KernelTypeOK, Open
    <3>3. ServerTypeOK'
      BY <1>1, <2>1, <2>2, <2>4, <3>1, RespondType DEF BoxSubcribe, ServerTypeOK
    <3>4. LocalsReady'
      BY <1>1, <2>1, <2>4, <3>1, RespondType DEF BoxSubcribe, LocalsReady
    <3>5. QED BY <1>a, <3>2, <3>3, <3>4
  <2>5. QED
    BY <1>1, <2>3, <2>4 DEF BoxSubcribe
<1>2. CASE BoxUnsubcribeAll
  <2>1. msg.source \in Names /\ index_gr' \subseteq Nat
    BY <1>2, <1>b, <1>c, BoxLookups DEF BoxUnsubcribeAll, Names
  <2>2. KernelTypeOK'
    BY <1>2, <2>1 DEF BoxUnsubcribeAll, KernelTypeOK, Open
  <2>3. ServerTypeOK'
    BY <1>2, <2>1 DEF BoxUnsubcribeAll, ServerTypeOK
  <2>4. LocalsReady'
    BY <1>2 DEF BoxUnsubcribeAll, LocalsReady
  <2>5. QED BY <1>a, <2>2, <2>3, <2>4
<1>3. CASE BoxDeleteRow
  <2>1. PICK i \in index_gr :
          /\ head_client' = box_delete_client(head_client, i)
          /\ ret' = (ret /\ CanDelete(head_client, i))
          /\ index_gr' = index_gr \ {i}
    BY <1>3 DEF BoxDeleteRow
  <2>2. i \in Nat /\ head_client' \in Seq(Rows)
    BY <1>c, <2>1, BoxDeletes DEF ServerTypeOK
  <2>3. ret' \in BOOLEAN
    BY <2>1 DEF ServerTypeOK, CanDelete
  <2>4. KernelTypeOK'
    BY <1>3 DEF BoxDeleteRow, KernelTypeOK
  <2>5. ServerTypeOK'
    BY <1>3, <2>1, <2>2, <2>3 DEF BoxDeleteRow, ServerTypeOK
  <2>6. LocalsReady'
    BY <1>3 DEF BoxDeleteRow, LocalsReady
  <2>7. QED BY <1>a, <2>4, <2>5, <2>6
<1>4. CASE BoxDeleteDone
  <2>1. msg \in Messages
    BY <1>4, <1>b DEF BoxDeleteDone
  <2>2. PICK reply \in Replies : Respond(reply)
    BY <1>4 DEF BoxDeleteDone, Replies, UnsubcribeSuccess
  <2>3. KernelTypeOK'
    BY <1>4 DEF BoxDeleteDone, KernelTypeOK
  <2>4. ServerTypeOK'
    BY <1>4, <2>1, <2>2, RespondType DEF BoxDeleteDone, ServerTypeOK
  <2>5. LocalsReady'
    BY <1>4, <2>1, <2>2, RespondType DEF BoxDeleteDone, LocalsReady
  <2>6. QED BY <1>a, <2>3, <2>4, <2>5
<1>5. CASE BoxUnsubcribe
  <2>1. msg \in Messages /\ msg.source \in Names
    BY <1>5, <1>b DEF BoxUnsubcribe, Names
  <2>2. PICK reply \in Replies : Respond(reply)
    BY <1>5 DEF BoxUnsubcribe, Replies, UnsubcribeSuccess
  <2>3. head_client' \in Seq(Rows)
    <3> DEFINE i == box_index_by_data(head_client, box_create_data(msg.source, msg.topic))
    <3>1. i \in Nat \cup {NotFound} /\ head_client' = box_delete_client(head_client, i)
      BY <1>5, <1>c, BoxFound DEF BoxUnsubcribe
    <3> HIDE DEF i
    <3>2. QED
      BY <1>c, <3>1, BoxDeletes
  <2>4. KernelTypeOK'
    BY <1>5, <2>1 DEF BoxUnsubcribe, KernelTypeOK, Open
  <2>5. ServerTypeOK'
    BY <1>5, <2>1, <2>2, <2>3, RespondType DEF BoxUnsubcribe, ServerTypeOK
  <2>6. LocalsReady'
    BY <1>5, <2>1, <2>2, RespondType DEF BoxUnsubcribe, LocalsReady
  <2>7. QED BY <1>a, <2>4, <2>5, <2>6
<1>6. CASE BoxUnsubcribeFault \/ BoxLoopFault
  <2>1. Fault
    BY <1>6 DEF BoxUnsubcribeFault, BoxLoopFault
  <2>2. ServerGone /\ SetQueues(mqs) /\ names' \in [Names -> QIds \cup {NoQ}]
    BY <2>1 DEF Fault, KernelTypeOK
  <2>3. QED
    BY <1>c, <2>2, GoneType
<1>7. CASE BoxSend
  <2>1. index_gr' \subseteq Indexes(head_client)
    BY <1>7 DEF BoxSend, box_length, box_index_by_topic, get_index_by_topic
  <2>2. index_gr' \subseteq Nat /\ targets' \subseteq Clients
    <3>1. \A i \in index_gr' : i \in Nat /\ Row(head_client, i) \in Rows
      BY <1>c, <2>1, IndexType
    <3>2. \A r \in Rows : r.client_name \in Clients
      BY DEF Rows
    <3>3. targets' = {Row(head_client, i).client_name : i \in index_gr'}
      BY <1>7 DEF BoxSend
    <3>4. QED BY <3>1, <3>2, <3>3
  <2>3. KernelTypeOK'
    BY <1>7 DEF BoxSend, KernelTypeOK
  <2>4. ServerTypeOK'
    BY <1>7, <2>2 DEF BoxSend, ServerTypeOK
  <2>5. LocalsReady'
    BY <1>7 DEF BoxSend, LocalsReady
  <2>6. QED BY <1>a, <2>3, <2>4, <2>5
<1>8. CASE BoxLoopSkip
  <2>1. KernelTypeOK'
    BY <1>8 DEF BoxLoopSkip, KernelTypeOK
  <2>2. ServerTypeOK'
    BY <1>8 DEF BoxLoopSkip, ServerTypeOK
  <2>3. LocalsReady'
    BY <1>8 DEF BoxLoopSkip, LocalsReady
  <2>4. QED BY <1>a, <2>1, <2>2, <2>3
<1>9. CASE BoxLoopOpen
  <2>1. msg \in Messages
    BY <1>9, <1>b DEF BoxLoopOpen
  <2>2. PICK i \in index_gr :
          /\ HasIndex(head_client, i)
          /\ Open(Row(head_client, i).client_name)
          /\ CallSend(msg, Row(head_client, i).client_name)
          /\ index_gr' = index_gr \ {i}
    BY <1>9 DEF BoxLoopOpen
  <2> DEFINE name == Row(head_client, i).client_name
  <2>3. name \in Clients
    <3>1. i \in Indexes(head_client)
      BY <2>2 DEF ServerTypeOK, HasIndex, Indexes
    <3>2. Row(head_client, i) \in Rows
      BY <1>c, <3>1, IndexType
    <3>3. QED BY <3>2 DEF Rows
  <2>4. /\ call' = [msg |-> msg, client_name |-> name, pl |-> FALSE, oldest |-> NoMsg]
        /\ server' = "send"
        /\ mqd_tmp' = names[name]
    BY <2>2 DEF CallSend, Open
  <2> HIDE DEF name
  <2>5. KernelTypeOK'
    BY <1>9, <2>3, <2>4 DEF BoxLoopOpen, KernelTypeOK, Names
  <2>6. ServerTypeOK'
    BY <1>9, <2>1, <2>2, <2>3, <2>4, CallType DEF BoxLoopOpen, ServerTypeOK
  <2>7. LocalsReady'
    BY <1>9, <2>1, <2>3, <2>4 DEF BoxLoopOpen, LocalsReady
  <2>8. QED BY <1>a, <2>5, <2>6, <2>7
<1>10. CASE BoxAnswerFault
  <2>1. /\ ServerGone /\ SetQueues(Enqueue(mqd_tmp, call.msg)) /\ server = "overwrite"
        /\ names' \in [Names -> QIds \cup {NoQ}]
    BY <1>10 DEF BoxAnswerFault, KernelTypeOK
  <2>2. QED
    BY <2>1, AddedType, GoneType
<1>11. CASE BoxPurgeRow
  <2>1. PICK i \in crash_gr :
          /\ head_client' = box_delete_client(head_client, i)
          /\ ret' = (ret /\ CanDelete(head_client, i))
          /\ crash_gr' = crash_gr \ {i}
    BY <1>11 DEF BoxPurgeRow
  <2>2. i \in Nat /\ head_client' \in Seq(Rows)
    BY <1>c, <2>1, BoxDeletes DEF ServerTypeOK
  <2>3. ret' \in BOOLEAN
    BY <2>1 DEF ServerTypeOK, CanDelete
  <2>4. KernelTypeOK'
    BY <1>11 DEF BoxPurgeRow, KernelTypeOK
  <2>5. ServerTypeOK'
    BY <1>11, <2>1, <2>2, <2>3 DEF BoxPurgeRow, ServerTypeOK
  <2>6. LocalsReady'
    BY <1>11 DEF BoxPurgeRow, LocalsReady
  <2>7. QED BY <1>a, <2>4, <2>5, <2>6
<1>12. QED
  BY <1>1, <1>2, <1>3, <1>4, <1>5, <1>6, <1>7, <1>8, <1>9, <1>10, <1>11 DEF BoxOwnStep

\* The steps of hung/cms that neither CmsServer nor hung123/cms_box have.
HungOwnStep ==
  \/ HungReceiveLost \/ HungReceiveStop
  \/ HungSendOk \/ HungAnswerLost \/ HungSearchFault
  \/ HungFull \/ HungDoubleFree \/ HungOverwrite \/ HungPurgeDone

\* The payload the search finds is one of the list.
LEMMA HungFound ==
  ASSUME NEW list \in Seq(Payloads), NEW x, HungPositions(list, x) # {}
  PROVE  HungFirst(list, x) \in DOMAIN list
<1>1. HungPositions(list, x) \subseteq Nat
  BY DEF HungPositions
<1>2. \E i \in HungPositions(list, x) : \A j \in HungPositions(list, x) : i <= j
  BY <1>1, FirstIndex
<1>3. HungFirst(list, x) \in HungPositions(list, x)
  BY <1>2 DEF HungFirst
<1>4. QED
  BY <1>3 DEF HungPositions

LEMMA HungDeletesType ==
  ASSUME NEW S, NEW list \in Seq(S), NEW x
  PROVE  hung_delete_from_monitor(list, x) \in Seq(S)
<1> DEFINE at_ == {k \in DOMAIN list : list[k].topic = x}
<1>1. CASE at_ = {}
  BY <1>1 DEF hung_delete_from_monitor
<1>2. CASE at_ # {}
  <2> DEFINE n == Len(list) - 1
             p == CHOOSE k \in at_ : \A j \in at_ : k <= j
             s == [k \in 1 .. n |-> IF k < p THEN list[k] ELSE list[k + 1]]
  <2>1. n \in Nat
    BY <1>2
  <2>2. s \in [1 .. n -> S]
    <3> HIDE DEF p
    <3> QED BY <2>1
  <2>3. s \in Seq(S)
    BY <2>1, <2>2
  <2>4. hung_delete_from_monitor(list, x) = s
    BY <1>2 DEF hung_delete_from_monitor
  <2>5. QED
    BY <2>3, <2>4
<1>3. QED
  BY <1>1, <1>2

\* Counting a payload, whichever it is.
LEMMA HungCountedType ==
  ASSUME NEW list \in Seq(Payloads), NEW p \in DOMAIN list
  PROVE  /\ [list EXCEPT ![p].send_count = @ + 1] \in Seq(Payloads)
         /\ [list EXCEPT ![p].send_count = @ + 1][p].client_name \in Clients
<1>1. list[p] \in Payloads
  OBVIOUS
<1>2. [list[p] EXCEPT !.send_count = @ + 1] \in Payloads
  BY <1>1, CountedType
<1>3. [list EXCEPT ![p] = [list[p] EXCEPT !.send_count = @ + 1]] \in Seq(Payloads)
  BY <1>2, ExceptSeq
<1>4. [list EXCEPT ![p].send_count = @ + 1][p] \in Payloads
  BY <1>2
<1>5. QED
  BY <1>3, <1>4 DEF Payloads

LEMMA HungFullType ==
  ASSUME TypeInv, HungFull, UNCHANGED clientVars
  PROVE  TypeInv'
<1> USE DEF TypeInv, TypeOK, clientVars, kernelVars, lists, loopVars, fixedVars
<1> DEFINE topic == call.msg.topic
           p == HungFirst(head_monitor, topic)
           counted == [head_monitor EXCEPT ![p].send_count = @ + 1]
<1>1. /\ call \in Calls /\ call.msg \in Messages /\ call.client_name \in Clients
      /\ head_monitor \in Seq(Payloads) /\ mqd_tmp \in QIds /\ server = "send"
  BY DEF HungFull, Full, LocalsReady, ServerTypeOK, KernelTypeOK
<1>2. KernelTypeOK' /\ ClientTypeOK'
  BY DEF HungFull, KernelTypeOK, ClientTypeOK
<1>3. UNCHANGED <<head_client, msg, index_gr, targets, reached, ret, purged, log_level,
                  serverStarts, mqd, mqd_tmp, my_mq, mqserver>>
  BY DEF HungFull
<1>4. ASSUME head_monitor' = hung_add_to_monitor(head_monitor, call.msg, call.client_name),
             server' = "evict", UNCHANGED <<call, crash_gr>>
      PROVE  TypeInv'
  <2>1. create_payload(call.msg.source, call.msg.topic, call.msg.data, call.client_name) \in Payloads
    BY <1>1, MessageFields DEF create_payload, Payloads, FieldNames
  <2>2. head_monitor' \in Seq(Payloads)
    BY <1>1, <1>4, <2>1, AppendType DEF hung_add_to_monitor, add_to_monitor
  <2>3. ServerTypeOK'
    BY <1>3, <1>4, <2>2 DEF ServerTypeOK
  <2>4. LocalsReady'
    BY <1>1, <1>3, <1>4 DEF LocalsReady
  <2>5. QED
    BY <1>2, <2>3, <2>4
<1>5. ASSUME HungPositions(head_monitor, topic) # {}
      PROVE  p \in DOMAIN head_monitor /\ counted \in Seq(Payloads) /\ counted[p].client_name \in Clients
  BY <1>1, <1>5, HungFound, HungCountedType
<1>6. ASSUME HungPositions(head_monitor, topic) # {}, head_monitor' = counted,
             server' = "evict", UNCHANGED <<call, crash_gr>>
      PROVE  TypeInv'
  <2>1. head_monitor' \in Seq(Payloads)
    BY <1>5, <1>6
  <2>2. ServerTypeOK'
    BY <1>3, <1>6, <2>1 DEF ServerTypeOK
  <2>3. LocalsReady'
    BY <1>1, <1>3, <1>6 DEF LocalsReady
  <2>4. QED
    BY <1>2, <2>2, <2>3
<1>7. ASSUME HungPositions(head_monitor, topic) # {},
             head_monitor' = hung_delete_from_monitor(counted, counted[p].topic),
             crash_gr' = box_index_by_name(head_client, counted[p].client_name),
             call' = [call EXCEPT !.client_name = counted[p].client_name],
             server' = "purge"
      PROVE  TypeInv'
  <2> HIDE DEF counted, p
  <2>1. head_monitor' \in Seq(Payloads)
    BY <1>5, <1>7, HungDeletesType
  <2>2. crash_gr' \subseteq Nat
    BY <1>7, BoxLookups DEF ServerTypeOK
  <2>3. call' \in Calls /\ call'.msg = call.msg /\ call'.client_name \in Clients
    BY <1>1, <1>5, <1>7 DEF Calls, Names
  <2>4. ServerTypeOK'
    BY <1>3, <1>7, <2>1, <2>2, <2>3 DEF ServerTypeOK
  <2>5. LocalsReady'
    BY <1>1, <1>3, <1>7, <2>3 DEF LocalsReady
  <2>6. QED
    BY <1>2, <2>4, <2>5
<1>8. QED
  BY <1>4, <1>6, <1>7 DEF HungFull

LEMMA HungOwnType ==
  ASSUME TypeInv, HungOwnStep, UNCHANGED clientVars
  PROVE  TypeInv'
<1>a. /\ mqs \in [QIds -> Seq(Messages)] /\ names \in [Names -> QIds \cup {NoQ}]
      /\ ret \in BOOLEAN /\ reached \subseteq Clients /\ purged \subseteq Clients
  BY DEF TypeInv, TypeOK, KernelTypeOK, ServerTypeOK
<1>1. CASE HungReceiveLost
  <2> USE DEF TypeInv, TypeOK, clientVars, ownDescs, serverVars
  <2>1. mqd \in QIds /\ mqs[mqd] # <<>>
    BY <1>1 DEF HungReceiveLost, LocalsReady
  <2>2. KernelTypeOK'
    BY <1>1, <2>1, HeadTailType DEF HungReceiveLost, KernelTypeOK, Dequeue
  <2>3. ServerTypeOK' /\ ClientTypeOK' /\ LocalsReady'
    BY <1>1 DEF HungReceiveLost, ServerTypeOK, ClientTypeOK, LocalsReady
  <2>4. QED
    BY <2>2, <2>3
<1>2. CASE HungReceiveStop
  <2>1. /\ ServerGone /\ SetQueues(Dequeue(mqd)) /\ mqs[mqd] # <<>> /\ mqd \in QIds
        /\ names' \in [Names -> QIds \cup {NoQ}]
    BY <1>2, <1>a DEF HungReceiveStop, TypeInv, LocalsReady
  <2>2. Dequeue(mqd) \in [QIds -> Seq(Messages)]
    BY <1>a, <2>1, HeadTailType DEF Dequeue
  <2>3. QED
    BY <2>1, <2>2, GoneType
<1>3. CASE HungSendOk \/ HungOverwrite
  <2>1. /\ server \in {"send", "overwrite"} /\ Return
        /\ SetQueues(Enqueue(mqd_tmp, call.msg))
        /\ Reaches /\ call.client_name \in Clients
        /\ UNCHANGED <<names, ownDescs, lists, purgeVars, fixedVars>>
    BY <1>3 DEF HungSendOk, HungOverwrite, TypeInv, LocalsReady
  <2>2. reached' \subseteq Clients /\ UNCHANGED <<index_gr, targets>>
    BY <1>a, <2>1, ReachesType
  <2>3. QED
    BY <1>a, <2>1, <2>2, AddedType, ReturnsType DEF purgeVars
<1>4. CASE HungAnswerLost
  <2>1. /\ server = "send" /\ Return /\ SetQueues(mqs)
        /\ UNCHANGED <<names, ownDescs, lists, loopVars, purgeVars, fixedVars>>
    BY <1>4 DEF HungAnswerLost, Full
  <2>2. QED
    BY <1>a, <2>1, ReturnsType DEF purgeVars, loopVars
<1>5. CASE HungPurgeDone
  <2>1. /\ server = "purge" /\ Return /\ SetQueues(mqs) /\ ret' = TRUE
        /\ purged' = purged \cup {call.client_name} /\ call.client_name \in Clients
        /\ UNCHANGED <<names, ownDescs, lists, loopVars, crash_gr, fixedVars>>
    BY <1>5 DEF HungPurgeDone, TypeInv, LocalsReady
  <2>2. QED
    BY <1>a, <2>1, ReturnsType DEF loopVars
<1>6. CASE HungSearchFault \/ HungDoubleFree
  <2>1. ServerGone /\ SetQueues(mqs) /\ names' = names
    BY <1>6 DEF HungSearchFault, HungDoubleFree, Fault
  <2>2. QED
    BY <1>a, <2>1, GoneType
<1>7. CASE HungFull
  BY <1>7, HungFullType
<1>8. QED
  BY <1>1, <1>2, <1>3, <1>4, <1>5, <1>6, <1>7 DEF HungOwnStep

---------------------------------------------------------------------------
(* The queues in the server's own steps.                                   *)

\* The process ends; what it adds to a client queue has room there.
LEMMA GoneQueues ==
  ASSUME TypeInv, QueueInv, ServerGone, UNCHANGED clientVars,
         \A n \in Names : names'[n] \in {names[n], NoQ},
         NEW content, SetQueues(content),
         \A q \in QIds : ClientSide(q) => Len(content[q]) <= ClientCap
  PROVE  QueueInv'
<1>1. /\ server' = "down" /\ mqd' = NoQ /\ mqd_tmp' = NoQ
      /\ UNCHANGED <<my_mq, mqserver>>
  BY DEF ServerGone
<1>2. ASSUME NEW q \in QIds
      PROVE  (ClientSide(q)' => ClientSide(q)) /\ (ServerSide(q)' => ServerSide(q))
  BY <1>1, KernelAssumption DEF ClientSide, ServerSide, Names
<1>3. Bounded'
  BY <1>2, BoundedAfter
<1>4. QED
  BY <1>1, <1>2, <1>3, AfterSetQueues DEF QueueInv, Sides, Opened, RoomAfterEvict

\* The queue the server has open, after it has added a message to the room there.
LEMMA AddedFits ==
  ASSUME TypeInv, QueueInv, server \in {"send", "overwrite"}, mqd_tmp # NoQ,
         HasRoom(mqd_tmp, ClientCap)
  PROVE  \A q \in QIds :
           /\ Len(Enqueue(mqd_tmp, call.msg)[q]) \in Nat
           /\ \/ q # mqd_tmp /\ Enqueue(mqd_tmp, call.msg)[q] = mqs[q]
              \/ q = mqd_tmp /\ Len(Enqueue(mqd_tmp, call.msg)[q]) <= ClientCap
<1>1. /\ KernelTypeOK /\ call.msg \in Messages /\ mqd_tmp \in QIds
      /\ \A q \in QIds : Len(mqs[q]) \in Nat
  BY DEF TypeInv, TypeOK, LocalsReady, KernelTypeOK
<1>2. /\ Len(Enqueue(mqd_tmp, call.msg)[mqd_tmp]) = Len(mqs[mqd_tmp]) + 1
      /\ \A p \in QIds \ {mqd_tmp} : Enqueue(mqd_tmp, call.msg)[p] = mqs[p]
  BY <1>1, QueueChange
<1>3. Len(Enqueue(mqd_tmp, call.msg)[mqd_tmp]) <= ClientCap
  BY <1>1, <1>2, KernelAssumption DEF HasRoom
<1>4. QED
  BY <1>1, <1>2, <1>3

LEMMA BoxOwnQueues ==
  ASSUME TypeInv, QueueInv, BoxOwnStep, UNCHANGED clientVars
  PROVE  QueueInv'
<1> USE DEF ownDescs
<1>0. /\ mqs \in [QIds -> Seq(Messages)] /\ names \in [Names -> QIds \cup {NoQ}]
      /\ head_client \in Seq(Rows)
      /\ server \notin {"down", "recv"} => msg \in Messages /\ msg.source \in Clients
  BY MessageFields DEF TypeInv, TypeOK, KernelTypeOK, ServerTypeOK, LocalsReady
<1>1. ASSUME Open(msg.source), server = "handle", server' \in {"send", "delete"},
             UNCHANGED <<mqs, names, mqd, my_mq, mqserver, leaked>>
      PROVE  QueueInv'
  BY <1>0, <1>1, OpenStep
<1>2. CASE BoxSubcribe
  <2>1. CASE NoAnswer
    <3>1. UNCHANGED kernelVars /\ server' = "recv" /\ server = "handle"
      BY <1>2, <2>1 DEF BoxSubcribe, NoAnswer, kernelVars
    <3>2. QED
      BY <3>1, SameQueues DEF QueueInv, Opened
  <2>2. CASE Open(msg.source) /\ Respond("SUBCRIBE_SUCCESS")
    <3>1. /\ server = "handle" /\ server' = "send"
          /\ UNCHANGED <<mqs, names, mqd, my_mq, mqserver, leaked>>
      BY <1>2, <2>2 DEF BoxSubcribe, Respond, CallSend
    <3>2. QED
      BY <1>1, <2>2, <3>1
  <2>3. QED
    BY <1>2, <2>1, <2>2 DEF BoxSubcribe
<1>3. CASE BoxUnsubcribeAll \/ BoxUnsubcribe
  <2>1. /\ Open(msg.source) /\ server = "handle" /\ server' \in {"send", "delete"}
        /\ UNCHANGED <<mqs, names, mqd, my_mq, mqserver, leaked>>
    BY <1>3 DEF BoxUnsubcribeAll, BoxUnsubcribe, Respond, CallSend
  <2>2. QED
    BY <1>1, <2>1
<1>4. CASE BoxLoopOpen
  <2>1. PICK i \in index_gr :
          /\ HasIndex(head_client, i)
          /\ Open(Row(head_client, i).client_name)
          /\ server' = "send"
    BY <1>4 DEF BoxLoopOpen, CallSend
  <2>2. i \in Indexes(head_client)
    BY <1>0, <2>1 DEF HasIndex, Indexes, TypeInv, TypeOK, ServerTypeOK
  <2>3. Row(head_client, i).client_name \in Clients
    BY <1>0, <2>2, IndexType DEF Rows
  <2>4. UNCHANGED <<mqs, names, mqd, my_mq, mqserver, leaked>> /\ server = "loop"
    BY <1>4 DEF BoxLoopOpen
  <2>5. QED
    BY <2>1, <2>3, <2>4, OpenStep
<1>5. CASE BoxDeleteRow \/ BoxDeleteDone \/ BoxSend \/ BoxLoopSkip \/ BoxPurgeRow
  <2>1. /\ UNCHANGED kernelVars
        /\ server \in {"handle", "loop"} \/ server' \in {"send", "delete", "purge"}
        /\ server' \notin {"down", "overwrite"}
    BY <1>5 DEF BoxDeleteRow, BoxDeleteDone, BoxSend, BoxLoopSkip, BoxPurgeRow, Respond, CallSend
  <2>2. server' \in {"recv", "handle", "loop"} => mqd_tmp = NoQ
    BY <2>1 DEF QueueInv, Opened
  <2>3. QED
    BY <2>1, <2>2, SameQueues
<1>6. CASE BoxUnsubcribeFault \/ BoxLoopFault
  <2>1. ServerGone /\ SetQueues(mqs) /\ names' = names
    BY <1>6 DEF BoxUnsubcribeFault, BoxLoopFault, Fault
  <2>2. QED
    BY <2>1, GoneQueues DEF QueueInv, Bounded
<1>7. CASE BoxAnswerFault
  <2> DEFINE content == Enqueue(mqd_tmp, call.msg)
  <2>1. ServerGone /\ SetQueues(content) /\ names' = names /\ server = "overwrite"
    BY <1>7 DEF BoxAnswerFault
  <2>2. mqd_tmp # NoQ /\ HasRoom(mqd_tmp, ClientCap)
    BY <2>1, KernelAssumption DEF QueueInv, RoomAfterEvict, TypeInv, LocalsReady
  <2>3. \A q \in QIds : ClientSide(q) => Len(content[q]) <= ClientCap
    BY <2>1, <2>2, AddedFits DEF QueueInv, Bounded
  <2> HIDE DEF content
  <2>4. QED
    BY <2>1, <2>3, GoneQueues
<1>8. QED
  BY <1>2, <1>3, <1>4, <1>5, <1>6, <1>7 DEF BoxOwnStep

LEMMA HungOwnQueues ==
  ASSUME TypeInv, QueueInv, HungOwnStep, UNCHANGED clientVars
  PROVE  QueueInv'
<1> USE DEF ownDescs
<1>0. /\ mqs \in [QIds -> Seq(Messages)] /\ names \in [Names -> QIds \cup {NoQ}]
      /\ \A q \in QIds : Len(mqs[q]) \in Nat
  BY DEF TypeInv, TypeOK, KernelTypeOK
<1>1. CASE HungReceiveLost
  <2>1. /\ mqd \in QIds /\ mqs' = Dequeue(mqd) /\ UNCHANGED server
        /\ UNCHANGED <<names, mqd, mqd_tmp, my_mq, mqserver, leaked>> /\ server = "recv"
    BY <1>1 DEF HungReceiveLost, serverVars, TypeInv, LocalsReady
  <2>2. /\ \A q \in QIds : (ClientSide(q)' <=> ClientSide(q)) /\ (ServerSide(q)' <=> ServerSide(q))
        /\ Creatable' = Creatable /\ mqd \notin Creatable
    BY <2>1 DEF ClientSide, ServerSide, Creatable, Referenced
  <2>3. \A p \in QIds \ {mqd} : mqs'[p] = mqs[p]
    BY <1>0, <2>1 DEF Dequeue
  <2>4. ~ClientSide(mqd)
    BY <2>1 DEF QueueInv, Sides, ServerSide
  <2>5. Bounded' /\ Sides'
    BY <2>2, <2>3, <2>4 DEF QueueInv, Bounded, Sides
  <2>6. NewAreEmpty'
    BY <2>2, <2>3 DEF QueueInv, NewAreEmpty, Creatable
  <2>7. QED
    BY <2>1, <2>5, <2>6 DEF QueueInv, Opened, RoomAfterEvict
<1>2. CASE HungReceiveStop
  <2>1. /\ ServerGone /\ SetQueues(Dequeue(mqd)) /\ mqd \in QIds
        /\ names' = [names EXCEPT ![SRV] = NoQ]
    BY <1>2 DEF HungReceiveStop, TypeInv, LocalsReady
  <2>2. \A n \in Names : names'[n] \in {names[n], NoQ}
    BY <1>0, <2>1
  <2>3. ~ClientSide(mqd)
    BY <2>1 DEF QueueInv, Sides, ServerSide
  <2>4. \A q \in QIds : ClientSide(q) => Len(Dequeue(mqd)[q]) <= ClientCap
    BY <1>0, <2>1, <2>3 DEF Dequeue, QueueInv, Bounded
  <2>5. QED
    BY <2>1, <2>2, <2>4, GoneQueues
<1>3. CASE HungSendOk \/ HungOverwrite
  <2> DEFINE content == Enqueue(mqd_tmp, call.msg)
  <2>1. /\ server \in {"send", "overwrite"} /\ Return /\ SetQueues(content)
        /\ UNCHANGED <<names, mqd, my_mq, mqserver, leaked>>
    BY <1>3 DEF HungSendOk, HungOverwrite
  <2>2. mqd_tmp # NoQ /\ HasRoom(mqd_tmp, ClientCap)
    BY <1>3, KernelAssumption DEF HungSendOk, HungOverwrite, QueueInv, RoomAfterEvict, TypeInv,
       LocalsReady
  <2>3. \A q \in QIds : /\ Len(content[q]) \in Nat
                        /\ \/ q # mqd_tmp /\ content[q] = mqs[q]
                           \/ q = mqd_tmp /\ Len(content[q]) <= ClientCap
    BY <2>1, <2>2, AddedFits
  <2> HIDE DEF content
  <2>4. \A q \in QIds : \/ Len(content[q]) <= Len(mqs[q])
                        \/ q = mqd_tmp /\ Len(content[q]) <= ClientCap
    BY <1>0, <2>3
  <2>5. QED
    BY <2>1, <2>3, <2>4, CloseStep
<1>4. CASE HungAnswerLost \/ HungPurgeDone
  <2>1. SetQueues(mqs) /\ Return /\ UNCHANGED <<names, mqd, my_mq, mqserver, leaked>>
    BY <1>4 DEF HungAnswerLost, HungPurgeDone
  <2>2. QED
    BY <1>0, <2>1, CloseStep
<1>5. CASE HungSearchFault \/ HungDoubleFree
  <2>1. ServerGone /\ SetQueues(mqs) /\ names' = names
    BY <1>5 DEF HungSearchFault, HungDoubleFree, Fault
  <2>2. QED
    BY <2>1, GoneQueues DEF QueueInv, Bounded
<1>6. CASE HungFull
  <2>1. UNCHANGED kernelVars /\ server' \in {"evict", "purge"}
    BY <1>6 DEF HungFull
  <2>2. QED
    BY <2>1, SameQueues
<1>7. QED
  BY <1>1, <1>2, <1>3, <1>4, <1>5, <1>6 DEF HungOwnStep

---------------------------------------------------------------------------
(* A step of the server, whichever version runs.                           *)

\* The steps both older brokers have from CmsServer.
SharedStep ==
  \/ Receive \/ LoopDone \/ HandleSendTo
  \/ SendOk \/ SendBad \/ SendFull \/ Evict \/ EvictEmpty
  \/ Overwrite \/ OverwriteCrashedAnswer \/ OverwriteCrashed \/ Unlink

OlderServerStep ==
  \/ BoxStart \/ BoxServerStep \/ BoxStop
  \/ HungStart \/ HungServerStep \/ HungStop

LEMMA StepsOfServer ==
  ASSUME OlderServerStep
  PROVE  ServerStart \/ ServerOutage \/ SharedStep \/ BoxOwnStep \/ HungOwnStep
<1>1. BoxMsgHandler => SharedStep \/ BoxOwnStep
  BY DEF BoxMsgHandler, SharedStep, BoxOwnStep, BoxLoopDone, BoxSendTo
<1>2. BoxServerSend => SharedStep \/ BoxOwnStep
  BY DEF BoxServerSend, SharedStep, BoxOwnStep, BoxSendOk, BoxSendBad, BoxSendFull, BoxEvict,
     BoxEvictEmpty, BoxOverwrite, BoxCrashedAnswer, BoxCrashed, BoxUnlink
<1>3. HungServerSend => SharedStep \/ BoxOwnStep \/ HungOwnStep
  BY DEF HungServerSend, SharedStep, BoxOwnStep, HungOwnStep, HungSendBad, HungEvict,
     HungEvictEmpty, HungPurgeRow
<1>4. BoxServerStep => SharedStep \/ BoxOwnStep
  BY <1>1, <1>2 DEF BoxServerStep, BoxReceive, SharedStep
<1>5. HungServerStep => SharedStep \/ BoxOwnStep \/ HungOwnStep
  BY <1>1, <1>3 DEF HungServerStep, HungReceive, HungMsgHandler, SharedStep, HungOwnStep
<1>6. BoxStart \/ HungStart => ServerStart
  BY DEF BoxStart, HungStart
<1>7. BoxStop \/ HungStop => ServerOutage
  BY DEF BoxStop, HungStop, ServerOutage
<1>8. QED
  BY <1>4, <1>5, <1>6, <1>7 DEF OlderServerStep

LEMMA SharedIsStep ==
  ASSUME SharedStep
  PROVE  ServerStep /\ UNCHANGED <<head_client, mqserver>>
BY DEF SharedStep, ServerStep, Receive, LoopDone, HandleSendTo, SendOk, SendBad, SendFull, Evict,
   EvictEmpty, Overwrite, OverwriteCrashedAnswer, OverwriteCrashed, Unlink, kernelVars, ownDescs,
   lists

LEMMA OlderServerKeeps ==
  ASSUME TypeInv, QueueInv, SendersOnly, OlderServerStep, UNCHANGED clientVars
  PROVE  (TypeInv /\ QueueInv /\ SendersOnly)'
<1>1. CASE ServerStart \/ ServerOutage
  <2>1. [Next]_vars
    BY <1>1 DEF Next
  <2>2. QED
    BY <1>1, <2>1, ServerStepType, StartStep, OutageStep, SendersStep
<1>2. CASE SharedStep
  <2>1. ServerStep
    BY <1>2, SharedIsStep
  <2>2. [Next]_vars
    BY <2>1 DEF Next
  <2>3. QueueInv'
    BY <1>2, OpeningSteps, ClosingSteps, ContentSteps, PrivateSteps DEF SharedStep
  <2>4. QED
    BY <2>1, <2>2, <2>3, ServerStepType, SendersStep
<1>3. CASE BoxOwnStep \/ HungOwnStep
  <2>1. UNCHANGED mqserver
    BY <1>3 DEF BoxOwnStep, BoxSubcribe, BoxUnsubcribeAll, BoxDeleteRow, BoxDeleteDone,
       BoxUnsubcribe, BoxUnsubcribeFault, BoxSend, BoxLoopSkip, BoxLoopOpen, BoxLoopFault,
       BoxAnswerFault, BoxPurgeRow, HungOwnStep, HungReceiveLost, HungReceiveStop, HungSendOk,
       HungAnswerLost, HungSearchFault, HungFull, HungDoubleFree, HungOverwrite, HungPurgeDone,
       Fault, ServerGone, kernelVars, ownDescs
  <2>2. SendersOnly'
    BY <2>1 DEF SendersOnly, clientVars
  <2>3. QED
    BY <1>3, <2>2, BoxOwnType, HungOwnType, BoxOwnQueues, HungOwnQueues
<1>4. QED
  BY <1>1, <1>2, <1>3, StepsOfServer

---------------------------------------------------------------------------
(* The programs.                                                           *)

\* Where each program is; only a receiver runs the handler of SIGINT.
ProgramInv ==
  /\ cast \in [Clients -> Nat]
  /\ pc \in [Clients -> Nat \ {0}]
  /\ sigint \in [Clients -> BOOLEAN]
  /\ \A c \in Clients : sigint[c] => c \in Receivers

\* What the programs send are messages.
LEMMA RoundType ==
  ASSUME NEW c
  PROVE  /\ Round(c) \in Seq(Messages) /\ Len(Round(c)) \in {0, 1, 2, 4}
         /\ c \in Receivers => Len(Round(c)) # 0
<1>1. /\ \A s \in Clients, t \in Topics : Subcribe(s, t) \in Messages
      /\ \A s \in Clients, t \in Topics, d \in Datas : SendMsg(s, t, d) \in Messages
      /\ \A s \in Clients, t \in Clients, d \in Datas : SendToMsg(s, t, d) \in Messages
  BY OlderAssumption DEF Subcribe, SendMsg, SendToMsg, Messages, Tags, FieldNames
<1>2. /\ Subcribe(mqa, wan) \in Messages /\ Subcribe(mqb, lan) \in Messages
      /\ SendToMsg(send2, mqa, d1) \in Messages
      /\ \A s \in {send1, send2}, t \in {wan, lan}, d \in {d1, d2} : SendMsg(s, t, d) \in Messages
  BY <1>1, OlderAssumption
<1>3. /\ hung_receive \in Seq(Messages) /\ Len(hung_receive) = 1
      /\ hung_receive2 \in Seq(Messages) /\ Len(hung_receive2) = 1
      /\ hmxcms_receive \in Seq(Messages) /\ Len(hmxcms_receive) = 1
      /\ hmxcms_receive2 \in Seq(Messages) /\ Len(hmxcms_receive2) = 1
  BY <1>2 DEF hung_receive, hung_receive2, hmxcms_receive, hmxcms_receive2
<1>4. hung_send \in Seq(Messages) /\ Len(hung_send) = 4
  BY <1>2 DEF hung_send
<1>5. hmxcms_send \in Seq(Messages) /\ Len(hmxcms_send) = 4
  BY <1>2 DEF hmxcms_send
<1>6. hung_send1 \in Seq(Messages) /\ Len(hung_send1) = 2
  BY <1>2 DEF hung_send1
<1>7. <<>> \in Seq(Messages) /\ Len(<<>>) = 0
  OBVIOUS
<1>8. CASE c = mqa
  <2>1. c # mqb /\ c # send1 /\ c # send2
    BY <1>8, OlderAssumption
  <2>2. Round(c) = IF build = "cms" THEN hung_receive ELSE hmxcms_receive
    BY <1>8, <2>1 DEF Round
  <2>3. Round(c) \in {hung_receive, hmxcms_receive}
    BY <2>2
  <2>4. QED
    BY <1>3, <2>3
<1>9. CASE c = mqb
  <2>1. c # mqa /\ c # send1 /\ c # send2
    BY <1>9, OlderAssumption
  <2>2. Round(c) = IF build = "cms" THEN hung_receive2 ELSE hmxcms_receive2
    BY <1>9, <2>1 DEF Round
  <2>3. Round(c) \in {hung_receive2, hmxcms_receive2}
    BY <2>2
  <2>4. QED
    BY <1>3, <2>3
<1>10. CASE c \notin Receivers
  BY <1>4, <1>5, <1>6, <1>7, <1>10, OlderAssumption DEF Round, Receivers
<1>11. QED
  BY <1>8, <1>9, <1>10 DEF Receivers

LEMMA StatementType ==
  ASSUME ProgramInv, NEW c \in Clients, Round(c) # <<>>
  PROVE  Statement(c) \in Messages
<1>1. /\ Round(c) \in Seq(Messages) /\ Len(Round(c)) \in {1, 2, 4} /\ pc[c] \in Nat \ {0}
  BY RoundType DEF ProgramInv
<1>2. \A n \in Nat \ {0}, k \in {1, 2, 4} : ((n - 1) % k) + 1 \in 1 .. k
  OBVIOUS
<1>3. ((pc[c] - 1) % Len(Round(c))) + 1 \in 1 .. Len(Round(c))
  BY <1>1, <1>2
<1>4. QED
  BY <1>1, <1>3 DEF Statement

LEMMA CallSenders ==
  ASSUME TypeInv, SendersOnly, NEW c \in Clients, NEW r, Call(c, r)
  PROVE  SendersOnly'
BY DEF Call, SendersOnly, TypeInv, TypeOK, KernelTypeOK, ClientTypeOK

\* A library call of a program or of the free client.
LEMMA OlderCalls ==
  ASSUME TypeInv, QueueInv, SendersOnly, NEW c \in Clients, NEW r \in Messages, Call(c, r)
  PROVE  (TypeInv /\ QueueInv /\ SendersOnly)' /\ UNCHANGED serverVars
BY CallKeepsType, ClientCall, CallSenders DEF Call

LEMMA OlderPlainStep ==
  ASSUME TypeInv, QueueInv, SendersOnly, NEW c \in Clients, ClientStep(c)
  PROVE  (TypeInv /\ QueueInv /\ SendersOnly)' /\ UNCHANGED serverVars
<1>1. [Next]_vars
  BY DEF Next
<1>2. TypeInv' /\ SendersOnly'
  BY <1>1, ClientStepType, SendersStep
<1>3. QueueInv'
  BY ClientStart, ClientCall, ClientSend, ClientReceive, ClientEnd DEF ClientStep
<1>4. UNCHANGED serverVars
  BY DEF ClientStep, Start, Call, Send, Await, Take, Close, Crash, Gone
<1>5. QED
  BY <1>2, <1>3, <1>4

LEMMA NothingChanged ==
  ASSUME TypeInv, QueueInv, SendersOnly, UNCHANGED <<kernelVars, serverVars, clientVars>>
  PROVE  (TypeInv /\ QueueInv /\ SendersOnly)'
<1>1. TypeInv'
  BY DEF kernelVars, serverVars, clientVars, TypeInv, TypeOK, KernelTypeOK, ServerTypeOK,
     ClientTypeOK, LocalsReady
<1>2. /\ \A q \in QIds : (ClientSide(q)' <=> ClientSide(q)) /\ (ServerSide(q)' <=> ServerSide(q))
      /\ Creatable' = Creatable
  BY DEF kernelVars, ClientSide, ServerSide, Creatable, Referenced
<1>3. QueueInv'
  BY <1>2 DEF kernelVars, serverVars, QueueInv, Sides, Bounded, NewAreEmpty, Opened,
     RoomAfterEvict, HasRoom
<1>4. SendersOnly'
  BY DEF kernelVars, clientVars, SendersOnly
<1>5. QED
  BY <1>1, <1>3, <1>4

\* A call that gives up, or is abandoned in the handler of SIGINT: the descriptor on
\* the server queue is lost, not closed.
LEMMA OlderLeaves ==
  ASSUME TypeInv, QueueInv, SendersOnly, NEW c \in Clients, client[c] # "off",
         UNCHANGED <<mqs, names, mqd, mqd_tmp, my_mq, serverVars, requests, clientStarts>>,
         client' = [client EXCEPT ![c] = "idle"], request' = [request EXCEPT ![c] = NoMsg],
         \/ UNCHANGED <<mqserver, leaked>> /\ client[c] # "sending"
         \/ mqserver' = [mqserver EXCEPT ![c] = NoQ] /\ Leak(c, mqserver[c])
  PROVE  (TypeInv /\ QueueInv /\ SendersOnly)'
<1>0. /\ mqserver \in [Clients -> QIds \cup {NoQ}] /\ leaked \in [Names -> SUBSET QIds]
      /\ c \in Names
  BY DEF TypeInv, TypeOK, KernelTypeOK, Names
<1>1. /\ mqserver' \in [Clients -> QIds \cup {NoQ}] /\ leaked' \in [Names -> SUBSET QIds]
      /\ \A d \in Clients \ {c} : mqserver'[d] = mqserver[d]
      /\ mqserver'[c] = mqserver[c] \/ (mqserver'[c] = NoQ /\ mqserver[c] \in leaked'[c] \cup {NoQ})
      /\ \A n \in Names : leaked[n] \subseteq leaked'[n]
  BY <1>0, LeakType DEF Leak
<1>2. TypeInv'
  <2>1. KernelTypeOK' /\ ServerTypeOK' /\ ClientTypeOK'
    BY <1>1 DEF TypeInv, TypeOK, KernelTypeOK, ServerTypeOK, ClientTypeOK, serverVars
  <2>2. LocalsReady'
    BY <1>1 DEF TypeInv, TypeOK, ClientTypeOK, LocalsReady, serverVars
  <2>3. QED
    BY <2>1, <2>2 DEF TypeInv, TypeOK
<1>3. ASSUME NEW q \in QIds
      PROVE  (ClientSide(q)' <=> ClientSide(q)) /\ (ServerSide(q)' => ServerSide(q))
  BY <1>1, KernelAssumption DEF ClientSide, ServerSide
<1>4. Referenced \subseteq Referenced'
  BY <1>0, <1>1, KernelAssumption DEF Referenced
<1>5. NewAreEmpty'
  BY <1>4 DEF QueueInv, NewAreEmpty, Creatable
<1>6. QueueInv'
  BY <1>3, <1>5 DEF QueueInv, Sides, Bounded, Opened, RoomAfterEvict, HasRoom, serverVars
<1>7. SendersOnly'
  <2>1. client \in [Clients -> {"off", "idle", "sending", "waiting"}]
    BY DEF TypeInv, TypeOK, ClientTypeOK
  <2>2. mqserver'[c] = NoQ
    BY <1>0, <1>1 DEF SendersOnly
  <2>3. QED
    BY <1>1, <2>1, <2>2 DEF SendersOnly
<1>8. QED
  BY <1>2, <1>6, <1>7

LEMMA OlderClientKeeps ==
  ASSUME TypeInv, QueueInv, SendersOnly, ProgramInv, NEW c \in Clients,
         BoxClientStep(c) \/ HungClientStep(c)
  PROVE  (TypeInv /\ QueueInv /\ SendersOnly)' /\ UNCHANGED serverVars
<1>1. CASE \/ box_client_init(c) \/ box_client_send(c) \/ box_client_receive(c)
           \/ box_client_close(c) \/ box_subcribe_topic(c) \/ box_unsubcribe_topic(c)
           \/ hung_sig_handler(c)
  <2>1. ClientStep(c)
    BY <1>1 DEF box_client_init, box_client_send, box_client_receive, box_client_close,
       box_subcribe_topic, box_unsubcribe_topic, hung_sig_handler, ClientStep
  <2>2. QED
    BY <2>1, OlderPlainStep
<1>2. CASE RunStatement(c) \/ box_sig_unsubcribe(c)
  <2>1. CASE UNCHANGED <<kernelVars, serverVars, clientVars>>
    BY <2>1, NothingChanged
  <2>2. CASE RunStatement(c) /\ Call(c, Statement(c))
    BY <2>2, StatementType, OlderCalls DEF RunStatement
  <2>3. CASE box_sig_unsubcribe(c) /\ Call(c, Unsubcribe(c, Round(c)[1].topic))
    <3>1. Round(c) \in Seq(Messages) /\ Len(Round(c)) \in {1, 2, 4}
      BY <2>3, RoundType DEF box_sig_unsubcribe, ProgramInv
    <3>2. Round(c)[1].topic \in FieldNames
      BY <3>1, MessageFields
    <3>3. Unsubcribe(c, Round(c)[1].topic) \in Messages
      BY <3>2, OlderAssumption DEF Unsubcribe, Messages, Tags
    <3>4. QED
      BY <2>3, <3>3, OlderCalls
  <2>4. QED
    BY <1>2, <2>1, <2>2, <2>3 DEF RunStatement, box_sig_unsubcribe
<1>3. CASE FreeCall(c)
  BY <1>3, ClientAssumption, OlderCalls DEF FreeCall
<1>4. CASE box_subcribe_gives_up(c) \/ box_unsubcribe_unset(c)
  <2>1. /\ client[c] = "waiting" /\ CallReturns(c) /\ UNCHANGED <<kernelVars, serverVars>>
    BY <1>4 DEF box_subcribe_gives_up, box_unsubcribe_unset
  <2>2. QED
    BY <2>1, OlderLeaves DEF CallReturns, kernelVars
<1>5. CASE box_sig_handler(c)
  BY <1>5, OlderLeaves DEF box_sig_handler
<1>6. QED
  BY <1>1, <1>2, <1>3, <1>4, <1>5 DEF BoxClientStep, HungClientStep, hung_init_client,
     hung_send_call, hung_subcribe_topic, hung_unsubcribe_topic, hung_receive_call,
     hung_close_client

LEMMA ProgramStep ==
  ASSUME ProgramInv, NEW c \in Clients, BoxClientStep(c) \/ HungClientStep(c)
  PROVE  ProgramInv'
<1>1. cast' = cast
  BY DEF BoxClientStep, HungClientStep, hung_init_client, hung_send_call, hung_subcribe_topic,
     hung_unsubcribe_topic, hung_receive_call, hung_close_client, box_client_init, RunStatement,
     FreeCall, box_client_send, box_client_receive, box_client_close, box_subcribe_topic,
     box_subcribe_gives_up, box_unsubcribe_topic, box_unsubcribe_unset, box_sig_handler,
     box_sig_unsubcribe, hung_sig_handler, programVars
<1>2. \/ pc' = pc
      \/ pc' = [pc EXCEPT ![c] = @ + 1]
      \/ pc' = [pc EXCEPT ![c] = cast[c] + 1]
  BY DEF BoxClientStep, HungClientStep, hung_init_client, hung_send_call, hung_subcribe_topic,
     hung_unsubcribe_topic, hung_receive_call, hung_close_client, box_client_init, RunStatement,
     FreeCall, box_client_send, box_client_receive, box_client_close, box_subcribe_topic,
     box_subcribe_gives_up, box_unsubcribe_topic, box_unsubcribe_unset, box_sig_handler,
     box_sig_unsubcribe, hung_sig_handler, programVars
<1>3. \/ sigint' = sigint
      \/ sigint' = [sigint EXCEPT ![c] = FALSE]
      \/ sigint' = [sigint EXCEPT ![c] = TRUE] /\ c \in Receivers
  BY DEF BoxClientStep, HungClientStep, hung_init_client, hung_send_call, hung_subcribe_topic,
     hung_unsubcribe_topic, hung_receive_call, hung_close_client, box_client_init, RunStatement,
     FreeCall, box_client_send, box_client_receive, box_client_close, box_subcribe_topic,
     box_subcribe_gives_up, box_unsubcribe_topic, box_unsubcribe_unset, box_sig_handler,
     box_sig_unsubcribe, hung_sig_handler, programVars
<1>4. pc' \in [Clients -> Nat \ {0}]
  BY <1>2 DEF ProgramInv
<1>5. sigint' \in [Clients -> BOOLEAN] /\ \A d \in Clients : sigint'[d] => d \in Receivers
  BY <1>3 DEF ProgramInv
<1>6. QED
  BY <1>1, <1>4, <1>5 DEF ProgramInv

---------------------------------------------------------------------------
(* The invariant of the queues.                                            *)

OlderInv == TypeInv /\ QueueInv /\ SendersOnly /\ ProgramInv

LEMMA OlderSteps ==
  ASSUME OlderNext
  PROVE  \/ OlderServerStep /\ UNCHANGED <<clientVars, programVars>>
         \/ \E c \in Clients : BoxClientStep(c) \/ HungClientStep(c)
BY DEF OlderNext, BoxNext, HungNext, OlderServerStep

LEMMA OlderInvStep ==
  ASSUME OlderInv, [OlderNext]_olderVars
  PROVE  OlderInv'
<1>1. CASE UNCHANGED olderVars
  <2>1. UNCHANGED <<kernelVars, serverVars, clientVars, programVars>>
    BY <1>1 DEF olderVars
  <2>2. ProgramInv'
    BY <2>1 DEF OlderInv, ProgramInv, programVars
  <2>3. QED
    BY <2>1, <2>2, NothingChanged DEF OlderInv
<1>2. CASE OlderServerStep /\ UNCHANGED <<clientVars, programVars>>
  <2>1. ProgramInv'
    BY <1>2 DEF OlderInv, ProgramInv, programVars
  <2>2. QED
    BY <1>2, <2>1, OlderServerKeeps DEF OlderInv
<1>3. ASSUME NEW c \in Clients, BoxClientStep(c) \/ HungClientStep(c)
      PROVE  OlderInv'
  BY <1>3, OlderClientKeeps, ProgramStep DEF OlderInv
<1>4. QED
  BY <1>1, <1>2, <1>3, OlderSteps

LEMMA OlderInvInit ==
  ASSUME OlderInit
  PROVE  OlderInv
<1>1. Init
  BY DEF OlderInit, Init, KernelInit
<1>2. ProgramInv
  BY OlderAssumption DEF OlderInit, ProgramInit, ProgramInv
<1>3. QED
  BY <1>1, <1>2, InitType, InitQueues DEF OlderInv

THEOREM OlderInvariant == OlderSpec => []OlderInv
BY OlderInvInit, OlderInvStep, PTL DEF OlderSpec

\* In the older brokers too the message that takes the place of an evicted one finds
\* room: only the server sends to client queues, across crashes in the middle of the
\* handler, SIGINT handlers that abandon a call and queues left behind.
THEOREM RoomForTheNewest == OlderSpec => []RoomForNewest
<1>1. OlderInv => RoomForNewest
  BY DEF OlderInv, QueueInv, RoomAfterEvict, RoomForNewest
<1>2. QED
  BY <1>1, OlderInvariant, PTL

---------------------------------------------------------------------------
(* The client list.                                                        *)

Distinct(list) == \A j, k \in DOMAIN list : list[j] = list[k] => j = k

LEMMA DistinctRows ==
  ASSUME head_client \in Seq(Rows)
  PROVE  Distinct(head_client) <=> RowsAreDistinct
<1>1. ASSUME Distinct(head_client), NEW i \in Indexes(head_client), NEW j \in Indexes(head_client),
             Row(head_client, i) = Row(head_client, j)
      PROVE  i = j
  BY <1>1 DEF Distinct, Indexes, Row
<1>2. ASSUME RowsAreDistinct, NEW j \in DOMAIN head_client, NEW k \in DOMAIN head_client,
             head_client[j] = head_client[k]
      PROVE  j = k
  <2>1. /\ j - 1 \in Indexes(head_client) /\ Row(head_client, j - 1) = head_client[j]
        /\ k - 1 \in Indexes(head_client) /\ Row(head_client, k - 1) = head_client[k]
    BY DEF Indexes, Row
  <2>2. j - 1 = k - 1
    BY <1>2, <2>1 DEF RowsAreDistinct
  <2>3. QED
    BY <2>2
<1>3. QED
  BY <1>1, <1>2 DEF RowsAreDistinct, Distinct

\* The row a deletion unlinks, when there is one.
LEMMA DeleteKeepsAny ==
  ASSUME NEW list \in Seq(Rows), NEW k \in Nat, Distinct(list)
  PROVE  Distinct(delete_client(list, k))
<1>1. CASE k < Len(list)
  BY <1>1, DeleteKeepsDistinct DEF Distinct
<1>2. CASE ~(k < Len(list))
  <2>1. ~CanDelete(list, k)
    BY <1>2 DEF CanDelete
  <2>2. QED
    BY <2>1 DEF delete_client
<1>3. QED
  BY <1>1, <1>2

\* What one step does to the list.
LEMMA ListChanges ==
  ASSUME TypeInv, [OlderNext]_olderVars
  PROVE  \/ head_client' = head_client
         \/ server' = "down" /\ head_client' = <<>>
         \/ /\ BoxSubcribe
            /\ get_index_by_data(head_client, create_data(msg.source, msg.topic)) = {}
            /\ head_client' = add_client(head_client, create_data(msg.source, msg.topic))
         \/ /\ BoxUnsubcribe
            /\ \E i \in Nat \cup {NotFound} :
                 /\ i = box_index_by_data(head_client, create_data(msg.source, msg.topic))
                 /\ head_client' = box_delete_client(head_client, i)
         \/ /\ BoxDeleteRow \/ BoxPurgeRow
            /\ \E i \in Nat : /\ server = "delete" => IsFirst(i, index_gr)
                              /\ server = "purge" => IsFirst(i, crash_gr)
                              /\ head_client' = delete_client(head_client, i)
<1>0. head_client \in Seq(Rows) /\ index_gr \subseteq Nat /\ crash_gr \subseteq Nat
  BY DEF TypeInv, TypeOK, ServerTypeOK
<1>1. CASE UNCHANGED serverVars
  BY <1>1 DEF serverVars
<1>2. CASE ServerStart
  BY <1>2 DEF ServerStart, lists
<1>3. CASE ServerOutage
  BY <1>3 DEF ServerOutage, ServerStop, ServerKill, ServerGone
<1>4. CASE SharedStep
  BY <1>4, SharedIsStep
<1>5. CASE BoxSubcribe
  <2> DEFINE data == create_data(msg.source, msg.topic)
  <2>1. \/ head_client' = head_client
        \/ /\ box_index_by_data(head_client, data) = NotFound
           /\ head_client' = add_client(head_client, data)
    BY <1>5 DEF BoxSubcribe, box_add_client, box_create_data
  <2>2. box_index_by_data(head_client, data) = NotFound =>
          get_index_by_data(head_client, data) = {}
    BY <1>0, BoxFound DEF NotFound
  <2>3. QED
    BY <1>5, <2>1, <2>2
<1>6. CASE BoxUnsubcribe
  <2> DEFINE i == box_index_by_data(head_client, create_data(msg.source, msg.topic))
  <2>1. i \in Nat \cup {NotFound} /\ head_client' = box_delete_client(head_client, i)
    BY <1>0, <1>6, BoxFound DEF BoxUnsubcribe, box_create_data
  <2>2. QED
    BY <1>6, <2>1
<1>7. CASE BoxDeleteRow
  <2>1. PICK i \in index_gr : IsFirst(i, index_gr) /\ head_client' = box_delete_client(head_client, i)
    BY <1>7 DEF BoxDeleteRow
  <2>2. i \in Nat /\ head_client' = delete_client(head_client, i) /\ server = "delete"
    BY <1>0, <1>7, <2>1, BoxDeletes DEF BoxDeleteRow
  <2>3. QED
    BY <1>7, <2>1, <2>2
<1>8. CASE BoxPurgeRow
  <2>1. PICK i \in crash_gr : IsFirst(i, crash_gr) /\ head_client' = box_delete_client(head_client, i)
    BY <1>8 DEF BoxPurgeRow
  <2>2. i \in Nat /\ head_client' = delete_client(head_client, i) /\ server = "purge"
    BY <1>0, <1>8, <2>1, BoxDeletes DEF BoxPurgeRow
  <2>3. QED
    BY <1>8, <2>1, <2>2
<1>9. CASE \/ BoxUnsubcribeAll \/ BoxDeleteDone \/ BoxUnsubcribeFault \/ BoxSend \/ BoxLoopSkip
           \/ BoxLoopOpen \/ BoxLoopFault \/ BoxAnswerFault
  BY <1>9 DEF BoxUnsubcribeAll, BoxDeleteDone, BoxUnsubcribeFault, BoxSend, BoxLoopSkip,
     BoxLoopOpen, BoxLoopFault, BoxAnswerFault, Fault, ServerGone, lists
<1>10. CASE HungOwnStep
  BY <1>10 DEF HungOwnStep, HungReceiveLost, HungReceiveStop, HungSendOk, HungAnswerLost,
     HungSearchFault, HungFull, HungDoubleFree, HungOverwrite, HungPurgeDone, Fault, ServerGone,
     lists, serverVars
<1>11. ASSUME NEW c \in Clients, BoxClientStep(c) \/ HungClientStep(c)
       PROVE  UNCHANGED serverVars
  BY <1>11 DEF BoxClientStep, HungClientStep, hung_init_client, hung_send_call,
     hung_subcribe_topic, hung_unsubcribe_topic, hung_receive_call, hung_close_client,
     box_client_init, RunStatement, FreeCall, box_client_send, box_client_receive,
     box_client_close, box_subcribe_topic, box_subcribe_gives_up, box_unsubcribe_topic,
     box_unsubcribe_unset, box_sig_handler, box_sig_unsubcribe, hung_sig_handler,
     Start, Call, Send, Await, Take, Close, Crash, Gone
<1>12. UNCHANGED olderVars => UNCHANGED serverVars
  BY DEF olderVars
<1>13. BoxOwnStep =>
         \/ BoxSubcribe \/ BoxUnsubcribe \/ BoxDeleteRow \/ BoxPurgeRow
         \/ BoxUnsubcribeAll \/ BoxDeleteDone \/ BoxUnsubcribeFault \/ BoxSend \/ BoxLoopSkip
         \/ BoxLoopOpen \/ BoxLoopFault \/ BoxAnswerFault
  BY DEF BoxOwnStep
<1>14. OlderServerStep \/ UNCHANGED serverVars
  BY <1>11, <1>12, OlderSteps
<1>15. QED
  BY <1>1, <1>2, <1>3, <1>4, <1>5, <1>6, <1>7, <1>8, <1>9, <1>10, <1>13, <1>14, StepsOfServer

\* In the older brokers a client is listed once for a topic, although a deletion may
\* take the row of somebody else, or one that is not there.
THEOREM OlderRowsDistinct == OlderSpec => []RowsAreDistinct
<1>1. OlderInit => RowsAreDistinct
  BY DEF OlderInit, ServerInit, RowsAreDistinct, Indexes
<1>2. OlderInv /\ RowsAreDistinct /\ [OlderNext]_olderVars => RowsAreDistinct'
  <2> SUFFICES ASSUME OlderInv, RowsAreDistinct, [OlderNext]_olderVars
               PROVE  RowsAreDistinct'
    OBVIOUS
  <2>1. TypeInv /\ head_client \in Seq(Rows) /\ head_client' \in Seq(Rows)
    BY OlderInvStep DEF OlderInv, TypeInv, TypeOK, ServerTypeOK
  <2>2. Distinct(head_client)
    BY <2>1, DistinctRows
  <2>3. Distinct(head_client)' => RowsAreDistinct'
    <3> DEFINE list == head_client'
    <3>1. ASSUME Distinct(list), NEW i \in Indexes(list), NEW j \in Indexes(list),
                 Row(list, i) = Row(list, j)
          PROVE  i = j
      <4>1. i + 1 \in DOMAIN list /\ j + 1 \in DOMAIN list /\ list[i + 1] = list[j + 1]
        BY <2>1, <3>1 DEF Indexes, Row
      <4>2. i + 1 = j + 1 /\ i \in Nat /\ j \in Nat
        BY <3>1, <4>1 DEF Distinct, Indexes
      <4>3. QED
        BY <4>2
    <3>2. QED
      BY <3>1 DEF RowsAreDistinct
  <2>4. Distinct(head_client)'
    <3>1. CASE head_client' = head_client
      BY <2>2, <3>1
    <3>2. CASE head_client' = <<>>
      BY <3>2 DEF Distinct
    <3>3. CASE /\ BoxSubcribe
               /\ get_index_by_data(head_client, create_data(msg.source, msg.topic)) = {}
               /\ head_client' = add_client(head_client, create_data(msg.source, msg.topic))
      <4> DEFINE data == create_data(msg.source, msg.topic)
      <4>1. msg \in Messages
        BY <2>1, <3>3 DEF BoxSubcribe, TypeInv, LocalsReady
      <4>2. data \in Rows
        BY <4>1, RowType
      <4>3. \A k \in DOMAIN head_client : head_client[k] # data
        BY <2>1, <3>3, FindsEveryRow
      <4> HIDE DEF data
      <4>4. Distinct(add_client(head_client, data))
        BY <2>1, <2>2, <4>2, <4>3, AddKeepsDistinct DEF Distinct
      <4>5. QED
        BY <3>3, <4>4 DEF data
    <3>4. ASSUME NEW i \in Nat \cup {NotFound}, head_client' = box_delete_client(head_client, i)
          PROVE  Distinct(head_client)'
      <4>1. PICK k \in Nat : head_client' = delete_client(head_client, k)
        BY <2>1, <3>4, BoxDeletes
      <4>2. Distinct(delete_client(head_client, k))
        BY <2>1, <2>2, DeleteKeepsAny
      <4>3. QED
        BY <4>1, <4>2
    <3>5. ASSUME NEW i \in Nat, head_client' = delete_client(head_client, i)
          PROVE  Distinct(head_client)'
      <4>1. Distinct(delete_client(head_client, i))
        BY <2>1, <2>2, DeleteKeepsAny
      <4>2. QED
        BY <3>5, <4>1
    <3>6. QED
      BY <2>1, <3>1, <3>2, <3>3, <3>4, <3>5, ListChanges
  <2>5. QED
    BY <2>3, <2>4
<1>3. QED
  BY <1>1, <1>2, OlderInvariant, PTL DEF OlderSpec

\* Unlinking the row of one client leaves the rows of the others.
LEMMA DeleteKeepsOthers ==
  ASSUME NEW list \in Seq(Rows), NEW i \in Nat, i < Len(list),
         NEW c, Row(list, i).client_name # c
  PROVE  RowsOf(delete_client(list, i), c) = RowsOf(list, c)
<1> DEFINE new == delete_client(list, i)
<1>1. /\ new \in Seq(Rows) /\ Len(new) = Len(list) - 1 /\ Len(list) \in Nat
      /\ \A k \in 1 .. Len(list) - 1 : new[k] = IF k <= i THEN list[k] ELSE list[k + 1]
  BY DeleteClientRows
<1> HIDE DEF new
<1>2. ASSUME NEW k \in 0 .. Len(list) - 2
      PROVE  Row(new, k) = IF k < i THEN Row(list, k) ELSE Row(list, k + 1)
  BY <1>1 DEF Row
<1>3. ASSUME NEW k \in get_index_by_name(new, c)
      PROVE  \E j \in get_index_by_name(list, c) : Row(list, j) = Row(new, k)
  <2>1. k \in 0 .. Len(list) - 2 /\ Row(new, k).client_name = c
    BY <1>1 DEF get_index_by_name, Indexes
  <2>2. PICK j \in {k, k + 1} : Row(new, k) = Row(list, j)
    BY <1>2, <2>1
  <2>3. j \in get_index_by_name(list, c)
    BY <1>1, <2>1, <2>2 DEF get_index_by_name, Indexes
  <2>4. QED
    BY <2>2, <2>3
<1>4. ASSUME NEW j \in get_index_by_name(list, c)
      PROVE  \E k \in get_index_by_name(new, c) : Row(new, k) = Row(list, j)
  <2>1. j \in 0 .. Len(list) - 1 /\ Row(list, j).client_name = c /\ j # i
    BY DEF get_index_by_name, Indexes
  <2>2. CASE j < i
    <3>1. j \in 0 .. Len(list) - 2
      BY <1>1, <2>1, <2>2
    <3>2. Row(new, j) = Row(list, j)
      BY <1>2, <2>2, <3>1
    <3>3. j \in get_index_by_name(new, c)
      BY <1>1, <2>1, <3>1, <3>2 DEF get_index_by_name, Indexes
    <3>4. QED
      BY <3>2, <3>3
  <2>3. CASE ~(j < i)
    <3>1. j - 1 \in 0 .. Len(list) - 2 /\ ~(j - 1 < i) /\ (j - 1) + 1 = j
      BY <1>1, <2>1, <2>3
    <3>2. Row(new, j - 1) = Row(list, j)
      BY <1>2, <3>1
    <3>3. j - 1 \in get_index_by_name(new, c)
      BY <1>1, <2>1, <3>1, <3>2 DEF get_index_by_name, Indexes
    <3>4. QED
      BY <3>2, <3>3
  <2>4. QED
    BY <2>2, <2>3
<1>5. RowsOf(new, c) = RowsOf(list, c)
  BY <1>3, <1>4 DEF RowsOf
<1>6. QED
  BY <1>5 DEF new

LEMMA AddKeepsOthers ==
  ASSUME NEW list \in Seq(Rows), NEW data \in Rows, NEW c, data.client_name # c
  PROVE  RowsOf(add_client(list, data), c) = RowsOf(list, c)
<1> DEFINE new == add_client(list, data)
<1>1. /\ Len(new) = Len(list) + 1 /\ Len(list) \in Nat
      /\ \A k \in 1 .. Len(list) : new[k] = list[k]
      /\ new[Len(list) + 1] = data
  BY DEF add_client
<1> HIDE DEF new
<1>2. /\ \A k \in 0 .. Len(list) - 1 : Row(new, k) = Row(list, k)
      /\ Row(new, Len(list)) = data
  BY <1>1 DEF Row
<1>3. get_index_by_name(new, c) = get_index_by_name(list, c)
  BY <1>1, <1>2 DEF get_index_by_name, Indexes
<1>4. \A k \in get_index_by_name(list, c) : Row(new, k) = Row(list, k)
  BY <1>2 DEF get_index_by_name, Indexes
<1>5. RowsOf(new, c) = RowsOf(list, c)
  BY <1>3, <1>4 DEF RowsOf
<1>6. QED
  BY <1>5 DEF new

\* A client whose request names a row that is there, or whose one row is deleted, costs
\* no other client a row: the numbers of the deletion loops are stale only from the
\* second row on, and the index -1 is used only for a row that is not there.
THEOREM OthersKeepTheirRows == OlderSpec => OthersKeepRows
<1> DEFINE Asked ==
             \/ /\ server = "handle"
                /\ create_data(msg.source, msg.topic) \in RowsOf(head_client, msg.source)
             \/ /\ Cardinality(ToDelete) = 1
                /\ ToDelete = get_index_by_name(head_client, Leaving)
           Kept == \A c \in Clients :
                     (Asked /\ server' # "down" /\ c # Leaving)
                       => RowsOf(head_client', c) = RowsOf(head_client, c)
<1>1. OlderInv /\ [OlderNext]_olderVars => Kept
  <2> SUFFICES ASSUME OlderInv, [OlderNext]_olderVars, NEW c \in Clients, Asked,
                      server' # "down", c # Leaving
               PROVE  RowsOf(head_client', c) = RowsOf(head_client, c)
    OBVIOUS
  <2>1. TypeInv /\ head_client \in Seq(Rows)
    BY DEF OlderInv, TypeInv, TypeOK, ServerTypeOK
  <2>2. CASE head_client' = head_client
    BY <2>2
  <2>3. CASE BoxSubcribe /\ head_client' = add_client(head_client, create_data(msg.source, msg.topic))
    <3> DEFINE data == create_data(msg.source, msg.topic)
    <3>1. msg \in Messages /\ c # msg.source
      BY <2>1, <2>3 DEF BoxSubcribe, TypeInv, LocalsReady, Leaving
    <3>2. data \in Rows /\ data.client_name # c
      BY <3>1, RowType DEF create_data
    <3> HIDE DEF data
    <3>3. RowsOf(add_client(head_client, data), c) = RowsOf(head_client, c)
      BY <2>1, <3>2, AddKeepsOthers
    <3>4. QED
      BY <2>3, <3>3 DEF data
  <2>4. ASSUME BoxUnsubcribe, NEW i \in Nat \cup {NotFound},
               i = box_index_by_data(head_client, create_data(msg.source, msg.topic)),
               head_client' = box_delete_client(head_client, i)
        PROVE  RowsOf(head_client', c) = RowsOf(head_client, c)
    <3> DEFINE data == create_data(msg.source, msg.topic)
    <3>1. server = "handle" /\ ToDelete = {} /\ c # msg.source
      BY <2>4 DEF BoxUnsubcribe, ToDelete, Leaving
    <3>2. Cardinality(ToDelete) # 1
      BY <3>1, FS_EmptySet
    <3>3. data \in RowsOf(head_client, msg.source)
      BY <3>2
    <3>4. PICK k \in get_index_by_name(head_client, msg.source) : Row(head_client, k) = data
      BY <3>3 DEF RowsOf
    <3>5. k + 1 \in DOMAIN head_client /\ head_client[k + 1] = data
      BY <2>1, <3>4 DEF get_index_by_name, Indexes, Row
    <3>6. get_index_by_data(head_client, data) # {}
      BY <2>1, <3>5, FindsEveryRow
    <3>7. i \in get_index_by_data(head_client, data) /\ i \in Nat /\ i < Len(head_client)
      BY <2>1, <2>4, <3>6, BoxFound
    <3>8. Row(head_client, i) = data /\ data.client_name = msg.source
      BY <3>7 DEF get_index_by_data, create_data
    <3>9. head_client' = delete_client(head_client, i)
      BY <2>1, <2>4, <3>7, BoxDeletes
    <3>10. Row(head_client, i).client_name # c
      BY <3>1, <3>8
    <3>11. QED
      BY <2>1, <3>7, <3>9, <3>10, DeleteKeepsOthers
  <2>5. ASSUME BoxDeleteRow \/ BoxPurgeRow, NEW i \in Nat,
               server = "delete" => IsFirst(i, index_gr),
               server = "purge" => IsFirst(i, crash_gr),
               head_client' = delete_client(head_client, i)
        PROVE  RowsOf(head_client', c) = RowsOf(head_client, c)
    <3>1. server \in {"delete", "purge"} /\ i \in ToDelete
      BY <2>5 DEF BoxDeleteRow, BoxPurgeRow, ToDelete, IsFirst
    <3>2. i \in get_index_by_name(head_client, Leaving)
      BY <3>1
    <3>3. i < Len(head_client) /\ Row(head_client, i).client_name # c
      BY <2>1, <3>2 DEF get_index_by_name, Indexes
    <3>4. QED
      BY <2>1, <2>5, <3>3, DeleteKeepsOthers
  <2>6. QED
    BY <2>1, <2>2, <2>3, <2>4, <2>5, ListChanges
<1>2. OlderInv /\ [OlderNext]_olderVars =>
     [\A c \in Clients :
       (/\ \/ /\ server = "handle"
              /\ create_data(msg.source, msg.topic) \in RowsOf(head_client, msg.source)
           \/ /\ Cardinality(ToDelete) = 1
              /\ ToDelete = get_index_by_name(head_client, Leaving)
        /\ server' # "down"
        /\ c # Leaving)
       => RowsOf(head_client', c) = RowsOf(head_client, c)]_olderVars
  BY <1>1
<1>3. QED
  BY <1>2, OlderInvariant, PTL DEF OlderSpec, OthersKeepRows

=============================================================================
