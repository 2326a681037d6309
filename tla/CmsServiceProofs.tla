--------------------------- MODULE CmsServiceProofs ---------------------------
(***************************************************************************)
(* Theorems about what the broker promises its clients: the limit on       *)
(* topics, and that it implements SubscriptionService.                     *)
(***************************************************************************)
EXTENDS CmsRefinement, CmsListProofs, FiniteSetTheorems

---------------------------------------------------------------------------
(* The topics of the client list.                                          *)

LEMMA EmptyListTopics == ListTopics(<<>>) = {}
<1>1. Len(<<>>) = 0
  OBVIOUS
<1>2. Indexes(<<>>) = {}
  BY <1>1 DEF Indexes
<1>3. QED
  BY <1>2 DEF ListTopics

\* add_client adds the topic of its row.
LEMMA AddedTopics ==
  ASSUME NEW list \in Seq(Rows), NEW data \in Rows
  PROVE  ListTopics(add_client(list, data)) = ListTopics(list) \cup {data.topic}
<1> DEFINE new == add_client(list, data)
<1>1. /\ Len(list) \in Nat
      /\ Len(new) = Len(list) + 1
      /\ new[Len(list) + 1] = data
      /\ \A k \in 1 .. Len(list) : new[k] = list[k]
  BY DEF add_client
<1> HIDE DEF new
<1>2. ASSUME NEW i \in Indexes(new)
      PROVE  Row(new, i).topic \in ListTopics(list) \cup {data.topic}
  <2>1. i \in 0 .. Len(list)
    BY <1>1 DEF Indexes
  <2>2. CASE i = Len(list)
    BY <1>1, <2>2 DEF Row
  <2>3. CASE i < Len(list)
    <3>1. i \in Indexes(list) /\ Row(new, i) = Row(list, i)
      BY <1>1, <2>1, <2>3 DEF Indexes, Row
    <3>2. QED
      BY <3>1 DEF ListTopics
  <2>4. QED
    BY <1>1, <2>1, <2>2, <2>3
<1>3. ASSUME NEW i \in Indexes(list)
      PROVE  Row(list, i).topic \in ListTopics(new)
  <2>1. i \in Indexes(new) /\ Row(new, i) = Row(list, i)
    BY <1>1 DEF Indexes, Row
  <2>2. QED
    BY <2>1 DEF ListTopics
<1>4. data.topic \in ListTopics(new)
  <2>1. Len(list) \in Indexes(new) /\ Row(new, Len(list)) = data
    BY <1>1 DEF Indexes, Row
  <2>2. QED
    BY <2>1 DEF ListTopics
<1>5. QED
  BY <1>2, <1>3, <1>4 DEF ListTopics, new

\* delete_client names no new topic.
LEMMA DeletedTopics ==
  ASSUME NEW list \in Seq(Rows), NEW i \in Nat, i < Len(list)
  PROVE  ListTopics(delete_client(list, i)) \subseteq ListTopics(list)
<1> DEFINE new == delete_client(list, i)
<1>1. /\ Len(new) = Len(list) - 1 /\ Len(list) \in Nat
      /\ \A k \in 1 .. Len(list) - 1 :
           new[k] = IF k <= i THEN list[k] ELSE list[k + 1]
  BY DeleteClientRows
<1> HIDE DEF new
<1>2. ASSUME NEW j \in Indexes(new)
      PROVE  Row(new, j).topic \in ListTopics(list)
  <2>1. j \in 0 .. Len(list) - 2
    BY <1>1 DEF Indexes
  <2>2. PICK k \in Indexes(list) : Row(new, j) = Row(list, k)
    <3>1. CASE j < i
      <4>1. j \in Indexes(list) /\ Row(new, j) = Row(list, j)
        BY <1>1, <2>1, <3>1 DEF Indexes, Row
      <4>2. QED
        BY <4>1
    <3>2. CASE j >= i
      <4>1. j + 1 \in Indexes(list) /\ Row(new, j) = Row(list, j + 1)
        BY <1>1, <2>1, <3>2 DEF Indexes, Row
      <4>2. QED
        BY <4>1
    <3>3. QED
      BY <2>1, <3>1, <3>2
  <2>3. QED
    BY <2>2 DEF ListTopics
<1>3. QED
  BY <1>2 DEF ListTopics, new

---------------------------------------------------------------------------
(* The limit on topics.                                                    *)

\* The limit with what makes the count a number.
LimitOf(list) == IsFiniteSet(ListTopics(list)) /\ count_topic(list, EMPTY) <= max_topic

\* A list without new topics keeps it.
LEMMA FewerTopics ==
  ASSUME NEW list, NEW new, LimitOf(list), ListTopics(new) \subseteq ListTopics(list)
  PROVE  LimitOf(new)
<1>1. IsFiniteSet(ListTopics(new)) /\ IsFiniteSet(ListTopics(list) \ {EMPTY})
  BY FS_Subset DEF LimitOf
<1>2. (ListTopics(new) \ {EMPTY}) \in SUBSET (ListTopics(list) \ {EMPTY})
  OBVIOUS
<1>3. /\ Cardinality(ListTopics(new) \ {EMPTY}) <= Cardinality(ListTopics(list) \ {EMPTY})
      /\ IsFiniteSet(ListTopics(new) \ {EMPTY})
  BY <1>1, <1>2, FS_Subset
<1>4. /\ Cardinality(ListTopics(new) \ {EMPTY}) \in Nat
      /\ Cardinality(ListTopics(list) \ {EMPTY}) \in Nat
  BY <1>1, <1>3, FS_CardinalityType
<1>5. QED
  BY <1>1, <1>3, <1>4, ServerAssumption DEF LimitOf, count_topic

\* Below the limit one more topic fits.
LEMMA OneMoreTopic ==
  ASSUME NEW list, NEW new, NEW topic, LimitOf(list),
         ListTopics(new) = ListTopics(list) \cup {topic},
         count_topic(list, EMPTY) # max_topic
  PROVE  LimitOf(new)
<1> DEFINE old == ListTopics(list) \ {EMPTY}
<1>1. IsFiniteSet(ListTopics(new)) /\ IsFiniteSet(old)
  BY FS_AddElement, FS_Subset DEF LimitOf
<1>2. Cardinality(old) \in Nat
  BY <1>1, FS_CardinalityType
<1>3. Cardinality(old) < max_topic
  BY <1>2, ServerAssumption DEF LimitOf, count_topic
<1> HIDE DEF old
<1>4. /\ Cardinality(old \cup {topic}) <= Cardinality(old) + 1
      /\ IsFiniteSet(old \cup {topic})
  <2>1. /\ IsFiniteSet(old \cup {topic})
        /\ Cardinality(old \cup {topic}) =
             IF topic \in old THEN Cardinality(old) ELSE Cardinality(old) + 1
    BY <1>1, FS_AddElement
  <2>2. QED
    BY <1>2, <2>1
<1>5. (ListTopics(new) \ {EMPTY}) \in SUBSET (old \cup {topic})
  BY DEF old
<1>6. /\ Cardinality(ListTopics(new) \ {EMPTY}) <= Cardinality(old \cup {topic})
      /\ IsFiniteSet(ListTopics(new) \ {EMPTY})
  BY <1>4, <1>5, FS_Subset
<1>7. /\ Cardinality(ListTopics(new) \ {EMPTY}) \in Nat
      /\ Cardinality(old \cup {topic}) \in Nat
  BY <1>4, <1>6, FS_CardinalityType
<1>8. QED
  BY <1>1, <1>2, <1>3, <1>4, <1>6, <1>7, ServerAssumption DEF LimitOf, count_topic

\* Steps that leave the client list alone.
Listless ==
  \/ \E c \in Clients : ClientStep(c)
  \/ ServerStart \/ Receive \/ HandleUnsubcribeAll \/ DeleteDone
  \/ HandleSend \/ LoopSkip \/ LoopOpen \/ LoopDone
  \/ HandleSendTo \/ HandleConfigLog \/ HandleIgnored
  \/ SendOk \/ SendBad \/ SendFull \/ Evict \/ EvictEmpty
  \/ Overwrite \/ OverwriteCrashedAnswer \/ OverwriteCrashed \/ Unlink

LEMMA ListlessStep ==
  ASSUME Listless
  PROVE  UNCHANGED head_client
<1> USE DEF lists
<1>1. CASE \E c \in Clients : ClientStep(c)
  BY <1>1 DEF serverVars, ClientStep, Start, Call, Send, Await, Take, Gone, Close, Crash
<1>2. CASE \/ ServerStart \/ Receive \/ HandleUnsubcribeAll \/ DeleteDone
           \/ HandleSend \/ LoopSkip \/ LoopOpen \/ LoopDone
  BY <1>2 DEF ServerStart, Receive, HandleUnsubcribeAll, DeleteDone, HandleSend,
     LoopSkip, LoopOpen, LoopDone
<1>3. CASE \/ HandleSendTo \/ HandleConfigLog \/ HandleIgnored
           \/ SendOk \/ SendBad \/ SendFull \/ Evict \/ EvictEmpty
           \/ Overwrite \/ OverwriteCrashedAnswer \/ OverwriteCrashed \/ Unlink
  BY <1>3 DEF HandleSendTo, HandleConfigLog, HandleIgnored, SendOk, SendBad, SendFull,
     Evict, EvictEmpty, Overwrite, OverwriteCrashedAnswer, OverwriteCrashed, Unlink
<1>4. QED
  BY <1>1, <1>2, <1>3 DEF Listless

\* The row a deletion names is in the list.
LEMMA DeletedRow ==
  ASSUME TypeInv, RowsInv, DeleteRow \/ PurgeRow \/ HandleUnsubcribe
  PROVE  \/ UNCHANGED head_client
         \/ \E i \in Nat : /\ i < Len(head_client)
                           /\ head_client' = delete_client(head_client, i)
<1>0. head_client \in Seq(Rows)
  BY DEF TypeInv, TypeOK, ServerTypeOK
<1>1. CASE DeleteRow
  <2>1. PICK i \in index_gr : head_client' = delete_client(head_client, i)
    BY <1>1 DEF DeleteRow
  <2>2. i \in Nat /\ i < Len(head_client)
    BY <1>0, <1>1, <2>1 DEF DeleteRow, RowsInv, DeleteIndexesFresh, get_index_by_name, Indexes
  <2>3. QED
    BY <2>1, <2>2
<1>2. CASE PurgeRow
  <2>1. PICK i \in crash_gr : head_client' = delete_client(head_client, i)
    BY <1>2 DEF PurgeRow
  <2>2. i \in Nat /\ i < Len(head_client)
    BY <1>0, <1>2, <2>1 DEF PurgeRow, RowsInv, DeleteIndexesFresh, get_index_by_name, Indexes
  <2>3. QED
    BY <2>1, <2>2
<1>3. CASE HandleUnsubcribe
  <2>1. CASE ~UNCHANGED head_client
    <3>1. PICK i \in get_index_by_data(head_client, create_data(msg.source, msg.topic)) :
            head_client' = delete_client(head_client, i)
      BY <1>3, <2>1 DEF HandleUnsubcribe
    <3>2. i \in Nat /\ i < Len(head_client)
      BY <1>0, FoundRow
    <3>3. QED
      BY <3>1, <3>2
  <2>2. QED
    BY <2>1
<1>4. QED
  BY <1>1, <1>2, <1>3

\* What HandleSubcribe does to the list.
LEMMA SubcribeList ==
  ASSUME TypeInv, HandleSubcribe
  PROVE  LET data == create_data(msg.source, msg.topic)
         IN /\ data \in Rows
            /\ \/ UNCHANGED head_client
               \/ ~TopicLimitHit /\ head_client' = add_client(head_client, data)
<1>1. create_data(msg.source, msg.topic) \in Rows
  BY MessageFields DEF HandleSubcribe, Rows, create_data, TypeInv, LocalsReady
<1>2. QED
  BY <1>1 DEF HandleSubcribe

\* Every step of the system keeps the limit.
LEMMA LimitStep ==
  ASSUME TypeInv, RowsInv, LimitOf(head_client), Next
  PROVE  LimitOf(head_client')
<1>0. head_client \in Seq(Rows)
  BY DEF TypeInv, TypeOK, ServerTypeOK
<1>1. CASE Listless
  BY <1>1, ListlessStep
<1>2. CASE ServerOutage
  <2>1. head_client' = <<>>
    BY <1>2 DEF ServerOutage, ServerStop, ServerKill, ServerGone
  <2>2. QED
    BY <2>1, EmptyListTopics, FewerTopics
<1>3. CASE DeleteRow \/ PurgeRow \/ HandleUnsubcribe
  BY <1>0, <1>3, DeletedRow, DeletedTopics, FewerTopics
<1>4. CASE HandleSubcribe
  <2> DEFINE data == create_data(msg.source, msg.topic)
  <2>1. data \in Rows /\ data.topic = msg.topic
    BY <1>4, SubcribeList DEF create_data
  <2>2. CASE UNCHANGED head_client
    BY <2>2
  <2>3. CASE ~TopicLimitHit /\ head_client' = add_client(head_client, data)
    <3>1. ListTopics(head_client') = ListTopics(head_client) \cup {msg.topic}
      BY <1>0, <2>1, <2>3, AddedTopics
    <3>2. CASE count_topic(head_client, EMPTY) # max_topic
      BY <3>1, <3>2, OneMoreTopic
    <3>3. CASE get_index_by_topic(head_client, msg.topic) # {}
      <4>1. msg.topic \in ListTopics(head_client)
        BY <3>3 DEF get_index_by_topic, ListTopics
      <4>2. QED
        BY <3>1, <4>1, FewerTopics
    <3>4. QED
      BY <2>3, <3>2, <3>3 DEF TopicLimitHit
  <2>4. QED
    BY <1>4, <2>2, <2>3, SubcribeList
<1>5. QED
  BY <1>1, <1>2, <1>3, <1>4 DEF Next, ServerStep, Listless

\* The limit and the finiteness it rests on hold along every behaviour.
THEOREM LimitInvariant == Spec => []LimitOf(head_client)
<1>1. Init => LimitOf(head_client)
  <2> SUFFICES ASSUME Init PROVE LimitOf(head_client)
    OBVIOUS
  <2>1. ListTopics(head_client) = {}
    BY EmptyListTopics DEF Init, ServerInit
  <2>2. ListTopics(head_client) \ {EMPTY} = {}
    BY <2>1
  <2>3. QED
    BY <2>1, <2>2, FS_EmptySet, ServerAssumption DEF LimitOf, count_topic
<1>2. TypeInv /\ RowsInv /\ LimitOf(head_client) /\ [Next]_vars => LimitOf(head_client)'
  <2>1. CASE UNCHANGED vars
    BY <2>1 DEF vars, serverVars, LimitOf
  <2>2. CASE Next
    <3>1. TypeInv /\ RowsInv /\ LimitOf(head_client) => LimitOf(head_client')
      BY <2>2, LimitStep
    <3>2. LimitOf(head_client)' <=> LimitOf(head_client')
      BY DEF LimitOf, count_topic, ListTopics, Indexes, Row
    <3>3. QED
      BY <3>1, <3>2
  <2>3. QED
    BY <2>1, <2>2
<1>3. QED
  BY <1>1, <1>2, TypeInvariant, RowsInvariant, PTL DEF Spec

\* The list never names more topics than max_topic: the test of SUBSCRIBE with
\* "==" cannot be passed over.
THEOREM TopicLimitHolds == Spec => []TopicLimit
<1>1. LimitOf(head_client) => TopicLimit
  BY DEF LimitOf, TopicLimit
<1>2. QED
  BY <1>1, LimitInvariant, PTL

---------------------------------------------------------------------------
(* The rows of the client list as a set.                                   *)

RowSet(list) == {Row(list, i) : i \in Indexes(list)}

\* The rows of everybody but c.
RowsOfOthers(list, c) == {Row(list, i) : i \in Indexes(list) \ get_index_by_name(list, c)}

LEMMA OthersAreTheRest ==
  ASSUME NEW list, NEW c
  PROVE  RowsOfOthers(list, c) = RowSet(list) \ {s \in RowSet(list) : s.client_name = c}
BY DEF RowsOfOthers, RowSet, get_index_by_name

LEMMA EmptyRowSet == RowSet(<<>>) = {}
<1>1. Len(<<>>) = 0
  OBVIOUS
<1>2. Indexes(<<>>) = {}
  BY <1>1 DEF Indexes
<1>3. QED
  BY <1>2 DEF RowSet

LEMMA AddedRows ==
  ASSUME NEW list \in Seq(Rows), NEW data \in Rows
  PROVE  RowSet(add_client(list, data)) = RowSet(list) \cup {data}
<1> DEFINE new == add_client(list, data)
<1>1. /\ Len(list) \in Nat
      /\ Len(new) = Len(list) + 1
      /\ new[Len(list) + 1] = data
      /\ \A k \in 1 .. Len(list) : new[k] = list[k]
  BY DEF add_client
<1> HIDE DEF new
<1>2. ASSUME NEW i \in Indexes(new)
      PROVE  Row(new, i) \in RowSet(list) \cup {data}
  <2>1. i \in 0 .. Len(list)
    BY <1>1 DEF Indexes
  <2>2. CASE i = Len(list)
    BY <1>1, <2>2 DEF Row
  <2>3. CASE i < Len(list)
    <3>1. i \in Indexes(list) /\ Row(new, i) = Row(list, i)
      BY <1>1, <2>1, <2>3 DEF Indexes, Row
    <3>2. QED
      BY <3>1 DEF RowSet
  <2>4. QED
    BY <1>1, <2>1, <2>2, <2>3
<1>3. ASSUME NEW i \in Indexes(list)
      PROVE  Row(list, i) \in RowSet(new)
  <2>1. i \in Indexes(new) /\ Row(new, i) = Row(list, i)
    BY <1>1 DEF Indexes, Row
  <2>2. QED
    BY <2>1 DEF RowSet
<1>4. data \in RowSet(new)
  <2>1. Len(list) \in Indexes(new) /\ Row(new, Len(list)) = data
    BY <1>1 DEF Indexes, Row
  <2>2. QED
    BY <2>1 DEF RowSet
<1>5. QED
  BY <1>2, <1>3, <1>4 DEF RowSet, new

\* Where the rows of a list are after a deletion, and where they come from.
LEMMA RowsMove ==
  ASSUME NEW list \in Seq(Rows), NEW i \in Nat, i < Len(list)
  PROVE  LET new == delete_client(list, i)
         IN /\ \A j \in Indexes(new) : \E k \in Indexes(list) \ {i} : Row(new, j) = Row(list, k)
            /\ \A k \in Indexes(list) \ {i} : \E j \in Indexes(new) : Row(new, j) = Row(list, k)
<1> DEFINE new == delete_client(list, i)
<1>1. /\ Len(new) = Len(list) - 1 /\ Len(list) \in Nat
      /\ \A k \in 1 .. Len(list) - 1 :
           new[k] = IF k <= i THEN list[k] ELSE list[k + 1]
  BY DeleteClientRows
<1> HIDE DEF new
<1>2. ASSUME NEW j \in Indexes(new)
      PROVE  \E k \in Indexes(list) \ {i} : Row(new, j) = Row(list, k)
  <2>1. j \in 0 .. Len(list) - 2
    BY <1>1 DEF Indexes
  <2>2. CASE j < i
    <3>1. j \in Indexes(list) \ {i} /\ Row(new, j) = Row(list, j)
      BY <1>1, <2>1, <2>2 DEF Indexes, Row
    <3>2. QED
      BY <3>1
  <2>3. CASE j >= i
    <3>1. j + 1 \in Indexes(list) \ {i} /\ Row(new, j) = Row(list, j + 1)
      BY <1>1, <2>1, <2>3 DEF Indexes, Row
    <3>2. QED
      BY <3>1
  <2>4. QED
    BY <2>1, <2>2, <2>3
<1>3. ASSUME NEW k \in Indexes(list) \ {i}
      PROVE  \E j \in Indexes(new) : Row(new, j) = Row(list, k)
  <2>1. k \in 0 .. Len(list) - 1 /\ k # i
    BY <1>1 DEF Indexes
  <2>2. CASE k < i
    <3>1. k \in Indexes(new) /\ Row(new, k) = Row(list, k)
      BY <1>1, <2>1, <2>2 DEF Indexes, Row
    <3>2. QED
      BY <3>1
  <2>3. CASE k > i
    <3>1. k - 1 \in Indexes(new) /\ Row(new, k - 1) = Row(list, k)
      BY <1>1, <2>1, <2>3 DEF Indexes, Row
    <3>2. QED
      BY <3>1
  <2>4. QED
    BY <2>1, <2>2, <2>3
<1>4. QED
  BY <1>2, <1>3 DEF new

\* Deleting a row that is there once removes it from the set.
LEMMA DeletedRowSet ==
  ASSUME NEW list \in Seq(Rows), NEW i \in Nat, i < Len(list),
         \A j, k \in DOMAIN list : list[j] = list[k] => j = k
  PROVE  RowSet(delete_client(list, i)) = RowSet(list) \ {Row(list, i)}
<1> DEFINE new == delete_client(list, i)
<1>1. /\ \A j \in Indexes(new) : \E k \in Indexes(list) \ {i} : Row(new, j) = Row(list, k)
      /\ \A k \in Indexes(list) \ {i} : \E j \in Indexes(new) : Row(new, j) = Row(list, k)
  BY RowsMove
<1>2. \A k \in Indexes(list) \ {i} : Row(list, k) # Row(list, i)
  BY DEF Indexes, Row
<1> HIDE DEF new
<1>3. RowSet(new) = RowSet(list) \ {Row(list, i)}
  BY <1>1, <1>2 DEF RowSet
<1>4. QED
  BY <1>3 DEF new

\* Deleting a row of c leaves everybody else's.
LEMMA OthersKept ==
  ASSUME NEW list \in Seq(Rows), NEW c, NEW i \in get_index_by_name(list, c)
  PROVE  RowsOfOthers(delete_client(list, i), c) = RowsOfOthers(list, c)
<1> DEFINE new == delete_client(list, i)
<1>0. i \in Nat /\ i < Len(list) /\ Row(list, i).client_name = c
  BY DEF get_index_by_name, Indexes
<1>1. /\ \A j \in Indexes(new) : \E k \in Indexes(list) \ {i} : Row(new, j) = Row(list, k)
      /\ \A k \in Indexes(list) \ {i} : \E j \in Indexes(new) : Row(new, j) = Row(list, k)
  BY <1>0, RowsMove
<1> HIDE DEF new
<1>2. RowSet(new) \subseteq RowSet(list)
  BY <1>1 DEF RowSet
<1>3. \A s \in RowSet(list) : s.client_name # c => s \in RowSet(new)
  BY <1>0, <1>1 DEF RowSet
<1>4. RowsOfOthers(new, c) = RowsOfOthers(list, c)
  BY <1>2, <1>3, OthersAreTheRest
<1>5. QED
  BY <1>4 DEF new

---------------------------------------------------------------------------
(* The broker implements the service.                                      *)

\* What the messages under way are about: the loop over a client's rows belongs to
\* an UNSUBCRIBE of all, the loop over receivers to a SEND.
LoopsFor ==
  /\ server = "delete" => msg.topic = ALL
  /\ server = "loop" => msg.tag = "SEND"

LEMMA LoopsForStep ==
  ASSUME LoopsFor, Next
  PROVE  LoopsFor'
<1> USE DEF lists, loopVars, purgeVars, fixedVars
<1>1. CASE \E c \in Clients : ClientStep(c)
  BY <1>1 DEF serverVars, LoopsFor, ClientStep, Start, Call, Send, Await, Take, Gone,
     Close, Crash
<1>2. CASE ServerOutage \/ ServerStart \/ Receive
  BY <1>2 DEF LoopsFor, ServerOutage, ServerStop, ServerKill, ServerGone, ServerStart,
     Receive
<1>3. CASE HandleSubcribe \/ HandleUnsubcribeAll \/ HandleUnsubcribe \/ DeleteDone
  BY <1>3 DEF LoopsFor, HandleSubcribe, HandleUnsubcribeAll, HandleUnsubcribe, DeleteDone,
     Respond, CallSend
<1>4. CASE DeleteRow \/ PurgeRow \/ SendFull \/ Evict \/ OverwriteCrashed
  BY <1>4 DEF LoopsFor, DeleteRow, PurgeRow, SendFull, Evict, OverwriteCrashed
<1>5. CASE HandleSend \/ LoopSkip \/ LoopOpen \/ LoopDone \/ HandleSendTo
  BY <1>5 DEF LoopsFor, HandleSend, LoopSkip, LoopOpen, LoopDone, HandleSendTo, CallSend
<1>6. CASE HandleConfigLog \/ HandleIgnored
  BY <1>6 DEF LoopsFor, HandleConfigLog, HandleIgnored, Respond, CallSend
<1>7. CASE \/ SendOk \/ SendBad \/ EvictEmpty \/ Overwrite
           \/ OverwriteCrashedAnswer \/ Unlink
  BY <1>7 DEF LoopsFor, SendOk, SendBad, EvictEmpty, Overwrite, OverwriteCrashedAnswer,
     Unlink, Return
<1>8. QED
  BY <1>1, <1>2, <1>3, <1>4, <1>5, <1>6, <1>7 DEF Next, ServerStep

THEOREM LoopsForInvariant == Spec => []LoopsFor
<1>1. Init => LoopsFor
  BY DEF Init, ServerInit, LoopsFor
<1>2. LoopsFor /\ [Next]_vars => LoopsFor'
  <2>1. CASE UNCHANGED vars
    BY <2>1 DEF vars, serverVars, LoopsFor
  <2>2. QED
    BY <2>1, LoopsForStep
<1>3. QED
  BY <1>1, <1>2, PTL DEF Spec

ServiceStep == [Service!ServiceNext]_<<Subscriptions, CurrentReply>>

\* The rows that count, where the server is outside its deletion loops.
LEMMA SubscriptionsAre ==
  /\ server \notin {"delete", "purge"} => Subscriptions = RowSet(head_client)
  /\ server = "delete" /\ DeleteIndexesFresh =>
       Subscriptions = RowsOfOthers(head_client, msg.source)
  /\ server = "purge" /\ DeleteIndexesFresh =>
       Subscriptions = RowsOfOthers(head_client, call.client_name)
BY DEF Subscriptions, EndedRows, RowSet, RowsOfOthers, DeleteIndexesFresh

LEMMA SubscriptionsWillBe ==
  /\ server' \notin {"delete", "purge"} => Subscriptions' = RowSet(head_client')
  /\ server' = "delete" /\ DeleteIndexesFresh' =>
       Subscriptions' = RowsOfOthers(head_client', msg'.source)
  /\ server' = "purge" /\ DeleteIndexesFresh' =>
       Subscriptions' = RowsOfOthers(head_client', call'.client_name)
BY DEF Subscriptions, EndedRows, RowSet, RowsOfOthers, DeleteIndexesFresh,
   get_index_by_name, Indexes, Row

\* No answer is on its way but in the calls of cms_server_send.
LEMMA NoReplyOutside ==
  /\ server \notin {"send", "evict", "overwrite"} => CurrentReply = NoMsg
  /\ server' \notin {"send", "evict", "overwrite"} => CurrentReply' = NoMsg
BY DEF CurrentReply, Replying

ServiceReplies == {"SUBCRIBE_SUCCESS", "SUBCRIBE_FAIL", "UNSUBCRIBE_SUCCESS", "UNSUBCRIBE_FAIL"}

\* The answer the service sees when the server calls Respond.
LEMMA RespondReply ==
  ASSUME NEW reply \in ServiceReplies, Respond(reply)
  PROVE  /\ server' = "send"
         /\ CurrentReply' = [client_name |-> msg.source, topic |-> msg.topic, data |-> reply]
BY DEF Respond, CallSend, CurrentReply, Replying, ServiceReplies

\* Steps the service does not see, or sees as the delivery of an answer.
LEMMA QuietStep ==
  ASSUME UNCHANGED Subscriptions, UNCHANGED CurrentReply \/ CurrentReply' = NoMsg
  PROVE  ServiceStep
BY DEF ServiceStep, Service!ServiceNext, Service!Delivered

\* The service counts as the broker does.
LEMMA SameCardinality == \A S : Service!Cardinality(S) = Cardinality(S)
BY DEF Service!Cardinality, Cardinality

\* SUBSCRIBE, in one step of the service.
LEMMA SubcribeServes ==
  ASSUME TypeInv, RowsInv, LimitOf(head_client), HandleSubcribe
  PROVE  ServiceStep
<1> DEFINE data == create_data(msg.source, msg.topic)
<1>0. /\ head_client \in Seq(Rows)
      /\ server = "handle" /\ server' = "send"
      /\ msg.source \in Clients /\ msg.topic \in FieldNames
  BY MessageFields DEF HandleSubcribe, Respond, CallSend, TypeInv, TypeOK, ServerTypeOK,
     LocalsReady
<1>1. Subscriptions = RowSet(head_client) /\ Subscriptions' = RowSet(head_client')
  BY <1>0, SubscriptionsAre, SubscriptionsWillBe
<1>2. CurrentReply = NoMsg
  BY <1>0, NoReplyOutside
<1>3. Service!Known = ListTopics(head_client)
  BY <1>1 DEF RowSet, ListTopics, Service!Known
<1>4. msg.topic \in ListTopics(head_client) <=> get_index_by_topic(head_client, msg.topic) # {}
  BY DEF ListTopics, get_index_by_topic
<1>5. CASE TopicLimitHit
  <2>1. Respond("SUBCRIBE_FAIL") /\ UNCHANGED head_client
    BY <1>5 DEF HandleSubcribe
  <2>2. CurrentReply' = [client_name |-> msg.source, topic |-> msg.topic,
                         data |-> "SUBCRIBE_FAIL"]
    BY <2>1, RespondReply DEF ServiceReplies
  <2>3. /\ msg.topic \notin Service!Known
        /\ Cardinality(Service!Known \ {EMPTY}) = max_topic
    BY <1>3, <1>4, <1>5 DEF TopicLimitHit, count_topic
  <2>4. Service!Refuse(msg.source, msg.topic)
    BY <1>1, <1>2, <2>1, <2>2, <2>3, SameCardinality DEF Service!Refuse, Service!Answer
  <2>5. QED
    BY <1>0, <2>4 DEF ServiceStep, Service!ServiceNext
<1>6. CASE ~TopicLimitHit
  <2>1. Respond("SUBCRIBE_SUCCESS")
    BY <1>6 DEF HandleSubcribe
  <2>2. CurrentReply' = [client_name |-> msg.source, topic |-> msg.topic,
                         data |-> "SUBCRIBE_SUCCESS"]
    BY <2>1, RespondReply DEF ServiceReplies
  <2>3. RowSet(head_client') = RowSet(head_client) \cup {data}
    <3>1. CASE get_index_by_data(head_client, data) = {}
      <4>1. head_client' = add_client(head_client, data)
        BY <1>6, <3>1 DEF HandleSubcribe
      <4>2. QED
        BY <1>0, <4>1, AddedRows, SubcribeList
    <3>2. CASE get_index_by_data(head_client, data) # {}
      <4>1. head_client' = head_client
        BY <1>6, <3>2 DEF HandleSubcribe
      <4>2. data \in RowSet(head_client)
        BY <3>2 DEF get_index_by_data, RowSet
      <4>3. QED
        BY <4>1, <4>2
    <3>3. QED
      BY <3>1, <3>2
  <2>4. \/ msg.topic \in ListTopics(head_client)
        \/ Cardinality(ListTopics(head_client) \ {EMPTY}) < max_topic
    <3>1. CASE count_topic(head_client, EMPTY) # max_topic
      <4>1. IsFiniteSet(ListTopics(head_client) \ {EMPTY})
        BY FS_Subset DEF LimitOf
      <4>2. Cardinality(ListTopics(head_client) \ {EMPTY}) \in Nat
        BY <4>1, FS_CardinalityType
      <4>3. QED
        BY <3>1, <4>2, ServerAssumption DEF LimitOf, count_topic
    <3>2. QED
      BY <1>4, <1>6, <3>1 DEF TopicLimitHit
  <2>5. Service!Subscribe(msg.source, msg.topic)
    <3>1. \/ msg.topic \in Service!Known
          \/ Cardinality(Service!Known \ {EMPTY}) < max_topic
      BY <1>3, <2>4
    <3>2. QED
      BY <1>1, <1>2, <2>2, <2>3, <3>1, SameCardinality
      DEF Service!Subscribe, Service!Answer, create_data
  <2>6. QED
    BY <1>0, <2>5 DEF ServiceStep, Service!ServiceNext
<1>7. QED
  BY <1>5, <1>6

\* UNSUBCRIBE of one topic.
LEMMA UnsubcribeServes ==
  ASSUME TypeInv, RowsInv, HandleUnsubcribe
  PROVE  ServiceStep
<1> DEFINE data == create_data(msg.source, msg.topic)
           found == get_index_by_data(head_client, data)
<1>0. /\ head_client \in Seq(Rows)
      /\ server = "handle" /\ server' = "send"
      /\ msg.source \in Clients /\ msg.topic \in FieldNames
  BY MessageFields DEF HandleUnsubcribe, Respond, CallSend, TypeInv, TypeOK, ServerTypeOK,
     LocalsReady
<1>1. Subscriptions = RowSet(head_client) /\ Subscriptions' = RowSet(head_client')
  BY <1>0, SubscriptionsAre, SubscriptionsWillBe
<1>2. CurrentReply = NoMsg
  BY <1>0, NoReplyOutside
<1>3. CASE found = {}
  <2>1. Respond("UNSUBCRIBE_FAIL") /\ UNCHANGED head_client
    BY <1>3 DEF HandleUnsubcribe
  <2>2. CurrentReply' = [client_name |-> msg.source, topic |-> msg.topic,
                         data |-> "UNSUBCRIBE_FAIL"]
    BY <2>1, RespondReply DEF ServiceReplies
  <2>3. data \notin RowSet(head_client)
    <3>1. \A k \in DOMAIN head_client : head_client[k] # data
      BY <1>0, <1>3, FindsEveryRow
    <3>2. \A i \in Indexes(head_client) : i + 1 \in DOMAIN head_client
      BY <1>0 DEF Indexes
    <3>3. QED
      BY <3>1, <3>2 DEF RowSet, Row
  <2>4. Service!Unsubscribe(msg.source, msg.topic)
    BY <1>1, <1>2, <2>1, <2>2, <2>3 DEF Service!Unsubscribe, Service!Answer, create_data
  <2>5. QED
    BY <1>0, <2>4 DEF ServiceStep, Service!ServiceNext
<1>4. CASE found # {}
  <2>1. PICK i \in found :
          /\ head_client' = delete_client(head_client, i)
          /\ Respond(IF CanDelete(head_client, i)
                     THEN "UNSUBCRIBE_SUCCESS" ELSE "UNSUBCRIBE_FAIL")
    BY <1>4 DEF HandleUnsubcribe
  <2>2. i \in Nat /\ i < Len(head_client) /\ Row(head_client, i) = data
        /\ data \in RowSet(head_client)
    BY <1>0, FoundRow DEF get_index_by_data, RowSet
  <2>3. Respond("UNSUBCRIBE_SUCCESS")
    BY <1>0, <2>1, <2>2, DeleteClientRows
  <2>4. CurrentReply' = [client_name |-> msg.source, topic |-> msg.topic,
                         data |-> "UNSUBCRIBE_SUCCESS"]
    BY <2>3, RespondReply DEF ServiceReplies
  <2>5. RowSet(head_client') = RowSet(head_client) \ {data}
    BY <1>0, <2>1, <2>2, DeletedRowSet DEF RowsInv, NoDuplicateRows
  <2>6. Service!Unsubscribe(msg.source, msg.topic)
    BY <1>1, <1>2, <2>2, <2>4, <2>5 DEF Service!Unsubscribe, Service!Answer, create_data
  <2>7. QED
    BY <1>0, <2>6 DEF ServiceStep, Service!ServiceNext
<1>5. QED
  BY <1>3, <1>4

\* UNSUBCRIBE of all: the subscriptions end when the loop begins, and the answer
\* follows when it ends.
LEMMA UnsubcribeAllServes ==
  ASSUME TypeInv, RowsInv, RowsInv', LoopsFor, HandleUnsubcribeAll \/ DeleteDone
  PROVE  ServiceStep
<1>0. /\ msg.source \in Clients /\ UNCHANGED <<msg, head_client>>
      /\ server \in {"handle", "delete"} /\ server' \in {"send", "delete"}
  BY MessageFields DEF HandleUnsubcribeAll, DeleteDone, Respond, CallSend, TypeInv,
     LocalsReady, lists
<1>1. CurrentReply = NoMsg
  BY <1>0, NoReplyOutside
<1>2. CASE HandleUnsubcribeAll
  <2>1. server = "handle" /\ msg.topic = ALL
    BY <1>2 DEF HandleUnsubcribeAll
  <2>2. Subscriptions = RowSet(head_client)
    BY <2>1, SubscriptionsAre
  <2>3. Service!SubsOf(msg.source) = {s \in RowSet(head_client) : s.client_name = msg.source}
    BY <2>2 DEF Service!SubsOf
  <2>4. CASE get_index_by_name(head_client, msg.source) = {}
    <3>1. Respond("UNSUBCRIBE_SUCCESS")
      BY <1>2, <2>4 DEF HandleUnsubcribeAll
    <3>2. CurrentReply' = [client_name |-> msg.source, topic |-> ALL,
                           data |-> "UNSUBCRIBE_SUCCESS"] /\ server' = "send"
      BY <2>1, <3>1, RespondReply DEF ServiceReplies
    <3>3. Subscriptions' = Subscriptions
      BY <1>0, <2>2, <3>2, SubscriptionsWillBe
    <3>4. Service!SubsOf(msg.source) = {}
      BY <2>3, <2>4 DEF RowSet, get_index_by_name
    <3>5. Service!ConfirmAll(msg.source)
      BY <1>1, <3>2, <3>3, <3>4 DEF Service!ConfirmAll, Service!Answer
    <3>6. QED
      BY <1>0, <3>5 DEF ServiceStep, Service!ServiceNext
  <2>5. CASE get_index_by_name(head_client, msg.source) # {}
    <3>1. server' = "delete"
      BY <1>2, <2>5 DEF HandleUnsubcribeAll
    <3>2. Subscriptions' = RowsOfOthers(head_client, msg.source)
      BY <1>0, <3>1, SubscriptionsWillBe DEF RowsInv
    <3>3. CurrentReply' = NoMsg
      BY <3>1, NoReplyOutside
    <3>4. Service!EndAll(msg.source)
      BY <1>1, <2>2, <2>3, <3>2, <3>3, OthersAreTheRest DEF Service!EndAll
    <3>5. QED
      BY <1>0, <3>4 DEF ServiceStep, Service!ServiceNext
  <2>6. QED
    BY <2>4, <2>5
<1>3. CASE DeleteDone
  <2>1. server = "delete" /\ index_gr = {} /\ msg.topic = ALL
    BY <1>3 DEF DeleteDone, LoopsFor
  <2>2. Respond("UNSUBCRIBE_SUCCESS")
    BY <1>3 DEF DeleteDone, RowsInv, DeletesSucceed
  <2>3. CurrentReply' = [client_name |-> msg.source, topic |-> ALL,
                         data |-> "UNSUBCRIBE_SUCCESS"] /\ server' = "send"
    BY <2>1, <2>2, RespondReply DEF ServiceReplies
  <2>4. get_index_by_name(head_client, msg.source) = {}
    BY <2>1 DEF RowsInv, DeleteIndexesFresh
  <2>5. Subscriptions = RowSet(head_client) /\ Subscriptions' = RowSet(head_client)
    BY <1>0, <2>1, <2>3, <2>4, SubscriptionsAre, SubscriptionsWillBe
    DEF RowsInv, RowsOfOthers, RowSet
  <2>6. Service!SubsOf(msg.source) = {}
    BY <2>4, <2>5 DEF Service!SubsOf, RowSet, get_index_by_name
  <2>7. Service!ConfirmAll(msg.source)
    BY <1>1, <2>3, <2>5, <2>6 DEF Service!ConfirmAll, Service!Answer
  <2>8. QED
    BY <1>0, <2>7 DEF ServiceStep, Service!ServiceNext
<1>4. QED
  BY <1>2, <1>3

\* One round of a deletion loop ends no subscription.
LEMMA DeletionServes ==
  ASSUME TypeInv, RowsInv, RowsInv', DeleteRow \/ PurgeRow
  PROVE  ServiceStep
<1>0. head_client \in Seq(Rows)
  BY DEF TypeInv, TypeOK, ServerTypeOK
<1>1. CASE DeleteRow
  <2>1. PICK i \in index_gr : head_client' = delete_client(head_client, i)
    BY <1>1 DEF DeleteRow
  <2>2. server = "delete" /\ UNCHANGED <<server, msg>>
    BY <1>1 DEF DeleteRow
  <2>3. i \in get_index_by_name(head_client, msg.source)
    BY <2>1, <2>2 DEF RowsInv, DeleteIndexesFresh
  <2>4. RowsOfOthers(head_client', msg.source) = RowsOfOthers(head_client, msg.source)
    BY <1>0, <2>1, <2>3, OthersKept
  <2>5. UNCHANGED Subscriptions
    BY <2>2, <2>4, SubscriptionsAre, SubscriptionsWillBe DEF RowsInv
  <2>6. CurrentReply' = NoMsg
    BY <2>2, NoReplyOutside
  <2>7. QED
    BY <2>5, <2>6, QuietStep
<1>2. CASE PurgeRow
  <2>1. PICK i \in crash_gr : head_client' = delete_client(head_client, i)
    BY <1>2 DEF PurgeRow
  <2>2. server = "purge" /\ UNCHANGED <<server, call>>
    BY <1>2 DEF PurgeRow
  <2>3. i \in get_index_by_name(head_client, call.client_name)
    BY <2>1, <2>2 DEF RowsInv, DeleteIndexesFresh
  <2>4. RowsOfOthers(head_client', call.client_name) = RowsOfOthers(head_client, call.client_name)
    BY <1>0, <2>1, <2>3, OthersKept
  <2>5. UNCHANGED Subscriptions
    BY <2>2, <2>4, SubscriptionsAre, SubscriptionsWillBe DEF RowsInv
  <2>6. CurrentReply' = NoMsg
    BY <2>2, NoReplyOutside
  <2>7. QED
    BY <2>5, <2>6, QuietStep
<1>3. QED
  BY <1>1, <1>2

\* Dropping a client: its subscriptions end when the purge begins.
LEMMA PurgeServes ==
  ASSUME TypeInv, RowsInv, RowsInv', OverwriteCrashed \/ Unlink
  PROVE  ServiceStep
<1>1. CASE OverwriteCrashed
  <2>1. /\ server = "overwrite" /\ server' = "purge" /\ UNCHANGED <<head_client, call>>
        /\ call.msg.tag # "RESPONSE" /\ call.client_name \in Clients
    BY <1>1 DEF OverwriteCrashed, TypeInv, LocalsReady
  <2>2. Subscriptions = RowSet(head_client)
    BY <2>1, SubscriptionsAre
  <2>3. Subscriptions' = RowsOfOthers(head_client, call.client_name)
    BY <2>1, SubscriptionsWillBe DEF RowsInv
  <2>4. CurrentReply = NoMsg /\ CurrentReply' = NoMsg
    BY <2>1, NoReplyOutside DEF CurrentReply, Replying
  <2>5. Service!EndAll(call.client_name)
    BY <2>2, <2>3, <2>4, OthersAreTheRest DEF Service!EndAll, Service!SubsOf
  <2>6. QED
    BY <2>1, <2>5 DEF ServiceStep, Service!ServiceNext
<1>2. CASE Unlink
  <2>1. /\ server = "purge" /\ crash_gr = {} /\ server' \in {"loop", "recv"}
        /\ UNCHANGED head_client
    BY <1>2 DEF Unlink, Return, lists
  <2>2. get_index_by_name(head_client, call.client_name) = {}
    BY <2>1 DEF RowsInv, DeleteIndexesFresh
  <2>3. Subscriptions = RowSet(head_client) /\ Subscriptions' = RowSet(head_client)
    BY <2>1, <2>2, SubscriptionsAre, SubscriptionsWillBe DEF RowsInv, RowsOfOthers, RowSet
  <2>4. CurrentReply' = NoMsg
    BY <2>1, NoReplyOutside
  <2>5. QED
    BY <2>3, <2>4, QuietStep
<1>3. QED
  BY <1>1, <1>2

\* The steps that neither change a subscription nor begin or end an answer, but
\* for those after which it is delivered or lost.
LEMMA QuietSteps ==
  ASSUME TypeInv, LoopsFor,
         \/ HandleSend \/ LoopSkip \/ LoopOpen \/ LoopDone
         \/ HandleSendTo \/ HandleConfigLog \/ HandleIgnored
         \/ ServerStart \/ Receive
         \/ SendOk \/ SendBad \/ SendFull \/ Evict \/ EvictEmpty
         \/ Overwrite \/ OverwriteCrashedAnswer
  PROVE  ServiceStep
<1> USE DEF lists, loopVars
<1>1. CASE \/ SendOk \/ SendBad \/ EvictEmpty \/ Overwrite \/ OverwriteCrashedAnswer
  <2>1. /\ server \in {"send", "evict", "overwrite"} /\ server' \in {"loop", "recv"}
        /\ UNCHANGED head_client
    BY <1>1 DEF SendOk, SendBad, EvictEmpty, Overwrite, OverwriteCrashedAnswer, Return
  <2>2. UNCHANGED Subscriptions /\ CurrentReply' = NoMsg
    BY <2>1, SubscriptionsAre, SubscriptionsWillBe, NoReplyOutside
  <2>3. QED
    BY <2>2, QuietStep
<1>2. CASE SendFull \/ Evict
  <2>1. /\ server \in {"send", "evict"} /\ server' \in {"evict", "overwrite"}
        /\ UNCHANGED head_client
    BY <1>2 DEF SendFull, Evict
  <2>2. call'.msg = call.msg
    BY <1>2 DEF SendFull, Evict, TypeInv, TypeOK, ServerTypeOK, Calls
  <2>3. UNCHANGED Subscriptions
    BY <2>1, SubscriptionsAre, SubscriptionsWillBe
  <2>4. UNCHANGED CurrentReply
    BY <2>1, <2>2 DEF CurrentReply, Replying
  <2>5. QED
    BY <2>3, <2>4, QuietStep
<1>3. CASE HandleSend \/ LoopSkip \/ LoopDone \/ HandleIgnored \/ ServerStart \/ Receive
  <2>1. /\ server \in {"down", "recv", "handle", "loop"}
        /\ server' \in {"recv", "handle", "loop"}
        /\ UNCHANGED head_client
    BY <1>3 DEF HandleSend, LoopSkip, LoopDone, HandleIgnored, ServerStart, Receive
  <2>2. UNCHANGED Subscriptions /\ CurrentReply' = NoMsg
    BY <2>1, SubscriptionsAre, SubscriptionsWillBe, NoReplyOutside
  <2>3. QED
    BY <2>2, QuietStep
<1>4. CASE LoopOpen \/ HandleSendTo \/ HandleConfigLog
  <2>1. server \in {"handle", "loop"} /\ server' = "send" /\ UNCHANGED head_client
    BY <1>4 DEF LoopOpen, HandleSendTo, HandleConfigLog, Respond, CallSend
  <2>2. \/ call'.msg.tag # "RESPONSE"
        \/ call'.msg.data \in {"CONFIG_SUCCESS", "CONFIG_FAIL"}
    <3>1. CASE LoopOpen \/ HandleSendTo
      BY <3>1 DEF LoopOpen, HandleSendTo, CallSend, LoopsFor
    <3>2. CASE HandleConfigLog
      BY <3>2 DEF HandleConfigLog, Respond, CallSend
    <3>3. QED
      BY <1>4, <3>1, <3>2
  <2>3. UNCHANGED Subscriptions /\ CurrentReply' = NoMsg
    BY <2>1, <2>2, SubscriptionsAre, SubscriptionsWillBe DEF CurrentReply, Replying
  <2>4. QED
    BY <2>3, QuietStep
<1>5. QED
  BY <1>1, <1>2, <1>3, <1>4

\* Every step of the system is a step of the service or none.
LEMMA SystemServes ==
  ASSUME TypeInv, RowsInv, RowsInv', LimitOf(head_client), LoopsFor, Next
  PROVE  ServiceStep
<1>1. CASE \E c \in Clients : ClientStep(c)
  <2>1. UNCHANGED serverVars
    BY <1>1 DEF ClientStep, Start, Call, Send, Await, Take, Gone, Close, Crash
  <2>2. UNCHANGED Subscriptions /\ UNCHANGED CurrentReply
    BY <2>1 DEF serverVars, Subscriptions, EndedRows, CurrentReply, Replying, Indexes, Row
  <2>3. QED
    BY <2>2, QuietStep
<1>2. CASE ServerOutage
  <2>1. head_client' = <<>> /\ server' = "down"
    BY <1>2 DEF ServerOutage, ServerStop, ServerKill, ServerGone
  <2>2. Subscriptions' = {} /\ CurrentReply' = NoMsg
    BY <2>1, EmptyRowSet, SubscriptionsWillBe, NoReplyOutside
  <2>3. QED
    BY <2>2 DEF ServiceStep, Service!ServiceNext, Service!Stop
<1>3. QED
  BY <1>1, <1>2, SubcribeServes, UnsubcribeServes, UnsubcribeAllServes, DeletionServes,
     PurgeServes, QuietSteps DEF Next, ServerStep

\* The broker, with its row numbers, deletion loops, full queues, purges and
\* outages, implements SubscriptionService: what an answer says has happened, and
\* every request and every purge changes the subscriptions of its client only.
THEOREM Refinement == Spec => ImplementsService
<1>1. Init => Service!ServiceInit
  <2> SUFFICES ASSUME Init PROVE Service!ServiceInit
    OBVIOUS
  <2>1. head_client = <<>> /\ server = "down"
    BY DEF Init, ServerInit
  <2>2. Subscriptions = {} /\ CurrentReply = NoMsg
    BY <2>1, EmptyRowSet, SubscriptionsAre, NoReplyOutside
  <2>3. QED
    BY <2>2 DEF Service!ServiceInit
<1>2. TypeInv /\ RowsInv /\ RowsInv' /\ LimitOf(head_client) /\ LoopsFor /\ [Next]_vars
        => [Service!ServiceNext]_<<Subscriptions, CurrentReply>>
  <2>1. CASE UNCHANGED vars
    BY <2>1 DEF vars, serverVars, Subscriptions, EndedRows, CurrentReply, Replying, Indexes,
       Row
  <2>2. CASE Next
    BY <2>2, SystemServes DEF ServiceStep
  <2>3. QED
    BY <2>1, <2>2
<1>3. QED
  BY <1>1, <1>2, TypeInvariant, RowsInvariant, LimitInvariant, LoopsForInvariant, PTL
  DEF Spec, ImplementsService, Service!ServiceSpec
=============================================================================
