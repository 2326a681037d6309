--------------------------- MODULE CmsListProofs ---------------------------
(***************************************************************************)
(* Theorems about the two lists of the broker: what its deletion loops     *)
(* leave in the client list, that the crash list has one payload per       *)
(* client, what the crash test rests on: while the queue of a monitored    *)
(* client is full, its count tells where the stored message is, and in     *)
(* whose queues the message of a SEND is when its loop ends.               *)
(***************************************************************************)
EXTENDS HmxCmsProofs, WellFoundedInduction

---------------------------------------------------------------------------
(* delete_client on a list of rows.                                        *)

\* The rows delete_client leaves, position by position.
LEMMA DeleteClientRows ==
  ASSUME NEW list \in Seq(Rows), NEW i \in Nat, i < Len(list)
  PROVE  /\ CanDelete(list, i)
         /\ delete_client(list, i) \in Seq(Rows)
         /\ Len(delete_client(list, i)) = Len(list) - 1
         /\ \A k \in 1 .. Len(list) - 1 :
              delete_client(list, i)[k] = IF k <= i THEN list[k] ELSE list[k + 1]
<1>1. CanDelete(list, i)
  BY DEF CanDelete
<1>2. QED
  BY <1>1, DeleteClientType DEF delete_client

\* Deleting the last row of a client leaves exactly the client's other rows,
\* under the numbers they had.
LEMMA DeleteLastRow ==
  ASSUME NEW list \in Seq(Rows), NEW c,
         NEW i \in get_index_by_name(list, c), IsLast(i, get_index_by_name(list, c))
  PROVE  /\ CanDelete(list, i)
         /\ get_index_by_name(delete_client(list, i), c) = get_index_by_name(list, c) \ {i}
<1> DEFINE new == delete_client(list, i)
<1>1. i \in Nat /\ i < Len(list) /\ Len(list) \in Nat
  BY DEF get_index_by_name, Indexes
<1>2. /\ CanDelete(list, i)
      /\ Len(new) = Len(list) - 1
      /\ \A k \in 1 .. Len(list) - 1 :
           new[k] = IF k <= i THEN list[k] ELSE list[k + 1]
  BY <1>1, DeleteClientRows
<1>3. \A j \in get_index_by_name(list, c) : j <= i
  BY DEF IsLast
<1> HIDE DEF new
<1>4. ASSUME NEW j \in get_index_by_name(new, c)
      PROVE  j \in get_index_by_name(list, c) \ {i}
  <2>1. j \in 0 .. Len(list) - 2 /\ new[j + 1].client_name = c
    BY <1>1, <1>2 DEF get_index_by_name, Indexes, Row
  <2>2. CASE j < i
    BY <1>1, <1>2, <2>1, <2>2 DEF get_index_by_name, Indexes, Row
  <2>3. CASE j >= i
    <3>1. j + 1 \in 0 .. Len(list) - 1 /\ list[(j + 1) + 1].client_name = c
      BY <1>1, <1>2, <2>1, <2>3
    <3>2. j + 1 \in get_index_by_name(list, c)
      BY <3>1 DEF get_index_by_name, Indexes, Row
    <3>3. QED BY <1>1, <1>3, <2>1, <2>3, <3>2
  <2>4. QED BY <1>1, <2>1, <2>2, <2>3
<1>5. ASSUME NEW j \in get_index_by_name(list, c), j # i
      PROVE  j \in get_index_by_name(new, c)
  <2>1. j \in Nat /\ j < i /\ list[j + 1].client_name = c
    BY <1>1, <1>3, <1>5 DEF get_index_by_name, Indexes, Row
  <2>2. QED BY <1>1, <1>2, <2>1 DEF get_index_by_name, Indexes, Row
<1>6. QED
  BY <1>2, <1>4, <1>5 DEF new

\* A deletion gives no client a row it did not have.
LEMMA DeleteAddsNoRow ==
  ASSUME NEW list \in Seq(Rows), NEW i \in Nat, i < Len(list), NEW c,
         get_index_by_name(list, c) = {}
  PROVE  get_index_by_name(delete_client(list, i), c) = {}
<1> DEFINE new == delete_client(list, i)
<1>1. /\ Len(new) = Len(list) - 1 /\ Len(list) \in Nat
      /\ \A k \in 1 .. Len(list) - 1 :
           new[k] = IF k <= i THEN list[k] ELSE list[k + 1]
  BY DeleteClientRows
<1>2. \A k \in 1 .. Len(list) : list[k].client_name # c
  <2> SUFFICES ASSUME NEW k \in 1 .. Len(list), list[k].client_name = c PROVE FALSE
    OBVIOUS
  <2>1. k - 1 \in get_index_by_name(list, c)
    BY <1>1 DEF get_index_by_name, Indexes, Row
  <2>2. QED BY <2>1
<1> HIDE DEF new
<1>3. \A k \in 1 .. Len(new) : new[k].client_name # c
  BY <1>1, <1>2
<1>4. QED
  BY <1>1, <1>3 DEF get_index_by_name, Indexes, Row, new

\* A deletion leaves no two rows equal if no two were.
LEMMA DeleteKeepsDistinct ==
  ASSUME NEW list \in Seq(Rows), NEW i \in Nat, i < Len(list),
         \A j, k \in DOMAIN list : list[j] = list[k] => j = k
  PROVE  LET new == delete_client(list, i)
         IN \A j, k \in DOMAIN new : new[j] = new[k] => j = k
<1> DEFINE new == delete_client(list, i)
<1>1. /\ Len(new) = Len(list) - 1 /\ Len(list) \in Nat /\ new \in Seq(Rows)
      /\ \A k \in 1 .. Len(list) - 1 :
           new[k] = IF k <= i THEN list[k] ELSE list[k + 1]
  BY DeleteClientRows
<1> HIDE DEF new
<1>2. SUFFICES ASSUME NEW j \in DOMAIN new, NEW k \in DOMAIN new, new[j] = new[k]
               PROVE  j = k
  BY DEF new
<1>3. j \in 1 .. Len(list) - 1 /\ k \in 1 .. Len(list) - 1
  BY <1>1
<1>4. DOMAIN list = 1 .. Len(list)
  OBVIOUS
<1>5. CASE j <= i /\ k <= i
  BY <1>1, <1>2, <1>3, <1>4, <1>5
<1>6. CASE j <= i /\ k > i
  <2>1. new[j] = list[j] /\ new[k] = list[k + 1] /\ k + 1 \in DOMAIN list /\ j \in DOMAIN list
    BY <1>1, <1>3, <1>4, <1>6
  <2>2. j = k + 1
    BY <1>2, <2>1
  <2>3. QED BY <1>3, <1>6, <2>2
<1>7. CASE j > i /\ k <= i
  <2>1. new[k] = list[k] /\ new[j] = list[j + 1] /\ j + 1 \in DOMAIN list /\ k \in DOMAIN list
    BY <1>1, <1>3, <1>4, <1>7
  <2>2. k = j + 1
    BY <1>2, <2>1
  <2>3. QED BY <1>3, <1>7, <2>2
<1>8. CASE j > i /\ k > i
  <2>1. new[j] = list[j + 1] /\ new[k] = list[k + 1] /\ j + 1 \in DOMAIN list /\ k + 1 \in DOMAIN list
    BY <1>1, <1>3, <1>4, <1>8
  <2>2. j + 1 = k + 1
    BY <1>2, <2>1
  <2>3. QED BY <1>3, <2>2
<1>9. QED
  BY <1>3, <1>5, <1>6, <1>7, <1>8

\* A set of row numbers that is not empty has a first element.
LEMMA FirstIndex ==
  ASSUME NEW S, S \subseteq Nat, S # {}
  PROVE  \E i \in S : \A j \in S : i <= j
<1>1. PICK x \in S : \A y \in S : ~(<<y, x>> \in OpToRel(<, Nat))
  BY WFMin, NatLessThanWellFounded
<1>2. \A y \in S : ~(y < x)
  BY <1>1 DEF OpToRel
<1>3. QED
  BY <1>2

\* get_index_by_data fails only when no row equals the data.
LEMMA FindsEveryRow ==
  ASSUME NEW list \in Seq(Rows), NEW data, get_index_by_data(list, data) = {}
  PROVE  \A k \in DOMAIN list : list[k] # data
<1> DEFINE S == {i \in Indexes(list) : Row(list, i) = data}
<1>1. S \subseteq Nat
  BY DEF Indexes
<1>2. CASE S # {}
  <2>1. PICK i \in S : \A j \in S : i <= j
    BY <1>1, <1>2, FirstIndex
  <2>2. i \in get_index_by_data(list, data)
    BY <2>1 DEF get_index_by_data
  <2>3. QED BY <2>2
<1>3. CASE S = {}
  <2> SUFFICES ASSUME NEW k \in DOMAIN list, list[k] = data PROVE FALSE
    OBVIOUS
  <2>1. k - 1 \in S
    BY DEF Indexes, Row
  <2>2. QED BY <1>3, <2>1
<1>4. QED
  BY <1>2, <1>3

\* get_index_by_data returns a row number of the list.
LEMMA FoundRow ==
  ASSUME NEW list \in Seq(Rows), NEW data, NEW i \in get_index_by_data(list, data)
  PROVE  i \in Nat /\ i < Len(list)
BY DEF get_index_by_data, Indexes

\* Appending a row that is not there leaves no two rows equal.
LEMMA AddKeepsDistinct ==
  ASSUME NEW list \in Seq(Rows), NEW data \in Rows,
         \A k \in DOMAIN list : list[k] # data,
         \A j, k \in DOMAIN list : list[j] = list[k] => j = k
  PROVE  LET new == add_client(list, data)
         IN \A j, k \in DOMAIN new : new[j] = new[k] => j = k
<1> DEFINE new == add_client(list, data)
<1>1. /\ Len(list) \in Nat
      /\ DOMAIN new = 1 .. Len(list) + 1
      /\ DOMAIN list = 1 .. Len(list)
      /\ new[Len(list) + 1] = data
      /\ \A k \in 1 .. Len(list) : new[k] = list[k]
  BY DEF add_client
<1> HIDE DEF new
<1>2. SUFFICES ASSUME NEW j \in DOMAIN new, NEW k \in DOMAIN new, new[j] = new[k]
               PROVE  j = k
  BY DEF new
<1>3. CASE j = Len(list) + 1 /\ k = Len(list) + 1
  BY <1>3
<1>4. CASE j \in 1 .. Len(list) /\ k = Len(list) + 1
  BY <1>1, <1>2, <1>4
<1>5. CASE j = Len(list) + 1 /\ k \in 1 .. Len(list)
  BY <1>1, <1>2, <1>5
<1>6. CASE j \in 1 .. Len(list) /\ k \in 1 .. Len(list)
  BY <1>1, <1>2, <1>6
<1>7. QED
  BY <1>1, <1>3, <1>4, <1>5, <1>6

\* Appending a row gives no other client one.
LEMMA AddAddsNoOther ==
  ASSUME NEW list \in Seq(Rows), NEW data \in Rows, NEW c, c # data.client_name,
         get_index_by_name(list, c) = {}
  PROVE  get_index_by_name(add_client(list, data), c) = {}
<1> DEFINE new == add_client(list, data)
<1>1. /\ Len(list) \in Nat
      /\ Len(new) = Len(list) + 1
      /\ new[Len(list) + 1] = data
      /\ \A k \in 1 .. Len(list) : new[k] = list[k]
  BY DEF add_client
<1> HIDE DEF new
<1>2. SUFFICES ASSUME NEW i \in get_index_by_name(new, c) PROVE FALSE
  BY DEF new
<1>3. i \in 0 .. Len(list) /\ new[i + 1].client_name = c
  BY <1>1, <1>2 DEF get_index_by_name, Indexes, Row
<1>4. CASE i = Len(list)
  BY <1>1, <1>3, <1>4
<1>5. CASE i < Len(list)
  <2>1. i \in 0 .. Len(list) - 1 /\ list[i + 1].client_name = c
    BY <1>1, <1>3, <1>5
  <2>2. i \in get_index_by_name(list, c)
    BY <2>1 DEF get_index_by_name, Indexes, Row
  <2>3. QED BY <2>2
<1>6. QED
  BY <1>1, <1>3, <1>4, <1>5

---------------------------------------------------------------------------
(* The client list along every behaviour.                                  *)

\* Inductive together: the rows are distinct because SUBSCRIBE looks before it
\* adds; the deletion loops succeed because their row numbers stay fresh; and a
\* purge leaves no row because it ends when the fresh row numbers run out.
RowsInv ==
  NoDuplicateRows /\ DeleteIndexesFresh /\ DeletesSucceed /\ PurgedHaveNoRows

\* A step that leaves the list alone and is not in a deletion loop afterwards.
LEMMA RowsUntouched ==
  ASSUME RowsInv, UNCHANGED <<head_client, purged>>, ret' = ret \/ ret' = TRUE,
         server' \notin {"delete", "purge"}
  PROVE  RowsInv'
BY DEF RowsInv, NoDuplicateRows, DeleteIndexesFresh, DeletesSucceed, PurgedHaveNoRows

\* A deletion of a row of the list, by number.
LEMMA RowDeleted ==
  ASSUME TypeInv, RowsInv, NEW i \in Nat, i < Len(head_client),
         head_client' = delete_client(head_client, i), purged' = purged
  PROVE  NoDuplicateRows' /\ PurgedHaveNoRows'
<1>1. head_client \in Seq(Rows)
  BY DEF TypeInv, TypeOK, ServerTypeOK
<1>2. NoDuplicateRows'
  BY <1>1, DeleteKeepsDistinct DEF RowsInv, NoDuplicateRows
<1>3. PurgedHaveNoRows'
  BY <1>1, DeleteAddsNoRow DEF RowsInv, PurgedHaveNoRows
<1>4. QED
  BY <1>2, <1>3

\* Every step of the system keeps RowsInv.
LEMMA RowsStep ==
  ASSUME TypeInv, RowsInv, Next
  PROVE  RowsInv'
<1> USE DEF lists, loopVars, purgeVars, fixedVars
<1>0. /\ head_client \in Seq(Rows)
      /\ Len(head_client) \in Nat
      /\ server \notin {"down", "recv"} => msg \in Messages
  BY DEF TypeInv, TypeOK, ServerTypeOK, LocalsReady
<1>1. CASE \E c \in Clients : ClientStep(c)
  <2>1. UNCHANGED serverVars
    BY <1>1 DEF ClientStep, Start, Call, Send, Await, Take, Gone, Close, Crash
  <2>2. QED
    BY <2>1 DEF serverVars, RowsInv, NoDuplicateRows, DeleteIndexesFresh,
       DeletesSucceed, PurgedHaveNoRows
<1>2. CASE ServerOutage
  BY <1>2, EmptySeq DEF ServerOutage, ServerStop, ServerKill, ServerGone, RowsInv,
     NoDuplicateRows, DeleteIndexesFresh, DeletesSucceed, PurgedHaveNoRows
<1>3. CASE ServerStart \/ Receive
  BY <1>3, RowsUntouched DEF ServerStart, Receive
<1>4. CASE HandleSend \/ LoopSkip \/ LoopOpen \/ LoopDone \/ HandleSendTo
  BY <1>4, RowsUntouched DEF HandleSend, LoopSkip, LoopOpen, LoopDone, HandleSendTo,
     CallSend
<1>5. CASE HandleConfigLog \/ HandleIgnored \/ DeleteDone
  BY <1>5, RowsUntouched DEF HandleConfigLog, HandleIgnored, DeleteDone, Respond,
     CallSend
<1>6. CASE SendOk \/ SendBad \/ SendFull \/ Evict \/ EvictEmpty
  BY <1>6, RowsUntouched DEF SendOk, SendBad, SendFull, Evict, EvictEmpty, Return
<1>7. CASE Overwrite \/ OverwriteCrashedAnswer
  BY <1>7, RowsUntouched DEF Overwrite, OverwriteCrashedAnswer, Return
<1>8. CASE HandleSubcribe
  <2> DEFINE data == create_data(msg.source, msg.topic)
  <2>1. data \in Rows /\ data.client_name = msg.source
    BY <1>0, <1>8, MessageFields DEF HandleSubcribe, Rows, create_data
  <2>2. server' = "send" /\ ret' = ret
    BY <1>8 DEF HandleSubcribe, Respond, CallSend
  <2>3. CASE UNCHANGED head_client
    <3>1. purged' \subseteq purged
      BY <1>8 DEF HandleSubcribe
    <3>2. QED
      BY <2>2, <2>3, <3>1 DEF RowsInv, NoDuplicateRows, DeleteIndexesFresh,
         DeletesSucceed, PurgedHaveNoRows
  <2>4. CASE ~UNCHANGED head_client
    <3>1. /\ head_client' = add_client(head_client, data)
          /\ get_index_by_data(head_client, data) = {}
          /\ purged' = purged \ {msg.source}
      BY <1>8, <2>4 DEF HandleSubcribe
    <3>2. \A k \in DOMAIN head_client : head_client[k] # data
      BY <1>0, <3>1, FindsEveryRow
    <3>3. NoDuplicateRows'
      BY <1>0, <2>1, <3>1, <3>2, AddKeepsDistinct DEF RowsInv, NoDuplicateRows
    <3>4. PurgedHaveNoRows'
      BY <1>0, <2>1, <3>1, AddAddsNoOther DEF RowsInv, PurgedHaveNoRows
    <3>5. QED
      BY <2>2, <3>3, <3>4 DEF RowsInv, DeleteIndexesFresh, DeletesSucceed
  <2>5. QED BY <2>3, <2>4
<1>9. CASE HandleUnsubcribeAll
  <2>1. /\ UNCHANGED <<head_client, purged, ret, msg>>
        /\ server' # "purge"
        /\ server' = "delete" => index_gr' = get_index_by_name(head_client, msg.source)
    BY <1>9 DEF HandleUnsubcribeAll, Respond, CallSend
  <2>2. QED
    BY <2>1 DEF RowsInv, NoDuplicateRows, DeleteIndexesFresh, DeletesSucceed,
       PurgedHaveNoRows
<1>10. CASE DeleteRow
  <2>1. PICK i \in index_gr : /\ IsLast(i, index_gr)
                              /\ head_client' = delete_client(head_client, i)
                              /\ ret' = (ret /\ CanDelete(head_client, i))
                              /\ index_gr' = index_gr \ {i}
    BY <1>10 DEF DeleteRow
  <2>2. server = "delete" /\ UNCHANGED <<server, msg, purged>>
    BY <1>10 DEF DeleteRow
  <2>3. index_gr = get_index_by_name(head_client, msg.source)
    BY <2>2 DEF RowsInv, DeleteIndexesFresh
  <2>4. i \in Nat /\ i < Len(head_client)
    BY <1>0, <2>3 DEF get_index_by_name, Indexes
  <2>5. CanDelete(head_client, i) /\ index_gr' = get_index_by_name(head_client', msg.source)
    BY <1>0, <2>1, <2>3, DeleteLastRow
  <2>6. NoDuplicateRows' /\ PurgedHaveNoRows'
    BY <2>1, <2>2, <2>4, RowDeleted
  <2>7. QED
    BY <2>1, <2>2, <2>5, <2>6 DEF RowsInv, DeleteIndexesFresh, DeletesSucceed
<1>11. CASE HandleUnsubcribe
  <2>1. server' = "send" /\ UNCHANGED <<ret, purged>>
    BY <1>11 DEF HandleUnsubcribe, Respond, CallSend
  <2>2. CASE UNCHANGED head_client
    BY <2>1, <2>2, RowsUntouched
  <2>3. CASE ~UNCHANGED head_client
    <3>1. PICK i \in get_index_by_data(head_client, create_data(msg.source, msg.topic)) :
            head_client' = delete_client(head_client, i)
      BY <1>11, <2>3 DEF HandleUnsubcribe
    <3>2. i \in Nat /\ i < Len(head_client)
      BY <1>0, FoundRow
    <3>3. NoDuplicateRows' /\ PurgedHaveNoRows'
      BY <2>1, <3>1, <3>2, RowDeleted
    <3>4. QED
      BY <2>1, <3>3 DEF RowsInv, DeleteIndexesFresh, DeletesSucceed
  <2>4. QED BY <2>2, <2>3
<1>12. CASE OverwriteCrashed
  <2>1. /\ UNCHANGED <<head_client, purged, ret, call>>
        /\ server' = "purge"
        /\ crash_gr' = get_index_by_name(head_client, call.client_name)
    BY <1>12 DEF OverwriteCrashed
  <2>2. QED
    BY <2>1 DEF RowsInv, NoDuplicateRows, DeleteIndexesFresh, DeletesSucceed,
       PurgedHaveNoRows
<1>13. CASE PurgeRow
  <2>1. PICK i \in crash_gr : /\ IsLast(i, crash_gr)
                              /\ head_client' = delete_client(head_client, i)
                              /\ ret' = (ret /\ CanDelete(head_client, i))
                              /\ crash_gr' = crash_gr \ {i}
    BY <1>13 DEF PurgeRow
  <2>2. server = "purge" /\ UNCHANGED <<server, call, purged>>
    BY <1>13 DEF PurgeRow
  <2>3. crash_gr = get_index_by_name(head_client, call.client_name)
    BY <2>2 DEF RowsInv, DeleteIndexesFresh
  <2>4. i \in Nat /\ i < Len(head_client)
    BY <1>0, <2>3 DEF get_index_by_name, Indexes
  <2>5. /\ CanDelete(head_client, i)
        /\ crash_gr' = get_index_by_name(head_client', call.client_name)
    BY <1>0, <2>1, <2>3, DeleteLastRow
  <2>6. NoDuplicateRows' /\ PurgedHaveNoRows'
    BY <2>1, <2>2, <2>4, RowDeleted
  <2>7. QED
    BY <2>1, <2>2, <2>5, <2>6 DEF RowsInv, DeleteIndexesFresh, DeletesSucceed
<1>14. CASE Unlink
  <2>1. /\ UNCHANGED head_client /\ ret' = TRUE
        /\ server = "purge" /\ crash_gr = {} /\ server' \in {"loop", "recv"}
        /\ purged' = purged \cup {call.client_name}
    BY <1>14 DEF Unlink, Return
  <2>2. get_index_by_name(head_client, call.client_name) = {}
    BY <2>1 DEF RowsInv, DeleteIndexesFresh
  <2>3. QED
    BY <2>1, <2>2 DEF RowsInv, NoDuplicateRows, DeleteIndexesFresh, DeletesSucceed,
       PurgedHaveNoRows
<1>15. QED
  BY <1>1, <1>2, <1>3, <1>4, <1>5, <1>6, <1>7, <1>8, <1>9, <1>10, <1>11, <1>12,
     <1>13, <1>14 DEF Next, ServerStep

\* RowsInv holds along every behaviour.
THEOREM RowsInvariant == Spec => []RowsInv
<1>1. Init => RowsInv
  BY EmptySeq DEF Init, ServerInit, RowsInv, NoDuplicateRows, DeleteIndexesFresh,
     DeletesSucceed, PurgedHaveNoRows
<1>2. TypeInv /\ RowsInv /\ [Next]_vars => RowsInv'
  <2>1. CASE UNCHANGED vars
    BY <2>1 DEF vars, serverVars, RowsInv, NoDuplicateRows, DeleteIndexesFresh,
       DeletesSucceed, PurgedHaveNoRows
  <2>2. QED BY <2>1, RowsStep
<1>3. QED
  BY <1>1, <1>2, TypeInvariant, PTL DEF Spec

\* No client is ever listed twice for one topic (SUBSCRIBE), whatever the order of
\* subscriptions, deletions and purges.
THEOREM NoDuplicates == Spec => []NoDuplicateRows
<1>1. RowsInv => NoDuplicateRows
  BY DEF RowsInv
<1>2. QED BY <1>1, RowsInvariant, PTL

\* The row numbers the deletion loops of UNSUBSCRIBE ALL and of the purge hold are
\* the client's rows at every moment of the loop.
THEOREM FreshIndexes == Spec => []DeleteIndexesFresh
<1>1. RowsInv => DeleteIndexesFresh
  BY DEF RowsInv
<1>2. QED BY <1>1, RowsInvariant, PTL

\* Those loops never ask for a row that is not there, so they never fail.
THEOREM DeletionsSucceed == Spec => []DeletesSucceed
<1>1. RowsInv => DeletesSucceed
  BY DEF RowsInv
<1>2. QED BY <1>1, RowsInvariant, PTL

\* A client dropped as crashed has no row until it subscribes again.
THEOREM PurgeComplete == Spec => []PurgedHaveNoRows
<1>1. RowsInv => PurgedHaveNoRows
  BY DEF RowsInv
<1>2. QED BY <1>1, RowsInvariant, PTL

---------------------------------------------------------------------------
(* The crash list.                                                         *)

\* No client has two payloads in the list.
OneEach(list) ==
  \A i, j \in DOMAIN list : list[i].client_name = list[j].client_name => i = j

\* Unlinking a payload leaves one for each other client.
LEMMA DeletePayloadKeepsOne ==
  ASSUME NEW list \in Seq(Payloads), NEW c, OneEach(list)
  PROVE  OneEach(delete_from_monitor(list, c))
<1>1. CASE ~Monitored(list, c)
  BY <1>1 DEF delete_from_monitor
<1>2. CASE Monitored(list, c)
  <2> DEFINE p == FirstPosition(list, c)
             new == [k \in 1 .. Len(list) - 1 |-> IF k < p THEN list[k] ELSE list[k + 1]]
  <2>1. DOMAIN list = 1 .. Len(list) /\ Len(list) \in Nat
    OBVIOUS
  <2>2. p \in DOMAIN list
    <3>1. PICK k \in MonitorPositions(list, c) : TRUE
      BY <1>2 DEF Monitored
    <3>2. \A j \in MonitorPositions(list, c) : k <= j
      BY <2>1, <3>1 DEF MonitorPositions, OneEach
    <3>3. p \in MonitorPositions(list, c)
      BY <3>1, <3>2 DEF FirstPosition
    <3>4. QED BY <3>3 DEF MonitorPositions
  <2> HIDE DEF p
  <2>3. SUFFICES ASSUME NEW i \in 1 .. Len(list) - 1, NEW j \in 1 .. Len(list) - 1,
                        new[i].client_name = new[j].client_name
                 PROVE  i = j
    BY <1>2 DEF delete_from_monitor, OneEach, p
  <2>4. CASE i < p /\ j < p
    BY <2>1, <2>2, <2>3, <2>4 DEF OneEach
  <2>5. CASE i < p /\ j >= p
    <3>1. i = j + 1
      BY <2>1, <2>2, <2>3, <2>5 DEF OneEach
    <3>2. QED BY <2>1, <2>2, <2>5, <3>1
  <2>6. CASE i >= p /\ j < p
    <3>1. i + 1 = j
      BY <2>1, <2>2, <2>3, <2>6 DEF OneEach
    <3>2. QED BY <2>1, <2>2, <2>6, <3>1
  <2>7. CASE i >= p /\ j >= p
    <3>1. i + 1 = j + 1
      BY <2>1, <2>2, <2>3, <2>7 DEF OneEach
    <3>2. QED BY <3>1
  <2>8. QED BY <2>1, <2>2, <2>4, <2>5, <2>6, <2>7
<1>3. QED
  BY <1>1, <1>2

\* Counting changes no client name.
LEMMA CountKeepsOne ==
  ASSUME NEW list \in Seq(Payloads), NEW c, OneEach(list)
  PROVE  OneEach(CountOne(list, c))
<1> DEFINE p == FirstPosition(list, c)
           new == [list EXCEPT ![p].send_count = @ + 1]
<1> HIDE DEF p
<1>1. DOMAIN new = DOMAIN list
  OBVIOUS
<1>2. \A k \in DOMAIN list : new[k].client_name = list[k].client_name
  <2> SUFFICES ASSUME NEW k \in DOMAIN list PROVE new[k].client_name = list[k].client_name
    OBVIOUS
  <2>1. list[k] \in Payloads
    OBVIOUS
  <2>2. QED BY <2>1 DEF Payloads
<1> HIDE DEF new
<1>3. OneEach(new)
  BY <1>1, <1>2 DEF OneEach
<1>4. QED
  BY <1>3 DEF CountOne, new, p

\* A payload added for a client that has none.
LEMMA AddKeepsOne ==
  ASSUME NEW list \in Seq(Payloads), NEW e \in Payloads, OneEach(list),
         ~Monitored(list, e.client_name)
  PROVE  OneEach(add_to_monitor(list, e))
<1> DEFINE new == add_to_monitor(list, e)
<1>1. /\ Len(list) \in Nat
      /\ DOMAIN new = 1 .. Len(list) + 1
      /\ DOMAIN list = 1 .. Len(list)
      /\ new[Len(list) + 1] = e
      /\ \A k \in 1 .. Len(list) : new[k] = list[k]
  BY DEF add_to_monitor
<1>2. \A k \in DOMAIN list : list[k].client_name # e.client_name
  BY DEF Monitored, MonitorPositions
<1> HIDE DEF new
<1>3. OneEach(new)
  BY <1>1, <1>2 DEF OneEach
<1>4. QED
  BY <1>3 DEF new

\* The crash list never holds two payloads of one client, so deleting the first
\* one found clears the client.
THEOREM OnePayloadPerClient == Spec => []OneMonitorEntryPerClient
<1>1. Init => OneMonitorEntryPerClient
  BY EmptySeq DEF Init, ServerInit, OneMonitorEntryPerClient
<1>2. TypeInv /\ OneMonitorEntryPerClient /\ [Next]_vars => OneMonitorEntryPerClient'
  <2> SUFFICES ASSUME TypeInv, OneMonitorEntryPerClient, [Next]_vars
               PROVE  OneMonitorEntryPerClient'
    OBVIOUS
  <2> USE DEF lists
  <2>0. head_monitor \in Seq(Payloads) /\ OneEach(head_monitor)
    BY DEF TypeInv, TypeOK, ServerTypeOK, OneMonitorEntryPerClient, OneEach
  <2>1. SUFFICES OneEach(head_monitor')
    BY DEF OneMonitorEntryPerClient, OneEach
  <2>2. CASE \/ UNCHANGED vars
             \/ \E c \in Clients : ClientStep(c)
    BY <2>0, <2>2 DEF vars, serverVars, ClientStep, Start, Call, Send, Await, Take, Gone,
       Close, Crash
  <2>3. CASE ServerOutage
    BY <2>3, EmptySeq DEF ServerOutage, ServerStop, ServerKill, ServerGone, OneEach
  <2>4. CASE \/ ServerStart \/ Receive
             \/ HandleSubcribe \/ HandleUnsubcribeAll \/ DeleteRow \/ DeleteDone
             \/ HandleUnsubcribe \/ HandleSend
    BY <2>0, <2>4 DEF ServerStart, Receive, HandleSubcribe, HandleUnsubcribeAll, DeleteRow,
       DeleteDone, HandleUnsubcribe, HandleSend
  <2>5. CASE \/ LoopSkip \/ LoopOpen \/ LoopDone
             \/ HandleSendTo \/ HandleConfigLog \/ HandleIgnored
             \/ SendBad \/ Evict \/ EvictEmpty \/ Overwrite \/ PurgeRow \/ Unlink
    BY <2>0, <2>5 DEF LoopSkip, LoopOpen, LoopDone, HandleSendTo, HandleConfigLog,
       HandleIgnored, SendBad, Evict, EvictEmpty, Overwrite, PurgeRow, Unlink
  <2>6. CASE SendOk \/ OverwriteCrashedAnswer \/ OverwriteCrashed
    <3>1. head_monitor' = delete_from_monitor(head_monitor, call.client_name)
      BY <2>6 DEF SendOk, OverwriteCrashedAnswer, OverwriteCrashed
    <3>2. QED
      BY <2>0, <3>1, DeletePayloadKeepsOne
  <2>7. CASE SendFull
    <3>1. CASE Monitored(head_monitor, call.client_name)
      BY <2>0, <2>7, <3>1, CountKeepsOne DEF SendFull
    <3>2. CASE ~Monitored(head_monitor, call.client_name)
      <4>1. FullPayload \in Payloads /\ FullPayload.client_name = call.client_name
        <5>1. call.msg \in Messages /\ call.client_name \in Clients
          BY <2>7 DEF SendFull, TypeInv, LocalsReady
        <5>2. FullPayload \in Payloads
          BY <5>1, FullPayloadType
        <5>3. QED BY <5>2 DEF FullPayload, create_payload
      <4>2. QED
        BY <2>0, <2>7, <3>2, <4>1, AddKeepsOne DEF SendFull
    <3>3. QED BY <3>1, <3>2
  <2>8. QED
    BY <2>2, <2>3, <2>4, <2>5, <2>6, <2>7 DEF Next, ServerStep
<1>3. QED
  BY <1>1, <1>2, TypeInvariant, PTL DEF Spec

---------------------------------------------------------------------------
(* The crash test: what the count of a payload tells of the full queue.    *)

\* The client whose queue the server has open.
Target == IF server = "delete" THEN msg.source ELSE call.client_name

Serving == server \in {"delete", "send", "evict", "overwrite", "purge"}

\* No two clients have one queue, and the server has the queue of the client open
\* it works for, if that is still the client's queue.
OneOwner ==
  /\ \A c, d \in Clients : names[c] = names[d] /\ names[c] # NoQ => c = d
  /\ \A c \in Clients : names[c] = mqd_tmp /\ mqd_tmp # NoQ => c = Target

\* Otherwise the client was started again meanwhile and nothing was sent to it.
Restarted ==
  Serving => \/ names[Target] \in {NoQ, mqd_tmp}
             \/ mqs[names[Target]] = <<>>

\* The full-queue handler works for client c.
Exempt(c) == server \in {"evict", "overwrite"} /\ call.client_name = c

\* The count of payload e tells where in the full queue s its message is.
Tracks(e, s) ==
  ~(Len(s) < ClientCap) /\ e.send_count < ClientCap =>
    StoredFor(e, s[ClientCap - e.send_count])

\* The same when e has been counted for message m that is not in s yet, before and
\* after the oldest message of s was removed.
BeforeEvict(e, s, m) ==
  Len(s) = ClientCap =>
    /\ e.send_count = 0 => StoredFor(e, m)
    /\ e.send_count \in 1 .. ClientCap => StoredFor(e, s[ClientCap + 1 - e.send_count])

AfterEvict(e, s, m) ==
  Len(s) = ClientCap - 1 =>
    /\ e.send_count = 0 => StoredFor(e, m)
    /\ e.send_count \in 1 .. ClientCap - 1 => StoredFor(e, s[ClientCap - e.send_count])

AllTrack ==
  \A k \in DOMAIN head_monitor :
    LET e == head_monitor[k]
    IN names[e.client_name] # NoQ /\ ~Exempt(e.client_name) =>
         Tracks(e, mqs[names[e.client_name]])

\* What holds within the full-queue handler.
Between ==
  \A k \in DOMAIN head_monitor :
    LET e == head_monitor[k]
    IN Exempt(e.client_name) /\ mqd_tmp = names[e.client_name] =>
         /\ server = "evict" => BeforeEvict(e, mqs[mqd_tmp], call.msg)
         /\ server = "overwrite" => AfterEvict(e, mqs[mqd_tmp], call.msg)

MonitorInv == OneOwner /\ Restarted /\ AllTrack /\ Between

---------------------------------------------------------------------------
(* Lemmas about payloads and queues.                                       *)

\* mq_receive moves every message of the queue one place forward.
LEMMA EvictShift ==
  ASSUME NEW e \in Payloads, NEW m, NEW s \in Seq(Messages), s # <<>>,
         BeforeEvict(e, s, m)
  PROVE  AfterEvict(e, Tail(s), m)
<1>1. Len(Tail(s)) = Len(s) - 1 /\ \A k \in 1 .. Len(s) - 1 : Tail(s)[k] = s[k + 1]
  OBVIOUS
<1>2. Len(s) \in Nat /\ ClientCap \in Nat \ {0} /\ e.send_count \in Nat
  BY KernelAssumption DEF Payloads
<1>3. SUFFICES ASSUME Len(s) = ClientCap, e.send_count \in 1 .. ClientCap - 1
               PROVE  StoredFor(e, Tail(s)[ClientCap - e.send_count])
  BY <1>1, <1>2 DEF BeforeEvict, AfterEvict
<1>4. Tail(s)[ClientCap - e.send_count] = s[ClientCap + 1 - e.send_count]
  <2>1. ClientCap - e.send_count \in 1 .. Len(s) - 1
    BY <1>2, <1>3
  <2>2. (ClientCap - e.send_count) + 1 = ClientCap + 1 - e.send_count
    BY <1>2
  <2>3. QED
    BY <1>1, <2>1, <2>2
<1>5. StoredFor(e, s[ClientCap + 1 - e.send_count])
  BY <1>2, <1>3 DEF BeforeEvict
<1>6. QED
  BY <1>4, <1>5

\* mq_send puts the new message in the last place.
LEMMA AppendShift ==
  ASSUME NEW e \in Payloads, NEW m \in Messages, NEW s \in Seq(Messages),
         Len(s) < ClientCap, AfterEvict(e, s, m)
  PROVE  Tracks(e, Append(s, m))
<1> DEFINE t == Append(s, m)
<1>1. /\ Len(t) = Len(s) + 1 /\ t[Len(s) + 1] = m
      /\ \A k \in 1 .. Len(s) : t[k] = s[k]
  OBVIOUS
<1> HIDE DEF t
<1>2. Len(s) \in Nat /\ ClientCap \in Nat \ {0} /\ e.send_count \in Nat
  BY KernelAssumption DEF Payloads
<1>3. SUFFICES ASSUME ~(Len(t) < ClientCap), e.send_count < ClientCap
               PROVE  StoredFor(e, t[ClientCap - e.send_count])
  BY DEF Tracks, t
<1>4. Len(s) = ClientCap - 1
  BY <1>1, <1>2, <1>3
<1>5. CASE e.send_count = 0
  <2>1. t[ClientCap - e.send_count] = m
    BY <1>1, <1>2, <1>4, <1>5
  <2>2. QED
    BY <1>4, <1>5, <2>1 DEF AfterEvict
<1>6. CASE e.send_count # 0
  <2>1. e.send_count \in 1 .. ClientCap - 1 /\ ClientCap - e.send_count \in 1 .. Len(s)
    BY <1>2, <1>3, <1>4, <1>6
  <2>2. QED
    BY <1>1, <1>4, <2>1 DEF AfterEvict
<1>7. QED
  BY <1>5, <1>6

\* The count grows by one for the message about to be put in.
LEMMA CountShift ==
  ASSUME NEW e \in Payloads, NEW m, NEW s \in Seq(Messages), Tracks(e, s)
  PROVE  BeforeEvict([e EXCEPT !.send_count = @ + 1], s, m)
<1> DEFINE f == [e EXCEPT !.send_count = @ + 1]
<1>1. /\ f.send_count = e.send_count + 1 /\ e.send_count \in Nat
      /\ f.source = e.source /\ f.topic = e.topic /\ f.data = e.data
  BY DEF Payloads
<1>2. ClientCap \in Nat \ {0} /\ Len(s) \in Nat
  BY KernelAssumption
<1> HIDE DEF f
<1>3. \A x : StoredFor(f, x) <=> StoredFor(e, x)
  BY <1>1 DEF StoredFor
<1>4. ASSUME Len(s) = ClientCap, f.send_count \in 1 .. ClientCap
      PROVE  StoredFor(f, s[ClientCap + 1 - f.send_count])
  <2>1. e.send_count < ClientCap /\ ClientCap + 1 - f.send_count = ClientCap - e.send_count
    BY <1>1, <1>2, <1>4
  <2>2. StoredFor(e, s[ClientCap - e.send_count])
    BY <1>2, <1>4, <2>1 DEF Tracks
  <2>3. QED
    BY <1>3, <2>1, <2>2
<1>5. f.send_count # 0
  BY <1>1
<1>6. BeforeEvict(f, s, m)
  BY <1>4, <1>5 DEF BeforeEvict
<1>7. QED
  BY <1>6 DEF f

\* A queue that has room makes no demand on the payload.
LEMMA RoomTracks ==
  ASSUME NEW e, NEW s, Len(s) < ClientCap
  PROVE  Tracks(e, s)
BY DEF Tracks

\* delete_from_monitor leaves the payloads of the others and none of the client.
LEMMA RemovedPayload ==
  ASSUME NEW list \in Seq(Payloads), NEW c, OneEach(list),
         NEW k \in DOMAIN delete_from_monitor(list, c)
  PROVE  /\ delete_from_monitor(list, c)[k].client_name # c
         /\ \E j \in DOMAIN list : delete_from_monitor(list, c)[k] = list[j]
<1>0. DOMAIN list = 1 .. Len(list) /\ Len(list) \in Nat
  OBVIOUS
<1>1. CASE ~Monitored(list, c)
  BY <1>1 DEF delete_from_monitor, Monitored, MonitorPositions
<1>2. CASE Monitored(list, c)
  <2> DEFINE p == FirstPosition(list, c)
             new == [i \in 1 .. Len(list) - 1 |-> IF i < p THEN list[i] ELSE list[i + 1]]
  <2>1. p \in MonitorPositions(list, c)
    <3>1. PICK j \in MonitorPositions(list, c) : TRUE
      BY <1>2 DEF Monitored
    <3>2. \A i \in MonitorPositions(list, c) : j <= i
      BY <1>0, <3>1 DEF MonitorPositions, OneEach
    <3>3. QED
      BY <3>1, <3>2 DEF FirstPosition
  <2>2. p \in DOMAIN list /\ list[p].client_name = c
    BY <2>1 DEF MonitorPositions
  <2>3. delete_from_monitor(list, c) = new
    BY <1>2 DEF delete_from_monitor
  <2> HIDE DEF p
  <2>4. k \in 1 .. Len(list) - 1
    BY <1>0, <2>3
  <2>5. CASE k < p
    <3>1. new[k] = list[k] /\ k \in DOMAIN list /\ k # p
      BY <1>0, <2>2, <2>4, <2>5
    <3>2. QED
      BY <2>2, <2>3, <3>1 DEF OneEach
  <2>6. CASE ~(k < p)
    <3>1. new[k] = list[k + 1] /\ k + 1 \in DOMAIN list /\ k + 1 # p
      BY <1>0, <2>2, <2>4, <2>6
    <3>2. QED
      BY <2>2, <2>3, <3>1 DEF OneEach
  <2>7. QED
    BY <2>5, <2>6
<1>3. QED
  BY <1>1, <1>2

\* The count changes in the client's payload and in no other.
LEMMA CountedPayload ==
  ASSUME NEW list \in Seq(Payloads), NEW c, OneEach(list), Monitored(list, c),
         NEW k \in DOMAIN CountOne(list, c)
  PROVE  /\ k \in DOMAIN list
         /\ CountOne(list, c)[k] =
              IF list[k].client_name = c THEN [list[k] EXCEPT !.send_count = @ + 1]
                                         ELSE list[k]
         /\ CountOne(list, c)[k].client_name = list[k].client_name
<1> DEFINE p == FirstPosition(list, c)
<1>0. DOMAIN list = 1 .. Len(list) /\ Len(list) \in Nat
  OBVIOUS
<1>1. p \in MonitorPositions(list, c)
  <2>1. PICK j \in MonitorPositions(list, c) : TRUE
    BY DEF Monitored
  <2>2. \A i \in MonitorPositions(list, c) : j <= i
    BY <1>0, <2>1 DEF MonitorPositions, OneEach
  <2>3. QED
    BY <2>1, <2>2 DEF FirstPosition
<1>2. p \in DOMAIN list /\ list[p].client_name = c
  BY <1>1 DEF MonitorPositions
<1>3. CountOne(list, c) = [list EXCEPT ![p].send_count = @ + 1]
  BY DEF CountOne
<1> HIDE DEF p
<1>4. k \in DOMAIN list
  BY <1>3
<1>5. list[k] \in Payloads
  BY <1>4
<1>6. list[k].client_name = c <=> k = p
  BY <1>2, <1>4 DEF OneEach
<1>7. CountOne(list, c)[k] = IF k = p THEN [list[k] EXCEPT !.send_count = @ + 1] ELSE list[k]
  BY <1>3, <1>4
<1>8. QED
  BY <1>4, <1>5, <1>6, <1>7 DEF Payloads

---------------------------------------------------------------------------
(* Lemmas about the steps of the clients.                                  *)

\* What is left of a queue of which at most the oldest message was taken.
Shrinks(s, t) == t = s \/ (s # <<>> /\ t = Tail(s))

\* A client step changes the name of one client, to a new queue if to any, and
\* takes messages from the queues of clients at most.
LEMMA ClientEffect ==
  ASSUME TypeInv, QueueInv, NEW c \in Clients, ClientStep(c)
  PROVE  /\ UNCHANGED <<server, head_monitor, msg, call, mqd_tmp>>
         /\ \A d \in Clients \ {c} : names'[d] = names[d]
         /\ names'[c] \in {names[c], NoQ} \cup Creatable
         /\ \A d \in Clients : names'[d] # NoQ =>
              names'[d] \in QIds /\ Shrinks(mqs[names'[d]], mqs'[names'[d]])
<1> USE DEF ownDescs, serverVars
<1>0. /\ names \in [Names -> QIds \cup {NoQ}] /\ my_mq \in [Clients -> QIds \cup {NoQ}]
      /\ mqs \in [QIds -> Seq(Messages)] /\ Clients \subseteq Names
  BY DEF TypeInv, TypeOK, KernelTypeOK, Names
<1>1. CASE Start(c)
  <2>1. /\ SetQueues(mqs)
        /\ names' = [names EXCEPT ![c] = my_mq'[c]]
        /\ UNCHANGED <<server, head_monitor, msg, call, mqd_tmp>>
    BY <1>1 DEF Start
  <2>2. my_mq'[c] \in Creatable
    <3>1. Creatable # {} => (CHOOSE q \in Creatable : TRUE) \in Creatable
      OBVIOUS
    <3>2. QED
      BY <1>0, <1>1, <3>1 DEF Start
  <2>3. \A d \in Clients : names'[d] = IF d = c THEN my_mq'[c] ELSE names[d]
    BY <1>0, <2>1
  <2>4. ASSUME NEW d \in Clients, names'[d] # NoQ
        PROVE  names'[d] \in QIds /\ mqs'[names'[d]] = mqs[names'[d]]
    <3>1. names'[d] \in QIds
      BY <1>0, <2>2, <2>3, <2>4 DEF Creatable
    <3>2. names'[d] \in Referenced'
      BY <1>0, <3>1 DEF Referenced, Names
    <3>3. QED
      BY <2>1, <3>1, <3>2, AfterSetQueues
  <2>5. QED
    BY <2>1, <2>2, <2>3, <2>4 DEF Shrinks
<1>2. CASE Send(c)
  <2> DEFINE content == Enqueue(mqserver[c], request[c])
  <2>1. /\ SetQueues(content) /\ names' = names
        /\ UNCHANGED <<server, head_monitor, msg, call, mqd_tmp>>
    BY <1>2 DEF Send
  <2>2. ASSUME NEW d \in Clients, names'[d] # NoQ
        PROVE  names'[d] \in QIds /\ mqs'[names'[d]] = mqs[names'[d]]
    <3>1. names'[d] = names[d] /\ names[d] \in QIds
      BY <1>0, <2>1, <2>2
    <3>2. names[d] # mqserver[c]
      BY <3>1 DEF QueueInv, Sides, ClientSide, ServerSide
    <3>3. content[names[d]] = mqs[names[d]]
      BY <1>0, <3>1, <3>2 DEF Enqueue
    <3>4. names[d] \in Referenced'
      BY <1>0, <3>1 DEF Referenced, Names
    <3> HIDE DEF content
    <3>5. QED
      BY <2>1, <3>1, <3>3, <3>4, AfterSetQueues
  <2>3. QED
    BY <2>1, <2>2 DEF Shrinks
<1>3. CASE Await(c) \/ Take(c)
  <2>1. /\ names' = names /\ mqs' = Dequeue(my_mq[c]) /\ mqs[my_mq[c]] # <<>>
        /\ UNCHANGED <<server, head_monitor, msg, call, mqd_tmp>>
    BY <1>3 DEF Await, Take
  <2>2. \A q \in QIds : Shrinks(mqs[q], mqs'[q])
    BY <1>0, <2>1 DEF Dequeue, Shrinks
  <2>3. QED
    BY <1>0, <2>1, <2>2
<1>4. CASE Close(c) \/ Crash(c)
  <2>1. /\ SetQueues(mqs)
        /\ names' = [names EXCEPT ![c] = NoQ] \/ names' = names
        /\ UNCHANGED <<server, head_monitor, msg, call, mqd_tmp>>
    BY <1>4 DEF Close, Crash, Gone
  <2>2. /\ \A d \in Clients \ {c} : names'[d] = names[d]
        /\ names'[c] \in {names[c], NoQ}
    BY <1>0, <2>1
  <2>3. ASSUME NEW d \in Clients, names'[d] # NoQ
        PROVE  names'[d] \in QIds /\ mqs'[names'[d]] = mqs[names'[d]]
    <3>1. names'[d] = names[d] /\ names[d] \in QIds
      BY <1>0, <2>2, <2>3
    <3>2. names'[d] \in Referenced'
      BY <1>0, <3>1 DEF Referenced, Names
    <3>3. QED
      BY <2>1, <3>1, <3>2, AfterSetQueues
  <2>4. QED
    BY <2>1, <2>2, <2>3 DEF Shrinks
<1>5. CASE \E r \in Requests : Call(c, r)
  BY <1>0, <1>5 DEF Call, Shrinks
<1>6. QED
  BY <1>1, <1>2, <1>3, <1>4, <1>5 DEF ClientStep

\* A queue that can be created belongs to no client, and the server has it not open.
LEMMA CreatableUnused ==
  ASSUME TypeInv, NEW q \in Creatable
  PROVE  q \in QIds /\ q # NoQ /\ q # mqd_tmp /\ \A c \in Clients : names[c] # q
BY KernelAssumption DEF Creatable, Referenced, Names

\* What a message taken away leaves of what is known of a full queue: nothing.
LEMMA ShrunkQueue ==
  ASSUME NEW e, NEW m, NEW s \in Seq(Messages), NEW t, Shrinks(s, t)
  PROVE  /\ Tracks(e, s) /\ Len(s) <= ClientCap => Tracks(e, t)
         /\ BeforeEvict(e, s, m) /\ Len(s) <= ClientCap => BeforeEvict(e, t, m)
         /\ AfterEvict(e, s, m) /\ Len(s) < ClientCap => AfterEvict(e, t, m)
<1>1. CASE t = s
  BY <1>1
<1>2. CASE t # s
  <2>1. Len(s) \in Nat /\ Len(t) = Len(s) - 1 /\ ClientCap \in Nat \ {0}
    BY <1>2, KernelAssumption DEF Shrinks
  <2>2. Len(s) <= ClientCap => Len(t) < ClientCap
    BY <2>1
  <2>3. Len(s) < ClientCap => Len(t) # ClientCap - 1
    BY <2>1
  <2>4. Len(t) < ClientCap => Len(t) # ClientCap
    BY <2>1
  <2>5. QED
    BY <2>2, <2>3, <2>4 DEF Tracks, BeforeEvict, AfterEvict
<1>3. QED
  BY <1>1, <1>2

LEMMA ClientKeepsMonitor ==
  ASSUME TypeInv, QueueInv, MonitorInv, NEW c \in Clients, ClientStep(c)
  PROVE  MonitorInv'
<1>0. /\ names \in [Names -> QIds \cup {NoQ}] /\ Clients \subseteq Names
      /\ mqs \in [QIds -> Seq(Messages)]
      /\ head_monitor \in Seq(Payloads)
  BY DEF TypeInv, TypeOK, KernelTypeOK, ServerTypeOK, Names
<1>1. /\ UNCHANGED <<server, head_monitor, msg, call, mqd_tmp>>
      /\ \A d \in Clients \ {c} : names'[d] = names[d]
      /\ names'[c] \in {names[c], NoQ} \cup Creatable
  BY ClientEffect
<1>2. \A d \in Clients : names'[d] # NoQ =>
        names'[d] \in QIds /\ Shrinks(mqs[names'[d]], mqs'[names'[d]])
  BY ClientEffect
<1>3. ASSUME NEW d \in Clients, names'[d] # NoQ, names'[d] # names[d]
      PROVE  d = c /\ names'[d] \in Creatable /\ mqs'[names'[d]] = <<>>
  <2>1. d = c /\ names'[d] \in Creatable
    BY <1>1, <1>3
  <2>2. mqs[names'[d]] = <<>>
    BY <2>1 DEF QueueInv, NewAreEmpty
  <2>3. QED
    BY <1>2, <1>3, <2>1, <2>2 DEF Shrinks
<1>4. Target' = Target /\ (Serving' <=> Serving) /\ \A d : Exempt(d)' <=> Exempt(d)
  BY <1>1 DEF Target, Serving, Exempt
<1>5. OneOwner'
  <2>1. ASSUME NEW d1 \in Clients, NEW d2 \in Clients, names'[d1] = names'[d2], names'[d1] # NoQ
        PROVE  d1 = d2
    <3>1. CASE names'[d1] = names[d1] /\ names'[d2] = names[d2]
      BY <2>1, <3>1 DEF MonitorInv, OneOwner
    <3>2. CASE names'[d1] # names[d1] /\ names'[d2] = names[d2]
      BY <1>3, <2>1, <3>2, CreatableUnused
    <3>3. CASE names'[d1] = names[d1] /\ names'[d2] # names[d2]
      BY <1>3, <2>1, <3>3, CreatableUnused
    <3>4. CASE names'[d1] # names[d1] /\ names'[d2] # names[d2]
      BY <1>3, <2>1, <3>4
    <3>5. QED
      BY <3>1, <3>2, <3>3, <3>4
  <2>2. ASSUME NEW d \in Clients, names'[d] = mqd_tmp, mqd_tmp # NoQ
        PROVE  d = Target
    <3>1. names'[d] = names[d]
      BY <1>3, <2>2, CreatableUnused
    <3>2. QED
      BY <2>2, <3>1 DEF MonitorInv, OneOwner
  <2>3. QED
    BY <1>1, <1>4, <2>1, <2>2 DEF OneOwner
<1>6. Restarted'
  <2>1. SUFFICES ASSUME Serving, names'[Target] # NoQ, names'[Target] # mqd_tmp
                 PROVE  mqs'[names'[Target]] = <<>>
    BY <1>1, <1>4 DEF Restarted
  <2>2. Target \in Clients
    BY <2>1, MessageFields DEF Serving, Target, TypeInv, LocalsReady
  <2>3. CASE names'[Target] = names[Target]
    BY <1>2, <2>1, <2>2, <2>3 DEF MonitorInv, Restarted, Shrinks
  <2>4. CASE names'[Target] # names[Target]
    BY <1>3, <2>1, <2>2, <2>4
  <2>5. QED
    BY <2>3, <2>4
<1>7. ASSUME NEW k \in DOMAIN head_monitor
      PROVE  head_monitor[k] \in Payloads /\ head_monitor[k].client_name \in Clients
  <2>1. head_monitor[k] \in Payloads
    BY <1>0
  <2>2. QED
    BY <2>1 DEF Payloads
<1>8. AllTrack'
  <2> SUFFICES ASSUME NEW k \in DOMAIN head_monitor,
                      names'[head_monitor[k].client_name] # NoQ,
                      ~Exempt(head_monitor[k].client_name)
               PROVE  Tracks(head_monitor[k], mqs'[names'[head_monitor[k].client_name]])
    BY <1>1, <1>4 DEF AllTrack
  <2> DEFINE e == head_monitor[k]
             d == e.client_name
  <2>1. e \in Payloads /\ d \in Clients
    BY <1>7
  <2> HIDE DEF e
  <2>2. CASE names'[d] = names[d]
    <3>1. Tracks(e, mqs[names[d]])
      BY <2>2 DEF e, MonitorInv, AllTrack
    <3>2. Len(mqs[names[d]]) <= ClientCap
      BY <1>2, <2>1, <2>2 DEF e, QueueInv, Bounded, ClientSide
    <3>3. QED
      BY <1>0, <1>2, <2>1, <2>2, <3>1, <3>2, ShrunkQueue DEF e
  <2>3. CASE names'[d] # names[d]
    BY <1>3, <2>1, <2>3, RoomTracks, EmptyHasRoom, KernelAssumption DEF e
  <2>4. QED
    BY <2>2, <2>3 DEF e
<1>9. Between'
  <2> SUFFICES ASSUME NEW k \in DOMAIN head_monitor,
                      Exempt(head_monitor[k].client_name),
                      mqd_tmp = names'[head_monitor[k].client_name]
               PROVE  /\ server = "evict" => BeforeEvict(head_monitor[k], mqs'[mqd_tmp], call.msg)
                      /\ server = "overwrite" => AfterEvict(head_monitor[k], mqs'[mqd_tmp], call.msg)
    BY <1>1, <1>4 DEF Between
  <2> DEFINE e == head_monitor[k]
             d == e.client_name
  <2>1. e \in Payloads /\ d \in Clients
    BY <1>7
  <2>2. mqd_tmp \in QIds
    BY DEF Exempt, TypeInv, LocalsReady
  <2>3. names[d] = mqd_tmp
    BY <1>3, <2>1, <2>2, KernelAssumption, CreatableUnused
  <2>4. /\ server = "evict" => BeforeEvict(e, mqs[mqd_tmp], call.msg)
        /\ server = "overwrite" => AfterEvict(e, mqs[mqd_tmp], call.msg)
    BY <2>3 DEF MonitorInv, Between
  <2>5. Len(mqs[mqd_tmp]) <= ClientCap
    BY <2>2 DEF QueueInv, Bounded, ClientSide
  <2>6. server = "overwrite" => Len(mqs[mqd_tmp]) < ClientCap
    BY DEF QueueInv, RoomAfterEvict, HasRoom
  <2>7. Shrinks(mqs[mqd_tmp], mqs'[mqd_tmp])
    BY <1>2, <2>1, <2>2, KernelAssumption
  <2> HIDE DEF e, d
  <2>8. QED
    BY <1>0, <2>2, <2>4, <2>5, <2>6, <2>7, ShrunkQueue DEF e
<1>10. QED
  BY <1>5, <1>6, <1>8, <1>9 DEF MonitorInv

---------------------------------------------------------------------------
(* Lemmas about the steps of the server.                                   *)

\* A payload names a client.
LEMMA PayloadClient ==
  ASSUME TypeInv, NEW k \in DOMAIN head_monitor
  PROVE  head_monitor[k] \in Payloads /\ head_monitor[k].client_name \in Clients
<1>1. head_monitor \in Seq(Payloads)
  BY DEF TypeInv, TypeOK, ServerTypeOK
<1>2. head_monitor[k] \in Payloads
  BY <1>1
<1>3. QED
  BY <1>2 DEF Payloads

\* A step that leaves the queues of the clients and the crash list alone, and is
\* not within the full-queue handler.
LEMMA QuietTracking ==
  ASSUME TypeInv, TypeInv', MonitorInv, head_monitor' = head_monitor,
         \A c \in Clients : names'[c] # NoQ =>
           names'[c] = names[c] /\ mqs'[names[c]] = mqs[names[c]],
         server \notin {"evict", "overwrite"}, server' \notin {"evict", "overwrite"},
         \/ ~Serving' /\ mqd_tmp' = NoQ
         \/ Serving' /\ mqd_tmp' = names'[Target']
         \/ Serving /\ Serving' /\ mqd_tmp' = mqd_tmp /\ Target' = Target
  PROVE  MonitorInv'
<1>1. AllTrack'
  BY PayloadClient DEF MonitorInv, AllTrack, Exempt
<1>2. Between'
  BY DEF Between, Exempt
<1>3. \A c, d \in Clients : names'[c] = names'[d] /\ names'[c] # NoQ => c = d
  BY DEF MonitorInv, OneOwner
<1>4. Serving' => Target' \in Clients
  BY MessageFields DEF Serving, Target, TypeInv, LocalsReady
<1>5. OneOwner' /\ Restarted'
  <2>1. CASE ~Serving' /\ mqd_tmp' = NoQ
    BY <1>3, <2>1 DEF OneOwner, Restarted
  <2>2. CASE Serving' /\ mqd_tmp' = names'[Target']
    BY <1>3, <1>4, <2>2 DEF OneOwner, Restarted
  <2>3. CASE Serving /\ Serving' /\ mqd_tmp' = mqd_tmp /\ Target' = Target
    <3>1. OneOwner'
      BY <1>3, <2>3 DEF MonitorInv, OneOwner
    <3>2. Restarted'
      BY <1>4, <2>3 DEF MonitorInv, Restarted
    <3>3. QED
      BY <3>1, <3>2
  <2>4. QED
    BY <2>1, <2>2, <2>3
<1>6. QED
  BY <1>1, <1>2, <1>5 DEF MonitorInv

\* The end of cms_server_send, when every payload has been looked after.
LEMMA ClosingKeeps ==
  ASSUME MonitorInv, AllTrack', names' = names, Return
  PROVE  MonitorInv'
<1>1. server' \in {"loop", "recv"} /\ mqd_tmp' = NoQ
  BY DEF Return
<1>2. QED
  BY <1>1 DEF MonitorInv, OneOwner, Restarted, Between, Serving, Exempt

\* What a step that closes the queue of a client leaves in the queues of the others,
\* and in a queue the client created meanwhile.
LEMMA OtherQueues ==
  ASSUME TypeInv, MonitorInv, NEW content, SetQueues(content), names' = names,
         server \in {"send", "evict", "overwrite", "purge"},
         \A q \in QIds : q # mqd_tmp => content[q] = mqs[q]
  PROVE  \A c \in Clients : names[c] # NoQ =>
           /\ mqs'[names[c]] = content[names[c]]
           /\ c # call.client_name => mqs'[names[c]] = mqs[names[c]]
           /\ names[call.client_name] # mqd_tmp /\ c = call.client_name => mqs'[names[c]] = <<>>
<1> SUFFICES ASSUME NEW c \in Clients, names[c] # NoQ
             PROVE  /\ mqs'[names[c]] = content[names[c]]
                    /\ c # call.client_name => mqs'[names[c]] = mqs[names[c]]
                    /\ names[call.client_name] # mqd_tmp /\ c = call.client_name =>
                         mqs'[names[c]] = <<>>
  OBVIOUS
<1>1. names[c] \in QIds /\ c \in Names
  BY DEF TypeInv, TypeOK, KernelTypeOK, Names
<1>2. names[c] \in Referenced'
  BY <1>1 DEF Referenced
<1>3. mqs'[names[c]] = content[names[c]]
  BY <1>1, <1>2, AfterSetQueues
<1>4. Target = call.client_name /\ Serving
  BY DEF Target, Serving
<1>5. c # call.client_name => names[c] # mqd_tmp
  BY <1>4 DEF MonitorInv, OneOwner
<1>6. names[call.client_name] # mqd_tmp /\ c = call.client_name => mqs[names[c]] = <<>>
  BY <1>4 DEF MonitorInv, Restarted
<1>7. QED
  BY <1>1, <1>3, <1>5, <1>6

\* The payload of the client goes: mq_send succeeded, or it counts as crashed.
LEMMA ForgetSteps ==
  ASSUME TypeInv, MonitorInv, OneEach(head_monitor), SendOk \/ OverwriteCrashedAnswer
  PROVE  MonitorInv'
<1> USE DEF ownDescs
<1> DEFINE content == Enqueue(mqd_tmp, call.msg)
<1>1. /\ SetQueues(content) /\ names' = names /\ Return
      /\ server \in {"send", "overwrite"}
      /\ head_monitor' = delete_from_monitor(head_monitor, call.client_name)
  BY DEF SendOk, OverwriteCrashedAnswer
<1>2. mqs \in [QIds -> Seq(Messages)] /\ head_monitor \in Seq(Payloads)
  BY DEF TypeInv, TypeOK, KernelTypeOK, ServerTypeOK
<1>3. \A q \in QIds : q # mqd_tmp => content[q] = mqs[q]
  BY <1>2 DEF Enqueue
<1> HIDE DEF content
<1>4. \A c \in Clients : names[c] # NoQ /\ c # call.client_name => mqs'[names[c]] = mqs[names[c]]
  BY <1>1, <1>3, OtherQueues
<1>5. AllTrack'
  <2> SUFFICES ASSUME NEW k \in DOMAIN head_monitor',
                      names[head_monitor'[k].client_name] # NoQ
               PROVE  Tracks(head_monitor'[k], mqs'[names[head_monitor'[k].client_name]])
    BY <1>1 DEF AllTrack
  <2>1. head_monitor'[k].client_name # call.client_name
    BY <1>1, <1>2, RemovedPayload
  <2>2. PICK j \in DOMAIN head_monitor : head_monitor'[k] = head_monitor[j]
    BY <1>1, <1>2, RemovedPayload
  <2>3. head_monitor[j].client_name \in Clients
    BY PayloadClient
  <2>4. Tracks(head_monitor[j], mqs[names[head_monitor[j].client_name]])
    BY <2>1, <2>2 DEF MonitorInv, AllTrack, Exempt
  <2>5. QED
    BY <1>4, <2>1, <2>2, <2>3, <2>4
<1>6. QED
  BY <1>1, <1>5, ClosingKeeps

\* The handler gives up on a queue that is empty: the payload stays, the queue has
\* room.
LEMMA EmptyStep ==
  ASSUME TypeInv, MonitorInv, EvictEmpty
  PROVE  MonitorInv'
<1> USE DEF ownDescs
<1>1. /\ SetQueues(mqs) /\ names' = names /\ Return /\ server = "evict"
      /\ mqs[mqd_tmp] = <<>> /\ head_monitor' = head_monitor
  BY DEF EvictEmpty, lists
<1>2. \A c \in Clients : names[c] # NoQ =>
        /\ c # call.client_name => mqs'[names[c]] = mqs[names[c]]
        /\ c = call.client_name => mqs'[names[c]] = <<>>
  BY <1>1, OtherQueues
<1>3. AllTrack'
  <2> SUFFICES ASSUME NEW k \in DOMAIN head_monitor,
                      names[head_monitor[k].client_name] # NoQ
               PROVE  Tracks(head_monitor[k], mqs'[names[head_monitor[k].client_name]])
    BY <1>1 DEF AllTrack
  <2>1. head_monitor[k].client_name \in Clients
    BY PayloadClient
  <2>2. CASE head_monitor[k].client_name = call.client_name
    BY <1>2, <2>1, <2>2, RoomTracks, EmptyHasRoom, KernelAssumption
  <2>3. CASE head_monitor[k].client_name # call.client_name
    BY <1>2, <2>1, <2>3 DEF MonitorInv, AllTrack, Exempt
  <2>4. QED
    BY <2>2, <2>3
<1>4. QED
  BY <1>1, <1>3, ClosingKeeps

\* The new message goes in where the count says.
LEMMA OverwriteStep ==
  ASSUME TypeInv, QueueInv, MonitorInv, Overwrite
  PROVE  MonitorInv'
<1> USE DEF ownDescs
<1> DEFINE content == Enqueue(mqd_tmp, call.msg)
<1>1. /\ SetQueues(content) /\ names' = names /\ Return /\ server = "overwrite"
      /\ head_monitor' = head_monitor
  BY DEF Overwrite, lists
<1>2. /\ mqs \in [QIds -> Seq(Messages)] /\ mqd_tmp \in QIds /\ call.msg \in Messages
  BY <1>1 DEF TypeInv, TypeOK, KernelTypeOK, LocalsReady
<1>3. /\ \A q \in QIds : q # mqd_tmp => content[q] = mqs[q]
      /\ content[mqd_tmp] = Append(mqs[mqd_tmp], call.msg)
  BY <1>2 DEF Enqueue
<1> HIDE DEF content
<1>4. \A c \in Clients : names[c] # NoQ =>
        /\ mqs'[names[c]] = content[names[c]]
        /\ c # call.client_name => mqs'[names[c]] = mqs[names[c]]
        /\ names[call.client_name] # mqd_tmp /\ c = call.client_name => mqs'[names[c]] = <<>>
  BY <1>1, <1>3, OtherQueues
<1>5. AllTrack'
  <2> SUFFICES ASSUME NEW k \in DOMAIN head_monitor,
                      names[head_monitor[k].client_name] # NoQ
               PROVE  Tracks(head_monitor[k], mqs'[names[head_monitor[k].client_name]])
    BY <1>1 DEF AllTrack
  <2>1. head_monitor[k] \in Payloads /\ head_monitor[k].client_name \in Clients
    BY PayloadClient
  <2>2. CASE head_monitor[k].client_name # call.client_name
    BY <1>4, <2>1, <2>2 DEF MonitorInv, AllTrack, Exempt
  <2>3. CASE head_monitor[k].client_name = call.client_name /\ names[call.client_name] # mqd_tmp
    BY <1>4, <2>1, <2>3, RoomTracks, EmptyHasRoom, KernelAssumption
  <2>4. CASE head_monitor[k].client_name = call.client_name /\ names[call.client_name] = mqd_tmp
    <3>1. AfterEvict(head_monitor[k], mqs[mqd_tmp], call.msg)
      BY <1>1, <2>4 DEF MonitorInv, Between, Exempt
    <3>2. Len(mqs[mqd_tmp]) < ClientCap
      BY <1>1 DEF QueueInv, RoomAfterEvict, HasRoom
    <3>3. Tracks(head_monitor[k], Append(mqs[mqd_tmp], call.msg))
      BY <1>2, <2>1, <3>1, <3>2, AppendShift
    <3>4. names[head_monitor[k].client_name] = mqd_tmp /\ mqd_tmp # NoQ
      BY <2>4, <1>2, KernelAssumption
    <3>5. mqs'[mqd_tmp] = Append(mqs[mqd_tmp], call.msg)
      BY <1>3, <1>4, <2>1, <3>4
    <3>6. QED
      BY <3>3, <3>4, <3>5
  <2>5. QED
    BY <2>2, <2>3, <2>4
<1>6. QED
  BY <1>1, <1>5, ClosingKeeps

\* mq_send found the queue full: the payload is stored, or counted.
LEMMA FullStep ==
  ASSUME TypeInv, QueueInv, MonitorInv, OneEach(head_monitor), SendFull
  PROVE  MonitorInv'
<1> DEFINE c == call.client_name
<1>1. /\ UNCHANGED kernelVars /\ server = "send" /\ server' = "evict" /\ msg' = msg
      /\ call' = [call EXCEPT !.pl = Monitored(head_monitor, c)]
      /\ head_monitor' = IF Monitored(head_monitor, c) THEN CountOne(head_monitor, c)
                         ELSE add_to_monitor(head_monitor, FullPayload)
      /\ mqd_tmp # NoQ
  BY DEF SendFull
<1>2. call'.client_name = c /\ call'.msg = call.msg /\ c \in Clients /\ call.msg \in Messages
  BY <1>1 DEF TypeInv, TypeOK, ServerTypeOK, Calls, LocalsReady
<1>3. UNCHANGED <<mqs, names, mqd_tmp>>
  BY <1>1 DEF kernelVars
<1>4. Target = c /\ Target' = c /\ Serving
  BY <1>1, <1>2 DEF Target, Serving
<1>5. OneOwner' /\ Restarted'
  BY <1>3, <1>4 DEF MonitorInv, OneOwner, Restarted
<1>6. /\ head_monitor \in Seq(Payloads) /\ mqs \in [QIds -> Seq(Messages)]
      /\ names \in [Names -> QIds \cup {NoQ}] /\ mqd_tmp \in QIds
  BY <1>1 DEF TypeInv, TypeOK, KernelTypeOK, ServerTypeOK
<1>7. \A d : Exempt(d)' <=> d = c
  BY <1>1, <1>2 DEF Exempt
<1>8. \A d : ~Exempt(d)
  BY <1>1 DEF Exempt
<1> DEFINE Kept(e) == e.client_name # c /\ \E j \in DOMAIN head_monitor : e = head_monitor[j]
           New(e) == /\ e.client_name = c
                     /\ BeforeEvict(e, mqs[names[c]], call.msg) \/ names[c] # mqd_tmp
<1>9. ASSUME NEW k \in DOMAIN head_monitor'
      PROVE  Kept(head_monitor'[k]) \/ New(head_monitor'[k])
  <2>1. CASE Monitored(head_monitor, c)
    <3>1. head_monitor' = CountOne(head_monitor, c)
      BY <1>1, <2>1
    <3>2. /\ k \in DOMAIN head_monitor
          /\ head_monitor'[k] = IF head_monitor[k].client_name = c
                                THEN [head_monitor[k] EXCEPT !.send_count = @ + 1]
                                ELSE head_monitor[k]
          /\ head_monitor'[k].client_name = head_monitor[k].client_name
      BY <1>6, <2>1, <3>1, CountedPayload
    <3>3. CASE head_monitor[k].client_name # c
      BY <3>2, <3>3
    <3>4. CASE head_monitor[k].client_name = c /\ names[c] = mqd_tmp
      <4>1. Tracks(head_monitor[k], mqs[names[c]])
        BY <1>1, <1>8, <3>2, <3>4 DEF MonitorInv, AllTrack
      <4>2. head_monitor[k] \in Payloads /\ mqs[names[c]] \in Seq(Messages)
        BY <1>6, <3>2, <3>4
      <4>3. BeforeEvict([head_monitor[k] EXCEPT !.send_count = @ + 1], mqs[names[c]], call.msg)
        BY <4>1, <4>2, CountShift
      <4>4. QED
        BY <3>2, <3>4, <4>3
    <3>5. CASE head_monitor[k].client_name = c /\ names[c] # mqd_tmp
      BY <3>2, <3>5
    <3>6. QED
      BY <3>3, <3>4, <3>5
  <2>2. CASE ~Monitored(head_monitor, c)
    <3>1. head_monitor' = Append(head_monitor, FullPayload)
      BY <1>1, <2>2 DEF add_to_monitor
    <3>2. CASE k = Len(head_monitor) + 1
      <4>1. head_monitor'[k] = FullPayload
        BY <1>6, <3>1, <3>2
      <4>2. FullPayload.client_name = c /\ FullPayload.send_count = 0
            /\ StoredFor(FullPayload, call.msg)
        BY DEF FullPayload, create_payload, StoredFor
      <4>3. BeforeEvict(FullPayload, mqs[names[c]], call.msg)
        BY <4>2, KernelAssumption DEF BeforeEvict
      <4>4. QED
        BY <4>1, <4>2, <4>3
    <3>3. CASE k # Len(head_monitor) + 1
      <4>1. k \in DOMAIN head_monitor /\ head_monitor'[k] = head_monitor[k]
        BY <1>6, <3>1, <3>3
      <4>2. head_monitor[k].client_name # c
        BY <2>2, <4>1 DEF Monitored, MonitorPositions
      <4>3. QED
        BY <4>1, <4>2
    <3>4. QED
      BY <3>2, <3>3
  <2>3. QED
    BY <2>1, <2>2
<1> HIDE DEF c
<1>10. AllTrack'
  <2> SUFFICES ASSUME NEW k \in DOMAIN head_monitor',
                      names[head_monitor'[k].client_name] # NoQ,
                      head_monitor'[k].client_name # c
               PROVE  Tracks(head_monitor'[k], mqs[names[head_monitor'[k].client_name]])
    BY <1>3, <1>7 DEF AllTrack
  <2>1. PICK j \in DOMAIN head_monitor : head_monitor'[k] = head_monitor[j]
    BY <1>9
  <2>2. QED
    BY <1>8, <2>1 DEF MonitorInv, AllTrack
<1>11. Between'
  <2> SUFFICES ASSUME NEW k \in DOMAIN head_monitor',
                      head_monitor'[k].client_name = c, mqd_tmp = names[c]
               PROVE  BeforeEvict(head_monitor'[k], mqs[mqd_tmp], call.msg)
    BY <1>1, <1>2, <1>3, <1>7 DEF Between
  <2>1. QED
    BY <1>9
<1>12. QED
  BY <1>5, <1>10, <1>11 DEF MonitorInv

\* The oldest message goes, and every other one a place forward.
LEMMA EvictStep ==
  ASSUME TypeInv, MonitorInv, Evict
  PROVE  MonitorInv'
<1> USE DEF ownDescs
<1> DEFINE c == call.client_name
<1>1. /\ server = "evict" /\ server' = "overwrite" /\ mqs' = Dequeue(mqd_tmp)
      /\ mqs[mqd_tmp] # <<>> /\ UNCHANGED <<names, mqd_tmp, head_monitor, msg>>
      /\ call' = [call EXCEPT !.oldest = Head(mqs[mqd_tmp])]
  BY DEF Evict, lists
<1>2. /\ call'.client_name = c /\ call'.msg = call.msg /\ c \in Clients
      /\ mqd_tmp \in QIds /\ mqs \in [QIds -> Seq(Messages)]
      /\ names \in [Names -> QIds \cup {NoQ}] /\ Clients \subseteq Names
  BY <1>1 DEF TypeInv, TypeOK, KernelTypeOK, ServerTypeOK, Calls, LocalsReady, Names
<1>3. /\ mqs'[mqd_tmp] = Tail(mqs[mqd_tmp])
      /\ \A q \in QIds : q # mqd_tmp => mqs'[q] = mqs[q]
  BY <1>1, <1>2 DEF Dequeue
<1>4. Target = c /\ Target' = c /\ Serving
  BY <1>1, <1>2 DEF Target, Serving
<1>5. OneOwner'
  BY <1>1, <1>4 DEF MonitorInv, OneOwner
<1>6. Restarted'
  BY <1>1, <1>2, <1>3, <1>4 DEF MonitorInv, Restarted
<1>7. \A d : (Exempt(d)' <=> d = c) /\ (Exempt(d) <=> d = c)
  BY <1>1, <1>2 DEF Exempt
<1>8. AllTrack'
  <2> SUFFICES ASSUME NEW k \in DOMAIN head_monitor,
                      names[head_monitor[k].client_name] # NoQ,
                      head_monitor[k].client_name # c
               PROVE  Tracks(head_monitor[k], mqs'[names[head_monitor[k].client_name]])
    BY <1>1, <1>7 DEF AllTrack
  <2>1. head_monitor[k].client_name \in Clients
    BY PayloadClient
  <2>2. names[head_monitor[k].client_name] # mqd_tmp
    BY <1>4, <2>1 DEF MonitorInv, OneOwner
  <2>3. QED
    BY <1>2, <1>3, <1>7, <2>1, <2>2 DEF MonitorInv, AllTrack
<1>9. Between'
  <2> SUFFICES ASSUME NEW k \in DOMAIN head_monitor,
                      head_monitor[k].client_name = c, mqd_tmp = names[c]
               PROVE  AfterEvict(head_monitor[k], mqs'[mqd_tmp], call.msg)
    BY <1>1, <1>2, <1>7 DEF Between
  <2>1. head_monitor[k] \in Payloads
    BY PayloadClient
  <2>2. BeforeEvict(head_monitor[k], mqs[mqd_tmp], call.msg)
    BY <1>1, <1>7 DEF MonitorInv, Between
  <2>3. QED
    BY <1>1, <1>2, <1>3, <2>1, <2>2, EvictShift
<1>10. QED
  BY <1>5, <1>6, <1>8, <1>9 DEF MonitorInv

\* The client counts as crashed: its payload goes, its queue gets the message.
LEMMA CrashedStep ==
  ASSUME TypeInv, MonitorInv, OneEach(head_monitor), OverwriteCrashed
  PROVE  MonitorInv'
<1> USE DEF ownDescs
<1> DEFINE c == call.client_name
<1>1. /\ server = "overwrite" /\ server' = "purge" /\ mqs' = Enqueue(mqd_tmp, call.msg)
      /\ head_monitor' = delete_from_monitor(head_monitor, c)
      /\ UNCHANGED <<names, mqd_tmp, call, msg>>
  BY DEF OverwriteCrashed
<1>2. /\ c \in Clients /\ mqs \in [QIds -> Seq(Messages)]
      /\ names \in [Names -> QIds \cup {NoQ}] /\ Clients \subseteq Names
      /\ head_monitor \in Seq(Payloads)
  BY <1>1 DEF TypeInv, TypeOK, KernelTypeOK, ServerTypeOK, LocalsReady, Names
<1>3. \A q \in QIds : q # mqd_tmp => mqs'[q] = mqs[q]
  BY <1>1, <1>2 DEF Enqueue
<1>4. Target = c /\ Target' = c /\ Serving
  BY <1>1 DEF Target, Serving
<1>5. OneOwner'
  BY <1>1, <1>4 DEF MonitorInv, OneOwner
<1>6. Restarted'
  BY <1>1, <1>2, <1>3, <1>4 DEF MonitorInv, Restarted
<1>7. AllTrack'
  <2> SUFFICES ASSUME NEW k \in DOMAIN head_monitor',
                      names[head_monitor'[k].client_name] # NoQ
               PROVE  Tracks(head_monitor'[k], mqs'[names[head_monitor'[k].client_name]])
    BY <1>1 DEF AllTrack
  <2>1. head_monitor'[k].client_name # c
    BY <1>1, <1>2, RemovedPayload
  <2>2. PICK j \in DOMAIN head_monitor : head_monitor'[k] = head_monitor[j]
    BY <1>1, <1>2, RemovedPayload
  <2>3. head_monitor[j].client_name \in Clients
    BY PayloadClient
  <2>4. names[head_monitor[j].client_name] # mqd_tmp
    BY <1>4, <2>1, <2>2, <2>3 DEF MonitorInv, OneOwner
  <2>5. Tracks(head_monitor[j], mqs[names[head_monitor[j].client_name]])
    BY <2>1, <2>2 DEF MonitorInv, AllTrack, Exempt
  <2>6. QED
    BY <1>2, <1>3, <2>2, <2>3, <2>4, <2>5
<1>8. Between'
  BY <1>1 DEF Between, Exempt
<1>9. QED
  BY <1>5, <1>6, <1>7, <1>8 DEF MonitorInv

\* The server opens the queue of a client: the one under its name now.
LEMMA OpeningKeeps ==
  ASSUME TypeInv, TypeInv', MonitorInv,
         \/ HandleSubcribe \/ HandleUnsubcribeAll \/ HandleUnsubcribe \/ LoopOpen
         \/ HandleSendTo \/ HandleConfigLog
  PROVE  MonitorInv'
<1> USE DEF lists, ownDescs
<1>1. /\ head_monitor' = head_monitor /\ names' = names /\ mqs' = mqs
      /\ server \in {"handle", "loop"}
  BY DEF HandleSubcribe, HandleUnsubcribeAll, HandleUnsubcribe, LoopOpen,
         HandleSendTo, HandleConfigLog
<1>2. CASE HandleUnsubcribeAll /\ server' = "delete"
  <2>1. mqd_tmp' = names[msg.source] /\ msg' = msg
    BY <1>2 DEF HandleUnsubcribeAll, Open
  <2>2. Target' = msg.source /\ Serving'
    BY <1>2, <2>1 DEF Target, Serving
  <2>3. QED
    BY <1>1, <1>2, <2>1, <2>2, QuietTracking
<1>3. CASE ~(HandleUnsubcribeAll /\ server' = "delete")
  <2>1. PICK c : /\ Open(c) /\ server' = "send" /\ call'.client_name = c
    <3>1. CASE HandleSubcribe \/ HandleUnsubcribe \/ HandleConfigLog
      BY <3>1 DEF HandleSubcribe, HandleUnsubcribe, HandleConfigLog, Respond, CallSend
    <3>2. CASE HandleUnsubcribeAll
      BY <1>3, <3>2 DEF HandleUnsubcribeAll, Respond, CallSend
    <3>3. CASE LoopOpen
      BY <3>3 DEF LoopOpen, CallSend
    <3>4. CASE HandleSendTo
      BY <3>4 DEF HandleSendTo, CallSend
    <3>5. QED
      BY <3>1, <3>2, <3>3, <3>4
  <2>2. Target' = c /\ Serving' /\ mqd_tmp' = names'[c]
    BY <1>1, <2>1 DEF Target, Serving, Open
  <2>3. QED
    BY <1>1, <2>1, <2>2, QuietTracking
<1>4. QED
  BY <1>2, <1>3

\* The rounds of the loops that delete rows, and the answer after the first of them.
LEMMA DeletingKeeps ==
  ASSUME TypeInv, TypeInv', MonitorInv, DeleteRow \/ DeleteDone \/ PurgeRow
  PROVE  MonitorInv'
<1>1. /\ head_monitor' = head_monitor /\ UNCHANGED <<names, mqs, mqd_tmp, msg>>
      /\ server \in {"delete", "purge"}
      /\ \/ server' = server /\ call' = call
         \/ server = "delete" /\ server' = "send" /\ call'.client_name = msg.source
  BY DEF DeleteRow, DeleteDone, PurgeRow, Respond, CallSend, kernelVars, lists
<1>2. Target' = Target /\ Serving /\ Serving'
  BY <1>1 DEF Target, Serving
<1>3. QED
  BY <1>1, <1>2, QuietTracking

\* The steps after which the server has no client queue open, and which leave the
\* queues of the clients as they are.
LEMMA IdleKeeps ==
  ASSUME TypeInv, TypeInv', QueueInv, QueueInv', MonitorInv,
         \/ ServerStart \/ Receive \/ HandleSend \/ LoopSkip \/ LoopDone \/ HandleIgnored
         \/ SendBad \/ Unlink
  PROVE  MonitorInv'
<1> USE DEF lists, ownDescs, kernelVars
<1>0. /\ names \in [Names -> QIds \cup {NoQ}] /\ Clients \subseteq Names
      /\ mqs \in [QIds -> Seq(Messages)] /\ SRV \notin Clients
  BY KernelAssumption DEF TypeInv, TypeOK, KernelTypeOK, Names
<1>1. /\ head_monitor' = head_monitor
      /\ server \notin {"evict", "overwrite"}
      /\ server' \in {"recv", "handle", "loop"}
  BY DEF ServerStart, Receive, HandleSend, LoopSkip, LoopDone, HandleIgnored, SendBad,
         Unlink, Return
<1>2. ~Serving' /\ mqd_tmp' = NoQ
  BY <1>1 DEF Serving, QueueInv, Opened
<1>3. ASSUME NEW c \in Clients, names'[c] # NoQ
      PROVE  names'[c] = names[c] /\ mqs'[names[c]] = mqs[names[c]]
  <2>1. CASE HandleSend \/ LoopSkip \/ LoopDone \/ HandleIgnored \/ SendBad
    BY <2>1 DEF HandleSend, LoopSkip, LoopDone, HandleIgnored, SendBad
  <2>2. CASE ServerStart
    <3>1. mqs' = mqs /\ (names' = names \/ names' = [names EXCEPT ![SRV] = mqd'])
      BY <2>2 DEF ServerStart
    <3>2. QED
      BY <1>0, <3>1
  <2>3. CASE Receive
    <3>1. names' = names /\ mqs' = Dequeue(mqd)
      BY <2>3 DEF Receive
    <3>2. names[c] \in QIds
      BY <1>0, <1>3, <3>1
    <3>3. names[c] # mqd
      BY <3>2 DEF QueueInv, Sides, ClientSide, ServerSide
    <3>4. QED
      BY <1>0, <3>1, <3>2, <3>3 DEF Dequeue
  <2>4. CASE Unlink
    <3>1. /\ SetQueues(mqs)
          /\ names' = [names EXCEPT ![call.client_name] = NoQ] \/ names' = names
      BY <2>4 DEF Unlink
    <3>2. names'[c] = names[c] /\ names[c] \in QIds
      BY <1>0, <1>3, <3>1
    <3>3. names'[c] \in Referenced'
      BY <1>0, <3>2 DEF Referenced
    <3>4. QED
      BY <3>1, <3>2, <3>3, AfterSetQueues
  <2>5. QED
    BY <2>1, <2>2, <2>3, <2>4
<1>4. QED
  BY <1>1, <1>2, <1>3, QuietTracking

\* The broker ends: its crash list is gone, and the queues of the clients stay.
LEMMA OutageKeeps ==
  ASSUME TypeInv, MonitorInv, ServerOutage
  PROVE  MonitorInv'
<1>1. /\ head_monitor' = <<>> /\ server' = "down" /\ mqd_tmp' = NoQ
      /\ names' = [names EXCEPT ![SRV] = NoQ] \/ names' = names
  BY DEF ServerOutage, ServerStop, ServerKill, ServerGone
<1>2. \A c \in Clients : names'[c] = names[c]
  BY <1>1, KernelAssumption DEF TypeInv, TypeOK, KernelTypeOK, Names
<1>3. QED
  BY <1>1, <1>2 DEF MonitorInv, OneOwner, Restarted, AllTrack, Between, Serving

LEMMA MonitorStep ==
  ASSUME TypeInv, TypeInv', QueueInv, QueueInv', MonitorInv, OneEach(head_monitor),
         [Next]_vars
  PROVE  MonitorInv'
<1>1. CASE UNCHANGED vars
  <2>1. UNCHANGED <<mqs, names, mqd_tmp, server, msg, call, head_monitor>>
    BY <1>1 DEF vars, kernelVars, serverVars
  <2>2. QED
    BY <2>1 DEF MonitorInv, OneOwner, Restarted, AllTrack, Between, Serving, Target, Exempt
<1>2. CASE ServerStart
  BY <1>2, IdleKeeps
<1>3. CASE ServerOutage
  BY <1>3, OutageKeeps
<1>4. CASE ServerStep
  BY <1>4, OpeningKeeps, DeletingKeeps, IdleKeeps, ForgetSteps, EmptyStep, OverwriteStep,
     FullStep, EvictStep, CrashedStep DEF ServerStep
<1>5. ASSUME NEW c \in Clients, ClientStep(c)
      PROVE  MonitorInv'
  BY <1>5, ClientKeepsMonitor
<1>6. QED
  BY <1>1, <1>2, <1>3, <1>4, <1>5 DEF Next

---------------------------------------------------------------------------
(* The theorem about the crash test.                                       *)

\* The four parts of MonitorInv hold along every behaviour.  The statement about
\* the crash test is not inductive by itself: within the handler the count is ahead
\* of the queue (Between), no other client may share the queue (OneOwner), and a
\* queue created under the name meanwhile has to be empty (Restarted).
THEOREM MonitorInvariant == Spec => []MonitorInv
<1>1. Init => MonitorInv
  <2>1. ASSUME Init
        PROVE  MonitorInv
    <3>1. /\ server = "down" /\ head_monitor = <<>> /\ mqd_tmp = NoQ
          /\ \A c \in Clients : names[c] = NoQ
      BY <2>1 DEF Init, KernelInit, ServerInit, Names
    <3>2. QED
      BY <3>1 DEF MonitorInv, OneOwner, Restarted, AllTrack, Between, Serving
  <2>2. QED
    BY <2>1
<1>2. OneMonitorEntryPerClient => OneEach(head_monitor)
  BY DEF OneMonitorEntryPerClient, OneEach
<1>3. /\ TypeInv /\ TypeInv' /\ QueueInv /\ QueueInv' /\ OneMonitorEntryPerClient
      /\ MonitorInv /\ [Next]_vars
      => MonitorInv'
  BY <1>2, MonitorStep
<1>4. QED
  BY <1>1, <1>3, TypeInvariant, QueueInvariant, OnePayloadPerClient, PTL DEF Spec

\* The crash test looks at the right message: while the queue of a monitored client
\* is full, its count tells where in the queue the stored message is, across all
\* restarts of clients and broker.
THEOREM MonitorTracks == Spec => []MonitorTracksQueue
<1>1. MonitorInv => MonitorTracksQueue
  <2>1. ASSUME MonitorInv
        PROVE  MonitorTracksQueue
    BY <2>1 DEF MonitorInv, AllTrack, Tracks, Exempt, MonitorTracksQueue, HasRoom
  <2>2. QED
    BY <2>1
<1>2. QED
  BY <1>1, MonitorInvariant, PTL

---------------------------------------------------------------------------
(* The loop of a SEND: whom it has reached when it ends.                   *)

\* The broker is between the first and the last round of the loop of a SEND.
InSend == /\ server \in {"loop", "send", "evict", "overwrite", "purge"}
          /\ msg.tag = "SEND"

\* Row i is there and belongs to client c.
RowOf(i, c) == HasIndex(head_client, i) /\ Row(head_client, i).client_name = c

\* Client c has nothing to read: its queue has no name, or is empty.
Excused(c) == names[c] = NoQ \/ mqs[names[c]] = <<>>

\* The message for client c is on its way.
InHand(c) == server \in {"send", "evict", "overwrite"} /\ call.client_name = c

\* Every client that should get the message has it, or its turn is now, or it has
\* nothing to read, or it has a row whose number the loop still holds.
Pending ==
  \A c \in targets \ {msg.source} :
    c \in reached \/ InHand(c) \/ Excused(c) \/ \E i \in index_gr : RowOf(i, c)

\* The message is for clients that should get it only.
OnlyTargets ==
  /\ reached \subseteq targets \ {msg.source}
  /\ server # "loop" => call.client_name \in targets \ {msg.source}

\* The numbers the loop holds are those of rows of such clients.
RowsOfTargets == \A i \in index_gr : HasIndex(head_client, i) => Row(head_client, i).client_name \in targets

\* A SEND to ALL holds a number and all below it, and every row is one of its own:
\* a row that a purge moves down is still met.
AllBelow ==
  /\ \A i \in index_gr : \A j \in 0 .. i : j \in index_gr
  /\ \A i \in Indexes(head_client) : Row(head_client, i).client_name \in targets

\* A purge within the loop drops a client that has the message, or nothing to read.
DroppedHasIt ==
  server = "purge" => call.client_name \in reached \/ Excused(call.client_name)

DeliveryInv ==
  /\ server = "loop" => msg.tag = "SEND"
  /\ server = "delete" => msg.tag = "UNSUBCRIBE"
  /\ ~InSend => reached = {}
  /\ InSend => /\ server # "loop" => call.msg.tag = "SEND"
               /\ DroppedHasIt
               /\ msg.topic = ALL => OnlyTargets /\ Pending /\ AllBelow
               /\ msg.topic # ALL /\ targets \cap purged = {} =>
                    OnlyTargets /\ (server # "purge" => Pending /\ RowsOfTargets)

---------------------------------------------------------------------------
(* Lemmas about one step.                                                  *)

\* A step outside the loop that stays outside.
LEMMA OutsideStep ==
  ASSUME DeliveryInv, ~InSend, ~InSend', reached' = reached,
         server' # "loop", server' = "delete" => (msg.tag = "UNSUBCRIBE")'
  PROVE  DeliveryInv'
BY DEF DeliveryInv

\* A client that has nothing to read still has nothing, when a step of the server
\* changes no queue but the one it has open, and adds to that one for a client
\* it then counts as reached.
LEMMA ServerExcuses ==
  ASSUME TypeInv, MonitorInv, UNCHANGED names,
         server \in {"send", "evict", "overwrite", "purge"},
         \A q \in QIds : q # mqd_tmp => mqs'[q] \in {mqs[q], <<>>},
         NEW c \in Clients, Excused(c),
         c = call.client_name /\ names[c] = mqd_tmp => Excused(c)'
  PROVE  Excused(c)'
<1>1. names[c] \in QIds \cup {NoQ}
  BY DEF TypeInv, TypeOK, KernelTypeOK, Names
<1>2. Target = call.client_name
  BY DEF Target
<1>3. CASE names[c] = NoQ
  BY <1>3 DEF Excused
<1>4. CASE names[c] # NoQ /\ names[c] = mqd_tmp
  BY <1>2, <1>4 DEF MonitorInv, OneOwner
<1>5. CASE names[c] # NoQ /\ names[c] # mqd_tmp
  BY <1>1, <1>5 DEF Excused
<1>6. QED
  BY <1>3, <1>4, <1>5

\* A client whose queue is not the one the server has open for it has nothing to read.
LEMMA OrphanExcused ==
  ASSUME MonitorInv, server \in {"send", "evict", "overwrite", "purge"},
         names[call.client_name] # mqd_tmp
  PROVE  Excused(call.client_name)
BY DEF MonitorInv, Restarted, Serving, Target, Excused

\* A step of cms_server_send within the loop that goes on, or ends with the client
\* reached or with nothing to read.
LEMMA InsideStep ==
  ASSUME TypeInv, DeliveryInv, InSend, server \in {"send", "evict", "overwrite"},
         UNCHANGED <<head_client, msg, index_gr, targets, purged>>,
         server' \in {"loop", "evict", "overwrite", "purge"},
         NEW d \in Clients, call.client_name = d,
         server' # "loop" => call'.client_name = d /\ call'.msg = call.msg,
         reached \subseteq reached', reached' \subseteq reached \cup {d},
         server' \in {"loop", "purge"} => d \in reached' \/ Excused(d)',
         \A c \in Clients : Excused(c) => c \in reached' \/ Excused(c)'
  PROVE  DeliveryInv'
<1>1. InSend' /\ msg.tag = "SEND"
  BY DEF InSend
<1>2. targets \subseteq Clients
  BY DEF TypeInv, TypeOK, ServerTypeOK
<1>3. (OnlyTargets => OnlyTargets') /\ (AllBelow' <=> AllBelow) /\ (RowsOfTargets' <=> RowsOfTargets)
  BY DEF OnlyTargets, AllBelow, RowsOfTargets
<1>4. Pending => Pending'
  <2> SUFFICES ASSUME Pending, NEW c \in targets \ {msg.source}
               PROVE  \/ c \in reached' \/ InHand(c)' \/ Excused(c)'
                      \/ \E i \in index_gr : RowOf(i, c)'
    BY DEF Pending
  <2>1. CASE c \in reached
    BY <2>1
  <2>2. CASE InHand(c)
    BY <2>2 DEF InHand
  <2>3. CASE Excused(c)
    BY <1>2, <2>3
  <2>4. CASE \E i \in index_gr : RowOf(i, c)
    BY <2>4 DEF RowOf
  <2>5. QED
    BY <2>1, <2>2, <2>3, <2>4 DEF Pending
<1>5. DroppedHasIt'
  BY DEF DroppedHasIt
<1>6. QED
  BY <1>1, <1>3, <1>4, <1>5 DEF DeliveryInv

\* Every message but a SEND is handled without the loop.
LEMMA OtherMessages ==
  ASSUME DeliveryInv,
         \/ Receive \/ HandleSubcribe \/ HandleUnsubcribeAll \/ DeleteRow \/ DeleteDone
         \/ HandleUnsubcribe \/ HandleSendTo \/ HandleConfigLog \/ HandleIgnored
  PROVE  DeliveryInv'
<1> USE DEF loopVars
<1>1. CASE Receive
  <2>1. server = "recv" /\ server' = "handle" /\ reached' = reached
    BY <1>1 DEF Receive
  <2>2. QED
    BY <2>1, OutsideStep DEF InSend
<1>2. CASE HandleSubcribe \/ HandleUnsubcribe \/ HandleSendTo \/ HandleConfigLog
  <2>1. server = "handle" /\ server' = "send" /\ reached' = reached /\ msg' = msg
        /\ msg.tag # "SEND"
    BY <1>2 DEF HandleSubcribe, HandleUnsubcribe, HandleSendTo, HandleConfigLog, Respond,
       CallSend
  <2>2. QED
    BY <2>1, OutsideStep DEF InSend
<1>3. CASE HandleUnsubcribeAll
  <2>1. server = "handle" /\ server' \in {"send", "delete"} /\ reached' = reached
        /\ msg' = msg /\ msg.tag = "UNSUBCRIBE"
    BY <1>3 DEF HandleUnsubcribeAll, Respond, CallSend
  <2>2. QED
    BY <2>1, OutsideStep DEF InSend
<1>4. CASE DeleteRow \/ DeleteDone
  <2>1. server = "delete" /\ server' \in {"send", "delete"} /\ reached' = reached
        /\ msg' = msg
    BY <1>4 DEF DeleteRow, DeleteDone, Respond, CallSend
  <2>2. msg.tag = "UNSUBCRIBE"
    BY <2>1 DEF DeliveryInv
  <2>3. QED
    BY <2>1, <2>2, OutsideStep DEF InSend
<1>5. CASE HandleIgnored
  <2>1. server = "handle" /\ server' = "recv" /\ reached' = reached
    BY <1>5 DEF HandleIgnored
  <2>2. QED
    BY <2>1, OutsideStep DEF InSend
<1>6. QED
  BY <1>1, <1>2, <1>3, <1>4, <1>5

\* The loop begins with all rows of the destination and has reached nobody.
LEMMA LoopBegins ==
  ASSUME TypeInv, DeliveryInv, HandleSend
  PROVE  DeliveryInv'
<1>1. /\ server = "handle" /\ server' = "loop" /\ msg.tag = "SEND"
      /\ UNCHANGED <<head_client, msg, reached, call, purged>>
      /\ targets' = {Row(head_client, i).client_name : i \in index_gr'}
  BY DEF HandleSend, lists, purgeVars
<1>2. index_gr' \subseteq Indexes(head_client) /\ Len(head_client) \in Nat
  BY DEF HandleSend, get_index_by_topic, TypeInv, TypeOK, ServerTypeOK
<1>3. msg.topic = ALL => index_gr' = Indexes(head_client)
  BY DEF HandleSend
<1>4. reached' = {}
  BY <1>1 DEF DeliveryInv, InSend
<1>5. OnlyTargets' /\ RowsOfTargets'
  BY <1>1, <1>4 DEF OnlyTargets, RowsOfTargets
<1>6. Pending'
  <2>1. ASSUME NEW c \in targets'
        PROVE  \E i \in index_gr' : RowOf(i, c)'
    <3>1. PICK i \in index_gr' : Row(head_client, i).client_name = c
      BY <1>1, <2>1
    <3>2. HasIndex(head_client, i)
      BY <1>2, <3>1 DEF HasIndex, Indexes
    <3>3. QED
      BY <1>1, <3>1, <3>2 DEF RowOf
  <2>2. QED
    BY <2>1 DEF Pending
<1>7. msg.topic = ALL => AllBelow'
  BY <1>1, <1>2, <1>3 DEF AllBelow, Indexes
<1>8. DroppedHasIt' /\ InSend'
  BY <1>1 DEF DroppedHasIt, InSend
<1>9. QED
  BY <1>1, <1>5, <1>6, <1>7, <1>8 DEF DeliveryInv

\* One round that sends nothing gives up the row of nobody, or of the sender.
LEMMA SkipRound ==
  ASSUME TypeInv, DeliveryInv, LoopSkip
  PROVE  DeliveryInv'
<1>1. PICK i \in index_gr :
        /\ IsLast(i, index_gr)
        /\ HasIndex(head_client, i) => Row(head_client, i).client_name = msg.source
        /\ index_gr' = index_gr \ {i}
  BY DEF LoopSkip
<1>2. /\ server = "loop" /\ InSend /\ InSend' /\ server' = "loop" /\ msg.tag = "SEND"
      /\ UNCHANGED <<head_client, msg, targets, reached, purged, names, mqs>>
  BY DEF LoopSkip, lists, purgeVars, kernelVars, DeliveryInv, InSend
<1>3. index_gr \subseteq Nat
  BY DEF TypeInv, TypeOK, ServerTypeOK
<1>4. Pending => Pending'
  BY <1>1, <1>2 DEF Pending, RowOf, InHand, Excused
<1>5. (OnlyTargets => OnlyTargets') /\ (RowsOfTargets => RowsOfTargets') /\ DroppedHasIt'
  BY <1>1, <1>2 DEF OnlyTargets, RowsOfTargets, DroppedHasIt
<1>6. ASSUME AllBelow
      PROVE  AllBelow'
  <2>1. ASSUME NEW k \in index_gr', NEW j \in 0 .. k
        PROVE  j \in index_gr'
    <3>1. k \in index_gr /\ k # i /\ k <= i /\ k \in Nat /\ i \in Nat
      BY <1>1, <1>3, <2>1 DEF IsLast
    <3>2. j \in index_gr /\ j # i
      BY <1>6, <2>1, <3>1 DEF AllBelow
    <3>3. QED
      BY <1>1, <3>2
  <2>2. QED
    BY <1>2, <1>6, <2>1 DEF AllBelow
<1>7. QED
  BY <1>2, <1>4, <1>5, <1>6 DEF DeliveryInv

\* One round that opens a queue gives up the row of the client it works for next.
LEMMA OpenRound ==
  ASSUME TypeInv, DeliveryInv, LoopOpen
  PROVE  DeliveryInv'
<1>1. PICK i \in index_gr :
        /\ IsLast(i, index_gr)
        /\ HasIndex(head_client, i)
        /\ Row(head_client, i).client_name # msg.source
        /\ CallSend(msg, Row(head_client, i).client_name)
        /\ index_gr' = index_gr \ {i}
  BY DEF LoopOpen
<1> DEFINE c == Row(head_client, i).client_name
<1>2. call'.client_name = c /\ call'.msg = msg /\ server' = "send" /\ c # msg.source
  BY <1>1 DEF CallSend
<1> HIDE DEF c
<1>3. /\ server = "loop" /\ InSend /\ InSend' /\ msg.tag = "SEND"
      /\ UNCHANGED <<head_client, msg, targets, reached, purged, names, mqs>>
  BY <1>2 DEF LoopOpen, lists, purgeVars, DeliveryInv, InSend
<1>4. index_gr \subseteq Nat /\ Len(head_client) \in Nat
  BY DEF TypeInv, TypeOK, ServerTypeOK
<1>5. Pending => Pending'
  <2>1. \A d : RowOf(i, d) => d = c
    BY DEF RowOf, c
  <2>2. \A d : d = c => InHand(d)'
    BY <1>2 DEF InHand
  <2>3. \A d : ~InHand(d) /\ (Excused(d) => Excused(d)')
    BY <1>3 DEF InHand, Excused
  <2>4. \A d : \A k \in index_gr :
          RowOf(k, d) => k = i \/ (k \in index_gr' /\ RowOf(k, d)')
    BY <1>1, <1>3 DEF RowOf
  <2>5. QED
    BY <1>3, <2>1, <2>2, <2>3, <2>4 DEF Pending
<1>6. (OnlyTargets /\ c \in targets => OnlyTargets') /\ (RowsOfTargets => RowsOfTargets')
      /\ DroppedHasIt'
  BY <1>1, <1>2, <1>3 DEF OnlyTargets, RowsOfTargets, DroppedHasIt
<1>7. RowsOfTargets => c \in targets
  BY <1>1 DEF RowsOfTargets, c
<1>8. AllBelow => AllBelow' /\ c \in targets
  <2>1. i \in Indexes(head_client)
    BY <1>1, <1>4 DEF HasIndex, Indexes
  <2>2. QED
    BY <1>1, <1>3, <1>4, <2>1 DEF AllBelow, IsLast, c
<1>9. QED
  BY <1>2, <1>3, <1>5, <1>6, <1>7, <1>8 DEF DeliveryInv

\* mq_send puts the message in the queue the server has open: the client has it, or
\* its name refers to another queue, which is empty.
LEMMA AddRound ==
  ASSUME TypeInv, MonitorInv, DeliveryInv, InSend, SendOk \/ Overwrite \/ OverwriteCrashed
  PROVE  DeliveryInv'
<1> USE DEF ownDescs, lists, purgeVars
<1>0. PICK c \in Clients : call.client_name = c
  BY DEF SendOk, Overwrite, OverwriteCrashed, TypeInv, LocalsReady
<1>1. /\ server \in {"send", "overwrite"} /\ Reaches
      /\ UNCHANGED <<head_client, purged, names>>
      /\ Return \/ (server' = "purge" /\ UNCHANGED <<msg, call>>)
  BY DEF SendOk, Overwrite, OverwriteCrashed
<1>2. msg.tag = "SEND" /\ msg' = msg /\ server' \in {"loop", "purge"}
      /\ (server' = "purge" => call' = call)
  BY <1>1 DEF InSend, Return
<1>3. /\ UNCHANGED <<index_gr, targets>> /\ reached \subseteq reached'
      /\ reached' \subseteq reached \cup {c}
      /\ names[c] = mqd_tmp => c \in reached'
  BY <1>0, <1>1, <1>2 DEF Reaches
<1>4. \A q \in QIds : q # mqd_tmp => mqs'[q] \in {mqs[q], <<>>}
  <2>1. \A q \in QIds : q # mqd_tmp => Enqueue(mqd_tmp, call.msg)[q] = mqs[q]
    BY DEF Enqueue, TypeInv, TypeOK, KernelTypeOK
  <2>2. SetQueues(Enqueue(mqd_tmp, call.msg)) \/ mqs' = Enqueue(mqd_tmp, call.msg)
    BY DEF SendOk, Overwrite, OverwriteCrashed
  <2> DEFINE content == Enqueue(mqd_tmp, call.msg)
  <2> HIDE DEF content
  <2>3. SetQueues(content) => \A q \in QIds : mqs'[q] = content[q] \/ mqs'[q] = <<>>
    BY AfterSetQueues
  <2>4. QED
    BY <2>1, <2>2, <2>3 DEF content
<1>5. \A d \in Clients : Excused(d) => d \in reached' \/ Excused(d)'
  <2>1. ASSUME NEW d \in Clients, Excused(d), d \notin reached'
        PROVE  Excused(d)'
    <3>1. ~(d = call.client_name /\ names[d] = mqd_tmp)
      BY <1>0, <1>3, <2>1
    <3>2. server \in {"send", "evict", "overwrite", "purge"} /\ UNCHANGED names
      BY <1>1
    <3>3. QED
      BY <1>4, <2>1, <3>1, <3>2, ServerExcuses
  <2>2. QED
    BY <2>1
<1>6. c \in reached' \/ Excused(c)'
  <2>1. names[c] # mqd_tmp => Excused(c)
    BY <1>0, <1>1, OrphanExcused
  <2>2. QED
    BY <1>3, <1>5, <2>1
<1>7. QED
  BY <1>0, <1>1, <1>2, <1>3, <1>5, <1>6, InsideStep

\* The steps of cms_server_send that put the message nowhere: the queue is found
\* full, gives up its oldest message, is gone, or was emptied by the client.
LEMMA OtherRounds ==
  ASSUME TypeInv, MonitorInv, DeliveryInv, InSend, SendBad \/ SendFull \/ Evict \/ EvictEmpty
  PROVE  DeliveryInv'
<1> USE DEF ownDescs, lists, purgeVars, loopVars, kernelVars
<1>0. PICK c \in Clients : call.client_name = c
  BY DEF SendBad, SendFull, Evict, EvictEmpty, TypeInv, LocalsReady
<1>1. /\ server \in {"send", "evict"}
      /\ UNCHANGED <<head_client, index_gr, targets, reached, purged, names>>
      /\ \/ Return /\ (SendBad \/ EvictEmpty)
         \/ /\ server' \in {"evict", "overwrite"} /\ msg' = msg
            /\ call'.client_name = c /\ call'.msg = call.msg
  BY <1>0 DEF SendBad, SendFull, Evict, EvictEmpty, TypeInv, TypeOK, ServerTypeOK, Calls
<1>2. msg.tag = "SEND" /\ msg' = msg /\ server' \in {"loop", "evict", "overwrite"}
      /\ (server' = "loop" => SendBad \/ EvictEmpty)
      /\ (server' # "loop" => call'.client_name = c /\ call'.msg = call.msg)
  BY <1>1 DEF InSend, Return
<1>3. \A q \in QIds : q # mqd_tmp => mqs'[q] \in {mqs[q], <<>>}
  <2>1. CASE SendBad \/ SendFull
    BY <2>1 DEF SendBad, SendFull
  <2>2. CASE Evict
    BY <2>2 DEF Evict, Dequeue, TypeInv, TypeOK, KernelTypeOK
  <2>3. CASE EvictEmpty
    BY <2>3, AfterSetQueues DEF EvictEmpty
  <2>4. QED
    BY <2>1, <2>2, <2>3
<1>4. names[c] \in QIds \cup {NoQ}
  BY DEF TypeInv, TypeOK, KernelTypeOK, Names
<1>5. Excused(c) /\ names[c] = mqd_tmp => Excused(c)'
  <2>1. CASE SendBad \/ SendFull
    BY <1>1, <2>1 DEF SendBad, SendFull, Excused
  <2>2. CASE Evict
    BY <1>1, <2>2 DEF Evict, Excused
  <2>3. CASE EvictEmpty
    <3>1. \A q \in QIds : mqs'[q] = mqs[q] \/ mqs'[q] = <<>>
      BY <2>3, AfterSetQueues DEF EvictEmpty
    <3>2. QED
      BY <1>1, <1>4, <3>1 DEF Excused
  <2>4. QED
    BY <2>1, <2>2, <2>3
<1>6. \A d \in Clients : Excused(d) => Excused(d)'
  <2>1. server \in {"send", "evict", "overwrite", "purge"} /\ UNCHANGED names
    BY <1>1
  <2>2. QED
    BY <1>0, <1>3, <1>5, <2>1, ServerExcuses
<1>7. SendBad \/ EvictEmpty => Excused(c)'
  <2>1. names[c] # mqd_tmp => Excused(c)
    BY <1>0, <1>1, OrphanExcused
  <2>2. SendBad \/ EvictEmpty => (names[c] = mqd_tmp => Excused(c))
    BY DEF SendBad, EvictEmpty, Excused
  <2>3. QED
    BY <1>4, <1>6, <2>1, <2>2
<1>8. QED
  BY <1>0, <1>1, <1>2, <1>6, <1>7, InsideStep

\* cms_server_send for any message but that of a SEND.
LEMMA OutsideSends ==
  ASSUME TypeInv, DeliveryInv, ~InSend,
         \/ SendOk \/ SendBad \/ SendFull \/ Evict \/ EvictEmpty \/ Overwrite
         \/ OverwriteCrashedAnswer \/ OverwriteCrashed \/ Unlink
  PROVE  DeliveryInv'
<1> USE DEF loopVars
<1>1. /\ server \in {"send", "evict", "overwrite", "purge"}
      /\ reached' = reached \/ Reaches
      /\ Return \/ (server' \in {"evict", "overwrite", "purge"} /\ msg' = msg)
  BY DEF SendOk, SendBad, SendFull, Evict, EvictEmpty, Overwrite, OverwriteCrashedAnswer,
     OverwriteCrashed, Unlink
<1>2. msg.tag # "SEND"
  BY <1>1 DEF InSend
<1>3. reached' = reached
  BY <1>1, <1>2 DEF Reaches
<1>4. server' \in {"recv", "evict", "overwrite", "purge"} /\ (server' # "recv" => msg' = msg)
  BY <1>1, <1>2 DEF Return
<1>5. ~InSend'
  BY <1>2, <1>4 DEF InSend
<1>6. QED
  BY <1>3, <1>4, <1>5, OutsideStep

\* A purge within the loop ends: its client has nothing to read from now on, or the
\* message.
LEMMA PurgeEnds ==
  ASSUME TypeInv, MonitorInv, DeliveryInv, InSend, Unlink
  PROVE  DeliveryInv'
<1> USE DEF loopVars, lists
<1> DEFINE d == call.client_name
<1>1. /\ server = "purge" /\ purged' = purged \cup {d} /\ Return /\ SetQueues(mqs)
      /\ UNCHANGED <<head_client, index_gr, targets, reached>>
      /\ names' = [names EXCEPT ![d] = NoQ] \/ names' = names
  BY DEF Unlink
<1>2. msg' = msg /\ server' = "loop" /\ InSend' /\ msg.tag = "SEND"
  BY <1>1 DEF Return, InSend
<1>3. /\ names \in [Names -> QIds \cup {NoQ}] /\ Clients \subseteq Names
      /\ targets \subseteq Clients /\ d \in Clients
  BY <1>1 DEF TypeInv, TypeOK, KernelTypeOK, ServerTypeOK, LocalsReady, Names
<1> HIDE DEF d
<1>4. \A c \in Clients : Excused(c) => Excused(c)'
  <2>1. ASSUME NEW c \in Clients, Excused(c), names'[c] # NoQ
        PROVE  mqs'[names'[c]] = <<>>
    <3>1. names'[c] = names[c] /\ names[c] \in QIds
      BY <1>1, <1>3, <2>1
    <3>2. QED
      BY <1>1, <2>1, <3>1, AfterSetQueues DEF Excused
  <2>2. QED
    BY <2>1 DEF Excused
<1>5. (OnlyTargets => OnlyTargets') /\ (AllBelow' <=> AllBelow) /\ DroppedHasIt'
  BY <1>1, <1>2 DEF OnlyTargets, AllBelow, DroppedHasIt
<1>6. Pending => Pending'
  <2>1. \A c : ~InHand(c)
    BY <1>1 DEF InHand
  <2>2. \A i, c : RowOf(i, c)' <=> RowOf(i, c)
    BY <1>1 DEF RowOf
  <2>3. QED
    BY <1>1, <1>2, <1>3, <1>4, <2>1, <2>2 DEF Pending
<1>7. OnlyTargets => targets' \cap purged' # {}
  BY <1>1 DEF OnlyTargets, d
<1>8. targets \cap purged # {} => targets' \cap purged' # {}
  BY <1>1
<1>9. QED
  BY <1>2, <1>5, <1>6, <1>7, <1>8 DEF DeliveryInv

\* A purge deletes rows of a client that has the message or nothing to read, and
\* moves the others down at most, where a SEND to ALL still meets them.
LEMMA PurgeRound ==
  ASSUME TypeInv, RowsInv, DeliveryInv, PurgeRow
  PROVE  DeliveryInv'
<1> USE DEF loopVars, kernelVars
<1>1. PICK i \in crash_gr : head_client' = delete_client(head_client, i)
  BY DEF PurgeRow
<1>2. /\ server = "purge" /\ server' = "purge"
      /\ UNCHANGED <<index_gr, targets, reached, purged, msg, call, names, mqs>>
  BY DEF PurgeRow
<1>3. /\ head_client \in Seq(Rows) /\ Len(head_client) \in Nat
      /\ index_gr \subseteq Nat
  BY DEF TypeInv, TypeOK, ServerTypeOK
<1>4. crash_gr = get_index_by_name(head_client, call.client_name)
  BY <1>2 DEF RowsInv, DeleteIndexesFresh
<1>5. /\ i \in Nat /\ i < Len(head_client)
      /\ Row(head_client, i).client_name = call.client_name
  BY <1>3, <1>4 DEF get_index_by_name, Indexes
<1>6. /\ Len(head_client') = Len(head_client) - 1
      /\ \A k \in 1 .. Len(head_client) - 1 :
           head_client'[k] = IF k <= i THEN head_client[k] ELSE head_client[k + 1]
  BY <1>1, <1>3, <1>5, DeleteClientRows
<1>7. InSend' <=> InSend
  BY <1>2 DEF InSend
<1>8. CASE ~InSend
  BY <1>2, <1>7, <1>8, OutsideStep
<1>9. CASE InSend
  <2>1. (OnlyTargets => OnlyTargets') /\ (DroppedHasIt' <=> DroppedHasIt)
        /\ \A c : (Excused(c)' <=> Excused(c)) /\ ~InHand(c)
    BY <1>2 DEF OnlyTargets, DroppedHasIt, Excused, InHand
  <2>2. ASSUME AllBelow
        PROVE  AllBelow'
    <3>1. ASSUME NEW j \in Indexes(head_client')
          PROVE  Row(head_client', j).client_name \in targets
      <4>1. j \in 0 .. Len(head_client) - 2
        BY <1>3, <1>6 DEF Indexes
      <4>2. Row(head_client', j) = IF j < i THEN Row(head_client, j) ELSE Row(head_client, j + 1)
        BY <1>3, <1>5, <1>6, <4>1 DEF Row
      <4>3. j \in Indexes(head_client) /\ j + 1 \in Indexes(head_client)
        BY <1>3, <4>1 DEF Indexes
      <4>4. QED
        BY <2>2, <4>2, <4>3 DEF AllBelow
    <3>2. QED
      BY <1>2, <2>2, <3>1 DEF AllBelow
  <2>3. ASSUME AllBelow, Pending
        PROVE  Pending'
    <3>1. ASSUME NEW c \in targets \ {msg.source}, c \notin reached, ~Excused(c)
          PROVE  \E k \in index_gr : RowOf(k, c)'
      <4>1. PICK k \in index_gr : RowOf(k, c)
        BY <2>1, <2>3, <3>1 DEF Pending
      <4>2. k \in Nat /\ k < Len(head_client) /\ Row(head_client, k).client_name = c
        BY <1>3, <4>1 DEF RowOf, HasIndex
      <4>3. k # i
        BY <1>2, <1>5, <1>9, <3>1, <4>2 DEF DeliveryInv, DroppedHasIt
      <4>4. CASE k < i
        <5>1. Row(head_client', k) = Row(head_client, k) /\ k < Len(head_client')
          BY <1>3, <1>5, <1>6, <4>2, <4>4 DEF Row
        <5>2. QED
          BY <4>2, <5>1 DEF RowOf, HasIndex
      <4>5. CASE k > i
        <5>1. Row(head_client', k - 1) = Row(head_client, k) /\ k - 1 < Len(head_client')
          BY <1>3, <1>5, <1>6, <4>2, <4>5 DEF Row
        <5>2. k - 1 \in index_gr
          BY <1>5, <2>3, <4>2, <4>5 DEF AllBelow
        <5>3. QED
          BY <4>2, <5>1, <5>2 DEF RowOf, HasIndex
      <4>6. QED
        BY <1>5, <4>2, <4>3, <4>4, <4>5
    <3>2. QED
      BY <1>2, <2>1, <3>1 DEF Pending
  <2>4. msg.tag = "SEND"
    BY <1>9 DEF InSend
  <2>5. QED
    BY <1>2, <1>7, <1>9, <2>1, <2>2, <2>3, <2>4 DEF DeliveryInv
<1>10. QED
  BY <1>8, <1>9

\* A client may read, end or start again within the loop: what is excused stays so,
\* for a queue it creates is empty.
LEMMA ClientKeepsDelivery ==
  ASSUME TypeInv, QueueInv, DeliveryInv, NEW c \in Clients, ClientStep(c)
  PROVE  DeliveryInv'
<1>1. UNCHANGED serverVars
  BY DEF ClientStep, Start, Call, Send, Await, Take, Gone, Close, Crash
<1>2. /\ names \in [Names -> QIds \cup {NoQ}] /\ Clients \subseteq Names
      /\ targets \subseteq Clients
      /\ server = "purge" => call.client_name \in Clients
  BY DEF TypeInv, TypeOK, KernelTypeOK, ServerTypeOK, LocalsReady, Names
<1>3. /\ \A d \in Clients : names'[d] \in {names[d], NoQ} \cup Creatable
      /\ \A d \in Clients : names'[d] # NoQ =>
           names'[d] \in QIds /\ Shrinks(mqs[names'[d]], mqs'[names'[d]])
  BY ClientEffect
<1>4. ASSUME NEW d \in Clients, Excused(d), names'[d] # NoQ
      PROVE  mqs'[names'[d]] = <<>>
  <2>1. mqs[names'[d]] = <<>>
    <3>1. CASE names'[d] = names[d]
      BY <1>4, <3>1 DEF Excused
    <3>2. CASE names'[d] \in Creatable
      BY <3>2 DEF QueueInv, NewAreEmpty
    <3>3. QED
      BY <1>3, <1>4, <3>1, <3>2
  <2>2. QED
    BY <1>3, <1>4, <2>1 DEF Shrinks
<1>5. \A d \in Clients : Excused(d) => Excused(d)'
  BY <1>4 DEF Excused
<1>6. /\ InSend' <=> InSend
      /\ OnlyTargets' <=> OnlyTargets
      /\ AllBelow' <=> AllBelow
      /\ RowsOfTargets' <=> RowsOfTargets
      /\ DroppedHasIt => DroppedHasIt'
  BY <1>1, <1>2, <1>5 DEF serverVars, InSend, OnlyTargets, AllBelow, RowsOfTargets, DroppedHasIt
<1>7. Pending => Pending'
  <2>1. \A d : (InHand(d)' <=> InHand(d)) /\ \A i : RowOf(i, d)' <=> RowOf(i, d)
    BY <1>1 DEF serverVars, InHand, RowOf
  <2>2. UNCHANGED <<targets, msg, reached, index_gr>>
    BY <1>1 DEF serverVars
  <2>3. QED
    BY <1>2, <1>5, <2>1, <2>2 DEF Pending
<1>8. UNCHANGED <<server, msg, call, reached, targets, purged>>
  BY <1>1 DEF serverVars
<1>9. QED
  BY <1>6, <1>7, <1>8 DEF DeliveryInv

---------------------------------------------------------------------------
(* The theorem about the loop of a SEND.                                   *)

\* Every step of the system keeps DeliveryInv.
LEMMA DeliveryStep ==
  ASSUME TypeInv, QueueInv, RowsInv, MonitorInv, DeliveryInv, [Next]_vars
  PROVE  DeliveryInv'
<1>1. CASE UNCHANGED vars
  BY <1>1 DEF vars, serverVars, kernelVars, DeliveryInv, InSend, OnlyTargets, Pending, RowOf,
     AllBelow, RowsOfTargets, DroppedHasIt, InHand, Excused
<1>2. ASSUME NEW c \in Clients, ClientStep(c)
      PROVE  DeliveryInv'
  BY <1>2, ClientKeepsDelivery
<1>3. CASE ServerStart
  <2>1. server = "down" /\ server' = "recv" /\ reached' = reached
    BY <1>3 DEF ServerStart, loopVars
  <2>2. QED
    BY <2>1, OutsideStep DEF InSend
<1>4. CASE ServerOutage
  <2>1. server' = "down" /\ reached' = {}
    BY <1>4 DEF ServerOutage, ServerStop, ServerKill, ServerGone
  <2>2. QED
    BY <2>1 DEF DeliveryInv, InSend
<1>5. CASE LoopDone
  <2>1. server' = "recv" /\ reached' = {}
    BY <1>5 DEF LoopDone
  <2>2. QED
    BY <2>1 DEF DeliveryInv, InSend
<1>6. CASE InSend /\ OverwriteCrashedAnswer
  BY <1>6 DEF OverwriteCrashedAnswer, DeliveryInv
<1>7. CASE \/ Receive \/ HandleSubcribe \/ HandleUnsubcribeAll \/ DeleteRow \/ DeleteDone
           \/ HandleUnsubcribe \/ HandleSendTo \/ HandleConfigLog \/ HandleIgnored
  BY <1>7, OtherMessages
<1>8. CASE HandleSend \/ LoopSkip \/ LoopOpen \/ PurgeRow
  BY <1>8, LoopBegins, SkipRound, OpenRound, PurgeRound
<1>9. CASE \/ SendOk \/ SendBad \/ SendFull \/ Evict \/ EvictEmpty \/ Overwrite
           \/ OverwriteCrashedAnswer \/ OverwriteCrashed \/ Unlink
  BY <1>6, <1>9, AddRound, OtherRounds, OutsideSends, PurgeEnds
<1>10. QED
  BY <1>1, <1>2, <1>3, <1>4, <1>5, <1>7, <1>8, <1>9 DEF Next, ServerStep

\* When the loop of a SEND ends, the message was put in the queues of the
\* subscribers the destination had when it was taken up, the sender excepted, and of
\* nobody else; left out are only those that have nothing to read.  For ALL this
\* holds even when clients are dropped within the loop.  The invariant says where a
\* client not reached yet is: under a row number the loop still holds.  That a queue
\* not reached is empty, and not one that was full, rests on MonitorInv: the queue
\* the server has open is the client's, or the client has a new one.
THEOREM DeliveryComplete == Spec => []SendReachesSubscribers
<1>1. Init => DeliveryInv
  BY DEF Init, ServerInit, DeliveryInv, InSend
<1>2. TypeInv /\ QueueInv /\ RowsInv /\ MonitorInv /\ DeliveryInv /\ [Next]_vars => DeliveryInv'
  BY DeliveryStep
<1>3. TypeInv /\ DeliveryInv => SendReachesSubscribers
  BY DEF DeliveryInv, SendReachesSubscribers, InSend, OnlyTargets, Pending, InHand, Excused
<1>4. QED
  BY <1>1, <1>2, <1>3, TypeInvariant, QueueInvariant, RowsInvariant, MonitorInvariant, PTL
     DEF Spec
=============================================================================
