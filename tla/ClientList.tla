----------------------------- MODULE ClientList -----------------------------
(***************************************************************************)
(* What the functions on a client list promise, without nodes: a sequence  *)
(* of rows, and the answer to the last call.  Two of the repository's      *)
(* lists are told apart: that of the first broker (hmxcms/libstatic) and   *)
(* that of the present one (demo_1).                                       *)
(***************************************************************************)
EXTENDS Integers, Sequences, SequencesExt, FiniteSetsExt

CONSTANTS AddedRows,  \* the rows callers bring
          Beginnings,   \* pairs <<k, n>> of different names, k the beginning of n
          MaxRows     \* bound: rows at a time

VARIABLES version,    \* which list: "hmxcms" or "demo_1"
          list,       \* the rows
          asked,      \* the last call with its arguments
          result      \* what it returned

\* What a function returns: a number, the array it filled, or a pointer to a row
\* (none for NULL).
Number(n) == <<"int", n>>
Array(indexes) == <<"array", indexes>>
Pointer(rows) == <<"data", rows>>

CMS_SUCCESS == Number(0)
CMS_ERROR == Number(-1)
RECEIVE_REQUEST == 1

Answer(call, r) == asked' = call /\ result' = r

\* Whether n matches the key k: the first list compares up to the length of k.
Same(n, k) == n = k \/ (version = "hmxcms" /\ <<k, n>> \in Beginnings)

\* Only the first list has a type, and finds by topic only those who receive.
Receives(row) == version = "demo_1" \/ row.type = RECEIVE_REQUEST

\* Row old after new data was copied into it: the first list copies the name (three
\* times) and the type, and leaves the topic (set_data; change_data).
Copied(old, new) == IF version = "hmxcms" THEN [new EXCEPT !.topic = old.topic] ELSE new

\* The array of these indexes, from the first row on.
Ascending(indexes) ==
  CHOOSE array \in Bijection(1 .. Cardinality(indexes), indexes) :
    \A j, k \in 1 .. Cardinality(indexes) : j < k => array[j] < array[k]

Named(k) == {i \in 0 .. Len(list) - 1 : Same(list[i + 1].client_name, k)}

Add(row) ==
  /\ Answer(<<"add", row>>, CMS_SUCCESS)
  /\ list' = Append(list, row)

Delete(i) ==
  \/ /\ Answer(<<"delete", i>>, CMS_SUCCESS)
     /\ i < Len(list)
     /\ list' = RemoveAt(list, i + 1)
  \/ /\ Answer(<<"delete", i>>, CMS_ERROR)
     /\ i >= Len(list)
     /\ UNCHANGED list

Change(i, row) ==
  \/ /\ Answer(<<"change", i, row>>, CMS_SUCCESS)
     /\ i < Len(list)
     /\ list' = [list EXCEPT ![i + 1] = Copied(@, row)]
  \/ /\ Answer(<<"change", i, row>>, CMS_ERROR)
     /\ i >= Len(list)
     /\ UNCHANGED list

FindTopic(k) ==
  /\ Answer(<<"topic", k>>,
            Array(Ascending({i \in 0 .. Len(list) - 1 :
                               Same(list[i + 1].topic, k) /\ Receives(list[i + 1])})))
  /\ UNCHANGED list

FindName(k) ==
  /\ Answer(<<"name", k>>,
            IF version = "demo_1" THEN Array(Ascending(Named(k)))
            ELSE IF Named(k) = {} THEN CMS_ERROR ELSE Number(Min(Named(k))))
  /\ UNCHANGED list

FindData(k) ==
  /\ Answer(<<"data", k>>,
            Pointer(IF Named(k) = {} THEN <<>> ELSE <<list[Min(Named(k)) + 1]>>))
  /\ UNCHANGED list

Fetch(i) ==
  /\ Answer(<<"fetch", i>>, Pointer(IF i < Len(list) THEN <<list[i + 1]>> ELSE <<>>))
  /\ UNCHANGED list

FreeAll ==
  /\ Answer(<<"free">>, CMS_SUCCESS)
  /\ list' = <<>>

ListInit ==
  /\ version \in {"hmxcms", "demo_1"}
  /\ list = <<>>
  /\ asked = <<"none">>
  /\ result = CMS_SUCCESS

ListCall ==
  \/ \E row \in AddedRows :
       \/ Add(row)
       \/ FindTopic(row.topic) \/ FindName(row.client_name) \/ FindData(row.client_name)
       \/ \E i \in 0 .. MaxRows : Change(i, row)
  \/ \E i \in 0 .. MaxRows : Delete(i) \/ Fetch(i)
  \/ FreeAll

ListSpec == ListInit /\ [][ListCall /\ UNCHANGED version]_<<version, list, asked, result>>
=============================================================================
