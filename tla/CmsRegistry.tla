---------------------------- MODULE CmsRegistry ----------------------------
(***************************************************************************)
(* The client list of the broker (lib/hmxcms_linkedlist.c): a linked list  *)
(* of (client_name, topic) rows, modelled as a sequence.  Row numbers are  *)
(* the C indexes, which start at 0.  The ascending result arrays the       *)
(* lookup functions fill are modelled as sets of row numbers; a loop that  *)
(* walks such an array from its end takes the largest element first.       *)
(***************************************************************************)
EXTENDS Naturals, Sequences, FiniteSets

\* create_data
create_data(client_name, topic) == [client_name |-> client_name, topic |-> topic]

\* Row number i (C index) of the list.
Row(list, i) == list[i + 1]

\* get_length_list, and the row numbers of the list
Indexes(list) == 0 .. Len(list) - 1

\* add_client: append at the tail
add_client(list, data) == Append(list, data)

\* Whether delete_client(list, i) succeeds: the list is not NULL and the row
\* is the header or lies within the list.
CanDelete(list, i) == list # <<>> /\ (i = 0 \/ i < Len(list))

\* Seeded fault: the walk to row i stops one node early.
delete_client_early(list, i) ==
  IF CanDelete(list, i)
  THEN [k \in 1 .. Len(list) - 1 |-> IF k < i THEN list[k] ELSE list[k + 1]]
  ELSE list

\* delete_client: unlink row i and keep the others in order; an error leaves
\* the list as it is
delete_client(list, i) ==
  IF CanDelete(list, i)
  THEN [k \in 1 .. Len(list) - 1 |-> IF k <= i THEN list[k] ELSE list[k + 1]]
  ELSE list

\* Seeded fault: the search stops at the first match.
get_index_by_name_first(list, client_name) ==
  {i \in Indexes(list) : /\ Row(list, i).client_name = client_name
                         /\ \A j \in 0 .. i - 1 : Row(list, j).client_name # client_name}

\* get_index_by_topic, get_index_by_name: the array of matching rows; the
\* empty set stands for CMS_ERROR
get_index_by_topic(list, topic) ==
  {i \in Indexes(list) : Row(list, i).topic = topic}

get_index_by_name(list, client_name) ==
  {i \in Indexes(list) : Row(list, i).client_name = client_name}

\* Seeded fault: the search starts after the header.
get_index_by_data_headless(list, data) ==
  {i \in Indexes(list) : /\ i > 0 /\ Row(list, i) = data
                         /\ \A j \in 1 .. i - 1 : Row(list, j) # data}

\* get_index_by_data: the first matching row, as a set of at most one
get_index_by_data(list, data) ==
  {i \in Indexes(list) : /\ Row(list, i) = data
                         /\ \A j \in Indexes(list) : Row(list, j) = data => i <= j}

\* get_data_by_index finds a row (is not NULL)
HasIndex(list, i) == i < Len(list)

\* The topics the rows name.
ListTopics(list) == {Row(list, i).topic : i \in Indexes(list)}

\* count_topic: the array of topics already seen starts zeroed, so that the
\* slot after the last one equals the empty topic, which is never counted
count_topic(list, emptyTopic) == Cardinality(ListTopics(list) \ {emptyTopic})

\* Seeded fault: the array is walked from its start.
IsFirst(i, index_gr) == i \in index_gr /\ \A j \in index_gr : i <= j

\* The last element of an ascending array of row numbers.
IsLast(i, index_gr) == i \in index_gr /\ \A j \in index_gr : j <= i
=============================================================================
