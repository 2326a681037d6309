---------------------------- MODULE BoxRegistry ----------------------------
(***************************************************************************)
(* The client list of the older brokers (hmxcms_linkedlist.c of            *)
(* hung123/cms_box, the same file as in hung/cms), told as the difference  *)
(* to CmsRegistry.  Its search returns -1 for a row that is not there, its *)
(* deletion accepts -1, and it counts topics in an array it never clears.  *)
(***************************************************************************)
EXTENDS CmsRegistry, Integers

\* The same functions as in CmsRegistry.
box_create_data(client_name, topic) == create_data(client_name, topic)
box_add_client(list, data) == add_client(list, data)
box_length(list) == Indexes(list)
box_index_by_topic(list, topic) == get_index_by_topic(list, topic)
box_index_by_name(list, client_name) == get_index_by_name(list, client_name)

\* CMS_ERROR as an index
NotFound == -1

\* Seeded fault: only the name is compared.
box_index_by_data_name(list, data) ==
  LET rows == {i \in Indexes(list) : /\ Row(list, i).client_name = data.client_name
                                     /\ i > 0}
  IN IF rows = {} THEN NotFound ELSE CHOOSE i \in rows : \A j \in rows : i <= j

\* get_index_by_data
box_index_by_data(list, data) ==
  LET rows == get_index_by_data(list, data)
  IN IF rows = {} THEN NotFound ELSE CHOOSE i \in rows : TRUE

\* get_data_by_index finds no row and returns NULL.
BoxNoRow(list, i) == ~HasIndex(list, i)

\* delete_client follows a NULL pointer: for index -1 it takes the row behind
\* the header for the one to delete, and there is none.
DeleteFaults(list, i) == i = NotFound /\ Len(list) = 1

\* delete_client; index -1 deletes the second row
box_delete_client(list, i) ==
  delete_client(list, IF i = NotFound THEN 1 ELSE i)

\* What count_topic may return: the slot it compares a new topic with was never
\* written, and may hold that topic from an earlier call, so that it is not counted.
box_count_topic(list) == 0 .. Cardinality(ListTopics(list))
=============================================================================
