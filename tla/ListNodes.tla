------------------------------ MODULE ListNodes ------------------------------
(***************************************************************************)
(* The client lists as the C code builds them: nodes in memory that point  *)
(* to the next one.  hmxcms/libstatic/hmxcms_linkedlist.c is the list of   *)
(* the first broker (hmx_demo has the same file); the list of demo_1 grew  *)
(* out of it and differs in how delete_client tests its index and in what  *)
(* is compared and copied.                                                 *)
(***************************************************************************)
EXTENDS Integers, Sequences, FiniteSets

CONSTANTS Addrs,      \* addresses malloc returns
          NULL,
          AddedRows,  \* as in ClientList
          Beginnings

ASSUME NodesAssumption == NULL \notin Addrs /\ IsFiniteSet(Addrs)

VARIABLES version, head, node, allocated, asked, result

nodeVars == <<version, head, node, allocated, asked, result>>

MaxRows == Cardinality(Addrs)

\* The node a walk of i steps from the header ends at, or NULL.
NodeAt ==
  LET walk[i \in 0 .. MaxRows] ==
        IF i = 0 THEN head
        ELSE IF walk[i - 1] = NULL THEN NULL ELSE node[walk[i - 1]].next
  IN walk

\* What is in memory that is not allocated: nothing a walk may look at.
Blank == [data |-> CHOOSE row \in AddedRows : TRUE, next |-> NULL]

\* while (tmp != NULL) length++
get_length_list == Cardinality({i \in 0 .. MaxRows : NodeAt[i] # NULL})

LastNode == NodeAt[get_length_list - 1]

DataAt(i) == node[NodeAt[i]].data

\* node a with its pointer set to n
Linked(a, n) == [data |-> node[a].data, next |-> n]

\* The rows in the order the nodes have.
Chain == [k \in 1 .. get_length_list |-> DataAt(k - 1)]

\* What the nodes have to be taken for: free_list leaves the header as it is, and
\* every caller ends the process after it.
InUse == asked # <<"free">>

Promise == INSTANCE ClientList WITH list <- IF InUse THEN Chain ELSE <<>>

Answered(call, r) == InUse /\ Promise!Answer(call, r) /\ UNCHANGED version

\* Seeded fault: the new node follows the header.
add_second(row) ==
  \E n \in Addrs \ allocated :
    /\ allocated' = allocated \cup {n}
    /\ IF head = NULL
       THEN /\ head' = n
            /\ node' = [node EXCEPT ![n] = [data |-> row, next |-> NULL]]
       ELSE /\ node' = [node EXCEPT ![n] = [data |-> row, next |-> node[head].next],
                                    ![head] = Linked(head, n)]
            /\ UNCHANGED head
    /\ Answered(<<"add", row>>, Promise!CMS_SUCCESS)

\* create_client, and the node is hung on the last one
add_client(row) ==
  \E n \in Addrs \ allocated :
    /\ allocated' = allocated \cup {n}
    /\ IF head = NULL
       THEN /\ head' = n
            /\ node' = [node EXCEPT ![n] = [data |-> row, next |-> NULL]]
       ELSE /\ node' = [node EXCEPT ![n] = [data |-> row, next |-> NULL],
                                    ![LastNode] = Linked(LastNode, n)]
            /\ UNCHANGED head
    /\ Answered(<<"add", row>>, Promise!CMS_SUCCESS)

---------------------------------------------------------------------------
(* delete_client.                                                          *)

\* the header goes
DeleteHead ==
  /\ head # NULL
  /\ head' = node[head].next
  /\ node' = [node EXCEPT ![head] = Blank]
  /\ allocated' = allocated \ {head}
  /\ Answered(<<"delete", 0>>, Promise!CMS_SUCCESS)

\* Seeded fault: the node is unlinked and not freed.
DeleteKeeping(i) ==
  /\ version = "hmxcms"
  /\ i > 0 /\ NodeAt[i] # NULL
  /\ node' = [node EXCEPT ![NodeAt[i - 1]] = Linked(NodeAt[i - 1], node[NodeAt[i]].next)]
  /\ UNCHANGED <<head, allocated>>
  /\ Answered(<<"delete", i>>, Promise!CMS_SUCCESS)

\* hmxcms: the walk stops before node i and finds it there
DeleteWalking(i) ==
  /\ version = "hmxcms"
  /\ i > 0 /\ NodeAt[i] # NULL
  /\ node' = [node EXCEPT ![NodeAt[i - 1]] = Linked(NodeAt[i - 1], node[NodeAt[i]].next),
                         ![NodeAt[i]] = Blank]
  /\ allocated' = allocated \ {NodeAt[i]}
  /\ UNCHANGED head
  /\ Answered(<<"delete", i>>, Promise!CMS_SUCCESS)

\* demo_1: the index is compared with the length, and the last node told apart
DeleteCounting(i) ==
  /\ version = "demo_1"
  /\ i > 0 /\ i < get_length_list
  /\ node' = [node EXCEPT ![NodeAt[i - 1]] =
                Linked(NodeAt[i - 1], IF i = get_length_list - 1 THEN NULL ELSE node[NodeAt[i]].next),
                         ![NodeAt[i]] = Blank]
  /\ allocated' = allocated \ {NodeAt[i]}
  /\ UNCHANGED head
  /\ Answered(<<"delete", i>>, Promise!CMS_SUCCESS)

\* an empty list, or an index behind its end
DeleteNothing(i) ==
  /\ \/ head = NULL
     \/ version = "hmxcms" /\ i > 0 /\ NodeAt[i] = NULL
     \/ version = "demo_1" /\ i > 0 /\ i >= get_length_list
  /\ UNCHANGED <<head, node, allocated>>
  /\ Answered(<<"delete", i>>, Promise!CMS_ERROR)

---------------------------------------------------------------------------
(* The other functions.                                                    *)

\* the walk ends early: "Index out length list"
change_data_client(i, row) ==
  \/ /\ NodeAt[i] # NULL
     /\ node' = [node EXCEPT ![NodeAt[i]] =
                   [data |-> Promise!Copied(DataAt(i), row), next |-> @.next]]
     /\ UNCHANGED <<head, allocated>>
     /\ Answered(<<"change", i, row>>, Promise!CMS_SUCCESS)
  \/ /\ NodeAt[i] = NULL
     /\ UNCHANGED <<head, node, allocated>>
     /\ Answered(<<"change", i, row>>, Promise!CMS_ERROR)

NodesNamed(k) ==
  {i \in 0 .. get_length_list - 1 : Promise!Same(DataAt(i).client_name, k)}
NodesOfTopic(k) ==
  {i \in 0 .. get_length_list - 1 : Promise!Same(DataAt(i).topic, k) /\ Promise!Receives(DataAt(i))}

\* The array a loop over the nodes fills with the indexes of those that match.
Collected(matching) ==
  LET index_gr[i \in 0 .. get_length_list] ==
        IF i = 0 THEN <<>>
        ELSE IF i - 1 \in matching THEN Append(index_gr[i - 1], i - 1) ELSE index_gr[i - 1]
  IN index_gr[get_length_list]

get_index_by_topic(k) ==
  /\ UNCHANGED <<head, node, allocated>>
  /\ Answered(<<"topic", k>>, Promise!Array(Collected(NodesOfTopic(k))))

\* hmxcms returns at the first match, demo_1 collects all
get_index_by_name(k) ==
  LET found == Collected(NodesNamed(k))
  IN /\ UNCHANGED <<head, node, allocated>>
     /\ Answered(<<"name", k>>,
                 IF version = "demo_1" THEN Promise!Array(found)
                 ELSE IF found = <<>> THEN Promise!CMS_ERROR
                 ELSE Promise!Number(Head(found)))

get_data_by_name(k) ==
  LET found == Collected(NodesNamed(k))
  IN /\ UNCHANGED <<head, node, allocated>>
     /\ Answered(<<"data", k>>,
                 Promise!Pointer(IF found = <<>> THEN <<>> ELSE <<DataAt(Head(found))>>))

\* the row, or NULL when the walk ends early
get_data_by_index(i) ==
  /\ UNCHANGED <<head, node, allocated>>
  /\ Answered(<<"fetch", i>>,
              Promise!Pointer(IF NodeAt[i] = NULL THEN <<>> ELSE <<DataAt(i)>>))

free_list ==
  /\ allocated' = allocated \ {NodeAt[i] : i \in 0 .. MaxRows}
  /\ node' = [n \in Addrs |-> IF n \in allocated' THEN node[n] ELSE Blank]
  /\ UNCHANGED head
  /\ Answered(<<"free">>, Promise!CMS_SUCCESS)

---------------------------------------------------------------------------
NodesInit ==
  /\ version \in {"hmxcms", "demo_1"}
  /\ head = NULL
  /\ node = [n \in Addrs |-> Blank]
  /\ allocated = {}
  /\ asked = <<"none">>
  /\ result = Promise!CMS_SUCCESS

NodesNext ==
  \/ \E row \in AddedRows :
       \/ add_client(row)
       \/ get_index_by_topic(row.topic)
       \/ get_index_by_name(row.client_name) \/ get_data_by_name(row.client_name)
       \/ \E i \in 0 .. MaxRows : change_data_client(i, row)
  \/ DeleteHead
  \/ \E i \in 0 .. MaxRows :
       \/ DeleteWalking(i) \/ DeleteCounting(i) \/ DeleteNothing(i)
       \/ get_data_by_index(i)
  \/ free_list

\* The nodes are the list ClientList promises, call by call and with every answer,
\* wherever malloc puts a node and whatever it reuses.
ListImplemented == Promise!ListSpec

\* Every node that was allocated and not freed is on the list once, so that none is
\* lost and no walk meets one that was freed; free_list leaves none.
NodesAccounted ==
  IF InUse THEN /\ allocated = {NodeAt[i] : i \in 0 .. get_length_list - 1}
                /\ Cardinality(allocated) = get_length_list
           ELSE allocated = {}
=============================================================================
