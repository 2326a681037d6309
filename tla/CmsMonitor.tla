----------------------------- MODULE CmsMonitor -----------------------------
(***************************************************************************)
(* The crash list of the broker (lib/hmxcms_monitor.c): one payload per    *)
(* client whose queue was found full, with the message that found it full  *)
(* and the number of messages forced into the queue since.                 *)
(***************************************************************************)
EXTENDS Naturals, Sequences

\* Seeded fault: the message stored is counted too.
create_payload_counted(source, topic, data, client_name) ==
  [source |-> source, topic |-> topic, data |-> data,
   client_name |-> client_name, send_count |-> 1]

\* create_payload
create_payload(source, topic, data, client_name) ==
  [source |-> source, topic |-> topic, data |-> data,
   client_name |-> client_name, send_count |-> 0]

\* The positions of the payloads that name client_name.
MonitorPositions(list, client_name) ==
  {k \in DOMAIN list : list[k].client_name = client_name}

\* The first of them: what the walks of the list from its head find.
FirstPosition(list, client_name) ==
  CHOOSE k \in MonitorPositions(list, client_name) :
    \A j \in MonitorPositions(list, client_name) : k <= j

\* Seeded fault: the search starts after the header.
MonitoredHeadless(list, client_name) == MonitorPositions(list, client_name) \ {1} # {}

\* get_payload_monitor_list returns a payload (is not NULL)
Monitored(list, client_name) == MonitorPositions(list, client_name) # {}

\* get_payload_monitor_list
get_payload_monitor_list(list, client_name) == list[FirstPosition(list, client_name)]

\* add_to_monitor: append at the tail
add_to_monitor(list, payload) == Append(list, payload)

\* delete_from_monitor: unlink the first payload that names client_name;
\* CMS_ERROR, and no change, when there is none
delete_from_monitor(list, client_name) ==
  IF Monitored(list, client_name)
  THEN LET p == FirstPosition(list, client_name)
       IN [k \in 1 .. Len(list) - 1 |-> IF k < p THEN list[k] ELSE list[k + 1]]
  ELSE list

\* Seeded fault: the count is lost.
CountNone(list, client_name) == list

\* pl->send_count++ on the payload get_payload_monitor_list returned
CountOne(list, client_name) ==
  [list EXCEPT ![FirstPosition(list, client_name)].send_count = @ + 1]
=============================================================================
