------------------------------ MODULE OlderCms ------------------------------
(***************************************************************************)
(* The older versions of the whole system, one of which is chosen at the   *)
(* start, and what still holds in them.                                    *)
(***************************************************************************)
EXTENDS OlderClients

olderVars == <<kernelVars, serverVars, clientVars, hungVars, programVars>>

OlderInit ==
  /\ mqs = [q \in QIds |-> <<>>]
  /\ names = [n \in Names |-> NoQ]
  /\ mqd = NoQ
  /\ mqd_tmp = NoQ
  /\ my_mq = [c \in Clients |-> NoQ]
  /\ mqserver = [c \in Clients |-> NoQ]
  /\ leaked = [n \in Names |-> {}]
  /\ ServerInit
  /\ ClientInit
  /\ HungInit
  /\ ProgramInit

BoxNext ==
  \/ (BoxStart \/ BoxServerStep \/ BoxStop) /\ UNCHANGED <<clientVars, hungVars, programVars>>
  \/ \E c \in Clients : BoxClientStep(c) /\ UNCHANGED hungVars

HungNext ==
  \/ (HungStart \/ HungServerStep \/ HungStop) /\ UNCHANGED <<clientVars, programVars>>
  \/ \E c \in Clients : HungClientStep(c) /\ UNCHANGED hungVars

OlderNext ==
  \/ build = "cms_box" /\ BoxNext
  \/ build = "cms" /\ HungNext

OlderSpec == OlderInit /\ [][OlderNext]_olderVars

\* The server loops for ever and its calls do not block.
OlderFairSpec ==
  /\ OlderSpec
  /\ WF_olderVars(/\ UNCHANGED <<clientVars, programVars>>
                  /\ \/ build = "cms_box" /\ BoxServerStep /\ UNCHANGED hungVars
                     \/ build = "cms" /\ HungServerStep)

---------------------------------------------------------------------------
\* A client is listed once for a topic, whatever rows the loops delete: SUBCRIBE
\* looks for the row before it adds one.
RowsAreDistinct ==
  \A i, j \in Indexes(head_client) :
    Row(head_client, i) = Row(head_client, j) => i = j

RowsOf(list, c) == {Row(list, i) : i \in get_index_by_name(list, c)}

\* The row numbers a deletion loop has left.
ToDelete ==
  IF server = "delete" THEN index_gr
  ELSE IF server = "purge" THEN crash_gr ELSE {}

\* The client whose rows are to go, all of them or the one of its request.
Leaving == IF server = "purge" THEN call.client_name ELSE msg.source

\* The broker deletes by row number, from the first row up, and also for a request
\* that names no row.  A client that has the one row it leaves costs no other
\* client a row, neither by UNSUBCRIBE nor when it is dropped as crashed.
OthersKeepRows ==
  [][\A c \in Clients :
       (/\ \/ /\ server = "handle"
              /\ create_data(msg.source, msg.topic) \in RowsOf(head_client, msg.source)
           \/ /\ Cardinality(ToDelete) = 1
              /\ ToDelete = get_index_by_name(head_client, Leaving)
        /\ server' # "down"
        /\ c # Leaving)
       => RowsOf(head_client', c) = RowsOf(head_client, c)]_olderVars

\* Only the server sends to client queues, so the room that mq_receive made in a
\* full queue is there for the mq_send that follows.
RoomForNewest == server = "overwrite" => HasRoom(mqd_tmp, ClientCap)

\* The handler of every message ends, with the next message or with the process.
OlderHandlerReturns == server = "handle" ~> server \in {"recv", "down"}

\* libhmxcms.h:155 of cms_unsubcribe_topic: "unsubcribe one topic of server".
\* The row that is removed is one of the client that asked.
UnsubcribeRemovesOwn ==
  [][(server = "handle" /\ msg.tag = "UNSUBCRIBE" /\ server' # "down") =>
       \A c \in Clients \ {msg.source} : RowsOf(head_client', c) = RowsOf(head_client, c)]_olderVars
=============================================================================
