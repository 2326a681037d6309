---------------------------- MODULE DemoPrograms ----------------------------
(***************************************************************************)
(* The client programs of the demo (receive_wan.c, receive_lan.c,          *)
(* receive_gpon.c, send_wan_gpon.c, send_wan_lan.c) run against the        *)
(* broker.  A program is the list of library calls it makes; it goes on to *)
(* the next one whatever the result is.                                    *)
(***************************************************************************)
EXTENDS HmxCms

CONSTANTS
  HMX_CLIENT_1, HMX_CLIENT_2, HMX_CLIENT_3, HMX_CLIENT_4, HMX_CLIENT_5,
  wan, lan, gpon,  \* the topics of the programs
  numbered,        \* "wan 0", "wan 1", ...: the topics two receivers share (105 of them)
  text,            \* the data of a SUBSCRIBE
  strings,         \* bound: the data of the rounds of a sender ("0" .. "599")
  Launches         \* which programs run together

ASSUME ProgramAssumption ==
         /\ Clients = {HMX_CLIENT_1, HMX_CLIENT_2, HMX_CLIENT_3, HMX_CLIENT_4, HMX_CLIENT_5}
         /\ HMX_CLIENT_1 \notin {HMX_CLIENT_2, HMX_CLIENT_3, HMX_CLIENT_4, HMX_CLIENT_5}
         /\ HMX_CLIENT_2 \notin {HMX_CLIENT_3, HMX_CLIENT_4, HMX_CLIENT_5}
         /\ HMX_CLIENT_3 \notin {HMX_CLIENT_4, HMX_CLIENT_5}
         /\ HMX_CLIENT_4 # HMX_CLIENT_5
         /\ {wan, lan, gpon} \subseteq Topics /\ numbered \in Seq(Topics)
         /\ text \in Datas /\ strings \in Seq(Datas)
         /\ Launches \subseteq SUBSET Clients

VARIABLES
  launched,  \* the programs that are started
  pc,        \* per program: its next call
  told,      \* history: topics a program was told CMS_SUCCESS for
  refused,   \* history: topics a program was told CMS_FAIL for
  missed     \* history: clients the server has dropped as crashed

programVars == <<launched, pc, told, refused, missed>>
demoVars == <<vars, programVars>>

---------------------------------------------------------------------------
(* The messages of the library calls.                                      *)

cms_subcribe_topic(c, topic) ==
  [tag |-> "SUBCRIBE", source |-> c, topic |-> topic, data |-> text]
cms_client_send(c, topic, data) ==
  [tag |-> "SEND", source |-> c, topic |-> topic, data |-> data]
cms_client_send_to(c, destination, data) ==
  [tag |-> "SEND_TO", source |-> c, topic |-> destination, data |-> data]

---------------------------------------------------------------------------
(* The programs.                                                           *)

Subcribes(c, topics) == [k \in DOMAIN topics |-> cms_subcribe_topic(c, topics[k])]

receive_wan == Subcribes(HMX_CLIENT_2, <<wan>> \o numbered)
receive_lan == Subcribes(HMX_CLIENT_3, <<lan>>)
receive_gpon == Subcribes(HMX_CLIENT_4, <<gpon>> \o numbered)

\* Each round of a sender makes two calls with the same data.
CallNumbers == 1 .. 2 * Len(strings)
String(k) == strings[(k + 1) \div 2]

send_wan_gpon ==
  [k \in CallNumbers |-> cms_client_send(HMX_CLIENT_1, IF k % 2 = 1 THEN wan ELSE gpon, String(k))]
send_wan_lan ==
  [k \in CallNumbers |->
     IF k % 2 = 1 THEN cms_client_send(HMX_CLIENT_5, wan, String(k))
                  ELSE cms_client_send_to(HMX_CLIENT_5, HMX_CLIENT_4, String(k))]

Receivers == {HMX_CLIENT_2, HMX_CLIENT_3, HMX_CLIENT_4}

Program(c) ==
  CASE c = HMX_CLIENT_1 -> send_wan_gpon
    [] c = HMX_CLIENT_2 -> receive_wan
    [] c = HMX_CLIENT_3 -> receive_lan
    [] c = HMX_CLIENT_4 -> receive_gpon
    [] c = HMX_CLIENT_5 -> send_wan_lan

\* The requests of this module are those of the programs.
ASSUME RequestAssumption ==
         \A c \in Clients : \A k \in DOMAIN Program(c) : Program(c)[k] \in Requests

Finished(c) == pc[c] > Len(Program(c))

---------------------------------------------------------------------------
DemoInit ==
  /\ Init
  /\ launched \in Launches
  /\ pc = [c \in Clients |-> 1]
  /\ told = [c \in Clients |-> {}]
  /\ refused = [c \in Clients |-> {}]
  /\ missed = {}

\* The server goes on; a purge that ends has dropped a client.
RunServer ==
  /\ ServerStart \/ ServerStep
  /\ missed' = missed \cup purged'
  /\ UNCHANGED <<clientVars, launched, pc, told, refused>>

\* cms_client_init, the first call of every program
RunInit(c) ==
  /\ c \in launched
  /\ client[c] = "off"
  /\ Start(c)
  /\ UNCHANGED programVars

\* The next call: up to its mq_open, or failed at once without a server queue
RunCall(c) ==
  /\ client[c] = "idle"
  /\ ~Finished(c)
  /\ IF names[SRV] = NoQ
     THEN UNCHANGED vars
     ELSE Call(c, Program(c)[pc[c]])
  /\ pc' = [pc EXCEPT ![c] = @ + 1]
  /\ UNCHANGED <<launched, told, refused, missed>>

\* mq_send of the call
RunSend(c) == Send(c) /\ UNCHANGED programVars

\* The result the program is told for the answer m.
Result(m) == IF m.data = "SUBCRIBE_SUCCESS" THEN "CMS_SUCCESS" ELSE "CMS_FAIL"

\* cms_subcribe_topic reads a message; an answer ends it
RunAwait(c) ==
  /\ Await(c)
  /\ LET m == Head(mqs[my_mq[c]])
         add == IF m.tag = "RESPONSE" THEN {request[c].topic} ELSE {}
     IN IF Result(m) = "CMS_SUCCESS"
        THEN told' = [told EXCEPT ![c] = @ \cup add] /\ UNCHANGED refused
        ELSE refused' = [refused EXCEPT ![c] = @ \cup add] /\ UNCHANGED told
  /\ UNCHANGED <<launched, pc, missed>>

\* cms_client_receive in the endless loop of a receiver
RunReceive(c) ==
  /\ c \in Receivers
  /\ Finished(c)
  /\ Take(c)
  /\ UNCHANGED programVars

RunProgram(c) ==
  RunInit(c) \/ RunCall(c) \/ RunSend(c) \/ RunAwait(c) \/ RunReceive(c)

DemoNext == RunServer \/ \E c \in Clients : RunProgram(c)

DemoSpec == DemoInit /\ [][DemoNext]_demoVars

---------------------------------------------------------------------------
\* A topic a receiver was told CMS_SUCCESS for stays its topic, as long as it is not
\* dropped as crashed itself: the purges of other clients delete rows by number.
ToldStaysListed ==
  \A c \in Receivers \ missed :
    (server = "purge" => call.client_name # c) =>
      \A topic \in told[c] : Subscribed(c, topic)

\* The two receivers that share the numbered topics run into the limit in whatever
\* order their calls come.  The broker tests it only for a topic that is new: as long
\* as it has dropped nobody, no topic is granted to one and refused to the other.
SharedTopicsAgree ==
  (missed = {} /\ server # "purge") =>
    \A c, d \in Receivers : told[c] \cap refused[d] = {}
=============================================================================
