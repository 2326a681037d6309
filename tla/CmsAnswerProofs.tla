--------------------------- MODULE CmsAnswerProofs ---------------------------
(***************************************************************************)
(* Theorem about the answers of the broker: an answer in the queue of a    *)
(* client is the one to the call the client waits in, and is still true.   *)
(***************************************************************************)
EXTENDS CmsServiceProofs

\* What the theorem is for.  A broker that is killed loses the subscriptions it
\* confirmed, a client that is killed and started again takes over the answer to
\* its former call, and one that sends CONFIG (no call of the library does) is
\* answered outside a call.
NoDisturbance ==
  /\ Outages = {}
  /\ "crash" \notin Exits
  /\ \A r \in Requests : r.tag # "CONFIG"

\* At most one element of s is a member of M, and that one is good.
Only(s, M, good) ==
  /\ \A k \in DOMAIN s : s[k] \in M => s[k] \in good
  /\ \A j, k \in DOMAIN s : s[j] \in M /\ s[k] \in M => j = k

---------------------------------------------------------------------------
(* The invariant.                                                          *)

\* What c asks for, and what the server answers.
Asks(c) == {m \in Messages : m.source = c /\ m.tag \in Answered}
Answers == {m \in Messages : m.tag = "RESPONSE"}

\* The messages the server has not taken up, and those c has not read.
Inbox == IF names[SRV] = NoQ THEN <<>> ELSE mqs[names[SRV]]
Box(c) == IF my_mq[c] = NoQ THEN <<>> ELSE mqs[my_mq[c]]

\* The server works on the request of c, or on the answer to it.
OnRequest(c) == server \in {"handle", "delete"} /\ msg \in Asks(c)
OnAnswer(c) ==
  /\ server \in {"send", "evict", "overwrite"}
  /\ call.msg \in Answers
  /\ call.client_name = c
Working(c) == OnRequest(c) \/ OnAnswer(c)

\* The server has opened the queue of c for an answer.
Served(c) == OnAnswer(c) \/ (server = "delete" /\ msg.source = c)

\* The answers that belong to the request of c and are true.
TrueAnswers(c) ==
  {m \in Answers :
     /\ m.topic = request[c].topic
     /\ m.data = "SUBCRIBE_SUCCESS" =>
          request[c].tag = "SUBCRIBE" /\ (Subscribed(c, m.topic) \/ Dropped(c))
     /\ m.data = "UNSUBCRIBE_SUCCESS" =>
          request[c].tag = "UNSUBCRIBE" /\ ~Subscribed(c, m.topic)}

\* While c waits its request is in one place: in the queue of the server, in the
\* hands of the server, or, answered, in the queue of c; or the answer is lost.
OneAnswer(c) ==
  /\ Only(Inbox, Asks(c),
          IF client[c] = "waiting" /\ ~Working(c) /\ Only(Box(c), Answers, {})
          THEN {request[c]} ELSE {})
  /\ Only(Box(c), Answers,
          IF client[c] = "waiting" /\ ~Working(c) THEN TrueAnswers(c) ELSE {})
  /\ Working(c) => client[c] = "waiting"
  /\ OnRequest(c) => msg = request[c]
  /\ OnAnswer(c) => call.msg \in TrueAnswers(c)

\* Which queue is whose: the server has one and the same as long as it runs, and
\* a name refers to the queue of the process that has it, if to any.
Wiring ==
  /\ server = "down" => names[SRV] = NoQ
  /\ server # "down" => mqd = names[SRV]
  /\ \A c \in Clients : /\ mqserver[c] \in {NoQ, names[SRV]}
                        /\ names[c] \in {NoQ, my_mq[c]}
  /\ \A c, d \in Clients : my_mq[c] = my_mq[d] /\ my_mq[c] # NoQ => c = d
  /\ \A c \in Clients : Served(c) => mqd_tmp \in {NoQ, my_mq[c]}

\* Who is where, with which messages.
Requested ==
  /\ server = "delete" => msg.tag = "UNSUBCRIBE"
  /\ server = "loop" => msg.tag = "SEND"
  /\ server \in {"handle", "delete"} => msg.tag # "CONFIG"
  /\ \A k \in DOMAIN Inbox : Inbox[k].tag # "CONFIG"
  /\ \A c \in Clients :
       /\ client[c] = "sending" =>
            request[c] \in Messages /\ request[c].source = c /\ request[c].tag # "CONFIG"
       /\ client[c] = "waiting" => request[c] \in Asks(c)


AnswerInv == Wiring /\ Requested /\ \A c \in Clients : OneAnswer(c)

---------------------------------------------------------------------------
(* Queues with at most one element of a kind.                              *)

\* Whatever holds of s holds of t.
Kept(s, t, M) == \A good : Only(s, M, good) => Only(t, M, good)

LEMMA OnlyInEmpty ==
  ASSUME NEW M, NEW good
  PROVE  Only(<<>>, M, good)
<1>1. DOMAIN <<>> = {}
  OBVIOUS
<1>2. QED
  BY <1>1 DEF Only

LEMMA OnlyWeaker ==
  ASSUME NEW s, NEW M, NEW good, NEW more, Only(s, M, good),
         \A m \in M : m \in good => m \in more
  PROVE  Only(s, M, more)
BY DEF Only

\* mq_receive: what is taken was the only one.
LEMMA OnlyTail ==
  ASSUME NEW S, NEW s \in Seq(S), s # <<>>, NEW M
  PROVE  /\ Kept(s, Tail(s), M)
         /\ \A good : Only(s, M, good) /\ Head(s) \in M =>
              Head(s) \in good /\ Only(Tail(s), M, {})
<1>1. /\ Len(s) \in Nat /\ Head(s) = s[1] /\ DOMAIN s = 1 .. Len(s)
      /\ DOMAIN Tail(s) = 1 .. Len(s) - 1
      /\ \A k \in 1 .. Len(s) - 1 : Tail(s)[k] = s[k + 1]
      /\ Len(s) # 0
  OBVIOUS
<1>2. ASSUME NEW good, Only(s, M, good)
      PROVE  /\ Only(Tail(s), M, good)
             /\ Head(s) \in M => Head(s) \in good /\ Only(Tail(s), M, {})
  <2>1. \A k \in DOMAIN Tail(s) : /\ k + 1 \in DOMAIN s /\ Tail(s)[k] = s[k + 1] /\ k + 1 # 1
                                  /\ k \in Nat
    BY <1>1
  <2>2. ASSUME NEW j \in DOMAIN Tail(s), NEW k \in DOMAIN Tail(s),
               Tail(s)[j] \in M, Tail(s)[k] \in M
        PROVE  j = k
    <3>1. j + 1 = k + 1
      BY <1>2, <2>1, <2>2 DEF Only
    <3>2. QED
      BY <2>1, <3>1
  <2>3. Only(Tail(s), M, good)
    BY <1>2, <2>1, <2>2 DEF Only
  <2>4. 1 \in DOMAIN s
    BY <1>1
  <2>5. ASSUME Head(s) \in M
        PROVE  Head(s) \in good /\ Only(Tail(s), M, {})
    BY <1>1, <1>2, <2>1, <2>4, <2>5 DEF Only
  <2>6. QED
    BY <2>3, <2>5
<1>3. QED
  BY <1>2 DEF Kept

\* mq_send: what is added is of another kind, or the first of its kind.
LEMMA OnlyAppend ==
  ASSUME NEW S, NEW s \in Seq(S), NEW m \in S, NEW M
  PROVE  /\ m \notin M => Kept(s, Append(s, m), M)
         /\ \A good : Only(s, M, {}) /\ m \in good => Only(Append(s, m), M, good)
<1>1. /\ Len(s) \in Nat /\ DOMAIN s = 1 .. Len(s)
      /\ DOMAIN Append(s, m) = 1 .. Len(s) + 1
      /\ \A k \in 1 .. Len(s) : Append(s, m)[k] = s[k]
      /\ Append(s, m)[Len(s) + 1] = m
  OBVIOUS
<1>2. \A k \in DOMAIN Append(s, m) : \/ k \in DOMAIN s /\ Append(s, m)[k] = s[k]
                                     \/ k = Len(s) + 1 /\ Append(s, m)[k] = m
  BY <1>1
<1>3. ASSUME NEW good, Only(s, M, good), m \notin M
      PROVE  Only(Append(s, m), M, good)
  BY <1>2, <1>3 DEF Only
<1>4. ASSUME NEW good, Only(s, M, {}), m \in good
      PROVE  Only(Append(s, m), M, good)
  BY <1>2, <1>4 DEF Only
<1>5. QED
  BY <1>3, <1>4 DEF Kept

---------------------------------------------------------------------------
(* The queues of a step.                                                   *)

\* After a step that leaves no queue behind.
LEMMA BoxesAfter ==
  ASSUME TypeInv', NEW content, SetQueues(content)
  PROVE  /\ Inbox' = IF names'[SRV] = NoQ THEN <<>> ELSE content[names'[SRV]]
         /\ \A c \in Clients :
              Box(c)' = IF my_mq'[c] = NoQ THEN <<>> ELSE content[my_mq'[c]]
<1>1. /\ names'[SRV] \in QIds \cup {NoQ}
      /\ \A c \in Clients : my_mq'[c] \in QIds \cup {NoQ}
      /\ SRV \in Names
  BY DEF TypeInv, TypeOK, KernelTypeOK, Names
<1>2. names'[SRV] # NoQ => names'[SRV] \in Referenced'
  BY <1>1 DEF Referenced
<1>3. \A c \in Clients : my_mq'[c] # NoQ => my_mq'[c] \in Referenced'
  BY <1>1 DEF Referenced
<1>4. QED
  BY <1>2, <1>3, AfterSetQueues DEF Inbox, Box

\* The queues hold messages.
LEMMA BoxType ==
  ASSUME TypeInv
  PROVE  Inbox \in Seq(Messages) /\ \A c \in Clients : Box(c) \in Seq(Messages)
BY EmptySeq DEF TypeInv, TypeOK, KernelTypeOK, Names, Inbox, Box

\* No queue of the server is one of a client.
LEMMA Apart ==
  ASSUME TypeInv, QueueInv
  PROVE  /\ \A c \in Clients : my_mq[c] # NoQ => my_mq[c] # names[SRV] /\ my_mq[c] # mqd
         /\ mqd_tmp # NoQ => mqd_tmp # names[SRV] /\ mqd_tmp # mqd
BY DEF TypeInv, TypeOK, KernelTypeOK, QueueInv, Sides, ClientSide, ServerSide

\* Only the server takes messages out of its queue, and it puts none in.
LEMMA InboxStays ==
  ASSUME TypeInv, TypeInv', QueueInv, Wiring, ServerStart \/ ServerStep, ~Receive
  PROVE  Inbox' = Inbox
<1> USE DEF ownDescs, lists, loopVars, purgeVars, kernelVars
<1>0. /\ names \in [Names -> QIds \cup {NoQ}] /\ SRV \in Names /\ names[SRV] \in QIds \cup {NoQ}
      /\ mqs \in [QIds -> Seq(Messages)]
  BY DEF TypeInv, TypeOK, KernelTypeOK, Names
<1>1. CASE ServerStart
  <2>1. names[SRV] = NoQ /\ UNCHANGED mqs
    BY <1>1 DEF ServerStart, Wiring
  <2>2. names'[SRV] \in Creatable
    <3>1. Creatable # {} => (CHOOSE q \in Creatable : TRUE) \in Creatable
      OBVIOUS
    <3>2. QED
      BY <1>0, <1>1, <2>1, <3>1 DEF ServerStart
  <2>3. mqs[names'[SRV]] = <<>>
    BY <2>2 DEF QueueInv, NewAreEmpty
  <2>4. QED
    BY <2>1, <2>3 DEF Inbox
<1>2. CASE EvictEmpty \/ Unlink
  <2>1. SetQueues(mqs)
    BY <1>2 DEF EvictEmpty, Unlink
  <2>2. names'[SRV] = names[SRV]
    BY <1>0, <1>2, KernelAssumption DEF EvictEmpty, Unlink, TypeInv, LocalsReady
  <2>3. QED
    BY <2>1, <2>2, BoxesAfter DEF Inbox
<1>3. CASE SendOk \/ Overwrite \/ OverwriteCrashedAnswer
  <2>1. SetQueues(Enqueue(mqd_tmp, call.msg)) /\ UNCHANGED names
    BY <1>3 DEF SendOk, Overwrite, OverwriteCrashedAnswer
  <2>2. mqd_tmp # NoQ
    BY <1>3, KernelAssumption DEF SendOk, Overwrite, OverwriteCrashedAnswer, TypeInv, LocalsReady
  <2>3. names[SRV] # NoQ => Enqueue(mqd_tmp, call.msg)[names[SRV]] = mqs[names[SRV]]
    BY <1>0, <2>2, Apart DEF Enqueue
  <2>4. Inbox' = IF names[SRV] = NoQ THEN <<>> ELSE Enqueue(mqd_tmp, call.msg)[names[SRV]]
    BY <2>1, BoxesAfter
  <2>5. QED
    BY <2>3, <2>4 DEF Inbox
<1>4. CASE OverwriteCrashed \/ Evict
  <2>1. mqs' \in {Enqueue(mqd_tmp, call.msg), Dequeue(mqd_tmp)} /\ UNCHANGED names
    BY <1>4 DEF OverwriteCrashed, Evict
  <2>2. mqd_tmp # NoQ
    BY <1>4, KernelAssumption DEF OverwriteCrashed, Evict, TypeInv, LocalsReady
  <2>3. QED
    BY <1>0, <2>1, <2>2, Apart DEF Enqueue, Dequeue, Inbox
<1>5. CASE ~(ServerStart \/ EvictEmpty \/ Unlink \/ SendOk \/ Overwrite
             \/ OverwriteCrashedAnswer \/ OverwriteCrashed \/ Evict)
  BY <1>5 DEF ServerStep, HandleSubcribe, HandleUnsubcribeAll, DeleteRow, DeleteDone,
     HandleUnsubcribe, HandleSend, LoopSkip, LoopOpen, LoopDone, HandleSendTo,
     HandleConfigLog, HandleIgnored, SendBad, SendFull, PurgeRow, Inbox
<1>6. QED
  BY <1>1, <1>2, <1>3, <1>4, <1>5

---------------------------------------------------------------------------
(* One client at a step.                                                   *)

\* get_index_by_data finds the rows of the set.
LEMMA FoundIfThere ==
  ASSUME NEW list \in Seq(Rows), NEW data
  PROVE  get_index_by_data(list, data) # {} <=> data \in RowSet(list)
<1>1. ASSUME data \in RowSet(list)
      PROVE  get_index_by_data(list, data) # {}
  <2>1. PICK i \in Indexes(list) : Row(list, i) = data
    BY <1>1 DEF RowSet
  <2>2. i + 1 \in DOMAIN list /\ list[i + 1] = data
    BY <2>1 DEF Indexes, Row
  <2>3. QED
    BY <2>2, FindsEveryRow
<1>2. ASSUME get_index_by_data(list, data) # {}
      PROVE  data \in RowSet(list)
  BY <1>2 DEF get_index_by_data, RowSet
<1>3. QED
  BY <1>1, <1>2

\* Subscribed, told by the set of rows, before and after a step.
LEMMA SubscribedRow ==
  ASSUME TypeInv, TypeInv'
  PROVE  /\ \A c, topic : Subscribed(c, topic) <=> create_data(c, topic) \in RowSet(head_client)
         /\ \A c, topic : Subscribed(c, topic)' <=> create_data(c, topic) \in RowSet(head_client')
         /\ head_client \in Seq(Rows) /\ head_client' \in Seq(Rows)
<1>1. head_client \in Seq(Rows) /\ head_client' \in Seq(Rows)
  BY DEF TypeInv, TypeOK, ServerTypeOK
<1>2. QED
  BY <1>1, FoundIfThere DEF Subscribed

\* What is true stays true: for a client that keeps its rows, and for one that is
\* dropped.
LEMMA TruthStays ==
  ASSUME NEW c \in Clients, request'[c] = request[c],
         \A topic : Subscribed(c, topic)' => Subscribed(c, topic),
         Dropped(c) => Dropped(c)',
         Dropped(c)' \/ \A topic : Subscribed(c, topic) => Subscribed(c, topic)'
  PROVE  TrueAnswers(c) \subseteq TrueAnswers(c)'
BY DEF TrueAnswers

\* Nothing happens to c but that a message of no concern comes or one goes, or
\* that the server is done with its answer.
LEMMA NoConcern ==
  ASSUME NEW c \in Clients, OneAnswer(c), client'[c] = client[c], request'[c] = request[c],
         Kept(Inbox, Inbox', Asks(c)), Kept(Box(c), Box(c)', Answers),
         OnRequest(c)' => OnRequest(c) /\ msg' = msg,
         OnAnswer(c)' => OnAnswer(c) /\ call'.msg = call.msg,
         TrueAnswers(c) \subseteq TrueAnswers(c)'
  PROVE  OneAnswer(c)'
<1>1. Working(c)' => Working(c)
  BY DEF Working
<1>2. Only(Box(c), Answers, {}) => Only(Box(c)', Answers, {})
  BY DEF Kept
<1>3. Only(Inbox', Asks(c),
           IF client'[c] = "waiting" /\ ~Working(c)' /\ Only(Box(c)', Answers, {})
           THEN {request'[c]} ELSE {})
  <2> DEFINE old == IF client[c] = "waiting" /\ ~Working(c) /\ Only(Box(c), Answers, {})
                    THEN {request[c]} ELSE {}
             new == IF client'[c] = "waiting" /\ ~Working(c)' /\ Only(Box(c)', Answers, {})
                    THEN {request'[c]} ELSE {}
  <2>1. Only(Inbox, Asks(c), old)
    BY DEF OneAnswer
  <2>2. old \subseteq new
    BY <1>1, <1>2
  <2> HIDE DEF old, new
  <2>3. Only(Inbox', Asks(c), old)
    BY <2>1 DEF Kept
  <2>4. Only(Inbox', Asks(c), new)
    BY <2>2, <2>3, OnlyWeaker
  <2>5. QED
    BY <2>4 DEF new
<1>4. Only(Box(c)', Answers,
           IF client'[c] = "waiting" /\ ~Working(c)' THEN TrueAnswers(c)' ELSE {})
  <2> DEFINE old == IF client[c] = "waiting" /\ ~Working(c) THEN TrueAnswers(c) ELSE {}
             new == IF client'[c] = "waiting" /\ ~Working(c)' THEN TrueAnswers(c)' ELSE {}
  <2>1. Only(Box(c), Answers, old)
    BY DEF OneAnswer
  <2>2. old \subseteq new
    BY <1>1
  <2> HIDE DEF old, new
  <2>3. Only(Box(c)', Answers, old)
    BY <2>1 DEF Kept
  <2>4. Only(Box(c)', Answers, new)
    BY <2>2, <2>3, OnlyWeaker
  <2>5. QED
    BY <2>4 DEF new
<1>5. QED
  BY <1>1, <1>3, <1>4 DEF OneAnswer, Asks, Answers, Working

\* The server turns from the request of c to the answer.
LEMMA Answering ==
  ASSUME NEW c \in Clients, OneAnswer(c), client'[c] = client[c], request'[c] = request[c],
         Inbox' = Inbox, Box(c)' = Box(c), OnRequest(c), ~OnRequest(c)',
         OnAnswer(c)', call'.msg \in TrueAnswers(c)'
  PROVE  OneAnswer(c)'
BY DEF OneAnswer, Asks, Answers, Working

\* The server takes up the request of c.
LEMMA TakenUp ==
  ASSUME NEW c \in Clients, TypeInv, OneAnswer(c), UNCHANGED clientVars,
         Inbox # <<>>, Inbox' = Tail(Inbox), Box(c)' = Box(c),
         Head(Inbox) \in Asks(c), msg' = Head(Inbox), server' = "handle"
  PROVE  OneAnswer(c)'
<1> DEFINE good == IF client[c] = "waiting" /\ ~Working(c) /\ Only(Box(c), Answers, {})
                   THEN {request[c]} ELSE {}
<1>1. Only(Inbox, Asks(c), good)
  BY DEF OneAnswer
<1>2. Head(Inbox) \in good /\ Only(Tail(Inbox), Asks(c), {})
  <2> HIDE DEF good
  <2>1. QED
    BY <1>1, OnlyTail, BoxType
<1>3. client[c] = "waiting" /\ Only(Box(c), Answers, {}) /\ Head(Inbox) = request[c]
  BY <1>2
<1>4. OnRequest(c)' /\ ~OnAnswer(c)'
  BY DEF OnRequest, OnAnswer, Asks
<1>5. QED
  BY <1>2, <1>3, <1>4 DEF OneAnswer, Asks, Answers, Working, clientVars

\* The answer of the server is sent to c.
LEMMA AnswerSent ==
  ASSUME NEW c \in Clients, TypeInv, OneAnswer(c), UNCHANGED clientVars,
         Inbox' = Inbox, Box(c)' = Append(Box(c), call.msg),
         OnAnswer(c), ~Working(c)', TrueAnswers(c) \subseteq TrueAnswers(c)'
  PROVE  OneAnswer(c)'
<1>1. client[c] = "waiting" /\ call.msg \in TrueAnswers(c) /\ Working(c)
  BY DEF OneAnswer, Working
<1>2. Only(Box(c), Answers, {}) /\ Only(Inbox, Asks(c), {})
  BY <1>1 DEF OneAnswer
<1>3. call.msg \in TrueAnswers(c)' /\ call.msg \in Messages
  BY <1>1 DEF OnAnswer, Answers
<1>4. Only(Box(c)', Answers, TrueAnswers(c)')
  BY <1>2, <1>3, BoxType, OnlyAppend
<1>5. Only(Inbox', Asks(c), {request[c]})
  BY <1>2 DEF Only
<1>6. QED
  BY <1>1, <1>2, <1>4, <1>5 DEF OneAnswer, Asks, Answers, Working, clientVars

---------------------------------------------------------------------------
(* The steps of the server.                                                *)


\* A step of the server that leaves its list alone, answers nobody and changes at
\* most, in the queues, what is of no concern.
LEMMA ListStays ==
  ASSUME NEW c \in Clients, UNCHANGED <<clientVars, head_client>>, Dropped(c) => Dropped(c)'
  PROVE  TrueAnswers(c) \subseteq TrueAnswers(c)'
<1>1. \A topic : Subscribed(c, topic)' <=> Subscribed(c, topic)
  BY DEF Subscribed
<1>2. request'[c] = request[c]
  BY DEF clientVars
<1>3. QED
  BY <1>1, <1>2, TruthStays

LEMMA KeptSame == \A s, M : Kept(s, s, M)
BY DEF Kept

\* The server starts, goes on without a queue, or gives up.
LEMMA PrivateAnswers ==
  ASSUME TypeInv, TypeInv', QueueInv, AnswerInv, UNCHANGED clientVars,
         \/ ServerStart \/ HandleSend \/ LoopSkip \/ LoopOpen \/ LoopDone
         \/ HandleSendTo \/ HandleIgnored \/ SendBad \/ SendFull \/ EvictEmpty \/ Unlink,
         NEW c \in Clients
  PROVE  OneAnswer(c)'
<1> USE DEF ownDescs, lists, loopVars, purgeVars, kernelVars
<1>1. Inbox' = Inbox
  <2>1. ~Receive
    BY DEF Receive, ServerStart, HandleSend, LoopSkip, LoopOpen, LoopDone, HandleSendTo,
       HandleIgnored, SendBad, SendFull, EvictEmpty, Unlink
  <2>2. QED
    BY <2>1, InboxStays DEF ServerStep, AnswerInv
<1>2. Box(c)' = Box(c)
  <2>1. CASE EvictEmpty \/ Unlink
    <3>1. SetQueues(mqs) /\ UNCHANGED my_mq
      BY <2>1 DEF EvictEmpty, Unlink
    <3>2. QED
      BY <3>1, BoxesAfter DEF Box
  <2>2. CASE ~(EvictEmpty \/ Unlink)
    BY <2>2 DEF ServerStart, HandleSend, LoopSkip, LoopOpen, LoopDone, HandleSendTo,
       HandleIgnored, SendBad, SendFull, Box
  <2>3. QED
    BY <2>1, <2>2
<1>3. OnRequest(c)' => OnRequest(c) /\ msg' = msg
  BY DEF OnRequest, ServerStart, HandleSend, LoopSkip, LoopOpen, LoopDone, HandleSendTo,
     HandleIgnored, SendBad, SendFull, EvictEmpty, Unlink, Return, CallSend
<1>4. OnAnswer(c)' => OnAnswer(c) /\ call'.msg = call.msg
  <2>1. CASE LoopOpen \/ HandleSendTo
    <3>1. call'.msg = msg /\ msg.tag \in {"SEND", "SEND_TO"}
      BY <2>1 DEF LoopOpen, HandleSendTo, CallSend, AnswerInv, Requested
    <3>2. QED
      BY <3>1 DEF OnAnswer, Answers
  <2>2. CASE SendFull
    <3>1. call \in Calls /\ server = "send" /\ call' = [call EXCEPT !.pl = call'.pl]
      BY <2>2 DEF SendFull, TypeInv, TypeOK, ServerTypeOK
    <3>2. call'.msg = call.msg /\ call'.client_name = call.client_name
      BY <3>1 DEF Calls
    <3>3. QED
      BY <3>1, <3>2 DEF OnAnswer
  <2>3. CASE ~(LoopOpen \/ HandleSendTo \/ SendFull)
    BY <2>3 DEF OnAnswer, ServerStart, HandleSend, LoopSkip, LoopDone,
       HandleIgnored, SendBad, EvictEmpty, Unlink, Return
  <2>4. QED
    BY <2>1, <2>2, <2>3
<1>5. UNCHANGED head_client
  BY DEF ServerStart, HandleSend, LoopSkip, LoopOpen, LoopDone, HandleSendTo,
     HandleIgnored, SendBad, SendFull, EvictEmpty, Unlink
<1>6. Dropped(c) => Dropped(c)'
  BY DEF Dropped, ServerStart, HandleSend, LoopSkip, LoopOpen, LoopDone, HandleSendTo,
     HandleIgnored, SendBad, SendFull, EvictEmpty, Unlink
<1>7. QED
  BY <1>1, <1>2, <1>3, <1>4, <1>5, <1>6, ListStays, KeptSame, NoConcern DEF clientVars, AnswerInv

\* The server takes a message up: the request of its sender, or something else.
LEMMA ReceiveAnswers ==
  ASSUME TypeInv, TypeInv', QueueInv, AnswerInv, UNCHANGED clientVars, Receive,
         NEW c \in Clients
  PROVE  OneAnswer(c)'
<1> USE DEF ownDescs, lists, loopVars, purgeVars, fixedVars
<1>1. /\ mqd = names[SRV] /\ mqd \in QIds /\ mqd # NoQ
  BY KernelAssumption DEF Receive, AnswerInv, Wiring, TypeInv, LocalsReady
<1>2. /\ Inbox = mqs[mqd] /\ Inbox # <<>> /\ msg' = Head(Inbox) /\ server' = "handle"
      /\ Inbox' = Tail(Inbox)
  BY <1>1 DEF Receive, Inbox, Dequeue, TypeInv, TypeOK, KernelTypeOK
<1>3. Box(c)' = Box(c)
  BY <1>1, Apart DEF Receive, Box, Dequeue, TypeInv, TypeOK, KernelTypeOK
<1>4. CASE Head(Inbox) \in Asks(c)
  BY <1>2, <1>3, <1>4, TakenUp DEF AnswerInv
<1>5. CASE Head(Inbox) \notin Asks(c)
  <2>1. ~OnRequest(c)' /\ ~OnAnswer(c)'
    BY <1>2, <1>5 DEF OnRequest, OnAnswer, Asks
  <2>2. Kept(Inbox, Inbox', Asks(c)) /\ Kept(Box(c), Box(c)', Answers)
    BY <1>2, <1>3, OnlyTail, BoxType, KeptSame
  <2>3. UNCHANGED head_client /\ (Dropped(c) => Dropped(c)')
    BY DEF Receive, Dropped
  <2>4. QED
    BY <2>1, <2>2, <2>3, ListStays, NoConcern DEF clientVars, AnswerInv
<1>6. QED
  BY <1>4, <1>5

\* The server makes room in a full queue; what goes may be an answer.
LEMMA EvictAnswers ==
  ASSUME TypeInv, TypeInv', QueueInv, AnswerInv, UNCHANGED clientVars, Evict,
         NEW c \in Clients
  PROVE  OneAnswer(c)'
<1> USE DEF ownDescs, lists, loopVars, purgeVars, fixedVars
<1>1. /\ mqd_tmp \in QIds /\ mqd_tmp # NoQ /\ mqd_tmp # names[SRV]
      /\ mqs \in [QIds -> Seq(Messages)]
      /\ my_mq \in [Clients -> QIds \cup {NoQ}] /\ mqs[mqd_tmp] # <<>>
      /\ mqs' = Dequeue(mqd_tmp) /\ UNCHANGED <<names, my_mq>>
  BY KernelAssumption, Apart DEF Evict, TypeInv, TypeOK, KernelTypeOK, LocalsReady
<1>2. Inbox' = Inbox
  BY InboxStays DEF ServerStep, Evict, Receive, AnswerInv
<1>3. Box(c)' = Box(c) \/ (Box(c) # <<>> /\ Box(c)' = Tail(Box(c)))
  BY <1>1 DEF Box, Dequeue
<1>4. Kept(Box(c), Box(c)', Answers)
  BY <1>3, OnlyTail, BoxType, KeptSame
<1>5. /\ OnRequest(c)' => OnRequest(c) /\ msg' = msg
      /\ UNCHANGED head_client /\ (Dropped(c) => Dropped(c)')
  BY DEF Evict, OnRequest, Dropped
<1>6. OnAnswer(c)' => OnAnswer(c) /\ call'.msg = call.msg
  <2>1. call \in Calls /\ server = "evict" /\ call' = [call EXCEPT !.oldest = call'.oldest]
    BY DEF Evict, TypeInv, TypeOK, ServerTypeOK
  <2>2. call'.msg = call.msg /\ call'.client_name = call.client_name
    BY <2>1 DEF Calls
  <2>3. QED
    BY <2>1, <2>2 DEF OnAnswer
<1>7. QED
  BY <1>2, <1>4, <1>5, <1>6, ListStays, KeptSame, NoConcern DEF clientVars, AnswerInv

\* The server puts a message into the queue of a client.
LEMMA SendAnswers ==
  ASSUME TypeInv, TypeInv', QueueInv, AnswerInv, UNCHANGED clientVars,
         SendOk \/ Overwrite \/ OverwriteCrashedAnswer \/ OverwriteCrashed,
         NEW c \in Clients
  PROVE  OneAnswer(c)'
<1> USE DEF ownDescs, lists, loopVars, purgeVars, fixedVars
<1>1. /\ mqd_tmp \in QIds /\ mqd_tmp # NoQ /\ mqd_tmp # names[SRV]
      /\ mqs \in [QIds -> Seq(Messages)]
      /\ my_mq \in [Clients -> QIds \cup {NoQ}]
      /\ call.msg \in Messages
      /\ UNCHANGED <<names, my_mq, head_client>>
  BY KernelAssumption, Apart DEF SendOk, Overwrite, OverwriteCrashedAnswer,
     OverwriteCrashed, TypeInv, TypeOK, KernelTypeOK, LocalsReady
<1>i. Inbox' = Inbox
  BY InboxStays DEF ServerStep, SendOk, Overwrite, OverwriteCrashedAnswer,
     OverwriteCrashed, Receive, AnswerInv
<1> DEFINE content == Enqueue(mqd_tmp, call.msg)
<1>q. \A q \in QIds : content[q] = IF q = mqd_tmp THEN Append(mqs[q], call.msg) ELSE mqs[q]
  BY <1>1 DEF Enqueue
<1>b. Box(c)' = IF my_mq[c] = NoQ THEN <<>> ELSE content[my_mq[c]]
  <2>1. CASE SendOk \/ Overwrite \/ OverwriteCrashedAnswer
    <3>1. SetQueues(content)
      BY <2>1 DEF SendOk, Overwrite, OverwriteCrashedAnswer
    <3> HIDE DEF content
    <3>2. QED
      BY <1>1, <3>1, BoxesAfter
  <2>2. CASE OverwriteCrashed
    BY <1>1, <2>2 DEF OverwriteCrashed, Box
  <2>3. QED
    BY <2>1, <2>2
<1> HIDE DEF content
<1>2. /\ Inbox' = Inbox
      /\ Box(c)' = IF my_mq[c] = mqd_tmp THEN Append(Box(c), call.msg) ELSE Box(c)
  BY <1>1, <1>i, <1>q, <1>b DEF Box
<1>3. server \in {"send", "overwrite"} /\ server' \in {"loop", "recv", "purge"}
  BY DEF SendOk, Overwrite, OverwriteCrashedAnswer, OverwriteCrashed, Return
<1>4. ~Working(c)'
  BY <1>3 DEF Working, OnRequest, OnAnswer
<1>5. Dropped(c) => Dropped(c)'
  BY <1>3 DEF Dropped, SendOk, Overwrite, OverwriteCrashedAnswer, OverwriteCrashed
<1>6. TrueAnswers(c) \subseteq TrueAnswers(c)'
  BY <1>1, <1>5, ListStays
<1>7. CASE OnAnswer(c)
  <2>1. mqd_tmp = my_mq[c]
    BY <1>1, <1>7 DEF AnswerInv, Wiring, Served
  <2>2. QED
    BY <1>2, <1>4, <1>6, <1>7, <2>1, AnswerSent DEF AnswerInv
<1>8. CASE ~OnAnswer(c)
  <2>1. my_mq[c] = mqd_tmp => call.msg \notin Answers
    <3> SUFFICES ASSUME my_mq[c] = mqd_tmp, call.msg \in Answers
                 PROVE  FALSE
      OBVIOUS
    <3>1. call.client_name \in Clients
      BY <1>3 DEF TypeInv, LocalsReady
    <3>2. OnAnswer(call.client_name)
      BY <1>3 DEF OnAnswer
    <3>3. mqd_tmp = my_mq[call.client_name]
      BY <1>1, <3>1, <3>2 DEF AnswerInv, Wiring, Served
    <3>4. call.client_name = c
      BY <1>1, <3>1, <3>3 DEF AnswerInv, Wiring
    <3>5. QED
      BY <1>8, <3>2, <3>4
  <2>2. Kept(Box(c), Box(c)', Answers)
    BY <1>1, <1>2, <2>1, OnlyAppend, BoxType, KeptSame
  <2>3. QED
    BY <1>2, <1>4, <1>6, <2>2, KeptSame, NoConcern DEF clientVars, AnswerInv, Working
<1>9. QED
  BY <1>7, <1>8

---------------------------------------------------------------------------
(* The steps of the server that change its list or answer.                 *)

\* An answer the server makes for the message it works on.
LEMMA GivesAnswer ==
  ASSUME TypeInv, TypeInv', AnswerInv, UNCHANGED <<clientVars, mqs, names, my_mq, msg>>,
         server \in {"handle", "delete"}, msg.tag \in Answered,
         NEW reply \in Replies, Respond(reply),
         NEW c \in Clients, NEW s \in Clients, s = msg.source,
         [tag |-> "RESPONSE", source |-> s, topic |-> msg.topic, data |-> reply]
           \in TrueAnswers(s)',
         c # s => TrueAnswers(c) \subseteq TrueAnswers(c)'
  PROVE  OneAnswer(c)'
<1>1. /\ server' = "send" /\ call'.client_name = msg.source
      /\ call'.msg = [tag |-> "RESPONSE", source |-> msg.source, topic |-> msg.topic,
                      data |-> reply]
  BY DEF Respond, CallSend
<1>2. msg \in Messages /\ msg.source \in Clients
  BY MessageFields DEF TypeInv, LocalsReady
<1>3. Inbox' = Inbox /\ Box(c)' = Box(c)
  BY DEF Inbox, Box
<1>4. CASE c = msg.source
  <2>1. OnRequest(c) /\ ~OnRequest(c)' /\ OnAnswer(c)'
    BY <1>1, <1>2, <1>4, AnswerType DEF OnRequest, OnAnswer, Asks, Answers
  <2>2. QED
    BY <1>1, <1>3, <1>4, <2>1, Answering DEF AnswerInv, clientVars
<1>5. CASE c # msg.source
  <2>1. ~OnRequest(c)' /\ ~OnAnswer(c)'
    BY <1>1, <1>5 DEF OnRequest, OnAnswer, Asks
  <2>2. QED
    BY <1>3, <1>5, <2>1, KeptSame, NoConcern DEF AnswerInv, clientVars
<1>6. QED
  BY <1>4, <1>5

\* SUBCRIBE.
LEMMA SubcribeAnswers ==
  ASSUME TypeInv, TypeInv', RowsInv, AnswerInv, UNCHANGED clientVars, HandleSubcribe,
         NEW c \in Clients
  PROVE  OneAnswer(c)'
<1> USE DEF ownDescs, loopVars, fixedVars
<1>0. msg \in Messages /\ msg.source \in Clients
  BY MessageFields DEF HandleSubcribe, TypeInv, LocalsReady
<1>s. PICK s \in Clients : s = msg.source
  BY <1>0
<1>t. PICK data \in Rows : data = create_data(s, msg.topic)
  BY <1>0, <1>s, RowType
<1>1. /\ data.client_name = s /\ data.topic = msg.topic
      /\ head_client \in Seq(Rows) /\ head_client' \in Seq(Rows)
  BY <1>t, SubscribedRow DEF create_data
<1>2. /\ UNCHANGED <<mqs, names, my_mq, msg>>
      /\ server = "handle" /\ msg.tag = "SUBCRIBE"
      /\ \A d \in Clients \ {s} : Dropped(d) => Dropped(d)'
  BY <1>s DEF HandleSubcribe, Dropped, Respond, CallSend
<1>3. OnRequest(s) /\ msg = request[s] /\ request'[s] = request[s]
  BY <1>0, <1>s, <1>2 DEF OnRequest, Asks, Answered, AnswerInv, OneAnswer, clientVars
<1>4. \/ head_client' = head_client
      \/ RowSet(head_client') = RowSet(head_client) \cup {data}
  BY <1>1, <1>s, <1>t, AddedRows DEF HandleSubcribe
<1>5. \A d \in Clients \ {s} : \A topic : Subscribed(d, topic)' <=> Subscribed(d, topic)
  <2>1. \A d \in Clients \ {s} : \A topic : create_data(d, topic) # data
    BY <1>1 DEF create_data
  <2>2. QED
    BY <1>4, <2>1, SubscribedRow
<1>6. \A d \in Clients \ {s} : TrueAnswers(d) \subseteq TrueAnswers(d)'
  BY <1>2, <1>5, TruthStays DEF clientVars
<1>7. CASE TopicLimitHit
  <2>1. Respond("SUBCRIBE_FAIL")
    BY <1>7 DEF HandleSubcribe
  <2>2. [tag |-> "RESPONSE", source |-> s, topic |-> msg.topic, data |-> "SUBCRIBE_FAIL"]
          \in TrueAnswers(s)'
    BY <1>0, <1>s, <1>3, AnswerType DEF TrueAnswers, Answers, Replies
  <2>3. QED
    BY <1>s, <1>2, <1>6, <2>1, <2>2, GivesAnswer DEF Replies, Answered
<1>8. CASE ~TopicLimitHit
  <2>1. Respond("SUBCRIBE_SUCCESS")
    BY <1>8 DEF HandleSubcribe
  <2>2. Subscribed(s, msg.topic)'
    <3>1. CASE get_index_by_data(head_client, data) # {}
      BY <1>s, <1>t, <1>2, <1>8, <3>1 DEF HandleSubcribe, Subscribed
    <3>2. CASE get_index_by_data(head_client, data) = {}
      <4>1. head_client' = add_client(head_client, data)
        BY <1>s, <1>t, <1>8, <3>2 DEF HandleSubcribe
      <4>2. data \in RowSet(head_client')
        BY <1>1, <4>1, AddedRows
      <4>3. QED
        BY <1>t, <1>2, <4>2, SubscribedRow
    <3>3. QED
      BY <3>1, <3>2
  <2>3. [tag |-> "RESPONSE", source |-> s, topic |-> msg.topic, data |-> "SUBCRIBE_SUCCESS"]
          \in TrueAnswers(s)'
    BY <1>0, <1>s, <1>2, <1>3, <2>2, AnswerType DEF TrueAnswers, Answers, Replies
  <2>4. QED
    BY <1>s, <1>2, <1>6, <2>1, <2>3, GivesAnswer DEF Replies, Answered
<1>9. QED
  BY <1>7, <1>8

\* A deletion of a row of c.
LEMMA DeletionKeepsOthers ==
  ASSUME TypeInv, TypeInv', RowsInv, NEW c, NEW i \in get_index_by_name(head_client, c),
         head_client' = delete_client(head_client, i)
  PROVE  /\ \A d \in Clients \ {c} : \A topic : Subscribed(d, topic)' <=> Subscribed(d, topic)
         /\ \A topic : Subscribed(c, topic)' => Subscribed(c, topic)
         /\ RowSet(head_client') = RowSet(head_client) \ {Row(head_client, i)}
<1>1. /\ head_client \in Seq(Rows) /\ head_client' \in Seq(Rows)
      /\ i \in Nat /\ i < Len(head_client) /\ Row(head_client, i).client_name = c
  BY SubscribedRow DEF get_index_by_name, Indexes
<1>2. RowSet(head_client') = RowSet(head_client) \ {Row(head_client, i)}
  BY <1>1, DeletedRowSet DEF RowsInv, NoDuplicateRows
<1>3. \A d, topic : create_data(d, topic).client_name = d
  BY DEF create_data
<1>4. \A d \in Clients \ {c} : \A topic : create_data(d, topic) # Row(head_client, i)
  BY <1>1, <1>3
<1>5. QED
  BY <1>2, <1>4, SubscribedRow

\* UNSUBCRIBE of one topic.
LEMMA UnsubcribeAnswers ==
  ASSUME TypeInv, TypeInv', RowsInv, AnswerInv, UNCHANGED clientVars, HandleUnsubcribe,
         NEW c \in Clients
  PROVE  OneAnswer(c)'
<1> USE DEF loopVars, fixedVars, purgeVars
<1>0. msg \in Messages /\ msg.source \in Clients
  BY MessageFields DEF HandleUnsubcribe, TypeInv, LocalsReady
<1>s. PICK s \in Clients : s = msg.source
  BY <1>0
<1>t. PICK data \in Rows : data = create_data(s, msg.topic)
  BY <1>0, <1>s, RowType
<1>1. /\ data.client_name = s
      /\ head_client \in Seq(Rows) /\ head_client' \in Seq(Rows)
  BY <1>t, SubscribedRow DEF create_data
<1> DEFINE found == get_index_by_data(head_client, data)
           answer(reply) == [tag |-> "RESPONSE", source |-> s, topic |-> msg.topic,
                             data |-> reply]
<1>2. /\ UNCHANGED <<mqs, names, my_mq, msg>>
      /\ server = "handle" /\ msg.tag = "UNSUBCRIBE" /\ server' = "send"
      /\ \A d \in Clients : Dropped(d) => Dropped(d)'
  BY DEF HandleUnsubcribe, Dropped, Respond, CallSend
<1>3. OnRequest(s) /\ msg = request[s] /\ request'[s] = request[s]
  BY <1>0, <1>s, <1>2 DEF OnRequest, Asks, Answered, AnswerInv, OneAnswer, clientVars
<1>4. CASE found = {}
  <2>1. Respond("UNSUBCRIBE_FAIL") /\ head_client' = head_client
    BY <1>s, <1>t, <1>4 DEF HandleUnsubcribe
  <2>2. answer("UNSUBCRIBE_FAIL") \in TrueAnswers(s)'
    BY <1>0, <1>s, <1>3, AnswerType DEF TrueAnswers, Answers, Replies
  <2>3. TrueAnswers(c) \subseteq TrueAnswers(c)'
    BY <1>2, <2>1, ListStays
  <2>4. QED
    BY <1>s, <1>2, <2>1, <2>2, <2>3, GivesAnswer DEF Replies, Answered
<1>5. CASE found # {}
  <2>1. PICK i \in found : /\ head_client' = delete_client(head_client, i)
                           /\ Respond(IF CanDelete(head_client, i)
                                      THEN "UNSUBCRIBE_SUCCESS" ELSE "UNSUBCRIBE_FAIL")
    BY <1>s, <1>t, <1>5 DEF HandleUnsubcribe
  <2>2. i \in get_index_by_name(head_client, s) /\ Row(head_client, i) = data
    BY <1>1 DEF get_index_by_data, get_index_by_name
  <2>3. CanDelete(head_client, i)
    BY <1>1, FoundRow, DeleteClientRows
  <2>4. /\ \A d \in Clients \ {s} : \A topic : Subscribed(d, topic)' <=> Subscribed(d, topic)
        /\ RowSet(head_client') = RowSet(head_client) \ {data}
    BY <2>1, <2>2, DeletionKeepsOthers
  <2>5. ~Subscribed(s, msg.topic)'
    BY <1>t, <1>2, <2>4, SubscribedRow
  <2>6. answer("UNSUBCRIBE_SUCCESS") \in TrueAnswers(s)'
    BY <1>0, <1>s, <1>2, <1>3, <2>5, AnswerType DEF TrueAnswers, Answers, Replies
  <2>7. c # s => TrueAnswers(c) \subseteq TrueAnswers(c)'
    BY <1>2, <2>4, TruthStays DEF clientVars
  <2>8. Respond("UNSUBCRIBE_SUCCESS")
    BY <2>1, <2>3
  <2>9. QED
    BY <1>s, <1>2, <2>6, <2>7, <2>8, GivesAnswer DEF Replies, Answered
<1>6. QED
  BY <1>4, <1>5

\* UNSUBCRIBE ALL begins, or ends, with no row of the client.
LEMMA NoRowLeft ==
  ASSUME head_client \in Seq(Rows), NEW c, get_index_by_name(head_client, c) = {}, NEW topic
  PROVE  ~Subscribed(c, topic)
BY DEF Subscribed, get_index_by_data, get_index_by_name, create_data

LEMMA UnsubcribeAllAnswers ==
  ASSUME TypeInv, TypeInv', RowsInv, AnswerInv, UNCHANGED clientVars,
         HandleUnsubcribeAll \/ DeleteDone,
         NEW c \in Clients
  PROVE  OneAnswer(c)'
<1> USE DEF loopVars, fixedVars, purgeVars, lists, kernelVars
<1>1. /\ msg \in Messages /\ msg.source \in Clients /\ server \in {"handle", "delete"}
      /\ msg.tag = "UNSUBCRIBE" /\ head_client \in Seq(Rows)
  BY MessageFields, SubscribedRow DEF HandleUnsubcribeAll, DeleteDone, TypeInv, LocalsReady,
     AnswerInv, Requested
<1>s. PICK s \in Clients : s = msg.source
  BY <1>1
<1> DEFINE answer(reply) == [tag |-> "RESPONSE", source |-> s, topic |-> msg.topic,
                             data |-> reply]
<1>2. /\ UNCHANGED <<mqs, names, my_mq, msg, head_client, purged>>
      /\ server' \in {"send", "delete"} /\ server # "purge"
  BY DEF HandleUnsubcribeAll, DeleteDone, Respond, CallSend
<1>3. OnRequest(s) /\ msg = request[s] /\ request'[s] = request[s]
  BY <1>s, <1>1 DEF OnRequest, Asks, Answered, AnswerInv, OneAnswer, clientVars
<1>4. TrueAnswers(c) \subseteq TrueAnswers(c)'
  BY <1>2, ListStays DEF Dropped
<1>5. CASE HandleUnsubcribeAll /\ index_gr' # {}
  <2>1. server' = "delete" /\ UNCHANGED call
    BY <1>5 DEF HandleUnsubcribeAll
  <2>2. Inbox' = Inbox /\ Box(c)' = Box(c)
    BY <1>2 DEF Inbox, Box
  <2>3. /\ OnRequest(c)' => OnRequest(c) /\ msg' = msg
        /\ ~OnAnswer(c)'
    BY <1>1, <1>2, <2>1 DEF OnRequest, OnAnswer
  <2>4. QED
    BY <1>4, <2>2, <2>3, KeptSame, NoConcern DEF AnswerInv, clientVars
<1>6. CASE (HandleUnsubcribeAll /\ index_gr' = {}) \/ DeleteDone
  <2>1. get_index_by_name(head_client, s) = {}
    BY <1>s, <1>6 DEF HandleUnsubcribeAll, DeleteDone, RowsInv, DeleteIndexesFresh
  <2>2. Respond("UNSUBCRIBE_SUCCESS")
    BY <1>6 DEF HandleUnsubcribeAll, DeleteDone, RowsInv, DeletesSucceed
  <2>3. ~Subscribed(s, msg.topic)'
    BY <1>1, <1>2, <2>1, NoRowLeft DEF Subscribed
  <2>4. answer("UNSUBCRIBE_SUCCESS") \in TrueAnswers(s)'
    BY <1>s, <1>1, <1>2, <1>3, <2>3, AnswerType DEF TrueAnswers, Answers, Replies
  <2>5. QED
    BY <1>s, <1>1, <1>2, <1>4, <2>2, <2>4, GivesAnswer DEF Replies, Answered
<1>7. QED
  BY <1>5, <1>6

\* One row less of the client that unsubscribes, or of one that is dropped.
LEMMA LoopAnswers ==
  ASSUME TypeInv, TypeInv', RowsInv, AnswerInv, UNCHANGED clientVars,
         DeleteRow \/ PurgeRow,
         NEW c \in Clients
  PROVE  OneAnswer(c)'
<1> USE DEF kernelVars
<1>1. /\ UNCHANGED <<mqs, names, my_mq, msg, call, server, purged>>
      /\ server \in {"delete", "purge"}
  BY DEF DeleteRow, PurgeRow
<1>2. Inbox' = Inbox /\ Box(c)' = Box(c)
  BY <1>1 DEF Inbox, Box
<1>3. /\ OnRequest(c)' <=> OnRequest(c)
      /\ ~OnAnswer(c)'
      /\ Dropped(c)' <=> Dropped(c)
  BY <1>1 DEF OnRequest, OnAnswer, Dropped
<1>4. CASE DeleteRow
  <2>1. PICK i \in index_gr : head_client' = delete_client(head_client, i)
    BY <1>4 DEF DeleteRow
  <2>2. i \in get_index_by_name(head_client, msg.source)
    BY <1>4 DEF DeleteRow, RowsInv, DeleteIndexesFresh
  <2>3. \A d \in Clients \ {msg.source} : \A topic : Subscribed(d, topic)' <=> Subscribed(d, topic)
    BY <2>1, <2>2, DeletionKeepsOthers
  <2>4. CASE c # msg.source
    <3>1. TrueAnswers(c) \subseteq TrueAnswers(c)'
      BY <1>3, <2>3, <2>4, TruthStays DEF clientVars
    <3>2. QED
      BY <1>1, <1>2, <1>3, <3>1, KeptSame, NoConcern DEF AnswerInv, clientVars
  <2>5. CASE c = msg.source
    <3>1. OnRequest(c)
      BY <1>4, <2>5 DEF DeleteRow, OnRequest, Asks, Answered, AnswerInv, Requested, TypeInv,
         LocalsReady
    <3>2. Working(c) /\ Working(c)' /\ OneAnswer(c)
      BY <1>3, <3>1 DEF Working, AnswerInv
    <3>3. QED
      BY <1>1, <1>2, <1>3, <3>2 DEF OneAnswer, Asks, Answers, Working, clientVars
  <2>6. QED
    BY <2>4, <2>5
<1>5. CASE PurgeRow
  <2>1. PICK i \in crash_gr : head_client' = delete_client(head_client, i)
    BY <1>5 DEF PurgeRow
  <2>g. PICK gone \in Clients : gone = call.client_name
    BY <1>5 DEF PurgeRow, TypeInv, LocalsReady
  <2>2. i \in get_index_by_name(head_client, gone) /\ server = "purge"
    BY <1>5, <2>g DEF PurgeRow, RowsInv, DeleteIndexesFresh
  <2>3. /\ \A d \in Clients \ {gone} : \A topic : Subscribed(d, topic)' <=> Subscribed(d, topic)
        /\ \A topic : Subscribed(gone, topic)' => Subscribed(gone, topic)
    BY <2>1, <2>2, DeletionKeepsOthers
  <2>4. c = gone => Dropped(c)'
    BY <1>3, <2>2, <2>g DEF Dropped
  <2>5. /\ \A topic : Subscribed(c, topic)' => Subscribed(c, topic)
        /\ Dropped(c)' \/ \A topic : Subscribed(c, topic) => Subscribed(c, topic)'
    BY <2>3, <2>4
  <2>6. TrueAnswers(c) \subseteq TrueAnswers(c)'
    BY <1>3, <2>5, TruthStays DEF clientVars
  <2>7. QED
    BY <1>1, <1>2, <1>3, <2>6, KeptSame, NoConcern DEF AnswerInv, clientVars
<1>6. QED
  BY <1>4, <1>5

---------------------------------------------------------------------------
(* The steps of the clients.                                               *)

\* The server stays where it is with the message it has.
LEMMA ServerStays ==
  ASSUME UNCHANGED serverVars
  PROVE  /\ \A c \in Clients : /\ OnRequest(c)' <=> OnRequest(c)
                               /\ OnAnswer(c)' <=> OnAnswer(c)
                               /\ Working(c)' <=> Working(c)
         /\ msg' = msg /\ call' = call
         /\ \A c \in Clients : request'[c] = request[c] => TrueAnswers(c)' = TrueAnswers(c)
BY DEF serverVars, OnRequest, OnAnswer, Working, TrueAnswers, Subscribed, Dropped

\* A client that did not wait and does not.
LEMMA NotWaiting ==
  ASSUME NEW c \in Clients, OneAnswer(c), UNCHANGED serverVars,
         client[c] # "waiting", client'[c] # "waiting",
         Kept(Inbox, Inbox', Asks(c)), Box(c)' = <<>> \/ Kept(Box(c), Box(c)', Answers)
  PROVE  OneAnswer(c)'
<1>1. ~Working(c) /\ ~Working(c)' /\ ~OnRequest(c)' /\ ~OnAnswer(c)'
  BY ServerStays DEF OneAnswer, Working
<1>2. Only(Inbox, Asks(c), {}) /\ Only(Box(c), Answers, {})
  BY DEF OneAnswer
<1>3. Only(Inbox', Asks(c), {}) /\ Only(Box(c)', Answers, {})
  BY <1>2, OnlyInEmpty DEF Kept
<1>4. QED
  BY <1>1, <1>3 DEF OneAnswer, Asks, Answers

\* A client whose call and queue are left alone.
LEMMA LeftAlone ==
  ASSUME NEW c \in Clients, OneAnswer(c), UNCHANGED serverVars,
         client'[c] = client[c], request'[c] = request[c], Box(c)' = Box(c),
         Kept(Inbox, Inbox', Asks(c))
  PROVE  OneAnswer(c)'
BY ServerStays, KeptSame, NoConcern

\* A process starts or ends outside a call.
LEMMA StartAnswers ==
  ASSUME TypeInv, TypeInv', QueueInv, AnswerInv, NEW c \in Clients, Start(c) \/ Close(c),
         NEW d \in Clients
  PROVE  OneAnswer(d)'
<1>1. /\ names \in [Names -> QIds \cup {NoQ}] /\ my_mq \in [Clients -> QIds \cup {NoQ}]
      /\ client \in [Clients -> {"off", "idle", "sending", "waiting"}]
      /\ request \in [Clients -> Messages \cup {NoMsg}]
      /\ c \in Names /\ c # SRV /\ SRV \in Names
  BY KernelAssumption DEF TypeInv, TypeOK, KernelTypeOK, ClientTypeOK, Names
<1>2. /\ SetQueues(mqs) /\ UNCHANGED serverVars /\ names'[SRV] = names[SRV]
      /\ \A e \in Clients \ {c} : /\ client'[e] = client[e] /\ request'[e] = request[e]
                                  /\ my_mq'[e] = my_mq[e]
      /\ client[c] # "waiting" /\ client'[c] # "waiting"
      /\ my_mq'[c] = NoQ \/ my_mq'[c] \in Creatable
  <2>1. Creatable # {} => (CHOOSE q \in Creatable : TRUE) \in Creatable
    OBVIOUS
  <2>2. QED
    BY <1>1, <2>1 DEF Start, Close, Gone
<1>3. Inbox' = Inbox /\ \A e \in Clients \ {c} : Box(e)' = Box(e)
  BY <1>2, BoxesAfter DEF Inbox, Box
<1>4. Box(c)' = <<>>
  BY <1>2, BoxesAfter DEF QueueInv, NewAreEmpty
<1>5. CASE d = c
  BY <1>2, <1>3, <1>4, <1>5, NotWaiting, KeptSame DEF AnswerInv
<1>6. CASE d # c
  BY <1>2, <1>3, <1>6, LeftAlone, KeptSame DEF AnswerInv
<1>7. QED
  BY <1>5, <1>6

\* A call up to its mq_open.
LEMMA CallAnswers ==
  ASSUME TypeInv, AnswerInv, NEW c \in Clients, NEW r, Call(c, r), NEW d \in Clients
  PROVE  OneAnswer(d)'
<1>1. /\ UNCHANGED serverVars /\ Inbox' = Inbox /\ Box(d)' = Box(d)
      /\ client[c] # "waiting" /\ client'[c] # "waiting"
      /\ d # c => client'[d] = client[d] /\ request'[d] = request[d]
  BY DEF Call, Inbox, Box, TypeInv, TypeOK, ClientTypeOK
<1>2. QED
  BY <1>1, NotWaiting, LeftAlone, KeptSame DEF AnswerInv

\* The message of a call gets in.
LEMMA SendOut ==
  ASSUME TypeInv, TypeInv', QueueInv, AnswerInv, NEW c \in Clients, Send(c)
  PROVE  /\ request[c] \in Messages /\ request[c].source = c
         /\ Inbox' = Append(Inbox, request[c])
         /\ \A d \in Clients : Box(d)' = Box(d)
<1>1. /\ mqs \in [QIds -> Seq(Messages)] /\ mqserver[c] \in QIds /\ request[c] \in Messages
      /\ my_mq \in [Clients -> QIds \cup {NoQ}] /\ names[SRV] \in QIds \cup {NoQ}
      /\ UNCHANGED <<names, my_mq>>
  BY DEF Send, TypeInv, TypeOK, KernelTypeOK, LocalsReady, Names
<1>2. mqserver[c] = names[SRV] /\ names[SRV] # NoQ /\ request[c].source = c
  BY <1>1, KernelAssumption DEF Send, AnswerInv, Wiring, Requested
<1> DEFINE content == Enqueue(mqserver[c], request[c])
<1>3. \A q \in QIds : content[q] = IF q = names[SRV] THEN Append(mqs[q], request[c]) ELSE mqs[q]
  BY <1>1, <1>2 DEF Enqueue
<1>4. SetQueues(content)
  BY DEF Send
<1> HIDE DEF content
<1>5. Inbox' = content[names[SRV]]
      /\ \A d \in Clients : Box(d)' = IF my_mq[d] = NoQ THEN <<>> ELSE content[my_mq[d]]
  BY <1>1, <1>2, <1>4, BoxesAfter
<1>6. QED
  BY <1>1, <1>2, <1>3, <1>5, Apart DEF Inbox, Box

LEMMA SendOutAnswers ==
  ASSUME TypeInv, TypeInv', QueueInv, AnswerInv, NEW c \in Clients, Send(c), NEW d \in Clients
  PROVE  OneAnswer(d)'
<1>1. /\ request[c] \in Messages /\ request[c].source = c
      /\ Inbox' = Append(Inbox, request[c])
      /\ Box(d)' = Box(d) /\ UNCHANGED serverVars /\ OneAnswer(d)
  BY SendOut DEF Send, AnswerInv
<1>2. /\ client[c] = "sending"
      /\ \A e \in Clients \ {c} : client'[e] = client[e] /\ request'[e] = request[e]
      /\ request[c].tag \notin Answered => client'[c] = "idle"
      /\ request[c].tag \in Answered => client'[c] = "waiting" /\ request'[c] = request[c]
  BY DEF Send, TypeInv, TypeOK, ClientTypeOK
<1>3. Inbox \in Seq(Messages)
  BY BoxType
<1>4. CASE request[c] \notin Asks(d)
  <2>1. Kept(Inbox, Inbox', Asks(d))
    BY <1>1, <1>3, <1>4, OnlyAppend
  <2>2. CASE d # c
    BY <1>1, <1>2, <2>1, <2>2, LeftAlone
  <2>3. CASE d = c
    <3>1. client'[c] = "idle"
      BY <1>1, <1>2, <1>4, <2>3 DEF Asks
    <3>2. QED
      BY <1>1, <1>2, <2>1, <2>3, <3>1, NotWaiting, KeptSame
  <2>4. QED
    BY <2>2, <2>3
<1>5. CASE request[c] \in Asks(d)
  <2>1. d = c /\ client'[d] = "waiting" /\ request'[d] = request[d]
    BY <1>1, <1>2, <1>5 DEF Asks
  <2>2. ~Working(d) /\ Only(Inbox, Asks(d), {}) /\ Only(Box(d), Answers, {})
    BY <1>1, <1>2, <2>1 DEF OneAnswer
  <2>3. ~Working(d)' /\ ~OnRequest(d)' /\ ~OnAnswer(d)'
    BY <1>1, <2>2, ServerStays DEF Working
  <2>4. Only(Inbox', Asks(d), {request'[d]})
    BY <1>1, <1>3, <2>1, <2>2, OnlyAppend
  <2>5. Only(Box(d)', Answers, {}) /\ Only(Box(d)', Answers, TrueAnswers(d)')
    BY <1>1, <2>2 DEF Only
  <2>6. QED
    BY <2>1, <2>3, <2>4, <2>5 DEF OneAnswer, Asks, Answers
<1>6. QED
  BY <1>4, <1>5

\* A client reads a message of its queue.
LEMMA ReadAnswers ==
  ASSUME TypeInv, TypeInv', QueueInv, AnswerInv, NEW c \in Clients, Await(c) \/ Take(c),
         NEW d \in Clients
  PROVE  OneAnswer(d)'
<1> USE DEF ownDescs
<1>1. /\ mqs \in [QIds -> Seq(Messages)] /\ my_mq[c] \in QIds /\ my_mq[c] # NoQ
      /\ my_mq \in [Clients -> QIds \cup {NoQ}] /\ names[SRV] \in QIds \cup {NoQ}
      /\ UNCHANGED <<names, my_mq>> /\ mqs' = Dequeue(my_mq[c]) /\ mqs[my_mq[c]] # <<>>
      /\ UNCHANGED serverVars /\ OneAnswer(d)
  BY KernelAssumption DEF Await, Take, TypeInv, TypeOK, KernelTypeOK, LocalsReady, Names, AnswerInv
<1>2. /\ Inbox' = Inbox
      /\ Box(c) # <<>> /\ Box(c)' = Tail(Box(c)) /\ Box(c) = mqs[my_mq[c]]
      /\ d # c => Box(d)' = Box(d)
  BY <1>1, Apart DEF Inbox, Box, Dequeue, AnswerInv, Wiring
<1>3. /\ Kept(Box(c), Tail(Box(c)), Answers) /\ Box(c) \in Seq(Messages)
      /\ Head(Box(c)) \in Messages
  BY <1>2, BoxType, OnlyTail, HeadTailType
<1>4. CASE d # c
  <2>1. client'[d] = client[d] /\ request'[d] = request[d]
    BY <1>4 DEF Await, Take, clientVars, TypeInv, TypeOK, ClientTypeOK
  <2>2. QED
    BY <1>1, <1>2, <1>4, <2>1, LeftAlone, KeptSame
<1>5. CASE d = c /\ Take(c)
  <2>1. client[c] # "waiting" /\ client'[c] # "waiting"
    BY <1>5 DEF Take, clientVars
  <2>2. QED
    BY <1>1, <1>2, <1>3, <1>5, <2>1, NotWaiting, KeptSame
<1>6. CASE d = c /\ Await(c) /\ Head(Box(c)).tag # "RESPONSE"
  <2>1. client'[c] = client[c] /\ request'[c] = request[c]
    BY <1>2, <1>6 DEF Await
  <2>2. QED
    BY <1>1, <1>2, <1>3, <1>6, <2>1, ServerStays, KeptSame, NoConcern
<1>7. CASE d = c /\ Await(c) /\ Head(Box(c)).tag = "RESPONSE"
  <2>1. client'[c] = "idle"
    BY <1>2, <1>7 DEF Await, TypeInv, TypeOK, ClientTypeOK
  <2>2. Head(Box(c)) \in Answers
    BY <1>3, <1>7 DEF Answers
  <2> DEFINE good == IF client[c] = "waiting" /\ ~Working(c) THEN TrueAnswers(c) ELSE {}
  <2>3. Only(Box(c), Answers, good)
    BY <1>1, <1>7 DEF OneAnswer
  <2>4. Head(Box(c)) \in good /\ Only(Tail(Box(c)), Answers, {})
    <3> HIDE DEF good
    <3>1. QED
      BY <1>2, <1>3, <2>2, <2>3, OnlyTail
  <2>5. ~Working(c)
    BY <2>4
  <2>6. ~Only(Box(c), Answers, {})
    <3>1. 1 \in DOMAIN Box(c) /\ Head(Box(c)) = Box(c)[1]
      BY <1>2, <1>3
    <3>2. QED
      BY <2>2, <3>1 DEF Only
  <2>7. Only(Inbox', Asks(c), {})
    BY <1>1, <1>2, <1>7, <2>6 DEF OneAnswer
  <2>8. QED
    BY <1>1, <1>2, <1>7, <2>1, <2>4, <2>5, <2>7, ServerStays DEF OneAnswer, Asks, Answers, Working
<1>8. QED
  BY <1>4, <1>5, <1>6, <1>7

---------------------------------------------------------------------------
(* Which queue is whose, and who is where.                                 *)

\* The server answers into the queue its answer is for.
LEMMA ServerWiring ==
  ASSUME TypeInv, TypeInv', AnswerInv, UNCHANGED clientVars, ServerStart \/ ServerStep
  PROVE  Wiring'
<1> USE DEF ownDescs, lists, loopVars, purgeVars, fixedVars, kernelVars
<1>0. /\ names \in [Names -> QIds \cup {NoQ}] /\ SRV \in Names /\ Clients \subseteq Names
      /\ msg \in Messages => msg.source \in Clients
  BY MessageFields DEF TypeInv, TypeOK, KernelTypeOK, Names
<1>1. CASE ServerStart
  <2>1. /\ server = "down" /\ server' = "recv" /\ UNCHANGED <<my_mq, mqserver>>
        /\ names[SRV] = NoQ /\ names' = [names EXCEPT ![SRV] = mqd']
    BY <1>1 DEF ServerStart, AnswerInv, Wiring
  <2>2. names'[SRV] = mqd' /\ \A c \in Clients : names'[c] = names[c]
    BY <1>0, <2>1, KernelAssumption
  <2>3. QED
    BY <2>1, <2>2 DEF AnswerInv, Wiring, Served, OnAnswer
<1>2. CASE ServerStep
  <2>1. UNCHANGED <<mqd, my_mq, mqserver>> /\ server # "down" /\ server' # "down"
    BY <1>2 DEF ServerStep, Receive, HandleSubcribe, HandleUnsubcribeAll, DeleteRow,
       DeleteDone, HandleUnsubcribe, HandleSend, LoopSkip, LoopOpen, LoopDone, HandleSendTo,
       HandleConfigLog, HandleIgnored, SendOk, SendBad, SendFull, Evict, EvictEmpty,
       Overwrite, OverwriteCrashedAnswer, OverwriteCrashed, PurgeRow, Unlink,
       Respond, CallSend, Return
  <2>2. names'[SRV] = names[SRV] /\ \A c \in Clients : names'[c] \in {names[c], NoQ}
    <3>1. CASE Unlink
      <4>1. call.client_name \in Clients
        BY <3>1 DEF Unlink, TypeInv, LocalsReady
      <4>2. QED
        BY <1>0, <3>1, <4>1, KernelAssumption DEF Unlink
    <3>2. CASE ~Unlink
      <4>1. UNCHANGED names
        BY <1>2, <3>2 DEF ServerStep, Receive, HandleSubcribe, HandleUnsubcribeAll, DeleteRow,
           DeleteDone, HandleUnsubcribe, HandleSend, LoopSkip, LoopOpen, LoopDone,
           HandleSendTo, HandleConfigLog, HandleIgnored, SendOk, SendBad, SendFull, Evict,
           EvictEmpty, Overwrite, OverwriteCrashedAnswer, OverwriteCrashed, PurgeRow
      <4>2. QED
        BY <4>1
    <3>3. QED
      BY <3>1, <3>2
  <2>3. ASSUME NEW c \in Clients, Served(c)'
        PROVE  mqd_tmp' \in {NoQ, my_mq[c]}
    <3>1. CASE HandleSubcribe \/ HandleUnsubcribe \/ HandleConfigLog \/ HandleUnsubcribeAll
      <4>1. mqd_tmp' = names[msg.source]
        BY <3>1 DEF HandleSubcribe, HandleUnsubcribe, HandleConfigLog, HandleUnsubcribeAll, Open
      <4>2. msg.source = c
        BY <2>3, <3>1 DEF HandleSubcribe, HandleUnsubcribe, HandleConfigLog,
           HandleUnsubcribeAll, Served, OnAnswer, Respond, CallSend
      <4>3. QED
        BY <4>1, <4>2 DEF AnswerInv, Wiring
    <3>2. CASE LoopOpen \/ HandleSendTo
      <4>1. call'.msg = msg /\ msg.tag \in {"SEND", "SEND_TO"}
        BY <3>2 DEF LoopOpen, HandleSendTo, CallSend, AnswerInv, Requested
      <4>2. QED
        BY <2>3, <3>2, <4>1 DEF Served, OnAnswer, Answers, LoopOpen, HandleSendTo, CallSend
    <3>3. CASE SendFull \/ Evict
      <4>1. /\ call \in Calls /\ server \in {"send", "evict"} /\ UNCHANGED mqd_tmp
            /\ \/ call' = [call EXCEPT !.pl = call'.pl]
               \/ call' = [call EXCEPT !.oldest = call'.oldest]
        BY <3>3 DEF SendFull, Evict, TypeInv, TypeOK, ServerTypeOK
      <4>2. call'.msg = call.msg /\ call'.client_name = call.client_name
        BY <4>1 DEF Calls
      <4>3. server' # "delete"
        BY <3>3 DEF SendFull, Evict
      <4>4. OnAnswer(c)
        BY <2>3, <4>1, <4>2, <4>3 DEF Served, OnAnswer
      <4>5. QED
        BY <4>1, <4>4 DEF AnswerInv, Wiring, Served
    <3>4. CASE DeleteRow \/ DeleteDone
      <4>1. server = "delete" /\ mqd_tmp' = mqd_tmp /\ msg.source = c
        BY <2>3, <3>4 DEF DeleteRow, DeleteDone, Served, OnAnswer, Respond, CallSend
      <4>2. QED
        BY <4>1 DEF AnswerInv, Wiring, Served
    <3>5. CASE ~(HandleSubcribe \/ HandleUnsubcribe \/ HandleConfigLog \/ HandleUnsubcribeAll
                 \/ LoopOpen \/ HandleSendTo \/ SendFull \/ Evict \/ DeleteRow \/ DeleteDone)
      <4>1. server' \notin {"send", "evict", "overwrite", "delete"}
        BY <1>2, <3>5 DEF ServerStep, Receive, HandleSend, LoopSkip, LoopDone,
           HandleIgnored, SendOk, SendBad, EvictEmpty, Overwrite, OverwriteCrashedAnswer,
           OverwriteCrashed, PurgeRow, Unlink, Return
      <4>2. QED
        BY <2>3, <4>1 DEF Served, OnAnswer
    <3>6. QED
      BY <3>1, <3>2, <3>3, <3>4, <3>5
  <2>4. QED
    BY <2>1, <2>2, <2>3 DEF AnswerInv, Wiring
<1>3. QED
  BY <1>1, <1>2

\* A process that starts has a queue of its own; one that the server answers does not
\* end.
LEMMA ClientWiring ==
  ASSUME TypeInv, AnswerInv, NEW c \in Clients,
         Start(c) \/ (\E r : Call(c, r)) \/ Send(c) \/ Await(c) \/ Take(c) \/ Close(c)
  PROVE  Wiring'
<1> USE DEF ownDescs
<1>0. /\ names \in [Names -> QIds \cup {NoQ}] /\ my_mq \in [Clients -> QIds \cup {NoQ}]
      /\ mqserver \in [Clients -> QIds \cup {NoQ}]
      /\ SRV \in Names /\ c \in Names /\ c # SRV /\ Clients \subseteq Names
  BY KernelAssumption DEF TypeInv, TypeOK, KernelTypeOK, Names
<1>1. UNCHANGED <<mqd, mqd_tmp, server, serverVars>>
  BY DEF Start, Call, Send, Await, Take, Close, Gone, serverVars
<1>2. /\ names'[SRV] = names[SRV]
      /\ \A d \in Clients : mqserver'[d] \in {NoQ, names[SRV], mqserver[d]}
      /\ \A d \in Clients \ {c} : names'[d] = names[d] /\ my_mq'[d] = my_mq[d]
      /\ (names'[c] = names[c] /\ my_mq'[c] = my_mq[c]) \/ names'[c] = my_mq'[c]
  BY <1>0 DEF Start, Call, Send, Await, Take, Close, Gone
<1>3. CASE Start(c) \/ Close(c)
  <2>1. my_mq'[c] = NoQ \/ my_mq'[c] \in Creatable
    <3>1. Creatable # {} => (CHOOSE q \in Creatable : TRUE) \in Creatable
      OBVIOUS
    <3>2. QED
      BY <1>0, <1>3, <3>1 DEF Start, Close, Gone
  <2>2. \A d \in Clients : my_mq[d] # NoQ => my_mq[d] \notin Creatable
    BY <1>0 DEF Creatable, Referenced
  <2>3. ~Served(c)
    <3>1. server = "delete" /\ msg.source = c => OnRequest(c)
      BY DEF AnswerInv, Requested, OnRequest, Asks, Answered, TypeInv, LocalsReady
    <3>2. ~Working(c)
      BY <1>3 DEF Start, Close, AnswerInv, OneAnswer
    <3>3. QED
      BY <3>1, <3>2 DEF Served, Working
  <2>4. \A d \in Clients : Served(d)' => Served(d) /\ d # c
    BY <1>1, <2>3, ServerStays DEF Served
  <2>5. QED
    BY <1>1, <1>2, <2>1, <2>2, <2>4 DEF AnswerInv, Wiring
<1>4. CASE ~(Start(c) \/ Close(c))
  <2>1. UNCHANGED my_mq
    BY <1>4 DEF Call, Send, Await, Take
  <2>2. \A d \in Clients : Served(d)' => Served(d)
    BY <1>1, ServerStays DEF Served
  <2>3. QED
    BY <1>1, <1>2, <2>1, <2>2 DEF AnswerInv, Wiring
<1>5. QED
  BY <1>3, <1>4

\* What the server takes up was sent by a client.
LEMMA ServerRequested ==
  ASSUME TypeInv, TypeInv', QueueInv, AnswerInv, UNCHANGED clientVars,
         ServerStart \/ ServerStep
  PROVE  Requested'
<1> USE DEF ownDescs, lists, loopVars, purgeVars, fixedVars, kernelVars
<1>1. \A c \in Clients :
        /\ client'[c] = "sending" =>
             request'[c] \in Messages /\ request'[c].source = c /\ request'[c].tag # "CONFIG"
        /\ client'[c] = "waiting" => request'[c] \in Asks(c)
  BY DEF AnswerInv, Requested, clientVars
<1>2. CASE Receive
  <2>1. /\ mqd = names[SRV] /\ mqd \in QIds /\ mqd # NoQ
    BY <1>2, KernelAssumption DEF Receive, AnswerInv, Wiring, TypeInv, LocalsReady
  <2>2. /\ Inbox = mqs[mqd] /\ Inbox # <<>> /\ msg' = Head(Inbox) /\ server' = "handle"
        /\ Inbox' = Tail(Inbox)
    BY <1>2, <2>1 DEF Receive, Inbox, Dequeue, TypeInv, TypeOK, KernelTypeOK
  <2>3. Inbox \in Seq(Messages)
    BY BoxType
  <2>4. /\ Head(Inbox) = Inbox[1] /\ 1 \in DOMAIN Inbox
        /\ \A k \in DOMAIN Tail(Inbox) : k + 1 \in DOMAIN Inbox /\ Tail(Inbox)[k] = Inbox[k + 1]
    BY <2>2, <2>3
  <2>5. QED
    BY <1>1, <2>2, <2>4 DEF AnswerInv, Requested, Asks
<1>3. CASE ~Receive
  <2>1. /\ server' = "delete" => msg'.tag = "UNSUBCRIBE"
        /\ server' = "loop" => msg'.tag = "SEND"
        /\ server' # "handle" /\ (server' = "delete" => msg'.tag # "CONFIG")
    BY <1>3 DEF ServerStep, ServerStart, HandleSubcribe, HandleUnsubcribeAll, DeleteRow,
       DeleteDone, HandleUnsubcribe, HandleSend, LoopSkip, LoopOpen, LoopDone, HandleSendTo,
       HandleConfigLog, HandleIgnored, SendOk, SendBad, SendFull, Evict, EvictEmpty,
       Overwrite, OverwriteCrashedAnswer, OverwriteCrashed, PurgeRow, Unlink,
       Respond, CallSend, Return, AnswerInv, Requested
  <2>2. QED
    BY <1>1, <1>3, <2>1, InboxStays DEF AnswerInv, Requested, Asks
<1>4. QED
  BY <1>2, <1>3

\* What a client sends is one of the calls it may make.
LEMMA ClientRequested ==
  ASSUME TypeInv, TypeInv', QueueInv, AnswerInv, NEW c \in Clients,
         \/ Start(c) \/ Send(c) \/ Await(c) \/ Take(c) \/ Close(c)
         \/ \E r \in Messages : r.tag # "CONFIG" /\ Call(c, r)
  PROVE  Requested'
<1> USE DEF ownDescs
<1>0. /\ client \in [Clients -> {"off", "idle", "sending", "waiting"}]
      /\ request \in [Clients -> Messages \cup {NoMsg}]
      /\ UNCHANGED serverVars
  BY DEF TypeInv, TypeOK, ClientTypeOK, Start, Call, Send, Await, Take, Close, Gone
<1>1. \A d \in Clients \ {c} : client'[d] = client[d] /\ request'[d] = request[d]
  BY <1>0 DEF Start, Call, Send, Await, Take, Close, Gone, clientVars
<1>2. /\ client'[c] = "sending" =>
           request'[c] \in Messages /\ request'[c].source = c /\ request'[c].tag # "CONFIG"
      /\ client'[c] = "waiting" => request'[c] \in Asks(c)
  <2>1. CASE Send(c)
    BY <1>0, <2>1 DEF Send, AnswerInv, Requested, Asks
  <2>2. CASE ~Send(c)
    BY <1>0, <2>2 DEF Start, Call, Await, Take, Close, Gone, clientVars, AnswerInv, Requested
  <2>3. QED
    BY <2>1, <2>2
<1>3. \A k \in DOMAIN Inbox' : Inbox'[k].tag # "CONFIG"
  <2>1. CASE Send(c)
    <3>1. request[c] \in Messages /\ Inbox' = Append(Inbox, request[c]) /\ request[c].tag # "CONFIG"
      BY <2>1, SendOut DEF Send, AnswerInv, Requested
    <3>2. Inbox \in Seq(Messages)
      BY BoxType
    <3>3. \A k \in DOMAIN Inbox' : \/ k \in DOMAIN Inbox /\ Inbox'[k] = Inbox[k]
                                   \/ Inbox'[k] = request[c]
      BY <3>1, <3>2
    <3>4. QED
      BY <3>1, <3>3 DEF AnswerInv, Requested
  <2>2. CASE ~Send(c)
    <3>1. Inbox' = Inbox
      <4>1. CASE Start(c) \/ Close(c)
        <5>1. SetQueues(mqs) /\ names'[SRV] = names[SRV]
          BY <4>1, KernelAssumption DEF Start, Close, Gone, TypeInv, TypeOK, KernelTypeOK, Names
        <5>2. QED
          BY <5>1, BoxesAfter DEF Inbox
      <4>2. CASE Await(c) \/ Take(c)
        <5>1. my_mq[c] \in QIds /\ mqs' = Dequeue(my_mq[c]) /\ UNCHANGED names
          BY <4>2 DEF Await, Take, TypeInv, LocalsReady
        <5>2. QED
          BY <5>1, Apart, KernelAssumption DEF Inbox, Dequeue, TypeInv, TypeOK, KernelTypeOK
      <4>3. CASE \E r \in Messages : r.tag # "CONFIG" /\ Call(c, r)
        BY <4>3 DEF Call, Inbox
      <4>4. QED
        BY <2>2, <4>1, <4>2, <4>3
    <3>2. QED
      BY <3>1 DEF AnswerInv, Requested
  <2>3. QED
    BY <2>1, <2>2
<1>4. QED
  BY <1>0, <1>1, <1>2, <1>3 DEF AnswerInv, Requested, Asks, serverVars

---------------------------------------------------------------------------
(* The theorem.                                                            *)

LEMMA ServerAnswers ==
  ASSUME TypeInv, TypeInv', QueueInv, RowsInv, AnswerInv, UNCHANGED clientVars,
         ServerStart \/ ServerStep
  PROVE  AnswerInv'
<1>1. ~HandleConfigLog
  BY DEF HandleConfigLog, AnswerInv, Requested
<1>2. ASSUME NEW c \in Clients
      PROVE  OneAnswer(c)'
  BY <1>1, PrivateAnswers, ReceiveAnswers, EvictAnswers, SendAnswers, SubcribeAnswers,
     UnsubcribeAnswers, UnsubcribeAllAnswers, LoopAnswers DEF ServerStep
<1>3. QED
  BY <1>2, ServerWiring, ServerRequested DEF AnswerInv

LEMMA ClientAnswers ==
  ASSUME TypeInv, TypeInv', QueueInv, AnswerInv, NEW c \in Clients,
         \/ Start(c) \/ Send(c) \/ Await(c) \/ Take(c) \/ Close(c)
         \/ \E r \in Messages : r.tag # "CONFIG" /\ Call(c, r)
  PROVE  AnswerInv'
<1>1. ASSUME NEW d \in Clients
      PROVE  OneAnswer(d)'
  BY StartAnswers, CallAnswers, SendOutAnswers, ReadAnswers
<1>2. QED
  BY <1>1, ClientWiring, ClientRequested DEF AnswerInv

LEMMA InitAnswers == Init => AnswerInv
<1> SUFFICES ASSUME Init PROVE AnswerInv
  OBVIOUS
<1>1. /\ server = "down" /\ \A n \in Names : names[n] = NoQ
      /\ \A c \in Clients : /\ my_mq[c] = NoQ /\ mqserver[c] = NoQ /\ client[c] = "off"
                            /\ c \in Names
      /\ SRV \in Names
  BY DEF Init, KernelInit, ServerInit, ClientInit, Names
<1>2. Inbox = <<>> /\ \A c \in Clients : Box(c) = <<>>
  BY <1>1 DEF Inbox, Box
<1>3. \A c \in Clients : ~Working(c) /\ ~OnRequest(c) /\ ~OnAnswer(c)
  BY <1>1 DEF Working, OnRequest, OnAnswer
<1>4. \A c \in Clients : OneAnswer(c)
  BY <1>1, <1>2, <1>3, OnlyInEmpty DEF OneAnswer
<1>5. Wiring
  BY <1>1, <1>3 DEF Wiring, Served
<1>6. DOMAIN <<>> = {}
  OBVIOUS
<1>7. Requested
  BY <1>1, <1>2, <1>6 DEF Requested
<1>8. QED
  BY <1>4, <1>5, <1>7 DEF AnswerInv

LEMMA StutterAnswers == AnswerInv /\ UNCHANGED vars => AnswerInv'
<1> SUFFICES ASSUME AnswerInv, UNCHANGED vars PROVE AnswerInv'
  OBVIOUS
<1>1. /\ UNCHANGED serverVars /\ UNCHANGED <<clientVars, kernelVars>>
      /\ Inbox' = Inbox /\ \A c \in Clients : Box(c)' = Box(c)
      /\ \A c \in Clients : client'[c] = client[c] /\ request'[c] = request[c]
  BY DEF vars, Inbox, Box, kernelVars, clientVars
<1>2. \A c \in Clients : OneAnswer(c)'
  BY <1>1, LeftAlone, KeptSame DEF AnswerInv
<1>3. \A c \in Clients : Served(c)' => Served(c)
  BY <1>1, ServerStays DEF Served, serverVars
<1>4. Wiring'
  BY <1>1, <1>3 DEF AnswerInv, Wiring, kernelVars, serverVars
<1>5. Requested'
  BY <1>1 DEF AnswerInv, Requested, Asks, serverVars
<1>6. QED
  BY <1>2, <1>4, <1>5 DEF AnswerInv

\* The invariant, inductive with those about the types, the queues and the rows.
THEOREM AnswerInvariant ==
  ASSUME NoDisturbance
  PROVE  Spec => []AnswerInv
<1>1. TypeInv /\ TypeInv' /\ QueueInv /\ RowsInv /\ AnswerInv /\ [Next]_vars => AnswerInv'
  <2> SUFFICES ASSUME TypeInv, TypeInv', QueueInv, RowsInv, AnswerInv, [Next]_vars
               PROVE  AnswerInv'
    OBVIOUS
  <2>1. CASE (ServerStart \/ ServerStep \/ ServerOutage) /\ UNCHANGED clientVars
    <3>1. ~ServerOutage
      BY DEF NoDisturbance, ServerOutage, ServerStop, ServerKill
    <3>2. QED
      BY <2>1, <3>1, ServerAnswers
  <2>2. ASSUME NEW c \in Clients, ClientStep(c)
        PROVE  AnswerInv'
    <3>1. ~Crash(c)
      BY DEF NoDisturbance, Crash
    <3>2. \A r \in Requests : r \in Messages /\ r.tag # "CONFIG"
      BY ClientAssumption DEF NoDisturbance
    <3>3. QED
      BY <2>2, <3>1, <3>2, ClientAnswers DEF ClientStep
  <2>3. QED
    BY <2>1, <2>2, StutterAnswers DEF Next
<1>2. QED
  BY <1>1, InitAnswers, TypeInvariant, QueueInvariant, RowsInvariant, PTL DEF Spec

LEMMA AnswersSuffice == TypeInv /\ AnswerInv => AnswersAreOwnAndTrue
<1> SUFFICES ASSUME TypeInv, AnswerInv, NEW c \in Clients, my_mq[c] # NoQ,
                    NEW k \in DOMAIN mqs[my_mq[c]],
                    mqs[my_mq[c]][k].tag = "RESPONSE"
             PROVE  /\ client[c] = "waiting"
                    /\ mqs[my_mq[c]][k] \in TrueAnswers(c)
  BY DEF AnswersAreOwnAndTrue, TrueAnswers
<1>1. Box(c) = mqs[my_mq[c]] /\ Box(c) \in Seq(Messages)
  BY BoxType DEF Box
<1>2. Box(c)[k] \in Answers
  BY <1>1 DEF Answers
<1>3. QED
  BY <1>1, <1>2 DEF AnswerInv, OneAnswer, Only

\* As long as no process is killed, a client that reads an answer waits for one, it is
\* the one to its request, and what it says is so: nothing in the protocol tells
\* answers apart, it is the clients' waiting that keeps them from mixing.
THEOREM AnswersMatch ==
  ASSUME NoDisturbance
  PROVE  Spec => []AnswersAreOwnAndTrue
BY AnswersSuffice, AnswerInvariant, TypeInvariant, PTL

=============================================================================
