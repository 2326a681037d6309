-------------------------- MODULE ProcessExamples --------------------------
(***************************************************************************)
(* Exchanges between two processes from the examples of process and system *)
(* calls: a pipe after fork, a POSIX queue with priorities, a shared       *)
(* memory segment and a FIFO.  One of them is chosen at the start.         *)
(***************************************************************************)
EXTENDS Integers, Sequences, SequencesExt, FiniteSets

CONSTANTS
  Priorities,    \* serve.c, client.c: 0 .. 9
  mq_maxmsg,     \* serve.c: 10
  MaxMails,      \* bound: the messages the client's user types before "exit"
  NumberOfShm    \* exm_shmget.c: 5 numbers are written

ASSUME ExchangeAssumption ==
  /\ Priorities \subseteq Nat /\ Priorities # {}
  /\ {mq_maxmsg, NumberOfShm} \subseteq Nat \ {0}
  /\ MaxMails \in Nat

Exchanges == {"pipe", "mail", "segment", "fifo"}
Processes == {"a", "b"}

VARIABLES
  exchange,  \* which programs run: two processes, a and b
  at,        \* per process: where it is; "end" and "failed" are its exits
  exists,    \* the queue, segment or FIFO both name
  opened,    \* processes that have it open (a pipe: its write end)
  content,   \* what is in it
  sent,      \* history: what was put into it, in order
  got        \* history: what process b (a segment: process a) read, in order

exchangeVars == <<exchange, at, exists, opened, content, sent, got>>

Move(p, from, to) == at[p] = from /\ at' = [at EXCEPT ![p] = to]
Exited(p) == at[p] \in {"end", "failed"}

---------------------------------------------------------------------------
(* pipe/exm_pipe_fork.c: a is the parent, b the child; both have both ends *)
(* open after fork.                                                        *)

ParentMessages == <<"msg1", "msg2", "msg3">>

\* write: process p has sent k messages, of which m is the next
PipeWrite(p, m) ==
  /\ content' = Append(content, m)
  /\ sent' = Append(sent, m)
  /\ UNCHANGED <<exchange, exists, opened, got>>

ParentWrite ==
  \E k \in 1 .. 3 :
    /\ Move("a", <<"start", "write2", "write3">>[k], <<"write2", "write3", "close">>[k])
    /\ PipeWrite("a", ParentMessages[k])

ChildWrite == Move("b", "start", "close") /\ PipeWrite("b", "msg4")

\* Seeded fault: the write end stays open while the process goes on.
PipeKeep(p) ==
  /\ Move(p, "close", "read")
  /\ UNCHANGED <<exchange, exists, opened, content, sent, got>>

\* close(p[1])
PipeClose(p) ==
  /\ Move(p, "close", "read")
  /\ opened' = opened \ {p}
  /\ UNCHANGED <<exchange, exists, content, sent, got>>

\* wait(NULL) of the parent
ParentWait ==
  /\ Move("a", "read", "end")
  /\ Exited("b")
  /\ UNCHANGED <<exchange, exists, opened, content, sent, got>>

ChildRead ==
  /\ at["b"] = "read"
  /\ content # <<>>
  /\ got' = Append(got, Head(content))
  /\ content' = Tail(content)
  /\ UNCHANGED <<exchange, at, exists, opened, sent>>

\* read returns 0: nothing is left, and nobody can write
ChildEnd ==
  /\ Move("b", "read", "end")
  /\ content = <<>> /\ opened = {}
  /\ UNCHANGED <<exchange, exists, opened, content, sent, got>>

Parent == exchange = "pipe" /\ (ParentWrite \/ PipeClose("a") \/ ParentWait)
Child == exchange = "pipe" /\ (ChildWrite \/ PipeClose("b") \/ ChildRead \/ ChildEnd)

---------------------------------------------------------------------------
(* Message_Queues/posix: a is client.c, b is serve.c.  Each message has a  *)
(* random priority, the one that stops the server too.  Messages have      *)
(* numbers, which the programs do not see: those of this client count from *)
(* 1 on, those an earlier run left up to 0.                                *)

\* What a server that was killed, and the clients it had, may leave in the queue.
OldMails ==
  UNION {{[k \in 1 .. n |-> [text |-> old[k][1], priority |-> old[k][2], number |-> k - n]] :
            old \in [1 .. n -> {"text", "exit"} \X Priorities]} : n \in 0 .. mq_maxmsg}

\* mq_open with O_CREAT: a queue that is there is taken over with what it holds
ServeOpen ==
  /\ Move("b", "start", "receive")
  /\ exists' = TRUE
  /\ opened' = opened \cup {"b"}
  /\ UNCHANGED <<exchange, content, sent, got>>

\* mq_receive takes the oldest of the messages of the highest priority.
NextMail(k) ==
  \A j \in DOMAIN content :
    \/ content[j].priority < content[k].priority
    \/ content[j].priority = content[k].priority /\ j >= k

\* Seeded fault: the server stops at a message that is not "exit".
ServeReceiveAny ==
  \E k \in DOMAIN content :
    /\ NextMail(k)
    /\ Move("b", "receive", "close")
    /\ got' = Append(got, content[k])
    /\ content' = RemoveAt(content, k)
    /\ UNCHANGED <<exchange, exists, opened, sent>>

\* Seeded fault: the whole line is compared, which ends with a newline.
ServeReceiveOn ==
  \E k \in DOMAIN content :
    /\ NextMail(k)
    /\ Move("b", "receive", "receive")
    /\ got' = Append(got, content[k])
    /\ content' = RemoveAt(content, k)
    /\ UNCHANGED <<exchange, exists, opened, sent>>

ServeReceive ==
  \E k \in DOMAIN content :
    /\ NextMail(k)
    /\ Move("b", "receive", IF content[k].text = "exit" THEN "close" ELSE "receive")
    /\ got' = Append(got, content[k])
    /\ content' = RemoveAt(content, k)
    /\ UNCHANGED <<exchange, exists, opened, sent>>

\* mq_close, and mq_unlink: what is left in the queue, or sent to it from now on, is
\* lost when the client closes it too
ServeClose ==
  /\ Move("b", "close", "end")
  /\ exists' = FALSE
  /\ opened' = opened \ {"b"}
  /\ UNCHANGED <<exchange, content, sent, got>>

\* without a queue the client fails
ClientOpen ==
  /\ IF exists THEN Move("a", "start", "send") /\ opened' = opened \cup {"a"}
     ELSE Move("a", "start", "failed") /\ UNCHANGED opened
  /\ UNCHANGED <<exchange, exists, content, sent, got>>

\* blocks while the queue is full
ClientSend ==
  /\ Len(content) < mq_maxmsg
  /\ \E r \in Priorities, text \in {"text", "exit"} :
       /\ text = "text" => Len(sent) < MaxMails
       /\ Move("a", "send", IF text = "exit" THEN "close" ELSE "send")
       /\ LET mail == [text |-> text, priority |-> r, number |-> Len(sent) + 1]
          IN content' = Append(content, mail) /\ sent' = Append(sent, mail)
  /\ UNCHANGED <<exchange, exists, opened, got>>

ClientClose ==
  /\ Move("a", "close", "end")
  /\ opened' = opened \ {"a"}
  /\ UNCHANGED <<exchange, exists, content, sent, got>>

MailClient == exchange = "mail" /\ (ClientOpen \/ ClientSend \/ ClientClose)
MailServe == exchange = "mail" /\ (ServeOpen \/ ServeReceive \/ ServeClose)

---------------------------------------------------------------------------
(* Shared_memory/shmget-systemV/exm_shmget.c: a is the parent, b the child *)
(* that writes; content is the string in the segment.                      *)

\* shmget with IPC_CREAT, shmat; a new segment is empty
ParentAttach ==
  /\ Move("a", "start", "wait")
  /\ exists' = TRUE
  /\ opened' = opened \cup {"a"}
  /\ content' = IF exists THEN content ELSE <<>>
  /\ UNCHANGED <<exchange, sent, got>>

\* Seeded fault: the parent does not wait for its child.
ParentHurries ==
  /\ Move("a", "wait", "print")
  /\ UNCHANGED <<exchange, exists, opened, content, sent, got>>

ParentWaits ==
  /\ Move("a", "wait", "print")
  /\ Exited("b")
  /\ UNCHANGED <<exchange, exists, opened, content, sent, got>>

\* printf, shmdt, and shmctl destroys the segment
ParentPrints ==
  /\ Move("a", "print", "end")
  /\ got' = content
  /\ exists' = FALSE
  /\ opened' = opened \ {"a"}
  /\ UNCHANGED <<exchange, content, sent>>

\* shmget without IPC_CREAT: without a segment the child fails
ChildAttach ==
  /\ IF exists THEN Move("b", "start", "clear") /\ opened' = opened \cup {"b"}
     ELSE Move("b", "start", "failed") /\ UNCHANGED opened
  /\ UNCHANGED <<exchange, exists, content, sent, got>>

ChildClear ==
  /\ Move("b", "clear", "append")
  /\ content' = <<>>
  /\ UNCHANGED <<exchange, exists, opened, sent, got>>

\* one round of the loop: strcat
ChildAppend ==
  /\ at["b"] = "append"
  /\ Len(sent) < NumberOfShm
  /\ content' = Append(content, Len(sent))
  /\ sent' = Append(sent, Len(sent))
  /\ UNCHANGED <<exchange, at, exists, opened, got>>

ChildDetach ==
  /\ Move("b", "append", "end")
  /\ Len(sent) = NumberOfShm
  /\ opened' = opened \ {"b"}
  /\ UNCHANGED <<exchange, exists, content, sent, got>>

ShmParent == exchange = "segment" /\ (ParentAttach \/ ParentWaits \/ ParentPrints)
ShmChild ==
  exchange = "segment" /\ (ChildAttach \/ ChildClear \/ ChildAppend \/ ChildDetach)

---------------------------------------------------------------------------
(* fifo: a is write.c, b is read.c.                                        *)

\* mkfifo; an old one is as good
FifoMake ==
  /\ Move("a", "start", "opening")
  /\ exists' = TRUE
  /\ UNCHANGED <<exchange, opened, content, sent, got>>

\* the open of the reader begins; without a FIFO it fails, and so does its read
FifoReadOpen ==
  /\ Move("b", "start", IF exists THEN "opening" ELSE "failed")
  /\ UNCHANGED <<exchange, exists, opened, content, sent, got>>

\* each open waits for the other
FifoOpened ==
  /\ at["a"] = "opening" /\ at["b"] = "opening"
  /\ at' = [at EXCEPT !["a"] = "write", !["b"] = "read"]
  /\ opened' = {"a"}
  /\ UNCHANGED <<exchange, exists, content, sent, got>>

\* Seeded fault: the writer closes without having written.
FifoWriteNone ==
  /\ Move("a", "write", "close")
  /\ UNCHANGED <<exchange, exists, opened, content, sent, got>>

FifoWrite ==
  /\ Move("a", "write", "close")
  /\ content' = <<"Hi">>
  /\ sent' = <<"Hi">>
  /\ UNCHANGED <<exchange, exists, opened, got>>

FifoClose ==
  /\ Move("a", "close", "unlink")
  /\ opened' = {}
  /\ UNCHANGED <<exchange, exists, content, sent, got>>

FifoUnlink ==
  /\ Move("a", "unlink", "end")
  /\ exists' = FALSE
  /\ UNCHANGED <<exchange, opened, content, sent, got>>

\* read waits for a message or for the last writer to close
FifoRead ==
  /\ Move("b", "read", "end")
  /\ content # <<>> \/ opened = {}
  /\ got' = content
  /\ content' = <<>>
  /\ UNCHANGED <<exchange, exists, opened, sent>>

FifoWriter == exchange = "fifo" /\ (FifoMake \/ FifoWrite \/ FifoClose \/ FifoUnlink)
FifoReader == exchange = "fifo" /\ (FifoReadOpen \/ FifoOpened \/ FifoRead)

---------------------------------------------------------------------------
\* A run may find what an earlier one that was killed has left: a FIFO, a queue with
\* any mails, or a segment with any beginning of its numbers.
Leftovers ==
  CASE exchange = "segment" /\ exists -> {[k \in 1 .. n |-> k - 1] : n \in 0 .. NumberOfShm}
    [] exchange = "mail" /\ exists    -> OldMails
    [] OTHER                          -> {<<>>}

ExchangesInit ==
  /\ exchange \in Exchanges \cup {"none"}
  /\ at = [p \in Processes |-> "start"]
  /\ exists \in (IF exchange \in {"fifo", "segment", "mail"} THEN BOOLEAN ELSE {FALSE})
  /\ opened = IF exchange = "pipe" THEN Processes ELSE {}
  /\ content \in Leftovers
  /\ sent = <<>>
  /\ got = <<>>

ProcessStep(p) ==
  \/ p = "a" /\ (Parent \/ MailClient \/ ShmParent \/ FifoWriter)
  \/ p = "b" /\ (Child \/ MailServe \/ ShmChild \/ FifoReader)

ExchangesNext == \E p \in Processes : ProcessStep(p)

---------------------------------------------------------------------------
\* exm_pipe_fork.c:22 "Adding this line will not hang the program": with both
\* write ends closed the child reads every message of both processes, the parent's
\* in their order, and both end.
PipeDelivers ==
  exchange = "pipe" =>
    <>(/\ exchange = "pipe" /\ at["a"] = "end" /\ at["b"] = "end"
       /\ got = sent /\ Len(got) = 4
       /\ SelectSeq(got, LAMBDA m : m # "msg4") = ParentMessages)

\* The message that stops the server may overtake others: what is left in the queue
\* had a lower priority.  Only if the server was stopped by an "exit" that an earlier
\* run had left, messages that came after that one are lost too, whatever their
\* priority; an "exit" of the client itself loses nothing it did not overtake.
OnlyOvertakenLost ==
  (exchange = "mail" /\ at["b"] = "end") =>
    \A k \in DOMAIN content :
      \/ content[k].priority < Last(got).priority
      \/ Last(got).number <= 0 /\ content[k].number > Last(got).number

\* Once the client has sent "exit" both ends of the queue are closed.
MailEnds ==
  (exchange = "mail" /\ at["a"] = "close") ~> (at["a"] = "end" /\ at["b"] = "end")

\* exm_shmget.c: the parent prints all the numbers of its child, also in a segment
\* an earlier run has left, unless the child came before the segment.
ParentPrintsAll ==
  (exchange = "segment" /\ at["a"] = "end" /\ at["b"] # "failed") =>
    got = [k \in 1 .. NumberOfShm |-> k - 1]

\* A reader that found the FIFO prints what the writer wrote, however soon the
\* writer closes and removes it.
FifoDelivers == (exchange = "fifo" /\ at["b"] = "end") => got = <<"Hi">>
=============================================================================
