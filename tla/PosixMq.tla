------------------------------ MODULE PosixMq ------------------------------
(***************************************************************************)
(* The POSIX message queues the broker and its clients talk through.  The  *)
(* kernel is not part of the repository: these operators are what mq_open, *)
(* mq_send, mq_receive, mq_close and mq_unlink do for the flags and calls  *)
(* the code uses.  A queue is an object of its own: a name refers to at    *)
(* most one, descriptors keep it alive after its name is unlinked, and it  *)
(* is destroyed when neither refers to it any more.                        *)
(*                                                                         *)
(* Every queue has one priority (all sends pass 0), so it is a FIFO.       *)
(***************************************************************************)
EXTENDS Naturals, Sequences, FiniteSets

CONSTANTS Clients,      \* client names ("/HMX_CLIENT_n"), one queue name each
          SRV,          \* SERVER_QUEUE_NAME
          NoQ,          \* mq_open's -1, or a name that is not linked
          QIds,         \* queue objects of the kernel
          max_msg,      \* mq_maxmsg of cms_server.conf: capacity of the server queue
          ClientCap     \* capacity of a client queue (10, cms_client_init)

Names == Clients \cup {SRV}

ASSUME KernelAssumption ==
         /\ SRV \notin Clients
         /\ NoQ \notin QIds
         /\ max_msg \in Nat \ {0}
         /\ ClientCap \in Nat \ {0}

VARIABLES mqs,        \* content of each queue
          names,      \* the queue each name refers to, or NoQ
          mqd,        \* descriptor of the server on its own queue
          mqd_tmp,    \* descriptor of the server on a client queue
          my_mq,      \* descriptor of each client on its own queue
          mqserver,   \* descriptor of each client on the server queue, while it sends
          leaked      \* queues a process has a descriptor on that it lost and never closes

kernelVars == <<mqs, names, mqd, mqd_tmp, my_mq, mqserver, leaked>>

\* The queues a name or a descriptor refers to.
Referenced == {q \in QIds : \/ \E n \in Names : names[n] = q \/ q \in leaked[n]
                            \/ q \in {mqd, mqd_tmp}
                            \/ \E c \in Clients : q \in {my_mq[c], mqserver[c]}}

\* A queue that can be created: one no name and no descriptor refers to.
Creatable == QIds \ Referenced

\* Process n loses a descriptor on q without closing it (q may be NoQ).
Leak(n, q) == leaked' = [leaked EXCEPT ![n] = @ \cup ({q} \ {NoQ})]

\* The process of name n ends: the kernel closes what it lost.
LeaksClosed(n) == leaked' = [leaked EXCEPT ![n] = {}]

\* Whether an mq_send on a queue of capacity cap finds room.
HasRoom(q, cap) == Len(mqs[q]) < cap

\* The contents after message m is added at the tail of queue q.
Enqueue(q, m) == [mqs EXCEPT ![q] = Append(@, m)]

\* The contents after the oldest message of queue q is removed.
Dequeue(q) == [mqs EXCEPT ![q] = Tail(@)]

\* The last conjunct of a step that gives up a name or a descriptor: the
\* contents become those of "content", and queues nothing refers to are gone.
SetQueues(content) ==
  mqs' = [q \in QIds |-> IF q \in Referenced' THEN content[q] ELSE <<>>]
=============================================================================
