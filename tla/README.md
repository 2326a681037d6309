# Verification of the HMX message broker

This directory holds TLA+ models of the programs of this repository, the TLC
configurations that check them on small instances, and TLAPS proofs of theorems that
hold for every value of the constants.

The repository is a training course in systems programming. Its largest program is a
topic-based message broker, "CMS": a server process, a client library and a few
client programs that exchange messages through POSIX message queues. The broker exists
in several generations; the last one, `src/System_call/communication/demo_1/hmxcms`,
is the core of this project. The other directories hold its earlier drafts and short
examples of threads, processes and system calls.

## Inventory

Paths are below `src/System_call/communication/` unless they start with `src/`.

| Part | State | Operations | Hard behaviour |
|---|---|---|---|
| **Broker** `demo_1/hmxcms/hmxcms_server.c` | client list, crash list, own queue, log level, the locals of the message being handled | start, stop (SIGINT), one handler per tag: SUBCRIBE, UNSUBCRIBE (one, ALL), SEND (topic, ALL), SEND_TO, RESPONSE, CONFIG; `cms_server_send`; `cms_full_queue_handler` | the client empties its queue between two calls of the full-queue handler; rows deleted while a loop holds row numbers; a slow client looks like a crashed one; kill and restart |
| **Client list** `lib/hmxcms_linkedlist.c` | linked list of (client, topic) rows | add, change, delete by number, search by name, topic, pair and number, count topics | order of deletions, first and last row, nodes lost or freed while linked |
| **Crash list** `lib/hmxcms_monitor.c` | one payload per client whose queue was found full | add, find, delete, count | one payload per client over long histories; the count must tell where the stored message is |
| **Client library** `lib/hmxcms_lib.c` | descriptor and name of the client's queue | init, close, send, send to, subscribe, unsubscribe, receive | blocking send on a full server queue; polling for an answer among other messages; restart under the same name |
| **Queues** (kernel) | names, descriptors, capacities, contents | open, create, send, receive, close, unlink | a queue outlives its name; a restarted process gets another queue |
| **Demo programs** `receive_*.c`, `send_*.c` | the next statement | fixed sequences of library calls | the order in which they start decides who meets the topic limit |
| **Older broker** `hung123/cms_box` | as the broker | as the broker | deletes rows in ascending order; index -1 deletes the second row; follows a missing payload; leaves subscriptions unanswered at the limit |
| **Older broker** `hung/cms` | as the broker, and the message last evicted | as the broker | freed memory read and freed again; crash list searched by destination; a receive pointer that is never set |
| **Older brokers** `hmxcms`, `hmx_demo`, `hmx_CMS` | client list | list functions | drafts whose servers cannot answer a message |
| **Thread examples** `src/Proces/Thread` | shared variables, mutexes, a condition, semaphores | produce, consume, lock pairs | lock order, lost wake-ups, lost updates |
| **Process examples** `src/Proces/Process`, `pipe` | pipe, FIFO, shared memory, a queue with priorities | exchange between two processes | ordering without synchronisation, ends left open |
| **System call, file, clock, build and shell examples** | none | single calls | none |

How the parts of the broker interact: a client opens the server queue by its fixed name,
sends one message and closes it; `mq_send` blocks while the queue is full. The server
polls its queue, handles one message at a time, opens the queue of each client it has to
answer or forward to by the client's name, sends without blocking and closes it. A client
polls its own queue. There is no other shared state: names and queues are all the
processes have in common, and either side may disappear and come back under the same name.

## Modules

| Module | Models | Uses |
|---|---|---|
| `PosixMq` | the queues: objects with a content, names and descriptors that refer to them | |
| `CmsRegistry`, `CmsMonitor` | client list and crash list with their functions, on sequences | |
| `CmsServer` | the broker process | the three above |
| `CmsClient` | the client processes and the library calls | `CmsServer` |
| `HmxCms` | the composition, its types, fairness and properties | `CmsClient` |
| `SubscriptionService` | abstract: what the broker promises about subscriptions | |
| `CmsRefinement` | the mapping from `HmxCms` to the service | `HmxCms`, `SubscriptionService` |
| `MCHmxCms` | the requests of each TLC scenario | `CmsRefinement` |
| `DemoPrograms`, `MCDemoPrograms` | the five programs of `demo_1`, statement by statement, against the broker | `HmxCms` |
| `BoxRegistry`, `BoxServer` | list and broker of `hung123/cms_box`, told as the difference to `CmsServer` | `CmsClient` |
| `HungServer` | the broker of `hung/cms`, told as the difference to `BoxServer` | `BoxServer` |
| `OlderClients` | library and programs of these two | `HungServer` |
| `OlderCms`, `MCOlderCms` | one of the two builds, chosen at the start, and its properties | `OlderClients` |
| `ClientList` | abstract: a list of rows and the answer of each of its functions | |
| `ListNodes` | the list in memory, nodes that point to the next one, of `hmxcms` and of `demo_1` | `ClientList` |
| `PosixThreads`, `ThreadExamples` | program counters, shared cells, mutexes, semaphores, a condition; six thread examples | |
| `ProcessExamples` | pipe after fork, queue with priorities, shared segment, FIFO | |
| `MCExamples` | one of the programs that run by themselves, or a client list | the last three groups |
| `HmxCmsProofs` | types, locals, and who uses which queue | `HmxCms` |
| `CmsListProofs` | rows and payloads along every behaviour, who is reached by a SEND, the position of the stored message | `HmxCmsProofs` |
| `CmsServiceProofs` | topic limit and refinement | `CmsListProofs`, `CmsRefinement` |
| `CmsAnswerProofs` | the answers | `CmsServiceProofs` |
| `OlderCmsProofs` | the older brokers | `OlderCms`, `CmsListProofs` |
| `DemoProofs` | the demo programs | `DemoPrograms`, `CmsAnswerProofs` |
| `ExampleProofs` | thread and process examples | `ThreadExamples`, `ProcessExamples` |
| `ListNodesProofs` | the nodes in memory and their refinement | `ListNodes` |

### Correspondence with the code

*Grain.* The server is single threaded. One step of the model ends at each system call on
a queue that another process uses (`mq_receive`, `mq_send`, `mq_unlink`), because there
another process can act in between; list work between two such calls belongs to the step
of the call it follows, but a loop over row numbers takes one step per row. The variable
`server` is the program counter:

| `server` | where in `hmxcms_server.c` |
|---|---|
| `down` | no process |
| `recv` | `cms_server_start`, before `mq_receive` |
| `handle` | entry of `cms_msg_handler` |
| `delete` | loop of UNSUBSCRIBE ALL (226-229) |
| `loop` | loop of a SEND (265-278 or 286-300) |
| `send` | `cms_server_send`, before `mq_send` (125) |
| `evict` | `cms_full_queue_handler`, before `mq_receive` (34, 73) |
| `overwrite` | same, before the second `mq_send` (40, 80) |
| `purge` | deletion of a crashed client's rows (106-112) |

*Locals.* `call` holds the arguments of `cms_server_send` and what the full-queue handler
remembers (`pl`: a payload was there before; `oldest`: the message it removed);
`index_gr` and `crash_gr` are the arrays of row numbers of the two functions; `ret` is the
sum of the results of `delete_client`, as a truth value.

*Row numbers.* The lookup functions fill an array with ascending row numbers, all
different. The model keeps the set, and a loop that walks the array from its end takes
the largest element.

*Lists* are sequences; the C indexes start at 0, so row `i` is element `i + 1`.

*Strings* (names, topics, payloads) are model values; `EMPTY` is the topic `""` and `ALL`
is `"ALL"`. A SEND_TO carries the destination in the topic field, as in the code.

*Descriptors.* `mqd_tmp` is the client queue the server has open, `my_mq` and `mqserver`
the descriptors of the clients. `names[c] = NoQ` makes `mq_open` fail, and every later call
on the descriptor with it. Three paths of `cms_msg_handler` leave the client queue open
(the "break" at 224 and 247, and a CONFIG with an unknown control), and a second
`cms_client_init` of a process loses its first descriptor: those queues stay alive in
`leaked` until the process ends.

*Answers.* A waiting call of the library ends at the first RESPONSE in its queue, whatever
it answers, and throws every other message away (`Await`).

*History variables.* `targets` (who should get the current SEND), `reached` (the clients in
whose queues it was put) and `purged` (clients dropped and not subscribed again) are not in
the code; no guard reads them. `reached` is recorded where an `mq_send` succeeds
(`Reaches`), and only if the client's name still refers to the queue the message went to:
a call of `cms_server_send` that drops the message reaches nobody.

### The abstract service

`SubscriptionService` knows a set of subscriptions and at most one answer on its way. A
request changes the set in one step and is answered in the same step. `CmsRefinement` maps
to it: `Subscriptions` are the rows of the client list without `EndedRows`, those the loop
of an UNSUBSCRIBE ALL or of a purge has still to delete, and `CurrentReply` is the answer
that `cms_server_send` is working on. All rows of the client thus end in the step that
collects their numbers, and each later deletion has to be a stutter: it is one only if it
hits a row of that client. Queues, the crash list, clients, restarts and orphaned
descriptors have no counterpart in the service.

### The client list in memory

`ListNodes` has the memory of the nodes (`Addrs`), a header, and an operator for each
function of `hmxcms_linkedlist.c` that adds, deletes, changes, frees or finds nodes, in the
two versions that differ. `get_index_by_data` and `count_topic`, which only `demo_1` has,
are modelled on rows only (`CmsRegistry`). `malloc` may return any free address. Its refinement mapping reads the rows off the chain of nodes and
passes the function called and its result on to `ClientList`, which says what each function
returns for a list of rows. `CmsRegistry` uses the list at that level.

### The older brokers

`BoxServer` replaces what differs from `CmsServer`: the deletion loops go from the first row
up, an index of -1 or behind the end is passed to `delete_client` (-1 deletes the row behind the
header, the second one, and faults when there is only one row), a subscription at
the limit is left without an answer, and a payload that is missing is used all the same
(`Fault`: the process dies and its queue stays). `HungServer` replaces the crash list once
more: payloads are searched by destination, and the message the previous full queue lost is
read in memory that the test itself frees. What such memory holds, whether a second `free`
ends the process, and whether the pointer that `cms_server_start` never sets can be written
to, is a nondeterministic choice among what the build can do (`Garbage`, `recv_ok`).
The libraries of both poll: a call returns `CMS_ERROR` when the queue is empty, so that an
answer may come after its call. `Casts` says which programs run together and how many calls
each makes; `other` and `echo` make any calls of the library.

### The examples

`PosixThreads` gives each thread a program counter; an access to a shared variable is a
load or a store in a step of its own, as in an unoptimised build. `pthread_cond_wait` may return without a signal, and `main` ends the process
when the threads it joins have ended. `ProcessExamples` has two processes `a` and `b` and
the pipe, queue, segment or FIFO they share. A FIFO, a segment with any beginning of its
numbers, or a queue with any messages, "exit" among them, may be left from an earlier run
that was killed (`Leftovers`): `serve.c` opens its queue with `O_CREAT` and does not remove
it before. The messages of the queue carry a number, which the programs do not see, to tell
old ones from new ones.

### Left out of the broker

The limit on open descriptors; message sizes and `EMSGSIZE`; failures of `mq_send` and
`mq_receive` for other reasons than a full, empty or missing queue; failures of `malloc`;
memory that is never freed; the waiting times of the polling loops; the text of the log.
`cms_client_close` ends the client program, as in the demo programs (a later call in the
same process would use a freed pointer).

## Runs

Client starts, server starts and requests are bounded (`MaxClientStarts`,
`MaxServerStarts`, `MaxRequests`), in the guards of the actions that spend them. Because
the requests run out and the examples end, the systems stop, and deadlock is not checked;
what must not stop is a liveness property. Queue capacities of 1 or 2 make full queues
frequent; the code's 10 only makes the same situations longer.

| Run | Instance | Shows |
|---|---|---|
| `registry` | fair; 2 clients, 2 topics, limit 1, client capacity 4, 4 requests | `NoDuplicateRows`, `TopicLimit`, `AnswersAreOwnAndTrue`, `ImplementsService`, `SubscribeReturns` |
| `drop` | 2 clients, 2 topics, capacity 2, 6 requests | `DeleteIndexesFresh`, `DeletesSucceed`, `PurgedHaveNoRows`, `OneMonitorEntryPerClient`, `MonitorTracksQueue`, `ImplementsService` |
| `group` | 3 clients, capacity 1, 5 requests; the two subscribers are symmetric | `SendReachesSubscribers` |
| `outage` | close, crash, SIGINT and kill at any point; 3 client and 2 server starts, 8 queue objects | `MonitorTracksQueue`, `RoomAfterEvict` |
| `progress` | fair; capacity 1, 3 requests, crashes, messages to oneself, CONFIG and RESPONSE | `HandlerReturns`, `SenderUnblocked`, `TypeOK` |
| `older` | fair server; both older builds, six casts of programs, capacity 1 | `RowsAreDistinct`, `RoomForNewest`, `OthersKeepRows`, `OlderHandlerReturns` |
| `programs` | five programs of `demo_1`, two or three at a time, limit 2 | `ToldStaysListed`, `SharedTopicsAgree` |
| `examples` | fair; each example, and each version of the list on 3 addresses | the 14 properties of `ThreadExamples`, `ProcessExamples` and `ListNodes` |
| `slow_client` | capacity 1 | violates `OnlyCrashedClientsDropped` |
| `stale_rows` | 3 clients, 2 topics | violates `TopicGroupReached` |
| `lost_answer` | fair, capacity 1 | violates `SubscribeReturns` |
| `box_unsubscribe` | `hung123/cms_box`, three clients | violates `UnsubcribeRemovesOwn` |

Why the bounds are enough. To be dropped a client needs a full queue, one message that is
stored and as many more as the queue holds, which is 3 messages at capacity 1 and 5 at
capacity 2 (`drop` has 6 requests, two of them subscriptions, and a message to ALL is sent
once per row). The topic limit needs one topic more than the limit. A stale row number
needs a client with a row before another's. A restart needs two starts of one side. An
answer cannot be evicted in `registry`, whose client queues hold all its requests: that is
why `SubscribeReturns` holds there and fails in `lost_answer`. The senders of `programs`
make one or two rounds instead of 600, which is enough to fill a queue of capacity 1 and to
drop a receiver.

In `examples` the stock is 5 as in the code; a thread makes `SemRounds` = 6 rounds (10),
one more than the stock; `RaceLimit` is 4 (100) and `NumberOfShm` 5; a message has one
of 3 priorities (0 to 9), the queue holds 2 messages (10), up to 2 of them left by an
earlier run, and the client sends up to 3, so that "exit" can overtake, can have been left,
and the queue can be full. Three node addresses make
a first, a middle and a last row, and the reuse of each.

What the properties say about the code:

* `MonitorTracksQueue` is the reason the crash test can work at all: while the queue of a
  monitored client is full, `send_count` tells the position of the message that was stored,
  so that message is the one removed when the count reaches the capacity, and only if
  the client took nothing in between.
* `RoomAfterEvict`: when the handler did remove a message, only the server sends to client queues, so the room made by
  `mq_receive` cannot be taken away. It holds across restarts because a restarted client
  gets a new queue while the server still has the old one open.
* `DeleteIndexesFresh`, `DeletesSucceed` and `PurgedHaveNoRows` are what walking the array
  of row numbers from its end is for. Walking it from its start breaks them (the older
  broker in `hung123/cms_box` does).
* `SendReachesSubscribers` is the part of the delivery promise that does hold: at the end
  of the loop the message was put in the queue of every subscriber that is not left with
  nothing to read. Its exceptions are real: a queue that the client emptied before the
  full-queue handler came to it, so that the handler dropped the new message (see Findings),
  is still empty, or has lost its name; and a topic's loop in which a subscriber is dropped
  is what `stale_rows` shows.
* `AnswersAreOwnAndTrue` ties the client's waiting call, the answer in its queue and the
  client list together. It holds as long as nobody is killed; a client that crashes in a call and
  starts again may take the answer to the old call, so the outage run does not list it.
* `OthersKeepRows` is what is left of the deletion loops in the older brokers: a client
  with one row is removed without harm to others. With two it is not, and the property
  leaves that case out; the model has it, and no property covers it.
* `OlderHandlerReturns`: none of the calls of the older brokers leaves them waiting in a
  request. It counts the death of the broker as the end of the request: that they die when
  a payload is missing is an outcome of the model, not something the property excludes.
* `TopicLimit` counts the topics as `count_topic` does, which never counts `""`; no request
  of the run subscribes to that topic.
* `ToldStaysListed` and `SharedTopicsAgree` are what the demo programs rely on while they
  never look at their subscriptions again.
* `StockWithinLimit`: the updates of `exm_semaphone.c` are lost, and the stock still never
  leaves its limits, because each thread stores a neighbour of a value that passed
  its own test. `OneSideEnds`: lost updates may leave one thread waiting, never both.
* `EndsUnlessCrossed`: the crossed order of locks is the only way `exm_deadlock.c` hangs.
* `OnlyOvertakenLost`: what is left in the queue when the server of the queue example stops
  had a lower priority than the "exit" that stopped it. Only an "exit" that an earlier run
  had left loses others: the messages that came after it, of whatever priority.
* `NodesAccounted`: no node is lost, linked twice or freed while linked.

Each property of a passing run comes with a seeded fault (definitions commented as such)
that breaks it: a loop walked the other way, a search that starts after the header, a
count that is lost, a limit tested with the wrong comparison, a queue opened without
`O_NONBLOCK`, an answer with the wrong tag, a node unlinked and not freed.

### Fairness

`FairSpec` assumes weak fairness of the server's steps together (its loop runs forever and
none of its calls block, since all its descriptors are `O_NONBLOCK`), strong fairness of
each client's blocking `mq_send` (the kernel wakes waiting senders in turn when the queue
gets room, so a sender that finds room again and again gets its turn), and weak fairness
of the polling loop of a waiting call. No fairness is assumed of what a program decides: a
client need not start, make calls, take messages while idle, or stay alive, and the server
need not be started. `OlderFairSpec` assumes weak fairness of the server of the build that
runs, for the same reason, and nothing of its clients. `ExamplesSpec` assumes weak
fairness of each thread, each process and `main`: the scheduler runs whatever can go on. A
spurious return of `pthread_cond_wait` is not fair, and no lock or semaphore is assumed to
be handed over in order.

## Findings

* `slow_client`: what `hmxcms_server.c:94` calls "client crashed" may be a running client
  that did not poll while the queue's worth of messages arrived, for instance because it
  is blocked in a send of its own.
* `stale_rows`: if the loop of a SEND drops a client, the deletion moves the rows behind
  it and the loop sends to the wrong clients or to none. (`cms_client_send` promises the
  "group of clients interested in the topic", `hmxcms_lib.h:123`.)
* `lost_answer`: the answer to a SUBSCRIBE may be the oldest message of a full queue and be
  evicted; `cms_subcribe_topic` then polls forever, although `hmxcms_lib.h:148` lists the
  values it returns.
* `box_unsubscribe`: in `hung123/cms_box` the row number of an UNSUBSCRIBE is used without
  looking whether there is one; for -1 `delete_client` deletes the row behind the header,
  the second one, which may belong to another client, and follows a NULL pointer when there
  is only one row (`libhmxcms.h:155`: "unsubcribe one topic of server").

Another disagreement the model has, without a run of its own: `hmxcms_server.c:72` announces
"remove oldest message and add the new one", but if the client empties its queue after
`mq_send` failed, the `mq_receive` fails too, the handler returns and the new message is
dropped although the queue has room (`EvictEmpty`). `SendReachesSubscribers` therefore
exempts clients whose queue is empty.

## Proofs

Every theorem holds for all values of the constants that satisfy the named assumptions.
`Exits` and `Outages` are arbitrary: the theorems include all crashes and restarts, with
one exception (`AnswersMatch`) that says so in its statement.

| Assumption | Says | Why the code satisfies it |
|---|---|---|
| `KernelAssumption` | the server name is no client name; `NoQ` is no queue; capacities are positive | names of the programs; `cms_server.conf`, 10 in `cms_client_init` |
| `ServerAssumption` | the topic limit is positive; log levels are payloads | `cms_server.conf` |
| `ClientAssumption` | requests are messages | the library fills a `cms_msg_t` |
| `OlderAssumption` | the two receivers and the two senders of the older builds have different names; their strings are topics and payloads | the names in the programs |
| `ProgramAssumption`, `RequestAssumption` | the five programs of `demo_1` have five names; the numbered topics and the rounds are sequences of any length; `Requests` has each program's calls | the names and loops of the programs |
| `NodesAssumption` | finitely many addresses, `NULL` is none | `malloc` |
| `ThreadsAssumption`, `ExamplesAssumption`, `ExchangeAssumption` | threads and cells differ, limits and capacities are positive, priorities are numbers | declarations and `#define`s of the examples |

| Theorem | States | Inductive invariant |
|---|---|---|
| `TypeCorrect`, `TypeInvariant` | `TypeOK` | `TypeInv` = `TypeOK` and `LocalsReady` |
| `NoDuplicates`, `FreshIndexes`, `DeletionsSucceed`, `PurgeComplete` | `NoDuplicateRows`, `DeleteIndexesFresh`, `DeletesSucceed`, `PurgedHaveNoRows` | `RowsInv` |
| `OnePayloadPerClient` | `OneMonitorEntryPerClient` | itself, on `TypeInv` |
| `TopicLimitHolds` | `TopicLimit` | `LimitOf`: the limit, over a finite set of topics |
| `Refinement` | `ImplementsService` | each step, on `TypeInv`, `RowsInv`, `LimitOf` and `LoopsFor` |
| `QueueInvariant`, `RoomForNew` | `RoomAfterEvict` | `QueueInv` |
| `DeliveryComplete` | `SendReachesSubscribers` | `DeliveryInv`, on `QueueInv`, `RowsInv` and `MonitorInv` |
| `MonitorTracks` | `MonitorTracksQueue` | `MonitorInv`, on `QueueInv` and `OnePayloadPerClient` |
| `AnswersMatch` | `AnswersAreOwnAndTrue`, under `NoDisturbance` | `AnswerInv` = `Wiring`, `Requested` and `OneAnswer` of each client, on `QueueInv` and `RowsInv` |
| `ProgramsAreClients` | `DemoSpec` implies `Spec` | `Standing`: where each program is |
| `ToldTopicsStay`, `SharedTopicsSettled` | `ToldStaysListed`, `SharedTopicsAgree` | `DemoInv` = `Traffic` and `WhatWasTold`, on `AnswerInv` |
| `OlderInvariant`, `RoomForTheNewest` | `RoomForNewest` | `OlderInv` = `TypeInv`, `QueueInv`, `SendersOnly` and `ProgramInv` |
| `OlderRowsDistinct`, `OthersKeepTheirRows` | `RowsAreDistinct`, `OthersKeepRows` | itself; each step, on `OlderInv` |
| `NodesInvariant`, `NodesNotLost` | `NodesAccounted` | `NodesInv` |
| `ListRefinement` | `ListImplemented` | each call, on `NodesInv` |
| `StockBounded`, `JobsNumbered` | `StockWithinLimit`, `JobNumbersMatch` | `StockInv`, `JobInv` |
| `RaceBounded`, `IncrementsBounded` | `RaceBounds`, `IncrementBounds` | `RaceInv`, `IncrementInv` |
| `NothingElseLost`, `NumbersPrinted`, `FifoDelivered` | `OnlyOvertakenLost`, `ParentPrintsAll`, `FifoDelivers` | `MailInv`, `SegmentInv`, `FifoInv` |

The arguments:

* *Types.* `TypeOK` is not inductive: a step that uses a local variable or a descriptor
  needs to know that it was set. `LocalsReady` says for every value of `server` and
  `client` what must be there.
* *Rows.* Deleting the last row of a client leaves its other rows under their old numbers
  (`DeleteLastRow`), so the numbers a loop holds stay those of the client; the
  loop ends when they run out, so the client has no row left; nothing but a SUBSCRIBE of
  the client adds one; and `get_index_by_data` misses no row (`FindsEveryRow`, from the
  least number principle), so SUBCRIBE never adds one twice.
* *Service.* A topic that passes the limit test is one of the listed ones or one more
  (cardinalities). The step that starts a deletion loop ends all subscriptions of the
  client, the steps of the loop change nothing; `LoopsFor` says whose rows a loop deletes.
* *Queues.* A queue is a server queue or a client queue for life: it has a side from its
  creation, a descriptor is only of the side that opened it, and a queue that nobody has
  open or named is empty, so it may be created again. On the client's side only the server
  adds, one message where it found or made room.
* *Delivery.* While a loop runs, each client of `targets` other than the sender is reached,
  or is the one the server works for (`InHand`), or has a row under a number the loop still
  holds, or has nothing to read (`Excused`): that is `Pending`, and for a topic it holds
  unless a subscriber was dropped meanwhile. For ALL the loop holds every row number
  from the current one down (`AllBelow`), so a row that a purge moves down is still met and
  the exception goes away. A client is dropped only after the message was put in its queue
  (`DroppedHasIt`). That a client the server gave up has an empty queue, and not one
  that is full under the same name, rests on `MonitorInv`: the queue the server has open is
  the client's, or the client has a new one. Once excused a client stays so, because only
  the server puts messages in its queue.
* *Crash list.* The count goes up by one for each message forced into the full queue, and
  the stored message moves forward by one place: `AllTrack` says that they agree, and
  `Between` what they are before and after the `mq_receive` of the full-queue handler, when
  the message counted is not in the queue yet. A client that takes a
  message makes room, and the next message, which fits, removes the payload.
  `OneOwner` and `Restarted` say that no queue has two names and that the queue of
  a client that came back while the server works for it is empty.

* *Answers.* An answer carries no number and goes to a name, so it fits its call only
  because the request is never in two places: while a client waits, its request is in the
  queue of the server, or in the server's hands, or turned into an answer in the client's
  queue, or the answer was lost (`OneAnswer`). `Wiring` says that each name still leads
  to the queue its process reads, except where a purge removed the name. What an answer
  says stays true because the client, which waits, cannot ask for another change; only a
  purge can. `NoDisturbance` excludes what would break this: a broker that is killed
  loses the rows it confirmed, a client killed in a call and started again takes the
  answer to its former call, and a CONFIG, which no call of the library sends, is
  answered to a client that does not wait. Clients that close and start again, purges, full queues
  and evicted answers are all included.
* *Demo programs.* The next call of a program is one that a client of the composed system
  may make (`NextCall`), so every theorem about `HmxCms` holds of the programs. None of
  them exits or sends CONFIG, and in `DemoPrograms` the server is not killed, so
  `AnswerInv` holds of them too. The programs never unsubscribe (`Traffic`), so the
  list loses rows only to purges: what was granted stays, except for the client dropped,
  and once the list names `max_topic` topics without a topic (`Excluded`) that topic
  stays out while nobody is dropped, which is why two receivers cannot be told different
  things about it.
* *Older brokers.* They share most steps with `CmsServer`, and the lemmas about those
  steps are used again; `BoxOwnStep` and `HungOwnStep` are the rest. Faulty row numbers
  delete the wrong row or none, and a subsequence of a list with distinct rows has
  distinct rows.
* *List in memory.* `NodesInv` says that the allocated addresses, in the order of the
  list, are `s[1]`, ..., `s[n]`, each once, and each node's pointer is the next of them.
  The loops of the C code are recursive functions (`NodeAt`, and the
  `index_gr` of each search). The provers have no induction over data; here
  it is not needed: a function that satisfies the recursive equation can be written down from `s`, and
  that it is the only one follows from the least argument at which another would
  differ (`Walked`, `CollectedAscends`). The array a search fills is the ascending array
  of the matching row numbers, and there is only one (`AscendsOnce`). Each function then
  does to the rows what `ClientList` says, whichever address `malloc` returns.
* *Threads.* The invariants say what each program counter tells about the local copy of the
  thread. In `exm_race_condition.c` a loop that is about to store more than the limit
  loaded the limit itself, so the other loop is at its last test or past it
  (`Overshoots`). In `exm_thread.c` the value of a cell is bounded by the stores made so far,
  counted by what each thread has left to do (`Counts`).
* *Processes.* `MailInv`: of the messages of this run "exit" is the last, those of an earlier
  run have smaller numbers, and the queue gives out the highest priority first and, among
  equals, the smallest number. `SegmentInv` and `FifoInv` relate what was written, what
  is on its way and what was printed.

Only model-checked: liveness, which is out of the prover's reach (`HandlerReturns`,
`SenderUnblocked`, `SubscribeReturns`, `OlderHandlerReturns`, `OneSideEnds`,
`EndsUnlessCrossed`, `MainEnds`, `PipeDelivers`, `MailEnds`), and the four runs that show a
violation, which are counterexamples. Every other property of a passing run is stated by
a theorem. No module has a RECURSIVE operator.

## Not modelled

* `demo_1/hmxcms/server_fake.c` does not link: it calls functions the library does not have.
* `hmxcms/hmxcms_server.c`: its message handler is commented out, it takes messages and
  answers nothing. Only its client list is modelled.
* `hmx_demo/hmxcms_server.c`, one thread per message: the name of its queue has no slash, so
  `mq_open` fails with `EINVAL`, no message arrives and no thread is ever started. Its client
  list is the file of `hmxcms`.
* `hmx_CMS` does not compile.
* Thread examples that create threads and sleep, signals, `mmap`, System V queues, fork
  examples: their processes share nothing, or exchange one value in a fixed order; what is
  left is timing.
* File, clock, build and shell examples: input and output of a single process.

## What is left

1. What remains of `AnswersAreOwnAndTrue` when the broker or a client is killed in
   between, as a weaker property with a theorem of its own.
2. The limit on open descriptors, with the three paths that leave one open; the model has
   the descriptors (`leaked`) and no limit.
3. A property of the purge that unlinks a client's name when the client has restarted, and
   of a client capacity that differs from the capacity the crash test compares with.
