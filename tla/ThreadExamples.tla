--------------------------- MODULE ThreadExamples ---------------------------
(***************************************************************************)
(* The thread examples of src/Proces/Thread, one of which is chosen at the *)
(* start.  A thread that is created and has not run yet is one that is not *)
(* created yet, so all of them are there from the start.                   *)
(***************************************************************************)
EXTENDS PosixThreads

CONSTANTS
  t1, t2, t3,
  stock_max_limit,  \* exm_semaphone.c: 5
  SemRounds,        \* exm_semaphone.c: 10
  RaceLimit         \* exm_race_condition.c: 100

ASSUME ExamplesAssumption ==
  /\ {t1, t2, t3} \subseteq Threads
  /\ t1 # t2 /\ t1 # t3 /\ t2 # t3
  /\ {"lock", "lock1", "lock2"} \subseteq Mutexes
  /\ {"semP", "semC"} \subseteq Semaphores
  /\ {"done", "stock_count", "counter", "i", "s", "g"} \subseteq Cells
  /\ {stock_max_limit, SemRounds, RaceLimit} \subseteq Nat \ {0}

Programs == {"none", "deadlock", "cond", "semaphone", "mutex", "race", "static"}

---------------------------------------------------------------------------
(* deadlock/exm_deadlock.c: each thread takes its own resource, and then   *)
(* the other's.                                                            *)

TakeOwn(t, mine) ==
  /\ Goto(t, "start", "one")
  /\ Lock(t, mine)
  /\ UNCHANGED <<program, main, semaphore, memory, register, todo, printed>>

TakeOther(t, other) ==
  /\ Goto(t, "one", "both")
  /\ Lock(t, other)
  /\ UNCHANGED <<program, main, semaphore, memory, register, todo, printed>>

\* Seeded fault: the other's resource is not given back.
KeepOther(t, other) ==
  /\ Goto(t, "both", "last")
  /\ UNCHANGED <<program, main, owner, semaphore, memory, register, todo, printed>>

GiveOther(t, other) ==
  /\ Goto(t, "both", "last")
  /\ Unlock(other)
  /\ UNCHANGED <<program, main, semaphore, memory, register, todo, printed>>

GiveOwn(t, mine) ==
  /\ Goto(t, "last", "end")
  /\ Unlock(mine)
  /\ UNCHANGED <<program, main, semaphore, memory, register, todo, printed>>

resource(t, mine, other) ==
  TakeOwn(t, mine) \/ TakeOther(t, other) \/ GiveOther(t, other) \/ GiveOwn(t, mine)

resource1 == program = "deadlock" /\ resource(t1, "lock1", "lock2")
resource2 == program = "deadlock" /\ resource(t2, "lock2", "lock1")

---------------------------------------------------------------------------
(* Condition_Variable/exm_cond.c: the thread that gets the lock first      *)
(* waits for the other, and main joins the second thread only.             *)

FooLock(t) ==
  /\ Goto(t, "start", "test")
  /\ Lock(t, "lock")
  /\ UNCHANGED <<program, main, semaphore, memory, register, todo, printed>>

\* Seeded fault: a thread that waits does not tell the other one.
FooWaitUntold(t) ==
  /\ Goto(t, "test", "waiting")
  /\ memory["done"] = 1
  /\ Unlock("lock")
  /\ UNCHANGED <<program, main, semaphore, memory, register, todo, printed>>

\* pthread_cond_wait gives up the lock and waits, in one step
FooWait(t) ==
  /\ Goto(t, "test", "waiting")
  /\ memory["done"] = 1
  /\ Store("done", 2)
  /\ Unlock("lock")
  /\ UNCHANGED <<program, main, semaphore, register, todo, printed>>

\* pthread_cond_signal wakes a waiting thread, if there is one
FooSignal(t) ==
  /\ main = "joining"
  /\ pc[t] = "test"
  /\ memory["done"] # 1
  /\ \E woken \in [Threads -> BOOLEAN] :
       /\ \A u \in Threads : woken[u] => pc[u] = "waiting"
       /\ (\E u \in Threads : pc[u] = "waiting") => \E u \in Threads : woken[u]
       /\ pc' = [u \in Threads |-> IF u = t THEN "unlock"
                                   ELSE IF woken[u] THEN "woken" ELSE pc[u]]
  /\ UNCHANGED <<program, main, owner, semaphore, memory, register, todo, printed>>

\* pthread_cond_wait may also return without a signal.
FooSpurious(t) ==
  /\ program = "cond"
  /\ Goto(t, "waiting", "woken")
  /\ UNCHANGED <<program, main, owner, semaphore, memory, register, todo, printed>>

FooRelock(t) ==
  /\ Goto(t, "woken", "unlock")
  /\ Lock(t, "lock")
  /\ UNCHANGED <<program, main, semaphore, memory, register, todo, printed>>

FooUnlock(t) ==
  /\ Goto(t, "unlock", "end")
  /\ Unlock("lock")
  /\ UNCHANGED <<program, main, semaphore, memory, register, todo, printed>>

foo(t) ==
  /\ program = "cond"
  /\ t \in {t1, t2}
  /\ FooLock(t) \/ FooWait(t) \/ FooSignal(t) \/ FooRelock(t) \/ FooUnlock(t)

---------------------------------------------------------------------------
(* mutex/exm_mutex.c: each thread counts a job and works under the lock.   *)

\* Seeded fault: the job starts without the lock.
JobStartUnlocked(t) ==
  /\ Goto(t, "start", "load")
  /\ UNCHANGED <<program, main, owner, semaphore, memory, register, todo, printed>>

JobLock(t) ==
  /\ Goto(t, "start", "load")
  /\ Lock(t, "lock")
  /\ UNCHANGED <<program, main, semaphore, memory, register, todo, printed>>

JobLoad(t) ==
  /\ Goto(t, "load", "store")
  /\ Load(t, "counter")
  /\ UNCHANGED <<program, main, owner, semaphore, memory, todo, printed>>

JobStore(t) ==
  /\ Goto(t, "store", "started")
  /\ Store("counter", register[t] + 1)
  /\ UNCHANGED <<program, main, owner, semaphore, register, todo, printed>>

JobStarted(t) ==
  /\ Goto(t, "started", "finished")
  /\ Printed(t, memory["counter"])
  /\ UNCHANGED <<program, main, owner, semaphore, memory, register, todo>>

JobFinished(t) ==
  /\ Goto(t, "finished", "unlock")
  /\ Printed(t, memory["counter"])
  /\ UNCHANGED <<program, main, owner, semaphore, memory, register, todo>>

JobUnlock(t) ==
  /\ Goto(t, "unlock", "end")
  /\ Unlock("lock")
  /\ UNCHANGED <<program, main, semaphore, memory, register, todo, printed>>

trythis(t) ==
  /\ program = "mutex"
  /\ t \in {t1, t2}
  /\ JobLock(t) \/ JobLoad(t) \/ JobStore(t) \/ JobStarted(t) \/ JobFinished(t) \/ JobUnlock(t)
---------------------------------------------------------------------------
(* semaphone/exm_semaphone.c: a producer and a consumer of a stock they    *)
(* count without a lock.  Both do the same in opposite directions: wait    *)
(* while the stock is at its end, change it by one, tell the other side.   *)

\* Seeded fault: the test lets one too many pass.
StockTestLate(t, end, by) ==
  /\ main = "joining"
  /\ pc[t] = "start"
  /\ pc' = [pc EXCEPT ![t] = IF memory["stock_count"] = end + by THEN "wait" ELSE "load"]
  /\ UNCHANGED <<program, main, owner, semaphore, memory, register, todo, printed>>

\* while (end == stock_count)
StockTest(t, end, by) ==
  /\ main = "joining"
  /\ pc[t] = "start"
  /\ pc' = [pc EXCEPT ![t] = IF memory["stock_count"] = end THEN "wait" ELSE "load"]
  /\ UNCHANGED <<program, main, owner, semaphore, memory, register, todo, printed>>

StockWait(t, mine) ==
  /\ Goto(t, "wait", "start")
  /\ SemWait(mine)
  /\ UNCHANGED <<program, main, owner, memory, register, todo, printed>>

\* stock_count++ or stock_count--, a load and a store
StockLoad(t) ==
  /\ Goto(t, "load", "store")
  /\ Load(t, "stock_count")
  /\ UNCHANGED <<program, main, owner, semaphore, memory, todo, printed>>

StockStore(t, by) ==
  /\ Goto(t, "store", "post")
  /\ Store("stock_count", register[t] + by)
  /\ UNCHANGED <<program, main, owner, semaphore, register, todo, printed>>

\* the round ends; the thread ends after the last one
RoundEnds(t) ==
  /\ main = "joining"
  /\ pc[t] = "post"
  /\ todo' = [todo EXCEPT ![t] = Tail(@)]
  /\ pc' = [pc EXCEPT ![t] = IF Len(todo[t]) = 1 THEN "end" ELSE "start"]

\* Seeded fault: the other side is not told.
StockPostNone(t, others) ==
  /\ RoundEnds(t)
  /\ UNCHANGED <<program, main, owner, semaphore, memory, register, printed>>

StockPost(t, others) ==
  /\ RoundEnds(t)
  /\ SemPost(others)
  /\ UNCHANGED <<program, main, owner, memory, register, printed>>

producer ==
  /\ program = "semaphone"
  /\ \/ StockTest(t2, stock_max_limit, 1) \/ StockWait(t2, "semC") \/ StockLoad(t2)
     \/ StockStore(t2, 1) \/ StockPost(t2, "semP")

consumer ==
  /\ program = "semaphone"
  /\ \/ StockTest(t1, 0, -1) \/ StockWait(t1, "semP") \/ StockLoad(t1)
     \/ StockStore(t1, -1) \/ StockPost(t1, "semC")

---------------------------------------------------------------------------
(* Thread_race_condition/exm_race_condition.c: two loops over one variable *)
(* i.                                                                      *)

LoopInit(t) ==
  /\ Goto(t, "start", "test")
  /\ Store("i", 0)
  /\ UNCHANGED <<program, main, owner, semaphore, register, todo, printed>>

\* Seeded fault: one round too many.
LoopTestLate(t) ==
  /\ main = "joining"
  /\ pc[t] = "test"
  /\ pc' = [pc EXCEPT ![t] = IF memory["i"] <= RaceLimit THEN "print" ELSE "end"]
  /\ UNCHANGED <<program, main, owner, semaphore, memory, register, todo, printed>>

LoopTest(t) ==
  /\ main = "joining"
  /\ pc[t] = "test"
  /\ pc' = [pc EXCEPT ![t] = IF memory["i"] < RaceLimit THEN "print" ELSE "end"]
  /\ UNCHANGED <<program, main, owner, semaphore, memory, register, todo, printed>>

\* the value printed last is kept
LoopPrint(t) ==
  /\ Goto(t, "print", "load")
  /\ printed' = [printed EXCEPT ![t] = <<memory["i"]>>]
  /\ UNCHANGED <<program, main, owner, semaphore, memory, register, todo>>

LoopLoad(t) ==
  /\ Goto(t, "load", "store")
  /\ Load(t, "i")
  /\ UNCHANGED <<program, main, owner, semaphore, memory, todo, printed>>

LoopStore(t) ==
  /\ Goto(t, "store", "test")
  /\ Store("i", register[t] + 1)
  /\ UNCHANGED <<program, main, owner, semaphore, register, todo, printed>>

race(t) ==
  /\ program = "race"
  /\ t \in {t1, t2}
  /\ LoopInit(t) \/ LoopTest(t) \/ LoopPrint(t) \/ LoopLoad(t) \/ LoopStore(t)

---------------------------------------------------------------------------
(* Thread_join/exm_thread.c: three threads increment a static and a global *)
(* variable twice; the process ends with the last of them.                 *)

\* Statement ++s; ++g; and then the arguments ++s and ++g in the order the
\* compiler chose.
Increments == {<<"s", "g", "s", "g">>, <<"s", "g", "g", "s">>}

IncLoad(t) ==
  /\ Goto(t, "start", "store")
  /\ Load(t, Head(todo[t]))
  /\ UNCHANGED <<program, main, owner, semaphore, memory, todo, printed>>

\* Seeded fault: the variable is written back as it was.
IncStoreOld(t) ==
  /\ main = "joining"
  /\ pc[t] = "store"
  /\ Store(Head(todo[t]), register[t])
  /\ todo' = [todo EXCEPT ![t] = Tail(@)]
  /\ pc' = [pc EXCEPT ![t] = IF Len(todo[t]) = 1 THEN "end" ELSE "start"]
  /\ UNCHANGED <<program, main, owner, semaphore, register, printed>>

IncStore(t) ==
  /\ main = "joining"
  /\ pc[t] = "store"
  /\ Store(Head(todo[t]), register[t] + 1)
  /\ todo' = [todo EXCEPT ![t] = Tail(@)]
  /\ pc' = [pc EXCEPT ![t] = IF Len(todo[t]) = 1 THEN "end" ELSE "start"]
  /\ UNCHANGED <<program, main, owner, semaphore, register, printed>>

static(t) ==
  /\ program = "static"
  /\ t \in {t1, t2, t3}
  /\ IncLoad(t) \/ IncStore(t)

---------------------------------------------------------------------------
\* The threads main waits for.
JoinedBy(p) ==
  CASE p = "cond" -> {t2}
    [] p = "static" -> {t1, t2, t3}
    [] OTHER -> {t1, t2}

\* main returns, which ends the other threads too.
MainReturns ==
  /\ program # "none"
  /\ main = "joining"
  /\ Joined(JoinedBy(program))
  /\ main' = "ended"
  /\ UNCHANGED <<program, pc, owner, semaphore, memory, register, todo, printed>>

\* What a thread has to do at its start.
Rounds(p) ==
  CASE p = "semaphone" -> {[k \in 1 .. SemRounds |-> "stock_count"]}
    [] p = "static" -> Increments
    [] OTHER -> {<<>>}

ThreadsInit ==
  /\ program \in Programs
  /\ main = "joining"
  /\ pc = [t \in Threads |-> "start"]
  /\ owner = [m \in Mutexes |-> Free]
  /\ semaphore = [s \in Semaphores |-> 0]
  /\ memory = [x \in Cells |-> IF x = "done" THEN 1 ELSE 0]
  /\ register = [t \in Threads |-> 0]
  /\ \E rounds \in Rounds(program) : todo = [t \in Threads |-> rounds]
  /\ printed = [t \in Threads |-> <<>>]

\* What thread t does unless it is blocked.
ThreadStep(t) ==
  \/ t = t1 /\ (resource1 \/ consumer)
  \/ t = t2 /\ (resource2 \/ producer)
  \/ foo(t) \/ trythis(t) \/ race(t) \/ static(t)

ThreadsNext ==
  \/ MainReturns
  \/ \E t \in {t1, t2, t3} : ThreadStep(t) \/ FooSpurious(t)

ThreadsSpec == ThreadsInit /\ [][ThreadsNext]_threadVars

\* The scheduler runs every thread that can go on.
ThreadsFairSpec ==
  /\ ThreadsSpec
  /\ WF_threadVars(MainReturns)
  /\ \A t \in {t1, t2, t3} : WF_threadVars(ThreadStep(t))

---------------------------------------------------------------------------
\* Whatever updates of stock_count are lost, it never leaves its limits
\* (exm_semaphone.c: "stock overflow", "stock empty"): what a thread stores comes
\* from a value it loaded after its test.
StockWithinLimit ==
  program = "semaphone" => memory["stock_count"] \in 0 .. stock_max_limit

\* Lost updates may leave one side of exm_semaphone.c waiting for ever, but never
\* both.
OneSideEnds == program = "semaphone" => <>(pc[t1] = "end" \/ pc[t2] = "end")

\* The only way for exm_deadlock.c not to end is that each thread has its own
\* resource and waits for the other's.
Crossed == pc[t1] = "one" /\ pc[t2] = "one"
EndsUnlessCrossed == program = "deadlock" => <>(main = "ended" \/ Crossed)

\* The other programs end: exm_cond.c under whatever order the threads run in, and
\* exm_race_condition.c although each loop can set the other one back.
MainEnds ==
  program \in {"cond", "mutex", "race", "static"} => <>(main = "ended")

\* exm_mutex.c: the job a thread finishes is the one it started, and no other
\* thread's.
JobNumbersMatch ==
  program = "mutex" =>
    \A t \in {t1, t2} :
      /\ Len(printed[t]) = 2 => printed[t][1] = printed[t][2]
      /\ \A u \in {t1, t2} \ {t} :
           printed[t] # <<>> /\ printed[u] # <<>> => printed[t][1] # printed[u][1]

\* exm_race_condition.c: i may pass the limit by one, a value printed may not, and
\* at the end i has reached the limit, however the two loops set it back.
RaceBounds ==
  program = "race" =>
    /\ memory["i"] \in 0 .. RaceLimit + 1
    /\ \A t \in {t1, t2} : printed[t] # <<>> => printed[t][1] <= RaceLimit
    /\ main = "ended" => memory["i"] >= RaceLimit

\* exm_thread.c: of the six increments of a variable at least two are not lost.
IncrementBounds ==
  (program = "static" /\ main = "ended") =>
    \A x \in {"s", "g"} : memory[x] \in 2 .. 6
=============================================================================
