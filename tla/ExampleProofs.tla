--------------------------- MODULE ExampleProofs ---------------------------
(***************************************************************************)
(* Theorems about ThreadExamples and ProcessExamples for every limit,      *)
(* number of rounds and set of threads, and for every capacity, priorities *)
(* and number of messages.                                                 *)
(***************************************************************************)
EXTENDS ThreadExamples, ProcessExamples, TLAPS, SequenceTheorems

---------------------------------------------------------------------------
(* exm_semaphone.c                                                         *)

\* What the two sides rely on between their test, their load and their store: each
\* is the only one that moves the stock towards its own end, and a stale value the
\* other side stores is never nearer to that end than the value it tested.
StockInv ==
  /\ memory \in [Cells -> Int]
  /\ register \in [Threads -> Int]
  /\ pc \in [Threads -> {"start", "wait", "load", "store", "post", "end"}]
  /\ memory["stock_count"] \in 0 .. stock_max_limit
  /\ pc[t2] = "load" => memory["stock_count"] < stock_max_limit
  /\ pc[t2] = "store" => register[t2] \in 0 .. stock_max_limit - 1
  /\ pc[t1] = "load" => memory["stock_count"] > 0
  /\ pc[t1] = "store" => register[t1] \in 1 .. stock_max_limit

\* A step of the producer keeps the invariant: it stores at most the limit.
LEMMA ProducerStep ==
  ASSUME StockInv, producer
  PROVE  StockInv'
<1> USE ExamplesAssumption DEF StockInv
<1>1. CASE StockTest(t2, stock_max_limit, 1)
  BY <1>1 DEF StockTest
<1>2. CASE StockWait(t2, "semC")
  BY <1>2 DEF StockWait, Goto
<1>3. CASE StockLoad(t2)
  BY <1>3 DEF StockLoad, Goto, Load
<1>4. CASE StockStore(t2, 1)
  BY <1>4 DEF StockStore, Goto, Store
<1>5. CASE StockPost(t2, "semP")
  BY <1>5 DEF StockPost, RoundEnds
<1>6. QED
  BY <1>1, <1>2, <1>3, <1>4, <1>5 DEF producer

\* A step of the consumer keeps the invariant: it stores at least zero.
LEMMA ConsumerStep ==
  ASSUME StockInv, consumer
  PROVE  StockInv'
<1> USE ExamplesAssumption DEF StockInv
<1>1. CASE StockTest(t1, 0, -1)
  BY <1>1 DEF StockTest
<1>2. CASE StockWait(t1, "semP")
  BY <1>2 DEF StockWait, Goto
<1>3. CASE StockLoad(t1)
  BY <1>3 DEF StockLoad, Goto, Load
<1>4. CASE StockStore(t1, -1)
  BY <1>4 DEF StockStore, Goto, Store
<1>5. CASE StockPost(t1, "semC")
  BY <1>5 DEF StockPost, RoundEnds
<1>6. QED
  BY <1>1, <1>2, <1>3, <1>4, <1>5 DEF consumer

\* No other program runs beside the two.
LEMMA OnlyStockSteps ==
  ASSUME program = "semaphone", ThreadsNext
  PROVE  MainReturns \/ producer \/ consumer
BY DEF ThreadsNext, ThreadStep, FooSpurious, foo, trythis, race, static, resource1, resource2

\* The program that runs stays the same.
LEMMA ProgramStays ==
  ASSUME [ThreadsNext]_threadVars
  PROVE  program' = program
<1>1. CASE UNCHANGED threadVars
  BY <1>1 DEF threadVars
<1>2. CASE MainReturns
  BY <1>2 DEF MainReturns
<1>3. ASSUME NEW t \in {t1, t2, t3}, ThreadStep(t)
      PROVE  program' = program
  <2>1. CASE resource1
    BY <2>1 DEF resource1, resource, TakeOwn, TakeOther, GiveOther, GiveOwn
  <2>2. CASE resource2
    BY <2>2 DEF resource2, resource, TakeOwn, TakeOther, GiveOther, GiveOwn
  <2>3. CASE consumer
    BY <2>3 DEF consumer, StockTest, StockWait, StockLoad, StockStore, StockPost
  <2>4. CASE producer
    BY <2>4 DEF producer, StockTest, StockWait, StockLoad, StockStore, StockPost
  <2>5. CASE foo(t)
    BY <2>5 DEF foo, FooLock, FooWait, FooSignal, FooRelock, FooUnlock
  <2>6. CASE trythis(t)
    BY <2>6 DEF trythis, JobLock, JobLoad, JobStore, JobStarted, JobFinished, JobUnlock
  <2>7. CASE race(t)
    BY <2>7 DEF race, LoopInit, LoopTest, LoopPrint, LoopLoad, LoopStore
  <2>8. CASE static(t)
    BY <2>8 DEF static, IncLoad, IncStore
  <2>9. QED
    BY <1>3, <2>1, <2>2, <2>3, <2>4, <2>5, <2>6, <2>7, <2>8 DEF ThreadStep
<1>4. ASSUME NEW t \in {t1, t2, t3}, FooSpurious(t)
      PROVE  program' = program
  BY <1>4 DEF FooSpurious
<1>5. QED
  BY <1>1, <1>2, <1>3, <1>4 DEF ThreadsNext

\* exm_semaphone.c: the stock stays within its limits although the two threads count
\* it without a lock and lose updates.
THEOREM StockBounded == ThreadsSpec => []StockWithinLimit
<1> DEFINE Inv == program = "semaphone" => StockInv
<1>1. ThreadsInit => Inv
  BY ExamplesAssumption DEF ThreadsInit, StockInv
<1>2. Inv /\ [ThreadsNext]_threadVars => Inv'
  <2> SUFFICES ASSUME Inv, [ThreadsNext]_threadVars, program' = "semaphone"
               PROVE  StockInv'
    OBVIOUS
  <2>1. program = "semaphone"
    BY ProgramStays
  <2>2. StockInv
    BY <2>1
  <2>3. CASE UNCHANGED threadVars
    BY <2>2, <2>3 DEF threadVars, StockInv
  <2>4. CASE MainReturns
    BY <2>2, <2>4 DEF MainReturns, StockInv
  <2>5. CASE producer
    BY <2>2, <2>5, ProducerStep
  <2>6. CASE consumer
    BY <2>2, <2>6, ConsumerStep
  <2>7. QED
    BY <2>1, <2>3, <2>4, <2>5, <2>6, OnlyStockSteps
<1>3. Inv => StockWithinLimit
  BY DEF StockInv, StockWithinLimit
<1>4. QED
  BY <1>1, <1>2, <1>3, PTL DEF ThreadsSpec
---------------------------------------------------------------------------
(* exm_mutex.c                                                             *)

Holding == {"load", "store", "started", "finished", "unlock"}

JobType ==
  /\ memory \in [Cells -> Int]
  /\ register \in [Threads -> Int]
  /\ printed \in [Threads -> Seq(Int)]
  /\ owner \in [Mutexes -> Threads \cup {Free}]
  /\ pc \in [Threads -> Holding \cup {"start", "end"}]

\* The lock is held from before the counter is loaded until after it is printed
\* twice.
JobOf(t) ==
  /\ pc[t] \in Holding => owner["lock"] = t
  /\ pc[t] \in {"start", "load", "store", "started"} => printed[t] = <<>>
  /\ pc[t] = "store" => register[t] = memory["counter"]
  /\ pc[t] = "finished" => printed[t] = <<memory["counter"]>>
  /\ pc[t] = "unlock" => printed[t] = <<memory["counter"], memory["counter"]>>
  /\ pc[t] = "end" => \E n \in Int : printed[t] = <<n, n>> /\ n <= memory["counter"]

\* The number of a job that is over is not the one of another job.
Apart(t, u) ==
  pc[t] = "end" =>
    /\ pc[u] \in {"started", "finished", "unlock"} => printed[t][1] < memory["counter"]
    /\ pc[u] = "end" => printed[t][1] # printed[u][1]

JobInv == JobType /\ JobOf(t1) /\ JobOf(t2) /\ Apart(t1, t2) /\ Apart(t2, t1)

LEMMA TwoIsNotEmpty == \A s : Len(s) = 2 => s # <<>>
<1>1. Len(<<>>) = 0
  OBVIOUS
<1>2. QED
  BY <1>1

LEMMA TwiceAppended ==
  ASSUME NEW n \in Int
  PROVE  Append(<<n>>, n) = <<n, n>>
<1>1. <<n>> \in Seq(Int) /\ <<n, n>> \in Seq(Int)
  OBVIOUS
<1>2. Append(<<n>>, n) \in Seq(Int)
  BY <1>1, AppendProperties
<1>3. Len(Append(<<n>>, n)) = 2 /\ Append(<<n>>, n)[1] = n /\ Append(<<n>>, n)[2] = n
  BY <1>1, AppendProperties
<1>4. Len(<<n, n>>) = 2 /\ <<n, n>>[1] = n /\ <<n, n>>[2] = n
  OBVIOUS
<1> DEFINE a == Append(<<n>>, n)
           b == <<n, n>>
<1>5. Len(a) = Len(b) /\ \A k \in 1 .. Len(a) : a[k] = b[k]
  BY <1>3, <1>4
<1>6. a \in Seq(Int) /\ b \in Seq(Int)
  BY <1>1, <1>2
<1> HIDE DEF a, b
<1>7. a = b
  BY <1>5, <1>6, SeqEqual
<1>8. QED
  BY <1>7 DEF a, b

\* A step of one job keeps what is said of it and of another one.
LEMMA JobStep ==
  ASSUME NEW t \in Threads, NEW u \in Threads, t # u,
         JobType, JobOf(t), JobOf(u), Apart(t, u), Apart(u, t),
         trythis(t)
  PROVE  JobType' /\ JobOf(t)' /\ JobOf(u)' /\ Apart(t, u)' /\ Apart(u, t)'
<1> USE ExamplesAssumption, ThreadsAssumption
<1>1. CASE JobLock(t)
  <2>1. JobType'
    BY <1>1 DEF JobLock, Goto, Lock, JobType, Holding
  <2>2. JobOf(t)'
    BY <1>1 DEF JobLock, Goto, Lock, JobType, JobOf, Holding
  <2>3. JobOf(u)'
    BY <1>1 DEF JobLock, Goto, Lock, JobType, JobOf, Holding
  <2>4. Apart(t, u)' /\ Apart(u, t)'
    BY <1>1 DEF JobLock, Goto, Lock, JobType, Apart, Holding
  <2>5. QED
    BY <2>1, <2>2, <2>3, <2>4
<1>2. CASE JobLoad(t)
  <2>1. JobType'
    BY <1>2 DEF JobLoad, Goto, Load, JobType, Holding
  <2>2. JobOf(t)'
    BY <1>2 DEF JobLoad, Goto, Load, JobType, JobOf, Holding
  <2>3. JobOf(u)'
    BY <1>2 DEF JobLoad, Goto, Load, JobType, JobOf, Holding
  <2>4. Apart(t, u)' /\ Apart(u, t)'
    BY <1>2 DEF JobLoad, Goto, Load, JobType, Apart, Holding
  <2>5. QED
    BY <2>1, <2>2, <2>3, <2>4
<1>3. CASE JobStore(t)
  <2> DEFINE n == memory["counter"]
  <2>0. register[t] + 1 \in Int /\ "counter" \in Cells
    <3>1. register[t] \in Int
      BY DEF JobType
    <3>2. "counter" \in Cells
      OBVIOUS
    <3>3. QED
      BY <3>1, <3>2
  <2>1. JobType'
    <3>1. memory' = [memory EXCEPT !["counter"] = register[t] + 1]
      BY <1>3 DEF JobStore, Store
    <3>2. memory' \in [Cells -> Int]
      BY <2>0, <3>1 DEF JobType
    <3>3. pc' \in [Threads -> Holding \cup {"start", "end"}]
      BY <1>3 DEF JobStore, Goto, JobType, Holding
    <3>4. QED
      BY <1>3, <3>2, <3>3 DEF JobStore, JobType
  <2>2. /\ n \in Int /\ memory'["counter"] = n + 1
        /\ pc[t] = "store" /\ pc' = [pc EXCEPT ![t] = "started"]
        /\ UNCHANGED <<owner, register, printed>>
    BY <1>3 DEF JobStore, Goto, Store, JobType, JobOf
  <2>3. pc[u] \in {"start", "end"} /\ pc'[u] = pc[u] /\ pc'[t] = "started"
    BY <2>2 DEF JobType, JobOf, Holding
  <2>4. JobOf(t)'
    BY <2>2, <2>3 DEF JobOf, Holding
  <2>5. JobOf(u)'
    BY <2>2, <2>3 DEF JobOf, Holding
  <2>6. pc[u] = "end" => printed[u][1] \in Int /\ printed[u][1] <= n
    BY <2>2 DEF JobOf
  <2>7. Apart(t, u)' /\ Apart(u, t)'
    BY <2>2, <2>3, <2>6 DEF Apart
  <2>8. QED
    BY <2>1, <2>4, <2>5, <2>7
<1>4. CASE JobStarted(t)
  <2> DEFINE n == memory["counter"]
  <2>1. /\ n \in Int
        /\ pc[t] = "started" /\ pc' = [pc EXCEPT ![t] = "finished"]
        /\ printed[t] = <<>> /\ printed' = [printed EXCEPT ![t] = <<n>>]
        /\ UNCHANGED <<owner, register, memory>>
    <3>1. n \in Int
      BY DEF JobType
    <3>2. pc[t] = "started" /\ printed[t] = <<>>
      BY <1>4 DEF JobStarted, Goto, JobOf
    <3>3. printed' = [printed EXCEPT ![t] = Append(printed[t], n)]
      BY <1>4 DEF JobStarted, Printed
    <3>4. Append(<<>>, n) = <<n>>
      OBVIOUS
    <3>5. QED
      BY <1>4, <3>1, <3>2, <3>3, <3>4 DEF JobStarted, Goto
  <2>2. JobType'
    <3>1. printed' \in [Threads -> Seq(Int)]
      <4>1. <<n>> \in Seq(Int)
        BY <2>1
      <4>2. QED
        BY <2>1, <4>1 DEF JobType
    <3>2. pc' \in [Threads -> Holding \cup {"start", "end"}]
      BY <2>1 DEF JobType, Holding
    <3>3. QED
      BY <2>1, <3>1, <3>2 DEF JobType
  <2>3. pc[u] \in {"start", "end"} /\ pc'[u] = pc[u] /\ pc'[t] = "finished"
        /\ printed'[t] = <<n>> /\ printed'[u] = printed[u]
    BY <2>1 DEF JobType, JobOf, Holding
  <2>4. JobOf(t)' /\ JobOf(u)'
    BY <2>1, <2>3 DEF JobOf, JobType, Holding
  <2>5. Apart(t, u)' /\ Apart(u, t)'
    BY <2>1, <2>3 DEF Apart
  <2>6. QED
    BY <2>2, <2>4, <2>5
<1>5. CASE JobFinished(t)
  <2> DEFINE n == memory["counter"]
  <2>1. /\ n \in Int
        /\ pc[t] = "finished" /\ pc' = [pc EXCEPT ![t] = "unlock"]
        /\ printed[t] = <<n>> /\ printed' = [printed EXCEPT ![t] = <<n, n>>]
        /\ UNCHANGED <<owner, register, memory>>
    <3>0. n \in Int /\ "counter" \in Cells
      BY DEF JobType
    <3>1. n \in Int /\ Append(<<n>>, n) = <<n, n>>
      BY <3>0, TwiceAppended
    <3>2. pc[t] = "finished" /\ printed[t] = <<n>>
      BY <1>5 DEF JobFinished, Goto, JobOf
    <3>3. printed' = [printed EXCEPT ![t] = Append(printed[t], n)]
      BY <1>5 DEF JobFinished, Printed
    <3>4. QED
      BY <1>5, <3>1, <3>2, <3>3 DEF JobFinished, Goto
  <2>2. JobType'
    <3>1. <<n, n>> \in Seq(Int)
      BY <2>1
    <3>2. printed' \in [Threads -> Seq(Int)]
      BY <2>1, <3>1 DEF JobType
    <3>3. pc' \in [Threads -> Holding \cup {"start", "end"}]
      BY <2>1 DEF JobType, Holding
    <3>4. QED
      BY <2>1, <3>2, <3>3 DEF JobType
  <2>3. pc[u] \in {"start", "end"} /\ pc'[u] = pc[u] /\ pc'[t] = "unlock"
        /\ printed'[t] = <<n, n>> /\ printed'[u] = printed[u]
    BY <2>1 DEF JobType, JobOf, Holding
  <2>4. JobOf(t)' /\ JobOf(u)'
    BY <2>1, <2>3 DEF JobOf, JobType, Holding
  <2>5. Apart(t, u)' /\ Apart(u, t)'
    BY <2>1, <2>3 DEF Apart
  <2>6. QED
    BY <2>2, <2>4, <2>5
<1>6. CASE JobUnlock(t)
  <2> DEFINE n == memory["counter"]
  <2>1. /\ n \in Int
        /\ pc[t] = "unlock" /\ pc' = [pc EXCEPT ![t] = "end"]
        /\ printed[t] = <<n, n>>
        /\ owner' = [owner EXCEPT !["lock"] = Free]
        /\ UNCHANGED <<register, memory, printed>>
    BY <1>6 DEF JobUnlock, Goto, Unlock, JobType, JobOf
  <2>2. JobType'
    BY <2>1 DEF JobType, Holding
  <2>3. pc[u] \in {"start", "end"} /\ pc'[u] = pc[u] /\ pc'[t] = "end"
    BY <2>1 DEF JobType, JobOf, Holding
  <2>4. JobOf(t)' /\ JobOf(u)'
    <3>1. printed'[t] = <<n, n>> /\ n <= memory'["counter"]
      BY <2>1
    <3>2. JobOf(t)'
      BY <2>1, <2>3, <3>1 DEF JobOf, Holding
    <3>3. JobOf(u)'
      BY <2>1, <2>3 DEF JobOf, Holding
    <3>4. QED
      BY <3>2, <3>3
  <2>5. Apart(t, u)' /\ Apart(u, t)'
    BY <2>1, <2>3 DEF Apart
  <2>6. QED
    BY <2>2, <2>4, <2>5
<1>7. QED
  BY <1>1, <1>2, <1>3, <1>4, <1>5, <1>6 DEF trythis

\* No other program runs beside the jobs.
LEMMA OnlyJobSteps ==
  ASSUME program = "mutex", ThreadsNext
  PROVE  MainReturns \/ \E t \in {t1, t2} : trythis(t)
BY DEF ThreadsNext, ThreadStep, FooSpurious, foo, trythis, race, static, resource1,
       resource2, producer, consumer

\* exm_mutex.c: a job finishes under the number it started with, and no two jobs
\* have one number, because the counter is read and written under the lock only.
THEOREM JobsNumbered == ThreadsSpec => []JobNumbersMatch
<1> DEFINE Inv == program = "mutex" => JobInv
<1>1. ThreadsInit => Inv
  BY ExamplesAssumption DEF ThreadsInit, JobInv, JobType, JobOf, Apart, Holding
<1>2. Inv /\ [ThreadsNext]_threadVars => Inv'
  <2> SUFFICES ASSUME Inv, [ThreadsNext]_threadVars, program' = "mutex"
               PROVE  JobInv'
    OBVIOUS
  <2>1. program = "mutex"
    BY ProgramStays
  <2>2. JobInv
    BY <2>1
  <2>3. CASE UNCHANGED threadVars
    <3>1. UNCHANGED <<memory, register, printed, owner, pc>>
      BY <2>3 DEF threadVars
    <3>2. JobType' /\ JobOf(t1)' /\ JobOf(t2)'
      BY <2>2, <3>1 DEF JobInv, JobType, JobOf
    <3>3. Apart(t1, t2)' /\ Apart(t2, t1)'
      BY <2>2, <3>1 DEF JobInv, Apart
    <3>4. QED
      BY <3>2, <3>3 DEF JobInv
  <2>4. CASE MainReturns
    BY <2>2, <2>4 DEF MainReturns, JobInv, JobType, JobOf, Apart
  <2> DEFINE Kept(t, u) == JobType' /\ JobOf(t)' /\ JobOf(u)' /\ Apart(t, u)' /\ Apart(u, t)'
  <2>t. t1 \in Threads /\ t2 \in Threads /\ t1 # t2
    BY ExamplesAssumption
  <2>5. CASE trythis(t1)
    <3>1. Kept(t1, t2)
      BY <2>t, <2>2, <2>5, JobStep DEF JobInv
    <3>2. QED
      BY <3>1 DEF JobInv
  <2>6. CASE trythis(t2)
    <3>1. Kept(t2, t1)
      BY <2>t, <2>2, <2>6, JobStep DEF JobInv
    <3>2. QED
      BY <3>1 DEF JobInv
  <2>7. QED
    BY <2>1, <2>3, <2>4, <2>5, <2>6, OnlyJobSteps
<1>3. Inv => JobNumbersMatch
  <2> SUFFICES ASSUME program = "mutex", JobInv
               PROVE  JobNumbersMatch
    BY DEF JobNumbersMatch
  <2> USE ExamplesAssumption
  <2>1. ASSUME NEW t \in {t1, t2}, Len(printed[t]) = 2
        PROVE  printed[t][1] = printed[t][2]
    <3>1. t \in Threads /\ JobType /\ JobOf(t)
      BY <2>1 DEF JobInv
    <3>2. CASE pc[t] = "finished"
      <4>1. printed[t] = <<memory["counter"]>>
        BY <3>1, <3>2 DEF JobOf
      <4>2. Len(printed[t]) = 1
        BY <4>1
      <4>3. QED
        BY <2>1, <4>2
    <3>3. pc[t] \in {"finished", "unlock", "end"}
      <4>1. pc[t] \in Holding \cup {"start", "end"}
        BY <3>1 DEF JobType
      <4>2. printed[t] # <<>>
        BY <2>1, TwoIsNotEmpty
      <4>3. QED
        BY <3>1, <4>1, <4>2 DEF JobOf, Holding
    <3>4. CASE pc[t] = "unlock"
      BY <3>1, <3>4 DEF JobOf
    <3>5. CASE pc[t] = "end"
      BY <3>1, <3>5 DEF JobOf
    <3>6. QED
      BY <3>2, <3>3, <3>4, <3>5
  <2>2. ASSUME NEW t \in {t1, t2}, NEW u \in {t1, t2} \ {t},
               printed[t] # <<>>, printed[u] # <<>>
        PROVE  printed[t][1] # printed[u][1]
    <3>1. /\ t \in Threads /\ u \in Threads /\ t # u /\ JobType
          /\ JobOf(t) /\ JobOf(u) /\ Apart(t, u) /\ Apart(u, t)
      BY <2>2 DEF JobInv
    <3>2. pc[t] \in {"finished", "unlock", "end"} /\ pc[u] \in {"finished", "unlock", "end"}
      BY <2>2, <3>1 DEF JobType, JobOf, Holding
    <3>3. memory["counter"] \in Int
      BY <3>1 DEF JobType
    <3>4. pc[t] = "end" \/ pc[u] = "end"
      BY <3>1, <3>2 DEF JobOf, Holding
    <3>5. pc[t] # "end" => printed[t][1] = memory["counter"]
      BY <3>1, <3>2 DEF JobOf
    <3>6. pc[u] # "end" => printed[u][1] = memory["counter"]
      BY <3>1, <3>2 DEF JobOf
    <3>7. QED
      BY <3>1, <3>2, <3>3, <3>4, <3>5, <3>6 DEF Apart
  <2>3. QED
    BY <2>1, <2>2 DEF JobNumbersMatch
<1>4. QED
  BY <1>1, <1>2, <1>3, PTL DEF ThreadsSpec

---------------------------------------------------------------------------
(* exm_race_condition.c                                                    *)

Over(t) == pc[t] \in {"test", "end"}

\* A loop that is about to store more than the limit loaded the limit, which the other
\* one stored on its way out, or to its last test.
Overshoots(t, u) == pc[t] = "store" /\ register[t] = RaceLimit => memory["i"] = RaceLimit /\ Over(u)

\* What the thread t and the other thread u rely on.
RaceOf(t, u) ==
  /\ memory["i"] \in 0 .. RaceLimit + 1
  /\ pc[t] = "store" => register[t] \in 0 .. RaceLimit
  /\ pc[u] = "store" => register[u] \in 0 .. RaceLimit
  /\ Overshoots(t, u) /\ Overshoots(u, t)
  /\ memory["i"] >= RaceLimit => Over(t) \/ Over(u)
  /\ memory["i"] = RaceLimit + 1 => Over(t) /\ Over(u)
  /\ pc[t] = "end" /\ pc[u] = "end" => memory["i"] >= RaceLimit

RaceType ==
  /\ memory \in [Cells -> Int]
  /\ register \in [Threads -> Int]
  /\ printed \in [Threads -> Seq(Int)]
  /\ pc \in [Threads -> {"start", "test", "print", "load", "store", "end"}]
  /\ \A t \in {t1, t2} : printed[t] # <<>> => printed[t][1] <= RaceLimit
  /\ main = "ended" => pc[t1] = "end" /\ pc[t2] = "end"

RaceInv == RaceType /\ RaceOf(t1, t2)

LEMMA RaceStep ==
  ASSUME RaceType, NEW t \in {t1, t2}, NEW u \in {t1, t2}, t # u, RaceOf(t, u), race(t)
  PROVE  RaceType' /\ RaceOf(t, u)'
<1>0. /\ t \in Threads /\ u \in Threads /\ "i" \in Cells /\ memory["i"] \in Int
      /\ RaceLimit \in Nat /\ RaceLimit # 0 /\ register[t] \in Int /\ register[u] \in Int
  BY ExamplesAssumption DEF RaceType
<1>1. /\ main = "joining" /\ main' = main /\ pc'[u] = pc[u]
      /\ UNCHANGED printed \/ LoopPrint(t)
  BY <1>0 DEF race, LoopInit, LoopTest, LoopPrint, LoopLoad, LoopStore, Goto, RaceType
<1>2. CASE LoopInit(t)
  <2>1. /\ pc[t] = "start" /\ pc' = [pc EXCEPT ![t] = "test"] /\ UNCHANGED <<register, printed>>
        /\ memory' = [memory EXCEPT !["i"] = 0]
    BY <1>2 DEF LoopInit, Goto, Store
  <2>2. pc'[t] = "test" /\ memory'["i"] = 0
    BY <1>0, <2>1 DEF RaceType
  <2>3. QED
    BY <1>0, <1>1, <2>1, <2>2 DEF RaceType, RaceOf, Overshoots, Over
<1>3. CASE LoopTest(t)
  <2>1. /\ pc[t] = "test" /\ UNCHANGED <<memory, register, printed>>
        /\ pc' = [pc EXCEPT ![t] = pc'[t]]
        /\ pc'[t] = IF memory["i"] < RaceLimit THEN "print" ELSE "end"
    BY <1>0, <1>3 DEF LoopTest, RaceType
  <2>2. RaceType'
    BY <1>0, <1>1, <2>1 DEF RaceType
  <2>3. QED
    BY <1>0, <1>1, <2>1, <2>2 DEF RaceOf, Overshoots, Over
<1>4. CASE LoopPrint(t)
  <2>1. /\ pc[t] = "print" /\ pc' = [pc EXCEPT ![t] = "load"] /\ UNCHANGED <<memory, register>>
        /\ printed' = [printed EXCEPT ![t] = <<memory["i"]>>]
    BY <1>4 DEF LoopPrint, Goto
  <2>2. pc'[t] = "load" /\ memory["i"] <= RaceLimit
    BY <1>0, <2>1 DEF RaceType, RaceOf, Over
  <2>3. <<memory["i"]>> \in Seq(Int) /\ <<memory["i"]>>[1] = memory["i"]
    BY <1>0
  <2>4. /\ printed' \in [Threads -> Seq(Int)]
        /\ \A v \in {t1, t2} : printed'[v] # <<>> => printed'[v][1] <= RaceLimit
    BY <1>0, <2>1, <2>2, <2>3 DEF RaceType
  <2>5. QED
    BY <1>0, <1>1, <2>1, <2>2, <2>4 DEF RaceType, RaceOf, Overshoots, Over
<1>5. CASE LoopLoad(t)
  <2>1. /\ pc[t] = "load" /\ pc' = [pc EXCEPT ![t] = "store"] /\ UNCHANGED <<memory, printed>>
        /\ register' = [register EXCEPT ![t] = memory["i"]]
    BY <1>5 DEF LoopLoad, Goto, Load
  <2>2. pc'[t] = "store" /\ register'[t] = memory["i"] /\ register'[u] = register[u]
    BY <1>0, <2>1 DEF RaceType
  <2>3. RaceType'
    BY <1>0, <1>1, <2>1 DEF RaceType
  <2>4. QED
    BY <1>0, <1>1, <2>1, <2>2, <2>3 DEF RaceOf, Overshoots, Over
<1>6. CASE LoopStore(t)
  <2>1. /\ pc[t] = "store" /\ pc' = [pc EXCEPT ![t] = "test"] /\ UNCHANGED <<register, printed>>
        /\ memory' = [memory EXCEPT !["i"] = register[t] + 1]
    BY <1>6 DEF LoopStore, Goto, Store
  <2>2. pc'[t] = "test" /\ memory'["i"] = register[t] + 1 /\ register[t] + 1 \in Int
    BY <1>0, <2>1 DEF RaceType
  <2>3. RaceType'
    BY <1>0, <1>1, <2>1, <2>2 DEF RaceType
  <2>4. QED
    BY <1>0, <1>1, <2>1, <2>2, <2>3 DEF RaceOf, Overshoots, Over
<1>7. QED
  BY <1>2, <1>3, <1>4, <1>5, <1>6 DEF race

\* No other program runs beside the two loops.
LEMMA OnlyRaceSteps ==
  ASSUME program = "race", ThreadsNext
  PROVE  MainReturns \/ \E t \in {t1, t2} : race(t)
BY DEF ThreadsNext, ThreadStep, FooSpurious, foo, trythis, race, static, resource1,
       resource2, producer, consumer

\* exm_race_condition.c: however the two loops set each other's variable back, it
\* passes the limit by one at most, no value over the limit is printed, and the last
\* loop ends at the limit.
THEOREM RaceBounded == ThreadsSpec => []RaceBounds
<1> DEFINE Inv == program = "race" => RaceInv
<1>1. ThreadsInit => Inv
  BY ExamplesAssumption DEF ThreadsInit, RaceInv, RaceType, RaceOf, Overshoots, Over
<1>2. Inv /\ [ThreadsNext]_threadVars => Inv'
  <2> SUFFICES ASSUME Inv, [ThreadsNext]_threadVars, program' = "race"
               PROVE  RaceInv'
    OBVIOUS
  <2>1. program = "race" /\ RaceInv
    BY ProgramStays
  <2>2. CASE UNCHANGED threadVars
    BY <2>1, <2>2 DEF threadVars, RaceInv, RaceType, RaceOf, Overshoots, Over
  <2>3. CASE MainReturns
    <3>1. pc[t1] = "end" /\ pc[t2] = "end"
      BY <2>1, <2>3 DEF MainReturns, Joined, JoinedBy
    <3>2. QED
      BY <2>1, <2>3, <3>1 DEF MainReturns, RaceInv, RaceType, RaceOf, Overshoots, Over
  <2> DEFINE Kept(t, u) == RaceType' /\ RaceOf(t, u)'
  <2>4. t1 # t2 /\ RaceOf(t2, t1)
    BY <2>1, ExamplesAssumption DEF RaceInv, RaceOf
  <2>5. CASE race(t1)
    BY <2>1, <2>4, <2>5, RaceStep DEF RaceInv
  <2>6. CASE race(t2)
    <3>1. Kept(t2, t1)
      BY <2>1, <2>4, <2>6, RaceStep DEF RaceInv
    <3>2. QED
      BY <3>1 DEF RaceInv, RaceOf
  <2>7. QED
    BY <2>1, <2>2, <2>3, <2>5, <2>6, OnlyRaceSteps
<1>3. Inv => RaceBounds
  BY DEF RaceInv, RaceType, RaceOf, RaceBounds
<1>4. QED
  BY <1>1, <1>2, <1>3, PTL DEF ThreadsSpec

---------------------------------------------------------------------------
(* exm_thread.c                                                            *)

Incremented == {"s", "g"}

\* How often x is among the four increments of a thread, and among those left.
At(q, k, x) == IF k \in DOMAIN q /\ q[k] = x THEN 1 ELSE 0
Left(q, x) == At(q, 1, x) + At(q, 2, x) + At(q, 3, x) + At(q, 4, x)

\* The increments of x that were stored, lost ones included.
Stored(x) == 6 - Left(todo[t1], x) - Left(todo[t2], x) - Left(todo[t3], x)

Three == {t1, t2, t3}

IncrementType ==
  /\ memory \in [Cells -> Int]
  /\ register \in [Threads -> Int]
  /\ pc \in [Threads -> {"start", "store", "end"}]
  /\ todo \in [Threads -> Seq(Incremented)]
  /\ \A t \in Three : Len(todo[t]) <= 4 /\ (pc[t] = "end" <=> todo[t] = <<>>)
  /\ main = "ended" => \A t \in Three : pc[t] = "end"

\* Thread t holds a value it loaded for x.
Holds(t, x) == pc[t] = "store" /\ Head(todo[t]) = x

\* No value is greater than the number of increments stored; and whoever stores its
\* second increment last loaded at least what its own first one left.
Counts(x) ==
  /\ \A t \in Three : Left(todo[t], x) <= 2
  /\ memory[x] \in 0 .. Stored(x)
  /\ \A t \in Three : Holds(t, x) => register[t] \in 0 .. Stored(x)
  /\ (\E t \in Three : Left(todo[t], x) < 2) => memory[x] >= 1
  /\ \A t \in Three : Holds(t, x) /\ Left(todo[t], x) = 1 => register[t] >= 1
  /\ (\A t \in Three : Left(todo[t], x) = 0) => memory[x] >= 2

IncrementInv == IncrementType /\ \A x \in Incremented : Counts(x)

\* One increment is done.
LEMMA LeftAfter ==
  ASSUME NEW q \in Seq(Incremented), q # <<>>, Len(q) <= 4, NEW x
  PROVE  /\ Left(q, x) \in Nat /\ Left(Tail(q), x) \in Nat
         /\ Left(Tail(q), x) = IF Head(q) = x THEN Left(q, x) - 1 ELSE Left(q, x)
<1>0. Len(q) \in Nat /\ Len(q) # 0
  OBVIOUS
<1>a. DOMAIN q = 1 .. Len(q) /\ Head(q) = q[1]
  OBVIOUS
<1>c. Len(q) \in 1 .. 4
  <2>1. \A n \in Nat : n # 0 /\ n <= 4 => n \in 1 .. 4
    OBVIOUS
  <2>2. QED
    BY <1>0, <2>1, Zenon
<1>b. /\ DOMAIN Tail(q) = 1 .. Len(q) - 1
      /\ \A k \in 1 .. Len(q) - 1 : Tail(q)[k] = q[k + 1]
  BY HeadTailProperties
<1>1. /\ Len(q) \in 1 .. 4 /\ DOMAIN q = 1 .. Len(q) /\ Head(q) = q[1]
      /\ DOMAIN Tail(q) = 1 .. Len(q) - 1
      /\ \A k \in 1 .. Len(q) - 1 : Tail(q)[k] = q[k + 1]
  BY <1>a, <1>b, <1>c
<1>2. \A k \in {1, 2, 3} : At(Tail(q), k, x) = At(q, k + 1, x)
  BY <1>1 DEF At
<1>3. At(Tail(q), 4, x) = 0 /\ At(q, 1, x) = IF Head(q) = x THEN 1 ELSE 0
  BY <1>1 DEF At
<1>4. \A k : At(q, k, x) \in {0, 1} /\ At(Tail(q), k, x) \in {0, 1}
  BY DEF At
<1>5. /\ At(Tail(q), 1, x) = At(q, 2, x) /\ At(Tail(q), 2, x) = At(q, 3, x)
      /\ At(Tail(q), 3, x) = At(q, 4, x)
  BY <1>2
<1>6. /\ Left(q, x) = At(q, 1, x) + At(q, 2, x) + At(q, 3, x) + At(q, 4, x)
      /\ Left(Tail(q), x) = At(q, 2, x) + At(q, 3, x) + At(q, 4, x) + 0
  BY <1>3, <1>5 DEF Left
<1>7. /\ At(q, 1, x) \in {0, 1} /\ At(q, 2, x) \in {0, 1} /\ At(q, 3, x) \in {0, 1}
      /\ At(q, 4, x) \in {0, 1}
  BY <1>4
<1>8. \A a, b, c, d \in {0, 1} : /\ a + b + c + d \in Nat /\ b + c + d + 0 \in Nat
                               /\ b + c + d + 0 = (a + b + c + d) - a
  OBVIOUS
<1>9. /\ Left(q, x) \in Nat /\ Left(Tail(q), x) \in Nat
      /\ Left(Tail(q), x) = Left(q, x) - At(q, 1, x)
  <2>1. /\ At(q, 1, x) + At(q, 2, x) + At(q, 3, x) + At(q, 4, x) \in Nat
        /\ At(q, 2, x) + At(q, 3, x) + At(q, 4, x) + 0 \in Nat
        /\ At(q, 2, x) + At(q, 3, x) + At(q, 4, x) + 0
             = (At(q, 1, x) + At(q, 2, x) + At(q, 3, x) + At(q, 4, x)) - At(q, 1, x)
    BY <1>7, <1>8, Zenon
  <2>2. QED
    BY <1>6, <2>1, Zenon
<1>10. QED
  BY <1>3, <1>9

LEMMA LeftType ==
  ASSUME NEW q, NEW x
  PROVE  Left(q, x) \in Nat
<1>1. \A k : At(q, k, x) \in {0, 1}
  BY DEF At
<1>2. QED
  BY <1>1 DEF Left

LEMMA NoneLeft == \A x : Left(<<>>, x) = 0
<1>1. DOMAIN <<>> = {}
  OBVIOUS
<1>2. QED
  BY <1>1 DEF Left, At

LEMMA IncLoadStep ==
  ASSUME IncrementInv, NEW t \in Three, IncLoad(t)
  PROVE  IncrementInv'
<1>1. /\ t \in Threads /\ Three \subseteq Threads
      /\ main = "joining" /\ pc[t] = "start" /\ pc' = [pc EXCEPT ![t] = "store"]
      /\ register' = [register EXCEPT ![t] = memory[Head(todo[t])]]
      /\ UNCHANGED <<main, memory, todo>>
  BY ExamplesAssumption DEF IncLoad, Goto, Load, Three
<1>2. todo[t] # <<>> /\ Head(todo[t]) \in Incremented
  BY <1>1 DEF IncrementInv, IncrementType
<1>3. Incremented \subseteq Cells
  BY ExamplesAssumption DEF Incremented
<1>4. IncrementType'
  BY <1>1, <1>2, <1>3 DEF IncrementInv, IncrementType
<1>5. ASSUME NEW x \in Incremented
      PROVE  Counts(x)'
  <2>1. Counts(x) /\ \A u \in Three : todo'[u] = todo[u]
    BY <1>1, <1>5 DEF IncrementInv
  <2>2. Stored(x)' = Stored(x) /\ memory' = memory
    BY <1>1 DEF Stored
  <2>3. \A u \in Three \ {t} : register'[u] = register[u] /\ (Holds(u, x)' <=> Holds(u, x))
    BY <1>1 DEF Holds, IncrementInv, IncrementType
  <2>4. Holds(t, x)' => register'[t] = memory[x]
    BY <1>1 DEF Holds, IncrementInv, IncrementType
  <2>5. \A u \in Three : Left(todo[u], x) = 1 => Left(todo[u], x) < 2
    OBVIOUS
  <2>6. \A u \in Three : Holds(u, x)' => register'[u] \in 0 .. Stored(x)
    BY <2>1, <2>3, <2>4 DEF Counts
  <2>7. \A u \in Three : Holds(u, x)' /\ Left(todo[u], x) = 1 => register'[u] >= 1
    BY <2>1, <2>3, <2>4, <2>5 DEF Counts
  <2>8. QED
    BY <2>1, <2>2, <2>6, <2>7 DEF Counts
<1>6. QED
  BY <1>4, <1>5 DEF IncrementInv

LEMMA IncStoreStep ==
  ASSUME IncrementInv, NEW t \in Three, IncStore(t)
  PROVE  IncrementInv'
<1> DEFINE y == Head(todo[t])
<1>1. /\ t \in Threads /\ Three \subseteq Threads
      /\ main = "joining" /\ pc[t] = "store"
      /\ pc' = [pc EXCEPT ![t] = IF Len(todo[t]) = 1 THEN "end" ELSE "start"]
      /\ memory' = [memory EXCEPT ![y] = register[t] + 1]
      /\ todo' = [todo EXCEPT ![t] = Tail(todo[t])]
      /\ UNCHANGED <<main, register>>
  BY ExamplesAssumption DEF IncStore, Store, Three
<1>2. /\ todo[t] # <<>> /\ y \in Incremented /\ todo[t] \in Seq(Incremented) /\ Len(todo[t]) <= 4
      /\ Tail(todo[t]) \in Seq(Incremented) /\ Len(Tail(todo[t])) = Len(todo[t]) - 1
  BY <1>1 DEF IncrementInv, IncrementType
<1>3. Incremented \subseteq Cells /\ register[t] \in Int /\ register[t] + 1 \in Int
  <2>1. Incremented \subseteq Cells
    BY ExamplesAssumption DEF Incremented
  <2>2. t \in Threads /\ register \in [Threads -> Int]
    BY <1>1 DEF IncrementInv, IncrementType
  <2>3. register[t] \in Int
    BY <2>2
  <2>4. QED
    BY <2>1, <2>3
<1>4. /\ todo'[t] = Tail(todo[t]) /\ \A u \in Three \ {t} : todo'[u] = todo[u] /\ pc'[u] = pc[u]
      /\ pc'[t] = IF Len(todo[t]) = 1 THEN "end" ELSE "start"
  BY <1>1 DEF IncrementInv, IncrementType
<1>5. Len(Tail(todo[t])) <= 4 /\ (Len(todo[t]) = 1 <=> Tail(todo[t]) = <<>>)
  <2>1. \A q \in Seq(Incremented) : Len(q) = 0 <=> q = <<>>
    BY EmptySeq
  <2>2. Len(todo[t]) \in Nat
    BY <1>2
  <2>3. Len(Tail(todo[t])) = 0 <=> Tail(todo[t]) = <<>>
    BY <1>2, <2>1
  <2>4. \A n \in Nat : n <= 4 => n - 1 <= 4 /\ (n = 1 <=> n - 1 = 0)
    OBVIOUS
  <2>5. QED
    BY <1>2, <2>2, <2>3, <2>4, Zenon
<1>6. IncrementType'
  <2>1. /\ memory' \in [Cells -> Int] /\ register' \in [Threads -> Int]
        /\ pc' \in [Threads -> {"start", "store", "end"}]
        /\ todo' \in [Threads -> Seq(Incremented)]
    BY <1>1, <1>2, <1>3 DEF IncrementInv, IncrementType
  <2>2. \A u \in Three : Len(todo'[u]) <= 4 /\ (pc'[u] = "end" <=> todo'[u] = <<>>)
    BY <1>4, <1>5 DEF IncrementInv, IncrementType
  <2>3. QED
    BY <1>1, <2>1, <2>2 DEF IncrementType
<1>7. ASSUME NEW x \in Incremented
      PROVE  Counts(x)'
  <2> DEFINE n(u) == Left(todo[u], x)
             m(u) == Left(todo'[u], x)
  <2>1. Counts(x) /\ memory[x] \in Int /\ memory'[x] = IF x = y THEN register[t] + 1 ELSE memory[x]
    BY <1>1, <1>3 DEF IncrementInv, IncrementType
  <2>2. /\ \A u \in Three : n(u) \in Nat /\ m(u) \in Nat
        /\ m(t) = IF x = y THEN n(t) - 1 ELSE n(t)
        /\ \A u \in Three \ {t} : m(u) = n(u)
    BY <1>2, <1>4, LeftType, LeftAfter
  <2>3. /\ Stored(x) = 6 - n(t1) - n(t2) - n(t3)
        /\ Stored(x)' = 6 - m(t1) - m(t2) - m(t3)
    BY DEF Stored
  <2> HIDE DEF n, m
  <2>4. /\ Stored(x) \in Int
        /\ Stored(x)' = IF x = y THEN Stored(x) + 1 ELSE Stored(x)
    <3>1. t1 \in Three /\ t2 \in Three /\ t3 \in Three /\ t1 # t2 /\ t1 # t3 /\ t2 # t3
      BY ExamplesAssumption DEF Three
    <3>2. \A i, j, k \in Nat : /\ 6 - i - j - k \in Int
                               /\ 6 - (i - 1) - j - k = (6 - i - j - k) + 1
                               /\ 6 - i - (j - 1) - k = (6 - i - j - k) + 1
                               /\ 6 - i - j - (k - 1) = (6 - i - j - k) + 1
      OBVIOUS
    <3>3. CASE t = t1
      BY <2>2, <2>3, <3>1, <3>2, <3>3
    <3>4. CASE t = t2
      BY <2>2, <2>3, <3>1, <3>2, <3>4
    <3>5. CASE t = t3
      BY <2>2, <2>3, <3>1, <3>2, <3>5
    <3>6. QED
      BY <3>3, <3>4, <3>5 DEF Three
  <2>5. ~Holds(t, x)' /\ \A u \in Three \ {t} : Holds(u, x)' <=> Holds(u, x)
    BY <1>4 DEF Holds
  <2>6. \A u \in Three : register[u] \in Int
    BY <1>1 DEF IncrementInv, IncrementType
  <2>7. /\ \A u \in Three : n(u) <= 2
        /\ memory[x] \in 0 .. Stored(x)
        /\ \A u \in Three : Holds(u, x) => register[u] \in 0 .. Stored(x)
        /\ (\E u \in Three : n(u) < 2) => memory[x] >= 1
        /\ \A u \in Three : Holds(u, x) /\ n(u) = 1 => register[u] >= 1
        /\ (\A u \in Three : n(u) = 0) => memory[x] >= 2
    BY <2>1 DEF Counts, n
  <2>8. CASE x = y
    <3>1. Holds(t, x)
      BY <1>1, <2>8 DEF Holds
    <3>2. memory'[x] = register[t] + 1 /\ register[t] \in 0 .. Stored(x)
      BY <2>1, <2>7, <2>8, <3>1
    <3>3. memory'[x] \in 0 .. Stored(x)' /\ memory'[x] >= 1
      BY <2>4, <2>6, <2>8, <3>2
    <3>4. \A u \in Three : m(u) <= 2
      BY <2>2, <2>7, <2>8
    <3>5. \A u \in Three : Holds(u, x)' => register[u] \in 0 .. Stored(x)'
      BY <2>4, <2>5, <2>6, <2>7, <2>8
    <3>6. \A u \in Three : Holds(u, x)' /\ m(u) = 1 => register[u] >= 1
      BY <2>2, <2>5, <2>7
    <3>7. (\A u \in Three : m(u) = 0) => memory'[x] >= 2
      <4>1. SUFFICES ASSUME m(t) = 0 PROVE memory'[x] >= 2
        OBVIOUS
      <4>2. n(t) = 1
        BY <2>2, <2>8, <4>1
      <4>3. register[t] >= 1
        BY <2>7, <3>1, <4>2
      <4>4. QED
        BY <2>6, <3>2, <4>3
    <3>8. QED
      BY <1>1, <3>3, <3>4, <3>5, <3>6, <3>7 DEF Counts, m
  <2>9. CASE x # y
    <3>1. memory'[x] = memory[x] /\ Stored(x)' = Stored(x) /\ \A u \in Three : m(u) = n(u)
      BY <2>1, <2>2, <2>4, <2>9
    <3>2. \A u \in Three : Holds(u, x)' => Holds(u, x)
      BY <2>5
    <3>3. QED
      BY <1>1, <2>7, <3>1, <3>2 DEF Counts, m
  <2>10. QED
    BY <2>8, <2>9
<1>8. QED
  BY <1>6, <1>7 DEF IncrementInv

\* No other program runs beside the three threads.
LEMMA OnlyIncrementSteps ==
  ASSUME program = "static", ThreadsNext
  PROVE  MainReturns \/ \E t \in Three : IncLoad(t) \/ IncStore(t)
BY DEF ThreadsNext, ThreadStep, FooSpurious, foo, trythis, race, static, resource1,
       resource2, producer, consumer, Three

LEMMA FourIsNotEmpty == \A s : Len(s) = 4 => s # <<>> /\ Len(s) <= 4
<1>1. Len(<<>>) = 0
  OBVIOUS
<1>2. QED
  BY <1>1

LEMMA IncrementsStart ==
  ASSUME ThreadsInit, program = "static"
  PROVE  IncrementInv
<1> USE ExamplesAssumption
<1>1. PICK q \in Increments : todo = [t \in Threads |-> q]
  BY DEF ThreadsInit, Rounds
<1>2. /\ q \in Seq(Incremented) /\ q # <<>> /\ Len(q) = 4
      /\ \A x \in Incremented : Left(q, x) = 2
  <2>1. CASE q = <<"s", "g", "s", "g">>
    <3>1. q \in Seq(Incremented) /\ Len(q) = 4 /\ q[1] = "s" /\ q[2] = "g" /\ q[3] = "s" /\ q[4] = "g"
      BY <2>1 DEF Incremented
    <3>2. DOMAIN q = 1 .. 4
      BY <3>1
    <3>3. \A x \in Incremented : Left(q, x) = 2
      BY <3>1, <3>2 DEF Left, At, Incremented
    <3>4. q # <<>>
      BY <3>1, FourIsNotEmpty
    <3>5. QED
      BY <3>1, <3>3, <3>4
  <2>2. CASE q = <<"s", "g", "g", "s">>
    <3>1. q \in Seq(Incremented) /\ Len(q) = 4 /\ q[1] = "s" /\ q[2] = "g" /\ q[3] = "g" /\ q[4] = "s"
      BY <2>2 DEF Incremented
    <3>2. DOMAIN q = 1 .. 4
      BY <3>1
    <3>3. \A x \in Incremented : Left(q, x) = 2
      BY <3>1, <3>2 DEF Left, At, Incremented
    <3>4. q # <<>>
      BY <3>1, FourIsNotEmpty
    <3>5. QED
      BY <3>1, <3>3, <3>4
  <2>3. QED
    BY <2>1, <2>2 DEF Increments
<1>3. /\ \A t \in Three : t \in Threads /\ todo[t] = q /\ pc[t] = "start"
      /\ \A x \in Incremented : memory[x] = 0
      /\ main = "joining"
  BY <1>1 DEF ThreadsInit, Three, Incremented
<1>4. IncrementType
  <2>1. \A t \in Three : Len(todo[t]) <= 4 /\ todo[t] # <<>> /\ pc[t] # "end"
    BY <1>2, <1>3, FourIsNotEmpty
  <2>t. todo \in [Threads -> Seq(Incremented)]
    BY <1>1, <1>2
  <2>2. QED
    BY <1>3, <2>1, <2>t DEF ThreadsInit, IncrementType
<1>5. ASSUME NEW x \in Incremented
      PROVE  Counts(x)
  <2>1. Left(todo[t1], x) = 2 /\ Left(todo[t2], x) = 2 /\ Left(todo[t3], x) = 2
    BY <1>2, <1>3 DEF Three
  <2>2. Stored(x) = 0
    BY <2>1 DEF Stored
  <2>3. \A t \in Three : ~Holds(t, x) /\ Left(todo[t], x) = 2
    BY <1>2, <1>3 DEF Holds
  <2>4. QED
    BY <1>3, <2>2, <2>3 DEF Counts, Three
<1>6. QED
  BY <1>4, <1>5 DEF IncrementInv

\* exm_thread.c: when the three threads are joined each of the two variables, of whose
\* six increments any may be lost, is at least two: whoever stores last has loaded
\* after its own first increment, and nobody ever stores zero.
THEOREM IncrementsBounded == ThreadsSpec => []IncrementBounds
<1> DEFINE Inv == program = "static" => IncrementInv
<1>1. ThreadsInit => Inv
  BY IncrementsStart
<1>2. Inv /\ [ThreadsNext]_threadVars => Inv'
  <2> SUFFICES ASSUME Inv, [ThreadsNext]_threadVars, program' = "static"
               PROVE  IncrementInv'
    OBVIOUS
  <2>1. program = "static" /\ IncrementInv
    BY ProgramStays
  <2>2. CASE UNCHANGED <<memory, register, pc, todo>> /\ (UNCHANGED main \/ MainReturns)
    <3>1. IncrementType'
      BY <2>1, <2>2 DEF IncrementInv, IncrementType, MainReturns, Joined, JoinedBy, Three
    <3>2. ASSUME NEW x \in Incremented
          PROVE  Counts(x)'
      <4>1. Counts(x) /\ Stored(x)' = Stored(x) /\ \A t \in Three : Holds(t, x)' <=> Holds(t, x)
        BY <2>1, <2>2 DEF IncrementInv, Stored, Holds
      <4>2. QED
        BY <2>2, <4>1 DEF Counts
    <3>3. QED
      BY <3>1, <3>2 DEF IncrementInv
  <2>3. UNCHANGED threadVars \/ MainReturns => UNCHANGED <<memory, register, pc, todo>>
    BY DEF threadVars, MainReturns
  <2>4. UNCHANGED threadVars => UNCHANGED main
    BY DEF threadVars
  <2>5. QED
    BY <2>1, <2>2, <2>3, <2>4, IncLoadStep, IncStoreStep, OnlyIncrementSteps
<1>3. Inv => IncrementBounds
  <2> SUFFICES ASSUME Inv, program = "static", main = "ended", NEW x \in Incremented
               PROVE  memory[x] \in 2 .. 6
    BY DEF IncrementBounds, Incremented
  <2>1. Counts(x) /\ IncrementType
    BY DEF IncrementInv
  <2>2. \A t \in Three : Left(todo[t], x) = 0
    BY <2>1, NoneLeft DEF IncrementType
  <2>3. Stored(x) = 6
    BY <2>2 DEF Stored, Three
  <2>4. QED
    BY <2>1, <2>2, <2>3 DEF Counts
<1>4. QED
  BY <1>1, <1>2, <1>3, PTL DEF ThreadsSpec

---------------------------------------------------------------------------
(* The exchanges between two processes (ProcessExamples).                  *)

ExchangesSpec == ExchangesInit /\ [][ExchangesNext]_exchangeVars

LEMMA ExchangeStays ==
  ASSUME [ExchangesNext]_exchangeVars
  PROVE  exchange' = exchange
<1>1. CASE UNCHANGED exchangeVars
  BY <1>1 DEF exchangeVars
<1>2. ASSUME Parent \/ Child
      PROVE  exchange' = exchange
  BY <1>2 DEF Parent, Child, ParentWrite, ChildWrite, PipeWrite, PipeClose, ParentWait,
     ChildRead, ChildEnd
<1>3. ASSUME MailClient \/ MailServe
      PROVE  exchange' = exchange
  BY <1>3 DEF MailClient, MailServe, ServeOpen, ServeReceive, ServeClose, ClientOpen,
     ClientSend, ClientClose
<1>4. ASSUME ShmParent \/ ShmChild
      PROVE  exchange' = exchange
  BY <1>4 DEF ShmParent, ShmChild, ParentAttach, ParentWaits, ParentPrints, ChildAttach,
     ChildClear, ChildAppend, ChildDetach
<1>5. ASSUME FifoWriter \/ FifoReader
      PROVE  exchange' = exchange
  BY <1>5 DEF FifoWriter, FifoReader, FifoMake, FifoWrite, FifoClose, FifoUnlink,
     FifoReadOpen, FifoOpened, FifoRead
<1>6. QED
  BY <1>1, <1>2, <1>3, <1>4, <1>5 DEF ExchangesNext, ProcessStep

---------------------------------------------------------------------------
(* serve.c and client.c                                                    *)

Mails == [text : {"text", "exit"}, priority : Priorities, number : Int]

MailType ==
  /\ content \in Seq(Mails)
  /\ got \in Seq(Mails)
  /\ Len(sent) \in Nat /\ sent \in Seq(Mails)
  /\ at \in [Processes -> {"start", "send", "receive", "close", "end", "failed"}]

\* Mail m was left in the queue because the server had stopped at mail e.
LostTo(m, e) == m.priority < e.priority \/ (e.number <= 0 /\ m.number > e.number)

\* The queue holds the mails in the order of their numbers.  The "exit" of the client
\* is the last of them until it is taken, and then there is none behind it; any other
\* "exit" is from an earlier run.
MailInv ==
  /\ MailType
  /\ \A k \in DOMAIN content : content[k].number <= Len(sent)
  /\ \A j, k \in DOMAIN content : j < k => content[j].number < content[k].number
  /\ \A k \in DOMAIN content : content[k].text = "exit" =>
       \/ content[k].number <= 0
       \/ k = Len(content) /\ at["a"] \in {"close", "end"}
  /\ at["b"] \in {"close", "end"} =>
       /\ got # <<>>
       /\ at["a"] \notin {"close", "end"} => Last(got).number <= 0
       /\ \A k \in DOMAIN content : LostTo(content[k], Last(got))

\* The others stay in order when one message is taken.
LEMMA Taken ==
  ASSUME NEW S, NEW s \in Seq(S), NEW k \in DOMAIN s
  PROVE  /\ RemoveAt(s, k) \in Seq(S)
         /\ Len(RemoveAt(s, k)) = Len(s) - 1
         /\ \A j \in DOMAIN RemoveAt(s, k) :
              /\ j \in DOMAIN s /\ j + 1 \in DOMAIN s
              /\ RemoveAt(s, k)[j] = IF j < k THEN s[j] ELSE s[j + 1]
<1>1. k \in 1 .. Len(s) /\ Len(s) \in Nat
  OBVIOUS
<1>2. /\ SubSeq(s, 1, k - 1) \in Seq(S) /\ Len(SubSeq(s, 1, k - 1)) = k - 1
      /\ \A j \in 1 .. k - 1 : SubSeq(s, 1, k - 1)[j] = s[j]
  BY <1>1
<1>3. /\ SubSeq(s, k + 1, Len(s)) \in Seq(S) /\ Len(SubSeq(s, k + 1, Len(s))) = Len(s) - k
      /\ \A j \in 1 .. Len(s) - k : SubSeq(s, k + 1, Len(s))[j] = s[k + j]
  BY <1>1
<1> DEFINE u == SubSeq(s, 1, k - 1)
           v == SubSeq(s, k + 1, Len(s))
<1> HIDE DEF u, v
<1>4. /\ u \o v \in Seq(S) /\ Len(u \o v) = Len(u) + Len(v)
      /\ \A j \in 1 .. Len(u) + Len(v) : (u \o v)[j] = IF j <= Len(u) THEN u[j] ELSE v[j - Len(u)]
  <2>1. u \in Seq(S) /\ v \in Seq(S)
    BY <1>2, <1>3 DEF u, v
  <2>2. \A x, y \in Seq(S) :
          /\ x \o y \in Seq(S) /\ Len(x \o y) = Len(x) + Len(y)
          /\ \A j \in 1 .. Len(x) + Len(y) :
               (x \o y)[j] = IF j <= Len(x) THEN x[j] ELSE y[j - Len(x)]
    BY ConcatProperties
  <2>3. QED
    BY <2>1, <2>2, Zenon
<1>5. RemoveAt(s, k) = u \o v
  BY DEF RemoveAt, u, v
<1>6. ASSUME NEW j \in 1 .. Len(s) - 1
      PROVE  (u \o v)[j] = IF j < k THEN s[j] ELSE s[j + 1]
  <2>1. CASE j < k
    BY <1>1, <1>2, <1>3, <1>4, <2>1 DEF u, v
  <2>2. CASE ~(j < k)
    <3>1. /\ j - (k - 1) \in 1 .. Len(s) - k /\ k + (j - (k - 1)) = j + 1
          /\ ~(j <= k - 1) /\ j \in 1 .. (k - 1) + (Len(s) - k)
      BY <1>1, <2>2
    <3>2. QED
      BY <1>1, <1>2, <1>3, <1>4, <2>2, <3>1 DEF u, v
  <2>3. QED
    BY <2>1, <2>2
<1>7. Len(u \o v) = Len(s) - 1
  <2>1. \A n, m \in Nat : (m - 1) + (n - m) = n - 1
    OBVIOUS
  <2>2. Len(u) + Len(v) = (k - 1) + (Len(s) - k) /\ k \in Nat
    BY <1>1, <1>2, <1>3 DEF u, v
  <2>3. QED
    BY <1>1, <1>4, <2>1, <2>2
<1>8. DOMAIN (u \o v) = 1 .. Len(s) - 1 /\ DOMAIN s = 1 .. Len(s)
  BY <1>4, <1>7
<1>9. \A j \in 1 .. Len(s) - 1 : j \in 1 .. Len(s) /\ j + 1 \in 1 .. Len(s)
  BY <1>1
<1> QED
  BY <1>4, <1>5, <1>6, <1>7, <1>8, <1>9

LEMMA LastTaken ==
  ASSUME NEW S, NEW s \in Seq(S), NEW e \in S
  PROVE  Append(s, e) # <<>> /\ Last(Append(s, e)) = e
BY DEF Last

LEMMA MailStep ==
  ASSUME MailInv, MailClient \/ MailServe
  PROVE  MailInv'
<1> USE DEF Processes
<1>1. CASE ServeOpen
  BY <1>1 DEF ServeOpen, Move, MailInv, MailType
<1>2. CASE ServeReceive
  <2>1. PICK k \in DOMAIN content :
          /\ NextMail(k)
          /\ Move("b", "receive", IF content[k].text = "exit" THEN "close" ELSE "receive")
          /\ got' = Append(got, content[k])
          /\ content' = RemoveAt(content, k)
          /\ sent' = sent
    BY <1>2 DEF ServeReceive
  <2>2. content[k] \in Mails /\ content \in Seq(Mails) /\ got \in Seq(Mails) /\ Len(content) \in Nat
        /\ DOMAIN content = 1 .. Len(content)
    BY DEF MailInv, MailType
  <2>3. /\ content' \in Seq(Mails) /\ Len(content') = Len(content) - 1
        /\ \A j \in DOMAIN content' :
             /\ j \in DOMAIN content /\ j + 1 \in DOMAIN content
             /\ content'[j] = IF j < k THEN content[j] ELSE content[j + 1]
    BY <2>1, <2>2, Taken
  <2>4. got' \in Seq(Mails) /\ got' # <<>> /\ Last(got') = content[k]
    BY <2>1, <2>2, LastTaken
  <2>5. /\ at' \in [Processes -> {"start", "send", "receive", "close", "end", "failed"}]
        /\ at'["a"] = at["a"] /\ at["b"] = "receive"
        /\ at'["b"] = IF content[k].text = "exit" THEN "close" ELSE "receive"
    BY <2>1 DEF Move, MailInv, MailType
  <2>6. \A j \in DOMAIN content' : content'[j].number <= Len(sent)
    BY <2>3 DEF MailInv
  <2>7. ASSUME NEW i \in DOMAIN content', NEW j \in DOMAIN content', i < j
        PROVE  content'[i].number < content'[j].number
    <3>1. i \in Nat /\ j \in Nat /\ k \in Nat
      BY <2>2, <2>3, <2>7
    <3>2. \A x, y \in DOMAIN content : x < y => content[x].number < content[y].number
      BY DEF MailInv
    <3>3. /\ i \in DOMAIN content /\ i + 1 \in DOMAIN content
          /\ j \in DOMAIN content /\ j + 1 \in DOMAIN content
          /\ content'[i] = IF i < k THEN content[i] ELSE content[i + 1]
          /\ content'[j] = IF j < k THEN content[j] ELSE content[j + 1]
      BY <2>3, <2>7
    <3>4. QED
      BY <2>7, <3>1, <3>2, <3>3
  <2>8. ASSUME NEW j \in DOMAIN content', content'[j].text = "exit", ~(content'[j].number <= 0)
        PROVE  j = Len(content') /\ at["a"] \in {"close", "end"}
    <3>1. PICK i \in DOMAIN content : content[i] = content'[j] /\ i \in {j, j + 1} /\ (i = j => j < k)
      BY <2>3, <2>8
    <3>2. i = Len(content) /\ at["a"] \in {"close", "end"}
      BY <2>8, <3>1 DEF MailInv
    <3>3. j \in 1 .. Len(content) - 1 /\ k \in 1 .. Len(content)
      BY <2>2, <2>3, <2>8
    <3>4. QED
      BY <2>2, <2>3, <3>1, <3>2, <3>3
  <2>9. ASSUME content[k].text = "exit", NEW j \in DOMAIN content'
        PROVE  LostTo(content'[j], content[k])
    <3>1. PICK i \in DOMAIN content : content[i] = content'[j] /\ i # k
      <4>1. j \in Nat /\ k \in Nat
        BY <2>2, <2>3, <2>9
      <4>2. QED
        BY <2>3, <2>9, <4>1
    <3>2. i \in Nat /\ k \in Nat /\ i <= Len(content) /\ k <= Len(content)
      BY <2>2, <3>1
    <3>3. CASE content[i].priority < content[k].priority
      BY <3>1, <3>3 DEF LostTo
    <3>4. CASE i >= k
      <4>1. k < i /\ k # Len(content)
        BY <2>2, <3>1, <3>2, <3>4
      <4>2. content[k].number <= 0
        BY <2>9, <4>1 DEF MailInv
      <4>3. content[k].number < content[i].number
        BY <3>1, <4>1 DEF MailInv
      <4>4. content[k].number \in Int /\ content[i].number \in Int
        <5>1. \A m \in Mails : m.number \in Int
          BY DEF Mails
        <5>2. content[i] \in Mails
          BY <2>2, <3>1
        <5>3. QED
          BY <2>2, <5>1, <5>2
      <4>5. QED
        BY <3>1, <4>2, <4>3, <4>4 DEF LostTo
    <3>5. QED
      BY <2>1, <3>1, <3>3, <3>4 DEF NextMail
  <2>10. content[k].text = "exit" /\ at["a"] \notin {"close", "end"} => content[k].number <= 0
    BY DEF MailInv
  <2>11. QED
    BY <2>1, <2>3, <2>4, <2>5, <2>6, <2>7, <2>8, <2>9, <2>10 DEF MailInv, MailType
<1>3. CASE ServeClose
  BY <1>3 DEF ServeClose, Move, MailInv, MailType
<1>4. CASE ClientOpen
  BY <1>4 DEF ClientOpen, Move, MailInv, MailType
<1>5. CASE ClientSend
  <2>1. PICK r \in Priorities, text \in {"text", "exit"} :
          /\ Move("a", "send", IF text = "exit" THEN "close" ELSE "send")
          /\ content' = Append(content, [text |-> text, priority |-> r, number |-> Len(sent) + 1])
          /\ sent' = Append(sent, [text |-> text, priority |-> r, number |-> Len(sent) + 1])
    BY <1>5 DEF ClientSend
  <2> DEFINE mail == [text |-> text, priority |-> r, number |-> Len(sent) + 1]
  <2>2. /\ content \in Seq(Mails) /\ Len(content) \in Nat /\ DOMAIN content = 1 .. Len(content)
        /\ sent \in Seq(Mails) /\ Len(sent) \in Nat
        /\ \A k \in DOMAIN content : content[k].number \in Int
    <3>1. \A m \in Mails : m.number \in Int
      BY DEF Mails
    <3>2. content \in Seq(Mails) /\ sent \in Seq(Mails)
      BY DEF MailInv, MailType
    <3>3. QED
      BY <3>1, <3>2
  <2>3. mail \in Mails /\ mail.text = text /\ mail.number = Len(sent) + 1
    BY <2>2 DEF Mails
  <2>4. /\ at["a"] = "send" /\ at'["b"] = at["b"]
        /\ at'["a"] = IF text = "exit" THEN "close" ELSE "send"
        /\ at' \in [Processes -> {"start", "send", "receive", "close", "end", "failed"}]
    BY <2>1 DEF Move, MailInv, MailType
  <2>5. content' = Append(content, mail) /\ sent' = Append(sent, mail) /\ got' = got
    BY <1>5, <2>1 DEF ClientSend
  <2> HIDE DEF mail
  <2>6. /\ content' \in Seq(Mails) /\ Len(content') = Len(content) + 1
        /\ \A j \in DOMAIN content' : \/ j \in DOMAIN content /\ content'[j] = content[j]
                                      \/ j = Len(content') /\ content'[j] = mail
    BY <2>2, <2>3, <2>5
  <2>7. sent' \in Seq(Mails) /\ Len(sent') = Len(sent) + 1
    BY <2>2, <2>3, <2>5
  <2>8. \A k \in DOMAIN content : content[k].number <= Len(sent)
    BY DEF MailInv
  <2>9. \A j \in DOMAIN content' : content'[j].number <= Len(sent')
    BY <2>2, <2>3, <2>6, <2>7, <2>8
  <2>10. ASSUME NEW i \in DOMAIN content', NEW j \in DOMAIN content', i < j
         PROVE  content'[i].number < content'[j].number
    <3>1. i \in DOMAIN content /\ content'[i] = content[i]
      <4>1. DOMAIN content' = 1 .. Len(content')
        BY <2>6
      <4>2. QED
        BY <2>2, <2>6, <2>10, <4>1
    <3>2. CASE j \in DOMAIN content /\ content'[j] = content[j]
      BY <2>10, <3>1, <3>2 DEF MailInv
    <3>3. CASE content'[j] = mail
      BY <2>2, <2>3, <2>8, <3>1, <3>3
    <3>4. QED
      BY <2>6, <3>2, <3>3
  <2>11. ASSUME NEW j \in DOMAIN content', content'[j].text = "exit", ~(content'[j].number <= 0)
         PROVE  j = Len(content') /\ at'["a"] \in {"close", "end"}
    <3>1. j \in DOMAIN content => content'[j] = mail
      BY <2>4, <2>6, <2>11 DEF MailInv
    <3>2. content'[j] = mail
      BY <2>6, <3>1
    <3>3. j \notin DOMAIN content
      <4>1. j \in DOMAIN content => content[j].number <= Len(sent)
        BY <2>8
      <4>2. j \in DOMAIN content => content'[j] = content[j]
        BY <2>2, <2>6
      <4>3. QED
        BY <2>2, <2>3, <3>2, <4>1, <4>2
    <3>4. QED
      BY <2>3, <2>4, <2>6, <2>11, <3>2, <3>3
  <2>12. ASSUME at["b"] \in {"close", "end"}
         PROVE  /\ got # <<>> /\ Last(got).number <= 0
                /\ \A j \in DOMAIN content' : LostTo(content'[j], Last(got))
    <3>1. /\ got # <<>> /\ Last(got).number <= 0
          /\ \A j \in DOMAIN content : LostTo(content[j], Last(got))
      BY <2>4, <2>12 DEF MailInv
    <3>2. Last(got).number \in Int
      <4>1. got \in Seq(Mails)
        BY DEF MailInv, MailType
      <4>2. Last(got) \in Mails
        BY <3>1, <4>1 DEF Last
      <4>3. QED
        BY <4>2 DEF Mails
    <3>3. LostTo(mail, Last(got))
      BY <2>2, <2>3, <3>1, <3>2 DEF LostTo
    <3>4. QED
      BY <2>6, <3>1, <3>3
  <2>13. QED
    BY <2>4, <2>5, <2>6, <2>7, <2>9, <2>10, <2>11, <2>12 DEF MailInv, MailType
<1>6. CASE ClientClose
  BY <1>6 DEF ClientClose, Move, MailInv, MailType
<1>7. QED
  BY <1>1, <1>2, <1>3, <1>4, <1>5, <1>6 DEF MailClient, MailServe

\* serve.c: a message that is left in the queue when the server stops had a lower
\* priority than the one that stopped it, or came after an "exit" an earlier run had
\* left.  The queue may hold any mails at the start.
THEOREM NothingElseLost == ExchangesSpec => []OnlyOvertakenLost
<1> DEFINE Inv == exchange = "mail" => MailInv
<1>1. ExchangesInit => Inv
  <2> SUFFICES ASSUME ExchangesInit, exchange = "mail" PROVE MailInv
    OBVIOUS
  <2>1. content \in OldMails \cup {<<>>} /\ got = <<>> /\ sent = <<>>
        /\ at = [p \in Processes |-> "start"]
    BY DEF ExchangesInit, Leftovers
  <2>2. /\ content \in Seq(Mails) /\ Len(content) \in Nat
        /\ \A k \in DOMAIN content : k \in Int /\ content[k].number = k - Len(content) /\ k <= Len(content)
    <3>1. CASE content = <<>>
      BY <3>1
    <3>2. CASE content \in OldMails
      <4>0. PICK n \in 0 .. mq_maxmsg :
              content \in {[k \in 1 .. n |-> [text |-> old[k][1], priority |-> old[k][2],
                                             number |-> k - n]] :
                             old \in [1 .. n -> {"text", "exit"} \X Priorities]}
        BY <3>2, Zenon DEF OldMails
      <4>1. PICK old \in [1 .. n -> {"text", "exit"} \X Priorities] :
              content = [k \in 1 .. n |-> [text |-> old[k][1], priority |-> old[k][2],
                                           number |-> k - n]]
        BY <4>0, Zenon
      <4>2. n \in Nat
        BY ExchangeAssumption
      <4>3. \A k \in 1 .. n : content[k] \in Mails /\ content[k].number = k - n
        BY <4>1, <4>2 DEF Mails
      <4>4. content \in Seq(Mails) /\ Len(content) = n /\ DOMAIN content = 1 .. n
        BY <4>1, <4>2, <4>3
      <4>5. QED
        BY <4>2, <4>3, <4>4
    <3>3. QED
      BY <2>1, <3>1, <3>2
  <2>3. got \in Seq(Mails) /\ sent \in Seq(Mails) /\ Len(sent) = 0
    BY <2>1
  <2>4. QED
    BY <2>1, <2>2, <2>3 DEF MailInv, MailType, Processes
<1>2. Inv /\ [ExchangesNext]_exchangeVars => Inv'
  <2> SUFFICES ASSUME Inv, [ExchangesNext]_exchangeVars, exchange' = "mail"
               PROVE  MailInv'
    OBVIOUS
  <2>1. exchange = "mail" /\ MailInv
    BY ExchangeStays
  <2>2. CASE UNCHANGED exchangeVars
    BY <2>1, <2>2 DEF exchangeVars, MailInv, MailType, LostTo
  <2>3. MailClient \/ MailServe \/ UNCHANGED exchangeVars
    BY <2>1 DEF ExchangesNext, ProcessStep, Parent, Child, ShmParent, ShmChild, FifoWriter,
       FifoReader
  <2>4. QED
    BY <2>1, <2>2, <2>3, MailStep
<1>3. Inv => OnlyOvertakenLost
  BY DEF MailInv, OnlyOvertakenLost, LostTo
<1>4. QED
  BY <1>1, <1>2, <1>3, PTL DEF ExchangesSpec

---------------------------------------------------------------------------
(* exm_shmget.c                                                            *)

Numbers(n) == [k \in 1 .. n |-> k - 1]

LEMMA NumbersGrow ==
  ASSUME NEW n \in Nat
  PROVE  Numbers(0) = <<>> /\ Append(Numbers(n), n) = Numbers(n + 1)
<1>1. Numbers(0) = <<>>
  BY DEF Numbers
<1>2. Numbers(n) \in Seq(Int) /\ Len(Numbers(n)) = n /\ \A k \in 1 .. n : Numbers(n)[k] = k - 1
  BY DEF Numbers
<1>3. /\ Append(Numbers(n), n) \in Seq(Int) /\ Len(Append(Numbers(n), n)) = n + 1
      /\ \A k \in 1 .. n + 1 : Append(Numbers(n), n)[k] = k - 1
  <2> DEFINE s == Numbers(n)
  <2> HIDE DEF s
  <2>1. /\ s \in Seq(Int) /\ Len(s) = n /\ \A k \in 1 .. n : s[k] = k - 1
    BY <1>2 DEF s
  <2>2. /\ Append(s, n) \in Seq(Int) /\ Len(Append(s, n)) = n + 1
        /\ \A k \in 1 .. n + 1 : Append(s, n)[k] = k - 1
    BY <2>1
  <2>3. QED
    BY <2>2 DEF s
<1>4. /\ Numbers(n + 1) \in Seq(Int) /\ Len(Numbers(n + 1)) = n + 1
      /\ \A k \in 1 .. n + 1 : Numbers(n + 1)[k] = k - 1
  BY DEF Numbers
<1>5. Append(Numbers(n), n) = Numbers(n + 1)
  BY <1>3, <1>4, SeqEqual
<1>6. QED
  BY <1>1, <1>5

\* The child clears the segment before it writes, and the segment is not destroyed
\* before the child has exited.
SegmentInv ==
  /\ at \in [Processes -> {"start", "wait", "print", "clear", "append", "end", "failed"}]
  /\ sent \in Seq(Nat)
  /\ at["b"] \in {"start", "clear", "failed"} => sent = <<>>
  /\ at["b"] \in {"clear", "append"} => exists
  /\ at["b"] = "end" /\ at["a"] # "end" => exists
  /\ at["a"] \in {"print", "end"} => Exited("b")
  /\ at["b"] = "append" => content = Numbers(Len(sent))
  /\ at["b"] = "end" => content = Numbers(NumberOfShm)
  /\ at["a"] = "end" /\ at["b"] = "end" => got = Numbers(NumberOfShm)

LEMMA SegmentStep ==
  ASSUME SegmentInv, ShmParent \/ ShmChild
  PROVE  SegmentInv'
<1> USE DEF Processes, Exited
<1>1. CASE ParentAttach
  BY <1>1 DEF ParentAttach, Move, SegmentInv
<1>2. CASE ParentWaits
  BY <1>2 DEF ParentWaits, Move, SegmentInv
<1>3. CASE ParentPrints
  BY <1>3 DEF ParentPrints, Move, SegmentInv
<1>4. CASE ChildAttach
  BY <1>4 DEF ChildAttach, Move, SegmentInv
<1>5. CASE ChildClear
  <2>1. Len(<<>>) = 0 /\ Numbers(0) = <<>>
    BY NumbersGrow
  <2>2. QED
    BY <1>5, <2>1 DEF ChildClear, Move, SegmentInv
<1>6. CASE ChildAppend
  <2>1. Len(sent) \in Nat /\ content = Numbers(Len(sent)) /\ sent \in Seq(Nat)
    BY <1>6 DEF ChildAppend, SegmentInv
  <2>2. sent' \in Seq(Nat) /\ Len(sent') = Len(sent) + 1
    BY <1>6, <2>1 DEF ChildAppend
  <2>3. content' = Numbers(Len(sent'))
    BY <1>6, <2>1, <2>2, NumbersGrow DEF ChildAppend
  <2>4. QED
    BY <1>6, <2>2, <2>3 DEF ChildAppend, SegmentInv
<1>7. CASE ChildDetach
  BY <1>7 DEF ChildDetach, Move, SegmentInv
<1>8. QED
  BY <1>1, <1>2, <1>3, <1>4, <1>5, <1>6, <1>7 DEF ShmParent, ShmChild

\* exm_shmget.c: whatever an earlier run has left in the segment, and whichever
\* process comes first, the parent prints the numbers of its child.
THEOREM NumbersPrinted == ExchangesSpec => []ParentPrintsAll
<1> DEFINE Inv == exchange = "segment" => SegmentInv
<1>1. ExchangesInit => Inv
  BY DEF ExchangesInit, Leftovers, SegmentInv, Processes, Exited
<1>2. Inv /\ [ExchangesNext]_exchangeVars => Inv'
  <2> SUFFICES ASSUME Inv, [ExchangesNext]_exchangeVars, exchange' = "segment"
               PROVE  SegmentInv'
    OBVIOUS
  <2>1. exchange = "segment" /\ SegmentInv
    BY ExchangeStays
  <2>2. CASE UNCHANGED exchangeVars
    BY <2>1, <2>2 DEF exchangeVars, SegmentInv, Exited
  <2>3. ShmParent \/ ShmChild \/ UNCHANGED exchangeVars
    BY <2>1 DEF ExchangesNext, ProcessStep, Parent, Child, MailClient, MailServe, FifoWriter,
       FifoReader
  <2>4. QED
    BY <2>1, <2>2, <2>3, SegmentStep
<1>3. Inv => ParentPrintsAll
  BY DEF SegmentInv, ParentPrintsAll, Numbers, Exited
<1>4. QED
  BY <1>1, <1>2, <1>3, PTL DEF ExchangesSpec

---------------------------------------------------------------------------
(* write.c and read.c                                                      *)

\* Both opens return together; from then on the message is in the FIFO or read.
FifoInv ==
  /\ at \in [Processes -> {"start", "opening", "write", "close", "unlink", "read", "end", "failed"}]
  /\ at["a"] \notin {"read", "failed"}
  /\ at["a"] \in {"start", "opening"} <=> at["b"] \notin {"read", "end"}
  /\ at["a"] \in {"start", "opening", "write"} => content = <<>>
  /\ at["a"] = "write" => at["b"] = "read" /\ opened = {"a"}
  /\ at["a"] \in {"close", "unlink", "end"} /\ at["b"] = "read" => content = <<"Hi">>
  /\ at["b"] = "end" => got = <<"Hi">>

LEMMA FifoStep ==
  ASSUME FifoInv, FifoWriter \/ FifoReader
  PROVE  FifoInv'
<1> USE DEF Processes
<1>1. CASE FifoMake
  BY <1>1 DEF FifoMake, Move, FifoInv
<1>2. CASE FifoWrite
  BY <1>2 DEF FifoWrite, Move, FifoInv
<1>3. CASE FifoClose
  BY <1>3 DEF FifoClose, Move, FifoInv
<1>4. CASE FifoUnlink
  BY <1>4 DEF FifoUnlink, Move, FifoInv
<1>5. CASE FifoReadOpen
  BY <1>5 DEF FifoReadOpen, Move, FifoInv
<1>6. CASE FifoOpened
  BY <1>6 DEF FifoOpened, FifoInv
<1>7. CASE FifoRead
  <2>1. at["b"] = "read" /\ at["a"] \in {"write", "close", "unlink", "end"}
    BY <1>7 DEF FifoRead, Move, FifoInv
  <2>2. at["a"] # "write"
    BY <1>7, <2>1 DEF FifoRead, FifoInv
  <2>3. content = <<"Hi">>
    BY <2>1, <2>2 DEF FifoInv
  <2>4. /\ at' = [at EXCEPT !["b"] = "end"] /\ got' = <<"Hi">> /\ content' = <<>>
    BY <1>7, <2>3 DEF FifoRead, Move
  <2>5. /\ at' \in [Processes -> {"start", "opening", "write", "close", "unlink", "read", "end",
                                  "failed"}]
        /\ at'["b"] = "end" /\ at'["a"] \in {"close", "unlink", "end"}
    BY <2>1, <2>2, <2>4 DEF FifoInv
  <2>6. QED
    BY <2>4, <2>5 DEF FifoInv
<1>8. QED
  BY <1>1, <1>2, <1>3, <1>4, <1>5, <1>6, <1>7 DEF FifoWriter, FifoReader

\* read.c: a reader whose open returns prints "Hi", even when the writer has closed
\* and removed the FIFO before the read.
THEOREM FifoDelivered == ExchangesSpec => []FifoDelivers
<1> DEFINE Inv == exchange = "fifo" => FifoInv
<1>1. ExchangesInit => Inv
  BY DEF ExchangesInit, Leftovers, FifoInv, Processes
<1>2. Inv /\ [ExchangesNext]_exchangeVars => Inv'
  <2> SUFFICES ASSUME Inv, [ExchangesNext]_exchangeVars, exchange' = "fifo"
               PROVE  FifoInv'
    OBVIOUS
  <2>1. exchange = "fifo" /\ FifoInv
    BY ExchangeStays
  <2>2. CASE UNCHANGED exchangeVars
    BY <2>1, <2>2 DEF exchangeVars, FifoInv
  <2>3. FifoWriter \/ FifoReader \/ UNCHANGED exchangeVars
    BY <2>1 DEF ExchangesNext, ProcessStep, Parent, Child, MailClient, MailServe, ShmParent,
       ShmChild
  <2>4. QED
    BY <2>1, <2>2, <2>3, FifoStep
<1>3. Inv => FifoDelivers
  BY DEF FifoInv, FifoDelivers
<1>4. QED
  BY <1>1, <1>2, <1>3, PTL DEF ExchangesSpec

=============================================================================
