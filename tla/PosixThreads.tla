---------------------------- MODULE PosixThreads ----------------------------
(***************************************************************************)
(* The threads of one process: a program counter each, shared memory they  *)
(* load from and store to in separate steps, mutexes, semaphores and a     *)
(* condition variable, as the pthread and semaphore calls define them.     *)
(***************************************************************************)
EXTENDS Integers, Sequences, FiniteSets

CONSTANTS Threads, Mutexes, Semaphores,
          Cells,  \* the shared variables
          Free    \* owner of a mutex nobody holds

ASSUME ThreadsAssumption == Free \notin Threads

VARIABLES
  program,    \* which program this process runs
  main,       \* "joining" while the main thread waits for the others, then "ended"
  pc,         \* per thread
  owner,      \* per mutex: the thread that holds it, or Free
  semaphore,  \* per semaphore: its value
  memory,     \* per shared variable: its value
  register,   \* per thread: the value it loaded last
  todo,       \* per thread: what is left of its loop
  printed     \* per thread: the values it printed

threadVars == <<program, main, pc, owner, semaphore, memory, register, todo, printed>>

Goto(t, from, to) ==
  /\ main = "joining"
  /\ pc[t] = from
  /\ pc' = [pc EXCEPT ![t] = to]

\* pthread_mutex_lock returns, pthread_mutex_unlock
Lock(t, mutex) == owner[mutex] = Free /\ owner' = [owner EXCEPT ![mutex] = t]
Unlock(mutex) == owner' = [owner EXCEPT ![mutex] = Free]

\* sem_wait returns, sem_post
SemWait(s) == semaphore[s] > 0 /\ semaphore' = [semaphore EXCEPT ![s] = @ - 1]
SemPost(s) == semaphore' = [semaphore EXCEPT ![s] = @ + 1]

\* a machine instruction that reads or writes one shared variable
Load(t, x) == register' = [register EXCEPT ![t] = memory[x]]
Store(x, v) == memory' = [memory EXCEPT ![x] = v]

Printed(t, v) == printed' = [printed EXCEPT ![t] = Append(@, v)]

\* pthread_join of these threads returns.
Joined(ts) == \A t \in ts : pc[t] = "end"
=============================================================================
