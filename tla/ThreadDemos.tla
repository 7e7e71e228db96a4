---------------------------- MODULE ThreadDemos ----------------------------
(***************************************************************************)
(* The two demonstrations of cdf: rendezvous.c, whose two threads wait for *)
(* each other between their two lines by spinning on a plain int, and      *)
(* shared.c, whose two threads print their lines under a mutex.            *)
(*                                                                         *)
(* The int is written and read without synchronisation.  A store is in the *)
(* thread's store buffer before the other can see it; and the compiler,    *)
(* which need not expect the other thread, may read the int once in front  *)
(* of a loop, or take the loop, empty as it is, for one that ends.  What   *)
(* takes a lock (printf does) waits for the thread's own stores.           *)
(***************************************************************************)
EXTENDS Integers, Sequences, SequencesExt

CONSTANT Program   \* "rendezvous", "shared"

ASSUME ProgramAssumption == Program \subseteq {"rendezvous", "shared"}

VARIABLES
  program,   \* the program of this run
  spin,      \* what the compiler made of the loop of each thread
  flag,      \* rendezvous.c's int, as it is in memory
  buffer,    \* the stores of each thread that are not yet there
  lock,      \* shared.c's mutex: who holds it
  at,        \* each thread's place in its code, 0 before it is created
  exited,    \* main has returned: the process is gone
  output     \* the lines printed

demovars == <<program, spin, flag, buffer, lock, at, exited, output>>

Both == {"thread1", "thread2"}
Nobody == "nobody"
Other(t) == CHOOSE u \in Both : u # t
Build == {"reads", "hoisted", "removed"}

BadCode(t) ==
  IF program = "shared" THEN <<"lock", "first", "second", "unlock">>
  ELSE <<"first", "await", "store", "second">>

Code(t) ==
  IF program = "shared" THEN <<"lock", "first", "second", "unlock">>
  ELSE IF t = "thread1" THEN <<"first", "store", "await", "second">>
       ELSE <<"first", "await", "store", "second">>

BadStoredBy(t) == 2

\* The value a thread stores, and the one it waits for, which is the other's.
StoredBy(t) == IF t = "thread1" THEN 2 ELSE 1
Awaited(t) == IF t = "thread1" THEN 1 ELSE 2

DemoInit ==
  /\ program \in Program
  /\ spin \in [Both -> IF program = "shared" THEN {"reads"} ELSE Build]
  /\ flag = 1
  /\ buffer = [t \in Both |-> <<>>]
  /\ lock = Nobody
  /\ at = [t \in Both |-> 0]
  /\ exited = FALSE
  /\ output = <<>>

----------------------------------------------------------------------------
(* main                                                                    *)

\* thread2 is created after thread1, which may be running.
pthread_create(t) ==
  /\ ~exited
  /\ at[t] = 0
  /\ t = "thread2" => at["thread1"] # 0
  /\ \/ at' = [at EXCEPT ![t] = 1] /\ UNCHANGED exited
     \/ exited' = TRUE /\ UNCHANGED at
  /\ UNCHANGED <<program, spin, flag, buffer, lock, output>>

----------------------------------------------------------------------------
(* The threads                                                             *)

Doing(t, step) ==
  /\ ~exited
  /\ at[t] \in 1 .. Len(Code(t))
  /\ Code(t)[at[t]] = step

Done(t) == at[t] > Len(Code(t))
Advance(t) == at' = [at EXCEPT ![t] = @ + 1] /\ UNCHANGED <<program, spin, exited>>

printf(t, line) ==
  /\ Doing(t, line)
  /\ buffer[t] = <<>>
  /\ output' = Append(output, <<t, line>>)
  /\ Advance(t)
  /\ UNCHANGED <<flag, buffer, lock>>

Store(t) ==
  /\ Doing(t, "store")
  /\ buffer' = [buffer EXCEPT ![t] = Append(@, StoredBy(t))]
  /\ Advance(t)
  /\ UNCHANGED <<flag, lock, output>>

\* A store gets to memory.
Drain(t) ==
  /\ buffer[t] # <<>>
  /\ flag' = Head(buffer[t])
  /\ buffer' = [buffer EXCEPT ![t] = Tail(@)]
  /\ UNCHANGED <<program, spin, lock, at, exited, output>>

\* What a load answers: the thread's own last store first.
Seen(t) == IF buffer[t] = <<>> THEN flag ELSE Last(buffer[t])

\* while (flag != awaited): the loop ends.
Await(t) ==
  /\ Doing(t, "await")
  /\ Seen(t) = Awaited(t) \/ spin[t] = "removed"
  /\ Advance(t)
  /\ UNCHANGED <<flag, buffer, lock, output>>

\* The one load of a hoisted loop answers another value (thread1's may be the
\* value it has just stored): the thread goes round for ever.
NeverEnds(t) ==
  /\ Doing(t, "await")
  /\ spin[t] = "hoisted"
  /\ Seen(t) # Awaited(t) \/ t = "thread1"
  /\ at' = [at EXCEPT ![t] = -1]
  /\ UNCHANGED <<program, spin, flag, buffer, lock, exited, output>>

mutex_lock(t) ==
  /\ Doing(t, "lock")
  /\ lock = Nobody
  /\ lock' = t
  /\ Advance(t)
  /\ UNCHANGED <<flag, buffer, output>>

mutex_unlock(t) ==
  /\ Doing(t, "unlock")
  /\ lock' = Nobody
  /\ Advance(t)
  /\ UNCHANGED <<flag, buffer, output>>

DemoStep(t) ==
  \/ printf(t, "first") \/ printf(t, "second")
  \/ Store(t) \/ Await(t) \/ NeverEnds(t)
  \/ mutex_lock(t) \/ mutex_unlock(t)

\* A loop that goes round, a process that is gone, threads that have ended.
Spins(t) == at[t] = -1 \/ (Doing(t, "await") /\ Seen(t) # Awaited(t))
DemoRest ==
  /\ exited \/ (\E t \in Both : Spins(t)) \/ (\A t \in Both : Done(t))
  /\ UNCHANGED demovars

DemoNext ==
  \/ \E t \in Both : pthread_create(t) \/ DemoStep(t) \/ Drain(t)
  \/ DemoRest

\* The scheduler runs main and every thread that can run, and a store does
\* not stay in its buffer for ever.
DemoSpec ==
  /\ DemoInit /\ [][DemoNext]_demovars
  /\ \A t \in Both :
       WF_demovars(pthread_create(t)) /\ WF_demovars(DemoStep(t))
         /\ WF_demovars(Drain(t))

----------------------------------------------------------------------------
(* Properties                                                              *)

\* rendezvous.c: a thread whose loop is still there prints its second line
\* after the other's first, whatever the other's loop was compiled to and
\* however late stores are seen (that flag begins with the value thread1 waits
\* for does not matter).  shared.c: no line comes between a thread's two.
LinesInOrder ==
  \A i \in 1 .. Len(output) :
    LET t == output[i][1]
    IN  IF program = "shared"
        THEN output[i][2] = "second" => i > 1 /\ output[i - 1] = <<t, "first">>
        ELSE output[i][2] = "second" /\ spin[t] # "removed" =>
               \E j \in 1 .. i - 1 : output[j] = <<Other(t), "first">>

\* thread2 ends unless it reads the flag once only; thread1, whose store must
\* not be the later one, ends for certain only if both loops read it each time.
WillEnd(t) ==
  \/ spin[t] = "removed"
  \/ spin[t] = "reads" /\ (t = "thread2" \/ spin["thread2"] = "reads")

\* No thread waits for ever, unless the build makes it: the two that wait for
\* each other meet, and the mutex is passed on.
ThreadsEnd == <>(exited \/ \A t \in Both : WillEnd(t) => Done(t))
=============================================================================
