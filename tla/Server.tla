------------------------------- MODULE Server -------------------------------
(***************************************************************************)
(* The server of src/main.rs as a whole: connections, each a task of the   *)
(* tokio runtime, on a fixed number of worker threads.                     *)
(*                                                                         *)
(* A handler gives its worker back only while it waits for the body        *)
(* (cgi.rs: `data().await`, lambda.rs: `to_bytes(body).await`).  The       *)
(* search before it and the compiler and the guest after it run on the     *)
(* worker, to their end.  A panic ends the task and closes its connection. *)
(***************************************************************************)
EXTENDS Naturals, Sequences, FiniteSets, FiniteSetTheorems, TLAPS

CONSTANTS Connections,
          Workers,     \* the number of worker threads
          MaxHanging   \* bound on the guests that never return

ASSUME ServerAssumption ==
    /\ IsFiniteSet(Connections)
    /\ Workers \in Nat \ {0}
    /\ MaxHanging \in Nat

VARIABLES
    state,  \* state[c]: see TypeOK
    has,    \* has[c]: as much of the body is there as the handler waits for
    queue   \* the connections whose task can run and has no worker, oldest first

vars == <<state, has, queue>>

\* The connections whose task has a worker.
Running == {c \in Connections : state[c] \in {"handler", "guest", "hanging"}}

Hanging == {c \in Connections : state[c] = "hanging"}

\* "idle": no request.  "queued": the task can run.  "handler": it runs, up to the
\* await point.  "waiting": for the body.  "guest": it runs, from there on, and
\* "hanging" will never end.  "closed": the connection is gone.
TypeOK ==
    /\ state \in [Connections -> {"idle", "queued", "handler", "waiting",
                                  "guest", "hanging", "closed"}]
    /\ has \in [Connections -> BOOLEAN]
    /\ queue \in Seq(Connections)

Init ==
    /\ state = [c \in Connections |-> "idle"]
    /\ has = [c \in Connections |-> FALSE]
    /\ queue = <<>>

Becomes(c, s) == state' = [state EXCEPT ![c] = s]

\* A request arrives, on a connection kept open or on a new one, with all of the
\* body the handler waits for or without.
Request(c) ==
    /\ state[c] \in {"idle", "closed"}
    /\ Becomes(c, "queued")
    /\ \E h \in BOOLEAN : has' = [has EXCEPT ![c] = h]
    /\ queue' = Append(queue, c)

\* A free worker polls the oldest task that can run.
Runs(c) ==
    /\ queue # <<>> /\ c = Head(queue)
    /\ Cardinality(Running) < Workers
    /\ Becomes(c, "handler")
    /\ queue' = Tail(queue)
    /\ UNCHANGED has

\* Mutation: the handler waits for the body on its worker.
AwaitBlocks(c) ==
    /\ state[c] = "handler"
    /\ has[c]
    /\ Becomes(c, "guest")
    /\ UNCHANGED <<has, queue>>

\* The handler is at its await point: with the body there it goes on, on the
\* same worker, else it gives the worker back.
Await(c) ==
    /\ state[c] = "handler"
    /\ Becomes(c, IF has[c] THEN "guest" ELSE "waiting")
    /\ UNCHANGED <<has, queue>>

\* More of the body arrives, all of it or not, or the client goes away: the task
\* can run again.
BodyArrives(c) ==
    /\ state[c] = "waiting"
    /\ \E h \in BOOLEAN : has' = [has EXCEPT ![c] = h]
    /\ Becomes(c, "queued")
    /\ queue' = Append(queue, c)

\* The guest returns, and the response is sent.
Answers(c) ==
    /\ state[c] = "guest"
    /\ Becomes(c, "idle")
    /\ has' = [has EXCEPT ![c] = FALSE]
    /\ UNCHANGED queue

\* One of the handler's panics, on either side of the await point.
Panics(c) ==
    /\ state[c] \in {"handler", "guest"}
    /\ Becomes(c, "closed")
    /\ has' = [has EXCEPT ![c] = FALSE]
    /\ UNCHANGED queue

\* The guest runs forever; nothing limits its time.
Hangs(c) ==
    /\ state[c] = "guest"
    /\ Cardinality(Hanging) < MaxHanging
    /\ Becomes(c, "hanging")
    /\ UNCHANGED <<has, queue>>

Next ==
    \E c \in Connections :
        \/ Request(c) \/ BodyArrives(c)
        \/ Runs(c) \/ Await(c) \/ Answers(c) \/ Panics(c) \/ Hangs(c)

Spec == Init /\ [][Next]_vars

-----------------------------------------------------------------------------
(***************************************************************************)
(* No task is lost and none runs twice: a connection is in the queue, once,*)
(* exactly when its task can run and no worker has it; no more tasks run   *)
(* than there are workers, those of hanging guests counted.                *)
(***************************************************************************)
TasksAccountedFor ==
    /\ TypeOK
    /\ \A c \in Connections : state[c] = "queued" <=> \E i \in DOMAIN queue : queue[i] = c
    /\ \A i, j \in DOMAIN queue : queue[i] = queue[j] => i = j
    /\ Cardinality(Running) <= Workers

(***************************************************************************)
(* With fewer guests that never return than workers, a request is kept     *)
(* waiting by nobody but its own client and its own guest: it is answered, *)
(* its connection is closed, or it waits for the rest of the request.      *)
(***************************************************************************)
EveryRequestEnds ==
    \A c \in Connections :
        state[c] = "queued" ~> state[c] \in {"idle", "closed", "waiting", "hanging"}
-----------------------------------------------------------------------------
(***************************************************************************)
(* The connections with a worker are finitely many, and so are those that  *)
(* have one after a step.                                                  *)
(***************************************************************************)
LEMMA RunningFinite ==
    ASSUME NEW S \in SUBSET Connections
    PROVE  IsFiniteSet(S) /\ Cardinality(S) \in Nat
  BY ServerAssumption, FS_Subset, FS_CardinalityType

(***************************************************************************)
(* A task that is put into the queue, and one that leaves it for a worker, *)
(* leave a queue that holds the tasks that can run, each once.             *)
(***************************************************************************)
LEMMA QueueFacts ==
    ASSUME NEW q \in Seq(Connections), NEW c \in Connections
    PROVE  /\ Append(q, c) \in Seq(Connections) /\ DOMAIN Append(q, c) = 1..(Len(q) + 1)
           /\ \A i \in 1..Len(q) : Append(q, c)[i] = q[i]
           /\ Append(q, c)[Len(q) + 1] = c
           /\ DOMAIN q = 1..Len(q) /\ Len(q) \in Nat
           /\ q # <<>> => /\ Len(q) > 0 /\ Head(q) = q[1] /\ Tail(q) \in Seq(Connections)
                          /\ DOMAIN Tail(q) = 1..(Len(q) - 1)
                          /\ \A i \in 1..(Len(q) - 1) : Tail(q)[i] = q[i + 1]
  OBVIOUS

(***************************************************************************)
(* Every step of the server keeps account of its tasks.                    *)
(***************************************************************************)
LEMMA TasksStep == TasksAccountedFor /\ [Next]_vars => TasksAccountedFor'
<1> SUFFICES ASSUME TasksAccountedFor, [Next]_vars PROVE TasksAccountedFor'
  OBVIOUS
<1>0. /\ TypeOK
      /\ \A c \in Connections : state[c] = "queued" <=> \E i \in DOMAIN queue : queue[i] = c
      /\ \A i, j \in DOMAIN queue : queue[i] = queue[j] => i = j
      /\ Cardinality(Running) <= Workers
  BY DEF TasksAccountedFor
<1>1. ASSUME NEW c \in Connections, NEW s \in {"idle", "guest", "hanging", "closed", "waiting"},
             state[c] \in {"handler", "guest"}, Becomes(c, s), UNCHANGED queue,
             has' \in [Connections -> BOOLEAN]
      PROVE  TasksAccountedFor'
  <2>1. TypeOK'
    BY <1>0, <1>1 DEF TypeOK, Becomes
  <2>2. \A d \in Connections : state'[d] = "queued" <=> state[d] = "queued"
    BY <1>0, <1>1 DEF TypeOK, Becomes
  <2>3. Running' \subseteq Running
    BY <1>0, <1>1 DEF TypeOK, Becomes, Running
  <2>4. Cardinality(Running') <= Workers
    <3>1. /\ Running \subseteq Connections /\ IsFiniteSet(Running) /\ Cardinality(Running) \in Nat
          /\ Cardinality(Running') \in Nat
      BY <2>3, RunningFinite DEF Running
    <3>2. Cardinality(Running') <= Cardinality(Running)
      BY <2>3, <3>1, FS_Subset
    <3> QED
      BY <1>0, <3>1, <3>2, ServerAssumption
  <2> QED
    BY <1>0, <1>1, <2>1, <2>2, <2>4 DEF TasksAccountedFor
<1>2. ASSUME NEW c \in Connections, state[c] \in {"idle", "closed", "waiting"},
             Becomes(c, "queued"), queue' = Append(queue, c), has' \in [Connections -> BOOLEAN]
      PROVE  TasksAccountedFor'
  <2>0. queue \in Seq(Connections) /\ state[c] # "queued"
    BY <1>0, <1>2 DEF TypeOK
  <2>1. /\ queue' \in Seq(Connections) /\ DOMAIN queue' = 1..(Len(queue) + 1)
        /\ \A i \in 1..Len(queue) : queue'[i] = queue[i]
        /\ queue'[Len(queue) + 1] = c
        /\ DOMAIN queue = 1..Len(queue) /\ Len(queue) \in Nat
    BY <1>2, <2>0, QueueFacts
  <2>2. TypeOK'
    BY <1>0, <1>2, <2>1 DEF TypeOK, Becomes
  <2>3. \A d \in Connections : state'[d] = "queued" <=> state[d] = "queued" \/ d = c
    BY <1>0, <1>2 DEF TypeOK, Becomes
  <2>4. \A i \in 1..Len(queue) : queue[i] # c
    BY <1>0, <2>0, <2>1
  <2>5. \A i \in DOMAIN queue' : i \in 1..Len(queue) \/ i = Len(queue) + 1
    BY <2>1
  <2>6. /\ \A d \in Connections : state'[d] = "queued" <=> \E i \in DOMAIN queue' : queue'[i] = d
        /\ \A i, j \in DOMAIN queue' : queue'[i] = queue'[j] => i = j
    <3>1. 1..Len(queue) \subseteq DOMAIN queue' /\ Len(queue) + 1 \in DOMAIN queue'
      BY <2>1
    <3> QED
      BY <1>0, <2>1, <2>3, <2>4, <2>5, <3>1
  <2>7. Running' = Running
    BY <1>0, <1>2 DEF TypeOK, Becomes, Running
  <2> QED
    BY <1>0, <2>2, <2>6, <2>7 DEF TasksAccountedFor
<1>3. ASSUME NEW c \in Connections, Runs(c) PROVE TasksAccountedFor'
  <2>0. /\ queue # <<>> /\ c = Head(queue) /\ Cardinality(Running) < Workers
        /\ Becomes(c, "handler") /\ queue' = Tail(queue) /\ UNCHANGED has
    BY <1>3 DEF Runs
  <2>1. /\ Len(queue) \in Nat \ {0} /\ DOMAIN queue = 1..Len(queue)
        /\ c = queue[1] /\ queue' \in Seq(Connections)
        /\ DOMAIN queue' = 1..(Len(queue) - 1)
        /\ \A i \in 1..(Len(queue) - 1) : queue'[i] = queue[i + 1]
    BY <1>0, <2>0, QueueFacts DEF TypeOK
  <2>2. TypeOK'
    BY <1>0, <2>0, <2>1 DEF TypeOK, Becomes
  <2>3. \A d \in Connections : state'[d] = "queued" <=> state[d] = "queued" /\ d # c
    BY <1>0, <2>0 DEF TypeOK, Becomes
  <2>4. \A i \in 1..(Len(queue) - 1) : i + 1 \in 1..Len(queue) /\ i + 1 # 1
    BY <2>1
  <2>5. \A i \in 1..Len(queue) : i = 1 \/ (i - 1 \in 1..(Len(queue) - 1) /\ i = (i - 1) + 1)
    BY <2>1
  <2>6. 1 \in 1..Len(queue)
    BY <2>1
  <2>7. \A i, j \in DOMAIN queue' : queue'[i] = queue'[j] => i = j
    <3> SUFFICES ASSUME NEW i \in 1..(Len(queue) - 1), NEW j \in 1..(Len(queue) - 1),
                        queue'[i] = queue'[j]
                 PROVE  i = j
      BY <2>1
    <3>1. i + 1 = j + 1
      BY <1>0, <2>1, <2>4
    <3> QED
      BY <3>1
  <2>8. \A d \in Connections : state'[d] = "queued" <=> \E i \in DOMAIN queue' : queue'[i] = d
    <3>1. ASSUME NEW i \in DOMAIN queue' PROVE queue'[i] # c /\ state[queue'[i]] = "queued"
      <4>1. queue'[i] = queue[i + 1] /\ i + 1 \in DOMAIN queue /\ i + 1 # 1
        BY <2>1, <2>4
      <4>2. queue[i + 1] \in Connections
        BY <1>0, <4>1 DEF TypeOK
      <4> QED
        BY <1>0, <2>1, <2>6, <4>1, <4>2
    <3>2. ASSUME NEW d \in Connections, state[d] = "queued", d # c
          PROVE  \E i \in DOMAIN queue' : queue'[i] = d
      <4>1. PICK i \in DOMAIN queue : queue[i] = d
        BY <1>0, <3>2
      <4>2. i - 1 \in DOMAIN queue' /\ queue'[i - 1] = queue[i]
        BY <2>1, <2>5, <3>2, <4>1
      <4> QED
        BY <4>1, <4>2
    <3> QED
      BY <2>3, <3>1, <3>2
  <2>9. Running' = Running \cup {c}
    BY <1>0, <2>0 DEF TypeOK, Becomes, Running
  <2>10. Cardinality(Running') <= Workers
    <3>1. IsFiniteSet(Running) /\ Cardinality(Running) \in Nat
      BY RunningFinite DEF Running
    <3>2. Cardinality(Running') <= Cardinality(Running) + 1
      BY <2>9, <3>1, FS_AddElement
    <3>3. Cardinality(Running') \in Nat
      BY RunningFinite DEF Running
    <3> QED
      BY <2>0, <3>1, <3>2, <3>3, ServerAssumption
  <2> QED
    BY <2>2, <2>7, <2>8, <2>10 DEF TasksAccountedFor
<1>4. ASSUME NEW c \in Connections, Request(c) \/ BodyArrives(c) PROVE TasksAccountedFor'
  BY <1>0, <1>2, <1>4 DEF Request, BodyArrives, TypeOK
<1>5. ASSUME NEW c \in Connections, Await(c) \/ Answers(c) \/ Panics(c) \/ Hangs(c)
      PROVE  TasksAccountedFor'
  BY <1>0, <1>1, <1>5 DEF Await, Answers, Panics, Hangs, TypeOK
<1>6. CASE UNCHANGED vars
  BY <1>0, <1>6 DEF vars, TasksAccountedFor, TypeOK, Running
<1> QED
  BY <1>3, <1>4, <1>5, <1>6 DEF Next

(***************************************************************************)
(* For every number of connections and workers, no task is lost, none runs *)
(* twice and none runs without a worker.                                   *)
(***************************************************************************)
THEOREM NoTaskLost == Spec => []TasksAccountedFor
<1>1. Init => TasksAccountedFor
  <2> SUFFICES ASSUME Init PROVE TasksAccountedFor
    OBVIOUS
  <2>1. Running = {} /\ DOMAIN queue = {}
    BY DEF Init, Running
  <2>2. Cardinality(Running) <= Workers
    BY <2>1, FS_EmptySet, ServerAssumption
  <2> QED
    BY <2>1, <2>2 DEF Init, TasksAccountedFor, TypeOK
<1> QED
  BY <1>1, TasksStep, PTL DEF Spec
=============================================================================
