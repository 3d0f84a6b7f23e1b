------------------------------- MODULE JsWorkers -------------------------------
(***************************************************************************)
(* A worker of quickjs-libc.c: a second thread with a runtime of its own,  *)
(* two message pipes (a queue under a mutex, and a pipe of the system that *)
(* makes `select` return), the counts of the pipes' owners, and a shared   *)
(* buffer that messages carry. Both threads run the loop of `js_std_loop`. *)
(*                                                                         *)
(* The main thread receives on "up" and sends on "down".                   *)
(***************************************************************************)
EXTENDS Integers, Sequences, SequencesExt, FiniteSets, FiniteSetsExt

CONSTANT MaxSent     \* bound: messages on each pipe

Side == {"main", "worker"}
Pipe == {"up", "down"}
RecvPipe(t) == IF t = "main" THEN "up" ELSE "down"
SendPipe(t) == IF t = "main" THEN "down" ELSE "up"

VARIABLES
    queue, bytes, lock, refs,  \* of each pipe; refs 0: it is freed
    pc,                        \* of each thread
    object,                    \* its Worker object (`Worker.parent` in the worker) is alive
    port,                      \* onmessage is set: the port is on the port_list
    state,                     \* the thread's JSThreadState owns its pipes
    msg,                       \* the message being sent or received
    sab, holds,                \* references to the shared buffer; buffer objects of each thread
    sent, got                  \* history: messages of each pipe

wkVars == <<queue, bytes, lock, refs, pc, object, port, state, msg, sab, holds, sent, got>>

Free == "free"
None == [n |-> 0, sab |-> FALSE]

\* The program before `new Worker`, with a shared buffer.
Init ==
    /\ queue = [p \in Pipe |-> <<>>]
    /\ bytes = [p \in Pipe |-> 0]
    /\ lock = [p \in Pipe |-> Free]
    /\ refs = [p \in Pipe |-> 0]
    /\ pc = [t \in Side |-> IF t = "main" THEN "run" ELSE "none"]
    /\ object = [t \in Side |-> FALSE]
    /\ port = [t \in Side |-> FALSE]
    /\ state = [t \in Side |-> FALSE]
    /\ msg = [t \in Side |-> None]
    /\ sab = 1
    /\ holds = [t \in Side |-> IF t = "main" THEN 1 ELSE 0]
    /\ sent = [p \in Pipe |-> <<>>]
    /\ got = [p \in Pipe |-> <<>>]

Goto(t, p) == pc' = [pc EXCEPT ![t] = p]
Running(t) == pc[t] = "run"
Carried(q) == Len(SelectSeq(q, LAMBDA m : m.sab))

\* `js_free_message_pipe` of some of the owners of each pipe: with the last one
\* the messages in the queue are freed.
FreePipes(n) ==
    /\ refs' = [p \in Pipe |-> refs[p] - n[p]]
    /\ LET dead == {p \in Pipe : n[p] > 0 /\ refs[p] = n[p]}
       IN  /\ queue' = [p \in Pipe |-> IF p \in dead THEN <<>> ELSE queue[p]]
           /\ sab' = sab - MapThenSumSet(LAMBDA p : Carried(queue[p]), dead)

\* `js_worker_ctor` with `js_worker_ctor_internal`: the thread's arguments and
\* the object own both pipes. The thread may not start: then both let go.
js_worker_ctor ==
    /\ Running("main") /\ pc["worker"] = "none"
    /\ \/ /\ refs' = [p \in Pipe |-> 2]
          /\ object' = [object EXCEPT !["main"] = TRUE]
          /\ pc' = [pc EXCEPT !["worker"] = "start"]
       \/ /\ refs' = [p \in Pipe |-> 2 - 2]
          /\ pc' = [pc EXCEPT !["worker"] = "failed"]
          /\ UNCHANGED object
    /\ UNCHANGED <<queue, bytes, lock, port, state, msg, sab, holds, sent, got>>

\* `worker_func` takes the pipes over; `js_os_init` makes Worker.parent.
worker_func ==
    /\ pc["worker"] = "start"
    /\ state' = [state EXCEPT !["worker"] = TRUE]
    /\ object' = [object EXCEPT !["worker"] = TRUE]
    /\ refs' = [p \in Pipe |-> refs[p] + 1]
    /\ Goto("worker", "run")
    /\ UNCHANGED <<queue, bytes, lock, port, msg, sab, holds, sent, got>>

\* `js_worker_set_onmessage`
js_worker_set_onmessage(t) ==
    /\ Running(t) /\ object[t]
    /\ \/ /\ ~port[t]
          /\ port' = [port EXCEPT ![t] = TRUE]
          /\ refs' = [refs EXCEPT ![RecvPipe(t)] = @ + 1]
          /\ UNCHANGED <<queue, sab>>
       \/ /\ port[t]
          /\ port' = [port EXCEPT ![t] = FALSE]
          /\ FreePipes([p \in Pipe |-> IF p = RecvPipe(t) THEN 1 ELSE 0])
    /\ UNCHANGED <<bytes, lock, pc, object, state, msg, holds, sent, got>>

\* `js_worker_finalizer`: the object lets go of both pipes, and of its port.
js_worker_finalizer(t) ==
    /\ FreePipes([p \in Pipe |-> IF p = RecvPipe(t) /\ port[t] THEN 2 ELSE 1])
    /\ object' = [object EXCEPT ![t] = FALSE]
    /\ port' = [port EXCEPT ![t] = FALSE]

\* The main program drops its object.
Drop ==
    /\ Running("main") /\ object["main"]
    /\ js_worker_finalizer("main")
    /\ UNCHANGED <<bytes, lock, pc, state, msg, holds, sent, got>>

\* A buffer object dies: `js_sab_free`.
DropBuffer(t) ==
    /\ Running(t) /\ holds[t] > 0
    /\ holds' = [holds EXCEPT ![t] = @ - 1]
    /\ sab' = sab - 1
    /\ UNCHANGED <<queue, bytes, lock, refs, pc, object, port, state, msg, sent, got>>

\* `js_worker_postMessage` in three steps: the message is made, with references
\* to its buffers,
Post(t) ==
    /\ Running(t) /\ object[t] /\ Len(sent[SendPipe(t)]) < MaxSent[SendPipe(t)]
    /\ \E b \in {FALSE} \cup {holds[t] > 0} :
        /\ msg' = [msg EXCEPT ![t] = [n |-> Len(sent[SendPipe(t)]) + 1, sab |-> b]]
        /\ sab' = IF b THEN sab + 1 ELSE sab
    /\ Goto(t, "post")
    /\ UNCHANGED <<queue, bytes, lock, refs, object, port, state, holds, sent, got>>

\* a byte is written, with the mutex, if the queue is empty,
PostByte(t) ==
    LET p == SendPipe(t)
    IN  /\ pc[t] = "post" /\ lock[p] = Free
        /\ lock' = [lock EXCEPT ![p] = t]
        /\ bytes' = [bytes EXCEPT ![p] = IF queue[p] = <<>> THEN @ + 1 ELSE @]
        /\ Goto(t, "append")
        /\ UNCHANGED <<queue, refs, object, port, state, msg, sab, holds, sent, got>>

\* and the message is appended.
PostAppend(t) ==
    LET p == SendPipe(t)
    IN  /\ pc[t] = "append"
        /\ queue' = [queue EXCEPT ![p] = Append(@, msg[t])]
        /\ sent' = [sent EXCEPT ![p] = Append(@, msg[t].n)]
        /\ lock' = [lock EXCEPT ![p] = Free]
        /\ msg' = [msg EXCEPT ![t] = None]
        /\ Goto(t, "run")
        /\ UNCHANGED <<bytes, refs, object, port, state, sab, holds, got>>

\* The program, or a callback, has returned to `js_std_loop`.
Return(t) ==
    /\ Running(t)
    /\ Goto(t, "poll")
    /\ UNCHANGED <<queue, bytes, lock, refs, object, port, state, msg, sab, holds, sent, got>>

\* `js_os_poll`: select returns when there is a byte; the queue is looked at
\* under the mutex.
Select(t) ==
    /\ pc[t] = "poll" /\ port[t] /\ bytes[RecvPipe(t)] > 0
    /\ Goto(t, "take")
    /\ UNCHANGED <<queue, bytes, lock, refs, object, port, state, msg, sab, holds, sent, got>>

\* Mutation: the last message is taken.
TakeLast(t) ==
    LET p == RecvPipe(t)
    IN  /\ pc[t] = "take" /\ lock[p] = Free /\ queue[p] # <<>>
        /\ msg' = [msg EXCEPT ![t] = Last(queue[p])]
        /\ queue' = [queue EXCEPT ![p] = Front(@)]
        /\ lock' = [lock EXCEPT ![p] = t]
        /\ Goto(t, "drain")
        /\ UNCHANGED <<bytes, refs, object, port, state, sab, holds, sent, got>>

Take(t) ==
    LET p == RecvPipe(t)
    IN  /\ pc[t] = "take" /\ lock[p] = Free
        /\ IF queue[p] = <<>>
           THEN Goto(t, "poll") /\ UNCHANGED <<queue, lock, msg>>
           ELSE /\ msg' = [msg EXCEPT ![t] = Head(queue[p])]
                /\ queue' = [queue EXCEPT ![p] = Tail(@)]
                /\ lock' = [lock EXCEPT ![p] = t]
                /\ Goto(t, "drain")
        /\ UNCHANGED <<bytes, refs, object, port, state, sab, holds, sent, got>>

\* The last message of the queue takes the bytes with it: up to 16, and the
\* read waits for one.
Drain(t) ==
    LET p == RecvPipe(t)
    IN  /\ pc[t] = "drain"
        /\ IF queue[p] = <<>>
           THEN bytes[p] > 0 /\ bytes' = [bytes EXCEPT ![p] = 0]
           ELSE UNCHANGED bytes
        /\ lock' = [lock EXCEPT ![p] = Free]
        /\ Goto(t, "read")
        /\ UNCHANGED <<queue, refs, object, port, state, msg, sab, holds, sent, got>>

\* `JS_ReadObject` makes a buffer object with a reference of its own, then
\* `js_free_message` frees those of the message; the callback runs.
Deliver(t) ==
    LET p == RecvPipe(t)
    IN  /\ pc[t] = "read"
        /\ holds' = [holds EXCEPT ![t] = IF msg[t].sab THEN @ + 1 ELSE @]
        /\ got' = [got EXCEPT ![p] = Append(@, msg[t].n)]
        /\ msg' = [msg EXCEPT ![t] = None]
        /\ Goto(t, "run")
        /\ UNCHANGED <<queue, bytes, lock, refs, object, port, state, sab, sent>>

\* The loop ends when no port is left; `js_std_free_handlers` lets go of the
\* pipes of the thread state,
Leave(t) ==
    /\ pc[t] = "poll" /\ ~port[t]
    /\ IF state[t] THEN FreePipes([p \in Pipe |-> 1]) ELSE UNCHANGED <<refs, queue, sab>>
    /\ state' = [state EXCEPT ![t] = FALSE]
    /\ Goto(t, "free")
    /\ UNCHANGED <<bytes, lock, object, port, msg, holds, sent, got>>

\* and `JS_FreeRuntime` frees the objects that are left.
FreeRuntime(t) ==
    /\ pc[t] = "free"
    /\ \/ /\ object[t]
          /\ js_worker_finalizer(t)
          /\ UNCHANGED <<pc, holds>>
       \/ /\ ~object[t] /\ holds[t] > 0
          /\ sab' = sab - holds[t]
          /\ holds' = [holds EXCEPT ![t] = 0]
          /\ UNCHANGED <<refs, queue, object, port, pc>>
       \/ /\ ~object[t] /\ holds[t] = 0
          /\ Goto(t, "ended")
          /\ UNCHANGED <<refs, queue, sab, object, port, holds>>
    /\ UNCHANGED <<bytes, lock, state, msg, sent, got>>

Step(t) ==
    \/ PostByte(t) \/ PostAppend(t) \/ Return(t) \/ Select(t) \/ Take(t) \/ Drain(t) \/ Deliver(t) \/ Leave(t) \/ FreeRuntime(t)

Next ==
    \/ js_worker_ctor
    \/ worker_func
    \/ Drop
    \/ \E t \in Side : js_worker_set_onmessage(t) \/ DropBuffer(t) \/ Post(t) \/ Step(t)

\* Between the operations on a pipe it holds one byte if its queue holds
\* messages and none otherwise, so that the read under the mutex never waits,
\* and a write never finds the pipe full.
ByteWhileQueued ==
    \A p \in Pipe :
        /\ lock[p] = Free /\ refs[p] > 0 => bytes[p] = IF queue[p] = <<>> THEN 0 ELSE 1
        /\ bytes[p] <= 1
        /\ \A t \in Side : pc[t] = "drain" /\ queue[RecvPipe(t)] = <<>> => bytes[RecvPipe(t)] > 0

\* The messages a thread gets are the ones the other has sent, in that order,
\* without gaps and not twice.
DeliveredInOrder == \A p \in Pipe : IsPrefix(got[p], sent[p])

\* A pipe has as many references as it has owners, and it is not used after
\* the last one has let go: not by a thread that sends or receives on it.
Owners(p) ==
    Cardinality({t \in Side : object[t]}) + Cardinality({t \in Side : state[t]})
    + Cardinality({t \in Side : port[t] /\ RecvPipe(t) = p}) + (IF pc["worker"] = "start" THEN 1 ELSE 0)
PipeAliveInUse ==
    \A p \in Pipe :
        /\ refs[p] = Owners(p)
        /\ \A t \in Side : (pc[t] \in {"post", "append"} /\ p = SendPipe(t)) \/ (pc[t] \in {"take", "drain"} /\ p = RecvPipe(t))
                           => refs[p] > 0

\* The shared buffer has as many references as there are buffer objects and
\* messages on their way that have it: it is freed with the last of them.
BufferCounted ==
    sab = holds["main"] + holds["worker"] + Carried(queue["up"]) + Carried(queue["down"])
          + Cardinality({t \in Side : msg[t].sab})

=============================================================================
