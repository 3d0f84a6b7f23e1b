------------------------------ MODULE MCThreads ------------------------------
(***************************************************************************)
(* What runs beside something else, for TLC: the server's tasks on their   *)
(* workers, the event loop of the scripts, the threads of Worker and of    *)
(* Atomics, and the queue of an async generator.  A behaviour exercises    *)
(* one of these parts; the variables of the others do not change.          *)
(***************************************************************************)
EXTENDS Server, JsAtomics

VARIABLES part,
          place, now, timers, th, handlers, ready, jobs, made, sets, calls,             \* OsLoop
          wqueue, bytes, lock, refs, object, port, wstate, msg, sab, holds, sent, got,  \* JsWorkers, and place
          gen, stops                                                                    \* JsAsyncGenerator, and made

Os == INSTANCE OsLoop WITH
    Timers <- {"t", "u"}, Fds <- {0}, Delays <- {0, 1}, MaxNow <- 1, MaxJobs <- 0, MaxSets <- 1,
    pc <- place
Wk == INSTANCE JsWorkers WITH MaxSent <- [up |-> 1, down |-> 2], queue <- wqueue, state <- wstate, pc <- place
Ag == INSTANCE JsAsyncGenerator WITH MaxRequests <- 3, MaxOutstanding <- 1, MaxBody <- 3

osOnly == <<now, timers, th, handlers, ready, jobs, sets, calls>>
wkOnly == <<wqueue, bytes, lock, refs, object, port, wstate, msg, sab, holds, sent, got>>
agOnly == <<gen, stops>>
allVars == <<part, vars, atVars, place, made, osOnly, wkOnly, agOnly>>

Idle(v) == v = <<>>
NoOs == Idle(now) /\ Idle(timers) /\ Idle(th) /\ Idle(handlers) /\ Idle(ready) /\ Idle(jobs) /\ Idle(sets) /\ Idle(calls)
NoWk == /\ Idle(wqueue) /\ Idle(bytes) /\ Idle(lock) /\ Idle(refs) /\ Idle(object) /\ Idle(port)
        /\ Idle(wstate) /\ Idle(msg) /\ Idle(sab) /\ Idle(holds) /\ Idle(sent) /\ Idle(got)
NoAg == Idle(gen) /\ Idle(stops)

PartsInit ==
    /\ Init
    /\ AtInit
    /\ \/ part \in {"server", "atomics"} /\ Idle(place) /\ Idle(made) /\ NoOs /\ NoWk /\ NoAg
       \/ part = "os" /\ Os!Init /\ NoWk /\ NoAg
       \/ part = "workers" /\ Wk!Init /\ Idle(made) /\ NoOs /\ NoAg
       \/ part = "asyncGenerator" /\ Ag!Init /\ Idle(place) /\ NoOs /\ NoWk

ServerSteps == part = "server" /\ Next /\ UNCHANGED <<part, atVars, place, made, osOnly, wkOnly, agOnly>>
AtSteps == part = "atomics" /\ AtNext /\ UNCHANGED <<part, vars, place, made, osOnly, wkOnly, agOnly>>
OsSteps == part = "os" /\ Os!Next /\ UNCHANGED <<part, vars, atVars, wkOnly, agOnly>>
WkSteps == part = "workers" /\ Wk!Next /\ UNCHANGED <<part, vars, atVars, made, osOnly, agOnly>>
AgSteps == part = "asyncGenerator" /\ Ag!Next /\ UNCHANGED <<part, vars, atVars, place, osOnly, wkOnly>>

PartsNext == ServerSteps \/ OsSteps \/ WkSteps \/ AtSteps \/ AgSteps

osVars == <<place, made, osOnly>>
agVars == <<made, agOnly>>

\* A free worker takes the next task, and one that has a task goes on with it;
\* the event loop goes round and time goes on; a body that was called
\* returns and jobs are run.  Nothing is assumed of clients and of scripts.
Fairness ==
    /\ \A c \in Connections : WF_vars(part = "server" /\ (Runs(c) \/ Await(c) \/ Answers(c)))
    /\ \A a \in Os!ProgressKinds : WF_osVars(part = "os" /\ Os!Progress(a))
    /\ WF_agVars(part = "asyncGenerator" /\ Ag!Body) /\ WF_agVars(part = "asyncGenerator" /\ Ag!Job)

PartsSpec == PartsInit /\ [][PartsNext]_allVars /\ Fairness

-----------------------------------------------------------------------------
(***************************************************************************)
(* A timer that is due is served, or cleared, however busy the handlers of *)
(* the loop are (js_os_poll).                                              *)
(***************************************************************************)
TimersFire == \A t \in {"t", "u"} : (part = "os" /\ Os!Due(t)) ~> (part = "os" => Os!Served(t))

(***************************************************************************)
(* Messages between a Worker and its parent arrive in the order in which   *)
(* they were posted; the pipe holds a byte exactly while messages are      *)
(* queued, it lives as long as a thread uses it, and a shared buffer is    *)
(* counted by those who hold it.                                           *)
(***************************************************************************)
DeliveredInOrder ==
    part = "workers" =>
        Wk!DeliveredInOrder /\ Wk!ByteWhileQueued /\ Wk!PipeAliveInUse /\ Wk!BufferCounted

=============================================================================
