------------------------------- MODULE OsLoop -------------------------------
(***************************************************************************)
(* The event loop of the JavaScript guests (examples/js/quickjs-wasi.c):   *)
(* timers, read and write handlers, jobs, the loop `js_std_loop` with      *)
(* `js_os_poll`, and the teardown.  The script and the callbacks are any   *)
(* sequence of the calls the os module offers.  The shipped guests tear    *)
(* down without running the loop; an embedder that calls `js_std_loop`     *)
(* runs it first: both are behaviours of this module.                      *)
(*                                                                         *)
(* A timer is a C struct shared by the list of timers and a JavaScript     *)
(* object; it must be freed once, by whichever lets go of it last.         *)
(***************************************************************************)
EXTENDS Integers, Sequences, FiniteSets

CONSTANTS Timers,    \* the timers a run may create
          Fds,       \* file descriptors
          Delays,    \* delays of timers, in ms
          MaxNow,    \* bound on the clock
          MaxJobs,   \* bound on the jobs a run may queue
          MaxSets    \* bound on the changes of handlers

Modes == {"r", "w"}   \* rw_func[0], rw_func[1]

VARIABLES
    pc,        \* "script", "jobs", "job", "poll", "select", "handler", "ended", "torn", "exit"
    now,       \* get_time_ms()
    timers,    \* os_timers
    th,        \* the structs: [alloc, object, func, due] and how often they were freed
    handlers,  \* os_rw_handlers: records [fd, funcs], in list order
    ready,     \* what the descriptors are ready for
    jobs,      \* the length of job_list
    made,      \* history: jobs queued so far
    sets,      \* history: changes of handlers so far
    calls      \* history: for each timer, the times at which its function was called

loopVars == <<pc, now, timers, th, handlers, ready, jobs, made, sets, calls>>

Fresh == [alloc |-> FALSE, object |-> FALSE, func |-> FALSE, due |-> 0, frees |-> 0,
          cleared |-> FALSE]

Linked(t) == \E i \in DOMAIN timers : timers[i] = t

\* `list_del` of the element at i.
Removed(s, i) == SubSeq(s, 1, i - 1) \o SubSeq(s, i + 1, Len(s))

\* `unlink_timer`: nothing, if the timer is not linked.
Unlinked(t) ==
    IF Linked(t) THEN Removed(timers, CHOOSE i \in DOMAIN timers : timers[i] = t) ELSE timers

Running == pc \in {"script", "job", "handler"}

\* `free_timer`
Freed(s) == [s EXCEPT !.alloc = FALSE, !.func = FALSE, !.frees = @ + 1]

\* Expired timers, as `js_os_poll` finds them: the first in list order.
Expired == {i \in DOMAIN timers : th[timers[i]].due <= now}
FirstExpired == CHOOSE i \in Expired : \A j \in Expired : i <= j

TypeOK ==
    /\ pc \in {"script", "jobs", "job", "poll", "select", "handler", "ended", "torn", "exit"}
    /\ now \in 0..MaxNow
    /\ timers \in Seq(Timers)
    /\ \A t \in Timers : th[t].due \in Nat /\ th[t].frees \in Nat
    /\ handlers \in Seq([fd : Fds, funcs : SUBSET Modes])
    /\ ready \subseteq Fds \X Modes
    /\ jobs \in 0..MaxJobs
-----------------------------------------------------------------------------
\* `js_std_init_handlers`; the script begins.
Init ==
    /\ pc = "script" /\ now = 0
    /\ timers = <<>> /\ th = [t \in Timers |-> Fresh]
    /\ handlers = <<>> /\ ready = {}
    /\ jobs = 0 /\ made = 0 /\ sets = 0
    /\ calls = [t \in Timers |-> <<>>]

\* Time passes, and descriptors become ready and cease to be.
Tick ==
    /\ now < MaxNow
    /\ now' = now + 1
    /\ UNCHANGED <<pc, timers, th, handlers, ready, jobs, made, sets, calls>>

Readiness ==
    /\ \E x \in Fds \X Modes : ready' = IF x \in ready THEN ready \ {x} ELSE ready \cup {x}
    /\ UNCHANGED <<pc, now, timers, th, handlers, jobs, made, sets, calls>>

\* `js_os_setTimeout`
SetTimeout(t, d) ==
    /\ Running
    /\ th[t] = Fresh
    /\ th' = [th EXCEPT ![t] = [Fresh EXCEPT !.alloc = TRUE, !.object = TRUE,
                                             !.func = TRUE, !.due = now + d]]
    /\ timers' = Append(timers, t)
    /\ UNCHANGED <<pc, now, handlers, ready, jobs, made, sets, calls>>

\* `js_os_clearTimeout`: only unlinks; the function stays until the object goes.
ClearTimeout(t) ==
    /\ Running
    /\ th[t].object
    /\ timers' = Unlinked(t)
    /\ th' = [th EXCEPT ![t].cleared = @ \/ Linked(t)]
    /\ UNCHANGED <<pc, now, handlers, ready, jobs, made, sets, calls>>

\* `js_os_timer_finalizer`: the struct goes with the object, unless it is linked.
Finalized(t) ==
    LET s == [th[t] EXCEPT !.object = FALSE]
    IN  IF Linked(t) THEN s ELSE Freed(s)

\* The last reference to the timer's object is dropped.
DropObject(t) ==
    /\ Running
    /\ th[t].object
    /\ th' = [th EXCEPT ![t] = Finalized(t)]
    /\ UNCHANGED <<pc, now, timers, handlers, ready, jobs, made, sets, calls>>

\* `js_os_setReadHandler` (and setWriteHandler) with a function.
SetHandler(fd, m) ==
    /\ Running /\ sets < MaxSets
    /\ sets' = sets + 1
    /\ \/ \E i \in DOMAIN handlers :
             /\ handlers[i].fd = fd
             /\ handlers' = [handlers EXCEPT ![i].funcs = @ \cup {m}]
       \/ /\ \A i \in DOMAIN handlers : handlers[i].fd # fd
          /\ handlers' = Append(handlers, [fd |-> fd, funcs |-> {m}])
    /\ UNCHANGED <<pc, now, timers, th, ready, jobs, made, calls>>

\* The same with null: an entry that has no function left is removed.
ClearHandler(fd, m) ==
    /\ Running /\ sets < MaxSets
    /\ sets' = sets + 1
    /\ \/ \E i \in DOMAIN handlers :
             /\ handlers[i].fd = fd
             /\ handlers' = IF handlers[i].funcs \subseteq {m} THEN Removed(handlers, i)
                            ELSE [handlers EXCEPT ![i].funcs = @ \ {m}]
       \/ (\A i \in DOMAIN handlers : handlers[i].fd # fd) /\ UNCHANGED handlers
    /\ UNCHANGED <<pc, now, timers, th, ready, jobs, made, calls>>

\* A promise reaction is queued.
Enqueue ==
    /\ Running /\ made < MaxJobs
    /\ jobs' = jobs + 1 /\ made' = made + 1
    /\ UNCHANGED <<pc, now, timers, th, handlers, ready, sets, calls>>

Goto(from, to) ==
    /\ pc = from /\ pc' = to
    /\ UNCHANGED <<now, timers, th, handlers, ready, jobs, made, sets, calls>>

\* The script ends; an embedder calls `js_std_loop`.
StartLoop == Goto("script", "jobs")

\* `JS_ExecutePendingJob` takes the first job off the list and runs it.
RunJob ==
    /\ pc = "jobs" /\ jobs > 0
    /\ jobs' = jobs - 1
    /\ pc' = "job"
    /\ UNCHANGED <<now, timers, th, handlers, ready, made, sets, calls>>

JobReturns == Goto("job", "jobs")

\* The job failed: the error is printed and the loop over the jobs is left.
JobFails == Goto("job", "poll")

JobsDone == jobs = 0 /\ Goto("jobs", "poll")

\* `js_os_poll` finds nothing to wait for: `js_std_loop` ends.
NoMoreEvents ==
    /\ handlers = <<>> /\ timers = <<>>
    /\ Goto("poll", "ended")

\* The first expired timer is unlinked, freed if its object is gone, and called.
CallTimer ==
    /\ pc = "poll"
    /\ Expired # {}
    /\ LET t == timers[FirstExpired] IN
       /\ timers' = Unlinked(t)
       /\ th' = [th EXCEPT ![t] = LET s == [@ EXCEPT !.func = FALSE]
                                  IN  IF s.object THEN s ELSE Freed(s)]
       /\ calls' = [calls EXCEPT ![t] = Append(@, now)]
    /\ pc' = "handler"
    /\ UNCHANGED <<now, handlers, ready, jobs, made, sets>>

\* No timer is due: `select` waits for the descriptors, or for the next timer.
Wait ==
    /\ Expired = {} /\ (handlers # <<>> \/ timers # <<>>)
    /\ Goto("poll", "select")

Selected == {x \in ready : \E i \in DOMAIN handlers :
                              handlers[i].fd = x[1] /\ x[2] \in handlers[i].funcs}

\* `select` returns descriptors: the first handler of the list that is ready is
\* called, and only that one.
CallHandler ==
    /\ Selected # {}
    /\ Goto("select", "handler")

\* Mutation: `select` waits without a limit.
SelectWaits ==
    /\ Selected # {}
    /\ Goto("select", "jobs")

\* `select` times out when a timer is due (or after ten seconds: with no timer
\* there is no limit).
SelectTimesOut ==
    /\ Expired # {}
    /\ Goto("select", "jobs")

HandlerReturns == Goto("handler", "jobs")

\* Mutation: the structs are freed whether an object refers to them or not.
FreeHandlersAll ==
    /\ pc \in {"script", "ended"}
    /\ handlers' = <<>>
    /\ timers' = <<>>
    /\ th' = [t \in Timers |-> IF Linked(t) THEN Freed(th[t]) ELSE th[t]]
    /\ pc' = "torn"
    /\ UNCHANGED <<now, ready, jobs, made, sets, calls>>

\* `js_std_free_handlers`
FreeHandlers ==
    /\ pc \in {"script", "ended"}
    /\ handlers' = <<>>
    /\ timers' = <<>>
    /\ th' = [t \in Timers |-> IF Linked(t) /\ ~th[t].object THEN Freed(th[t]) ELSE th[t]]
    /\ pc' = "torn"
    /\ UNCHANGED <<now, ready, jobs, made, sets, calls>>

\* `JS_FreeContext` and `JS_FreeRuntime`: every object is finalized.
FreeContext ==
    /\ pc = "torn"
    /\ th' = [t \in Timers |-> IF th[t].object THEN Finalized(t) ELSE th[t]]
    /\ pc' = "exit"
    /\ UNCHANGED <<now, timers, handlers, ready, jobs, made, sets, calls>>

Calls ==
    \/ \E t \in Timers : (\E d \in Delays : SetTimeout(t, d)) \/ ClearTimeout(t) \/ DropObject(t)
    \/ \E fd \in Fds, m \in Modes : SetHandler(fd, m) \/ ClearHandler(fd, m)
    \/ Enqueue

Loop ==
    \/ StartLoop \/ RunJob \/ JobReturns \/ JobsDone
    \/ NoMoreEvents \/ CallTimer \/ Wait \/ CallHandler \/ SelectTimesOut \/ HandlerReturns

Next == Tick \/ Readiness \/ Calls \/ Loop \/ JobFails \/ FreeHandlers \/ FreeContext

Spec == Init /\ [][Next]_loopVars
-----------------------------------------------------------------------------
(***************************************************************************)
(* The struct of a timer is freed once and by the last that holds it: it   *)
(* is allocated as long as the list or its object has it, freed when       *)
(* neither has, and when the program has torn everything down no struct is *)
(* left and none was freed twice.                                          *)
(***************************************************************************)
TimerFreedOnce ==
    /\ \A t \in Timers :
        /\ th[t].alloc <=> Linked(t) \/ th[t].object
        /\ th[t].frees <= 1
        /\ Linked(t) => th[t].func
    /\ pc = "exit" => \A t \in Timers : th[t].alloc = FALSE

(***************************************************************************)
(* A timer's function is called at most once, never before its time, and   *)
(* never after `clearTimeout` has taken it back, whatever the callbacks do *)
(* with the list in the meantime.                                          *)
(***************************************************************************)
CalledOnceInTime ==
    \A t \in Timers :
        /\ Len(calls[t]) <= 1
        /\ \A i \in DOMAIN calls[t] : calls[t][i] >= th[t].due
        /\ th[t].cleared => calls[t] = <<>>

(***************************************************************************)
(* The loop ends only if there is nothing to wait for, and `select` is     *)
(* never entered without something to wake it: no handler entry without a  *)
(* function keeps the loop alive, and no descriptor has two entries.       *)
(***************************************************************************)
WaitsForSomething ==
    /\ pc = "select" => timers # <<>> \/ \E i \in DOMAIN handlers : handlers[i].funcs # {}
    /\ \A i, j \in DOMAIN handlers : handlers[i].fd = handlers[j].fd => i = j
    /\ pc = "ended" => timers = <<>> /\ handlers = <<>>

(***************************************************************************)
(* The three together: a timer's memory is freed once, when neither the    *)
(* list of timers nor a JavaScript object holds it; its function is called *)
(* once and not before its time; and the loop waits only while there is    *)
(* something to wait for.                                                  *)
(***************************************************************************)
EventLoopSafe == TypeOK /\ TimerFreedOnce /\ CalledOnceInTime /\ WaitsForSomething

(***************************************************************************)
(* The inductive invariant.  Of each timer: one that is linked has neither *)
(* been called nor cleared, and one that was called has its object or was  *)
(* freed, so that its struct is never set again.  Of the list: no timer is *)
(* in it twice, and the teardown leaves neither list nor object.  Of the   *)
(* handlers: every entry has a function.                                   *)
(***************************************************************************)
Structs == [alloc : BOOLEAN, object : BOOLEAN, func : BOOLEAN, due : Nat, frees : Nat,
            cleared : BOOLEAN]

TimerInv(t) ==
    /\ th[t].alloc <=> Linked(t) \/ th[t].object
    /\ th[t].alloc => th[t].frees = 0
    /\ th[t].frees <= 1
    /\ Linked(t) => th[t].func /\ ~th[t].cleared /\ calls[t] = <<>>
    /\ calls[t] # <<>> => th[t].object \/ th[t].frees = 1
    /\ th[t].cleared => calls[t] = <<>>
    /\ Len(calls[t]) <= 1
    /\ \A i \in DOMAIN calls[t] : calls[t][i] >= th[t].due

ListInv ==
    /\ \A i, j \in DOMAIN timers : timers[i] = timers[j] => i = j
    /\ pc \in {"ended", "torn", "exit"} => timers = <<>>
    /\ pc = "exit" => \A t \in Timers : ~th[t].object

HandlersInv ==
    /\ \A i \in DOMAIN handlers : handlers[i].funcs # {}
    /\ \A i, j \in DOMAIN handlers : handlers[i].fd = handlers[j].fd => i = j
    /\ pc = "ended" => handlers = <<>>
    /\ pc = "select" => timers # <<>> \/ handlers # <<>>

OsInv ==
    /\ TypeOK
    /\ th \in [Timers -> Structs] /\ calls \in [Timers -> Seq(Nat)]
    /\ made \in 0..MaxJobs /\ jobs <= made
    /\ \A t \in Timers : TimerInv(t)
    /\ ListInv
    /\ HandlersInv

\* What the loop goes on doing as long as it can: callbacks return and time
\* goes on; what callbacks do is theirs, and nothing is said of the
\* program's end.
Progress(a) ==
    CASE a = "start" -> StartLoop [] a = "job" -> RunJob [] a = "jobReturns" -> JobReturns
      [] a = "jobsDone" -> JobsDone [] a = "noMore" -> NoMoreEvents [] a = "timer" -> CallTimer
      [] a = "wait" -> Wait [] a = "timeout" -> SelectTimesOut [] a = "handler" -> HandlerReturns
      [] a = "tick" -> Tick
ProgressKinds == {"start", "job", "jobReturns", "jobsDone", "noMore", "timer", "wait", "timeout", "handler", "tick"}

(***************************************************************************)
(* A timer that is set, and that falls due within the clock's bound, is    *)
(* called or cleared, unless a job that fails ends the program: neither    *)
(* other timers, which re-arm themselves behind it in the list, nor read   *)
(* handlers that are always ready keep it from its turn.                   *)
(***************************************************************************)
Due(t) == Linked(t) /\ th[t].due <= MaxNow
Served(t) == calls[t] # <<>> \/ th[t].cleared \/ pc \in {"ended", "torn", "exit"}
TimersFire == \A t \in Timers : Due(t) ~> Served(t)
=============================================================================
