--------------------------- MODULE JsAsyncGenerator ---------------------------
(***************************************************************************)
(* One async generator object (quickjs.c): calls of next, return and throw *)
(* are requests in a queue, each with a promise.  The body answers them    *)
(* with yields, waits at awaits, and may call its own generator while it   *)
(* runs.  A promise that the generator waits for is settled by a job, at   *)
(* any time when no code runs.                                             *)
(***************************************************************************)
EXTENDS Integers, Sequences, FiniteSets

CONSTANTS MaxRequests,    \* bound: calls of next, return and throw
          MaxOutstanding, \* bound: requests without an answer
          MaxBody         \* bound: times the body stops

Kinds == {"next", "return", "throw"}

\* `gen' is JSAsyncGeneratorData: [state, queue, in_body, freed, wait, answers]:
\* the queue of requests [id, kind], whether the body is on the stack, how often its
\* frame was freed, what the promise it waits for is for ("await", "return" or ""),
\* and the answers so far, [id, k], where k is "value", "done" or "error"
VARIABLES gen, made, stops

vars == <<gen, made, stops>>

\* `js_async_generator_function_call'
Init ==
    /\ gen = [state |-> "start", queue |-> <<>>, in_body |-> FALSE, freed |-> 0, wait |-> "", answers |-> <<>>]
    /\ made = 0 /\ stops = 0

\* `js_async_generator_resolve_or_reject': takes the first request
Answer(g, k) ==
    [g EXCEPT !.queue = Tail(@), !.answers = Append(@, [id |-> Head(g.queue).id, k |-> k])]

\* `js_async_generator_complete'
Complete(g) ==
    IF g.state = "completed" THEN g ELSE [g EXCEPT !.state = "completed", !.freed = @ + 1]

RECURSIVE ResumeNext(_)

\* `js_async_generator_resume_next': the loop, up to its end or to a run of the body
ResumeNext(g) ==
    IF g.queue = <<>> THEN g
    ELSE LET kind == Head(g.queue).kind
         IN  CASE g.state = "executing" -> [g EXCEPT !.in_body = TRUE]
               [] g.state = "awaiting_return" -> g
               [] g.state = "start" /\ kind # "next" -> ResumeNext(Complete(g))
               [] g.state = "completed" ->
                    CASE kind = "next" -> Answer(g, "done")
                      [] kind = "return" -> [g EXCEPT !.state = "awaiting_return", !.wait = "return"]
                      [] OTHER -> Answer(g, "error")
               [] OTHER -> [g EXCEPT !.state = "executing", !.in_body = TRUE]

\* Mutation: a request made while others wait goes first.
RequestFirst(kind) ==
    /\ made < MaxRequests /\ Len(gen.queue) < MaxOutstanding
    /\ made' = made + 1
    /\ LET g == [gen EXCEPT !.queue = <<[id |-> made + 1, kind |-> kind]>> \o @]
       IN  gen' = IF g.state = "executing" THEN g ELSE ResumeNext(g)
    /\ UNCHANGED stops

\* `js_async_generator_next', from anywhere, the body included
Request(kind) ==
    /\ made < MaxRequests /\ Len(gen.queue) < MaxOutstanding
    /\ made' = made + 1
    /\ LET g == [gen EXCEPT !.queue = Append(@, [id |-> made + 1, kind |-> kind])]
       IN  gen' = IF g.state = "executing" THEN g ELSE ResumeNext(g)
    /\ UNCHANGED stops

\* The body throws, or ends with a value: the loop goes on.
BodyEnds(k) ==
    /\ gen.in_body
    /\ gen' = ResumeNext(Answer(Complete([gen EXCEPT !.in_body = FALSE]), k))
    /\ UNCHANGED <<made, stops>>

\* The body yields: FUNC_RET_YIELD and FUNC_RET_YIELD_STAR.
BodyYields(state) ==
    /\ gen.in_body /\ stops < MaxBody
    /\ gen' = ResumeNext(Answer([gen EXCEPT !.in_body = FALSE, !.state = state], "value"))
    /\ stops' = stops + 1
    /\ UNCHANGED made

\* `js_async_generator_await'
BodyAwaits ==
    /\ gen.in_body /\ stops < MaxBody
    /\ gen' = [gen EXCEPT !.in_body = FALSE, !.wait = "await"]
    /\ stops' = stops + 1
    /\ UNCHANGED made


\* `js_async_generator_resolve_function': the job of the promise that was waited for
Settled(reject) ==
    /\ gen.wait # "" /\ ~gen.in_body
    /\ LET g == [gen EXCEPT !.wait = ""]
       IN  gen' = IF gen.wait = "return"
                  THEN Answer([g EXCEPT !.state = "completed"], IF reject THEN "error" ELSE "done")
                  ELSE ResumeNext(g)
    /\ UNCHANGED <<made, stops>>

Body ==
    \/ \E k \in {"done", "error"} : BodyEnds(k)
    \/ \E s \in {"yield", "yield_star"} : BodyYields(s)
    \/ BodyAwaits
Job == \E reject \in BOOLEAN : Settled(reject)
Next == (\E kind \in Kinds : Request(kind)) \/ Body \/ Job

Spec == Init /\ [][Next]_vars

-----------------------------------------------------------------------------

\* Every request is answered at most once and in the order of the calls: the queue
\* is what is left.
AnswersInOrder ==
    /\ \A i \in DOMAIN gen.answers : gen.answers[i].id = i
    /\ Len(gen.answers) + Len(gen.queue) = made
    /\ \A i \in DOMAIN gen.queue : gen.queue[i].id = Len(gen.answers) + i

\* The assertions of js_async_generator_resolve_function hold when its promise is
\* settled, and there is a request to answer, whatever calls came in between.
ResumesWhereItStopped ==
    /\ gen.wait = "await" => gen.state = "executing" /\ ~gen.in_body
    /\ gen.wait = "return" => gen.state \in {"awaiting_return", "completed"}
    /\ gen.wait # "" \/ gen.in_body => gen.queue # <<>>
    /\ gen.state = "executing" => gen.in_body # (gen.wait = "await")

\* The frame of the body is freed once, when it is over, and it is not resumed after.
FrameFreedOnce ==
    /\ gen.freed = (IF gen.state \in {"completed", "awaiting_return"} THEN 1 ELSE 0)
    /\ gen.in_body => gen.freed = 0

\* A generator suspended at its start or at a yield has no request waiting.
SuspendedServed == gen.state \in {"start", "yield", "yield_star"} => gen.queue = <<>>

\* After an answer that the body ended with, no later one has a value it yielded.
NoValueAfterEnd ==
    \A i, j \in DOMAIN gen.answers :
        i < j /\ gen.answers[j].k = "value" => gen.answers[i].k = "value"

=============================================================================
