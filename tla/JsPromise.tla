------------------------------ MODULE JsPromise ------------------------------
(***************************************************************************)
(* Promises, their jobs and async functions (quickjs.c).  The state is one *)
(* record, rt, which the built-in functions below map to the next one, so  *)
(* that a call inside a call is an operator inside an operator.  The       *)
(* program is a stack of calls of user code; each does what it likes with  *)
(* the promises and resolving functions it knows, then returns or throws.  *)
(*                                                                         *)
(* Constructors other than Promise (species, subclasses) and failures to   *)
(* allocate are left out.                                                  *)
(***************************************************************************)
EXTENDS Integers, Sequences, FiniteSets, SequencesExt

CONSTANTS MaxOps,        \* bound: operations of user code
          MaxEnvs,       \* bound: calls of combinators
          UserOps,       \* which of them a run lets user code do
          Plain,         \* the plain values, integers
          Given          \* the pending promises that the script has made

VARIABLE rt

Undef == [t |-> "undef"]
Val(v) == [t |-> "val", v |-> v]
Prom(p) == [t |-> "prom", p |-> p]
Thenable == [t |-> "obj"]      \* an object whose then is a function of the program
BadThen == [t |-> "bad"]       \* an object whose getter of then throws
Error(e) == [t |-> "err", e |-> e]

NoHandler == [k |-> "undef"]
User == [k |-> "user"]
Resolving(c, rej) == [k |-> "resolving", c |-> c, rej |-> rej]
NoCap == 0

IsObject(v) == v.t \in {"prom", "obj", "bad", "arr", "agg", "err"}
-----------------------------------------------------------------------------
Enqueue(S, job) == [S EXCEPT !.jobs = Append(@, job)]

\* `fulfill_or_reject_promise`: the reactions become jobs, in their order.
Settle(S, p, rej, v) ==
    LET q == S.prom[p]
        jobs == [i \in DOMAIN q.react |->
                    [k |-> "reaction", id |-> q.react[i].id, cap |-> q.react[i].cap,
                     h |-> IF rej THEN q.react[i].onR ELSE q.react[i].onF, rej |-> rej, v |-> v]]
    IN  IF q.st # "pending" THEN S
        ELSE [S EXCEPT !.prom[p] = [@ EXCEPT !.st = IF rej THEN "rejected" ELSE "fulfilled",
                                             !.res = v, !.react = <<>>],
                       !.unhandled = IF rej /\ ~q.handled THEN @ \cup {p} ELSE @,
                       !.jobs = @ \o jobs]

\* Mutation: the two functions of a pair do not share already_resolved.
ResolveCallUnshared(S, c, rej, v) ==
    IF S.pair[c].done /\ ~rej THEN S
    ELSE LET p == S.pair[c].p
             T == [S EXCEPT !.pair[c].done = TRUE, !.with[p] = [t |-> "with", rej |-> rej, v |-> v]]
         IN  IF rej \/ v.t # "prom" THEN Settle(T, p, rej, v)
             ELSE Enqueue(T, [k |-> "thenable", p |-> p, v |-> v])

\* `js_promise_resolve_function_call`: one of the two resolving functions.
ResolveCall(S, c, rej, v) ==
    LET p == S.pair[c].p
        T == [S EXCEPT !.pair[c].done = TRUE,
                       !.with[p] = IF @ = Undef THEN [t |-> "with", rej |-> rej, v |-> v] ELSE @]
    IN  IF S.pair[c].done THEN S
        ELSE IF rej \/ ~IsObject(v) THEN Settle(T, p, rej, v)
        ELSE IF v = Prom(p) THEN Settle(T, p, TRUE, Error("self"))
        ELSE IF v = BadThen THEN Settle(T, p, TRUE, Error("then"))
        ELSE IF v = Thenable \/ v.t = "prom" THEN Enqueue(T, [k |-> "thenable", p |-> p, v |-> v])
        ELSE Settle(T, p, FALSE, v)

\* `js_create_resolving_functions`: the number of the new pair is its length.
NewPair(S, p) == [S EXCEPT !.pair = Append(@, [p |-> p, done |-> FALSE])]

\* `js_new_promise_capability`: a pending promise and its pair.
NewCapability(S) ==
    NewPair([S EXCEPT !.prom = Append(@, [st |-> "pending", res |-> Undef, react |-> <<>>,
                                          handled |-> FALSE]),
                      !.with = Append(@, Undef)],
            Len(S.prom) + 1)

\* Mutation: the reaction is lost when the promise is settled already.
PerformThenPending(S, p, onF, onR, cap) ==
    [S EXCEPT !.nreact = @ + 1, !.prom[p].handled = TRUE,
              !.reg = Append(@, [p |-> p, onF |-> onF, onR |-> onR, cap |-> cap]),
              !.unhandled = @ \ {p},
              !.prom[p].react = Append(@, [id |-> S.nreact + 1, onF |-> onF, onR |-> onR, cap |-> cap])]

\* `perform_promise_then`
PerformThen(S, p, onF, onR, cap) ==
    LET q == S.prom[p]
        id == S.nreact + 1
        T == [S EXCEPT !.nreact = id, !.prom[p].handled = TRUE,
                       !.unhandled = IF q.st = "rejected" /\ ~q.handled THEN @ \ {p} ELSE @,
                       !.reg = Append(@, [p |-> p, onF |-> onF, onR |-> onR, cap |-> cap])]
    IN  IF q.st = "pending"
        THEN [T EXCEPT !.prom[p].react =
                  Append(@, [id |-> id, onF |-> onF, onR |-> onR, cap |-> cap])]
        ELSE Enqueue(T, [k |-> "reaction", id |-> id, cap |-> cap,
                         h |-> IF q.st = "rejected" THEN onR ELSE onF,
                         rej |-> q.st = "rejected", v |-> q.res])

\* `js_promise_then`: the promise it returns is the last one.
Then(S, p, onF, onR) ==
    LET T == NewCapability(S) IN PerformThen(T, p, onF, onR, Len(T.pair))

\* `js_promise_resolve`: the promise for a value (the second component).
PromiseResolve(S, v) ==
    IF v.t = "prom" THEN <<S, v.p>>
    ELSE LET T == NewCapability(S) IN <<ResolveCall(T, Len(T.pair), FALSE, v), Len(T.prom)>>
-----------------------------------------------------------------------------
\* The combinators.  An environment counts the elements left, starting at one
\* for the loop itself.
Elem(e, i, rej) == [k |-> "elem", e |-> e, i |-> i, rej |-> rej]

Outcome(kind, rej, v) == IF kind = "allSettled" THEN [t |-> "st", rej |-> rej, v |-> v] ELSE v

\* `remainingElementsCount_add(-1)`, and what follows when it is zero.
OneLess(S, e) ==
    LET env == S.env[e]
        T == [S EXCEPT !.env[e].left = @ - 1]
    IN  IF env.left > 1 THEN T
        ELSE IF env.kind = "any" THEN ResolveCall(T, env.c, TRUE, [t |-> "agg", vs |-> env.vals])
        ELSE ResolveCall(T, env.c, FALSE, [t |-> "arr", vs |-> env.vals])

\* `js_promise_all_resolve_element`
ElemCall(S, h, v) ==
    IF <<h.e, h.i, h.rej>> \in S.called THEN S
    ELSE OneLess([S EXCEPT !.called = @ \cup {<<h.e, h.i, h.rej>>},
                           !.env[h.e].vals[h.i] = Outcome(S.env[h.e].kind, h.rej, v)], h.e)

\* Mutation: the loop does not count itself.
CombinatorEarly(S, kind, items) ==
    LET A == NewCapability(S)
        c == Len(A.pair)
        e == Len(A.env) + 1
        B == [A EXCEPT !.env = Append(@, [kind |-> kind, c |-> c, left |-> 0, items |-> items,
                                          vals |-> [i \in DOMAIN items |-> Undef]])]
        onF(i) == IF kind \in {"any", "race"} THEN Resolving(c, FALSE) ELSE Elem(e, i, FALSE)
        onR(i) == CASE kind = "any" -> Elem(e, i, FALSE)
                    [] kind = "allSettled" -> Elem(e, i, TRUE)
                    [] OTHER -> Resolving(c, TRUE)
        item(T, i) == LET R == PromiseResolve(T, items[i])
                      IN  Then([R[1] EXCEPT !.env[e].left = @ + 1], R[2], onF(i), onR(i))
        Done == FoldLeft(item, B, [i \in DOMAIN items |-> i])
    IN  IF kind = "race" THEN Done ELSE OneLess(Done, e)

\* `js_promise_all` (all, allSettled, any) and `js_promise_race`: the promise
\* they return is the first new one.
Combinator(S, kind, items) ==
    LET A == NewCapability(S)
        c == Len(A.pair)
        e == Len(A.env) + 1
        B == [A EXCEPT !.env = Append(@, [kind |-> kind, c |-> c, left |-> 1, items |-> items,
                                          vals |-> [i \in DOMAIN items |-> Undef]])]
        onF(i) == IF kind \in {"any", "race"} THEN Resolving(c, FALSE) ELSE Elem(e, i, FALSE)
        onR(i) == CASE kind = "any" -> Elem(e, i, FALSE)
                    [] kind = "allSettled" -> Elem(e, i, TRUE)
                    [] OTHER -> Resolving(c, TRUE)
        item(T, i) == LET R == PromiseResolve(T, items[i])
                      IN  Then([R[1] EXCEPT !.env[e].left = @ + 1], R[2], onF(i), onR(i))
        Done == FoldLeft(item, B, [i \in DOMAIN items |-> i])
    IN  IF kind = "race" THEN Done ELSE OneLess(Done, e)
-----------------------------------------------------------------------------
\* Calls of user code.  A frame says who called and gets the result.
Call(S, frame) == [S EXCEPT !.stack = Append(@, frame)]
Top == rt.stack[Len(rt.stack)]
Pop(S) == [S EXCEPT !.stack = Front(@)]

\* The end of `promise_reaction_job`: the promise of then is resolved.
FinishReaction(S, cap, rej, v) == IF cap = NoCap THEN S ELSE ResolveCall(S, cap, rej, v)

\* `promise_reaction_job`, up to the call of the program's function.
ReactionJob(S, j) ==
    LET T == [S EXCEPT !.ran = Append(@, [id |-> j.id, rej |-> j.rej, v |-> j.v])]
    IN  CASE j.h.k = "undef" -> FinishReaction(T, j.cap, j.rej, j.v)
          [] j.h.k = "resolving" ->
                 FinishReaction(ResolveCall(T, j.h.c, j.h.rej, j.v), j.cap, FALSE, Undef)
          [] j.h.k = "elem" -> FinishReaction(ElemCall(T, j.h, j.v), j.cap, FALSE, Undef)
          [] j.h.k = "thunk" -> FinishReaction(T, j.cap, FALSE, j.h.v)
          [] j.h.k = "thrower" -> FinishReaction(T, j.cap, TRUE, j.h.v)
          [] j.h.k = "finally" -> Call(T, [k |-> "finally", cap |-> j.cap, rej |-> j.rej, v |-> j.v])
          [] j.h.k = "resume" -> Call(T, [k |-> "async", f |-> j.h.f])
          [] OTHER -> Call(T, [k |-> "handler", cap |-> j.cap, v |-> j.v])

\* `js_promise_resolve_thenable_job`: a pair of its own for the promise, and a
\* call of the then of the value.
ThenableJob(S, j) ==
    LET T == NewPair(S, j.p)
        c == Len(T.pair)
    IN  IF j.v.t = "prom" THEN Then(T, j.v.p, Resolving(c, FALSE), Resolving(c, TRUE))
        ELSE Call([T EXCEPT !.held = @ \cup {c}], [k |-> "then", cap |-> c])

\* `JS_ExecutePendingJob`, when no user code runs.
RunJob ==
    /\ rt.stack = <<>> /\ rt.jobs # <<>>
    /\ LET j == Head(rt.jobs)
           S == [rt EXCEPT !.jobs = Tail(@)]
       IN  rt' = IF j.k = "reaction" THEN ReactionJob(S, j) ELSE ThenableJob(S, j)

\* `js_promise_then_finally_func` after the call: the value waits for the
\* promise of what the function returned.
FinallyReturns(S, fr, v) ==
    LET R == PromiseResolve(S, v)
        h == IF fr.rej THEN [k |-> "thrower", v |-> fr.v] ELSE [k |-> "thunk", v |-> fr.v]
        T == Then([R[1] EXCEPT !.fin = @ \cup {[cap |-> fr.cap, v |-> v]}], R[2], h, NoHandler)
    IN  FinishReaction(T, fr.cap, FALSE, Prom(Len(T.prom)))

\* The frame of user code ends.  `js_promise_constructor` rejects when the
\* executor throws, `js_async_function_resume` settles the function's promise.
UserReturns(v) ==
    /\ rt.stack # <<>>
    /\ LET fr == Top
           S == Pop(rt)
       IN  rt' = CASE fr.k = "handler" -> FinishReaction(S, fr.cap, FALSE, v)
                   [] fr.k = "finally" -> FinallyReturns(S, fr, v)
                   [] fr.k = "async" -> ResolveCall([S EXCEPT !.active = @ \ {fr.f}], fr.f, FALSE, v)
                   [] OTHER -> S

UserThrows(e) ==
    /\ rt.stack # <<>> /\ Top.k # "script"
    /\ LET fr == Top
           S == Pop(rt)
       IN  rt' = CASE fr.k = "async" -> ResolveCall([S EXCEPT !.active = @ \ {fr.f}], fr.f, TRUE, e)
                   [] fr.k \in {"then", "executor"} -> ResolveCall(S, fr.cap, TRUE, e)
                   [] OTHER -> FinishReaction(S, fr.cap, TRUE, e)
-----------------------------------------------------------------------------
\* What user code does while it runs.
Step(op) == rt.stack # <<>> /\ rt.ops < MaxOps /\ op \in UserOps
Counted(S) == [S EXCEPT !.ops = @ + 1]
Known(S, p) == [S EXCEPT !.known = @ \cup {p}]
UserValues == {Val(v) : v \in Plain} \cup {Prom(p) : p \in rt.known}
              \cup (IF "thenable" \in UserOps THEN {Thenable, BadThen} ELSE {})

\* new Promise(executor)
NewPromise ==
    /\ Step("new")
    /\ LET T == NewCapability(Counted(rt))
           c == Len(T.pair)
       IN  rt' = Call(Known([T EXCEPT !.held = @ \cup {c}], Len(T.prom)), [k |-> "executor", cap |-> c])

CallResolving(c, rej, v) ==
    /\ Step("resolve") /\ c \in rt.held
    /\ rt' = ResolveCall(Counted(rt), c, rej, v)

\* then(f, g) with functions or without (`js_promise_catch` is one of them)
CallThen(p, onF, onR) ==
    /\ Step("then") /\ p \in rt.known
    /\ LET T == Then(Counted(rt), p, onF, onR) IN rt' = Known(T, Len(T.prom))

\* `js_promise_finally` with a function
CallFinally(p) ==
    /\ Step("finally") /\ p \in rt.known
    /\ LET T == Then(Counted(rt), p, [k |-> "finally"], [k |-> "finally"])
       IN  rt' = Known(T, Len(T.prom))

CallCombinator(kind, items) ==
    /\ Step(kind) /\ Len(rt.env) < MaxEnvs
    /\ rt' = Known(Combinator(Counted(rt), kind, items), Len(rt.prom) + 1)

\* `js_async_function_call`: the body starts at once.
CallAsync ==
    /\ Step("async")
    /\ LET T == NewCapability(Counted(rt))
           f == Len(T.pair)
       IN  rt' = Call(Known([T EXCEPT !.active = @ \cup {f}], Len(T.prom)), [k |-> "async", f |-> f])

\* await: the frame is left until the promise of the value is settled.
Await(v) ==
    /\ Step("async") /\ Top.k = "async"
    /\ LET R == PromiseResolve(Pop(Counted(rt)), v)
       IN  rt' = PerformThen(R[1], R[2], [k |-> "resume", f |-> Top.f],
                             [k |-> "resume", f |-> Top.f], NoCap)

Start ==
    [prom |-> <<>>, with |-> <<>>, pair |-> <<>>, env |-> <<>>, jobs |-> <<>>,
     called |-> {}, stack |-> <<[k |-> "script"]>>, known |-> {}, held |-> {},
     active |-> {}, unhandled |-> {}, fin |-> {}, nreact |-> 0, reg |-> <<>>, ran |-> <<>>, ops |-> 0]

Init ==
    LET made(S, i) == LET T == NewCapability(S)
                      IN  [T EXCEPT !.held = @ \cup {Len(T.pair)}, !.known = @ \cup {Len(T.prom)}]
    IN  rt = FoldLeft(made, Start, [i \in 1..Given |-> i])

Items == UNION {[1..n -> UserValues] : n \in 0..2}
Handlers == {NoHandler, User}

UserSteps ==
    \/ NewPromise
    \/ \E c \in rt.held, rej \in BOOLEAN, v \in UserValues : CallResolving(c, rej, v)
    \/ \E p \in rt.known, onF, onR \in Handlers : CallThen(p, onF, onR)
    \/ \E p \in rt.known : CallFinally(p)
    \/ \E kind \in {"all", "allSettled", "any", "race"}, items \in Items : CallCombinator(kind, items)
    \/ CallAsync
    \/ \E v \in UserValues : Await(v)

Next ==
    \/ RunJob
    \/ \E v \in UserValues : UserReturns(v)
    \/ \E v \in Plain : UserThrows(Val(v))
    \/ UserSteps

Spec == Init /\ [][Next]_rt
-----------------------------------------------------------------------------
Settled(p) == rt.prom[p].st # "pending"
Quiet == rt.stack = <<>> /\ rt.jobs = <<>>
Same(p, q) == rt.prom[p].st = rt.prom[q].st /\ rt.prom[p].res = rt.prom[q].res

TypeOK ==
    /\ \A p \in DOMAIN rt.prom :
           /\ rt.prom[p].st \in {"pending", "fulfilled", "rejected"}
           /\ Settled(p) => rt.prom[p].react = <<>>
           /\ rt.prom[p].st = "fulfilled" => rt.prom[p].res.t \notin {"prom", "obj", "bad"}
    /\ \A c \in DOMAIN rt.pair : rt.pair[c].p \in DOMAIN rt.prom
    /\ \A e \in DOMAIN rt.env : rt.env[e].left >= 0

(***************************************************************************)
(* A reaction runs at most once, with the outcome of its promise, and the  *)
(* reactions of a promise run in the order of the calls of then.  When no  *)
(* job is left, every reaction of a settled promise has run.               *)
(***************************************************************************)
ReactionsRunOnce ==
    /\ \A i \in DOMAIN rt.ran :
           LET p == rt.reg[rt.ran[i].id].p
           IN  /\ rt.prom[p].st = (IF rt.ran[i].rej THEN "rejected" ELSE "fulfilled")
               /\ rt.prom[p].res = rt.ran[i].v
               /\ \A j \in DOMAIN rt.ran :
                      j > i /\ rt.reg[rt.ran[j].id].p = p => rt.ran[j].id > rt.ran[i].id
    /\ Quiet => \A id \in DOMAIN rt.reg :
                    Settled(rt.reg[id].p) <=> \E i \in DOMAIN rt.ran : rt.ran[i].id = id

(***************************************************************************)
(* When no job is left, a promise has the outcome of the first effective   *)
(* call of its resolving functions: a plain value as it is, a promise by   *)
(* its outcome, itself and a throwing then as an error.                    *)
(***************************************************************************)
FollowsResolution ==
    Quiet => \A p \in DOMAIN rt.prom :
        LET w == rt.with[p]
        IN  IF w = Undef THEN ~Settled(p)
            ELSE IF w.rej THEN rt.prom[p].st = "rejected" /\ rt.prom[p].res = w.v
            ELSE IF w.v = Prom(p) \/ w.v = BadThen
                 THEN rt.prom[p].st = "rejected" /\ rt.prom[p].res.t = "err"
            ELSE IF w.v.t = "prom" THEN Same(p, w.v.p)
            ELSE w.v = Thenable \/ (rt.prom[p].st = "fulfilled" /\ rt.prom[p].res = w.v)

(***************************************************************************)
(* A rejection passes through a then without a second function, and a      *)
(* value through one without a first, unchanged.                           *)
(***************************************************************************)
PassesThrough ==
    Quiet => \A id \in DOMAIN rt.reg :
        LET r == rt.reg[id]
        IN  /\ Settled(r.p) /\ r.cap # NoCap
            /\ (IF rt.prom[r.p].st = "rejected" THEN r.onR ELSE r.onF) = NoHandler
            => Same(rt.pair[r.cap].p, r.p)

(***************************************************************************)
(* The host's tracker is told of exactly the rejected promises that have   *)
(* no reaction: each once, and again when a late reaction comes.           *)
(***************************************************************************)
TrackerExact ==
    rt.unhandled = {p \in DOMAIN rt.prom : rt.prom[p].st = "rejected" /\ ~rt.prom[p].handled}

(***************************************************************************)
(* The combinators, when no job is left, by the outcomes of their items,   *)
(* which may be settled before the call, after it, or never.               *)
(***************************************************************************)
CombinatorsAgree ==
    Quiet => \A e \in DOMAIN rt.env :
        LET env == rt.env[e]
            q == rt.prom[rt.pair[env.c].p]
            ok == {i \in DOMAIN env.items : env.items[i].t = "val" \/
                      (env.items[i].t = "prom" /\ rt.prom[env.items[i].p].st = "fulfilled")}
            bad == {i \in DOMAIN env.items : env.items[i].t = "bad" \/
                      (env.items[i].t = "prom" /\ rt.prom[env.items[i].p].st = "rejected")}
            of(i) == IF env.items[i].t = "prom" THEN rt.prom[env.items[i].p].res
                     ELSE IF env.items[i].t = "bad" THEN Error("then") ELSE env.items[i]
            all == ok = DOMAIN env.items
            arr(r) == [i \in DOMAIN env.items |-> r[i]]
        IN  (\A i \in DOMAIN env.items : env.items[i] # Thenable) =>
            CASE env.kind = "all" ->
                   IF bad # {} THEN q.st = "rejected" /\ q.res \in {of(i) : i \in bad}
                   ELSE IF all THEN q.st = "fulfilled" /\ q.res = [t |-> "arr", vs |-> [i \in ok |-> of(i)]]
                   ELSE q.st = "pending"
              [] env.kind = "any" ->
                   IF ok # {} THEN q.st = "fulfilled" /\ q.res \in {of(i) : i \in ok}
                   ELSE IF bad = DOMAIN env.items
                   THEN q.st = "rejected" /\ q.res = [t |-> "agg", vs |-> [i \in bad |-> of(i)]]
                   ELSE q.st = "pending"
              [] env.kind = "allSettled" ->
                   IF ok \cup bad = DOMAIN env.items
                   THEN q.st = "fulfilled" /\
                        q.res = [t |-> "arr", vs |-> [i \in DOMAIN env.items |->
                                    [t |-> "st", rej |-> i \in bad, v |-> of(i)]]]
                   ELSE q.st = "pending"
              [] OTHER ->
                   IF ok \cup bad = {} THEN q.st = "pending"
                   ELSE \/ q.st = "fulfilled" /\ q.res \in {of(i) : i \in ok}
                        \/ q.st = "rejected" /\ q.res \in {of(i) : i \in bad}

(***************************************************************************)
(* The promise of finally has the outcome of the promise it was called on, *)
(* but waits for what its function returned, and fails with it.            *)
(***************************************************************************)
FinallyKeepsOutcome ==
    Quiet => \A f \in rt.fin :
        LET p == rt.pair[f.cap].p
            src == CHOOSE id \in DOMAIN rt.reg : rt.reg[id].cap = f.cap
        IN  IF f.v.t = "prom" /\ rt.prom[f.v.p].st # "fulfilled" THEN Same(p, f.v.p)
            ELSE IF IsObject(f.v) /\ f.v.t # "prom" THEN TRUE
            ELSE Same(p, rt.reg[src].p)

(***************************************************************************)
(* When no job is left, an async function is still active only if it waits *)
(* for a promise that is pending, and its promise is settled otherwise,    *)
(* unless it returned a promise or thenable that is not.                   *)
(***************************************************************************)
AwaitsEnd ==
    Quiet => \A f \in rt.active :
        \E id \in DOMAIN rt.reg :
            /\ rt.reg[id].onF = [k |-> "resume", f |-> f]
            /\ ~Settled(rt.reg[id].p)
=============================================================================
