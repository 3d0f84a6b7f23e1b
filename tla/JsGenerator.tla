----------------------------- MODULE JsGenerator -----------------------------
(***************************************************************************)
(* Generator objects (quickjs.c).  A call of next, return or throw resumes *)
(* the body, which may call other generators, or its own, before it yields,*)
(* ends or throws; the calls nest on the C stack.  A body that delegates   *)
(* with yield* gets a throw as a value and decides itself.                 *)
(***************************************************************************)
EXTENDS Integers, Sequences, FiniteSets, SequencesExt

CONSTANTS Gens,
          MaxDepth,  \* bound: nested calls
          MaxYields  \* bound: yields of a body

Magics == {"next", "return", "throw"}

VARIABLES state,   \* JSGeneratorStateEnum, or "gone" when the object is freed
          frame,   \* the frame of the body: [freed, top, inbox], where `top' says that
                   \* cur_sp[-1] is the slot for the value of the yield
          stack,   \* the bodies that run, innermost last
          yields,
          out      \* what the last call returned: [g, magic, k]

vars == <<state, frame, stack, yields, out>>

\* `js_generator_function_call': up to OP_initial_yield
Init ==
    /\ state = [g \in Gens |-> "start"]
    /\ frame = [g \in Gens |-> [freed |-> 0, top |-> FALSE, inbox |-> "none"]]
    /\ stack = <<>> /\ yields = [g \in Gens |-> 0]
    /\ out = [g |-> "", magic |-> "", k |-> ""]

\* `free_generator_stack'
FreeStack(g) ==
    /\ state' = [state EXCEPT ![g] = "completed"]
    /\ frame' = IF state[g] = "completed" THEN frame
                ELSE [frame EXCEPT ![g] = [freed |-> @.freed + 1, top |-> FALSE, inbox |-> "none"]]

\* what a call of a generator that is over returns
Finished(magic) ==
    CASE magic = "next" -> "undefined" [] magic = "return" -> "value" [] OTHER -> "throws"

CanRun(g) == state[g] \in {"yield", "yield_star"}


\* a throw at a yield is thrown there; at a yield* it is a value
ThrownAt(g, magic) == magic = "throw" /\ state[g] = "yield"

\* js_generator_next that resumes the body
Resume(g, magic) ==
    /\ Len(stack) < MaxDepth
    /\ \/ state[g] = "start" /\ magic = "next"
          /\ frame' = [frame EXCEPT ![g].inbox = "none"]
       \/ CanRun(g)
          /\ frame' = [frame EXCEPT ![g].top = FALSE,
                                    ![g].inbox = IF ThrownAt(g, magic) THEN "none" ELSE magic]
    /\ state' = [state EXCEPT ![g] = "executing"]
    /\ stack' = Append(stack, g)
    /\ out' = [g |-> g, magic |-> magic, k |-> "runs"]
    /\ UNCHANGED yields

\* js_generator_next that does not: the generator has not started, is over, or runs
Refuse(g, magic) ==
    /\ Len(stack) < MaxDepth
    /\ \/ /\ state[g] = "start" /\ magic # "next"
          /\ FreeStack(g)
          /\ out' = [g |-> g, magic |-> magic, k |-> Finished(magic)]
       \/ /\ state[g] = "completed"
          /\ out' = [g |-> g, magic |-> magic, k |-> Finished(magic)]
          /\ UNCHANGED <<state, frame>>
       \/ /\ state[g] = "executing"
          /\ out' = [g |-> g, magic |-> magic, k |-> "throws"]
          /\ UNCHANGED <<state, frame>>
    /\ UNCHANGED <<stack, yields>>

\* the innermost body yields: the slot of the value is set to undefined
BodyYields(s) ==
    LET g == Last(stack)
    IN  /\ stack # <<>> /\ yields[g] < MaxYields
        /\ state' = [state EXCEPT ![g] = s]
        /\ frame' = [frame EXCEPT ![g] = [@ EXCEPT !.top = TRUE, !.inbox = "none"]]
        /\ stack' = Front(stack)
        /\ yields' = [yields EXCEPT ![g] = @ + 1]
        /\ out' = [g |-> g, magic |-> s, k |-> "value"]

\* the innermost body ends with a value or throws
BodyEnds(k) ==
    /\ stack # <<>>
    /\ FreeStack(Last(stack))
    /\ stack' = Front(stack)
    /\ out' = [g |-> Last(stack), magic |-> "", k |-> k]
    /\ UNCHANGED yields

\* `js_generator_finalizer': no reference is left, so the body does not run
Finalize(g) ==
    /\ state[g] \notin {"executing", "gone"}
    /\ state' = [state EXCEPT ![g] = "gone"]
    /\ frame' = IF state[g] = "completed" THEN frame
                ELSE [frame EXCEPT ![g] = [freed |-> @.freed + 1, top |-> FALSE, inbox |-> "none"]]
    /\ UNCHANGED <<stack, yields, out>>

Next ==
    \/ \E g \in Gens, magic \in Magics : Resume(g, magic) \/ Refuse(g, magic)
    \/ \E s \in {"yield", "yield_star"} : BodyYields(s)
    \/ \E k \in {"value", "throws"} : BodyEnds(k)
    \/ \E g \in Gens : Finalize(g)

Spec == Init /\ [][Next]_vars

-----------------------------------------------------------------------------

\* A body runs at most once at a time, and exactly while its state says so, however
\* the generators call each other and themselves.
RunsOnce ==
    /\ \A i, j \in DOMAIN stack : stack[i] = stack[j] => i = j
    /\ \A g \in Gens : state[g] = "executing" <=> g \in ToSet(stack)

\* The frame is freed once, when the generator is over, and never while it runs.
FrameFreedOnce ==
    \A g \in Gens : frame[g].freed = (IF state[g] \in {"completed", "gone"} THEN 1 ELSE 0)

\* The value slot is on the stack of a body exactly while it is suspended at a yield:
\* what next() stores at cur_sp[-1] then replaces it.
ValueSlot == \A g \in Gens : frame[g].top <=> state[g] \in {"yield", "yield_star"}

\* A body that delegates is never interrupted by a thrown value: it is resumed with
\* the kind of the call.
DelegateSeesCall ==
    \A g \in Gens : /\ state[g] = "yield_star" /\ state'[g] = "executing"
                    => frame'[g].inbox = out'.magic

=============================================================================
