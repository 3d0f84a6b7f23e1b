------------------------------- MODULE MCJobs -------------------------------
(***************************************************************************)
(* Promises, their combinators, async functions, generators and async      *)
(* generators for TLC.  A behaviour exercises one of these parts; the      *)
(* variables of the others are <<>>.                                       *)
(***************************************************************************)
EXTENDS Integers, Sequences

VARIABLES part,
          rt,                                  \* promises
          state, frame, stack, yields, out,    \* generators
          gen, made, stops                     \* async generators

genVars == <<state, frame, stack, yields, out>>
agenVars == <<gen, made, stops>>
allVars == <<part, rt, genVars, agenVars>>

Then == INSTANCE JsPromise WITH
    MaxOps <- 4, MaxEnvs <- 0, UserOps <- {"new", "resolve", "then", "thenable"}, Plain <- {1}, Given <- 0
Combine == INSTANCE JsPromise WITH
    MaxOps <- 3, MaxEnvs <- 1, UserOps <- {"resolve", "all", "allSettled", "any", "race"}, Plain <- {1}, Given <- 2
Async == INSTANCE JsPromise WITH
    MaxOps <- 3, MaxEnvs <- 0, UserOps <- {"resolve", "finally", "async"}, Plain <- {1}, Given <- 1
Gen == INSTANCE JsGenerator WITH Gens <- {"g", "h"}, MaxDepth <- 3, MaxYields <- 2
AGen == INSTANCE JsAsyncGenerator WITH MaxRequests <- 5, MaxOutstanding <- 4, MaxBody <- 4

Idle(v) == v = <<>>
NoPromises == Idle(rt)
NoGen == Idle(state) /\ Idle(frame) /\ Idle(stack) /\ Idle(yields) /\ Idle(out)
NoAGen == Idle(gen) /\ Idle(made) /\ Idle(stops)

Init ==
    \/ part = "then" /\ Then!Init /\ NoGen /\ NoAGen
    \/ part = "combine" /\ Combine!Init /\ NoGen /\ NoAGen
    \/ part = "async" /\ Async!Init /\ NoGen /\ NoAGen
    \/ part = "generator" /\ Gen!Init /\ NoPromises /\ NoAGen
    \/ part = "asyncGenerator" /\ AGen!Init /\ NoPromises /\ NoGen

ThenSteps == part = "then" /\ Then!Next /\ UNCHANGED <<part, genVars, agenVars>>
CombineSteps == part = "combine" /\ Combine!Next /\ UNCHANGED <<part, genVars, agenVars>>
AsyncSteps == part = "async" /\ Async!Next /\ UNCHANGED <<part, genVars, agenVars>>
GenSteps == part = "generator" /\ Gen!Next /\ UNCHANGED <<part, rt, agenVars>>
AGenSteps == part = "asyncGenerator" /\ AGen!Next /\ UNCHANGED <<part, rt, genVars>>

Next == ThenSteps \/ CombineSteps \/ AsyncSteps \/ GenSteps \/ AGenSteps

Spec == Init /\ [][Next]_allVars

-----------------------------------------------------------------------------
(***************************************************************************)
(* Each function given to then runs once, in the order in which then was   *)
(* called, when its promise is settled and not otherwise; a reaction       *)
(* without a function passes its promise's outcome on; and the host is     *)
(* told of exactly the rejections nobody handles.                          *)
(***************************************************************************)
ReactionsRunOnce == part = "then" => Then!TypeOK /\ Then!ReactionsRunOnce /\ Then!PassesThrough /\ Then!TrackerExact

(***************************************************************************)
(* The first call of a promise's two functions decides: a promise that was *)
(* resolved with another one ends as that one does, and one that passes    *)
(* through finally keeps its outcome unless the function of finally throws *)
(* or fails.  An async function is left waiting only for a promise that is *)
(* pending.                                                                *)
(***************************************************************************)
FollowsResolution ==
    /\ part = "then" => Then!FollowsResolution
    /\ part = "async" => Async!FinallyKeepsOutcome /\ Async!AwaitsEnd

(***************************************************************************)
(* Promise.all, allSettled, any and race settle with what the outcomes of  *)
(* their items say, also when items are settled before the loop over them  *)
(* ends.                                                                   *)
(***************************************************************************)
CombinatorsAgree == part = "combine" => Combine!CombinatorsAgree


(***************************************************************************)
(* A body runs for one call at a time and its frame is freed once. The     *)
(* requests of an async generator are answered in the order in which they  *)
(* were made; a body goes on where it stopped, never after its end, and    *)
(* does not stay suspended while requests wait.                            *)
(***************************************************************************)
AnswersInOrder ==
    /\ part = "generator" => Gen!RunsOnce /\ Gen!FrameFreedOnce /\ Gen!ValueSlot
    /\ part = "asyncGenerator" =>
           /\ AGen!AnswersInOrder
           /\ AGen!ResumesWhereItStopped
           /\ AGen!FrameFreedOnce
           /\ AGen!SuspendedServed
           /\ AGen!NoValueAfterEnd
=============================================================================
