----------------------------- MODULE MCStreams -----------------------------
(***************************************************************************)
(* The two readers of what a guest writes, for TLC: in part "log" the      *)
(* guest writes to its standard error, in part "response" its output is    *)
(* parsed.                                                                 *)
(***************************************************************************)
EXTENDS LogForwarder, CgiResponse

CONSTANTS a, b, z, MaxBuf, MaxLines

VARIABLE part

MCText == {a, b, z}

MCBuffers == UNION {[1..n -> {a, b, NL}] : n \in 0..MaxBuf}

MCPayloads == UNION {[1..n -> Line] : n \in 0..MaxLines}

streamVars == <<part, vars, responseVars>>

StreamsInit ==
    /\ part \in {"log", "response"}
    /\ Init
    /\ ResponseInit
    /\ part = "log" => payload = <<>>

LogSteps == part = "log" /\ Next /\ UNCHANGED <<part, responseVars>>

ResponseSteps == part = "response" /\ ResponseNext /\ UNCHANGED <<part, vars>>

StreamsSpec == StreamsInit /\ [][LogSteps \/ ResponseSteps]_streamVars
=============================================================================
