-------------------------- MODULE CgiHandlerProofs --------------------------
(***************************************************************************)
(* CGI mode, for every request, every file tree and every guest: what the  *)
(* guest is told, and then what the clients of the shipped guests get.     *)
(***************************************************************************)
EXTENDS CgiGuests, ScriptLookupProofs

(***************************************************************************)
(* Output without an empty line is a body.                                 *)
(***************************************************************************)
LEMMA ReadingOneLine ==
    ASSUME NEW l, NEW s, NEW h, NEW b, Reading(<<l>>, s, h, b)
    PROVE  s = Ok /\ b = <<l>>
<1>1. \A e \in 1..Len(<<l>>) : ~SplitsAt(<<l>>, e)
  BY DEF SplitsAt
<1> QED
  BY <1>1 DEF Reading

(***************************************************************************)
(* A status line, an empty line and a body.                                *)
(***************************************************************************)
LEMMA ReadingStatus ==
    ASSUME NEW c, NEW x, NEW s, NEW h, NEW b,
           Reading(<<StatusLine(c), Blank, TextLine(x)>>, s, h, b)
    PROVE  s = c
<1> DEFINE p == <<StatusLine(c), Blank, TextLine(x)>>
<1>1. /\ Len(p) = 3 /\ p[1].kind = "status" /\ p[1].code = c
      /\ p[2] = Blank /\ p[3] # Blank
  BY DEF StatusLine, TextLine, Blank
<1>2. Reading(p, s, h, b)
  OBVIOUS
<1> HIDE DEF p
<1>3. SplitsAt(p, 1)
  BY <1>1, SMTT(30) DEF SplitsAt
<1>4. PICK e \in 1..Len(p) : SplitsAt(p, e) /\ SetsStatus(p, e, s)
  BY <1>1, <1>2, <1>3, SMTT(30) DEF Reading
<1>5. e = 1
  <2>1. e \in 1..2 /\ p[e + 1] = Blank
    BY <1>1, <1>4, SMTT(30) DEF SplitsAt
  <2>2. e # 2
    BY <1>1, <2>1, SMTT(30)
  <2> QED
    BY <2>1, <2>2
<1>6. SetsStatus(p, 1, s)
  BY <1>4, <1>5
<1> QED
  BY <1>1, <1>6, SMTT(30) DEF SetsStatus

(***************************************************************************)
(* Two headers, an empty line and a body.                                  *)
(***************************************************************************)
LEMMA ReadingMarkdown ==
    ASSUME NEW n, NEW s, NEW h, NEW b, Reading(MarkdownLines(n), s, h, b)
    PROVE  b = <<HtmlOf(n)>>
<1> DEFINE p == MarkdownLines(n)
           S == {p[1], p[2], p[3], p[4]}
<1>1. /\ p \in Seq(S) /\ Len(p) = 4 /\ p[4] = HtmlOf(n)
      /\ p[2] # Blank /\ p[3] = Blank /\ p[4] # Blank
  BY SMTT(30) DEF MarkdownLines, HeaderLine, Blank, HtmlOf, TextLine
<1>2. Reading(p, s, h, b)
  OBVIOUS
<1> HIDE DEF p, S
<1>3. SplitsAt(p, 2)
  BY <1>1 DEF SplitsAt
<1>4. PICK e \in 1..Len(p) : SplitsAt(p, e) /\ b = SubSeq(p, e + 2, Len(p))
  BY <1>1, <1>2, <1>3 DEF Reading
<1>5. e = 2
  <2>1. e \in 1..3 /\ p[e + 1] = Blank
    BY <1>1, <1>4 DEF SplitsAt
  <2>2. e # 1 /\ e # 3
    BY <1>1, <2>1
  <2> QED
    BY <2>1, <2>2
<1>6. b = SubSeq(p, 4, 4)
  BY <1>1, <1>4, <1>5
<1>7. b \in Seq(S) /\ Len(b) = 1 /\ b[1] = p[4]
  BY <1>1, <1>6, SMTT(30)
<1>8. <<p[4]>> \in Seq(S) /\ Len(<<p[4]>>) = 1 /\ <<p[4]>>[1] = p[4]
  BY DEF S
<1>9. b = <<p[4]>>
  BY <1>7, <1>8
<1> QED
  BY <1>1, <1>9

(***************************************************************************)
(* What the guest's `getenv` returns: the value of the first pair of that  *)
(* name.                                                                   *)
(***************************************************************************)
LEMMA GetenvFirst ==
    ASSUME NEW k \in DOMAIN vars, DOMAIN vars = 1..Len(vars), Len(vars) \in Nat,
           \A j \in 1..(k - 1) : vars[j][1] # vars[k][1]
    PROVE  Getenv(vars[k][1]) = vars[k][2]
<1> DEFINE First(i) == vars[i][1] = vars[k][1] /\ \A j \in 1..(i - 1) : vars[j][1] # vars[k][1]
<1>1. First(k)
  OBVIOUS
<1>2. \A i \in DOMAIN vars : First(i) => i = k
  <2> SUFFICES ASSUME NEW i \in DOMAIN vars, First(i) PROVE i = k
    OBVIOUS
  <2>1. i \in Nat /\ k \in Nat /\ i >= 1 /\ k >= 1
    OBVIOUS
  <2>2. ~(i < k)
    BY <2>1
  <2>3. ~(k < i)
    BY <2>1
  <2> QED
    BY <2>1, <2>2, <2>3
<1>3. (CHOOSE i \in DOMAIN vars : First(i)) = k
  BY <1>1, <1>2
<1> QED
  BY <1>3 DEF Getenv

(***************************************************************************)
(* The guest's environment is a sequence of pairs: the method, the three   *)
(* variables of the script if there is one, and then the headers, none of  *)
(* which is called like those.                                             *)
(***************************************************************************)
LEMMA EnvironmentFound ==
    ASSUME request \in Requests, lookup = "found"
    PROVE  /\ Len(GatewayVars) = Len(request.headers) + 4 /\ Len(request.headers) \in Nat
           /\ DOMAIN GatewayVars = 1..(Len(request.headers) + 4)
           /\ GatewayVars[1] = <<"REQUEST_METHOD", request.method>>
           /\ GatewayVars[2] = <<"PATH_INFO", Rest(cut)>>
           /\ GatewayVars[4] = <<"SCRIPT_NAME", <<Slash>> \o Name(cut)>>
           /\ GatewayVars[3][1] = "PATH_TRANSLATED"
           /\ DOMAIN request.headers = 1..Len(request.headers)
           /\ \A i \in 1..Len(request.headers) :
                  /\ GatewayVars[i + 4][1] = EnvName[request.headers[i][1]]
                  /\ GatewayVars[i + 4][2] = request.headers[i][2]
<1> DEFINE n == Len(request.headers)
           Vars == [i \in DOMAIN request.headers |->
                       <<EnvName[request.headers[i][1]], request.headers[i][2]>>]
           M == <<"REQUEST_METHOD", request.method>>
           I == <<"PATH_INFO", Rest(cut)>>
           T == <<"PATH_TRANSLATED", <<"cwd">> \o Rest(cut)>>
           N == <<"SCRIPT_NAME", <<Slash>> \o Name(cut)>>
           S == {M, I, T, N} \cup {Vars[i] : i \in DOMAIN request.headers}
<1>1. n \in Nat /\ DOMAIN request.headers = 1..n
  BY CgiAssumption
<1>2. \A i \in 1..n : Vars[i] \in S
  BY <1>1
<1>3. DOMAIN Vars = 1..n /\ Vars = [i \in 1..n |-> Vars[i]]
  BY <1>1
<1>4. GatewayVars = (<<M>> \o <<I, T, N>>) \o Vars
  BY DEF GatewayVars, ScriptVars
<1>5. M \in S /\ I \in S /\ T \in S /\ N \in S
  OBVIOUS
<1>6. \A i \in 1..n : Vars[i][1] = EnvName[request.headers[i][1]] /\ Vars[i][2] = request.headers[i][2]
  BY <1>1
<1>7. M[1] = "REQUEST_METHOD" /\ T[1] = "PATH_TRANSLATED"
  OBVIOUS
<1>8. n \in Nat
  BY <1>1
<1> HIDE DEF M, I, T, N, S, Vars, n
<1>9. Vars \in Seq(S) /\ Len(Vars) = n
  BY <1>2, <1>3, <1>8
<1>10. <<M>> \in Seq(S) /\ <<I, T, N>> \in Seq(S)
  BY <1>5
<1> DEFINE A == <<M>> \o <<I, T, N>>
<1>11. /\ A \in Seq(S) /\ Len(A) = 4
       /\ A[1] = M /\ A[2] = I /\ A[3] = T /\ A[4] = N
  BY <1>5, <1>10
<1> HIDE DEF A
<1>12. GatewayVars = A \o Vars
  BY <1>4 DEF A
<1>13. /\ GatewayVars \in Seq(S) /\ Len(GatewayVars) = 4 + n
       /\ \A k \in 1..(4 + n) : GatewayVars[k] = IF k <= 4 THEN A[k] ELSE Vars[k - 4]
  <2> DEFINE B == A \o Vars
  <2>1. /\ B \in Seq(S) /\ Len(B) = Len(A) + Len(Vars)
        /\ \A k \in 1..(Len(A) + Len(Vars)) : B[k] = IF k <= Len(A) THEN A[k] ELSE Vars[k - Len(A)]
    BY <1>9, <1>11, ConcatProperties, Zenon
  <2>2. GatewayVars = B
    BY <1>12
  <2> HIDE DEF B
  <2> QED
    BY <1>9, <1>11, <2>1, <2>2, Zenon
<1>14. /\ Len(GatewayVars) = n + 4 /\ DOMAIN GatewayVars = 1..(n + 4)
       /\ GatewayVars[1] = M /\ GatewayVars[2] = I /\ GatewayVars[3] = T /\ GatewayVars[4] = N
  BY <1>8, <1>11, <1>13
<1>15. ASSUME NEW i \in 1..n PROVE GatewayVars[i + 4] = Vars[i]
  <2>1. i + 4 \in 1..(4 + n) /\ ~(i + 4 <= 4) /\ (i + 4) - 4 = i
    BY <1>8
  <2> QED
    BY <1>13, <2>1
<1> QED
  BY <1>1, <1>6, <1>7, <1>14, <1>15 DEF M, I, T, N, n

(***************************************************************************)
(* What depends on the search and the request only changes with them.      *)
(***************************************************************************)
LEMMA SearchSame ==
    ASSUME UNCHANGED lookupVars
    PROVE  /\ path' = path /\ Cuts' = Cuts /\ Candidate' = Candidate
           /\ (\A i : Name(i)' = Name(i)) /\ (\A i : Rest(i)' = Rest(i))
           /\ (LookupInv => LookupInv')
           /\ (request' = request => GatewayVars' = GatewayVars)
<1>1. target' = target /\ tree' = tree /\ cut' = cut /\ lookup' = lookup
  BY DEF lookupVars
<1>2. path' = path /\ Cuts' = Cuts /\ \A i : Name(i)' = Name(i)
  BY <1>1 DEF path, Cuts, Name
<1>3. \A i : Rest(i)' = Rest(i)
  BY <1>2 DEF Rest
<1>4. Candidate' = Candidate
  BY <1>1, <1>2 DEF Candidate
<1>5. LookupInv => LookupInv'
  BY LookupPreserved
<1>6. ASSUME request' = request PROVE GatewayVars' = GatewayVars
  <2>1. ScriptVars' = ScriptVars
    BY <1>1, <1>2 DEF ScriptVars, Name, Rest
  <2> QED
    BY <1>6, <2>1 DEF GatewayVars
<1> QED
  BY <1>2, <1>3, <1>4, <1>5, <1>6

(***************************************************************************)
(* What the invariant says of a request stays the same while the request,  *)
(* the search and the variables do.                                        *)
(***************************************************************************)
LEMMA GuestsSame ==
    ASSUME UNCHANGED <<lookupVars, request, vars>>
    PROVE  /\ Candidate' = Candidate /\ Asked' = Asked
           /\ HelloLines(request.method, Rest(cut))' = HelloLines(request.method, Rest(cut))
           /\ MarkdownLength' = MarkdownLength
<1>1. /\ cut' = cut /\ request' = request /\ vars' = vars /\ Candidate' = Candidate
      /\ (\A i : Name(i)' = Name(i)) /\ (\A i : Rest(i)' = Rest(i))
  BY SearchSame DEF lookupVars
<1>2. Name(cut)' = Name(cut) /\ Rest(cut)' = Rest(cut)
  <2>1. path' = path
    BY SearchSame
  <2> QED
    BY <1>1, <2>1 DEF Name, Rest
<1>3. Asked' = Asked
  BY <1>2 DEF Asked, PathParent
<1>4. \A x : Getenv(x)' = Getenv(x)
  BY <1>1 DEF Getenv
<1>5. \A g : Greeting(g)' = Greeting(g)
  BY <1>1 DEF Greeting, Getenv, TextLine
<1>6. HelloLines(request.method, Rest(cut))' = HelloLines(request.method, Rest(cut))
  BY <1>1, <1>2, <1>5, SMTT(30) DEF HelloLines, StatusLine, Blank, TextLine, Greeting, Getenv
<1>7. MarkdownLength' = MarkdownLength
  BY <1>1 DEF MarkdownLength, Getenv
<1> QED
  BY <1>1, <1>3, <1>6, <1>7

(***************************************************************************)
(* A guest that returned keeps the invariant with what its own kind owes.  *)
(***************************************************************************)
LEMMA AnswersAtOutput ==
    ASSUME RequestInv', pc' = "output",
           Candidate' = HelloFile => stdout' = HelloLines(request.method, Rest(cut))',
           Candidate' = MarkdownFile /\ MarkdownLength' > 0 =>
               stdout' = MarkdownLines(MarkdownLength)',
           Candidate' \in JsFiles => ret' = 0 /\ Reached(Len(Scripts[Asked]))'
    PROVE  GuestsInv'
  BY DEF GuestsInv

(***************************************************************************)
(* A script that threw keeps the invariant: nothing of it is left to run.  *)
(***************************************************************************)
LEMMA AnswersAfterThrow ==
    ASSUME RequestInv', pc' = "guest", program' = <<>>, ret' = -1, <<>> # NotLoaded
    PROVE  GuestsInv'
  BY DEF GuestsInv

(***************************************************************************)
(* Once the variables are set, nothing that leaves the request, the search *)
(* and the variables alone and goes on to the next stage, or drops the     *)
(* connection, disturbs the invariant.                                     *)
(***************************************************************************)
LEMMA RequestKept ==
    ASSUME RequestInv, UNCHANGED <<lookupVars, request, vars>>,
           \/ pc' = pc \/ pc' = "dropped"
           \/ pc = "body" /\ pc' = "module"
           \/ pc = "guest" /\ pc' = "output"
           \/ pc = "output" /\ pc' = "done"
    PROVE  RequestInv'
<1>1. lookup' = lookup /\ request' = request /\ vars' = vars
  BY DEF lookupVars
<1>2. LookupInv' /\ GatewayVars' = GatewayVars
  BY SearchSame DEF RequestInv
<1> QED
  BY <1>1, <1>2 DEF RequestInv

(***************************************************************************)
(* The handler's own steps preserve the invariant.                         *)
(***************************************************************************)
LEMMA HostKeepsRequest == RequestInv /\ HostNext => RequestInv'
<1> SUFFICES ASSUME RequestInv, HostNext PROVE RequestInv'
  OBVIOUS
<1>1. CASE Search
  <2>1. LookupInv'
    BY <1>1, LookupPreserved DEF Search, RequestInv
  <2> QED
    BY <1>1, <2>1 DEF Search, RequestInv
<1>2. CASE BuildVars
  <2>1. UNCHANGED lookupVars /\ request' = request /\ vars' = GatewayVars /\ pc' = "body"
        /\ lookup # "searching"
    BY <1>2 DEF BuildVars
  <2>2. LookupInv' /\ GatewayVars' = GatewayVars /\ lookup' = lookup
    BY <2>1, SearchSame DEF RequestInv, lookupVars
  <2> QED
    BY <2>1, <2>2 DEF RequestInv
<1>3. CASE BuildVarsPanics
  BY <1>3, RequestKept DEF BuildVarsPanics, Panic
<1>4. ASSUME NEW n \in 0..request.length, FirstChunk(n) PROVE RequestInv'
  BY <1>4, RequestKept DEF FirstChunk
<1>5. CASE BodyFails
  BY <1>5, RequestKept DEF BodyFails, Panic
<1>6. CASE StartGuest
  <2>1. UNCHANGED lookupVars /\ request' = request /\ vars' = vars /\ pc = "module" /\ pc' = "guest"
        /\ \E f \in Files : wasm = Content(f, NumBlocks)
    BY <1>6 DEF StartGuest
  <2>2. lookup = "found"
    BY <2>1, NoScriptLeft DEF LeftoverIsNoScript, RequestInv
  <2>3. LookupInv' /\ GatewayVars' = GatewayVars /\ lookup' = lookup
    BY <2>1, SearchSame DEF RequestInv, lookupVars
  <2> QED
    BY <2>1, <2>2, <2>3 DEF RequestInv
<1>7. CASE StartFails
  BY <1>7, RequestKept DEF StartFails, Panic
<1>8. CASE Respond
  BY <1>8, RequestKept DEF Respond
<1>9. CASE OutputPanics
  BY <1>9, RequestKept DEF OutputPanics, Panic
<1> QED
  BY <1>1, <1>2, <1>3, <1>4, <1>5, <1>6, <1>7, <1>8, <1>9 DEF HostNext

(***************************************************************************)
(* The invariant holds when the handler is called.                         *)
(***************************************************************************)
LEMMA RequestInitially == CgiInit => RequestInv
  BY LookupInitial DEF CgiInit, RequestInv

(***************************************************************************)
(* No step of any guest disturbs it.                                       *)
(***************************************************************************)
LEMMA RequestPreserved == RequestInv /\ [CgiNext]_cgiVars => RequestInv'
<1> SUFFICES ASSUME RequestInv, [CgiNext]_cgiVars PROVE RequestInv'
  OBVIOUS
<1>1. CASE HostNext
  BY <1>1, HostKeepsRequest
<1>2. ASSUME NEW n \in 1..MaxRead, GuestReads(n) PROVE RequestInv'
  BY <1>2, RequestKept DEF GuestReads
<1>3. ASSUME NEW line \in GuestLines, GuestPrints(line) PROVE RequestInv'
  BY <1>3, RequestKept DEF GuestPrints
<1>4. CASE GuestReturns
  BY <1>4, RequestKept DEF GuestReturns
<1>5. CASE GuestFails
  BY <1>5, RequestKept DEF GuestFails, Panic
<1>6. CASE UNCHANGED cgiVars
  BY <1>6, RequestKept DEF cgiVars
<1> QED
  BY <1>1, <1>2, <1>3, <1>4, <1>5, <1>6 DEF CgiNext, GuestNext

(***************************************************************************)
(* The three variables of CGI mode that name themselves, for a guest that  *)
(* runs: no header of the request is called like one of them.              *)
(***************************************************************************)
LEMMA GuestEnvironment ==
    ASSUME RequestInv, pc \in {"guest", "output", "done"}
    PROVE  /\ Getenv("REQUEST_METHOD") = request.method
           /\ Getenv("PATH_INFO") = Rest(cut)
           /\ Getenv("SCRIPT_NAME") = <<Slash>> \o Name(cut)
<1>1. vars = GatewayVars /\ lookup = "found" /\ request \in Requests
  BY DEF RequestInv
<1>2. /\ Len(vars) = Len(request.headers) + 4 /\ Len(request.headers) \in Nat
      /\ DOMAIN vars = 1..(Len(request.headers) + 4)
      /\ vars[1] = <<"REQUEST_METHOD", request.method>>
      /\ vars[2] = <<"PATH_INFO", Rest(cut)>>
      /\ vars[4] = <<"SCRIPT_NAME", <<Slash>> \o Name(cut)>>
      /\ vars[3][1] = "PATH_TRANSLATED"
  BY <1>1, EnvironmentFound
<1>3. /\ Len(vars) \in Nat /\ DOMAIN vars = 1..Len(vars)
      /\ 1 \in DOMAIN vars /\ 2 \in DOMAIN vars /\ 4 \in DOMAIN vars
  BY <1>2
<1>4. /\ vars[1][1] = "REQUEST_METHOD" /\ vars[1][2] = request.method
      /\ vars[2][1] = "PATH_INFO" /\ vars[2][2] = Rest(cut)
      /\ vars[4][1] = "SCRIPT_NAME" /\ vars[4][2] = <<Slash>> \o Name(cut)
  BY <1>2
<1>5. Getenv("REQUEST_METHOD") = request.method
  <2>1. \A j \in 1..(1 - 1) : vars[j][1] # vars[1][1]
    OBVIOUS
  <2>2. Getenv(vars[1][1]) = vars[1][2]
    BY <1>3, <2>1, GetenvFirst
  <2> QED
    BY <1>4, <2>2
<1>6. Getenv("PATH_INFO") = Rest(cut)
  <2>1. \A j \in 1..(2 - 1) : vars[j][1] # vars[2][1]
    BY <1>4
  <2>2. Getenv(vars[2][1]) = vars[2][2]
    BY <1>3, <2>1, GetenvFirst
  <2> QED
    BY <1>4, <2>2
<1>7. Getenv("SCRIPT_NAME") = <<Slash>> \o Name(cut)
  <2>0. \A j \in 1..(4 - 1) : j = 1 \/ j = 2 \/ j = 3
    OBVIOUS
  <2>1. \A j \in 1..(4 - 1) : vars[j][1] # vars[4][1]
    BY <1>2, <1>4, <2>0
  <2>2. Getenv(vars[4][1]) = vars[4][2]
    BY <1>3, <2>1, GetenvFirst
  <2> QED
    BY <1>4, <2>2
<1> QED
  BY <1>5, <1>6, <1>7

(***************************************************************************)
(* What a guest reads for a header: the first value of it in the request,  *)
(* or nothing if the request does not have it.                             *)
(***************************************************************************)
LEMMA GuestHeader ==
    ASSUME RequestInv, pc \in {"guest", "output", "done"}, NEW h \in DOMAIN EnvName
    PROVE  /\ \A i \in DOMAIN request.headers :
                  request.headers[i][1] = h /\ (\A j \in 1..(i - 1) : request.headers[j][1] # h)
                  => Getenv(EnvName[h]) = request.headers[i][2]
           /\ (\A i \in DOMAIN request.headers : request.headers[i][1] # h)
                  => Getenv(EnvName[h]) = Null
<1> DEFINE n == Len(request.headers)
           e == EnvName[h]
<1>1. vars = GatewayVars /\ lookup = "found" /\ request \in Requests
  BY DEF RequestInv
<1>2. /\ Len(vars) = n + 4 /\ n \in Nat /\ DOMAIN vars = 1..(n + 4)
      /\ vars[1][1] = "REQUEST_METHOD" /\ vars[2][1] = "PATH_INFO"
      /\ vars[3][1] = "PATH_TRANSLATED" /\ vars[4][1] = "SCRIPT_NAME"
      /\ DOMAIN request.headers = 1..n
  BY <1>1, EnvironmentFound
<1>3. \A i \in 1..n : /\ vars[i + 4][1] = EnvName[request.headers[i][1]]
                      /\ vars[i + 4][2] = request.headers[i][2]
  BY <1>1, EnvironmentFound
<1>4. \A i \in 1..n : request.headers[i][1] \in DOMAIN EnvName
  BY <1>1, <1>2, CgiAssumption
<1>5. \A g \in DOMAIN EnvName :
         /\ EnvName[g] \notin {"REQUEST_METHOD", "PATH_INFO", "PATH_TRANSLATED", "SCRIPT_NAME"}
         /\ EnvName[g] = e => g = h
  BY DEF EnvName
<1> HIDE DEF n, e
<1>6. \A k \in 1..(n + 4) : k \in 1..4 \/ (k - 4 \in 1..n /\ (k - 4) + 4 = k)
  BY <1>2
<1>7. \A k \in 1..4 : vars[k][1] # e
  <2>1. \A k \in 1..4 : k = 1 \/ k = 2 \/ k = 3 \/ k = 4
    OBVIOUS
  <2> QED
    BY <1>2, <1>5, <2>1 DEF e
<1>8. \A k \in 1..(n + 4) : vars[k][1] = e => k - 4 \in 1..n /\ request.headers[k - 4][1] = h
  BY <1>3, <1>4, <1>5, <1>6, <1>7
<1>9. ASSUME NEW i \in 1..n, request.headers[i][1] = h,
             \A j \in 1..(i - 1) : request.headers[j][1] # h
      PROVE  Getenv(e) = request.headers[i][2]
  <2>1. i + 4 \in DOMAIN vars /\ vars[i + 4][1] = e
    BY <1>2, <1>3, <1>9 DEF e
  <2>2. ASSUME NEW j \in 1..((i + 4) - 1) PROVE vars[j][1] # e
    <3>1. j \in 1..(n + 4) /\ (j - 4 \in 1..n => j - 4 \in 1..(i - 1))
      BY <1>2
    <3> QED
      BY <1>8, <1>9, <3>1
  <2>3. Len(vars) \in Nat /\ DOMAIN vars = 1..Len(vars)
    BY <1>2
  <2>4. Getenv(vars[i + 4][1]) = vars[i + 4][2]
    BY <2>1, <2>2, <2>3, GetenvFirst
  <2> QED
    BY <1>3, <2>1, <2>4
<1>10. ASSUME \A i \in 1..n : request.headers[i][1] # h PROVE Getenv(e) = Null
  <2>1. ~ \E k \in DOMAIN vars : vars[k][1] = e
    BY <1>2, <1>8, <1>10
  <2> QED
    BY <2>1 DEF Getenv
<1> QED
  BY <1>2, <1>9, <1>10 DEF e

(***************************************************************************)
(* The invariant says all that the guest is told.                          *)
(***************************************************************************)
LEMMA InvariantTellsGuest == RequestInv => GuestSeesItsRequest
<1> SUFFICES ASSUME RequestInv, pc = "guest"
             PROVE  /\ lookup = "found"
                    /\ wasm = Content(Candidate, NumBlocks)
                    /\ Getenv("SCRIPT_NAME") \o Getenv("PATH_INFO") = target
                    /\ Getenv("REQUEST_METHOD") = request.method
                    /\ request.framing = "length" => Getenv("CONTENT_LENGTH") = request.length
  BY DEF GuestSeesItsRequest
<1>1. lookup = "found" /\ wasm = Content(Candidate, NumBlocks) /\ target \in Paths /\ cut \in Cuts
  BY DEF RequestInv, LookupInv, ScriptIsWhole, LookupTypeOK
<1>2. Getenv("REQUEST_METHOD") = request.method
  BY GuestEnvironment
<1>3. Getenv("SCRIPT_NAME") \o Getenv("PATH_INFO") = target
  <2>1. (<<Slash>> \o Name(cut)) \o Rest(cut) = target
    BY <1>1, SplitLosesNothing DEF SplitRecombines
  <2> QED
    BY <2>1, GuestEnvironment
<1>4. ASSUME request.framing = "length" PROVE Getenv("CONTENT_LENGTH") = request.length
  <2>1. request \in Requests
    BY DEF RequestInv
  <2>2. PICK i \in DOMAIN request.headers :
            /\ request.headers[i][1] = "content_length" /\ request.headers[i][2] = request.length
            /\ \A j \in 1..(i - 1) : request.headers[j][1] # "content_length"
    BY <1>4, <2>1, CgiAssumption
  <2>3. "content_length" \in DOMAIN EnvName /\ EnvName["content_length"] = "CONTENT_LENGTH"
    BY DEF EnvName
  <2> QED
    BY <2>2, <2>3, GuestHeader
<1> QED
  BY <1>1, <1>2, <1>3, <1>4

(***************************************************************************)
(* For every request, every path and file tree, every pattern of read      *)
(* errors and every guest, a guest that runs is the script that was found  *)
(* and is told the truth about its request.                                *)
(***************************************************************************)
THEOREM EveryGuestSeesItsRequest == CgiSpec => []GuestSeesItsRequest
  BY RequestInitially, RequestPreserved, InvariantTellsGuest, PTL DEF CgiSpec

(***************************************************************************)
(* The invariant of the types holds when the handler is called.            *)
(***************************************************************************)
LEMMA CgiInitially == CgiInit => CgiInv
<1> SUFFICES ASSUME CgiInit PROVE CgiInv
  OBVIOUS
<1>1. RequestInv
  BY RequestInitially
<1>2. request.length \in Nat
  BY CgiAssumption DEF CgiInit
<1>3. stdout \in Seq(Line \cup {NotUtf8})
  BY EmptySeq DEF CgiInit
<1> QED
  BY <1>1, <1>2, <1>3 DEF CgiInit, CgiInv, CgiTypeOK, RequestInv, LookupInv

(***************************************************************************)
(* Every step of the handler and of any guest preserves it.                *)
(***************************************************************************)
LEMMA CgiPreserved == CgiInv /\ [CgiNext]_cgiVars => CgiInv'
<1> SUFFICES ASSUME CgiInv, [CgiNext]_cgiVars PROVE CgiInv'
  OBVIOUS
<1>0. RequestInv'
  BY RequestPreserved DEF CgiInv
<1>1. LookupTypeOK' /\ request' \in Requests
  BY <1>0 DEF RequestInv, LookupInv
<1>2. request.length \in Nat /\ stdin \in Nat /\ consumed \in Nat /\ stdin + consumed <= request.length
  BY CgiAssumption DEF CgiInv, CgiTypeOK
<1>3. ASSUME UNCHANGED <<stdout, response, request>>, stdin' \in Nat, consumed' \in Nat,
             stdin' + consumed' <= request.length,
             pc' \in {"lookup", "body", "module"} => consumed' = 0
      PROVE  CgiInv'
  BY <1>0, <1>1, <1>3 DEF CgiInv, CgiTypeOK, RequestInv
<1>4. ASSUME UNCHANGED <<stdin, consumed, stdout, response, request>>,
             pc' \in {"lookup", "body", "module"} => pc \in {"lookup", "body", "module"}
      PROVE  CgiInv'
  <2>1. pc' \in {"lookup", "body", "module"} => consumed' = 0
    BY <1>4 DEF CgiInv
  <2> QED
    BY <1>2, <1>3, <1>4, <2>1
<1>5. CASE Search
  BY <1>4, <1>5 DEF Search, runVars
<1>6. CASE BuildVars
  BY <1>4, <1>6 DEF BuildVars, runVars
<1>7. CASE BuildVarsPanics
  BY <1>4, <1>7 DEF BuildVarsPanics, Panic, runVars
<1>8. ASSUME NEW n \in 0..request.length, FirstChunk(n) PROVE CgiInv'
  <2>1. consumed = 0 /\ consumed' = 0 /\ stdin' = n
    BY <1>8 DEF FirstChunk, CgiInv
  <2> QED
    BY <1>2, <1>3, <1>8, <2>1 DEF FirstChunk
<1>9. CASE BodyFails
  BY <1>4, <1>9 DEF BodyFails, Panic, runVars
<1>10. CASE StartGuest
  BY <1>4, <1>10 DEF StartGuest, runVars
<1>11. CASE StartFails
  BY <1>4, <1>11 DEF StartFails, Panic, runVars
<1>12. CASE Respond
  <2>1. /\ pc' = "done" /\ UNCHANGED <<stdin, consumed, stdout, request>>
        /\ \A i \in DOMAIN stdout : stdout[i] # NotUtf8
    BY <1>12 DEF Respond, runVars
  <2>2. PICK s \in Codes, h \in [Names -> Values \cup {Absent}], b \in Bodies(stdout) :
            response' = [status |-> s, headers |-> h, body |-> b]
    BY <1>12 DEF Respond
  <2>3. stdout \in Seq(Line)
    <3>1. stdout \in Seq(Line \cup {NotUtf8})
      BY DEF CgiInv, CgiTypeOK
    <3>2. \A i \in 1..Len(stdout) : stdout[i] \in Line
      BY <2>1, <3>1
    <3> QED
      BY <3>1, <3>2
  <2>4. b \in Seq(Line)
    <3>1. PICK i \in 1..(Len(stdout) + 1) : b = SubSeq(stdout, i, Len(stdout))
      BY <2>2 DEF Bodies
    <3> QED
      BY <2>3, <3>1
  <2>5. response'.status \in Codes /\ response'.body \in Seq(Line)
    BY <2>2, <2>4
  <2> QED
    BY <1>0, <1>1, <1>2, <2>1, <2>5 DEF CgiInv, CgiTypeOK, RequestInv
<1>13. CASE OutputPanics
  BY <1>4, <1>13 DEF OutputPanics, Panic, runVars
<1>14. ASSUME NEW n \in 1..MaxRead, GuestReads(n) PROVE CgiInv'
  <2> DEFINE got == IF n < stdin THEN n ELSE stdin
  <2>1. /\ stdin' = stdin - got /\ consumed' = consumed + got /\ pc' = pc /\ pc = "guest"
        /\ UNCHANGED <<stdout, response, request>>
    BY <1>14 DEF GuestReads
  <2>2. got \in Nat /\ got <= stdin
    BY <1>2
  <2> HIDE DEF got
  <2> QED
    BY <1>2, <1>3, <2>1, <2>2
<1>15. ASSUME NEW line \in GuestLines, GuestPrints(line) PROVE CgiInv'
  <2>1. /\ stdout' = Append(stdout, line)
        /\ UNCHANGED <<stdin, consumed, response, request>> /\ pc' = pc /\ pc = "guest"
    BY <1>15 DEF GuestPrints
  <2>2. line \in Line \cup {NotUtf8}
    BY CgiAssumption
  <2>3. stdout' \in Seq(Line \cup {NotUtf8})
    BY <2>1, <2>2 DEF CgiInv, CgiTypeOK
  <2> QED
    BY <1>0, <1>1, <2>1, <2>3 DEF CgiInv, CgiTypeOK, RequestInv
<1>16. CASE GuestReturns
  BY <1>4, <1>16 DEF GuestReturns, runVars
<1>17. CASE GuestFails
  BY <1>4, <1>17 DEF GuestFails, Panic, runVars
<1>18. CASE UNCHANGED cgiVars
  BY <1>4, <1>18 DEF cgiVars
<1> QED
  BY <1>5, <1>6, <1>7, <1>8, <1>9, <1>10, <1>11, <1>12, <1>13, <1>14, <1>15, <1>16, <1>17, <1>18
     DEF CgiNext, HostNext, GuestNext

(***************************************************************************)
(* The handler's state has its types: a guest never reads more than was    *)
(* sent, and what is answered is made of whole lines the guest printed.    *)
(***************************************************************************)
THEOREM CgiTypeCorrect == CgiSpec => []CgiTypeOK
<1>1. CgiInv => CgiTypeOK
  BY DEF CgiInv
<1> QED
  BY <1>1, CgiInitially, CgiPreserved, PTL DEF CgiSpec
-----------------------------------------------------------------------------
(***************************************************************************)
(* The bytes tell the files apart.                                         *)
(***************************************************************************)
LEMMA ContentInjective ==
    ASSUME NEW f, NEW g, Content(f, NumBlocks) = Content(g, NumBlocks)
    PROVE  f = g
<1>1. 1 \in 1..NumBlocks
  BY LookupAssumption
<1>2. Content(f, NumBlocks)[1] = <<f, 1>> /\ Content(g, NumBlocks)[1] = <<g, 1>>
  BY <1>1 DEF Content
<1> QED
  BY <1>2

(***************************************************************************)
(* A guest that runs is the candidate at which the search stopped.         *)
(***************************************************************************)
LEMMA CandidateRuns ==
    ASSUME RequestInv, pc \in {"guest", "output", "done"}
    PROVE  /\ Candidate \in Files
           /\ \A f : wasm = Content(f, NumBlocks) <=> f = Candidate
<1>1. Candidate \in Files /\ wasm = Content(Candidate, NumBlocks)
  BY DEF RequestInv, LookupInv, ScriptIsWhole
<1> QED
  BY <1>1, ContentInjective

(***************************************************************************)
(* Nothing has been printed by the first zero effects.                     *)
(***************************************************************************)
LEMMA PrintedNone == ASSUME NEW p PROVE PrintedBy(p, 0, <<>>)
<1> DEFINE at == [i \in 1..0 |-> 0]
<1>1. at \in [1..0 -> 1..0]
  OBVIOUS
<1>2. <<>> = [i \in 1..0 |-> p[at[i]].line]
  OBVIOUS
<1>3. {at[i] : i \in 1..0} = {k \in 1..0 : p[k].kind = "print"}
  OBVIOUS
<1>4. 0 \in 0..0 /\ \A i, j \in 1..0 : i < j => at[i] < at[j]
  OBVIOUS
<1> HIDE DEF at
<1> QED
  BY ONLY <1>1, <1>2, <1>3, <1>4, Zenon DEF PrintedBy

(***************************************************************************)
(* An effect that prints nothing adds nothing.                             *)
(***************************************************************************)
LEMMA PrintedQuiet ==
    ASSUME NEW p, NEW n \in Nat, NEW lines, PrintedBy(p, n, lines), p[n + 1].kind # "print"
    PROVE  PrintedBy(p, n + 1, lines)
<1>0. PICK m \in 0..n : \E at \in [1..m -> 1..n] :
          /\ \A i, j \in 1..m : i < j => at[i] < at[j]
          /\ {at[i] : i \in 1..m} = {k \in 1..n : p[k].kind = "print"}
          /\ lines = [i \in 1..m |-> p[at[i]].line]
  BY DEF PrintedBy
<1>1. PICK at \in [1..m -> 1..n] :
          /\ \A i, j \in 1..m : i < j => at[i] < at[j]
          /\ {at[i] : i \in 1..m} = {k \in 1..n : p[k].kind = "print"}
          /\ lines = [i \in 1..m |-> p[at[i]].line]
  BY <1>0
<1>2. m \in 0..(n + 1) /\ at \in [1..m -> 1..(n + 1)]
  BY <1>1
<1>3. {k \in 1..(n + 1) : p[k].kind = "print"} = {k \in 1..n : p[k].kind = "print"}
  <2>1. \A k \in 1..(n + 1) : k \in 1..n \/ k = n + 1
    OBVIOUS
  <2>2. \A k \in 1..n : k \in 1..(n + 1)
    OBVIOUS
  <2> QED
    BY <2>1, <2>2
<1> QED
  BY ONLY <1>1, <1>2, <1>3, Zenon DEF PrintedBy

(***************************************************************************)
(* An effect that prints adds its line at the end.                         *)
(***************************************************************************)
LEMMA PrintedLine ==
    ASSUME NEW p, NEW n \in Nat, NEW lines, PrintedBy(p, n, lines), p[n + 1].kind = "print"
    PROVE  PrintedBy(p, n + 1, Append(lines, p[n + 1].line))
<1>0. PICK m \in 0..n : \E at \in [1..m -> 1..n] :
          /\ \A i, j \in 1..m : i < j => at[i] < at[j]
          /\ {at[i] : i \in 1..m} = {k \in 1..n : p[k].kind = "print"}
          /\ lines = [i \in 1..m |-> p[at[i]].line]
  BY DEF PrintedBy
<1>1. PICK at \in [1..m -> 1..n] :
          /\ \A i, j \in 1..m : i < j => at[i] < at[j]
          /\ {at[i] : i \in 1..m} = {k \in 1..n : p[k].kind = "print"}
          /\ lines = [i \in 1..m |-> p[at[i]].line]
  BY <1>0
<1> DEFINE to == [i \in 1..(m + 1) |-> IF i <= m THEN at[i] ELSE n + 1]
<1>2. m \in Nat /\ m + 1 \in 0..(n + 1)
  BY <1>1
<1>3. \A i \in 1..m : i \in 1..(m + 1) /\ i <= m /\ at[i] \in 1..n
  BY <1>1, <1>2
<1>4. \A i \in 1..(m + 1) : i \in 1..m \/ i = m + 1
  BY <1>2
<1>5. m + 1 \in 1..(m + 1) /\ ~(m + 1 <= m)
  BY <1>2
<1>6. /\ \A i \in 1..m : to[i] = at[i]
      /\ to[m + 1] = n + 1
  BY <1>3, <1>5
<1>7. to \in [1..(m + 1) -> 1..(n + 1)]
  BY <1>3, <1>4, <1>5
<1> HIDE DEF to
<1>8. ASSUME NEW i \in 1..(m + 1), NEW j \in 1..(m + 1), i < j PROVE to[i] < to[j]
  <2>1. i \in 1..m
    BY <1>2, <1>8
  <2>2. CASE j \in 1..m
    BY <1>1, <1>6, <1>8, <2>1, <2>2
  <2>3. CASE j = m + 1
    BY <1>3, <1>6, <2>1, <2>3
  <2> QED
    BY <1>4, <2>2, <2>3
<1>9. {to[i] : i \in 1..(m + 1)} = {k \in 1..(n + 1) : p[k].kind = "print"}
  <2>1. ASSUME NEW i \in 1..(m + 1) PROVE to[i] \in 1..(n + 1) /\ p[to[i]].kind = "print"
    <3>1. CASE i \in 1..m
      BY <1>1, <1>6, <1>7, <3>1
    <3>2. CASE i = m + 1
      BY <1>6, <3>2
    <3> QED
      BY <1>4, <3>1, <3>2
  <2>2. ASSUME NEW k \in 1..(n + 1), p[k].kind = "print" PROVE \E i \in 1..(m + 1) : to[i] = k
    <3>1. CASE k = n + 1
      BY <1>5, <1>6, <3>1
    <3>2. CASE k \in 1..n
      <4>1. PICK i \in 1..m : at[i] = k
        BY <1>1, <2>2, <3>2
      <4> QED
        BY <1>3, <1>6, <4>1
    <3>3. k \in 1..n \/ k = n + 1
      OBVIOUS
    <3> QED
      BY <3>1, <3>2, <3>3
  <2> QED
    BY <2>1, <2>2
<1>10. Append(lines, p[n + 1].line) = [i \in 1..(m + 1) |-> p[to[i]].line]
  <2> DEFINE S == {p[at[i]].line : i \in 1..m} \cup {p[n + 1].line}
             new == [i \in 1..(m + 1) |-> p[to[i]].line]
  <2>1. \A i \in 1..m : lines[i] \in S /\ lines[i] = p[to[i]].line
    BY <1>1, <1>6
  <2>2. lines = [i \in 1..m |-> lines[i]]
    BY <1>1
  <2>3. p[n + 1].line \in S /\ p[to[m + 1]].line = p[n + 1].line
    BY <1>6
  <2> HIDE DEF S
  <2>4. lines \in Seq(S) /\ Len(lines) = m
    BY <1>2, <2>1, <2>2
  <2>5. \A i \in 1..(m + 1) : p[to[i]].line \in S
    BY <1>4, <2>1, <2>3
  <2>6. new \in Seq(S) /\ Len(new) = m + 1
    BY <1>2, <2>5
  <2>7. /\ Append(lines, p[n + 1].line) \in Seq(S)
        /\ Len(Append(lines, p[n + 1].line)) = m + 1
        /\ \A i \in 1..m : Append(lines, p[n + 1].line)[i] = lines[i]
        /\ Append(lines, p[n + 1].line)[m + 1] = p[n + 1].line
    BY <1>2, <2>3, <2>4, AppendProperties
  <2>8. \A i \in 1..(m + 1) : Append(lines, p[n + 1].line)[i] = new[i]
    BY <1>4, <2>1, <2>3, <2>7
  <2> HIDE DEF new
  <2>9. Append(lines, p[n + 1].line) = new
    BY <2>6, <2>7, <2>8, SeqEqual
  <2> QED
    BY <2>9 DEF new
<1> QED
  BY <1>2, <1>7, <1>8, <1>9, <1>10 DEF PrintedBy

(***************************************************************************)
(* The JavaScript guest has run its program up to effect n.  If the next   *)
(* one prints, or does nothing to the answer, it has run it up to n + 1.   *)
(***************************************************************************)
LEMMA ReachedStep ==
    ASSUME NEW n \in 0..Len(Scripts[Asked]), Reached(n), program # <<>>
    PROVE  LET P == Scripts[Asked] IN
           /\ n + 1 \in 0..Len(P) /\ n \in Nat
           /\ Head(program) = P[n + 1]
           /\ Tail(program) = SubSeq(P, n + 2, Len(P))
           /\ Tail(program) # NotLoaded
<1> DEFINE P == Scripts[Asked]
           S == {P[i] : i \in DOMAIN P}
<1>1. Asked \in DOMAIN Scripts /\ program = SubSeq(P, n + 1, Len(P))
  BY DEF Reached
<1>2. P \in Seq(S) /\ \A i \in DOMAIN P : P[i].kind \in {"print", "queue", "throw", "exit"}
  BY <1>1, GuestsAssumption
<1>3. n \in 0..Len(P)
  OBVIOUS
<1> HIDE DEF P, S
<1>4. Len(P) \in Nat /\ n \in Nat
  BY <1>2, <1>3
<1>5. program \in Seq(S) /\ Len(program) = Len(P) - n
      /\ \A i \in 1..(Len(P) - n) : program[i] = P[n + i]
  BY <1>1, <1>2, <1>3, <1>4
<1>6. n + 1 \in 1..Len(P)
  <2>1. Len(program) # 0
    BY <1>5, EmptySeq
  <2> QED
    BY <1>3, <1>4, <1>5, <2>1
<1>7. Head(program) = P[n + 1]
  BY <1>4, <1>5, <1>6
<1>8. Tail(program) = SubSeq(P, n + 2, Len(P))
  <2>1. Tail(program) \in Seq(S) /\ Len(Tail(program)) = Len(P) - n - 1
        /\ \A i \in 1..(Len(P) - n - 1) : Tail(program)[i] = program[i + 1]
    BY <1>4, <1>5, <1>6
  <2>2. SubSeq(P, n + 2, Len(P)) \in Seq(S) /\ Len(SubSeq(P, n + 2, Len(P))) = Len(P) - n - 1
        /\ \A i \in 1..(Len(P) - n - 1) : SubSeq(P, n + 2, Len(P))[i] = P[n + 1 + i]
    BY <1>2, <1>4, <1>6
  <2>3. \A i \in 1..(Len(P) - n - 1) : i + 1 \in 1..(Len(P) - n) /\ n + (i + 1) = n + 1 + i
    BY <1>4, <1>6
  <2>4. \A i \in 1..(Len(P) - n - 1) : Tail(program)[i] = SubSeq(P, n + 2, Len(P))[i]
    BY <1>5, <2>1, <2>2, <2>3
  <2> QED
    BY <2>1, <2>2, <2>4, SeqEqual
<1>9. Tail(program) # NotLoaded
  <2> SUFFICES ASSUME Tail(program) = NotLoaded PROVE FALSE
    OBVIOUS
  <2>1. Len(NotLoaded) = 1 /\ NotLoaded[1].kind = "none"
    BY DEF NotLoaded
  <2>2. SubSeq(P, n + 2, Len(P)) = NotLoaded
    BY <1>8
  <2>3. Len(SubSeq(P, n + 2, Len(P))) = Len(P) - n - 1
    BY <1>2, <1>4, <1>6
  <2>4. n + 2 = Len(P) /\ n + 2 \in 1..Len(P)
    BY <1>4, <2>1, <2>2, <2>3
  <2>5. SubSeq(P, n + 2, Len(P))[1] = P[n + 2]
    BY <1>2, <2>4
  <2>6. DOMAIN P = 1..Len(P)
    BY <1>2
  <2> QED
    BY <1>2, <2>1, <2>2, <2>4, <2>5, <2>6
<1>10. n + 1 \in 0..Len(P)
  BY <1>4, <1>6
<1> QED
  BY <1>4, <1>7, <1>8, <1>9, <1>10 DEF P

(***************************************************************************)
(* The invariant holds when the handler is called.                         *)
(***************************************************************************)
LEMMA GuestsInitially == GuestsInit => GuestsInv
  BY RequestInitially DEF GuestsInit, GuestsInv, CgiInit

(***************************************************************************)
(* The handler's steps preserve the invariant.                             *)
(***************************************************************************)
LEMMA HostKeepsAnswers == GuestsInv /\ Host => GuestsInv'
<1> SUFFICES ASSUME GuestsInv, HostNext, UNCHANGED <<trapped, jsVars>> PROVE GuestsInv'
  BY DEF Host
<1>0. RequestInv' /\ program' = program /\ ret' = ret
  BY HostKeepsRequest DEF GuestsInv, jsVars
<1>1. ASSUME pc \in {"lookup", "body", "module"}, pc' \in {"lookup", "body", "module", "guest"},
             stdout' = stdout
      PROVE  GuestsInv'
  BY <1>0, <1>1 DEF GuestsInv
<1>2. ASSUME pc' = "dropped" PROVE GuestsInv'
  BY <1>0, <1>2 DEF GuestsInv
<1>3. CASE Search
  BY <1>1, <1>3 DEF Search, runVars
<1>4. CASE BuildVars
  BY <1>1, <1>4 DEF BuildVars, runVars
<1>5. CASE BuildVarsPanics
  BY <1>2, <1>5 DEF BuildVarsPanics, Panic
<1>6. ASSUME NEW n \in 0..request.length, FirstChunk(n) PROVE GuestsInv'
  BY <1>1, <1>6 DEF FirstChunk
<1>7. CASE BodyFails
  BY <1>2, <1>7 DEF BodyFails, Panic
<1>8. CASE StartGuest
  BY <1>1, <1>8 DEF StartGuest, runVars
<1>9. CASE StartFails
  BY <1>2, <1>9 DEF StartFails, Panic
<1>10. CASE Respond
  <2>1. /\ pc = "output" /\ pc' = "done" /\ stdout' = stdout
        /\ UNCHANGED <<lookupVars, request, vars>>
    BY <1>10 DEF Respond, runVars
  <2>2. Reading(stdout', response'.status, response'.headers, response'.body)
    <3>1. PICK s \in Codes, h \in [Names -> Values \cup {Absent}], b \in Bodies(stdout) :
              Reading(stdout, s, h, b) /\ response' = [status |-> s, headers |-> h, body |-> b]
      BY <1>10 DEF Respond
    <3>2. response'.status = s /\ response'.headers = h /\ response'.body = b
      BY <3>1
    <3> QED
      BY <2>1, <3>1, <3>2
  <2>3. /\ Candidate' = Candidate /\ Asked' = Asked /\ MarkdownLength' = MarkdownLength
        /\ HelloLines(request.method, Rest(cut))' = HelloLines(request.method, Rest(cut))
    BY <2>1, GuestsSame
  <2>4. Candidate = HelloFile => stdout' = HelloLines(request.method, Rest(cut))'
    BY <2>1, <2>3 DEF GuestsInv
  <2>5. Candidate = MarkdownFile /\ MarkdownLength > 0 => stdout' = MarkdownLines(MarkdownLength)
    BY <2>1 DEF GuestsInv
  <2>6. Candidate \in JsFiles => ret' = 0 /\ Reached(Len(Scripts[Asked]))'
    BY <1>0, <2>1, <2>3 DEF GuestsInv, Reached
  <2> QED
    BY <1>0, <2>1, <2>2, <2>3, <2>4, <2>5, <2>6 DEF GuestsInv
<1>11. CASE OutputPanics
  BY <1>2, <1>11 DEF OutputPanics, Panic
<1> QED
  BY <1>3, <1>4, <1>5, <1>6, <1>7, <1>8, <1>9, <1>10, <1>11 DEF HostNext

(***************************************************************************)
(* Every step of the shipped guests preserves the invariant.               *)
(***************************************************************************)
LEMMA GuestsPreserved == GuestsInv /\ [GuestsNext]_guestVars => GuestsInv'
<1> SUFFICES ASSUME GuestsInv, [GuestsNext]_guestVars PROVE GuestsInv'
  OBVIOUS
<1> USE DEF cgiVars
<1>0. RequestInv
  BY DEF GuestsInv
<1>1. CASE Host
  BY <1>1, HostKeepsAnswers
<1>2. ASSUME pc = "guest", GuestFails PROVE GuestsInv'
  <2>1. RequestInv' /\ pc' = "dropped"
    BY <1>0, <1>2, RequestKept DEF GuestFails, Panic
  <2> QED
    BY <2>1 DEF GuestsInv
<1>3. CASE HelloWorld
  <2>1. /\ pc = "guest" /\ pc' = "output" /\ wasm = Content(HelloFile, NumBlocks)
        /\ stdout' = HelloLines(Getenv("REQUEST_METHOD"), Getenv("PATH_INFO"))
        /\ UNCHANGED <<lookupVars, request, vars, program, ret>>
    BY <1>3 DEF HelloWorld, Runs, Prints, jsVars
  <2>2. RequestInv'
    BY <1>0, <2>1, RequestKept
  <2>3. Candidate = HelloFile /\ Candidate' = Candidate
    BY <1>0, <2>1, CandidateRuns, GuestsSame
  <2>4. stdout' = HelloLines(request.method, Rest(cut))'
    BY <1>0, <2>1, GuestEnvironment, GuestsSame
  <2> QED
    BY <2>1, <2>2, <2>3, <2>4, GuestsAssumption, AnswersAtOutput
<1>4. CASE MarkdownConvert
  <2>1. /\ pc = "guest" /\ pc' = "output" /\ wasm = Content(MarkdownFile, NumBlocks)
        /\ stdout' = MarkdownLines(MarkdownLength)
        /\ UNCHANGED <<lookupVars, request, vars, program, ret>>
    BY <1>4 DEF MarkdownConvert, Runs, Prints, jsVars, MarkdownLines
  <2>2. RequestInv'
    BY <1>0, <2>1, RequestKept
  <2>3. Candidate = MarkdownFile /\ Candidate' = Candidate /\ MarkdownLength' = MarkdownLength
    BY <1>0, <2>1, CandidateRuns, GuestsSame
  <2> QED
    BY <2>1, <2>2, <2>3, GuestsAssumption, AnswersAtOutput
<1>5. CASE MarkdownNothing
  <2>1. /\ pc = "guest" /\ pc' = "output" /\ wasm = Content(MarkdownFile, NumBlocks)
        /\ MarkdownLength = 0
        /\ UNCHANGED <<lookupVars, request, vars, program, ret>>
    BY <1>5 DEF MarkdownNothing, Runs, Prints, jsVars
  <2>2. RequestInv'
    BY <1>0, <2>1, RequestKept
  <2>3. Candidate = MarkdownFile /\ Candidate' = Candidate /\ MarkdownLength' = 0
    BY <1>0, <2>1, CandidateRuns, GuestsSame
  <2>4. Candidate' # HelloFile /\ Candidate' \notin JsFiles
    BY <2>3, GuestsAssumption
  <2>5. ~(MarkdownLength' > 0)
    BY <2>3
  <2> QED
    BY <2>1, <2>2, <2>4, <2>5, AnswersAtOutput, ZenonT(60)
<1>6. CASE MarkdownTraps
  BY <1>2, <1>6 DEF MarkdownTraps, Runs
<1>7. CASE LoadFails
  BY <1>2, <1>7 DEF LoadFails, RunsJs, Runs
<1>8. CASE JsExit
  BY <1>2, <1>8 DEF JsExit, Effect, RunsJs, Runs
<1>9. CASE JsReturnsError
  BY <1>2, <1>9 DEF JsReturnsError, RunsJs, Runs
<1>10. ASSUME RunsJs PROVE pc = "guest" /\ Candidate \in JsFiles
  BY <1>0, <1>10, CandidateRuns DEF RunsJs, Runs
<1>11. CASE Load
  <2>1. /\ pc = "guest" /\ pc' = "guest" /\ program = NotLoaded /\ ret' = ret /\ stdout' = stdout
        /\ UNCHANGED <<lookupVars, request, vars>>
        /\ cwd' = PathParent(Getenv("SCRIPT_NAME"))
        /\ (cwd' \o Getenv("PATH_INFO")) \in DOMAIN Scripts
        /\ program' = Scripts[cwd' \o Getenv("PATH_INFO")]
    BY <1>10, <1>11 DEF Load
  <2>2. RequestInv' /\ stdout' = <<>> /\ ret' = 0
    BY <1>0, <2>1, RequestKept DEF GuestsInv
  <2>3. cwd' \o Getenv("PATH_INFO") = Asked /\ Asked' = Asked
    BY <1>0, <2>1, GuestEnvironment, GuestsSame DEF Asked
  <2> DEFINE P == Scripts[Asked]
             S == {P[i] : i \in DOMAIN P}
  <2>4. P \in Seq(S) /\ program' = P
    BY <2>1, <2>3, GuestsAssumption
  <2>5. SubSeq(P, 0 + 1, Len(P)) = P
    <3> HIDE DEF P, S
    <3>1. SubSeq(P, 1, Len(P)) = P
      BY <2>4, SubSeqFull
    <3> QED
      BY <3>1
  <2>6. NoThrow(P, 0)
    BY DEF NoThrow
  <2>7. PrintedBy(P, 0, stdout')
    BY <2>2, PrintedNone
  <2>8. Reached(0)'
    BY <2>1, <2>3, <2>4, <2>5, <2>6, <2>7 DEF Reached
  <2>9. 0 \in 0..Len(Scripts[Asked'])
    <3> HIDE DEF S
    <3>1. Len(P) \in Nat
      BY <2>4
    <3> QED
      BY <2>3, <3>1
  <2> QED
    BY <2>1, <2>2, <2>3, <2>8, <2>9 DEF GuestsInv
<1>12. ASSUME RunsJs, program \notin {NotLoaded, <<>>},
              pc' = pc, ret' = ret, program' = Tail(program),
              UNCHANGED <<lookupVars, request, vars>>,
              Head(program).kind \notin {"throw", "exit"},
              IF Head(program).kind = "print" THEN stdout' = Append(stdout, Head(program).line)
                                              ELSE stdout' = stdout
       PROVE  GuestsInv'
  <2>1. RequestInv' /\ pc = "guest" /\ ret = 0 /\ Asked' = Asked
    BY <1>0, <1>10, <1>12, RequestKept, GuestsSame DEF GuestsInv
  <2> DEFINE P == Scripts[Asked]
  <2>2. PICK n \in 0..Len(P) : Reached(n)
    BY <1>12, <2>1 DEF GuestsInv
  <2>3. /\ n + 1 \in 0..Len(P) /\ n \in Nat /\ Head(program) = P[n + 1]
        /\ Tail(program) = SubSeq(P, n + 2, Len(P)) /\ Tail(program) # NotLoaded
    BY <1>12, <2>2, ReachedStep
  <2>4. Asked \in DOMAIN Scripts /\ NoThrow(P, n) /\ PrintedBy(P, n, stdout)
    BY <2>2 DEF Reached
  <2> HIDE DEF P
  <2>5. PrintedBy(P, n + 1, stdout')
    <3>1. CASE P[n + 1].kind = "print"
      BY <1>12, <2>3, <2>4, <3>1, PrintedLine
    <3>2. CASE P[n + 1].kind # "print"
      BY <1>12, <2>3, <2>4, <3>2, PrintedQuiet
    <3> QED
      BY <3>1, <3>2
  <2>6. NoThrow(P, n + 1)
    <3>1. \A i \in 1..(n + 1) : i \in 1..n \/ i = n + 1
      BY <2>3
    <3> QED
      BY <1>12, <2>3, <2>4, <3>1 DEF NoThrow
  <2>7. (n + 1) + 1 = n + 2
    BY <2>3
  <2>8. program' = SubSeq(P, (n + 1) + 1, Len(P))
    BY <1>12, <2>3, <2>7
  <2>9. Reached(n + 1)'
    BY <2>1, <2>4, <2>5, <2>6, <2>8 DEF Reached, P
  <2>10. n + 1 \in 0..Len(Scripts[Asked'])
    BY <2>1, <2>3 DEF P
  <2> QED
    BY <1>12, <2>1, <2>3, <2>9, <2>10 DEF GuestsInv
<1>13. CASE JsPrint
  BY <1>12, <1>13 DEF JsPrint, Effect
<1>14. CASE JsQueue
  BY <1>12, <1>14 DEF JsQueue, Effect
<1>15. CASE JsThrow
  <2>1. /\ pc = "guest" /\ pc' = pc /\ program' = <<>> /\ ret' = -1
        /\ UNCHANGED <<lookupVars, request, vars>>
    BY <1>10, <1>15 DEF JsThrow, Effect
  <2>2. RequestInv' /\ <<>> # NotLoaded
    BY <1>0, <2>1, RequestKept DEF NotLoaded
  <2> QED
    BY <2>1, <2>2, AnswersAfterThrow
<1>16. CASE JsReturns
  <2>1. /\ pc = "guest" /\ pc' = "output" /\ program = <<>> /\ ret = 0 /\ Candidate \in JsFiles
        /\ UNCHANGED <<lookupVars, request, vars, stdout, program, ret>>
    BY <1>10, <1>16 DEF JsReturns, GuestReturns, jsVars, runVars
  <2>2. RequestInv' /\ <<>> # NotLoaded /\ Candidate' = Candidate /\ Asked' = Asked
    BY <1>0, <2>1, RequestKept, GuestsSame DEF NotLoaded
  <2> DEFINE P == Scripts[Asked]
             S == {P[i] : i \in DOMAIN P}
  <2>3. PICK n \in 0..Len(P) : Reached(n)
    BY <2>1, <2>2 DEF GuestsInv
  <2>4. n = Len(P)
    <3>1. P \in Seq(S) /\ SubSeq(P, n + 1, Len(P)) = <<>>
      BY <2>1, <2>3, GuestsAssumption DEF Reached
    <3>2. n \in 0..Len(P)
      OBVIOUS
    <3> HIDE DEF P, S
    <3>3. Len(SubSeq(P, n + 1, Len(P))) = Len(P) - n /\ Len(P) \in Nat
      BY <3>1, <3>2
    <3> QED
      BY <3>1, <3>2, <3>3
  <2>5. Reached(Len(Scripts[Asked]))'
    BY <2>1, <2>2, <2>3, <2>4 DEF Reached
  <2> QED
    BY <2>1, <2>2, <2>5, GuestsAssumption DEF GuestsInv
<1>17. CASE UNCHANGED guestVars
  <2>1. UNCHANGED <<lookupVars, request, vars, pc, stdout, program, ret, response>>
    BY <1>17 DEF guestVars, jsVars
  <2>2. /\ RequestInv' /\ Candidate' = Candidate /\ Asked' = Asked /\ MarkdownLength' = MarkdownLength
        /\ HelloLines(request.method, Rest(cut))' = HelloLines(request.method, Rest(cut))
    BY <1>0, <2>1, RequestKept, GuestsSame
  <2>3. \A n : Reached(n) <=> Reached(n)'
    BY <2>1, <2>2 DEF Reached
  <2> QED
    BY <2>1, <2>2, <2>3 DEF GuestsInv
<1> QED
  BY <1>1, <1>3, <1>4, <1>5, <1>6, <1>7, <1>8, <1>9, <1>11, <1>13, <1>14, <1>15, <1>16, <1>17
     DEF GuestsNext

(***************************************************************************)
(* The first header of a name is what the guest's `getenv` finds.          *)
(***************************************************************************)
LEMMA AgentFound ==
    ASSUME RequestInv, pc \in {"guest", "output", "done"}
    PROVE  FirstAgent = IF Getenv("HTTP_USER_AGENT") = Null THEN "User" ELSE Getenv("HTTP_USER_AGENT")
<1> DEFINE agents == {i \in DOMAIN request.headers : request.headers[i][1] = "user_agent"}
           first == CHOOSE i \in agents : \A j \in agents : i <= j
<1>1. request \in Requests /\ DOMAIN request.headers = 1..Len(request.headers)
      /\ Len(request.headers) \in Nat
  BY CgiAssumption DEF RequestInv
<1>2. "user_agent" \in DOMAIN EnvName /\ EnvName["user_agent"] = "HTTP_USER_AGENT"
  BY DEF EnvName
<1>3. CASE agents = {}
  <2>1. Getenv("HTTP_USER_AGENT") = Null
    BY <1>2, <1>3, GuestHeader
  <2> QED
    BY <1>3, <2>1 DEF FirstAgent
<1>4. CASE agents # {}
  <2>1. agents \in SUBSET Nat
    BY <1>1
  <2>2. \E i \in agents : \A j \in agents : i <= j
    BY <1>4, <2>1, Least
  <2>3. first \in agents /\ \A j \in agents : first <= j
    BY <2>2
  <2>4. first \in DOMAIN request.headers /\ request.headers[first][1] = "user_agent"
    BY <2>3
  <2>5. \A j \in 1..(first - 1) : request.headers[j][1] # "user_agent"
    <3> SUFFICES ASSUME NEW j \in 1..(first - 1), request.headers[j][1] = "user_agent" PROVE FALSE
      OBVIOUS
    <3>1. first \in 1..Len(request.headers)
      BY <1>1, <2>4
    <3> HIDE DEF first
    <3>2. j \in 1..Len(request.headers) /\ j < first
      BY <1>1, <3>1
    <3>3. j \in agents
      BY <1>1, <3>2
    <3> QED
      BY <2>3, <3>1, <3>2, <3>3
  <2>6. Getenv("HTTP_USER_AGENT") = request.headers[first][2]
    BY <1>2, <2>4, <2>5, GuestHeader
  <2>7. request.headers[first][2] # Null
    BY <1>1, <2>4, GuestsAssumption
  <2> QED
    BY <1>4, <2>6, <2>7 DEF FirstAgent
<1> QED
  BY <1>3, <1>4

(***************************************************************************)
(* What follows the same prefix is the same.                               *)
(***************************************************************************)
LEMMA SamePrefix ==
    ASSUME NEW S, NEW n \in Seq(S), NEW r \in Seq(S), NEW x \in Seq(S), n \o r = n \o x
    PROVE  r = x
<1>1. Len(n \o r) = Len(n) + Len(r) /\ Len(n \o x) = Len(n) + Len(x)
  BY ConcatProperties
<1>2. Len(r) = Len(x) /\ Len(r) \in Nat /\ Len(n) \in Nat
  BY <1>1
<1>3. ASSUME NEW i \in 1..Len(r) PROVE r[i] = x[i]
  <2>1. Len(n) + i \in 1..(Len(n) + Len(r)) /\ ~(Len(n) + i <= Len(n)) /\ (Len(n) + i) - Len(n) = i
    BY <1>2
  <2>2. (n \o r)[Len(n) + i] = r[i] /\ (n \o x)[Len(n) + i] = x[i]
    BY <1>2, <2>1
  <2> QED
    BY <2>2
<1> QED
  BY <1>2, <1>3, SeqEqual

(***************************************************************************)
(* The request path ends in two symbols after the script's name exactly    *)
(* when those are PATH_INFO.                                               *)
(***************************************************************************)
LEMMA PathEnds ==
    ASSUME target \in Paths, cut \in Cuts, NEW word
    PROVE  target = <<Slash>> \o Name(cut) \o <<Slash, word>> <=> Rest(cut) = <<Slash, word>>
<1> DEFINE N == <<Slash>> \o Name(cut)
           R == Rest(cut)
           X == <<Slash, word>>
           S == Symbols \cup {word}
<1>1. N \o R = target
  BY SplitLosesNothing DEF SplitRecombines
<1>2. path \in Seq(Symbols) /\ Len(path) \in Nat /\ cut \in 1..(Len(path) + 1) /\ Slash \in Symbols
  BY PathFacts
<1>3. Name(cut) \in Seq(Symbols) /\ R \in Seq(Symbols)
  BY <1>2 DEF Name, Rest
<1>4. Name(cut) \in Seq(S) /\ R \in Seq(S)
  BY <1>3
<1>5. N \in Seq(S) /\ X \in Seq(S)
  BY <1>2, <1>4
<1> HIDE DEF N, R, X, S
<1>6. N \o R = N \o X <=> R = X
  BY <1>4, <1>5, SamePrefix
<1> QED
  BY <1>1, <1>6 DEF N, R, X

(***************************************************************************)
(* The invariant gives the answers of hello_world.                         *)
(***************************************************************************)
LEMMA InvariantHello == GuestsInv => HelloAnswers
<1> SUFFICES ASSUME GuestsInv, pc = "done", wasm = Content(HelloFile, NumBlocks)
             PROVE  HelloAnswers
  BY DEF HelloAnswers
<1>1. RequestInv /\ target \in Paths /\ cut \in Cuts
  BY DEF GuestsInv, RequestInv, LookupInv, LookupTypeOK
<1>2. Candidate = HelloFile
  BY <1>1, CandidateRuns
<1>3. Reading(HelloLines(request.method, Rest(cut)), response.status, response.headers, response.body)
  BY <1>2 DEF GuestsInv
<1>4. \A g : Greeting(g) = <<TextLine(<<g, FirstAgent>>)>>
  BY <1>1, AgentFound DEF Greeting
<1>5. ASSUME request.method # "GET" PROVE response.status = 405
  <2>1. HelloLines(request.method, Rest(cut)) = <<StatusLine(405), Blank, TextLine(<<"Method Not Allowed">>)>>
    BY <1>5 DEF HelloLines
  <2>2. Reading(<<StatusLine(405), Blank, TextLine(<<"Method Not Allowed">>)>>,
                response.status, response.headers, response.body)
    BY <1>3, <2>1, Zenon
  <2> QED
    BY <2>2, ReadingStatus, ZenonT(60)
<1>6. ASSUME NEW g, HelloLines(request.method, Rest(cut)) = Greeting(g)
      PROVE  response.status = Ok /\ response.body = <<TextLine(<<g, FirstAgent>>)>>
  BY <1>3, <1>4, <1>6, ReadingOneLine
<1>7. ASSUME request.method = "GET", Rest(cut) # <<Slash, "hello">>, Rest(cut) # <<Slash, "goodbye">>
      PROVE  response.status = 404
  <2>1. HelloLines(request.method, Rest(cut)) = <<StatusLine(404), Blank, TextLine(<<"Not Found">>)>>
    BY <1>7 DEF HelloLines
  <2>2. Reading(<<StatusLine(404), Blank, TextLine(<<"Not Found">>)>>,
                response.status, response.headers, response.body)
    BY <1>3, <2>1, Zenon
  <2> QED
    BY <2>2, ReadingStatus, ZenonT(60)
<1>8. \A word : target = <<Slash>> \o Name(cut) \o <<Slash, word>> <=> Rest(cut) = <<Slash, word>>
  BY <1>1, PathEnds
<1>9. ASSUME request.method = "GET", Rest(cut) = <<Slash, "hello">>
      PROVE  response.status = Ok /\ response.body = <<TextLine(<<"Hello", FirstAgent>>)>>
  <2>1. HelloLines(request.method, Rest(cut)) = Greeting("Hello")
    BY <1>9 DEF HelloLines
  <2> QED
    BY <1>6, <2>1
<1>10. ASSUME request.method = "GET", Rest(cut) # <<Slash, "hello">>, Rest(cut) = <<Slash, "goodbye">>
       PROVE  response.status = Ok /\ response.body = <<TextLine(<<"Goodbye", FirstAgent>>)>>
  <2>1. HelloLines(request.method, Rest(cut)) = Greeting("Goodbye")
    BY <1>10 DEF HelloLines
  <2> QED
    BY <1>6, <2>1
<1>11. /\ target = <<Slash>> \o Name(cut) \o <<Slash, "hello">> <=> Rest(cut) = <<Slash, "hello">>
       /\ target = <<Slash>> \o Name(cut) \o <<Slash, "goodbye">> <=> Rest(cut) = <<Slash, "goodbye">>
  BY <1>8
<1> QED
  BY ONLY <1>5, <1>7, <1>9, <1>10, <1>11 DEF HelloAnswers

(***************************************************************************)
(* ... and those of markdown.                                              *)
(***************************************************************************)
LEMMA InvariantMarkdown == GuestsInv => NoPartialConversion
<1> SUFFICES ASSUME GuestsInv, pc = "done", wasm = Content(MarkdownFile, NumBlocks),
                    request.framing = "length", request.length > 0
             PROVE  response.body = <<HtmlOf(request.length)>>
  BY DEF NoPartialConversion
<1>1. RequestInv /\ request \in Requests
  BY DEF GuestsInv, RequestInv
<1>2. Candidate = MarkdownFile
  BY <1>1, CandidateRuns
<1>3. PICK i \in DOMAIN request.headers :
          /\ request.headers[i][1] = "content_length" /\ request.headers[i][2] = request.length
          /\ \A j \in 1..(i - 1) : request.headers[j][1] # "content_length"
  BY <1>1, CgiAssumption
<1>4. "content_length" \in DOMAIN EnvName /\ EnvName["content_length"] = "CONTENT_LENGTH"
  BY DEF EnvName
<1>5. Getenv("CONTENT_LENGTH") = request.length /\ request.length # Null
  BY <1>1, <1>3, <1>4, GuestHeader, GuestsAssumption
<1>6. MarkdownLength = request.length
  BY <1>5 DEF MarkdownLength
<1>7. Reading(MarkdownLines(request.length), response.status, response.headers, response.body)
  BY <1>2, <1>6 DEF GuestsInv
<1> QED
  BY <1>7, ReadingMarkdown

(***************************************************************************)
(* The directory that js.c changes to is the one beside which the client   *)
(* asked for a file.                                                       *)
(***************************************************************************)
LEMMA ParentIsBeside ==
    ASSUME target \in Paths, tree \in Trees, cut \in Cuts, Candidate \in JsFiles
    PROVE  PathParent(<<Slash>> \o Name(cut)) = Beside
<1> DEFINE M == Name(cut)
           N == <<Slash>> \o M
           k == Len(M)
           R == Rest(cut)
<1>1. path \in Seq(Symbols) /\ Len(path) \in Nat /\ cut \in 1..(Len(path) + 1) /\ Slash \in Symbols
      /\ target \in Seq(Symbols) /\ Len(path) = Len(target) - 1 /\ path = Tail(target)
  BY PathFacts
<1>2. M \in Seq(Symbols) /\ R \in Seq(Symbols) /\ k \in Nat /\ Len(R) \in Nat
  BY <1>1 DEF Name, Rest
<1>3. N \o R = target
  BY SplitLosesNothing DEF SplitRecombines
<1>4. M \in DOMAIN tree
  <2>1. cut - 1 \in 0..(Len(target) - 1)
    BY <1>1
  <2>2. M = SubSeq(Tail(target), 1, cut - 1)
    BY <1>1 DEF Name
  <2> QED
    BY <2>1, <2>2, LookupAssumption
<1>5. k > 0 /\ M[k] # Slash /\ (k > 1 => M[k - 1] = Slash)
  BY <1>4, GuestsAssumption DEF Candidate
<1> HIDE DEF M, R, k
<1>6. N \in Seq(Symbols) /\ Len(N) = k + 1 /\ N[1] = Slash /\ \A i \in 1..k : N[i + 1] = M[i]
  BY <1>1, <1>2 DEF k
<1> HIDE DEF N
<1>7. N[k + 1] # Slash
  <2>1. k \in 1..k
    BY <1>2, <1>5
  <2> QED
    BY <1>5, <1>6, <2>1
<1>8. N[k] = Slash
  <2>1. CASE k = 1
    BY <1>6, <2>1
  <2>2. CASE k > 1
    <3>1. k - 1 \in 1..k /\ (k - 1) + 1 = k
      BY <1>2, <2>2
    <3> QED
      BY <1>5, <1>6, <2>2, <3>1
  <2> QED
    BY <1>2, <1>5, <2>1, <2>2
<1> DEFINE seps == {i \in DOMAIN N : N[i] = Slash}
           last == CHOOSE i \in seps : \A j \in seps : j <= i
<1>9. k \in seps /\ \A j \in seps : j <= k /\ j \in Nat
  <2>1. DOMAIN N = 1..(k + 1)
    BY <1>2, <1>6
  <2>2. k \in 1..(k + 1)
    BY <1>2, <1>5
  <2>3. \A j \in 1..(k + 1) : j # k + 1 => j <= k
    BY <1>2
  <2> QED
    BY <1>2, <1>7, <1>8, <2>1, <2>2, <2>3
<1>10. last = k
  <2>1. last \in seps /\ \A j \in seps : j <= last
    BY <1>9
  <2> QED
    BY <1>2, <1>9, <2>1
<1>11. PathParent(N) = SubSeq(N, 1, k - 1)
  BY <1>9, <1>10 DEF PathParent
<1>12. Len(target) = (k + 1) + Len(R)
  <2>1. Len(N \o R) = Len(N) + Len(R)
    BY <1>2, <1>6, ConcatProperties, Zenon
  <2> QED
    BY <1>3, <1>6, <2>1
<1>13. Beside = SubSeq(target, 1, k - 1)
  <2>2. Len(target) - Len(R) - 2 = k - 1
    BY <1>2, <1>12
  <2> QED
    BY <2>2 DEF Beside, R
<1>14. SubSeq(N, 1, k - 1) = SubSeq(target, 1, k - 1)
  <2>1. \A i \in 1..(k - 1) : i \in 1..(k + 1) /\ target[i] = N[i]
    <3>1. \A i \in 1..(k - 1) : i \in 1..(k + 1)
      BY <1>2
    <3> QED
      BY <1>2, <1>3, <1>6, <3>1, SMTT(30)
  <2>3. SubSeq(N, 1, k - 1) \in Seq(Symbols) /\ Len(SubSeq(N, 1, k - 1)) = k - 1
        /\ \A i \in 1..(k - 1) : SubSeq(N, 1, k - 1)[i] = N[i]
    BY <1>2, <1>5, <1>6
  <2>4. SubSeq(target, 1, k - 1) \in Seq(Symbols) /\ Len(SubSeq(target, 1, k - 1)) = k - 1
        /\ \A i \in 1..(k - 1) : SubSeq(target, 1, k - 1)[i] = target[i]
    BY <1>1, <1>2, <1>5, <1>12
  <2>5. \A i \in 1..(k - 1) : SubSeq(N, 1, k - 1)[i] = SubSeq(target, 1, k - 1)[i]
    BY <2>1, <2>3, <2>4
  <2> QED
    BY <2>3, <2>4, <2>5, SeqEqual
<1> QED
  BY <1>11, <1>13, <1>14 DEF N, M

(***************************************************************************)
(* ... and those of the JavaScript guest.                                  *)
(***************************************************************************)
LEMMA InvariantJs == GuestsInv => JsAnswers
<1> SUFFICES ASSUME GuestsInv, pc = "done", Candidate \in JsFiles
             PROVE  JsAnswers
  BY DEF JsAnswers
<1>1. Beside \o Rest(cut) = Asked
  BY ParentIsBeside DEF Asked, GuestsInv, RequestInv, LookupInv, LookupTypeOK
<1>2. /\ Asked \in DOMAIN Scripts
      /\ NoThrow(Scripts[Asked], Len(Scripts[Asked]))
      /\ PrintedBy(Scripts[Asked], Len(Scripts[Asked]), stdout)
  BY DEF GuestsInv, Reached
<1>3. Reading(stdout, response.status, response.headers, response.body)
  BY DEF GuestsInv
<1> QED
  BY <1>1, <1>2, <1>3 DEF JsAnswers

(***************************************************************************)
(* The invariant holds for every request to the shipped guests.            *)
(***************************************************************************)
THEOREM GuestsInvariant == GuestsSpec => []GuestsInv
  BY GuestsInitially, GuestsPreserved, PTL DEF GuestsSpec

(***************************************************************************)
(* For every request, path, file tree and split of the body into chunks,   *)
(* the clients of hello_world and of the JavaScript guest get the answers  *)
(* their programs mean.                                                    *)
(***************************************************************************)
THEOREM ShippedGuestsAnswer == GuestsSpec => []ShippedAnswers
<1>1. GuestsInv => ShippedAnswers
  BY InvariantHello, InvariantJs DEF ShippedAnswers
<1> QED
  BY <1>1, GuestsInvariant, PTL

(***************************************************************************)
(* However the body is split into chunks, and for documents of any length, *)
(* no answer of the markdown guest is made from part of a document.        *)
(***************************************************************************)
THEOREM MarkdownAllOrNothing == GuestsSpec => []NoPartialConversion
  BY InvariantMarkdown, GuestsInvariant, PTL

(***************************************************************************)
(* The shipped guests, too, are told the truth about their requests.       *)
(***************************************************************************)
THEOREM ShippedGuestsSeeTheirRequests == GuestsSpec => []GuestSeesItsRequest
<1>1. GuestsInv => GuestSeesItsRequest
  BY InvariantTellsGuest DEF GuestsInv
<1> QED
  BY <1>1, GuestsInvariant, PTL
=============================================================================
