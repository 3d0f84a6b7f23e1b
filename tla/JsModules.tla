------------------------------ MODULE JsModules ------------------------------
(***************************************************************************)
(* Modules of QuickJS (quickjs.c): a module is compiled and its requests   *)
(* loaded (resolve), the variables of all are made (create), imports are   *)
(* bound to the variables of their exporters (link) and the bodies run     *)
(* (evaluate).  Each pass walks a graph that may have cycles.  An import() *)
(* is a job that does all four, and what failed stays behind, or is freed. *)
(*                                                                         *)
(* Module definitions are freed by hand, so they are memory here: a        *)
(* pointer to one that was freed, or to a variable not made yet, may be    *)
(* followed.  What happens then is undefined: `ub' ends the behaviour.     *)
(***************************************************************************)
EXTENDS Integers, Sequences, SequencesExt, FiniteSets

CONSTANTS Names,      \* module names
          Exports,    \* export names
          Graphs,     \* the sets of files: for each name its source
          Missing, Bad, \* sets of modules: that cannot be loaded, whose bodies throw
          MaxImports  \* bound: calls of import()

\* A source: [req     : the modules it names, without repetition,
\*            exports : for each export name [k, local, from], where k is "none",
\*                      "local" (a variable), "indirect" (a name of another module)
\*                      or "ns" (the namespace of another module),
\*            stars   : the modules of its `export *',
\*            imports : a sequence of [var, name, from]; the name "*" is the namespace]
VARIABLES files,
          st,    \* the context, see Ctx
          last,  \* the last import: [name, h, err]
          imports

Null == <<0, "null">>
NoNs == [x \in Exports |-> Null]
Ctx == [mem |-> <<>>, loaded |-> <<>>, missing |-> {}, bad |-> {}, ub |-> FALSE, err |-> "", ran |-> <<>>]

Init ==
    /\ files \in Graphs
    /\ st = Ctx
    /\ last = [name |-> "", h |-> 0, err |-> ""]
    /\ imports = 0

Src(S, h) == files[S.mem[h].name]
Failed(S) == S.err # "" \/ S.ub
Fail(S, e) == [S EXCEPT !.err = e]
Undefined(S) == [S EXCEPT !.ub = TRUE]
Index(s, x) == CHOOSE i \in DOMAIN s : s[i] = x
Dead(S, h) == h = 0 \/ ~S.mem[h].alive
\* the definition a request of h for the module named n points to
Requested(S, h, n) == S.mem[h].req[Index(Src(S, h).req, n)]

\* `js_new_module_def'
NewModule(S, n) ==
    [S EXCEPT !.mem = Append(@, [name |-> n, alive |-> TRUE, req |-> [i \in DOMAIN files[n].req |-> 0],
                                 resolved |-> FALSE, created |-> FALSE, instantiated |-> FALSE,
                                 evaluated |-> FALSE, mark |-> FALSE, exc |-> "",
                                 vars |-> <<>>, exvars |-> NoNs, ns |-> NoNs, hasNs |-> FALSE]),
              !.loaded = Append(@, Len(S.mem) + 1)]

\* `js_free_module_def'
FreeModule(S, h) ==
    [S EXCEPT !.mem[h].alive = FALSE, !.loaded = SelectSeq(@, LAMBDA x : x # h)]

\* `js_find_loaded_module'
FindLoaded(S, n) == SelectSeq(S.loaded, LAMBDA h : S.mem[h].name = n)

\* `js_free_modules' of the modules that are not "resolved", or not "evaluated"
FreeModules(S, flag) ==
    FoldLeft(LAMBDA s, h : IF ~s.mem[h][flag] THEN FreeModule(s, h) ELSE s, S, S.loaded)

-----------------------------------------------------------------------------
(* Loading.  A file that is missing now, or does not compile, may be there   *)
(* at the next import.                                                       *)

RECURSIVE HostResolve(_, _), ResolveModule(_, _)

KeptIfResolved(S, h) == IF Failed(S) THEN [s |-> FreeModule(S, h), h |-> 0] ELSE [s |-> S, h |-> h]

\* `js_host_resolve_imported_module': the definition, or 0.  The loader compiles
\* the file, which resolves it, and frees the definition when that fails.
HostResolve(S, n) ==
    IF FindLoaded(S, n) # <<>> THEN [s |-> S, h |-> Head(FindLoaded(S, n))]
    ELSE IF n \in S.missing THEN [s |-> Fail(S, "load"), h |-> 0]
    ELSE LET new == NewModule(S, n)
             h   == Len(new.mem)
         IN  KeptIfResolved(ResolveModule(new, h), h)

\* request i of h answered by r
FollowRequest(r, h, i) ==
    IF r.h = 0 THEN r.s ELSE ResolveModule([r.s EXCEPT !.mem[h].req[i] = r.h], r.h)

\* `js_resolve_module'
ResolveModule(S, h) ==
    IF Dead(S, h) THEN Undefined(S)
    ELSE IF S.mem[h].resolved THEN S
    ELSE FoldLeft(LAMBDA s, i :
                    IF Failed(s) THEN s ELSE FollowRequest(HostResolve(s, Src(S, h).req[i]), h, i),
                  [S EXCEPT !.mem[h].resolved = TRUE],
                  [i \in DOMAIN Src(S, h).req |-> i])

-----------------------------------------------------------------------------
(* Exports.                                                                  *)

RECURSIVE ResolveExport1(_, _, _, _)

Result(k, h, e, seen, ub) == [k |-> k, h |-> h, e |-> e, seen |-> seen, ub |-> ub]
NoEntry == [k |-> "none", local |-> "", from |-> ""]

\* the loop over the star exports: what it found so far, and one more result
Merge(acc, r) ==
    CASE r.k = "ambiguous" -> r
      [] r.k = "found" /\ acc.k # "found" -> r
      [] r.k = "found" /\ (acc.h # r.h \/ acc.e.local # r.e.local) ->
            Result("ambiguous", 0, NoEntry, r.seen, r.ub)
      [] OTHER -> [acc EXCEPT !.seen = r.seen, !.ub = r.ub]

\* `js_resolve_export1'
ResolveExport1(S, h, x, seen) ==
    IF Dead(S, h) THEN Result("notfound", 0, NoEntry, seen, TRUE)
    ELSE IF <<h, x>> \in seen THEN Result("circular", 0, NoEntry, seen, FALSE)
    ELSE LET now == seen \cup {<<h, x>>}
             e   == Src(S, h).exports[x]
         IN  CASE e.k \in {"local", "ns"} -> Result("found", h, e, now, FALSE)
               [] e.k = "indirect" -> ResolveExport1(S, Requested(S, h, e.from), e.local, now)
               [] OTHER ->
                    FoldLeft(LAMBDA acc, n :
                               IF acc.k = "ambiguous" \/ acc.ub \/ x = "default" THEN acc
                               ELSE Merge(acc, ResolveExport1(S, Requested(S, h, n), x, acc.seen)),
                             Result("notfound", 0, NoEntry, now, FALSE),
                             Src(S, h).stars)

\* `js_resolve_export'
ResolveExport(S, h, x) == ResolveExport1(S, h, x, {})

RECURSIVE GetExportedNames(_, _, _, _)

\* `get_exported_names'
GetExportedNames(S, acc, h, fromStar) ==
    IF Dead(S, h) THEN [acc EXCEPT !.ub = TRUE]
    ELSE IF h \in acc.modules THEN acc
    ELSE FoldLeft(LAMBDA a, n : GetExportedNames(S, a, Requested(S, h, n), TRUE),
                  [acc EXCEPT !.modules = @ \cup {h},
                              !.names = @ \cup {x \in Exports : /\ Src(S, h).exports[x].k # "none"
                                                                /\ ~(fromStar /\ x = "default")}],
                  Src(S, h).stars)

\* the variable of a local export: kept by link in the entry, before that in the function
ExportVar(S, h, x, e) == IF S.mem[h].exvars[x] # Null THEN S.mem[h].exvars[x] ELSE S.mem[h].vars[e.local]

\* the export entry of h that e is, by its local name
EntryName(S, h, e) == CHOOSE x \in Exports : Src(S, h).exports[x] = e

\* `js_build_module_ns': the names with what they resolve to; ambiguous ones are left out
BuildModuleNs(S, h, names, res) ==
    LET Var(r) == IF r.k # "found" THEN Null
                  ELSE IF r.e.k = "ns" THEN <<Requested(S, r.h, r.e.from), "*">>
                  ELSE ExportVar(S, r.h, EntryName(S, r.h, r.e), r.e)
    IN  IF names.ub \/ \E x \in Exports : res[x].ub \/ (res[x].k = "found" /\ Var(res[x]) = Null)
        THEN Undefined(S)
        ELSE IF \E x \in Exports : res[x].k \in {"notfound", "circular"} THEN Fail(S, "link")
        ELSE [S EXCEPT !.mem[h].ns = [x \in Exports |-> Var(res[x])], !.mem[h].hasNs = TRUE]

ResolvedNames(S, h, names) ==
    BuildModuleNs(S, h, names,
                  [x \in Exports |-> IF x \in names.names THEN ResolveExport(S, h, x)
                                     ELSE Result("ambiguous", 0, NoEntry, {}, FALSE)])

\* `js_get_module_ns': a namespace is made on demand
GetModuleNs(S, h) ==
    IF Dead(S, h) THEN Undefined(S)
    ELSE IF S.mem[h].hasNs THEN S
    ELSE ResolvedNames(S, h, GetExportedNames(S, [modules |-> {}, names |-> {}, ub |-> FALSE], h, FALSE))

-----------------------------------------------------------------------------
(* The variables, and linking.                                               *)

Imported(src) == {src.imports[i].var : i \in DOMAIN src.imports}
Locals(src) == {src.exports[x].local : x \in {y \in Exports : src.exports[y].k = "local"}}

RECURSIVE CreateFunction(_, _), Link(_, _), Evaluate(_, _)

\* `js_create_module_function': the module's own variables; imports are bound by link
CreateFunction(S, h) ==
    IF Failed(S) THEN S
    ELSE IF Dead(S, h) THEN Undefined(S)
    ELSE IF S.mem[h].created THEN S
    ELSE LET src == Src(S, h)
         IN  FoldLeft(CreateFunction,
                      [S EXCEPT !.mem[h].created = TRUE,
                                !.mem[h].vars = [v \in Locals(src) \cup Imported(src) |->
                                   IF \E i \in DOMAIN src.imports : /\ src.imports[i].var = v
                                                                    /\ src.imports[i].name # "*"
                                   THEN Null ELSE <<h, v>>]],
                      S.mem[h].req)

\* the import bound to the namespace of h1
BindNs(s, h, var, h1) == IF Failed(s) THEN s ELSE [s EXCEPT !.mem[h].vars[var] = <<h1, "*">>]


\* ... and to the variable that r, the resolution of its name, stands for
BindVar(S, h, var, r) ==
    IF r.ub THEN Undefined(S)
    ELSE IF r.k # "found" THEN Fail(S, "link")
    ELSE IF r.e.k = "ns" THEN
         LET h2 == Requested(S, r.h, r.e.from) IN BindNs(GetModuleNs(S, h2), h, var, h2)
    ELSE LET v == ExportVar(S, r.h, EntryName(S, r.h, r.e), r.e)
         IN  IF v = Null THEN Undefined(S) ELSE [S EXCEPT !.mem[h].vars[var] = v]

\* one entry of import_entries
BindImport(S, h, imp) ==
    LET h1 == Requested(S, h, imp.from)
    IN  IF Failed(S) THEN S
        ELSE IF imp.name = "*" THEN BindNs(GetModuleNs(S, h1), h, imp.var, h1)
        ELSE BindVar(S, h, imp.var, ResolveExport(S, h1, imp.name))

\* the check of the indirect exports
CheckExports(S, h) ==
    LET src == Src(S, h)
        indirect == {y \in Exports : src.exports[y].k = "indirect"}
        Res(x) == ResolveExport(S, Requested(S, h, src.exports[x].from), src.exports[x].local)
    IN  IF Failed(S) THEN S
        ELSE IF \E x \in indirect : Res(x).ub THEN Undefined(S)
        ELSE IF \E x \in indirect : Res(x).k # "found" THEN Fail(S, "link")
        ELSE S

\* "keep the exported variables in the module export entries"
KeepExports(S, h) ==
    IF Failed(S) THEN S
    ELSE [S EXCEPT !.mem[h].exvars = [x \in Exports |->
            LET e == Src(S, h).exports[x] IN IF e.k = "local" THEN S.mem[h].vars[e.local] ELSE Null]]

\* `js_link_module'
Link(S, h) ==
    IF Failed(S) THEN S
    ELSE IF Dead(S, h) THEN Undefined(S)
    ELSE IF S.mem[h].instantiated THEN S
    ELSE LET deps  == FoldLeft(Link, [S EXCEPT !.mem[h].instantiated = TRUE], S.mem[h].req)
             bound == FoldLeft(LAMBDA s, imp : BindImport(s, h, imp), CheckExports(deps, h), Src(S, h).imports)
         IN  KeepExports(bound, h)

-----------------------------------------------------------------------------
(* Evaluation.                                                               *)

\* the body; its function is gone afterwards
RunBody(S, h) ==
    LET n == S.mem[h].name
        e == IF n \in S.bad THEN n ELSE ""
    IN  [S EXCEPT !.ran = Append(@, h), !.err = e,
                  !.mem[h].exc = e, !.mem[h].mark = FALSE, !.mem[h].evaluated = TRUE]

\* the end of `js_evaluate_module', after the requests
RunOrUnmark(S, h) == IF Failed(S) THEN [S EXCEPT !.mem[h].mark = FALSE] ELSE RunBody(S, h)

\* Mutation: a module that failed is taken for evaluated.
EvaluateForgets(S, h) ==
    IF Failed(S) THEN S
    ELSE IF Dead(S, h) THEN Undefined(S)
    ELSE IF S.mem[h].mark \/ S.mem[h].evaluated THEN S
    ELSE RunOrUnmark(FoldLeft(Evaluate, [S EXCEPT !.mem[h].mark = TRUE], S.mem[h].req), h)

\* `js_evaluate_module'
Evaluate(S, h) ==
    IF Failed(S) THEN S
    ELSE IF Dead(S, h) THEN Undefined(S)
    ELSE IF S.mem[h].mark THEN S
    ELSE IF S.mem[h].evaluated THEN Fail(S, S.mem[h].exc)
    ELSE RunOrUnmark(FoldLeft(Evaluate, [S EXCEPT !.mem[h].mark = TRUE], S.mem[h].req), h)

\* `JS_EvalFunctionInternal' of a module, and the namespace as in `js_dynamic_import_job'
FreeIfFailed(S) == IF S.err # "" THEN FreeModules(S, "evaluated") ELSE S
NsUnlessFailed(S, h) == IF Failed(S) THEN S ELSE GetModuleNs(S, h)
EvalFunction(S, h) == FreeIfFailed(Evaluate(Link(CreateFunction(S, h), h), h))

\* `JS_RunModule'
RunResolved(S, h) ==
    IF S.err # "" THEN FreeModules(S, "resolved") ELSE NsUnlessFailed(EvalFunction(S, h), h)
RunFound(r) == IF r.h = 0 THEN r ELSE [s |-> RunResolved(ResolveModule(r.s, r.h), r.h), h |-> r.h]
RunModule(S, n) == RunFound(HostResolve(S, n))

\* the job of one import(), with the files that are missing and the bodies that
\* throw when they run now
Import(n, missing, bad) ==
    /\ ~st.ub /\ imports < MaxImports
    /\ \E r \in {RunModule([st EXCEPT !.missing = missing, !.bad = bad], n)} :
           /\ st' = [r.s EXCEPT !.missing = {}, !.bad = {}, !.err = ""]
           /\ last' = [name |-> n, h |-> r.h, err |-> r.s.err]
    /\ imports' = imports + 1
    /\ UNCHANGED files

Next == \E n \in Names : \E missing \in Missing, bad \in Bad : Import(n, missing, bad)

vars == <<files, st, last, imports>>

Spec == Init /\ [][Next]_vars

-----------------------------------------------------------------------------
(* What the graph means, by its sources alone.                               *)

Star == [n \in Names |-> ToSet(files[n].stars)]
Needs == [n \in Names |-> ToSet(files[n].req)]
\* reflexive transitive closure
Closure(R) ==
    LET Step(C) == [n \in Names |-> C[n] \cup UNION {R[m] : m \in C[n]}]
    IN  FoldLeft(LAMBDA C, i : Step(C), [n \in Names |-> {n}], [i \in 1..Cardinality(Names) |-> i])
Acyclic == \A n \in Names : n \notin UNION {Closure(Needs)[m] : m \in Needs[n]}

\* The bindings an export may stand for: the least solution of the equations of
\* the sources.  A namespace export is one binding of its module.
Bindings ==
    LET Pairs == Names \X Exports
        Step(B) == [p \in Pairs |->
            LET e == files[p[1]].exports[p[2]]
            IN  CASE e.k = "local" -> {<<p[1], e.local>>}
                  [] e.k = "ns" -> {<<p[1], "*">>}
                  [] e.k = "indirect" -> B[<<e.from, e.local>>]
                  [] OTHER -> IF p[2] = "default" THEN {}
                              ELSE UNION {B[<<m, p[2]>>] : m \in Star[p[1]]}]
    IN  FoldLeft(LAMBDA B, i : Step(B), [p \in Pairs |-> {}], [i \in 1..Cardinality(Pairs) |-> i])

\* the names of a module's namespace before they are resolved
ExportedNames(n) ==
    {x \in Exports : \/ files[n].exports[x].k # "none"
                     \/ x # "default" /\ \E m \in Closure(Star)[n] : files[m].exports[x].k # "none"}

RECURSIVE Variable(_, _, _)

\* the variable that v of n is, followed through the imports; `d' bounds the walk
Variable(n, v, d) ==
    LET imps == SelectSeq(files[n].imports, LAMBDA i : i.var = v)
        imp  == Head(imps)
    IN  IF imps = <<>> \/ d = 0 THEN <<n, v>>
        ELSE IF imp.name = "*" THEN <<imp.from, "*">>
        ELSE LET b == CHOOSE c \in Bindings[<<imp.from, imp.name>>] : TRUE
             IN  IF b[2] = "*"
                 THEN <<(CHOOSE e \in {files[b[1]].exports[x] : x \in Exports} : e.k = "ns").from, "*">>
                 ELSE Variable(b[1], b[2], d - 1)

Named(S, var) == <<S.mem[var[1]].name, var[2]>>

-----------------------------------------------------------------------------
(* Properties.                                                               *)

Alive == {h \in DOMAIN st.mem : st.mem[h].alive}
\* the definitions reached from h, when no pointer on the way dangles
ReachedFrom(h) ==
    FoldLeft(LAMBDA R, i : R \cup UNION {ToSet(st.mem[r].req) : r \in R}, {h}, [i \in 1..Cardinality(Names) |-> i])
Whole == {h \in Alive : 0 \notin ReachedFrom(h) /\ ReachedFrom(h) \subseteq Alive}

\* js_resolve_export finds a name exactly when the sources give it one binding, and
\* then that binding, and calls it ambiguous exactly when they give it several,
\* whatever cycles of star exports and re-exports it walks.
ResolveAgrees ==
    \A h \in Whole : \A x \in Exports :
        LET r == ResolveExport(st, h, x)
            B == Bindings[<<st.mem[h].name, x>>]
        IN  /\ r.k = "found" => B = {<<st.mem[r.h].name, IF r.e.k = "ns" THEN "*" ELSE r.e.local>>}
            /\ r.k = "ambiguous" <=> Cardinality(B) > 1
            /\ r.k \in {"notfound", "circular"} <=> B = {}

\* A namespace object has the names with one binding, without the default exports
\* of star exports, and each is the variable its importers see.
NamespaceExact ==
    \A h \in Alive : st.mem[h].hasNs =>
        LET n == st.mem[h].name
        IN  \A x \in Exports :
              IF x \in ExportedNames(n) /\ Cardinality(Bindings[<<n, x>>]) = 1
              THEN LET b == CHOOSE c \in Bindings[<<n, x>>] : TRUE
                   IN  /\ st.mem[h].ns[x] # Null
                       /\ b[2] # "*" => Named(st, st.mem[h].ns[x]) = Variable(b[1], b[2], Cardinality(Names))
              ELSE st.mem[h].ns[x] = Null


\* A body runs once, whatever is imported again after whatever failed.
BodiesOnce == \A i, j \in DOMAIN st.ran : i # j => st.ran[i] # st.ran[j]

\* When a body runs, those of the modules it requests have run and have not thrown,
\* except in a cycle.
DependenciesFirst ==
    \A i \in DOMAIN st.ran :
        LET h == st.ran[i]
            n == st.mem[h].name
        IN  \A k \in DOMAIN files[n].req :
              \/ n \in Closure(Needs)[files[n].req[k]]
              \/ \E j \in 1..(i - 1) : st.ran[j] = st.mem[h].req[k] /\ st.mem[st.ran[j]].exc = ""

\* An import() that succeeds leaves every module the graph needs loaded, evaluated
\* and without an exception, also when earlier imports of parts of the graph failed
\* (for graphs without cycles).
ImportComplete ==
    Acyclic /\ last.h # 0 /\ last.err = "" /\ ~st.ub =>
        /\ last.h \in Whole
        /\ \A h \in ReachedFrom(last.h) : st.mem[h].evaluated /\ st.mem[h].exc = ""

\* Without cycles, no freed definition and no missing variable is used, whatever
\* was freed after failures.
NothingDangles == Acyclic => ~st.ub /\ Alive = Whole
=============================================================================
