---------------------------- MODULE ScriptLookup ----------------------------
(***************************************************************************)
(* The search for the script of a request: `iter_path_splits` and the loop *)
(* over it at the head of both handlers (src/cgi.rs and src/lambda.rs).    *)
(*                                                                         *)
(* A path is a sequence of names and slashes.  The handler tries the path  *)
(* cut at each slash in turn, and last the whole path.  It reads every     *)
(* candidate into the same buffer `wasm`, which it never clears, and a     *)
(* read may fail after it has appended part of the file.                   *)
(***************************************************************************)
EXTENDS Naturals, Sequences

CONSTANTS Symbols,   \* what paths are made of
          Slash,     \* the separator
          Paths,     \* the paths of requests
          Files,     \* regular files, identified with what they hold
          Dir,       \* a directory
          NoFile,    \* `open` fails
          Trees,     \* the file trees: what each name opens
          NumBlocks  \* the pieces in which a file is read

\* A request path starts with a slash (the route is "/*path").  A regular file
\* has no entries: below its name, `open` fails with ENOTDIR.
ASSUME LookupAssumption ==
    /\ NumBlocks \in Nat \ {0}
    /\ \A p \in Paths : p \in Seq(Symbols) /\ Len(p) > 0 /\ p[1] = Slash
    /\ Dir \notin Files /\ NoFile \notin Files
    /\ \A t \in Trees, p \in Paths : \A i \in 0..(Len(p) - 1) :
           LET n == SubSeq(Tail(p), 1, i)
           IN  n \in DOMAIN t /\ t[n] \in Files \cup {Dir, NoFile}
    /\ \A t \in Trees : \A m, n \in DOMAIN t :
           /\ t[m] \in Files
           /\ Len(m) < Len(n) /\ SubSeq(n, 1, Len(m)) = m /\ n[Len(m) + 1] = Slash
           => t[n] \notin Files

VARIABLES
    tree,    \* the file tree; it does not change during a request
    target,  \* request.uri().path()
    cut,     \* where the candidate of this turn of the loop ends
    wasm,    \* the shared buffer
    lookup,  \* "searching", "found" or "missing"
    ioError  \* history: reading a regular file failed

lookupVars == <<tree, target, cut, wasm, lookup, ioError>>

\* The path `iter_path_splits` walks: one leading slash is dropped.
path == IF target[1] = Slash THEN Tail(target) ELSE target

\* Where the path is cut: before each slash, and at its end.
Cuts == {i \in 1..Len(path) : path[i] = Slash} \cup {Len(path) + 1}

\* The two halves of a split, `&path[..i]` and `&path[i..]`.
Name(i) == SubSeq(path, 1, i - 1)
Rest(i) == SubSeq(path, i, Len(path))

\* The candidate of the loop's current turn.
Candidate == tree[Name(cut)]

\* The first n blocks of a file.
Content(f, n) == [i \in 1..n |-> <<f, i>>]

FirstCut(i) == i \in Cuts /\ \A j \in Cuts : i <= j

LookupTypeOK ==
    /\ tree \in Trees
    /\ target \in Paths
    /\ cut \in Cuts
    /\ wasm \in Seq(Files \X (1..NumBlocks))
    /\ lookup \in {"searching", "found", "missing"}
    /\ ioError \in BOOLEAN

LookupInit ==
    /\ tree \in Trees
    /\ target \in Paths
    /\ FirstCut(cut)
    /\ wasm = <<>>
    /\ lookup = "searching"
    /\ ioError = FALSE

\* Mutation: `break` in place of `continue`.
NextCandidateBreak ==
    /\ lookup' = "missing"
    /\ UNCHANGED cut

\* `continue`: the next candidate, or the end of the loop.
NextCandidate ==
    \/ /\ \E i \in Cuts :
           /\ cut < i
           /\ \A j \in Cuts : cut < j => i <= j
           /\ cut' = i
       /\ UNCHANGED lookup
    \/ /\ \A j \in Cuts : j <= cut
       /\ lookup' = "missing"
       /\ UNCHANGED cut

\* The candidate is no file, or a directory, which opens but cannot be read.
OpenFails ==
    /\ lookup = "searching"
    /\ Candidate \in {NoFile, Dir}
    /\ NextCandidate
    /\ UNCHANGED <<tree, target, wasm, ioError>>

\* `read_to_end` fails after n blocks, which stay in the buffer (n = 0: the
\* file cannot be opened).  A read at the end of the file does not fail.
ReadFails(n) ==
    /\ lookup = "searching"
    /\ Candidate \in Files
    /\ wasm' = wasm \o Content(Candidate, n)
    /\ ioError' = TRUE
    /\ NextCandidate
    /\ UNCHANGED <<tree, target>>

\* `Ok(_)`: the script is found and the loop ends.
ReadOk ==
    /\ lookup = "searching"
    /\ Candidate \in Files
    /\ wasm' = wasm \o Content(Candidate, NumBlocks)
    /\ lookup' = "found"
    /\ UNCHANGED <<tree, target, cut, ioError>>

LookupStep == OpenFails \/ (\E n \in 0..(NumBlocks - 1) : ReadFails(n)) \/ ReadOk

LookupSpec == LookupInit /\ [][LookupStep]_lookupVars
-----------------------------------------------------------------------------
(***************************************************************************)
(* The binary handed to `App::new` is the script and nothing else, though  *)
(* the buffer is shared by all candidates and is never cleared.            *)
(***************************************************************************)
ScriptIsWhole ==
    lookup = "found" => Candidate \in Files /\ wasm = Content(Candidate, NumBlocks)

(***************************************************************************)
(* SCRIPT_NAME, a slash and the first half of the split, and PATH_INFO,    *)
(* its second half, make up the request path.                              *)
(***************************************************************************)
SplitRecombines ==
    \A i \in Cuts : <<Slash>> \o Name(i) \o Rest(i) = target

(***************************************************************************)
(* The loop gives up only when there is nothing to find: unless a read     *)
(* failed, no prefix of the path names a file.                             *)
(***************************************************************************)
MissingMeansAbsent ==
    lookup = "missing" /\ ~ioError => \A i \in Cuts : tree[Name(i)] \notin Files

(***************************************************************************)
(* What failed reads leave in the buffer is never a script: the handler of *)
(* CGI mode goes on without a script, and hands the buffer to `App::new`.  *)
(***************************************************************************)
LeftoverIsNoScript ==
    lookup # "found" => \A f \in Files : wasm # Content(f, NumBlocks)

(***************************************************************************)
(* The inductive invariant: the candidates passed over are not files, or   *)
(* reading one failed; once something was left in the buffer, no candidate *)
(* still to come is a file, because they all lie below one; so what is     *)
(* left is less than one file.                                             *)
(***************************************************************************)
LookupInv ==
    /\ LookupTypeOK
    /\ lookup = "searching" =>
           /\ \A i \in Cuts : i < cut /\ ~ioError => tree[Name(i)] \notin Files
           /\ wasm # <<>> => \A i \in Cuts : cut <= i => tree[Name(i)] \notin Files
    /\ lookup # "found" => Len(wasm) < NumBlocks
    /\ ScriptIsWhole
    /\ MissingMeansAbsent
-----------------------------------------------------------------------------
(***************************************************************************)
(* File trees for the models of the handlers: what `open` makes of a       *)
(* relative name in the working directory, as the operating system         *)
(* resolves it.  A file is identified with the names on the way to it.     *)
(***************************************************************************)

\* The names of a path; slashes that follow each other count as one.
Segments(slash, n) == SelectSeq(n, LAMBDA x : x # slash)

StrictlyBelow(s, d) == Len(d) < Len(s) /\ SubSeq(s, 1, Len(d)) = d

\* What opening n gives in the tree of these files.  The empty name and names
\* outside the working directory open nothing here; a name that ends in a
\* slash opens no regular file.
Opens(files, slash, dir, noFile, n) ==
    LET s == Segments(slash, n) IN
    IF n = <<>> \/ n[1] = slash THEN noFile
    ELSE IF s \in files THEN IF n[Len(n)] = slash THEN noFile ELSE s
    ELSE IF \E f \in files : StrictlyBelow(f, s) THEN dir
    ELSE noFile

\* The sets of files that can exist at once: none is below another.
Layouts(F) == {S \in SUBSET F : \A f, g \in S : ~StrictlyBelow(f, g)}

\* The paths of up to n symbols in which names are kept apart by slashes.
PathsOver(names, slash, n) ==
    {p \in UNION {[1..k -> names \cup {slash}] : k \in 1..n} :
        p[1] = slash /\ \A i \in 1..(Len(p) - 1) : p[i] = slash \/ p[i + 1] = slash}

\* The names a handler may try for these paths.
NamesIn(paths) == UNION {{SubSeq(p, 2, j) : j \in 1..Len(p)} : p \in paths}
=============================================================================
