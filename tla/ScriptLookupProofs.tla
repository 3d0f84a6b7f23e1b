------------------------ MODULE ScriptLookupProofs ------------------------
(***************************************************************************)
(* The search for the script, for every path and every file tree.          *)
(***************************************************************************)
EXTENDS ScriptLookup, SequenceTheorems, WellFoundedInduction, TLAPS

(***************************************************************************)
(* A set of natural numbers has a least element.                           *)
(***************************************************************************)
LEMMA Least ==
    ASSUME NEW S \in SUBSET Nat, S # {}
    PROVE  \E i \in S : \A j \in S : i <= j
<1> DEFINE R == OpToRel(<, Nat)
<1>1. PICK i \in S : \A j \in S : <<j, i>> \notin R
  BY NatLessThanWellFounded, WFMin
<1>2. R = {p \in Nat \X Nat : p[1] < p[2]}
  BY Zenon DEF OpToRel
<1> HIDE DEF R
<1>3. \A j \in S : <<j, i>> \in Nat \X Nat
  OBVIOUS
<1>4. \A j \in S : ~(j < i)
  BY <1>1, <1>2, <1>3
<1> QED
  BY <1>4

(***************************************************************************)
(* What `iter_path_splits` walks, and where it may cut it.                 *)
(***************************************************************************)
LEMMA PathFacts ==
    ASSUME target \in Paths
    PROVE  /\ target \in Seq(Symbols) /\ Len(target) > 0 /\ target[1] = Slash
           /\ Slash \in Symbols
           /\ path = Tail(target)
           /\ path \in Seq(Symbols) /\ Len(path) \in Nat /\ Len(path) = Len(target) - 1
           /\ Cuts \subseteq 1..(Len(path) + 1)
           /\ (Len(path) + 1) \in Cuts
           /\ \A i \in Cuts : i <= Len(path) => path[i] = Slash
<1>1. target \in Seq(Symbols) /\ Len(target) > 0 /\ target[1] = Slash
  BY LookupAssumption
<1>2. path = Tail(target)
  BY <1>1 DEF path
<1>3. path \in Seq(Symbols) /\ Len(path) \in Nat /\ Len(path) = Len(target) - 1
  BY <1>1, <1>2
<1>4. Slash \in Symbols
  BY <1>1, ElementOfSeq
<1>5. Cuts \subseteq 1..(Len(path) + 1) /\ (Len(path) + 1) \in Cuts
  <2> DEFINE n == Len(path)
  <2>1. n \in Nat
    BY <1>3
  <2>2. Cuts = {i \in 1..n : path[i] = Slash} \cup {n + 1}
    BY DEF Cuts
  <2> HIDE DEF n
  <2>3. Cuts \subseteq 1..(n + 1) /\ (n + 1) \in Cuts
    BY <2>1, <2>2
  <2> QED
    BY <2>3 DEF n
<1>6. ASSUME NEW i \in Cuts, i <= Len(path) PROVE path[i] = Slash
  <2>1. i # Len(path) + 1
    BY <1>3, <1>6
  <2> QED
    BY <2>1 DEF Cuts
<1> QED
  BY <1>1, <1>2, <1>3, <1>4, <1>5, <1>6

(***************************************************************************)
(* A split loses nothing: SCRIPT_NAME and PATH_INFO, as `cgi::handler`     *)
(* sets them from the halves, make up the request path.                    *)
(***************************************************************************)
LEMMA SplitLosesNothing == target \in Paths => SplitRecombines
<1> SUFFICES ASSUME target \in Paths, NEW i \in Cuts
             PROVE  (<<Slash>> \o Name(i)) \o Rest(i) = target
  BY DEF SplitRecombines
<1>1. /\ path \in Seq(Symbols) /\ Len(path) \in Nat /\ path = Tail(target)
      /\ i \in 1..(Len(path) + 1)
  BY PathFacts
<1>2. Name(i) \o Rest(i) = path
  <2>1. 1 \in 1..(Len(path) + 1) /\ (i - 1) \in (1 - 1)..Len(path) /\ Len(path) \in (i - 1)..Len(path)
    BY <1>1
  <2>2. SubSeq(path, 1, i - 1) \o SubSeq(path, (i - 1) + 1, Len(path)) = SubSeq(path, 1, Len(path))
    BY <1>1, <2>1, ConcatAdjacentSubSeq
  <2>3. (i - 1) + 1 = i
    BY <1>1
  <2> QED
    BY <1>1, <2>2, <2>3, SubSeqFull DEF Name, Rest
<1>3. Name(i) \in Seq(Symbols) /\ Rest(i) \in Seq(Symbols)
  BY <1>1 DEF Name, Rest
<1>4. <<Slash>> \in Seq(Symbols)
  BY PathFacts
<1>5. \A r, s, t \in Seq(Symbols) : (r \o s) \o t = r \o (s \o t)
  BY ConcatAssociative
<1>6. (<<Slash>> \o Name(i)) \o Rest(i) = <<Slash>> \o path
  BY ONLY <1>2, <1>3, <1>4, <1>5, Zenon
<1>7. <<Slash>> \o path = target
  BY <1>1, PathFacts
<1> QED
  BY <1>6, <1>7

(***************************************************************************)
(* A candidate opens a file, a directory or nothing, and of two candidates *)
(* the later lies below the earlier: at most one of them is a file.        *)
(***************************************************************************)
LEMMA AtMostOneFile ==
    ASSUME target \in Paths, tree \in Trees
    PROVE  /\ \A i \in Cuts : tree[Name(i)] \in Files \cup {Dir, NoFile}
           /\ \A i, j \in Cuts : i < j /\ tree[Name(i)] \in Files => tree[Name(j)] \notin Files
<1>1. /\ path = Tail(target) /\ path \in Seq(Symbols)
      /\ Len(path) \in Nat /\ Len(path) = Len(target) - 1
      /\ Cuts \subseteq 1..(Len(path) + 1)
      /\ \A i \in Cuts : i <= Len(path) => path[i] = Slash
  BY PathFacts
<1>2. ASSUME NEW i \in Cuts
      PROVE  Name(i) \in DOMAIN tree /\ tree[Name(i)] \in Files \cup {Dir, NoFile}
  <2>1. i - 1 \in 0..(Len(target) - 1)
    BY <1>1
  <2>2. Name(i) = SubSeq(Tail(target), 1, i - 1)
    BY <1>1 DEF Name
  <2> QED
    BY <2>1, <2>2, LookupAssumption
<1>3. ASSUME NEW i \in Cuts, NEW j \in Cuts, i < j, tree[Name(i)] \in Files
      PROVE  tree[Name(j)] \notin Files
  <2>1. i \in 1..Len(path) /\ j \in 1..(Len(path) + 1) /\ path[i] = Slash
    BY <1>1, <1>3
  <2>2. Len(Name(i)) = i - 1 /\ Len(Name(j)) = j - 1
    BY <1>1, <2>1 DEF Name
  <2>3. Name(j)[(i - 1) + 1] = Slash
    BY <1>1, <1>3, <2>1 DEF Name
  <2>4. SubSeq(Name(j), 1, i - 1) = Name(i)
    BY <1>1, <1>3, <2>1 DEF Name
  <2>5. Len(Name(i)) < Len(Name(j)) /\ SubSeq(Name(j), 1, Len(Name(i))) = Name(i)
        /\ Name(j)[Len(Name(i)) + 1] = Slash
    BY <1>3, <2>1, <2>2, <2>3, <2>4
  <2> QED
    BY <1>2, <1>3, <2>5, LookupAssumption
<1> QED
  BY <1>2, <1>3

(***************************************************************************)
(* A file, or the part of it that was read, has the type of the buffer.    *)
(***************************************************************************)
LEMMA ContentType ==
    ASSUME NEW f \in Files, NEW n \in 0..NumBlocks
    PROVE  /\ Content(f, n) \in Seq(Files \X (1..NumBlocks))
           /\ Len(Content(f, n)) = n
           /\ n = 0 => Content(f, n) = <<>>
<1>1. n \in Nat /\ NumBlocks \in Nat
  BY LookupAssumption
<1>2. \A i \in 1..n : <<f, i>> \in Files \X (1..NumBlocks)
  BY <1>1
<1> QED
  BY <1>1, <1>2 DEF Content

(***************************************************************************)
(* `continue` keeps the place in the path a candidate, and passes over no  *)
(* candidate.                                                              *)
(***************************************************************************)
LEMMA NextCandidateFacts ==
    ASSUME target \in Paths, cut \in Cuts, NextCandidate
    PROVE  \/ /\ lookup' = lookup /\ cut' \in Cuts /\ cut < cut'
              /\ \A j \in Cuts : j < cut' => j <= cut
           \/ /\ lookup' = "missing" /\ cut' = cut
              /\ \A j \in Cuts : j <= cut
<1>1. Cuts \subseteq Nat
  BY PathFacts
<1>2. CASE \E i \in Cuts : cut < i /\ (\A j \in Cuts : cut < j => i <= j) /\ cut' = i /\ UNCHANGED lookup
  <2>1. PICK i \in Cuts : cut < i /\ (\A j \in Cuts : cut < j => i <= j) /\ cut' = i /\ UNCHANGED lookup
    BY <1>2
  <2>2. \A j \in Cuts : j < i => j <= cut
    BY <1>1, <2>1
  <2> QED
    BY <2>1, <2>2
<1> QED
  BY <1>2 DEF NextCandidate

(***************************************************************************)
(* The invariant holds before the first turn of the loop.                  *)
(***************************************************************************)
LEMMA LookupInitial == LookupInit => LookupInv
<1> SUFFICES ASSUME LookupInit PROVE LookupInv
  OBVIOUS
<1>1. cut \in Cuts /\ Cuts \subseteq Nat /\ \A j \in Cuts : cut <= j
  BY PathFacts DEF LookupInit, FirstCut
<1>2. LookupTypeOK
  <2>1. <<>> \in Seq(Files \X (1..NumBlocks))
    BY EmptySeq
  <2> QED
    BY <1>1, <2>1 DEF LookupInit, LookupTypeOK
<1>3. \A i \in Cuts : ~(i < cut)
  BY <1>1
<1>4. Len(wasm) < NumBlocks
  BY LookupAssumption DEF LookupInit
<1> QED
  BY <1>2, <1>3, <1>4 DEF LookupInit, LookupInv, ScriptIsWhole, MissingMeansAbsent

(***************************************************************************)
(* Every turn of the loop preserves the invariant.                         *)
(***************************************************************************)
LEMMA LookupPreserved == LookupInv /\ [LookupStep]_lookupVars => LookupInv'
<1> SUFFICES ASSUME LookupInv, [LookupStep]_lookupVars PROVE LookupInv'
  OBVIOUS
<1>0. /\ target \in Paths /\ tree \in Trees /\ cut \in Cuts /\ Cuts \subseteq Nat
      /\ wasm \in Seq(Files \X (1..NumBlocks)) /\ NumBlocks \in Nat \ {0}
  BY PathFacts, LookupAssumption DEF LookupInv, LookupTypeOK
<1> DEFINE File(i) == tree[Name(i)] \in Files
<1>1. /\ \A i \in Cuts : tree[Name(i)] \in Files \cup {Dir, NoFile}
      /\ \A i, j \in Cuts : i < j /\ File(i) => ~File(j)
  BY <1>0, AtMostOneFile
<1>2. ASSUME target' = target, tree' = tree
      PROVE  path' = path /\ Cuts' = Cuts /\ \A i : Name(i)' = Name(i)
  BY <1>2 DEF path, Cuts, Name
<1>3. CASE OpenFails
  <2>1. target' = target /\ tree' = tree /\ wasm' = wasm /\ ioError' = ioError
        /\ lookup = "searching" /\ ~File(cut) /\ NextCandidate
    BY <1>3, LookupAssumption DEF OpenFails, Candidate
  <2>2. path' = path /\ Cuts' = Cuts /\ \A i : Name(i)' = Name(i)
    BY <1>2, <2>1
  <2>3. \/ /\ lookup' = lookup /\ cut' \in Cuts /\ cut < cut'
           /\ \A j \in Cuts : j < cut' => j <= cut
        \/ /\ lookup' = "missing" /\ cut' = cut
           /\ \A j \in Cuts : j <= cut
    BY <1>0, <2>1, NextCandidateFacts
  <2>4. LookupTypeOK'
    BY <1>0, <2>1, <2>2, <2>3 DEF LookupInv, LookupTypeOK
  <2>5. \A i \in Cuts : i <= cut /\ ~ioError => ~File(i)
    BY <1>0, <2>1 DEF LookupInv
  <2>6. wasm # <<>> => \A i \in Cuts : cut <= i => ~File(i)
    BY <2>1 DEF LookupInv
  <2>7. ASSUME lookup' = "searching"
        PROVE  /\ \A i \in Cuts : i < cut' /\ ~ioError => ~File(i)
               /\ wasm # <<>> => \A i \in Cuts : cut' <= i => ~File(i)
    <3>1. cut' \in Cuts /\ cut < cut' /\ \A j \in Cuts : j < cut' => j <= cut
      BY <2>3, <2>7
    <3>2. \A i \in Cuts : cut' <= i => cut <= i
      BY <1>0, <3>1
    <3> HIDE DEF File
    <3> QED
      BY <2>5, <2>6, <3>1, <3>2
  <2>8. lookup' = "missing" /\ ~ioError => \A i \in Cuts : ~File(i)
    BY <2>1, <2>3, <2>5
  <2>9. lookup' # "found" /\ Len(wasm') < NumBlocks
    BY <2>1, <2>3 DEF LookupInv
  <2> QED
    BY <2>1, <2>2, <2>4, <2>7, <2>8, <2>9 DEF LookupInv, ScriptIsWhole, MissingMeansAbsent
<1>4. ASSUME NEW n \in 0..(NumBlocks - 1), ReadFails(n) PROVE LookupInv'
  <2>1. target' = target /\ tree' = tree /\ ioError' = TRUE
        /\ wasm' = wasm \o Content(Candidate, n)
        /\ lookup = "searching" /\ File(cut) /\ NextCandidate
    BY <1>4 DEF ReadFails, Candidate
  <2>2. path' = path /\ Cuts' = Cuts /\ \A i : Name(i)' = Name(i)
    BY <1>2, <2>1
  <2>3. \/ /\ lookup' = lookup /\ cut' \in Cuts /\ cut < cut'
           /\ \A j \in Cuts : j < cut' => j <= cut
        \/ /\ lookup' = "missing" /\ cut' = cut
           /\ \A j \in Cuts : j <= cut
    BY <1>0, <2>1, NextCandidateFacts
  <2>4. wasm' \in Seq(Files \X (1..NumBlocks))
    <3>1. n \in 0..NumBlocks
      BY <1>0
    <3> QED
      BY <1>0, <2>1, <3>1, ContentType, ConcatProperties DEF Candidate
  <2>5. LookupTypeOK'
    BY <1>0, <2>1, <2>2, <2>3, <2>4 DEF LookupInv, LookupTypeOK
  <2>6. ASSUME lookup' = "searching" PROVE \A i \in Cuts : cut' <= i => ~File(i)
    <3>1. cut' \in Cuts /\ cut < cut'
      BY <2>3, <2>6
    <3>2. \A i \in Cuts : cut' <= i => cut < i
      BY <1>0, <3>1
    <3> HIDE DEF File
    <3> QED
      BY <1>0, <1>1, <2>1, <3>2
  <2>7. lookup' # "found"
    BY <2>1, <2>3
  <2>8. Len(wasm') < NumBlocks
    <3>1. wasm = <<>>
      BY <1>0, <2>1 DEF LookupInv
    <3>2. n \in 0..NumBlocks /\ n < NumBlocks
      BY <1>0
    <3>3. /\ Content(Candidate, n) \in Seq(Files \X (1..NumBlocks))
          /\ Len(Content(Candidate, n)) = n
      BY <2>1, <3>2, ContentType DEF Candidate
    <3>4. wasm' = Content(Candidate, n)
      BY <2>1, <3>1, <3>3, ConcatEmptySeq
    <3> QED
      BY <3>2, <3>3, <3>4
  <2> QED
    BY <2>1, <2>2, <2>5, <2>6, <2>7, <2>8 DEF LookupInv, ScriptIsWhole, MissingMeansAbsent
<1>5. CASE ReadOk
  <2>1. target' = target /\ tree' = tree /\ ioError' = ioError /\ cut' = cut
        /\ wasm' = wasm \o Content(Candidate, NumBlocks)
        /\ lookup = "searching" /\ lookup' = "found" /\ File(cut)
    BY <1>5 DEF ReadOk, Candidate
  <2>2. path' = path /\ Cuts' = Cuts /\ \A i : Name(i)' = Name(i)
    BY <1>2, <2>1
  <2>3. wasm = <<>>
    BY <1>0, <2>1 DEF LookupInv
  <2>4. Content(Candidate, NumBlocks) \in Seq(Files \X (1..NumBlocks))
    BY <1>0, <2>1, ContentType DEF Candidate
  <2>5. wasm' = Content(Candidate, NumBlocks)
    BY <2>1, <2>3, <2>4, ConcatEmptySeq
  <2>6. Candidate' = Candidate
    BY <2>1, <2>2 DEF Candidate
  <2>7. LookupTypeOK'
    BY <1>0, <2>1, <2>2, <2>4, <2>5 DEF LookupInv, LookupTypeOK
  <2>8. ScriptIsWhole'
    BY <2>1, <2>5, <2>6 DEF ScriptIsWhole, Candidate, Content
  <2> QED
    BY <2>1, <2>7, <2>8 DEF LookupInv, MissingMeansAbsent
<1>6. CASE UNCHANGED lookupVars
  <2>1. target' = target /\ tree' = tree /\ cut' = cut /\ wasm' = wasm
        /\ lookup' = lookup /\ ioError' = ioError
    BY <1>6 DEF lookupVars
  <2>2. path' = path /\ Cuts' = Cuts /\ \A i : Name(i)' = Name(i)
    BY <1>2, <2>1
  <2>3. Candidate' = Candidate
    BY <2>1, <2>2 DEF Candidate
  <2> QED
    BY <2>1, <2>2, <2>3 DEF LookupInv, LookupTypeOK, ScriptIsWhole, MissingMeansAbsent, Content
<1> QED
  BY <1>3, <1>4, <1>5, <1>6 DEF LookupStep

(***************************************************************************)
(* The invariant holds throughout the search.                              *)
(***************************************************************************)
THEOREM LookupInvariant == LookupSpec => []LookupInv
  BY LookupInitial, LookupPreserved, PTL DEF LookupSpec

(***************************************************************************)
(* For every path, every tree and every pattern of read errors, a script   *)
(* that is found is in the buffer whole, with nothing in front of it.      *)
(***************************************************************************)
THEOREM FoundScriptIsWhole == LookupSpec => []ScriptIsWhole
<1>1. LookupInv => ScriptIsWhole
  BY DEF LookupInv
<1> QED
  BY <1>1, LookupInvariant, PTL

(***************************************************************************)
(* A buffer that holds a whole script got it from a search that succeeded. *)
(***************************************************************************)
LEMMA NoScriptLeft == LookupInv => LeftoverIsNoScript
<1> SUFFICES ASSUME LookupInv, lookup # "found", NEW f \in Files
             PROVE  wasm # Content(f, NumBlocks)
  BY DEF LeftoverIsNoScript
<1>1. NumBlocks \in 0..NumBlocks /\ NumBlocks \in Nat
  BY LookupAssumption
<1>2. Len(Content(f, NumBlocks)) = NumBlocks
  BY <1>1, ContentType
<1>3. Len(wasm) < NumBlocks
  BY DEF LookupInv
<1> QED
  BY <1>1, <1>2, <1>3

(***************************************************************************)
(* For every path, every tree and every pattern of read errors, what a     *)
(* search without success leaves in the buffer is no script.               *)
(***************************************************************************)
THEOREM NothingFoundNothingRuns == LookupSpec => []LeftoverIsNoScript
  BY NoScriptLeft, LookupInvariant, PTL

(***************************************************************************)
(* For every path and every tree, a search without read errors that finds  *)
(* nothing had nothing to find.                                            *)
(***************************************************************************)
THEOREM SearchIsComplete == LookupSpec => []MissingMeansAbsent
<1>1. LookupInv => MissingMeansAbsent
  BY DEF LookupInv
<1> QED
  BY <1>1, LookupInvariant, PTL

(***************************************************************************)
(* For every path, each split of it gives back the path.                   *)
(***************************************************************************)
THEOREM SplitsRecombine == LookupSpec => []SplitRecombines
<1>1. LookupInv => SplitRecombines
  BY SplitLosesNothing DEF LookupInv, LookupTypeOK
<1> QED
  BY <1>1, LookupInvariant, PTL
=============================================================================
