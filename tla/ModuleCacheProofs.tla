------------------------- MODULE ModuleCacheProofs -------------------------
(***************************************************************************)
(* Proofs about ModuleCache, for any set of requests, any binaries and any *)
(* artifact size.                                                          *)
(***************************************************************************)
EXTENDS ModuleCache, TLAPS

USE DEF Key

\* Two artifacts of the same blocks are artifacts of the same binary, and an
\* artifact has no hole.
LEMMA ArtifactFacts ==
    /\ 1 \in Block
    /\ \A w \in Wasms : Artifact(w) \in [Block -> Content]
    /\ \A w \in Content, b \in Block : Artifact(w)[b] = w
    /\ Empty \in [Block -> Content]
    /\ \A b \in Block : Empty[b] = Hole
    /\ \A v, w \in Content : Artifact(v) = Artifact(w) => v = w
BY CacheAssumption DEF Block, Content, Artifact, Empty

\* The blocks of a load that match the request's binary and make an artifact
\* make the artifact of that binary.
LEMMA MatchingArtifact ==
    ASSUME NEW w \in Wasms, NEW f \in [Block -> Content],
           \A b \in Block : f[b] \in {w, Hole}, IsArtifact(f)
    PROVE  f = Artifact(w)
<1>1. PICK v \in Wasms : f = Artifact(v)
  BY DEF IsArtifact
<1>2. f[1] = v
  BY <1>1, ArtifactFacts DEF Content
<1>3. v # Hole
  BY CacheAssumption
<1>4. QED
  BY <1>1, <1>2, <1>3, ArtifactFacts

(***************************************************************************)
(* An empty cache directory and a server without requests (`get_cache`)    *)
(* satisfy the invariant.                                                  *)
(***************************************************************************)
LEMMA CacheInit == Init => CacheInv
<1> SUFFICES ASSUME Init PROVE CacheInv
  OBVIOUS
<1>1. TypeOK
  BY ArtifactFacts, CacheAssumption DEF Init, TypeOK, Content
<1>2. BlocksMatchKey
  BY ArtifactFacts DEF Init, BlocksMatchKey
<1>3. ModulesMatchBytes
  BY DEF Init, ModulesMatchBytes
<1>4. MissingBlocksHaveWriters
  BY DEF Init, MissingBlocksHaveWriters
<1>5. UndisturbedLoadsSeeAll /\ CompilesOnlyIfDisturbed
  BY DEF Init, UndisturbedLoadsSeeAll, CompilesOnlyIfDisturbed
<1>6. QED
  BY <1>1, <1>2, <1>3, <1>4, <1>5 DEF CacheInv

(***************************************************************************)
(* Every step of `App::module`, of any request, a failed store and a crash *)
(* preserve the invariant.                                                 *)
(***************************************************************************)
LEMMA CacheStep == CacheInv /\ [Next]_vars => CacheInv'
<1> SUFFICES ASSUME CacheInv, [Next]_vars PROVE CacheInv'
  OBVIOUS
<1> USE ArtifactFacts, CacheAssumption DEF CacheInv
<1>1. ASSUME NEW r \in Requests, NEW w \in Wasms, Begin(r, w)
      PROVE  CacheInv'
  <2> USE <1>1 DEF Begin, diskVars
  <2>1. TypeOK'
    BY DEF TypeOK, Content
  <2>2. BlocksMatchKey'
    BY DEF TypeOK, BlocksMatchKey, ModulesMatchBytes
  <2>3. ModulesMatchBytes'
    BY DEF TypeOK, ModulesMatchBytes
  <2>4. MissingBlocksHaveWriters'
    BY DEF TypeOK, MissingBlocksHaveWriters, Writers
  <2>5. UndisturbedLoadsSeeAll'
    <3>1. Complete(w) => exists[w] /\ disk[w] = Artifact(w)
      BY MatchingArtifact DEF TypeOK, Complete, BlocksMatchKey
    <3>2. ASSUME NEW q \in Requests, q # r
          PROVE  /\ pc'[q] = pc[q] /\ bytes'[q] = bytes[q]
                 /\ disturbed'[q] = disturbed[q]
      BY <3>2 DEF TypeOK
    <3>3. /\ pc'[r] = "load" /\ bytes'[r] = w
          /\ disturbed'[r] = ~Complete(w)
      BY DEF TypeOK
    <3>4. ~disturbed'[r] => Complete(w)
      BY <3>3
    <3>5. QED
      BY <3>1, <3>2, <3>3, <3>4 DEF UndisturbedLoadsSeeAll
  <2>6. CompilesOnlyIfDisturbed'
    BY DEF TypeOK, CompilesOnlyIfDisturbed
  <2>7. QED
    BY <2>1, <2>2, <2>3, <2>4, <2>5, <2>6
<1>2. ASSUME NEW r \in Requests, NEW w \in Wasms, BeginFails(r, w)
      PROVE  CacheInv'
  <2> USE <1>2 DEF BeginFails, diskVars
  <2>1. TypeOK'
    BY DEF TypeOK, Content
  <2>2. BlocksMatchKey'
    BY DEF TypeOK, BlocksMatchKey, ModulesMatchBytes
  <2>3. ModulesMatchBytes'
    BY DEF TypeOK, ModulesMatchBytes
  <2>4. MissingBlocksHaveWriters'
    BY DEF TypeOK, MissingBlocksHaveWriters, Writers
  <2>5. UndisturbedLoadsSeeAll'
    BY DEF TypeOK, UndisturbedLoadsSeeAll
  <2>6. CompilesOnlyIfDisturbed'
    BY DEF TypeOK, CompilesOnlyIfDisturbed
  <2>7. QED
    BY <2>1, <2>2, <2>3, <2>4, <2>5, <2>6
<1>3. ASSUME NEW r \in Requests, LoadOpen(r)
      PROVE  CacheInv'
  <2> USE <1>3 DEF LoadOpen, LoadOpenIf, diskVars
  <2>1. TypeOK'
    BY DEF TypeOK, Block
  <2>2. BlocksMatchKey'
    BY DEF TypeOK, BlocksMatchKey
  <2>3. ModulesMatchBytes'
    BY DEF TypeOK, ModulesMatchBytes
  <2>4. MissingBlocksHaveWriters'
    BY DEF TypeOK, MissingBlocksHaveWriters, Writers
  <2>5. UndisturbedLoadsSeeAll'
    BY DEF TypeOK, UndisturbedLoadsSeeAll, Block
  <2>6. CompilesOnlyIfDisturbed'
    BY DEF TypeOK, CompilesOnlyIfDisturbed, UndisturbedLoadsSeeAll
  <2>7. QED
    BY <2>1, <2>2, <2>3, <2>4, <2>5, <2>6
<1>4. ASSUME NEW r \in Requests, LoadRead(r)
      PROVE  CacheInv'
  <2> USE <1>4 DEF LoadRead, diskVars
  <2>1. bytes[r] \in Wasms
    BY DEF ModulesMatchBytes
  <2>2. TypeOK'
    BY <2>1 DEF TypeOK, Block
  <2>3. BlocksMatchKey'
    BY <2>1 DEF TypeOK, BlocksMatchKey
  <2>4. ModulesMatchBytes'
    BY DEF TypeOK, ModulesMatchBytes
  <2>5. MissingBlocksHaveWriters'
    BY DEF TypeOK, MissingBlocksHaveWriters, Writers
  <2>6. UndisturbedLoadsSeeAll'
    BY <2>1 DEF TypeOK, UndisturbedLoadsSeeAll, Block, Content
  <2>7. CompilesOnlyIfDisturbed'
    BY DEF TypeOK, CompilesOnlyIfDisturbed
  <2>8. QED
    BY <2>2, <2>3, <2>4, <2>5, <2>6, <2>7
<1>5. ASSUME NEW r \in Requests, LoadEnd(r)
      PROVE  CacheInv'
  <2> USE <1>5 DEF LoadEnd, LoadEndElse, diskVars
  <2>1. bytes[r] \in Wasms
    BY DEF ModulesMatchBytes
  <2>2. TypeOK'
    <3>1. CASE IsArtifact(seen[r])
      <4>1. /\ module' = [module EXCEPT ![r] = seen[r]]
            /\ pc' = [pc EXCEPT ![r] = "done"]
        BY <3>1
      <4>2. module' \in [Requests -> [Block -> Content]]
        BY <4>1 DEF TypeOK
      <4>3. QED
        BY <4>1, <4>2 DEF TypeOK
    <3>2. CASE ~IsArtifact(seen[r])
      <4>1. module' = module /\ pc' = [pc EXCEPT ![r] = "compile"]
        BY <3>2
      <4>2. QED
        BY <4>1 DEF TypeOK
    <3>3. QED
      BY <3>1, <3>2
  <2>3. BlocksMatchKey'
    BY DEF TypeOK, BlocksMatchKey
  <2>4. ModulesMatchBytes'
    <3>1. IsArtifact(seen[r]) => seen[r] = Artifact(bytes[r])
      BY <2>1, MatchingArtifact DEF TypeOK, BlocksMatchKey
    <3>2. QED
      BY <3>1 DEF TypeOK, ModulesMatchBytes
  <2>5. MissingBlocksHaveWriters'
    BY DEF TypeOK, MissingBlocksHaveWriters, Writers
  <2>6. UndisturbedLoadsSeeAll'
    BY DEF TypeOK, UndisturbedLoadsSeeAll
  <2>7. CompilesOnlyIfDisturbed'
    <3>1. ~disturbed[r] => \A b \in Block : seen[r][b] = bytes[r]
      BY DEF TypeOK, UndisturbedLoadsSeeAll, Block
    <3>2. ~disturbed[r] => seen[r] = Artifact(bytes[r])
      BY <3>1, <2>1 DEF TypeOK, Artifact
    <3>3. ~disturbed[r] => IsArtifact(seen[r])
      BY <3>2, <2>1 DEF IsArtifact
    <3>4. QED
      BY <3>3 DEF TypeOK, CompilesOnlyIfDisturbed
  <2>8. QED
    BY <2>2, <2>3, <2>4, <2>5, <2>6, <2>7
<1>6. ASSUME NEW r \in Requests, Compile(r)
      PROVE  CacheInv'
  <2> USE <1>6 DEF Compile, diskVars
  <2>1. bytes[r] \in Wasms
    BY DEF ModulesMatchBytes
  <2>2. TypeOK'
    <3>1. CASE bytes[r] \in Valid
      <4>1. /\ module' = [module EXCEPT ![r] = Artifact(bytes[r])]
            /\ pc' = [pc EXCEPT ![r] = "store"]
        BY <3>1
      <4>2. module' \in [Requests -> [Block -> Content]]
        BY <2>1, <4>1 DEF TypeOK
      <4>3. QED
        BY <4>1, <4>2 DEF TypeOK
    <3>2. CASE bytes[r] \notin Valid
      <4>1. module' = module /\ pc' = [pc EXCEPT ![r] = "failed"]
        BY <3>2
      <4>2. QED
        BY <4>1 DEF TypeOK
    <3>3. QED
      BY <3>1, <3>2
  <2>3. BlocksMatchKey'
    BY DEF TypeOK, BlocksMatchKey
  <2>4. ModulesMatchBytes'
    BY DEF TypeOK, ModulesMatchBytes
  <2>5. MissingBlocksHaveWriters'
    BY DEF TypeOK, MissingBlocksHaveWriters, Writers
  <2>6. UndisturbedLoadsSeeAll'
    BY DEF TypeOK, UndisturbedLoadsSeeAll
  <2>7. CompilesOnlyIfDisturbed'
    BY DEF TypeOK, CompilesOnlyIfDisturbed
  <2>8. QED
    BY <2>2, <2>3, <2>4, <2>5, <2>6, <2>7
<1>7. ASSUME NEW r \in Requests, StoreOpen(r)
      PROVE  CacheInv'
  <2> USE <1>7 DEF StoreOpen
  <2>1. bytes[r] \in Wasms
    BY DEF ModulesMatchBytes
  <2>2. TypeOK'
    BY <2>1 DEF TypeOK, Block
  <2>3. BlocksMatchKey'
    BY <2>1 DEF TypeOK, BlocksMatchKey
  <2>4. ModulesMatchBytes'
    BY DEF TypeOK, ModulesMatchBytes
  <2>5. MissingBlocksHaveWriters'
    <3> SUFFICES ASSUME NEW k \in Wasms, NEW b \in Block,
                        exists'[k], ~damaged'[k], disk'[k][b] = Hole
                 PROVE  \E q \in Writers(k)' : next'[q] <= b
      BY DEF MissingBlocksHaveWriters
    <3>1. CASE k = bytes[r]
      <4>1. r \in Writers(k)'
        BY <3>1 DEF TypeOK, Writers
      <4>2. next'[r] <= b
        BY DEF TypeOK, Block
      <4>3. QED
        BY <4>1, <4>2
    <3>2. CASE k # bytes[r]
      <4>1. PICK q \in Writers(k) : next[q] <= b
        BY <3>2, <2>1 DEF TypeOK, MissingBlocksHaveWriters
      <4>2. q # r /\ q \in Requests
        BY <4>1, <3>2 DEF Writers
      <4>3. q \in Writers(k)' /\ next'[q] = next[q]
        BY <4>1, <4>2 DEF TypeOK, Writers
      <4>4. QED
        BY <4>1, <4>3
    <3>3. QED
      BY <3>1, <3>2
  <2>6. UndisturbedLoadsSeeAll'
    BY <2>1 DEF TypeOK, UndisturbedLoadsSeeAll, Loading
  <2>7. CompilesOnlyIfDisturbed'
    BY DEF TypeOK, CompilesOnlyIfDisturbed
  <2>8. QED
    BY <2>2, <2>3, <2>4, <2>5, <2>6, <2>7
<1>8. ASSUME NEW r \in Requests, StoreWrite(r)
      PROVE  CacheInv'
  <2> USE <1>8 DEF StoreWrite, StoreWriteUpTo
  <2>1. bytes[r] \in Wasms /\ module[r] = Artifact(bytes[r])
    BY DEF ModulesMatchBytes
  <2>2. module[r][next[r]] = bytes[r]
    BY <2>1 DEF Content
  <2>3. TypeOK'
    BY <2>1, <2>2 DEF TypeOK, Block, Content
  <2>4. BlocksMatchKey'
    BY <2>1, <2>2 DEF TypeOK, BlocksMatchKey
  <2>5. ModulesMatchBytes'
    BY DEF TypeOK, ModulesMatchBytes, Block
  <2>6. MissingBlocksHaveWriters'
    <3> SUFFICES ASSUME NEW k \in Wasms, NEW b \in Block,
                        exists'[k], ~damaged'[k], disk'[k][b] = Hole
                 PROVE  \E q \in Writers(k)' : next'[q] <= b
      BY DEF MissingBlocksHaveWriters
    <3>1. disk[k][b] = Hole /\ ~(k = bytes[r] /\ b = next[r])
      BY <2>1, <2>2 DEF TypeOK
    <3>2. PICK q \in Writers(k) : next[q] <= b
      BY <3>1 DEF MissingBlocksHaveWriters
    <3>3. CASE q = r
      <4>1. k = bytes[r] /\ next[r] < b
        BY <3>1, <3>2, <3>3 DEF Writers, TypeOK, Block
      <4>2. next'[r] <= b /\ pc'[r] = "write"
        BY <4>1 DEF TypeOK, Block
      <4>3. QED
        BY <4>1, <4>2 DEF Writers
    <3>4. CASE q # r
      <4>1. q \in Writers(k)' /\ next'[q] = next[q]
        BY <3>2, <3>4 DEF TypeOK, Writers
      <4>2. QED
        BY <3>2, <4>1
    <3>5. QED
      BY <3>3, <3>4
  <2>7. UndisturbedLoadsSeeAll'
    <3>1. ASSUME NEW k \in Wasms, disk[k] = Artifact(k)
          PROVE  disk'[k] = Artifact(k)
      <4>1. CASE k = bytes[r]
        <5>1. disk'[k] = [disk[k] EXCEPT ![next[r]] = k]
          BY <2>1, <2>2, <4>1 DEF TypeOK
        <5>2. QED
          BY <3>1, <5>1 DEF Artifact
      <4>2. CASE k # bytes[r]
        BY <2>1, <3>1, <4>2 DEF TypeOK
      <4>3. QED
        BY <4>1, <4>2
    <3>2. \A q \in Requests : pc[q] \in {"load", "read"} => bytes[q] \in Wasms
      BY DEF ModulesMatchBytes
    <3>3. QED
      BY <3>1, <3>2 DEF TypeOK, UndisturbedLoadsSeeAll
  <2>8. CompilesOnlyIfDisturbed'
    BY DEF TypeOK, CompilesOnlyIfDisturbed
  <2>9. QED
    BY <2>3, <2>4, <2>5, <2>6, <2>7, <2>8
<1>9. ASSUME NEW r \in Requests, StoreFails(r)
      PROVE  CacheInv'
  <2> USE <1>9 DEF StoreFails
  <2>1. TypeOK'
    BY DEF TypeOK
  <2>2. BlocksMatchKey'
    BY DEF TypeOK, BlocksMatchKey
  <2>3. ModulesMatchBytes'
    BY DEF TypeOK, ModulesMatchBytes
  <2>4. MissingBlocksHaveWriters'
    <3> SUFFICES ASSUME NEW k \in Wasms, NEW b \in Block,
                        exists'[k], ~damaged'[k], disk'[k][b] = Hole
                 PROVE  \E q \in Writers(k)' : next'[q] <= b
      BY DEF MissingBlocksHaveWriters
    <3>1. ~damaged[k] /\ r \notin Writers(k)
      BY DEF TypeOK
    <3>2. PICK q \in Writers(k) : next[q] <= b
      BY <3>1 DEF MissingBlocksHaveWriters
    <3>3. q \in Writers(k)' /\ next'[q] = next[q]
      BY <3>1, <3>2 DEF TypeOK, Writers
    <3>4. QED
      BY <3>2, <3>3
  <2>5. UndisturbedLoadsSeeAll'
    BY DEF TypeOK, UndisturbedLoadsSeeAll
  <2>6. CompilesOnlyIfDisturbed'
    BY DEF TypeOK, CompilesOnlyIfDisturbed
  <2>7. QED
    BY <2>1, <2>2, <2>3, <2>4, <2>5, <2>6
<1>10. ASSUME NEW r \in Requests, Finish(r)
       PROVE  CacheInv'
  <2> USE <1>10 DEF Finish, diskVars
  <2>1. TypeOK'
    BY DEF TypeOK, Content, Block
  <2>2. BlocksMatchKey'
    BY DEF TypeOK, BlocksMatchKey
  <2>3. ModulesMatchBytes'
    BY DEF TypeOK, ModulesMatchBytes
  <2>4. MissingBlocksHaveWriters'
    BY DEF TypeOK, MissingBlocksHaveWriters, Writers
  <2>5. UndisturbedLoadsSeeAll'
    BY DEF TypeOK, UndisturbedLoadsSeeAll
  <2>6. CompilesOnlyIfDisturbed'
    BY DEF TypeOK, CompilesOnlyIfDisturbed
  <2>7. QED
    BY <2>1, <2>2, <2>3, <2>4, <2>5, <2>6
<1>11. ASSUME Crash
       PROVE  CacheInv'
  <2> USE <1>11 DEF Crash
  <2>1. TypeOK'
    BY DEF TypeOK, Content, Block
  <2>2. BlocksMatchKey'
    BY DEF TypeOK, BlocksMatchKey
  <2>3. ModulesMatchBytes'
    BY DEF TypeOK, ModulesMatchBytes
  <2>4. MissingBlocksHaveWriters'
    <3> SUFFICES ASSUME NEW k \in Wasms, NEW b \in Block,
                        exists'[k], ~damaged'[k], disk'[k][b] = Hole
                 PROVE  FALSE
      BY DEF MissingBlocksHaveWriters
    <3>1. ~damaged[k] /\ Writers(k) = {}
      BY DEF TypeOK
    <3>2. QED
      BY <3>1 DEF MissingBlocksHaveWriters
  <2>5. UndisturbedLoadsSeeAll'
    BY DEF UndisturbedLoadsSeeAll
  <2>6. CompilesOnlyIfDisturbed'
    BY DEF CompilesOnlyIfDisturbed
  <2>7. QED
    BY <2>1, <2>2, <2>3, <2>4, <2>5, <2>6
<1>12. CASE UNCHANGED vars
  <2> USE <1>12 DEF vars
  <2>1. TypeOK' /\ BlocksMatchKey' /\ ModulesMatchBytes'
    BY DEF TypeOK, BlocksMatchKey, ModulesMatchBytes
  <2>2. MissingBlocksHaveWriters'
    BY DEF MissingBlocksHaveWriters, Writers
  <2>3. UndisturbedLoadsSeeAll' /\ CompilesOnlyIfDisturbed'
    BY DEF UndisturbedLoadsSeeAll, CompilesOnlyIfDisturbed
  <2>4. QED
    BY <2>1, <2>2, <2>3
<1>13. QED
  BY <1>1, <1>2, <1>3, <1>4, <1>5, <1>6, <1>7, <1>8, <1>9, <1>10, <1>11, <1>12
     DEF Next, Step
-----------------------------------------------------------------------------
(***************************************************************************)
(* The cache protocol keeps its inductive invariant, for every number of   *)
(* concurrent requests, every crash and every failed or overlapping store  *)
(* of `App::module`.                                                       *)
(***************************************************************************)
THEOREM CacheInvariant == Spec => []CacheInv
<1>1. Init => CacheInv
  BY CacheInit
<1>2. CacheInv /\ [Next]_vars => CacheInv'
  BY CacheStep
<1>3. QED
  BY <1>1, <1>2, PTL DEF Spec

(***************************************************************************)
(* `App::module` never hands a request a module that was not compiled from *)
(* the bytes that request read, and never one made of a torn entry.        *)
(***************************************************************************)
THEOREM RequestsRunOwnBinary == Spec => []RunsOwnBinary
<1>1. CacheInv => RunsOwnBinary
  BY DEF CacheInv, ModulesMatchBytes, RunsOwnBinary
<1>2. QED
  BY <1>1, CacheInvariant, PTL

(***************************************************************************)
(* Once no request is writing an entry and no store of it was cut short,   *)
(* the entry is complete: overlapping stores of `App::module` repair each  *)
(* other's holes.                                                          *)
(***************************************************************************)
THEOREM EntriesCompleteAtRest == Spec => []NoTornEntryAtRest
<1>1. CacheInv => NoTornEntryAtRest
  <2> SUFFICES ASSUME CacheInv, NEW k \in Wasms,
                      exists[k], ~damaged[k], Writers(k) = {}
               PROVE  Complete(k)
    BY DEF NoTornEntryAtRest
  <2>1. \A b \in Block : disk[k][b] = k
    BY DEF CacheInv, MissingBlocksHaveWriters, BlocksMatchKey
  <2>2. disk[k] = Artifact(k)
    BY <2>1 DEF CacheInv, TypeOK, Artifact
  <2>3. QED
    BY <2>2 DEF Complete, IsArtifact
<1>2. QED
  BY <1>1, CacheInvariant, PTL

(***************************************************************************)
(* `App::module` compiles only when its own load met an absent or          *)
(* incomplete entry: a complete entry nobody rewrites is always a hit.     *)
(***************************************************************************)
THEOREM CompileOnlyOnMiss == Spec => []CompilesOnlyIfDisturbed
<1>1. CacheInv => CompilesOnlyIfDisturbed
  BY DEF CacheInv
<1>2. QED
  BY <1>1, CacheInvariant, PTL
=============================================================================
