---------------------------- MODULE ModuleCache ----------------------------
(***************************************************************************)
(* The on-disk cache of compiled modules: `App::module` of src/wasm.rs,    *)
(* run by many requests at once (and by any other server process that      *)
(* shares the directory).                                                  *)
(*                                                                         *)
(* The cache directory is the only state the requests share and nothing    *)
(* locks it.  `cache.store` creates or truncates the entry and then writes *)
(* it, `cache.load` opens the entry and reads it, and both are interleaved *)
(* with the loads and stores of other requests for the same key.  An       *)
(* artifact is NumBlocks blocks; the unit of interleaving is one block.    *)
(* A block is identified with the binary it was compiled from.             *)
(***************************************************************************)
EXTENDS Naturals

CONSTANTS Requests,   \* the request slots: tasks that may run at once
          Wasms,      \* the byte strings a handler may read from a script file
          Valid,      \* those that `Module::from_binary` accepts
          NumBlocks,  \* blocks of a serialized artifact
          Hole        \* the content of a block that has not been written

ASSUME CacheAssumption ==
    /\ Valid \subseteq Wasms
    /\ NumBlocks \in Nat \ {0}
    /\ Hole \notin Wasms

VARIABLES
    exists,     \* exists[k]: there is a file for key k
    disk,       \* disk[k][b]: block b of the file of key k
    pc,         \* pc[r]: where request r is in `module`
    bytes,      \* bytes[r]: self.0, the binary of request r
    module,     \* module[r]: the module r loaded or compiled
    next,       \* next[r]: the next block r reads or writes
    seen,       \* seen[r]: the blocks read by r's load so far
    (***********************************************************************)
    (* History variables.                                                  *)
    (***********************************************************************)
    damaged,    \* damaged[k]: the last store of k to end was cut short
    disturbed   \* disturbed[r]: the entry was incomplete at some point of r's load

diskVars == <<exists, disk, damaged>>
vars == <<exists, disk, pc, bytes, module, next, seen, damaged, disturbed>>

Block == 1..NumBlocks
Content == Wasms \cup {Hole}
Empty == [b \in Block |-> Hole]

\* Mutation: a key that does not depend on the bytes.
SharedKey(w) == CHOOSE v \in Wasms : TRUE

\* `Hash::generate(&self.0)`: the key is a collision-free hash of the bytes.
Key(w) == w

\* An artifact as `module.serialize` produces it for the binary w.
Artifact(w) == [b \in Block |-> w]

\* The engine's `deserialize`: it makes a module of an artifact that is all
\* there and reports anything else as corrupted.
IsArtifact(blocks) == \E w \in Wasms : blocks = Artifact(w)

Complete(k) == exists[k] /\ IsArtifact(disk[k])

\* The requests that have the file of key k open for writing.
Writers(k) == {r \in Requests : pc[r] = "write" /\ Key(bytes[r]) = k}

Loading(k) == {r \in Requests : pc[r] \in {"load", "read"} /\ Key(bytes[r]) = k}

TypeOK ==
    /\ exists \in [Wasms -> BOOLEAN]
    /\ disk \in [Wasms -> [Block -> Content]]
    /\ pc \in [Requests -> {"idle", "load", "read", "compile", "store",
                            "write", "done", "failed"}]
    /\ bytes \in [Requests -> Content]
    /\ module \in [Requests -> [Block -> Content]]
    /\ next \in [Requests -> 1..(NumBlocks + 1)]
    /\ seen \in [Requests -> [Block -> Content]]
    /\ damaged \in [Wasms -> BOOLEAN]
    /\ disturbed \in [Requests -> BOOLEAN]
-----------------------------------------------------------------------------
Init ==
    /\ exists = [k \in Wasms |-> FALSE]
    /\ disk = [k \in Wasms |-> Empty]
    /\ pc = [r \in Requests |-> "idle"]
    /\ bytes = [r \in Requests |-> Hole]
    /\ module = [r \in Requests |-> Empty]
    /\ next = [r \in Requests |-> 1]
    /\ seen = [r \in Requests |-> Empty]
    /\ damaged = [k \in Wasms |-> FALSE]
    /\ disturbed = [r \in Requests |-> FALSE]

\* The handler has read w from the script file and calls `App::new(w).module()`;
\* `get_cache` succeeds.
Begin(r, w) ==
    /\ pc[r] = "idle"
    /\ pc' = [pc EXCEPT ![r] = "load"]
    /\ bytes' = [bytes EXCEPT ![r] = w]
    /\ disturbed' = [disturbed EXCEPT ![r] = ~Complete(Key(w))]
    /\ UNCHANGED <<diskVars, module, next, seen>>

\* `get_cache()?` fails: the directory cannot be created or is not writable.
BeginFails(r, w) ==
    /\ pc[r] = "idle"
    /\ pc' = [pc EXCEPT ![r] = "failed"]
    /\ bytes' = [bytes EXCEPT ![r] = w]
    /\ UNCHANGED <<diskVars, module, next, seen, disturbed>>

LoadOpenIf(r, hit) ==
    /\ pc[r] = "load"
    /\ pc' = [pc EXCEPT ![r] = IF hit THEN "read" ELSE "compile"]
    /\ next' = [next EXCEPT ![r] = 1]
    /\ seen' = [seen EXCEPT ![r] = Empty]
    /\ UNCHANGED <<diskVars, bytes, module, disturbed>>

\* Mutation: the entry is never looked for.
LoadOpenNever(r) == LoadOpenIf(r, FALSE)

\* `cache.load` opens the entry.  No file is `DeserializeError::Io`, which is
\* the silent miss.
LoadOpen(r) == LoadOpenIf(r, exists[Key(bytes[r])])

\* `cache.load` reads one more block of the entry.
LoadRead(r) ==
    /\ pc[r] = "read"
    /\ next[r] \in Block
    /\ seen' = [seen EXCEPT ![r] = [@ EXCEPT ![next[r]] = disk[Key(bytes[r])][next[r]]]]
    /\ next' = [next EXCEPT ![r] = @ + 1]
    /\ UNCHANGED <<diskVars, pc, bytes, module, disturbed>>

LoadEndElse(r, onError) ==
    /\ pc[r] = "read"
    /\ next[r] = NumBlocks + 1
    /\ \/ /\ IsArtifact(seen[r])
          /\ module' = [module EXCEPT ![r] = seen[r]]
          /\ pc' = [pc EXCEPT ![r] = "done"]
       \/ /\ ~IsArtifact(seen[r])
          /\ pc' = [pc EXCEPT ![r] = onError]
          /\ UNCHANGED module
    /\ UNCHANGED <<diskVars, bytes, next, seen, disturbed>>

\* Mutation: a corrupted entry is loaded again until it is whole.
LoadEndRetries(r) == LoadEndElse(r, "load")

\* `cache.load` returns: `Ok(module) => Ok(module)` ends the function, any
\* error falls through to the compiler.
LoadEnd(r) == LoadEndElse(r, "compile")

\* `Module::from_binary(&store, &self.0)?`
Compile(r) ==
    /\ pc[r] = "compile"
    /\ \/ /\ bytes[r] \in Valid
          /\ module' = [module EXCEPT ![r] = Artifact(bytes[r])]
          /\ pc' = [pc EXCEPT ![r] = "store"]
       \/ /\ bytes[r] \notin Valid
          /\ pc' = [pc EXCEPT ![r] = "failed"]
          /\ UNCHANGED module
    /\ UNCHANGED <<diskVars, bytes, next, seen, disturbed>>

\* `cache.store` creates or truncates the entry.  Every load of that key still
\* under way may now see it incomplete.
StoreOpen(r) ==
    LET k == Key(bytes[r]) IN
    /\ pc[r] = "store"
    /\ exists' = [exists EXCEPT ![k] = TRUE]
    /\ disk' = [disk EXCEPT ![k] = Empty]
    /\ damaged' = [damaged EXCEPT ![k] = FALSE]
    /\ next' = [next EXCEPT ![r] = 1]
    /\ pc' = [pc EXCEPT ![r] = "write"]
    /\ disturbed' = [q \in Requests |-> disturbed[q] \/ q \in Loading(k)]
    /\ UNCHANGED <<bytes, module, seen>>

StoreWriteUpTo(r, last) ==
    LET k == Key(bytes[r]) IN
    /\ pc[r] = "write"
    /\ next[r] \in Block
    /\ disk' = [disk EXCEPT ![k] = [@ EXCEPT ![next[r]] = module[r][next[r]]]]
    /\ next' = [next EXCEPT ![r] = @ + 1]
    /\ pc' = [pc EXCEPT ![r] = IF next[r] = last THEN "done" ELSE "write"]
    /\ UNCHANGED <<exists, bytes, module, seen, damaged, disturbed>>

\* `cache.store` writes one more block, at the offset its own file descriptor
\* has reached; after the last one `module` returns `Ok(module)`.
StoreWrite(r) == StoreWriteUpTo(r, NumBlocks)

\* `cache.store(hash, &module)?` fails, before it opened the entry or part way
\* through (no space left): the error leaves `module`, and what was written
\* stays.
StoreFails(r) ==
    /\ pc[r] \in {"store", "write"}
    /\ pc' = [pc EXCEPT ![r] = "failed"]
    /\ damaged' = [k \in Wasms |-> damaged[k] \/ r \in Writers(k)]
    /\ UNCHANGED <<exists, disk, bytes, module, next, seen, disturbed>>

\* The request is over and its slot is free for another one.
Finish(r) ==
    /\ pc[r] \in {"done", "failed"}
    /\ pc' = [pc EXCEPT ![r] = "idle"]
    /\ bytes' = [bytes EXCEPT ![r] = Hole]
    /\ module' = [module EXCEPT ![r] = Empty]
    /\ next' = [next EXCEPT ![r] = 1]
    /\ seen' = [seen EXCEPT ![r] = Empty]
    /\ disturbed' = [disturbed EXCEPT ![r] = FALSE]
    /\ UNCHANGED diskVars

\* The server dies and is started again: every request is gone, the directory
\* stays as it was, entries that were being written included.
Crash ==
    /\ pc' = [r \in Requests |-> "idle"]
    /\ bytes' = [r \in Requests |-> Hole]
    /\ module' = [r \in Requests |-> Empty]
    /\ next' = [r \in Requests |-> 1]
    /\ seen' = [r \in Requests |-> Empty]
    /\ disturbed' = [r \in Requests |-> FALSE]
    /\ damaged' = [k \in Wasms |-> damaged[k] \/ Writers(k) # {}]
    /\ UNCHANGED <<exists, disk>>

Step(r) ==
    \/ LoadOpen(r) \/ LoadRead(r) \/ LoadEnd(r)
    \/ Compile(r)
    \/ StoreOpen(r) \/ StoreWrite(r) \/ StoreFails(r)

Next ==
    \/ \E r \in Requests :
        \/ \E w \in Wasms : Begin(r, w) \/ BeginFails(r, w)
        \/ Step(r)
        \/ Finish(r)
    \/ Crash

Spec == Init /\ [][Next]_vars

\* `module` runs to its end without waiting for anything: a started call takes
\* its next step as long as its worker thread runs.
FairSpec == Spec /\ \A r \in Requests : WF_vars(Step(r))
-----------------------------------------------------------------------------
(***************************************************************************)
(* The module a request goes on to instantiate is the one compiled from    *)
(* the bytes its handler read, whatever other requests, a crash or a       *)
(* failed write did to the entry meanwhile.                                *)
(***************************************************************************)
RunsOwnBinary ==
    \A r \in Requests : pc[r] = "done" => module[r] = Artifact(bytes[r])

(***************************************************************************)
(* No entry stays torn behind the back of the requests: an entry that no   *)
(* request is writing and whose last store was not cut short is complete,  *)
(* in whatever order the stores of several requests truncated and wrote    *)
(* the file.                                                               *)
(***************************************************************************)
NoTornEntryAtRest ==
    \A k \in Wasms : exists[k] /\ ~damaged[k] /\ Writers(k) = {} => Complete(k)

(***************************************************************************)
(* The cache saves the work it is there to save: a request compiles only   *)
(* if the entry was absent or incomplete at some point of its own load.    *)
(***************************************************************************)
CompilesOnlyIfDisturbed ==
    \A r \in Requests : pc[r] \in {"compile", "store", "write"} => disturbed[r]

(***************************************************************************)
(* A started call of `module` ends: with a module, with an error, or with  *)
(* the death of the server.                                                *)
(***************************************************************************)
EveryCallEnds ==
    \A r \in Requests : pc[r] = "load" ~> pc[r] \in {"done", "failed", "idle"}
-----------------------------------------------------------------------------
(***************************************************************************)
(* The inductive invariant behind the three safety properties.             *)
(***************************************************************************)

\* An entry holds blocks of the binary it is named after and no other; a load
\* can have read no other.
BlocksMatchKey ==
    /\ \A k \in Wasms, b \in Block : disk[k][b] \in {k, Hole}
    /\ \A r \in Requests, b \in Block : seen[r][b] \in {bytes[r], Hole}

\* A running call has a binary, and what it stores or returns was made from it.
ModulesMatchBytes ==
    \A r \in Requests :
        /\ pc[r] # "idle" => bytes[r] \in Wasms
        /\ pc[r] = "idle" => seen[r] = Empty
        /\ pc[r] \in {"store", "write", "done"} => module[r] = Artifact(bytes[r])
        /\ pc[r] = "write" => next[r] \in Block

\* A block missing from an undamaged entry is still to be written by a request
\* that truncated the file and has not got that far.
MissingBlocksHaveWriters ==
    \A k \in Wasms, b \in Block :
        exists[k] /\ ~damaged[k] /\ disk[k][b] = Hole
            => \E r \in Writers(k) : next[r] <= b

\* An undisturbed load has read, and will go on reading, a complete entry.
UndisturbedLoadsSeeAll ==
    \A r \in Requests :
        /\ pc[r] \in {"load", "read"} /\ ~disturbed[r]
              => exists[bytes[r]] /\ disk[bytes[r]] = Artifact(bytes[r])
        /\ pc[r] = "read" /\ ~disturbed[r]
              => \A b \in Block : b < next[r] => seen[r][b] = bytes[r]

(***************************************************************************)
(* The inductive invariant of the cache protocol: it ties every block on   *)
(* disk, and every block missing from it, to the requests that wrote, read *)
(* or still have to write it.                                              *)
(***************************************************************************)
CacheInv ==
    /\ TypeOK
    /\ BlocksMatchKey
    /\ ModulesMatchBytes
    /\ MissingBlocksHaveWriters
    /\ UndisturbedLoadsSeeAll
    /\ CompilesOnlyIfDisturbed
=============================================================================
