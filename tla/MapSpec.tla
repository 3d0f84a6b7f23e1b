------------------------------- MODULE MapSpec -------------------------------
(***************************************************************************)
(* What Map and Set promise: the entries in the order of their insertion,  *)
(* and, for a cursor (an iterator or a forEach), the entries it has yet to *)
(* visit.  An entry that is added is visited by every cursor that has not  *)
(* ended; one that is deleted is not.                                      *)
(***************************************************************************)
EXTENDS Sequences, SequencesExt

CONSTANTS Keys, Vals, Cursors

VARIABLES entries,   \* sequence of <<key, value>>
          todo       \* the entries each cursor will visit, or <<>>
VARIABLES running,   \* the cursors that have started and not ended
          out        \* the entry the last step returned, or <<>>

specVars == <<entries, todo, running, out>>

HasKey(s, k) == \E i \in DOMAIN s : s[i][1] = k
Updated(s, k, v) == [i \in DOMAIN s |-> IF s[i][1] = k THEN <<k, v>> ELSE s[i]]
Removed(s, k) == SelectSeq(s, LAMBDA e : e[1] # k)

Init == entries = <<>> /\ todo = [c \in Cursors |-> <<>>] /\ running = {} /\ out = <<>>

Set(k, v) ==
    /\ IF HasKey(entries, k)
       THEN /\ entries' = Updated(entries, k, v)
            /\ todo' = [c \in Cursors |-> Updated(todo[c], k, v)]
       ELSE /\ entries' = Append(entries, <<k, v>>)
            /\ todo' = [c \in Cursors |-> IF c \in running THEN Append(todo[c], <<k, v>>) ELSE <<>>]
    /\ out' = <<>> /\ UNCHANGED running

Delete(k) ==
    /\ entries' = Removed(entries, k)
    /\ todo' = [c \in Cursors |-> Removed(todo[c], k)]
    /\ out' = <<>> /\ UNCHANGED running

Clear ==
    /\ entries' = <<>> /\ todo' = [c \in Cursors |-> <<>>]
    /\ out' = <<>> /\ UNCHANGED running

Start(c) ==
    /\ c \notin running
    /\ todo' = [todo EXCEPT ![c] = entries] /\ running' = running \cup {c}
    /\ out' = <<>> /\ UNCHANGED entries

Visit(c) ==
    /\ c \in running /\ todo[c] # <<>>
    /\ todo' = [todo EXCEPT ![c] = Tail(@)]
    /\ out' = Head(todo[c])
    /\ UNCHANGED <<entries, running>>

Stop(c) ==
    /\ todo' = [todo EXCEPT ![c] = <<>>] /\ running' = running \ {c}
    /\ out' = <<>> /\ UNCHANGED entries

Next ==
    \/ \E k \in Keys, v \in Vals : Set(k, v)
    \/ \E k \in Keys : Delete(k)
    \/ Clear
    \/ \E c \in Cursors : Start(c) \/ Visit(c) \/ Stop(c)

Spec == Init /\ [][Next]_specVars
=============================================================================
