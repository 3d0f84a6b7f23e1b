---------------------------- MODULE OsLoopProofs ----------------------------
(***************************************************************************)
(* Proofs about the event loop: for any set of timers, descriptors and     *)
(* delays, and any bounds on the clock, the jobs and the changes of        *)
(* handlers.                                                               *)
(***************************************************************************)
EXTENDS OsLoop, SequenceTheorems, NaturalsInduction, WellFoundedInduction, TLAPS

\* A set of naturals has a least element (the first expired timer of the list).
LEMMA LeastExists ==
    ASSUME NEW S \in SUBSET Nat, S # {}
    PROVE  \E i \in S : \A j \in S : i <= j
<1> DEFINE R == OpToRel(<, Nat)
<1>1. PICK i \in S : \A j \in S : <<j, i>> \notin R
  BY NatLessThanWellFounded, WFMin
<1>2. R = {p \in Nat \X Nat : p[1] < p[2]}
  BY Zenon DEF OpToRel
<1> HIDE DEF R
<1>3. \A j \in S : <<j, i>> \in Nat \X Nat
  OBVIOUS
<1>4. \A j \in S : ~(j < i)
  BY <1>1, <1>2, <1>3
<1> QED
  BY <1>4

\* `list_del` leaves the other elements, in their order.
LEMMA RemovedFacts ==
    ASSUME NEW S, NEW s \in Seq(S), NEW i \in DOMAIN s
    PROVE  /\ Removed(s, i) \in Seq(S)
           /\ Len(Removed(s, i)) = Len(s) - 1
           /\ \A k \in 1..(Len(s) - 1) :
                Removed(s, i)[k] = IF k < i THEN s[k] ELSE s[k + 1]
<1> DEFINE a == SubSeq(s, 1, i - 1)
           b == SubSeq(s, i + 1, Len(s))
<1>1. Len(s) \in Nat /\ DOMAIN s = 1..Len(s) /\ i \in 1..Len(s)
  BY LenProperties
<1>2. \A k \in 1..Len(s) : s[k] \in S
  BY ElementOfSeq
<1>3. /\ a \in Seq(S) /\ Len(a) = i - 1
      /\ \A k \in 1..(i - 1) : a[k] = s[k]
  <2>1. \A k \in 1..(i - 1) : s[k] \in S
    BY <1>1, <1>2
  <2>2. /\ a \in Seq(S)
        /\ Len(a) = IF 1 <= i - 1 THEN (i - 1) - 1 + 1 ELSE 0
        /\ \A k \in 1..((i - 1) - 1 + 1) : a[k] = s[1 + k - 1]
    BY <2>1, <1>1, SubSeqProperties
  <2> HIDE DEF a
  <2>3. \A k \in 1..(i - 1) : 1 + k - 1 = k /\ k \in 1..((i - 1) - 1 + 1)
    BY <1>1
  <2>4. (IF 1 <= i - 1 THEN (i - 1) - 1 + 1 ELSE 0) = i - 1
    BY <1>1
  <2> QED
    BY <2>2, <2>3, <2>4
<1>4. /\ b \in Seq(S) /\ Len(b) = Len(s) - i
      /\ \A k \in 1..(Len(s) - i) : b[k] = s[i + k]
  <2>1. \A k \in (i + 1)..Len(s) : s[k] \in S
    BY <1>1, <1>2
  <2>2. /\ b \in Seq(S)
        /\ Len(b) = IF i + 1 <= Len(s) THEN Len(s) - (i + 1) + 1 ELSE 0
        /\ \A k \in 1..(Len(s) - (i + 1) + 1) : b[k] = s[(i + 1) + k - 1]
    BY <2>1, <1>1, SubSeqProperties
  <2> HIDE DEF b
  <2>3. \A k \in 1..(Len(s) - i) :
          (i + 1) + k - 1 = i + k /\ k \in 1..(Len(s) - (i + 1) + 1)
    BY <1>1
  <2>4. (IF i + 1 <= Len(s) THEN Len(s) - (i + 1) + 1 ELSE 0) = Len(s) - i
    BY <1>1
  <2> QED
    BY <2>2, <2>3, <2>4
<1>5. Removed(s, i) = a \o b
  BY DEF Removed
<1> HIDE DEF a, b
<1>6. /\ a \o b \in Seq(S)
      /\ Len(a \o b) = Len(a) + Len(b)
      /\ \A k \in 1..(Len(a) + Len(b)) :
            (a \o b)[k] = IF k <= Len(a) THEN a[k] ELSE b[k - Len(a)]
  BY <1>3, <1>4, ConcatProperties
<1>7. Len(a) + Len(b) = Len(s) - 1
  BY <1>1, <1>3, <1>4
<1>8. ASSUME NEW k \in 1..(Len(s) - 1)
      PROVE  Removed(s, i)[k] = IF k < i THEN s[k] ELSE s[k + 1]
  <2>1. (a \o b)[k] = IF k <= i - 1 THEN a[k] ELSE b[k - (i - 1)]
    BY <1>3, <1>6, <1>7
  <2>2. CASE k < i
    BY <2>1, <2>2, <1>1, <1>3, <1>5
  <2>3. CASE ~(k < i)
    <3>1. k - (i - 1) \in 1..(Len(s) - i) /\ i + (k - (i - 1)) = k + 1 /\ ~(k <= i - 1)
      BY <2>3, <1>1
    <3> QED
      BY <3>1, <2>1, <2>3, <1>4, <1>5
  <2> QED
    BY <2>2, <2>3
<1> QED
  BY <1>5, <1>6, <1>7, <1>8

\* After `list_del` the list has the elements of the other places, and elements
\* of different places stay at different places.
LEMMA RemovedKeeps ==
    ASSUME NEW S, NEW s \in Seq(S), NEW i \in DOMAIN s
    PROVE  /\ \A k \in DOMAIN Removed(s, i) :
                \E j \in DOMAIN s : j # i /\ Removed(s, i)[k] = s[j]
           /\ \A j \in DOMAIN s : j # i =>
                \E k \in DOMAIN Removed(s, i) : Removed(s, i)[k] = s[j]
           /\ \A k, l \in DOMAIN Removed(s, i) : k # l =>
                \E p, q \in DOMAIN s : /\ p # q
                                       /\ Removed(s, i)[k] = s[p]
                                       /\ Removed(s, i)[l] = s[q]
<1> DEFINE r == Removed(s, i)
<1>1. Len(s) \in Nat /\ DOMAIN s = 1..Len(s) /\ i \in 1..Len(s)
  BY LenProperties
<1>2. /\ r \in Seq(S) /\ Len(r) = Len(s) - 1
      /\ \A k \in 1..(Len(s) - 1) : r[k] = IF k < i THEN s[k] ELSE s[k + 1]
  BY RemovedFacts
<1> HIDE DEF r
<1>3. DOMAIN r = 1..(Len(s) - 1)
  BY <1>2, LenProperties
<1>4. ASSUME NEW k \in DOMAIN r
      PROVE  \E j \in DOMAIN s : j # i /\ r[k] = s[j]
  <2>1. CASE k < i
    BY <2>1, <1>1, <1>2, <1>3
  <2>2. CASE ~(k < i)
    <3>1. k + 1 \in 1..Len(s) /\ k + 1 # i
      BY <2>2, <1>1, <1>3
    <3> QED
      BY <3>1, <2>2, <1>1, <1>2, <1>3
  <2> QED
    BY <2>1, <2>2
<1>5. ASSUME NEW j \in DOMAIN s, j # i
      PROVE  \E k \in DOMAIN r : r[k] = s[j]
  <2>1. CASE j < i
    BY <2>1, <1>1, <1>2, <1>3
  <2>2. CASE ~(j < i)
    <3>1. j - 1 \in 1..(Len(s) - 1) /\ ~(j - 1 < i) /\ (j - 1) + 1 = j
      BY <2>2, <1>1, <1>5
    <3> QED
      BY <3>1, <1>2, <1>3
  <2> QED
    BY <2>1, <2>2
<1>6. ASSUME NEW k \in DOMAIN r, NEW l \in DOMAIN r, k # l
      PROVE  \E p, q \in DOMAIN s : p # q /\ r[k] = s[p] /\ r[l] = s[q]
  <2> DEFINE p == IF k < i THEN k ELSE k + 1
             q == IF l < i THEN l ELSE l + 1
  <2>1. p \in DOMAIN s /\ q \in DOMAIN s /\ p # q
    BY <1>1, <1>3, <1>6
  <2>2. r[k] = s[p] /\ r[l] = s[q]
    BY <1>2, <1>3
  <2> QED
    BY <2>1, <2>2
<1> QED
  BY <1>4, <1>5, <1>6 DEF r

\* `unlink_timer` takes the timer, and only it, off the list.
LEMMA UnlinkedFacts ==
    ASSUME timers \in Seq(Timers), NEW t \in Timers,
           \A i, j \in DOMAIN timers : timers[i] = timers[j] => i = j
    PROVE  /\ Unlinked(t) \in Seq(Timers)
           /\ \A u \in Timers :
                (\E i \in DOMAIN Unlinked(t) : Unlinked(t)[i] = u) <=> Linked(u) /\ u # t
           /\ \A i, j \in DOMAIN Unlinked(t) : Unlinked(t)[i] = Unlinked(t)[j] => i = j
<1>1. CASE ~Linked(t)
  BY <1>1 DEF Unlinked, Linked
<1>2. CASE Linked(t)
  <2> DEFINE c == CHOOSE i \in DOMAIN timers : timers[i] = t
  <2>1. c \in DOMAIN timers /\ timers[c] = t
    BY <1>2 DEF Linked
  <2>2. Unlinked(t) = Removed(timers, c)
    BY <1>2 DEF Unlinked
  <2> HIDE DEF c
  <2> DEFINE r == Removed(timers, c)
  <2>3. r \in Seq(Timers)
    BY <2>1, RemovedFacts
  <2>4. /\ \A k \in DOMAIN r : \E j \in DOMAIN timers : j # c /\ r[k] = timers[j]
        /\ \A j \in DOMAIN timers : j # c => \E k \in DOMAIN r : r[k] = timers[j]
        /\ \A k, l \in DOMAIN r : k # l =>
             \E p, q \in DOMAIN timers : p # q /\ r[k] = timers[p] /\ r[l] = timers[q]
    BY <2>1, RemovedKeeps
  <2> HIDE DEF r
  <2>5. \A u \in Timers : (\E i \in DOMAIN r : r[i] = u) <=> Linked(u) /\ u # t
    BY <2>1, <2>4 DEF Linked
  <2>6. \A i, j \in DOMAIN r : r[i] = r[j] => i = j
    BY <2>4
  <2> QED
    BY <2>2, <2>3, <2>5, <2>6 DEF r
<1> QED
  BY <1>1, <1>2

\* A timer that was not linked is linked by `list_add_tail`, and only it.
LEMMA AppendedFacts ==
    ASSUME timers \in Seq(Timers), NEW t \in Timers, ~Linked(t),
           \A i, j \in DOMAIN timers : timers[i] = timers[j] => i = j
    PROVE  /\ Append(timers, t) \in Seq(Timers)
           /\ \A u \in Timers :
                (\E i \in DOMAIN Append(timers, t) : Append(timers, t)[i] = u)
                    <=> Linked(u) \/ u = t
           /\ \A i, j \in DOMAIN Append(timers, t) :
                Append(timers, t)[i] = Append(timers, t)[j] => i = j
<1> DEFINE a == Append(timers, t)
           n == Len(timers)
<1>1. n \in Nat /\ DOMAIN timers = 1..n
  BY LenProperties
<1>2. /\ a \in Seq(Timers) /\ Len(a) = n + 1
      /\ \A i \in 1..n : a[i] = timers[i]
      /\ a[n + 1] = t
  BY AppendProperties
<1> HIDE DEF a, n
<1>3. DOMAIN a = 1..(n + 1)
  BY <1>2, LenProperties
<1>4. \A i \in DOMAIN a : i \in DOMAIN timers \/ i = n + 1
  BY <1>1, <1>3
<1>5. DOMAIN timers \subseteq DOMAIN a /\ n + 1 \in DOMAIN a
  BY <1>1, <1>3
<1>6. \A i \in DOMAIN timers : a[i] = timers[i] /\ timers[i] # t
  BY <1>1, <1>2 DEF Linked
<1>7. \A u \in Timers : (\E i \in DOMAIN a : a[i] = u) <=> Linked(u) \/ u = t
  BY <1>2, <1>4, <1>5, <1>6 DEF Linked
<1>8. \A i, j \in DOMAIN a : a[i] = a[j] => i = j
  BY <1>2, <1>4, <1>6
<1> QED
  BY <1>2, <1>7, <1>8 DEF a

\* The parts of the invariant that every step has to keep, apart from the handlers.
TypesInv ==
    /\ TypeOK
    /\ th \in [Timers -> Structs] /\ calls \in [Timers -> Seq(Nat)]
    /\ made \in 0..MaxJobs /\ jobs <= made

\* A step that leaves the list, the structs and the calls alone leaves what is
\* known of each timer.
LEMMA TimersUntouched ==
    ASSUME \A t \in Timers : TimerInv(t), UNCHANGED <<timers, th, calls>>
    PROVE  \A t \in Timers : TimerInv(t)'
BY DEF TimerInv, Linked

\* `js_os_setTimeout` keeps the invariant: a struct is set once, so the timer is
\* neither linked nor was it ever called.
LEMMA SetTimeoutKeeps ==
    ASSUME OsInv, NEW t \in Timers, NEW d \in Delays, SetTimeout(t, d), Delays \subseteq Nat,
           MaxNow \in Nat
    PROVE  OsInv'
<1> USE DEF SetTimeout, Running
<1>1. /\ timers \in Seq(Timers) /\ th \in [Timers -> Structs] /\ now \in Nat /\ now + d \in Nat
      /\ \A i, j \in DOMAIN timers : timers[i] = timers[j] => i = j
      /\ TimerInv(t)
  BY DEF OsInv, TypeOK, ListInv
<1>2. ~Linked(t) /\ calls[t] = <<>>
  BY <1>1 DEF TimerInv, Fresh
<1>3. /\ timers' \in Seq(Timers)
      /\ \A u \in Timers : Linked(u)' <=> Linked(u) \/ u = t
      /\ \A i, j \in DOMAIN timers' : timers'[i] = timers'[j] => i = j
  BY <1>1, <1>2, AppendedFacts DEF Linked
<1>4. /\ th'[t] = [alloc |-> TRUE, object |-> TRUE, func |-> TRUE, due |-> now + d,
                   frees |-> 0, cleared |-> FALSE]
      /\ \A u \in Timers \ {t} : th'[u] = th[u]
  BY <1>1 DEF Fresh
<1>5. th' \in [Timers -> Structs]
  <2>1. [Fresh EXCEPT !.alloc = TRUE, !.object = TRUE, !.func = TRUE, !.due = now + d]
            \in Structs
    BY <1>1 DEF Fresh, Structs
  <2> QED
    BY <1>1, <2>1
<1>6. TypesInv'
  <2>1. \A u \in Timers : th'[u].due \in Nat /\ th'[u].frees \in Nat
    BY <1>5 DEF Structs
  <2> QED
    BY <1>3, <1>5, <2>1 DEF TypesInv, OsInv, TypeOK
<1>7. ASSUME NEW u \in Timers PROVE TimerInv(u)'
  <2>1. TimerInv(u) /\ calls' = calls
    BY DEF OsInv
  <2>2. CASE u = t
    <3>1. /\ th'[t].alloc /\ th'[t].object /\ th'[t].func /\ ~th'[t].cleared
          /\ th'[t].frees = 0 /\ Linked(t)' /\ calls'[t] = <<>>
      <4>1. Linked(t)'
        BY <1>3
      <4>2. th'[t].frees = 0
        BY ONLY <1>4
      <4>3. th'[t].alloc /\ th'[t].object /\ th'[t].func /\ ~th'[t].cleared
        BY ONLY <1>4
      <4> QED
        BY <4>1, <4>2, <4>3, <2>1, <1>2
    <3>2. Len(<<>>) = 0 /\ DOMAIN <<>> = {}
      BY EmptySeq, LenProperties
    <3> QED
      BY <2>2, <3>1, <3>2 DEF TimerInv
  <2>3. CASE u # t
    BY <2>1, <2>3, <1>3, <1>4 DEF TimerInv
  <2> QED
    BY <2>2, <2>3
<1>8. ListInv'
  BY <1>3 DEF OsInv, ListInv
<1>9. HandlersInv'
  BY DEF OsInv, HandlersInv
<1> QED
  BY <1>6, <1>7, <1>8, <1>9 DEF OsInv, TypesInv

\* `js_os_clearTimeout` keeps the invariant: the struct stays with its object.
LEMMA ClearTimeoutKeeps ==
    ASSUME OsInv, NEW t \in Timers, ClearTimeout(t)
    PROVE  OsInv'
<1> USE DEF ClearTimeout, Running
<1>1. /\ timers \in Seq(Timers) /\ th \in [Timers -> Structs]
      /\ \A i, j \in DOMAIN timers : timers[i] = timers[j] => i = j
      /\ TimerInv(t)
  BY DEF OsInv, TypeOK, ListInv
<1>2. /\ timers' \in Seq(Timers)
      /\ \A u \in Timers : Linked(u)' <=> Linked(u) /\ u # t
      /\ \A i, j \in DOMAIN timers' : timers'[i] = timers'[j] => i = j
  <2>1. timers' = Unlinked(t)
    OBVIOUS
  <2>2. \A u \in Timers : Linked(u)' <=> \E i \in DOMAIN timers' : timers'[i] = u
    BY DEF Linked
  <2> QED
    BY <1>1, <2>1, <2>2, UnlinkedFacts
<1>3. /\ th'[t] = [th[t] EXCEPT !.cleared = @ \/ Linked(t)]
      /\ \A u \in Timers \ {t} : th'[u] = th[u]
      /\ Linked(t) \in BOOLEAN
  <2>1. Linked(t) \in BOOLEAN
    BY DEF Linked
  <2> QED
    BY <1>1, <2>1
<1>4. th' \in [Timers -> Structs]
  <2>1. [th[t] EXCEPT !.cleared = @ \/ Linked(t)] \in Structs
    BY <1>1, <1>3 DEF Structs
  <2> QED
    BY <1>1, <2>1
<1>5. TypesInv'
  <2>1. \A u \in Timers : th'[u].due \in Nat /\ th'[u].frees \in Nat
    BY <1>4 DEF Structs
  <2> QED
    BY <1>2, <1>4, <2>1 DEF TypesInv, OsInv, TypeOK
<1>6. ASSUME NEW u \in Timers PROVE TimerInv(u)'
  <2>1. TimerInv(u) /\ calls' = calls
    BY DEF OsInv
  <2>2. CASE u = t
    <3>1. /\ th'[t].alloc = th[t].alloc /\ th'[t].object = th[t].object
          /\ th'[t].frees = th[t].frees /\ th'[t].due = th[t].due
          /\ th'[t].cleared <=> th[t].cleared \/ Linked(t)
      <4>1. /\ th'[t].alloc = th[t].alloc /\ th'[t].object = th[t].object
            /\ th'[t].frees = th[t].frees /\ th'[t].due = th[t].due
        BY <1>1, <1>3, ZenonT(60) DEF Structs
      <4>2. th'[t].cleared <=> th[t].cleared \/ Linked(t)
        BY <1>1, <1>3, SMTT(30) DEF Structs
      <4> QED
        BY <4>1, <4>2
    <3> QED
      BY <2>1, <2>2, <3>1, <1>2 DEF TimerInv
  <2>3. CASE u # t
    BY <2>1, <2>3, <1>2, <1>3 DEF TimerInv
  <2> QED
    BY <2>2, <2>3
<1>7. ListInv'
  BY <1>2 DEF OsInv, ListInv
<1>8. HandlersInv'
  BY DEF OsInv, HandlersInv
<1> QED
  BY <1>5, <1>6, <1>7, <1>8 DEF OsInv, TypesInv

\* What `free_timer` does to a struct.
LEMMA FreedFacts ==
    ASSUME NEW s \in Structs
    PROVE  /\ Freed(s) \in Structs
           /\ ~Freed(s).alloc /\ Freed(s).frees = s.frees + 1
           /\ Freed(s).object = s.object /\ Freed(s).due = s.due
           /\ Freed(s).cleared = s.cleared
<1>1. s.frees \in Nat /\ s.frees + 1 \in Nat
  BY DEF Structs
<1> DEFINE n == s.frees + 1
<1>2. Freed(s) = [s EXCEPT !.alloc = FALSE, !.func = FALSE, !.frees = n]
  BY DEF Freed
<1>3. n \in Nat
  BY <1>1
<1> HIDE DEF n
<1>4. Freed(s) \in Structs
  BY <1>2, <1>3 DEF Structs
<1>5. ~Freed(s).alloc /\ Freed(s).frees = n
  BY <1>2 DEF Structs
<1>6. Freed(s).object = s.object /\ Freed(s).due = s.due /\ Freed(s).cleared = s.cleared
  BY <1>2 DEF Structs
<1> QED
  BY <1>4, <1>5, <1>6 DEF n

\* What the finalizer of the object does to the struct of a timer.
LEMMA FinalizedFacts ==
    ASSUME NEW t \in Timers, th[t] \in Structs
    PROVE  /\ Finalized(t) \in Structs
           /\ ~Finalized(t).object /\ Finalized(t).due = th[t].due
           /\ Finalized(t).cleared = th[t].cleared
           /\ Linked(t) => /\ Finalized(t).alloc = th[t].alloc
                           /\ Finalized(t).frees = th[t].frees
                           /\ Finalized(t).func = th[t].func
           /\ ~Linked(t) => ~Finalized(t).alloc /\ Finalized(t).frees = th[t].frees + 1
<1> DEFINE s == [th[t] EXCEPT !.object = FALSE]
<1>1. /\ s \in Structs /\ ~s.object /\ s.due = th[t].due /\ s.cleared = th[t].cleared
      /\ s.alloc = th[t].alloc /\ s.frees = th[t].frees /\ s.func = th[t].func
  BY DEF Structs
<1>2. Finalized(t) = IF Linked(t) THEN s ELSE Freed(s)
  BY DEF Finalized
<1> HIDE DEF s
<1> QED
  BY <1>1, <1>2, FreedFacts

\* A finalizer keeps what is known of the timer: it frees the struct exactly if
\* the list has let go of it.
LEMMA FinalizedKeeps ==
    ASSUME OsInv, NEW t \in Timers, th[t].object, th'[t] = Finalized(t),
           calls' = calls, timers' = timers
    PROVE  TimerInv(t)'
<1>1. TimerInv(t) /\ th[t] \in Structs
  BY DEF OsInv
<1>2. Linked(t)' <=> Linked(t)
  BY DEF Linked
<1>3. th[t].alloc /\ th[t].frees = 0
  BY <1>1 DEF TimerInv
<1>4. CASE Linked(t)
  BY <1>1, <1>2, <1>3, <1>4, FinalizedFacts DEF TimerInv
<1>5. CASE ~Linked(t)
  BY <1>1, <1>2, <1>3, <1>5, FinalizedFacts DEF TimerInv
<1> QED
  BY <1>4, <1>5

\* Dropping the last reference to a timer's object keeps the invariant.
LEMMA DropObjectKeeps ==
    ASSUME OsInv, NEW t \in Timers, DropObject(t)
    PROVE  OsInv'
<1>1. /\ th[t].object /\ UNCHANGED <<pc, now, timers, handlers, ready, jobs, made, sets, calls>>
      /\ pc # "exit"
  BY DEF DropObject, Running
<1>2. /\ th' = [th EXCEPT ![t] = Finalized(t)]
      /\ th \in [Timers -> Structs] /\ Finalized(t) \in Structs
  BY FinalizedFacts DEF OsInv, DropObject
<1>3. th' \in [Timers -> Structs]
  BY <1>2
<1>4. TypesInv'
  <2>1. \A u \in Timers : th'[u].due \in Nat /\ th'[u].frees \in Nat
    BY <1>3 DEF Structs
  <2> QED
    BY <1>1, <1>3, <2>1 DEF TypesInv, OsInv, TypeOK
<1>5. ASSUME NEW u \in Timers PROVE TimerInv(u)'
  <2>1. CASE u = t
    BY <2>1, <1>1, <1>2, FinalizedKeeps
  <2>2. CASE u # t
    <3>1. th'[u] = th[u] /\ (Linked(u)' <=> Linked(u)) /\ TimerInv(u)
      BY <2>2, <1>1, <1>2 DEF Linked, OsInv
    <3> QED
      BY <3>1, <1>1 DEF TimerInv
  <2> QED
    BY <2>1, <2>2
<1>6. ListInv' /\ HandlersInv'
  BY <1>1 DEF OsInv, ListInv, HandlersInv
<1> QED
  BY <1>4, <1>5, <1>6 DEF OsInv, TypesInv

\* `JS_FreeContext` and `JS_FreeRuntime` keep the invariant: they finalize every
\* object that is left, and the list is empty by then.
LEMMA FreeContextKeeps ==
    ASSUME OsInv, FreeContext
    PROVE  OsInv'
<1>1. /\ pc = "torn" /\ pc' = "exit"
      /\ UNCHANGED <<now, timers, handlers, ready, jobs, made, sets, calls>>
      /\ timers = <<>>
  BY DEF FreeContext, OsInv, ListInv
<1>2. /\ th \in [Timers -> Structs]
      /\ th' = [t \in Timers |-> IF th[t].object THEN Finalized(t) ELSE th[t]]
      /\ \A t \in Timers : Finalized(t) \in Structs /\ ~Finalized(t).object
  BY FinalizedFacts DEF OsInv, FreeContext
<1>3. th' \in [Timers -> Structs] /\ \A t \in Timers : ~th'[t].object
  BY <1>2
<1>4. TypesInv'
  <2>1. \A u \in Timers : th'[u].due \in Nat /\ th'[u].frees \in Nat
    BY <1>3 DEF Structs
  <2> QED
    BY <1>1, <1>3, <2>1 DEF TypesInv, OsInv, TypeOK
<1>5. ASSUME NEW u \in Timers PROVE TimerInv(u)'
  <2>1. CASE th[u].object
    BY <2>1, <1>1, <1>2, FinalizedKeeps
  <2>2. CASE ~th[u].object
    <3>1. th'[u] = th[u] /\ (Linked(u)' <=> Linked(u)) /\ TimerInv(u)
      BY <2>2, <1>1, <1>2 DEF Linked, OsInv
    <3> QED
      BY <3>1, <1>1 DEF TimerInv
  <2> QED
    BY <2>1, <2>2
<1>6. ListInv'
  BY <1>1, <1>3 DEF OsInv, ListInv
<1>7. HandlersInv'
  BY <1>1 DEF OsInv, HandlersInv
<1> QED
  BY <1>4, <1>5, <1>6, <1>7 DEF OsInv, TypesInv

\* `js_std_free_handlers` keeps the invariant: it frees the structs that no
\* object has, and leaves the others to their finalizers.
LEMMA FreeHandlersKeeps ==
    ASSUME OsInv, FreeHandlers
    PROVE  OsInv'
<1>1. /\ pc' = "torn" /\ handlers' = <<>> /\ timers' = <<>>
      /\ UNCHANGED <<now, ready, jobs, made, sets, calls>>
  BY DEF FreeHandlers
<1>2. /\ th \in [Timers -> Structs]
      /\ th' = [t \in Timers |-> IF Linked(t) /\ ~th[t].object THEN Freed(th[t]) ELSE th[t]]
      /\ \A t \in Timers : Freed(th[t]) \in Structs
  BY FreedFacts DEF OsInv, FreeHandlers
<1>3. th' \in [Timers -> Structs]
  BY <1>2
<1>4. DOMAIN timers' = {} /\ DOMAIN handlers' = {}
  BY <1>1
<1>5. TypesInv'
  <2>1. \A u \in Timers : th'[u].due \in Nat /\ th'[u].frees \in Nat
    BY <1>3 DEF Structs
  <2>2. timers' \in Seq(Timers) /\ handlers' \in Seq([fd : Fds, funcs : SUBSET Modes])
    BY <1>1, EmptySeq
  <2> QED
    BY <1>1, <1>3, <2>1, <2>2 DEF TypesInv, OsInv, TypeOK
<1>6. ASSUME NEW u \in Timers PROVE TimerInv(u)'
  <2>1. TimerInv(u) /\ th[u] \in Structs /\ ~Linked(u)'
    BY <1>4 DEF OsInv, Linked
  <2>2. CASE Linked(u) /\ ~th[u].object
    <3>1. th'[u] = Freed(th[u])
      BY <1>2, <2>2
    <3>2. /\ ~th'[u].alloc /\ th'[u].frees = th[u].frees + 1
          /\ th'[u].object = th[u].object /\ th'[u].due = th[u].due
          /\ th'[u].cleared = th[u].cleared
      BY <3>1, <2>1, FreedFacts
    <3>3. th[u].frees = 0 /\ calls[u] = <<>>
      BY <2>1, <2>2 DEF TimerInv
    <3> QED
      BY <2>1, <2>2, <3>2, <3>3, <1>1 DEF TimerInv
  <2>3. CASE ~(Linked(u) /\ ~th[u].object)
    <3>1. th'[u] = th[u]
      BY <1>2, <2>3
    <3> QED
      BY <2>1, <2>3, <3>1, <1>1 DEF TimerInv
  <2> QED
    BY <2>2, <2>3
<1>7. ListInv' /\ HandlersInv'
  BY <1>1, <1>4 DEF ListInv, HandlersInv
<1> QED
  BY <1>5, <1>6, <1>7 DEF OsInv, TypesInv

\* What `js_os_poll` does to the struct of a timer it calls.
LEMMA CalledFacts ==
    ASSUME NEW s \in Structs
    PROVE  LET u == [s EXCEPT !.func = FALSE]
               r == IF u.object THEN u ELSE Freed(u)
           IN  /\ r \in Structs
               /\ r.object = s.object /\ r.due = s.due /\ r.cleared = s.cleared
               /\ s.object => r.alloc = s.alloc /\ r.frees = s.frees
               /\ ~s.object => ~r.alloc /\ r.frees = s.frees + 1
<1> DEFINE u == [s EXCEPT !.func = FALSE]
<1>1. /\ u \in Structs /\ u.object = s.object /\ u.due = s.due /\ u.cleared = s.cleared
      /\ u.alloc = s.alloc /\ u.frees = s.frees
  BY DEF Structs
<1> HIDE DEF u
<1>2. /\ Freed(u) \in Structs
      /\ ~Freed(u).alloc /\ Freed(u).frees = u.frees + 1
      /\ Freed(u).object = u.object /\ Freed(u).due = u.due /\ Freed(u).cleared = u.cleared
  BY <1>1, FreedFacts
<1> DEFINE r == IF u.object THEN u ELSE Freed(u)
<1>3. /\ r \in Structs
      /\ r.object = s.object /\ r.due = s.due /\ r.cleared = s.cleared
      /\ s.object => r.alloc = s.alloc /\ r.frees = s.frees
      /\ ~s.object => ~r.alloc /\ r.frees = s.frees + 1
  BY <1>1, <1>2
<1> QED
  BY <1>3 DEF u

\* Calling the first expired timer keeps the invariant: it was linked, so that it
\* had not been called, it is due, and it can not be linked again.
LEMMA CallTimerKeeps ==
    ASSUME OsInv, CallTimer, MaxNow \in Nat
    PROVE  OsInv'
<1>1. Expired # {}
  BY DEF CallTimer
<1>2. FirstExpired \in Expired
  <2>1. \E i \in Expired : \A j \in Expired : i <= j
    <3>1. Expired \subseteq Nat
      BY LenProperties DEF Expired, OsInv, TypeOK
    <3> QED
      BY <3>1, <1>1, LeastExists
  <2> QED
    BY <2>1 DEF FirstExpired
<1>3. /\ timers \in Seq(Timers) /\ th \in [Timers -> Structs] /\ now \in Nat
      /\ calls \in [Timers -> Seq(Nat)]
      /\ \A i, j \in DOMAIN timers : timers[i] = timers[j] => i = j
  BY DEF OsInv, TypeOK, ListInv
<1>4. PICK t \in Timers : t = timers[FirstExpired] /\ Linked(t) /\ th[t].due <= now
  <2>1. FirstExpired \in DOMAIN timers /\ th[timers[FirstExpired]].due <= now
    BY <1>2 DEF Expired
  <2> QED
    BY <2>1, <1>3, LenProperties DEF Linked
<1> DEFINE s == [th[t] EXCEPT !.func = FALSE]
           r == IF s.object THEN s ELSE Freed(s)
<1>a. /\ pc' = "handler" /\ timers' = Unlinked(t)
      /\ th' = [th EXCEPT ![t] = r]
      /\ calls' = [calls EXCEPT ![t] = Append(@, now)]
      /\ UNCHANGED <<now, handlers, ready, jobs, made, sets>>
  BY <1>4 DEF CallTimer
<1>5. th[t] \in Structs /\ TimerInv(t)
  BY <1>3, <1>4 DEF OsInv
<1>6. /\ r \in Structs
      /\ r.object = th[t].object /\ r.due = th[t].due /\ r.cleared = th[t].cleared
      /\ th[t].object => r.alloc = th[t].alloc /\ r.frees = th[t].frees
      /\ ~th[t].object => ~r.alloc /\ r.frees = th[t].frees + 1
  BY <1>5, CalledFacts
<1> HIDE DEF s, r
<1>7. /\ timers' \in Seq(Timers)
      /\ \A u \in Timers : Linked(u)' <=> Linked(u) /\ u # t
      /\ \A i, j \in DOMAIN timers' : timers'[i] = timers'[j] => i = j
  <2>0. timers' = Unlinked(t)
    BY <1>a
  <2>1. \A u \in Timers : Linked(u)' <=> \E i \in DOMAIN timers' : timers'[i] = u
    BY DEF Linked
  <2> QED
    BY <2>0, <1>3, <2>1, UnlinkedFacts
<1>8. /\ th' \in [Timers -> Structs] /\ th'[t] = r
      /\ \A u \in Timers \ {t} : th'[u] = th[u]
  BY <1>a, <1>3, <1>4, <1>6
<1>9. calls[t] = <<>>
  BY <1>4, <1>5 DEF TimerInv
<1>10. /\ calls' \in [Timers -> Seq(Nat)]
       /\ calls'[t] = <<now>>
       /\ \A u \in Timers \ {t} : calls'[u] = calls[u]
  <2>1. Append(calls[t], now) = <<now>> /\ <<now>> \in Seq(Nat)
    BY <1>3, <1>9
  <2> HIDE DEF CallTimer
  <2> QED
    BY <1>a, <1>3, <1>4, <2>1
<1>11. TypesInv'
  <2>1. \A u \in Timers : th'[u].due \in Nat /\ th'[u].frees \in Nat
    BY <1>8 DEF Structs
  <2> QED
    BY <1>a, <1>7, <1>8, <1>10, <2>1 DEF TypesInv, OsInv, TypeOK
<1>12. ASSUME NEW u \in Timers PROVE TimerInv(u)'
  <2>1. CASE u # t
    <3>1. th'[u] = th[u] /\ calls'[u] = calls[u] /\ (Linked(u)' <=> Linked(u)) /\ TimerInv(u)
      BY <2>1, <1>7, <1>8, <1>10 DEF OsInv
    <3> QED
      BY <3>1 DEF TimerInv
  <2>2. CASE u = t
    <3>1. /\ th[t].alloc /\ th[t].frees = 0 /\ ~th[t].cleared /\ ~Linked(t)'
          /\ th[t].due \in Nat
      BY <1>4, <1>5, <1>7 DEF TimerInv, Structs
    <3>2. /\ th'[t].alloc <=> th'[t].object
          /\ th'[t].frees = IF th'[t].object THEN 0 ELSE 1
          /\ ~th'[t].cleared /\ th'[t].due <= now
      <4>1. th'[t] = r
        BY <1>8
      <4>2. ~r.cleared /\ r.due <= now
        BY <3>1, <1>4, <1>6
      <4>3. CASE th[t].object
        BY <3>1, <1>6, <4>1, <4>2, <4>3
      <4>4. CASE ~th[t].object
        BY <3>1, <1>6, <4>1, <4>2, <4>4
      <4> QED
        BY <4>3, <4>4
    <3>3. Len(calls'[t]) = 1 /\ \A i \in DOMAIN calls'[t] : calls'[t][i] = now
      BY <1>10
    <3>4. \A i \in DOMAIN calls'[t] : calls'[t][i] >= th'[t].due
      BY <3>2, <3>3, <1>3, <1>8, <1>6, <3>1
    <3> QED
      BY <2>2, <3>1, <3>2, <3>3, <3>4 DEF TimerInv
  <2> QED
    BY <2>1, <2>2
<1>13. ListInv' /\ HandlersInv'
  BY <1>a, <1>7 DEF OsInv, ListInv, HandlersInv
<1> QED
  BY <1>11, <1>12, <1>13 DEF OsInv, TypesInv

\* Entries of the list of handlers.
Entries == [fd : Fds, funcs : SUBSET Modes]

\* What the changes of the handlers have in common: a list of entries that all
\* have a function, one for a descriptor, is all the invariant asks of them.
LEMMA HandlersChanged ==
    ASSUME OsInv, Running, UNCHANGED <<pc, now, timers, th, ready, jobs, made, calls>>,
           handlers' \in Seq(Entries),
           \A i \in DOMAIN handlers' : handlers'[i].funcs # {},
           \A i, j \in DOMAIN handlers' : handlers'[i].fd = handlers'[j].fd => i = j
    PROVE  OsInv'
<1>1. TypesInv'
  BY DEF OsInv, TypesInv, TypeOK, Entries
<1>2. \A t \in Timers : TimerInv(t)'
  BY TimersUntouched DEF OsInv
<1>3. ListInv' /\ HandlersInv'
  BY DEF OsInv, ListInv, HandlersInv, Running
<1> QED
  BY <1>1, <1>2, <1>3 DEF OsInv, TypesInv

\* Replacing the functions of an entry by others, at least one.
LEMMA EntryUpdated ==
    ASSUME OsInv, NEW i \in DOMAIN handlers, NEW fs \in SUBSET Modes, fs # {},
           handlers' = [handlers EXCEPT ![i].funcs = fs]
    PROVE  /\ handlers' \in Seq(Entries)
           /\ \A j \in DOMAIN handlers' : handlers'[j].funcs # {}
           /\ \A j, k \in DOMAIN handlers' : handlers'[j].fd = handlers'[k].fd => j = k
<1> DEFINE e == [handlers[i] EXCEPT !.funcs = fs]
<1>1. handlers \in Seq(Entries)
  BY DEF OsInv, TypeOK, Entries
<1>2. /\ Len(handlers) \in Nat /\ DOMAIN handlers = 1..Len(handlers)
      /\ \A j \in DOMAIN handlers : handlers[j] \in Entries
  BY <1>1, LenProperties, ElementOfSeq
<1>3. e \in Entries /\ e.funcs = fs /\ e.fd = handlers[i].fd
  BY <1>2 DEF Entries
<1>4. handlers' = [handlers EXCEPT ![i] = e]
  OBVIOUS
<1> HIDE DEF e
<1>5. handlers' \in Seq(Entries) /\ DOMAIN handlers' = DOMAIN handlers
  BY <1>1, <1>2, <1>3, <1>4, ExceptSeq
<1>6. \A j \in DOMAIN handlers : handlers'[j] = IF j = i THEN e ELSE handlers[j]
  BY <1>1, <1>2, <1>4, LenProperties
<1> QED
  BY <1>3, <1>5, <1>6 DEF OsInv, HandlersInv

\* `js_os_setReadHandler` and its kin with a function keep the invariant.
LEMMA SetHandlerKeeps ==
    ASSUME OsInv, NEW fd \in Fds, NEW m \in Modes, SetHandler(fd, m)
    PROVE  OsInv'
<1>1. Running /\ UNCHANGED <<pc, now, timers, th, ready, jobs, made, calls>>
  BY DEF SetHandler
<1>2. handlers \in Seq(Entries)
  BY DEF OsInv, TypeOK, Entries
<1>3. /\ Len(handlers) \in Nat /\ DOMAIN handlers = 1..Len(handlers)
      /\ \A j \in DOMAIN handlers : handlers[j] \in Entries
  BY <1>2, LenProperties, ElementOfSeq
<1>4. ASSUME NEW i \in DOMAIN handlers,
             handlers' = [handlers EXCEPT ![i].funcs = @ \cup {m}]
      PROVE  OsInv'
  <2> DEFINE fs == handlers[i].funcs \cup {m}
  <2>1. fs \in SUBSET Modes /\ fs # {} /\ handlers' = [handlers EXCEPT ![i].funcs = fs]
    BY <1>3, <1>4 DEF Entries
  <2> HIDE DEF fs
  <2> QED
    BY <2>1, <1>1, EntryUpdated, HandlersChanged
<1>5. ASSUME \A i \in DOMAIN handlers : handlers[i].fd # fd,
             handlers' = Append(handlers, [fd |-> fd, funcs |-> {m}])
      PROVE  OsInv'
  <2> DEFINE e == [fd |-> fd, funcs |-> {m}]
             n == Len(handlers)
  <2>1. e \in Entries /\ e.fd = fd /\ e.funcs # {}
    BY DEF Entries
  <2>2. handlers' = Append(handlers, e)
    BY <1>5
  <2> HIDE DEF e
  <2>3. /\ handlers' \in Seq(Entries) /\ Len(handlers') = n + 1
        /\ \A i \in 1..n : handlers'[i] = handlers[i]
        /\ handlers'[n + 1] = e
    BY <2>1, <2>2, <1>2, AppendProperties
  <2>4. DOMAIN handlers' = 1..(n + 1)
    BY <2>3, LenProperties
  <2>5. n \in Nat /\ DOMAIN handlers = 1..n
    BY <1>3
  <2> HIDE DEF n
  <2>6. \A i \in DOMAIN handlers' : i \in DOMAIN handlers \/ i = n + 1
    BY <2>4, <2>5
  <2>7. /\ \A i \in DOMAIN handlers : handlers[i].funcs # {}
        /\ \A i, j \in DOMAIN handlers : handlers[i].fd = handlers[j].fd => i = j
    BY DEF OsInv, HandlersInv
  <2>8. \A i \in DOMAIN handlers' : handlers'[i].funcs # {}
    BY <2>1, <2>3, <2>5, <2>6, <2>7
  <2>9. \A i, j \in DOMAIN handlers' : handlers'[i].fd = handlers'[j].fd => i = j
    BY <2>1, <2>3, <2>5, <2>6, <2>7, <1>5
  <2> QED
    BY <2>3, <2>8, <2>9, <1>1, HandlersChanged
<1> QED
  BY <1>4, <1>5 DEF SetHandler

\* The same with null: an entry goes with its last function.
LEMMA ClearHandlerKeeps ==
    ASSUME OsInv, NEW fd \in Fds, NEW m \in Modes, ClearHandler(fd, m)
    PROVE  OsInv'
<1>1. Running /\ UNCHANGED <<pc, now, timers, th, ready, jobs, made, calls>>
  BY DEF ClearHandler
<1>2. handlers \in Seq(Entries)
  BY DEF OsInv, TypeOK, Entries
<1>3. \A j \in DOMAIN handlers : handlers[j] \in Entries
  BY <1>2, LenProperties, ElementOfSeq
<1>4. /\ \A i \in DOMAIN handlers : handlers[i].funcs # {}
      /\ \A i, j \in DOMAIN handlers : handlers[i].fd = handlers[j].fd => i = j
  BY DEF OsInv, HandlersInv
<1>5. ASSUME NEW i \in DOMAIN handlers, handlers' = Removed(handlers, i)
      PROVE  OsInv'
  <2>1. handlers' \in Seq(Entries)
    BY <1>2, <1>5, RemovedFacts
  <2>2. \A k \in DOMAIN handlers' : \E j \in DOMAIN handlers : handlers'[k] = handlers[j]
    BY <1>2, <1>5, RemovedKeeps
  <2>3. \A k, l \in DOMAIN handlers' : k # l =>
          \E p, q \in DOMAIN handlers :
              p # q /\ handlers'[k] = handlers[p] /\ handlers'[l] = handlers[q]
    BY <1>2, <1>5, RemovedKeeps
  <2> QED
    BY <2>1, <2>2, <2>3, <1>1, <1>4, HandlersChanged
<1>6. ASSUME NEW i \in DOMAIN handlers, ~(handlers[i].funcs \subseteq {m}),
             handlers' = [handlers EXCEPT ![i].funcs = @ \ {m}]
      PROVE  OsInv'
  <2> DEFINE fs == handlers[i].funcs \ {m}
  <2>1. fs \in SUBSET Modes /\ fs # {} /\ handlers' = [handlers EXCEPT ![i].funcs = fs]
    BY <1>3, <1>6 DEF Entries
  <2> HIDE DEF fs
  <2> QED
    BY <2>1, <1>1, EntryUpdated, HandlersChanged
<1>7. CASE handlers' = handlers
  BY <1>1, <1>2, <1>4, <1>7, HandlersChanged
<1> QED
  BY <1>5, <1>6, <1>7 DEF ClearHandler

\* A step of the loop that moves its control only, and ends the loop or enters
\* `select` only on its terms, keeps the invariant.
LEMMA ControlKeeps ==
    ASSUME OsInv, UNCHANGED <<timers, th, handlers, calls, made>>,
           now' \in 0..MaxNow, ready' \subseteq Fds \X Modes, jobs' \in 0..MaxJobs,
           jobs' <= made,
           pc' \in {"script", "jobs", "job", "poll", "select", "handler", "ended", "torn", "exit"},
           pc' \in {"torn", "exit"} => pc' = pc,
           pc' = "ended" => timers = <<>> /\ handlers = <<>>,
           pc' = "select" => timers # <<>> \/ handlers # <<>>
    PROVE  OsInv'
<1>1. TypesInv'
  BY DEF OsInv, TypesInv, TypeOK
<1>2. \A t \in Timers : TimerInv(t)'
  BY TimersUntouched DEF OsInv
<1>3. ListInv' /\ HandlersInv'
  BY DEF OsInv, ListInv, HandlersInv
<1> QED
  BY <1>1, <1>2, <1>3 DEF OsInv, TypesInv

\* `js_std_init_handlers` establishes the invariant.
LEMMA OsInitially ==
    ASSUME Init, MaxNow \in Nat, MaxJobs \in Nat
    PROVE  OsInv
<1> USE DEF Init
<1>1. /\ DOMAIN timers = {} /\ DOMAIN handlers = {}
      /\ timers \in Seq(Timers) /\ handlers \in Seq([fd : Fds, funcs : SUBSET Modes])
  BY EmptySeq
<1>2. /\ th \in [Timers -> Structs]
      /\ \A t \in Timers : th[t] = Fresh
      /\ calls \in [Timers -> Seq(Nat)]
  BY EmptySeq DEF Fresh, Structs
<1>3. \A t \in Timers : th[t].due \in Nat /\ th[t].frees \in Nat
  BY <1>2 DEF Structs
<1>4. ASSUME NEW t \in Timers PROVE TimerInv(t)
  <2>1. /\ ~Linked(t) /\ calls[t] = <<>> /\ Len(<<>>) = 0 /\ DOMAIN <<>> = {}
    BY <1>1, EmptySeq DEF Linked
  <2>2. ~Fresh.alloc /\ ~Fresh.object /\ Fresh.frees = 0 /\ ~Fresh.cleared
    BY ONLY DEF Fresh
  <2> QED
    BY <2>1, <2>2, <1>2 DEF TimerInv
<1>5. ListInv /\ HandlersInv
  BY <1>1 DEF ListInv, HandlersInv
<1> QED
  BY <1>1, <1>2, <1>3, <1>4, <1>5 DEF OsInv, TypeOK

\* Every step of the script, of a callback, of the loop and of the teardown keeps
\* the invariant.
LEMMA OsPreserved ==
    ASSUME OsInv, [Next]_loopVars, MaxNow \in Nat, MaxJobs \in Nat, Delays \subseteq Nat
    PROVE  OsInv'
<1>0. /\ now \in 0..MaxNow /\ ready \subseteq Fds \X Modes
      /\ jobs \in 0..MaxJobs /\ made \in 0..MaxJobs /\ jobs <= made
  BY DEF OsInv, TypeOK
<1>1. CASE Tick
  <2>1. now' \in 0..MaxNow /\ UNCHANGED <<pc, timers, th, handlers, ready, jobs, made, calls>>
    BY <1>0, <1>1 DEF Tick
  <2> QED
    BY <2>1, <1>0, ControlKeeps DEF OsInv, TypeOK, HandlersInv, ListInv
<1>2. CASE Readiness
  <2>1. ready' \subseteq Fds \X Modes
    BY <1>0, <1>2 DEF Readiness
  <2>2. UNCHANGED <<pc, now, timers, th, handlers, jobs, made, calls>>
    BY <1>2 DEF Readiness
  <2> QED
    BY <2>1, <2>2, <1>0, ControlKeeps DEF OsInv, TypeOK, HandlersInv, ListInv
<1>3. ASSUME NEW t \in Timers, NEW d \in Delays, SetTimeout(t, d) PROVE OsInv'
  BY <1>3, SetTimeoutKeeps
<1>4. ASSUME NEW t \in Timers, ClearTimeout(t) PROVE OsInv'
  BY <1>4, ClearTimeoutKeeps
<1>5. ASSUME NEW t \in Timers, DropObject(t) PROVE OsInv'
  BY <1>5, DropObjectKeeps
<1>6. ASSUME NEW fd \in Fds, NEW m \in Modes, SetHandler(fd, m) PROVE OsInv'
  BY <1>6, SetHandlerKeeps
<1>7. ASSUME NEW fd \in Fds, NEW m \in Modes, ClearHandler(fd, m) PROVE OsInv'
  BY <1>7, ClearHandlerKeeps
<1>8. CASE Enqueue
  <2>1. /\ jobs' \in 0..MaxJobs /\ made' \in 0..MaxJobs /\ jobs' <= made'
        /\ UNCHANGED <<pc, now, timers, th, handlers, ready, calls>>
    BY <1>0, <1>8 DEF Enqueue
  <2>2. TypesInv'
    BY <2>1 DEF OsInv, TypesInv, TypeOK
  <2>3. \A t \in Timers : TimerInv(t)'
    BY <2>1, TimersUntouched DEF OsInv
  <2>4. ListInv' /\ HandlersInv'
    BY <2>1 DEF OsInv, ListInv, HandlersInv
  <2> QED
    BY <2>2, <2>3, <2>4 DEF OsInv, TypesInv
<1>9. CASE StartLoop \/ JobReturns \/ JobFails \/ JobsDone \/ HandlerReturns \/ CallHandler
           \/ SelectTimesOut
  <2>1. /\ pc' \in {"jobs", "poll", "handler"}
        /\ UNCHANGED <<now, timers, th, handlers, ready, jobs, made, calls>>
    BY <1>9 DEF StartLoop, JobReturns, JobFails, JobsDone, HandlerReturns, CallHandler,
                SelectTimesOut, Goto
  <2> QED
    BY <2>1, <1>0, ControlKeeps
<1>10. CASE RunJob
  <2>1. /\ pc' = "job" /\ jobs' \in 0..MaxJobs /\ jobs' <= made
        /\ UNCHANGED <<now, timers, th, handlers, ready, made, calls>>
    BY <1>0, <1>10 DEF RunJob
  <2> QED
    BY <2>1, <1>0, ControlKeeps
<1>11. CASE NoMoreEvents
  <2>1. /\ pc' = "ended" /\ timers = <<>> /\ handlers = <<>>
        /\ UNCHANGED <<now, timers, th, handlers, ready, jobs, made, calls>>
    BY <1>11 DEF NoMoreEvents, Goto
  <2> QED
    BY <2>1, <1>0, ControlKeeps
<1>12. CASE Wait
  <2>1. /\ pc' = "select" /\ (timers # <<>> \/ handlers # <<>>)
        /\ UNCHANGED <<now, timers, th, handlers, ready, jobs, made, calls>>
    BY <1>12 DEF Wait, Goto
  <2> QED
    BY <2>1, <1>0, ControlKeeps
<1>13. CASE CallTimer
  BY <1>13, CallTimerKeeps
<1>14. CASE FreeHandlers
  BY <1>14, FreeHandlersKeeps
<1>15. CASE FreeContext
  BY <1>15, FreeContextKeeps
<1>16. CASE UNCHANGED loopVars
  <2>1. UNCHANGED <<pc, now, timers, th, handlers, ready, jobs, made, calls>>
    BY <1>16 DEF loopVars
  <2> QED
    BY <2>1, <1>0, ControlKeeps DEF OsInv, TypeOK, HandlersInv, ListInv
<1> QED
  BY <1>1, <1>2, <1>3, <1>4, <1>5, <1>6, <1>7, <1>8, <1>9, <1>10, <1>11, <1>12, <1>13, <1>14,
     <1>15, <1>16
     DEF Next, Calls, Loop

\* The invariant implies what is promised of the structs.
LEMMA OsInvFreesOnce ==
    ASSUME OsInv
    PROVE  TimerFreedOnce
<1>1. \A t \in Timers : TimerInv(t) /\ th[t] \in Structs
  BY DEF OsInv
<1>2. ASSUME NEW t \in Timers PROVE /\ th[t].alloc <=> Linked(t) \/ th[t].object
                                    /\ th[t].frees <= 1 /\ (Linked(t) => th[t].func)
  BY <1>1 DEF TimerInv
<1>3. ASSUME pc = "exit", NEW t \in Timers PROVE th[t].alloc = FALSE
  <2>1. ~Linked(t) /\ ~th[t].object
    BY <1>3 DEF OsInv, ListInv, Linked
  <2> QED
    BY <2>1, <1>1, <1>2 DEF Structs
<1> QED
  BY <1>2, <1>3 DEF TimerFreedOnce

\* The invariant implies what is promised of the calls and of `select`.
LEMMA OsInvCallsRightly ==
    ASSUME OsInv
    PROVE  CalledOnceInTime /\ WaitsForSomething
<1>1. CalledOnceInTime
  BY DEF OsInv, TimerInv, CalledOnceInTime
<1>2. handlers # <<>> => \E i \in DOMAIN handlers : handlers[i].funcs # {}
  <2>1. handlers \in Seq(Entries)
    BY DEF OsInv, TypeOK, Entries
  <2>2. handlers # <<>> => 1 \in DOMAIN handlers
    BY <2>1, EmptySeq, LenProperties
  <2> QED
    BY <2>2 DEF OsInv, HandlersInv
<1> QED
  BY <1>1, <1>2 DEF OsInv, ListInv, HandlersInv, WaitsForSomething

(***************************************************************************)
(* The event loop and its teardown, for any number of timers and           *)
(* descriptors and any delays.  The struct of a timer is freed once, by    *)
(* the last of the list and the object to let go of it; its function is    *)
(* called at most once, never early and never after `clearTimeout`; and    *)
(* `js_std_loop` ends only when nothing is left to wait for, and waits in  *)
(* `select` only for something.                                            *)
(***************************************************************************)
THEOREM EventLoopCorrect ==
    ASSUME MaxNow \in Nat, MaxJobs \in Nat, Delays \subseteq Nat
    PROVE  Spec => []EventLoopSafe
<1>1. Init => OsInv
  BY OsInitially
<1>2. OsInv /\ [Next]_loopVars => OsInv'
  BY OsPreserved
<1>3. OsInv => EventLoopSafe
  BY OsInvFreesOnce, OsInvCallsRightly DEF OsInv, EventLoopSafe
<1> QED
  BY <1>1, <1>2, <1>3, PTL DEF Spec
=============================================================================
