------------------------------- MODULE JsAtomics -------------------------------
(***************************************************************************)
(* Atomics.wait and Atomics.notify on one word of a shared buffer          *)
(* (quickjs.c, `js_atomics_wait`, `js_atomics_notify`): a mutex, a list of *)
(* the waiters, and a condition variable of each waiter. A store is not    *)
(* under the mutex. In the programs modelled a thread that changes the     *)
(* word notifies all waiters after it; threads also notify some.           *)
(***************************************************************************)
EXTENDS Naturals, Sequences, Functions, SequenceTheorems, TLAPS

CONSTANTS Thread, Words,   \* values of the word; it starts as 0
          MaxOps,          \* calls of each thread
          Spurious         \* a wait on a condition may end without a signal

VARIABLES mem, mutex, pc, want, timed, list, linked, local, signalled, ret, res, counted, ops

atVars == <<mem, mutex, pc, want, timed, list, linked, local, signalled, ret, res, counted, ops>>

Free == "free"

AtInit ==
    /\ mem = 0
    /\ mutex = Free
    /\ pc = [t \in Thread |-> "idle"]
    /\ want = [t \in Thread |-> 0]
    /\ timed = [t \in Thread |-> FALSE]
    /\ list = <<>>
    /\ linked = [t \in Thread |-> FALSE]
    /\ local = [t \in Thread |-> <<>>]
    /\ signalled = [t \in Thread |-> FALSE]
    /\ ret = [t \in Thread |-> "none"]
    /\ res = [t \in Thread |-> "none"]
    /\ counted = [t \in Thread |-> FALSE]
    /\ ops = [t \in Thread |-> 0]

Goto(t, p) == pc' = [pc EXCEPT ![t] = p]

\* A call of wait: the arguments are converted.
Wait(t) ==
    /\ pc[t] = "idle" /\ ops[t] < MaxOps
    /\ ops' = [ops EXCEPT ![t] = @ + 1]
    /\ \E v \in Words, b \in BOOLEAN : want' = [want EXCEPT ![t] = v] /\ timed' = [timed EXCEPT ![t] = b]
    /\ res' = [res EXCEPT ![t] = "none"]
    /\ counted' = [counted EXCEPT ![t] = FALSE]
    /\ Goto(t, "wlock")
    /\ UNCHANGED <<mem, mutex, list, linked, local, signalled, ret>>

\* Mutation: the word is compared before the mutex is taken.
WaitLockLate(t) ==
    /\ pc[t] = "wlock"
    /\ mem = want[t]
    /\ Goto(t, "link")
    /\ UNCHANGED <<mem, mutex, want, timed, list, linked, local, signalled, ret, res, counted, ops>>

WaitLock(t) ==
    /\ pc[t] = "wlock" /\ mutex = Free
    /\ mutex' = t
    /\ Goto(t, "compare")
    /\ UNCHANGED <<mem, want, timed, list, linked, local, signalled, ret, res, counted, ops>>

Compare(t) ==
    /\ pc[t] = "compare"
    /\ IF mem = want[t]
       THEN Goto(t, "link") /\ UNCHANGED <<mutex, res, want, timed>>
       ELSE /\ mutex' = Free
            /\ res' = [res EXCEPT ![t] = "not-equal"]
            /\ Goto(t, "idle")
            /\ want' = [want EXCEPT ![t] = 0]
            /\ timed' = [timed EXCEPT ![t] = FALSE]
    /\ UNCHANGED <<mem, list, linked, local, signalled, ret, counted, ops>>

\* The waiter is linked; the wait on its condition releases the mutex.
Sleep(t) ==
    /\ pc[t] = "link"
    /\ list' = Append(list, t)
    /\ linked' = [linked EXCEPT ![t] = TRUE]
    /\ signalled' = [signalled EXCEPT ![t] = FALSE]
    /\ mutex' = Free
    /\ Goto(t, "sleep")
    /\ UNCHANGED <<mem, want, timed, local, ret, res, counted, ops>>

\* `pthread_cond_wait` and `pthread_cond_timedwait` end; the mutex has to be
\* taken again.
Wake(t) ==
    /\ pc[t] = "sleep"
    /\ \/ (signalled[t] \/ Spurious) /\ ret' = [ret EXCEPT ![t] = "0"]
       \/ timed[t] /\ ret' = [ret EXCEPT ![t] = "ETIMEDOUT"]
    /\ Goto(t, "woken")
    /\ UNCHANGED <<mem, mutex, want, timed, list, linked, local, signalled, res, counted, ops>>

\* The waiter is a local variable: it ends with the call.
Forget(t) ==
    /\ want' = [want EXCEPT ![t] = 0]
    /\ timed' = [timed EXCEPT ![t] = FALSE]
    /\ signalled' = [signalled EXCEPT ![t] = FALSE]
    /\ ret' = [ret EXCEPT ![t] = "none"]

\* `list_del` of the element at i.
Removed(s, i) == SubSeq(s, 1, i - 1) \o SubSeq(s, i + 1, Len(s))

\* With the mutex the waiter unlinks itself if it still is linked; its condition
\* is destroyed.
Finish(t) ==
    /\ pc[t] = "woken" /\ mutex = Free
    /\ list' = IF linked[t] THEN Removed(list, CHOOSE i \in DOMAIN list : list[i] = t) ELSE list
    /\ linked' = [linked EXCEPT ![t] = FALSE]
    /\ res' = [res EXCEPT ![t] = IF ret[t] = "ETIMEDOUT" THEN "timed-out" ELSE "ok"]
    /\ Goto(t, "idle")
    /\ Forget(t)
    /\ UNCHANGED <<mem, mutex, local, counted, ops>>

Store(t) ==
    /\ pc[t] = "idle" /\ ops[t] < MaxOps
    /\ ops' = [ops EXCEPT ![t] = @ + 1]
    /\ \E v \in Words : mem' = v
    /\ Goto(t, "stored")
    /\ UNCHANGED <<mutex, want, timed, list, linked, local, signalled, ret, res, counted>>

\* A call of notify takes up to count waiters off the list, with the mutex: all
\* of them after a store, any number else.  (A count of 0 returns at once.)
Notify(t) ==
    /\ mutex = Free
    /\ \E n \in 0..Len(list) :
        /\ \/ pc[t] = "stored" /\ n = Len(list) /\ UNCHANGED ops
           \/ /\ pc[t] = "idle" /\ ops[t] < MaxOps /\ (n > 0 \/ list = <<>>)
              /\ ops' = [ops EXCEPT ![t] = @ + 1]
        /\ local' = [local EXCEPT ![t] = SubSeq(list, 1, n)]
        /\ list' = SubSeq(list, n + 1, Len(list))
        /\ linked' = [u \in Thread |-> linked[u] /\ u \notin Range(SubSeq(list, 1, n))]
        /\ counted' = [u \in Thread |-> counted[u] \/ u \in Range(SubSeq(list, 1, n))]
    /\ mutex' = t
    /\ Goto(t, "signal")
    /\ UNCHANGED <<mem, want, timed, signalled, ret, res>>

\* The waiters taken off are signalled one after the other, then the mutex is
\* released.
Signal(t) ==
    /\ pc[t] = "signal"
    /\ IF local[t] = <<>>
       THEN mutex' = Free /\ Goto(t, "idle") /\ UNCHANGED <<local, signalled>>
       ELSE /\ signalled' = [signalled EXCEPT ![Head(local[t])] = TRUE]
            /\ local' = [local EXCEPT ![t] = Tail(@)]
            /\ UNCHANGED <<mutex, pc>>
    /\ UNCHANGED <<mem, want, timed, list, linked, ret, res, counted, ops>>

AtNext ==
    \E t \in Thread : \/ Wait(t) \/ WaitLock(t) \/ Compare(t) \/ Sleep(t) \/ Wake(t) \/ Finish(t)
                      \/ Store(t) \/ Notify(t) \/ Signal(t)

AtSpec == AtInit /\ [][AtNext]_atVars

\* The list holds the waiters that are linked, each once, and all of them are
\* in a wait; those a notify has taken off but not signalled yet are also still
\* in their wait, so that no condition is signalled after it was destroyed.
WaitersLive ==
    /\ \A t \in Thread : linked[t] <=> t \in Range(list)
    /\ \A i, j \in DOMAIN list : list[i] = list[j] => i = j
    /\ \A t \in Range(list) : pc[t] \in {"sleep", "woken"}
    /\ \A t, u \in Thread : u \in Range(local[t]) => pc[u] \in {"sleep", "woken"} /\ ~linked[u]

\* While a thread waits for a word that has changed since, the thread that
\* changed it has still to notify (`js_atomics_wait` compares and links under
\* the mutex).
NoLostWakeup ==
    \A t \in Thread : (pc[t] = "sleep" /\ linked[t] /\ mem # want[t]) => \E u \in Thread : pc[u] = "stored"

(***************************************************************************)
(* A thread that waits with Atomics.wait was on the list when the word had *)
(* the value it expected, so a store followed by a notify wakes it; and    *)
(* what is on the list, or was taken off it to be signalled, is the waiter *)
(* of a thread that is still in its call (js_atomics_wait,                 *)
(* js_atomics_notify).                                                     *)
(***************************************************************************)
NoWaiterLost == NoLostWakeup /\ WaitersLive

\* The inductive invariant.  Who compares, links or signals has the mutex; only
\* who signals has waiters of its own; and from the comparison on, a word that is
\* not the one waited for was stored by a thread that has still to notify.
Pcs == {"idle", "wlock", "compare", "link", "sleep", "woken", "stored", "signal"}

AtTypes ==
    /\ mutex \in Thread \cup {Free}
    /\ pc \in [Thread -> Pcs]
    /\ list \in Seq(Thread)
    /\ linked \in [Thread -> BOOLEAN]
    /\ local \in [Thread -> Seq(Thread)]
    /\ DOMAIN want = Thread

Owned ==
    \A t \in Thread : /\ pc[t] \in {"compare", "link", "signal"} => mutex = t
                      /\ local[t] # <<>> => pc[t] = "signal"

Expecting ==
    \A t \in Thread : (pc[t] = "link" \/ (pc[t] = "sleep" /\ linked[t])) /\ mem # want[t]
                          => \E u \in Thread : pc[u] = "stored"

AtInv == AtTypes /\ Owned /\ WaitersLive /\ Expecting
-----------------------------------------------------------------------------
\* `list_del` leaves the other elements, in their order.
LEMMA RemovedFacts ==
    ASSUME NEW S, NEW s \in Seq(S), NEW i \in DOMAIN s
    PROVE  /\ Removed(s, i) \in Seq(S)
           /\ Len(Removed(s, i)) = Len(s) - 1
           /\ \A k \in 1..(Len(s) - 1) :
                Removed(s, i)[k] = IF k < i THEN s[k] ELSE s[k + 1]
<1> DEFINE a == SubSeq(s, 1, i - 1)
           b == SubSeq(s, i + 1, Len(s))
<1>1. Len(s) \in Nat /\ DOMAIN s = 1..Len(s) /\ i \in 1..Len(s)
  BY LenProperties
<1>2. \A k \in 1..Len(s) : s[k] \in S
  BY ElementOfSeq
<1>3. /\ a \in Seq(S) /\ Len(a) = i - 1
      /\ \A k \in 1..(i - 1) : a[k] = s[k]
  <2>1. \A k \in 1..(i - 1) : s[k] \in S
    BY <1>1, <1>2
  <2>2. /\ a \in Seq(S)
        /\ Len(a) = IF 1 <= i - 1 THEN (i - 1) - 1 + 1 ELSE 0
        /\ \A k \in 1..((i - 1) - 1 + 1) : a[k] = s[1 + k - 1]
    BY <2>1, <1>1, SubSeqProperties
  <2> HIDE DEF a
  <2>3. \A k \in 1..(i - 1) : 1 + k - 1 = k /\ k \in 1..((i - 1) - 1 + 1)
    BY <1>1
  <2>4. (IF 1 <= i - 1 THEN (i - 1) - 1 + 1 ELSE 0) = i - 1
    BY <1>1
  <2> QED
    BY <2>2, <2>3, <2>4
<1>4. /\ b \in Seq(S) /\ Len(b) = Len(s) - i
      /\ \A k \in 1..(Len(s) - i) : b[k] = s[i + k]
  <2>1. \A k \in (i + 1)..Len(s) : s[k] \in S
    BY <1>1, <1>2
  <2>2. /\ b \in Seq(S)
        /\ Len(b) = IF i + 1 <= Len(s) THEN Len(s) - (i + 1) + 1 ELSE 0
        /\ \A k \in 1..(Len(s) - (i + 1) + 1) : b[k] = s[(i + 1) + k - 1]
    BY <2>1, <1>1, SubSeqProperties
  <2> HIDE DEF b
  <2>3. \A k \in 1..(Len(s) - i) :
          (i + 1) + k - 1 = i + k /\ k \in 1..(Len(s) - (i + 1) + 1)
    BY <1>1
  <2>4. (IF i + 1 <= Len(s) THEN Len(s) - (i + 1) + 1 ELSE 0) = Len(s) - i
    BY <1>1
  <2> QED
    BY <2>2, <2>3, <2>4
<1>5. Removed(s, i) = a \o b
  BY DEF Removed
<1> HIDE DEF a, b
<1>6. /\ a \o b \in Seq(S)
      /\ Len(a \o b) = Len(a) + Len(b)
      /\ \A k \in 1..(Len(a) + Len(b)) :
            (a \o b)[k] = IF k <= Len(a) THEN a[k] ELSE b[k - Len(a)]
  BY <1>3, <1>4, ConcatProperties
<1>7. Len(a) + Len(b) = Len(s) - 1
  BY <1>1, <1>3, <1>4
<1>8. ASSUME NEW k \in 1..(Len(s) - 1)
      PROVE  Removed(s, i)[k] = IF k < i THEN s[k] ELSE s[k + 1]
  <2>1. (a \o b)[k] = IF k <= i - 1 THEN a[k] ELSE b[k - (i - 1)]
    BY <1>3, <1>6, <1>7
  <2>2. CASE k < i
    BY <2>1, <2>2, <1>1, <1>3, <1>5
  <2>3. CASE ~(k < i)
    <3>1. k - (i - 1) \in 1..(Len(s) - i) /\ i + (k - (i - 1)) = k + 1 /\ ~(k <= i - 1)
      BY <2>3, <1>1
    <3> QED
      BY <3>1, <2>1, <2>3, <1>4, <1>5
  <2> QED
    BY <2>2, <2>3
<1> QED
  BY <1>5, <1>6, <1>7, <1>8

\* After `list_del` the list has the elements of the other places, and elements
\* of different places stay at different places.
LEMMA RemovedKeeps ==
    ASSUME NEW S, NEW s \in Seq(S), NEW i \in DOMAIN s
    PROVE  /\ \A k \in DOMAIN Removed(s, i) :
                \E j \in DOMAIN s : j # i /\ Removed(s, i)[k] = s[j]
           /\ \A j \in DOMAIN s : j # i =>
                \E k \in DOMAIN Removed(s, i) : Removed(s, i)[k] = s[j]
           /\ \A k, l \in DOMAIN Removed(s, i) : k # l =>
                \E p, q \in DOMAIN s : /\ p # q
                                       /\ Removed(s, i)[k] = s[p]
                                       /\ Removed(s, i)[l] = s[q]
<1> DEFINE r == Removed(s, i)
<1>1. Len(s) \in Nat /\ DOMAIN s = 1..Len(s) /\ i \in 1..Len(s)
  BY LenProperties
<1>2. /\ r \in Seq(S) /\ Len(r) = Len(s) - 1
      /\ \A k \in 1..(Len(s) - 1) : r[k] = IF k < i THEN s[k] ELSE s[k + 1]
  BY RemovedFacts
<1> HIDE DEF r
<1>3. DOMAIN r = 1..(Len(s) - 1)
  BY <1>2, LenProperties
<1>4. ASSUME NEW k \in DOMAIN r
      PROVE  \E j \in DOMAIN s : j # i /\ r[k] = s[j]
  <2>1. CASE k < i
    BY <2>1, <1>1, <1>2, <1>3
  <2>2. CASE ~(k < i)
    <3>1. k + 1 \in 1..Len(s) /\ k + 1 # i
      BY <2>2, <1>1, <1>3
    <3> QED
      BY <3>1, <2>2, <1>1, <1>2, <1>3
  <2> QED
    BY <2>1, <2>2
<1>5. ASSUME NEW j \in DOMAIN s, j # i
      PROVE  \E k \in DOMAIN r : r[k] = s[j]
  <2>1. CASE j < i
    BY <2>1, <1>1, <1>2, <1>3
  <2>2. CASE ~(j < i)
    <3>1. j - 1 \in 1..(Len(s) - 1) /\ ~(j - 1 < i) /\ (j - 1) + 1 = j
      BY <2>2, <1>1, <1>5
    <3> QED
      BY <3>1, <1>2, <1>3
  <2> QED
    BY <2>1, <2>2
<1>6. ASSUME NEW k \in DOMAIN r, NEW l \in DOMAIN r, k # l
      PROVE  \E p, q \in DOMAIN s : p # q /\ r[k] = s[p] /\ r[l] = s[q]
  <2> DEFINE p == IF k < i THEN k ELSE k + 1
             q == IF l < i THEN l ELSE l + 1
  <2>1. p \in DOMAIN s /\ q \in DOMAIN s /\ p # q
    BY <1>1, <1>3, <1>6
  <2>2. r[k] = s[p] /\ r[l] = s[q]
    BY <1>2, <1>3
  <2> QED
    BY <2>1, <2>2
<1> QED
  BY <1>4, <1>5, <1>6 DEF r

\* A waiter that unlinks itself leaves the others on the list, each once.
LEMMA UnlinkFacts ==
    ASSUME list \in Seq(Thread), NEW c \in DOMAIN list,
           \A i, j \in DOMAIN list : list[i] = list[j] => i = j
    PROVE  /\ Removed(list, c) \in Seq(Thread)
           /\ Range(Removed(list, c)) = Range(list) \ {list[c]}
           /\ \A i, j \in DOMAIN Removed(list, c) :
                Removed(list, c)[i] = Removed(list, c)[j] => i = j
<1> DEFINE r == Removed(list, c)
<1>2. r \in Seq(Thread)
  BY RemovedFacts
<1>3. /\ \A k \in DOMAIN r : \E j \in DOMAIN list : j # c /\ r[k] = list[j]
      /\ \A j \in DOMAIN list : j # c => \E k \in DOMAIN r : r[k] = list[j]
      /\ \A k, l \in DOMAIN r : k # l =>
           \E p, q \in DOMAIN list : p # q /\ r[k] = list[p] /\ r[l] = list[q]
  BY RemovedKeeps
<1> HIDE DEF r
<1>4. Range(r) = Range(list) \ {list[c]}
  <2>1. \A x : x \in Range(r) <=> \E k \in DOMAIN r : r[k] = x
    BY DEF Range
  <2>2. \A x : x \in Range(list) <=> \E k \in DOMAIN list : list[k] = x
    BY DEF Range
  <2> QED
    BY <1>3, <2>1, <2>2
<1>5. \A i, j \in DOMAIN r : r[i] = r[j] => i = j
  BY <1>3
<1> QED
  BY <1>2, <1>4, <1>5 DEF r

\* What notify takes off and what it leaves are the two parts of the list, and
\* have no waiter in common.
LEMMA SplitFacts ==
    ASSUME list \in Seq(Thread), NEW n \in 0..Len(list),
           \A i, j \in DOMAIN list : list[i] = list[j] => i = j
    PROVE  LET a == SubSeq(list, 1, n)
               b == SubSeq(list, n + 1, Len(list))
           IN  /\ a \in Seq(Thread) /\ b \in Seq(Thread)
               /\ Range(a) \subseteq Range(list)
               /\ Range(b) = Range(list) \ Range(a)
               /\ \A i, j \in DOMAIN b : b[i] = b[j] => i = j
               /\ n = Len(list) => b = <<>>
<1> DEFINE a == SubSeq(list, 1, n)
           b == SubSeq(list, n + 1, Len(list))
           m == Len(list)
<1>1. m \in Nat /\ DOMAIN list = 1..m /\ n \in 0..m /\ \A i \in 1..m : list[i] \in Thread
  BY LenProperties, ElementOfSeq
<1>2. /\ a \in Seq(Thread) /\ Len(a) = n
      /\ \A k \in 1..n : a[k] = list[k]
  <2>1. \A k \in 1..n : list[k] \in Thread
    BY <1>1
  <2>2. /\ a \in Seq(Thread)
        /\ Len(a) = IF 1 <= n THEN n - 1 + 1 ELSE 0
        /\ \A k \in 1..(n - 1 + 1) : a[k] = list[1 + k - 1]
    BY <2>1, <1>1, SubSeqProperties
  <2> HIDE DEF a, m
  <2>3. \A k \in 1..n : 1 + k - 1 = k /\ k \in 1..(n - 1 + 1)
    BY <1>1
  <2>4. (IF 1 <= n THEN n - 1 + 1 ELSE 0) = n
    BY <1>1
  <2> QED
    BY <2>2, <2>3, <2>4
<1>3. /\ b \in Seq(Thread) /\ Len(b) = m - n
      /\ \A k \in 1..(m - n) : b[k] = list[n + k]
  <2>1. \A k \in (n + 1)..m : list[k] \in Thread
    BY <1>1
  <2>2. /\ b \in Seq(Thread)
        /\ Len(b) = IF n + 1 <= m THEN m - (n + 1) + 1 ELSE 0
        /\ \A k \in 1..(m - (n + 1) + 1) : b[k] = list[(n + 1) + k - 1]
    BY <2>1, <1>1, SubSeqProperties
  <2> HIDE DEF b, m
  <2>3. \A k \in 1..(m - n) : (n + 1) + k - 1 = n + k /\ k \in 1..(m - (n + 1) + 1)
    BY <1>1
  <2>4. (IF n + 1 <= m THEN m - (n + 1) + 1 ELSE 0) = m - n
    BY <1>1
  <2> QED
    BY <2>2, <2>3, <2>4
<1> HIDE DEF a, b, m
<1>4. DOMAIN a = 1..n /\ DOMAIN b = 1..(m - n)
  BY <1>2, <1>3, LenProperties
<1>5. \A x : /\ x \in Range(a) <=> \E k \in 1..n : list[k] = x
             /\ x \in Range(b) <=> \E k \in 1..(m - n) : list[n + k] = x
             /\ x \in Range(list) <=> \E k \in 1..m : list[k] = x
  <2>1. \A x : x \in Range(a) <=> \E k \in 1..n : a[k] = x
    BY <1>4 DEF Range
  <2>2. \A x : x \in Range(b) <=> \E k \in 1..(m - n) : b[k] = x
    BY <1>4 DEF Range
  <2>3. \A x : x \in Range(list) <=> \E k \in 1..m : list[k] = x
    BY <1>1 DEF Range
  <2> QED
    BY <1>2, <1>3, <2>1, <2>2, <2>3
<1>6. \A x : (\E k \in 1..(m - n) : list[n + k] = x)
                <=> (\E k \in (n + 1)..m : list[k] = x)
  <2>1. \A k \in 1..(m - n) : n + k \in (n + 1)..m
    BY <1>1
  <2>2. \A k \in (n + 1)..m : k - n \in 1..(m - n) /\ n + (k - n) = k
    BY <1>1
  <2> QED
    BY <2>1, <2>2
<1>7. Range(a) \subseteq Range(list)
  BY <1>1, <1>5
<1>8. Range(b) = Range(list) \ Range(a)
  <2>1. \A k \in 1..m : k \in 1..n \/ k \in (n + 1)..m
    BY <1>1
  <2>2. \A k \in 1..n, l \in (n + 1)..m : k \in 1..m /\ l \in 1..m /\ list[k] # list[l]
    BY <1>1
  <2>3. \A k \in (n + 1)..m : k \in 1..m
    BY <1>1
  <2>4. \A x : x \in Range(b) <=> \E k \in (n + 1)..m : list[k] = x
    BY <1>5, <1>6, Zenon
  <2>5. ASSUME NEW x \in Range(b)
        PROVE  x \in Range(list) /\ x \notin Range(a)
    <3>1. PICK l \in (n + 1)..m : list[l] = x
      BY <2>4, <2>5
    <3>2. x \in Range(list)
      BY <3>1, <1>5, <2>3
    <3>3. \A k \in 1..n : list[k] # x
      BY <3>1, <2>2
    <3> QED
      BY <3>2, <3>3, <1>5
  <2>6. ASSUME NEW x \in Range(list), x \notin Range(a)
        PROVE  x \in Range(b)
    <3>1. PICK k \in 1..m : list[k] = x
      BY <1>5, <2>6
    <3> QED
      BY <3>1, <1>5, <2>1, <2>4, <2>6, Zenon
  <2> QED
    BY <2>5, <2>6
<1>9. \A i, j \in DOMAIN b : b[i] = b[j] => i = j
  <2> SUFFICES ASSUME NEW i \in 1..(m - n), NEW j \in 1..(m - n), b[i] = b[j]
               PROVE  i = j
    BY <1>4
  <2>1. n + i \in 1..m /\ n + j \in 1..m /\ list[n + i] = list[n + j]
    BY <1>1, <1>3
  <2>2. n + i = n + j
    BY <2>1, <1>1
  <2> QED
    BY <2>2, <1>1
<1>10. n = m => b = <<>>
  BY <1>1, <1>3, EmptySeq
<1> QED
  BY <1>2, <1>3, <1>7, <1>8, <1>9, <1>10 DEF a, b, m

\* With the mutex free nobody compares, links or signals.
LEMMA NobodyInside ==
    ASSUME AtInv, mutex = Free, Free \notin Thread
    PROVE  \A t \in Thread : pc[t] \notin {"compare", "link", "signal"} /\ local[t] = <<>>
BY DEF AtInv, Owned

\* Nobody waits for anything at first.
LEMMA AtInitially ==
    ASSUME AtInit
    PROVE  AtInv
<1>1. AtTypes
  BY EmptySeq DEF AtInit, AtTypes, Pcs
<1>2. Owned /\ Expecting
  BY DEF AtInit, Owned, Expecting
<1>3. Range(<<>>) = {} /\ DOMAIN <<>> = {}
  BY DEF Range
<1>4. WaitersLive
  BY <1>3 DEF AtInit, WaitersLive
<1> QED
  BY <1>1, <1>2, <1>4 DEF AtInv

\* A step that moves the control of one thread only, to or from none of the
\* places the invariant speaks of the list at, keeps what it says of the list.
LEMMA ListUntouched ==
    ASSUME AtInv, NEW t \in Thread, NEW p \in Pcs, pc' = [pc EXCEPT ![t] = p],
           UNCHANGED <<list, linked, local>>,
           pc[t] \in {"sleep", "woken"} => p \in {"sleep", "woken"}
    PROVE  WaitersLive'
<1>1. pc \in [Thread -> Pcs]
  BY DEF AtInv, AtTypes
<1>2. \A u \in Thread : pc[u] \in {"sleep", "woken"} => pc'[u] \in {"sleep", "woken"}
  BY <1>1
<1>3. \A u \in Range(list) : u \in Thread
  BY ElementOfSeq, LenProperties DEF AtInv, AtTypes, Range
<1> QED
  BY <1>2, <1>3 DEF AtInv, WaitersLive

\* Every step of a thread keeps the invariant.
LEMMA AtPreserved ==
    ASSUME AtInv, [AtNext]_atVars, Free \notin Thread
    PROVE  AtInv'
<1>0. /\ pc \in [Thread -> Pcs] /\ mutex \in Thread \cup {Free} /\ list \in Seq(Thread)
      /\ linked \in [Thread -> BOOLEAN] /\ local \in [Thread -> Seq(Thread)]
      /\ DOMAIN want = Thread
      /\ \A u \in Range(list) : u \in Thread
      /\ Owned /\ WaitersLive /\ Expecting
  BY ElementOfSeq, LenProperties DEF AtInv, AtTypes, Range
<1>1. ASSUME NEW t \in Thread, Wait(t) PROVE AtInv'
  <2>1. /\ pc[t] = "idle" /\ pc' = [pc EXCEPT ![t] = "wlock"]
        /\ UNCHANGED <<mem, mutex, list, linked, local>>
        /\ DOMAIN want' = Thread /\ \A u \in Thread \ {t} : want'[u] = want[u]
    BY <1>0, <1>1 DEF Wait, Goto
  <2>2. AtTypes' /\ Owned'
    BY <2>1, <1>0 DEF AtTypes, Owned, Pcs
  <2>3. WaitersLive'
    BY <2>1, ListUntouched DEF Pcs
  <2>4. Expecting'
    BY <2>1, <1>0 DEF Expecting
  <2> QED
    BY <2>2, <2>3, <2>4 DEF AtInv
<1>2. ASSUME NEW t \in Thread, WaitLock(t) PROVE AtInv'
  <2>1. /\ pc[t] = "wlock" /\ pc' = [pc EXCEPT ![t] = "compare"]
        /\ mutex = Free /\ mutex' = t
        /\ UNCHANGED <<mem, want, list, linked, local>>
    BY <1>2 DEF WaitLock, Goto
  <2>2. AtTypes' /\ Owned'
    BY <2>1, <1>0, NobodyInside DEF AtTypes, Owned, Pcs
  <2>3. WaitersLive'
    BY <2>1, ListUntouched DEF Pcs
  <2>4. Expecting'
    BY <2>1, <1>0 DEF Expecting
  <2> QED
    BY <2>2, <2>3, <2>4 DEF AtInv
<1>3. ASSUME NEW t \in Thread, Compare(t) PROVE AtInv'
  <2>1. /\ pc[t] = "compare" /\ UNCHANGED <<mem, list, linked, local>>
        /\ mutex = t /\ local[t] = <<>>
    BY <1>0, <1>3 DEF Compare, Owned
  <2>2. CASE mem = want[t]
    <3>1. pc' = [pc EXCEPT ![t] = "link"] /\ UNCHANGED <<mutex, want>>
      BY <1>3, <2>2 DEF Compare, Goto
    <3>2. AtTypes' /\ Owned'
      BY <2>1, <3>1, <1>0 DEF AtTypes, Owned, Pcs
    <3>3. WaitersLive'
      BY <2>1, <3>1, ListUntouched DEF Pcs
    <3>4. Expecting'
      BY <2>1, <2>2, <3>1, <1>0 DEF Expecting
    <3> QED
      BY <3>2, <3>3, <3>4 DEF AtInv
  <2>3. CASE mem # want[t]
    <3>1. /\ pc' = [pc EXCEPT ![t] = "idle"] /\ mutex' = Free
          /\ DOMAIN want' = Thread /\ \A u \in Thread \ {t} : want'[u] = want[u]
      BY <1>0, <1>3, <2>3 DEF Compare, Goto
    <3>2. AtTypes' /\ Owned'
      BY <2>1, <3>1, <1>0 DEF AtTypes, Owned, Pcs
    <3>3. WaitersLive'
      BY <2>1, <3>1, ListUntouched DEF Pcs
    <3>4. Expecting'
      BY <2>1, <3>1, <1>0 DEF Expecting
    <3> QED
      BY <3>2, <3>3, <3>4 DEF AtInv
  <2> QED
    BY <2>2, <2>3
<1>5. ASSUME NEW t \in Thread, Wake(t) PROVE AtInv'
  <2>1. /\ pc[t] = "sleep" /\ pc' = [pc EXCEPT ![t] = "woken"]
        /\ UNCHANGED <<mem, mutex, want, list, linked, local>>
    BY <1>5 DEF Wake, Goto
  <2>2. AtTypes' /\ Owned'
    BY <2>1, <1>0 DEF AtTypes, Owned, Pcs
  <2>3. WaitersLive'
    BY <2>1, ListUntouched DEF Pcs
  <2>4. Expecting'
    BY <2>1, <1>0 DEF Expecting
  <2> QED
    BY <2>2, <2>3, <2>4 DEF AtInv
<1>7. ASSUME NEW t \in Thread, Store(t) PROVE AtInv'
  <2>1. /\ pc[t] = "idle" /\ pc' = [pc EXCEPT ![t] = "stored"]
        /\ UNCHANGED <<mutex, want, list, linked, local>>
    BY <1>7 DEF Store, Goto
  <2>2. AtTypes' /\ Owned'
    BY <2>1, <1>0 DEF AtTypes, Owned, Pcs
  <2>3. WaitersLive'
    BY <2>1, ListUntouched DEF Pcs
  <2>4. Expecting'
    BY <2>1, <1>0 DEF Expecting
  <2> QED
    BY <2>2, <2>3, <2>4 DEF AtInv
<1>4. ASSUME NEW t \in Thread, Sleep(t) PROVE AtInv'
  <2>1. /\ pc[t] = "link" /\ pc' = [pc EXCEPT ![t] = "sleep"]
        /\ list' = Append(list, t) /\ linked' = [linked EXCEPT ![t] = TRUE]
        /\ mutex' = Free /\ UNCHANGED <<mem, want, local>>
        /\ mutex = t /\ t \notin Range(list) /\ local[t] = <<>>
    BY <1>0, <1>4 DEF Sleep, Goto, Owned, WaitersLive
  <2>2. /\ list' \in Seq(Thread)
        /\ Range(list') = Range(list) \cup {t}
        /\ \A i, j \in DOMAIN list' : list'[i] = list'[j] => i = j
    <3> DEFINE n == Len(list)
    <3>1. n \in Nat /\ DOMAIN list = 1..n
      BY <1>0, LenProperties
    <3>2. /\ list' \in Seq(Thread) /\ Len(list') = n + 1
          /\ \A i \in 1..n : list'[i] = list[i]
          /\ list'[n + 1] = t
      BY <1>0, <2>1, AppendProperties
    <3> HIDE DEF n
    <3>3. DOMAIN list' = 1..(n + 1)
      BY <3>2, LenProperties
    <3>4. /\ \A i \in DOMAIN list' : i \in DOMAIN list \/ i = n + 1
          /\ DOMAIN list \subseteq DOMAIN list' /\ n + 1 \in DOMAIN list'
      BY <3>1, <3>3
    <3>5. \A x : /\ x \in Range(list) <=> \E i \in DOMAIN list : list[i] = x
                 /\ x \in Range(list') <=> \E i \in DOMAIN list' : list'[i] = x
      BY DEF Range
    <3>6. \A i \in DOMAIN list : list'[i] = list[i] /\ list[i] # t
      BY <3>1, <3>2, <3>5, <2>1
    <3>7. Range(list') = Range(list) \cup {t}
      BY <3>2, <3>4, <3>5, <3>6
    <3>8. \A i, j \in DOMAIN list' : list'[i] = list'[j] => i = j
      BY <3>2, <3>4, <3>6, <1>0 DEF WaitersLive
    <3> QED
      BY <3>2, <3>7, <3>8
  <2>3. AtTypes'
    BY <2>1, <2>2, <1>0 DEF AtTypes, Pcs
  <2>4. Owned'
    BY <2>1, <1>0 DEF Owned
  <2>5. WaitersLive'
    <3>1. \A u \in Thread : linked'[u] <=> u \in Range(list')
      BY <2>1, <2>2, <1>0 DEF WaitersLive
    <3>2. \A u \in Range(list') : pc'[u] \in {"sleep", "woken"}
      BY <2>1, <2>2, <1>0 DEF WaitersLive
    <3>3. \A u \in Thread : local'[u] = <<>>
      BY <2>1, <1>0 DEF Owned
    <3>4. Range(<<>>) = {}
      BY DEF Range
    <3> QED
      BY <3>1, <3>2, <3>3, <3>4, <2>2 DEF WaitersLive
  <2>6. Expecting'
    BY <2>1, <1>0 DEF Expecting
  <2> QED
    BY <2>3, <2>4, <2>5, <2>6 DEF AtInv
<1>6. ASSUME NEW t \in Thread, Finish(t) PROVE AtInv'
  <2>1. /\ pc[t] = "woken" /\ pc' = [pc EXCEPT ![t] = "idle"] /\ mutex = Free
        /\ linked' = [linked EXCEPT ![t] = FALSE]
        /\ UNCHANGED <<mem, mutex, local>>
        /\ DOMAIN want' = Thread /\ \A u \in Thread \ {t} : want'[u] = want[u]
    BY <1>0, <1>6 DEF Finish, Goto, Forget
  <2>2. /\ list' \in Seq(Thread)
        /\ Range(list') = Range(list) \ {t}
        /\ \A i, j \in DOMAIN list' : list'[i] = list'[j] => i = j
    <3>1. CASE linked[t]
      <4> DEFINE c == CHOOSE i \in DOMAIN list : list[i] = t
      <4>1. list' = Removed(list, c)
        BY <1>6, <3>1 DEF Finish
      <4>2. \A i, j \in DOMAIN list : list[i] = list[j] => i = j
        BY <1>0 DEF WaitersLive
      <4>3. c \in DOMAIN list /\ list[c] = t
        BY <1>0, <3>1 DEF WaitersLive, Range
      <4> HIDE DEF c
      <4> QED
        BY <4>1, <4>2, <4>3, <1>0, UnlinkFacts
    <3>2. CASE ~linked[t]
      <4>1. list' = list /\ t \notin Range(list)
        BY <1>0, <1>6, <3>2 DEF Finish, WaitersLive
      <4> QED
        BY <4>1, <1>0 DEF WaitersLive
    <3> QED
      BY <3>1, <3>2
  <2>3. AtTypes'
    BY <2>1, <2>2, <1>0 DEF AtTypes, Pcs
  <2>4. Owned'
    BY <2>1, <1>0 DEF Owned
  <2>5. WaitersLive'
    <3>1. \A u \in Thread : linked'[u] <=> u \in Range(list')
      BY <2>1, <2>2, <1>0 DEF WaitersLive
    <3>2. \A u \in Range(list') : pc'[u] \in {"sleep", "woken"}
      BY <2>1, <2>2, <1>0 DEF WaitersLive
    <3>3. \A u \in Thread : local'[u] = <<>>
      BY <2>1, NobodyInside
    <3>4. Range(<<>>) = {}
      BY DEF Range
    <3> QED
      BY <3>1, <3>2, <3>3, <3>4, <2>2 DEF WaitersLive
  <2>6. Expecting'
    BY <2>1, <1>0 DEF Expecting
  <2> QED
    BY <2>3, <2>4, <2>5, <2>6 DEF AtInv
<1>8. ASSUME NEW t \in Thread, Notify(t) PROVE AtInv'
  <2>1. PICK n \in 0..Len(list) :
          /\ pc[t] \in {"stored", "idle"} /\ (pc[t] = "stored" => n = Len(list))
          /\ local' = [local EXCEPT ![t] = SubSeq(list, 1, n)]
          /\ list' = SubSeq(list, n + 1, Len(list))
          /\ linked' = [u \in Thread |-> linked[u] /\ u \notin Range(SubSeq(list, 1, n))]
    BY <1>8 DEF Notify
  <2>2. /\ mutex = Free /\ mutex' = t /\ pc' = [pc EXCEPT ![t] = "signal"]
        /\ UNCHANGED <<mem, want>>
    BY <1>8 DEF Notify, Goto
  <2> DEFINE a == SubSeq(list, 1, n)
  <2>3. /\ a \in Seq(Thread) /\ list' \in Seq(Thread)
        /\ Range(a) \subseteq Range(list)
        /\ Range(list') = Range(list) \ Range(a)
        /\ \A i, j \in DOMAIN list' : list'[i] = list'[j] => i = j
        /\ n = Len(list) => list' = <<>>
    BY <2>1, <1>0, SplitFacts, SMTT(30) DEF WaitersLive
  <2>4. /\ local' = [local EXCEPT ![t] = a]
        /\ linked' = [u \in Thread |-> linked[u] /\ u \notin Range(a)]
    BY <2>1
  <2> HIDE DEF a
  <2>5. AtTypes'
    BY <2>2, <2>3, <2>4, <1>0 DEF AtTypes, Pcs
  <2>6. Owned'
    BY <2>2, <2>4, <1>0, NobodyInside DEF Owned
  <2>7. WaitersLive'
    <3>1. \A u \in Thread : linked'[u] <=> u \in Range(list')
      BY <2>3, <2>4, <1>0 DEF WaitersLive
    <3>2. \A u \in Range(list) : pc'[u] \in {"sleep", "woken"}
      BY <2>1, <2>2, <1>0 DEF WaitersLive
    <3>3. \A u \in Thread \ {t} : local'[u] = <<>>
      BY <2>2, <2>4, <1>0, NobodyInside
    <3>4. Range(<<>>) = {} /\ local'[t] = a
      BY <2>4, <1>0 DEF Range
    <3>5. \A u \in Range(a) : ~linked'[u] /\ pc'[u] \in {"sleep", "woken"}
      BY <2>3, <2>4, <3>2, <1>0
    <3>6. \A v, u \in Thread : u \in Range(local'[v]) =>
              pc'[u] \in {"sleep", "woken"} /\ ~linked'[u]
      BY <3>3, <3>4, <3>5
    <3>7. \A u \in Range(list') : pc'[u] \in {"sleep", "woken"}
      BY <3>2, <2>3
    <3> QED
      BY <3>1, <3>6, <3>7, <2>3 DEF WaitersLive
  <2>8. Expecting'
    <3>1. \A u \in Thread : pc'[u] # "link"
      BY <2>2, <1>0, NobodyInside
    <3>2. CASE pc[t] = "stored"
      <4>1. Range(list') = {}
        BY <3>2, <2>1, <2>3 DEF Range
      <4>2. \A u \in Thread : ~linked'[u]
        BY <4>1, <2>7 DEF WaitersLive
      <4> QED
        BY <4>2, <3>1 DEF Expecting
    <3>3. CASE pc[t] = "idle"
      <4>1. \A u \in Thread : /\ pc'[u] = "sleep" => pc[u] = "sleep"
                              /\ linked'[u] => linked[u]
                              /\ pc[u] = "stored" => pc'[u] = "stored"
        BY <3>3, <2>2, <2>4, <1>0
      <4> QED
        BY <4>1, <3>1, <2>2, <1>0 DEF Expecting
    <3> QED
      BY <3>2, <3>3, <2>1
  <2> QED
    BY <2>5, <2>6, <2>7, <2>8 DEF AtInv
<1>9. ASSUME NEW t \in Thread, Signal(t) PROVE AtInv'
  <2>1. pc[t] = "signal" /\ UNCHANGED <<mem, want, list, linked>> /\ mutex = t
    BY <1>0, <1>9 DEF Signal, Owned
  <2>2. CASE local[t] = <<>>
    <3>1. pc' = [pc EXCEPT ![t] = "idle"] /\ mutex' = Free /\ local' = local
      BY <1>9, <2>2 DEF Signal, Goto
    <3>2. AtTypes' /\ Owned'
      BY <2>1, <2>2, <3>1, <1>0 DEF AtTypes, Owned, Pcs
    <3>3. WaitersLive'
      BY <2>1, <3>1, ListUntouched DEF Pcs
    <3>4. Expecting'
      BY <2>1, <3>1, <1>0 DEF Expecting
    <3> QED
      BY <3>2, <3>3, <3>4 DEF AtInv
  <2>3. CASE local[t] # <<>>
    <3>1. local' = [local EXCEPT ![t] = Tail(@)] /\ UNCHANGED <<mutex, pc>>
      BY <1>9, <2>3 DEF Signal
    <3>2. /\ Tail(local[t]) \in Seq(Thread)
          /\ Range(Tail(local[t])) \subseteq Range(local[t])
      <4> DEFINE l == local[t]
      <4>1. l \in Seq(Thread) /\ l # <<>>
        BY <1>0, <2>3
      <4> HIDE DEF l
      <4>2. /\ Tail(l) \in Seq(Thread) /\ Len(Tail(l)) = Len(l) - 1
            /\ \A i \in 1..Len(Tail(l)) : Tail(l)[i] = l[i + 1]
        BY <4>1, HeadTailProperties
      <4>3. DOMAIN Tail(l) = 1..(Len(l) - 1) /\ DOMAIN l = 1..Len(l) /\ Len(l) \in Nat
        BY <4>1, <4>2, LenProperties
      <4>4. \A i \in DOMAIN Tail(l) : i + 1 \in DOMAIN l /\ Tail(l)[i] = l[i + 1]
        BY <4>2, <4>3
      <4>5. Range(Tail(l)) \subseteq Range(l)
        BY <4>4 DEF Range
      <4> QED
        BY <4>2, <4>5 DEF l
    <3>3. AtTypes' /\ Owned'
      BY <2>1, <3>1, <3>2, <1>0 DEF AtTypes, Owned
    <3>4. WaitersLive'
      <4>1. \A v \in Thread : Range(local'[v]) \subseteq Range(local[v])
        BY <3>1, <3>2, <1>0
      <4> QED
        BY <4>1, <2>1, <3>1, <1>0 DEF WaitersLive
    <3>5. Expecting'
      BY <2>1, <3>1, <1>0 DEF Expecting
    <3> QED
      BY <3>3, <3>4, <3>5 DEF AtInv
  <2> QED
    BY <2>2, <2>3
<1>10. CASE UNCHANGED atVars
  BY <1>10 DEF atVars, AtInv, AtTypes, Owned, WaitersLive, Expecting
<1> QED
  BY <1>1, <1>2, <1>3, <1>4, <1>5, <1>6, <1>7, <1>8, <1>9, <1>10 DEF AtNext

(***************************************************************************)
(* Any number of threads, any words and any number of calls: no waiter     *)
(* that is still on the list has missed the store that changed its word,   *)
(* and what is on the list, or was taken off to be signalled, is the       *)
(* waiter of a thread that is still in its call of `js_atomics_wait`.      *)
(***************************************************************************)
THEOREM WakeupsAreNotLost ==
    ASSUME Free \notin Thread
    PROVE  AtSpec => []NoWaiterLost
<1>1. AtInit => AtInv
  BY AtInitially
<1>2. AtInv /\ [AtNext]_atVars => AtInv'
  BY AtPreserved
<1>3. AtInv => NoWaiterLost
  BY DEF AtInv, Expecting, NoLostWakeup, NoWaiterLost
<1> QED
  BY <1>1, <1>2, <1>3, PTL DEF AtSpec
=============================================================================
