-------------------------- MODULE DownloaderProofs --------------------------
(***************************************************************************)
(* What download() keeps for any number of concurrent calls, articles and  *)
(* servers: no article lost or settled twice, none asked twice of a        *)
(* server, failover in priority order, connections_active exact, and a     *)
(* call blocked on its consumer or on pause() holding no slot.             *)
(*                                                                         *)
(* The invariant is IInv.  CallsInv says what a call knows at each of its  *)
(* awaits; SlotsInv that a call is at most once in one pool; Places where  *)
(* each article is; OrderInv is failover order for the article in hand.    *)
(***************************************************************************)
EXTENDS Downloader, SequenceTheorems, FiniteSetTheorems, TLAPS

Working == {"acquire", "failed", "fetch", "settle"}

Distinct(q) == \A i, j \in 1..Len(q) : q[i] = q[j] => i = j

\* What is true of a call at each place of download().
CallOK(d) ==
    /\ pc[d] \in Working \cup {"send"} => cur[d] \in Articles(d)
    /\ pc[d] \notin Working \cup {"send"} => cur[d] = 0
    /\ pc[d] \in Working =>
         pick[d] \in Servers /\ pick[d] \notin Elements(tried[d][cur[d]])
    /\ pc[d] = "pick" => pending[d] # <<>>
    /\ pc[d] = "send" => outcome[d] \in {"article", "exhausted"}

CallsInv == \A d \in Calls : CallOK(d)

InPool(s) == held[s] \cup Elements(waiting[s])

\* A call is at most once in one pool, and in it while it needs a slot.
SlotsInv ==
    /\ BlockedHoldsNoSlot
    /\ \A s \in Servers : Distinct(waiting[s]) /\ held[s] \cap Elements(waiting[s]) = {}
    /\ \A d \in Calls :
         /\ pc[d] = "acquire" => d \in InPool(pick[d])
         /\ pc[d] \in {"fetch", "settle"} => d \in held[pick[d]]

\* Each article is in one place: settled, in hand or pending.
Placed(d) ==
    /\ \A i, j \in 1..Len(results[d]) :
         results[d][i].article = results[d][j].article => i = j
    /\ Distinct(pending[d])
    /\ cur[d] \notin Elements(pending[d])
    /\ \A i \in 1..Len(results[d]) :
         results[d][i].article # cur[d] /\ results[d][i].article \notin Elements(pending[d])
    /\ pc[d] # "dropped" =>
         \A a \in Articles(d) :
           \/ \E i \in 1..Len(results[d]) : results[d][i].article = a
           \/ a = cur[d]
           \/ a \in Elements(pending[d])
    /\ pc[d] = "returned" => pending[d] = <<>>

Places == \A d \in Calls : Placed(d)

AskedOnce == \A d \in Calls : \A a \in Articles(d) : Distinct(tried[d][a])

\* Failover order, for the article in hand too.
Ordered(d) ==
    /\ \A i \in 1..Len(results[d]) : \A t \in Servers :
         (results[d][i].outcome = "exhausted" \/ Before(t, results[d][i].server))
           => t \in Elements(tried[d][results[d][i].article]) \cup backedOff
    /\ pc[d] \in Working \cup {"send"} => \A t \in Servers :
         ((pc[d] = "send" /\ outcome[d] = "exhausted") \/ Before(t, pick[d]))
           => t \in Elements(tried[d][cur[d]]) \cup backedOff

OrderInv ==
    /\ \A s \in Servers : penalty[s] # 0 => s \in backedOff
    /\ \A d \in Calls : Ordered(d)

IInv ==
    /\ TypeOK /\ CallsInv /\ SlotsInv /\ ActiveCount
    /\ Places /\ AskedOnce /\ OrderInv

-----------------------------------------------------------------------------
(* Lists without repetition                                                 *)

LEMMA AppendElements ==
    ASSUME NEW S, NEW q \in Seq(S), NEW e \in S
    PROVE  /\ Append(q, e) \in Seq(S)
           /\ Elements(Append(q, e)) = Elements(q) \cup {e}
           /\ Distinct(q) /\ e \notin Elements(q) => Distinct(Append(q, e))
<1> DEFINE p == Append(q, e)
<1>1. /\ Len(q) \in Nat /\ p \in Seq(S) /\ Len(p) = Len(q) + 1
      /\ \A i \in 1..Len(q) : p[i] = q[i]
      /\ p[Len(q) + 1] = e
  BY AppendProperties, LenProperties
<1> HIDE DEF p
<1>2. 1..Len(p) = (1..Len(q)) \cup {Len(q) + 1}
  BY <1>1
<1>3. Elements(p) = Elements(q) \cup {e}
  BY <1>1, <1>2 DEF Elements
<1>4. ASSUME Distinct(q), e \notin Elements(q) PROVE Distinct(p)
  BY <1>1, <1>2, <1>4 DEF Distinct, Elements
<1> QED
  BY <1>1, <1>3, <1>4 DEF p

LEMMA TailElements ==
    ASSUME NEW S, NEW q \in Seq(S), q # <<>>
    PROVE  /\ Tail(q) \in Seq(S) /\ Head(q) \in S
           /\ Elements(q) = Elements(Tail(q)) \cup {Head(q)}
           /\ Distinct(q) => Distinct(Tail(q)) /\ Head(q) \notin Elements(Tail(q))
<1> DEFINE t == Tail(q)
           h == Head(q)
<1>1. /\ t \in Seq(S) /\ h \in S /\ Len(q) \in Nat \ {0} /\ Len(t) = Len(q) - 1
      /\ \A i \in 1..Len(t) : t[i] = q[i + 1]
  BY HeadTailProperties, EmptySeq
<1>2. h = q[1]
  OBVIOUS
<1> HIDE DEF t, h
<1>3. /\ 1 \in 1..Len(q)
      /\ \A i \in 1..Len(q) : i # 1 => i - 1 \in 1..Len(t) /\ t[i - 1] = q[i]
      /\ \A i \in 1..Len(t) : i + 1 \in 1..Len(q) /\ i + 1 # 1
  <2>1. 1 \in 1..Len(q) /\ \A i \in 1..Len(t) : i + 1 \in 1..Len(q) /\ i + 1 # 1
    BY <1>1
  <2>2. ASSUME NEW i \in 1..Len(q), i # 1 PROVE i - 1 \in 1..Len(t) /\ t[i - 1] = q[i]
    <3>1. i - 1 \in 1..Len(t) /\ (i - 1) + 1 = i
      BY <1>1, <2>2
    <3>2. t[i - 1] = q[(i - 1) + 1]
      BY <1>1, <3>1
    <3> QED
      BY <3>1, <3>2
  <2> QED
    BY <2>1, <2>2
<1>4. Elements(q) = Elements(t) \cup {h}
  <2>1. ASSUME NEW e \in Elements(q) PROVE e \in Elements(t) \cup {h}
    BY <1>1, <1>2, <1>3 DEF Elements
  <2>2. ASSUME NEW e \in Elements(t) \cup {h} PROVE e \in Elements(q)
    BY <1>1, <1>2, <1>3 DEF Elements
  <2> QED
    BY <2>1, <2>2
<1>5. ASSUME Distinct(q) PROVE Distinct(t) /\ h \notin Elements(t)
  <2>1. Distinct(t)
    <3> SUFFICES ASSUME NEW i \in 1..Len(t), NEW j \in 1..Len(t), t[i] = t[j] PROVE i = j
      BY DEF Distinct
    <3>1. i + 1 = j + 1
      BY <1>1, <1>3, <1>5 DEF Distinct
    <3> QED
      BY <1>1, <3>1
  <2>2. ASSUME NEW i \in 1..Len(t) PROVE t[i] # h
    BY <1>1, <1>2, <1>3, <1>5 DEF Distinct
  <2> QED
    BY <2>1, <2>2 DEF Elements
<1> QED
  BY <1>1, <1>4, <1>5 DEF t, h

\* What is left of a queue when its k-th element gives up.
Cut(q, k) == SubSeq(q, 1, k - 1) \o SubSeq(q, k + 1, Len(q))

LEMMA WithoutElements ==
    ASSUME NEW S, NEW q \in Seq(S), NEW k \in 1..Len(q), Distinct(q)
    PROVE  /\ Cut(q, k) \in Seq(S)
           /\ Elements(Cut(q, k)) = Elements(q) \ {q[k]}
           /\ Distinct(Cut(q, k))
<1> DEFINE a == SubSeq(q, 1, k - 1)
           b == SubSeq(q, k + 1, Len(q))
           w == Cut(q, k)
<1>1. Len(q) \in Nat /\ k \in Nat /\ 1 <= k /\ k <= Len(q)
  BY LenProperties
<1>2. /\ a \in Seq(S) /\ Len(a) = k - 1
      /\ \A i \in 1..(k - 1) : a[i] = q[i]
  BY <1>1, SubSeqProperties, ElementOfSeq
<1>3. /\ b \in Seq(S) /\ Len(b) = Len(q) - k
      /\ \A i \in 1..(Len(q) - k) : b[i] = q[k + i]
  BY <1>1, SubSeqProperties, ElementOfSeq
<1>4. w = a \o b
  BY DEF Cut
<1> HIDE DEF a, b, w
<1>5. /\ w \in Seq(S) /\ Len(w) = Len(q) - 1
      /\ \A i \in 1..(Len(q) - 1) : w[i] = IF i <= k - 1 THEN a[i] ELSE b[i - (k - 1)]
  <2>1. /\ w \in Seq(S) /\ Len(w) = Len(a) + Len(b)
        /\ \A i \in 1..(Len(a) + Len(b)) :
              w[i] = IF i <= Len(a) THEN a[i] ELSE b[i - Len(a)]
    BY <1>2, <1>3, <1>4, ConcatProperties
  <2>2. Len(a) + Len(b) = Len(q) - 1 /\ Len(a) = k - 1
    BY <1>1, <1>2, <1>3
  <2>3. \A i \in 1..(Len(q) - 1) : w[i] = IF i <= k - 1 THEN a[i] ELSE b[i - (k - 1)]
    BY <2>1, <2>2
  <2> QED
    BY <2>1, <2>2, <2>3
<1>6. \A i \in 1..(Len(q) - 1) : i < k => w[i] = q[i]
  BY <1>1, <1>2, <1>5
<1>7. \A i \in 1..(Len(q) - 1) : ~(i < k) => w[i] = q[i + 1]
  <2> SUFFICES ASSUME NEW i \in 1..(Len(q) - 1), ~(i < k) PROVE w[i] = q[i + 1]
    OBVIOUS
  <2>1. i - (k - 1) \in 1..(Len(q) - k) /\ k + (i - (k - 1)) = i + 1
    BY <1>1
  <2>2. w[i] = b[i - (k - 1)]
    BY <1>1, <1>5
  <2>3. b[i - (k - 1)] = q[k + (i - (k - 1))]
    BY <1>3, <2>1
  <2> QED
    BY <2>1, <2>2, <2>3
<1>8. Distinct(w)
  <2> SUFFICES ASSUME NEW i \in 1..Len(w), NEW j \in 1..Len(w), w[i] = w[j] PROVE i = j
    BY DEF Distinct
  <2> DEFINE f(n) == IF n < k THEN n ELSE n + 1
  <2>1. i \in 1..(Len(q) - 1) /\ j \in 1..(Len(q) - 1)
    BY <1>5
  <2>2. f(i) \in 1..Len(q) /\ f(j) \in 1..Len(q) /\ (f(i) = f(j) => i = j)
    BY <1>1, <2>1
  <2>3. q[f(i)] = q[f(j)]
    BY <1>6, <1>7, <2>1
  <2> QED
    BY <2>2, <2>3 DEF Distinct
<1>9. ASSUME NEW e \in Elements(w) PROVE e \in Elements(q) \ {q[k]}
  <2>1. PICK i \in 1..(Len(q) - 1) : e = w[i]
    BY <1>5, <1>9 DEF Elements
  <2>2. CASE i < k
    <3>1. i \in 1..Len(q) /\ i # k /\ e = q[i]
      BY <1>1, <1>6, <2>1, <2>2
    <3> QED
      BY <3>1 DEF Elements, Distinct
  <2>3. CASE ~(i < k)
    <3>1. i + 1 \in 1..Len(q) /\ i + 1 # k /\ e = q[i + 1]
      BY <1>1, <1>7, <2>1, <2>3
    <3> QED
      BY <3>1 DEF Elements, Distinct
  <2> QED
    BY <2>2, <2>3
<1>10. ASSUME NEW e \in Elements(q) \ {q[k]} PROVE e \in Elements(w)
  <2>1. PICK i \in 1..Len(q) : e = q[i] /\ i # k
    BY <1>10 DEF Elements
  <2>2. CASE i < k
    <3>1. i \in 1..Len(w) /\ e = w[i]
      BY <1>1, <1>5, <1>6, <2>1, <2>2
    <3> QED
      BY <3>1 DEF Elements
  <2>3. CASE ~(i < k)
    <3>1. i - 1 \in 1..(Len(q) - 1) /\ ~(i - 1 < k) /\ (i - 1) + 1 = i
      BY <1>1, <2>1, <2>3
    <3>2. w[i - 1] = q[(i - 1) + 1]
      BY <1>7, <3>1
    <3>3. i - 1 \in 1..Len(w) /\ e = w[i - 1]
      BY <1>5, <2>1, <3>1, <3>2
    <3> QED
      BY <3>3 DEF Elements
  <2> QED
    BY <2>2, <2>3
<1> QED
  BY <1>5, <1>8, <1>9, <1>10 DEF w
-----------------------------------------------------------------------------
(* The order of the servers                                                 *)

\* A non-empty set of natural numbers has a least element.
LEMMA LeastExists ==
    ASSUME NEW T \in SUBSET Nat, T # {}
    PROVE  \E x \in T : \A y \in T : x <= y
<1>1. PICK x \in T : \A y \in T : ~ (<<y, x>> \in OpToRel(<, Nat))
  BY NatLessThanWellFounded, WFMin
<1>2. \A y \in T : ~ (y < x)
  BY <1>1 DEF OpToRel
<1> QED
  BY <1>2

LEMMA ServerFacts ==
    \A s \in Servers : s \in Nat /\ s \in DOMAIN Configs /\ s # 0 /\ Configs[s].priority \in Nat
                       /\ Configs[s].connections \in Nat
<1>1. /\ Len(Configs) \in Nat /\ DOMAIN Configs = 1..Len(Configs)
      /\ \A s \in 1..Len(Configs) :
            Configs[s] \in [priority : Nat, enabled : BOOLEAN, connections : Nat]
  BY ConfigsAssumption, LenProperties, ElementOfSeq
<1> QED
  BY <1>1 DEF Servers

\* First() is what it says: one of the set, and before all the others.
LEMMA FirstIsFirst ==
    ASSUME NEW S \in SUBSET Servers, S # {}
    PROVE  First(S) \in S /\ \A t \in Servers : Before(t, First(S)) => t \notin S
<1> DEFINE P == {Configs[s].priority : s \in S}
<1>1. PICK x \in P : \A y \in P : x <= y
  <2>1. P # {} /\ P \in SUBSET Nat
    BY ServerFacts
  <2> QED
    BY <2>1, LeastExists
<1> DEFINE T == {s \in S : Configs[s].priority = x}
<1>2. PICK m \in T : \A t \in T : m <= t
  <2>1. T # {} /\ T \in SUBSET Nat
    BY <1>1, ServerFacts
  <2> QED
    BY <2>1, LeastExists
<1>3. \A t \in S \ {m} : Before(m, t)
  <2> SUFFICES ASSUME NEW t \in S \ {m} PROVE Before(m, t)
    OBVIOUS
  <2>1. /\ m \in Nat /\ t \in Nat /\ Configs[m].priority = x /\ x <= Configs[t].priority
        /\ Configs[t].priority \in Nat /\ x \in Nat
    BY <1>1, <1>2, ServerFacts
  <2>2. CASE Configs[t].priority = x
    BY <1>2, <2>1, <2>2 DEF Before
  <2>3. CASE Configs[t].priority # x
    BY <2>1, <2>3 DEF Before
  <2> QED
    BY <2>2, <2>3
<1> HIDE DEF P, T
<1>4. m \in S
  BY <1>2 DEF T
<1>5. First(S) \in S /\ \A t \in S \ {First(S)} : Before(First(S), t)
  BY <1>3, <1>4 DEF First
<1>6. ASSUME NEW t \in Servers, Before(t, First(S)), t \in S PROVE FALSE
  <2> DEFINE f == First(S)
  <2>1. f \in Servers /\ Before(t, f) /\ (t # f => Before(f, t))
    BY <1>5, <1>6
  <2>2. /\ f \in Nat /\ t \in Nat /\ Configs[f].priority \in Nat /\ Configs[t].priority \in Nat
    BY <2>1, ServerFacts
  <2> HIDE DEF f
  <2> QED
    BY <2>1, <2>2 DEF Before
<1> QED
  BY <1>5, <1>6

-----------------------------------------------------------------------------
(* The steps                                                                *)

Acts(d) ==
    \/ CheckFlags(d) \/ Pick(d) \/ Acquired(d) \/ AcquireFail(d)
    \/ Connectless(d) \/ Fetch(d) \/ Settle(d) \/ Send(d) \/ Drop(d)

LEMMA NextCases ==
    ASSUME Next
    PROVE  \/ \E d \in Calls : Acts(d)
           \/ \E d \in Calls : Receive(d) \/ CloseReceiver(d)
           \/ Pause \/ Resume \/ Shutdown \/ Tick \/ Finished
  BY DEF Next, Step, Acts

\* A call enters the pool of one server, as a holder or at the end of its queue.
LEMMA EnteredPool ==
    ASSUME TypeOK, SlotsInv, NEW d \in Calls, NEW s \in Servers, EnterPool(d, s),
           d \notin InPool(s)
    PROVE  /\ held' \in [Servers -> SUBSET Calls] /\ waiting' \in [Servers -> Seq(Calls)]
           /\ \A t \in Servers :
                /\ held'[t] \cup Elements(waiting'[t]) =
                      IF t = s THEN InPool(t) \cup {d} ELSE InPool(t)
                /\ Distinct(waiting'[t]) /\ held'[t] \cap Elements(waiting'[t]) = {}
                /\ held[t] \subseteq held'[t]
<1>1. /\ held \in [Servers -> SUBSET Calls] /\ waiting \in [Servers -> Seq(Calls)]
      /\ \A t \in Servers : Distinct(waiting[t]) /\ held[t] \cap Elements(waiting[t]) = {}
      /\ waiting[s] \in Seq(Calls)
  BY DEF TypeOK, SlotsInv
<1>2. CASE held' = [held EXCEPT ![s] = @ \cup {d}] /\ waiting' = waiting
  BY <1>1, <1>2 DEF InPool
<1>3. CASE waiting' = [waiting EXCEPT ![s] = Append(@, d)] /\ held' = held
  <2> DEFINE q == Append(waiting[s], d)
  <2>1. q \in Seq(Calls) /\ Elements(q) = Elements(waiting[s]) \cup {d} /\ Distinct(q)
    BY <1>1, AppendElements DEF InPool
  <2>2. \A t \in Servers : waiting'[t] = IF t = s THEN q ELSE waiting[t]
    BY <1>1, <1>3
  <2>3. waiting' \in [Servers -> Seq(Calls)]
    BY <1>1, <1>3, <2>1
  <2> HIDE DEF q
  <2> QED
    BY <1>1, <1>3, <2>1, <2>2, <2>3 DEF InPool
<1> QED
  BY <1>2, <1>3 DEF EnterPool

\* A call leaves the pool, and nobody else does.
LEMMA LeftPool ==
    ASSUME TypeOK, SlotsInv, NEW d \in Calls, NEW s \in Servers, LeavePool(d, s)
    PROVE  /\ held' \in [Servers -> SUBSET Calls] /\ waiting' \in [Servers -> Seq(Calls)]
           /\ \A t \in Servers :
                /\ held'[t] \cup Elements(waiting'[t]) =
                      IF t = s THEN InPool(t) \ {d} ELSE InPool(t)
                /\ Distinct(waiting'[t]) /\ held'[t] \cap Elements(waiting'[t]) = {}
                /\ held[t] \ {d} \subseteq held'[t]
<1>1. /\ held \in [Servers -> SUBSET Calls] /\ waiting \in [Servers -> Seq(Calls)]
      /\ \A t \in Servers : Distinct(waiting[t]) /\ held[t] \cap Elements(waiting[t]) = {}
      /\ waiting[s] \in Seq(Calls)
  BY DEF TypeOK, SlotsInv
<1>2. CASE d \in held[s] /\ waiting[s] = <<>>
  <2>1. held' = [held EXCEPT ![s] = @ \ {d}] /\ waiting' = waiting
    BY <1>2 DEF LeavePool
  <2> QED
    BY <1>1, <1>2, <2>1 DEF InPool
<1>3. CASE d \in held[s] /\ waiting[s] # <<>>
  <2> DEFINE q == Tail(waiting[s])
             h == Head(waiting[s])
  <2>1. /\ q \in Seq(Calls) /\ h \in Calls /\ Elements(waiting[s]) = Elements(q) \cup {h}
        /\ Distinct(q) /\ h \notin Elements(q)
    BY <1>1, <1>3, TailElements
  <2>2. /\ held' = [held EXCEPT ![s] = (@ \ {d}) \cup {h}]
        /\ waiting' = [waiting EXCEPT ![s] = q]
    BY <1>3 DEF LeavePool
  <2> HIDE DEF q, h
  <2>3. \A t \in Servers : /\ held'[t] = IF t = s THEN (held[s] \ {d}) \cup {h} ELSE held[t]
                           /\ waiting'[t] = IF t = s THEN q ELSE waiting[t]
    BY <1>1, <2>2
  <2>4. held' \in [Servers -> SUBSET Calls] /\ waiting' \in [Servers -> Seq(Calls)]
    BY <1>1, <2>1, <2>2
  <2>5. d \notin Elements(q) /\ d # h
    BY <1>1, <1>3, <2>1
  <2> QED
    BY <1>1, <1>3, <2>1, <2>3, <2>4, <2>5 DEF InPool
<1>4. CASE d \notin held[s]
  <2>1. PICK i \in 1..Len(waiting[s]) :
          /\ waiting[s][i] = d /\ held' = held
          /\ waiting' = [waiting EXCEPT ![s] = Cut(@, i)]
    BY <1>4 DEF LeavePool, Slots!Without, Cut
  <2> DEFINE q == Cut(waiting[s], i)
  <2>2. q \in Seq(Calls) /\ Elements(q) = Elements(waiting[s]) \ {d} /\ Distinct(q)
    <3>1. waiting[s] \in Seq(Calls) /\ Distinct(waiting[s])
      BY <1>1
    <3>2. /\ q \in Seq(Calls) /\ Elements(q) = Elements(waiting[s]) \ {waiting[s][i]}
          /\ Distinct(q)
      BY <3>1, WithoutElements
    <3> QED
      BY <2>1, <3>2
  <2>3. waiting' = [waiting EXCEPT ![s] = q]
    BY <2>1
  <2> HIDE DEF q
  <2>4. \A t \in Servers : waiting'[t] = IF t = s THEN q ELSE waiting[t]
    BY <1>1, <2>3
  <2>5. waiting' \in [Servers -> Seq(Calls)]
    BY <1>1, <2>2, <2>3
  <2> QED
    BY <1>1, <1>4, <2>1, <2>2, <2>4, <2>5 DEF InPool
<1> QED
  BY <1>2, <1>3, <1>4

\* The article goes to the end of the list, and its server to those it tried.
LEMMA Requeued ==
    ASSUME TypeOK, CallsInv, NEW d \in Calls, pc[d] \in Working, Requeue(d)
    PROVE  /\ pc' \in [Calls -> PCs] /\ pc'[d] = "loop"
           /\ \A e \in Calls \ {d} : pc'[e] = pc[e] /\ cur'[e] = cur[e] /\ pick'[e] = pick[e]
                 /\ outcome'[e] = outcome[e] /\ pending'[e] = pending[e] /\ tried'[e] = tried[e]
           /\ cur' \in [Calls -> Nat] /\ cur'[d] = 0
           /\ pick' \in [Calls -> Servers \cup {0}] /\ pick'[d] = 0
           /\ outcome' \in [Calls -> Outcomes]
           /\ DOMAIN pending' = Calls /\ pending'[d] \in Seq(Articles(d))
           /\ pending'[d] = Append(pending[d], cur[d])
           /\ Elements(pending'[d]) = Elements(pending[d]) \cup {cur[d]}
           /\ DOMAIN tried' = Calls /\ tried'[d] \in [Articles(d) -> Seq(DOMAIN Configs)]
           /\ tried'[d][cur[d]] = Append(tried[d][cur[d]], pick[d])
           /\ Elements(tried'[d][cur[d]]) = Elements(tried[d][cur[d]]) \cup {pick[d]}
           /\ \A a \in Articles(d) \ {cur[d]} : tried'[d][a] = tried[d][a]
<1>1. /\ pc \in [Calls -> PCs] /\ cur \in [Calls -> Nat] /\ outcome \in [Calls -> Outcomes]
      /\ pick \in [Calls -> Servers \cup {0}]
      /\ DOMAIN pending = Calls /\ DOMAIN tried = Calls
      /\ pending[d] \in Seq(Articles(d)) /\ tried[d] \in [Articles(d) -> Seq(DOMAIN Configs)]
      /\ cur[d] \in Articles(d) /\ pick[d] \in DOMAIN Configs
  BY DEF TypeOK, CallsInv, CallOK, Servers
<1>2. "loop" \in PCs /\ "none" \in Outcomes
  BY DEF PCs, Outcomes
<1> DEFINE a == cur[d]
           s == pick[d]
           q == Append(tried[d][a], s)
           p == Append(pending[d], a)
<1>3. /\ q \in Seq(DOMAIN Configs) /\ Elements(q) = Elements(tried[d][a]) \cup {s}
      /\ p \in Seq(Articles(d)) /\ Elements(p) = Elements(pending[d]) \cup {a}
  BY <1>1, AppendElements
<1>4. /\ pc' = [pc EXCEPT ![d] = "loop"] /\ cur' = [cur EXCEPT ![d] = 0]
      /\ pick' = [pick EXCEPT ![d] = 0] /\ outcome' = [outcome EXCEPT ![d] = "none"]
      /\ pending' = [pending EXCEPT ![d] = p]
      /\ tried' = [tried EXCEPT ![d] = [tried[d] EXCEPT ![a] = q]]
  BY <1>1 DEF Requeue, Goto
<1> HIDE DEF a, s, q, p
<1>5. a \in Articles(d) /\ a = cur[d] /\ s = pick[d]
  BY <1>1 DEF a, s
<1>6. /\ q = Append(tried[d][a], s) /\ p = Append(pending[d], a)
  BY DEF p, q
<1>7. /\ DOMAIN tried' = Calls /\ tried'[d] = [tried[d] EXCEPT ![a] = q]
      /\ \A e \in Calls \ {d} : tried'[e] = tried[e]
  BY <1>1, <1>4
<1>8. tried'[d] \in [Articles(d) -> Seq(DOMAIN Configs)] /\ tried'[d][a] = q
  BY <1>1, <1>3, <1>5, <1>7
<1>9. \A b \in Articles(d) \ {a} : tried'[d][b] = tried[d][b]
  BY <1>1, <1>7
<1>10. /\ pc' \in [Calls -> PCs] /\ pc'[d] = "loop" /\ cur' \in [Calls -> Nat] /\ cur'[d] = 0
       /\ pick' \in [Calls -> Servers \cup {0}] /\ pick'[d] = 0
       /\ outcome' \in [Calls -> Outcomes]
       /\ DOMAIN pending' = Calls /\ pending'[d] = p
  BY <1>1, <1>2, <1>4
<1>11. \A e \in Calls \ {d} : pc'[e] = pc[e] /\ cur'[e] = cur[e] /\ pick'[e] = pick[e]
          /\ outcome'[e] = outcome[e] /\ pending'[e] = pending[e]
  BY <1>1, <1>4
<1> QED
  BY <1>3, <1>5, <1>6, <1>7, <1>8, <1>9, <1>10, <1>11

-----------------------------------------------------------------------------
(* Types                                                                    *)

LEMMA TypeStep ==
    ASSUME IInv, [Next]_vars
    PROVE  TypeOK'
<1>1. TypeOK /\ CallsInv /\ SlotsInv
  BY DEF IInv
<1>2. "loop" \in PCs /\ "none" \in Outcomes
  BY DEF PCs, Outcomes
<1>3. ASSUME NEW d \in Calls, CheckFlags(d) PROVE TypeOK'
  <2>1. pc' \in [Calls -> PCs]
    BY <1>1, <1>3 DEF TypeOK, CheckFlags, Loop, Goto, PCs, Ended
  <2> QED
    BY <1>1, <1>3, <2>1 DEF TypeOK, CheckFlags, chanVars, slotVars, serverVars, flagVars
<1>4. ASSUME NEW d \in Calls, Pick(d) PROVE TypeOK'
  <2> DEFINE S == Candidates(tried[d][Head(pending[d])])
  <2>1. /\ pc[d] = "pick" /\ pending[d] # <<>> /\ pending[d] \in Seq(Articles(d))
    BY <1>1, <1>4 DEF Pick, CallsInv, CallOK, TypeOK
  <2>2. /\ Tail(pending[d]) \in Seq(Articles(d)) /\ Head(pending[d]) \in Nat
    <3>1. Tail(pending[d]) \in Seq(Articles(d)) /\ Head(pending[d]) \in Articles(d)
      BY <2>1, TailElements
    <3>2. Articles(d) \subseteq Nat
      BY BatchAssumption DEF Articles
    <3> QED
      BY <3>1, <3>2
  <2>3. pending' = [pending EXCEPT ![d] = Tail(@)] /\ cur' = [cur EXCEPT ![d] = Head(pending[d])]
    BY <1>4 DEF Pick
  <2>4. /\ DOMAIN pending' = Calls /\ \A e \in Calls : pending'[e] \in Seq(Articles(e))
        /\ cur' \in [Calls -> Nat]
    BY <1>1, <2>2, <2>3 DEF TypeOK
  <2>5. /\ pc' \in [Calls -> PCs] /\ outcome' \in [Calls -> Outcomes]
        /\ pick' \in [Calls -> Servers \cup {0}]
        /\ held' \in [Servers -> SUBSET Calls] /\ waiting' \in [Servers -> Seq(Calls)]
    <3>1. CASE S = {}
      <4>1. /\ pc' = [pc EXCEPT ![d] = "send"] /\ outcome' = [outcome EXCEPT ![d] = "exhausted"]
            /\ UNCHANGED <<pick, slotVars>>
        BY <1>4, <3>1 DEF Pick, Goto
      <4> QED
        BY <1>1, <4>1 DEF TypeOK, PCs, Outcomes, slotVars
    <3>2. CASE S # {}
      <4>1. /\ pc' = [pc EXCEPT ![d] = "acquire"] /\ outcome' = outcome
            /\ EnterPool(d, First(S)) /\ pick' = [pick EXCEPT ![d] = First(S)]
        BY <1>4, <3>2 DEF Pick, Goto
      <4>2. First(S) \in Servers
        BY <3>2, FirstIsFirst DEF Candidates
      <4>3. d \notin InPool(First(S))
        BY <1>1, <2>1, <4>2 DEF SlotsInv, BlockedHoldsNoSlot, InPool
      <4>4. held' \in [Servers -> SUBSET Calls] /\ waiting' \in [Servers -> Seq(Calls)]
        BY <1>1, <4>1, <4>2, <4>3, EnteredPool
      <4> HIDE DEF S
      <4> QED
        BY <1>1, <4>1, <4>2, <4>4 DEF TypeOK, PCs
    <3> QED
      BY <3>1, <3>2
  <2>6. UNCHANGED <<tried, results, chanVars, serverVars, flagVars>>
    BY <1>4 DEF Pick
  <2> QED
    BY <1>1, <2>4, <2>5, <2>6 DEF TypeOK, chanVars, serverVars, flagVars
<1>5. ASSUME NEW d \in Calls, Acquired(d) PROVE TypeOK'
  <2>1. pick[d] \in Servers /\ pc' = [pc EXCEPT ![d] = "fetch"]
        /\ active' = [active EXCEPT ![pick[d]] = @ + 1]
    BY <1>1, <1>5 DEF Acquired, CallsInv, CallOK, Working, CountActive, Goto
  <2>2. pc' \in [Calls -> PCs] /\ active' \in [Servers -> Nat]
    BY <1>1, <2>1 DEF TypeOK, PCs
  <2> QED
    BY <1>1, <1>5, <2>2 DEF TypeOK, Acquired, chanVars, slotVars, flagVars
<1>6. ASSUME NEW d \in Calls, AcquireFail(d) PROVE TypeOK'
  <2>1. pick[d] \in Servers /\ pc' = [pc EXCEPT ![d] = "failed"] /\ LeavePool(d, pick[d])
    BY <1>1, <1>6 DEF AcquireFail, CallsInv, CallOK, Working, Goto
  <2>2. held' \in [Servers -> SUBSET Calls] /\ waiting' \in [Servers -> Seq(Calls)]
    BY <1>1, <2>1, LeftPool
  <2>3. PICK e \in AcquireErrors \cup {"timeout"} : outcome' = [outcome EXCEPT ![d] = e]
    BY <1>6 DEF AcquireFail
  <2>4. pc' \in [Calls -> PCs] /\ outcome' \in [Calls -> Outcomes]
    BY <1>1, <2>1, <2>3 DEF TypeOK, PCs, Outcomes, AcquireErrors, FetchResults, Fatal
  <2> QED
    BY <1>1, <1>6, <2>2, <2>4 DEF TypeOK, AcquireFail, chanVars, serverVars, flagVars
<1>7. ASSUME NEW d \in Calls, Requeue(d), pc[d] \in Working
      PROVE  /\ pc' \in [Calls -> PCs] /\ outcome' \in [Calls -> Outcomes]
             /\ cur' \in [Calls -> Nat] /\ pick' \in [Calls -> Servers \cup {0}]
             /\ DOMAIN pending' = Calls /\ DOMAIN tried' = Calls
             /\ \A e \in Calls : /\ pending'[e] \in Seq(Articles(e))
                                 /\ tried'[e] \in [Articles(e) -> Seq(DOMAIN Configs)]
  <2>1. \A e \in Calls \ {d} : /\ pending'[e] = pending[e] /\ tried'[e] = tried[e]
                               /\ pending[e] \in Seq(Articles(e))
                               /\ tried[e] \in [Articles(e) -> Seq(DOMAIN Configs)]
    BY <1>1, <1>7, Requeued DEF TypeOK
  <2> QED
    BY <1>1, <1>7, <2>1, Requeued
<1>8. ASSUME NEW s \in Servers, NEW e \in Outcomes, Penalize(s, e)
      PROVE  penalty' \in [Servers -> 0..LongPenalty] /\ backedOff' \subseteq Servers
  <2>1. PICK p \in {ShortPenalty, LongPenalty} : penalty' = [penalty EXCEPT ![s] = p]
    BY <1>8 DEF Penalize, PenaltyFor
  <2>2. p \in 0..LongPenalty
    BY PenaltyAssumption
  <2> QED
    BY <1>1, <1>8, <2>1, <2>2 DEF Penalize, TypeOK
<1>9. ASSUME NEW d \in Calls, Connectless(d) PROVE TypeOK'
  <2>1. /\ pick[d] \in Servers /\ pc[d] \in Working /\ Requeue(d) /\ outcome[d] \in Outcomes
        /\ Penalize(pick[d], outcome[d])
    BY <1>1, <1>9 DEF Connectless, CallsInv, CallOK, Working, TypeOK
  <2>2. penalty' \in [Servers -> 0..LongPenalty] /\ backedOff' \subseteq Servers
    BY <1>8, <2>1
  <2>3. UNCHANGED <<results, chanVars, slotVars, active, stats, leaked, flagVars>>
    BY <1>9 DEF Connectless
  <2> QED
    BY <1>1, <1>7, <2>1, <2>2, <2>3 DEF TypeOK, chanVars, slotVars, flagVars
<1>10. ASSUME NEW d \in Calls, Fetch(d) PROVE TypeOK'
  <2>1. PICK r \in FetchResults : outcome' = [outcome EXCEPT ![d] = r]
    BY <1>10 DEF Fetch
  <2>2. pc' = [pc EXCEPT ![d] = "settle"]
    BY <1>10 DEF Fetch, Goto
  <2>3. pc' \in [Calls -> PCs] /\ outcome' \in [Calls -> Outcomes]
    BY <1>1, <2>1, <2>2 DEF TypeOK, PCs, Outcomes
  <2> QED
    BY <1>1, <1>10, <2>3 DEF TypeOK, Fetch, chanVars, slotVars, serverVars, flagVars
<1>11. ASSUME NEW d \in Calls, Settle(d) PROVE TypeOK'
  <2> DEFINE s == pick[d]
             o == outcome[d]
  <2>1. s \in Servers /\ pc[d] = "settle" /\ pc[d] \in Working /\ o \in Outcomes
    BY <1>1, <1>11 DEF Settle, CallsInv, CallOK, Working, TypeOK
  <2>2. /\ LeavePool(d, s) /\ UncountActive(s) /\ Record(s, o = "article")
        /\ Penalize(s, o) \/ UNCHANGED <<penalty, backedOff>>
        /\ \/ Requeue(d)
           \/ Goto(d, "send") /\ UNCHANGED <<tried, pending, cur, pick, outcome>>
        /\ UNCHANGED <<results, chanVars, leaked, flagVars>>
    BY <1>11 DEF Settle
  <2> HIDE DEF s, o
  <2>3. held' \in [Servers -> SUBSET Calls] /\ waiting' \in [Servers -> Seq(Calls)]
    BY <1>1, <2>1, <2>2, LeftPool
  <2>4. active' \in [Servers -> Nat]
    BY <1>1, <2>1, <2>2 DEF TypeOK, UncountActive
  <2>5. stats' \in [Servers -> [tried : Nat, failed : Nat]]
    <3> DEFINE n == [tried |-> stats[s].tried + 1,
                     failed |-> stats[s].failed + (IF o = "article" THEN 0 ELSE 1)]
    <3>1. stats[s] \in [tried : Nat, failed : Nat]
      BY <1>1, <2>1 DEF TypeOK
    <3>2. n \in [tried : Nat, failed : Nat]
      BY <3>1
    <3>3. stats' = [stats EXCEPT ![s] = n]
      BY <2>2 DEF Record
    <3> HIDE DEF n
    <3> QED
      BY <1>1, <2>1, <3>2, <3>3 DEF TypeOK
  <2>6. penalty' \in [Servers -> 0..LongPenalty] /\ backedOff' \subseteq Servers
    BY <1>1, <1>8, <2>1, <2>2 DEF TypeOK
  <2>7. /\ pc' \in [Calls -> PCs] /\ outcome' \in [Calls -> Outcomes]
        /\ cur' \in [Calls -> Nat] /\ pick' \in [Calls -> Servers \cup {0}]
        /\ DOMAIN pending' = Calls /\ DOMAIN tried' = Calls
        /\ \A e \in Calls : /\ pending'[e] \in Seq(Articles(e))
                            /\ tried'[e] \in [Articles(e) -> Seq(DOMAIN Configs)]
    <3>1. CASE Requeue(d)
      BY <1>7, <2>1, <3>1
    <3>2. CASE Goto(d, "send") /\ UNCHANGED <<tried, pending, cur, pick, outcome>>
      BY <1>1, <3>2 DEF TypeOK, Goto, PCs
    <3> QED
      BY <2>2, <3>1, <3>2
  <2> QED
    BY <1>1, <2>2, <2>3, <2>4, <2>5, <2>6, <2>7 DEF TypeOK, chanVars, flagVars
<1>12. ASSUME NEW d \in Calls, Send(d) PROVE TypeOK'
  <2> DEFINE T == [article : Articles(d), outcome : {"article", "exhausted"},
                   server : Servers \cup {0}]
             r == [article |-> cur[d], outcome |-> outcome[d], server |-> pick[d]]
  <2>1. r \in T /\ results[d] \in Seq(T)
    BY <1>1, <1>12 DEF Send, CallsInv, CallOK, TypeOK
  <2>2. Append(results[d], r) \in Seq(T)
    BY <2>1, AppendElements
  <2>3. results' = [results EXCEPT ![d] = Append(@, r)]
    BY <1>12 DEF Send
  <2>4. /\ pc' = [pc EXCEPT ![d] = "loop"] /\ cur' = [cur EXCEPT ![d] = 0]
        /\ pick' = [pick EXCEPT ![d] = 0] /\ outcome' = [outcome EXCEPT ![d] = "none"]
    BY <1>12 DEF Send, Goto
  <2>5. /\ pc' \in [Calls -> PCs] /\ cur' \in [Calls -> Nat] /\ outcome' \in [Calls -> Outcomes]
        /\ pick' \in [Calls -> Servers \cup {0}]
    BY <1>1, <1>2, <2>4 DEF TypeOK
  <2>6. queued' \in [Calls -> 0..ChannelCap]
    <3>1. queued[d] \in 0..ChannelCap /\ ChannelCap \in Nat /\ receiving[d] \in BOOLEAN
      BY <1>1, ChannelAssumption DEF TypeOK
    <3>2. (IF receiving[d] THEN queued[d] + 1 ELSE queued[d]) \in 0..ChannelCap
      BY <1>12, <3>1 DEF Send, HasRoom
    <3>3. queued' = [queued EXCEPT ![d] = IF receiving[d] THEN queued[d] + 1 ELSE queued[d]]
      BY <1>12 DEF Send
    <3> QED
      BY <1>1, <3>2, <3>3 DEF TypeOK
  <2> HIDE DEF T, r
  <2>7. /\ DOMAIN results' = Calls /\ results'[d] \in Seq(T)
        /\ \A e \in Calls \ {d} : results'[e] = results[e]
    BY <1>1, <2>2, <2>3 DEF TypeOK
  <2>8. \A e \in Calls : results'[e] \in Seq([article : Articles(e),
            outcome : {"article", "exhausted"}, server : Servers \cup {0}])
    BY <1>1, <2>7 DEF TypeOK, T
  <2>9. UNCHANGED <<pending, tried, receiving, slotVars, serverVars, flagVars>>
    BY <1>12 DEF Send
  <2> QED
    BY <1>1, <2>5, <2>6, <2>7, <2>8, <2>9 DEF TypeOK, slotVars, serverVars, flagVars
<1>13. ASSUME NEW d \in Calls, Drop(d) PROVE TypeOK'
  <2>1. /\ pc' = [pc EXCEPT ![d] = "dropped"] /\ pending' = [pending EXCEPT ![d] = <<>>]
        /\ cur' = [cur EXCEPT ![d] = 0] /\ outcome' = outcome
        /\ pick' = pick \/ pick' = [pick EXCEPT ![d] = 0]
        /\ UNCHANGED <<tried, results, chanVars, active, stats, penalty, backedOff, flagVars>>
    BY <1>13 DEF Drop, Goto
  <2>2. <<>> \in Seq(Articles(d))
    BY EmptySeq
  <2>3. /\ pc' \in [Calls -> PCs] /\ cur' \in [Calls -> Nat]
        /\ DOMAIN pending' = Calls /\ \A e \in Calls : pending'[e] \in Seq(Articles(e))
        /\ pick' \in [Calls -> Servers \cup {0}]
    BY <1>1, <2>1, <2>2 DEF TypeOK, PCs, Ended
  <2>4. /\ held' \in [Servers -> SUBSET Calls] /\ waiting' \in [Servers -> Seq(Calls)]
        /\ leaked' \in [Servers -> Nat]
    <3>1. CASE pc[d] \in {"acquire", "fetch"}
      <4>1. pick[d] \in Servers /\ LeavePool(d, pick[d])
        BY <1>1, <1>13, <3>1 DEF Drop, CallsInv, CallOK, Working
      <4>2. leaked' = [leaked EXCEPT ![pick[d]] = @ + 1] \/ leaked' = leaked
        BY <1>13 DEF Drop
      <4>3. held' \in [Servers -> SUBSET Calls] /\ waiting' \in [Servers -> Seq(Calls)]
        BY <1>1, <4>1, LeftPool
      <4>4. leaked' \in [Servers -> Nat]
        <5>1. leaked \in [Servers -> Nat] /\ leaked[pick[d]] + 1 \in Nat
          BY <1>1, <4>1 DEF TypeOK
        <5> QED
          BY <4>2, <5>1
      <4> QED
        BY <4>3, <4>4
    <3>2. CASE pc[d] \notin {"acquire", "fetch"}
      BY <1>1, <1>13, <3>2 DEF Drop, TypeOK, slotVars
    <3> QED
      BY <3>1, <3>2
  <2> QED
    BY <1>1, <2>1, <2>3, <2>4 DEF TypeOK, chanVars, flagVars
<1>14. ASSUME NEW d \in Calls, Receive(d) \/ CloseReceiver(d) PROVE TypeOK'
  <2>1. queued' \in [Calls -> 0..ChannelCap] /\ receiving' \in [Calls -> BOOLEAN]
    <3>1. ChannelCap \in Nat /\ queued \in [Calls -> 0..ChannelCap] /\ receiving \in [Calls -> BOOLEAN]
      BY <1>1, ChannelAssumption DEF TypeOK
    <3>2. CASE Receive(d)
      <4>1. queued[d] > 0 /\ queued' = [queued EXCEPT ![d] = @ - 1] /\ receiving' = receiving
        BY <3>2 DEF Receive
      <4>2. queued[d] - 1 \in 0..ChannelCap
        BY <3>1, <4>1
      <4> QED
        BY <3>1, <4>1, <4>2
    <3>3. CASE CloseReceiver(d)
      BY <3>1, <3>3 DEF CloseReceiver
    <3> QED
      BY <1>14, <3>2, <3>3
  <2> QED
    BY <1>1, <1>14, <2>1 DEF Receive, CloseReceiver, TypeOK, callVars, slotVars, serverVars, flagVars
<1>15. CASE Pause \/ Resume \/ Shutdown
  BY <1>1, <1>15 DEF Pause, Resume, Shutdown, TypeOK, callVars, chanVars, slotVars, serverVars
<1>16. CASE Tick
  <2>1. penalty' \in [Servers -> 0..LongPenalty]
    <3>1. penalty' = [s \in Servers |-> IF penalty[s] = 0 THEN 0 ELSE penalty[s] - 1]
      BY <1>16 DEF Tick
    <3>2. ASSUME NEW s \in Servers PROVE (IF penalty[s] = 0 THEN 0 ELSE penalty[s] - 1) \in 0..LongPenalty
      BY <1>1, PenaltyAssumption DEF TypeOK
    <3> QED
      BY <3>1, <3>2
  <2> QED
    BY <1>1, <1>16, <2>1 DEF Tick, TypeOK, callVars, chanVars, slotVars, flagVars
<1>17. CASE UNCHANGED vars
  BY <1>1, <1>17 DEF vars, TypeOK, callVars, chanVars, slotVars, serverVars, flagVars
<1> QED
  BY <1>3, <1>4, <1>5, <1>6, <1>9, <1>10, <1>11, <1>12, <1>13, <1>14, <1>15, <1>16, <1>17,
     NextCases DEF Acts, Finished

-----------------------------------------------------------------------------
(* What a step leaves alone                                                 *)

\* A step of one call changes no other.
LEMMA OthersKept ==
    ASSUME TypeOK, CallsInv, NEW d \in Calls, Acts(d), NEW e \in Calls \ {d}
    PROVE  /\ pc'[e] = pc[e] /\ cur'[e] = cur[e] /\ pick'[e] = pick[e]
           /\ outcome'[e] = outcome[e] /\ pending'[e] = pending[e]
           /\ tried'[e] = tried[e] /\ results'[e] = results[e]
<1> USE DEF TypeOK
<1>1. CASE CheckFlags(d)
  BY <1>1 DEF CheckFlags, Loop, Goto
<1>2. CASE Pick(d)
  BY <1>2 DEF Pick, Goto
<1>3. CASE Acquired(d) \/ AcquireFail(d) \/ Fetch(d)
  BY <1>3 DEF Acquired, AcquireFail, Fetch, Goto
<1>4. CASE Connectless(d)
  <2>1. pc[d] \in Working /\ Requeue(d) /\ results' = results
    BY <1>4 DEF Connectless, Working
  <2> QED
    BY <2>1, Requeued
<1>5. CASE Settle(d)
  <2>1. pc[d] \in Working /\ results' = results
    BY <1>5 DEF Settle, Working
  <2>2. CASE Requeue(d)
    BY <2>1, <2>2, Requeued
  <2>3. CASE Goto(d, "send") /\ UNCHANGED <<tried, pending, cur, pick, outcome>>
    BY <2>1, <2>3 DEF Goto
  <2> QED
    BY <1>5, <2>2, <2>3 DEF Settle
<1>6. CASE Send(d)
  BY <1>6 DEF Send, Goto
<1>7. CASE Drop(d)
  BY <1>7 DEF Drop, Goto
<1> QED
  BY <1>1, <1>2, <1>3, <1>4, <1>5, <1>6, <1>7 DEF Acts

Quiet ==
    /\ UNCHANGED <<pc, pending, cur, tried, pick, outcome, results, held, waiting,
                   active, backedOff, leaked>>
    /\ \A s \in Servers : penalty'[s] # 0 => penalty[s] # 0

\* Every other step leaves the calls and the pools alone.
LEMMA StepCases ==
    ASSUME TypeOK, [Next]_vars
    PROVE  (\E d \in Calls : Acts(d)) \/ Quiet
<1> USE DEF callVars, slotVars, serverVars, Quiet
<1>1. ASSUME NEW d \in Calls, Receive(d) \/ CloseReceiver(d) PROVE Quiet
  BY <1>1 DEF Receive, CloseReceiver
<1>2. CASE Pause \/ Resume \/ Shutdown
  BY <1>2 DEF Pause, Resume, Shutdown
<1>3. CASE Tick
  BY <1>3 DEF Tick
<1>4. CASE UNCHANGED vars
  BY <1>4 DEF vars
<1> QED
  BY <1>1, <1>2, <1>3, <1>4, NextCases DEF Finished

-----------------------------------------------------------------------------
(* The place of each call                                                   *)

LEMMA CallsStep ==
    ASSUME IInv, [Next]_vars
    PROVE  CallsInv'
<1>1. TypeOK /\ CallsInv
  BY DEF IInv
<1>2. CASE Quiet
  BY <1>1, <1>2 DEF Quiet, CallsInv, CallOK
<1>3. ASSUME NEW d \in Calls, Acts(d) PROVE CallsInv'
  <2>1. ASSUME NEW e \in Calls, e # d PROVE CallOK(e)'
    BY <1>1, <1>3, <2>1, OthersKept DEF CallsInv, CallOK
  <2> SUFFICES CallOK(d)'
    BY <2>1 DEF CallsInv
  <2>2. CallOK(d) /\ pc \in [Calls -> PCs]
    BY <1>1 DEF CallsInv, TypeOK
  <2>3. CASE CheckFlags(d)
    BY <2>2, <2>3 DEF CheckFlags, Loop, Goto, CallOK, Working
  <2>4. CASE Pick(d)
    <3> DEFINE S == Candidates(tried[d][Head(pending[d])])
    <3>1. /\ pending[d] # <<>> /\ pending[d] \in Seq(Articles(d)) /\ cur \in [Calls -> Nat]
          /\ outcome \in [Calls -> Outcomes] /\ pick \in [Calls -> Servers \cup {0}]
      BY <1>1, <2>2, <2>4 DEF Pick, CallOK, TypeOK
    <3>2. /\ Head(pending[d]) \in Articles(d) /\ cur'[d] = Head(pending[d]) /\ tried' = tried
      BY <2>4, <3>1, TailElements DEF Pick
    <3>3. CASE S = {}
      <4>1. pc'[d] = "send" /\ outcome'[d] = "exhausted"
        BY <2>2, <2>4, <3>1, <3>3 DEF Pick, Goto
      <4> QED
        BY <3>2, <4>1 DEF CallOK, Working
    <3>4. CASE S # {}
      <4>1. pc'[d] = "acquire" /\ pick'[d] = First(S)
        BY <2>2, <2>4, <3>1, <3>4 DEF Pick, Goto
      <4>2. First(S) \in S
        BY <3>4, FirstIsFirst DEF Candidates
      <4>3. First(S) \in Servers /\ First(S) \notin Elements(tried[d][Head(pending[d])])
        BY <4>2 DEF Candidates
      <4> QED
        BY <3>2, <4>1, <4>3 DEF CallOK, Working
    <3> QED
      BY <3>3, <3>4
  <2>5. CASE Acquired(d) \/ AcquireFail(d) \/ Fetch(d)
    BY <2>2, <2>5 DEF Acquired, AcquireFail, Fetch, Goto, CallOK, Working
  <2>6. ASSUME Requeue(d), pc[d] \in Working PROVE CallOK(d)'
    BY <1>1, <2>6, Requeued DEF CallOK, Working
  <2>7. CASE Connectless(d)
    BY <2>6, <2>7 DEF Connectless, Working
  <2>8. CASE Settle(d)
    <3>1. CASE Goto(d, "send") /\ outcome[d] = "article" /\ UNCHANGED <<tried, pending, cur, pick, outcome>>
      BY <2>2, <2>8, <3>1 DEF Settle, Goto, CallOK, Working
    <3> QED
      BY <2>6, <2>8, <3>1 DEF Settle, Working
  <2>9. CASE Send(d)
    BY <1>1, <2>2, <2>9 DEF Send, Goto, CallOK, Working, TypeOK
  <2>10. CASE Drop(d)
    BY <1>1, <2>2, <2>10 DEF Drop, Goto, CallOK, Working, TypeOK
  <2> QED
    BY <1>3, <2>3, <2>4, <2>5, <2>7, <2>8, <2>9, <2>10 DEF Acts
<1> QED
  BY <1>1, <1>2, <1>3, StepCases

-----------------------------------------------------------------------------
(* The pools                                                                *)

\* Whatever a call does to itself, the others stay where they are.
LEMMA PoolChange ==
    ASSUME TypeOK, CallsInv, SlotsInv, NEW d \in Calls, Acts(d),
           \A t \in Servers :
             /\ (held'[t] \cup Elements(waiting'[t])) \ {d} = InPool(t) \ {d}
             /\ held[t] \ {d} \subseteq held'[t]
             /\ Distinct(waiting'[t]) /\ held'[t] \cap Elements(waiting'[t]) = {}
             /\ d \in held'[t] \cup Elements(waiting'[t]) =>
                  pc'[d] \in {"acquire", "fetch", "settle"} /\ pick'[d] = t,
           pc'[d] = "acquire" => d \in held'[pick'[d]] \cup Elements(waiting'[pick'[d]]),
           pc'[d] \in {"fetch", "settle"} => d \in held'[pick'[d]]
    PROVE  SlotsInv'
<1>1. \A e \in Calls \ {d} : pc'[e] = pc[e] /\ pick'[e] = pick[e]
  BY OthersKept
<1>2. BlockedHoldsNoSlot'
  <2> SUFFICES ASSUME NEW t \in Servers, NEW e \in held'[t] \cup Elements(waiting'[t])
               PROVE  pc'[e] \in {"acquire", "fetch", "settle"} /\ pick'[e] = t
    BY DEF BlockedHoldsNoSlot, Elements
  <2>1. CASE e # d
    <3>1. e \in held[t] \cup Elements(waiting[t])
      BY <2>1 DEF InPool
    <3>2. pc[e] \in {"acquire", "fetch", "settle"} /\ pick[e] = t
      BY <3>1 DEF SlotsInv, BlockedHoldsNoSlot
    <3>3. e \in Calls
      <4>1. held[t] \subseteq Calls /\ waiting[t] \in Seq(Calls)
        BY DEF TypeOK
      <4>2. Elements(waiting[t]) \subseteq Calls
        BY <4>1, ElementOfSeq DEF Elements
      <4> QED
        BY <3>1, <4>1, <4>2
    <3> QED
      BY <1>1, <2>1, <3>2, <3>3
  <2> QED
    BY <2>1
<1>3. ASSUME NEW e \in Calls
      PROVE  /\ pc'[e] = "acquire" => e \in held'[pick'[e]] \cup Elements(waiting'[pick'[e]])
             /\ pc'[e] \in {"fetch", "settle"} => e \in held'[pick'[e]]
  <2>1. CASE e # d
    <3>1. CallOK(e) /\ pc'[e] = pc[e] /\ pick'[e] = pick[e]
      BY <1>1, <2>1 DEF CallsInv
    <3>2. /\ pc[e] = "acquire" => e \in InPool(pick[e]) /\ pick[e] \in Servers
          /\ pc[e] \in {"fetch", "settle"} => e \in held[pick[e]] /\ pick[e] \in Servers
      BY <3>1 DEF SlotsInv, CallOK, Working
    <3> QED
      BY <2>1, <3>1, <3>2
  <2> QED
    BY <2>1
<1> QED
  BY <1>2, <1>3 DEF SlotsInv, InPool

LEMMA SlotsStep ==
    ASSUME IInv, [Next]_vars
    PROVE  SlotsInv'
<1>1. TypeOK /\ CallsInv /\ SlotsInv
  BY DEF IInv
<1>2. CASE Quiet
  BY <1>1, <1>2 DEF Quiet, SlotsInv, BlockedHoldsNoSlot, InPool
<1>3. ASSUME NEW d \in Calls, Acts(d) PROVE SlotsInv'
  <2>1. /\ CallOK(d) /\ pc \in [Calls -> PCs] /\ pick \in [Calls -> Servers \cup {0}]
        /\ \A t \in Servers :
             /\ Distinct(waiting[t]) /\ held[t] \cap Elements(waiting[t]) = {}
             /\ d \in InPool(t) => pc[d] \in {"acquire", "fetch", "settle"} /\ pick[d] = t
        /\ pc[d] = "acquire" => d \in InPool(pick[d])
        /\ pc[d] \in {"fetch", "settle"} => d \in held[pick[d]]
    BY <1>1 DEF CallsInv, TypeOK, SlotsInv, BlockedHoldsNoSlot, InPool
  \* Steps that leave the pools alone.
  <2>2. ASSUME UNCHANGED <<held, waiting>>,
               \/ pc[d] \notin {"acquire", "fetch", "settle"}
                  /\ pc'[d] \notin {"acquire", "fetch", "settle"}
               \/ pick'[d] = pick[d] /\ d \in held[pick[d]] /\ pc'[d] \in {"fetch", "settle"}
        PROVE  SlotsInv'
    <3>1. \A t \in Servers :
             /\ (held'[t] \cup Elements(waiting'[t])) \ {d} = InPool(t) \ {d}
             /\ held[t] \ {d} \subseteq held'[t]
             /\ Distinct(waiting'[t]) /\ held'[t] \cap Elements(waiting'[t]) = {}
             /\ d \in held'[t] \cup Elements(waiting'[t]) =>
                  pc'[d] \in {"acquire", "fetch", "settle"} /\ pick'[d] = t
      BY <2>1, <2>2 DEF InPool
    <3>2. /\ pc'[d] = "acquire" => d \in held'[pick'[d]] \cup Elements(waiting'[pick'[d]])
          /\ pc'[d] \in {"fetch", "settle"} => d \in held'[pick'[d]]
      BY <2>1, <2>2
    <3> QED
      BY <1>1, <1>3, <3>1, <3>2, PoolChange
  \* Steps that leave the pool of the picked server.
  <2>3. ASSUME pick[d] \in Servers, LeavePool(d, pick[d]),
               pc'[d] \notin {"acquire", "fetch", "settle"}
        PROVE  SlotsInv'
    <3>1. \A t \in Servers :
             /\ held'[t] \cup Elements(waiting'[t]) =
                  IF t = pick[d] THEN InPool(t) \ {d} ELSE InPool(t)
             /\ Distinct(waiting'[t]) /\ held'[t] \cap Elements(waiting'[t]) = {}
             /\ held[t] \ {d} \subseteq held'[t]
      BY <1>1, <2>3, LeftPool
    <3>2. \A t \in Servers :
             /\ (held'[t] \cup Elements(waiting'[t])) \ {d} = InPool(t) \ {d}
             /\ held[t] \ {d} \subseteq held'[t]
             /\ Distinct(waiting'[t]) /\ held'[t] \cap Elements(waiting'[t]) = {}
             /\ d \notin held'[t] \cup Elements(waiting'[t])
      BY <2>1, <3>1
    <3> QED
      BY <1>1, <1>3, <2>3, <3>2, PoolChange
  <2>4. CASE CheckFlags(d)
    <3>1. /\ pc[d] \notin {"acquire", "fetch", "settle"}
          /\ pc'[d] \notin {"acquire", "fetch", "settle"} /\ UNCHANGED <<held, waiting>>
      BY <2>1, <2>4 DEF CheckFlags, Loop, Goto, slotVars
    <3> QED
      BY <2>2, <3>1
  <2>5. CASE Pick(d)
    <3> DEFINE S == Candidates(tried[d][Head(pending[d])])
    <3>1. pc[d] = "pick" /\ \A t \in Servers : d \notin InPool(t)
      BY <2>1, <2>5 DEF Pick
    <3>2. CASE S = {}
      <4>1. pc'[d] = "send" /\ UNCHANGED <<held, waiting>>
        BY <2>1, <2>5, <3>2 DEF Pick, Goto, slotVars
      <4> QED
        BY <2>2, <3>1, <4>1
    <3>3. CASE S # {}
      <4>1. pc'[d] = "acquire" /\ EnterPool(d, First(S)) /\ pick'[d] = First(S)
        BY <2>1, <2>5, <3>3 DEF Pick, Goto
      <4>2. First(S) \in Servers
        BY <3>3, FirstIsFirst DEF Candidates
      <4> HIDE DEF S
      <4>3. \A t \in Servers :
             /\ held'[t] \cup Elements(waiting'[t]) =
                  IF t = First(S) THEN InPool(t) \cup {d} ELSE InPool(t)
             /\ Distinct(waiting'[t]) /\ held'[t] \cap Elements(waiting'[t]) = {}
             /\ held[t] \subseteq held'[t]
        BY <1>1, <3>1, <4>1, <4>2, EnteredPool
      <4>4. \A t \in Servers :
             /\ (held'[t] \cup Elements(waiting'[t])) \ {d} = InPool(t) \ {d}
             /\ held[t] \ {d} \subseteq held'[t]
             /\ Distinct(waiting'[t]) /\ held'[t] \cap Elements(waiting'[t]) = {}
             /\ d \in held'[t] \cup Elements(waiting'[t]) =>
                  pc'[d] \in {"acquire", "fetch", "settle"} /\ pick'[d] = t
        BY <3>1, <4>1, <4>3
      <4>5. d \in held'[pick'[d]] \cup Elements(waiting'[pick'[d]])
        BY <4>1, <4>2, <4>3
      <4> QED
        BY <1>1, <1>3, <4>1, <4>4, <4>5, PoolChange
    <3> QED
      BY <3>2, <3>3
  <2>6. CASE Acquired(d)
    <3>1. pc'[d] = "fetch" /\ pick' = pick /\ d \in held[pick[d]] /\ UNCHANGED <<held, waiting>>
      BY <2>1, <2>6 DEF Acquired, Goto, slotVars
    <3> QED
      BY <2>2, <3>1
  <2>7. CASE AcquireFail(d)
    <3>1. pick[d] \in Servers /\ LeavePool(d, pick[d]) /\ pc'[d] = "failed"
      BY <2>1, <2>7 DEF AcquireFail, Goto, CallOK, Working
    <3> QED
      BY <2>3, <3>1
  <2>8. CASE Connectless(d)
    <3>1. pc[d] = "failed" /\ Requeue(d) /\ UNCHANGED <<held, waiting>>
      BY <2>8 DEF Connectless, slotVars
    <3>2. pc'[d] = "loop"
      BY <1>1, <3>1, Requeued DEF Working
    <3> QED
      BY <2>2, <3>1, <3>2
  <2>9. CASE Fetch(d)
    <3>1. pc'[d] = "settle" /\ pick' = pick /\ d \in held[pick[d]] /\ UNCHANGED <<held, waiting>>
      BY <2>1, <2>9 DEF Fetch, Goto, slotVars
    <3> QED
      BY <2>2, <3>1
  <2>10. CASE Settle(d)
    <3>1. pc[d] = "settle" /\ pick[d] \in Servers /\ LeavePool(d, pick[d])
      BY <2>1, <2>10 DEF Settle, CallOK, Working
    <3>2. pc'[d] \in {"loop", "send"}
      BY <1>1, <2>1, <2>10, <3>1, Requeued DEF Settle, Goto, Working
    <3> QED
      BY <2>3, <3>1, <3>2
  <2>11. CASE Send(d)
    <3>1. pc[d] = "send" /\ pc'[d] = "loop" /\ UNCHANGED <<held, waiting>>
      BY <2>1, <2>11 DEF Send, Goto, slotVars
    <3> QED
      BY <2>2, <3>1
  <2>12. CASE Drop(d)
    <3>1. pc[d] \in {"paused", "acquire", "fetch", "send"} /\ pc'[d] = "dropped"
      BY <2>1, <2>12 DEF Drop, Goto
    <3>2. CASE pc[d] \in {"acquire", "fetch"}
      <4>1. pick[d] \in Servers /\ LeavePool(d, pick[d])
        BY <2>1, <2>12, <3>2 DEF Drop, CallOK, Working
      <4> QED
        BY <2>3, <3>1, <4>1
    <3>3. CASE pc[d] \notin {"acquire", "fetch"}
      <4>1. UNCHANGED <<held, waiting>>
        BY <2>12, <3>3 DEF Drop, slotVars
      <4> QED
        BY <2>2, <3>1, <3>3, <4>1
    <3> QED
      BY <3>2, <3>3
  <2> QED
    BY <1>3, <2>4, <2>5, <2>6, <2>7, <2>8, <2>9, <2>10, <2>11, <2>12 DEF Acts
<1> QED
  BY <1>1, <1>2, <1>3, StepCases

-----------------------------------------------------------------------------
(* connections_active                                                       *)

Busy(s) == {d \in Calls : pc[d] \in {"fetch", "settle"} /\ pick[d] = s}

LEMMA ActiveStep ==
    ASSUME IInv, [Next]_vars
    PROVE  ActiveCount'
<1>1. TypeOK /\ CallsInv
  BY DEF IInv
<1>2. \A s \in Servers : /\ active[s] = leaked[s] + Cardinality(Busy(s))
                         /\ IsFiniteSet(Busy(s)) /\ Cardinality(Busy(s)) \in Nat
                         /\ leaked[s] \in Nat /\ active[s] \in Nat
  <2> SUFFICES ASSUME NEW s \in Servers
               PROVE  /\ active[s] = leaked[s] + Cardinality(Busy(s))
                      /\ IsFiniteSet(Busy(s)) /\ Cardinality(Busy(s)) \in Nat
                      /\ leaked[s] \in Nat /\ active[s] \in Nat
    OBVIOUS
  <2>1. IsFiniteSet(Busy(s)) /\ Cardinality(Busy(s)) \in Nat
    BY CallsAssumption, FS_Subset, FS_CardinalityType DEF Busy
  <2>2. active[s] = leaked[s] + Cardinality(Busy(s))
    BY DEF IInv, ActiveCount, Busy
  <2> QED
    BY <1>1, <2>1, <2>2 DEF TypeOK
<1>3. ASSUME \A s \in Servers : active'[s] = leaked'[s] + Cardinality(Busy(s)')
      PROVE  ActiveCount'
  BY <1>3 DEF ActiveCount, Busy
<1>4. CASE Quiet
  BY <1>2, <1>3, <1>4 DEF Quiet, Busy
<1>5. ASSUME NEW d \in Calls, Acts(d) PROVE ActiveCount'
  <2>1. /\ \A e \in Calls \ {d} : pc'[e] = pc[e] /\ pick'[e] = pick[e]
        /\ CallOK(d) /\ pc \in [Calls -> PCs] /\ pick \in [Calls -> Servers \cup {0}]
        /\ active \in [Servers -> Nat] /\ leaked \in [Servers -> Nat]
    BY <1>1, <1>5, OthersKept DEF CallsInv, TypeOK
  \* Steps that neither begin nor end a fetch.
  <2>2. ASSUME UNCHANGED <<active, leaked>>,
               \/ pc[d] \notin {"fetch", "settle"} /\ pc'[d] \notin {"fetch", "settle"}
               \/ pc[d] = "fetch" /\ pc'[d] = "settle" /\ pick'[d] = pick[d]
        PROVE  ActiveCount'
    <3>1. \A s \in Servers : Busy(s)' = Busy(s)
      BY <2>1, <2>2 DEF Busy
    <3> QED
      BY <1>2, <1>3, <2>2, <3>1
  \* Steps that end one.
  <2>3. ASSUME pc[d] \in {"fetch", "settle"}, pc'[d] \notin {"fetch", "settle"},
               pick[d] \in Servers,
               \A s \in Servers \ {pick[d]} : active'[s] = active[s] /\ leaked'[s] = leaked[s],
               \/ active[pick[d]] # 0 => active'[pick[d]] = active[pick[d]] - 1
                                         /\ leaked'[pick[d]] = leaked[pick[d]]
               \/ active'[pick[d]] = active[pick[d]] /\ leaked'[pick[d]] = leaked[pick[d]] + 1
        PROVE  ActiveCount'
    <3>0. PICK p \in Servers : p = pick[d]
      BY <2>3
    <3>1. \A s \in Servers \ {p} : Busy(s)' = Busy(s)
      BY <2>1, <2>3, <3>0 DEF Busy
    <3>2. Busy(p)' = Busy(p) \ {d} /\ d \in Busy(p)
      BY <2>1, <2>3, <3>0 DEF Busy
    <3>3. Cardinality(Busy(p) \ {d}) = Cardinality(Busy(p)) - 1
      BY <1>2, <2>3, <3>2, FS_RemoveElement
    <3>4. Cardinality(Busy(p)) # 0
      BY <1>2, <2>3, <3>2, FS_EmptySet
    <3>5. active'[p] = leaked'[p] + Cardinality(Busy(p)')
      <4> DEFINE c == Cardinality(Busy(p))
                 a == active[p]
                 l == leaked[p]
      <4>1. c \in Nat \ {0} /\ l \in Nat /\ a = l + c /\ Cardinality(Busy(p)') = c - 1
        BY <1>2, <2>3, <3>2, <3>3, <3>4
      <4>2. \/ a # 0 => active'[p] = a - 1 /\ leaked'[p] = l
            \/ active'[p] = a /\ leaked'[p] = l + 1
        BY <2>3, <3>0
      <4> HIDE DEF c, a, l
      <4> QED
        BY <4>1, <4>2
    <3>6. \A s \in Servers \ {p} : active'[s] = leaked'[s] + Cardinality(Busy(s)')
      BY <1>2, <2>3, <3>0, <3>1
    <3> QED
      BY <1>3, <3>5, <3>6
  <2>4. CASE CheckFlags(d)
    <3>1. /\ pc[d] \notin {"fetch", "settle"} /\ pc'[d] \notin {"fetch", "settle"}
          /\ UNCHANGED <<active, leaked>>
      BY <2>1, <2>4 DEF CheckFlags, Loop, Goto, serverVars
    <3> QED
      BY <2>2, <3>1
  <2>5. CASE Pick(d)
    <3>1. /\ pc[d] = "pick" /\ pc'[d] \in {"send", "acquire"} /\ UNCHANGED <<active, leaked>>
      BY <2>1, <2>5 DEF Pick, Goto, serverVars
    <3> QED
      BY <2>2, <3>1
  <2>6. CASE Acquired(d)
    <3>0. PICK p \in Servers : p = pick[d]
      BY <2>1, <2>6 DEF Acquired, CallOK, Working
    <3>1. /\ pc[d] = "acquire" /\ pc'[d] = "fetch" /\ pick' = pick /\ leaked' = leaked
          /\ p \in Servers /\ active' = [active EXCEPT ![p] = @ + 1]
      BY <2>1, <2>6, <3>0 DEF Acquired, Goto, CountActive
    <3>2. \A s \in Servers \ {p} : Busy(s)' = Busy(s) /\ active'[s] = active[s]
      BY <2>1, <3>0, <3>1 DEF Busy
    <3>3. Busy(p)' = Busy(p) \cup {d} /\ d \notin Busy(p)
      BY <2>1, <3>0, <3>1 DEF Busy
    <3>4. Cardinality(Busy(p)') = Cardinality(Busy(p)) + 1
      BY <1>2, <3>1, <3>3, FS_AddElement
    <3>5. active'[p] = active[p] + 1
      BY <2>1, <3>1
    <3>6. active'[p] = leaked'[p] + Cardinality(Busy(p)')
      BY <1>2, <3>1, <3>4, <3>5
    <3> QED
      BY <1>2, <1>3, <3>1, <3>2, <3>6
  <2>7. CASE AcquireFail(d)
    <3>1. /\ pc[d] = "acquire" /\ pc'[d] = "failed" /\ UNCHANGED <<active, leaked>>
      BY <2>1, <2>7 DEF AcquireFail, Goto, serverVars
    <3> QED
      BY <2>2, <3>1
  <2>8. CASE Connectless(d)
    <3>1. pc[d] = "failed" /\ Requeue(d) /\ UNCHANGED <<active, leaked>>
      BY <2>8 DEF Connectless
    <3>2. pc'[d] = "loop"
      BY <1>1, <3>1, Requeued DEF Working
    <3> QED
      BY <2>2, <3>1, <3>2
  <2>9. CASE Fetch(d)
    <3>1. pc[d] = "fetch" /\ pc'[d] = "settle" /\ pick' = pick /\ UNCHANGED <<active, leaked>>
      BY <2>1, <2>9 DEF Fetch, Goto, serverVars
    <3> QED
      BY <2>2, <3>1
  <2>10. CASE Settle(d)
    <3>1. /\ pc[d] = "settle" /\ pick[d] \in Servers /\ UncountActive(pick[d])
          /\ leaked' = leaked
      BY <2>1, <2>10 DEF Settle, CallOK, Working
    <3>2. pc'[d] \in {"loop", "send"}
      BY <1>1, <2>1, <2>10, <3>1, Requeued DEF Settle, Goto, Working
    <3>3. /\ \A s \in Servers \ {pick[d]} : active'[s] = active[s]
          /\ active[pick[d]] # 0 => active'[pick[d]] = active[pick[d]] - 1
      BY <2>1, <3>1 DEF UncountActive
    <3> QED
      BY <2>3, <3>1, <3>2, <3>3
  <2>11. CASE Send(d)
    <3>1. pc[d] = "send" /\ pc'[d] = "loop" /\ UNCHANGED <<active, leaked>>
      BY <2>1, <2>11 DEF Send, Goto, serverVars
    <3> QED
      BY <2>2, <3>1
  <2>12. CASE Drop(d)
    <3>1. /\ pc[d] \in {"paused", "acquire", "fetch", "send"} /\ pc'[d] = "dropped"
          /\ active' = active
      BY <2>1, <2>12 DEF Drop, Goto
    <3>2. CASE pc[d] = "fetch"
      <4>1. pick[d] \in Servers /\ leaked' = [leaked EXCEPT ![pick[d]] = @ + 1]
        BY <2>1, <2>12, <3>2 DEF Drop, CallOK, Working
      <4>2. /\ leaked'[pick[d]] = leaked[pick[d]] + 1
            /\ \A s \in Servers \ {pick[d]} : leaked'[s] = leaked[s]
        BY <2>1, <4>1
      <4> QED
        BY <2>3, <3>1, <3>2, <4>1, <4>2
    <3>3. CASE pc[d] # "fetch"
      <4>1. leaked' = leaked
        BY <2>12, <3>3 DEF Drop
      <4> QED
        BY <2>2, <3>1, <3>3, <4>1
    <3> QED
      BY <3>2, <3>3
  <2> QED
    BY <1>5, <2>4, <2>5, <2>6, <2>7, <2>8, <2>9, <2>10, <2>11, <2>12 DEF Acts
<1> QED
  BY <1>1, <1>4, <1>5, StepCases

-----------------------------------------------------------------------------
(* Where the articles are                                                   *)

LEMMA PlacesStep ==
    ASSUME IInv, [Next]_vars
    PROVE  Places'
<1>1. TypeOK /\ CallsInv /\ Places
  BY DEF IInv
<1>2. CASE Quiet
  BY <1>1, <1>2 DEF Quiet, Places, Placed
<1>3. ASSUME NEW d \in Calls, Acts(d) PROVE Places'
  <2>1. ASSUME NEW e \in Calls, e # d PROVE Placed(e)'
    BY <1>1, <1>3, <2>1, OthersKept DEF Places, Placed
  <2> SUFFICES Placed(d)'
    BY <2>1 DEF Places
  <2>2. /\ CallOK(d) /\ Placed(d) /\ pc \in [Calls -> PCs] /\ cur \in [Calls -> Nat]
        /\ pending[d] \in Seq(Articles(d)) /\ DOMAIN pending = Calls /\ DOMAIN results = Calls
        /\ results[d] \in Seq([article : Articles(d), outcome : {"article", "exhausted"},
                               server : Servers \cup {0}])
        /\ 0 \notin Articles(d)
    BY <1>1 DEF CallsInv, Places, TypeOK, Articles
  <2>0. \A i \in 1..Len(results[d]) : results[d][i].article \in Articles(d)
    <3> DEFINE T == [article : Articles(d), outcome : {"article", "exhausted"},
                     server : Servers \cup {0}]
    <3>1. \A r \in T : r.article \in Articles(d)
      OBVIOUS
    <3>2. results[d] \in Seq(T)
      BY <2>2
    <3> HIDE DEF T
    <3>3. \A i \in 1..Len(results[d]) : results[d][i] \in T
      BY <3>2, ElementOfSeq
    <3> QED
      BY <3>1, <3>3
  \* Steps that leave the article where it is.
  <2>3. ASSUME results'[d] = results[d], pending'[d] = pending[d], cur'[d] = cur[d],
               pc'[d] # "dropped", pc[d] # "dropped", pc'[d] = "returned" => pending[d] = <<>>
        PROVE  Placed(d)'
    BY <2>2, <2>3 DEF Placed
  \* Steps that put it back on the list.
  <2>4. ASSUME Requeue(d), pc[d] \in Working, results' = results PROVE Placed(d)'
    <3>1. /\ pc'[d] = "loop" /\ cur'[d] = 0 /\ pending'[d] = Append(pending[d], cur[d])
          /\ Elements(pending'[d]) = Elements(pending[d]) \cup {cur[d]}
      BY <1>1, <2>4, Requeued
    <3>2. cur[d] \in Articles(d) /\ pc[d] # "dropped"
      BY <2>2, <2>4 DEF CallOK, Working
    <3>3. Distinct(pending'[d])
      BY <2>2, <3>1, <3>2, AppendElements DEF Placed
    <3>4. 0 \notin Elements(pending'[d])
      BY <2>2, <3>1, <3>2, ElementOfSeq DEF Elements
    <3>5. \A i \in 1..Len(results[d]) :
             /\ results[d][i].article # 0
             /\ results[d][i].article \notin Elements(pending'[d])
      <4> SUFFICES ASSUME NEW i \in 1..Len(results[d])
                   PROVE  /\ results[d][i].article # 0
                          /\ results[d][i].article \notin Elements(pending'[d])
        OBVIOUS
      <4>1. results[d][i].article \in Articles(d)
        BY <2>0
      <4> QED
        BY <2>2, <3>1, <4>1 DEF Placed
    <3>6. \A a \in Articles(d) :
             \/ \E i \in 1..Len(results[d]) : results[d][i].article = a
             \/ a \in Elements(pending'[d])
      BY <2>2, <3>1, <3>2 DEF Placed
    <3> QED
      BY <2>2, <2>4, <3>1, <3>3, <3>4, <3>5, <3>6 DEF Placed
  <2>5. CASE CheckFlags(d)
    <3>1. /\ pc'[d] \in {"returned", "stopped", "paused", "pick"} /\ pc[d] # "dropped"
          /\ pc'[d] = "returned" => pending[d] = <<>>
          /\ UNCHANGED <<pending, cur, results>>
      BY <2>2, <2>5 DEF CheckFlags, Loop, Goto
    <3> QED
      BY <2>3, <3>1
  <2>6. CASE Pick(d)
    <3>1. /\ pc[d] = "pick" /\ pc'[d] \in {"send", "acquire"} /\ results' = results
          /\ pending'[d] = Tail(pending[d]) /\ cur'[d] = Head(pending[d])
      BY <2>2, <2>6 DEF Pick, Goto
    <3>2. cur[d] = 0 /\ pending[d] # <<>>
      BY <2>2, <3>1 DEF CallOK, Working
    <3>3. /\ Elements(pending[d]) = Elements(pending'[d]) \cup {cur'[d]}
          /\ Distinct(pending'[d]) /\ cur'[d] \notin Elements(pending'[d])
      BY <2>2, <3>1, <3>2, TailElements DEF Placed
    <3>4. /\ \A i \in 1..Len(results[d]) : results[d][i].article \notin Elements(pending[d])
          /\ \A a \in Articles(d) :
               \/ \E i \in 1..Len(results[d]) : results[d][i].article = a
               \/ a \in Elements(pending[d])
      BY <2>2, <3>1, <3>2 DEF Placed
    <3> QED
      BY <2>2, <3>1, <3>3, <3>4 DEF Placed
  <2>7. CASE Acquired(d) \/ AcquireFail(d) \/ Fetch(d)
    <3>1. /\ pc[d] # "dropped" /\ pc'[d] \in {"fetch", "failed", "settle"}
          /\ UNCHANGED <<pending, cur, results>>
      BY <2>2, <2>7 DEF Acquired, AcquireFail, Fetch, Goto
    <3> QED
      BY <2>3, <3>1
  <2>8. CASE Connectless(d)
    BY <2>4, <2>8 DEF Connectless, Working
  <2>9. CASE Settle(d)
    <3>1. pc[d] = "settle" /\ results' = results
      BY <2>9 DEF Settle
    <3>2. CASE Requeue(d)
      BY <2>4, <3>1, <3>2 DEF Working
    <3>3. CASE Goto(d, "send") /\ UNCHANGED <<tried, pending, cur, pick, outcome>>
      <4>1. pc'[d] = "send"
        BY <2>2, <3>3 DEF Goto
      <4> QED
        BY <2>3, <3>1, <3>3, <4>1
    <3> QED
      BY <2>9, <3>2, <3>3 DEF Settle
  <2>10. CASE Send(d)
    <3> DEFINE r == [article |-> cur[d], outcome |-> outcome[d], server |-> pick[d]]
               rs == results[d]
               q == Append(rs, r)
               n == Len(rs)
    <3>1. /\ pc[d] = "send" /\ pc'[d] = "loop" /\ cur'[d] = 0 /\ pending' = pending
          /\ results'[d] = q
      BY <2>2, <2>10 DEF Send, Goto
    <3>2. cur[d] \in Articles(d) /\ r.article = cur[d] /\ outcome[d] \in {"article", "exhausted"}
          /\ pick[d] \in Servers \cup {0}
      BY <1>1, <2>2, <3>1 DEF CallOK, TypeOK
    <3>3. /\ n \in Nat /\ Len(q) = n + 1 /\ q[n + 1] = r /\ \A i \in 1..n : q[i] = rs[i]
      BY <2>2, <3>2, AppendProperties, LenProperties
    <3>4. /\ \A i, j \in 1..n : rs[i].article = rs[j].article => i = j
          /\ \A i \in 1..n : /\ rs[i].article # cur[d]
                             /\ rs[i].article \notin Elements(pending[d])
                             /\ rs[i].article \in Articles(d)
          /\ cur[d] \notin Elements(pending[d])
      BY <2>0, <2>2 DEF Placed
    <3> HIDE DEF r, q, rs, n
    <3>5. \A i \in 1..Len(q) : i \in 1..n \/ i = n + 1
      BY <3>3
    <3>6. \A i, j \in 1..Len(q) : q[i].article = q[j].article => i = j
      BY <3>2, <3>3, <3>4, <3>5
    <3>7. \A i \in 1..Len(q) : q[i].article # 0 /\ q[i].article \notin Elements(pending[d])
      BY <2>2, <3>2, <3>3, <3>4, <3>5
    <3>8. 0 \notin Elements(pending[d]) /\ Distinct(pending[d])
      BY <2>2, ElementOfSeq DEF Elements, Placed
    <3>9. ASSUME NEW a \in Articles(d)
          PROVE  (\E i \in 1..Len(q) : q[i].article = a) \/ a \in Elements(pending[d])
      <4>1. CASE \E i \in 1..n : rs[i].article = a
        <5>1. \A i \in 1..n : i \in 1..Len(q)
          BY <3>3
        <5> QED
          BY <3>3, <4>1, <5>1
      <4>2. CASE a = cur[d]
        <5>1. n + 1 \in 1..Len(q)
          BY <3>3
        <5> QED
          BY <3>2, <3>3, <4>2, <5>1
      <4> QED
        BY <2>2, <3>1, <4>1, <4>2 DEF Placed, rs, n
    <3> QED
      BY <3>1, <3>6, <3>7, <3>8, <3>9 DEF Placed
  <2>11. CASE Drop(d)
    <3>1. pc'[d] = "dropped" /\ pending'[d] = <<>> /\ cur'[d] = 0 /\ results' = results
      BY <2>2, <2>11 DEF Drop, Goto
    <3>2. Distinct(<<>>) /\ Elements(<<>>) = {}
      BY DEF Distinct, Elements
    <3>3. \A i \in 1..Len(results[d]) : results[d][i].article # 0
      BY <2>0, <2>2
    <3> QED
      BY <2>2, <3>1, <3>2, <3>3 DEF Placed
  <2> QED
    BY <1>3, <2>5, <2>6, <2>7, <2>8, <2>9, <2>10, <2>11 DEF Acts
<1> QED
  BY <1>1, <1>2, <1>3, StepCases

-----------------------------------------------------------------------------
(* Which servers were asked, and in which order                             *)

LEMMA AskedStep ==
    ASSUME IInv, [Next]_vars
    PROVE  AskedOnce'
<1>1. TypeOK /\ CallsInv /\ AskedOnce
  BY DEF IInv
<1>2. CASE Quiet
  BY <1>1, <1>2 DEF Quiet, AskedOnce
<1>3. ASSUME NEW d \in Calls, Acts(d) PROVE AskedOnce'
  <2>1. ASSUME NEW e \in Calls \ {d} PROVE tried'[e] = tried[e]
    BY <1>1, <1>3, OthersKept
  <2> SUFFICES ASSUME NEW a \in Articles(d) PROVE Distinct(tried'[d][a])
    BY <1>1, <2>1 DEF AskedOnce
  <2>2. Distinct(tried[d][a]) /\ CallOK(d)
    BY <1>1 DEF AskedOnce, CallsInv
  <2>3. ASSUME Requeue(d), pc[d] \in Working PROVE Distinct(tried'[d][a])
    <3>1. CASE a = cur[d]
      <4>1. tried'[d][a] = Append(tried[d][a], pick[d])
        BY <1>1, <2>3, <3>1, Requeued
      <4>2. pick[d] \in DOMAIN Configs /\ pick[d] \notin Elements(tried[d][a])
        BY <2>2, <2>3, <3>1 DEF CallOK, Servers
      <4>3. tried[d][a] \in Seq(DOMAIN Configs)
        BY <1>1 DEF TypeOK
      <4> QED
        BY <2>2, <4>1, <4>2, <4>3, AppendElements
    <3>2. CASE a # cur[d]
      BY <1>1, <2>2, <2>3, <3>2, Requeued
    <3> QED
      BY <3>1, <3>2
  <2>4. CASE Connectless(d)
    BY <2>3, <2>4 DEF Connectless, Working
  <2>5. CASE Settle(d)
    <3>1. pc[d] \in Working /\ (Requeue(d) \/ tried' = tried)
      BY <2>5 DEF Settle, Working
    <3> QED
      BY <2>2, <2>3, <3>1
  <2>6. ASSUME tried' = tried PROVE Distinct(tried'[d][a])
    BY <2>2, <2>6
  <2> QED
    BY <1>3, <2>4, <2>5, <2>6
    DEF Acts, CheckFlags, Pick, Acquired, AcquireFail, Fetch, Send, Drop
<1> QED
  BY <1>1, <1>2, <1>3, StepCases

\* A server once penalized is remembered.
LEMMA BackedOffStep ==
    ASSUME TypeOK, CallsInv, NEW d \in Calls, Acts(d),
           \A s \in Servers : penalty[s] # 0 => s \in backedOff
    PROVE  /\ backedOff \subseteq backedOff'
           /\ \A s \in Servers : penalty'[s] # 0 => s \in backedOff'
<1>1. ASSUME UNCHANGED <<penalty, backedOff>>
      PROVE  /\ backedOff \subseteq backedOff'
             /\ \A s \in Servers : penalty'[s] # 0 => s \in backedOff'
  BY <1>1
<1>2. ASSUME NEW s \in Servers, NEW e, Penalize(s, e)
      PROVE  /\ backedOff \subseteq backedOff'
             /\ \A t \in Servers : penalty'[t] # 0 => t \in backedOff'
  <2>1. PICK p \in PenaltyFor(e) : penalty' = [penalty EXCEPT ![s] = p]
    BY <1>2 DEF Penalize
  <2>2. backedOff' = backedOff \cup {s}
    BY <1>2 DEF Penalize
  <2>3. \A t \in Servers \ {s} : penalty'[t] = penalty[t]
    BY <2>1 DEF TypeOK
  <2> QED
    BY <2>2, <2>3
<1>3. pc[d] \in Working => pick[d] \in Servers
  BY DEF CallsInv, CallOK
<1>4. CASE Connectless(d)
  BY <1>2, <1>3, <1>4 DEF Connectless, Working
<1>5. CASE Settle(d)
  <2>1. pick[d] \in Servers /\ (Penalize(pick[d], outcome[d]) \/ UNCHANGED <<penalty, backedOff>>)
    BY <1>3, <1>5 DEF Settle, Working
  <2> QED
    BY <1>1, <1>2, <2>1
<1> QED
  BY <1>1, <1>4, <1>5
  DEF Acts, CheckFlags, Pick, Acquired, AcquireFail, Fetch, Send, Drop, serverVars

LEMMA OrderStep ==
    ASSUME IInv, [Next]_vars
    PROVE  OrderInv'
<1>1. TypeOK /\ CallsInv /\ OrderInv
  BY DEF IInv
<1>2. CASE Quiet
  BY <1>1, <1>2 DEF Quiet, OrderInv, Ordered
<1>3. ASSUME NEW d \in Calls, Acts(d) PROVE OrderInv'
  <2>1. /\ backedOff \subseteq backedOff'
        /\ \A s \in Servers : penalty'[s] # 0 => s \in backedOff'
    BY <1>1, <1>3, BackedOffStep DEF OrderInv
  <2>2. ASSUME NEW e \in Calls, e # d PROVE Ordered(e)'
    <3>1. /\ pc'[e] = pc[e] /\ cur'[e] = cur[e] /\ pick'[e] = pick[e]
          /\ outcome'[e] = outcome[e] /\ tried'[e] = tried[e] /\ results'[e] = results[e]
      BY <1>1, <1>3, <2>2, OthersKept
    <3>2. Ordered(e)
      BY <1>1 DEF OrderInv
    <3> QED
      BY <2>1, <3>1, <3>2 DEF Ordered
  <2> SUFFICES Ordered(d)'
    BY <2>1, <2>2 DEF OrderInv
  <2>3. /\ CallOK(d) /\ Ordered(d) /\ pc \in [Calls -> PCs] /\ outcome \in [Calls -> Outcomes]
        /\ pick \in [Calls -> Servers \cup {0}] /\ cur \in [Calls -> Nat]
        /\ DOMAIN results = Calls /\ DOMAIN tried = Calls
    BY <1>1 DEF CallsInv, OrderInv, TypeOK
  <2>4. ASSUME NEW i \in 1..Len(results[d]) PROVE results[d][i].article \in Articles(d)
    <3> DEFINE T == [article : Articles(d), outcome : {"article", "exhausted"},
                     server : Servers \cup {0}]
    <3>1. \A r \in T : r.article \in Articles(d)
      OBVIOUS
    <3>2. results[d] \in Seq(T)
      BY <1>1 DEF TypeOK
    <3> HIDE DEF T
    <3>3. results[d][i] \in T
      BY <3>2, ElementOfSeq
    <3> QED
      BY <3>1, <3>3
  \* Steps that leave the article with its server, or with none.
  <2>5. ASSUME results' = results, tried' = tried,
               \/ pc'[d] \notin Working \cup {"send"}
               \/ /\ pc[d] \in Working /\ cur'[d] = cur[d] /\ pick'[d] = pick[d]
                  /\ pc'[d] = "send" => outcome'[d] # "exhausted"
        PROVE  Ordered(d)'
    BY <2>1, <2>3, <2>5 DEF Ordered
  <2>6. ASSUME Requeue(d), pc[d] \in Working, results' = results PROVE Ordered(d)'
    <3>1. /\ pc'[d] = "loop" /\ cur[d] \in Articles(d)
          /\ \A a \in Articles(d) : Elements(tried[d][a]) \subseteq Elements(tried'[d][a])
      BY <1>1, <2>3, <2>6, Requeued DEF CallOK
    <3>2. \A i \in 1..Len(results[d]) :
             Elements(tried[d][results[d][i].article]) \subseteq Elements(tried'[d][results[d][i].article])
      BY <2>4, <3>1
    <3> QED
      BY <2>1, <2>3, <2>6, <3>1, <3>2 DEF Ordered, Working
  <2>7. CASE CheckFlags(d)
    <3>1. /\ pc'[d] \in {"returned", "stopped", "paused", "pick"}
          /\ UNCHANGED <<results, tried>>
      BY <2>3, <2>7 DEF CheckFlags, Loop, Goto
    <3> QED
      BY <2>5, <3>1 DEF Working
  <2>8. CASE Pick(d)
    <3> DEFINE a == Head(pending[d])
               S == Candidates(tried[d][a])
    <3>1. UNCHANGED <<results, tried>> /\ cur'[d] = a
      BY <2>3, <2>8 DEF Pick
    <3>2. \A t \in Servers : t \notin S => t \in Elements(tried[d][a]) \cup backedOff
      BY <1>1 DEF Candidates, OrderInv
    <3>3. CASE S = {}
      BY <2>1, <2>3, <3>1, <3>2, <3>3 DEF Ordered
    <3>4. CASE S # {}
      <4>1. pc'[d] = "acquire" /\ pick'[d] = First(S)
        BY <2>3, <2>8, <3>4 DEF Pick, Goto
      <4>2. \A t \in Servers : Before(t, First(S)) => t \notin S
        BY <3>4, FirstIsFirst DEF Candidates
      <4> HIDE DEF a, S
      <4> QED
        BY <2>1, <2>3, <3>1, <3>2, <4>1, <4>2 DEF Ordered
    <3> QED
      BY <3>3, <3>4
  <2>9. CASE Acquired(d) \/ AcquireFail(d) \/ Fetch(d)
    <3>1. /\ pc[d] \in Working /\ pc'[d] \in {"fetch", "failed", "settle"}
          /\ UNCHANGED <<results, tried, cur, pick>>
      BY <2>3, <2>9 DEF Acquired, AcquireFail, Fetch, Goto, Working
    <3> QED
      BY <2>5, <3>1
  <2>10. CASE Connectless(d)
    BY <2>6, <2>10 DEF Connectless, Working
  <2>11. CASE Settle(d)
    <3>1. pc[d] \in Working /\ results' = results
      BY <2>11 DEF Settle, Working
    <3>2. CASE Requeue(d)
      BY <2>6, <3>1, <3>2
    <3>3. CASE outcome[d] = "article" /\ Goto(d, "send") /\ UNCHANGED <<tried, pending, cur, pick, outcome>>
      <4>1. outcome'[d] # "exhausted"
        BY <3>3
      <4> QED
        BY <2>5, <3>1, <3>3, <4>1
    <3> QED
      BY <2>11, <3>2, <3>3 DEF Settle
  <2>12. CASE Send(d)
    <3> DEFINE r == [article |-> cur[d], outcome |-> outcome[d], server |-> pick[d]]
               rs == results[d]
               q == Append(rs, r)
               n == Len(rs)
    <3>1. /\ pc[d] = "send" /\ pc'[d] = "loop" /\ tried' = tried /\ results'[d] = q
      BY <2>3, <2>12 DEF Send, Goto
    <3>2. /\ r.article = cur[d] /\ r.outcome = outcome[d] /\ r.server = pick[d]
          /\ r \in [article : Articles(d), outcome : {"article", "exhausted"},
                    server : Servers \cup {0}]
      BY <2>3, <3>1 DEF CallOK
    <3>3. /\ n \in Nat /\ Len(q) = n + 1 /\ q[n + 1] = r /\ \A i \in 1..n : q[i] = rs[i]
      BY <1>1, <3>2, AppendProperties, LenProperties DEF TypeOK
    <3>4. \A i \in 1..n : \A t \in Servers :
             (rs[i].outcome = "exhausted" \/ Before(t, rs[i].server))
               => t \in Elements(tried[d][rs[i].article]) \cup backedOff
      BY <2>3 DEF Ordered
    <3>5. \A t \in Servers : (r.outcome = "exhausted" \/ Before(t, r.server))
             => t \in Elements(tried[d][r.article]) \cup backedOff
      BY <2>3, <3>1, <3>2 DEF Ordered
    <3> HIDE DEF r, q, rs, n
    <3>6. \A i \in 1..Len(q) : \A t \in Servers :
             (q[i].outcome = "exhausted" \/ Before(t, q[i].server))
               => t \in Elements(tried[d][q[i].article]) \cup backedOff
      <4> SUFFICES ASSUME NEW i \in 1..Len(q)
                   PROVE  \A t \in Servers :
                            (q[i].outcome = "exhausted" \/ Before(t, q[i].server))
                              => t \in Elements(tried[d][q[i].article]) \cup backedOff
        OBVIOUS
      <4>1. i = n + 1 \/ i \in 1..n
        BY <3>3
      <4> QED
        BY <3>3, <3>4, <3>5, <4>1
    <3> QED
      BY <2>1, <3>1, <3>6 DEF Ordered, Working
  <2>13. CASE Drop(d)
    <3>1. pc'[d] = "dropped" /\ UNCHANGED <<results, tried>>
      BY <2>3, <2>13 DEF Drop, Goto
    <3> QED
      BY <2>5, <3>1 DEF Working
  <2> QED
    BY <1>3, <2>7, <2>8, <2>9, <2>10, <2>11, <2>12, <2>13 DEF Acts
<1> QED
  BY <1>1, <1>2, <1>3, StepCases

-----------------------------------------------------------------------------
(* The invariant holds                                                      *)

LEMMA InitIInv == Init => IInv
<1> SUFFICES ASSUME Init PROVE IInv
  OBVIOUS
<1>1. PICK q \in PreTried : tried = [d \in Calls |-> [a \in Articles(d) |-> q]]
  BY DEF Init
<1>2. q \in Seq(DOMAIN Configs) /\ Distinct(q)
  BY TriedAssumption DEF Distinct
<1>3. \A S : <<>> \in Seq(S)
  BY EmptySeq
<1>4. Len(<<>>) = 0 /\ Elements(<<>>) = {} /\ Distinct(<<>>)
  BY DEF Elements, Distinct
<1>5. \A d \in Calls : /\ pending[d] = [i \in Articles(d) |-> i] /\ Batch[d] \in Nat
                       /\ pending[d] \in Seq(Articles(d))
  <2> SUFFICES ASSUME NEW d \in Calls
               PROVE  /\ pending[d] = [i \in Articles(d) |-> i] /\ Batch[d] \in Nat
                      /\ pending[d] \in Seq(Articles(d))
    OBVIOUS
  <2>1. pending[d] = [i \in Articles(d) |-> i] /\ Batch[d] \in Nat
    BY BatchAssumption DEF Init
  <2>2. pending[d] \in [1..Batch[d] -> Articles(d)]
    BY <2>1 DEF Articles
  <2> QED
    BY <2>1, <2>2
<1>6. TypeOK
  <2>1. /\ pc \in [Calls -> PCs] /\ cur \in [Calls -> Nat] /\ pick \in [Calls -> Servers \cup {0}]
        /\ outcome \in [Calls -> Outcomes]
        /\ DOMAIN pending = Calls /\ DOMAIN tried = Calls /\ DOMAIN results = Calls
    BY <1>1 DEF Init, PCs, Outcomes
  <2>2. \A d \in Calls : tried[d] \in [Articles(d) -> Seq(DOMAIN Configs)]
    BY <1>1, <1>2
  <2>3. \A d \in Calls : results[d] = <<>>
    BY DEF Init
  <2>4. queued \in [Calls -> 0..ChannelCap] /\ receiving \in [Calls -> BOOLEAN]
    BY ChannelAssumption DEF Init
  <2>5. held \in [Servers -> SUBSET Calls] /\ waiting \in [Servers -> Seq(Calls)]
    BY <1>3 DEF Init
  <2>6. /\ active \in [Servers -> Nat] /\ stats \in [Servers -> [tried : Nat, failed : Nat]]
        /\ penalty \in [Servers -> 0..LongPenalty] /\ backedOff \subseteq Servers
        /\ leaked \in [Servers -> Nat] /\ paused \in BOOLEAN /\ shutdown \in BOOLEAN
    <3>1. active = [s \in Servers |-> 0] /\ leaked = [s \in Servers |-> 0]
      BY DEF Init
    <3>2. stats = [s \in Servers |-> [tried |-> 0, failed |-> 0]]
      BY DEF Init
    <3>3. penalty = [s \in Servers |-> 0] /\ 0 \in 0..LongPenalty
      BY PenaltyAssumption DEF Init
    <3>4. backedOff = {} /\ paused \in BOOLEAN /\ shutdown \in BOOLEAN
      BY DEF Init
    <3>5. [tried |-> 0, failed |-> 0] \in [tried : Nat, failed : Nat]
      OBVIOUS
    <3>6. stats \in [Servers -> [tried : Nat, failed : Nat]]
      BY <3>2, <3>5
    <3> QED
      BY <3>1, <3>3, <3>4, <3>6
  <2>7. \A d \in Calls : results[d] \in Seq([article : Articles(d),
            outcome : {"article", "exhausted"}, server : Servers \cup {0}])
    BY <1>3, <2>3
  <2>8. \A d \in Calls : pending[d] \in Seq(Articles(d))
    BY <1>5
  <2> QED
    BY <2>1, <2>2, <2>4, <2>5, <2>6, <2>7, <2>8 DEF TypeOK
<1>7. CallsInv
  BY DEF Init, CallsInv, CallOK, Working
<1>8. SlotsInv
  BY <1>4 DEF Init, SlotsInv, BlockedHoldsNoSlot, InPool
<1>9. ActiveCount
  <2>1. \A s \in Servers : Busy(s) = {} /\ active[s] = 0 /\ leaked[s] = 0
    BY DEF Init, Busy
  <2> QED
    BY <2>1, FS_EmptySet DEF ActiveCount, Busy
<1>10. Places
  <2> SUFFICES ASSUME NEW d \in Calls PROVE Placed(d)
    BY DEF Places
  <2>1. Len(pending[d]) = Batch[d] /\ \A i \in 1..Batch[d] : pending[d][i] = i
    <3>1. pending[d] = [i \in 1..Batch[d] |-> i] /\ Batch[d] \in Nat
      BY <1>5 DEF Articles
    <3>2. pending[d] \in Seq(Nat) /\ DOMAIN pending[d] = 1..Batch[d]
      BY <3>1
    <3>3. 1..Len(pending[d]) = 1..Batch[d] /\ Len(pending[d]) \in Nat
      BY <3>2, LenProperties
    <3> QED
      BY <3>1, <3>3
  <2>2. Distinct(pending[d]) /\ Elements(pending[d]) = Articles(d) /\ 0 \notin Articles(d)
    BY <2>1 DEF Distinct, Elements, Articles
  <2>3. results[d] = <<>> /\ cur[d] = 0 /\ pc[d] = "loop"
    BY DEF Init
  <2> QED
    BY <1>4, <2>2, <2>3 DEF Placed
<1>11. AskedOnce
  BY <1>1, <1>2 DEF AskedOnce
<1>12. OrderInv
  BY <1>4 DEF Init, OrderInv, Ordered, Working
<1> QED
  BY <1>6, <1>7, <1>8, <1>9, <1>10, <1>11, <1>12 DEF IInv

LEMMA Inductive == Spec => []IInv
<1>1. IInv /\ [Next]_vars => IInv'
  BY TypeStep, CallsStep, SlotsStep, ActiveStep, PlacesStep, AskedStep, OrderStep DEF IInv
<1> QED
  BY InitIInv, <1>1, PTL DEF Spec

(* Every variable keeps its type, and a channel its capacity.               *)
THEOREM DownloaderTypeCorrect == Spec => []TypeOK
<1>1. IInv => TypeOK
  BY DEF IInv
<1> QED
  BY Inductive, <1>1, PTL

\* A list without repetition has as many elements as places.
LEMMA DistinctCounts ==
    ASSUME NEW S, NEW q \in Seq(S), Distinct(q)
    PROVE  Cardinality(Elements(q)) = Len(q)
<1>1. Len(q) \in Nat /\ q \in [1..Len(q) -> S] /\ DOMAIN q = 1..Len(q)
  BY LenProperties
<1>2. q \in [1..Len(q) -> Elements(q)]
  BY <1>1 DEF Elements
<1>3. q \in Bijection(1..Len(q), Elements(q))
  BY <1>1, <1>2 DEF Bijection, Injection, Surjection, IsInjective, Distinct, Elements
<1> QED
  BY <1>1, <1>3, FS_CountingElements DEF ExistsBijection

(* No article is asked of the same server twice, nor of one the caller      *)
(* listed as tried.                                                         *)
THEOREM DownloaderTriedOnce == Spec => []TriedOnce
<1>1. IInv => TriedOnce
  <2> SUFFICES ASSUME IInv, NEW d \in Calls, NEW a \in Articles(d)
               PROVE  Cardinality(Elements(tried[d][a])) = Len(tried[d][a])
    BY DEF TriedOnce
  <2>1. tried[d][a] \in Seq(DOMAIN Configs) /\ Distinct(tried[d][a])
    BY DEF IInv, TypeOK, AskedOnce
  <2> QED
    BY <2>1, DistinctCounts
<1> QED
  BY Inductive, <1>1, PTL

(* connections_active counts the connections in use, and one more for each  *)
(* call that was dropped in the middle of a fetch.                          *)
THEOREM DownloaderActiveCount == Spec => []ActiveCount
<1>1. IInv => ActiveCount
  BY DEF IInv
<1> QED
  BY Inductive, <1>1, PTL

(* A call that is paused, or waits for its receiver, holds no slot.         *)
THEOREM DownloaderBlockedHoldsNoSlot == Spec => []BlockedHoldsNoSlot
<1>1. IInv => BlockedHoldsNoSlot
  BY DEF IInv, SlotsInv
<1> QED
  BY Inductive, <1>1, PTL

(* A server serves an article, or the article ends exhausted, only when     *)
(* every server before it failed the article or was penalized.              *)
THEOREM DownloaderFailoverInOrder == Spec => []FailoverInOrder
<1>1. IInv => FailoverInOrder
  <2> SUFFICES ASSUME IInv, NEW d \in Calls, NEW i \in 1..Len(results[d]), NEW t \in Servers,
                      results[d][i].outcome = "exhausted" \/ Before(t, results[d][i].server)
               PROVE  t \in Elements(tried[d][results[d][i].article]) \cup backedOff
    BY DEF FailoverInOrder
  <2>1. Ordered(d)
    BY DEF IInv, OrderInv
  <2> QED
    BY <2>1 DEF Ordered
<1> QED
  BY Inductive, <1>1, PTL

-----------------------------------------------------------------------------
(* Every article is accounted for                                           *)

LEMMA ConcatElements ==
    ASSUME NEW S, NEW s \in Seq(S), NEW t \in Seq(S)
    PROVE  /\ s \o t \in Seq(S)
           /\ Elements(s \o t) = Elements(s) \cup Elements(t)
           /\ Distinct(s) /\ Distinct(t) /\ Elements(s) \cap Elements(t) = {} => Distinct(s \o t)
<1> DEFINE u == s \o t
           m == Len(s)
           n == Len(t)
<1>1. /\ u \in Seq(S) /\ Len(u) = m + n /\ m \in Nat /\ n \in Nat
      /\ \A i \in 1..(m + n) : u[i] = IF i <= m THEN s[i] ELSE t[i - m]
  BY ConcatProperties, LenProperties
<1> HIDE DEF u
<1>2. \A i \in 1..(m + n) : \/ i \in 1..m /\ u[i] = s[i]
                            \/ i > m /\ i - m \in 1..n /\ u[i] = t[i - m]
  BY <1>1
<1>3. \A i \in 1..m : i \in 1..(m + n) /\ u[i] = s[i]
  BY <1>1
<1>4. \A i \in 1..n : i + m \in 1..(m + n) /\ u[i + m] = t[i]
  <2> SUFFICES ASSUME NEW i \in 1..n PROVE i + m \in 1..(m + n) /\ u[i + m] = t[i]
    OBVIOUS
  <2>1. i + m \in 1..(m + n) /\ ~(i + m <= m) /\ (i + m) - m = i
    BY <1>1
  <2> QED
    BY <1>1, <2>1
<1>5. Elements(u) \subseteq Elements(s) \cup Elements(t)
  BY <1>1, <1>2 DEF Elements
<1>6. Elements(s) \subseteq Elements(u) /\ Elements(t) \subseteq Elements(u)
  BY <1>1, <1>3, <1>4 DEF Elements
<1>7. ASSUME Distinct(s), Distinct(t), Elements(s) \cap Elements(t) = {} PROVE Distinct(u)
  <2> SUFFICES ASSUME NEW i \in 1..Len(u), NEW j \in 1..Len(u), u[i] = u[j] PROVE i = j
    BY DEF Distinct
  <2>0. i \in 1..(m + n) /\ j \in 1..(m + n)
    BY <1>1
  <2>1. CASE i \in 1..m /\ u[i] = s[i] /\ j \in 1..m /\ u[j] = s[j]
    BY <1>7, <2>1 DEF Distinct
  <2>2. CASE /\ i > m /\ i - m \in 1..n /\ u[i] = t[i - m]
             /\ j > m /\ j - m \in 1..n /\ u[j] = t[j - m]
    <3>1. i - m = j - m
      BY <1>7, <2>2 DEF Distinct
    <3> QED
      BY <1>1, <2>0, <3>1
  <2>3. CASE i \in 1..m /\ u[i] = s[i] /\ j - m \in 1..n /\ u[j] = t[j - m]
    BY <1>7, <2>3 DEF Elements
  <2>4. CASE i - m \in 1..n /\ u[i] = t[i - m] /\ j \in 1..m /\ u[j] = s[j]
    BY <1>7, <2>4 DEF Elements
  <2> QED
    BY <1>2, <2>0, <2>1, <2>2, <2>3, <2>4
<1> QED
  BY <1>1, <1>5, <1>6, <1>7 DEF u

LEMMA PlacesAreSettledOrLeft ==
    ASSUME IInv, NEW d \in Calls
    PROVE  /\ Cardinality(Elements(AllOf(d))) = Len(AllOf(d))
           /\ pc[d] # "dropped" => Elements(AllOf(d)) = Articles(d)
           /\ pc[d] = "returned" => Elements(Settled(d)) = Articles(d)
<1> DEFINE A == Articles(d)
           T == [article : A, outcome : {"article", "exhausted"}, server : Servers \cup {0}]
           rs == results[d]
           s == Settled(d)
           h == InHand(d)
           p == pending[d]
<1>1. Placed(d) /\ CallOK(d) /\ rs \in Seq(T) /\ p \in Seq(A)
  BY DEF IInv, Places, CallsInv, TypeOK
<1>2. Len(rs) \in Nat /\ \A i \in 1..Len(rs) : rs[i].article \in A
  <2>1. \A r \in T : r.article \in A
    OBVIOUS
  <2> HIDE DEF T
  <2>2. Len(rs) \in Nat /\ \A i \in 1..Len(rs) : rs[i] \in T
    BY <1>1, LenProperties, ElementOfSeq
  <2> QED
    BY <2>1, <2>2
<1>3. /\ s = [i \in 1..Len(rs) |-> rs[i].article] /\ s \in Seq(A)
      /\ Len(s) = Len(rs) /\ \A i \in 1..Len(rs) : s[i] = rs[i].article
  <2>1. s = [i \in 1..Len(rs) |-> rs[i].article]
    BY DEF Settled
  <2>2. s \in [1..Len(rs) -> A]
    BY <1>2, <2>1
  <2>3. s \in Seq(A)
    BY <1>2, <2>2
  <2>4. 1..Len(s) = 1..Len(rs) /\ Len(s) \in Nat
    BY <2>1, <2>3, LenProperties
  <2> QED
    BY <1>2, <2>1, <2>3, <2>4
<1>4. /\ h \in Seq(A) /\ Distinct(h) /\ Elements(h) = {cur[d]} \ {0}
  <2>1. CASE cur[d] = 0
    <3>1. h = <<>>
      BY <2>1 DEF InHand
    <3>2. <<>> \in Seq(A) /\ Elements(<<>>) = {} /\ Distinct(<<>>)
      BY EmptySeq DEF Elements, Distinct
    <3> QED
      BY <2>1, <3>1, <3>2
  <2>2. CASE cur[d] # 0
    <3>1. h = <<cur[d]>> /\ cur[d] \in A
      BY <1>1, <2>2 DEF InHand, CallOK
    <3>2. Elements(<<cur[d]>>) = {cur[d]} /\ Distinct(<<cur[d]>>)
      BY DEF Elements, Distinct
    <3> QED
      BY <2>2, <3>1, <3>2
  <2> QED
    BY <2>1, <2>2
<1> HIDE DEF A, T, rs, s, h, p
<1>5. /\ Distinct(s) /\ Distinct(p)
      /\ Elements(s) \cap Elements(h) = {} /\ Elements(h) \cap Elements(p) = {}
      /\ Elements(s) \cap Elements(p) = {}
  <2>1. \A i \in 1..Len(rs) : rs[i].article # cur[d] /\ rs[i].article \notin Elements(p)
    BY <1>1 DEF Placed, rs, p
  <2>2. Elements(s) \cap Elements(h) = {} /\ Elements(s) \cap Elements(p) = {}
    <3>1. ASSUME NEW a \in Elements(s) PROVE a \notin Elements(h) /\ a \notin Elements(p)
      <4>1. PICK i \in 1..Len(rs) : a = rs[i].article
        BY <1>3, <3>1 DEF Elements
      <4> QED
        BY <1>4, <2>1, <4>1
    <3> QED
      BY <3>1
  <2>3. Distinct(p) /\ Elements(h) \cap Elements(p) = {}
    BY <1>1, <1>4 DEF Placed, p
  <2>4. Distinct(s)
    BY <1>1, <1>3 DEF Placed, Distinct, rs
  <2> QED
    BY <2>2, <2>3, <2>4
<1>6. /\ s \o h \in Seq(A) /\ Elements(s \o h) = Elements(s) \cup Elements(h) /\ Distinct(s \o h)
  <2>1. s \in Seq(A) /\ h \in Seq(A)
    BY <1>3, <1>4
  <2>2. Distinct(s) /\ Distinct(h) /\ Elements(s) \cap Elements(h) = {}
    BY <1>4, <1>5
  <2> QED
    BY <2>1, <2>2, ConcatElements
<1>7. AllOf(d) = (s \o h) \o p
  BY DEF AllOf, s, h, p
<1>8. /\ AllOf(d) \in Seq(A) /\ Distinct(AllOf(d))
      /\ Elements(AllOf(d)) = Elements(s) \cup Elements(h) \cup Elements(p)
  <2> DEFINE sh == s \o h
  <2>1. sh \in Seq(A) /\ p \in Seq(A) /\ Distinct(sh) /\ Distinct(p)
    BY <1>1, <1>5, <1>6 DEF A
  <2>2. Elements(sh) \cap Elements(p) = {} /\ Elements(sh) = Elements(s) \cup Elements(h)
    BY <1>5, <1>6
  <2> HIDE DEF sh
  <2>3. /\ sh \o p \in Seq(A) /\ Elements(sh \o p) = Elements(sh) \cup Elements(p)
        /\ Distinct(sh \o p)
    BY <2>1, <2>2, ConcatElements
  <2> QED
    BY <1>7, <2>2, <2>3 DEF sh
<1>9. Cardinality(Elements(AllOf(d))) = Len(AllOf(d))
  BY <1>8, DistinctCounts
<1>10. Elements(s) \subseteq A /\ Elements(h) \subseteq A /\ Elements(p) \subseteq A
  <2>1. ASSUME NEW q \in Seq(A) PROVE Elements(q) \subseteq A
    BY <2>1, ElementOfSeq DEF Elements
  <2> QED
    BY <1>1, <1>3, <1>4, <2>1
<1>11. ASSUME pc[d] # "dropped" PROVE Elements(AllOf(d)) = A
  <2>1. ASSUME NEW a \in A PROVE a \in Elements(s) \cup Elements(h) \cup Elements(p)
    <3>1. \/ \E i \in 1..Len(rs) : rs[i].article = a
          \/ a = cur[d]
          \/ a \in Elements(p)
      BY <1>1, <1>11 DEF Placed, A, rs, p
    <3>2. a # 0
      BY DEF A, Articles
    <3> QED
      BY <1>3, <1>4, <3>1, <3>2 DEF Elements
  <2> QED
    BY <1>8, <1>10, <2>1
<1>12. ASSUME pc[d] = "returned" PROVE Elements(s) = A
  <2>1. cur[d] = 0 /\ p = <<>>
    BY <1>1, <1>12 DEF CallOK, Placed, Working, p
  <2>2. Elements(h) = {} /\ Elements(p) = {}
    BY <1>4, <2>1 DEF Elements
  <2> QED
    BY <1>8, <1>11, <1>12, <2>2
<1> QED
  BY <1>9, <1>11, <1>12 DEF A, s

(* download() neither loses an article nor settles one twice, and a call    *)
(* that returns Ok has settled all of them.                                 *)
THEOREM DownloaderAccounted == Spec => []Accounted
<1>1. IInv => Accounted
  BY PlacesAreSettledOrLeft DEF Accounted
<1> QED
  BY Inductive, <1>1, PTL

=============================================================================
