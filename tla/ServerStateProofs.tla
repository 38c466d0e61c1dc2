-------------------------- MODULE ServerStateProofs -------------------------
(***************************************************************************)
(* Proofs about RampUp, for any number of workers and any delay, and about *)
(* ServerState: it keeps the pace of RampUp, and counts the connections in *)
(* use, for any number of workers and connections.                         *)
(***************************************************************************)
EXTENDS ServerState, SequenceTheorems, FiniteSetTheorems, WellFoundedInduction, TLAPS

-----------------------------------------------------------------------------
(* The pace                                                                 *)

\* Only the owner of the mutex is past the queue, and its sleep, with what has
\* elapsed, makes up the delay.  Nothing need be known of the queue: whoever is
\* handed the mutex looks at the clock first.
IInv ==
    /\ PaceTypeOK
    /\ \A w \in Workers : at[w] \in {"locked", "asleep"} => lock = w
    /\ \A w \in Workers : at[w] = "asleep" => left + elapsed >= delay

LEMMA WithoutType ==
    ASSUME NEW S, NEW q \in Seq(S), NEW i \in 1..Len(q)
    PROVE  Without(q, i) \in Seq(S)
<1>1. Len(q) \in Nat /\ \A j \in 1..Len(q) : q[j] \in S
  BY LenProperties, ElementOfSeq
<1>2. SubSeq(q, 1, i - 1) \in Seq(S)
  BY <1>1, SubSeqProperties
<1>3. SubSeq(q, i + 1, Len(q)) \in Seq(S)
  BY <1>1, SubSeqProperties
<1> QED
  BY <1>2, <1>3, ConcatProperties DEF Without

LEMMA Times ==
    ASSUME PaceTypeOK
    PROVE  delay \in Nat /\ elapsed \in Nat /\ left \in Nat /\ elapsed <= delay /\ left <= delay
<1>1. delay \in Nat
  BY DelayAssumption DEF PaceTypeOK
<1> QED
  BY <1>1 DEF PaceTypeOK

LEMMA PaceInitInv ==
    ASSUME PaceInit
    PROVE  IInv
<1>1. delay \in Nat /\ Backdated \in Nat /\ elapsed \in 0..delay /\ left \in 0..delay
  BY DelayAssumption DEF PaceInit, Least
<1>2. at \in [Workers -> Places] /\ \A w \in Workers : at[w] = "away"
  BY DEF PaceInit, Places
<1>3. lockQueue \in Seq(Workers) /\ lock \in Workers \cup {NoWorker} /\ delay \in Delays
  BY DEF PaceInit
<1> QED
  BY <1>1, <1>2, <1>3 DEF IInv, PaceTypeOK

\* The owner of the mutex gives it up and goes to another place.
LEMMA HandOverInv ==
    ASSUME IInv, NEW w \in Workers, lock = w, NEW l \in {"away", "connecting"},
           HandOver([at EXCEPT ![w] = l])
    PROVE  /\ at' \in [Workers -> Places]
           /\ lock' \in Workers \cup {NoWorker} /\ lockQueue' \in Seq(Workers)
           /\ \A u \in Workers : at'[u] \in {"locked", "asleep"} => lock' = u
           /\ \A u \in Workers : at'[u] # "asleep"
           /\ \A u \in Workers \ {w} : at'[u] # "connecting" \/ at[u] = "connecting"
<1> DEFINE p == [at EXCEPT ![w] = l]
<1>1. p \in [Workers -> Places] /\ p[w] = l /\ \A u \in Workers \ {w} : p[u] = at[u]
  BY DEF IInv, PaceTypeOK, Places
<1>2. \A u \in Workers : p[u] \notin {"locked", "asleep"}
  BY <1>1 DEF IInv
<1> HIDE DEF p
<1>3. CASE lockQueue = <<>>
  <2>1. lock' = NoWorker /\ lockQueue' = <<>> /\ at' = p
    BY <1>3 DEF HandOver, p
  <2>2. lockQueue' \in Seq(Workers)
    BY <2>1
  <2> QED
    BY <1>1, <1>2, <2>1, <2>2
<1>4. CASE lockQueue # <<>>
  <2> DEFINE h == Head(lockQueue)
  <2>1. h \in Workers /\ Tail(lockQueue) \in Seq(Workers)
    BY <1>4, HeadTailProperties DEF IInv, PaceTypeOK
  <2>2. lock' = h /\ lockQueue' = Tail(lockQueue) /\ at' = [p EXCEPT ![h] = "locked"]
    BY <1>4 DEF HandOver, p
  <2> HIDE DEF h
  <2>3. /\ at' \in [Workers -> Places] /\ at'[h] = "locked"
        /\ \A u \in Workers \ {h} : at'[u] = p[u]
    BY <1>1, <2>1, <2>2 DEF Places
  <2> QED
    BY <1>1, <1>2, <2>1, <2>2, <2>3
<1> QED
  BY <1>3, <1>4

\* What a worker's pass needs and does.
LEMMA PassFacts ==
    ASSUME IInv, NEW w \in Workers, Look(w) \/ Wake(w),
           ~(at[w] = "locked" /\ elapsed < delay)
    PROVE  lock = w /\ Pass(w) /\ elapsed = delay
<1>1. lock = w /\ Pass(w)
  BY DEF Look, Wake, IInv
<1>2. CASE at[w] = "locked"
  BY <1>1, <1>2, Times DEF IInv
<1>3. CASE at[w] = "asleep"
  BY <1>1, <1>3, Times DEF IInv, Wake, Look
<1> QED
  BY <1>1, <1>2, <1>3 DEF Look, Wake

LEMMA PaceStepInv ==
    ASSUME IInv, [PaceNext]_paceVars
    PROVE  IInv'
<1>1. PaceTypeOK
  BY DEF IInv
<1>2. ASSUME NEW w \in Workers, Ask(w) PROVE IInv'
  <2>1. at[w] \notin InRampUp /\ UNCHANGED <<delay, elapsed, left>>
    BY <1>2 DEF Ask, EnterRampUp, InRampUp
  <2>2. CASE delay = 0 /\ at' = [at EXCEPT ![w] = "connecting"] /\ UNCHANGED <<lock, lockQueue>>
    BY <1>1, <2>1, <2>2 DEF IInv, PaceTypeOK, Places
  <2>3. CASE lock = NoWorker /\ lock' = w /\ lockQueue' = lockQueue
             /\ at' = [at EXCEPT ![w] = "locked"]
    BY <1>1, <2>1, <2>3, NoWorkerAssumption DEF IInv, PaceTypeOK, Places
  <2>4. CASE /\ lockQueue' = Append(lockQueue, w) /\ lock' = lock
             /\ at' = [at EXCEPT ![w] = "queued"]
    <3>1. lockQueue' \in Seq(Workers)
      BY <1>1, <2>4, AppendProperties DEF PaceTypeOK
    <3> QED
      BY <1>1, <2>1, <2>4, <3>1 DEF IInv, PaceTypeOK, Places
  <2> QED
    BY <1>2, <2>2, <2>3, <2>4 DEF Ask, EnterRampUp
<1>3. ASSUME NEW w \in Workers, Look(w) \/ Wake(w) PROVE IInv'
  <2>1. CASE at[w] = "locked" /\ elapsed < delay
    <3>1. /\ at' = [at EXCEPT ![w] = "asleep"] /\ left' = delay - elapsed /\ lock = w
          /\ UNCHANGED <<lock, lockQueue, delay, elapsed>>
      BY <1>1, <1>3, <2>1, Times DEF Look, Wake, IInv
    <3>2. left' \in 0..delay /\ left' + elapsed >= delay
      BY <1>1, <2>1, <3>1, Times
    <3>3. at' \in [Workers -> Places] /\ \A u \in Workers : u # w => at'[u] = at[u]
      BY <1>1, <3>1 DEF PaceTypeOK, Places
    <3> QED
      BY <1>1, <3>1, <3>2, <3>3 DEF IInv, PaceTypeOK
  <2>2. CASE ~(at[w] = "locked" /\ elapsed < delay)
    <3>1. lock = w /\ Pass(w)
      BY <1>3, <2>2, PassFacts
    <3>2. elapsed' = 0 /\ left' = 0 /\ delay' = delay /\ HandOver([at EXCEPT ![w] = "connecting"])
      BY <3>1 DEF Pass
    <3>3. 0 \in 0..delay
      BY <1>1, Times
    <3> QED
      BY <1>1, <3>1, <3>2, <3>3, HandOverInv DEF IInv, PaceTypeOK
  <2> QED
    BY <2>1, <2>2
<1>4. ASSUME NEW w \in Workers, DropRampUp(w) PROVE IInv'
  <2>1. UNCHANGED <<delay, elapsed>>
    BY <1>4 DEF DropRampUp, LeaveRampUp
  <2>2. CASE lock = w
    <3>1. left' = 0 /\ HandOver([at EXCEPT ![w] = "away"])
      BY <1>4, <2>2 DEF DropRampUp, LeaveRampUp
    <3>2. 0 \in 0..delay
      BY <1>1, Times
    <3> QED
      BY <1>1, <2>1, <2>2, <3>1, <3>2, HandOverInv DEF IInv, PaceTypeOK
  <2>3. CASE lock # w
    <3>1. PICK i \in 1..Len(lockQueue) : lockQueue' = Without(lockQueue, i)
      BY <1>4, <2>3 DEF DropRampUp, LeaveRampUp
    <3>2. at' = [at EXCEPT ![w] = "away"] /\ UNCHANGED <<lock, left>>
      BY <1>4, <2>3 DEF DropRampUp, LeaveRampUp
    <3>3. lockQueue' \in Seq(Workers)
      BY <1>1, <3>1, WithoutType DEF PaceTypeOK
    <3> QED
      BY <1>1, <2>1, <3>2, <3>3 DEF IInv, PaceTypeOK, Places
  <2> QED
    BY <2>2, <2>3
<1>5. ASSUME NEW w \in Workers, Elsewhere(w) PROVE IInv'
  BY <1>1, <1>5 DEF Elsewhere, InRampUp, rampVars, IInv, PaceTypeOK, Places
<1>6. CASE Clock
  <2>1. /\ elapsed' = Least(elapsed + 1, delay) /\ left' = (IF left > 0 THEN left - 1 ELSE 0)
        /\ UNCHANGED <<at, lock, lockQueue, delay>>
    BY <1>6 DEF Clock
  <2>2. elapsed' \in 0..delay /\ left' \in 0..delay
        /\ (left + elapsed >= delay => left' + elapsed' >= delay)
    BY <1>1, <2>1, Times DEF Least
  <2> QED
    BY <1>1, <2>1, <2>2 DEF IInv, PaceTypeOK
<1>7. CASE UNCHANGED paceVars
  BY <1>1, <1>7 DEF paceVars, rampVars, IInv, PaceTypeOK
<1> QED
  BY <1>2, <1>3, <1>4, <1>5, <1>6, <1>7 DEF PaceNext

-----------------------------------------------------------------------------
(* The types of the variables are invariant.                                *)
THEOREM PaceTypeCorrect == PaceSpec => []PaceTypeOK
<1>1. IInv => PaceTypeOK
  BY DEF IInv
<1> QED
  BY <1>1, PaceInitInv, PaceStepInv, PTL DEF PaceSpec

(* Passes are at least the delay apart: the mutex is held through the sleep *)
(* and the clock is read after it, so no other pass comes between.          *)
THEOREM PacedCorrect == PaceSpec => Paced
<1> DEFINE P == \A w \in Workers :
                 at[w] \in InRampUp /\ at'[w] = "connecting" => elapsed = delay /\ elapsed' = 0
<1>1. ASSUME IInv, [PaceNext]_paceVars PROVE [P]_paceVars
  <2> SUFFICES ASSUME PaceNext, NEW w \in Workers, at[w] \in InRampUp, at'[w] = "connecting"
               PROVE  elapsed = delay /\ elapsed' = 0
    BY <1>1
  <2>1. at \in [Workers -> Places] /\ at[w] \in {"queued", "locked", "asleep"}
    BY <1>1 DEF IInv, PaceTypeOK, InRampUp
  <2>2. ASSUME NEW u \in Workers, Ask(u) PROVE FALSE
    BY <2>1, <2>2 DEF Ask, EnterRampUp
  <2>3. ASSUME NEW u \in Workers, Look(u) \/ Wake(u) PROVE elapsed = delay /\ elapsed' = 0
    <3>1. CASE at[u] = "locked" /\ elapsed < delay
      <4>1. at' = [at EXCEPT ![u] = "asleep"]
        BY <1>1, <2>3, <3>1, Times DEF Look, Wake, IInv
      <4> QED
        BY <2>1, <4>1
    <3>2. CASE ~(at[u] = "locked" /\ elapsed < delay)
      BY <1>1, <2>3, <3>2, PassFacts DEF Pass
    <3> QED
      BY <3>1, <3>2
  <2>4. ASSUME NEW u \in Workers, DropRampUp(u) PROVE FALSE
    <3>1. CASE lock = u
      <4>1. HandOver([at EXCEPT ![u] = "away"])
        BY <2>4, <3>1 DEF DropRampUp, LeaveRampUp
      <4>2. u # w
        <5>1. ASSUME u = w PROVE at'[w] # "connecting"
          BY <2>1, <4>1, <5>1, HeadTailProperties, <1>1 DEF HandOver, IInv, PaceTypeOK
        <5> QED
          BY <5>1
      <4> QED
        BY <1>1, <2>1, <3>1, <4>1, <4>2, HandOverInv
    <3>2. CASE lock # u
      BY <2>1, <2>4, <3>2 DEF DropRampUp, LeaveRampUp
    <3> QED
      BY <3>1, <3>2
  <2>5. ASSUME NEW u \in Workers, Elsewhere(u) PROVE FALSE
    BY <2>1, <2>5 DEF Elsewhere, InRampUp
  <2>6. CASE Clock
    BY <2>1, <2>6 DEF Clock
  <2> QED
    BY <2>2, <2>3, <2>4, <2>5, <2>6 DEF PaceNext
<1> QED
  BY <1>1, PaceInitInv, PaceStepInv, PTL DEF PaceSpec, Paced

-----------------------------------------------------------------------------
(* Every step keeps the pace                                                *)

LEMMA ServerPaceStep ==
    ASSUME [Next]_vars
    PROVE  [PaceNext]_paceVars
<1>1. ASSUME NEW w \in Workers,
             \/ Acquire(w) \/ Reuse(w) \/ Create(w) \/ Connected(w) \/ AcquireFails(w)
             \/ CancelAcquire(w) \/ GiveBack(w) \/ Abandon(w) \/ Outside(w) \/ Ramp(w)
      PROVE  PaceNext
  <2>1. CASE Acquire(w) \/ AcquireFails(w) \/ GiveBack(w) \/ Abandon(w)
    <3>1. Elsewhere(w)
      BY <2>1 DEF Acquire, AcquireFails, GiveBack, Abandon, Elsewhere, InRampUp, rampVars
    <3> QED
      BY <3>1 DEF PaceNext
  <2>2. CASE Reuse(w) \/ Connected(w)
    <3>1. Elsewhere(w)
      BY <2>2 DEF Reuse, Connected, HandOut, Elsewhere, InRampUp, rampVars
    <3> QED
      BY <3>1 DEF PaceNext
  <2>3. CASE Create(w)
    BY <2>3 DEF Create, PaceNext
  <2>4. CASE CancelAcquire(w)
    BY <2>4 DEF CancelAcquire, PaceNext
  <2>5. CASE Outside(w)
    <3>1. CASE Opened(w)
      <4>1. Elsewhere(w)
        BY <3>1 DEF Opened, Elsewhere, InRampUp
      <4> QED
        BY <4>1 DEF PaceNext
    <3> QED
      BY <2>5, <3>1 DEF Outside, PaceNext
  <2>6. CASE Ramp(w)
    BY <2>6 DEF Ramp, PaceNext
  <2> QED
    BY <1>1, <2>1, <2>2, <2>3, <2>4, <2>5, <2>6
<1>2. CASE (\E d \in Penalties : Penalize(d)) \/ ClearPenalty
  BY <1>2 DEF Penalize, ClearPenalty
<1>3. CASE (\E b \in Sizes : RecordSuccess(b)) \/ RecordFailure
  BY <1>3 DEF RecordSuccess, RecordFailure
<1>4. CASE Tick
  BY <1>4 DEF Tick, PaceNext
<1>5. CASE UNCHANGED vars
  BY <1>5 DEF vars
<1> QED
  BY <1>1, <1>2, <1>3, <1>4, <1>5 DEF Next

(* The server's workers, those of the pool and those outside, open          *)
(* connections at least the ramp-up delay apart.                            *)
THEOREM ServerPaced == FairSpec => Paced
<1>1. Init => PaceInit
  BY DEF Init
<1>2. Init /\ [][Next]_vars => PaceSpec
  BY <1>1, ServerPaceStep, PTL DEF PaceSpec
<1> QED
  BY <1>2, PacedCorrect, PTL DEF FairSpec

-----------------------------------------------------------------------------
(* The queue of the ramp-up: only workers that stand in it are in it, once; *)
(* whoever owns the mutex has left it.                                      *)
QInv ==
    /\ \A i \in 1..Len(lockQueue) : at[lockQueue[i]] = "queued"
    /\ \A i, j \in 1..Len(lockQueue) : i # j => lockQueue[i] # lockQueue[j]
    /\ \A w \in Workers : lock = w => at[w] \in {"locked", "asleep"}

\* What is left of a queue without one of its elements.
LEMMA WithoutElements ==
    ASSUME NEW S, NEW q \in Seq(S), NEW k \in 1..Len(q)
    PROVE  /\ Without(q, k) \in Seq(S) /\ Len(Without(q, k)) = Len(q) - 1 /\ Len(q) \in Nat
           /\ \A i \in 1..(Len(q) - 1) : Without(q, k)[i] = q[IF i < k THEN i ELSE i + 1]
<1> DEFINE a == SubSeq(q, 1, k - 1)
           b == SubSeq(q, k + 1, Len(q))
<1>1. Len(q) \in Nat /\ \A i \in 1..Len(q) : q[i] \in S
  BY LenProperties, ElementOfSeq
<1>2. a \in Seq(S) /\ Len(a) = k - 1 /\ \A i \in 1..(k - 1) : a[i] = q[i]
  BY <1>1, SubSeqProperties
<1>3. b \in Seq(S) /\ Len(b) = Len(q) - k /\ \A i \in 1..(Len(q) - k) : b[i] = q[k + i]
  BY <1>1, SubSeqProperties
<1>4. Without(q, k) = a \o b
  BY DEF Without
<1> HIDE DEF a, b
<1>5. /\ a \o b \in Seq(S) /\ Len(a \o b) = Len(q) - 1
      /\ \A i \in 1..(Len(q) - 1) : (a \o b)[i] = IF i <= k - 1 THEN a[i] ELSE b[i - (k - 1)]
  BY <1>1, <1>2, <1>3, ConcatProperties
<1>6. ASSUME NEW i \in 1..(Len(q) - 1) PROVE (a \o b)[i] = q[IF i < k THEN i ELSE i + 1]
  <2>1. CASE i < k
    BY <1>1, <1>2, <1>5, <2>1
  <2>2. CASE ~(i < k)
    <3>1. i - (k - 1) \in 1..(Len(q) - k) /\ k + (i - (k - 1)) = i + 1
      BY <1>1, <2>2
    <3> QED
      BY <1>1, <1>3, <1>5, <2>2, <3>1
  <2> QED
    BY <2>1, <2>2
<1> QED
  BY <1>1, <1>4, <1>5, <1>6

\* The mutex changes hands.
LEMMA HandOverQueue ==
    ASSUME IInv, QInv, NEW w \in Workers, lock = w, NEW l \in {"away", "connecting"},
           HandOver([at EXCEPT ![w] = l])
    PROVE  QInv' /\ \A u \in Workers : at'[u] = "out" <=> at[u] = "out"
<1>1. /\ at \in [Workers -> Places] /\ lockQueue \in Seq(Workers)
      /\ at[w] \in {"locked", "asleep"}
  BY DEF IInv, PaceTypeOK, QInv
<1>2. CASE lockQueue = <<>>
  <2>1. lock' = NoWorker /\ lockQueue' = <<>> /\ at' = [at EXCEPT ![w] = l]
    BY <1>2 DEF HandOver
  <2>2. Len(lockQueue') = 0
    BY <2>1
  <2> QED
    BY <1>1, <2>1, <2>2, NoWorkerAssumption DEF QInv
<1>3. CASE lockQueue # <<>>
  <2> DEFINE h == Head(lockQueue)
             t == Tail(lockQueue)
  <2>1. /\ h = lockQueue[1] /\ t \in Seq(Workers) /\ Len(t) = Len(lockQueue) - 1
        /\ Len(lockQueue) \in Nat \ {0}
        /\ \A i \in 1..Len(t) : t[i] = lockQueue[i + 1]
    BY <1>1, <1>3, HeadTailProperties, EmptySeq, LenProperties
  <2>2. lock' = h /\ lockQueue' = t /\ at' = [at EXCEPT ![w] = l, ![h] = "locked"]
    BY <1>3 DEF HandOver
  <2>3. h \in Workers /\ at[h] = "queued" /\ h # w
    BY <1>1, <2>1, ElementOfSeq DEF QInv
  <2> HIDE DEF h, t
  <2>4. /\ at'[h] = "locked" /\ at'[w] = l
        /\ \A u \in Workers : u # h /\ u # w => at'[u] = at[u]
    BY <1>1, <2>2, <2>3
  <2> DEFINE n == Len(lockQueue)
  <2>10. Len(t) = n - 1 /\ n \in Nat \ {0}
    BY <2>1
  <2>11. /\ \A i \in 1..n : lockQueue[i] \in Workers /\ at[lockQueue[i]] = "queued"
        /\ \A i, j \in 1..n : i # j => lockQueue[i] # lockQueue[j]
    BY <1>1, ElementOfSeq DEF QInv
  <2> HIDE DEF n
  <2>5. ASSUME NEW i \in 1..Len(t)
        PROVE  at'[t[i]] = "queued" /\ t[i] # h
    <3>1. i + 1 \in 1..n /\ i + 1 # 1 /\ 1 \in 1..n
      BY <2>10
    <3>2. t[i] = lockQueue[i + 1]
      BY <2>1
    <3>3. lockQueue[i + 1] \in Workers /\ at[lockQueue[i + 1]] = "queued"
      BY <2>11, <3>1
    <3>4. lockQueue[i + 1] # lockQueue[1]
      BY <2>11, <3>1
    <3>5. t[i] \in Workers /\ at[t[i]] = "queued" /\ t[i] # h /\ t[i] # w
      BY <1>1, <2>1, <3>2, <3>3, <3>4
    <3> QED
      BY <2>4, <3>5
  <2>6. ASSUME NEW i \in 1..Len(t), NEW j \in 1..Len(t), i # j
        PROVE  t[i] # t[j]
    <3>1. i + 1 \in 1..n /\ j + 1 \in 1..n /\ i + 1 # j + 1
      BY <2>10, <2>6
    <3>2. lockQueue[i + 1] # lockQueue[j + 1]
      BY <2>11, <3>1
    <3> QED
      BY <2>1, <3>2
  <2>7. \A u \in Workers : at'[u] = "out" <=> at[u] = "out"
    BY <1>1, <2>3, <2>4
  <2>8. \A u \in Workers : lock' = u => at'[u] \in {"locked", "asleep"}
    BY <2>2, <2>4
  <2>9. /\ \A i \in 1..Len(lockQueue') : at'[lockQueue'[i]] = "queued"
        /\ \A i, j \in 1..Len(lockQueue') : i # j => lockQueue'[i] # lockQueue'[j]
    BY <2>2, <2>5, <2>6
  <2> QED
    BY <2>7, <2>8, <2>9 DEF QInv
<1> QED
  BY <1>2, <1>3

\* What happens in the ramp-up keeps the queue and hands out nothing.
LEMMA RampSteps ==
    ASSUME IInv, QInv, NEW w \in Workers, Ask(w) \/ Look(w) \/ Wake(w) \/ DropRampUp(w)
    PROVE  QInv' /\ \A u \in Workers : at'[u] = "out" <=> at[u] = "out"
<1>1. at \in [Workers -> Places] /\ lockQueue \in Seq(Workers) /\ lock \in Workers \cup {NoWorker}
  BY DEF IInv, PaceTypeOK
<1>2. Len(lockQueue) \in Nat /\ \A i \in 1..Len(lockQueue) : lockQueue[i] \in Workers
  BY <1>1, LenProperties, ElementOfSeq
<1>3. CASE Ask(w)
  <2>1. at[w] \in {"away", "slot"} /\ EnterRampUp(w)
    BY <1>3 DEF Ask
  <2>2. \A i \in 1..Len(lockQueue) : lockQueue[i] # w
    BY <2>1 DEF QInv
  <2>3. lock # w
    BY <2>1 DEF QInv
  <2>4. CASE at' = [at EXCEPT ![w] = "connecting"] /\ UNCHANGED <<lock, lockQueue>>
    BY <1>1, <1>2, <2>1, <2>2, <2>3, <2>4 DEF QInv
  <2>5. CASE /\ lock = NoWorker /\ lock' = w /\ lockQueue' = lockQueue
             /\ at' = [at EXCEPT ![w] = "locked"]
    BY <1>1, <1>2, <2>1, <2>2, <2>5 DEF QInv
  <2>6. CASE lockQueue' = Append(lockQueue, w) /\ lock' = lock /\ at' = [at EXCEPT ![w] = "queued"]
    <3>1. /\ Len(lockQueue') = Len(lockQueue) + 1 /\ lockQueue'[Len(lockQueue) + 1] = w
          /\ \A i \in 1..Len(lockQueue) : lockQueue'[i] = lockQueue[i]
      BY <1>1, <2>6, AppendProperties
    <3>2. /\ at'[w] = "queued" /\ \A u \in Workers : u # w => at'[u] = at[u]
      BY <1>1, <2>6
    <3>3. ASSUME NEW i \in 1..Len(lockQueue') PROVE at'[lockQueue'[i]] = "queued"
      <4>1. i \in 1..Len(lockQueue) \/ i = Len(lockQueue) + 1
        BY <1>2, <3>1
      <4> QED
        BY <1>2, <2>2, <3>1, <3>2, <4>1 DEF QInv
    <3>4. ASSUME NEW i \in 1..Len(lockQueue'), NEW j \in 1..Len(lockQueue'), i # j
          PROVE  lockQueue'[i] # lockQueue'[j]
      <4>1. /\ i \in 1..Len(lockQueue) \/ i = Len(lockQueue) + 1
            /\ j \in 1..Len(lockQueue) \/ j = Len(lockQueue) + 1
        BY <1>2, <3>1
      <4> QED
        BY <2>2, <3>1, <3>4, <4>1 DEF QInv
    <3> QED
      BY <1>1, <2>1, <2>3, <2>6, <3>2, <3>3, <3>4 DEF QInv
  <2> QED
    BY <2>1, <2>4, <2>5, <2>6 DEF EnterRampUp
<1>4. CASE Look(w) \/ Wake(w)
  <2>1. lock = w /\ at[w] \in {"locked", "asleep"}
    BY <1>4 DEF Look, Wake, IInv
  <2>2. CASE at' = [at EXCEPT ![w] = "asleep"] /\ UNCHANGED <<lock, lockQueue>>
    <3>1. \A i \in 1..Len(lockQueue) : lockQueue[i] # w
      BY <2>1 DEF QInv
    <3> QED
      BY <1>1, <1>2, <2>1, <2>2, <3>1 DEF QInv
  <2>3. CASE HandOver([at EXCEPT ![w] = "connecting"])
    BY <2>1, <2>3, HandOverQueue
  <2> QED
    BY <1>4, <2>2, <2>3 DEF Look, Wake, Pass
<1>5. CASE DropRampUp(w)
  <2>1. at[w] \in InRampUp
    BY <1>5 DEF DropRampUp
  <2>2. CASE lock = w
    <3>1. HandOver([at EXCEPT ![w] = "away"])
      BY <1>5, <2>2 DEF DropRampUp, LeaveRampUp
    <3> QED
      BY <2>2, <3>1, HandOverQueue
  <2>3. CASE lock # w
    <3>1. PICK k \in 1..Len(lockQueue) : lockQueue[k] = w /\ lockQueue' = Without(lockQueue, k)
      BY <1>5, <2>3 DEF DropRampUp, LeaveRampUp
    <3>2. at' = [at EXCEPT ![w] = "away"] /\ lock' = lock
      BY <1>5, <2>3 DEF DropRampUp, LeaveRampUp
    <3>3. /\ Len(lockQueue') = Len(lockQueue) - 1
          /\ \A i \in 1..Len(lockQueue') : lockQueue'[i] = lockQueue[IF i < k THEN i ELSE i + 1]
      BY <1>1, <3>1, WithoutElements
    <3>4. ASSUME NEW i \in 1..Len(lockQueue')
          PROVE  /\ (IF i < k THEN i ELSE i + 1) \in 1..Len(lockQueue)
                 /\ (IF i < k THEN i ELSE i + 1) # k
      BY <1>2, <3>3
    <3>5. ASSUME NEW i \in 1..Len(lockQueue') PROVE at'[lockQueue'[i]] = "queued"
      <4> DEFINE m == IF i < k THEN i ELSE i + 1
      <4>1. m \in 1..Len(lockQueue) /\ m # k /\ lockQueue'[i] = lockQueue[m]
        BY <3>3, <3>4
      <4> HIDE DEF m
      <4>2. lockQueue[m] \in Workers /\ lockQueue[m] # w /\ at[lockQueue[m]] = "queued"
        BY <1>2, <3>1, <4>1 DEF QInv
      <4> QED
        BY <1>1, <3>2, <4>1, <4>2
    <3>6. ASSUME NEW i \in 1..Len(lockQueue'), NEW j \in 1..Len(lockQueue'), i # j
          PROVE  lockQueue'[i] # lockQueue'[j]
      <4> DEFINE m == IF i < k THEN i ELSE i + 1
                 n == IF j < k THEN j ELSE j + 1
      <4>1. m \in 1..Len(lockQueue) /\ n \in 1..Len(lockQueue) /\ m # n
        BY <1>2, <3>4, <3>6
      <4>2. lockQueue'[i] = lockQueue[m] /\ lockQueue'[j] = lockQueue[n]
        BY <3>3
      <4> HIDE DEF m, n
      <4> QED
        BY <4>1, <4>2 DEF QInv
    <3>7. \A u \in Workers : at'[u] = "out" <=> at[u] = "out"
      BY <1>1, <2>1, <3>2 DEF InRampUp
    <3>8. \A u \in Workers : lock' = u => at'[u] \in {"locked", "asleep"}
      BY <1>1, <2>3, <3>2 DEF QInv
    <3> QED
      BY <3>5, <3>6, <3>7, <3>8 DEF QInv
  <2> QED
    BY <2>2, <2>3
<1> QED
  BY <1>3, <1>4, <1>5

-----------------------------------------------------------------------------
(* connections_active                                                       *)

SInv ==
    /\ IInv /\ QInv
    /\ active \in Nat /\ abandoned \in Nat
    /\ ActiveCounts

\* Out is a set of workers like any other.
LEMMA OutFinite == IsFiniteSet(Out) /\ Cardinality(Out) \in Nat
<1>1. IsFiniteSet(Out)
  BY WorkersAssumption, FS_Subset DEF Out
<1> QED
  BY <1>1, FS_CardinalityType

\* A worker that goes elsewhere.
LEMMA GoElsewhere ==
    ASSUME IInv, QInv, NEW w \in Workers, at[w] \notin InRampUp,
           NEW l \in {"away", "slot", "out"}, at' = [at EXCEPT ![w] = l], UNCHANGED rampVars
    PROVE  /\ QInv'
           /\ l = "out" => Out' = Out \cup {w}
           /\ l # "out" => Out' = Out \ {w}
<1>1. /\ at \in [Workers -> Places] /\ lockQueue \in Seq(Workers)
      /\ UNCHANGED <<lock, lockQueue>>
  BY DEF IInv, PaceTypeOK, rampVars
<1>2. \A i \in 1..Len(lockQueue) : lockQueue[i] \in Workers /\ lockQueue[i] # w
  BY <1>1, ElementOfSeq DEF QInv, InRampUp
<1>3. lock # w
  BY DEF QInv, InRampUp
<1>4. at'[w] = l /\ \A u \in Workers : u # w => at'[u] = at[u]
  BY <1>1
<1> QED
  BY <1>1, <1>2, <1>3, <1>4 DEF QInv, Out

LEMMA ServerInit ==
    ASSUME Init
    PROVE  SInv
<1>1. IInv
  BY PaceInitInv DEF Init
<1>2. QInv
  <2>1. Len(lockQueue) = 0 /\ lock = NoWorker
    BY DEF Init, PaceInit
  <2> QED
    BY <2>1, NoWorkerAssumption DEF QInv
<1>3. Out = {}
  BY DEF Init, PaceInit, Out
<1> QED
  BY <1>1, <1>2, <1>3, FS_EmptySet DEF Init, SInv, ActiveCounts

LEMMA ServerStep ==
    ASSUME SInv, [Next]_vars
    PROVE  SInv'
<1>1. IInv' /\ IInv /\ QInv /\ active \in Nat /\ abandoned \in Nat
      /\ active = Cardinality(Out) + abandoned
  BY ServerPaceStep, PaceStepInv DEF SInv, ActiveCounts
<1>2. IsFiniteSet(Out) /\ Cardinality(Out) \in Nat
  BY OutFinite
<1>3. ASSUME NEW w \in Workers, Acquire(w) \/ AcquireFails(w) PROVE SInv'
  <2>1. /\ at[w] \notin InRampUp /\ at[w] # "out" /\ UNCHANGED <<rampVars, active, abandoned>>
        /\ at' = [at EXCEPT ![w] = "slot"] \/ at' = [at EXCEPT ![w] = "away"]
    BY <1>3 DEF Acquire, AcquireFails, InRampUp
  <2>2. QInv' /\ Out' = Out \ {w} /\ w \notin Out
    BY <1>1, <2>1, GoElsewhere DEF Out
  <2>3. Out' = Out
    BY <2>2
  <2> QED
    BY <1>1, <2>1, <2>2, <2>3 DEF SInv, ActiveCounts
<1>4. ASSUME NEW w \in Workers, Reuse(w) \/ Connected(w) PROVE SInv'
  <2>1. /\ at[w] \notin InRampUp /\ at[w] # "out" /\ UNCHANGED <<rampVars, abandoned>>
        /\ at' = [at EXCEPT ![w] = "out"] /\ active' = active + 1
    BY <1>4 DEF Reuse, Connected, HandOut, InRampUp
  <2>2. QInv' /\ Out' = Out \cup {w} /\ w \notin Out
    BY <1>1, <2>1, GoElsewhere DEF Out
  <2>3. Cardinality(Out') = Cardinality(Out) + 1
    BY <1>2, <2>2, FS_AddElement
  <2> QED
    BY <1>1, <1>2, <2>1, <2>2, <2>3 DEF SInv, ActiveCounts
<1>5. ASSUME NEW w \in Workers, GiveBack(w) \/ Abandon(w) PROVE SInv'
  <2>1. /\ at[w] = "out" /\ UNCHANGED rampVars /\ at' = [at EXCEPT ![w] = "away"]
    BY <1>5 DEF GiveBack, Abandon
  <2>2. QInv' /\ Out' = Out \ {w} /\ w \in Out
    BY <1>1, <2>1, GoElsewhere DEF Out, InRampUp
  <2>3. Cardinality(Out') = Cardinality(Out) - 1 /\ Cardinality(Out') \in Nat
    <3>1. IsFiniteSet(Out')
      BY <1>2, <2>2, FS_Subset
    <3> QED
      BY <1>2, <2>2, <3>1, FS_RemoveElement, FS_CardinalityType
  <2>4. CASE GiveBack(w)
    <3>1. abandoned' = abandoned /\ active' = IF active = 0 THEN 0 ELSE active - 1
      BY <2>4 DEF GiveBack, Uncount
    <3>2. active > 0
      BY <1>1, <1>2, <2>3
    <3> QED
      BY <1>1, <1>2, <2>2, <2>3, <3>1, <3>2 DEF SInv, ActiveCounts
  <2>5. CASE Abandon(w)
    <3>1. abandoned' = abandoned + 1 /\ active' = active
      BY <2>5 DEF Abandon
    <3> QED
      BY <1>1, <1>2, <2>2, <2>3, <3>1 DEF SInv, ActiveCounts
  <2> QED
    BY <1>5, <2>4, <2>5
<1>6. ASSUME NEW w \in Workers, Opened(w), UNCHANGED <<active, abandoned>> PROVE SInv'
  <2>1. /\ at[w] = "connecting" /\ UNCHANGED rampVars /\ at' = [at EXCEPT ![w] = "away"]
    BY <1>6 DEF Opened
  <2>2. QInv' /\ Out' = Out \ {w} /\ w \notin Out
    BY <1>1, <2>1, GoElsewhere DEF Out, InRampUp
  <2>3. Out' = Out
    BY <2>2
  <2> QED
    BY <1>1, <1>6, <2>2, <2>3 DEF SInv, ActiveCounts
<1>7. ASSUME NEW w \in Workers, Ask(w) \/ Look(w) \/ Wake(w) \/ DropRampUp(w),
             UNCHANGED <<active, abandoned>>
      PROVE  SInv'
  <2>1. QInv' /\ \A u \in Workers : at'[u] = "out" <=> at[u] = "out"
    BY <1>1, <1>7, RampSteps
  <2>2. Out' = Out
    BY <2>1 DEF Out
  <2> QED
    BY <1>1, <1>7, <2>1, <2>2 DEF SInv, ActiveCounts
<1>8. CASE UNCHANGED <<at, lock, lockQueue, active, abandoned>>
  BY <1>1, <1>8 DEF SInv, QInv, ActiveCounts, Out
<1>9. (\E d \in Penalties : Penalize(d)) \/ ClearPenalty \/ (\E b \in Sizes : RecordSuccess(b))
         \/ RecordFailure \/ Tick \/ UNCHANGED vars
      => UNCHANGED <<at, lock, lockQueue, active, abandoned>>
  BY DEF Penalize, ClearPenalty, RecordSuccess, RecordFailure, Tick, Clock, vars, paceVars, rampVars
<1>10. ASSUME NEW w \in Workers, Create(w) \/ CancelAcquire(w) \/ Outside(w) \/ Ramp(w) PROVE SInv'
  <2>1. /\ UNCHANGED <<active, abandoned>>
        /\ Ask(w) \/ Look(w) \/ Wake(w) \/ DropRampUp(w) \/ Opened(w)
    BY <1>10 DEF Create, CancelAcquire, Outside, Ramp
  <2> QED
    BY <1>6, <1>7, <2>1
<1> QED
  BY <1>3, <1>4, <1>5, <1>8, <1>9, <1>10 DEF Next

(* connections_active is the connections in use, and one for each that was  *)
(* dropped without release or discard.                                      *)
THEOREM ActiveCorrect == FairSpec => []ActiveCounts
<1>1. SInv => ActiveCounts
  BY DEF SInv
<1> QED
  BY <1>1, ServerInit, ServerStep, PTL DEF FairSpec

-----------------------------------------------------------------------------
(* The speed                                                                *)

Sample == [bytes : Nat, age : 0..(Window + 1)]

\* A non-empty set of natural numbers has a least element.
LEMMA LeastExists ==
    ASSUME NEW T \in SUBSET Nat, T # {}
    PROVE  \E x \in T : \A y \in T : x <= y
<1>1. PICK x \in T : \A y \in T : ~ (<<y, x>> \in OpToRel(<, Nat))
  BY NatLessThanWellFounded, WFMin
<1>2. \A y \in T : ~ (y < x)
  BY <1>1 DEF OpToRel
<1> QED
  BY <1>2

\* p holds the sums of the first bytes of s.
Sums(p, s) ==
    /\ p \in [0..Len(s) -> Nat] /\ p[0] = 0
    /\ \A i \in 1..Len(s) : p[i] = p[i - 1] + s[i].bytes

\* The recursive function of Total is the only one with these equations.
LEMMA TotalIs ==
    ASSUME NEW s, Len(s) \in Nat, NEW p, Sums(p, s)
    PROVE  Total(s) = p[Len(s)]
<1> DEFINE F(f) == [i \in 0..Len(s) |-> IF i = 0 THEN 0 ELSE f[i - 1] + s[i].bytes]
           f == CHOOSE f : f = F(f)
<1>1. p = F(p)
  <2>1. p = [i \in 0..Len(s) |-> p[i]]
    BY DEF Sums
  <2>2. ASSUME NEW i \in 0..Len(s)
        PROVE  p[i] = IF i = 0 THEN 0 ELSE p[i - 1] + s[i].bytes
    <3>1. CASE i = 0
      BY <3>1 DEF Sums
    <3>2. CASE i # 0
      <4>1. i \in 1..Len(s)
        BY <3>2
      <4> QED
        BY <3>2, <4>1 DEF Sums
    <3> QED
      BY <3>1, <3>2
  <2> QED
    BY <2>1, <2>2
<1>2. f = F(f)
  BY <1>1
<1> HIDE DEF f
<1>3. \A i \in 0..Len(s) : f[i] = IF i = 0 THEN 0 ELSE f[i - 1] + s[i].bytes
  BY <1>2
<1>4. \A i \in 0..Len(s) : f[i] = p[i]
  <2> DEFINE T == {i \in 0..Len(s) : f[i] # p[i]}
  <2> SUFFICES ASSUME T # {} PROVE FALSE
    OBVIOUS
  <2>1. PICK m \in T : \A y \in T : m <= y
    <3>1. T \in SUBSET Nat
      OBVIOUS
    <3> QED
      BY <3>1, LeastExists
  <2>2. m \in 0..Len(s) /\ f[m] # p[m]
    BY <2>1
  <2>3. m # 0
    BY <1>3, <2>2 DEF Sums
  <2>4. m \in 1..Len(s) /\ m - 1 \in 0..Len(s) /\ ~(m <= m - 1)
    BY <2>2, <2>3
  <2>5. f[m - 1] = p[m - 1]
    BY <2>1, <2>4
  <2>6. f[m] = f[m - 1] + s[m].bytes
    BY <1>3, <2>2, <2>3
  <2>7. p[m] = p[m - 1] + s[m].bytes
    BY <2>4 DEF Sums
  <2> QED
    BY <2>2, <2>5, <2>6, <2>7
<1>5. Total(s) = f[Len(s)]
  BY DEF Total, f
<1> QED
  BY <1>4, <1>5

\* Any samples have sums.
LEMMA SumsExist ==
    ASSUME NEW s \in Seq(Sample)
    PROVE  \E p : Sums(p, s)
<1>1. Len(s) \in Nat /\ \A i \in 1..Len(s) : s[i].bytes \in Nat
  <2>1. Len(s) \in Nat /\ \A i \in 1..Len(s) : s[i] \in Sample
    BY LenProperties, ElementOfSeq
  <2> QED
    BY <2>1 DEF Sample
<1> DEFINE Has(n) == \E p : /\ p \in [0..n -> Nat] /\ p[0] = 0
                            /\ \A i \in 1..n : p[i] = p[i - 1] + s[i].bytes
           T == {n \in 0..Len(s) : ~Has(n)}
<1>2. CASE T = {}
  <2>1. Has(Len(s))
    BY <1>1, <1>2
  <2> QED
    BY <2>1 DEF Sums
<1>3. CASE T # {}
  <2>1. PICK m \in T : \A y \in T : m <= y
    <3>1. T \in SUBSET Nat
      BY <1>1
    <3> QED
      BY <1>3, <3>1, LeastExists
  <2>2. m \in 0..Len(s) /\ ~Has(m)
    BY <2>1
  <2>3. ASSUME m = 0 PROVE FALSE
    <3> DEFINE p == [i \in 0..0 |-> 0]
    <3>1. p \in [0..m -> Nat] /\ p[0] = 0 /\ \A i \in 1..m : p[i] = p[i - 1] + s[i].bytes
      BY <2>3
    <3> QED
      BY <2>2, <3>1
  <2>4. m \in 1..Len(s) /\ m - 1 \in 0..Len(s) /\ ~(m <= m - 1)
    BY <1>1, <2>2, <2>3
  <2>5. Has(m - 1)
    BY <2>1, <2>4
  <2>6. PICK p : /\ p \in [0..(m - 1) -> Nat] /\ p[0] = 0
                 /\ \A i \in 1..(m - 1) : p[i] = p[i - 1] + s[i].bytes
    BY <2>5
  <2> DEFINE q == [i \in 0..m |-> IF i = m THEN p[m - 1] + s[m].bytes ELSE p[i]]
  <2>7. q \in [0..m -> Nat]
    <3>1. ASSUME NEW i \in 0..m PROVE (IF i = m THEN p[m - 1] + s[m].bytes ELSE p[i]) \in Nat
      <4>1. CASE i = m
        <5>1. p[m - 1] \in Nat /\ s[m].bytes \in Nat
          BY <1>1, <2>4, <2>6
        <5> QED
          BY <4>1, <5>1
      <4>2. CASE i # m
        <5>1. i \in 0..(m - 1)
          BY <2>4, <4>2
        <5> QED
          BY <2>6, <4>2, <5>1
      <4> QED
        BY <4>1, <4>2
    <3> QED
      BY <3>1
  <2>8. q[0] = 0
    BY <2>4, <2>6
  <2>9. ASSUME NEW i \in 1..m PROVE q[i] = q[i - 1] + s[i].bytes
    <3>1. q[i - 1] = p[i - 1]
      BY <2>4
    <3>2. CASE i = m
      BY <3>1, <3>2, <2>4
    <3>3. CASE i # m
      <4>1. i \in 1..(m - 1) /\ q[i] = p[i]
        BY <2>4, <3>3
      <4> QED
        BY <2>6, <3>1, <4>1
    <3> QED
      BY <3>2, <3>3
  <2> HIDE DEF q
  <2> QED
    BY <2>2, <2>7, <2>8, <2>9
<1> QED
  BY <1>2, <1>3

LEMMA TotalOfNone == Total(<<>>) = 0
<1> DEFINE p == [i \in 0..0 |-> 0]
<1>1. Sums(p, <<>>)
  BY DEF Sums
<1> QED
  BY <1>1, TotalIs

\* One more sample; the ages do not count.
LEMMA TotalOfMore ==
    ASSUME NEW s \in Seq(Sample), NEW t \in Seq(Sample), Len(t) = Len(s) + 1,
           \A i \in 1..Len(s) : t[i].bytes = s[i].bytes
    PROVE  Total(t) = Total(s) + t[Len(t)].bytes
<1>1. Len(s) \in Nat /\ Len(t) \in Nat
  BY LenProperties
<1>2. PICK p : Sums(p, t)
  BY SumsExist
<1> DEFINE q == [i \in 0..Len(s) |-> p[i]]
<1>3. Sums(q, s)
  <2>1. q \in [0..Len(s) -> Nat] /\ q[0] = 0
    BY <1>1, <1>2 DEF Sums
  <2>2. ASSUME NEW i \in 1..Len(s) PROVE q[i] = q[i - 1] + s[i].bytes
    <3>1. q[i] = p[i] /\ q[i - 1] = p[i - 1] /\ i \in 1..Len(t)
      BY <1>1
    <3>2. p[i] = p[i - 1] + t[i].bytes
      BY <1>2, <3>1 DEF Sums
    <3> QED
      BY <3>1, <3>2
  <2> QED
    BY <2>1, <2>2 DEF Sums
<1>4. Total(s) = p[Len(s)]
  BY <1>1, <1>3, TotalIs
<1>5. Total(t) = p[Len(t)]
  BY <1>1, <1>2, TotalIs
<1>6. Len(t) \in 1..Len(t) /\ Len(t) - 1 = Len(s)
  BY <1>1
<1>7. p[Len(t)] = p[Len(t) - 1] + t[Len(t)].bytes
  BY <1>2, <1>6 DEF Sums
<1> QED
  BY <1>4, <1>5, <1>6, <1>7

\* The last samples have no more bytes than all of them.
LEMMA TotalOfLast ==
    ASSUME NEW s \in Seq(Sample), NEW k \in 0..Len(s)
    PROVE  /\ Total(s) \in Nat
           /\ Total(SubSeq(s, k + 1, Len(s))) \in Nat
           /\ Total(SubSeq(s, k + 1, Len(s))) <= Total(s)
<1> DEFINE t == SubSeq(s, k + 1, Len(s))
<1>1. Len(s) \in Nat /\ \A i \in 1..Len(s) : s[i] \in Sample
  BY LenProperties, ElementOfSeq
<1>2. t \in Seq(Sample) /\ Len(t) = Len(s) - k /\ \A i \in 1..(Len(s) - k) : t[i] = s[k + i]
  BY <1>1, SubSeqProperties
<1> HIDE DEF t
<1>3. PICK p : Sums(p, s)
  BY SumsExist
<1>4. PICK q : Sums(q, t)
  BY <1>2, SumsExist
<1>5. Total(s) = p[Len(s)] /\ Total(t) = q[Len(t)] /\ Len(t) \in Nat
  BY <1>1, <1>2, <1>3, <1>4, TotalIs
<1>6. p[Len(s)] \in Nat /\ p[k] \in Nat /\ q[Len(t)] \in Nat
  <2>1. p[Len(s)] \in Nat /\ p[k] \in Nat
    BY <1>1, <1>3 DEF Sums
  <2>2. q[Len(t)] \in Nat
    BY <1>4, <1>5 DEF Sums
  <2> QED
    BY <2>1, <2>2
<1> DEFINE T == {i \in 0..Len(t) : p[k + i] # p[k] + q[i]}
<1>7. T = {}
  <2> SUFFICES ASSUME T # {} PROVE FALSE
    OBVIOUS
  <2>1. PICK m \in T : \A y \in T : m <= y
    <3>1. T \in SUBSET Nat
      BY <1>5
    <3> QED
      BY <3>1, LeastExists
  <2>2. m \in 0..Len(t) /\ p[k + m] # p[k] + q[m]
    BY <2>1
  <2>3. m # 0
    <3>1. ASSUME m = 0 PROVE FALSE
      <4>1. k + m = k /\ q[m] = 0
        BY <1>1, <1>4, <3>1 DEF Sums
      <4> QED
        BY <1>6, <2>2, <4>1
    <3> QED
      BY <3>1
  <2>4. /\ m \in 1..Len(t) /\ m - 1 \in 0..Len(t) /\ ~(m <= m - 1)
        /\ k + m \in 1..Len(s) /\ k + m - 1 = k + (m - 1) /\ m \in 1..(Len(s) - k)
    BY <1>1, <1>2, <1>5, <2>2, <2>3
  <2>5. p[k + (m - 1)] = p[k] + q[m - 1]
    BY <2>1, <2>4
  <2>6. p[k + m] = p[k + (m - 1)] + s[k + m].bytes
    BY <1>3, <2>4 DEF Sums
  <2>7. q[m] = q[m - 1] + s[k + m].bytes
    BY <1>2, <1>4, <2>4 DEF Sums
  <2>8. q[m - 1] \in Nat /\ s[k + m].bytes \in Nat
    <3>1. q[m - 1] \in Nat
      BY <1>4, <2>4 DEF Sums
    <3>2. s[k + m] \in Sample
      BY <1>1, <2>4
    <3> QED
      BY <3>1, <3>2 DEF Sample
  <2>9. p[k + m] = p[k] + q[m]
    <3>1. \A x, y, z \in Nat : (x + y) + z = x + (y + z)
      OBVIOUS
    <3>2. p[k + m] = (p[k] + q[m - 1]) + s[k + m].bytes
      BY <2>5, <2>6
    <3>3. p[k + m] = p[k] + (q[m - 1] + s[k + m].bytes)
      BY <1>6, <2>8, <3>1, <3>2
    <3> QED
      BY <2>7, <3>3
  <2> QED
    BY <2>2, <2>9
<1>8. p[k + Len(t)] = p[k] + q[Len(t)]
  BY <1>5, <1>7
<1>9. k + Len(t) = Len(s)
  BY <1>1, <1>2
<1> QED
  BY <1>5, <1>6, <1>8, <1>9 DEF t

LEMMA FirstOfLast ==
    ASSUME NEW s \in Seq(Sample), NEW k \in 0..Len(s), k < Len(s)
    PROVE  SubSeq(s, k + 1, Len(s))[1] = s[k + 1] /\ k + 1 \in 1..Len(s)
<1>1. Len(s) \in Nat /\ \A i \in 1..Len(s) : s[i] \in Sample
  BY LenProperties, ElementOfSeq
<1>2. /\ k + 1 \in Int /\ k + 1 \in 1..Len(s)
      /\ 1 \in 1..(Len(s) - (k + 1) + 1) /\ (k + 1) + 1 - 1 = k + 1
  BY <1>1
<1>3. \A i \in (k + 1)..Len(s) : s[i] \in Sample
  BY <1>1
<1> QED
  BY <1>1, <1>2, <1>3, SubSeqProperties

-----------------------------------------------------------------------------
\* Older samples come first; the samples are the last downloads.
RInv ==
    /\ sinceSample \in Nat /\ bytes = Total(downloads)
    /\ downloads \in Seq(Sample) /\ Len(samples) \in 0..Len(downloads)
    /\ \A i, j \in 1..Len(downloads) : i < j => downloads[j].age <= downloads[i].age
    /\ samples = SubSeq(downloads, Len(downloads) - Len(samples) + 1, Len(downloads))
    /\ \A i \in 1..Len(downloads) :
          downloads[i].age <= Window <=> i > Len(downloads) - Len(samples)

LEMMA LeastOrder ==
    \A x, y, z, m \in Nat : x <= y => Least(x + z, m) <= Least(y + z, m)
BY DEF Least

\* What one more sample does to the others.
LEMMA TakenIs ==
    ASSUME NEW s \in Seq(Sample), NEW b \in Nat, sinceSample \in Nat
    PROVE  /\ Len(s) \in Nat /\ Taken(s, b) \in Seq(Sample) /\ Len(Taken(s, b)) = Len(s) + 1
           /\ Taken(s, b)[Len(s) + 1] = [bytes |-> b, age |-> 0]
           /\ \A i \in 1..Len(s) :
                 Taken(s, b)[i] = [bytes |-> s[i].bytes,
                                   age |-> Least(s[i].age + sinceSample, Window + 1)]
<1> DEFINE t == [i \in DOMAIN s |-> [s[i] EXCEPT !.age = Least(@ + sinceSample, Window + 1)]]
           e == [bytes |-> b, age |-> 0]
<1>1. Len(s) \in Nat /\ DOMAIN s = 1..Len(s) /\ \A i \in 1..Len(s) : s[i] \in Sample
  BY LenProperties, ElementOfSeq
<1>2. ASSUME NEW i \in 1..Len(s)
      PROVE  /\ t[i] = [bytes |-> s[i].bytes, age |-> Least(s[i].age + sinceSample, Window + 1)]
             /\ t[i] \in Sample
  <2>1. s[i] \in [bytes : Nat, age : 0..(Window + 1)]
    BY <1>1 DEF Sample
  <2>2. [s[i] EXCEPT !.age = Least(@ + sinceSample, Window + 1)]
          = [bytes |-> s[i].bytes, age |-> Least(s[i].age + sinceSample, Window + 1)]
    BY <2>1
  <2>3. Least(s[i].age + sinceSample, Window + 1) \in 0..(Window + 1) /\ s[i].bytes \in Nat
    BY <2>1, SpeedAssumption DEF Least
  <2>4. t[i] = [bytes |-> s[i].bytes, age |-> Least(s[i].age + sinceSample, Window + 1)]
    BY <1>1, <2>2
  <2> QED
    BY <2>3, <2>4 DEF Sample
<1>3. t \in [1..Len(s) -> Sample]
  BY <1>1, <1>2
<1>4. t \in Seq(Sample) /\ Len(t) = Len(s)
  BY <1>1, <1>3
<1>5. e \in Sample
  BY SpeedAssumption DEF Sample
<1>6. Taken(s, b) = Append(t, e)
  BY DEF Taken
<1> HIDE DEF t, e
<1>7. /\ Append(t, e) \in Seq(Sample) /\ Len(Append(t, e)) = Len(t) + 1
      /\ Append(t, e)[Len(t) + 1] = e /\ \A i \in 1..Len(t) : Append(t, e)[i] = t[i]
  BY <1>4, <1>5, AppendProperties
<1> QED
  BY <1>1, <1>2, <1>4, <1>6, <1>7 DEF e

\* What is left when samples of which the last is recent are trimmed.
LEMMA TrimIs ==
    ASSUME NEW s \in Seq(Sample), Len(s) # 0, s[Len(s)].age <= Window
    PROVE  \E k \in 1..Len(s) :
              /\ Trim(s) = SubSeq(s, k, Len(s)) /\ s[k].age <= Window
              /\ \A j \in 1..(k - 1) : s[j].age > Window
<1>1. Len(s) \in Nat /\ \A i \in 1..Len(s) : s[i] \in Sample
  BY LenProperties, ElementOfSeq
<1>2. \A i \in 1..Len(s) : s[i].age \in Int
  BY <1>1, SpeedAssumption DEF Sample
<1> DEFINE T == {i \in 1..Len(s) : s[i].age <= Window}
<1>3. PICK m \in T : \A y \in T : m <= y
  <2>1. T \in SUBSET Nat /\ Len(s) \in T
    BY <1>1
  <2> QED
    BY <2>1, LeastExists
<1> DEFINE P(k) == s[k].age <= Window /\ \A j \in 1..(k - 1) : s[j].age > Window
<1>4. m \in 1..Len(s) /\ P(m)
  <2>1. ASSUME NEW j \in 1..(m - 1) PROVE s[j].age > Window
    <3>1. j \in 1..Len(s) /\ ~(m <= j)
      BY <1>1, <1>3
    <3>2. ~(s[j].age <= Window)
      BY <1>3, <3>1
    <3> QED
      BY <1>2, <3>1, <3>2, SpeedAssumption
  <2> QED
    BY <1>3, <2>1
<1> DEFINE k == CHOOSE k \in 1..Len(s) : P(k)
<1>5. k \in 1..Len(s) /\ P(k)
  BY <1>4
<1>6. Trim(s) = SubSeq(s, k, Len(s))
  BY DEF Trim
<1> HIDE DEF k
<1> QED
  BY <1>5, <1>6

LEMMA RollingInit ==
    ASSUME Init
    PROVE  RInv
<1>1. /\ downloads = <<>> /\ samples = <<>> /\ sinceSample = 0 /\ bytes = 0
      /\ Len(downloads) = 0 /\ Len(samples) = 0
  BY DEF Init
<1>2. SubSeq(<<>>, 1, 0) = <<>>
  BY SubSeqEmpty
<1> QED
  BY <1>1, <1>2, TotalOfNone DEF RInv

\* One more sample: e are all samples, d those before, n of them; t are those of
\* the last window, and the new one; g: the time since the one before it.
More(n, k, g, d, e, t) ==
    /\ d \in Seq(Sample) /\ Len(d) = n
    /\ e \in Seq(Sample) /\ Len(e) = n + 1 /\ e[n + 1].age = 0
    /\ \A i \in 1..n : e[i].age = Least(d[i].age + g, Window + 1)
    /\ \A i, j \in 1..n : i < j => d[j].age <= d[i].age
    /\ \A i \in 1..n : d[i].age <= Window <=> i > k
    /\ t \in Seq(Sample) /\ Len(t) = n - k + 1 /\ \A i \in 1..(n - k + 1) : t[i] = e[k + i]

\* From t, the first m - 1 samples are trimmed.
Kept(m, n, k, e, t) ==
    /\ Trim(t) = SubSeq(e, k + m, n + 1)
    /\ Len(Trim(t)) = n - k + 2 - m
    /\ \A i \in 1..(n + 1) : e[i].age <= Window <=> i > k + m - 1

LEMMA WindowOfMore ==
    ASSUME NEW n \in Nat, NEW k \in 0..n, NEW g \in Nat, NEW d, NEW e, NEW t,
           More(n, k, g, d, e, t)
    PROVE  /\ \A i, j \in 1..(n + 1) : i < j => e[j].age <= e[i].age
           /\ \E m \in 1..(n - k + 1) : Kept(m, n, k, e, t)
<1>1. Window \in Nat \ {0}
  BY SpeedAssumption
<1>2. /\ \A i \in 1..n : d[i] \in Sample
      /\ \A i \in 1..(n + 1) : e[i] \in Sample
      /\ \A i \in 1..(n - k + 1) : t[i] \in Sample
  BY ElementOfSeq DEF More
<1>3. /\ \A i \in 1..n : d[i].age \in 0..(Window + 1)
      /\ \A i \in 1..(n + 1) : e[i].age \in 0..(Window + 1)
  BY <1>2 DEF Sample
<1>4. ASSUME NEW i \in 1..(n + 1), NEW j \in 1..(n + 1), i < j PROVE e[j].age <= e[i].age
  <2>1. i \in 1..n
    BY <1>4
  <2>2. CASE j = n + 1
    <3>1. e[j].age = 0 /\ e[i].age \in 0..(Window + 1)
      BY <1>3, <2>2 DEF More
    <3> QED
      BY <1>1, <3>1
  <2>3. CASE j # n + 1
    <3>1. j \in 1..n
      BY <2>3
    <3>2. d[j].age <= d[i].age
      BY <1>4, <2>1, <3>1 DEF More
    <3>3. e[i].age = Least(d[i].age + g, Window + 1) /\ e[j].age = Least(d[j].age + g, Window + 1)
      BY <2>1, <3>1 DEF More
    <3>4. d[i].age \in Nat /\ d[j].age \in Nat
      BY <1>1, <1>3, <2>1, <3>1
    <3> QED
      BY <1>1, <3>2, <3>3, <3>4, LeastOrder
  <2> QED
    BY <2>2, <2>3
<1>5. ASSUME NEW i \in 1..k PROVE e[i].age > Window
  <2>1. i \in 1..n /\ ~(d[i].age <= Window)
    BY DEF More
  <2>2. e[i].age = Least(d[i].age + g, Window + 1) /\ d[i].age \in Nat
    BY <1>1, <1>3, <2>1 DEF More
  <2> QED
    BY <1>1, <2>1, <2>2 DEF Least
<1>6. PICK m \in 1..Len(t) :
          /\ Trim(t) = SubSeq(t, m, Len(t)) /\ t[m].age <= Window
          /\ \A j \in 1..(m - 1) : t[j].age > Window
  <2>1. Len(t) # 0 /\ t[Len(t)] = e[n + 1]
    <3>1. n - k + 1 \in 1..(n - k + 1) /\ k + (n - k + 1) = n + 1
      OBVIOUS
    <3> QED
      BY <3>1 DEF More
  <2>2. t[Len(t)].age <= Window
    BY <1>1, <2>1 DEF More
  <2>3. t \in Seq(Sample)
    BY DEF More
  <2> QED
    BY <2>1, <2>2, <2>3, TrimIs
<1>7. m \in 1..(n - k + 1) /\ Len(t) = n - k + 1
  BY <1>6 DEF More
<1>8. /\ SubSeq(t, m, n - k + 1) \in Seq(Sample) /\ Len(SubSeq(t, m, n - k + 1)) = n - k + 2 - m
      /\ \A i \in 1..(n - k + 2 - m) : SubSeq(t, m, n - k + 1)[i] = t[m + i - 1]
  <2>1. /\ n - k + 1 \in Int /\ m \in Int /\ m <= n - k + 1
        /\ (n - k + 1) - m + 1 = n - k + 2 - m
    BY <1>7
  <2>2. \A i \in m..(n - k + 1) : t[i] \in Sample
    BY <1>2, <1>7
  <2> QED
    BY <2>1, <2>2, SubSeqProperties
<1>9. /\ SubSeq(e, k + m, n + 1) \in Seq(Sample) /\ Len(SubSeq(e, k + m, n + 1)) = n - k + 2 - m
      /\ \A i \in 1..(n - k + 2 - m) : SubSeq(e, k + m, n + 1)[i] = e[k + m + i - 1]
  <2>1. /\ k + m \in Int /\ n + 1 \in Int /\ k + m <= n + 1
        /\ (n + 1) - (k + m) + 1 = n - k + 2 - m
    BY <1>7
  <2>2. \A i \in (k + m)..(n + 1) : e[i] \in Sample
    BY <1>2, <1>7
  <2> QED
    BY <2>1, <2>2, SubSeqProperties
<1>10. ASSUME NEW i \in 1..(n - k + 2 - m)
       PROVE  SubSeq(t, m, n - k + 1)[i] = SubSeq(e, k + m, n + 1)[i]
  <2>1. m + i - 1 \in 1..(n - k + 1) /\ k + (m + i - 1) = k + m + i - 1
    BY <1>7
  <2>2. t[m + i - 1] = e[k + (m + i - 1)]
    BY <2>1 DEF More
  <2> QED
    BY <1>8, <1>9, <2>1, <2>2
<1>11. SubSeq(t, m, n - k + 1) = SubSeq(e, k + m, n + 1)
  BY <1>8, <1>9, <1>10, SeqEqual
<1>12. ASSUME NEW i \in 1..(n + 1) PROVE e[i].age <= Window <=> i > k + m - 1
  <2>1. k + m \in 1..(n + 1) /\ e[k + m].age <= Window
    <3>1. k + m \in 1..(n + 1)
      BY <1>7
    <3> QED
      BY <1>6, <1>7, <3>1 DEF More
  <2>2. e[i].age \in Nat /\ e[k + m].age \in Nat
    BY <1>1, <1>3, <2>1
  <2>3. CASE i > k + m
    <3>1. e[i].age <= e[k + m].age
      BY <1>4, <2>1, <2>3
    <3> QED
      BY <1>1, <1>7, <2>1, <2>2, <2>3, <3>1
  <2>4. CASE i = k + m
    BY <1>7, <2>1, <2>4
  <2>5. CASE i < k + m
    <3>1. e[i].age > Window
      <4>1. CASE i <= k
        BY <1>5, <4>1
      <4>2. CASE i > k
        <5>1. i - k \in 1..(m - 1) /\ i - k \in 1..(n - k + 1) /\ k + (i - k) = i
          BY <1>7, <2>5, <4>2
        <5>2. t[i - k] = e[i] /\ t[i - k].age > Window
          BY <1>6, <5>1 DEF More
        <5> QED
          BY <5>2
      <4> QED
        BY <4>1, <4>2
    <3> QED
      BY <1>1, <1>7, <2>2, <2>5, <3>1
  <2> QED
    BY <1>7, <2>3, <2>4, <2>5
<1> QED
  <2>1. Kept(m, n, k, e, t)
    BY <1>6, <1>7, <1>8, <1>11, <1>12 DEF Kept
  <2> QED
    BY <1>4, <1>7, <2>1

LEMMA RollingRecord ==
    ASSUME RInv, NEW b \in Sizes, RecordSuccess(b)
    PROVE  RInv'
<1>1. PICK d : d = downloads
  OBVIOUS
<1>2. PICK n : n = Len(d)
  OBVIOUS
<1>3. PICK k : k = n - Len(samples)
  OBVIOUS
<1>4. PICK e : e = Taken(d, b)
  OBVIOUS
<1>5. PICK t : t = Taken(samples, b)
  OBVIOUS
<1>6. PICK g : g = sinceSample
  OBVIOUS
<1>7. /\ bytes' = bytes + b /\ samples' = Trim(t) /\ sinceSample' = 0 /\ downloads' = e
      /\ b \in Nat
  BY <1>1, <1>4, <1>5, SpeedAssumption DEF RecordSuccess
<1>8. /\ d \in Seq(Sample) /\ Len(samples) \in 0..n /\ samples = SubSeq(d, k + 1, n)
      /\ g \in Nat /\ bytes = Total(d)
      /\ \A i, j \in 1..n : i < j => d[j].age <= d[i].age
      /\ \A i \in 1..n : d[i].age <= Window <=> i > k
  BY <1>1, <1>2, <1>3, <1>6 DEF RInv
<1>9. n \in Nat /\ k \in 0..n /\ \A i \in 1..n : d[i] \in Sample
  BY <1>2, <1>3, <1>8, LenProperties, ElementOfSeq
<1>10. samples \in Seq(Sample) /\ Len(samples) = n - k /\ \A i \in 1..(n - k) : samples[i] = d[k + i]
  <2>1. k + 1 \in Int /\ n \in Int /\ n - (k + 1) + 1 = n - k
    BY <1>9
  <2>2. \A i \in (k + 1)..n : d[i] \in Sample
    BY <1>9
  <2>3. samples \in Seq(Sample) /\ \A i \in 1..(n - k) : samples[i] = d[k + 1 + i - 1]
    BY <1>8, <2>1, <2>2, SubSeqProperties
  <2>4. \A i \in 1..(n - k) : k + 1 + i - 1 = k + i
    BY <1>9
  <2>5. Len(samples) = n - k
    BY <1>3, <1>8, <1>9
  <2> QED
    BY <2>3, <2>4, <2>5
<1>11. /\ e \in Seq(Sample) /\ Len(e) = n + 1 /\ e[n + 1] = [bytes |-> b, age |-> 0]
       /\ \A i \in 1..n : e[i] = [bytes |-> d[i].bytes, age |-> Least(d[i].age + g, Window + 1)]
  BY <1>2, <1>4, <1>6, <1>7, <1>8, TakenIs
<1>12. /\ t \in Seq(Sample) /\ Len(t) = n - k + 1 /\ t[n - k + 1] = [bytes |-> b, age |-> 0]
       /\ \A i \in 1..(n - k) : t[i] = [bytes |-> samples[i].bytes,
                                        age |-> Least(samples[i].age + g, Window + 1)]
  <2>1. Len(samples) = n - k /\ samples \in Seq(Sample)
    BY <1>10
  <2>2. /\ t \in Seq(Sample) /\ Len(t) = Len(samples) + 1
        /\ t[Len(samples) + 1] = [bytes |-> b, age |-> 0]
        /\ \A i \in 1..Len(samples) : t[i] = [bytes |-> samples[i].bytes,
                                            age |-> Least(samples[i].age + g, Window + 1)]
    BY <1>5, <1>6, <1>7, <1>8, <2>1, TakenIs
  <2> QED
    BY <2>1, <2>2
<1>13. ASSUME NEW i \in 1..(n - k + 1) PROVE t[i] = e[k + i]
  <2>1. CASE i = n - k + 1
    <3>1. k + i = n + 1
      BY <1>9, <2>1
    <3> QED
      BY <1>11, <1>12, <2>1, <3>1
  <2>2. CASE i # n - k + 1
    <3>1. i \in 1..(n - k) /\ k + i \in 1..n
      BY <1>9, <2>2
    <3> QED
      BY <1>10, <1>11, <1>12, <3>1
  <2> QED
    BY <2>1, <2>2
<1>14. /\ \A i \in 1..n : e[i].age = Least(d[i].age + g, Window + 1) /\ e[i].bytes = d[i].bytes
       /\ e[n + 1].age = 0 /\ e[n + 1].bytes = b
  <2>1. ASSUME NEW i \in 1..n
        PROVE  e[i].age = Least(d[i].age + g, Window + 1) /\ e[i].bytes = d[i].bytes
    <3>1. e[i] = [bytes |-> d[i].bytes, age |-> Least(d[i].age + g, Window + 1)]
      BY <1>11
    <3> QED
      BY <3>1
  <2>2. e[n + 1] = [bytes |-> b, age |-> 0]
    BY <1>11
  <2> QED
    BY <2>1, <2>2
<1>15. Total(e) = bytes + b
  BY <1>2, <1>8, <1>11, <1>14, TotalOfMore
<1>16. More(n, k, g, d, e, t)
  BY <1>2, <1>8, <1>11, <1>12, <1>13, <1>14 DEF More
<1>17. \A i, j \in 1..(n + 1) : i < j => e[j].age <= e[i].age
  BY <1>8, <1>9, <1>16, WindowOfMore
<1>18. PICK m \in 1..(n - k + 1) : Kept(m, n, k, e, t)
  <2>1. n \in Nat /\ k \in 0..n /\ g \in Nat
    BY <1>8, <1>9
  <2> QED
    BY <1>16, <2>1, WindowOfMore
<1>19. /\ Len(downloads') = n + 1 /\ Len(samples') = n - k + 2 - m
       /\ Len(downloads') - Len(samples') = k + m - 1
       /\ Len(downloads') - Len(samples') + 1 = k + m
       /\ Len(samples') \in 0..Len(downloads')
  <2>1. Len(downloads') = n + 1 /\ Len(samples') = n - k + 2 - m
    BY <1>7, <1>11, <1>18 DEF Kept
  <2> QED
    BY <1>9, <2>1
<1>20. samples' = SubSeq(downloads', Len(downloads') - Len(samples') + 1, Len(downloads'))
  BY <1>7, <1>18, <1>19 DEF Kept
<1>21. \A i, j \in 1..Len(downloads') : i < j => downloads'[j].age <= downloads'[i].age
  BY <1>7, <1>17, <1>19
<1>22. \A i \in 1..Len(downloads') :
          downloads'[i].age <= Window <=> i > Len(downloads') - Len(samples')
  BY <1>7, <1>18, <1>19 DEF Kept
<1>23. sinceSample' \in Nat /\ bytes' = Total(downloads') /\ downloads' \in Seq(Sample)
  BY <1>7, <1>11, <1>15
<1> QED
  BY <1>19, <1>20, <1>21, <1>22, <1>23 DEF RInv

LEMMA RollingStep ==
    ASSUME RInv, [Next]_vars
    PROVE  RInv'
<1>1. CASE \E b \in Sizes : RecordSuccess(b)
  BY <1>1, RollingRecord
<1>2. CASE Tick
  <2>1. sinceSample' \in Nat
    BY <1>2, SpeedAssumption DEF Tick, Least, RInv
  <2> QED
    BY <1>2, <2>1 DEF Tick, RInv
<1>3. CASE UNCHANGED <<bytes, samples, sinceSample, downloads>>
  BY <1>3 DEF RInv
<1>4. ASSUME NEW w \in Workers,
             \/ Acquire(w) \/ Reuse(w) \/ Create(w) \/ Connected(w) \/ AcquireFails(w)
             \/ CancelAcquire(w) \/ GiveBack(w) \/ Abandon(w) \/ Outside(w) \/ Ramp(w)
      PROVE  UNCHANGED <<bytes, samples, sinceSample, downloads>>
  BY <1>4 DEF Acquire, Reuse, Create, Connected, AcquireFails, CancelAcquire, GiveBack, Abandon,
              Outside, Ramp, HandOut, countVars
<1>5. (\E d \in Penalties : Penalize(d)) \/ ClearPenalty \/ RecordFailure \/ UNCHANGED vars
         => UNCHANGED <<bytes, samples, sinceSample, downloads>>
  BY DEF Penalize, ClearPenalty, RecordFailure, countVars, vars
<1> QED
  BY <1>1, <1>2, <1>3, <1>4, <1>5 DEF Next

(* The speed is that of exactly the downloads of the window, for any window *)
(* and any downloads; it never counts more than all of them.                *)
THEOREM SpeedCorrect == FairSpec => []SpeedIsRolling
<1>1. ASSUME RInv PROVE SpeedIsRolling
  <2>1. PICK k : k = Len(downloads) - Len(samples)
    OBVIOUS
  <2>2. downloads \in Seq(Sample) /\ Len(samples) \in 0..Len(downloads)
    BY <1>1 DEF RInv
  <2>3. Len(downloads) \in Nat /\ DOMAIN downloads = 1..Len(downloads)
    BY <2>2, LenProperties
  <2>4. k \in 0..Len(downloads) /\ Len(samples) \in Int /\ Len(samples) = Len(downloads) - k
    BY <2>1, <2>2, <2>3
  <2>5. samples = SubSeq(downloads, k + 1, Len(downloads))
    BY <1>1, <2>1 DEF RInv
  <2>6. \A i \in 1..Len(downloads) : downloads[i].age <= Window <=> i > k
    BY <1>1, <2>1 DEF RInv
  <2>7. Total(samples) <= bytes /\ bytes \in Nat
    BY <1>1, <2>2, <2>4, <2>5, TotalOfLast DEF RInv
  <2>8. Speed[1] <= bytes /\ Speed[2] \in 1..Window
    <3>1. CASE Len(samples) < 2 \/ samples[1].age = 0
      BY <2>7, <3>1, SpeedAssumption DEF Speed
    <3>2. CASE ~(Len(samples) < 2) /\ samples[1].age # 0
      <4>1. samples[1] = downloads[k + 1] /\ k + 1 \in 1..Len(downloads)
        <5>1. k < Len(downloads)
          <6>1. \A x, y, z \in Int : x = y - z /\ ~(x < 2) => z < y
            OBVIOUS
          <6> QED
            BY <2>4, <2>3, <3>2, <6>1
        <5> QED
          BY <2>2, <2>4, <2>5, <5>1, FirstOfLast
      <4>2. samples[1].age <= Window /\ samples[1].age \in Nat
        <5>1. downloads[k + 1] \in Sample
          BY <2>2, <4>1, ElementOfSeq
        <5>2. downloads[k + 1].age <= Window
          <6>1. k + 1 > k
            BY <2>4, <2>3
          <6> QED
            BY <2>6, <4>1, <6>1
        <5> QED
          BY <4>1, <5>1, <5>2, SpeedAssumption DEF Sample
      <4>3. Speed[1] = Total(samples) /\ Speed[2] = samples[1].age
        BY <3>2 DEF Speed
      <4> QED
        BY <2>7, <3>2, <4>2, <4>3, SpeedAssumption
    <3> QED
      BY <3>1, <3>2
  <2> QED
    BY <2>1, <2>6, <2>8, <2>3, <2>5 DEF SpeedIsRolling
<1> QED
  BY <1>1, RollingInit, RollingStep, PTL DEF FairSpec
=============================================================================
