------------------------ MODULE ConnectionPoolProofs ------------------------
(***************************************************************************)
(* Proofs about the connection pool, for every number of callers,          *)
(* connections and permits: its types, the inductive invariant behind the  *)
(* safety properties of ConnectionPool, those properties, and that the     *)
(* pool implements SlotLimiter.                                            *)
(***************************************************************************)
EXTENDS ConnectionPool, FiniteSetTheorems, SequenceTheorems, TLAPS

-----------------------------------------------------------------------------
(* The inductive invariant                                                  *)

\* The semaphore's queue holds each waiting caller once, and only while there
\* is no permit to hand out.
QueueInv ==
    /\ \A i \in 1..Len(queue) : pc[queue[i]] = "waiting"
    /\ \A i, j \in 1..Len(queue) : queue[i] = queue[j] => i = j
    /\ queue # <<>> => permits = 0

\* A caller owns a connection exactly at the positions where the code does,
\* and every connection with an owner is in use.
OwnerInv ==
    /\ \A c \in Callers :
          conn[c] # NoConn <=> pc[c] \in {"pinging", "connecting", "out"}
    /\ \A c \in Callers : conn[c] # NoConn => state[conn[c]] # "Free"
    /\ \A i \in 1..Len(idle) : state[idle[i]] = "Ready"
    /\ \A x \in closing : state[x] # "Free"

\* A connection is in one place: one slot of the stack, one caller or one
\* close_idle().  The code has this from Rust's moves.
AloneInv ==
    /\ \A i, j \in 1..Len(idle) : idle[i] = idle[j] => i = j
    /\ \A c, d \in Callers : conn[c] = conn[d] /\ conn[c] # NoConn => c = d
    /\ \A c \in Callers, i \in 1..Len(idle) : conn[c] # idle[i]
    /\ \A x \in closing :
          /\ \A i \in 1..Len(idle) : x # idle[i]
          /\ \A c \in Callers : x # conn[c]

\* The drop guard is armed on the connections that are checked out, no others.
GuardInv ==
    /\ \A c \in Callers : pc[c] = "out" => conn[c] \in armed
    /\ \A x \in armed : \E c \in Callers : pc[c] = "out" /\ conn[c] = x

IInv ==
    /\ TypeOK /\ QueueInv /\ OwnerInv /\ AloneInv /\ GuardInv
    /\ SlotsConserved /\ WithinLimit

-----------------------------------------------------------------------------
(* Leaving the queue                                                        *)

\* Without(q, k) is q with its k-th element taken out, the order kept.
LEMMA WithoutProperties ==
    ASSUME NEW S, NEW q \in Seq(S), NEW k \in 1..Len(q)
    PROVE  /\ Without(q, k) \in Seq(S)
           /\ Len(Without(q, k)) = Len(q) - 1
           /\ \A i \in 1..(Len(q) - 1) :
                 Without(q, k)[i] = q[IF i < k THEN i ELSE i + 1]
<1> DEFINE a == SubSeq(q, 1, k - 1)
           b == SubSeq(q, k + 1, Len(q))
<1>1. Len(q) \in Nat /\ k \in Nat /\ 1 <= k /\ k <= Len(q)
  BY LenProperties
<1>2. /\ a \in Seq(S)
      /\ Len(a) = k - 1
      /\ \A i \in 1..(k - 1) : a[i] = q[i]
  BY <1>1, SubSeqProperties, ElementOfSeq
<1>3. /\ b \in Seq(S)
      /\ Len(b) = Len(q) - k
      /\ \A i \in 1..(Len(q) - k) : b[i] = q[k + i]
  BY <1>1, SubSeqProperties, ElementOfSeq
<1> HIDE DEF a, b
<1>4. Without(q, k) = a \o b
  BY DEF Without, a, b
<1>5. /\ a \o b \in Seq(S)
      /\ Len(a \o b) = Len(a) + Len(b)
      /\ \A i \in 1..(Len(a) + Len(b)) :
            (a \o b)[i] = IF i <= Len(a) THEN a[i] ELSE b[i - Len(a)]
  BY <1>2, <1>3, ConcatProperties
<1>6. ASSUME NEW i \in 1..(Len(q) - 1)
      PROVE  (a \o b)[i] = q[IF i < k THEN i ELSE i + 1]
  <2>1. CASE i < k
    BY <1>1, <1>2, <1>3, <1>5, <2>1
  <2>2. CASE ~(i < k)
    <3>1. /\ i - (k - 1) \in 1..(Len(q) - k)
          /\ k + (i - (k - 1)) = i + 1
      BY <1>1, <2>2
    <3>2. (a \o b)[i] = b[i - (k - 1)]
      BY <1>1, <1>2, <1>3, <1>5, <2>2
    <3>3. b[i - (k - 1)] = q[k + (i - (k - 1))]
      BY <1>3, <3>1
    <3>4. QED
      BY <2>2, <3>1, <3>2, <3>3
  <2>3. QED
    BY <2>1, <2>2
<1>7. QED
  BY <1>1, <1>2, <1>3, <1>4, <1>5, <1>6

\* Popping the last element of a stack.
LEMMA PopProperties ==
    ASSUME NEW S, NEW q \in Seq(S), q # <<>>
    PROVE  /\ Len(q) \in 1..Len(q)
           /\ q[Len(q)] \in S
           /\ Len(SubSeq(q, 1, Len(q) - 1)) = Len(q) - 1
           /\ \A i \in 1..(Len(q) - 1) :
                 /\ i \in 1..Len(q)
                 /\ i # Len(q)
                 /\ SubSeq(q, 1, Len(q) - 1)[i] = q[i]
<1>1. Len(q) \in Nat \ {0}
  BY EmptySeq
<1>2. \A i \in 1..(Len(q) - 1) : q[i] \in S
  BY <1>1, ElementOfSeq
<1>3. Len(q) \in 1..Len(q) /\ q[Len(q)] \in S
  BY <1>1, ElementOfSeq
<1>4. /\ Len(SubSeq(q, 1, Len(q) - 1)) =
              IF 1 <= Len(q) - 1 THEN (Len(q) - 1) - 1 + 1 ELSE 0
      /\ \A i \in 1..((Len(q) - 1) - 1 + 1) :
            SubSeq(q, 1, Len(q) - 1)[i] = q[1 + i - 1]
  BY <1>1, <1>2, SubSeqProperties
<1>5. /\ Len(SubSeq(q, 1, Len(q) - 1)) = Len(q) - 1
      /\ (Len(q) - 1) - 1 + 1 = Len(q) - 1
  <2>1. (Len(q) - 1) - 1 + 1 = Len(q) - 1
    BY <1>1
  <2>2. \A n \in Nat \ {0} : (IF 1 <= n - 1 THEN (n - 1) - 1 + 1 ELSE 0) = n - 1
    OBVIOUS
  <2>3. QED
    BY <1>1, <1>4, <2>1, <2>2
<1>6. ASSUME NEW i \in 1..(Len(q) - 1)
      PROVE  /\ i \in 1..Len(q)
             /\ i # Len(q)
             /\ 1 + i - 1 = i
             /\ SubSeq(q, 1, Len(q) - 1)[i] = q[i]
  <2>1. i \in 1..Len(q) /\ i # Len(q) /\ 1 + i - 1 = i
    BY <1>1
  <2>2. SubSeq(q, 1, Len(q) - 1)[i] = q[1 + i - 1]
    BY <1>4, <1>5
  <2>3. QED
    BY <2>1, <2>2
<1>7. QED
  BY <1>3, <1>5, <1>6

\* Pushing an element on a stack.
LEMMA PushProperties ==
    ASSUME NEW S, NEW q \in Seq(S), NEW x \in S
    PROVE  /\ Len(Append(q, x)) = Len(q) + 1
           /\ \A i \in 1..Len(Append(q, x)) :
                 \/ i = Len(q) + 1 /\ Append(q, x)[i] = x
                 \/ i \in 1..Len(q) /\ Append(q, x)[i] = q[i]
<1>1. Len(q) \in Nat
  BY LenProperties
<1>2. QED
  BY <1>1, AppendProperties

-----------------------------------------------------------------------------
(* add_permits, and the steps that drop a connection                        *)

\* One permit more, and caller c gone to position p.
OneFreed(c, p) ==
    \/ /\ queue = <<>>
       /\ queue' = <<>>
       /\ permits' = permits + 1
       /\ pc' = [pc EXCEPT ![c] = p]
    \/ /\ queue # <<>>
       /\ queue' = Tail(queue)
       /\ permits' = permits
       /\ pc' = [pc EXCEPT ![c] = p, ![Head(queue)] = "granted"]

\* add_permits(1) either grows the semaphore or wakes the oldest waiter.
LEMMA AddOne ==
    ASSUME TypeOK, QueueInv, NEW c \in Callers, NEW p \in PCs,
           pc[c] # "waiting", AddPermits(1, [pc EXCEPT ![c] = p])
    PROVE  OneFreed(c, p)
<1>1. CASE queue = <<>>
  <2>1. Len(queue) = 0 /\ {queue[i] : i \in 1..0} = {}
    BY <1>1
  <2>2. pc' = [d \in Callers |-> [pc EXCEPT ![c] = p][d]]
    BY <2>1 DEF AddPermits
  <2>3. pc' = [pc EXCEPT ![c] = p]
    BY <2>2 DEF TypeOK
  <2>4. permits' = permits + (1 - 0) /\ queue' = SubSeq(queue, 1, 0)
    BY <2>1 DEF AddPermits
  <2>5. permits' = permits + 1 /\ queue' = <<>>
    BY <1>1, <2>4 DEF TypeOK
  <2>6. QED
    BY <1>1, <2>3, <2>5 DEF OneFreed
<1>2. CASE queue # <<>>
  <2>1. Len(queue) \in Nat /\ Len(queue) >= 1
    BY <1>2 DEF TypeOK
  <2>2. {queue[i] : i \in 1..1} = {Head(queue)}
    BY <1>2, <2>1 DEF TypeOK
  <2>3. pc' = [d \in Callers |-> IF d \in {Head(queue)} THEN "granted"
                                 ELSE [pc EXCEPT ![c] = p][d]]
    BY <2>1, <2>2 DEF AddPermits
  <2>4. Head(queue) \in Callers /\ Head(queue) # c
    BY <1>2, <2>1 DEF TypeOK, QueueInv
  <2>5. pc' = [pc EXCEPT ![c] = p, ![Head(queue)] = "granted"]
    BY <2>3, <2>4 DEF TypeOK
  <2>6. permits' = permits /\ queue' = Tail(queue)
    BY <1>2, <2>1 DEF AddPermits, TypeOK
  <2>7. QED
    BY <1>2, <2>5, <2>6 DEF OneFreed
<1>3. QED
  BY <1>1, <1>2

\* add_permits is not called at all: nobody wakes.
LEMMA AddNone ==
    ASSUME TypeOK, NEW c \in Callers, NEW p \in PCs,
           AddPermits(0, [pc EXCEPT ![c] = p])
    PROVE  /\ permits' = permits
           /\ queue' = queue
           /\ pc' = [pc EXCEPT ![c] = p]
<1>1. Len(queue) \in Nat /\ {queue[i] : i \in 1..0} = {}
  BY DEF TypeOK
<1>2. pc' = [d \in Callers |-> [pc EXCEPT ![c] = p][d]]
  BY <1>1 DEF AddPermits
<1>3. permits' = permits + (0 - 0) /\ queue' = SubSeq(queue, 1, Len(queue))
  BY <1>1 DEF AddPermits
<1>4. permits' = permits /\ queue' = queue
  BY <1>1, <1>3 DEF TypeOK
<1>5. pc' = [pc EXCEPT ![c] = p]
  BY <1>2 DEF TypeOK
<1>6. QED
  BY <1>4, <1>5

\* Whatever ends a checkout or an acquire() that owns a permit, exactly one
\* permit is freed: by the owned permit, the guard or the explicit call.
FreedStep(c) ==
    /\ pc[c] \in {"granted", "pinging", "ramping", "connecting", "out"}
    /\ OneFreed(c, "away")
    /\ conn' = [conn EXCEPT ![c] = NoConn]
    /\ state' = [x \in Conns |-> IF x = conn[c] THEN "Free" ELSE state[x]]
    /\ stale' = stale \ {conn[c]}
    /\ armed' = armed \ {conn[c]}
    /\ UNCHANGED <<idle, closing>>

LEMMA FreedStepEnough ==
    ASSUME IInv, NEW c \in Callers,
           \/ ConnectFail(c) \/ Cancel(c) \/ Discard(c) \/ Abandon(c)
           \/ Release(c) /\ ~Usable(conn[c])
    PROVE  FreedStep(c)
<1>1. pc[c] = "out" => GuardPermits(conn[c]) = 1
  BY DEF IInv, GuardInv, GuardPermits
<1>2. pc[c] # "out" => GuardPermits(conn[c]) = 0
  BY NoConnAssumption DEF IInv, GuardInv, AloneInv, TypeOK, GuardPermits
<1>3. /\ pc[c] \in {"granted", "pinging", "ramping", "connecting", "out"}
      /\ DropConn(c, 1)
  BY <1>1, <1>2 DEF ConnectFail, Cancel, Discard, Abandon, Release
<1>4. AddPermits(1, [pc EXCEPT ![c] = "away"])
  BY <1>3 DEF DropConn
<1>5. OneFreed(c, "away")
  BY <1>3, <1>4, AddOne DEF IInv, PCs
<1>6. QED
  BY <1>3, <1>5 DEF DropConn, FreedStep

\* A failed ping drops the popped connection and frees nothing: its guard is
\* not armed, and the owned permit goes on to the new connection.
LEMMA PingFailFrees ==
    ASSUME IInv, NEW c \in Callers, PingFail(c)
    PROVE  /\ permits' = permits
           /\ queue' = queue
           /\ pc' = [pc EXCEPT ![c] = "ramping"]
           /\ conn[c] \in Conns
           /\ conn[c] \notin armed
<1>1. pc[c] = "pinging" /\ conn[c] \in Conns
  BY NoConnAssumption DEF PingFail, IInv, OwnerInv, TypeOK
<1>2. conn[c] \notin armed
  BY <1>1, NoConnAssumption DEF IInv, GuardInv, AloneInv, TypeOK
<1>3. AddPermits(0, [pc EXCEPT ![c] = "ramping"])
  BY <1>2 DEF PingFail, GuardPermits
<1>4. QED
  BY <1>1, <1>2, <1>3, AddNone DEF IInv, PCs

\* The half of release() that parks the connection, and add_permits after it.
Park(c) == Release(c) /\ Usable(conn[c])

Unparked(c) ==
    /\ pc[c] = "parked"
    /\ OneFreed(c, "away")
    /\ UNCHANGED <<conn, idle, armed, state, stale, closing>>

\* Every step is one of these; the proofs below have one case for each.
LEMMA NextCases ==
    ASSUME IInv, Next
    PROVE  \/ \E c \in Callers :
                 \/ Acquire(c) \/ LeaveQueue(c) \/ TakeIdle(c) \/ NoIdle(c)
                 \/ PingOk(c) \/ PingFail(c) \/ StartConnect(c) \/ ConnectOk(c)
                 \/ Use(c) \/ Park(c) \/ Unparked(c) \/ FreedStep(c)
           \/ \E x \in Conns : Age(x) \/ QuitOne(x)
           \/ CloseIdle
<1>1. ASSUME NEW c \in Callers, ReturnPermit(c) PROVE Unparked(c)
  <2>1. AddPermits(1, [pc EXCEPT ![c] = "away"]) /\ pc[c] = "parked"
    BY <1>1 DEF ReturnPermit
  <2>2. OneFreed(c, "away")
    BY <2>1, AddOne DEF IInv, PCs
  <2>3. QED
    BY <1>1, <2>1, <2>2 DEF ReturnPermit, Unparked
<1>2. ASSUME NEW c \in Callers, Release(c) PROVE Park(c) \/ FreedStep(c)
  BY <1>2, FreedStepEnough DEF Park
<1>3. QED
  BY <1>1, <1>2, FreedStepEnough
  DEF Next, CallerStep, Progress, GiveBack

-----------------------------------------------------------------------------
(* Types                                                                    *)

\* What OneFreed leaves typed.
LEMMA FreedType ==
    ASSUME TypeOK, NEW c \in Callers, OneFreed(c, "away")
    PROVE  /\ pc' \in [Callers -> PCs]
           /\ permits' \in Nat
           /\ queue' \in Seq(Callers)
<1>1. CASE queue = <<>>
  BY <1>1 DEF TypeOK, OneFreed, PCs
<1>2. CASE queue # <<>>
  <2>1. Head(queue) \in Callers /\ Tail(queue) \in Seq(Callers)
    BY <1>2 DEF TypeOK
  <2>2. QED
    BY <1>2, <2>1 DEF TypeOK, OneFreed, PCs
<1>3. QED
  BY <1>1, <1>2

LEMMA TypeStep ==
    ASSUME IInv, Next
    PROVE  TypeOK'
<1> USE DEF TypeOK, PCs, ConnStates
<1>0. TypeOK
  BY DEF IInv
<1>1. ASSUME NEW c \in Callers, Acquire(c) PROVE TypeOK'
  <2>1. CASE permits > 0
    BY <1>0, <1>1, <2>1 DEF Acquire
  <2>2. CASE ~(permits > 0)
    <3>1. Append(queue, c) \in Seq(Callers)
      BY <1>0
    <3>2. QED
      BY <1>0, <1>1, <2>2, <3>1 DEF Acquire
  <2>3. QED
    BY <2>1, <2>2
<1>2. ASSUME NEW c \in Callers, LeaveQueue(c) PROVE TypeOK'
  <2>1. PICK i \in 1..Len(queue) : queue' = Without(queue, i)
    BY <1>2 DEF LeaveQueue
  <2>2. queue' \in Seq(Callers)
    BY <1>0, <2>1, WithoutProperties
  <2>3. QED
    BY <1>0, <1>2, <2>2 DEF LeaveQueue
<1>3. ASSUME NEW c \in Callers, TakeIdle(c) PROVE TypeOK'
  <2>1. idle # <<>> /\ idle \in Seq(Conns) /\ Len(idle) \in Nat \ {0}
    BY <1>0, <1>3 DEF TakeIdle, Fresh, Popped, ArmPopped
  <2>2. idle[Len(idle)] \in Conns /\ idle' \in Seq(Conns)
    BY <2>1, <1>3 DEF TakeIdle, Fresh, Popped, ArmPopped
  <2>3. QED
    BY <1>0, <1>3, <2>2 DEF TakeIdle, Fresh, Popped, ArmPopped
<1>4. ASSUME NEW c \in Callers, NoIdle(c) PROVE TypeOK'
  BY <1>0, <1>4 DEF NoIdle
<1>5. ASSUME NEW c \in Callers, PingOk(c) PROVE TypeOK'
  <2>1. conn[c] \in Conns
    BY <1>0, <1>5, NoConnAssumption DEF PingOk, IInv, OwnerInv
  <2>2. QED
    BY <1>0, <1>5, <2>1 DEF PingOk
<1>6. ASSUME NEW c \in Callers, PingFail(c) PROVE TypeOK'
  <2>1. /\ permits' = permits
        /\ queue' = queue
        /\ pc' = [pc EXCEPT ![c] = "ramping"]
        /\ conn[c] \in Conns
    BY <1>6, PingFailFrees
  <2>2. QED
    BY <1>0, <1>6, <2>1 DEF PingFail
<1>7. ASSUME NEW c \in Callers, StartConnect(c) PROVE TypeOK'
  BY <1>0, <1>7 DEF StartConnect
<1>8. ASSUME NEW c \in Callers, ConnectOk(c) PROVE TypeOK'
  <2>1. conn[c] \in Conns
    BY <1>0, <1>8, NoConnAssumption DEF ConnectOk, IInv, OwnerInv
  <2>2. QED
    BY <1>0, <1>8, <2>1 DEF ConnectOk
<1>9. ASSUME NEW c \in Callers, Use(c) PROVE TypeOK'
  BY <1>0, <1>9 DEF Use
<1>10. ASSUME NEW c \in Callers, Park(c) PROVE TypeOK'
  <2>1. conn[c] \in Conns
    BY <1>0, <1>10, NoConnAssumption DEF Park, Release, IInv, OwnerInv
  <2>2. Append(idle, conn[c]) \in Seq(Conns)
    BY <1>0, <2>1
  <2>3. QED
    BY <1>0, <1>10, <2>2 DEF Park, Release
<1>11. ASSUME NEW c \in Callers, Unparked(c) PROVE TypeOK'
  BY <1>0, <1>11, FreedType DEF Unparked
<1>12. ASSUME NEW c \in Callers, FreedStep(c) PROVE TypeOK'
  BY <1>0, <1>12, FreedType DEF FreedStep
<1>13. ASSUME NEW x \in Conns, Age(x) \/ QuitOne(x) PROVE TypeOK'
  BY <1>0, <1>13 DEF Age, QuitOne
<1>14. ASSUME CloseIdle PROVE TypeOK'
  <2>1. Parked \subseteq Conns
    BY <1>0 DEF Parked
  <2>2. QED
    BY <1>0, <1>14, <2>1 DEF CloseIdle
<1>15. QED
  BY <1>1, <1>2, <1>3, <1>4, <1>5, <1>6, <1>7, <1>8, <1>9, <1>10, <1>11,
     <1>12, <1>13, <1>14, NextCases

-----------------------------------------------------------------------------
(* The queue of the semaphore                                               *)

\* A freed permit goes to the head of the queue, the rest keep waiting.
LEMMA FreedQueue ==
    ASSUME TypeOK, QueueInv, NEW c \in Callers, pc[c] # "waiting",
           OneFreed(c, "away")
    PROVE  QueueInv'
<1>1. CASE queue = <<>>
  BY <1>1 DEF OneFreed, QueueInv
<1>2. CASE queue # <<>>
  <2>1. /\ queue \in Seq(Callers) /\ Len(queue) \in Nat \ {0}
        /\ Head(queue) = queue[1]
        /\ queue' = Tail(queue) /\ Len(queue') = Len(queue) - 1
    BY <1>2 DEF TypeOK, OneFreed
  <2>2. \A i \in 1..Len(queue') : queue'[i] = queue[i + 1]
    BY <2>1
  <2>3. ASSUME NEW i \in 1..Len(queue') PROVE pc'[queue'[i]] = "waiting"
    <3>1. /\ i + 1 \in 1..Len(queue) /\ 1 \in 1..Len(queue)
          /\ queue[i + 1] # queue[1]
          /\ queue[i + 1] \in Callers
          /\ pc[queue[i + 1]] = "waiting"
      BY <2>1, <2>3 DEF QueueInv
    <3>2. pc' = [pc EXCEPT ![c] = "away", ![Head(queue)] = "granted"]
      BY <1>2 DEF OneFreed
    <3>3. QED
      BY <2>1, <2>2, <3>1, <3>2 DEF TypeOK
  <2>4. ASSUME NEW i \in 1..Len(queue'), NEW j \in 1..Len(queue'),
               queue'[i] = queue'[j]
        PROVE  i = j
    <3>1. i + 1 \in 1..Len(queue) /\ j + 1 \in 1..Len(queue)
      BY <2>1
    <3>2. i + 1 = j + 1
      BY <2>2, <2>4, <3>1 DEF QueueInv
    <3>3. QED
      BY <3>2
  <2>5. permits' = 0
    BY <1>2 DEF OneFreed, QueueInv
  <2>6. QED
    BY <2>3, <2>4, <2>5 DEF QueueInv
<1>3. QED
  BY <1>1, <1>2

\* A step that leaves the semaphore alone and moves a caller that is not queued.
LEMMA MoveQueue ==
    ASSUME TypeOK, QueueInv, NEW c \in Callers, pc[c] # "waiting",
           NEW p \in PCs, pc' = [pc EXCEPT ![c] = p],
           permits' = permits, queue' = queue
    PROVE  QueueInv'
<1>1. \A i \in 1..Len(queue) : queue[i] \in Callers /\ queue[i] # c
  BY DEF TypeOK, QueueInv
<1>2. QED
  BY <1>1 DEF TypeOK, QueueInv

LEMMA QueueStep ==
    ASSUME IInv, Next
    PROVE  QueueInv'
<1>0. TypeOK /\ QueueInv
  BY DEF IInv
<1>1. ASSUME NEW c \in Callers, Acquire(c) PROVE QueueInv'
  <2>1. CASE permits > 0
    <3>1. queue = <<>> /\ queue' = <<>>
      BY <1>0, <1>1, <2>1 DEF Acquire, QueueInv
    <3>2. QED
      BY <3>1 DEF QueueInv
  <2>2. CASE ~(permits > 0)
    <3>1. /\ permits' = 0
          /\ queue' = Append(queue, c)
          /\ pc' = [pc EXCEPT ![c] = "waiting"]
          /\ Len(queue') = Len(queue) + 1
          /\ queue'[Len(queue) + 1] = c
          /\ \A i \in 1..Len(queue) : queue'[i] = queue[i] /\ queue[i] \in Callers
      <4>1. /\ permits' = 0
            /\ queue' = Append(queue, c)
            /\ pc' = [pc EXCEPT ![c] = "waiting"]
            /\ queue \in Seq(Callers)
        BY <1>0, <1>1, <2>2 DEF Acquire, TypeOK
      <4>2. QED
        BY <4>1, AppendProperties, ElementOfSeq
    <3>2. \A i \in 1..Len(queue) : queue[i] # c
      BY <1>0, <1>1 DEF Acquire, QueueInv
    <3>3. Len(queue) \in Nat /\ pc \in [Callers -> PCs]
      BY <1>0 DEF TypeOK
    <3>4. \A i \in 1..Len(queue') : i \in 1..Len(queue) \/ i = Len(queue) + 1
      BY <3>1, <3>3
    <3>5. \A i \in 1..Len(queue') : pc'[queue'[i]] = "waiting"
      BY <1>0, <3>1, <3>3, <3>4 DEF QueueInv
    <3>6. \A i, j \in 1..Len(queue') : queue'[i] = queue'[j] => i = j
      BY <1>0, <3>1, <3>2, <3>3, <3>4 DEF QueueInv
    <3>7. QED
      BY <3>1, <3>5, <3>6 DEF QueueInv
  <2>3. QED
    BY <2>1, <2>2
<1>2. ASSUME NEW c \in Callers, LeaveQueue(c) PROVE QueueInv'
  <2>1. PICK k \in 1..Len(queue) : queue[k] = c /\ queue' = Without(queue, k)
    BY <1>2 DEF LeaveQueue
  <2> DEFINE old(i) == IF i < k THEN i ELSE i + 1
  <2>2. queue \in Seq(Callers) /\ Len(queue) \in Nat /\ k \in 1..Len(queue)
    BY <1>0 DEF TypeOK
  <2>3. Len(queue') = Len(queue) - 1
    BY <2>1, <2>2, WithoutProperties
  <2>4. \A i \in 1..Len(queue') : /\ old(i) \in 1..Len(queue)
                                  /\ old(i) # k
                                  /\ queue'[i] = queue[old(i)]
    <3>1. \A i \in 1..(Len(queue) - 1) :
             /\ old(i) \in 1..Len(queue)
             /\ old(i) # k
      BY <2>2
    <3>2. \A i \in 1..(Len(queue) - 1) : queue'[i] = queue[old(i)]
      BY <2>1, <2>2, WithoutProperties
    <3>3. QED
      BY <2>3, <3>1, <3>2
  <2>5. \A i \in 1..Len(queue') : pc'[queue'[i]] = "waiting"
    <3>1. \A i \in 1..Len(queue) : i # k => queue[i] # c /\ queue[i] \in Callers
      BY <1>0, <2>1, <2>2 DEF QueueInv
    <3>2. pc' = [pc EXCEPT ![c] = "away"]
      BY <1>2 DEF LeaveQueue
    <3>3. QED
      BY <1>0, <2>4, <3>1, <3>2 DEF QueueInv, TypeOK
  <2>6. ASSUME NEW i \in 1..Len(queue'), NEW j \in 1..Len(queue'),
               queue'[i] = queue'[j]
        PROVE  i = j
    <3>1. old(i) = old(j)
      BY <1>0, <2>4, <2>6 DEF QueueInv
    <3>2. QED
      BY <2>2, <2>3, <3>1
  <2>7. permits' = permits /\ queue # <<>>
    BY <1>2, <2>2 DEF LeaveQueue
  <2>8. QED
    BY <1>0, <2>5, <2>6, <2>7 DEF QueueInv
<1>3. ASSUME NEW c \in Callers,
             \/ TakeIdle(c) \/ NoIdle(c) \/ PingOk(c) \/ StartConnect(c)
             \/ ConnectOk(c) \/ Park(c)
      PROVE  QueueInv'
  BY <1>0, <1>3, MoveQueue
  DEF TakeIdle, Fresh, Popped, ArmPopped, NoIdle, PingOk, StartConnect, ConnectOk, Park, Release, PCs
<1>4. ASSUME NEW c \in Callers, PingFail(c) PROVE QueueInv'
  <2>1. pc[c] # "waiting"
    BY <1>4 DEF PingFail
  <2>2. QED
    BY <1>0, <1>4, <2>1, PingFailFrees, MoveQueue DEF PCs
<1>5. ASSUME NEW c \in Callers, Unparked(c) \/ FreedStep(c) PROVE QueueInv'
  BY <1>0, <1>5, FreedQueue DEF Unparked, FreedStep
<1>6. ASSUME \/ \E c \in Callers : Use(c)
             \/ \E x \in Conns : Age(x) \/ QuitOne(x)
             \/ CloseIdle
      PROVE  QueueInv'
  BY <1>0, <1>6 DEF Use, Age, QuitOne, CloseIdle, QueueInv
<1>7. QED
  BY <1>1, <1>2, <1>3, <1>4, <1>5, <1>6, NextCases

-----------------------------------------------------------------------------
(* Who owns which connection                                                *)

\* A caller that wakes owns nothing, so OneFreed moves owners only at c.
LEMMA FreedPositions ==
    ASSUME TypeOK, QueueInv, NEW c \in Callers, pc[c] # "waiting",
           OneFreed(c, "away"), NEW d \in Callers
    PROVE  /\ d = c => pc'[d] = "away"
           /\ d # c => \/ pc'[d] = pc[d]
                       \/ pc[d] = "waiting" /\ pc'[d] = "granted"
<1>1. CASE queue = <<>>
  BY <1>1 DEF OneFreed, TypeOK
<1>2. CASE queue # <<>>
  <2>1. /\ Head(queue) = queue[1]
        /\ 1 \in 1..Len(queue)
        /\ queue[1] \in Callers
    BY <1>2 DEF TypeOK
  <2>2. pc[Head(queue)] = "waiting" /\ Head(queue) # c
    BY <2>1 DEF QueueInv
  <2>3. QED
    BY <1>2, <2>1, <2>2 DEF OneFreed, TypeOK
<1>3. QED
  BY <1>1, <1>2

LEMMA OwnerStep ==
    ASSUME IInv, Next
    PROVE  OwnerInv'
<1>0. TypeOK /\ QueueInv /\ OwnerInv /\ AloneInv /\ TypeOK'
  BY TypeStep DEF IInv
<1> USE DEF OwnerInv, AloneInv, TypeOK
<1>1. ASSUME NEW c \in Callers, Acquire(c) \/ LeaveQueue(c) \/ NoIdle(c)
      PROVE  OwnerInv'
  <2>1. CASE Acquire(c)
    BY <1>0, <2>1 DEF Acquire
  <2>2. CASE LeaveQueue(c)
    BY <1>0, <2>2 DEF LeaveQueue
  <2>3. CASE NoIdle(c)
    BY <1>0, <2>3 DEF NoIdle
  <2> QED
    BY <1>1, <2>1, <2>2, <2>3
<1>2. ASSUME NEW c \in Callers, TakeIdle(c) PROVE OwnerInv'
  <2> DEFINE x == idle[Len(idle)]
  <2>1. /\ Len(idle) \in 1..Len(idle)
        /\ x \in Conns /\ state[x] = "Ready" /\ x # NoConn
    BY <1>0, <1>2, NoConnAssumption DEF TakeIdle, Fresh, Popped, ArmPopped
  <2>2. /\ pc[c] = "granted"
        /\ pc' = [pc EXCEPT ![c] = IF x \in stale THEN "pinging" ELSE "out"]
        /\ conn' = [conn EXCEPT ![c] = x]
        /\ state' = [state EXCEPT ![x] = IF x \in stale THEN "Busy" ELSE "Ready"]
        /\ idle' = SubSeq(idle, 1, Len(idle) - 1)
        /\ closing' = closing
    BY <1>2, <2>1 DEF TakeIdle, Fresh, Popped, ArmPopped, Usable
  <2>3. /\ Len(idle') = Len(idle) - 1
        /\ \A i \in 1..Len(idle') : i \in 1..Len(idle) /\ idle'[i] = idle[i] /\ idle[i] # x
    <3>1. idle # <<>>
      BY <1>2 DEF TakeIdle, Fresh, Popped, ArmPopped
    <3>2. /\ Len(idle') = Len(idle) - 1
          /\ \A i \in 1..(Len(idle) - 1) :
                i \in 1..Len(idle) /\ i # Len(idle) /\ idle'[i] = idle[i]
      <4>1. idle \in Seq(Conns) /\ idle' = SubSeq(idle, 1, Len(idle) - 1)
        BY <1>0, <2>2
      <4>2. QED
        BY <3>1, <4>1, PopProperties
    <3>3. Len(idle) \in Nat \ {0}
      BY <1>0, <3>1
    <3>4. ASSUME NEW i \in 1..(Len(idle) - 1) PROVE idle[i] # x
      BY <1>0, <3>2, <3>3
    <3>5. QED
      BY <3>2, <3>4
  <2> HIDE DEF x
  <2>4. \A i \in 1..Len(idle') : state'[idle'[i]] = "Ready"
    BY <1>0, <2>1, <2>2, <2>3
  <2>5. \A y \in closing' : state'[y] # "Free"
    BY <1>0, <2>1, <2>2
  <2>6. \A d \in Callers : conn'[d] # NoConn => state'[conn'[d]] # "Free"
    BY <1>0, <2>1, <2>2
  <2>7. \A d \in Callers :
           conn'[d] # NoConn <=> pc'[d] \in {"pinging", "connecting", "out"}
    BY <1>0, <2>1, <2>2
  <2>8. QED
    BY <2>4, <2>5, <2>6, <2>7
<1>3. ASSUME NEW c \in Callers, PingOk(c) \/ ConnectOk(c) PROVE OwnerInv'
  <2>1. /\ conn[c] \in Conns
        /\ pc[c] \in {"pinging", "connecting"}
        /\ pc' = [pc EXCEPT ![c] = "out"]
        /\ state' = [state EXCEPT ![conn[c]] = "Ready"]
        /\ UNCHANGED <<conn, idle, closing>>
    BY <1>0, <1>3, NoConnAssumption DEF PingOk, ConnectOk
  <2>2. QED
    BY <1>0, <2>1
<1>4. ASSUME NEW c \in Callers, Use(c) PROVE OwnerInv'
  <2>1. conn[c] \in Conns /\ conn[c] # NoConn
    BY <1>0, <1>4, NoConnAssumption DEF Use
  <2>2. QED
    BY <1>0, <1>4, <2>1 DEF Use
<1>5. ASSUME NEW c \in Callers, StartConnect(c) PROVE OwnerInv'
  <2>1. PICK x \in Conns : /\ state[x] = "Free"
                           /\ conn' = [conn EXCEPT ![c] = x]
                           /\ state' = [state EXCEPT ![x] = "Connecting"]
    BY <1>5 DEF StartConnect
  <2>2. x # NoConn
    BY NoConnAssumption
  <2>3. QED
    BY <1>0, <1>5, <2>1, <2>2 DEF StartConnect
<1>6. ASSUME NEW c \in Callers, PingFail(c) PROVE OwnerInv'
  <2>1. /\ pc' = [pc EXCEPT ![c] = "ramping"]
        /\ conn[c] \in Conns /\ conn[c] # NoConn
        /\ conn' = [conn EXCEPT ![c] = NoConn]
        /\ state' = [state EXCEPT ![conn[c]] = "Free"]
        /\ UNCHANGED <<idle, closing>>
    BY <1>6, PingFailFrees, NoConnAssumption DEF PingFail
  <2>2. QED
    BY <1>0, <2>1
<1>7. ASSUME NEW c \in Callers, Park(c) PROVE OwnerInv'
  <2>1. /\ pc' = [pc EXCEPT ![c] = "parked"]
        /\ conn[c] \in Conns
        /\ state[conn[c]] = "Ready"
        /\ conn' = [conn EXCEPT ![c] = NoConn]
        /\ idle' = Append(idle, conn[c])
        /\ UNCHANGED <<state, closing>>
    BY <1>0, <1>7, NoConnAssumption DEF Park, Release, Usable
  <2>2. \A i \in 1..Len(idle') : \/ idle'[i] = conn[c]
                                 \/ i \in 1..Len(idle) /\ idle'[i] = idle[i]
    BY <1>0, <2>1, PushProperties
  <2>3. \A i \in 1..Len(idle') : state'[idle'[i]] = "Ready"
    BY <1>0, <2>1, <2>2
  <2>4. \A d \in Callers : d # c => conn'[d] = conn[d] /\ pc'[d] = pc[d]
    BY <1>0, <2>1
  <2>5. conn'[c] = NoConn /\ pc'[c] \notin {"pinging", "connecting", "out"}
    BY <1>0, <2>1
  <2>6. ASSUME NEW d \in Callers
        PROVE  /\ conn'[d] # NoConn <=> pc'[d] \in {"pinging", "connecting", "out"}
               /\ conn'[d] # NoConn => state'[conn'[d]] # "Free"
    <3>1. CASE d = c
      BY <2>5, <3>1
    <3>2. CASE d # c
      BY <1>0, <2>1, <2>4, <3>2
    <3>3. QED
      BY <3>1, <3>2
  <2>7. \A x \in closing' : state'[x] # "Free"
    BY <1>0, <2>1
  <2>8. QED
    BY <2>3, <2>6, <2>7
<1>8. ASSUME NEW c \in Callers, Unparked(c) PROVE OwnerInv'
  <2>1. pc[c] = "parked" /\ UNCHANGED <<conn, idle, state, closing>>
    BY <1>8 DEF Unparked
  <2>2. \A d \in Callers : \/ pc'[d] = pc[d]
                           \/ /\ pc[d] \in {"waiting", "parked"}
                              /\ pc'[d] \in {"granted", "away"}
    <3>1. OneFreed(c, "away")
      BY <1>8 DEF Unparked
    <3>2. ASSUME NEW d \in Callers
          PROVE  /\ d = c => pc'[d] = "away"
                 /\ d # c => pc'[d] = pc[d] \/ (pc[d] = "waiting" /\ pc'[d] = "granted")
      BY <1>0, <2>1, <3>1, FreedPositions
    <3>3. QED
      BY <2>1, <3>2
  <2>3. QED
    BY <1>0, <2>1, <2>2
<1>9. ASSUME NEW c \in Callers, FreedStep(c) PROVE OwnerInv'
  <2>1. \A d \in Callers \ {c} : \/ pc'[d] = pc[d]
                                 \/ pc[d] = "waiting" /\ pc'[d] = "granted"
    BY <1>0, <1>9, FreedPositions DEF FreedStep
  <2>2. pc'[c] = "away"
    BY <1>0, <1>9, FreedPositions DEF FreedStep
  <2>3. /\ conn' = [conn EXCEPT ![c] = NoConn]
        /\ state' = [x \in Conns |-> IF x = conn[c] THEN "Free" ELSE state[x]]
        /\ UNCHANGED <<idle, closing>>
    BY <1>9 DEF FreedStep
  <2>4. \A d \in Callers :
           conn'[d] # NoConn <=> pc'[d] \in {"pinging", "connecting", "out"}
    BY <1>0, <2>1, <2>2, <2>3
  <2>5. QED
    BY <1>0, <2>3, <2>4
<1>10. ASSUME NEW x \in Conns, Age(x) \/ QuitOne(x) PROVE OwnerInv'
  BY <1>0, <1>10 DEF Age, QuitOne
<1>11. ASSUME CloseIdle PROVE OwnerInv'
  BY <1>0, <1>11 DEF CloseIdle, Parked
<1>12. QED
  BY <1>1, <1>2, <1>3, <1>4, <1>5, <1>6, <1>7, <1>8, <1>9, <1>10, <1>11,
     NextCases

LEMMA AloneStep ==
    ASSUME IInv, Next
    PROVE  AloneInv'
<1>0. TypeOK /\ OwnerInv /\ AloneInv
  BY DEF IInv
<1> USE DEF AloneInv, TypeOK
<1>1. ASSUME UNCHANGED <<conn, idle, closing>> PROVE AloneInv'
  BY <1>0, <1>1
<1>2. ASSUME NEW c \in Callers, TakeIdle(c) PROVE AloneInv'
  <2> DEFINE x == idle[Len(idle)]
  <2>1. /\ idle # <<>>
        /\ idle' = SubSeq(idle, 1, Len(idle) - 1)
        /\ Len(idle) \in 1..Len(idle)
        /\ x \in Conns /\ state[x] = "Ready" /\ x # NoConn
    BY <1>0, <1>2, PopProperties, NoConnAssumption DEF TakeIdle, Fresh, Popped, ArmPopped, OwnerInv
  <2>2. conn' = [conn EXCEPT ![c] = x] /\ closing' = closing
    BY <1>2, <2>1 DEF TakeIdle, Fresh, Popped, ArmPopped, Usable
  <2>3. /\ Len(idle') = Len(idle) - 1
        /\ \A i \in 1..(Len(idle) - 1) :
              i \in 1..Len(idle) /\ i # Len(idle) /\ idle'[i] = idle[i]
    BY <1>0, <2>1, PopProperties
  <2>4. \A i \in 1..Len(idle') :
           i \in 1..Len(idle) /\ idle'[i] = idle[i] /\ idle[i] # x
    BY <1>0, <2>1, <2>3
  <2>5. \A d \in Callers : conn[d] # x
    BY <1>0, <2>1
  <2>6. x \notin closing
    BY <1>0, <2>1
  <2> HIDE DEF x
  <2>7. \A i, j \in 1..Len(idle') : idle'[i] = idle'[j] => i = j
    BY <1>0, <2>4
  <2>8. \A d, e \in Callers : conn'[d] = conn'[e] /\ conn'[d] # NoConn => d = e
    BY <1>0, <2>1, <2>2, <2>5
  <2>9. \A d \in Callers, i \in 1..Len(idle') : conn'[d] # idle'[i]
    BY <1>0, <2>2, <2>4
  <2>10. \A y \in closing' : /\ \A i \in 1..Len(idle') : y # idle'[i]
                            /\ \A d \in Callers : y # conn'[d]
    BY <1>0, <2>2, <2>4, <2>6
  <2>11. QED
    BY <2>7, <2>8, <2>9, <2>10
<1>3. ASSUME NEW c \in Callers, StartConnect(c) PROVE AloneInv'
  <2>1. PICK x \in Conns : /\ state[x] = "Free"
                           /\ conn' = [conn EXCEPT ![c] = x]
    BY <1>3 DEF StartConnect
  <2>2. /\ \A d \in Callers : conn[d] # x
        /\ \A i \in 1..Len(idle) : idle[i] # x
        /\ x \notin closing
    BY <1>0, <2>1, NoConnAssumption DEF OwnerInv
  <2>3. UNCHANGED <<idle, closing>>
    BY <1>3 DEF StartConnect
  <2>4. QED
    BY <1>0, <2>1, <2>2, <2>3
<1>4. ASSUME NEW c \in Callers, PingFail(c) \/ FreedStep(c) PROVE AloneInv'
  <2>1. conn' = [conn EXCEPT ![c] = NoConn] /\ UNCHANGED <<idle, closing>>
    BY <1>4 DEF PingFail, FreedStep
  <2>2. \A i \in 1..Len(idle) : idle[i] # NoConn
    BY <1>0, NoConnAssumption
  <2>3. NoConn \notin closing
    BY <1>0, NoConnAssumption
  <2>4. QED
    BY <1>0, <2>1, <2>2, <2>3
<1>5. ASSUME NEW c \in Callers, Park(c) PROVE AloneInv'
  <2>1. /\ conn[c] \in Conns /\ conn[c] # NoConn
        /\ conn' = [conn EXCEPT ![c] = NoConn]
        /\ idle' = Append(idle, conn[c])
        /\ closing' = closing
    BY <1>0, <1>5, NoConnAssumption DEF Park, Release, Usable, OwnerInv
  <2>2. /\ Len(idle') = Len(idle) + 1
        /\ \A i \in 1..Len(idle') :
              \/ i = Len(idle) + 1 /\ idle'[i] = conn[c]
              \/ i \in 1..Len(idle) /\ idle'[i] = idle[i]
    BY <1>0, <2>1, PushProperties
  <2>3. \A i \in 1..Len(idle) : idle[i] # conn[c] /\ idle[i] # NoConn
    BY <1>0, NoConnAssumption
  <2>4. conn[c] \notin closing /\ NoConn \notin closing
    BY <1>0, NoConnAssumption
  <2>5. \A d \in Callers : conn'[d] # NoConn => conn'[d] = conn[d] /\ d # c
    BY <1>0, <2>1
  <2>6. \A i, j \in 1..Len(idle') : idle'[i] = idle'[j] => i = j
    BY <1>0, <2>2, <2>3
  <2>7. \A d \in Callers, i \in 1..Len(idle') : conn'[d] # idle'[i]
    <3>1. \A i \in 1..Len(idle') : idle'[i] # NoConn
      BY <2>1, <2>2, <2>3
    <3>2. \A d \in Callers, i \in 1..Len(idle') : d # c => conn[d] # idle'[i]
      BY <1>0, <2>1, <2>2
    <3>3. QED
      BY <2>5, <3>1, <3>2
  <2>8. QED
    BY <1>0, <2>1, <2>2, <2>3, <2>4, <2>5, <2>6, <2>7
<1>6. ASSUME NEW x \in Conns, QuitOne(x) PROVE AloneInv'
  BY <1>0, <1>6 DEF QuitOne
<1>7. ASSUME CloseIdle PROVE AloneInv'
  <2>1. /\ closing' = closing \cup Parked /\ conn' = conn
        /\ idle' = <<>> /\ Len(idle') = 0
        /\ 1..Len(idle') = {}
    BY <1>7 DEF CloseIdle
  <2>2. \A x \in Parked : \A c \in Callers : x # conn[c]
    BY <1>0 DEF Parked
  <2>3. QED
    BY <1>0, <2>1, <2>2
<1>8. ASSUME \E c \in Callers : \/ Acquire(c) \/ LeaveQueue(c) \/ NoIdle(c)
                                \/ PingOk(c) \/ ConnectOk(c) \/ Use(c)
                                \/ Unparked(c)
      PROVE  AloneInv'
  BY <1>1, <1>8
  DEF Acquire, LeaveQueue, NoIdle, PingOk, ConnectOk, Use, Unparked
<1>9. ASSUME \E x \in Conns : Age(x) PROVE AloneInv'
  BY <1>1, <1>9 DEF Age
<1>10. QED
  BY <1>2, <1>3, <1>4, <1>5, <1>6, <1>7, <1>8, <1>9, NextCases

-----------------------------------------------------------------------------
(* The drop guard                                                           *)

LEMMA GuardStep ==
    ASSUME IInv, Next
    PROVE  GuardInv'
<1>0. TypeOK /\ QueueInv /\ OwnerInv /\ AloneInv /\ GuardInv
  BY DEF IInv
<1> USE DEF GuardInv, TypeOK
<1>1. ASSUME NEW c \in Callers, Acquire(c) \/ LeaveQueue(c) \/ NoIdle(c)
      PROVE  GuardInv'
  BY <1>0, <1>1 DEF Acquire, LeaveQueue, NoIdle
<1>2. ASSUME NEW c \in Callers, TakeIdle(c) PROVE GuardInv'
  <2> DEFINE x == idle[Len(idle)]
  <2>1. /\ idle # <<>>
        /\ Len(idle) \in 1..Len(idle)
        /\ x \in Conns /\ state[x] = "Ready"
    BY <1>0, <1>2, PopProperties DEF TakeIdle, Fresh, Popped, ArmPopped, OwnerInv
  <2>2. /\ pc[c] = "granted"
        /\ pc' = [pc EXCEPT ![c] = IF x \in stale THEN "pinging" ELSE "out"]
        /\ conn' = [conn EXCEPT ![c] = x]
        /\ armed' = IF x \in stale THEN armed ELSE armed \cup {x}
    BY <1>2, <2>1 DEF TakeIdle, Fresh, Popped, ArmPopped, Usable
  <2> HIDE DEF x
  <2>3. QED
    BY <1>0, <2>1, <2>2
<1>3. ASSUME NEW c \in Callers, PingOk(c) \/ ConnectOk(c) PROVE GuardInv'
  <2>1. /\ pc' = [pc EXCEPT ![c] = "out"]
        /\ armed' = armed \cup {conn[c]}
        /\ conn' = conn
    BY <1>3 DEF PingOk, ConnectOk
  <2>2. QED
    BY <1>0, <2>1
<1>4. ASSUME NEW c \in Callers, StartConnect(c) PROVE GuardInv'
  BY <1>0, <1>4 DEF StartConnect
<1>5. ASSUME NEW c \in Callers, PingFail(c) PROVE GuardInv'
  <2>1. /\ pc[c] = "pinging"
        /\ pc' = [pc EXCEPT ![c] = "ramping"]
        /\ conn' = [conn EXCEPT ![c] = NoConn]
        /\ armed' = armed
    BY <1>5, PingFailFrees DEF PingFail
  <2>2. QED
    BY <1>0, <2>1
<1>6. ASSUME NEW c \in Callers, Use(c) PROVE GuardInv'
  BY <1>0, <1>6 DEF Use
<1>7. ASSUME NEW c \in Callers, Park(c) PROVE GuardInv'
  <2>1. /\ pc[c] = "out" /\ conn[c] # NoConn
        /\ pc' = [pc EXCEPT ![c] = "parked"]
        /\ conn' = [conn EXCEPT ![c] = NoConn]
        /\ armed' = armed \ {conn[c]}
    BY <1>0, <1>7 DEF Park, Release, OwnerInv
  <2>2. \A d \in Callers : d # c => conn[d] # conn[c]
    BY <1>0, <2>1 DEF AloneInv
  <2>3. QED
    BY <1>0, <2>1, <2>2
<1>8. ASSUME NEW c \in Callers, Unparked(c) PROVE GuardInv'
  <2>1. pc[c] = "parked" /\ conn' = conn /\ armed' = armed
    BY <1>8 DEF Unparked
  <2>2. \A d \in Callers : (pc'[d] = "out") <=> (pc[d] = "out")
    BY <1>0, <1>8, <2>1, FreedPositions DEF Unparked
  <2>3. QED
    BY <1>0, <2>1, <2>2
<1>9. ASSUME NEW c \in Callers, FreedStep(c) PROVE GuardInv'
  <2>1. /\ pc[c] # "waiting"
        /\ conn' = [conn EXCEPT ![c] = NoConn]
        /\ armed' = armed \ {conn[c]}
    BY <1>9 DEF FreedStep
  <2>2. /\ pc'[c] = "away"
        /\ \A d \in Callers \ {c} : (pc'[d] = "out") <=> (pc[d] = "out")
    BY <1>0, <1>9, <2>1, FreedPositions DEF FreedStep
  <2>3. \A d \in Callers \ {c} : pc[d] = "out" => conn[d] # conn[c]
    BY <1>0 DEF AloneInv, OwnerInv
  <2>4. QED
    BY <1>0, <2>1, <2>2, <2>3
<1>10. ASSUME \/ \E x \in Conns : Age(x) \/ QuitOne(x)
              \/ CloseIdle
       PROVE  GuardInv'
  BY <1>0, <1>10 DEF Age, QuitOne, CloseIdle
<1>11. QED
  BY <1>1, <1>2, <1>3, <1>4, <1>5, <1>6, <1>7, <1>8, <1>9, <1>10, NextCases

-----------------------------------------------------------------------------
(* Counting permits and connections                                         *)

LEMMA CallerSetsFinite ==
    /\ IsFiniteSet(Holders) /\ Cardinality(Holders) \in Nat
    /\ IsFiniteSet(Owners) /\ Cardinality(Owners) \in Nat
    /\ Owners \subseteq Holders
<1>1. Holders \in SUBSET Callers /\ Owners \in SUBSET Callers
  BY DEF Holders, Owners
<1>2. IsFiniteSet(Holders) /\ IsFiniteSet(Owners)
  BY <1>1, FS_Subset, CallersAssumption
<1>3. Owners \subseteq Holders
  BY DEF Holders, Owners, Holding, Owning
<1>4. QED
  BY <1>2, <1>3, FS_CardinalityType

\* The permit a holder frees is free again or has a new holder.
LEMMA FreedSlots ==
    ASSUME TypeOK, QueueInv, SlotsConserved, NEW c \in Callers,
           pc[c] \in Holding, OneFreed(c, "away")
    PROVE  SlotsConserved'
<1> USE DEF Holding
<1>1. c \in Holders /\ IsFiniteSet(Holders) /\ Cardinality(Holders) \in Nat
  BY CallerSetsFinite DEF Holders
<1>2. /\ IsFiniteSet(Holders \ {c})
      /\ Cardinality(Holders \ {c}) = Cardinality(Holders) - 1
  BY <1>1, FS_RemoveElement
<1>3. permits \in Nat /\ Max \in Nat /\ permits + Cardinality(Holders) = Max
  BY MaxAssumption DEF TypeOK, SlotsConserved
<1>4. CASE queue = <<>>
  <2>1. Holders' = Holders \ {c} /\ permits' = permits + 1
    BY <1>4 DEF OneFreed, Holders, TypeOK
  <2>2. QED
    BY <1>1, <1>2, <1>3, <2>1 DEF SlotsConserved
<1>5. CASE queue # <<>>
  <2>1. /\ Head(queue) = queue[1]
        /\ 1 \in 1..Len(queue)
        /\ Head(queue) \in Callers
    BY <1>5 DEF TypeOK
  <2>2. pc[Head(queue)] = "waiting"
    BY <2>1 DEF QueueInv
  <2>3. Head(queue) \notin Holders
    BY <2>2 DEF Holders
  <2>4. pc' = [pc EXCEPT ![c] = "away", ![Head(queue)] = "granted"]
    BY <1>5 DEF OneFreed
  <2>5. Holders' = (Holders \ {c}) \cup {Head(queue)}
    BY <2>1, <2>2, <2>4 DEF Holders, TypeOK
  <2>6. Cardinality(Holders') = Cardinality(Holders \ {c}) + 1
    BY <1>2, <2>3, <2>5, FS_AddElement
  <2>7. permits' = permits
    BY <1>5 DEF OneFreed
  <2>8. QED
    BY <1>1, <1>2, <1>3, <2>6, <2>7 DEF SlotsConserved
<1>6. QED
  BY <1>4, <1>5

LEMMA SlotsStep ==
    ASSUME IInv, Next
    PROVE  SlotsConserved'
<1>0. TypeOK /\ QueueInv /\ SlotsConserved
  BY DEF IInv
<1>1. ASSUME permits' = permits, Holders' = Holders PROVE SlotsConserved'
  BY <1>0, <1>1 DEF SlotsConserved
<1>2. ASSUME NEW c \in Callers, Acquire(c) PROVE SlotsConserved'
  <2>1. CASE permits > 0
    <3>1. /\ Holders' = Holders \cup {c}
          /\ c \notin Holders
          /\ permits' = permits - 1
      BY <1>0, <1>2, <2>1 DEF Acquire, Holders, Holding, TypeOK
    <3>2. Cardinality(Holders') = Cardinality(Holders) + 1
      BY <3>1, CallerSetsFinite, FS_AddElement
    <3>3. permits \in Nat /\ permits + Cardinality(Holders) = Max
      BY <1>0 DEF TypeOK, SlotsConserved
    <3>4. QED
      BY <2>1, <3>1, <3>2, <3>3, CallerSetsFinite DEF SlotsConserved
  <2>2. CASE ~(permits > 0)
    <3>1. permits' = permits /\ Holders' = Holders
      BY <1>0, <1>2, <2>2 DEF Acquire, Holders, Holding, TypeOK
    <3>2. QED
      BY <1>1, <3>1
  <2>3. QED
    BY <2>1, <2>2
<1>3. ASSUME NEW c \in Callers,
             \/ LeaveQueue(c) \/ TakeIdle(c) \/ NoIdle(c) \/ PingOk(c)
             \/ StartConnect(c) \/ ConnectOk(c) \/ Use(c) \/ Park(c)
      PROVE  SlotsConserved'
  <2>1. permits' = permits
    BY <1>3 DEF LeaveQueue, TakeIdle, Fresh, Popped, ArmPopped, NoIdle, PingOk, StartConnect, ConnectOk,
                Use, Park, Release
  <2>2. Holders' = Holders
    BY <1>0, <1>3 DEF LeaveQueue, TakeIdle, Fresh, Popped, ArmPopped, NoIdle, PingOk, StartConnect,
                      ConnectOk, Use, Park, Release, Holders, Holding, TypeOK
  <2>3. QED
    BY <1>1, <2>1, <2>2
<1>4. ASSUME NEW c \in Callers, PingFail(c) PROVE SlotsConserved'
  <2>1. /\ pc[c] = "pinging" /\ permits' = permits
        /\ pc' = [pc EXCEPT ![c] = "ramping"]
    BY <1>4, PingFailFrees DEF PingFail
  <2>2. Holders' = Holders
    BY <1>0, <2>1 DEF Holders, Holding, TypeOK
  <2>3. QED
    BY <1>1, <2>1, <2>2
<1>5. ASSUME NEW c \in Callers, Unparked(c) \/ FreedStep(c) PROVE SlotsConserved'
  BY <1>0, <1>5, FreedSlots DEF Unparked, FreedStep, Holding
<1>6. ASSUME \/ \E x \in Conns : Age(x) \/ QuitOne(x)
             \/ CloseIdle
      PROVE  SlotsConserved'
  BY <1>1, <1>6 DEF Age, QuitOne, CloseIdle, Holders
<1>7. QED
  BY <1>2, <1>3, <1>4, <1>5, <1>6, NextCases

LEMMA LimitStep ==
    ASSUME IInv, Next
    PROVE  WithinLimit'
<1>0. TypeOK /\ QueueInv /\ OwnerInv /\ WithinLimit /\ TypeOK' /\ SlotsConserved'
  BY TypeStep, SlotsStep DEF IInv
<1>1. /\ Len(idle) \in Nat /\ Len(idle') \in Nat /\ permits' \in Nat
      /\ Max \in Nat
      /\ Cardinality(Owners) \in Nat /\ IsFiniteSet(Owners)
  BY <1>0, MaxAssumption, CallerSetsFinite DEF TypeOK
<1>2. ASSUME Len(idle') <= Len(idle), Owners' \in SUBSET Owners
      PROVE  WithinLimit'
  <2>1. Cardinality(Owners') \in Nat /\ Cardinality(Owners') <= Cardinality(Owners)
    BY <1>1, <1>2, FS_Subset, FS_CardinalityType
  <2>2. QED
    BY <1>0, <1>1, <1>2, <2>1 DEF WithinLimit
<1>3. ASSUME NEW c \in Callers, TakeIdle(c) PROVE WithinLimit'
  <2>1. Len(idle') = Len(idle) - 1
    BY <1>0, <1>3, PopProperties DEF TakeIdle, Fresh, Popped, ArmPopped, TypeOK
  <2>2. Owners' = Owners \cup {c} /\ c \notin Owners
    BY <1>0, <1>3 DEF TakeIdle, Fresh, Popped, ArmPopped, Owners, Owning, TypeOK
  <2>3. Cardinality(Owners') = Cardinality(Owners) + 1
    BY <1>1, <2>2, FS_AddElement
  <2>4. QED
    BY <1>0, <1>1, <2>1, <2>3 DEF WithinLimit
<1>4. ASSUME NEW c \in Callers, NoIdle(c) PROVE WithinLimit'
  <2>1. Len(idle') = 0
    BY <1>4 DEF NoIdle
  <2>2. Owners' \in SUBSET Holders'
    BY DEF Owners, Holders, Owning, Holding
  <2>3. IsFiniteSet(Holders')
    <3>1. Holders' \in SUBSET Callers
      BY DEF Holders
    <3>2. QED
      BY <3>1, FS_Subset, CallersAssumption
  <2>4. /\ Cardinality(Owners') <= Cardinality(Holders')
        /\ Cardinality(Owners') \in Nat /\ Cardinality(Holders') \in Nat
    BY <2>2, <2>3, FS_Subset, FS_CardinalityType
  <2>5. QED
    BY <1>0, <1>1, <2>1, <2>4 DEF WithinLimit, SlotsConserved
<1>5. ASSUME NEW c \in Callers, Park(c) PROVE WithinLimit'
  <2>1. pc[c] = "out" /\ conn[c] \in Conns /\ idle' = Append(idle, conn[c])
    BY <1>0, <1>5, NoConnAssumption DEF Park, Release, OwnerInv, TypeOK
  <2>2. Len(idle') = Len(idle) + 1
    BY <1>0, <2>1, PushProperties DEF TypeOK
  <2>3. Owners' = Owners \ {c} /\ c \in Owners
    BY <1>0, <1>5 DEF Park, Release, Owners, Owning, TypeOK
  <2>4. Cardinality(Owners') = Cardinality(Owners) - 1
    BY <1>1, <2>3, FS_RemoveElement
  <2>5. QED
    BY <1>0, <1>1, <2>2, <2>4 DEF WithinLimit
<1>6. ASSUME NEW c \in Callers,
             \/ Acquire(c) \/ LeaveQueue(c) \/ PingOk(c) \/ StartConnect(c)
             \/ ConnectOk(c) \/ Use(c)
      PROVE  WithinLimit'
  <2>1. idle' = idle
    BY <1>6 DEF Acquire, LeaveQueue, PingOk, StartConnect, ConnectOk, Use
  <2>2. Owners' \in SUBSET Owners
    BY <1>0, <1>6 DEF Acquire, LeaveQueue, PingOk, StartConnect, ConnectOk, Use,
                      Owners, Owning, TypeOK
  <2>3. QED
    BY <1>1, <1>2, <2>1, <2>2
<1>7. ASSUME NEW c \in Callers, PingFail(c) PROVE WithinLimit'
  <2>1. /\ pc[c] = "pinging" /\ idle' = idle
        /\ pc' = [pc EXCEPT ![c] = "ramping"]
    BY <1>7, PingFailFrees DEF PingFail
  <2>2. Owners' \in SUBSET Owners
    BY <1>0, <2>1 DEF Owners, Owning, TypeOK
  <2>3. QED
    BY <1>1, <1>2, <2>1, <2>2
<1>8. ASSUME NEW c \in Callers, Unparked(c) \/ FreedStep(c) PROVE WithinLimit'
  <2>1. idle' = idle /\ pc[c] # "waiting" /\ OneFreed(c, "away")
    BY <1>8 DEF Unparked, FreedStep
  <2>2. Owners' \in SUBSET Owners
    BY <1>0, <2>1, FreedPositions DEF Owners, Owning
  <2>3. QED
    BY <1>1, <1>2, <2>1, <2>2
<1>9. ASSUME \/ \E x \in Conns : Age(x) \/ QuitOne(x)
             \/ CloseIdle
      PROVE  WithinLimit'
  <2>1. Owners' = Owners /\ (idle' = idle \/ Len(idle') = 0)
    BY <1>9 DEF Age, QuitOne, CloseIdle, Owners
  <2>2. QED
    BY <1>1, <1>2, <2>1
<1>10. QED
  BY <1>3, <1>4, <1>5, <1>6, <1>7, <1>8, <1>9, NextCases

-----------------------------------------------------------------------------
(* The safety theorems                                                      *)

LEMMA InitIInv == Init => IInv
<1> SUFFICES ASSUME Init PROVE IInv
  OBVIOUS
<1>1. TypeOK /\ QueueInv /\ OwnerInv /\ AloneInv /\ GuardInv
  BY MaxAssumption
  DEF Init, TypeOK, QueueInv, OwnerInv, AloneInv, GuardInv, PCs, ConnStates
<1>2. Holders = {} /\ Owners = {}
  BY DEF Init, Holders, Owners, Holding, Owning
<1>3. SlotsConserved
  BY <1>2, FS_EmptySet, MaxAssumption DEF Init, SlotsConserved
<1>4. WithinLimit
  BY <1>2, FS_EmptySet, MaxAssumption DEF Init, WithinLimit
<1>5. QED
  BY <1>1, <1>3, <1>4 DEF IInv

LEMMA NextIInv == IInv /\ [Next]_vars => IInv'
<1>1. ASSUME IInv, Next PROVE IInv'
  BY <1>1, TypeStep, QueueStep, OwnerStep, AloneStep, GuardStep, SlotsStep,
     LimitStep DEF IInv
<1>2. ASSUME IInv, UNCHANGED vars PROVE IInv'
  BY <1>2 DEF vars, IInv, TypeOK, QueueInv, OwnerInv, AloneInv, GuardInv,
              SlotsConserved, WithinLimit, Holders, Owners
<1>3. QED
  BY <1>1, <1>2

LEMMA Inductive == Spec => []IInv
  BY InitIInv, NextIInv, PTL DEF Spec

\* The pool's fields and the callers' positions keep their types.
THEOREM TypeCorrect == Spec => []TypeOK
<1>1. IInv => TypeOK
  BY DEF IInv
<1>2. QED
  BY <1>1, Inductive, PTL

\* For any number of callers, and whatever is cancelled, dropped or fails:
\* permits are neither leaked nor freed twice.
THEOREM PermitsConserved == Spec => []SlotsConserved
<1>1. IInv => SlotsConserved
  BY DEF IInv
<1>2. QED
  BY <1>1, Inductive, PTL

\* Parked connections and those owned by callers never exceed the limit.
THEOREM LimitKept == Spec => []WithinLimit
<1>1. IInv => WithinLimit
  BY DEF IInv
<1>2. QED
  BY <1>1, Inductive, PTL

-----------------------------------------------------------------------------
(* What acquire() hands out                                                 *)

\* A connection past IDLE_TIMEOUT is open, owned by nobody but a caller that
\* pings it, and not one that close_idle() is closing.
StaleInv ==
    \A x \in stale :
       /\ state[x] # "Free" /\ x \notin closing
       /\ \A c \in Callers : conn[c] = x => pc[c] = "pinging"

\* Every step of the pool keeps StaleInv, and what it hands out is healthy.
LEMMA HealthyStep ==
    ASSUME IInv, StaleInv, Next
    PROVE  /\ StaleInv'
           /\ \A c \in Callers :
                 pc[c] # "out" /\ pc'[c] = "out" =>
                    state'[conn'[c]] = "Ready" /\ conn'[c] \notin stale'
<1>0. TypeOK /\ QueueInv /\ OwnerInv /\ AloneInv
  BY DEF IInv
<1> DEFINE Healthy == \A c \in Callers :
                         pc[c] # "out" /\ pc'[c] = "out" =>
                            state'[conn'[c]] = "Ready" /\ conn'[c] \notin stale'
<1>1. ASSUME NEW c \in Callers, Acquire(c) \/ LeaveQueue(c) \/ NoIdle(c)
      PROVE  StaleInv' /\ Healthy
  BY <1>0, <1>1 DEF Acquire, LeaveQueue, NoIdle, StaleInv, TypeOK
<1>2. ASSUME NEW c \in Callers, TakeIdle(c) PROVE StaleInv' /\ Healthy
  <2> DEFINE x == idle[Len(idle)]
  <2>1. /\ idle # <<>>
        /\ Len(idle) \in 1..Len(idle)
        /\ x \in Conns /\ state[x] = "Ready" /\ x \notin closing
        /\ \A d \in Callers : conn[d] # x
    BY <1>0, <1>2, PopProperties DEF TakeIdle, OwnerInv, AloneInv, TypeOK
  <2>2. /\ pc[c] = "granted"
        /\ pc' = [pc EXCEPT ![c] = IF x \in stale THEN "pinging" ELSE "out"]
        /\ conn' = [conn EXCEPT ![c] = x]
        /\ state' = [state EXCEPT ![x] = IF x \in stale THEN "Busy" ELSE "Ready"]
        /\ stale' = stale /\ closing' = closing
    BY <1>2, <2>1 DEF TakeIdle, Fresh, ArmPopped, Usable
  <2> HIDE DEF x
  <2>3. StaleInv'
    BY <1>0, <2>1, <2>2 DEF StaleInv, TypeOK
  <2>4. Healthy
    BY <1>0, <2>1, <2>2 DEF TypeOK
  <2>5. QED
    BY <2>3, <2>4
<1>3. ASSUME NEW c \in Callers, PingOk(c) \/ ConnectOk(c) PROVE StaleInv' /\ Healthy
  <2>1. /\ conn[c] \in Conns /\ pc' = [pc EXCEPT ![c] = "out"] /\ conn' = conn
        /\ state' = [state EXCEPT ![conn[c]] = "Ready"] /\ closing' = closing
        /\ stale' \subseteq stale
    BY <1>0, <1>3, NoConnAssumption DEF PingOk, ConnectOk, OwnerInv, TypeOK
  <2>2. conn[c] \notin stale'
    BY <1>3 DEF PingOk, ConnectOk, StaleInv
  <2>3. StaleInv'
    BY <1>0, <2>1, <2>2 DEF StaleInv, TypeOK
  <2>4. QED
    BY <1>0, <2>1, <2>2, <2>3 DEF TypeOK
<1>4. ASSUME NEW c \in Callers, StartConnect(c) PROVE StaleInv' /\ Healthy
  BY <1>0, <1>4 DEF StartConnect, StaleInv, TypeOK
<1>5. ASSUME NEW c \in Callers, PingFail(c) PROVE StaleInv' /\ Healthy
  <2>1. /\ pc' = [pc EXCEPT ![c] = "ramping"]
        /\ conn[c] \in Conns
        /\ conn' = [conn EXCEPT ![c] = NoConn]
        /\ state' = [state EXCEPT ![conn[c]] = "Free"]
        /\ stale' = stale \ {conn[c]} /\ closing' = closing
    BY <1>5, PingFailFrees DEF PingFail
  <2>2. QED
    BY <1>0, <2>1, NoConnAssumption DEF StaleInv, TypeOK
<1>6. ASSUME NEW c \in Callers, Use(c) PROVE StaleInv' /\ Healthy
  <2>1. conn[c] \notin stale /\ conn[c] \in Conns
    BY <1>0, <1>6, NoConnAssumption DEF Use, StaleInv, OwnerInv, TypeOK
  <2>2. QED
    BY <1>0, <1>6, <2>1 DEF Use, StaleInv, TypeOK
<1>7. ASSUME NEW c \in Callers, Park(c) PROVE StaleInv' /\ Healthy
  <2>1. /\ pc[c] = "out" /\ pc' = [pc EXCEPT ![c] = "parked"]
        /\ conn' = [conn EXCEPT ![c] = NoConn]
        /\ UNCHANGED <<state, stale, closing>>
    BY <1>7 DEF Park, Release
  <2>2. QED
    BY <1>0, <2>1, NoConnAssumption DEF StaleInv, TypeOK
<1>8. ASSUME NEW c \in Callers, Unparked(c) PROVE StaleInv' /\ Healthy
  <2>1. pc[c] = "parked" /\ UNCHANGED <<conn, state, stale, closing>>
    BY <1>8 DEF Unparked
  <2>2. \A d \in Callers : (pc'[d] = "out" => pc[d] = "out") /\ (pc[d] = "pinging" => pc'[d] = "pinging")
    BY <1>0, <1>8, <2>1, FreedPositions DEF Unparked
  <2>3. QED
    BY <1>0, <2>1, <2>2 DEF StaleInv
<1>9. ASSUME NEW c \in Callers, FreedStep(c) PROVE StaleInv' /\ Healthy
  <2>1. /\ pc[c] # "waiting"
        /\ conn' = [conn EXCEPT ![c] = NoConn]
        /\ state' = [x \in Conns |-> IF x = conn[c] THEN "Free" ELSE state[x]]
        /\ stale' = stale \ {conn[c]} /\ closing' = closing
    BY <1>9 DEF FreedStep
  <2>2. /\ pc'[c] = "away"
        /\ \A d \in Callers : (pc'[d] = "out" => pc[d] = "out")
                             /\ (d # c /\ pc[d] = "pinging" => pc'[d] = "pinging")
    BY <1>0, <1>9, <2>1, FreedPositions DEF FreedStep
  <2>3. Healthy
    BY <1>0, <2>2
  <2>4. ASSUME NEW x \in stale'
        PROVE  /\ state'[x] # "Free" /\ x \notin closing'
               /\ \A d \in Callers : conn'[d] = x => pc'[d] = "pinging"
    <3>1. x \in stale /\ x \in Conns /\ x # conn[c] /\ x # NoConn
      BY <1>0, <2>1, <2>4, NoConnAssumption DEF TypeOK
    <3>2. state'[x] = state[x]
      BY <2>1, <3>1
    <3>3. ASSUME NEW d \in Callers, conn'[d] = x PROVE pc'[d] = "pinging"
      <4>1. d # c /\ conn[d] = x
        BY <1>0, <2>1, <3>1, <3>3 DEF TypeOK
      <4>2. QED
        BY <2>2, <3>1, <4>1 DEF StaleInv
    <3>4. QED
      BY <2>1, <3>1, <3>2, <3>3 DEF StaleInv
  <2>5. QED
    BY <2>3, <2>4 DEF StaleInv
<1>10. ASSUME NEW x \in Conns, Age(x) PROVE StaleInv' /\ Healthy
  <2>1. PICK i \in 1..Len(idle) : idle[i] = x
    BY <1>10 DEF Age, Parked
  <2>2. state[x] # "Free" /\ x \notin closing /\ \A d \in Callers : conn[d] # x
    BY <1>0, <2>1 DEF OwnerInv, AloneInv
  <2>3. QED
    BY <1>0, <1>10, <2>2 DEF Age, StaleInv
<1>11. ASSUME \/ \E x \in Conns : QuitOne(x)
              \/ CloseIdle
       PROVE  StaleInv' /\ Healthy
  BY <1>0, <1>11 DEF QuitOne, CloseIdle, StaleInv, TypeOK
<1>12. QED
  BY <1>1, <1>2, <1>3, <1>4, <1>5, <1>6, <1>7, <1>8, <1>9, <1>10, <1>11, NextCases

\* acquire() returns a connection that is Ready and fresh, or was just pinged.
THEOREM OnlyHealthy == Spec => HandedOutHealthy
<1>1. Init => StaleInv
  BY DEF Init, StaleInv
<1>2. IInv /\ StaleInv /\ [Next]_vars => StaleInv'
  <2>1. ASSUME StaleInv, UNCHANGED vars PROVE StaleInv'
    BY <2>1 DEF StaleInv, vars
  <2>2. QED
    BY <2>1, HealthyStep
<1>3. IInv /\ StaleInv /\ [Next]_vars =>
        [\A c \in Callers :
            pc[c] # "out" /\ pc'[c] = "out" =>
               /\ state'[conn'[c]] = "Ready"
               /\ conn'[c] \notin stale']_vars
  BY HealthyStep
<1>4. QED
  BY <1>1, <1>2, <1>3, Inductive, PTL DEF Spec, HandedOutHealthy

-----------------------------------------------------------------------------
(* The pool implements the limiter                                          *)

LEMMA RefineInit == Init => Limiter!SlotInit
  BY DEF Init, Limiter!SlotInit, Holders, Holding

\* A step that frees a permit is a holder's Leave.
LEMMA RefineLeave ==
    ASSUME IInv, NEW c \in Callers, pc[c] \in Holding, OneFreed(c, "away")
    PROVE  Limiter!Leave(c)
<1>0. TypeOK /\ QueueInv
  BY DEF IInv
<1>1. c \in Holders
  BY DEF Holders
<1>2. CASE queue = <<>>
  <2>1. Holders' = Holders \ {c} /\ queue' = queue
    BY <1>0, <1>2 DEF OneFreed, Holders, Holding, TypeOK
  <2>2. QED
    BY <1>1, <1>2, <2>1 DEF Limiter!Leave
<1>3. CASE queue # <<>>
  <2>1. /\ Head(queue) = queue[1]
        /\ 1 \in 1..Len(queue)
        /\ Head(queue) \in Callers
    BY <1>0, <1>3 DEF TypeOK
  <2>2. pc[Head(queue)] = "waiting"
    BY <1>0, <2>1 DEF QueueInv
  <2>3. /\ pc' = [pc EXCEPT ![c] = "away", ![Head(queue)] = "granted"]
        /\ queue' = Tail(queue)
    BY <1>3 DEF OneFreed
  <2>4. Holders' = (Holders \ {c}) \cup {Head(queue)}
    BY <1>0, <2>1, <2>2, <2>3 DEF Holders, Holding, TypeOK
  <2>5. QED
    BY <1>1, <1>3, <2>3, <2>4 DEF Limiter!Leave
<1>4. QED
  BY <1>2, <1>3

LEMMA RefineStep ==
    ASSUME IInv, Next
    PROVE  Limiter!SlotNext \/ UNCHANGED <<Holders, queue>>
<1>0. TypeOK /\ QueueInv
  BY DEF IInv
<1>1. ASSUME NEW c \in Callers, Acquire(c) PROVE Limiter!Enter(c)
  <2>1. c \notin Holders \cup Limiter!Waiters
    BY <1>0, <1>1 DEF Acquire, Holders, Holding, Limiter!Waiters, QueueInv
  <2>2. permits > 0 <=> Limiter!Cardinality(Holders) < Max
    <3>1. permits > 0 <=> Cardinality(Holders) < Max
      BY MaxAssumption, CallerSetsFinite DEF IInv, SlotsConserved, TypeOK
    <3>2. Limiter!Cardinality(Holders) = Cardinality(Holders)
      BY DEF Limiter!Cardinality, Cardinality
    <3>3. QED
      BY <3>1, <3>2
  <2>3. CASE permits > 0
    <3>1. Holders' = Holders \cup {c} /\ queue' = queue
      BY <1>0, <1>1, <2>3 DEF Acquire, Holders, Holding, TypeOK
    <3>2. QED
      BY <2>1, <2>2, <2>3, <3>1 DEF Limiter!Enter
  <2>4. CASE ~(permits > 0)
    <3>1. Holders' = Holders /\ queue' = Append(queue, c)
      BY <1>0, <1>1, <2>4 DEF Acquire, Holders, Holding, TypeOK
    <3>2. QED
      BY <2>1, <2>2, <2>4, <3>1 DEF Limiter!Enter
  <2>5. QED
    BY <2>3, <2>4
<1>2. ASSUME NEW c \in Callers, LeaveQueue(c) PROVE Limiter!GiveUp(c)
  <2>1. Holders' = Holders
    BY <1>0, <1>2 DEF LeaveQueue, Holders, Holding, TypeOK
  <2>2. QED
    BY <1>2, <2>1 DEF LeaveQueue, Limiter!GiveUp, Without, Limiter!Without
<1>3. ASSUME NEW c \in Callers, Unparked(c) \/ FreedStep(c)
      PROVE  Limiter!Leave(c)
  BY <1>3, RefineLeave DEF Unparked, FreedStep, Holding
<1>4. ASSUME NEW c \in Callers,
             \/ TakeIdle(c) \/ NoIdle(c) \/ PingOk(c)
             \/ StartConnect(c) \/ ConnectOk(c) \/ Use(c) \/ Park(c)
      PROVE  UNCHANGED <<Holders, queue>>
  BY <1>0, <1>4 DEF TakeIdle, Fresh, Popped, ArmPopped, NoIdle, PingOk, StartConnect, ConnectOk, Use,
                    Park, Release, Holders, Holding, TypeOK
<1>5. ASSUME NEW c \in Callers, PingFail(c) PROVE UNCHANGED <<Holders, queue>>
  <2>1. /\ pc[c] = "pinging" /\ queue' = queue
        /\ pc' = [pc EXCEPT ![c] = "ramping"]
    BY <1>5, PingFailFrees DEF PingFail
  <2>2. QED
    BY <1>0, <2>1 DEF Holders, Holding, TypeOK
<1>6. ASSUME \/ \E x \in Conns : Age(x) \/ QuitOne(x)
             \/ CloseIdle
      PROVE  UNCHANGED <<Holders, queue>>
  BY <1>6 DEF Age, QuitOne, CloseIdle, Holders
<1>7. QED
  BY <1>1, <1>2, <1>3, <1>4, <1>5, <1>6, NextCases DEF Limiter!SlotNext

\* Seen through its permit holders and the semaphore's queue, the pool is a
\* FIFO limiter of Max slots: a freed slot is never lost while somebody waits.
THEOREM PoolIsLimiter == Spec => LimiterSpec
<1>1. IInv /\ [Next]_vars => [Limiter!SlotNext]_(Limiter!slotVars)
  <2>1. ASSUME IInv, Next PROVE [Limiter!SlotNext]_(Limiter!slotVars)
    BY <2>1, RefineStep DEF Limiter!slotVars
  <2>2. ASSUME UNCHANGED vars PROVE [Limiter!SlotNext]_(Limiter!slotVars)
    BY <2>2 DEF vars, Limiter!slotVars, Holders
  <2>3. QED
    BY <2>1, <2>2
<1>2. QED
  BY <1>1, RefineInit, Inductive, PTL DEF Spec, LimiterSpec, Limiter!SlotSpec
=============================================================================
