------------------------- MODULE StatPipelineProofs -------------------------
(***************************************************************************)
(* Proofs about StatPipeline, for any number of message-ids and any batch  *)
(* size: answers belong to their message-ids, a batch is the most that is  *)
(* ever outstanding, and a connection that is Ready has nothing under way. *)
(***************************************************************************)
EXTENDS StatPipeline, SequenceTheorems, TLAPS

Due == [for : 1..N, part : {"line", "body"}]
Part == [for : 1..N, kind : StatKinds \cup {"body"}]
Answers == [id : 1..N, from : 1..N, exists : BOOLEAN]

\* Where a running call is: what it has answers to, has sent, and will send
\* before it reads again.
CallInv ==
    /\ pc # "idle" =>
         /\ state = "Busy" /\ ret = "none"
         /\ Len(results) < BatchEnd /\ Len(results) <= sent /\ sent <= BatchEnd
    /\ pc = "read" => sent = BatchEnd

\* Answers are those to the first message-ids, in their order.
AnswersInv ==
    /\ Len(results) <= Len(ids)
    /\ \A i \in 1..Len(results) : results[i].id = ids[i] /\ results[i].from = ids[i]
    /\ ret = "ok" => Len(results) = Len(ids)

\* What is under way are the replies to the next message-ids, in their order;
\* a server that is gone owes nothing.
AlignInv ==
    /\ ~alive => Len(cmds) = 0
    /\ \A i \in 1..Len(cmds) : cmds[i].part = "line"
    /\ pc # "idle" =>
         /\ \A i \in 1..Len(stream) : stream[i].for = ids[Len(results) + i]
         /\ \A i \in 1..Len(cmds) : cmds[i].for = ids[Len(results) + Len(stream) + i]
         /\ Len(results) + Len(stream) + Len(cmds) <= sent
         /\ alive => Len(results) + Len(stream) + Len(cmds) = sent

IInv == TypeOK /\ CallInv /\ AnswersInv /\ AlignInv /\ ReadyMeansAligned /\ BatchRespected

-----------------------------------------------------------------------------
(* Arithmetic of the batches                                                *)

\* n is in the batch its number says.
LEMMA BatchOf ==
    ASSUME NEW n \in Nat, NEW b \in Nat \ {0}
    PROVE  /\ n \div b \in Nat
           /\ (n \div b) * b <= n /\ n < ((n \div b) + 1) * b
           /\ ((n \div b) + 1) * b <= n + b
           /\ ((n \div b) + 1) * b \in Nat
<1>1. n \div b \in Nat /\ n % b \in 0..(b - 1) /\ n = b * (n \div b) + (n % b)
  BY SMT
<1> DEFINE q == n \div b
           r == n % b
<1>2. q \in Nat /\ r \in Nat /\ r < b /\ n = b * q + r
  BY <1>1
<1> HIDE DEF q, r
<1>3. (q + 1) * b = b * q + b /\ q * b = b * q /\ b * q \in Nat
  BY <1>2
<1>4. q * b <= n /\ n < (q + 1) * b /\ (q + 1) * b <= n + b /\ (q + 1) * b \in Nat
  BY <1>2, <1>3
<1> QED
  BY <1>2, <1>4 DEF q

\* A number is in no other batch.
LEMMA SameBatch ==
    ASSUME NEW n \in Nat, NEW b \in Nat \ {0}, n + 1 < ((n \div b) + 1) * b
    PROVE  (n + 1) \div b = n \div b
<1> DEFINE q == n \div b
           p == (n + 1) \div b
<1>1. q \in Nat /\ q * b <= n
  BY BatchOf
<1>2. p \in Nat /\ p * b <= n + 1 /\ n + 1 < (p + 1) * b
  <2>1. n + 1 \in Nat
    OBVIOUS
  <2> QED
    BY <2>1, BatchOf
<1>3. n + 1 < (q + 1) * b
  OBVIOUS
<1> HIDE DEF q, p
<1>4. ~(p < q)
  <2>1. SUFFICES ASSUME p < q PROVE FALSE
    OBVIOUS
  <2>2. (p + 1) * b <= q * b
    BY <1>1, <1>2, <2>1
  <2> QED
    BY <1>1, <1>2, <2>2
<1>5. ~(q < p)
  <2>1. SUFFICES ASSUME q < p PROVE FALSE
    OBVIOUS
  <2>2. (q + 1) * b <= p * b
    BY <1>1, <1>2, <2>1
  <2>3. (q + 1) * b \in Nat /\ p * b \in Nat
    BY <1>1, <1>2
  <2> QED
    BY <1>2, <1>3, <2>2, <2>3
<1>6. p = q
  BY <1>1, <1>2, <1>4, <1>5
<1> QED
  BY <1>6 DEF p, q

\* Where the batch of the n-th reply ends, when there are m message-ids.
EndOf(n, m) ==
    LET hi == ((n \div BatchSize) + 1) * BatchSize
    IN  IF hi < m THEN hi ELSE m

LEMMA EndOfFacts ==
    ASSUME NEW n \in Nat, NEW m \in Nat, n < m
    PROVE  /\ EndOf(n, m) \in Nat /\ n < EndOf(n, m) /\ EndOf(n, m) <= m
           /\ EndOf(n, m) <= n + BatchSize
           /\ n + 1 < EndOf(n, m) => EndOf(n + 1, m) = EndOf(n, m)
<1>1. BatchSize \in Nat \ {0}
  BY BatchAssumption
<1> DEFINE hi == ((n \div BatchSize) + 1) * BatchSize
<1>2. hi \in Nat /\ n < hi /\ hi <= n + BatchSize
  BY <1>1, BatchOf
<1>3. EndOf(n, m) = IF hi < m THEN hi ELSE m
  BY DEF EndOf
<1>4. ASSUME n + 1 < EndOf(n, m)
      PROVE  EndOf(n + 1, m) = EndOf(n, m)
  <2>1. n + 1 < hi
    <3> HIDE DEF hi
    <3> QED
      BY <1>2, <1>3, <1>4
  <2>2. (n + 1) \div BatchSize = n \div BatchSize
    BY <1>1, <2>1, SameBatch
  <2> QED
    BY <2>2 DEF EndOf
<1> HIDE DEF hi
<1> QED
  BY <1>1, <1>2, <1>3, <1>4

\* The lengths are numbers, and so are the bounds.
LEMMA Lengths ==
    ASSUME TypeOK
    PROVE  /\ Len(results) \in Nat /\ Len(ids) \in Nat /\ Len(cmds) \in Nat
           /\ Len(stream) \in Nat /\ Len(pending) \in Nat
           /\ sent \in Nat /\ queued \in Nat /\ N \in Nat /\ BatchSize \in Nat \ {0}
<1>1. N \in Nat /\ BatchSize \in Nat \ {0}
  BY BatchAssumption
<1> QED
  BY <1>1, LenProperties DEF TypeOK

\* Inside a call a batch ends after the next reply and before the ids do.
LEMMA BatchEndFacts ==
    ASSUME IInv, pc # "idle"
    PROVE  /\ BatchEnd = EndOf(Len(results), Len(ids)) /\ Len(results) < Len(ids)
           /\ BatchEnd \in Nat /\ Len(results) < BatchEnd /\ BatchEnd <= Len(ids)
           /\ BatchEnd <= Len(results) + BatchSize
<1>1. TypeOK /\ Len(results) \in Nat /\ Len(ids) \in Nat
  BY Lengths DEF IInv
<1>2. BatchEnd = EndOf(Len(results), Len(ids))
  BY DEF BatchEnd, EndOf
<1>3. Len(results) < Len(ids)
  <2>1. Len(results) <= Len(ids) /\ Len(results) < BatchEnd
    BY DEF IInv, CallInv, AnswersInv
  <2>2. ASSUME Len(results) = Len(ids) PROVE FALSE
    <3>1. EndOf(Len(results), Len(ids)) <= Len(ids)
      <4> DEFINE hi == ((Len(results) \div BatchSize) + 1) * BatchSize
      <4>1. hi \in Nat
        BY <1>1, BatchAssumption, BatchOf
      <4>2. EndOf(Len(results), Len(ids)) = IF hi < Len(ids) THEN hi ELSE Len(ids)
        BY DEF EndOf
      <4> HIDE DEF hi
      <4> QED
        BY <1>1, <4>1, <4>2
    <3>2. BatchEnd \in Nat
      <4>1. ((Len(results) \div BatchSize) + 1) * BatchSize \in Nat
        BY <1>1, BatchAssumption, BatchOf
      <4> QED
        BY <1>1, <4>1 DEF BatchEnd
    <3> QED
      BY <1>1, <1>2, <2>1, <2>2, <3>1, <3>2
  <2> QED
    BY <1>1, <2>1, <2>2
<1> QED
  BY <1>1, <1>2, <1>3, EndOfFacts

-----------------------------------------------------------------------------
(* What the steps of the session do to its two queues                       *)

\* q is s without its first element.
Dropped(q, s) ==
    /\ Len(q) = Len(s) - 1
    /\ \A i \in 1..Len(q) : q[i] = s[i + 1]

\* q is s with e at its end.
Extended(q, s, e) ==
    /\ Len(q) = Len(s) + 1
    /\ q[Len(q)] = e
    /\ \A i \in 1..Len(s) : q[i] = s[i]

\* Tail drops the first element.
LEMMA TailDrops ==
    ASSUME NEW S, NEW s \in Seq(S), s # <<>>
    PROVE  /\ Tail(s) \in Seq(S) /\ Dropped(Tail(s), s)
           /\ Head(s) = s[1] /\ s[1] \in S /\ Len(s) \in Nat \ {0}
  BY HeadTailProperties, EmptySeq, ElementOfSeq, LenProperties DEF Dropped

\* Append extends.
LEMMA AppendExtends ==
    ASSUME NEW S, NEW s \in Seq(S), NEW e \in S
    PROVE  Append(s, e) \in Seq(S) /\ Extended(Append(s, e), s, e)
  BY AppendProperties, LenProperties DEF Extended

\* The server answers the STAT that is next: there are no bodies.
LEMMA SendPartEffect ==
    ASSUME TypeOK, AlignInv, SendPart(StatKinds, {})
    PROVE  /\ cmds' \in Seq(Due) /\ stream' \in Seq(Part)
           /\ alive /\ alive' /\ Len(cmds) \in Nat \ {0} /\ Len(stream) \in Nat
           /\ Dropped(cmds', cmds)
           /\ \E k \in StatKinds :
                Extended(stream', stream, [for |-> cmds[1].for, kind |-> k])
<1>1. cmds # <<>> /\ alive /\ alive' = alive /\ cmds \in Seq(Due) /\ stream \in Seq(Part)
  BY DEF SendPart, TypeOK, Due, Part
<1>2. /\ Tail(cmds) \in Seq(Due) /\ Dropped(Tail(cmds), cmds) /\ Head(cmds) = cmds[1]
      /\ cmds[1] \in Due /\ Len(cmds) \in Nat \ {0}
  BY <1>1, TailDrops
<1>3. cmds[1].part = "line" /\ cmds[1].for \in 1..N
  BY <1>2 DEF AlignInv, Due
<1>4. PICK k \in StatKinds : /\ stream' = Append(stream, [for |-> cmds[1].for, kind |-> k])
                             /\ cmds' = Tail(cmds)
  BY <1>2, <1>3 DEF SendPart
<1>5. [for |-> cmds[1].for, kind |-> k] \in Part
  BY <1>3 DEF Part
<1>6. stream' \in Seq(Part) /\ Extended(stream', stream, [for |-> cmds[1].for, kind |-> k])
  BY <1>1, <1>4, <1>5, AppendExtends
<1> QED
  BY <1>1, <1>2, <1>4, <1>6, LenProperties

\* The client reads one answer.
LEMMA TakePartEffect ==
    ASSUME TypeOK, TakePart
    PROVE  /\ stream' \in Seq(Part) /\ Dropped(stream', stream)
           /\ Head(stream) = stream[1] /\ stream[1] \in Part /\ Len(stream) \in Nat \ {0}
           /\ cmds' = cmds /\ alive' = alive
<1>1. stream \in Seq(Part) /\ stream # <<>>
  BY DEF TypeOK, Part, TakePart
<1> QED
  BY <1>1, TailDrops DEF TakePart

\* The client writes a STAT.
LEMMA WriteCmdEffect ==
    ASSUME NEW c \in 1..N, TypeOK, WriteCmd(c)
    PROVE  /\ cmds' \in Seq(Due)
           /\ IF alive THEN Extended(cmds', cmds, [for |-> c, part |-> "line"])
                       ELSE cmds' = cmds
<1>1. [for |-> c, part |-> "line"] \in Due /\ cmds \in Seq(Due)
  BY DEF Due, TypeOK
<1> QED
  BY <1>1, AppendExtends DEF WriteCmd

-----------------------------------------------------------------------------
(* One lemma per step                                                       *)

LEMMA InitOK == Init => IInv
<1> SUFFICES ASSUME Init PROVE IInv
  OBVIOUS
<1> USE DEF Init, FreshWire
<1>1. TypeOK
  BY BatchAssumption, EmptySeq DEF TypeOK
<1>2. Len(<<>>) = 0 /\ \A i \in 1..0 : FALSE
  OBVIOUS
<1> QED
  BY <1>1, <1>2, BatchAssumption
     DEF IInv, CallInv, AnswersInv, AlignInv, ReadyMeansAligned, BatchRespected

\* A step that touches neither the call nor the session.
LEMMA AddOK == IInv /\ Add => IInv'
<1> SUFFICES ASSUME IInv, Add PROVE IInv'
  OBVIOUS
<1>1. TypeOK'
  <2>1. queued + 1 \in 1..N /\ queued' \in 0..N
    BY Lengths DEF IInv, TypeOK, Add
  <2>2. pending' \in Seq(1..N)
    BY <2>1, AppendProperties DEF IInv, TypeOK, Add
  <2> QED
    BY <2>1, <2>2 DEF IInv, TypeOK, Add, wireVars
<1>2. UNCHANGED <<pc, ids, sent, results, state, ret, wireVars>>
  BY DEF Add
<1> QED
  BY <1>1, <1>2 DEF IInv, CallInv, AnswersInv, AlignInv, ReadyMeansAligned, BatchRespected,
                    BatchEnd, wireVars

LEMMA ExecuteOK == IInv /\ Execute => IInv'
<1> SUFFICES ASSUME IInv, Execute PROVE IInv'
  OBVIOUS
<1>1. cmds = <<>> /\ stream = <<>> /\ UNCHANGED wireVars /\ results' = <<>> /\ ids' = pending
      /\ sent' = 0 /\ TypeOK
  BY DEF IInv, Execute, ReadyMeansAligned
<1>2. TypeOK'
  BY <1>1, EmptySeq, Lengths DEF TypeOK, Execute, wireVars
<1>3. Len(results') = 0 /\ Len(cmds') = 0 /\ Len(stream') = 0
  BY <1>1, EmptySeq DEF wireVars
<1>4. CASE pending = <<>>
  BY <1>1, <1>2, <1>3, <1>4, Lengths
     DEF IInv, Execute, CallInv, AnswersInv, AlignInv, ReadyMeansAligned, BatchRespected
<1>5. CASE pending # <<>>
  <2>1. pc' = "send" /\ ret' = "none" /\ state' = "Busy"
    BY <1>5 DEF Execute
  <2>2. Len(ids') \in Nat \ {0}
    BY <1>1, <1>5, EmptySeq DEF TypeOK
  <2>3. BatchEnd' = EndOf(Len(results'), Len(ids'))
    BY DEF BatchEnd, EndOf
  <2>4. BatchEnd' \in Nat /\ Len(results') < BatchEnd'
    BY <1>3, <2>2, <2>3, EndOfFacts
  <2> QED
    BY <1>1, <1>2, <1>3, <2>1, <2>2, <2>4, Lengths
       DEF IInv, CallInv, AnswersInv, AlignInv, ReadyMeansAligned, BatchRespected
<1> QED
  BY <1>4, <1>5

LEMMA SendStatOK == IInv /\ SendStat => IInv'
<1> SUFFICES ASSUME IInv, SendStat PROVE IInv'
  OBVIOUS
<1>1. /\ pc = "send" /\ sent < BatchEnd /\ sent' = sent + 1 /\ TypeOK
      /\ WriteCmd(ids[sent + 1])
      /\ UNCHANGED <<pc, pending, ids, results, state, ret, queued, stream, alive>>
  BY DEF IInv, SendStat
<1>2. /\ Len(results) \in Nat /\ Len(ids) \in Nat /\ Len(cmds) \in Nat
      /\ Len(stream) \in Nat /\ sent \in Nat /\ BatchSize \in Nat \ {0} /\ N \in Nat
  BY <1>1, Lengths
<1>3. BatchEnd \in Nat /\ BatchEnd <= Len(ids) /\ BatchEnd <= Len(results) + BatchSize
  BY <1>1, BatchEndFacts
<1>4. BatchEnd' = BatchEnd
  BY <1>1 DEF BatchEnd
<1>5. ids[sent + 1] \in 1..N
  BY <1>1, <1>2, <1>3, ElementOfSeq DEF TypeOK
<1>6. /\ cmds' \in Seq(Due) /\ Len(cmds') \in Nat
      /\ IF alive THEN Extended(cmds', cmds, [for |-> ids[sent + 1], part |-> "line"])
                  ELSE cmds' = cmds
  BY <1>1, <1>5, WriteCmdEffect, LenProperties
<1>7. TypeOK'
  BY <1>1, <1>2, <1>6 DEF TypeOK, Due
<1>8. CallInv' /\ AnswersInv' /\ ReadyMeansAligned'
  BY <1>1, <1>2, <1>3, <1>4 DEF IInv, CallInv, AnswersInv, ReadyMeansAligned
<1>9. AlignInv' /\ BatchRespected'
  <2>1. CASE ~alive
    BY <1>1, <1>2, <1>6, <2>1 DEF IInv, AlignInv, BatchRespected
  <2>2. CASE alive
    <3>1. Len(results) + Len(stream) + Len(cmds) = sent
      BY <1>1, <2>2 DEF IInv, AlignInv
    <3>2. \A i \in 1..Len(cmds') :
             cmds'[i].part = "line" /\ cmds'[i].for = ids[Len(results) + Len(stream) + i]
      <4> SUFFICES ASSUME NEW i \in 1..Len(cmds')
                   PROVE  /\ cmds'[i].part = "line"
                          /\ cmds'[i].for = ids[Len(results) + Len(stream) + i]
        OBVIOUS
      <4>1. CASE i = Len(cmds')
        BY <1>2, <1>6, <2>2, <3>1, <4>1 DEF Extended
      <4>2. CASE i # Len(cmds')
        <5>1. i \in 1..Len(cmds) /\ cmds'[i] = cmds[i]
          BY <1>2, <1>6, <2>2, <4>2 DEF Extended
        <5> QED
          BY <1>1, <5>1 DEF IInv, AlignInv
      <4> QED
        BY <4>1, <4>2
    <3>3. Len(cmds') = Len(cmds) + 1
      BY <1>6, <2>2 DEF Extended
    <3>4. /\ Len(results') + Len(stream') + Len(cmds') = sent'
          /\ Len(cmds') + Len(stream') <= BatchSize
      BY <1>1, <1>2, <1>3, <3>1, <3>3
    <3>5. \A i \in 1..Len(stream') : stream'[i].for = ids'[Len(results') + i]
      BY <1>1 DEF IInv, AlignInv
    <3>6. \A i \in 1..Len(cmds') : cmds'[i].for = ids'[Len(results') + Len(stream') + i]
      BY <1>1, <3>2
    <3>7. sent' \in Nat /\ alive'
      BY <1>1, <1>2, <2>2
    <3> QED
      BY <3>2, <3>4, <3>5, <3>6, <3>7 DEF AlignInv, BatchRespected
  <2> QED
    BY <2>1, <2>2
<1> QED
  BY <1>7, <1>8, <1>9 DEF IInv

LEMMA FlushOK == IInv /\ Flush => IInv'
<1> SUFFICES ASSUME IInv, Flush PROVE IInv'
  OBVIOUS
<1>1. /\ pc = "send" /\ pc' = "read" /\ sent = BatchEnd
      /\ UNCHANGED <<pending, ids, sent, results, state, ret, queued, wireVars>>
  BY DEF Flush
<1>2. BatchEnd' = BatchEnd
  BY <1>1 DEF BatchEnd
<1> QED
  BY <1>1, <1>2 DEF IInv, TypeOK, CallInv, AnswersInv, AlignInv, ReadyMeansAligned,
                    BatchRespected, wireVars

\* The call is over and the connection is not Ready: only what the session
\* owes is left to account for.
LEMMA StoppedOK ==
    ASSUME IInv, pc' = "idle", results' = <<>>, ids' = ids, pending' = pending, sent' = sent,
           queued' = queued, ret' \in {"err", "cancelled"}, state' \in {"Busy", "Error"},
           cmds' = cmds, alive' = alive, stream' \in Seq(Part), Len(stream') <= Len(stream)
    PROVE  IInv'
<1>1. TypeOK'
  BY EmptySeq DEF IInv, TypeOK, Part
<1>2. Len(results') = 0 /\ Len(ids) \in Nat /\ Len(cmds) \in Nat /\ Len(stream) \in Nat
      /\ Len(stream') \in Nat /\ BatchSize \in Nat
  BY Lengths, LenProperties DEF IInv
<1>3. CallInv' /\ AnswersInv' /\ AlignInv' /\ ReadyMeansAligned'
  BY <1>2 DEF IInv, CallInv, AnswersInv, AlignInv, ReadyMeansAligned
<1>4. BatchRespected'
  BY <1>2 DEF IInv, BatchRespected
<1> QED
  BY <1>1, <1>3, <1>4 DEF IInv

LEMMA WriteFailOK == IInv /\ WriteFail => IInv'
<1> SUFFICES ASSUME IInv, WriteFail PROVE IInv'
  OBVIOUS
<1>1. stream \in Seq(Part) /\ Len(stream) \in Nat
  BY Lengths DEF IInv, TypeOK, Part
<1> QED
  BY <1>1, StoppedOK DEF WriteFail, EndErr, wireVars

LEMMA ReadFailOK == IInv /\ ReadFail => IInv'
<1> SUFFICES ASSUME IInv, ReadFail PROVE IInv'
  OBVIOUS
<1>1. stream \in Seq(Part) /\ Len(stream) \in Nat
  BY Lengths DEF IInv, TypeOK, Part
<1> QED
  BY <1>1, StoppedOK DEF ReadFail, EndErr, wireVars

LEMMA CancelOK == IInv /\ Cancel => IInv'
<1> SUFFICES ASSUME IInv, Cancel PROVE IInv'
  OBVIOUS
<1>1. stream \in Seq(Part) /\ Len(stream) \in Nat
  BY Lengths DEF IInv, TypeOK, Part
<1>2. state = "Busy"
  BY DEF IInv, CallInv, Cancel
<1> QED
  BY <1>1, <1>2, StoppedOK DEF Cancel, wireVars

\* One answer is the one to the next message-id, and the last of a batch
\* leaves the session quiet.
LEMMA AnswerOK ==
    ASSUME IInv, pc = "read", TakePart, NEW e \in BOOLEAN, Answer(e, stream[1].for),
           UNCHANGED <<pending, ids, sent, queued>>
    PROVE  IInv'
<1> DEFINE n == Len(results)
           r == [id |-> ids[n + 1], exists |-> e, from |-> stream[1].for]
<1>1. /\ TypeOK /\ state = "Busy" /\ ret = "none" /\ sent = BatchEnd
      /\ n \in Nat /\ Len(ids) \in Nat /\ Len(cmds) \in Nat /\ sent \in Nat
      /\ BatchSize \in Nat \ {0}
  BY Lengths DEF IInv, CallInv
<1>2. /\ stream' \in Seq(Part) /\ Dropped(stream', stream) /\ stream[1] \in Part
      /\ Len(stream) \in Nat \ {0} /\ cmds' = cmds /\ alive' = alive
  BY <1>1, TakePartEffect
<1>3. /\ BatchEnd = EndOf(n, Len(ids)) /\ n < Len(ids) /\ BatchEnd \in Nat
      /\ n < BatchEnd /\ BatchEnd <= Len(ids) /\ BatchEnd <= n + BatchSize
  BY BatchEndFacts
<1>4. stream[1].for = ids[n + 1]
  BY <1>2 DEF IInv, AlignInv
<1>5. r \in Answers /\ results' = Append(results, r)
  <2>1. ids[n + 1] \in 1..N
    <3>1. ids \in Seq(1..N) /\ n + 1 \in 1..Len(ids)
      BY <1>1, <1>3 DEF TypeOK
    <3> HIDE DEF n
    <3> QED
      BY <3>1, ElementOfSeq
  <2> QED
    BY <1>2, <2>1 DEF Answers, Part, Answer
<1>6. /\ results' \in Seq(Answers) /\ Len(results') = n + 1 /\ results'[n + 1] = r
      /\ \A i \in 1..n : results'[i] = results[i]
  <2>1. results \in Seq(Answers)
    BY <1>1 DEF TypeOK, Answers
  <2> HIDE DEF r
  <2> QED
    BY <1>1, <1>5, <2>1, AppendProperties
<1>7. /\ r.id = ids[n + 1] /\ r.from = ids[n + 1]
  BY <1>4
<1>8. /\ \A i \in 1..Len(results') : results'[i].id = ids[i] /\ results'[i].from = ids[i]
      /\ Len(results') <= Len(ids)
  <2>1. ASSUME NEW i \in 1..Len(results')
        PROVE  results'[i].id = ids[i] /\ results'[i].from = ids[i]
    <3>1. CASE i = n + 1
      BY <1>6, <1>7, <3>1
    <3>2. CASE i # n + 1
      <4>1. i \in 1..n
        BY <1>1, <1>6, <3>2
      <4>2. results[i].id = ids[i] /\ results[i].from = ids[i]
        BY <4>1 DEF IInv, AnswersInv
      <4> QED
        BY <1>6, <4>1, <4>2
    <3> QED
      BY <3>1, <3>2
  <2> HIDE DEF n
  <2>2. Len(results') <= Len(ids)
    BY <1>1, <1>3, <1>6
  <2> QED
    BY <2>1, <2>2
<1>9. Len(stream') = Len(stream) - 1
      /\ \A i \in 1..Len(stream') : stream'[i].for = ids[n + 1 + i]
  <2>1. ASSUME NEW i \in 1..Len(stream')
        PROVE  stream'[i].for = ids[n + 1 + i]
    <3>1. i + 1 \in 1..Len(stream) /\ stream'[i] = stream[i + 1]
      BY <1>2 DEF Dropped
    <3>2. stream[i + 1].for = ids[n + (i + 1)]
      BY <3>1 DEF IInv, AlignInv
    <3>3. n + (i + 1) = n + 1 + i
      BY <1>1, <1>2, <3>1
    <3> QED
      BY <3>1, <3>2, <3>3
  <2> QED
    BY <1>2, <2>1 DEF Dropped
<1>10. /\ n + Len(stream) + Len(cmds) <= sent
       /\ alive => n + Len(stream) + Len(cmds) = sent
       /\ \A i \in 1..Len(cmds) : cmds[i].for = ids[n + Len(stream) + i]
       /\ \A i \in 1..Len(cmds) : cmds[i].part = "line"
       /\ ~alive => Len(cmds) = 0
       /\ Len(cmds) + Len(stream) <= BatchSize
  BY DEF IInv, AlignInv, BatchRespected
<1>11. BatchEnd' = EndOf(n + 1, Len(ids))
  BY <1>6 DEF BatchEnd, EndOf
<1>12. BatchRespected'
  BY <1>1, <1>2, <1>9, <1>10 DEF BatchRespected
<1> HIDE DEF n, r
<1>13. CASE n + 1 < BatchEnd
  <2>1. UNCHANGED <<pc, state, ret, pending, ids, sent, queued>>
    BY <1>5, <1>6, <1>13 DEF Answer, n, r
  <2>2. BatchEnd' = BatchEnd
    BY <1>1, <1>3, <1>11, <1>13, EndOfFacts
  <2>3. TypeOK'
    BY <1>1, <1>2, <1>6, <2>1 DEF TypeOK, Part, Answers
  <2>4. CallInv' /\ AnswersInv' /\ ReadyMeansAligned'
    BY <1>1, <1>3, <1>6, <1>8, <1>13, <2>1, <2>2 DEF CallInv, AnswersInv, ReadyMeansAligned
  <2>5. AlignInv'
    <3>1. /\ Len(results') + Len(stream') + Len(cmds') <= sent'
          /\ alive' => Len(results') + Len(stream') + Len(cmds') = sent'
      <4>1. n \in Nat /\ Len(stream) \in Nat /\ Len(cmds) \in Nat /\ sent \in Nat
        BY <1>1, <1>2
      <4>2. /\ Len(results') = n + 1 /\ Len(stream') = Len(stream) - 1
            /\ Len(cmds') = Len(cmds) /\ sent' = sent /\ alive' = alive
        BY <1>2, <1>6, <1>9, <2>1
      <4>3. /\ n + Len(stream) + Len(cmds) <= sent
            /\ alive => n + Len(stream) + Len(cmds) = sent
        BY <1>10
      <4> QED
        BY <4>1, <4>2, <4>3
    <3>2. \A i \in 1..Len(stream') : stream'[i].for = ids'[Len(results') + i]
      BY <1>6, <1>9, <2>1
    <3>3. n + 1 + Len(stream') = n + Len(stream)
      BY <1>1, <1>2, <1>9
    <3>4. \A i \in 1..Len(cmds') : cmds'[i].for = ids'[Len(results') + Len(stream') + i]
      BY <1>2, <1>6, <1>10, <2>1, <3>3
    <3>5. (~alive' => Len(cmds') = 0) /\ \A i \in 1..Len(cmds') : cmds'[i].part = "line"
      BY <1>2, <1>10
    <3> QED
      BY <3>1, <3>2, <3>4, <3>5 DEF AlignInv
  <2> QED
    BY <1>12, <2>3, <2>4, <2>5 DEF IInv
<1>14. CASE ~(n + 1 < BatchEnd)
  <2>1. n + 1 = BatchEnd /\ Len(stream') = 0 /\ Len(cmds') = 0
    BY <1>1, <1>2, <1>3, <1>9, <1>10, <1>14
  <2>2. /\ state' = StateAfterBatch
        /\ IF n + 1 = Len(ids) THEN pc' = "idle" /\ ret' = "ok"
                               ELSE pc' = "send" /\ ret' = ret
    BY <1>5, <1>6, <1>14 DEF Answer, AllAnswered, n, r
  <2>3. stream' = <<>> /\ cmds' = <<>>
    BY <1>1, <1>2, <2>1, EmptySeq DEF TypeOK
  <2>4. TypeOK'
    BY <1>1, <1>2, <1>6, <2>2 DEF TypeOK, Part, Answers, StateAfterBatch
  <2>5. CASE n + 1 = Len(ids)
    <3>1. CallInv' /\ AnswersInv' /\ ReadyMeansAligned'
      BY <1>6, <1>8, <2>2, <2>3, <2>5 DEF CallInv, AnswersInv, ReadyMeansAligned
    <3>2. AlignInv'
      BY <1>2, <1>10, <2>1, <2>2, <2>5 DEF AlignInv
    <3> QED
      BY <1>12, <2>4, <3>1, <3>2 DEF IInv
  <2>6. CASE n + 1 # Len(ids)
    <3>1. pc' = "send" /\ ret' = "none" /\ state' = "Busy"
      BY <1>1, <2>1, <2>2, <2>6 DEF StateAfterBatch
    <3>2. BatchEnd' \in Nat /\ n + 1 < BatchEnd' /\ sent' = n + 1 /\ ids' = ids
      BY <1>1, <1>3, <1>11, <2>1, <2>6, EndOfFacts
    <3>3. CallInv' /\ AnswersInv' /\ ReadyMeansAligned'
      BY <1>1, <1>6, <1>8, <3>1, <3>2 DEF CallInv, AnswersInv, ReadyMeansAligned
    <3>4. AlignInv'
      BY <1>1, <1>2, <1>6, <1>10, <2>1, <3>1, <3>2 DEF AlignInv
    <3> QED
      BY <1>12, <2>4, <3>3, <3>4 DEF IInv
  <2> QED
    BY <2>5, <2>6
<1> QED
  BY <1>13, <1>14

LEMMA ReadStatOK == IInv /\ ReadStat => IInv'
<1> SUFFICES ASSUME IInv, ReadStat PROVE IInv'
  OBVIOUS
<1>1. pc = "read" /\ TakePart /\ UNCHANGED <<pending, ids, sent, queued>> /\ TypeOK
  BY DEF IInv, ReadStat
<1>2. /\ stream' \in Seq(Part) /\ Dropped(stream', stream) /\ Head(stream) = stream[1]
      /\ Len(stream) \in Nat \ {0} /\ cmds' = cmds /\ alive' = alive
  BY <1>1, TakePartEffect
<1>3. \/ Answer(TRUE, stream[1].for)
      \/ Answer(FALSE, stream[1].for)
      \/ EndErr
  BY <1>2 DEF ReadStat
<1>4. CASE EndErr
  <2>1. Len(stream') <= Len(stream)
    BY <1>2 DEF Dropped
  <2> QED
    BY <1>1, <1>2, <1>4, <2>1, StoppedOK DEF EndErr
<1> QED
  BY <1>1, <1>3, <1>4, AnswerOK

LEMMA HandOverOK == IInv /\ HandOver => IInv'
<1> SUFFICES ASSUME IInv, HandOver PROVE IInv'
  OBVIOUS
<1>1. /\ pc = "idle" /\ pc' = "idle" /\ ret' = "none" /\ results' = <<>> /\ ids' = <<>>
      /\ state' = "Ready" /\ UNCHANGED <<pending, sent, queued>> /\ TypeOK
      /\ cmds' = <<>> /\ stream' = <<>> /\ alive' \in BOOLEAN
  BY DEF IInv, TypeOK, HandOver, OpenWire, ReadyMeansAligned, wireVars
<1>2. Len(cmds') = 0 /\ Len(stream') = 0 /\ Len(results') = 0 /\ Len(ids') = 0
  BY <1>1, EmptySeq
<1>3. TypeOK'
  BY <1>1, EmptySeq DEF TypeOK
<1> QED
  BY <1>1, <1>2, <1>3, BatchAssumption
     DEF IInv, CallInv, AnswersInv, AlignInv, ReadyMeansAligned, BatchRespected

LEMMA ServerOK == IInv /\ Server => IInv'
<1> SUFFICES ASSUME IInv, Server PROVE IInv'
  OBVIOUS
<1>1. UNCHANGED <<pc, pending, ids, sent, results, state, ret, queued>> /\ TypeOK
  BY DEF IInv, Server, statVars
<1>2. /\ Len(results) \in Nat /\ Len(ids) \in Nat /\ Len(cmds) \in Nat
      /\ Len(stream) \in Nat /\ sent \in Nat /\ BatchSize \in Nat \ {0}
  BY <1>1, Lengths
<1>3. BatchEnd' = BatchEnd
  BY <1>1 DEF BatchEnd
<1>4. CallInv' /\ AnswersInv'
  BY <1>1, <1>3 DEF IInv, CallInv, AnswersInv
<1>5. CASE SendPart(StatKinds, {})
  <2>1. PICK k \in StatKinds :
          /\ cmds' \in Seq(Due) /\ stream' \in Seq(Part)
          /\ alive /\ alive' /\ Len(cmds) \in Nat \ {0} /\ Dropped(cmds', cmds)
          /\ Extended(stream', stream, [for |-> cmds[1].for, kind |-> k])
    BY <1>1, <1>5, SendPartEffect DEF IInv
  <2>2. TypeOK'
    BY <1>1, <2>1 DEF TypeOK, Due, Part
  <2>3. state # "Ready"
    BY <2>1, EmptySeq DEF IInv, ReadyMeansAligned
  <2>4. Len(cmds') = Len(cmds) - 1 /\ Len(stream') = Len(stream) + 1
    BY <2>1 DEF Dropped, Extended
  <2>5. ReadyMeansAligned' /\ BatchRespected'
    BY <1>1, <1>2, <2>3, <2>4 DEF IInv, ReadyMeansAligned, BatchRespected
  <2>6. \A i \in 1..Len(cmds') : cmds'[i] = cmds[i + 1] /\ i + 1 \in 1..Len(cmds)
    BY <1>2, <2>1, <2>4 DEF Dropped
  <2>7. \A i \in 1..Len(cmds') : cmds'[i].part = "line"
    BY <2>6 DEF IInv, AlignInv
  <2>8. ASSUME pc # "idle"
        PROVE  /\ \A i \in 1..Len(stream') : stream'[i].for = ids[Len(results) + i]
               /\ \A i \in 1..Len(cmds') : cmds'[i].for = ids[Len(results) + Len(stream') + i]
    <3>1. ASSUME NEW i \in 1..Len(stream')
          PROVE  stream'[i].for = ids[Len(results) + i]
      <4>1. CASE i = Len(stream')
        <5>1. stream'[i].for = cmds[1].for
          BY <2>1, <4>1 DEF Extended
        <5>2. cmds[1].for = ids[Len(results) + Len(stream) + 1]
          BY <1>2, <2>1, <2>8 DEF IInv, AlignInv
        <5>3. Len(results) + Len(stream) + 1 = Len(results) + i
          BY <1>2, <2>4, <4>1
        <5> QED
          BY <5>1, <5>2, <5>3
      <4>2. CASE i # Len(stream')
        <5>1. i \in 1..Len(stream) /\ stream'[i] = stream[i]
          BY <1>2, <2>1, <2>4, <4>2 DEF Extended
        <5> QED
          BY <2>8, <5>1 DEF IInv, AlignInv
      <4> QED
        BY <4>1, <4>2
    <3>2. ASSUME NEW i \in 1..Len(cmds')
          PROVE  cmds'[i].for = ids[Len(results) + Len(stream') + i]
      <4>1. cmds[i + 1].for = ids[Len(results) + Len(stream) + (i + 1)]
        BY <2>6, <2>8 DEF IInv, AlignInv
      <4>2. Len(results) + Len(stream) + (i + 1) = Len(results) + Len(stream') + i
        BY <1>2, <2>4, <3>2
      <4> QED
        BY <2>6, <4>1, <4>2
    <3> QED
      BY <3>1, <3>2
  <2>9. AlignInv'
    <3>1. ASSUME pc # "idle"
          PROVE  /\ Len(results') + Len(stream') + Len(cmds') <= sent'
                 /\ Len(results') + Len(stream') + Len(cmds') = sent'
      <4>1. /\ Len(results') = Len(results) /\ Len(stream') = Len(stream) + 1
            /\ Len(cmds') = Len(cmds) - 1 /\ sent' = sent
        BY <1>1, <2>4
      <4>2. Len(results) + Len(stream) + Len(cmds) = sent
        BY <2>1, <3>1 DEF IInv, AlignInv
      <4> QED
        BY <1>2, <4>1, <4>2
    <3> QED
      BY <1>1, <2>1, <2>7, <2>8, <3>1 DEF AlignInv
  <2> QED
    BY <1>4, <2>2, <2>5, <2>9 DEF IInv
<1>6. CASE ServerClose
  <2>1. cmds' = <<>> /\ stream' = stream /\ alive' = FALSE /\ Len(cmds') = 0
    BY <1>6, EmptySeq DEF ServerClose
  <2>2. TypeOK'
    BY <1>1, <2>1, EmptySeq DEF TypeOK
  <2>3. ReadyMeansAligned' /\ BatchRespected' /\ AlignInv'
    BY <1>1, <1>2, <2>1 DEF IInv, ReadyMeansAligned, BatchRespected, AlignInv
  <2> QED
    BY <1>4, <2>2, <2>3 DEF IInv
<1> QED
  BY <1>5, <1>6 DEF Server

LEMMA StutterOK == IInv /\ UNCHANGED vars => IInv'
  BY DEF IInv, TypeOK, CallInv, AnswersInv, AlignInv, ReadyMeansAligned, BatchRespected,
         BatchEnd, vars, statVars, wireVars

\* The invariant holds in every reachable state.
LEMMA InvCorrect == Spec => []IInv
<1>1. IInv /\ [Next]_vars => IInv'
  BY AddOK, ExecuteOK, SendStatOK, FlushOK, WriteFailOK, ReadStatOK, ReadFailOK, CancelOK,
     HandOverOK, ServerOK, StutterOK DEF Next, Client
<1> QED
  BY <1>1, InitOK, PTL DEF Spec

-----------------------------------------------------------------------------
(* The theorems                                                             *)

\* Queues, answers and session keep their types.
THEOREM StatTypeCorrect == Spec => []TypeOK
<1>1. IInv => TypeOK
  BY DEF IInv
<1> QED
  BY <1>1, InvCorrect, PTL

\* Every answer of execute() is the server's answer to that very message-id,
\* whoever used the connection before.
THEOREM StatMatched == Spec => []Matched
<1>1. IInv => Matched
  BY DEF IInv, AnswersInv, Matched
<1> QED
  BY <1>1, InvCorrect, PTL

\* execute() returns Ok only with one answer per message-id, in order.
THEOREM StatComplete == Spec => []OkMeansComplete
<1>1. IInv => OkMeansComplete
  BY DEF IInv, AnswersInv, OkMeansComplete
<1> QED
  BY <1>1, InvCorrect, PTL

\* At most STAT_BATCH_SIZE commands are ever outstanding.
THEOREM StatBatchCorrect == Spec => []BatchRespected
<1>1. IInv => BatchRespected
  BY DEF IInv
<1> QED
  BY <1>1, InvCorrect, PTL

\* A Ready connection has no reply outstanding, wherever execute() was
\* dropped and however it failed.
THEOREM StatReadyAligned == Spec => []ReadyMeansAligned
<1>1. IInv => ReadyMeansAligned
  BY DEF IInv
<1> QED
  BY <1>1, InvCorrect, PTL
=============================================================================
