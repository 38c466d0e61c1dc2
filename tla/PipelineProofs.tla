--------------------------- MODULE PipelineProofs ---------------------------
(***************************************************************************)
(* Proofs about Pipeline, for any number of requests and any depth.        *)
(*                                                                         *)
(* No request is lost, duplicated or reordered, whoever uses the           *)
(* connection (OInv).  As long as users discard a connection whose call    *)
(* they cancelled, replies and requests slip by what a failed call left in *)
(* flight and by nothing else, the window is kept, and a connection that   *)
(* looks Ready has nothing under way (WInv).                               *)
(***************************************************************************)
EXTENDS Pipeline, SequenceTheorems, FiniteSetTheorems, TLAPS

Owing == [for : 1..N, part : {"line", "body"}]
Part == [for : 1..N, kind : ReplyKinds \cup {"body"}]
Outcomes == {"found", "missing", "refused", "odd", "io", "aborted"}
Results == [req : 1..N, from : 0..N, outcome : Outcomes]

\* TypeOK in two parts, that of process_all and its users and that of the wire.
CallTypes ==
    /\ pc \in {"idle", "send", "line", "body"}
    /\ pending \in Seq(1..N) /\ inflight \in Seq(1..N) /\ asked \in Seq(1..N)
    /\ Len(inflight) <= Depth
    /\ cur \in 0..N /\ dirty \in BOOLEAN
    /\ carried \in Nat /\ sent \in Seq(1..N)
    /\ results \in Seq(Results)
    /\ state \in {"Ready", "Error"}
    /\ ret \in {"none", "ok", "err", "cancelled"}
    /\ submitted \in 0..N

WireTypes ==
    cmds \in Seq(Owing) /\ stream \in Seq(Part) /\ alive \in BOOLEAN

\* The two parts together, before a step and after it.
LEMMA TypesAre ==
    /\ TypeOK <=> CallTypes /\ WireTypes
    /\ TypeOK' <=> CallTypes' /\ WireTypes'
  BY DEF TypeOK, CallTypes, WireTypes, Owing, Part, Results, Outcomes

\* q holds the requests of a that come after the first k.
Sits(q, a, k) == \A i \in 1..Len(q) : q[i] = a[k + i]

\* The results name the first requests of a.
Names(rs, a) == \A i \in 1..Len(rs) : rs[i].req = a[i]

\* The command written last.
Last == Len(sent)

\* One request is in hand between its pop and its answer.
Hand == IF cur = 0 THEN 0 ELSE 1

\* How many requests of the call are not pending any more.
Placed == Len(asked) - Len(pending)

\* From the place of a request among those asked for to that of its command.
Shift == Len(sent) - Placed

\* Nothing on the wire that was not written on this connection.
Numbered ==
    /\ \A i \in 1..Len(cmds) : cmds[i].for <= Len(sent)
    /\ \A i \in 1..Len(stream) : stream[i].for <= Len(sent)

\* Where a call is, and how much it may have in flight.
OrderInv ==
    /\ Len(sent) + Len(pending) <= submitted
    /\ Numbered
    /\ cur # 0 <=> pc \in {"line", "body"}
    /\ pc = "idle" /\ ret = "err" => state = "Error"
    /\ pc = "idle" /\ ret \in {"err", "cancelled"} => Len(results) = 0
    /\ pc # "idle" => ret = "none" /\ Len(inflight) + Hand <= Depth

\* Answered requests, the one in hand, those in flight and those pending are, in
\* this order, what was asked; what was carried over was written before.
CallAsked ==
    /\ Len(results) + Hand + Len(inflight) + Len(pending) = Len(asked)
    /\ Names(results, asked)
    /\ cur # 0 => cur = asked[Len(results) + 1]
    /\ Sits(inflight, asked, Len(results) + Hand)
    /\ Sits(pending, asked, Placed)

\* The commands of the call are for the requests placed by the call itself.
CallSent ==
    /\ 0 <= Shift + carried /\ carried <= Placed
    /\ \A p \in carried + 1 .. Placed : sent[p + Shift] = asked[p]

AskedInv ==
    /\ pc # "idle" => CallAsked /\ CallSent
    /\ pc = "idle" /\ ret = "ok" => Tags(results) = asked

OInv == TypeOK /\ OrderInv /\ AskedInv

-----------------------------------------------------------------------------
(* Sequences                                                                *)

\* q is s without its first element.
Dropped(q, s) ==
    /\ Len(q) = Len(s) - 1
    /\ \A i \in 1..Len(q) : q[i] = s[i + 1]

\* q is s with e at its end.
Extended(q, s, e) ==
    /\ Len(q) = Len(s) + 1
    /\ q[Len(q)] = e
    /\ \A i \in 1..Len(s) : q[i] = s[i]

\* Tail drops the first element.
LEMMA TailDrops ==
    ASSUME NEW S, NEW s \in Seq(S), s # <<>>
    PROVE  /\ Tail(s) \in Seq(S) /\ Dropped(Tail(s), s)
           /\ Head(s) = s[1] /\ s[1] \in S /\ Len(s) \in Nat \ {0}
           /\ Len(Tail(s)) \in Nat
  BY HeadTailProperties, EmptySeq, ElementOfSeq, LenProperties DEF Dropped

\* Append extends.
LEMMA AppendExtends ==
    ASSUME NEW S, NEW s \in Seq(S), NEW e \in S
    PROVE  Append(s, e) \in Seq(S) /\ Extended(Append(s, e), s, e)
  BY AppendProperties, LenProperties DEF Extended

\* The oldest request leaves the queue; the next one of a joins it.
LEMMA SitsDropped ==
    ASSUME NEW q, NEW s, NEW a, NEW k \in Int, Sits(s, a, k), Dropped(q, s),
           Len(q) \in Nat, Len(s) \in Nat
    PROVE  Sits(q, a, k + 1)
<1> SUFFICES ASSUME NEW i \in 1..Len(q) PROVE q[i] = a[(k + 1) + i]
  BY DEF Sits
<1>1. i + 1 \in 1..Len(s) /\ q[i] = s[i + 1]
  BY DEF Dropped
<1>2. s[i + 1] = a[k + (i + 1)]
  BY <1>1 DEF Sits
<1>3. k + (i + 1) = (k + 1) + i
  OBVIOUS
<1> QED
  BY <1>1, <1>2, <1>3

LEMMA SitsExtended ==
    ASSUME NEW q, NEW s, NEW a, NEW k \in Int, Sits(s, a, k), Len(s) \in Nat,
           Extended(q, s, a[k + (Len(s) + 1)])
    PROVE  Sits(q, a, k)
<1> SUFFICES ASSUME NEW i \in 1..Len(q) PROVE q[i] = a[k + i]
  BY DEF Sits
<1>1. CASE i = Len(q)
  BY <1>1 DEF Extended
<1>2. CASE i # Len(q)
  BY <1>2 DEF Extended, Sits
<1> QED
  BY <1>1, <1>2

\* Queues that follow each other.
LEMMA SitsConcat ==
    ASSUME NEW S, NEW s \in Seq(S), NEW t \in Seq(S), NEW a, NEW k \in Int,
           Sits(s, a, k), Sits(t, a, k + Len(s))
    PROVE  s \o t \in Seq(S) /\ Len(s \o t) = Len(s) + Len(t) /\ Sits(s \o t, a, k)
<1>1. Len(s) \in Nat /\ Len(t) \in Nat
  BY LenProperties
<1>2. /\ s \o t \in Seq(S) /\ Len(s \o t) = Len(s) + Len(t)
      /\ \A i \in 1..Len(s) + Len(t) :
            (s \o t)[i] = IF i <= Len(s) THEN s[i] ELSE t[i - Len(s)]
  BY ConcatProperties
<1>3. ASSUME NEW i \in 1..Len(s \o t)
      PROVE  (s \o t)[i] = a[k + i]
  <2>1. i \in Nat /\ i >= 1 /\ i <= Len(s) + Len(t)
    BY <1>1, <1>2
  <2>2. CASE i <= Len(s)
    BY <1>1, <1>2, <2>1, <2>2 DEF Sits
  <2>3. CASE ~(i <= Len(s))
    <3>1. i - Len(s) \in 1..Len(t)
      BY <1>1, <2>1, <2>3
    <3>2. (s \o t)[i] = t[i - Len(s)] /\ t[i - Len(s)] = a[(k + Len(s)) + (i - Len(s))]
      BY <1>1, <1>2, <2>1, <2>3, <3>1 DEF Sits
    <3>3. (k + Len(s)) + (i - Len(s)) = k + i
      BY <1>1, <2>1
    <3> QED
      BY <3>2, <3>3
  <2> QED
    BY <2>2, <2>3
<1> QED
  BY <1>2, <1>3 DEF Sits

\* A queue and what follows it, where they are put one after the other.
LEMMA SitsInConcat ==
    ASSUME NEW S, NEW s \in Seq(S), NEW t \in Seq(S)
    PROVE  /\ s \o t \in Seq(S) /\ Len(s \o t) = Len(s) + Len(t)
           /\ Sits(s, s \o t, 0) /\ Sits(t, s \o t, Len(s))
<1>1. Len(s) \in Nat /\ Len(t) \in Nat
  BY LenProperties
<1>2. /\ s \o t \in Seq(S) /\ Len(s \o t) = Len(s) + Len(t)
      /\ \A i \in 1..Len(s) + Len(t) :
            (s \o t)[i] = IF i <= Len(s) THEN s[i] ELSE t[i - Len(s)]
  BY ConcatProperties
<1>3. ASSUME NEW i \in 1..Len(s) PROVE s[i] = (s \o t)[0 + i]
  <2>1. i \in 1..Len(s) + Len(t) /\ i <= Len(s) /\ 0 + i = i
    BY <1>1
  <2> QED
    BY <1>2, <2>1
<1>4. ASSUME NEW i \in 1..Len(t) PROVE t[i] = (s \o t)[Len(s) + i]
  <2>1. /\ Len(s) + i \in 1..Len(s) + Len(t) /\ ~(Len(s) + i <= Len(s))
        /\ (Len(s) + i) - Len(s) = i
    BY <1>1
  <2> QED
    BY <1>2, <2>1
<1> QED
  BY <1>2, <1>3, <1>4 DEF Sits

\* The lengths are numbers, and so are the bounds; the depth is at least one.
LEMMA Lengths ==
    ASSUME TypeOK
    PROVE  /\ Len(pending) \in Nat /\ Len(inflight) \in Nat /\ Len(asked) \in Nat
           /\ Len(results) \in Nat /\ Len(cmds) \in Nat /\ Len(stream) \in Nat
           /\ Len(sent) \in Nat /\ carried \in Nat
           /\ submitted \in Nat /\ cur \in Nat /\ N \in Nat /\ Depth \in Nat \ {0}
           /\ Last \in Nat /\ Hand \in {0, 1} /\ Placed \in Int /\ Shift \in Int
<1>1. N \in Nat /\ Depth \in Nat \ {0}
  BY DepthAssumption DEF Depth
<1>2. submitted \in Nat /\ cur \in Nat /\ carried \in Nat
  BY <1>1 DEF TypeOK
<1>3. /\ Len(pending) \in Nat /\ Len(inflight) \in Nat /\ Len(asked) \in Nat
      /\ Len(results) \in Nat /\ Len(cmds) \in Nat /\ Len(stream) \in Nat
      /\ Len(sent) \in Nat
  BY LenProperties DEF TypeOK
<1> QED
  BY <1>1, <1>2, <1>3 DEF Last, Hand, Placed, Shift

\* The results that drain a queue name its requests, and have no reply.
LEMMA AbortedFacts ==
    ASSUME NEW q \in Seq(1..N)
    PROVE  /\ Aborted(q) \in Seq(Results) /\ Len(Aborted(q)) = Len(q)
           /\ \A i \in 1..Len(q) : Aborted(q)[i].req = q[i] /\ Aborted(q)[i].from = 0
<1>1. Len(q) \in Nat /\ \A i \in 1..Len(q) : q[i] \in 1..N
  BY LenProperties, ElementOfSeq
<1>2. \A i \in 1..Len(q) : Result(q[i], "aborted", 0) \in Results
  BY <1>1, DepthAssumption DEF Result, Results, Outcomes
<1>3. Aborted(q) \in [1..Len(q) -> Results]
  BY <1>2 DEF Aborted
<1>4. Aborted(q) \in Seq(Results)
  BY <1>1, <1>3, SeqDef
<1>5. Len(Aborted(q)) = Len(q)
  <2>1. DOMAIN Aborted(q) = 1..Len(q)
    BY DEF Aborted
  <2>2. Len(Aborted(q)) \in Nat /\ DOMAIN Aborted(q) = 1..Len(Aborted(q))
    BY <1>4, LenProperties
  <2> QED
    BY <1>1, <2>1, <2>2
<1> QED
  BY <1>4, <1>5 DEF Aborted, Result

\* Appending the answer to the next request, or the aborted rest of the queue.
LEMMA NamesExtended ==
    ASSUME NEW q, NEW s, NEW a, Names(s, a), NEW e, Len(s) \in Nat,
           e.req = a[Len(s) + 1], Extended(q, s, e)
    PROVE  Names(q, a)
<1> SUFFICES ASSUME NEW i \in 1..Len(q) PROVE q[i].req = a[i]
  BY DEF Names
<1>1. CASE i = Len(q)
  BY <1>1 DEF Extended
<1>2. CASE i # Len(q)
  BY <1>2 DEF Extended, Names
<1> QED
  BY <1>1, <1>2

LEMMA NamesAborted ==
    ASSUME NEW rs \in Seq(Results), NEW q \in Seq(1..N), NEW a,
           Names(rs, a), Sits(q, a, Len(rs))
    PROVE  /\ rs \o Aborted(q) \in Seq(Results)
           /\ Len(rs \o Aborted(q)) = Len(rs) + Len(q)
           /\ Names(rs \o Aborted(q), a)
<1> DEFINE t == Aborted(q)
<1>1. /\ t \in Seq(Results) /\ Len(t) = Len(q)
      /\ \A i \in 1..Len(q) : t[i].req = q[i]
  BY AbortedFacts
<1>2. Len(rs) \in Nat /\ Len(q) \in Nat
  BY LenProperties
<1> HIDE DEF t
<1>3. /\ rs \o t \in Seq(Results) /\ Len(rs \o t) = Len(rs) + Len(q)
      /\ \A i \in 1..Len(rs) + Len(q) :
            (rs \o t)[i] = IF i <= Len(rs) THEN rs[i] ELSE t[i - Len(rs)]
  <2>1. t \in Seq(Results) /\ Len(t) = Len(q)
    BY <1>1
  <2>2. /\ rs \o t \in Seq(Results) /\ Len(rs \o t) = Len(rs) + Len(t)
        /\ \A i \in 1..Len(rs) + Len(t) :
              (rs \o t)[i] = IF i <= Len(rs) THEN rs[i] ELSE t[i - Len(rs)]
    BY <2>1, ConcatProperties
  <2> QED
    BY <2>1, <2>2
<1>4. ASSUME NEW i \in 1..Len(rs \o t)
      PROVE  (rs \o t)[i].req = a[i]
  <2>1. i \in Nat /\ i >= 1 /\ i <= Len(rs) + Len(q)
    BY <1>2, <1>3
  <2>2. CASE i <= Len(rs)
    BY <1>2, <1>3, <2>1, <2>2 DEF Names
  <2>3. CASE ~(i <= Len(rs))
    <3>1. i - Len(rs) \in 1..Len(q) /\ Len(rs) + (i - Len(rs)) = i
      BY <1>2, <2>1, <2>3
    <3>2. (rs \o t)[i] = t[i - Len(rs)] /\ t[i - Len(rs)].req = a[Len(rs) + (i - Len(rs))]
      BY <1>1, <1>2, <1>3, <2>1, <2>3, <3>1 DEF Sits
    <3> QED
      BY <3>1, <3>2
  <2> QED
    BY <2>2, <2>3
<1> QED
  BY <1>3, <1>4 DEF Names, t

\* Results that name all the requests that were asked for.
LEMMA TagsAreAsked ==
    ASSUME NEW rs \in Seq(Results), NEW q \in Seq(1..N), Len(rs) = Len(q), Names(rs, q)
    PROVE  Tags(rs) = q
<1>1. Len(rs) \in Nat /\ q \in [1..Len(q) -> 1..N]
  BY LenProperties
<1>2. \A i \in 1..Len(rs) : rs[i].req = q[i]
  BY DEF Names
<1>3. Tags(rs) = [i \in 1..Len(q) |-> q[i]]
  BY <1>2 DEF Tags
<1> QED
  BY <1>1, <1>3

\* The requests that results name.
LEMMA TagsSit ==
    ASSUME NEW rs \in Seq(Results), NEW a, Names(rs, a)
    PROVE  Tags(rs) \in Seq(1..N) /\ Len(Tags(rs)) = Len(rs) /\ Sits(Tags(rs), a, 0)
<1>1. Len(rs) \in Nat /\ \A i \in 1..Len(rs) : rs[i].req \in 1..N
  <2>1. Len(rs) \in Nat /\ \A i \in 1..Len(rs) : rs[i] \in Results
    BY LenProperties, ElementOfSeq
  <2> QED
    BY <2>1 DEF Results
<1>2. Tags(rs) \in [1..Len(rs) -> 1..N]
  BY <1>1 DEF Tags
<1>3. Tags(rs) \in Seq(1..N)
  <2> DEFINE S == 1..N
             n == Len(rs)
  <2>1. Tags(rs) \in [1..n -> S] /\ n \in Nat
    BY <1>1, <1>2
  <2> HIDE DEF S, n
  <2>2. Tags(rs) \in Seq(S)
    BY <2>1, SeqDef
  <2> QED
    BY <2>2 DEF S
<1>4. Len(Tags(rs)) = Len(rs)
  <2>1. DOMAIN Tags(rs) = 1..Len(rs)
    BY DEF Tags
  <2>2. Len(Tags(rs)) \in Nat /\ DOMAIN Tags(rs) = 1..Len(Tags(rs))
    BY <1>3, LenProperties
  <2> QED
    BY <1>1, <2>1, <2>2
<1>5. \A i \in 1..Len(rs) : Tags(rs)[i] = rs[i].req
  BY DEF Tags
<1>6. ASSUME NEW i \in 1..Len(Tags(rs)) PROVE Tags(rs)[i] = a[0 + i]
  <2>1. i \in 1..Len(rs) /\ 0 + i = i
    BY <1>1, <1>4
  <2> QED
    BY <1>5, <2>1 DEF Names
<1> QED
  BY <1>3, <1>4, <1>6 DEF Sits

\* Reading a part, or nothing, leaves the wire numbered.
LEMMA NumberedRead ==
    ASSUME TypeOK, Numbered, UNCHANGED <<cmds, sent>>,
           stream' = stream \/ Dropped(stream', stream)
    PROVE  Numbered'
<1>1. Len(stream) \in Nat
  BY Lengths
<1>2. ASSUME NEW i \in 1..Len(stream'), Dropped(stream', stream)
      PROVE  stream'[i].for <= Len(sent)
  <2>1. i + 1 \in 1..Len(stream) /\ stream'[i] = stream[i + 1]
    BY <1>1, <1>2 DEF Dropped
  <2> QED
    BY <2>1 DEF Numbered
<1> QED
  BY <1>2 DEF Numbered

\* Which request a part on the stream is for.
LEMMA WhoseFacts ==
    ASSUME TypeOK, Numbered, NEW i \in 1..Len(stream)
    PROVE  stream[i].for \in 1..Len(sent) /\ sent[stream[i].for] \in 1..N
<1>1. stream \in Seq(Part) /\ sent \in Seq(1..N) /\ Len(sent) \in Nat
  BY Lengths DEF TypeOK, Part
<1>2. stream[i] \in Part
  BY <1>1, ElementOfSeq
<1>3. stream[i].for \in 1..Len(sent)
  BY <1>1, <1>2 DEF Part, Numbered
<1> QED
  BY <1>1, <1>3, ElementOfSeq

-----------------------------------------------------------------------------
(* One lemma per step: what was asked is accounted for                      *)

LEMMA InitOK == Init => OInv
<1> SUFFICES ASSUME Init PROVE OInv
  OBVIOUS
<1> USE DEF Init, FreshWire
<1>1. TypeOK
  <2>1. N \in Nat /\ Depth \in Nat \ {0}
    BY DepthAssumption DEF Depth
  <2>2. Len(<<>>) = 0 /\ \A S : <<>> \in Seq(S)
    BY EmptySeq
  <2>3. /\ Len(inflight) <= Depth /\ cur \in 0..N /\ submitted \in 0..N /\ carried \in Nat
        /\ pending \in Seq(1..N) /\ inflight \in Seq(1..N) /\ asked \in Seq(1..N)
        /\ sent \in Seq(1..N)
    BY <2>1, <2>2
  <2> QED
    BY <2>2, <2>3 DEF TypeOK
<1>2. Len(<<>>) = 0 /\ \A i \in 1..0 : FALSE
  OBVIOUS
<1> QED
  BY <1>1, <1>2 DEF OInv, OrderInv, AskedInv, Numbered

LEMMA SubmitOK == OInv /\ Submit => OInv'
<1> SUFFICES ASSUME OInv, Submit PROVE OInv'
  OBVIOUS
<1>1. /\ TypeOK /\ pc = "idle" /\ submitted < N /\ submitted' = submitted + 1
      /\ pending' = Append(pending, submitted + 1)
      /\ UNCHANGED <<pc, inflight, cur, dirty, results, state, ret, asked, carried, sent,
                     cmds, stream, alive>>
  BY DEF OInv, Submit, wireVars
<1>2. submitted' \in 0..N /\ submitted + 1 \in 1..N
  <2>1. N \in Nat /\ submitted \in Nat
    BY <1>1, Lengths
  <2>2. submitted < N /\ submitted' = submitted + 1
    BY <1>1
  <2> QED
    BY <2>1, <2>2
<1>3. pending' \in Seq(1..N) /\ Len(pending') = Len(pending) + 1
  BY <1>1, <1>2, AppendExtends DEF TypeOK, Extended
<1>4. TypeOK'
  <2>1. CallTypes'
    BY <1>1, <1>2, <1>3, TypesAre DEF CallTypes
  <2>2. WireTypes'
    BY <1>1, TypesAre DEF WireTypes
  <2> QED
    BY <2>1, <2>2, TypesAre
<1>5. Len(sent') + Len(pending') <= submitted'
  <2>1. Len(sent) + Len(pending) <= submitted
    BY DEF OInv, OrderInv
  <2>2. Len(sent) \in Nat /\ Len(pending) \in Nat /\ submitted \in Nat
    BY <1>1, Lengths
  <2> QED
    BY <1>1, <1>3, <2>1, <2>2
<1>6. OrderInv'
  BY <1>1, <1>5 DEF OInv, OrderInv, Numbered
<1>7. AskedInv'
  BY <1>1 DEF OInv, AskedInv, Tags
<1> QED
  BY <1>4, <1>6, <1>7 DEF OInv

\* The requests still in flight and those pending are what a call starts with.
LEMMA StartOK == OInv /\ Start => OInv'
<1> SUFFICES ASSUME OInv, Start PROVE OInv'
  OBVIOUS
<1>1. /\ TypeOK /\ pc = "idle" /\ pc' = "send" /\ ret' = "none"
      /\ asked' = inflight \o pending /\ carried' = Len(inflight) /\ results' = <<>>
      /\ UNCHANGED <<pending, inflight, cur, dirty, state, submitted, sent, cmds, stream, alive>>
  BY DEF OInv, Start, wireVars
<1>2. cur = 0 /\ Hand' = 0 /\ Len(inflight) <= Depth /\ inflight \in Seq(1..N) /\ pending \in Seq(1..N)
  BY <1>1 DEF OInv, OrderInv, TypeOK, Hand
<1>3. /\ asked' \in Seq(1..N) /\ Len(asked') = Len(inflight) + Len(pending)
      /\ Sits(inflight, asked', 0) /\ Sits(pending, asked', Len(inflight))
  BY <1>1, <1>2, SitsInConcat
<1>4. /\ Len(inflight) \in Nat /\ Len(pending) \in Nat /\ Len(sent) \in Nat
      /\ Len(results') = 0 /\ Depth \in Nat \ {0}
  BY <1>1, Lengths, EmptySeq
<1>5. TypeOK'
  BY <1>1, <1>3, <1>4, EmptySeq DEF TypeOK
<1>6. OrderInv'
  <2>1. Len(inflight') + Hand' <= Depth
    BY <1>1, <1>2, <1>4
  <2> QED
    BY <1>1, <1>2, <2>1 DEF OInv, OrderInv, Numbered, Depth
<1>7. Placed' = Len(inflight) /\ Shift' = Len(sent) - Len(inflight)
  BY <1>1, <1>3, <1>4 DEF Placed, Shift
<1>8. CallAsked'
  <2>1. Len(results') + Hand' + Len(inflight') + Len(pending') = Len(asked')
    BY <1>1, <1>2, <1>3, <1>4
  <2>2. Names(results', asked')
    BY <1>4 DEF Names
  <2>3. Sits(inflight', asked', Len(results') + Hand')
    BY <1>1, <1>2, <1>3, <1>4
  <2>4. Sits(pending', asked', Placed')
    BY <1>1, <1>3, <1>7
  <2> QED
    BY <1>1, <1>2, <2>1, <2>2, <2>3, <2>4 DEF CallAsked
<1>9. CallSent'
  <2>1. 0 <= Shift' + carried' /\ carried' <= Placed'
    BY <1>1, <1>4, <1>7
  <2>2. \A p \in carried' + 1 .. Placed' : FALSE
    BY <1>1, <1>4, <1>7
  <2> QED
    BY <2>1, <2>2 DEF CallSent
<1> QED
  BY <1>1, <1>5, <1>6, <1>8, <1>9 DEF OInv, AskedInv

\* A call that failed or was dropped leaves its queues, less what it popped.
LEMMA FailOK ==
    ASSUME OInv, NEW e \in {"err", "cancelled"}, Fail(e),
           pending' = pending \/ (pending # <<>> /\ pending' = Tail(pending)),
           UNCHANGED <<inflight, submitted, asked, carried, sent, cmds, alive>>,
           stream' = stream \/ (stream' \in Seq(Part) /\ Dropped(stream', stream))
    PROVE  OInv'
<1>1. /\ TypeOK /\ pc' = "idle" /\ ret' = e /\ results' = <<>> /\ cur' = 0 /\ dirty' = FALSE
      /\ state' = (IF e = "err" THEN "Error" ELSE state)
  BY DEF OInv, Fail
<1>2. pending' \in Seq(1..N) /\ Len(pending') \in Nat /\ Len(pending') <= Len(pending)
  <2>1. pending \in Seq(1..N) /\ Len(pending) \in Nat
    BY <1>1, Lengths DEF TypeOK
  <2>2. CASE pending # <<>> /\ pending' = Tail(pending)
    BY <2>1, <2>2, TailDrops DEF Dropped
  <2> QED
    BY <2>1, <2>2
<1>3. TypeOK'
  <2>1. cur' \in 0..N /\ state' \in {"Ready", "Error"} /\ results' \in Seq(Results)
    BY <1>1, EmptySeq, DepthAssumption DEF TypeOK
  <2> QED
    <3>1. CallTypes'
      BY <1>1, <1>2, <2>1, TypesAre DEF CallTypes
    <3>2. WireTypes'
      BY <1>1, TypesAre DEF WireTypes
    <3> QED
      BY <3>1, <3>2, TypesAre
<1>4. Len(sent') + Len(pending') <= submitted'
  <2>1. Len(sent) + Len(pending) <= submitted
    BY DEF OInv, OrderInv
  <2> QED
    <3>1. Len(sent) \in Nat /\ Len(pending) \in Nat /\ submitted \in Nat
      BY <1>1, Lengths
    <3>2. sent' = sent /\ submitted' = submitted
      BY <1>1
    <3> QED
      BY <1>2, <2>1, <3>1, <3>2
<1>5. Numbered'
  BY <1>1, NumberedRead DEF OInv, OrderInv
<1> QED
  BY <1>1, <1>3, <1>4, <1>5 DEF OInv, OrderInv, AskedInv

LEMMA SendFailOK == OInv /\ SendFail => OInv'
  BY FailOK DEF SendFail, CanSend, wireVars, histVars

LEMMA FlushFailOK == OInv /\ FlushFail => OInv'
  BY FailOK DEF FlushFail, wireVars, histVars

LEMMA ReadStatusFailOK == OInv /\ ReadStatusFail => OInv'
  BY FailOK DEF ReadStatusFail, wireVars, histVars

LEMMA CancelOK == OInv /\ Cancel => OInv'
<1> SUFFICES ASSUME OInv, Cancel PROVE OInv'
  OBVIOUS
<1>1. pending' = pending \/ (pending # <<>> /\ pending' = Tail(pending))
  BY DEF Cancel, CanSend
<1> QED
  BY <1>1, FailOK DEF Cancel, wireVars, histVars

\* The client writes a command.
LEMMA WriteCmdEffect ==
    ASSUME NEW r \in 1..N, TypeOK, WriteCmd(r)
    PROVE  /\ cmds' \in Seq(Owing) /\ Len(cmds') \in Nat
           /\ IF alive THEN Extended(cmds', cmds, [for |-> r, part |-> "line"])
                       ELSE cmds' = cmds
<1>1. [for |-> r, part |-> "line"] \in Owing /\ cmds \in Seq(Owing)
  BY DEF Owing, TypeOK
<1> QED
  BY <1>1, AppendExtends, LenProperties DEF WriteCmd

\* One request moves from the pending queue into flight, and is written.
LEMMA SendOneFacts ==
    ASSUME OInv, SendOne
    PROVE  /\ TypeOK /\ pc = "send" /\ WriteCmd(Last + 1) /\ Last + 1 \in 1..N
           /\ Head(pending) \in 1..N /\ Head(pending) = pending[1]
           /\ Extended(sent', sent, pending[1]) /\ sent' \in Seq(1..N) /\ Last' = Last + 1
           /\ Len(inflight) < Depth
           /\ pending' \in Seq(1..N) /\ Dropped(pending', pending)
           /\ Len(pending) \in Nat \ {0} /\ Len(pending') = Len(pending) - 1
           /\ inflight' \in Seq(1..N) /\ Extended(inflight', inflight, pending[1])
           /\ Len(inflight') = Len(inflight) + 1
           /\ cur = 0 /\ Hand = 0 /\ Hand' = 0 /\ cur' = 0
           /\ Placed' = Placed + 1 /\ Shift' = Shift
           /\ UNCHANGED <<pc, results, state, ret, submitted, asked, carried, stream, alive>>
<1>1. /\ TypeOK /\ pc = "send" /\ pending # <<>> /\ Len(inflight) < Depth
      /\ sent' = Append(sent, Head(pending)) /\ WriteCmd(Len(sent'))
      /\ inflight' = Append(inflight, Head(pending)) /\ pending' = Tail(pending)
      /\ UNCHANGED <<pc, cur, results, state, ret, submitted, asked, carried, stream, alive>>
  BY DEF OInv, SendOne, CanSend
<1>2. /\ pending \in Seq(1..N) /\ inflight \in Seq(1..N) /\ sent \in Seq(1..N)
      /\ submitted \in 0..N /\ Len(sent) \in Nat /\ Len(asked) \in Nat /\ N \in Nat
      /\ Len(inflight) \in Nat
      /\ (cur # 0 <=> pc \in {"line", "body"}) /\ Len(sent) + Len(pending) <= submitted
  BY <1>1, Lengths DEF OInv, OrderInv, TypeOK
<1>3. /\ pending' \in Seq(1..N) /\ Dropped(pending', pending) /\ Head(pending) = pending[1]
      /\ pending[1] \in 1..N /\ Len(pending) \in Nat \ {0} /\ Len(pending') \in Nat
  BY <1>1, <1>2, TailDrops
<1>4. inflight' \in Seq(1..N) /\ Extended(inflight', inflight, pending[1])
  BY <1>1, <1>2, <1>3, AppendExtends
<1>5. sent' \in Seq(1..N) /\ Extended(sent', sent, pending[1]) /\ Len(sent') = Len(sent) + 1
  BY <1>1, <1>2, <1>3, AppendExtends DEF Extended
<1>6. Last' = Last + 1 /\ Last + 1 \in 1..N /\ WriteCmd(Last + 1)
  BY <1>1, <1>2, <1>3, <1>5 DEF Last
<1>7. Len(pending') = Len(pending) - 1 /\ Len(inflight') = Len(inflight) + 1
  BY <1>3, <1>4 DEF Dropped, Extended
<1>8. Placed' = Placed + 1 /\ Shift' = Shift
  BY <1>1, <1>2, <1>3, <1>5, <1>7 DEF Placed, Shift
<1>9. cur = 0 /\ cur' = 0 /\ Hand = 0 /\ Hand' = 0
  BY <1>1, <1>2 DEF Hand
<1> QED
  BY <1>1, <1>3, <1>4, <1>5, <1>6, <1>7, <1>8, <1>9

LEMMA SendOneOK == OInv /\ SendOne => OInv'
<1> SUFFICES ASSUME OInv, SendOne PROVE OInv'
  OBVIOUS
<1>1. /\ TypeOK /\ pc = "send" /\ WriteCmd(Last + 1) /\ Last + 1 \in 1..N
      /\ Extended(sent', sent, pending[1]) /\ sent' \in Seq(1..N) /\ Last' = Last + 1
      /\ Len(inflight) < Depth
      /\ pending' \in Seq(1..N) /\ Dropped(pending', pending)
      /\ Len(pending) \in Nat \ {0} /\ Len(pending') = Len(pending) - 1
      /\ inflight' \in Seq(1..N) /\ Extended(inflight', inflight, pending[1])
      /\ Len(inflight') = Len(inflight) + 1
      /\ cur = 0 /\ Hand = 0 /\ Hand' = 0 /\ cur' = 0
      /\ Placed' = Placed + 1 /\ Shift' = Shift
      /\ UNCHANGED <<pc, results, state, ret, submitted, asked, carried, stream, alive>>
  BY SendOneFacts
<1>2. dirty' = TRUE
  BY DEF SendOne
<1>3. /\ cmds' \in Seq(Owing) /\ Len(cmds) \in Nat
      /\ IF alive THEN Extended(cmds', cmds, [for |-> Last + 1, part |-> "line"])
                  ELSE cmds' = cmds
  BY <1>1, WriteCmdEffect, Lengths
<1>4. /\ Len(inflight) \in Nat /\ Depth \in Nat \ {0} /\ submitted \in Nat /\ Last \in Nat
      /\ Len(asked) \in Nat /\ Len(results) \in Nat /\ carried \in Nat /\ Last = Len(sent)
      /\ Placed \in Int /\ Shift \in Int
  BY <1>1, Lengths DEF Last
<1>5. TypeOK'
  <2>1. Len(inflight') <= Depth
    BY <1>1, <1>4
  <2> QED
    BY <1>1, <1>2, <1>3, <2>1 DEF TypeOK, Owing, Depth
<1>6. CallAsked /\ CallSent /\ Numbered /\ Len(sent) + Len(pending) <= submitted
      /\ ret = "none"
  BY <1>1 DEF OInv, OrderInv, AskedInv
<1>7. Numbered'
  <2>1. stream \in Seq(Part) /\ cmds \in Seq(Owing)
    BY <1>1 DEF TypeOK, Part, Owing
  <2>2. /\ \A i \in 1..Len(stream) : stream[i].for \in Int
        /\ \A i \in 1..Len(cmds) : cmds[i].for \in Int
    <3>1. /\ \A i \in 1..Len(stream) : stream[i] \in Part
          /\ \A i \in 1..Len(cmds) : cmds[i] \in Owing
      BY <2>1, ElementOfSeq
    <3> QED
      BY <3>1 DEF Part, Owing
  <2>3. Len(sent') = Len(sent) + 1 /\ Len(sent) \in Nat
    BY <1>1, <1>4 DEF Last
  <2>4. \A i \in 1..Len(stream') : stream'[i].for <= Len(sent')
    BY <1>1, <1>6, <2>2, <2>3 DEF Numbered
  <2>5. ASSUME NEW i \in 1..Len(cmds') PROVE cmds'[i].for <= Len(sent')
    <3>1. CASE i \in 1..Len(cmds) /\ cmds'[i] = cmds[i]
      BY <1>6, <2>2, <2>3, <3>1 DEF Numbered
    <3>2. CASE cmds'[i] = [for |-> Last + 1, part |-> "line"]
      BY <1>4, <2>3, <3>2
    <3>3. \/ i \in 1..Len(cmds) /\ cmds'[i] = cmds[i]
          \/ cmds'[i] = [for |-> Last + 1, part |-> "line"]
      BY <1>3 DEF Extended
    <3> QED
      BY <3>1, <3>2, <3>3
  <2> QED
    BY <2>4, <2>5 DEF Numbered
<1>8. OrderInv'
  <2>1. Len(inflight') + Hand' <= Depth /\ Len(sent') + Len(pending') <= submitted'
    BY <1>1, <1>4, <1>6 DEF Last
  <2> QED
    BY <1>1, <1>6, <1>7, <2>1 DEF OrderInv, Depth
<1>9. Len(results) + Len(inflight) = Placed
  BY <1>1, <1>4, <1>6 DEF CallAsked, Placed
<1>10. pending[1] = asked[Placed + 1]
  BY <1>1, <1>6 DEF CallAsked, Sits
<1>11. CallAsked'
  <2>1. Len(results') + Hand' + Len(inflight') + Len(pending') = Len(asked')
    <3>1. Len(results) + Hand + Len(inflight) + Len(pending) = Len(asked)
      BY <1>6 DEF CallAsked
    <3>2. UNCHANGED <<results, asked>>
      BY <1>1
    <3> QED
      <4>1. Len(results') = Len(results) /\ Len(asked') = Len(asked) /\ Hand' = 0 /\ Hand = 0
        BY <1>1, <3>2
      <4>2. Len(inflight') = Len(inflight) + 1 /\ Len(pending') = Len(pending) - 1
        BY <1>1
      <4>3. /\ Len(results) \in Nat /\ Len(inflight) \in Nat /\ Len(asked) \in Nat
            /\ Len(pending) \in Nat
        BY <1>1, <1>4
      <4> QED
        BY <3>1, <4>1, <4>2, <4>3
  <2>2. Sits(inflight', asked, Len(results))
    <3>1. Sits(inflight, asked, Len(results))
      <4>1. Len(results) + Hand = Len(results)
        BY <1>1, <1>4
      <4> QED
        BY <1>6, <4>1 DEF CallAsked
    <3>2. pending[1] = asked[Len(results) + (Len(inflight) + 1)]
      <4>1. Len(results) + (Len(inflight) + 1) = Placed + 1
        BY <1>4, <1>9
      <4> QED
        BY <1>10, <4>1
    <3>3. Extended(inflight', inflight, asked[Len(results) + (Len(inflight) + 1)])
      BY <1>1, <3>2
    <3> QED
      BY <1>4, <3>1, <3>3, SitsExtended
  <2>3. Sits(pending', asked, Placed + 1)
    <3>1. Sits(pending, asked, Placed)
      BY <1>6 DEF CallAsked
    <3> QED
      BY <1>1, <1>4, <3>1, SitsDropped
  <2>4. Len(results') + Hand' = Len(results)
    BY <1>1, <1>4
  <2> QED
    BY <1>1, <1>6, <2>1, <2>2, <2>3, <2>4 DEF CallAsked
<1>12. CallSent'
  <2>1. carried' <= Placed' /\ 0 <= Shift' + carried'
    BY <1>1, <1>4, <1>6 DEF CallSent
  <2>2. ASSUME NEW p \in carried + 1 .. Placed + 1 PROVE sent'[p + Shift] = asked[p]
    <3>1. Placed + Shift = Len(sent) /\ p \in Int
      BY <1>4 DEF Shift, Last
    <3>2. CASE p = Placed + 1
      <4>1. p + Shift = Len(sent') /\ sent'[Len(sent')] = pending[1]
        BY <1>1, <1>4, <3>1, <3>2 DEF Extended
      <4> QED
        BY <1>10, <3>2, <4>1
    <3>3. CASE p # Placed + 1
      <4>1. p \in carried + 1 .. Placed /\ p + Shift \in 1..Len(sent)
        BY <1>4, <1>6, <3>1, <3>3 DEF CallSent
      <4> QED
        BY <1>1, <1>6, <4>1 DEF CallSent, Extended
    <3> QED
      BY <3>2, <3>3
  <2> QED
    BY <1>1, <2>1, <2>2 DEF CallSent
<1> QED
  BY <1>1, <1>5, <1>8, <1>11, <1>12 DEF OInv, AskedInv

\* The flush succeeded: the oldest request is popped, or the call is done.
LEMMA SendDoneOK == OInv /\ SendDone => OInv'
<1> SUFFICES ASSUME OInv, SendDone PROVE OInv'
  OBVIOUS
<1>1. /\ TypeOK /\ pc = "send" /\ ~CanSend /\ dirty' = FALSE
      /\ UNCHANGED <<pending, results, state, submitted, asked, carried, sent, cmds, stream, alive>>
  BY DEF OInv, SendDone, wireVars, histVars
<1>2. /\ Len(pending) \in Nat /\ Len(inflight) \in Nat /\ Depth \in Nat \ {0}
      /\ Len(asked) \in Nat /\ Len(results) \in Nat
  BY <1>1, Lengths
<1>3. /\ cur = 0 /\ Hand = 0 /\ ret = "none" /\ CallAsked /\ CallSent /\ Numbered
      /\ Len(sent) + Len(pending) <= submitted /\ Len(inflight) + Hand <= Depth
  BY <1>1 DEF OInv, OrderInv, AskedInv, Hand
<1>4. Numbered' /\ Placed' = Placed /\ CallSent'
  BY <1>1, <1>3 DEF Numbered, Placed, CallSent, Shift
<1>5. CASE inflight = <<>>
  <2>1. pc' = "idle" /\ ret' = "ok" /\ UNCHANGED <<cur, inflight>>
    BY <1>5 DEF SendDone
  <2>2. Len(inflight) = 0
    BY <1>5, EmptySeq
  <2>3. Len(pending) = 0
    BY <1>1, <1>2, <2>2, EmptySeq DEF CanSend
  <2>4. TypeOK'
    BY <1>1, <2>1 DEF TypeOK
  <2>5. OrderInv'
    BY <1>1, <1>3, <1>4, <2>1 DEF OrderInv
  <2>6. Tags(results) = asked
    <3>1. Len(results) = Len(asked) /\ Names(results, asked)
      BY <1>2, <1>3, <2>2, <2>3 DEF CallAsked
    <3>2. results \in Seq(Results) /\ asked \in Seq(1..N)
      BY <1>1 DEF TypeOK, Results, Outcomes
    <3> QED
      BY <3>1, <3>2, TagsAreAsked
  <2> QED
    BY <1>1, <2>1, <2>4, <2>5, <2>6 DEF OInv, AskedInv, Tags
<1>6. CASE inflight # <<>>
  <2>1. pc' = "line" /\ cur' = Head(inflight) /\ inflight' = Tail(inflight) /\ ret' = ret
    BY <1>6 DEF SendDone
  <2>2. /\ inflight' \in Seq(1..N) /\ Dropped(inflight', inflight) /\ cur' = inflight[1]
        /\ inflight[1] \in 1..N /\ Len(inflight) \in Nat \ {0} /\ Len(inflight') \in Nat
    BY <1>1, <1>6, <2>1, TailDrops DEF TypeOK
  <2>3. Len(inflight') = Len(inflight) - 1 /\ cur' # 0 /\ Hand' = 1
    BY <2>2 DEF Dropped, Hand
  <2>4. TypeOK'
    <3>1. cur' \in 0..N /\ Len(inflight') <= Depth
      BY <1>1, <1>2, <1>3, <2>2, <2>3 DEF TypeOK
    <3> QED
      BY <1>1, <2>1, <2>2, <3>1 DEF TypeOK
  <2>5. OrderInv'
    <3>1. Len(inflight') + Hand' <= Depth
      BY <1>2, <1>3, <2>3
    <3> QED
      BY <1>1, <1>3, <1>4, <2>1, <2>3, <3>1 DEF OrderInv, Depth
  <2>6. CallAsked'
    <3>1. Sits(inflight, asked, Len(results))
      <4>1. Len(results) + Hand = Len(results)
        BY <1>2, <1>3
      <4> QED
        BY <1>3, <4>1 DEF CallAsked
    <3>2. cur' = asked[Len(results) + 1]
      BY <2>2, <3>1 DEF Sits
    <3>3. Sits(inflight', asked, Len(results) + 1)
      BY <1>2, <2>2, <3>1, SitsDropped
    <3>4. Len(results') + Hand' + Len(inflight') + Len(pending') = Len(asked')
      BY <1>1, <1>2, <1>3, <2>3 DEF CallAsked
    <3> QED
      BY <1>1, <1>3, <1>4, <2>3, <3>2, <3>3, <3>4 DEF CallAsked
  <2> QED
    BY <1>4, <2>1, <2>4, <2>5, <2>6 DEF OInv, AskedInv
<1> QED
  BY <1>5, <1>6

\* What a call knows while it has a request in hand.
LEMMA InHandFacts ==
    ASSUME OInv, pc \in {"line", "body"}
    PROVE  /\ TypeOK /\ cur \in 1..N /\ Hand = 1 /\ ret = "none"
           /\ Len(pending) \in Nat /\ Len(inflight) \in Nat /\ Depth \in Nat \ {0}
           /\ Len(asked) \in Nat /\ Len(results) \in Nat /\ carried \in Nat
           /\ Last \in Nat /\ Last = Len(sent) /\ Placed \in Int /\ Shift \in Int
           /\ cur = asked[Len(results) + 1] /\ Names(results, asked)
           /\ Sits(inflight, asked, Len(results) + 1) /\ Sits(pending, asked, Placed)
           /\ Len(results) + 1 + Len(inflight) + Len(pending) = Len(asked)
           /\ Len(results) + 1 + Len(inflight) = Placed
           /\ Len(inflight) + 1 <= Depth /\ CallSent /\ Numbered
           /\ Len(sent) + Len(pending) <= submitted
<1>1. /\ TypeOK /\ cur # 0 /\ Hand = 1 /\ ret = "none" /\ CallAsked /\ CallSent /\ Numbered
      /\ Len(inflight) + Hand <= Depth /\ Len(sent) + Len(pending) <= submitted
  BY DEF OInv, OrderInv, AskedInv, Hand
<1>2. /\ Len(pending) \in Nat /\ Len(inflight) \in Nat /\ Depth \in Nat \ {0}
      /\ Len(asked) \in Nat /\ Len(results) \in Nat /\ carried \in Nat
      /\ Last \in Nat /\ Last = Len(sent) /\ Placed \in Int /\ Shift \in Int
  BY <1>1, Lengths DEF Last
<1>3. cur \in 1..N
  BY <1>1, DepthAssumption DEF TypeOK
<1>4. /\ Len(results) + 1 + Len(inflight) + Len(pending) = Len(asked)
      /\ Sits(inflight, asked, Len(results) + 1)
  BY <1>1 DEF CallAsked
<1>5. Len(results) + 1 + Len(inflight) = Placed
  BY <1>2, <1>4 DEF Placed
<1> QED
  BY <1>1, <1>2, <1>3, <1>4, <1>5 DEF CallAsked

\* The result for the request in hand.
LEMMA ResultFacts ==
    ASSUME OInv, pc \in {"line", "body"}, NEW o \in Outcomes, NEW f \in 0..N
    PROVE  LET rs == Append(results, Result(cur, o, f)) IN
             /\ rs \in Seq(Results) /\ Extended(rs, results, Result(cur, o, f))
             /\ Len(rs) = Len(results) + 1 /\ Names(rs, asked)
<1>1. /\ TypeOK /\ cur \in 1..N /\ Names(results, asked) /\ Len(results) \in Nat
      /\ cur = asked[Len(results) + 1]
  BY InHandFacts
<1> DEFINE r == Result(cur, o, f)
           rs == Append(results, r)
<1>2. r \in Results /\ r.req = cur
  BY <1>1 DEF Result, Results
<1>3. results \in Seq(Results)
  BY <1>1 DEF TypeOK, Results, Outcomes
<1> HIDE DEF r
<1>4. rs \in Seq(Results) /\ Extended(rs, results, r)
  BY <1>2, <1>3, AppendExtends
<1>5. Len(rs) = Len(results) + 1
  BY <1>4 DEF Extended
<1> HIDE DEF rs
<1>6. Names(rs, asked)
  BY <1>1, <1>2, <1>4, NamesExtended
<1> QED
  BY <1>4, <1>5, <1>6 DEF rs, r

\* A request is answered and the call goes on.
LEMMA AnswerOK ==
    ASSUME OInv, pc \in {"line", "body"}, NEW o \in Outcomes, NEW f \in 1..N, Answer(o, f),
           UNCHANGED <<dirty, submitted, asked, carried, sent, cmds, alive>>,
           state' \in {"Ready", "Error"}, stream' \in Seq(Part), Numbered'
    PROVE  OInv'
<1>1. /\ TypeOK /\ cur \in 1..N /\ Hand = 1 /\ ret = "none"
      /\ Len(pending) \in Nat /\ Len(inflight) \in Nat /\ Depth \in Nat \ {0}
      /\ Len(asked) \in Nat /\ Len(results) \in Nat
      /\ Sits(inflight, asked, Len(results) + 1) /\ Sits(pending, asked, Placed)
      /\ Len(results) + 1 + Len(inflight) + Len(pending) = Len(asked)
      /\ Len(inflight) + 1 <= Depth /\ CallSent
      /\ Len(sent) + Len(pending) <= submitted
  BY InHandFacts
<1>2. /\ results' = Append(results, Result(cur, o, f)) /\ cur' = 0 /\ pc' = "send"
      /\ UNCHANGED <<pending, inflight, ret>>
  BY DEF Answer
<1>3. results' \in Seq(Results) /\ Len(results') = Len(results) + 1 /\ Names(results', asked)
  <2>1. f \in 0..N
    BY <1>1, Lengths
  <2> QED
    BY <1>2, <2>1, ResultFacts
<1>4. Hand' = 0 /\ Placed' = Placed /\ CallSent'
  BY <1>1, <1>2 DEF Hand, Placed, CallSent, Shift
<1>5. TypeOK'
  <2>1. cur' \in 0..N
    BY <1>2, DepthAssumption
  <2> QED
    BY <1>1, <1>2, <1>3, <2>1 DEF TypeOK, Part, Results, Outcomes
<1>6. OrderInv'
  <2>1. Len(inflight') + Hand' <= Depth
    BY <1>1, <1>2, <1>4
  <2> QED
    BY <1>1, <1>2, <1>4, <2>1 DEF OrderInv, Depth
<1>7. CallAsked'
  <2>1. Len(results') + Hand' + Len(inflight') + Len(pending') = Len(asked)
        /\ Len(results') + Hand' = Len(results) + 1
    BY <1>1, <1>2, <1>3, <1>4
  <2> QED
    BY <1>1, <1>2, <1>3, <1>4, <2>1 DEF CallAsked
<1> QED
  BY <1>2, <1>4, <1>5, <1>6, <1>7 DEF OInv, AskedInv

\* A fatal error drains both queues: the call returns a result for each.
LEMMA AbortOK ==
    ASSUME OInv, pc \in {"line", "body"}, NEW o \in Outcomes, NEW f \in 0..N, Abort(o, f),
           UNCHANGED <<dirty, submitted, asked, carried, sent, cmds, alive>>, state' = "Error",
           stream' \in Seq(Part), Numbered'
    PROVE  OInv'
<1>1. /\ TypeOK /\ cur \in 1..N /\ Hand = 1 /\ ret = "none"
      /\ Len(pending) \in Nat /\ Len(inflight) \in Nat /\ Depth \in Nat \ {0}
      /\ Len(asked) \in Nat /\ Len(results) \in Nat
      /\ Sits(inflight, asked, Len(results) + 1) /\ Sits(pending, asked, Placed)
      /\ Len(results) + 1 + Len(inflight) + Len(pending) = Len(asked)
      /\ Len(results) + 1 + Len(inflight) = Placed
      /\ Len(sent) + Len(pending) <= submitted
  BY InHandFacts
<1> DEFINE rs == Append(results, Result(cur, o, f))
<1>2. /\ results' = (rs \o Aborted(inflight)) \o Aborted(pending)
      /\ inflight' = <<>> /\ pending' = <<>> /\ cur' = 0 /\ pc' = "idle" /\ ret' = "ok"
  BY DEF Abort
<1>3. rs \in Seq(Results) /\ Len(rs) = Len(results) + 1 /\ Names(rs, asked)
  BY ResultFacts
<1> HIDE DEF rs
<1>4. inflight \in Seq(1..N) /\ pending \in Seq(1..N) /\ asked \in Seq(1..N)
  BY <1>1 DEF TypeOK
<1> DEFINE rt == rs \o Aborted(inflight)
<1>5. rt \in Seq(Results) /\ Len(rt) = Len(rs) + Len(inflight) /\ Names(rt, asked)
  <2>1. Sits(inflight, asked, Len(rs))
    BY <1>1, <1>3
  <2> QED
    BY <1>3, <1>4, <2>1, NamesAborted
<1> HIDE DEF rt
<1>6. /\ results' \in Seq(Results) /\ Len(results') = Len(rt) + Len(pending)
      /\ Names(results', asked)
  <2>1. results' = rt \o Aborted(pending)
    BY <1>2 DEF rt
  <2>2. Len(rt) = Placed
    BY <1>1, <1>3, <1>5
  <2>3. Sits(pending, asked, Len(rt))
    BY <1>1, <2>2
  <2> QED
    BY <1>4, <1>5, <2>1, <2>3, NamesAborted
<1>7. Len(results') = Len(asked)
  BY <1>1, <1>3, <1>5, <1>6
<1>8. Tags(results') = asked
  BY <1>4, <1>6, <1>7, TagsAreAsked
<1>9. TypeOK'
  <2>1. cur' \in 0..N /\ Len(inflight') <= Depth
        /\ inflight' \in Seq(1..N) /\ pending' \in Seq(1..N)
    BY <1>1, <1>2, EmptySeq, DepthAssumption
  <2> QED
    <3>1. CallTypes'
      BY <1>1, <1>2, <1>6, <2>1, TypesAre DEF CallTypes
    <3>2. WireTypes'
      BY <1>1, <1>2, TypesAre DEF WireTypes
    <3> QED
      BY <3>1, <3>2, TypesAre
<1>10. OrderInv'
  <2>1. Len(sent') + Len(pending') <= submitted'
    <3>1. Len(sent) \in Nat /\ Len(pending) \in Nat /\ submitted \in Nat
      BY <1>1, Lengths
    <3>2. Len(pending') = 0
      BY <1>2, EmptySeq
    <3>3. sent' = sent /\ submitted' = submitted /\ Len(sent) + Len(pending) <= submitted
      BY <1>1
    <3> QED
      BY <3>1, <3>2, <3>3
  <2> QED
    BY <1>2, <2>1 DEF OrderInv
<1> QED
  BY <1>2, <1>8, <1>9, <1>10 DEF OInv, AskedInv, Tags

\* The client reads one part.
LEMMA TakePartEffect ==
    ASSUME TypeOK, TakePart
    PROVE  /\ stream' \in Seq(Part) /\ Dropped(stream', stream) /\ Len(stream') \in Nat
           /\ Head(stream) = stream[1] /\ stream[1] \in Part /\ Len(stream) \in Nat \ {0}
           /\ cmds' = cmds /\ alive' = alive
<1>1. stream \in Seq(Part) /\ stream # <<>>
  BY DEF TypeOK, Part, TakePart
<1> QED
  BY <1>1, TailDrops DEF TakePart

\* The cases of a status line.
LEMMA ReadStatusCases ==
    ASSUME ReadStatus, TypeOK
    PROVE  LET part == stream[1]  whose == sent[stream[1].for] IN
           \/ /\ part.kind = "found" /\ pc' = "body"
              /\ UNCHANGED <<cur, results, pending, inflight, ret, state, dirty>>
           \/ part.kind = "missing" /\ Answer("missing", whose) /\ UNCHANGED <<state, dirty>>
           \/ part.kind = "refused" /\ Abort("refused", whose) /\ state' = "Error" /\ dirty' = dirty
           \/ part.kind = "odd" /\ Answer("odd", whose) /\ state' = "Error" /\ dirty' = dirty
           \/ part.kind \in {"garbled", "body"} /\ Fail("err") /\ UNCHANGED <<pending, inflight>>
<1>1. Head(stream) = stream[1]
  BY TakePartEffect DEF ReadStatus
<1> QED
  BY <1>1 DEF ReadStatus

LEMMA ReadStatusOK == OInv /\ ReadStatus => OInv'
<1> SUFFICES ASSUME OInv, ReadStatus PROVE OInv'
  OBVIOUS
<1>1. TypeOK /\ pc = "line" /\ TakePart /\ UNCHANGED <<submitted, asked, carried, sent>> /\ Numbered
  BY DEF OInv, OrderInv, ReadStatus, histVars
<1>2. /\ stream' \in Seq(Part) /\ Len(stream) \in Nat \ {0} /\ cmds' = cmds /\ alive' = alive
      /\ Dropped(stream', stream)
  BY <1>1, TakePartEffect
<1> DEFINE whose == sent[stream[1].for]
<1>3. whose \in 1..N /\ whose \in 0..N /\ Numbered'
  <2>1. whose \in 1..N
    BY <1>1, <1>2, WhoseFacts
  <2> QED
    BY <1>1, <1>2, <2>1, NumberedRead, DepthAssumption
<1> HIDE DEF whose
<1>4. CASE pc' = "body" /\ UNCHANGED <<cur, results, pending, inflight, ret, state, dirty>>
  <2>1. TypeOK'
    BY <1>1, <1>2, <1>4 DEF TypeOK, Part
  <2>2. OrderInv'
    BY <1>1, <1>3, <1>4 DEF OInv, OrderInv, Hand
  <2>3. AskedInv'
    BY <1>1, <1>4 DEF OInv, AskedInv, CallAsked, CallSent, Placed, Shift, Hand
  <2> QED
    BY <2>1, <2>2, <2>3 DEF OInv
<1>5. CASE Answer("missing", whose) /\ UNCHANGED <<state, dirty>>
  BY <1>1, <1>2, <1>3, <1>5, AnswerOK DEF TypeOK, Outcomes
<1>6. CASE Answer("odd", whose) /\ state' = "Error" /\ dirty' = dirty
  BY <1>1, <1>2, <1>3, <1>6, AnswerOK DEF Outcomes
<1>7. CASE Abort("refused", whose) /\ state' = "Error" /\ dirty' = dirty
  BY <1>1, <1>2, <1>3, <1>7, AbortOK DEF Outcomes
<1>8. CASE Fail("err") /\ UNCHANGED <<pending, inflight>>
  BY <1>1, <1>2, <1>8, FailOK
<1> QED
  BY <1>1, <1>4, <1>5, <1>6, <1>7, <1>8, ReadStatusCases DEF whose

LEMMA ReadBodyOK == OInv /\ ReadBody => OInv'
<1> SUFFICES ASSUME OInv, ReadBody PROVE OInv'
  OBVIOUS
<1>1. TypeOK /\ pc = "body" /\ TakePart /\ Answer("found", sent[Head(stream).for])
      /\ UNCHANGED <<state, dirty, submitted, asked, carried, sent>> /\ Numbered
  BY DEF OInv, OrderInv, ReadBody, histVars
<1>2. /\ stream' \in Seq(Part) /\ Len(stream) \in Nat \ {0} /\ cmds' = cmds /\ alive' = alive
      /\ Dropped(stream', stream) /\ Head(stream) = stream[1]
  BY <1>1, TakePartEffect
<1> DEFINE whose == sent[stream[1].for]
<1>3. whose \in 1..N /\ Numbered' /\ Answer("found", whose)
  BY <1>1, <1>2, WhoseFacts, NumberedRead
<1> HIDE DEF whose
<1> QED
  BY <1>1, <1>2, <1>3, AnswerOK DEF TypeOK, Outcomes

LEMMA ReadBodyFailOK == OInv /\ ReadBodyFail => OInv'
<1> SUFFICES ASSUME OInv, ReadBodyFail PROVE OInv'
  OBVIOUS
<1>1. /\ pc = "body" /\ stream \in Seq(Part) /\ 0 \in 0..N /\ TypeOK /\ Numbered
      /\ UNCHANGED <<dirty, submitted, asked, carried, sent, cmds, stream, alive>>
      /\ Abort("io", 0) /\ state' = "Error"
  BY DepthAssumption DEF OInv, OrderInv, TypeOK, Part, ReadBodyFail, histVars, wireVars
<1>2. Numbered'
  BY <1>1, NumberedRead
<1> QED
  BY <1>1, <1>2, AbortOK DEF Outcomes

\* A fresh session, or the same one.
LEMMA NextConnFacts ==
    ASSUME TypeOK, NextConn, Numbered
    PROVE  /\ state' = "Ready" /\ cmds' \in Seq(Owing) /\ stream' \in Seq(Part)
           /\ alive' \in BOOLEAN /\ sent' \in Seq(1..N) /\ Numbered'
           /\ Len(sent') \in Nat /\ Len(sent') <= Len(sent)
<1>1. /\ cmds \in Seq(Owing) /\ stream \in Seq(Part) /\ alive \in BOOLEAN /\ sent \in Seq(1..N)
      /\ Len(sent) \in Nat
  BY Lengths DEF TypeOK, Owing, Part
<1>2. CASE UNCHANGED <<sent, cmds, stream, alive>> /\ state' = "Ready"
  BY <1>1, <1>2 DEF Numbered
<1>3. CASE sent' = <<>> /\ cmds' = <<>> /\ stream' = <<>> /\ alive' = TRUE /\ state' = "Ready"
  <2>1. Len(sent') = 0 /\ Len(cmds') = 0 /\ Len(stream') = 0
    BY <1>3, EmptySeq
  <2>2. \A i \in 1..0 : FALSE
    OBVIOUS
  <2>3. Numbered'
    BY <2>1, <2>2 DEF Numbered
  <2> QED
    BY <1>1, <1>3, <2>1, <2>3, EmptySeq
<1> QED
  BY <1>2, <1>3 DEF NextConn, OpenWire, wireVars

LEMMA HandOverOK == OInv /\ HandOver => OInv'
<1> SUFFICES ASSUME OInv, HandOver PROVE OInv'
  OBVIOUS
<1>1. /\ TypeOK /\ pc = "idle" /\ NextConn /\ pending' = <<>> /\ inflight' = <<>>
      /\ results' = <<>> /\ asked' = <<>> /\ carried' = 0 /\ ret' = "none"
      /\ UNCHANGED <<pc, cur, dirty, submitted>> /\ Numbered
      /\ Len(sent) + Len(pending) <= submitted
  BY DEF OInv, OrderInv, HandOver
<1>2. /\ state' = "Ready" /\ cmds' \in Seq(Owing) /\ stream' \in Seq(Part)
      /\ alive' \in BOOLEAN /\ sent' \in Seq(1..N) /\ Numbered'
      /\ Len(sent') \in Nat /\ Len(sent') <= Len(sent)
  BY <1>1, NextConnFacts
<1>3. TypeOK'
  <2>1. Len(inflight') <= Depth
    BY <1>1, EmptySeq, Lengths
  <2> QED
    <3>1. CallTypes'
      BY <1>1, <1>2, <2>1, EmptySeq, TypesAre DEF CallTypes
    <3> QED
      BY <1>2, <3>1, TypesAre DEF WireTypes
<1>4. OrderInv'
  <2>1. Len(sent') + Len(pending') <= submitted'
    <3>1. Len(sent) \in Nat /\ Len(pending) \in Nat /\ submitted \in Nat
      BY <1>1, Lengths
    <3>2. Len(sent') <= Len(sent) /\ Len(sent') \in Nat
      BY <1>2
    <3>3. Len(pending') = 0
      BY <1>1, EmptySeq
    <3>4. submitted' = submitted /\ Len(sent) + Len(pending) <= submitted
      BY <1>1
    <3> QED
      BY <3>1, <3>2, <3>3, <3>4
  <2> QED
    BY <1>1, <1>2, <2>1 DEF OInv, OrderInv
<1> QED
  BY <1>1, <1>3, <1>4 DEF OInv, AskedInv

LEMMA RetryOK == OInv /\ Retry => OInv'
<1> SUFFICES ASSUME OInv, Retry PROVE OInv'
  OBVIOUS
<1>1. /\ TypeOK /\ pc = "idle" /\ NextConn /\ asked' = <<>> /\ carried' = 0 /\ ret' = "none"
      /\ UNCHANGED <<pc, pending, inflight, cur, dirty, results, submitted>> /\ Numbered
      /\ Len(sent) + Len(pending) <= submitted
  BY DEF OInv, OrderInv, Retry
<1>2. /\ state' = "Ready" /\ cmds' \in Seq(Owing) /\ stream' \in Seq(Part)
      /\ alive' \in BOOLEAN /\ sent' \in Seq(1..N) /\ Numbered'
      /\ Len(sent') \in Nat /\ Len(sent') <= Len(sent)
  BY <1>1, NextConnFacts
<1>3. TypeOK'
  <2>1. CallTypes'
    BY <1>1, <1>2, TypesAre DEF CallTypes
  <2> QED
    BY <1>2, <2>1, TypesAre DEF WireTypes
<1>4. OrderInv'
  <2>1. Len(sent') + Len(pending') <= submitted'
    <3>1. Len(sent) \in Nat /\ Len(pending) \in Nat /\ submitted \in Nat
      BY <1>1, Lengths
    <3>2. Len(sent') <= Len(sent) /\ Len(sent') \in Nat /\ Len(pending') = Len(pending)
      BY <1>1, <1>2
    <3>3. submitted' = submitted /\ Len(sent) + Len(pending) <= submitted
      BY <1>1
    <3> QED
      BY <3>1, <3>2, <3>3
  <2> QED
    BY <1>1, <1>2, <2>1 DEF OInv, OrderInv
<1> QED
  BY <1>1, <1>3, <1>4 DEF OInv, AskedInv

\* A server that goes from the status to the body replaces what is due first.
LEMMA HeadReplaced ==
    ASSUME NEW S, NEW s \in Seq(S), NEW e \in S, s # <<>>
    PROVE  /\ <<e>> \o Tail(s) \in Seq(S)
           /\ Len(<<e>> \o Tail(s)) = Len(s)
           /\ (<<e>> \o Tail(s))[1] = e
           /\ \A i \in 2..Len(s) : (<<e>> \o Tail(s))[i] = s[i]
<1>1. Tail(s) \in Seq(S) /\ Dropped(Tail(s), s) /\ Len(s) \in Nat \ {0}
  BY TailDrops
<1>2. <<e>> \in Seq(S) /\ Len(<<e>>) = 1 /\ <<e>>[1] = e
  OBVIOUS
<1> QED
  BY <1>1, <1>2, ConcatProperties DEF Dropped

\* The server sends one part, for the request it answers next.
LEMMA SendPartEffect ==
    ASSUME TypeOK, SendPart(ReplyKinds, {"found"})
    PROVE  /\ cmds' \in Seq(Owing) /\ stream' \in Seq(Part)
           /\ alive /\ alive' /\ Len(cmds) \in Nat \ {0} /\ Len(stream) \in Nat
           /\ cmds[1] \in Owing
           /\ \E k \in ReplyKinds \cup {"body"} :
                /\ Extended(stream', stream, [for |-> cmds[1].for, kind |-> k])
                /\ \/ /\ k \notin {"found", "body"} /\ cmds[1].part = "line"
                      /\ Dropped(cmds', cmds)
                   \/ /\ k = "body" /\ cmds[1].part = "body"
                      /\ Dropped(cmds', cmds)
                   \/ /\ k = "found" /\ cmds[1].part = "line"
                      /\ Len(cmds') = Len(cmds)
                      /\ cmds'[1] = [for |-> cmds[1].for, part |-> "body"]
                      /\ \A i \in 2..Len(cmds) : cmds'[i] = cmds[i]
<1>1. cmds # <<>> /\ alive /\ alive' = alive /\ cmds \in Seq(Owing) /\ stream \in Seq(Part)
  BY DEF SendPart, TypeOK, Owing, Part
<1>2. /\ Tail(cmds) \in Seq(Owing) /\ Dropped(Tail(cmds), cmds) /\ Head(cmds) = cmds[1]
      /\ cmds[1] \in Owing /\ Len(cmds) \in Nat \ {0} /\ Len(stream) \in Nat
  BY <1>1, TailDrops, LenProperties
<1> DEFINE r == cmds[1].for
<1>3. r \in 1..N
  BY <1>2 DEF Owing
<1>4. \/ /\ cmds[1].part = "body"
         /\ stream' = Append(stream, [for |-> r, kind |-> "body"])
         /\ cmds' = Tail(cmds)
      \/ /\ cmds[1].part = "line"
         /\ \E k \in ReplyKinds :
               /\ stream' = Append(stream, [for |-> r, kind |-> k])
               /\ cmds' = IF k = "found" THEN <<[for |-> r, part |-> "body"]>> \o Tail(cmds)
                                         ELSE Tail(cmds)
  BY <1>2 DEF SendPart
<1>5. \A k \in ReplyKinds \cup {"body"} : [for |-> r, kind |-> k] \in Part
  BY <1>3 DEF Part
<1>6. [for |-> r, part |-> "body"] \in Owing
  BY <1>3 DEF Owing
<1>7. "body" \notin ReplyKinds
  BY DEF ReplyKinds
<1> HIDE DEF r
<1>8. CASE /\ cmds[1].part = "body"
           /\ stream' = Append(stream, [for |-> r, kind |-> "body"])
           /\ cmds' = Tail(cmds)
  <2>1. stream' \in Seq(Part) /\ Extended(stream', stream, [for |-> r, kind |-> "body"])
    BY <1>1, <1>5, <1>8, AppendExtends
  <2> QED
    BY <1>1, <1>2, <1>8, <2>1 DEF r
<1>9. ASSUME NEW k \in ReplyKinds, cmds[1].part = "line",
             stream' = Append(stream, [for |-> r, kind |-> k]),
             cmds' = IF k = "found" THEN <<[for |-> r, part |-> "body"]>> \o Tail(cmds)
                                    ELSE Tail(cmds)
      PROVE  /\ cmds' \in Seq(Owing) /\ stream' \in Seq(Part)
             /\ Extended(stream', stream, [for |-> r, kind |-> k])
             /\ \/ k \notin {"found", "body"} /\ Dropped(cmds', cmds)
                \/ /\ k = "found"
                   /\ Len(cmds') = Len(cmds)
                   /\ cmds'[1] = [for |-> r, part |-> "body"]
                   /\ \A i \in 2..Len(cmds) : cmds'[i] = cmds[i]
  <2>1. stream' \in Seq(Part) /\ Extended(stream', stream, [for |-> r, kind |-> k])
    BY <1>1, <1>5, <1>9, AppendExtends
  <2>2. CASE k = "found"
    BY <1>1, <1>6, <1>9, <2>1, <2>2, HeadReplaced
  <2>3. CASE k # "found"
    BY <1>2, <1>7, <1>9, <2>1, <2>3
  <2> QED
    BY <2>2, <2>3
<1>10. CASE cmds[1].part = "line"
  <2>1. PICK k \in ReplyKinds :
          /\ stream' = Append(stream, [for |-> r, kind |-> k])
          /\ cmds' = IF k = "found" THEN <<[for |-> r, part |-> "body"]>> \o Tail(cmds)
                                    ELSE Tail(cmds)
    BY <1>4, <1>10
  <2> QED
    BY <1>1, <1>2, <1>9, <1>10, <2>1 DEF r
<1> QED
  BY <1>4, <1>8, <1>10

\* The server writes about commands it was sent.
LEMMA NumberedSent ==
    ASSUME TypeOK, Numbered, SendPart(ReplyKinds, {"found"}), sent' = sent
    PROVE  Numbered'
<1>1. PICK k \in ReplyKinds \cup {"body"} :
        /\ Extended(stream', stream, [for |-> cmds[1].for, kind |-> k])
        /\ Len(cmds) \in Nat \ {0} /\ Len(stream) \in Nat
        /\ \/ Dropped(cmds', cmds)
           \/ /\ Len(cmds') = Len(cmds)
              /\ cmds'[1] = [for |-> cmds[1].for, part |-> "body"]
              /\ \A i \in 2..Len(cmds) : cmds'[i] = cmds[i]
  BY SendPartEffect
<1>2. ASSUME NEW i \in 1..Len(cmds')
      PROVE  \E j \in 1..Len(cmds) : cmds'[i].for = cmds[j].for
  <2>1. CASE Dropped(cmds', cmds)
    BY <1>1, <2>1 DEF Dropped
  <2>2. CASE /\ Len(cmds') = Len(cmds)
             /\ cmds'[1] = [for |-> cmds[1].for, part |-> "body"]
             /\ \A l \in 2..Len(cmds) : cmds'[l] = cmds[l]
    BY <1>1, <2>2
  <2> QED
    BY <1>1, <2>1, <2>2
<1>3. \A i \in 1..Len(cmds') : cmds'[i].for <= Len(sent)
  BY <1>2 DEF Numbered
<1>4. ASSUME NEW i \in 1..Len(stream') PROVE stream'[i].for <= Len(sent)
  <2>1. CASE i = Len(stream')
    BY <1>1, <2>1 DEF Extended, Numbered
  <2>2. CASE i # Len(stream')
    BY <1>1, <2>2 DEF Extended, Numbered
  <2> QED
    BY <2>1, <2>2
<1> QED
  BY <1>3, <1>4 DEF Numbered

LEMMA ServerOK == OInv /\ Server => OInv'
<1> SUFFICES ASSUME OInv, Server PROVE OInv'
  OBVIOUS
<1>1. /\ TypeOK /\ Numbered
      /\ UNCHANGED <<pc, pending, inflight, cur, dirty, results, state, ret, submitted, asked,
                     carried, sent>>
  BY DEF OInv, OrderInv, Server, pipeVars, histVars
<1>2. cmds' \in Seq(Owing) /\ stream' \in Seq(Part) /\ alive' \in BOOLEAN /\ Numbered'
  <2>1. CASE SendPart(ReplyKinds, {"found"})
    <3>1. alive' \in BOOLEAN
      BY <1>1, <2>1 DEF SendPart, TypeOK
    <3> QED
      BY <1>1, <2>1, <3>1, SendPartEffect, NumberedSent
  <2>2. CASE ServerClose
    <3>1. cmds' = <<>> /\ stream' = stream /\ alive' = FALSE /\ Len(<<>>) = 0
      BY <2>2 DEF ServerClose
    <3>2. Numbered'
      BY <1>1, <3>1 DEF Numbered
    <3> QED
      BY <1>1, <3>1, <3>2, EmptySeq DEF TypeOK, Part
  <2> QED
    BY <2>1, <2>2 DEF Server
<1>3. TypeOK'
  BY <1>1, <1>2 DEF TypeOK, Owing, Part
<1>4. OrderInv' /\ AskedInv'
  BY <1>1, <1>2 DEF OInv, OrderInv, AskedInv, CallAsked, CallSent, Placed, Shift, Hand, Tags
<1> QED
  BY <1>3, <1>4 DEF OInv

LEMMA OrderCorrect == Spec => []OInv
<1>1. OInv /\ UNCHANGED vars => OInv'
  BY DEF OInv, TypeOK, OrderInv, Numbered, AskedInv, CallAsked, CallSent, Placed, Shift, Hand,
         Tags, vars, pipeVars, histVars, wireVars
<1>2. OInv /\ [Next]_vars => OInv'
  BY <1>1, SubmitOK, StartOK, SendOneOK, SendFailOK, SendDoneOK, FlushFailOK, ReadStatusOK,
     ReadStatusFailOK, ReadBodyOK, ReadBodyFailOK, CancelOK, HandOverOK, RetryOK, ServerOK
     DEF Next, Client
<1> QED
  BY <1>2, InitOK, PTL DEF Spec

\* The queues, the results and the session keep their types.
THEOREM PipelineTypeCorrect == Spec => []TypeOK
<1>1. OInv => TypeOK
  BY DEF OInv
<1> QED
  BY <1>1, OrderCorrect, PTL

\* No request is lost, duplicated or reordered inside process_all(), and one
\* that returns Ok has a result for each request, in order.
THEOREM PipelineAccounted == Spec => []Accounted
<1>1. OInv => Accounted
  <2> SUFFICES ASSUME OInv, pc # "idle"
               PROVE  Tags(results) \o Current \o inflight \o pending = asked
    BY DEF OInv, AskedInv, Accounted
  <2>1. TypeOK /\ CallAsked
    BY DEF OInv, AskedInv
  <2>2. /\ Len(pending) \in Nat /\ Len(inflight) \in Nat /\ Len(asked) \in Nat
        /\ Len(results) \in Nat /\ Hand \in {0, 1}
    BY <2>1, Lengths
  <2>3. /\ results \in Seq(Results) /\ inflight \in Seq(1..N) /\ pending \in Seq(1..N)
        /\ asked \in Seq(1..N) /\ cur \in 0..N
    BY <2>1 DEF TypeOK, Results, Outcomes
  <2>4. /\ Tags(results) \in Seq(1..N) /\ Len(Tags(results)) = Len(results)
        /\ Sits(Tags(results), asked, 0)
    BY <2>1, <2>3, TagsSit DEF CallAsked
  <2>5. Current \in Seq(1..N) /\ Len(Current) = Hand /\ Sits(Current, asked, Len(results))
    <3>1. CASE cur = 0
      BY <3>1, EmptySeq DEF Current, Hand, Sits
    <3>2. CASE cur # 0
      <4>1. cur \in 1..N /\ cur = asked[Len(results) + 1]
        BY <2>1, <2>3, <3>2, DepthAssumption DEF CallAsked
      <4>2. <<cur>> \in Seq(1..N) /\ Len(<<cur>>) = 1 /\ <<cur>>[1] = cur
        BY <4>1
      <4>3. \A i \in 1..1 : <<cur>>[i] = asked[Len(results) + i]
        BY <4>1, <4>2
      <4> QED
        BY <3>2, <4>2, <4>3 DEF Current, Hand, Sits
    <3> QED
      BY <3>1, <3>2
  <2> DEFINE u == Tags(results) \o Current
             v == u \o inflight
  <2>6. u \in Seq(1..N) /\ Len(u) = Len(results) + Hand /\ Sits(u, asked, 0)
    <3>1. Sits(Current, asked, 0 + Len(Tags(results)))
      BY <2>2, <2>4, <2>5
    <3> QED
      BY <2>4, <2>5, <3>1, SitsConcat
  <2> HIDE DEF u, v
  <2>7. v \in Seq(1..N) /\ Len(v) = Len(results) + Hand + Len(inflight) /\ Sits(v, asked, 0)
    <3>1. 0 + Len(u) = Len(results) + Hand /\ Len(u) \in Nat
      BY <2>2, <2>6
    <3>2. Sits(inflight, asked, 0 + Len(u))
      BY <2>1, <3>1 DEF CallAsked
    <3>3. /\ u \o inflight \in Seq(1..N) /\ Len(u \o inflight) = Len(u) + Len(inflight)
          /\ Sits(u \o inflight, asked, 0)
      <4> DEFINE k == 0
                 S == 1..N
      <4>1. k \in Int /\ u \in Seq(S) /\ inflight \in Seq(S)
            /\ Sits(u, asked, k) /\ Sits(inflight, asked, k + Len(u))
        BY <2>3, <2>6, <3>2
      <4> HIDE DEF k, S
      <4>2. /\ u \o inflight \in Seq(S) /\ Len(u \o inflight) = Len(u) + Len(inflight)
            /\ Sits(u \o inflight, asked, k)
        BY <4>1, SitsConcat
      <4> QED
        BY <4>2 DEF k, S
    <3> QED
      BY <2>2, <2>6, <3>3 DEF v
  <2>8. v \o pending \in Seq(1..N) /\ Len(v \o pending) = Len(asked) /\ Sits(v \o pending, asked, 0)
    <3>1. 0 + Len(v) = Placed /\ Len(v) + Len(pending) = Len(asked)
      BY <2>1, <2>2, <2>7 DEF CallAsked, Placed
    <3>2. Sits(pending, asked, 0 + Len(v))
      BY <2>1, <3>1 DEF CallAsked
    <3> QED
      BY <2>3, <2>7, <3>1, <3>2, SitsConcat
  <2>9. \A i \in 1..Len(asked) : (v \o pending)[i] = asked[i]
    BY <2>2, <2>8 DEF Sits
  <2>10. v \o pending = asked
    BY <2>3, <2>8, <2>9, SeqEqual
  <2> QED
    BY <2>10 DEF u, v
<1> QED
  BY <1>1, OrderCorrect, PTL

-----------------------------------------------------------------------------
(* Which reply is next.  An expectation is the number of a command and      *)
(* whether its status line or its body is due.                              *)

Expectation == [for : Int, part : {"line", "body"}]

\* What follows a part of a reply.
After(p) ==
    IF p.kind = "found" THEN [for |-> p.for, part |-> "body"]
                        ELSE [for |-> p.for + 1, part |-> "line"]

Fits(p, e) == p.for = e.for /\ (p.kind = "body" <=> e.part = "body")

\* The parts in q are, in this order, those that follow from e.
Chain(q, e) ==
    /\ Len(q) > 0 => Fits(q[1], e)
    /\ \A i \in 1..Len(q) : i < Len(q) => Fits(q[i + 1], After(q[i]))
    /\ \A i, j \in 1..Len(q) : i < j => q[j].for >= After(q[i]).for

\* What the server sends after the parts in q.
DueAfter(q, e) == IF Len(q) = 0 THEN e ELSE After(q[Len(q)])

\* The server owes, in order, what is due and the replies up to command last.
Rest(q, e, last) ==
    /\ e.for + Len(q) = last + 1
    /\ Len(q) = 0 => e.part = "line"
    /\ Len(q) > 0 => q[1] = e
    /\ \A i \in 2..Len(q) : q[i] = [for |-> e.for + (i - 1), part |-> "line"]

\* What process_all reads next: requests carried over were not written.
Expect == [for |-> ((Last - Len(inflight)) + (1 - Hand)) + carried,
           part |-> IF pc = "body" THEN "body" ELSE "line"]

InWindow(q, lo) == \A i \in 1..Len(q) : lo <= q[i].for /\ q[i].for < lo + Depth

Bounded == \E lo \in Int : InWindow(cmds, lo) /\ InWindow(stream, lo)

\* Inside a call what is sent and what is owed are the replies to come.
CallWire ==
    /\ Expect.for <= Last + 1
    /\ Chain(stream, Expect)
    /\ \A i \in 1..Len(stream) : stream[i].for <= Last
    /\ alive => Rest(cmds, DueAfter(stream, Expect), Last)

WInv ==
    /\ ~alive => Len(cmds) = 0
    /\ pc # "idle" => CallWire
    /\ AlignedAfterReturn
    /\ Bounded
    /\ Matched

\* Expectations are well formed, and only move forward.
LEMMA ExpectFacts ==
    ASSUME TypeOK
    PROVE  Expect \in Expectation
<1>1. Last \in Int /\ Len(inflight) \in Nat /\ Hand \in {0, 1} /\ carried \in Nat
  BY Lengths
<1>2. ((Last - Len(inflight)) + (1 - Hand)) + carried \in Int
  BY <1>1
<1>3. (IF pc = "body" THEN "body" ELSE "line") \in {"line", "body"}
  OBVIOUS
<1> QED
  BY <1>2, <1>3 DEF Expect, Expectation

LEMMA AfterFacts ==
    ASSUME NEW p \in Part
    PROVE  After(p) \in Expectation /\ After(p).for >= p.for /\ p.for \in Int
<1>1. p.for \in Int
  BY DEF Part
<1> QED
  BY <1>1 DEF After, Expectation

\* Reading the first part of a chain.
LEMMA ChainTaken ==
    ASSUME NEW q, NEW s \in Seq(Part), NEW e, Chain(s, e), Dropped(q, s), Len(s) \in Nat \ {0}
    PROVE  Chain(q, After(s[1])) /\ DueAfter(q, After(s[1])) = DueAfter(s, e)
<1>1. Len(q) = Len(s) - 1 /\ \A i \in 1..Len(q) : q[i] = s[i + 1]
  BY DEF Dropped
<1>2. Len(q) > 0 => Fits(q[1], After(s[1]))
  BY <1>1 DEF Chain
<1>3. ASSUME NEW i \in 1..Len(q), i < Len(q) PROVE Fits(q[i + 1], After(q[i]))
  <2>1. i + 1 \in 1..Len(s) /\ i + 1 < Len(s) /\ i + 1 \in 1..Len(q)
    BY <1>1, <1>3
  <2>2. Fits(s[(i + 1) + 1], After(s[i + 1]))
    BY <2>1 DEF Chain
  <2> QED
    BY <1>1, <2>1, <2>2
<1>4. ASSUME NEW i \in 1..Len(q), NEW j \in 1..Len(q), i < j PROVE q[j].for >= After(q[i]).for
  <2>1. i + 1 \in 1..Len(s) /\ j + 1 \in 1..Len(s) /\ i + 1 < j + 1
    BY <1>1, <1>4
  <2>2. s[j + 1].for >= After(s[i + 1]).for
    BY <2>1 DEF Chain
  <2> QED
    BY <1>1, <2>2
<1>5. DueAfter(q, After(s[1])) = DueAfter(s, e)
  <2>1. CASE Len(s) = 1
    BY <1>1, <2>1 DEF DueAfter
  <2>2. CASE Len(s) # 1
    <3>1. Len(q) \in 1..Len(q) /\ Len(q) + 1 = Len(s) /\ Len(q) # 0 /\ Len(s) # 0
      BY <1>1, <2>2
    <3>2. q[Len(q)] = s[Len(s)]
      BY <1>1, <3>1
    <3> QED
      BY <3>1, <3>2 DEF DueAfter
  <2> QED
    BY <2>1, <2>2
<1> QED
  BY <1>2, <1>3, <1>4, <1>5 DEF Chain

\* Every part of a chain comes at or after what is expected, and so does what
\* is due after it.
LEMMA ChainForward ==
    ASSUME NEW s \in Seq(Part), NEW e \in Expectation, Chain(s, e)
    PROVE  /\ \A i \in 1..Len(s) : s[i].for >= e.for /\ s[i].for \in Int
           /\ DueAfter(s, e) \in Expectation /\ DueAfter(s, e).for >= e.for
<1>1. Len(s) \in Nat /\ \A i \in 1..Len(s) : s[i] \in Part
  BY LenProperties, ElementOfSeq
<1>2. e.for \in Int
  BY DEF Expectation
<1>3. \A i \in 1..Len(s) : After(s[i]).for >= s[i].for /\ s[i].for \in Int
                           /\ After(s[i]) \in Expectation
  BY <1>1, AfterFacts
<1>4. ASSUME NEW i \in 1..Len(s) PROVE s[i].for >= e.for
  <2>1. 1 \in 1..Len(s) /\ s[1].for = e.for
    BY <1>1 DEF Chain, Fits
  <2>2. CASE i = 1
    BY <1>2, <2>1, <2>2
  <2>3. CASE i # 1
    <3>1. s[i].for >= After(s[1]).for
      BY <1>1, <2>1, <2>3 DEF Chain
    <3>2. After(s[1]).for >= s[1].for /\ s[1].for \in Int /\ s[i].for \in Int
          /\ After(s[1]).for \in Int
      BY <1>3, <2>1 DEF Expectation
    <3> QED
      BY <1>2, <2>1, <3>1, <3>2
  <2> QED
    BY <2>2, <2>3
<1>5. DueAfter(s, e) \in Expectation /\ DueAfter(s, e).for >= e.for
  <2>1. CASE Len(s) = 0
    BY <1>2, <2>1 DEF DueAfter
  <2>2. CASE Len(s) # 0
    <3>1. Len(s) \in 1..Len(s) /\ DueAfter(s, e) = After(s[Len(s)])
      BY <1>1, <2>2 DEF DueAfter
    <3>2. After(s[Len(s)]).for >= s[Len(s)].for /\ s[Len(s)].for >= e.for
          /\ s[Len(s)].for \in Int /\ After(s[Len(s)]) \in Expectation
      BY <1>3, <1>4, <3>1
    <3>3. After(s[Len(s)]).for \in Int
      BY <3>2 DEF Expectation
    <3> QED
      BY <1>2, <3>1, <3>2, <3>3
  <2> QED
    BY <2>1, <2>2
<1> QED
  BY <1>3, <1>4, <1>5

\* The server adds the part that is due.
LEMMA ChainExtended ==
    ASSUME NEW q, NEW s \in Seq(Part), NEW e \in Expectation, Chain(s, e),
           NEW p \in Part, Fits(p, DueAfter(s, e)), Extended(q, s, p)
    PROVE  Chain(q, e) /\ DueAfter(q, e) = After(p)
<1>1. /\ Len(q) = Len(s) + 1 /\ q[Len(q)] = p /\ \A i \in 1..Len(s) : q[i] = s[i]
      /\ Len(s) \in Nat
  BY LenProperties DEF Extended
<1>2. \A i \in 1..Len(s) : s[i] \in Part
  BY ElementOfSeq
<1>3. Len(q) > 0 => Fits(q[1], e)
  <2>1. CASE Len(s) = 0
    BY <1>1, <2>1 DEF DueAfter
  <2>2. CASE Len(s) # 0
    BY <1>1, <2>2 DEF Chain
  <2> QED
    BY <2>1, <2>2
<1>4. ASSUME NEW i \in 1..Len(q), i < Len(q) PROVE Fits(q[i + 1], After(q[i]))
  <2>1. i \in 1..Len(s) /\ q[i] = s[i] /\ Len(s) # 0
    BY <1>1, <1>4
  <2>2. CASE i = Len(s)
    <3>1. q[i + 1] = p /\ DueAfter(s, e) = After(s[i])
      BY <1>1, <2>1, <2>2 DEF DueAfter
    <3> QED
      BY <2>1, <3>1
  <2>3. CASE i # Len(s)
    <3>1. i + 1 \in 1..Len(s) /\ i < Len(s)
      BY <1>1, <2>1, <2>3
    <3> QED
      BY <1>1, <2>1, <3>1 DEF Chain
  <2> QED
    BY <2>2, <2>3
<1>5. ASSUME NEW i \in 1..Len(q), NEW j \in 1..Len(q), i < j PROVE q[j].for >= After(q[i]).for
  <2>1. i \in 1..Len(s) /\ q[i] = s[i] /\ Len(s) # 0
    BY <1>1, <1>5
  <2>2. CASE j # Len(q)
    <3>1. j \in 1..Len(s) /\ q[j] = s[j]
      BY <1>1, <2>2
    <3> QED
      BY <1>5, <2>1, <3>1 DEF Chain
  <2>3. CASE j = Len(q)
    <3>1. q[j].for = After(s[Len(s)]).for /\ Len(s) \in 1..Len(s)
      BY <1>1, <2>1, <2>3 DEF DueAfter, Fits
    <3>2. /\ After(s[Len(s)]).for >= s[Len(s)].for /\ s[Len(s)].for \in Int
          /\ After(s[Len(s)]) \in Expectation /\ After(s[i]) \in Expectation
      BY <1>2, <2>1, <3>1, AfterFacts
    <3>3. After(s[Len(s)]).for \in Int /\ After(s[i]).for \in Int
      BY <3>2 DEF Expectation
    <3>4. CASE i = Len(s)
      BY <2>1, <3>1, <3>3, <3>4
    <3>5. CASE i # Len(s)
      <4>1. s[Len(s)].for >= After(s[i]).for
        BY <1>1, <2>1, <3>1, <3>5 DEF Chain
      <4> QED
        BY <2>1, <3>1, <3>2, <3>3, <4>1
    <3> QED
      BY <3>4, <3>5
  <2> QED
    BY <2>2, <2>3
<1>6. DueAfter(q, e) = After(p)
  BY <1>1 DEF DueAfter
<1> QED
  BY <1>3, <1>4, <1>5, <1>6 DEF Chain

\* The server sends what is due and owes what follows.
LEMMA RestSent ==
    ASSUME NEW q, NEW s, NEW e \in Expectation, NEW last \in Int, Rest(s, e, last),
           Len(s) \in Nat \ {0}, NEW k \in ReplyKinds \cup {"body"},
           NEW p, p = [for |-> s[1].for, kind |-> k],
           \/ k \notin {"found", "body"} /\ s[1].part = "line" /\ Dropped(q, s)
           \/ k = "body" /\ s[1].part = "body" /\ Dropped(q, s)
           \/ /\ k = "found" /\ s[1].part = "line" /\ Len(q) = Len(s)
              /\ q[1] = [for |-> s[1].for, part |-> "body"]
              /\ \A i \in 2..Len(s) : q[i] = s[i]
    PROVE  Rest(q, After(p), last) /\ Fits(p, e) /\ p.for <= last
<1>1. /\ s[1] = e /\ e.for + Len(s) = last + 1 /\ e.for \in Int /\ p.for = e.for /\ p.kind = k
      /\ \A i \in 2..Len(s) : s[i] = [for |-> e.for + (i - 1), part |-> "line"]
  BY DEF Rest, Expectation
<1>2. p.for <= last
  BY <1>1
<1>3. Fits(p, e)
  BY <1>1 DEF Fits
<1>4. CASE k # "found" /\ Dropped(q, s)
  <2>1. After(p) = [for |-> e.for + 1, part |-> "line"]
    BY <1>1, <1>4 DEF After
  <2>2. Len(q) = Len(s) - 1 /\ \A i \in 1..Len(q) : q[i] = s[i + 1]
    BY <1>4 DEF Dropped
  <2>3. Len(q) > 0 => q[1] = After(p)
    <3>1. ASSUME Len(q) > 0 PROVE q[1] = [for |-> e.for + 1, part |-> "line"]
      <4>1. 1 \in 1..Len(q) /\ 2 \in 2..Len(s) /\ 1 + 1 = 2 /\ e.for + (2 - 1) = e.for + 1
        BY <1>1, <2>2, <3>1
      <4> QED
        BY <1>1, <2>2, <4>1
    <3> QED
      BY <2>1, <3>1
  <2>4. ASSUME NEW i \in 2..Len(q)
        PROVE  q[i] = [for |-> After(p).for + (i - 1), part |-> "line"]
    <3>1. i \in Int /\ i \in 1..Len(q) /\ i + 1 \in 2..Len(s)
      BY <2>2
    <3>2. e.for + ((i + 1) - 1) = (e.for + 1) + (i - 1)
      <4> DEFINE d == e.for
      <4>1. d \in Int
        BY <1>1
      <4>2. i \in Int
        BY <3>1
      <4> HIDE DEF d
      <4>3. d + ((i + 1) - 1) = (d + 1) + (i - 1)
        BY <4>1, <4>2
      <4> QED
        BY <4>3 DEF d
    <3>3. q[i] = [for |-> e.for + ((i + 1) - 1), part |-> "line"]
      BY <1>1, <2>2, <3>1
    <3> QED
      BY <2>1, <3>2, <3>3
  <2>5. After(p).for + Len(q) = last + 1 /\ After(p).part = "line"
    BY <1>1, <2>1, <2>2
  <2> QED
    BY <1>2, <1>3, <2>3, <2>4, <2>5 DEF Rest
<1>5. CASE /\ k = "found" /\ Len(q) = Len(s)
           /\ q[1] = [for |-> s[1].for, part |-> "body"]
           /\ \A i \in 2..Len(s) : q[i] = s[i]
  <2>1. After(p) = [for |-> e.for, part |-> "body"]
    BY <1>1, <1>5 DEF After
  <2> QED
    BY <1>1, <1>2, <1>3, <1>5, <2>1 DEF Rest
<1> QED
  BY <1>4, <1>5

\* The client writes the next request.
LEMMA RestWritten ==
    ASSUME NEW q, NEW s, NEW e \in Expectation, NEW last \in Int, Rest(s, e, last),
           Len(s) \in Nat, Extended(q, s, [for |-> last + 1, part |-> "line"])
    PROVE  Rest(q, e, last + 1)
<1>1. /\ Len(q) = Len(s) + 1 /\ q[Len(q)] = [for |-> last + 1, part |-> "line"]
      /\ \A i \in 1..Len(s) : q[i] = s[i]
      /\ e.for \in Int /\ e.for + Len(s) = last + 1
      /\ e = [for |-> e.for, part |-> e.part]
  BY DEF Extended, Expectation, Rest
<1>2. q[1] = e
  <2>1. CASE Len(s) = 0
    BY <1>1, <2>1 DEF Rest
  <2>2. CASE Len(s) # 0
    BY <1>1, <2>2 DEF Rest
  <2> QED
    BY <2>1, <2>2
<1>3. ASSUME NEW i \in 2..Len(q) PROVE q[i] = [for |-> e.for + (i - 1), part |-> "line"]
  <2>1. CASE i = Len(q)
    <3>1. e.for + (i - 1) = last + 1
      BY <1>1, <2>1
    <3> QED
      BY <1>1, <2>1, <3>1
  <2>2. CASE i # Len(q)
    BY <1>1, <2>2 DEF Rest
  <2> QED
    BY <2>1, <2>2
<1>4. e.for + Len(q) = (last + 1) + 1 /\ Len(q) # 0
  BY <1>1
<1> QED
  BY <1>2, <1>3, <1>4 DEF Rest

\* Inside a call the window holds: what is under way belongs to the requests in
\* hand and in flight.
LEMMA WindowInCall ==
    TypeOK /\ Len(inflight) + Hand <= Depth /\ CallWire /\ (~alive => Len(cmds) = 0)
      => Bounded
<1> SUFFICES ASSUME TypeOK, Len(inflight) + Hand <= Depth, CallWire, ~alive => Len(cmds) = 0
             PROVE  Bounded
  OBVIOUS
<1>1. /\ Last \in Int /\ Len(inflight) \in Nat /\ Hand \in {0, 1} /\ Depth \in Nat \ {0}
      /\ Len(cmds) \in Nat /\ Len(stream) \in Nat /\ carried \in Nat
  BY Lengths
<1>2. Expect \in Expectation /\ stream \in Seq(Part)
  BY ExpectFacts DEF TypeOK, Part
<1> DEFINE lo == Expect.for
           due == DueAfter(stream, Expect)
<1>3. lo \in Int /\ lo = ((Last - Len(inflight)) + (1 - Hand)) + carried
  BY <1>1 DEF Expect
<1>4. Last < lo + Depth
  BY <1>1, <1>3
<1>5. /\ Chain(stream, Expect) /\ \A i \in 1..Len(stream) : stream[i].for <= Last
      /\ alive => Rest(cmds, due, Last)
  BY DEF CallWire
<1>6. /\ \A i \in 1..Len(stream) : stream[i].for >= lo /\ stream[i].for \in Int
      /\ due \in Expectation /\ due.for >= lo
  BY <1>2, <1>5, ChainForward
<1> HIDE DEF lo, due
<1>7. InWindow(stream, lo)
  BY <1>1, <1>3, <1>4, <1>5, <1>6 DEF InWindow
<1>8. InWindow(cmds, lo)
  <2> SUFFICES ASSUME NEW i \in 1..Len(cmds)
               PROVE  lo <= cmds[i].for /\ cmds[i].for < lo + Depth
    BY DEF InWindow
  <2>1. Rest(cmds, due, Last)
    BY <1>5
  <2>2. due.for \in Int
    BY <1>6 DEF Expectation
  <2>3. cmds[i].for = due.for + (i - 1)
    <3>1. CASE i = 1
      BY <2>1, <2>2, <3>1 DEF Rest
    <3>2. CASE i # 1
      <4>1. i \in 2..Len(cmds)
        BY <1>1, <3>2
      <4>2. cmds[i] = [for |-> due.for + (i - 1), part |-> "line"]
        BY <2>1, <4>1 DEF Rest
      <4> QED
        BY <4>2
    <3> QED
      BY <3>1, <3>2
  <2>4. due.for + Len(cmds) = Last + 1
    BY <2>1 DEF Rest
  <2> DEFINE d == due.for
             f == cmds[i].for
  <2>5. /\ d \in Int /\ lo \in Int /\ Last \in Int /\ Depth \in Nat /\ Len(cmds) \in Nat
        /\ f = d + (i - 1) /\ d + Len(cmds) = Last + 1 /\ d >= lo /\ Last < lo + Depth
    BY <1>1, <1>3, <1>4, <1>6, <2>2, <2>3, <2>4
  <2> HIDE DEF d, f
  <2>6. lo <= f /\ f < lo + Depth
    BY <2>5
  <2> QED
    BY <2>6 DEF f
<1> QED
  BY <1>3, <1>7, <1>8 DEF Bounded

\* The same in the next state.
LEMMA WindowInCallNext ==
    (TypeOK /\ Len(inflight) + Hand <= Depth /\ CallWire /\ (~alive => Len(cmds) = 0))'
      => Bounded'
  BY WindowInCall, PTL

\* A step that reads at most one part leaves the window as it was.
LEMMA WindowRead ==
    ASSUME TypeOK, Bounded, cmds' = cmds, stream' = stream \/ Dropped(stream', stream)
    PROVE  Bounded'
<1>1. PICK lo \in Int : InWindow(cmds, lo) /\ InWindow(stream, lo)
  BY DEF Bounded
<1>2. InWindow(cmds', lo)
  BY <1>1
<1>3. Len(stream) \in Nat
  BY Lengths
<1>4. InWindow(stream', lo)
  <2>1. CASE Dropped(stream', stream)
    <3> SUFFICES ASSUME NEW i \in 1..Len(stream')
                 PROVE  lo <= stream'[i].for /\ stream'[i].for < lo + Depth
      BY DEF InWindow
    <3>1. i + 1 \in 1..Len(stream) /\ stream'[i] = stream[i + 1]
      BY <1>3, <2>1 DEF Dropped
    <3> QED
      BY <1>1, <3>1 DEF InWindow
  <2> QED
    BY <1>1, <2>1
<1> QED
  BY <1>2, <1>4 DEF Bounded, InWindow

\* Neither does a part that the server sends.
LEMMA WindowSent ==
    ASSUME TypeOK, Bounded, SendPart(ReplyKinds, {"found"})
    PROVE  Bounded'
<1>1. PICK lo \in Int : InWindow(cmds, lo) /\ InWindow(stream, lo)
  BY DEF Bounded
<1>2. PICK k \in ReplyKinds \cup {"body"} :
        /\ Extended(stream', stream, [for |-> cmds[1].for, kind |-> k])
        /\ Len(cmds) \in Nat \ {0} /\ Len(stream) \in Nat
        /\ \/ Dropped(cmds', cmds)
           \/ /\ Len(cmds') = Len(cmds)
              /\ cmds'[1] = [for |-> cmds[1].for, part |-> "body"]
              /\ \A i \in 2..Len(cmds) : cmds'[i] = cmds[i]
  BY SendPartEffect
<1>3. ASSUME NEW i \in 1..Len(cmds')
      PROVE  \E j \in 1..Len(cmds) : cmds'[i].for = cmds[j].for
  <2>1. CASE Dropped(cmds', cmds)
    BY <1>2, <2>1 DEF Dropped
  <2>2. CASE /\ Len(cmds') = Len(cmds)
             /\ cmds'[1] = [for |-> cmds[1].for, part |-> "body"]
             /\ \A l \in 2..Len(cmds) : cmds'[l] = cmds[l]
    BY <1>2, <2>2
  <2> QED
    BY <1>2, <2>1, <2>2
<1>4. InWindow(cmds', lo)
  BY <1>1, <1>3 DEF InWindow
<1>5. InWindow(stream', lo)
  <2> SUFFICES ASSUME NEW i \in 1..Len(stream')
               PROVE  lo <= stream'[i].for /\ stream'[i].for < lo + Depth
    BY DEF InWindow
  <2>1. CASE i = Len(stream')
    <3>1. stream'[i].for = cmds[1].for /\ 1 \in 1..Len(cmds)
      BY <1>2, <2>1 DEF Extended
    <3> QED
      BY <1>1, <3>1 DEF InWindow
  <2>2. CASE i # Len(stream')
    <3>1. i \in 1..Len(stream) /\ stream'[i] = stream[i]
      BY <1>2, <2>2 DEF Extended
    <3> QED
      BY <1>1, <3>1 DEF InWindow
  <2> QED
    BY <2>1, <2>2
<1> QED
  BY <1>4, <1>5 DEF Bounded, InWindow

-----------------------------------------------------------------------------
(* One lemma per step: replies and requests do not slip                     *)

\* Every reply behind a result is the one `carried` places later.
Backed(rs) ==
    \A i \in 1..Len(rs) : rs[i].from # 0 =>
       /\ i + carried <= Len(asked) /\ rs[i].from = asked[i + carried]
       /\ carried = 0 => rs[i].from = rs[i].req

\* A result for the request in hand that comes from the next reply, or from none.
LEMMA BackedAppend ==
    ASSUME NEW q, NEW s, Len(s) \in Nat, Backed(s), NEW r, Extended(q, s, r),
           r.from # 0 => /\ (Len(s) + 1) + carried <= Len(asked)
                         /\ r.from = asked[(Len(s) + 1) + carried]
                         /\ carried = 0 => r.from = r.req
    PROVE  Backed(q)
<1> SUFFICES ASSUME NEW i \in 1..Len(q), q[i].from # 0
             PROVE  /\ i + carried <= Len(asked) /\ q[i].from = asked[i + carried]
                    /\ carried = 0 => q[i].from = q[i].req
  BY DEF Backed
<1>1. CASE i = Len(q)
  BY <1>1 DEF Extended
<1>2. CASE i # Len(q)
  BY <1>2 DEF Extended, Backed
<1> QED
  BY <1>1, <1>2

\* The results of a drained queue have no reply.
LEMMA BackedAborted ==
    ASSUME NEW rs \in Seq(Results), NEW q \in Seq(1..N), Backed(rs)
    PROVE  rs \o Aborted(q) \in Seq(Results) /\ Backed(rs \o Aborted(q))
<1> DEFINE t == Aborted(q)
<1>1. /\ t \in Seq(Results) /\ Len(t) \in Nat /\ Len(rs) \in Nat
      /\ \A i \in 1..Len(t) : t[i].from = 0
  BY AbortedFacts, LenProperties
<1> HIDE DEF t
<1>2. /\ rs \o t \in Seq(Results) /\ Len(rs \o t) = Len(rs) + Len(t)
      /\ \A i \in 1..Len(rs) + Len(t) :
            (rs \o t)[i] = IF i <= Len(rs) THEN rs[i] ELSE t[i - Len(rs)]
  BY <1>1, ConcatProperties
<1>3. ASSUME NEW i \in 1..Len(rs \o t), (rs \o t)[i].from # 0
      PROVE  i \in 1..Len(rs) /\ (rs \o t)[i] = rs[i]
  <2>1. i \in Nat /\ i >= 1 /\ i <= Len(rs) + Len(t)
    BY <1>1, <1>2
  <2>2. CASE i <= Len(rs)
    BY <1>1, <1>2, <2>1, <2>2
  <2>3. CASE ~(i <= Len(rs))
    <3>1. i - Len(rs) \in 1..Len(t)
      BY <1>1, <2>1, <2>3
    <3> QED
      BY <1>1, <1>2, <1>3, <2>1, <2>3, <3>1
  <2> QED
    BY <2>2, <2>3
<1> QED
  BY <1>2, <1>3 DEF t, Backed

\* A call that ends with the connection in Error, or is dropped.
LEMMA EndedW ==
    ASSUME OInv, WInv, pc' = "idle", state' = "Error" \/ ret' = "cancelled", Matched',
           cmds' = cmds, alive' = alive, stream' = stream \/ Dropped(stream', stream)
    PROVE  WInv'
<1>1. Bounded'
  BY WindowRead DEF OInv, WInv
<1>2. AlignedAfterReturn'
  BY DEF AlignedAfterReturn
<1> QED
  BY <1>1, <1>2 DEF WInv

\* A call that fails, and one that is dropped.
LEMMA FailW ==
    ASSUME OInv, WInv, NEW e \in {"err", "cancelled"}, Fail(e),
           cmds' = cmds, alive' = alive, stream' = stream \/ Dropped(stream', stream)
    PROVE  WInv'
<1>1. /\ pc' = "idle" /\ ret' = e /\ results' = <<>>
      /\ state' = (IF e = "err" THEN "Error" ELSE state)
  BY DEF Fail
<1>2. Matched'
  BY <1>1 DEF Matched
<1> QED
  BY <1>1, <1>2, EndedW

\* A call that goes on: its window is that of the next state.
LEMMA GoingOnW ==
    ASSUME OInv', pc' # "idle", CallWire', ~alive' => Len(cmds') = 0, Matched'
    PROVE  WInv'
<1>1. TypeOK' /\ (Len(inflight) + Hand <= Depth)'
  BY DEF OInv, OrderInv
<1>2. Bounded'
  BY <1>1, WindowInCallNext
<1>3. AlignedAfterReturn'
  BY DEF AlignedAfterReturn
<1> QED
  BY <1>2, <1>3 DEF WInv

LEMMA InitW == Init => WInv
<1> SUFFICES ASSUME Init PROVE WInv
  OBVIOUS
<1>1. cmds = <<>> /\ stream = <<>> /\ results = <<>> /\ pc = "idle" /\ Len(<<>>) = 0
  BY DEF Init, FreshWire
<1>2. Bounded
  <2>1. InWindow(<<>>, 0)
    BY DEF InWindow
  <2> QED
    BY <1>1, <2>1 DEF Bounded
<1> QED
  BY <1>1, <1>2 DEF WInv, AlignedAfterReturn, Matched

\* Between calls nothing moves.
LEMMA SubmitW == OInv /\ WInv /\ Submit => WInv'
<1> SUFFICES ASSUME OInv, WInv, Submit PROVE WInv'
  OBVIOUS
<1>1. pc = "idle" /\ UNCHANGED <<pc, results, state, ret, asked, carried, cmds, stream, alive>>
  BY DEF Submit, wireVars
<1>2. Bounded'
  BY <1>1, WindowRead DEF OInv, WInv
<1> QED
  BY <1>1, <1>2 DEF WInv, AlignedAfterReturn, Matched

\* A call starts on a quiet session.
LEMMA StartW == OInv /\ WInv /\ OInv' /\ Start => WInv'
<1> SUFFICES ASSUME OInv, WInv, OInv', Start PROVE WInv'
  OBVIOUS
<1>1. /\ TypeOK /\ pc = "idle" /\ state = "Ready" /\ ret # "cancelled" /\ pc' = "send"
      /\ results' = <<>> /\ carried' = Len(inflight)
      /\ UNCHANGED <<pending, inflight, cur, submitted, sent, cmds, stream, alive>>
  BY DEF OInv, Start, wireVars
<1>2. /\ Len(cmds) = 0 /\ Len(stream) = 0 /\ cur = 0
      /\ Last \in Int /\ Len(inflight) \in Nat /\ Len(<<>>) = 0
  BY <1>1, EmptySeq, Lengths DEF OInv, WInv, OrderInv, AlignedAfterReturn, TypeOK
<1>3. Last' = Last /\ Expect' = [for |-> Last + 1, part |-> "line"]
  <2>1. Last' = Last /\ Hand' = 0
    BY <1>1, <1>2 DEF Last, Hand
  <2>2. ((Last' - Len(inflight')) + (1 - Hand')) + carried' = Last + 1
    BY <1>1, <1>2, <2>1
  <2> QED
    BY <1>1, <2>1, <2>2 DEF Expect
<1>4. CallWire'
  <2>1. Chain(stream', Expect') /\ \A i \in 1..Len(stream') : stream'[i].for <= Last'
    BY <1>1, <1>2 DEF Chain
  <2>2. DueAfter(stream', Expect') = [for |-> Last + 1, part |-> "line"]
    BY <1>1, <1>2, <1>3 DEF DueAfter
  <2>3. Rest(cmds', DueAfter(stream', Expect'), Last')
    BY <1>1, <1>2, <1>3, <2>2 DEF Rest
  <2> QED
    BY <1>2, <1>3, <2>1, <2>3 DEF CallWire
<1>5. Matched'
  BY <1>1, <1>2 DEF Matched
<1> QED
  BY <1>1, <1>2, <1>4, <1>5, GoingOnW

\* The next request goes out: what is read next stays the same.
LEMMA SendOneW == OInv /\ WInv /\ OInv' /\ SendOne => WInv'
<1> SUFFICES ASSUME OInv, WInv, OInv', SendOne PROVE WInv'
  OBVIOUS
<1>1. /\ TypeOK /\ pc = "send" /\ WriteCmd(Last + 1) /\ Last + 1 \in 1..N
      /\ UNCHANGED <<pc, results, asked, carried, stream, alive>>
  BY SendOneFacts
<1>2. /\ Last' = Last + 1 /\ Len(inflight') = Len(inflight) + 1 /\ Hand = 0 /\ Hand' = 0
  BY SendOneFacts
<1>3. /\ Last \in Int /\ Len(inflight) \in Nat /\ Len(cmds) \in Nat /\ carried \in Nat
      /\ Expect \in Expectation /\ stream \in Seq(Part)
  BY <1>1, Lengths, ExpectFacts DEF TypeOK, Part
<1>4. Expect' = Expect
  <2>1. ((Last' - Len(inflight')) + (1 - Hand')) + carried'
          = ((Last - Len(inflight)) + (1 - Hand)) + carried
    BY <1>1, <1>2, <1>3
  <2> QED
    BY <1>1, <2>1 DEF Expect
<1>5. CallWire
  BY <1>1 DEF WInv
<1>6. IF alive THEN Extended(cmds', cmds, [for |-> Last + 1, part |-> "line"]) ELSE cmds' = cmds
  BY <1>1, <1>2, WriteCmdEffect
<1>7. CallWire'
  <2>1. Chain(stream', Expect')
    BY <1>1, <1>4, <1>5 DEF CallWire
  <2>2. \A i \in 1..Len(stream') : stream'[i].for <= Last'
    <3>1. \A i \in 1..Len(stream) : stream[i].for <= Last /\ stream[i].for \in Int
      BY <1>3, <1>5, ChainForward DEF CallWire
    <3> QED
      BY <1>1, <1>2, <1>3, <3>1
  <2>3. ASSUME alive PROVE Rest(cmds', DueAfter(stream, Expect), Last + 1)
    <3>1. Rest(cmds, DueAfter(stream, Expect), Last) /\ DueAfter(stream, Expect) \in Expectation
      BY <1>3, <1>5, <2>3, ChainForward DEF CallWire
    <3> QED
      BY <1>3, <1>6, <2>3, <3>1, RestWritten
  <2>4. Expect'.for <= Last' + 1
    <3>1. Expect.for <= Last + 1 /\ Expect.for \in Int
      BY <1>3, <1>5 DEF CallWire, Expectation
    <3> QED
      BY <1>2, <1>3, <1>4, <3>1
  <2> QED
    BY <1>1, <1>2, <1>4, <2>1, <2>2, <2>3, <2>4 DEF CallWire
<1>8. Matched' /\ (~alive' => Len(cmds') = 0)
  BY <1>1, <1>6 DEF WInv, Matched
<1> QED
  BY <1>1, <1>7, <1>8, GoingOnW

\* The oldest request is popped, or the call is over and the session quiet.
LEMMA SendDoneW == OInv /\ WInv /\ OInv' /\ SendDone => WInv'
<1> SUFFICES ASSUME OInv, WInv, OInv', SendDone PROVE WInv'
  OBVIOUS
<1>1. /\ TypeOK /\ pc = "send" /\ ~CanSend /\ cur = 0 /\ Hand = 0 /\ CallWire
      /\ UNCHANGED <<pending, results, state, asked, carried, sent, cmds, stream, alive>>
  BY DEF OInv, OrderInv, WInv, SendDone, wireVars, histVars, Hand
<1>2. /\ Last \in Int /\ Len(inflight) \in Nat /\ Len(cmds) \in Nat /\ Len(stream) \in Nat
      /\ Last' = Last /\ carried \in Nat
  BY <1>1, Lengths DEF Last
<1>3. Matched' /\ (~alive' => Len(cmds') = 0)
  BY <1>1 DEF WInv, Matched
<1>4. CASE inflight = <<>>
  <2>1. pc' = "idle" /\ Len(inflight) = 0
    BY <1>4, EmptySeq DEF SendDone
  <2>2. Expect = [for |-> Last + 1, part |-> "line"]
    <3>1. Expect = [for |-> (Last + 1) + carried, part |-> "line"]
      <4>1. ((Last - Len(inflight)) + (1 - Hand)) + carried = (Last + 1) + carried
        BY <1>1, <1>2, <2>1
      <4> QED
        BY <1>1, <4>1 DEF Expect
    <3>2. carried = 0
      BY <1>1, <1>2, <3>1 DEF CallWire
    <3> QED
      BY <1>2, <3>1, <3>2
  <2>3. Len(stream) = 0
    <3>1. ASSUME Len(stream) # 0 PROVE FALSE
      <4>1. 1 \in 1..Len(stream) /\ stream[1].for = Last + 1
        BY <1>1, <1>2, <2>2, <3>1 DEF CallWire, Chain, Fits
      <4>2. stream[1].for <= Last
        BY <1>1, <4>1 DEF CallWire
      <4> QED
        BY <1>2, <4>1, <4>2
    <3> QED
      BY <3>1
  <2>4. Len(cmds) = 0
    <3>1. CASE alive
      <4>1. Rest(cmds, Expect, Last)
        BY <1>1, <2>3, <3>1 DEF CallWire, DueAfter
      <4> QED
        BY <1>2, <2>2, <4>1 DEF Rest
    <3>2. CASE ~alive
      BY <3>2 DEF WInv
    <3> QED
      BY <3>1, <3>2
  <2>5. cmds' = <<>> /\ stream' = <<>>
    BY <1>1, <2>3, <2>4, EmptySeq DEF TypeOK
  <2>6. Bounded'
    BY <1>1, WindowRead DEF WInv
  <2> QED
    BY <1>3, <2>1, <2>5, <2>6 DEF WInv, AlignedAfterReturn
<1>5. CASE inflight # <<>>
  <2>1. pc' = "line" /\ cur' = Head(inflight) /\ inflight' = Tail(inflight)
    BY <1>5 DEF SendDone
  <2>2. /\ Dropped(inflight', inflight) /\ cur' = inflight[1] /\ inflight[1] \in 1..N
    BY <1>1, <1>5, <2>1, TailDrops DEF TypeOK
  <2>3. Len(inflight') = Len(inflight) - 1 /\ Hand' = 1
    BY <2>2 DEF Dropped, Hand
  <2>4. Expect' = Expect
    <3>1. ((Last' - Len(inflight')) + (1 - Hand')) + carried'
            = ((Last - Len(inflight)) + (1 - Hand)) + carried
      BY <1>1, <1>2, <2>3
    <3> QED
      BY <1>1, <2>1, <3>1 DEF Expect
  <2>5. CallWire'
    BY <1>1, <1>2, <2>4 DEF CallWire
  <2> QED
    BY <1>3, <2>1, <2>5, GoingOnW
<1> QED
  BY <1>4, <1>5

\* With a request in hand the next part on the stream is the reply to the
\* request `carried` places later.
LEMMA NextPart ==
    ASSUME OInv, WInv, pc \in {"line", "body"}, TakePart
    PROVE  /\ stream[1].for = Expect.for /\ (stream[1].kind = "body" <=> pc = "body")
           /\ stream[1].for \in Int /\ stream[1].for <= Last
           /\ (Len(results) + 1) + carried <= Len(asked)
           /\ sent[stream[1].for] = asked[(Len(results) + 1) + carried]
           /\ sent[stream[1].for] \in 1..N
           /\ cur \in 1..N /\ stream[1] \in Part /\ Head(stream) = stream[1]
           /\ Dropped(stream', stream) /\ cmds' = cmds /\ alive' = alive
           /\ Chain(stream', After(stream[1]))
           /\ \A i \in 1..Len(stream') : stream'[i].for <= Last
           /\ alive => Rest(cmds, DueAfter(stream', After(stream[1])), Last)
<1>1. CallWire
  BY DEF WInv
<1>2. /\ TypeOK /\ cur \in 1..N /\ Hand = 1 /\ CallSent /\ Numbered
      /\ Len(inflight) \in Nat /\ Len(results) \in Nat /\ carried \in Nat
      /\ Len(pending) \in Nat /\ Len(asked) \in Nat
      /\ Last \in Nat /\ Last = Len(sent) /\ Placed \in Int /\ Shift \in Int
      /\ Len(results) + 1 + Len(inflight) = Placed
  BY InHandFacts
<1>3. /\ Dropped(stream', stream) /\ Len(stream) \in Nat \ {0} /\ cmds' = cmds /\ alive' = alive
      /\ stream[1] \in Part /\ Head(stream) = stream[1] /\ Len(stream') \in Nat
  BY <1>2, TakePartEffect
<1>4. Expect = [for |-> (Last - Len(inflight)) + carried,
                part |-> IF pc = "body" THEN "body" ELSE "line"]
  <2>1. ((Last - Len(inflight)) + (1 - Hand)) + carried = (Last - Len(inflight)) + carried
    BY <1>2
  <2> QED
    BY <2>1 DEF Expect
<1>5. stream[1].for = Expect.for /\ (stream[1].kind = "body" <=> pc = "body")
  BY <1>1, <1>3, <1>4 DEF CallWire, Chain, Fits
<1>6. stream[1].for = (Last - Len(inflight)) + carried /\ stream[1].for <= Last
  BY <1>1, <1>3, <1>4, <1>5 DEF CallWire
<1>7. /\ Chain(stream', After(stream[1]))
      /\ DueAfter(stream', After(stream[1])) = DueAfter(stream, Expect)
  <2>1. stream \in Seq(Part) /\ Chain(stream, Expect)
    BY <1>1, <1>2 DEF CallWire, TypeOK, Part
  <2> QED
    BY <1>3, <2>1, ChainTaken
<1>8. \A i \in 1..Len(stream') : stream'[i].for <= Last
  <2>1. \A i \in 1..Len(stream') : i + 1 \in 1..Len(stream) /\ stream'[i] = stream[i + 1]
    BY <1>3 DEF Dropped
  <2> QED
    BY <1>1, <2>1 DEF CallWire
<1> DEFINE p == (Len(results) + 1) + carried
<1>9. p \in carried + 1 .. Placed /\ p + Shift = stream[1].for
  BY <1>2, <1>6 DEF Shift
<1>10. Placed <= Len(asked) /\ Placed \in Int
  BY <1>2 DEF Placed
<1>11. p <= Len(asked) /\ sent[stream[1].for] = asked[p]
  <2>1. sent[p + Shift] = asked[p]
    BY <1>2, <1>9 DEF CallSent
  <2> QED
    BY <1>2, <1>9, <1>10, <2>1
<1>12. sent[stream[1].for] \in 1..N
  BY <1>2, <1>3, WhoseFacts
<1> QED
  BY <1>1, <1>2, <1>3, <1>5, <1>6, <1>7, <1>8, <1>11, <1>12 DEF CallWire

\* The result for the request in hand, from the reply that is next.
LEMMA AnsweredBacked ==
    ASSUME OInv, WInv, pc \in {"line", "body"}, TakePart, NEW o \in Outcomes, NEW f,
           f = sent[stream[1].for] \/ f = 0
    PROVE  /\ Append(results, Result(cur, o, f)) \in Seq(Results)
           /\ Backed(Append(results, Result(cur, o, f)))
<1>1. /\ (Len(results) + 1) + carried <= Len(asked)
      /\ sent[stream[1].for] = asked[(Len(results) + 1) + carried]
      /\ sent[stream[1].for] \in 1..N
  BY NextPart
<1>2. Len(results) \in Nat /\ cur = asked[Len(results) + 1] /\ N \in Nat
  BY InHandFacts, DepthAssumption
<1>3. f \in 0..N
  BY <1>1, <1>2
<1> DEFINE r == Result(cur, o, f)
           rs == Append(results, r)
<1>4. rs \in Seq(Results) /\ Extended(rs, results, r)
  BY <1>3, ResultFacts
<1>5. r.from = f /\ r.req = cur
  BY DEF Result
<1>6. Backed(results)
  BY DEF WInv, Matched, Backed
<1> HIDE DEF r, rs
<1>7. r.from # 0 => /\ (Len(results) + 1) + carried <= Len(asked)
                    /\ r.from = asked[(Len(results) + 1) + carried]
                    /\ carried = 0 => r.from = r.req
  <2>1. carried = 0 => (Len(results) + 1) + carried = Len(results) + 1
    BY <1>2
  <2> QED
    BY <1>1, <1>2, <1>5, <2>1
<1>8. Backed(rs)
  BY <1>2, <1>4, <1>6, <1>7, BackedAppend
<1> QED
  BY <1>4, <1>8 DEF r, rs

\* The request in hand is answered by the next reply, and the call goes on.
LEMMA AnswerW ==
    ASSUME OInv, WInv, OInv', pc \in {"line", "body"}, TakePart, NEW o \in Outcomes,
           Answer(o, sent[stream[1].for]), stream[1].kind # "found",
           UNCHANGED <<asked, carried, sent>>
    PROVE  WInv'
<1>1. /\ stream[1].for = Expect.for /\ stream[1].for \in Int /\ stream[1].for <= Last
      /\ cmds' = cmds /\ alive' = alive
      /\ Chain(stream', After(stream[1]))
      /\ \A i \in 1..Len(stream') : stream'[i].for <= Last
      /\ alive => Rest(cmds, DueAfter(stream', After(stream[1])), Last)
  BY NextPart
<1>2. /\ results' = Append(results, Result(cur, o, sent[stream[1].for])) /\ cur' = 0
      /\ pc' = "send" /\ UNCHANGED <<pending, inflight>>
  BY DEF Answer
<1>3. Last \in Int /\ Len(inflight) \in Nat /\ Hand = 1 /\ carried \in Nat
  BY InHandFacts
<1>4. Last' = Last /\ Hand' = 0
  BY <1>2 DEF Last, Hand
<1>5. Expect' = After(stream[1])
  <2>1. stream[1].for = ((Last - Len(inflight)) + (1 - Hand)) + carried
    BY <1>1 DEF Expect
  <2>2. ((Last' - Len(inflight')) + (1 - Hand')) + carried' = stream[1].for + 1
    BY <1>2, <1>3, <1>4, <2>1
  <2> QED
    BY <1>2, <2>2 DEF Expect, After
<1>6. CallWire'
  <2>1. Expect'.for <= Last' + 1
    BY <1>1, <1>3, <1>4, <1>5 DEF After
  <2> QED
    BY <1>1, <1>4, <1>5, <2>1 DEF CallWire
<1>7. Matched'
  BY <1>2, AnsweredBacked DEF Backed, Matched
<1> QED
  BY <1>1, <1>2, <1>6, <1>7, GoingOnW DEF WInv

\* Results that drain the queues have no reply behind them.
LEMMA AbortMatched ==
    ASSUME OInv, NEW o \in Outcomes, NEW f, Abort(o, f), UNCHANGED <<asked, carried>>,
           Append(results, Result(cur, o, f)) \in Seq(Results),
           Backed(Append(results, Result(cur, o, f)))
    PROVE  Matched'
<1> DEFINE rs == Append(results, Result(cur, o, f))
           rt == rs \o Aborted(inflight)
<1>1. results' = rt \o Aborted(pending)
  BY DEF Abort
<1>2. inflight \in Seq(1..N) /\ pending \in Seq(1..N)
  BY DEF OInv, TypeOK
<1>3. rs \in Seq(Results) /\ Backed(rs)
  OBVIOUS
<1> HIDE DEF rs
<1>4. rt \in Seq(Results) /\ Backed(rt)
  BY <1>2, <1>3, BackedAborted
<1> HIDE DEF rt
<1>5. Backed(results')
  BY <1>1, <1>2, <1>4, BackedAborted
<1> QED
  BY <1>5 DEF Backed, Matched

LEMMA ReadStatusW == OInv /\ WInv /\ OInv' /\ ReadStatus => WInv'
<1> SUFFICES ASSUME OInv, WInv, OInv', ReadStatus PROVE WInv'
  OBVIOUS
<1>1. TypeOK /\ pc = "line" /\ TakePart /\ UNCHANGED <<submitted, asked, carried, sent>>
  BY DEF OInv, ReadStatus, histVars
<1>2. /\ stream[1].for = Expect.for /\ stream[1].kind # "body" /\ stream[1].for <= Last
      /\ stream[1].for \in Int /\ Dropped(stream', stream) /\ cmds' = cmds /\ alive' = alive
      /\ Chain(stream', After(stream[1]))
      /\ \A i \in 1..Len(stream') : stream'[i].for <= Last
      /\ alive => Rest(cmds, DueAfter(stream', After(stream[1])), Last)
  BY <1>1, NextPart
<1>3. CASE /\ stream[1].kind = "found" /\ pc' = "body"
           /\ UNCHANGED <<cur, results, pending, inflight, ret, state, dirty>>
  <2>1. Last \in Int
    BY <1>1, InHandFacts
  <2>2. Last' = Last /\ Hand' = Hand
    BY <1>1, <1>3 DEF Last, Hand
  <2>3. Expect' = After(stream[1])
    BY <1>1, <1>2, <1>3, <2>2 DEF Expect, After
  <2>4. CallWire'
    <3>1. Expect'.for <= Last' + 1
      BY <1>2, <1>3, <2>1, <2>2, <2>3 DEF After
    <3> QED
      BY <1>2, <2>2, <2>3, <3>1 DEF CallWire
  <2>5. Matched' /\ (~alive' => Len(cmds') = 0)
    BY <1>1, <1>2, <1>3 DEF WInv, Matched
  <2> QED
    BY <1>3, <2>4, <2>5, GoingOnW
<1>4. CASE stream[1].kind = "missing" /\ Answer("missing", sent[stream[1].for])
  BY <1>1, <1>4, AnswerW DEF Outcomes
<1>5. CASE stream[1].kind = "odd" /\ Answer("odd", sent[stream[1].for])
  BY <1>1, <1>5, AnswerW DEF Outcomes
<1>6. CASE Abort("refused", sent[stream[1].for]) /\ state' = "Error"
  <2>1. pc' = "idle"
    BY <1>6 DEF Abort
  <2>2. Matched'
    <3> DEFINE f == sent[stream[1].for]
               rs == Append(results, Result(cur, "refused", f))
    <3>1. rs \in Seq(Results) /\ Backed(rs)
      BY <1>1, AnsweredBacked DEF Outcomes
    <3>2. Abort("refused", f) /\ "refused" \in Outcomes
      BY <1>6 DEF Outcomes
    <3> HIDE DEF f
    <3> QED
      BY <1>1, <3>1, <3>2, AbortMatched
  <2> QED
    BY <1>2, <1>6, <2>1, <2>2, EndedW
<1>7. CASE Fail("err")
  BY <1>2, <1>7, FailW
<1> QED
  BY <1>1, <1>3, <1>4, <1>5, <1>6, <1>7, ReadStatusCases

LEMMA ReadBodyW == OInv /\ WInv /\ OInv' /\ ReadBody => WInv'
<1> SUFFICES ASSUME OInv, WInv, OInv', ReadBody PROVE WInv'
  OBVIOUS
<1>1. /\ pc = "body" /\ TakePart /\ Answer("found", sent[Head(stream).for])
      /\ UNCHANGED <<asked, carried, sent>>
  BY DEF ReadBody, histVars
<1>2. Head(stream) = stream[1] /\ stream[1].kind # "found"
  BY <1>1, NextPart
<1> QED
  BY <1>1, <1>2, AnswerW DEF Outcomes

LEMMA ReadBodyFailW == OInv /\ WInv /\ ReadBodyFail => WInv'
<1> SUFFICES ASSUME OInv, WInv, ReadBodyFail PROVE WInv'
  OBVIOUS
<1>1. /\ pc = "body" /\ Abort("io", 0) /\ state' = "Error"
      /\ UNCHANGED <<asked, carried, cmds, stream, alive>>
  BY DEF ReadBodyFail, wireVars, histVars
<1> DEFINE r == Result(cur, "io", 0)
           rs == Append(results, r)
<1>2. rs \in Seq(Results) /\ Extended(rs, results, r) /\ Len(results) \in Nat /\ r.from = 0
  BY <1>1, ResultFacts, InHandFacts, DepthAssumption DEF Outcomes, Result
<1>3. Backed(rs)
  <2>1. Backed(results)
    BY DEF WInv, Matched, Backed
  <2> HIDE DEF rs, r
  <2> QED
    BY <1>2, <2>1, BackedAppend
<1>4. Matched' /\ pc' = "idle"
  BY <1>1, <1>2, <1>3, AbortMatched DEF Outcomes, Abort
<1> QED
  BY <1>1, <1>4, EndedW

\* A write, a flush or a read fails, or the future is dropped.
LEMMA FailuresW ==
    OInv /\ WInv /\ (SendFail \/ FlushFail \/ ReadStatusFail \/ Cancel) => WInv'
  BY FailW DEF SendFail, FlushFail, ReadStatusFail, Cancel, wireVars

\* The next user finds a quiet session, if users discard a connection whose
\* call they cancelled.
LEMMA NextConnW ==
    ASSUME DropsCancelled, OInv, WInv, pc = "idle", pc' = "idle", NextConn, Matched'
    PROVE  WInv'
<1>1. CASE state = "Ready" /\ ret # "cancelled"
  <2>1. UNCHANGED <<state, cmds, stream, alive>>
    BY <1>1 DEF NextConn, wireVars
  <2>2. cmds = <<>> /\ stream = <<>>
    BY <1>1 DEF WInv, AlignedAfterReturn
  <2>3. Bounded'
    BY <2>1, WindowRead DEF OInv, WInv
  <2> QED
    BY <2>1, <2>2, <2>3 DEF WInv, AlignedAfterReturn
<1>2. CASE ~(state = "Ready" /\ ret # "cancelled")
  <2>1. cmds' = <<>> /\ stream' = <<>> /\ alive' = TRUE /\ Len(<<>>) = 0
    BY <1>2 DEF NextConn, OpenWire
  <2>2. InWindow(<<>>, 0)
    BY DEF InWindow
  <2>3. Bounded'
    BY <2>1, <2>2 DEF Bounded, InWindow
  <2> QED
    BY <2>1, <2>3 DEF WInv, AlignedAfterReturn
<1> QED
  BY <1>1, <1>2

LEMMA HandOverW ==
    ASSUME DropsCancelled, OInv, WInv, HandOver
    PROVE  WInv'
<1>1. pc = "idle" /\ pc' = "idle" /\ NextConn /\ results' = <<>>
  BY DEF HandOver
<1>2. Matched'
  BY <1>1 DEF Matched
<1> QED
  BY <1>1, <1>2, NextConnW

LEMMA RetryW ==
    ASSUME DropsCancelled, OInv, WInv, Retry
    PROVE  WInv'
<1>1. /\ pc = "idle" /\ pc' = "idle" /\ NextConn /\ results' = results
      /\ Len(results) = 0
  BY DEF Retry, OInv, OrderInv
<1>2. Matched'
  BY <1>1 DEF Matched
<1> QED
  BY <1>1, <1>2, NextConnW

\* The server sends what is due, or closes.
LEMMA ServerW == OInv /\ WInv /\ Server => WInv'
<1> SUFFICES ASSUME OInv, WInv, Server PROVE WInv'
  OBVIOUS
<1>1. TypeOK /\ UNCHANGED <<pc, inflight, cur, results, state, ret, asked, carried, sent>>
  BY DEF OInv, Server, pipeVars, histVars
<1>2. /\ Matched' /\ Last' = Last /\ Hand' = Hand /\ Expect' = Expect
  BY <1>1 DEF WInv, Matched, Last, Hand, Expect
<1>3. /\ Last \in Int /\ Expect \in Expectation /\ stream \in Seq(Part)
  BY <1>1, Lengths, ExpectFacts DEF TypeOK, Part
<1>4. CASE SendPart(ReplyKinds, {"found"})
  <2>1. PICK k \in ReplyKinds \cup {"body"} :
          /\ alive /\ alive' /\ Len(cmds) \in Nat \ {0} /\ Len(stream) \in Nat
          /\ cmds[1] \in Owing
          /\ Extended(stream', stream, [for |-> cmds[1].for, kind |-> k])
          /\ \/ k \notin {"found", "body"} /\ cmds[1].part = "line" /\ Dropped(cmds', cmds)
             \/ k = "body" /\ cmds[1].part = "body" /\ Dropped(cmds', cmds)
             \/ /\ k = "found" /\ cmds[1].part = "line" /\ Len(cmds') = Len(cmds)
                /\ cmds'[1] = [for |-> cmds[1].for, part |-> "body"]
                /\ \A i \in 2..Len(cmds) : cmds'[i] = cmds[i]
    BY <1>1, <1>4, SendPartEffect
  <2>2. Bounded'
    BY <1>1, <1>4, WindowSent DEF WInv
  <2>3. AlignedAfterReturn'
    <3>1. cmds # <<>>
      BY <2>1, EmptySeq
    <3> QED
      BY <1>1, <3>1 DEF WInv, AlignedAfterReturn
  <2>4. ASSUME pc # "idle" PROVE CallWire'
    <3> DEFINE p == [for |-> cmds[1].for, kind |-> k]
               due == DueAfter(stream, Expect)
    <3>1. /\ Chain(stream, Expect) /\ \A i \in 1..Len(stream) : stream[i].for <= Last
          /\ Rest(cmds, due, Last)
      BY <2>1, <2>4 DEF WInv, CallWire
    <3>2. due \in Expectation
      BY <1>3, <3>1, ChainForward
    <3>3. p \in Part
      BY <2>1 DEF Part, Owing
    <3>4. p = [for |-> cmds[1].for, kind |-> k]
      OBVIOUS
    <3> HIDE DEF p, due
    <3>5. Rest(cmds', After(p), Last) /\ Fits(p, due) /\ p.for <= Last
      <4>1. /\ Rest(cmds, due, Last) /\ due \in Expectation /\ Last \in Int
            /\ Len(cmds) \in Nat \ {0} /\ k \in ReplyKinds \cup {"body"}
            /\ p = [for |-> cmds[1].for, kind |-> k]
        BY <1>3, <2>1, <3>1, <3>2, <3>4
      <4>2. \/ k \notin {"found", "body"} /\ cmds[1].part = "line" /\ Dropped(cmds', cmds)
            \/ k = "body" /\ cmds[1].part = "body" /\ Dropped(cmds', cmds)
            \/ /\ k = "found" /\ cmds[1].part = "line" /\ Len(cmds') = Len(cmds)
               /\ cmds'[1] = [for |-> cmds[1].for, part |-> "body"]
               /\ \A i \in 2..Len(cmds) : cmds'[i] = cmds[i]
        BY <2>1
      <4> QED
        BY <4>1, <4>2, RestSent
    <3>6. Chain(stream', Expect) /\ DueAfter(stream', Expect) = After(p)
      BY <1>3, <2>1, <3>1, <3>3, <3>4, <3>5, ChainExtended DEF due
    <3>7. \A i \in 1..Len(stream') : stream'[i].for <= Last
      <4> SUFFICES ASSUME NEW i \in 1..Len(stream') PROVE stream'[i].for <= Last
        OBVIOUS
      <4>1. CASE i = Len(stream')
        BY <2>1, <3>4, <3>5, <4>1 DEF Extended
      <4>2. CASE i # Len(stream')
        BY <2>1, <3>1, <4>2 DEF Extended
      <4> QED
        BY <4>1, <4>2
    <3>8. Expect'.for <= Last' + 1
      BY <1>2, <2>4 DEF WInv, CallWire
    <3> QED
      BY <1>2, <3>5, <3>6, <3>7, <3>8 DEF CallWire
  <2> QED
    BY <1>1, <1>2, <2>1, <2>2, <2>3, <2>4 DEF WInv
<1>5. CASE ServerClose
  <2>1. cmds' = <<>> /\ stream' = stream /\ ~alive' /\ Len(<<>>) = 0
    BY <1>5 DEF ServerClose
  <2>2. Bounded'
    BY <2>1 DEF WInv, Bounded, InWindow
  <2>3. pc # "idle" => CallWire'
    BY <1>2, <2>1 DEF WInv, CallWire
  <2> QED
    BY <1>1, <1>2, <2>1, <2>2, <2>3 DEF WInv, AlignedAfterReturn
<1> QED
  BY <1>4, <1>5 DEF Server

\* Between OInv and WInv every step is covered.
LEMMA WireCorrect ==
    ASSUME DropsCancelled
    PROVE  Spec => [](OInv /\ WInv)
<1>1. OInv /\ WInv /\ OInv' /\ UNCHANGED vars => WInv'
  BY DEF WInv, CallWire, Expect, Last, Hand, AlignedAfterReturn, Bounded, Matched,
         vars, pipeVars, histVars, wireVars
<1>2. OInv /\ WInv /\ OInv' /\ [Next]_vars => WInv'
  BY <1>1, SubmitW, StartW, SendOneW, SendDoneW, ReadStatusW, ReadBodyW, ReadBodyFailW,
     FailuresW, HandOverW, RetryW, ServerW DEF Next, Client
<1> QED
  BY <1>2, InitW, OrderCorrect, PTL DEF Spec

\* Every result that has a reply has the one to the request `carried` places
\* later: to its own if the call began with nothing in flight.  This holds also
\* after the connection changed hands and for a Pipeline that is used again
\* after a failed call, as long as cancelled connections are discarded.
THEOREM PipelineMatched ==
    ASSUME DropsCancelled
    PROVE  Spec => []Matched
<1>1. WInv => Matched
  BY DEF WInv
<1> QED
  BY <1>1, WireCorrect, PTL

\* A call that returned, with Ok or Err, leaves no reply outstanding on a
\* connection that looks Ready.
THEOREM PipelineAligned ==
    ASSUME DropsCancelled
    PROVE  Spec => []AlignedAfterReturn
<1>1. WInv => AlignedAfterReturn
  BY DEF WInv
<1> QED
  BY <1>1, WireCorrect, PTL

\* Never more than `pipelining` articles are unanswered or unread.
THEOREM PipelineWindow ==
    ASSUME DropsCancelled
    PROVE  Spec => []WindowRespected
<1>1. OInv /\ WInv => WindowRespected
  <2> SUFFICES ASSUME OInv, WInv PROVE WindowRespected
    OBVIOUS
  <2>1. PICK lo \in Int : InWindow(cmds, lo) /\ InWindow(stream, lo)
    BY DEF WInv, Bounded
  <2>2. /\ cmds \in Seq(Owing) /\ stream \in Seq(Part) /\ Depth \in Nat \ {0}
    BY Lengths DEF OInv, TypeOK, Owing, Part
  <2>3. /\ \A i \in 1..Len(cmds) : cmds[i].for \in Int
        /\ \A i \in 1..Len(stream) : stream[i].for \in Int
    <3>1. /\ \A i \in 1..Len(cmds) : cmds[i] \in Owing
          /\ \A i \in 1..Len(stream) : stream[i] \in Part
      BY <2>2, ElementOfSeq
    <3> QED
      BY <3>1 DEF Owing, Part
  <2> DEFINE hi == (lo + Depth) - 1
             S == {cmds[i].for : i \in 1..Len(cmds)} \cup {stream[i].for : i \in 1..Len(stream)}
  <2>4. S \subseteq lo..hi
    BY <2>1, <2>2, <2>3 DEF InWindow
  <2>5. hi \in Int /\ IsFiniteSet(lo..hi) /\ Cardinality(lo..hi) = Depth
    <3>1. hi \in Int /\ ~(lo > hi) /\ hi - lo + 1 = Depth
      BY <2>2
    <3> HIDE DEF hi
    <3> QED
      BY <3>1, FS_Interval
  <2> HIDE DEF S, hi
  <2>6. Cardinality(S) <= Depth
    BY <2>4, <2>5, FS_Subset
  <2> QED
    BY <2>6 DEF S, WindowRespected
<1> QED
  BY <1>1, WireCorrect, PTL
=============================================================================
