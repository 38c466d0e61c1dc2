---------------------------- MODULE StatPipeline ----------------------------
(***************************************************************************)
(* The batched STAT check of src/pipeline.rs over one connection.          *)
(* execute() takes every queued message-id, sends a batch of STATs in one  *)
(* flush, reads the batch's replies in order, and goes on with the next    *)
(* batch.  Unlike the ARTICLE pipeline it marks the connection Busy, so a  *)
(* call that is dropped half-way leaves a connection nobody will reuse.    *)
(* Replies: "exists" (223), "absent" (430), "refused" (480, 481, 482,      *)
(* 502), "odd" (any other code) and "garbled" (no status line).            *)
(***************************************************************************)
EXTENDS Naturals, FiniteSets, Wire

CONSTANTS N,         \* bound: message-ids queued in a behaviour
          BatchSize  \* STAT_BATCH_SIZE

ASSUME BatchAssumption == N \in Nat /\ BatchSize \in Nat \ {0}

VARIABLES
    pc,        \* "idle", or in execute(): "send" or "read"
    pending,   \* StatPipeline.pending
    ids,       \* the message-ids taken by the running call
    sent,      \* how many of them have been sent
    results,   \* answers so far, or those returned
    state,     \* NntpConnection.state
    ret,       \* how the last execute ended
    queued     \* message-ids given out so far

statVars == <<pc, pending, ids, sent, results, state, ret, queued>>
vars == <<statVars, wireVars>>

StatKinds == {"exists", "absent", "refused", "odd", "garbled"}

\* Where the batch that contains the next reply ends.
BatchEnd ==
    LET hi == ((Len(results) \div BatchSize) + 1) * BatchSize
    IN  IF hi < Len(ids) THEN hi ELSE Len(ids)

Init ==
    /\ FreshWire
    /\ pc = "idle" /\ pending = <<>> /\ ids = <<>> /\ sent = 0
    /\ results = <<>> /\ state = "Ready" /\ ret = "none" /\ queued = 0

\* add()
Add ==
    /\ pc = "idle"
    /\ queued < N
    /\ queued' = queued + 1
    /\ pending' = Append(pending, queued + 1)
    /\ UNCHANGED <<pc, ids, sent, results, state, ret, wireVars>>

\* execute(): the queue is taken at once, whatever happens to the call.  With
\* nothing queued there is no batch and the state is left alone.
Execute ==
    /\ pc = "idle"
    /\ state = "Ready"
    /\ ids' = pending
    /\ pending' = <<>>
    /\ sent' = 0
    /\ results' = <<>>
    /\ IF pending = <<>>
       THEN pc' = "idle" /\ ret' = "ok" /\ state' = state
       ELSE pc' = "send" /\ ret' = "none" /\ state' = "Busy"
    /\ UNCHANGED <<queued, wireVars>>

SendStat ==
    /\ pc = "send"
    /\ sent < BatchEnd
    /\ WriteCmd(ids[sent + 1])
    /\ sent' = sent + 1
    /\ UNCHANGED <<pc, pending, ids, results, state, ret, queued, stream, alive>>

Flush ==
    /\ pc = "send"
    /\ sent = BatchEnd
    /\ pc' = "read"
    /\ UNCHANGED <<pending, ids, sent, results, state, ret, queued, wireVars>>

EndErr_KeepsState ==
    /\ pc' = "idle" /\ ret' = "err" /\ state' = "Ready"
    /\ results' = <<>>

\* execute returns Err: the answers it had are dropped.
EndErr ==
    /\ pc' = "idle" /\ ret' = "err" /\ state' = "Error"
    /\ results' = <<>>

\* A write or the flush fails or times out.
WriteFail ==
    /\ pc = "send"
    /\ EndErr
    /\ UNCHANGED <<pending, ids, sent, queued, wireVars>>

StateAfterBatch_Early == "Ready"

\* Ready once the last batch is read; a further batch is Busy again before the
\* next await.
StateAfterBatch == IF BatchEnd = Len(ids) THEN "Ready" ELSE "Busy"

AllAnswered_Batch(rs) == TRUE

AllAnswered(rs) == Len(rs) = Len(ids)

\* One answer; the last of a batch starts the next batch or ends the call.
Answer(exists, from) ==
    LET rs == Append(results, [id |-> ids[Len(results) + 1], exists |-> exists,
                               from |-> from])
    IN  /\ results' = rs
        /\ IF Len(rs) < BatchEnd
           THEN UNCHANGED <<pc, state, ret>>
           ELSE /\ state' = StateAfterBatch
                /\ IF AllAnswered(rs) THEN pc' = "idle" /\ ret' = "ok"
                   ELSE pc' = "send" /\ ret' = ret

ReadStat ==
    /\ pc = "read"
    /\ TakePart
    /\ LET part == Head(stream)
       IN  \/ part.kind = "exists" /\ Answer(TRUE, part.for)
           \/ part.kind = "absent" /\ Answer(FALSE, part.for)
           \/ part.kind \in {"refused", "odd", "garbled"} /\ EndErr
    /\ UNCHANGED <<pending, ids, sent, queued>>

ReadFail_NoTimeout ==
    /\ pc = "read"
    /\ stream = <<>> /\ ~alive
    /\ EndErr
    /\ UNCHANGED <<pending, ids, sent, queued, wireVars>>

\* READ_LINE_TIMEOUT, a read error or the end of the stream.
ReadFail ==
    /\ pc = "read"
    /\ stream = <<>>
    /\ EndErr
    /\ UNCHANGED <<pending, ids, sent, queued, wireVars>>

\* The future is dropped at an await; the state stays Busy.
Cancel ==
    /\ pc # "idle"
    /\ pc' = "idle" /\ ret' = "cancelled" /\ results' = <<>>
    /\ UNCHANGED <<pending, ids, sent, state, queued, wireVars>>

\* The pool's rule: a connection that is not Ready is replaced.
HandOver ==
    /\ pc = "idle"
    /\ ret # "none"
    /\ IF state = "Ready" THEN UNCHANGED <<state, wireVars>>
       ELSE state' = "Ready" /\ OpenWire
    /\ ret' = "none" /\ results' = <<>> /\ ids' = <<>>
    /\ UNCHANGED <<pc, pending, sent, queued>>

Server == (SendPart(StatKinds, {}) \/ ServerClose) /\ UNCHANGED statVars

Client == SendStat \/ Flush \/ WriteFail \/ ReadStat \/ ReadFail

Next == Add \/ Execute \/ Client \/ Cancel \/ HandOver \/ Server

Spec == Init /\ [][Next]_vars

\* Every read and every write is bounded by a timeout.
FairSpec == Spec /\ WF_vars(Client)

-----------------------------------------------------------------------------
\* Types of the queue, the batch, the answers and the session.
TypeOK ==
    /\ pc \in {"idle", "send", "read"}
    /\ pending \in Seq(1..N) /\ ids \in Seq(1..N)
    /\ sent \in Nat /\ queued \in 0..N
    /\ results \in Seq([id : 1..N, from : 1..N, exists : BOOLEAN])
    /\ state \in {"Ready", "Busy", "Error"}
    /\ ret \in {"none", "ok", "err", "cancelled"}
    /\ cmds \in Seq([for : 1..N, part : {"line", "body"}])
    /\ stream \in Seq([for : 1..N, kind : StatKinds \cup {"body"}])
    /\ alive \in BOOLEAN

\* Every answer is the server's answer to that message-id.
Matched == \A i \in 1..Len(results) : results[i].from = results[i].id

\* execute returns Ok only with one answer per message-id, in their order.
OkMeansComplete ==
    ret = "ok" => /\ Len(results) = Len(ids)
                  /\ \A i \in 1..Len(ids) : results[i].id = ids[i]

\* Never more than BatchSize STATs are unanswered or have unread answers: what
\* the server has to buffer is bounded, also when a call is dropped.
BatchRespected == Len(cmds) + Len(stream) <= BatchSize

\* Whoever finds the connection Ready finds no reply outstanding, also when
\* the future of execute was dropped at any of its awaits.
ReadyMeansAligned ==
    state = "Ready" => cmds = <<>> /\ stream = <<>>

\* Every call of execute returns, whatever the server does.
Returns == pc # "idle" ~> pc = "idle"
=============================================================================
