------------------------------ MODULE Pipeline ------------------------------
(***************************************************************************)
(* The ARTICLE pipeline of src/pipeline.rs over one connection, with the   *)
(* users that take the connection one after the other.                     *)
(*                                                                         *)
(* A request is its tag, 1..N in the order of submit(); on the wire it is  *)
(* its place among those written on the connection.  process_all() is      *)
(* modelled at the grain of its awaits: one write, the flush, the read of  *)
(* a status line, the read of a body.  Any of them may fail, and the       *)
(* future may be dropped at any of them.  Replies are told apart as far as *)
(* the code does: "found" (220, a body follows), "missing" (430, 411, 412, *)
(* 420, 423), "refused" (403, 480, 481, 482, 502 and a 400 that ends the   *)
(* session), "odd" (any other code), "garbled" (no status line at all).    *)
(***************************************************************************)
EXTENDS Naturals, FiniteSets, Wire

CONSTANTS
    N,                \* bound: requests submitted in a behaviour
    PipeliningDepth,  \* ServerConfig.pipelining
    DropsCancelled    \* users discard a connection whose call they cancelled

ASSUME DepthAssumption == N \in Nat /\ PipeliningDepth \in Nat
ASSUME UsersAssumption == DropsCancelled \in BOOLEAN

VARIABLES
    pc,         \* where process_all is; "idle": nobody is in it
    pending,    \* Pipeline.pending
    inflight,   \* Pipeline.in_flight
    cur,        \* the request receive_one has popped, 0: none
    dirty,      \* flush_sends has written since it was entered
    results,    \* process_all's results so far, or those it returned
    state,      \* NntpConnection.state
    ret,        \* how the last process_all ended
    submitted,  \* tags given out so far
    asked,      \* history: the requests the current call has to answer
    carried,    \* history: how many of them were in flight when it began
    sent        \* history: the requests written on this connection, in order

histVars == <<submitted, asked, carried, sent>>
pipeVars == <<pc, pending, inflight, cur, dirty, results, state, ret, histVars>>
vars == <<pipeVars, wireVars>>

\* Pipeline::new: a depth of 0 or 1 means send one, read one.
Depth == IF PipeliningDepth = 0 THEN 1 ELSE PipeliningDepth

ReplyKinds == {"found", "missing", "refused", "odd", "garbled"}

\* The request answered next, as the sequence the accounting needs.
Current == IF cur = 0 THEN <<>> ELSE <<cur>>

Tags(rs) == [i \in 1..Len(rs) |-> rs[i].req]

Result(r, outcome, from) == [req |-> r, outcome |-> outcome, from |-> from]

\* The results that drain a queue after a fatal error: no reply is behind them.
Aborted(q) == [i \in 1..Len(q) |-> Result(q[i], "aborted", 0)]

-----------------------------------------------------------------------------
Init ==
    /\ FreshWire
    /\ pc = "idle"
    /\ pending = <<>>
    /\ inflight = <<>>
    /\ cur = 0
    /\ dirty = FALSE
    /\ results = <<>>
    /\ state = "Ready"
    /\ ret = "none"
    /\ submitted = 0
    /\ asked = <<>> /\ carried = 0 /\ sent = <<>>

\* submit()
Submit ==
    /\ pc = "idle"
    /\ submitted < N
    /\ submitted' = submitted + 1
    /\ pending' = Append(pending, submitted + 1)
    /\ UNCHANGED <<pc, inflight, cur, dirty, results, state, ret, asked, carried, sent, wireVars>>

\* process_all() is called; its results start empty.  It does not look at the
\* state field; users call it on a Ready connection, as NntpConnection's own
\* commands require, and after a cancelled call they first HandOver or Retry.
Start ==
    /\ pc = "idle"
    /\ state = "Ready" /\ ret # "cancelled"
    /\ pending # <<>> \/ inflight # <<>>
    /\ pc' = "send"
    /\ asked' = inflight \o pending
    /\ carried' = Len(inflight)
    /\ results' = <<>>
    /\ ret' = "none"
    /\ UNCHANGED <<pending, inflight, cur, dirty, state, submitted, sent, wireVars>>

Fail_KeepsReady(e) ==
    /\ pc' = "idle"
    /\ ret' = e
    /\ results' = <<>>
    /\ cur' = 0
    /\ dirty' = FALSE
    /\ state' = state

\* The call ends with Err: what it had collected is dropped with its Vec, what
\* it had popped is dropped too, the queues of the Pipeline stay.
Fail(e) ==
    /\ pc' = "idle"
    /\ ret' = e
    /\ results' = <<>>
    /\ cur' = 0
    /\ dirty' = FALSE
    /\ state' = IF e = "err" THEN "Error" ELSE state

-----------------------------------------------------------------------------
(* flush_sends()                                                            *)

\* The window has room and there is something to send.
CanSend == Len(inflight) < Depth /\ pending # <<>>

SendOne ==
    /\ pc = "send"
    /\ CanSend
    /\ sent' = Append(sent, Head(pending))
    /\ WriteCmd(Len(sent'))
    /\ inflight' = Append(inflight, Head(pending))
    /\ pending' = Tail(pending)
    /\ dirty' = TRUE
    /\ UNCHANGED <<pc, cur, results, state, ret, submitted, asked, carried, stream, alive>>

\* The write fails or times out: the popped request is in neither queue.
SendFail ==
    /\ pc = "send"
    /\ CanSend
    /\ pending' = Tail(pending)
    /\ Fail("err")
    /\ UNCHANGED <<inflight, histVars, wireVars>>

\* The window is full or nothing is left to send, and the flush succeeds:
\* receive_one pops the oldest request, or process_all is done.
SendDone ==
    /\ pc = "send"
    /\ ~CanSend
    /\ dirty' = FALSE
    /\ IF inflight = <<>>
       THEN pc' = "idle" /\ ret' = "ok" /\ UNCHANGED <<cur, inflight>>
       ELSE /\ pc' = "line"
            /\ cur' = Head(inflight)
            /\ inflight' = Tail(inflight)
            /\ ret' = ret
    /\ UNCHANGED <<pending, results, state, histVars, wireVars>>

FlushFail ==
    /\ pc = "send"
    /\ ~CanSend
    /\ dirty
    /\ Fail("err")
    /\ UNCHANGED <<pending, inflight, histVars, wireVars>>

-----------------------------------------------------------------------------
(* receive_one()                                                            *)

\* The request is answered and process_all goes round its loop.
Answer(outcome, from) ==
    /\ results' = Append(results, Result(cur, outcome, from))
    /\ cur' = 0
    /\ pc' = "send"
    /\ UNCHANGED <<pending, inflight, ret>>

Abort_SkipsPending(outcome, from) ==
    /\ results' = Append(results, Result(cur, outcome, from)) \o Aborted(inflight)
    /\ inflight' = <<>>
    /\ pending' = pending
    /\ cur' = 0
    /\ pc' = "idle"
    /\ ret' = "ok"

\* A fatal error: both queues are drained as failures and process_all returns.
Abort(outcome, from) ==
    /\ results' = Append(results, Result(cur, outcome, from))
                     \o Aborted(inflight) \o Aborted(pending)
    /\ inflight' = <<>>
    /\ pending' = <<>>
    /\ cur' = 0
    /\ pc' = "idle"
    /\ ret' = "ok"

\* A status line is read and classified.
ReadStatus ==
    /\ pc = "line"
    /\ TakePart
    /\ LET part == Head(stream)  whose == sent[part.for]
       IN  \/ /\ part.kind = "found"
              /\ pc' = "body"
              /\ UNCHANGED <<cur, results, pending, inflight, ret, state, dirty>>
           \/ /\ part.kind = "missing"
              /\ Answer("missing", whose)
              /\ UNCHANGED <<state, dirty>>
           \/ /\ part.kind = "refused"
              /\ Abort("refused", whose)
              /\ state' = "Error"
              /\ dirty' = dirty
           \/ /\ part.kind = "odd"
              /\ Answer("odd", whose)
              /\ state' = "Error"
              /\ dirty' = dirty
           \/ /\ part.kind \in {"garbled", "body"}
              /\ Fail("err")
              /\ UNCHANGED <<pending, inflight>>
    /\ UNCHANGED histVars

ReadStatusFail_NoTimeout ==
    /\ pc = "line"
    /\ stream = <<>> /\ ~alive
    /\ Fail("err")
    /\ UNCHANGED <<pending, inflight, histVars, wireVars>>

\* READ_LINE_TIMEOUT, a read error or the end of the stream.
ReadStatusFail ==
    /\ pc = "line"
    /\ stream = <<>>
    /\ Fail("err")
    /\ UNCHANGED <<pending, inflight, histVars, wireVars>>

ReadBody ==
    /\ pc = "body"
    /\ TakePart
    /\ Answer("found", sent[Head(stream).for])
    /\ UNCHANGED <<state, dirty, histVars>>

\* The body ends early: unlike a failed status line this is a result.
ReadBodyFail ==
    /\ pc = "body"
    /\ stream = <<>>
    /\ Abort("io", 0)
    /\ state' = "Error"
    /\ UNCHANGED <<dirty, histVars, wireVars>>

\* The future is dropped at an await: a write, whose request is lost like that
\* of SendFail, a flush or a read.  The state field is not touched.
Cancel ==
    /\ \/ pc = "send" /\ CanSend /\ pending' = Tail(pending)
       \/ pc = "send" /\ ~CanSend /\ dirty /\ pending' = pending
       \/ pc \in {"line", "body"} /\ pending' = pending
    /\ Fail("cancelled")
    /\ UNCHANGED <<inflight, histVars, wireVars>>

-----------------------------------------------------------------------------
(* The users of the connection                                              *)

NextConn_Unchecked == UNCHANGED <<state, sent, wireVars>>

\* The next connection: the same one if the pool takes it back (state Ready),
\* otherwise a new one.
NextConn ==
    IF state = "Ready" /\ ~(DropsCancelled /\ ret = "cancelled")
    THEN UNCHANGED <<state, sent, wireVars>>
    ELSE state' = "Ready" /\ sent' = <<>> /\ OpenWire

\* The user is done: somebody else goes on with a Pipeline of its own.
HandOver ==
    /\ pc = "idle"
    /\ ret # "none"
    /\ NextConn
    /\ pending' = <<>>
    /\ inflight' = <<>>
    /\ results' = <<>>
    /\ asked' = <<>> /\ carried' = 0
    /\ ret' = "none"
    /\ UNCHANGED <<pc, cur, dirty, submitted>>

\* The user goes on with the same Pipeline after a failed call.  What the old
\* connection had not answered is still in flight, and is never sent again.
Retry ==
    /\ pc = "idle"
    /\ ret \in {"err", "cancelled"}
    /\ NextConn
    /\ asked' = <<>> /\ carried' = 0
    /\ ret' = "none"
    /\ UNCHANGED <<pc, pending, inflight, cur, dirty, results, submitted>>

-----------------------------------------------------------------------------
Server == (SendPart(ReplyKinds, {"found"}) \/ ServerClose) /\ UNCHANGED pipeVars

\* The awaits of process_all; each ends by an answer, an error or a timeout.
Client ==
    \/ SendOne \/ SendFail \/ SendDone \/ FlushFail
    \/ ReadStatus \/ ReadStatusFail \/ ReadBody \/ ReadBodyFail

Next == Submit \/ Start \/ Client \/ Cancel \/ HandOver \/ Retry \/ Server

Spec == Init /\ [][Next]_vars

\* Every read and every write of the client is bounded by a timeout.
FairSpec == Spec /\ WF_vars(Client)

-----------------------------------------------------------------------------
(* Properties                                                               *)

\* Types of the queues, the results and the positions.
TypeOK ==
    /\ pc \in {"idle", "send", "line", "body"}
    /\ pending \in Seq(1..N) /\ inflight \in Seq(1..N) /\ asked \in Seq(1..N)
    /\ Len(inflight) <= Depth
    /\ cur \in 0..N
    /\ dirty \in BOOLEAN
    /\ carried \in Nat
    /\ sent \in Seq(1..N)
    /\ results \in Seq([req : 1..N, from : 0..N,
                        outcome : {"found", "missing", "refused", "odd", "io", "aborted"}])
    /\ state \in {"Ready", "Error"}
    /\ ret \in {"none", "ok", "err", "cancelled"}
    /\ submitted \in 0..N
    /\ cmds \in Seq([for : 1..N, part : {"line", "body"}])
    /\ stream \in Seq([for : 1..N, kind : ReplyKinds \cup {"body"}])
    /\ alive \in BOOLEAN

\* Replies and requests slip against each other by the requests that a failed
\* call left in flight and by nothing else: every result that has a reply has
\* the one to the request `carried` places later.  A call that starts with
\* nothing in flight gives every request its own reply, also after failures of
\* earlier calls and after the connection changed hands.
Matched ==
    \A i \in 1..Len(results) : results[i].from # 0 =>
       /\ i + carried <= Len(asked) /\ results[i].from = asked[i + carried]
       /\ carried = 0 => results[i].from = results[i].req

\* Inside process_all, and when it returned Ok, no request is lost, duplicated
\* or reordered: answered, current, in flight and pending requests are, in
\* this order, what the call was asked for.
Accounted ==
    pc # "idle" \/ ret = "ok" =>
       IF pc = "idle" THEN Tags(results) = asked
       ELSE Tags(results) \o Current \o inflight \o pending = asked

\* Never more than depth requests are unanswered or have unread answers.
WindowRespected ==
    Cardinality({cmds[i].for : i \in 1..Len(cmds)}
                  \cup {stream[i].for : i \in 1..Len(stream)}) <= Depth

\* A call that returned, with Ok or Err, leaves no reply outstanding on a
\* connection that looks Ready.
AlignedAfterReturn ==
    pc = "idle" /\ state = "Ready" /\ ret # "cancelled" => cmds = <<>> /\ stream = <<>>

\* ConnectionState: "Ready: Authenticated and idle, ready for commands".  A
\* connection nobody is using and that looks Ready has no reply outstanding.
ReadyMeansAligned ==
    pc = "idle" /\ state = "Ready" => cmds = <<>> /\ stream = <<>>

\* Every call of process_all returns, whatever the server does.
Returns == pc # "idle" ~> pc = "idle"
=============================================================================
