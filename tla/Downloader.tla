----------------------------- MODULE Downloader -----------------------------
(***************************************************************************)
(* The download orchestrator of src/downloader.rs and the ServerState      *)
(* penalties of src/server.rs: calls of download() that run concurrently   *)
(* over the same servers, each with its own list of articles and its own   *)
(* result channel.                                                         *)
(*                                                                         *)
(* The connection pool of a server is the SlotLimiter that ConnectionPool  *)
(* is proved to implement.  A step is what runs between two awaits or      *)
(* under one lock of the server list.  Error values are told apart as far  *)
(* as the code does: "missing" (430), "odd" (any error that is not fatal), *)
(* "auth" and "timeout" (which always earn the long penalty), "expired" (a *)
(* 400 that ends an idle session), "io" (every other fatal error).         *)
(***************************************************************************)
EXTENDS Naturals, Sequences, FiniteSets

CONSTANTS
    Calls,         \* concurrent calls of download()
    Batch,         \* how many articles each call is given
    Controls,      \* which of "pause" and "shutdown" the program ever calls
    Configs,       \* [priority, enabled, connections] of the servers, in order
    PreTried,      \* values of Article.tried_servers the calls may bring
    ShortPenalty,  \* PENALTY_UNKNOWN, in ticks of the clock
    LongPenalty,   \* PENALTY_AUTH and PENALTY_TIMEOUT, in ticks
    ChannelCap     \* capacity of a result channel

ASSUME CallsAssumption == IsFiniteSet(Calls)
ASSUME BatchAssumption == Batch \in [Calls -> Nat]
ASSUME ConfigsAssumption ==
    Configs \in Seq([priority : Nat, enabled : BOOLEAN, connections : Nat])
ASSUME PenaltyAssumption ==
    /\ ShortPenalty \in Nat \ {0}
    /\ LongPenalty \in Nat
    /\ ShortPenalty <= LongPenalty
\* A caller lists no server twice.
ASSUME TriedAssumption ==
    \A q \in PreTried :
      q \in Seq(DOMAIN Configs) /\ \A i, j \in 1..Len(q) : q[i] = q[j] => i = j
ASSUME ChannelAssumption == ChannelCap \in Nat \ {0}

VARIABLES
    pc,        \* where each call of download() is
    pending,   \* its articles not yet settled, next first
    cur,       \* the article it works on, 0: none
    tried,     \* DownloadRequest.tried_servers of every article
    pick,      \* the server it picked, 0: none
    outcome,   \* the result it holds: "article", "exhausted", or an error
    results,   \* the results it has sent
    queued,    \* results in its channel, not yet received
    receiving, \* its channel has a receiver
    held,      \* per server: calls that own a slot of its pool
    waiting,   \* per server: calls queued for a slot, oldest first
    active,    \* ServerState.connections_active
    stats,     \* ServerState.articles_tried and articles_failed
    penalty,   \* ticks until ServerState.penalty_until, 0: available
    backedOff, \* history: servers that have ever been penalized
    leaked,    \* history: calls dropped while they counted as active
    paused, shutdown

callVars   == <<pc, pending, cur, tried, pick, outcome, results>>
chanVars   == <<queued, receiving>>
slotVars   == <<held, waiting>>
serverVars == <<active, stats, penalty, backedOff, leaked>>
flagVars   == <<paused, shutdown>>
vars == <<callVars, chanVars, slotVars, serverVars, flagVars>>

\* An article of a call is its position in the list the call was given.
Articles(d) == 1..Batch[d]

Servers == {s \in DOMAIN Configs : Configs[s].enabled}

\* Position in the list that new() sorts by priority; the sort is stable.
Before(s, t) ==
    \/ Configs[s].priority < Configs[t].priority
    \/ Configs[s].priority = Configs[t].priority /\ s < t

Elements(q) == {q[i] : i \in 1..Len(q)}

Ended == {"returned", "stopped", "dropped"}

\* Errors that penalize the server and discard the connection.
Fatal == {"auth", "io", "expired"}
FetchResults == {"article", "missing", "odd"} \cup Fatal
AcquireErrors == {"auth", "io"}

\* The penalties an error may earn: penalize_for() looks for "auth" and
\* "timeout" in its text, which a server's own words may contain.
PenaltyFor(e) ==
    IF e \in {"auth", "timeout"} THEN {LongPenalty} ELSE {ShortPenalty, LongPenalty}

Slots(s) == INSTANCE SlotLimiter WITH Callers <- Calls,
    Max <- Configs[s].connections, held <- held[s], waiting <- waiting[s]

-----------------------------------------------------------------------------
Init ==
    /\ pc = [d \in Calls |-> "loop"]
    /\ pending = [d \in Calls |-> [i \in Articles(d) |-> i]]
    /\ cur = [d \in Calls |-> 0]
    /\ \E q \in PreTried : tried = [d \in Calls |-> [a \in Articles(d) |-> q]]
    /\ pick = [d \in Calls |-> 0]
    /\ outcome = [d \in Calls |-> "none"]
    /\ results = [d \in Calls |-> <<>>]
    /\ queued = [d \in Calls |-> 0]
    /\ receiving = [d \in Calls |-> TRUE]
    /\ held = [s \in Servers |-> {}]
    /\ waiting = [s \in Servers |-> <<>>]
    /\ active = [s \in Servers |-> 0]
    /\ stats = [s \in Servers |-> [tried |-> 0, failed |-> 0]]
    /\ penalty = [s \in Servers |-> 0]
    /\ backedOff = {}
    /\ leaked = [s \in Servers |-> 0]
    /\ paused = FALSE /\ shutdown = FALSE

Goto(d, l) == pc' = [pc EXCEPT ![d] = l]

-----------------------------------------------------------------------------
(* The head of the loop in download()                                       *)

Loop_IgnoresShutdown(d) ==
    /\ pc[d] \in {"loop", "paused"}
    /\ \/ pending[d] = <<>> /\ pc[d] = "loop" /\ Goto(d, "returned")
       \/ pending[d] # <<>> /\ shutdown /\ pc[d] = "loop" /\ Goto(d, "stopped")
       \/ pending[d] # <<>> /\ paused /\ (pc[d] = "paused" \/ ~shutdown) /\ Goto(d, "paused")
       \/ pending[d] # <<>> /\ ~paused /\ (pc[d] = "paused" \/ ~shutdown) /\ Goto(d, "pick")

\* Both flags are read on every pass, and every 250 ms while paused; but a call
\* whose pause is over goes on without another look at `shutdown`, and fetches
\* one more article.
Loop(d) ==
    /\ pc[d] \in {"loop", "paused"}
    /\ \/ pending[d] = <<>> /\ pc[d] = "loop" /\ Goto(d, "returned")
       \/ pending[d] # <<>> /\ shutdown /\ (pc[d] = "loop" \/ paused) /\ Goto(d, "stopped")
       \/ pending[d] # <<>> /\ paused /\ ~shutdown /\ Goto(d, "paused")
       \/ pending[d] # <<>> /\ ~paused /\ (pc[d] = "paused" \/ ~shutdown) /\ Goto(d, "pick")

CheckFlags(d) ==
    /\ Loop(d)
    /\ UNCHANGED <<pending, cur, tried, pick, outcome, results, chanVars,
                   slotVars, serverVars, flagVars>>

Candidates_Retried(t) == {s \in Servers : penalty[s] = 0}

\* pick_server(): not penalized, not tried yet ...
Candidates(t) == {s \in Servers : penalty[s] = 0 /\ s \notin Elements(t)}

First_Lowest(S) == CHOOSE s \in S : \A t \in S \ {s} : Before(t, s)

\* ... and first in the list.
First(S) == CHOOSE s \in S : \A t \in S \ {s} : Before(s, t)

-----------------------------------------------------------------------------
(* ConnectionPool::acquire(), at the SlotLimiter's grain                    *)

FreeSlot(s) == Cardinality(held[s]) < Configs[s].connections

EnterPool(d, s) ==
    \/ FreeSlot(s) /\ held' = [held EXCEPT ![s] = @ \cup {d}] /\ waiting' = waiting
    \/ ~FreeSlot(s) /\ waiting' = [waiting EXCEPT ![s] = Append(@, d)] /\ held' = held

LeavePool_Kept(d, s) == UNCHANGED slotVars

\* The slot of d goes to the oldest waiter, or d leaves the queue.
LeavePool(d, s) ==
    IF d \in held[s]
    THEN IF waiting[s] = <<>>
         THEN held' = [held EXCEPT ![s] = @ \ {d}] /\ waiting' = waiting
         ELSE /\ held' = [held EXCEPT ![s] = (@ \ {d}) \cup {Head(waiting[s])}]
              /\ waiting' = [waiting EXCEPT ![s] = Tail(@)]
    ELSE /\ \E i \in 1..Len(waiting[s]) :
              waiting[s][i] = d /\ waiting' = [waiting EXCEPT ![s] = Slots(s)!Without(@, i)]
         /\ held' = held

CountActive(s) == active' = [active EXCEPT ![s] = @ + 1]

\* The next article leaves the list, and its call asks the pool of the server
\* it picked for a slot, or has no server left to ask.
Pick(d) ==
    /\ pc[d] = "pick"
    /\ pending' = [pending EXCEPT ![d] = Tail(@)]
    /\ cur' = [cur EXCEPT ![d] = Head(pending[d])]
    /\ LET S == Candidates(tried[d][Head(pending[d])])
       IN  \/ /\ S = {}
              /\ Goto(d, "send")
              /\ outcome' = [outcome EXCEPT ![d] = "exhausted"]
              /\ UNCHANGED <<pick, slotVars>>
           \/ /\ S # {}
              /\ Goto(d, "acquire")
              /\ EnterPool(d, First(S))
              /\ pick' = [pick EXCEPT ![d] = First(S)]
              /\ outcome' = outcome
    /\ UNCHANGED <<tried, results, chanVars, serverVars, flagVars>>

\* An idle connection was alive, or a new one opened and authenticated.
Acquired(d) ==
    /\ pc[d] = "acquire" /\ d \in held[pick[d]]
    /\ CountActive(pick[d])
    /\ Goto(d, "fetch")
    /\ UNCHANGED <<pending, cur, tried, pick, outcome, results, chanVars,
                   slotVars, stats, penalty, backedOff, leaked, flagVars>>

\* No slot for ACQUIRE_TIMEOUT, or no connection: the permit is back before
\* download() sees the error.
AcquireFail(d) ==
    /\ pc[d] = "acquire"
    /\ LeavePool(d, pick[d])
    /\ \E e \in IF d \in held[pick[d]] THEN AcquireErrors ELSE {"timeout"} :
         outcome' = [outcome EXCEPT ![d] = e]
    /\ Goto(d, "failed")
    /\ UNCHANGED <<pending, cur, tried, pick, results, chanVars, serverVars, flagVars>>

-----------------------------------------------------------------------------
(* The result of acquire() or fetch_article(), under the lock               *)

Penalize(s, e) ==
    /\ \E p \in PenaltyFor(e) : penalty' = [penalty EXCEPT ![s] = p]
    /\ backedOff' = backedOff \cup {s}

\* record_success() and record_failure(): every fetch counts as a try.
Record(s, ok) ==
    stats' = [stats EXCEPT ![s] = [tried |-> @.tried + 1,
                                   failed |-> @.failed + (IF ok THEN 0 ELSE 1)]]

UncountActive_Never(s) == UNCHANGED active

\* connections_active.saturating_sub(1)
UncountActive(s) == active' = [active EXCEPT ![s] = IF @ = 0 THEN 0 ELSE @ - 1]

Requeue_Drops(d) ==
    /\ tried' = [tried EXCEPT ![d][cur[d]] = Append(@, pick[d])]
    /\ pending' = pending
    /\ cur' = [cur EXCEPT ![d] = 0]
    /\ pick' = [pick EXCEPT ![d] = 0]
    /\ outcome' = [outcome EXCEPT ![d] = "none"]
    /\ Goto(d, "loop")

\* The article goes to the end of the list, one server poorer.
Requeue(d) ==
    /\ tried' = [tried EXCEPT ![d][cur[d]] = Append(@, pick[d])]
    /\ pending' = [pending EXCEPT ![d] = Append(@, cur[d])]
    /\ cur' = [cur EXCEPT ![d] = 0]
    /\ pick' = [pick EXCEPT ![d] = 0]
    /\ outcome' = [outcome EXCEPT ![d] = "none"]
    /\ Goto(d, "loop")

\* acquire() failed.
Connectless(d) ==
    /\ pc[d] = "failed"
    /\ Penalize(pick[d], outcome[d])
    /\ Requeue(d)
    /\ UNCHANGED <<results, chanVars, slotVars, active, stats, leaked, flagVars>>

\* fetch_article() returns, with the article or one of the errors.
Fetch(d) ==
    /\ pc[d] = "fetch"
    /\ \E r \in FetchResults : outcome' = [outcome EXCEPT ![d] = r]
    /\ Goto(d, "settle")
    /\ UNCHANGED <<pending, cur, tried, pick, results, chanVars, slotVars,
                   serverVars, flagVars>>

\* release_connection() or discard_connection(): the slot is free either way.
Settle(d) ==
    LET s == pick[d]  e == outcome[d] IN
    /\ pc[d] = "settle"
    /\ LeavePool(d, s)
    /\ UncountActive(s)
    /\ Record(s, e = "article")
    /\ IF e \in Fatal THEN Penalize(s, e) ELSE UNCHANGED <<penalty, backedOff>>
    /\ \/ e # "article" /\ Requeue(d)
       \/ e = "article" /\ Goto(d, "send") /\ UNCHANGED <<tried, pending, cur, pick, outcome>>
    /\ UNCHANGED <<results, chanVars, leaked, flagVars>>

-----------------------------------------------------------------------------
(* The result channel                                                       *)

HasRoom_Receiving(d) == queued[d] < ChannelCap /\ receiving[d]

\* send().await waits for room; it fails at once when nobody receives.
HasRoom(d) == queued[d] < ChannelCap \/ ~receiving[d]

\* The error of send() is ignored.
Send(d) ==
    /\ pc[d] = "send"
    /\ HasRoom(d)
    /\ queued' = [queued EXCEPT ![d] = IF receiving[d] THEN @ + 1 ELSE @]
    /\ results' = [results EXCEPT ![d] = Append(@,
           [article |-> cur[d], outcome |-> outcome[d], server |-> pick[d]])]
    /\ cur' = [cur EXCEPT ![d] = 0]
    /\ pick' = [pick EXCEPT ![d] = 0]
    /\ outcome' = [outcome EXCEPT ![d] = "none"]
    /\ Goto(d, "loop")
    /\ UNCHANGED <<pending, tried, receiving, slotVars, serverVars, flagVars>>

Receive(d) ==
    /\ receiving[d] /\ queued[d] > 0
    /\ queued' = [queued EXCEPT ![d] = @ - 1]
    /\ UNCHANGED <<callVars, receiving, slotVars, serverVars, flagVars>>

CloseReceiver(d) ==
    /\ receiving[d] /\ pc[d] \notin Ended
    /\ receiving' = [receiving EXCEPT ![d] = FALSE]
    /\ queued' = [queued EXCEPT ![d] = 0]
    /\ UNCHANGED <<callVars, slotVars, serverVars, flagVars>>

-----------------------------------------------------------------------------
(* The rest of the program                                                  *)

\* The future of download() is dropped at an await: the PooledConnection
\* frees its slot, nothing takes back connections_active.
Drop(d) ==
    /\ pc[d] \in {"paused", "acquire", "fetch", "send"}
    /\ Goto(d, "dropped")
    /\ IF pc[d] \in {"acquire", "fetch"} THEN LeavePool(d, pick[d]) ELSE UNCHANGED slotVars
    /\ leaked' = IF pc[d] = "fetch" THEN [leaked EXCEPT ![pick[d]] = @ + 1] ELSE leaked
    /\ pending' = [pending EXCEPT ![d] = <<>>]
    /\ cur' = [cur EXCEPT ![d] = 0]
    /\ IF pc[d] = "send" THEN UNCHANGED <<pick, outcome>>
       ELSE pick' = [pick EXCEPT ![d] = 0] /\ outcome' = outcome
    /\ UNCHANGED <<tried, results, chanVars, active, stats, penalty, backedOff, flagVars>>

Pause == "pause" \in Controls /\ ~paused /\ paused' = TRUE
    /\ UNCHANGED <<callVars, chanVars, slotVars, serverVars, shutdown>>

Resume == paused /\ paused' = FALSE
    /\ UNCHANGED <<callVars, chanVars, slotVars, serverVars, shutdown>>

Shutdown == "shutdown" \in Controls /\ ~shutdown /\ shutdown' = TRUE
    /\ UNCHANGED <<callVars, chanVars, slotVars, serverVars, paused>>

\* Time passes; a penalty that reaches 0 is over.
Tick ==
    /\ \E s \in Servers : penalty[s] > 0
    /\ penalty' = [s \in Servers |-> IF penalty[s] = 0 THEN 0 ELSE penalty[s] - 1]
    /\ UNCHANGED <<callVars, chanVars, slotVars, active, stats, backedOff, leaked, flagVars>>

Step(d) ==
    \/ CheckFlags(d) \/ Pick(d) \/ Acquired(d) \/ AcquireFail(d)
    \/ Connectless(d) \/ Fetch(d) \/ Settle(d) \/ Send(d)

\* Every call has ended and its results are received: the program rests.
Finished ==
    /\ \A d \in Calls : pc[d] \in Ended /\ queued[d] = 0
    /\ \A s \in Servers : penalty[s] = 0
    /\ UNCHANGED vars

Next ==
    \/ \E d \in Calls : Step(d) \/ Receive(d) \/ CloseReceiver(d) \/ Drop(d)
    \/ Pause \/ Resume \/ Shutdown \/ Tick \/ Finished

Spec == Init /\ [][Next]_vars

\* Every await of a call is bounded by a timer or by the receiver, which
\* either receives or goes away.
FairSpec == Spec /\ \A d \in Calls : WF_vars(Step(d)) /\ WF_vars(Receive(d))

-----------------------------------------------------------------------------
(* Properties                                                               *)

PCs == {"loop", "paused", "pick", "acquire", "failed", "fetch", "settle", "send"} \cup Ended

Outcomes == {"none", "exhausted", "timeout"} \cup FetchResults

(* Every variable keeps its type, and a channel its capacity.               *)
TypeOK ==
    /\ pc \in [Calls -> PCs]
    /\ DOMAIN pending = Calls /\ DOMAIN tried = Calls /\ DOMAIN results = Calls
    /\ \A d \in Calls : pending[d] \in Seq(Articles(d))
    /\ \A d \in Calls : tried[d] \in [Articles(d) -> Seq(DOMAIN Configs)]
    /\ \A d \in Calls : results[d] \in Seq([article : Articles(d),
           outcome : {"article", "exhausted"}, server : Servers \cup {0}])
    /\ cur \in [Calls -> Nat]
    /\ pick \in [Calls -> Servers \cup {0}]
    /\ outcome \in [Calls -> Outcomes]
    /\ queued \in [Calls -> 0..ChannelCap]
    /\ receiving \in [Calls -> BOOLEAN]
    /\ held \in [Servers -> SUBSET Calls]
    /\ waiting \in [Servers -> Seq(Calls)]
    /\ active \in [Servers -> Nat]
    /\ stats \in [Servers -> [tried : Nat, failed : Nat]]
    /\ penalty \in [Servers -> 0..LongPenalty]
    /\ backedOff \subseteq Servers
    /\ leaked \in [Servers -> Nat]
    /\ paused \in BOOLEAN /\ shutdown \in BOOLEAN

\* Where the articles of a call are: settled, waiting, or in hand.
Settled(d) == [i \in 1..Len(results[d]) |-> results[d][i].article]
InHand(d) == IF cur[d] = 0 THEN <<>> ELSE <<cur[d]>>
AllOf(d) == Settled(d) \o InHand(d) \o pending[d]

(* download() neither loses an article nor settles one twice, through any   *)
(* number of failovers, and a call that returns Ok has settled all of them. *)
Accounted ==
    \A d \in Calls :
      /\ Cardinality(Elements(AllOf(d))) = Len(AllOf(d))
      /\ pc[d] # "dropped" => Elements(AllOf(d)) = Articles(d)
      /\ pc[d] = "returned" => Elements(Settled(d)) = Articles(d)

(* No article is asked of the same server twice, nor of one the caller      *)
(* listed as tried.                                                         *)
TriedOnce ==
    \A d \in Calls : \A a \in Articles(d) :
      Cardinality(Elements(tried[d][a])) = Len(tried[d][a])

(* connections_active counts the connections in use, and one more for each  *)
(* call that was dropped in the middle of a fetch.                          *)
ActiveCount ==
    \A s \in Servers :
      active[s] = leaked[s] + Cardinality({d \in Calls : pc[d] \in {"fetch", "settle"} /\ pick[d] = s})

(* Failover goes in priority order: a server serves an article, or the      *)
(* article ends exhausted, only when every server before it has failed that *)
(* article or has at some time been penalized.                              *)
FailoverInOrder ==
    \A d \in Calls : \A i \in 1..Len(results[d]) :
      LET r == results[d][i] IN
      \A t \in Servers :
        (r.outcome = "exhausted" \/ Before(t, r.server))
          => t \in Elements(tried[d][r.article]) \cup backedOff

(* A call holds or waits for a slot of one server only, and of none while   *)
(* it waits for its receiver or is paused: a slow consumer cannot starve    *)
(* another call of connections.                                             *)
BlockedHoldsNoSlot ==
    \A s \in Servers : \A d \in held[s] \cup Elements(waiting[s]) :
      pc[d] \in {"acquire", "fetch", "settle"} /\ pick[d] = s

(* Once it is not paused for good, every call of download() ends.           *)
Returns == <>[](~paused) => \A d \in Calls : <>(pc[d] \in Ended)

(* shutdown() ends every call, even one that is paused for ever; one that   *)
(* is resumed before it looks again settles one more article first.         *)
ShutdownEnds == shutdown ~> \A d \in Calls : pc[d] \in Ended

(* An article whose session expired is replayed, without using up its       *)
(* attempt at that server.                                                  *)
ExpiredReplayed ==
    [][\A d \in Calls :
         outcome[d] = "expired" => tried'[d] = tried[d]]_vars
=============================================================================
