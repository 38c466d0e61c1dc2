--------------------------- MODULE ConnectionPool ---------------------------
(***************************************************************************)
(* The per-server connection pool of src/pool.rs: a counting semaphore of  *)
(* Max permits, a LIFO stack of parked connections that hold NO permit,    *)
(* and callers that acquire, use and give back connections concurrently.   *)
(*                                                                         *)
(* A caller is one call of acquire() together with the checkout it leads   *)
(* to.  Each await point of the code is a value of pc, so every future can *)
(* be dropped (Cancel) or overtaken there.  The ramp-up delay is only a    *)
(* pause here; nothing in the pool's bookkeeping depends on its length.    *)
(***************************************************************************)
EXTENDS Naturals, Sequences, FiniteSets

CONSTANTS Callers,     \* concurrent calls of acquire()
          Conns,       \* identities of NntpConnection values
          NoConn,      \* a caller owns no connection
          Max,         \* ServerConfig.connections
          MaxClosing   \* bound: connections being closed by close_idle at once

ASSUME MaxAssumption == Max \in Nat
ASSUME CallersAssumption == IsFiniteSet(Callers)
ASSUME NoConnAssumption == NoConn \notin Conns

VARIABLES
    pc,        \* where each caller is
    conn,      \* the connection each caller owns
    permits,   \* available permits of the semaphore
    queue,     \* callers queued on the semaphore, oldest first
    idle,      \* parked connections, the last one is popped first
    armed,     \* connections whose PooledConnection.semaphore is Some
    state,     \* ConnectionState of every NntpConnection; "Free": no such value
    stale,     \* parked connections unused for more than IDLE_TIMEOUT
    closing    \* connections taken out of the pool by close_idle, in quit()

vars == <<pc, conn, permits, queue, idle, armed, state, stale, closing>>

ConnStates == {"Free", "Connecting", "Ready", "Busy", "Error", "Disconnected"}

\* away: no call;  waiting: in the semaphore's queue;  granted: owns a permit,
\* has not popped yet;  pinging: health check;  ramping: in wait_for_ramp_up;
\* connecting: in connect;  out: connection handed to the caller;
\* parked: in release(), connection pushed, permit not yet added.
PCs == {"away", "waiting", "granted", "pinging", "ramping", "connecting",
        "out", "parked"}

\* Callers that account for one of the Max permits.
Holding == {"granted", "pinging", "ramping", "connecting", "out", "parked"}
Holders == {c \in Callers : pc[c] \in Holding}

\* Callers that own a connection or are about to open one.
Owning == {"pinging", "ramping", "connecting", "out"}
Owners == {c \in Callers : pc[c] \in Owning}

Parked == {idle[i] : i \in 1..Len(idle)}

\* Connections whose transport may be open.
Open == {x \in Conns : state[x] \notin {"Free", "Disconnected"}}

\* The check of acquire() and release(): state == Ready && is_connected().
Usable(x) == state[x] = "Ready"

Without(q, i) == SubSeq(q, 1, i - 1) \o SubSeq(q, i + 1, Len(q))

-----------------------------------------------------------------------------
(* The tokio semaphore: a permit that is added goes to the oldest waiter.   *)

\* add_permits(n), made by a step that also takes pc to p.
AddPermits(n, p) ==
    LET k == IF n <= Len(queue) THEN n ELSE Len(queue)
        woken == {queue[i] : i \in 1..k}
    IN  /\ permits' = permits + (n - k)
        /\ queue' = SubSeq(queue, k + 1, Len(queue))
        /\ pc' = [c \in Callers |-> IF c \in woken THEN "granted" ELSE p[c]]

\* What dropping the PooledConnection of x adds: Drop frees the permit only
\* while the guard is armed.
GuardPermits(x) == IF x \in armed THEN 1 ELSE 0

-----------------------------------------------------------------------------
(* acquire()                                                                *)

Init ==
    /\ pc = [c \in Callers |-> "away"]
    /\ conn = [c \in Callers |-> NoConn]
    /\ permits = Max
    /\ queue = <<>>
    /\ idle = <<>>
    /\ armed = {}
    /\ state = [x \in Conns |-> "Free"]
    /\ stale = {}
    /\ closing = {}

\* acquire_owned(): a free permit is taken at once, otherwise the caller queues.
Acquire(c) ==
    /\ pc[c] = "away"
    /\ IF permits > 0
       THEN /\ permits' = permits - 1
            /\ pc' = [pc EXCEPT ![c] = "granted"]
            /\ queue' = queue
       ELSE /\ queue' = Append(queue, c)
            /\ pc' = [pc EXCEPT ![c] = "waiting"]
            /\ permits' = permits
    /\ UNCHANGED <<conn, idle, armed, state, stale, closing>>

\* ACQUIRE_TIMEOUT expires, or the acquire() future is dropped in the queue.
LeaveQueue(c) ==
    /\ pc[c] = "waiting"
    /\ \E i \in 1..Len(queue) : queue[i] = c /\ queue' = Without(queue, i)
    /\ pc' = [pc EXCEPT ![c] = "away"]
    /\ UNCHANGED <<conn, permits, idle, armed, state, stale, closing>>

\* idle.lock().pop(): what is left of the stack.
Popped == SubSeq(idle, 1, Len(idle) - 1)

Fresh_Untimed(x) == TRUE

\* last_used.elapsed() <= IDLE_TIMEOUT.
Fresh(x) == x \notin stale

ArmPopped_Early(x) == armed \cup {x}

\* The guard of a popped connection is armed only when it is handed out.
ArmPopped(x) == IF Usable(x) /\ Fresh(x) THEN armed \cup {x} ELSE armed

\* Pop the stack.  A fresh usable connection is handed out, a stale one goes
\* to the health check, and one in a bad state is dropped on the way to a new
\* connection.
TakeIdle(c) ==
    /\ pc[c] = "granted"
    /\ idle # <<>>
    /\ LET x == idle[Len(idle)]
           reuse == Usable(x) /\ Fresh(x)
       IN  /\ idle' = Popped
           /\ pc' = [pc EXCEPT ![c] = IF reuse THEN "out"
                                      ELSE IF Usable(x) THEN "pinging" ELSE "ramping"]
           /\ conn' = [conn EXCEPT ![c] = IF Usable(x) THEN x ELSE NoConn]
           /\ armed' = ArmPopped(x)
           /\ state' = [state EXCEPT ![x] = IF reuse THEN "Ready"
                                            ELSE IF Usable(x) THEN "Busy" ELSE "Free"]
           /\ stale' = IF Usable(x) THEN stale ELSE stale \ {x}
    /\ UNCHANGED <<permits, queue, closing>>

NoIdle_Unchecked(c) ==
    /\ pc[c] = "granted"
    /\ pc' = [pc EXCEPT ![c] = "ramping"]
    /\ UNCHANGED <<conn, permits, queue, idle, armed, state, stale, closing>>

NoIdle(c) ==
    /\ pc[c] = "granted"
    /\ idle = <<>>
    /\ pc' = [pc EXCEPT ![c] = "ramping"]
    /\ UNCHANGED <<conn, permits, queue, idle, armed, state, stale, closing>>

\* ping() answered: last_used = now, permit.forget(), guard armed.
PingOk(c) ==
    /\ pc[c] = "pinging"
    /\ pc' = [pc EXCEPT ![c] = "out"]
    /\ state' = [state EXCEPT ![conn[c]] = "Ready"]
    /\ stale' = stale \ {conn[c]}
    /\ armed' = armed \cup {conn[c]}
    /\ UNCHANGED <<conn, permits, queue, idle, closing>>

\* ping() failed: the popped connection is dropped, the owned permit stays.
PingFail(c) ==
    /\ pc[c] = "pinging"
    /\ AddPermits(GuardPermits(conn[c]), [pc EXCEPT ![c] = "ramping"])
    /\ conn' = [conn EXCEPT ![c] = NoConn]
    /\ state' = [state EXCEPT ![conn[c]] = "Free"]
    /\ stale' = stale \ {conn[c]}
    /\ armed' = armed \ {conn[c]}
    /\ UNCHANGED <<idle, closing>>

\* wait_for_ramp_up() is over; a new NntpConnection starts to connect.
StartConnect(c) ==
    /\ pc[c] = "ramping"
    /\ \E x \in Conns :
          /\ state[x] = "Free"
          /\ conn' = [conn EXCEPT ![c] = x]
          /\ state' = [state EXCEPT ![x] = "Connecting"]
    /\ pc' = [pc EXCEPT ![c] = "connecting"]
    /\ UNCHANGED <<permits, queue, idle, armed, stale, closing>>

ConnectOk(c) ==
    /\ pc[c] = "connecting"
    /\ pc' = [pc EXCEPT ![c] = "out"]
    /\ state' = [state EXCEPT ![conn[c]] = "Ready"]
    /\ armed' = armed \cup {conn[c]}
    /\ UNCHANGED <<conn, permits, queue, idle, stale, closing>>

\* The connection of c is dropped and n permits are added.
DropConn(c, n) ==
    /\ AddPermits(n, [pc EXCEPT ![c] = "away"])
    /\ conn' = [conn EXCEPT ![c] = NoConn]
    /\ state' = [x \in Conns |-> IF x = conn[c] THEN "Free" ELSE state[x]]
    /\ stale' = stale \ {conn[c]}
    /\ armed' = armed \ {conn[c]}
    /\ UNCHANGED <<idle, closing>>

\* connect() failed: the error path drops the caller's owned permit.
ConnectFail(c) == pc[c] = "connecting" /\ DropConn(c, 1)

Cancel_ForgetsPermit(c) ==
    /\ pc[c] \in {"granted", "pinging", "ramping", "connecting"}
    /\ DropConn(c, GuardPermits(conn[c]))

\* The acquire() future is dropped at an await after the permit was assigned:
\* the owned permit returns, and so does whatever the guard still covers.
Cancel(c) ==
    /\ pc[c] \in {"granted", "pinging", "ramping", "connecting"}
    /\ DropConn(c, 1 + GuardPermits(conn[c]))

-----------------------------------------------------------------------------
(* The checkout                                                             *)

\* The caller runs a command: it completes, fails, is cancelled half-way or
\* was a quit().
Use(c) ==
    /\ pc[c] = "out"
    /\ \E s \in {"Ready", "Busy", "Error", "Disconnected"} :
          state' = [state EXCEPT ![conn[c]] = s]
    /\ UNCHANGED <<pc, conn, permits, queue, idle, armed, stale, closing>>

\* release(): disarm; park a usable connection, drop any other.
Release(c) ==
    /\ pc[c] = "out"
    /\ IF Usable(conn[c])
       THEN /\ idle' = Append(idle, conn[c])
            /\ pc' = [pc EXCEPT ![c] = "parked"]
            /\ conn' = [conn EXCEPT ![c] = NoConn]
            /\ armed' = armed \ {conn[c]}
            /\ UNCHANGED <<permits, queue, state, stale, closing>>
       ELSE DropConn(c, 1)

\* The add_permits(1) that follows the push, outside the lock of the stack.
ReturnPermit(c) ==
    /\ pc[c] = "parked"
    /\ AddPermits(1, [pc EXCEPT ![c] = "away"])
    /\ UNCHANGED <<conn, idle, armed, state, stale, closing>>

\* discard(): disarm, drop, add one permit.
Discard(c) == pc[c] = "out" /\ DropConn(c, 1)

\* The PooledConnection is dropped without release() or discard().
Abandon(c) == pc[c] = "out" /\ DropConn(c, GuardPermits(conn[c]))

-----------------------------------------------------------------------------
(* The stack                                                                *)

\* IDLE_TIMEOUT passes for a parked connection.
Age(x) ==
    /\ x \in Parked \ stale
    /\ stale' = stale \cup {x}
    /\ UNCHANGED <<pc, conn, permits, queue, idle, armed, state, closing>>

\* close_idle(): everything parked leaves the pool in one step ...
CloseIdle ==
    /\ idle # <<>>
    /\ Cardinality(closing) + Len(idle) <= MaxClosing
    /\ closing' = closing \cup Parked
    /\ idle' = <<>>
    /\ stale' = stale \ Parked
    /\ UNCHANGED <<pc, conn, permits, queue, armed, state>>

\* ... and is closed afterwards, each in a quit() of its own (or by a drop).
QuitOne(x) ==
    /\ x \in closing
    /\ closing' = closing \ {x}
    /\ state' = [state EXCEPT ![x] = "Free"]
    /\ UNCHANGED <<pc, conn, permits, queue, idle, armed, stale>>

-----------------------------------------------------------------------------
GiveBack(c) == Release(c) \/ Discard(c) \/ Abandon(c)

\* The steps of acquire() and release() that run without the caller's doing.
Progress(c) ==
    \/ TakeIdle(c) \/ NoIdle(c) \/ PingOk(c) \/ PingFail(c)
    \/ StartConnect(c) \/ ConnectOk(c) \/ ConnectFail(c) \/ ReturnPermit(c)

CallerStep(c) ==
    \/ Acquire(c) \/ LeaveQueue(c) \/ Cancel(c) \/ Use(c)
    \/ Progress(c) \/ GiveBack(c)

Next ==
    \/ \E c \in Callers : CallerStep(c)
    \/ \E x \in Conns : Age(x) \/ QuitOne(x)
    \/ CloseIdle

Spec == Init /\ [][Next]_vars

\* Pings, connects and quits end because every read and write in them has a
\* timeout; a task that holds a connection eventually gives it back or is
\* dropped.  No fairness on LeaveQueue: nobody is served by timing out.
FairSpec ==
    /\ Spec
    /\ \A c \in Callers : WF_vars(Progress(c)) /\ WF_vars(GiveBack(c))
    /\ \A x \in Conns : WF_vars(QuitOne(x))

-----------------------------------------------------------------------------
(* Properties                                                               *)

\* Types of the pool's fields and of the callers' positions.
TypeOK ==
    /\ pc \in [Callers -> PCs]
    /\ conn \in [Callers -> Conns \cup {NoConn}]
    /\ permits \in Nat
    /\ queue \in Seq(Callers)
    /\ idle \in Seq(Conns)
    /\ armed \subseteq Conns
    /\ state \in [Conns -> ConnStates]
    /\ stale \subseteq Conns
    /\ closing \subseteq Conns

\* No permit is leaked or freed twice, whichever of the owned permit, the drop
\* guard and the explicit add_permits returns it: the available permits and the
\* callers that account for one always add up to the configured connections.
SlotsConserved == permits + Cardinality(Holders) = Max

\* "Semaphore limiting total connections (idle + checked-out)": although parked
\* connections hold no permit, they and the connections callers own or are
\* about to open never exceed the limit.
WithinLimit == Len(idle) + Cardinality(Owners) <= Max

\* What acquire() returns is connected and ready, and if it had been parked
\* longer than IDLE_TIMEOUT it answered a ping first.
HandedOutHealthy ==
    [][\A c \in Callers :
          pc[c] # "out" /\ pc'[c] = "out" =>
             /\ state'[conn'[c]] = "Ready"
             /\ conn'[c] \notin stale']_vars

\* The pool is a FIFO limiter of Max slots: seen through the callers that
\* account for a permit and the semaphore's queue, it is a SlotLimiter.
Limiter == INSTANCE SlotLimiter WITH held <- Holders, waiting <- queue
LimiterSpec == Limiter!SlotSpec
LimiterFairSpec == Limiter!FairSlotSpec

\* README, `connections`: "Max concurrent connections to this server".
OpenSocketsWithinLimit == Cardinality(Open) <= Max
=============================================================================
