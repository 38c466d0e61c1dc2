----------------------------- MODULE ServerState ----------------------------
(***************************************************************************)
(* ServerState of src/server.rs as a program uses it that keeps it behind  *)
(* a lock of its own: workers acquire, release, discard or just drop       *)
(* connections, record their downloads and penalize the server; others     *)
(* open connections outside the pool and only keep its pace.               *)
(*                                                                         *)
(* acquire_connection(&mut self) keeps its exclusive borrow over every     *)
(* await, so nothing else is called on the server meanwhile: not even the  *)
(* release of the connection it waits for.                                 *)
(***************************************************************************)
EXTENDS RampUp, FiniteSets

CONSTANTS
    Connections,   \* ServerConfig.connections
    Penalties,     \* durations given to penalize(), in ticks
    Sizes,         \* bytes of a download
    Window,        \* SpeedTracker.window
    MaxTried,      \* bound: downloads recorded
    MaxAbandoned   \* bound: connections dropped without release

ASSUME WorkersAssumption == IsFiniteSet(Workers)
ASSUME SpeedAssumption == Window \in Nat \ {0} /\ Sizes \subseteq Nat

VARIABLES
    borrow,       \* the worker in acquire_connection
    active,       \* connections_active
    abandoned,    \* history: connections dropped without release or discard
    penalty,      \* time until penalty_until has passed, 0: none, or in the past
    tried, failed, bytes,
    samples,      \* SpeedTracker.samples: bytes, and age when the newest was taken
    sinceSample,  \* the age of the newest
    downloads     \* history: all samples

countVars == <<tried, failed, bytes, samples, sinceSample, downloads>>
vars == <<paceVars, borrow, active, abandoned, penalty, countVars>>

Out     == {w \in Workers : at[w] = "out"}
Holders == {w \in Workers : at[w] = "out" \/ (w = borrow /\ at[w] # "slot")}

Init ==
    /\ PaceInit
    /\ borrow = NoWorker /\ active = 0 /\ abandoned = 0 /\ penalty = 0
    /\ tried = 0 /\ failed = 0 /\ bytes = 0
    /\ samples = <<>> /\ sinceSample = 0 /\ downloads = <<>>

-----------------------------------------------------------------------------
(* Connections                                                              *)

\* acquire_connection(), up to the wait for a slot.
Acquire(w) ==
    /\ at[w] = "away" /\ borrow = NoWorker
    /\ at' = [at EXCEPT ![w] = "slot"] /\ borrow' = w
    /\ UNCHANGED <<rampVars, active, abandoned, penalty, countVars>>

HandOut(w) ==
    /\ at' = [at EXCEPT ![w] = "out"]
    /\ active' = active + 1
    /\ borrow' = NoWorker
    /\ UNCHANGED <<rampVars, abandoned, penalty, countVars>>

HasSlot == Cardinality(Holders) < Connections

\* A slot is free: a parked connection is reused ...
Reuse(w) == borrow = w /\ at[w] = "slot" /\ HasSlot /\ HandOut(w)

\* ... or create_connection() waits for its turn, and connects.
Create(w) ==
    /\ borrow = w /\ at[w] = "slot" /\ HasSlot
    /\ Ask(w)
    /\ UNCHANGED <<borrow, active, abandoned, penalty, countVars>>

Connected(w) == borrow = w /\ at[w] = "connecting" /\ HandOut(w)

AcquireFails_Patient(w) ==
    /\ borrow = w /\ at[w] = "connecting"
    /\ at' = [at EXCEPT ![w] = "away"] /\ borrow' = NoWorker
    /\ UNCHANGED <<rampVars, active, abandoned, penalty, countVars>>

AcquireFails_Uncounts(w) ==
    /\ borrow = w /\ at[w] \in {"slot", "connecting"}
    /\ at' = [at EXCEPT ![w] = "away"] /\ borrow' = NoWorker
    /\ active' = IF active = 0 THEN 0 ELSE active - 1
    /\ UNCHANGED <<rampVars, abandoned, penalty, countVars>>

\* ACQUIRE_TIMEOUT, or connect() fails, or the future is dropped in either of
\* them: nothing was counted.
AcquireFails(w) ==
    /\ borrow = w /\ at[w] \in {"slot", "connecting"}
    /\ at' = [at EXCEPT ![w] = "away"] /\ borrow' = NoWorker
    /\ UNCHANGED <<rampVars, active, abandoned, penalty, countVars>>

\* The future of acquire_connection() is dropped in the ramp-up.
CancelAcquire(w) ==
    /\ borrow = w /\ DropRampUp(w)
    /\ borrow' = NoWorker
    /\ UNCHANGED <<active, abandoned, penalty, countVars>>

\* saturating_sub(1)
Uncount == IF active = 0 THEN 0 ELSE active - 1

\* release_connection() or discard_connection().
GiveBack(w) ==
    /\ at[w] = "out" /\ borrow = NoWorker
    /\ at' = [at EXCEPT ![w] = "away"]
    /\ active' = Uncount
    /\ UNCHANGED <<rampVars, borrow, abandoned, penalty, countVars>>

\* The PooledConnection is dropped: its guard frees the slot of the pool.
Abandon(w) ==
    /\ at[w] = "out" /\ abandoned < MaxAbandoned
    /\ at' = [at EXCEPT ![w] = "away"]
    /\ abandoned' = abandoned + 1
    /\ UNCHANGED <<rampVars, borrow, active, penalty, countVars>>

\* connect() of a connection outside the pool returns or is dropped.
Opened(w) == at[w] = "connecting" /\ at' = [at EXCEPT ![w] = "away"] /\ UNCHANGED rampVars

\* A worker that opens its own connection, after wait_for_ramp_up().
Outside(w) ==
    /\ borrow # w
    /\ (at[w] = "away" /\ Ask(w)) \/ DropRampUp(w) \/ Opened(w)
    /\ UNCHANGED <<borrow, active, abandoned, penalty, countVars>>

\* The ramp-up of workers of both kinds.
Ramp(w) ==
    /\ Look(w) \/ Wake(w)
    /\ UNCHANGED <<borrow, active, abandoned, penalty, countVars>>

-----------------------------------------------------------------------------
(* Penalties and counters; all of them take &mut self                       *)

\* A later penalty replaces an earlier one, a longer one too.
Penalize(d) ==
    /\ borrow = NoWorker /\ penalty' = d + 1
    /\ UNCHANGED <<paceVars, borrow, active, abandoned, countVars>>

ClearPenalty ==
    /\ borrow = NoWorker /\ penalty > 0 /\ penalty' = 0
    /\ UNCHANGED <<paceVars, borrow, active, abandoned, countVars>>

Trim_Early(s) ==
    LET k == CHOOSE k \in 1..Len(s) :
                 s[k].age < Window /\ \A j \in 1..(k - 1) : s[j].age >= Window
    IN  SubSeq(s, k, Len(s))

\* Samples are popped from the front while they are older than the window.
Trim(s) ==
    LET k == CHOOSE k \in 1..Len(s) :
                 s[k].age <= Window /\ \A j \in 1..(k - 1) : s[j].age > Window
    IN  SubSeq(s, k, Len(s))

\* One more sample, taken now.
Taken(s, b) ==
    Append([i \in DOMAIN s |-> [s[i] EXCEPT !.age = Least(@ + sinceSample, Window + 1)]],
           [bytes |-> b, age |-> 0])

RecordSuccess(b) ==
    /\ borrow = NoWorker /\ tried < MaxTried
    /\ tried' = tried + 1 /\ bytes' = bytes + b
    /\ samples' = Trim(Taken(samples, b))
    /\ sinceSample' = 0
    /\ downloads' = Taken(downloads, b)
    /\ UNCHANGED <<paceVars, borrow, active, abandoned, penalty, failed>>

RecordFailure ==
    /\ borrow = NoWorker /\ tried < MaxTried
    /\ tried' = tried + 1 /\ failed' = failed + 1
    /\ UNCHANGED <<paceVars, borrow, active, abandoned, penalty, bytes, samples,
                   sinceSample, downloads>>

Total(s) ==
    LET sum[i \in 0..Len(s)] == IF i = 0 THEN 0 ELSE sum[i - 1] + s[i].bytes IN sum[Len(s)]

\* bytes_per_second(), as a fraction; 0 of 1 when there is no speed.
Speed ==
    IF Len(samples) < 2 \/ samples[1].age = 0 THEN <<0, 1>>
    ELSE <<Total(samples), samples[1].age>>

Tick ==
    /\ Clock
    /\ penalty' = IF penalty > 0 THEN penalty - 1 ELSE 0
    /\ sinceSample' = Least(sinceSample + 1, Window + 1)
    /\ UNCHANGED <<borrow, active, abandoned, tried, failed, bytes, samples, downloads>>

Next ==
    \/ \E w \in Workers :
          \/ Acquire(w) \/ Reuse(w) \/ Create(w) \/ Connected(w) \/ AcquireFails(w)
          \/ CancelAcquire(w) \/ GiveBack(w) \/ Abandon(w) \/ Outside(w) \/ Ramp(w)
    \/ \E d \in Penalties : Penalize(d)
    \/ ClearPenalty
    \/ \E b \in Sizes : RecordSuccess(b)
    \/ RecordFailure
    \/ Tick

\* Time passes; a worker is polled when its sleep or timeout is over, and a
\* connect() has a timeout of its own.
FairSpec ==
    /\ Init /\ [][Next]_vars
    /\ WF_vars(Tick)
    /\ \A w \in Workers :
          /\ WF_vars(Ramp(w))
          /\ WF_vars(Connected(w) \/ AcquireFails(w))

-----------------------------------------------------------------------------
(* Properties                                                               *)

(* connections_active counts the connections in use; one that is dropped    *)
(* without release or discard counts for ever, and one whose acquisition    *)
(* failed or was dropped never did.                                         *)
ActiveCounts == active = Cardinality(Out) + abandoned

(* Every acquire_connection() returns and gives its borrow back, although   *)
(* the connections it waits for cannot be released before it does, and      *)
(* although others keep entering and leaving the ramp-up queue.             *)
AcquireReturns == \A w \in Workers : borrow = w ~> borrow # w

(* The speed is that of exactly the downloads in the window that ends with  *)
(* the newest: none of them is lost, no older one is counted, and none      *)
(* twice.                                                                   *)
SpeedIsRolling ==
    LET k == Len(downloads) - Len(samples)
    IN  /\ samples = SubSeq(downloads, k + 1, Len(downloads))
        /\ \A i \in DOMAIN downloads : downloads[i].age <= Window <=> i > k
        /\ Speed[1] <= bytes /\ Speed[2] \in 1..Window
=============================================================================
