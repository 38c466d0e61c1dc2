------------------------------- MODULE RampUp -------------------------------
(***************************************************************************)
(* The pacing of new connections in src/pool.rs: whoever is about to open  *)
(* one calls wait_for_ramp_up() first.  Its tokio mutex is held across the *)
(* sleep, so callers pass one at a time, in the order they came; a caller  *)
(* whose future is dropped while it waits has not passed.                  *)
(*                                                                         *)
(* Time is counted in ticks and kept relative to now: what the code asks   *)
(* of a clock is how much of the delay has elapsed since the last pass.    *)
(***************************************************************************)
EXTENDS Integers, Sequences

CONSTANTS
    Workers,   \* tasks that open connections
    NoWorker,
    Delays,    \* values of ConnectionPool.ramp_up_delay
    Backdated  \* how long ago new() pretends the last connection was opened: 60 s

ASSUME DelayAssumption == Delays \subseteq Nat /\ Backdated \in Nat
ASSUME NoWorkerAssumption == NoWorker \notin Workers

VARIABLES
    at,         \* where each worker is
    lock,       \* the worker that owns the mutex last_connect
    lockQueue,  \* workers queued on it, oldest first
    delay,      \* ramp_up_delay
    elapsed,    \* time since last_connect, counted up to delay
    left        \* what is left of the sleep of the worker that owns the mutex

rampVars == <<lock, lockQueue, delay, elapsed, left>>
paceVars == <<at, rampVars>>

\* queued, locked, asleep: in wait_for_ramp_up; connecting: it has returned;
\* slot and out belong to ServerState.
Places == {"away", "slot", "queued", "locked", "asleep", "connecting", "out"}

InRampUp == {"queued", "locked", "asleep"}

Without(q, i) == SubSeq(q, 1, i - 1) \o SubSeq(q, i + 1, Len(q))

Least(m, n) == IF m <= n THEN m ELSE n

PaceInit ==
    /\ at = [w \in Workers |-> "away"]
    /\ lock = NoWorker /\ lockQueue = <<>>
    /\ delay \in Delays
    /\ elapsed = Least(Backdated, delay)
    /\ left = 0

\* The mutex is free: the oldest queued worker owns it from then on.
\* p is where the step takes the workers.
HandOver(p) ==
    IF lockQueue = <<>>
    THEN lock' = NoWorker /\ lockQueue' = <<>> /\ at' = p
    ELSE /\ lock' = Head(lockQueue) /\ lockQueue' = Tail(lockQueue)
         /\ at' = [p EXCEPT ![Head(lockQueue)] = "locked"]

EnterRampUp_Unlocked(w) ==
    /\ lock' = w
    /\ at' = [at EXCEPT ![w] = IF delay = 0 THEN "connecting" ELSE "locked"]
    /\ UNCHANGED <<lockQueue, delay, elapsed, left>>

\* wait_for_ramp_up() is called; without a delay it returns at once.
EnterRampUp(w) ==
    /\ UNCHANGED <<delay, elapsed, left>>
    /\ \/ /\ delay = 0
          /\ at' = [at EXCEPT ![w] = "connecting"]
          /\ UNCHANGED <<lock, lockQueue>>
       \/ /\ delay > 0 /\ lock = NoWorker
          /\ lock' = w /\ lockQueue' = lockQueue
          /\ at' = [at EXCEPT ![w] = "locked"]
       \/ /\ delay > 0 /\ lock # NoWorker
          /\ lockQueue' = Append(lockQueue, w) /\ lock' = lock
          /\ at' = [at EXCEPT ![w] = "queued"]

Pass(w) ==
    /\ elapsed' = 0 /\ left' = 0 /\ delay' = delay
    /\ HandOver([at EXCEPT ![w] = "connecting"])

\* It owns the mutex: it may pass, or sleeps what is left of the delay.
Look(w) ==
    /\ at[w] = "locked"
    /\ \/ elapsed >= delay /\ Pass(w)
       \/ /\ elapsed < delay
          /\ at' = [at EXCEPT ![w] = "asleep"]
          /\ left' = delay - elapsed
          /\ UNCHANGED <<lock, lockQueue, delay, elapsed>>

\* The sleep is over; last_connect is set only now.
Wake(w) == at[w] = "asleep" /\ left = 0 /\ Pass(w)

\* The caller's future is dropped: its place in the queue, or its mutex guard.
LeaveRampUp(w) ==
    /\ UNCHANGED <<delay, elapsed>>
    /\ \/ /\ lock = w
          /\ left' = 0
          /\ HandOver([at EXCEPT ![w] = "away"])
       \/ /\ lock # w
          /\ at' = [at EXCEPT ![w] = "away"]
          /\ \E i \in 1..Len(lockQueue) :
                lockQueue[i] = w /\ lockQueue' = Without(lockQueue, i)
          /\ UNCHANGED <<lock, left>>

\* A worker that is about to open a connection asks for its turn ...
Ask(w) == at[w] \in {"away", "slot"} /\ EnterRampUp(w)

\* ... and a future is dropped in it.
DropRampUp(w) == at[w] \in InRampUp /\ LeaveRampUp(w)

\* Nothing else a worker does concerns the pace.
Elsewhere(w) ==
    /\ at[w] \notin InRampUp
    /\ \E l \in {"away", "slot", "out"} : at' = [at EXCEPT ![w] = l]
    /\ UNCHANGED rampVars

Clock ==
    /\ elapsed' = Least(elapsed + 1, delay)
    /\ left' = IF left > 0 THEN left - 1 ELSE 0
    /\ UNCHANGED <<at, lock, lockQueue, delay>>

PaceNext ==
    \/ \E w \in Workers : Ask(w) \/ Look(w) \/ Wake(w) \/ DropRampUp(w) \/ Elsewhere(w)
    \/ Clock

PaceSpec == PaceInit /\ [][PaceNext]_paceVars

-----------------------------------------------------------------------------
(* Properties                                                               *)

PaceTypeOK ==
    /\ at \in [Workers -> Places]
    /\ lock \in Workers \cup {NoWorker}
    /\ lockQueue \in Seq(Workers)
    /\ delay \in Delays /\ elapsed \in 0..delay /\ left \in 0..delay

(* Two connections are opened at least the delay apart, however the callers *)
(* queue, sleep longer than they should, or are dropped in the middle:      *)
(* nobody passes before it has elapsed, and who passes starts it anew.      *)
Paced == [][\A w \in Workers :
             at[w] \in InRampUp /\ at'[w] = "connecting" => elapsed = delay /\ elapsed' = 0]_paceVars
=============================================================================
