# Verification of nzb-nntp

TLA+ models of `nzb-nntp`, the asynchronous NNTP client library of this repository: what its tasks, connections and
queues may do under every interleaving, dropped future, timeout and answer of a server. TLC checks the models on
small instances; TLAPS proves the safety properties of all of them for every value of their parameters.

Modules are named after the components they model; definitions carry the names of the functions and fields they stand
for. `PROJECT.json` gives, for every definition, the lines it translates, and lists runs, hazards and theorems.

## 1. Inventory

| component | source | state it keeps | operations | model |
| --- | --- | --- | --- | --- |
| Connection pool | `pool.rs` | semaphore, LIFO stack of parked connections, drop guards | acquire, release, discard, drop of a checkout, close_idle | `ConnectionPool`, `SlotLimiter`, `ConnectionPoolProofs` |
| Ramp-up pacing | `pool.rs` | mutex with the time of the last connection | wait_for_ramp_up | `RampUp`, `ServerStateProofs` |
| Server state | `server.rs` | penalty deadline, try and failure counts, active connections, speed samples | acquire_connection, release_/discard_connection, penalize, clear_penalty, record_* | `ServerState`, `ServerStateProofs`; as `download()` uses it in `Downloader` |
| NNTP connection | `connection.rs` | `ConnectionState`, transport, `compress_enabled`, capabilities | connect, quit, every command, disable_compression | `NntpConnection`, `NntpConnectionProofs`, `Wire` |
| Capabilities | `capabilities.rs` | flags of a capability list | parse, default_assumed | in `NntpConnection` (partly) |
| Message framing | `connection.rs`, `testutil.rs` | the buffer a body is read into | read a body, whole, bounded or a prefix; post; the mock server's sides | `Framing`, `FramingProofs` |
| Overview rows | `overview.rs`, `connection.rs` | numbers seen | parse_lossless_overview_rows, parse_xover_data | `Overview` (partly), `FramingProofs` |
| ARTICLE pipeline | `pipeline.rs` | pending and in-flight queues, depth | submit, process_all | `Pipeline`, `PipelineProofs`, `Wire` |
| STAT pipeline | `pipeline.rs` | queue of message-ids | add, execute | `StatPipeline`, `StatPipelineProofs`, `Wire` |
| Downloader | `downloader.rs` | server list, paused and shutdown flags | download, pause, resume, shutdown | `Downloader`, `DownloaderProofs` |
| Mock server | `testutil.rs` | connections, limiter, one-shot answers, posted articles | every command, fault injection | `MockServer`, `MockServerProofs` |
| Errors | `error.rs` | none | classification | the outcomes the models tell apart |
| TLS, SOCKS5, gzip; body buffers and heartbeat; configuration | several | none that steers the rest | | not modelled (section 6) |

**How they interact.** `download()` picks a server, asks its pool for a connection (`acquire`), runs `fetch_article`
on it and gives it back (`release`) or drops it (`discard`), under short locks of the server list. The pool creates,
connects, pings and quits connections; it decides from `ConnectionState` alone whether a connection may be reused, and
opens no two of them closer together than the ramp-up delay. A program may also use a `ServerState` of its own, whose
`acquire_connection(&mut self)` keeps its borrow until it returns.
Pipelines borrow a connection and talk to its socket themselves. Replies carry no identifier: everything rests on
client and server agreeing which reply is next, so a connection with an unread reply must never look `Ready`.
Callers share the pool's semaphore and stack; calls of `download()` share penalties and counters; each has its own
result channel, whose consumer may be slow or gone. The connections of a mock server share one configuration, its
limiter, its one-shot answers and its list of posted articles.

**What is hard.** Any future may be dropped at any await. A timeout leaves a reply that arrives later. `release`
pushes a connection and adds its permit in two steps. A drop guard, an owned permit and an explicit `add_permits` all
return slots. A mutex is held across a sleep. Servers stall, refuse, garble, close. A stream may end inside a line, and
the lines of articles may look like terminators. Penalties appear while other calls fail over. `PROJECT.json` lists
these hazards at their lines, each with the properties that cover it or why none does.

**What makes each part correct.**

* Pool: slots are neither leaked nor freed twice; parked plus used connections stay within the limit; only live
  connections are handed out; a queued caller is served.
* Ramp-up and server state: two connections are never opened closer together than the delay, whoever is dropped in
  between; `acquire_connection` always gives its borrow back; `connections_active` and the speed are exact.
* Connection: a command reads its own reply; a session that is over, failed or half-read is not `Ready`; compression
  is known when it matters; every call returns.
* Framing and rows: a body reported complete is the article that was sent, and the next reply begins behind it; a
  cut prefix is exactly the bytes asked for; no overview row is lost, and a malformed one never displaces a sound one.
* Pipelines: results belong to their requests, nothing is lost in a call that returns, the window is kept, the
  connection is aligned afterwards.
* Downloader: every article is settled exactly once; failover respects priority and never asks twice; connections are
  counted; a blocked call starves nobody; pause and shutdown work at any moment.
* Mock server: whatever fault it injects, it answers in order and sends a body where the client reads one (LIST
  EXTENSIONS is the exception, section 4); what its connections share is neither lost nor doubled.

## 2. Modules

Definitions whose name ends in `_Something` after another definition's name (`Requeue_Drops`, `Stuffed_Never`) are
not part of a specification. Each is a plausible bug in the code of the definition it precedes; replacing the one by
the other must make a run find the named property violated. `PROJECT.json` pairs them under "mutants".

### ConnectionPool, SlotLimiter

A caller is one call of `acquire()` and the checkout it leads to. Its position `pc` has a value for every await of
`acquire` (semaphore queue, ping, ramp-up, connect) and for the gap in `release` between pushing the connection and
adding the permit. `permits` and `queue` are the tokio semaphore (an added permit goes to the oldest waiter); `idle`
is the stack, `armed` the set of connections whose drop guard still holds a permit, `state` the connections' states,
`stale` those parked longer than `IDLE_TIMEOUT`, `closing` those `close_idle` has drained. `Cancel` drops the future at
any await after the permit was assigned, `LeaveQueue` in the queue or by `ACQUIRE_TIMEOUT`, `Abandon` drops a checkout.

`SlotLimiter` is what the pool promises: at most `Max` callers hold a slot, the others wait in order, a freed slot goes
to the oldest. `ConnectionPool` implements it under `held <- Holders, waiting <- queue` (checked with fairness, proved
without). `Downloader` keeps such a limiter for each server in the pool's place.

### RampUp, ServerState

`RampUp` is `wait_for_ramp_up()` alone: the tokio mutex (`lock`, `lockQueue`), the sleep (`left`) and the time since the
last connection (`elapsed`), all relative to now and counted only as far as the delay reaches, because that is all the
code asks of the clock. What workers do elsewhere is free (`Elsewhere`). `LeaveRampUp` drops a future in the queue, with
the mutex, or asleep. `Backdated` is the 60 s by which `new()` antedates the last connection.

`ServerState` extends it with the rest of the server: `borrow` is the exclusive borrow that
`acquire_connection(&mut self)` keeps over the pool's slot, the ramp-up and the connect, and every other `&mut self` operation waits for it, the
release of the very connection it waits for included. Other workers open connections outside the pool (`Outside`) and
compete for the pace. Penalties count down with `Tick`; `samples` are the `SpeedTracker`'s, by age. Nothing is stated of
penalties here: `IsAvailable()` is one comparison with the clock, and what penalties do to the choice of a server is in
`Downloader`.

### Wire

One session seen by the client: commands not fully answered (`cmds`), parts of replies not yet read (`stream`), and
whether the server still talks. The server is external: it answers in order, a status line and possibly a body, with any
of the codes given, or garbage, or stops, or closes. It sends nothing unasked. A body is one part. `NntpConnection` lets
the server send a body only after the code for which the client reads one on that command. `MockServer` is proved to be
such a server, with one exception: it sends its list after 215 to LIST EXTENSIONS, where `connect` reads one after 202
only (section 4). Overrides with a code that announces a body, which it sends without one, are left out
(`InjectedAssumption`).

### NntpConnection

One connection and all its commands, at the grain of its awaits: open, write, read a status line, read a body. `cmd` and
`phase` say where the call is. The fifteen operations share their steps; what differs between them is one `Row` for
each, with the codes the source matches on: the code a body follows, those after which the call has succeeded or is
declined with the connection `Ready`, the capability it needs, whether its body is bounded. The connect sequence is
`tcp, greeting, user, pass, caps, mode, ext, gzip`; its last four are *probes*: they run when the state is already
`Ready`, and their failure is ignored. `ParseCaps` and `Probed` say what a capability list enables. `Cancel` drops the
call's future at any await. `Fail` is the difference between the commands (which set `Error`) and the handshake (whose
I/O errors leave the state as it is; `README.md:371` says fatal errors set `Error`).

The history variable `owed` holds the commands of a session that were left behind: probes given up, and probes or
`quit()`s dropped, while the state was `Ready`. The code leaves such a connection `Ready` with a reply outstanding.
`ReadyMeansAligned` and `OwnReply` say nothing of sessions in which any was left behind. `GzipKnown` excepts only those
where XFEATURE GZIP itself was: its 290 may still come, and then the client does not know that the server compresses;
whatever else is given up, it knows. The defaults allow the first case (30 s for `connect`, 20 s per body line);
the other two need a caller that goes on with a connection whose `connect()` or `quit()` it dropped; the pool drops the
connection itself.

A consequence of the capability tables, `ContentUsable`: the four content flags are always true after `connect`, so the
BODY to ARTICLE fallback, and the refusals for want of STAT, HEAD or BODY, only ever run under the test-only setter.

### Framing, Overview

Both sides of a multi-line block, byte by byte. A *script* is all that is written on one stream: the lines of articles
and an "end" after each; a "last" line has no LF. The writer is `post_article` (which splits with `str::lines`, so it
keeps a CR before a missing LF), `post_article_bytes` or the mock server; the stream delivers whole items, and may break
anywhere in one (`Break`). The reader is that of the operation: a whole body, a bounded one, a prefix, or the mock
server's `read_posted_article`. A complete block leaves the stream for the next (`NextBlock`), with another reader
and bound, so an error in one shows in all that follow.

`Overview` reads blocks of rows with the same steps and parses those that are complete, as `xover_lossless` and
`xover_lossless_bounded` do; `Entries` is what `xover()` makes of the same bytes. The order of the checks in `Code`, and
`seen.insert` only in the last of them, decide which line becomes the row of a number.

### Pipeline, StatPipeline

`Pipeline` is `process_all` with `flush_sends` and `receive_one`: `pending`, `inflight`, the request in hand, the
results; users come one after the other, taking over the connection when the pool would (`NextConn`) and a new one
otherwise. The next user has a Pipeline of its own (`HandOver`), or it is the same user, who goes on with the Pipeline
of the failed call (`Retry`). The latter still has in flight what the old connection did not answer; none of that is
sent again, yet the first replies of the new connection are given to it. `carried` is their number, and `Matched` says
that replies slip by exactly so many places: by none, if a call starts with nothing in flight. With `DropsCancelled` a
connection whose `process_all` was dropped is thrown away; without it, it is parked as the pool would park it.
`StatPipeline` is `execute`: batches, `Busy` while a batch is out, `Ready` after the last. Requests are numbered; a
reply names the command it answers by its place among those written (`sent`), so a slip between the two is visible.

### Downloader

Concurrent calls of `download()`, each with its articles, over the shared servers. A step is what runs between two
awaits or under one lock: reading the flags (`CheckFlags`, which after a pause looks at `paused` first and then goes
straight on to `Pick`, as the code's inner loop does), `Pick`, `Acquired`/`AcquireFail`, `Fetch`, `Settle`, `Send`.
Penalties are counted down by `Tick`. `penalize_for` decides by looking for "auth" or "timeout" in the error's text,
which may contain the server's own words, so an I/O error may earn either penalty (`PenaltyFor`).

### MockServer

The server that the crate ships for tests: one record for each connection, with what the client sent and the handler has
not read (`inbox`), what it still has to write for the current command (`pending`) and what it wrote (`out`). Clients
pipeline commands, post and leave. A configuration has the fields of `MockConfig` and, for the instance, what its
clients do (`clients`, `menu`, `sends`); `Injected` are the codes of its overrides and one-shot answers. Each part of a
reply counts two bytes, so that `silent_close_after_bytes` can fall between parts or into one. `W(c)` is the refinement
mapping to `Wire`: commands are owed in the order they were sent; on a hung connection those it has read and ignored are
owed for ever. `ServesWire` gives each command its own codes that a body follows (`BodyCodes`).

`check_and_record()` reads the clock and then takes the lock; two steps here (`ReadClock`, `Pass`), with the clock that
was read in between (`read`). So attempts may be recorded out of order, and an expired one may stay behind one that is
not, because only the front is popped. `RateLimited` therefore gives two bounds: refused if more than `MaxAttempts` of
the attempts are unexpired by any clock, and only if more than `MaxAttempts` have been recorded since one inside the
window. Where attempts are recorded in the order of their clocks, the two meet.

`out` holds replies only, without the banner and without what a cut tore off, so a one-shot answer can be identified by
the place its reply has there: `scripted` records for which connection, place and article an answer was taken.
`ScriptOnce` says three things of that history: each article's answers are taken in the order of the configuration
(`ScriptInOrder`), the reply at the place is the answer taken for it and no two answers share one (`GivenOnce`), and
while answers are left, no other reply is given for the article (`NoneSkipped`).

## 3. Runs

| run | asks | bounds | states |
| --- | --- | --- | --- |
| `pool_safety` | `SlotsConserved`, `WithinLimit`, `HandedOutHealthy`, and `LimiterFairSpec`: the refinement of `SlotLimiter` with its fairness, so a caller that stays queued is served | 4 callers, 5 connections, 2 permits; no symmetry, because of the fairness | 525 thousand |
| `server_state` | `ActiveCounts`, `SpeedIsRolling`, `Paced`, `AcquireReturns` | 3 workers, 1 connection, delays of 0 and 2 ticks | 311 thousand |
| `connection_safety` | `TypeOK`, `ReadyMeansAligned`, `OwnReply`, `SessionOver`, `GzipKnown`, `Returns` | 6 of the commands, 15 codes, 3 configurations, 3 capability lists | 2.3 million |
| `framing_overview` | `Delivered`, `PrefixExact`, `RowsExact`, `RowsAreEntries` | all blocks of up to two lines of dots, CRs and text, with what follows them; all of three rows | 997 thousand |
| `pipeline_safety` | `Matched`, `Accounted`, `AlignedAfterReturn`, `Returns` | 5 requests, depth 2 | 87 thousand |
| `stat_safety` | `Matched`, `OkMeansComplete`, `ReadyMeansAligned`, `Returns` | 5 ids, batches of 2 | 10 thousand |
| `downloader_safety` | `Accounted`, `TriedOnce`, `ActiveCount`, `FailoverInOrder`, `BlockedHoldsNoSlot` | calls of 1 and 2 articles, 2 enabled servers and a disabled one, channel of 1 | 4.7 million |
| `downloader_control` | `Returns`, `ShutdownEnds` | 2 calls, 1 server, pause and shutdown at any moment | 77 thousand |
| `mock_server` | `RateLimited`, `ScriptOnce`, `PostedOnce`, `ServesWire` | 8 configurations, 2 connections (symmetric), 2 or 3 commands each | 1.0 million |

The type invariants, and the properties that follow from one guard (`WindowRespected`, `BatchRespected`,
`FatalNotReady`, `ContentUsable`), are proved instead of run; `connection_safety` checks its `TypeOK` because its tables
are the largest.

**Why the bounds are enough.** Two permits and four callers give every role at once: one that uses, one that waits, one
that is between push and permit, one that is dropped; a fifth connection is the one being closed. In `server_state` one
worker sleeps with the mutex, one queues on it, and a third comes from outside the pool or holds the only connection,
whose release the borrow keeps back; `Backdated` is less than the delay, so the first connection waits too. A window of
one tick with three downloads has samples inside, at the edge and outside. Two requests in a window and five in all let
a second user, and a second window, follow a failed one. Five ids in batches of two end with a short batch. Two servers
of one connection make both failover and contention; a call with two articles requeues one behind the other.
`connection_safety` has a command of each shape: status only, a body, a bounded body, a prefix, a posting, and a code of
each class the tables tell apart. The lines of `framing_overview` are those that could be taken for something else:
empty, ".", "..", ".CR", a lone CR, text; its rows are in range, out of it, too large, signed, no number, short, and
repeated; the bounds 2, 3 and 9 fall before, at and after the end of a line or block. Each configuration of
`mock_server` is one feature with the commands that meet it; two clients share what connections share.

Bounds that are guards: `MaxOwed` stops callers from using a session with more than one unread reply (without it
repeated dropped `quit()`s grow the stream for ever), `MaxClosing` bounds connections in `close_idle`, `N` the requests
of a behaviour, `MaxTried` the recorded downloads, `MaxAbandoned` the connections dropped without release, `sends` the
commands of a mock client, `MaxNow` the mock server's clock. `MaxLine` and `MaxNumber` stand for 16 KiB and `u64::MAX`.
`ShortPenalty` and `LongPenalty` are ticks (1 and 2 where their order matters).

**Fairness.** Weak fairness of the steps a task takes by itself, because each of their awaits ends: reads and writes
have timeouts (`READ_LINE_TIMEOUT`, `READ_BODY_LINE_TIMEOUT`, `WRITE_TIMEOUT`, `connect_timeout_secs`), the semaphore
has `ACQUIRE_TIMEOUT`, a ramp-up pause ends. The server is never assumed to answer. A user of the pool gives back what
it holds (`GiveBack`); that queued callers are served does not rely on the queue's timeout, which is not fair. In
`ServerState` time passes (`Tick`), a worker whose sleep is over is polled (`Ramp`), and a wait for a slot or a connect
ends in one of its ways (`Connected` or `AcquireFails`). Nothing makes other workers leave the ramp-up queue or stop
coming; `AcquireReturns` holds because tokio's mutex is first come, first served. A consumer of results receives, or
goes away (`Receive`, `CloseReceiver`); `Returns` of the downloader assumes that it is not paused for good.

`CHECK_DEADLOCK FALSE` is set where behaviours end: the bounded number of requests of `Pipeline`, the script of
`framing_overview`, the clients of `mock_server`. `Downloader` has a `Finished` step instead.

## 4. Where code and documents differ

Each of these is a run that TLC must find violated.

| run | what it shows |
| --- | --- |
| `pipeline_cancelled` | `process_all` never leaves `Ready`. Dropped half-way, it leaves a connection the pool parks as healthy while replies are outstanding; the next user reads them as its own. `connection.rs:193` promises "Authenticated and idle, ready for commands". `StatPipeline` sets `Busy` and does not have the problem. |
| `pool_open_sockets` | `close_idle` frees no permits for what it drains and quits it one by one, so `acquire` opens up to `connections` more sockets meanwhile. |
| `downloader_expired` | An expired idle session costs the article its attempt at that server. |

Others, met while modelling and not turned into runs. In the downloader and the pipelines:

* `AllServersExhausted` ("Article not on any server", `README.md:368`) is reported although a penalized server was never
  asked: `FailoverInOrder` has to allow servers that were once backed off.
* `pause()` says that no new article starts (`downloader.rs:101`); a call already past the check still acquires and
  fetches. Likewise, a call that is shut down and resumed while it sleeps in its pause leaves the inner loop without
  another look at `shutdown` (`downloader.rs:153`) and fetches one more article.
* A dropped `download()` leaves `connections_active` one too high (`leaked` in `ActiveCount`); so does every
  `PooledConnection` dropped without release (`abandoned` in `ActiveCounts`).
* "Auth/service/connection errors drain remaining requests as failures" (`NNTP_COMPLIANCE.md:226`): a failed write or a
  failed read of a status line ends `process_all` with `Err` instead. The results collected so far and the request in
  hand are dropped, the others stay in the queues.
* "matching it to the oldest in-flight request" (`pipeline.rs:114`): after an `Err` requests may be left in flight
  (`pipeline.rs:131`, `200`), and `process_all` accepts such a Pipeline with a new connection and even counts them
  (`pipeline.rs:196`). The new connection never saw them, so every reply goes to a request that many places too early;
  at the end `process_all` waits for replies nobody sends, until the read times out. `Matched` states the slip.
* "If the connection entered an error state, bail out" (`pipeline.rs:207`): after an unexpected code `process_all` goes
  on with a connection in `Error`.

In the connection:

* `compress_enabled` survives `quit()` and `connect()`: a session without compression counts as compressed
  (`connection.rs:419`: "was negotiated on this connection"), and `fetch_body_prefix` is refused on it.
* "was negotiated on this connection" is also false after an XFEATURE GZIP that `connect` gave up on or whose future was
  dropped (`connection.rs:933`): the 290 may come later, to a connection that is `Ready` and does not expect compressed
  bodies.
* `negotiate_compression` takes every code but 202 for a reply without a body (`connection.rs:926`). A server that
  answers LIST EXTENSIONS as it answers LIST, the mock server for one (`testutil.rs:649`), leaves its list unread on a
  `Ready` connection. The modelled server sends a body only after the code for which one is expected.
* 480 is `AuthRequired` for most commands (`NNTP_COMPLIANCE.md:121`) but a `Protocol` error for XOVER, XHDR, XPAT, LIST
  ACTIVE and POST.
* The final reply to a posted article leaves the connection `Ready` whatever its code, 400 and 502 included; therefore
  `SessionOver` does not speak of it.
* A body prefix that is exactly as long as the body is reported as cut, because the terminator is not read
  (`connection.rs:2434`); where the stream breaks inside a terminator, a stray "." may end the prefix. `PrefixExact`
  leaves both open.
* `end.saturating_sub(start) + 1` overflows for the range 0 to `u64::MAX` (`connection.rs:1577`), in a log line.

In the pool and the server state:

* "Allow the first connection immediately" (`pool.rs:100`): not with a `ramp_up_delay_ms` of more than 60 s.
* `SPEED_WINDOW_SIZE` (`server.rs:20`) is only a capacity; the window is 10 s. "Current speed" (`server.rs:61`) is the
  speed up to the newest sample, however old that is.
* A later penalty replaces an earlier one even if it ends sooner.
* A pool that is busy for `ACQUIRE_TIMEOUT` earns its server the penalty of a timeout.
* `release` or `discard` of a connection made with `unmanaged()` (`pool.rs:45`) adds a permit nobody took.

In the mock server:

* "limit exceeded within the current window" (`testutil.rs:64`): the clock is read before the lock is taken
  (`testutil.rs:66`), so an attempt overtaken in between may keep an expired one in the count.
* `write()` "returns `false` if [...] we are in hang mode" (`testutil.rs:335`); it returns true, and the command runs to
  its end: a hung server still takes one-shot answers, counts authentications, captures articles.
* "so the client doesn't see EOF" (`testutil.rs:429`): it does after QUIT or `close_after_n_commands`.
* A client that breaks off inside the terminator leaves an article that is captured as if complete.
* An override with a code that announces a body is sent without one.

## 5. Proofs

Each set of proofs has an inductive invariant `IInv` (or two of them) in its module: the property, with what a call
knows at each of its awaits. TLC checked each on the instance of the run first. The proof that a step preserves it has
one lemma per action or one per conjunct; what a step does to queues or tables that several actions share is stated
once. The theorems hold for behaviours of any length; bounds such as `MaxOwed` and `MaxTried` are guards of
unconstrained value.

### ConnectionPoolProofs: every finite set of callers, every set of connections, every number of permits

| theorem | says |
| --- | --- |
| `TypeCorrect` | `Spec => []TypeOK` |
| `PermitsConserved` | `Spec => []SlotsConserved` |
| `LimitKept` | `Spec => []WithinLimit` |
| `OnlyHealthy` | `Spec => HandedOutHealthy` |
| `PoolIsLimiter` | `Spec => LimiterSpec`: initial states map to initial states, each step to a step or a stutter |

Assumptions: `MaxAssumption`, `CallersAssumption`, `NoConnAssumption`.

None of the safety properties is inductive. `SlotsConserved` breaks if a caller without a permit leaves the queue twice,
or if a guard is armed on a connection that is not checked out; so `IInv` adds `QueueInv` (queued callers are exactly
waiting, once, and only while no permit is free), `OwnerInv` (who owns a connection at which position, parked ones are
`Ready`), `AloneInv` (a connection is in one place: one stack slot, one caller or one `close_idle`) and `GuardInv`
(armed exactly when checked out). `WithinLimit` needs all of them and `SlotsConserved`: when `acquire` has found the
stack empty, parked connections can only have come from callers that still count in `release`'s gap or from permits that
are free. One lemma per conjunct, one step per action; the actions that free a slot share `OneFreed`, what
`AddPermits(1, ...)` does to queue, permits and positions. `HandedOutHealthy` rests on `StaleInv`: a connection past
`IDLE_TIMEOUT` is parked or being pinged, never out, connecting, free or closing. Sequences are handled by three lemmas
about `Without`, popping and appending.

### ServerStateProofs: every set of workers (finite for the count), every set of delays, every window

| theorem | says |
| --- | --- |
| `PaceTypeCorrect` | `PaceSpec => []PaceTypeOK` |
| `PacedCorrect` | `PaceSpec => Paced` |
| `ServerPaced` | `FairSpec => Paced`, because each step of `ServerState` is one of `RampUp` or a stutter of it |
| `ActiveCorrect` | `FairSpec => []ActiveCounts` |
| `SpeedCorrect` | `FairSpec => []SpeedIsRolling` |

Assumptions: `DelayAssumption`, `NoWorkerAssumption`; `WorkersAssumption` for the count, `SpeedAssumption` for the
speed.

Whoever is `locked` or `asleep` owns the mutex, so there is one such worker, and what is left of its sleep and what has
elapsed cover the delay: that is the invariant. `ActiveCounts` needs to know that `active` is positive when a connection
in use is given back, so that `saturating_sub` subtracts, which the equation itself gives, and which workers may have
the borrow at which place.

The speed is computed from the deque the tracker keeps, while `SpeedIsRolling` speaks of all downloads. `RInv` says that
the deque is a tail of them, cut where the window ended when the last one was recorded, that ages never increase from
one sample to the next, and that the counter of bytes is the sum of all downloads, which the deque's cannot exceed.
Since samples age together, what `Trim` pops at the front is exactly what has left the window (`TrimIs`,
`WindowOfMore`). `Total` is a recursive function; that there is one, and that it adds up from either end, is proved by
contradiction at a least length (`SumsExist`, `TotalOfMore`, `TotalOfLast`).

### NntpConnectionProofs: every set of commands, codes, configurations and capability lists

| theorem | says |
| --- | --- |
| `ConnTypeCorrect` | `Spec => []TypeOK` |
| `ReadyAligned` | `Spec => []ReadyMeansAligned` |
| `RepliesOwn` | `Spec => OwnReply` |
| `RefusalEndsSession` | `Spec => SessionOver` |
| `FatalCorrect`, `ContentCorrect` | `Spec => []FatalNotReady`, `Spec => []ContentUsable` |
| `CompressionKnown` | `Spec => []GzipKnown` |

Assumptions: `OpsAssumption` (the operations are commands of the code), `CodesAssumption` (a code is not one of the
three words the model uses for other things), `ServerConfigsAssumption`, `AdvertisedAssumption`, `MaxOwedAssumption`.

`ReadyMeansAligned` speaks of connections at rest. The invariant says what is outstanding in the middle of a call as
well (`AlignInv`): nothing before a command is written; then everything under way is the command's own (`Mine`), and the
reply is due, half sent, sent, or will never come (`LineDue`, `BodyDue`, five and three shapes of the two queues).
`PlaceInv` ties the state field to the command in progress, which is what makes a dropped call safe: a command leaves
`Busy` behind, the handshake `Connecting` or `Authenticating`, and only probes and QUIT leave `Ready`. `GoneInv` is
needed where a probe is given up on a closed stream. `GzipInv` adds that no session compresses before it is
authenticated, so `Ready` is entered in the plain, and that between the server's 290 and its being read the connection
is inside the handshake. That is about sessions with nothing left behind. In the others `LateInv` says that XFEATURE
GZIP is not sent any more, unless it was itself left behind: LIST EXTENSIONS then reads the reply to the probe that was
given up before it (`FirstLate`), which is no 202. What a step does to the two queues is stated once (`SendPartEffect`,
`TakePartEffect`, `WriteCmdEffect`), where a call goes after a reply or a failure too (`ReplyFacts`, `FailFacts`).

### FramingProofs: every script of lines of any bytes and length, every writer, every bound, every range

| theorem | says |
| --- | --- |
| `FramingTypeCorrect` | `Spec => []TypeOK` |
| `DeliveredCorrect` | `Spec => []Delivered` |
| `PrefixCorrect` | `Spec => []PrefixExact` |
| `RowsExactCorrect` | `OverviewSpec => []RowsExact` |
| `RowsAreEntriesCorrect` | `OverviewSpec => []RowsAreEntries` |

Assumptions: `ScriptsAssumption` (lines contain no LF), `WritersAssumption`, `BoundsAssumption`; for the rows also
`RangesAssumption` and `FieldsAssumption`.

The core is one fact about lines: for any line, what `WireLine` writes is taken for the terminator by no reader unless
it is one, and comes back from `Data` as the line. It is proved byte by byte for the four shapes of a stuffed line and
both kinds of reader, and for the part of a line that is left when the stream breaks. `IInv` adds that the lines kept so
far are those of the block, in order (`LinesInv`), and that a broken line is only ever the last (`PlaceInv`).

A step of `Overview` is one of `Framing`, or the last read of a block with the parse of what was read, so `OInv` adds
only that the rows are the parser's. What the parser computes is a statement about any list of lines: after `m` of them
the rows are, in order, those of the lines that are sound and the first with their number, the defective ones all other
lines that are not empty, and `seen` the numbers of the sound ones (`ParseInv`); `xover()` makes an entry of each line
with enough fields (`EntryInv`). Both parsers are recursive functions on the lines; the loop invariants are carried from
one line to the next by `ParseStep` and `EntryStep`, and from none to all by the absence of a least line that breaks
them. `RowsAreEntries` then compares two enumerations of sets of places: every sound row has enough fields, and its
number is what the lossy conversion reads.

### PipelineProofs: every number of requests, every depth

| theorem | says |
| --- | --- |
| `PipelineTypeCorrect` | `Spec => []TypeOK` |
| `PipelineAccounted` | `Spec => []Accounted` |
| `PipelineMatched` | `DropsCancelled /\ Spec => []Matched` |
| `PipelineAligned` | `DropsCancelled /\ Spec => []AlignedAfterReturn` |
| `PipelineWindow` | `DropsCancelled /\ Spec => []WindowRespected` |

Assumption: `DepthAssumption`. The premise `DropsCancelled` (TRUE: a connection whose call was dropped is thrown away)
cannot be done without, as `pipeline_cancelled` shows. `OInv` says that the results, the request in hand, the queue in
flight and the pending queue are, one behind the other, what the call was asked for, and that those not carried over are
what was written last on the connection, in the same order (`AskedInv`, `Shift`). `WInv` says of the wire in the middle
of a call (`CallWire`) that the replies under way are those to consecutive commands (`Chain`), that the first is the one
`process_all` reads next, `carried` places behind the request it will give it to (`Expect`), and that the server owes
exactly the rest up to the last command sent (`Rest`); `Bounded` keeps both within one window. A connection that goes to
another call has nothing under way, so each call begins its chain anew.

### StatPipelineProofs: every list, every batch size

| theorem | says |
| --- | --- |
| `StatTypeCorrect` | `Spec => []TypeOK` |
| `StatMatched` | `Spec => []Matched` |
| `StatComplete` | `Spec => []OkMeansComplete` |
| `StatReadyAligned` | `Spec => []ReadyMeansAligned` |
| `StatBatchCorrect` | `Spec => []BatchRespected` |

Assumption: `BatchAssumption`. The replies under way are those to the next ids, in their order, and a live server owes
those of the ids sent and not answered (`AlignInv`); the answers are those to the first ids (`AnswersInv`). The length
of the short last batch is arithmetic about `\div`, in a lemma.

### DownloaderProofs: every finite set of calls, every list of articles, every list of servers

| theorem | says |
| --- | --- |
| `DownloaderTypeCorrect` | `Spec => []TypeOK` |
| `DownloaderAccounted` | `Spec => []Accounted` |
| `DownloaderTriedOnce` | `Spec => []TriedOnce` |
| `DownloaderActiveCount` | `Spec => []ActiveCount` |
| `DownloaderBlockedHoldsNoSlot` | `Spec => []BlockedHoldsNoSlot` |
| `DownloaderFailoverInOrder` | `Spec => []FailoverInOrder` |

Assumptions: `CallsAssumption`, `BatchAssumption`, `ConfigsAssumption`, `PenaltyAssumption`, `TriedAssumption` (a caller
lists no server twice as tried), `ChannelAssumption`.

`CallsInv` says what a call has in hand at each await (an article it has not tried at the server it picked), `SlotsInv`
that it is at most once in one pool, and there while it needs a slot, `Places` that each article is settled, in hand or
pending, in one place only, and `OrderInv` that the order of failover already holds for the article in hand. The
first is what makes the others inductive: `TriedOnce` because the server was picked among those not tried, and nobody
else changes what a call has tried; `FailoverInOrder` because a server that is available now is passed over only by a
choice of the first untried one (`First`, which exists because positions are well-founded).

### MockServerProofs: every set of connections, every configuration, all limits

| theorem | says |
| --- | --- |
| `MockTypeCorrect` | `Spec => []TypeOK` |
| `RateCorrect` | `Spec => []RateLimited` |
| `PostedCorrect` | `Spec => []PostedOnce` |
| `ScriptCorrect` | `Spec => []ScriptOnce` |
| `ServesWireCorrect` | `Spec => ServesWire`: for every connection each step is a stutter or one of `Wire`'s server or client, with the codes that a body follows for the command answered |

Assumptions: `LimitsAssumption` (natural numbers), `InjectedAssumption` (an injected code is neither one that a body
follows nor 340 or 240, the codes of posting), `ConfigsAssumption` (the flags are Boolean; clients send commands, which
are not the model's marks for "none yet" and for an article, and a server does not hang after an article).

The handler has many branches, but a session changes in few ways, so the proofs first put every action in one of them
(`Steps`, `Moves`): a command is read and its answer becomes due, an article is read, the next part of an answer is
written or lost, the connection opens, closes or receives. Each invariant is then kept by each way, once.

* `RateInv`: the times the limiter keeps are those of all attempts but the first ones, each of which had expired by the
  clock of some attempt recorded since (`Trails`, `Expired`). Nothing is said of the order of the times. Hence what is
  kept contains all that no clock has expired, which gives the first bound, and begins with an attempt inside the
  window of the newest, which gives the second; both are frozen when the next attempt is recorded.
* `SoundInv` is what a session knows: the parts due are those of one answer (`Due`), nothing is due before the first
  command but the banner (`Quiet`), nothing is behind POST in the inbox but its article (`Posting`), and an article is
  only read, and 240 only due, in a session that does not hang (`Asked`). The other invariants rest on it.
* `PostInv`: the articles kept from a connection are as many as its 240s written, and one more exactly while a 240 is
  due; when it closes, the difference is frozen (`Balanced`).
* `ScriptOnce` has an invariant for each of its parts. `ItemInv` follows an answer from the moment it is taken: it is
  the part due for the place behind the last reply, or the reply at its place, or lost with its connection. `OrderInv`
  relates what is left of an article's answers to the number of those taken. `SkipInv` says of a reply, due or written,
  that it is one of the answers taken or that none was left; since answers are never put back, what is so stays so.
* The refinement mapping `Owed` is a sequence made of those of the commands ignored, of the parts due and of the inbox.
  `OwedAnswered`, `OwedPassed` and `OwedSaid` say what reading a command, writing a part and receiving one more command
  do to it; `WireWrites`, `WireSays`, `WireOpens` and `WireCloses` that each is the step of `Wire` it should be.
  `FitInv` says that a code due announces a body exactly if it does for the command answered.

**Only model-checked:** the fairness half of the pool's refinement and all liveness (`Returns`, `ShutdownEnds`,
`AcquireReturns`), because fairness and ENABLED are out of the prover's reach. Every safety property a passing run
checks is also a theorem. Induction over data is out of its reach too; where a recursive function has to be reasoned
about for sequences of any length (`Total`, the parsers), the proofs argue from a least counterexample instead.

## 6. Not modelled

* Texts: status lines exist only as their codes; how a code is parsed, and the words of errors and logs, are left out.
  Of the listings, `parse_overview_format`, `parse_header_data` and `parse_list_active_data` are single passes without
  state over text, and have nothing a model would add to their unit tests.
* TLS, SOCKS5 and inflation are done by libraries; the models have their outcomes (a connection that fails to open,
  `compress`).
* Body buffers and the heartbeat: a free list of a few buffers, and a time stamp that nothing in the crate reads.
* Configuration: plain data with defaults; the models' constants are what they need of it. `bandwidth_limit` is a
  `yield_now` in the code and changes nothing.
* Capabilities nothing in the crate reads (OVER, LIST keywords, COMPRESS, VERSION). `NoConnectionsAvailable`, which no
  code constructs. Connections that are released to a pool that did not make them (`unmanaged`).
* Servers that speak unasked: a "400 idle timeout" arrives as the reply to the next command, and `ping()`'s claim that a
  reply proves the session "in sync" is not examined against stale announcements.

## 7. Plan

Done: the pool with its abstract specification; the wire, both pipelines; the downloader over the abstract limiter; the
connection; framing and overview rows; ramp-up and server state; the mock server as a refinement of the wire; proofs of
the safety properties of all of them.

Left:

1. Composition of the pool with connections that have a wire, so that `HandedOutHealthy` becomes "what acquire returns
   has no reply outstanding"; it would inherit the exception of `pipeline_cancelled`.
2. A server that speaks unasked, if the client ever comes to look for it.
