----------------------------- MODULE MockServer -----------------------------
(***************************************************************************)
(* The server of src/testutil.rs that the crate offers to tests: a task    *)
(* per connection, all of them over one configuration, one limiter of      *)
(* authentication attempts, one set of one-shot answers and one list of    *)
(* posted articles; and the clients that connect to it, pipeline commands  *)
(* and may leave at any point.                                             *)
(*                                                                         *)
(* A command is its verb and one argument.  A reply is its code and, for   *)
(* some codes, a body; each counts two bytes, so that a limit on the bytes *)
(* written can fall into the middle of one.  What a limit cuts is no reply *)
(* any more, and the greeting is none.                                     *)
(***************************************************************************)
EXTENDS Integers, Sequences, FiniteSets

CONSTANTS
    Conns,        \* connections, each opened at most once
    Configs,      \* configurations, each with its clients: how many connect
                  \* (clients), what they send (menu) and how much (sends)
    Injected,     \* codes tests inject: they have no body and ask for no article
    MaxAttempts,  \* AuthRateLimit.max_attempts
    RateWindow,   \* AuthRateLimit.window, in ticks
    MaxNow        \* bound: ticks of the clock

\* Codes that a body follows.
Multi == {"101", "215", "220", "221", "222", "224"}

\* Before the first command; and an article in the place of a command.
NoCmd == [verb |-> "-", arg |-> "-"]
Text  == [verb |-> "text", arg |-> "-"]

ASSUME LimitsAssumption == MaxAttempts \in Nat /\ RateWindow \in Nat /\ MaxNow \in Nat
ASSUME InjectedAssumption == Injected \cap (Multi \cup {"340", "240", "body", "banner"}) = {}
ASSUME ConfigsAssumption ==
    \A f \in Configs :
        /\ \A cmd \in f.menu :
              cmd = [verb |-> cmd.verb, arg |-> cmd.arg] /\ cmd.verb \notin {"-", "text"}
        /\ f.hang_after_command # "text"
        /\ {f.auth_required, f.fail_auth, f.auth_rate_limit} \subseteq BOOLEAN
        /\ f.overrides \in [DOMAIN f.overrides -> Injected]
        /\ f.script \in [DOMAIN f.script -> Seq(Injected)]

VARIABLES
    config,    \* MockConfig
    conn,      \* handle_connection() of every connection and what it wrote
    attempts,  \* AuthRateLimit.state
    read,      \* the clock as check_and_record() of a connection read it
    script,    \* article_response_sequences
    posted,    \* posted_articles
    now,
    tries,     \* history: [conn, time, limited] of every attempt recorded
    scripted   \* history: [conn, place, mid, code] of every one-shot answer
               \* taken: of the replies of conn it is the one at place

shared  == <<attempts, script, posted>>
history == <<tries, scripted>>
clocks  == <<now, read>>
vars    == <<config, conn, shared, history, clocks>>

\* Commands refused before authentication, and without a group.
Guarded   == {"GROUP", "XOVER", "HEAD", "XHDR", "XPAT", "LIST", "ARTICLE", "BODY", "STAT", "POST"}
NeedGroup == {"XOVER", "HEAD"}

NotRead == -1

Fresh(st) ==
    [at |-> st, auth |-> ~config.auth_required, group |-> "-", hung |-> FALSE,
     posting |-> FALSE, processed |-> 0, written |-> 0, left |-> FALSE, sent |-> 0,
     inbox |-> <<>>, cmd |-> NoCmd, pending |-> <<>>,
     out |-> <<>>, ignored |-> <<>>]

Init ==
    /\ config \in Configs
    /\ conn = [c \in Conns |-> Fresh("none")]
    /\ attempts = <<>> /\ script = config.script /\ posted = <<>>
    /\ now = 0 /\ read = [c \in Conns |-> NotRead]
    /\ tries = <<>> /\ scripted = <<>>

Part(c, k) == [for |-> conn[c].cmd, kind |-> k]

Closed(g) == [g EXCEPT !.at = "closed", !.inbox = <<>>, !.pending = <<>>]

-----------------------------------------------------------------------------
(* The client                                                               *)

\* A connection is accepted: a banner is due, or 502 is all it gets.
Accept(c) ==
    /\ conn[c].at = "none"
    /\ Cardinality({x \in Conns : conn[x].at # "none"}) < config.clients
    /\ conn' = [conn EXCEPT ![c] =
                   IF config.service_unavailable
                   THEN Fresh("closed")
                   ELSE [Fresh("open") EXCEPT !.pending = <<"banner">>]]
    /\ UNCHANGED <<config, shared, history, clocks>>

Says(c, cmd) ==
    conn' = [conn EXCEPT ![c].inbox = Append(@, cmd), ![c].sent = @ + 1]

\* A command, perhaps behind others; nothing between POST and its answer.
Send(c, cmd) ==
    /\ conn[c].at = "open" /\ ~conn[c].left /\ conn[c].sent < config.sends
    /\ \A i \in DOMAIN conn[c].inbox : conn[c].inbox[i].verb # "POST"
    /\ conn[c].cmd.verb # "POST" \/ (conn[c].pending = <<>> /\ ~conn[c].posting)
    /\ Says(c, cmd)
    /\ UNCHANGED <<config, shared, history, clocks>>

\* The article, once 340 has arrived.
SendArticle(c) ==
    /\ conn[c].at = "open" /\ ~conn[c].left /\ conn[c].posting
    /\ conn[c].out # <<>> /\ conn[c].out[Len(conn[c].out)].kind = "340"
    /\ conn[c].inbox = <<>>
    /\ Says(c, Text)
    /\ UNCHANGED <<config, shared, history, clocks>>

\* The client goes away: what it sent can still be read, then the end.
Leave(c) ==
    /\ conn[c].at = "open" /\ ~conn[c].left
    /\ conn' = [conn EXCEPT ![c].left = TRUE]
    /\ UNCHANGED <<config, shared, history, clocks>>

-----------------------------------------------------------------------------
(* handle_connection()                                                      *)

Idle(c) == conn[c].at = "open" /\ conn[c].pending = <<>>

Answer_ThisOneHangs(c, cmd, k, g) ==
    LET hangs == cmd.verb = config.hang_after_command
    IN  conn' = [conn EXCEPT ![c] =
           [g EXCEPT !.inbox = Tail(@), !.cmd = cmd, !.hung = hangs,
                     !.pending = IF k \in Multi THEN <<k, "body">> ELSE <<k>>,
                     !.ignored = IF hangs THEN Append(@, cmd) ELSE @]]

\* The command cmd is answered k; g: the connection with what it changed.
Answer(c, cmd, k, g) ==
    LET hangs == g.hung \/ cmd.verb = config.hang_after_command
    IN  conn' = [conn EXCEPT ![c] =
           [g EXCEPT !.inbox = Tail(@), !.cmd = cmd, !.hung = hangs,
                     !.pending = IF k \in Multi THEN <<k, "body">> ELSE <<k>>,
                     !.ignored = IF hangs THEN Append(@, cmd) ELSE @]]

\* Attempts older than the window at the time t are popped from the front; one
\* with a later clock than t has age zero (duration_since saturates).
Recent(s, t) ==
    IF \E i \in DOMAIN s : t - s[i] <= RateWindow
    THEN SubSeq(s, CHOOSE i \in DOMAIN s :
                       t - s[i] <= RateWindow /\ \A j \in 1..(i - 1) : t - s[j] > RateWindow,
                Len(s))
    ELSE <<>>

CheckAndRecord_BeforeCounting(t) == Len(Recent(attempts, t)) > MaxAttempts

CheckAndRecord(t) == Len(Append(Recent(attempts, t), t)) > MaxAttempts

\* AUTHINFO PASS is the next command of c.
AtPass(c) ==
    /\ Idle(c) /\ ~conn[c].posting /\ conn[c].inbox # <<>>
    /\ Head(conn[c].inbox).verb = "PASS"

\* check_and_record() reads the clock before it has the lock: another
\* connection may read a later one and record it first.
ReadClock(c) ==
    /\ AtPass(c) /\ config.auth_rate_limit /\ read[c] = NotRead
    /\ read' = [read EXCEPT ![c] = now]
    /\ UNCHANGED <<config, conn, shared, history, now>>

\* With the lock: an attempt counts whatever becomes of it.
Pass(c) ==
    LET cmd     == Head(conn[c].inbox)
        limited == config.auth_rate_limit /\ CheckAndRecord(read[c])
        ok      == /\ ~limited /\ ~config.fail_auth
                   /\ config.valid_credentials => cmd.arg = "good"
    IN  /\ AtPass(c)
        /\ IF config.auth_rate_limit
           THEN /\ read[c] # NotRead
                /\ attempts' = Append(Recent(attempts, read[c]), read[c])
                /\ tries' = Append(tries, [conn |-> c, time |-> read[c], limited |-> limited])
                /\ read' = [read EXCEPT ![c] = NotRead]
           ELSE UNCHANGED <<attempts, tries, read>>
        /\ Answer(c, cmd, IF ok THEN "281" ELSE "481", [conn[c] EXCEPT !.auth = @ \/ ok])
        /\ UNCHANGED <<config, script, posted, scripted, now>>

\* The one-shot answers of an article go to whoever asks first.
Sequenced(cmd) ==
    cmd.verb = "ARTICLE" /\ cmd.arg \in DOMAIN script /\ script[cmd.arg] # <<>>

PopFront_Peek(m) == script

PopFront(m) == [script EXCEPT ![m] = Tail(@)]

ArticleSequenced(c) ==
    LET cmd == Head(conn[c].inbox)
    IN  /\ Idle(c) /\ ~conn[c].posting /\ conn[c].inbox # <<>>
        /\ conn[c].auth /\ Sequenced(cmd)
        /\ script' = PopFront(cmd.arg)
        /\ scripted' = Append(scripted, [conn |-> c, place |-> Len(conn[c].out) + 1,
                                         mid |-> cmd.arg, code |-> Head(script[cmd.arg])])
        /\ Answer(c, cmd, Head(script[cmd.arg]), conn[c])
        /\ UNCHANGED <<config, attempts, posted, tries, clocks>>

\* xover_range_outside_group()
OutsideGroup(range, g) ==
    config.range[range].end < config.groups[g].first \/ config.range[range].start > config.groups[g].last

\* Commands on the session; unknown ones too.
SessionCode(cmd) ==
    CASE cmd.verb = "QUIT"         -> "205"
      [] cmd.verb = "CAPABILITIES" -> IF "CAPABILITIES" \in config.unsupported THEN "500" ELSE "101"
      [] cmd.verb = "MODE"         -> IF cmd.arg = "READER" THEN "200" ELSE "501"
      [] cmd.verb = "USER"         -> IF config.fail_auth THEN "482" ELSE "381"
      [] OTHER                     -> "500"

\* Commands on groups and their listings.
ListingCode(cmd, group) ==
    LET has == cmd.verb \in config.entries
    IN  CASE cmd.verb = "GROUP" -> IF cmd.arg \in DOMAIN config.groups THEN "211" ELSE "411"
          [] cmd.verb = "XOVER" -> IF config.xover_423 /\ OutsideGroup(cmd.arg, group) THEN "423"
                                   ELSE IF has THEN "224" ELSE "420"
          [] cmd.verb = "HEAD"  -> IF has THEN "221" ELSE "423"
          [] cmd.verb = "XHDR"  -> IF has THEN "221" ELSE "420"
          [] cmd.verb = "XPAT"  -> IF "XPAT" \in config.unsupported THEN "500"
                                   ELSE IF has THEN "221" ELSE "420"
          [] cmd.verb = "LIST"  -> "215"

\* ARTICLE, BODY and STAT; an override wins over the article.
ArticleCode(cmd) ==
    IF cmd.arg \in DOMAIN config.overrides THEN config.overrides[cmd.arg]
    ELSE IF cmd.arg \notin config.articles THEN "430"
    ELSE CASE cmd.verb = "ARTICLE" -> "220"
           [] cmd.verb = "BODY"    -> "222"
           [] cmd.verb = "STAT"    -> "223"

PostCode == IF config.post_not_permitted THEN "440" ELSE "340"

\* The code of a command that passed the checks for the session.
Served(cmd, group) ==
    CASE cmd.verb \in {"ARTICLE", "BODY", "STAT"} -> ArticleCode(cmd)
      [] cmd.verb \in Guarded \ {"ARTICLE", "BODY", "STAT", "POST"} -> ListingCode(cmd, group)
      [] cmd.verb = "POST" -> PostCode
      [] OTHER -> SessionCode(cmd)

\* Every other command.
Command(c) ==
    LET cmd == Head(conn[c].inbox)
        k   == IF cmd.verb \in Guarded /\ ~conn[c].auth THEN "480"
               ELSE IF cmd.verb \in NeedGroup /\ conn[c].group = "-" THEN "412"
               ELSE Served(cmd, conn[c].group)
    IN  /\ Idle(c) /\ ~conn[c].posting /\ conn[c].inbox # <<>>
        /\ cmd.verb # "PASS" /\ ~(conn[c].auth /\ Sequenced(cmd))
        /\ Answer(c, cmd, k, [conn[c] EXCEPT !.group = IF k = "211" THEN cmd.arg ELSE @])
        /\ UNCHANGED <<config, shared, history, clocks>>

Captured_FirstOnly(c) ==
    /\ Idle(c) /\ conn[c].posting /\ conn[c].inbox # <<>>
    /\ posted' = IF posted = <<>> THEN <<c>> ELSE posted
    /\ Answer(c, Head(conn[c].inbox), "240", [conn[c] EXCEPT !.posting = FALSE])
    /\ UNCHANGED <<config, attempts, script, history, clocks>>

\* read_posted_article() ends: the article is kept, then acknowledged.
Captured(c) ==
    /\ Idle(c) /\ conn[c].posting /\ conn[c].inbox # <<>>
    /\ posted' = Append(posted, c)
    /\ Answer(c, Head(conn[c].inbox), "240", [conn[c] EXCEPT !.posting = FALSE])
    /\ UNCHANGED <<config, attempts, script, history, clocks>>

\* The part p of an answer is behind: POST waits for its article; QUIT and
\* close_after_n_commands end the connection once the command is over.
Behind(g, p) ==
    LET over == g.cmd.verb = "QUIT" \/ g.processed + 1 >= config.close_after_n_commands
    IN  IF p = "banner" THEN [g EXCEPT !.pending = <<>>]
        ELSE IF Len(g.pending) > 1 THEN [g EXCEPT !.pending = Tail(@)]
        ELSE IF p = "340" THEN [g EXCEPT !.pending = <<>>, !.posting = TRUE]
        ELSE [g EXCEPT !.pending = <<>>, !.processed = @ + 1,
                       !.at = IF over THEN "closing" ELSE @]

\* ConnState.write(): nothing when hung, and cut at the limit of bytes.
Write(c) ==
    LET g    == conn[c]
        p    == Head(g.pending)
        room == config.silent_close_after_bytes - g.written
        wrote == [g EXCEPT !.out = IF p = "banner" THEN @ ELSE Append(@, Part(c, p)),
                           !.written = @ + 2]
    IN  /\ g.at = "open" /\ g.pending # <<>>
        /\ conn' = [conn EXCEPT ![c] =
                       IF g.hung THEN Behind(g, p)
                       ELSE IF room >= 2 THEN Behind(wrote, p)
                       ELSE Closed(g)]
        /\ UNCHANGED <<config, shared, history, clocks>>

\* A write to a client that left fails, ...
WriteFails(c) ==
    /\ conn[c].at = "open" /\ conn[c].pending # <<>> /\ conn[c].left /\ ~conn[c].hung
    /\ conn' = [conn EXCEPT ![c] = Closed(@)]
    /\ UNCHANGED <<config, shared, history, clocks>>

\* ... or the end of its commands is read; or the handler is over.
Close(c) ==
    /\ conn[c].at = "closing" \/ (Idle(c) /\ conn[c].left /\ conn[c].inbox = <<>>)
    /\ conn' = [conn EXCEPT ![c] = Closed(@)]
    /\ UNCHANGED <<config, shared, history, clocks>>

Tick ==
    /\ config.auth_rate_limit /\ now < MaxNow
    /\ now' = now + 1
    /\ UNCHANGED <<config, conn, shared, history, read>>

Next ==
    \/ \E c \in Conns :
          \/ Accept(c) \/ SendArticle(c) \/ Leave(c)
          \/ \E cmd \in config.menu : Send(c, cmd)
          \/ ReadClock(c) \/ Pass(c) \/ ArticleSequenced(c) \/ Command(c) \/ Captured(c)
          \/ Write(c) \/ WriteFails(c) \/ Close(c)
    \/ Tick

Spec == Init /\ [][Next]_vars

-----------------------------------------------------------------------------
(* Properties                                                               *)

\* Commands and answers of a connection as the clients of the crate see them.
Alive(g) == g.at \in {"open", "closing"}

Owed(g) ==
    LET lines(s) == [i \in DOMAIN s |-> [for |-> s[i], part |-> "line"]]
    IN  IF ~Alive(g) THEN <<>>
        ELSE IF g.hung THEN lines(g.ignored \o g.inbox)
        ELSE IF g.cmd.verb = "-" \/ g.pending = <<>> THEN lines(g.inbox)
        ELSE <<[for |-> g.cmd, part |-> IF Head(g.pending) = "body" THEN "body" ELSE "line"]>>
             \o lines(g.inbox)

W(c) == INSTANCE Wire WITH cmds   <- Owed(conn[c]),
                           stream <- conn[c].out,
                           alive  <- Alive(conn[c])

Kinds == UNION {{p.kind : p \in {conn[c].out[i] : i \in DOMAIN conn[c].out}} : c \in Conns}

\* The code a body follows, for each command that has one: what the clients of
\* the crate take for it (the rows of NntpConnection), but that for LIST EXTENSIONS
\* they expect the body after 202, and this server sends it after 215.
BodyCodes(cmd) ==
    CASE cmd.verb = "ARTICLE"                  -> {"220"}
      [] cmd.verb = "BODY"                     -> {"222"}
      [] cmd.verb \in {"HEAD", "XHDR", "XPAT"} -> {"221"}
      [] cmd.verb = "XOVER"                    -> {"224"}
      [] cmd.verb = "CAPABILITIES"             -> {"101"}
      [] cmd.verb = "LIST"                     -> {"215"}
      [] OTHER                                 -> {}

\* A step of Wire, with the command that is answered deciding on the body.
WireStep(c) ==
    \/ W(c)!OpenWire
    \/ \E cmd \in config.menu \cup {Text} :
          W(c)!WriteCmd(cmd) /\ UNCHANGED <<conn[c].out, Alive(conn[c])>>
    \/ W(c)!SendPart(Kinds', BodyCodes(Head(Owed(conn[c])).for))
    \/ W(c)!ServerClose

(* Every connection of the mock server, whatever fault it injects, behaves  *)
(* like the server that the models of the pipelines and of the connection   *)
(* assume: it answers in the order of the commands, each one once, and a    *)
(* body follows exactly the code after which the client reads one for that  *)
(* command (LIST EXTENSIONS excepted, whose list it sends after 215 where   *)
(* connect() reads one after 202 only); it may fall silent, and it may      *)
(* close at any point.                                                      *)
ServesWire == [][\A c \in Conns :
                    \/ UNCHANGED <<Owed(conn[c]), conn[c].out, Alive(conn[c])>>
                    \/ WireStep(c)]_vars

\* The attempts 1..i not yet expired by any clock read for them.
Unexpired(i) ==
    {j \in 1..i : \A m \in 1..i : tries[m].time - tries[j].time <= RateWindow}

(* The limiter refuses an AUTHINFO PASS if more than MaxAttempts of those   *)
(* recorded up to it, by any connection and the refused ones included, have *)
(* not expired by the clock of any of them; and only if more than that have *)
(* been recorded since one inside the window of this attempt, itself        *)
(* included.  Where attempts are recorded in the order of their clocks both *)
(* say what the window holds; an attempt overtaken between its clock and    *)
(* the lock may keep an expired one in the count.                           *)
RateLimited ==
    \A i \in DOMAIN tries :
        /\ Cardinality(Unexpired(i)) > MaxAttempts => tries[i].limited
        /\ tries[i].limited =>
              \E f \in 1..i : /\ tries[i].time - tries[f].time <= RateWindow
                              /\ i - f + 1 > MaxAttempts

\* One-shot answers of an article, as their places in the history.
Taken(m) == {i \in DOMAIN scripted : scripted[i].mid = m}

ScriptInOrder ==
    \A m \in DOMAIN script :
        /\ script[m] = SubSeq(config.script[m], Cardinality(Taken(m)) + 1, Len(config.script[m]))
        /\ \A i \in Taken(m) :
              scripted[i].code = config.script[m][Cardinality({j \in Taken(m) : j <= i})]

\* The reply at a place is the answer taken for it; if there is none yet, it is
\* about to be written or never will be.
GivenOnce ==
    \A i \in DOMAIN scripted :
        LET e == scripted[i]
            g == conn[e.conn]
        IN  IF e.place \in DOMAIN g.out
            THEN /\ g.out[e.place] = [for |-> [verb |-> "ARTICLE", arg |-> e.mid], kind |-> e.code]
                 /\ \A j \in DOMAIN scripted :
                       scripted[j].conn = e.conn /\ scripted[j].place = e.place => j = i
            ELSE g.pending # <<>> \/ g.hung \/ g.at = "closed"

\* A reply to ARTICLE is one of these, unless they were used up.
NoneSkipped ==
    \A c \in Conns : \A k \in DOMAIN conn[c].out :
        LET p == conn[c].out[k]
        IN  p.for.verb = "ARTICLE" /\ p.for.arg \in DOMAIN script /\ p.kind \notin {"480", "body"} =>
                \/ script[p.for.arg] = <<>>
                \/ \E i \in DOMAIN scripted : scripted[i].conn = c /\ scripted[i].place = k

(* The one-shot answers of an article are given in order, each to one       *)
(* request of one connection; only one that hung or closed loses the answer *)
(* it took; and nothing else is answered for the article while some are     *)
(* left, but that authentication is required.                               *)
ScriptOnce == ScriptInOrder /\ GivenOnce /\ NoneSkipped

(* An article acknowledged with 240 was captured, once; one captured and    *)
(* not acknowledged had its connection hung, cut or closed.                 *)
PostedOnce ==
    \A c \in Conns :
        LET kept == Cardinality({i \in DOMAIN posted : posted[i] = c})
            acks == Cardinality({i \in DOMAIN conn[c].out : conn[c].out[i].kind = "240"})
        IN  /\ acks <= kept
            /\ acks < kept => acks + 1 = kept /\ (conn[c].pending # <<>> \/ conn[c].at = "closed")
=============================================================================
