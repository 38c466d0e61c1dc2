--------------------------- MODULE NntpConnection ---------------------------
(***************************************************************************)
(* One NntpConnection of src/connection.rs and its session with a server:  *)
(* the connect sequence (greeting, AUTHINFO, CAPABILITIES, MODE READER,    *)
(* compression), the commands, their bodies, QUIT and reconnection.  Every *)
(* await of the code is a step that may fail, time out or never return     *)
(* because its future is dropped.                                          *)
(*                                                                         *)
(* A command is its name.  The commands that differ only in their text and *)
(* in the codes they accept share their steps; the tables below hold what  *)
(* differs.  Message texts and the parsing of bodies are left out.         *)
(***************************************************************************)
EXTENDS Naturals, FiniteSets, Wire

CONSTANTS
    Ops,           \* commands the users of the connection call
    Codes,         \* status codes the server answers with, as strings
    ServerConfigs, \* [username, password, compress] the users connect with
    Advertised,    \* sets of labels a capability list of the server may have
    MaxOwed        \* a bound: a session with more unread replies is not used

ASSUME ServerConfigsAssumption ==
    ServerConfigs \subseteq [username : BOOLEAN, password : BOOLEAN, compress : BOOLEAN]
ASSUME AdvertisedAssumption ==
    Advertised \subseteq SUBSET {"READER", "MODE-READER", "OVER", "HDR", "POST", "IHAVE"}
ASSUME CodesAssumption == Codes \cap {"none", "body", "garbled"} = {}

ASSUME MaxOwedAssumption == MaxOwed \in Nat

VARIABLES
    state,      \* NntpConnection.state
    transport,  \* NntpConnection.transport is Some
    compress,   \* NntpConnection.compress_enabled
    caps,       \* NntpConnection.capabilities: reader, mode_reader_required and
                \* the content commands `have`
    cmd,        \* the command in progress, "none": nobody is in a call
    phase,      \* "open", "send", "line" or "body" of that command
    config,     \* the configuration given to connect()
    ret,        \* how the last call ended
    gzip,       \* the server compresses, external
    disabled,   \* history: disable_compression() was called in this session
    owed        \* history: the probes and QUITs this session was left in the
                \* middle of while it is Ready

connVars == <<state, transport, compress, caps, cmd, phase, config, ret, disabled, owed>>
vars == <<connVars, gzip, wireVars>>

ConnStates == {"Disconnected", "Connecting", "Authenticating", "Ready", "Busy", "Error"}

\* Commands of connect(), in its order; "greeting" is the banner.
Handshake == {"tcp", "greeting", "user", "pass", "caps", "mode", "ext", "gzip"}
Probes == {"caps", "mode", "ext", "gzip"}

AllOps == {"article", "head", "stat", "date", "group", "format", "list", "lossless", "xover",
           "xhdr", "xpat", "body", "prefix", "post", "postbytes"}

ASSUME OpsAssumption == Ops \subseteq AllOps

\* A row of the table of commands.  body: the code that announces a body,
\* "none" if none does; accepted: other codes after which the call has succeeded
\* and the connection is Ready again; declined: those after which it is Ready
\* too, and the caller gets an error; needs: the content command the operation
\* is refused without; bounded: whether its body may exceed a bound.  After any
\* other code the connection is in Error.
Row(body, accepted, declined, needs, bounded) ==
    [body |-> body, accepted |-> accepted, declined |-> declined, needs |-> needs,
     bounded |-> bounded]

FetchArticle    == Row("220", {}, {"411", "412", "420", "423", "430"}, {}, FALSE)
FetchHeadNumber == Row("221", {}, {"411", "412", "420", "423"}, {"head"}, TRUE)
StatArticle     == Row("none", {"223"}, {"430"}, {"stat"}, FALSE)
Ping            == Row("none", Codes \ {"400", "403", "480", "481", "482", "502"}, {}, {}, FALSE)
Group           == Row("none", {"211"}, {"411"}, {}, FALSE)
OverviewFormat  == Row("215", {}, {}, {}, FALSE)
XoverLossless   == Row("224", {"420", "423"}, {"412"}, {}, TRUE)
Xover           == Row("224", {"420", "423"}, {"412"}, {}, FALSE)
Xhdr            == Row("221", {"420", "423"}, {"412", "430"}, {}, FALSE)
Xpat            == Row("221", {"420", "423"}, {"412", "430", "500", "501"}, {}, TRUE)
FetchBody       == Row("222", {}, {"412", "420", "423", "430"}, {}, FALSE)
FetchBodyPrefix == Row("222", {}, {"412", "420", "423", "430", "500", "501"}, {"body"}, TRUE)
ListActive      == Row("215", {}, {}, {}, FALSE)

\* 340 asks for the article: the command "sent", whose reply may be any.
PostArticle      == Row("none", {"440"}, {}, {}, FALSE)
PostArticleBytes == Row("none", {"440"}, {}, {}, FALSE)
ArticleSent      == Row("none", Codes, {}, {}, FALSE)

\* Of the commands of connect() two have a body.
Capabilities == Row("101", {}, {}, {}, FALSE)
Extensions   == Row("202", {}, {}, {}, FALSE)

RowOf(c) ==
    CASE c = "article" -> FetchArticle [] c = "head" -> FetchHeadNumber
      [] c = "stat" -> StatArticle [] c = "date" -> Ping [] c = "group" -> Group
      [] c = "format" -> OverviewFormat [] c = "list" -> ListActive
      [] c = "lossless" -> XoverLossless [] c = "xover" -> Xover
      [] c = "xhdr" -> Xhdr [] c = "xpat" -> Xpat
      [] c = "body" -> FetchBody [] c = "prefix" -> FetchBodyPrefix
      [] c = "post" -> PostArticle [] c = "postbytes" -> PostArticleBytes
      [] c = "sent" -> ArticleSent
      [] c = "caps" -> Capabilities [] c = "ext" -> Extensions
      [] OTHER -> Row("none", {}, {}, {}, FALSE)

BodyCode(c) == RowOf(c).body
Accepted(c) == RowOf(c).accepted

Declined_Any(c) == Codes \ {"480", "481", "482", "502"}

Declined(c) == RowOf(c).declined

Posting == {"post", "postbytes"}

\* The commands a capability list enables, all four or none.
Content == {"article", "body", "head", "stat"}

\* NntpCapabilities::default_assumed()
DefaultCaps == [reader |-> TRUE, modeReader |-> FALSE, have |-> Content]

ParseCaps(labels) ==
    [reader |-> "READER" \in labels,
     modeReader |-> "MODE-READER" \in labels,
     have |-> IF labels = {} THEN {} ELSE Content]

\* A list that enables nothing is not taken at its word.
Probed(labels) ==
    LET parsed == ParseCaps(labels)
    IN  IF parsed.have = {} THEN [parsed EXCEPT !.have = Content] ELSE parsed

-----------------------------------------------------------------------------
Init ==
    /\ cmds = <<>> /\ stream = <<>> /\ alive = FALSE
    /\ state = "Disconnected"
    /\ transport = FALSE
    /\ compress = FALSE
    /\ caps = DefaultCaps
    /\ cmd = "none" /\ phase = "none"
    /\ config \in ServerConfigs
    /\ ret = "none"
    /\ gzip = FALSE
    /\ disabled = FALSE
    /\ owed = {}

\* The next command of the call is about to be written.
GoOn(c) == cmd' = c /\ phase' = "send" /\ ret' = ret

Return_InPhase(r) == cmd' = "none" /\ phase' = phase /\ ret' = r

\* The call returns.
Return(r) == cmd' = "none" /\ phase' = "none" /\ ret' = r

\* connect() goes on after the probe it has just done; its call has succeeded.
AfterProbe(c, cs) ==
    LET reader == c = "caps" /\ cs.modeReader /\ ~cs.reader
        ext == ~reader /\ c \in {"caps", "mode"} /\ config.compress
    IN  \/ reader /\ GoOn("mode")
        \/ ext /\ GoOn("ext")
        \/ ~reader /\ ~ext /\ Return("ok")

-----------------------------------------------------------------------------
(* connect()                                                                *)

\* connect() has no guard on the state: it also replaces an open session.
Connect ==
    /\ cmd = "none"
    /\ state' = "Connecting"
    /\ cmd' = "tcp" /\ phase' = "open"
    /\ config' \in ServerConfigs
    /\ ret' = "none"
    /\ UNCHANGED <<transport, compress, caps, disabled, owed, gzip, wireVars>>

\* TCP, proxy and TLS succeed; the old transport, if any, is dropped.
Opened ==
    /\ cmd = "tcp"
    /\ transport' = TRUE
    /\ cmd' = "greeting" /\ phase' = "line"
    /\ cmds' = <<[for |-> "greeting", part |-> "line"]>>
    /\ stream' = <<>> /\ alive' = TRUE
    /\ gzip' = FALSE /\ disabled' = FALSE /\ owed' = {}
    /\ UNCHANGED <<state, compress, caps, config, ret>>

\* TCP, proxy and handshake errors set Error; a bad TLS configuration or host
\* name is returned before the state is set.
OpenFail ==
    /\ cmd = "tcp"
    /\ state' \in {"Error", "Connecting"}
    /\ Return("fatal")
    /\ UNCHANGED <<transport, compress, caps, config, disabled, owed, gzip, wireVars>>

Greeted(code) ==
    \/ /\ code \in {"200", "201"}
       /\ IF config.username
          THEN state' = "Authenticating" /\ GoOn("user")
          ELSE state' = "Ready" /\ GoOn("caps")
    \/ /\ code \notin {"200", "201"}
       /\ state' = "Error" /\ Return("fatal")

\* 480 after AUTHINFO USER also asks for the password.
UserReply(code) ==
    \/ code = "281" /\ state' = "Ready" /\ GoOn("caps")
    \/ code \in {"381", "480"} /\ config.password /\ state' = state /\ GoOn("pass")
    \/ code \in {"381", "480"} /\ ~config.password /\ state' = state /\ Return("fatal")
    \/ code \notin {"281", "381", "480"} /\ state' = "Error" /\ Return("fatal")

PassReply(code) ==
    \/ code = "281" /\ state' = "Ready" /\ GoOn("caps")
    \/ code # "281" /\ state' = "Error" /\ Return("fatal")

Negotiated_Ignored(code) == compress' = compress

Negotiated(code) == compress' = IF code = "290" THEN TRUE ELSE compress

\* The reply to a probe that has no body; 101 and 202 are followed by one.
ProbeReply(code) ==
    /\ \/ cmd = "caps" /\ caps' = DefaultCaps /\ compress' = compress
       \/ cmd = "mode" /\ caps' = (IF code \in {"200", "201"}
                                    THEN [reader |-> TRUE, modeReader |-> caps.modeReader,
                                          have |-> Content]
                                    ELSE caps)
                       /\ compress' = compress
       \/ cmd = "ext" /\ caps' = caps /\ compress' = compress
       \/ cmd = "gzip" /\ caps' = caps /\ Negotiated(code)
    /\ AfterProbe(cmd, caps')
    /\ state' = state

\* A probe that fails is logged and connect() goes on, in the state Ready.
ProbeFail ==
    /\ caps' = IF cmd = "caps" THEN DefaultCaps ELSE caps
    /\ AfterProbe(cmd, caps')
    /\ UNCHANGED <<state, compress>>

\* connect_timeout_secs is over.
ConnectTimeout ==
    /\ cmd \in Handshake
    /\ state' = "Error"
    /\ Return("fatal")
    /\ UNCHANGED <<transport, compress, caps, config, disabled, owed, gzip, wireVars>>

-----------------------------------------------------------------------------
(* The commands                                                             *)

\* fetch_body falls back to ARTICLE when the server lists no BODY.
CommandOf(op) ==
    IF op = "body" /\ "body" \notin caps.have /\ "article" \in caps.have THEN "article" ELSE op

Start_AnyState(op) ==
    /\ cmd = "none" /\ transport
    /\ Len(cmds) + Len(stream) <= MaxOwed
    /\ state' = "Busy"
    /\ cmd' = CommandOf(op) /\ phase' = "send"
    /\ ret' = "none"
    /\ UNCHANGED <<transport, compress, caps, config, disabled, owed, gzip, wireVars>>

\* Out of Ready, without the capability, or for a body prefix on a compressed
\* connection, the call returns at once and nothing changes.
Start(op) ==
    /\ cmd = "none"
    /\ Len(cmds) + Len(stream) <= MaxOwed
    /\ state = "Ready"
    /\ RowOf(op).needs \subseteq caps.have
    /\ op = "prefix" => ~compress
    /\ state' = "Busy"
    /\ cmd' = CommandOf(op) /\ phase' = "send"
    /\ ret' = "none"
    /\ UNCHANGED <<transport, compress, caps, config, disabled, owed, gzip, wireVars>>

\* send_command(), and the lines and the terminator of a posted article.
Send ==
    /\ phase = "send"
    /\ WriteCmd(cmd)
    /\ phase' = "line"
    /\ UNCHANGED <<state, transport, compress, caps, cmd, config, ret, disabled,
                   owed, gzip, stream, alive>>

\* `?` in the greeting and in authenticate() leaves the state as it is; the
\* commands set Error.
Fail == IF cmd \in Handshake THEN state' = state ELSE state' = "Error"

\* The command in progress is given up and may yet be answered.
LeftBehind(given) == owed' = IF given THEN owed \cup {cmd} ELSE owed

\* A write fails or takes longer than WRITE_TIMEOUT; the server may still get
\* the command.
SendFail ==
    /\ phase = "send"
    /\ \/ cmd \in Probes /\ ProbeFail
       \/ cmd \notin Probes \cup {"quit"} /\ Fail /\ Return("fatal") /\ UNCHANGED <<caps, compress>>
    /\ WriteCmd(cmd) \/ cmds' = cmds
    /\ LeftBehind(cmd \in Probes /\ cmds' # cmds)
    /\ UNCHANGED <<transport, config, disabled, gzip, stream, alive>>

\* The reply to a command: a body follows, or the call is over.
CommandReply(code) ==
    \/ cmd \in Posting /\ code = "340" /\ GoOn("sent") /\ state' = state
    \/ code \in Accepted(cmd) /\ state' = "Ready" /\ Return("ok")
    \/ code \in Declined(cmd) /\ state' = "Ready" /\ Return("declined")
    \/ /\ code \notin Accepted(cmd) \cup Declined(cmd)
       /\ ~(cmd \in Posting /\ code = "340")
       /\ state' = "Error" /\ Return("fatal")

Reply(code) ==
    \/ /\ code = BodyCode(cmd)
       /\ phase' = "body"
       /\ UNCHANGED <<cmd, ret, state, caps, compress>>
    \/ /\ code # BodyCode(cmd)
       /\ \/ cmd = "greeting" /\ Greeted(code) /\ UNCHANGED <<caps, compress>>
          \/ cmd = "user" /\ UserReply(code) /\ UNCHANGED <<caps, compress>>
          \/ cmd = "pass" /\ PassReply(code) /\ UNCHANGED <<caps, compress>>
          \/ cmd \in Probes /\ ProbeReply(code)
          \/ cmd \notin Handshake \cup {"quit"} /\ CommandReply(code)
                                                /\ UNCHANGED <<caps, compress>>

\* A status line is read.
ReadLine ==
    /\ phase = "line"
    /\ cmd # "quit"
    /\ TakePart
    /\ Head(stream).kind \in Codes
    /\ Reply(Head(stream).kind)
    /\ UNCHANGED <<transport, config, disabled, owed, gzip>>

\* The call does not get what it reads for: a probe is given up.
ReadFails ==
    /\ \/ cmd \in Probes /\ ProbeFail
       \/ cmd \notin Probes /\ Fail /\ Return("fatal") /\ UNCHANGED <<caps, compress>>
    /\ UNCHANGED <<transport, config, disabled, gzip>>

ReadTimeout_LineOnly ==
    /\ phase = "line" /\ cmd # "quit"
    /\ stream = <<>>
    /\ ReadFails
    /\ LeftBehind(cmd \in Probes /\ cmds # <<>>)
    /\ UNCHANGED wireVars

\* Nothing arrives within READ_LINE_TIMEOUT or READ_BODY_LINE_TIMEOUT, or the
\* stream has ended.
ReadTimeout ==
    /\ phase \in {"line", "body"} /\ cmd # "quit"
    /\ stream = <<>>
    /\ ReadFails
    /\ LeftBehind(cmd \in Probes /\ cmds # <<>>)
    /\ UNCHANGED wireVars

\* What arrives is no status line.
Garbled ==
    /\ phase = "line" /\ cmd # "quit"
    /\ TakePart
    /\ Head(stream).kind \notin Codes
    /\ ReadFails
    /\ owed' = owed

\* The body, or a line of it, is longer than its bound.
TooLarge ==
    /\ phase = "body" /\ RowOf(cmd).bounded
    /\ stream # <<>>
    /\ ReadFails
    /\ owed' = owed
    /\ UNCHANGED wireVars

\* The body of a bounded reply is read but does not inflate, or not within its
\* bound; other bodies that do not inflate are returned as they are.
Undecodable ==
    /\ phase = "body" /\ RowOf(cmd).bounded /\ compress
    /\ TakePart
    /\ Head(stream).kind = "body"
    /\ ReadFails
    /\ owed' = owed

\* The whole body is read.
ReadBody ==
    /\ phase = "body"
    /\ TakePart
    /\ Head(stream).kind = "body"
    /\ \/ /\ cmd = "caps"
          /\ \E labels \in Advertised : caps' = Probed(labels)
          /\ AfterProbe(cmd, caps') /\ state' = state
       \/ /\ cmd = "ext"
          /\ caps' = caps /\ state' = state
          /\ GoOn("gzip") \/ Return("ok")
       \/ /\ cmd \notin Probes
          /\ state' = "Ready" /\ Return("ok") /\ caps' = caps
    /\ UNCHANGED <<transport, compress, config, disabled, owed, gzip>>

PrefixCut_KeepsReady ==
    /\ phase = "body" /\ cmd = "prefix" /\ stream # <<>>
    /\ state' = "Ready"
    /\ Return("ok")
    /\ UNCHANGED <<transport, compress, caps, config, disabled, owed, gzip, wireVars>>

\* fetch_body_prefix has enough: the rest of the body makes the session useless.
PrefixCut ==
    /\ phase = "body" /\ cmd = "prefix" /\ stream # <<>>
    /\ transport' = FALSE /\ compress' = FALSE
    /\ state' = "Disconnected"
    /\ Return("ok")
    /\ UNCHANGED <<caps, config, disabled, owed, gzip, wireVars>>

-----------------------------------------------------------------------------
(* quit() and the caller                                                    *)

Quit ==
    /\ cmd = "none" /\ transport
    /\ Len(cmds) + Len(stream) <= MaxOwed
    /\ cmd' = "quit" /\ phase' = "send"
    /\ UNCHANGED <<state, transport, compress, caps, config, ret, disabled, owed, gzip, wireVars>>

\* The reply to QUIT, or any failure: compress_enabled is left as it is.
QuitEnd ==
    /\ cmd = "quit"
    /\ transport' = FALSE
    /\ state' = "Disconnected"
    /\ Return("ok")
    /\ UNCHANGED <<compress, caps, config, disabled, owed, gzip, wireVars>>

\* The future of a call is dropped at one of its awaits.
Cancel ==
    /\ cmd # "none"
    /\ LeftBehind(cmd \in Probes \cup {"quit"} /\ state = "Ready")
    /\ Return("cancelled")
    /\ UNCHANGED <<state, transport, compress, caps, config, disabled, gzip, wireVars>>

DisableCompression ==
    /\ cmd = "none" /\ compress
    /\ compress' = FALSE
    /\ disabled' = TRUE
    /\ UNCHANGED <<state, transport, caps, cmd, phase, config, ret, owed, gzip, wireVars>>

-----------------------------------------------------------------------------
(* The server                                                               *)

\* Codes it gives a meaning in the reply to c, and one more for all others.
Replies(c) ==
    {BodyCode(c), "400"} \cup Declined(c)
    \cup CASE c = "greeting" -> {"200"}
           [] c = "user" -> {"281", "381", "480"}
           [] c = "pass" -> {"281"}
           [] c = "mode" -> {"200"}
           [] c = "gzip" -> {"290"}
           [] c = "date" -> {"111"}
           [] c \in Posting -> {"340", "440"}
           [] c = "sent" -> {"240"}
           [] OTHER -> Accepted(c)

\* It answers in order; with 290 it starts to compress.
Answer ==
    /\ cmds # <<>>
    /\ LET c == Head(cmds).for
       IN  SendPart((Codes \cap Replies(c)) \cup {"garbled"}, {BodyCode(c)} \ {"none"})
    /\ gzip' = (gzip \/ (Head(cmds).for = "gzip" /\ stream'[Len(stream')].kind = "290"))
    /\ UNCHANGED connVars

ServerEnds == ServerClose /\ UNCHANGED <<connVars, gzip>>

\* Steps of a call in progress; each read and write has a timeout.
Client ==
    \/ Opened \/ OpenFail \/ ConnectTimeout
    \/ Send \/ SendFail \/ ReadLine \/ ReadBody \/ ReadTimeout \/ Garbled \/ TooLarge
    \/ Undecodable \/ PrefixCut \/ QuitEnd

Next ==
    \/ Connect \/ (\E op \in Ops : Start(op)) \/ Quit \/ Cancel \/ DisableCompression
    \/ Client \/ Answer \/ ServerEnds

Spec == Init /\ [][Next]_vars

FairSpec == Spec /\ WF_vars(Client)

-----------------------------------------------------------------------------
(* Properties                                                               *)

Commands == Handshake \cup Ops \cup {"article", "quit", "sent"}

\* Those that set Busy.
Running == Commands \ (Handshake \cup {"quit"})

(* Every variable keeps its type.                                           *)
TypeOK ==
    /\ state \in {"Disconnected", "Connecting", "Authenticating", "Ready", "Busy", "Error"}
    /\ transport \in BOOLEAN /\ compress \in BOOLEAN /\ gzip \in BOOLEAN
    /\ caps \in [reader : BOOLEAN, modeReader : BOOLEAN, have : SUBSET Content]
    /\ cmd \in Commands \cup {"none"}
    /\ phase \in {"none", "open", "send", "line", "body"}
    /\ (cmd = "none") <=> (phase = "none")
    /\ config \in ServerConfigs
    /\ ret \in {"none", "ok", "declined", "fatal", "cancelled"}
    /\ disabled \in BOOLEAN /\ owed \subseteq Probes \cup {"quit"} /\ alive \in BOOLEAN
    /\ cmds \in Seq([for : Commands, part : {"line", "body"}])
    /\ stream \in Seq([for : Commands, kind : Codes \cup {"body", "garbled"}])

(* "Ready: Authenticated and idle, ready for commands."  No reply is        *)
(* outstanding on a connection that is Ready and that nobody uses, whatever *)
(* calls failed, timed out, were dropped or reconnected before; except when *)
(* connect() gave up a probe the server still answers, or was dropped in a  *)
(* probe, or quit() was dropped.                                            *)
ReadyMeansAligned ==
    cmd = "none" /\ state = "Ready" /\ owed = {} => cmds = <<>> /\ stream = <<>>

(* What a command reads is the reply to it and not to an earlier one, in a  *)
(* session that was not left in the middle of a probe or of QUIT.           *)
OwnReply ==
    [][(cmd \in Running /\ owed = {} /\ stream # <<>> /\ stream' = Tail(stream))
         => Head(stream).for = cmd]_vars

(* stat_article: "every other code means the provider refused or is going   *)
(* away, so the connection must not be returned to the pool as Ready."  For *)
(* every command, but the outcome of a posting.                             *)
SessionOver ==
    [][(cmd \in Running \ {"sent"} /\ phase = "line" /\ cmd' = "none" /\ ret' # "cancelled"
          /\ stream # <<>> /\ Head(stream).kind \in {"400", "403", "480", "481", "482", "502"})
         => state' # "Ready"]_vars

(* A call that failed for its connection leaves it unusable.                *)
FatalNotReady == ret = "fatal" /\ cmd = "none" => state # "Ready"

(* No compressed body is returned as if it were the article: a server that  *)
(* compresses is known to, unless disable_compression() was called or       *)
(* connect() gave up, or was dropped in, XFEATURE GZIP itself: its 290 then *)
(* arrives after the state is Ready.  No other probe that is left behind,   *)
(* and no QUIT, leads to it.                                                *)
GzipKnown ==
    cmd \in Running /\ gzip /\ ~disabled => compress \/ "gzip" \in owed

(* No capability list stops the content commands: "a probed response that   *)
(* yields zero usable content-command flags would silently break BODY/STAT  *)
(* for every caller".                                                       *)
ContentUsable == caps.have = Content

(* Every call returns, whatever the server does.                            *)
Returns == cmd # "none" ~> cmd = "none"
=============================================================================
